--------------------------- MODULE MCNotifications ---------------------------
(***************************************************************************)
(* Notifications with a confirmed match, two mails, and a new message, one.*)
(***************************************************************************)
EXTENDS Notifications

CONSTANTS match, message, lister, renter

MCToWhom == [m \in Notification |->
  IF m = match THEN <<lister, renter>> ELSE <<lister>>]
=============================================================================
