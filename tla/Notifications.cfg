\* A confirmed match and a new message, two stops or lost connections.
CONSTANTS
  match = match
  message = message
  lister = lister
  renter = renter
  Notification = {match, message}
  Recipient = {lister, renter}
  ToWhom <- MCToWhom
  MaxStops = 2
SPECIFICATION FairMailSpec
INVARIANTS
  HeldWhileHandled
  RepeatsOnlyAfterRequeue
PROPERTIES
  EachSettles
CHECK_DEADLOCK FALSE
