----------------------------- MODULE MCViewings -----------------------------
(***************************************************************************)
(* Viewings with three proposals: two of the renter, which may overlap each*)
(* other as well as the lister's one.                                      *)
(***************************************************************************)
EXTENDS Viewings

CONSTANTS renter, lister, p1, p2, p3

MCSentBy == [p \in Proposal |-> IF p = p3 THEN lister ELSE renter]
=============================================================================
