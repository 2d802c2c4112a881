----------------------------- MODULE ViewingSlot -----------------------------
(***************************************************************************)
(* What the two parties of a conversation are promised about viewing       *)
(* proposals, with no transactions, locks or handlers in sight: there is   *)
(* one slot; a new proposal takes it and closes the one it displaces as    *)
(* superseded; an answer closes the one in the slot; what is closed stays  *)
(* as it was closed.                                                       *)
(***************************************************************************)
CONSTANTS
  Proposal,   \* message ids of viewing proposals
  NoProposal  \* the empty slot

VARIABLES
  slot,       \* the proposal that can be answered
  closed      \* how each proposal was closed, "none" while it was not

Answers == {"accepted", "declined"}

Init ==
  /\ slot = NoProposal
  /\ closed = [p \in Proposal |-> "none"]

Propose(p) ==
  /\ p # slot
  /\ closed[p] = "none"
  /\ slot' = p
  /\ closed' = [q \in Proposal |-> IF q = slot THEN "superseded" ELSE closed[q]]

Answer(a) ==
  /\ slot \in Proposal
  /\ slot' = NoProposal
  /\ closed' = [closed EXCEPT ![slot] = a]

\* The conversation goes away with its listing.
Vanish ==
  /\ slot' = NoProposal
  /\ closed' = [p \in Proposal |-> "none"]

Next == Vanish \/ (\E p \in Proposal : Propose(p)) \/ (\E a \in Answers : Answer(a))

Spec == Init /\ [][Next]_<<slot, closed>>
=============================================================================
