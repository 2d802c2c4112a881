\* Three proposals, two answers in flight, either party proposing.
CONSTANTS
  renter = renter
  lister = lister
  p1 = p1
  p2 = p2
  p3 = p3
  Party = {renter, lister}
  Proposal = {p1, p2, p3}
  SentBy <- MCSentBy
  Responder = {r1, r2}
  NoProposal = NoProposal
SPECIFICATION FairSpec
INVARIANTS
  AtMostOnePending
  OneAnswerAnnounced
  AnnouncedIsStored
PROPERTIES
  ImplementsSlot
  ProposalsFinish
CHECK_DEADLOCK FALSE
