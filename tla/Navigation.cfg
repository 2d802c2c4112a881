\* Any account, up to three failed calls.
CONSTANT MaxFaults = 3
SPECIFICATION FairSpec
INVARIANTS
  GateIsDeserved
PROPERTIES
  VisitSettles
