\* One listing, two handlers in flight, four requests, two faults.
CONSTANTS
  Listing = {l1}
  Content = {c1, c2}
  Request = {r1, r2}
  Unscored = Unscored
  Keep = Keep
  MaxRequests = 4
  MaxFaults = 2
SPECIFICATION FairSpec
INVARIANTS
  ScoreIsCurrent
  DraftAwaitsCheck
PROPERTIES
  ScoringPublishesDrafts
  OnlyOwnerReopens
  DraftResolves
  OverdueExpires
CHECK_DEADLOCK FALSE
