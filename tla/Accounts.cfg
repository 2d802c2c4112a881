\* Two addresses, one of them .edu, two accounts at Clerk, two requests,
\* one purge.
CONSTANTS
  Email = {edu, other}
  Edu = {edu}
  Clerk = {k1, k2}
  MaxRows = 3
  Request = {q1, q2}
  Purger = {p1}
  Limit = 1
  NotYet = NotYet
  Gone = Gone
  MaxFaults = 1
SPECIFICATION Spec
SYMMETRY Symmetry
INVARIANTS
  VerifiedIsEarned
  RedeemedVerified
PROPERTY
  DeletionIsFinal
CHECK_DEADLOCK FALSE
