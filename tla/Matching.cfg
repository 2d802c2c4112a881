\* A visit across two saves, two edits of either part that may overlap, a failure, a crash.
CONSTANTS
  Text = {t1, t2}
  Visit = {v1}
  Edit = {e1, e2}
  First = t1
  None = None
  MaxSaves = 2
  MaxFaults = 1
  MaxCrashes = 1
SPECIFICATION FairSpec
INVARIANTS
  StaleOnlyIfCrossed
PROPERTIES
  VectorCatchesUp
CHECK_DEADLOCK FALSE
