\* One request at a time, two purges, and a call that fails under them.
CONSTANTS
  Email = {edu1, edu2}
  Edu = {edu1, edu2}
  Clerk = {k1, k2}
  MaxRows = 3
  Request = {q1}
  Purger = {p1, p2}
  Limit = 1
  NotYet = NotYet
  Gone = Gone
  MaxFaults = 1
SPECIFICATION FairSpec
PROPERTIES
  PurgeSparesOthers
  DeletedIsPurged
CHECK_DEADLOCK FALSE
