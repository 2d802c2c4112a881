\* Two messages on a page of two, one handler and the timer at a time.
CONSTANTS
  MaxMessages = 2
  MaxCalls = 1
  MaxRejected = 1
  PageLimit = 2
SPECIFICATION FairSpec
INVARIANTS
  BusyIsWaited
PROPERTIES
  StaysShown
  ShowsOwn
  CatchesUp
CHECK_DEADLOCK FALSE
