\* A user and an address, two requests at a time; a token takes two ticks.
CONSTANTS
  User = {u}
  Address = {a}
  Call = {r1, r2}
  None = None
  Unit = 2
  PerTick = 1
  Burst = 2
  IdleTTL = 4
  RetryAfter = 2
SPECIFICATION FairGatewaySpec
INVARIANTS
  RetryIsAdmitted
PROPERTIES
  ImplementsBucket
  BucketsAreReclaimed
