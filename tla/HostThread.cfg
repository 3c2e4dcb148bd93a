CONSTANTS
  Controller = {c1, c2}
  CreateModes = {FALSE, TRUE}
  MaxCount = 3
  MaxPending = 2
CHECK_DEADLOCK FALSE
SPECIFICATION HostFairSpec
INVARIANTS SuspendHolds CountsMatch GoneIsSignaled
PROPERTY ResumeTakesEffect
