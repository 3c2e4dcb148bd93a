CONSTANTS
  c1 = c1
  c2 = c2
  Controller = {c1, c2}
  CreateModes = {TRUE}
  MaxCount = 3
  MaxPending = 2
  Titles <- Orderly
SPECIFICATION GuestFairSpec
INVARIANTS GuestCountExact CountsAgree
PROPERTIES SelfSuspendEnds ResumeReturns
