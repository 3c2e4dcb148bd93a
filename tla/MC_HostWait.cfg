CONSTANTS
  event = event
  semaphore = semaphore
  mutant = mutant
  Thread = {t1, t2, worker}
  Waiters = {t1, t2}
  NoThread = NoThread
  NoRequest = NoRequest
  Object <- MCObject
  Kind <- MCKind
  Initial <- MCInitial
  Limit <- MCLimit
  Requests <- MCRequests
  Strangers = FALSE
  MaxHold = 2
SPECIFICATION FairSpec
INVARIANTS NoSleeperMissed MutantsKept
PROPERTIES ImplementsDispatcher WaitReturns
