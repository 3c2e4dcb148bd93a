CONSTANTS
  Thread = {t1, t2, t3, t4}
  NoThread = NoThread
  MaxDepth = 2
SPECIFICATION FairSpec
INVARIANTS LockCountExact
PROPERTIES ImplementsLock WaiterEnters
