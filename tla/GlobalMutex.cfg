CONSTANTS
  NoThread = NoThread
  Thread = {t1, t2, t3}
  MaxDepth = 2
SPECIFICATION FairSpec
INVARIANTS NoLostWakeup
PROPERTIES ImplementsLock SleeperWakes SomebodyEnters
