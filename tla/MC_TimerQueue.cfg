CONSTANTS
  once = once
  periodic = periodic
  kick = kick
  Item <- MCItem
  Kick = kick
  NoItem = NoItem
  Interval <- MCInterval
  Client = {D, c1}
  Dispatcher = D
  Capacity = 2
  MaxTime = 2
  DisarmTwice = FALSE
CHECK_DEADLOCK FALSE
SPECIFICATION FairSpec
INVARIANTS DisarmStops Placed
PROPERTIES DisarmIsFinal DueFires DisarmReturns ShutdownEnds
