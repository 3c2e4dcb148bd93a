CONSTANTS
  MaxFrames = 3
  MaxChanges = 2
  MaxOutdated = 1
  FromGuest = TRUE
  Exposes = TRUE
CHECK_DEADLOCK FALSE
SPECIFICATION FairSpec
INVARIANT OwnersApart
PROPERTIES NeverBackwards LatestShown
