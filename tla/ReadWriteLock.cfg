CONSTANTS
  Reader = {r1, r2, r3}
  Writer = {w1, w2}
  Uint32 = 8
CHECK_DEADLOCK FALSE
SPECIFICATION FairSpec
INVARIANTS Exclusion CountsExact
PROPERTY WaitersEnter
