CONSTANTS
  f = f
  g = g
  broken = broken
  unmapped = unmapped
  Threads = {t1, t2}
  Addresses = {f, g, broken, unmapped}
  Branches <- MCBranches
  Unmapped = {unmapped}
  Broken = {broken}
  InOrder = TRUE
SPECIFICATION FairSpec
INVARIANTS
  TranslatedOnce
  AnswersAgree
PROPERTY ResolveReturns
