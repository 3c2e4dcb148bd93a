CONSTANTS
  Callers = {t1, t2}
  Objects = {o1, o2}
  Names = {n1}
  None = None
  InitialCapacity = 3
  MaxCapacity = 3
  MaxOwned = 1
  Careful = TRUE
SPECIFICATION ObjectSpec
SYMMETRY Symmetry
INVARIANTS
  CountsExact
  NamesResolve
CHECK_DEADLOCK FALSE
