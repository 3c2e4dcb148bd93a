CONSTANTS
  NumPages = 2
  BlockSize = 2
  t1 = t1
  Views = {vA, vE}
  Guests = {g1}
  Textures = {t1}
  PagesOf <- MCPagesOf
  Allocations <- MCAllocations
  Reads <- MCReads
SPECIFICATION Spec
SYMMETRY ViewSymmetry
INVARIANTS
  CopyIsFresh
  GpuDataKept
  FaultsEnd
  DrawSeesStores
