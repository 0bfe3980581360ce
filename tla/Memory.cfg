SPECIFICATION MemorySpec
CONSTANTS
  FIRST = 2
  NPAGE = 8
  Sizes = {1, 2, 4}
  Managers = {"first_fit", "best_fit", "buddy", "slub"}
  EXHAUST = FALSE
  MAX_ORDER = 2
  WIDTH = 4
  NULL = NULL
  PAGE_SIZE = 8
  SLOB_UNIT = 2
  BIGBLOCK = 3
  ObjSizes = {1, 3, 16}
  MaxObjects = 3
INVARIANTS BlocksAreGaps MemoryPartition BuddiesMerged
PROPERTIES PoolSpec
