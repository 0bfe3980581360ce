SPECIFICATION Spec
CONSTANTS
  File = {1, 2}
  Fd = {h1, h2}
  BLOCKS = 3
  BLK = 3
  NDIRECT = 1
  MAX_SIZE = 5
  STALE = TRUE
  OVERSEEK = FALSE
SYMMETRY Descriptors
INVARIANT NoAssertFails
