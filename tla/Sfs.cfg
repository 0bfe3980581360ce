SPECIFICATION Spec
CONSTANTS
  File = {1, 2}
  Fd = {h1, h2}
  BLOCKS = 3
  BLK = 3
  NDIRECT = 1
  MAX_SIZE = 5
  STALE = FALSE
  OVERSEEK = FALSE
INVARIANTS BlocksOwned CleanIsSaved ReadsBack
PROPERTIES StoreSpec
SYMMETRY Descriptors
