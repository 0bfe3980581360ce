SPECIFICATION HeapSpec
CONSTANTS
  Proc = {p1, p2, p3}
  idleproc = idleproc
  Priority = {0, 5}
  HALF = 4
  BIG_STRIDE = 3
PROPERTIES StrideSpec SharesSpec Reunite NobodyStarves
