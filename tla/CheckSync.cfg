SPECIFICATION FairSpec
CONSTANTS
  Idle = idle
  mutex = mutex
  next = next
  MAX_TIME_SLICE = 1
  N = 4
  TIMES = 2
INVARIANTS HandedOverOnce NobodyForgotten Counted WokenMayEat NeighboursDoNotEat
PROPERTIES TableSpec Everybody
