SPECIFICATION Spec
CONSTANTS
  Idle = idle
  Init0 = init
  User = {p1, p2, p3}
  None = None
  MAX_PROCESS = 5
  MAX_TIME_SLICE = 1
  MaxTicks = 2
  Killable = {p1, p2, p3, init}
  Calls = {"fork", "exit", "wait", "kill", "sleep", "read", "exec", "yield", "other"}
SYMMETRY Symmetry
INVARIANTS RunQueueExact SleepersCanBeFound NoDanglingFrames OnlyInitPanics FamilyIsTree NoLostChild
PROPERTIES NoOvertaking LifeSpec
