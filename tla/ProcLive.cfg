SPECIFICATION FairSpec
CONSTANTS
  Idle = idle
  Init0 = init
  User = {p1, p2}
  None = None
  MAX_PROCESS = 4
  MAX_TIME_SLICE = 2
  MaxTicks = 2
  Killable = {p1, p2}
  Calls = {"fork", "exit", "wait", "kill", "sleep"}
PROPERTIES RunnableRuns SleepersWake OrphansAreReaped
