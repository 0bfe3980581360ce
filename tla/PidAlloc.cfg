SPECIFICATION FairSpec
CONSTANTS
  MAX_PID = 7
  MAX_PROCESS = 6
INVARIANTS IInv
PROPERTIES CallReturns PidSpaceSpec
