SPECIFICATION Spec
CONSTANTS
  FIRST = 3
  NPAGE = 8
  Sizes = {1, 2}
  Managers = {"first_fit", "best_fit"}
  EXHAUST = TRUE
  MAX_ORDER = 2
  WIDTH = 4
  NULL = NULL
INVARIANT ListIsFree
