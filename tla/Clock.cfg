SPECIFICATION Spec
CONSTANTS
  Proc = {p1, p2, p3}
  MaxTicks = 3
  BUFSIZE = 2
  MaxLen = 2
  Char = {a, b}
INVARIANT WaitersAreHungry
PROPERTIES AlarmSpec KeyboardSpec
