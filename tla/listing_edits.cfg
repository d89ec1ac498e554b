SPECIFICATION Spec
CONSTANTS
  Rows <- ThreeRows
  Limits = {1, 2, 3}
  Caps = {1, 2, 5}
  StartPages = {1}
  IntSpan = 65536
  MaxEdits = 1
INVARIANT NeverSkipsOrRepeats
CHECK_DEADLOCK FALSE
