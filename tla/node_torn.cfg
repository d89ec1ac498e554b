SPECIFICATION Spec
CONSTANTS
  Calls = {c1}
  Parents = {p1}
  Scopes <- OneCallScope
INVARIANT PathEndsAtParent
CHECK_DEADLOCK FALSE
