SPECIFICATION Spec
CONSTANTS
  m1 = m1
  m2 = m2
  Messages = {m1, m2}
  Scenarios <- Calls
INVARIANT ExtraArgumentsIgnored
CHECK_DEADLOCK FALSE
