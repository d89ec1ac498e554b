SPECIFICATION Spec
CONSTANTS
  Conns = {c1}
  Callers = {k1}
  Setups <- OneSetup
INVARIANT DoneMeansLogClosed
CHECK_DEADLOCK FALSE
