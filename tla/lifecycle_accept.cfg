SPECIFICATION Spec
CONSTANTS
  Conns = {c1}
  Callers = {k1}
  Setups <- OneSetup
INVARIANT DoneMeansDisconnected
CHECK_DEADLOCK FALSE
