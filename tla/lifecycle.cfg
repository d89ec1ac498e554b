SPECIFICATION FairSpec
CONSTANTS
  Conns = {c1, c2}
  Callers = {k1, k2}
  Setups <- EverySetup
INVARIANTS
  IInv
  StartFailureReleases
  DoneMeansReleased
  TelemetryOutlivesUsers
  ShutdownTruthful
PROPERTIES
  CleanStopIsQuiet
  KeepsPromise
  StopsOnceAsked
  ListenerFailureStops
  ShutdownAnswers
CHECK_DEADLOCK FALSE
