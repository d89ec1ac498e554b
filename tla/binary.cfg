SPECIFICATION FairSpec
CONSTANTS
  Ids = {"a", "https"}
  Ports = {"1", "2"}
  HostLists <- AllHostLists
  OriginLists <- AllOriginLists
  Scenarios <- EveryScenario
INVARIANTS
  IInv
  RealEnvironmentWins
  UnusableIsRefused
  ExitTellsFailure
  LogEndsClosed
  ServedIsAdmissible
PROPERTIES
  SignalEndsProcess
  UsableSettingsBoot
CHECK_DEADLOCK FALSE
