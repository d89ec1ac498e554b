SPECIFICATION FairSpec
CONSTANTS
  Ids = {"a", "https"}
  Ports = {"1", "2"}
  HostLists <- AllHostLists
  OriginLists <- AllOriginLists
  Scenarios <- AnyTimeout
PROPERTY AcceptedSettingsBoot
CHECK_DEADLOCK FALSE
