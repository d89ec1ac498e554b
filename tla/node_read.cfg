SPECIFICATION FairSpec
CONSTANTS
  Calls = {c1, c2}
  Parents = {p1, p2}
  Scopes <- BothScopes
INVARIANTS
  IInv
  DetailConsistent
  FailureIsGenuine
  BlamedFailureIsLogged
  NoReadOutlivesCall
PROPERTIES
  KeepsNodePromise
  FailureEndsCall
CHECK_DEADLOCK FALSE
