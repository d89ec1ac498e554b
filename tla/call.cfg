SPECIFICATION FairSpec
CONSTANTS
  m1 = m1
  m2 = m2
  Messages = {m1, m2}
  Scenarios <- MessagesAndCalls
INVARIANTS
  IInv
  InputConforms
  UnexpectedIsLogged
  SpanTellsFailure
  AskedInScope
PROPERTY EveryMessageAnswered
CHECK_DEADLOCK FALSE
