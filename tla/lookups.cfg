SPECIFICATION FairSpec
CONSTANTS
  Worlds <- EveryWorld
INVARIANTS
  IInv
  AnswersConform
  AnswersWhole
PROPERTY WalkArrives
CHECK_DEADLOCK FALSE
