SPECIFICATION FairSpec
CONSTANTS
  Rows <- ThreeRows
  Limits = {1, 2, 3}
  Caps = {1, 2, 5}
  StartPages <- FarPages
  IntSpan = 64
  MaxEdits = 1
INVARIANTS
  IInv
  CandidatesLegal
  HasMoreTells
PROPERTIES
  
  KeepsListingPromise
CHECK_DEADLOCK FALSE
