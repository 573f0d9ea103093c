SPECIFICATION FairSpec
CONSTANTS
  Settings <- Calls
INVARIANTS
  NoChildLeft
  VerdictOwn
  
  FoundHere
  IInv
PROPERTIES
  Returns
CHECK_DEADLOCK FALSE
