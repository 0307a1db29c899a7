CONSTANTS
  MaxAuthTries = 3
  MaxRequests = 5
  MaxPrompts = 2
SPECIFICATION FairSpec
INVARIANTS FitTogether BothDecide GrantedIsEarned TriesBounded
PROPERTIES EveryStepSettles
CHECK_DEADLOCK FALSE
