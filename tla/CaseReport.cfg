SPECIFICATION Spec
CONSTANTS
  Events <- MCEvents
  ErpStates <- MCErpStates
  MaxFaults = 2
  MaxCrashes = 1
  MaxChanges = 2
  MaxDecisions = 2
CHECK_DEADLOCK FALSE
INVARIANTS
  TypeOK
  AskedExactlyWhenUnsafe
  
  
  ClaimedChangesAreReal
  
