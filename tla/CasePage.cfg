SPECIFICATION FairSpec
CONSTANTS
  Slots = {1, 2}
  Clicks = {1}
  Other = 0
  MaxFaults = 1
CHECK_DEADLOCK FALSE
INVARIANTS
  TypeOK
  StepperTellsTruth
  AskedBeforeDecided
PROPERTIES
  StepperMovesForward
  PageCatchesUp
  ButtonsComeBack
