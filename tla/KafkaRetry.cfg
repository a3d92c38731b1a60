SPECIFICATION Spec
CONSTANTS
  m1 = m1
  m2 = m2
  m3 = m3
  Messages = {m1}
  Loop = Loop
  Raised = {"KafkaError"}
  MaxFaults = 1
  MaxRestarts = 0
CHECK_DEADLOCK FALSE
INVARIANTS
  GivesUpAfterRetries
