SPECIFICATION FairSpec
CONSTANTS
  m1 = m1
  m2 = m2
  m3 = m3
  Messages = {m1, m2}
  Loop = Loop
  Raised = {"KafkaError", "Exception"}
  MaxFaults = 2
  MaxRestarts = 2
CHECK_DEADLOCK FALSE
INVARIANTS
  TypeOK
  ClientsReady
  PublishedOnce
PROPERTIES
  DeliversAtLeastOnce
  StoredIsSettled
