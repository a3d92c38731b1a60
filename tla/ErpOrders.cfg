SPECIFICATION FairSpec
CONSTANTS
  f1 = f1
  f2 = f2
  u1 = u1
  x1 = x1
  o1 = o1
  o2 = o2
  None = None
  Feeds = {f1, f2}
  Updates = {u1}
  Resets = {x1}
  Orders = {o1, o2}
  Batches <- MCBatches
  Statuses = {"shipped"}
  MaxFaults = 1
CHECK_DEADLOCK FALSE
INVARIANTS
  TypeOK
  AcceptedOrdersExist
PROPERTIES
  NeverOverwritten
  FeedIsAtomic
  AuditIsTruthful
  EveryCallEnds
