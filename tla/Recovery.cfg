SPECIFICATION FairSpec
CONSTANTS
  t1 = t1
  t2 = t2
  r1 = r1
  r2 = r2
  o1 = o1
  Threads = {t1}
  Requests = {r1}
  Orders = {o1}
  Events <- MCShipped
  InitialErp <- MCInitialErp
  Consumer = Consumer
  NoThread = NoThread
  MaxFaults = 2
  MaxCrashes = 1
  MaxResets = 0
  SerialSimulate = TRUE
  FollowUi = TRUE
CHECK_DEADLOCK FALSE
INVARIANT MailMatchesPath
PROPERTY PublishedCaseSettles
