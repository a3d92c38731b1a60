SPECIFICATION Spec
CONSTANTS
  Address <- MCAddress
  Normalise <- MCNormalise
  Admin = "admin"
  Call = {c1, c2}
  Deployed <- MCDeployed
  Caller = {handler, request}
  Visitor = {v1}
  MaxFaults = 1
  MaxCrashes = 1
SYMMETRY Symmetry
CHECK_DEADLOCK FALSE
INVARIANTS
  TypeOK
  CredentialsWork
  NothingPilesUp
PROPERTIES
  NobodyPromotesHimself
  LockoutIsFinal
