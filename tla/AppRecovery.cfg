CONSTANTS
  r1 = r1
  c1 = c1  c2 = c2
  i1 = i1  i2 = i2  j1 = j1  k1 = k1
  x1 = x1
  NoId = NoId
  EventIds <- MCOperations
  AttemptIds <- MCAttemptIds
  Runners = {"native"}
  Modes = {"real"}
  Causes = {"cancelled", "staleRevision", "limit", "lifecycleChanged", "runnerRejected", "runnerError"}
  StopOutcomes = {"acknowledged", "failed"}
  TestAuthority = FALSE
  NotBefore = 1
  ExpiresAt = 4
  MaxAttempts = 2
  TotalTimeout = 4
  TotalOutput = 2
  U64Max = 3
  RevisionMax = 20
  Requests = {r1}
  Commands = {c1}
  Resources = {x1}
  Needs <- MCNeeds
  Software = {}
  MaxReceipts = 20
  ConfirmBy = 3
  Gates = {"direct"}
  Inputs = {}
  Times = {2, 6}
  Advancers = {i1}
  Reconcilers = {j1}
  Cancellers = {}
  Effects = {}
  Prints = TRUE
  MaxFaults = 1
SPECIFICATION FairAppSpec
PROPERTIES StartingIsResolved DueStopsHappen EndIsRecorded
CHECK_DEADLOCK FALSE
