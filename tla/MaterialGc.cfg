SPECIFICATION FairSpec
CONSTANTS
  Requests = {1, 2, 3}
  Old = {1}
  Running = {2}
  Observed = {2}
  Files = {1, 2}
  Refs <- MCRefs
  Interp <- MCInterp
  MaxReceipts = 2
  MaxFaults = 1
PROPERTIES DeletesOnlyUnneeded GarbageIsDeleted
CHECK_DEADLOCK FALSE
