SPECIFICATION FairSpec
CONSTANTS
  Requests = {1, 2}
  Broken = {}
  Batch = 2
  MaxReceipts = 3
  MaxFaults = 2
INVARIANTS ConfirmedIsAnswered 
PROPERTIES  DueIsReconciled
CHECK_DEADLOCK FALSE
