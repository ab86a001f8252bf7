SPECIFICATION FairSpec
CONSTANTS
  Ops = {1, 2}
  Contents = {c1}
  Control = {1}
  Repeatable = {}
  PageSize = 1
  MaxGen = 2
  MaxFaults = 1
INVARIANTS ControlSentOnce
PROPERTIES RequestedWhileCurrent ResendOnlyAfterAbsence ImplementsOutbox StoredIsDelivered
CHECK_DEADLOCK FALSE
