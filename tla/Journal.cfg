CONSTANTS
  r1 = r1  r2 = r2
  c1 = c1  c2 = c2
  k1 = k1
  NoId = NoId
  EventIds = {1, 2}
  AttemptIds <- MCAttemptIds
  Runners = {"native"}
  Modes = {"real"}
  Causes = {"deliveryUnknown"}
  StopOutcomes = {"acknowledged"}
  TestAuthority = FALSE
  NotBefore = 1
  ExpiresAt = 4
  MaxAttempts = 2
  TotalTimeout = 4
  TotalOutput = 2
  U64Max = 3
  RevisionMax = 20
  Requests = {r1, r2}
  Commands = {c1, c2}
  Resources = {k1}
  Needs <- OneNeeds
  Software = {r1}
  MaxReceipts = 14
  ConfirmBy = 3
  Gates = {"confirmation", "blocked"}
  Inputs = {"prepare", "cancel", "exited", "neverDispatched", "noEffect", "unknown"}
  Times = {2, 3}
SPECIFICATION Spec
INVARIANTS TypeOK ReservedSlotsSuffice ClaimsMatchWork
PROPERTIES AdmissionConfirmed
CHECK_DEADLOCK FALSE
