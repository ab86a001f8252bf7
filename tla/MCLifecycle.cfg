CONSTANTS
  e1 = e1  e2 = e2
  a1 = a1  a2 = a2
  r1 = r1
  NoId = NoId
  EventIds = {e1, e2}
  AttemptIds = {a1, a2}
  Runners = {r1}
  Modes = {"real"}
  Causes = {"deliveryUnknown"}
  StopOutcomes = {"acknowledged"}
  TestAuthority = FALSE
  NotBefore = 1
  ExpiresAt = 4
  MaxAttempts = 2
  TotalTimeout = 2
  TotalOutput = 3
  U64Max = 3
  RevisionMax = 5
  Times <- MCTimes
  Counts <- MCCounts
SPECIFICATION Spec
INVARIANTS TypeOK GuardsImplyValid
PROPERTIES RetryOnlyAfterNoEffect BudgetNeverRefunded ExhaustionIsFinal FactsAreFinal PhaseNeverRegresses
SYMMETRY Symmetry
CHECK_DEADLOCK FALSE
