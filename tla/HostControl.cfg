SPECIFICATION Spec
CONSTANTS
  Prompts = {p1}
  Cancels = {k1}
  Responds = {r1}
  QueueLimit = 1
  BurstLimit = 1
  Gens = {1, 2, 3, 4, 5, 6}
  Timed = {k1}
  MaxFaults = 1
  MaxSilence = 1
INVARIANTS PromptSubmittedOnce QuestionsAreCurrent
PROPERTIES SettledIsFinal
CHECK_DEADLOCK FALSE
