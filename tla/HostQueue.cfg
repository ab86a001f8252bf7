SPECIFICATION FairSpec
CONSTANTS
  Prompts = {p1, p2}
  Cancels = {}
  Responds = {}
  QueueLimit = 1
  BurstLimit = 1
  Gens = {1, 2, 3, 4, 5, 6}
  Timed = {p1, p2}
  MaxFaults = 1
  MaxSilence = 0
INVARIANTS DispatchedInOrder SuspendedIsQuiet
PROPERTIES AcceptedSettles
CHECK_DEADLOCK FALSE
