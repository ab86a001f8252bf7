SPECIFICATION FairSpec
CONSTANTS
  Launches = {l1, l2, l3, l4, l5}
  MaxFaults = 3
INVARIANTS AliveIsFenced ActiveIsRegistered
PROPERTIES RegisteredClears
CHECK_DEADLOCK FALSE
