SPECIFICATION FairSpec
CONSTANTS
  Calls = {c1, c2}
  Resumes = {c2}
  MaxEvents = 4
  MaxItems = 2
  MaxFaults = 1
INVARIANTS AttachedIsFed
PROPERTIES ViewNeverGoesBack CatchesUp
CHECK_DEADLOCK FALSE
