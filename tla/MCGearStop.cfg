SPECIFICATION FairSpec
CONSTANTS
  NMob = 2
  MaxInputs = 3
INVARIANTS StopFrameTellsButtons
CHECK_DEADLOCK FALSE
