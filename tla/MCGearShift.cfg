SPECIFICATION FairSpec
CONSTANTS
  NMob = 2
  MaxInputs = 4
INVARIANTS TypeOK RestIsSafe
PROPERTIES ImplementsShiftCycle NoStaleShift ShiftEnds
CHECK_DEADLOCK FALSE
