SPECIFICATION Spec
CONSTANTS
  Tx = {0}
  Spy = {1, 2}
  Id = {"paddle", "stop", "other"}
  Subscribed = {"paddle", "stop"}
  Length <- MCLength
  RingSize = 8
  FastBus = TRUE
  MaxFrames = 3
  MaxSends = 0
  MaxInits = 0
INVARIANTS WholeFrames
CHECK_DEADLOCK FALSE
