\* One MOb to send and two to receive, so that MObs run out; two frames in and two
\* out, and can_init once more at any moment between two calls; a ring of seven bytes
\* holds two frames without payload but no second one when either has a byte.
SPECIFICATION Spec
CONSTANTS
  Tx = {0}
  Spy = {1, 2}
  Id = {"paddle", "stop", "other"}
  Subscribed = {"paddle", "stop"}
  Length <- MCLength
  RingSize = 8
  FastBus = FALSE
  MaxFrames = 2
  MaxSends = 2
  MaxInits = 1
INVARIANTS TypeOK ReceivedWhole NoMObLost SentAsAsked
CHECK_DEADLOCK FALSE
