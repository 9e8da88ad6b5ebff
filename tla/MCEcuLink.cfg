\* A packet of five bytes and a ring of eleven: as in the code, there is room
\* for two packets and a little more.  A live packet holds a pair and an id.
SPECIFICATION LiveSpec
CONSTANTS
  Table <- MCTable
  Offset <- MCOffset
  PacketLen = 5
  RingSize = 12
  Packets = 5
  MaxFaults = 2
  Transport <- MCTransport
  PayloadLen = 9
INVARIANTS TypeOK TelemetryTrue NeverWaitsForEcu EveryAnswerFits
PROPERTIES StreamGoesOn
CHECK_DEADLOCK TRUE
