SPECIFICATION FairSpec
CONSTANTS
  Log <- MCLog
  Payloads <- MCPayloads
  MaxRequests = 2
  MaxFaults = 2
  MaxExtra = 1
  MaxAir = 3
INVARIANTS DeliveredRight
PROPERTIES DroppedAfterFive SilenceEndsRequest
CHECK_DEADLOCK FALSE
