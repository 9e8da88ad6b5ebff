SPECIFICATION FairSpec
CONSTANTS
  Log <- MCLog
  Payloads <- MCPayloads
  MaxRequests = 1
  MaxFaults = 1
  MaxExtra = 0
  MaxAir = 3
PROPERTIES RetryRepeats
CHECK_DEADLOCK FALSE
