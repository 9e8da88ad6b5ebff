SPECIFICATION FairSpec
CONSTANTS
  Log <- MCLog
  Payloads <- MCPayloads
  MaxRequests = 1
  MaxFaults = 1
  MaxExtra = 0
  MaxAir = 3
PROPERTIES RequestNeverStuck
CHECK_DEADLOCK FALSE
