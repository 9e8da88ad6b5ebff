SPECIFICATION UnitSpec
CONSTANTS
  Units = {"log", "sd", "rtc", "bson"}
  \* Records of two sizes; a buffer holds two of the small ones and a byte.
  BUF_SIZE = 5
  Sizes = {2, 4}
  MaxLogs = 2
  MaxBytes = 26
  \* Every kind of card, two blocks and three sectors, one fault.
  Kinds = {"MMC", "SD1", "SD2", "HC"}
  Sectors = {0, 1, 2}
  Blocks = {"a", "b"}
  BlockSize = 2
  Retries = 2
  Timeout = 1
  Width = 3
  MaxFaults = 1
  \* Two seconds, two faults of the bus and three readings of the clock.
  PowerUp <- MCPowerUp
  MaxTicks = 2
  BusFaults = 2
  MaxReads = 3
  \* Up to three elements in a buffer that holds none, one or two, or all.
  Elements <- MCElements
  Keys <- MCKeys
  Lengths = {5, 17, 34}
  Fill = {0, 16}
  MAX_KEY_LEN = 2
  MaxElements = 3
INVARIANTS TypesOK LogInOrder CrashLosesLittle CardAsReported ClockTrue FindsWhatWasPut
PROPERTIES OnlyAskedChanges CallsReturn
\* The log may be full, the clock read often enough, a document refused.
CHECK_DEADLOCK FALSE
