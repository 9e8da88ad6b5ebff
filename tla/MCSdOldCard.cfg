\* Every kind of card, and no faults.
SPECIFICATION Spec
CONSTANTS
  Kinds = {"MMC", "SD1", "SD2", "HC"}
  Sectors = {0, 1}
  Blocks = {"a", "b"}
  BlockSize = 2
  Retries = 2
  Timeout = 1
  Width = 3
  MaxFaults = 0
INVARIANTS OldCardInitialises
