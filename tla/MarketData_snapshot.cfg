\* The comment of the "partial" branch against its code, over one restart.
SPECIFICATION Spec
CONSTANTS
  NumMarkets = 1
  Prices = {1}
  Sizes = {1, 2}
  Depth = 1
  BufferLevels = 2
  MaxTrades = 2
  MaxQueue = 2
  MaxRestarts = 1
PROPERTIES
  SnapshotReplaces
CHECK_DEADLOCK FALSE
