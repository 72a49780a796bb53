\* One market, two sizes, a depth of one level, one restart of the socket.
SPECIFICATION Spec
CONSTANTS
  NumMarkets = 1
  Prices = {1, 2}
  Sizes = {1, 2}
  Depth = 1
  BufferLevels = 2
  MaxTrades = 2
  MaxQueue = 2
  MaxRestarts = 1
INVARIANTS
  TypeOK
  MirrorUntilRestart
  NeverMissesLevel
  TouchedLevelsExact
  CoreUncrossed
  BoundedDepthNeverDeaf
CHECK_DEADLOCK FALSE
