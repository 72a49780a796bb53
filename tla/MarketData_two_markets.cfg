\* Two markets with one level of each side sent, and a book that has both does not fit
\* into the channel's buffer.
SPECIFICATION FairSpec
CONSTANTS
  NumMarkets = 2
  Prices = {1, 2}
  Sizes = {1}
  Depth = 1
  BufferLevels = 1
  MaxTrades = 2
  MaxQueue = 2
  MaxRestarts = 1
INVARIANTS
  CoreHoldsBest
PROPERTIES
  CoreCatchesUp
  ImplementsFeed
CHECK_DEADLOCK FALSE
