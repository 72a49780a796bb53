\* One market with every level sent and a buffer of one level; two restarts of the public
\* socket, any number of the private one.
SPECIFICATION FairSpec
CONSTANTS
  NumMarkets = 1
  Prices = {1, 2}
  Sizes = {1}
  Depth <- AllLevels
  BufferLevels = 1
  MaxTrades = 1
  MaxQueue = 1
  MaxRestarts = 2
  MaxRest = 1
PROPERTIES
  BooksReachTheCore
CHECK_DEADLOCK FALSE
