\* A creation with two more commands about its order, or one message of up to three elements,
\* interleaved with fills, failing sessions, failing cancellations in a market before the
\* order's own, and one break of the private socket.
SPECIFICATION FairSpec
CONSTANTS
  Markets <- TwoMarkets
  Commands <- AllCommands
  Scripts <- AllScripts
  MaxOrders = 2
  MaxBreaks = 1
  Wrong = Wrong
INVARIANTS
  TypeOK
  ReportsComplete
  CanceledMeansNothingFilled
  CancelAllSparesOnlyInFlight
  OneOrderPerRequest
  OwnFieldsWin
  PriceToldIsPriceAsked
  RepliesFollowQuestions
PROPERTIES
  ImplementsNews
  FinalStatusTold
CHECK_DEADLOCK FALSE
