\* Three messages, one of them sent with the second offer: the error file then names the
\* one before it.
SPECIFICATION Spec
CONSTANTS
  Coins = {a}
  Assets = {a}
  Asks = {{a}}
  CoinsFit = 1
  MaxWallet = 1
  MaxRuns = 3
  MaxLost = 2
INVARIANTS
  NamedIsLastSent
CHECK_DEADLOCK FALSE
