\* A wallet that comes to list more coins than a message of balances holds, and a core
\* that asks for an asset that is neither configured nor always listed.
SPECIFICATION Spec
CONSTANTS
  Coins = {a, b}
  Assets = {a}
  Asks = {{b}}
  CoinsFit = 1
  MaxWallet = 2
  MaxRuns = 3
  MaxLost = 2
INVARIANTS
  TypeOK
  EveryLossBlamed
  OnceAndInOrder
  NamedWasSent
  BalancesFollowUpdates
  OnlyOwnAssetsDeafen
CHECK_DEADLOCK FALSE
