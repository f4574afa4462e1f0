CONSTANTS
  frog = frog
  toad = toad
  alice = alice
  bob = bob
  none = none
  None = none
  Tickers = {frog, toad}
  Owners = {alice, bob}
  Transactions <- LargeTransactions
  Positions <- MCPositions
  Activation = 1
  Maturity = 2
  Exact = 8
SPECIFICATION BothSpec
INVARIANTS WithinSupply
CHECK_DEADLOCK FALSE
