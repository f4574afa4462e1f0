CONSTANTS
  frog = frog
  toad = toad
  alice = alice
  bob = bob
  none = none
  None = none
  Tickers = {frog, toad}
  Owners = {alice, bob}
  Transactions <- MCTransactions
  Positions <- MCPositions
  Activation = 1
  Maturity = 2
  Exact = 16
SPECIFICATION BothSpec
INVARIANTS TypeOK Conserved TermsKept NamesOneToOne Entitled BothAgree
CHECK_DEADLOCK FALSE
