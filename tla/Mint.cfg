CONSTANTS
  None = none
  p1 = p1
  p2 = p2
  m1 = m1
  m2 = m2
  ann = ann
  ben = ben
  frog = frog
  a1 = a1
  a2 = a2
  h1 = h1
  h2 = h2
  s1 = s1
  Desks = {"etch", "tip", "purse", "keys", "net"}
  Requests = {p1, p2}
  Ways = {"own", "self"}
  MaxEtchCrashes = 1
  MaxEtchFaults = 1
  Mints = {m1, m2}
  ChainLimit = 2
  MaxReveals = 6
  MaxFaults = 3
  MaxDrops = 2
  MaxCrashes = 1
  Wallets = {ann, ben}
  Tokens = {frog}
  Purses <- MCPurses
  Amounts = {21000}
  Price = 3000
  MintPrice = 2000
  MarketFee = 0
  MaxHeld = 2
  MaxMints = 2
  MaxCalls = 2
  Accounts = {a1, a2}
  Sites = {s1}
  Handlers = {h1, h2}
  MaxMessages = 3
  MaxSuspends = 1
  Servers = 2
  Callers = {h1, h2}
  MaxCalled = 3
SPECIFICATION MCSpec
INVARIANTS JobSound KeysSound LineSound
PROPERTIES PaidIsEtched TipSound MCGoesOn PurseRight
CHECK_DEADLOCK FALSE
