CONSTANTS
  None = none
  frog = frog
  seller = seller
  buyer = buyer
  r1 = r1
  r2 = r2
  alice = alice
  c1 = c1
  c2 = c2
  operator = operator
  minter = minter
  bob = bob
  ann = ann
  ben = ben
  ip1 = ip1
  house = house
  Desks = {"trace"}
  Items = {frog}
  Users = {seller, buyer}
  Requests = {r1, r2}
  MaxMoves = 3
  MaxRelists = 2
  BidPrices = {1, 2}
  MaxListings = 2
  MaxBids = 2
  MaxSales = 2
  MaxFaults = 1
  Sellers = {seller}
  Buyers = {alice}
  Carriers <- MCCarriers
  Nonces = {1, 2}
  Terms = {1, 2}
  Readers = {r1, r2}
  MaxOrders = 1
  MaxRuneBids = 2
  MaxFills = 2
  Supply = 2
  Claimants = {alice, bob}
  Jobs = {1, 2, 3}
  Ips = {ip1}
  Limit = 2
  MaxPerAddr = 1
  MaxPerIp = 2
  MaxPromoFaults = 1
  MaxPromoCrashes = 1
  Addresses = {operator, minter}
  Rank <- MCRank
  NoAddress = none
  Funds <- MCFunds
  MaxTxs = 3
  MaxOuts = 2
  AlphaRoot = 1
  MaxTimes <- MCMaxTimes
  Creators = {ann}
  Minters = {ann, ben}
  Slugs = {1, 2}
  Offers <- MCOffers
  AlphaHolders = {ben}
  MinItems = 1
  MaxItems = 2
  PerDay = 1
  OpenDrafts = 2
  MaxPending = 2
  DraftTTL = 0
  Budget = 3
  MaxSubmissions = 2
  MaxDays = 1
  MaxQuotes = 3
  MaxDeaths = 1
  MaxUsage = 3
  Traders = {ann, ben}
  House = house
  Stalls <- MCStalls
  Asking = {2}
  CutOf <- MCCut
  Schedule = {0, 2}
  MaxSweep = 2
  LastTick = 1
  MaxTrades = 2
  Era = 3
  MaxNodes = 3
  Ledgers <- MCLedgers
  Walkers = {r1}
  MaxTop = 4
  MaxTraces = 2
SPECIFICATION MCSpec
INVARIANT FailsSafe
CHECK_DEADLOCK FALSE
