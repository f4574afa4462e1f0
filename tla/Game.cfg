CONSTANTS
  None = none
  mare = mare
  sire = sire
  Desks = {"arena", "duel", "stable", "nursery", "vivarium", "fight"}
  Players = {1, 2, 3, 4}
  Size = 4
  Loadouts = {l}
  MaxHeight = 0
  MaxOrders = 1
  MaxMints = 1
  Houses = {"fire", none}
  Faces = {TRUE}
  BotRounds = {0, 2}
  Streams <- MCStreams
  Mares = {mare}
  Sires = {sire}
  Visits = {1, 2}
  FreeBreeds = 1
  LivingSlots = 2
  Rest = 1
  MaxPairings = 2
  MaxMoves = 1
  StableDays = 1
  StableDeaths = 1
  ToAdult = 6
  GrowthPerDay = 3
  ActsPerDay = 3
  Passive = 1
  Gestation = 2
  LastDay = 8
  Worlds <- MCWorlds
  Species = {"Clover", "Duckweed"}
  Pours = {10, 50}
  Waits = {60, 210}
  Tiles = 1
  Guard = 100
  MaxDeeds = 1
  LastMinute = 480
  Pairs <- MCPairs
  TurnLimit = 7
SPECIFICATION MCSpec
INVARIANTS CupSound PairingsSound AbsenceCostsNothing 
PROPERTIES RoundsAsCommitted HungerSpares
CHECK_DEADLOCK FALSE
