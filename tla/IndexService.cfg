CONSTANTS
  x = x
  y = y
  Label = {x, y}
  From = 1
  TrailDepth = 1
  Interval = 1
  Kept = 2
  MaxRepairs = 1
  MaxHeight = 3
  MaxMoves = 2
  MaxFaults = 1
  MaxRestarts = 1
SPECIFICATION FairSpec
INVARIANTS TypeOK   FreshAnswer
PROPERTIES FollowsTheChain Converges
CHECK_DEADLOCK FALSE
