CONSTANTS
  MintJobs = {m1, m2}
  PlainJobs = {p1}
  Supply = 2
  Polls = {}
  Reaper = reaper
  Sweep = sweep
  MaxAttempts = 2
  SweepLimit = 1
  MaxCrashes = 0
  MaxFaults = 2
  None = none
  m1 = m1
  m2 = m2
  p1 = p1
  a = a
  b = b
  reaper = reaper
  sweep = sweep
  none = none
SPECIFICATION FairSpec
PROPERTIES AbandonedArePickedUp PaidMintsAreDriven
CHECK_DEADLOCK FALSE
