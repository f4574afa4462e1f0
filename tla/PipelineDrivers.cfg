CONSTANTS
  MintJobs = {m1, m2}
  PlainJobs = {p1}
  Supply = 1
  Polls = {a, b}
  Reaper = reaper
  Sweep = sweep
  MaxAttempts = 1
  SweepLimit = 1
  MaxCrashes = 0
  MaxFaults = 0
  None = none
  m1 = m1
  m2 = m2
  p1 = p1
  a = a
  b = b
  reaper = reaper
  sweep = sweep
  none = none
SPECIFICATION Spec
INVARIANTS OneDriverPerJob
CHECK_DEADLOCK FALSE
