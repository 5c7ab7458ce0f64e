SPECIFICATION FairSpec
CONSTANTS
  c1 = c1
  c2 = c2
  c3 = c3
  p1 = p1
  p2 = p2
  Calls = {c1, c2, c3}
  Procs = {p1}
  ProcOf <- MC_OneProc
  Skew <- MC_NoSkew
  Limit = 1
  Wait = 1
  Lease = 3
  Hold = 1
  MaxSkew = 0
  MaxClock = 3
  Enforced = TRUE
PROPERTY EveryCallEnds
CHECK_DEADLOCK FALSE
