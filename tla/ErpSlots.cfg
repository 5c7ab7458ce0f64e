SPECIFICATION Spec
CONSTANTS
  c1 = c1
  c2 = c2
  c3 = c3
  p1 = p1
  p2 = p2
  Calls = {c1, c2, c3}
  Procs = {p1, p2}
  ProcOf <- MC_ProcOf
  Skew <- MC_Skew
  Limit = 1
  Wait = 1
  Lease = 3
  Hold = 1
  MaxSkew = 1
  MaxClock = 5
  Enforced = TRUE
SYMMETRY MC_Symmetry
INVARIANTS SharedCeiling LeaseHeldWhileRunning PermitsConserved
PROPERTIES RefusedByLiveEntriesOnly ImplementsCeiling
CHECK_DEADLOCK FALSE
