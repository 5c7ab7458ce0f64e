SPECIFICATION GateFairSpec
CONSTANTS
  t1 = t1
  t2 = t2
  t3 = t3
  Threads = {t1, t2, t3}
  Threshold = 3
  Recovery = 3
  Count = 9
INVARIANT OutageCost
PROPERTY Recovers
CHECK_DEADLOCK FALSE
