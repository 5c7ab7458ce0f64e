SPECIFICATION Spec
CONSTANTS
  q1 = q1
  q2 = q2
  q3 = q3
  r1 = r1
  w1 = w1
  w2 = w2
  u1 = u1
  u2 = u2
  u3 = u3
  Workers = {w1, w2}
  Users = {u1}
  Requests = {q1, q2, q3}
  At <- MC_AtOther
  Of <- MC_OfOne
  Revokers = {r1}
  By <- MC_By
  Target <- MC_Target
  Kind <- MC_Sessions
  Overlap = FALSE
  Listening = {w2}
  CacheMax = 1
  TTL = 1
  MaxRead = 1
  MaxClock = 3
INVARIANTS NoStaleResurrection RevokedStaysRevoked OneLeader StaleBound
CHECK_DEADLOCK FALSE
