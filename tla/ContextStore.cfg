SPECIFICATION FairSpec
CONSTANTS
  q1 = q1
  q2 = q2
  a1 = a1
  w1 = w1
  w2 = w2
  h1 = h1
  h2 = h2
  Hashes = {h1, h2}
  Hash <- MC_Hash
  Nobody = Nobody
  Workers = {w1}
  Callers = {q1, a1}
  At <- MC_AtOne
  Analysts = {a1}
  Listening = {w1}
  Changes = 3
  Analyses = 1
INVARIANTS RichIsNoOlder FlightsAreUnderWay BroadcastAfterInstall
PROPERTIES RequestsEnd PicksUpDdl
CHECK_DEADLOCK FALSE
