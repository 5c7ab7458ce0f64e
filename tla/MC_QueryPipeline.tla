------------------------- MODULE MC_QueryPipeline -------------------------
EXTENDS QueryPipeline, TLC

CONSTANTS a, b, c, d1, d2, s1, s2, q1, q2, t1, t2

MCHome == a :> d1 @@ b :> d2 @@ c :> d2
MCValid == s1 :> {t1, t2} @@ s2 :> {t1}
=============================================================================
