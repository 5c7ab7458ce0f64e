----------------------------- MODULE MC_ErpSlots ----------------------------
(* Small instances of ErpSlots: two workers, the second with a fast clock.  *)
EXTENDS ErpSlots, TLC

CONSTANTS c1, c2, c3, p1, p2

MC_ProcOf == c1 :> p1 @@ c2 :> p1 @@ c3 :> p2
MC_Skew == p1 :> 0 @@ p2 :> 1
MC_OneProc == c1 :> p1 @@ c2 :> p1 @@ c3 :> p1
MC_NoSkew == p1 :> 0
\* The calls of the first worker are interchangeable.
MC_Symmetry == Permutations({c1, c2})
=============================================================================
