---------------------------- MODULE MC_CacheGate ----------------------------
(* Instances of CacheGate: a cooldown is several ticks, so that the gate can *)
(* be seen closed, expired and open again.                                   *)
EXTENDS CacheGate, TLC

CONSTANTS t1, t2, t3

MC_Symmetry == Permutations({t1, t2, t3})
=============================================================================
