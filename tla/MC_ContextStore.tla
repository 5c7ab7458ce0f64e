-------------------------- MODULE MC_ContextStore --------------------------
(* Small instances of ContextStore: two queries and an analyze, one worker   *)
(* or two; the schema may change and change back.                            *)
EXTENDS ContextStore, TLC

CONSTANTS q1, q2, a1, w1, w2, h1, h2

MC_Symmetry == Permutations({q1, q2})
MC_AtOne == [c \in Callers |-> w1]
\* The second query runs in the other worker.
MC_At == [c \in Callers |-> IF c = q2 THEN w2 ELSE w1]
MC_Hash == [n \in 1..Changes |-> IF n = 2 THEN h2 ELSE h1]
=============================================================================
