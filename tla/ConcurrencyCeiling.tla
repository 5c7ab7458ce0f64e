------------------------- MODULE ConcurrencyCeiling -------------------------
(***************************************************************************)
(* What dbbuddy_core/erp_concurrency.py promises about one target          *)
(* database, with none of the machinery: a set of calls holds the target,  *)
(* a call enters alone and only while the ceiling has room for it, and     *)
(* calls leave whenever they like, several at once when a worker dies.     *)
(***************************************************************************)
EXTENDS Naturals, FiniteSets

CONSTANTS Calls,    \* every use of query_slot, over all workers
          Limit     \* ERP_MAX_CONCURRENT_QUERIES

VARIABLE holders    \* the calls whose query may be running now

Init == holders = {}

Enter(c) ==
    /\ c \notin holders
    /\ Cardinality(holders \union {c}) <= Limit
    /\ holders' = holders \union {c}

Leave(S) ==
    /\ S # {}
    /\ holders' = holders \ S

Next == \/ \E c \in Calls : Enter(c)
        \/ \E S \in SUBSET holders : Leave(S)

Spec == Init /\ [][Next]_holders
=============================================================================
