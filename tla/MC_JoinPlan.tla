----------------------------- MODULE MC_JoinPlan -----------------------------
EXTENDS JoinPlan

MCTables == 1..4
Rel(c, p, r) == [child |-> c, parent |-> p, role |-> r]
R(c, p) == Rel(c, p, Default)
Declared(seq) == [declared |-> seq, byName |-> <<>>, byKey |-> <<>>]

\* A chain, a star, a cycle, two islands, a lone table, a star with two keys
\* to one parent, a chain from names and keys, and one from both.
MCSchemas ==
    {Declared(<<R(1, 2), R(2, 3), R(3, 4)>>), Declared(<<R(1, 4), R(2, 4), R(3, 4)>>),
     Declared(<<R(1, 2), R(2, 4), R(4, 3), R(3, 1)>>), Declared(<<R(2, 1), R(4, 3)>>),
     Declared(<<R(1, 1), R(1, 2), R(1, 3)>>),
     Declared(<<Rel(2, 1, "sold"), Rel(2, 1, "ship"), R(2, 3)>>),
     [declared |-> <<>>, byName |-> <<R(1, 3), R(3, 2)>>, byKey |-> <<R(1, 3), R(4, 2)>>],
     [declared |-> <<R(4, 1)>>, byName |-> <<R(2, 3)>>, byKey |-> <<R(3, 4)>>]}

Sorted(S) == SetToSortSeq(S, <)
MCIntents ==
    {i \in [tables : {Sorted(S) : S \in {S \in SUBSET MCTables : Cardinality(S) \in 1..3}},
            cols : {<<>>} \union {<<t>> : t \in MCTables} \union {<<4, 1>>, <<2, 3>>},
            filters : {<<>>} \union {<<t>> : t \in MCTables} \union {<<1, 3>>},
            agg : 0..4, marks : {{}, {"order"}, {"signal"}, {"having", "signal"}},
            role : {"ship"}] :
        ToSet(i.cols) \union ToSet(i.filters) \subseteq ToSet(i.tables)}
=============================================================================
