------------------------------- MODULE JoinPlan -------------------------------
(***************************************************************************)
(* The path from an intent to a statement that names only tables it joins: *)
(* the join graph (dbbuddy_core/relationship_graph.py), the planner's      *)
(* passes over the plan (query_planner.py, planner_utils.py), and the      *)
(* compiler's last check (sql/compiler.py).                                *)
(*                                                                         *)
(* Every pass reads and edits one plan that the passes before it left      *)
(* behind, and each is an action.  A clause is the tables its items name,  *)
(* in order: columns matter only by their table, except the key a join     *)
(* uses, which is the role of a relation ("sold", "ship").  A table is a   *)
(* number; the order of the numbers is the order of the names.             *)
(*                                                                         *)
(* Relations: declared foreign keys, columns named after a table, and      *)
(* columns that repeat a primary key, each with its child and its parent.  *)
(* Near-miss columns are taken as repaired.                                *)
(***************************************************************************)
EXTENDS Integers, FiniteSets, SequencesExt

CONSTANTS
    Tables,
    Schemas,    \* [declared, byName, byKey : Seq(Relation)]
    Intents,    \* [tables, cols, filters : Seq(Tables), agg, marks, role]
    IdKeyed,    \* tables whose key column is called "id"
    Keyed,      \* tables with a key column at all
    Labelled    \* tables with a name, title or description column

None == 0       \* no table
Default == "default"
Marks == {"order", "signal", "having"}

Relation == [child : Tables, parent : Tables, role : STRING]
Schema == [declared : Seq(Relation), byName : Seq(Relation), byKey : Seq(Relation)]
Intent == [tables : Seq(Tables) \ {<<>>}, cols : Seq(Tables), filters : Seq(Tables),
           agg : Tables \union {None}, marks : SUBSET Marks, role : STRING]
Edge == [to : Tables, key : {"id", "other"}, roles : Seq(STRING) \ {<<>>}]
Hop == [left : Tables, right : Tables, role : STRING]

ASSUME JoinPlanAssumption ==
    /\ Tables \subseteq Nat \ {None} /\ IsFiniteSet(Tables)
    /\ IdKeyed \subseteq Keyed /\ Keyed \subseteq Tables
    /\ Schemas \subseteq Schema /\ Intents \subseteq Intent
    /\ \A i \in Intents : ToSet(i.cols) \union ToSet(i.filters) \subseteq ToSet(i.tables)

VARIABLES
    pc,
    schema, intent,     \* the inputs
    graph,              \* graph[t]: the neighbours of t, in order, with keys and roles
    plan,               \* execution_plan
    dropped             \* dropped_clauses

vars == <<pc, schema, intent, graph, plan, dropped>>

\* for e in seq: x becomes body[e][x]
Loop(body, x, seq) ==
    LET after[k \in 0..Len(seq)] == IF k = 0 THEN x ELSE body[seq[k]][after[k - 1]]
    IN  after[Len(seq)]

\* Without repetition, the first occurrence kept.
Distinct(seq) ==
    LET AddNew == [t \in Tables |-> [acc \in Seq(Tables) |->
                     IF Contains(acc, t) THEN acc ELSE Append(acc, t)]]
    IN  Loop(AddNew, <<>>, seq)

\* The elements of seq that are in S
Only(seq, S) ==
    LET AddMember == [t \in Tables |-> [acc \in Seq(Tables) |->
                        IF t \in S THEN Append(acc, t) ELSE acc]]
    IN  Loop(AddMember, <<>>, seq)

----------------------------------------------------------------------------
(* The join graph                                                          *)

\* _add_edge: the first key between two tables is the default, later ones its
\* alternates; the other edge makers keep the first one only.
AddEdge(g, from, to, key, role, keepAll) ==
    LET edges == g[from]
        WithRole(e) == IF e.to = to THEN [e EXCEPT !.roles = Append(@, role)] ELSE e
    IN  IF \A k \in DOMAIN edges : edges[k].to # to
        THEN [g EXCEPT ![from] = Append(edges, [to |-> to, key |-> key, roles |-> <<role>>])]
        ELSE IF keepAll THEN [g EXCEPT ![from] = [k \in DOMAIN edges |-> WithRole(edges[k])]]
        ELSE g

RelateAll(keepAll, g, relations) ==
    LET Relate == [r \in Relation |-> [h \in [Tables -> Seq(Edge)] |->
                     AddEdge(AddEdge(h, r.child, r.parent, "other", r.role, keepAll),
                             r.parent, r.child, IF r.parent \in IdKeyed THEN "id" ELSE "other",
                             r.role, keepAll)]]
    IN  Loop(Relate, g, relations)

\* build_relationship_graph: column names count only where no key is declared.
JoinGraph(s) ==
    LET bare == [t \in Tables |-> <<>>]
        first == IF s.declared # <<>> THEN RelateAll(TRUE, bare, s.declared)
                 ELSE RelateAll(FALSE, bare, s.byName)
    IN  RelateAll(FALSE, first, s.byKey)

\* determine_base_table: degree, then being a parent, then the name
BaseTable(g, tables) ==
    LET Score(t) == <<Len(g[t]), IF \E k \in DOMAIN g[t] : g[t][k].key = "id" THEN 1 ELSE 0, t>>
        Above(a, b) == \E k \in 1..3 : a[k] > b[k] /\ \A j \in 1..(k - 1) : a[j] = b[j]
    IN  CHOOSE t \in ToSet(tables) : \A u \in ToSet(tables) \ {t} : Above(Score(t), Score(u))

\* A search: the tables visited, and the rest of its queue
Walk == [at : Tables, path : Seq(Hop)]
Search == [visited : SUBSET Tables, next : Seq(Walk), done : BOOLEAN, path : Seq(Hop)]

\* The neighbours that are not visited are queued.
Onward(g, visited, walk) ==
    LET Push == [e \in Edge |-> [next \in Seq(Walk) |->
                   IF e.to \in visited THEN next
                   ELSE Append(next, [at |-> e.to,
                                      path |-> Append(walk.path, [left |-> walk.at, right |-> e.to,
                                                                  role |-> e.roles[1]])])]]
    IN  Loop(Push, <<>>, g[walk.at])

\* Goes on after the target was found: the path found last is returned.
VisitAll(g, target) ==
    [walk \in Walk |-> [s \in Search |->
       IF walk.at = target THEN [s EXCEPT !.path = walk.path]
       ELSE LET seen == s.visited \union {walk.at}
            IN  [s EXCEPT !.visited = seen, !.next = @ \o Onward(g, seen, walk)]]]
\* One turn of the loop over the queue, for the walk at its head
Visit(g, target) ==
    [walk \in Walk |-> [s \in Search |->
       IF s.done THEN s
       ELSE IF walk.at = target THEN [s EXCEPT !.done = TRUE, !.path = walk.path]
       ELSE LET seen == s.visited \union {walk.at}
            IN  [s EXCEPT !.visited = seen, !.next = @ \o Onward(g, seen, walk)]]]

\* find_join_path: breadth first; no path, and the path to itself, are empty.
\* First in, first out: the walks of n hops have their turns, in order, before
\* the longer ones they queue.  No walk comes back to a table, so none is
\* longer than the tables are many.
FindJoinPath(g, start, target) ==
    LET Turns[n \in Nat] ==
          IF n = 0
          THEN [visited |-> {}, next |-> <<[at |-> start, path |-> <<>>]>>,
                done |-> FALSE, path |-> <<>>]
          ELSE LET s == Turns[n - 1]
               IN  Loop(Visit(g, target), [s EXCEPT !.next = <<>>], s.next)
    IN  Turns[Cardinality(Tables) + 1].path

----------------------------------------------------------------------------
(* What a plan names and joins                                             *)

One(t) == IF t = None THEN <<>> ELSE <<t>>

\* _tables_referenced_by_plan, in the order of the clauses
Referenced(p) ==
    Distinct(p.select \o p.where \o One(p.group) \o One(p.order) \o One(p.having))

\* _join_scope
Scope(p) ==
    {p.base} \union {p.joins[k].left : k \in DOMAIN p.joins}
             \union {p.joins[k].right : k \in DOMAIN p.joins}

\* resolve_joins
ResolveJoins(g, base, targets) ==
    LET AddPath == [t \in Tables |-> [joins \in Seq(Hop) |-> joins \o FindJoinPath(g, base, t)]]
    IN  Loop(AddPath, <<>>, targets)

\* _apply_join_roles: the key is told by the name of its column in the left
\* table.  Seen from the parent all alternates have the same.
Role(g, s, join, asked) ==
    LET edge == g[join.left][CHOOSE k \in DOMAIN g[join.left] : g[join.left][k].to = join.right]
        named == \E r \in ToSet(s.declared) :
                    r.child = join.left /\ r.parent = join.right /\ r.role = asked
    IN  IF Contains(edge.roles, asked) /\ named THEN asked ELSE join.role

WithRoles(g, s, joins, asked) ==
    [k \in DOMAIN joins |-> [joins[k] EXCEPT !.role = Role(g, s, joins[k], asked)]]

----------------------------------------------------------------------------
(* The passes                                                              *)

Goto(place) == pc' = place

BuildGraph ==
    /\ pc = "graph" /\ Goto("select")
    /\ graph' = JoinGraph(schema)
    /\ UNCHANGED <<schema, intent, plan, dropped>>

Asks(mark) == mark \in intent.marks

\* apply_select_fallback: a representative column of every table
Columns(i) == IF i.cols = <<>> THEN i.tables ELSE i.cols

\* The base table, and the SELECT: the measure alone, or the columns.  A
\* ranking without a measure counts the rows of the base table.
Select ==
    /\ pc = "select" /\ Goto("joins")
    /\ LET base == BaseTable(graph, intent.tables)
           agg == IF intent.agg = None /\ Asks("order") /\ base \in Keyed THEN base
                  ELSE intent.agg
       IN  plan' = [plan EXCEPT !.base = base, !.agg = agg,
                                !.select = IF agg = None THEN Columns(intent) ELSE <<agg>>,
                                !.order = IF Asks("order") THEN agg ELSE None,
                                !.having = IF Asks("having") THEN agg ELSE None]
    /\ UNCHANGED <<schema, intent, graph, dropped>>

\* Joins to the tables the question named and the ones the plan has so far.
Joins ==
    /\ pc = "joins" /\ Goto("group")
    /\ LET targets == Only(Distinct(intent.tables \o Referenced(plan)), Tables \ {plan.base})
       IN  plan' = [plan EXCEPT !.joins = WithRoles(graph, schema,
                                            ResolveJoins(graph, plan.base, targets), intent.role)]
    /\ UNCHANGED <<schema, intent, graph, dropped>>

\* The table to group by: that of the first dimension, or of the base table's
\* label where the question ranks or says "by"; none for a pure aggregate.
Grouping(p) ==
    LET dims == IF intent.cols # <<>> THEN intent.cols ELSE Only(intent.tables, Labelled)
        label == IF p.base \in Labelled /\ (Asks("order") \/ Asks("signal")) THEN p.base ELSE None
    IN  IF p.agg = None \/ intent.marks = {} THEN None
        ELSE IF dims # <<>> THEN Head(dims) ELSE label

\* The GROUP BY decision, then the filters and the final ordering: a ranked
\* measure is an expression that names no table, any other is the base table's.
Group ==
    /\ pc = "group" /\ Goto("rebase")
    /\ LET group == Grouping(plan)
       IN  plan' = [plan EXCEPT !.group = group,
                                !.select = IF plan.agg = None THEN @ ELSE One(group) \o <<plan.agg>>,
                                !.where = intent.filters,
                                !.order = IF Asks("order") /\ plan.agg = None THEN plan.base
                                          ELSE None]
    /\ UNCHANGED <<schema, intent, graph, dropped>>

\* Leaves a plan with the base its intent named.
RebaseNever(p, g) == p
\* _rebase_on_referenced_table: to the first table that reaches the others, if
\* the base holds no column and cannot reach them
Rebased(p, g) ==
    LET refs == Referenced(p)
        Joined(a, b) == FindJoinPath(g, a, b) # <<>>
        anchors == Only(refs, {t \in Tables : \A u \in ToSet(refs) \ {t} : Joined(t, u)})
    IN  IF refs = <<>> \/ Contains(refs, p.base) \/ anchors = <<>>
           \/ \A t \in ToSet(refs) : Joined(p.base, t)
        THEN p
        ELSE [p EXCEPT !.base = Head(anchors), !.joins = <<>>]

Rebase ==
    /\ pc = "rebase" /\ Goto("reconcile")
    /\ plan' = Rebased(plan, graph)
    /\ UNCHANGED <<schema, intent, graph, dropped>>

\* _reconcile_joins: the hops to what is referenced and not joined yet
Reconciled(p, g) ==
    LET missing == Only(Referenced(p), Tables \ Scope(p))
        AddHop == [hop \in Hop |-> [joins \in Seq(Hop) |->
                     IF hop.right \in Scope([p EXCEPT !.joins = joins]) THEN joins
                     ELSE Append(joins, hop)]]
    IN  [p EXCEPT !.joins = Loop(AddHop, @, ResolveJoins(g, p.base, missing))]

Reconcile ==
    /\ pc = "reconcile" /\ Goto("drop")
    /\ plan' = Reconciled(plan, graph)
    /\ UNCHANGED <<schema, intent, graph, dropped>>

\* _drop_unreachable_filters, and its note
Drop ==
    /\ pc = "drop" /\ Goto("prune")
    /\ LET kept == Only(plan.where, Scope(plan))
           lost == {plan.order, plan.having} \ (Scope(plan) \union {None})
       IN  plan' = [plan EXCEPT !.where = kept,
                                !.order = IF @ \in lost THEN None ELSE @,
                                !.having = IF @ \in lost THEN None ELSE @,
                                !.noted = kept # plan.where \/ lost # {}]
    /\ UNCHANGED <<schema, intent, graph, dropped>>

\* Takes every join for needed.
PruneNothing(p, joins) == joins
\* Keeps the joins to referenced tables only.
PruneKeepsNamed(p, joins) ==
    SelectSeq(joins, LAMBDA j : Contains(Referenced(p), j.right))
\* _prune_unused_joins: backwards, a kept join makes its left table needed
Pruned(p, joins) ==
    LET Keep == [j \in Hop |-> [acc \in [need : SUBSET Tables, kept : Seq(Hop)] |->
                   IF j.right \in acc.need
                   THEN [need |-> acc.need \union {j.left}, kept |-> <<j>> \o acc.kept]
                   ELSE acc]]
    IN  Loop(Keep, [need |-> ToSet(Referenced(p)) \union {p.base}, kept |-> <<>>],
             Reverse(joins)).kept

\* Keeps repeated joins.
DedupeNothing(joins) == joins
\* _dedupe_joins: the first join of each table
Dedupe(joins) ==
    LET AddNew == [j \in Hop |-> [acc \in Seq(Hop) |->
                     IF \E k \in DOMAIN acc : acc[k].right = j.right THEN acc
                     ELSE Append(acc, j)]]
    IN  Loop(AddNew, <<>>, joins)

Prune ==
    /\ pc = "prune" /\ Goto("report")
    /\ plan' = [plan EXCEPT !.joins = Pruned(plan, Dedupe(@))]
    /\ UNCHANGED <<schema, intent, graph, dropped>>

\* detect_dropped_clauses: what was asked for and is gone altogether
DroppedClauses(i, p) ==
    {c \in {"aggregation", "grouping", "filter", "ordering"} :
        \/ c = "aggregation" /\ i.agg # None /\ p.agg = None
        \/ c = "grouping" /\ "signal" \in i.marks /\ p.group = None
        \/ c = "filter" /\ i.filters # <<>> /\ p.where = <<>>
        \/ c = "ordering" /\ "order" \in i.marks /\ p.agg = None /\ p.order = None}

\* The plan's ambiguities and confidence are worked out anew.
Report ==
    /\ pc = "report" /\ Goto("compile")
    /\ plan' = [plan EXCEPT !.noted = FALSE]
    /\ dropped' = DroppedClauses(intent, plan)
    /\ UNCHANGED <<schema, intent, graph>>

\* compile_sql refuses a statement that names a table it does not join.
Compile ==
    /\ pc = "compile"
    /\ Goto(IF ToSet(Referenced(plan)) \subseteq Scope(plan) THEN "accepted" ELSE "refused")
    /\ UNCHANGED <<schema, intent, graph, plan, dropped>>

----------------------------------------------------------------------------
Init ==
    /\ pc = "graph"
    /\ schema \in Schemas /\ intent \in Intents
    /\ graph = [t \in Tables |-> <<>>]
    /\ plan = [base |-> None, joins |-> <<>>, select |-> <<>>, agg |-> None, group |-> None,
               where |-> <<>>, order |-> None, having |-> None, noted |-> FALSE]
    /\ dropped = {}

Next ==
    \/ BuildGraph \/ Select \/ Joins \/ Group \/ Rebase \/ Reconcile
    \/ Drop \/ Prune \/ Report \/ Compile

Spec == Init /\ [][Next]_vars

----------------------------------------------------------------------------
(* Properties                                                              *)

Relations(s) == ToSet(s.declared) \union ToSet(s.byKey)
                \union (IF s.declared = <<>> THEN ToSet(s.byName) ELSE {})
Adjacent(s, t, u) == \E r \in Relations(s) : {r.child, r.parent} = {t, u}

\* Ball(s, t, n): the tables at most n relations of s away from t
Ball(s, t, n) ==
    LET Grow[k \in Nat] ==
          IF k = 0 THEN {t}
          ELSE LET near == Grow[k - 1]
               IN  near \union {u \in Tables : \E v \in near : Adjacent(s, v, u)}
    IN  Grow[n]
Related(t) == Ball(schema, t, Cardinality(Tables))

Finished == pc \in {"accepted", "refused"}
Rights(k) == {plan.joins[j].right : j \in 1..k}

\* Every join of a statement starts at a table that is there already, the base
\* or one joined before it; the database rejects any other order.  Each pass
\* edits the list, and a pass that drops one hop breaks those after it.
JoinsStartInScope ==
    \A k \in DOMAIN plan.joins : plan.joins[k].left \in {plan.base} \union Rights(k - 1)

\* "Joining a table twice without an alias is never intentional."
NoTableTwice ==
    Finished => Cardinality({plan.base} \union Rights(Len(plan.joins))) = Len(plan.joins) + 1

\* A join compares the columns of a relation between its two tables: no pass
\* joins tables that have none, or by the key of another relation.
JoinsFollowRelations ==
    \A k \in DOMAIN plan.joins : \E r \in Relations(schema) :
        /\ {r.child, r.parent} = {plan.joins[k].left, plan.joins[k].right}
        /\ r.role = plan.joins[k].role

\* Joins multiply rows: a statement joins nothing but what lies on the way to a
\* table it names, and the way is a shortest one.
JoinsAreNeeded ==
    Finished => \A k \in DOMAIN plan.joins :
        LET onward == {j \in DOMAIN plan.joins : plan.joins[j].left = plan.joins[k].right}
        IN  onward # {} \/ Contains(Referenced(plan), plan.joins[k].right)

\* Distance from the base along the joins of the plan equals the distance in
\* the schema.
JoinsAreShortest ==
    Finished => LET depth[k \in DOMAIN plan.joins] ==
                      IF plan.joins[k].left = plan.base THEN 1
                      ELSE 1 + depth[CHOOSE j \in 1..(k - 1) :
                                        plan.joins[j].right = plan.joins[k].left]
                IN  \A k \in DOMAIN plan.joins :
                       plan.joins[k].right \notin Ball(schema, plan.base, depth[k] - 1)

\* "Given every chance": a plan whose clauses name related tables is answered,
\* wherever its base began, and a filter is lost only on a table that is
\* unrelated to the base.  A plan that names a table the base is not related to
\* is not answered.
RelatedIsAnswered ==
    Finished =>
        /\ LET named == ToSet(Referenced(plan)) \union ToSet(intent.filters)
           IN  (\A t, u \in named : t \in Related(u)) => pc = "accepted"
        /\ \A t \in ToSet(intent.filters) : t \in Related(plan.base) => Contains(plan.where, t)
        /\ pc = "accepted" => ToSet(Referenced(plan)) \subseteq Related(plan.base)

\* "Dropping a filter widens the result, so it is recorded as an ambiguity and
\* the confidence is cut."
DroppedIsNoted ==
    pc = "accepted" /\ plan.where # intent.filters => plan.noted

\* "A caller that knows which role the question named can choose": a join of
\* two tables related in that role uses it.
RoleIsHonoured ==
    Finished => \A k \in DOMAIN plan.joins :
        LET j == plan.joins[k]
        IN  (\E r \in ToSet(schema.declared) :
                {r.child, r.parent} = {j.left, j.right} /\ r.role = intent.role)
            => j.role = intent.role
=============================================================================
