--------------------------- MODULE JoinPlan_proof ---------------------------
(***************************************************************************)
(* Proofs about JoinPlan for every schema, every intent and any finite set *)
(* of tables.                                                              *)
(*                                                                         *)
(* The passes are loops, and Looping is the rule for all of them.  What    *)
(* they have to keep is that a list of joins is "laid" out of the base:    *)
(* each join starts in scope and leads from one ball around the base to    *)
(* the next.  The search is shown to find such paths, each pass to keep    *)
(* them, and the properties follow.                                        *)
(***************************************************************************)
EXTENDS JoinPlan, FiniteSetTheorems, WellFoundedInduction, TLAPS

----------------------------------------------------------------------------
(* Loops and induction *)

\* A nonempty set of naturals has a least element.
LEMMA Least ==
  ASSUME NEW T \in SUBSET Nat, T # {}
  PROVE  \E n \in T : \A m \in T : n <= m
<1>1. IsWellFoundedOn(OpToRel(<, Nat), Nat)
  BY NatLessThanWellFounded
<1>2. PICK n \in T : \A m \in T : <<m, n>> \notin OpToRel(<, Nat)
  BY <1>1, WFMin
<1>3. ASSUME NEW m \in T, m < n PROVE <<m, n>> \in OpToRel(<, Nat)
  <2>1. <<m, n>> \in Nat \X Nat /\ <<m, n>>[1] < <<m, n>>[2]
    BY <1>3
  <2>2. OpToRel(<, Nat) = {ss \in Nat \X Nat : ss[1] < ss[2]}
    BY DEF OpToRel
  <2> QED BY <2>1, <2>2
<1>4. \A m \in T : ~(m < n)
  BY <1>2, <1>3
<1> QED BY <1>4

\* A set with 0 that goes on with every n is all of Nat: induction, with a set
\* for the predicate.
LEMMA Climb ==
  ASSUME NEW T \in SUBSET Nat, 0 \in T, \A n \in T : n + 1 \in T
  PROVE  T = Nat
<1> SUFFICES ASSUME Nat \ T # {} PROVE FALSE
  OBVIOUS
<1>1. PICK n \in Nat \ T : \A m \in Nat \ T : n <= m
  BY Least
<1>2. n - 1 \in Nat
  OBVIOUS
<1>3. n - 1 \in T
  BY <1>1, <1>2
<1> QED BY <1>3

Iterations(A, x, F) ==
    {f \in [Nat -> A] : f[0] = x /\ \A k \in Nat : f[k + 1] = F[k + 1][f[k]]}

\* A function can be defined on Nat by iteration.
LEMMA Iterates ==
  ASSUME NEW A, NEW x \in A, NEW F \in [Nat -> [A -> A]]
  PROVE  Iterations(A, x, F) # {}
<1> DEFINE Runs(g, n) == g[0] = x /\ \A k \in 1..n : g[k] = F[k][g[k - 1]]
           Begun == {n \in Nat : \E g \in [0..n -> A] : Runs(g, n)}
<1>1. Begun = Nat
  <2>1. 0 \in Begun
    <3>1. [k \in 0..0 |-> x] \in [0..0 -> A] /\ Runs([k \in 0..0 |-> x], 0)
      OBVIOUS
    <3> QED BY <3>1
  <2>2. ASSUME NEW n \in Begun PROVE n + 1 \in Begun
    <3>1. PICK g \in [0..n -> A] : Runs(g, n)
      OBVIOUS
    <3> DEFINE h == [k \in 0..(n + 1) |-> IF k = n + 1 THEN F[n + 1][g[n]] ELSE g[k]]
    <3>2. h \in [0..(n + 1) -> A]
      OBVIOUS
    <3>3. h[0] = x
      BY <3>1
    <3>4. ASSUME NEW k \in 1..(n + 1) PROVE h[k] = F[k][h[k - 1]]
      BY <3>1
    <3>5. Runs(h, n + 1)
      BY <3>3, <3>4
    <3> HIDE DEF h, Runs
    <3> QED BY <3>2, <3>5
  <2> HIDE DEF Begun
  <2>3. Begun \in SUBSET Nat
    BY DEF Begun
  <2> QED BY <2>1, <2>2, <2>3, Climb
<1> DEFINE c == [n \in Nat |-> CHOOSE g \in [0..n -> A] : Runs(g, n)]
<1>2. \A n \in Nat : c[n] \in [0..n -> A] /\ Runs(c[n], n)
  BY <1>1
<1> HIDE DEF c
<1>3. ASSUME NEW n \in Nat PROVE c[n + 1][n] = c[n][n]
  <2> DEFINE Same == {k \in Nat : k <= n => c[n + 1][k] = c[n][k]}
  <2>1. 0 \in Same
    BY <1>2
  <2>2. ASSUME NEW k \in Same PROVE k + 1 \in Same
    <3> SUFFICES ASSUME k + 1 <= n PROVE c[n + 1][k + 1] = c[n][k + 1]
      OBVIOUS
    <3>1. c[n + 1][k] = c[n][k]
      OBVIOUS
    <3>2. k + 1 \in 1..n /\ k + 1 \in 1..(n + 1) /\ (k + 1) - 1 = k
      OBVIOUS
    <3> QED BY <1>2, <3>1, <3>2
  <2> HIDE DEF Same
  <2>3. Same = Nat
    BY <2>1, <2>2, Climb DEF Same
  <2> QED BY <2>3 DEF Same
<1> DEFINE f == [n \in Nat |-> c[n][n]]
<1>4. f \in [Nat -> A]
  BY <1>2
<1>5. f[0] = x
  BY <1>2
<1>6. ASSUME NEW k \in Nat PROVE f[k + 1] = F[k + 1][f[k]]
  <2>1. c[k + 1][k] = c[k][k]
    BY <1>3
  <2>2. c[k + 1][k + 1] = F[k + 1][c[k + 1][(k + 1) - 1]]
    BY <1>2
  <2> QED BY <2>1, <2>2
<1> HIDE DEF f
<1> QED BY <1>4, <1>5, <1>6 DEF Iterations

(* G[k] holds of the value of a loop after k iterations.                   *)
Preserved(body, seq, G) ==
    \A k \in 1..Len(seq) : \A a \in G[k - 1] : body[seq[k]][a] \in G[k]

\* The invariant rule of Loop: what holds of x and is kept by each turn of the
\* body holds of the result.
LEMMA Looping ==
  ASSUME NEW A, NEW E, NEW x, NEW body \in [E -> [A -> A]], NEW seq \in Seq(E),
         NEW G \in [0..Len(seq) -> SUBSET A],
         x \in G[0], Preserved(body, seq, G)
  PROVE  Loop(body, x, seq) \in G[Len(seq)]
<1> DEFINE n == Len(seq)
           F == [k \in Nat |-> IF k \in 1..n THEN body[seq[k]] ELSE [a \in A |-> a]]
           after == CHOOSE f : f = [k \in 0..n |-> IF k = 0 THEN x ELSE body[seq[k]][f[k - 1]]]
<1>n. n \in Nat /\ \A k \in 1..n : seq[k] \in E
  OBVIOUS
<1>1. F \in [Nat -> [A -> A]] /\ x \in A
  BY <1>n
<1> HIDE DEF F
<1>2. PICK f \in Iterations(A, x, F) : TRUE
  BY <1>1, Iterates
<1>f. f \in [Nat -> A] /\ f[0] = x /\ \A k \in Nat : f[k + 1] = F[k + 1][f[k]]
  BY DEF Iterations
<1>3. [k \in 0..n |-> f[k]]
        = [k \in 0..n |-> IF k = 0 THEN x ELSE body[seq[k]][[j \in 0..n |-> f[j]][k - 1]]]
  <2> SUFFICES ASSUME NEW k \in 0..n
               PROVE  f[k] = IF k = 0 THEN x ELSE body[seq[k]][[j \in 0..n |-> f[j]][k - 1]]
    OBVIOUS
  <2>0. CASE k = 0
    BY <1>f, <2>0
  <2> SUFFICES ASSUME k # 0 PROVE f[k] = body[seq[k]][f[k - 1]]
    BY <1>n, <2>0
  <2>1. k - 1 \in Nat /\ (k - 1) + 1 = k /\ k \in 1..n
    BY <1>n
  <2>2. f[k] = F[k][f[k - 1]]
    BY <1>f, <2>1
  <2>3. F[k] = body[seq[k]]
    BY <2>1 DEF F
  <2> QED BY <2>2, <2>3
<1>4. after = [k \in 0..n |-> IF k = 0 THEN x ELSE body[seq[k]][after[k - 1]]]
  BY <1>3
<1> HIDE DEF after
<1> DEFINE T == {k \in Nat : k <= n => after[k] \in G[k]}
<1>5. T = Nat
  <2>1. 0 \in T
    BY <1>4, <1>n
  <2>2. ASSUME NEW k \in T PROVE k + 1 \in T
    <3> SUFFICES ASSUME k + 1 <= n PROVE after[k + 1] \in G[k + 1]
      OBVIOUS
    <3>1. after[k] \in G[k] /\ k + 1 \in 1..n /\ (k + 1) - 1 = k
      OBVIOUS
    <3>2. after[k + 1] = body[seq[k + 1]][after[k]]
      BY <1>4, <3>1
    <3> QED BY <3>1, <3>2 DEF Preserved
  <2> HIDE DEF T
  <2> QED BY <2>1, <2>2, Climb DEF T
<1>6. after[n] \in G[n]
  BY <1>5, <1>n
<1> QED BY <1>6 DEF Loop, after

----------------------------------------------------------------------------
(* Sequences of tables *)

LEMMA AppendedSet ==
  ASSUME NEW S, NEW seq \in Seq(S), NEW e \in S
  PROVE  Append(seq, e) \in Seq(S) /\ ToSet(Append(seq, e)) = ToSet(seq) \union {e}
<1>1. /\ Append(seq, e) \in Seq(S) /\ Len(Append(seq, e)) = Len(seq) + 1
      /\ \A i \in 1..Len(seq) : Append(seq, e)[i] = seq[i]
      /\ Append(seq, e)[Len(seq) + 1] = e
  OBVIOUS
<1>2. DOMAIN Append(seq, e) = 1..(Len(seq) + 1) /\ DOMAIN seq = 1..Len(seq)
  BY <1>1
<1> QED BY <1>1, <1>2 DEF ToSet

\* The elements of a sequence, by the operators that read it
LEMMA SetOfSeq ==
  ASSUME NEW S, NEW seq \in Seq(S)
  PROVE  /\ ToSet(seq) \subseteq S
         /\ seq = <<>> <=> ToSet(seq) = {}
         /\ seq # <<>> => Head(seq) \in ToSet(seq)
         /\ \A e : Contains(seq, e) <=> e \in ToSet(seq)
<1>1. Len(seq) \in Nat /\ DOMAIN seq = 1..Len(seq) /\ \A i \in 1..Len(seq) : seq[i] \in S
  OBVIOUS
<1>2. seq # <<>> => 1 \in DOMAIN seq /\ Head(seq) = seq[1]
  BY <1>1
<1>3. seq = <<>> => DOMAIN seq = {}
  OBVIOUS
<1>4. ToSet(seq) = {seq[i] : i \in DOMAIN seq}
  BY DEF ToSet
<1>5. \A e : Contains(seq, e) <=> \E i \in DOMAIN seq : seq[i] = e
  BY <1>1 DEF Contains
<1>6. ToSet(seq) \subseteq S
  BY <1>1, <1>4
<1>7. seq = <<>> <=> ToSet(seq) = {}
  BY <1>2, <1>3, <1>4
<1> QED BY <1>2, <1>4, <1>5, <1>6, <1>7

\* Distinct neither loses a table nor invents one.
LEMMA DistinctKeeps ==
  ASSUME NEW seq \in Seq(Tables)
  PROVE  Distinct(seq) \in Seq(Tables) /\ ToSet(Distinct(seq)) = ToSet(seq)
<1> DEFINE AddNew == [t \in Tables |-> [acc \in Seq(Tables) |->
                        IF Contains(acc, t) THEN acc ELSE Append(acc, t)]]
           Seen(k) == {seq[i] : i \in 1..k}
           G == [k \in 0..Len(seq) |-> {acc \in Seq(Tables) : ToSet(acc) = Seen(k)}]
<1>d. Distinct(seq) = Loop(AddNew, <<>>, seq)
  BY DEF Distinct
<1>a. /\ AddNew \in [Tables -> [Seq(Tables) -> Seq(Tables)]]
      /\ \A t \in Tables, acc \in Seq(Tables) :
            AddNew[t][acc] = IF Contains(acc, t) THEN acc ELSE Append(acc, t)
  OBVIOUS
<1>g. /\ G \in [0..Len(seq) -> SUBSET Seq(Tables)]
      /\ \A k \in 0..Len(seq), acc \in Seq(Tables) : acc \in G[k] <=> ToSet(acc) = Seen(k)
  OBVIOUS
<1> HIDE DEF AddNew, G
<1>1. <<>> \in G[0]
  BY <1>g DEF ToSet
<1>2. ASSUME NEW k \in 1..Len(seq), NEW acc \in G[k - 1]
      PROVE  AddNew[seq[k]][acc] \in G[k]
  <2>2. Seen(k) = Seen(k - 1) \union {seq[k]}
    OBVIOUS
  <2>a. seq[k] \in Tables /\ k - 1 \in 0..Len(seq) /\ k \in 0..Len(seq)
    OBVIOUS
  <2> HIDE DEF Seen
  <2>b. acc \in Seq(Tables)
    BY <1>g, <2>a
  <2>1. acc \in Seq(Tables) /\ seq[k] \in Tables /\ ToSet(acc) = Seen(k - 1)
    BY <1>g, <2>a, <2>b
  <2>3. CASE Contains(acc, seq[k])
    <3>1. seq[k] \in ToSet(acc)
      BY <2>1, <2>3 DEF Contains, ToSet
    <3>2. AddNew[seq[k]][acc] = acc
      BY <1>a, <2>1, <2>3
    <3>3. ToSet(acc) = Seen(k)
      BY <2>1, <2>2, <3>1
    <3>4. acc \in G[k]
      BY <1>g, <2>1, <3>3
    <3> QED BY <3>2, <3>4
  <2>4. CASE ~Contains(acc, seq[k])
    <3>1. AddNew[seq[k]][acc] = Append(acc, seq[k])
      BY <1>a, <2>1, <2>4
    <3>2. /\ Append(acc, seq[k]) \in Seq(Tables)
          /\ ToSet(Append(acc, seq[k])) = ToSet(acc) \union {seq[k]}
      BY <2>1, AppendedSet
    <3> DEFINE longer == Append(acc, seq[k])
    <3>3. longer \in Seq(Tables) /\ ToSet(longer) = Seen(k)
      BY <2>1, <2>2, <3>2
    <3> HIDE DEF longer
    <3>4. longer \in G[k]
      BY <1>g, <3>3
    <3> QED BY <3>1, <3>4 DEF longer
  <2> QED BY <2>3, <2>4
<1>3. Preserved(AddNew, seq, G)
  BY <1>2 DEF Preserved
<1>4. Loop(AddNew, <<>>, seq) \in G[Len(seq)]
  BY <1>a, <1>g, <1>1, <1>3, Looping
<1>5. Seen(Len(seq)) = ToSet(seq)
  BY DEF ToSet
<1> QED BY <1>d, <1>g, <1>4, <1>5

\* Only keeps the tables of seq that are in S, and no other.
LEMMA OnlyKeeps ==
  ASSUME NEW seq \in Seq(Tables), NEW S
  PROVE  Only(seq, S) \in Seq(Tables) /\ ToSet(Only(seq, S)) = ToSet(seq) \intersect S
<1> DEFINE AddMember == [t \in Tables |-> [acc \in Seq(Tables) |->
                           IF t \in S THEN Append(acc, t) ELSE acc]]
           Seen(k) == {seq[i] : i \in 1..k}
           G == [k \in 0..Len(seq) |-> {acc \in Seq(Tables) : ToSet(acc) = Seen(k) \intersect S}]
<1>d. Only(seq, S) = Loop(AddMember, <<>>, seq)
  BY DEF Only
<1>a. /\ AddMember \in [Tables -> [Seq(Tables) -> Seq(Tables)]]
      /\ \A t \in Tables, acc \in Seq(Tables) :
            AddMember[t][acc] = IF t \in S THEN Append(acc, t) ELSE acc
  OBVIOUS
<1>g. /\ G \in [0..Len(seq) -> SUBSET Seq(Tables)]
      /\ \A k \in 0..Len(seq), acc \in Seq(Tables) :
            acc \in G[k] <=> ToSet(acc) = Seen(k) \intersect S
  OBVIOUS
<1> HIDE DEF AddMember, G
<1>1. <<>> \in G[0]
  BY <1>g DEF ToSet
<1>2. ASSUME NEW k \in 1..Len(seq), NEW acc \in G[k - 1]
      PROVE  AddMember[seq[k]][acc] \in G[k]
  <2>1. acc \in Seq(Tables) /\ seq[k] \in Tables /\ ToSet(acc) = Seen(k - 1) \intersect S
    BY <1>g
  <2>2. Seen(k) = Seen(k - 1) \union {seq[k]}
    OBVIOUS
  <2> HIDE DEF Seen
  <2>3. CASE seq[k] \notin S
    <3>1. AddMember[seq[k]][acc] = acc
      BY <1>a, <2>1, <2>3
    <3>2. Seen(k) \intersect S = Seen(k - 1) \intersect S
      BY <2>2, <2>3
    <3> QED BY <1>g, <2>1, <3>1, <3>2
  <2>4. CASE seq[k] \in S
    <3>1. AddMember[seq[k]][acc] = Append(acc, seq[k])
      BY <1>a, <2>1, <2>4
    <3>2. /\ Append(acc, seq[k]) \in Seq(Tables)
          /\ ToSet(Append(acc, seq[k])) = ToSet(acc) \union {seq[k]}
      BY <2>1, AppendedSet
    <3>3. Seen(k) \intersect S = (Seen(k - 1) \intersect S) \union {seq[k]}
      BY <2>2, <2>4
    <3> DEFINE longer == Append(acc, seq[k])
    <3>4. longer \in Seq(Tables) /\ ToSet(longer) = Seen(k) \intersect S
      BY <2>1, <3>2, <3>3
    <3> HIDE DEF longer
    <3>5. longer \in G[k]
      BY <1>g, <3>4
    <3> QED BY <3>1, <3>5 DEF longer
  <2> QED BY <2>3, <2>4
<1>3. Preserved(AddMember, seq, G)
  BY <1>2 DEF Preserved
<1>4. Loop(AddMember, <<>>, seq) \in G[Len(seq)]
  BY <1>a, <1>g, <1>1, <1>3, Looping
<1>5. Seen(Len(seq)) = ToSet(seq)
  BY DEF ToSet
<1> QED BY <1>d, <1>g, <1>4, <1>5

----------------------------------------------------------------------------
(* The search *)

Graph == [Tables -> Seq(Edge)]
Near(g, t) == {g[t][k].to : k \in DOMAIN g[t]}

(* One hop longer than walk                                                *)
Longer(walk, w) ==
    \E r \in STRING :
       w.path = Append(walk.path, [left |-> walk.at, right |-> w.at, role |-> r])

\* Onward queues one walk, a hop longer, for each neighbour not visited.
LEMMA OnwardWalks ==
  ASSUME NEW g \in Graph, NEW visited, NEW walk \in Walk
  PROVE  LET next == Onward(g, visited, walk)
         IN  /\ next \in Seq(Walk)
             /\ \A w \in ToSet(next) : w.at \in Near(g, walk.at) \ visited /\ Longer(walk, w)
             /\ \A u \in Near(g, walk.at) \ visited : \E w \in ToSet(next) : w.at = u
<1> DEFINE edges == g[walk.at]
           New(e) == [at |-> e.to,
                      path |-> Append(walk.path, [left |-> walk.at, right |-> e.to,
                                                  role |-> e.roles[1]])]
           Push == [e \in Edge |-> [next \in Seq(Walk) |->
                      IF e.to \in visited THEN next ELSE Append(next, New(e))]]
           Queued(k) == {New(edges[i]) : i \in {i \in 1..k : edges[i].to \notin visited}}
           G == [k \in 0..Len(edges) |-> {next \in Seq(Walk) : ToSet(next) = Queued(k)}]
<1>d. Onward(g, visited, walk) = Loop(Push, <<>>, edges)
  BY DEF Onward
<1>e. edges \in Seq(Edge)
  BY DEF Graph, Walk
<1>w. \A e \in Edge : New(e) \in Walk
  <2> TAKE e \in Edge
  <2>1. e.to \in Tables /\ e.roles[1] \in STRING
    BY DEF Edge
  <2>2. [left |-> walk.at, right |-> e.to, role |-> e.roles[1]] \in Hop
    BY <2>1 DEF Walk, Hop
  <2> QED BY <2>1, <2>2 DEF Walk
<1> HIDE DEF New
<1>a. /\ Push \in [Edge -> [Seq(Walk) -> Seq(Walk)]]
      /\ \A e \in Edge, next \in Seq(Walk) :
            Push[e][next] = IF e.to \in visited THEN next ELSE Append(next, New(e))
  BY <1>w
<1>g. /\ G \in [0..Len(edges) -> SUBSET Seq(Walk)]
      /\ \A k \in 0..Len(edges), next \in Seq(Walk) : next \in G[k] <=> ToSet(next) = Queued(k)
  OBVIOUS
<1> HIDE DEF Push, G
<1>1. <<>> \in G[0]
  <2>1. Queued(0) = {} /\ ToSet(<<>>) = {}
    BY DEF ToSet
  <2> HIDE DEF Queued
  <2> QED BY <1>e, <1>g, <2>1
<1>2. ASSUME NEW k \in 1..Len(edges), NEW next \in G[k - 1]
      PROVE  Push[edges[k]][next] \in G[k]
  <2>a. edges[k] \in Edge
    BY <1>e
  <2>b. next \in Seq(Walk) /\ ToSet(next) = Queued(k - 1)
    <3> HIDE DEF Queued, edges
    <3>1. k - 1 \in 0..Len(edges)
      BY <1>e
    <3> QED BY <1>g, <3>1
  <2>1. next \in Seq(Walk) /\ edges[k] \in Edge /\ ToSet(next) = Queued(k - 1)
    BY <2>a, <2>b
  <2>3. CASE edges[k].to \in visited
    <3>1. Push[edges[k]][next] = next
      BY <1>a, <2>1, <2>3
    <3>2. Queued(k) = Queued(k - 1)
      BY <2>3, <1>e
    <3> HIDE DEF Queued
    <3> QED BY <1>e, <1>g, <2>1, <3>1, <3>2
  <2>4. CASE edges[k].to \notin visited
    <3>1. Push[edges[k]][next] = Append(next, New(edges[k]))
      BY <1>a, <2>1, <2>4
    <3>2. /\ Append(next, New(edges[k])) \in Seq(Walk)
          /\ ToSet(Append(next, New(edges[k]))) = ToSet(next) \union {New(edges[k])}
      BY <1>w, <2>1, AppendedSet
    <3>3. Queued(k) = Queued(k - 1) \union {New(edges[k])}
      BY <2>4, <1>e
    <3> HIDE DEF Queued
    <3> DEFINE longer == Append(next, New(edges[k]))
    <3>4. longer \in Seq(Walk) /\ ToSet(longer) = Queued(k)
      BY <2>1, <3>2, <3>3
    <3> HIDE DEF longer
    <3>5. longer \in G[k]
      BY <1>e, <1>g, <3>4
    <3> QED BY <3>1, <3>5 DEF longer
  <2> QED BY <2>3, <2>4
<1>3. Preserved(Push, edges, G)
  BY <1>2 DEF Preserved
<1>4. Loop(Push, <<>>, edges) \in G[Len(edges)]
  BY <1>a, <1>e, <1>g, <1>1, <1>3, Looping
<1> DEFINE next == Onward(g, visited, walk)
<1>5. next \in Seq(Walk) /\ ToSet(next) = Queued(Len(edges))
  BY <1>d, <1>e, <1>g, <1>4
<1>6. DOMAIN edges = 1..Len(edges)
  BY <1>e
<1>7. ASSUME NEW w \in ToSet(next)
      PROVE  w.at \in Near(g, walk.at) \ visited /\ Longer(walk, w)
  <2>1. PICK i \in 1..Len(edges) : edges[i].to \notin visited /\ w = New(edges[i])
    BY <1>5
  <2>2. edges[i] \in Edge
    BY <1>e
  <2>3. edges[i].roles[1] \in STRING
    BY <2>2 DEF Edge
  <2>4. w.at = edges[i].to
    BY <2>1 DEF New
  <2>5. Longer(walk, w)
    BY <2>1, <2>3, <2>4 DEF New, Longer
  <2> QED BY <1>6, <2>1, <2>4, <2>5 DEF Near
<1>8. ASSUME NEW u \in Near(g, walk.at) \ visited
      PROVE  \E w \in ToSet(next) : w.at = u
  <2>1. PICK i \in 1..Len(edges) : edges[i].to = u
    BY <1>6 DEF Near
  <2>2. New(edges[i]) \in ToSet(next) /\ New(edges[i]).at = u
    BY <1>5, <2>1 DEF New
  <2> QED BY <2>2
<1> HIDE DEF next
<1> QED BY <1>5, <1>7, <1>8 DEF next

----------------------------------------------------------------------------
(* Balls in a join graph *)

Balls(g, start) ==
    {B \in [Nat -> SUBSET Tables] :
        /\ B[0] = {start}
        /\ \A n \in Nat : B[n + 1] = B[n] \union UNION {Near(g, v) : v \in B[n]}}

Before(B, n) == IF n = 0 THEN {} ELSE B[n - 1]

\* Each ball is the one before it and its neighbours.
LEMMA BallsGrow ==
  ASSUME NEW g, NEW start, NEW B \in Balls(g, start)
  PROVE  /\ \A n \in Nat : B[n] \subseteq B[n + 1] /\ start \in B[n]
         /\ \A n \in Nat : \A v \in B[n] : Near(g, v) \subseteq B[n + 1]
         /\ \A n \in Nat : \A u \in B[n + 1] \ B[n] : \E v \in B[n] : u \in Near(g, v)
         /\ \A m, n \in Nat : m <= n => B[m] \subseteq B[n]
<1>1. B \in [Nat -> SUBSET Tables] /\ B[0] = {start}
  BY DEF Balls
<1>2. \A n \in Nat : B[n + 1] = B[n] \union UNION {Near(g, v) : v \in B[n]}
  BY DEF Balls
<1>3. ASSUME NEW m \in Nat, NEW n \in Nat, m <= n PROVE B[m] \subseteq B[n]
  <2> DEFINE T == {k \in Nat : m <= k => B[m] \subseteq B[k]}
  <2>1. 0 \in T
    OBVIOUS
  <2>2. ASSUME NEW k \in T PROVE k + 1 \in T
    <3>1. B[k] \subseteq B[k + 1]
      BY <1>2
    <3>2. m <= k + 1 => m <= k \/ m = k + 1
      OBVIOUS
    <3> QED BY <3>1, <3>2
  <2> HIDE DEF T
  <2>3. T = Nat
    BY <2>1, <2>2, Climb DEF T
  <2> QED BY <1>3, <2>3 DEF T
<1>4. \A n \in Nat : start \in B[n]
  <2> TAKE n \in Nat
  <2>1. B[0] \subseteq B[n]
    BY <1>3
  <2> QED BY <1>1, <2>1
<1> QED BY <1>2, <1>3, <1>4

(* InOrder(b, joins): every join starts at b or at the right of an earlier *)
(* one.                                                                    *)
RightsTo(joins, k) == {joins[j].right : j \in 1..k}
InOrder(b, joins) ==
    \A k \in 1..Len(joins) : joins[k].left \in {b} \union RightsTo(joins, k - 1)

(* Wherever the left of a hop is, the right is at most one ball further.   *)
Adjoins(B, hop) == \A n \in Nat : hop.left \in B[n] => hop.right \in B[n + 1]

(* The walks of n hops from start: each hop is one ball further out, and a *)
(* walk that loses a hop on the way loses it at its end as well.           *)
Ways(B, start, n) ==
    {w \in Walk :
        /\ Len(w.path) = n /\ w.at \in B[n]
        /\ InOrder(start, w.path) /\ w.at \in {start} \union RightsTo(w.path, n)
        /\ \A i \in 1..n :
              /\ w.path[i].left \in B[i - 1] /\ w.path[i].right \in B[i]
              /\ w.path[i].right \in B[i - 1] => w.at \in B[n - 1]
              /\ Adjoins(B, w.path[i])}

\* A way of n hops and one hop more is a way of n + 1 hops.
LEMMA WaysGoOn ==
  ASSUME NEW g, NEW start, NEW B \in Balls(g, start), NEW n \in Nat,
         NEW w \in Ways(B, start, n), NEW x \in Walk,
         x.at \in Near(g, w.at), Longer(w, x)
  PROVE  x \in Ways(B, start, n + 1)
<1>1. PICK r \in STRING :
         x.path = Append(w.path, [left |-> w.at, right |-> x.at, role |-> r])
  BY DEF Longer
<1> DEFINE hop == [left |-> w.at, right |-> x.at, role |-> r]
<1>2. w \in Walk /\ w.path \in Seq(Hop) /\ Len(w.path) = n /\ w.at \in B[n]
  BY DEF Ways, Walk
<1>h. hop \in Hop /\ hop.left = w.at /\ hop.right = x.at
  BY <1>2 DEF Walk, Hop
<1> HIDE DEF hop
<1>3. /\ Len(x.path) = n + 1 /\ x.path[n + 1] = hop
      /\ \A i \in 1..n : x.path[i] = w.path[i]
  BY <1>1, <1>2, <1>h DEF hop
<1>4. x.at \in B[n + 1]
  BY <1>2, BallsGrow
<1>5. w.at \in {start} \union RightsTo(w.path, n) /\ InOrder(start, w.path)
  BY DEF Ways
<1>6. ASSUME NEW k \in 0..n PROVE RightsTo(x.path, k) = RightsTo(w.path, k)
  <2>1. \A j \in 1..k : x.path[j] = w.path[j]
    BY <1>3
  <2> QED BY <2>1 DEF RightsTo
<1>7. x.at \in RightsTo(x.path, n + 1)
  <2>1. n + 1 \in 1..(n + 1) /\ x.path[n + 1].right = x.at
    BY <1>3, <1>h
  <2> QED BY <2>1 DEF RightsTo
<1>8. ASSUME NEW k \in 1..(n + 1)
      PROVE  x.path[k].left \in {start} \union RightsTo(x.path, k - 1)
  <2>1. CASE k = n + 1
    <3>1. k - 1 = n /\ x.path[k].left = w.at
      BY <2>1, <1>3, <1>h
    <3>2. RightsTo(x.path, n) = RightsTo(w.path, n)
      BY <1>6
    <3> QED BY <3>1, <3>2, <1>5
  <2>2. CASE k \in 1..n
    <3>1. k - 1 \in 0..n /\ x.path[k] = w.path[k]
      BY <2>2, <1>3
    <3>2. RightsTo(x.path, k - 1) = RightsTo(w.path, k - 1)
      BY <1>6, <3>1
    <3>3. w.path[k].left \in {start} \union RightsTo(w.path, k - 1)
      BY <1>2, <1>5, <2>2 DEF InOrder
    <3> QED BY <3>1, <3>2, <3>3
  <2> QED BY <2>1, <2>2
<1>9. InOrder(start, x.path)
  BY <1>3, <1>8 DEF InOrder
<1>10. ASSUME NEW i \in 1..(n + 1)
       PROVE  /\ x.path[i].left \in B[i - 1] /\ x.path[i].right \in B[i]
              /\ x.path[i].right \in B[i - 1] => x.at \in B[(n + 1) - 1]
              /\ Adjoins(B, x.path[i])
  <2>1. (n + 1) - 1 = n
    OBVIOUS
  <2>2. CASE i = n + 1
    <3>1. x.path[i].left = w.at /\ x.path[i].right = x.at /\ i - 1 = n
      BY <2>2, <1>3, <1>h
    <3>2. Adjoins(B, x.path[i])
      BY <3>1, BallsGrow DEF Adjoins
    <3> QED BY <3>1, <3>2, <2>1, <2>2, <1>2, <1>4
  <2>3. CASE i \in 1..n
    <3>1. /\ x.path[i] = w.path[i]
          /\ w.path[i].left \in B[i - 1] /\ w.path[i].right \in B[i]
          /\ w.path[i].right \in B[i - 1] => w.at \in B[n - 1]
          /\ Adjoins(B, w.path[i])
      BY <2>3, <1>3 DEF Ways
    <3>2. w.at \in B[n - 1] => x.at \in B[n]
      <4>1. n - 1 \in Nat /\ (n - 1) + 1 = n
        BY <2>3
      <4> QED BY <4>1, BallsGrow
    <3> QED BY <3>1, <3>2, <2>1
  <2> QED BY <2>2, <2>3
<1> QED BY <1>3, <1>4, <1>7, <1>9, <1>10 DEF Ways

\* The elements of a concatenation
LEMMA JoinedSet ==
  ASSUME NEW S, NEW a \in Seq(S), NEW b \in Seq(S)
  PROVE  a \o b \in Seq(S) /\ ToSet(a \o b) = ToSet(a) \union ToSet(b)
<1>1. /\ a \o b \in Seq(S) /\ Len(a \o b) = Len(a) + Len(b)
      /\ \A i \in 1..Len(a) : (a \o b)[i] = a[i]
      /\ \A i \in 1..Len(b) : (a \o b)[Len(a) + i] = b[i]
  OBVIOUS
<1>2. /\ DOMAIN (a \o b) = 1..(Len(a) + Len(b))
      /\ DOMAIN a = 1..Len(a) /\ DOMAIN b = 1..Len(b) /\ Len(a) \in Nat /\ Len(b) \in Nat
  BY <1>1
<1> DEFINE c == a \o b
<1> HIDE DEF c
<1>3. ASSUME NEW i \in DOMAIN c PROVE c[i] \in ToSet(a) \union ToSet(b)
  <2>1. CASE i <= Len(a)
    BY <1>1, <1>2, <2>1 DEF ToSet, c
  <2>2. CASE i > Len(a)
    <3>1. i - Len(a) \in 1..Len(b) /\ i = Len(a) + (i - Len(a))
      BY <1>2, <2>2 DEF c
    <3> QED BY <1>1, <1>2, <3>1 DEF ToSet, c
  <2> QED BY <1>2, <2>1, <2>2 DEF c
<1>4. \A i \in DOMAIN a : i \in DOMAIN c /\ c[i] = a[i]
  BY <1>1, <1>2 DEF c
<1>5. \A i \in DOMAIN b : Len(a) + i \in DOMAIN c /\ c[Len(a) + i] = b[i]
  BY <1>1, <1>2 DEF c
<1>6. ToSet(c) = ToSet(a) \union ToSet(b)
  BY <1>3, <1>4, <1>5 DEF ToSet
<1> QED BY <1>1, <1>6 DEF c

(* A shortest walk to the target has been found before turn n.             *)
FoundBy(B, start, target, n, path) ==
    \E m \in 0..(n - 1) : \E w \in Ways(B, start, m) :
       w.path = path /\ w.at = target /\ target \notin Before(B, m)

(* The search before its turn n                                            *)
Sought(B, start, target, n) ==
    {s \in Search :
        IF s.done THEN FoundBy(B, start, target, n, s.path)
        ELSE /\ s.path = <<>> /\ s.visited = Before(B, n) /\ target \notin Before(B, n)
             /\ \A w \in ToSet(s.next) : w \in Ways(B, start, n)
             /\ \A u \in B[n] \ Before(B, n) : \E w \in ToSet(s.next) : w.at = u}

Ats(walks, k) == {walks[i].at : i \in 1..k}

(* The search during turn n, after k of its walks                          *)
Turning(B, g, start, target, n, walks, k) ==
    {s \in Search :
        IF s.done THEN FoundBy(B, start, target, n + 1, s.path)
        ELSE /\ s.path = <<>> /\ s.visited = Before(B, n) \union Ats(walks, k)
             /\ target \notin s.visited
             /\ \A w \in ToSet(s.next) : w \in Ways(B, start, n + 1)
             /\ \A v \in Ats(walks, k) : \A u \in Near(g, v) :
                   u \in s.visited \/ \E w \in ToSet(s.next) : w.at = u}

(* One visit                                                               *)
Visited(g, target, walk, s) ==
    IF s.done THEN s
    ELSE IF walk.at = target THEN [s EXCEPT !.done = TRUE, !.path = walk.path]
    ELSE [s EXCEPT !.visited = s.visited \union {walk.at},
                   !.next = s.next \o Onward(g, s.visited \union {walk.at}, walk)]

\* A visit leads from search to search.
LEMMA VisitTyped ==
  ASSUME NEW g \in Graph, NEW target
  PROVE  Visit(g, target) \in [Walk -> [Search -> Search]]
<1>1. Visit(g, target) = [walk \in Walk |-> [s \in Search |-> Visited(g, target, walk, s)]]
  BY DEF Visit, Visited
<1>2. ASSUME NEW walk \in Walk, NEW s \in Search PROVE Visited(g, target, walk, s) \in Search
  <2>1. CASE s.done
    BY <2>1 DEF Visited
  <2>2. CASE ~s.done /\ walk.at = target
    BY <2>2 DEF Search, Walk, Visited
  <2>3. CASE ~s.done /\ walk.at # target
    <3> DEFINE more == Onward(g, s.visited \union {walk.at}, walk)
    <3>1. more \in Seq(Walk)
      BY OnwardWalks
    <3> HIDE DEF more
    <3>2. s.next \in Seq(Walk)
      BY DEF Search
    <3>3. s.next \o more \in Seq(Walk)
      BY <3>1, <3>2
    <3>4. s.visited \union {walk.at} \in SUBSET Tables
      BY DEF Search, Walk
    <3>5. Visited(g, target, walk, s) = [s EXCEPT !.visited = s.visited \union {walk.at}, !.next = s.next \o more]
      BY <2>3 DEF more, Visited
    <3> QED BY <3>3, <3>4, <3>5 DEF Search
  <2> QED BY <2>1, <2>2, <2>3
<1> QED BY <1>1, <1>2

LEMMA VisitValue ==
  ASSUME NEW g, NEW target, NEW walk \in Walk, NEW s \in Search
  PROVE  Visit(g, target)[walk][s] = Visited(g, target, walk, s)
BY DEF Visit, Visited

\* One visit keeps what a search has established during turn n.
LEMMA VisitTurns ==
  ASSUME NEW g \in Graph, NEW start, NEW B \in Balls(g, start), NEW target, NEW n \in Nat,
         NEW walks \in Seq(Walk), \A w \in ToSet(walks) : w \in Ways(B, start, n),
         NEW k \in 1..Len(walks),
         NEW s \in Turning(B, g, start, target, n, walks, k - 1)
  PROVE  Visit(g, target)[walks[k]][s] \in Turning(B, g, start, target, n, walks, k)
<1> DEFINE walk == walks[k]
           t == Visit(g, target)[walk][s]
<1>1. walk \in Walk /\ walk \in Ways(B, start, n) /\ s \in Search
  <2>1. walks[k] \in ToSet(walks) /\ walks[k] \in Walk
    BY DEF ToSet
  <2> QED BY <2>1 DEF Turning
<1>3. Ats(walks, k) = Ats(walks, k - 1) \union {walk.at}
  BY DEF Ats
<1> HIDE DEF walk
<1>2. t \in Search
  <2>1. Visit(g, target) \in [Walk -> [Search -> Search]]
    BY VisitTyped
  <2> QED BY <1>1, <2>1
<1>t. t = Visited(g, target, walk, s)
  BY <1>1, VisitValue
<1> HIDE DEF t
<1>w. /\ walk.at \in Tables /\ walk.at \in B[n]
      /\ s.visited \in SUBSET Tables /\ s.next \in Seq(Walk) /\ s.path \in Seq(Hop)
  BY <1>1 DEF Walk, Ways, Search
<1>4. ASSUME s.done PROVE t \in Turning(B, g, start, target, n, walks, k)
  <2>1. t = s
    BY <1>4, <1>t DEF Visited
  <2> QED BY <1>2, <1>4, <2>1 DEF Turning
<1>5. ASSUME ~s.done, walk.at = target PROVE t \in Turning(B, g, start, target, n, walks, k)
  <2>1. t = [s EXCEPT !.done = TRUE, !.path = walk.path]
    BY <1>5, <1>t DEF Visited
  <2>2. t.done /\ t.path = walk.path
    BY <1>1, <2>1 DEF Search
  <2>3. target \notin Before(B, n)
    BY <1>5 DEF Turning
  <2>4. n \in 0..((n + 1) - 1)
    OBVIOUS
  <2>5. FoundBy(B, start, target, n + 1, t.path)
    BY <1>1, <1>5, <2>2, <2>3, <2>4 DEF FoundBy
  <2> QED BY <1>2, <2>2, <2>5 DEF Turning
<1>6. ASSUME ~s.done, walk.at # target PROVE t \in Turning(B, g, start, target, n, walks, k)
  <2> DEFINE seen == s.visited \union {walk.at}
             more == Onward(g, seen, walk)
  <2>1. t = [s EXCEPT !.visited = seen, !.next = s.next \o more]
    BY <1>6, <1>t DEF Visited
  <2>2. /\ more \in Seq(Walk)
        /\ \A x \in ToSet(more) : x.at \in Near(g, walk.at) \ seen /\ Longer(walk, x)
        /\ \A u \in Near(g, walk.at) \ seen : \E x \in ToSet(more) : x.at = u
    BY <1>1, OnwardWalks
  <2> HIDE DEF more
  <2>3. s.next \o more \in Seq(Walk) /\ ToSet(s.next \o more) = ToSet(s.next) \union ToSet(more)
    BY <1>w, <2>2, JoinedSet
  <2> DEFINE next == s.next \o more
  <2> HIDE DEF next
  <2>4. ~t.done /\ t.visited = seen /\ t.next = next /\ t.path = s.path
    BY <1>1, <1>6, <2>1 DEF next, Search
  <2>5. ToSet(next) = ToSet(s.next) \union ToSet(more)
    BY <2>3 DEF next
  <2>6. /\ s.path = <<>> /\ s.visited = Before(B, n) \union Ats(walks, k - 1)
        /\ target \notin s.visited
        /\ \A w \in ToSet(s.next) : w \in Ways(B, start, n + 1)
        /\ \A v \in Ats(walks, k - 1) : \A u \in Near(g, v) :
              u \in s.visited \/ \E w \in ToSet(s.next) : w.at = u
    BY <1>6 DEF Turning
  <2>7. seen = Before(B, n) \union Ats(walks, k) /\ target \notin seen
    BY <1>3, <1>6, <2>6
  <2>8. ASSUME NEW w \in ToSet(next) PROVE w \in Ways(B, start, n + 1)
    <3>1. CASE w \in ToSet(s.next)
      BY <2>6, <3>1
    <3>2. CASE w \in ToSet(more)
      <4>1. w \in Walk
        BY <2>2, <3>2 DEF ToSet
      <4>2. w.at \in Near(g, walk.at) /\ Longer(walk, w)
        BY <2>2, <3>2
      <4> QED BY <1>1, <4>1, <4>2, WaysGoOn
    <3> QED BY <2>5, <3>1, <3>2
  <2>9. ASSUME NEW v \in Ats(walks, k), NEW u \in Near(g, v)
        PROVE  u \in seen \/ \E w \in ToSet(next) : w.at = u
    <3>1. CASE v = walk.at
      BY <2>2, <2>5, <3>1
    <3>2. CASE v \in Ats(walks, k - 1)
      BY <2>5, <2>6, <3>2
    <3> QED BY <1>3, <3>1, <3>2
  <2> HIDE DEF seen
  <2> QED BY <1>2, <2>4, <2>6, <2>7, <2>8, <2>9 DEF Turning
<1>7. t \in Turning(B, g, start, target, n, walks, k)
  BY <1>4, <1>5, <1>6
<1> QED BY <1>7 DEF t, walk

TakeTurn(g, target, s) == Loop(Visit(g, target), [s EXCEPT !.next = <<>>], s.next)

LEMMA NextEmptied ==
  ASSUME NEW s \in Search
  PROVE  [s EXCEPT !.next = <<>>] \in Search /\ s.next \in Seq(Walk)
<1>1. <<>> \in Seq(Walk)
  OBVIOUS
<1> QED BY <1>1 DEF Search

LEMMA TurnTyped ==
  ASSUME NEW g \in Graph, NEW target, NEW s \in Search
  PROVE  TakeTurn(g, target, s) \in Search
<1> DEFINE seq == s.next
           G == [k \in 0..Len(seq) |-> Search]
           x == [s EXCEPT !.next = <<>>]
           body == Visit(g, target)
<1>1. x \in Search /\ seq \in Seq(Walk)
  BY NextEmptied
<1>2. body \in [Walk -> [Search -> Search]]
  BY VisitTyped
<1> HIDE DEF x, body, seq
<1>3. /\ G \in [0..Len(seq) -> SUBSET Search]
      /\ x \in G[0] /\ G[Len(seq)] = Search
      /\ \A k \in 1..Len(seq) : G[k - 1] = Search /\ G[k] = Search /\ seq[k] \in Walk
  BY <1>1
<1>4. Preserved(body, seq, G)
  BY <1>2, <1>3 DEF Preserved
<1> HIDE DEF G
<1>5. Loop(body, x, seq) \in G[Len(seq)]
  BY <1>1, <1>2, <1>3, <1>4, Looping
<1> QED BY <1>3, <1>5 DEF TakeTurn, x, body, seq

\* A turn over all walks of n hops leaves the search ready for turn n + 1: the
\* tables visited are the ball of radius n, unless the target was found.
LEMMA TurnSeeks ==
  ASSUME NEW g \in Graph, NEW start, NEW B \in Balls(g, start), NEW target, NEW n \in Nat,
         NEW s \in Sought(B, start, target, n)
  PROVE  TakeTurn(g, target, s) \in Sought(B, start, target, n + 1)
<1> DEFINE seq == s.next
           x == [s EXCEPT !.next = <<>>]
           body == Visit(g, target)
           Done(k) == {r \in Search : r.done /\ FoundBy(B, start, target, n + 1, r.path)}
           G == [k \in 0..Len(seq) |-> Turning(B, g, start, target, n, seq, k)]
           D == [k \in 0..Len(seq) |-> Done(k)]
<1>1. s \in Search /\ x \in Search /\ seq \in Seq(Walk)
  <2>1. s \in Search
    BY DEF Sought
  <2> QED BY <2>1, NextEmptied
<1>2. body \in [Walk -> [Search -> Search]]
  BY VisitTyped
<1>3. /\ x.done = s.done /\ x.path = s.path /\ x.visited = s.visited /\ x.next = <<>>
  BY <1>1 DEF Search
<1>4. TakeTurn(g, target, s) = Loop(body, x, seq)
  BY DEF TakeTurn
<1> HIDE DEF x, body
<1>5. CASE s.done
  <2>1. D \in [0..Len(seq) -> SUBSET Search]
    OBVIOUS
  <2>2. \A k \in 0..Len(seq) : D[k] = Done(0)
    OBVIOUS
  <2>3. x \in Done(0)
    <3>1. FoundBy(B, start, target, n, s.path)
      BY <1>5 DEF Sought
    <3>2. FoundBy(B, start, target, n + 1, s.path)
      <4>1. \A m \in 0..(n - 1) : m \in 0..((n + 1) - 1)
        OBVIOUS
      <4> QED BY <3>1, <4>1 DEF FoundBy
    <3> QED BY <1>1, <1>3, <1>5, <3>2
  <2>4. ASSUME NEW k \in 1..Len(seq), NEW r \in Done(0) PROVE body[seq[k]][r] \in Done(0)
    <3>1. seq[k] \in Walk /\ r \in Search /\ r.done
      BY <1>1
    <3>2. body[seq[k]][r] = Visited(g, target, seq[k], r)
      BY <3>1, VisitValue DEF body
    <3>3. body[seq[k]][r] = r
      BY <3>1, <3>2 DEF Visited
    <3> QED BY <3>3
  <2> HIDE DEF D, Done, seq
  <2>5. Len(seq) \in Nat
    BY <1>1
  <2>6. Preserved(body, seq, D)
    <3>1. \A k \in 1..Len(seq) : k \in 0..Len(seq) /\ k - 1 \in 0..Len(seq)
      BY <2>5
    <3> QED BY <2>2, <2>4, <3>1 DEF Preserved
  <2>7. x \in D[0]
    BY <2>2, <2>3, <2>5
  <2>8. Loop(body, x, seq) \in D[Len(seq)]
    BY <1>1, <1>2, <2>1, <2>6, <2>7, Looping
  <2>9. Loop(body, x, seq) \in Done(0)
    BY <2>2, <2>5, <2>8
  <2> QED BY <1>4, <2>9 DEF Sought, Done
<1>6. CASE ~s.done
  <2>1. /\ s.path = <<>> /\ s.visited = Before(B, n) /\ target \notin Before(B, n)
        /\ \A w \in ToSet(seq) : w \in Ways(B, start, n)
        /\ \A u \in B[n] \ Before(B, n) : \E w \in ToSet(seq) : w.at = u
    BY <1>6 DEF Sought
  <2>2. G \in [0..Len(seq) -> SUBSET Search]
    BY DEF Turning
  <2>3. \A k \in 0..Len(seq) : G[k] = Turning(B, g, start, target, n, seq, k)
    OBVIOUS
  <2> HIDE DEF G, seq
  <2>4. Len(seq) \in Nat
    BY <1>1
  <2>5. x \in G[0]
    <3>1. Ats(seq, 0) = {} /\ ToSet(<<>>) = {}
      BY DEF Ats, ToSet
    <3>2. ~x.done /\ x.path = <<>> /\ x.visited = Before(B, n) /\ x.next = <<>>
      BY <1>3, <1>6, <2>1
    <3>3. x \in Turning(B, g, start, target, n, seq, 0)
      BY <1>1, <2>1, <3>1, <3>2 DEF Turning
    <3> QED BY <2>3, <2>4, <3>3
  <2>6. ASSUME NEW k \in 1..Len(seq), NEW r \in G[k - 1] PROVE body[seq[k]][r] \in G[k]
    <3>1. k \in 0..Len(seq) /\ k - 1 \in 0..Len(seq)
      BY <2>4
    <3>2. r \in Turning(B, g, start, target, n, seq, k - 1)
      BY <2>3, <3>1
    <3>3. body[seq[k]][r] \in Turning(B, g, start, target, n, seq, k)
      BY <1>1, <2>1, <3>2, VisitTurns DEF body
    <3> QED BY <2>3, <3>1, <3>3
  <2>7. Preserved(body, seq, G)
    BY <2>6 DEF Preserved
  <2>8. Loop(body, x, seq) \in G[Len(seq)]
    BY <1>1, <1>2, <2>2, <2>5, <2>7, Looping
  <2> DEFINE t == Loop(body, x, seq)
  <2>9. t \in Turning(B, g, start, target, n, seq, Len(seq))
    BY <2>3, <2>4, <2>8
  <2> HIDE DEF t
  <2>10. CASE t.done
    BY <2>9, <2>10, <1>4 DEF Turning, Sought, t
  <2>11. CASE ~t.done
    <3>1. /\ t \in Search
          /\ t.path = <<>> /\ t.visited = Before(B, n) \union Ats(seq, Len(seq))
          /\ target \notin t.visited
          /\ \A w \in ToSet(t.next) : w \in Ways(B, start, n + 1)
          /\ \A v \in Ats(seq, Len(seq)) : \A u \in Near(g, v) :
                u \in t.visited \/ \E w \in ToSet(t.next) : w.at = u
      BY <2>9, <2>11 DEF Turning
    <3>2. Ats(seq, Len(seq)) = {w.at : w \in ToSet(seq)}
      BY <1>1 DEF Ats, ToSet
    <3>3. Ats(seq, Len(seq)) \subseteq B[n] /\ B[n] \ Before(B, n) \subseteq Ats(seq, Len(seq))
      <4>1. \A w \in ToSet(seq) : w.at \in B[n]
        BY <2>1 DEF Ways
      <4> QED BY <2>1, <3>2, <4>1
    <3>4. Before(B, n) \subseteq B[n]
      <4>1. CASE n = 0
        BY <4>1 DEF Before
      <4>2. CASE n # 0
        <5>1. n - 1 \in Nat /\ (n - 1) + 1 = n
          BY <4>2
        <5> QED BY <4>2, <5>1, BallsGrow DEF Before
      <4> QED BY <4>1, <4>2
    <3>5. t.visited = B[n] /\ B[n] = Before(B, n + 1)
      <4>1. Before(B, n + 1) = B[n]
        BY DEF Before
      <4> QED BY <3>1, <3>3, <3>4, <4>1
    <3>6. ASSUME NEW u \in B[n + 1] \ B[n] PROVE \E w \in ToSet(t.next) : w.at = u
      <4>1. PICK v \in B[n] : u \in Near(g, v)
        BY BallsGrow
      <4>2. v \notin Before(B, n)
        <5>1. CASE n = 0
          BY <5>1 DEF Before
        <5>2. CASE n # 0
          <6>1. n - 1 \in Nat /\ (n - 1) + 1 = n
            BY <5>2
          <6>2. v \in B[n - 1] => Near(g, v) \subseteq B[n]
            BY <6>1, BallsGrow
          <6> QED BY <4>1, <5>2, <6>2 DEF Before
        <5> QED BY <5>1, <5>2
      <4>3. v \in Ats(seq, Len(seq))
        BY <3>3, <4>2
      <4> QED BY <3>1, <3>5, <4>1, <4>3
    <3>7. t \in Sought(B, start, target, n + 1)
      BY <2>11, <3>1, <3>5, <3>6 DEF Sought
    <3> QED BY <1>4, <3>7 DEF t
  <2> QED BY <2>10, <2>11
<1> QED BY <1>5, <1>6

(* Every hop leads one ball further out.                                   *)
LeadsOut(B, hop) ==
    /\ Adjoins(B, hop)
    /\ \E n \in Nat : hop.left \in B[n] /\ hop.right \in B[n + 1] \ B[n]
Outward(B, joins) == \A hop \in ToSet(joins) : LeadsOut(B, hop)

Ends(joins) == {hop.right : hop \in ToSet(joins)}

Reach == Cardinality(Tables)

(* The shortest paths to target, or none if it is out of reach             *)
Paths(B, start, target) ==
    {p \in Seq(Hop) :
        /\ InOrder(start, p) /\ Outward(B, p)
        /\ target \in B[Reach] \ {start} => target \in Ends(p)
        /\ p # <<>> => target \in B[Reach]}

LEMMA EndsAreRights ==
  ASSUME NEW joins \in Seq(Hop)
  PROVE  Ends(joins) = RightsTo(joins, Len(joins))
BY DEF Ends, RightsTo, ToSet

LEMMA ReachIsNat == Reach \in Nat
BY JoinPlanAssumption, FS_CardinalityType DEF Reach

\* There is a sequence of balls around every table of a graph.
LEMMA BallsExist ==
  ASSUME NEW g \in Graph, NEW start \in Tables
  PROVE  Balls(g, start) # {}
<1> DEFINE F == [n \in Nat |-> [S \in SUBSET Tables |-> S \union UNION {Near(g, v) : v \in S}]]
<1>1. \A v \in Tables : Near(g, v) \subseteq Tables
  <2> TAKE v \in Tables
  <2>1. g[v] \in Seq(Edge)
    BY DEF Graph
  <2>2. \A k \in DOMAIN g[v] : g[v][k] \in Edge
    BY <2>1
  <2> QED BY <2>2 DEF Near, Edge
<1>2. F \in [Nat -> [SUBSET Tables -> SUBSET Tables]]
  <2>1. ASSUME NEW S \in SUBSET Tables
        PROVE  S \union UNION {Near(g, v) : v \in S} \in SUBSET Tables
    BY <1>1
  <2> QED BY <2>1
<1>3. \A n \in Nat, S \in SUBSET Tables : F[n][S] = S \union UNION {Near(g, v) : v \in S}
  OBVIOUS
<1> HIDE DEF F
<1>4. {start} \in SUBSET Tables
  OBVIOUS
<1> DEFINE A == SUBSET Tables
           x == {start}
<1> HIDE DEF A, x
<1>a. F \in [Nat -> [A -> A]] /\ x \in A
  BY <1>2, <1>4 DEF A, x
<1>b. Iterations(A, x, F) # {}
  BY <1>a, Iterates
<1>5. PICK B \in Iterations(SUBSET Tables, {start}, F) : TRUE
  BY <1>b DEF A, x
<1>6. B \in [Nat -> SUBSET Tables] /\ B[0] = {start} /\ \A k \in Nat : B[k + 1] = F[k + 1][B[k]]
  BY <1>5 DEF Iterations
<1>7. B \in Balls(g, start)
  BY <1>3, <1>6 DEF Balls
<1> QED BY <1>7

\* A way to a table that no smaller ball holds goes outward with every hop.
LEMMA WaysLeadOut ==
  ASSUME NEW g, NEW start, NEW B \in Balls(g, start), NEW n \in Nat,
         NEW w \in Ways(B, start, n), w.at \notin Before(B, n)
  PROVE  w.path \in Seq(Hop) /\ InOrder(start, w.path) /\ Outward(B, w.path)
<1>1. w \in Walk /\ Len(w.path) = n /\ InOrder(start, w.path)
  BY DEF Ways
<1>2. ASSUME NEW k \in 1..n
      PROVE  LeadsOut(B, w.path[k])
  <2>1. k - 1 \in Nat /\ (k - 1) + 1 = k /\ n # 0
    OBVIOUS
  <2>2. /\ w.path[k].left \in B[k - 1] /\ w.path[k].right \in B[k]
        /\ w.path[k].right \in B[k - 1] => w.at \in B[n - 1]
        /\ Adjoins(B, w.path[k])
    BY DEF Ways
  <2>3. w.path[k].right \notin B[k - 1]
    BY <2>1, <2>2 DEF Before
  <2> QED BY <2>1, <2>2, <2>3 DEF LeadsOut
<1>3. w.path \in Seq(Hop)
  BY <1>1 DEF Walk
<1>4. DOMAIN w.path = 1..n
  BY <1>1, <1>3
<1> QED BY <1>1, <1>2, <1>3, <1>4 DEF Outward, ToSet

AtStart(start) == [visited |-> {}, next |-> <<[at |-> start, path |-> <<>>]>>,
                   done |-> FALSE, path |-> <<>>]

\* The search is a sequence of turns.
LEMMA TurnsTaken ==
  ASSUME NEW g \in Graph, NEW start \in Tables, NEW target
  PROVE  \E f \in [Nat -> Search] :
            /\ f[0] = AtStart(start) /\ \A n \in Nat : f[n + 1] = TakeTurn(g, target, f[n])
            /\ FindJoinPath(g, start, target) = f[Reach + 1].path
<1> DEFINE x == AtStart(start)
           F == [n \in Nat |-> [s \in Search |-> TakeTurn(g, target, s)]]
           Turns == CHOOSE f : f = [n \in Nat |->
                      IF n = 0 THEN x
                      ELSE LET s == f[n - 1]
                           IN  Loop(Visit(g, target), [s EXCEPT !.next = <<>>], s.next)]
<1>d. FindJoinPath(g, start, target) = Turns[Reach + 1].path
  BY DEF FindJoinPath, Reach, AtStart
<1>x. x \in Search
  <2>1. <<>> \in Seq(Hop)
    OBVIOUS
  <2>2. [at |-> start, path |-> <<>>] \in Walk
    BY <2>1 DEF Walk
  <2>3. <<[at |-> start, path |-> <<>>]>> \in Seq(Walk)
    BY <2>2
  <2> QED BY <2>1, <2>3 DEF Search, AtStart
<1> HIDE DEF x
<1>2. \A s \in Search : TakeTurn(g, target, s) \in Search
  BY TurnTyped
<1>3. F \in [Nat -> [Search -> Search]] /\ \A n \in Nat, s \in Search : F[n][s] = TakeTurn(g, target, s)
  BY <1>2
<1> HIDE DEF F
<1>4. PICK f \in Iterations(Search, x, F) : TRUE
  BY <1>x, <1>3, Iterates
<1>5. f \in [Nat -> Search] /\ f[0] = x /\ \A n \in Nat : f[n + 1] = F[n + 1][f[n]]
  BY <1>4 DEF Iterations
<1>6. ASSUME NEW n \in Nat PROVE f[n] = IF n = 0 THEN x ELSE TakeTurn(g, target, f[n - 1])
  <2>1. CASE n = 0
    BY <1>5, <2>1
  <2>2. CASE n # 0
    <3>1. n - 1 \in Nat /\ (n - 1) + 1 = n
      BY <2>2
    <3> QED BY <1>3, <1>5, <2>2, <3>1
  <2> QED BY <2>1, <2>2
<1>7. f = [n \in Nat |->
             IF n = 0 THEN x
             ELSE LET s == f[n - 1]
                  IN  Loop(Visit(g, target), [s EXCEPT !.next = <<>>], s.next)]
  BY <1>5, <1>6 DEF TakeTurn
<1>8. Turns = [n \in Nat |->
                 IF n = 0 THEN x
                 ELSE LET s == Turns[n - 1]
                      IN  Loop(Visit(g, target), [s EXCEPT !.next = <<>>], s.next)]
  BY <1>7
<1> HIDE DEF Turns
<1>9. Turns[0] = x /\ \A n \in Nat : Turns[n + 1] = TakeTurn(g, target, Turns[n])
  <2>1. Turns = [n \in Nat |-> IF n = 0 THEN x ELSE TakeTurn(g, target, Turns[n - 1])]
    BY <1>8 DEF TakeTurn
  <2>2. \A n \in Nat : n + 1 \in Nat /\ n + 1 # 0 /\ (n + 1) - 1 = n
    OBVIOUS
  <2>3. \A n \in Nat : Turns[n] = IF n = 0 THEN x ELSE TakeTurn(g, target, Turns[n - 1])
    BY <2>1
  <2> QED BY <2>2, <2>3
<1>10. \A n \in Nat : Turns[n] \in Search
  <2> DEFINE T == {n \in Nat : Turns[n] \in Search}
  <2>1. 0 \in T /\ \A n \in T : n + 1 \in T
    BY <1>x, <1>2, <1>9
  <2>2. T \in SUBSET Nat
    OBVIOUS
  <2> HIDE DEF T
  <2>3. T = Nat
    BY <2>1, <2>2, Climb
  <2> QED BY <2>3 DEF T
<1>11. Turns \in [Nat -> Search]
  BY <1>8, <1>10
<1> QED BY <1>9, <1>11, <1>d DEF x

\* find_join_path returns a shortest path where there is one, and none otherwise.
LEMMA SearchFinds ==
  ASSUME NEW g \in Graph, NEW start \in Tables, NEW B \in Balls(g, start), NEW target \in Tables
  PROVE  FindJoinPath(g, start, target) \in Paths(B, start, target)
<1> DEFINE x == AtStart(start)
<1>0. PICK Turns \in [Nat -> Search] :
         /\ Turns[0] = x /\ \A n \in Nat : Turns[n + 1] = TakeTurn(g, target, Turns[n])
         /\ FindJoinPath(g, start, target) = Turns[Reach + 1].path
  BY TurnsTaken
<1>d. FindJoinPath(g, start, target) = Turns[Reach + 1].path
  BY <1>0
<1>9. Turns[0] = x /\ \A n \in Nat : Turns[n + 1] = TakeTurn(g, target, Turns[n])
  BY <1>0
<1>x. x \in Search
  BY <1>0
<1>1. x \in Sought(B, start, target, 0)
  <2> DEFINE w == [at |-> start, path |-> <<>>]
  <2>1. ~x.done /\ x.path = <<>> /\ x.visited = {} /\ Before(B, 0) = {} /\ ToSet(x.next) = {w}
    BY DEF Before, ToSet, AtStart
  <2>2. B[0] = {start} /\ w.at = start
    BY DEF Balls
  <2>3. w \in Ways(B, start, 0)
    <3>1. w.path = <<>> /\ w \in Walk
      <4>1. <<>> \in Seq(Hop)
        OBVIOUS
      <4> QED BY <4>1 DEF Walk
    <3> HIDE DEF w
    <3> QED BY <2>2, <3>1 DEF Ways, InOrder
  <2> HIDE DEF x, w
  <2> QED BY <1>x, <2>1, <2>2, <2>3 DEF Sought
<1> HIDE DEF x
<1> DEFINE T == {n \in Nat : Turns[n] \in Sought(B, start, target, n)}
<1>10. T = Nat
  <2>1. 0 \in T
    BY <1>1, <1>9
  <2>2. ASSUME NEW n \in T PROVE n + 1 \in T
    <3>1. Turns[n + 1] = TakeTurn(g, target, Turns[n]) /\ Turns[n] \in Sought(B, start, target, n)
      BY <1>9
    <3>2. Turns[n + 1] \in Sought(B, start, target, n + 1)
      BY <3>1, TurnSeeks
    <3> QED BY <3>2
  <2> HIDE DEF T
  <2>3. T \in SUBSET Nat
    BY DEF T
  <2> QED BY <2>1, <2>2, <2>3, Climb
<1> DEFINE s == Turns[Reach + 1]
           p == s.path
<1>11. s \in Sought(B, start, target, Reach + 1)
  BY <1>10, ReachIsNat
<1> HIDE DEF s
<1>12. s \in Search /\ p \in Seq(Hop)
  BY <1>11 DEF Sought, Search
<1>13. CASE s.done
  <2>1. PICK m \in 0..Reach : \E w \in Ways(B, start, m) :
          w.path = p /\ w.at = target /\ target \notin Before(B, m)
    BY <1>11, <1>13, ReachIsNat DEF Sought, FoundBy
  <2>2. PICK w \in Ways(B, start, m) : w.path = p /\ w.at = target /\ target \notin Before(B, m)
    BY <2>1
  <2>3. InOrder(start, p) /\ Outward(B, p)
    BY <2>1, <2>2, WaysLeadOut
  <2>4. target \in B[m] /\ target \in {start} \union RightsTo(p, m) /\ Len(p) = m
    BY <2>2 DEF Ways
  <2>5. target \in B[Reach]
    BY <2>1, <2>4, ReachIsNat, BallsGrow
  <2> HIDE DEF p
  <2>6. target # start => target \in Ends(p)
    BY <1>12, <2>4, EndsAreRights
  <2>7. p \in Paths(B, start, target)
    BY <1>12, <2>3, <2>5, <2>6 DEF Paths
  <2> QED BY <1>d, <2>7 DEF p, s
<1>14. CASE ~s.done
  <2>1. p = <<>> /\ target \notin B[Reach]
    BY <1>11, <1>14, ReachIsNat DEF Sought, Before
  <2> HIDE DEF p
  <2>2. Len(p) = 0 /\ ToSet(p) = {}
    BY <2>1 DEF ToSet
  <2>3. p \in Paths(B, start, target)
    BY <1>12, <2>1, <2>2 DEF Paths, InOrder, Outward
  <2> QED BY <1>d, <2>3 DEF p, s
<1> QED BY <1>13, <1>14

----------------------------------------------------------------------------
(* Lists of joins *)

(* The lists that join outward from b, each join to what is there already  *)
Laid(b, B) == {joins \in Seq(Hop) : InOrder(b, joins) /\ Outward(B, joins)}

\* The empty list of joins is laid out of any base.
LEMMA NothingLaid ==
  ASSUME NEW b, NEW B
  PROVE  <<>> \in Laid(b, B) /\ Ends(<<>>) = {}
<1> DEFINE none == <<>>
<1>1. none \in Seq(Hop) /\ Len(none) = 0 /\ ToSet(none) = {}
  BY DEF ToSet
<1> HIDE DEF none
<1>2. none \in Laid(b, B) /\ Ends(none) = {}
  BY <1>1 DEF Laid, InOrder, Outward, Ends
<1> QED BY <1>2 DEF none

\* A join that starts in scope and leads outward may be appended.
LEMMA AppendedHop ==
  ASSUME NEW b, NEW B, NEW joins \in Laid(b, B), NEW hop \in Hop,
         hop.left \in {b} \union Ends(joins), LeadsOut(B, hop)
  PROVE  /\ Append(joins, hop) \in Laid(b, B)
         /\ Ends(Append(joins, hop)) = Ends(joins) \union {hop.right}
<1> DEFINE longer == Append(joins, hop)
           n == Len(joins)
<1>1. joins \in Seq(Hop) /\ InOrder(b, joins) /\ Outward(B, joins) /\ n \in Nat
  BY DEF Laid
<1>2. longer \in Seq(Hop) /\ ToSet(longer) = ToSet(joins) \union {hop}
  BY <1>1, AppendedSet
<1>3. Len(longer) = n + 1 /\ longer[n + 1] = hop /\ \A i \in 1..n : longer[i] = joins[i]
  BY <1>1
<1> HIDE DEF longer
<1>4. ASSUME NEW k \in 0..n PROVE RightsTo(longer, k) = RightsTo(joins, k)
  <2>1. \A j \in 1..k : longer[j] = joins[j]
    BY <1>1, <1>3
  <2> QED BY <2>1 DEF RightsTo
<1>5. Ends(joins) = RightsTo(joins, n)
  BY <1>1, EndsAreRights
<1>6. ASSUME NEW k \in 1..(n + 1)
      PROVE  longer[k].left \in {b} \union RightsTo(longer, k - 1)
  <2>1. CASE k = n + 1
    <3>1. k - 1 = n /\ RightsTo(longer, n) = RightsTo(joins, n)
      BY <1>1, <1>4, <2>1
    <3> QED BY <1>3, <1>5, <2>1, <3>1
  <2>2. CASE k \in 1..n
    <3>1. k - 1 \in 0..n
      BY <1>1, <2>2
    <3>2. RightsTo(longer, k - 1) = RightsTo(joins, k - 1)
      BY <1>4, <3>1
    <3>3. joins[k].left \in {b} \union RightsTo(joins, k - 1)
      BY <1>1, <2>2 DEF InOrder
    <3> QED BY <1>3, <2>2, <3>2, <3>3
  <2> QED BY <1>1, <2>1, <2>2
<1>7. InOrder(b, longer)
  BY <1>3, <1>6 DEF InOrder
<1>8. Outward(B, longer)
  BY <1>1, <1>2 DEF Outward
<1>9. Ends(longer) = Ends(joins) \union {hop.right}
  BY <1>2 DEF Ends
<1> QED BY <1>2, <1>7, <1>8, <1>9 DEF Laid, longer

\* Two lists that are laid out of one base may be concatenated.
LEMMA JoinedHops ==
  ASSUME NEW b, NEW B, NEW joins \in Laid(b, B), NEW p \in Laid(b, B)
  PROVE  /\ joins \o p \in Laid(b, B)
         /\ Ends(joins \o p) = Ends(joins) \union Ends(p)
<1> DEFINE longer == joins \o p
           n == Len(joins)
           m == Len(p)
<1>1. /\ joins \in Seq(Hop) /\ InOrder(b, joins) /\ Outward(B, joins) /\ n \in Nat
      /\ p \in Seq(Hop) /\ InOrder(b, p) /\ Outward(B, p) /\ m \in Nat
  BY DEF Laid
<1>2. longer \in Seq(Hop) /\ ToSet(longer) = ToSet(joins) \union ToSet(p)
  BY <1>1, JoinedSet
<1>3. /\ Len(longer) = n + m /\ \A i \in 1..n : longer[i] = joins[i]
      /\ \A i \in 1..m : longer[n + i] = p[i]
  BY <1>1
<1> HIDE DEF longer
<1>4. ASSUME NEW k \in 0..n PROVE RightsTo(longer, k) = RightsTo(joins, k)
  <2>1. \A j \in 1..k : longer[j] = joins[j]
    BY <1>1, <1>3
  <2> QED BY <2>1 DEF RightsTo
<1>5. ASSUME NEW k \in 0..m PROVE RightsTo(p, k) \subseteq RightsTo(longer, n + k)
  <2> SUFFICES ASSUME NEW j \in 1..k PROVE p[j].right \in RightsTo(longer, n + k)
    BY DEF RightsTo
  <2>1. n + j \in 1..(n + k) /\ longer[n + j] = p[j]
    BY <1>1, <1>3
  <2> QED BY <2>1 DEF RightsTo
<1>6. ASSUME NEW k \in 1..(n + m)
      PROVE  longer[k].left \in {b} \union RightsTo(longer, k - 1)
  <2>1. CASE k > n
    <3> DEFINE i == k - n
    <3>1. i \in 1..m /\ i - 1 \in 0..m /\ n + i = k /\ n + (i - 1) = k - 1
      BY <1>1, <2>1
    <3> HIDE DEF i
    <3>2. longer[k] = p[i]
      BY <1>3, <3>1
    <3>3. p[i].left \in {b} \union RightsTo(p, i - 1)
      BY <1>1, <3>1 DEF InOrder
    <3>4. RightsTo(p, i - 1) \subseteq RightsTo(longer, n + (i - 1))
      BY <1>5, <3>1
    <3> QED BY <3>1, <3>2, <3>3, <3>4
  <2>2. CASE k <= n
    <3>1. k - 1 \in 0..n /\ k \in 1..n
      BY <1>1, <2>2
    <3>2. RightsTo(longer, k - 1) = RightsTo(joins, k - 1)
      BY <1>4, <3>1
    <3>3. joins[k].left \in {b} \union RightsTo(joins, k - 1)
      BY <1>1, <3>1 DEF InOrder
    <3> QED BY <1>3, <3>1, <3>2, <3>3
  <2> QED BY <1>1, <2>1, <2>2
<1>7. InOrder(b, longer)
  BY <1>3, <1>6 DEF InOrder
<1>8. Outward(B, longer)
  BY <1>1, <1>2 DEF Outward
<1>9. Ends(longer) = Ends(joins) \union Ends(p)
  BY <1>2 DEF Ends
<1> QED BY <1>2, <1>7, <1>8, <1>9 DEF Laid, longer

\* resolve_joins lays the paths to its targets out of the base, and joins each
\* target that can be reached.
LEMMA Resolves ==
  ASSUME NEW g \in Graph, NEW base \in Tables, NEW B \in Balls(g, base), NEW targets \in Seq(Tables)
  PROVE  /\ ResolveJoins(g, base, targets) \in Laid(base, B)
         /\ \A t \in ToSet(targets) :
               t \in B[Reach] \ {base} => t \in Ends(ResolveJoins(g, base, targets))
<1> DEFINE AddPath == [t \in Tables |-> [joins \in Seq(Hop) |-> joins \o FindJoinPath(g, base, t)]]
           Met(joins, k) == \A i \in 1..k : targets[i] \in B[Reach] \ {base} => targets[i] \in Ends(joins)
           G == [k \in 0..Len(targets) |-> {joins \in Laid(base, B) : Met(joins, k)}]
<1>d. ResolveJoins(g, base, targets) = Loop(AddPath, <<>>, targets)
  BY DEF ResolveJoins
<1>p. ASSUME NEW t \in Tables
      PROVE  /\ FindJoinPath(g, base, t) \in Laid(base, B) /\ FindJoinPath(g, base, t) \in Seq(Hop)
             /\ t \in B[Reach] \ {base} => t \in Ends(FindJoinPath(g, base, t))
  <2>1. FindJoinPath(g, base, t) \in Paths(B, base, t)
    BY SearchFinds
  <2> QED BY <2>1 DEF Paths, Laid
<1>a. AddPath \in [Tables -> [Seq(Hop) -> Seq(Hop)]]
  <2>1. \A t \in Tables, joins \in Seq(Hop) : joins \o FindJoinPath(g, base, t) \in Seq(Hop)
    BY <1>p
  <2> QED BY <2>1
<1>v. \A t \in Tables, joins \in Seq(Hop) : AddPath[t][joins] = joins \o FindJoinPath(g, base, t)
  OBVIOUS
<1>s. Laid(base, B) \subseteq Seq(Hop)
  BY DEF Laid
<1>g. /\ G \in [0..Len(targets) -> SUBSET Seq(Hop)]
      /\ \A k \in 0..Len(targets) : \A joins : joins \in G[k] <=> joins \in Laid(base, B) /\ Met(joins, k)
  BY <1>s
<1> HIDE DEF AddPath, G, Met
<1>1. <<>> \in G[0]
  <2>1. Met(<<>>, 0)
    BY DEF Met
  <2> QED BY <1>g, <2>1, NothingLaid
<1>2. ASSUME NEW k \in 1..Len(targets), NEW joins \in G[k - 1]
      PROVE  AddPath[targets[k]][joins] \in G[k]
  <2> DEFINE p == FindJoinPath(g, base, targets[k])
             longer == joins \o p
  <2>1. targets[k] \in Tables /\ k - 1 \in 0..Len(targets) /\ k \in 0..Len(targets)
    OBVIOUS
  <2>2. joins \in Laid(base, B) /\ Met(joins, k - 1) /\ joins \in Seq(Hop)
    BY <1>g, <1>s, <2>1
  <2>3. p \in Laid(base, B) /\ (targets[k] \in B[Reach] \ {base} => targets[k] \in Ends(p))
    BY <1>p, <2>1
  <2>4. AddPath[targets[k]][joins] = longer
    BY <1>v, <2>1, <2>2
  <2> HIDE DEF p
  <2>5. longer \in Laid(base, B) /\ Ends(longer) = Ends(joins) \union Ends(p)
    BY <2>2, <2>3, JoinedHops
  <2> HIDE DEF longer
  <2>6. Met(longer, k)
    <3> SUFFICES ASSUME NEW i \in 1..k, targets[i] \in B[Reach] \ {base}
                 PROVE  targets[i] \in Ends(longer)
      BY DEF Met
    <3>1. CASE i = k
      BY <2>3, <2>5, <3>1
    <3>2. CASE i \in 1..(k - 1)
      BY <2>2, <2>5, <3>2 DEF Met
    <3> QED BY <3>1, <3>2
  <2> QED BY <1>g, <2>1, <2>4, <2>5, <2>6
<1>3. Preserved(AddPath, targets, G)
  BY <1>2 DEF Preserved
<1>e. <<>> \in Seq(Hop)
  OBVIOUS
<1>4. Loop(AddPath, <<>>, targets) \in G[Len(targets)]
  BY <1>a, <1>g, <1>1, <1>3, <1>e, Looping
<1> DEFINE found == ResolveJoins(g, base, targets)
<1>5. found \in Laid(base, B) /\ Met(found, Len(targets))
  BY <1>d, <1>g, <1>4
<1>6. \A t \in ToSet(targets) : \E i \in 1..Len(targets) : t = targets[i]
  BY DEF ToSet
<1> QED BY <1>5, <1>6 DEF Met

\* The choice of a key changes no table of a join.
LEMMA RolesKeep ==
  ASSUME NEW g, NEW s, NEW b, NEW B, NEW joins \in Laid(b, B), NEW asked \in STRING
  PROVE  /\ WithRoles(g, s, joins, asked) \in Laid(b, B)
         /\ Ends(WithRoles(g, s, joins, asked)) = Ends(joins)
<1> DEFINE named == WithRoles(g, s, joins, asked)
           n == Len(joins)
<1>1. joins \in Seq(Hop) /\ InOrder(b, joins) /\ Outward(B, joins) /\ n \in Nat /\ DOMAIN joins = 1..n
  BY DEF Laid
<1>2. ASSUME NEW k \in 1..n
      PROVE  /\ named[k] \in Hop
             /\ named[k].left = joins[k].left /\ named[k].right = joins[k].right
  <2>1. joins[k] \in Hop
    BY <1>1
  <2>2. Role(g, s, joins[k], asked) \in {asked, joins[k].role}
    BY DEF Role
  <2>3. Role(g, s, joins[k], asked) \in STRING
    BY <2>1, <2>2 DEF Hop
  <2> DEFINE r == Role(g, s, joins[k], asked)
  <2>4. named[k] = [joins[k] EXCEPT !.role = r]
    BY <1>1 DEF WithRoles
  <2> HIDE DEF r, named
  <2> QED BY <2>1, <2>3, <2>4 DEF Hop, r
<1>3. DOMAIN named = 1..n /\ named = [k \in 1..n |-> named[k]]
  BY <1>1 DEF WithRoles
<1> HIDE DEF named
<1>4. named \in Seq(Hop) /\ Len(named) = n
  BY <1>1, <1>2, <1>3
<1>5. \A k \in 0..n : RightsTo(named, k) = RightsTo(joins, k)
  <2> TAKE k \in 0..n
  <2>1. \A j \in 1..k : named[j].right = joins[j].right
    BY <1>1, <1>2
  <2> QED BY <2>1 DEF RightsTo
<1>6. InOrder(b, named)
  <2> SUFFICES ASSUME NEW k \in 1..n
               PROVE  named[k].left \in {b} \union RightsTo(named, k - 1)
    BY <1>4 DEF InOrder
  <2>1. k - 1 \in 0..n
    BY <1>1
  <2>2. joins[k].left \in {b} \union RightsTo(joins, k - 1)
    BY <1>1 DEF InOrder
  <2> QED BY <1>2, <1>5, <2>1, <2>2
<1>7. Outward(B, named)
  <2>1. \A k \in 1..n : LeadsOut(B, joins[k])
    BY <1>1 DEF Outward, ToSet
  <2>2. \A k \in 1..n : LeadsOut(B, named[k])
    BY <1>2, <2>1 DEF LeadsOut, Adjoins
  <2> QED BY <1>3, <2>2 DEF Outward, ToSet
<1>8. Ends(named) = Ends(joins)
  BY <1>1, <1>4, <1>5, EndsAreRights
<1> QED BY <1>4, <1>6, <1>7, <1>8 DEF Laid, named

(* A plan                                                                  *)
Plan == [base : Tables \union {None}, joins : Seq(Hop), select : Seq(Tables),
         agg : Tables \union {None}, group : Tables \union {None}, where : Seq(Tables),
         order : Tables \union {None}, having : Tables \union {None}, noted : BOOLEAN]

\* The scope of a plan is its base and the tables it joins.
LEMMA ScopeIsEnds ==
  ASSUME NEW p, NEW B, p.joins \in Laid(p.base, B)
  PROVE  Scope(p) = {p.base} \union Ends(p.joins)
<1> DEFINE n == Len(p.joins)
<1>1. /\ p.joins \in Seq(Hop) /\ InOrder(p.base, p.joins)
      /\ n \in Nat /\ DOMAIN p.joins = 1..n
  BY DEF Laid
<1>2. Ends(p.joins) = {p.joins[k].right : k \in DOMAIN p.joins}
  BY DEF Ends, ToSet
<1>3. ASSUME NEW k \in DOMAIN p.joins PROVE p.joins[k].left \in {p.base} \union Ends(p.joins)
  <2>1. p.joins[k].left \in {p.base} \union RightsTo(p.joins, k - 1)
    BY <1>1 DEF InOrder
  <2>2. \A j \in 1..(k - 1) : j \in DOMAIN p.joins
    BY <1>1
  <2> QED BY <1>2, <2>1, <2>2 DEF RightsTo
<1> QED BY <1>2, <1>3 DEF Scope

LEMMA OneTable ==
  ASSUME NEW t \in Tables \union {None}
  PROVE  One(t) \in Seq(Tables) /\ ToSet(One(t)) = {t} \ {None}
<1>1. CASE t = None
  <2>1. One(t) = <<>> /\ <<>> \in Seq(Tables) /\ ToSet(<<>>) = {}
    BY <1>1 DEF One, ToSet
  <2> QED BY <1>1, <2>1
<1>2. CASE t # None
  <2>1. One(t) = <<t>> /\ <<t>> \in Seq(Tables) /\ ToSet(<<t>>) = {t}
    BY <1>2 DEF One, ToSet
  <2> QED BY <1>2, <2>1
<1> QED BY <1>1, <1>2

\* The tables a plan references are those of its clauses.
LEMMA ReferencedTables ==
  ASSUME NEW p \in Plan
  PROVE  /\ Referenced(p) \in Seq(Tables)
         /\ ToSet(Referenced(p)) = ToSet(p.select) \union ToSet(p.where)
                                   \union ({p.group, p.order, p.having} \ {None})
<1>1. /\ p.select \in Seq(Tables) /\ p.where \in Seq(Tables)
      /\ p.group \in Tables \union {None} /\ p.order \in Tables \union {None}
      /\ p.having \in Tables \union {None}
  BY DEF Plan
<1> DEFINE a == One(p.group)
           b == One(p.order)
           c == One(p.having)
           s == p.select
           w == p.where
<1>2. /\ a \in Seq(Tables) /\ ToSet(a) = {p.group} \ {None}
      /\ b \in Seq(Tables) /\ ToSet(b) = {p.order} \ {None}
      /\ c \in Seq(Tables) /\ ToSet(c) = {p.having} \ {None}
      /\ s \in Seq(Tables) /\ w \in Seq(Tables)
  BY <1>1, OneTable
<1>d. Referenced(p) = Distinct(s \o w \o a \o b \o c)
  BY DEF Referenced
<1> HIDE DEF a, b, c, s, w
<1>3. s \o w \in Seq(Tables) /\ ToSet(s \o w) = ToSet(s) \union ToSet(w)
  BY <1>2, JoinedSet
<1>4. s \o w \o a \in Seq(Tables) /\ ToSet(s \o w \o a) = ToSet(s) \union ToSet(w) \union ToSet(a)
  <2> DEFINE l == s \o w
  <2>0. l \in Seq(Tables)
    BY <1>3
  <2> HIDE DEF l
  <2>1. l \o a \in Seq(Tables) /\ ToSet(l \o a) = ToSet(l) \union ToSet(a)
    BY <1>2, <2>0, JoinedSet
  <2> QED BY <1>3, <2>1 DEF l
<1>5. /\ s \o w \o a \o b \in Seq(Tables)
      /\ ToSet(s \o w \o a \o b) = ToSet(s) \union ToSet(w) \union ToSet(a) \union ToSet(b)
  <2> DEFINE l == s \o w \o a
  <2>0. l \in Seq(Tables)
    BY <1>4
  <2> HIDE DEF l
  <2>1. l \o b \in Seq(Tables) /\ ToSet(l \o b) = ToSet(l) \union ToSet(b)
    BY <1>2, <2>0, JoinedSet
  <2> QED BY <1>4, <2>1 DEF l
<1> DEFINE l == s \o w \o a \o b
           all == l \o c
<1>6. all \in Seq(Tables) /\ ToSet(all) = ToSet(l) \union ToSet(c)
  <2>0. l \in Seq(Tables)
    BY <1>5
  <2> HIDE DEF l
  <2> QED BY <1>2, <2>0, JoinedSet
<1>7. Referenced(p) = Distinct(all)
  BY <1>d
<1>8. ToSet(all) = ToSet(s) \union ToSet(w) \union ToSet(a) \union ToSet(b) \union ToSet(c)
  BY <1>5, <1>6
<1> HIDE DEF all, l
<1>9. Referenced(p) \in Seq(Tables) /\ ToSet(Referenced(p)) = ToSet(all)
  BY <1>6, <1>7, DistinctKeeps
<1> QED BY <1>2, <1>8, <1>9 DEF s, w

\* _reconcile_joins adds joins only, and all that lead to a referenced table.
LEMMA Reconciles ==
  ASSUME NEW g \in Graph, NEW p \in Plan, p.base \in Tables, NEW B \in Balls(g, p.base),
         p.joins \in Laid(p.base, B)
  PROVE  \E joins \in Laid(p.base, B) :
            /\ Reconciled(p, g) = [p EXCEPT !.joins = joins]
            /\ ToSet(Referenced(p)) \intersect B[Reach] \subseteq {p.base} \union Ends(joins)
<1> DEFINE missing == Only(Referenced(p), Tables \ Scope(p))
           more == ResolveJoins(g, p.base, missing)
           n == Len(more)
           AddHop == [hop \in Hop |-> [joins \in Seq(Hop) |->
                        IF hop.right \in Scope([p EXCEPT !.joins = joins]) THEN joins
                        ELSE Append(joins, hop)]]
           Met(joins, k) == \A i \in 1..k : more[i].right \in {p.base} \union Ends(joins)
           G == [k \in 0..n |->
                   {joins \in Laid(p.base, B) : Ends(p.joins) \subseteq Ends(joins) /\ Met(joins, k)}]
           joined == Loop(AddHop, p.joins, more)
<1>d. Reconciled(p, g) = [p EXCEPT !.joins = joined]
  BY DEF Reconciled
<1>s. Laid(p.base, B) \subseteq Seq(Hop)
  BY DEF Laid
<1>1. /\ missing \in Seq(Tables)
      /\ ToSet(missing) = ToSet(Referenced(p)) \ Scope(p)
  <2>1. Referenced(p) \in Seq(Tables) /\ ToSet(Referenced(p)) \subseteq Tables
    <3>1. Referenced(p) \in Seq(Tables)
      BY ReferencedTables
    <3> QED BY <3>1 DEF ToSet
  <2> DEFINE S == Tables \ Scope(p)
  <2>2. missing \in Seq(Tables) /\ ToSet(missing) = ToSet(Referenced(p)) \intersect S
    <3> HIDE DEF S
    <3> QED BY <2>1, OnlyKeeps DEF S
  <2> QED BY <2>1, <2>2
<1> HIDE DEF missing
<1>2. /\ more \in Laid(p.base, B) /\ more \in Seq(Hop)
      /\ \A t \in ToSet(missing) : t \in B[Reach] \ {p.base} => t \in Ends(more)
  BY <1>1, <1>s, Resolves
<1> HIDE DEF more
<1>a. /\ AddHop \in [Hop -> [Seq(Hop) -> Seq(Hop)]]
      /\ \A hop \in Hop, joins \in Seq(Hop) : AddHop[hop][joins] =
            IF hop.right \in Scope([p EXCEPT !.joins = joins]) THEN joins ELSE Append(joins, hop)
  OBVIOUS
<1>g. /\ G \in [0..n -> SUBSET Seq(Hop)]
      /\ \A k \in 0..n : \A joins : joins \in G[k] <=>
            /\ joins \in Laid(p.base, B)
            /\ Ends(p.joins) \subseteq Ends(joins) /\ Met(joins, k)
  BY <1>s
<1>n. n \in Nat
  BY <1>2
<1> HIDE DEF AddHop, G, Met
<1>3. p.joins \in G[0]
  <2>1. Met(p.joins, 0)
    BY DEF Met
  <2> QED BY <1>g, <1>n, <2>1
<1>4. ASSUME NEW k \in 1..n, NEW joins \in G[k - 1]
      PROVE  AddHop[more[k]][joins] \in G[k]
  <2> DEFINE hop == more[k]
             q == [p EXCEPT !.joins = joins]
  <2>1. hop \in Hop /\ hop \in ToSet(more) /\ k - 1 \in 0..n /\ k \in 0..n
    BY <1>2, <1>n DEF ToSet
  <2>2. /\ joins \in Laid(p.base, B) /\ joins \in Seq(Hop)
        /\ Ends(p.joins) \subseteq Ends(joins) /\ Met(joins, k - 1)
    BY <1>g, <1>s, <2>1
  <2>3. q.base = p.base /\ q.joins = joins
    BY DEF Plan
  <2>a. AddHop[hop][joins] = IF hop.right \in Scope(q) THEN joins ELSE Append(joins, hop)
    BY <1>a, <2>1, <2>2
  <2> HIDE DEF q
  <2>4. Scope(q) = {p.base} \union Ends(joins)
    BY <2>2, <2>3, ScopeIsEnds
  <2>5. CASE hop.right \in Scope(q)
    <3>1. AddHop[hop][joins] = joins
      BY <2>5, <2>a
    <3>2. Met(joins, k)
      <4> SUFFICES ASSUME NEW i \in 1..k PROVE more[i].right \in {p.base} \union Ends(joins)
        BY DEF Met
      <4>1. CASE i = k
        BY <2>4, <2>5, <4>1
      <4>2. CASE i \in 1..(k - 1)
        BY <2>2, <4>2 DEF Met
      <4> QED BY <4>1, <4>2
    <3> QED BY <1>g, <2>1, <2>2, <3>1, <3>2
  <2>6. CASE hop.right \notin Scope(q)
    <3> DEFINE longer == Append(joins, hop)
    <3>1. AddHop[hop][joins] = longer
      BY <2>6, <2>a
    <3>2. hop.left \in {p.base} \union Ends(joins)
      <4>1. hop.left \in {p.base} \union RightsTo(more, k - 1)
        BY <1>2 DEF Laid, InOrder
      <4> QED BY <2>2, <4>1 DEF Met, RightsTo
    <3>3. LeadsOut(B, hop)
      BY <1>2, <2>1 DEF Laid, Outward
    <3>4. longer \in Laid(p.base, B) /\ Ends(longer) = Ends(joins) \union {hop.right}
      BY <2>1, <2>2, <3>2, <3>3, AppendedHop
    <3> HIDE DEF longer
    <3>5. Met(longer, k)
      <4> SUFFICES ASSUME NEW i \in 1..k PROVE more[i].right \in {p.base} \union Ends(longer)
        BY DEF Met
      <4>1. CASE i = k
        BY <3>4, <4>1
      <4>2. CASE i \in 1..(k - 1)
        BY <2>2, <3>4, <4>2 DEF Met
      <4> QED BY <4>1, <4>2
    <3> QED BY <1>g, <2>1, <2>2, <3>1, <3>4, <3>5
  <2> QED BY <2>5, <2>6
<1>5. Preserved(AddHop, more, G)
  BY <1>4 DEF Preserved
<1>6. p.joins \in Seq(Hop)
  BY <1>s
<1>7. joined \in G[n]
  BY <1>2, <1>a, <1>g, <1>3, <1>5, <1>6, Looping
<1> HIDE DEF joined
<1>8. /\ joined \in Laid(p.base, B) /\ Ends(p.joins) \subseteq Ends(joined)
      /\ Met(joined, n)
  BY <1>7, <1>g, <1>n
<1>9. ASSUME NEW t \in ToSet(Referenced(p)), t \in B[Reach]
      PROVE  t \in {p.base} \union Ends(joined)
  <2>1. CASE t \in Scope(p)
    BY <1>8, <2>1, ScopeIsEnds
  <2>2. CASE t \notin Scope(p) /\ t # p.base
    <3>1. t \in Ends(more)
      BY <1>1, <1>2, <1>9, <2>2
    <3>2. Ends(more) = RightsTo(more, n)
      BY <1>2, EndsAreRights
    <3> QED BY <1>8, <3>1, <3>2 DEF Met, RightsTo
  <2> QED BY <2>1, <2>2
<1> QED BY <1>d, <1>8, <1>9

(* No table is joined twice.                                               *)
OneEach(joins) == \A i, k \in 1..Len(joins) : joins[i].right = joins[k].right => i = k

\* _dedupe_joins keeps the order, the tables joined, and one join of each.
LEMMA Dedupes ==
  ASSUME NEW b, NEW B, NEW joins \in Laid(b, B)
  PROVE  Dedupe(joins) \in Laid(b, B) /\ Ends(Dedupe(joins)) = Ends(joins) /\ OneEach(Dedupe(joins))
<1> DEFINE n == Len(joins)
           AddNew == [j \in Hop |-> [acc \in Seq(Hop) |->
                        IF \E k \in DOMAIN acc : acc[k].right = j.right THEN acc
                        ELSE Append(acc, j)]]
           Good(acc, k) == Ends(acc) = RightsTo(joins, k) /\ OneEach(acc)
           G == [k \in 0..n |-> {acc \in Laid(b, B) : Good(acc, k)}]
<1>d. Dedupe(joins) = Loop(AddNew, <<>>, joins)
  BY DEF Dedupe
<1>s. Laid(b, B) \subseteq Seq(Hop)
  BY DEF Laid
<1>1. joins \in Seq(Hop) /\ InOrder(b, joins) /\ Outward(B, joins) /\ n \in Nat
  BY DEF Laid
<1>a. /\ AddNew \in [Hop -> [Seq(Hop) -> Seq(Hop)]]
      /\ \A j \in Hop, acc \in Seq(Hop) : AddNew[j][acc] =
            IF \E k \in DOMAIN acc : acc[k].right = j.right THEN acc ELSE Append(acc, j)
  OBVIOUS
<1>g. /\ G \in [0..n -> SUBSET Seq(Hop)]
      /\ \A k \in 0..n : \A acc : acc \in G[k] <=> acc \in Laid(b, B) /\ Good(acc, k)
  BY <1>s
<1> HIDE DEF AddNew, G, Good
<1>2. <<>> \in G[0] /\ <<>> \in Seq(Hop)
  <2> DEFINE none == <<>>
  <2>0. Len(none) = 0 /\ none \in Seq(Hop)
    OBVIOUS
  <2>1. none \in Laid(b, B) /\ Ends(none) = {}
    BY NothingLaid
  <2> HIDE DEF none
  <2>2. RightsTo(joins, 0) = {} /\ OneEach(none)
    BY <2>0 DEF RightsTo, OneEach
  <2>3. none \in G[0]
    BY <1>g, <1>1, <2>1, <2>2 DEF Good
  <2> QED BY <2>0, <2>3 DEF none
<1>3. ASSUME NEW k \in 1..n, NEW acc \in G[k - 1]
      PROVE  AddNew[joins[k]][acc] \in G[k]
  <2> DEFINE j == joins[k]
             m == Len(acc)
  <2>1. j \in Hop /\ j \in ToSet(joins) /\ k - 1 \in 0..n /\ k \in 0..n
    BY <1>1 DEF ToSet
  <2>2. /\ acc \in Laid(b, B) /\ acc \in Seq(Hop) /\ m \in Nat /\ DOMAIN acc = 1..m
        /\ Ends(acc) = RightsTo(joins, k - 1) /\ OneEach(acc)
    BY <1>g, <1>s, <2>1 DEF Good
  <2>3. RightsTo(joins, k) = RightsTo(joins, k - 1) \union {j.right}
    BY <1>1 DEF RightsTo
  <2>4. Ends(acc) = {acc[i].right : i \in DOMAIN acc}
    BY DEF Ends, ToSet
  <2>5. j.left \in {b} \union RightsTo(joins, k - 1) /\ LeadsOut(B, j)
    BY <1>1, <2>1 DEF InOrder, Outward
  <2> HIDE DEF j
  <2>a. AddNew[j][acc] =
           IF \E i \in DOMAIN acc : acc[i].right = j.right THEN acc ELSE Append(acc, j)
    <3>1. j \in Hop /\ acc \in Seq(Hop)
      BY <2>1, <2>2
    <3> QED BY <1>a, <3>1
  <2>b. (\E i \in DOMAIN acc : acc[i].right = j.right) <=> j.right \in Ends(acc)
    BY <2>4
  <2>6. CASE j.right \in Ends(acc)
    <3>1. AddNew[j][acc] = acc
      BY <2>a, <2>b, <2>6
    <3>2. Good(acc, k)
      BY <2>2, <2>3, <2>6 DEF Good
    <3> QED BY <1>g, <2>1, <2>2, <3>1, <3>2 DEF j
  <2>7. CASE j.right \notin Ends(acc)
    <3> DEFINE longer == Append(acc, j)
    <3>1. AddNew[j][acc] = longer
      BY <2>a, <2>b, <2>7
    <3>2. longer \in Laid(b, B) /\ Ends(longer) = Ends(acc) \union {j.right}
      BY <2>1, <2>2, <2>5, AppendedHop
    <3>3. Len(longer) = m + 1 /\ longer[m + 1] = j /\ \A i \in 1..m : longer[i] = acc[i]
      BY <2>1, <2>2
    <3> HIDE DEF longer
    <3>4. OneEach(longer)
      <4> SUFFICES ASSUME NEW i \in 1..(m + 1), NEW l \in 1..(m + 1),
                          longer[i].right = longer[l].right
                   PROVE  i = l
        BY <3>3 DEF OneEach
      <4>1. \A q \in 1..m : longer[q].right \in Ends(acc)
        BY <2>2, <2>4, <3>3
      <4>2. CASE i \in 1..m /\ l \in 1..m
        BY <2>2, <3>3, <4>2 DEF OneEach
      <4>3. CASE i = m + 1 /\ l \in 1..m
        BY <2>7, <3>3, <4>1, <4>3
      <4>4. CASE i \in 1..m /\ l = m + 1
        BY <2>7, <3>3, <4>1, <4>4
      <4>5. CASE i = m + 1 /\ l = m + 1
        BY <4>5
      <4> QED BY <2>2, <4>2, <4>3, <4>4, <4>5
    <3>5. Good(longer, k)
      BY <2>2, <2>3, <3>2, <3>4 DEF Good
    <3> QED BY <1>g, <2>1, <3>1, <3>2, <3>5 DEF j
  <2> QED BY <2>6, <2>7
<1>4. Preserved(AddNew, joins, G)
  BY <1>3 DEF Preserved
<1>5. Loop(AddNew, <<>>, joins) \in G[n]
  BY <1>1, <1>a, <1>g, <1>2, <1>4, Looping
<1>6. Dedupe(joins) \in Laid(b, B) /\ Good(Dedupe(joins), n)
  BY <1>d, <1>g, <1>1, <1>5
<1> QED BY <1>1, <1>6, EndsAreRights DEF Good

LEMMA PrependedHop ==
  ASSUME NEW j \in Hop, NEW kept \in Seq(Hop)
  PROVE  LET longer == <<j>> \o kept
         IN  /\ longer \in Seq(Hop) /\ Len(longer) = Len(kept) + 1
             /\ longer[1] = j /\ \A i \in 1..Len(kept) : longer[i + 1] = kept[i]
             /\ ToSet(longer) = {j} \union ToSet(kept)
             /\ \A i \in 0..Len(kept) : RightsTo(longer, i + 1) = {j.right} \union RightsTo(kept, i)
<1> DEFINE longer == <<j>> \o kept
           one == <<j>>
           m == Len(kept)
<1>1. one \in Seq(Hop) /\ ToSet(one) = {j} /\ m \in Nat
  BY DEF ToSet
<1>2. longer \in Seq(Hop) /\ ToSet(longer) = {j} \union ToSet(kept)
  <2> HIDE DEF one
  <2>1. one \o kept \in Seq(Hop) /\ ToSet(one \o kept) = ToSet(one) \union ToSet(kept)
    BY <1>1, JoinedSet
  <2> QED BY <1>1, <2>1 DEF one
<1>3. Len(longer) = m + 1 /\ longer[1] = j /\ \A i \in 1..m : longer[i + 1] = kept[i]
  BY <1>1
<1> HIDE DEF longer
<1>4. ASSUME NEW i \in 0..m
      PROVE  RightsTo(longer, i + 1) = {j.right} \union RightsTo(kept, i)
  <2>1. ASSUME NEW k \in 1..(i + 1) PROVE longer[k].right \in {j.right} \union RightsTo(kept, i)
    <3>1. CASE k = 1
      BY <1>3, <3>1
    <3>2. CASE k # 1
      <4>1. k - 1 \in 1..i /\ k - 1 \in 1..m /\ (k - 1) + 1 = k
        BY <1>1, <3>2
      <4>2. longer[k] = kept[k - 1]
        BY <1>3, <4>1
      <4> QED BY <4>1, <4>2 DEF RightsTo
    <3> QED BY <3>1, <3>2
  <2>2. j.right \in RightsTo(longer, i + 1)
    <3>1. 1 \in 1..(i + 1)
      BY <1>1
    <3> QED BY <1>3, <3>1 DEF RightsTo
  <2>3. ASSUME NEW k \in 1..i PROVE kept[k].right \in RightsTo(longer, i + 1)
    <3>1. k + 1 \in 1..(i + 1) /\ longer[k + 1] = kept[k]
      BY <1>1, <1>3
    <3> QED BY <3>1 DEF RightsTo
  <2> QED BY <2>1, <2>2, <2>3 DEF RightsTo
<1> QED BY <1>2, <1>3, <1>4 DEF longer

(* The part of a pruned list behind the hops still to come                 *)
KeptBehind(b, named, joins, acc, k) ==
    LET n    == Len(joins)
        kept == acc.kept
    IN  /\ acc.need = named \union {h.left : h \in ToSet(kept)}
        /\ \A i \in 1..Len(kept) :
              kept[i].left \in {b} \union RightsTo(kept, i - 1) \union RightsTo(joins, n - k)
        /\ ToSet(kept) \subseteq {joins[i] : i \in (n - k + 1)..n}
        /\ OneEach(kept)
        /\ \A hop \in ToSet(kept) : hop.right \in acc.need
        /\ \A i \in (n - k + 1)..n : joins[i].right \in named => joins[i].right \in Ends(kept)

\* Behind the hops that _prune_unused_joins has still to come to, every table
\* needed is joined, and every join is needed.
LEMMA KeptGrows ==
  ASSUME NEW b, NEW named, NEW joins \in Seq(Hop), InOrder(b, joins), OneEach(joins),
         NEW k \in 1..Len(joins), NEW acc, acc.kept \in Seq(Hop),
         KeptBehind(b, named, joins, acc, k - 1), NEW new,
         LET j == joins[Len(joins) - k + 1]
         IN  new = IF j.right \in acc.need
                   THEN [need |-> acc.need \union {j.left}, kept |-> <<j>> \o acc.kept]
                   ELSE acc
  PROVE  KeptBehind(b, named, joins, new, k)
<1> DEFINE n == Len(joins)
           c == n - k + 1
           j == joins[c]
           kept == acc.kept
           m == Len(kept)
<1>0. m \in Nat /\ n \in Nat /\ k \in Int /\ 1 <= k /\ k <= n
  OBVIOUS
<1>1. n \in Nat /\ c \in 1..n /\ n - (k - 1) = c /\ n - k = c - 1 /\ m \in Nat
  <2> HIDE DEF n, m
  <2> QED BY <1>0
<1>2. j \in Hop /\ j.left \in {b} \union RightsTo(joins, c - 1)
  BY <1>1 DEF InOrder
<1>3. RightsTo(joins, c) = RightsTo(joins, c - 1) \union {j.right}
  BY <1>1 DEF RightsTo
<1>4. /\ acc.need = named \union {h.left : h \in ToSet(kept)}
      /\ \A i \in 1..m : kept[i].left \in {b} \union RightsTo(kept, i - 1) \union RightsTo(joins, c)
      /\ ToSet(kept) \subseteq {joins[i] : i \in (c + 1)..n}
      /\ OneEach(kept)
      /\ \A hop \in ToSet(kept) : hop.right \in acc.need
      /\ \A i \in (c + 1)..n : joins[i].right \in named => joins[i].right \in Ends(kept)
  BY <1>1 DEF KeptBehind
<1>5. ToSet(kept) = {kept[i] : i \in 1..m} /\ \A i \in 1..m : kept[i] \in ToSet(kept)
  BY DEF ToSet
<1>6. \A i \in c..n : i = c \/ i \in (c + 1)..n
  <2> HIDE DEF c, n
  <2> QED BY <1>1
<1>7. new = IF j.right \in acc.need
            THEN [need |-> acc.need \union {j.left}, kept |-> <<j>> \o kept]
            ELSE acc
  OBVIOUS
<1>8. CASE j.right \notin acc.need
  <2>1. new = acc
    BY <1>7, <1>8
  <2>2. ASSUME NEW i \in 1..m
        PROVE  kept[i].left \in {b} \union RightsTo(kept, i - 1) \union RightsTo(joins, c - 1)
    <3>1. kept[i].left # j.right
      BY <1>4, <1>5, <1>8
    <3> HIDE DEF j, kept, m, c
    <3> QED BY <1>3, <1>4, <3>1
  <2>3. ToSet(kept) \subseteq {joins[i] : i \in c..n}
    BY <1>1, <1>4
  <2>4. \A i \in c..n : joins[i].right \in named => joins[i].right \in Ends(kept)
    BY <1>4, <1>6, <1>8
  <2> QED BY <1>1, <1>4, <2>1, <2>2, <2>3, <2>4 DEF KeptBehind
<1>9. CASE j.right \in acc.need
  <2> DEFINE longer == <<j>> \o kept
  <2>1. new.need = acc.need \union {j.left} /\ new.kept = longer
    BY <1>7, <1>9
  <2>2. /\ longer \in Seq(Hop) /\ Len(longer) = m + 1
        /\ longer[1] = j /\ \A i \in 1..m : longer[i + 1] = kept[i]
        /\ ToSet(longer) = {j} \union ToSet(kept)
        /\ \A i \in 0..m : RightsTo(longer, i + 1) = {j.right} \union RightsTo(kept, i)
    BY <1>2, PrependedHop
  <2> HIDE DEF longer
  <2>3. new.need = named \union {h.left : h \in ToSet(longer)}
    BY <1>4, <2>1, <2>2
  <2>4. ASSUME NEW i \in 1..(m + 1)
        PROVE  longer[i].left \in {b} \union RightsTo(longer, i - 1) \union RightsTo(joins, c - 1)
    <3>1. CASE i = 1
      BY <1>2, <2>2, <3>1
    <3>2. CASE i # 1
      <4> DEFINE l == i - 1
      <4>1. l \in 1..m /\ l + 1 = i /\ l - 1 \in 0..m /\ (l - 1) + 1 = l
        BY <1>1, <3>2
      <4> HIDE DEF l
      <4>2. longer[i] = kept[l] /\ RightsTo(longer, l) = {j.right} \union RightsTo(kept, l - 1)
        BY <2>2, <4>1
      <4>3. kept[l].left \in {b} \union RightsTo(kept, l - 1) \union RightsTo(joins, c)
        BY <1>4, <4>1
      <4> HIDE DEF j, kept, c
      <4>4. longer[i].left \in {b} \union RightsTo(longer, l) \union RightsTo(joins, c - 1)
        BY <1>3, <4>2, <4>3
      <4> QED BY <4>4 DEF l
    <3> QED BY <3>1, <3>2
  <2>5. ToSet(longer) \subseteq {joins[i] : i \in c..n}
    <3>1. c \in c..n /\ \A i \in (c + 1)..n : i \in c..n
      BY <1>1
    <3> QED BY <1>4, <2>2, <3>1
  <2>6. OneEach(longer)
    <3>1. \A i \in 1..m : kept[i].right # j.right
      <4> TAKE i \in 1..m
      <4>1. PICK l \in (c + 1)..n : kept[i] = joins[l]
        BY <1>4, <1>5
      <4>2. l \in 1..n /\ l # c
        BY <1>1, <4>1
      <4> QED BY <1>1, <4>1, <4>2 DEF OneEach
    <3> SUFFICES ASSUME NEW i \in 1..(m + 1), NEW l \in 1..(m + 1), longer[i].right = longer[l].right
                 PROVE  i = l
      BY <2>2 DEF OneEach
    <3>2. ASSUME NEW q \in 1..(m + 1), q # 1
          PROVE  q - 1 \in 1..m /\ longer[q] = kept[q - 1]
      <4>1. q - 1 \in 1..m /\ (q - 1) + 1 = q
        BY <1>1, <3>2
      <4> QED BY <2>2, <4>1
    <3>3. CASE i = 1 /\ l = 1
      BY <3>3
    <3>4. CASE i = 1 /\ l # 1
      BY <2>2, <3>1, <3>2, <3>4
    <3>5. CASE i # 1 /\ l = 1
      BY <2>2, <3>1, <3>2, <3>5
    <3>6. CASE i # 1 /\ l # 1
      <4>1. /\ i - 1 \in 1..m /\ longer[i] = kept[i - 1]
            /\ l - 1 \in 1..m /\ longer[l] = kept[l - 1]
        BY <3>2, <3>6
      <4>2. kept[i - 1].right = kept[l - 1].right
        BY <4>1
      <4>3. i - 1 = l - 1
        BY <1>4, <4>1, <4>2 DEF OneEach
      <4> QED BY <4>3
    <3> QED BY <3>3, <3>4, <3>5, <3>6
  <2>7. \A hop \in ToSet(longer) : hop.right \in new.need
    BY <1>4, <1>9, <2>1, <2>2
  <2>8. \A i \in c..n : joins[i].right \in named => joins[i].right \in Ends(longer)
    <3>1. Ends(longer) = {j.right} \union Ends(kept)
      BY <2>2 DEF Ends
    <3> QED BY <1>4, <1>6, <3>1
  <2> QED BY <1>1, <2>1, <2>2, <2>3, <2>4, <2>5, <2>6, <2>7, <2>8 DEF KeptBehind
<1> QED BY <1>8, <1>9

\* _prune_unused_joins keeps the order and what is named, and only what is needed.
LEMMA Prunes ==
  ASSUME NEW p \in Plan, p.base \in Tables, NEW B, NEW joins \in Laid(p.base, B), OneEach(joins)
  PROVE  LET kept  == Pruned(p, joins)
             named == ToSet(Referenced(p)) \union {p.base}
         IN  /\ kept \in Laid(p.base, B) /\ OneEach(kept)
             /\ named \intersect Ends(joins) \subseteq Ends(kept)
             /\ \A hop \in ToSet(kept) : hop.right \in named \union {h.left : h \in ToSet(kept)}
<1> DEFINE b == p.base
           n == Len(joins)
           seq == Reverse(joins)
           named == ToSet(Referenced(p)) \union {b}
           A == [need : SUBSET Tables, kept : Seq(Hop)]
           Keep == [j \in Hop |-> [acc \in A |->
                      IF j.right \in acc.need
                      THEN [need |-> acc.need \union {j.left}, kept |-> <<j>> \o acc.kept]
                      ELSE acc]]
           x == [need |-> named, kept |-> <<>>]
           G == [k \in 0..n |-> {acc \in A : KeptBehind(b, named, joins, acc, k)}]
<1>d. Pruned(p, joins) = Loop(Keep, x, seq).kept
  BY DEF Pruned
<1>1. joins \in Seq(Hop) /\ InOrder(b, joins) /\ Outward(B, joins) /\ n \in Nat
  BY DEF Laid
<1>2. seq \in Seq(Hop) /\ Len(seq) = n /\ \A k \in 1..n : seq[k] = joins[n - k + 1]
  BY <1>1 DEF Reverse
<1>3. named \in SUBSET Tables
  <2>1. Referenced(p) \in Seq(Tables)
    BY ReferencedTables
  <2> QED BY <2>1 DEF ToSet
<1> HIDE DEF seq, named
<1>a. Keep \in [Hop -> [A -> A]]
  <2>1. ASSUME NEW j \in Hop, NEW acc \in A
        PROVE  [need |-> acc.need \union {j.left}, kept |-> <<j>> \o acc.kept] \in A
    <3>1. acc.need \union {j.left} \in SUBSET Tables
      BY DEF Hop
    <3>2. <<j>> \o acc.kept \in Seq(Hop)
      OBVIOUS
    <3> QED BY <3>1, <3>2
  <2> HIDE DEF A
  <2> QED BY <2>1
<1>v. \A j \in Hop, acc \in A : Keep[j][acc] =
         IF j.right \in acc.need
         THEN [need |-> acc.need \union {j.left}, kept |-> <<j>> \o acc.kept]
         ELSE acc
  OBVIOUS
<1>x. x \in A /\ x.need = named /\ x.kept = <<>>
  <2>1. <<>> \in Seq(Hop)
    OBVIOUS
  <2> QED BY <1>3, <2>1
<1>k. \A acc \in A : acc.kept \in Seq(Hop)
  OBVIOUS
<1>g. /\ G \in [0..n -> SUBSET A]
      /\ \A k \in 0..n : \A acc : acc \in G[k] <=> acc \in A /\ KeptBehind(b, named, joins, acc, k)
  OBVIOUS
<1> HIDE DEF Keep, G, x, A
<1>4. x \in G[0]
  <2>1. ToSet(<<>>) = {} /\ \A k \in (n - 0 + 1)..n : FALSE
    BY <1>1 DEF ToSet
  <2>2. KeptBehind(b, named, joins, x, 0)
    BY <1>x, <2>1 DEF KeptBehind, OneEach
  <2> QED BY <1>g, <1>1, <1>x, <2>2
<1>5. ASSUME NEW k \in 1..n, NEW acc \in G[k - 1]
      PROVE  Keep[seq[k]][acc] \in G[k]
  <2> DEFINE new == Keep[seq[k]][acc]
             j == joins[n - k + 1]
  <2>1. k - 1 \in 0..n /\ k \in 0..n /\ seq[k] \in Hop /\ seq[k] = j
    BY <1>1, <1>2
  <2>2. acc \in A /\ KeptBehind(b, named, joins, acc, k - 1) /\ acc.kept \in Seq(Hop)
    BY <1>g, <1>k, <2>1
  <2>3. new \in A
    BY <1>a, <2>1, <2>2
  <2>4. new = IF j.right \in acc.need
              THEN [need |-> acc.need \union {j.left}, kept |-> <<j>> \o acc.kept]
              ELSE acc
    BY <1>v, <2>1, <2>2
  <2> HIDE DEF new
  <2>5. KeptBehind(b, named, joins, new, k)
    BY <1>1, <2>2, <2>4, KeptGrows
  <2> QED BY <1>g, <2>1, <2>3, <2>5 DEF new
<1>6. Preserved(Keep, seq, G)
  BY <1>2, <1>5 DEF Preserved
<1>7. Loop(Keep, x, seq) \in G[n]
  <2> HIDE DEF n
  <2> QED BY <1>1, <1>2, <1>a, <1>g, <1>x, <1>4, <1>6, Looping
<1> DEFINE acc == Loop(Keep, x, seq)
           kept == acc.kept
<1>8. acc \in A /\ KeptBehind(b, named, joins, acc, n)
  BY <1>1, <1>7, <1>g
<1> HIDE DEF acc
<1>9. kept \in Seq(Hop) /\ Pruned(p, joins) = kept
  BY <1>8, <1>k, <1>d DEF acc
<1>10. n - n = 0 /\ n - n + 1 = 1 /\ RightsTo(joins, 0) = {} /\ DOMAIN joins = 1..n
  BY <1>1 DEF RightsTo
<1>11. /\ acc.need = named \union {h.left : h \in ToSet(kept)}
       /\ \A i \in 1..Len(kept) : kept[i].left \in {b} \union RightsTo(kept, i - 1)
       /\ ToSet(kept) \subseteq {joins[i] : i \in 1..n}
       /\ OneEach(kept)
       /\ \A hop \in ToSet(kept) : hop.right \in acc.need
       /\ \A i \in 1..n : joins[i].right \in named => joins[i].right \in Ends(kept)
  BY <1>8, <1>10 DEF KeptBehind
<1> HIDE DEF kept
<1>12. kept \in Laid(b, B)
  <2>1. InOrder(b, kept)
    BY <1>11 DEF InOrder
  <2>2. Outward(B, kept)
    BY <1>1, <1>10, <1>11 DEF Outward, ToSet
  <2> QED BY <1>9, <2>1, <2>2 DEF Laid
<1>13. named \intersect Ends(joins) \subseteq Ends(kept)
  BY <1>10, <1>11 DEF Ends, ToSet
<1>14. \A hop \in ToSet(kept) : hop.right \in named \union {h.left : h \in ToSet(kept)}
  BY <1>11
<1> QED BY <1>9, <1>11, <1>12, <1>13, <1>14 DEF named

----------------------------------------------------------------------------
(* The join graph has an edge for every relation, both ways, and no other. *)

Linked(relations, t) == {u \in Tables : \E r \in relations : {r.child, r.parent} = {t, u}}

\* _add_edge makes a neighbour, once, and touches no other table's.
LEMMA EdgeAdded ==
  ASSUME NEW g \in Graph, NEW from \in Tables, NEW to \in Tables, NEW key \in {"id", "other"},
         NEW role \in STRING, NEW keepAll \in BOOLEAN
  PROVE  /\ AddEdge(g, from, to, key, role, keepAll) \in Graph
         /\ \A t \in Tables : \A u : u \in Near(AddEdge(g, from, to, key, role, keepAll), t)
                                   <=> u \in Near(g, t) \/ (t = from /\ u = to)
<1> DEFINE h == AddEdge(g, from, to, key, role, keepAll)
           old == g[from]
           n == Len(old)
<1>1. /\ g \in [Tables -> Seq(Edge)] /\ old \in Seq(Edge)
      /\ n \in Nat /\ DOMAIN old = 1..n /\ \A k \in 1..n : old[k] \in Edge
  BY DEF Graph
<1>n. \A f, t : Near(f, t) = {d.to : d \in ToSet(f[t])}
  BY DEF Near, ToSet
<1>s. \A k \in 1..n : old[k] \in ToSet(old)
  BY <1>1 DEF ToSet
<1>2. CASE ~(\A k \in DOMAIN old : old[k].to # to) /\ ~keepAll
  <2>1. h = g
    BY <1>2 DEF AddEdge
  <2>2. to \in Near(g, from)
    BY <1>2 DEF Near
  <2> HIDE DEF h
  <2> QED BY <2>1, <2>2 DEF h
<1>3. CASE ~(\A k \in DOMAIN old : old[k].to # to) /\ keepAll
  <2> DEFINE WithRole(e) == IF e.to = to THEN [e EXCEPT !.roles = Append(e.roles, role)] ELSE e
             edges == [k \in DOMAIN old |-> WithRole(old[k])]
  <2>1. h = [g EXCEPT ![from] = edges]
    BY <1>3 DEF AddEdge
  <2>2. ASSUME NEW e \in Edge PROVE WithRole(e) \in Edge /\ WithRole(e).to = e.to
    <3> DEFINE more == Append(e.roles, role)
    <3>1. e.roles \in Seq(STRING)
      BY DEF Edge
    <3>2. more \in Seq(STRING) \ {<<>>}
      BY <3>1
    <3> HIDE DEF more
    <3> QED BY <3>2 DEF Edge, more
  <2> HIDE DEF WithRole
  <2>3. DOMAIN edges = 1..n /\ \A k \in 1..n : edges[k] = WithRole(old[k])
    BY <1>1
  <2>4. edges \in Seq(Edge)
    <3>1. edges = [k \in 1..n |-> WithRole(old[k])] /\ \A k \in 1..n : WithRole(old[k]) \in Edge
      BY <1>1, <2>2
    <3> QED BY <1>1, <3>1
  <2> HIDE DEF edges, h
  <2>5. h \in Graph
    BY <1>1, <2>1, <2>4 DEF Graph
  <2>6. h[from] = edges /\ \A t \in Tables : t # from => h[t] = g[t]
    BY <1>1, <2>1
  <2>7. \A u : u \in Near(h, from) <=> u \in Near(g, from)
    <3>1. \A k \in 1..n : edges[k].to = old[k].to
      BY <1>1, <2>2, <2>3
    <3>2. Near(h, from) = {edges[k].to : k \in 1..n} /\ Near(g, from) = {old[k].to : k \in 1..n}
      BY <1>1, <2>3, <2>6 DEF Near
    <3> QED BY <3>1, <3>2
  <2>8. to \in Near(g, from)
    BY <1>3 DEF Near
  <2>9. \A t \in Tables : t # from => Near(h, t) = Near(g, t)
    BY <1>n, <2>6
  <2> QED BY <2>5, <2>7, <2>8, <2>9 DEF h
<1>4. CASE \A k \in DOMAIN old : old[k].to # to
  <2> DEFINE e == [to |-> to, key |-> key, roles |-> <<role>>]
             edges == Append(old, e)
  <2>1. h = [g EXCEPT ![from] = edges]
    BY <1>4 DEF AddEdge
  <2>2. e \in Edge /\ e.to = to
    <3>1. <<role>> \in Seq(STRING) \ {<<>>}
      OBVIOUS
    <3> QED BY <3>1 DEF Edge
  <2> HIDE DEF e, old
  <2>3. edges \in Seq(Edge) /\ ToSet(edges) = ToSet(old) \union {e}
    BY <1>1, <2>2, AppendedSet
  <2> HIDE DEF edges, h
  <2>5. h \in Graph
    BY <1>1, <2>1, <2>3 DEF Graph
  <2>6. h[from] = edges /\ g[from] = old /\ \A t \in Tables : t # from => h[t] = g[t]
    BY <1>1, <2>1 DEF old
  <2>7. \A u : u \in Near(h, from) <=> u \in Near(g, from) \/ u = to
    BY <1>n, <2>2, <2>3, <2>6
  <2>9. \A t \in Tables : t # from => Near(h, t) = Near(g, t)
    BY <1>n, <2>6
  <2> QED BY <2>5, <2>7, <2>9 DEF h
<1> QED BY <1>2, <1>3, <1>4

\* A list of relations adds its edges, both ways, and no other.
LEMMA AllRelated ==
  ASSUME NEW g \in Graph, NEW relations \in Seq(Relation), NEW keepAll \in BOOLEAN
  PROVE  /\ RelateAll(keepAll, g, relations) \in Graph
         /\ \A t \in Tables : Near(RelateAll(keepAll, g, relations), t)
                                = Near(g, t) \union Linked(ToSet(relations), t)
<1> DEFINE n == Len(relations)
           Key(r) == IF r.parent \in IdKeyed THEN "id" ELSE "other"
           Both(h, r) == AddEdge(AddEdge(h, r.child, r.parent, "other", r.role, keepAll),
                                 r.parent, r.child, Key(r), r.role, keepAll)
           Relate == [r \in Relation |-> [h \in [Tables -> Seq(Edge)] |-> Both(h, r)]]
           Done(k) == {relations[i] : i \in 1..k}
           Good(h, k) == \A t \in Tables : Near(h, t) = Near(g, t) \union Linked(Done(k), t)
           G == [k \in 0..n |-> {h \in Graph : Good(h, k)}]
<1>d. RelateAll(keepAll, g, relations) = Loop(Relate, g, relations)
  BY DEF RelateAll
<1>1. ASSUME NEW h \in Graph, NEW r \in Relation
      PROVE  /\ Both(h, r) \in Graph
             /\ \A t \in Tables : Near(Both(h, r), t) = Near(h, t) \union Linked({r}, t)
  <2> DEFINE c == r.child
             p == r.parent
             key == Key(r)
             role == r.role
             h1 == AddEdge(h, c, p, "other", role, keepAll)
             h2 == AddEdge(h1, p, c, key, role, keepAll)
  <2>1. c \in Tables /\ p \in Tables /\ role \in STRING /\ key \in {"id", "other"}
    BY DEF Relation
  <2>b. Both(h, r) = h2
    OBVIOUS
  <2>4. \A t \in Tables : \A u : u \in Linked({r}, t) <=> (t = c /\ u = p) \/ (t = p /\ u = c)
    BY <2>1 DEF Linked
  <2> HIDE DEF key, role, c, p, Both
  <2>2. h1 \in Graph /\ \A t \in Tables : \A u : u \in Near(h1, t) <=> u \in Near(h, t) \/ (t = c /\ u = p)
    BY <2>1, EdgeAdded
  <2> HIDE DEF h1
  <2>c. h1 \in Graph
    BY <2>2
  <2>3. h2 \in Graph /\ \A t \in Tables : \A u : u \in Near(h2, t) <=> u \in Near(h1, t) \/ (t = p /\ u = c)
    BY <2>1, <2>c, EdgeAdded
  <2> HIDE DEF h2
  <2>5. \A t \in Tables : Near(h2, t) = Near(h, t) \union Linked({r}, t)
    BY <2>2, <2>3, <2>4
  <2> QED BY <2>3, <2>5, <2>b
<1> HIDE DEF Both
<1>a. /\ Relate \in [Relation -> [Graph -> Graph]]
      /\ \A r \in Relation, h \in Graph : Relate[r][h] = Both(h, r)
  BY <1>1 DEF Graph
<1>g. /\ G \in [0..n -> SUBSET Graph]
      /\ \A k \in 0..n : \A h : h \in G[k] <=> h \in Graph /\ Good(h, k)
  OBVIOUS
<1>n. n \in Nat /\ \A k \in 1..n : relations[k] \in Relation
  OBVIOUS
<1> HIDE DEF Relate, G
<1>2. g \in G[0]
  <2>1. Done(0) = {} /\ \A t : Linked({}, t) = {}
    BY DEF Linked
  <2>2. Good(g, 0)
    BY <2>1
  <2> HIDE DEF Good, n
  <2>3. 0 \in 0..n
    BY <1>n
  <2> QED BY <1>g, <2>2, <2>3
<1>3. ASSUME NEW k \in 1..n, NEW h \in G[k - 1]
      PROVE  Relate[relations[k]][h] \in G[k]
  <2> DEFINE r == relations[k]
             new == Relate[r][h]
  <2>1. k - 1 \in 0..n /\ k \in 0..n /\ r \in Relation
    BY <1>n
  <2>2. Done(k) = Done(k - 1) \union {r}
    BY <1>n
  <2>3. \A t : Linked(Done(k - 1) \union {r}, t) = Linked(Done(k - 1), t) \union Linked({r}, t)
    BY DEF Linked
  <2> HIDE DEF r, Done
  <2>4. h \in Graph /\ \A t \in Tables : Near(h, t) = Near(g, t) \union Linked(Done(k - 1), t)
    BY <1>g, <2>1
  <2>5. new \in Graph /\ \A t \in Tables : Near(new, t) = Near(h, t) \union Linked({r}, t)
    BY <1>1, <1>a, <2>1, <2>4
  <2> HIDE DEF new
  <2>6. Good(new, k)
    BY <2>2, <2>3, <2>4, <2>5
  <2> HIDE DEF Good
  <2>7. new \in G[k]
    BY <1>g, <2>1, <2>5, <2>6
  <2> QED BY <2>7 DEF new, r
<1>4. Preserved(Relate, relations, G)
  BY <1>3 DEF Preserved
<1>5. Loop(Relate, g, relations) \in G[n]
  <2> HIDE DEF n
  <2> QED BY <1>a, <1>g, <1>2, <1>4, Looping DEF n
<1>6. Done(n) = ToSet(relations)
  BY DEF ToSet
<1> HIDE DEF Done
<1>7. n \in 0..n
  BY <1>n
<1> QED BY <1>d, <1>g, <1>5, <1>6, <1>7

\* Neighbours in build_relationship_graph are the related tables.
LEMMA JoinGraphRelates ==
  ASSUME NEW s \in Schema
  PROVE  /\ JoinGraph(s) \in Graph
         /\ \A t \in Tables : Near(JoinGraph(s), t) = {u \in Tables : Adjacent(s, t, u)}
<1> DEFINE bare == [t \in Tables |-> <<>>]
           first == IF s.declared # <<>> THEN RelateAll(TRUE, bare, s.declared)
                    ELSE RelateAll(FALSE, bare, s.byName)
           last == RelateAll(FALSE, first, s.byKey)
           early == IF s.declared # <<>> THEN ToSet(s.declared) ELSE ToSet(s.byName)
<1>s. /\ s.declared \in Seq(Relation) /\ s.byName \in Seq(Relation) /\ s.byKey \in Seq(Relation)
      /\ TRUE \in BOOLEAN /\ FALSE \in BOOLEAN
  BY DEF Schema
<1>1. bare \in Graph /\ \A t \in Tables : Near(bare, t) = {}
  <2>1. <<>> \in Seq(Edge)
    OBVIOUS
  <2> QED BY <2>1 DEF Graph, Near
<1> HIDE DEF bare
<1>b. bare \in Graph
  BY <1>1
<1>2. first \in Graph /\ \A t \in Tables : Near(first, t) = Linked(early, t)
  <2>1. CASE s.declared # <<>>
    <3> DEFINE h == RelateAll(TRUE, bare, s.declared)
    <3>1. h \in Graph /\ \A t \in Tables : Near(h, t) = Near(bare, t) \union Linked(ToSet(s.declared), t)
      BY <1>s, <1>b, AllRelated
    <3>2. first = h /\ early = ToSet(s.declared)
      BY <2>1
    <3> HIDE DEF h, first, early
    <3> QED BY <1>1, <3>1, <3>2
  <2>2. CASE s.declared = <<>>
    <3> DEFINE h == RelateAll(FALSE, bare, s.byName)
    <3>1. h \in Graph /\ \A t \in Tables : Near(h, t) = Near(bare, t) \union Linked(ToSet(s.byName), t)
      BY <1>s, <1>b, AllRelated
    <3>2. first = h /\ early = ToSet(s.byName)
      BY <2>2
    <3> HIDE DEF h, first, early
    <3> QED BY <1>1, <3>1, <3>2
  <2> QED BY <2>1, <2>2
<1>d. JoinGraph(s) = last
  BY DEF JoinGraph, bare
<1> HIDE DEF first
<1>f. first \in Graph
  BY <1>2
<1>3. last \in Graph /\ \A t \in Tables : Near(last, t) = Near(first, t) \union Linked(ToSet(s.byKey), t)
  BY <1>s, <1>f, AllRelated
<1>4. Relations(s) = early \union ToSet(s.byKey)
  <2>1. s.declared = <<>> => ToSet(s.declared) = {}
    BY DEF ToSet
  <2> QED BY <2>1 DEF Relations
<1> HIDE DEF last, early
<1>5. \A t \in Tables : Linked(early, t) \union Linked(ToSet(s.byKey), t) = {u \in Tables : Adjacent(s, t, u)}
  BY <1>4 DEF Linked, Adjacent
<1> QED BY <1>2, <1>3, <1>5, <1>d

\* The balls of the properties are the balls of the graph.
LEMMA BallIsBall ==
  ASSUME NEW s \in Schema, NEW t \in Tables, NEW B \in Balls(JoinGraph(s), t), NEW n \in Nat
  PROVE  Ball(s, t, n) = B[n]
<1> DEFINE Wider(near) == near \union {u \in Tables : \E v \in near : Adjacent(s, v, u)}
           Grow == CHOOSE f : f = [k \in Nat |->
                     IF k = 0 THEN {t}
                     ELSE LET near == f[k - 1]
                          IN  near \union {u \in Tables : \E v \in near : Adjacent(s, v, u)}]
<1>d. Ball(s, t, n) = Grow[n]
  BY DEF Ball
<1>1. /\ B \in [Nat -> SUBSET Tables] /\ B[0] = {t}
      /\ \A k \in Nat : B[k + 1] = B[k] \union UNION {Near(JoinGraph(s), v) : v \in B[k]}
  BY DEF Balls
<1>2. \A k \in Nat : B[k + 1] = Wider(B[k])
  <2> TAKE k \in Nat
  <2>1. \A v \in B[k] : Near(JoinGraph(s), v) = {u \in Tables : Adjacent(s, v, u)}
    BY <1>1, JoinGraphRelates
  <2> QED BY <1>1, <2>1
<1>3. \A k \in Nat : B[k] = IF k = 0 THEN {t} ELSE Wider(B[k - 1])
  <2> TAKE k \in Nat
  <2>1. CASE k = 0
    BY <1>1, <2>1
  <2>2. CASE k # 0
    <3>1. k - 1 \in Nat /\ (k - 1) + 1 = k
      BY <2>2
    <3> HIDE DEF Wider
    <3> QED BY <1>2, <2>2, <3>1
  <2> QED BY <2>1, <2>2
<1>4. B = [k \in Nat |-> IF k = 0 THEN {t} ELSE Wider(B[k - 1])]
  BY <1>1, <1>3
<1>5. Grow = [k \in Nat |-> IF k = 0 THEN {t} ELSE Wider(Grow[k - 1])]
  BY <1>4
<1> HIDE DEF Grow, Wider
<1> DEFINE T == {k \in Nat : Grow[k] = B[k]}
<1>6. T = Nat
  <2>1. 0 \in T
    BY <1>3, <1>5
  <2>2. ASSUME NEW k \in T PROVE k + 1 \in T
    <3>1. k + 1 \in Nat /\ k + 1 # 0 /\ (k + 1) - 1 = k /\ Grow[k] = B[k]
      OBVIOUS
    <3>2. Grow[k + 1] = Wider(Grow[(k + 1) - 1])
      BY <1>5, <3>1
    <3>3. B[k + 1] = Wider(B[k])
      BY <1>2
    <3> QED BY <3>1, <3>2, <3>3
  <2> HIDE DEF T
  <2>3. T \in SUBSET Nat
    BY DEF T
  <2> QED BY <2>1, <2>2, <2>3, Climb
<1> QED BY <1>d, <1>6

\* determine_base_table picks a table of the intent: the score is a total order.
LEMMA BaseIsNamed ==
  ASSUME NEW g \in Graph, NEW tables \in Seq(Tables), tables # <<>>
  PROVE  BaseTable(g, tables) \in ToSet(tables)
<1> DEFINE Score(t) == <<Len(g[t]), IF \E k \in DOMAIN g[t] : g[t][k].key = "id" THEN 1 ELSE 0, t>>
           Above(a, b) == \E k \in 1..3 : a[k] > b[k] /\ \A j \in 1..(k - 1) : a[j] = b[j]
           Over(t, u) == Above(Score(t), Score(u))
           n == Len(tables)
           Fore(k) == {tables[i] : i \in 1..k}
           Best(S) == \E t \in S : \A u \in S \ {t} : Over(t, u)
           T == {k \in Nat : k + 1 <= n => Best(Fore(k + 1))}
<1>1. \A t \in Tables : Score(t)[1] \in Nat /\ Score(t)[2] \in Nat /\ Score(t)[3] = t /\ t \in Nat
  <2> TAKE t \in Tables
  <2>1. g[t] \in Seq(Edge)
    BY DEF Graph
  <2> QED BY <2>1, JoinPlanAssumption
<1> HIDE DEF Score
<1>2. ASSUME NEW a, NEW b
      PROVE  Above(a, b) <=> \/ a[1] > b[1]
                             \/ a[1] = b[1] /\ a[2] > b[2]
                             \/ a[1] = b[1] /\ a[2] = b[2] /\ a[3] > b[3]
  <2>1. 1..3 = {1, 2, 3} /\ 1..(1 - 1) = {} /\ 1..(2 - 1) = {1} /\ 1..(3 - 1) = {1, 2}
    OBVIOUS
  <2>2. Above(a, b) <=> \/ a[1] > b[1] /\ \A j \in {} : a[j] = b[j]
                        \/ a[2] > b[2] /\ \A j \in {1} : a[j] = b[j]
                        \/ a[3] > b[3] /\ \A j \in {1, 2} : a[j] = b[j]
    BY <2>1, Zenon
  <2> HIDE DEF Above
  <2> QED BY <2>2
<1> HIDE DEF Above
<1>3. \A t, u \in Tables : t # u => Over(t, u) \/ Over(u, t)
  <2> SUFFICES ASSUME NEW t \in Tables, NEW u \in Tables, t # u PROVE Over(t, u) \/ Over(u, t)
    OBVIOUS
  <2> DEFINE a == Score(t)
             b == Score(u)
  <2>1. /\ a[1] \in Nat /\ a[2] \in Nat /\ a[3] \in Nat
        /\ b[1] \in Nat /\ b[2] \in Nat /\ b[3] \in Nat
        /\ a[3] # b[3]
    BY <1>1
  <2> HIDE DEF a, b
  <2>2. Above(a, b) \/ Above(b, a)
    BY <1>2, <2>1
  <2> QED BY <2>2 DEF a, b
<1>4. \A t, u, v \in Tables : Over(t, u) /\ Over(u, v) => Over(t, v)
  <2> TAKE t, u, v \in Tables
  <2> DEFINE a == Score(t)
             b == Score(u)
             c == Score(v)
  <2>1. /\ a[1] \in Nat /\ a[2] \in Nat /\ a[3] \in Nat
        /\ b[1] \in Nat /\ b[2] \in Nat /\ b[3] \in Nat
        /\ c[1] \in Nat /\ c[2] \in Nat /\ c[3] \in Nat
    BY <1>1
  <2> HIDE DEF a, b, c
  <2>2. Above(a, b) /\ Above(b, c) => Above(a, c)
    <3> SUFFICES ASSUME Above(a, b), Above(b, c) PROVE Above(a, c)
      OBVIOUS
    <3>1. \/ a[1] > b[1]
          \/ a[1] = b[1] /\ a[2] > b[2]
          \/ a[1] = b[1] /\ a[2] = b[2] /\ a[3] > b[3]
      BY <1>2
    <3>2. \/ b[1] > c[1]
          \/ b[1] = c[1] /\ b[2] > c[2]
          \/ b[1] = c[1] /\ b[2] = c[2] /\ b[3] > c[3]
      BY <1>2
    <3>3. \/ a[1] > c[1]
          \/ a[1] = c[1] /\ a[2] > c[2]
          \/ a[1] = c[1] /\ a[2] = c[2] /\ a[3] > c[3]
      BY <2>1, <3>1, <3>2
    <3> QED BY <1>2, <3>3
  <2> QED BY <2>2 DEF a, b, c
<1> HIDE DEF Over
<1>n. n \in Nat /\ n >= 1 /\ \A i \in 1..n : tables[i] \in Tables
  OBVIOUS
<1>5. 0 \in T
  <2>1. Fore(0 + 1) = {tables[1]}
    OBVIOUS
  <2> QED BY <2>1
<1>6. ASSUME NEW k \in T PROVE k + 1 \in T
  <2> SUFFICES ASSUME (k + 1) + 1 <= n PROVE Best(Fore((k + 1) + 1))
    OBVIOUS
  <2> DEFINE x == tables[(k + 1) + 1]
             S == Fore(k + 1)
  <2>a. (k + 1) + 1 \in 1..n /\ k + 1 <= n /\ \A i \in 1..(k + 1) : i \in 1..n
    BY <1>n
  <2>b. Best(S)
    <3> HIDE DEF Best, Fore
    <3> QED BY <2>a
  <2>1. Best(S) /\ x \in Tables /\ S \subseteq Tables
    BY <1>n, <2>a, <2>b
  <2>2. Fore((k + 1) + 1) = S \union {x}
    OBVIOUS
  <2> HIDE DEF x, S, Fore
  <2>3. PICK t \in S : \A u \in S \ {t} : Over(t, u)
    BY <2>1
  <2>4. CASE x \in S \/ Over(t, x)
    BY <2>2, <2>3, <2>4
  <2>5. CASE x \notin S /\ ~Over(t, x)
    <3>1. Over(x, t)
      BY <1>3, <2>1, <2>3, <2>5
    <3>2. \A u \in S : Over(x, u)
      BY <1>4, <2>1, <2>3, <3>1
    <3> QED BY <2>2, <3>2
  <2> QED BY <2>4, <2>5
<1> HIDE DEF T
<1>7. T = Nat
  <2>1. T \in SUBSET Nat
    BY DEF T
  <2> QED BY <1>5, <1>6, <2>1, Climb
<1>8. Best(Fore(n))
  <2>1. n - 1 \in T /\ (n - 1) + 1 = n
    BY <1>7, <1>n
  <2> HIDE DEF Best, Fore, n
  <2> QED BY <2>1, <1>n DEF T
<1>9. Fore(n) = ToSet(tables)
  BY DEF ToSet
<1> HIDE DEF Fore
<1>10. \E t \in ToSet(tables) : \A u \in ToSet(tables) \ {t} : Over(t, u)
  BY <1>8, <1>9
<1>11. BaseTable(g, tables) = CHOOSE t \in ToSet(tables) : \A u \in ToSet(tables) \ {t} : Over(t, u)
  BY DEF BaseTable, Over, Above, Score
<1> QED BY <1>10, <1>11

----------------------------------------------------------------------------
(* The inductive invariant.  AtX: the places from X on                     *)

AtReport == {"report", "compile", "accepted", "refused"}
AtPrune == AtReport \union {"prune"}
AtDrop == AtPrune \union {"drop"}
AtReconcile == AtDrop \union {"reconcile"}
AtRebase == AtReconcile \union {"rebase"}
AtJoins == AtRebase \union {"joins", "group"}
Places == AtJoins \union {"graph", "select"}

TypeOK ==
    /\ pc \in Places
    /\ schema \in Schema /\ intent \in Intent
    /\ graph \in Graph /\ plan \in Plan
    /\ dropped \subseteq {"aggregation", "grouping", "filter", "ordering"}

GraphBuilt == pc # "graph" => graph = JoinGraph(schema)

JoinsLaid ==
    /\ pc \in {"graph", "select", "joins"} => plan.joins = <<>>
    /\ pc \in AtJoins => /\ plan.base \in Tables
                         /\ \A B \in Balls(graph, plan.base) : plan.joins \in Laid(plan.base, B)

(* A clause that a pass drops, or that a new base leaves behind, is told   *)
(* from the clauses that stay.                                             *)
Clauses ==
    /\ pc \in {"joins", "group"} => plan.having \in {None, plan.agg}
    /\ pc \in AtRebase => /\ plan.having \in {None} \union ToSet(plan.select)
                          /\ plan.order \in {None, plan.base}
    /\ pc \in {"rebase", "reconcile", "drop"} => plan.where = intent.filters
    /\ pc \in AtPrune => /\ ToSet(plan.where) \subseteq ToSet(intent.filters)
                         /\ ToSet(intent.filters) \intersect Related(plan.base) \subseteq ToSet(plan.where)

(* The tables that no pass after the GROUP BY decision adds to or takes    *)
(* from what the plan and the intent name                                  *)
Fixed(p, i) == ToSet(p.select) \union ({p.group, p.order} \ {None}) \union ToSet(i.filters)
Mutual(s, S) == \A t, u \in S : t \in Ball(s, u, Reach)

BaseReaches ==
    pc \in AtReconcile /\ Mutual(schema, Fixed(plan, intent))
      => Fixed(plan, intent) \subseteq Related(plan.base)

ReachedIsJoined ==
    pc \in AtDrop => ToSet(Referenced(plan)) \intersect Related(plan.base) \subseteq Scope(plan)

NeededOnce ==
    pc \in AtReport =>
        /\ OneEach(plan.joins)
        /\ \A hop \in ToSet(plan.joins) :
              hop.right \in ToSet(Referenced(plan)) \union {plan.base}
                            \union {h.left : h \in ToSet(plan.joins)}

RefusedIsOutOfScope == pc = "refused" => ~(ToSet(Referenced(plan)) \subseteq Scope(plan))

IInv == /\ TypeOK /\ GraphBuilt /\ JoinsLaid /\ Clauses
        /\ BaseReaches /\ ReachedIsJoined /\ NeededOnce /\ RefusedIsOutOfScope

\* Related tables are those a search can reach.
LEMMA RelatedIsReached ==
  ASSUME NEW s \in Schema, NEW t \in Tables
  PROVE  Balls(JoinGraph(s), t) # {} /\ \A B \in Balls(JoinGraph(s), t) : Ball(s, t, Reach) = B[Reach]
<1>1. JoinGraph(s) \in Graph
  BY JoinGraphRelates
<1>2. Balls(JoinGraph(s), t) # {}
  BY <1>1, BallsExist
<1>3. \A B \in Balls(JoinGraph(s), t) : Ball(s, t, Reach) = B[Reach]
  BY BallIsBall, ReachIsNat
<1> QED BY <1>2, <1>3

\* A path is found between related tables, and only between them.
LEMMA PathTells ==
  ASSUME NEW s \in Schema, NEW a \in Tables, NEW t \in Tables
  PROVE  /\ FindJoinPath(JoinGraph(s), a, t) # <<>> => t \in Ball(s, a, Reach)
         /\ t \in Ball(s, a, Reach) /\ t # a => FindJoinPath(JoinGraph(s), a, t) # <<>>
<1> DEFINE g == JoinGraph(s)
           p == FindJoinPath(g, a, t)
<1>1. g \in Graph
  BY JoinGraphRelates
<1>2. PICK B \in Balls(g, a) : Ball(s, a, Reach) = B[Reach]
  BY RelatedIsReached
<1> HIDE DEF g
<1>3. p \in Paths(B, a, t)
  BY <1>1, SearchFinds
<1> HIDE DEF p
<1>4. /\ t \in B[Reach] \ {a} => t \in Ends(p)
      /\ p # <<>> => t \in B[Reach]
  BY <1>3 DEF Paths
<1>5. p = <<>> => Ends(p) = {}
  BY DEF Ends, ToSet
<1> QED BY <1>2, <1>4, <1>5 DEF p, g

\* _rebase_on_referenced_table leaves a base that reaches all that is named, if
\* any table named does.
LEMMA Rebases ==
  ASSUME NEW s \in Schema, NEW p \in Plan, p.base \in Tables
  PROVE  LET g == JoinGraph(s)
             refs == ToSet(Referenced(p))
             r == Rebased(p, g)
         IN  /\ \/ r = p
                \/ /\ p.base \notin refs
                   /\ \E a \in refs : r = [p EXCEPT !.base = a, !.joins = <<>>]
             /\ Mutual(s, refs) => refs \subseteq Ball(s, r.base, Reach)
<1> DEFINE g == JoinGraph(s)
           refs == Referenced(p)
           Joined(a, b) == FindJoinPath(g, a, b) # <<>>
           Able == {t \in Tables : \A u \in ToSet(refs) \ {t} : Joined(t, u)}
           anchors == Only(refs, Able)
           r == Rebased(p, g)
<1>1. refs \in Seq(Tables) /\ ToSet(refs) \subseteq Tables /\ (refs = <<>> <=> ToSet(refs) = {})
  <2>1. refs \in Seq(Tables)
    BY ReferencedTables
  <2> HIDE DEF refs
  <2> QED BY <2>1, SetOfSeq
<1>2. \A a, t \in Tables : /\ Joined(a, t) => t \in Ball(s, a, Reach)
                           /\ t \in Ball(s, a, Reach) /\ t # a => Joined(a, t)
  BY PathTells
<1>3. Contains(refs, p.base) <=> p.base \in ToSet(refs)
  <2> HIDE DEF refs
  <2> QED BY <1>1, SetOfSeq
<1>d. r = IF refs = <<>> \/ Contains(refs, p.base) \/ anchors = <<>>
             \/ \A t \in ToSet(refs) : Joined(p.base, t)
          THEN p
          ELSE [p EXCEPT !.base = Head(anchors), !.joins = <<>>]
  BY DEF Rebased
<1> HIDE DEF Joined, refs, g, r
<1>4. anchors \in Seq(Tables) /\ ToSet(anchors) = ToSet(refs) \intersect Able
  <2> HIDE DEF Able
  <2> QED BY <1>1, OnlyKeeps
<1>5. Mutual(s, ToSet(refs)) => ToSet(refs) \subseteq Able
  BY <1>1, <1>2 DEF Mutual
<1> HIDE DEF anchors
<1>6. CASE refs = <<>>
  BY <1>1, <1>6, <1>d DEF refs, r, g
<1>7. CASE refs # <<>> /\ p.base \in ToSet(refs)
  <2>1. r = p
    BY <1>3, <1>7, <1>d
  <2>2. Mutual(s, ToSet(refs)) => ToSet(refs) \subseteq Ball(s, p.base, Reach)
    BY <1>7 DEF Mutual
  <2> QED BY <2>1, <2>2 DEF refs, r, g
<1>8. CASE refs # <<>> /\ anchors = <<>>
  <2>1. r = p
    BY <1>8, <1>d
  <2>2. ToSet(anchors) = {}
    BY <1>8 DEF ToSet
  <2>3. ~Mutual(s, ToSet(refs))
    BY <1>1, <1>4, <1>5, <1>8, <2>2
  <2> QED BY <2>1, <2>3 DEF refs, r, g
<1>9. CASE \A t \in ToSet(refs) : Joined(p.base, t)
  <2>1. r = p
    BY <1>9, <1>d
  <2>2. ToSet(refs) \subseteq Ball(s, p.base, Reach)
    BY <1>1, <1>2, <1>9
  <2> QED BY <2>1, <2>2 DEF refs, r, g
<1>10. CASE /\ refs # <<>> /\ p.base \notin ToSet(refs) /\ anchors # <<>>
            /\ ~(\A t \in ToSet(refs) : Joined(p.base, t))
  <2> DEFINE a == Head(anchors)
  <2>1. a \in ToSet(anchors)
    BY <1>4, <1>10, SetOfSeq
  <2> HIDE DEF a
  <2>2. a \in ToSet(refs) /\ a \in Tables
    BY <1>1, <1>4, <2>1
  <2>3. r = [p EXCEPT !.base = a, !.joins = <<>>]
    BY <1>3, <1>10, <1>d DEF a
  <2>4. r.base = a
    BY <2>3 DEF Plan
  <2>5. Mutual(s, ToSet(refs)) => ToSet(refs) \subseteq Ball(s, a, Reach)
    BY <2>2 DEF Mutual
  <2> QED BY <1>10, <2>2, <2>3, <2>4, <2>5 DEF refs, r, g
<1> QED BY <1>6, <1>7, <1>8, <1>9, <1>10

----------------------------------------------------------------------------
(* The passes keep the invariant                                           *)

LEMMA InitEstablishes == Init => IInv
<1> SUFFICES ASSUME Init PROVE IInv
  OBVIOUS
<1>1. <<>> \in Seq(Edge) /\ <<>> \in Seq(Hop) /\ <<>> \in Seq(Tables)
  OBVIOUS
<1>2. TypeOK
  BY <1>1, JoinPlanAssumption DEF Init, TypeOK, Graph, Plan, Places
<1>3. pc = "graph" /\ plan.joins = <<>>
  BY DEF Init
<1> QED BY <1>2, <1>3 DEF IInv, GraphBuilt, JoinsLaid, Clauses, BaseReaches, ReachedIsJoined,
           NeededOnce, RefusedIsOutOfScope, AtJoins, AtRebase, AtReconcile, AtDrop, AtPrune, AtReport

\* Each pass keeps the invariant.
LEMMA BuildGraphKeeps == IInv /\ BuildGraph => IInv'
<1> SUFFICES ASSUME IInv, BuildGraph PROVE IInv'
  OBVIOUS
<1>1. /\ pc = "graph" /\ pc' = "select" /\ graph' = JoinGraph(schema)
      /\ UNCHANGED <<schema, intent, plan, dropped>>
  BY DEF BuildGraph, Goto
<1>2. TypeOK'
  <2>1. JoinGraph(schema) \in Graph
    BY JoinGraphRelates DEF IInv, TypeOK
  <2> QED BY <1>1, <2>1 DEF IInv, TypeOK, Places
<1>3. GraphBuilt' /\ plan'.joins = <<>>
  BY <1>1 DEF IInv, GraphBuilt, JoinsLaid
<1> QED BY <1>1, <1>2, <1>3 DEF IInv, JoinsLaid, Clauses, BaseReaches, ReachedIsJoined,
           NeededOnce, RefusedIsOutOfScope, AtJoins, AtRebase, AtReconcile, AtDrop, AtPrune, AtReport

LEMMA SelectKeeps == IInv /\ Select => IInv'
<1> SUFFICES ASSUME IInv, Select PROVE IInv'
  OBVIOUS
<1> DEFINE base == BaseTable(graph, intent.tables)
           agg == IF intent.agg = None /\ Asks("order") /\ base \in Keyed THEN base
                  ELSE intent.agg
           select == IF agg = None THEN Columns(intent) ELSE <<agg>>
           order == IF Asks("order") THEN agg ELSE None
           having == IF Asks("having") THEN agg ELSE None
<1>1. /\ pc = "select" /\ pc' = "joins"
      /\ plan' = [plan EXCEPT !.base = base, !.agg = agg, !.select = select,
                              !.order = order, !.having = having]
      /\ UNCHANGED <<schema, intent, graph, dropped>>
  BY DEF Select, Goto
<1>2. /\ intent.tables \in Seq(Tables) /\ intent.tables # <<>> /\ intent.cols \in Seq(Tables)
      /\ intent.agg \in Tables \union {None} /\ graph \in Graph /\ plan \in Plan
  BY DEF IInv, TypeOK, Intent
<1>3. base \in Tables
  <2>1. base \in ToSet(intent.tables)
    BY <1>2, BaseIsNamed
  <2> QED BY <1>2, <2>1, SetOfSeq
<1> HIDE DEF base
<1>4. agg \in Tables \union {None}
  BY <1>2, <1>3
<1> HIDE DEF agg
<1>5. select \in Seq(Tables) /\ order \in Tables \union {None} /\ having \in {None, agg}
  <2>1. agg # None => <<agg>> \in Seq(Tables)
    BY <1>4
  <2> QED BY <1>2, <1>4, <2>1 DEF Columns
<1> HIDE DEF select, order, having
<1>6. /\ plan' \in Plan /\ plan'.base = base /\ plan'.joins = plan.joins
      /\ plan'.having = having /\ plan'.agg = agg
  BY <1>1, <1>2, <1>3, <1>4, <1>5 DEF Plan
<1>7. plan'.joins = <<>>
  BY <1>1, <1>6 DEF IInv, JoinsLaid
<1>8. TypeOK' /\ GraphBuilt'
  BY <1>1, <1>6 DEF IInv, TypeOK, GraphBuilt, Places, AtJoins
<1>9. JoinsLaid'
  BY <1>3, <1>6, <1>7, NothingLaid DEF JoinsLaid
<1>10. Clauses'
  BY <1>1, <1>5, <1>6 DEF Clauses, AtRebase, AtReconcile, AtDrop, AtPrune, AtReport
<1> QED BY <1>1, <1>8, <1>9, <1>10 DEF IInv, BaseReaches, ReachedIsJoined,
           NeededOnce, RefusedIsOutOfScope, AtRebase, AtReconcile, AtDrop, AtPrune, AtReport

LEMMA JoinsKeeps == IInv /\ Joins => IInv'
<1> SUFFICES ASSUME IInv, Joins PROVE IInv'
  OBVIOUS
<1> DEFINE S == Tables \ {plan.base}
           refs == Referenced(plan)
           all == intent.tables \o refs
           targets == Only(Distinct(all), S)
           found == ResolveJoins(graph, plan.base, targets)
           joins == WithRoles(graph, schema, found, intent.role)
<1>1. /\ pc = "joins" /\ pc' = "group" /\ plan' = [plan EXCEPT !.joins = joins]
      /\ UNCHANGED <<schema, intent, graph, dropped>>
  BY DEF Joins, Goto
<1>2. /\ intent.tables \in Seq(Tables) /\ intent.role \in STRING
      /\ graph \in Graph /\ plan \in Plan /\ plan.base \in Tables
  BY <1>1 DEF IInv, TypeOK, Intent, JoinsLaid, AtJoins
<1>3. targets \in Seq(Tables)
  <2>1. refs \in Seq(Tables)
    BY <1>2, ReferencedTables
  <2> HIDE DEF refs
  <2>2. all \in Seq(Tables)
    BY <1>2, <2>1
  <2> HIDE DEF all, S
  <2>3. Distinct(all) \in Seq(Tables)
    BY <2>2, DistinctKeeps
  <2> QED BY <2>3, OnlyKeeps
<1> HIDE DEF targets
<1>4. \A B \in Balls(graph, plan.base) : joins \in Laid(plan.base, B)
  <2> TAKE B \in Balls(graph, plan.base)
  <2>1. found \in Laid(plan.base, B)
    BY <1>2, <1>3, Resolves
  <2> HIDE DEF found
  <2> QED BY <1>2, <2>1, RolesKeep
<1>5. joins \in Seq(Hop)
  <2>1. PICK B \in Balls(graph, plan.base) : TRUE
    BY <1>2, BallsExist
  <2> QED BY <1>4, <2>1 DEF Laid
<1> HIDE DEF joins
<1>6. /\ plan' \in Plan /\ plan'.base = plan.base /\ plan'.joins = joins
      /\ plan'.having = plan.having /\ plan'.agg = plan.agg
  BY <1>1, <1>2, <1>5 DEF Plan
<1>7. TypeOK' /\ GraphBuilt'
  BY <1>1, <1>6 DEF IInv, TypeOK, GraphBuilt, Places, AtJoins
<1>8. JoinsLaid'
  BY <1>1, <1>2, <1>4, <1>6 DEF JoinsLaid
<1>9. Clauses'
  BY <1>1, <1>6 DEF IInv, Clauses, AtRebase, AtReconcile, AtDrop, AtPrune, AtReport
<1> QED BY <1>1, <1>7, <1>8, <1>9 DEF IInv, BaseReaches, ReachedIsJoined,
           NeededOnce, RefusedIsOutOfScope, AtRebase, AtReconcile, AtDrop, AtPrune, AtReport

LEMMA GroupKeeps == IInv /\ Group => IInv'
<1> SUFFICES ASSUME IInv, Group PROVE IInv'
  OBVIOUS
<1> DEFINE group == Grouping(plan)
           select == IF plan.agg = None THEN plan.select ELSE One(group) \o <<plan.agg>>
           order == IF Asks("order") /\ plan.agg = None THEN plan.base ELSE None
<1>1. /\ pc = "group" /\ pc' = "rebase"
      /\ plan' = [plan EXCEPT !.group = group, !.select = select, !.where = intent.filters,
                              !.order = order]
      /\ UNCHANGED <<schema, intent, graph, dropped>>
  BY DEF Group, Goto
<1>2. /\ intent.tables \in Seq(Tables) /\ intent.cols \in Seq(Tables)
      /\ intent.filters \in Seq(Tables) /\ graph \in Graph /\ plan \in Plan /\ plan.base \in Tables
      /\ plan.agg \in Tables \union {None} /\ plan.select \in Seq(Tables)
      /\ plan.joins \in Seq(Hop) /\ plan.having \in {None, plan.agg}
  BY <1>1 DEF IInv, TypeOK, Intent, JoinsLaid, AtJoins, Plan, Clauses
<1>3. group \in Tables \union {None}
  <2> DEFINE dims == IF intent.cols # <<>> THEN intent.cols ELSE Only(intent.tables, Labelled)
  <2>1. dims \in Seq(Tables)
    BY <1>2, OnlyKeeps
  <2>2. group \in {None, plan.base} \union (IF dims # <<>> THEN {Head(dims)} ELSE {})
    BY DEF Grouping
  <2> HIDE DEF dims
  <2>3. dims # <<>> => Head(dims) \in Tables
    BY <2>1, SetOfSeq
  <2> QED BY <1>2, <2>2, <2>3
<1> HIDE DEF group
<1>4. select \in Seq(Tables) /\ plan.having \in {None} \union ToSet(select)
  <2>1. CASE plan.agg = None
    BY <1>2, <2>1
  <2>2. CASE plan.agg # None
    <3> DEFINE one == One(group)
               two == <<plan.agg>>
    <3>1. one \in Seq(Tables)
      BY <1>3, OneTable
    <3>2. two \in Seq(Tables) /\ ToSet(two) = {plan.agg}
      BY <1>2, <2>2 DEF ToSet
    <3>3. select = one \o two
      BY <2>2
    <3> HIDE DEF one, two, select
    <3>4. one \o two \in Seq(Tables) /\ ToSet(one \o two) = ToSet(one) \union ToSet(two)
      BY <3>1, <3>2, JoinedSet
    <3> QED BY <1>2, <3>2, <3>3, <3>4
  <2> QED BY <2>1, <2>2
<1>5. order \in {None, plan.base}
  OBVIOUS
<1> HIDE DEF select, order
<1>6. /\ plan' \in Plan /\ plan'.base = plan.base /\ plan'.joins = plan.joins
      /\ plan'.having = plan.having /\ plan'.select = select /\ plan'.order = order
      /\ plan'.where = intent.filters
  BY <1>1, <1>2, <1>3, <1>4, <1>5 DEF Plan
<1>7. TypeOK' /\ GraphBuilt'
  BY <1>1, <1>6 DEF IInv, TypeOK, GraphBuilt, Places, AtJoins, AtRebase
<1>8. JoinsLaid'
  BY <1>1, <1>2, <1>6 DEF IInv, JoinsLaid, AtJoins
<1>9. Clauses'
  BY <1>1, <1>4, <1>5, <1>6 DEF Clauses, AtPrune, AtReport
<1> QED BY <1>1, <1>7, <1>8, <1>9 DEF IInv, BaseReaches, ReachedIsJoined,
           NeededOnce, RefusedIsOutOfScope, AtReconcile, AtDrop, AtPrune, AtReport

\* Before any clause is dropped, the plan references what it was asked for.
LEMMA RefsAreFixed ==
  ASSUME NEW p \in Plan, NEW i, p.where = i.filters, p.having \in {None} \union ToSet(p.select)
  PROVE  ToSet(Referenced(p)) = Fixed(p, i)
<1>1. ToSet(Referenced(p)) = ToSet(p.select) \union ToSet(p.where)
                             \union ({p.group, p.order, p.having} \ {None})
  BY ReferencedTables
<1> QED BY <1>1 DEF Fixed

LEMMA RebaseKeeps == IInv /\ Rebase => IInv'
<1> SUFFICES ASSUME IInv, Rebase PROVE IInv'
  OBVIOUS
<1> DEFINE r == Rebased(plan, graph)
           refs == ToSet(Referenced(plan))
<1>1. /\ pc = "rebase" /\ pc' = "reconcile" /\ plan' = r
      /\ UNCHANGED <<schema, intent, graph, dropped>>
  BY DEF Rebase, Goto
<1>2. /\ schema \in Schema /\ graph = JoinGraph(schema) /\ plan \in Plan /\ plan.base \in Tables
      /\ \A B \in Balls(graph, plan.base) : plan.joins \in Laid(plan.base, B)
      /\ plan.having \in {None} \union ToSet(plan.select) /\ plan.order \in {None, plan.base}
      /\ plan.where = intent.filters
  BY <1>1 DEF IInv, TypeOK, GraphBuilt, JoinsLaid, Clauses, AtJoins, AtRebase
<1>3. refs = Fixed(plan, intent) /\ refs \subseteq Tables
  <2>1. refs = Fixed(plan, intent)
    BY <1>2, RefsAreFixed
  <2>2. Referenced(plan) \in Seq(Tables)
    BY <1>2, ReferencedTables
  <2> QED BY <2>1, <2>2, SetOfSeq
<1>4. /\ \/ r = plan
         \/ /\ plan.base \notin refs
            /\ \E a \in refs : r = [plan EXCEPT !.base = a, !.joins = <<>>]
      /\ Mutual(schema, refs) => refs \subseteq Ball(schema, r.base, Reach)
  BY <1>2, Rebases
<1> HIDE DEF r, refs
<1>5. /\ r \in Plan /\ r.base \in Tables
      /\ \A B \in Balls(graph, r.base) : r.joins \in Laid(r.base, B)
      /\ r.having = plan.having /\ r.select = plan.select /\ r.where = plan.where
      /\ r.group = plan.group /\ r.order = plan.order
      /\ plan.order \in {None, r.base}
  <2>1. CASE r = plan
    BY <1>2, <2>1
  <2>2. CASE plan.base \notin refs /\ r # plan
    <3>1. PICK a \in refs : r = [plan EXCEPT !.base = a, !.joins = <<>>]
      BY <1>4, <2>2
    <3>2. <<>> \in Seq(Hop) /\ a \in Tables
      BY <1>3
    <3>3. /\ r \in Plan /\ r.base = a /\ r.joins = <<>>
          /\ r.having = plan.having /\ r.select = plan.select /\ r.where = plan.where
          /\ r.group = plan.group /\ r.order = plan.order
      BY <1>2, <3>1, <3>2 DEF Plan
    <3>4. plan.order = None
      <4>1. plan.order # None => plan.order \in refs
        BY <1>3 DEF Fixed
      <4> QED BY <1>2, <2>2, <4>1
    <3> QED BY <3>2, <3>3, <3>4, NothingLaid
  <2> QED BY <1>4, <2>1, <2>2
<1>6. Fixed(plan', intent') = refs
  BY <1>1, <1>3, <1>5 DEF Fixed
<1>7. TypeOK' /\ GraphBuilt'
  BY <1>1, <1>2, <1>5 DEF IInv, TypeOK, GraphBuilt, Places, AtJoins, AtRebase, AtReconcile
<1>8. JoinsLaid'
  BY <1>1, <1>5 DEF JoinsLaid
<1>9. Clauses'
  BY <1>1, <1>2, <1>5 DEF Clauses, AtPrune, AtReport
<1>10. BaseReaches'
  BY <1>1, <1>4, <1>6 DEF BaseReaches, Related, Reach
<1> QED BY <1>1, <1>7, <1>8, <1>9, <1>10 DEF IInv, ReachedIsJoined,
           NeededOnce, RefusedIsOutOfScope, AtDrop, AtPrune, AtReport

(* What a plan names depends on its clauses only.                          *)
LEMMA NamesOfClauses ==
  ASSUME NEW p \in Plan, NEW q \in Plan,
         q.select = p.select, q.group = p.group, q.where = p.where,
         q.order = p.order, q.having = p.having
  PROVE  Referenced(q) = Referenced(p)
BY DEF Referenced

LEMMA ReconcileKeeps == IInv /\ Reconcile => IInv'
<1> SUFFICES ASSUME IInv, Reconcile PROVE IInv'
  OBVIOUS
<1>1. /\ pc = "reconcile" /\ pc' = "drop" /\ plan' = Reconciled(plan, graph)
      /\ UNCHANGED <<schema, intent, graph, dropped>>
  BY DEF Reconcile, Goto
<1>2. /\ schema \in Schema /\ graph = JoinGraph(schema) /\ graph \in Graph
      /\ plan \in Plan /\ plan.base \in Tables
      /\ \A B \in Balls(graph, plan.base) : plan.joins \in Laid(plan.base, B)
  BY <1>1 DEF IInv, TypeOK, GraphBuilt, JoinsLaid, AtJoins, AtRebase, AtReconcile
<1>3. ASSUME NEW B \in Balls(graph, plan.base)
      PROVE  \E joins \in Laid(plan.base, B) :
                /\ plan' = [plan EXCEPT !.joins = joins]
                /\ ToSet(Referenced(plan)) \intersect B[Reach] \subseteq {plan.base} \union Ends(joins)
  BY <1>1, <1>2, Reconciles
<1>4. PICK B \in Balls(graph, plan.base) : B[Reach] = Related(plan.base)
  <2>1. /\ Balls(JoinGraph(schema), plan.base) # {}
        /\ \A B \in Balls(JoinGraph(schema), plan.base) : Ball(schema, plan.base, Reach) = B[Reach]
    BY <1>2, RelatedIsReached
  <2> QED BY <1>2, <2>1 DEF Related, Reach
<1>5. PICK joins \in Laid(plan.base, B) :
                /\ plan' = [plan EXCEPT !.joins = joins]
                /\ ToSet(Referenced(plan)) \intersect B[Reach] \subseteq {plan.base} \union Ends(joins)
  BY <1>3
<1>6. /\ plan' \in Plan /\ plan'.base = plan.base /\ plan'.joins = joins
      /\ plan'.select = plan.select /\ plan'.group = plan.group /\ plan'.where = plan.where
      /\ plan'.order = plan.order /\ plan'.having = plan.having
  <2>1. joins \in Seq(Hop)
    BY DEF Laid
  <2> QED BY <1>2, <1>5, <2>1 DEF Plan
<1>7. \A C \in Balls(graph, plan.base) : joins \in Laid(plan.base, C)
  <2> TAKE C \in Balls(graph, plan.base)
  <2>1. PICK other \in Laid(plan.base, C) : plan' = [plan EXCEPT !.joins = other]
    BY <1>3
  <2>2. plan'.joins = other
    BY <1>2, <2>1 DEF Plan
  <2> QED BY <1>6, <2>2
<1>8. TypeOK' /\ GraphBuilt'
  BY <1>1, <1>6 DEF IInv, TypeOK, GraphBuilt, Places, AtJoins, AtRebase, AtReconcile, AtDrop
<1>9. JoinsLaid'
  BY <1>1, <1>2, <1>6, <1>7 DEF JoinsLaid
<1>10. Clauses'
  BY <1>1, <1>6 DEF IInv, Clauses, AtRebase, AtReconcile, AtPrune, AtReport
<1>11. BaseReaches'
  <2>1. Fixed(plan', intent') = Fixed(plan, intent)
    BY <1>1, <1>6 DEF Fixed
  <2> QED BY <1>1, <1>6, <2>1 DEF IInv, BaseReaches, AtReconcile, Related
<1>12. ReachedIsJoined'
  <2>1. Referenced(plan') = Referenced(plan)
    BY <1>2, <1>6, NamesOfClauses
  <2>2. Scope(plan') = {plan.base} \union Ends(joins)
    <3> DEFINE p == plan'
    <3>1. p.joins \in Laid(p.base, B) /\ p.base = plan.base /\ p.joins = joins
      BY <1>6
    <3> HIDE DEF p
    <3>2. Scope(p) = {p.base} \union Ends(p.joins)
      BY <3>1, ScopeIsEnds
    <3> QED BY <3>1, <3>2 DEF p
  <2>3. Related(plan.base)' = Related(plan.base)
    BY <1>1, <1>6 DEF Related
  <2> QED BY <1>4, <1>5, <2>1, <2>2, <2>3 DEF ReachedIsJoined
<1> QED BY <1>1, <1>8, <1>9, <1>10, <1>11, <1>12 DEF IInv,
           NeededOnce, RefusedIsOutOfScope, AtPrune, AtReport

LEMMA DropKeeps == IInv /\ Drop => IInv'
<1> SUFFICES ASSUME IInv, Drop PROVE IInv'
  OBVIOUS
<1> DEFINE scope == Scope(plan)
           kept == Only(plan.where, scope)
           lost == {plan.order, plan.having} \ (scope \union {None})
           order == IF plan.order \in lost THEN None ELSE plan.order
           having == IF plan.having \in lost THEN None ELSE plan.having
           noted == kept # plan.where \/ lost # {}
<1>1. /\ pc = "drop" /\ pc' = "prune"
      /\ plan' = [plan EXCEPT !.where = kept, !.order = order, !.having = having, !.noted = noted]
      /\ UNCHANGED <<schema, intent, graph, dropped>>
  BY DEF Drop, Goto
<1>2. /\ graph \in Graph /\ plan \in Plan /\ plan.base \in Tables
      /\ \A B \in Balls(graph, plan.base) : plan.joins \in Laid(plan.base, B)
      /\ plan.having \in {None} \union ToSet(plan.select) /\ plan.order \in {None, plan.base}
      /\ plan.where = intent.filters /\ plan.where \in Seq(Tables) /\ plan.base \in scope
      /\ plan.having \in Tables \union {None}
  BY <1>1 DEF IInv, TypeOK, JoinsLaid, Clauses, AtJoins, AtRebase, AtReconcile, AtDrop, Plan, Scope
<1>3. kept \in Seq(Tables) /\ ToSet(kept) = ToSet(plan.where) \intersect scope
  <2> HIDE DEF scope
  <2> QED BY <1>2, OnlyKeeps
<1>4. order = plan.order /\ having \in {None, plan.having} /\ noted \in BOOLEAN
  BY <1>2
<1> HIDE DEF kept, order, having, noted, lost
<1>5. /\ plan' \in Plan /\ plan'.base = plan.base /\ plan'.joins = plan.joins
      /\ plan'.select = plan.select /\ plan'.group = plan.group /\ plan'.where = kept
      /\ plan'.order = plan.order /\ plan'.having = having
  BY <1>1, <1>2, <1>3, <1>4 DEF Plan
<1>6. TypeOK' /\ GraphBuilt'
  BY <1>1, <1>5 DEF IInv, TypeOK, GraphBuilt, Places, AtJoins, AtRebase, AtReconcile, AtDrop, AtPrune
<1>7. JoinsLaid'
  BY <1>1, <1>2, <1>5 DEF JoinsLaid
<1>8. Related(plan.base)' = Related(plan.base) /\ Scope(plan') = scope
  BY <1>1, <1>5 DEF Related, Scope
<1>9. ToSet(Referenced(plan)) \intersect Related(plan.base) \subseteq scope
  BY <1>1 DEF IInv, ReachedIsJoined, AtDrop
<1>10. ToSet(Referenced(plan)) = ToSet(plan.select) \union ToSet(plan.where)
                                \union ({plan.group, plan.order, plan.having} \ {None})
  BY <1>2, ReferencedTables
<1>11. ToSet(Referenced(plan')) = ToSet(plan.select) \union ToSet(kept)
                                 \union ({plan.group, plan.order, having} \ {None})
  <2> DEFINE p == plan'
  <2>1. /\ p \in Plan /\ p.select = plan.select /\ p.group = plan.group /\ p.where = kept
        /\ p.order = plan.order /\ p.having = having
    BY <1>5
  <2> HIDE DEF p
  <2>2. ToSet(Referenced(p)) = ToSet(p.select) \union ToSet(p.where)
                              \union ({p.group, p.order, p.having} \ {None})
    BY <2>1, ReferencedTables
  <2>3. ToSet(Referenced(p)) = ToSet(plan.select) \union ToSet(kept)
                              \union ({plan.group, plan.order, having} \ {None})
    BY <2>1, <2>2
  <2> QED BY <2>3 DEF p
<1> HIDE DEF scope
<1>12. ToSet(Referenced(plan')) \subseteq ToSet(Referenced(plan))
  BY <1>3, <1>4, <1>10, <1>11
<1>13. Clauses'
  <2>1. plan'.having \in {None} \union ToSet(plan'.select) /\ plan'.order \in {None, plan'.base}
    BY <1>2, <1>4, <1>5
  <2>2. ToSet(plan'.where) \subseteq ToSet(intent.filters)
    BY <1>2, <1>3, <1>5
  <2>3. ToSet(intent.filters) \intersect Related(plan.base) \subseteq ToSet(plan'.where)
    BY <1>2, <1>3, <1>5, <1>9, <1>10
  <2> QED BY <1>1, <1>8, <2>1, <2>2, <2>3 DEF Clauses
<1>14. BaseReaches'
  <2>1. Fixed(plan', intent') = Fixed(plan, intent)
    BY <1>1, <1>5 DEF Fixed
  <2>2. Mutual(schema, Fixed(plan, intent)) => Fixed(plan, intent) \subseteq Related(plan.base)
    BY <1>1 DEF IInv, BaseReaches, AtReconcile, AtDrop
  <2> QED BY <1>1, <1>8, <2>1, <2>2 DEF BaseReaches
<1>15. ReachedIsJoined'
  BY <1>8, <1>9, <1>12 DEF ReachedIsJoined
<1> QED BY <1>1, <1>6, <1>7, <1>13, <1>14, <1>15 DEF IInv, NeededOnce, RefusedIsOutOfScope, AtReport

LEMMA PruneKeeps == IInv /\ Prune => IInv'
<1> SUFFICES ASSUME IInv, Prune PROVE IInv'
  OBVIOUS
<1> DEFINE single == Dedupe(plan.joins)
           joins == Pruned(plan, single)
           refs == ToSet(Referenced(plan))
           named == refs \union {plan.base}
<1>1. /\ pc = "prune" /\ pc' = "report" /\ plan' = [plan EXCEPT !.joins = joins]
      /\ UNCHANGED <<schema, intent, graph, dropped>>
  BY DEF Prune, Goto
<1>2. /\ graph \in Graph /\ plan \in Plan /\ plan.base \in Tables
      /\ \A B \in Balls(graph, plan.base) : plan.joins \in Laid(plan.base, B)
  BY <1>1 DEF IInv, TypeOK, JoinsLaid, AtJoins, AtRebase, AtReconcile, AtDrop, AtPrune
<1>3. ASSUME NEW B \in Balls(graph, plan.base)
      PROVE  /\ joins \in Laid(plan.base, B) /\ OneEach(joins)
             /\ named \intersect Ends(plan.joins) \subseteq Ends(joins)
             /\ \A hop \in ToSet(joins) : hop.right \in named \union {h.left : h \in ToSet(joins)}
  <2>1. /\ single \in Laid(plan.base, B) /\ Ends(single) = Ends(plan.joins) /\ OneEach(single)
    BY <1>2, Dedupes
  <2> HIDE DEF single
  <2>2. /\ joins \in Laid(plan.base, B) /\ OneEach(joins)
        /\ named \intersect Ends(single) \subseteq Ends(joins)
        /\ \A hop \in ToSet(joins) : hop.right \in named \union {h.left : h \in ToSet(joins)}
    BY <1>2, <2>1, Prunes
  <2> QED BY <2>1, <2>2
<1>4. PICK B \in Balls(graph, plan.base) : TRUE
  BY <1>2, BallsExist
<1> HIDE DEF joins
<1>5. /\ plan' \in Plan /\ plan'.base = plan.base /\ plan'.joins = joins
      /\ plan'.select = plan.select /\ plan'.group = plan.group /\ plan'.where = plan.where
      /\ plan'.order = plan.order /\ plan'.having = plan.having
  <2>1. joins \in Seq(Hop)
    BY <1>3, <1>4 DEF Laid
  <2> QED BY <1>1, <1>2, <2>1 DEF Plan
<1>6. ToSet(Referenced(plan')) = refs
  BY <1>2, <1>5, NamesOfClauses
<1> HIDE DEF refs
<1>7. TypeOK' /\ GraphBuilt'
  BY <1>1, <1>5 DEF IInv, TypeOK, GraphBuilt, Places, AtJoins, AtRebase, AtReconcile, AtDrop, AtPrune,
     AtReport
<1>8. JoinsLaid'
  BY <1>1, <1>2, <1>3, <1>5 DEF JoinsLaid
<1>9. Related(plan.base)' = Related(plan.base)
  BY <1>1, <1>5 DEF Related
<1>10. Clauses'
  BY <1>1, <1>5, <1>9 DEF IInv, Clauses, AtRebase, AtReconcile, AtDrop, AtPrune
<1>11. BaseReaches'
  <2>1. Fixed(plan', intent') = Fixed(plan, intent)
    BY <1>1, <1>5 DEF Fixed
  <2> QED BY <1>1, <1>9, <2>1 DEF IInv, BaseReaches, AtReconcile, AtDrop, AtPrune
<1>12. ReachedIsJoined'
  <2>1. refs \intersect Related(plan.base) \subseteq Scope(plan)
    BY <1>1 DEF IInv, ReachedIsJoined, AtDrop, AtPrune, refs
  <2>2. Scope(plan) = {plan.base} \union Ends(plan.joins)
    BY <1>2, <1>4, ScopeIsEnds
  <2>3. Scope(plan') = {plan.base} \union Ends(joins)
    <3> DEFINE p == plan'
    <3>1. p.joins \in Laid(p.base, B) /\ p.base = plan.base /\ p.joins = joins
      BY <1>3, <1>4, <1>5
    <3> HIDE DEF p
    <3>2. Scope(p) = {p.base} \union Ends(p.joins)
      BY <3>1, ScopeIsEnds
    <3> QED BY <3>1, <3>2 DEF p
  <2> QED BY <1>3, <1>4, <1>6, <1>9, <2>1, <2>2, <2>3 DEF ReachedIsJoined
<1>13. NeededOnce'
  BY <1>3, <1>4, <1>5, <1>6 DEF NeededOnce
<1> QED BY <1>1, <1>7, <1>8, <1>10, <1>11, <1>12, <1>13 DEF IInv, RefusedIsOutOfScope

LEMMA ReportKeeps == IInv /\ Report => IInv'
<1> SUFFICES ASSUME IInv, Report PROVE IInv'
  OBVIOUS
<1>1. /\ pc = "report" /\ pc' = "compile" /\ plan' = [plan EXCEPT !.noted = FALSE]
      /\ dropped' = DroppedClauses(intent, plan)
      /\ UNCHANGED <<schema, intent, graph>>
  BY DEF Report, Goto
<1>2. plan \in Plan
  BY DEF IInv, TypeOK
<1>3. /\ plan' \in Plan /\ plan'.base = plan.base /\ plan'.joins = plan.joins
      /\ plan'.select = plan.select /\ plan'.group = plan.group /\ plan'.where = plan.where
      /\ plan'.order = plan.order /\ plan'.having = plan.having
  BY <1>1, <1>2 DEF Plan
<1>4. Referenced(plan') = Referenced(plan) /\ Scope(plan') = Scope(plan)
  <2>1. Referenced(plan') = Referenced(plan)
    BY <1>2, <1>3, NamesOfClauses
  <2>2. Scope(plan') = Scope(plan)
    BY <1>3 DEF Scope
  <2> QED BY <2>1, <2>2
<1>5. dropped' \subseteq {"aggregation", "grouping", "filter", "ordering"}
  BY <1>1 DEF DroppedClauses
<1>6. TypeOK' /\ GraphBuilt'
  BY <1>1, <1>3, <1>5 DEF IInv, TypeOK, GraphBuilt, Places, AtJoins, AtRebase, AtReconcile, AtDrop,
     AtPrune, AtReport
<1>7. JoinsLaid'
  BY <1>1, <1>3 DEF IInv, JoinsLaid, AtJoins, AtRebase, AtReconcile, AtDrop, AtPrune, AtReport
<1>8. Related(plan.base)' = Related(plan.base) /\ Fixed(plan', intent') = Fixed(plan, intent)
  BY <1>1, <1>3 DEF Related, Fixed
<1>9. Clauses'
  BY <1>1, <1>3, <1>8 DEF IInv, Clauses, AtRebase, AtReconcile, AtDrop, AtPrune, AtReport
<1>10. BaseReaches' /\ ReachedIsJoined'
  BY <1>1, <1>4, <1>8 DEF IInv, BaseReaches, ReachedIsJoined, AtReconcile, AtDrop, AtPrune, AtReport
<1>11. NeededOnce'
  BY <1>1, <1>3, <1>4 DEF IInv, NeededOnce, AtReport
<1> QED BY <1>1, <1>6, <1>7, <1>9, <1>10, <1>11 DEF IInv, RefusedIsOutOfScope

LEMMA CompileKeeps == IInv /\ Compile => IInv'
<1> SUFFICES ASSUME IInv, Compile PROVE IInv'
  OBVIOUS
<1>1. /\ pc = "compile" /\ pc' \in {"accepted", "refused"}
      /\ pc' = "refused" => ~(ToSet(Referenced(plan)) \subseteq Scope(plan))
      /\ UNCHANGED <<schema, intent, graph, plan, dropped>>
  BY DEF Compile, Goto
<1>2. TypeOK' /\ GraphBuilt' /\ JoinsLaid' /\ NeededOnce' /\ RefusedIsOutOfScope'
  BY <1>1 DEF IInv, TypeOK, GraphBuilt, JoinsLaid, NeededOnce, RefusedIsOutOfScope,
     Places, AtJoins, AtRebase, AtReconcile, AtDrop, AtPrune, AtReport
<1>3. Related(plan.base)' = Related(plan.base) /\ Fixed(plan', intent') = Fixed(plan, intent)
  BY <1>1 DEF Related, Fixed
<1>4. Clauses' /\ BaseReaches' /\ ReachedIsJoined'
  BY <1>1, <1>3 DEF IInv, Clauses, BaseReaches, ReachedIsJoined,
     AtRebase, AtReconcile, AtDrop, AtPrune, AtReport
<1> QED BY <1>2, <1>4 DEF IInv

LEMMA StutterKeeps == IInv /\ UNCHANGED vars => IInv'
<1> SUFFICES ASSUME IInv, UNCHANGED vars PROVE IInv'
  OBVIOUS
<1>1. UNCHANGED <<pc, schema, intent, graph, plan, dropped>>
  BY DEF vars
<1>2. Related(plan.base)' = Related(plan.base)
  BY <1>1 DEF Related
<1> QED BY <1>1, <1>2 DEF IInv, TypeOK, GraphBuilt, JoinsLaid, Clauses, BaseReaches, ReachedIsJoined,
        NeededOnce, RefusedIsOutOfScope

LEMMA InductiveStep == IInv /\ [Next]_vars => IInv'
  BY BuildGraphKeeps, SelectKeeps, JoinsKeeps, GroupKeeps, RebaseKeeps, ReconcileKeeps, DropKeeps,
     PruneKeeps, ReportKeeps, CompileKeeps, StutterKeeps DEF Next

\* Whatever a pass leaves behind is a plan whose joins are laid out of its base,
\* and whose clauses are the ones asked for until they are dropped
\* (query_planner.py, planner_utils.py).
THEOREM Inductive == Spec => []IInv
  BY InitEstablishes, InductiveStep, PTL DEF Spec

----------------------------------------------------------------------------
(* What follows from the invariant                                         *)

LEMMA LaidHops ==
  ASSUME NEW b, NEW B, NEW joins \in Laid(b, B), NEW k \in 1..Len(joins)
  PROVE  /\ joins[k] \in Hop /\ LeadsOut(B, joins[k])
         /\ joins[k].left \in {b} \union RightsTo(joins, k - 1)
<1>1. joins \in Seq(Hop) /\ InOrder(b, joins) /\ Outward(B, joins)
  BY DEF Laid
<1> QED BY <1>1 DEF InOrder, Outward, ToSet

\* No join leads back to the base.
LEMMA RightIsNotBase ==
  ASSUME NEW g, NEW b, NEW B \in Balls(g, b), NEW hop, LeadsOut(B, hop)
  PROVE  hop.right # b
<1>1. PICK n \in Nat : hop.right \in B[n + 1] \ B[n]
  BY DEF LeadsOut
<1> QED BY <1>1, BallsGrow

\* What the invariant says of a finished plan
LEMMA FinishedPlan ==
  ASSUME IInv, Finished
  PROVE  /\ schema \in Schema /\ graph \in Graph /\ plan \in Plan /\ plan.base \in Tables
         /\ graph = JoinGraph(schema) /\ Balls(graph, plan.base) # {}
         /\ \A B \in Balls(graph, plan.base) : plan.joins \in Laid(plan.base, B)
         /\ plan.joins \in Seq(Hop) /\ OneEach(plan.joins)
<1>1. /\ schema \in Schema /\ graph \in Graph /\ plan \in Plan /\ plan.base \in Tables
      /\ graph = JoinGraph(schema)
      /\ \A B \in Balls(graph, plan.base) : plan.joins \in Laid(plan.base, B)
      /\ OneEach(plan.joins)
  BY DEF IInv, Finished, TypeOK, GraphBuilt, JoinsLaid, NeededOnce, AtJoins, AtRebase, AtReconcile, AtDrop,
     AtPrune, AtReport
<1>2. Balls(graph, plan.base) # {}
  BY <1>1, BallsExist
<1>3. plan.joins \in Seq(Hop)
  BY <1>1 DEF Plan
<1> QED BY <1>1, <1>2, <1>3

\* The invariant implies the properties.
LEMMA InOrderFollows == IInv => JoinsStartInScope
<1> SUFFICES ASSUME IInv, NEW k \in DOMAIN plan.joins
             PROVE  plan.joins[k].left \in {plan.base} \union Rights(k - 1)
  BY DEF JoinsStartInScope
<1>1. plan.joins \in Seq(Hop)
  BY DEF IInv, TypeOK, Plan
<1>2. CASE pc \in {"graph", "select"}
  BY <1>2 DEF IInv, JoinsLaid
<1>3. CASE pc \notin {"graph", "select"}
  <2>1. plan.base \in Tables /\ \A B \in Balls(graph, plan.base) : plan.joins \in Laid(plan.base, B)
    BY <1>3 DEF IInv, TypeOK, JoinsLaid, Places
  <2>2. PICK B \in Balls(graph, plan.base) : TRUE
    BY <2>1, BallsExist DEF IInv, TypeOK
  <2>3. plan.joins[k].left \in {plan.base} \union RightsTo(plan.joins, k - 1)
    BY <1>1, <2>1, <2>2, LaidHops
  <2> QED BY <2>3 DEF RightsTo, Rights
<1> QED BY <1>2, <1>3

LEMMA OnceFollows == IInv => NoTableTwice
<1> SUFFICES ASSUME IInv, Finished
             PROVE  Cardinality({plan.base} \union Rights(Len(plan.joins))) = Len(plan.joins) + 1
  BY DEF NoTableTwice
<1> DEFINE n == Len(plan.joins)
           S == {plan.base} \union Rights(n)
           f == [k \in 1..(n + 1) |-> IF k = n + 1 THEN plan.base ELSE plan.joins[k].right]
<1>1. plan.joins \in Seq(Hop) /\ OneEach(plan.joins) /\ n \in Nat
  BY FinishedPlan
<1>2. PICK B \in Balls(graph, plan.base) : plan.joins \in Laid(plan.base, B)
  BY FinishedPlan
<1>3. \A k \in 1..n : plan.joins[k].right # plan.base
  BY <1>2, LaidHops, RightIsNotBase
<1> HIDE DEF n
<1>4. f \in [1..(n + 1) -> S]
  BY <1>1 DEF Rights
<1>5. \A i, k \in 1..(n + 1) : f[i] = f[k] => i = k
  <2> SUFFICES ASSUME NEW i \in 1..(n + 1), NEW k \in 1..(n + 1), f[i] = f[k] PROVE i = k
    OBVIOUS
  <2>1. \A j \in 1..(n + 1) : j = n + 1 \/ j \in 1..n
    BY <1>1
  <2> QED BY <1>1, <1>3, <2>1 DEF OneEach, n
<1>6. \A t \in S : \E k \in 1..(n + 1) : f[k] = t
  <2>1. n + 1 \in 1..(n + 1) /\ f[n + 1] = plan.base
    BY <1>1
  <2>2. \A k \in 1..n : k \in 1..(n + 1) /\ f[k] = plan.joins[k].right
    BY <1>1
  <2> QED BY <2>1, <2>2 DEF Rights
<1> HIDE DEF f, S
<1>7. f \in Bijection(1..(n + 1), S)
  BY <1>4, <1>5, <1>6 DEF Bijection, Injection, Surjection, IsInjective
<1>8. ExistsBijection(1..(n + 1), S)
  BY <1>7 DEF ExistsBijection
<1>9. Cardinality(S) = n + 1
  BY <1>1, <1>8, FS_CountingElements
<1> QED BY <1>9 DEF S, n

LEMMA NeededFollows == IInv => JoinsAreNeeded
<1> SUFFICES ASSUME IInv, Finished, NEW k \in DOMAIN plan.joins,
                    ~Contains(Referenced(plan), plan.joins[k].right)
             PROVE  \E j \in DOMAIN plan.joins : plan.joins[j].left = plan.joins[k].right
  BY DEF JoinsAreNeeded
<1>1. plan.joins \in Seq(Hop) /\ DOMAIN plan.joins = 1..Len(plan.joins) /\ plan \in Plan
  BY FinishedPlan
<1>2. PICK B \in Balls(graph, plan.base) : plan.joins \in Laid(plan.base, B)
  BY FinishedPlan
<1>3. plan.joins[k].right # plan.base
  BY <1>1, <1>2, LaidHops, RightIsNotBase
<1>4. plan.joins[k].right \notin ToSet(Referenced(plan))
  BY <1>1, ReferencedTables, SetOfSeq
<1>5. plan.joins[k].right \in ToSet(Referenced(plan)) \union {plan.base}
                              \union {h.left : h \in ToSet(plan.joins)}
  BY DEF IInv, NeededOnce, Finished, AtReport, ToSet
<1> QED BY <1>3, <1>4, <1>5 DEF ToSet

LEMMA RelatedFollows ==
  ASSUME IInv, Finished
  PROVE  /\ LET named == ToSet(Referenced(plan)) \union ToSet(intent.filters)
            IN  (\A t, u \in named : t \in Related(u)) => pc = "accepted"
         /\ \A t \in ToSet(intent.filters) : t \in Related(plan.base) => Contains(plan.where, t)
<1> DEFINE refs == ToSet(Referenced(plan))
           named == refs \union ToSet(intent.filters)
<1>1. /\ plan \in Plan /\ plan.where \in Seq(Tables)
      /\ plan.having \in {None} \union ToSet(plan.select)
      /\ ToSet(plan.where) \subseteq ToSet(intent.filters)
      /\ ToSet(intent.filters) \intersect Related(plan.base) \subseteq ToSet(plan.where)
  BY FinishedPlan DEF IInv, Clauses, Finished, Plan, AtRebase, AtReconcile, AtDrop, AtPrune, AtReport
<1>2. named = Fixed(plan, intent)
  <2>1. refs = ToSet(plan.select) \union ToSet(plan.where)
               \union ({plan.group, plan.order, plan.having} \ {None})
    BY <1>1, ReferencedTables
  <2> HIDE DEF refs
  <2> QED BY <1>1, <2>1 DEF Fixed
<1>3. ASSUME \A t, u \in named : t \in Related(u), pc = "refused" PROVE FALSE
  <2>1. Mutual(schema, Fixed(plan, intent))
    BY <1>2, <1>3 DEF Mutual, Related, Reach
  <2>2. refs \subseteq Related(plan.base)
    BY <1>2, <1>3, <2>1 DEF IInv, BaseReaches, AtReconcile, AtDrop, AtPrune, AtReport
  <2>3. refs \subseteq Scope(plan)
    BY <1>3, <2>2 DEF IInv, ReachedIsJoined, AtDrop, AtPrune, AtReport
  <2> QED BY <1>3, <2>3 DEF IInv, RefusedIsOutOfScope
<1>4. \A t \in ToSet(intent.filters) : t \in Related(plan.base) => Contains(plan.where, t)
  BY <1>1, SetOfSeq
<1> HIDE DEF refs
<1> QED BY <1>3, <1>4 DEF Finished, refs

(* Number k of the joins leads out of ball m.                              *)
LeavesAt(B, joins, k, m) ==
    m \in Nat /\ joins[k].left \in B[m] /\ joins[k].right \in B[m + 1] /\ joins[k].right \notin B[m]

\* A hop leaves the ball its left table was joined in.
LEMMA LeavesOnce ==
  ASSUME NEW g, NEW b, NEW B \in Balls(g, b), NEW joins \in Laid(b, B), NEW k \in 1..Len(joins)
  PROVE  /\ \E m : LeavesAt(B, joins, k, m)
         /\ joins[k].left = b => LeavesAt(B, joins, k, 0)
         /\ \A j \in 1..Len(joins) : \A m :
               joins[j].right = joins[k].left /\ LeavesAt(B, joins, j, m)
                 => LeavesAt(B, joins, k, m + 1)
<1>1. Adjoins(B, joins[k]) /\ \E m \in Nat : LeavesAt(B, joins, k, m)
  BY LaidHops DEF LeadsOut, LeavesAt
<1>2. PICK m \in Nat : LeavesAt(B, joins, k, m)
  BY <1>1
<1>3. \A i, j \in Nat : i <= j => B[i] \subseteq B[j]
  BY BallsGrow
<1>4. ASSUME joins[k].left = b PROVE LeavesAt(B, joins, k, 0)
  <2>1. joins[k].left \in B[0]
    BY <1>4 DEF Balls
  <2>2. joins[k].right \in B[0 + 1]
    BY <1>1, <2>1 DEF Adjoins
  <2>3. ~(0 + 1 <= m)
    BY <1>2, <1>3, <2>2 DEF LeavesAt
  <2>4. m = 0
    BY <2>3
  <2> QED BY <1>2, <2>4
<1>5. ASSUME NEW j \in 1..Len(joins), NEW i,
             joins[j].right = joins[k].left, LeavesAt(B, joins, j, i)
      PROVE  LeavesAt(B, joins, k, i + 1)
  <2>1. i \in Nat /\ joins[k].left \in B[i + 1] /\ joins[k].left \notin B[i]
    BY <1>5 DEF LeavesAt
  <2>2. joins[k].right \in B[(i + 1) + 1]
    BY <1>1, <2>1 DEF Adjoins
  <2>3. ~((i + 1) + 1 <= m)
    BY <1>2, <1>3, <2>1, <2>2 DEF LeavesAt
  <2>4. ~(m <= i)
    BY <1>2, <1>3, <2>1 DEF LeavesAt
  <2>5. m = i + 1
    BY <2>1, <2>3, <2>4
  <2> QED BY <1>2, <2>5
<1> QED BY <1>1, <1>4, <1>5

\* Depth along the joins of a plan is distance in the graph.
LEMMA DepthIsDistance ==
  ASSUME NEW g, NEW b, NEW B \in Balls(g, b), NEW joins \in Laid(b, B)
  PROVE  LET depth[k \in DOMAIN joins] ==
               IF joins[k].left = b THEN 1
               ELSE 1 + depth[CHOOSE j \in 1..(k - 1) : joins[j].right = joins[k].left]
         IN  \A k \in DOMAIN joins : LeavesAt(B, joins, k, depth[k] - 1) /\ depth[k] \in Nat
<1> DEFINE n == Len(joins)
           Up(k) == CHOOSE j \in 1..(k - 1) : joins[j].right = joins[k].left
           depth == CHOOSE f : f = [k \in DOMAIN joins |->
                                      IF joins[k].left = b THEN 1 ELSE 1 + f[Up(k)]]
           lv(k) == CHOOSE m : LeavesAt(B, joins, k, m)
           d == [k \in DOMAIN joins |-> lv(k) + 1]
<1>1. joins \in Seq(Hop) /\ n \in Nat /\ DOMAIN joins = 1..n
  BY DEF Laid
<1>2. ASSUME NEW k \in 1..n, joins[k].left # b
      PROVE  Up(k) \in 1..(k - 1) /\ joins[Up(k)].right = joins[k].left /\ Up(k) \in 1..n
  <2>1. joins[k].left \in RightsTo(joins, k - 1)
    BY <1>2, LaidHops
  <2>2. \E j \in 1..(k - 1) : joins[j].right = joins[k].left
    BY <2>1 DEF RightsTo
  <2>3. Up(k) \in 1..(k - 1) /\ joins[Up(k)].right = joins[k].left
    BY <2>2
  <2> HIDE DEF Up, n
  <2> QED BY <1>1, <2>3
<1>3. \A k \in 1..n : \A l, m : LeavesAt(B, joins, k, l) /\ LeavesAt(B, joins, k, m) => l = m
  <2> TAKE k \in 1..n
  <2> TAKE l, m
  <2> SUFFICES ASSUME LeavesAt(B, joins, k, l), LeavesAt(B, joins, k, m) PROVE l = m
    OBVIOUS
  <2>1. l \in Nat /\ m \in Nat
    BY DEF LeavesAt
  <2>2. ~(l + 1 <= m) /\ ~(m + 1 <= l)
    BY <2>1, BallsGrow DEF LeavesAt
  <2> QED BY <2>1, <2>2
<1>4. \A k \in 1..n : LeavesAt(B, joins, k, lv(k)) /\ lv(k) \in Nat
  <2> TAKE k \in 1..n
  <2>1. \E m : LeavesAt(B, joins, k, m)
    BY LeavesOnce
  <2>2. LeavesAt(B, joins, k, lv(k))
    BY <2>1
  <2> HIDE DEF lv
  <2> QED BY <2>2 DEF LeavesAt
<1> HIDE DEF lv, Up
<1>5. ASSUME NEW k \in 1..n
      PROVE  lv(k) + 1 = IF joins[k].left = b THEN 1 ELSE 1 + (lv(Up(k)) + 1)
  <2>1. CASE joins[k].left = b
    <3>1. LeavesAt(B, joins, k, 0)
      BY <2>1, LeavesOnce
    <3>2. lv(k) = 0
      BY <1>3, <1>4, <3>1
    <3> QED BY <2>1, <3>2
  <2>2. CASE joins[k].left # b
    <3>1. Up(k) \in 1..n /\ joins[Up(k)].right = joins[k].left
      BY <1>2, <2>2
    <3>2. LeavesAt(B, joins, Up(k), lv(Up(k))) /\ lv(Up(k)) \in Nat
      BY <1>4, <3>1
    <3>3. LeavesAt(B, joins, k, lv(Up(k)) + 1)
      BY <3>1, <3>2, LeavesOnce
    <3>4. lv(k) = lv(Up(k)) + 1
      BY <1>3, <1>4, <3>3
    <3> QED BY <2>2, <3>2, <3>4
  <2> QED BY <2>1, <2>2
<1>6. d = [k \in DOMAIN joins |-> IF joins[k].left = b THEN 1 ELSE 1 + d[Up(k)]]
  <2> SUFFICES ASSUME NEW k \in 1..n
               PROVE  lv(k) + 1 = IF joins[k].left = b THEN 1 ELSE 1 + d[Up(k)]
    BY <1>1
  <2>1. joins[k].left # b => d[Up(k)] = lv(Up(k)) + 1
    BY <1>1, <1>2
  <2> QED BY <1>5, <2>1
<1> HIDE DEF d
<1>7. depth = [k \in DOMAIN joins |-> IF joins[k].left = b THEN 1 ELSE 1 + depth[Up(k)]]
  BY <1>6
<1> HIDE DEF depth
<1>8. \A k \in 1..n : depth[k] = IF joins[k].left = b THEN 1 ELSE 1 + depth[Up(k)]
  BY <1>1, <1>7
<1> DEFINE T == {k \in Nat : \A i \in 1..n : i <= k => depth[i] = lv(i) + 1}
<1>9. T = Nat
  <2>1. 0 \in T
    BY <1>1
  <2>2. ASSUME NEW k \in T PROVE k + 1 \in T
    <3> SUFFICES ASSUME NEW i \in 1..n, i <= k + 1 PROVE depth[i] = lv(i) + 1
      OBVIOUS
    <3>1. CASE i <= k
      BY <3>1
    <3>2. CASE i = k + 1
      <4>1. CASE joins[i].left = b
        BY <1>5, <1>8, <4>1
      <4>2. CASE joins[i].left # b
        <5>1. Up(i) \in 1..(i - 1) /\ Up(i) \in 1..n
          BY <1>2, <4>2
        <5>2. Up(i) <= k
          BY <1>1, <3>2, <5>1
        <5>3. depth[Up(i)] = lv(Up(i)) + 1
          BY <5>1, <5>2
        <5> QED BY <1>5, <1>8, <4>2, <5>3
      <4> QED BY <4>1, <4>2
    <3>3. i <= k \/ i = k + 1
      BY <1>1
    <3> QED BY <3>1, <3>2, <3>3
  <2> HIDE DEF T
  <2>3. T \in SUBSET Nat
    BY DEF T
  <2> QED BY <2>1, <2>2, <2>3, Climb
<1>10. \A k \in 1..n : depth[k] = lv(k) + 1
  BY <1>1, <1>9
<1>11. \A k \in 1..n : LeavesAt(B, joins, k, depth[k] - 1) /\ depth[k] \in Nat
  <2> TAKE k \in 1..n
  <2>1. depth[k] = lv(k) + 1 /\ lv(k) \in Nat /\ LeavesAt(B, joins, k, lv(k))
    BY <1>4, <1>10
  <2>2. depth[k] - 1 = lv(k) /\ depth[k] \in Nat
    BY <2>1
  <2> QED BY <2>1, <2>2
<1> QED BY <1>1, <1>11 DEF depth, Up

LEMMA ShortestFollows == IInv => JoinsAreShortest
<1> DEFINE joins == plan.joins
           depth == CHOOSE f : f = [k \in DOMAIN joins |->
                      IF joins[k].left = plan.base THEN 1
                      ELSE 1 + f[CHOOSE j \in 1..(k - 1) : joins[j].right = joins[k].left]]
<1> SUFFICES ASSUME IInv, Finished, NEW k \in DOMAIN joins
             PROVE  joins[k].right \notin Ball(schema, plan.base, depth[k] - 1)
  BY DEF JoinsAreShortest
<1>1. schema \in Schema /\ plan.base \in Tables /\ graph = JoinGraph(schema)
  BY FinishedPlan
<1>2. PICK B \in Balls(graph, plan.base) : joins \in Laid(plan.base, B)
  BY FinishedPlan
<1> DEFINE b == plan.base
<1> HIDE DEF joins
<1>3. LeavesAt(B, joins, k, depth[k] - 1)
  BY <1>2, DepthIsDistance
<1> HIDE DEF depth
<1>4. depth[k] - 1 \in Nat /\ joins[k].right \notin B[depth[k] - 1]
  BY <1>3 DEF LeavesAt
<1>5. Ball(schema, plan.base, depth[k] - 1) = B[depth[k] - 1]
  BY <1>1, <1>2, <1>4, BallIsBall
<1> QED BY <1>4, <1>5

----------------------------------------------------------------------------
(* Joins use the relations of the schema                                   *)

\* The invariant rule of Loop where the invariant does not count the turns
LEMMA LoopKeeps ==
  ASSUME NEW A, NEW E, NEW S \in SUBSET A, NEW x \in S, NEW body \in [E -> [A -> A]], NEW seq \in Seq(E),
         \A k \in 1..Len(seq) : \A a \in S : body[seq[k]][a] \in S
  PROVE  Loop(body, x, seq) \in S
<1> DEFINE G == [k \in 0..Len(seq) |-> S]
<1>1. Len(seq) \in Nat /\ \A k \in 1..Len(seq) : k \in 0..Len(seq) /\ k - 1 \in 0..Len(seq)
  OBVIOUS
<1>2. /\ G \in [0..Len(seq) -> SUBSET A] /\ \A k \in 0..Len(seq) : G[k] = S
      /\ 0 \in 0..Len(seq) /\ Len(seq) \in 0..Len(seq)
  BY <1>1
<1> HIDE DEF G
<1>3. Preserved(body, seq, G)
  BY <1>1, <1>2 DEF Preserved
<1>4. x \in G[0]
  BY <1>2
<1>5. Loop(body, x, seq) \in G[Len(seq)]
  BY <1>2, <1>3, <1>4, Looping
<1> QED BY <1>2, <1>5

(* The hops along an edge of g, with a role of that edge                   *)
EdgeHop(g) ==
    {hop \in Hop : \E e \in ToSet(g[hop.left]) : e.to = hop.right /\ hop.role \in ToSet(e.roles)}
EdgeWalk(g) == {walk \in Walk : walk.path \in Seq(EdgeHop(g))}
EdgeSearch(g) == {s \in Search : s.next \in Seq(EdgeWalk(g)) /\ s.path \in Seq(EdgeHop(g))}

LEMMA EdgesWithin ==
  ASSUME NEW g
  PROVE  /\ EdgeHop(g) \subseteq Hop /\ Seq(EdgeHop(g)) \subseteq Seq(Hop)
         /\ EdgeWalk(g) \subseteq Walk /\ Seq(EdgeWalk(g)) \subseteq Seq(Walk)
         /\ EdgeSearch(g) \subseteq Search
<1>1. EdgeHop(g) \subseteq Hop
  BY DEF EdgeHop
<1>2. EdgeWalk(g) \subseteq Walk
  BY DEF EdgeWalk
<1>3. EdgeSearch(g) \subseteq Search
  BY DEF EdgeSearch
<1>4. \A S, T : S \subseteq T => Seq(S) \subseteq Seq(T)
  OBVIOUS
<1> QED BY <1>1, <1>2, <1>3, <1>4

\* Onward goes along edges.
LEMMA OnwardOnEdges ==
  ASSUME NEW g \in Graph, NEW visited, NEW walk \in EdgeWalk(g)
  PROVE  Onward(g, visited, walk) \in Seq(EdgeWalk(g))
<1> DEFINE edges == g[walk.at]
           NewHop(e) == [left |-> walk.at, right |-> e.to, role |-> e.roles[1]]
           New(e) == [at |-> e.to, path |-> Append(walk.path, NewHop(e))]
           Push == [e \in Edge |-> [next \in Seq(Walk) |->
                      IF e.to \in visited THEN next ELSE Append(next, New(e))]]
<1>d. Onward(g, visited, walk) = Loop(Push, <<>>, edges)
  BY DEF Onward
<1>1. walk \in Walk /\ walk.at \in Tables /\ walk.path \in Seq(EdgeHop(g)) /\ walk.path \in Seq(Hop)
  BY DEF EdgeWalk, Walk
<1>2. edges \in Seq(Edge)
  BY <1>1 DEF Graph
<1>3. \A e \in Edge : e.to \in Tables /\ e.roles[1] \in STRING /\ e.roles[1] \in ToSet(e.roles)
  <2> TAKE e \in Edge
  <2>1. e.to \in Tables /\ e.roles \in Seq(STRING) /\ e.roles # <<>>
    BY DEF Edge
  <2>2. 1 \in DOMAIN e.roles
    BY <2>1
  <2> QED BY <2>1, <2>2 DEF ToSet
<1>4. \A e \in Edge : New(e) \in Walk
  <2> TAKE e \in Edge
  <2>1. NewHop(e) \in Hop
    BY <1>1, <1>3 DEF Hop
  <2> HIDE DEF NewHop
  <2> QED BY <1>1, <1>3, <2>1 DEF Walk
<1>5. \A e \in ToSet(edges) : New(e) \in EdgeWalk(g)
  <2> TAKE e \in ToSet(edges)
  <2>1. e \in Edge
    BY <1>2 DEF ToSet
  <2>2. NewHop(e) \in EdgeHop(g)
    <3> DEFINE hop == NewHop(e)
    <3>1. hop \in Hop /\ hop.left = walk.at /\ hop.right = e.to /\ hop.role = e.roles[1]
      BY <1>1, <1>3, <2>1 DEF Hop
    <3> HIDE DEF hop
    <3>2. hop \in EdgeHop(g)
      BY <1>3, <2>1, <3>1 DEF EdgeHop
    <3> QED BY <3>2 DEF hop
  <2> HIDE DEF NewHop, edges
  <2>3. Append(walk.path, NewHop(e)) \in Seq(EdgeHop(g))
    BY <1>1, <2>2
  <2> QED BY <1>4, <2>1, <2>3 DEF EdgeWalk
<1> HIDE DEF New
<1>6. /\ Push \in [Edge -> [Seq(Walk) -> Seq(Walk)]]
      /\ \A e \in Edge, next \in Seq(Walk) :
            Push[e][next] = IF e.to \in visited THEN next ELSE Append(next, New(e))
  BY <1>4
<1> HIDE DEF Push, edges
<1> DEFINE S == Seq(EdgeWalk(g))
<1>7. S \in SUBSET Seq(Walk)
  BY EdgesWithin
<1>8. ASSUME NEW k \in 1..Len(edges), NEW next \in S PROVE Push[edges[k]][next] \in S
  <2>1. edges[k] \in Edge /\ edges[k] \in ToSet(edges)
    BY <1>2 DEF ToSet
  <2>2. Push[edges[k]][next] \in {next, Append(next, New(edges[k]))}
    BY <1>6, <1>7, <2>1
  <2>3. Append(next, New(edges[k])) \in S
    BY <1>5, <2>1
  <2> QED BY <2>2, <2>3
<1>9. <<>> \in S
  OBVIOUS
<1> HIDE DEF S
<1>10. Loop(Push, <<>>, edges) \in S
  BY <1>2, <1>6, <1>7, <1>8, <1>9, LoopKeeps
<1> QED BY <1>d, <1>10 DEF S

\* So does a visit,
LEMMA VisitOnEdges ==
  ASSUME NEW g \in Graph, NEW target, NEW walk \in EdgeWalk(g), NEW s \in EdgeSearch(g)
  PROVE  Visit(g, target)[walk][s] \in EdgeSearch(g)
<1> DEFINE t == Visit(g, target)[walk][s]
<1>1. walk \in Walk /\ s \in Search
  BY EdgesWithin
<1>2. walk.path \in Seq(EdgeHop(g)) /\ s.next \in Seq(EdgeWalk(g)) /\ s.path \in Seq(EdgeHop(g))
  BY DEF EdgeWalk, EdgeSearch
<1>3. t = Visited(g, target, walk, s) /\ t \in Search
  <2>1. Visit(g, target) \in [Walk -> [Search -> Search]]
    BY VisitTyped
  <2> QED BY <1>1, <2>1, VisitValue
<1> HIDE DEF t
<1>4. CASE s.done
  <2>1. t = s
    BY <1>3, <1>4 DEF Visited
  <2> QED BY <2>1 DEF t
<1>5. CASE ~s.done /\ walk.at = target
  <2>1. t = [s EXCEPT !.done = TRUE, !.path = walk.path]
    BY <1>3, <1>5 DEF Visited
  <2>2. t.next = s.next /\ t.path = walk.path
    BY <1>1, <2>1 DEF Search
  <2> QED BY <1>2, <1>3, <2>2 DEF EdgeSearch, t
<1>6. CASE ~s.done /\ walk.at # target
  <2> DEFINE seen == s.visited \union {walk.at}
             more == Onward(g, seen, walk)
             next == s.next \o more
  <2>1. t = [s EXCEPT !.visited = seen, !.next = next]
    BY <1>3, <1>6 DEF Visited
  <2>2. more \in Seq(EdgeWalk(g))
    BY OnwardOnEdges
  <2> HIDE DEF more
  <2>3. next \in Seq(EdgeWalk(g))
    BY <1>2, <2>2
  <2> HIDE DEF next, seen
  <2>4. t.next = next /\ t.path = s.path
    BY <1>1, <2>1 DEF Search
  <2> QED BY <1>2, <1>3, <2>3, <2>4 DEF EdgeSearch, t
<1> QED BY <1>4, <1>5, <1>6

\* a turn,
LEMMA TurnOnEdges ==
  ASSUME NEW g \in Graph, NEW target, NEW s \in EdgeSearch(g)
  PROVE  TakeTurn(g, target, s) \in EdgeSearch(g)
<1> DEFINE seq == s.next
           x == [s EXCEPT !.next = <<>>]
           body == Visit(g, target)
           S == EdgeSearch(g)
<1>1. /\ s \in Search /\ seq \in Seq(Walk) /\ seq \in Seq(EdgeWalk(g)) /\ s.path \in Seq(EdgeHop(g))
      /\ S \in SUBSET Search
  BY EdgesWithin DEF EdgeSearch
<1>2. x \in S
  <2>1. x \in Search
    BY <1>1, NextEmptied
  <2>2. x.next = <<>> /\ x.path = s.path /\ <<>> \in Seq(EdgeWalk(g))
    BY <1>1 DEF Search
  <2> HIDE DEF x
  <2> QED BY <1>1, <2>1, <2>2 DEF EdgeSearch
<1>3. body \in [Walk -> [Search -> Search]]
  BY VisitTyped
<1>4. ASSUME NEW k \in 1..Len(seq), NEW a \in S PROVE body[seq[k]][a] \in S
  <2>1. seq[k] \in EdgeWalk(g)
    BY <1>1
  <2> QED BY <2>1, VisitOnEdges
<1>d. TakeTurn(g, target, s) = Loop(body, x, seq)
  BY DEF TakeTurn
<1> HIDE DEF seq, x, body, S
<1>5. Loop(body, x, seq) \in S
  BY <1>1, <1>2, <1>3, <1>4, LoopKeeps
<1> QED BY <1>5, <1>d DEF S

\* and find_join_path: its path takes edges of the graph.
LEMMA PathOnEdges ==
  ASSUME NEW g \in Graph, NEW start \in Tables, NEW target
  PROVE  FindJoinPath(g, start, target) \in Seq(EdgeHop(g))
<1>1. PICK f \in [Nat -> Search] :
         /\ f[0] = AtStart(start) /\ \A n \in Nat : f[n + 1] = TakeTurn(g, target, f[n])
         /\ FindJoinPath(g, start, target) = f[Reach + 1].path
  BY TurnsTaken
<1> DEFINE T == {n \in Nat : f[n] \in EdgeSearch(g)}
<1>2. 0 \in T
  <2> DEFINE w == [at |-> start, path |-> <<>>]
             x == AtStart(start)
  <2>1. <<>> \in Seq(Hop) /\ <<>> \in Seq(EdgeHop(g))
    OBVIOUS
  <2>2. w \in EdgeWalk(g)
    <3>1. w \in Walk /\ w.path = <<>>
      BY <2>1 DEF Walk
    <3> HIDE DEF w
    <3> QED BY <2>1, <3>1 DEF EdgeWalk
  <2>3. x.next = <<w>> /\ x.path = <<>>
    BY DEF AtStart
  <2> HIDE DEF w, x
  <2>4. <<w>> \in Seq(EdgeWalk(g))
    BY <2>2
  <2>5. x \in Search
    BY <1>1 DEF x
  <2>6. x \in EdgeSearch(g)
    BY <2>1, <2>3, <2>4, <2>5 DEF EdgeSearch
  <2> QED BY <1>1, <2>6 DEF x
<1>3. ASSUME NEW n \in T PROVE n + 1 \in T
  BY <1>1, TurnOnEdges
<1>4. T \in SUBSET Nat
  OBVIOUS
<1> HIDE DEF T
<1>5. T = Nat
  BY <1>2, <1>3, <1>4, Climb
<1>6. f[Reach + 1] \in EdgeSearch(g)
  <2>1. Reach + 1 \in T
    BY <1>5, ReachIsNat
  <2> QED BY <2>1 DEF T
<1> QED BY <1>1, <1>6 DEF EdgeSearch

LEMMA ResolvesOnEdges ==
  ASSUME NEW g \in Graph, NEW base \in Tables, NEW targets \in Seq(Tables)
  PROVE  ResolveJoins(g, base, targets) \in Seq(EdgeHop(g))
<1> DEFINE AddPath == [t \in Tables |-> [joins \in Seq(Hop) |-> joins \o FindJoinPath(g, base, t)]]
           S == Seq(EdgeHop(g))
<1>d. ResolveJoins(g, base, targets) = Loop(AddPath, <<>>, targets)
  BY DEF ResolveJoins
<1>1. S \in SUBSET Seq(Hop) /\ <<>> \in S
  BY EdgesWithin
<1>2. \A t \in Tables : FindJoinPath(g, base, t) \in S
  BY PathOnEdges
<1>3. \A a, b \in S : a \o b \in S
  OBVIOUS
<1>4. \A a, b \in Seq(Hop) : a \o b \in Seq(Hop)
  OBVIOUS
<1> HIDE DEF S
<1>5. /\ AddPath \in [Tables -> [Seq(Hop) -> Seq(Hop)]]
      /\ \A t \in Tables, joins \in Seq(Hop) : AddPath[t][joins] = joins \o FindJoinPath(g, base, t)
  BY <1>1, <1>2, <1>4
<1> HIDE DEF AddPath
<1>6. \A k \in 1..Len(targets) : \A joins \in S : AddPath[targets[k]][joins] \in S
  <2> TAKE k \in 1..Len(targets)
  <2> TAKE joins \in S
  <2>1. targets[k] \in Tables
    OBVIOUS
  <2> QED BY <1>1, <1>2, <1>3, <1>5, <2>1
<1>7. Loop(AddPath, <<>>, targets) \in S
  BY <1>1, <1>5, <1>6, LoopKeeps
<1> QED BY <1>d, <1>7 DEF S

\* A role is chosen among those of the edge.
LEMMA RolesOnEdges ==
  ASSUME NEW g \in Graph, NEW s, NEW joins \in Seq(EdgeHop(g)), NEW asked \in STRING
  PROVE  WithRoles(g, s, joins, asked) \in Seq(EdgeHop(g))
<1> DEFINE named == WithRoles(g, s, joins, asked)
<1>1. ASSUME NEW hop \in EdgeHop(g)
      PROVE  [hop EXCEPT !.role = Role(g, s, hop, asked)] \in EdgeHop(g)
  <2> DEFINE edges == g[hop.left]
             edge == edges[CHOOSE k \in DOMAIN edges : edges[k].to = hop.right]
             r == Role(g, s, hop, asked)
             new == [hop EXCEPT !.role = r]
  <2>1. hop \in Hop /\ hop.left \in Tables /\ edges \in Seq(Edge)
    BY DEF EdgeHop, Hop, Graph
  <2>2. \E k \in DOMAIN edges : edges[k].to = hop.right
    BY DEF EdgeHop, ToSet
  <2>3. edge \in ToSet(edges) /\ edge.to = hop.right
    BY <2>2 DEF ToSet
  <2>4. edge \in Edge /\ edge.roles \in Seq(STRING)
    <3>1. edge \in Edge
      BY <2>1, <2>3 DEF ToSet
    <3> QED BY <3>1 DEF Edge
  <2>5. r = hop.role \/ (r = asked /\ Contains(edge.roles, asked))
    BY DEF Role
  <2> HIDE DEF edge, r
  <2>6. r = asked /\ Contains(edge.roles, asked) => r \in ToSet(edge.roles)
    BY <2>4, SetOfSeq
  <2>7. r \in STRING
    BY <2>1, <2>5 DEF Hop
  <2>8. new \in Hop /\ new.left = hop.left /\ new.right = hop.right /\ new.role = r
    BY <2>1, <2>7 DEF Hop
  <2> HIDE DEF new
  <2>9. \E e \in ToSet(edges) : e.to = hop.right /\ r \in ToSet(e.roles)
    <3>1. CASE r = hop.role
      BY <3>1 DEF EdgeHop
    <3>2. CASE r = asked /\ Contains(edge.roles, asked)
      BY <2>3, <2>6, <3>2
    <3> QED BY <2>5, <3>1, <3>2
  <2>10. new \in EdgeHop(g)
    BY <2>8, <2>9 DEF EdgeHop
  <2> QED BY <2>10 DEF new, r
<1>2. DOMAIN joins = 1..Len(joins) /\ Len(joins) \in Nat /\ \A k \in 1..Len(joins) : joins[k] \in EdgeHop(g)
  OBVIOUS
<1>3. named = [k \in 1..Len(joins) |-> [joins[k] EXCEPT !.role = Role(g, s, joins[k], asked)]]
  BY <1>2 DEF WithRoles
<1>4. \A k \in 1..Len(joins) : [joins[k] EXCEPT !.role = Role(g, s, joins[k], asked)] \in EdgeHop(g)
  BY <1>1, <1>2
<1> QED BY <1>2, <1>3, <1>4

LEMMA ReconcilesOnEdges ==
  ASSUME NEW g \in Graph, NEW p \in Plan, p.base \in Tables, p.joins \in Seq(EdgeHop(g))
  PROVE  Reconciled(p, g).joins \in Seq(EdgeHop(g))
<1> DEFINE missing == Only(Referenced(p), Tables \ Scope(p))
           more == ResolveJoins(g, p.base, missing)
           AddHop == [hop \in Hop |-> [joins \in Seq(Hop) |->
                        IF hop.right \in Scope([p EXCEPT !.joins = joins]) THEN joins
                        ELSE Append(joins, hop)]]
           joined == Loop(AddHop, p.joins, more)
           S == Seq(EdgeHop(g))
<1>d. Reconciled(p, g).joins = joined
  BY DEF Reconciled, Plan
<1>1. missing \in Seq(Tables)
  <2>1. Referenced(p) \in Seq(Tables)
    BY ReferencedTables
  <2> DEFINE outside == Tables \ Scope(p)
  <2> HIDE DEF outside
  <2>2. Only(Referenced(p), outside) \in Seq(Tables)
    BY <2>1, OnlyKeeps
  <2> QED BY <2>2 DEF outside
<1> HIDE DEF missing
<1>2. more \in S
  BY <1>1, ResolvesOnEdges
<1> HIDE DEF more
<1>3. S \in SUBSET Seq(Hop) /\ more \in Seq(Hop) /\ p.joins \in S
  BY <1>2, EdgesWithin
<1>4. /\ AddHop \in [Hop -> [Seq(Hop) -> Seq(Hop)]]
      /\ \A hop \in Hop, joins \in Seq(Hop) : AddHop[hop][joins] \in {joins, Append(joins, hop)}
  OBVIOUS
<1> HIDE DEF AddHop
<1>5. \A k \in 1..Len(more) : \A joins \in S : AddHop[more[k]][joins] \in S
  <2> TAKE k \in 1..Len(more)
  <2> TAKE joins \in S
  <2>1. more[k] \in EdgeHop(g) /\ more[k] \in Hop
    BY <1>2, <1>3
  <2>2. Append(joins, more[k]) \in S
    BY <2>1
  <2> HIDE DEF S
  <2>3. AddHop[more[k]][joins] \in {joins, Append(joins, more[k])}
    BY <1>3, <1>4, <2>1
  <2> QED BY <2>2, <2>3
<1> HIDE DEF S
<1>6. joined \in S
  BY <1>3, <1>4, <1>5, LoopKeeps
<1> QED BY <1>d, <1>6 DEF S

LEMMA DedupesOnEdges ==
  ASSUME NEW g, NEW joins \in Seq(EdgeHop(g))
  PROVE  Dedupe(joins) \in Seq(EdgeHop(g))
<1> DEFINE AddNew == [j \in Hop |-> [acc \in Seq(Hop) |->
                        IF \E k \in DOMAIN acc : acc[k].right = j.right THEN acc
                        ELSE Append(acc, j)]]
           S == Seq(EdgeHop(g))
<1>d. Dedupe(joins) = Loop(AddNew, <<>>, joins)
  BY DEF Dedupe
<1>3. S \in SUBSET Seq(Hop) /\ joins \in Seq(Hop) /\ <<>> \in S
  BY EdgesWithin
<1>4. /\ AddNew \in [Hop -> [Seq(Hop) -> Seq(Hop)]]
      /\ \A hop \in Hop, acc \in Seq(Hop) : AddNew[hop][acc] \in {acc, Append(acc, hop)}
  OBVIOUS
<1> HIDE DEF AddNew
<1>5. \A k \in 1..Len(joins) : \A acc \in S : AddNew[joins[k]][acc] \in S
  <2> TAKE k \in 1..Len(joins)
  <2> TAKE acc \in S
  <2>1. joins[k] \in EdgeHop(g) /\ joins[k] \in Hop
    BY <1>3
  <2>2. Append(acc, joins[k]) \in S
    BY <2>1
  <2> HIDE DEF S
  <2>3. AddNew[joins[k]][acc] \in {acc, Append(acc, joins[k])}
    BY <1>3, <1>4, <2>1
  <2> QED BY <2>2, <2>3
<1> HIDE DEF S
<1>6. Loop(AddNew, <<>>, joins) \in S
  BY <1>3, <1>4, <1>5, LoopKeeps
<1> QED BY <1>d, <1>6 DEF S

LEMMA PrunesOnEdges ==
  ASSUME NEW g, NEW p \in Plan, p.base \in Tables, NEW joins \in Seq(EdgeHop(g))
  PROVE  Pruned(p, joins) \in Seq(EdgeHop(g))
<1> DEFINE n == Len(joins)
           seq == Reverse(joins)
           A == [need : SUBSET Tables, kept : Seq(Hop)]
           S == {acc \in A : acc.kept \in Seq(EdgeHop(g))}
           Longer1(j, acc) == [need |-> acc.need \union {j.left}, kept |-> <<j>> \o acc.kept]
           Keep == [j \in Hop |-> [acc \in A |-> IF j.right \in acc.need THEN Longer1(j, acc) ELSE acc]]
           x == [need |-> ToSet(Referenced(p)) \union {p.base}, kept |-> <<>>]
<1>d. Pruned(p, joins) = Loop(Keep, x, seq).kept
  BY DEF Pruned
<1>1. n \in Nat /\ seq \in Seq(EdgeHop(g)) /\ seq \in Seq(Hop)
  <2>1. n \in Nat /\ joins \in Seq(Hop)
    BY EdgesWithin
  <2> QED BY <2>1 DEF Reverse
<1>2. ASSUME NEW j \in Hop, NEW acc \in A
      PROVE  /\ Longer1(j, acc) \in A
             /\ j \in EdgeHop(g) /\ acc \in S => Longer1(j, acc) \in S
  <2>1. acc.need \union {j.left} \in SUBSET Tables
    BY DEF Hop
  <2>2. <<j>> \o acc.kept \in Seq(Hop)
    OBVIOUS
  <2>3. j \in EdgeHop(g) /\ acc \in S => <<j>> \o acc.kept \in Seq(EdgeHop(g))
    OBVIOUS
  <2> QED BY <2>1, <2>2, <2>3
<1>3. x \in S
  <2>1. Referenced(p) \in Seq(Tables)
    BY ReferencedTables
  <2>2. ToSet(Referenced(p)) \union {p.base} \in SUBSET Tables
    BY <2>1 DEF ToSet
  <2>3. <<>> \in Seq(Hop) /\ <<>> \in Seq(EdgeHop(g))
    OBVIOUS
  <2> QED BY <2>2, <2>3
<1>s. S \in SUBSET A /\ \A acc \in S : acc.kept \in Seq(EdgeHop(g))
  OBVIOUS
<1> HIDE DEF A, S, Longer1, x, seq
<1>4. /\ Keep \in [Hop -> [A -> A]]
      /\ \A j \in Hop, acc \in A : Keep[j][acc] \in {acc, Longer1(j, acc)}
  BY <1>2
<1> HIDE DEF Keep
<1>5. \A k \in 1..Len(seq) : \A acc \in S : Keep[seq[k]][acc] \in S
  <2> TAKE k \in 1..Len(seq)
  <2> TAKE acc \in S
  <2>1. seq[k] \in EdgeHop(g) /\ seq[k] \in Hop /\ acc \in A
    BY <1>1, <1>s
  <2> QED BY <1>2, <1>4, <2>1
<1>6. Loop(Keep, x, seq) \in S
  BY <1>1, <1>s, <1>3, <1>4, <1>5, LoopKeeps
<1> QED BY <1>d, <1>s, <1>6

(* Every key of h between two tables is that of a relation of R.           *)
Backed(h, R) ==
    \A t \in Tables : \A e \in ToSet(h[t]) : \A role \in ToSet(e.roles) :
       \E r \in R : {r.child, r.parent} = {t, e.to} /\ r.role = role

\* An edge gets the role of the relation it is made for.
LEMMA EdgeIsBacked ==
  ASSUME NEW g \in Graph, NEW from \in Tables, NEW to \in Tables, NEW key \in {"id", "other"},
         NEW role \in STRING, NEW keepAll \in BOOLEAN, NEW R, Backed(g, R),
         \E r \in R : {r.child, r.parent} = {from, to} /\ r.role = role
  PROVE  Backed(AddEdge(g, from, to, key, role, keepAll), R)
<1> DEFINE h == AddEdge(g, from, to, key, role, keepAll)
           old == g[from]
           n == Len(old)
           Good(t, e) == \A a \in ToSet(e.roles) : \E r \in R : {r.child, r.parent} = {t, e.to} /\ r.role = a
<1>1. /\ g \in [Tables -> Seq(Edge)] /\ old \in Seq(Edge)
      /\ n \in Nat /\ DOMAIN old = 1..n /\ \A k \in 1..n : old[k] \in Edge
  BY DEF Graph
<1>2. \A t \in Tables : \A e \in ToSet(g[t]) : Good(t, e)
  BY DEF Backed
<1>3. \A k \in 1..n : Good(from, old[k])
  <2>1. \A k \in 1..n : old[k] \in ToSet(old)
    BY <1>1 DEF ToSet
  <2> HIDE DEF Good
  <2> QED BY <1>2, <2>1
<1>a. \A a : a = role => \E r \in R : {r.child, r.parent} = {from, to} /\ r.role = a
  OBVIOUS
<1>4. CASE ~(\A k \in DOMAIN old : old[k].to # to) /\ ~keepAll
  <2>1. h = g
    BY <1>4 DEF AddEdge
  <2> QED BY <2>1
<1>5. CASE ~(\A k \in DOMAIN old : old[k].to # to) /\ keepAll
  <2> DEFINE WithRole(e) == IF e.to = to THEN [e EXCEPT !.roles = Append(e.roles, role)] ELSE e
             edges == [k \in DOMAIN old |-> WithRole(old[k])]
  <2>1. h = [g EXCEPT ![from] = edges]
    BY <1>5 DEF AddEdge
  <2>2. ASSUME NEW e \in Edge, Good(from, e) PROVE Good(from, WithRole(e))
    <3>1. CASE e.to # to
      BY <2>2, <3>1
    <3>2. CASE e.to = to
      <4> DEFINE f == WithRole(e)
      <4>1. e.roles \in Seq(STRING)
        BY DEF Edge
      <4>2. f.to = to /\ f.roles = Append(e.roles, role)
        BY <3>2 DEF Edge
      <4> HIDE DEF f
      <4>3. ToSet(f.roles) = ToSet(e.roles) \union {role}
        BY <4>1, <4>2, AppendedSet
      <4>4. Good(from, f)
        <5> SUFFICES ASSUME NEW a \in ToSet(f.roles)
                     PROVE  \E r \in R : {r.child, r.parent} = {from, f.to} /\ r.role = a
          OBVIOUS
        <5>1. CASE a = role
          BY <1>a, <4>2, <5>1
        <5>2. CASE a \in ToSet(e.roles)
          BY <2>2, <3>2, <4>2, <5>2
        <5> QED BY <4>3, <5>1, <5>2
      <4> QED BY <4>4 DEF f
    <3> QED BY <3>1, <3>2
  <2> HIDE DEF WithRole, Good, h
  <2>3. \A e \in ToSet(edges) : Good(from, e)
    BY <1>1, <1>3, <2>2 DEF ToSet
  <2> HIDE DEF edges
  <2>4. h[from] = edges /\ \A t \in Tables : t # from => h[t] = g[t]
    BY <1>1, <2>1
  <2>5. \A t \in Tables : \A e \in ToSet(h[t]) : Good(t, e)
    BY <1>2, <2>3, <2>4
  <2> QED BY <2>5 DEF Backed, Good, h
<1>6. CASE \A k \in DOMAIN old : old[k].to # to
  <2> DEFINE e == [to |-> to, key |-> key, roles |-> <<role>>]
             edges == Append(old, e)
  <2>1. h = [g EXCEPT ![from] = edges]
    BY <1>6 DEF AddEdge
  <2>2. e \in Edge /\ e.to = to /\ ToSet(e.roles) = {role}
    <3>1. <<role>> \in Seq(STRING) \ {<<>>}
      OBVIOUS
    <3> QED BY <3>1 DEF Edge, ToSet
  <2> HIDE DEF e
  <2>3. Good(from, e)
    BY <1>a, <2>2
  <2> HIDE DEF Good, h
  <2>a. ToSet(edges) = ToSet(old) \union {e}
    BY <1>1, <2>2, AppendedSet
  <2> HIDE DEF edges
  <2>4. h[from] = edges /\ \A t \in Tables : t # from => h[t] = g[t]
    BY <1>1, <2>1
  <2>5. \A t \in Tables : \A d \in ToSet(h[t]) : Good(t, d)
    <3> SUFFICES ASSUME NEW t \in Tables, NEW d \in ToSet(h[t]) PROVE Good(t, d)
      OBVIOUS
    <3>1. CASE t # from
      BY <1>2, <2>4, <3>1
    <3>2. CASE t = from
      BY <1>2, <2>3, <2>4, <2>a, <3>2
    <3> QED BY <3>1, <3>2
  <2> QED BY <2>5 DEF Backed, Good, h
<1> QED BY <1>4, <1>5, <1>6

LEMMA AllAreBacked ==
  ASSUME NEW g \in Graph, NEW relations \in Seq(Relation), NEW keepAll \in BOOLEAN, NEW R,
         Backed(g, R), ToSet(relations) \subseteq R
  PROVE  Backed(RelateAll(keepAll, g, relations), R)
<1> DEFINE Key(r) == IF r.parent \in IdKeyed THEN "id" ELSE "other"
           Once1(h, r) == AddEdge(h, r.child, r.parent, "other", r.role, keepAll)
           Both(h, r) == AddEdge(Once1(h, r), r.parent, r.child, Key(r), r.role, keepAll)
           Relate == [r \in Relation |-> [h \in [Tables -> Seq(Edge)] |-> Both(h, r)]]
           S == {h \in Graph : Backed(h, R)}
<1>d. RelateAll(keepAll, g, relations) = Loop(Relate, g, relations)
  BY DEF RelateAll
<1>1. ASSUME NEW h \in Graph, NEW r \in Relation
      PROVE  /\ Both(h, r) \in Graph
             /\ r \in R /\ Backed(h, R) => Backed(Both(h, r), R)
  <2> DEFINE c == r.child
             p == r.parent
             role == r.role
             key == Key(r)
             other == "other"
             h1 == AddEdge(h, c, p, other, role, keepAll)
             h2 == AddEdge(h1, p, c, key, role, keepAll)
  <2>1. /\ c \in Tables /\ p \in Tables /\ role \in STRING
        /\ key \in {"id", "other"} /\ other \in {"id", "other"}
    BY DEF Relation
  <2>2. Both(h, r) = h2
    OBVIOUS
  <2>3. r \in R => /\ \E q \in R : {q.child, q.parent} = {c, p} /\ q.role = role
                   /\ \E q \in R : {q.child, q.parent} = {p, c} /\ q.role = role
    OBVIOUS
  <2> HIDE DEF c, p, role, key, other, Both
  <2>4. h1 \in Graph
    BY <2>1, EdgeAdded
  <2>5. ASSUME r \in R, Backed(h, R)
        PROVE  Backed(h1, R)
    <3>1. \E q \in R : {q.child, q.parent} = {c, p} /\ q.role = role
      BY <2>5, <2>3
    <3> QED BY <2>5, <2>1, <3>1, EdgeIsBacked
  <2> HIDE DEF h1
  <2>6. h2 \in Graph
    BY <2>1, <2>4, EdgeAdded
  <2>7. ASSUME r \in R, Backed(h1, R)
        PROVE  Backed(h2, R)
    <3>1. \E q \in R : {q.child, q.parent} = {p, c} /\ q.role = role
      BY <2>7, <2>3
    <3> QED BY <2>7, <2>1, <3>1, <2>4, EdgeIsBacked
  <2> QED BY <2>2, <2>5, <2>6, <2>7
<1> HIDE DEF Both
<1>2. /\ Relate \in [Relation -> [Graph -> Graph]]
      /\ \A r \in Relation, h \in Graph : Relate[r][h] = Both(h, r)
  BY <1>1 DEF Graph
<1>3. \A k \in 1..Len(relations) : relations[k] \in Relation /\ relations[k] \in R
  BY DEF ToSet
<1>4. S \in SUBSET Graph /\ g \in S
  OBVIOUS
<1> HIDE DEF Relate
<1>5. \A k \in 1..Len(relations) : \A h \in S : Relate[relations[k]][h] \in S
  BY <1>1, <1>2, <1>3
<1> HIDE DEF S
<1>6. Loop(Relate, g, relations) \in S
  BY <1>2, <1>4, <1>5, LoopKeeps
<1> QED BY <1>d, <1>6 DEF S

\* build_relationship_graph invents no key.
LEMMA JoinGraphIsBacked ==
  ASSUME NEW s \in Schema
  PROVE  Backed(JoinGraph(s), Relations(s))
<1> DEFINE bare == [t \in Tables |-> <<>>]
           first == IF s.declared # <<>> THEN RelateAll(TRUE, bare, s.declared)
                    ELSE RelateAll(FALSE, bare, s.byName)
           R == Relations(s)
<1>d. JoinGraph(s) = RelateAll(FALSE, first, s.byKey)
  BY DEF JoinGraph
<1>s. /\ s.declared \in Seq(Relation) /\ s.byName \in Seq(Relation) /\ s.byKey \in Seq(Relation)
      /\ TRUE \in BOOLEAN /\ FALSE \in BOOLEAN
  BY DEF Schema
<1>r. /\ ToSet(s.declared) \subseteq R /\ ToSet(s.byKey) \subseteq R
      /\ s.declared = <<>> => ToSet(s.byName) \subseteq R
  BY DEF Relations
<1> HIDE DEF R
<1>1. bare \in Graph /\ Backed(bare, R)
  <2>1. <<>> \in Seq(Edge) /\ ToSet(<<>>) = {}
    BY DEF ToSet
  <2> QED BY <2>1 DEF Graph, Backed
<1> HIDE DEF bare
<1>2. first \in Graph /\ Backed(first, R)
  <2>1. CASE s.declared # <<>>
    <3> DEFINE h == RelateAll(TRUE, bare, s.declared)
    <3>1. h \in Graph
      BY <1>s, <1>1, AllRelated
    <3>2. Backed(h, R)
      BY <1>s, <1>1, <1>r, AllAreBacked
    <3> QED BY <2>1, <3>1, <3>2
  <2>2. CASE s.declared = <<>>
    <3> DEFINE h == RelateAll(FALSE, bare, s.byName)
    <3>1. h \in Graph
      BY <1>s, <1>1, AllRelated
    <3>2. Backed(h, R)
      BY <1>s, <1>1, <1>r, <2>2, AllAreBacked
    <3> QED BY <2>2, <3>1, <3>2
  <2> QED BY <2>1, <2>2
<1> HIDE DEF first
<1>3. Backed(RelateAll(FALSE, first, s.byKey), R)
  BY <1>s, <1>2, <1>r, AllAreBacked
<1> QED BY <1>3, <1>d DEF R

(* What joins use, and what an accepted plan names                         *)
JoinsOnEdges == plan.joins \in Seq(EdgeHop(graph))
AcceptedIsInScope == pc = "accepted" => ToSet(Referenced(plan)) \subseteq Scope(plan)
EdgeInv == IInv /\ JoinsOnEdges /\ AcceptedIsInScope

LEMMA EdgeInvBegins == Init => EdgeInv
<1> SUFFICES ASSUME Init PROVE EdgeInv
  OBVIOUS
<1>1. plan.joins = <<>> /\ pc = "graph"
  BY DEF Init
<1>2. JoinsOnEdges
  BY <1>1 DEF JoinsOnEdges
<1> QED BY <1>1, <1>2, InitEstablishes DEF EdgeInv, AcceptedIsInScope

\* A pass that edits the joins takes edges of the graph only.
LEMMA PassesOnEdges ==
  ASSUME EdgeInv, [Next]_vars
  PROVE  JoinsOnEdges'
<1> DEFINE S == Seq(EdgeHop(graph))
<1>1. /\ graph \in Graph /\ plan \in Plan /\ schema \in Schema /\ intent \in Intent /\ plan.joins \in S
      /\ pc \in AtJoins => plan.base \in Tables
      /\ pc \in {"graph", "select", "joins"} => plan.joins = <<>>
  BY DEF EdgeInv, IInv, TypeOK, JoinsLaid, JoinsOnEdges
<1>e. \A g : <<>> \in Seq(EdgeHop(g))
  OBVIOUS
<1> HIDE DEF S
<1>2. CASE BuildGraph
  <2>1. plan'.joins = <<>>
    BY <1>1, <1>2 DEF BuildGraph
  <2> QED BY <1>e, <2>1 DEF JoinsOnEdges
<1>3. CASE Select \/ Group \/ Drop \/ Report
  <2>1. plan'.joins = plan.joins /\ graph' = graph
    BY <1>1, <1>3 DEF Select, Group, Drop, Report, Plan
  <2> QED BY <1>1, <2>1 DEF JoinsOnEdges, S
<1>4. CASE Joins
  <2> DEFINE targets == Only(Distinct(intent.tables \o Referenced(plan)), Tables \ {plan.base})
             found == ResolveJoins(graph, plan.base, targets)
             joins == WithRoles(graph, schema, found, intent.role)
  <2>1. plan' = [plan EXCEPT !.joins = joins] /\ graph' = graph /\ plan.base \in Tables
    BY <1>1, <1>4 DEF Joins, AtJoins
  <2>2. targets \in Seq(Tables)
    <3> DEFINE all == intent.tables \o Referenced(plan)
               others == Tables \ {plan.base}
    <3>1. intent.tables \in Seq(Tables) /\ Referenced(plan) \in Seq(Tables)
      BY <1>1, ReferencedTables DEF Intent
    <3>2. all \in Seq(Tables)
      BY <3>1
    <3> HIDE DEF all, others
    <3>3. Distinct(all) \in Seq(Tables)
      BY <3>2, DistinctKeeps
    <3>4. Only(Distinct(all), others) \in Seq(Tables)
      BY <3>3, OnlyKeeps
    <3> QED BY <3>4 DEF all, others
  <2> HIDE DEF targets
  <2>3. found \in S
    BY <1>1, <2>1, <2>2, ResolvesOnEdges DEF S
  <2> HIDE DEF found
  <2>4. intent.role \in STRING
    BY <1>1 DEF Intent
  <2>5. joins \in S
    BY <1>1, <2>3, <2>4, RolesOnEdges DEF S
  <2> HIDE DEF joins
  <2>6. plan'.joins = joins
    BY <1>1, <2>1 DEF Plan
  <2> QED BY <2>1, <2>5, <2>6 DEF JoinsOnEdges, S
<1>5. CASE Rebase
  <2>1. graph' = graph /\ plan' = Rebased(plan, graph)
    BY <1>5 DEF Rebase
  <2>2. plan'.joins \in {plan.joins, <<>>}
    BY <1>1, <2>1 DEF Rebased, Plan
  <2> QED BY <1>1, <1>e, <2>1, <2>2 DEF JoinsOnEdges, S
<1>6. CASE Reconcile
  <2>1. graph' = graph /\ plan' = Reconciled(plan, graph) /\ plan.base \in Tables
    BY <1>1, <1>6 DEF Reconcile, AtJoins, AtRebase, AtReconcile
  <2>2. plan'.joins \in S
    BY <1>1, <2>1, ReconcilesOnEdges DEF S
  <2> QED BY <2>1, <2>2 DEF JoinsOnEdges, S
<1>7. CASE Prune
  <2> DEFINE once == Dedupe(plan.joins)
             joins == Pruned(plan, once)
  <2>1. graph' = graph /\ plan' = [plan EXCEPT !.joins = joins] /\ plan.base \in Tables
    BY <1>1, <1>7 DEF Prune, AtJoins, AtRebase, AtReconcile, AtDrop, AtPrune
  <2>2. once \in S
    BY <1>1, DedupesOnEdges DEF S
  <2> HIDE DEF once
  <2>3. joins \in S
    BY <1>1, <2>1, <2>2, PrunesOnEdges DEF S
  <2> HIDE DEF joins
  <2>4. plan'.joins = joins
    BY <1>1, <2>1 DEF Plan
  <2> QED BY <2>1, <2>3, <2>4 DEF JoinsOnEdges, S
<1>8. CASE Compile \/ UNCHANGED vars
  <2>1. plan' = plan /\ graph' = graph
    BY <1>8 DEF Compile, vars
  <2> QED BY <1>1, <2>1 DEF JoinsOnEdges, S
<1> QED BY <1>2, <1>3, <1>4, <1>5, <1>6, <1>7, <1>8 DEF Next

LEMMA PassesAccept ==
  ASSUME EdgeInv, [Next]_vars
  PROVE  AcceptedIsInScope'
<1>1. CASE Compile
  <2>1. pc' = "accepted" => ToSet(Referenced(plan)) \subseteq Scope(plan)
    BY <1>1 DEF Compile, Goto
  <2>2. plan' = plan
    BY <1>1 DEF Compile
  <2> QED BY <2>1, <2>2 DEF AcceptedIsInScope
<1>2. CASE UNCHANGED vars
  <2>1. plan' = plan /\ pc' = pc
    BY <1>2 DEF vars
  <2> QED BY <2>1 DEF EdgeInv, AcceptedIsInScope
<1>3. CASE pc' # "accepted"
  BY <1>3 DEF AcceptedIsInScope
<1>4. Next => Compile \/ pc' # "accepted"
  BY DEF Next, BuildGraph, Select, Joins, Group, Rebase, Reconcile, Drop, Prune, Report, Goto
<1> QED BY <1>1, <1>2, <1>3, <1>4

LEMMA EdgeInvStep == EdgeInv /\ [Next]_vars => EdgeInv'
  BY InductiveStep, PassesOnEdges, PassesAccept DEF EdgeInv

\* The balls around a table do not grow for more steps than there are tables.
LEMMA BallsSettle ==
  ASSUME NEW g \in Graph, NEW start \in Tables, NEW B \in Balls(g, start), NEW n \in Nat
  PROVE  B[n] \subseteq B[Reach]
<1> DEFINE Grew(k) == \A i \in 0..(k - 1) : B[i] # B[i + 1]
           T == {k \in Nat : Grew(k) => Cardinality(B[k]) >= k + 1}
<1>1. /\ B \in [Nat -> SUBSET Tables] /\ B[0] = {start}
      /\ \A k \in Nat : B[k + 1] = B[k] \union UNION {Near(g, v) : v \in B[k]}
  BY DEF Balls
<1>2. /\ \A k \in Nat : B[k] \subseteq B[k + 1]
      /\ \A i, k \in Nat : i <= k => B[i] \subseteq B[k]
  BY BallsGrow
<1>3. \A k \in Nat : /\ IsFiniteSet(B[k]) /\ Cardinality(B[k]) \in Nat
                     /\ Cardinality(B[k]) <= Reach
  <2> TAKE k \in Nat
  <2>1. B[k] \in SUBSET Tables /\ IsFiniteSet(Tables)
    BY <1>1, JoinPlanAssumption
  <2>2. IsFiniteSet(B[k]) /\ Cardinality(B[k]) <= Cardinality(Tables)
    BY <2>1, FS_Subset
  <2> QED BY <2>2, FS_CardinalityType DEF Reach
<1>4. 0 \in T
  <2>1. Cardinality(B[0]) = 1
    BY <1>1, FS_Singleton
  <2> QED BY <2>1
<1>5. ASSUME NEW k \in T PROVE k + 1 \in T
  <2> SUFFICES ASSUME Grew(k + 1) PROVE Cardinality(B[k + 1]) >= (k + 1) + 1
    OBVIOUS
  <2>1. k \in Nat /\ k \in 0..((k + 1) - 1) /\ \A i \in 0..(k - 1) : i \in 0..((k + 1) - 1)
    OBVIOUS
  <2>2. Cardinality(B[k]) >= k + 1
    BY <2>1
  <2>3. B[k] # B[k + 1]
    BY <2>1
  <2>4. /\ B[k] \in SUBSET B[k + 1]
        /\ IsFiniteSet(B[k + 1]) /\ Cardinality(B[k]) \in Nat /\ Cardinality(B[k + 1]) \in Nat
    BY <1>2, <1>3, <2>1
  <2>5. Cardinality(B[k]) <= Cardinality(B[k + 1]) /\ Cardinality(B[k]) # Cardinality(B[k + 1])
    BY <2>3, <2>4, FS_Subset
  <2> QED BY <2>1, <2>2, <2>4, <2>5
<1>6. T = Nat
  <2>1. T \in SUBSET Nat
    OBVIOUS
  <2> HIDE DEF T
  <2> QED BY <1>4, <1>5, <2>1, Climb
<1>7. ~Grew(Reach)
  <2> SUFFICES ASSUME Grew(Reach) PROVE FALSE
    OBVIOUS
  <2>1. Cardinality(B[Reach]) >= Reach + 1
    BY <1>6, ReachIsNat
  <2> HIDE DEF Grew
  <2> QED BY <1>3, <2>1, ReachIsNat
<1>8. PICK k \in 0..(Reach - 1) : B[k] = B[k + 1]
  BY <1>7
<1>9. k \in Nat /\ k <= Reach
  BY ReachIsNat
<1> DEFINE U == {m \in Nat : B[k + m] = B[k]}
           Wider(S) == S \union UNION {Near(g, v) : v \in S}
<1>w. \A l \in Nat : B[l + 1] = Wider(B[l])
  BY <1>1
<1> HIDE DEF Wider
<1>10. U = Nat
  <2>1. 0 \in U
    BY <1>9
  <2>2. ASSUME NEW m \in U PROVE m + 1 \in U
    <3>1. k + m \in Nat /\ k + (m + 1) = (k + m) + 1 /\ B[k + m] = B[k]
      BY <1>9
    <3>2. B[(k + m) + 1] = B[k + 1]
      BY <1>w, <1>9, <3>1
    <3> QED BY <1>8, <3>1, <3>2
  <2>3. U \in SUBSET Nat
    OBVIOUS
  <2> HIDE DEF U
  <2> QED BY <2>1, <2>2, <2>3, Climb
<1>11. CASE n <= k
  BY <1>2, <1>9, <1>11, ReachIsNat
<1>12. CASE n > k
  <2>1. n - k \in Nat /\ k + (n - k) = n
    BY <1>9, <1>12
  <2> HIDE DEF U
  <2>2. n - k \in U
    BY <1>10, <2>1
  <2>3. B[n] = B[k]
    BY <2>1, <2>2 DEF U
  <2> QED BY <1>2, <1>9, <2>3, ReachIsNat
<1> QED BY <1>9, <1>11, <1>12

\* What is in scope is related to the base,
LEMMA ScopeIsRelated ==
  ASSUME IInv, Finished
  PROVE  Scope(plan) \subseteq Related(plan.base)
<1>1. /\ schema \in Schema /\ graph \in Graph /\ plan.base \in Tables /\ graph = JoinGraph(schema)
      /\ Balls(graph, plan.base) # {}
      /\ \A B \in Balls(graph, plan.base) : plan.joins \in Laid(plan.base, B)
  BY FinishedPlan
<1>2. PICK B \in Balls(graph, plan.base) : TRUE
  BY <1>1
<1>3. Related(plan.base) = B[Reach]
  BY <1>1, <1>2, RelatedIsReached DEF Related, Reach
<1>4. Scope(plan) = {plan.base} \union Ends(plan.joins)
  BY <1>1, <1>2, ScopeIsEnds
<1>5. plan.base \in B[Reach]
  BY <1>1, <1>2, BallsGrow, ReachIsNat
<1>6. ASSUME NEW hop \in ToSet(plan.joins) PROVE hop.right \in B[Reach]
  <2>1. PICK n \in Nat : hop.right \in B[n + 1]
    BY <1>1, <1>2, <1>6 DEF Laid, Outward, LeadsOut
  <2>2. n + 1 \in Nat
    OBVIOUS
  <2> QED BY <1>1, <1>2, <2>1, <2>2, BallsSettle
<1> QED BY <1>3, <1>4, <1>5, <1>6 DEF Ends

\* so an accepted plan names related tables only.
LEMMA AnswersFollow == EdgeInv => RelatedIsAnswered
<1> SUFFICES ASSUME EdgeInv PROVE RelatedIsAnswered
  OBVIOUS
<1>1. Finished /\ pc = "accepted" => ToSet(Referenced(plan)) \subseteq Related(plan.base)
  BY ScopeIsRelated DEF EdgeInv, AcceptedIsInScope
<1>2. IInv
  BY DEF EdgeInv
<1> QED BY <1>1, <1>2, RelatedFollows DEF RelatedIsAnswered

\* Joins along edges of the graph follow relations of the schema.
LEMMA RelationsFollow == EdgeInv => JoinsFollowRelations
<1> SUFFICES ASSUME EdgeInv, NEW k \in DOMAIN plan.joins
             PROVE  \E r \in Relations(schema) :
                       /\ {r.child, r.parent} = {plan.joins[k].left, plan.joins[k].right}
                       /\ r.role = plan.joins[k].role
  BY DEF JoinsFollowRelations
<1>1. /\ plan.joins \in Seq(Hop) /\ schema \in Schema /\ plan.joins \in Seq(EdgeHop(graph))
  BY DEF EdgeInv, IInv, TypeOK, Plan, JoinsOnEdges
<1>2. plan.joins # <<>>
  OBVIOUS
<1>3. graph = JoinGraph(schema)
  BY <1>2 DEF EdgeInv, IInv, GraphBuilt, JoinsLaid
<1>4. Backed(graph, Relations(schema))
  BY <1>1, <1>3, JoinGraphIsBacked
<1> DEFINE hop == plan.joins[k]
<1>5. hop \in EdgeHop(graph)
  BY <1>1
<1> HIDE DEF hop
<1>6. hop.left \in Tables
  BY <1>5 DEF EdgeHop, Hop
<1>7. PICK e \in ToSet(graph[hop.left]) : e.to = hop.right /\ hop.role \in ToSet(e.roles)
  BY <1>5 DEF EdgeHop
<1>8. \E r \in Relations(schema) : {r.child, r.parent} = {hop.left, hop.right} /\ r.role = hop.role
  BY <1>4, <1>6, <1>7 DEF Backed
<1> QED BY <1>8 DEF hop

----------------------------------------------------------------------------
(* The theorems.                                                           *)

\* Every plan is a plan: no pass leaves a join, a clause or a graph that the
\* next one could not read (query_planner.py).
THEOREM Typing == Spec => []TypeOK
<1>1. IInv => TypeOK
  BY DEF IInv
<1> QED BY <1>1, Inductive, PTL

\* At every pass, each join starts at the base or at a table joined before it,
\* although rebasing, reconciling, deduplicating and pruning all edit the list
\* (_reconcile_joins, _dedupe_joins, _prune_unused_joins).
THEOREM InScope == Spec => []JoinsStartInScope
  BY InOrderFollows, Inductive, PTL

\* A finished plan joins no table twice, and never its own base
\* (_dedupe_joins).
THEOREM Once == Spec => []NoTableTwice
  BY OnceFollows, Inductive, PTL

\* A finished plan joins only what it names or what lies on the way to it
\* (_prune_unused_joins).
THEOREM Needed == Spec => []JoinsAreNeeded
  BY NeededFollows, Inductive, PTL

\* A table is joined along as few relations as the schema allows, although the
\* joins of several paths are merged (find_join_path, _dedupe_joins).
THEOREM Shortest == Spec => []JoinsAreShortest
  BY ShortestFollows, Inductive, PTL

\* A plan that names related tables only is not refused by the compiler, no
\* filter on a table related to the base is lost, and a plan that names others
\* is not answered (_rebase_on_referenced_table, _drop_unreachable_filters,
\* compile_sql).
THEOREM Answered == Spec => []RelatedIsAnswered
  BY EdgeInvBegins, EdgeInvStep, AnswersFollow, PTL DEF Spec

\* At every pass, each join of a plan is along a relation of the schema between
\* its two tables, and by the key of one (build_relationship_graph,
\* find_join_path, _apply_join_roles).
THEOREM Follows == Spec => []JoinsFollowRelations
  BY EdgeInvBegins, EdgeInvStep, RelationsFollow, PTL DEF Spec
=============================================================================
