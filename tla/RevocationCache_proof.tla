------------------------ MODULE RevocationCache_proof ------------------------
(***************************************************************************)
(* Proofs about RevocationCache for any number of workers, users, requests *)
(* and handlers, any loss of broadcasts and any cache lifetime.  Types and *)
(* the single flight need no premise; that sessions end, and the bound on  *)
(* stale entries, only that handlers of one user do not overlap; the two   *)
(* about revoked accounts also that handlers commit before they invalidate *)
(* and that the cache never fills.  The runs show each to be needed.       *)
(***************************************************************************)
EXTENDS RevocationCache, FiniteSetTheorems, TLAPS

CommitFirst == Kind = [r \in Revokers |-> "session"]
RoomForAll == Cardinality(Users) <= CacheMax
Premises == CommitFirst /\ RoomForAll /\ ~Overlap

LEMMA InitTyped == Init => TypeOK
  BY RevocationAssumption DEF Init, TypeOK, Entries, RequestPlaces, HandlerPlaces

(* The values the cells of the typed state hold, where they are indexed.   *)
LEMMA Ranges ==
  ASSUME TypeOK, NEW w \in Workers, NEW u \in Users
  PROVE  /\ cache[w][u] \in Entries /\ gen[w][u] \in Nat /\ cut[w][u] \in Nat
         /\ version[u] \in Nat /\ bumpedAt[u] \in Seq(Nat)
  BY DEF TypeOK

LEMMA HitTyped ==
  ASSUME TypeOK, NEW q \in Requests, Hit(q)
  PROVE  /\ answer' \in [Requests -> Nat] /\ flight' = flight
         /\ pc' \in [Requests -> RequestPlaces]
         /\ leads' \subseteq Requests
         /\ captured' \in [Requests -> Nat] /\ readAt' \in [Requests -> Nat]
<1>1. cache[At[q]][Of[q]] \in [exp : Nat, ver : Nat]
  <2>1. At[q] \in Workers /\ Of[q] \in Users
    BY RevocationAssumption
  <2> QED BY <2>1, Ranges DEF Hit, Live, Entries
<1>2. cache[At[q]][Of[q]].ver \in Nat
  BY <1>1
<1>3. answer' \in [Requests -> Nat]
  BY <1>2 DEF TypeOK, Hit
<1>4. flight' = flight /\ pc' \in [Requests -> RequestPlaces]
  BY DEF TypeOK, Hit, RequestPlaces
<1>5. leads' \subseteq Requests
  BY DEF TypeOK, Hit, Forget
<1>6. captured' \in [Requests -> Nat] /\ readAt' \in [Requests -> Nat]
  BY DEF TypeOK, Hit, Forget
<1> QED BY <1>3, <1>4, <1>5, <1>6

LEMMA DroppedTyped ==
  ASSUME TypeOK, NEW w \in Workers, NEW u \in Users, Dropped(w, u)
  PROVE  /\ cache' \in [Workers -> [Users -> Entries]]
         /\ gen' \in [Workers -> [Users -> Nat]] /\ flight' = flight
  BY DEF TypeOK, Dropped, Entries

(* What an eviction leaves: entries as they were, or gone.                 *)
LEMMA EvictedEntries ==
  ASSUME NEW full \in [Users -> Entries], NEW u \in Users, NEW kept \in Evicted(full, u)
  PROVE  /\ kept \in [Users -> Entries]
         /\ \A v \in Users : kept[v] = full[v] \/ kept[v] = NoEntry
<1> DEFINE unexpired == [v \in Users |-> IF full[v].exp > clock THEN full[v] ELSE NoEntry]
<1>1. /\ unexpired \in [Users -> Entries]
      /\ \A v \in Users : unexpired[v] = full[v] \/ unexpired[v] = NoEntry
  BY DEF Entries
<1>2. \/ kept = full \/ kept = unexpired
      \/ \E x \in Users : kept = [unexpired EXCEPT ![x] = NoEntry]
  BY DEF Evicted
<1> HIDE DEF unexpired
<1>3. NoEntry \in Entries
  BY DEF Entries
<1> QED BY <1>1, <1>2, <1>3

(* What a publication may do to the cache of its worker: write its entry,  *)
(* if the generation is still the one it captured, and evict others.       *)
LEMMA PublishWrites ==
  ASSUME TypeOK, NEW q \in Requests, Publish(q)
  PROVE  \/ UNCHANGED <<cache, gen>>
         \/ /\ MayPublish(q)
            /\ cache' \in [Workers -> [Users -> Entries]]
            /\ gen' \in [Workers -> [Users -> Nat]]
            /\ \A w \in Workers, u \in Users :
                  \/ cache'[w][u] = NoEntry
                  \/ w = At[q] /\ u = Of[q] /\ cache'[w][u] = Entry(q)
                  \/ (w # At[q] \/ u # Of[q]) /\ cache'[w][u] = cache[w][u]
<1> SUFFICES ASSUME ~UNCHANGED <<cache, gen>>
             PROVE  /\ MayPublish(q)
                    /\ cache' \in [Workers -> [Users -> Entries]]
                    /\ gen' \in [Workers -> [Users -> Nat]]
                    /\ \A w \in Workers, u \in Users :
                          \/ cache'[w][u] = NoEntry
                          \/ w = At[q] /\ u = Of[q] /\ cache'[w][u] = Entry(q)
                          \/ (w # At[q] \/ u # Of[q]) /\ cache'[w][u] = cache[w][u]
  OBVIOUS
<1> USE RevocationAssumption
<1> DEFINE full == [cache[At[q]] EXCEPT ![Of[q]] = Entry(q)]
<1>1. At[q] \in Workers /\ Of[q] \in Users
  OBVIOUS
<1>2. /\ MayPublish(q)
      /\ \E kept \in Evicted(full, Of[q]) :
           /\ cache' = [cache EXCEPT ![At[q]] = kept]
           /\ gen' = [gen EXCEPT ![At[q]] = Swept(At[q], full, kept)]
  BY DEF Publish
<1>3. PICK kept \in Evicted(full, Of[q]) :
           /\ cache' = [cache EXCEPT ![At[q]] = kept]
           /\ gen' = [gen EXCEPT ![At[q]] = Swept(At[q], full, kept)]
  BY <1>2
<1>4. Entry(q) \in Entries
  BY DEF Entry, Entries, TypeOK
<1>5. /\ full \in [Users -> Entries] /\ full[Of[q]] = Entry(q)
      /\ \A v \in Users \ {Of[q]} : full[v] = cache[At[q]][v]
  BY <1>1, <1>4 DEF TypeOK
<1> HIDE DEF full
<1>6. /\ kept \in [Users -> Entries]
      /\ \A v \in Users : kept[v] = full[v] \/ kept[v] = NoEntry
  BY <1>1, <1>3, <1>5, EvictedEntries
<1>7. Swept(At[q], full, kept) \in [Users -> Nat]
  BY <1>1, Ranges DEF Swept, TypeOK
<1>8. cache' \in [Workers -> [Users -> Entries]] /\ gen' \in [Workers -> [Users -> Nat]]
  BY <1>3, <1>6, <1>7 DEF TypeOK
<1>9. \A w \in Workers : cache'[w] = IF w = At[q] THEN kept ELSE cache[w]
  BY <1>1, <1>3 DEF TypeOK
<1> QED BY <1>2, <1>5, <1>6, <1>8, <1>9

LEMMA NextTyped ==
  ASSUME TypeOK, [Next]_vars
  PROVE  TypeOK'
<1> USE RevocationAssumption
<1>1. ASSUME NEW q \in Requests, Begin(q) PROVE TypeOK'
  <2>1. /\ UNCHANGED <<clock, version, bumpedAt, sessions, cache, gen, inbox, cut, rpc, loaded>>
        /\ floor' = [floor EXCEPT ![q] = cut[At[q]][Of[q]]]
    BY <1>1 DEF Begin, account, handler
  <2>2. CASE Hit(q)
    BY <2>1, <2>2, HitTyped DEF TypeOK
  <2>3. CASE Miss(q) /\ ~Hit(q)
    <3>1. gen[At[q]][Of[q]] \in Nat /\ cut[At[q]][Of[q]] \in Nat
      BY Ranges
    <3>2. captured' \in [Requests -> Nat] /\ floor' \in [Requests -> Nat]
      BY <2>1, <2>3, <3>1 DEF TypeOK, Miss
    <3>3. /\ pc' \in [Requests -> RequestPlaces] /\ leads' \subseteq Requests
          /\ UNCHANGED <<answer, readAt>> /\ flight' \in [Workers -> SUBSET Users]
      <4>1. \/ /\ pc' = [pc EXCEPT ![q] = "wait"]
               /\ UNCHANGED <<leads, flight>>
            \/ /\ pc' = [pc EXCEPT ![q] = "read"]
               /\ leads' = leads \union {q}
               /\ flight' = [flight EXCEPT ![At[q]] = @ \union {Of[q]}]
        BY <1>1, <2>3 DEF Begin
      <4>2. UNCHANGED <<answer, readAt>>
        BY <2>3 DEF Miss
      <4>3. CASE pc' = [pc EXCEPT ![q] = "wait"] /\ UNCHANGED <<leads, flight>>
        BY <4>2, <4>3 DEF TypeOK, RequestPlaces
      <4>4. CASE /\ pc' = [pc EXCEPT ![q] = "read"]
                 /\ leads' = leads \union {q}
                 /\ flight' = [flight EXCEPT ![At[q]] = @ \union {Of[q]}]
        BY <4>2, <4>4 DEF TypeOK, RequestPlaces
      <4> QED BY <4>1, <4>3, <4>4
    <3> QED BY <2>1, <3>2, <3>3 DEF TypeOK
  <2> QED BY <1>1, <2>2, <2>3 DEF Begin
<1>2. ASSUME NEW q \in Requests, Follow(q) PROVE TypeOK'
  <2>1. UNCHANGED <<clock, version, bumpedAt, sessions, cache, gen, inbox, cut, floor, rpc, loaded>>
    BY <1>2 DEF Follow, account, handler
  <2>2. CASE Hit(q)
    BY <2>1, <2>2, HitTyped DEF TypeOK
  <2>3. CASE Miss(q) /\ ~Hit(q)
    <3>1. gen[At[q]][Of[q]] \in Nat /\ cut[At[q]][Of[q]] \in Nat
      BY Ranges
    <3>2. captured' \in [Requests -> Nat] /\ floor' \in [Requests -> Nat]
      BY <2>1, <2>3, <3>1 DEF TypeOK, Miss
    <3>3. /\ pc' \in [Requests -> RequestPlaces] /\ leads' \subseteq Requests
          /\ UNCHANGED <<answer, readAt>>
      BY <1>2, <2>3 DEF TypeOK, RequestPlaces, Follow, Miss
    <3>4. flight' \in [Workers -> SUBSET Users]
      BY <1>2, <2>3 DEF TypeOK, Follow
    <3> QED BY <2>1, <3>2, <3>3, <3>4 DEF TypeOK
  <2> QED BY <1>2, <2>2, <2>3 DEF Follow
<1>3. ASSUME NEW q \in Requests, Read(q) PROVE TypeOK'
  BY <1>3 DEF TypeOK, RequestPlaces, Read, account, local, handler
<1>4. ASSUME NEW q \in Requests, Landed(q) PROVE TypeOK'
  BY <1>4 DEF TypeOK, RequestPlaces, Landed, Land, account, handler
<1>5. ASSUME NEW q \in Requests, ReadFails(q) PROVE TypeOK'
  BY <1>5 DEF TypeOK, RequestPlaces, ReadFails, Land, Forget, account, handler
<1>6. ASSUME NEW q \in Requests, Publish(q) PROVE TypeOK'
  <2>1. /\ UNCHANGED <<clock, version, bumpedAt, sessions, flight, inbox, cut, answer, floor, rpc, loaded>>
        /\ pc' = [pc EXCEPT ![q] = "answered"] /\ Forget(q)
    BY <1>6 DEF Publish, account, handler
  <2>2. cache' \in [Workers -> [Users -> Entries]] /\ gen' \in [Workers -> [Users -> Nat]]
    BY <1>6, PublishWrites DEF TypeOK
  <2>3. /\ pc' \in [Requests -> RequestPlaces] /\ leads' \subseteq Requests
        /\ captured' \in [Requests -> Nat] /\ readAt' \in [Requests -> Nat]
    BY <2>1 DEF TypeOK, RequestPlaces, Forget
  <2> QED BY <2>1, <2>2, <2>3 DEF TypeOK
<1>7. ASSUME NEW r \in Revokers, Load(r) PROVE TypeOK'
  BY <1>7 DEF TypeOK, HandlerPlaces, Load, Advance, account, local, request
<1>8. ASSUME NEW r \in Revokers, Commit(r) PROVE TypeOK'
  <2>1. Target[r] \in Users /\ By[r] \in Workers /\ loaded[r] + 1 \in Nat
    BY DEF TypeOK
  <2>2. version' \in [Users -> Nat]
    BY <1>8, <2>1 DEF TypeOK, Commit
  <2>5. cut' \in [Workers -> [Users -> Nat]]
    <3>1. \/ cut' = cut
          \/ cut' = [cut EXCEPT ![By[r]][Target[r]] = loaded[r] + 1]
      BY <1>8 DEF Commit
    <3>2. CASE cut' = cut
      BY <3>2 DEF TypeOK
    <3>3. CASE cut' = [cut EXCEPT ![By[r]][Target[r]] = loaded[r] + 1]
      BY <2>1, <3>3 DEF TypeOK
    <3> QED BY <3>1, <3>2, <3>3
  <2>3. bumpedAt' \in [Users -> Seq(Nat)]
    <3>1. bumpedAt[Target[r]] \in Seq(Nat) /\ clock \in Nat
      BY <2>1 DEF TypeOK
    <3>2. Append(bumpedAt[Target[r]], clock) \in Seq(Nat)
      BY <3>1
    <3> QED BY <1>8, <3>1, <3>2 DEF TypeOK, Commit
  <2>4. rpc' \in [Revokers -> HandlerPlaces]
    BY <1>8 DEF TypeOK, HandlerPlaces, Commit, Advance
  <2> QED BY <1>8, <2>2, <2>3, <2>4, <2>5 DEF TypeOK, Commit, local, request
<1>9. ASSUME NEW r \in Revokers, Invalidate(r) PROVE TypeOK'
  <2>1. /\ UNCHANGED <<clock, version, bumpedAt, sessions, inbox, loaded>>
        /\ UNCHANGED <<pc, leads, captured, answer, readAt, floor>>
        /\ By[r] \in Workers /\ Target[r] \in Users /\ Dropped(By[r], Target[r])
    BY <1>9 DEF Invalidate, account, request
  <2>2. /\ cache' \in [Workers -> [Users -> Entries]]
        /\ gen' \in [Workers -> [Users -> Nat]] /\ flight' = flight
    BY <2>1, DroppedTyped
  <2>3. cut' \in [Workers -> [Users -> Nat]]
    BY <1>9, <2>1 DEF TypeOK, Invalidate
  <2>4. rpc' \in [Revokers -> HandlerPlaces]
    BY <1>9 DEF TypeOK, HandlerPlaces, Invalidate, Advance
  <2> QED BY <2>1, <2>2, <2>3, <2>4 DEF TypeOK
<1>10. ASSUME NEW r \in Revokers, Broadcast(r) PROVE TypeOK'
  <2>1. PICK reached \in SUBSET Listening :
          inbox' = [w \in Workers |-> IF w \in reached THEN Append(inbox[w], Target[r]) ELSE inbox[w]]
    BY <1>10 DEF Broadcast
  <2>2. inbox' \in [Workers -> Seq(Users)]
    BY <2>1 DEF TypeOK
  <2> QED BY <1>10, <2>2 DEF TypeOK, HandlerPlaces, Broadcast, Advance, account, local, request
<1>11. ASSUME NEW w \in Workers, Receive(w) PROVE TypeOK'
  <2>1. Head(inbox[w]) \in Users /\ Tail(inbox[w]) \in Seq(Users)
    BY <1>11 DEF TypeOK, Receive
  <2>2. Dropped(w, Head(inbox[w]))
    BY <1>11 DEF Receive
  <2>3. /\ cache' \in [Workers -> [Users -> Entries]]
        /\ gen' \in [Workers -> [Users -> Nat]] /\ flight' = flight
    BY <2>1, <2>2, DroppedTyped
  <2>4. inbox' \in [Workers -> Seq(Users)]
    BY <1>11, <2>1 DEF TypeOK, Receive
  <2>5. cut' \in [Workers -> [Users -> Nat]]
    BY <1>11, <2>1 DEF TypeOK, Receive
  <2> QED BY <1>11, <2>3, <2>4, <2>5 DEF TypeOK, Receive, account, request, handler
<1>12. ASSUME NEW u \in Users, SignIn(u) PROVE TypeOK'
  BY <1>12 DEF TypeOK, SignIn, local, request, handler
<1>13. CASE Tick
  BY <1>13 DEF TypeOK, Tick, account, local, request, handler
<1>14. CASE UNCHANGED vars
  BY <1>14 DEF TypeOK, vars, account, local, request, handler
<1> QED
  BY <1>1, <1>2, <1>3, <1>4, <1>5, <1>6, <1>7, <1>8, <1>9, <1>10, <1>11, <1>12, <1>13, <1>14
     DEF Next, RequestStep, HandlerStep

(* Types: every clock, version and counter stays a number, through any     *)
(* eviction and sweep.                                                     *)
THEOREM Typing == Spec => []TypeOK
<1>1. TypeOK /\ [Next]_vars => TypeOK'
  BY NextTyped
<1> QED BY <1>1, InitTyped, PTL DEF Spec

(* A table of tables after one entry was replaced: that entry is the new    *)
(* one, every other is as it was.                                          *)
LEMMA UpdatedEntry ==
  ASSUME NEW A, NEW B, NEW C, NEW f \in [A -> [B -> C]], NEW a \in A, NEW b \in B, NEW v,
         NEW g, g = [f EXCEPT ![a][b] = v]
  PROVE  \A x \in A, y \in B : /\ x = a /\ y = b => g[x][y] = v
                               /\ x # a \/ y # b => g[x][y] = f[x][y]
  OBVIOUS

----------------------------------------------------------------------------
(* Single flight *)

(* What a step of request q does to the flights, told request by request.  *)
LEMMA FlightsKept ==
  ASSUME FlightsHaveLeaders, TypeOK', NEW q \in Requests,
         \A p \in Requests \ {q} : (p \in leads' <=> p \in leads) /\ pc'[p] = pc[p],
         q \in leads' => pc'[q] \in {"read", "land", "publish"},
         \/ flight' = flight /\ (Leads(q)' <=> Leads(q))
         \/ /\ Of[q] \notin flight[At[q]] /\ Leads(q)'
            /\ flight' = [flight EXCEPT ![At[q]] = @ \union {Of[q]}]
         \/ /\ Leads(q) /\ ~Leads(q)'
            /\ flight' = [flight EXCEPT ![At[q]] = @ \ {Of[q]}]
  PROVE  FlightsHaveLeaders'
<1> USE RevocationAssumption
<1>1. \A p \in Requests \ {q} : Leads(p)' <=> Leads(p)
  BY DEF Leads
<1>2. \A p \in leads' : pc'[p] \in {"read", "land", "publish"}
  <2>1. leads' \subseteq Requests
    BY DEF TypeOK
  <2>2. \A p \in leads : pc[p] \in {"read", "land", "publish"}
    BY DEF FlightsHaveLeaders
  <2> QED BY <2>1, <2>2
<1>3. flight \in [Workers -> SUBSET Users] /\ At[q] \in Workers /\ Of[q] \in Users
  BY DEF FlightsHaveLeaders, TypeOK
<1>4. CASE flight' = flight /\ (Leads(q)' <=> Leads(q))
  <2>1. \A p \in Requests : Leads(p)' <=> Leads(p)
    BY <1>1, <1>4
  <2> QED BY <1>2, <1>4, <2>1 DEF FlightsHaveLeaders
<1>5. CASE /\ Of[q] \notin flight[At[q]] /\ Leads(q)'
           /\ flight' = [flight EXCEPT ![At[q]] = @ \union {Of[q]}]
  <2>1. \A p \in Requests : Leads(p) => At[p] # At[q] \/ Of[p] # Of[q]
    BY <1>5 DEF FlightsHaveLeaders
  <2>2. \A w \in Workers : flight'[w] = IF w = At[q] THEN flight[w] \union {Of[q]} ELSE flight[w]
    BY <1>3, <1>5
  <2>3. \A p \in Requests : Leads(p)' => Of[p] \in flight'[At[p]]
    <3> SUFFICES ASSUME NEW p \in Requests, Leads(p)' PROVE Of[p] \in flight'[At[p]]
      OBVIOUS
    <3>1. At[p] \in Workers
      OBVIOUS
    <3>2. CASE p = q
      BY <2>2, <3>1, <3>2
    <3>3. CASE p # q
      <4>1. Of[p] \in flight[At[p]]
        BY <1>1, <3>3 DEF FlightsHaveLeaders
      <4> QED BY <2>2, <3>1, <4>1
    <3> QED BY <3>2, <3>3
  <2>4. \A w \in Workers : \A u \in flight'[w] :
           \E p \in Requests : At[p] = w /\ Of[p] = u /\ Leads(p)'
    <3> TAKE w \in Workers
    <3> TAKE u \in flight'[w]
    <3>1. CASE w = At[q] /\ u = Of[q]
      BY <1>5, <3>1
    <3>2. CASE ~(w = At[q] /\ u = Of[q])
      <4>1. u \in flight[w]
        <5>1. flight'[w] = IF w = At[q] THEN flight[w] \union {Of[q]} ELSE flight[w]
          BY <2>2
        <5> QED BY <3>2, <5>1
      <4>2. PICK p \in Requests : At[p] = w /\ Of[p] = u /\ Leads(p)
        BY <4>1 DEF FlightsHaveLeaders
      <4> QED BY <1>1, <3>2, <4>2
    <3> QED BY <3>1, <3>2
  <2>5. \A p, x \in Requests :
           Leads(p)' /\ Leads(x)' /\ At[p] = At[x] /\ Of[p] = Of[x] => p = x
    BY <1>1, <2>1 DEF FlightsHaveLeaders
  <2> QED BY <1>2, <2>3, <2>4, <2>5 DEF FlightsHaveLeaders
<1>6. CASE /\ Leads(q) /\ ~Leads(q)'
           /\ flight' = [flight EXCEPT ![At[q]] = @ \ {Of[q]}]
  <2>1. \A p \in Requests \ {q} : Leads(p) => At[p] # At[q] \/ Of[p] # Of[q]
    BY <1>6 DEF FlightsHaveLeaders
  <2>2. \A w \in Workers : flight'[w] = IF w = At[q] THEN flight[w] \ {Of[q]} ELSE flight[w]
    BY <1>3, <1>6
  <2>3. \A p \in Requests : Leads(p)' => Of[p] \in flight'[At[p]]
    <3> SUFFICES ASSUME NEW p \in Requests, Leads(p)' PROVE Of[p] \in flight'[At[p]]
      OBVIOUS
    <3>1. At[p] \in Workers /\ p # q
      BY <1>6
    <3>2. Leads(p) /\ Of[p] \in flight[At[p]]
      BY <1>1, <3>1 DEF FlightsHaveLeaders
    <3> QED BY <2>1, <2>2, <3>1, <3>2
  <2>4. \A w \in Workers : \A u \in flight'[w] :
           \E p \in Requests : At[p] = w /\ Of[p] = u /\ Leads(p)'
    <3> TAKE w \in Workers
    <3> TAKE u \in flight'[w]
    <3>1. u \in flight[w] /\ ~(w = At[q] /\ u = Of[q])
      BY <2>2
    <3>2. PICK p \in Requests : At[p] = w /\ Of[p] = u /\ Leads(p)
      BY <3>1 DEF FlightsHaveLeaders
    <3> QED BY <1>1, <3>1, <3>2
  <2>5. \A p, x \in Requests :
           Leads(p)' /\ Leads(x)' /\ At[p] = At[x] /\ Of[p] = Of[x] => p = x
    BY <1>1, <1>6 DEF FlightsHaveLeaders
  <2> QED BY <1>2, <2>3, <2>4, <2>5 DEF FlightsHaveLeaders
<1> QED BY <1>4, <1>5, <1>6

LEMMA NextFlights ==
  ASSUME FlightsHaveLeaders, [Next]_vars
  PROVE  FlightsHaveLeaders'
<1> USE RevocationAssumption
<1>t. TypeOK /\ TypeOK'
  BY NextTyped DEF FlightsHaveLeaders
<1>l. \A q \in Requests : q \in leads => pc[q] \in {"read", "land", "publish"}
  BY DEF FlightsHaveLeaders
<1>1. ASSUME NEW q \in Requests, Begin(q) \/ Follow(q) PROVE FlightsHaveLeaders'
  <2>1. q \notin leads /\ ~Leads(q)
    BY <1>1, <1>l DEF Begin, Follow, Leads
  <2>2. CASE Hit(q)
    <3>1. /\ flight' = flight /\ leads' = leads \ {q}
          /\ \A p \in Requests \ {q} : pc'[p] = pc[p]
      BY <1>t, <2>2 DEF Hit, Forget, TypeOK
    <3>2. ~Leads(q)'
      BY <3>1 DEF Leads
    <3> QED BY <1>t, <2>1, <3>1, <3>2, FlightsKept
  <2>3. CASE Miss(q) /\ ~Hit(q)
    <3>1. \/ /\ UNCHANGED <<leads, flight>>
             /\ \A p \in Requests \ {q} : pc'[p] = pc[p]
          \/ /\ pc'[q] = "read" /\ \A p \in Requests \ {q} : pc'[p] = pc[p]
             /\ Of[q] \notin flight[At[q]] /\ leads' = leads \union {q}
             /\ flight' = [flight EXCEPT ![At[q]] = @ \union {Of[q]}]
      BY <1>1, <1>t, <2>3 DEF Begin, Follow, TypeOK
    <3>2. CASE UNCHANGED <<leads, flight>> /\ \A p \in Requests \ {q} : pc'[p] = pc[p]
      <4>1. ~Leads(q)'
        BY <2>1, <3>2 DEF Leads
      <4> QED BY <1>t, <2>1, <3>2, <4>1, FlightsKept
    <3>3. CASE /\ pc'[q] = "read" /\ \A p \in Requests \ {q} : pc'[p] = pc[p]
               /\ Of[q] \notin flight[At[q]] /\ leads' = leads \union {q}
               /\ flight' = [flight EXCEPT ![At[q]] = @ \union {Of[q]}]
      <4>1. Leads(q)'
        BY <3>3 DEF Leads
      <4> QED BY <1>t, <3>3, <4>1, FlightsKept
    <3> QED BY <3>1, <3>2, <3>3
  <2> QED BY <1>1, <2>2, <2>3 DEF Begin, Follow
<1>2. ASSUME NEW q \in Requests, Read(q) PROVE FlightsHaveLeaders'
  <2>1. /\ UNCHANGED <<leads, flight>> /\ pc[q] = "read"
        /\ pc'[q] = IF q \in leads THEN "land" ELSE "publish"
        /\ \A p \in Requests \ {q} : pc'[p] = pc[p]
    BY <1>2, <1>t DEF Read, local, TypeOK
  <2>2. Leads(q)' <=> Leads(q)
    BY <2>1 DEF Leads
  <2> QED BY <1>t, <2>1, <2>2, FlightsKept
<1>3. ASSUME NEW q \in Requests, Landed(q) \/ ReadFails(q) PROVE FlightsHaveLeaders'
  <2>1. /\ pc[q] \in {"read", "land"} /\ pc'[q] \in {"publish", "failed"}
        /\ pc'[q] = "failed" => q \notin leads'
        /\ \A p \in Requests \ {q} : pc'[p] = pc[p] /\ (p \in leads' <=> p \in leads)
        /\ flight' = IF q \in leads THEN [flight EXCEPT ![At[q]] = @ \ {Of[q]}] ELSE flight
    BY <1>3, <1>t DEF Landed, ReadFails, Land, Forget, TypeOK
  <2>2. ~Leads(q)' /\ (Leads(q) <=> q \in leads)
    BY <2>1 DEF Leads
  <2> QED BY <1>t, <2>1, <2>2, FlightsKept
<1>4. ASSUME NEW q \in Requests, Publish(q) PROVE FlightsHaveLeaders'
  <2>1. /\ pc[q] = "publish" /\ leads' = leads \ {q} /\ flight' = flight
        /\ \A p \in Requests \ {q} : pc'[p] = pc[p]
    BY <1>4, <1>t DEF Publish, Forget, TypeOK
  <2>2. ~Leads(q)' /\ ~Leads(q)
    BY <2>1 DEF Leads
  <2> QED BY <1>t, <2>1, <2>2, FlightsKept
<1>5. CASE UNCHANGED <<leads, flight, pc>>
  BY <1>t, <1>5 DEF FlightsHaveLeaders, Leads
<1>6. ASSUME NEW r \in Revokers, HandlerStep(r) PROVE UNCHANGED <<leads, flight, pc>>
  BY <1>6 DEF HandlerStep, Load, Commit, Invalidate, Broadcast, Dropped, local, request
<1>7. ASSUME NEW w \in Workers, Receive(w) PROVE UNCHANGED <<leads, flight, pc>>
  BY <1>7 DEF Receive, Dropped, request
<1>8. ASSUME \/ \E u \in Users : SignIn(u)
             \/ Tick \/ UNCHANGED vars
      PROVE  UNCHANGED <<leads, flight, pc>>
  BY <1>8 DEF SignIn, Tick, vars, local, request
<1> QED
  BY <1>1, <1>2, <1>3, <1>4, <1>5, <1>6, <1>7, <1>8 DEF Next, RequestStep

(* One leader per user and worker, and the Event of each is there to find. *)
THEOREM SingleFlight == Spec => []OneLeader
<1>1. Init => FlightsHaveLeaders
  BY InitTyped, RevocationAssumption DEF Init, FlightsHaveLeaders, Leads
<1>2. FlightsHaveLeaders /\ [Next]_vars => FlightsHaveLeaders'
  BY NextFlights
<1>3. ASSUME FlightsHaveLeaders PROVE OneLeader
  <2> SUFFICES ASSUME NEW w \in Workers, NEW u \in Users
               PROVE  Cardinality({q \in Requests : At[q] = w /\ Of[q] = u /\ Leads(q)})
                        = IF u \in flight[w] THEN 1 ELSE 0
    BY DEF OneLeader
  <2> DEFINE leaders == {q \in Requests : At[q] = w /\ Of[q] = u /\ Leads(q)}
  <2>1. CASE u \in flight[w]
    <3>1. PICK q \in Requests : At[q] = w /\ Of[q] = u /\ Leads(q)
      BY <1>3, <2>1 DEF FlightsHaveLeaders
    <3>2. leaders = {q}
      BY <1>3, <3>1 DEF FlightsHaveLeaders
    <3> QED BY <2>1, <3>2, FS_Singleton
  <2>2. CASE u \notin flight[w]
    <3>1. leaders = {}
      BY <1>3, <2>2 DEF FlightsHaveLeaders
    <3> QED BY <2>2, <3>1, FS_EmptySet
  <2> QED BY <2>1, <2>2
<1> QED BY <1>1, <1>2, <1>3, PTL DEF Spec

----------------------------------------------------------------------------
(* Versions, where handlers of one user do not overlap                     *)

LEMMA InitVersions == Init => VersionsInOrder
  BY InitTyped DEF Init, VersionsInOrder, Pending

(* What no handler but those that load and commit changes.                 *)
LEMMA VersionsKept ==
  ASSUME VersionsInOrder, TypeOK', UNCHANGED <<version, bumpedAt, sessions, loaded>>,
         clock' \in {clock, clock + 1},
         \A s \in Revokers : Pending(s)' => Pending(s)
  PROVE  VersionsInOrder'
<1>1. \A u \in Users : \A n \in 1..version[u] : bumpedAt[u][n] \in Nat
  BY DEF VersionsInOrder, TypeOK
<1>2. \A u \in Users : \A n \in 1..version[u] : bumpedAt[u][n] <= clock'
  BY <1>1 DEF VersionsInOrder, TypeOK
<1>3. \A s \in Revokers : Pending(s)' =>
          /\ loaded'[s] = version'[Target[s]]
          /\ \A x \in Revokers : Pending(x)' /\ Target[x] = Target[s] => x = s
  BY DEF VersionsInOrder
<1> QED BY <1>2, <1>3 DEF VersionsInOrder

LEMMA LoadVersions ==
  ASSUME ~Overlap, VersionsInOrder, TypeOK', NEW r \in Revokers, Load(r)
  PROVE  VersionsInOrder'
<1>t. TypeOK
  BY DEF VersionsInOrder
<1>1. /\ UNCHANGED <<clock, version, bumpedAt, sessions>>
      /\ rpc'[r] = "loaded" /\ loaded'[r] = version[Target[r]]
      /\ \A s \in Revokers \ {r} : rpc'[s] = rpc[s] /\ loaded'[s] = loaded[s]
  BY <1>t DEF Load, Advance, account, TypeOK
<1>2. \A s \in Revokers : Target[s] = Target[r] => ~Pending(s)
  BY DEF Load
<1>3. \A s \in Revokers \ {r} : Pending(s)' <=> Pending(s)
  BY <1>1 DEF Pending
<1>4. \A s \in Revokers : Pending(s)' =>
          /\ loaded'[s] = version'[Target[s]]
          /\ \A x \in Revokers : Pending(x)' /\ Target[x] = Target[s] => x = s
  BY <1>1, <1>2, <1>3 DEF VersionsInOrder
<1> QED BY <1>1, <1>4 DEF VersionsInOrder

(* A commit makes one version more than the user had.                      *)
LEMMA CommitNumbers ==
  ASSUME VersionsInOrder, NEW r \in Revokers, Commit(r)
  PROVE  /\ Target[r] \in Users /\ Pending(r) /\ ~Pending(r)'
         /\ \A s \in Revokers \ {r} : Pending(s)' <=> Pending(s)
         /\ UNCHANGED <<clock, sessions, loaded>>
         /\ version'[Target[r]] = version[Target[r]] + 1
         /\ bumpedAt'[Target[r]] = Append(bumpedAt[Target[r]], clock)
         /\ \A u \in Users \ {Target[r]} : version'[u] = version[u] /\ bumpedAt'[u] = bumpedAt[u]
<1>t. TypeOK /\ Target[r] \in Users
  BY RevocationAssumption DEF VersionsInOrder
<1>1. Pending(r)
  BY DEF Commit, Advance, Pending
<1>2. /\ UNCHANGED <<clock, sessions, loaded>>
      /\ ~Pending(r)' /\ \A s \in Revokers \ {r} : Pending(s)' <=> Pending(s)
  BY <1>t DEF Commit, Advance, Pending, TypeOK
<1>3. loaded[r] = version[Target[r]] /\ Len(bumpedAt[Target[r]]) = version[Target[r]]
  BY <1>t, <1>1 DEF VersionsInOrder
<1>4. /\ version[Target[r]] \in Nat
      /\ version' = [version EXCEPT ![Target[r]] = loaded[r] + 1]
      /\ bumpedAt' = [bumpedAt EXCEPT ![Target[r]] =
                         IF loaded[r] + 1 > Len(@) THEN Append(@, clock) ELSE @]
  BY <1>t DEF Commit, TypeOK
<1>5. version'[Target[r]] = version[Target[r]] + 1
  BY <1>t, <1>3, <1>4 DEF TypeOK
<1>6. bumpedAt'[Target[r]] = Append(bumpedAt[Target[r]], clock)
  BY <1>t, <1>3, <1>4 DEF TypeOK
<1>7. \A u \in Users \ {Target[r]} : version'[u] = version[u] /\ bumpedAt'[u] = bumpedAt[u]
  BY <1>t, <1>4 DEF TypeOK
<1> QED BY <1>t, <1>1, <1>2, <1>5, <1>6, <1>7

LEMMA CommitVersions ==
  ASSUME VersionsInOrder, TypeOK', NEW r \in Revokers, Commit(r)
  PROVE  VersionsInOrder'
<1> DEFINE u == Target[r]
<1>t. TypeOK /\ TypeOK'
  BY DEF VersionsInOrder
<1>1. /\ u \in Users /\ Pending(r) /\ ~Pending(r)'
      /\ \A s \in Revokers \ {r} : Pending(s)' <=> Pending(s)
      /\ UNCHANGED <<clock, sessions, loaded>>
      /\ version'[u] = version[u] + 1 /\ bumpedAt'[u] = Append(bumpedAt[u], clock)
      /\ \A v \in Users \ {u} : version'[v] = version[v] /\ bumpedAt'[v] = bumpedAt[v]
  BY CommitNumbers
<1>2. /\ bumpedAt[u] \in Seq(Nat) /\ version[u] \in Nat /\ clock \in Nat
      /\ sessions[u] \subseteq Nat
  BY <1>t, <1>1 DEF TypeOK
<1>3. ASSUME NEW v \in Users
      PROVE  /\ \A n \in sessions'[v] : n <= version'[v]
             /\ Len(bumpedAt'[v]) = version'[v]
             /\ \A n \in 1..version'[v] : bumpedAt'[v][n] <= clock'
  <2>1. /\ \A n \in sessions[v] : n <= version[v]
        /\ Len(bumpedAt[v]) = version[v]
        /\ \A n \in 1..version[v] : bumpedAt[v][n] <= clock
    BY DEF VersionsInOrder
  <2>2. CASE v # u
    BY <1>1, <2>1, <2>2
  <2>3. CASE v = u
    <3>1. \A n \in sessions'[v] : n <= version'[v]
      BY <1>1, <1>2, <2>1, <2>3
    <3>2. Len(bumpedAt'[v]) = version'[v]
      BY <1>1, <1>2, <2>1, <2>3
    <3>3. ASSUME NEW n \in 1..version'[v] PROVE bumpedAt'[v][n] <= clock'
      <4>1. n \in 1..version[u] \/ n = version[u] + 1
        BY <1>1, <1>2, <2>3
      <4>2. bumpedAt'[v][n] = IF n = version[u] + 1 THEN clock ELSE bumpedAt[u][n]
        BY <1>1, <1>2, <2>1, <2>3, <4>1
      <4> QED BY <1>1, <1>2, <2>1, <2>3, <4>1, <4>2
    <3> QED BY <3>1, <3>2, <3>3
  <2> QED BY <2>2, <2>3
<1>4. \A s \in Revokers \ {r} : Pending(s) => Target[s] # u
  BY <1>1 DEF VersionsInOrder
<1>5. \A s \in Revokers : Pending(s)' => Target[s] \in Users \ {u} /\ Pending(s)
  BY <1>1, <1>4, RevocationAssumption
<1>6. \A s \in Revokers : Pending(s)' =>
          /\ loaded'[s] = version'[Target[s]]
          /\ \A x \in Revokers : Pending(x)' /\ Target[x] = Target[s] => x = s
  BY <1>1, <1>5 DEF VersionsInOrder
<1> QED BY <1>t, <1>3, <1>6 DEF VersionsInOrder

LEMMA NextVersions ==
  ASSUME ~Overlap, VersionsInOrder, [Next]_vars
  PROVE  VersionsInOrder'
<1>t. TypeOK /\ TypeOK'
  BY NextTyped DEF VersionsInOrder
<1>1. ASSUME NEW q \in Requests, RequestStep(q) PROVE VersionsInOrder'
  <2>1. UNCHANGED <<clock, version, bumpedAt, sessions, rpc, loaded>>
    BY <1>1 DEF RequestStep, Begin, Follow, Read, Landed, ReadFails, Land, Publish,
                account, handler
  <2> QED BY <1>t, <2>1, VersionsKept DEF Pending
<1>2. ASSUME NEW r \in Revokers, Load(r) PROVE VersionsInOrder'
  BY <1>2, <1>t, LoadVersions
<1>3. ASSUME NEW r \in Revokers, Commit(r) PROVE VersionsInOrder'
  BY <1>3, <1>t, CommitVersions
<1>4. ASSUME NEW r \in Revokers, Invalidate(r) \/ Broadcast(r) PROVE VersionsInOrder'
  <2>1. UNCHANGED <<clock, version, bumpedAt, sessions, loaded>>
    BY <1>4 DEF Invalidate, Broadcast, account
  <2>2. \A s \in Revokers \ {r} : rpc'[s] = rpc[s]
    BY <1>4, <1>t DEF Invalidate, Broadcast, Advance, TypeOK
  <2>3. Pending(r)' => Pending(r)
    BY <1>4, <1>t DEF Invalidate, Broadcast, Advance, TypeOK, Pending
  <2>4. \A s \in Revokers : Pending(s)' => Pending(s)
    BY <2>2, <2>3 DEF Pending
  <2> QED BY <1>t, <2>1, <2>4, VersionsKept
<1>5. ASSUME NEW u \in Users, SignIn(u) PROVE VersionsInOrder'
  <2>1. /\ UNCHANGED <<clock, version, bumpedAt, rpc, loaded>>
        /\ \A v \in Users : sessions'[v] \subseteq sessions[v] \union {version[v]}
    BY <1>5, <1>t DEF SignIn, handler, TypeOK
  <2>2. \A v \in Users : \A n \in sessions'[v] : n <= version'[v]
    BY <1>t, <2>1 DEF VersionsInOrder, TypeOK
  <2> QED BY <1>t, <2>1, <2>2 DEF VersionsInOrder, Pending
<1>6. ASSUME (\E w \in Workers : Receive(w)) \/ Tick \/ UNCHANGED vars PROVE VersionsInOrder'
  <2>1. UNCHANGED <<version, bumpedAt, sessions, rpc, loaded>> /\ clock' \in {clock, clock + 1}
    BY <1>6 DEF Receive, Tick, vars, account, handler
  <2> QED BY <1>t, <2>1, VersionsKept DEF Pending
<1> QED
  BY <1>1, <1>2, <1>3, <1>4, <1>5, <1>6 DEF Next, HandlerStep

----------------------------------------------------------------------------
(* The age of an entry                                                     *)

(* Types of what the bounds compare                                        *)
LEMMA AgesTyped ==
  ASSUME VersionsInOrder
  PROVE  /\ clock \in Nat /\ TTL \in Nat /\ MaxRead \in Nat
         /\ \A u \in Users : /\ version[u] \in Nat
                             /\ \A n \in 1..version[u] : bumpedAt[u][n] \in Nat
         /\ \A q \in Requests : readAt[q] \in Nat /\ answer[q] \in Nat /\ Of[q] \in Users
         /\ \A w \in Workers, u \in Users : cache[w][u] # NoEntry =>
               cache[w][u].exp \in Nat /\ cache[w][u].ver \in Nat
<1>1. TypeOK
  BY DEF VersionsInOrder
<1>2. \A u \in Users : version[u] \in Nat /\ bumpedAt[u] \in Seq(Nat) /\ Len(bumpedAt[u]) = version[u]
  BY <1>1 DEF VersionsInOrder, TypeOK
<1>3. \A u \in Users : \A n \in 1..version[u] : bumpedAt[u][n] \in Nat
  BY <1>2
<1>4. \A q \in Requests : readAt[q] \in Nat /\ answer[q] \in Nat /\ Of[q] \in Users
  BY <1>1, RevocationAssumption DEF TypeOK
<1>5. \A w \in Workers, u \in Users : cache[w][u] # NoEntry =>
         cache[w][u].exp \in Nat /\ cache[w][u].ver \in Nat
  BY <1>1, Ranges DEF Entries
<1> QED BY <1>1, <1>2, <1>3, <1>4, <1>5, RevocationAssumption DEF TypeOK

(* A step that commits nothing, while the clock stands.                    *)
LEMMA AgesKept ==
  ASSUME AgesBounded, VersionsInOrder', UNCHANGED <<clock, version, bumpedAt>>,
         \A q \in Requests : \/ pc'[q] \notin {"land", "publish"}
                             \/ /\ pc[q] \in {"land", "publish"}
                                /\ readAt'[q] = readAt[q] /\ answer'[q] = answer[q]
                             \/ ReadInTime(q)',
         \A w \in Workers, u \in Users :
            cache'[w][u] \in {NoEntry, cache[w][u]} \/ EntryInTime(w, u)'
  PROVE  AgesBounded'
<1>1. \A q \in Requests : ReadInTime(q)'
  BY DEF AgesBounded, ReadInTime
<1>2. ASSUME NEW w \in Workers, NEW u \in Users PROVE EntryInTime(w, u)'
  BY DEF AgesBounded, EntryInTime
<1> QED BY <1>1, <1>2 DEF AgesBounded

(* What is published was read within MaxRead, before the next version.     *)
LEMMA PublishAges ==
  ASSUME AgesBounded, VersionsInOrder', NEW q \in Requests, Publish(q)
  PROVE  AgesBounded'
<1>t. TypeOK /\ VersionsInOrder
  BY DEF AgesBounded, VersionsInOrder
<1>1. /\ UNCHANGED <<clock, version, bumpedAt, answer>> /\ pc[q] = "publish"
      /\ pc'[q] = "answered"
      /\ \A p \in Requests \ {q} : pc'[p] = pc[p] /\ readAt'[p] = readAt[p]
  BY <1>t DEF Publish, Forget, account, TypeOK
<1>2. ASSUME NEW w \in Workers, NEW u \in Users
      PROVE  cache'[w][u] \in {NoEntry, cache[w][u]} \/ EntryInTime(w, u)'
  <2>1. \/ cache'[w][u] \in {NoEntry, cache[w][u]}
        \/ u = Of[q] /\ cache'[w][u] = Entry(q)
    BY <1>t, PublishWrites
  <2>2. CASE u = Of[q] /\ cache'[w][u] = Entry(q)
    <3>1. Entry(q).exp = clock + TTL /\ Entry(q).ver = answer[q]
      BY DEF Entry
    <3>2. ReadInTime(q)
      BY DEF AgesBounded
    <3>3. /\ clock \in Nat /\ TTL \in Nat /\ MaxRead \in Nat /\ readAt[q] \in Nat
          /\ version[u] \in Nat /\ answer[q] \in Nat
          /\ \A n \in 1..version[u] : bumpedAt[u][n] \in Nat
      BY <1>t, AgesTyped
    <3>4. /\ clock <= readAt[q] + MaxRead /\ answer[q] <= version[u]
          /\ answer[q] < version[u] => readAt[q] <= bumpedAt[u][answer[q] + 1]
      BY <1>1, <2>2, <3>2 DEF ReadInTime
    <3>5. answer[q] < version[u] => clock + TTL <= bumpedAt[u][answer[q] + 1] + MaxRead + TTL
      <4> SUFFICES ASSUME answer[q] < version[u]
                   PROVE  clock + TTL <= bumpedAt[u][answer[q] + 1] + MaxRead + TTL
        OBVIOUS
      <4>1. bumpedAt[u][answer[q] + 1] \in Nat
        BY <3>3
      <4> QED BY <3>3, <3>4, <4>1
    <3> QED BY <1>1, <2>2, <3>1, <3>3, <3>4, <3>5 DEF EntryInTime
  <2> QED BY <2>1, <2>2
<1> QED BY <1>1, <1>2, AgesKept

(* A commit ages the readers and entries that had its user's last version  *)
(* from now on.                                                            *)
LEMMA CommitAges ==
  ASSUME AgesBounded, VersionsInOrder', NEW r \in Revokers, Commit(r)
  PROVE  AgesBounded'
<1> DEFINE u == Target[r]
<1>t. TypeOK /\ VersionsInOrder
  BY DEF AgesBounded, VersionsInOrder
<1>1. /\ u \in Users /\ clock' = clock /\ version'[u] = version[u] + 1
      /\ bumpedAt'[u] = Append(bumpedAt[u], clock)
      /\ \A v \in Users \ {u} : version'[v] = version[v] /\ bumpedAt'[v] = bumpedAt[v]
  BY <1>t, CommitNumbers
<1>2. UNCHANGED <<cache, pc, readAt, answer>>
  BY DEF Commit, local, request
<1>3. bumpedAt[u] \in Seq(Nat) /\ Len(bumpedAt[u]) = version[u] /\ version[u] \in Nat
  BY <1>t, <1>1 DEF VersionsInOrder, TypeOK
<1>4. ASSUME NEW n \in Nat, n <= version[u]
      PROVE  bumpedAt'[u][n + 1] = IF n = version[u] THEN clock ELSE bumpedAt[u][n + 1]
  BY <1>1, <1>3, <1>4
<1>5. /\ u \in Users /\ clock' = clock /\ version'[u] = version[u] + 1
      /\ \A v \in Users \ {u} : version'[v] = version[v] /\ bumpedAt'[v] = bumpedAt[v]
  BY <1>1
<1> HIDE DEF u
<1>6. ASSUME NEW q \in Requests PROVE ReadInTime(q)'
  <2>1. ReadInTime(q) /\ readAt[q] \in Nat /\ answer[q] \in Nat /\ Of[q] \in Users /\ clock \in Nat
    BY <1>t, AgesTyped DEF AgesBounded
  <2>2. CASE Of[q] # u
    BY <1>2, <1>5, <2>1, <2>2 DEF ReadInTime
  <2>3. CASE Of[q] = u
    <3> SUFFICES ASSUME pc[q] \in {"land", "publish"} PROVE ReadInTime(q)'
      BY <1>2 DEF ReadInTime
    <3>1. /\ readAt[q] <= clock /\ clock <= readAt[q] + MaxRead /\ answer[q] <= version[u]
          /\ answer[q] < version[u] => readAt[q] <= bumpedAt[u][answer[q] + 1]
      BY <2>1, <2>3 DEF ReadInTime
    <3>2. readAt[q] <= bumpedAt'[u][answer[q] + 1]
      <4>1. bumpedAt'[u][answer[q] + 1]
              = IF answer[q] = version[u] THEN clock ELSE bumpedAt[u][answer[q] + 1]
        BY <1>4, <2>1, <3>1
      <4>2. answer[q] = version[u] \/ answer[q] < version[u]
        BY <1>3, <2>1, <3>1
      <4> QED BY <3>1, <4>1, <4>2
    <3>3. answer[q] <= version[u] + 1
      BY <1>3, <2>1, <3>1
    <3> QED BY <1>2, <1>5, <2>3, <3>1, <3>2, <3>3 DEF ReadInTime
  <2> QED BY <2>2, <2>3
<1>7. ASSUME NEW w \in Workers, NEW v \in Users PROVE EntryInTime(w, v)'
  <2>1. EntryInTime(w, v) /\ cache'[w][v] = cache[w][v]
    BY <1>2 DEF AgesBounded
  <2>2. CASE cache[w][v] = NoEntry
    BY <2>1, <2>2 DEF EntryInTime
  <2>3. CASE cache[w][v] # NoEntry /\ v # u
    BY <1>5, <2>1, <2>3 DEF EntryInTime
  <2>4. CASE cache[w][v] # NoEntry /\ v = u
    <3> DEFINE e == cache[w][v]
    <3>1. /\ e.exp \in Nat /\ e.ver \in Nat
          /\ clock \in Nat /\ TTL \in Nat /\ MaxRead \in Nat
      BY <1>t, <2>4, AgesTyped
    <3>2. /\ e.exp <= clock + TTL /\ e.ver <= version[u]
          /\ e.ver < version[u] => e.exp <= bumpedAt[u][e.ver + 1] + MaxRead + TTL
      BY <2>1, <2>4 DEF EntryInTime
    <3>3. cache'[w][v] = e
      BY <2>1
    <3> HIDE DEF e
    <3>4. e.exp <= bumpedAt'[u][e.ver + 1] + MaxRead + TTL
      <4>1. CASE e.ver = version[u]
        <5>1. bumpedAt'[u][e.ver + 1] = clock
          BY <1>4, <3>1, <4>1
        <5> QED BY <3>1, <3>2, <5>1
      <4>2. CASE e.ver < version[u]
        <5>1. bumpedAt'[u][e.ver + 1] = bumpedAt[u][e.ver + 1]
          <6>1. version[u] \in Nat /\ e.ver # version[u] /\ e.ver <= version[u]
            BY <1>3, <3>1, <4>2
          <6> QED BY <1>4, <3>1, <6>1
        <5> QED BY <3>2, <4>2, <5>1
      <4> QED BY <1>3, <3>1, <3>2, <4>1, <4>2
    <3>5. e.ver <= version[u] + 1
      BY <1>3, <3>1, <3>2
    <3> QED BY <1>5, <2>4, <3>2, <3>3, <3>4, <3>5 DEF EntryInTime
  <2> QED BY <2>2, <2>3, <2>4
<1> QED BY <1>6, <1>7 DEF AgesBounded

LEMMA NextAges ==
  ASSUME ~Overlap, AgesBounded, [Next]_vars
  PROVE  AgesBounded'
<1>t. TypeOK /\ VersionsInOrder /\ VersionsInOrder'
  BY NextVersions DEF AgesBounded, VersionsInOrder
<1>1. ASSUME NEW q \in Requests, Begin(q) \/ Follow(q) \/ ReadFails(q) \/ Landed(q)
      PROVE  AgesBounded'
  <2>1. /\ UNCHANGED <<clock, version, bumpedAt, cache>>
        /\ \/ pc'[q] \notin {"land", "publish"}
           \/ pc[q] = "land" /\ readAt'[q] = readAt[q] /\ answer'[q] = answer[q]
        /\ \A p \in Requests \ {q} :
              pc'[p] = pc[p] /\ readAt'[p] = readAt[p] /\ answer'[p] = answer[p]
    BY <1>1, <1>t DEF Begin, Follow, Hit, Miss, ReadFails, Landed, Land, Forget, account, TypeOK
  <2> QED BY <1>t, <2>1, AgesKept
<1>2. ASSUME NEW q \in Requests, Read(q) PROVE AgesBounded'
  <2>1. /\ UNCHANGED <<clock, version, bumpedAt, cache>>
        /\ readAt'[q] = clock /\ answer'[q] = version[Of[q]]
        /\ \A p \in Requests \ {q} :
              pc'[p] = pc[p] /\ readAt'[p] = readAt[p] /\ answer'[p] = answer[p]
    BY <1>2, <1>t DEF Read, account, local, TypeOK
  <2>2. clock \in Nat /\ MaxRead \in Nat /\ version[Of[q]] \in Nat
    BY <1>t, AgesTyped
  <2>3. ReadInTime(q)'
    BY <2>1, <2>2 DEF ReadInTime
  <2> QED BY <1>t, <2>1, <2>3, AgesKept
<1>3. ASSUME NEW q \in Requests, Publish(q) PROVE AgesBounded'
  BY <1>3, <1>t, PublishAges
<1>4. ASSUME NEW r \in Revokers, Commit(r) PROVE AgesBounded'
  BY <1>4, <1>t, CommitAges
<1>5. ASSUME /\ UNCHANGED <<clock, version, bumpedAt, pc, readAt, answer>>
             /\ \/ cache' = cache
                \/ \E w \in Workers, u \in Users : cache' = [cache EXCEPT ![w][u] = NoEntry]
      PROVE  AgesBounded'
  <2>1. \A w \in Workers, u \in Users : cache'[w][u] \in {NoEntry, cache[w][u]}
    <3>1. CASE cache' = cache
      BY <3>1
    <3>2. CASE \E w \in Workers, u \in Users : cache' = [cache EXCEPT ![w][u] = NoEntry]
      <4>1. PICK w \in Workers, u \in Users : cache' = [cache EXCEPT ![w][u] = NoEntry]
        BY <3>2
      <4>2. cache \in [Workers -> [Users -> Entries]]
        BY <1>t DEF TypeOK
      <4> QED BY <4>1, <4>2, UpdatedEntry
    <3> QED BY <1>5, <3>1, <3>2
  <2> QED BY <1>5, <1>t, <2>1, AgesKept
<1>6. ASSUME NEW r \in Revokers, Load(r) \/ Broadcast(r) PROVE AgesBounded'
  BY <1>6, <1>5 DEF Load, Broadcast, account, local, request
<1>7. ASSUME NEW r \in Revokers, Invalidate(r) PROVE AgesBounded'
  <2>1. /\ UNCHANGED <<clock, version, bumpedAt, pc, readAt, answer>>
        /\ By[r] \in Workers /\ Target[r] \in Users
        /\ cache' = [cache EXCEPT ![By[r]][Target[r]] = NoEntry]
    BY <1>7, RevocationAssumption DEF Invalidate, Dropped, account, request
  <2> QED BY <2>1, <1>5
<1>8. ASSUME NEW w \in Workers, Receive(w) PROVE AgesBounded'
  <2>1. /\ UNCHANGED <<clock, version, bumpedAt, pc, readAt, answer>>
        /\ Head(inbox[w]) \in Users
        /\ cache' = [cache EXCEPT ![w][Head(inbox[w])] = NoEntry]
    BY <1>8, <1>t DEF Receive, Dropped, account, request, TypeOK
  <2> QED BY <2>1, <1>5
<1>9. ASSUME (\E u \in Users : SignIn(u)) \/ UNCHANGED vars PROVE AgesBounded'
  BY <1>9, <1>5 DEF SignIn, vars, account, local, request
<1>10. CASE Tick
  <2>1. /\ UNCHANGED <<version, bumpedAt, cache, pc, readAt, answer>> /\ clock' = clock + 1
        /\ \A q \in Requests : pc[q] \in {"land", "publish"} => clock < readAt[q] + MaxRead
    BY <1>10 DEF Tick, account, local, request
  <2>2. \A q \in Requests : ReadInTime(q)'
    BY <1>t, <2>1, AgesTyped DEF AgesBounded, ReadInTime
  <2>3. ASSUME NEW w \in Workers, NEW u \in Users PROVE EntryInTime(w, u)'
    <3>1. /\ EntryInTime(w, u) /\ clock \in Nat /\ TTL \in Nat
          /\ cache[w][u] # NoEntry => cache[w][u].exp \in Nat
      BY <1>t, AgesTyped DEF AgesBounded
    <3> QED BY <2>1, <3>1 DEF EntryInTime
  <2> QED BY <1>t, <2>2, <2>3 DEF AgesBounded
<1> QED
  BY <1>1, <1>2, <1>3, <1>4, <1>6, <1>7, <1>8, <1>9, <1>10 DEF Next, RequestStep, HandlerStep

(* "Bounded by the TTL elsewhere": however many broadcasts are lost, an    *)
(* entry that a revocation made stale is gone within the TTL and the time  *)
(* a read may have been under way.                                         *)
THEOREM StaleIsBounded ==
  ASSUME ~Overlap
  PROVE  Spec => []StaleBound
<1>1. ASSUME Init PROVE AgesBounded
  <2>1. \A q \in Requests : ReadInTime(q)
    BY <1>1 DEF Init, ReadInTime
  <2>2. \A w \in Workers, u \in Users : EntryInTime(w, u)
    BY <1>1 DEF Init, EntryInTime
  <2> QED BY <1>1, <2>1, <2>2, InitVersions DEF AgesBounded
<1>2. AgesBounded /\ [Next]_vars => AgesBounded'
  BY NextAges
<1>3. AgesBounded => StaleBound
  BY DEF AgesBounded, VersionsInOrder, EntryInTime, StaleBound
<1> QED BY <1>1, <1>2, <1>3, PTL DEF Spec

----------------------------------------------------------------------------
(* Revoked accounts stay revoked *)

(* A cache with room for every user evicts nothing and sweeps nothing.     *)
LEMMA NothingEvicted ==
  ASSUME RoomForAll, NEW full, NEW u, NEW w, NEW kept
  PROVE  Evicted(full, u) = {full} /\ Swept(w, full, kept) = gen[w]
<1>1. {v \in Users : full[v] # NoEntry} \subseteq Users
  OBVIOUS
<1>2. /\ Size(full) <= Cardinality(Users)
      /\ Size(full) \in Nat /\ Cardinality(Users) \in Nat
  BY <1>1, RevocationAssumption, FS_Subset, FS_CardinalityType DEF Size
<1>3. Size(full) <= CacheMax
  BY <1>2, RevocationAssumption DEF RoomForAll
<1> QED BY <1>3 DEF Evicted, Swept

LEMMA PublishUnevicted ==
  ASSUME RoomForAll, NEW q \in Requests, Publish(q)
  PROVE  \/ UNCHANGED <<cache, gen>>
         \/ /\ MayPublish(q)
            /\ cache' = [cache EXCEPT ![At[q]] = [cache[At[q]] EXCEPT ![Of[q]] = Entry(q)]]
            /\ gen' = [gen EXCEPT ![At[q]] = gen[At[q]]]
<1> DEFINE full == [cache[At[q]] EXCEPT ![Of[q]] = Entry(q)]
<1>1. Evicted(full, Of[q]) = {full}
  BY NothingEvicted
<1>2. \A kept : Swept(At[q], full, kept) = gen[At[q]]
  BY NothingEvicted
<1>3. \/ UNCHANGED <<cache, gen>>
      \/ /\ MayPublish(q)
         /\ \E kept \in Evicted(full, Of[q]) :
              /\ cache' = [cache EXCEPT ![At[q]] = kept]
              /\ gen' = [gen EXCEPT ![At[q]] = Swept(At[q], full, kept)]
  BY DEF Publish
<1> HIDE DEF full
<1>4. \/ UNCHANGED <<cache, gen>>
      \/ /\ MayPublish(q)
         /\ cache' = [cache EXCEPT ![At[q]] = full]
         /\ gen' = [gen EXCEPT ![At[q]] = gen[At[q]]]
  BY <1>1, <1>2, <1>3
<1> QED BY <1>4 DEF full

LEMMA InitRevocation == Init => RevocationInv
<1> SUFFICES ASSUME Init PROVE RevocationInv
  OBVIOUS
<1>1. /\ \A w \in Workers, u \in Users : cut[w][u] <= version[u]
      /\ NoStaleResurrection
  BY DEF Init, NoStaleResurrection
<1>2. \A q \in Requests : FreshReader(q)
  BY RevocationAssumption DEF Init, FreshReader, MayPublish
<1> QED BY <1>1, <1>2, InitVersions DEF RevocationInv


(* What a request's step leaves alone: everything but the request itself.  *)
Untouched(q) ==
    /\ UNCHANGED <<version, gen, cut>>
    /\ \A p \in Requests \ {q} :
          pc'[p] = pc[p] /\ captured'[p] = captured[p] /\ answer'[p] = answer[p]
            /\ floor'[p] = floor[p]

LEMMA RequestPreserves ==
  ASSUME RevocationInv, VersionsInOrder', NEW q \in Requests, Untouched(q),
         FreshReader(q)', NoStaleResurrection'
  PROVE  RevocationInv'
<1>1. \A p \in Requests : FreshReader(p)'
  BY DEF RevocationInv, Untouched, FreshReader, MayPublish
<1> QED BY <1>1 DEF RevocationInv, Untouched

(* A revocation takes effect in a worker: the entry goes, the generation   *)
(* moves past every reader, and the cut catches up with the database.      *)
LEMMA CutPreserves ==
  ASSUME RevocationInv, NEW w \in Workers, NEW u \in Users,
         Dropped(w, u), cut' = [cut EXCEPT ![w][u] = version[u]],
         UNCHANGED <<version, pc, captured, answer, floor>>
  PROVE  /\ \A x \in Workers, v \in Users : cut'[x][v] <= version'[v]
         /\ \A q \in Requests : FreshReader(q)'
         /\ NoStaleResurrection'
<1>t. TypeOK
  BY DEF RevocationInv, VersionsInOrder
<1>1. /\ cut'[w][u] = version[u] /\ cache'[w][u] = NoEntry /\ gen'[w][u] = gen[w][u] + 1
      /\ \A x \in Workers, v \in Users :
            x # w \/ v # u => /\ cut'[x][v] = cut[x][v] /\ gen'[x][v] = gen[x][v]
                             /\ cache'[x][v] = cache[x][v]
  <2>1. /\ cut \in [Workers -> [Users -> Nat]] /\ gen \in [Workers -> [Users -> Nat]]
        /\ cache \in [Workers -> [Users -> Entries]]
    BY <1>t DEF TypeOK
  <2>2. /\ cut' = [cut EXCEPT ![w][u] = version[u]]
        /\ cache' = [cache EXCEPT ![w][u] = NoEntry]
        /\ gen' = [gen EXCEPT ![w][u] = gen[w][u] + 1]
    BY DEF Dropped
  <2>3. \A x \in Workers, v \in Users :
          /\ x = w /\ v = u => cut'[x][v] = version[u]
          /\ x # w \/ v # u => cut'[x][v] = cut[x][v]
    BY <2>1, <2>2, UpdatedEntry
  <2>4. \A x \in Workers, v \in Users :
          /\ x = w /\ v = u => cache'[x][v] = NoEntry
          /\ x # w \/ v # u => cache'[x][v] = cache[x][v]
    BY <2>1, <2>2, UpdatedEntry
  <2>5. \A x \in Workers, v \in Users :
          /\ x = w /\ v = u => gen'[x][v] = gen[w][u] + 1
          /\ x # w \/ v # u => gen'[x][v] = gen[x][v]
    BY <2>1, <2>2, UpdatedEntry
  <2> QED BY <2>3, <2>4, <2>5
<1>2. \A x \in Workers, v \in Users : cut'[x][v] <= version'[v]
  BY <1>1, <1>t, Ranges DEF RevocationInv
<1>3. NoStaleResurrection'
  BY <1>1 DEF RevocationInv, NoStaleResurrection
<1>4. ASSUME NEW q \in Requests PROVE FreshReader(q)'
  <2>1. /\ At[q] \in Workers /\ Of[q] \in Users
        /\ captured[q] \in Nat /\ floor[q] \in Nat /\ answer[q] \in Nat
    BY <1>t, RevocationAssumption DEF TypeOK
  <2>2. /\ FreshReader(q) /\ cut[At[q]][Of[q]] <= version[Of[q]]
    BY <2>1 DEF RevocationInv
  <2>3. /\ gen[At[q]][Of[q]] \in Nat /\ cut[At[q]][Of[q]] \in Nat /\ version[Of[q]] \in Nat
    BY <1>t, <2>1, Ranges
  <2>4. CASE At[q] = w /\ Of[q] = u
    BY <1>1, <2>1, <2>2, <2>3, <2>4 DEF FreshReader, MayPublish
  <2>5. CASE At[q] # w \/ Of[q] # u
    BY <1>1, <2>1, <2>2, <2>5 DEF FreshReader, MayPublish
  <2> QED BY <2>4, <2>5
<1> QED BY <1>2, <1>3, <1>4

LEMMA NextRevocation ==
  ASSUME Premises
  PROVE  RevocationInv /\ [Next]_vars => RevocationInv'
<1> SUFFICES ASSUME RevocationInv, [Next]_vars PROVE RevocationInv'
  OBVIOUS
<1> USE RevocationAssumption
<1>t. TypeOK /\ TypeOK' /\ VersionsInOrder'
  BY NextVersions DEF RevocationInv, VersionsInOrder, Premises
<1>k. \A r \in Revokers : Kind[r] = "session"
  BY DEF Premises, CommitFirst
<1>q. ASSUME NEW q \in Requests
      PROVE  /\ At[q] \in Workers /\ Of[q] \in Users
             /\ captured[q] \in Nat /\ floor[q] \in Nat /\ answer[q] \in Nat
             /\ gen[At[q]][Of[q]] \in Nat /\ cut[At[q]][Of[q]] \in Nat
             /\ version[Of[q]] \in Nat /\ cut[At[q]][Of[q]] <= version[Of[q]]
             /\ FreshReader(q)
  <2>1. At[q] \in Workers /\ Of[q] \in Users
    OBVIOUS
  <2> QED BY <1>t, <2>1, Ranges DEF RevocationInv, TypeOK
<1>1. ASSUME NEW q \in Requests, Begin(q) \/ Follow(q) PROVE RevocationInv'
  <2>1. /\ UNCHANGED <<version, sessions, cache, gen, cut, rpc, loaded>>
        /\ floor'[q] \in {floor[q], cut[At[q]][Of[q]]}
        /\ \A p \in Requests \ {q} : floor'[p] = floor[p]
    BY <1>1, <1>t DEF Begin, Follow, account, handler, TypeOK
  <2>2. CASE Hit(q)
    <3>1. /\ pc'[q] = "answered" /\ captured'[q] = 0
          /\ answer'[q] = cache[At[q]][Of[q]].ver
      BY <1>t, <2>2 DEF Hit, Forget, TypeOK
    <3>2. answer'[q] >= cut[At[q]][Of[q]]
      BY <1>q, <2>2, <3>1 DEF RevocationInv, NoStaleResurrection, Hit, Live
    <3>3. answer'[q] \in Nat
      BY <1>t DEF TypeOK
    <3>4. FreshReader(q)'
      BY <1>q, <2>1, <3>1, <3>2, <3>3 DEF FreshReader
    <3>5. Untouched(q)
      BY <1>t, <2>1, <2>2 DEF Untouched, Hit, Forget, TypeOK
    <3> QED BY <1>t, <2>1, <3>4, <3>5, RequestPreserves DEF RevocationInv, NoStaleResurrection
  <2>3. CASE Miss(q) /\ ~Hit(q)
    <3>1. pc'[q] \in {"wait", "read"} /\ \A p \in Requests \ {q} : pc'[p] = pc[p]
      BY <1>1, <1>t, <2>3 DEF Begin, Follow, TypeOK
    <3>2. /\ captured'[q] = gen[At[q]][Of[q]] /\ answer' = answer
          /\ \A p \in Requests \ {q} : captured'[p] = captured[p]
      BY <1>t, <2>3 DEF Miss, TypeOK
    <3>3. FreshReader(q)'
      BY <1>q, <2>1, <3>1, <3>2 DEF FreshReader
    <3> QED BY <1>t, <2>1, <3>1, <3>2, <3>3, RequestPreserves
            DEF Untouched, RevocationInv, NoStaleResurrection
  <2> QED BY <1>1, <2>2, <2>3 DEF Begin, Follow
<1>2. ASSUME NEW q \in Requests, Read(q) PROVE RevocationInv'
  <2>1. /\ UNCHANGED <<version, sessions, cache, gen, cut, rpc, loaded, captured, floor>>
        /\ answer'[q] = version[Of[q]]
    BY <1>2, <1>t DEF Read, account, local, handler, TypeOK
  <2>2. FreshReader(q)'
    BY <1>q, <2>1 DEF FreshReader
  <2>3. Untouched(q)
    BY <1>2, <1>t, <2>1 DEF Untouched, Read, TypeOK
  <2> QED BY <1>t, <2>1, <2>2, <2>3, RequestPreserves DEF RevocationInv, NoStaleResurrection
<1>3. ASSUME NEW q \in Requests, Landed(q) \/ ReadFails(q) PROVE RevocationInv'
  <2>1. UNCHANGED <<version, sessions, cache, gen, cut, rpc, loaded, answer, floor>>
    BY <1>3 DEF Landed, ReadFails, Land, account, handler
  <2>2. /\ \/ pc[q] = "land" /\ pc'[q] = "publish" /\ captured'[q] = captured[q]
           \/ pc'[q] = "failed" /\ captured'[q] = 0
        /\ \A p \in Requests \ {q} : pc'[p] = pc[p] /\ captured'[p] = captured[p]
    BY <1>3, <1>t DEF Landed, ReadFails, Land, Forget, TypeOK
  <2>3. FreshReader(q)'
    BY <1>q, <2>1, <2>2 DEF FreshReader, MayPublish
  <2> QED BY <1>t, <2>1, <2>2, <2>3, RequestPreserves
          DEF Untouched, RevocationInv, NoStaleResurrection
<1>4. ASSUME NEW q \in Requests, Publish(q) PROVE RevocationInv'
  <2>1. /\ UNCHANGED <<version, sessions, cut, rpc, loaded, answer, floor>>
        /\ pc[q] = "publish" /\ pc'[q] = "answered" /\ captured'[q] = 0
        /\ \A p \in Requests \ {q} : pc'[p] = pc[p] /\ captured'[p] = captured[p]
    BY <1>4, <1>t DEF Publish, Forget, account, handler, TypeOK
  <2>2. gen' = gen /\ NoStaleResurrection'
    <3>1. CASE UNCHANGED <<cache, gen>>
      BY <2>1, <3>1 DEF RevocationInv, NoStaleResurrection
    <3>2. CASE ~UNCHANGED <<cache, gen>>
      <4>1. /\ MayPublish(q)
            /\ cache' = [cache EXCEPT ![At[q]] = [cache[At[q]] EXCEPT ![Of[q]] = Entry(q)]]
            /\ gen' = [gen EXCEPT ![At[q]] = gen[At[q]]]
        BY <1>4, <3>2, PublishUnevicted DEF Premises
      <4>2. answer[q] >= cut[At[q]][Of[q]]
        BY <1>q, <2>1, <4>1 DEF FreshReader
      <4>3. /\ cache'[At[q]][Of[q]] = Entry(q)
            /\ \A w \in Workers, u \in Users :
                  w # At[q] \/ u # Of[q] => cache'[w][u] = cache[w][u]
        BY <1>t, <1>q, <4>1 DEF TypeOK
      <4>4. Entry(q).ver = answer[q]
        BY DEF Entry
      <4>5. NoStaleResurrection'
        BY <2>1, <4>2, <4>3, <4>4 DEF RevocationInv, NoStaleResurrection
      <4>6. gen' = gen
        BY <1>t, <4>1 DEF TypeOK
      <4> QED BY <4>5, <4>6
    <3> QED BY <3>1, <3>2
  <2>3. FreshReader(q)'
    BY <1>q, <2>1, <2>2 DEF FreshReader
  <2> QED BY <1>t, <2>1, <2>2, <2>3, RequestPreserves DEF Untouched
<1>5. ASSUME /\ UNCHANGED <<cache, gen, cut, pc, captured, answer, floor>>
             /\ \A u \in Users : version'[u] >= version[u]
      PROVE  RevocationInv'
  <2>1. ASSUME NEW w \in Workers, NEW u \in Users PROVE cut'[w][u] <= version'[u]
    <3>1. /\ cut[w][u] \in Nat /\ version[u] \in Nat /\ version'[u] \in Nat
          /\ cut[w][u] <= version[u]
      BY <1>t, Ranges DEF RevocationInv, TypeOK
    <3> QED BY <1>5, <3>1
  <2> QED BY <1>5, <1>t, <2>1 DEF RevocationInv, FreshReader, MayPublish, NoStaleResurrection
<1>6. ASSUME NEW r \in Revokers, Commit(r) PROVE RevocationInv'
  <2>1. UNCHANGED <<cache, gen, cut, pc, captured, answer, floor>>
    BY <1>6, <1>k DEF Commit, local, request
  <2>2. /\ Target[r] \in Users /\ version'[Target[r]] = version[Target[r]] + 1
        /\ \A u \in Users \ {Target[r]} : version'[u] = version[u]
    BY <1>6, CommitNumbers DEF RevocationInv
  <2>3. ASSUME NEW u \in Users PROVE version'[u] >= version[u]
    <3>1. version[u] \in Nat
      BY <1>t, Ranges
    <3> QED BY <2>2, <3>1
  <2> QED BY <1>5, <2>1, <2>3
<1>7. ASSUME NEW w \in Workers, NEW u \in Users, Dropped(w, u),
             cut' = [cut EXCEPT ![w][u] = version[u]],
             UNCHANGED <<version, pc, captured, answer, floor>>
      PROVE  RevocationInv'
  <2>1. /\ \A x \in Workers, v \in Users : cut'[x][v] <= version'[v]
        /\ \A q \in Requests : FreshReader(q)'
        /\ NoStaleResurrection'
    BY <1>7, CutPreserves
  <2> QED BY <1>t, <2>1 DEF RevocationInv
<1>8. ASSUME NEW r \in Revokers, Invalidate(r) PROVE RevocationInv'
  <2>1. /\ By[r] \in Workers /\ Target[r] \in Users /\ Dropped(By[r], Target[r])
        /\ cut' = [cut EXCEPT ![By[r]][Target[r]] = version[Target[r]]]
        /\ UNCHANGED <<version, pc, captured, answer, floor>>
    BY <1>8 DEF Invalidate, account, request
  <2> QED BY <2>1, <1>7
<1>9. ASSUME NEW w \in Workers, Receive(w) PROVE RevocationInv'
  <2>1. /\ Head(inbox[w]) \in Users /\ Dropped(w, Head(inbox[w]))
        /\ cut' = [cut EXCEPT ![w][Head(inbox[w])] = version[Head(inbox[w])]]
        /\ UNCHANGED <<version, pc, captured, answer, floor>>
    BY <1>9, <1>t DEF Receive, account, request, TypeOK
  <2> QED BY <2>1, <1>7
<1>10. ASSUME NEW r \in Revokers, Load(r) \/ Broadcast(r) PROVE RevocationInv'
  <2>1. UNCHANGED <<version, cache, gen, cut, pc, captured, answer, floor>>
    BY <1>10 DEF Load, Broadcast, account, local, request
  <2> QED BY <1>5, <1>t, <2>1 DEF TypeOK
<1>11. ASSUME (\E u \in Users : SignIn(u)) \/ Tick \/ UNCHANGED vars PROVE RevocationInv'
  <2>1. UNCHANGED <<version, cache, gen, cut, pc, captured, answer, floor>>
    BY <1>11 DEF SignIn, Tick, vars, account, local, request
  <2> QED BY <1>5, <1>t, <2>1 DEF TypeOK
<1> QED
  BY <1>1, <1>2, <1>3, <1>4, <1>6, <1>8, <1>9, <1>10, <1>11 DEF Next, RequestStep, HandlerStep

(* "No stale resurrection": a read that began before a logout never puts   *)
(* the account state of before it back into a cache that dropped it.       *)
THEOREM NoResurrection ==
  ASSUME Premises
  PROVE  Spec => []NoStaleResurrection
<1>1. RevocationInv => NoStaleResurrection
  BY DEF RevocationInv
<1> QED BY <1>1, InitRevocation, NextRevocation, PTL DEF Spec

(* Once a revocation took effect in a worker, no request that begins there *)
(* later is answered with an older account state.                          *)
THEOREM Revoked ==
  ASSUME Premises
  PROVE  Spec => []RevokedStaysRevoked
<1>1. RevocationInv => RevokedStaysRevoked
  BY DEF RevocationInv, RevokedStaysRevoked, FreshReader
<1> QED BY <1>1, InitRevocation, NextRevocation, PTL DEF Spec

=============================================================================
