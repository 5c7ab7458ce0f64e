--------------------------- MODULE ErpSlots_proof ---------------------------
(***************************************************************************)
(* Proofs about ErpSlots for every number of calls, workers, limit, lease  *)
(* and skew.  The ceiling needs LeaseOutlivesQuery: an enforced statement  *)
(* timeout, and a lease longer than a query plus the clock differences.    *)
(***************************************************************************)
EXTENDS ErpSlots, CacheGate, FiniteSetTheorems, WellFoundedInduction, TLAPS

(* A call's clock is true time plus the skew of its worker, so the skewed  *)
(* stamps of two calls compare up to MaxSkew.                              *)
LEMMA SkewBounds == \A c \in Calls : Skew[ProcOf[c]] \in Nat /\ Skew[ProcOf[c]] <= MaxSkew
  BY ErpAssumption

LEMMA InitTyped == Init => TypeOK
  BY ErpAssumption DEF Init, TypeOK, Places, Terminal

LEMMA TransactTyped ==
  ASSUME TypeOK, NEW c \in Calls, Transact(c)
  PROVE  /\ clock' \in Nat /\ keyTtl' \in Nat
         /\ DOMAIN slots' \subseteq Calls
         /\ \A t \in DOMAIN slots' : slots'[t] \in Nat
         /\ sem' \in [Procs -> Nat]
  BY ErpAssumption DEF TypeOK, Transact, Entered, Pruned

LEMMA NextTyped == TypeOK /\ [Next]_vars => TypeOK'
<1> SUFFICES ASSUME TypeOK, [Next]_vars PROVE TypeOK'
  OBVIOUS
<1> USE ErpAssumption
<1>1. ASSUME NEW c \in Calls, BeginShared(c) \/ BeginLocal(c) PROVE TypeOK'
  BY <1>1 DEF TypeOK, Places, Terminal, BeginShared, BeginLocal, Start
<1>2. ASSUME NEW c \in Calls, Stamp(c) PROVE TypeOK'
  BY <1>2, SkewBounds DEF TypeOK, Places, Terminal, Stamp, Now
<1>3. ASSUME NEW c \in Calls, Admit(c) \/ Refuse(c) \/ ReplyLost(c) PROVE TypeOK'
  <2>1. Transact(c)
    BY <1>3 DEF Admit, Refuse, ReplyLost
  <2>2. pc' \in [Calls -> Places] /\ stamp' \in [Calls -> Nat] /\ deadline' \in [Calls -> Nat]
    BY <1>3 DEF TypeOK, Places, Terminal, Admit, Refuse, ReplyLost, Forget
  <2> QED BY <2>1, <2>2, TransactTyped DEF TypeOK
<1>4. ASSUME NEW c \in Calls, AttemptFails(c) PROVE TypeOK'
  BY <1>4 DEF TypeOK, Places, Terminal, AttemptFails, Forget
<1>5. ASSUME NEW c \in Calls, BackOut(c) \/ BackOutFails(c) PROVE TypeOK'
  BY <1>5 DEF TypeOK, Places, Terminal, BackOut, BackOutFails, Forget, Without
<1>6. ASSUME NEW c \in Calls, LocalAcquire(c) PROVE TypeOK'
  BY <1>6 DEF TypeOK, Places, Terminal, LocalAcquire, Forget
<1>7. ASSUME NEW c \in Calls, LocalTimeout(c) PROVE TypeOK'
  BY <1>7 DEF TypeOK, Places, Terminal, LocalTimeout, Forget
<1>8. ASSUME NEW c \in Calls, LocalDone(c) PROVE TypeOK'
  BY <1>8 DEF TypeOK, Places, Terminal, LocalDone
<1>9. ASSUME NEW c \in Calls, QueryEnds(c) PROVE TypeOK'
  BY <1>9 DEF TypeOK, Places, Terminal, QueryEnds, Forget
<1>10. ASSUME NEW c \in Calls, Release(c) \/ ReleaseFails(c) PROVE TypeOK'
  BY <1>10 DEF TypeOK, Places, Terminal, Release, ReleaseFails, Without
<1>11. ASSUME NEW p \in Procs, Crash(p) PROVE TypeOK'
  BY <1>11 DEF TypeOK, Places, Terminal, Crash
<1>12. CASE Tick
  BY <1>12 DEF TypeOK, Tick
<1>13. CASE UNCHANGED vars
  BY <1>13 DEF TypeOK, vars
<1> QED
  BY <1>1, <1>2, <1>3, <1>4, <1>5, <1>6, <1>7, <1>8, <1>9, <1>10, <1>11, <1>12, <1>13
     DEF Next, CallStep

(* Every reachable state is well typed: no semaphore goes negative.        *)
THEOREM Typing == Spec => []TypeOK
  BY InitTyped, NextTyped, PTL DEF Spec

----------------------------------------------------------------------------
(* The ceiling *)

(* A transaction leaves the entry of a running call alone: its lease ends  *)
(* after every stamp another worker can prune with.                        *)
LEMMA PruneSparesRunning ==
  ASSUME LeaseOutlivesQuery, CeilingInv,
         NEW c \in Calls, Transact(c), pc[c] = "sent",
         NEW d \in Calls, pc[d] = "running"
  PROVE  /\ d \in DOMAIN slots' /\ slots'[d] = stamp[d] + Lease
         /\ StampedAt(d) + Lease <= keyTtl'
<1>1. /\ stamp[c] \in Nat /\ stamp[d] \in Nat /\ clock \in Nat
      /\ Lease \in Nat /\ Hold \in Nat /\ MaxSkew \in Nat
  BY ErpAssumption DEF CeilingInv, TypeOK
<1>2. StampedAt(c) <= clock /\ StampedAt(d) <= clock /\ clock <= StampedAt(d) + Hold
  BY DEF CeilingInv, Timely
<1>3. d \in DOMAIN slots /\ slots[d] = stamp[d] + Lease
  BY DEF CeilingInv, Claimed
<1>4. slots[d] > stamp[c]
  BY <1>1, <1>2, <1>3, SkewBounds DEF StampedAt, LeaseOutlivesQuery
<1>5. d # c
  OBVIOUS
<1>6. d \in DOMAIN Pruned(stamp[c]) /\ Pruned(stamp[c])[d] = slots[d]
  BY <1>3, <1>4 DEF Pruned
<1>7. d \in DOMAIN Entered(c) /\ Entered(c)[d] = slots[d]
  BY <1>5, <1>6 DEF Entered
<1> QED
  BY <1>1, <1>2, <1>3, <1>7, SkewBounds DEF Transact, StampedAt

LEMMA TransactEnters ==
  ASSUME CeilingInv, NEW c \in Calls, Transact(c)
  PROVE  /\ c \in DOMAIN slots' /\ slots'[c] = stamp[c] + Lease
         /\ IsFiniteSet(DOMAIN slots')
<1>1. DOMAIN slots' \subseteq DOMAIN slots \union {c}
  BY DEF Transact, Entered, Pruned
<1>2. IsFiniteSet(DOMAIN slots \union {c})
  BY FS_AddElement DEF CeilingInv
<1>3. IsFiniteSet(DOMAIN slots')
  BY <1>1, <1>2, FS_Subset
<1> QED
  BY <1>3 DEF Transact, Entered, Pruned

(* Everything but an admission can only shrink the set of running calls.   *)
LEMMA FewerHolders ==
  ASSUME CeilingInv, SharedHolders' \subseteq SharedHolders
  PROVE  SharedCeiling'
<1>1. SharedHolders \subseteq DOMAIN slots
  BY DEF SharedHolders, CeilingInv, Claimed
<1>2. IsFiniteSet(SharedHolders)
  BY <1>1, FS_Subset DEF CeilingInv
<1>3. IsFiniteSet(SharedHolders') /\ Cardinality(SharedHolders') <= Cardinality(SharedHolders)
  BY <1>2, FS_Subset
<1>4. Cardinality(SharedHolders') \in Nat /\ Cardinality(SharedHolders) \in Nat
  BY <1>2, <1>3, FS_CardinalityType
<1> QED
  BY <1>3, <1>4, ErpAssumption DEF CeilingInv, SharedCeiling

LEMMA InitCeiling == Init => CeilingInv
<1> SUFFICES ASSUME Init PROVE CeilingInv
  OBVIOUS
<1>1. DOMAIN slots = {} /\ SharedHolders = {}
  BY DEF Init, SharedHolders
<1>2. IsFiniteSet(DOMAIN slots) /\ Cardinality(SharedHolders) = 0
  BY <1>1, FS_EmptySet
<1>3. \A c \in Calls : Timely(c) /\ Claimed(c)
  BY DEF Init, Timely, Claimed
<1> QED
  BY <1>2, <1>3, InitTyped, ErpAssumption DEF CeilingInv, SharedCeiling

LEMMA NextCeiling ==
  ASSUME LeaseOutlivesQuery
  PROVE  CeilingInv /\ [Next]_vars => CeilingInv'
<1> SUFFICES ASSUME CeilingInv, [Next]_vars PROVE CeilingInv'
  OBVIOUS
<1> USE ErpAssumption, SkewBounds
<1>t. TypeOK /\ TypeOK'
  BY NextTyped DEF CeilingInv
<1>f. /\ IsFiniteSet(DOMAIN slots)
      /\ \A c \in Calls : Timely(c) /\ Claimed(c)
  BY DEF CeilingInv
<1>n. \A c \in Calls : IsFiniteSet(DOMAIN Without(c))
  BY <1>f, FS_Subset DEF Without
(* Steps of calls that are neither sent nor running and do not become so.  *)
<1>1. ASSUME NEW c \in Calls,
             BeginShared(c) \/ BeginLocal(c) \/ LocalAcquire(c)
               \/ LocalTimeout(c) \/ LocalDone(c)
      PROVE  CeilingInv'
  <2>1. UNCHANGED <<clock, slots, keyTtl, stamp>>
    BY <1>1 DEF BeginShared, BeginLocal, LocalAcquire, LocalTimeout, LocalDone
  <2>2. \A d \in Calls : pc'[d] \in {"sent", "running"} => pc'[d] = pc[d]
    BY <1>1, <1>t DEF TypeOK, BeginShared, BeginLocal, Start, LocalAcquire, LocalTimeout, LocalDone
  <2>3. \A d \in Calls : Timely(d)' /\ Claimed(d)'
    BY <1>f, <2>1, <2>2 DEF Timely, Claimed, StampedAt
  <2>4. SharedHolders' \subseteq SharedHolders
    BY <2>2 DEF SharedHolders
  <2> QED BY <1>t, <1>f, <2>1, <2>3, <2>4, FewerHolders DEF CeilingInv
<1>2. ASSUME NEW c \in Calls, Stamp(c) PROVE CeilingInv'
  <2>1. \A d \in Calls : d # c => pc'[d] = pc[d] /\ stamp'[d] = stamp[d]
    BY <1>2, <1>t DEF Stamp, TypeOK
  <2>2. pc'[c] = "sent" /\ stamp'[c] = clock + Skew[ProcOf[c]] /\ UNCHANGED <<clock, slots, keyTtl>>
    BY <1>2, <1>t DEF Stamp, TypeOK, Now
  <2>3. \A d \in Calls : Timely(d)' /\ Claimed(d)'
    BY <1>f, <1>t, <2>1, <2>2 DEF Timely, Claimed, StampedAt, TypeOK
  <2>4. SharedHolders' \subseteq SharedHolders
    BY <2>1, <2>2 DEF SharedHolders
  <2> QED BY <1>t, <1>f, <2>2, <2>3, <2>4, FewerHolders DEF CeilingInv
<1>3. ASSUME NEW c \in Calls, Admit(c) PROVE CeilingInv'
  <2>1. Transact(c) /\ pc[c] = "sent" /\ HasRoom(slots')
    BY <1>3 DEF Admit, Transact
  <2>2. /\ UNCHANGED <<clock, stamp>> /\ pc'[c] = "running"
        /\ \A d \in Calls : d # c => pc'[d] = pc[d]
    BY <1>3, <1>t DEF Admit, Transact, TypeOK
  <2>3. /\ c \in DOMAIN slots' /\ slots'[c] = stamp[c] + Lease
        /\ IsFiniteSet(DOMAIN slots')
    BY <2>1, TransactEnters
  <2>4. StampedAt(c) + Lease <= keyTtl'
    BY <1>f, <1>t, <2>1 DEF Timely, Transact, StampedAt, TypeOK
  <2>5. \A d \in Calls : Timely(d)' /\ Claimed(d)'
    BY <1>f, <2>1, <2>2, <2>3, <2>4, PruneSparesRunning DEF Timely, Claimed, StampedAt
  <2>6. SharedHolders' \subseteq DOMAIN slots'
    BY <2>5 DEF SharedHolders, Claimed
  <2>7. Cardinality(SharedHolders') <= Cardinality(DOMAIN slots') /\ IsFiniteSet(SharedHolders')
    BY <2>3, <2>6, FS_Subset
  <2>8. Cardinality(SharedHolders') \in Nat /\ Cardinality(DOMAIN slots') \in Nat
    BY <2>3, <2>7, FS_CardinalityType
  <2>9. SharedCeiling'
    BY <2>1, <2>7, <2>8 DEF HasRoom, SharedCeiling
  <2> QED BY <1>t, <2>3, <2>5, <2>9 DEF CeilingInv
<1>4. ASSUME NEW c \in Calls, Refuse(c) \/ ReplyLost(c) PROVE CeilingInv'
  <2>1. Transact(c) /\ pc[c] = "sent"
    BY <1>4 DEF Refuse, ReplyLost, Transact
  <2>2. /\ clock' = clock /\ pc'[c] \notin {"sent", "running"}
        /\ \A d \in Calls : d # c => pc'[d] = pc[d] /\ stamp'[d] = stamp[d]
    BY <1>4, <1>t DEF Refuse, ReplyLost, Transact, TypeOK, Forget
  <2>3. \A d \in Calls : Timely(d)' /\ Claimed(d)'
    BY <1>f, <2>1, <2>2, PruneSparesRunning DEF Timely, Claimed, StampedAt
  <2>4. SharedHolders' \subseteq SharedHolders
    BY <2>2 DEF SharedHolders
  <2> QED BY <1>t, <2>1, <2>3, <2>4, TransactEnters, FewerHolders DEF CeilingInv
<1>5. ASSUME NEW c \in Calls,
             AttemptFails(c) \/ QueryEnds(c) \/ BackOut(c) \/ BackOutFails(c)
               \/ Release(c) \/ ReleaseFails(c)
      PROVE  CeilingInv'
  <2>1. UNCHANGED <<clock, keyTtl>> /\ slots' \in {slots, Without(c)}
    BY <1>5 DEF AttemptFails, QueryEnds, BackOut, BackOutFails, Release, ReleaseFails
  <2>2. /\ pc'[c] \notin {"sent", "running"}
        /\ \A d \in Calls : d # c => pc'[d] = pc[d] /\ stamp'[d] = stamp[d]
    BY <1>5, <1>t DEF AttemptFails, QueryEnds, BackOut, BackOutFails, Release, ReleaseFails, TypeOK, Forget
  <2>3. \A d \in Calls : Timely(d)' /\ Claimed(d)'
    BY <1>f, <2>1, <2>2 DEF Timely, Claimed, StampedAt, Without
  <2>4. SharedHolders' \subseteq SharedHolders
    BY <2>2 DEF SharedHolders
  <2> QED BY <1>t, <1>f, <1>n, <2>1, <2>3, <2>4, FewerHolders DEF CeilingInv
<1>6. ASSUME NEW p \in Procs, Crash(p) PROVE CeilingInv'
  <2>1. /\ UNCHANGED <<clock, slots, keyTtl>>
        /\ \A d \in Calls : pc'[d] \in {"sent", "running"}
                              => pc'[d] = pc[d] /\ stamp'[d] = stamp[d]
    BY <1>6 DEF Crash
  <2>2. \A d \in Calls : Timely(d)' /\ Claimed(d)'
    BY <1>f, <2>1 DEF Timely, Claimed, StampedAt
  <2>3. SharedHolders' \subseteq SharedHolders
    BY <2>1 DEF SharedHolders
  <2> QED BY <1>t, <1>f, <2>1, <2>2, <2>3, FewerHolders DEF CeilingInv
<1>7. CASE Tick
  <2>1. /\ UNCHANGED <<keyTtl, pc, stamp>> /\ clock' = clock + 1
        /\ \A c \in Calls : pc[c] \in {"sent", "running"} => clock < StampedAt(c) + Hold
    BY <1>7 DEF Tick, LeaseOutlivesQuery
  <2>2. \A d \in Calls : Timely(d)'
    BY <1>f, <1>t, <2>1 DEF Timely, StampedAt, TypeOK
  <2>3. ASSUME NEW d \in Calls, pc[d] = "running" PROVE slots' = slots
    <3>1. clock + 1 < keyTtl
      BY <1>f, <1>t, <2>1, <2>3 DEF Timely, Claimed, StampedAt, TypeOK, LeaseOutlivesQuery
    <3> QED BY <1>7, <1>t, <3>1 DEF Tick, TypeOK
  <2>4. \A d \in Calls : Claimed(d)'
    BY <1>f, <2>1, <2>3 DEF Claimed, StampedAt
  <2>5. IsFiniteSet(DOMAIN slots')
    <3>1. CASE slots' = slots
      BY <1>f, <3>1
    <3>2. CASE slots' = <<>>
      BY <3>2, FS_EmptySet
    <3> QED BY <1>7, <3>1, <3>2 DEF Tick
  <2>6. SharedHolders' \subseteq SharedHolders
    BY <2>1 DEF SharedHolders
  <2> QED BY <1>t, <2>2, <2>4, <2>5, <2>6, FewerHolders DEF CeilingInv
<1>8. CASE UNCHANGED vars
  BY <1>8 DEF vars, CeilingInv, TypeOK, Timely, Claimed, StampedAt, SharedCeiling, SharedHolders
<1> QED
  BY <1>1, <1>2, <1>3, <1>4, <1>5, <1>6, <1>7, <1>8 DEF Next, CallStep

(* "cannot over-admit": with an enforced statement timeout shorter than    *)
(* the lease by more than the clock differences, the number of queries     *)
(* admitted through Redis never exceeds the limit.                         *)
THEOREM Ceiling_Holds ==
  ASSUME LeaseOutlivesQuery
  PROVE  Spec => []SharedCeiling
<1>1. CeilingInv => SharedCeiling
  BY DEF CeilingInv
<1> QED
  BY <1>1, InitCeiling, NextCeiling, PTL DEF Spec

(* A running query keeps its lease in the set until it ends.               *)
THEOREM LeaseHeld ==
  ASSUME LeaseOutlivesQuery
  PROVE  Spec => []LeaseHeldWhileRunning
<1>1. CeilingInv => LeaseHeldWhileRunning
  BY DEF CeilingInv, Claimed, LeaseHeldWhileRunning, SharedHolders
<1> QED
  BY <1>1, InitCeiling, NextCeiling, PTL DEF Spec

----------------------------------------------------------------------------
(* Refinement: the running calls implement the abstract ceiling *)

LEMMA OnlyAdmissionEnters ==
  ASSUME TypeOK, [Next]_vars, SharedHolders' # SharedHolders
  PROVE  \/ SharedHolders' \subseteq SharedHolders
         \/ \E c \in Calls : c \notin SharedHolders /\ SharedHolders' = SharedHolders \union {c}
<1>1. CASE \E c \in Calls : Admit(c)
  <2> PICK c \in Calls : Admit(c)
    BY <1>1
  <2>1. pc[c] = "sent" /\ pc' = [pc EXCEPT ![c] = "running"]
    BY DEF Admit, Transact
  <2> QED BY <2>1 DEF TypeOK, SharedHolders
<1>2. ASSUME NEW c \in Calls, CallStep(c), ~Admit(c)
      PROVE  SharedHolders' \subseteq SharedHolders
  <2>1. \A d \in Calls : pc'[d] = "running" => pc[d] = "running"
    BY <1>2 DEF CallStep, TypeOK, BeginShared, BeginLocal, Start, Stamp, Refuse, ReplyLost,
         AttemptFails, BackOut, BackOutFails, LocalAcquire, LocalTimeout, LocalDone,
         QueryEnds, Release, ReleaseFails
  <2> QED BY <2>1 DEF SharedHolders
<1>3. ASSUME NEW p \in Procs, Crash(p) PROVE SharedHolders' \subseteq SharedHolders
  BY <1>3 DEF Crash, SharedHolders
<1>4. CASE Tick \/ UNCHANGED vars
  BY <1>4 DEF Tick, vars, SharedHolders
<1> QED
  BY <1>1, <1>2, <1>3, <1>4 DEF Next

(* With the timeout enforced, the leases in Redis implement the abstract   *)
(* ceiling: calls enter one at a time and only while there is room.        *)
THEOREM Refinement ==
  ASSUME LeaseOutlivesQuery
  PROVE  Spec => ImplementsCeiling
<1>1. Init => Ceiling!Init
  BY DEF Init, Ceiling!Init, SharedHolders
<1>2. CeilingInv /\ CeilingInv' /\ [Next]_vars => [Ceiling!Next]_SharedHolders
  <2> SUFFICES ASSUME CeilingInv, CeilingInv', [Next]_vars, SharedHolders' # SharedHolders
               PROVE  Ceiling!Next
    OBVIOUS
  <2>1. CASE SharedHolders' \subseteq SharedHolders
    <3>1. /\ SharedHolders \ SharedHolders' \in SUBSET SharedHolders
          /\ SharedHolders \ SharedHolders' # {}
          /\ SharedHolders' = SharedHolders \ (SharedHolders \ SharedHolders')
      BY <2>1
    <3> QED BY <3>1 DEF Ceiling!Next, Ceiling!Leave
  <2>2. CASE \E c \in Calls : c \notin SharedHolders /\ SharedHolders' = SharedHolders \union {c}
    <3> PICK c \in Calls : c \notin SharedHolders /\ SharedHolders' = SharedHolders \union {c}
      BY <2>2
    <3>1. Cardinality(SharedHolders \union {c}) <= Limit
      BY DEF CeilingInv, SharedCeiling
    <3>2. Ceiling!Cardinality(SharedHolders \union {c}) = Cardinality(SharedHolders \union {c})
      BY DEF Ceiling!Cardinality, Cardinality
    <3> QED BY <3>1, <3>2 DEF Ceiling!Next, Ceiling!Enter
  <2> QED BY <2>1, <2>2, OnlyAdmissionEnters DEF CeilingInv
<1> QED
  BY <1>1, <1>2, InitCeiling, NextCeiling, PTL DEF Spec, ImplementsCeiling, Ceiling!Spec

----------------------------------------------------------------------------
(* The fallback semaphores *)

PermitsInv ==
    /\ TypeOK
    /\ \A p \in Procs : IsFiniteSet(LocalHolders(p))
    /\ PermitsConserved

(* A step that leaves the semaphores and the local holders as they are.    *)
LEMMA SameHolders ==
  ASSUME PermitsInv, TypeOK', sem' = sem, \A p \in Procs : LocalHolders(p)' = LocalHolders(p)
  PROVE  PermitsInv'
  BY DEF PermitsInv, PermitsConserved

LEMMA InitPermits == Init => PermitsInv
<1> SUFFICES ASSUME Init PROVE PermitsInv
  OBVIOUS
<1>1. \A p \in Procs : LocalHolders(p) = {} /\ sem[p] = Limit
  BY DEF Init, LocalHolders
<1> QED
  BY <1>1, FS_EmptySet, InitTyped, ErpAssumption DEF PermitsInv, PermitsConserved

LEMMA NextPermits == PermitsInv /\ [Next]_vars => PermitsInv'
<1> SUFFICES ASSUME PermitsInv, [Next]_vars PROVE PermitsInv'
  OBVIOUS
<1> USE ErpAssumption
<1>t. TypeOK /\ TypeOK'
  BY NextTyped DEF PermitsInv
<1>f. \A p \in Procs : /\ IsFiniteSet(LocalHolders(p))
                       /\ Cardinality(LocalHolders(p)) \in Nat
                       /\ sem[p] + Cardinality(LocalHolders(p)) = Limit
  BY FS_CardinalityType DEF PermitsInv, PermitsConserved
<1>1. ASSUME NEW c \in Calls, LocalAcquire(c) PROVE PermitsInv'
  <2>1. /\ LocalHolders(ProcOf[c])' = LocalHolders(ProcOf[c]) \union {c}
        /\ c \notin LocalHolders(ProcOf[c])
        /\ \A p \in Procs : p # ProcOf[c] => LocalHolders(p)' = LocalHolders(p)
    BY <1>1, <1>t DEF LocalAcquire, LocalHolders, TypeOK
  <2>2. /\ IsFiniteSet(LocalHolders(ProcOf[c])')
        /\ Cardinality(LocalHolders(ProcOf[c])') = Cardinality(LocalHolders(ProcOf[c])) + 1
    BY <1>f, <2>1, FS_AddElement
  <2>3. sem' = [sem EXCEPT ![ProcOf[c]] = sem[ProcOf[c]] - 1]
    BY <1>1 DEF LocalAcquire
  <2>4. ASSUME NEW p \in Procs
        PROVE  IsFiniteSet(LocalHolders(p)') /\ sem'[p] + Cardinality(LocalHolders(p)') = Limit
    <3>1. CASE p = ProcOf[c]
      <4>1. sem'[p] = sem[p] - 1 /\ sem[p] \in Nat /\ ProcOf[c] \in Procs
        BY <1>t, <2>3, <3>1 DEF TypeOK
      <4> QED BY <1>f, <2>2, <3>1, <4>1
    <3>2. CASE p # ProcOf[c]
      BY <1>t, <1>f, <2>1, <2>3, <3>2 DEF TypeOK
    <3> QED BY <3>1, <3>2
  <2> QED BY <1>t, <2>4 DEF PermitsInv, PermitsConserved
<1>2. ASSUME NEW c \in Calls, LocalDone(c) PROVE PermitsInv'
  <2>1. /\ LocalHolders(ProcOf[c])' = LocalHolders(ProcOf[c]) \ {c}
        /\ c \in LocalHolders(ProcOf[c])
        /\ \A p \in Procs : p # ProcOf[c] => LocalHolders(p)' = LocalHolders(p)
    BY <1>2, <1>t DEF LocalDone, LocalHolders, TypeOK
  <2>2. /\ IsFiniteSet(LocalHolders(ProcOf[c])')
        /\ Cardinality(LocalHolders(ProcOf[c])') = Cardinality(LocalHolders(ProcOf[c])) - 1
    BY <1>f, <2>1, FS_RemoveElement
  <2>3. sem' = [sem EXCEPT ![ProcOf[c]] = sem[ProcOf[c]] + 1]
    BY <1>2 DEF LocalDone
  <2>4. ASSUME NEW p \in Procs
        PROVE  IsFiniteSet(LocalHolders(p)') /\ sem'[p] + Cardinality(LocalHolders(p)') = Limit
    <3>1. CASE p = ProcOf[c]
      <4>1. sem'[p] = sem[p] + 1 /\ sem[p] \in Nat /\ ProcOf[c] \in Procs
        BY <1>t, <2>3, <3>1 DEF TypeOK
      <4> QED BY <1>f, <2>2, <3>1, <4>1
    <3>2. CASE p # ProcOf[c]
      BY <1>t, <1>f, <2>1, <2>3, <3>2 DEF TypeOK
    <3> QED BY <3>1, <3>2
  <2> QED BY <1>t, <2>4 DEF PermitsInv, PermitsConserved
<1>3. ASSUME NEW c \in Calls, CallStep(c), ~LocalAcquire(c), ~LocalDone(c)
      PROVE  PermitsInv'
  <2>1. sem' = sem
    BY <1>3 DEF CallStep, BeginShared, BeginLocal, Stamp, Admit, Refuse, ReplyLost, Transact,
         AttemptFails, BackOut, BackOutFails, LocalTimeout, QueryEnds, Release, ReleaseFails
  <2>2. \A d \in Calls : pc'[d] = "local" <=> pc[d] = "local"
    BY <1>3, <1>t DEF CallStep, TypeOK, BeginShared, BeginLocal, Start, Stamp, Admit, Refuse,
         ReplyLost, Transact, AttemptFails, BackOut, BackOutFails, LocalTimeout,
         QueryEnds, Release, ReleaseFails
  <2> QED BY <1>t, <2>1, <2>2, SameHolders DEF LocalHolders
<1>4. ASSUME NEW p \in Procs, Crash(p) PROVE PermitsInv'
  <2>1. LocalHolders(p)' = {}
    BY <1>4 DEF Crash, LocalHolders, Terminal
  <2>2. \A q \in Procs : q # p => LocalHolders(q)' = LocalHolders(q)
    BY <1>4 DEF Crash, LocalHolders
  <2>3. sem' = [sem EXCEPT ![p] = Limit]
    BY <1>4 DEF Crash
  <2>4. Cardinality({}) = 0 /\ IsFiniteSet({})
    BY FS_EmptySet
  <2>5. ASSUME NEW q \in Procs
        PROVE  IsFiniteSet(LocalHolders(q)') /\ sem'[q] + Cardinality(LocalHolders(q)') = Limit
    <3>1. CASE q = p
      <4>1. LocalHolders(q)' = {}
        BY <2>1, <3>1
      <4>2. sem'[q] = Limit
        BY <1>t, <2>3, <3>1 DEF TypeOK
      <4> QED BY <2>4, <4>1, <4>2
    <3>2. CASE q # p
      BY <1>t, <1>f, <2>2, <2>3, <3>2 DEF TypeOK
    <3> QED BY <3>1, <3>2
  <2> QED BY <1>t, <2>5 DEF PermitsInv, PermitsConserved
<1>5. CASE Tick \/ UNCHANGED vars
  <2>1. sem' = sem /\ \A p \in Procs : LocalHolders(p)' = LocalHolders(p)
    BY <1>5 DEF Tick, vars, LocalHolders
  <2> QED BY <1>t, <2>1, SameHolders
<1> QED
  BY <1>1, <1>2, <1>3, <1>4, <1>5 DEF Next

(* No permit of a worker's fallback semaphore leaks and none is returned   *)
(* twice, whichever way a call leaves query_slot.                          *)
THEOREM Permits == Spec => []PermitsConserved
<1>1. PermitsInv => PermitsConserved
  BY DEF PermitsInv
<1> QED
  BY <1>1, InitPermits, NextPermits, PTL DEF Spec

----------------------------------------------------------------------------
(* Refusals: no premise about the lease or the timeout is needed *)

SetInv == TypeOK /\ IsFiniteSet(DOMAIN slots)

(* A step never makes the set of leases infinite: it gains one entry at    *)
(* most.                                                                   *)
LEMMA NextSet == SetInv /\ [Next]_vars => SetInv'
<1> SUFFICES ASSUME SetInv, [Next]_vars PROVE SetInv'
  OBVIOUS
<1>t. TypeOK /\ TypeOK' /\ IsFiniteSet(DOMAIN slots)
  BY NextTyped DEF SetInv
<1>1. \A c \in Calls : IsFiniteSet(DOMAIN slots \union {c})
  BY <1>t, FS_AddElement
<1>2. IsFiniteSet(DOMAIN slots')
  <2>1. CASE \E c \in Calls : Transact(c)
    <3> PICK c \in Calls : Transact(c)
      BY <2>1
    <3>1. DOMAIN slots' \subseteq DOMAIN slots \union {c}
      BY DEF Transact, Entered, Pruned
    <3> QED BY <1>1, <3>1, FS_Subset
  <2>2. CASE \E c \in Calls : CallStep(c) /\ ~Transact(c)
    <3> PICK c \in Calls : CallStep(c) /\ ~Transact(c)
      BY <2>2
    <3>1. slots' \in {slots, Without(c)}
      BY DEF CallStep, BeginShared, BeginLocal, Stamp, Admit, Refuse, ReplyLost, AttemptFails,
             BackOut, BackOutFails, LocalAcquire, LocalTimeout, LocalDone, QueryEnds,
             Release, ReleaseFails
    <3>2. DOMAIN slots' \subseteq DOMAIN slots
      BY <3>1 DEF Without
    <3> QED BY <1>t, <3>2, FS_Subset
  <2>3. CASE (\E p \in Procs : Crash(p)) \/ UNCHANGED vars
    BY <1>t, <2>3 DEF Crash, vars
  <2>4. CASE Tick
    <3>1. slots' \in {slots, <<>>}
      BY <2>4 DEF Tick
    <3>2. DOMAIN slots' \subseteq DOMAIN slots
      BY <3>1
    <3> QED BY <1>t, <3>2, FS_Subset
  <2> QED BY <2>1, <2>2, <2>3, <2>4 DEF Next
<1> QED
  BY <1>t, <1>2 DEF SetInv

(* What the transaction leaves in the set: the caller's own entry and the  *)
(* entries of others that had not expired at its stamp.                    *)
LEMMA TransactCounts ==
  ASSUME SetInv, NEW c \in Calls, Transact(c)
  PROVE  LET live == {t \in DOMAIN slots : slots[t] > stamp[c]} \ {c}
         IN  /\ Cardinality(live) \in Nat
             /\ Cardinality(DOMAIN slots') = Cardinality(live) + 1
<1> DEFINE live == {t \in DOMAIN slots : slots[t] > stamp[c]} \ {c}
<1>1. DOMAIN slots' = live \union {c}
  BY DEF Transact, Entered, Pruned
<1>2. IsFiniteSet(live)
  BY FS_Subset DEF SetInv
<1>3. c \notin live
  OBVIOUS
<1> HIDE DEF live
<1>4. Cardinality(live) \in Nat /\ Cardinality(live \union {c}) = Cardinality(live) + 1
  BY <1>2, <1>3, FS_CardinalityType, FS_AddElement
<1> QED
  BY <1>1, <1>4 DEF live

(* A call is turned away only by a full set of unexpired leases of others, *)
(* however many dead workers left theirs behind.                           *)
THEOREM Refusals == Spec => RefusedByLiveEntriesOnly
<1>1. Init => SetInv
  <2> SUFFICES ASSUME Init PROVE SetInv
    OBVIOUS
  <2>1. DOMAIN slots = {}
    BY DEF Init
  <2> QED BY <2>1, InitTyped, FS_EmptySet DEF SetInv
<1>2. ASSUME SetInv, [Next]_vars, NEW c \in Calls, pc[c] = "sent", pc'[c] = "backout"
      PROVE  Cardinality({t \in DOMAIN slots : slots[t] > stamp[c]} \ {c}) >= Limit
  <2>1. Refuse(c)
    <3>1. ASSUME NEW d \in Calls, CallStep(d) PROVE Refuse(c)
      <4>1. d = c
        BY <1>2, <3>1 DEF SetInv, TypeOK, CallStep, BeginShared, BeginLocal, Start, Stamp, Admit,
             Refuse, ReplyLost, Transact, AttemptFails, BackOut, BackOutFails, LocalAcquire,
             LocalTimeout, LocalDone, QueryEnds, Release, ReleaseFails
      <4> QED
        BY <1>2, <3>1, <4>1 DEF SetInv, TypeOK, CallStep, BeginShared, BeginLocal, Start, Stamp,
             Admit, Refuse, ReplyLost, Transact, AttemptFails, BackOut, BackOutFails,
             LocalAcquire, LocalTimeout, LocalDone, QueryEnds, Release, ReleaseFails
    <3>2. ~(\E p \in Procs : Crash(p))
      BY <1>2 DEF Crash
    <3>3. ~Tick /\ ~UNCHANGED vars
      BY <1>2 DEF Tick, vars
    <3> QED BY <1>2, <3>1, <3>2, <3>3 DEF Next
  <2>2. Transact(c) /\ ~(Cardinality(DOMAIN slots') <= Limit)
    BY <2>1 DEF Refuse, HasRoom
  <2> QED BY <1>2, <2>2, TransactCounts, ErpAssumption
<1>3. SetInv /\ [Next]_vars =>
        [\A c \in Calls :
           pc[c] = "sent" /\ pc'[c] = "backout"
             => Cardinality({t \in DOMAIN slots : slots[t] > stamp[c]} \ {c}) >= Limit]_vars
  BY <1>2
<1> QED
  BY <1>1, <1>3, NextSet, PTL DEF Spec, RefusedByLiveEntriesOnly

----------------------------------------------------------------------------
(* What the fallback costs: "N workers give N x the limit", and the calls  *)
(* that still hold a lease come on top                                     *)

(* Finitely many sets of at most n members have n members each together.   *)
(* The smallest subset of the index set for which that failed would still  *)
(* satisfy it without one of its members.                                  *)
LEMMA UnionBound ==
  ASSUME NEW P, IsFiniteSet(P), NEW n \in Nat, NEW H,
         \A p \in P : IsFiniteSet(H[p]) /\ Cardinality(H[p]) <= n
  PROVE  /\ IsFiniteSet(UNION {H[p] : p \in P})
         /\ Cardinality(UNION {H[p] : p \in P}) <= n * Cardinality(P)
<1> DEFINE All(Q) == UNION {H[p] : p \in Q}
           Good(Q) == IsFiniteSet(All(Q)) /\ Cardinality(All(Q)) <= n * Cardinality(Q)
           Bad == {Q \in SUBSET P : ~Good(Q)}
<1>1. SUFFICES ASSUME Bad # {} PROVE FALSE
  BY <1>1
<1>2. PICK Q \in Bad : \A R \in Bad : <<R, Q>> \notin StrictSubsetOrdering(P)
  <2>1. IsWellFoundedOn(StrictSubsetOrdering(P), SUBSET P)
    BY FS_StrictSubsetOrderingWellFounded, FS_FiniteSubsetsOfFinite
  <2> HIDE DEF Bad
  <2>2. Bad \subseteq SUBSET P
    BY DEF Bad
  <2> QED BY <1>1, <2>1, <2>2, WFMin
<1>3. Q \subseteq P /\ ~Good(Q) /\ IsFiniteSet(Q)
  BY <1>2, FS_Subset
<1>4. CASE Q = {}
  <2>1. All(Q) = {}
    BY <1>4
  <2> QED BY <1>3, <1>4, <2>1, FS_EmptySet
<1>5. CASE Q # {}
  <2>1. PICK p \in Q : TRUE
    BY <1>5
  <2> DEFINE R == Q \ {p}
  <2>2. Good(R)
    <3>1. R \in SUBSET P /\ <<R, Q>> \in StrictSubsetOrdering(P)
      BY <1>3, <2>1 DEF StrictSubsetOrdering
    <3> QED BY <1>2, <3>1
  <2>3. All(Q) = All(R) \union H[p]
    BY <2>1
  <2>4. Cardinality(R) = Cardinality(Q) - 1 /\ IsFiniteSet(R)
    BY <1>3, <2>1, FS_RemoveElement
  <2>5. p \in P /\ IsFiniteSet(H[p]) /\ Cardinality(H[p]) <= n
    BY <1>3, <2>1
  <2> HIDE DEF All, R
  <2>6. /\ IsFiniteSet(All(Q))
        /\ Cardinality(All(Q)) = Cardinality(All(R)) + Cardinality(H[p])
                                   - Cardinality(All(R) \intersect H[p])
    <3>1. IsFiniteSet(All(R))
      BY <2>2
    <3>2. /\ IsFiniteSet(All(R) \union H[p])
          /\ Cardinality(All(R) \union H[p]) = Cardinality(All(R)) + Cardinality(H[p])
                                                - Cardinality(All(R) \intersect H[p])
      BY <2>5, <3>1, FS_Union
    <3> QED BY <2>3, <3>2
  <2>7. IsFiniteSet(All(R) \intersect H[p])
    BY <2>5, FS_Subset
  <2>8. /\ Cardinality(All(R) \intersect H[p]) \in Nat /\ Cardinality(All(R)) \in Nat
        /\ Cardinality(H[p]) \in Nat /\ Cardinality(Q) \in Nat
    BY <1>3, <2>2, <2>5, <2>7, FS_CardinalityType
  <2>9. n * (Cardinality(Q) - 1) + n = n * Cardinality(Q)
    BY <2>8
  <2>10. Cardinality(All(R)) <= n * (Cardinality(Q) - 1)
    BY <2>2, <2>4
  <2>11. Cardinality(All(Q)) <= n * Cardinality(Q)
    <3> DEFINE a == n * (Cardinality(Q) - 1)
               b == n * Cardinality(Q)
    <3>1. a \in Int /\ b \in Int
      BY <2>8
    <3> HIDE DEF a, b
    <3>2. a + n = b /\ Cardinality(All(R)) <= a
      BY <2>9, <2>10 DEF a, b
    <3>3. Cardinality(All(Q)) <= b
      BY <2>5, <2>6, <2>8, <3>1, <3>2
    <3> QED BY <3>3 DEF b
  <2> QED BY <1>3, <2>6, <2>11
<1> QED BY <1>4, <1>5

(* Every query on the target, admitted through Redis or by a semaphore.    *)
Executing == {c \in Calls : pc[c] \in {"running", "local"}}

(* "Degraded-but-bounded": while workers lose Redis one after the other,   *)
(* some calls still on their lease and others already on a semaphore, the  *)
(* target sees the limit once for the leases and once for every worker.    *)
DegradedButBounded == Cardinality(Executing) <= Limit * (1 + Cardinality(Procs))

LEMMA DegradedBound ==
  ASSUME IsFiniteSet(Procs), CeilingInv, PermitsInv
  PROVE  DegradedButBounded
<1> DEFINE H == [p \in Procs |-> LocalHolders(p)]
           L == UNION {H[p] : p \in Procs}
<1>0. Limit \in Nat /\ Cardinality(Procs) \in Nat
  BY ErpAssumption, FS_CardinalityType
<1>1. \A p \in Procs : IsFiniteSet(H[p]) /\ Cardinality(H[p]) <= Limit
  <2> SUFFICES ASSUME NEW p \in Procs
               PROVE  IsFiniteSet(LocalHolders(p)) /\ Cardinality(LocalHolders(p)) <= Limit
    OBVIOUS
  <2>1. IsFiniteSet(LocalHolders(p)) /\ sem[p] + Cardinality(LocalHolders(p)) = Limit /\ sem[p] \in Nat
    BY DEF PermitsInv, PermitsConserved, TypeOK
  <2>2. Cardinality(LocalHolders(p)) \in Nat
    BY <2>1, FS_CardinalityType
  <2> QED BY <1>0, <2>1, <2>2
<1>2. Executing = SharedHolders \union L
  BY ErpAssumption DEF Executing, SharedHolders, LocalHolders
<1>3. IsFiniteSet(SharedHolders) /\ Cardinality(SharedHolders) <= Limit
  <2>1. SharedHolders \subseteq DOMAIN slots
    BY DEF SharedHolders, CeilingInv, Claimed
  <2> QED BY <2>1, FS_Subset DEF CeilingInv, SharedCeiling
<1> HIDE DEF H
<1>4. IsFiniteSet(L) /\ Cardinality(L) <= Limit * Cardinality(Procs)
  BY <1>0, <1>1, UnionBound
<1> HIDE DEF L
<1>5. /\ Cardinality(Executing) = Cardinality(SharedHolders) + Cardinality(L)
                                     - Cardinality(SharedHolders \intersect L)
      /\ Cardinality(SharedHolders) \in Nat /\ Cardinality(L) \in Nat
      /\ Cardinality(SharedHolders \intersect L) \in Nat
  <2>1. IsFiniteSet(SharedHolders \intersect L)
    BY <1>3, FS_Subset
  <2> QED BY <1>2, <1>3, <1>4, <2>1, FS_Union, FS_CardinalityType
<1>6. Limit * (1 + Cardinality(Procs)) = Limit + Limit * Cardinality(Procs)
  BY <1>0
<1>7. Cardinality(Executing) <= Limit + Limit * Cardinality(Procs)
  <2> DEFINE b == Limit * Cardinality(Procs)
  <2>1. b \in Int
    BY <1>0
  <2>2. Cardinality(L) <= b
    BY <1>4
  <2> HIDE DEF b
  <2>3. Cardinality(Executing) <= Limit + b
    BY <1>0, <1>3, <1>5, <2>1, <2>2
  <2> QED BY <2>3 DEF b
<1> QED BY <1>6, <1>7 DEF DegradedButBounded

(* query_slot: however Redis comes and goes, and however workers crash,    *)
(* the queries on a target are bounded by the limit for the leases and the *)
(* limit again for every worker.                                           *)
THEOREM Degraded ==
  ASSUME LeaseOutlivesQuery, IsFiniteSet(Procs)
  PROVE  Spec => []DegradedButBounded
<1>1. CeilingInv /\ PermitsInv => DegradedButBounded
  BY DegradedBound
<1> QED
  BY <1>1, InitCeiling, NextCeiling, InitPermits, NextPermits, PTL DEF Spec

----------------------------------------------------------------------------
(* Leases end.  No premise: it is the stamp taken before the transaction   *)
(* travels that bounds the entry, however long the transaction takes.      *)

LeasesRunOut ==
    /\ keyTtl <= clock + Lease
    /\ \A t \in DOMAIN slots : slots[t] <= clock + MaxSkew + Lease

LeaseInv ==
    /\ TypeOK
    /\ LeasesRunOut
    /\ \A c \in Calls : pc[c] = "sent" => stamp[c] <= clock + MaxSkew

LEMMA NextLease == LeaseInv /\ [Next]_vars => LeaseInv'
<1> SUFFICES ASSUME LeaseInv, [Next]_vars PROVE LeaseInv'
  OBVIOUS
<1>t. TypeOK /\ TypeOK' /\ clock \in Nat /\ keyTtl \in Nat /\ Lease \in Nat /\ MaxSkew \in Nat
  BY NextTyped, ErpAssumption DEF LeaseInv, TypeOK
<1>s. /\ \A t \in DOMAIN slots : slots[t] \in Nat /\ slots[t] <= clock + MaxSkew + Lease
      /\ \A c \in Calls : stamp[c] \in Nat
      /\ \A c \in Calls : pc[c] = "sent" => stamp[c] <= clock + MaxSkew
      /\ keyTtl <= clock + Lease
  BY <1>t DEF LeaseInv, LeasesRunOut, TypeOK
<1>1. CASE Tick
  <2>1. /\ clock' = clock + 1 /\ UNCHANGED <<keyTtl, pc, stamp>>
        /\ slots' = slots \/ slots' = <<>>
    BY <1>1 DEF Tick
  <2>2. LeasesRunOut'
    <3>1. CASE slots' = slots
      BY <1>t, <1>s, <2>1, <3>1 DEF LeasesRunOut
    <3>2. CASE slots' = <<>>
      BY <1>t, <1>s, <2>1, <3>2 DEF LeasesRunOut
    <3> QED BY <2>1, <3>1, <3>2
  <2>3. \A c \in Calls : pc'[c] = "sent" => stamp'[c] <= clock' + MaxSkew
    BY <1>t, <1>s, <2>1
  <2> QED BY <1>t, <2>2, <2>3 DEF LeaseInv
<1>2. ASSUME NEW c \in Calls, Admit(c) \/ Refuse(c) \/ ReplyLost(c) PROVE LeaseInv'
  <2>0. Transact(c)
    BY <1>2 DEF Admit, Refuse, ReplyLost
  <2>1. clock' = clock /\ keyTtl' = clock + Lease /\ stamp[c] <= clock + MaxSkew
    BY <1>s, <2>0 DEF Transact
  <2>2. \A t \in DOMAIN slots' : slots'[t] <= clock' + MaxSkew + Lease
    BY <1>t, <1>s, <2>0, <2>1 DEF Transact, Entered, Pruned
  <2>3. \A d \in Calls : pc'[d] = "sent" => pc[d] = "sent" /\ stamp'[d] = stamp[d]
    BY <1>t, <1>2 DEF Admit, Refuse, ReplyLost, TypeOK, Forget
  <2>4. LeasesRunOut'
    BY <1>t, <2>1, <2>2 DEF LeasesRunOut
  <2>5. \A d \in Calls : pc'[d] = "sent" => stamp'[d] <= clock' + MaxSkew
    BY <1>s, <2>1, <2>3
  <2> QED BY <1>t, <2>4, <2>5 DEF LeaseInv
<1>3. CASE ~Tick /\ ~(\E c \in Calls : Admit(c) \/ Refuse(c) \/ ReplyLost(c))
  <2>1. UNCHANGED <<clock, keyTtl>>
    BY <1>3 DEF Next, CallStep, BeginShared, BeginLocal, Start, Stamp,
       AttemptFails, BackOut, BackOutFails, LocalAcquire, LocalTimeout, LocalDone,
       QueryEnds, Release, ReleaseFails, Crash, vars
  <2>2. slots' = slots \/ \E c \in Calls : slots' = Without(c)
    BY <1>3 DEF Next, CallStep, BeginShared, BeginLocal, Start, Stamp,
       AttemptFails, BackOut, BackOutFails, LocalAcquire, LocalTimeout, LocalDone,
       QueryEnds, Release, ReleaseFails, Crash, vars
  <2>3. \A t \in DOMAIN slots' : t \in DOMAIN slots /\ slots'[t] = slots[t]
    BY <2>2 DEF Without
  <2>4. \A d \in Calls : pc'[d] = "sent" =>
           \/ pc[d] = "sent" /\ stamp'[d] = stamp[d]
           \/ stamp'[d] = Now(d)
    BY <1>t, <1>3 DEF Next, CallStep, BeginShared, BeginLocal, Start, Stamp,
       AttemptFails, BackOut, BackOutFails, LocalAcquire, LocalTimeout,
       LocalDone, QueryEnds, Release, ReleaseFails, Crash, TypeOK, vars, Forget
  <2>5. \A d \in Calls : pc'[d] = "sent" => stamp'[d] <= clock' + MaxSkew
    BY <1>t, <1>s, <2>1, <2>4, SkewBounds DEF Now
  <2>6. LeasesRunOut'
    BY <1>s, <2>1, <2>3 DEF LeasesRunOut
  <2> QED BY <1>t, <2>5, <2>6 DEF LeaseInv
<1> QED BY <1>1, <1>2, <1>3

(* No lease shrinks the ceiling for good, whoever left it behind and       *)
(* however late its transaction was applied: an entry ends at most a lease *)
(* and the clock differences from now, and the key a lease from now.       *)
THEOREM LeasesEnd == Spec => []LeasesRunOut
<1>1. Init => LeaseInv
  <2> SUFFICES ASSUME Init PROVE LeaseInv
    OBVIOUS
  <2>1. LeasesRunOut
    BY ErpAssumption DEF Init, LeasesRunOut
  <2>2. \A c \in Calls : pc[c] # "sent"
    BY DEF Init
  <2> QED BY <2>1, <2>2, InitTyped DEF LeaseInv
<1>2. LeaseInv => LeasesRunOut
  BY DEF LeaseInv
<1> QED
  BY <1>1, <1>2, NextLease, PTL DEF Spec

----------------------------------------------------------------------------
(* The gate of the Redis client, which decides whether a call starts with  *)
(* the shared counter or the semaphore.  What an outage costs follows from *)
(* a count that is not visible in the bound: while the client is parked no *)
(* thread may send, so a failure takes one command from those still under  *)
(* way, and the errors together with these stay below the threshold plus   *)
(* the threads.                                                            *)

Out == {t \in Threads : place[t] = "sent"}

GateInv ==
    /\ GateTypeOK
    /\ failed = errors
    /\ gate = Unparked => errors < Threshold
    /\ gate > 0 => errors + Cardinality(Out) <= Threshold + Cardinality(Threads) - 1

LEMMA OutBounds ==
  /\ IsFiniteSet(Out) /\ Cardinality(Out) \in Nat /\ Cardinality(Threads) \in Nat
  /\ Cardinality(Out) <= Cardinality(Threads)
<1>1. Out \subseteq Threads
  BY DEF Out
<1> QED BY <1>1, CacheGateAssumption, FS_Subset, FS_CardinalityType

(* A command that ends leaves one less under way.                          *)
LEMMA OneLess ==
  ASSUME GateTypeOK, NEW t \in Threads, place[t] = "sent", place' = [place EXCEPT ![t] = "idle"]
  PROVE  Cardinality(Out') = Cardinality(Out) - 1
<1>1. Out' = Out \ {t} /\ t \in Out
  BY DEF Out, GateTypeOK
<1> QED BY <1>1, OutBounds, FS_RemoveElement

LEMMA CountedTyped ==
  ASSUME NEW n \in 0..Count
  PROVE  Counted(n) \in 0..Count /\ Counted(n) <= n + 1
  BY CacheGateAssumption DEF Counted

(* A failure counts once, and parks the client at the threshold.           *)
LEMMA FailsGate ==
  ASSUME GateInv, NEW t \in Threads, Fails(t)
  PROVE  GateInv'
<1> USE CacheGateAssumption
<1>1. /\ errors' = Counted(errors) /\ failed' = Counted(failed)
      /\ gate' = IF Counted(errors) >= Threshold /\ gate = Unparked THEN Recovery ELSE gate
      /\ place' = [place EXCEPT ![t] = "idle"] /\ place[t] = "sent"
      /\ UNCHANGED <<server, connected>>
  BY DEF Fails, NoteError
<1>2. GateTypeOK'
  <2>1. late' \in 0..Count
    BY CountedTyped DEF Fails, GateInv, GateTypeOK
  <2>2. errors' \in 0..Count /\ failed' \in 0..Count
    BY <1>1, CountedTyped DEF GateInv, GateTypeOK
  <2>3. gate' \in Unparked..Recovery /\ place' \in [Threads -> {"idle", "sent"}]
    BY <1>1 DEF GateInv, GateTypeOK, Unparked
  <2> QED BY <1>1, <2>1, <2>2, <2>3 DEF GateInv, GateTypeOK
<1>3. failed' = errors'
  BY <1>1 DEF GateInv
<1>4. Cardinality(Out') = Cardinality(Out) - 1
  BY <1>1, OneLess DEF GateInv
<1>5. errors \in 0..Count /\ errors' <= errors + 1 /\ errors' \in Nat
  BY <1>1, CountedTyped DEF GateInv, GateTypeOK
<1>6. CASE gate = Unparked
  <2>1. errors < Threshold
    BY <1>6 DEF GateInv
  <2>2. gate' = Unparked => errors' < Threshold
    BY <1>1, <1>5, <1>6 DEF Unparked
  <2>3. errors' + Cardinality(Out') <= Threshold + Cardinality(Threads) - 1
    BY <2>1, <1>4, <1>5, OutBounds
  <2> QED BY <1>2, <1>3, <2>2, <2>3 DEF GateInv
<1>7. CASE gate # Unparked
  <2>1. gate' = gate
    BY <1>1, <1>7
  <2>2. gate' > 0 => errors' + Cardinality(Out') <= Threshold + Cardinality(Threads) - 1
    BY <2>1, <1>4, <1>5, OutBounds DEF GateInv
  <2> QED BY <1>2, <1>3, <1>7, <2>1, <2>2 DEF GateInv
<1> QED BY <1>6, <1>7

LEMMA InitGate == GateInit => GateInv
  BY CacheGateAssumption DEF GateInit, GateInv, GateTypeOK, Unparked

LEMMA NextGate == GateInv /\ [GateNext]_gateVars => GateInv'
<1> SUFFICES ASSUME GateInv, [GateNext]_gateVars PROVE GateInv'
  OBVIOUS
<1> USE CacheGateAssumption DEF Unparked
<1>1. CASE Construct
  <2>1. Out' = Out
    BY <1>1 DEF Construct, Out
  <2> QED BY <1>1, <2>1 DEF Construct, GateInv, GateTypeOK
<1>2. CASE Cool
  <2>1. Out' = Out
    BY <1>2 DEF Cool, Out
  <2> QED BY <1>2, <2>1 DEF Cool, GateInv, GateTypeOK
<1>3. CASE ServerChanges
  <2>1. Out' = Out
    BY <1>3 DEF ServerChanges, Out
  <2> QED BY <1>3, <2>1 DEF ServerChanges, GateInv, GateTypeOK
<1>4. ASSUME NEW t \in Threads, Send(t) PROVE GateInv'
  <2>1. gate' = gate /\ ~(gate > 0) /\ errors' = errors /\ failed' = failed
    BY <1>4 DEF Send, Available
  <2>2. GateTypeOK'
    BY <1>4 DEF Send, GateInv, GateTypeOK
  <2> QED BY <2>1, <2>2 DEF GateInv
<1>5. ASSUME NEW t \in Threads, Succeeds(t) PROVE GateInv'
  BY <1>5 DEF Succeeds, NoteSuccess, GateInv, GateTypeOK
<1>6. ASSUME NEW t \in Threads, Fails(t) PROVE GateInv'
  BY <1>6, FailsGate
<1>7. CASE UNCHANGED gateVars
  <2>1. Out' = Out
    BY <1>7 DEF gateVars, Out
  <2> QED BY <1>7, <2>1 DEF gateVars, GateInv, GateTypeOK
<1> QED BY <1>1, <1>2, <1>3, <1>4, <1>5, <1>6, <1>7 DEF GateNext

LEMMA GateBounds == GateInv => OutageCost
<1> SUFFICES ASSUME GateInv, gate # 0 PROVE failed <= Threshold + Cardinality(Threads) - 1
  BY DEF OutageCost
<1> USE CacheGateAssumption
<1>1. CASE gate = Unparked
  <2>1. failed < Threshold /\ failed \in Nat
    BY <1>1 DEF GateInv, GateTypeOK
  <2> QED BY <2>1, OutBounds
<1>2. CASE gate > 0
  BY <1>2, OutBounds DEF GateInv, GateTypeOK
<1> QED BY <1>1, <1>2 DEF GateInv, GateTypeOK, Unparked

(* Type correctness of the gate's counters; in particular a cooldown is    *)
(* never longer than RECOVERY_SECONDS, however many errors extend a run.   *)
THEOREM GateTyping == GateSpec => []GateTypeOK
<1>1. GateInit => GateInv
  BY InitGate
<1>2. GateInv /\ [GateNext]_gateVars => GateInv'
  BY NextGate
<1>3. GateInv => GateTypeOK
  BY DEF GateInv
<1> QED BY <1>1, <1>2, <1>3, PTL DEF GateSpec

(* What an outage costs before the client has parked and cooled down once: *)
(* the threshold, and the commands other threads had under way.            *)
THEOREM GateCost == GateSpec => []OutageCost
<1>1. GateInit => GateInv
  BY InitGate
<1>2. GateInv /\ [GateNext]_gateVars => GateInv'
  BY NextGate
<1>3. GateInv => OutageCost
  BY GateBounds
<1> QED BY <1>1, <1>2, <1>3, PTL DEF GateSpec
=============================================================================
