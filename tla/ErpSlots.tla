------------------------------ MODULE ErpSlots ------------------------------
(***************************************************************************)
(* Backpressure on one customer database: dbbuddy_core/erp_concurrency.py. *)
(*                                                                         *)
(* Every use of query_slot is a member of Calls and runs in the worker     *)
(* process ProcOf[c]; the call is its own token (the code draws a fresh    *)
(* uuid per call).  With Redis, a call is admitted by a transaction on one *)
(* sorted set of leases (_SharedSlots.acquire); without it, or when a      *)
(* command fails, by the BoundedSemaphore of its process.  Workers crash,  *)
(* any Redis command may fail (an outage is a time in which they all do,   *)
(* the set is still there afterwards), a command may be applied and its    *)
(* reply lost, and the clocks of two workers differ by up to MaxSkew.      *)
(*                                                                         *)
(* Time is a bounded counter.  Targets do not interact (every structure is *)
(* keyed by target_key), so one target is modelled.                        *)
(***************************************************************************)
EXTENDS Integers, FiniteSets

CONSTANTS
    Calls,      \* uses of query_slot against this target
    Procs,      \* worker processes
    ProcOf,     \* ProcOf[c] is the worker call c runs in
    Limit,      \* MAX_CONCURRENT_PER_TARGET
    Wait,       \* QUEUE_TIMEOUT_SECONDS
    Lease,      \* lease_seconds()
    Hold,       \* longest time from taking the stamp to the end of the slot's use
    Enforced,   \* TRUE when the engine aborts a statement at its timeout
    Skew,       \* Skew[p]: how far the clock of worker p runs ahead
    MaxSkew,    \* bound on Skew
    MaxClock    \* bound on the clock (of the model, not of the code)

ASSUME ErpAssumption ==
    /\ ProcOf \in [Calls -> Procs]
    /\ Limit \in Nat \ {0}
    /\ Wait \in Nat /\ Lease \in Nat /\ Hold \in Nat
    /\ MaxSkew \in Nat /\ MaxClock \in Nat
    /\ Skew \in [Procs -> 0..MaxSkew]
    /\ Enforced \in BOOLEAN

(* lease_seconds: the lease outlasts the statement timeout by a margin     *)
(* that also has to absorb the clock differences between workers.  Hold is *)
(* connecting and one statement; a slot spans every statement of a plan,   *)
(* each with a timeout of its own, so a plan of several may outlive the    *)
(* lease and this is a premise, not a fact about the code.                 *)
LeaseOutlivesQuery == Enforced /\ Hold + MaxSkew < Lease

VARIABLES
    clock,      \* true time
    slots,      \* the sorted set: token -> score (expiry of its lease)
    keyTtl,     \* when Redis drops the whole key (PEXPIRE)
    sem,        \* sem[p]: permits left in the semaphore of worker p
    pc,         \* where each call is in query_slot
    stamp,      \* the time.time() the call's last attempt was made with
    deadline    \* when the call stops waiting

vars == <<clock, slots, keyTtl, sem, pc, stamp, deadline>>

Terminal == {"done", "busy", "dead"}
Places == {"idle", "attempt", "sent", "running", "backout", "releasing",
           "localwait", "local"} \union Terminal

SharedHolders == {c \in Calls : pc[c] = "running"}
LocalHolders(p) == {c \in Calls : ProcOf[c] = p /\ pc[c] = "local"}

Now(c) == clock + Skew[ProcOf[c]]
StampedAt(c) == stamp[c] - Skew[ProcOf[c]]   \* the same instant in true time

----------------------------------------------------------------------------
(* The sorted set, as the Redis commands of acquire and release use it.    *)

Without(c) == [t \in DOMAIN slots \ {c} |-> slots[t]]            \* ZREM

\* Forgets the prune: leases of dead workers keep counting.
NeverPruned(now) == slots
\* ZREMRANGEBYSCORE key 0 now
Pruned(now) == [t \in {u \in DOMAIN slots : slots[u] > now} |-> slots[t]]

\* Scores the entry with the start of the claim instead of its end.
EnteredWithoutLease(c) ==
    LET kept == Pruned(stamp[c])
    IN  [t \in DOMAIN kept \union {c} |-> IF t = c THEN stamp[c] ELSE kept[t]]
\* ZREMRANGEBYSCORE; ZADD key {token: now + lease}
Entered(c) ==
    LET kept == Pruned(stamp[c])
    IN  [t \in DOMAIN kept \union {c} |->
            IF t = c THEN stamp[c] + Lease ELSE kept[t]]

\* Off by one: counts the others and forgets the entry just added.
HasRoomOffByOne(set) == Cardinality(DOMAIN set) <= Limit + 1
\* count <= self._limit, the count including the caller's own entry
HasRoom(set) == Cardinality(DOMAIN set) <= Limit

----------------------------------------------------------------------------
(* query_slot                                                              *)

\* A local variable of query_slot or acquire that is not read again.
Forget(local, c) == [local EXCEPT ![c] = 0]

\* The bound on the clock ends the model's time, not the caller's patience:
\* a call starts only while its deadline still fits.
Start(c) ==
    /\ pc[c] = "idle"
    /\ clock + Wait <= MaxClock
    /\ deadline' = [deadline EXCEPT ![c] = clock + Wait]

\* _shared_slots() returned a counter.
BeginShared(c) ==
    /\ Start(c)
    /\ pc' = [pc EXCEPT ![c] = "attempt"]
    /\ UNCHANGED <<clock, slots, keyTtl, sem, stamp>>

\* _shared_slots() returned None: never connected, or the cache is parked.
BeginLocal(c) ==
    /\ Start(c)
    /\ pc' = [pc EXCEPT ![c] = "localwait"]
    /\ UNCHANGED <<clock, slots, keyTtl, sem, stamp>>

\* acquire: now = time.time(), taken before the transaction travels
Stamp(c) ==
    /\ pc[c] = "attempt"
    /\ stamp' = [stamp EXCEPT ![c] = Now(c)]
    /\ pc' = [pc EXCEPT ![c] = "sent"]
    /\ UNCHANGED <<clock, slots, keyTtl, sem, deadline>>

\* The transaction of acquire, with its PEXPIRE
Transact(c) ==
    /\ pc[c] = "sent"
    /\ slots' = Entered(c)
    /\ keyTtl' = clock + Lease
    /\ UNCHANGED <<clock, sem>>

Admit(c) ==
    /\ Transact(c)
    /\ HasRoom(slots')
    /\ pc' = [pc EXCEPT ![c] = "running"]
    /\ deadline' = Forget(deadline, c)
    /\ UNCHANGED stamp

Refuse(c) ==
    /\ Transact(c)
    /\ ~HasRoom(slots')
    /\ pc' = [pc EXCEPT ![c] = "backout"]
    /\ stamp' = Forget(stamp, c)
    /\ UNCHANGED deadline

\* The transaction was applied and its reply lost: the client sees an
\* exception and falls through to the semaphore, its entry stays behind.
ReplyLost(c) ==
    /\ Transact(c)
    /\ pc' = [pc EXCEPT ![c] = "localwait"]
    /\ stamp' = Forget(stamp, c)
    /\ UNCHANGED deadline

\* The transaction never reached Redis.
AttemptFails(c) ==
    /\ pc[c] = "sent"
    /\ pc' = [pc EXCEPT ![c] = "localwait"]
    /\ stamp' = Forget(stamp, c)
    /\ UNCHANGED <<clock, slots, keyTtl, sem, deadline>>

\* Retries without looking at the deadline.
BackOutForever(c) ==
    /\ pc[c] = "backout"
    /\ slots' = Without(c)
    /\ pc' = [pc EXCEPT ![c] = "attempt"]
    /\ UNCHANGED <<clock, keyTtl, sem, stamp, deadline>>

\* Refused: the optimistic entry comes back out, and the loop either ends at
\* the deadline or sleeps and tries again.
BackOut(c) ==
    /\ pc[c] = "backout"
    /\ slots' = Without(c)
    /\ \/ /\ clock >= deadline[c]
          /\ pc' = [pc EXCEPT ![c] = "busy"]
          /\ deadline' = Forget(deadline, c)
       \/ /\ clock < deadline[c]
          /\ pc' = [pc EXCEPT ![c] = "attempt"]
          /\ UNCHANGED deadline
    /\ UNCHANGED <<clock, keyTtl, sem, stamp>>

\* The ZREM of the back-out raises inside acquire, applied or not: query_slot
\* catches it like any failed attempt.
BackOutFails(c) ==
    /\ pc[c] = "backout"
    /\ slots' \in {slots, Without(c)}
    /\ pc' = [pc EXCEPT ![c] = "localwait"]
    /\ UNCHANGED <<clock, keyTtl, sem, stamp, deadline>>

LocalAcquire(c) ==
    /\ pc[c] = "localwait"
    /\ sem[ProcOf[c]] > 0
    /\ sem' = [sem EXCEPT ![ProcOf[c]] = @ - 1]
    /\ pc' = [pc EXCEPT ![c] = "local"]
    /\ deadline' = Forget(deadline, c)
    /\ UNCHANGED <<clock, slots, keyTtl, stamp>>

\* The release of a finally block that also covers the timeout.
LocalTimeoutReleases(c) ==
    /\ pc[c] = "localwait"
    /\ sem[ProcOf[c]] = 0 /\ clock >= deadline[c]
    /\ pc' = [pc EXCEPT ![c] = "busy"]
    /\ sem' = [sem EXCEPT ![ProcOf[c]] = @ + 1]
    /\ deadline' = Forget(deadline, c)
    /\ UNCHANGED <<clock, slots, keyTtl, stamp>>

LocalTimeout(c) ==
    /\ pc[c] = "localwait"
    /\ sem[ProcOf[c]] = 0 /\ clock >= deadline[c]
    /\ pc' = [pc EXCEPT ![c] = "busy"]
    /\ deadline' = Forget(deadline, c)
    /\ UNCHANGED <<clock, slots, keyTtl, sem, stamp>>

LocalDone(c) ==
    /\ pc[c] = "local"
    /\ sem' = [sem EXCEPT ![ProcOf[c]] = @ + 1]
    /\ pc' = [pc EXCEPT ![c] = "done"]
    /\ UNCHANGED <<clock, slots, keyTtl, stamp, deadline>>

\* The body of the with block ends, normally or not.
QueryEnds(c) ==
    /\ pc[c] = "running"
    /\ pc' = [pc EXCEPT ![c] = "releasing"]
    /\ stamp' = Forget(stamp, c)
    /\ UNCHANGED <<clock, slots, keyTtl, sem, deadline>>

Release(c) ==
    /\ pc[c] = "releasing"
    /\ slots' = Without(c)
    /\ pc' = [pc EXCEPT ![c] = "done"]
    /\ UNCHANGED <<clock, keyTtl, sem, stamp, deadline>>

\* A failed release is logged and swallowed; the lease expires on its own.
ReleaseFails(c) ==
    /\ pc[c] = "releasing"
    /\ pc' = [pc EXCEPT ![c] = "done"]
    /\ UNCHANGED <<clock, slots, keyTtl, sem, stamp, deadline>>

CallStep(c) ==
    \/ BeginShared(c) \/ BeginLocal(c)
    \/ Stamp(c) \/ Admit(c) \/ Refuse(c) \/ ReplyLost(c) \/ AttemptFails(c)
    \/ BackOut(c) \/ BackOutFails(c)
    \/ LocalAcquire(c) \/ LocalTimeout(c) \/ LocalDone(c)
    \/ QueryEnds(c) \/ Release(c) \/ ReleaseFails(c)

----------------------------------------------------------------------------
(* The environment                                                         *)

\* A worker dies: its calls and its semaphores go, its leases stay.  The
\* queries of the dead worker end with its connections.
Crash(p) ==
    LET lost == {c \in Calls : ProcOf[c] = p /\ pc[c] \notin Terminal \union {"idle"}}
    IN  /\ lost # {}
        /\ pc' = [c \in Calls |-> IF c \in lost THEN "dead" ELSE pc[c]]
        /\ stamp' = [c \in Calls |-> IF c \in lost THEN 0 ELSE stamp[c]]
        /\ deadline' = [c \in Calls |-> IF c \in lost THEN 0 ELSE deadline[c]]
        /\ sem' = [sem EXCEPT ![p] = Limit]
        /\ UNCHANGED <<clock, slots, keyTtl>>

\* With the statement timeout in force no query is still running Hold ticks
\* after the stamp of the attempt that admitted it (socket timeout, connect
\* and the timeout of one statement together).  Redis drops the key at its TTL.
Tick ==
    /\ clock < MaxClock
    /\ Enforced => \A c \in Calls :
                      pc[c] \in {"sent", "running"} => clock < StampedAt(c) + Hold
    /\ clock' = clock + 1
    /\ slots' = IF clock + 1 >= keyTtl THEN <<>> ELSE slots
    /\ UNCHANGED <<keyTtl, sem, pc, stamp, deadline>>

----------------------------------------------------------------------------
Init ==
    /\ clock = 0
    /\ slots = <<>> /\ keyTtl = 0
    /\ sem = [p \in Procs |-> Limit]
    /\ pc = [c \in Calls |-> "idle"]
    /\ stamp = [c \in Calls |-> 0]
    /\ deadline = [c \in Calls |-> 0]

Next ==
    \/ \E c \in Calls : CallStep(c)
    \/ \E p \in Procs : Crash(p)
    \/ Tick

Spec == Init /\ [][Next]_vars

\* Threads are scheduled, time passes, and a query that runs returns (the
\* statement timeout sees to it).  Nothing forces a crash or an outage.
Fairness ==
    /\ WF_vars(Tick)
    /\ \A c \in Calls :
          /\ WF_vars(Stamp(c))
          /\ WF_vars(Admit(c) \/ Refuse(c) \/ AttemptFails(c))
          /\ WF_vars(BackOut(c) \/ BackOutFails(c))
          /\ WF_vars(LocalAcquire(c)) /\ WF_vars(LocalTimeout(c))
          /\ WF_vars(LocalDone(c)) /\ WF_vars(QueryEnds(c))
          /\ WF_vars(Release(c) \/ ReleaseFails(c))

FairSpec == Spec /\ Fairness

----------------------------------------------------------------------------
(* Properties                                                              *)

TypeOK ==
    /\ clock \in Nat /\ keyTtl \in Nat
    /\ DOMAIN slots \subseteq Calls /\ \A t \in DOMAIN slots : slots[t] \in Nat
    /\ sem \in [Procs -> Nat]
    /\ pc \in [Calls -> Places]
    /\ stamp \in [Calls -> Nat] /\ deadline \in [Calls -> Nat]

\* "cannot over-admit": however attempts, back-outs, prunes, crashes and skewed
\* clocks interleave, the queries admitted through Redis never exceed the limit.
SharedCeiling == Cardinality(SharedHolders) <= Limit

\* A running query admitted through Redis still has its lease in the set: no
\* prune by another worker and no key expiry takes a slot from under it.
LeaseHeldWhileRunning == \A c \in SharedHolders : c \in DOMAIN slots

\* Why the ceiling holds, as an inductive invariant: an attempt under way or
\* admitted is timely, a running query's entry is the one it was admitted with,
\* and neither a prune nor the key's expiry is due while it runs.
Timely(c) ==
    pc[c] \in {"sent", "running"} =>
        StampedAt(c) <= clock /\ clock <= StampedAt(c) + Hold

Claimed(c) ==
    pc[c] = "running" =>
        /\ c \in DOMAIN slots
        /\ slots[c] = stamp[c] + Lease
        /\ StampedAt(c) + Lease <= keyTtl

CeilingInv ==
    /\ TypeOK
    /\ IsFiniteSet(DOMAIN slots)
    /\ \A c \in Calls : Timely(c) /\ Claimed(c)
    /\ SharedCeiling

\* Permits of a worker's semaphore are conserved across timeouts, failed
\* attempts and crashes: none leaks, none is returned twice.
PermitsConserved ==
    \A p \in Procs : sem[p] + Cardinality(LocalHolders(p)) = Limit

\* A call is turned away only by Limit entries that had not expired: the lease
\* of a dead worker, once over, never costs anyone a slot.
RefusedByLiveEntriesOnly ==
    [][\A c \in Calls :
          pc[c] = "sent" /\ pc'[c] = "backout"
            => Cardinality({t \in DOMAIN slots : slots[t] > stamp[c]} \ {c})
                 >= Limit]_vars

\* Redis-admitted calls implement the abstract ceiling, crashes included.
Ceiling == INSTANCE ConcurrencyCeiling WITH holders <- SharedHolders
ImplementsCeiling == Ceiling!Spec

\* "a caller gives up ... instead of holding a worker forever": every call that
\* starts is over at some point, whatever Redis and the other calls do.
EveryCallEnds == \A c \in Calls : pc[c] # "idle" ~> pc[c] \in Terminal
=============================================================================
