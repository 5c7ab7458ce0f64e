----------------------------- MODULE CacheGate -----------------------------
(***************************************************************************)
(* The availability gate of the Redis client, dbbuddy_core/cache.py: one   *)
(* Cache object per worker process, its threads, and a server that comes   *)
(* and goes.  What the commands compute is left out: every consumer falls  *)
(* back to the live value.                                                 *)
(*                                                                         *)
(* _note_error and _note_success make no call between reading and writing  *)
(* the counters, so each is one step.  Time is what is left of a cooldown. *)
(*                                                                         *)
(* The names say Gate where ErpSlots has the plain ones: the two are parts *)
(* of one worker process and are read together in ErpSlots_proof.          *)
(***************************************************************************)
EXTENDS Integers, FiniteSets

CONSTANTS
    Threads,    \* threads of the process that use the cache
    Threshold,  \* ERROR_THRESHOLD
    Recovery,   \* RECOVERY_SECONDS, in ticks
    Count       \* bound on the counters of the model (errors, history)

ASSUME CacheGateAssumption ==
    /\ IsFiniteSet(Threads)
    /\ Threshold \in Nat \ {0} /\ Recovery \in Nat \ {0}
    /\ Count \in Nat /\ Count >= Threshold

VARIABLES
    server,     \* "up" or "down"
    connected,  \* set by the probe of the constructor, "unmade" before it
    errors,     \* _consecutive_errors
    gate,       \* Unparked, or the ticks left until _blocked_until
    place,         \* place[t]: "idle" or "sent"
    failed,     \* commands that failed since the last success (history)
    late        \* those of them since the last cooldown ended (history)

gateVars == <<server, connected, errors, gate, place, failed, late>>

Unparked == -1      \* _blocked_until = 0.0
Counted(n) == IF n < Count THEN n + 1 ELSE n

----------------------------------------------------------------------------
\* The constructor: one ping decides whether this process ever has a cache.
Construct ==
    /\ connected = "unmade"
    /\ connected' = IF server = "up" THEN "yes" ELSE "no"
    /\ UNCHANGED <<server, errors, gate, place, failed, late>>

\* Once expired, _blocked_until still is not zero.
AvailableIgnoresCooldown == connected = "yes"
\* _available
Available == connected = "yes" /\ gate \in {Unparked, 0}

Send(t) ==
    /\ place[t] = "idle" /\ Available
    /\ place' = [place EXCEPT ![t] = "sent"]
    /\ UNCHANGED <<server, connected, errors, gate, failed, late>>

\* Opens the gate again and goes on counting where the outage ended.
NoteSuccessKeepsCount == gate' = Unparked /\ UNCHANGED errors
\* _note_success
NoteSuccess == errors' = 0 /\ gate' = Unparked

\* _note_error: parks once, not again while _blocked_until is set
NoteError ==
    /\ errors' = Counted(errors)
    /\ gate' = IF Counted(errors) >= Threshold /\ gate = Unparked THEN Recovery ELSE gate

Succeeds(t) ==
    /\ place[t] = "sent" /\ server = "up"
    /\ place' = [place EXCEPT ![t] = "idle"]
    /\ NoteSuccess
    /\ failed' = 0 /\ late' = 0
    /\ UNCHANGED <<server, connected>>

\* The command times out or is refused.
Fails(t) ==
    /\ place[t] = "sent" /\ server = "down"
    /\ place' = [place EXCEPT ![t] = "idle"]
    /\ NoteError
    /\ failed' = Counted(failed)
    /\ late' = IF gate = 0 THEN Counted(late) ELSE 0
    /\ UNCHANGED <<server, connected>>

Cool ==
    /\ gate > 0
    /\ gate' = gate - 1
    /\ UNCHANGED <<server, connected, errors, place, failed, late>>

ServerChanges ==
    /\ server' \in {"up", "down"} \ {server}
    /\ UNCHANGED <<connected, errors, gate, place, failed, late>>

----------------------------------------------------------------------------
GateInit ==
    /\ server \in {"up", "down"}
    /\ connected = "unmade"
    /\ errors = 0 /\ gate = Unparked
    /\ place = [t \in Threads |-> "idle"]
    /\ failed = 0 /\ late = 0

GateNext ==
    \/ Construct \/ Cool \/ ServerChanges
    \/ \E t \in Threads : Send(t) \/ Succeeds(t) \/ Fails(t)

GateSpec == GateInit /\ [][GateNext]_gateVars

\* Requests keep coming, commands end (socket_timeout), and time passes.
GateFairness ==
    /\ WF_gateVars(Construct) /\ WF_gateVars(Cool)
    /\ \A t \in Threads : WF_gateVars(Send(t)) /\ WF_gateVars(Succeeds(t) \/ Fails(t))

GateFairSpec == GateSpec /\ GateFairness

----------------------------------------------------------------------------
(* Properties                                                              *)

GateTypeOK ==
    /\ server \in {"up", "down"} /\ connected \in {"unmade", "yes", "no"}
    /\ errors \in 0..Count /\ gate \in Unparked..Recovery
    /\ place \in [Threads -> {"idle", "sent"}]
    /\ failed \in 0..Count /\ late \in 0..Count

\* An outage costs at most Threshold failed commands, and those the other
\* threads had under way, until the first cooldown is over.
OutageCost ==
    gate # 0 => failed <= Threshold + Cardinality(Threads) - 1

\* "Costs one timeout per cooldown instead of one per command": after a cooldown
\* each thread runs into the outage once at most, then the client parks again
\* (cache.py:34).  It does not hold: a failure leaves an expired _blocked_until
\* as it is, so from the first cooldown on every command pays the timeout.
OneProbePerCooldown == late <= Cardinality(Threads)

\* A client that was ever connected is used again once the server stays up.
Recovers ==
    <>[](server = "up") /\ <>(connected = "yes") => <>[](Available /\ errors = 0)
=============================================================================
