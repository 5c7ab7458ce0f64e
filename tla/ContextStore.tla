---------------------------- MODULE ContextStore ----------------------------
(***************************************************************************)
(* The prepared-context store of dbbuddy_core/context_store.py, for one    *)
(* target database and the workers that serve it.                          *)
(*                                                                         *)
(* A request resolves the target's schema: from the short-lived schema     *)
(* cache, by sharing the read another request has under way, or by a read  *)
(* of its own.  The hash of the schema keys the contexts of the worker; a  *)
(* query takes the one it finds or builds one, an analyze always builds.   *)
(* Analyze writes its labels to the disk all workers share and broadcasts; *)
(* the write may fail, or leave half a file, and nobody is told.           *)
(*                                                                         *)
(* A schema is the number of DDL changes before it, so that reads can be   *)
(* ordered; a label set is the number of the analysis it came from, 0 when *)
(* rule-based.  The cached schema may expire at any moment.  The vector    *)
(* index, value index and roles are built with the labels; the connection  *)
(* pool and the metrics are left out.                                      *)
(***************************************************************************)
EXTENDS Integers, FiniteSets

CONSTANTS
    Workers,
    Callers,        \* threads that call get_context_ex or rebuild
    At,             \* At[c]: the worker of caller c
    Analysts,       \* callers that run rebuild
    Listening,      \* workers with a started context listener
    Changes,        \* bound on the DDL changes of the target
    Hashes, Hash,   \* Hash[n]: the hash of the schema after n - 1 changes
    Analyses,       \* bound on the label sets made
    Nobody          \* no caller

ASSUME ContextAssumption ==
    /\ At \in [Callers -> Workers] /\ Analysts \subseteq Callers
    /\ Listening \subseteq Workers
    /\ Changes \in Nat \ {0} /\ Analyses \in Nat
    /\ Hash \in [1..Changes -> Hashes]
    /\ Nobody \notin Callers

None == 0               \* no schema, no rich schema, rule-based labels
NoContext == [rich |-> 0, sem |-> -1]

VARIABLES
    live,       \* the schema of the target, 1..Changes
    disk,       \* disk[h]: the labels that can be loaded; half a file cannot
    analyses,   \* label sets made so far
    context,    \* context[w][h], an entry of _contexts
    cached,     \* cached[w]: _schema_cache, or None
    flight,     \* flight[w]: the leader in _schema_flights, or Nobody
    inbox,      \* inbox[w]: broadcasts on the wire to the listener of w
    pc, lead, schema, rich, sem,    \* the callers
    floor,      \* history: live when an analyze began
    installed   \* history: label sets that came into a context

store == <<context, cached, flight>>
call == <<pc, lead, schema, rich, sem, floor>>
vars == <<live, disk, analyses, store, inbox, call, installed>>

Goto(c, place) == pc' = [pc EXCEPT ![c] = place]
Got(c, s, r) ==
    /\ schema' = [schema EXCEPT ![c] = s]
    /\ rich' = [rich EXCEPT ![c] = r]

\* A call that ended, with an answer or an exception: its locals are gone.
Over(c) ==
    /\ Goto(c, "idle")
    /\ lead' = [lead EXCEPT ![c] = Nobody]
    /\ Got(c, None, None)
    /\ sem' = [sem EXCEPT ![c] = None]
    /\ floor' = [floor EXCEPT ![c] = None]

----------------------------------------------------------------------------
(* Resolving the schema                                                    *)

\* Any request; rebuild drops the cached schema before it resolves.
Begin(c) ==
    /\ pc[c] = "idle"
    /\ c \in Analysts => analyses < Analyses
    /\ Goto(c, "resolve")
    /\ floor' = IF c \in Analysts THEN [floor EXCEPT ![c] = live] ELSE floor
    /\ cached' = IF c \in Analysts THEN [cached EXCEPT ![At[c]] = None] ELSE cached
    /\ UNCHANGED <<live, disk, analyses, context, flight, inbox, lead, schema, rich, sem, installed>>

\* _resolve_schema_ex: a hit comes without the rich schema
Resolve(c) ==
    /\ pc[c] = "resolve"
    /\ \/ /\ cached[At[c]] # None
          /\ Got(c, cached[At[c]], None) /\ Goto(c, "lookup")
       \/ /\ cached[At[c]] = None
          /\ Goto(c, "fly") /\ UNCHANGED <<schema, rich>>
    /\ UNCHANGED <<live, disk, analyses, store, inbox, lead, sem, floor, installed>>

\* _resolve_schema_flight: lead, or wait for the leader
Fly(c) ==
    /\ pc[c] = "fly"
    /\ \/ /\ flight[At[c]] = Nobody
          /\ flight' = [flight EXCEPT ![At[c]] = c]
          /\ Goto(c, "read") /\ UNCHANGED lead
       \/ /\ flight[At[c]] # Nobody
          /\ lead' = [lead EXCEPT ![c] = flight[At[c]]]
          /\ Goto(c, "wait") /\ UNCHANGED flight
    /\ UNCHANGED <<live, disk, analyses, context, cached, inbox, schema, rich, sem, floor, installed>>

\* _read_schema: the rich schema, the plain one alone, or nothing
Reads(c) ==
    \E s \in {live, None} : \E r \in {s, None} : Got(c, s, r)

Read(c) ==
    /\ pc[c] = "read"
    /\ Reads(c)
    /\ Goto(c, "land")
    /\ UNCHANGED <<live, disk, analyses, store, inbox, lead, sem, floor, installed>>

Followers(c) == {f \in Callers : pc[f] = "wait" /\ lead[f] = c}

\* Leaves its flight in the map, with its Event set.
LandKeepsFlight(c) == UNCHANGED flight
\* A leader takes its flight out of the map: nobody else joins it.
LeaveFlight(c) == flight' = [flight EXCEPT ![At[c]] = Nobody]

\* Where a caller goes with the schema s that was read for it; with none,
\* DatabaseUnavailableError ends the call.
ResolvedUnchecked(s) == "publish"
Resolved(s) == IF s = None THEN "idle" ELSE "publish"

\* The finally block: the followers find the outcome in the flight.
Land(c) ==
    /\ pc[c] = "land"
    /\ LeaveFlight(c)
    /\ LET woken == Followers(c)
       IN  /\ pc' = [d \in Callers |-> IF d = c THEN Resolved(schema[c])
                                       ELSE IF d \in woken THEN "woken" ELSE pc[d]]
           /\ schema' = [d \in Callers |-> IF d \in woken THEN schema[c] ELSE schema[d]]
           /\ rich' = [d \in Callers |-> IF d \in woken THEN rich[c] ELSE rich[d]]
           /\ lead' = [d \in Callers |-> IF d \in woken THEN Nobody ELSE lead[d]]
           /\ floor' = IF schema[c] = None THEN [floor EXCEPT ![c] = None] ELSE floor
    /\ UNCHANGED <<live, disk, analyses, context, cached, inbox, sem, installed>>

\* Tries its luck with the next flight instead of reading for itself.
UnansweredRejoins == "fly"
\* The leader hung, failed or came back empty: "fetch our own".
Unanswered == "own"

\* A sharer wakes up, or has waited for FLIGHT_WAIT_SECONDS.
Follow(c) ==
    /\ \/ pc[c] = "woken" /\ Goto(c, IF schema[c] = None THEN Unanswered ELSE "publish")
       \/ pc[c] = "wait" /\ Goto(c, Unanswered)
    /\ lead' = [lead EXCEPT ![c] = Nobody]
    /\ UNCHANGED <<live, disk, analyses, store, inbox, schema, rich, sem, floor, installed>>

ReadOwn(c) ==
    /\ pc[c] = "own"
    /\ Reads(c)
    /\ Goto(c, Resolved(schema'[c]))
    /\ floor' = IF schema'[c] = None THEN [floor EXCEPT ![c] = None] ELSE floor
    /\ UNCHANGED <<live, disk, analyses, store, inbox, lead, sem, installed>>

Publish(c) ==
    /\ pc[c] = "publish"
    /\ cached' = [cached EXCEPT ![At[c]] = schema[c]]
    /\ Goto(c, "lookup")
    /\ UNCHANGED <<live, disk, analyses, context, flight, inbox, lead, schema, rich, sem, floor, installed>>

\* Serves a cached schema whatever its age.
ExpireNever(w) == FALSE /\ UNCHANGED vars
\* An entry of the schema cache is SCHEMA_CACHE_TTL_SECONDS old.
Expire(w) ==
    /\ cached[w] # None
    /\ cached' = [cached EXCEPT ![w] = None]
    /\ UNCHANGED <<live, disk, analyses, context, flight, inbox, call, installed>>

----------------------------------------------------------------------------
(* Building the context                                                    *)

\* Keys a context by the schema as it is when the context is stored.
KeyOfLive(c) == Hash[live]
Key(c) == Hash[schema[c]]

\* get_context_ex: a query takes the context of its key
Lookup(c) ==
    /\ pc[c] = "lookup"
    /\ \/ /\ c \notin Analysts /\ context[At[c]][Key(c)] # NoContext
          /\ Over(c)
       \/ /\ c \in Analysts \/ context[At[c]][Key(c)] = NoContext
          /\ Goto(c, "build") /\ UNCHANGED <<lead, schema, rich, sem, floor>>
    /\ UNCHANGED <<live, disk, analyses, store, inbox, installed>>

\* _build_semantic: analyze makes new labels, a query loads what is persisted or
\* maps by rule
Label(c) ==
    /\ pc[c] = "build"
    /\ \/ /\ c \in Analysts /\ analyses < Analyses
          /\ analyses' = analyses + 1
          /\ sem' = [sem EXCEPT ![c] = analyses + 1]
          /\ Goto(c, "open")
       \/ /\ c \notin Analysts
          /\ sem' = [sem EXCEPT ![c] = disk[Key(c)]]
          /\ Goto(c, "meta")
          /\ UNCHANGED analyses
    /\ UNCHANGED <<live, disk, store, inbox, lead, schema, rich, floor, installed>>

\* _persist_semantic: the file is emptied to be written, or cannot be opened,
\* which is logged and no more.
Open(c) ==
    /\ pc[c] = "open"
    /\ \/ disk' = [disk EXCEPT ![Key(c)] = None] /\ Goto(c, "write")
       \/ UNCHANGED disk /\ Goto(c, "meta")
    /\ UNCHANGED <<live, analyses, store, inbox, lead, schema, rich, sem, floor, installed>>

\* The labels reach the file, or a part of them does and the error is logged.
Write(c) ==
    /\ pc[c] = "write"
    /\ \E m \in {sem[c], None} : disk' = [disk EXCEPT ![Key(c)] = m]
    /\ Goto(c, "meta")
    /\ UNCHANGED <<live, analyses, store, inbox, lead, schema, rich, sem, floor, installed>>

\* The rich schema, when the resolution came without one: read again, or done
\* without.
Meta(c) ==
    /\ pc[c] = "meta"
    /\ rich' \in {[rich EXCEPT ![c] = r] :
                    r \in IF rich[c] = None THEN {live, None} ELSE {rich[c]}}
    /\ Goto(c, "install")
    /\ UNCHANGED <<live, disk, analyses, store, inbox, lead, schema, sem, floor, installed>>

\* Tells the others of a rebuild that failed.
BuildFailsLoudly(c) ==
    /\ pc[c] \in {"build", "meta", "install"}
    /\ IF c \in Analysts
       THEN Goto(c, "broadcast") /\ UNCHANGED <<lead, schema, rich, sem, floor>>
       ELSE Over(c)
    /\ UNCHANGED <<live, disk, analyses, store, inbox, installed>>
\* The build raises, before or after the labels were written.
BuildFails(c) ==
    /\ pc[c] \in {"build", "meta", "install"} /\ Over(c)
    /\ UNCHANGED <<live, disk, analyses, store, inbox, installed>>

\* The last write wins.
Install(c) ==
    /\ pc[c] = "install"
    /\ context' = [context EXCEPT ![At[c]][Key(c)] = [rich |-> rich[c], sem |-> sem[c]]]
    /\ IF c \in Analysts
       THEN Goto(c, "broadcast") /\ UNCHANGED <<lead, schema, rich, sem, floor>>
       ELSE Over(c)
    /\ installed' = installed \union {sem[c]}
    /\ UNCHANGED <<live, disk, analyses, cached, flight, inbox>>

\* _publish_invalidation: to all that listen, this worker too, or to nobody
Broadcast(c) ==
    /\ pc[c] = "broadcast"
    /\ \E heard \in {Listening, {}} :
          inbox' = [w \in Workers |-> IF w \in heard THEN inbox[w] \union {sem[c]}
                                      ELSE inbox[w]]
    /\ Over(c)
    /\ UNCHANGED <<live, disk, analyses, store, installed>>

\* _apply_remote_invalidation
Receive(w) ==
    /\ \E m \in inbox[w] : inbox' = [inbox EXCEPT ![w] = @ \ {m}]
    /\ context' = [context EXCEPT ![w] = [h \in Hashes |-> NoContext]]
    /\ cached' = [cached EXCEPT ![w] = None]
    /\ UNCHANGED <<live, disk, analyses, flight, call, installed>>

\* The schema of the target changes.
Ddl ==
    /\ live < Changes
    /\ live' = live + 1
    /\ UNCHANGED <<disk, analyses, store, inbox, call, installed>>

----------------------------------------------------------------------------
Init ==
    /\ live = 1 /\ analyses = 0 /\ installed = {}
    /\ disk = [h \in Hashes |-> None]
    /\ context = [w \in Workers |-> [h \in Hashes |-> NoContext]]
    /\ cached = [w \in Workers |-> None]
    /\ flight = [w \in Workers |-> Nobody]
    /\ inbox = [w \in Workers |-> {}]
    /\ pc = [c \in Callers |-> "idle"]
    /\ lead = [c \in Callers |-> Nobody]
    /\ schema = [c \in Callers |-> None] /\ rich = [c \in Callers |-> None]
    /\ sem = [c \in Callers |-> None] /\ floor = [c \in Callers |-> None]

Steps(c) ==
    \/ Resolve(c) \/ Fly(c) \/ Read(c) \/ Land(c) \/ Follow(c) \/ ReadOwn(c)
    \/ Publish(c) \/ Lookup(c) \/ Label(c) \/ Open(c) \/ Write(c) \/ Meta(c)
    \/ BuildFails(c) \/ Install(c) \/ Broadcast(c)

Next ==
    \/ \E c \in Callers : Begin(c) \/ Steps(c)
    \/ \E w \in Workers : Expire(w) \/ Receive(w)
    \/ Ddl

Spec == Init /\ [][Next]_vars

\* Threads run, the socket timeout ends every read, time passes.  Nobody has
\* to send requests or change a schema.
Fairness ==
    /\ \A c \in Callers : WF_vars(Steps(c))
    /\ \A w \in Workers : WF_vars(Expire(w))

FairSpec == Spec /\ Fairness

----------------------------------------------------------------------------
(* Properties                                                              *)

Places == {"idle", "resolve", "fly", "wait", "woken", "read", "land", "own",
           "publish", "lookup", "build", "open", "write", "meta", "install", "broadcast"}
Schemas == 1..Changes
Contexts == [rich : Schemas \union {None}, sem : 0..Analyses] \union {NoContext}

\* Who has a schema to publish, to look a context up by, or to build from.
HasSchema(c) == pc[c] \in {"publish", "lookup", "build", "open", "write", "meta",
                           "install", "broadcast"}

\* Types; in particular a caller past the resolution holds a schema, so a
\* failed read is never published or built from.
TypeOK ==
    /\ live \in Schemas /\ analyses \in 0..Analyses
    /\ disk \in [Hashes -> 0..Analyses]
    /\ context \in [Workers -> [Hashes -> Contexts]]
    /\ cached \in [Workers -> Schemas \union {None}]
    /\ flight \in [Workers -> Callers \union {Nobody}]
    /\ inbox \in [Workers -> SUBSET (0..Analyses)]
    /\ pc \in [Callers -> Places]
    /\ lead \in [Callers -> Callers \union {Nobody}]
    /\ schema \in [Callers -> Schemas \union {None}]
    /\ rich \in [Callers -> Schemas \union {None}]
    /\ sem \in [Callers -> 0..Analyses]
    /\ floor \in [Callers -> Schemas \union {None}]
    /\ installed \subseteq 0..Analyses
    /\ \A c \in Callers : HasSchema(c) => schema[c] # None

\* What a context knows of types and keys is never older than the schema it is
\* keyed by, although the two are read apart: ContextOfItsSchema can fail in one
\* direction only, with columns of a later schema under an earlier hash.
RichIsNoOlder ==
    /\ \A c \in Callers : HasSchema(c) =>
          schema[c] # None /\ (rich[c] # None => schema[c] <= rich[c])
    /\ \A w \in Workers, h \in Hashes : context[w][h].rich # None =>
          \E n \in Schemas : Hash[n] = h /\ n <= context[w][h].rich

\* Single flight: the flight on the map is that of a caller which is reading,
\* and a sharer waits for a leader that will still wake it.  A flight that
\* outlived its read would answer every later request with an old schema.
FlightsAreUnderWay ==
    /\ \A w \in Workers : flight[w] # Nobody =>
          pc[flight[w]] \in {"read", "land"} /\ At[flight[w]] = w
    /\ \A c \in Callers : pc[c] \in {"read", "land"} => flight[At[c]] = c
    /\ \A c \in Callers : pc[c] = "wait" => flight[At[c]] = lead[c] /\ lead[c] # Nobody

\* "Published after the rebuild succeeds, not before" (context_store.py:673): a
\* broadcast tells of an analysis whose context was installed, whatever builds
\* fail meanwhile; otherwise every worker drops a good context for nothing.
BroadcastAfterInstall ==
    \A w \in Workers : \A m \in inbox[w] : m \in installed

\* "AI labeling survives process restarts" (context_store.py:13): no worker holds
\* labels newer than the disk does.  It does not hold: a write that fails or is
\* cut short is logged, and the context is installed all the same.
LabelsOnDisk ==
    \A w \in Workers, h \in Hashes : context[w][h].sem <= disk[h]

\* An analyze broadcasts only labels another worker can load.  It does not hold
\* either, after the same failure: the others drop a good context and rebuild
\* one by rule.
BroadcastAfterPersist ==
    \A w \in Workers : \A m \in inbox[w] : \E h \in Hashes : disk[h] >= m

\* "Last write wins, which is the desired eventual-consistency behavior"
\* (context_store.py:552): when nobody is under way, no context has older labels
\* than the disk.  It does not hold: a query that loaded the labels before an
\* analyze wrote its own may install after the broadcast is over (and a
\* broadcast may be lost, and a build fail once its labels are written).
Converged ==
    (\A c \in Callers : pc[c] = "idle") /\ (\A w \in Workers : inbox[w] = {}) =>
        \A w \in Workers, h \in Hashes :
            context[w][h] # NoContext => context[w][h].sem >= disk[h]

\* Every request ends, whatever leaders and reads do.
RequestsEnd == \A c \in Callers : pc[c] # "idle" ~> pc[c] = "idle"

\* A schema change is picked up: once the schema rests, no worker keeps
\* resolving to an older one.
PicksUpDdl == <>[](\A w \in Workers : cached[w] \in {live, None})

\* "A rebuild always reads the live schema (a just-applied DDL change must be
\* seen now)": an analyze never builds from a schema older than its call.
RebuildReadsLiveSchema ==
    \A c \in Analysts : pc[c] = "build" => schema[c] >= floor[c]

\* "A cached context is never served for a stale schema": what a context knows
\* of types and keys belongs to the schema it is keyed by.
ContextOfItsSchema ==
    \A w \in Workers, h \in Hashes :
        context[w][h].rich # None => Hash[context[w][h].rich] = h
=============================================================================
