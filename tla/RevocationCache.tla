--------------------------- MODULE RevocationCache ---------------------------
(***************************************************************************)
(* Access-token revocation: the per-worker account cache of                *)
(* backend/app_db/deps.py, and the handlers that revoke.                   *)
(*                                                                         *)
(* A request looks its user's account state up in the cache of its worker, *)
(* or reads the app database behind a single-flight Event, and publishes   *)
(* what it read unless the user's generation moved meanwhile.  A handler   *)
(* bumps token_version, drops the local entry and broadcasts the user id;  *)
(* every listening worker drops its own.  The account state (token_version *)
(* and is_active) is abstracted to its version: every revocation makes a   *)
(* new one.  LRU order is abstracted: an eviction removes any other entry. *)
(***************************************************************************)
EXTENDS Integers, FiniteSets, Sequences

CONSTANTS
    Workers, Users,
    Requests,       \* calls of _account_state
    At, Of,         \* At[q], Of[q]: the worker of request q and its user
    Revokers,       \* handlers that revoke a user's sessions
    By, Target,     \* By[r], Target[r]: the worker of handler r and its user
    Kind,           \* Kind[r] is "session" or "deactivate"
    Overlap,        \* TRUE when handlers of one user may overlap
    Listening,      \* workers whose revocation listener is subscribed
    CacheMax,       \* REVOCATION_CACHE_MAX
    TTL,            \* REVOCATION_CACHE_TTL
    MaxRead,        \* longest time from a database read to its publication
    MaxClock        \* bound on the clock (of the model, not of the code)

ASSUME RevocationAssumption ==
    /\ At \in [Requests -> Workers] /\ Of \in [Requests -> Users]
    /\ By \in [Revokers -> Workers] /\ Target \in [Revokers -> Users]
    /\ Kind \in [Revokers -> {"session", "deactivate"}]
    /\ Overlap \in BOOLEAN
    /\ Listening \subseteq Workers
    /\ IsFiniteSet(Users)
    /\ CacheMax \in Nat \ {0} /\ TTL \in Nat /\ MaxRead \in Nat /\ MaxClock \in Nat

NoEntry == [exp |-> 0, ver |-> -1]
Entries == [exp : Nat, ver : Nat] \union {NoEntry}

VARIABLES
    clock,
    version,    \* version[u]: the account state committed in the app database
    bumpedAt,   \* bumpedAt[u][v]: when version v was committed (history)
    sessions,   \* sessions[u]: versions the tokens handed out so far carry
    cache,      \* cache[w][u]: the entry of _rev_cache, or NoEntry
    gen,        \* gen[w][u]: _rev_gen, 0 when it has no key
    flight,     \* flight[w]: users with an Event in _rev_flights
    inbox,      \* inbox[w]: user ids on the wire to the listener of w
    cut,        \* cut[w][u]: version of the last revocation to take effect
                \* in w (history)
    pc, captured, answer, readAt,   \* the requests
    leads,      \* the requests that opened a flight
    floor,      \* cut of its worker and user when the request began (history)
    rpc, loaded                            \* the handlers

account == <<version, bumpedAt, sessions>>
local == <<cache, gen, flight>>
request == <<pc, leads, captured, answer, readAt, floor>>
handler == <<rpc, loaded>>
vars == <<clock, account, local, inbox, cut, request, handler>>

Live(w, u) == cache[w][u] # NoEntry /\ cache[w][u].exp > clock

----------------------------------------------------------------------------
(* _account_state, one action per critical section                         *)

\* Locals of _account_state that are not read again
Forget(q) ==
    /\ captured' = [captured EXCEPT ![q] = 0]
    /\ leads' = leads \ {q}
    /\ readAt' = [readAt EXCEPT ![q] = 0]

Hit(q) ==
    /\ Live(At[q], Of[q])
    /\ answer' = [answer EXCEPT ![q] = cache[At[q]][Of[q]].ver]
    /\ pc' = [pc EXCEPT ![q] = "answered"]
    /\ Forget(q)
    /\ UNCHANGED flight

\* A miss captures the generation the read will be checked against.
Miss(q) ==
    /\ ~Live(At[q], Of[q])
    /\ captured' = [captured EXCEPT ![q] = gen[At[q]][Of[q]]]
    /\ UNCHANGED <<answer, readAt>>

\* The first critical section: a hit, or leader or follower of a flight.
Begin(q) ==
    /\ pc[q] = "idle"
    /\ floor' = [floor EXCEPT ![q] = cut[At[q]][Of[q]]]
    /\ \/ Hit(q)
       \/ /\ Miss(q) /\ Of[q] \in flight[At[q]]
          /\ pc' = [pc EXCEPT ![q] = "wait"]
          /\ UNCHANGED <<leads, flight>>
       \/ /\ Miss(q) /\ Of[q] \notin flight[At[q]]
          /\ pc' = [pc EXCEPT ![q] = "read"]
          /\ leads' = leads \union {q}
          /\ flight' = [flight EXCEPT ![At[q]] = @ \union {Of[q]}]
    /\ UNCHANGED <<clock, account, cache, gen, inbox, cut, handler>>

\* The Event is set or the wait times out (at any moment, as far as the model
\* goes); then the second critical section.
Follow(q) ==
    /\ pc[q] = "wait"
    /\ \/ Hit(q)
       \/ /\ Miss(q)
          /\ pc' = [pc EXCEPT ![q] = "read"]
          /\ UNCHANGED <<leads, flight>>
    /\ UNCHANGED <<clock, account, cache, gen, inbox, cut, floor, handler>>

\* _read_account_state
Read(q) ==
    /\ pc[q] = "read"
    /\ answer' = [answer EXCEPT ![q] = version[Of[q]]]
    /\ readAt' = [readAt EXCEPT ![q] = clock]
    /\ pc' = [pc EXCEPT ![q] = IF q \in leads THEN "land" ELSE "publish"]
    /\ UNCHANGED <<clock, account, local, inbox, cut, leads, captured, floor, handler>>

\* A leader that does not clean up after itself.
LandForgets(q, outcome) ==
    /\ pc' = [pc EXCEPT ![q] = outcome]
    /\ UNCHANGED <<clock, account, cache, flight, gen, inbox, cut, answer, floor, handler>>

\* The finally block of a leader, after its read or in place of a failed one
Land(q, outcome) ==
    /\ flight' = IF q \in leads THEN [flight EXCEPT ![At[q]] = @ \ {Of[q]}] ELSE flight
    /\ pc' = [pc EXCEPT ![q] = outcome]
    /\ UNCHANGED <<clock, account, cache, gen, inbox, cut, answer, floor, handler>>

Landed(q) ==
    /\ pc[q] = "land" /\ Land(q, "publish")
    /\ UNCHANGED <<leads, captured, readAt>>

ReadFails(q) == pc[q] = "read" /\ Land(q, "failed") /\ Forget(q)

Size(entries) == Cardinality({u \in Users : entries[u] # NoEntry})

\* _evict_locked: nothing below the cap; else expired entries first, and then,
\* still above it, one that is not the entry just written.
Evicted(full, u) ==
    LET unexpired == [v \in Users |-> IF full[v].exp > clock THEN full[v] ELSE NoEntry]
    IN  IF Size(full) <= CacheMax THEN {full}
        ELSE IF Size(unexpired) <= CacheMax THEN {unexpired}
        ELSE {[unexpired EXCEPT ![v] = NoEntry] :
                  v \in {x \in Users \ {u} : unexpired[x] # NoEntry}}

\* The generations _evict_locked keeps: of users cached or in flight
Swept(w, full, kept) ==
    IF Size(full) <= CacheMax THEN gen[w]
    ELSE [v \in Users |-> IF kept[v] # NoEntry \/ v \in flight[w] THEN gen[w][v] ELSE 0]

\* Publishes without looking at the generation.
PublishesAnyway(q) == TRUE
\* The last critical section publishes only if no invalidation came by.
MayPublish(q) == gen[At[q]][Of[q]] = captured[q]

\* Extends what is left of the entry's life instead of starting a new one.
EntryExtended(q) ==
    LET old == cache[At[q]][Of[q]].exp
    IN  [exp |-> (IF old > clock THEN old ELSE clock) + TTL, ver |-> answer[q]]
Entry(q) == [exp |-> clock + TTL, ver |-> answer[q]]

Publish(q) ==
    LET full == [cache[At[q]] EXCEPT ![Of[q]] = Entry(q)]
    IN  /\ pc[q] = "publish"
        /\ pc' = [pc EXCEPT ![q] = "answered"]
        /\ \/ /\ MayPublish(q)
              /\ \E kept \in Evicted(full, Of[q]) :
                    /\ cache' = [cache EXCEPT ![At[q]] = kept]
                    /\ gen' = [gen EXCEPT ![At[q]] = Swept(At[q], full, kept)]
           \/ ~MayPublish(q) /\ UNCHANGED <<cache, gen>>
        /\ Forget(q)
        /\ UNCHANGED <<clock, account, flight, inbox, cut, answer, floor, handler>>

----------------------------------------------------------------------------
(* Revoking: logout, mfa_disable and the password reset commit and then    *)
(* invalidate ("session"); update_user invalidates and then commits        *)
(* ("deactivate").                                                         *)

\* Drops the entry and forgets to move the generation.
DroppedOnly(w, u) ==
    /\ cache' = [cache EXCEPT ![w][u] = NoEntry]
    /\ UNCHANGED <<gen, flight>>
\* What invalidate_revocation and _apply_remote_invalidation do under the lock
Dropped(w, u) ==
    /\ cache' = [cache EXCEPT ![w][u] = NoEntry]
    /\ gen' = [gen EXCEPT ![w][u] = @ + 1]
    /\ UNCHANGED flight

Advance(r, from, to) == rpc[r] = from /\ rpc' = [rpc EXCEPT ![r] = to]

\* The row of the user is loaded, its new version not committed.
Pending(r) ==
    \/ Kind[r] = "session" /\ rpc[r] = "loaded"
    \/ Kind[r] = "deactivate" /\ rpc[r] \in {"loaded", "dropped", "told"}

\* The handler loads the user's row.
Load(r) ==
    /\ Overlap \/ \A s \in Revokers : Target[s] = Target[r] => ~Pending(s)
    /\ Advance(r, "idle", "loaded")
    /\ loaded' = [loaded EXCEPT ![r] = version[Target[r]]]
    /\ UNCHANGED <<clock, account, local, inbox, cut, request>>

\* token_version += 1 on the loaded row, and commit.  A concurrent handler
\* may have committed the same number: version then does not move.
Commit(r) ==
    LET u == Target[r]
    IN  /\ version' = [version EXCEPT ![u] = loaded[r] + 1]
        /\ bumpedAt' = [bumpedAt EXCEPT ![u] =
                           IF loaded[r] + 1 > Len(@) THEN Append(@, clock) ELSE @]
        /\ \/ /\ Kind[r] = "session" /\ Advance(r, "loaded", "committed")
              /\ UNCHANGED cut
           \/ /\ Kind[r] = "deactivate" /\ Advance(r, "told", "done")
              /\ cut' = [cut EXCEPT ![By[r]][u] = loaded[r] + 1]
        /\ UNCHANGED <<clock, sessions, local, inbox, request, loaded>>

\* invalidate_revocation, the local half
Invalidate(r) ==
    LET u == Target[r]
    IN  /\ Advance(r, IF Kind[r] = "session" THEN "committed" ELSE "loaded", "dropped")
        /\ Dropped(By[r], u)
        /\ cut' = [cut EXCEPT ![By[r]][u] = version[u]]
        /\ UNCHANGED <<clock, account, inbox, request, loaded>>

\* _publish_invalidation: fire and forget.  Redis may be down, and a
\* subscriber that is reconnecting misses the message.
Broadcast(r) ==
    /\ Advance(r, "dropped", IF Kind[r] = "session" THEN "done" ELSE "told")
    /\ \E reached \in SUBSET Listening :
          inbox' = [w \in Workers |-> IF w \in reached THEN Append(inbox[w], Target[r])
                                                       ELSE inbox[w]]
    /\ UNCHANGED <<clock, account, local, cut, request, loaded>>

\* _apply_remote_invalidation, in the listener thread of w
Receive(w) ==
    LET u == Head(inbox[w])
    IN  /\ inbox[w] # <<>>
        /\ inbox' = [inbox EXCEPT ![w] = Tail(@)]
        /\ Dropped(w, u)
        /\ cut' = [cut EXCEPT ![w][u] = version[u]]
        /\ UNCHANGED <<clock, account, request, handler>>

\* A login or a refresh hands out a token with the committed version.
SignIn(u) ==
    /\ version[u] \notin sessions[u]
    /\ sessions' = [sessions EXCEPT ![u] = @ \union {version[u]}]
    /\ UNCHANGED <<clock, version, bumpedAt, local, inbox, cut, request, handler>>

\* A request publishes within MaxRead of its database read.
Tick ==
    /\ clock < MaxClock
    /\ \A q \in Requests : pc[q] \in {"land", "publish"} => clock < readAt[q] + MaxRead
    /\ clock' = clock + 1
    /\ UNCHANGED <<account, local, inbox, cut, request, handler>>

----------------------------------------------------------------------------
Init ==
    /\ clock = 0
    /\ version = [u \in Users |-> 0]
    /\ bumpedAt = [u \in Users |-> <<>>]
    /\ sessions = [u \in Users |-> {0}]
    /\ cache = [w \in Workers |-> [u \in Users |-> NoEntry]]
    /\ gen = [w \in Workers |-> [u \in Users |-> 0]]
    /\ flight = [w \in Workers |-> {}]
    /\ inbox = [w \in Workers |-> <<>>]
    /\ cut = [w \in Workers |-> [u \in Users |-> 0]]
    /\ pc = [q \in Requests |-> "idle"]
    /\ leads = {}
    /\ captured = [q \in Requests |-> 0]
    /\ answer = [q \in Requests |-> 0]
    /\ readAt = [q \in Requests |-> 0]
    /\ floor = [q \in Requests |-> 0]
    /\ rpc = [r \in Revokers |-> "idle"]
    /\ loaded = [r \in Revokers |-> 0]

RequestStep(q) ==
    \/ Begin(q) \/ Follow(q) \/ Read(q) \/ Landed(q) \/ ReadFails(q) \/ Publish(q)

HandlerStep(r) == Load(r) \/ Commit(r) \/ Invalidate(r) \/ Broadcast(r)

Next ==
    \/ \E q \in Requests : RequestStep(q)
    \/ \E r \in Revokers : HandlerStep(r)
    \/ \E w \in Workers : Receive(w)
    \/ \E u \in Users : SignIn(u)
    \/ Tick

Spec == Init /\ [][Next]_vars

----------------------------------------------------------------------------
(* Properties                                                              *)

RequestPlaces == {"idle", "wait", "read", "land", "publish", "answered", "failed"}
HandlerPlaces == {"idle", "loaded", "committed", "dropped", "told", "done"}

TypeOK ==
    /\ clock \in Nat
    /\ version \in [Users -> Nat]
    /\ bumpedAt \in [Users -> Seq(Nat)]
    /\ sessions \in [Users -> SUBSET Nat]
    /\ cache \in [Workers -> [Users -> Entries]]
    /\ gen \in [Workers -> [Users -> Nat]]
    /\ flight \in [Workers -> SUBSET Users]
    /\ inbox \in [Workers -> Seq(Users)]
    /\ cut \in [Workers -> [Users -> Nat]]
    /\ pc \in [Requests -> RequestPlaces]
    /\ leads \subseteq Requests
    /\ captured \in [Requests -> Nat] /\ answer \in [Requests -> Nat]
    /\ readAt \in [Requests -> Nat] /\ floor \in [Requests -> Nat]
    /\ rpc \in [Revokers -> HandlerPlaces]
    /\ loaded \in [Revokers -> Nat]

\* "No stale resurrection": once a revocation has taken effect in a worker, no
\* older account state is ever in that worker's cache again.
NoStaleResurrection ==
    \A w \in Workers, u \in Users :
        cache[w][u] # NoEntry => cache[w][u].ver >= cut[w][u]

\* A request that begins after a revocation took effect in its worker is not
\* answered with an older account state, from the cache or from a leader.
RevokedStaysRevoked ==
    \A q \in Requests : pc[q] = "answered" => answer[q] >= floor[q]

\* What handlers of one user that do not overlap keep: the row one of them has
\* loaded is the committed one, every version is committed once, and no token
\* carries a version that is not committed yet.
VersionsInOrder ==
    /\ TypeOK
    /\ \A u \in Users : /\ \A s \in sessions[u] : s <= version[u]
                        /\ Len(bumpedAt[u]) = version[u]
                        /\ \A n \in 1..version[u] : bumpedAt[u][n] <= clock
    /\ \A r \in Revokers : Pending(r) =>
          /\ loaded[r] = version[Target[r]]
          /\ \A s \in Revokers : Pending(s) /\ Target[s] = Target[r] => s = r

\* Why both hold when nothing is swept, handlers of one user do not overlap and
\* each commits before it invalidates: versions only grow, and a reader whose
\* generation still matches has read after the last revocation of its worker.
FreshReader(q) ==
    /\ captured[q] <= gen[At[q]][Of[q]]
    /\ floor[q] <= cut[At[q]][Of[q]]
    /\ pc[q] \in {"land", "publish", "answered"} => answer[q] >= floor[q]
    /\ pc[q] \in {"land", "publish"} /\ MayPublish(q) => answer[q] >= cut[At[q]][Of[q]]

RevocationInv ==
    /\ VersionsInOrder
    /\ \A w \in Workers, u \in Users : cut[w][u] <= version[u]
    /\ \A q \in Requests : FreshReader(q)
    /\ NoStaleResurrection

\* "Bounded by the TTL elsewhere": with no broadcast at all an outdated entry
\* dies within the TTL plus the time a read may have been under way.
StaleBound ==
    \A w \in Workers, u \in Users :
        LET e == cache[w][u]
        IN  e # NoEntry /\ e.ver < Len(bumpedAt[u])
              => e.exp <= bumpedAt[u][e.ver + 1] + MaxRead + TTL

\* Why: what a request has read was committed when it read it, and is published
\* within MaxRead; no entry outlives the TTL from now.
ReadInTime(q) ==
    pc[q] \in {"land", "publish"} =>
        /\ readAt[q] <= clock /\ clock <= readAt[q] + MaxRead
        /\ answer[q] <= version[Of[q]]
        /\ answer[q] < version[Of[q]] => readAt[q] <= bumpedAt[Of[q]][answer[q] + 1]

EntryInTime(w, u) ==
    LET e == cache[w][u]
    IN  e # NoEntry =>
            /\ e.exp <= clock + TTL /\ e.ver <= version[u]
            /\ e.ver < version[u] => e.exp <= bumpedAt[u][e.ver + 1] + MaxRead + TTL

AgesBounded ==
    /\ VersionsInOrder
    /\ \A q \in Requests : ReadInTime(q)
    /\ \A w \in Workers, u \in Users : EntryInTime(w, u)

\* Single flight: however reads fail and time out, one leader per user and
\* worker at a time, and its Event is there for the others to find.
Leads(q) == q \in leads /\ pc[q] \in {"read", "land"}
OneLeader ==
    \A w \in Workers, u \in Users :
        Cardinality({q \in Requests : At[q] = w /\ Of[q] = u /\ Leads(q)})
            = IF u \in flight[w] THEN 1 ELSE 0

\* Why: a request opens a flight only where there is none and closes its own.
FlightsHaveLeaders ==
    /\ TypeOK
    /\ \A q \in leads : pc[q] \in {"read", "land", "publish"}
    /\ \A q \in Requests : Leads(q) => Of[q] \in flight[At[q]]
    /\ \A p, q \in Requests :
          Leads(p) /\ Leads(q) /\ At[p] = At[q] /\ Of[p] = Of[q] => p = q
    /\ \A w \in Workers : \A u \in flight[w] :
          \E q \in Requests : At[q] = w /\ Of[q] = u /\ Leads(q)

\* "Ends every outstanding session": no token handed out before a revocation
\* commits carries the version it commits (routers/auth.py:571).  It does not
\* hold: of two handlers that load one version both commit the same number, and
\* a session opened between the commits survives the second.
EndsEverySession ==
    [][\A r \in Revokers :
          Commit(r) => version'[Target[r]] \notin sessions[Target[r]]]_vars
=============================================================================
