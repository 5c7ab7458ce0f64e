---------------------------- MODULE ProviderChain ----------------------------
(***************************************************************************)
(* One prompt through an organisation's AI providers: the records and the  *)
(* order they are resolved in (backend/app_db/routers/ai_providers.py,     *)
(* ai_runtime.py), the retries, the failover and the circuit breaker that  *)
(* every thread of a process shares (dbbuddy_core/ai_providers.py).        *)
(*                                                                         *)
(* A breaker belongs to a display name, not to a record.  Cooldowns are    *)
(* kept by whether they are over, not by their length.                     *)
(***************************************************************************)
EXTENDS Integers, Sequences, FiniteSets

CONSTANTS Calls,        \* threads with a prompt to send
          Editors,      \* administrators with a request under way
          Providers,    \* the records of one organisation
          Names,        \* display names
          NameOf,       \* a record's name
          None,
          Threshold,    \* AI_BREAKER_THRESHOLD
          MaxAttempts,  \* AI_RETRY_MAX_ATTEMPTS
          MaxEdits      \* bound: edits of the records begun

ASSUME ChainAssumption ==
    /\ NameOf \in [Providers -> Names]
    /\ None \notin Providers
    /\ Threshold \in Nat \ {0} /\ MaxAttempts \in Nat \ {0}
    /\ MaxEdits \in Nat

VARIABLES enabled, active, fallback,      \* the records: active is priority 1
          breaker,                        \* a name's breaker
          streak,                         \* history: transient failures in a row
          lost,                           \* history: half-open breakers whose probe
                                          \* an unlisted exception has ended
          pc, chain, next, tried, attempt, probing,
          stage, target, seen, link,      \* a request of an administrator
          begun                           \* edits begun

history == <<streak, lost>>
records == <<enabled, active, fallback>>
local == <<pc, chain, next, tried, attempt, probing>>
edits == <<stage, target, seen, link, begun>>
vars == <<records, breaker, history, local, edits>>

States == {"closed", "open", "half_open"}
Links == Providers \union {None}
Places == {"idle", "resolve", "pick", "send"}
Breakers == [state : States, failures : 0..Threshold - 1, cooled : BOOLEAN]
Closed == [state |-> "closed", failures |-> 0, cooled |-> FALSE]

TypeOK ==
    /\ enabled \in SUBSET Providers /\ active \in SUBSET Providers
    /\ fallback \in [Providers -> Links]
    /\ breaker \in [Names -> Breakers]
    /\ streak \in [Names -> 0..Threshold]
    /\ lost \in SUBSET Names
    /\ pc \in [Calls -> Places]
    /\ chain \in [Calls -> Seq(Providers)]
    /\ next \in [Calls -> Links]
    /\ tried \in [Calls -> Nat]
    /\ attempt \in [Calls -> 0..MaxAttempts]
    /\ probing \in [Calls -> BOOLEAN]
    /\ stage \in [Editors -> {"idle", "activate", "relink"}]
    /\ target \in [Editors -> Links]
    /\ seen \in [Editors -> SUBSET Providers]
    /\ link \in [Editors -> Links]
    /\ begun \in 0..MaxEdits

\* Records from p on along the fallback links.
Onward(p) ==
    LET after[n \in Nat] == IF n = 0 THEN {p}
                            ELSE after[n - 1] \union
                                 ({fallback[x] : x \in after[n - 1]} \ {None})
    IN  after[Cardinality(Providers)]

\* No chain of fallbacks leads back to where it began (routers/ai_providers.py:50).
NoCycle == \A p \in Providers : fallback[p] # None => p \notin Onward(fallback[p])

\* Two edits that were each checked can close a cycle of fallbacks, so the
\* records begin with any links but a record's own.
Init ==
    /\ enabled = Providers
    /\ active \in {{p} : p \in Providers}
    /\ fallback \in [Providers -> Links] /\ \A p \in Providers : fallback[p] # p
    /\ breaker = [n \in Names |-> Closed]
    /\ streak = [n \in Names |-> 0]
    /\ lost = {}
    /\ pc = [c \in Calls |-> "idle"]
    /\ chain = [c \in Calls |-> <<>>]
    /\ next = [c \in Calls |-> None]
    /\ tried = [c \in Calls |-> 0]
    /\ attempt = [c \in Calls |-> 0]
    /\ probing = [c \in Calls |-> FALSE]
    /\ stage = [e \in Editors |-> "idle"]
    /\ target = [e \in Editors |-> None]
    /\ seen = [e \in Editors |-> {}]
    /\ link = [e \in Editors |-> None]
    /\ begun = 0

-----------------------------------------------------------------------------
(* The breaker.                                                            *)
Smaller(a, b) == IF a <= b THEN a ELSE b

\* Open for a cooldown that doubles with each opening, up to a cap.
Tripped(b) == [state |-> "open", failures |-> 0, cooled |-> FALSE]

MayProbe(b) == b.state = "open" /\ b.cooled
Allows(b) == b.state = "closed" \/ MayProbe(b)

\* Mutants of Succeeded and Failed.
SucceededKeeping(b) == [Closed EXCEPT !.failures = b.failures]
FailedProbeOnlyTransient(b, transient) ==
    IF b.state = "half_open" /\ transient THEN Tripped(b)
    ELSE IF ~transient THEN b
    ELSE IF b.failures + 1 >= Threshold THEN Tripped(b)
    ELSE [b EXCEPT !.failures = @ + 1]

Succeeded(b) == Closed

\* A failed probe reopens the breaker; otherwise only a transient failure
\* counts, also one of a request sent before the breaker opened.
Failed(b, transient) ==
    IF b.state = "half_open" THEN Tripped(b)
    ELSE IF ~transient THEN b
    ELSE IF b.failures + 1 >= Threshold THEN Tripped(b)
    ELSE [b EXCEPT !.failures = @ + 1]

-----------------------------------------------------------------------------
(* A call: resolve_active_provider_chain, then generate_with_chain.        *)
Name(c) == NameOf[chain[c][tried[c]]]
Members(s) == {s[i] : i \in 1..Len(s)}

Finish(c) ==
    /\ pc' = [pc EXCEPT ![c] = "idle"]
    /\ chain' = [chain EXCEPT ![c] = <<>>]
    /\ next' = [next EXCEPT ![c] = None]
    /\ tried' = [tried EXCEPT ![c] = 0]
    /\ attempt' = [attempt EXCEPT ![c] = 0]
    /\ probing' = [probing EXCEPT ![c] = FALSE]

\* The next provider of the chain, or the end of it.
Advance(c) ==
    IF tried[c] < Len(chain[c])
    THEN /\ pc' = [pc EXCEPT ![c] = "pick"]
         /\ tried' = [tried EXCEPT ![c] = @ + 1]
         /\ attempt' = [attempt EXCEPT ![c] = 0]
         /\ probing' = [probing EXCEPT ![c] = FALSE]
         /\ UNCHANGED <<chain, next>>
    ELSE Finish(c)

\* The enabled record with priority 1; with several, whichever comes first.
Begin(c) ==
    /\ pc[c] = "idle"
    /\ \E p \in active \intersect enabled :
          /\ chain' = [chain EXCEPT ![c] = <<p>>]
          /\ next' = [next EXCEPT ![c] = fallback[p]]
    /\ pc' = [pc EXCEPT ![c] = "resolve"]
    /\ tried' = [tried EXCEPT ![c] = 1]
    /\ UNCHANGED <<records, breaker, history, attempt, probing, edits>>

\* Mutant of Follows.
FollowsAnything(c) == next[c] # None /\ next[c] \in enabled

Follows(c) == next[c] # None /\ next[c] \notin Members(chain[c]) /\ next[c] \in enabled

\* One query per fallback link: records may change in between.
Follow(c) ==
    /\ pc[c] = "resolve" /\ Follows(c)
    /\ chain' = [chain EXCEPT ![c] = Append(@, next[c])]
    /\ next' = [next EXCEPT ![c] = fallback[next[c]]]
    /\ UNCHANGED <<records, breaker, history, pc, tried, attempt, probing, edits>>
Resolved(c) ==
    /\ pc[c] = "resolve" /\ ~Follows(c)
    /\ pc' = [pc EXCEPT ![c] = "pick"]
    /\ next' = [next EXCEPT ![c] = None]
    /\ UNCHANGED <<records, breaker, history, chain, tried, attempt, probing, edits>>

\* Mutant of Skip: a skipped provider is tried again.
SkipNothing(c) ==
    /\ pc[c] = "pick" /\ ~Allows(breaker[Name(c)])
    /\ UNCHANGED vars

Skip(c) ==
    /\ pc[c] = "pick" /\ ~Allows(breaker[Name(c)])
    /\ Advance(c)
    /\ UNCHANGED <<records, breaker, history, edits>>
Send(c) ==
    /\ pc[c] = "pick" /\ Allows(breaker[Name(c)])
    /\ probing' = [probing EXCEPT ![c] = MayProbe(breaker[Name(c)])]
    /\ breaker' = [breaker EXCEPT ![Name(c)] = IF MayProbe(@) THEN [@ EXCEPT !.state = "half_open"]
                                               ELSE @]
    /\ attempt' = [attempt EXCEPT ![c] = 1]
    /\ pc' = [pc EXCEPT ![c] = "send"]
    /\ UNCHANGED <<records, history, chain, next, tried, edits>>

\* A usable reply.
Reply(c) ==
    /\ pc[c] = "send"
    /\ breaker' = [breaker EXCEPT ![Name(c)] = Succeeded(@)]
    /\ streak' = [streak EXCEPT ![Name(c)] = 0]
    /\ lost' = lost \ {Name(c)}
    /\ Finish(c)
    /\ UNCHANGED <<records, edits>>

\* Timeout, connection error, 429 or 5xx: tried again while attempts last,
\* unless the server asks for a wait longer than the cap.
Retry(c) ==
    /\ pc[c] = "send" /\ attempt[c] < MaxAttempts
    /\ attempt' = [attempt EXCEPT ![c] = @ + 1]
    /\ UNCHANGED <<records, breaker, history, pc, chain, next, tried, probing, edits>>
FailTransient(c) ==
    /\ pc[c] = "send"
    /\ breaker' = [breaker EXCEPT ![Name(c)] = Failed(@, TRUE)]
    /\ streak' = [streak EXCEPT ![Name(c)] = Smaller(@ + 1, Threshold)]
    /\ lost' = lost \ {Name(c)}
    /\ Advance(c)
    /\ UNCHANGED <<records, edits>>

\* A missing key, a 4xx, or a reply that cannot be parsed.
FailHard(c) ==
    /\ pc[c] = "send"
    /\ breaker' = [breaker EXCEPT ![Name(c)] = Failed(@, FALSE)]
    /\ lost' = lost \ {Name(c)}
    /\ Advance(c)
    /\ UNCHANGED <<records, streak, edits>>

\* The reply's content is no text: parsing raises an AttributeError, which
\* leaves the call without a word to the breaker.
Surprise(c) ==
    /\ pc[c] = "send"
    /\ lost' = IF probing[c] /\ breaker[Name(c)].state = "half_open"
               THEN lost \union {Name(c)} ELSE lost
    /\ Finish(c)
    /\ UNCHANGED <<records, breaker, streak, edits>>

\* A breaker's cooldown ends.
Cool(n) ==
    /\ breaker[n].state = "open" /\ ~breaker[n].cooled
    /\ breaker' = [breaker EXCEPT ![n] = [@ EXCEPT !.cooled = TRUE]]
    /\ UNCHANGED <<records, history, local, edits>>

-----------------------------------------------------------------------------
(* The records: a request reads and checks, then commits.                  *)
BeginEdit(e) == stage[e] = "idle" /\ begun < MaxEdits /\ begun' = begun + 1

\* POST /{id}/activate: the rows to demote are those the statement sees.
Demote(e) ==
    /\ BeginEdit(e)
    /\ \E p \in enabled :
          /\ target' = [target EXCEPT ![e] = p]
          /\ seen' = [seen EXCEPT ![e] = active]
    /\ stage' = [stage EXCEPT ![e] = "activate"]
    /\ UNCHANGED <<records, breaker, history, local, link>>

\* A record that was read as active is not written again.
Promote(e) ==
    /\ stage[e] = "activate"
    /\ active' = (active \ (seen[e] \ {target[e]}))
                 \union (IF target[e] \in seen[e] THEN {} ELSE {target[e]})
    /\ stage' = [stage EXCEPT ![e] = "idle"]
    /\ target' = [target EXCEPT ![e] = None]
    /\ seen' = [seen EXCEPT ![e] = {}]
    /\ UNCHANGED <<enabled, fallback, breaker, history, local, link, begun>>

\* PATCH /{id}: a fallback may not be the record itself nor lead back to it.
Validate(e) ==
    /\ BeginEdit(e)
    /\ \E p \in Providers, f \in Links :
          /\ f # None => p \notin Onward(f)
          /\ target' = [target EXCEPT ![e] = p]
          /\ link' = [link EXCEPT ![e] = f]
    /\ stage' = [stage EXCEPT ![e] = "relink"]
    /\ UNCHANGED <<records, breaker, history, local, seen>>
Relink(e) ==
    /\ stage[e] = "relink"
    /\ fallback' = [fallback EXCEPT ![target[e]] = link[e]]
    /\ stage' = [stage EXCEPT ![e] = "idle"]
    /\ target' = [target EXCEPT ![e] = None]
    /\ link' = [link EXCEPT ![e] = None]
    /\ UNCHANGED <<enabled, active, breaker, history, local, seen, begun>>

\* PATCH with "enabled"; an active record may be disabled.
Toggle(e) ==
    /\ BeginEdit(e)
    /\ \E p \in Providers :
          enabled' = IF p \in enabled THEN enabled \ {p} ELSE enabled \union {p}
    /\ UNCHANGED <<active, fallback, breaker, history, local, stage, target, seen, link>>

-----------------------------------------------------------------------------
Call(c) ==
    \/ Follow(c) \/ Resolved(c) \/ Skip(c) \/ Send(c)
    \/ Reply(c) \/ Retry(c) \/ FailTransient(c) \/ FailHard(c) \/ Surprise(c)
Edit(e) == Demote(e) \/ Promote(e) \/ Validate(e) \/ Relink(e) \/ Toggle(e)
Next ==
    \/ \E c \in Calls : Begin(c) \/ Call(c)
    \/ \E e \in Editors : Edit(e)
    \/ \E n \in Names : Cool(n)

\* Requests have timeouts and threads run on; nobody has to ask or to edit.
Fairness == \A c \in Calls : WF_vars(Call(c))
Spec == Init /\ [][Next]_vars /\ Fairness

-----------------------------------------------------------------------------
\* A breaker leaves its closed state only after as many transient failures in
\* a row as the threshold says: bad keys and bad answers never add up to one,
\* and a success between failures starts the count again
\* (ai_providers.py:445, 487).
OpensOnAStreak ==
    \A n \in Names : /\ breaker[n].state # "closed" => streak[n] = Threshold
                     /\ breaker[n].failures <= streak[n]

\* A half-open breaker waits for a probe that is still under way, or lost it to
\* an exception no handler lists: no late answer, skip or listed failure leaves
\* it waiting for nobody (ai_providers.py:447, 480).
HalfOpenIsProbed ==
    \A n \in Names : breaker[n].state = "half_open" =>
        \/ n \in lost
        \/ \E c \in Calls : pc[c] = "send" /\ probing[c] /\ Name(c) = n

\* Half-open means that a probe is under way.  It does not hold: after an
\* unlisted exception nothing is recorded, no call is let through, and without
\* a late answer the provider is skipped until the process restarts.
HalfOpenHasItsProbe ==
    \A n \in Names : breaker[n].state = "half_open" =>
        \E c \in Calls : pc[c] = "send" /\ probing[c] /\ Name(c) = n

\* A chain names a provider once, although two edits of fallbacks that were
\* each checked may have closed a cycle (ai_runtime.py:66).
ChainsDontRepeat ==
    \A c \in Calls : \A i, j \in 1..Len(chain[c]) : chain[c][i] = chain[c][j] => i = j

\* Every call comes back, with a value, with the chain exhausted or by an
\* exception no handler lists, whatever is edited meanwhile: no cycle of
\* fallbacks and no breaker keeps it (ai_providers.py:550).
CallsEnd == \A c \in Calls : pc[c] # "idle" ~> pc[c] = "idle"

\* A call never raises for a provider's failure (ai_providers.py:562).  It does
\* not hold: an exception that is not listed goes to the caller, and the rest
\* of the chain is not tried.
NeverRaises == [][\A c \in Calls : ~Surprise(c)]_vars

\* One record per organisation is the active default (ai_providers.py:4).  It
\* does not hold: activations of two other records that overlap leave two.
OneActive == Cardinality(active) = 1
=============================================================================
