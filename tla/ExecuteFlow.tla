---------------------------- MODULE ExecuteFlow ----------------------------
(***************************************************************************)
(* The confirmed-write flow of backend/main.py: /query holds a plan and    *)
(* mints a single-use token for it (backend/app_db/execution_tokens.py),   *)
(* /execute redeems the token, or takes raw SQL from a caller that may     *)
(* write by hand, and runs the statements on the customer's database       *)
(* (execute_query of dbbuddy_core/query.py) inside a concurrency slot.     *)
(*                                                                         *)
(* Saved connections may be edited at any time; inline credentials are a   *)
(* connection of the caller edited just before.  The slot is the one of    *)
(* ConcurrencyCeiling; SQL is its number of statements that change data.   *)
(* Two tests by keywords class it, and either may take such a statement    *)
(* for a read (SELECT ... INTO, SELECT f()).  Callers retry, workers die,  *)
(* and a statement that fails may have been applied.                       *)
(***************************************************************************)
EXTENDS Integers, FiniteSets

CONSTANTS
    Executes,     \* calls of /execute, retries and other workers' included
    Plans,        \* plans that /query holds for confirmation
    Raw,          \* statements a caller may write by hand
    Length,       \* Length[s]: statements of s that change data
    Reads,        \* what classify_query_safety calls a read
    Selects,      \* what execute_query runs as a read
    By, UserOf,   \* the caller of an execute; the user a plan was made for
    Manual,       \* calls whose session carries query:write:manual
    Connections, Owner,
    Targets,      \* records: database (engine, host, port and name), login, schema
    Nowhere, Nothing,   \* no target and no SQL yet
    Ceiling,      \* ERP_MAX_CONCURRENT_QUERIES
    TTL,          \* TOKEN_TTL_SECONDS, in ticks
    MaxClock      \* bound of the model

Sql == Plans \union Raw

ASSUME ExecuteAssumption ==
    /\ IsFiniteSet(Executes)
    /\ Length \in [Sql -> Nat] /\ Nothing \notin Sql /\ Plans \intersect Raw = {}
    /\ Reads \subseteq Raw /\ Selects \subseteq Sql
    /\ \A s \in Selects : Length[s] <= 1
    /\ Nowhere \notin Targets
    /\ Ceiling \in Nat \ {0} /\ TTL \in Nat \ {0} /\ MaxClock \in Nat

VARIABLES
    clock,
    saved,        \* saved[c]: the target of a saved connection
    reviewed,     \* reviewed[p]: the target the plan was made for
    expires,      \* expires[p]: expires_at of its token, 0 without a token
    spent,        \* the plans whose token has a consumed_at
    pc,           \* pc[e]: where the execute is, or what it answered
    target,       \* target[e]: what _resolve_connection returned
    sql,          \* sql[e]: what _resolve_execute_sql returned
    auto,         \* auto[e]: the connection is in autocommit
    step,         \* step[e]: statements the driver has executed
    applied,      \* applied[e]: statements the customer's database keeps
    audited       \* executes with a row in the audit log

tokens == <<reviewed, expires, spent>>
work == <<auto, step, applied, audited>>
vars == <<clock, saved, tokens, pc, target, sql, work>>

Connected == {"open", "failed", "committed"}
Places == {"idle", "resolved", "authorised", "slot", "closed"} \union Connected
Answers == {"200", "400", "403", "404", "409", "500", "502", "503", "crashed"}

\* What context_hash fingerprints of a target.
Context(t) == [database |-> t.database, login |-> t.login]

Goto(e, place) == pc' = [pc EXCEPT ![e] = place]
At(e, place) == pc[e] = place

----------------------------------------------------------------------------
(* /query: the plan is made on the target resolved first; minting is best  *)
(* effort, a plan may stay without a token.                                *)
Review(p) ==
    /\ reviewed[p] = Nowhere
    /\ \E c \in Connections :
          Owner[c] = UserOf[p] /\ reviewed' = [reviewed EXCEPT ![p] = saved[c]]
    /\ UNCHANGED <<clock, saved, expires, spent, pc, target, sql, work>>

\* _issue_execution_token
Mint(p) ==
    /\ reviewed[p] # Nowhere /\ expires[p] = 0
    /\ expires' = [expires EXCEPT ![p] = clock + TTL]
    /\ UNCHANGED <<clock, saved, reviewed, spent, pc, target, sql, work>>

\* update_connection
Edit(c) ==
    /\ \E t \in Targets : saved' = [saved EXCEPT ![c] = t]
    /\ UNCHANGED <<clock, tokens, pc, target, sql, work>>

----------------------------------------------------------------------------
(* /execute.  _resolve_connection: somebody else's connection is a 404, a  *)
(* password that no longer decrypts a 409.                                 *)
Resolve(e) ==
    /\ At(e, "idle")
    /\ \E c \in Connections :
          \/ /\ Owner[c] = By[e]
             /\ \/ target' = [target EXCEPT ![e] = saved[c]] /\ Goto(e, "resolved")
                \/ Goto(e, "409") /\ UNCHANGED target
          \/ Owner[c] # By[e] /\ Goto(e, "404") /\ UNCHANGED target
    /\ UNCHANGED <<clock, saved, tokens, sql, work>>

\* A forged, unminted or foreign token.
Unknown(e, p) == expires[p] = 0 \/ UserOf[p] # By[e]
\* The token does not care where it is presented.
ElsewhereUnchecked(e, p) == FALSE
Elsewhere(e, p) == Context(reviewed[p]) # Context(target[e])
\* Looks at the expiry only.
FreshUnspent(p) == expires[p] > clock
\* The guard of the UPDATE that sets consumed_at.
Fresh(p) == p \notin spent /\ expires[p] > clock
Valid(e, p) == ~Unknown(e, p) /\ ~Elsewhere(e, p) /\ Fresh(p)

(* redeem, committed before the slot is asked for.  Of the row only        *)
(* consumed_at ever changes, and that is tested by the UPDATE itself, so   *)
(* look-up, checks and UPDATE are one step.                                *)
Redeem(e, p) ==
    /\ At(e, "resolved")
    /\ Valid(e, p)
    /\ spent' = spent \union {p}
    /\ sql' = [sql EXCEPT ![e] = p]
    /\ Goto(e, "authorised")
    /\ UNCHANGED <<clock, saved, reviewed, expires, target, work>>

\* Consumes the token before the target is compared.
RefuseAfterSpending(e, p) ==
    /\ At(e, "resolved")
    /\ ~Valid(e, p)
    /\ Goto(e, IF Unknown(e, p) THEN "400" ELSE "409")
    /\ spent' = IF Unknown(e, p) THEN spent ELSE spent \union {p}
    /\ UNCHANGED <<clock, saved, reviewed, expires, target, sql, work>>

\* Nothing is consumed.
Refuse(e, p) ==
    /\ At(e, "resolved")
    /\ ~Valid(e, p)
    /\ Goto(e, IF Unknown(e, p) THEN "400" ELSE "409")
    /\ UNCHANGED <<clock, saved, tokens, target, sql, work>>

\* Raw SQL: classify_query_safety calls it a read, whatever it does, or the
\* caller may write.
MayRun(e, s) == s \in Reads \/ e \in Manual

RawSql(e, s) ==
    /\ At(e, "resolved")
    /\ \/ MayRun(e, s) /\ sql' = [sql EXCEPT ![e] = s] /\ Goto(e, "authorised")
       \/ ~MayRun(e, s) /\ Goto(e, "403") /\ UNCHANGED sql
    /\ UNCHANGED <<clock, saved, tokens, target, work>>

\* Neither a token nor SQL in the request.
Empty(e) ==
    /\ At(e, "resolved") /\ Goto(e, "400")
    /\ UNCHANGED <<clock, saved, tokens, target, sql, work>>

----------------------------------------------------------------------------
\* Executes that hold a slot of database d, and that have a session there.
Holding(d) == {e \in Executes : pc[e] \in {"slot"} \union Connected /\ target[e].database = d}
Sessions(d) == {e \in Executes : pc[e] \in Connected /\ target[e].database = d}

\* No slot at all, as /execute once was.
AdmitAnyway(e) ==
    /\ At(e, "authorised") /\ Goto(e, "slot")
    /\ UNCHANGED <<clock, saved, tokens, target, sql, work>>

\* query_slot
Admit(e) ==
    /\ At(e, "authorised")
    /\ Cardinality(Holding(target[e].database)) < Ceiling
    /\ Goto(e, "slot")
    /\ UNCHANGED <<clock, saved, tokens, target, sql, work>>

\* ERPBusy: the queries of /query and of dashboards hold slots too.
Busy(e) ==
    /\ At(e, "authorised") /\ Goto(e, "503")
    /\ UNCHANGED <<clock, saved, tokens, target, sql, work>>

\* Autocommit may be refused by the driver.
Connect(e) ==
    /\ At(e, "slot")
    /\ \E a \in BOOLEAN : auto' = [auto EXCEPT ![e] = a]
    /\ Goto(e, "open")
    /\ UNCHANGED <<clock, saved, tokens, target, sql, step, applied, audited>>

ConnectFails(e) ==
    /\ At(e, "slot") /\ Goto(e, "502")
    /\ UNCHANGED <<clock, saved, tokens, target, sql, work>>

Left(e) == step[e] < Length[sql[e]]

\* One turn of the loop over the statements.
Run(e) ==
    /\ At(e, "open") /\ Left(e)
    /\ step' = [step EXCEPT ![e] = @ + 1]
    /\ applied' = [applied EXCEPT ![e] = IF auto[e] THEN step[e] + 1 ELSE @]
    /\ UNCHANGED <<clock, saved, tokens, pc, target, sql, auto, audited>>

\* An error of the driver: in autocommit the statement may have taken effect.
RunFails(e) ==
    /\ At(e, "open") /\ (Left(e) \/ Length[sql[e]] = 0)
    /\ Goto(e, "failed")
    /\ \/ UNCHANGED applied
       \/ auto[e] /\ Left(e) /\ applied' = [applied EXCEPT ![e] = step[e] + 1]
    /\ UNCHANGED <<clock, saved, tokens, target, sql, auto, step, audited>>

\* What the database keeps once a commit is through.  The read path of
\* execute_query commits nothing: without autocommit, what a SELECT changed is
\* lost when the connection closes.
Committed(e) == IF sql[e] \in Selects THEN applied[e] ELSE Length[sql[e]]

\* Leaves it to autocommit, and closing the connection discards the rest.
CommitNever(e) ==
    /\ At(e, "open") /\ ~Left(e)
    /\ Goto(e, "committed")
    /\ UNCHANGED <<clock, saved, tokens, target, sql, work>>

\* After the last statement conn.commit(), or the rows are fetched; what
\* autocommit kept stays kept.
Commit(e) ==
    /\ At(e, "open") /\ ~Left(e)
    /\ Goto(e, "committed")
    /\ applied' = [applied EXCEPT ![e] = Committed(e)]
    /\ UNCHANGED <<clock, saved, tokens, target, sql, auto, step, audited>>

CommitFails(e) ==
    /\ At(e, "open") /\ ~Left(e) /\ Length[sql[e]] > 0
    /\ Goto(e, "failed")
    /\ \E n \in {applied[e], Committed(e)} : applied' = [applied EXCEPT ![e] = n]
    /\ UNCHANGED <<clock, saved, tokens, target, sql, auto, step, audited>>

\* The session is closed before the slot is given back, whatever happened.
Close(e) ==
    /\ \/ At(e, "failed") /\ Goto(e, "500")
       \/ At(e, "committed") /\ Goto(e, "closed")
    /\ UNCHANGED <<clock, saved, tokens, target, sql, work>>

\* _audit_db_action: a failure to write the row is swallowed.
Audit(e) ==
    /\ At(e, "closed") /\ Goto(e, "200")
    /\ audited' = audited \union {e} \/ UNCHANGED audited
    /\ UNCHANGED <<clock, saved, tokens, target, sql, auto, step, applied>>

\* The worker dies: the session ends and what is not committed is undone.
Crash(e) ==
    /\ pc[e] \in Places \ {"idle"} /\ Goto(e, "crashed")
    /\ UNCHANGED <<clock, saved, tokens, target, sql, work>>

Tick ==
    /\ clock < MaxClock /\ clock' = clock + 1
    /\ UNCHANGED <<saved, tokens, pc, target, sql, work>>

Init ==
    /\ clock = 0 /\ saved \in [Connections -> Targets]
    /\ reviewed = [p \in Plans |-> Nowhere] /\ expires = [p \in Plans |-> 0] /\ spent = {}
    /\ pc = [e \in Executes |-> "idle"]
    /\ target = [e \in Executes |-> Nowhere] /\ sql = [e \in Executes |-> Nothing]
    /\ auto = [e \in Executes |-> FALSE] /\ step = [e \in Executes |-> 0]
    /\ applied = [e \in Executes |-> 0] /\ audited = {}

Next ==
    \/ \E p \in Plans : Review(p) \/ Mint(p)
    \/ \E c \in Connections : Edit(c)
    \/ \E e \in Executes, p \in Plans : Redeem(e, p) \/ Refuse(e, p)
    \/ \E e \in Executes, s \in Raw : RawSql(e, s)
    \/ \E e \in Executes :
          \/ Resolve(e) \/ Empty(e) \/ Admit(e) \/ Busy(e) \/ Connect(e) \/ ConnectFails(e)
          \/ Run(e) \/ RunFails(e) \/ Commit(e) \/ CommitFails(e)
          \/ Close(e) \/ Audit(e) \/ Crash(e)
    \/ Tick

Spec == Init /\ [][Next]_vars
----------------------------------------------------------------------------
TypeOK ==
    /\ clock \in 0..MaxClock
    /\ saved \in [Connections -> Targets]
    /\ reviewed \in [Plans -> Targets \union {Nowhere}]
    /\ expires \in [Plans -> Nat]
    /\ spent \subseteq Plans
    /\ pc \in [Executes -> Places \union Answers]
    /\ target \in [Executes -> Targets \union {Nowhere}]
    /\ sql \in [Executes -> Sql \union {Nothing}]
    /\ auto \in [Executes -> BOOLEAN]
    /\ step \in [Executes -> Nat] /\ applied \in [Executes -> Nat]
    /\ audited \subseteq Executes
    /\ \A e \in Executes : sql[e] \in Sql => step[e] <= Length[sql[e]]

(* RunsOnce: no two executes carry the same plan, whatever retries and     *)
(* other workers do with its token.                                        *)
RunsOnce ==
    \A p \in Plans, e, f \in Executes : sql[e] = p /\ sql[f] = p => e = f

(* SpentByRunning: a token is spent exactly when an execute carries its    *)
(* plan; presenting it for another target or another user burns nothing.   *)
SpentByRunning ==
    \A p \in Plans : p \in spent <=> \E e \in Executes : sql[e] = p

(* WritesAreReviewed: what the classifier calls a write and a customer's   *)
(* database keeps was reviewed, by the caller and for the database and     *)
(* login it ran on, or was written by a caller who may, although           *)
(* connections are edited meanwhile.                                       *)
ReviewedThere(e) ==
    /\ sql[e] \in Plans /\ UserOf[sql[e]] = By[e]
    /\ Context(reviewed[sql[e]]) = Context(target[e])
WritesAreReviewed ==
    \A e \in Executes :
        applied[e] > 0 /\ sql[e] \notin Reads => ReviewedThere(e) \/ e \in Manual

(* EffectsAreReviewed: whatever a customer's database keeps was.  It does  *)
(* not hold: "anything ambiguous is treated as a write" (safety.py:38) is  *)
(* about keywords, and a SELECT may change data.                           *)
EffectsAreReviewed ==
    \A e \in Executes : applied[e] > 0 => ReviewedThere(e) \/ e \in Manual

(* AnswersTellTheEffect: a 200 and an audit row of what runs as a write    *)
(* mean that every statement is kept, with and without autocommit; a       *)
(* refusal, a 502 and a 503 mean that none is.  Only a 500 leaves it open. *)
AnswersTellTheEffect ==
    \A e \in Executes :
        /\ (pc[e] = "200" \/ e \in audited) /\ sql[e] \notin Selects =>
              applied[e] = Length[sql[e]]
        /\ pc[e] \in Answers \ {"200", "500", "crashed"} => applied[e] = 0

(* EveryAnswerTells: so does a 200 of what runs as a read.  It does not    *)
(* hold: without autocommit, what a SELECT changed is lost after a 200.    *)
EveryAnswerTells ==
    \A e \in Executes : pc[e] = "200" => applied[e] = Length[sql[e]]

(* SessionsImplementCeiling: the sessions of /execute on a database keep   *)
(* the promise of query_slot, also when a statement fails and when saved   *)
(* connections are edited: they open one at a time and only while the      *)
(* ceiling has room, so there are never more of them than the ceiling.     *)
OnDatabase(d) == INSTANCE ConcurrencyCeiling WITH
    Calls <- Executes, Limit <- Ceiling, holders <- Sessions(d)

SessionsCapped ==
    \A t \in Targets : Cardinality(Sessions(t.database)) <= Ceiling
SessionsImplementCeiling ==
    /\ \A t \in Targets : OnDatabase(t.database)!Init
    /\ [][\A t \in Targets : [OnDatabase(t.database)!Next]_(Sessions(t.database))]_vars

(* RanWhereReviewed: redeem says that redemption resolves to the same      *)
(* target the plan was reviewed against, the schema included.              *)
RanWhereReviewed ==
    \A e \in Executes : sql[e] \in Plans => target[e] = reviewed[sql[e]]
=============================================================================
