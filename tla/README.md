# DB Buddy: TLA+ models, checks and proofs

DB Buddy answers questions about a customer's database. A question becomes an
intent, a plan and SQL; reads run at once, writes are held for review and run
when the user confirms. The server is a FastAPI application started as several
worker processes, with its own relational database, an optional Redis server,
and the customers' databases as targets. Nothing coordinates the workers but
those databases, Redis, and files on a shared disk.

The models are about what that arrangement makes hard: caches of several
workers, leases and fallbacks around Redis, single-use tokens, and the order of
steps that nobody wrote down as a protocol. Paths below are relative to the
root of the repository.

## 1. Inventory

For each part: the state it keeps, what it does, what it meets, and what makes
it correct. The last column says where it is modelled.

| Part | State | Operations | Correct when | Model |
|---|---|---|---|---|
| Concurrency ceiling, `dbbuddy_core/erp_concurrency.py` | sorted set of leases per target in Redis; one semaphore per target and worker | `query_slot`: admit, refuse, back out, fall back, release | queries on a target stay under the limit; no permit leaks; every caller is answered | `ErpSlots` |
| Access-token revocation, `backend/app_db/deps.py` | account cache, generations and flights per worker; `token_version` in the app database | look up, read behind a flight, publish, invalidate, broadcast | a revoked session stays revoked | `RevocationCache` |
| Redis client, `dbbuddy_core/cache.py` | `connected`, run of errors, cooldown | get, set, delete behind an availability gate | an outage is cheap and ends | `CacheGate` |
| Prepared contexts, `dbbuddy_core/context_store.py` | contexts by schema hash, short-lived schema cache, flights per worker; labels on disk | resolve, build, analyze, broadcast | columns never older than the hash; flights and requests end; a broadcast tells of an installed analysis | `ContextStore` |
| Confirmed writes, `backend/main.py`, `backend/app_db/execution_tokens.py`, `dbbuddy_core/query.py` | tokens and audit rows in the app database; a session on the target | hold a plan, mint, redeem, run, commit | a plan runs once, on the database and login it was reviewed for, and the answer to a write says what was kept | `ExecuteFlow` |
| Query orchestration, `dbbuddy_core/orchestrator.py`, `execution.py`, `safety.py` | response cache in Redis | admit, cached statement, hint, plan, store, run, teach | nothing runs unasked that must be asked; a statement belongs to its schema | `QueryPipeline` |
| Intent builder, `dbbuddy_core/intent_builder.py` | none | question to intent, or a refusal | word lists and scores | a choice in `QueryPipeline`, an input of `JoinPlan` |
| Planner, `dbbuddy_core/query_planner.py`, `planner_utils.py` | none | intent to plan, in passes over one plan | every table is joined once, in order, on a shortest way | `JoinPlan` |
| Join and relation graphs, `dbbuddy_core/relationship_graph.py`, `backend/app_db/relations_service.py` | snapshot per connection | build the graph, refresh the snapshot | paths connect | `JoinPlan` for the graph, snapshots not |
| SQL compiler, `dbbuddy_core/sql/` | none | plan to SQL | no table is named that is not joined | `JoinPlan` for that check, text not |
| Dialects and drivers, `dbbuddy_core/dialects/`, `db.py`, `schema.py` | none | connect, introspect | I/O | inside the callers |
| AI providers, `dbbuddy_core/ai_providers.py`, `backend/app_db/ai_runtime.py`, `routers/ai_providers.py` | circuit breaker per name and worker; records per organisation | resolve a chain, retry, fail over; activate, relink | a breaker opens on a streak and is probed; chains end | `ProviderChain` |
| Labelling and vectors, `semantic_*.py`, `vector_store.py`, `type_handlers.py` | index per context | embed, rank | numerical ranking | no |
| Learning, `dbbuddy_core/learning_engine.py`, `semantic_enhancer.py` | one JSON file for all databases | learn, look up | a mapping is earned by its own database; scopes do not erase each other | `QueryPipeline` |
| Request limits, `backend/app_db/login_guard.py`, `rate_limit.py`, `dbbuddy_core/rate_limiter.py` | sliding windows in Redis, and per worker | check, record, reset | no more than the budget in a window; outages neither lock nor open | no |
| Authentication, `backend/app_db/routers/auth.py`, `keys.py`, `security.py`, `cookies.py` | users, link tokens, API keys | sign in, MFA, refresh, reset, verify, log out | links work once; a revocation reaches every path | `RevocationCache` for revocation |
| Organisations and roles, `routers/admin.py`, `orgs.py` | users, memberships | CRUD behind permissions | tenants never see each other | `RevocationCache` for deactivation |
| Charts, dashboards, reports, `routers/charts.py`, `dashboards.py`, `reports.py`, `chart_runtime.py` | versions, positions, cached results | publish, pin, reorder, refresh in parallel | viewers see published versions; refreshes stay fresh | no |
| Scheduled jobs, `backend/app_db/jobs.py`, `routers/jobs.py` | job rows; a scheduler per worker | fire, claim, run, edit, delete | a fire is not claimed twice without a cause; a stamp has a run behind it | `JobScheduler` |
| Insights, `dbbuddy_core/insights/`, `routers/insights.py` | cached analyses | collect evidence, generate, validate | every published claim is backed by evidence | its provider calls in `ProviderChain` |
| Audit, `backend/app_db/audit_integrity.py`, `routers/audit.py` | signed, numbered rows | sign, verify, find gaps | a missing row is never hidden | no |
| Secrets and address checks, `secrets_store.py`, `net_guard.py`, `safe_http.py` | keys | encrypt, resolve | library calls | no |
| Command line client, `dbbuddy/` | a credentials file | log in, refresh, ask | a crash loses no session | no |
| Frontend, migrations, scripts, containers | | | rendering, or run once by an operator | no |

### How the parts meet

* `/query` and `/execute` share the target's slots with chart refreshes and
  jobs: one `query_slot` for all of them, over all workers.
* Every part that uses Redis goes through one `Cache` object per worker, whose
  gate decides whether commands are sent at all. Each consumer has a path for
  "no cache": the semaphore, the local window, the live value.
* `/query` and `/execute` meet only in the token row. Between them the saved
  connection may be edited, by another request on another worker.
* Logout, password reset, MFA changes and deactivation meet the request path
  in `_account_state`, through the generation of the user and a broadcast.
* Analyze meets queries in the context map, the schema cache and the labels on
  disk, and meets other workers through a broadcast.

### What is hard here

Interleavings of workers that share Redis or the app database; reads before a
lock and publication after it; a Redis that fails between two commands of one
operation, or applies a command and loses the reply; workers that die holding a
lease or a token; clocks that differ; broadcasts that come late; statements that
fail after others of the same write were kept; a file rewritten in place by
several writers; schedules that fire in every worker. `PROJECT.json` lists the
hazards at their lines. Smaller ones, or ones of parts without a module:

* a client constructed while Redis is away stays disconnected (`cache.py:120`);
* a 503 burns the execution token the retry would need (`main.py:585`);
* `delete_user` leaves the account cached (`routers/admin.py:243`);
* a query puts a closed pool back after an analyze (`context_store.py:549`);
* the final scoring overwrites the confidence cut of a dropped filter
  (`query_planner.py:1893`);
* with a full term the new mapping is the one pruned, and the log line after it
  raises (`learning_engine.py:267`);
* a response chosen by one database's mapping is served to another of equal
  schema (`orchestrator.py:674`);
* a late success closes a breaker before its cooldown ends
  (`ai_providers.py:483`); two overlapping activations leave two active
  providers (`routers/ai_providers.py:208`);
* an edited job is rescheduled in one worker only (`routers/jobs.py:92`);
* a sign-in is counted after the password check (`routers/auth.py:203`); a slow
  refresh caches an older result over a newer one (`chart_runtime.py:290`); a
  pin lands inside a reorder (`routers/dashboards.py:319`); the credentials file
  is truncated in place (`dbbuddy/session.py:65`).

## 2. Plan

Done, in this order:

1. `ErpSlots` with the abstract `ConcurrencyCeiling`: checked and proved.
2. `RevocationCache`: checked and proved.
3. `CacheGate`: checked; its safety proved.
4. `ContextStore`: checked and proved.
5. `ExecuteFlow`: checked and proved.
6. `JoinPlan`: checked and proved.
7. `QueryPipeline`: checked and proved.
8. `ProviderChain`: checked and proved.
9. `JobScheduler`: checked and proved.

Next, were the project to grow: `AttemptWindow` (the sliding windows and what an
outage of Redis does to them) with `AuthSessions` (links that must work once);
the chart refresh and its cache; `SequenceGaps` of the audit log as a pure
operator; the connection pool inside `ContextStore`.

## 3. Modules

Every action is one step of the code between two points at which another thread,
worker or message can come in between: a round trip to Redis or a database, or
entering and leaving a lock. Code under one lock, one Redis transaction or one
SQL statement is one action. Data is reduced to what the properties tell apart;
log lines, metrics, texts and HTTP details are left out.

### ErpSlots, ConcurrencyCeiling

One target; each use of `query_slot` is a member of `Calls` in a worker
`ProcOf[c]`. `slots` is the sorted set (token to score), `keyTtl` the expiry of
the key, `sem` the semaphores, `pc`, `stamp` and `deadline` the locals of the
call. `Stamp` takes the worker's clock, `Admit`/`Refuse` are the MULTI of
`_SharedSlots.acquire` with its outcome, `BackOut` the ZREM of a refused entry.
`ReplyLost` applies the transaction and fails the caller, `AttemptFails` applies
nothing; both lead to the semaphore (`LocalAcquire`, `LocalTimeout`). `Crash(p)`
ends every call of a worker and gives it a new semaphore. Clocks of workers
differ by up to `MaxSkew`. `Hold` is the longest time a slot is held. The engine
aborts one statement by its timeout; a slot also covers the connect and, in
`/execute`, every statement of the plan. So `LeaseOutlivesQuery`, the premise of
the ceiling, is about what is run under a slot: true of one statement, and not
of a plan whose statements together take longer than the lease.

`ConcurrencyCeiling` is the promise: a set of holders that calls enter one at a
time, while there is room. `ErpSlots` implements it with `holders` mapped to the
calls running under a lease.

### RevocationCache

`cache`, `gen` and `flight` are `_rev_cache`, `_rev_gen` and `_rev_flights` of
each worker; the account state is abstracted to the number of its revocations.
A request is `Begin` (hit, or join or open a flight), `Read`, `Landed`,
`Publish`; a handler is `Load`, `Commit`, `Invalidate`, `Broadcast`, in the
order of its kind: handlers of kind "session" commit first, `update_user`
(kind "deactivate") invalidates first. `Evicted` and `Swept` are
`_evict_locked`. `cut` and `floor` are history: the version of the last
revocation that took effect in a worker, and what a request found of it when it
began. The sign-in adds the version its tokens carry to `sessions`.

### CacheGate

`connected`, `errors` and `gate` are the fields of `Cache`; `gate` counts what is
left of a cooldown, and zero is a cooldown that is over but was not cleared.
`Send` is `_available` followed by a command on the wire; `Succeeds` and `Fails`
are its end with `_note_success` and `_note_error`.

### ContextStore

`context`, `cached` and `flight` are the context map, the schema cache and the
flights of each worker; `disk` the persisted labels. A caller resolves the
schema (`Resolve`, `Fly`, `Read`, `Land`; sharers `Follow` or, woken without an
answer, `ReadOwn`), may `Publish` it to the cache, and takes a context (`Lookup`)
or builds one. A build makes or loads labels (`Label`), an analyst's writes them
(`Open` empties the file, `Write` fills it; each may fail or leave half a file,
and the build goes on, as `_persist_semantic` only logs it), reads the rich
schema if it came without (`Meta`), and ends in `Install`. An analyst always
builds, and broadcasts. A schema is the number of changes before it, so a change
back is a later schema of an earlier hash (`Hash`); a set of labels is the number
of its analysis. `installed` is history: analyses whose context was installed.
Analyses and schema changes are bounded.

### ExecuteFlow

`Review` and `Mint` are `/query`; an execute `Resolve`s its connection, gets its
SQL by `Redeem` or `RawSql` (or is refused), asks for a slot (`Admit`, `Busy`),
connects, runs statement by statement, commits, closes and is audited. SQL is
how many of its statements change data. Two tests by keywords class it: `Reads`
is what the classifier lets anybody with `query:run` run unreviewed, `Selects`
what `execute_query` runs on its read path, which commits nothing (`Committed`).
Either may contain a statement that changes data, as `SELECT ... INTO` or a
`SELECT` of a function does. `Manual` are the callers that may write by hand.
`auto` says whether the driver is in autocommit; `step` counts statements sent and
`applied` statements the database keeps, so that a failed write shows what
stays. `Edit` changes a saved connection at any time. The slot is the promise of
`ConcurrencyCeiling`, which `ErpSlots` shows to be kept under Redis; the open
sessions of every database (`OnDatabase`) implement the same specification, so a
session never outlives its slot.

### JoinPlan

An input is a schema (its relations, by the way they are found) and an intent.
The join graph is built as `build_relationship_graph` does it; then every pass
over the plan is an action, in the planner's order, and the compiler's check
comes last and accepts or refuses. A clause is the tables its items name: columns
matter only by their table, except the key a join uses, which is a role. The
state is the plan itself, so what a pass leaves behind for the next is what the
properties are about. The loops of the passes are folds (`Loop`), and the search
runs by turns: `Visit` takes the walks of one length in the order of the queue
and adds those one hop longer.

### QueryPipeline

A caller goes from `Ask` through the schema check (`Admit`), the shared response
cache (`Hit`, `Rerun`, `Miss`), the hint of the memory (`Enhance`), the planner
(`Plan`, a choice), `Respond` with its `Store`, and, when the statement ran, into
the memory (`Learn`, `Reload`, `Truncate`, `Dump`: load, load again, open for
writing, write). `Learn` adds up to `MaxUses` uses to one mapping, because
`update_memory` counts once for every keyword of a list with repetitions
("revenue from payments" counts twice). The file has no lock: other callers read
and write between any two of these, and `Die` kills a caller at any place.
`taught` is history: the uses that successful queries counted. `kept` is what a database's last complete save held.

### ProviderChain

A call resolves its chain link by link from the records (`Begin`, `Follow`),
then tries provider after provider: `Skip` when the breaker refuses, `Send`, and
`Reply`, `Retry`, `FailTransient` or `FailHard`; `Surprise` is an exception that
no handler lists. A breaker belongs to a display name and is shared by the
threads of a worker. Administrators activate (`Demote`, `Promote`) and relink or
disable records (`Validate`, `Relink`, `Toggle`), each in two steps: what was
read, and the commit. `streak` and `lost` are history: transient failures in a
row, and the half-open breakers whose probe ended in a `Surprise`.

### JobScheduler

One job. Each worker has a `trigger` and remembers its latest fire; `Due` is
APScheduler (a fire comes at most `Skew` late and never while the worker still
runs the job). `Claim` and `StandDown` are the conditional UPDATE with its two
outcomes; a run takes its start in `Begin` and writes it in `Finish`, because
sessions do not flush by themselves (`database.py:21`). `RunNow` is the button,
which does not claim; `Save` and `Apply` are PATCH, whose commit comes before the
scheduler of its own process hears of it. Nothing bounds how long a run takes.
History: `ran` counts the claims of a time, `answered` is the start of the latest
run that is over or was cut off, `overruns` counts runs longer than the window
that wrote their start over a later stamp, `orphaned` are the stamps of claims
whose worker died before it began the run.

## 4. Runs

| Run | Asks | Instance |
|---|---|---|
| `erp_slots` | Do the leases keep the ceiling, against two workers with different clocks, crashes, failing commands and lost replies? Are permits conserved? Is a refusal always due to live entries? Does the set implement the promise? | 3 calls, 2 workers, limit 1 |
| `erp_live` | Does every call end? | 3 calls, 1 worker, limit 1, fair |
| `revocation` | Can an old account state come back or be answered after a revocation took effect? One leader per flight; stale entries die by their TTL. | 3 requests, 1 handler, 2 workers |
| `cache_gate` | What does an outage cost until the first cooldown is over, and is the server used again after it? | 3 threads, threshold 3, fair |
| `context_store` | Flights that end, columns that are no older than the hash they are kept under, broadcasts only of what was installed, requests that end, schema changes that are picked up. | 1 query, 1 analyze, 1 worker, 2 changes, fair |
| `context_mixed` | Is everything in a context of the schema it is keyed by? Violated. | 3 callers |
| `execute_flow` | Does a plan run once, and is its token spent exactly then? Is what the classifier calls a write reviewed, or written by somebody who may? Does the answer to a write tell what was kept? Do the sessions of each database implement `ConcurrencyCeiling`? | 2 executes of one user, one that may write by hand; a plan of theirs, one of somebody else, a raw write, a `SELECT` that changes data; 2 databases |
| `join_plan` | Are joins in scope, once, needed, and on shortest ways? Is a plan answered exactly when its tables are related, with all its filters? | every small intent on 8 schemas of 4 tables |
| `query_pipeline` | What runs unasked? Does a statement fit the schema the request compared? Does the memory claim more uses than were counted? Was every hint, and every statement a hint chose, earned, the shared cache included? | 3 callers, 2 databases, 2 schemas, 2 questions |
| `query_scopes` | Does a save leave the other databases' memory alone? Violated. | the same |
| `provider_chain` | Does a breaker open only on a streak, does a half-open one wait for a probe under way (or has it lost it to an unlisted exception), does a chain repeat a provider, does every call end? | 2 calls, 2 providers, 1 administrator, fair |
| `job_scheduler` | Is a fire claimed again only after a run set the stamp back? Was a stamp that makes others stand down left by a run, or by a claim whose worker died? | 2 workers, 1 run by hand, 1 edit, 1 kill |

Type correctness is proved for every module with proofs (section 5), so the
runs of these do not list `TypeOK`.

### Bounds and why they are enough

* Limit 1 with three calls: two contenders and one that arrives while either
  backs out; a larger limit adds holders that do not differ.
* `Lease` 3, `Hold` 1, skew 1: the smallest values with
  `Hold + MaxSkew < Lease`. `MaxClock` 5 lets a lease of a dead worker run out
  and its slot be taken again.
* Two workers in `revocation`, one that revokes and one that must hear of it;
  three requests are a leader, a follower and a later one. `MaxClock` 3 covers a
  read, a TTL and the tick after it.
* Threshold 3 with three threads makes the commands under way at the third error
  visible; the counters stop at 9, past every value the properties compare.
* Two hashes and two changes, the second back to the first: a read of an old
  schema can be published after a new one is live, and one hash stands for two
  schemas. `context_mixed` needs one change and a query whose build reads again.
* A plan of two statements is the smallest whose failure keeps a part. Two users
  and two connections give a token somebody else's caller and another target;
  two executes are a call and its retry.
  TTL 1 and clock 1 let a token be valid, and expire, before it is presented.
* Four tables hold a chain of three joins, a star, a cycle, two islands, and a
  dimension with two keys; intents name up to three of them in every clause.
* Two of the three callers of `query_pipeline` share a database and differ in
  "auto-execute reads"; two questions (`MaxAsks`) are a writer and a reader of
  the cache or of the file. The file starts with any counts up to the threshold.
  `Threshold` 2 is the code's, and `MaxUses` 2 what
  "revenue from payments" counts.
* Two threads and one edit: a late answer of one thread meets the probe of the
  other. Threshold 2 and two attempts are the smallest that count.
* A schedule of 4 ticks, a window of 3 and skew 1 meet the assumption
  `Skew < Dedupe < Every`; 6 ticks hold two fires, and a run longer than the
  window.

Deadlock is checked in `ExecuteFlow` (and in `QueryPipeline`, where a schema
change is always possible and the check says little). In the other modules a
state in which every caller is done and every bound is used up is where the
system rests, so their configurations say `CHECK_DEADLOCK FALSE`; that callers
do not stop earlier is what the liveness properties say.

### Fairness

* `ErpSlots`: time passes; a thread that can take a step takes it; a query ends,
  because the statement timeout aborts it. No fairness on crashes, on the
  success of a command, or on a caller ever starting. An attempt that may
  succeed or fail has to do one or the other.
* `CacheGate`: requests keep coming, commands end (`socket_timeout`), time
  passes. The server need not change; `Recovers` has in its premise that it stays
  up.
* `ContextStore`: threads run, reads end, the cached schema expires. Nobody has
  to ask, and no schema has to change.
* `ProviderChain`: a thread with a call takes its next step; requests time out.
  Nobody has to ask or edit, and no cooldown has to end.

The other specifications have no fairness and only safety properties.

## 5. Proofs

The proofs are for every value of the constants that meets the named assumption
of the module.

* `ErpSlots_proof`. `SharedCeiling`, `LeaseHeldWhileRunning` and the refinement
  of `ConcurrencyCeiling` need `LeaseOutlivesQuery`: the engine enforces the
  statement timeout, and the lease exceeds it by more than the skew. The ceiling
  alone is not inductive: the set says nothing about a running query whose lease
  was pruned. `CeilingInv` adds that an attempt is timely (its stamp is at most
  `Hold` old), and that a running call has its own lease in the set, unexpired
  on every clock. `PermitsConserved` and `RefusedByLiveEntriesOnly` need no
  assumption on time: the second follows from the prune being in the transaction
  that counts. `Degraded` is the price of the fallback, "N workers give N × the
  limit", with what the module's comment leaves out: calls that still run on a
  lease come on top, so the bound is the limit times one more than the workers,
  and TLC meets it. Under `LeaseOutlivesQuery` and for finitely many workers, it
  adds the two invariants up over the workers; `UnionBound`
  does so by a smallest counterexample, in the place of induction. `LeasesEnd`
  says that no entry of a dead worker outlasts a lease and the skew; it needs no
  premise, because the stamp is taken before the transaction travels.
* `CacheGate`, in the same module: the gate decides on which side a call starts,
  and its definitions say `Gate` where `ErpSlots` has the same name. The bound on an
  outage follows from a sum: while parked no thread may send, so each error
  takes one from the commands under way.
* `RevocationCache_proof`. `OneLeader` needs no premise: `FlightsHaveLeaders`
  says that every registered flight has a leader on its way, every leader's
  flight is registered, and no two lead the same one. `StaleBound` needs only
  that handlers of one user do not overlap (`~Overlap`), whatever the cache's
  size and the order of the handler: then versions are committed in order
  (`VersionsInOrder`). `AgesBounded` adds when a reader read
  what it holds, and the age of what entries hold.
  `NoStaleResurrection` and `RevokedStaysRevoked` are under `Premises` (the cache
  has room for all users, handlers commit before they invalidate, no overlap);
  section 6 says what happens without. The invariant ties the reader's generation to what
  it read: if the generation still matches, the read came after the last
  revocation of that worker (`FreshReader`).
* `ContextStore_proof`. `FlightsAreUnderWay` is inductive with the types.
  `ToldInv` adds to `BroadcastAfterInstall` that what an analyst is about to
  announce was installed; it needs no premise on builds or writes, which may all
  fail. `RichIsNoOlder` is the half of `ContextOfItsSchema` that
  holds: a build resolves a schema and reads the columns again, so a context may
  have columns of a later schema under an earlier hash (`context_mixed`), and
  never the reverse. `RichInv` adds that nobody, and no cache, holds a schema of
  the future. `Onwards` is an action property: each step of a caller raises the
  `Stage` of its request and nobody lowers it, so a request is over after at most
  twelve steps of its own. What fairness adds to that is only that steps are taken.
* `ExecuteFlow_proof`. `Inv` has three parts next to the types: `TokenInv` (who
  carries a plan, and that it is spent exactly then), `EffectInv` (what the
  database keeps at each place of the execute, by autocommit), and `HoldingInv`
  (the ceiling). They give the theorems of the run. `Refinement` says of every
  database that its sessions implement `ConcurrencyCeiling`: only `Connect` opens
  one, and its caller holds a slot. `ReviewedWrites` is about what the classifier
  calls a write, and up to what `Context` fingerprints (engine, host, port,
  database and user); `Answered` is about what runs as a write. Section 6 says
  what both leave open.
* `JoinPlan_proof`, for any finite set of tables, any schema and any intent: the
  one assumption, `JoinPlanAssumption`, says that tables are finitely many, and
  that an intent's columns and filters are of tables it names. The library's induction over data is out of reach
  of the provers, so the module brings its own: a nonempty set of numbers has a
  least element (`Least`), hence a set that climbs is all of `Nat` (`Climb`), and
  `Looping` is the rule for loops, with the set of the values a loop may have
  after `k` rounds in place of the predicate.
  On the search: the tables within `n` relations of a table are its balls; before
  turn `n` the search holds a shortest walk to every table of ball `n`, so it
  finds a shortest walk exactly to what is reachable. On lists of joins: a list
  is laid out of the base when every join starts in scope and leads from one
  ball to the next; merging a shortest walk, dropping repetitions and pruning
  keep a list laid. Being in scope is not inductive by itself: a walk can be
  merged with what is there, and its hops to joined tables left out, because
  both agree on distances.
  `IInv` adds what refusals and filters need: clauses are those that were asked
  for until a pass drops them; once rebased, a base reaches all the plan names,
  provided that these are related to each other; what is named and reachable is
  joined. `EdgeInv` adds
  that every join is on an edge of the graph with a role of that edge, and that
  an accepted plan names what is in scope. From these the five properties of the
  run, both directions of `RelatedIsAnswered` included, and
  `JoinsFollowRelations`: no join is invented. The last is in no run; named in
  `JoinPlan.cfg`, TLC finds it to hold there as well.
* `QueryPipeline_proof`. `IInv` adds to the types, for each place of a request,
  what its locals may hold: a statement past the schema check was planned on the
  compared schema, a cached one on the schema of its key, a memory or file in
  anybody's hands never exceeds what was taught. No premise: torn files, lost
  updates, killed processes and several uses in one query are all allowed.
  `AppliedAfterEnoughUses` counts uses, not queries (section 6). It is over the
  hints of requests, the statements they hold and the shared cache: what a hint
  chose stays earned wherever it goes, because what was taught never shrinks.
* `ProviderChain_proof`. `Counts` ties a closed breaker's counter to the streak,
  which makes `OpensOnAStreak` inductive under late answers. `ProbeUnderWay`
  needs no premise: a half-open breaker without its probe lost it to an
  exception no handler lists, and to nothing else.
  `NoProviderTwice` needs nothing of the records, so cycles are allowed.
  From it follows, for finitely many providers, the action property `CallsSpend`: a chain is no longer than
  there are providers (`ChainLength`, by the pigeonhole principle), so the links
  still to follow, the providers still to try and the attempts still to make are
  a `Budget` that every step of the call uses up and nobody else refills: at most
  `MaxAttempts + 2` steps for every provider.
* `JobScheduler_proof`, for runs of any length. `ClaimedAgainAfterOverrun` is not
  inductive, because a run that began before a claim may write its start over the
  claim's stamp. `Held` adds that while a fire can still come to a late worker,
  either the row holds a time inside that worker's window, or one of `overruns`
  is not yet used up by a claim. `StampsTellClaims` follows with no time being of
  the future (`Past`).

### Only model-checked

Liveness (`EveryCallEnds`, `Recovers`, `RequestsEnd`, `PicksUpDdl`, `CallsEnd`) is out of the prover's reach; `Onwards` and `CallsSpend` are the
bounds behind `RequestsEnd` and `CallsEnd`. Every other property of a passing run
is a theorem. The properties of the violation runs do not hold, and neither do
those of section 6 without the premise named there.

## 6. Findings

The counterexamples of two runs; `PROJECT.json` quotes the lines they disagree
with.

* `context_mixed`: hash and rich schema are read at two times; a change in
  between stores types of the new schema under the hash of the old.
* `query_scopes`: a save that reads the file while another has truncated it takes
  the memory for blank and writes a file without the other databases.

The modules state more that the code does not keep, most of it said by a comment
of the repository. No run is kept for these; each is reproduced by naming the
property in the configuration of its module in the place of its properties, with
the constants given here.

* `RevocationCache`
  * `NoStaleResurrection`, with three users, one request of each (`MC_OfEach`,
    `MC_AtOne`) and `CacheMax` 1: at the cap `_evict_locked` forgets the
    generation of a user whose reader has left its flight and not yet published.
  * `RevokedStaysRevoked`, with `Kind <- MC_Deactivate` and the requests in the
    handler's worker (`MC_AtOne`): `update_user` invalidates before it commits.
  * `EndsEverySession` (`auth.py:571`), with two handlers and `Overlap` TRUE: both
    read one version and write the same next one, so tokens a sign-in handed out
    between the two commits stay valid.
* `CacheGate`, `OneProbePerCooldown` (`cache.py:34`): an expired cooldown is not
  cleared by a failure, so in a long outage every command waits after the first
  cooldown.
* `ContextStore`
  * `RebuildReadsLiveSchema`, with a second query: a query that read earlier
    publishes between the two critical sections of `rebuild`.
  * `LabelsOnDisk` (`context_store.py:13`) and `BroadcastAfterPersist`: a write of
    the labels that fails is logged, the context installed and the broadcast sent
    (`context_store.py:361`); the other workers drop their labels and find none.
  * `Converged` (`context_store.py:552`): a query that loaded the labels before an
    analyze wrote its own installs after it.
* `ExecuteFlow`
  * `EffectsAreReviewed` (`safety.py:38`): the classifier reads keywords, so a
    `SELECT` that changes data runs unreviewed and is kept in autocommit.
  * `EveryAnswerTells`: the same `SELECT` without autocommit is answered with a
    200, and what it changed is lost.
  * `RanWhereReviewed`, with `Targets <- MC_Schemas` and no symmetry: the
    fingerprint of a token leaves out the schema of the connection.
* `JoinPlan`, `RoleIsHonoured`: from the dimension to the fact the role of the
  question is lost, and a join that the passes after `_apply_join_roles` add has
  no role in either direction; `DroppedIsNoted`: the final scoring overwrites the
  note.
* `QueryPipeline`, `MappingsStayHome`: equal schemas share responses;
  `OneUsePerQuery` (`orchestrator.py:316`): a keyword counted twice by one query
  reaches the threshold of two.
* `ProviderChain`
  * `HalfOpenHasItsProbe`: a probe whose reply has no text content raises what no
    handler lists, and the breaker stays half-open.
  * `NeverRaises` (`ai_providers.py:562`): the same exception goes to the caller,
    and the rest of the chain is not tried.
  * `OneActive`, with two administrators, three providers and `MaxEdits` 2:
    overlapping activations.
* `JobScheduler`
  * `OncePerFire` (`jobs.py:123`): a long run by hand commits its older start over
    a claim.
  * `StampsAreRuns`: a worker that dies between its claim and its run makes the
    others stand down for nothing.
  * `OnePerInterval`, with `Cron` FALSE: interval triggers are anchored per
    worker.

## 7. Not modelled, and why

Ranking, embeddings and prompt texts: numbers and words, no protocol; the intent
builder is the largest of these. Drivers, introspection, cryptography, name
resolution: library calls, present only by their effect. Frontend, migrations,
scripts, containers: rendering, or run once by an operator. Routers that create,
read, update and delete one row in one transaction: nothing can come in between.
Request limits, authentication links, charts and the audit log have protocols
and no module yet (section 2).

Inside modelled parts: `busy_status`; LRU order (an eviction removes any other
entry); the connection pool, vector and value index of a context; relevance
scores and numeric confidence of a question; the condition operators of the
compiler; relation snapshots; retry delays; the history rows and notifications
of a job; the periodic sweep of generations; deletion of the active provider's
record, which leaves none active; a write of the memory file that fails other
than by the death of its process.
