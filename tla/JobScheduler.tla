----------------------------- MODULE JobScheduler -----------------------------
(***************************************************************************)
(* One scheduled job of backend/app_db/jobs.py: every worker process runs  *)
(* a scheduler of its own, so a schedule fires once in each of them, and   *)
(* the claim of the fire in the application database lets one worker run   *)
(* it.  Also "run now", edits and deletion (routers/jobs.py), and workers  *)
(* that are killed and start again.                                        *)
(*                                                                         *)
(* A run takes its start when it begins, and writes it as last_run_at only *)
(* when it commits (sessions do not flush by themselves, database.py:21).  *)
(***************************************************************************)
EXTENDS Integers, FiniteSets

CONSTANTS Workers, Manual,    \* Manual: a request to run the job now
          None,
          Cron,               \* daily and weekly; otherwise an interval
          Phases,             \* times of day a cron schedule may name
          Every,              \* ticks from one fire to the next
          Dedupe,             \* FIRE_DEDUPE_SECONDS in ticks
          Skew,               \* a fire comes at most this late
          Horizon,            \* bound: the time
          MaxKills, MaxEdits, MaxManual   \* bounds

Runners == Workers \union {Manual}
Times == 0..Horizon
Never == -1

\* The fire window is longer than the skew of the clocks and shorter than any
\* useful interval (jobs.py:108).
ASSUME ScheduleAssumption ==
    /\ Manual \notin Workers /\ None \notin Workers /\ None \notin Int
    /\ Cron \in BOOLEAN
    /\ Every \in Nat /\ Phases \subseteq 0..Every - 1
    /\ Skew \in Nat /\ Dedupe \in Nat /\ Skew < Dedupe /\ Dedupe < Every
    /\ Horizon \in Nat
    /\ MaxKills \in Nat /\ MaxEdits \in Nat /\ MaxManual \in Nat

VARIABLES now,
          exists, enabled, phase, last,   \* the job's row; last is last_run_at
          up, trigger, fired,             \* a worker's scheduler: phase, latest fire
          pc, stamp,                      \* a runner: its place, the time it took
          edit,                           \* a PATCH that is saved and not applied
          ran,                            \* history: how often a time was claimed
          answered,                       \* history: start of the latest run over
          overruns,                       \* history: long runs that set the row back
          orphaned,                       \* history: claims that died before a run
          kills, edits, manuals           \* bounds' counters

row == <<exists, enabled, phase, last>>
schedulers == <<up, trigger, fired>>
runners == <<pc, stamp>>
history == <<ran, answered, overruns, orphaned>>
counts == <<kills, edits, manuals>>
vars == <<now, row, schedulers, runners, edit, history, counts>>

TypeOK ==
    /\ now \in Times
    /\ exists \in BOOLEAN /\ enabled \in BOOLEAN /\ phase \in Phases
    /\ last \in Times \union {Never}
    /\ up \in SUBSET Workers
    /\ trigger \in [Workers -> (0..Every - 1) \union {None}]
    /\ fired \in [Workers -> Times]
    /\ pc \in [Runners -> {"idle", "claimed", "run"}]
    /\ stamp \in [Runners -> Times]
    /\ edit \in Workers \union {None}
    /\ ran \in [Times -> Nat]
    /\ answered \in Times \union {Never}
    /\ overruns \in Nat /\ orphaned \subseteq Times
    /\ kills \in 0..MaxKills /\ edits \in 0..MaxEdits /\ manuals \in 0..MaxManual

\* Where a worker's trigger sits: a cron schedule names it, an interval counts
\* from the moment it is registered.
Anchor == IF Cron THEN phase ELSE now % Every

\* Each worker started at some time in the past.
Init ==
    /\ now = 0
    /\ exists = TRUE /\ enabled = TRUE /\ phase \in Phases /\ last = Never
    /\ up = Workers
    /\ trigger \in [Workers -> IF Cron THEN {phase} ELSE 0..Every - 1]
    /\ fired = [w \in Workers |-> 0]
    /\ pc = [r \in Runners |-> "idle"]
    /\ stamp = [r \in Runners |-> 0]
    /\ edit = None
    /\ ran = [t \in Times |-> 0] /\ answered = Never /\ overruns = 0 /\ orphaned = {}
    /\ kills = 0 /\ edits = 0 /\ manuals = 0

-----------------------------------------------------------------------------
(* Fires and runs.                                                         *)
Later(a, b) == IF a >= b THEN a ELSE b
Done(r) ==
    /\ pc' = [pc EXCEPT ![r] = "idle"]
    /\ stamp' = [stamp EXCEPT ![r] = 0]

\* A worker's scheduler submits the fire of time d, at most Skew late; not
\* while the worker still runs the job for an earlier one.
Due(w, d) ==
    /\ pc[w] = "idle" /\ trigger[w] # None
    /\ d \in Later(0, now - Skew)..now /\ d > fired[w] /\ d % Every = trigger[w]

\* Mutant of Claimable: no window.
ClaimableAnyway == exists /\ enabled

Claimable == exists /\ enabled /\ (last = Never \/ last < now - Dedupe)

\* One update tests and stamps last_run_at.
Claim(w) ==
    /\ Claimable
    /\ \E d \in Times :
          /\ Due(w, d)
          /\ fired' = [fired EXCEPT ![w] = d]
          /\ ran' = [ran EXCEPT ![d] = @ + 1]
    /\ last' = now
    /\ pc' = [pc EXCEPT ![w] = "claimed"]
    /\ stamp' = [stamp EXCEPT ![w] = now]
    /\ UNCHANGED <<now, exists, enabled, phase, up, trigger, edit,
                   answered, overruns, orphaned, counts>>

\* Mutant of StandDown: the fire is stamped whatever the test says.
StandDownStamped(w) ==
    /\ ~Claimable
    /\ \E d \in Times : Due(w, d) /\ fired' = [fired EXCEPT ![w] = d]
    /\ last' = now
    /\ UNCHANGED <<now, exists, enabled, phase, up, trigger, runners, edit, history, counts>>

StandDown(w) ==
    /\ ~Claimable
    /\ \E d \in Times : Due(w, d) /\ fired' = [fired EXCEPT ![w] = d]
    /\ UNCHANGED <<now, row, up, trigger, runners, edit, history, counts>>

\* The claimed row is read again; the run takes its start.
Begin(w) ==
    /\ pc[w] = "claimed" /\ exists
    /\ pc' = [pc EXCEPT ![w] = "run"]
    /\ stamp' = [stamp EXCEPT ![w] = now]
    /\ UNCHANGED <<now, row, schedulers, edit, history, counts>>
BeginNothing(w) ==
    /\ pc[w] = "claimed" /\ ~exists
    /\ Done(w)
    /\ UNCHANGED <<now, row, schedulers, edit, history, counts>>

\* POST /jobs/{id}/run: no claim, enabled or not.
RunNow ==
    /\ pc[Manual] = "idle" /\ exists /\ manuals < MaxManual
    /\ pc' = [pc EXCEPT ![Manual] = "run"]
    /\ stamp' = [stamp EXCEPT ![Manual] = now]
    /\ manuals' = manuals + 1
    /\ UNCHANGED <<now, row, schedulers, edit, history, kills, edits>>

\* A run that took longer than the window, less the skew, is about to write its
\* start over a later stamp.
SetsBack(r) == exists /\ stamp[r] < last /\ stamp[r] + Dedupe < now + Skew

\* The run ends, in success or error, however long it took, and commits its
\* start; the commit fails when the row is gone.
Finish(r) ==
    /\ pc[r] = "run"
    /\ last' = IF exists THEN stamp[r] ELSE last
    /\ answered' = Later(answered, stamp[r])
    /\ overruns' = IF SetsBack(r) THEN overruns + 1 ELSE overruns
    /\ Done(r)
    /\ UNCHANGED <<now, exists, enabled, phase, schedulers, edit, ran, orphaned, counts>>

-----------------------------------------------------------------------------
(* Edits, workers that die and start, time.                                *)
Register(w) ==
    /\ trigger' = [trigger EXCEPT ![w] = IF exists /\ enabled THEN Anchor ELSE None]
    /\ fired' = [fired EXCEPT ![w] = now]

\* PATCH commits the row, then applies it to the scheduler of its own process.
Save(w) ==
    /\ edit = None /\ w \in up /\ exists /\ edits < MaxEdits
    /\ enabled' \in BOOLEAN /\ phase' \in Phases
    /\ edit' = w
    /\ edits' = edits + 1
    /\ UNCHANGED <<now, exists, last, schedulers, runners, history, kills, manuals>>
Apply(w) ==
    /\ edit = w
    /\ Register(w)
    /\ edit' = None
    /\ UNCHANGED <<now, row, up, runners, history, counts>>

\* DELETE takes the trigger from its own process.
Delete(w) ==
    /\ edit = None /\ w \in up /\ exists /\ edits < MaxEdits
    /\ exists' = FALSE
    /\ trigger' = [trigger EXCEPT ![w] = None]
    /\ edits' = edits + 1
    /\ UNCHANGED <<now, enabled, phase, last, up, fired, runners, edit, history,
                   kills, manuals>>

\* A killed worker takes its run, its triggers and a half-applied edit along; a
\* claim it had not begun leaves its stamp behind.
Kill(w) ==
    /\ w \in up /\ kills < MaxKills
    /\ kills' = kills + 1
    /\ up' = up \ {w}
    /\ trigger' = [trigger EXCEPT ![w] = None]
    /\ edit' = IF edit = w THEN None ELSE edit
    /\ answered' = IF pc[w] = "run" THEN Later(answered, stamp[w]) ELSE answered
    /\ orphaned' = IF pc[w] = "claimed" THEN orphaned \union {stamp[w]} ELSE orphaned
    /\ Done(w)
    /\ UNCHANGED <<now, row, fired, ran, overruns, edits, manuals>>
Start(w) ==
    /\ w \notin up
    /\ up' = up \union {w}
    /\ Register(w)
    /\ UNCHANGED <<now, row, runners, edit, history, counts>>

Tick ==
    /\ now < Horizon
    /\ now' = now + 1
    /\ UNCHANGED <<row, schedulers, runners, edit, history, counts>>

Work(w) == Claim(w) \/ StandDown(w) \/ Begin(w) \/ BeginNothing(w)
Admin(w) == Save(w) \/ Apply(w) \/ Delete(w) \/ Kill(w) \/ Start(w)
Next ==
    \/ \E w \in Workers : Work(w) \/ Admin(w)
    \/ \E r \in Runners : Finish(r)
    \/ RunNow \/ Tick
Spec == Init /\ [][Next]_vars

-----------------------------------------------------------------------------
\* A time of a schedule is claimed again only after a run longer than the window
\* has written its start over a claim, and once for each such run: no order of
\* fires, edits, kills and runs by hand opens the window otherwise (jobs.py:86,
\* 133-146).
ClaimedAgainAfterOverrun == \A t \in Times : ran[t] <= 1 + overruns

\* The promise of jobs.py:123, "exactly one worker's UPDATE matches a row".  It
\* does not hold: nothing bounds how long a run by hand takes.
OncePerFire == \A t \in Times : ran[t] <= 1

\* A run stands for last_run_at: it is over or was cut off with its worker, or
\* has still to end, or its claim has still to begin it.
RunStands ==
    \/ last <= answered \/ ~exists
    \/ \E r \in Runners :
          \/ pc[r] = "run" /\ stamp[r] >= last
          \/ pc[r] = "claimed" /\ stamp[r] = last

\* What later fires stand down for (jobs.py:143) is a run, or the claim of a
\* worker that died before it began one: no fire that stands down, no edit and
\* no commit of another run leaves a stamp without either.
StampsTellClaims == RunStands \/ last \in orphaned

\* Nobody stands down for nothing.  It does not hold: between the stamp
\* (jobs.py:146) and the run (158) a worker may die.
StampsAreRuns == RunStands

\* An interval job runs no more often than its interval (jobs.py:117).
OnePerInterval == Cardinality({t \in Times : ran[t] > 0}) <= 1 + now \div Every
=============================================================================
