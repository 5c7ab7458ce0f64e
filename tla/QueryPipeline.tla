---------------------------- MODULE QueryPipeline ----------------------------
(***************************************************************************)
(* A question to /query: dbbuddy_core/orchestrator.py (process_query) with *)
(* the response cache it shares through Redis and the semantic memory it   *)
(* learns into (learning_engine.py, semantic_enhancer.py: one JSON file    *)
(* that every thread and process rewrites without a lock).                 *)
(*                                                                         *)
(* A statement stands for its plan: the column it aggregates (target), the *)
(* schema it was planned on and the database whose memory chose the        *)
(* column, if one did.  compile_sql emits SELECT only, so the branches for *)
(* other statements are dead.  One term is learned; counts are per column. *)
(* How tables are joined is in JoinPlan, what becomes of a held statement  *)
(* in ExecuteFlow, the cache's availability gate in CacheGate.             *)
(***************************************************************************)
EXTENDS Integers, FiniteSets

CONSTANTS Callers,    \* requests under way, in any thread of any process
          Dbs,        \* target databases
          Home,       \* the database a caller asks
          AutoRead,       \* callers with "auto-execute reads" on
          Schemas,    \* schema hashes
          Valid,      \* the columns of a schema, as validate_query sees it
          Questions,
          Dangerous,  \* questions with a word such as "delete" in them
          Targets,    \* measure columns a question may be answered from
          None,
          Torn,       \* a memory file that is empty or no JSON
          Threshold,  \* 2: counts from which a mapping is applied
          MaxMappings,\* MAX_MAPPINGS_PER_TERM
          MaxUses,    \* bound: how often one question can name the term
          MaxAsks     \* bound: questions asked

ASSUME ParametersAssumption ==
    /\ Home \in [Callers -> Dbs]
    /\ AutoRead \subseteq Callers
    /\ Valid \in [Schemas -> SUBSET Targets]
    /\ Dangerous \subseteq Questions
    /\ Threshold \in Nat /\ MaxMappings \in Nat /\ MaxUses \in Nat /\ MaxAsks \in Nat
    /\ None \notin Targets \union Dbs \union Schemas \union Questions
    /\ None \notin [target : Targets, schema : Schemas, from : Dbs \union {None}]

VARIABLES schemaOf,   \* the schema a database has now
          cache,      \* Redis: the response stored for a question and a hash
          file,       \* semantic_memory.json
          taught,     \* history: uses of a column that successful queries counted
          kept,       \* history: what a database's last complete save held
          pc, question, schema, sql, hint, memory, store, answer, asks

shared == <<schemaOf, cache, file>>
vars == <<schemaOf, cache, file, taught, kept,
          pc, question, schema, sql, hint, memory, store, answer, asks>>

Statements == [target : Targets, schema : Schemas, from : Dbs \union {None}]
Counts == [Targets -> Nat]
Nothing == [t \in Targets |-> 0]
Blank == [d \in Dbs |-> Nothing]
Places == {"idle", "asked", "lookup", "rerun", "enhance", "plan", "respond",
           "run", "learn", "reload", "truncate", "dump"}
Answers == {"none", "rows", "held", "refused"}

TypeOK ==
    /\ schemaOf \in [Dbs -> Schemas]
    /\ cache \in [Questions \X Schemas -> Statements \union {None}]
    /\ file \in [Dbs -> Counts] \union {Torn}
    /\ taught \in [Dbs -> Counts]
    /\ kept \in [Dbs -> Counts]
    /\ pc \in [Callers -> Places]
    /\ question \in [Callers -> Questions \union {None}]
    /\ schema \in [Callers -> Schemas \union {None}]
    /\ sql \in [Callers -> Statements \union {None}]
    /\ hint \in [Callers -> Targets \union {None}]
    /\ memory \in [Callers -> Counts]
    /\ store \in [Callers -> [Dbs -> Counts]]
    /\ answer \in [Callers -> Answers]
    /\ asks \in 0..MaxAsks

\* A deployment with some history: the file holds what its databases taught.
Init ==
    /\ schemaOf \in [Dbs -> Schemas]
    /\ cache = [k \in Questions \X Schemas |-> None]
    /\ taught \in [Dbs -> {m \in [Targets -> 0..Threshold] :
                           Cardinality({t \in Targets : m[t] > 0}) <= MaxMappings}]
    /\ file = taught
    /\ kept = taught
    /\ pc = [c \in Callers |-> "idle"]
    /\ question = [c \in Callers |-> None]
    /\ schema = [c \in Callers |-> None]
    /\ sql = [c \in Callers |-> None]
    /\ hint = [c \in Callers |-> None]
    /\ memory = [c \in Callers |-> Nothing]
    /\ store = [c \in Callers |-> Blank]
    /\ answer = [c \in Callers |-> "none"]
    /\ asks = 0

-----------------------------------------------------------------------------
Go(c, place) == pc' = [pc EXCEPT ![c] = place]

\* The response goes out; the local state of the request is gone.
End(c, a) ==
    /\ Go(c, "idle")
    /\ answer' = [answer EXCEPT ![c] = a]
    /\ sql' = [sql EXCEPT ![c] = None]
    /\ hint' = [hint EXCEPT ![c] = None]
    /\ schema' = [schema EXCEPT ![c] = None]

\* Mutants of RunsUnasked, Key, Counted and Best.
RunsUnaskedAnything(c) == c \in AutoRead
KeyWithoutSchema(c) == <<question[c], CHOOSE s \in Schemas : TRUE>>
CountedFromOne(m, t, n) == [m EXCEPT ![t] = IF @ = 0 THEN n + 1 ELSE @ + n]
BestOfAny(m) == {t \in Targets : \A u \in Targets : m[u] <= m[t]}

\* A read that may run without being confirmed.
RunsUnasked(c) == c \in AutoRead /\ question[c] \notin Dangerous

Key(c) == <<question[c], schema[c]>>

\* _load_file: a file that does not parse counts as a blank memory.
Loaded == IF file = Torn THEN Blank ELSE file

\* get_best_mapping: a column with the highest count, if that is enough.
Best(m) == {t \in Targets : m[t] >= Threshold /\ m[t] > 0
                            /\ \A u \in Targets : m[u] <= m[t]}

\* _resolve_mapping and _injection_is_valid: a hint the schema has no column
\* for is dropped.
Hints(c) == IF Best(Loaded[Home[c]]) = {} THEN {None}
            ELSE {IF t \in Valid[schema[c]] THEN t ELSE None :
                    t \in Best(Loaded[Home[c]])}

Counted(m, t, n) == [m EXCEPT ![t] = @ + n]
Known(m) == {t \in Targets : m[t] > 0}

\* add_mapping, called n times: n more uses of t.  The first may take the term
\* over the cap; then the weakest mapping goes, the oldest of equals.  When
\* that is t itself the log line after it raises KeyError and nothing is saved.
Weakest(m, t) ==
    LET low == {u \in Known(m) : \A v \in Known(m) : m[u] <= m[v]}
    IN  IF low = {t} THEN {t} ELSE low \ {t}
Added(m, t, n) ==
    IF Cardinality(Known(Counted(m, t, n))) <= MaxMappings THEN {Counted(m, t, n)}
    ELSE {[Counted(m, t, n) EXCEPT ![u] = 0] : u \in Weakest(Counted(m, t, 1), t) \ {t}}

-----------------------------------------------------------------------------
\* POST /query with a resolved connection.
Ask(c) ==
    /\ pc[c] = "idle" /\ asks < MaxAsks
    /\ \E q \in Questions : question' = [question EXCEPT ![c] = q]
    /\ Go(c, "asked")
    /\ answer' = [answer EXCEPT ![c] = "none"]
    /\ asks' = asks + 1
    /\ UNCHANGED <<shared, taught, kept, schema, sql, hint, memory, store>>

\* Over the rate limit, or nothing in the schema is close to the question.
TurnAway(c) ==
    /\ pc[c] = "asked"
    /\ End(c, "refused")
    /\ UNCHANGED <<shared, taught, kept, question, memory, store, asks>>

\* get_context compares the schema on every query; its hash is kept for the
\* rest of the request.
Admit(c) ==
    /\ pc[c] = "asked"
    /\ schema' = [schema EXCEPT ![c] = schemaOf[Home[c]]]
    /\ Go(c, "lookup")
    /\ UNCHANGED <<shared, taught, kept, question, sql, hint, memory, store, answer, asks>>

\* A response stored for the question and the hash; expiry, a closed gate and
\* a failed command look like a miss.
Hit(c) ==
    /\ pc[c] = "lookup"
    /\ cache[Key(c)] # None /\ RunsUnasked(c)
    /\ sql' = [sql EXCEPT ![c] = cache[Key(c)]]
    /\ Go(c, "rerun")
    /\ UNCHANGED <<shared, taught, kept, question, schema, hint, memory, store, answer, asks>>
Miss(c) ==
    /\ pc[c] = "lookup"
    /\ Go(c, "enhance")
    /\ UNCHANGED <<shared, taught, kept, question, schema, sql, hint, memory, store, answer, asks>>

\* The stored statement is run on the caller's own database; if that fails the
\* whole pipeline is taken.
Rerun(c) ==
    /\ pc[c] = "rerun"
    /\ \/ End(c, "rows")
       \/ /\ Go(c, "enhance")
          /\ sql' = [sql EXCEPT ![c] = None]
          /\ UNCHANGED <<schema, hint, answer>>
    /\ UNCHANGED <<shared, taught, kept, question, memory, store, asks>>

Enhance(c) ==
    /\ pc[c] = "enhance"
    /\ \E h \in Hints(c) : hint' = [hint EXCEPT ![c] = h]
    /\ Go(c, "plan")
    /\ UNCHANGED <<shared, taught, kept, question, schema, sql, memory, store, answer, asks>>

\* Intent, plan and SQL: memory suggests, the intent builder decides.
Plan(c) ==
    /\ pc[c] = "plan"
    /\ \E t \in Targets :
          sql' = [sql EXCEPT ![c] =
                    [target |-> t, schema |-> schema[c],
                     from |-> IF hint[c] = t THEN Home[c] ELSE None]]
    /\ Go(c, "respond")
    /\ UNCHANGED <<shared, taught, kept, question, schema, hint, memory, store, answer, asks>>
GiveUp(c) ==
    /\ pc[c] = "plan"
    /\ End(c, "refused")
    /\ UNCHANGED <<shared, taught, kept, question, memory, store, asks>>

\* A confident plan without ambiguities is stored, before its columns are
\* checked.
Store(c) ==
    /\ pc[c] = "respond"
    /\ cache' = [cache EXCEPT ![Key(c)] = sql[c]]

\* Then the statement is run, or goes back to be looked at: its columns are
\* unknown, the question sounds like a change, or reads are not run unasked.
Respond(c) ==
    /\ pc[c] = "respond"
    /\ Store(c) \/ UNCHANGED cache
    /\ IF sql[c].target \in Valid[schema[c]] /\ RunsUnasked(c)
       THEN Go(c, "run") /\ UNCHANGED <<schema, sql, hint, answer>>
       ELSE End(c, "held")
    /\ UNCHANGED <<schemaOf, file, taught, kept, question, memory, store, asks>>

\* A failed statement is handed back with its error; one that ran teaches its
\* column when the question named the term and asked for a measure.
RunFails(c) ==
    /\ pc[c] = "run"
    /\ End(c, "held")
    /\ UNCHANGED <<shared, taught, kept, question, memory, store, asks>>
RunSucceeds(c) ==
    /\ pc[c] = "run"
    /\ End(c, "rows")
    /\ UNCHANGED <<shared, taught, kept, question, memory, store, asks>>
RunTeaches(c) ==
    /\ pc[c] = "run"
    /\ answer' = [answer EXCEPT ![c] = "rows"]
    /\ Go(c, "learn")
    /\ UNCHANGED <<shared, taught, kept, question, schema, sql, hint, memory, store, asks>>

\* update_memory: the caller's scope is loaded and a use is counted for every
\* time the term is among the keywords.  A repeated word is not dropped, and
\* "revenue" brings a "payments" of its own, so one question may count twice.
Learn(c) ==
    /\ pc[c] = "learn"
    /\ \E n \in 1..MaxUses :
          LET new == Added(Loaded[Home[c]], sql[c].target, n)
          IN  \/ /\ \E m \in new : memory' = [memory EXCEPT ![c] = m]
                 /\ taught' = [taught EXCEPT ![Home[c]][sql[c].target] = @ + n]
                 /\ Go(c, "reload")
                 /\ UNCHANGED <<schema, sql, hint, answer>>
              \/ /\ new = {}
                 /\ End(c, answer[c])
                 /\ UNCHANGED <<memory, taught>>
    /\ UNCHANGED <<shared, kept, question, store, asks>>

\* save_memory: the whole file is read again, the caller's scope replaced in
\* the copy, and the file rewritten in place.
Reload(c) ==
    /\ pc[c] = "reload"
    /\ store' = [store EXCEPT ![c] = [Loaded EXCEPT ![Home[c]] = memory[c]]]
    /\ Go(c, "truncate")
    /\ UNCHANGED <<shared, taught, kept, question, schema, sql, hint, memory, answer, asks>>
Truncate(c) ==
    /\ pc[c] = "truncate"
    /\ file' = Torn
    /\ Go(c, "dump")
    /\ UNCHANGED <<schemaOf, cache, taught, kept, question, schema, sql, hint, memory, store,
                   answer, asks>>

\* Two writers in the file at once may leave a mix of both.
Overlapped(c) == file # Torn \/ \E d \in Callers \ {c} : pc[d] = "dump"
Dump(c) ==
    /\ pc[c] = "dump"
    /\ \/ file' = store[c]
       \/ Overlapped(c) /\ file' = Torn
    /\ kept' = [kept EXCEPT ![Home[c]] = memory[c]]
    /\ End(c, answer[c])
    /\ memory' = [memory EXCEPT ![c] = Nothing]
    /\ store' = [store EXCEPT ![c] = Blank]
    /\ UNCHANGED <<schemaOf, cache, taught, question, asks>>

\* The process is killed under a request.
Die(c) ==
    /\ pc[c] # "idle"
    /\ End(c, "none")
    /\ memory' = [memory EXCEPT ![c] = Nothing]
    /\ store' = [store EXCEPT ![c] = Blank]
    /\ UNCHANGED <<shared, taught, kept, question, asks>>

\* The owner of a database alters it.
Ddl(d) ==
    /\ \E s \in Schemas : schemaOf' = [schemaOf EXCEPT ![d] = s]
    /\ UNCHANGED <<cache, file, taught, kept, pc, question, schema, sql, hint, memory, store,
                   answer, asks>>

Step(c) ==
    \/ Ask(c) \/ TurnAway(c) \/ Admit(c) \/ Hit(c) \/ Miss(c) \/ Rerun(c)
    \/ Enhance(c) \/ Plan(c) \/ GiveUp(c) \/ Respond(c)
    \/ RunFails(c) \/ RunSucceeds(c) \/ RunTeaches(c)
    \/ Learn(c) \/ Reload(c) \/ Truncate(c) \/ Dump(c) \/ Die(c)
Next == (\E c \in Callers : Step(c)) \/ (\E d \in Dbs : Ddl(d))
Spec == Init /\ [][Next]_vars

-----------------------------------------------------------------------------
\* A statement runs unasked only for a caller who lets reads run and a question
\* that does not sound like a change, also when another caller's question put
\* it in the shared cache (orchestrator.py:254, 822, 844).
HeldStaysHeld ==
    \A c \in Callers : answer[c] = "rows" \/ pc[c] \in {"rerun", "run"} =>
        c \in AutoRead /\ question[c] \notin Dangerous

\* A statement taken from the cache was planned on the schema the request
\* compared at its start, whatever was altered since (orchestrator.py:242, 674).
HitsFitTheSchema ==
    \A c \in Callers : sql[c] # None => sql[c].schema = schema[c]

\* The file never credits a database with more uses of a column than its
\* successful queries counted, whatever was torn, overwritten or lost
\* (learning_engine.py:129).
LearnedWhatWasTaught ==
    file # Torn => \A d \in Dbs, t \in Targets : file[d][t] <= taught[d][t]

\* A statement whose column a memory chose: its database had used the column
\* often enough, and the schema it was planned on has it.
Earned(s) ==
    s # None /\ s.from # None =>
        taught[s.from][s.target] >= Threshold /\ s.target \in Valid[s.schema]

\* A mapping reaches a question only after successful queries of the caller's
\* own database counted Threshold uses of it, whatever other databases learned
\* and whatever was torn or lost, and only if the column exists; the same holds
\* of every statement it chose, in a request or in the cache all callers share
\* (learning_engine.py:270, semantic_enhancer.py:92).  How many queries that
\* takes is another matter: see OneUsePerQuery.
AppliedAfterEnoughUses ==
    /\ \A c \in Callers : hint[c] # None =>
          taught[Home[c]][hint[c]] >= Threshold /\ hint[c] \in Valid[schema[c]]
    /\ \A c \in Callers : Earned(sql[c])
    /\ \A k \in Questions \X Schemas : Earned(cache[k])

\* A query counts as one use, so that one-off queries cannot bias results
\* (orchestrator.py:316).  It does not hold: a question that names the term
\* twice is enough for a threshold of two.
OneUsePerQuery ==
    [][\A d \in Dbs, t \in Targets : taught'[d][t] <= taught[d][t] + 1]_vars

\* Saving one database's memory leaves every other scope untouched
\* (learning_engine.py:130); at rest a scope is what its last save left.
ScopesSpared ==
    (\A c \in Callers : pc[c] \notin {"reload", "truncate", "dump"}) =>
        file = Torn \/ \A d \in Dbs : file[d] = kept[d]

\* A mapping learned from one database is not applied to a question asked of
\* another (orchestrator.py:318).
MappingsStayHome ==
    \A c \in Callers : sql[c] # None => sql[c].from \in {None, Home[c]}

=============================================================================
