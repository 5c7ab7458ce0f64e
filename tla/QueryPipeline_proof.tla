------------------------- MODULE QueryPipeline_proof -------------------------
(***************************************************************************)
(* Proofs about QueryPipeline: type correctness and the four invariants of *)
(* the query_pipeline run, for any callers, databases and columns.         *)
(***************************************************************************)
EXTENDS QueryPipeline, TLAPS

\* Local variables are set only while the request is where it uses them.
Locals ==
    \A c \in Callers :
        /\ pc[c] # "idle" => question[c] \in Questions
        /\ pc[c] \notin {"idle", "asked"} => schema[c] \in Schemas
        /\ pc[c] \in {"idle", "asked", "lookup", "enhance", "plan"} => sql[c] = None
        /\ pc[c] \in {"respond", "run", "learn"} => sql[c] \in Statements
        /\ pc[c] \in {"idle", "asked", "lookup", "rerun", "enhance"} => hint[c] = None
        /\ pc[c] = "learn" => answer[c] = "rows"
        /\ pc[c] \in {"learn", "reload", "truncate", "dump"} =>
              c \in AutoRead /\ question[c] \notin Dangerous

\* A stored response was planned on the schema its key names.
CacheFits ==
    \A q \in Questions, s \in Schemas :
        cache[<<q, s>>] # None => cache[<<q, s>>].schema = s

\* What a caller holds of the file has no more uses than were taught.
HeldCounts ==
    \A c \in Callers, t \in Targets :
        /\ memory[c][t] <= taught[Home[c]][t]
        /\ \A d \in Dbs : store[c][d][t] <= taught[d][t]

\* The two halves of AppliedAfterEnoughUses: the hint of a request, and the
\* statements that hints became.
HintsEarned ==
    \A c \in Callers : hint[c] # None =>
        taught[Home[c]][hint[c]] >= Threshold /\ hint[c] \in Valid[schema[c]]
StatementsEarned ==
    /\ \A c \in Callers : Earned(sql[c])
    /\ \A k \in Questions \X Schemas : Earned(cache[k])

IInv == /\ TypeOK /\ Locals /\ CacheFits /\ HeldCounts
        /\ HeldStaysHeld /\ HitsFitTheSchema /\ LearnedWhatWasTaught
        /\ HintsEarned /\ StatementsEarned

-----------------------------------------------------------------------------
LEMMA NothingType == Nothing \in Counts /\ Blank \in [Dbs -> Counts]
  BY DEF Nothing, Blank, Counts

LEMMA KeyType ==
  ASSUME Locals, NEW c \in Callers, pc[c] \notin {"idle", "asked"}
  PROVE  /\ Key(c) \in Questions \X Schemas
         /\ question[c] \in Questions /\ schema[c] \in Schemas
  BY DEF Locals, Key

\* The statement a plan becomes.
LEMMA PlannedStatement ==
  ASSUME Locals, NEW c \in Callers, Plan(c)
  PROVE  \E s \in Statements : s.schema = schema[c] /\ sql' = [sql EXCEPT ![c] = s]
<1>1. PICK t \in Targets :
        sql' = [sql EXCEPT ![c] = [target |-> t, schema |-> schema[c],
                                   from |-> IF hint[c] = t THEN Home[c] ELSE None]]
  BY DEF Plan
<1>2. schema[c] \in Schemas /\ Home[c] \in Dbs
  BY ParametersAssumption DEF Locals, Plan
<1> DEFINE f == IF hint[c] = t THEN Home[c] ELSE None
           s == [target |-> t, schema |-> schema[c], from |-> f]
<1>3. f \in Dbs \union {None}
  BY <1>2
<1>4. s.schema = schema[c] /\ sql' = [sql EXCEPT ![c] = s]
  BY <1>1
<1> HIDE DEF f
<1>5. s \in Statements
  BY <1>2, <1>3 DEF Statements
<1> QED BY <1>4, <1>5

LEMMA LoadedType == TypeOK => Loaded \in [Dbs -> Counts]
  BY NothingType DEF TypeOK, Loaded

\* Counting k uses adds k to one column, and pruning only takes away.
LEMMA AddedCounts ==
  ASSUME NEW m \in Counts, NEW t \in Targets, NEW k \in Nat, NEW x \in Added(m, t, k)
  PROVE  /\ x \in Counts
         /\ \A u \in Targets : x[u] <= m[u] + (IF u = t THEN k ELSE 0)
<1> DEFINE n == Counted(m, t, k)
<1>0. m \in [Targets -> Nat] /\ n = [m EXCEPT ![t] = m[t] + k]
  BY DEF Counted, Counts
<1>1. n \in Counts /\ \A u \in Targets : n[u] = m[u] + (IF u = t THEN k ELSE 0)
  <2>1. m[t] + k \in Nat
    BY <1>0
  <2>2. n \in Counts
    BY <1>0, <2>1 DEF Counts
  <2>3. \A u \in Targets : n[u] = IF u = t THEN m[t] + k ELSE m[u]
    BY <1>0
  <2>4. \A u \in Targets : m[u] \in Nat
    BY <1>0
  <2> QED BY <2>2, <2>3, <2>4
<1>2. x = n \/ \E u \in Targets : x = [n EXCEPT ![u] = 0]
  <2>1. Weakest(Counted(m, t, 1), t) \subseteq Targets
    BY DEF Weakest, Known
  <2>2. x = n \/ \E u \in Weakest(Counted(m, t, 1), t) : x = [n EXCEPT ![u] = 0]
    BY DEF Added
  <2> QED BY <2>1, <2>2
<1> HIDE DEF n
<1>3. CASE x = n
  <2>1. \A u \in Targets : m[u] \in Nat /\ n[u] \in Nat
    BY <1>1 DEF Counts
  <2> QED BY <1>1, <1>3, <2>1
<1>4. CASE \E u \in Targets : x = [n EXCEPT ![u] = 0]
  <2> PICK u \in Targets : x = [n EXCEPT ![u] = 0]
    BY <1>4
  <2>1. x \in Counts
    BY <1>1 DEF Counts
  <2>2. \A v \in Targets : x[v] <= n[v]
    BY <1>1 DEF Counts
  <2>3. \A v \in Targets : m[v] \in Nat /\ n[v] \in Nat /\ x[v] \in Nat
    BY <1>1, <2>1 DEF Counts
  <2> QED BY <1>1, <2>1, <2>2, <2>3
<1> QED BY <1>2, <1>3, <1>4

\* A hint was used often enough in the file the caller read.
LEMMA HintCounts ==
  ASSUME NEW c \in Callers, NEW h \in Hints(c), h # None
  PROVE  /\ h \in Targets /\ h \in Valid[schema[c]]
         /\ Loaded[Home[c]][h] >= Threshold /\ Loaded[Home[c]][h] > 0
  BY DEF Hints, Best

\* Learning adds to the count of one column and leaves the others alone.
LEMMA TaughtByLearn ==
  ASSUME TypeOK, NEW c \in Callers, Learn(c), sql[c].target \in Targets, Home[c] \in Dbs
  PROVE  /\ taught' \in [Dbs -> Counts]
         /\ \A d \in Dbs, t \in Targets :
               \/ taught'[d][t] = taught[d][t]
               \/ \E n \in Nat : taught'[d][t] = taught[d][t] + n
<1>1. taught \in [Dbs -> Counts]
  BY DEF TypeOK
<1>2. PICK n \in 1..MaxUses :
        \/ UNCHANGED taught
        \/ taught' = [taught EXCEPT ![Home[c]][sql[c].target] = @ + n]
  BY DEF Learn
<1>3. n \in Nat
  BY ParametersAssumption
<1> DEFINE h == Home[c]
           g == sql[c].target
           row == [taught[h] EXCEPT ![g] = taught[h][g] + n]
<1>4. CASE taught' = [taught EXCEPT ![h] = row]
  <2>1. taught[h] \in [Targets -> Nat]
    BY <1>1 DEF Counts
  <2>2. taught[h][g] + n \in Nat
    BY <1>3, <2>1
  <2>3. row \in Counts /\ \A t \in Targets : row[t] = IF t = g THEN taught[h][g] + n ELSE taught[h][t]
    BY <2>1, <2>2 DEF Counts
  <2> HIDE DEF row
  <2>4. \A d \in Dbs : taught'[d] = IF d = h THEN row ELSE taught[d]
    BY <1>1, <1>4
  <2>5. taught' \in [Dbs -> Counts]
    BY <1>1, <1>4, <2>3
  <2> QED BY <1>3, <2>3, <2>4, <2>5
<1>5. CASE UNCHANGED taught
  BY <1>1, <1>5
<1>6. UNCHANGED taught \/ taught' = [taught EXCEPT ![h] = row]
  BY <1>2
<1> QED BY <1>4, <1>5, <1>6

LEMMA TypeStep ==
  ASSUME TypeOK, Locals, NEW c \in Callers, Step(c)
  PROVE  TypeOK'
<1>1. CASE Ask(c)
  BY <1>1, ParametersAssumption DEF TypeOK, Ask, Go, End, Places, Answers, Locals, shared
<1>2. CASE TurnAway(c)
  BY <1>2 DEF TypeOK, TurnAway, Go, End, Places, Answers, Locals, shared
<1>3. CASE Admit(c)
  BY <1>3, ParametersAssumption DEF TypeOK, Admit, Go, End, Places, Answers, Locals, shared
<1>4. CASE Hit(c)
  <2>1. Key(c) \in Questions \X Schemas
    BY <1>4, KeyType DEF Hit
  <2>2. cache[Key(c)] \in Statements
    BY <1>4, <2>1 DEF Hit, TypeOK
  <2> QED BY <1>4, <2>2 DEF Hit, Go, TypeOK, Places, shared
<1>5. CASE Miss(c)
  BY <1>5 DEF TypeOK, Miss, Go, End, Places, Answers, Locals, shared
<1>6. CASE Rerun(c)
  BY <1>6 DEF TypeOK, Rerun, Go, End, Places, Answers, Locals, shared
<1>7. CASE Enhance(c)
  BY <1>7, HintCounts DEF TypeOK, Enhance, Go, End, Places, Answers, Locals, shared
<1>8. CASE Plan(c)
  <2>1. sql' \in [Callers -> Statements \union {None}]
    BY <1>8, PlannedStatement DEF TypeOK
  <2> QED BY <1>8, <2>1 DEF Plan, Go, TypeOK, Places, shared
<1>9. CASE GiveUp(c)
  BY <1>9 DEF TypeOK, GiveUp, Go, End, Places, Answers, Locals, shared
<1>10. CASE Respond(c)
  <2>1. Key(c) \in Questions \X Schemas /\ sql[c] \in Statements
    BY <1>10, KeyType DEF Respond, Locals
  <2>2. cache' \in [Questions \X Schemas -> Statements \union {None}]
    BY <1>10, <2>1 DEF Respond, Store, TypeOK
  <2> QED BY <1>10, <2>2 DEF Respond, Go, End, TypeOK, Places, Answers
<1>11. CASE RunFails(c)
  BY <1>11 DEF TypeOK, RunFails, Go, End, Places, Answers, Locals, shared
<1>12. CASE RunSucceeds(c)
  BY <1>12 DEF TypeOK, RunSucceeds, Go, End, Places, Answers, Locals, shared
<1>13. CASE RunTeaches(c)
  BY <1>13 DEF TypeOK, RunTeaches, Go, End, Places, Answers, Locals, shared
<1>14. CASE Learn(c)
  <2>1. sql[c].target \in Targets /\ Home[c] \in Dbs
    BY <1>14, ParametersAssumption DEF Learn, Locals, Statements
  <2>2. \A n \in 1..MaxUses : Added(Loaded[Home[c]], sql[c].target, n) \subseteq Counts
    BY <2>1, LoadedType, AddedCounts
  <2>3. memory' \in [Callers -> Counts]
    BY <1>14, <2>2 DEF Learn, TypeOK
  <2>4. taught' \in [Dbs -> Counts]
    BY <1>14, <2>1, TaughtByLearn, ParametersAssumption
  <2>5. \/ Go(c, "reload") /\ UNCHANGED <<schema, sql, hint, answer>>
        \/ End(c, answer[c])
    BY <1>14 DEF Learn
  <2>6. pc' \in [Callers -> Places] /\ answer' \in [Callers -> Answers]
    BY <2>5 DEF TypeOK, Go, End, Places
  <2>7. /\ sql' \in [Callers -> Statements \union {None}]
        /\ schema' \in [Callers -> Schemas \union {None}]
        /\ hint' \in [Callers -> Targets \union {None}]
    BY <2>5 DEF TypeOK, End
  <2> QED BY <1>14, <2>3, <2>4, <2>6, <2>7 DEF Learn, TypeOK, shared
<1>15. CASE Reload(c)
  BY <1>15, LoadedType, ParametersAssumption DEF TypeOK, Reload, Go, End, Places, Answers, Locals, shared
<1>16. CASE Truncate(c)
  BY <1>16 DEF TypeOK, Truncate, Go, End, Places, Answers, Locals, shared
<1>17. CASE Dump(c)
  <2>1. file' \in [Dbs -> Counts] \union {Torn}
    BY <1>17 DEF Dump, TypeOK
  <2>2. kept' \in [Dbs -> Counts]
    BY <1>17, ParametersAssumption DEF Dump, TypeOK
  <2> QED BY <1>17, <2>1, <2>2, NothingType DEF Dump, Go, End, TypeOK, Places
<1>18. CASE Die(c)
  BY <1>18, NothingType DEF TypeOK, Die, Go, End, Places, Answers, Locals, shared
<1> QED BY <1>1, <1>2, <1>3, <1>4, <1>5, <1>6, <1>7, <1>8, <1>9, <1>10, <1>11, <1>12, <1>13, <1>14, <1>15, <1>16, <1>17, <1>18 DEF Step

LEMMA LocalsStep ==
  ASSUME TypeOK, Locals, HeldStaysHeld, NEW c \in Callers, Step(c)
  PROVE  Locals'
<1>1. CASE Ask(c)
  BY <1>1 DEF TypeOK, Ask, Go, End, Places, Locals, shared
<1>2. CASE TurnAway(c)
  BY <1>2 DEF TypeOK, TurnAway, Go, End, Places, Locals, shared
<1>3. CASE Admit(c)
  BY <1>3, ParametersAssumption DEF TypeOK, Admit, Go, End, Places, Locals, shared
<1>4. CASE Hit(c)
  BY <1>4 DEF TypeOK, Hit, Go, End, Places, Locals, shared, Key, RunsUnasked
<1>5. CASE Miss(c)
  BY <1>5 DEF TypeOK, Miss, Go, End, Places, Locals, shared
<1>6. CASE Rerun(c)
  BY <1>6 DEF TypeOK, Rerun, Go, End, Places, Locals, shared
<1>7. CASE Enhance(c)
  BY <1>7 DEF TypeOK, Enhance, Go, End, Places, Locals, shared
<1>8. CASE Plan(c)
  <2> PICK s \in Statements : sql' = [sql EXCEPT ![c] = s]
    BY <1>8, PlannedStatement
  <2> QED BY <1>8 DEF Plan, Go, TypeOK, Locals, shared
<1>9. CASE GiveUp(c)
  BY <1>9 DEF TypeOK, GiveUp, Go, End, Places, Locals, shared
<1>10. CASE Respond(c)
  BY <1>10 DEF TypeOK, Respond, Go, End, Places, Locals, shared, Key, Store, RunsUnasked
<1>11. CASE RunFails(c)
  BY <1>11 DEF TypeOK, RunFails, Go, End, Places, Locals, shared
<1>12. CASE RunSucceeds(c)
  BY <1>12 DEF TypeOK, RunSucceeds, Go, End, Places, Locals, shared
<1>13. CASE RunTeaches(c)
  BY <1>13 DEF TypeOK, RunTeaches, Go, End, Places, Locals, shared, HeldStaysHeld
<1>14. CASE Learn(c)
  BY <1>14 DEF TypeOK, Learn, Go, End, Places, Locals, shared
<1>15. CASE Reload(c)
  BY <1>15 DEF TypeOK, Reload, Go, End, Places, Locals, shared
<1>16. CASE Truncate(c)
  BY <1>16 DEF TypeOK, Truncate, Go, End, Places, Locals, shared
<1>17. CASE Dump(c)
  BY <1>17 DEF TypeOK, Dump, Go, End, Places, Locals, shared
<1>18. CASE Die(c)
  BY <1>18 DEF TypeOK, Die, Go, End, Places, Locals, shared
<1> QED BY <1>1, <1>2, <1>3, <1>4, <1>5, <1>6, <1>7, <1>8, <1>9, <1>10, <1>11, <1>12, <1>13, <1>14, <1>15, <1>16, <1>17, <1>18 DEF Step

LEMMA HeldStep ==
  ASSUME TypeOK, Locals, HeldStaysHeld, NEW c \in Callers, Step(c)
  PROVE  HeldStaysHeld'
<1>1. CASE Ask(c)
  BY <1>1 DEF TypeOK, Ask, Go, End, Places, Locals, HeldStaysHeld, shared
<1>2. CASE TurnAway(c)
  BY <1>2 DEF TypeOK, TurnAway, Go, End, Places, Locals, HeldStaysHeld, shared
<1>3. CASE Admit(c)
  BY <1>3 DEF TypeOK, Admit, Go, End, Places, Locals, HeldStaysHeld, shared
<1>4. CASE Hit(c)
  BY <1>4 DEF TypeOK, Hit, Go, End, Places, Locals, HeldStaysHeld, shared, Key, RunsUnasked
<1>5. CASE Miss(c)
  BY <1>5 DEF TypeOK, Miss, Go, End, Places, Locals, HeldStaysHeld, shared
<1>6. CASE Rerun(c)
  BY <1>6 DEF TypeOK, Rerun, Go, End, Places, Locals, HeldStaysHeld, shared
<1>7. CASE Enhance(c)
  BY <1>7 DEF TypeOK, Enhance, Go, End, Places, Locals, HeldStaysHeld, shared
<1>8. CASE Plan(c)
  BY <1>8 DEF TypeOK, Plan, Go, End, Places, Locals, HeldStaysHeld, shared
<1>9. CASE GiveUp(c)
  BY <1>9 DEF TypeOK, GiveUp, Go, End, Places, Locals, HeldStaysHeld, shared
<1>10. CASE Respond(c)
  BY <1>10 DEF TypeOK, Respond, Go, End, Places, Locals, HeldStaysHeld, shared, Store, RunsUnasked
<1>11. CASE RunFails(c)
  BY <1>11 DEF TypeOK, RunFails, Go, End, Places, Locals, HeldStaysHeld, shared
<1>12. CASE RunSucceeds(c)
  BY <1>12 DEF TypeOK, RunSucceeds, Go, End, Places, Locals, HeldStaysHeld, shared
<1>13. CASE RunTeaches(c)
  BY <1>13 DEF TypeOK, RunTeaches, Go, End, Places, Locals, HeldStaysHeld, shared
<1>14. CASE Learn(c)
  BY <1>14 DEF TypeOK, Learn, Go, End, Places, Locals, HeldStaysHeld, shared
<1>15. CASE Reload(c)
  BY <1>15 DEF TypeOK, Reload, Go, End, Places, Locals, HeldStaysHeld, shared
<1>16. CASE Truncate(c)
  BY <1>16 DEF TypeOK, Truncate, Go, End, Places, Locals, HeldStaysHeld, shared
<1>17. CASE Dump(c)
  BY <1>17 DEF TypeOK, Dump, Go, End, Places, Locals, HeldStaysHeld, shared
<1>18. CASE Die(c)
  BY <1>18 DEF TypeOK, Die, Go, End, Places, Locals, HeldStaysHeld, shared
<1> QED BY <1>1, <1>2, <1>3, <1>4, <1>5, <1>6, <1>7, <1>8, <1>9, <1>10, <1>11, <1>12, <1>13, <1>14, <1>15, <1>16, <1>17, <1>18 DEF Step

LEMMA FitsStep ==
  ASSUME TypeOK, Locals, CacheFits, HitsFitTheSchema, NEW c \in Callers, Step(c)
  PROVE  CacheFits' /\ HitsFitTheSchema'
<1>1. CASE Ask(c)
  BY <1>1 DEF TypeOK, Ask, Go, End, Places, Locals, CacheFits, HitsFitTheSchema, shared
<1>2. CASE TurnAway(c)
  BY <1>2 DEF TypeOK, TurnAway, Go, End, Places, Locals, CacheFits, HitsFitTheSchema, shared
<1>3. CASE Admit(c)
  BY <1>3 DEF TypeOK, Admit, Go, End, Places, Locals, CacheFits, HitsFitTheSchema, shared
<1>4. CASE Hit(c)
  <2>1. /\ Key(c) = <<question[c], schema[c]>>
        /\ question[c] \in Questions /\ schema[c] \in Schemas
    BY <1>4, KeyType DEF Hit, Key
  <2>2. cache[Key(c)].schema = schema[c]
    BY <1>4, <2>1 DEF Hit, CacheFits
  <2> QED BY <1>4, <2>2 DEF Hit, Go, TypeOK, CacheFits, HitsFitTheSchema, shared
<1>5. CASE Miss(c)
  BY <1>5 DEF TypeOK, Miss, Go, End, Places, Locals, CacheFits, HitsFitTheSchema, shared
<1>6. CASE Rerun(c)
  BY <1>6 DEF TypeOK, Rerun, Go, End, Places, Locals, CacheFits, HitsFitTheSchema, shared
<1>7. CASE Enhance(c)
  BY <1>7 DEF TypeOK, Enhance, Go, End, Places, Locals, CacheFits, HitsFitTheSchema, shared
<1>8. CASE Plan(c)
  BY <1>8, PlannedStatement DEF Plan, Go, TypeOK, CacheFits, HitsFitTheSchema, shared
<1>9. CASE GiveUp(c)
  BY <1>9 DEF TypeOK, GiveUp, Go, End, Places, Locals, CacheFits, HitsFitTheSchema, shared
<1>10. CASE Respond(c)
  <2>1. /\ Key(c) = <<question[c], schema[c]>>
        /\ Key(c) \in Questions \X Schemas /\ sql[c] \in Statements
    BY <1>10, KeyType DEF Respond, Locals, Key
  <2>2. sql[c].schema = schema[c]
    BY <2>1, ParametersAssumption DEF HitsFitTheSchema, Statements
  <2>3. CacheFits'
    <3>1. CASE UNCHANGED cache
      BY <3>1 DEF CacheFits
    <3>2. CASE Store(c)
      <4> SUFFICES ASSUME NEW q \in Questions, NEW s \in Schemas,
                          (cache')[<<q, s>>] # None
                   PROVE  (cache')[<<q, s>>].schema = s
        BY DEF CacheFits
      <4>1. CASE <<q, s>> = Key(c)
        BY <4>1, <3>2, <2>1, <2>2 DEF Store, TypeOK
      <4>2. CASE <<q, s>> # Key(c)
        BY <4>2, <3>2, <2>1 DEF Store, TypeOK, CacheFits
      <4> QED BY <4>1, <4>2
    <3> QED BY <3>1, <3>2, <1>10 DEF Respond
  <2>4. HitsFitTheSchema'
    BY <1>10 DEF Respond, Go, End, HitsFitTheSchema, TypeOK
  <2> QED BY <2>3, <2>4
<1>11. CASE RunFails(c)
  BY <1>11 DEF TypeOK, RunFails, Go, End, Places, Locals, CacheFits, HitsFitTheSchema, shared
<1>12. CASE RunSucceeds(c)
  BY <1>12 DEF TypeOK, RunSucceeds, Go, End, Places, Locals, CacheFits, HitsFitTheSchema, shared
<1>13. CASE RunTeaches(c)
  BY <1>13 DEF TypeOK, RunTeaches, Go, End, Places, Locals, CacheFits, HitsFitTheSchema, shared
<1>14. CASE Learn(c)
  BY <1>14 DEF TypeOK, Learn, Go, End, Places, Locals, CacheFits, HitsFitTheSchema, shared
<1>15. CASE Reload(c)
  BY <1>15 DEF TypeOK, Reload, Go, End, Places, Locals, CacheFits, HitsFitTheSchema, shared
<1>16. CASE Truncate(c)
  BY <1>16 DEF TypeOK, Truncate, Go, End, Places, Locals, CacheFits, HitsFitTheSchema, shared
<1>17. CASE Dump(c)
  BY <1>17 DEF TypeOK, Dump, Go, End, Places, Locals, CacheFits, HitsFitTheSchema, shared
<1>18. CASE Die(c)
  BY <1>18 DEF TypeOK, Die, Go, End, Places, Locals, CacheFits, HitsFitTheSchema, shared
<1> QED BY <1>1, <1>2, <1>3, <1>4, <1>5, <1>6, <1>7, <1>8, <1>9, <1>10, <1>11, <1>12, <1>13, <1>14, <1>15, <1>16, <1>17, <1>18 DEF Step

\* What the counts' invariant says of the file as a caller reads it.
LEMMA LoadedCounts ==
  ASSUME TypeOK, LearnedWhatWasTaught
  PROVE  \A d \in Dbs, t \in Targets : Loaded[d][t] <= taught[d][t]
<1>1. \A d \in Dbs, t \in Targets : taught[d][t] \in Nat /\ Blank[d][t] = 0
  BY DEF TypeOK, Counts, Blank, Nothing
<1> QED BY <1>1 DEF Loaded, LearnedWhatWasTaught

LEMMA CountsStep ==
  ASSUME TypeOK, Locals, HeldCounts, LearnedWhatWasTaught, NEW c \in Callers, Step(c)
  PROVE  HeldCounts' /\ LearnedWhatWasTaught'
<1>1. CASE UNCHANGED <<file, taught, memory, store>>
  BY <1>1 DEF HeldCounts, LearnedWhatWasTaught
<1>2. CASE Learn(c)
  <2>1. sql[c].target \in Targets /\ Home[c] \in Dbs
    BY <1>2, ParametersAssumption DEF Learn, Locals, Statements
  <2> DEFINE t == sql[c].target
             d == Home[c]
  <2>2. Loaded[d] \in Counts
    BY <2>1, LoadedType
  <2>3. \A e \in Dbs, u \in Targets : taught[e][u] \in Nat
    BY DEF TypeOK, Counts
  <2>6. PICK n \in 1..MaxUses :
          \/ UNCHANGED <<memory, taught>>
          \/ /\ \E m \in Added(Loaded[d], t, n) : memory' = [memory EXCEPT ![c] = m]
             /\ taught' = [taught EXCEPT ![d][t] = @ + n]
    BY <1>2 DEF Learn
  <2>0. CASE UNCHANGED <<memory, taught>>
    BY <1>2, <2>0 DEF Learn, shared, HeldCounts, LearnedWhatWasTaught
  <2>p. SUFFICES ASSUME taught' = [taught EXCEPT ![d][t] = @ + n],
                        \E m \in Added(Loaded[d], t, n) : memory' = [memory EXCEPT ![c] = m]
                 PROVE  HeldCounts' /\ LearnedWhatWasTaught'
    BY <2>0, <2>6
  <2>n. n \in Nat
    OBVIOUS
  <2>4. \A e \in Dbs, u \in Targets :
          taught'[e][u] = taught[e][u] + (IF e = d /\ u = t THEN n ELSE 0)
    BY <2>p, <2>1, <2>3 DEF TypeOK, Counts
  <2>5. \A e \in Dbs, u \in Targets : taught[e][u] <= taught'[e][u]
    BY <2>n, <2>3, <2>4
  <2>7. \A u \in Targets : Loaded[d][u] \in Nat /\ Loaded[d][u] <= taught[d][u]
    BY <2>1, <2>2, LoadedCounts DEF Counts
  <2>8. \A m \in Added(Loaded[d], t, n), u \in Targets :
          m[u] \in Nat /\ m[u] <= taught'[d][u]
    <3> TAKE m \in Added(Loaded[d], t, n), u \in Targets
    <3>1. m \in Counts /\ m[u] <= Loaded[d][u] + (IF u = t THEN n ELSE 0)
      BY <2>n, <2>1, <2>2, AddedCounts
    <3>2. m[u] \in Nat /\ Loaded[d][u] \in Nat /\ taught[d][u] \in Nat
      BY <3>1, <2>1, <2>3, <2>7 DEF Counts
    <3>3. taught'[d][u] = taught[d][u] + (IF u = t THEN n ELSE 0)
      BY <2>1, <2>4
    <3>4. Loaded[d][u] <= taught[d][u]
      BY <2>7
    <3> QED BY <2>n, <3>1, <3>2, <3>3, <3>4
  <2> HIDE DEF t, d
  <2>9. \A x \in Callers, u \in Targets :
          /\ memory[x][u] \in Nat /\ memory[x][u] <= taught'[Home[x]][u]
          /\ \A e \in Dbs : store[x][e][u] <= taught'[e][u]
    <3> TAKE x \in Callers, u \in Targets
    <3>1. Home[x] \in Dbs /\ memory[x][u] \in Nat /\ \A e \in Dbs : store[x][e][u] \in Nat
      BY ParametersAssumption DEF TypeOK, Counts
    <3>2. \A e \in Dbs : taught[e][u] \in Nat /\ taught'[e][u] \in Nat
      BY <2>n, <2>3, <2>4
    <3> QED BY <2>5, <3>1, <3>2 DEF HeldCounts
  <2>10. HeldCounts'
    <3>1. UNCHANGED store
      BY <1>2 DEF Learn
    <3> PICK m \in Added(Loaded[d], t, n) : memory' = [memory EXCEPT ![c] = m]
      BY <2>p
    <3>2. \A x \in Callers : memory'[x] = IF x = c THEN m ELSE memory[x]
      BY DEF TypeOK
    <3>3. \A u \in Targets : m[u] <= taught'[Home[c]][u]
      BY <2>8 DEF d
    <3> QED BY <2>9, <3>1, <3>2, <3>3 DEF HeldCounts
  <2>11. LearnedWhatWasTaught'
    <3>1. UNCHANGED file
      BY <1>2 DEF Learn, shared
    <3>2. SUFFICES ASSUME file # Torn, NEW e \in Dbs, NEW u \in Targets
                   PROVE  file[e][u] <= taught'[e][u]
      BY <3>1 DEF LearnedWhatWasTaught
    <3>3. file[e][u] \in Nat
      BY <3>2 DEF TypeOK, Counts
    <3>5. taught[e][u] \in Nat /\ taught'[e][u] \in Nat
      BY <2>n, <2>3, <2>4
    <3>4. file[e][u] <= taught[e][u]
      BY <3>2 DEF LearnedWhatWasTaught
    <3>6. taught[e][u] <= taught'[e][u]
      BY <2>5
    <3> QED BY <3>3, <3>4, <3>5, <3>6
  <2> QED BY <2>10, <2>11
<1>3. CASE Reload(c)
  <2>1. UNCHANGED <<file, taught, memory>>
    BY <1>3 DEF Reload, shared
  <2>2. \A x \in Callers, d \in Dbs, t \in Targets : (store')[x][d][t] <= taught[d][t]
    <3> TAKE x \in Callers, d \in Dbs, t \in Targets
    <3>1. CASE x # c
      BY <1>3, <3>1 DEF Reload, TypeOK, HeldCounts
    <3>2. CASE x = c
      <4>1. (store')[c] = [Loaded EXCEPT ![Home[c]] = memory[c]]
        BY <1>3 DEF Reload, TypeOK
      <4>2. (store')[c][d] = IF d = Home[c] THEN memory[c] ELSE Loaded[d]
        BY <4>1, LoadedType
      <4> QED BY <3>2, <4>2, LoadedCounts DEF HeldCounts
    <3> QED BY <3>1, <3>2
  <2> QED BY <2>1, <2>2 DEF HeldCounts, LearnedWhatWasTaught
<1>4. CASE Truncate(c)
  BY <1>4 DEF Truncate, HeldCounts, LearnedWhatWasTaught
<1>5. CASE Dump(c) \/ Die(c)
  <2>1. /\ memory' = [memory EXCEPT ![c] = Nothing]
        /\ store' = [store EXCEPT ![c] = Blank]
        /\ UNCHANGED taught
    BY <1>5 DEF Dump, Die
  <2>2. \A d \in Dbs, t \in Targets : taught[d][t] \in Nat
    BY DEF TypeOK, Counts
  <2>3. HeldCounts'
    <3> SUFFICES ASSUME NEW x \in Callers, NEW t \in Targets
                 PROVE  /\ (memory')[x][t] <= taught[Home[x]][t]
                        /\ \A d \in Dbs : (store')[x][d][t] <= taught[d][t]
      BY <2>1 DEF HeldCounts
    <3>1. CASE x # c
      BY <2>1, <3>1 DEF TypeOK, HeldCounts
    <3>2. CASE x = c
      <4>1. (memory')[x] = Nothing /\ (store')[x] = Blank
        BY <2>1, <3>2 DEF TypeOK
      <4>2. (memory')[x][t] = 0 /\ \A d \in Dbs : (store')[x][d][t] = 0
        BY <4>1 DEF Nothing, Blank
      <4> QED BY <2>2, <4>2, ParametersAssumption
    <3> QED BY <3>1, <3>2
  <2>4. LearnedWhatWasTaught'
    BY <1>5, <2>1 DEF Dump, Die, shared, LearnedWhatWasTaught, HeldCounts
  <2> QED BY <2>3, <2>4
<1>6. \/ UNCHANGED <<file, taught, memory, store>>
      \/ Learn(c) \/ Reload(c) \/ Truncate(c) \/ Dump(c) \/ Die(c)
  BY DEF Step, shared, Ask, TurnAway, Admit, Hit, Miss, Rerun, Enhance, Plan, GiveUp, Respond,
         RunFails, RunSucceeds, RunTeaches
<1> QED BY <1>1, <1>2, <1>3, <1>4, <1>5, <1>6

LEMMA TaughtGrows ==
  ASSUME TypeOK, Locals, NEW c \in Callers, Step(c)
  PROVE  \A d \in Dbs, t \in Targets :
           taught[d][t] \in Nat /\ taught'[d][t] \in Nat /\ taught[d][t] <= taught'[d][t]
<1>1. \A d \in Dbs, t \in Targets : taught[d][t] \in Nat
  BY DEF TypeOK, Counts
<1>2. CASE UNCHANGED taught
  BY <1>1, <1>2
<1>3. CASE Learn(c)
  <2>1. sql[c].target \in Targets /\ Home[c] \in Dbs
    BY <1>3, ParametersAssumption DEF Learn, Locals, Statements
  <2>2. \A d \in Dbs, t \in Targets :
          \/ taught'[d][t] = taught[d][t]
          \/ \E n \in Nat : taught'[d][t] = taught[d][t] + n
    BY <1>3, <2>1, TaughtByLearn
  <2> QED BY <1>1, <2>2
<1>4. UNCHANGED taught \/ Learn(c)
  BY DEF Step, shared, Ask, TurnAway, Admit, Hit, Miss, Rerun, Enhance, Plan, GiveUp, Respond,
         RunFails, RunSucceeds, RunTeaches, Reload, Truncate, Dump, Die
<1> QED BY <1>2, <1>3, <1>4

LEMMA HintsStep ==
  ASSUME TypeOK, Locals, LearnedWhatWasTaught, HintsEarned, NEW c \in Callers, Step(c)
  PROVE  HintsEarned'
<1> SUFFICES ASSUME NEW x \in Callers, (hint')[x] # None
             PROVE  /\ taught'[Home[x]][(hint')[x]] >= Threshold
                    /\ (hint')[x] \in Valid[(schema')[x]]
  BY DEF HintsEarned
<1>t. Home[x] \in Dbs /\ Threshold \in Nat
  BY ParametersAssumption
<1>1. CASE (hint')[x] = hint[x] /\ (schema')[x] = schema[x]
  <2>1. hint[x] \in Targets /\ taught[Home[x]][hint[x]] >= Threshold
    BY <1>1 DEF HintsEarned, TypeOK
  <2>2. /\ taught[Home[x]][hint[x]] \in Nat /\ taught'[Home[x]][hint[x]] \in Nat
        /\ taught[Home[x]][hint[x]] <= taught'[Home[x]][hint[x]]
    BY <2>1, <1>t, TaughtGrows
  <2> QED BY <1>1, <1>t, <2>1, <2>2 DEF HintsEarned
<1>2. CASE x = c /\ Enhance(c)
  <2>1. (hint')[c] \in Hints(c) /\ UNCHANGED <<taught, schema>>
    BY <1>2 DEF Enhance, TypeOK
  <2> DEFINE h == (hint')[c]
  <2>2. /\ h \in Targets /\ h \in Valid[schema[c]]
        /\ Loaded[Home[c]][h] >= Threshold
    BY <1>2, <2>1, HintCounts
  <2>3. Loaded[Home[c]][h] \in Nat /\ taught[Home[c]][h] \in Nat
    BY <2>2, <1>2, <1>t, LoadedType DEF TypeOK, Counts
  <2>4. Loaded[Home[c]][h] <= taught[Home[c]][h]
    BY <2>2, <1>2, <1>t, LoadedCounts
  <2> QED BY <1>2, <1>t, <2>1, <2>2, <2>3, <2>4
<1>3. CASE x # c
  BY <1>1, <1>3 DEF TypeOK, Step, Go, End, shared, Ask, TurnAway, Admit, Hit, Miss, Rerun, Enhance,
     Plan, GiveUp, Respond, RunFails, RunSucceeds, RunTeaches, Learn, Reload, Truncate, Dump, Die
<1>4. CASE x = c /\ ~Enhance(c)
  <2>1. CASE Admit(c)
    BY <2>1, <1>4 DEF Admit, Locals
  <2>2. CASE ~Admit(c)
    BY <1>1, <1>4, <2>2 DEF TypeOK, Step, Go, End, shared, Ask, TurnAway, Hit, Miss, Rerun, Plan,
       GiveUp, Respond, RunFails, RunSucceeds, RunTeaches, Learn, Reload, Truncate, Dump, Die
  <2> QED BY <2>1, <2>2
<1> QED BY <1>2, <1>3, <1>4

\* What was earned stays earned: counts of what was taught never go down.
LEMMA EarnedKept ==
  ASSUME TypeOK, Locals, NEW c \in Callers, Step(c),
         NEW s \in Statements \union {None}, Earned(s)
  PROVE  s # None /\ s.from # None =>
            taught'[s.from][s.target] >= Threshold /\ s.target \in Valid[s.schema]
<1> SUFFICES ASSUME s # None, s.from # None
             PROVE  taught'[s.from][s.target] >= Threshold /\ s.target \in Valid[s.schema]
  OBVIOUS
<1>1. s.from \in Dbs /\ s.target \in Targets
  BY DEF Statements
<1>2. /\ taught[s.from][s.target] \in Nat /\ taught'[s.from][s.target] \in Nat
      /\ taught[s.from][s.target] <= taught'[s.from][s.target]
  BY <1>1, TaughtGrows
<1> QED BY <1>2, ParametersAssumption DEF Earned

\* The statement a plan makes of an earned hint.
LEMMA PlanEarned ==
  ASSUME TypeOK, Locals, HintsEarned, NEW c \in Callers, Plan(c)
  PROVE  Earned(sql[c])'
<1>1. PICK t \in Targets :
        sql' = [sql EXCEPT ![c] = [target |-> t, schema |-> schema[c],
                                   from |-> IF hint[c] = t THEN Home[c] ELSE None]]
  BY DEF Plan
<1>2. sql'[c] = [target |-> t, schema |-> schema[c],
                 from |-> IF hint[c] = t THEN Home[c] ELSE None]
  BY <1>1 DEF TypeOK
<1>3. CASE hint[c] = t
  <2>1. taught[Home[c]][t] >= Threshold /\ t \in Valid[schema[c]]
    BY <1>3, ParametersAssumption DEF HintsEarned
  <2>2. /\ sql'[c].from = Home[c] /\ sql'[c].target = t /\ sql'[c].schema = schema[c]
        /\ taught' = taught
    BY <1>2, <1>3 DEF Plan
  <2> QED BY <2>1, <2>2 DEF Earned
<1>4. CASE hint[c] # t
  <2>1. sql'[c].from = None
    BY <1>2, <1>4
  <2> QED BY <2>1 DEF Earned
<1> QED BY <1>3, <1>4

LEMMA StatementsStep ==
  ASSUME TypeOK, Locals, HintsEarned, StatementsEarned, NEW c \in Callers, Step(c)
  PROVE  StatementsEarned'
<1>t. /\ \A x \in Callers : sql[x] \in Statements \union {None}
      /\ \A k \in Questions \X Schemas : cache[k] \in Statements \union {None}
  BY DEF TypeOK
\* A statement that is where it was, or gone.
<1>s. ASSUME NEW x \in Callers, sql'[x] \in {sql[x], None} PROVE Earned(sql[x])'
  <2>1. CASE sql'[x] = None
    BY <2>1 DEF Earned
  <2>2. CASE sql'[x] = sql[x]
    BY <2>2, <1>t, EarnedKept DEF StatementsEarned, Earned
  <2> QED BY <1>s, <2>1, <2>2
<1>c. ASSUME NEW k \in Questions \X Schemas, cache'[k] = cache[k] PROVE Earned(cache[k])'
  BY <1>c, <1>t, EarnedKept DEF StatementsEarned, Earned
<1>1. CASE Hit(c)
  <2>1. Key(c) \in Questions \X Schemas
    BY <1>1, KeyType DEF Hit
  <2>2. sql'[c] = cache[Key(c)] /\ cache' = cache /\ taught' = taught
    BY <1>1 DEF Hit, TypeOK, shared
  <2>3. Earned(sql[c])'
    BY <2>1, <2>2 DEF StatementsEarned, Earned
  <2>4. \A x \in Callers \ {c} : sql'[x] = sql[x]
    BY <1>1 DEF Hit, TypeOK
  <2> QED BY <2>2, <2>3, <2>4, <1>s, <1>c DEF StatementsEarned
<1>2. CASE Plan(c)
  <2>1. cache' = cache /\ \A x \in Callers \ {c} : sql'[x] = sql[x]
    BY <1>2 DEF Plan, TypeOK, shared
  <2> QED BY <1>2, <2>1, <1>s, <1>c, PlanEarned DEF StatementsEarned
<1>3. CASE Respond(c)
  <2>1. Key(c) \in Questions \X Schemas /\ taught' = taught
    BY <1>3, KeyType DEF Respond
  <2>2. \A x \in Callers : sql'[x] \in {sql[x], None}
    BY <1>3 DEF Respond, End, TypeOK
  <2>3. ASSUME NEW k \in Questions \X Schemas PROVE Earned(cache[k])'
    <3>1. cache'[k] = cache[k] \/ cache'[k] = sql[c]
      BY <1>3, <2>1 DEF Respond, Store, TypeOK
    <3>2. CASE cache'[k] = sql[c]
      BY <3>2, <2>1 DEF StatementsEarned, Earned
    <3> QED BY <3>1, <3>2, <1>c
  <2> QED BY <2>2, <2>3, <1>s DEF StatementsEarned
<1>4. CASE ~(Hit(c) \/ Plan(c) \/ Respond(c))
  <2>1. cache' = cache
    BY <1>4 DEF Step, shared, Ask, TurnAway, Admit, Miss, Rerun, Enhance, GiveUp, RunFails,
       RunSucceeds, RunTeaches, Learn, Reload, Truncate, Dump, Die
  <2>2. \A x \in Callers : sql'[x] \in {sql[x], None}
    BY <1>4 DEF TypeOK, Step, End, Ask, TurnAway, Admit, Miss, Rerun, Enhance, GiveUp, RunFails,
       RunSucceeds, RunTeaches, Learn, Reload, Truncate, Dump, Die
  <2> QED BY <2>1, <2>2, <1>s, <1>c DEF StatementsEarned
<1> QED BY <1>1, <1>2, <1>3, <1>4

-----------------------------------------------------------------------------
LEMMA InitIInv == Init => IInv
<1> SUFFICES ASSUME Init PROVE IInv
  OBVIOUS
<1>1. taught \in [Dbs -> Counts]
  <2>1. {m \in [Targets -> 0..Threshold] :
            Cardinality({t \in Targets : m[t] > 0}) <= MaxMappings} \subseteq Counts
    BY ParametersAssumption DEF Counts
  <2> QED BY <2>1 DEF Init
<1>2. TypeOK
  BY <1>1, NothingType, ParametersAssumption DEF Init, TypeOK, Places, Answers
<1>3. /\ Locals /\ CacheFits /\ HeldStaysHeld /\ HitsFitTheSchema
      /\ HintsEarned /\ StatementsEarned
  BY DEF Init, Locals, CacheFits, HeldStaysHeld, HitsFitTheSchema, HintsEarned,
         StatementsEarned, Earned
<1>4. HeldCounts /\ LearnedWhatWasTaught
  <2>1. \A d \in Dbs, t \in Targets : taught[d][t] \in Nat
    BY <1>1 DEF Counts
  <2>2. \A c \in Callers, t \in Targets :
          memory[c][t] = 0 /\ \A d \in Dbs : store[c][d][t] = 0
    BY DEF Init, Nothing, Blank
  <2> QED BY <2>1, <2>2, ParametersAssumption DEF Init, HeldCounts, LearnedWhatWasTaught
<1> QED BY <1>2, <1>3, <1>4 DEF IInv

LEMMA NextIInv == IInv /\ [Next]_vars => IInv'
<1> SUFFICES ASSUME IInv, [Next]_vars PROVE IInv'
  OBVIOUS
<1>1. CASE \E c \in Callers : Step(c)
  BY <1>1, TypeStep, LocalsStep, HeldStep, FitsStep, CountsStep, HintsStep,
     StatementsStep DEF IInv
<1>2. CASE \E d \in Dbs : Ddl(d)
  BY <1>2 DEF IInv, Ddl, TypeOK, Locals, CacheFits, HeldCounts, HeldStaysHeld, HitsFitTheSchema,
              LearnedWhatWasTaught, HintsEarned, StatementsEarned, Earned
<1>3. CASE UNCHANGED vars
  BY <1>3 DEF IInv, vars, TypeOK, Locals, CacheFits, HeldCounts, HeldStaysHeld, HitsFitTheSchema,
              LearnedWhatWasTaught, HintsEarned, StatementsEarned, Earned
<1> QED BY <1>1, <1>2, <1>3 DEF Next

\* The inductive invariant holds in every reachable state.
THEOREM Inductive == Spec => []IInv
  BY InitIInv, NextIInv, PTL DEF Spec

\* Every variable keeps its type.
THEOREM TypeCorrect == Spec => []TypeOK
<1>1. IInv => TypeOK
  BY DEF IInv
<1> QED BY <1>1, Inductive, PTL

\* A statement runs unasked only for a caller and a question that allow it,
\* from the pipeline or from the cache all callers share.
THEOREM StatementsStayHeld == Spec => []HeldStaysHeld
<1>1. IInv => HeldStaysHeld
  BY DEF IInv
<1> QED BY <1>1, Inductive, PTL

\* A statement fits the schema its request compared, whatever DDL ran since.
THEOREM StatementsFit == Spec => []HitsFitTheSchema
<1>1. IInv => HitsFitTheSchema
  BY DEF IInv
<1> QED BY <1>1, Inductive, PTL

\* No crash, torn read or lost update makes the memory claim more uses than
\* successful queries counted.
THEOREM MemoryIsHonest == Spec => []LearnedWhatWasTaught
<1>1. IInv => LearnedWhatWasTaught
  BY DEF IInv
<1> QED BY <1>1, Inductive, PTL

\* A mapping is applied only once its own database counted enough uses of it,
\* and what it chose stays earned in the cache, whatever is killed, torn or
\* altered.
THEOREM HintsAreEarned == Spec => []AppliedAfterEnoughUses
<1>1. IInv => AppliedAfterEnoughUses
  BY DEF IInv, HintsEarned, StatementsEarned, AppliedAfterEnoughUses
<1> QED BY <1>1, Inductive, PTL
=============================================================================
