------------------------- MODULE ExecuteFlow_proof -------------------------
(***************************************************************************)
(* Proofs about ExecuteFlow for any number of executes, plans, users,      *)
(* connections and statements: a plan runs once, where and by whom it was  *)
(* reviewed, and the answers tell what the customer's database kept.       *)
(***************************************************************************)
EXTENDS ExecuteFlow, FiniteSetTheorems, TLAPS

(* The token side of the inductive invariant: a minted plan was reviewed,  *)
(* SQL is only chosen after the target, and the SQL an execute carries was *)
(* reviewed for it or may be written by hand.                              *)
Carried(e) ==
    /\ pc[e] \in {"idle", "resolved"} => sql[e] = Nothing
    /\ sql[e] \in Plans =>
          /\ UserOf[sql[e]] = By[e]
          /\ expires[sql[e]] > 0
          /\ Context(reviewed[sql[e]]) = Context(target[e])
    /\ sql[e] \in Raw => MayRun(e, sql[e])

TokenInv ==
    /\ \A p \in Plans : expires[p] > 0 => reviewed[p] # Nowhere
    /\ \A e \in Executes : Carried(e)
    /\ RunsOnce /\ SpentByRunning

(* The database side: nothing is kept before the session is open, autocommit *)
(* keeps each statement and its absence none before the commit.              *)
Started == {"open", "failed", "committed", "closed", "200", "500", "crashed"}
Working == {"authorised", "slot", "open", "failed", "committed", "closed", "200"}

Effect(e) ==
    /\ pc[e] \in Working => sql[e] \in Sql
    /\ pc[e] \notin Started => step[e] = 0 /\ applied[e] = 0
    /\ pc[e] = "open" => applied[e] = IF auto[e] THEN step[e] ELSE 0
    /\ pc[e] \in {"committed", "closed", "200"} /\ sql[e] \notin Selects =>
          applied[e] = Length[sql[e]]
    /\ e \in audited => pc[e] = "200"
    /\ applied[e] > 0 => sql[e] \in Sql /\ applied[e] <= Length[sql[e]]

EffectInv == \A e \in Executes : Effect(e)

LEMMA InitTyped == Init => TypeOK
BY ExecuteAssumption DEF Init, TypeOK, Places, Connected, Answers

(* Where an execute that carries no SQL yet stands in the database: nowhere. *)
LEMMA Fresh0 ==
  ASSUME TypeOK, EffectInv, NEW e \in Executes, pc[e] = "resolved"
  PROVE  step[e] = 0 /\ applied[e] = 0
BY DEF EffectInv, Effect, Started

LEMMA NextTyped == TypeOK /\ EffectInv /\ [Next]_vars => TypeOK'
<1> SUFFICES ASSUME TypeOK, EffectInv, [Next]_vars PROVE TypeOK'
  OBVIOUS
<1> USE ExecuteAssumption DEF TypeOK, Places, Connected, Answers, Goto, At
<1>1. ASSUME NEW p \in Plans, Review(p) PROVE TypeOK'
  BY <1>1 DEF Review, work
<1>2. ASSUME NEW p \in Plans, Mint(p) PROVE TypeOK'
  BY <1>2 DEF Mint, work
<1>3. ASSUME NEW c \in Connections, Edit(c) PROVE TypeOK'
  BY <1>3 DEF Edit, tokens, work
<1>4. ASSUME NEW e \in Executes, NEW p \in Plans, Redeem(e, p) PROVE TypeOK'
  BY <1>4, Fresh0 DEF Redeem, work, Sql
<1>5. ASSUME NEW e \in Executes, NEW p \in Plans, Refuse(e, p) PROVE TypeOK'
  BY <1>5 DEF Refuse, tokens, work
<1>6. ASSUME NEW e \in Executes, NEW s \in Raw, RawSql(e, s) PROVE TypeOK'
  BY <1>6, Fresh0 DEF RawSql, tokens, work, Sql
<1>7. ASSUME NEW e \in Executes, Resolve(e) PROVE TypeOK'
  BY <1>7 DEF Resolve, tokens, work
<1>8. ASSUME NEW e \in Executes, Empty(e) \/ Admit(e) \/ Busy(e) \/ ConnectFails(e) PROVE TypeOK'
  BY <1>8 DEF Empty, Admit, Busy, ConnectFails, tokens, work
<1>9. ASSUME NEW e \in Executes, Connect(e) PROVE TypeOK'
  BY <1>9 DEF Connect, tokens
<1>10. ASSUME NEW e \in Executes, Run(e) PROVE TypeOK'
  <2>1. sql[e] \in Sql
    BY <1>10 DEF Run, EffectInv, Effect, Working
  <2>2. Length[sql[e]] \in Nat
    BY <2>1
  <2>3. step[e] + 1 <= Length[sql[e]]
    BY <1>10, <2>2 DEF Run, Left
  <2> QED BY <1>10, <2>3 DEF Run, tokens
<1>11. ASSUME NEW e \in Executes, RunFails(e) PROVE TypeOK'
  BY <1>11 DEF RunFails, tokens
<1>12. ASSUME NEW e \in Executes, Commit(e) \/ CommitFails(e) PROVE TypeOK'
  <2>1. sql[e] \in Sql
    BY <1>12 DEF Commit, CommitFails, EffectInv, Effect, Working
  <2>2. Length[sql[e]] \in Nat /\ applied[e] \in Nat /\ Committed(e) \in Nat
    BY <2>1 DEF Committed
  <2>3. CASE Commit(e)
    BY <2>2, <2>3 DEF Commit, tokens
  <2>4. CASE CommitFails(e)
    BY <2>2, <2>4 DEF CommitFails, tokens
  <2> QED BY <1>12, <2>3, <2>4
<1>13. ASSUME NEW e \in Executes, Close(e) \/ Crash(e) PROVE TypeOK'
  BY <1>13 DEF Close, Crash, tokens, work
<1>14. ASSUME NEW e \in Executes, Audit(e) PROVE TypeOK'
  BY <1>14 DEF Audit, tokens
<1>15. CASE Tick
  BY <1>15 DEF Tick, tokens, work
<1>16. CASE UNCHANGED vars
  BY <1>16 DEF vars, tokens, work
<1> QED
  BY <1>1, <1>2, <1>3, <1>4, <1>5, <1>6, <1>7, <1>8, <1>9, <1>10, <1>11, <1>12, <1>13,
     <1>14, <1>15, <1>16 DEF Next

-----------------------------------------------------------------------------
(* A step that leaves an execute where it is leaves its effect alone.        *)
LEMMA EffectKept ==
  ASSUME NEW e \in Executes, Effect(e), pc'[e] = pc[e], sql'[e] = sql[e], auto'[e] = auto[e],
         step'[e] = step[e], applied'[e] = applied[e], e \in audited' <=> e \in audited
  PROVE  Effect(e)'
BY DEF Effect, Started, Working

LEMMA NextEffect == TypeOK /\ EffectInv /\ [Next]_vars => EffectInv'
<1> SUFFICES ASSUME TypeOK, EffectInv, [Next]_vars, NEW d \in Executes PROVE Effect(d)'
  BY DEF EffectInv
<1>0. Effect(d)
  BY DEF EffectInv
<1>t. /\ pc[d] \in Places \union Answers /\ sql[d] \in Sql \union {Nothing}
      /\ auto[d] \in BOOLEAN /\ step[d] \in Nat /\ applied[d] \in Nat
      /\ sql[d] \in Sql => Length[sql[d]] \in Nat /\ step[d] <= Length[sql[d]]
  BY ExecuteAssumption DEF TypeOK
<1>k. pc'[d] = pc[d] /\ sql'[d] = sql[d] /\ auto'[d] = auto[d] /\ step'[d] = step[d]
        /\ applied'[d] = applied[d] /\ (d \in audited' <=> d \in audited) => Effect(d)'
  BY <1>0, EffectKept
<1>1. CASE \E p \in Plans : Review(p) \/ Mint(p)
  BY <1>1, <1>k DEF Review, Mint, work
<1>2. CASE (\E c \in Connections : Edit(c)) \/ Tick
  BY <1>2, <1>k DEF Edit, Tick, tokens, work
<1>3. CASE UNCHANGED vars
  BY <1>3, <1>k DEF vars, work
<1>4. ASSUME NEW e \in Executes, NEW p \in Plans, Redeem(e, p) PROVE Effect(d)'
  <2>1. CASE e = d
    BY <1>4, <1>0, <1>t, <2>1 DEF TypeOK, Redeem, Effect, Started, Working, work, Goto, At, Sql
  <2>2. CASE e # d
    BY <1>4, <1>k, <2>2 DEF TypeOK, Redeem, work, Goto
  <2> QED BY <2>1, <2>2
<1>5. ASSUME NEW e \in Executes, NEW p \in Plans, Refuse(e, p) PROVE Effect(d)'
  <2>1. CASE e = d
    BY <1>5, <1>0, <1>t, <2>1 DEF TypeOK, Refuse, Effect, Started, Working, tokens, work, Goto, At
  <2>2. CASE e # d
    BY <1>5, <1>k, <2>2 DEF TypeOK, Refuse, tokens, work, Goto
  <2> QED BY <2>1, <2>2
<1>6. ASSUME NEW e \in Executes, NEW s \in Raw, RawSql(e, s) PROVE Effect(d)'
  <2>1. CASE e = d
    BY <1>6, <1>0, <1>t, <2>1 DEF TypeOK, RawSql, Effect, Started, Working, tokens, work, Goto, At, Sql
  <2>2. CASE e # d
    BY <1>6, <1>k, <2>2 DEF TypeOK, RawSql, tokens, work, Goto
  <2> QED BY <2>1, <2>2
<1>7. ASSUME NEW e \in Executes, Resolve(e) PROVE Effect(d)'
  <2>1. CASE e = d
    BY <1>7, <1>0, <1>t, <2>1 DEF TypeOK, Resolve, Effect, Started, Working, tokens, work, Goto, At
  <2>2. CASE e # d
    BY <1>7, <1>k, <2>2 DEF TypeOK, Resolve, tokens, work, Goto
  <2> QED BY <2>1, <2>2
<1>8. ASSUME NEW e \in Executes, Empty(e) \/ Admit(e) \/ Busy(e) \/ ConnectFails(e)
      PROVE  Effect(d)'
  <2>1. CASE e = d
    BY <1>8, <1>0, <1>t, <2>1
       DEF TypeOK, Empty, Admit, Busy, ConnectFails, Effect, Started, Working, tokens, work, Goto, At
  <2>2. CASE e # d
    BY <1>8, <1>k, <2>2 DEF TypeOK, Empty, Admit, Busy, ConnectFails, tokens, work, Goto
  <2> QED BY <2>1, <2>2
<1>9. ASSUME NEW e \in Executes, Connect(e) PROVE Effect(d)'
  <2>1. CASE e = d
    BY <1>9, <1>0, <1>t, <2>1 DEF TypeOK, Connect, Effect, Started, Working, tokens, Goto, At
  <2>2. CASE e # d
    BY <1>9, <1>k, <2>2 DEF TypeOK, Connect, tokens, Goto
  <2> QED BY <2>1, <2>2
<1>10. ASSUME NEW e \in Executes, Run(e) PROVE Effect(d)'
  <2>1. CASE e = d
    BY <1>10, <1>0, <1>t, <2>1 DEF TypeOK, Run, Effect, Started, Working, tokens, Goto, At, Left
  <2>2. CASE e # d
    BY <1>10, <1>k, <2>2 DEF TypeOK, Run, tokens, Goto
  <2> QED BY <2>1, <2>2
<1>11. ASSUME NEW e \in Executes, RunFails(e) PROVE Effect(d)'
  <2>1. CASE e = d
    BY <1>11, <1>0, <1>t, <2>1 DEF TypeOK, RunFails, Effect, Started, Working, tokens, Goto, At, Left
  <2>2. CASE e # d
    BY <1>11, <1>k, <2>2 DEF TypeOK, RunFails, tokens, Goto
  <2> QED BY <2>1, <2>2
<1>12. ASSUME NEW e \in Executes, Commit(e) PROVE Effect(d)'
  <2>1. CASE e = d
    BY <1>12, <1>0, <1>t, <2>1 DEF TypeOK, Commit, Committed, Effect, Started, Working, tokens, Goto, At
  <2>2. CASE e # d
    BY <1>12, <1>k, <2>2 DEF TypeOK, Commit, tokens, Goto
  <2> QED BY <2>1, <2>2
<1>13. ASSUME NEW e \in Executes, CommitFails(e) PROVE Effect(d)'
  <2>1. CASE e = d
    BY <1>13, <1>0, <1>t, <2>1 DEF TypeOK, CommitFails, Committed, Effect, Started, Working, tokens, Goto, At
  <2>2. CASE e # d
    BY <1>13, <1>k, <2>2 DEF TypeOK, CommitFails, tokens, Goto
  <2> QED BY <2>1, <2>2
<1>14. ASSUME NEW e \in Executes, Close(e) \/ Crash(e) PROVE Effect(d)'
  <2>1. CASE e = d
    BY <1>14, <1>0, <1>t, <2>1
       DEF TypeOK, Close, Crash, Places, Connected, Effect, Started, Working, tokens, work, Goto, At
  <2>2. CASE e # d
    BY <1>14, <1>k, <2>2 DEF TypeOK, Close, Crash, tokens, work, Goto
  <2> QED BY <2>1, <2>2
<1>15. ASSUME NEW e \in Executes, Audit(e) PROVE Effect(d)'
  <2>1. CASE e = d
    BY <1>15, <1>0, <1>t, <2>1 DEF TypeOK, Audit, Effect, Started, Working, tokens, Goto, At
  <2>2. CASE e # d
    BY <1>15, <1>k, <2>2 DEF TypeOK, Audit, tokens, Goto
  <2> QED BY <2>1, <2>2
<1> QED
  BY <1>1, <1>2, <1>3, <1>4, <1>5, <1>6, <1>7, <1>8, <1>9, <1>10, <1>11, <1>12, <1>13,
     <1>14, <1>15 DEF Next

-----------------------------------------------------------------------------
(* An execute keeps what it carries while its SQL and target stay, it does   *)
(* not go back before its choice, and the plan's row stays.                  *)
LEMMA CarriedKept ==
  ASSUME NEW e \in Executes, Carried(e), sql'[e] = sql[e], target'[e] = target[e],
         pc'[e] \in {"idle", "resolved"} => pc[e] \in {"idle", "resolved"},
         sql[e] \in Plans => expires'[sql[e]] = expires[sql[e]] /\ reviewed'[sql[e]] = reviewed[sql[e]]
  PROVE  Carried(e)'
BY DEF Carried, MayRun, Context

(* Steps that touch no token, no SQL and no target.                          *)
LEMMA TokensKept ==
  ASSUME TypeOK, TokenInv, UNCHANGED <<tokens, sql, target>>,
         \A e \in Executes : pc'[e] \in {"idle", "resolved"} => pc[e] \in {"idle", "resolved"}
  PROVE  TokenInv'
<1>1. \A e \in Executes : Carried(e)'
  BY CarriedKept DEF TokenInv, tokens
<1>2. RunsOnce' /\ SpentByRunning'
  BY DEF TokenInv, RunsOnce, SpentByRunning, tokens
<1> QED
  BY <1>1, <1>2 DEF TokenInv, tokens

LEMMA NextToken == TypeOK /\ TokenInv /\ [Next]_vars => TokenInv'
<1> SUFFICES ASSUME TypeOK, TokenInv, [Next]_vars PROVE TokenInv'
  OBVIOUS
<1>0. \A e \in Executes : Carried(e)
  BY DEF TokenInv
<1>1. ASSUME NEW p \in Plans, Review(p) PROVE TokenInv'
  <2>1. expires[p] = 0
    BY <1>1 DEF Review, TokenInv, TypeOK
  <2>2. \A e \in Executes : sql[e] # p
    BY <1>0, <2>1 DEF Carried
  <2>3. \A q \in Plans \ {p} : reviewed'[q] = reviewed[q]
    BY <1>1 DEF Review, TypeOK
  <2>4. \A e \in Executes : Carried(e)'
    <3> SUFFICES ASSUME NEW e \in Executes PROVE Carried(e)'
      OBVIOUS
    <3> QED BY <1>0, <1>1, <2>2, <2>3, CarriedKept DEF Review
  <2>5. \A q \in Plans : expires'[q] > 0 => reviewed'[q] # Nowhere
    BY <1>1, <2>1, <2>3 DEF Review, TokenInv
  <2>6. RunsOnce' /\ SpentByRunning'
    BY <1>1 DEF Review, TokenInv, RunsOnce, SpentByRunning
  <2> QED BY <2>4, <2>5, <2>6 DEF TokenInv
<1>2. ASSUME NEW p \in Plans, Mint(p) PROVE TokenInv'
  <2>2. \A e \in Executes : sql[e] # p
    BY <1>0, <1>2 DEF Carried, Mint
  <2>3. \A q \in Plans \ {p} : expires'[q] = expires[q]
    BY <1>2 DEF Mint, TypeOK
  <2>4. \A e \in Executes : Carried(e)'
    <3> SUFFICES ASSUME NEW e \in Executes PROVE Carried(e)'
      OBVIOUS
    <3> QED BY <1>0, <1>2, <2>2, <2>3, CarriedKept DEF Mint
  <2>5. \A q \in Plans : expires'[q] > 0 => reviewed'[q] # Nowhere
    BY <1>2, <2>3 DEF Mint, TokenInv
  <2>6. RunsOnce' /\ SpentByRunning'
    BY <1>2 DEF Mint, TokenInv, RunsOnce, SpentByRunning
  <2> QED BY <2>4, <2>5, <2>6 DEF TokenInv
<1>3. CASE (\E c \in Connections : Edit(c)) \/ Tick
  BY <1>3, TokensKept DEF Edit, Tick
<1>4. ASSUME NEW e \in Executes, NEW p \in Plans, Redeem(e, p) PROVE TokenInv'
  <2>1. /\ sql'[e] = p /\ pc'[e] = "authorised" /\ sql[e] = Nothing
        /\ \A d \in Executes \ {e} : sql'[d] = sql[d] /\ pc'[d] = pc[d]
    BY <1>0, <1>4 DEF Redeem, Goto, At, TypeOK, Carried
  <2>2. \A d \in Executes : sql[d] # p
    BY <1>4 DEF Redeem, Valid, Fresh, TokenInv, SpentByRunning
  <2>3. \A d \in Executes : Carried(d)'
    <3>1. Carried(e)'
      BY <1>4, <2>1, ExecuteAssumption
         DEF Redeem, Valid, Unknown, Elsewhere, Carried, TypeOK, Context
    <3>2. ASSUME NEW d \in Executes \ {e} PROVE Carried(d)'
      BY <1>0, <1>4, <2>1, <3>2, CarriedKept DEF Redeem
    <3> QED BY <3>1, <3>2
  <2>4. RunsOnce'
    BY <2>1, <2>2 DEF TokenInv, RunsOnce
  <2>5. SpentByRunning'
    <3>1. Nothing \notin Plans
      BY ExecuteAssumption DEF Sql
    <3> QED BY <1>4, <2>1, <3>1 DEF Redeem, TokenInv, SpentByRunning
  <2> QED BY <1>4, <2>3, <2>4, <2>5 DEF Redeem, TokenInv
<1>5. ASSUME NEW e \in Executes, NEW p \in Plans, Refuse(e, p) PROVE TokenInv'
  BY <1>5, TokensKept DEF Refuse, Goto, TypeOK
<1>6. ASSUME NEW e \in Executes, NEW s \in Raw, RawSql(e, s) PROVE TokenInv'
  <2>1. CASE UNCHANGED sql
    BY <1>6, <2>1, TokensKept DEF RawSql, Goto, At, TypeOK
  <2>2. CASE MayRun(e, s) /\ sql' = [sql EXCEPT ![e] = s] /\ Goto(e, "authorised")
    <3>1. /\ sql'[e] = s /\ pc'[e] = "authorised" /\ sql[e] = Nothing
          /\ s \notin Plans /\ Nothing \notin Plans
          /\ \A d \in Executes \ {e} : sql'[d] = sql[d] /\ pc'[d] = pc[d]
      BY <1>0, <1>6, <2>2, ExecuteAssumption DEF RawSql, Goto, At, TypeOK, Carried, Sql
    <3>2. \A d \in Executes : Carried(d)'
      <4>1. Carried(e)'
        BY <2>2, <3>1 DEF Carried, MayRun
      <4>2. ASSUME NEW d \in Executes \ {e} PROVE Carried(d)'
        BY <1>0, <1>6, <3>1, <4>2, CarriedKept DEF RawSql, tokens
      <4> QED BY <4>1, <4>2
    <3>3. RunsOnce' /\ SpentByRunning'
      BY <1>6, <3>1 DEF RawSql, tokens, TokenInv, RunsOnce, SpentByRunning
    <3> QED BY <1>6, <3>2, <3>3 DEF RawSql, tokens, TokenInv
  <2> QED BY <1>6, <2>1, <2>2 DEF RawSql
<1>7. ASSUME NEW e \in Executes, Resolve(e) PROVE TokenInv'
  <2>1. sql[e] = Nothing /\ Nothing \notin Plans /\ Nothing \notin Raw
    BY <1>0, <1>7, ExecuteAssumption DEF Resolve, At, Carried, Sql
  <2>2. \A d \in Executes \ {e} : target'[d] = target[d] /\ pc'[d] = pc[d]
    BY <1>7 DEF Resolve, Goto, TypeOK
  <2>3. \A d \in Executes : Carried(d)'
    <3>1. Carried(e)'
      BY <1>7, <2>1 DEF Resolve, Carried
    <3>2. ASSUME NEW d \in Executes \ {e} PROVE Carried(d)'
      BY <1>0, <1>7, <2>2, <3>2, CarriedKept DEF Resolve, tokens
    <3> QED BY <3>1, <3>2
  <2>4. RunsOnce' /\ SpentByRunning'
    BY <1>7 DEF Resolve, tokens, TokenInv, RunsOnce, SpentByRunning
  <2> QED BY <1>7, <2>3, <2>4 DEF Resolve, tokens, TokenInv
<1>8. ASSUME NEW e \in Executes, Empty(e) \/ Admit(e) \/ Busy(e) \/ ConnectFails(e) \/ Connect(e)
      PROVE  TokenInv'
  BY <1>8, TokensKept DEF Empty, Admit, Busy, ConnectFails, Connect, Goto, TypeOK
<1>9. ASSUME NEW e \in Executes, Run(e) \/ RunFails(e) \/ Commit(e) \/ CommitFails(e)
      PROVE  TokenInv'
  BY <1>9, TokensKept DEF Run, RunFails, Commit, CommitFails, Goto, TypeOK
<1>10. ASSUME NEW e \in Executes, Close(e) \/ Audit(e) \/ Crash(e) PROVE TokenInv'
  BY <1>10, TokensKept DEF Close, Audit, Crash, Goto, TypeOK
<1>11. CASE UNCHANGED vars
  BY <1>11, TokensKept DEF vars
<1> QED
  BY <1>1, <1>2, <1>3, <1>4, <1>5, <1>6, <1>7, <1>8, <1>9, <1>10, <1>11 DEF Next

-----------------------------------------------------------------------------
(* The slots: a database is given no more of them than the ceiling.          *)
HoldingInv == \A t \in Targets : Cardinality(Holding(t.database)) <= Ceiling

(* Who holds a slot of a database holds it still, except whom a step admits. *)
LEMMA HoldingKept ==
  ASSUME TypeOK, HoldingInv, NEW t \in Targets, Holding(t.database)' \subseteq Holding(t.database)
  PROVE  Cardinality(Holding(t.database)') <= Ceiling
<1>1. IsFiniteSet(Holding(t.database))
  BY ExecuteAssumption, FS_Subset DEF Holding
<1>2. Cardinality(Holding(t.database)') <= Cardinality(Holding(t.database))
  BY <1>1, FS_Subset
<1>3. IsFiniteSet(Holding(t.database)')
  BY <1>1, FS_Subset
<1> QED
  BY <1>1, <1>2, <1>3, FS_CardinalityType, ExecuteAssumption DEF HoldingInv

LEMMA NextHolding == TypeOK /\ HoldingInv /\ [Next]_vars => HoldingInv'
<1> SUFFICES ASSUME TypeOK, HoldingInv, [Next]_vars, NEW t \in Targets
    PROVE  Cardinality(Holding(t.database)') <= Ceiling
  BY DEF HoldingInv
<1> DEFINE Slots == {"slot", "open", "failed", "committed"}
<1>0. \A d : Holding(d) = {e \in Executes : pc[e] \in Slots /\ target[e].database = d}
  BY DEF Holding, Connected
<1>p. \A d : Holding(d)' = {e \in Executes : pc'[e] \in Slots /\ target'[e].database = d}
  BY DEF Holding, Connected
<1> HIDE DEF Slots
<1>k. (\A e \in Executes : pc'[e] \in Slots => pc[e] \in Slots /\ target'[e] = target[e])
        => Cardinality(Holding(t.database)') <= Ceiling
  BY <1>0, <1>p, HoldingKept
<1> USE DEF Slots
<1>1. CASE \E p \in Plans : Review(p) \/ Mint(p)
  BY <1>1, <1>k DEF Review, Mint
<1>2. CASE (\E c \in Connections : Edit(c)) \/ Tick
  BY <1>2, <1>k DEF Edit, Tick
<1>3. ASSUME NEW e \in Executes, NEW p \in Plans, Redeem(e, p) \/ Refuse(e, p)
      PROVE  Cardinality(Holding(t.database)') <= Ceiling
  BY <1>3, <1>k DEF Redeem, Refuse, Goto, TypeOK
<1>4. ASSUME NEW e \in Executes, NEW s \in Raw, RawSql(e, s)
      PROVE  Cardinality(Holding(t.database)') <= Ceiling
  BY <1>4, <1>k DEF RawSql, Goto, TypeOK
<1>5. ASSUME NEW e \in Executes, Resolve(e)
      PROVE  Cardinality(Holding(t.database)') <= Ceiling
  BY <1>5, <1>k DEF Resolve, Goto, At, TypeOK
<1>6. ASSUME NEW e \in Executes, Admit(e)
      PROVE  Cardinality(Holding(t.database)') <= Ceiling
  <2>1. CASE target[e].database = t.database
    <3>1. Holding(t.database)' = Holding(t.database) \union {e}
      BY <1>6, <1>0, <1>p, <2>1 DEF Admit, Goto, At, TypeOK
    <3>2. IsFiniteSet(Holding(t.database)) /\ e \notin Holding(t.database)
      BY <1>6, <1>0, ExecuteAssumption, FS_Subset DEF Admit, At
    <3>3. Cardinality(Holding(t.database)') = Cardinality(Holding(t.database)) + 1
      BY <3>1, <3>2, FS_AddElement
    <3> QED BY <1>6, <2>1, <3>2, <3>3, FS_CardinalityType, ExecuteAssumption DEF Admit
  <2>2. CASE target[e].database # t.database
    <3>1. Holding(t.database)' \subseteq Holding(t.database)
      BY <1>6, <1>0, <1>p, <2>2 DEF Admit, Goto, TypeOK
    <3> QED BY <3>1, HoldingKept
  <2> QED BY <2>1, <2>2
<1>7. ASSUME NEW e \in Executes, Empty(e) \/ Busy(e) \/ ConnectFails(e) \/ Connect(e)
      PROVE  Cardinality(Holding(t.database)') <= Ceiling
  BY <1>7, <1>k DEF Empty, Busy, ConnectFails, Connect, Goto, At, TypeOK
<1>8. ASSUME NEW e \in Executes, Run(e) \/ RunFails(e) \/ Commit(e) \/ CommitFails(e)
      PROVE  Cardinality(Holding(t.database)') <= Ceiling
  BY <1>8, <1>k DEF Run, RunFails, Commit, CommitFails, Goto, At, TypeOK
<1>9. ASSUME NEW e \in Executes, Close(e) \/ Audit(e) \/ Crash(e)
      PROVE  Cardinality(Holding(t.database)') <= Ceiling
  BY <1>9, <1>k DEF Close, Audit, Crash, Goto, At, TypeOK
<1>10. CASE UNCHANGED vars
  BY <1>10, <1>k DEF vars
<1> QED
  BY <1>1, <1>2, <1>3, <1>4, <1>5, <1>6, <1>7, <1>8, <1>9, <1>10 DEF Next

-----------------------------------------------------------------------------
Inv == TypeOK /\ TokenInv /\ EffectInv /\ HoldingInv

LEMMA InitInv == Init => Inv
<1> SUFFICES ASSUME Init PROVE Inv
  OBVIOUS
<1>1. TokenInv
  BY ExecuteAssumption
     DEF Init, TokenInv, Carried, RunsOnce, SpentByRunning, Sql
<1>2. EffectInv
  BY DEF Init, EffectInv, Effect, Started, Working
<1>3. HoldingInv
  <2>1. \A d : Holding(d) = {}
    BY DEF Init, Holding, Connected
  <2> QED BY <2>1, FS_EmptySet, ExecuteAssumption DEF HoldingInv
<1> QED
  BY <1>1, <1>2, <1>3, InitTyped DEF Inv

THEOREM Invariant == Spec => []Inv
<1>1. Init => Inv
  BY InitInv
<1>2. Inv /\ [Next]_vars => Inv'
  BY NextTyped, NextEffect, NextToken, NextHolding DEF Inv
<1> QED
  BY <1>1, <1>2, PTL DEF Spec

(* Type correctness: main.py and execution_tokens.py keep their rows and     *)
(* requests well formed, and no statement is run twice or past the last.     *)
THEOREM Typing == Spec => []TypeOK
BY Invariant, PTL DEF Inv

(* redeem: no two executes ever carry the plan of one token, over all        *)
(* workers, retries and crashes.                                             *)
THEOREM RunsAtMostOnce == Spec => []RunsOnce
<1>1. Inv => RunsOnce
  BY DEF Inv, TokenInv
<1> QED
  BY <1>1, Invariant, PTL

(* redeem: only the execute that runs the plan consumes the token.           *)
THEOREM NotBurned == Spec => []SpentByRunning
<1>1. Inv => SpentByRunning
  BY DEF Inv, TokenInv
<1> QED
  BY <1>1, Invariant, PTL

(* _resolve_execute_sql: what the classifier calls a write and a customer's  *)
(* database keeps was reviewed by the caller for that database and login, or *)
(* the caller may write by hand.  Nothing is said of what it calls a read.   *)
THEOREM ReviewedWrites == Spec => []WritesAreReviewed
<1>1. Inv => WritesAreReviewed
  <2> SUFFICES ASSUME Inv, NEW e \in Executes, applied[e] > 0, sql[e] \notin Reads
      PROVE  ReviewedThere(e) \/ e \in Manual
    BY DEF WritesAreReviewed
  <2>1. sql[e] \in Plans \/ sql[e] \in Raw
    BY DEF Inv, EffectInv, Effect, Sql
  <2>2. Carried(e)
    BY DEF Inv, TokenInv
  <2> QED BY <2>1, <2>2 DEF Carried, MayRun, ReviewedThere
<1> QED
  BY <1>1, Invariant, PTL

(* execute and execute_query: a 200 and an audit row of what runs as a write *)
(* mean that every statement is kept, a refusal, a 502 and a 503 that none   *)
(* is.                                                                       *)
THEOREM Answered == Spec => []AnswersTellTheEffect
<1>1. Inv => AnswersTellTheEffect
  BY DEF Inv, TypeOK, EffectInv, Effect, Started, AnswersTellTheEffect, Answers
<1> QED
  BY <1>1, Invariant, PTL

(* Sessions live inside slots, and of those there are no more than the ceiling. *)
LEMMA SessionsInSlots ==
  ASSUME HoldingInv, NEW t \in Targets
  PROVE  Cardinality(Sessions(t.database)) <= Ceiling
<1>1. IsFiniteSet(Holding(t.database)) /\ Sessions(t.database) \subseteq Holding(t.database)
  BY ExecuteAssumption, FS_Subset DEF Holding, Sessions
<1>2. /\ IsFiniteSet(Sessions(t.database))
      /\ Cardinality(Sessions(t.database)) <= Cardinality(Holding(t.database))
  BY <1>1, FS_Subset
<1> QED BY <1>1, <1>2, FS_CardinalityType, ExecuteAssumption DEF HoldingInv

(* execute: sessions live inside slots, so a database never has more of them *)
(* than the ceiling.                                                         *)
THEOREM Capped == Spec => []SessionsCapped
<1>1. Inv => SessionsCapped
  <2> SUFFICES ASSUME Inv, NEW t \in Targets
      PROVE  Cardinality(Sessions(t.database)) <= Ceiling
    BY DEF SessionsCapped
  <2> QED BY SessionsInSlots DEF Inv
<1> QED
  BY <1>1, Invariant, PTL
-----------------------------------------------------------------------------
(* Refinement: the sessions on each database implement the abstract ceiling.  *)

(* Sessions are opened by Connect alone, and inside a slot.                  *)
LEMMA OnlyConnectOpens ==
  ASSUME TypeOK, [Next]_vars, NEW d
  PROVE  \/ Sessions(d)' \subseteq Sessions(d)
         \/ \E e \in Executes : e \notin Sessions(d) /\ Sessions(d)' = Sessions(d) \union {e}
<1> DEFINE Open == {"open", "failed", "committed"}
<1>0. /\ Sessions(d) = {e \in Executes : pc[e] \in Open /\ target[e].database = d}
      /\ Sessions(d)' = {e \in Executes : pc'[e] \in Open /\ target'[e].database = d}
  BY DEF Sessions, Connected
<1> HIDE DEF Open
<1>k. (\A e \in Executes : pc'[e] \in Open => pc[e] \in Open /\ target'[e] = target[e])
        => Sessions(d)' \subseteq Sessions(d)
  BY <1>0
<1> USE DEF Open
<1>1. CASE (\E p \in Plans : Review(p) \/ Mint(p)) \/ (\E c \in Connections : Edit(c)) \/ Tick
  BY <1>1, <1>k DEF Review, Mint, Edit, Tick
<1>2. ASSUME NEW e \in Executes, NEW p \in Plans, Redeem(e, p) \/ Refuse(e, p)
      PROVE  Sessions(d)' \subseteq Sessions(d)
  BY <1>2, <1>k DEF Redeem, Refuse, Goto, TypeOK
<1>3. ASSUME NEW e \in Executes, NEW s \in Raw, RawSql(e, s)
      PROVE  Sessions(d)' \subseteq Sessions(d)
  BY <1>3, <1>k DEF RawSql, Goto, TypeOK
<1>4. ASSUME NEW e \in Executes, Resolve(e) PROVE Sessions(d)' \subseteq Sessions(d)
  BY <1>4, <1>k DEF Resolve, Goto, At, TypeOK
<1>5. ASSUME NEW e \in Executes, Connect(e)
      PROVE  \/ Sessions(d)' \subseteq Sessions(d)
             \/ e \notin Sessions(d) /\ Sessions(d)' = Sessions(d) \union {e}
  <2>1. e \notin Sessions(d)
    BY <1>5, <1>0 DEF Connect, At
  <2>2. CASE target[e].database = d
    BY <1>5, <1>0, <2>1, <2>2 DEF Connect, Goto, TypeOK
  <2>3. CASE target[e].database # d
    BY <1>5, <1>0, <2>3 DEF Connect, Goto, TypeOK
  <2> QED BY <2>1, <2>2, <2>3
<1>6. ASSUME NEW e \in Executes, Empty(e) \/ Admit(e) \/ Busy(e) \/ ConnectFails(e)
      PROVE  Sessions(d)' \subseteq Sessions(d)
  BY <1>6, <1>k DEF Empty, Admit, Busy, ConnectFails, Goto, TypeOK
<1>7. ASSUME NEW e \in Executes, Run(e) \/ RunFails(e) \/ Commit(e) \/ CommitFails(e)
      PROVE  Sessions(d)' \subseteq Sessions(d)
  BY <1>7, <1>k DEF Run, RunFails, Commit, CommitFails, Goto, At, TypeOK
<1>8. ASSUME NEW e \in Executes, Close(e) \/ Audit(e) \/ Crash(e)
      PROVE  Sessions(d)' \subseteq Sessions(d)
  BY <1>8, <1>k DEF Close, Audit, Crash, Goto, At, TypeOK
<1>9. CASE UNCHANGED vars
  BY <1>9, <1>k DEF vars
<1> QED
  BY <1>1, <1>2, <1>3, <1>4, <1>5, <1>6, <1>7, <1>8, <1>9 DEF Next

LEMMA StepOnDatabase ==
  ASSUME TypeOK, [Next]_vars, SessionsCapped', NEW t \in Targets
  PROVE  [OnDatabase(t.database)!Next]_(Sessions(t.database))
<1> DEFINE S == Sessions(t.database)
<1>1. CASE S' \subseteq S /\ S' # S
  <2>1. S \ S' \in SUBSET S /\ S \ S' # {} /\ S' = S \ (S \ S')
    BY <1>1
  <2>2. OnDatabase(t.database)!Leave(S \ S')
    BY <2>1 DEF OnDatabase!Leave
  <2> QED BY <2>1, <2>2 DEF OnDatabase!Next
<1>2. CASE \E e \in Executes : e \notin S /\ S' = S \union {e}
  <2> PICK e \in Executes : e \notin S /\ S' = S \union {e}
    BY <1>2
  <2>1. Cardinality(S') <= Ceiling
    BY DEF SessionsCapped
  <2>2. OnDatabase(t.database)!Cardinality(S') = Cardinality(S')
    BY DEF OnDatabase!Cardinality, Cardinality
  <2>3. OnDatabase(t.database)!Enter(e)
    BY <2>1, <2>2 DEF OnDatabase!Enter
  <2> QED BY <2>3 DEF OnDatabase!Next
<1> QED BY <1>1, <1>2, OnlyConnectOpens

(* query_slot around the session of /execute: on every database, however      *)
(* statements fail, workers die and connections are edited, the sessions open *)
(* one at a time and only while the ceiling has room.                         *)
THEOREM Refinement == Spec => SessionsImplementCeiling
<1>1. Init => \A t \in Targets : OnDatabase(t.database)!Init
  BY DEF Init, OnDatabase!Init, Sessions, Connected
<1>2. Inv /\ SessionsCapped' /\ [Next]_vars =>
        [\A t \in Targets : [OnDatabase(t.database)!Next]_(Sessions(t.database))]_vars
  BY StepOnDatabase DEF Inv
<1> QED
  BY <1>1, <1>2, Invariant, Capped, PTL DEF Spec, SessionsImplementCeiling

=============================================================================
