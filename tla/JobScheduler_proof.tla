-------------------------- MODULE JobScheduler_proof --------------------------
(***************************************************************************)
(* A fire is claimed again only for a run longer than the window less the  *)
(* skew, and a stamp others stand down for is that of a run or of a claim  *)
(* whose worker died; for any number of workers, of runs by hand, of edits *)
(* and of kills, and however long runs take.                               *)
(*                                                                         *)
(* Neither is inductive.  last_run_at goes back when a run that began      *)
(* before a claim commits after it.  For the first, the invariant adds     *)
(* that while a fire can still come to a late worker, last_run_at is       *)
(* inside the window of everybody who comes late, or a long run has just   *)
(* paid for one more claim.  For the second, that no time is of the        *)
(* future.                                                                 *)
(***************************************************************************)
EXTENDS JobScheduler, TLAPS

\* A claimed fire is of the past, and while it can still come to a late worker
\* the row holds a time inside its window, or there is a long run to blame for
\* the next claim.
Held ==
    \A t \in Times : ran[t] > 0 =>
        /\ t <= now
        /\ now <= t + Skew =>
              \/ last # Never /\ t + Skew <= last + Dedupe
              \/ ran[t] <= overruns

IInv == TypeOK /\ Held /\ ClaimedAgainAfterOverrun

LEMMA Numbers ==
    /\ Every \in Nat /\ Skew \in Nat /\ Dedupe \in Nat /\ Horizon \in Nat
    /\ MaxKills \in Nat /\ MaxEdits \in Nat /\ MaxManual \in Nat
    /\ Phases \subseteq 0..Every - 1
    /\ Workers \subseteq Runners /\ Manual \in Runners /\ Never \notin Times
    /\ Times \subseteq Nat
  BY ScheduleAssumption DEF Runners, Never, Times

LEMMA AnchorType == TypeOK => Anchor \in 0..Every - 1
  <1> SUFFICES ASSUME TypeOK PROVE Anchor \in 0..Every - 1
    OBVIOUS
  <1>1. now \in Nat /\ phase \in 0..Every - 1 /\ Every \in Nat /\ Every > 0
    BY Numbers, ScheduleAssumption DEF TypeOK, Times
  <1>2. now % Every \in 0..Every - 1
    BY <1>1
  <1> QED BY <1>1, <1>2 DEF Anchor

-----------------------------------------------------------------------------
(* Types.                                                                  *)
LEMMA TypeInit == Init => TypeOK
  <1> SUFFICES ASSUME Init PROVE TypeOK
    OBVIOUS
  <1>1. trigger \in [Workers -> (0..Every - 1) \union {None}]
    <2>1. phase \in 0..Every - 1
      BY Numbers DEF Init
    <2> QED BY <2>1 DEF Init
  <1>2. now = 0 /\ 0 \in Times /\ 0 \in 0..MaxKills /\ 0 \in 0..MaxEdits /\ 0 \in 0..MaxManual
    BY Numbers DEF Init, Times
  <1> QED BY <1>1, <1>2 DEF Init, TypeOK

LEMMA TypeStep == TypeOK /\ [Next]_vars => TypeOK'
  <1> SUFFICES ASSUME TypeOK, [Next]_vars PROVE TypeOK'
    OBVIOUS
  <1> USE Numbers
  <1>1. 0 \in Times
    BY DEF Times
  <1>2. ASSUME NEW w \in Workers, Claim(w) PROVE TypeOK'
    <2>1. PICK d \in Times : fired' = [fired EXCEPT ![w] = d] /\ ran' = [ran EXCEPT ![d] = @ + 1]
      BY <1>2 DEF Claim
    <2>2. ran' \in [Times -> Nat]
      BY <2>1 DEF TypeOK
    <2> QED BY <1>2, <2>1, <2>2 DEF Claim, TypeOK, counts
  <1>3. ASSUME NEW w \in Workers, StandDown(w) PROVE TypeOK'
    BY <1>3 DEF StandDown, TypeOK, row, runners, history, counts
  <1>4. ASSUME NEW w \in Workers, Begin(w) \/ BeginNothing(w) PROVE TypeOK'
    BY <1>1, <1>4 DEF Begin, BeginNothing, Done, TypeOK, row, schedulers, history, counts
  <1>5. CASE RunNow
    <2>1. manuals' \in 0..MaxManual
      BY <1>5 DEF RunNow, TypeOK
    <2> QED BY <1>5, <2>1 DEF RunNow, TypeOK, row, schedulers, history
  <1>6. ASSUME NEW r \in Runners, Finish(r) PROVE TypeOK'
    <2>1. overruns' \in Nat
      BY <1>6 DEF Finish, TypeOK
    <2> QED BY <1>1, <1>6, <2>1 DEF Finish, Done, Later, TypeOK, schedulers, counts
  <1>7. ASSUME NEW w \in Workers, Save(w) PROVE TypeOK'
    <2>1. edits' \in 0..MaxEdits
      BY <1>7 DEF Save, TypeOK
    <2> QED BY <1>7, <2>1 DEF Save, TypeOK, schedulers, runners, history
  <1>8. ASSUME NEW w \in Workers, Apply(w) PROVE TypeOK'
    BY <1>8, AnchorType DEF Apply, Register, TypeOK, row, runners, history, counts
  <1>9. ASSUME NEW w \in Workers, Delete(w) PROVE TypeOK'
    <2>1. edits' \in 0..MaxEdits
      BY <1>9 DEF Delete, TypeOK
    <2> QED BY <1>9, <2>1 DEF Delete, TypeOK, runners, history
  <1>10. ASSUME NEW w \in Workers, Kill(w) PROVE TypeOK'
    <2>1. kills' \in 0..MaxKills
      BY <1>10 DEF Kill, TypeOK
    <2> QED BY <1>1, <1>10, <2>1 DEF Kill, Done, Later, TypeOK, row
  <1>11. ASSUME NEW w \in Workers, Start(w) PROVE TypeOK'
    BY <1>11, AnchorType DEF Start, Register, TypeOK, row, runners, history, counts
  <1>12. CASE Tick
    <2>1. now' \in Times
      BY <1>12 DEF Tick, TypeOK, Times
    <2> QED BY <1>12, <2>1 DEF Tick, TypeOK, row, schedulers, runners, history, counts
  <1>13. CASE UNCHANGED vars
    BY <1>13 DEF vars, TypeOK, row, schedulers, runners, history, counts
  <1> QED
    BY <1>2, <1>3, <1>4, <1>5, <1>6, <1>7, <1>8, <1>9, <1>10, <1>11, <1>12, <1>13
       DEF Next, Work, Admin

-----------------------------------------------------------------------------
(* The window holds.                                                       *)

\* A claim of a fire that was claimed before is paid for: otherwise the row
\* still holds a time inside the window of this worker.
LEMMA PaidFire ==
    ASSUME IInv, NEW w \in Workers, Claimable, NEW d \in Times, Due(w, d)
    PROVE  ran[d] <= overruns /\ d <= now
  <1>1. /\ now \in Nat /\ d \in Nat /\ ran[d] \in Nat /\ last \in Nat \union {Never}
        /\ Skew \in Nat /\ Dedupe \in Nat /\ overruns \in Nat
    BY Numbers DEF IInv, TypeOK
  <1>2. d <= now /\ now <= d + Skew
    BY <1>1 DEF Due, Later
  <1>3. CASE ran[d] > 0
    <2>1. \/ last # Never /\ d + Skew <= last + Dedupe
          \/ ran[d] <= overruns
      BY <1>2, <1>3 DEF IInv, Held
    <2>2. last # Never => last < now - Dedupe /\ last \in Nat
      BY <1>1 DEF Claimable
    <2> QED BY <1>1, <1>2, <2>1, <2>2
  <1> QED BY <1>1, <1>2, <1>3

LEMMA ClaimStep ==
    ASSUME IInv, NEW w \in Workers, Claim(w)
    PROVE  Held' /\ ClaimedAgainAfterOverrun'
  <1> USE Numbers
  <1>1. PICK d \in Times : /\ Due(w, d) /\ Claimable
                           /\ ran' = [ran EXCEPT ![d] = @ + 1]
    BY DEF Claim
  <1>2. ran[d] <= overruns /\ d <= now
    BY <1>1, PaidFire
  <1>3. /\ now \in Nat /\ now \in Times /\ ran \in [Times -> Nat] /\ overruns \in Nat
        /\ Skew < Dedupe /\ now' = now /\ last' = now /\ overruns' = overruns
    BY ScheduleAssumption DEF IInv, TypeOK, Claim
  <1>4. Held'
    <2> SUFFICES ASSUME NEW t \in Times, ran'[t] > 0
                 PROVE  t <= now /\ now # Never /\ t + Skew <= now + Dedupe
      BY <1>3 DEF Held
    <2>1. t <= now
      BY <1>1, <1>2, <1>3 DEF IInv, Held
    <2>2. t \in Nat /\ now # Never
      BY <1>3
    <2> QED BY <1>3, <2>1, <2>2
  <1>5. ClaimedAgainAfterOverrun'
    BY <1>1, <1>2, <1>3 DEF IInv, ClaimedAgainAfterOverrun
  <1> QED BY <1>4, <1>5

\* A run that commits writes a time that is recent enough for every fire that
\* can still come, or is one of the long runs.
LEMMA FinishStep ==
    ASSUME IInv, NEW r \in Runners, Finish(r)
    PROVE  Held' /\ ClaimedAgainAfterOverrun'
  <1> USE Numbers
  <1>1. /\ now \in Nat /\ stamp[r] \in Nat /\ stamp[r] # Never /\ ran \in [Times -> Nat]
        /\ last \in Nat \union {Never} /\ overruns \in Nat
    BY DEF IInv, TypeOK
  <1>2. /\ now' = now /\ ran' = ran /\ last' = IF exists THEN stamp[r] ELSE last
        /\ overruns' = IF SetsBack(r) THEN overruns + 1 ELSE overruns
    BY DEF Finish
  <1>3. ClaimedAgainAfterOverrun'
    <2> SUFFICES ASSUME NEW t \in Times PROVE ran[t] <= 1 + overruns'
      BY <1>2 DEF ClaimedAgainAfterOverrun
    <2>1. ran[t] <= 1 + overruns /\ ran[t] \in Nat
      BY <1>1 DEF IInv, ClaimedAgainAfterOverrun
    <2>2. overruns <= overruns' /\ overruns' \in Nat
      BY <1>1, <1>2
    <2> QED BY <1>1, <2>1, <2>2
  <1>4. Held'
    <2> SUFFICES ASSUME NEW t \in Times, ran[t] > 0
                 PROVE  /\ t <= now
                        /\ now <= t + Skew =>
                              \/ last' # Never /\ t + Skew <= last' + Dedupe
                              \/ ran[t] <= overruns'
      BY <1>2 DEF Held
    <2>1. /\ t <= now
          /\ now <= t + Skew =>
                (last # Never /\ t + Skew <= last + Dedupe) \/ ran[t] <= overruns
          /\ ran[t] <= 1 + overruns /\ t \in Nat /\ ran[t] \in Nat
      BY <1>1 DEF IInv, Held, ClaimedAgainAfterOverrun
    <2>2. CASE SetsBack(r)
      <3>1. overruns' = overruns + 1
        BY <1>2, <2>2
      <3> QED BY <1>1, <2>1, <3>1
    <2>3. CASE ~SetsBack(r) /\ exists
      <3>1. /\ last' = stamp[r] /\ overruns' = overruns
            /\ stamp[r] >= last \/ stamp[r] + Dedupe >= now + Skew
        BY <1>1, <1>2, <2>3 DEF SetsBack
      <3> QED BY <1>1, <2>1, <3>1
    <2>4. CASE ~exists
      <3>1. last' = last /\ overruns' = overruns
        BY <1>2, <2>4 DEF SetsBack
      <3> QED BY <2>1, <3>1
    <2> QED BY <2>2, <2>3, <2>4
  <1> QED BY <1>3, <1>4

\* The other steps write neither last_run_at nor a claim.
LEMMA OtherSteps ==
    ASSUME IInv, UNCHANGED <<last, ran, overruns>>, now' \in Times, now <= now'
    PROVE  Held' /\ ClaimedAgainAfterOverrun'
  <1> USE Numbers
  <1>1. now \in Nat /\ now' \in Nat
    BY DEF IInv, TypeOK
  <1>2. Held'
    <2> DEFINE Answered(t) == (last # Never /\ t + Skew <= last + Dedupe) \/ ran[t] <= overruns
    <2> SUFFICES ASSUME NEW t \in Times, ran[t] > 0
                 PROVE  t <= now' /\ (now' <= t + Skew => Answered(t))
      BY DEF Held
    <2>1. t <= now /\ (now <= t + Skew => Answered(t))
      BY DEF IInv, Held
    <2> HIDE DEF Answered
    <2>2. t \in Nat /\ Skew \in Nat /\ now <= now'
      BY DEF Times
    <2>3. t <= now' /\ (now' <= t + Skew => now <= t + Skew)
      BY <1>1, <2>1, <2>2
    <2> QED BY <2>1, <2>3
  <1> QED BY <1>2 DEF IInv, ClaimedAgainAfterOverrun

LEMMA Step == IInv /\ [Next]_vars => IInv'
  <1> SUFFICES ASSUME IInv, [Next]_vars PROVE IInv'
    OBVIOUS
  <1> USE Numbers
  <1>1. TypeOK' /\ now \in Nat /\ now \in Times
    BY TypeStep DEF IInv, TypeOK
  <1>2. ASSUME NEW w \in Workers, Claim(w) PROVE IInv'
    BY <1>1, <1>2, ClaimStep DEF IInv
  <1>3. ASSUME NEW r \in Runners, Finish(r) PROVE IInv'
    BY <1>1, <1>3, FinishStep DEF IInv
  <1>4. ASSUME UNCHANGED <<now, last, ran, overruns>> PROVE IInv'
    BY <1>1, <1>4, OtherSteps DEF IInv
  <1>5. ASSUME NEW w \in Workers, StandDown(w) \/ Apply(w) \/ Start(w) \/ Save(w) \/ Delete(w)
        PROVE  IInv'
    BY <1>4, <1>5 DEF StandDown, Apply, Start, Save, Delete, row, history
  <1>6. ASSUME NEW w \in Workers, Begin(w) \/ BeginNothing(w) \/ Kill(w) PROVE IInv'
    BY <1>4, <1>6 DEF Begin, BeginNothing, Kill, row, history
  <1>7. CASE RunNow \/ UNCHANGED vars
    BY <1>4, <1>7 DEF RunNow, vars, row, history
  <1>8. CASE Tick
    <2>1. now' = now + 1 /\ UNCHANGED <<last, ran, overruns>>
      BY <1>8 DEF Tick, row, history
    <2>2. now' \in Times /\ now <= now'
      BY <1>1, <2>1 DEF TypeOK
    <2> QED BY <1>1, <2>1, <2>2, OtherSteps DEF IInv
  <1> QED
    BY <1>2, <1>3, <1>5, <1>6, <1>7, <1>8 DEF Next, Work, Admin

LEMMA Start0 == Init => IInv
  <1> SUFFICES ASSUME Init PROVE IInv
    OBVIOUS
  <1>1. Held /\ ClaimedAgainAfterOverrun
    BY Numbers DEF Init, Held, ClaimedAgainAfterOverrun
  <1> QED BY <1>1, TypeInit DEF IInv

-----------------------------------------------------------------------------
(* What last_run_at tells.                                                 *)

\* Neither the row nor a run holds a time that is still to come.
Past == last <= now /\ \A r \in Runners : pc[r] # "idle" => stamp[r] <= now

StampInv == TypeOK /\ Past /\ StampsTellClaims

\* The times that are compared, as numbers
LEMMA StampNumbers ==
    ASSUME TypeOK
    PROVE  /\ now \in Nat /\ last \in Int /\ answered \in Int
           /\ \A r \in Runners : stamp[r] \in Nat /\ pc[r] \in {"idle", "claimed", "run"}
  <1>1. \A t \in Times \union {Never} : t \in Int
    BY Numbers DEF Never
  <1>2. now \in Nat /\ last \in Int /\ answered \in Int
    BY <1>1, Numbers DEF TypeOK
  <1>3. \A r \in Runners : stamp[r] \in Nat /\ pc[r] \in {"idle", "claimed", "run"}
    BY Numbers DEF TypeOK
  <1> QED BY <1>2, <1>3

\* A step in which every run goes on, or is stamped now, and the row stays.
LEMMA RunsGoOn ==
    ASSUME StampInv, TypeOK', last' = last, exists' => exists, answered' = answered,
           orphaned' = orphaned, now <= now',
           \A r \in Runners :
              \/ pc'[r] = pc[r] /\ stamp'[r] = stamp[r]
              \/ pc'[r] = "run" /\ stamp'[r] = now'
              \/ pc'[r] = "idle" /\ (pc[r] = "idle" \/ ~exists)
    PROVE  StampInv'
  <1>1. /\ now \in Nat /\ now' \in Nat /\ last \in Int /\ answered \in Int
        /\ \A r \in Runners : stamp[r] \in Nat
    BY StampNumbers DEF StampInv, TypeOK, Times
  <1>2. last <= now /\ \A r \in Runners : pc[r] # "idle" => stamp[r] <= now
    BY DEF StampInv, Past
  <1>3. Past'
    BY <1>1, <1>2 DEF Past
  <1>4. StampsTellClaims'
    <2> SUFFICES ASSUME ~(last <= answered), exists, last \notin orphaned
                 PROVE  \E r \in Runners :
                           \/ pc'[r] = "run" /\ stamp'[r] >= last
                           \/ pc'[r] = "claimed" /\ stamp'[r] = last
      BY DEF StampsTellClaims, RunStands
    <2>1. PICK r \in Runners : \/ pc[r] = "run" /\ stamp[r] >= last
                               \/ pc[r] = "claimed" /\ stamp[r] = last
      BY DEF StampInv, StampsTellClaims, RunStands
    <2>2. CASE pc'[r] = pc[r] /\ stamp'[r] = stamp[r]
      BY <2>1, <2>2
    <2>3. CASE pc'[r] = "run" /\ stamp'[r] = now'
      BY <1>1, <1>2, <2>3
    <2> QED BY <2>1, <2>2, <2>3
  <1> QED BY <1>3, <1>4 DEF StampInv

\* A runner that stops.  A run that is over, or cut off, has answered: it may be
\* what the row tells.  A claim that dies is an orphan.
LEMMA RunEnds ==
    ASSUME StampInv, TypeOK', NEW r \in Runners, Done(r), now' = now, exists' = exists,
           \/ last' = last
           \/ pc[r] = "run" /\ last' = stamp[r],
           answered' = (IF pc[r] = "run" THEN Later(answered, stamp[r]) ELSE answered),
           orphaned \subseteq orphaned', pc[r] = "claimed" => stamp[r] \in orphaned'
    PROVE  StampInv'
  <1>1. /\ now \in Nat /\ last \in Int /\ answered \in Int /\ stamp[r] \in Nat
        /\ answered' \in Int
    BY StampNumbers, Numbers DEF StampInv, TypeOK, Never
  <1>2. /\ pc'[r] = "idle" /\ \A x \in Runners \ {r} : pc'[x] = pc[x] /\ stamp'[x] = stamp[x]
    BY DEF Done, StampInv, TypeOK
  <1>3. Past'
    BY <1>1, <1>2 DEF StampInv, Past
  <1>4. answered <= answered' /\ (pc[r] = "run" => stamp[r] <= answered')
    BY <1>1 DEF Later
  <1>5. StampsTellClaims'
    <2>1. CASE pc[r] = "run" /\ last' = stamp[r]
      BY <1>4, <2>1 DEF StampsTellClaims, RunStands
    <2>2. CASE last' = last /\ (~exists \/ last \in orphaned)
      BY <2>2 DEF StampsTellClaims, RunStands
    <2>3. CASE last' = last /\ last <= answered
      BY <1>1, <1>4, <2>3 DEF StampsTellClaims, RunStands
    <2>4. CASE /\ last' = last
               /\ \E x \in Runners : \/ pc[x] = "run" /\ stamp[x] >= last
                                     \/ pc[x] = "claimed" /\ stamp[x] = last
      <3>1. PICK x \in Runners : \/ pc[x] = "run" /\ stamp[x] >= last
                                 \/ pc[x] = "claimed" /\ stamp[x] = last
        BY <2>4
      <3>2. CASE x = r /\ pc[x] = "run"
        BY <1>1, <1>4, <2>4, <3>1, <3>2 DEF StampsTellClaims, RunStands
      <3>3. CASE x = r /\ pc[x] = "claimed"
        BY <2>4, <3>1, <3>3 DEF StampsTellClaims
      <3>4. CASE x # r
        BY <1>2, <2>4, <3>1, <3>4 DEF StampsTellClaims, RunStands
      <3> QED BY <3>1, <3>2, <3>3, <3>4
    <2> QED BY <2>1, <2>2, <2>3, <2>4 DEF StampInv, StampsTellClaims, RunStands
  <1> QED BY <1>3, <1>5 DEF StampInv

LEMMA StampStep == StampInv /\ [Next]_vars => StampInv'
  <1> SUFFICES ASSUME StampInv, [Next]_vars PROVE StampInv'
    OBVIOUS
  <1> USE Numbers
  <1>1. TypeOK /\ TypeOK'
    BY TypeStep DEF StampInv
  <1>2. now \in Nat /\ stamp \in [Runners -> Times]
        /\ pc \in [Runners -> {"idle", "claimed", "run"}]
    BY <1>1 DEF TypeOK
  <1>3. ASSUME NEW w \in Workers, Claim(w) PROVE StampInv'
    <2>1. /\ now' = now /\ last' = now /\ w \in Runners
          /\ pc'[w] = "claimed" /\ stamp'[w] = now
          /\ \A x \in Runners \ {w} : pc'[x] = pc[x] /\ stamp'[x] = stamp[x]
      BY <1>2, <1>3 DEF Claim
    <2>2. Past'
      BY <1>2, <2>1 DEF StampInv, Past
    <2>3. StampsTellClaims'
      BY <1>2, <2>1 DEF StampsTellClaims, RunStands
    <2> QED BY <1>1, <2>2, <2>3 DEF StampInv
  <1>4. ASSUME NEW w \in Workers, Begin(w) PROVE StampInv'
    <2>1. /\ UNCHANGED <<now, last, exists, answered, orphaned>> /\ w \in Runners
          /\ pc'[w] = "run" /\ stamp'[w] = now
          /\ \A x \in Runners \ {w} : pc'[x] = pc[x] /\ stamp'[x] = stamp[x]
      BY <1>2, <1>4 DEF Begin, row, history
    <2> QED BY <1>1, <1>2, <2>1, RunsGoOn
  <1>5. ASSUME NEW w \in Workers, BeginNothing(w) PROVE StampInv'
    <2>1. /\ UNCHANGED <<now, last, exists, answered, orphaned>> /\ w \in Runners /\ ~exists
          /\ pc'[w] = "idle" /\ \A x \in Runners \ {w} : pc'[x] = pc[x] /\ stamp'[x] = stamp[x]
      BY <1>2, <1>5 DEF BeginNothing, Done, row, history
    <2> QED BY <1>1, <1>2, <2>1, RunsGoOn
  <1>6. CASE RunNow
    <2>1. /\ UNCHANGED <<now, last, exists, answered, orphaned>>
          /\ pc'[Manual] = "run" /\ stamp'[Manual] = now
          /\ \A x \in Runners \ {Manual} : pc'[x] = pc[x] /\ stamp'[x] = stamp[x]
      BY <1>2, <1>6 DEF RunNow, row, history
    <2> QED BY <1>1, <1>2, <2>1, RunsGoOn
  <1>7. ASSUME NEW r \in Runners, Finish(r) PROVE StampInv'
    <2>1. /\ UNCHANGED <<now, exists>> /\ Done(r) /\ pc[r] = "run" /\ orphaned' = orphaned
          /\ last' = (IF exists THEN stamp[r] ELSE last)
          /\ answered' = Later(answered, stamp[r])
      BY <1>7 DEF Finish
    <2> QED BY <1>1, <2>1, RunEnds
  <1>8. ASSUME NEW w \in Workers, Kill(w) PROVE StampInv'
    <2>1. /\ UNCHANGED <<now, exists, last>> /\ Done(w) /\ w \in Runners
          /\ answered' = (IF pc[w] = "run" THEN Later(answered, stamp[w]) ELSE answered)
          /\ orphaned \subseteq orphaned'
          /\ pc[w] = "claimed" => stamp[w] \in orphaned'
      BY <1>8 DEF Kill, row
    <2> QED BY <1>1, <2>1, RunEnds
  <1>9. ASSUME NEW w \in Workers, StandDown(w) \/ Apply(w) \/ Start(w) \/ Save(w) \/ Delete(w)
        PROVE  StampInv'
    <2>1. /\ UNCHANGED <<now, last, answered, orphaned, pc, stamp>> /\ (exists' => exists)
      BY <1>9 DEF StandDown, Apply, Start, Save, Delete, row, runners, history
    <2> QED BY <1>1, <1>2, <2>1, RunsGoOn
  <1>10. CASE Tick \/ UNCHANGED vars
    <2>1. /\ UNCHANGED <<last, exists, answered, orphaned, pc, stamp>> /\ now <= now'
      BY <1>2, <1>10 DEF Tick, vars, row, runners, history
    <2> QED BY <1>1, <2>1, RunsGoOn
  <1> QED
    BY <1>3, <1>4, <1>5, <1>6, <1>7, <1>8, <1>9, <1>10 DEF Next, Work, Admin

-----------------------------------------------------------------------------
(* The theorems.                                                           *)

\* Every variable keeps its type, however long runs take (jobs.py).
THEOREM TypeCorrect == Spec => []TypeOK
  BY TypeInit, TypeStep, PTL DEF Spec

\* A fire is claimed once, and once more for every run longer than the window
\* less the skew that wrote its start over a later stamp: nothing else opens the
\* window again (jobs.py:86, 133-146).
THEOREM ClaimedOnce == Spec => []ClaimedAgainAfterOverrun
  <1>1. IInv => ClaimedAgainAfterOverrun
    BY DEF IInv
  <1> QED BY <1>1, Step, Start0, PTL DEF Spec

\* What later fires stand down for is a run, over, cut off or to come, or the
\* claim of a worker that died before it began one (jobs.py:143-158).
THEOREM StampsTell == Spec => []StampsTellClaims
  <1>1. Init => StampInv
    <2> SUFFICES ASSUME Init PROVE StampInv
      OBVIOUS
    <2>1. Past /\ StampsTellClaims
      BY DEF Init, Past, StampsTellClaims, RunStands, Never
    <2> QED BY <2>1, TypeInit DEF StampInv
  <1>2. StampInv => StampsTellClaims
    BY DEF StampInv
  <1> QED BY <1>1, <1>2, StampStep, PTL DEF Spec
=============================================================================
