------------------------- MODULE ProviderChain_proof -------------------------
(***************************************************************************)
(* A breaker opens only on a streak of transient failures, and a half-open *)
(* breaker waits for a probe unless an unlisted exception ended it, for    *)
(* any number of threads, administrators, records and names.               *)
(*                                                                         *)
(* Neither is inductive alone.  The first needs the exact relation of the  *)
(* breaker's counter to the history of failures, which late failures of    *)
(* requests sent before the opening must not disturb; the second needs     *)
(* that a request under way stays at the same place of the same chain.     *)
(***************************************************************************)
EXTENDS ProviderChain, FiniteSetTheorems, TLAPS

-----------------------------------------------------------------------------
(* The inductive invariant.                                                *)

\* The counter of a closed breaker is the length of the streak; any other
\* breaker has seen a full streak and no success since.
Counts ==
    \A n \in Names : IF breaker[n].state = "closed" THEN streak[n] = breaker[n].failures
                                                   ELSE streak[n] = Threshold

\* A call under way is at a place of its chain.
InChain == \A c \in Calls : pc[c] # "idle" => tried[c] \in 1..Len(chain[c])

Targeted == \A e \in Editors : stage[e] # "idle" => target[e] \in Providers

IInv == TypeOK /\ Counts /\ InChain /\ Targeted /\ HalfOpenIsProbed

-----------------------------------------------------------------------------
(* The breaker's operations.                                               *)

\* What a failure leaves: a breaker that is not half-open, and whose counter
\* has grown by a transient failure or stayed (ai_providers.py:487).
LEMMA FailedBreaker ==
    ASSUME NEW b \in Breakers, NEW transient \in BOOLEAN
    PROVE  /\ Failed(b, transient) \in Breakers
           /\ Failed(b, transient).state # "half_open"
           /\ b.state = "closed" => \/ /\ Failed(b, transient).state = "closed"
                                       /\ Failed(b, transient).failures
                                            = IF transient THEN b.failures + 1 ELSE b.failures
                                    \/ /\ transient /\ b.failures + 1 = Threshold
                                       /\ Failed(b, transient).state = "open"
           /\ b.state # "closed" => Failed(b, transient).state = "open"
  <1> USE ChainAssumption DEF Breakers, States
  <1>1. /\ b.state \in States /\ b.failures \in 0..Threshold - 1 /\ b.cooled \in BOOLEAN
        /\ Tripped(b) \in Breakers /\ Tripped(b).state = "open"
    BY DEF Tripped
  <1>2. CASE b.state = "half_open"
    BY <1>1, <1>2 DEF Failed
  <1>3. CASE b.state # "half_open" /\ ~transient
    BY <1>1, <1>3 DEF Failed
  <1>4. CASE b.state # "half_open" /\ transient /\ b.failures + 1 >= Threshold
    BY <1>1, <1>4 DEF Failed
  <1>5. CASE b.state # "half_open" /\ transient /\ ~(b.failures + 1 >= Threshold)
    BY <1>1, <1>5 DEF Failed
  <1> QED BY <1>2, <1>3, <1>4, <1>5

LEMMA ClosedBreaker == Closed \in Breakers /\ Closed.state = "closed" /\ Closed.failures = 0
  BY ChainAssumption DEF Closed, Breakers, States

\* A call under way has a provider, and that a name.
LEMMA Named ==
    ASSUME IInv, NEW c \in Calls, pc[c] # "idle"
    PROVE  Name(c) \in Names /\ tried[c] \in 1..Len(chain[c]) /\ chain[c] \in Seq(Providers)
  BY ChainAssumption DEF IInv, TypeOK, InChain, Name

-----------------------------------------------------------------------------
(* What a step of one call leaves of the others.                           *)

LocalType ==
    /\ pc \in [Calls -> Places]
    /\ chain \in [Calls -> Seq(Providers)]
    /\ next \in [Calls -> Links]
    /\ tried \in [Calls -> Nat]
    /\ attempt \in [Calls -> 0..MaxAttempts]
    /\ probing \in [Calls -> BOOLEAN]

Others(c) ==
    \A d \in Calls \ {c} : pc'[d] = pc[d] /\ probing'[d] = probing[d] /\ Name(d)' = Name(d)

LEMMA FinishStep ==
    ASSUME IInv, NEW c \in Calls, Finish(c)
    PROVE  LocalType' /\ InChain' /\ Others(c) /\ pc'[c] = "idle"
  <1>1. LocalType /\ InChain /\ MaxAttempts \in Nat
    BY ChainAssumption DEF IInv, TypeOK, LocalType
  <1>2. LocalType'
    BY <1>1 DEF LocalType, Finish, Places, Links
  <1>3. Others(c) /\ pc'[c] = "idle"
    BY <1>1 DEF LocalType, Finish, Others, Name
  <1>4. InChain'
    BY <1>1, <1>3 DEF LocalType, Finish, InChain
  <1> QED BY <1>2, <1>3, <1>4

LEMMA AdvanceStep ==
    ASSUME IInv, NEW c \in Calls, pc[c] # "idle", Advance(c)
    PROVE  LocalType' /\ InChain' /\ Others(c) /\ pc'[c] # "send"
  <1>1. LocalType /\ InChain /\ MaxAttempts \in Nat
    BY ChainAssumption DEF IInv, TypeOK, LocalType
  <1>2. CASE tried[c] < Len(chain[c])
    <2>1. /\ pc' = [pc EXCEPT ![c] = "pick"] /\ tried' = [tried EXCEPT ![c] = @ + 1]
          /\ attempt' = [attempt EXCEPT ![c] = 0] /\ probing' = [probing EXCEPT ![c] = FALSE]
          /\ UNCHANGED <<chain, next>>
      BY <1>2 DEF Advance
    <2>2. tried[c] \in Nat /\ Len(chain[c]) \in Nat
      BY <1>1 DEF LocalType
    <2>3. LocalType'
      BY <1>1, <2>1 DEF LocalType, Places
    <2>4. Others(c) /\ pc'[c] # "send"
      BY <1>1, <2>1 DEF LocalType, Others, Name
    <2>5. InChain'
      BY <1>1, <1>2, <2>1, <2>2 DEF LocalType, InChain
    <2> QED BY <2>3, <2>4, <2>5
  <1>3. CASE ~(tried[c] < Len(chain[c]))
    BY <1>3, FinishStep DEF Advance
  <1> QED BY <1>2, <1>3

\* A half-open breaker keeps its probe if the step of call c leaves the other
\* calls alone, and either c was not this breaker's probe or it is now.
LEMMA ProbeKept ==
    ASSUME IInv, NEW c \in Calls, Others(c),
           \A n \in Names : (breaker'[n].state = "half_open" /\ n \notin lost') =>
              \/ /\ breaker[n].state = "half_open" /\ n \notin lost
                 /\ ~(pc[c] = "send" /\ probing[c] /\ Name(c) = n)
              \/ pc'[c] = "send" /\ probing'[c] /\ Name(c)' = n
    PROVE  HalfOpenIsProbed'
  <1> SUFFICES ASSUME NEW n \in Names, breaker'[n].state = "half_open", n \notin lost'
               PROVE  \E d \in Calls : pc'[d] = "send" /\ probing'[d] /\ Name(d)' = n
    BY DEF HalfOpenIsProbed
  <1>1. CASE pc'[c] = "send" /\ probing'[c] /\ Name(c)' = n
    BY <1>1
  <1>2. CASE /\ breaker[n].state = "half_open" /\ n \notin lost
             /\ ~(pc[c] = "send" /\ probing[c] /\ Name(c) = n)
    <2>1. PICK d \in Calls : pc[d] = "send" /\ probing[d] /\ Name(d) = n
      BY <1>2 DEF IInv, HalfOpenIsProbed
    <2>2. d # c
      BY <1>2, <2>1
    <2> QED BY <2>1, <2>2 DEF Others
  <1> QED BY <1>1, <1>2

RestType ==
    /\ enabled \in SUBSET Providers /\ active \in SUBSET Providers
    /\ fallback \in [Providers -> Links]
    /\ stage \in [Editors -> {"idle", "activate", "relink"}]
    /\ target \in [Editors -> Links]
    /\ seen \in [Editors -> SUBSET Providers]
    /\ link \in [Editors -> Links]
    /\ begun \in 0..MaxEdits

BreakerType ==
    /\ breaker \in [Names -> Breakers]
    /\ streak \in [Names -> 0..Threshold]
    /\ lost \in SUBSET Names

LEMMA TypeParts == TypeOK <=> RestType /\ BreakerType /\ LocalType
  BY DEF TypeOK, RestType, BreakerType, LocalType

LEMMA TypePartsNext == RestType' /\ BreakerType' /\ LocalType' => TypeOK'
  BY DEF TypeOK, RestType, BreakerType, LocalType

LEMMA RestKept == ASSUME IInv, UNCHANGED <<records, edits>> PROVE RestType' /\ Targeted'
  BY TypeParts DEF IInv, RestType, Targeted, records, edits

-----------------------------------------------------------------------------
(* Each step keeps the invariant.                                          *)

LEMMA BreakersKept ==
    ASSUME IInv, UNCHANGED <<breaker, history>>
    PROVE  BreakerType' /\ Counts'
  BY TypeParts DEF IInv, BreakerType, Counts, history

\* A step of call c that leaves the breakers alone and does not take c out of
\* or into a request.
LEMMA QuietStep ==
    ASSUME IInv, NEW c \in Calls, UNCHANGED <<records, breaker, history, edits>>,
           LocalType', InChain', Others(c), pc[c] # "send"
    PROVE  IInv'
  <1>1. HalfOpenIsProbed'
    BY ProbeKept DEF history
  <1> QED BY <1>1, RestKept, BreakersKept, TypePartsNext DEF IInv

LEMMA ResolveSteps ==
    ASSUME IInv, NEW c \in Calls, Begin(c) \/ Follow(c) \/ Resolved(c)
    PROVE  IInv'
  <1>1. LocalType /\ RestType /\ InChain
    BY TypeParts DEF IInv
  <1>2. CASE Begin(c)
    <2>1. PICK p \in active \intersect enabled : /\ chain' = [chain EXCEPT ![c] = <<p>>]
                                                 /\ next' = [next EXCEPT ![c] = fallback[p]]
      BY <1>2 DEF Begin
    <2>2. p \in Providers /\ fallback[p] \in Links /\ <<p>> \in Seq(Providers)
      BY <1>1 DEF RestType
    <2>3. LocalType'
      BY <1>1, <1>2, <2>1, <2>2 DEF Begin, LocalType, Places
    <2>4. InChain'
      BY <1>1, <1>2, <2>1 DEF Begin, LocalType, InChain
    <2>5. Others(c)
      BY <1>1, <1>2, <2>1 DEF Begin, LocalType, Others, Name
    <2> QED BY <1>2, <2>3, <2>4, <2>5, QuietStep DEF Begin
  <1>3. CASE Follow(c)
    <2>1. next[c] \in Providers /\ fallback[next[c]] \in Links
      BY <1>1, <1>3 DEF Follow, Follows, RestType
    <2>2. /\ Append(chain[c], next[c]) \in Seq(Providers)
          /\ Len(Append(chain[c], next[c])) = Len(chain[c]) + 1 /\ Len(chain[c]) \in Nat
      BY <1>1, <2>1 DEF LocalType
    <2>3. LocalType'
      BY <1>1, <1>3, <2>1, <2>2 DEF Follow, LocalType
    <2>4. InChain'
      BY <1>1, <1>3, <2>2 DEF Follow, LocalType, InChain
    <2>5. Others(c)
      BY <1>1, <1>3 DEF Follow, LocalType, Others, Name
    <2> QED BY <1>3, <2>3, <2>4, <2>5, QuietStep DEF Follow
  <1>4. CASE Resolved(c)
    <2>1. LocalType' /\ InChain' /\ Others(c)
      BY <1>1, <1>4 DEF Resolved, LocalType, InChain, Others, Name, Places, Links
    <2> QED BY <1>4, <2>1, QuietStep DEF Resolved
  <1> QED BY <1>2, <1>3, <1>4

LEMMA SkipStep ==
    ASSUME IInv, NEW c \in Calls, Skip(c)
    PROVE  IInv'
  BY AdvanceStep, QuietStep DEF Skip

LEMMA SendStep ==
    ASSUME IInv, NEW c \in Calls, Send(c)
    PROVE  IInv'
  <1>1. LocalType /\ BreakerType /\ InChain /\ Counts
    BY TypeParts DEF IInv
  <1>2. Name(c) \in Names
    BY Named DEF Send
  <1>3. LocalType' /\ InChain' /\ Others(c)
    <2>1. /\ attempt' = [attempt EXCEPT ![c] = 1] /\ pc' = [pc EXCEPT ![c] = "send"]
          /\ probing' = [probing EXCEPT ![c] = MayProbe(breaker[Name(c)])]
          /\ UNCHANGED <<chain, next, tried>> /\ pc[c] = "pick"
      BY DEF Send
    <2>2. MayProbe(breaker[Name(c)]) \in BOOLEAN
      BY <1>1, <1>2 DEF MayProbe, BreakerType, Breakers
    <2>3. LocalType'
      BY <1>1, <2>1, <2>2, ChainAssumption DEF LocalType, Places
    <2>4. InChain'
      BY <1>1, <2>1 DEF LocalType, InChain
    <2>5. Others(c)
      BY <1>1, <2>1 DEF LocalType, Others, Name
    <2> QED BY <2>3, <2>4, <2>5
  <1>4. /\ pc'[c] = "send" /\ Name(c)' = Name(c)
        /\ probing'[c] = MayProbe(breaker[Name(c)])
    BY <1>1 DEF Send, LocalType, Name
  <1>5. BreakerType' /\ Counts'
    <2>1. breaker[Name(c)] \in Breakers
      BY <1>1, <1>2 DEF BreakerType
    <2>2. /\ [breaker[Name(c)] EXCEPT !.state = "half_open"] \in Breakers
          /\ [breaker[Name(c)] EXCEPT !.state = "half_open"].state = "half_open"
      BY <2>1 DEF Breakers, States
    <2>3. MayProbe(breaker[Name(c)]) => breaker[Name(c)].state = "open"
      BY DEF MayProbe
    <2>4. /\ streak' = streak
          /\ breaker' = [breaker EXCEPT ![Name(c)] = IF MayProbe(breaker[Name(c)])
                                        THEN [breaker[Name(c)] EXCEPT !.state = "half_open"]
                                        ELSE breaker[Name(c)]]
      BY DEF Send, history
    <2>5. lost' = lost
      BY DEF Send, history
    <2> QED BY <1>1, <1>2, <2>1, <2>2, <2>3, <2>4, <2>5 DEF BreakerType, Counts
  <1>6. HalfOpenIsProbed'
    <2>0. lost' = lost
      BY DEF Send, history
    <2> SUFFICES ASSUME NEW n \in Names, breaker'[n].state = "half_open"
                 PROVE  \/ breaker[n].state = "half_open" /\ ~(pc[c] = "send" /\ Name(c) = n)
                        \/ pc'[c] = "send" /\ probing'[c] /\ Name(c)' = n
      BY <1>3, <2>0, ProbeKept
    <2>1. CASE n = Name(c) /\ MayProbe(breaker[n])
      BY <1>4, <2>1
    <2>2. CASE ~(n = Name(c) /\ MayProbe(breaker[n]))
      BY <1>1, <2>2 DEF Send, BreakerType
    <2> QED BY <2>1, <2>2
  <1>7. RestType' /\ Targeted'
    BY RestKept DEF Send
  <1> QED BY <1>3, <1>5, <1>6, <1>7, TypePartsNext DEF IInv

\* The end of a request: the breaker gets a new entry that is not half-open.
LEMMA EndOfRequest ==
    ASSUME IInv, NEW c \in Calls, pc[c] = "send", NEW b \in Breakers, NEW k \in 0..Threshold,
           b.state # "half_open",
           IF b.state = "closed" THEN k = b.failures ELSE k = Threshold,
           breaker' = [breaker EXCEPT ![Name(c)] = b],
           streak' = [streak EXCEPT ![Name(c)] = k], lost' = lost \ {Name(c)},
           LocalType', InChain', Others(c), UNCHANGED <<records, edits>>
    PROVE  IInv'
  <1>1. BreakerType /\ Counts
    BY TypeParts DEF IInv
  <1>2. BreakerType' /\ Counts'
    BY <1>1, Named DEF BreakerType, Counts
  <1>3. HalfOpenIsProbed'
    <2> SUFFICES ASSUME NEW n \in Names, breaker'[n].state = "half_open", n \notin lost'
                 PROVE  /\ breaker[n].state = "half_open" /\ n \notin lost
                        /\ ~(pc[c] = "send" /\ Name(c) = n)
      BY ProbeKept
    <2>1. Name(c) \in Names
      BY Named
    <2> QED BY <1>1, <2>1 DEF BreakerType
  <1> QED BY <1>2, <1>3, RestKept, TypePartsNext DEF IInv

LEMMA RequestSteps ==
    ASSUME IInv, NEW c \in Calls, Reply(c) \/ FailTransient(c) \/ FailHard(c)
    PROVE  IInv'
  <1> DEFINE b == breaker[Name(c)]
  <1>1. /\ b \in Breakers /\ streak[Name(c)] \in 0..Threshold
        /\ IF b.state = "closed" THEN streak[Name(c)] = b.failures
                                 ELSE streak[Name(c)] = Threshold
    BY Named, TypeParts DEF IInv, BreakerType, Counts, Reply, FailTransient, FailHard
  <1>2. /\ b.failures \in 0..Threshold - 1 /\ Threshold \in Nat \ {0}
        /\ streak \in [Names -> 0..Threshold]
    BY <1>1, ChainAssumption, TypeParts DEF IInv, BreakerType, Breakers
  <1>3. CASE Reply(c)
    <2>1. LocalType' /\ InChain' /\ Others(c)
      BY <1>3, FinishStep DEF Reply
    <2>2. /\ Closed \in Breakers /\ Closed.state # "half_open" /\ 0 \in 0..Threshold
          /\ Closed.state = "closed" /\ Closed.failures = 0
      BY <1>2, ClosedBreaker
    <2>3. /\ breaker' = [breaker EXCEPT ![Name(c)] = Closed]
          /\ streak' = [streak EXCEPT ![Name(c)] = 0]
          /\ lost' = lost \ {Name(c)}
          /\ pc[c] = "send" /\ UNCHANGED <<records, edits>>
      BY <1>3 DEF Reply, Succeeded
    <2> QED BY <2>1, <2>2, <2>3, EndOfRequest
  <1>4. CASE FailTransient(c)
    <2>1. LocalType' /\ InChain' /\ Others(c)
      BY <1>4, AdvanceStep DEF FailTransient
    <2> DEFINE f == Failed(b, TRUE)
               k == Smaller(streak[Name(c)] + 1, Threshold)
    <2>2. /\ breaker' = [breaker EXCEPT ![Name(c)] = f]
          /\ streak' = [streak EXCEPT ![Name(c)] = k]
          /\ lost' = lost \ {Name(c)}
          /\ pc[c] = "send" /\ UNCHANGED <<records, edits>>
      BY <1>4 DEF FailTransient
    <2>3. k \in 0..Threshold /\ k = IF streak[Name(c)] + 1 <= Threshold THEN streak[Name(c)] + 1
                                                                        ELSE Threshold
      BY <1>1, <1>2 DEF Smaller
    <2>4. f \in Breakers /\ f.state # "half_open"
      BY <1>1, FailedBreaker
    <2>5. IF f.state = "closed" THEN k = f.failures ELSE k = Threshold
      <3>1. CASE b.state = "closed"
        <4>1. \/ f.state = "closed" /\ f.failures = b.failures + 1
              \/ b.failures + 1 = Threshold /\ f.state = "open"
          BY <1>1, <3>1, FailedBreaker
        <4> HIDE DEF f, b
        <4> QED BY <1>1, <1>2, <2>3, <3>1, <4>1
      <3>2. CASE b.state # "closed"
        <4>1. f.state = "open"
          BY <1>1, <3>2, FailedBreaker
        <4> HIDE DEF f, b
        <4> QED BY <1>1, <1>2, <2>3, <3>2, <4>1
      <3> QED BY <3>1, <3>2
    <2> HIDE DEF f, k
    <2> QED BY <2>1, <2>2, <2>3, <2>4, <2>5, EndOfRequest
  <1>5. CASE FailHard(c)
    <2>1. LocalType' /\ InChain' /\ Others(c)
      BY <1>5, AdvanceStep DEF FailHard
    <2> DEFINE f == Failed(b, FALSE)
               k == streak[Name(c)]
    <2>2. /\ breaker' = [breaker EXCEPT ![Name(c)] = f]
          /\ streak' = [streak EXCEPT ![Name(c)] = k]
          /\ lost' = lost \ {Name(c)}
          /\ pc[c] = "send" /\ UNCHANGED <<records, edits>>
      BY <1>2, <1>5 DEF FailHard
    <2>3. f \in Breakers /\ f.state # "half_open"
      BY <1>1, FailedBreaker
    <2>4. IF f.state = "closed" THEN k = f.failures ELSE k = Threshold
      <3>1. CASE b.state = "closed"
        BY <1>1, <3>1, FailedBreaker
      <3>2. CASE b.state # "closed"
        BY <1>1, <3>2, FailedBreaker
      <3> QED BY <3>1, <3>2
    <2>5. k \in 0..Threshold
      BY <1>1
    <2> HIDE DEF f, k
    <2> QED BY <2>1, <2>2, <2>3, <2>4, <2>5, EndOfRequest
  <1> QED BY <1>3, <1>4, <1>5

\* Neither another attempt nor the exception tells the breaker anything.
LEMMA UnrecordedSteps ==
    ASSUME IInv, NEW c \in Calls, Retry(c) \/ Surprise(c)
    PROVE  IInv'
  <1>1. LocalType /\ InChain /\ UNCHANGED <<records, breaker, streak, edits>>
    BY TypeParts DEF IInv, Retry, Surprise, history
  <1>2. CASE Retry(c)
    <2>1. LocalType' /\ InChain' /\ Others(c)
      BY <1>1, <1>2, ChainAssumption DEF Retry, LocalType, InChain, Others, Name
    <2>2. pc' = pc /\ probing' = probing /\ \A d \in Calls : Name(d)' = Name(d)
      BY <1>2 DEF Retry, Name
    <2>4. UNCHANGED <<breaker, history>>
      BY <1>2 DEF Retry
    <2>3. HalfOpenIsProbed'
      BY <1>1, <2>2, <2>4 DEF IInv, HalfOpenIsProbed, history
    <2> QED BY <1>1, <2>1, <2>3, <2>4, RestKept, BreakersKept, TypePartsNext DEF IInv
  <1>3. CASE Surprise(c)
    <2>1. LocalType' /\ InChain' /\ Others(c)
      BY <1>3, FinishStep DEF Surprise
    <2>2. /\ lost \subseteq lost' /\ lost' \subseteq lost \union {Name(c)}
          /\ probing[c] /\ breaker[Name(c)].state = "half_open" => Name(c) \in lost'
      BY <1>3 DEF Surprise
    <2>3. HalfOpenIsProbed'
      BY <1>1, <2>1, <2>2, ProbeKept
    <2>4. BreakerType' /\ Counts'
      BY <1>1, <1>3, <2>2, Named, TypeParts DEF IInv, BreakerType, Counts, Surprise
    <2> QED BY <1>1, <2>1, <2>3, <2>4, RestKept, TypePartsNext DEF IInv
  <1> QED BY <1>2, <1>3

LEMMA CoolStep ==
    ASSUME IInv, NEW n \in Names, Cool(n)
    PROVE  IInv'
  <1>1. BreakerType /\ Counts
    BY TypeParts DEF IInv
  <1> DEFINE b == [breaker[n] EXCEPT !.cooled = TRUE]
  <1>2. b \in Breakers /\ b.state = breaker[n].state /\ b.state = "open"
        /\ b.failures = breaker[n].failures
    BY <1>1 DEF BreakerType, Breakers, Cool
  <1>3. breaker' = [breaker EXCEPT ![n] = b] /\ streak' = streak /\ lost' = lost
        /\ UNCHANGED <<records, local, edits>>
    BY DEF Cool, history
  <1> HIDE DEF b
  <1>4. BreakerType' /\ Counts'
    BY <1>1, <1>2, <1>3 DEF BreakerType, Counts
  <1>5. /\ pc' = pc /\ chain' = chain /\ next' = next /\ tried' = tried
        /\ attempt' = attempt /\ probing' = probing
        /\ \A c \in Calls : Name(c)' = Name(c)
    BY <1>3 DEF local, Name
  <1>6. LocalType' /\ InChain'
    BY <1>5, TypeParts DEF IInv, LocalType, InChain
  <1>7. HalfOpenIsProbed'
    BY <1>1, <1>2, <1>3, <1>5 DEF IInv, HalfOpenIsProbed, BreakerType
  <1> QED BY <1>3, <1>4, <1>6, <1>7, RestKept, TypePartsNext DEF IInv

\* Editing the records touches neither calls nor breakers.
LEMMA EditSteps ==
    ASSUME IInv, NEW e \in Editors, Edit(e)
    PROVE  IInv'
  <1>1. RestType /\ Targeted /\ BreakerType /\ LocalType /\ InChain /\ Counts
    BY TypeParts DEF IInv
  <1>2. UNCHANGED <<breaker, streak, lost, local>>
    BY DEF Edit, Demote, Promote, Validate, Relink, Toggle, history
  <1>3. BreakerType' /\ Counts' /\ LocalType' /\ InChain'
    BY <1>1, <1>2 DEF BreakerType, Counts, LocalType, InChain, local
  <1>4. HalfOpenIsProbed'
    <2>1. \A c \in Calls : pc'[c] = pc[c] /\ probing'[c] = probing[c] /\ Name(c)' = Name(c)
      BY <1>2 DEF local, Name
    <2> QED BY <1>2, <2>1 DEF IInv, HalfOpenIsProbed
  <1>5. RestType' /\ Targeted'
    <2> USE <1>1, ChainAssumption DEF RestType, Targeted, Links
    <2>1. CASE Demote(e)
      <3>1. PICK p \in enabled : /\ target' = [target EXCEPT ![e] = p]
                                /\ seen' = [seen EXCEPT ![e] = active]
        BY <2>1 DEF Demote
      <3>2. p \in Providers
        BY <3>1
      <3>3. begun' \in 0..MaxEdits
        BY <2>1 DEF Demote, BeginEdit
      <3> QED BY <2>1, <3>1, <3>2, <3>3 DEF Demote, records
    <2>2. CASE Promote(e)
      BY <2>2 DEF Promote
    <2>3. CASE Validate(e)
      <3>1. PICK p \in Providers, f \in Links : /\ target' = [target EXCEPT ![e] = p]
                                               /\ link' = [link EXCEPT ![e] = f]
        BY <2>3 DEF Validate
      <3>2. begun' \in 0..MaxEdits
        BY <2>3 DEF Validate, BeginEdit
      <3> QED BY <2>3, <3>1, <3>2 DEF Validate, records
    <2>4. CASE Relink(e)
      BY <2>4 DEF Relink
    <2>5. CASE Toggle(e)
      <3>1. PICK p \in Providers :
              enabled' = IF p \in enabled THEN enabled \ {p} ELSE enabled \union {p}
        BY <2>5 DEF Toggle
      <3>2. enabled' \in SUBSET Providers
        BY <3>1
      <3> QED BY <2>5, <3>2 DEF Toggle, BeginEdit
    <2> QED BY <2>1, <2>2, <2>3, <2>4, <2>5 DEF Edit
  <1> QED BY <1>3, <1>4, <1>5, TypePartsNext DEF IInv

-----------------------------------------------------------------------------
(* The theorems.                                                           *)

LEMMA Start == Init => IInv
  <1> SUFFICES ASSUME Init PROVE IInv
    OBVIOUS
  <1>1. RestType /\ LocalType
    BY ChainAssumption DEF Init, RestType, LocalType, Links, Places
  <1>2. BreakerType /\ Counts
    BY ClosedBreaker, ChainAssumption DEF Init, BreakerType, Counts
  <1>3. InChain /\ Targeted
    BY DEF Init, InChain, Targeted
  <1>4. HalfOpenIsProbed
    BY ClosedBreaker DEF Init, HalfOpenIsProbed
  <1> QED BY <1>1, <1>2, <1>3, <1>4, TypeParts DEF IInv

LEMMA Step == IInv /\ [Next]_vars => IInv'
  <1> SUFFICES ASSUME IInv, [Next]_vars PROVE IInv'
    OBVIOUS
  <1>1. CASE UNCHANGED vars
    <2>1. UNCHANGED <<records, edits, breaker, history, local>>
      BY <1>1 DEF vars
    <2>2. LocalType' /\ InChain' /\ HalfOpenIsProbed'
      BY <2>1, TypeParts
         DEF IInv, LocalType, InChain, HalfOpenIsProbed, Name, local, history
    <2> QED BY <2>1, <2>2, RestKept, BreakersKept, TypePartsNext DEF IInv
  <1>2. ASSUME NEW c \in Calls, Begin(c) \/ Call(c) PROVE IInv'
    BY <1>2, ResolveSteps, SkipStep, SendStep, RequestSteps, UnrecordedSteps DEF Call
  <1>3. ASSUME NEW e \in Editors, Edit(e) PROVE IInv'
    BY <1>3, EditSteps
  <1>4. ASSUME NEW n \in Names, Cool(n) PROVE IInv'
    BY <1>4, CoolStep
  <1> QED BY <1>1, <1>2, <1>3, <1>4 DEF Next

\* Records, breakers and calls keep their types, and the counters, chains and
\* probes their relations, whatever is called and edited at once.
THEOREM Inductive == Spec => []IInv
  BY Start, Step, PTL DEF Spec

\* Every variable keeps its type (ai_providers.py:441, ai_runtime.py:41).
THEOREM TypeCorrect == Spec => []TypeOK
  <1>1. IInv => TypeOK
    BY DEF IInv
  <1> QED BY <1>1, Inductive, PTL

\* A breaker is open or half-open only after Threshold transient failures with
\* no success in between, also when late answers arrive (ai_providers.py:487).
THEOREM OpenAfterStreak == Spec => []OpensOnAStreak
  <1>1. IInv => OpensOnAStreak
    <2> SUFFICES ASSUME IInv, NEW n \in Names
                 PROVE  /\ breaker[n].state # "closed" => streak[n] = Threshold
                        /\ breaker[n].failures <= streak[n]
      BY DEF OpensOnAStreak
    <2>1. breaker[n].failures \in 0..Threshold - 1 /\ Threshold \in Nat
      BY TypeParts, ChainAssumption DEF IInv, BreakerType, Breakers
    <2> QED BY <2>1 DEF IInv, Counts
  <1> QED BY <1>1, Inductive, PTL

\* CircuitBreaker.allow, record_failure and record_success: a half-open breaker
\* has its probe under way unless an exception that generate_with_chain does not
\* list ended the probe (ai_providers.py:475, 603).
THEOREM ProbeUnderWay == Spec => []HalfOpenIsProbed
  <1>1. IInv => HalfOpenIsProbed
    BY DEF IInv
  <1> QED BY <1>1, Inductive, PTL

Distinct(s) == \A i, j \in 1..Len(s) : s[i] = s[j] => i = j

\* A chain of one provider, none, or one more that is not in it yet.
LEMMA ChainGrows ==
    ASSUME NEW s \in Seq(Providers), NEW p \in Providers, Distinct(s), p \notin Members(s)
    PROVE  Distinct(Append(s, p))
  BY DEF Distinct, Members

LEMMA DistinctStep == IInv /\ ChainsDontRepeat /\ [Next]_vars => ChainsDontRepeat'
  <1> SUFFICES ASSUME IInv, [Next]_vars, NEW c \in Calls, Distinct(chain[c])
               PROVE  Distinct(chain'[c])
    BY DEF ChainsDontRepeat, Distinct
  <1>1. chain \in [Calls -> Seq(Providers)] /\ RestType
    BY TypeParts DEF IInv, LocalType
  <1>2. Distinct(<<>>) /\ \A p \in Providers : Distinct(<<p>>)
    BY DEF Distinct
  <1>3. CASE chain' = chain
    BY <1>3
  <1>4. ASSUME NEW d \in Calls, Finish(d) PROVE Distinct(chain'[c])
    BY <1>1, <1>2, <1>4 DEF Finish
  <1>5. ASSUME NEW d \in Calls, Begin(d) PROVE Distinct(chain'[c])
    <2>1. PICK p \in active \intersect enabled : chain' = [chain EXCEPT ![d] = <<p>>]
      BY <1>5 DEF Begin
    <2>2. p \in Providers
      BY <1>1 DEF RestType
    <2> QED BY <1>1, <1>2, <2>1, <2>2
  <1>6. ASSUME NEW d \in Calls, Follow(d) PROVE Distinct(chain'[c])
    <2>1. /\ next[d] \in Providers /\ next[d] \notin Members(chain[d])
          /\ chain' = [chain EXCEPT ![d] = Append(chain[d], next[d])]
      BY <1>1, <1>6 DEF Follow, Follows, RestType
    <2>2. CASE c = d
      BY <1>1, <2>1, <2>2, ChainGrows
    <2>3. CASE c # d
      BY <1>1, <2>1, <2>3
    <2> QED BY <2>2, <2>3
  <1>7. ASSUME NEW d \in Calls,
               Resolved(d) \/ Skip(d) \/ Send(d) \/ Reply(d) \/ Retry(d)
               \/ FailTransient(d) \/ FailHard(d) \/ Surprise(d)
        PROVE  chain' = chain \/ Finish(d)
    BY <1>7 DEF Resolved, Skip, Send, Reply, Retry, FailTransient, FailHard, Surprise, Advance
  <1>8. ASSUME NEW e \in Editors, Edit(e) PROVE chain' = chain
    BY <1>8 DEF Edit, Demote, Promote, Validate, Relink, Toggle, local
  <1>9. ASSUME NEW n \in Names, Cool(n) PROVE chain' = chain
    BY <1>9 DEF Cool, local
  <1>10. CASE UNCHANGED vars
    BY <1>3, <1>10 DEF vars, local
  <1> QED BY <1>3, <1>4, <1>5, <1>6, <1>7, <1>8, <1>9, <1>10 DEF Next, Call

\* A resolved chain names each provider once, whatever cycles two edits of the
\* fallback links have closed (ai_runtime.py:66).
THEOREM NoProviderTwice == Spec => []ChainsDontRepeat
  <1>1. Init => ChainsDontRepeat
    BY DEF Init, ChainsDontRepeat
  <1> QED BY <1>1, DistinctStep, Inductive, PTL DEF Spec
-----------------------------------------------------------------------------
(* Calls come to an end.                                                   *)

\* A chain of distinct providers is no longer than there are providers.
LEMMA ChainLength ==
    ASSUME IsFiniteSet(Providers), NEW s \in Seq(Providers), Distinct(s)
    PROVE  Len(s) <= Cardinality(Providers)
  <1>1. Len(s) \in Nat /\ Cardinality(Providers) \in Nat
    BY FS_CardinalityType
  <1>2. IsFiniteSet(1..Len(s)) /\ Cardinality(1..Len(s)) = Len(s)
    <2> DEFINE n == Len(s)
    <2>1. 1 \in Int /\ n \in Int /\ n \in Nat
      BY <1>1
    <2> HIDE DEF n
    <2>2. /\ IsFiniteSet(1..n)
          /\ Cardinality(1..n) = IF 1 > n THEN 0 ELSE n - 1 + 1
      BY <2>1, FS_Interval
    <2>3. IsFiniteSet(1..n) /\ Cardinality(1..n) = n
      BY <2>1, <2>2
    <2> QED BY <2>3 DEF n
  <1>3. CASE Len(s) > Cardinality(Providers)
    <2>1. s \in [1..Len(s) -> Providers]
      OBVIOUS
    <2>2. \E i, j \in 1..Len(s) : i # j /\ s[i] = s[j]
      BY <1>1, <1>2, <1>3, <2>1, FS_PigeonHole
    <2> QED BY <2>2 DEF Distinct
  <1> QED BY <1>1, <1>3

\* The steps a call may still take: to follow the links to the end, to look at
\* every provider left in the chain and to send every attempt to each.
Turns == MaxAttempts + 1
Budget(c) ==
    CASE pc[c] = "resolve" ->
            Cardinality(Providers) - Len(chain[c]) + 1 + Cardinality(Providers) * Turns
      [] pc[c] = "pick" -> (Len(chain[c]) - tried[c]) * Turns + Turns
      [] pc[c] = "send" -> (Len(chain[c]) - tried[c]) * Turns + Turns - attempt[c]
      [] OTHER -> 0

\* Every step of a call uses up some of its budget, and no other call, edit or
\* breaker gives it any back, although fallbacks are rewired while it resolves.
Spends ==
    \A c \in Calls :
        /\ Budget(c) \in Nat
        /\ Call(c) => Budget(c)' < Budget(c)
        /\ pc[c] = "idle" \/ Budget(c)' <= Budget(c)

\* Multiplication by the number of turns, as the budget uses it.
LEMMA OneFewer ==
    ASSUME NEW k \in Int, NEW m \in Nat
    PROVE  (k - 1) * m + m = k * m
  OBVIOUS

LEMMA InBudget ==
    ASSUME IsFiniteSet(Providers), IInv, ChainsDontRepeat, NEW c \in Calls, pc[c] # "idle"
    PROVE  /\ Len(chain[c]) <= Cardinality(Providers) /\ Cardinality(Providers) \in Nat
           /\ Len(chain[c]) \in Nat /\ tried[c] \in 1..Len(chain[c])
           /\ attempt[c] \in 0..MaxAttempts /\ Turns \in Nat
           /\ (Len(chain[c]) - tried[c]) * Turns \in Nat
           /\ Cardinality(Providers) * Turns \in Nat
  <1>1. chain[c] \in Seq(Providers) /\ attempt[c] \in 0..MaxAttempts /\ MaxAttempts \in Nat
    BY ChainAssumption DEF IInv, TypeOK
  <1>2. Distinct(chain[c])
    BY DEF ChainsDontRepeat, Distinct
  <1>3. tried[c] \in 1..Len(chain[c])
    BY DEF IInv, InChain
  <1>4. Len(chain[c]) - tried[c] \in Nat /\ Turns \in Nat
    BY <1>1, <1>3 DEF Turns
  <1>5. \A a, b \in Nat : a * b \in Nat
    OBVIOUS
  <1> QED BY <1>1, <1>2, <1>3, <1>4, <1>5, ChainLength, FS_CardinalityType

Budgets == \A c \in Calls : Budget(c) \in Nat

LEMMA BudgetsNat ==
    ASSUME IsFiniteSet(Providers), IInv, ChainsDontRepeat
    PROVE  Budgets
  <1> SUFFICES ASSUME NEW c \in Calls PROVE Budget(c) \in Nat
    BY DEF Budgets
  <1>1. CASE pc[c] = "idle"
    BY <1>1 DEF Budget
  <1>2. CASE pc[c] # "idle"
    <2> DEFINE a == (Len(chain[c]) - tried[c]) * Turns
               b == Cardinality(Providers) * Turns
               r == Cardinality(Providers) - Len(chain[c])
    <2>1. a \in Nat /\ b \in Nat /\ r \in Nat /\ Turns \in Nat /\ Turns - attempt[c] \in Nat
      BY <1>2, InBudget, ChainAssumption DEF Turns
    <2>2. /\ pc[c] = "resolve" => Budget(c) = r + 1 + b
          /\ pc[c] = "pick" => Budget(c) = a + Turns
          /\ pc[c] = "send" => Budget(c) = a + Turns - attempt[c]
          /\ pc[c] \notin {"resolve", "pick", "send"} => Budget(c) = 0
      BY DEF Budget
    <2>3. attempt[c] \in Nat
      BY <1>2, InBudget, ChainAssumption
    <2> HIDE DEF a, b, r
    <2> QED BY <2>1, <2>2, <2>3
  <1> QED BY <1>1, <1>2

\* What the end of a chain, or the next provider of it, costs.
LEMMA AdvanceSpends ==
    ASSUME IsFiniteSet(Providers), IInv, ChainsDontRepeat, NEW c \in Calls,
           Advance(c), pc[c] \in {"pick", "send"}
    PROVE  Budget(c)' < Budget(c)
  <1> DEFINE k == Len(chain[c]) - tried[c]
  <1>1. /\ k \in Nat /\ Turns \in Nat \ {0} /\ k * Turns \in Nat
        /\ attempt[c] \in 0..MaxAttempts /\ MaxAttempts \in Nat
    BY InBudget, ChainAssumption DEF Turns
  <1>2. k * Turns < Budget(c)
    BY <1>1 DEF Budget, Turns
  <1>3. CASE tried[c] < Len(chain[c])
    <2>1. pc'[c] = "pick" /\ tried'[c] = tried[c] + 1 /\ chain' = chain
      BY <1>3 DEF Advance, IInv, TypeOK
    <2>2. Len(chain'[c]) - tried'[c] = k - 1
      BY <2>1, InBudget
    <2>3. Budget(c)' = (k - 1) * Turns + Turns
      BY <2>1, <2>2 DEF Budget, Turns
    <2> QED BY <1>1, <1>2, <2>3, OneFewer
  <1>4. CASE ~(tried[c] < Len(chain[c]))
    <2>1. pc'[c] = "idle"
      BY <1>4 DEF Advance, Finish, IInv, TypeOK
    <2> QED BY <1>1, <1>2, <2>1 DEF Budget
  <1> QED BY <1>3, <1>4

LEMMA CallSpends ==
    ASSUME IsFiniteSet(Providers), IInv, ChainsDontRepeat,
           NEW c \in Calls, Call(c)
    PROVE  Budget(c)' < Budget(c)
  <1>0. pc[c] # "idle"
    BY DEF Call, Follow, Resolved, Skip, Send, Reply, Retry, FailTransient, FailHard, Surprise
  <1>f. ASSUME Finish(c), pc[c] = "send" PROVE Budget(c)' < Budget(c)
    <2>1. Budget(c)' = 0
      BY <1>f DEF Finish, IInv, TypeOK, Budget
    <2> DEFINE a == (Len(chain[c]) - tried[c]) * Turns
    <2>2. a \in Nat /\ Budget(c) = a + Turns - attempt[c]
      BY <1>f, InBudget DEF Budget
    <2>3. attempt[c] \in 0..MaxAttempts /\ MaxAttempts \in Nat /\ Turns = MaxAttempts + 1
      BY <1>f, InBudget, ChainAssumption DEF Turns
    <2> HIDE DEF a
    <2> QED BY <2>1, <2>2, <2>3
  <1>1. CASE Follow(c)
    <2>1. /\ chain'[c] = Append(chain[c], next[c]) /\ pc' = pc /\ pc[c] = "resolve"
          /\ chain[c] \in Seq(Providers) /\ next[c] \in Providers
      BY <1>1 DEF Follow, Follows, IInv, TypeOK, Links
    <2>2. Len(chain'[c]) = Len(chain[c]) + 1
      BY <2>1
    <2>3. /\ Budget(c) = Cardinality(Providers) - Len(chain[c]) + 1 + Cardinality(Providers) * Turns
          /\ Budget(c)' = Cardinality(Providers) - Len(chain'[c]) + 1 + Cardinality(Providers) * Turns
      BY <2>1 DEF Budget, Turns
    <2> QED BY <1>0, <2>2, <2>3, InBudget
  <1>2. CASE Resolved(c)
    <2>1. pc[c] = "resolve" /\ pc'[c] = "pick" /\ chain' = chain /\ tried' = tried
      BY <1>2 DEF Resolved, IInv, TypeOK
    <2> DEFINE k == Len(chain[c]) - tried[c]
               n == Cardinality(Providers)
    <2>2. /\ Budget(c) = n - Len(chain[c]) + 1 + n * Turns
          /\ Budget(c)' = k * Turns + Turns
      BY <2>1 DEF Budget, Turns
    <2>3. /\ k \in Nat /\ n \in Nat /\ Turns \in Nat /\ k + 1 <= n /\ Len(chain[c]) <= n
          /\ Len(chain[c]) \in Nat /\ k * Turns \in Nat /\ n * Turns \in Nat
      BY <1>0, InBudget
    <2>4. k * Turns + Turns <= n * Turns
      <3> HIDE DEF k, n
      <3>1. PICK d \in Nat : n = (k + 1) + d
        <4>1. n - (k + 1) \in Nat /\ n = (k + 1) + (n - (k + 1))
          BY <2>3
        <4> QED BY <4>1
      <3>2. d * Turns \in Nat
        BY <3>1, <2>3
      <3>3. n * Turns = k * Turns + Turns + d * Turns
        BY <3>1, <2>3
      <3> QED BY <3>2, <3>3, <2>3
    <2> DEFINE b == n * Turns
               m == n - Len(chain[c])
               a == k * Turns
    <2>5. b \in Nat /\ a \in Nat /\ m \in Nat /\ a + Turns <= b /\ Turns \in Nat
      BY <2>3, <2>4
    <2>6. Budget(c) = m + 1 + b /\ Budget(c)' = a + Turns
      BY <2>2
    <2> HIDE DEF k, n, a, b, m
    <2> QED BY <2>5, <2>6
  <1>3. CASE Send(c)
    <2>1. /\ pc[c] = "pick" /\ pc'[c] = "send" /\ chain' = chain /\ tried' = tried
          /\ attempt'[c] = 1
      BY <1>3 DEF Send, IInv, TypeOK
    <2> QED BY <1>0, <2>1, InBudget DEF Budget, Turns
  <1>4. CASE Retry(c)
    <2>1. /\ pc[c] = "send" /\ pc' = pc /\ chain' = chain /\ tried' = tried
          /\ attempt'[c] = attempt[c] + 1
      BY <1>4 DEF Retry, IInv, TypeOK
    <2> QED BY <1>0, <2>1, InBudget DEF Budget, Turns
  <1>5. CASE Skip(c) \/ FailTransient(c) \/ FailHard(c)
    BY <1>5, AdvanceSpends DEF Skip, FailTransient, FailHard
  <1>6. CASE Reply(c) \/ Surprise(c)
    BY <1>6, <1>f DEF Reply, Surprise
  <1> QED BY <1>1, <1>2, <1>3, <1>4, <1>5, <1>6 DEF Call

\* A step of anyone else leaves a call under way as it is.
LEMMA OthersKeep ==
    ASSUME IInv, Next, NEW c \in Calls, pc[c] # "idle", ~Call(c)
    PROVE  pc'[c] = pc[c] /\ chain'[c] = chain[c] /\ tried'[c] = tried[c] /\ attempt'[c] = attempt[c]
  <1> USE DEF IInv, TypeOK
  <1>1. ASSUME NEW d \in Calls, Begin(d)
        PROVE  pc'[c] = pc[c] /\ chain'[c] = chain[c] /\ tried'[c] = tried[c] /\ attempt'[c] = attempt[c]
    BY <1>1 DEF Begin
  <1>2. ASSUME NEW d \in Calls, Call(d)
        PROVE  pc'[c] = pc[c] /\ chain'[c] = chain[c] /\ tried'[c] = tried[c] /\ attempt'[c] = attempt[c]
    <2>1. c # d
      BY <1>2
    <2> QED BY <1>2, <2>1 DEF Call, Follow, Resolved, Skip, Send, Reply, Retry, FailTransient,
               FailHard, Surprise, Advance, Finish
  <1>3. CASE UNCHANGED local
    BY <1>3 DEF local
  <1>4. ASSUME NEW e \in Editors, Edit(e) PROVE UNCHANGED local
    BY <1>4 DEF Edit, Demote, Promote, Validate, Relink, Toggle
  <1> QED BY <1>1, <1>2, <1>3, <1>4 DEF Next, Cool

\* generate_with_chain and resolve_active_provider_chain: a call is over after
\* at most as many steps of its own as its budget says, whatever is edited and
\* however calls fail; no lock or breaker takes it back.
THEOREM CallsSpend ==
    ASSUME IsFiniteSet(Providers)
    PROVE  Spec => [][Spends]_vars
  <1>0. IInv /\ ChainsDontRepeat => Budgets
    BY BudgetsNat
  <1>1. ASSUME IInv, ChainsDontRepeat, Budgets, Budgets', Next PROVE Spends
    <2> SUFFICES ASSUME NEW c \in Calls
                 PROVE  /\ Budget(c) \in Nat
                        /\ Call(c) => Budget(c)' < Budget(c)
                        /\ pc[c] = "idle" \/ Budget(c)' <= Budget(c)
      BY DEF Spends
    <2>1. Budget(c) \in Nat /\ Budget(c)' \in Nat
      BY <1>1 DEF Budgets
    <2>2. Call(c) => Budget(c)' < Budget(c)
      BY <1>1, CallSpends
    <2>3. ASSUME pc[c] # "idle", ~Call(c) PROVE Budget(c)' = Budget(c)
      <3>1. /\ pc'[c] = pc[c] /\ chain'[c] = chain[c]
            /\ tried'[c] = tried[c] /\ attempt'[c] = attempt[c]
        BY <1>1, <2>3, OthersKeep
      <3>2. Turns' = Turns
        BY DEF Turns
      <3> QED BY <3>1, <3>2 DEF Budget
    <2>4. Budget(c)' < Budget(c) => Budget(c)' <= Budget(c)
      BY <2>1
    <2> QED BY <2>1, <2>2, <2>3, <2>4
  <1>2. IInv /\ ChainsDontRepeat /\ Budgets /\ Budgets' /\ [Next]_vars => [Spends]_vars
    BY <1>1
  <1> QED BY <1>0, <1>2, Inductive, NoProviderTwice, PTL DEF Spec
=============================================================================
