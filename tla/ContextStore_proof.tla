------------------------ MODULE ContextStore_proof ------------------------
(***************************************************************************)
(* Proofs about ContextStore for any number of workers and callers, any    *)
(* schemas and any number of analyses: the flights of the schema reads,    *)
(* what a context knows, when an analysis is told of, and that requests go *)
(* on.                                                                     *)
(***************************************************************************)
EXTENDS ContextStore, TLAPS

(* The values the cells of the typed state hold, where they are indexed.   *)
LEMMA Ranges ==
  ASSUME TypeOK, NEW c \in Callers
  PROVE  /\ At[c] \in Workers
         /\ cached[At[c]] \in Schemas \union {None}
         /\ flight[At[c]] \in Callers \union {Nobody}
         /\ schema[c] \in Schemas \union {None} /\ rich[c] \in Schemas \union {None}
         /\ sem[c] \in 0..Analyses /\ lead[c] \in Callers \union {Nobody}
BY ContextAssumption DEF TypeOK

LEMMA OverTyped ==
  ASSUME TypeOK, NEW c \in Callers, Over(c)
  PROVE  /\ pc' = [pc EXCEPT ![c] = "idle"]
         /\ pc' \in [Callers -> Places] /\ lead' \in [Callers -> Callers \union {Nobody}]
         /\ schema' \in [Callers -> Schemas \union {None}]
         /\ rich' \in [Callers -> Schemas \union {None}]
         /\ sem' \in [Callers -> 0..Analyses] /\ floor' \in [Callers -> Schemas \union {None}]
         /\ \A d \in Callers \ {c} : schema'[d] = schema[d] /\ pc'[d] = pc[d]
BY ContextAssumption DEF TypeOK, Over, Goto, Got, Places, None

LEMMA KeyTyped ==
  ASSUME TypeOK, NEW c \in Callers, pc[c] \in {"build", "open", "write", "meta", "install", "broadcast", "lookup"}
  PROVE  Key(c) \in Hashes /\ schema[c] \in Schemas
BY ContextAssumption DEF TypeOK, HasSchema, Key, Schemas

LEMMA InitTyped == Init => TypeOK
BY ContextAssumption DEF Init, TypeOK, HasSchema, Places, Schemas, Contexts, NoContext, None

LEMMA ReadsTyped ==
  ASSUME TypeOK, NEW c \in Callers, Reads(c)
  PROVE  /\ schema' \in [Callers -> Schemas \union {None}]
         /\ rich' \in [Callers -> Schemas \union {None}]
         /\ \A d \in Callers \ {c} : schema'[d] = schema[d]
<1>1. PICK s \in {live, None} : \E r \in {s, None} : Got(c, s, r)
  BY DEF Reads
<1>2. PICK r \in {s, None} : Got(c, s, r)
  BY <1>1
<1> QED BY <1>2 DEF Got, TypeOK

LEMMA LabelTyped ==
  ASSUME TypeOK, NEW c \in Callers, Label(c)
  PROVE  TypeOK'
<1>1. Key(c) \in Hashes
  BY KeyTyped DEF Label
<1>2. analyses' \in 0..Analyses /\ sem' \in [Callers -> 0..Analyses]
  <2>1. disk[Key(c)] \in 0..Analyses
    BY <1>1 DEF TypeOK
  <2>2. CASE c \in Analysts
    <3>1. analyses + 1 \in 0..Analyses
      BY <2>2, ContextAssumption DEF Label, TypeOK
    <3>2. analyses' = analyses + 1 /\ sem' = [sem EXCEPT ![c] = analyses + 1]
      BY <2>2 DEF Label
    <3> QED BY <3>1, <3>2 DEF TypeOK
  <2>3. CASE c \notin Analysts
    BY <2>1, <2>3 DEF Label, TypeOK
  <2> QED BY <2>2, <2>3
<1>3. \/ pc' = [pc EXCEPT ![c] = "open"]
      \/ pc' = [pc EXCEPT ![c] = "meta"]
  BY DEF Label, Goto
<1>4. HasSchema(c)
  BY DEF Label, HasSchema
<1> QED BY <1>2, <1>3, <1>4 DEF Label, TypeOK, HasSchema, store, Places

LEMMA PersistTyped ==
  ASSUME TypeOK, NEW c \in Callers, Open(c) \/ Write(c)
  PROVE  TypeOK'
<1>1. disk' \in [Hashes -> 0..Analyses]
  <2>1. 0 \in 0..Analyses /\ sem[c] \in 0..Analyses
    BY ContextAssumption DEF TypeOK
  <2>2. disk' = disk \/ \E m \in 0..Analyses : disk' = [disk EXCEPT ![Key(c)] = m]
    BY <2>1 DEF Open, Write, None
  <2> QED BY <2>2 DEF TypeOK
<1>2. pc' = [pc EXCEPT ![c] = "write"] \/ pc' = [pc EXCEPT ![c] = "meta"]
  BY DEF Open, Write, Goto
<1>3. HasSchema(c)
  BY DEF Open, Write, HasSchema
<1> QED BY <1>1, <1>2, <1>3 DEF Open, Write, TypeOK, HasSchema, store, Places

LEMMA MetaTyped ==
  ASSUME TypeOK, NEW c \in Callers, Meta(c)
  PROVE  TypeOK'
<1>1. PICK r \in Schemas \union {None} : rich' = [rich EXCEPT ![c] = r]
  BY Ranges DEF Meta, TypeOK
<1> QED BY <1>1 DEF Meta, Goto, TypeOK, HasSchema, store, Places

LEMMA LandTyped ==
  ASSUME TypeOK, NEW c \in Callers, Land(c)
  PROVE  TypeOK'
<1>1. flight' \in [Workers -> Callers \union {Nobody}]
  BY ContextAssumption DEF Land, LeaveFlight, TypeOK
<1>2. /\ pc' \in [Callers -> Places]
      /\ lead' \in [Callers -> Callers \union {Nobody}]
      /\ schema' \in [Callers -> Schemas \union {None}]
      /\ rich' \in [Callers -> Schemas \union {None}]
      /\ floor' \in [Callers -> Schemas \union {None}]
  BY DEF Land, Resolved, TypeOK, Places
<1>3. \A d \in Callers : HasSchema(d)' => schema'[d] # None
  <2> SUFFICES ASSUME NEW d \in Callers, HasSchema(d)'
               PROVE  schema'[d] # None
    OBVIOUS
  <2>1. CASE d = c
    BY <2>1 DEF Land, Resolved, Followers, TypeOK, HasSchema
  <2>2. CASE d # c
    BY <2>2 DEF Land, Followers, TypeOK, HasSchema
  <2> QED BY <2>1, <2>2
<1> QED BY <1>1, <1>2, <1>3 DEF Land, TypeOK

LEMMA InstallTyped ==
  ASSUME TypeOK, NEW c \in Callers, Install(c)
  PROVE  TypeOK'
<1>1. Key(c) \in Hashes /\ At[c] \in Workers
  BY KeyTyped, ContextAssumption DEF Install
<1>2. [rich |-> rich[c], sem |-> sem[c]] \in Contexts
  BY DEF TypeOK, HasSchema, Contexts
<1>3. context' \in [Workers -> [Hashes -> Contexts]] /\ installed' \subseteq 0..Analyses
  BY <1>1, <1>2 DEF Install, TypeOK, HasSchema
<1>4. CASE c \in Analysts
  BY <1>3, <1>4 DEF Install, Goto, TypeOK, HasSchema, Places
<1>5. CASE c \notin Analysts
  <2>1. Over(c)
    BY <1>5 DEF Install
  <2> QED BY <2>1, <1>3, OverTyped DEF Install, TypeOK, HasSchema
<1> QED BY <1>4, <1>5

LEMMA NextTyped == TypeOK /\ [Next]_vars => TypeOK'
<1> SUFFICES ASSUME TypeOK, [Next]_vars PROVE TypeOK'
  OBVIOUS
<1>1. ASSUME NEW c \in Callers, Begin(c) PROVE TypeOK'
  <2>1. cached' \in [Workers -> Schemas \union {None}]
    BY <1>1, ContextAssumption DEF Begin, TypeOK, HasSchema
  <2>2. floor' \in [Callers -> Schemas \union {None}]
    BY <1>1 DEF Begin, TypeOK, HasSchema
  <2> QED BY <1>1, <2>1, <2>2 DEF Begin, Goto, TypeOK, HasSchema, Places
<1>2. ASSUME NEW c \in Callers, Resolve(c) PROVE TypeOK'
  <2>1. CASE cached[At[c]] # None
    <3>1. /\ schema' = [schema EXCEPT ![c] = cached[At[c]]]
          /\ rich' = [rich EXCEPT ![c] = None]
          /\ pc' = [pc EXCEPT ![c] = "lookup"]
          /\ UNCHANGED <<live, disk, analyses, store, inbox, lead, sem, floor, installed>>
      BY <2>1, <1>2 DEF Resolve, Goto, Got
    <3>2. schema' \in [Callers -> Schemas \union {None}] /\ schema'[c] # None
      BY <3>1, <2>1, Ranges DEF TypeOK, HasSchema
    <3>3. pc' \in [Callers -> Places]
      BY <3>1 DEF TypeOK, Places
    <3>4. \A d \in Callers : HasSchema(d)' => schema'[d] # None
      BY <3>1, <3>2 DEF TypeOK, HasSchema
    <3> QED BY <3>1, <3>2, <3>3, <3>4 DEF TypeOK, store
  <2>2. CASE cached[At[c]] = None
    <3>1. /\ pc' = [pc EXCEPT ![c] = "fly"]
          /\ UNCHANGED <<live, disk, analyses, store, inbox, lead, schema, rich, sem, floor,
                         installed>>
      BY <2>2, <1>2 DEF Resolve, Goto
    <3> QED BY <3>1 DEF TypeOK, HasSchema, Places, store
  <2> QED BY <2>1, <2>2
<1>3. ASSUME NEW c \in Callers, Fly(c) PROVE TypeOK'
  <2>1. CASE flight[At[c]] = Nobody
    <3>1. flight' \in [Workers -> Callers \union {Nobody}]
      BY <2>1, <1>3 DEF Fly, TypeOK, HasSchema
    <3>2. pc' = [pc EXCEPT ![c] = "read"]
      BY <2>1, <1>3 DEF Fly, Goto
    <3> QED BY <3>1, <3>2, <2>1, <1>3 DEF Fly, TypeOK, HasSchema, Places
  <2>2. CASE flight[At[c]] # Nobody
    <3>1. lead' \in [Callers -> Callers \union {Nobody}]
      BY <2>2, <1>3, Ranges DEF Fly, TypeOK, HasSchema
    <3>2. pc' = [pc EXCEPT ![c] = "wait"]
      BY <2>2, <1>3 DEF Fly, Goto
    <3> QED BY <3>1, <3>2, <2>2, <1>3 DEF Fly, TypeOK, HasSchema, Places
  <2> QED BY <2>1, <2>2
<1>4. ASSUME NEW c \in Callers, Read(c) PROVE TypeOK'
  BY <1>4, ReadsTyped DEF Read, Goto, TypeOK, HasSchema, Places, store
<1>5. ASSUME NEW c \in Callers, Land(c) PROVE TypeOK'
  BY <1>5, LandTyped
<1>6. ASSUME NEW c \in Callers, Follow(c) PROVE TypeOK'
  BY <1>6 DEF Follow, Unanswered, Goto, TypeOK, HasSchema, Places, store
<1>7. ASSUME NEW c \in Callers, ReadOwn(c) PROVE TypeOK'
  BY <1>7, ReadsTyped DEF ReadOwn, Resolved, Goto, TypeOK, HasSchema, Places, store
<1>8. ASSUME NEW c \in Callers, Publish(c) PROVE TypeOK'
  BY <1>8, ContextAssumption DEF Publish, Goto, TypeOK, HasSchema, Places
<1>9. ASSUME NEW c \in Callers, Lookup(c) PROVE TypeOK'
  <2>1. CASE Over(c)
    BY <2>1, <1>9, OverTyped DEF Lookup, TypeOK, HasSchema, store
  <2>2. CASE Goto(c, "build") /\ UNCHANGED <<lead, schema, rich, sem, floor>>
    BY <2>2, <1>9 DEF Lookup, Goto, TypeOK, HasSchema, Places, store
  <2> QED BY <1>9, <2>1, <2>2 DEF Lookup
<1>10. ASSUME NEW c \in Callers, Label(c) \/ Open(c) \/ Write(c) \/ Meta(c) PROVE TypeOK'
  BY <1>10, LabelTyped, PersistTyped, MetaTyped
<1>11. ASSUME NEW c \in Callers, BuildFails(c) PROVE TypeOK'
  BY <1>11, OverTyped DEF BuildFails, TypeOK, HasSchema, store
<1>12. ASSUME NEW c \in Callers, Install(c) PROVE TypeOK'
  BY <1>12, InstallTyped
<1>13. ASSUME NEW c \in Callers, Broadcast(c) PROVE TypeOK'
  <2>1. inbox' \in [Workers -> SUBSET (0..Analyses)]
    BY <1>13 DEF Broadcast, TypeOK, HasSchema
  <2> QED BY <2>1, <1>13, OverTyped DEF Broadcast, TypeOK, HasSchema, store
<1>14. ASSUME NEW w \in Workers, Expire(w) PROVE TypeOK'
  BY <1>14 DEF Expire, TypeOK, HasSchema, call
<1>15. ASSUME NEW w \in Workers, Receive(w) PROVE TypeOK'
  <2>1. NoContext \in Contexts
    BY DEF Contexts
  <2> QED BY <2>1, <1>15 DEF Receive, TypeOK, HasSchema, call
<1>16. ASSUME Ddl PROVE TypeOK'
  BY <1>16, ContextAssumption DEF Ddl, TypeOK, HasSchema, call, store, Schemas
<1>17. CASE UNCHANGED vars
  BY <1>17 DEF vars, store, call, TypeOK, HasSchema
<1> QED
  BY <1>1, <1>2, <1>3, <1>4, <1>5, <1>6, <1>7, <1>8, <1>9, <1>10, <1>11, <1>12,
     <1>13, <1>14, <1>15, <1>16, <1>17 DEF Next, Steps

\* Type correctness of get_context_ex and rebuild: whatever fails and whoever
\* shares, no caller goes on with a schema that was never read.
THEOREM Typing == Spec => []TypeOK
<1> QED BY InitTyped, NextTyped, PTL DEF Spec

----------------------------------------------------------------------------
(* Flights                                                                 *)

LEMMA FlightsStep == TypeOK /\ FlightsAreUnderWay /\ [Next]_vars => FlightsAreUnderWay'
<1> SUFFICES ASSUME TypeOK, FlightsAreUnderWay, [Next]_vars PROVE FlightsAreUnderWay'
  OBVIOUS
<1>0. Nobody \notin Callers /\ At \in [Callers -> Workers]
  BY ContextAssumption
\* A caller outside the flight goes on to another place outside.
<1> DEFINE GoesOn(c) == /\ pc'[c] \notin {"read", "land", "wait"}
                        /\ \A d \in Callers \ {c} : pc'[d] = pc[d]
<1>a. ASSUME NEW c \in Callers, pc[c] \notin {"read", "land"},
             UNCHANGED flight,
             GoesOn(c),
             \A d \in Callers \ {c} : lead'[d] = lead[d]
      PROVE  FlightsAreUnderWay'
  <2>1. \A w \in Workers : flight[w] # c
    BY <1>a, <1>0 DEF FlightsAreUnderWay
  <2>2. \A w \in Workers : flight'[w] # Nobody =>
          pc'[flight'[w]] \in {"read", "land"} /\ At[flight'[w]] = w
    BY <2>1, <1>a, <1>0 DEF FlightsAreUnderWay, TypeOK
  <2>3. \A d \in Callers : pc'[d] \in {"read", "land"} => flight'[At[d]] = d
    BY <1>a DEF FlightsAreUnderWay
  <2>4. \A d \in Callers : pc'[d] = "wait" =>
          flight'[At[d]] = lead'[d] /\ lead'[d] # Nobody
    BY <1>a DEF FlightsAreUnderWay
  <2> QED BY <2>2, <2>3, <2>4 DEF FlightsAreUnderWay
<1>1. ASSUME NEW c \in Callers, Begin(c) PROVE FlightsAreUnderWay'
  <2>1. GoesOn(c)
    BY <1>1 DEF Begin, Goto, TypeOK
  <2> QED BY <2>1, <1>1, <1>a DEF Begin, Goto
<1>2. ASSUME NEW c \in Callers, Resolve(c) PROVE FlightsAreUnderWay'
  <2>1. GoesOn(c)
    BY <1>2 DEF Resolve, Goto, TypeOK
  <2> QED BY <2>1, <1>2, <1>a DEF Resolve, store
<1>3. ASSUME NEW c \in Callers, Fly(c) PROVE FlightsAreUnderWay'
  <2>1. CASE flight[At[c]] = Nobody
    <3>1. /\ flight' = [flight EXCEPT ![At[c]] = c]
          /\ pc' = [pc EXCEPT ![c] = "read"] /\ lead' = lead
      BY <2>1, <1>3 DEF Fly, Goto
    <3>2. \A d \in Callers : At[d] = At[c] => pc[d] \notin {"read", "land", "wait"}
      BY <2>1, <1>0 DEF FlightsAreUnderWay
    <3>3. ASSUME NEW w \in Workers, flight'[w] # Nobody
          PROVE  pc'[flight'[w]] \in {"read", "land"} /\ At[flight'[w]] = w
      <4>1. CASE w = At[c]
        BY <4>1, <3>1, <1>0 DEF TypeOK
      <4>2. CASE w # At[c]
        <5>1. flight'[w] = flight[w] /\ flight[w] \in Callers
          BY <4>2, <3>1, <3>3, <1>0 DEF TypeOK
        <5>2. pc[flight[w]] \in {"read", "land"} /\ At[flight[w]] = w
          BY <5>1, <3>3 DEF FlightsAreUnderWay
        <5> QED BY <5>1, <5>2, <4>2, <3>1 DEF TypeOK
      <4> QED BY <4>1, <4>2
    <3>4. ASSUME NEW d \in Callers, pc'[d] \in {"read", "land"}
          PROVE  flight'[At[d]] = d
      <4>1. CASE d = c
        BY <4>1, <3>1, <1>0 DEF TypeOK
      <4>2. CASE d # c
        <5>1. pc[d] \in {"read", "land"}
          BY <4>2, <3>1, <3>4 DEF TypeOK
        <5>2. At[d] # At[c] /\ flight[At[d]] = d
          BY <5>1, <3>2 DEF FlightsAreUnderWay
        <5> QED BY <5>2, <3>1, <1>0 DEF TypeOK
      <4> QED BY <4>1, <4>2
    <3>5. \A d \in Callers : pc'[d] = "wait" =>
            flight'[At[d]] = lead'[d] /\ lead'[d] # Nobody
      BY <3>1, <3>2, <1>0 DEF FlightsAreUnderWay, TypeOK
    <3> QED BY <3>3, <3>4, <3>5 DEF FlightsAreUnderWay
  <2>2. CASE flight[At[c]] # Nobody
    <3>1. /\ lead' = [lead EXCEPT ![c] = flight[At[c]]]
          /\ pc' = [pc EXCEPT ![c] = "wait"] /\ flight' = flight
          /\ pc[c] = "fly"
      BY <2>2, <1>3 DEF Fly, Goto
    <3>2. \A w \in Workers : flight[w] # c
      BY <3>1, <1>0 DEF FlightsAreUnderWay
    <3> QED BY <3>1, <3>2, <2>2, <1>0 DEF FlightsAreUnderWay, TypeOK
  <2> QED BY <2>1, <2>2
<1>4. ASSUME NEW c \in Callers, Read(c) PROVE FlightsAreUnderWay'
  BY <1>4, <1>0 DEF Read, Goto, FlightsAreUnderWay, TypeOK, store
<1>5. ASSUME NEW c \in Callers, Land(c) PROVE FlightsAreUnderWay'
  <2>1. /\ flight' = [flight EXCEPT ![At[c]] = Nobody]
        /\ flight[At[c]] = c
    BY <1>5 DEF Land, LeaveFlight, FlightsAreUnderWay
  <2>2. \A d \in Callers :
          /\ d # c /\ d \notin Followers(c) => pc'[d] = pc[d] /\ lead'[d] = lead[d]
          /\ pc'[c] \notin {"read", "land", "wait"}
          /\ d # c /\ d \in Followers(c) => pc'[d] = "woken"
    BY <1>5 DEF Land, Resolved, Followers
  <2>3. ASSUME NEW w \in Workers, flight'[w] # Nobody
        PROVE  pc'[flight'[w]] \in {"read", "land"} /\ At[flight'[w]] = w
    <3>1. w # At[c] /\ flight'[w] = flight[w]
      BY <2>1, <2>3, <1>0 DEF TypeOK
    <3>2. flight[w] \in Callers /\ pc[flight[w]] \in {"read", "land"} /\ At[flight[w]] = w
      BY <2>3, <3>1 DEF FlightsAreUnderWay, TypeOK
    <3>3. flight[w] # c /\ flight[w] \notin Followers(c)
      BY <3>1, <3>2 DEF Followers
    <3> QED BY <2>2, <3>1, <3>2, <3>3
  <2>4. ASSUME NEW d \in Callers, pc'[d] \in {"read", "land"}
        PROVE  flight'[At[d]] = d
    BY <2>1, <2>2, <2>4, <1>0 DEF FlightsAreUnderWay, TypeOK
  <2>5. ASSUME NEW d \in Callers, pc'[d] = "wait"
        PROVE  flight'[At[d]] = lead'[d] /\ lead'[d] # Nobody
    <3>1. d # c /\ d \notin Followers(c)
      BY <2>2, <2>5
    <3>2. pc[d] = "wait" /\ lead'[d] = lead[d]
      BY <3>1, <2>2, <2>5
    <3>3. flight[At[d]] = lead[d] /\ lead[d] # Nobody
      BY <3>2, <1>0 DEF FlightsAreUnderWay
    <3> QED BY <3>1, <3>2, <3>3, <2>1, <1>0 DEF TypeOK, Followers
  <2> QED BY <2>3, <2>4, <2>5 DEF FlightsAreUnderWay
<1>6. ASSUME NEW c \in Callers, Follow(c) PROVE FlightsAreUnderWay'
  <2>1. GoesOn(c)
    BY <1>6 DEF Follow, Goto, Unanswered, TypeOK
  <2>2. \A d \in Callers \ {c} : lead'[d] = lead[d]
    BY <1>6 DEF Follow, TypeOK
  <2> QED BY <2>1, <2>2, <1>6, <1>a DEF Follow, store
<1>7. ASSUME NEW c \in Callers, ReadOwn(c) PROVE FlightsAreUnderWay'
  <2>1. GoesOn(c)
    BY <1>7 DEF ReadOwn, Goto, Resolved, TypeOK
  <2> QED BY <2>1, <1>7, <1>a DEF ReadOwn, store
<1>8. ASSUME NEW c \in Callers, Publish(c) PROVE FlightsAreUnderWay'
  <2>1. GoesOn(c)
    BY <1>8 DEF Publish, Goto, TypeOK
  <2> QED BY <2>1, <1>8, <1>a DEF Publish, Goto
<1>9. ASSUME NEW c \in Callers, Lookup(c) PROVE FlightsAreUnderWay'
  <2>1. GoesOn(c)
    BY <1>9 DEF Lookup, Over, Goto, TypeOK
  <2>2. \A d \in Callers \ {c} : lead'[d] = lead[d]
    BY <1>9 DEF Lookup, Over, TypeOK
  <2> QED BY <2>1, <2>2, <1>9, <1>a DEF Lookup, store
<1>10. ASSUME NEW c \in Callers, Label(c) \/ Open(c) \/ Write(c) \/ Meta(c)
       PROVE  FlightsAreUnderWay'
  <2>1. GoesOn(c)
    BY <1>10 DEF Label, Open, Write, Meta, Goto, TypeOK
  <2>2. pc[c] \notin {"read", "land"} /\ UNCHANGED <<flight, lead>>
    BY <1>10 DEF Label, Open, Write, Meta, store
  <2> QED BY <2>1, <2>2, <1>a
<1>11. ASSUME NEW c \in Callers, BuildFails(c) PROVE FlightsAreUnderWay'
  <2>1. GoesOn(c)
    BY <1>11 DEF BuildFails, Over, Goto, TypeOK
  <2>2. \A d \in Callers \ {c} : lead'[d] = lead[d]
    BY <1>11 DEF BuildFails, Over, TypeOK
  <2> QED BY <2>1, <2>2, <1>11, <1>a DEF BuildFails, store
<1>12. ASSUME NEW c \in Callers, Install(c) PROVE FlightsAreUnderWay'
  <2>1. GoesOn(c)
    BY <1>12 DEF Install, Over, Goto, TypeOK
  <2>2. \A d \in Callers \ {c} : lead'[d] = lead[d]
    BY <1>12 DEF Install, Over, TypeOK
  <2> QED BY <2>1, <2>2, <1>12, <1>a DEF Install
<1>13. ASSUME NEW c \in Callers, Broadcast(c) PROVE FlightsAreUnderWay'
  <2>1. GoesOn(c)
    BY <1>13 DEF Broadcast, Over, Goto, TypeOK
  <2>2. \A d \in Callers \ {c} : lead'[d] = lead[d]
    BY <1>13 DEF Broadcast, Over, TypeOK
  <2> QED BY <2>1, <2>2, <1>13, <1>a DEF Broadcast, store
<1>14. ASSUME UNCHANGED <<flight, pc, lead>> PROVE FlightsAreUnderWay'
  BY <1>14 DEF FlightsAreUnderWay
<1> QED
  BY <1>1, <1>2, <1>3, <1>4, <1>5, <1>6, <1>7, <1>8, <1>9, <1>10, <1>11, <1>12,
     <1>13, <1>14 DEF Next, Steps, Expire, Receive, Ddl, vars, store, call

\* Single flight (_resolve_schema_flight): however leaders fail and sharers give
\* up, the flight in the map is being read, and every sharer's leader will land.
THEOREM Flights == Spec => []FlightsAreUnderWay
<1>1. Init => FlightsAreUnderWay
  BY DEF Init, FlightsAreUnderWay
<1> QED BY <1>1, Typing, FlightsStep, PTL DEF Spec

----------------------------------------------------------------------------
(* Broadcasts                                                              *)

\* What makes BroadcastAfterInstall inductive: who is about to broadcast has
\* installed.
ToldInv ==
    /\ BroadcastAfterInstall
    /\ \A c \in Callers : pc[c] = "broadcast" => sem[c] \in installed

\* The steps that bring nobody to a broadcast.
LEMMA ToldRests ==
  ASSUME ToldInv, installed \subseteq installed',
         \A w \in Workers : inbox'[w] \subseteq inbox[w],
         \A d \in Callers : pc'[d] = "broadcast" => pc[d] = "broadcast" /\ sem'[d] = sem[d]
  PROVE  ToldInv'
BY DEF ToldInv, BroadcastAfterInstall

LEMMA ToldStep == TypeOK /\ ToldInv /\ [Next]_vars => ToldInv'
<1> SUFFICES ASSUME TypeOK, ToldInv, [Next]_vars PROVE ToldInv'
  OBVIOUS
<1>1. ASSUME NEW c \in Callers,
             \/ Begin(c) \/ Resolve(c) \/ Fly(c) \/ Read(c) \/ Follow(c) \/ ReadOwn(c)
             \/ Publish(c) \/ Open(c) \/ Write(c) \/ Meta(c)
      PROVE  ToldInv'
  <2>1. UNCHANGED <<installed, inbox, sem>>
    BY <1>1 DEF Begin, Resolve, Fly, Read, Follow, ReadOwn, Publish, Open, Write, Meta
  <2>2. \A d \in Callers : pc'[d] = "broadcast" => pc[d] = "broadcast"
    BY <1>1 DEF Begin, Resolve, Fly, Read, Follow, Unanswered, ReadOwn, Resolved, Publish,
       Open, Write, Meta, Goto, TypeOK
  <2> QED BY <2>1, <2>2, ToldRests
<1>2. ASSUME NEW c \in Callers, Label(c) PROVE ToldInv'
  <2>1. UNCHANGED <<installed, inbox>>
    BY <1>2 DEF Label
  <2>2. \A d \in Callers : pc'[d] = "broadcast" => pc[d] = "broadcast" /\ sem'[d] = sem[d]
    BY <1>2 DEF Label, Goto, TypeOK
  <2> QED BY <2>1, <2>2, ToldRests
<1>3. ASSUME NEW c \in Callers, Land(c) PROVE ToldInv'
  <2>1. \A d \in Callers : pc'[d] = "broadcast" => pc[d] = "broadcast"
    BY <1>3 DEF Land, Resolved, Followers
  <2> QED BY <1>3, <2>1, ToldRests DEF Land
<1>4. ASSUME NEW c \in Callers, Over(c), UNCHANGED <<installed, inbox>> PROVE ToldInv'
  <2>1. \A d \in Callers : pc'[d] = "broadcast" => pc[d] = "broadcast" /\ sem'[d] = sem[d]
    BY <1>4 DEF Over, Goto, TypeOK
  <2> QED BY <1>4, <2>1, ToldRests
<1>5. ASSUME NEW c \in Callers, Lookup(c) PROVE ToldInv'
  <2>1. CASE Over(c)
    BY <2>1, <1>4, <1>5 DEF Lookup
  <2>2. CASE Goto(c, "build") /\ UNCHANGED <<lead, schema, rich, sem, floor>>
    <3>1. \A d \in Callers : pc'[d] = "broadcast" => pc[d] = "broadcast"
      BY <2>2 DEF Goto, TypeOK
    <3> QED BY <1>5, <2>2, <3>1, ToldRests DEF Lookup
  <2> QED BY <1>5, <2>1, <2>2 DEF Lookup
<1>6. ASSUME NEW c \in Callers, BuildFails(c) PROVE ToldInv'
  BY <1>4, <1>6 DEF BuildFails
<1>7. ASSUME NEW c \in Callers, Install(c) PROVE ToldInv'
  <2>1. installed' = installed \union {sem[c]} /\ UNCHANGED inbox
    BY <1>7 DEF Install
  <2>2. \A d \in Callers : pc'[d] = "broadcast" =>
           sem'[d] = sem[d] /\ (pc[d] = "broadcast" \/ d = c)
    BY <1>7 DEF Install, Over, Goto, TypeOK
  <2> QED BY <2>1, <2>2 DEF ToldInv, BroadcastAfterInstall
<1>8. ASSUME NEW c \in Callers, Broadcast(c) PROVE ToldInv'
  <2>1. sem[c] \in installed /\ UNCHANGED installed /\ Over(c)
    BY <1>8 DEF Broadcast, ToldInv
  <2>2. \A w \in Workers : inbox'[w] \subseteq inbox[w] \union {sem[c]}
    BY <1>8 DEF Broadcast
  <2>3. \A d \in Callers : pc'[d] = "broadcast" => pc[d] = "broadcast" /\ sem'[d] = sem[d]
    BY <2>1 DEF Over, Goto, TypeOK
  <2> QED BY <2>1, <2>2, <2>3 DEF ToldInv, BroadcastAfterInstall
<1>9. ASSUME NEW w \in Workers, Receive(w) PROVE ToldInv'
  <2>1. \A v \in Workers : inbox'[v] \subseteq inbox[v]
    BY <1>9 DEF Receive, TypeOK
  <2> QED BY <1>9, <2>1, ToldRests DEF Receive, call
<1>10. ASSUME UNCHANGED <<installed, inbox, pc, sem>> PROVE ToldInv'
  BY <1>10, ToldRests
<1> QED
  BY <1>1, <1>2, <1>3, <1>5, <1>6, <1>7, <1>8, <1>9, <1>10
     DEF Next, Steps, Expire, Ddl, vars, call

\* rebuild broadcasts after get_context has installed: nobody drops a good
\* context for an analysis that came to nothing, whichever builds fail.
THEOREM Told == Spec => []BroadcastAfterInstall
<1>1. Init => ToldInv
  BY DEF Init, ToldInv, BroadcastAfterInstall
<1>2. ToldInv => BroadcastAfterInstall
  BY DEF ToldInv
<1> QED BY <1>1, <1>2, ToldStep, Typing, PTL DEF Spec

----------------------------------------------------------------------------
(* What a context knows                                                    *)

\* What makes RichIsNoOlder inductive: nobody holds a schema of the future, so
\* the rich schema a build reads again is no older than the one it resolved.
RichInv ==
    /\ \A c \in Callers : schema[c] <= live
    /\ \A c \in Callers : rich[c] # None => schema[c] # None /\ schema[c] <= rich[c]
    /\ \A w \in Workers : cached[w] <= live
    /\ RichIsNoOlder

\* The part of RichInv about the callers and the schema cache, and about the
\* contexts.
CallersInv ==
    /\ \A c \in Callers : schema[c] <= live
    /\ \A c \in Callers : rich[c] # None => schema[c] # None /\ schema[c] <= rich[c]
    /\ \A w \in Workers : cached[w] <= live
ContextsInv ==
    \A w \in Workers, h \in Hashes : context[w][h].rich # None =>
        \E n \in Schemas : Hash[n] = h /\ n <= context[w][h].rich

LEMMA RichParts ==
  ASSUME TypeOK
  PROVE  RichInv <=> CallersInv /\ ContextsInv
<1>1. \A c \in Callers : HasSchema(c) => schema[c] # None
  BY DEF TypeOK, HasSchema
<1> QED BY <1>1 DEF RichInv, CallersInv, ContextsInv, RichIsNoOlder

\* The outcome of one read: a schema as it is now, and the rich one of the
\* same moment or none.
LEMMA ReadsNow ==
  ASSUME TypeOK, CallersInv, NEW c \in Callers, Reads(c), UNCHANGED <<live, cached>>
  PROVE  CallersInv'
<1>1. PICK s \in {live, None} : \E r \in {s, None} : Got(c, s, r)
  BY DEF Reads
<1>2. PICK r \in {s, None} : Got(c, s, r)
  BY <1>1
<1>3. live \in Nat /\ live # None
  BY ContextAssumption DEF TypeOK, Schemas, None
<1>4. \A d \in Callers : /\ d = c => schema'[d] = s /\ rich'[d] = r
                         /\ d # c => schema'[d] = schema[d] /\ rich'[d] = rich[d]
  BY <1>2 DEF Got, TypeOK
<1> QED BY <1>3, <1>4 DEF CallersInv, None

LEMMA OverForgets ==
  ASSUME TypeOK, CallersInv, NEW c \in Callers, Over(c), UNCHANGED <<live, cached>>
  PROVE  CallersInv'
<1>1. \A d \in Callers : /\ d = c => schema'[d] = None /\ rich'[d] = None
                         /\ d # c => schema'[d] = schema[d] /\ rich'[d] = rich[d]
  BY DEF Over, Got, TypeOK
<1>2. live \in Nat
  BY ContextAssumption DEF TypeOK, Schemas
<1> QED BY <1>1, <1>2 DEF CallersInv, None

LEMMA CallersStep == TypeOK /\ CallersInv /\ [Next]_vars => CallersInv'
<1> SUFFICES ASSUME TypeOK, CallersInv, [Next]_vars PROVE CallersInv'
  OBVIOUS
<1>0. live \in Nat /\ live # None
  BY ContextAssumption DEF TypeOK, Schemas, None
<1>r. ASSUME UNCHANGED <<live, schema, rich>>,
             \A w \in Workers : cached'[w] \in {cached[w], None}
      PROVE  CallersInv'
  BY <1>r, <1>0 DEF CallersInv, None
<1>1. ASSUME NEW c \in Callers, Begin(c) PROVE CallersInv'
  BY <1>1, <1>r DEF Begin, TypeOK
<1>2. ASSUME NEW c \in Callers, Resolve(c) PROVE CallersInv'
  <2>1. CASE cached[At[c]] # None
    <3>1. \A d \in Callers :
             /\ d = c => schema'[d] = cached[At[c]] /\ rich'[d] = None
             /\ d # c => schema'[d] = schema[d] /\ rich'[d] = rich[d]
      BY <2>1, <1>2 DEF Resolve, Got, TypeOK
    <3>2. UNCHANGED <<live, cached>> /\ At[c] \in Workers
      BY <1>2, ContextAssumption DEF Resolve, store
    <3> QED BY <3>1, <3>2 DEF CallersInv
  <2>2. CASE cached[At[c]] = None
    BY <2>2, <1>2, <1>r DEF Resolve, store
  <2> QED BY <2>1, <2>2
<1>3. ASSUME NEW c \in Callers, Read(c) PROVE CallersInv'
  BY <1>3, ReadsNow DEF Read, store
<1>4. ASSUME NEW c \in Callers, Land(c) PROVE CallersInv'
  <2>1. \A d \in Callers :
           \/ schema'[d] = schema[c] /\ rich'[d] = rich[c]
           \/ schema'[d] = schema[d] /\ rich'[d] = rich[d]
    BY <1>4 DEF Land
  <2>2. UNCHANGED <<live, cached>>
    BY <1>4 DEF Land
  <2> QED BY <2>1, <2>2 DEF CallersInv
<1>5. ASSUME NEW c \in Callers, ReadOwn(c) PROVE CallersInv'
  BY <1>5, ReadsNow DEF ReadOwn, store
<1>6. ASSUME NEW c \in Callers, Publish(c) PROVE CallersInv'
  BY <1>6 DEF Publish, TypeOK, CallersInv
<1>7. ASSUME NEW c \in Callers, Lookup(c) PROVE CallersInv'
  <2>1. CASE Over(c)
    BY <2>1, <1>7, OverForgets DEF Lookup, store
  <2>2. CASE UNCHANGED <<lead, schema, rich, sem, floor>>
    BY <2>2, <1>7, <1>r DEF Lookup, store
  <2> QED BY <1>7, <2>1, <2>2 DEF Lookup
<1>8. ASSUME NEW c \in Callers, Meta(c) PROVE CallersInv'
  <2>1. schema[c] # None /\ schema[c] <= live
    BY <1>8 DEF Meta, TypeOK, HasSchema, CallersInv
  <2>2. PICK r \in IF rich[c] = None THEN {live, None} ELSE {rich[c]} :
           rich' = [rich EXCEPT ![c] = r]
    BY <1>8 DEF Meta
  <2>3. r # None => schema[c] <= r
    BY <2>1, <2>2 DEF CallersInv
  <2>4. \A d \in Callers : rich'[d] = IF d = c THEN r ELSE rich[d]
    BY <2>2 DEF TypeOK
  <2>5. UNCHANGED <<live, cached, schema>>
    BY <1>8 DEF Meta, store
  <2> QED BY <2>1, <2>3, <2>4, <2>5 DEF CallersInv
<1>9. ASSUME NEW c \in Callers, BuildFails(c) PROVE CallersInv'
  BY <1>9, OverForgets DEF BuildFails, store
<1>10. ASSUME NEW c \in Callers, Install(c) PROVE CallersInv'
  <2>1. CASE Over(c)
    BY <2>1, <1>10, OverForgets DEF Install
  <2>2. CASE UNCHANGED <<lead, schema, rich, sem, floor>>
    BY <2>2, <1>10, <1>r DEF Install
  <2> QED BY <1>10, <2>1, <2>2 DEF Install
<1>11. ASSUME NEW c \in Callers, Broadcast(c) PROVE CallersInv'
  BY <1>11, OverForgets DEF Broadcast, store
<1>12. ASSUME NEW w \in Workers, Expire(w) \/ Receive(w) PROVE CallersInv'
  BY <1>12, <1>r DEF Expire, Receive, call, TypeOK
<1>13. ASSUME Ddl PROVE CallersInv'
  <2>1. live' = live + 1 /\ UNCHANGED <<schema, rich, cached>>
    BY <1>13 DEF Ddl, store, call
  <2>2. /\ \A c \in Callers : schema[c] \in Nat
        /\ \A w \in Workers : cached[w] \in Nat
    <3>1. Schemas \union {None} \subseteq Nat
      BY ContextAssumption DEF Schemas, None
    <3> QED BY <3>1 DEF TypeOK
  <2> QED BY <1>0, <2>1, <2>2 DEF CallersInv
<1>14. ASSUME UNCHANGED <<live, schema, rich, cached>> PROVE CallersInv'
  BY <1>14, <1>r
<1> QED
  BY <1>1, <1>2, <1>3, <1>4, <1>5, <1>6, <1>7, <1>8, <1>9, <1>10, <1>11, <1>12,
     <1>13, <1>14 DEF Next, Steps, Fly, Follow, Label, Open, Write, vars, store, call

LEMMA ContextsStep ==
  TypeOK /\ CallersInv /\ ContextsInv /\ [Next]_vars => ContextsInv'
<1> SUFFICES ASSUME TypeOK, CallersInv, ContextsInv, [Next]_vars PROVE ContextsInv'
  OBVIOUS
<1>1. ASSUME NEW c \in Callers, Install(c) PROVE ContextsInv'
  <2>1. /\ Key(c) \in Hashes /\ schema[c] \in Schemas /\ At[c] \in Workers
        /\ Key(c) = Hash[schema[c]]
    BY <1>1, KeyTyped, ContextAssumption DEF Install, TypeOK, Key
  <2>2. context' = [context EXCEPT ![At[c]][Key(c)] = [rich |-> rich[c], sem |-> sem[c]]]
    BY <1>1 DEF Install
  <2> SUFFICES ASSUME NEW w \in Workers, NEW h \in Hashes, context'[w][h].rich # None
               PROVE  \E n \in Schemas : Hash[n] = h /\ n <= context'[w][h].rich
    BY DEF ContextsInv
  <2>3. CASE w = At[c] /\ h = Key(c)
    <3>1. context'[w][h] = [rich |-> rich[c], sem |-> sem[c]]
      BY <2>1, <2>2, <2>3 DEF TypeOK
    <3>2. schema[c] <= rich[c]
      BY <3>1 DEF CallersInv
    <3> QED BY <3>1, <3>2, <2>1, <2>3
  <2>4. CASE ~(w = At[c] /\ h = Key(c))
    <3>1. context'[w][h] = context[w][h]
      BY <2>1, <2>2, <2>4 DEF TypeOK
    <3> QED BY <3>1 DEF ContextsInv
  <2> QED BY <2>3, <2>4
<1>2. ASSUME NEW w \in Workers, Receive(w) PROVE ContextsInv'
  <2>1. \A v \in Workers, h \in Hashes : context'[v][h] \in {context[v][h], NoContext}
    BY <1>2 DEF Receive, TypeOK
  <2> QED BY <2>1 DEF ContextsInv, NoContext, None
<1>3. ASSUME UNCHANGED context PROVE ContextsInv'
  BY <1>3 DEF ContextsInv
<1> QED
  BY <1>1, <1>2, <1>3 DEF Next, Steps, Begin, Resolve, Fly, Read, Land, Follow,
     ReadOwn, Publish, Lookup, Label, Open, Write, Meta, BuildFails, Broadcast, Expire, Ddl, vars, store

\* The two reads of a build (get_context_ex) can only err forwards: what a
\* context knows of types and keys is of its own schema or of a later one, for
\* any schemas and any number of workers, requests and schema changes.
THEOREM Rich == Spec => []RichIsNoOlder
<1>1. Init => CallersInv /\ ContextsInv
  BY ContextAssumption DEF Init, CallersInv, ContextsInv, NoContext, None
<1>2. TypeOK /\ CallersInv /\ ContextsInv => RichIsNoOlder
  BY RichParts DEF RichInv
<1> QED BY <1>1, <1>2, CallersStep, ContextsStep, Typing, PTL DEF Spec

----------------------------------------------------------------------------
(* Requests go on                                                          *)

\* How far a request has come.
Stage(place) ==
    CASE place = "resolve" -> 1 [] place = "fly" -> 2
      [] place \in {"wait", "read"} -> 3 [] place \in {"woken", "land"} -> 4
      [] place = "own" -> 5 [] place = "publish" -> 6 [] place = "lookup" -> 7
      [] place = "build" -> 8 [] place = "open" -> 9 [] place = "write" -> 10
      [] place = "meta" -> 11 [] place = "install" -> 12
      [] place = "broadcast" -> 13 [] OTHER -> 14

\* A step of the caller's own brings its request further, and no step of anyone
\* else takes it back: a leader that fails does not send its sharers round
\* again, and a request is over after at most twelve steps of its own.
Onward ==
    /\ \A c \in Callers : Steps(c) => Stage(pc[c]) < Stage(pc'[c])
    /\ \A c \in Callers : pc[c] = "idle" \/ Stage(pc[c]) <= Stage(pc'[c])

LEMMA OwnSteps ==
  ASSUME TypeOK, NEW c \in Callers, Steps(c)
  PROVE  /\ Stage(pc[c]) < Stage(pc'[c])
         /\ \A d \in Callers \ {c} :
               pc'[d] = pc[d] \/ (pc[d] = "wait" /\ pc'[d] = "woken")
<1>1. CASE Land(c)
  BY <1>1 DEF Land, Resolved, Followers, Stage, TypeOK
<1>2. CASE Resolve(c) \/ Fly(c) \/ Read(c) \/ Follow(c) \/ ReadOwn(c) \/ Publish(c)
  BY <1>2 DEF Resolve, Fly, Read, Follow, Unanswered, ReadOwn, Resolved, Publish,
     Goto, Stage, TypeOK
<1>3. CASE \/ Lookup(c) \/ Label(c) \/ Open(c) \/ Write(c) \/ Meta(c)
           \/ BuildFails(c) \/ Install(c) \/ Broadcast(c)
  BY <1>3 DEF Lookup, Label, Open, Write, Meta, BuildFails, Install, Broadcast, Over, Goto, Stage, TypeOK
<1> QED BY <1>1, <1>2, <1>3 DEF Steps

\* The safety half of "every request ends" (_resolve_schema_flight and
\* get_context_ex have no loop): what is left to fairness is that the step a
\* request is at is taken.
THEOREM Onwards == Spec => [][Onward]_vars
<1>1. ASSUME TypeOK, Next PROVE Onward
  <2>1. ASSUME NEW c \in Callers, Steps(c) PROVE Stage(pc[c]) < Stage(pc'[c])
    BY <1>1, <2>1, OwnSteps
  <2>2. \A p \in Places : Stage(p) \in Int
    BY DEF Stage
  <2>3. ASSUME NEW c \in Callers, pc[c] # "idle" PROVE Stage(pc[c]) <= Stage(pc'[c])
    <3>0. pc[c] \in Places /\ Stage(pc[c]) \in Int
      BY <1>1, <2>2 DEF TypeOK
    <3>1. ASSUME NEW d \in Callers, Steps(d) PROVE Stage(pc[c]) <= Stage(pc'[c])
      <4>1. CASE c = d
        <5>1. Stage(pc'[c]) \in Int
          BY DEF Stage
        <5> QED BY <4>1, <3>1, <2>1, <3>0, <5>1
      <4>2. CASE c # d
        <5>1. pc'[c] = pc[c] \/ (pc[c] = "wait" /\ pc'[c] = "woken")
          BY <4>2, <3>1, <1>1, OwnSteps
        <5>2. Stage("wait") <= Stage("woken")
          BY DEF Stage
        <5> QED BY <5>1, <5>2, <3>0
      <4> QED BY <4>1, <4>2
    <3>2. ASSUME NEW d \in Callers, Begin(d) PROVE pc'[c] = pc[c]
      BY <3>2, <2>3, <1>1 DEF Begin, Goto, TypeOK
    <3>3. CASE UNCHANGED pc
      BY <3>3, <3>0
    <3> QED BY <1>1, <3>0, <3>1, <3>2, <3>3 DEF Next, Expire, Receive, Ddl, call
  <2> QED BY <2>1, <2>3 DEF Onward
<1>2. TypeOK /\ [Next]_vars => [Onward]_vars
  BY <1>1
<1> QED BY <1>2, Typing, PTL DEF Spec
=============================================================================
