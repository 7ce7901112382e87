-------------------------- MODULE SubscriptionProofs --------------------------
(***************************************************************************)
(* The two kinds of subscription of the server, for any number of          *)
(* subscribers, messages, topics and connections.  The in-process broker   *)
(* (LocalBroker): who is missing from a topic's list, and what the         *)
(* goroutine of a message has done for those it has passed.  The MQTT      *)
(* client (DeviceTopics): no topic of a configured device falls between    *)
(* Subscribe, the connect handler and the MQTT broker.                     *)
(***************************************************************************)
EXTENDS LocalBroker, DeviceTopics, SequenceTheorems, TLAPS
-------------------------------------------------------------------------------
(* The in-process broker                                                   *)

(* Its append is done; its Subscribe is over.                              *)
Appended(s) == client[s] \notin {"outside", "subscribing"}
Stored(s) == Appended(s) /\ client[s] # "storing"

(* Whatever list there is, on the way or in use: who is in it has appended *)
(* itself, and always stands at the place where it has.                    *)
HasPlace(s, i) == Appended(s) /\ Len(loaded[s]) = i
InPlace(q) == \A i \in DOMAIN q, s \in Subscribers : q[i] = s => HasPlace(s, i)

ListsInPlace ==
  /\ InPlace(registry)
  /\ \A u \in Subscribers : InPlace(loaded[u])
  /\ \A m \in Messages : InPlace(list[m]) /\ InPlace(accepted[m])

(* A goroutine stays within its list, and who it is about to send to is    *)
(* the one the message was accepted for.                                   *)
GoroutineInList ==
  \A m \in Messages :
    /\ Len(list[m]) = Len(accepted[m])
    /\ passed[m] <= Len(accepted[m])
    /\ sending[m] # {} => passed[m] + 1 <= Len(accepted[m])
    /\ \A s \in sending[m], t \in Subscribers :
         accepted[m][passed[m] + 1] = t => s = t \/ Overtaken(t)

(* Subscribes that overlap know of each other.                             *)
OverlapsAreKnown ==
  /\ \A s \in Subscribers : \A u \in overlaps[s] : client[u] # "outside"
  /\ \A s, u \in Subscribers : InSubscribe(s) /\ InSubscribe(u) /\ s # u => u \in overlaps[s]

(* Who is not in the list has been overtaken; who is not in the list that  *)
(* a Subscribe is about to extend or store has been, or will be by it.     *)
MissingIsOvertaken ==
  \A s \in Subscribers :
    /\ Stored(s) /\ s \notin ToSet(registry) => Overtaken(s)
    /\ client[s] = "storing" /\ s \notin ToSet(loaded[s]) => Overtaken(s)
    /\ \A u \in Subscribers : Stored(s) /\ InSubscribe(u) /\ s \notin ToSet(loaded[u])
                                => u \in overlaps[s] \/ Overtaken(s)

IInv == /\ TypeOK /\ ListsInPlace /\ GoroutineInList
        /\ OverlapsAreKnown /\ MissingIsOvertaken /\ PassedMeansReceived

-------------------------------------------------------------------------------
(* Lists                                                                   *)

LEMMA ListElements ==
  ASSUME NEW S, NEW q \in Seq(S)
  PROVE  /\ Len(q) \in Nat /\ DOMAIN q = 1..Len(q)
         /\ \A i \in 1..Len(q) : q[i] \in S
         /\ \A e : e \in ToSet(q) <=> \E i \in 1..Len(q) : q[i] = e
BY LenProperties DEF ToSet

LEMMA FunctionIsSeq ==
  ASSUME NEW S, NEW n \in Nat, NEW f \in [1..n -> S]
  PROVE  f \in Seq(S) /\ Len(f) = n
<1>1. f \in Seq(S)
  BY SeqDef, Zenon
<1>2. Len(f) \in Nat /\ 1..Len(f) = 1..n
  BY <1>1, LenProperties
<1>3. QED BY <1>1, <1>2

(* An append leaves every other list as it is, but for the place behind    *)
(* the elements appended to.                                               *)
LEMMA WrittenElements ==
  ASSUME NEW S, NEW a \in Seq(S), NEW b \in Seq(S), NEW e \in S
  PROVE  Written(a, b, e) \in Seq(S) /\ Len(Written(a, b, e)) = Len(a)
<1> DEFINE w == [a EXCEPT ![Len(b) + 1] = e]
<1>1. Len(a) \in Nat /\ a \in [1..Len(a) -> S]
  BY LenProperties
<1>2. w \in [1..Len(a) -> S]
  BY <1>1
<1>3. w \in Seq(S) /\ Len(w) = Len(a)
  <2> HIDE DEF w
  <2>1. QED BY <1>1, <1>2, FunctionIsSeq
<1>4. Written(a, b, e) = w \/ Written(a, b, e) = a
  BY DEF Written
<1> HIDE DEF w
<1>5. QED BY <1>3, <1>4

LEMMA WrittenAt ==
  ASSUME NEW S, NEW a \in Seq(S), NEW b \in Seq(S), NEW e \in S, NEW j \in 1..Len(a)
  PROVE  Written(a, b, e)[j] = a[j] \/ (j = Len(b) + 1 /\ Written(a, b, e)[j] = e)
<1>1. Len(a) \in Nat /\ a \in [1..Len(a) -> S]
  BY LenProperties
<1>2. [a EXCEPT ![Len(b) + 1] = e][j] = IF j = Len(b) + 1 THEN e ELSE a[j]
  BY <1>1
<1>3. QED BY <1>2 DEF Written

(* Who has been overtaken stays so.                                        *)
LEMMA OvertakenStays ==
  ASSUME IInv, NEW t \in Subscribers, Overtaken(t), overlaps[t] \subseteq overlaps'[t],
         \A u \in Subscribers : client'[u] = "subscribing" => client[u] \in {"outside", "subscribing"}
  PROVE  Overtaken(t)'
<1>1. PICK u \in overlaps[t] : client[u] # "subscribing"
  BY DEF Overtaken
<1>2. u \in Subscribers /\ client[u] # "outside"
  BY DEF IInv, TypeOK, OverlapsAreKnown
<1>3. QED BY <1>1, <1>2 DEF Overtaken

-------------------------------------------------------------------------------
(* Subscribers                                                             *)

(* One whose Subscribe is over goes on, and nobody else is concerned.      *)
LEMMA StoredMoves ==
  ASSUME IInv, NEW s \in Subscribers, Stored(s),
         NEW after \in ClientStates \ {"outside", "subscribing", "storing"},
         client' = [client EXCEPT ![s] = after],
         UNCHANGED <<registry, loaded, overlaps, list, accepted>>
  PROVE  /\ ListsInPlace' /\ OverlapsAreKnown' /\ MissingIsOvertaken'
         /\ \A u \in Subscribers : Overtaken(u)' <=> Overtaken(u)
<1> USE DEF IInv, TypeOK
<1>1. \A u \in Subscribers : client'[u] = IF u = s THEN after ELSE client[u]
  OBVIOUS
<1>2. \A u \in Subscribers : /\ Stored(u)' <=> Stored(u)
                             /\ Appended(u)' <=> Appended(u)
                             /\ InSubscribe(u)' <=> InSubscribe(u)
                             /\ client'[u] = "storing" <=> client[u] = "storing"
                             /\ client'[u] = "subscribing" <=> client[u] = "subscribing"
                             /\ client'[u] = "outside" <=> client[u] = "outside"
  BY <1>1 DEF Stored, Appended, InSubscribe, ClientStates
<1>4. ListsInPlace'
  BY <1>2 DEF ListsInPlace, InPlace, HasPlace
<1>5. OverlapsAreKnown'
  BY <1>2 DEF OverlapsAreKnown
<1>6. \A u \in Subscribers : Overtaken(u)' <=> Overtaken(u)
  BY <1>2 DEF Overtaken
<1>7. MissingIsOvertaken'
  BY <1>2, <1>6 DEF MissingIsOvertaken
<1>8. QED BY <1>4, <1>5, <1>6, <1>7

(* The goroutines stay where they are when only subscribers move.          *)
LEMMA GoroutinesStay ==
  ASSUME IInv, \A t \in Subscribers : Overtaken(t) => Overtaken(t)',
         \A t \in Subscribers : active'[t] => active[t],
         UNCHANGED <<list, passed, sending, accepted, received>>
  PROVE  GoroutineInList' /\ PassedMeansReceived'
<1> USE DEF IInv, TypeOK
<1>1. ASSUME NEW m \in Messages
      PROVE  /\ Len(accepted[m]) \in Nat /\ DOMAIN accepted[m] = 1..Len(accepted[m])
             /\ \A i \in 1..Len(accepted[m]) : accepted[m][i] \in Subscribers
  BY ListElements
<1>2. \A m \in Messages : passed[m] + 1 <= Len(accepted[m])
                            => passed[m] + 1 \in 1..Len(accepted[m])
  BY <1>1
<1>3. GoroutineInList'
  BY <1>1, <1>2 DEF GoroutineInList
<1>4. PassedMeansReceived'
  BY <1>1 DEF PassedMeansReceived
<1>5. QED BY <1>3, <1>4

LEMMA LoadStep == ASSUME IInv, NEW s \in Subscribers, LoadSubscriptors(s) PROVE IInv'
<1>0. /\ TypeOK /\ ListsInPlace /\ GoroutineInList
      /\ OverlapsAreKnown /\ MissingIsOvertaken /\ PassedMeansReceived
  BY DEF IInv
<1>1. TypeOK'
  BY <1>0 DEF TypeOK, ClientStates, LoadSubscriptors, At, messageVars
<1>2. /\ \A u \in Subscribers : client'[u] = IF u = s THEN "subscribing" ELSE client[u]
      /\ UNCHANGED <<registry, active, list, passed, sending, accepted, received>>
  BY <1>0 DEF TypeOK, LoadSubscriptors, At, messageVars
<1>3. /\ client[s] = "outside"
      /\ overlaps'[s] = {u \in Subscribers : InSubscribe(u)}
      /\ \A u \in Subscribers \ {s} :
           overlaps'[u] = IF InSubscribe(u) THEN overlaps[u] \cup {s} ELSE overlaps[u]
      /\ \A u \in Subscribers : loaded'[u] = IF u = s THEN registry ELSE loaded[u]
  <2> DEFINE others == {u \in Subscribers : InSubscribe(u)}
  <2>1. /\ client[s] = "outside"
        /\ overlaps' = [u \in Subscribers |-> CASE u = s -> others
                                                [] u \in others -> overlaps[u] \cup {s}
                                                [] OTHER -> overlaps[u]]
        /\ \A u \in Subscribers : loaded'[u] = IF u = s THEN registry ELSE loaded[u]
    BY <1>0 DEF TypeOK, LoadSubscriptors, At
  <2>2. \A u \in Subscribers : u \in others <=> InSubscribe(u)
    OBVIOUS
  <2> HIDE DEF others
  <2>3. /\ overlaps'[s] = others
        /\ \A u \in Subscribers \ {s} :
             overlaps'[u] = IF InSubscribe(u) THEN overlaps[u] \cup {s} ELSE overlaps[u]
    <3>1. overlaps'[s] = others
      BY <2>1, <2>2 DEF InSubscribe
    <3>2. ASSUME NEW u \in Subscribers \ {s}, InSubscribe(u)
          PROVE  overlaps'[u] = overlaps[u] \cup {s}
      BY <2>1, <2>2, <3>2
    <3>3. ASSUME NEW u \in Subscribers \ {s}, ~InSubscribe(u)
          PROVE  overlaps'[u] = overlaps[u]
      BY <2>1, <2>2, <3>3
    <3>4. QED BY <3>1, <3>2, <3>3
  <2>4. QED BY <2>1, <2>3 DEF others
<1>4. \A u \in Subscribers : /\ Stored(u)' <=> Stored(u)
                             /\ Appended(u)' <=> Appended(u)
                             /\ u # s => (InSubscribe(u)' <=> InSubscribe(u))
  BY <1>2, <1>3 DEF Stored, Appended, InSubscribe
<1>5. \A t \in Subscribers : t # s => overlaps[t] \subseteq overlaps'[t]
  BY <1>3
<1>6. \A t \in Subscribers : t # s /\ Overtaken(t) => Overtaken(t)'
  BY <1>2, <1>3, <1>5, OvertakenStays
<1>7. ListsInPlace'
  <2>1. \A t \in Subscribers, i \in Nat : HasPlace(t, i) => HasPlace(t, i)'
    BY <1>3, <1>4 DEF HasPlace, Appended
  <2>2. \A q \in Seq(Subscribers) : DOMAIN q \subseteq Nat
    BY ListElements
  <2>3. QED BY <1>0, <1>2, <1>3, <2>1, <2>2 DEF ListsInPlace, InPlace, TypeOK
<1>8. GoroutineInList' /\ PassedMeansReceived'
  <2>1. ASSUME NEW m \in Messages
        PROVE  /\ Len(accepted[m]) \in Nat /\ DOMAIN accepted[m] = 1..Len(accepted[m])
               /\ \A i \in 1..Len(accepted[m]) :
                    accepted[m][i] \in Subscribers /\ accepted[m][i] # s
    BY <1>0, <1>3, ListElements DEF ListsInPlace, InPlace, HasPlace, Appended, TypeOK
  <2>2. \A m \in Messages : passed[m] + 1 <= Len(accepted[m])
                              => passed[m] + 1 \in 1..Len(accepted[m])
    BY <1>0, <2>1 DEF TypeOK
  <2>3. GoroutineInList'
    BY <1>0, <1>2, <1>6, <2>1, <2>2 DEF GoroutineInList
  <2>4. PassedMeansReceived'
    BY <1>0, <1>2, <1>6, <2>1 DEF PassedMeansReceived
  <2>5. QED BY <2>3, <2>4
<1>9. OverlapsAreKnown'
  <2>1. ASSUME NEW t \in Subscribers, NEW u \in overlaps'[t] PROVE client'[u] # "outside"
    <3>1. CASE t = s
      BY <1>2, <1>3, <2>1, <3>1 DEF InSubscribe
    <3>2. CASE t # s
      <4>1. u = s \/ (u \in overlaps[t] /\ u \in Subscribers)
        BY <1>0, <1>3, <2>1, <3>2 DEF TypeOK
      <4>2. QED BY <1>0, <1>2, <4>1 DEF OverlapsAreKnown
    <3>3. QED BY <3>1, <3>2
  <2>2. ASSUME NEW t \in Subscribers, NEW u \in Subscribers, t # u,
               InSubscribe(t)', InSubscribe(u)'
        PROVE  u \in overlaps'[t]
    <3>1. CASE t = s
      BY <1>3, <1>4, <2>2, <3>1
    <3>2. CASE u = s
      BY <1>3, <1>4, <2>2, <3>2
    <3>3. CASE t # s /\ u # s
      BY <1>0, <1>3, <1>4, <2>2, <3>3 DEF OverlapsAreKnown
    <3>4. QED BY <3>1, <3>2, <3>3
  <2>3. QED BY <2>1, <2>2 DEF OverlapsAreKnown
<1>10. MissingIsOvertaken'
  <2> SUFFICES ASSUME NEW t \in Subscribers
               PROVE  /\ Stored(t)' /\ t \notin ToSet(registry') => Overtaken(t)'
                      /\ client'[t] = "storing" /\ t \notin ToSet(loaded'[t]) => Overtaken(t)'
                      /\ \A u \in Subscribers :
                           Stored(t)' /\ InSubscribe(u)' /\ t \notin ToSet(loaded'[u])
                             => u \in overlaps'[t] \/ Overtaken(t)'
    BY DEF MissingIsOvertaken
  <2>1. CASE t = s
    BY <1>2, <2>1 DEF Stored, Appended
  <2>2. CASE t # s
    <3>1. Stored(t)' /\ t \notin ToSet(registry') => Overtaken(t)'
      BY <1>0, <1>2, <1>4, <1>6, <2>2 DEF MissingIsOvertaken
    <3>2. client'[t] = "storing" /\ t \notin ToSet(loaded'[t]) => Overtaken(t)'
      BY <1>0, <1>2, <1>3, <1>6, <2>2 DEF MissingIsOvertaken
    <3>3. ASSUME NEW u \in Subscribers, Stored(t)', InSubscribe(u)', t \notin ToSet(loaded'[u])
          PROVE  u \in overlaps'[t] \/ Overtaken(t)'
      BY <1>0, <1>3, <1>4, <1>5, <1>6, <2>2, <3>3 DEF MissingIsOvertaken
    <3>4. QED BY <3>1, <3>2, <3>3
  <2>3. QED BY <2>1, <2>2
<1>11. QED BY <1>1, <1>7, <1>8, <1>9, <1>10 DEF IInv

(* Who loses its place to an append in a shared array is overtaken by it.  *)
LEMMA AppendStep == ASSUME IInv, NEW s \in Subscribers, AppendSubscriptor(s) PROVE IInv'
<1>0. /\ TypeOK /\ ListsInPlace /\ GoroutineInList
      /\ OverlapsAreKnown /\ MissingIsOvertaken /\ PassedMeansReceived
  BY DEF IInv
<1> DEFINE n == Len(loaded[s])
           Now(q) == Written(q, loaded[s], s)
<1>1. /\ client[s] = "subscribing"
      /\ \A u \in Subscribers : client'[u] = IF u = s THEN "storing" ELSE client[u]
      /\ \A u \in Subscribers : active'[u] = IF u = s THEN TRUE ELSE active[u]
      /\ registry' = Now(registry)
      /\ \A u \in Subscribers : loaded'[u] = IF u = s THEN Append(loaded[s], s) ELSE Now(loaded[u])
      /\ \A m \in Messages : list'[m] = Now(list[m])
      /\ UNCHANGED <<overlaps, closed, passed, sending, accepted, received, panicked>>
  BY <1>0 DEF TypeOK, AppendSubscriptor, At
<1>2. n \in Nat /\ loaded[s] \in Seq(Subscribers) /\ registry \in Seq(Subscribers)
      /\ \A u \in Subscribers : loaded[u] \in Seq(Subscribers)
      /\ \A m \in Messages : list[m] \in Seq(Subscribers)
  BY <1>0, ListElements DEF TypeOK
<1>3. /\ Append(loaded[s], s) \in Seq(Subscribers) /\ Len(Append(loaded[s], s)) = n + 1
      /\ \A i \in 1..n : Append(loaded[s], s)[i] = loaded[s][i]
      /\ Append(loaded[s], s)[n + 1] = s
  BY <1>2, AppendProperties
<1>4. ASSUME NEW q \in Seq(Subscribers)
      PROVE  /\ Now(q) \in Seq(Subscribers) /\ Len(Now(q)) = Len(q)
             /\ \A i \in 1..Len(q) : Now(q)[i] = q[i] \/ (i = n + 1 /\ Now(q)[i] = s)
  <2> HIDE DEF n, Now
  <2>1. PICK l \in Seq(Subscribers) : l = loaded[s]
    BY <1>2
  <2>2. Now(q) = Written(q, l, s) /\ n = Len(l)
    BY <2>1 DEF n, Now
  <2>3. Written(q, l, s) \in Seq(Subscribers) /\ Len(Written(q, l, s)) = Len(q)
    BY WrittenElements
  <2>4. \A i \in 1..Len(q) : Written(q, l, s)[i] = q[i] \/ (i = Len(l) + 1 /\ Written(q, l, s)[i] = s)
    BY WrittenAt
  <2>5. QED BY <2>2, <2>3, <2>4
<1> HIDE DEF n, Now
<1>5. TypeOK'
  <2>1. client' \in [Subscribers -> ClientStates] /\ active' \in [Subscribers -> BOOLEAN]
    BY <1>0 DEF AppendSubscriptor, At, TypeOK, ClientStates
  <2>2. registry' \in Seq(Subscribers)
    BY <1>1, <1>2, <1>4
  <2>3. loaded' \in [Subscribers -> Seq(Subscribers)]
    <3>1. \A u \in Subscribers : loaded'[u] \in Seq(Subscribers)
      BY <1>1, <1>2, <1>3, <1>4
    <3>2. loaded' = [u \in Subscribers |-> loaded'[u]]
      BY DEF AppendSubscriptor
    <3>3. QED BY <3>1, <3>2
  <2>4. list' \in [Messages -> Seq(Subscribers)]
    <3>1. \A m \in Messages : list'[m] \in Seq(Subscribers)
      BY <1>1, <1>2, <1>4
    <3>2. list' = [m \in Messages |-> list'[m]]
      BY DEF AppendSubscriptor
    <3>3. QED BY <3>1, <3>2
  <2>5. QED BY <1>0, <1>1, <2>1, <2>2, <2>3, <2>4 DEF TypeOK
<1>6. /\ Appended(s)' /\ ~Appended(s) /\ ~Stored(s)' /\ ~Stored(s) /\ InSubscribe(s)
      /\ \A u \in Subscribers : /\ u # s => (Appended(u)' <=> Appended(u))
                                /\ Stored(u)' <=> Stored(u)
                                /\ InSubscribe(u)' <=> InSubscribe(u)
  BY <1>1 DEF Appended, Stored, InSubscribe
<1>7. \A t \in Subscribers : Overtaken(t) => Overtaken(t)'
  BY <1>1, OvertakenStays, Zenon
<1>8. Len(loaded'[s]) = n + 1 /\ \A u \in Subscribers : u # s => Len(loaded'[u]) = Len(loaded[u])
  BY <1>1, <1>2, <1>3, <1>4
<1>9. /\ \A t \in Subscribers, i \in Nat : HasPlace(t, i) => t # s /\ HasPlace(t, i)'
      /\ \A i \in Nat : i = n + 1 => HasPlace(s, i)'
  BY <1>6, <1>8 DEF HasPlace
<1>10. ListsInPlace'
  <2>1. ASSUME NEW q \in Seq(Subscribers), InPlace(q), NEW i \in 1..Len(q), NEW t \in Subscribers
        PROVE  /\ q[i] = t => HasPlace(t, i)'
               /\ Now(q)[i] = t => HasPlace(t, i)'
    <3>1. \A u \in Subscribers : q[i] = u => HasPlace(u, i)'
      BY <1>9, <2>1, ListElements DEF InPlace
    <3>2. i \in Nat /\ (Now(q)[i] = q[i] \/ (i = n + 1 /\ Now(q)[i] = s))
      BY <1>4, ListElements
    <3>3. CASE Now(q)[i] = q[i]
      BY <3>1, <3>3
    <3>4. CASE i = n + 1 /\ Now(q)[i] = s
      BY <1>9, <3>1, <3>2, <3>4
    <3>5. QED BY <3>2, <3>3, <3>4
  <2>2. \A q \in Seq(Subscribers) : DOMAIN q = 1..Len(q) /\ DOMAIN Now(q) = 1..Len(q)
    BY <1>4, ListElements
  <2>3. InPlace(registry)'
    BY <1>0, <1>1, <1>2, <2>1, <2>2 DEF ListsInPlace, InPlace
  <2>4. ASSUME NEW u \in Subscribers PROVE InPlace(loaded[u])'
    <3>1. CASE u # s
      BY <1>0, <1>1, <1>2, <2>1, <2>2, <3>1 DEF ListsInPlace, InPlace
    <3>2. CASE u = s
      <4>1. loaded'[u] = Append(loaded[s], s) /\ DOMAIN loaded'[u] = 1..(n + 1)
        BY <1>1, <1>2, <1>3, <3>2, ListElements
      <4>2. ASSUME NEW i \in 1..(n + 1), NEW t \in Subscribers, loaded'[u][i] = t
            PROVE  HasPlace(t, i)'
        <5>1. CASE i \in 1..n
          BY <1>0, <1>2, <1>3, <2>1, <4>1, <4>2, <5>1 DEF ListsInPlace, n
        <5>2. CASE i = n + 1
          BY <1>2, <1>3, <1>9, <4>1, <4>2, <5>2
        <5>3. QED BY <1>2, <5>1, <5>2
      <4>3. QED BY <4>1, <4>2 DEF InPlace
    <3>3. QED BY <3>1, <3>2
  <2>5. ASSUME NEW m \in Messages PROVE InPlace(list[m])' /\ InPlace(accepted[m])'
    <3>1. /\ list'[m] = Now(list[m]) /\ list[m] \in Seq(Subscribers) /\ InPlace(list[m])
          /\ accepted' = accepted /\ accepted[m] \in Seq(Subscribers) /\ InPlace(accepted[m])
      BY <1>0, <1>1, <1>2 DEF ListsInPlace, TypeOK
    <3>2. InPlace(list[m])'
      BY <2>1, <2>2, <3>1 DEF InPlace
    <3>3. InPlace(accepted[m])'
      BY <2>1, <2>2, <3>1 DEF InPlace
    <3>4. QED BY <3>2, <3>3
  <2>6. QED BY <2>3, <2>4, <2>5 DEF ListsInPlace
(* The one that stood there had not been seen.                             *)
<1>11. ASSUME NEW q \in Seq(Subscribers), InPlace(q), NEW i \in 1..Len(q),
              NEW t \in Subscribers, q[i] = t, Now(q)[i] # t
       PROVE  Overtaken(t)'
  <2>1. i = n + 1 /\ t # s /\ Appended(t) /\ Len(loaded[t]) = n + 1
    BY <1>4, <1>6, <1>11, ListElements DEF InPlace, HasPlace
  <2>2. t \notin ToSet(loaded[s])
    <3>1. SUFFICES ASSUME NEW j \in 1..n, loaded[s][j] = t PROVE FALSE
      BY <1>2, ListElements DEF n
    <3>2. Len(loaded[t]) = j
      <4>1. InPlace(loaded[s]) /\ j \in DOMAIN loaded[s]
        BY <1>0, <1>2, ListElements DEF ListsInPlace, n
      <4>2. QED BY <3>1, <4>1 DEF InPlace, HasPlace
    <3>3. QED BY <1>2, <2>1, <3>1, <3>2
  <2>3. s \in overlaps[t] \/ Overtaken(t)
    <3>1. CASE Stored(t)
      BY <1>0, <1>6, <2>1, <2>2, <3>1 DEF MissingIsOvertaken
    <3>2. CASE ~Stored(t)
      BY <1>0, <1>6, <2>1, <3>2 DEF OverlapsAreKnown, InSubscribe, Stored
    <3>3. QED BY <3>1, <3>2
  <2>4. overlaps'[t] = overlaps[t] /\ client'[s] # "subscribing"
    BY <1>1
  <2>5. QED BY <1>7, <2>1, <2>3, <2>4 DEF Overtaken
(* Who is in a list stays in it or is overtaken.                           *)
<1>12. ASSUME NEW q \in Seq(Subscribers), InPlace(q), NEW t \in Subscribers, t \in ToSet(q)
       PROVE  t \in ToSet(Now(q)) \/ Overtaken(t)'
  <2>1. PICK i \in 1..Len(q) : q[i] = t
    BY <1>12, ListElements
  <2>2. CASE Now(q)[i] = t
    BY <1>4, <2>1, <2>2, ListElements
  <2>3. CASE Now(q)[i] # t
    BY <1>11, <1>12, <2>1, <2>3
  <2>4. QED BY <2>2, <2>3
<1>13. OverlapsAreKnown'
  BY <1>0, <1>1, <1>6 DEF OverlapsAreKnown, TypeOK
<1>14. MissingIsOvertaken'
  <2>1. ASSUME NEW t \in Subscribers, Stored(t)', t \notin ToSet(registry') PROVE Overtaken(t)'
    <3>1. registry \in Seq(Subscribers) /\ InPlace(registry) /\ Stored(t)
      BY <1>0, <1>2, <1>6, <2>1 DEF ListsInPlace
    <3>2. CASE t \in ToSet(registry)
      BY <1>1, <1>12, <2>1, <3>1, <3>2
    <3>3. CASE t \notin ToSet(registry)
      BY <1>0, <1>7, <3>1, <3>3 DEF MissingIsOvertaken
    <3>4. QED BY <3>2, <3>3
  <2>2. ASSUME NEW t \in Subscribers, client'[t] = "storing", t \notin ToSet(loaded'[t])
        PROVE  Overtaken(t)'
    <3>1. CASE t = s
      <4>1. n + 1 \in 1..Len(loaded'[s]) /\ loaded'[s][n + 1] = s /\ loaded'[s] \in Seq(Subscribers)
        <5>1. n + 1 \in 1..(n + 1) BY <1>2
        <5>2. QED BY <1>1, <1>3, <5>1
      <4>2. s \in ToSet(loaded'[s])
        BY <4>1, ListElements
      <4>3. QED BY <2>2, <3>1, <4>2
    <3>2. CASE t # s
      <4>1. /\ client[t] = "storing" /\ loaded'[t] = Now(loaded[t])
            /\ loaded[t] \in Seq(Subscribers) /\ InPlace(loaded[t])
        BY <1>0, <1>1, <1>2, <2>2, <3>2 DEF ListsInPlace
      <4>2. CASE t \in ToSet(loaded[t])
        BY <1>12, <2>2, <4>1, <4>2
      <4>3. CASE t \notin ToSet(loaded[t])
        BY <1>0, <1>7, <4>1, <4>3 DEF MissingIsOvertaken
      <4>4. QED BY <4>2, <4>3
    <3>3. QED BY <3>1, <3>2
  <2>3. ASSUME NEW t \in Subscribers, NEW u \in Subscribers,
               Stored(t)', InSubscribe(u)', t \notin ToSet(loaded'[u])
        PROVE  u \in overlaps'[t] \/ Overtaken(t)'
    <3>1. Stored(t) /\ InSubscribe(u) /\ loaded[u] \in Seq(Subscribers) /\ InPlace(loaded[u])
      BY <1>0, <1>2, <1>6, <2>3 DEF ListsInPlace
    <3>2. CASE t \in ToSet(loaded[u])
      <4>1. CASE u = s
        <5>1. PICK i \in 1..n : loaded[s][i] = t
          BY <1>2, <3>2, <4>1, ListElements DEF n
        <5>2. i \in 1..Len(loaded'[s]) /\ loaded'[s][i] = t /\ loaded'[s] \in Seq(Subscribers)
          <6>1. i \in 1..(n + 1) BY <1>2, <5>1
          <6>2. QED BY <1>1, <1>3, <5>1, <6>1
        <5>3. t \in ToSet(loaded'[s])
          BY <5>2, ListElements
        <5>4. QED BY <2>3, <4>1, <5>3
      <4>2. CASE u # s
        BY <1>1, <1>12, <2>3, <3>1, <3>2, <4>2
      <4>3. QED BY <4>1, <4>2
    <3>3. CASE t \notin ToSet(loaded[u])
      BY <1>0, <1>1, <1>7, <3>1, <3>3 DEF MissingIsOvertaken
    <3>4. QED BY <3>2, <3>3
  <2>4. QED BY <2>1, <2>2, <2>3 DEF MissingIsOvertaken
<1>15. ASSUME NEW m \in Messages
       PROVE  /\ accepted[m] \in Seq(Subscribers) /\ list[m] \in Seq(Subscribers)
              /\ Len(accepted[m]) \in Nat /\ DOMAIN accepted[m] = 1..Len(accepted[m])
              /\ Len(list[m]) = Len(accepted[m]) /\ Len(list'[m]) = Len(accepted[m])
              /\ \A i \in 1..Len(accepted[m]) :
                   accepted[m][i] \in Subscribers /\ accepted[m][i] # s
              /\ passed[m] \in Nat
  <2>1. accepted[m] \in Seq(Subscribers) /\ list[m] \in Seq(Subscribers) /\ passed[m] \in Nat
    BY <1>0 DEF TypeOK
  <2>2. Len(list[m]) = Len(accepted[m]) /\ Len(list'[m]) = Len(accepted[m])
    BY <1>0, <1>1, <1>4, <2>1 DEF GoroutineInList
  <2>3. /\ Len(accepted[m]) \in Nat /\ DOMAIN accepted[m] = 1..Len(accepted[m])
        /\ \A i \in 1..Len(accepted[m]) : accepted[m][i] \in Subscribers
    BY <2>1, ListElements
  <2>4. \A i \in 1..Len(accepted[m]) : accepted[m][i] # s
    BY <1>0, <1>9, <2>3 DEF ListsInPlace, InPlace
  <2>5. QED BY <2>1, <2>2, <2>3, <2>4
<1>16. GoroutineInList'
  <2>1. ASSUME NEW m \in Messages, NEW u \in sending[m], NEW t \in Subscribers,
               accepted[m][passed[m] + 1] = t
        PROVE  u = t \/ Overtaken(t)'
    BY <1>0, <1>1, <1>7, <2>1 DEF GoroutineInList
  <2>2. QED BY <1>0, <1>1, <1>15, <2>1 DEF GoroutineInList
<1>17. PassedMeansReceived'
  <2> SUFFICES ASSUME NEW m \in Messages, NEW t \in Subscribers, NEW i \in 1..Len(accepted[m]),
                      accepted[m][i] = t
               PROVE  \/ Overtaken(t)'
                      \/ i <= passed[m] /\ (m \in received[t] \/ ~active'[t])
                      \/ i > passed[m] /\ list'[m][i] = t
    BY <1>1, <1>15 DEF PassedMeansReceived
  <2>1. t \in Subscribers /\ t # s /\ active'[t] = active[t]
    BY <1>1, <1>15
  <2>2. CASE Overtaken(t)
    BY <1>7, <2>1, <2>2
  <2>3. CASE i <= passed[m] /\ (m \in received[t] \/ ~active[t])
    BY <2>1, <2>3
  <2>4. CASE i > passed[m] /\ list[m][i] = t
    <3>1. list'[m] = Now(list[m]) /\ InPlace(list[m]) /\ i \in 1..Len(list[m])
      BY <1>0, <1>1, <1>15 DEF ListsInPlace
    <3>2. CASE Now(list[m])[i] = list[m][i]
      BY <2>4, <3>1, <3>2
    <3>3. CASE Now(list[m])[i] # list[m][i]
      BY <1>11, <1>15, <2>4, <3>1, <3>3
    <3>4. QED BY <3>2, <3>3
  <2>5. QED BY <1>0, <1>15, <2>2, <2>3, <2>4 DEF PassedMeansReceived
<1>18. QED BY <1>5, <1>10, <1>13, <1>14, <1>16, <1>17 DEF IInv

LEMMA StoreStep == ASSUME IInv, NEW s \in Subscribers, StoreSubscriptors(s) PROVE IInv'
<1> USE DEF IInv, TypeOK, StoreSubscriptors, At, messageVars
<1>1. TypeOK'
  BY DEF ClientStates
<1>2. /\ client[s] = "storing"
      /\ \A u \in Subscribers : client'[u] = IF u = s THEN "waiting" ELSE client[u]
  OBVIOUS
<1>3. /\ InSubscribe(s) /\ ~InSubscribe(s)' /\ Stored(s)' /\ ~Stored(s)
      /\ \A u \in Subscribers : /\ Appended(u)' <=> Appended(u)
                                /\ u # s => (Stored(u)' <=> Stored(u))
                                /\ u # s => (InSubscribe(u)' <=> InSubscribe(u))
  BY <1>2 DEF Appended, Stored, InSubscribe
<1>4. \A t \in Subscribers : Overtaken(t) => Overtaken(t)'
  BY <1>2, OvertakenStays
<1>5. ListsInPlace'
  BY <1>3 DEF ListsInPlace, InPlace, HasPlace
<1>6. GoroutineInList' /\ PassedMeansReceived'
  BY <1>4, GoroutinesStay
<1>7. OverlapsAreKnown'
  BY <1>2, <1>3 DEF OverlapsAreKnown
<1>8. MissingIsOvertaken'
  <2>1. ASSUME NEW t \in Subscribers, Stored(t)', t \notin ToSet(registry') PROVE Overtaken(t)'
    <3>1. CASE t = s
      BY <1>2, <1>4, <2>1, <3>1 DEF MissingIsOvertaken
    <3>2. CASE t # s
      <4>1. s \in overlaps[t] \/ Overtaken(t)
        BY <1>3, <2>1, <3>2 DEF MissingIsOvertaken
      <4>2. QED BY <1>2, <1>4, <4>1 DEF Overtaken
    <3>3. QED BY <3>1, <3>2
  <2>2. ASSUME NEW t \in Subscribers, client'[t] = "storing", t \notin ToSet(loaded'[t])
        PROVE  Overtaken(t)'
    BY <1>2, <1>4, <2>2 DEF MissingIsOvertaken
  <2>3. ASSUME NEW t \in Subscribers, NEW u \in Subscribers,
               Stored(t)', InSubscribe(u)', t \notin ToSet(loaded'[u])
        PROVE  u \in overlaps'[t] \/ Overtaken(t)'
    <3>1. CASE t = s
      BY <1>3, <2>3, <3>1 DEF OverlapsAreKnown
    <3>2. CASE t # s
      BY <1>3, <1>4, <2>3, <3>2 DEF MissingIsOvertaken
    <3>3. QED BY <3>1, <3>2
  <2>4. QED BY <2>1, <2>2, <2>3 DEF MissingIsOvertaken
<1>9. QED BY <1>1, <1>5, <1>6, <1>7, <1>8

(* What a subscriber does later leaves its messages as they are, or makes  *)
(* it inactive.                                                            *)
LEMMA LaterStep ==
  ASSUME IInv, NEW s \in Subscribers,
         Handled(s) \/ Quit(s) \/ Leave(s) \/ Unsubscribe(s) \/ CloseReceiver(s)
  PROVE  IInv'
<1> USE DEF IInv, TypeOK, At, messageVars, Handled, Quit, Leave, Unsubscribe, CloseReceiver
<1>1. TypeOK'
  BY DEF ClientStates
<1>2. PICK after \in ClientStates \ {"outside", "subscribing", "storing"} :
        client' = [client EXCEPT ![s] = after]
  BY DEF ClientStates
<1>3. Stored(s) /\ UNCHANGED <<registry, loaded, overlaps, list, accepted>>
  BY DEF Stored, Appended
<1>4. /\ ListsInPlace' /\ OverlapsAreKnown' /\ MissingIsOvertaken'
      /\ \A u \in Subscribers : Overtaken(u)' <=> Overtaken(u)
  BY <1>2, <1>3, StoredMoves
<1>5. GoroutineInList' /\ PassedMeansReceived'
  <2>1. \A u \in Subscribers : active'[u] => active[u]
    OBVIOUS
  <2>2. UNCHANGED <<list, passed, sending, accepted, received>>
    OBVIOUS
  <2>3. QED BY <1>4, <2>1, <2>2, GoroutinesStay
<1>6. QED BY <1>1, <1>4, <1>5

-------------------------------------------------------------------------------
(* Messages                                                                *)

LEMMA PublishStep == ASSUME IInv, NEW m \in Messages, Publish(m) PROVE IInv'
<1>0. /\ TypeOK /\ ListsInPlace /\ GoroutineInList
      /\ OverlapsAreKnown /\ MissingIsOvertaken /\ PassedMeansReceived
  BY DEF IInv
<1>1. TypeOK'
  BY <1>0 DEF TypeOK, Publish, clientVars
<1>2. \A n \in Messages : /\ accepted'[n] = IF n = m THEN registry ELSE accepted[n]
                          /\ list'[n] = IF n = m THEN registry ELSE list[n]
      /\ UNCHANGED <<clientVars, passed, sending, received>> /\ accepted[m] = <<>>
  BY <1>0 DEF TypeOK, Publish
<1>3. ListsInPlace'
  BY <1>0, <1>2 DEF ListsInPlace, InPlace, HasPlace, Appended, clientVars
<1>4. OverlapsAreKnown' /\ MissingIsOvertaken'
  BY <1>0, <1>2 DEF OverlapsAreKnown, MissingIsOvertaken, Overtaken, Stored, Appended,
                    InSubscribe, clientVars
<1>5. passed[m] = 0 /\ sending[m] = {}
  <2>1. Len(accepted[m]) = 0
    BY <1>2, EmptySeq
  <2>2. passed[m] \in Nat /\ passed[m] <= 0 /\ ~(passed[m] + 1 <= 0)
    BY <1>0, <2>1 DEF GoroutineInList, TypeOK
  <2>3. QED BY <1>0, <2>1, <2>2 DEF GoroutineInList
<1>6. Len(registry) \in Nat /\ DOMAIN registry = 1..Len(registry)
  BY <1>0, ListElements DEF TypeOK
<1>7. \A t \in Subscribers : Overtaken(t)' <=> Overtaken(t)
  BY <1>2 DEF Overtaken, clientVars
<1>8. GoroutineInList'
  BY <1>0, <1>2, <1>5, <1>6, <1>7 DEF GoroutineInList
<1>9. PassedMeansReceived'
  <2>1. \A i \in 1..Len(registry) : i > 0
    BY <1>6
  <2>2. UNCHANGED <<active, received, passed>>
    BY <1>2 DEF clientVars
  <2>3. QED BY <1>0, <1>2, <1>5, <1>6, <1>7, <2>1, <2>2 DEF PassedMeansReceived
<1>10. QED BY <1>1, <1>3, <1>4, <1>8, <1>9 DEF IInv

(* A goroutine has done with its next subscriber, which has received the   *)
(* message or is inactive, unless the one the message was accepted for has *)
(* been overtaken.                                                         *)
LEMMA PassStep ==
  ASSUME IInv, NEW m \in Messages, Pass(m), passed[m] + 1 <= Len(accepted[m]),
         \A t \in Subscribers : accepted[m][passed[m] + 1] = t
                                => Overtaken(t) \/ m \in received'[t] \/ ~active[t],
         sending'[m] = {}, \A k \in Messages : k # m => sending'[k] = sending[k],
         \A u \in Subscribers : received[u] \subseteq received'[u],
         \A u \in Subscribers : Overtaken(u)' <=> Overtaken(u),
         UNCHANGED <<list, accepted, active>>
  PROVE  GoroutineInList' /\ PassedMeansReceived'
<1>0. /\ TypeOK /\ ListsInPlace /\ GoroutineInList
      /\ OverlapsAreKnown /\ MissingIsOvertaken /\ PassedMeansReceived
  BY DEF IInv
<1>1. \A k \in Messages : passed'[k] = IF k = m THEN passed[m] + 1 ELSE passed[k]
  BY <1>0 DEF TypeOK, Pass
<1>2. ASSUME NEW k \in Messages
      PROVE  /\ Len(accepted[k]) \in Nat /\ DOMAIN accepted[k] = 1..Len(accepted[k])
             /\ \A i \in 1..Len(accepted[k]) : accepted[k][i] \in Subscribers
             /\ passed[k] \in Nat
             /\ passed[k] + 1 <= Len(accepted[k]) => passed[k] + 1 \in 1..Len(accepted[k])
  BY <1>0, ListElements DEF TypeOK
<1>3. GoroutineInList'
  BY <1>0, <1>1, <1>2 DEF GoroutineInList
<1>4. ASSUME NEW k \in Messages, NEW t \in Subscribers, NEW i \in 1..Len(accepted[k]),
             accepted[k][i] = t
      PROVE  \/ Overtaken(t)'
             \/ i <= passed'[k] /\ (k \in received'[t] \/ ~active[t])
             \/ i > passed'[k] /\ list[k][i] = t
  <2>1. /\ i \in Nat
        /\ \/ Overtaken(t)
           \/ i <= passed[k] /\ (k \in received[t] \/ ~active[t])
           \/ i > passed[k] /\ list[k][i] = t
    BY <1>0, <1>2, <1>4 DEF PassedMeansReceived
  <2>2. CASE k # m
    BY <1>1, <2>1, <2>2
  <2>3. CASE k = m /\ i = passed[m] + 1
    <3>1. Overtaken(t) \/ m \in received'[t] \/ ~active[t]
      BY <1>4, <2>3
    <3>2. i <= passed'[k]
      BY <1>1, <1>2, <2>3
    <3>3. QED BY <2>1, <2>3, <3>1, <3>2
  <2>4. CASE k = m /\ i # passed[m] + 1
    <3>1. i <= passed[k] => i <= passed'[k]
      BY <1>1, <1>2, <2>1, <2>4
    <3>2. i > passed[k] => i > passed'[k]
      BY <1>1, <1>2, <2>1, <2>4
    <3>3. QED BY <2>1, <3>1, <3>2
  <2>5. QED BY <2>2, <2>3, <2>4
<1>5. PassedMeansReceived'
  BY <1>0, <1>2, <1>4 DEF PassedMeansReceived
<1>6. QED BY <1>3, <1>5

LEMMA TestActiveStep == ASSUME IInv, NEW m \in Messages, TestActive(m) PROVE IInv'
<1> USE DEF IInv, TypeOK, TestActive, HasNext, clientVars
<1> DEFINE i == passed[m] + 1
           s == Following(m)
<1>1. /\ sending[m] = {} /\ Len(list[m]) = Len(accepted[m])
      /\ i <= Len(accepted[m]) /\ i \in 1..Len(accepted[m])
      /\ s \in Subscribers /\ DOMAIN accepted[m] = 1..Len(accepted[m])
  BY ListElements DEF GoroutineInList, Following
<1>2. \A t \in Subscribers : accepted[m][i] = t => s = t \/ Overtaken(t)
  BY <1>1 DEF PassedMeansReceived, Following
<1>3. \A u \in Subscribers : Overtaken(u)' <=> Overtaken(u)
  BY DEF Overtaken
<1>4. TypeOK'
  <2> HIDE DEF s
  <2>1. CASE sending' = [sending EXCEPT ![m] = {s}] /\ UNCHANGED passed
    BY <1>1, <2>1
  <2>2. CASE Pass(m) /\ UNCHANGED sending
    BY <2>2 DEF Pass
  <2>3. QED BY <2>1, <2>2 DEF s
<1>5. ListsInPlace' /\ OverlapsAreKnown' /\ MissingIsOvertaken'
  BY DEF ListsInPlace, InPlace, HasPlace, OverlapsAreKnown, MissingIsOvertaken, Overtaken, Stored,
         Appended, InSubscribe
<1>6. GoroutineInList' /\ PassedMeansReceived'
  <2>1. CASE sending' = [sending EXCEPT ![m] = {s}] /\ UNCHANGED passed
    <3>1. GoroutineInList'
      BY <1>1, <1>2, <1>3, <2>1 DEF GoroutineInList
    <3>2. PassedMeansReceived'
      BY <2>1 DEF PassedMeansReceived, Overtaken
    <3>3. QED BY <3>1, <3>2
  <2>2. CASE ~active[s] /\ Pass(m) /\ UNCHANGED sending
    <3>1. \A t \in Subscribers : accepted[m][i] = t
                                   => Overtaken(t) \/ m \in received'[t] \/ ~active[t]
      BY <1>2, <2>2
    <3>2. QED BY <1>1, <1>3, <2>2, <3>1, PassStep
  <2>3. QED BY <2>1, <2>2
<1>7. QED BY <1>4, <1>5, <1>6

LEMMA DeliverStep == ASSUME IInv, NEW m \in Messages, Deliver(m) PROVE IInv'
<1> USE DEF IInv, TypeOK, Deliver, At
<1>1. PICK s \in sending[m] : /\ client[s] = "waiting"
                              /\ client' = [client EXCEPT ![s] = "busy"]
                              /\ received' = [received EXCEPT ![s] = @ \cup {m}]
  OBVIOUS
<1>2. s \in Subscribers
  OBVIOUS
<1>3. TypeOK'
  BY <1>1, <1>2 DEF Pass, ClientStates
<1>4. /\ ListsInPlace' /\ OverlapsAreKnown' /\ MissingIsOvertaken'
      /\ \A u \in Subscribers : Overtaken(u)' <=> Overtaken(u)
  <2>1. Stored(s) /\ "busy" \in ClientStates \ {"outside", "subscribing", "storing"}
    BY <1>1 DEF Stored, Appended, ClientStates
  <2>2. QED BY <1>1, <1>2, <2>1, StoredMoves
<1>5. GoroutineInList' /\ PassedMeansReceived'
  <2>1. /\ passed[m] + 1 <= Len(accepted[m])
        /\ \A t \in Subscribers : accepted[m][passed[m] + 1] = t => s = t \/ Overtaken(t)
    BY <1>1 DEF GoroutineInList
  <2>2. \A t \in Subscribers : accepted[m][passed[m] + 1] = t
                                 => Overtaken(t) \/ m \in received'[t] \/ ~active[t]
    BY <1>1, <1>2, <2>1
  <2>3. \A u \in Subscribers : received[u] \subseteq received'[u]
    BY <1>1
  <2>4. QED BY <1>4, <2>1, <2>2, <2>3, PassStep
<1>6. QED BY <1>3, <1>4, <1>5

-------------------------------------------------------------------------------
LEMMA InitStep == Init => IInv
<1> SUFFICES ASSUME Init PROVE IInv
  OBVIOUS
<1> USE DEF Init
<1>1. <<>> \in Seq(Subscribers) /\ Len(<<>>) = 0 /\ DOMAIN <<>> = {}
  BY EmptySeq
<1>2. TypeOK
  BY <1>1 DEF TypeOK, ClientStates
<1>3. ListsInPlace /\ OverlapsAreKnown /\ MissingIsOvertaken
  BY <1>1 DEF ListsInPlace, InPlace, OverlapsAreKnown, MissingIsOvertaken, Stored, Appended,
              InSubscribe
<1>4. GoroutineInList /\ PassedMeansReceived
  BY <1>1 DEF GoroutineInList, PassedMeansReceived
<1>5. QED BY <1>2, <1>3, <1>4 DEF IInv

LEMMA NextStep == IInv /\ [Next]_vars => IInv'
<1> SUFFICES ASSUME IInv, [Next]_vars PROVE IInv'
  OBVIOUS
<1>1. ASSUME NEW s \in Subscribers, LoadSubscriptors(s) PROVE IInv'
  BY <1>1, LoadStep
<1>2. ASSUME NEW s \in Subscribers, AppendSubscriptor(s) PROVE IInv'
  BY <1>2, AppendStep
<1>3. ASSUME NEW s \in Subscribers, StoreSubscriptors(s) PROVE IInv'
  BY <1>3, StoreStep
<1>4. ASSUME NEW s \in Subscribers,
             Handled(s) \/ Quit(s) \/ Leave(s) \/ Unsubscribe(s) \/ CloseReceiver(s)
      PROVE  IInv'
  BY <1>4, LaterStep
<1>5. ASSUME NEW m \in Messages, Publish(m) PROVE IInv'
  BY <1>5, PublishStep
<1>6. ASSUME NEW m \in Messages, TestActive(m) PROVE IInv'
  BY <1>6, TestActiveStep
<1>7. ASSUME NEW m \in Messages, Deliver(m) PROVE IInv'
  BY <1>7, DeliverStep
<1>8. ASSUME UNCHANGED clientVars, UNCHANGED <<list, passed, sending, accepted, received>>,
             panicked' \in BOOLEAN
      PROVE  IInv'
  BY <1>8 DEF clientVars, IInv, TypeOK, ListsInPlace, InPlace, HasPlace, GoroutineInList,
              OverlapsAreKnown, MissingIsOvertaken, Overtaken, Stored, Appended, InSubscribe, PassedMeansReceived
<1>9. ASSUME NEW m \in Messages, SendOnClosed(m) PROVE IInv'
  BY <1>8, <1>9 DEF SendOnClosed
<1>10. CASE UNCHANGED vars
  BY <1>8, <1>10 DEF vars, messageVars, IInv, TypeOK
<1>11. QED
  BY <1>1, <1>2, <1>3, <1>4, <1>5, <1>6, <1>7, <1>9, <1>10 DEF Next

LEMMA Invariance == Spec => []IInv
<1>1. QED BY InitStep, NextStep, PTL DEF Spec

(* The broker's lists, goroutines and subscribers stay well typed, with    *)
(* whatever append writes into arrays that lists share.                    *)
THEOREM BrokerTypeCorrect == Spec => []TypeOK
<1>1. IInv => TypeOK
  BY DEF IInv
<1>2. QED BY <1>1, Invariance, PTL

(* A subscription is lost only to a Subscribe that overlapped it.          *)
THEOREM SubscriptionsLostByOverlap == Spec => []LostOnlyByOverlap
<1>1. IInv => LostOnlyByOverlap
  BY DEF IInv, MissingIsOvertaken, LostOnlyByOverlap, Subscribed, Stored, Appended
<1>2. QED BY <1>1, Invariance, PTL

(* A message's goroutine passes nobody by who is still subscribed, however *)
(* many subscribers there are and whichever lists share an array: only who *)
(* has lost the subscription to an overlapping Subscribe misses it.        *)
THEOREM NobodyIsPassedBy == Spec => []PassedMeansReceived
<1>1. IInv => PassedMeansReceived
  BY DEF IInv
<1>2. QED BY <1>1, Invariance, PTL

-------------------------------------------------------------------------------
(* The MQTT client                                                         *)

(* A tick that is not inside Subscribe holds no topic.                     *)
NoTopicBetween == \A g \in Ticks : tick[g].stage \in {"idle", "new", "next"} => tick[g].topic = {}

(* The connection that is open is one of the bounded number.               *)
OpenHasNumber == connected => connection \in Connections

(* Once the device is configured, each topic is in the client's map, or    *)
(* some tick has still to put it there.                                    *)
StoredOrPending ==
  known => \A t \in Topics : t \in subscriptions \/ \E g \in Ticks : t \in tick[g].rest

(* A topic in the client's map is subscribed, refused or somebody's to ask *)
(* for as long as there is a connection.                                   *)
SomebodyAsks(t) ==
  \/ t \in subscribed \cup refused
  \/ handler[connection] = "started"
  \/ t \in left[connection]
  \/ \E g \in Ticks : t \in tick[g].topic

StoredIsAsked == connected => \A t \in subscriptions : SomebodyAsks(t)

TopicsInv == TopicsTypeOK /\ NoTopicBetween /\ OpenHasNumber /\ StoredOrPending /\ StoredIsAsked

-------------------------------------------------------------------------------
(* Every step of the ticks, the handlers and the connection keeps the      *)
(* variables in their types.                                               *)
LEMMA TopicsTypeStep ==
  ASSUME TopicsTypeOK, [TopicsNext]_topicsVars
  PROVE  TopicsTypeOK'
<1> USE DEF TopicsTypeOK, Connections, Stages, Idle
<1>1. CASE CreateDevice
  BY <1>1 DEF CreateDevice, connectionVars, handlerVars, brokerVars, duplicateVars
<1>2. ASSUME NEW g \in Ticks, Reconcile(g) PROVE TopicsTypeOK'
  BY <1>2 DEF Reconcile, connectionVars, handlerVars, brokerVars, duplicateVars
<1>3. ASSUME NEW g \in Ticks, StoreDevice(g) PROVE TopicsTypeOK'
  BY <1>3 DEF StoreDevice, connectionVars, handlerVars, brokerVars, duplicateVars
<1>4. ASSUME NEW g \in Ticks, StoreSubscription(g) PROVE TopicsTypeOK'
  BY <1>4 DEF StoreSubscription, connectionVars, handlerVars, brokerVars, duplicateVars
<1>5. ASSUME NEW g \in Ticks, TestConnection(g) PROVE TopicsTypeOK'
  <2>1. /\ Returned(g) \in [stage : Stages, rest : SUBSET Topics, topic : SUBSET Topics]
        /\ [tick[g] EXCEPT !.stage = "open"]
              \in [stage : Stages, rest : SUBSET Topics, topic : SUBSET Topics]
    BY DEF Returned
  <2>2. tick' \in [Ticks -> [stage : Stages, rest : SUBSET Topics, topic : SUBSET Topics]]
    <3>1. CASE tick' = [tick EXCEPT ![g].stage = "open"]
      BY <2>1, <3>1
    <3>2. CASE tick' = [tick EXCEPT ![g] = Returned(g)]
      BY <2>1, <3>2
    <3> QED
      BY <1>5, <3>1, <3>2 DEF TestConnection
  <2> QED
    BY <1>5, <2>2 DEF TestConnection, connectionVars, handlerVars, brokerVars, duplicateVars
<1>6. ASSUME NEW g \in Ticks, Subscribe(g) PROVE TopicsTypeOK'
  BY <1>6 DEF Subscribe, SubscribeOnBroker, Returned, connectionVars,
              handlerVars, brokerVars, duplicateVars
<1>7. CASE Connect
  BY <1>7, TopicsAssumption DEF Connect, workerVars, duplicateVars
<1>8. CASE ConnectionLost
  BY <1>8 DEF ConnectionLost, workerVars, handlerVars, duplicateVars
<1>9. ASSUME NEW k \in Connections, ResubscribeAll(k) PROVE TopicsTypeOK'
  BY <1>9 DEF ResubscribeAll, workerVars, connectionVars, brokerVars, duplicateVars
<1>10. ASSUME NEW k \in Connections, NEW t \in Topics, Resubscribe(k, t) PROVE TopicsTypeOK'
  BY <1>10 DEF Resubscribe, SubscribeOnBroker, workerVars, connectionVars, brokerVars, duplicateVars
<1>11. ASSUME NEW k \in Connections, EndResubscribe(k) PROVE TopicsTypeOK'
  BY <1>11 DEF EndResubscribe, workerVars, connectionVars, brokerVars, duplicateVars
<1>12. ASSUME NEW t \in Published, Receive(t) \/ Forget(Key(t)) PROVE TopicsTypeOK'
  BY <1>12 DEF Receive, Forget, workerVars, connectionVars, handlerVars, brokerVars
<1>13. CASE UNCHANGED topicsVars
  BY <1>13 DEF topicsVars, workerVars, connectionVars, handlerVars, brokerVars, duplicateVars
<1> QED
  BY <1>1, <1>2, <1>3, <1>4, <1>5, <1>6, <1>7, <1>8, <1>9, <1>10, <1>11, <1>12, <1>13
  DEF TopicsNext, TickStep, HandlerStep

LEMMA TopicsTypeAtFirst == ASSUME TopicsInit PROVE TopicsTypeOK
<1>1. tick \in [Ticks -> [stage : Stages, rest : SUBSET Topics, topic : SUBSET Topics]]
  BY DEF TopicsInit, Idle, Stages
<1>2. /\ handler \in [Connections -> {"none", "started", "restoring", "ended"}]
      /\ left \in [Connections -> SUBSET Topics]
  BY DEF TopicsInit
<1>3. connection \in 0..MaxConnections
  BY TopicsAssumption DEF TopicsInit
<1> QED
  BY <1>1, <1>2, <1>3 DEF TopicsInit, TopicsTypeOK

(* The worker's ticks, the client's map and the connect handlers stay      *)
(* within their types, whatever connections do.                            *)
THEOREM TopicsTypeCorrect == TopicsSpec => []TopicsTypeOK
<1>1. TopicsInit => TopicsTypeOK
  BY TopicsTypeAtFirst
<1>2. TopicsTypeOK /\ [TopicsNext]_topicsVars => TopicsTypeOK'
  BY TopicsTypeStep
<1>3. QED BY <1>1, <1>2, PTL DEF TopicsSpec

-------------------------------------------------------------------------------
(* The rest of the invariant, step by step.                                *)
LEMMA TopicsInvStep ==
  ASSUME TopicsInv, [TopicsNext]_topicsVars
  PROVE  TopicsInv'
<1> SUFFICES NoTopicBetween' /\ OpenHasNumber' /\ StoredOrPending' /\ StoredIsAsked'
  BY TopicsTypeStep DEF TopicsInv
<1> DEFINE Goal == NoTopicBetween /\ OpenHasNumber /\ StoredOrPending /\ StoredIsAsked
<1>0. TopicsTypeOK /\ TopicsTypeOK' /\ Goal
  BY TopicsTypeStep DEF TopicsInv
<1> USE <1>0 DEF TopicsTypeOK, Connections, Stages, Idle,
                 NoTopicBetween, OpenHasNumber, StoredOrPending, StoredIsAsked, SomebodyAsks
<1>1. CASE CreateDevice
  BY <1>1 DEF CreateDevice, connectionVars, handlerVars, brokerVars, duplicateVars
<1>2. ASSUME NEW g \in Ticks, Reconcile(g) PROVE Goal'
  BY <1>2 DEF Reconcile, connectionVars, handlerVars, brokerVars, duplicateVars
<1>3. ASSUME NEW g \in Ticks, StoreDevice(g) PROVE Goal'
  BY <1>3 DEF StoreDevice, connectionVars, handlerVars, brokerVars, duplicateVars
<1>4. ASSUME NEW g \in Ticks, StoreSubscription(g) PROVE Goal'
  BY <1>4 DEF StoreSubscription, connectionVars, handlerVars, brokerVars, duplicateVars
<1>5. ASSUME NEW g \in Ticks, TestConnection(g) PROVE Goal'
  <2>1. /\ UNCHANGED <<known, subscriptions, connected, connection, handler, left, subscribed,
                       refused>>
        /\ \A h \in Ticks : tick'[h].rest = tick[h].rest
        /\ \A h \in Ticks : h # g => tick'[h] = tick[h]
        /\ tick'[g].topic = {} \/ (connected /\ tick'[g].topic = tick[g].topic)
        /\ tick'[g].topic = {} \/ tick'[g].stage = "open"
    BY <1>5 DEF TestConnection, Returned, connectionVars, handlerVars, brokerVars
  <2>2. connected => tick'[g].topic = tick[g].topic
    BY <1>5, <2>1 DEF TestConnection
  <2>3. NoTopicBetween' /\ OpenHasNumber'
    BY <2>1
  <2>4. StoredOrPending' /\ StoredIsAsked'
    BY <2>1, <2>2
  <2>5. QED BY <2>3, <2>4
<1>6. ASSUME NEW g \in Ticks, Subscribe(g) PROVE Goal'
  BY <1>6 DEF Subscribe, SubscribeOnBroker, Returned, connectionVars,
              handlerVars, brokerVars, duplicateVars
<1>7. CASE Connect
  BY <1>7, TopicsAssumption DEF Connect, workerVars, duplicateVars
<1>8. CASE ConnectionLost
  BY <1>8 DEF ConnectionLost, workerVars, handlerVars, duplicateVars
<1>9. ASSUME NEW k \in Connections, ResubscribeAll(k) PROVE Goal'
  BY <1>9 DEF ResubscribeAll, workerVars, connectionVars, brokerVars, duplicateVars
<1>10. ASSUME NEW k \in Connections, NEW t \in Topics, Resubscribe(k, t) PROVE Goal'
  BY <1>10 DEF Resubscribe, SubscribeOnBroker, workerVars, connectionVars, brokerVars, duplicateVars
<1>11. ASSUME NEW k \in Connections, EndResubscribe(k) PROVE Goal'
  BY <1>11 DEF EndResubscribe, workerVars, connectionVars, brokerVars, duplicateVars
<1>12. ASSUME NEW t \in Published, Receive(t) \/ Forget(Key(t)) PROVE Goal'
  BY <1>12 DEF Receive, Forget, workerVars, connectionVars, handlerVars, brokerVars
<1>13. CASE UNCHANGED topicsVars
  BY <1>13 DEF topicsVars, workerVars, connectionVars, handlerVars, brokerVars, duplicateVars
<1> QED
  BY <1>1, <1>2, <1>3, <1>4, <1>5, <1>6, <1>7, <1>8, <1>9, <1>10, <1>11, <1>12, <1>13
  DEF TopicsNext, TickStep, HandlerStep

(* Whatever the order in which Subscribe, resubscribeAll and the           *)
(* connection take their steps, a topic of a configured device is          *)
(* subscribed, refused, or about to be asked for, while connected.         *)
THEOREM TopicsNeverForgotten == TopicsSpec => []MissedOnlyByRefusal
<1>1. TopicsInit => TopicsInv
  <2>1. TopicsInit => TopicsTypeOK
    BY TopicsTypeAtFirst
  <2>2. TopicsInit => NoTopicBetween /\ OpenHasNumber /\ StoredOrPending /\ StoredIsAsked
    BY DEF TopicsInit, Idle, NoTopicBetween, OpenHasNumber, StoredOrPending, StoredIsAsked
  <2>3. QED BY <2>1, <2>2 DEF TopicsInv
<1>2. TopicsInv => MissedOnlyByRefusal
  BY DEF TopicsInv, TopicsTypeOK, StoredOrPending, StoredIsAsked, SomebodyAsks,
         MissedOnlyByRefusal, AboutToAsk
<1>3. TopicsInv /\ [TopicsNext]_topicsVars => TopicsInv'
  BY TopicsInvStep
<1>4. QED BY <1>1, <1>2, <1>3, PTL DEF TopicsSpec
===============================================================================
