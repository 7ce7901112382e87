-------------------------- MODULE VictronStatusProofs --------------------------
(***************************************************************************)
(* What the dashboards of a Victron installation are shown, for any        *)
(* services, instances, values, clients, losses and crashes, and any       *)
(* capacity of the hub's channel.                                          *)
(***************************************************************************)
EXTENDS VictronStatus, SequenceTheorems, WellFoundedInduction, TLAPS

(* The channel is a sequence, and every connection has been shown a        *)
(* summary or nothing yet.                                                 *)
HubFits == broadcast \in Seq(ToSet(broadcast)) /\ DOMAIN shown = Clients

(* Unless the channel was full, what is last in it is the summary of what  *)
(* the hub knows; when it is empty, the clients have been sent that.       *)
NewestIsLast ==
  ~dropped => IF broadcast = <<>>
              THEN \A c \in clients : shown[c] = Summary(snapshot, order)
              ELSE broadcast[Len(broadcast)] = Summary(snapshot, order)

(* What has a value is in the hub's slices, where its loops find it.       *)
ReportedIsListed ==
  \A t \in Topics : snapshot[t] # Unreported => <<t.service, t.instance>> \in ToSet(order)

IInv == TypeOK /\ HubFits /\ NewestIsLast /\ ReportedIsListed

-------------------------------------------------------------------------------
(* Sequences                                                               *)

(* A nonempty set of the indices of a sequence has a largest element.      *)
LEMMA LargestIndex ==
  ASSUME NEW n \in Nat, NEW I \in SUBSET (1..n), I # {}
  PROVE  Max(I) \in I
<1> DEFINE Rest == {k \in Nat : n - k \in I}
<1>1. Rest \subseteq Nat /\ Rest # {}
  <2>1. PICK i \in I : TRUE
    OBVIOUS
  <2>2. n - i \in Nat /\ n - (n - i) = i
    BY <2>1
  <2>3. n - i \in Rest
    BY <2>1, <2>2
  <2>4. QED BY <2>3
<1>2. PICK k \in Rest : \A j \in Rest : ~ (<<j, k>> \in OpToRel(<, Nat))
  <2> HIDE DEF Rest
  <2>1. QED BY <1>1, NatLessThanWellFounded, WFMin
<1>3. \A j \in Rest : ~ (j < k)
  BY <1>1, <1>2 DEF OpToRel
<1>4. n - k \in I /\ \A i \in I : n - k >= i
  <2>1. ASSUME NEW i \in I PROVE n - k >= i
    <3>1. n - i \in Nat /\ n - (n - i) = i
      OBVIOUS
    <3>2. n - i \in Rest
      BY <3>1
    <3>3. ~ (n - i < k)
      BY <1>3, <3>2
    <3>4. QED BY <1>1, <3>1, <3>3
  <2>2. QED BY <2>1
<1>5. QED BY <1>4 DEF Max

(* What a loop over a slice keeps is a value of an element that is set,    *)
(* and it keeps none only if there is none.                                *)
LEMMA LastSetIsSet ==
  ASSUME NEW S, NEW o \in Seq(S), NEW s, NEW service, NEW path, NEW unset, Unreported \in unset,
         NEW v, v = LastSet(s, o, service, path, unset)
  PROVE  /\ v # Unreported =>
              \E e \in ToSet(o) : e[1] = service /\ v = At(s, service, e[2], path)
         /\ v = Unreported =>
              \A e \in ToSet(o) : e[1] = service => At(s, service, e[2], path) \in unset
<1> DEFINE Set(e) == e[1] = service /\ At(s, service, e[2], path) \notin unset
<1> DEFINE I == {i \in 1..Len(o) : Set(o[i])}
<1> DEFINE last == IF I # {} THEN Max(I) ELSE 0
<1>1. Len(o) \in Nat /\ DOMAIN o = 1..Len(o)
  BY LenProperties
<1>2. v = IF last = 0 THEN Unreported ELSE At(s, service, o[last][2], path)
  BY DEF LastSet, SelectLastInSeq
<1>3. CASE I = {}
  <2>1. v = Unreported
    BY <1>2, <1>3
  <2>2. ASSUME NEW e \in ToSet(o), e[1] = service PROVE At(s, service, e[2], path) \in unset
    <3>1. PICK i \in 1..Len(o) : o[i] = e
      BY <1>1 DEF ToSet
    <3>2. QED BY <1>3, <2>2, <3>1
  <2>3. QED BY <2>1, <2>2
<1>4. CASE I # {}
  <2>1. last \in I
    <3> DEFINE J == I
    <3>1. J \in SUBSET (1..Len(o)) /\ J # {}
      BY <1>4
    <3> HIDE DEF J
    <3>2. Max(J) \in J
      BY <1>1, <3>1, LargestIndex
    <3>3. QED BY <1>4, <3>2 DEF J
  <2> HIDE DEF last
  <2>2. last # 0 /\ last \in 1..Len(o) /\ Set(o[last])
    BY <1>1, <2>1
  <2>3. v = At(s, service, o[last][2], path)
    BY <1>2, <2>2
  <2>4. v # Unreported
    BY <2>2, <2>3
  <2>5. o[last] \in ToSet(o)
    BY <1>1, <2>2 DEF ToSet
  <2>6. QED BY <2>2, <2>3, <2>4, <2>5
<1>5. QED BY <1>3, <1>4

-------------------------------------------------------------------------------
(* The AC input                                                            *)

(* The hub has a value for an instance of a service if its topic has been  *)
(* reported ...                                                            *)
LEMMA FoundIsReported ==
  ASSUME TypeOK, NEW service, NEW i, NEW path, At(snapshot, service, i, path) # Unreported
  PROVE  \E t \in Reported(service, path) : snapshot[t] = At(snapshot, service, i, path)
<1> DEFINE t == [service |-> service, instance |-> i, path |-> path]
<1>1. t \in Topics /\ At(snapshot, service, i, path) = snapshot[t]
  BY DEF At
<1>2. t.service = service /\ t.path = path
  OBVIOUS
<1>3. t \in Reported(service, path)
  BY <1>1, <1>2 DEF Reported
<1>4. QED BY <1>1, <1>3

(* ... and each topic that has been is that of an instance in its slices.  *)
LEMMA ReportedIsFound ==
  ASSUME ReportedIsListed, NEW service, NEW path, NEW t \in Reported(service, path)
  PROVE  \E e \in ToSet(order) : /\ e[1] = service /\ e[2] = t.instance
                                 /\ At(snapshot, service, e[2], path) = snapshot[t]
<1> DEFINE e == <<t.service, t.instance>>
<1>1. t \in Topics /\ t.service = service /\ t.path = path /\ snapshot[t] # Unreported
  BY DEF Reported
<1>2. e \in ToSet(order)
  BY <1>1 DEF ReportedIsListed
<1>3. t = [service |-> service, instance |-> t.instance, path |-> path]
  BY <1>1, VictronAssumption
<1>4. At(snapshot, service, t.instance, path) = snapshot[t]
  BY <1>1, <1>3 DEF At
<1>5. e[1] = service /\ e[2] = t.instance
  BY <1>1
<1>6. QED BY <1>2, <1>4, <1>5

(* So a loop over the slices finds what has been reported.                 *)
LEMMA LoopFindsReported ==
  ASSUME TypeOK, ReportedIsListed, NEW service, NEW path,
         NEW v, v = LastSet(snapshot, order, service, path, {Unreported})
  PROVE  /\ v # Unreported => \E t \in Reported(service, path) : v = snapshot[t]
         /\ v = Unreported => Reported(service, path) = {}
<1> DEFINE S == {<<t.service, t.instance>> : t \in Topics}
<1>1. order \in Seq(S)
  BY DEF TypeOK
<1> HIDE DEF S
<1>2. /\ v # Unreported =>
           \E e \in ToSet(order) : e[1] = service /\ v = At(snapshot, service, e[2], path)
      /\ v = Unreported =>
           \A e \in ToSet(order) :
             e[1] = service => At(snapshot, service, e[2], path) \in {Unreported}
  BY <1>1, LastSetIsSet
<1>3. ASSUME v # Unreported PROVE \E t \in Reported(service, path) : v = snapshot[t]
  <2>1. PICK e \in ToSet(order) : v = At(snapshot, service, e[2], path)
    BY <1>2, <1>3
  <2>2. QED BY <1>3, <2>1, FoundIsReported
<1>4. ASSUME v = Unreported, NEW t \in Reported(service, path) PROVE FALSE
  <2>1. PICK e \in ToSet(order) : e[1] = service /\ At(snapshot, service, e[2], path) = snapshot[t]
    BY ReportedIsFound
  <2>2. snapshot[t] # Unreported
    BY DEF Reported
  <2>3. QED BY <1>2, <1>4, <2>1, <2>2
<1>5. QED BY <1>3, <1>4

(* There is one system service, whose instance is 0.                       *)
LEMMA SourceIsReported ==
  ASSUME ReportedIsListed, NEW path, At(snapshot, "system", 0, path) = Unreported
  PROVE  Reported("system", path) = {}
<1>1. ASSUME NEW t \in Reported("system", path) PROVE FALSE
  <2>1. t \in Topics /\ t.service = "system" /\ snapshot[t] # Unreported
    BY DEF Reported
  <2>2. t.instance = 0
    BY <2>1, VictronAssumption
  <2>3. At(snapshot, "system", 0, path) = snapshot[t]
    BY <2>2, ReportedIsFound
  <2>4. QED BY <2>1, <2>3
<1>2. QED BY <1>1

LEMMA IndicatorsDecide ==
  ASSUME TypeOK, ReportedIsListed PROVE IndicatorsWin
<1> SUFFICES ASSUME NEW known \in BOOLEAN, Indications = {known}
             PROVE  AcInputConnected(snapshot, order) = known
  BY DEF IndicatorsWin
<1> DEFINE connected == LastSet(snapshot, order, "vebus", "Ac/ActiveIn/Connected", {Unreported})
<1> DEFINE activeInput == LastSet(snapshot, order, "vebus", "Ac/ActiveIn/ActiveInput", {Unreported})
<1> DEFINE source == At(snapshot, "system", 0, "Ac/ActiveIn/Source")
<1>1. /\ connected # Unreported =>
           \E t \in Reported("vebus", "Ac/ActiveIn/Connected") : connected = snapshot[t]
      /\ connected = Unreported => Reported("vebus", "Ac/ActiveIn/Connected") = {}
  BY LoopFindsReported
<1>2. /\ activeInput # Unreported =>
           \E t \in Reported("vebus", "Ac/ActiveIn/ActiveInput") : activeInput = snapshot[t]
      /\ activeInput = Unreported => Reported("vebus", "Ac/ActiveIn/ActiveInput") = {}
  BY LoopFindsReported
<1>3. /\ source # Unreported =>
           \E t \in Reported("system", "Ac/ActiveIn/Source") : source = snapshot[t]
      /\ source = Unreported => Reported("system", "Ac/ActiveIn/Source") = {}
  BY FoundIsReported, SourceIsReported
<1>4. /\ \A t \in Reported("vebus", "Ac/ActiveIn/Connected") : (snapshot[t] > 0) = known
      /\ \A t \in Reported("vebus", "Ac/ActiveIn/ActiveInput") : (snapshot[t] # NoInput) = known
      /\ \A t \in Reported("system", "Ac/ActiveIn/Source") : (snapshot[t] # NoInput) = known
  BY DEF Indications
<1>5. ~ (connected = Unreported /\ activeInput = Unreported /\ source = Unreported)
  BY <1>1, <1>2, <1>3 DEF Indications
<1>6. CASE connected # Unreported
  <2>1. AcInputConnected(snapshot, order) = (connected > 0)
    BY <1>6 DEF AcInputConnected
  <2>2. QED BY <1>1, <1>4, <1>6, <2>1
<1>7. CASE connected = Unreported /\ activeInput # Unreported
  <2>1. AcInputConnected(snapshot, order) = (activeInput # NoInput)
    BY <1>7 DEF AcInputConnected
  <2>2. QED BY <1>2, <1>4, <1>7, <2>1
<1>8. CASE connected = Unreported /\ activeInput = Unreported /\ source # Unreported
  <2>1. AcInputConnected(snapshot, order) = (source # NoInput)
    BY <1>8 DEF AcInputConnected
  <2>2. QED BY <1>3, <1>4, <1>8, <2>1
<1>9. QED BY <1>5, <1>6, <1>7, <1>8

-------------------------------------------------------------------------------
(* The hub's channel and its slices                                        *)

LEMMA OwnElements == ASSUME NEW S, NEW q \in Seq(S) PROVE q \in Seq(ToSet(q))
<1>1. Len(q) \in Nat /\ q \in [1..Len(q) -> S] /\ DOMAIN q = 1..Len(q)
  BY LenProperties
<1>2. q \in [1..Len(q) -> ToSet(q)]
  BY <1>1 DEF ToSet
<1> DEFINE T == ToSet(q)
<1>3. q \in [1..Len(q) -> T]
  BY <1>2
<1> HIDE DEF T
<1>4. q \in UNION {[1..n -> T] : n \in Nat}
  BY <1>1, <1>3
<1>5. Seq(T) = UNION {[1..n -> T] : n \in Nat}
  BY SeqDef
<1>6. q \in Seq(T)
  BY <1>4, <1>5, Zenon
<1>7. QED BY <1>6 DEF T

LEMMA Appended ==
  ASSUME NEW q, q \in Seq(ToSet(q)), NEW x, NEW b, b = Append(q, x)
  PROVE  b \in Seq(ToSet(b)) /\ Len(b) = Len(q) + 1 /\ b # <<>> /\ b[Len(b)] = x
<1> DEFINE S == ToSet(q) \cup {x}
<1>1. q \in Seq(S) /\ x \in S /\ Len(q) \in Nat
  BY SeqMonotonic, LenProperties
<1> HIDE DEF S
<1>2. b \in Seq(S) /\ Len(b) = Len(q) + 1 /\ b[Len(q) + 1] = x
  BY <1>1, AppendProperties
<1>3. b # <<>>
  BY <1>1, <1>2, EmptySeq
<1>4. QED BY <1>2, <1>3, OwnElements

LEMMA Taken ==
  ASSUME NEW q, q \in Seq(ToSet(q)), q # <<>>, NEW b, b = Tail(q)
  PROVE  /\ b \in Seq(ToSet(b)) /\ Len(b) = Len(q) - 1 /\ Len(q) \in Nat
         /\ b = <<>> => Head(q) = q[Len(q)]
         /\ b # <<>> => b[Len(b)] = q[Len(q)]
<1> DEFINE S == ToSet(q)
<1> HIDE DEF S
<1>0. q \in Seq(S)
  BY DEF S
<1>1. b \in Seq(S) /\ Len(b) = Len(q) - 1 /\ \A i \in 1..Len(b) : b[i] = q[i + 1]
  <2>1. /\ Tail(q) \in Seq(S) /\ Len(Tail(q)) = Len(q) - 1
        /\ \A i \in 1..Len(Tail(q)) : Tail(q)[i] = q[i + 1]
    BY <1>0, HeadTailProperties
  <2>2. QED BY <2>1, Zenon
<1>2. Len(b) \in Nat /\ Len(q) \in Nat
  BY <1>0, <1>1, LenProperties
<1>3. Head(q) = q[1] /\ (b = <<>> => Len(q) = 1)
  <2>1. Head(q) = q[1]
    BY <1>0, LenProperties, EmptySeq
  <2>2. b = <<>> => Len(b) = 0
    BY <1>1, EmptySeq
  <2>3. QED BY <1>1, <1>2, <2>1, <2>2
<1>4. b # <<>> => Len(b) \in 1..Len(b)
  BY <1>1, <1>2, EmptySeq
<1>5. b # <<>> => b[Len(b)] = q[Len(b) + 1] /\ Len(b) + 1 = Len(q)
  BY <1>1, <1>2, <1>4
<1>6. QED BY <1>1, <1>2, <1>3, <1>5, OwnElements

Instances == {<<t.service, t.instance>> : t \in Topics}

(* An instance is added once, and all others stay.                         *)
LEMMA AddedOnce ==
  ASSUME TypeOK, NEW t \in Topics, NEW o, o = Added(t)
  PROVE  /\ o \in Seq(Instances)
         /\ \A i, j \in DOMAIN o : o[i] = o[j] => i = j
         /\ ToSet(order) \cup {<<t.service, t.instance>>} \subseteq ToSet(o)
<1> DEFINE e == <<t.service, t.instance>>
<1> DEFINE n == Len(order)
<1>1. /\ order \in Seq(Instances) /\ e \in Instances
      /\ \A i, j \in DOMAIN order : order[i] = order[j] => i = j
  BY DEF TypeOK, Instances
<1>2. n \in Nat /\ DOMAIN order = 1..n
  BY <1>1, LenProperties
<1> HIDE DEF e
<1>3. CASE e \in ToSet(order)
  <2>1. o = order
    BY <1>3 DEF Added, e
  <2>2. QED BY <1>1, <1>3, <2>1 DEF e
<1>4. CASE e \notin ToSet(order)
  <2>1. o = Append(order, e)
    BY <1>4 DEF Added, e
  <2>2. /\ o \in Seq(Instances) /\ Len(o) = n + 1 /\ o[n + 1] = e
        /\ \A i \in 1..n : o[i] = order[i]
    BY <1>1, <2>1, AppendProperties
  <2>3. DOMAIN o = 1..(n + 1)
    BY <2>2, LenProperties
  <2> HIDE DEF n
  <2>4. \A i \in 1..n : order[i] # e
    BY <1>2, <1>4 DEF ToSet
  <2>5. ASSUME NEW i \in DOMAIN o, NEW j \in DOMAIN o, o[i] = o[j] PROVE i = j
    <3>1. i \in 1..(n + 1) /\ j \in 1..(n + 1)
      BY <2>3
    <3>2. (i \in 1..n \/ i = n + 1) /\ (j \in 1..n \/ j = n + 1)
      BY <1>2, <3>1
    <3>3. QED BY <1>1, <1>2, <2>2, <2>4, <2>5, <3>2
  <2>6. ToSet(order) \cup {e} \subseteq ToSet(o)
    <3>1. \A i \in 1..n : i \in DOMAIN o
      BY <1>2, <2>3
    <3>2. n + 1 \in DOMAIN o
      BY <1>2, <2>3
    <3>3. QED BY <1>2, <2>2, <3>1, <3>2 DEF ToSet
  <2>7. QED BY <2>2, <2>5, <2>6 DEF e
<1>5. QED BY <1>3, <1>4

-------------------------------------------------------------------------------
(* The steps                                                               *)

LEMMA FaultFits == ASSUME TypeOK, Fault \/ UNCHANGED faults PROVE faults' \in 0..MaxFaults
  BY VictronAssumption DEF VictronAssumption, Fault, TypeOK

(* What arrives is a message of a topic with a value the topic may have.   *)
LEMMA ArrivalFits ==
  ASSUME TypeOK, NEW values \in AnyReadings, NEW T \in SUBSET Topics, Arrive(values, T)
  PROVE  inFlight' \subseteq Messages /\ recent' \subseteq Topics
<1>1. \A t \in Topics : values[t] \in Readings[t]
  BY DEF AnyReadings
<1>2. \A t \in Topics : Message(t, values[t]) \in Messages
  BY <1>1 DEF Messages
<1>3. QED BY <1>2 DEF Arrive, TypeOK

(* Steps of the GX device, the worker and the MQTT client leave the hub    *)
(* alone.                                                                  *)
LEMMA OutsideStep ==
  ASSUME IInv, UNCHANGED <<hubVars, clientVars>>,
         gx' \in AnyReadings, changes' \in 0..MaxChanges,
         worker' \in {"starting", "requesting", "running", "ended"},
         recent' \subseteq Topics, inFlight' \subseteq Messages, faults' \in 0..MaxFaults
  PROVE  IInv'
<1>1. UNCHANGED <<snapshot, order, broadcast, dropped, clients, shown, crashes>>
  BY DEF hubVars, clientVars
<1>2. TypeOK'
  BY <1>1 DEF IInv, TypeOK, AnyReadings
<1>3. HubFits' /\ ReportedIsListed'
  BY <1>1 DEF IInv, HubFits, ReportedIsListed
<1>4. NewestIsLast'
  <2>1. Summary(snapshot, order)' = Summary(snapshot, order)
    BY <1>1
  <2>2. QED BY <1>1, <2>1 DEF IInv, NewestIsLast
<1>5. QED BY <1>2, <1>3, <1>4 DEF IInv

LEMMA HandleTelemetryUpdateStep ==
  ASSUME IInv, NEW m \in inFlight, HandleTelemetryUpdate(m) PROVE IInv'
<1>1. /\ inFlight' \subseteq inFlight /\ order' = Added(m.topic)
      /\ snapshot' = [snapshot EXCEPT ![m.topic] = Number(m.value)]
      /\ dropped' = (Len(broadcast) = Capacity)
      /\ broadcast' = IF dropped' THEN broadcast ELSE Append(broadcast, Summary(snapshot', order'))
      /\ UNCHANGED <<gxVars, worker, recent, clients, shown, crashes, faults>>
  BY DEF HandleTelemetryUpdate, clientVars
<1>2. m.topic \in Topics /\ Number(m.value) \in Int
  <2>1. PICK t \in Topics : \E v \in Readings[t] : m = Message(t, v)
    BY DEF IInv, TypeOK, Messages
  <2> PICK v \in Readings[t] : m = Message(t, v)
    BY <2>1
  <2>2. v \in Int \cup {Null} /\ m.topic = t /\ m.value = v
    BY VictronAssumption DEF Message
  <2>3. QED BY <2>2 DEF Number
<1>3. /\ order' \in Seq(Instances) /\ \A i, j \in DOMAIN order' : order'[i] = order'[j] => i = j
      /\ ToSet(order) \cup {<<m.topic.service, m.topic.instance>>} \subseteq ToSet(order')
  BY <1>1, <1>2, AddedOnce DEF IInv
<1>4. /\ broadcast' \in Seq(ToSet(broadcast')) /\ Len(broadcast') <= Capacity
      /\ ~dropped' => /\ broadcast' # <<>>
                      /\ broadcast'[Len(broadcast')] = Summary(snapshot', order')
  <2>1. broadcast \in Seq(ToSet(broadcast)) /\ Len(broadcast) <= Capacity
    BY DEF IInv, HubFits, TypeOK
  <2>2. CASE dropped'
    BY <1>1, <2>1, <2>2
  <2>3. CASE ~dropped'
    <3>1. broadcast' = Append(broadcast, Summary(snapshot', order'))
      BY <1>1, <2>3
    <3>2. /\ broadcast' \in Seq(ToSet(broadcast')) /\ Len(broadcast') = Len(broadcast) + 1
          /\ broadcast' # <<>> /\ broadcast'[Len(broadcast')] = Summary(snapshot', order')
      BY <2>1, <3>1, Appended
    <3>3. Len(broadcast) \in Nat /\ Capacity \in Nat /\ Len(broadcast) # Capacity
      BY <1>1, <2>1, <2>3, LenProperties, VictronAssumption
    <3>4. QED BY <2>1, <3>2, <3>3
  <2>4. QED BY <2>2, <2>3
<1>5. TypeOK'
  <2>1. snapshot' \in [Topics -> Int \cup {Unreported}]
    BY <1>1, <1>2 DEF IInv, TypeOK
  <2>2. dropped' \in BOOLEAN
    BY <1>1
  <2>3. QED BY <1>1, <1>3, <1>4, <2>1, <2>2 DEF IInv, TypeOK, gxVars, Instances, AnyReadings
<1>6. HubFits'
  BY <1>1, <1>4 DEF IInv, HubFits
<1>7. NewestIsLast'
  BY <1>4 DEF NewestIsLast
<1>8. ReportedIsListed'
  <2>1. SUFFICES ASSUME NEW t \in Topics, snapshot'[t] # Unreported
                 PROVE  <<t.service, t.instance>> \in ToSet(order')
    BY DEF ReportedIsListed
  <2>2. CASE t = m.topic
    BY <1>3, <2>2
  <2>3. CASE t # m.topic
    <3>1. snapshot[t] # Unreported
      BY <1>1, <2>1, <2>3 DEF IInv, TypeOK
    <3>2. QED BY <1>3, <3>1 DEF IInv, ReportedIsListed
  <2>4. QED BY <2>2, <2>3
<1>9. QED BY <1>5, <1>6, <1>7, <1>8 DEF IInv

LEMMA TakeBroadcastStep == ASSUME IInv, TakeBroadcast PROVE IInv'
<1>1. /\ broadcast # <<>> /\ broadcast' = Tail(broadcast) /\ clients' \subseteq clients
      /\ shown' = [c \in Clients |-> IF c \in clients' THEN Head(broadcast) ELSE Unreported]
      /\ Fault \/ UNCHANGED faults
      /\ UNCHANGED <<gxVars, worker, recent, inFlight, snapshot, order, dropped, crashes>>
  BY DEF TakeBroadcast
<1>2. /\ broadcast' \in Seq(ToSet(broadcast')) /\ Len(broadcast') = Len(broadcast) - 1
      /\ Len(broadcast) \in Nat
      /\ broadcast' = <<>> => Head(broadcast) = broadcast[Len(broadcast)]
      /\ broadcast' # <<>> => broadcast'[Len(broadcast')] = broadcast[Len(broadcast)]
  BY <1>1, Taken DEF IInv, HubFits
<1>3. Summary(snapshot, order)' = Summary(snapshot, order)
  BY <1>1
<1>4. TypeOK'
  <2>1. Len(broadcast') <= Capacity
    BY <1>2, VictronAssumption DEF IInv, TypeOK
  <2>2. faults' \in 0..MaxFaults
    BY <1>1, FaultFits DEF IInv
  <2>3. QED BY <1>1, <2>1, <2>2 DEF IInv, TypeOK, gxVars, AnyReadings
<1>5. HubFits'
  BY <1>1, <1>2 DEF HubFits
<1>6. NewestIsLast'
  <2>1. SUFFICES ASSUME ~dropped
                 PROVE  IF broadcast' = <<>>
                        THEN \A c \in clients' : shown'[c] = Summary(snapshot, order)
                        ELSE broadcast'[Len(broadcast')] = Summary(snapshot, order)
    BY <1>1, <1>3 DEF NewestIsLast
  <2>2. broadcast[Len(broadcast)] = Summary(snapshot, order)
    BY <1>1, <2>1 DEF IInv, NewestIsLast
  <2>3. \A c \in clients' : shown'[c] = Head(broadcast)
    BY <1>1 DEF IInv, TypeOK
  <2>4. QED BY <1>2, <2>2, <2>3
<1>7. ReportedIsListed'
  BY <1>1 DEF IInv, ReportedIsListed
<1>8. QED BY <1>4, <1>5, <1>6, <1>7 DEF IInv

(* A connection that comes is shown what the hub knows, one that goes      *)
(* nothing more.                                                           *)
LEMMA ConnectionStep ==
  ASSUME IInv, NEW c \in Clients, Register(c) \/ Unregister(c) PROVE IInv'
<1>1. UNCHANGED <<gx, changes, worker, recent, inFlight, snapshot, order, broadcast, dropped,
                  crashes, faults>>
  BY DEF Register, Unregister, gxVars, hubVars
<1>2. clients' \subseteq Clients /\ DOMAIN shown' = Clients
  BY DEF Register, Unregister, IInv, TypeOK, HubFits
<1>3. \A d \in clients' : (d \in clients /\ shown'[d] = shown[d])
                            \/ shown'[d] = Summary(snapshot, order)
  BY DEF Register, Unregister, IInv, TypeOK, HubFits
<1>4. Summary(snapshot, order)' = Summary(snapshot, order)
  BY <1>1
<1>5. TypeOK'
  BY <1>1, <1>2 DEF IInv, TypeOK, AnyReadings
<1>6. HubFits' /\ ReportedIsListed'
  BY <1>1, <1>2 DEF IInv, HubFits, ReportedIsListed
<1>7. NewestIsLast'
  BY <1>1, <1>3, <1>4 DEF IInv, NewestIsLast
<1>8. QED BY <1>5, <1>6, <1>7 DEF IInv

(* The hub starts with nothing.                                            *)
LEMMA NothingKnown ==
  ASSUME broadcast = <<>>, order = <<>>, dropped = FALSE, clients = {},
         snapshot = [t \in Topics |-> Unreported], shown = [c \in Clients |-> Unreported]
  PROVE  HubFits /\ NewestIsLast /\ ReportedIsListed
<1>1. broadcast \in Seq(ToSet(broadcast))
  BY EmptySeq
<1>2. QED BY <1>1 DEF HubFits, NewestIsLast, ReportedIsListed

LEMMA InitStep == ASSUME Init PROVE IInv
<1>1. TypeOK
  <2>1. order \in Seq({<<t.service, t.instance>> : t \in Topics}) /\ DOMAIN order = {}
    BY EmptySeq DEF Init
  <2>2. Len(broadcast) <= Capacity
    BY VictronAssumption, EmptySeq DEF Init
  <2>3. gx \in AnyReadings /\ changes = 0 /\ crashes = 0 /\ faults = 0
    BY DEF Init
  <2>4. /\ worker = "starting" /\ recent = {} /\ inFlight = {} /\ dropped = FALSE /\ clients = {}
        /\ snapshot \in [Topics -> Int \cup {Unreported}]
    BY DEF Init
  <2>5. /\ changes \in 0..MaxChanges /\ crashes \in 0..MaxCrashes /\ faults \in 0..MaxFaults
        /\ \A i, j \in DOMAIN order : order[i] = order[j] => i = j
    BY <2>1, <2>3, VictronAssumption
  <2>6. recent \subseteq Topics /\ inFlight \subseteq Messages /\ clients \subseteq Clients
    BY <2>4
  <2>7. QED BY <2>1, <2>2, <2>3, <2>4, <2>5, <2>6, Zenon DEF TypeOK
<1>2. HubFits /\ NewestIsLast /\ ReportedIsListed
  BY NothingKnown DEF Init
<1>3. QED BY <1>1, <1>2 DEF IInv

LEMMA GetLatestStep == ASSUME IInv, GetLatest PROVE IInv'
<1>1. /\ crashes' \in 0..MaxCrashes
      /\ worker' = "starting" /\ recent' = {} /\ inFlight' = {}
      /\ snapshot' = [t \in Topics |-> Unreported] /\ order' = <<>>
      /\ broadcast' = <<>> /\ dropped' = FALSE
      /\ clients' = {} /\ shown' = [c \in Clients |-> Unreported]
      /\ UNCHANGED <<gx, changes, faults>>
  BY VictronAssumption DEF GetLatest, gxVars, IInv, TypeOK
<1>2. TypeOK'
  <2>1. order' \in Seq({<<t.service, t.instance>> : t \in Topics}) /\ DOMAIN order' = {}
    BY <1>1, EmptySeq
  <2>2. Len(broadcast') <= Capacity
    BY <1>1, VictronAssumption, EmptySeq
  <2>3. QED BY <1>1, <2>1, <2>2 DEF IInv, TypeOK, AnyReadings
<1>3. (HubFits /\ NewestIsLast /\ ReportedIsListed)'
  <2>1. broadcast' \in Seq(ToSet(broadcast'))
    BY <1>1, EmptySeq
  <2>2. QED BY <1>1, <2>1 DEF HubFits, NewestIsLast, ReportedIsListed
<1>4. QED BY <1>2, <1>3 DEF IInv

(* The steps of the GX device, the worker and the MQTT client.             *)
LEMMA ForgetStep == ASSUME IInv, NEW t \in Topics, Forget(t) PROVE IInv'
<1>1. /\ UNCHANGED <<hubVars, clientVars, gx, changes, worker, inFlight, faults>>
      /\ recent' \subseteq Topics
  BY DEF Forget, gxVars, IInv, TypeOK
<1>2. QED BY <1>1, OutsideStep DEF IInv, TypeOK

LEMMA ChangeStep == ASSUME IInv, NEW t \in Topics, NEW v \in Readings[t], Change(t, v) PROVE IInv'
<1>1. /\ UNCHANGED <<hubVars, clientVars, worker>> /\ changes' \in 0..MaxChanges
      /\ gx' = [gx EXCEPT ![t] = v]
      /\ \/ UNCHANGED <<inFlight, recent, faults>>
         \/ Arrive(gx', {t}) /\ UNCHANGED faults
         \/ Lost
  BY VictronAssumption DEF Change, IInv, TypeOK
<1>2. gx' \in AnyReadings
  <2>1. gx \in [Topics -> UNION {Readings[u] : u \in Topics}] /\ \A u \in Topics : gx[u] \in Readings[u]
    BY DEF IInv, TypeOK, AnyReadings
  <2>2. QED BY <1>1, <2>1 DEF AnyReadings
<1>3. faults' \in 0..MaxFaults
  BY <1>1, FaultFits DEF IInv, Lost
<1>4. inFlight' \subseteq Messages /\ recent' \subseteq Topics
  BY <1>1, <1>2, ArrivalFits DEF IInv, TypeOK, Lost
<1>5. QED BY <1>1, <1>2, <1>3, <1>4, OutsideStep DEF IInv, TypeOK

LEMMA WorkerStep == ASSUME IInv, Subscribe \/ SendKeepAlive PROVE IInv'
<1>1. /\ UNCHANGED <<hubVars, clientVars, gx, changes>>
      /\ worker' \in {"starting", "requesting", "running", "ended"}
      /\ Fault \/ UNCHANGED faults
      /\ UNCHANGED <<inFlight, recent>> \/ Arrive(gx, Topics)
  BY DEF Subscribe, SendKeepAlive, gxVars, Lost
<1>2. faults' \in 0..MaxFaults
  BY <1>1, FaultFits DEF IInv
<1>3. inFlight' \subseteq Messages /\ recent' \subseteq Topics
  BY <1>1, ArrivalFits DEF IInv, TypeOK
<1>4. QED BY <1>1, <1>2, <1>3, OutsideStep DEF IInv, TypeOK

LEMMA NextStep == ASSUME IInv, [Next]_vars PROVE IInv'
<1>1. ASSUME UNCHANGED vars PROVE IInv'
  <2>1. UNCHANGED <<hubVars, clientVars, gx, changes, worker, recent, inFlight, faults>>
    BY <1>1 DEF vars, gxVars
  <2>2. QED BY <2>1, OutsideStep DEF IInv, TypeOK
<1>2. CASE Next
  BY <1>2, ForgetStep, ChangeStep, WorkerStep, HandleTelemetryUpdateStep, TakeBroadcastStep,
     ConnectionStep, GetLatestStep DEF Next
<1>3. QED BY <1>1, <1>2

LEMMA Invariance == Spec => []IInv
BY InitStep, NextStep, PTL DEF Spec

-------------------------------------------------------------------------------
(* The values the GX has are those its topics may have; the hub keeps a    *)
(* number for what was reported and has each instance in its slices once,  *)
(* and never more summaries wait than the channel can take.                *)
THEOREM VictronTypeCorrect == Spec => []TypeOK
<1>1. IInv => TypeOK
  BY DEF IInv
<1>2. QED BY <1>1, Invariance, PTL

(* A client is not left with a summary the hub itself knows to be old:     *)
(* when nothing waits in the channel and the last update found room in it, *)
(* writeToAllClients and sendCurrentSnapshot have shown every connection   *)
(* what buildSummary makes of the snapshot.                                *)
THEOREM DashboardsShowWhatIsKnown == Spec => []ShownIsCurrent
<1>1. IInv => ShownIsCurrent
  BY DEF IInv, NewestIsLast, ShownIsCurrent
<1>2. QED BY <1>1, Invariance, PTL

(* acInputState follows the explicit indicators of the GX when they agree, *)
(* whatever the voltage: no loop over the slices misses one that has been  *)
(* reported, in whatever order the messages came.                          *)
THEOREM IndicatorsAlwaysWin == Spec => []IndicatorsWin
<1>1. IInv => IndicatorsWin
  BY IndicatorsDecide DEF IInv
<1>2. QED BY <1>1, Invariance, PTL
===============================================================================
