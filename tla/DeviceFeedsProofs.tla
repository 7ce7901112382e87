--------------------------- MODULE DeviceFeedsProofs ---------------------------
(***************************************************************************)
(* Proofs about DeviceFeeds for any number of clients, uplinks, commands   *)
(* and faults, and any capacity of the broadcast channel.  IInv follows an *)
(* uplink from the worker to a screen: what of the device's state is       *)
(* stored, in which order uplinks are under way, and for every client      *)
(* which of them it has been sent or still will be.                        *)
(***************************************************************************)
EXTENDS DeviceFeeds, TLAPS

(* run sends one message at a time, and an uplink only to clients that     *)
(* know the device by its name; only one of the hubs has a channel.        *)
HubFits ==
  /\ \A m, k \in hub.sending : m = k
  /\ hub.sending = {} => hub.todo = {} /\ HubWrites = {}
  /\ \A m \in hub.sending : \A c \in Clients :
       m.event = "uplink" /\ (c \in hub.todo \/ "run" \in writers[c]) => keyOf[c] = "name"
  /\ controller # "all" => broadcast = <<>>

(* Nobody knows of a connection before it is registered.                   *)
UnusedIsUnknown ==
  \A c \in Clients : conn[c] = "none" =>
    /\ c \notin clients /\ c \notin hub.todo /\ writers[c] = {} /\ reader[c] = "none"
    /\ cached[c].stage = "none" /\ seen[c] = {}

(* A stored state that was read is of an uplink, and is stored by name.    *)
ReadIsStored ==
  \A c \in Clients :
    /\ "cached" \in writers[c] => cached[c].stage = "read"
    /\ cached[c].stage = "read" => keyOf[c] = "name" /\ cached[c].n \in 1..received

(* The cache has the state as of the last uplink, but for those that did   *)
(* not get there.                                                          *)
StoredOrNot ==
  /\ \A n \in 1..received : n <= cache \/ n \in unstored
  /\ unstored \subseteq 1..received
  /\ handling => received >= 1

(* Without overlap uplinks are under way in the order they were published, *)
(* and none is left out: one may be with the broker's goroutine, those in  *)
(* the channel are the ones before it, and run sends the one before these. *)
Pending == {m \in inFlight : m.event = "uplink"}
Top == IF Pending = {} THEN Published ELSE Published - 1

InOrder ==
  ~overlapped /\ dropped = {} =>
    /\ \A m \in Pending : m.n = Published
    /\ \A i \in 1..Len(broadcast) : broadcast[i] = Uplink(Top - (Len(broadcast) - i))
    /\ \A m \in hub.sending : m.event = "uplink" => m.n = Top - Len(broadcast)

(* ... and a stored state is sent before the next uplink is published.     *)
ReadIsNew ==
  ~overlapped /\ unstored = {} =>
    \A c \in Clients : cached[c].stage = "read" => cached[c].n >= Published

(* What becomes of each uplink for a client that is connected.             *)
Watches(c) == c \in clients /\ conn[c] = "open" /\ keyOf[c] = "name"

Fate(c, n) == (\E v \in seen[c] : v >= n) \/ UnderWay(c, n) \/ n \in dropped \cup unstored

Followed ==
  \A c \in Clients : Watches(c) =>
    \A n \in 1..Published :
      /\ cached[c].stage = "done" => Fate(c, n)
      /\ cached[c].stage = "read" => n <= cached[c].n \/ Fate(c, n)

(* A newer state than the one on the screen is that of an uplink that is   *)
(* still to come.                                                          *)
NewerIsComing ==
  ~overlapped /\ dropped = {} /\ unstored = {} =>
    \A c \in Clients : Watches(c) =>
      \A n \in seen[c] : n <= shown[c] \/ n > Published \/ UnderWay(c, n)

OthersSeeNothing == \A c \in Clients : keyOf[c] # "name" => seen[c] = {}

IInv == /\ TypeOK /\ HubFits /\ UnusedIsUnknown /\ ReadIsStored /\ StoredOrNot /\ InOrder
        /\ ReadIsNew /\ Followed /\ NewerIsComing /\ OthersSeeNothing

-------------------------------------------------------------------------------
(* Helpers                                                                 *)

LEMMA FaultFits == ASSUME TypeOK, Fault \/ UNCHANGED faults PROVE faults' \in 0..MaxFaults
  BY FeedsAssumption DEF FeedsAssumption, Fault, TypeOK

LEMMA PublishedFits ==
  ASSUME TypeOK, StoredOrNot
  PROVE  /\ Published \in 0..received /\ received \in Nat /\ cache \in Nat /\ MaxUplinks \in Nat
         /\ Published >= received - 1
<1>1. received \in 0..MaxUplinks /\ cache \in 0..received /\ MaxUplinks \in Nat
  BY FeedsAssumption DEF TypeOK
<1>2. handling => received >= 1
  BY DEF StoredOrNot
<1> QED
  BY <1>1, <1>2 DEF Published

LEMMA MessagesAre ==
  /\ \A m \in Messages : m.event = "uplink" => m.n \in 1..MaxUplinks /\ m = Uplink(m.n)
  /\ \A n \in 1..MaxUplinks : Uplink(n) \in Messages
  /\ \A n \in 1..MaxCommands : CommandSent(n) \in Messages
  /\ \A n : /\ Uplink(n).event = "uplink" /\ Uplink(n).n = n
           /\ CommandSent(n).event # "uplink"
<1>1. \A n : /\ Uplink(n).event = "uplink" /\ Uplink(n).n = n
             /\ CommandSent(n).event # "uplink"
  BY DEF Uplink, CommandSent
<1>2. /\ \A n \in 1..MaxUplinks : Uplink(n) \in Messages
      /\ \A n \in 1..MaxCommands : CommandSent(n) \in Messages
  BY DEF Messages
<1>3. ASSUME NEW m \in Messages, m.event = "uplink" PROVE m.n \in 1..MaxUplinks /\ m = Uplink(m.n)
  <2>1. \/ \E n \in 1..MaxUplinks : m = Uplink(n)
        \/ \E n \in 1..MaxCommands : m = CommandSent(n)
    BY DEF Messages
  <2> QED
    BY <1>1, <1>3, <2>1
<1> QED
  BY <1>1, <1>2, <1>3

InChannel(n) == \E i \in 1..Len(broadcast) : broadcast[i] = Uplink(n)

LEMMA UnderWayMeans ==
  ASSUME broadcast \in Seq(Messages), NEW c, NEW n
  PROVE  UnderWay(c, n) <=>
           \/ Uplink(n) \in inFlight \/ InChannel(n)
           \/ Uplink(n) \in hub.sending /\ (c \in hub.todo \cup hub.failed \/ "run" \in writers[c])
  BY DEF UnderWay, InChannel

LEMMA UnderWayThenMeans ==
  ASSUME (broadcast \in Seq(Messages))', NEW c, NEW n
  PROVE  UnderWay(c, n)' <=>
           \/ Uplink(n) \in inFlight' \/ InChannel(n)'
           \/ Uplink(n) \in hub'.sending /\ (c \in hub'.todo \cup hub'.failed \/ "run" \in writers'[c])
  BY DEF UnderWay, InChannel

-------------------------------------------------------------------------------
(* Steps of a connection, which leave the device and the hub alone         *)

LEMMA ConnectionStep ==
  ASSUME IInv, UNCHANGED <<setup, deviceVars, hubVars>>,
         \A o \in Clients : "run" \in writers'[o] <=> "run" \in writers[o]
  PROVE  /\ HubFits' /\ StoredOrNot' /\ InOrder'
         /\ \A o \in Clients : \A n : UnderWay(o, n)' <=> UnderWay(o, n)
         /\ Published' = Published
<1> USE DEF IInv, setup, deviceVars, hubVars
<1>1. HubFits'
  BY DEF HubFits, HubWrites
<1>2. StoredOrNot' /\ InOrder' /\ Published' = Published
  BY DEF StoredOrNot, InOrder, Pending, Top, Published
<1>3. \A o \in Clients : \A n : UnderWay(o, n)' <=> UnderWay(o, n)
  BY DEF UnderWay
<1> QED
  BY <1>1, <1>2, <1>3

(* A step that writes nothing to a client and forgets nothing of the rest  *)
(* keeps the invariant if what it does to its own connection is in order.  *)
Looks(c) ==
  /\ UNCHANGED <<setup, deviceVars, hubVars, seen, shown>>
  /\ \A o \in Clients \ {c} :
        /\ o \in clients' <=> o \in clients
        /\ conn'[o] = conn[o] /\ cached'[o] = cached[o] /\ writers'[o] = writers[o]
        /\ reader'[o] = reader[o]
  /\ "run" \in writers'[c] <=> "run" \in writers[c]
  /\ conn'[c] # "none"
  /\ "cached" \in writers'[c] => cached'[c].stage = "read"
  /\ cached'[c].stage = "read" =>
       \/ cached[c].stage = "read" /\ cached'[c].n = cached[c].n
       \/ cache # 0 /\ cached'[c].n = cache /\ keyOf[c] = "name"
  /\ cached'[c].stage = "done" => cached[c].stage = "done" \/ cache = 0 \/ keyOf[c] # "name"
  /\ c \in clients' /\ conn'[c] = "open" =>
       \/ c \in clients /\ conn[c] = "open"
       \/ cached'[c].stage = "started" /\ seen[c] = {}

LEMMA LookingStep ==
  ASSUME IInv, TypeOK', NEW c \in Clients, Looks(c)
  PROVE  IInv'
<1> USE DEF IInv, Looks
<1>1. /\ \A o \in Clients : "run" \in writers'[o] <=> "run" \in writers[o]
      /\ cache \in 0..received /\ received \in Nat /\ Published \in 0..received
  BY PublishedFits DEF TypeOK
<1>2. /\ HubFits' /\ StoredOrNot' /\ InOrder'
      /\ \A o \in Clients : \A n : UnderWay(o, n)' <=> UnderWay(o, n)
      /\ Published' = Published
  BY <1>1, ConnectionStep
<1>3. UnusedIsUnknown'
  BY DEF hubVars, UnusedIsUnknown
<1>4. ReadIsStored'
  BY <1>1 DEF setup, deviceVars, ReadIsStored
<1>5. ReadIsNew'
  <2> SUFFICES ASSUME ~overlapped, unstored = {}, NEW o \in Clients, cached'[o].stage = "read"
               PROVE  cached'[o].n >= Published
    BY <1>2 DEF ReadIsNew, hubVars, deviceVars
  <2>1. cache >= received
    BY <1>1 DEF StoredOrNot
  <2> QED
    BY <1>1, <2>1 DEF ReadIsNew
<1>6. ASSUME NEW o \in Clients, Watches(o)'
      PROVE  \/ Watches(o) /\ (o # c => cached'[o] = cached[o])
             \/ cached'[o].stage = "started" /\ seen[o] = {}
  BY <1>6 DEF Watches, setup
<1>7. Followed'
  <2> SUFFICES ASSUME NEW o \in Clients, Watches(o)', NEW n \in 1..Published
               PROVE  /\ cached'[o].stage = "done" => Fate(o, n)
                      /\ cached'[o].stage = "read" => n <= cached'[o].n \/ Fate(o, n)
    BY <1>2 DEF Followed, Fate, hubVars, deviceVars
  <2>0. CASE cached'[o].stage = "started"
    BY <2>0
  <2>1. CASE Watches(o) /\ o # c
    BY <1>6, <2>1 DEF Followed
  <2>2. CASE Watches(o) /\ o = c /\ cached[o].stage = "done" /\ cached'[o].stage = "done"
    BY <2>2 DEF Followed
  <2>3. CASE Watches(o) /\ o = c /\ cached[o].stage = "read" /\ cached'[o].stage = "read" /\ cached'[o].n = cached[o].n
    BY <2>3 DEF Followed
  <2>4. n <= cache \/ Fate(o, n)
    BY <1>1 DEF StoredOrNot, Fate
  <2>5. cache # 0 \/ Fate(o, n)
    BY <1>1, <2>4
  <2>6. keyOf[o] = "name"
    BY DEF Watches, setup
  <2> QED
    BY <1>6, <2>0, <2>1, <2>2, <2>3, <2>4, <2>5, <2>6
<1>8. NewerIsComing'
  <2> SUFFICES ASSUME ~overlapped, dropped = {}, unstored = {}, NEW o \in Clients, Watches(o)',
                      NEW n \in seen[o]
               PROVE  n <= shown[o] \/ n > Published \/ UnderWay(o, n)
    BY <1>2 DEF NewerIsComing, hubVars, deviceVars
  <2>1. CASE Watches(o)
    BY <2>1 DEF NewerIsComing
  <2> QED
    BY <2>1, <1>6
<1>9. OthersSeeNothing'
  BY DEF OthersSeeNothing, setup
<1> QED
  BY <1>2, <1>3, <1>4, <1>5, <1>7, <1>8, <1>9

(* The connection in the map, and its goroutines.                          *)
LEMMA RegisterStep == ASSUME IInv, NEW c \in Clients, Register(c) PROVE IInv'
<1> USE DEF IInv, Register
<1>1. /\ cached' \in [Clients -> [stage : {"none", "started", "read", "done", "failed"}, n : 0..MaxUplinks]]
      /\ cached'[c].stage = "started"
      /\ \A o \in Clients \ {c} : cached'[o] = cached[o]
  BY DEF TypeOK
<1>2. /\ conn' \in [Clients -> {"none", "open", "gone", "closed"}] /\ conn'[c] = "open"
      /\ reader' \in [Clients -> {"none", "reading", "leaving", "done"}]
      /\ \A o \in Clients \ {c} : conn'[o] = conn[o]
  BY DEF TypeOK
<1>3. TypeOK'
  BY <1>1, <1>2 DEF TypeOK, setup, deviceVars, hubVars
<1>4. writers[c] = {} /\ seen[c] = {}
  BY DEF UnusedIsUnknown
<1>5. Looks(c)
  BY <1>1, <1>2, <1>4 DEF Looks
<1> QED
  BY <1>3, <1>5, LookingStep

LEMMA GetStateStep == ASSUME IInv, NEW c \in Clients, GetState(c) PROVE IInv'
<1> USE DEF IInv
<1>1. cache \in 0..MaxUplinks
  BY FeedsAssumption DEF TypeOK
<1>2. UNCHANGED <<setup, deviceVars, hubVars, clients, conn, reader, writers, seen, shown, faults>>
  BY DEF GetState
<1>3. /\ cached' \in [Clients -> [stage : {"none", "started", "read", "done", "failed"}, n : 0..MaxUplinks]]
      /\ cached'[c] = IF cache # 0 /\ keyOf[c] = "name" THEN [stage |-> "read", n |-> cache]
                      ELSE [stage |-> "done", n |-> 0]
      /\ \A o \in Clients \ {c} : cached'[o] = cached[o]
  BY <1>1, FeedsAssumption DEF TypeOK, FeedsAssumption, GetState
<1>4. TypeOK'
  BY <1>2, <1>3 DEF TypeOK, setup, deviceVars, hubVars
<1>5. conn[c] # "none" /\ "cached" \notin writers[c]
  BY DEF UnusedIsUnknown, ReadIsStored, GetState
<1>7. /\ cached'[c].stage = "read" => cache # 0 /\ cached'[c].n = cache /\ keyOf[c] = "name"
      /\ cached'[c].stage = "done" => cache = 0 \/ keyOf[c] # "name"
  BY <1>3
<1>8. Looks(c)
  BY <1>2, <1>3, <1>5, <1>7 DEF Looks
<1> QED
  BY <1>4, <1>8, LookingStep

LEMMA BeginCachedStep == ASSUME IInv, NEW c \in Clients, BeginCached(c) PROVE IInv'
<1> USE DEF IInv
<1>1. /\ UNCHANGED <<setup, deviceVars, hubVars, clients, conn, reader, cached, seen, shown, faults>>
      /\ cached[c].stage = "read"
  BY DEF BeginCached
<1>2. /\ writers' \in [Clients -> SUBSET {"run", "cached"}]
      /\ writers'[c] = writers[c] \cup {"cached"}
      /\ \A o \in Clients \ {c} : writers'[o] = writers[o]
  BY DEF TypeOK, BeginCached, Enter
<1>3. TypeOK'
  BY <1>1, <1>2 DEF TypeOK, setup, deviceVars, hubVars
<1>4. conn[c] # "none"
  BY <1>1 DEF UnusedIsUnknown
<1>6. Looks(c)
  BY <1>1, <1>2, <1>4 DEF Looks
<1> QED
  BY <1>3, <1>6, LookingStep

LEMMA GoingStep ==
  ASSUME IInv, NEW c \in Clients, Gone(c) \/ ReadError(c) \/ Unregister(c) \/ UnregisterLost(c)
  PROVE  IInv'
<1> USE DEF IInv
<1>1. conn[c] # "none"
  BY DEF UnusedIsUnknown, Gone, ReadError, Unregister, UnregisterLost
<1>2. UNCHANGED <<setup, deviceVars, hubVars, seen, shown, cached, writers, faults>>
  BY DEF Gone, ReadError, Unregister, UnregisterLost, Leave
<1>3. /\ conn' \in [Clients -> {"none", "open", "gone", "closed"}]
      /\ conn'[c] # "none" /\ (conn'[c] = conn[c] \/ conn'[c] # "open")
      /\ \A o \in Clients \ {c} : conn'[o] = conn[o]
  BY <1>1 DEF TypeOK, Gone, ReadError, Unregister, UnregisterLost, Leave
<1>4. /\ reader' \in [Clients -> {"none", "reading", "leaving", "done"}]
      /\ \A o \in Clients \ {c} : reader'[o] = reader[o]
  BY DEF TypeOK, Gone, ReadError, Unregister, UnregisterLost, Leave
<1>5. clients' \subseteq clients /\ \A o \in Clients \ {c} : o \in clients' <=> o \in clients
  BY DEF Gone, ReadError, Unregister, UnregisterLost
<1>6. TypeOK'
  BY <1>2, <1>3, <1>4, <1>5 DEF TypeOK, setup, deviceVars, hubVars
<1>8. "cached" \in writers[c] => cached[c].stage = "read"
  BY DEF ReadIsStored
<1>9. Looks(c)
  BY <1>2, <1>3, <1>4, <1>5, <1>8 DEF Looks
<1> QED
  BY <1>6, <1>9, LookingStep

(* The stored state is on the screen, or the goroutine gives up.           *)
LEMMA EndCachedStep == ASSUME IInv, NEW c \in Clients, EndCached(c) PROVE IInv'
<1> USE DEF IInv
<1> DEFINE k == cached[c].n
<1>1. /\ UNCHANGED <<setup, deviceVars, hubVars, clients, conn, reader>>
      /\ "cached" \in writers[c]
  BY DEF EndCached, Exit
<1>2. cached[c].stage = "read" /\ keyOf[c] = "name" /\ k \in 1..received /\ k \in 1..MaxUplinks
      /\ conn[c] # "none" /\ received \in Nat /\ Published \in 0..received
  BY <1>1, PublishedFits DEF ReadIsStored, UnusedIsUnknown, TypeOK
<1>3. /\ writers' \in [Clients -> SUBSET {"run", "cached"}]
      /\ \A o \in Clients : "run" \in writers'[o] <=> "run" \in writers[o]
      /\ \A o \in Clients \ {c} : writers'[o] = writers[o]
      /\ "cached" \notin writers'[c]
  BY DEF EndCached, Exit, TypeOK
<1>4. /\ cached' \in [Clients -> [stage : {"none", "started", "read", "done", "failed"}, n : 0..MaxUplinks]]
      /\ cached'[c].stage \in {"done", "failed"}
      /\ \A o \in Clients \ {c} : cached'[o] = cached[o]
  <2>1. PICK s \in {"done", "failed"} : cached' = [cached EXCEPT ![c].stage = s]
    BY DEF EndCached
  <2> QED
    BY <2>1 DEF TypeOK
<1>5. \/ cached'[c].stage = "failed" /\ UNCHANGED <<seen, shown>>
      \/ /\ seen' = [seen EXCEPT ![c] = @ \cup {k}] /\ shown' = [shown EXCEPT ![c] = k]
  BY DEF EndCached, Show, TypeOK
<1>6. /\ seen' \in [Clients -> SUBSET (1..MaxUplinks)] /\ shown' \in [Clients -> 0..MaxUplinks]
      /\ \A o \in Clients \ {c} : seen'[o] = seen[o] /\ shown'[o] = shown[o]
      /\ \/ cached'[c].stage = "failed" /\ seen'[c] = seen[c] /\ shown'[c] = shown[c]
         \/ seen'[c] = seen[c] \cup {k} /\ shown'[c] = k
  <2>1. /\ seen \in [Clients -> SUBSET (1..MaxUplinks)] /\ shown \in [Clients -> 0..MaxUplinks]
        /\ k \in 1..MaxUplinks /\ k \in 0..MaxUplinks
    BY <1>2 DEF TypeOK
  <2>2. CASE cached'[c].stage = "failed" /\ UNCHANGED <<seen, shown>>
    BY <2>1, <2>2
  <2>3. CASE seen' = [seen EXCEPT ![c] = @ \cup {k}] /\ shown' = [shown EXCEPT ![c] = k]
    <3> HIDE DEF k
    <3> QED
      BY <2>1, <2>3
  <2> QED
    BY <1>5, <2>2, <2>3
<1> HIDE DEF k
<1>7. faults' \in 0..MaxFaults
  BY FaultFits DEF EndCached
<1>8. TypeOK'
  BY <1>1, <1>3, <1>4, <1>6, <1>7 DEF TypeOK, setup, deviceVars, hubVars
<1>9. /\ HubFits' /\ StoredOrNot' /\ InOrder'
      /\ \A o \in Clients : \A n : UnderWay(o, n)' <=> UnderWay(o, n)
      /\ Published' = Published
  BY <1>1, <1>3, ConnectionStep
<1>10. UnusedIsUnknown' /\ ReadIsStored' /\ OthersSeeNothing'
  <2>1. UnusedIsUnknown'
    BY <1>1, <1>2, <1>3, <1>4, <1>6 DEF UnusedIsUnknown, hubVars
  <2>2. ReadIsStored'
    BY <1>1, <1>3, <1>4 DEF ReadIsStored, setup, deviceVars
  <2>3. OthersSeeNothing'
    BY <1>1, <1>2, <1>6 DEF OthersSeeNothing, setup
  <2> QED
    BY <2>1, <2>2, <2>3
<1>11. ReadIsNew'
  BY <1>1, <1>4, <1>9 DEF ReadIsNew, hubVars, deviceVars
<1>12. Followed'
  <2> SUFFICES ASSUME NEW o \in Clients, Watches(o), NEW n \in 1..Published
               PROVE  /\ cached'[o].stage = "done" => Fate(o, n)'
                      /\ cached'[o].stage = "read" => n <= cached'[o].n \/ Fate(o, n)'
    BY <1>1, <1>9 DEF Followed, Watches, setup
  <2>1. Fate(o, n) => Fate(o, n)'
    BY <1>1, <1>6, <1>9 DEF Fate, deviceVars, hubVars
  <2>2. CASE o # c
    BY <1>4, <2>1, <2>2 DEF Followed
  <2>3. CASE o = c
    <3>1. n <= k \/ Fate(o, n)
      BY <1>2, <2>3 DEF Followed, k
    <3>2. CASE k \in seen'[c] /\ n <= k
      BY <2>3, <3>2, <1>2 DEF Fate
    <3> QED
      BY <1>4, <1>6, <2>1, <2>3, <3>1, <3>2
  <2> QED
    BY <2>2, <2>3
<1>13. NewerIsComing'
  <2> SUFFICES ASSUME ~overlapped, dropped = {}, unstored = {}, NEW o \in Clients, Watches(o),
                      NEW n \in seen'[o]
               PROVE  n <= shown'[o] \/ n > Published \/ UnderWay(o, n)
    BY <1>1, <1>9 DEF NewerIsComing, hubVars, deviceVars, Watches, setup
  <2>1. CASE n \in seen[o] /\ shown'[o] = shown[o]
    BY <2>1 DEF NewerIsComing
  <2>2. CASE o = c /\ shown'[c] = k
    <3>1. k >= Published /\ n \in Nat
      BY <1>2, <1>6 DEF ReadIsNew, k
    <3> QED
      BY <1>2, <2>2, <3>1
  <2> QED
    BY <1>6, <2>1, <2>2
<1> QED
  BY <1>8, <1>9, <1>10, <1>11, <1>12, <1>13

-------------------------------------------------------------------------------
(* Steps of the worker                                                     *)

(* Storing a state, or losing it, is seen by the clients that connect.     *)
LEMMA StateStep ==
  ASSUME IInv, TypeOK', StoredOrNot', UNCHANGED <<setup, hubVars, clientVars>>,
         Published' = Published, received' >= received, unstored \subseteq unstored'
  PROVE  IInv'
<1> USE DEF IInv
<1>1. \A o \in Clients : \A n : UnderWay(o, n)' <=> UnderWay(o, n)
  BY DEF UnderWay, hubVars, clientVars
<1>2. HubFits' /\ UnusedIsUnknown' /\ OthersSeeNothing'
  BY DEF HubFits, HubWrites, UnusedIsUnknown, OthersSeeNothing, hubVars, clientVars, setup
<1>3. ReadIsStored'
  BY PublishedFits DEF ReadIsStored, TypeOK, clientVars, setup
<1>4. InOrder' /\ ReadIsNew'
  BY DEF InOrder, Pending, Top, ReadIsNew, hubVars, clientVars
<1>5. Followed'
  BY <1>1 DEF Followed, Fate, Watches, hubVars, clientVars, setup
<1>6. NewerIsComing'
  BY <1>1 DEF NewerIsComing, Watches, hubVars, clientVars, setup
<1> QED
  BY <1>2, <1>3, <1>4, <1>5, <1>6

LEMMA SetStateStep == ASSUME IInv, SetState PROVE IInv'
<1> USE DEF IInv
<1>1. /\ received \in Nat /\ received' = received + 1 /\ received' \in 0..MaxUplinks
      /\ cache \in 0..received /\ ~handling /\ handling'
      /\ UNCHANGED <<setup, commands, hubVars, clientVars>>
      /\ \/ cache' = received' /\ unstored' = unstored
         \/ cache' = cache /\ unstored' = unstored \cup {received'}
  BY PublishedFits, FeedsAssumption DEF SetState, TypeOK, FeedsAssumption
<1>2. faults' \in 0..MaxFaults
  BY FaultFits DEF SetState
<1>3. unstored' \subseteq 1..received' /\ cache' \in 0..received' /\ 1..received' \subseteq 1..MaxUplinks
  <2>1. unstored \subseteq 1..received /\ MaxUplinks \in Nat
    BY FeedsAssumption DEF StoredOrNot, FeedsAssumption
  <2>2. 1..received \subseteq 1..received' /\ received' \in 1..received' /\ 1..received' \subseteq 1..MaxUplinks
    BY <1>1, <2>1
  <2>3. unstored' \subseteq unstored \cup {received'}
    BY <1>1
  <2>4. cache' \in 0..received'
    BY <1>1
  <2> QED
    BY <2>1, <2>2, <2>3, <2>4
<1>4. TypeOK'
  BY <1>1, <1>2, <1>3 DEF TypeOK, setup, hubVars, clientVars, SetState
<1>5. StoredOrNot'
  BY <1>1, <1>3 DEF StoredOrNot
<1>6. Published' = Published
  BY <1>1 DEF Published
<1> QED
  BY <1>1, <1>4, <1>5, <1>6, StateStep

LEMMA ExpireStep == ASSUME IInv, Expire PROVE IInv'
<1> USE DEF IInv
<1>1. /\ received \in Nat /\ received <= MaxUplinks /\ MaxUplinks \in Nat
      /\ UNCHANGED <<setup, received, handling, commands, hubVars, clientVars>>
      /\ cache' = 0 /\ unstored' = 1..received
  BY PublishedFits DEF Expire, TypeOK
<1>2. faults' \in 0..MaxFaults
  BY FaultFits DEF Expire
<1>3. TypeOK'
  BY <1>1, <1>2 DEF TypeOK, setup, hubVars, clientVars
<1>4. StoredOrNot' /\ unstored \subseteq unstored'
  BY <1>1 DEF StoredOrNot
<1>5. Published' = Published /\ received' >= received
  BY <1>1 DEF Published
<1> QED
  BY <1>1, <1>3, <1>4, <1>5, StateStep

(* What is published is under way to everybody.                            *)
LEMMA PublishKeeps ==
  ASSUME TypeOK, TypeOK', UNCHANGED <<broadcast, hub, writers>>, inFlight \subseteq inFlight'
  PROVE  \A o \in Clients : \A n : UnderWay(o, n) => UnderWay(o, n)'
  BY DEF UnderWay

LEMMA PublishUplinkStep == ASSUME IInv, PublishUplink PROVE IInv'
<1> USE DEF IInv
<1>1. /\ received \in 1..MaxUplinks /\ received \in Nat /\ Published = received - 1 /\ Published' = received
      /\ handling' = FALSE /\ inFlight' = inFlight \cup {Uplink(received)}
      /\ UNCHANGED <<setup, received, commands, cache, unstored, broadcast, hub, dropped, clientVars, faults>>
      /\ overlapped' \in BOOLEAN
      /\ ~overlapped' => /\ ~overlapped /\ Pending = {}
                         /\ \A o \in Clients : cached[o].stage # "read"
  BY PublishedFits, FeedsAssumption
     DEF PublishUplink, Publish, Pending, Published, StoredOrNot, TypeOK, FeedsAssumption
<1>2. TypeOK'
  <2>1. inFlight' \subseteq Messages
    BY <1>1, MessagesAre DEF TypeOK
  <2> QED
    BY <1>1, <2>1 DEF TypeOK, setup, clientVars
<1>3. HubFits' /\ UnusedIsUnknown' /\ OthersSeeNothing'
  BY <1>1 DEF HubFits, HubWrites, UnusedIsUnknown, OthersSeeNothing, clientVars, setup
<1>4. ReadIsStored' /\ StoredOrNot'
  BY <1>1 DEF ReadIsStored, StoredOrNot, clientVars, setup
<1>5. InOrder'
  <2> SUFFICES ASSUME ~overlapped', dropped = {} PROVE InOrder'
    BY <1>1 DEF InOrder
  <2>1. Pending' = {Uplink(received)} /\ Uplink(received).n = received
    BY <1>1, MessagesAre DEF Pending
  <2>2. Top = received - 1 /\ Top' = received - 1
    BY <1>1, <2>1 DEF Top
  <2> QED
    BY <1>1, <2>1, <2>2 DEF InOrder
<1>6. ReadIsNew'
  BY <1>1 DEF ReadIsNew, clientVars
<1>7. \A o \in Clients : \A n : UnderWay(o, n) => UnderWay(o, n)'
  BY <1>1, <1>2, PublishKeeps DEF clientVars
<1>8. \A o \in Clients : \A n : n = received => UnderWay(o, n)'
  BY <1>1 DEF UnderWay
<1>9. Followed'
  <2> SUFFICES ASSUME NEW o \in Clients, Watches(o), NEW n \in 1..received
               PROVE  /\ cached[o].stage = "done" => Fate(o, n)'
                      /\ cached[o].stage = "read" => n <= cached[o].n \/ Fate(o, n)'
    BY <1>1 DEF Followed, Watches, setup, clientVars
  <2>1. Fate(o, n) => Fate(o, n)'
    <3>1. UNCHANGED <<seen, dropped, unstored>> /\ (UnderWay(o, n) => UnderWay(o, n)')
      BY <1>1, <1>7 DEF clientVars
    <3> QED
      BY <3>1, Zenon DEF Fate
  <2>2. CASE n = received
    BY <1>8, <2>2 DEF Fate
  <2>3. CASE n # received
    <3>1. n \in 1..Published
      BY <1>1, <2>3
    <3> QED
      BY <2>1, <3>1 DEF Followed
  <2> QED
    BY <2>2, <2>3
<1>10. NewerIsComing'
  <2> SUFFICES ASSUME ~overlapped, dropped = {}, unstored = {}, NEW o \in Clients, Watches(o),
                      NEW n \in seen[o]
               PROVE  n <= shown[o] \/ n > received \/ UnderWay(o, n)'
    BY <1>1 DEF NewerIsComing, clientVars, Watches, setup
  <2>1. n <= shown[o] \/ n > Published \/ UnderWay(o, n)
    BY DEF NewerIsComing
  <2>2. n \in Nat
    BY DEF TypeOK
  <2> QED
    BY <1>1, <1>7, <1>8, <2>1, <2>2
<1> QED
  BY <1>2, <1>3, <1>4, <1>5, <1>6, <1>9, <1>10

LEMMA PublishCommandSentStep == ASSUME IInv, PublishCommandSent PROVE IInv'
<1> USE DEF IInv
<1>1. /\ commands' = commands + 1 /\ commands' \in 0..MaxCommands /\ commands' \in 1..MaxCommands
      /\ inFlight' = inFlight \cup {CommandSent(commands')}
      /\ UNCHANGED <<setup, received, handling, cache, unstored, broadcast, hub, dropped, overlapped,
                     clientVars, faults>>
  BY FeedsAssumption DEF PublishCommandSent, Publish, TypeOK, FeedsAssumption
<1>2. TypeOK'
  <2>1. inFlight' \subseteq Messages
    BY <1>1, MessagesAre DEF TypeOK
  <2> QED
    BY <1>1, <2>1 DEF TypeOK, setup, clientVars
<1>3. HubFits' /\ UnusedIsUnknown' /\ OthersSeeNothing'
  BY <1>1 DEF HubFits, HubWrites, UnusedIsUnknown, OthersSeeNothing, clientVars, setup
<1>4. ReadIsStored' /\ StoredOrNot'
  BY <1>1 DEF ReadIsStored, StoredOrNot, clientVars, setup
<1>5. Pending' = Pending /\ Published' = Published
  BY <1>1, MessagesAre DEF Pending, Published
<1>6. InOrder' /\ ReadIsNew'
  BY <1>1, <1>5 DEF InOrder, Top, ReadIsNew, clientVars
<1>7. \A o \in Clients : \A n : UnderWay(o, n) => UnderWay(o, n)'
  BY <1>1, <1>2, PublishKeeps DEF clientVars
<1>8. Followed' /\ NewerIsComing'
  BY <1>1, <1>5, <1>7 DEF Followed, Fate, NewerIsComing, Watches, clientVars, setup
<1> QED
  BY <1>2, <1>3, <1>4, <1>6, <1>8

-------------------------------------------------------------------------------
(* Steps of a hub                                                          *)

(* A message goes on its way, and nobody is sent anything yet.             *)
Moves ==
  /\ UNCHANGED <<setup, deviceVars, overlapped, reader, cached, seen, shown>>
  /\ clients' \subseteq clients
  /\ \A o \in Clients : /\ "cached" \in writers'[o] => "cached" \in writers[o]
                        /\ conn'[o] = "none" => conn[o] = "none" /\ writers'[o] = {}
                        /\ conn'[o] = "open" => conn[o] = "open"
                        /\ o \in hub'.todo => o \in hub.todo \cup clients
  /\ dropped \subseteq dropped'

LEMMA MovesStep ==
  ASSUME IInv, TypeOK', HubFits', InOrder', Moves,
         \A o \in Clients : \A n : Watches(o)' /\ UnderWay(o, n) => UnderWay(o, n)' \/ n \in dropped'
  PROVE  IInv'
<1> USE DEF IInv, Moves
<1>1. Published' = Published
  BY DEF Published, deviceVars
<1>2. UnusedIsUnknown' /\ OthersSeeNothing'
  BY DEF UnusedIsUnknown, OthersSeeNothing, setup
<1>3. ReadIsStored' /\ StoredOrNot'
  BY DEF ReadIsStored, StoredOrNot, deviceVars, setup
<1>4. ReadIsNew'
  BY <1>1 DEF ReadIsNew, deviceVars
<1>5. \A o \in Clients : Watches(o)' => Watches(o)
  BY DEF Watches, setup
<1>6. Followed'
  <2> SUFFICES ASSUME NEW o \in Clients, Watches(o)', NEW n \in 1..Published
               PROVE  /\ cached[o].stage = "done" => Fate(o, n)'
                      /\ cached[o].stage = "read" => n <= cached[o].n \/ Fate(o, n)'
    BY <1>1 DEF Followed
  <2>1. Fate(o, n) => Fate(o, n)'
    <3>1. /\ UNCHANGED <<seen, unstored>> /\ dropped \subseteq dropped'
          /\ UnderWay(o, n) => UnderWay(o, n)' \/ n \in dropped'
      BY DEF deviceVars
    <3> QED
      BY <3>1, Zenon DEF Fate
  <2> QED
    BY <1>5, <2>1 DEF Followed
<1>7. NewerIsComing'
  <2> SUFFICES ASSUME ~overlapped, dropped' = {}, unstored = {}, NEW o \in Clients, Watches(o)',
                      NEW n \in seen[o]
               PROVE  n <= shown[o] \/ n > Published \/ UnderWay(o, n)'
    BY <1>1 DEF NewerIsComing, deviceVars
  <2>1. n <= shown[o] \/ n > Published \/ UnderWay(o, n)
    BY <1>5 DEF NewerIsComing
  <2> QED
    BY <2>1
<1> QED
  BY <1>2, <1>3, <1>4, <1>6, <1>7

LEMMA IdleHub ==
  ASSUME HubFits, AtSelect
  PROVE  /\ hub.sending = {} /\ hub.todo = {} /\ hub.failed = {}
         /\ \A o \in Clients : "run" \notin writers[o]
  BY DEF HubFits, AtSelect, Idle, HubWrites

LEMMA StartSendingFits ==
  ASSUME TypeOK, HubFits, AtSelect, NEW m \in Messages, StartSending(m)
  PROVE  /\ hub' \in [sending : SUBSET Messages, todo : SUBSET Clients, failed : SUBSET Clients]
         /\ hub'.sending = {m} /\ hub'.todo = Addressed(m) /\ hub'.failed = {}
         /\ Addressed(m) \subseteq clients
         /\ \A o \in Addressed(m) : m.event = "uplink" => keyOf[o] = "name"
         /\ \A o \in Clients : Watches(o) /\ m.event = "uplink" => o \in Addressed(m)
<1>1. Addressed(m) \subseteq clients /\ clients \subseteq Clients
  BY DEF Addressed, TypeOK
<1>2. \A o \in Addressed(m) : m.event = "uplink" => keyOf[o] = "name"
  BY DEF Addressed
<1>3. \A o \in Clients : Watches(o) /\ m.event = "uplink" => o \in Addressed(m)
  BY DEF Addressed, Watches
<1> QED
  BY <1>1, <1>2, <1>3 DEF StartSending

LEMMA Appended ==
  ASSUME broadcast \in Seq(Messages), NEW m \in Messages, broadcast' = Append(broadcast, m)
  PROVE  /\ broadcast' \in Seq(Messages) /\ Len(broadcast') = Len(broadcast) + 1
         /\ Len(broadcast) \in Nat
         /\ \A i \in 1..Len(broadcast) : broadcast'[i] = broadcast[i]
         /\ broadcast'[Len(broadcast) + 1] = m
  OBVIOUS

LEMMA Taken ==
  ASSUME broadcast \in Seq(Messages), broadcast # <<>>, broadcast' = Tail(broadcast)
  PROVE  /\ broadcast' \in Seq(Messages) /\ Len(broadcast') = Len(broadcast) - 1
         /\ Len(broadcast) \in Nat \ {0}
         /\ \A i \in 1..Len(broadcast') : broadcast'[i] = broadcast[i + 1]
         /\ Head(broadcast) = broadcast[1] /\ Head(broadcast) \in Messages
  OBVIOUS

LEMMA ReceiveForAllStep == ASSUME IInv, ReceiveForAll PROVE IInv'
<1> USE DEF IInv
<1>1. PICK m \in inFlight :
         /\ inFlight' = inFlight \ {m}
         /\ IF m.event # "uplink" THEN UNCHANGED <<broadcast, dropped>>
            ELSE IF Len(broadcast) < Capacity
                 THEN broadcast' = Append(broadcast, m) /\ UNCHANGED dropped
                 ELSE dropped' = dropped \cup {m.n} /\ UNCHANGED broadcast
  BY DEF ReceiveForAll
<1>2. /\ UNCHANGED <<setup, deviceVars, hub, overlapped, clientVars, faults>>
      /\ AtSelect /\ controller = "all"
  BY DEF ReceiveForAll
<1>3. /\ m \in Messages /\ broadcast \in Seq(Messages) /\ Len(broadcast) \in Nat /\ Len(broadcast) <= Capacity
      /\ m.event = "uplink" => m.n \in 1..MaxUplinks /\ m = Uplink(m.n)
      /\ dropped \subseteq 1..MaxUplinks /\ Capacity \in Nat
      /\ Published' = Published /\ Published \in Nat
      /\ Pending' = Pending \ {m}
  <2>1. /\ m \in Messages /\ broadcast \in Seq(Messages) /\ Len(broadcast) <= Capacity
        /\ dropped \subseteq 1..MaxUplinks
    BY DEF TypeOK
  <2>2. Published' = Published /\ Pending' = Pending \ {m}
    BY <1>1, <1>2 DEF Published, Pending, deviceVars
  <2> QED
    BY <2>1, <2>2, MessagesAre, PublishedFits, FeedsAssumption DEF FeedsAssumption
<1>4. hub.sending = {} /\ \A o \in Clients : "run" \notin writers[o]
  BY <1>2, IdleHub
<1>5. /\ broadcast' \in Seq(Messages) /\ Len(broadcast') <= Capacity /\ dropped' \subseteq 1..MaxUplinks
      /\ dropped \subseteq dropped'
      /\ m.event = "uplink" /\ dropped' = {} => broadcast' = Append(broadcast, m)
      /\ m.event # "uplink" => broadcast' = broadcast
      /\ m.event = "uplink" => m.n \in dropped' \/ broadcast' = Append(broadcast, m)
      /\ broadcast' = broadcast \/ broadcast' = Append(broadcast, m)
  <2>1. CASE m.event # "uplink"
    BY <1>1, <1>3, <2>1
  <2>2. CASE m.event = "uplink" /\ Len(broadcast) < Capacity
    <3>1. broadcast' = Append(broadcast, m) /\ UNCHANGED dropped
      BY <1>1, <2>2
    <3>2. broadcast' \in Seq(Messages) /\ Len(broadcast') = Len(broadcast) + 1
      BY <1>3, <3>1, Appended
    <3> QED
      BY <1>3, <2>2, <3>1, <3>2
  <2>3. CASE m.event = "uplink" /\ ~(Len(broadcast) < Capacity)
    BY <1>1, <1>3, <2>3
  <2> QED
    BY <2>1, <2>2, <2>3
<1>6. TypeOK'
  BY <1>1, <1>2, <1>5 DEF TypeOK, setup, deviceVars, clientVars
<1>7. HubFits'
  BY <1>2, <1>4 DEF HubFits, HubWrites, clientVars, setup
<1>8. InOrder'
  <2> SUFFICES ASSUME ~overlapped, dropped' = {}, dropped = {} PROVE InOrder'
    BY <1>2, <1>5 DEF InOrder
  <2>1. CASE m.event # "uplink"
    <3>1. Pending' = Pending /\ broadcast' = broadcast
      BY <1>3, <1>5, <2>1 DEF Pending
    <3> QED
      BY <1>2, <1>3, <3>1 DEF InOrder, Top
  <2>2. CASE m.event = "uplink"
    <3>1. m \in Pending /\ \A k \in Pending : k = m
      <4>1. \A k \in Pending : k = Uplink(k.n) /\ k.n = Published
        BY MessagesAre DEF InOrder, Pending, TypeOK
      <4>2. m \in Pending
        BY <2>2 DEF Pending
      <4> QED
        BY <4>1, <4>2
    <3>2. Pending' = {} /\ Top' = Published /\ Top = Published - 1 /\ m = Uplink(Published)
      BY <1>3, <2>2, <3>1 DEF Top, InOrder
    <3>3. /\ Len(broadcast') = Len(broadcast) + 1
          /\ \A i \in 1..Len(broadcast) : broadcast'[i] = broadcast[i]
          /\ broadcast'[Len(broadcast) + 1] = m
      BY <1>3, <1>5, <2>2, Appended
    <3>4. \A i \in 1..Len(broadcast') : broadcast'[i] = Uplink(Top' - (Len(broadcast') - i))
      <4> SUFFICES ASSUME NEW i \in 1..Len(broadcast')
                   PROVE  broadcast'[i] = Uplink(Top' - (Len(broadcast') - i))
        OBVIOUS
      <4>1. CASE i \in 1..Len(broadcast)
        <5>1. broadcast[i] = Uplink(Top - (Len(broadcast) - i))
          BY <4>1 DEF InOrder
        <5>2. Top - (Len(broadcast) - i) = Top' - (Len(broadcast') - i)
          BY <1>3, <3>2, <3>3, <4>1
        <5> QED
          BY <3>3, <4>1, <5>1, <5>2
      <4>2. CASE i = Len(broadcast) + 1
        <5>1. Top' - (Len(broadcast') - i) = Published
          BY <1>3, <3>2, <3>3, <4>2
        <5> QED
          BY <3>2, <3>3, <4>2, <5>1
      <4> QED
        BY <1>3, <3>3, <4>1, <4>2
    <3> QED
      BY <1>2, <1>4, <3>2, <3>4 DEF InOrder
  <2> QED
    BY <2>1, <2>2
<1>9. ASSUME NEW o \in Clients, NEW n, UnderWay(o, n) PROVE UnderWay(o, n)' \/ n \in dropped'
  <2>1. Uplink(n) \in inFlight \/ InChannel(n)
    BY <1>3, <1>4, <1>9, UnderWayMeans
  <2>2. CASE Uplink(n) \in inFlight'
    BY <2>2 DEF UnderWay
  <2>3. CASE InChannel(n)
    <3>1. InChannel(n)'
      BY <1>3, <1>5, <2>3, Appended DEF InChannel
    <3> QED
      BY <1>5, <3>1, UnderWayThenMeans
  <2>4. CASE Uplink(n) = m
    <3>1. m.event = "uplink" /\ m.n = n
      BY <2>4, MessagesAre
    <3>2. CASE broadcast' = Append(broadcast, m)
      <4>1. InChannel(n)'
        BY <1>3, <2>4, <3>2, Appended DEF InChannel
      <4> QED
        BY <1>5, <4>1, UnderWayThenMeans
    <3> QED
      BY <1>5, <3>1, <3>2
  <2> QED
    BY <1>1, <2>1, <2>2, <2>3, <2>4
<1>10. Moves
  BY <1>2, <1>5 DEF Moves, clientVars, UnusedIsUnknown
<1> QED
  BY <1>6, <1>7, <1>8, <1>9, <1>10, MovesStep

LEMMA TakeBroadcastStep == ASSUME IInv, TakeBroadcast PROVE IInv'
<1> USE DEF IInv
<1> DEFINE m == Head(broadcast)
<1>1. /\ UNCHANGED <<setup, deviceVars, inFlight, dropped, overlapped, clientVars, faults>>
      /\ AtSelect /\ broadcast # <<>> /\ broadcast' = Tail(broadcast) /\ StartSending(m)
  BY DEF TakeBroadcast
<1>2. /\ broadcast \in Seq(Messages) /\ Len(broadcast) <= Capacity /\ Capacity \in Nat
      /\ Published' = Published /\ Published \in Nat /\ Pending' = Pending
  <2>1. broadcast \in Seq(Messages) /\ Len(broadcast) <= Capacity /\ Capacity \in Nat
    BY FeedsAssumption DEF TypeOK, FeedsAssumption
  <2>2. Published' = Published /\ Pending' = Pending
    BY <1>1 DEF Published, Pending, deviceVars
  <2> QED
    BY <2>1, <2>2, PublishedFits
<1>3. /\ broadcast' \in Seq(Messages) /\ Len(broadcast') = Len(broadcast) - 1
      /\ Len(broadcast) \in Nat \ {0}
      /\ \A i \in 1..Len(broadcast') : broadcast'[i] = broadcast[i + 1]
      /\ m = broadcast[1] /\ m \in Messages
  BY <1>1, <1>2, Taken
<1> HIDE DEF m
<1>4. /\ hub' \in [sending : SUBSET Messages, todo : SUBSET Clients, failed : SUBSET Clients]
      /\ hub'.sending = {m} /\ hub'.todo = Addressed(m) /\ hub'.failed = {}
      /\ Addressed(m) \subseteq clients
      /\ \A o \in Addressed(m) : m.event = "uplink" => keyOf[o] = "name"
      /\ \A o \in Clients : Watches(o) /\ m.event = "uplink" => o \in Addressed(m)
  BY <1>1, <1>3, StartSendingFits
<1>5. hub.sending = {} /\ \A o \in Clients : "run" \notin writers[o]
  BY <1>1, IdleHub
<1>6. TypeOK'
  BY <1>1, <1>2, <1>3, <1>4 DEF TypeOK, setup, deviceVars, clientVars
<1>7. HubFits'
  <2>1. controller = "all"
    BY <1>1 DEF HubFits
  <2> QED
    BY <1>1, <1>4, <1>5, <2>1 DEF HubFits, HubWrites, clientVars, setup
<1>8. InOrder'
  <2> SUFFICES ASSUME ~overlapped, dropped = {} PROVE InOrder'
    BY <1>1 DEF InOrder
  <2>1. Top' = Top /\ Top \in Int
    BY <1>2 DEF Top
  <2>2. \A i \in 1..Len(broadcast) : broadcast[i] = Uplink(Top - (Len(broadcast) - i))
    BY DEF InOrder
  <2>3. m = Uplink(Top - (Len(broadcast) - 1))
    BY <1>3, <2>2
  <2>4. m.n = Top' - Len(broadcast')
    BY <1>3, <2>1, <2>3, MessagesAre
  <2>5. \A i \in 1..Len(broadcast') : broadcast'[i] = Uplink(Top' - (Len(broadcast') - i))
    <3> SUFFICES ASSUME NEW i \in 1..Len(broadcast')
                 PROVE  broadcast'[i] = Uplink(Top' - (Len(broadcast') - i))
      OBVIOUS
    <3>1. i + 1 \in 1..Len(broadcast)
      BY <1>3
    <3>2. Top - (Len(broadcast) - (i + 1)) = Top' - (Len(broadcast') - i)
      BY <1>3, <2>1, <3>1
    <3> QED
      BY <1>3, <2>2, <3>1, <3>2
  <2>6. \A k \in Pending' : k.n = Published'
    BY <1>2 DEF InOrder
  <2> QED
    BY <1>4, <2>4, <2>5, <2>6 DEF InOrder
<1>9. ASSUME NEW o \in Clients, NEW n, Watches(o)', UnderWay(o, n) PROVE UnderWay(o, n)'
  <2>1. Uplink(n) \in inFlight \/ InChannel(n)
    BY <1>2, <1>5, <1>9, UnderWayMeans
  <2>2. CASE Uplink(n) \in inFlight
    BY <1>1, <1>3, <2>2, UnderWayThenMeans
  <2>3. CASE InChannel(n)
    <3>1. PICK i \in 1..Len(broadcast) : broadcast[i] = Uplink(n)
      BY <2>3 DEF InChannel
    <3>2. CASE i = 1
      <4>1. m = Uplink(n) /\ m.event = "uplink"
        BY <1>3, <3>1, <3>2, MessagesAre
      <4>2. Watches(o)
        BY <1>1, <1>9 DEF Watches, clientVars, setup
      <4> QED
        BY <1>3, <1>4, <4>1, <4>2, UnderWayThenMeans
    <3>3. CASE i # 1
      <4>1. i - 1 \in 1..Len(broadcast') /\ broadcast'[i - 1] = broadcast[(i - 1) + 1] /\ (i - 1) + 1 = i
        BY <1>3, <3>1, <3>3
      <4>2. InChannel(n)'
        BY <3>1, <4>1 DEF InChannel
      <4> QED
        BY <1>3, <4>2, UnderWayThenMeans
    <3> QED
      BY <3>2, <3>3
  <2> QED
    BY <2>1, <2>2, <2>3
<1>10. Moves
  BY <1>1, <1>4 DEF Moves, clientVars, UnusedIsUnknown
<1> QED
  BY <1>6, <1>7, <1>8, <1>9, <1>10, MovesStep

LEMMA ReceiveForDeviceStep == ASSUME IInv, ReceiveForDevice PROVE IInv'
<1> USE DEF IInv
<1>1. PICK m \in inFlight : inFlight' = inFlight \ {m} /\ StartSending(m)
  BY DEF ReceiveForDevice
<1>2. /\ UNCHANGED <<setup, deviceVars, broadcast, dropped, overlapped, clientVars, faults>>
      /\ controller = "device" /\ AtSelect
  BY DEF ReceiveForDevice
<1>3. /\ m \in Messages /\ broadcast \in Seq(Messages) /\ broadcast = <<>> /\ broadcast' = <<>>
      /\ Published' = Published /\ Published \in Nat /\ Pending' = Pending \ {m}
  <2>1. m \in Messages /\ broadcast \in Seq(Messages)
    BY DEF TypeOK
  <2>2. Published' = Published /\ Pending' = Pending \ {m}
    BY <1>1, <1>2 DEF Published, Pending, deviceVars
  <2>3. broadcast = <<>> /\ broadcast' = <<>>
    BY <1>2 DEF HubFits
  <2> QED
    BY <2>1, <2>2, <2>3, PublishedFits
<1>4. /\ hub' \in [sending : SUBSET Messages, todo : SUBSET Clients, failed : SUBSET Clients]
      /\ hub'.sending = {m} /\ hub'.todo = Addressed(m) /\ hub'.failed = {}
      /\ Addressed(m) \subseteq clients
      /\ \A o \in Addressed(m) : m.event = "uplink" => keyOf[o] = "name"
      /\ \A o \in Clients : Watches(o) /\ m.event = "uplink" => o \in Addressed(m)
  BY <1>1, <1>2, <1>3, StartSendingFits
<1>5. hub.sending = {} /\ \A o \in Clients : "run" \notin writers[o]
  BY <1>2, IdleHub
<1>6. TypeOK'
  BY <1>1, <1>2, <1>4 DEF TypeOK, setup, deviceVars, clientVars
<1>7. HubFits'
  BY <1>2, <1>3, <1>4, <1>5 DEF HubFits, HubWrites, clientVars, setup
<1>8. InOrder'
  <2> SUFFICES ASSUME ~overlapped, dropped = {} PROVE InOrder'
    BY <1>2 DEF InOrder
  <2>1. Len(broadcast') = 0
    BY <1>3
  <2>2. \A k \in Pending : k.n = Published
    BY DEF InOrder
  <2>3. CASE m.event = "uplink"
    <3>1. \A k \in Pending : k = m
      <4>1. \A k \in Pending : k = Uplink(k.n)
        BY MessagesAre DEF Pending, TypeOK
      <4>2. m \in Pending
        BY <2>3 DEF Pending
      <4> QED
        BY <2>2, <4>1, <4>2
    <3>2. m.n = Published /\ Pending' = {} /\ Top' = Published
      BY <1>3, <2>2, <2>3, <3>1 DEF Top, Pending
    <3> QED
      BY <1>3, <1>4, <2>1, <3>2 DEF InOrder
  <2>4. CASE m.event # "uplink"
    BY <1>3, <1>4, <2>1, <2>2, <2>4 DEF InOrder
  <2> QED
    BY <2>3, <2>4
<1>9. ASSUME NEW o \in Clients, NEW n, Watches(o)', UnderWay(o, n) PROVE UnderWay(o, n)'
  <2>1. Uplink(n) \in inFlight
    <3>1. ~InChannel(n)
      BY <1>3 DEF InChannel
    <3> QED
      BY <1>3, <1>5, <1>9, <3>1, UnderWayMeans
  <2>2. CASE Uplink(n) = m
    <3>1. Watches(o) /\ m.event = "uplink"
      BY <1>2, <1>9, <2>2, MessagesAre DEF Watches, clientVars, setup
    <3> QED
      BY <1>2, <1>3, <1>4, <2>2, <3>1, UnderWayThenMeans
  <2> QED
    BY <1>1, <1>2, <1>3, <2>1, <2>2, UnderWayThenMeans
<1>10. Moves
  BY <1>2, <1>4 DEF Moves, clientVars, UnusedIsUnknown
<1> QED
  BY <1>6, <1>7, <1>8, <1>9, <1>10, MovesStep

LEMMA BeginWriteStep == ASSUME IInv, NEW c \in Clients, BeginWrite(c) PROVE IInv'
<1> USE DEF IInv
<1>1. /\ UNCHANGED <<setup, deviceVars, inFlight, broadcast, dropped, overlapped,
                     clients, conn, reader, cached, seen, shown, faults>>
      /\ c \in hub.todo
  BY DEF BeginWrite
<1>2. /\ hub' \in [sending : SUBSET Messages, todo : SUBSET Clients, failed : SUBSET Clients]
      /\ hub'.sending = hub.sending /\ hub'.todo = hub.todo \ {c} /\ hub'.failed = hub.failed
  BY DEF BeginWrite, TypeOK
<1>3. /\ writers' \in [Clients -> SUBSET {"run", "cached"}]
      /\ writers'[c] = writers[c] \cup {"run"}
      /\ \A o \in Clients \ {c} : writers'[o] = writers[o]
  BY DEF BeginWrite, Enter, TypeOK
<1>4. TypeOK'
  BY <1>1, <1>2, <1>3 DEF TypeOK, setup, deviceVars
<1>5. hub.sending # {} /\ conn[c] # "none"
  BY <1>1 DEF HubFits, UnusedIsUnknown
<1>6. HubFits'
  BY <1>1, <1>2, <1>3, <1>5 DEF HubFits, setup
<1>7. InOrder'
  BY <1>1, <1>2 DEF InOrder, Pending, Top, Published, deviceVars
<1>8. ASSUME NEW o \in Clients, NEW n, UnderWay(o, n) PROVE UnderWay(o, n)'
  BY <1>1, <1>2, <1>3, <1>8 DEF UnderWay
<1>9. Moves
  BY <1>1, <1>2, <1>3, <1>5 DEF Moves, UnusedIsUnknown
<1> QED
  BY <1>4, <1>6, <1>7, <1>8, <1>9, MovesStep

LEMMA EndSendingStep == ASSUME IInv, EndSending PROVE IInv'
<1> USE DEF IInv
<1>1. /\ UNCHANGED <<setup, deviceVars, inFlight, broadcast, dropped, overlapped,
                     reader, cached, writers, seen, shown, faults>>
      /\ hub.todo = {} /\ HubWrites = {} /\ clients' = clients \ hub.failed
      /\ hub'.sending = {} /\ hub'.todo = {} /\ hub'.failed = {} /\ hub' = Idle
  BY DEF EndSending, Idle
<1>2. /\ conn' \in [Clients -> {"none", "open", "gone", "closed"}]
      /\ \A o \in Clients : conn'[o] = conn[o] \/ conn'[o] = "closed"
  BY DEF EndSending, TypeOK
<1>3. TypeOK'
  BY <1>1, <1>2 DEF TypeOK, setup, deviceVars, Idle
<1>4. HubFits'
  BY <1>1 DEF HubFits, HubWrites, setup
<1>5. InOrder'
  BY <1>1 DEF InOrder, Pending, Top, Published, deviceVars
<1>6. ASSUME NEW o \in Clients, NEW n, Watches(o)', UnderWay(o, n) PROVE UnderWay(o, n)'
  <2>1. broadcast \in Seq(Messages) /\ (broadcast \in Seq(Messages))'
    BY <1>1 DEF TypeOK
  <2>2. o \notin hub.todo \cup hub.failed /\ "run" \notin writers[o]
    BY <1>1, <1>6 DEF Watches, HubWrites
  <2>3. Uplink(n) \in inFlight \/ InChannel(n)
    BY <1>6, <2>1, <2>2, UnderWayMeans
  <2>4. Uplink(n) \in inFlight' \/ InChannel(n)'
    BY <1>1, <2>3 DEF InChannel
  <2> QED
    BY <2>1, <2>4, UnderWayThenMeans
<1>7. Moves
  BY <1>1, <1>2 DEF Moves, UnusedIsUnknown
<1> QED
  BY <1>3, <1>4, <1>5, <1>6, <1>7, MovesStep

(* Uplinks newer than the one that is sent are all still to be sent.       *)
LEMMA NewerFollow ==
  ASSUME IInv, ~overlapped, dropped = {}, NEW m \in hub.sending, m.event = "uplink",
         NEW n \in Nat, n > m.n, n <= Published
  PROVE  Uplink(n) \in inFlight \/ InChannel(n)
<1> USE DEF IInv
<1>1. /\ m.n = Top - Len(broadcast) /\ Published \in Nat /\ broadcast \in Seq(Messages)
      /\ \A i \in 1..Len(broadcast) : broadcast[i] = Uplink(Top - (Len(broadcast) - i))
      /\ \A k \in Pending : k.n = Published
  BY PublishedFits DEF InOrder, TypeOK
<1>2. Len(broadcast) \in Nat /\ Top \in Int
  BY <1>1 DEF Top
<1>3. CASE n <= Top
  <2> DEFINE i == Len(broadcast) - (Top - n)
  <2>1. i \in 1..Len(broadcast) /\ Top - (Len(broadcast) - i) = n
    BY <1>1, <1>2, <1>3
  <2> HIDE DEF i
  <2> QED
    BY <1>1, <2>1 DEF InChannel
<1>4. CASE ~(n <= Top)
  <2>1. Pending # {} /\ n = Published
    BY <1>1, <1>4 DEF Top
  <2>2. PICK k \in Pending : k.n = n
    BY <1>1, <2>1
  <2>3. k \in inFlight /\ k = Uplink(n)
    BY <2>2, MessagesAre DEF Pending, TypeOK
  <2> QED
    BY <2>3
<1> QED
  BY <1>3, <1>4

LEMMA EndWriteStep == ASSUME IInv, NEW c \in Clients, EndWrite(c) PROVE IInv'
<1> USE DEF IInv
<1>1. /\ UNCHANGED <<setup, deviceVars, inFlight, broadcast, dropped, overlapped,
                     clients, conn, reader, cached>>
      /\ "run" \in writers[c]
  BY DEF EndWrite, Exit
<1>2. /\ writers' \in [Clients -> SUBSET {"run", "cached"}]
      /\ writers'[c] = writers[c] \ {"run"}
      /\ \A o \in Clients \ {c} : writers'[o] = writers[o]
  BY DEF EndWrite, Exit, TypeOK
<1>3. faults' \in 0..MaxFaults
  BY FaultFits DEF EndWrite
<1>4. /\ conn[c] # "none" /\ hub.sending # {} /\ HubWrites' \subseteq HubWrites
      /\ Published' = Published /\ Published \in Nat
  BY <1>1, <1>2, PublishedFits DEF UnusedIsUnknown, HubFits, HubWrites, Published, deviceVars
<1>5. CASE hub' = [hub EXCEPT !.failed = @ \cup {c}] /\ UNCHANGED <<seen, shown>>
  <2>1. /\ hub' \in [sending : SUBSET Messages, todo : SUBSET Clients, failed : SUBSET Clients]
        /\ hub'.sending = hub.sending /\ hub'.todo = hub.todo /\ hub'.failed = hub.failed \cup {c}
    BY <1>5 DEF TypeOK
  <2>2. TypeOK'
    BY <1>1, <1>2, <1>3, <1>5, <2>1 DEF TypeOK, setup, deviceVars
  <2>3. HubFits'
    BY <1>1, <1>2, <1>4, <2>1 DEF HubFits, setup
  <2>4. InOrder'
    BY <1>1, <2>1 DEF InOrder, Pending, Top, Published, deviceVars
  <2>5. ASSUME NEW o \in Clients, NEW n, UnderWay(o, n) PROVE UnderWay(o, n)'
    BY <1>1, <1>2, <2>1, <2>5 DEF UnderWay
  <2>6. Moves
    BY <1>1, <1>2, <1>4, <1>5, <2>1 DEF Moves, UnusedIsUnknown
  <2> QED
    BY <2>2, <2>3, <2>4, <2>5, <2>6, MovesStep
<1>6. ASSUME hub' = hub, NEW m \in hub.sending, m.event # "uplink", UNCHANGED <<seen, shown>>
      PROVE  IInv'
  <2>1. TypeOK'
    BY <1>1, <1>2, <1>3, <1>6 DEF TypeOK, setup, deviceVars
  <2>2. HubFits'
    BY <1>1, <1>2, <1>4, <1>6 DEF HubFits, setup
  <2>3. InOrder'
    BY <1>1, <1>6 DEF InOrder, Pending, Top, Published, deviceVars
  <2>4. \A n : Uplink(n) \notin hub.sending
    BY <1>6, MessagesAre DEF HubFits
  <2>5. ASSUME NEW o \in Clients, NEW n, UnderWay(o, n) PROVE UnderWay(o, n)'
    BY <1>1, <1>2, <1>6, <2>4, <2>5 DEF UnderWay
  <2>6. Moves
    BY <1>1, <1>2, <1>4, <1>6 DEF Moves, UnusedIsUnknown
  <2> QED
    BY <2>1, <2>2, <2>3, <2>5, <2>6, MovesStep
<1>7. ASSUME hub' = hub, NEW m \in hub.sending, m.event = "uplink", Show(c, m.n) PROVE IInv'
  <2>1. /\ m \in Messages /\ m.n \in 1..MaxUplinks /\ m = Uplink(m.n) /\ m.n \in 0..MaxUplinks
        /\ MaxUplinks \in Nat
    BY <1>7, MessagesAre, FeedsAssumption DEF TypeOK, FeedsAssumption
  <2>2. /\ seen' \in [Clients -> SUBSET (1..MaxUplinks)] /\ shown' \in [Clients -> 0..MaxUplinks]
        /\ seen'[c] = seen[c] \cup {m.n} /\ shown'[c] = m.n
        /\ \A o \in Clients \ {c} : seen'[o] = seen[o] /\ shown'[o] = shown[o]
    <3>1. seen \in [Clients -> SUBSET (1..MaxUplinks)] /\ shown \in [Clients -> 0..MaxUplinks]
      BY DEF TypeOK
    <3> QED
      BY <1>7, <2>1, <3>1 DEF Show
  <2>3. TypeOK'
    BY <1>1, <1>2, <1>3, <1>7, <2>2 DEF TypeOK, setup, deviceVars
  <2>4. HubFits'
    BY <1>1, <1>2, <1>4, <1>7 DEF HubFits, setup
  <2>5. InOrder'
    BY <1>1, <1>7 DEF InOrder, Pending, Top, Published, deviceVars
  <2>6. keyOf[c] = "name"
    BY <1>1, <1>7 DEF HubFits
  <2>7. UnusedIsUnknown'
    BY <1>1, <1>2, <1>4, <1>7, <2>2 DEF UnusedIsUnknown
  <2>8. ReadIsStored' /\ StoredOrNot'
    BY <1>1, <1>2 DEF ReadIsStored, StoredOrNot, deviceVars, setup
  <2>9. ReadIsNew' /\ OthersSeeNothing'
    BY <1>1, <1>4, <2>2, <2>6 DEF ReadIsNew, OthersSeeNothing, deviceVars, setup
  <2>10. \A o \in Clients : Watches(o)' => Watches(o)
    BY <1>1 DEF Watches, setup
  <2>11. ASSUME NEW o \in Clients, NEW n, UnderWay(o, n)
         PROVE  UnderWay(o, n)' \/ (o = c /\ n = m.n)
    <3>1. CASE o # c
      BY <1>1, <1>2, <1>7, <2>11, <3>1 DEF UnderWay
    <3>2. CASE Uplink(n) \in hub.sending
      <4>1. n = m.n
        BY <3>2, MessagesAre DEF HubFits
      <4> QED
        BY <3>1, <4>1
    <3>3. CASE Uplink(n) \notin hub.sending
      BY <1>1, <2>11, <3>3 DEF UnderWay
    <3> QED
      BY <3>1, <3>2, <3>3
  <2>12. Followed'
    <3> SUFFICES ASSUME NEW o \in Clients, Watches(o), NEW n \in 1..Published
                 PROVE  /\ cached[o].stage = "done" => Fate(o, n)'
                        /\ cached[o].stage = "read" => n <= cached[o].n \/ Fate(o, n)'
      BY <1>1, <1>4, <2>10 DEF Followed
    <3>1. Fate(o, n) => Fate(o, n)'
      <4>1. seen[o] \subseteq seen'[o] /\ UNCHANGED <<dropped, unstored>>
        BY <1>1, <2>2 DEF deviceVars
      <4>2. UnderWay(o, n) => UnderWay(o, n)' \/ n \in seen'[o]
        BY <2>2, <2>11
      <4>3. n >= n
        BY <1>4
      <4> QED
        BY <4>1, <4>2, <4>3 DEF Fate
    <3> QED
      BY <3>1 DEF Followed
  <2>13. NewerIsComing'
    <3> SUFFICES ASSUME ~overlapped, dropped = {}, unstored = {}, NEW o \in Clients, Watches(o),
                        NEW n \in seen'[o]
                 PROVE  n <= shown'[o] \/ n > Published \/ UnderWay(o, n)'
      BY <1>1, <1>4, <2>10 DEF NewerIsComing, deviceVars
    <3>1. CASE o # c
      BY <2>2, <2>11, <3>1 DEF NewerIsComing
    <3>2. CASE o = c /\ n > m.n /\ n <= Published
      <4>1. n \in Nat
        BY <2>2
      <4>2. Uplink(n) \in inFlight \/ InChannel(n)
        BY <1>7, <3>2, <4>1, NewerFollow
      <4>3. Uplink(n) \in inFlight' \/ InChannel(n)'
        BY <1>1, <4>2 DEF InChannel
      <4> QED
        BY <2>3, <4>3, UnderWayThenMeans DEF TypeOK
    <3>3. n \in Nat /\ m.n \in Nat
      BY <2>1, <2>2
    <3> QED
      BY <1>4, <2>2, <3>1, <3>2, <3>3
  <2> QED
    BY <2>3, <2>4, <2>5, <2>7, <2>8, <2>9, <2>12, <2>13
<1>8. \/ hub' = [hub EXCEPT !.failed = @ \cup {c}] /\ UNCHANGED <<seen, shown>>
      \/ \E m \in hub.sending : /\ hub' = hub
                                /\ IF m.event = "uplink" THEN Show(c, m.n) ELSE UNCHANGED <<seen, shown>>
  BY DEF EndWrite
<1> QED
  BY <1>5, <1>6, <1>7, <1>8

-------------------------------------------------------------------------------
(* All steps                                                               *)

LEMMA PanicStep == ASSUME IInv, Panic PROVE IInv'
<1> USE DEF IInv
<1>1. /\ handling' = FALSE /\ inFlight' = {} /\ broadcast' = <<>> /\ clients' = {}
      /\ hub'.sending = {} /\ hub'.todo = {} /\ hub'.failed = {} /\ hub' = Idle
      /\ UNCHANGED <<setup, received, commands, seen, shown, dropped, overlapped, faults>>
      /\ \/ UNCHANGED <<cache, unstored>>
         \/ cache' = 0 /\ unstored' = 1..received
      /\ received \in Nat /\ received' = received /\ received <= MaxUplinks /\ MaxUplinks \in Nat
      /\ 1..received \subseteq 1..MaxUplinks
  <2>1. received \in Nat /\ received <= MaxUplinks /\ MaxUplinks \in Nat
    BY PublishedFits DEF TypeOK
  <2> QED
    BY <2>1 DEF Panic, Idle
<1>2. /\ conn' \in [Clients -> {"none", "open", "gone", "closed"}]
      /\ \A o \in Clients : conn'[o] # "open" /\ (conn'[o] = "none" => conn[o] = "none")
      /\ reader' \in [Clients -> {"none", "reading", "leaving", "done"}]
      /\ \A o \in Clients : conn'[o] = "none" => reader'[o] = "none"
  BY DEF Panic, TypeOK
<1>3. /\ cached' \in [Clients -> [stage : {"none", "started", "read", "done", "failed"}, n : 0..MaxUplinks]]
      /\ \A o \in Clients : cached'[o].stage = "none" /\ writers'[o] = {}
      /\ writers' \in [Clients -> SUBSET {"run", "cached"}]
  BY <1>1 DEF Panic, NoState
<1>4. TypeOK'
  <2>1. hub' \in [sending : SUBSET Messages, todo : SUBSET Clients, failed : SUBSET Clients]
    BY <1>1 DEF Idle
  <2>2. broadcast' \in Seq(Messages) /\ Len(broadcast') <= Capacity
    BY <1>1, FeedsAssumption DEF FeedsAssumption
  <2>3. cache' \in 0..received' /\ unstored' \subseteq 1..MaxUplinks
    <3>1. cache \in 0..received /\ unstored \subseteq 1..MaxUplinks
      BY DEF TypeOK
    <3>2. received \in Nat /\ received' = received /\ 1..received \subseteq 1..MaxUplinks
      BY <1>1
    <3>3. CASE UNCHANGED <<cache, unstored>>
      BY <3>1, <3>2, <3>3
    <3>4. CASE cache' = 0 /\ unstored' = 1..received
      BY <3>2, <3>4
    <3> QED
      BY <1>1, <3>3, <3>4
  <2>4. /\ received' \in 0..MaxUplinks /\ commands' \in 0..MaxCommands /\ faults' \in 0..MaxFaults
        /\ controller' \in Controllers /\ keyOf' \in [Clients -> {"name", "id"}]
        /\ seen' \in [Clients -> SUBSET (1..MaxUplinks)] /\ shown' \in [Clients -> 0..MaxUplinks]
        /\ dropped' \subseteq 1..MaxUplinks /\ overlapped' \in BOOLEAN
    BY <1>1 DEF TypeOK, setup
  <2> HIDE DEF IInv
  <2> QED
    BY <1>1, <1>2, <2>4, <1>3, <2>1, <2>2, <2>3 DEF TypeOK, setup
<1>5. HubFits' /\ UnusedIsUnknown'
  BY <1>1, <1>2, <1>3 DEF HubFits, HubWrites, UnusedIsUnknown
<1>6. ReadIsStored' /\ ReadIsNew'
  BY <1>3 DEF ReadIsStored, ReadIsNew
<1>7. StoredOrNot'
  BY <1>1 DEF StoredOrNot
<1>8. InOrder'
  BY <1>1 DEF InOrder, Pending
<1>9. Followed' /\ NewerIsComing'
  BY <1>2 DEF Followed, NewerIsComing, Watches
<1>10. OthersSeeNothing'
  BY <1>1 DEF OthersSeeNothing, setup
<1> QED
  BY <1>4, <1>5, <1>6, <1>7, <1>8, <1>9, <1>10

LEMMA InitStep == Init => IInv
<1> SUFFICES ASSUME Init PROVE IInv
  OBVIOUS
<1> USE DEF Init
<1>1. /\ MaxUplinks \in Nat /\ MaxCommands \in Nat /\ MaxFaults \in Nat /\ Capacity \in Nat
      /\ Len(broadcast) = 0 /\ broadcast \in Seq(Messages) /\ \A o \in Clients : cached[o].stage = "none"
      /\ hub.sending = {} /\ hub.todo = {}
  BY FeedsAssumption DEF FeedsAssumption, NoState, Idle
<1>2. TypeOK
  <2>1. keyOf \in [Clients -> {"name", "id"}]
    <3>1. CASE controller = "all"
      BY <3>1
    <3>2. CASE controller # "all"
      BY <3>2
    <3> QED
      BY <3>1, <3>2
  <2>2. cached \in [Clients -> [stage : {"none", "started", "read", "done", "failed"}, n : 0..MaxUplinks]]
    BY <1>1 DEF NoState
  <2>3. hub \in [sending : SUBSET Messages, todo : SUBSET Clients, failed : SUBSET Clients]
    BY DEF Idle
  <2>4. /\ received \in 0..MaxUplinks /\ cache \in 0..received /\ commands \in 0..MaxCommands
        /\ faults \in 0..MaxFaults /\ Len(broadcast) <= Capacity
    BY <1>1, FeedsAssumption DEF FeedsAssumption
  <2>5. /\ conn \in [Clients -> {"none", "open", "gone", "closed"}]
        /\ reader \in [Clients -> {"none", "reading", "leaving", "done"}]
        /\ writers \in [Clients -> SUBSET {"run", "cached"}]
        /\ seen \in [Clients -> SUBSET (1..MaxUplinks)] /\ shown \in [Clients -> 0..MaxUplinks]
    BY <1>1
  <2>6. /\ controller \in Controllers /\ inFlight \subseteq Messages /\ clients \subseteq Clients
        /\ handling \in BOOLEAN /\ overlapped \in BOOLEAN
        /\ unstored \subseteq 1..MaxUplinks /\ dropped \subseteq 1..MaxUplinks
    OBVIOUS
  <2> HIDE DEF Init
  <2> QED
    BY <1>1, <2>1, <2>2, <2>3, <2>4, <2>5, <2>6 DEF TypeOK
<1>3. HubFits /\ UnusedIsUnknown
  BY <1>1 DEF HubFits, HubWrites, UnusedIsUnknown
<1>4. ReadIsStored /\ ReadIsNew
  BY <1>1 DEF ReadIsStored, ReadIsNew
<1>5. StoredOrNot
  BY DEF StoredOrNot
<1>6. InOrder
  BY <1>1 DEF InOrder, Pending
<1>7. Followed /\ NewerIsComing /\ OthersSeeNothing
  BY DEF Followed, NewerIsComing, Watches, OthersSeeNothing
<1> QED
  BY <1>2, <1>3, <1>4, <1>5, <1>6, <1>7 DEF IInv

LEMMA NextStep == IInv /\ [Next]_vars => IInv'
<1> SUFFICES ASSUME IInv, [Next]_vars PROVE IInv'
  OBVIOUS
<1>1. CASE UNCHANGED vars
  <2>1. UNCHANGED <<setup, deviceVars, hubVars, clientVars, faults>>
    BY <1>1 DEF vars
  <2>2. TypeOK' /\ StoredOrNot' /\ Published' = Published
    BY <2>1 DEF IInv, TypeOK, StoredOrNot, Published, setup, deviceVars, hubVars, clientVars
  <2>3. received' >= received /\ unstored \subseteq unstored'
    BY <2>1, PublishedFits DEF IInv, deviceVars
  <2> QED
    BY <2>1, <2>2, <2>3, StateStep
<1>2. CASE SetState \/ PublishUplink \/ PublishCommandSent \/ Expire
  BY <1>2, SetStateStep, PublishUplinkStep, PublishCommandSentStep, ExpireStep
<1>3. CASE HubStep
  BY <1>3, ReceiveForAllStep, TakeBroadcastStep, ReceiveForDeviceStep, EndSendingStep, BeginWriteStep
     DEF HubStep
<1>4. ASSUME NEW c \in Clients,
             \/ Register(c) \/ GetState(c) \/ BeginCached(c) \/ EndWrite(c) \/ EndCached(c)
             \/ Gone(c) \/ ReadError(c) \/ Unregister(c) \/ UnregisterLost(c)
      PROVE  IInv'
  BY <1>4, RegisterStep, GetStateStep, BeginCachedStep, EndWriteStep, EndCachedStep, GoingStep
<1>5. CASE Panic
  BY <1>5, PanicStep
<1> QED
  BY <1>1, <1>2, <1>3, <1>4, <1>5 DEF Next

LEMMA Invariance == Spec => []IInv
  BY InitStep, NextStep, PTL DEF Spec

-------------------------------------------------------------------------------
(* The theorems                                                            *)

(* The cache, the channel, the hubs' maps and the connections stay well    *)
(* typed, and the broadcast channel never holds more than its capacity.    *)
THEOREM FeedsTypeCorrect == Spec => []TypeOK
<1>1. IInv => TypeOK
  BY DEF IInv
<1> QED
  BY <1>1, Invariance, PTL

(* A client that has been sent the stored state gets every uplink that is  *)
(* not in it: registering it and publishing may interleave in any way.     *)
THEOREM NoUplinkIsMissed == Spec => []NothingMissed
<1>1. ASSUME IInv PROVE NothingMissed
  <2> SUFFICES ASSUME NEW c \in Clients, Follows(c), keyOf[c] = "name", NEW n \in 1..Published
               PROVE  Informed(c, n)
    BY DEF NothingMissed
  <2>1. Watches(c) /\ cached[c].stage = "done"
    BY DEF Follows, Watches
  <2>2. Fate(c, n)
    BY <1>1, <2>1 DEF IInv, Followed
  <2>3. n \in n..received
    BY <1>1, PublishedFits DEF IInv
  <2> QED
    BY <2>2, <2>3 DEF Fate, Informed
<1> QED
  BY <1>1, Invariance, PTL

(* When nothing is under way, a client shows the newest state that it was  *)
(* ever sent, unless an uplink was published while another was on its way, *)
(* or one was dropped or not stored.                                       *)
THEOREM ScreensAreCurrent == Spec => []ShowsTheNewest
<1>1. ASSUME IInv PROVE ShowsTheNewest
  <2> SUFFICES ASSUME NEW c \in Clients, ~overlapped, dropped \cup unstored = {}, Follows(c),
                      \A n \in 1..received : ~UnderWay(c, n), NEW n \in seen[c]
               PROVE  n <= shown[c] \/ n > Published
    BY DEF ShowsTheNewest
  <2>1. keyOf[c] = "name"
    BY <1>1 DEF IInv, OthersSeeNothing
  <2>2. Watches(c)
    BY <2>1 DEF Follows, Watches
  <2>3. n <= shown[c] \/ n > Published \/ UnderWay(c, n)
    BY <1>1, <2>2 DEF IInv, NewerIsComing
  <2>4. n \in Nat /\ n >= 1
    BY <1>1 DEF IInv, TypeOK
  <2>5. n <= Published => n \in 1..received
    BY <1>1, <2>4, PublishedFits DEF IInv
  <2>6. n <= Published \/ n > Published
    BY <1>1, <2>4, PublishedFits DEF IInv
  <2> QED
    BY <2>3, <2>5, <2>6
<1> QED
  BY <1>1, Invariance, PTL
===============================================================================
