----------------------------- MODULE VictronStatus -----------------------------
(***************************************************************************)
(* The state of a Victron installation on its way to the dashboards.  The  *)
(* GX device publishes values over MQTT while it is kept alive, the        *)
(* VictronWorker passes them to the internal broker, and from there they   *)
(* go to the hub of the VictronWebSocketController, which keeps the last   *)
(* value of everything and sends a summary of it to its clients.           *)
(***************************************************************************)
EXTENDS Integers, Sequences, SequencesExt

CONSTANTS
  Topics,      \* what the GX publishes: service, instance and path; of the
               \* three phases the first stands for all, and a PV inverter is
               \* kept with the solar chargers
  Readings,    \* the values each may have
  Null,        \* a payload without a number
  Unreported,  \* no value yet
  Clients,     \* WebSocket connections
  Capacity,    \* of the broadcast channel
  MaxChanges,  \* bound: changes of values
  MaxCrashes,  \* bound: crashes
  MaxFaults    \* bound: lost messages, failed calls

ASSUME VictronAssumption ==
  /\ Capacity \in Nat \ {0} /\ MaxChanges \in Nat /\ MaxCrashes \in Nat /\ MaxFaults \in Nat
  /\ Null \notin Int /\ Unreported \notin Int /\ Null # Unreported
  /\ Readings \in [Topics -> SUBSET (Int \cup {Null})]
  /\ \A t \in Topics : t = [service |-> t.service, instance |-> t.instance, path |-> t.path]
  /\ \A t \in Topics : t.service = "system" => t.instance = 0   \* the GX itself

VARIABLES
  gx,         \* the values the GX device has
  changes,    \* how often they have changed
  worker,     \* what VictronWorker.Run is doing
  recent,     \* topics of which the MQTT client takes a message for a duplicate
  inFlight,   \* messages the broker's goroutines still have for a subscriber
  snapshot,   \* of the hub
  order,      \* the hub's slices: services and instances as they were added
  broadcast,  \* its channel
  dropped,    \* history: the channel had no room for the last update
  clients,    \* the connections in its map
  shown,      \* history: the last summary each was sent
  crashes,
  faults

gxVars == <<gx, changes>>
hubVars == <<snapshot, order, broadcast, dropped>>
clientVars == <<clients, shown, crashes>>
vars == <<gxVars, worker, recent, inFlight, hubVars, clientVars, faults>>

AnyReadings == {f \in [Topics -> UNION {Readings[t] : t \in Topics}] :
                  \A t \in Topics : f[t] \in Readings[t]}

Init ==
  /\ gx \in AnyReadings /\ changes = 0
  /\ worker = "starting"
  /\ recent = {} /\ inFlight = {}
  /\ snapshot = [t \in Topics |-> Unreported] /\ order = <<>>
  /\ broadcast = <<>> /\ dropped = FALSE
  /\ clients = {} /\ shown = [c \in Clients |-> Unreported]
  /\ crashes = 0 /\ faults = 0

Fault == faults < MaxFaults /\ faults' = faults + 1

-------------------------------------------------------------------------------
(* The summary of a snapshot s whose slices have the order o               *)

At(s, service, instance, path) ==
  LET t == [service |-> service, instance |-> instance, path |-> path]
  IN IF t \in Topics THEN s[t] ELSE Unreported

(* A field that is no pointer is 0 until it is reported.                   *)
Field(s, service, instance, path) ==
  LET v == At(s, service, instance, path) IN IF v = Unreported THEN 0 ELSE v

System(s, path) == Field(s, "system", 0, path)

Slice(o, service) == SelectSeq(o, LAMBDA e : e[1] = service)

(* Loops over a slice: the sum of a field, and the last one that is set.   *)
Total(s, o, service, path) ==
  FoldLeft(LAMBDA n, e : n + Field(s, service, e[2], path), 0, Slice(o, service))

LastSet(s, o, service, path, unset) ==
  LET last == SelectLastInSeq(o, LAMBDA e : /\ e[1] = service
                                            /\ At(s, service, e[2], path) \notin unset)
  IN IF last = 0 THEN Unreported ELSE At(s, service, o[last][2], path)

ConnectedVoltage == 100   \* acInputConnectedVoltage
NoInput == 240            \* acActiveInputNone

OrZero(v) == IF v = Unreported THEN 0 ELSE v

(* Mutant of AcInputConnected: the voltage comes first.                    *)
AcInputByVoltage(s, o) ==
  OrZero(LastSet(s, o, "vebus", "Ac/ActiveIn/L1/V", {Unreported, 0})) >= ConnectedVoltage

(* acInputState.                                                           *)
AcInputConnected(s, o) ==
  LET voltage == OrZero(LastSet(s, o, "vebus", "Ac/ActiveIn/L1/V", {Unreported, 0}))
      connected == LastSet(s, o, "vebus", "Ac/ActiveIn/Connected", {Unreported})
      activeInput == LastSet(s, o, "vebus", "Ac/ActiveIn/ActiveInput", {Unreported})
      source == At(s, "system", 0, "Ac/ActiveIn/Source")
  IN IF connected # Unreported THEN connected > 0
     ELSE IF activeInput # Unreported THEN activeInput # NoInput
     ELSE IF source # Unreported THEN source # NoInput
     ELSE voltage >= ConnectedVoltage

Prefer(total, sum) == IF total # 0 THEN total ELSE sum

BatterySOC(s, o) ==
  LET own == System(s, "Dc/Battery/Soc")
  IN IF own # 0 THEN own ELSE LastSet(s, o, "battery", "Soc", {Unreported, 0})

(* buildSummary.                                                           *)
Summary(s, o) ==
  LET load == Prefer(System(s, "Ac/Consumption/L1/Power"), Total(s, o, "acload", "Ac/0/Power"))
      solar == Prefer(System(s, "Dc/Pv/Power"), Total(s, o, "solarcharger", "Yield/Power"))
      battery == Prefer(System(s, "Dc/Battery/Power"), Total(s, o, "battery", "Dc/0/Power"))
      meter == System(s, "Ac/Grid/L1/Power")
      connected == AcInputConnected(s, o)
      balance == load - solar - battery
  IN [soc |-> BatterySOC(s, o), load |-> load, solar |-> solar, battery |-> battery,
      connected |-> connected,
      grid |-> IF meter # 0 THEN meter ELSE IF connected /\ balance > 0 THEN balance ELSE 0]

-------------------------------------------------------------------------------
(* The GX device and the VictronWorker                                     *)

Message(t, v) == [topic |-> t, value |-> v]

(* handleMessage, for messages that reach the MQTT client: it drops those  *)
(* on a topic of which it has handled one in the last 30 seconds, and the  *)
(* others are published on the internal broker, with a goroutine each.     *)
Arrive(values, topics) ==
  /\ inFlight' = inFlight \cup {Message(t, values[t]) : t \in topics \ recent}
  /\ recent' = recent \cup topics

Lost == Fault /\ UNCHANGED <<inFlight, recent>>

Forget(t) ==
  /\ t \in recent /\ recent' = recent \ {t}
  /\ UNCHANGED <<gxVars, worker, inFlight, hubVars, clientVars, faults>>

(* A change is published with QoS 0; it is lost also when the GX has gone  *)
(* quiet for want of a keep-alive.                                         *)
Change(t, v) ==
  /\ changes < MaxChanges /\ changes' = changes + 1
  /\ v # gx[t] /\ gx' = [gx EXCEPT ![t] = v]
  /\ IF worker \in {"starting", "ended"} THEN UNCHANGED <<inFlight, recent, faults>>
     ELSE \/ Arrive(gx', {t}) /\ UNCHANGED faults
          \/ Lost
  /\ UNCHANGED <<worker, hubVars, clientVars>>

(* Run: a subscription that is refused ends it.                            *)
Subscribe ==
  /\ worker = "starting"
  /\ \/ worker' = "requesting" /\ UNCHANGED faults
     \/ worker' = "ended" /\ Fault
  /\ UNCHANGED <<gxVars, recent, inFlight, hubVars, clientVars>>

(* Mutant of SendKeepAlive: only until the first full publish.             *)
RequestOnce ==
  /\ worker = "requesting"
  /\ worker' = "running" /\ Arrive(gx, Topics)
  /\ UNCHANGED <<gxVars, faults, hubVars, clientVars>>

(* The GX answers a keep-alive with all its values and a message that      *)
(* confirms them, which ends requestFullPublish: there was one keep-alive  *)
(* every second, from then on there is one every 30.  The keep-alive or    *)
(* the answer may be lost.                                                 *)
SendKeepAlive ==
  /\ worker \in {"requesting", "running"}
  /\ \/ worker' = "running" /\ Arrive(gx, Topics) /\ UNCHANGED faults
     \/ Lost /\ UNCHANGED worker
  /\ UNCHANGED <<gxVars, hubVars, clientVars>>

-------------------------------------------------------------------------------
(* The subscribers                                                         *)

(* The hub takes a payload without a number for a zero.                    *)
Number(v) == IF v = Null THEN 0 ELSE v

(* Mutant of Added: the instance is not looked for.                        *)
AddedAgain(t) == Append(order, <<t.service, t.instance>>)

Added(t) ==
  LET e == <<t.service, t.instance>>
  IN IF e \in ToSet(order) THEN order ELSE Append(order, e)

(* handleTelemetryUpdate: the snapshot is changed under a lock; a copy of  *)
(* it goes to the clients if the channel has room.                         *)
HandleTelemetryUpdate(m) ==
  /\ m \in inFlight /\ inFlight' = inFlight \ {m}
  /\ snapshot' = [snapshot EXCEPT ![m.topic] = Number(m.value)]
  /\ order' = Added(m.topic)
  /\ dropped' = (Len(broadcast) = Capacity)
  /\ broadcast' = IF dropped' THEN broadcast ELSE Append(broadcast, Summary(snapshot', order'))
  /\ UNCHANGED <<gxVars, worker, recent, clientVars, faults>>

(* writeToAllClients: a client to which it fails is removed.               *)
TakeBroadcast ==
  /\ broadcast # <<>> /\ broadcast' = Tail(broadcast)
  /\ \E failed \in SUBSET clients :
       /\ IF failed = {} THEN UNCHANGED faults ELSE Fault
       /\ clients' = clients \ failed
       /\ shown' = [c \in Clients |-> IF c \in clients' THEN Head(broadcast) ELSE Unreported]
  /\ UNCHANGED <<gxVars, worker, recent, inFlight, snapshot, order, dropped,
                 crashes>>

(* Mutant of Register: the client has to wait for the next update.         *)
RegisterSilently(c) ==
  /\ c \notin clients /\ clients' = clients \cup {c}
  /\ shown' = [shown EXCEPT ![c] = Unreported]
  /\ UNCHANGED <<gxVars, worker, recent, inFlight, hubVars, crashes, faults>>

(* sendCurrentSnapshot, before run goes on; an error is only logged.       *)
Register(c) ==
  /\ c \notin clients /\ clients' = clients \cup {c}
  /\ shown' = [shown EXCEPT ![c] = Summary(snapshot, order)]
  /\ UNCHANGED <<gxVars, worker, recent, inFlight, hubVars, crashes, faults>>

Unregister(c) ==
  /\ c \in clients /\ clients' = clients \ {c}
  /\ shown' = [shown EXCEPT ![c] = Unreported]
  /\ UNCHANGED <<gxVars, worker, recent, inFlight, hubVars, crashes, faults>>

(* getLatest copies the snapshot under the lock; the copy has the same Raw *)
(* map, and its encoding goes on after the lock is released.  An update of *)
(* the map in the meantime may be noticed by the Go runtime, which ends    *)
(* the process.  It starts again with nothing.                             *)
GetLatest ==
  /\ crashes < MaxCrashes /\ crashes' = crashes + 1
  /\ inFlight # {}
  /\ worker' = "starting" /\ recent' = {} /\ inFlight' = {}
  /\ snapshot' = [t \in Topics |-> Unreported] /\ order' = <<>>
  /\ broadcast' = <<>> /\ dropped' = FALSE
  /\ clients' = {} /\ shown' = [c \in Clients |-> Unreported]
  /\ UNCHANGED <<gxVars, faults>>

Next ==
  \/ \E t \in Topics : Forget(t) \/ \E v \in Readings[t] : Change(t, v)
  \/ Subscribe \/ SendKeepAlive
  \/ \E m \in inFlight : HandleTelemetryUpdate(m)
  \/ TakeBroadcast
  \/ \E c \in Clients : Register(c) \/ Unregister(c)
  \/ GetLatest

Spec == Init /\ [][Next]_vars

Messages == UNION {{Message(t, v) : v \in Readings[t]} : t \in Topics}

(* The tickers tick, 30 seconds pass and goroutines run: one that holds a  *)
(* message hands it over, older or newer than another on the same topic.   *)
FairSpec == /\ Spec
            /\ WF_vars(Subscribe) /\ WF_vars(SendKeepAlive)
            /\ \A t \in Topics :
                 /\ WF_vars(Forget(t))
                 /\ WF_vars(\E m \in inFlight : m.topic = t /\ HandleTelemetryUpdate(m))
            /\ WF_vars(TakeBroadcast)
-------------------------------------------------------------------------------
TypeOK ==
  /\ gx \in AnyReadings /\ changes \in 0..MaxChanges
  /\ worker \in {"starting", "requesting", "running", "ended"}
  /\ recent \subseteq Topics /\ inFlight \subseteq Messages
  /\ snapshot \in [Topics -> Int \cup {Unreported}]
  /\ order \in Seq({<<t.service, t.instance>> : t \in Topics})
  /\ \A i, j \in DOMAIN order : order[i] = order[j] => i = j
  /\ Len(broadcast) <= Capacity /\ dropped \in BOOLEAN
  /\ clients \subseteq Clients
  /\ crashes \in 0..MaxCrashes /\ faults \in 0..MaxFaults

(* A client is not left with a summary the hub itself knows to be old: it  *)
(* has the current one, or that is waiting for it, unless the channel had  *)
(* no room for the last update.                                            *)
ShownIsCurrent ==
  \A c \in clients : broadcast = <<>> /\ ~dropped => shown[c] = Summary(snapshot, order)

(* What of a service has been reported, and what the indicators say.       *)
Reported(service, path) ==
  {t \in Topics : t.service = service /\ t.path = path /\ snapshot[t] # Unreported}

Indications ==
  {snapshot[t] > 0 : t \in Reported("vebus", "Ac/ActiveIn/Connected")} \cup
  {snapshot[t] # NoInput : t \in Reported("vebus", "Ac/ActiveIn/ActiveInput")
                                   \cup Reported("system", "Ac/ActiveIn/Source")}

(* "Any explicit indicator from the GX wins over the threshold": whatever  *)
(* voltage the inverters measure, and in whatever order the indicators     *)
(* were reported, the AC input counts as connected when all that there are *)
(* say so, and as disconnected when all deny it.                           *)
IndicatorsWin ==
  \A known \in BOOLEAN : Indications = {known} => AcInputConnected(snapshot, order) = known

(* A client that stays connected is shown, again and again, the summary of *)
(* what the GX has, once that no longer changes: lost and dropped messages,*)
(* values that overtake each other and a crash are made up for by the      *)
(* keep-alives.                                                            *)
Actual == Summary([t \in Topics |-> Number(gx[t])], order)

DashboardsCatchUp ==
  \A c \in Clients : []<>(c \notin clients \/ worker = "ended" \/ shown[c] = Actual)
===============================================================================
