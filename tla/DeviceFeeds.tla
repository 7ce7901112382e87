------------------------------ MODULE DeviceFeeds ------------------------------
(***************************************************************************)
(* From an uplink of a device to the browsers that watch it: the handler   *)
(* of the LoraIntegrationWorker stores the device's state and publishes    *)
(* the uplink, and two WebSocket controllers, one for all devices and one  *)
(* for a single device, send it to their clients.  A new client is sent    *)
(* the stored state by a goroutine of its own.                             *)
(***************************************************************************)
EXTENDS Integers, Sequences, FiniteSets

CONSTANTS
  Clients,      \* connections, each used once
  Controllers,  \* of "all" devices and of one "device"
  Capacity,     \* of the broadcast channel
  MaxUplinks,   \* bound: uplinks of the device
  MaxCommands,  \* bound: commands sent to it
  MaxFaults     \* bound: failed or expired states, writes that time out

ASSUME FeedsAssumption ==
  /\ Capacity \in Nat \ {0} /\ MaxUplinks \in Nat /\ MaxCommands \in Nat /\ MaxFaults \in Nat
  /\ Controllers \subseteq {"all", "device"}

VARIABLES
  controller,  \* the one the clients connect to, as the two share nothing
  keyOf,       \* what a client calls the device by: its "name" or its "id"
  received,    \* uplinks so far: the last one is what the device's state is
  handling,    \* the handler is between SetState and Publish
  commands,    \* commands sent so far
  cache,       \* the stored state: which uplink it is of, 0 if none
  inFlight,    \* the messages the broker's goroutines still have for the hub
  broadcast,   \* the channel of the hub for all devices
  hub,         \* what run is sending, to whom still, and to whom it failed
  clients,     \* the connections in the hub's map
  conn,        \* each connection
  reader,      \* its handleClient
  cached,      \* its goroutine that sends the stored state
  writers,     \* who is inside a write to it
  seen,        \* history: the uplinks it was sent
  shown,       \* history: the last of them
  unstored,    \* history: uplinks whose state is not in the cache
  dropped,     \* history: uplinks the full channel had no room for
  overlapped,  \* history: an uplink was published before the last was through
  faults

setup == <<controller, keyOf>>
deviceVars == <<received, handling, commands, cache, unstored>>
hubVars == <<inFlight, broadcast, hub, dropped, overlapped>>
clientVars == <<clients, conn, reader, cached, writers, seen, shown>>
vars == <<setup, deviceVars, hubVars, clientVars, faults>>

Uplink(n) == [event |-> "uplink", n |-> n]
CommandSent(n) == [event |-> "command_sent", n |-> n]
Messages == {Uplink(n) : n \in 1..MaxUplinks} \cup {CommandSent(n) : n \in 1..MaxCommands}
Idle == [sending |-> {}, todo |-> {}, failed |-> {}]
NoState == [stage |-> "none", n |-> 0]

Init ==
  /\ controller \in Controllers
  /\ keyOf \in [Clients -> IF controller = "all" THEN {"name"} ELSE {"name", "id"}]
  /\ received = 0 /\ handling = FALSE /\ commands = 0 /\ cache = 0
  /\ inFlight = {} /\ broadcast = <<>> /\ hub = Idle
  /\ clients = {} /\ conn = [c \in Clients |-> "none"] /\ reader = [c \in Clients |-> "none"]
  /\ cached = [c \in Clients |-> NoState]
  /\ writers = [c \in Clients |-> {}]
  /\ seen = [c \in Clients |-> {}] /\ shown = [c \in Clients |-> 0]
  /\ unstored = {} /\ dropped = {} /\ overlapped = FALSE
  /\ faults = 0

Fault == faults < MaxFaults /\ faults' = faults + 1

-------------------------------------------------------------------------------
(* The worker                                                              *)

(* LocalBroker.Publish: a goroutine per message takes it to the hub, and   *)
(* the order of two goroutines is the scheduler's.                         *)
Publish(m) == inFlight' = inFlight \cup {m}

(* uplinkMessageHandler, called for one message at a time: the state is    *)
(* stored, or the cache fails and that is logged ...                       *)
SetState ==
  /\ ~handling /\ received < MaxUplinks
  /\ received' = received + 1 /\ handling' = TRUE
  /\ \/ cache' = received' /\ UNCHANGED <<unstored, faults>>
     \/ Fault /\ unstored' = unstored \cup {received'} /\ UNCHANGED cache
  /\ UNCHANGED <<setup, commands, hubVars, clientVars>>

(* ... and the uplink is published, before the values in it, which the     *)
(* hubs ignore.                                                            *)
PublishUplink ==
  /\ handling /\ handling' = FALSE
  /\ Publish(Uplink(received))
  /\ overlapped' = \/ overlapped
                   \/ \E m \in inFlight : m.event = "uplink"
                   \/ \E c \in Clients : cached[c].stage = "read"
  /\ UNCHANGED <<setup, received, commands, cache, unstored, broadcast, hub, dropped, clientVars, faults>>

(* dispatchCommand announces a command with the device's ID.               *)
PublishCommandSent ==
  /\ commands < MaxCommands /\ commands' = commands + 1
  /\ Publish(CommandSent(commands'))
  /\ UNCHANGED <<setup, received, handling, cache, unstored, broadcast, hub, dropped, overlapped,
                 clientVars, faults>>

(* The entry in Redis lives for a day.                                     *)
Expire ==
  /\ cache # 0 /\ Fault
  /\ cache' = 0 /\ unstored' = 1..received
  /\ UNCHANGED <<setup, received, handling, commands, hubVars, clientVars>>

-------------------------------------------------------------------------------
(* The hubs: run, one goroutine each                                       *)

(* Mutant of Addressed: only the clients that have their stored state.     *)
AddressedWhenReady(m) == {c \in clients : cached[c].stage = "done"}

(* Uplinks carry the name The Things Network knows the device by, commands *)
(* the ID of its row.  The controller for all devices sends all uplinks.   *)
Addressed(m) == {c \in clients : \/ m.event = "uplink" /\ keyOf[c] = "name"
                                 \/ m.event = "command_sent" /\ keyOf[c] = "id"}

StartSending(m) == hub' = [sending |-> {m}, todo |-> Addressed(m), failed |-> {}]

AtSelect == hub = Idle

(* Mutant of ReceiveForAll: the channel is taken to have room.             *)
ReceiveAnyway ==
  /\ controller = "all" /\ AtSelect
  /\ \E m \in inFlight :
       /\ inFlight' = inFlight \ {m}
       /\ broadcast' = IF m.event = "uplink" THEN Append(broadcast, m) ELSE broadcast
  /\ UNCHANGED <<setup, deviceVars, hub, dropped, overlapped, clientVars, faults>>

(* The hub for all devices puts uplinks into its own channel, unless it is *)
(* full; ...                                                               *)
ReceiveForAll ==
  /\ controller = "all" /\ AtSelect
  /\ \E m \in inFlight :
       /\ inFlight' = inFlight \ {m}
       /\ IF m.event # "uplink" THEN UNCHANGED <<broadcast, dropped>>
          ELSE IF Len(broadcast) < Capacity
               THEN broadcast' = Append(broadcast, m) /\ UNCHANGED dropped
               ELSE dropped' = dropped \cup {m.n} /\ UNCHANGED broadcast
  /\ UNCHANGED <<setup, deviceVars, hub, overlapped, clientVars, faults>>

(* Mutant of TakeBroadcast: the last first.                                *)
TakeNewest ==
  /\ AtSelect /\ broadcast # <<>>
  /\ StartSending(broadcast[Len(broadcast)])
  /\ broadcast' = SubSeq(broadcast, 1, Len(broadcast) - 1)
  /\ UNCHANGED <<setup, deviceVars, inFlight, dropped, overlapped, clientVars, faults>>

(* ... and takes them out again.                                           *)
TakeBroadcast ==
  /\ AtSelect /\ broadcast # <<>>
  /\ StartSending(Head(broadcast))
  /\ broadcast' = Tail(broadcast)
  /\ UNCHANGED <<setup, deviceVars, inFlight, dropped, overlapped, clientVars, faults>>

(* The hub for one device sends what it receives.                          *)
ReceiveForDevice ==
  /\ controller = "device" /\ AtSelect
  /\ \E m \in inFlight : inFlight' = inFlight \ {m} /\ StartSending(m)
  /\ UNCHANGED <<setup, deviceVars, broadcast, dropped, overlapped, clientVars, faults>>

Enter(c, who) == who \notin writers[c] /\ writers' = [writers EXCEPT ![c] = @ \cup {who}]
Exit(c, who) == who \in writers[c] /\ writers' = [writers EXCEPT ![c] = @ \ {who}]

(* A client has been sent the state that uplink n left.                    *)
Show(c, n) == /\ seen' = [seen EXCEPT ![c] = @ \cup {n}]
              /\ shown' = [shown EXCEPT ![c] = n]

HubWrites == {c \in Clients : "run" \in writers[c]}

(* WriteJSON, to one client after the other.                               *)
BeginWrite(c) ==
  /\ c \in hub.todo /\ HubWrites = {}
  /\ hub' = [hub EXCEPT !.todo = @ \ {c}]
  /\ Enter(c, "run")
  /\ UNCHANGED <<setup, deviceVars, inFlight, broadcast, dropped, overlapped,
                 clients, conn, reader, cached, seen, shown, faults>>

(* Bytes for a client that has just gone are accepted or not; a write may  *)
(* also reach its deadline, and on a closed connection it fails.           *)
EndWrite(c) ==
  /\ Exit(c, "run")
  /\ \/ /\ conn[c] # "closed"
        /\ \E m \in hub.sending : IF m.event = "uplink" THEN Show(c, m.n)
                                                        ELSE UNCHANGED <<seen, shown>>
        /\ UNCHANGED <<hub, faults>>
     \/ /\ hub' = [hub EXCEPT !.failed = @ \cup {c}]
        /\ IF conn[c] = "open" THEN Fault ELSE UNCHANGED faults
        /\ UNCHANGED <<seen, shown>>
  /\ UNCHANGED <<setup, deviceVars, inFlight, broadcast, dropped, overlapped,
                 clients, conn, reader, cached>>

(* The clients that failed are removed and their connections closed.       *)
EndSending ==
  /\ hub.sending # {} /\ hub.todo = {} /\ HubWrites = {}
  /\ clients' = clients \ hub.failed
  /\ conn' = [c \in Clients |-> IF c \in hub.failed \cap clients THEN "closed" ELSE conn[c]]
  /\ hub' = Idle
  /\ UNCHANGED <<setup, deviceVars, inFlight, broadcast, dropped, overlapped,
                 reader, cached, writers, seen, shown, faults>>

-------------------------------------------------------------------------------
(* The clients                                                             *)

(* handleWebSocket sends the connection to run, which registers it and     *)
(* starts the goroutine for the stored state.                              *)
Register(c) ==
  /\ conn[c] = "none" /\ AtSelect
  /\ conn' = [conn EXCEPT ![c] = "open"]
  /\ reader' = [reader EXCEPT ![c] = "reading"]
  /\ clients' = clients \cup {c}
  /\ cached' = [cached EXCEPT ![c].stage = "started"]
  /\ UNCHANGED <<setup, deviceVars, hubVars, writers, seen, shown, faults>>

(* sendCachedStatesToClient, sendCachedStateToClient: states are stored by *)
(* name.                                                                   *)
GetState(c) ==
  /\ cached[c].stage = "started"
  /\ LET found == cache # 0 /\ keyOf[c] = "name"
     IN cached' = [cached EXCEPT ![c] = IF found THEN [stage |-> "read", n |-> cache]
                                                 ELSE [stage |-> "done", n |-> 0]]
  /\ UNCHANGED <<setup, deviceVars, hubVars, clients, conn, reader, writers, seen, shown, faults>>

BeginCached(c) ==
  /\ cached[c].stage = "read" /\ Enter(c, "cached")
  /\ UNCHANGED <<setup, deviceVars, hubVars, clients, conn, reader, cached, seen, shown, faults>>

EndCached(c) ==
  /\ Exit(c, "cached")
  /\ \/ /\ conn[c] # "closed" /\ Show(c, cached[c].n)
        /\ cached' = [cached EXCEPT ![c].stage = "done"] /\ UNCHANGED faults
     \/ /\ cached' = [cached EXCEPT ![c].stage = "failed"] /\ UNCHANGED <<seen, shown>>
        /\ IF conn[c] = "open" THEN Fault ELSE UNCHANGED faults
  /\ UNCHANGED <<setup, deviceVars, hubVars, clients, conn, reader>>

(* The browser goes away, or stops answering pings for 60 seconds.         *)
Gone(c) ==
  /\ conn[c] = "open"
  /\ conn' = [conn EXCEPT ![c] = "gone"]
  /\ UNCHANGED <<setup, deviceVars, hubVars, clients, reader, cached, writers, seen, shown, faults>>

(* handleClient's ReadMessage fails.                                       *)
ReadError(c) ==
  /\ reader[c] = "reading" /\ conn[c] # "open"
  /\ reader' = [reader EXCEPT ![c] = "leaving"]
  /\ UNCHANGED <<setup, deviceVars, hubVars, clients, conn, cached, writers, seen, shown, faults>>

(* run takes the connection out and closes it, as does handleClient.       *)
Leave(c) ==
  /\ reader' = [reader EXCEPT ![c] = "done"]
  /\ conn' = [conn EXCEPT ![c] = "closed"]
  /\ UNCHANGED <<setup, deviceVars, hubVars, cached, writers, seen, shown, faults>>

Unregister(c) ==
  /\ reader[c] = "leaving" /\ AtSelect
  /\ clients' = clients \ {c}
  /\ Leave(c)

(* Mutant of UnregisterLost: nor does the other.                           *)
UnregisterLostAnywhere(c) ==
  /\ reader[c] = "leaving"
  /\ UNCHANGED clients
  /\ Leave(c)

(* The controller for one device does not wait for run to take it.         *)
UnregisterLost(c) ==
  /\ reader[c] = "leaving" /\ controller = "device"
  /\ UNCHANGED clients
  /\ Leave(c)

(* While a goroutine writes to a connection another one begins, which may  *)
(* be handlePingPong's: gorilla's connection notices and panics, or does   *)
(* not, and what the client gets is as if they had taken turns or as if it *)
(* had gone.  The panic ends the process, and with it all the connections  *)
(* and a cache in memory.                                                  *)
Panic ==
  /\ \E c \in Clients : writers[c] # {}
  /\ handling' = FALSE /\ inFlight' = {} /\ broadcast' = <<>>
  /\ hub' = Idle /\ clients' = {}
  /\ \/ UNCHANGED <<cache, unstored>>
     \/ cache' = 0 /\ unstored' = 1..received
  /\ conn' = [c \in Clients |-> IF conn[c] = "none" THEN "none" ELSE "closed"]
  /\ reader' = [c \in Clients |-> IF conn[c] = "none" THEN "none" ELSE "done"]
  /\ cached' = [c \in Clients |-> NoState] /\ writers' = [c \in Clients |-> {}]
  /\ UNCHANGED <<setup, received, commands, seen, shown, dropped, overlapped, faults>>

HubStep == \/ ReceiveForAll \/ TakeBroadcast \/ ReceiveForDevice
           \/ EndSending
           \/ \E c \in Clients : BeginWrite(c)

Next ==
  \/ SetState \/ PublishUplink \/ PublishCommandSent \/ Expire
  \/ HubStep
  \/ \E c \in Clients : \/ Register(c) \/ GetState(c) \/ BeginCached(c)
                        \/ EndWrite(c) \/ EndCached(c)
                        \/ Gone(c) \/ ReadError(c) \/ Unregister(c) \/ UnregisterLost(c)
  \/ Panic

Spec == Init /\ [][Next]_vars

(* Goroutines run, and a write ends at its deadline if not before.  When   *)
(* run is at its select every now and then, a connection that waits there  *)
(* is taken in the end.                                                    *)
FairSpec == /\ Spec
            /\ WF_vars(HubStep)
            /\ \A c \in Clients : /\ WF_vars(EndWrite(c)) /\ WF_vars(ReadError(c))
                                  /\ SF_vars(Unregister(c))
-------------------------------------------------------------------------------
TypeOK ==
  /\ received \in 0..MaxUplinks /\ cache \in 0..received
  /\ handling \in BOOLEAN /\ commands \in 0..MaxCommands
  /\ controller \in Controllers /\ keyOf \in [Clients -> {"name", "id"}]
  /\ inFlight \subseteq Messages
  /\ broadcast \in Seq(Messages) /\ Len(broadcast) <= Capacity
  /\ hub \in [sending : SUBSET Messages, todo : SUBSET Clients, failed : SUBSET Clients]
  /\ clients \subseteq Clients
  /\ conn \in [Clients -> {"none", "open", "gone", "closed"}]
  /\ reader \in [Clients -> {"none", "reading", "leaving", "done"}]
  /\ cached \in [Clients -> [stage : {"none", "started", "read", "done", "failed"},
                             n : 0..MaxUplinks]]
  /\ writers \in [Clients -> SUBSET {"run", "cached"}]
  /\ seen \in [Clients -> SUBSET (1..MaxUplinks)] /\ shown \in [Clients -> 0..MaxUplinks]
  /\ unstored \subseteq 1..MaxUplinks /\ dropped \subseteq 1..MaxUplinks
  /\ overlapped \in BOOLEAN /\ faults \in 0..MaxFaults

Published == IF handling THEN received - 1 ELSE received

(* Uplink n is still on its way to the client.                             *)
UnderWay(c, n) ==
  LET m == Uplink(n)
  IN \/ m \in inFlight \/ m \in {broadcast[i] : i \in DOMAIN broadcast}
     \/ m \in hub.sending /\ (c \in hub.todo \cup hub.failed \/ "run" \in writers[c])

Follows(c) == c \in clients /\ conn[c] = "open" /\ cached[c].stage = "done"

(* The state as of uplink n, or a later one, has reached the client or     *)
(* will, unless the broadcast channel was full or the cache did not have   *)
(* it.                                                                     *)
Informed(c, n) ==
  \/ \E v \in seen[c] : v >= n
  \/ \E v \in n..received : UnderWay(c, v)
  \/ n \in dropped \cup unstored

(* A client misses no uplink between the stored state it is sent when it   *)
(* connects and the messages it is sent afterwards, whatever is published  *)
(* while it is being registered.                                           *)
NothingMissed ==
  \A c \in Clients : Follows(c) /\ keyOf[c] = "name" => \A n \in 1..Published : Informed(c, n)

(* When all is delivered, what a client shows is the newest state it was   *)
(* ever sent: an older one stays on the screen only if an uplink was       *)
(* published while the one before, or a stored state, was still on its way,*)
(* or the channel or the cache did not take one.                           *)
ShowsTheNewest ==
  \A c \in Clients :
    /\ ~overlapped /\ dropped \cup unstored = {} /\ Follows(c)
    /\ \A n \in 1..received : ~UnderWay(c, n)
    => \A n \in seen[c] : n <= shown[c] \/ n > Published

(* A connection to the controller for all devices that has ended is taken  *)
(* out of its map, although run may be writing, and away from its select,  *)
(* when the reader wants to tell it.                                       *)
LeftIsForgotten ==
  \A c \in Clients :
    controller = "all" /\ c \in clients /\ conn[c] # "open" ~> c \notin clients
===============================================================================
