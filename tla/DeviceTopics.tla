------------------------------ MODULE DeviceTopics ------------------------------
(***************************************************************************)
(* How the server comes to hear a device: every tick the                   *)
(* LoraIntegrationWorker looks for a device it has not configured yet and  *)
(* subscribes to its topics, the MQTT client remembers the subscriptions   *)
(* and restores them whenever it has connected, and its callback drops     *)
(* what it takes for duplicates.  The device is one, its topics several.   *)
(***************************************************************************)
EXTENDS Integers, FiniteSets

CONSTANTS
  Topics,          \* the device's topics
  Ticks,           \* goroutines of reconciliation that may run at a time
  Published,       \* those TTN publishes messages on
  MaxConnections,  \* bound: connections
  MaxFaults        \* bound: subscriptions the MQTT broker does not make

ASSUME TopicsAssumption ==
  /\ Published \subseteq Topics
  /\ MaxConnections \in Nat /\ MaxFaults \in Nat

VARIABLES
  registered,    \* the device has a row
  known,         \* it is in the worker's devices
  tick,          \* where each goroutine is, with the topics it has still to ask for
  subscriptions, \* the client's subscriptions
  connected,     \* IsConnectionOpen
  connection,    \* how many connections there have been
  handler,       \* the connect handler of each connection
  left,          \* the subscriptions it has still to restore
  subscribed,    \* the MQTT broker's subscriptions of this connection
  refused,       \* history: topics it has not subscribed in this connection though asked
  processed,     \* processedMsgs
  dropped,       \* history: topics of which a new message was dropped as a duplicate
  faults

workerVars == <<registered, known, tick>>
connectionVars == <<connected, connection>>
handlerVars == <<handler, left>>
brokerVars == <<subscribed, refused, faults>>
duplicateVars == <<processed, dropped>>
topicsVars == <<workerVars, subscriptions, connectionVars, handlerVars, brokerVars, duplicateVars>>

Connections == 1..MaxConnections
Stages == {"idle", "new", "next", "stored", "open"}
Idle == [stage |-> "idle", rest |-> {}, topic |-> {}]

TopicsInit ==
  /\ registered = FALSE /\ known = FALSE
  /\ tick = [g \in Ticks |-> Idle]
  /\ subscriptions = {}
  /\ connected = FALSE /\ connection = 0
  /\ handler = [k \in Connections |-> "none"]
  /\ left = [k \in Connections |-> {}]
  /\ subscribed = {} /\ refused = {} /\ faults = 0
  /\ processed = {} /\ dropped = {}

-------------------------------------------------------------------------------
(* LoraIntegrationWorker.reconciliation and handleDevice                   *)

(* External to both: a request creates the device.                         *)
CreateDevice ==
  /\ ~registered
  /\ registered' = TRUE
  /\ UNCHANGED <<known, tick, subscriptions, connectionVars, handlerVars, brokerVars,
                 duplicateVars>>

(* Load finds that the device is not configured ...                        *)
Reconcile(g) ==
  /\ tick[g].stage = "idle"
  /\ registered /\ ~known
  /\ tick' = [tick EXCEPT ![g] = [Idle EXCEPT !.stage = "new"]]
  /\ UNCHANGED <<registered, known, subscriptions, connectionVars, handlerVars, brokerVars,
                 duplicateVars>>

(* Mutant of StoreDevice: one topic of the list is not the device's.       *)
StoreDeviceWithOther(g) ==
  /\ tick[g].stage = "new"
  /\ known' = TRUE
  /\ tick' = [tick EXCEPT ![g] = [stage |-> "next", rest |-> Topics \cup {"other"}, topic |-> {}]]
  /\ UNCHANGED <<registered, subscriptions, connectionVars, handlerVars, brokerVars, duplicateVars>>

(* ... and Store says it is, before a single topic has been asked for.     *)
StoreDevice(g) ==
  /\ tick[g].stage = "new"
  /\ known' = TRUE
  /\ tick' = [tick EXCEPT ![g] = [stage |-> "next", rest |-> Topics, topic |-> {}]]
  /\ UNCHANGED <<registered, subscriptions, connectionVars, handlerVars, brokerVars, duplicateVars>>

(* Subscribe has returned, with an error or without: the next topic.       *)
Returned(g) == [stage |-> IF tick[g].rest = {} THEN "idle" ELSE "next",
                rest |-> tick[g].rest, topic |-> {}]

-------------------------------------------------------------------------------
(* SimpleClient.Subscribe                                                  *)

(* resubscribeAll holds the read lock as long as it runs.                  *)
Restoring == \E k \in Connections : handler[k] = "restoring"

(* Mutant of StoreSubscription: the client remembers a subscription only   *)
(* while there is no connection.                                           *)
StoreIfDeferred(g) ==
  /\ tick[g].stage = "next"
  /\ ~Restoring
  /\ \E t \in tick[g].rest :
        /\ tick' = [tick EXCEPT ![g] = [stage |-> "stored", rest |-> @.rest \ {t}, topic |-> {t}]]
        /\ subscriptions' = subscriptions \cup (IF connected THEN {} ELSE {t})
  /\ UNCHANGED <<registered, known, connectionVars, handlerVars, brokerVars, duplicateVars>>

StoreSubscription(g) ==
  /\ tick[g].stage = "next"
  /\ ~Restoring
  /\ \E t \in tick[g].rest :
        /\ tick' = [tick EXCEPT ![g] = [stage |-> "stored", rest |-> @.rest \ {t}, topic |-> {t}]]
        /\ subscriptions' = subscriptions \cup {t}
  /\ UNCHANGED <<registered, known, connectionVars, handlerVars, brokerVars, duplicateVars>>

(* Without a connection the subscription is left to the connect handler.   *)
TestConnection(g) ==
  /\ tick[g].stage = "stored"
  /\ \/ connected /\ tick' = [tick EXCEPT ![g].stage = "open"]
     \/ ~connected /\ tick' = [tick EXCEPT ![g] = Returned(g)]
  /\ UNCHANGED <<registered, known, subscriptions, connectionVars, handlerVars, brokerVars,
                 duplicateVars>>

(* subscribeOnBroker: the MQTT broker subscribes; it refuses or does not   *)
(* answer in time, which counts as success; or the connection is gone.     *)
SubscribeOnBroker(ts) ==
  \/ connected /\ subscribed' = subscribed \cup ts /\ UNCHANGED <<refused, faults>>
  \/ /\ connected
     /\ faults < MaxFaults /\ faults' = faults + 1
     /\ refused' = refused \cup ts
     /\ UNCHANGED subscribed
  \/ ~connected /\ UNCHANGED brokerVars

(* Mutant of Subscribe: handleDevice gives up the topics that are left     *)
(* when there is no connection any more.                                   *)
SubscribeOrGiveUp(g) ==
  /\ tick[g].stage = "open"
  /\ SubscribeOnBroker(tick[g].topic)
  /\ tick' = [tick EXCEPT ![g] = IF connected THEN Returned(g) ELSE Idle]
  /\ UNCHANGED <<registered, known, subscriptions, connectionVars, handlerVars, duplicateVars>>

Subscribe(g) ==
  /\ tick[g].stage = "open"
  /\ SubscribeOnBroker(tick[g].topic)
  /\ tick' = [tick EXCEPT ![g] = Returned(g)]
  /\ UNCHANGED <<registered, known, subscriptions, connectionVars, handlerVars, duplicateVars>>

-------------------------------------------------------------------------------
(* The connection                                                          *)

(* paho has a connection and starts the connect handler in a goroutine; a  *)
(* clean session has no subscriptions.                                     *)
Connect ==
  /\ ~connected
  /\ connection < MaxConnections
  /\ connected' = TRUE
  /\ connection' = connection + 1
  /\ handler' = [handler EXCEPT ![connection + 1] = "started"]
  /\ subscribed' = {} /\ refused' = {}
  /\ UNCHANGED <<workerVars, subscriptions, left, faults, duplicateVars>>

ConnectionLost ==
  /\ connected
  /\ connected' = FALSE
  /\ subscribed' = {} /\ refused' = {}
  /\ UNCHANGED <<workerVars, subscriptions, connection, handlerVars, faults, duplicateVars>>

(* resubscribeAll takes the read lock ...                                  *)
ResubscribeAll(k) ==
  /\ handler[k] = "started"
  /\ handler' = [handler EXCEPT ![k] = "restoring"]
  /\ left' = [left EXCEPT ![k] = subscriptions]
  /\ UNCHANGED <<workerVars, subscriptions, connectionVars, brokerVars, duplicateVars>>

(* ... and asks for one subscription after the other, whatever becomes of  *)
(* them and of the connection.                                             *)
Resubscribe(k, t) ==
  /\ handler[k] = "restoring"
  /\ t \in left[k]
  /\ left' = [left EXCEPT ![k] = @ \ {t}]
  /\ SubscribeOnBroker({t})
  /\ UNCHANGED <<workerVars, subscriptions, connectionVars, handler, duplicateVars>>

EndResubscribe(k) ==
  /\ handler[k] = "restoring"
  /\ left[k] = {}
  /\ handler' = [handler EXCEPT ![k] = "ended"]
  /\ UNCHANGED <<workerVars, subscriptions, connectionVars, left, brokerVars, duplicateVars>>

-------------------------------------------------------------------------------
(* Messages                                                                *)

(* The callback's key is the topic and the message ID.  The worker asks    *)
(* for QoS 0, and a message of QoS 0 has no ID: MessageID is always 0.     *)
Key(t) == <<t, 0>>

(* TTN publishes a message, different from all before it; paho calls the   *)
(* callback, which gives it to the worker or drops it.                     *)
Receive(t) ==
  /\ t \in Published \cap subscribed
  /\ \/ Key(t) \notin processed /\ processed' = processed \cup {Key(t)} /\ UNCHANGED dropped
     \/ Key(t) \in processed /\ dropped' = dropped \cup {t} /\ UNCHANGED processed
  /\ UNCHANGED <<workerVars, subscriptions, connectionVars, handlerVars, brokerVars>>

(* The goroutine of a handled message deletes its key, 30 seconds later.   *)
Forget(key) ==
  /\ key \in processed
  /\ processed' = processed \ {key}
  /\ UNCHANGED <<workerVars, subscriptions, connectionVars, handlerVars, brokerVars, dropped>>

-------------------------------------------------------------------------------
TickStep(g) == StoreDevice(g) \/ StoreSubscription(g) \/ TestConnection(g) \/ Subscribe(g)
HandlerStep(k) == ResubscribeAll(k) \/ EndResubscribe(k) \/ \E t \in Topics : Resubscribe(k, t)

TopicsNext ==
  \/ CreateDevice
  \/ \E g \in Ticks : Reconcile(g) \/ TickStep(g)
  \/ Connect \/ ConnectionLost
  \/ \E k \in Connections : HandlerStep(k)
  \/ \E t \in Published : Receive(t) \/ Forget(Key(t))

TopicsSpec == TopicsInit /\ [][TopicsNext]_topicsVars

(* The ticker keeps ticking and goroutines run; the connection need not    *)
(* come, and nobody need create the device or publish.                     *)
TopicsFairSpec ==
  /\ TopicsSpec
  /\ \A g \in Ticks : WF_topicsVars(Reconcile(g)) /\ WF_topicsVars(TickStep(g))
  /\ \A k \in Connections : WF_topicsVars(HandlerStep(k))
-------------------------------------------------------------------------------
TopicsTypeOK ==
  /\ registered \in BOOLEAN /\ known \in BOOLEAN /\ connected \in BOOLEAN
  /\ tick \in [Ticks -> [stage : Stages, rest : SUBSET Topics, topic : SUBSET Topics]]
  /\ subscriptions \subseteq Topics /\ subscribed \subseteq Topics
  /\ refused \subseteq Topics
  /\ processed \subseteq {Key(t) : t \in Published} /\ dropped \subseteq Published
  /\ connection \in 0..MaxConnections /\ faults \in Nat
  /\ handler \in [Connections -> {"none", "started", "restoring", "ended"}]
  /\ left \in [Connections -> SUBSET Topics]

(* As long as there is a connection, a topic of a configured device is     *)
(* subscribed, or somebody is about to ask for it, or the MQTT broker has  *)
(* not granted it: no topic falls between Subscribe and the connect        *)
(* handler, whenever connections come and go.                              *)
AboutToAsk(t) ==
  \/ handler[connection] = "started"
  \/ t \in left[connection]
  \/ \E g \in Ticks : t \in tick[g].rest \cup tick[g].topic

MissedOnlyByRefusal ==
  known /\ connected => \A t \in Topics : t \in subscribed \cup refused \/ AboutToAsk(t)

(* When the connection stays, every topic of the device is subscribed in   *)
(* the end or has been refused.                                            *)
EventuallyHeard ==
  <>[]connected => \A t \in Topics : registered ~> t \in subscribed \cup refused

(* processedMsgs is there to prevent duplicates; every message here is a   *)
(* new one, and none may be dropped.                                       *)
OnlyDuplicatesDropped == dropped = {}
===============================================================================
