---------------------------- MODULE CommandPipeline ----------------------------
(***************************************************************************)
(* A command's way from the HTTP request that asks for it to the device    *)
(* and back: the handlers that store it, the CommandWorker that marks it   *)
(* ready and records what happened to it, the LoraIntegrationWorker that   *)
(* pushes it to The Things Network (TTN) over MQTT, and the in-process     *)
(* broker that carries events from the second worker to the first.         *)
(* The commands are those of one device.                                   *)
(***************************************************************************)
EXTENDS Integers, FiniteSets

CONSTANTS
  Commands,       \* the commands of all the requests
  Tasks,          \* requests that go through TaskService.Create
  Sequences,      \* requests that go through QueueCommandSequence
  CommandsOf,     \* the commands of each request
  PayloadIndex,   \* the actuator a command addresses
  Dispatchers,    \* goroutines of dispatchReadyCommands, one per tick
  Slots,          \* bound: the downlinks of one command that reach TTN
  OverlapBuffer,  \* _overlapBufferTime
  MaxTime,        \* bound: the clock
  MaxInflight,    \* bound: equal events in the broker's goroutines at a time
  MaxFaults       \* bound: failed updates and publishes, lost subscriptions, restarts

Requests == Tasks \cup Sequences

ASSUME PipelineAssumption ==
  /\ Tasks \cap Sequences = {}
  /\ CommandsOf \in [Requests -> SUBSET Commands]
  /\ \A r, s \in Requests : r # s => CommandsOf[r] \cap CommandsOf[s] = {}
  /\ OverlapBuffer \in Nat
  /\ MaxTime \in Nat
  /\ MaxInflight \in Nat
  /\ MaxFaults \in Nat

VARIABLES
  now,         \* the clock
  req,         \* where each request's handler is
  due,         \* each command's DispatchAfter
  stored,      \* the commands that have a row in device_commands
  row,         \* their rows
  rivals,      \* history: requests stored between a task's validation and its insert
  subscribed,  \* the CommandWorker has subscribed to "device_messages"
  listed,      \* the broker's list of that topic holds it
  batch,       \* pending commands its reconciliation has still to handle
  snapshot,    \* the rows as that reconciliation read them
  inflight,    \* events in the broker's goroutines, waiting for the CommandWorker
  todo,        \* ready commands a dispatcher has still to push
  pushed,      \* commands a dispatcher has pushed and not yet announced
  handed,      \* history: commands the MQTT client has taken
  downlink,    \* TTN: the stage of every downlink it holds
  reported,    \* history: statuses TTN has reported for a command
  faults       \* failures and restarts so far

rowVars == <<stored, row>>
requestVars == <<req, due, rivals>>
workerVars == <<subscribed, listed, batch, snapshot>>
loraVars == <<todo, pushed, handed>>
ttnVars == <<downlink, reported>>
vars == <<now, rowVars, requestVars, workerVars, inflight, loraVars, ttnVars, faults>>

Reports == {"queued", "sent", "ack", "failed"}
Status == Reports \cup {"pending"}
Events == Reports \cup {"command_sent"}
Stages == {"unused", "accepted", "queued", "sent", "ack", "failed"}
RequestStates == {"idle", "validated", "storing", "done", "rejected"}

Row == [ready : BOOLEAN, sent : BOOLEAN, status : Status, version : Nat,
        queuedAt : BOOLEAN, ackedAt : BOOLEAN, failedAt : BOOLEAN]

(* Mutant of NewRow: Build forgets the status.                             *)
NewRowWithoutStatus ==
  [ready |-> FALSE, sent |-> FALSE, status |-> "", version |-> 1,
   queuedAt |-> FALSE, ackedAt |-> FALSE, failedAt |-> FALSE]

(* commandBuilder.Build; the three timestamps only matter as set or nil.   *)
NewRow == [ready |-> FALSE, sent |-> FALSE, status |-> "pending", version |-> 1,
           queuedAt |-> FALSE, ackedAt |-> FALSE, failedAt |-> FALSE]

NoEvents == [c \in Commands |-> [e \in Events |-> 0]]

Init == /\ now = 0
        /\ req = [r \in Requests |-> "idle"]
        /\ due = [c \in Commands |-> 0]
        /\ stored = {}
        /\ row = [c \in Commands |-> NewRow]
        /\ rivals = [r \in Tasks |-> {}]
        /\ subscribed = FALSE
        /\ listed = FALSE
        /\ batch = {}
        /\ snapshot = [c \in Commands |-> NewRow]
        /\ inflight = NoEvents
        /\ todo = [d \in Dispatchers |-> {}]
        /\ pushed = [d \in Dispatchers |-> {}]
        /\ handed = {}
        /\ downlink = [c \in Commands |-> [s \in Slots |-> "unused"]]
        /\ reported = [c \in Commands |-> {}]
        /\ faults = 0

Fault == faults < MaxFaults /\ faults' = faults + 1

-------------------------------------------------------------------------------
(* The rows                                                                *)

(* Command.OverlapsWith.                                                   *)
OverlapsWith(c, d) == /\ PayloadIndex[c] = PayloadIndex[d]
                      /\ due[c] < due[d] + OverlapBuffer
                      /\ due[d] < due[c] + OverlapBuffer

(* Mutants of the three queries below: commands that are ready count as    *)
(* sent; only commands due at this very time are found; Ready is ignored.  *)
FindNotReadyByDevice == {c \in stored : ~row[c].sent /\ ~row[c].ready}
FindAllDueNow == {c \in stored : ~row[c].sent /\ ~row[c].ready /\ due[c] = now}
FindAllUnsent == {c \in stored : ~row[c].sent}

FindPendingByDevice == {c \in stored : ~row[c].sent}
FindAllPending == {c \in stored : ~row[c].sent /\ ~row[c].ready}
FindAllReadyToDispatch == {c \in stored : row[c].ready /\ ~row[c].sent}

(* CommandRepository.Update writes the whole row it is given, except that  *)
(* it keeps the timestamps that row does not have and counts the version   *)
(* from the row it finds.                                                  *)
Updated(existing, cmd) ==
  [cmd EXCEPT !.version = existing.version + 1,
              !.queuedAt = @ \/ existing.queuedAt,
              !.ackedAt = @ \/ existing.ackedAt,
              !.failedAt = @ \/ existing.failedAt]

(* Mutants of WithStatus: a failed command also gets an AckedAt; Sent says  *)
(* whether the last status was sent.                                       *)
WithStatusAckedWhenFailed(cmd, s) ==
  [cmd EXCEPT !.status = s,
              !.sent = @ \/ s = "sent",
              !.queuedAt = @ \/ s = "queued",
              !.ackedAt = @ \/ s \in {"ack", "failed"},
              !.failedAt = @ \/ s = "failed"]

WithStatusResettingSent(cmd, s) ==
  [cmd EXCEPT !.status = s,
              !.sent = (s = "sent"),
              !.queuedAt = @ \/ s = "queued",
              !.ackedAt = @ \/ s = "ack",
              !.failedAt = @ \/ s = "failed"]

(* Command.UpdateStatus.                                                   *)
WithStatus(cmd, s) ==
  [cmd EXCEPT !.status = s,
              !.sent = @ \/ s = "sent",
              !.queuedAt = @ \/ s = "queued",
              !.ackedAt = @ \/ s = "ack",
              !.failedAt = @ \/ s = "failed"]

MarkedReady(cmd) == [cmd EXCEPT !.ready = TRUE]
MarkedSent(cmd) == [cmd EXCEPT !.sent = TRUE]

Update(c, cmd) == row' = [row EXCEPT ![c] = Updated(row[c], cmd)]

(* LocalBroker.Publish on "device_messages", as far as the CommandWorker   *)
(* is concerned: one goroutine per event, so events wait unordered, and an *)
(* event published while the list does not hold the worker never reaches   *)
(* it.                                                                     *)
Publish(c, e) ==
  IF listed THEN /\ inflight[c][e] < MaxInflight
                 /\ inflight' = [inflight EXCEPT ![c][e] = @ + 1]
            ELSE UNCHANGED inflight

-------------------------------------------------------------------------------
(* The requests                                                            *)

Schedule(r) == \E at \in [CommandsOf[r] -> 0..MaxTime] :
  due' = [c \in Commands |-> IF c \in CommandsOf[r] THEN at[c] ELSE due[c]]

(* TaskController.create or createTaskFromScheduledTask builds the         *)
(* commands; SimpleTaskService.validateCommandOverlaps compares them with  *)
(* the device's unsent commands.                                           *)
ValidateTask(t) ==
  /\ req[t] = "idle"
  /\ Schedule(t)
  /\ req' = [req EXCEPT ![t] =
               IF \E c \in CommandsOf[t], d \in FindPendingByDevice : OverlapsWith(c, d)'
               THEN "rejected" ELSE "validated"]
  /\ UNCHANGED <<now, rowVars, rivals, workerVars, inflight, loraVars, ttnVars, faults>>

(* SimpleTaskRepository.Create: the task and its commands in one           *)
(* transaction, or an error.                                               *)
CreateTask(t) ==
  /\ req[t] = "validated"
  /\ \/ /\ stored' = stored \cup CommandsOf[t]
        /\ req' = [req EXCEPT ![t] = "done"]
        /\ rivals' = [u \in Tasks |-> IF u # t /\ req[u] = "validated"
                                      THEN rivals[u] \cup {t} ELSE rivals[u]]
        /\ UNCHANGED faults
     \/ /\ Fault
        /\ req' = [req EXCEPT ![t] = "rejected"]
        /\ UNCHANGED <<stored, rivals>>
  /\ UNCHANGED <<now, row, due, workerVars, inflight, loraVars, ttnVars>>

(* DeviceController.sendCommand builds the sequence; nothing is validated. *)
AcceptSequence(q) ==
  /\ req[q] = "idle"
  /\ Schedule(q)
  /\ req' = [req EXCEPT ![q] = "storing"]
  /\ UNCHANGED <<now, rowVars, rivals, workerVars, inflight, loraVars, ttnVars, faults>>

(* QueueCommandSequence inserts the commands one by one and stops at the   *)
(* first error, leaving those it has inserted.                             *)
QueueCommand(q, c) ==
  /\ req[q] = "storing"
  /\ c \in CommandsOf[q] \ stored
  /\ \/ /\ stored' = stored \cup {c}
        /\ req' = [req EXCEPT ![q] = IF CommandsOf[q] \subseteq stored' THEN "done" ELSE @]
        /\ UNCHANGED faults
     \/ /\ Fault
        /\ req' = [req EXCEPT ![q] = "rejected"]
        /\ UNCHANGED stored
  /\ UNCHANGED <<now, row, due, rivals, workerVars, inflight, loraVars, ttnVars>>

-------------------------------------------------------------------------------
(* CommandWorker: one goroutine, which takes a tick or an event only when  *)
(* it has finished with the one before.                                    *)

Subscribe ==
  /\ ~subscribed
  /\ subscribed' = TRUE /\ listed' = TRUE
  /\ UNCHANGED <<now, rowVars, requestVars, batch, snapshot, inflight, loraVars, ttnVars, faults>>

(* Metric workers and hubs subscribe to the same topic at the same time,   *)
(* and the broker lets Subscribes that overlap overtake each other         *)
(* (LocalBroker): the list that replaces the worker's does not hold it,    *)
(* and the place it has in the lists of events under way may be written    *)
(* over.  Nothing subscribes it again.                                     *)
OvertakeSubscription ==
  /\ listed
  /\ Fault
  /\ listed' = FALSE
  /\ \E lost \in SUBSET {p \in Commands \X Events : inflight[p[1]][p[2]] > 0} :
       inflight' = [c \in Commands |-> [e \in Events |->
                      IF <<c, e>> \in lost THEN 0 ELSE inflight[c][e]]]
  /\ UNCHANGED <<now, rowVars, requestVars, subscribed, batch, snapshot, loraVars, ttnVars>>

(* reconciliation: read all pending commands.                              *)
Reconcile ==
  /\ subscribed
  /\ batch = {}
  /\ FindAllPending # {}
  /\ batch' = FindAllPending
  /\ snapshot' = [c \in Commands |-> IF c \in FindAllPending THEN row[c] ELSE NewRow]
  /\ UNCHANGED <<now, rowVars, requestVars, subscribed, listed, inflight, loraVars, ttnVars, faults>>

(* Mutant of Handle: it does not look at DispatchAfter.                    *)
HandleAtOnce(c) ==
  /\ c \in batch
  /\ batch' = batch \ {c}
  /\ \/ Update(c, MarkedReady(snapshot[c])) /\ UNCHANGED faults
     \/ Fault /\ UNCHANGED row
  /\ UNCHANGED <<now, stored, requestVars, subscribed, listed, snapshot, inflight, loraVars, ttnVars>>

(* handle: mark the command ready unless its time has not come.  The event *)
(* it then publishes on "command_events" has no subscriber.                *)
Handle(c) ==
  /\ c \in batch
  /\ batch' = batch \ {c}
  /\ \/ due[c] > now /\ UNCHANGED <<row, faults>>
     \/ due[c] <= now /\ Update(c, MarkedReady(snapshot[c])) /\ UNCHANGED faults
     \/ due[c] <= now /\ Fault /\ UNCHANGED row
  /\ UNCHANGED <<now, stored, requestVars, subscribed, listed, snapshot, inflight, loraVars, ttnVars>>

Receive(c, e) ==
  /\ subscribed
  /\ batch = {}
  /\ inflight[c][e] > 0
  /\ inflight' = [inflight EXCEPT ![c][e] = @ - 1]
  /\ UNCHANGED <<now, stored, requestVars, workerVars, loraVars, ttnVars>>

HandleCommandSent(c) ==
  /\ Receive(c, "command_sent")
  /\ \/ Update(c, MarkedSent(row[c])) /\ UNCHANGED faults
     \/ Fault /\ UNCHANGED row

HandleCommandStatusUpdate(c, s) ==
  /\ Receive(c, s)
  /\ \/ Update(c, WithStatus(row[c], s)) /\ UNCHANGED faults
     \/ Fault /\ UNCHANGED row

-------------------------------------------------------------------------------
(* LoraIntegrationWorker                                                   *)

(* dispatchReadyCommands, started by every tick whether or not the one     *)
(* before has ended.                                                       *)
DispatchReadyCommands(d) ==
  /\ todo[d] = {} /\ pushed[d] = {}
  /\ FindAllReadyToDispatch # {}
  /\ todo' = [todo EXCEPT ![d] = FindAllReadyToDispatch]
  /\ UNCHANGED <<now, rowVars, requestVars, workerVars, inflight, pushed, handed, ttnVars, faults>>

(* Mutant of DispatchCommand: it goes on to the event when publishing fails. *)
DispatchCommandDespiteError(d, c) ==
  /\ pushed[d] = {}
  /\ c \in todo[d]
  /\ todo' = [todo EXCEPT ![d] = @ \ {c}]
  /\ pushed' = [pushed EXCEPT ![d] = {c}]
  /\ \/ /\ handed' = handed \cup {c}
        /\ \/ UNCHANGED downlink
           \/ \E s \in Slots : /\ downlink[c][s] = "unused"
                               /\ downlink' = [downlink EXCEPT ![c][s] = "accepted"]
        /\ UNCHANGED faults
     \/ Fault /\ UNCHANGED <<handed, downlink>>
  /\ UNCHANGED <<now, rowVars, requestVars, workerVars, inflight, reported>>

(* dispatchCommand up to mqttClient.Publish.  Its tests of Ready and Sent  *)
(* look at the row as dispatchReadyCommands read it, where they hold.  A   *)
(* downlink the client has taken may still be lost (QoS 0, and the client  *)
(* reports a publish that timed out as a success).                         *)
DispatchCommand(d, c) ==
  /\ pushed[d] = {}
  /\ c \in todo[d]
  /\ todo' = [todo EXCEPT ![d] = @ \ {c}]
  /\ \/ /\ pushed' = [pushed EXCEPT ![d] = {c}]
        /\ handed' = handed \cup {c}
        /\ \/ UNCHANGED downlink
           \/ \E s \in Slots : /\ downlink[c][s] = "unused"
                               /\ downlink' = [downlink EXCEPT ![c][s] = "accepted"]
        /\ UNCHANGED faults
     \/ Fault /\ UNCHANGED <<pushed, handed, downlink>>
  /\ UNCHANGED <<now, rowVars, requestVars, workerVars, inflight, reported>>

(* dispatchCommand's event.                                                *)
AnnounceSent(d, c) ==
  /\ c \in pushed[d]
  /\ pushed' = [pushed EXCEPT ![d] = {}]
  /\ Publish(c, "command_sent")
  /\ UNCHANGED <<now, rowVars, requestVars, workerVars, todo, handed, ttnVars, faults>>

(* External: TTN takes a downlink through its stages.                      *)
NextReports(stage) == CASE stage = "accepted" -> {"queued", "failed"}
                        [] stage = "queued" -> {"sent", "failed"}
                        [] stage = "sent" -> {"ack", "failed"}
                        [] OTHER -> {}

(* A report reaches handleDownlinkResponse and updateCommandStatus, which  *)
(* find the command by the correlation ID it was pushed with, or is lost.  *)
HandleDownlinkResponse(c, s, status) ==
  /\ status \in NextReports(downlink[c][s])
  /\ downlink' = [downlink EXCEPT ![c][s] = status]
  /\ \/ /\ reported' = [reported EXCEPT ![c] = @ \cup {status}]
        /\ Publish(c, status)
     \/ UNCHANGED <<reported, inflight>>
  /\ UNCHANGED <<now, rowVars, requestVars, workerVars, loraVars, faults>>

-------------------------------------------------------------------------------
TimePasses ==
  /\ now < MaxTime
  /\ now' = now + 1
  /\ UNCHANGED <<rowVars, requestVars, workerVars, inflight, loraVars, ttnVars, faults>>

(* The process ends and starts again: rows and TTN stay, everything in     *)
(* memory is gone, requests under way end without an answer.               *)
Restart ==
  /\ Fault
  /\ subscribed' = FALSE /\ listed' = FALSE
  /\ batch' = {}
  /\ inflight' = NoEvents
  /\ todo' = [d \in Dispatchers |-> {}]
  /\ pushed' = [d \in Dispatchers |-> {}]
  /\ req' = [r \in Requests |-> IF req[r] \in {"validated", "storing"} THEN "rejected" ELSE req[r]]
  /\ UNCHANGED <<now, rowVars, due, rivals, snapshot, handed, ttnVars>>

Next ==
  \/ \E t \in Tasks : ValidateTask(t) \/ CreateTask(t)
  \/ \E q \in Sequences : AcceptSequence(q) \/ \E c \in Commands : QueueCommand(q, c)
  \/ Subscribe \/ OvertakeSubscription \/ Reconcile
  \/ \E c \in Commands : \/ Handle(c)
                         \/ HandleCommandSent(c)
                         \/ \E s \in Reports : HandleCommandStatusUpdate(c, s)
  \/ \E d \in Dispatchers : \/ DispatchReadyCommands(d)
                            \/ \E c \in Commands : DispatchCommand(d, c) \/ AnnounceSent(d, c)
  \/ \E c \in Commands, s \in Slots, status \in Reports : HandleDownlinkResponse(c, s, status)
  \/ TimePasses
  \/ Restart

Spec == Init /\ [][Next]_vars

(* What the scheduler gives: the tickers keep ticking, a goroutine that    *)
(* can run does, and select chooses among its ready cases at random, so    *)
(* the CommandWorker gets to each of them although the others come in      *)
(* between.  Requests need not be made and TTN need not answer.            *)
Fairness ==
  /\ WF_vars(TimePasses) /\ WF_vars(Subscribe)
  /\ SF_vars(Reconcile) /\ WF_vars(\E c \in Commands : Handle(c))
  /\ \A c \in Commands : SF_vars(HandleCommandSent(c))
  /\ \A d \in Dispatchers : /\ WF_vars(DispatchReadyCommands(d))
                            /\ WF_vars(\E c \in Commands : DispatchCommand(d, c) \/ AnnounceSent(d, c))

FairSpec == Spec /\ Fairness
-------------------------------------------------------------------------------
TypeOK ==
  /\ now \in Nat /\ faults \in Nat
  /\ req \in [Requests -> RequestStates]
  /\ due \in [Commands -> Nat]
  /\ stored \subseteq Commands
  /\ row \in [Commands -> Row]
  /\ rivals \in [Tasks -> SUBSET Tasks]
  /\ subscribed \in BOOLEAN /\ listed \in BOOLEAN
  /\ batch \subseteq Commands
  /\ snapshot \in [Commands -> Row]
  /\ inflight \in [Commands -> [Events -> Nat]]
  /\ todo \in [Dispatchers -> SUBSET Commands]
  /\ pushed \in [Dispatchers -> SUBSET Commands]
  /\ handed \subseteq Commands
  /\ downlink \in [Commands -> [Slots -> Stages]]
  /\ reported \in [Commands -> SUBSET Reports]

(* No command is given to the MQTT client before its DispatchAfter or      *)
(* without a row: the time is tested by the CommandWorker alone, and the   *)
(* dispatchers rely on the Ready it has written.                           *)
NoEarlyDispatch == \A c \in handed : c \in stored /\ due[c] <= now

(* A row that says Sent is the row of a command the MQTT client has taken, *)
(* whatever was lost, repeated, delayed or restarted on the way.           *)
SentWasHanded == \A c \in stored : row[c].sent => c \in handed

(* What a row says of the network is what TTN has reported of that         *)
(* command: its status, and each timestamp that is set.                    *)
StatusWasReported ==
  \A c \in stored : /\ row[c].status # "pending" => row[c].status \in reported[c]
                    /\ row[c].queuedAt => "queued" \in reported[c]
                    /\ row[c].ackedAt => "ack" \in reported[c]
                    /\ row[c].failedAt => "failed" \in reported[c]

(* Every update of a row keeps what earlier updates have recorded although *)
(* it writes the whole row, some of it from an earlier read, and is counted *)
(* by the row's version.                                                   *)
Keeps(old, new) == /\ old.ready => new.ready
                   /\ old.sent => new.sent
                   /\ old.queuedAt => new.queuedAt
                   /\ old.ackedAt => new.ackedAt
                   /\ old.failedAt => new.failedAt
                   /\ new.version = old.version + 1

NothingForgotten ==
  [][\A c \in stored : row'[c] # row[c] => Keeps(row[c], row'[c])]_vars

(* Two tasks whose unsent commands overlap are never stored one after the  *)
(* other's validation: validateCommandOverlaps lets an overlap through     *)
(* only when the tasks were validated before either was stored.            *)
Unsent == {c \in stored : ~row[c].sent}

OverlapOnlyByRace ==
  \A t, u \in Tasks : t # u =>
    \A c \in CommandsOf[t] \cap Unsent, d \in CommandsOf[u] \cap Unsent :
      OverlapsWith(c, d) => u \in rivals[t] \/ t \in rivals[u]

(* A stored command is in the end recorded as sent, in spite of a bounded  *)
(* number of failures and restarts: what a restart forgets, the next ticks *)
(* find again in the rows.  Only while the CommandWorker's subscription is *)
(* lost is nothing recorded: every tick then pushes the command again.     *)
SubscriptionLost == subscribed /\ ~listed

EventuallySent ==
  \A c \in Commands : c \in stored ~> row[c].sent \/ (SubscriptionLost /\ c \in handed)

(* The lifecycle this implements.                                          *)
Phase(c) == IF c \notin stored THEN "absent"
            ELSE IF row[c].sent THEN "sent"
            ELSE IF c \in handed THEN "handed"
            ELSE IF row[c].ready THEN "ready"
            ELSE "pending"

Lifecycle == INSTANCE CommandLifecycle WITH phase <- [c \in Commands |-> Phase(c)]
ImplementsLifecycle == Lifecycle!LifecycleSpec
===============================================================================
