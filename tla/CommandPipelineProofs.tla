------------------------ MODULE CommandPipelineProofs ------------------------
(***************************************************************************)
(* Proofs about CommandPipeline for every set of commands, requests and    *)
(* dispatchers and every bound.  Evidence is the inductive invariant: it   *)
(* says what each piece of state in memory, in the rows and in TTN is      *)
(* evidence of in the others.                                              *)
(***************************************************************************)
EXTENDS CommandPipeline, TLAPS

(* What the CommandWorker has read is what the rows still say, because no  *)
(* event can concern a command that is not ready.                          *)
BatchIsFresh == \A c \in batch : /\ c \in stored
                                 /\ snapshot[c] = row[c]
                                 /\ ~row[c].ready

ReadyIsDue == \A c \in stored : row[c].ready => due[c] <= now

(* Everything downstream of a ready row: the dispatchers, the MQTT client, *)
(* TTN and the events under way.                                           *)
DispatchIsReady ==
  /\ \A d \in Dispatchers : \A c \in todo[d] : c \in stored /\ row[c].ready
  /\ \A d \in Dispatchers : pushed[d] \subseteq handed
  /\ \A c \in handed : c \in stored /\ row[c].ready

NetworkIsHanded ==
  /\ \A c \in Commands, s \in Slots : downlink[c][s] # "unused" => c \in handed
  /\ \A c \in Commands : reported[c] # {} => c \in handed
  /\ \A c \in Commands : inflight[c]["command_sent"] > 0 => c \in handed
  /\ \A c \in Commands, s \in Reports : inflight[c][s] > 0 => s \in reported[c]

(* A command without a row has the row it will be stored with, and a       *)
(* request that has not been looked at has no command stored.              *)
NotStoredYet ==
  /\ \A c \in Commands : c \notin stored => row[c] = NewRow
  /\ \A r \in Requests : req[r] = "idle" => CommandsOf[r] \cap stored = {}

Evidence == /\ TypeOK /\ BatchIsFresh /\ ReadyIsDue /\ DispatchIsReady
            /\ NetworkIsHanded /\ NotStoredYet /\ SentWasHanded /\ StatusWasReported


-------------------------------------------------------------------------------
(* The rows the model writes are rows.                                     *)
LEMMA UpdatedIsRow ==
  ASSUME NEW old \in Row, NEW cmd \in Row
  PROVE  /\ Updated(old, cmd) \in Row
         /\ Updated(old, cmd).ready = cmd.ready
         /\ Updated(old, cmd).sent = cmd.sent
         /\ Updated(old, cmd).status = cmd.status
         /\ Updated(old, cmd).version = old.version + 1
         /\ Updated(old, cmd).queuedAt = (cmd.queuedAt \/ old.queuedAt)
         /\ Updated(old, cmd).ackedAt = (cmd.ackedAt \/ old.ackedAt)
         /\ Updated(old, cmd).failedAt = (cmd.failedAt \/ old.failedAt)
<1> DEFINE q == cmd.queuedAt \/ old.queuedAt
           a == cmd.ackedAt \/ old.ackedAt
           f == cmd.failedAt \/ old.failedAt
           new == [cmd EXCEPT !.version = old.version + 1, !.queuedAt = q,
                              !.ackedAt = a, !.failedAt = f]
<1>1. q \in BOOLEAN /\ a \in BOOLEAN /\ f \in BOOLEAN /\ old.version + 1 \in Nat
  BY DEF Row
<1>2. Updated(old, cmd) = new
  BY DEF Updated
<1> HIDE DEF q, a, f
<1>3. new \in Row
  BY <1>1 DEF Row
<1>4. /\ new.ready = cmd.ready /\ new.sent = cmd.sent /\ new.status = cmd.status
      /\ new.version = old.version + 1
      /\ new.queuedAt = q /\ new.ackedAt = a /\ new.failedAt = f
  BY DEF Row
<1> QED
  BY <1>2, <1>3, <1>4 DEF q, a, f

LEMMA WithStatusIsRow ==
  ASSUME NEW cmd \in Row, NEW s \in Reports
  PROVE  /\ WithStatus(cmd, s) \in Row
         /\ WithStatus(cmd, s).ready = cmd.ready
         /\ WithStatus(cmd, s).sent = (cmd.sent \/ s = "sent")
         /\ WithStatus(cmd, s).status = s
         /\ WithStatus(cmd, s).queuedAt = (cmd.queuedAt \/ s = "queued")
         /\ WithStatus(cmd, s).ackedAt = (cmd.ackedAt \/ s = "ack")
         /\ WithStatus(cmd, s).failedAt = (cmd.failedAt \/ s = "failed")
<1> DEFINE z == cmd.sent \/ s = "sent"
           q == cmd.queuedAt \/ s = "queued"
           a == cmd.ackedAt \/ s = "ack"
           f == cmd.failedAt \/ s = "failed"
           new == [cmd EXCEPT !.status = s, !.sent = z, !.queuedAt = q,
                              !.ackedAt = a, !.failedAt = f]
<1>1. z \in BOOLEAN /\ q \in BOOLEAN /\ a \in BOOLEAN /\ f \in BOOLEAN /\ s \in Status
  BY DEF Row, Status
<1>2. WithStatus(cmd, s) = new
  BY DEF WithStatus
<1> HIDE DEF z, q, a, f
<1>3. new \in Row
  BY <1>1 DEF Row
<1>4. /\ new.ready = cmd.ready /\ new.sent = z /\ new.status = s
      /\ new.queuedAt = q /\ new.ackedAt = a /\ new.failedAt = f
  BY DEF Row
<1> QED
  BY <1>2, <1>3, <1>4 DEF z, q, a, f

LEMMA MarkedIsRow ==
  ASSUME NEW cmd \in Row
  PROVE  /\ MarkedReady(cmd) \in Row
         /\ MarkedReady(cmd).ready
         /\ MarkedReady(cmd).sent = cmd.sent
         /\ MarkedReady(cmd).status = cmd.status
         /\ MarkedReady(cmd).queuedAt = cmd.queuedAt
         /\ MarkedReady(cmd).ackedAt = cmd.ackedAt
         /\ MarkedReady(cmd).failedAt = cmd.failedAt
         /\ MarkedSent(cmd) \in Row
         /\ MarkedSent(cmd).sent
         /\ MarkedSent(cmd).ready = cmd.ready
         /\ MarkedSent(cmd).status = cmd.status
         /\ MarkedSent(cmd).queuedAt = cmd.queuedAt
         /\ MarkedSent(cmd).ackedAt = cmd.ackedAt
         /\ MarkedSent(cmd).failedAt = cmd.failedAt
<1>1. MarkedReady(cmd) \in Row /\ MarkedSent(cmd) \in Row
  BY DEF MarkedReady, MarkedSent, Row
<1>2. /\ MarkedReady(cmd).ready
      /\ MarkedReady(cmd).sent = cmd.sent
      /\ MarkedReady(cmd).status = cmd.status
      /\ MarkedReady(cmd).queuedAt = cmd.queuedAt
      /\ MarkedReady(cmd).ackedAt = cmd.ackedAt
      /\ MarkedReady(cmd).failedAt = cmd.failedAt
  BY DEF MarkedReady, Row
<1>3. /\ MarkedSent(cmd).sent
      /\ MarkedSent(cmd).ready = cmd.ready
      /\ MarkedSent(cmd).status = cmd.status
      /\ MarkedSent(cmd).queuedAt = cmd.queuedAt
      /\ MarkedSent(cmd).ackedAt = cmd.ackedAt
      /\ MarkedSent(cmd).failedAt = cmd.failedAt
  BY DEF MarkedSent, Row
<1> QED
  BY <1>1, <1>2, <1>3

LEMMA NewRowIsRow == NewRow \in Row
  BY DEF NewRow, Row, Status, Reports

(* An update changes one row, and publishing changes the count of one event. *)
LEMMA UpdateChanges ==
  ASSUME row \in [Commands -> Row], NEW c \in Commands, NEW cmd \in Row, Update(c, cmd)
  PROVE  /\ row' \in [Commands -> Row]
         /\ row'[c] = Updated(row[c], cmd)
         /\ \A d \in Commands : d # c => row'[d] = row[d]
  BY UpdatedIsRow DEF Update

LEMMA PublishChanges ==
  ASSUME inflight \in [Commands -> [Events -> Nat]], NEW c \in Commands, NEW e \in Events,
         Publish(c, e)
  PROVE  /\ inflight' \in [Commands -> [Events -> Nat]]
         /\ \A d \in Commands, f \in Events :
               inflight'[d][f] > 0 => inflight[d][f] > 0 \/ (d = c /\ f = e)
<1>1. CASE ~listed
  BY <1>1 DEF Publish
<1>2. CASE listed
  <2> DEFINE more == [inflight[c] EXCEPT ![e] = @ + 1]
  <2>1. more \in [Events -> Nat] /\ \A f \in Events : f # e => more[f] = inflight[c][f]
    OBVIOUS
  <2>2. inflight' = [inflight EXCEPT ![c] = more]
    BY <1>2 DEF Publish
  <2> HIDE DEF more
  <2> QED
    BY <2>1, <2>2
<1> QED
  BY <1>1, <1>2

LEMMA ReceiveChanges ==
  ASSUME inflight \in [Commands -> [Events -> Nat]], NEW c \in Commands, NEW e \in Events,
         Receive(c, e)
  PROVE  /\ inflight' \in [Commands -> [Events -> Nat]]
         /\ \A d \in Commands, f \in Events : inflight'[d][f] > 0 => inflight[d][f] > 0
<1> DEFINE less == [inflight[c] EXCEPT ![e] = @ - 1]
<1>1. inflight[c][e] > 0 /\ inflight' = [inflight EXCEPT ![c] = less]
  BY DEF Receive
<1>2. less \in [Events -> Nat] /\ \A f \in Events : less[f] > 0 => inflight[c][f] > 0
  BY <1>1
<1> HIDE DEF less
<1> QED
  BY <1>1, <1>2

(* Losing the subscription can lose events, and adds none.                 *)
LEMMA OvertakingLosesEvents ==
  ASSUME inflight \in [Commands -> [Events -> Nat]], OvertakeSubscription
  PROVE  /\ inflight' \in [Commands -> [Events -> Nat]]
         /\ \A d \in Commands, f \in Events : inflight'[d][f] > 0 => inflight[d][f] > 0
<1>1. PICK lost \in SUBSET {p \in Commands \X Events : inflight[p[1]][p[2]] > 0} :
        inflight' = [c \in Commands |-> [e \in Events |->
                       IF <<c, e>> \in lost THEN 0 ELSE inflight[c][e]]]
  BY DEF OvertakeSubscription
<1> QED
  BY <1>1

LEMMA FaultCounts == ASSUME faults \in Nat, Fault PROVE faults' \in Nat
  BY DEF Fault

(* Type correctness of the pipeline.                                       *)
LEMMA TypeInit == Init => TypeOK
<1> SUFFICES ASSUME Init PROVE TypeOK
  OBVIOUS
<1> USE DEF Init
<1>1. /\ now \in Nat /\ faults \in Nat /\ stored \subseteq Commands /\ subscribed \in BOOLEAN
      /\ listed \in BOOLEAN /\ batch \subseteq Commands /\ handed \subseteq Commands
      /\ due \in [Commands -> Nat]
  OBVIOUS
<1>2. row \in [Commands -> Row] /\ snapshot \in [Commands -> Row]
  BY NewRowIsRow
<1>3. req \in [Requests -> RequestStates] /\ rivals \in [Tasks -> SUBSET Tasks]
  BY DEF RequestStates
<1>4. inflight \in [Commands -> [Events -> Nat]]
  BY DEF NoEvents
<1>5. downlink \in [Commands -> [Slots -> Stages]]
  BY DEF Stages
<1>6. /\ todo \in [Dispatchers -> SUBSET Commands] /\ pushed \in [Dispatchers -> SUBSET Commands]
      /\ reported \in [Commands -> SUBSET Reports]
  OBVIOUS
<1> QED
  BY <1>1, <1>2, <1>3, <1>4, <1>5, <1>6 DEF TypeOK

LEMMA TypeStep == TypeOK /\ [Next]_vars => TypeOK'
<1> SUFFICES ASSUME TypeOK, [Next]_vars PROVE TypeOK'
  OBVIOUS
<1> USE PipelineAssumption DEF TypeOK, Requests
<1>1. ASSUME NEW t \in Tasks, ValidateTask(t) PROVE TypeOK'
  <2>1. due' \in [Commands -> Nat]
    BY <1>1 DEF ValidateTask, Schedule
  <2> QED
    BY <1>1, <2>1 DEF ValidateTask, RequestStates, rowVars, workerVars, loraVars, ttnVars
<1>2. ASSUME NEW t \in Tasks, CreateTask(t) PROVE TypeOK'
  <2>1. faults' \in Nat
    BY <1>2 DEF CreateTask, Fault
  <2>2. stored' \subseteq Commands /\ req' \in [Requests -> RequestStates]
    BY <1>2 DEF CreateTask, RequestStates
  <2>3. rivals' \in [Tasks -> SUBSET Tasks]
    BY <1>2 DEF CreateTask
  <2> QED
    BY <1>2, <2>1, <2>2, <2>3 DEF CreateTask, workerVars, loraVars, ttnVars
<1>3. ASSUME NEW q \in Sequences, AcceptSequence(q) PROVE TypeOK'
  <2>1. due' \in [Commands -> Nat]
    BY <1>3 DEF AcceptSequence, Schedule
  <2> QED
    BY <1>3, <2>1 DEF AcceptSequence, RequestStates, rowVars, workerVars, loraVars, ttnVars
<1>4. ASSUME NEW q \in Sequences, NEW c \in Commands, QueueCommand(q, c) PROVE TypeOK'
  <2>1. faults' \in Nat
    BY <1>4 DEF QueueCommand, Fault
  <2> QED
    BY <1>4, <2>1 DEF QueueCommand, RequestStates, workerVars, loraVars, ttnVars
<1>5. CASE Subscribe
  BY <1>5 DEF Subscribe, rowVars, requestVars, loraVars, ttnVars
<1>17. CASE OvertakeSubscription
  BY <1>17, OvertakingLosesEvents, FaultCounts DEF OvertakeSubscription, rowVars, requestVars, loraVars, ttnVars
<1>6. CASE Reconcile
  BY <1>6, NewRowIsRow DEF Reconcile, FindAllPending, rowVars, requestVars, loraVars, ttnVars
<1>7. ASSUME NEW c \in Commands, Handle(c) PROVE TypeOK'
  <2>1. row' \in [Commands -> Row]
    BY <1>7, UpdateChanges, MarkedIsRow DEF Handle
  <2>2. faults' \in Nat
    BY <1>7 DEF Handle, Fault
  <2> QED
    BY <1>7, <2>1, <2>2 DEF Handle, requestVars, loraVars, ttnVars
<1>8. ASSUME NEW c \in Commands, HandleCommandSent(c) PROVE TypeOK'
  <2>1. row' \in [Commands -> Row]
    BY <1>8, UpdateChanges, MarkedIsRow DEF HandleCommandSent
  <2>2. faults' \in Nat
    BY <1>8 DEF HandleCommandSent, Fault
  <2>3. "command_sent" \in Events
    BY DEF Events
  <2> QED
    BY ReceiveChanges, <1>8, <2>1, <2>2, <2>3 DEF HandleCommandSent, Receive, requestVars, workerVars, loraVars, ttnVars
<1>9. ASSUME NEW c \in Commands, NEW s \in Reports, HandleCommandStatusUpdate(c, s) PROVE TypeOK'
  <2>1. row' \in [Commands -> Row]
    BY <1>9, UpdateChanges, WithStatusIsRow DEF HandleCommandStatusUpdate
  <2>2. faults' \in Nat
    BY <1>9 DEF HandleCommandStatusUpdate, Fault
  <2>3. s \in Events
    BY DEF Events
  <2> QED
    BY ReceiveChanges, <1>9, <2>1, <2>2, <2>3 DEF HandleCommandStatusUpdate, Receive, requestVars, workerVars, loraVars, ttnVars
<1>10. ASSUME NEW d \in Dispatchers, DispatchReadyCommands(d) PROVE TypeOK'
  BY <1>10 DEF DispatchReadyCommands, FindAllReadyToDispatch, rowVars, requestVars, workerVars, ttnVars
<1>11. ASSUME NEW d \in Dispatchers, NEW c \in Commands, DispatchCommand(d, c) PROVE TypeOK'
  <2>1. downlink' \in [Commands -> [Slots -> Stages]]
    <3>1. CASE UNCHANGED downlink
      BY <3>1
    <3>2. ASSUME NEW s \in Slots, downlink' = [downlink EXCEPT ![c][s] = "accepted"]
          PROVE  downlink' \in [Commands -> [Slots -> Stages]]
      BY <3>2, "accepted" \in Stages DEF Stages
    <3> QED
      BY <1>11, <3>1, <3>2 DEF DispatchCommand
  <2>2. faults' \in Nat
    BY <1>11 DEF DispatchCommand, Fault
  <2>3. pushed' \in [Dispatchers -> SUBSET Commands] /\ handed' \subseteq Commands
    <3>1. CASE pushed' = [pushed EXCEPT ![d] = {c}] /\ handed' = handed \cup {c}
      BY <3>1
    <3>2. CASE UNCHANGED <<pushed, handed>>
      BY <3>2
    <3> QED
      BY <1>11, <3>1, <3>2 DEF DispatchCommand
  <2> QED
    BY <1>11, <2>1, <2>2, <2>3 DEF DispatchCommand, rowVars, requestVars, workerVars
<1>12. ASSUME NEW d \in Dispatchers, NEW c \in Commands, AnnounceSent(d, c) PROVE TypeOK'
  <2>1. "command_sent" \in Events
    BY DEF Events
  <2> QED
    BY PublishChanges, <1>12, <2>1 DEF AnnounceSent, rowVars, requestVars, workerVars, ttnVars
<1>13. ASSUME NEW c \in Commands, NEW s \in Slots, NEW status \in Reports,
              HandleDownlinkResponse(c, s, status)
       PROVE  TypeOK'
  <2>1. status \in Events /\ status \in Stages
    BY DEF Events, Stages, Reports
  <2>2. inflight' \in [Commands -> [Events -> Nat]]
    BY PublishChanges, <1>13, <2>1 DEF HandleDownlinkResponse
  <2>3. downlink' \in [Commands -> [Slots -> Stages]]
    BY <1>13, <2>1 DEF HandleDownlinkResponse
  <2>4. reported' \in [Commands -> SUBSET Reports]
    <3>1. CASE UNCHANGED reported
      BY <3>1
    <3>2. CASE reported' = [reported EXCEPT ![c] = @ \cup {status}]
      BY <3>2
    <3> QED
      BY <1>13, <3>1, <3>2 DEF HandleDownlinkResponse
  <2> QED
    BY <1>13, <2>2, <2>3, <2>4 DEF HandleDownlinkResponse, rowVars, requestVars, workerVars, loraVars
<1>14. CASE TimePasses
  BY <1>14 DEF TimePasses, rowVars, requestVars, workerVars, loraVars, ttnVars
<1>15. CASE Restart
  <2>1. inflight' \in [Commands -> [Events -> Nat]]
    BY <1>15 DEF Restart, NoEvents
  <2>2. /\ req' \in [Requests -> RequestStates]
        /\ todo' \in [Dispatchers -> SUBSET Commands] /\ pushed' \in [Dispatchers -> SUBSET Commands]
    BY <1>15 DEF Restart, RequestStates
  <2>3. batch' = {} /\ subscribed' = FALSE /\ listed' = FALSE /\ faults' \in Nat
    BY <1>15 DEF Restart, Fault
  <2> QED
    BY <1>15, <2>1, <2>2, <2>3 DEF Restart, rowVars, ttnVars
<1>16. CASE UNCHANGED vars
  BY <1>16 DEF vars, rowVars, requestVars, workerVars, loraVars, ttnVars
<1> QED
  BY <1>1, <1>2, <1>3, <1>4, <1>5, <1>6, <1>7, <1>8, <1>9, <1>10, <1>11, <1>12, <1>13,
     <1>14, <1>15, <1>16, <1>17 DEF Next

(* Every variable of the pipeline keeps its type.                          *)
THEOREM TypeCorrect == Spec => []TypeOK
  BY TypeInit, TypeStep, PTL DEF Spec

-------------------------------------------------------------------------------
LEMMA EvidenceInit == Init => Evidence
<1> SUFFICES ASSUME Init PROVE Evidence
  OBVIOUS
<1>1. TypeOK
  BY TypeInit
<1>2. /\ BatchIsFresh /\ ReadyIsDue /\ DispatchIsReady /\ SentWasHanded /\ StatusWasReported
      /\ NotStoredYet
  BY DEF Init, BatchIsFresh, ReadyIsDue, DispatchIsReady, SentWasHanded, StatusWasReported,
         NotStoredYet
<1>3. NetworkIsHanded
  BY DEF Init, NetworkIsHanded, NoEvents, Events, Reports
<1> QED
  BY <1>1, <1>2, <1>3 DEF Evidence

(* The requests: what is new in the rows is a command that no other part   *)
(* of the system has heard of.                                             *)
LEMMA RequestsKeepEvidence ==
  ASSUME Evidence, TypeOK',
         \/ \E t \in Tasks : ValidateTask(t) \/ CreateTask(t)
         \/ \E q \in Sequences : AcceptSequence(q) \/ \E c \in Commands : QueueCommand(q, c)
  PROVE  Evidence'
<1> USE PipelineAssumption DEF Evidence, TypeOK, Requests
<1>1. ASSUME NEW r \in Requests, req[r] = "idle", Schedule(r), req' \in [Requests -> RequestStates],
             \A s \in Requests : s # r => req'[s] = req[s], req'[r] # "idle",
             UNCHANGED <<now, rowVars, rivals, workerVars, inflight, loraVars, ttnVars, faults>>
      PROVE  Evidence'
  <2>1. \A c \in stored : due'[c] = due[c]
    BY <1>1 DEF Schedule, NotStoredYet
  <2>2. ReadyIsDue'
    BY <1>1, <2>1 DEF ReadyIsDue, rowVars
  <2>3. NotStoredYet'
    BY <1>1 DEF NotStoredYet, rowVars
  <2>4. /\ BatchIsFresh' /\ DispatchIsReady' /\ NetworkIsHanded' /\ SentWasHanded'
        /\ StatusWasReported'
    BY <1>1 DEF BatchIsFresh, DispatchIsReady, NetworkIsHanded, SentWasHanded, StatusWasReported,
                rowVars, workerVars, loraVars, ttnVars
  <2> QED
    BY <2>2, <2>3, <2>4
<1>2. ASSUME NEW new \in SUBSET Commands, stored' = stored \cup new,
             \A r \in Requests : req'[r] = "idle" => req[r] = "idle" /\ CommandsOf[r] \cap new = {},
             UNCHANGED <<now, row, due, workerVars, inflight, loraVars, ttnVars>>
      PROVE  Evidence'
  <2>1. \A c \in new \ stored : row[c] = NewRow
    BY <1>2 DEF NotStoredYet
  <2>2. ReadyIsDue' /\ NotStoredYet'
    BY <1>2, <2>1 DEF ReadyIsDue, NotStoredYet, NewRow
  <2>3. BatchIsFresh' /\ DispatchIsReady'
    BY <1>2 DEF BatchIsFresh, DispatchIsReady, workerVars, loraVars
  <2>4. SentWasHanded' /\ StatusWasReported'
    BY <1>2, <2>1 DEF SentWasHanded, StatusWasReported, loraVars, ttnVars, NewRow
  <2>5. NetworkIsHanded'
    BY <1>2 DEF NetworkIsHanded, loraVars, ttnVars
  <2> QED
    BY <2>2, <2>3, <2>4, <2>5
<1>3. ASSUME NEW t \in Tasks, ValidateTask(t) PROVE Evidence'
  BY <1>1, <1>3 DEF ValidateTask, RequestStates
<1>4. ASSUME NEW q \in Sequences, AcceptSequence(q) PROVE Evidence'
  BY <1>1, <1>4 DEF AcceptSequence, RequestStates
<1>5. ASSUME NEW t \in Tasks, CreateTask(t) PROVE Evidence'
  <2>1. PICK new \in {{}, CommandsOf[t]} : stored' = stored \cup new
    BY <1>5 DEF CreateTask
  <2>2. \A r \in Requests : req'[r] = "idle" => req[r] = "idle" /\ r # t
    BY <1>5 DEF CreateTask
  <2>3. new \in SUBSET Commands /\ \A r \in Requests : r # t => CommandsOf[r] \cap new = {}
    OBVIOUS
  <2>4. UNCHANGED <<now, row, due, workerVars, inflight, loraVars, ttnVars>>
    BY <1>5 DEF CreateTask
  <2> QED
    BY <1>2, <2>1, <2>2, <2>3, <2>4
<1>6. ASSUME NEW q \in Sequences, NEW c \in Commands, QueueCommand(q, c) PROVE Evidence'
  <2>1. PICK new \in {{}, {c}} : stored' = stored \cup new
    BY <1>6 DEF QueueCommand
  <2>2. \A r \in Requests : req'[r] = "idle" => req[r] = "idle" /\ r # q
    BY <1>6 DEF QueueCommand
  <2>3. new \in SUBSET Commands /\ \A r \in Requests : r # q => CommandsOf[r] \cap new = {}
    BY <1>6 DEF QueueCommand
  <2>4. UNCHANGED <<now, row, due, workerVars, inflight, loraVars, ttnVars>>
    BY <1>6 DEF QueueCommand
  <2> QED
    BY <1>2, <2>1, <2>2, <2>3, <2>4
<1> QED
  BY <1>3, <1>4, <1>5, <1>6

(* The CommandWorker: an update of one row that keeps what the row says    *)
(* and adds only what some other part is evidence of.                      *)
LEMMA UpdateKeepsEvidence ==
  ASSUME Evidence, TypeOK', NEW c \in Commands, NEW cmd \in Row, Update(c, cmd),
         c \in stored,
         c \notin batch',
         row[c].ready => cmd.ready,
         cmd.ready => due[c] <= now,
         cmd.sent => c \in handed,
         cmd.status # "pending" => cmd.status \in reported[c],
         cmd.queuedAt => "queued" \in reported[c],
         cmd.ackedAt => "ack" \in reported[c],
         cmd.failedAt => "failed" \in reported[c],
         batch' \subseteq batch, inflight' \in [Commands -> [Events -> Nat]],
         \A d \in Commands, f \in Events : inflight'[d][f] > 0 => inflight[d][f] > 0,
         UNCHANGED <<now, stored, requestVars, snapshot, loraVars, ttnVars>>
  PROVE  Evidence'
<1> USE DEF Evidence, TypeOK
<1>1. /\ row'[c] = Updated(row[c], cmd)
      /\ \A d \in Commands : d # c => row'[d] = row[d]
  BY UpdateChanges
<1>2. /\ row'[c].ready = cmd.ready /\ row'[c].sent = cmd.sent /\ row'[c].status = cmd.status
      /\ row'[c].queuedAt = (cmd.queuedAt \/ row[c].queuedAt)
      /\ row'[c].ackedAt = (cmd.ackedAt \/ row[c].ackedAt)
      /\ row'[c].failedAt = (cmd.failedAt \/ row[c].failedAt)
  <2> DEFINE new == Updated(row[c], cmd)
  <2>1. row[c] \in Row
    OBVIOUS
  <2>2. /\ new.ready = cmd.ready /\ new.sent = cmd.sent /\ new.status = cmd.status
        /\ new.queuedAt = (cmd.queuedAt \/ row[c].queuedAt)
        /\ new.ackedAt = (cmd.ackedAt \/ row[c].ackedAt)
        /\ new.failedAt = (cmd.failedAt \/ row[c].failedAt)
    BY <2>1, UpdatedIsRow
  <2>3. row'[c] = new
    BY <1>1
  <2> HIDE DEF new
  <2> QED
    BY <2>2, <2>3
<1>3. BatchIsFresh'
  BY <1>1 DEF BatchIsFresh
<1>4. ReadyIsDue'
  BY <1>1, <1>2 DEF ReadyIsDue, requestVars
<1>5. DispatchIsReady'
  BY <1>1, <1>2 DEF DispatchIsReady, loraVars
<1>6. NetworkIsHanded'
  BY DEF NetworkIsHanded, loraVars, ttnVars, Events
<1>7. NotStoredYet'
  BY <1>1 DEF NotStoredYet, requestVars
<1>8. SentWasHanded'
  BY <1>1, <1>2 DEF SentWasHanded, loraVars
<1>9. StatusWasReported'
  <2> SUFFICES ASSUME NEW d \in stored
               PROVE  /\ row'[d].status # "pending" => row'[d].status \in reported[d]
                      /\ row'[d].queuedAt => "queued" \in reported[d]
                      /\ row'[d].ackedAt => "ack" \in reported[d]
                      /\ row'[d].failedAt => "failed" \in reported[d]
    BY DEF StatusWasReported, ttnVars
  <2>1. CASE d = c
    BY <1>2, <2>1 DEF StatusWasReported
  <2>2. CASE d # c
    BY <1>1, <2>2 DEF StatusWasReported
  <2> QED
    BY <2>1, <2>2
<1> QED
  BY <1>3, <1>4, <1>5, <1>6, <1>7, <1>8, <1>9

LEMMA WorkerKeepsEvidence ==
  ASSUME Evidence, TypeOK',
         \/ Subscribe \/ OvertakeSubscription \/ Reconcile
         \/ \E c \in Commands : \/ Handle(c)
                                \/ HandleCommandSent(c)
                                \/ \E s \in Reports : HandleCommandStatusUpdate(c, s)
  PROVE  Evidence'
<1> USE DEF Evidence, TypeOK
<1>1. ASSUME UNCHANGED <<now, rowVars, requestVars, loraVars, ttnVars>>,
             \A d \in Commands, f \in Events : inflight'[d][f] > 0 => inflight[d][f] > 0,
             BatchIsFresh'
      PROVE  Evidence'
  <2>1. NetworkIsHanded'
    BY <1>1 DEF NetworkIsHanded, loraVars, ttnVars, Events
  <2>2. ReadyIsDue' /\ DispatchIsReady' /\ NotStoredYet' /\ SentWasHanded' /\ StatusWasReported'
    BY <1>1 DEF ReadyIsDue, DispatchIsReady, NotStoredYet, SentWasHanded, StatusWasReported,
                rowVars, requestVars, loraVars, ttnVars
  <2> QED
    BY <1>1, <2>1, <2>2
<1>2. CASE Subscribe
  <2>1. BatchIsFresh'
    BY <1>2 DEF Subscribe, BatchIsFresh, rowVars
  <2> QED
    BY <1>1, <1>2, <2>1 DEF Subscribe
<1>8. CASE OvertakeSubscription
  <2>1. BatchIsFresh'
    BY <1>8 DEF OvertakeSubscription, BatchIsFresh, rowVars
  <2>2. \A d \in Commands, f \in Events : inflight'[d][f] > 0 => inflight[d][f] > 0
    BY <1>8, OvertakingLosesEvents
  <2> QED
    BY <1>1, <1>8, <2>1, <2>2 DEF OvertakeSubscription
<1>3. CASE Reconcile
  <2>1. BatchIsFresh'
    BY <1>3 DEF Reconcile, BatchIsFresh, FindAllPending, rowVars
  <2> QED
    BY <1>1, <1>3, <2>1 DEF Reconcile
<1>4. ASSUME NEW c \in Commands, Handle(c) PROVE Evidence'
  <2>1. c \in stored /\ snapshot[c] = row[c] /\ c \notin batch' /\ batch' \subseteq batch
    BY <1>4 DEF Handle, BatchIsFresh
  <2>2. CASE UNCHANGED row
    <3>1. BatchIsFresh'
      BY <1>4, <2>1, <2>2 DEF Handle, BatchIsFresh
    <3> QED
      BY <1>1, <1>4, <2>2, <3>1 DEF Handle, rowVars
  <2>3. CASE due[c] <= now /\ Update(c, MarkedReady(snapshot[c]))
    <3> DEFINE cmd == MarkedReady(row[c])
    <3>1. /\ cmd \in Row /\ cmd.ready /\ cmd.sent = row[c].sent /\ cmd.status = row[c].status
          /\ cmd.queuedAt = row[c].queuedAt /\ cmd.ackedAt = row[c].ackedAt
          /\ cmd.failedAt = row[c].failedAt
      BY MarkedIsRow
    <3>2. Update(c, cmd)
      BY <2>1, <2>3
    <3> HIDE DEF cmd
    <3>3. /\ cmd.sent => c \in handed
          /\ cmd.status # "pending" => cmd.status \in reported[c]
          /\ cmd.queuedAt => "queued" \in reported[c]
          /\ cmd.ackedAt => "ack" \in reported[c]
          /\ cmd.failedAt => "failed" \in reported[c]
      BY <2>1, <3>1 DEF SentWasHanded, StatusWasReported
    <3> QED
      BY UpdateKeepsEvidence, <1>4, <2>1, <2>3, <3>1, <3>2, <3>3 DEF Handle
  <2> QED
    BY <1>4, <2>2, <2>3 DEF Handle
<1>5. ASSUME NEW c \in Commands, NEW e \in Events, Receive(c, e), UNCHANGED row PROVE Evidence'
  <2>1. BatchIsFresh'
    BY <1>5 DEF Receive, BatchIsFresh, workerVars
  <2> QED
    BY <1>1, <1>5, <2>1, ReceiveChanges DEF Receive, rowVars
<1>6. ASSUME NEW c \in Commands, HandleCommandSent(c) PROVE Evidence'
  <2>1. "command_sent" \in Events /\ Receive(c, "command_sent")
    BY <1>6 DEF HandleCommandSent, Events
  <2>2. c \in handed /\ c \in stored /\ row[c].ready /\ due[c] <= now
    BY <2>1 DEF Receive, NetworkIsHanded, DispatchIsReady, ReadyIsDue
  <2>3. CASE Update(c, MarkedSent(row[c]))
    <3> DEFINE cmd == MarkedSent(row[c])
    <3>1. /\ cmd \in Row /\ cmd.sent /\ cmd.ready = row[c].ready /\ cmd.status = row[c].status
          /\ cmd.queuedAt = row[c].queuedAt /\ cmd.ackedAt = row[c].ackedAt
          /\ cmd.failedAt = row[c].failedAt
      BY MarkedIsRow
    <3> HIDE DEF cmd
    <3>2. /\ cmd.status # "pending" => cmd.status \in reported[c]
          /\ cmd.queuedAt => "queued" \in reported[c]
          /\ cmd.ackedAt => "ack" \in reported[c]
          /\ cmd.failedAt => "failed" \in reported[c]
      BY <2>2, <3>1 DEF StatusWasReported
    <3>3. Update(c, cmd)
      BY <2>3 DEF cmd
    <3>4. /\ batch' \subseteq batch /\ c \notin batch'
          /\ UNCHANGED <<now, stored, requestVars, snapshot, loraVars, ttnVars>>
      BY <2>1 DEF Receive, workerVars
    <3> QED
      BY UpdateKeepsEvidence, ReceiveChanges, <2>1, <2>2, <3>1, <3>2, <3>3, <3>4
  <2> QED
    BY <1>5, <1>6, <2>1, <2>3 DEF HandleCommandSent
<1>7. ASSUME NEW c \in Commands, NEW s \in Reports, HandleCommandStatusUpdate(c, s) PROVE Evidence'
  <2>1. s \in Events /\ Receive(c, s)
    BY <1>7 DEF HandleCommandStatusUpdate, Events
  <2>2. s \in reported[c] /\ c \in handed /\ c \in stored /\ row[c].ready /\ due[c] <= now
    BY <2>1 DEF Receive, NetworkIsHanded, DispatchIsReady, ReadyIsDue
  <2>3. CASE Update(c, WithStatus(row[c], s))
    <3> DEFINE cmd == WithStatus(row[c], s)
    <3>1. /\ cmd \in Row /\ cmd.ready = row[c].ready /\ cmd.status = s
          /\ cmd.queuedAt = (row[c].queuedAt \/ s = "queued")
          /\ cmd.ackedAt = (row[c].ackedAt \/ s = "ack")
          /\ cmd.failedAt = (row[c].failedAt \/ s = "failed")
      BY WithStatusIsRow
    <3> HIDE DEF cmd
    <3>2. /\ cmd.status # "pending" => cmd.status \in reported[c]
          /\ cmd.queuedAt => "queued" \in reported[c]
          /\ cmd.ackedAt => "ack" \in reported[c]
          /\ cmd.failedAt => "failed" \in reported[c]
      BY <2>2, <3>1 DEF StatusWasReported
    <3>3. Update(c, cmd)
      BY <2>3 DEF cmd
    <3>4. /\ batch' \subseteq batch /\ c \notin batch'
          /\ UNCHANGED <<now, stored, requestVars, snapshot, loraVars, ttnVars>>
      BY <2>1 DEF Receive, workerVars
    <3> QED
      BY UpdateKeepsEvidence, ReceiveChanges, <2>1, <2>2, <3>1, <3>2, <3>3, <3>4
  <2> QED
    BY <1>5, <1>7, <2>1, <2>3 DEF HandleCommandStatusUpdate
<1> QED
  BY <1>2, <1>3, <1>4, <1>6, <1>7, <1>8

(* The LoraIntegrationWorker and TTN leave the rows alone: they only pass  *)
(* on what a ready row has started.                                        *)
LEMMA DispatchKeepsEvidence ==
  ASSUME Evidence, TypeOK',
         UNCHANGED <<now, rowVars, requestVars, workerVars>>,
         DispatchIsReady', NetworkIsHanded', handed \subseteq handed',
         \A c \in Commands : reported[c] \subseteq reported'[c]
  PROVE  Evidence'
<1> USE DEF Evidence, TypeOK
<1>1. BatchIsFresh' /\ ReadyIsDue' /\ NotStoredYet'
  BY DEF BatchIsFresh, ReadyIsDue, NotStoredYet, rowVars, requestVars, workerVars
<1>2. SentWasHanded'
  BY DEF SentWasHanded, rowVars
<1>3. StatusWasReported'
  BY DEF StatusWasReported, rowVars
<1> QED
  BY <1>1, <1>2, <1>3

LEMMA LoraKeepsEvidence ==
  ASSUME Evidence, TypeOK',
         \/ \E d \in Dispatchers : \/ DispatchReadyCommands(d)
                                   \/ \E c \in Commands : DispatchCommand(d, c) \/ AnnounceSent(d, c)
         \/ \E c \in Commands, s \in Slots, status \in Reports : HandleDownlinkResponse(c, s, status)
  PROVE  Evidence'
<1> USE DEF Evidence, TypeOK
<1>1. ASSUME NEW d \in Dispatchers, DispatchReadyCommands(d) PROVE Evidence'
  <2>1. DispatchIsReady'
    BY <1>1 DEF DispatchReadyCommands, DispatchIsReady, FindAllReadyToDispatch, rowVars
  <2>2. NetworkIsHanded'
    BY <1>1 DEF DispatchReadyCommands, NetworkIsHanded, ttnVars
  <2> QED
    BY <1>1, <2>1, <2>2, DispatchKeepsEvidence DEF DispatchReadyCommands, ttnVars
<1>2. ASSUME NEW d \in Dispatchers, NEW c \in Commands, DispatchCommand(d, c) PROVE Evidence'
  <2>1. c \in stored /\ row[c].ready /\ handed \subseteq handed'
    BY <1>2 DEF DispatchCommand, DispatchIsReady
  <2>2. DispatchIsReady'
    BY <1>2, <2>1 DEF DispatchCommand, DispatchIsReady, rowVars
  <2>3. NetworkIsHanded'
    <3>1. \A x \in Commands, s \in Slots : downlink'[x][s] # "unused" => x \in handed'
      <4>1. CASE UNCHANGED downlink
        BY <2>1, <4>1 DEF NetworkIsHanded
      <4>2. CASE c \in handed' /\ \E s \in Slots : downlink' = [downlink EXCEPT ![c][s] = "accepted"]
        BY <2>1, <4>2 DEF NetworkIsHanded
      <4> QED
        BY <1>2, <4>1, <4>2 DEF DispatchCommand
    <3> QED
      BY <1>2, <2>1, <3>1 DEF DispatchCommand, NetworkIsHanded
  <2> QED
    BY <1>2, <2>1, <2>2, <2>3, DispatchKeepsEvidence DEF DispatchCommand
<1>3. ASSUME NEW d \in Dispatchers, NEW c \in Commands, AnnounceSent(d, c) PROVE Evidence'
  <2>1. c \in handed /\ "command_sent" \in Events /\ Publish(c, "command_sent")
    BY <1>3 DEF AnnounceSent, DispatchIsReady, Events
  <2>2. \A x \in Commands, e \in Events :
           inflight'[x][e] > 0 => inflight[x][e] > 0 \/ (x = c /\ e = "command_sent")
    BY <2>1, PublishChanges
  <2>3. NetworkIsHanded'
    BY <1>3, <2>1, <2>2 DEF AnnounceSent, NetworkIsHanded, ttnVars, Events, Reports
  <2>4. DispatchIsReady'
    BY <1>3 DEF AnnounceSent, DispatchIsReady, rowVars
  <2> QED
    BY <1>3, <2>3, <2>4, DispatchKeepsEvidence DEF AnnounceSent, ttnVars
<1>4. ASSUME NEW c \in Commands, NEW s \in Slots, NEW status \in Reports,
             HandleDownlinkResponse(c, s, status)
      PROVE  Evidence'
  <2>1. c \in handed /\ status \in Events
    BY <1>4 DEF HandleDownlinkResponse, NextReports, NetworkIsHanded, Events
  <2>2. \A x \in Commands, y \in Slots : downlink'[x][y] # "unused" => x \in handed
    BY <1>4, <2>1 DEF HandleDownlinkResponse, NetworkIsHanded
  <2>3. \A x \in Commands : reported[x] \subseteq reported'[x] /\ (x # c => reported'[x] = reported[x])
    BY <1>4 DEF HandleDownlinkResponse
  <2>4. \A x \in Commands, e \in Events :
           inflight'[x][e] > 0 => inflight[x][e] > 0 \/ (x = c /\ e = status /\ status \in reported'[c])
    <3>1. CASE UNCHANGED inflight
      BY <3>1
    <3>2. CASE Publish(c, status) /\ status \in reported'[c]
      BY <2>1, <3>2, PublishChanges
    <3> QED
      BY <1>4, <3>1, <3>2 DEF HandleDownlinkResponse
  <2>5. handed' = handed
    BY <1>4 DEF HandleDownlinkResponse, loraVars
  <2>6. NetworkIsHanded'
    <3>1. \A x \in Commands, y \in Reports : inflight'[x][y] > 0 => y \in reported'[x]
      BY <2>3, <2>4 DEF NetworkIsHanded, Events
    <3>2. \A x \in Commands : inflight'[x]["command_sent"] > 0 => x \in handed
      BY <2>1, <2>4 DEF NetworkIsHanded, Events
    <3>3. \A x \in Commands : reported'[x] # {} => x \in handed
      BY <2>1, <2>3 DEF NetworkIsHanded
    <3> QED
      BY <2>2, <2>5, <3>1, <3>2, <3>3 DEF NetworkIsHanded
  <2>7. DispatchIsReady'
    BY <1>4 DEF HandleDownlinkResponse, DispatchIsReady, loraVars, rowVars
  <2> QED
    BY <1>4, <2>3, <2>5, <2>6, <2>7, DispatchKeepsEvidence DEF HandleDownlinkResponse
<1> QED
  BY <1>1, <1>2, <1>3, <1>4

LEMMA ClockAndRestartKeepEvidence ==
  ASSUME Evidence, TypeOK', TimePasses \/ Restart \/ UNCHANGED vars
  PROVE  Evidence'
<1> USE DEF Evidence, TypeOK
<1>1. CASE TimePasses \/ UNCHANGED vars
  <2>1. ReadyIsDue'
    BY <1>1 DEF TimePasses, vars, ReadyIsDue, rowVars, requestVars
  <2>2. BatchIsFresh' /\ NotStoredYet' /\ SentWasHanded' /\ StatusWasReported'
    BY <1>1 DEF TimePasses, vars, BatchIsFresh, NotStoredYet, SentWasHanded, StatusWasReported,
                rowVars, requestVars, workerVars, loraVars, ttnVars
  <2>3. DispatchIsReady' /\ NetworkIsHanded'
    BY <1>1 DEF TimePasses, vars, DispatchIsReady, NetworkIsHanded, rowVars, loraVars, ttnVars
  <2> QED
    BY <2>1, <2>2, <2>3
<1>2. CASE Restart
  <2>1. \A c \in Commands, e \in Events : inflight'[c][e] = 0
    BY <1>2 DEF Restart, NoEvents
  <2>2. NetworkIsHanded'
    BY <1>2, <2>1 DEF Restart, NetworkIsHanded, ttnVars, Events
  <2>3. DispatchIsReady' /\ BatchIsFresh' /\ ReadyIsDue'
    BY <1>2 DEF Restart, DispatchIsReady, BatchIsFresh, ReadyIsDue, rowVars
  <2>4. NotStoredYet' /\ SentWasHanded' /\ StatusWasReported'
    BY <1>2 DEF Restart, NotStoredYet, SentWasHanded, StatusWasReported, rowVars, ttnVars
  <2> QED
    BY <2>2, <2>3, <2>4
<1> QED
  BY <1>1, <1>2

LEMMA EvidenceStep == Evidence /\ [Next]_vars => Evidence'
<1> SUFFICES ASSUME Evidence, [Next]_vars PROVE Evidence'
  OBVIOUS
<1>1. TypeOK'
  BY TypeStep DEF Evidence
<1> QED
  BY <1>1, RequestsKeepEvidence, WorkerKeepsEvidence, LoraKeepsEvidence,
     ClockAndRestartKeepEvidence DEF Next

(* What is under way or stored is always evidence of what has happened,    *)
(* also when updates, events and restarts fall between any two steps.      *)
THEOREM EvidenceHolds == Spec => []Evidence
  BY EvidenceInit, EvidenceStep, PTL DEF Spec

(* A command reaches the MQTT client only with a row and when it is due.   *)
THEOREM NeverDispatchedEarly == Spec => []NoEarlyDispatch
<1>1. Evidence => NoEarlyDispatch
  BY DEF Evidence, NoEarlyDispatch, DispatchIsReady, ReadyIsDue
<1> QED
  BY <1>1, EvidenceHolds, PTL

(* What a row says was sent was handed to MQTT ...                         *)
THEOREM RowsTellTheTruth == Spec => []SentWasHanded
<1>1. Evidence => SentWasHanded
  BY DEF Evidence
<1> QED
  BY <1>1, EvidenceHolds, PTL

(* ... and what it says of the network TTN has reported: no event and no   *)
(* overlapping update puts a time into a row that TTN has not given cause  *)
(* for.                                                                    *)
THEOREM RowsTellReports == Spec => []StatusWasReported
<1>1. Evidence => StatusWasReported
  BY DEF Evidence
<1> QED
  BY <1>1, EvidenceHolds, PTL

-------------------------------------------------------------------------------
(* What one step can do to one command, whichever worker takes it.         *)
LEMMA RowStep ==
  ASSUME Evidence, Next, NEW c \in Commands
  PROVE  /\ c \in stored => c \in stored'
         /\ c \notin stored => row'[c] = row[c]
         /\ row'[c] # row[c] =>
              /\ UNCHANGED <<now, stored, requestVars, handed>>
              /\ Keeps(row[c], row'[c])
              /\ (row'[c].ready /\ ~row[c].ready) =>
                    due[c] <= now /\ c \notin handed /\ ~row[c].sent /\ ~row'[c].sent
              /\ (row'[c].sent /\ ~row[c].sent) => c \in handed
<1> USE PipelineAssumption DEF Evidence, TypeOK
<1>1. ASSUME UNCHANGED row, stored \subseteq stored'
      PROVE  /\ c \in stored => c \in stored'
             /\ row'[c] = row[c]
  BY <1>1
<1>2. ASSUME NEW d \in Commands, NEW cmd \in Row, Update(d, cmd), d \in stored,
             UNCHANGED <<now, stored, requestVars, handed>>,
             row[d].ready => cmd.ready, row[d].sent => cmd.sent,
             row[d].queuedAt => cmd.queuedAt, row[d].ackedAt => cmd.ackedAt,
             row[d].failedAt => cmd.failedAt,
             (cmd.ready /\ ~row[d].ready) =>
                    due[d] <= now /\ d \notin handed /\ ~row[d].sent /\ ~cmd.sent,
             (cmd.sent /\ ~row[d].sent) => d \in handed
      PROVE  /\ c \in stored => c \in stored'
             /\ c \notin stored => row'[c] = row[c]
             /\ row'[c] # row[c] =>
                  /\ UNCHANGED <<now, stored, requestVars, handed>>
                  /\ Keeps(row[c], row'[c])
                  /\ (row'[c].ready /\ ~row[c].ready) =>
                        due[c] <= now /\ c \notin handed /\ ~row[c].sent /\ ~row'[c].sent
                  /\ (row'[c].sent /\ ~row[c].sent) => c \in handed
  <2>1. CASE c # d
    BY <1>2, <2>1, UpdateChanges
  <2>2. CASE c = d
    <3> DEFINE new == Updated(row[c], cmd)
    <3>1. row[c] \in Row
      OBVIOUS
    <3>2. /\ new.ready = cmd.ready /\ new.sent = cmd.sent /\ new.version = row[c].version + 1
          /\ new.queuedAt = (cmd.queuedAt \/ row[c].queuedAt)
          /\ new.ackedAt = (cmd.ackedAt \/ row[c].ackedAt)
          /\ new.failedAt = (cmd.failedAt \/ row[c].failedAt)
      BY <3>1, <1>2, UpdatedIsRow
    <3>3. row'[c] = new
      BY <1>2, <2>2, UpdateChanges
    <3> HIDE DEF new
    <3> QED
      BY <1>2, <2>2, <3>2, <3>3 DEF Keeps
  <2> QED
    BY <2>1, <2>2
<1>3. CASE \/ \E t \in Tasks : ValidateTask(t) \/ CreateTask(t)
           \/ \E q \in Sequences : AcceptSequence(q) \/ \E d \in Commands : QueueCommand(q, d)
  BY <1>1, <1>3 DEF ValidateTask, CreateTask, AcceptSequence, QueueCommand, rowVars
<1>4. CASE \/ Subscribe \/ OvertakeSubscription \/ Reconcile \/ TimePasses \/ Restart
           \/ \E d \in Dispatchers : \/ DispatchReadyCommands(d)
                                     \/ \E x \in Commands : DispatchCommand(d, x) \/ AnnounceSent(d, x)
           \/ \E x \in Commands, s \in Slots, status \in Reports : HandleDownlinkResponse(x, s, status)
  BY <1>1, <1>4 DEF Subscribe, OvertakeSubscription, Reconcile, TimePasses, Restart, DispatchReadyCommands,
                    DispatchCommand, AnnounceSent, HandleDownlinkResponse, rowVars
<1>5. ASSUME NEW d \in Commands, UNCHANGED <<row, stored>>
      PROVE  /\ c \in stored => c \in stored'
             /\ row'[c] = row[c]
  BY <1>5
<1>6. ASSUME NEW d \in Commands, Handle(d), UNCHANGED <<row, stored>> \/ Update(d, MarkedReady(snapshot[d]))
      PROVE  /\ c \in stored => c \in stored'
             /\ c \notin stored => row'[c] = row[c]
             /\ row'[c] # row[c] =>
                  /\ UNCHANGED <<now, stored, requestVars, handed>>
                  /\ Keeps(row[c], row'[c])
                  /\ (row'[c].ready /\ ~row[c].ready) =>
                        due[c] <= now /\ c \notin handed /\ ~row[c].sent /\ ~row'[c].sent
                  /\ (row'[c].sent /\ ~row[c].sent) => c \in handed
  <2>1. CASE UNCHANGED <<row, stored>>
    BY <2>1, <1>5
  <2>2. CASE Update(d, MarkedReady(snapshot[d])) /\ due[d] <= now
    <3> DEFINE cmd == MarkedReady(row[d])
    <3>1. d \in stored /\ snapshot[d] = row[d] /\ ~row[d].ready
      BY <1>6 DEF Handle, BatchIsFresh
    <3>2. d \notin handed /\ ~row[d].sent
      BY <3>1 DEF DispatchIsReady, SentWasHanded
    <3>3. /\ cmd \in Row /\ cmd.ready /\ cmd.sent = row[d].sent
          /\ cmd.queuedAt = row[d].queuedAt /\ cmd.ackedAt = row[d].ackedAt
          /\ cmd.failedAt = row[d].failedAt
      BY MarkedIsRow
    <3>4. Update(d, cmd)
      BY <2>2, <3>1
    <3>5. UNCHANGED <<now, stored, requestVars, handed>>
      BY <1>6 DEF Handle, loraVars
    <3> HIDE DEF cmd
    <3> QED
      BY <1>2, <2>2, <3>1, <3>2, <3>3, <3>4, <3>5
  <2>3. CASE Update(d, MarkedReady(snapshot[d])) /\ UNCHANGED row
    BY <1>6, <2>3 DEF Handle
  <2> QED
    BY <1>6, <2>1, <2>2, <2>3 DEF Handle
<1>7. ASSUME NEW d \in Commands, HandleCommandSent(d)
      PROVE  /\ c \in stored => c \in stored'
             /\ c \notin stored => row'[c] = row[c]
             /\ row'[c] # row[c] =>
                  /\ UNCHANGED <<now, stored, requestVars, handed>>
                  /\ Keeps(row[c], row'[c])
                  /\ (row'[c].ready /\ ~row[c].ready) =>
                        due[c] <= now /\ c \notin handed /\ ~row[c].sent /\ ~row'[c].sent
                  /\ (row'[c].sent /\ ~row[c].sent) => c \in handed
  <2>1. UNCHANGED <<now, stored, requestVars, handed>> /\ d \in handed
    BY <1>7 DEF HandleCommandSent, Receive, NetworkIsHanded, loraVars
  <2>2. d \in stored
    BY <2>1 DEF DispatchIsReady
  <2>3. CASE UNCHANGED row
    BY <1>5, <2>1, <2>3
  <2>4. CASE Update(d, MarkedSent(row[d]))
    <3> DEFINE cmd == MarkedSent(row[d])
    <3>1. /\ cmd \in Row /\ cmd.sent /\ cmd.ready = row[d].ready
          /\ cmd.queuedAt = row[d].queuedAt /\ cmd.ackedAt = row[d].ackedAt
          /\ cmd.failedAt = row[d].failedAt
      BY MarkedIsRow
    <3>2. Update(d, cmd)
      BY <2>4
    <3> HIDE DEF cmd
    <3> QED
      BY <1>2, <2>1, <2>2, <3>1, <3>2
  <2> QED
    BY <1>7, <2>3, <2>4 DEF HandleCommandSent
<1>8. ASSUME NEW d \in Commands, NEW s \in Reports, HandleCommandStatusUpdate(d, s)
      PROVE  /\ c \in stored => c \in stored'
             /\ c \notin stored => row'[c] = row[c]
             /\ row'[c] # row[c] =>
                  /\ UNCHANGED <<now, stored, requestVars, handed>>
                  /\ Keeps(row[c], row'[c])
                  /\ (row'[c].ready /\ ~row[c].ready) =>
                        due[c] <= now /\ c \notin handed /\ ~row[c].sent /\ ~row'[c].sent
                  /\ (row'[c].sent /\ ~row[c].sent) => c \in handed
  <2>1. UNCHANGED <<now, stored, requestVars, handed>> /\ d \in handed
    BY <1>8 DEF HandleCommandStatusUpdate, Receive, NetworkIsHanded, loraVars
  <2>2. d \in stored
    BY <2>1 DEF DispatchIsReady
  <2>3. CASE UNCHANGED row
    BY <1>5, <2>1, <2>3
  <2>4. CASE Update(d, WithStatus(row[d], s))
    <3> DEFINE cmd == WithStatus(row[d], s)
    <3>1. /\ cmd \in Row /\ cmd.ready = row[d].ready
          /\ cmd.sent = (row[d].sent \/ s = "sent")
          /\ cmd.queuedAt = (row[d].queuedAt \/ s = "queued")
          /\ cmd.ackedAt = (row[d].ackedAt \/ s = "ack")
          /\ cmd.failedAt = (row[d].failedAt \/ s = "failed")
      BY WithStatusIsRow
    <3>2. Update(d, cmd)
      BY <2>4
    <3> HIDE DEF cmd
    <3> QED
      BY <1>2, <2>1, <2>2, <3>1, <3>2
  <2> QED
    BY <1>8, <2>3, <2>4 DEF HandleCommandStatusUpdate
<1> QED
  BY <1>3, <1>4, <1>6, <1>7, <1>8 DEF Next, Handle

(* No update forgets what an earlier one has recorded.                     *)
THEOREM UpdatesForgetNothing == Spec => NothingForgotten
<1>1. Evidence /\ [Next]_vars => [\A c \in stored : row'[c] # row[c] => Keeps(row[c], row'[c])]_vars
  <2> SUFFICES ASSUME Evidence, Next, NEW c \in stored, row'[c] # row[c]
               PROVE  Keeps(row[c], row'[c])
    OBVIOUS
  <2> QED
    BY RowStep DEF Evidence, TypeOK
<1> QED
  BY <1>1, EvidenceHolds, PTL DEF Spec, NothingForgotten

-------------------------------------------------------------------------------
(* What validateCommandOverlaps achieves, for every set of requests: two   *)
(* tasks with overlapping unsent commands were validated before either was *)
(* stored.                                                                 *)

(* A task that has been validated overlaps only with tasks that have been  *)
(* stored since.                                                           *)
ValidatedKnowsRivals ==
  \A t, u \in Tasks : t # u /\ req[t] = "validated" =>
    \A c \in CommandsOf[t], d \in CommandsOf[u] \cap Unsent :
      OverlapsWith(c, d) => u \in rivals[t]

OverlapTracked == ValidatedKnowsRivals /\ OverlapOnlyByRace

LEMMA OverlapSymmetric ==
  ASSUME NEW c \in Commands, NEW d \in Commands
  PROVE  OverlapsWith(c, d) <=> OverlapsWith(d, c)
  BY DEF OverlapsWith

LEMMA OverlapKept ==
  ASSUME NEW c \in Commands, NEW d \in Commands, due'[c] = due[c], due'[d] = due[d]
  PROVE  OverlapsWith(c, d)' <=> OverlapsWith(c, d)
  BY DEF OverlapsWith

LEMMA CommandsOfRequests ==
  /\ \A r \in Requests : CommandsOf[r] \subseteq Commands
  /\ \A r, s \in Requests, c \in Commands :
        c \in CommandsOf[r] /\ c \in CommandsOf[s] => r = s
  /\ Tasks \subseteq Requests /\ Sequences \subseteq Requests
  /\ \A t \in Tasks : t \notin Sequences
  BY PipelineAssumption DEF Requests

(* Sent is never taken back, so only storing can add to the unsent.        *)
LEMMA UnsentStep ==
  ASSUME Evidence, Next
  PROVE  \A c \in Unsent' : c \in Unsent \/ c \in stored' \ stored
<1> TAKE c \in Unsent'
<1>1. c \in Commands /\ c \in stored' /\ ~row'[c].sent
  BY TypeStep DEF Unsent, Evidence, TypeOK
<1>2. c \in stored => ~row[c].sent
  BY <1>1, RowStep DEF Keeps
<1> QED
  BY <1>1, <1>2 DEF Unsent

(* Steps that store no task's command, plan none and validate none.        *)
LEMMA QuietStep ==
  ASSUME OverlapTracked,
         \A u \in Tasks : CommandsOf[u] \cap Unsent' \subseteq Unsent,
         \A u \in Tasks : \A c \in CommandsOf[u] : due'[c] = due[c],
         \A t \in Tasks : rivals[t] \subseteq rivals'[t],
         \A t \in Tasks : req'[t] = "validated" => req[t] = "validated"
  PROVE  OverlapTracked'
<1>1. \A t, u \in Tasks : \A c \in CommandsOf[t], d \in CommandsOf[u] :
         OverlapsWith(c, d)' <=> OverlapsWith(c, d)
  BY OverlapKept, CommandsOfRequests
<1>2. ValidatedKnowsRivals'
  BY <1>1 DEF OverlapTracked, ValidatedKnowsRivals
<1>3. OverlapOnlyByRace'
  BY <1>1 DEF OverlapTracked, OverlapOnlyByRace
<1> QED
  BY <1>2, <1>3 DEF OverlapTracked

LEMMA ValidateKeepsTrack ==
  ASSUME Evidence, OverlapTracked, NEW v \in Tasks, ValidateTask(v)
  PROVE  OverlapTracked'
<1>1. /\ req[v] = "idle" /\ Unsent' = Unsent /\ rivals' = rivals
      /\ \A t \in Tasks : t # v => req'[t] = req[t]
  BY DEF ValidateTask, Unsent, rowVars, Evidence, TypeOK, Requests
<1>2. CommandsOf[v] \cap Unsent = {}
  BY <1>1, CommandsOfRequests DEF Evidence, NotStoredYet, Unsent
<1>3. \A c \in Commands : c \notin CommandsOf[v] => due'[c] = due[c]
  BY DEF ValidateTask, Schedule
<1>4. req'[v] = "validated" =>
        \A c \in CommandsOf[v], d \in Unsent : ~OverlapsWith(c, d)'
  BY DEF ValidateTask, FindPendingByDevice, Unsent, Evidence, TypeOK, Requests
<1>5. \A t \in Tasks : CommandsOf[t] \subseteq Commands
  BY CommandsOfRequests
<1>6. ValidatedKnowsRivals'
  <2> SUFFICES ASSUME NEW t \in Tasks, NEW u \in Tasks, t # u, req'[t] = "validated",
                      NEW c \in CommandsOf[t], NEW d \in CommandsOf[u] \cap Unsent,
                      OverlapsWith(c, d)'
               PROVE  u \in rivals[t]
    BY <1>1 DEF ValidatedKnowsRivals
  <2>1. t # v
    BY <1>4
  <2>2. c \in Commands /\ d \in Commands /\ c \notin CommandsOf[v] /\ d \notin CommandsOf[v]
    BY <1>2, <1>5, <2>1, CommandsOfRequests
  <2>3. OverlapsWith(c, d)
    BY <1>3, <2>2, OverlapKept
  <2> QED
    BY <1>1, <2>1, <2>3 DEF OverlapTracked, ValidatedKnowsRivals
<1>7. OverlapOnlyByRace'
  <2> SUFFICES ASSUME NEW t \in Tasks, NEW u \in Tasks, t # u,
                      NEW c \in CommandsOf[t] \cap Unsent, NEW d \in CommandsOf[u] \cap Unsent,
                      OverlapsWith(c, d)'
               PROVE  u \in rivals[t] \/ t \in rivals[u]
    BY <1>1 DEF OverlapOnlyByRace
  <2>1. c \in Commands /\ d \in Commands /\ c \notin CommandsOf[v] /\ d \notin CommandsOf[v]
    BY <1>2, <1>5
  <2>2. OverlapsWith(c, d)
    BY <1>3, <2>1, OverlapKept
  <2> QED
    BY <2>2 DEF OverlapTracked, OverlapOnlyByRace
<1> QED
  BY <1>6, <1>7 DEF OverlapTracked

LEMMA CreateKeepsTrack ==
  ASSUME Evidence, OverlapTracked, NEW v \in Tasks, CreateTask(v)
  PROVE  OverlapTracked'
<1>1. due' = due /\ row' = row /\ req[v] = "validated"
  BY DEF CreateTask
<1>2. CASE UNCHANGED <<stored, rivals>> /\ req' = [req EXCEPT ![v] = "rejected"]
  <2>1. Unsent' = Unsent /\ \A t \in Tasks : req'[t] = "validated" => req[t] = "validated"
    BY <1>1, <1>2 DEF Unsent, Evidence, TypeOK, Requests
  <2> QED
    BY <1>1, <1>2, <2>1, QuietStep
<1>3. CASE /\ stored' = stored \cup CommandsOf[v]
           /\ req' = [req EXCEPT ![v] = "done"]
           /\ rivals' = [u \in Tasks |-> IF u # v /\ req[u] = "validated"
                                         THEN rivals[u] \cup {v} ELSE rivals[u]]
  <2>1. \A u \in Tasks : u # v => CommandsOf[u] \cap Unsent' \subseteq Unsent
    <3> SUFFICES ASSUME NEW u \in Tasks, u # v, NEW c \in CommandsOf[u], c \in Unsent'
                 PROVE  c \in Unsent
      OBVIOUS
    <3>1. c \notin CommandsOf[v]
      BY CommandsOfRequests
    <3> QED
      BY <1>1, <1>3, <3>1 DEF Unsent
  <2>2. \A u \in Tasks : rivals[u] \subseteq rivals'[u]
    BY <1>3
  <2>3. \A u \in Tasks : u # v /\ req[u] = "validated" => v \in rivals'[u]
    BY <1>3
  <2>4. req'[v] = "done" /\ \A t \in Tasks : t # v => req'[t] = req[t]
    BY <1>3 DEF Evidence, TypeOK, Requests
  <2>5. \A c, d \in Commands : OverlapsWith(c, d)' <=> OverlapsWith(c, d)
    BY <1>1, OverlapKept
  <2>6. \A t \in Tasks : CommandsOf[t] \subseteq Commands
    BY CommandsOfRequests
  <2>7. ValidatedKnowsRivals'
    <3> SUFFICES ASSUME NEW t \in Tasks, NEW u \in Tasks, t # u, req'[t] = "validated",
                        NEW c \in CommandsOf[t], NEW d \in CommandsOf[u], d \in Unsent',
                        OverlapsWith(c, d)
                 PROVE  u \in rivals'[t]
      BY <2>5, <2>6 DEF ValidatedKnowsRivals
    <3>1. t # v /\ req[t] = "validated"
      BY <2>4
    <3>2. CASE u = v
      BY <2>3, <3>1, <3>2
    <3>3. CASE u # v
      <4>1. d \in CommandsOf[u] \cap Unsent
        BY <2>1, <3>3
      <4> QED
        BY <2>2, <3>1, <4>1 DEF OverlapTracked, ValidatedKnowsRivals
    <3> QED
      BY <3>2, <3>3
  <2>8. OverlapOnlyByRace'
    <3> SUFFICES ASSUME NEW t \in Tasks, NEW u \in Tasks, t # u,
                        NEW c \in CommandsOf[t], c \in Unsent',
                        NEW d \in CommandsOf[u], d \in Unsent',
                        OverlapsWith(c, d)
                 PROVE  u \in rivals'[t] \/ t \in rivals'[u]
      BY <2>5, <2>6 DEF OverlapOnlyByRace
    <3>1. CASE t # v /\ u # v
      <4>1. c \in CommandsOf[t] \cap Unsent /\ d \in CommandsOf[u] \cap Unsent
        BY <2>1, <3>1
      <4> QED
        BY <2>2, <4>1 DEF OverlapTracked, OverlapOnlyByRace
    <3>2. CASE t = v
      <4>1. d \in CommandsOf[u] \cap Unsent
        BY <2>1, <3>2
      <4> QED
        BY <1>1, <2>2, <3>2, <4>1 DEF OverlapTracked, ValidatedKnowsRivals
    <3>3. CASE u = v
      <4>1. c \in CommandsOf[t] \cap Unsent
        BY <2>1, <3>3
      <4>2. OverlapsWith(d, c)
        BY <2>6, OverlapSymmetric
      <4> QED
        BY <1>1, <2>2, <3>3, <4>1, <4>2 DEF OverlapTracked, ValidatedKnowsRivals
    <3> QED
      BY <3>1, <3>2, <3>3
  <2> QED
    BY <2>7, <2>8 DEF OverlapTracked
<1> QED
  BY <1>2, <1>3 DEF CreateTask

LEMMA TrackStep == Evidence /\ OverlapTracked /\ [Next]_vars => OverlapTracked'
<1> SUFFICES ASSUME Evidence, OverlapTracked, [Next]_vars PROVE OverlapTracked'
  OBVIOUS
<1>1. CASE UNCHANGED vars
  BY <1>1, QuietStep DEF vars, requestVars, rowVars, Unsent
<1>2. CASE \E t \in Tasks : ValidateTask(t) \/ CreateTask(t)
  BY <1>2, ValidateKeepsTrack, CreateKeepsTrack
<1>3. CASE \E q \in Sequences : AcceptSequence(q)
  <2> PICK q \in Sequences : AcceptSequence(q)
    BY <1>3
  <2>1. Unsent' = Unsent /\ rivals' = rivals /\ \A t \in Tasks : req'[t] = req[t]
    BY CommandsOfRequests DEF AcceptSequence, rowVars, Unsent, Evidence, TypeOK
  <2>2. \A c \in Commands : c \notin CommandsOf[q] => due'[c] = due[c]
    BY DEF AcceptSequence, Schedule
  <2>3. \A u \in Tasks : \A c \in CommandsOf[u] : c \in Commands /\ c \notin CommandsOf[q]
    BY CommandsOfRequests
  <2> QED
    BY <2>1, <2>2, <2>3, QuietStep
<1>4. CASE \E q \in Sequences, c \in Commands : QueueCommand(q, c)
  <2> PICK q \in Sequences, x \in Commands : QueueCommand(q, x)
    BY <1>4
  <2>1. due' = due /\ row' = row /\ rivals' = rivals /\ stored' \subseteq stored \cup {x}
        /\ x \in CommandsOf[q]
    BY DEF QueueCommand
  <2>2. \A t \in Tasks : req'[t] = req[t]
    BY CommandsOfRequests DEF QueueCommand, Evidence, TypeOK
  <2>3. \A u \in Tasks : x \notin CommandsOf[u]
    BY <2>1, CommandsOfRequests
  <2>4. \A u \in Tasks : CommandsOf[u] \cap Unsent' \subseteq Unsent
    BY <2>1, <2>3 DEF Unsent
  <2> QED
    BY <2>1, <2>2, <2>4, QuietStep
<1>5. ASSUME Next, UNCHANGED <<stored, due, rivals>>,
             \A t \in Tasks : req'[t] = "validated" => req[t] = "validated"
      PROVE  OverlapTracked'
  <2>1. Unsent' \subseteq Unsent
    BY <1>5, UnsentStep
  <2> QED
    BY <1>5, <2>1, QuietStep
<1>6. CASE \/ Subscribe \/ OvertakeSubscription \/ Reconcile \/ TimePasses
           \/ \E c \in Commands : \/ Handle(c) \/ HandleCommandSent(c)
                                  \/ \E s \in Reports : HandleCommandStatusUpdate(c, s)
  <2>1. UNCHANGED <<stored, due, rivals, req>> /\ Next
    BY <1>6 DEF Subscribe, OvertakeSubscription, Reconcile, TimePasses, Handle, HandleCommandSent,
                HandleCommandStatusUpdate, Receive, rowVars, requestVars, Next
  <2> QED
    BY <1>5, <2>1
<1>7. CASE \/ \E d \in Dispatchers : \/ DispatchReadyCommands(d)
                                     \/ \E x \in Commands : DispatchCommand(d, x) \/ AnnounceSent(d, x)
           \/ \E x \in Commands, s \in Slots, status \in Reports : HandleDownlinkResponse(x, s, status)
  <2>1. UNCHANGED <<stored, due, rivals, req>> /\ Next
    BY <1>7 DEF DispatchReadyCommands, DispatchCommand, AnnounceSent, HandleDownlinkResponse,
                rowVars, requestVars, Next
  <2> QED
    BY <1>5, <2>1
<1>8. CASE Restart
  <2>1. UNCHANGED <<stored, due, rivals>> /\ Next
    BY <1>8 DEF Restart, rowVars, Next
  <2>2. \A t \in Tasks : req'[t] = "validated" => req[t] = "validated"
    BY <1>8 DEF Restart, Requests
  <2> QED
    BY <1>5, <2>1, <2>2
<1> QED
  BY <1>1, <1>2, <1>3, <1>4, <1>6, <1>7, <1>8 DEF Next

(* validateCommandOverlaps lets two tasks overlap only when the two were   *)
(* validated before either was stored.                                     *)
THEOREM OverlapsAreRaces == Spec => []OverlapOnlyByRace
<1>1. Init => OverlapTracked
  BY DEF Init, OverlapTracked, ValidatedKnowsRivals, OverlapOnlyByRace, Unsent, Requests
<1>2. OverlapTracked => OverlapOnlyByRace
  BY DEF OverlapTracked
<1> QED
  BY <1>1, <1>2, TrackStep, EvidenceHolds, PTL DEF Spec

-------------------------------------------------------------------------------
(* CommandPipeline implements CommandLifecycle, for every set of commands, *)
(* requests and dispatchers: its first states are lifecycle states in      *)
(* which every command is absent, and every step of every actor moves each *)
(* command by one phase of the lifecycle or by none.                       *)

phases == [c \in Commands |-> Phase(c)]

(* What a step that leaves the clock alone does to what phases are made of *)
(* besides the rows: commands get a row that is new, what was handed over  *)
(* stays so, and DispatchAfter is settled by then.                         *)
LEMMA StorageStep ==
  ASSUME Evidence, Next, NEW c \in Commands
  PROVE  /\ handed \subseteq handed'
         /\ c \in handed' \ handed => UNCHANGED <<stored, row>>
         /\ due'[c] # due[c] => c \notin stored
         /\ ~TimePasses => now' = now
<1> USE PipelineAssumption DEF Evidence, TypeOK
<1>1. CASE \E t \in Tasks : ValidateTask(t)
  <2> PICK t \in Tasks : ValidateTask(t)
    BY <1>1
  <2>1. UNCHANGED <<handed, now>> /\ req[t] = "idle"
    BY DEF ValidateTask, loraVars
  <2>2. due'[c] # due[c] => c \in CommandsOf[t]
    BY DEF ValidateTask, Schedule
  <2>3. CommandsOf[t] \cap stored = {}
    BY <2>1 DEF NotStoredYet, Requests
  <2> QED
    BY <2>1, <2>2, <2>3
<1>2. CASE \E q \in Sequences : AcceptSequence(q)
  <2> PICK q \in Sequences : AcceptSequence(q)
    BY <1>2
  <2>1. UNCHANGED <<handed, now>> /\ req[q] = "idle"
    BY DEF AcceptSequence, loraVars
  <2>2. due'[c] # due[c] => c \in CommandsOf[q]
    BY DEF AcceptSequence, Schedule
  <2>3. CommandsOf[q] \cap stored = {}
    BY <2>1 DEF NotStoredYet, Requests
  <2> QED
    BY <2>1, <2>2, <2>3
<1>3. CASE \/ \E t \in Tasks : CreateTask(t)
           \/ \E q \in Sequences, d \in Commands : QueueCommand(q, d)
           \/ Subscribe \/ OvertakeSubscription \/ Reconcile \/ TimePasses \/ Restart
  BY <1>3 DEF CreateTask, QueueCommand, Subscribe, OvertakeSubscription, Reconcile, TimePasses,
              Restart, requestVars, loraVars
<1>4. CASE \E d \in Commands : \/ Handle(d) \/ HandleCommandSent(d)
                               \/ \E s \in Reports : HandleCommandStatusUpdate(d, s)
  BY <1>4 DEF Handle, HandleCommandSent, HandleCommandStatusUpdate, Receive, requestVars, loraVars
<1>5. CASE \/ \E d \in Dispatchers : \/ DispatchReadyCommands(d)
                                     \/ \E x \in Commands : DispatchCommand(d, x) \/ AnnounceSent(d, x)
           \/ \E x \in Commands, s \in Slots, status \in Reports : HandleDownlinkResponse(x, s, status)
  BY <1>5 DEF DispatchReadyCommands, DispatchCommand, AnnounceSent, HandleDownlinkResponse,
              requestVars, rowVars, loraVars
<1> QED
  BY <1>1, <1>2, <1>3, <1>4, <1>5 DEF Next

(* A step takes a command to the next phase or leaves it in its own.       *)
LEMMA PhaseStep ==
  ASSUME Evidence, Evidence', Next, NEW c \in Commands
  PROVE  /\ Phase(c)' # Phase(c) => Lifecycle!Follows(Phase(c), Phase(c)')
         /\ Phase(c)' = "ready" /\ Phase(c) # "ready" => due[c] <= now
<1> USE DEF Phase, Lifecycle!Follows
<1>1. CASE c \notin stored
  <2>1. row'[c] = NewRow
    BY <1>1, RowStep DEF Evidence, NotStoredYet
  <2>2. ~row'[c].sent /\ ~row'[c].ready
    BY <2>1 DEF NewRow
  <2>3. c \notin handed'
    BY <2>2 DEF Evidence, DispatchIsReady
  <2>4. Phase(c) = "absent" /\ Phase(c)' \in {"absent", "pending"}
    BY <1>1, <2>2, <2>3
  <2> QED
    BY <2>4
<1>2. CASE c \in stored /\ row'[c] = row[c]
  <2>1. c \in stored' /\ handed \subseteq handed'
    BY <1>2, RowStep, StorageStep
  <2>2. c \in handed' => row[c].ready
    BY <1>2 DEF Evidence, DispatchIsReady
  <2>3. CASE c \in handed \/ c \notin handed'
    BY <1>2, <2>1, <2>3
  <2>4. CASE c \notin handed /\ c \in handed' /\ row[c].sent
    BY <1>2, <2>1, <2>4
  <2>5. CASE c \notin handed /\ c \in handed' /\ ~row[c].sent
    <3>1. Phase(c) = "ready" /\ Phase(c)' = "handed"
      BY <1>2, <2>1, <2>2, <2>5
    <3> QED
      BY <3>1
  <2> QED
    BY <2>3, <2>4, <2>5
<1>3. CASE c \in stored /\ row'[c] # row[c]
  <2>1. /\ c \in stored' /\ handed' = handed
        /\ row[c].ready => row'[c].ready
        /\ row[c].sent => row'[c].sent
        /\ (row'[c].ready /\ ~row[c].ready) => due[c] <= now /\ c \notin handed
        /\ (row'[c].sent /\ ~row[c].sent) => c \in handed
    BY <1>3, RowStep DEF Keeps
  <2>2. CASE row[c].sent
    BY <1>3, <2>1, <2>2
  <2>3. CASE ~row[c].sent /\ row'[c].sent
    <3>1. Phase(c) = "handed" /\ Phase(c)' = "sent"
      BY <1>3, <2>1, <2>3
    <3> QED
      BY <3>1
  <2>4. CASE ~row[c].sent /\ ~row'[c].sent /\ (c \in handed \/ row[c].ready)
    BY <1>3, <2>1, <2>4
  <2>5. CASE ~row[c].sent /\ ~row'[c].sent /\ c \notin handed /\ ~row[c].ready
    <3>1. Phase(c) = "pending" /\ Phase(c)' \in {"pending", "ready"}
      BY <1>3, <2>1, <2>5
    <3>2. Phase(c)' = "ready" => due[c] <= now
      BY <1>3, <2>1, <2>5
    <3> QED
      BY <3>1, <3>2
  <2> QED
    BY <2>2, <2>3, <2>4, <2>5
<1> QED
  BY <1>1, <1>2, <1>3

LEMMA LifecycleInitially == Init => Lifecycle!LifecycleInit
<1> SUFFICES ASSUME Init PROVE Lifecycle!LifecycleInit
  OBVIOUS
<1>1. \A c \in Commands : Phase(c) = "absent"
  BY DEF Init, Phase
<1>2. due \in [Commands -> Nat] /\ now \in Nat
  BY DEF Init
<1> QED
  BY <1>1, <1>2 DEF Lifecycle!LifecycleInit

LEMMA LifecycleStep ==
  ASSUME Evidence, Evidence', [Next]_vars
  PROVE  [Lifecycle!LifecycleNext]_(Lifecycle!lifecycleVars)
<1>1. CASE UNCHANGED vars
  <2>1. UNCHANGED <<stored, row, handed, due, now>>
    BY <1>1 DEF vars, rowVars, requestVars, loraVars
  <2>2. \A c \in Commands : Phase(c)' = Phase(c)
    BY <2>1 DEF Phase
  <2> QED
    BY <2>1, <2>2 DEF Lifecycle!lifecycleVars
<1>2. CASE TimePasses
  <2>1. UNCHANGED <<stored, row, handed, due>>
    BY <1>2 DEF TimePasses, rowVars, requestVars, loraVars
  <2>2. \A c \in Commands : Phase(c)' = Phase(c)
    BY <2>1 DEF Phase
  <2>3. now' \in Nat /\ now' > now
    BY <1>2 DEF TimePasses, Evidence, TypeOK
  <2>4. Lifecycle!TimePasses
    BY <2>1, <2>2, <2>3 DEF Lifecycle!TimePasses
  <2> QED
    BY <2>4 DEF Lifecycle!LifecycleNext
<1>3. CASE Next /\ ~TimePasses
  <2>1. now' = now
    <3>1. CASE Commands = {}
      BY <1>3, <3>1 DEF Next, ValidateTask, CreateTask, AcceptSequence, Subscribe,
                        OvertakeSubscription, Reconcile, DispatchReadyCommands, Restart
    <3>2. CASE Commands # {}
      BY <1>3, <3>2, StorageStep
    <3> QED
      BY <3>1, <3>2
  <2>2. due' \in [Commands -> Nat]
    BY DEF Evidence, TypeOK
  <2>3. phases' \in [Commands -> Lifecycle!Phases]
    BY DEF phases, Phase, Lifecycle!Phases
  <2>4. \A c \in Commands :
           /\ phases'[c] # phases[c] => Lifecycle!Follows(phases[c], phases'[c])
           /\ phases'[c] = "ready" /\ phases[c] # "ready" => due[c] <= now
    <3> TAKE c \in Commands
    <3>1. phases[c] = Phase(c) /\ phases'[c] = Phase(c)'
      BY DEF phases
    <3> QED
      BY <1>3, <3>1, PhaseStep
  <2>5. \A c \in Commands : due'[c] # due[c] => phases[c] = "absent"
    BY <1>3, StorageStep DEF phases, Phase
  <2>6. Lifecycle!Advance
    BY <2>1, <2>2, <2>3, <2>4, <2>5 DEF phases, Lifecycle!Advance
  <2> QED
    BY <2>6 DEF Lifecycle!LifecycleNext
<1> QED
  BY <1>1, <1>2, <1>3

(* The pipeline implements the lifecycle: a command is stored, becomes     *)
(* ready when it is due, is handed to the MQTT client and recorded as sent *)
(* in this order and never back, whatever overlaps, fails or restarts.     *)
THEOREM LifecycleImplemented == Spec => ImplementsLifecycle
<1>1. Evidence /\ Evidence' /\ [Next]_vars => [Lifecycle!LifecycleNext]_(Lifecycle!lifecycleVars)
  BY LifecycleStep
<1> QED
  BY <1>1, LifecycleInitially, EvidenceHolds, PTL DEF Spec, ImplementsLifecycle, Lifecycle!LifecycleSpec
===============================================================================
