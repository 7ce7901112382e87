------------------------- MODULE MaintenanceExecutions -------------------------
(***************************************************************************)
(* The maintenance executions of one activity.  The ExecutionWorker plans  *)
(* them ahead of time and announces, once per day, that one is coming up   *)
(* or overdue; users create and complete executions and edit the activity  *)
(* over HTTP while it does.  Every update writes a whole row that was read *)
(* some steps earlier.                                                     *)
(***************************************************************************)
EXTENDS Integers, FiniteSets

CONSTANTS
  Executions,        \* the rows maintenance_executions may get
  Requested,         \* those of them that requests create
  Completions,       \* requests to complete an execution
  Edits,             \* requests that change the activity
  StartDate, Every,  \* the activity's Schedule
  DayLength,         \* 24 hours on the clock
  NotificationDays,  \* the activity's NotificationDaysBefore
  Ahead,             \* _nextExecutionsCount
  MaxTime,           \* bound: the clock
  MaxFaults,         \* bound: database calls that fail
  MaxRestarts        \* bound: restarts of the process

ASSUME MaintenanceAssumption ==
  /\ Executions # {} /\ Requested \subseteq Executions
  /\ StartDate \in Nat
  /\ Every \in Nat \ {0} /\ DayLength \in Nat \ {0} /\ Ahead \in Nat
  /\ NotificationDays \subseteq Nat
  /\ MaxTime \in Nat /\ MaxFaults \in Nat /\ MaxRestarts \in Nat
  /\ "nobody" \notin Completions

VARIABLES
  now,          \* the clock
  activity,     \* the activity's row
  edit,         \* where each edit is, and the activity as it read it
  stored,       \* the executions that have a row
  row,          \* their rows
  pass,         \* what the worker is doing
  dates,        \* the dates it has still to plan
  missing,      \* the date it has found no execution for
  passTime,     \* the currentDate of its announcements
  batch,        \* executions it has still to look at
  snapshot,     \* their rows as it has read them
  unannounced,  \* the event whose update it has written and not yet published
  announced,    \* history: the events it has published
  completion,   \* where each completion is, and the row as it read it
  overtaken,    \* history: the completions written since each of them checked
  faults, restarts

activityVars == <<activity, edit>>
planVars == <<dates, missing>>
announceVars == <<passTime, batch, snapshot, unannounced, announced>>
failureVars == <<faults, restarts>>
completionVars == <<completion, overtaken>>
vars == <<now, activityVars, stored, row, pass, planVars, announceVars, completionVars, failureVars>>

Dates == {StartDate + k * Every : k \in 0..MaxTime}
Row == [date : Nat, completedBy : Completions \cup {"nobody"}, overdue : Nat, notified : SUBSET Nat]
Activity == [present : BOOLEAN, active : BOOLEAN, deleted : BOOLEAN]
Announcements == [execution : Executions, kind : {"ready", "overdue"}, days : Nat]

NewExecution(d) == [date |-> d, completedBy |-> "nobody", overdue |-> 0, notified |-> {}]
NewActivity == [present |-> TRUE, active |-> TRUE, deleted |-> FALSE]
NoActivity == [present |-> FALSE, active |-> FALSE, deleted |-> FALSE]

Idle == [stage |-> "idle", kind |-> "none", copy |-> NoActivity]
NoCompletion(e) == [stage |-> "idle", execution |-> e, copy |-> NewExecution(StartDate)]

Init == /\ now = 0
        /\ activity \in {NewActivity, NoActivity}
        /\ edit = [x \in Edits |-> Idle]
        /\ stored = {}
        /\ row = [e \in Executions |-> NewExecution(StartDate)]
        /\ pass = "idle" /\ dates = {} /\ missing = {}
        /\ passTime = 0 /\ batch = {}
        /\ snapshot = row
        /\ unannounced = {} /\ announced = {}
        /\ completion = [m \in Completions |-> NoCompletion(CHOOSE e \in Executions : TRUE)]
        /\ overtaken = [m \in Completions |-> {}]
        /\ faults = 0 /\ restarts = 0

Fault == faults < MaxFaults /\ faults' = faults + 1 /\ UNCHANGED restarts

(* Mutant of Open: an execution without a row counts as open.              *)
OpenOrMissing(e) == row[e].completedBy = "nobody"

Live(a) == a.active /\ ~a.deleted
Open(e) == e \in stored /\ row[e].completedBy = "nobody"

(* Schedule.Next, Ahead times.                                             *)
NextDates == {d \in Dates : d > now /\ Cardinality({b \in Dates : now < b /\ b < d}) < Ahead}

DaysUntil(d, t) == (d - t) \div DayLength

(* Execution.CalculateOverdueDays.                                         *)
OverdueDays(d, t) == IF t <= d THEN 0 ELSE (t - d) \div DayLength

-------------------------------------------------------------------------------
(* ExecutionWorker.  Run calls everything in one goroutine: a tick plans,  *)
(* then looks for executions to announce, then for overdue ones.           *)

(* runScheduleExecutions and the start of processActivity.                 *)
ScheduleExecutions ==
  /\ pass = "idle"
  /\ pass' = "planning"
  /\ \/ dates' = (IF Live(activity) THEN NextDates ELSE {}) /\ UNCHANGED failureVars
     \/ Fault /\ dates' = {}
  /\ UNCHANGED <<now, activityVars, stored, row, missing, announceVars, completionVars>>

(* Mutant of ExecutionExists: an error counts as not found.                *)
ExecutionExistsUnlessError(d) ==
  /\ pass = "planning" /\ missing = {}
  /\ d \in dates
  /\ \A b \in dates : d <= b
  /\ dates' = dates \ {d}
  /\ \/ /\ missing' = {d} \ {row[e].date : e \in stored}
        /\ UNCHANGED failureVars
     \/ Fault /\ missing' = {d}
  /\ UNCHANGED <<now, activityVars, stored, row, pass, announceVars, completionVars>>

(* processActivity looks a date up ...                                     *)
ExecutionExists(d) ==
  /\ pass = "planning" /\ missing = {}
  /\ d \in dates
  /\ \A b \in dates : d <= b
  /\ dates' = dates \ {d}
  /\ \/ /\ missing' = {d} \ {row[e].date : e \in stored}
        /\ UNCHANGED failureVars
     \/ Fault /\ UNCHANGED missing
  /\ UNCHANGED <<now, activityVars, stored, row, pass, announceVars, completionVars>>

(* ... and creates its execution if there was none.                        *)
CreateExecution(e) ==
  /\ pass = "planning"
  /\ missing # {}
  /\ missing' = {}
  /\ \/ /\ e \notin stored \cup Requested
        /\ stored' = stored \cup {e}
        /\ row' = [row EXCEPT ![e] = NewExecution(CHOOSE d \in missing : TRUE)]
        /\ UNCHANGED failureVars
     \/ Fault /\ UNCHANGED <<stored, row>>
  /\ UNCHANGED <<now, activityVars, pass, dates, announceVars, completionVars>>

(* checkReadyForNotification: read the executions that are as many days    *)
(* away as the activity wants to be told.                                  *)
CheckReadyForNotification ==
  /\ pass = "planning" /\ dates = {} /\ missing = {}
  /\ pass' = "ready"
  /\ passTime' = now
  /\ snapshot' = row
  /\ \/ /\ batch' = {e \in Executions : /\ Open(e) /\ Live(activity)
                                        /\ row[e].date > now
                                        /\ DaysUntil(row[e].date, now) \in NotificationDays}
        /\ UNCHANGED failureVars
     \/ Fault /\ batch' = {}
  /\ UNCHANGED <<now, activityVars, stored, row, planVars, unannounced, announced, completionVars>>

(* The worker writes its copy of the row, changed, and will publish the    *)
(* event; or the update fails and the execution waits for the next tick.   *)
Announcing(e, kind, days, changed) ==
  \/ /\ row' = [row EXCEPT ![e] = changed]
     /\ unannounced' = {[execution |-> e, kind |-> kind, days |-> days]}
     /\ UNCHANGED failureVars
  \/ Fault /\ UNCHANGED <<row, unannounced>>

(* Mutant of NotifyReady: NotificationsSent is not looked at.              *)
NotifyReadyEachTick(e) ==
  LET days == DaysUntil(snapshot[e].date, passTime)
  IN /\ pass = "ready" /\ unannounced = {}
     /\ e \in batch
     /\ batch' = batch \ {e}
     /\ Announcing(e, "ready", days, [snapshot[e] EXCEPT !.notified = @ \cup {days}])
     /\ UNCHANGED <<now, activityVars, stored, pass, planVars, passTime, snapshot, announced, completionVars>>

NotifyReady(e) ==
  LET days == DaysUntil(snapshot[e].date, passTime)
  IN /\ pass = "ready" /\ unannounced = {}
     /\ e \in batch
     /\ batch' = batch \ {e}
     /\ IF days \in snapshot[e].notified
        THEN UNCHANGED <<row, unannounced, failureVars>>
        ELSE Announcing(e, "ready", days, [snapshot[e] EXCEPT !.notified = @ \cup {days}])
     /\ UNCHANGED <<now, activityVars, stored, pass, planVars, passTime, snapshot, announced, completionVars>>

(* Mutant of CheckOverdueExecutions: only the last day's are looked at.    *)
CheckOverdueSinceYesterday ==
  /\ pass = "ready" /\ batch = {} /\ unannounced = {}
  /\ pass' = "overdue"
  /\ snapshot' = row
  /\ \/ /\ batch' = {e \in Executions : /\ Open(e) /\ Live(activity)
                                        /\ row[e].date \in (now - DayLength + 1)..(now - 1)}
        /\ UNCHANGED failureVars
     \/ Fault /\ batch' = {}
  /\ UNCHANGED <<now, activityVars, stored, row, planVars, passTime, unannounced, announced, completionVars>>

(* checkOverdueExecutions: its query has a clock reading of its own, the   *)
(* days are counted up to the currentDate of the pass.                     *)
CheckOverdueExecutions ==
  /\ pass = "ready" /\ batch = {} /\ unannounced = {}
  /\ pass' = "overdue"
  /\ snapshot' = row
  /\ \/ /\ batch' = {e \in Executions : Open(e) /\ Live(activity) /\ row[e].date < now}
        /\ UNCHANGED failureVars
     \/ Fault /\ batch' = {}
  /\ UNCHANGED <<now, activityVars, stored, row, planVars, passTime, unannounced, announced, completionVars>>

(* Mutant of NotifyOverdue: the same number of days is announced again.    *)
NotifyOverdueEachTick(e) ==
  LET days == OverdueDays(snapshot[e].date, passTime)
  IN /\ pass = "overdue" /\ unannounced = {}
     /\ e \in batch
     /\ batch' = batch \ {e}
     /\ IF days < snapshot[e].overdue
        THEN UNCHANGED <<row, unannounced, failureVars>>
        ELSE Announcing(e, "overdue", days, [snapshot[e] EXCEPT !.overdue = days])
     /\ UNCHANGED <<now, activityVars, stored, pass, planVars, passTime, snapshot, announced, completionVars>>

NotifyOverdue(e) ==
  LET days == OverdueDays(snapshot[e].date, passTime)
  IN /\ pass = "overdue" /\ unannounced = {}
     /\ e \in batch
     /\ batch' = batch \ {e}
     /\ IF days <= snapshot[e].overdue
        THEN UNCHANGED <<row, unannounced, failureVars>>
        ELSE Announcing(e, "overdue", days, [snapshot[e] EXCEPT !.overdue = days])
     /\ UNCHANGED <<now, activityVars, stored, pass, planVars, passTime, snapshot, announced, completionVars>>

PublishExecutionCountEvent ==
  /\ unannounced # {}
  /\ announced' = announced \cup unannounced
  /\ unannounced' = {}
  /\ UNCHANGED <<now, activityVars, stored, row, pass, planVars, passTime, batch, snapshot, completionVars, failureVars>>

EndPass ==
  /\ pass = "overdue" /\ batch = {} /\ unannounced = {}
  /\ pass' = "idle"
  /\ UNCHANGED <<now, activityVars, stored, row, planVars, announceVars, completionVars, failureVars>>

WorkerStep ==
  \/ ScheduleExecutions \/ CheckReadyForNotification \/ CheckOverdueExecutions
  \/ PublishExecutionCountEvent \/ EndPass
  \/ \E d \in Dates : ExecutionExists(d)
  \/ \E e \in Executions : CreateExecution(e) \/ NotifyReady(e) \/ NotifyOverdue(e)

-------------------------------------------------------------------------------
(* Requests about executions                                               *)

(* ExecutionController.createExecution: any date, whether or not it has an *)
(* execution, of an activity that is there, which is never taken back.     *)
CreateByRequest(e, d) ==
  /\ e \in Requested \ stored /\ activity.present
  /\ stored' = stored \cup {e}
  /\ row' = [row EXCEPT ![e] = NewExecution(d)]
  /\ UNCHANGED <<now, activityVars, pass, planVars, announceVars, completionVars, failureVars>>

(* Mutant of MarkExecutionCompleted: it is not refused.                    *)
MarkAgain(m, e) ==
  /\ completion[m].stage = "idle"
  /\ e \in stored
  /\ row[e].date <= now
  /\ completion' = [completion EXCEPT ![m] = [@ EXCEPT !.stage = "checked", !.execution = e]]
  /\ UNCHANGED <<now, activityVars, stored, row, pass, planVars, announceVars, overtaken, failureVars>>

(* MarkExecutionCompleted reads the row to see whether it may be completed *)
(* (a request it refuses changes nothing) ...                              *)
MarkExecutionCompleted(m, e) ==
  /\ completion[m].stage = "idle"
  /\ Open(e)
  /\ row[e].date <= now
  /\ completion' = [completion EXCEPT ![m] = [@ EXCEPT !.stage = "checked", !.execution = e]]
  /\ UNCHANGED <<now, activityVars, stored, row, pass, planVars, announceVars, overtaken, failureVars>>

(* ... and the repository's MarkCompleted reads it again ...               *)
LoadToComplete(m) ==
  /\ completion[m].stage = "checked"
  /\ completion' = [completion EXCEPT ![m] = [@ EXCEPT !.stage = "loaded", !.copy = row[completion[m].execution]]]
  /\ UNCHANGED <<now, activityVars, stored, row, pass, planVars, announceVars, overtaken, failureVars>>

(* ... and writes what it has read, completed.                             *)
MarkCompleted(m) ==
  /\ completion[m].stage = "loaded"
  /\ completion' = [completion EXCEPT ![m].stage = "done"]
  /\ \/ /\ row' = [row EXCEPT ![completion[m].execution] =
                     [completion[m].copy EXCEPT !.completedBy = m, !.overdue = 0]]
        /\ overtaken' = [n \in Completions |->
                           IF completion[n].stage \in {"checked", "loaded"}
                           THEN overtaken[n] \cup {m} ELSE overtaken[n]]
        /\ UNCHANGED failureVars
     \/ Fault /\ UNCHANGED <<row, overtaken>>
  /\ UNCHANGED <<now, activityVars, stored, pass, planVars, announceVars>>

-------------------------------------------------------------------------------
(* Requests about the activity: each reads it, checks that it is not       *)
(* deleted and writes it back, in an order of its own.                     *)

Step(x, stage, copy) == edit' = [edit EXCEPT ![x] = [@ EXCEPT !.stage = stage, !.copy = copy]]

(* createActivity: with a schedule that has a next date, for a tenant that *)
(* is there.                                                               *)
CreateActivity ==
  /\ ~activity.present
  /\ \/ activity' = NewActivity /\ UNCHANGED failureVars
     \/ Fault /\ UNCHANGED activity
  /\ UNCHANGED <<now, edit, stored, row, pass, planVars, announceVars, completionVars>>

(* ActivateActivity, DeactivateActivity and DeleteActivity.                *)
OpenEdit(x, kind) ==
  /\ edit[x].stage = "idle"
  /\ activity.present /\ ~activity.deleted
  /\ edit' = [edit EXCEPT ![x] = [stage |-> IF kind = "delete" THEN "read" ELSE "checked",
                                  kind |-> kind, copy |-> activity]]
  /\ UNCHANGED <<now, activity, stored, row, pass, planVars, announceVars, completionVars, failureVars>>

(* The controller's updateActivity changes what it reads, deleted or not.  *)
OpenUpdate(x) ==
  /\ edit[x].stage = "idle"
  /\ activity.present
  /\ edit' = [edit EXCEPT ![x] = [stage |-> "read", kind |-> "update", copy |-> activity]]
  /\ UNCHANGED <<now, activity, stored, row, pass, planVars, announceVars, completionVars, failureVars>>

(* The repository's Delete reads again; UpdateActivity checks now, and     *)
(* keeps the copy the controller has changed.                              *)
ReadAgain(x) ==
  /\ edit[x].stage = "read"
  /\ \/ edit[x].kind = "delete" /\ Step(x, "checked", activity)
     \/ edit[x].kind = "update" /\ ~activity.deleted /\ Step(x, "checked", edit[x].copy)
     \/ edit[x].kind = "update" /\ activity.deleted /\ Step(x, "done", edit[x].copy)
  /\ UNCHANGED <<now, activity, stored, row, pass, planVars, announceVars, completionVars, failureVars>>

SaveEdit(x) ==
  /\ edit[x].stage = "checked"
  /\ Step(x, "done", edit[x].copy)
  /\ \/ /\ activity' = CASE edit[x].kind = "activate" -> [edit[x].copy EXCEPT !.active = TRUE]
                         [] edit[x].kind = "deactivate" -> [edit[x].copy EXCEPT !.active = FALSE]
                         [] edit[x].kind = "update" -> edit[x].copy
                         [] edit[x].kind = "delete" ->
                              [edit[x].copy EXCEPT !.active = FALSE, !.deleted = TRUE]
        /\ UNCHANGED failureVars
     \/ Fault /\ UNCHANGED activity
  /\ UNCHANGED <<now, stored, row, pass, planVars, announceVars, completionVars>>

-------------------------------------------------------------------------------
TimePasses ==
  /\ now < MaxTime
  /\ now' = now + 1
  /\ UNCHANGED <<activityVars, stored, row, pass, planVars, announceVars, completionVars, failureVars>>

(* The process ends and starts again; the rows stay.                       *)
Restart ==
  /\ restarts < MaxRestarts
  /\ restarts' = restarts + 1
  /\ pass' = "idle" /\ dates' = {} /\ missing' = {} /\ batch' = {} /\ unannounced' = {}
  /\ completion' = [m \in Completions |->
       IF completion[m].stage = "idle" THEN completion[m] ELSE [completion[m] EXCEPT !.stage = "done"]]
  /\ edit' = [x \in Edits |->
       IF edit[x].stage = "idle" THEN edit[x] ELSE [edit[x] EXCEPT !.stage = "done"]]
  /\ UNCHANGED <<now, activity, stored, row, passTime, snapshot, announced, overtaken, faults>>

Next ==
  \/ WorkerStep
  \/ \E e \in Executions, d \in Dates : CreateByRequest(e, d)
  \/ \E m \in Completions : \/ \E e \in Executions : MarkExecutionCompleted(m, e)
                            \/ LoadToComplete(m) \/ MarkCompleted(m)
  \/ CreateActivity
  \/ \E x \in Edits : \/ \E kind \in {"activate", "deactivate", "delete"} : OpenEdit(x, kind)
                      \/ OpenUpdate(x) \/ ReadAgain(x) \/ SaveEdit(x)
  \/ TimePasses
  \/ Restart

Spec == Init /\ [][Next]_vars

(* The ticker keeps ticking and the worker's goroutine runs; nobody need   *)
(* make a request.                                                         *)
FairSpec == Spec /\ WF_vars(WorkerStep) /\ WF_vars(TimePasses)
-------------------------------------------------------------------------------
TypeOK ==
  /\ now \in Nat /\ passTime \in Nat /\ faults \in Nat /\ restarts \in Nat
  /\ activity \in Activity
  /\ edit \in [Edits -> [stage : {"idle", "read", "checked", "done"}, copy : Activity,
                         kind : {"none", "activate", "deactivate", "update", "delete"}]]
  /\ stored \subseteq Executions /\ batch \subseteq stored
  /\ row \in [Executions -> Row] /\ snapshot \in [Executions -> Row]
  /\ pass \in {"idle", "planning", "ready", "overdue"}
  /\ dates \subseteq Nat /\ missing \subseteq Nat
  /\ unannounced \subseteq Announcements /\ announced \subseteq Announcements
  /\ completion \in [Completions -> [stage : {"idle", "checked", "loaded", "done"},
                                     execution : Executions, copy : Row]]
  /\ overtaken \in [Completions -> SUBSET Completions]

(* No execution is announced twice for the same number of days ahead,      *)
(* although a completion may write a row that has forgotten the            *)
(* announcement: by then the date has come.                                *)
ReadyAnnouncedOnce ==
  \A a \in unannounced : a.kind = "ready" => a \notin announced

(* Each overdue announcement of an execution counts more days than the     *)
(* ones before it, although completions set the stored count back to 0.    *)
OverdueGrows ==
  \A a \in unannounced, b \in announced :
    a.kind = "overdue" /\ b.kind = "overdue" /\ a.execution = b.execution => b.days < a.days

(* The worker creates at most one execution for a date, over all its       *)
(* passes, failures and restarts.                                          *)
PlannedOnce ==
  \A e, f \in stored \ Requested : row[e].date = row[f].date => e = f

(* An execution that is overdue by a day or more is announced as overdue   *)
(* unless it is completed or the activity is switched off or deleted:      *)
(* failed reads and updates are made up for by later ticks.                *)
OverdueNoticed ==
  \A e \in Executions :
    (Open(e) /\ OverdueDays(row[e].date, now) > 0)
      ~> (~Open(e) \/ ~Live(activity) \/ \E a \in announced : a.execution = e /\ a.kind = "overdue")

(* Who has completed an execution is replaced only by one who had found it *)
(* open before that was written, and forgotten only by an announcement the *)
(* worker makes from rows it had read before.                              *)
CompletionLostOnlyByOverlap ==
  [][\A e \in stored :
       LET old == row[e].completedBy
           new == row'[e].completedBy
       IN old \notin {"nobody", new} => IF new = "nobody"
                                        THEN e \in batch /\ snapshot[e].completedBy = "nobody"
                                        ELSE old \in overtaken[new]]_vars
===============================================================================
