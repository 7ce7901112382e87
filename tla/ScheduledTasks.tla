---------------------------- MODULE ScheduledTasks ----------------------------
(***************************************************************************)
(* A scheduled task: a row that says when a device's commands have to be   *)
(* created again and when they last were.  The ScheduledTaskWorker reads   *)
(* it, creates a task when it is due and writes the row back; users change *)
(* and delete it over HTTP in the meantime, and the tenant's time zone     *)
(* says what a day is.                                                     *)
(***************************************************************************)
EXTENDS Integers

CONSTANTS
  Edits,        \* requests that change or delete the scheduled task
  Schedules,    \* the schedules they give it
  Zones,        \* the time zones of the tenant: hours ahead of UTC, or behind it
  DayLength,    \* hours of a day
  MaxTime,      \* bound: the clock
  MaxFaults     \* bound: failed calls and restarts

(* A cron schedule has a phase and a period, 0 if no time ever matches it  *)
(* (the 30th of February); one by intervals has the fields of              *)
(* SchedulingConfiguration, whose DayInterval is any number once it has    *)
(* been updated; one that is incomplete lacks some of these fields, and    *)
(* one that is unusable has some that do not parse.                        *)
ASSUME ScheduleAssumption ==
  /\ Schedules # {}
  /\ DayLength \in Nat \ {0} /\ MaxTime \in Nat /\ MaxFaults \in Nat
  /\ Zones \subseteq (1 - DayLength)..(DayLength - 1) /\ 0 \in Zones
  /\ \A s \in Schedules :
       \/ s.type = "cron" /\ s.period \in Nat /\ s.phase \in Nat
       \/ /\ s.type = "interval" /\ s.dayInterval \in Int
          /\ s.initialDay \in Nat /\ s.hour \in 0..(DayLength - 1)
       \/ s.type \in {"incomplete", "unusable"}

VARIABLES
  now,     \* the clock
  zone,    \* the time zone in the tenant's configuration
  stored,  \* the scheduled task has a row
  row,     \* the row
  others,  \* some other active scheduled task is incomplete
  stage,   \* what the worker is doing with it
  copy,    \* the row as the worker has read it
  zoneOf,  \* the time zone the worker has found it due in
  behind,  \* the worker's list has an incomplete one before this one
  edit,    \* where each request is, and the row as it has read it
  run,     \* history: when the worker last created a task
  lost,    \* history: LastExecutedAt does not tell of that run
  faults

rowVars == <<stored, row>>
workerVars == <<stage, copy, zoneOf, behind>>
historyVars == <<run, lost>>
vars == <<now, zone, rowVars, others, workerVars, edit, historyVars, faults>>

Never == -1
ZeroTime == -1     \* time.Time{}: before any reading of the clock
ServersZone == 2   \* mutant of DefaultZone: the server's own, which no tenant has
DefaultZone == 0   \* _defaultTimezone
Times == 0..MaxTime
Row == [schedule : Schedules, active : BOOLEAN, deleted : BOOLEAN,
        created : Times, lastExecuted : Times \cup {Never}]

AnyRow == [schedule |-> CHOOSE s \in Schedules : TRUE, active |-> FALSE, deleted |-> FALSE,
           created |-> 0, lastExecuted |-> Never]
NoEdit == [stage |-> "idle", kind |-> "none", copy |-> AnyRow]
Served == [NoEdit EXCEPT !.stage = "done"]

Init == /\ now = 0
        /\ zone = DefaultZone
        /\ stored = FALSE /\ row = AnyRow /\ others = FALSE
        /\ stage = "idle" /\ copy = AnyRow /\ zoneOf = DefaultZone /\ behind = FALSE
        /\ edit = [x \in Edits |-> NoEdit]
        /\ run = Never /\ lost = FALSE
        /\ faults = 0

(* The worker is done with the scheduled task and holds nothing of it.     *)
Idle == stage' = "idle" /\ copy' = AnyRow /\ zoneOf' = DefaultZone /\ behind' = FALSE

Fault == faults < MaxFaults /\ faults' = faults + 1

-------------------------------------------------------------------------------
(* When a scheduled task is due                                            *)

DayIn(t, z) == (t + z) \div DayLength
AtHour(day, hour, z) == day * DayLength + hour - z

(* Mutant of CronNext: the time itself counts.                             *)
CronNextFrom(s, t, z) ==
  IF s.period = 0 THEN ZeroTime ELSE t + ((s.phase - (t + z)) % s.period)

(* cron's Next: the first time after t that the expression matches, or the *)
(* zero time if it finds none.                                             *)
CronNext(s, t, z) ==
  IF s.period = 0 THEN ZeroTime ELSE t + 1 + ((s.phase - (t + 1 + z)) % s.period)

(* calculateNextIntervalExecution.                                         *)
FirstExecution(s, z) ==
  LET candidate == AtHour(DayIn(s.initialDay, 0), s.hour, z)
  IN IF candidate < s.initialDay THEN candidate + s.dayInterval * DayLength ELSE candidate

IntervalNext(s, t, z) == AtHour(DayIn(t, z) + s.dayInterval, s.hour, z)

NextRun(s, created, lastExecuted, z) ==
  CASE s.type = "cron" -> CronNext(s, IF lastExecuted = Never THEN created ELSE lastExecuted, z)
    [] s.type = "interval" -> IF lastExecuted = Never THEN FirstExecution(s, z)
                                                      ELSE IntervalNext(s, lastExecuted, z)

(* shouldExecuteSchedule; an error is returned for what does not parse.    *)
ShouldExecute(st, z) == /\ st.schedule.type \in {"cron", "interval"}
                        /\ NextRun(st.schedule, st.created, st.lastExecuted, z) <= now

Live(st) == st.active /\ ~st.deleted

-------------------------------------------------------------------------------
(* ScheduledTaskWorker: one goroutine; a tick reads the active scheduled   *)
(* tasks, in any order, and takes them one by one: any time may pass       *)
(* before this one, and an incomplete one may be before it.                *)

FindAllActive ==
  /\ stage = "idle"
  /\ stored /\ Live(row)
  /\ \/ /\ stage' = "loaded" /\ copy' = row
        /\ behind' \in {b \in BOOLEAN : b => others}
        /\ UNCHANGED faults
     \/ Fault /\ UNCHANGED <<stage, copy, behind>>
  /\ UNCHANGED <<now, zone, rowVars, others, zoneOf, edit, historyVars>>

(* shouldExecuteSchedule asks for the tenant's configuration and goes on   *)
(* in the default time zone if it cannot have it.                          *)
Evaluate ==
  /\ stage = "loaded" /\ ~behind
  /\ copy.schedule.type # "incomplete"
  /\ \E z \in {zone, DefaultZone} :
       /\ \/ z = zone /\ UNCHANGED faults
          \/ z = DefaultZone /\ Fault
       /\ IF ShouldExecute(copy, z) THEN stage' = "due" /\ zoneOf' = z /\ UNCHANGED <<copy, behind>>
                                    ELSE Idle
  /\ UNCHANGED <<now, zone, rowVars, others, edit, historyVars>>

(* createTaskFromScheduledTask: the task is created, or the device, the    *)
(* validation or the insert fails and nothing is.                          *)
CreateTask ==
  /\ stage = "due"
  /\ \/ stage' = "created" /\ run' = now /\ UNCHANGED <<copy, zoneOf, behind, faults>>
     \/ Idle /\ Fault /\ UNCHANGED run
  /\ UNCHANGED <<now, zone, rowVars, others, edit, lost>>


(* It then writes the whole row as it was read, with a new LastExecutedAt. *)
SaveExecution ==
  /\ stage = "created"
  /\ Idle
  /\ \/ row' = [copy EXCEPT !.lastExecuted = now] /\ lost' = FALSE /\ UNCHANGED faults
     \/ Fault /\ lost' = TRUE /\ UNCHANGED row
  /\ UNCHANGED <<now, zone, stored, others, edit, run>>

-------------------------------------------------------------------------------
(* Requests                                                                *)

(* scheduledTaskBuilder.Build refuses an incomplete schedule and one by    *)
(* intervals that has none or starts in the past; it does not parse a cron *)
(* expression.                                                             *)
CreateScheduledTask(s, isActive) ==
  /\ ~stored
  /\ s.type # "incomplete"
  /\ s.type = "interval" => /\ s.dayInterval > 0
                            /\ AtHour(DayIn(s.initialDay, 0), s.hour, 0) >= now
  /\ stored' = TRUE
  /\ row' = [AnyRow EXCEPT !.schedule = s, !.active = isActive, !.created = now]
  /\ UNCHANGED <<now, zone, others, workerVars, edit, historyVars, faults>>

(* The controller's update and the repository's Delete read the row ...    *)
OpenEdit(x, kind) ==
  /\ edit[x].stage = "idle"
  /\ stored /\ ~row.deleted
  /\ edit' = [edit EXCEPT ![x] = [stage |-> "read", kind |-> kind, copy |-> row]]
  /\ UNCHANGED <<now, zone, rowVars, others, workerVars, historyVars, faults>>

(* ... and write it back: update with whatever schedule the body has, as   *)
(* nothing is validated.                                                   *)
WithBody(old, active, schedule) == [old EXCEPT !.active = active, !.schedule = schedule]

Edited(x) ==
  LET old == edit[x].copy
  IN IF edit[x].kind = "delete"
     THEN {[old EXCEPT !.active = FALSE, !.deleted = TRUE]}
     ELSE {WithBody(old, a, s) : a \in BOOLEAN, s \in Schedules}

SaveEdit(x) ==
  /\ edit[x].stage = "read"
  /\ edit' = [edit EXCEPT ![x] = Served]
  /\ \/ /\ row' \in Edited(x)
        /\ lost' = (lost \/ row'.lastExecuted # row.lastExecuted)
        /\ UNCHANGED faults
     \/ Fault /\ UNCHANGED <<row, lost>>
  /\ UNCHANGED <<now, zone, stored, others, workerVars, run>>

UpsertTenantConfiguration(z) ==
  /\ zone' = z
  /\ UNCHANGED <<now, rowVars, others, workerVars, edit, historyVars, faults>>

(* What an update does to another scheduled task.                          *)
EditAnother ==
  /\ others' = ~others
  /\ UNCHANGED <<now, zone, rowVars, workerVars, edit, historyVars, faults>>

-------------------------------------------------------------------------------
TimePasses ==
  /\ now < MaxTime
  /\ now' = now + 1
  /\ UNCHANGED <<zone, rowVars, others, workerVars, edit, historyVars, faults>>

(* The process starts again: the row stays, the rest is forgotten.         *)
StartAgain ==
  /\ Idle
  /\ lost' = (lost \/ stage = "created")
  /\ edit' = [x \in Edits |-> IF edit[x].stage = "idle" THEN edit[x] ELSE Served]
  /\ UNCHANGED <<now, zone, rowVars, others, run>>

Restart == Fault /\ StartAgain

(* CalculateNextExecution dereferences the fields that are missing, which  *)
(* ends the process: those of this scheduled task, of one before it in the *)
(* list, or of one in a list without it or after it.                       *)
Panic ==
  /\ \/ stage = "loaded" /\ (behind \/ copy.schedule.type = "incomplete")
     \/ stage = "idle" /\ others
  /\ StartAgain
  /\ UNCHANGED faults

WorkerStep == FindAllActive \/ Evaluate \/ CreateTask \/ SaveExecution \/ Panic

Next ==
  \/ WorkerStep
  \/ \E s \in Schedules, a \in BOOLEAN : CreateScheduledTask(s, a)
  \/ \E x \in Edits : OpenEdit(x, "update") \/ OpenEdit(x, "delete") \/ SaveEdit(x)
  \/ \E z \in Zones : UpsertTenantConfiguration(z)
  \/ EditAnother
  \/ TimePasses \/ Restart

Spec == Init /\ [][Next]_vars

(* The ticker keeps ticking and the worker's goroutine runs.               *)
FairSpec == Spec /\ WF_vars(WorkerStep)
-------------------------------------------------------------------------------
TypeOK ==
  /\ now \in Times /\ zone \in Zones /\ zoneOf \in Zones
  /\ stored \in BOOLEAN /\ row \in Row /\ copy \in Row
  /\ others \in BOOLEAN /\ behind \in BOOLEAN
  /\ stage \in {"idle", "loaded", "due", "created"}
  /\ edit \in [Edits -> [stage : {"idle", "read", "done"},
                         kind : {"none", "update", "delete"}, copy : Row]]
  /\ run \in Times \cup {Never} /\ lost \in BOOLEAN
  /\ faults \in 0..MaxFaults

(* What an occurrence of a schedule is to the user, after a run.           *)
Occurs(s, t, after, z) ==
  \/ s.type = "cron" /\ s.period > 0 /\ (t + z) % s.period = s.phase % s.period
  \/ /\ s.type = "interval"
     /\ (t + z) % DayLength = s.hour
     /\ DayIn(t, z) >= DayIn(after, z) + s.dayInterval

(* The schedules that make sense; an update also stores intervals of no    *)
(* days or less, and any request a cron expression that never matches.     *)
Recurs(s) == \/ s.type = "cron" /\ s.period > 0
             \/ s.type = "interval" /\ s.dayInterval > 0

(* The worker creates a second task with no occurrence of the schedule in  *)
(* between only when the row does not tell of the first (its update failed *)
(* or never happened, or an edit that had read the row before wrote it     *)
(* after), or when the schedule it has read is one that does not recur.    *)
TwiceOnlyByLoss ==
  stage = "due" /\ run # Never /\ ~lost /\ Recurs(copy.schedule)
    => \E t \in (run + 1)..now : Occurs(copy.schedule, t, run, zoneOf)

(* A scheduled task that is due does not stay so: the worker creates its   *)
(* task, in spite of failures and restarts, unless it is switched off,     *)
(* deleted or changed.  Only another scheduled task that is incomplete may *)
(* keep the worker from it, and one whose schedule does not recur is run   *)
(* and stays due.                                                          *)
Due == stored /\ Live(row) /\ ShouldExecute(row, zone)
===============================================================================
