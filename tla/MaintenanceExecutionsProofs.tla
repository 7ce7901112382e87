---------------------- MODULE MaintenanceExecutionsProofs ----------------------
(***************************************************************************)
(* No execution is planned or announced twice, overdue announcements grow, *)
(* and a completion is lost only to one it overlaps, for any number of     *)
(* executions, requests, failures and restarts, and any schedule.          *)
(***************************************************************************)
EXTENDS MaintenanceExecutions, TLAPS

(* The worker's copies were open, and are of the rows' dates, which never  *)
(* change: of dates to come before it looks for overdue ones, of dates     *)
(* past then.                                                              *)
BatchFits ==
  /\ passTime <= now
  /\ \A e \in batch :
       /\ pass \in {"ready", "overdue"}
       /\ snapshot[e].completedBy = "nobody" /\ snapshot[e].date = row[e].date
       /\ pass = "ready" => row[e].date > passTime
       /\ pass = "overdue" => row[e].date < now

(* A request completes an execution whose date has come, and knows who has *)
(* completed it since it looked.                                           *)
CompletionsFit ==
  \A m \in Completions : completion[m].stage \in {"checked", "loaded"} =>
    LET e == completion[m].execution
    IN /\ e \in stored /\ row[e].date <= now
       /\ row[e].completedBy \in {"nobody"} \cup overtaken[m]
       /\ completion[m].stage = "loaded" => completion[m].copy.date = row[e].date

(* Rows of their own for the dates the worker has planned and will plan.   *)
PlansFit == PlannedOnce /\ \A e \in stored \ Requested : row[e].date \notin missing

Events == announced \cup unannounced
EventsFit == \A a \in Events : a.execution \in stored
                               /\ (a.kind = "overdue" => row[a.execution].date <= passTime)

(* What has been announced is remembered by the row, and by the copy from  *)
(* which the next announcement will be made, as long as it matters: until  *)
(* the date has come, or until the execution is completed.                 *)
ReadyRemembered ==
  \A a \in Events : a.kind = "ready" =>
    LET e == a.execution
    IN /\ a.days \in row[e].notified \/ row[e].date <= now
       /\ pass = "ready" /\ e \in batch => a.days \in snapshot[e].notified

OverdueRemembered ==
  \A a \in Events : a.kind = "overdue" =>
    LET e == a.execution
    IN /\ a.days <= row[e].overdue \/ row[e].completedBy # "nobody"
       /\ pass = "overdue" /\ e \in batch => a.days <= snapshot[e].overdue

EditsFit == \A x \in Edits : edit[x].stage \in {"read", "checked"} => edit[x].kind # "none"

IInv == /\ TypeOK /\ EditsFit /\ BatchFits /\ CompletionsFit /\ PlansFit /\ EventsFit
        /\ ReadyRemembered /\ OverdueRemembered /\ ReadyAnnouncedOnce /\ OverdueGrows

-------------------------------------------------------------------------------
LEMMA DatesAreNat == Dates \subseteq Nat
<1>1. \A k \in 0..MaxTime : k * Every \in Nat
  BY MaintenanceAssumption
<1>2. QED BY <1>1, MaintenanceAssumption DEF Dates

LEMMA DaysAreNat ==
  ASSUME NEW d \in Nat, NEW t \in Nat
  PROVE  /\ d >= t => DaysUntil(d, t) \in Nat
         /\ OverdueDays(d, t) \in Nat
         /\ OverdueDays(d, t) > 0 => d < t
<1>1. \A n \in Nat : n \div DayLength \in Nat
  BY MaintenanceAssumption
<1>2. d >= t => d - t \in Nat
  OBVIOUS
<1>3. t > d => t - d \in Nat
  OBVIOUS
<1>4. QED BY <1>1, <1>2, <1>3 DEF DaysUntil, OverdueDays

LEMMA NewIsRow == ASSUME NEW d \in Nat PROVE NewExecution(d) \in Row
BY DEF NewExecution, Row

(* A step that leaves the executions and the worker alone.                 *)
LEMMA ElsewhereStep ==
  ASSUME IInv, TypeOK', EditsFit', now' >= now,
         UNCHANGED <<stored, row, pass, missing, announceVars, completionVars>>
  PROVE  IInv'
<1> USE DEF IInv, announceVars, completionVars
<1>1. now \in Nat /\ now' \in Nat /\ passTime \in Nat /\ row \in [Executions -> Row]
      /\ stored \subseteq Executions
      /\ completion \in [Completions -> [stage : {"idle", "checked", "loaded", "done"},
                                         execution : Executions, copy : Row]]
  BY DEF TypeOK
<1>2. BatchFits'
  BY <1>1 DEF BatchFits, TypeOK, Row
<1>3. CompletionsFit'
  BY <1>1 DEF CompletionsFit, Row
<1>4. PlansFit' /\ ReadyAnnouncedOnce' /\ OverdueGrows'
  BY DEF PlansFit, PlannedOnce, ReadyAnnouncedOnce, OverdueGrows
<1>5. EventsFit' /\ OverdueRemembered'
  BY DEF EventsFit, OverdueRemembered, Events
<1>6. ReadyRemembered'
  <2>1. \A a \in Events : row[a.execution].date \in Nat
    BY <1>1 DEF EventsFit, Row
  <2>2. QED BY <1>1, <2>1 DEF ReadyRemembered, Events
<1>7. QED BY <1>2, <1>3, <1>4, <1>5, <1>6

-------------------------------------------------------------------------------
(* The activity, the clock and the plans                                   *)

LEMMA TimeStep == ASSUME IInv, TimePasses PROVE IInv'
<1>1. TypeOK' /\ EditsFit' /\ now' >= now
  BY DEF IInv, TypeOK, EditsFit, TimePasses, activityVars, planVars, announceVars, completionVars, failureVars
<1>2. QED BY <1>1, ElsewhereStep DEF TimePasses, planVars

LEMMA FaultTyped ==
  ASSUME IInv, Fault \/ UNCHANGED failureVars PROVE faults' \in Nat /\ restarts' \in Nat
BY DEF IInv, TypeOK, Fault, failureVars

LEMMA ActivityStep ==
  ASSUME IInv,
         \/ CreateActivity
         \/ \E x \in Edits : \/ \E kind \in {"activate", "deactivate", "delete"} : OpenEdit(x, kind)
                             \/ OpenUpdate(x) \/ ReadAgain(x) \/ SaveEdit(x)
  PROVE  IInv'
<1> DEFINE Edit == [stage : {"idle", "read", "checked", "done"}, copy : Activity,
                    kind : {"none", "activate", "deactivate", "update", "delete"}]
<1> DEFINE kept == <<now, stored, row, pass, planVars, announceVars, completionVars>>
<1>1. activity \in Activity /\ edit \in [Edits -> Edit] /\ NewActivity \in Activity
  BY DEF IInv, TypeOK, Activity, NewActivity
<1>2. UNCHANGED kept /\ (Fault \/ UNCHANGED failureVars)
  BY DEF CreateActivity, OpenEdit, OpenUpdate, ReadAgain, SaveEdit
<1>3. activity' \in Activity /\ edit' \in [Edits -> Edit]
  <2>1. CASE CreateActivity
    BY <1>1, <2>1 DEF CreateActivity
  <2>2. ASSUME NEW x \in Edits, NEW kind \in {"activate", "deactivate", "delete"}, OpenEdit(x, kind)
        PROVE  activity' \in Activity /\ edit' \in [Edits -> Edit]
    BY <1>1, <2>2 DEF OpenEdit
  <2>3. ASSUME NEW x \in Edits, OpenUpdate(x) PROVE activity' \in Activity /\ edit' \in [Edits -> Edit]
    BY <1>1, <2>3 DEF OpenUpdate
  <2>4. ASSUME NEW x \in Edits, ReadAgain(x) PROVE activity' \in Activity /\ edit' \in [Edits -> Edit]
    BY <1>1, <2>4 DEF ReadAgain, Step
  <2>5. ASSUME NEW x \in Edits, SaveEdit(x) PROVE activity' \in Activity /\ edit' \in [Edits -> Edit]
    <3>1. edit' \in [Edits -> Edit]
      BY <1>1, <2>5 DEF SaveEdit, Step
    <3>2. edit[x].copy \in Activity /\ [edit[x].copy EXCEPT !.active = TRUE] \in Activity
          /\ [edit[x].copy EXCEPT !.active = FALSE] \in Activity
          /\ [edit[x].copy EXCEPT !.active = FALSE, !.deleted = TRUE] \in Activity
      BY <1>1 DEF Activity
    <3>3. activity' \in Activity
      <4>1. edit[x].kind \in {"activate", "deactivate", "update", "delete"}
        BY <1>1, <2>5 DEF SaveEdit, IInv, EditsFit
      <4>2. QED BY <1>1, <2>5, <3>2, <4>1 DEF SaveEdit
    <3>4. QED BY <3>1, <3>3
  <2>6. QED BY <2>1, <2>2, <2>3, <2>4, <2>5
<1>4. TypeOK'
  BY <1>2, <1>3, FaultTyped DEF IInv, TypeOK, planVars, announceVars, completionVars
<1>5. now' >= now
  BY <1>2 DEF IInv, TypeOK
<1>6. EditsFit'
  <2>1. CASE UNCHANGED edit
    BY <2>1 DEF IInv, EditsFit
  <2>2. ASSUME NEW x \in Edits, NEW kind \in {"activate", "deactivate", "delete"}, OpenEdit(x, kind)
        PROVE  EditsFit'
    BY <1>1, <2>2 DEF IInv, EditsFit, OpenEdit
  <2>3. ASSUME NEW x \in Edits, OpenUpdate(x) PROVE EditsFit'
    BY <1>1, <2>3 DEF IInv, EditsFit, OpenUpdate
  <2>4. ASSUME NEW x \in Edits, ReadAgain(x) PROVE EditsFit'
    BY <1>1, <2>4 DEF IInv, EditsFit, ReadAgain, Step
  <2>5. ASSUME NEW x \in Edits, SaveEdit(x) PROVE EditsFit'
    BY <1>1, <2>5 DEF IInv, EditsFit, SaveEdit, Step
  <2>6. QED BY <2>1, <2>2, <2>3, <2>4, <2>5 DEF CreateActivity
<1>7. QED BY <1>2, <1>4, <1>5, <1>6, ElsewhereStep DEF planVars

LEMMA ScheduleStep == ASSUME IInv, ScheduleExecutions PROVE IInv'
<1> USE DEF IInv, ScheduleExecutions, activityVars, announceVars, completionVars
<1>1. NextDates \subseteq Nat
  BY DatesAreNat DEF NextDates
<1>2. TypeOK'
  BY <1>1, FaultTyped DEF TypeOK
<1>3. batch = {}
  BY DEF BatchFits
<1>4. (EditsFit /\ BatchFits /\ CompletionsFit /\ PlansFit /\ EventsFit /\ ReadyRemembered /\ OverdueRemembered
       /\ ReadyAnnouncedOnce /\ OverdueGrows)'
  BY <1>3 DEF EditsFit, BatchFits, CompletionsFit, PlansFit, PlannedOnce, EventsFit, ReadyRemembered,
              OverdueRemembered, ReadyAnnouncedOnce, OverdueGrows, Events
<1>5. QED BY <1>2, <1>4

LEMMA ExistsStep == ASSUME IInv, NEW d \in Dates, ExecutionExists(d) PROVE IInv'
<1> USE DEF IInv, ExecutionExists, activityVars, announceVars, completionVars
<1>1. TypeOK'
  BY DatesAreNat, FaultTyped DEF TypeOK
<1>2. PlansFit'
  BY DEF PlansFit, PlannedOnce
<1>3. (EditsFit /\ BatchFits /\ CompletionsFit /\ EventsFit /\ ReadyRemembered /\ OverdueRemembered
       /\ ReadyAnnouncedOnce /\ OverdueGrows)'
  BY DEF EditsFit, BatchFits, CompletionsFit, EventsFit, ReadyRemembered,
         OverdueRemembered, ReadyAnnouncedOnce, OverdueGrows, Events
<1>4. QED BY <1>1, <1>2, <1>3

(* A new row is one nobody knows of.                                       *)
LEMMA NewRowStep ==
  ASSUME IInv, NEW e \in Executions \ stored, NEW d \in Nat,
         stored' = stored \cup {e}, row' = [row EXCEPT ![e] = NewExecution(d)],
         UNCHANGED <<now, activityVars, pass, announceVars, completionVars>>,
         missing' \subseteq missing, dates' = dates,
         e \notin Requested => d \in missing /\ missing' = {},
         Fault \/ UNCHANGED failureVars
  PROVE  IInv'
<1> USE DEF IInv, activityVars, announceVars, completionVars
<1>1. row' \in [Executions -> Row] /\ \A f \in Executions \ {e} : row'[f] = row[f]
      /\ row'[e] = NewExecution(d) /\ row'[e].date = d
  BY NewIsRow DEF TypeOK, NewExecution
<1>2. TypeOK'
  BY <1>1, FaultTyped DEF TypeOK
<1>3. \A f \in stored : f \in Executions /\ row'[f] = row[f]
  BY <1>1 DEF TypeOK
<1>4. batch \subseteq stored
  BY DEF TypeOK
<1>5. (EditsFit /\ BatchFits /\ CompletionsFit /\ EventsFit /\ ReadyAnnouncedOnce /\ OverdueGrows)'
  BY <1>3, <1>4 DEF EditsFit, BatchFits, CompletionsFit, EventsFit, ReadyAnnouncedOnce, OverdueGrows, Events
<1>6. ReadyRemembered' /\ OverdueRemembered'
  BY <1>3 DEF EventsFit, ReadyRemembered, OverdueRemembered, Events
<1>7. PlansFit'
  BY <1>1, <1>3 DEF PlansFit, PlannedOnce
<1>8. QED BY <1>2, <1>5, <1>6, <1>7

LEMMA CreateStep == ASSUME IInv, NEW e \in Executions, CreateExecution(e) PROVE IInv'
<1>1. CASE UNCHANGED <<stored, row>> /\ Fault
  <2>1. UNCHANGED <<now, activityVars, pass, dates, announceVars, completionVars>> /\ missing' = {}
    BY DEF CreateExecution
  <2>2. TypeOK' /\ PlansFit'
    BY <1>1, <2>1, FaultTyped
       DEF IInv, TypeOK, PlansFit, PlannedOnce, activityVars, announceVars, completionVars
  <2>3. (EditsFit /\ BatchFits /\ CompletionsFit /\ EventsFit /\ ReadyRemembered /\ OverdueRemembered
         /\ ReadyAnnouncedOnce /\ OverdueGrows)'
    BY <1>1, <2>1
       DEF IInv, EditsFit, BatchFits, CompletionsFit, EventsFit, ReadyRemembered,
           OverdueRemembered, ReadyAnnouncedOnce, OverdueGrows, Events, activityVars, announceVars,
           completionVars
  <2>4. QED BY <2>2, <2>3 DEF IInv
<1>2. CASE e \notin stored \cup Requested
  <2> DEFINE d == CHOOSE b \in missing : TRUE
  <2>1. d \in missing /\ d \in Nat
    BY DEF CreateExecution, IInv, TypeOK
  <2>2. CASE /\ stored' = stored \cup {e}
             /\ row' = [row EXCEPT ![e] = NewExecution(d)]
             /\ UNCHANGED failureVars
    <3>1. /\ UNCHANGED <<now, activityVars, pass, announceVars, completionVars>>
          /\ missing' = {} /\ dates' = dates
      BY DEF CreateExecution
    <3> HIDE DEF d
    <3>2. QED BY <1>2, <2>1, <2>2, <3>1, NewRowStep
  <2>3. QED BY <1>1, <2>2 DEF CreateExecution
<1>3. QED BY <1>1, <1>2 DEF CreateExecution

LEMMA RequestedStep ==
  ASSUME IInv, NEW e \in Executions, NEW d \in Dates, CreateByRequest(e, d) PROVE IInv'
<1>1. d \in Nat
  BY DatesAreNat
<1>2. /\ e \in Requested \ stored /\ stored' = stored \cup {e}
      /\ row' = [row EXCEPT ![e] = NewExecution(d)]
      /\ UNCHANGED <<now, activityVars, pass, announceVars, completionVars>>
      /\ missing' = missing /\ dates' = dates /\ UNCHANGED failureVars
  BY DEF CreateByRequest, planVars
<1>3. QED BY <1>1, <1>2, NewRowStep

-------------------------------------------------------------------------------
(* Announcements                                                           *)

LEMMA CheckReadyStep == ASSUME IInv, CheckReadyForNotification PROVE IInv'
<1> USE DEF IInv, CheckReadyForNotification, activityVars, planVars, completionVars
<1>1. TypeOK'
  BY FaultTyped DEF TypeOK, Open
<1>2. \A e \in Executions : row[e].date \in Nat
  BY DEF TypeOK, Row
<1>3. now \in Nat /\ passTime \in Nat
  BY DEF TypeOK
<1>4. BatchFits'
  BY <1>3 DEF BatchFits, Open
<1>5. (EditsFit /\ CompletionsFit /\ PlansFit /\ ReadyAnnouncedOnce /\ OverdueGrows)'
  BY DEF EditsFit, CompletionsFit, PlansFit, PlannedOnce, ReadyAnnouncedOnce, OverdueGrows
<1>6. EventsFit'
  BY <1>2, <1>3 DEF EventsFit, Events, BatchFits, TypeOK
<1>7. ReadyRemembered'
  <2>1. \A e \in batch' : row[e].date \in Nat /\ row[e].date > now
    BY <1>2
  <2>2. QED BY <1>3, <2>1 DEF ReadyRemembered, Events
<1>8. OverdueRemembered'
  BY DEF OverdueRemembered, Events
<1>9. QED BY <1>1, <1>4, <1>5, <1>6, <1>7, <1>8

LEMMA CheckOverdueStep == ASSUME IInv, CheckOverdueExecutions PROVE IInv'
<1> USE DEF IInv, CheckOverdueExecutions, activityVars, planVars, completionVars
<1>1. TypeOK'
  BY FaultTyped DEF TypeOK, Open
<1>2. BatchFits'
  BY DEF BatchFits, Open
<1>3. (EditsFit /\ CompletionsFit /\ PlansFit /\ EventsFit /\ ReadyAnnouncedOnce /\ OverdueGrows
       /\ ReadyRemembered)'
  BY DEF EditsFit, CompletionsFit, PlansFit, PlannedOnce, EventsFit, ReadyAnnouncedOnce, OverdueGrows,
         ReadyRemembered, Events
<1>4. OverdueRemembered'
  BY DEF OverdueRemembered, Events, Open
<1>5. QED BY <1>1, <1>2, <1>3, <1>4

LEMMA PublishStep == ASSUME IInv, PublishExecutionCountEvent PROVE IInv'
<1> USE DEF IInv, PublishExecutionCountEvent, activityVars, planVars, completionVars, failureVars
<1>1. TypeOK'
  BY DEF TypeOK
<1>2. Events' = Events
  BY DEF Events
<1>3. (EventsFit /\ ReadyRemembered /\ OverdueRemembered)'
  BY <1>2 DEF EventsFit, ReadyRemembered, OverdueRemembered
<1>4. (EditsFit /\ BatchFits /\ CompletionsFit /\ PlansFit /\ ReadyAnnouncedOnce /\ OverdueGrows)'
  BY DEF EditsFit, BatchFits, CompletionsFit, PlansFit, PlannedOnce, ReadyAnnouncedOnce, OverdueGrows
<1>5. QED BY <1>1, <1>3, <1>4

(* The worker has done with execution e and has announced nothing.         *)
LEMMA LeaveStep ==
  ASSUME IInv, NEW e \in batch, batch' = batch \ {e}, unannounced = {},
         UNCHANGED <<now, activityVars, stored, pass, planVars, passTime, snapshot, announced,
                     completionVars>>,
         UNCHANGED <<row, unannounced>>, Fault \/ UNCHANGED failureVars
  PROVE  IInv'
<1> USE DEF IInv, activityVars, planVars, completionVars
<1>1. TypeOK'
  BY FaultTyped DEF TypeOK
<1>2. (EditsFit /\ BatchFits /\ CompletionsFit /\ PlansFit /\ EventsFit /\ ReadyRemembered
       /\ OverdueRemembered /\ ReadyAnnouncedOnce /\ OverdueGrows)'
  BY DEF EditsFit, BatchFits, CompletionsFit, PlansFit, PlannedOnce, EventsFit, ReadyRemembered,
         OverdueRemembered, ReadyAnnouncedOnce, OverdueGrows, Events
<1>3. QED BY <1>1, <1>2

(* What writing the worker's copy leaves as it was, whatever it announces. *)
LEMMA WriteStep ==
  ASSUME IInv, NEW e \in batch, NEW changed \in Row, NEW a \in Announcements,
         batch' = batch \ {e}, row' = [row EXCEPT ![e] = changed],
         unannounced = {}, unannounced' = {a}, a.execution = e,
         changed.date = snapshot[e].date, changed.completedBy = snapshot[e].completedBy,
         UNCHANGED <<now, activityVars, stored, pass, planVars, passTime, snapshot, announced,
                     completionVars, failureVars>>
  PROVE  /\ (TypeOK /\ EditsFit /\ BatchFits /\ CompletionsFit /\ PlansFit)'
         /\ row'[e] = changed /\ row'[e].date = row[e].date
         /\ \A f \in Executions : f = e \/ row'[f] = row[f]
         /\ e \in stored /\ Events' = Events \cup {a} /\ Events = announced
<1> USE DEF IInv, activityVars, planVars, completionVars, failureVars
<1>1. /\ e \in Executions /\ e \in stored /\ row' \in [Executions -> Row]
      /\ row'[e] = changed /\ \A f \in Executions : f = e \/ row'[f] = row[f]
  BY DEF TypeOK
<1>2. changed.date = row[e].date /\ changed.completedBy = "nobody"
  BY DEF BatchFits
<1>3. \A f \in Executions : row'[f].date = row[f].date
  BY <1>1, <1>2
<1>4. TypeOK'
  BY <1>1 DEF TypeOK
<1>5. EditsFit' /\ PlansFit'
  BY <1>3 DEF EditsFit, PlansFit, PlannedOnce, TypeOK
<1>6. BatchFits'
  BY <1>3 DEF BatchFits, TypeOK
<1>7. CompletionsFit'
  BY <1>1, <1>2, <1>3 DEF CompletionsFit, TypeOK
<1>8. Events' = Events \cup {a} /\ Events = announced
  BY DEF Events
<1>9. QED BY <1>1, <1>2, <1>4, <1>5, <1>6, <1>7, <1>8

LEMMA NotifyReadyStep == ASSUME IInv, NEW e \in Executions, NotifyReady(e) PROVE IInv'
<1> DEFINE s == snapshot[e]
<1> DEFINE days == DaysUntil(s.date, passTime)
<1> DEFINE a == [execution |-> e, kind |-> "ready", days |-> days]
<1> DEFINE changed == [s EXCEPT !.notified = @ \cup {days}]
<1>1. /\ pass = "ready" /\ unannounced = {} /\ e \in batch /\ batch' = batch \ {e}
      /\ UNCHANGED <<now, activityVars, stored, pass, planVars, passTime, snapshot, announced,
                     completionVars>>
  BY DEF NotifyReady
<1>2. CASE UNCHANGED <<row, unannounced>> /\ (Fault \/ UNCHANGED failureVars)
  BY <1>1, <1>2, LeaveStep
<1>3. CASE /\ days \notin s.notified
           /\ row' = [row EXCEPT ![e] = changed] /\ unannounced' = {a} /\ UNCHANGED failureVars
  <2>1. s \in Row /\ s.date \in Nat /\ s.date > passTime /\ passTime \in Nat /\ s.date = row[e].date
    BY <1>1 DEF IInv, TypeOK, BatchFits, Row
  <2>2. days \in Nat
    <3>1. s.date >= passTime
      BY <2>1
    <3>2. QED BY <2>1, <3>1, DaysAreNat
  <2>3. a \in Announcements
    BY <2>2 DEF Announcements
  <2>4. /\ changed \in Row /\ changed.date = s.date /\ changed.completedBy = s.completedBy
        /\ changed.notified = s.notified \cup {days}
    BY <2>1, <2>2 DEF Row
  <2>5. a.execution = e /\ a.kind = "ready" /\ a.days = days
    OBVIOUS
  <2> HIDE DEF a, changed
  <2>6. /\ (TypeOK /\ EditsFit /\ BatchFits /\ CompletionsFit /\ PlansFit)'
        /\ row'[e] = changed /\ row'[e].date = row[e].date
        /\ \A f \in Executions : f = e \/ row'[f] = row[f]
        /\ e \in stored /\ Events' = Events \cup {a} /\ Events = announced
    BY <1>1, <1>3, <2>3, <2>4, <2>5, WriteStep
  <2>7. \A b \in Events : b.kind = "ready" /\ b.execution = e => b.days \in s.notified
    BY <1>1 DEF IInv, ReadyRemembered
  <2>8. \A b \in Events : b.kind = "overdue" => b.execution # e
    BY <1>1, <2>1 DEF IInv, EventsFit
  <2>9. \A b \in Events : b.execution \in Executions
    BY DEF Events, IInv, TypeOK, Announcements
  <2>10. EventsFit'
    BY <1>1, <2>5, <2>6, <2>9 DEF IInv, EventsFit
  <2>11. ReadyRemembered'
    BY <1>1, <2>4, <2>5, <2>6, <2>7, <2>9 DEF IInv, ReadyRemembered
  <2>12. OverdueRemembered'
    BY <1>1, <2>5, <2>6, <2>8, <2>9 DEF IInv, OverdueRemembered
  <2>13. ReadyAnnouncedOnce' /\ OverdueGrows'
    BY <1>1, <1>3, <2>5, <2>6, <2>7 DEF ReadyAnnouncedOnce, OverdueGrows
  <2>14. QED BY <2>6, <2>10, <2>11, <2>12, <2>13 DEF IInv
<1>4. QED BY <1>2, <1>3 DEF NotifyReady, Announcing

LEMMA NotifyOverdueStep == ASSUME IInv, NEW e \in Executions, NotifyOverdue(e) PROVE IInv'
<1> DEFINE s == snapshot[e]
<1> DEFINE days == OverdueDays(s.date, passTime)
<1> DEFINE a == [execution |-> e, kind |-> "overdue", days |-> days]
<1> DEFINE changed == [s EXCEPT !.overdue = days]
<1>1. /\ pass = "overdue" /\ unannounced = {} /\ e \in batch /\ batch' = batch \ {e}
      /\ UNCHANGED <<now, activityVars, stored, pass, planVars, passTime, snapshot, announced,
                     completionVars>>
  BY DEF NotifyOverdue
<1>2. CASE UNCHANGED <<row, unannounced>> /\ (Fault \/ UNCHANGED failureVars)
  BY <1>1, <1>2, LeaveStep
<1>3. CASE /\ ~(days <= s.overdue)
           /\ row' = [row EXCEPT ![e] = changed] /\ unannounced' = {a} /\ UNCHANGED failureVars
  <2>1. /\ s \in Row /\ s.date \in Nat /\ passTime \in Nat /\ now \in Nat /\ s.overdue \in Nat
        /\ s.date = row[e].date /\ row[e].date < now
    BY <1>1 DEF IInv, TypeOK, BatchFits, Row
  <2>2. days \in Nat /\ days > s.overdue
    BY <1>3, <2>1, DaysAreNat
  <2>3. a \in Announcements
    BY <2>2 DEF Announcements
  <2>4. s.date <= passTime
    BY <2>1, <2>2, DaysAreNat
  <2>5. /\ changed \in Row /\ changed.date = s.date /\ changed.completedBy = s.completedBy
        /\ changed.overdue = days
    BY <2>1, <2>2 DEF Row
  <2>6. a.execution = e /\ a.kind = "overdue" /\ a.days = days
    OBVIOUS
  <2> HIDE DEF a, changed, days
  <2>7. /\ (TypeOK /\ EditsFit /\ BatchFits /\ CompletionsFit /\ PlansFit)'
        /\ row'[e] = changed /\ row'[e].date = row[e].date
        /\ \A f \in Executions : f = e \/ row'[f] = row[f]
        /\ e \in stored /\ Events' = Events \cup {a} /\ Events = announced
    BY <1>1, <1>3, <2>3, <2>5, <2>6, WriteStep
  <2>8. \A b \in Events : b.kind = "overdue" /\ b.execution = e => b.days <= s.overdue /\ b.days \in Nat
    BY <1>1 DEF IInv, OverdueRemembered, TypeOK, Events, Announcements
  <2>9. \A b \in Events : b.execution \in Executions
    BY DEF Events, IInv, TypeOK, Announcements
  <2>10. EventsFit'
    BY <1>1, <2>1, <2>4, <2>6, <2>7, <2>9 DEF IInv, EventsFit
  <2>11. ReadyRemembered'
    BY <1>1, <2>1, <2>6, <2>7, <2>9 DEF IInv, ReadyRemembered
  <2>12. \A b \in Events : b.kind = "overdue" /\ b.execution = e => b.days < days
    BY <2>1, <2>2, <2>8
  <2>13. OverdueRemembered'
    <3>1. \A b \in Events' : b.kind = "overdue" /\ b.execution = e => b.days <= row'[e].overdue
      BY <2>2, <2>5, <2>6, <2>7, <2>8, <2>12
    <3>2. QED BY <1>1, <2>6, <2>7, <2>9, <3>1 DEF IInv, OverdueRemembered
  <2>14. ReadyAnnouncedOnce' /\ OverdueGrows'
    BY <1>1, <1>3, <2>6, <2>7, <2>12 DEF ReadyAnnouncedOnce, OverdueGrows
  <2>15. QED BY <2>7, <2>10, <2>11, <2>13, <2>14 DEF IInv
<1>4. QED BY <1>2, <1>3 DEF NotifyOverdue, Announcing

LEMMA EndPassStep == ASSUME IInv, EndPass PROVE IInv'
<1> USE DEF IInv, EndPass, activityVars, planVars, announceVars, completionVars, failureVars
<1>1. TypeOK'
  BY DEF TypeOK
<1>2. (EditsFit /\ BatchFits /\ CompletionsFit /\ PlansFit /\ EventsFit /\ ReadyRemembered
       /\ OverdueRemembered /\ ReadyAnnouncedOnce /\ OverdueGrows)'
  BY DEF EditsFit, BatchFits, CompletionsFit, PlansFit, PlannedOnce, EventsFit, ReadyRemembered,
         OverdueRemembered, ReadyAnnouncedOnce, OverdueGrows, Events
<1>3. QED BY <1>1, <1>2

-------------------------------------------------------------------------------
(* Completions                                                             *)

(* A completion moves on with what it has read.                            *)
LEMMA CompletionMoves ==
  ASSUME IInv, NEW m \in Completions,
         UNCHANGED <<now, activityVars, stored, row, pass, planVars, announceVars, overtaken,
                     failureVars>>,
         completion' \in [Completions -> [stage : {"idle", "checked", "loaded", "done"},
                                          execution : Executions, copy : Row]],
         \A n \in Completions \ {m} : completion'[n] = completion[n],
         completion'[m].stage \in {"checked", "loaded"} =>
           LET e == completion'[m].execution
           IN /\ e \in stored /\ row[e].date <= now
              /\ row[e].completedBy \in {"nobody"} \cup overtaken[m]
              /\ completion'[m].stage = "loaded" => completion'[m].copy.date = row[e].date
  PROVE  IInv'
<1> USE DEF IInv, activityVars, planVars, announceVars, failureVars
<1>1. TypeOK'
  BY DEF TypeOK
<1>2. CompletionsFit'
  BY DEF CompletionsFit
<1>3. (EditsFit /\ BatchFits /\ PlansFit /\ EventsFit /\ ReadyRemembered /\ OverdueRemembered
       /\ ReadyAnnouncedOnce /\ OverdueGrows)'
  BY DEF EditsFit, BatchFits, PlansFit, PlannedOnce, EventsFit, ReadyRemembered,
         OverdueRemembered, ReadyAnnouncedOnce, OverdueGrows, Events
<1>4. QED BY <1>1, <1>2, <1>3

LEMMA CheckStep ==
  ASSUME IInv, NEW m \in Completions, NEW e \in Executions, MarkExecutionCompleted(m, e) PROVE IInv'
<1>1. /\ completion' \in [Completions -> [stage : {"idle", "checked", "loaded", "done"},
                                          execution : Executions, copy : Row]]
      /\ completion'[m].stage = "checked" /\ completion'[m].execution = e
      /\ \A n \in Completions \ {m} : completion'[n] = completion[n]
  BY DEF MarkExecutionCompleted, IInv, TypeOK
<1>2. /\ e \in stored /\ row[e].date <= now /\ row[e].completedBy = "nobody"
      /\ UNCHANGED <<now, activityVars, stored, row, pass, planVars, announceVars, overtaken,
                     failureVars>>
  BY DEF MarkExecutionCompleted, Open
<1>3. QED BY <1>1, <1>2, CompletionMoves

LEMMA LoadStep == ASSUME IInv, NEW m \in Completions, LoadToComplete(m) PROVE IInv'
<1> DEFINE e == completion[m].execution
<1>1. e \in stored /\ row[e].date <= now /\ row[e].completedBy \in {"nobody"} \cup overtaken[m]
  BY DEF LoadToComplete, IInv, CompletionsFit
<1>2. row[e] \in Row
  BY DEF IInv, TypeOK
<1>3. /\ completion' \in [Completions -> [stage : {"idle", "checked", "loaded", "done"},
                                          execution : Executions, copy : Row]]
      /\ completion'[m].stage = "loaded" /\ completion'[m].execution = e
      /\ completion'[m].copy = row[e]
      /\ \A n \in Completions \ {m} : completion'[n] = completion[n]
  BY <1>2 DEF LoadToComplete, IInv, TypeOK
<1>4. UNCHANGED <<now, activityVars, stored, row, pass, planVars, announceVars, overtaken,
                  failureVars>>
  BY DEF LoadToComplete
<1>5. QED BY <1>1, <1>3, <1>4, CompletionMoves

LEMMA MarkStep == ASSUME IInv, NEW m \in Completions, MarkCompleted(m) PROVE IInv'
<1> DEFINE e == completion[m].execution
<1> DEFINE changed == [completion[m].copy EXCEPT !.completedBy = m, !.overdue = 0]
<1>1. /\ completion[m].stage = "loaded"
      /\ UNCHANGED <<now, activityVars, stored, pass, planVars, announceVars>>
  BY DEF MarkCompleted
<1>2. /\ completion' \in [Completions -> [stage : {"idle", "checked", "loaded", "done"},
                                          execution : Executions, copy : Row]]
      /\ completion'[m].stage = "done"
      /\ \A n \in Completions \ {m} : completion'[n] = completion[n]
  BY DEF MarkCompleted, IInv, TypeOK
<1>3. e \in stored /\ e \in Executions /\ row[e].date <= now /\ completion[m].copy.date = row[e].date
      /\ completion[m].copy \in Row
  BY <1>1 DEF IInv, TypeOK, CompletionsFit
<1>4. CASE Fault /\ UNCHANGED <<row, overtaken>>
  <2>1. TypeOK'
    BY <1>1, <1>2, <1>4, FaultTyped DEF IInv, TypeOK, activityVars, planVars, announceVars
  <2>2. (EditsFit /\ BatchFits /\ CompletionsFit /\ PlansFit /\ EventsFit /\ ReadyRemembered
         /\ OverdueRemembered /\ ReadyAnnouncedOnce /\ OverdueGrows)'
    BY <1>1, <1>2, <1>4
       DEF IInv, EditsFit, BatchFits, CompletionsFit, PlansFit, PlannedOnce, EventsFit,
           ReadyRemembered, OverdueRemembered, ReadyAnnouncedOnce, OverdueGrows, Events,
           activityVars, planVars, announceVars
  <2>3. QED BY <2>1, <2>2 DEF IInv
<1>5. CASE /\ row' = [row EXCEPT ![e] = changed]
           /\ overtaken' = [n \in Completions |->
                              IF completion[n].stage \in {"checked", "loaded"}
                              THEN overtaken[n] \cup {m} ELSE overtaken[n]]
           /\ UNCHANGED failureVars
  <2>1. /\ changed \in Row /\ changed.date = row[e].date /\ changed.completedBy = m
        /\ m # "nobody"
    BY <1>3, MaintenanceAssumption DEF Row
  <2> HIDE DEF changed
  <2>2. /\ row' \in [Executions -> Row] /\ row'[e] = changed
        /\ \A f \in Executions : f = e \/ row'[f] = row[f]
        /\ \A f \in Executions : row'[f].date = row[f].date
    BY <1>3, <1>5, <2>1 DEF IInv, TypeOK
  <2>3. \A n \in Completions : /\ overtaken'[n] \in SUBSET Completions
                               /\ overtaken[n] \subseteq overtaken'[n]
                               /\ completion[n].stage \in {"checked", "loaded"} => m \in overtaken'[n]
    BY <1>5 DEF IInv, TypeOK
  <2>4. TypeOK'
    <3>1. overtaken' \in [Completions -> SUBSET Completions]
      BY <1>5, <2>3
    <3>2. faults' = faults /\ restarts' = restarts
      BY <1>5 DEF failureVars
    <3>3. QED
      BY <1>1, <1>2, <2>2, <3>1, <3>2 DEF IInv, TypeOK, activityVars, planVars, announceVars
  <2>5. EditsFit' /\ PlansFit' /\ ReadyAnnouncedOnce' /\ OverdueGrows'
    BY <1>1, <2>2 DEF IInv, TypeOK, EditsFit, PlansFit, PlannedOnce, ReadyAnnouncedOnce, OverdueGrows,
                      activityVars, planVars, announceVars
  <2>6. BatchFits'
    BY <1>1, <2>2 DEF IInv, TypeOK, BatchFits, announceVars
  <2>7. CompletionsFit'
    <3>1. SUFFICES ASSUME NEW n \in Completions, completion'[n].stage \in {"checked", "loaded"}
                   PROVE  LET f == completion'[n].execution
                          IN /\ f \in stored /\ row'[f].date <= now
                             /\ row'[f].completedBy \in {"nobody"} \cup overtaken'[n]
                             /\ completion'[n].stage = "loaded" => completion'[n].copy.date = row'[f].date
      BY <1>1 DEF CompletionsFit
    <3> DEFINE f == completion[n].execution
    <3>2. completion'[n] = completion[n] /\ f \in Executions
      BY <1>2, <3>1 DEF IInv, TypeOK
    <3>3. /\ f \in stored /\ row[f].date <= now
          /\ row[f].completedBy \in {"nobody"} \cup overtaken[n]
          /\ completion[n].stage = "loaded" => completion[n].copy.date = row[f].date
      BY <3>1, <3>2 DEF IInv, CompletionsFit
    <3>4. row'[f].completedBy \in {"nobody"} \cup overtaken'[n]
      BY <2>1, <2>2, <2>3, <3>1, <3>2, <3>3
    <3>5. QED BY <2>2, <3>2, <3>3, <3>4
  <2>8. \A b \in Events : b.execution \in Executions
    BY DEF Events, IInv, TypeOK, Announcements
  <2>9. Events' = Events
    BY <1>1 DEF Events, announceVars
  <2>10. EventsFit' /\ ReadyRemembered' /\ OverdueRemembered'
    BY <1>1, <1>3, <2>1, <2>2, <2>8, <2>9
       DEF IInv, EventsFit, ReadyRemembered, OverdueRemembered, announceVars
  <2>11. QED BY <2>4, <2>5, <2>6, <2>7, <2>10 DEF IInv
<1>6. QED BY <1>4, <1>5 DEF MarkCompleted

LEMMA RestartStep == ASSUME IInv, Restart PROVE IInv'
<1> USE DEF IInv, Restart
<1>1. \A m \in Completions : completion'[m] = completion[m] \/ completion'[m].stage = "done"
  BY DEF TypeOK
<1>2. \A x \in Edits : edit'[x] = edit[x] \/ edit'[x].stage = "done"
  BY DEF TypeOK
<1>3. TypeOK'
  <2>1. completion' \in [Completions -> [stage : {"idle", "checked", "loaded", "done"},
                                         execution : Executions, copy : Row]]
    BY DEF TypeOK
  <2>2. edit' \in [Edits -> [stage : {"idle", "read", "checked", "done"}, copy : Activity,
                             kind : {"none", "activate", "deactivate", "update", "delete"}]]
    BY DEF TypeOK
  <2>3. QED BY <2>1, <2>2 DEF TypeOK
<1>4. Events' \subseteq Events
  BY DEF Events
<1>5. EventsFit' /\ ReadyRemembered' /\ OverdueRemembered'
  BY <1>4 DEF EventsFit, ReadyRemembered, OverdueRemembered
<1>6. EditsFit' /\ CompletionsFit'
  BY <1>1, <1>2 DEF EditsFit, CompletionsFit
<1>7. (BatchFits /\ PlansFit /\ ReadyAnnouncedOnce /\ OverdueGrows)'
  BY DEF BatchFits, PlansFit, PlannedOnce, ReadyAnnouncedOnce, OverdueGrows
<1>8. QED BY <1>3, <1>5, <1>6, <1>7

-------------------------------------------------------------------------------
LEMMA InitStep == Init => IInv
<1> SUFFICES ASSUME Init PROVE IInv
  OBVIOUS
<1> USE DEF Init
<1>1. NewExecution(StartDate) \in Row
  BY NewIsRow, MaintenanceAssumption
<1>2. (CHOOSE e \in Executions : TRUE) \in Executions
  BY MaintenanceAssumption
<1>3. /\ \A m \in Completions : completion[m].stage = "idle"
      /\ \A x \in Edits : edit[x].stage = "idle"
  BY DEF NoCompletion, Idle
<1>4. TypeOK
  <2>1. activity \in Activity /\ NoActivity \in Activity
    <3>1. NewActivity \in Activity /\ NoActivity \in Activity
      BY DEF Activity, NewActivity, NoActivity
    <3>2. QED BY <3>1
  <2>2. completion \in [Completions -> [stage : {"idle", "checked", "loaded", "done"},
                                        execution : Executions, copy : Row]]
    BY <1>1, <1>2 DEF NoCompletion
  <2>3. edit \in [Edits -> [stage : {"idle", "read", "checked", "done"}, copy : Activity,
                            kind : {"none", "activate", "deactivate", "update", "delete"}]]
    BY <2>1 DEF Idle
  <2>4. row \in [Executions -> Row] /\ snapshot \in [Executions -> Row]
    BY <1>1
  <2>5. QED BY <2>1, <2>2, <2>3, <2>4 DEF TypeOK
<1>5. EditsFit /\ CompletionsFit
  BY <1>3 DEF EditsFit, CompletionsFit
<1>6. BatchFits /\ PlansFit /\ ReadyAnnouncedOnce /\ OverdueGrows
  BY DEF BatchFits, PlansFit, PlannedOnce, ReadyAnnouncedOnce, OverdueGrows
<1>7. EventsFit /\ ReadyRemembered /\ OverdueRemembered
  BY DEF EventsFit, ReadyRemembered, OverdueRemembered, Events
<1>8. QED BY <1>4, <1>5, <1>6, <1>7 DEF IInv

LEMMA NextStep == IInv /\ [Next]_vars => IInv'
<1> SUFFICES ASSUME IInv, [Next]_vars PROVE IInv'
  OBVIOUS
<1>1. CASE \/ ScheduleExecutions \/ CheckReadyForNotification \/ CheckOverdueExecutions
           \/ PublishExecutionCountEvent \/ EndPass
  BY <1>1, ScheduleStep, CheckReadyStep, CheckOverdueStep, PublishStep, EndPassStep
<1>2. ASSUME NEW d \in Dates, ExecutionExists(d) PROVE IInv'
  BY <1>2, ExistsStep
<1>3. ASSUME NEW e \in Executions, CreateExecution(e) \/ NotifyReady(e) \/ NotifyOverdue(e)
      PROVE  IInv'
  BY <1>3, CreateStep, NotifyReadyStep, NotifyOverdueStep
<1>4. ASSUME NEW e \in Executions, NEW d \in Dates, CreateByRequest(e, d) PROVE IInv'
  BY <1>4, RequestedStep
<1>5. ASSUME NEW m \in Completions, NEW e \in Executions, MarkExecutionCompleted(m, e) PROVE IInv'
  BY <1>5, CheckStep
<1>6. ASSUME NEW m \in Completions, LoadToComplete(m) \/ MarkCompleted(m) PROVE IInv'
  BY <1>6, LoadStep, MarkStep
<1>7. CASE \/ CreateActivity
           \/ \E x \in Edits :
                \/ \E kind \in {"activate", "deactivate", "delete"} : OpenEdit(x, kind)
                \/ OpenUpdate(x) \/ ReadAgain(x) \/ SaveEdit(x)
  BY <1>7, ActivityStep
<1>8. CASE TimePasses \/ Restart
  BY <1>8, TimeStep, RestartStep
<1>9. CASE UNCHANGED vars
  <2>1. TypeOK' /\ EditsFit' /\ now' >= now
    BY <1>9 DEF vars, activityVars, planVars, announceVars, completionVars, failureVars, IInv,
                TypeOK, EditsFit
  <2>2. QED BY <1>9, <2>1, ElsewhereStep DEF vars, planVars
<1>10. QED
  BY <1>1, <1>2, <1>3, <1>4, <1>5, <1>6, <1>7, <1>8, <1>9 DEF Next, WorkerStep

LEMMA Invariance == Spec => []IInv
<1>1. QED BY InitStep, NextStep, PTL DEF Spec

(* The rows, the worker's plans and copies, and the requests stay well     *)
(* typed: days are counted as natural numbers, whatever the clock and the  *)
(* schedule are.                                                           *)
THEOREM MaintenanceTypeCorrect == Spec => []TypeOK
<1>1. IInv => TypeOK
  BY DEF IInv
<1>2. QED BY <1>1, Invariance, PTL

(* The worker creates at most one execution for a date.                    *)
THEOREM DatesArePlannedOnce == Spec => []PlannedOnce
<1>1. IInv => PlannedOnce
  BY DEF IInv, PlansFit
<1>2. QED BY <1>1, Invariance, PTL

(* No execution is announced twice for the same number of days ahead.      *)
THEOREM ReadyIsNews == Spec => []ReadyAnnouncedOnce
<1>1. IInv => ReadyAnnouncedOnce
  BY DEF IInv
<1>2. QED BY <1>1, Invariance, PTL

(* Each overdue announcement counts more days than those before it.        *)
THEOREM OverdueIsNews == Spec => []OverdueGrows
<1>1. IInv => OverdueGrows
  BY DEF IInv
<1>2. QED BY <1>1, Invariance, PTL

(* A completion is lost only to one that overlaps it, or to the worker     *)
(* that announces what it has read before.                                 *)
THEOREM CompletionsAreKept == Spec => CompletionLostOnlyByOverlap
<1> DEFINE Kept == \A e \in stored :
       LET old == row[e].completedBy
           new == row'[e].completedBy
       IN old \notin {"nobody", new} => IF new = "nobody"
                                        THEN e \in batch /\ snapshot[e].completedBy = "nobody"
                                        ELSE old \in overtaken[new]
<1>1. ASSUME IInv, Next PROVE Kept
  <2> USE DEF IInv
  <2>1. row \in [Executions -> Row] /\ stored \subseteq Executions /\ batch \subseteq stored
        /\ snapshot \in [Executions -> Row]
    BY <1>1 DEF TypeOK
  <2>2. CASE UNCHANGED row
    BY <2>2
  <2>3. ASSUME NEW e \in Executions, NEW r, row' = [row EXCEPT ![e] = r], e \notin stored
        PROVE  Kept
    BY <2>1, <2>3
  <2>4. ASSUME NEW e \in batch, NEW changed, row' = [row EXCEPT ![e] = changed],
               changed.completedBy = snapshot[e].completedBy
        PROVE  Kept
    BY <1>1, <2>1, <2>4 DEF BatchFits
  <2>5. ASSUME NEW e \in Executions, NotifyReady(e) \/ NotifyOverdue(e) PROVE Kept
    <3>1. \A n \in Nat : [snapshot[e] EXCEPT !.overdue = n].completedBy = snapshot[e].completedBy
      BY <2>1 DEF Row
    <3>2. QED BY <2>1, <2>2, <2>4, <2>5 DEF NotifyReady, NotifyOverdue, Announcing, Row
  <2>6. ASSUME NEW m \in Completions, MarkCompleted(m) PROVE Kept
    <3> DEFINE e == completion[m].execution
    <3>1. /\ completion[m].copy \in Row
          /\ e \in stored /\ row[e].completedBy \in {"nobody"} \cup overtaken[m]
      BY <1>1, <2>6 DEF MarkCompleted, CompletionsFit, TypeOK
    <3>2. CASE UNCHANGED row
      BY <3>2
    <3>3. CASE /\ row' = [row EXCEPT ![e] = [completion[m].copy EXCEPT !.completedBy = m, !.overdue = 0]]
               /\ overtaken' = [n \in Completions |->
                                  IF completion[n].stage \in {"checked", "loaded"}
                                  THEN overtaken[n] \cup {m} ELSE overtaken[n]]
      <4>1. row'[e].completedBy = m /\ \A f \in Executions \ {e} : row'[f] = row[f]
        BY <2>1, <3>1, <3>3 DEF Row
      <4>2. m # "nobody"
        BY MaintenanceAssumption
      <4>3. QED BY <2>1, <3>1, <4>1, <4>2
    <3>4. QED BY <2>6, <3>2, <3>3 DEF MarkCompleted
  <2>7. ASSUME NEW e \in Executions, CreateExecution(e) PROVE Kept
    BY <2>2, <2>3, <2>7 DEF CreateExecution
  <2>8. ASSUME NEW e \in Executions, NEW d \in Dates, CreateByRequest(e, d) PROVE Kept
    BY <2>3, <2>8 DEF CreateByRequest
  <2>9. QED
    BY <1>1, <2>2, <2>5, <2>6, <2>7, <2>8
       DEF Next, WorkerStep, ScheduleExecutions, CheckReadyForNotification, CheckOverdueExecutions,
           PublishExecutionCountEvent, EndPass, ExecutionExists, MarkExecutionCompleted,
           LoadToComplete, CreateActivity, OpenEdit, OpenUpdate, ReadAgain, SaveEdit, TimePasses,
           Restart
<1>2. IInv /\ [Next]_vars => [Kept]_vars
  BY <1>1
<1>3. QED BY <1>2, Invariance, PTL DEF Spec, CompletionLostOnlyByOverlap
===============================================================================
