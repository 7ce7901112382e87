------------------------- MODULE ScheduledTasksProofs -------------------------
(***************************************************************************)
(* A scheduled task runs twice without an occurrence of its schedule in    *)
(* between only if its row does not tell of the first run: for any         *)
(* schedules and time zones, and any number of edits and failures.         *)
(***************************************************************************)
EXTENDS ScheduledTasks, TLAPS

(* The worker and the edits are about a row that is there, and whoever has *)
(* run it has done so by now.                                              *)
RowsFit == /\ ~stored => stage = "idle" /\ run = Never
           /\ run <= now

(* As long as nothing is lost the row tells of the last run, unless the    *)
(* worker is about to write it; and so does the worker's copy.             *)
RowTells == ~lost /\ stage # "created" => row.lastExecuted >= run
CopyTells == ~lost /\ stage \in {"loaded", "due"} => copy.lastExecuted = row.lastExecuted

DueFits == stage = "due" => ShouldExecute(copy, zoneOf)

IInv == TypeOK /\ RowsFit /\ RowTells /\ CopyTells /\ DueFits

-------------------------------------------------------------------------------
(* Arithmetic                                                              *)

LEMMA DivisionFits ==
  ASSUME NEW a \in Int, NEW d \in Nat \ {0}
  PROVE  a \div d \in Int /\ a % d \in 0..(d - 1) /\ a = d * (a \div d) + (a % d)
OBVIOUS

LEMMA DivisionUnique ==
  ASSUME NEW d \in Nat \ {0}, NEW q \in Int, NEW r \in 0..(d - 1)
  PROVE  (q * d + r) \div d = q /\ (q * d + r) % d = r
OBVIOUS

(* From any time on, the time until the next one of a phase leads to it.   *)
LEMMA PhaseIsMet ==
  ASSUME NEW x \in Int, NEW f \in Int, NEW p \in Nat \ {0}
  PROVE  (x + ((f - x) % p)) % p = f % p
<1> DEFINE q == (f - x) \div p
<1> DEFINE r == (f - x) % p
<1> DEFINE qf == f \div p
<1> DEFINE rf == f % p
<1>1. q \in Int /\ r \in 0..(p - 1) /\ f - x = p * q + r
  BY DivisionFits
<1>2. qf \in Int /\ rf \in 0..(p - 1) /\ f = p * qf + rf
  BY DivisionFits
<1>3. x + r = (qf - q) * p + rf
  <2> HIDE DEF q, r, qf, rf
  <2>1. QED BY <1>1, <1>2
<1>4. ((qf - q) * p + rf) % p = rf
  <2> HIDE DEF q, r, qf, rf
  <2>1. qf - q \in Int
    BY <1>1, <1>2
  <2>2. QED BY <1>2, <2>1, DivisionUnique
<1>5. QED BY <1>3, <1>4

(* No earlier time has the phase.                                          *)
LEMMA PhaseIsMetFirst ==
  ASSUME NEW x \in Int, NEW f \in Int, NEW p \in Nat \ {0},
         NEW k \in Nat, k < (f - x) % p
  PROVE  (x + k) % p # f % p
<1> SUFFICES ASSUME (x + k) % p = f % p PROVE FALSE
  OBVIOUS
<1> DEFINE q == (x + k) \div p
<1> DEFINE qf == f \div p
<1> DEFINE rf == f % p
<1>1. q \in Int /\ x + k = p * q + rf
  BY DivisionFits
<1>2. qf \in Int /\ rf \in 0..(p - 1) /\ f = p * qf + rf
  BY DivisionFits
<1>3. (f - x) % p \in 0..(p - 1)
  BY DivisionFits
<1>4. k \in 0..(p - 1)
  BY <1>3
<1>5. f - x = (qf - q) * p + k
  <2> HIDE DEF q, qf, rf
  <2>1. QED BY <1>1, <1>2
<1>6. qf - q \in Int
  <2> HIDE DEF q, qf
  <2>1. QED BY <1>1, <1>2
<1>7. ((qf - q) * p + k) % p = k
  <2> DEFINE d == qf - q
  <2>1. d \in Int
    BY <1>6
  <2> HIDE DEF d
  <2>2. (d * p + k) % p = k
    BY <1>4, <2>1, DivisionUnique
  <2>3. QED BY <2>2 DEF d
<1>8. (f - x) % p = k
  BY <1>5, <1>7
<1>9. QED BY <1>3, <1>8

-------------------------------------------------------------------------------
(* The times of a schedule                                                 *)

(* The next run of a cron schedule is later than the last, and on time.    *)
LEMMA CronIsOnTime ==
  ASSUME NEW s \in Schedules, s.type = "cron", s.period > 0, NEW t \in Int, NEW z \in Int
  PROVE  LET next == CronNext(s, t, z)
         IN next \in Int /\ next > t /\ (next + z) % s.period = s.phase % s.period
<1> DEFINE p == s.period
<1> DEFINE f == s.phase
<1>1. p \in Nat \ {0} /\ f \in Nat
  BY ScheduleAssumption
<1> HIDE DEF p, f
<1> DEFINE x == t + 1 + z
<1> DEFINE r == (f - x) % p
<1>2. x \in Int
  OBVIOUS
<1>3. r \in 0..(p - 1) /\ (x + r) % p = f % p
  <2> HIDE DEF x
  <2>1. QED BY <1>1, <1>2, DivisionFits, PhaseIsMet
<1>4. CronNext(s, t, z) = t + 1 + r
  BY <1>1 DEF CronNext, p, f
<1> HIDE DEF r
<1>5. r \in Nat
  BY <1>1, <1>3
<1>6. t + 1 + r \in Int /\ t + 1 + r > t /\ t + 1 + r + z = x + r
  BY <1>5
<1>7. QED BY <1>3, <1>4, <1>6 DEF p, f

LEMMA DaysGrow ==
  ASSUME NEW a \in Int, NEW b \in Int, a <= b, NEW z \in Int
  PROVE  DayIn(a, z) \in Int /\ DayIn(b, z) \in Int /\ DayIn(a, z) <= DayIn(b, z)
BY ScheduleAssumption DEF DayIn

(* A time on a later day is later.                                         *)
LEMMA LaterDay ==
  ASSUME NEW a \in Int, NEW b \in Int, NEW z \in Int, DayIn(a, z) < DayIn(b, z)
  PROVE  a < b
<1> SUFFICES ASSUME b <= a PROVE FALSE
  OBVIOUS
<1>1. DayIn(b, z) \in Int /\ DayIn(a, z) \in Int /\ DayIn(b, z) <= DayIn(a, z)
  BY DaysGrow
<1>2. QED BY <1>1

(* The next run of one by intervals is that many days after the last, at   *)
(* its hour; so it is later if that is a day at least.                     *)
LEMMA IntervalIsOnTime ==
  ASSUME NEW s \in Schedules, s.type = "interval", NEW t \in Int, NEW z \in Int
  PROVE  LET next == IntervalNext(s, t, z)
         IN /\ next \in Int
            /\ (next + z) % DayLength = s.hour
            /\ DayIn(next, z) = DayIn(t, z) + s.dayInterval
            /\ s.dayInterval > 0 => next > t
<1> DEFINE n == DayIn(t, z) + s.dayInterval
<1>1. /\ s.dayInterval \in Int /\ s.hour \in 0..(DayLength - 1) /\ DayLength \in Nat \ {0}
  BY ScheduleAssumption
<1>2. DayIn(t, z) \in Int
  <2>1. t <= t
    OBVIOUS
  <2>2. QED BY <2>1, DaysGrow
<1>3. n \in Int
  BY <1>1, <1>2
<1> HIDE DEF n
<1>4. (n * DayLength + s.hour) \div DayLength = n /\ (n * DayLength + s.hour) % DayLength = s.hour
  BY <1>1, <1>3, DivisionUnique
<1> DEFINE at == AtHour(n, s.hour, z)
<1>5. at \in Int /\ at + z = n * DayLength + s.hour
  BY <1>1, <1>3 DEF AtHour
<1>6. IntervalNext(s, t, z) = at
  BY DEF IntervalNext, n
<1> HIDE DEF at
<1>7. DayIn(at, z) = n /\ (at + z) % DayLength = s.hour
  BY <1>4, <1>5 DEF DayIn
<1>8. s.dayInterval > 0 => DayIn(t, z) < DayIn(at, z)
  BY <1>1, <1>2, <1>7 DEF n
<1>9. s.dayInterval > 0 => at > t
  BY <1>5, <1>8, LaterDay
<1>10. QED BY <1>5, <1>6, <1>7, <1>9 DEF n

LEMMA CronIsFirst ==
  ASSUME NEW s \in Schedules, s.type = "cron", s.period > 0, NEW t \in Int, NEW z \in Int,
         NEW u \in (t + 1)..(CronNext(s, t, z) - 1)
  PROVE  (u + z) % s.period # s.phase % s.period
<1> DEFINE p == s.period
<1> DEFINE f == s.phase
<1>1. p \in Nat \ {0} /\ f \in Int
  BY ScheduleAssumption
<1> HIDE DEF p, f
<1> DEFINE x == t + 1 + z
<1> DEFINE r == (f - x) % p
<1> DEFINE k == u - (t + 1)
<1>2. x \in Int /\ CronNext(s, t, z) = t + 1 + r
  BY <1>1 DEF CronNext, p, f
<1>3. r \in Nat
  BY <1>1, DivisionFits
<1> HIDE DEF r
<1>4. k \in Nat /\ k < r /\ u + z = x + k
  BY <1>2, <1>3
<1> HIDE DEF k, x
<1>5. (x + k) % p # f % p
  BY <1>1, <1>2, <1>4, PhaseIsMetFirst DEF r
<1>6. QED BY <1>4, <1>5 DEF p, f

LEMMA IntervalIsFirst ==
  ASSUME NEW s \in Schedules, s.type = "interval", NEW t \in Int, NEW z \in Int,
         NEW u \in (t + 1)..(IntervalNext(s, t, z) - 1)
  PROVE  ~ ((u + z) % DayLength = s.hour /\ DayIn(u, z) >= DayIn(t, z) + s.dayInterval)
<1> DEFINE n == IntervalNext(s, t, z)
<1> DEFINE d == DayIn(t, z) + s.dayInterval
<1>1. /\ n \in Int /\ (n + z) % DayLength = s.hour /\ DayIn(n, z) = d
  BY IntervalIsOnTime
<1>2. DayLength \in Nat \ {0} /\ s.dayInterval \in Int /\ s.hour \in Int /\ DayIn(t, z) \in Int
  <2>1. DayLength \in Nat \ {0} /\ s.dayInterval \in Int /\ s.hour \in Int
    BY ScheduleAssumption
  <2>2. t <= t
    OBVIOUS
  <2>3. QED BY <2>1, <2>2, DaysGrow
<1>3. d \in Int
  BY <1>2
<1>4. n + z = DayLength * d + s.hour
  <2> HIDE DEF n, d
  <2>1. n + z \in Int
    BY <1>1
  <2>2. n + z = DayLength * ((n + z) \div DayLength) + ((n + z) % DayLength)
    BY <1>2, <2>1, DivisionFits
  <2>3. QED BY <1>1, <2>2 DEF DayIn
<1>5. u \in Int /\ u < n
  BY <1>1
<1> HIDE DEF n, d
<1>6. ASSUME (u + z) % DayLength = s.hour, DayIn(u, z) >= d PROVE FALSE
  <2>1. DayIn(u, z) \in Int /\ u + z = DayLength * DayIn(u, z) + s.hour
    <3>1. u + z \in Int
      BY <1>5
    <3>2. (u + z) \div DayLength \in Int
          /\ u + z = DayLength * ((u + z) \div DayLength) + ((u + z) % DayLength)
      BY <1>2, <3>1, DivisionFits
    <3>3. QED BY <1>6, <3>2 DEF DayIn
  <2>2. DayLength * DayIn(u, z) >= DayLength * d
    BY <1>2, <1>3, <1>6, <2>1
  <2>3. DayLength * DayIn(u, z) \in Int /\ DayLength * d \in Int
    BY <1>2, <1>3, <2>1
  <2> DEFINE a == DayLength * DayIn(u, z)
  <2> DEFINE b == DayLength * d
  <2>4. a \in Int /\ b \in Int /\ a >= b /\ u + z = a + s.hour /\ n + z = b + s.hour
    BY <1>4, <2>1, <2>2, <2>3
  <2> HIDE DEF a, b
  <2>5. QED BY <1>1, <1>2, <1>5, <2>4
<1>7. QED BY <1>6 DEF d

LEMMA NextRunIsTime ==
  ASSUME NEW s \in Schedules, s.type \in {"cron", "interval"}, NEW created \in Times,
         NEW last \in Times \cup {Never}, NEW z \in Zones
  PROVE  NextRun(s, created, last, z) \in Int
<1>1. created \in Int /\ last \in Int /\ z \in Int /\ DayLength \in Nat \ {0}
  BY ScheduleAssumption DEF Times, Never
<1>2. CASE s.type = "cron"
  <2>1. NextRun(s, created, last, z) = CronNext(s, IF last = Never THEN created ELSE last, z)
    BY <1>2 DEF NextRun
  <2>2. s.period \in Nat
    BY <1>2, ScheduleAssumption
  <2>3. CASE s.period = 0
    BY <2>1, <2>3 DEF CronNext, ZeroTime
  <2>4. CASE s.period > 0
    BY <1>1, <1>2, <2>1, <2>4, CronIsOnTime
  <2>5. QED BY <2>2, <2>3, <2>4
<1>3. CASE s.type = "interval"
  <2>1. NextRun(s, created, last, z) = IF last = Never THEN FirstExecution(s, z)
                                       ELSE IntervalNext(s, last, z)
    BY <1>3 DEF NextRun
  <2>2. FirstExecution(s, z) \in Int
    <3>1. /\ s.initialDay \in Nat /\ s.hour \in Int /\ s.dayInterval \in Int
          /\ DayIn(s.initialDay, 0) \in Int
      BY <1>3, ScheduleAssumption DEF DayIn
    <3>2. AtHour(DayIn(s.initialDay, 0), s.hour, z) \in Int
      BY <1>1, <3>1 DEF AtHour
    <3>3. QED BY <1>1, <3>1, <3>2 DEF FirstExecution
  <2>3. IntervalNext(s, last, z) \in Int
    BY <1>1, <1>3, IntervalIsOnTime
  <2>4. QED BY <2>1, <2>2, <2>3
<1>4. QED BY <1>2, <1>3

-------------------------------------------------------------------------------
(* The steps                                                               *)

LEMMA AnyRowIsRow == AnyRow \in Row
<1>1. (CHOOSE s \in Schedules : TRUE) \in Schedules
  BY ScheduleAssumption
<1>2. 0 \in Times
  BY ScheduleAssumption DEF Times
<1>3. QED BY <1>1, <1>2 DEF AnyRow, Row

LEMMA FaultTyped == ASSUME TypeOK, Fault \/ UNCHANGED faults PROVE faults' \in 0..MaxFaults
BY ScheduleAssumption DEF TypeOK, Fault

LEMMA TimeStep == ASSUME IInv, TimePasses PROVE IInv'
<1> USE DEF IInv, TimePasses, rowVars, workerVars, historyVars
<1>1. TypeOK'
  BY ScheduleAssumption DEF TypeOK, Times
<1>2. (RowsFit /\ RowTells /\ CopyTells)'
  BY DEF RowsFit, RowTells, CopyTells, TypeOK, Times, Never
<1>3. DueFits'
  <2>1. ASSUME stage = "due" PROVE ShouldExecute(copy, zoneOf)'
    <3>1. copy.schedule \in Schedules /\ copy.created \in Times /\ zoneOf \in Zones
          /\ copy.lastExecuted \in Times \cup {Never}
      BY DEF TypeOK, Row
    <3>2. copy.schedule.type \in {"cron", "interval"}
          /\ NextRun(copy.schedule, copy.created, copy.lastExecuted, zoneOf) <= now
      BY <2>1 DEF DueFits, ShouldExecute
    <3>3. NextRun(copy.schedule, copy.created, copy.lastExecuted, zoneOf) \in Int
      BY <3>1, <3>2, NextRunIsTime
    <3>4. now \in Int
      BY DEF TypeOK, Times
    <3>5. NextRun(copy.schedule, copy.created, copy.lastExecuted, zoneOf) <= now + 1
      BY <3>2, <3>3, <3>4
    <3>6. QED BY <3>2, <3>5 DEF ShouldExecute
  <2>2. QED BY <2>1 DEF DueFits
<1>4. QED BY <1>1, <1>2, <1>3

LEMMA IdleStep ==
  ASSUME TypeOK, Idle
  PROVE  /\ stage' = "idle" /\ copy' \in Row /\ zoneOf' \in Zones /\ behind' \in BOOLEAN
BY AnyRowIsRow, ScheduleAssumption DEF Idle, DefaultZone

LEMMA FindStep == ASSUME IInv, FindAllActive PROVE IInv'
<1> USE DEF IInv, FindAllActive, rowVars, historyVars
<1>1. TypeOK'
  BY FaultTyped DEF TypeOK
<1>2. (RowsFit /\ RowTells /\ CopyTells /\ DueFits)'
  BY DEF RowsFit, RowTells, CopyTells, DueFits
<1>3. QED BY <1>1, <1>2

LEMMA EvaluateStep == ASSUME IInv, Evaluate PROVE IInv'
<1> USE DEF IInv
<1>1. PICK z \in {zone, DefaultZone} :
        /\ \/ z = zone /\ UNCHANGED faults
           \/ z = DefaultZone /\ Fault
        /\ IF ShouldExecute(copy, z)
             THEN stage' = "due" /\ zoneOf' = z /\ UNCHANGED <<copy, behind>> ELSE Idle
  BY DEF Evaluate
<1>2. z \in Zones
  BY ScheduleAssumption DEF TypeOK, DefaultZone
<1>3. /\ UNCHANGED <<now, zone, rowVars, others, edit, historyVars>>
      /\ stage = "loaded" /\ faults' \in 0..MaxFaults
  BY <1>1, FaultTyped DEF Evaluate
<1>4. CASE ShouldExecute(copy, z)
  <2>1. stage' = "due" /\ zoneOf' = z /\ UNCHANGED <<copy, behind>>
    BY <1>1, <1>4
  <2>2. TypeOK'
    BY <1>2, <1>3, <2>1 DEF TypeOK, rowVars, historyVars
  <2>3. (RowsFit /\ RowTells /\ CopyTells)'
    BY <1>3, <2>1 DEF RowsFit, RowTells, CopyTells, rowVars, historyVars
  <2>4. DueFits'
    BY <1>3, <1>4, <2>1 DEF DueFits, ShouldExecute
  <2>5. QED BY <2>2, <2>3, <2>4
<1>5. CASE ~ShouldExecute(copy, z)
  <2>1. Idle
    BY <1>1, <1>5
  <2>2. TypeOK'
    BY <1>3, <2>1, IdleStep DEF TypeOK, rowVars, historyVars
  <2>3. (RowsFit /\ RowTells /\ CopyTells /\ DueFits)'
    BY <1>3, <2>1, IdleStep DEF RowsFit, RowTells, CopyTells, DueFits, rowVars, historyVars
  <2>4. QED BY <2>2, <2>3
<1>6. QED BY <1>4, <1>5

LEMMA CreateStep == ASSUME IInv, CreateTask PROVE IInv'
<1> USE DEF IInv
<1>1. /\ UNCHANGED <<now, zone, rowVars, others, edit, lost>>
      /\ stage = "due" /\ faults' \in 0..MaxFaults
  BY FaultTyped DEF CreateTask
<1>2. CASE stage' = "created" /\ run' = now /\ UNCHANGED <<copy, zoneOf, behind, faults>>
  <2>1. TypeOK'
    BY <1>1, <1>2 DEF TypeOK, rowVars
  <2>2. (RowsFit /\ RowTells /\ CopyTells /\ DueFits)'
    BY <1>1, <1>2 DEF RowsFit, RowTells, CopyTells, DueFits, TypeOK, Times, rowVars
  <2>3. QED BY <2>1, <2>2
<1>3. CASE Idle /\ Fault /\ UNCHANGED run
  <2>1. TypeOK'
    BY <1>1, <1>3, IdleStep DEF TypeOK, rowVars
  <2>2. (RowsFit /\ RowTells /\ CopyTells /\ DueFits)'
    BY <1>1, <1>3, IdleStep DEF RowsFit, RowTells, CopyTells, DueFits, rowVars
  <2>3. QED BY <2>1, <2>2
<1>4. QED BY <1>2, <1>3 DEF CreateTask

LEMMA SaveStep == ASSUME IInv, SaveExecution PROVE IInv'
<1> USE DEF IInv
<1>1. /\ [copy EXCEPT !.lastExecuted = now] \in Row
      /\ [copy EXCEPT !.lastExecuted = now].lastExecuted = now
  BY DEF TypeOK, Row
<1>2. /\ UNCHANGED <<now, zone, stored, others, edit, run>>
      /\ stage = "created" /\ faults' \in 0..MaxFaults
      /\ \/ row' = [copy EXCEPT !.lastExecuted = now] /\ lost' = FALSE
         \/ lost' = TRUE /\ UNCHANGED row
  BY FaultTyped DEF SaveExecution
<1>3. stage' = "idle" /\ copy' \in Row /\ zoneOf' \in Zones /\ behind' \in BOOLEAN
  BY IdleStep DEF SaveExecution
<1>4. TypeOK'
  BY <1>1, <1>2, <1>3 DEF TypeOK
<1>5. (RowsFit /\ RowTells /\ CopyTells /\ DueFits)'
  BY <1>1, <1>2, <1>3 DEF RowsFit, RowTells, CopyTells, DueFits
<1>6. QED BY <1>4, <1>5

LEMMA NewStep ==
  ASSUME IInv, NEW s \in Schedules, NEW a \in BOOLEAN, CreateScheduledTask(s, a) PROVE IInv'
<1> USE DEF IInv, CreateScheduledTask, workerVars, historyVars
<1>1. /\ [AnyRow EXCEPT !.schedule = s, !.active = a, !.created = now] \in Row
      /\ [AnyRow EXCEPT !.schedule = s, !.active = a, !.created = now].lastExecuted = Never
  BY AnyRowIsRow DEF TypeOK, Row, AnyRow
<1>2. TypeOK'
  BY <1>1 DEF TypeOK
<1>3. (RowsFit /\ RowTells /\ CopyTells /\ DueFits)'
  BY <1>1 DEF RowsFit, RowTells, CopyTells, DueFits, Never
<1>4. QED BY <1>2, <1>3

LEMMA OpenStep ==
  ASSUME IInv, NEW x \in Edits, OpenEdit(x, "update") \/ OpenEdit(x, "delete") PROVE IInv'
<1> USE DEF IInv, OpenEdit, rowVars, workerVars, historyVars
<1>1. TypeOK'
  BY DEF TypeOK
<1>2. (RowsFit /\ RowTells /\ CopyTells /\ DueFits)'
  BY DEF RowsFit, RowTells, CopyTells, DueFits, ShouldExecute
<1>3. QED BY <1>1, <1>2

LEMMA ServedIsTyped ==
  Served \in [stage : {"idle", "read", "done"}, kind : {"none", "update", "delete"}, copy : Row]
BY AnyRowIsRow DEF Served, NoEdit

LEMMA EditStep == ASSUME IInv, NEW x \in Edits, SaveEdit(x) PROVE IInv'
<1> USE DEF IInv, SaveEdit, workerVars
<1>1. Edited(x) \subseteq Row
  <2>1. edit[x].copy \in Row
    BY DEF TypeOK
  <2> DEFINE old == edit[x].copy
  <2>2. [old EXCEPT !.active = FALSE, !.deleted = TRUE] \in Row
    BY <2>1 DEF Row
  <2>3. \A a \in BOOLEAN, s \in Schedules : WithBody(old, a, s) \in Row
    BY <2>1 DEF Row, WithBody
  <2>4. SUFFICES ASSUME NEW r \in Edited(x) PROVE r \in Row
    OBVIOUS
  <2> HIDE DEF old
  <2>5. CASE edit[x].kind = "delete"
    <3>1. r = [old EXCEPT !.active = FALSE, !.deleted = TRUE]
      BY <2>4, <2>5 DEF Edited, old
    <3>2. QED BY <2>2, <3>1
  <2>6. CASE edit[x].kind # "delete"
    <3>1. r \in {WithBody(old, a, s) : a \in BOOLEAN, s \in Schedules}
      BY <2>4, <2>6 DEF Edited, old
    <3>2. \E a \in BOOLEAN, s \in Schedules : r = WithBody(old, a, s)
      BY <3>1
    <3>3. QED BY <2>3, <3>2
  <2>7. QED BY <2>5, <2>6
<1>2. lost' \in BOOLEAN
  BY DEF TypeOK
<1>3. edit' \in [Edits -> [stage : {"idle", "read", "done"},
                           kind : {"none", "update", "delete"}, copy : Row]]
  BY ServedIsTyped DEF TypeOK
<1>4. TypeOK'
  BY <1>1, <1>2, <1>3, FaultTyped DEF TypeOK
<1>5. (RowsFit /\ RowTells /\ CopyTells /\ DueFits)'
  BY DEF RowsFit, RowTells, CopyTells, DueFits, ShouldExecute
<1>6. QED BY <1>4, <1>5

LEMMA ZoneStep == ASSUME IInv, NEW z \in Zones, UpsertTenantConfiguration(z) PROVE IInv'
<1> USE DEF IInv, UpsertTenantConfiguration, rowVars, workerVars, historyVars
<1>1. TypeOK'
  BY DEF TypeOK
<1>2. (RowsFit /\ RowTells /\ CopyTells /\ DueFits)'
  BY DEF RowsFit, RowTells, CopyTells, DueFits, ShouldExecute
<1>3. QED BY <1>1, <1>2

LEMMA AnotherStep == ASSUME IInv, EditAnother PROVE IInv'
<1> USE DEF IInv, EditAnother, rowVars, workerVars, historyVars
<1>1. TypeOK'
  BY DEF TypeOK
<1>2. (RowsFit /\ RowTells /\ CopyTells /\ DueFits)'
  BY DEF RowsFit, RowTells, CopyTells, DueFits, ShouldExecute
<1>3. QED BY <1>1, <1>2

LEMMA AgainStep == ASSUME IInv, StartAgain, Fault \/ UNCHANGED faults PROVE IInv'
<1> USE DEF IInv, rowVars
<1>1. edit' \in [Edits -> [stage : {"idle", "read", "done"},
                           kind : {"none", "update", "delete"}, copy : Row]]
  BY ServedIsTyped DEF TypeOK, StartAgain
<1>2. lost' \in BOOLEAN /\ lost' = (lost \/ stage = "created")
  BY DEF TypeOK, StartAgain
<1>3. /\ stage' = "idle" /\ copy' \in Row /\ zoneOf' \in Zones /\ behind' \in BOOLEAN
      /\ UNCHANGED <<now, zone, stored, row, others, run>>
  BY IdleStep DEF StartAgain
<1>4. TypeOK'
  BY <1>1, <1>2, <1>3, FaultTyped DEF TypeOK
<1>5. (RowsFit /\ RowTells /\ CopyTells /\ DueFits)'
  BY <1>2, <1>3 DEF RowsFit, RowTells, CopyTells, DueFits
<1>6. QED BY <1>4, <1>5

LEMMA InitStep == Init => IInv
<1> SUFFICES ASSUME Init PROVE IInv
  OBVIOUS
<1> USE DEF Init
<1>1. TypeOK
  <2>1. 0 \in Times /\ DefaultZone \in Zones /\ 0 \in 0..MaxFaults
    BY ScheduleAssumption DEF Times, DefaultZone
  <2>2. NoEdit \in [stage : {"idle", "read", "done"}, kind : {"none", "update", "delete"}, copy : Row]
    BY AnyRowIsRow DEF NoEdit
  <2>3. QED BY <2>1, <2>2, AnyRowIsRow DEF TypeOK
<1>2. RowsFit /\ RowTells /\ CopyTells /\ DueFits
  BY DEF RowsFit, RowTells, CopyTells, DueFits, AnyRow, Never
<1>3. QED BY <1>1, <1>2 DEF IInv

LEMMA NextStep == IInv /\ [Next]_vars => IInv'
<1> SUFFICES ASSUME IInv, [Next]_vars PROVE IInv'
  OBVIOUS
<1>1. CASE WorkerStep
  BY <1>1, FindStep, EvaluateStep, CreateStep, SaveStep, AgainStep DEF WorkerStep, Panic
<1>2. ASSUME NEW s \in Schedules, NEW a \in BOOLEAN, CreateScheduledTask(s, a) PROVE IInv'
  BY <1>2, NewStep
<1>3. ASSUME NEW x \in Edits, OpenEdit(x, "update") \/ OpenEdit(x, "delete") \/ SaveEdit(x)
      PROVE  IInv'
  BY <1>3, OpenStep, EditStep
<1>4. ASSUME NEW z \in Zones, UpsertTenantConfiguration(z) PROVE IInv'
  BY <1>4, ZoneStep
<1>5. CASE EditAnother \/ TimePasses \/ Restart
  BY <1>5, AnotherStep, TimeStep, AgainStep DEF Restart
<1>6. CASE UNCHANGED vars
  BY <1>6 DEF vars, rowVars, workerVars, historyVars, IInv, TypeOK, RowsFit, RowTells, CopyTells,
              DueFits, ShouldExecute
<1>7. QED BY <1>1, <1>2, <1>3, <1>4, <1>5, <1>6 DEF Next

LEMMA Invariance == Spec => []IInv
<1>1. QED BY InitStep, NextStep, PTL DEF Spec

(* The row, the copies and the clock readings stay well typed, whatever an *)
(* edit puts into the row.                                                 *)
THEOREM ScheduledTypeCorrect == Spec => []TypeOK
<1>1. IInv => TypeOK
  BY DEF IInv
<1>2. QED BY <1>1, Invariance, PTL

(* The worker runs a scheduled task a second time without an occurrence in *)
(* between only if the row does not tell of the first run, or says that    *)
(* its schedule does not recur: there are intervals of no days and cron    *)
(* expressions that never match among the schedules of the theorem.        *)
THEOREM RunsTwiceOnlyByLoss == Spec => []TwiceOnlyByLoss
<1>1. ASSUME IInv PROVE TwiceOnlyByLoss
  <2> SUFFICES ASSUME stage = "due", run # Never, ~lost, Recurs(copy.schedule)
               PROVE  \E t \in (run + 1)..now : Occurs(copy.schedule, t, run, zoneOf)
    BY DEF TwiceOnlyByLoss
  <2> DEFINE s == copy.schedule
  <2> DEFINE last == copy.lastExecuted
  <2> DEFINE next == NextRun(s, copy.created, last, zoneOf)
  <2>1. /\ s \in Schedules /\ copy.created \in Times /\ zoneOf \in Zones
        /\ last \in Int /\ run \in Int /\ run >= 0 /\ now \in Int /\ zoneOf \in Int
        /\ last \in Times \cup {Never}
    BY <1>1, ScheduleAssumption DEF IInv, TypeOK, Row, Times, Never
  <2>2. last >= run /\ last # Never
    BY <1>1, <2>1 DEF IInv, RowTells, CopyTells, Never
  <2>3. s.type \in {"cron", "interval"} /\ next <= now
    BY <1>1 DEF IInv, DueFits, ShouldExecute
  <2>4. CASE s.type = "cron"
    <3>1. next = CronNext(s, last, zoneOf)
      BY <2>2, <2>4 DEF NextRun
    <3>0. s.period > 0
      BY <2>4 DEF Recurs
    <3>2. next \in Int /\ next > last /\ (next + zoneOf) % s.period = s.phase % s.period
      <4> HIDE DEF s, last, next
      <4>1. LET n == CronNext(s, last, zoneOf)
            IN n \in Int /\ n > last /\ (n + zoneOf) % s.period = s.phase % s.period
        BY <2>1, <2>4, <3>0, CronIsOnTime, Zenon
      <4>2. QED BY <3>1, <4>1
    <3>3. next \in (run + 1)..now
      <4> HIDE DEF next
      <4>1. QED BY <2>1, <2>2, <2>3, <3>2
    <3>4. Occurs(s, next, run, zoneOf)
      BY <2>4, <3>0, <3>2 DEF Occurs
    <3>5. QED BY <3>3, <3>4
  <2>5. CASE s.type = "interval"
    <3>1. next = IntervalNext(s, last, zoneOf)
      BY <2>2, <2>5 DEF NextRun
    <3>0. s.dayInterval > 0
      BY <2>5 DEF Recurs
    <3>2. /\ next \in Int /\ next > last /\ (next + zoneOf) % DayLength = s.hour
          /\ DayIn(next, zoneOf) = DayIn(last, zoneOf) + s.dayInterval
      BY <2>1, <2>5, <3>0, <3>1, IntervalIsOnTime
    <3>3. next \in (run + 1)..now
      <4> HIDE DEF next
      <4>1. QED BY <2>1, <2>2, <2>3, <3>2
    <3>4. DayIn(next, zoneOf) >= DayIn(run, zoneOf) + s.dayInterval
      <4>1. s.dayInterval \in Int
        BY <2>1, <2>5, ScheduleAssumption
      <4>2. DayIn(run, zoneOf) \in Int /\ DayIn(last, zoneOf) \in Int
            /\ DayIn(run, zoneOf) <= DayIn(last, zoneOf)
        BY <2>1, <2>2, DaysGrow
      <4> HIDE DEF next
      <4>3. QED BY <3>2, <4>1, <4>2
    <3>5. Occurs(s, next, run, zoneOf)
      BY <2>5, <3>2, <3>4 DEF Occurs
    <3>6. QED BY <3>3, <3>5
  <2>6. QED BY <2>3, <2>4, <2>5
<1>2. QED BY <1>1, Invariance, PTL

-------------------------------------------------------------------------------
(* What a schedule that recurs means, and nothing less: the next run that  *)
(* cron's Next or CalculateNextExecution give after a run is an occurrence *)
(* of the schedule in the tenant's time zone, it is later than that run,   *)
(* and no occurrence in between is left out.  Any other schedule, which    *)
(* the update stores as it is given, has its next run on no later day than *)
(* the last.                                                               *)
THEOREM NextRunIsFirstOccurrence ==
  ASSUME NEW s \in Schedules, s.type \in {"cron", "interval"}, NEW created \in Times,
         NEW last \in Times, NEW z \in Zones,
         NEW n, n = NextRun(s, created, last, z)
  PROVE  /\ n \in Int
         /\ Recurs(s) => /\ n > last /\ Occurs(s, n, last, z)
                         /\ \A t \in (last + 1)..(n - 1) : ~Occurs(s, t, last, z)
         /\ ~Recurs(s) => DayIn(n, z) <= DayIn(last, z)
<1>1. last \in Int /\ last >= 0 /\ z \in Int /\ last # Never
  BY ScheduleAssumption DEF Times, Never
<1>2. n \in Int
  BY NextRunIsTime
<1>3. CASE s.type = "cron"
  <2>1. n = CronNext(s, last, z) /\ s.period \in Nat
    BY <1>1, <1>3, ScheduleAssumption DEF NextRun
  <2>2. CASE s.period > 0
    <3>1. n > last /\ (n + z) % s.period = s.phase % s.period
      BY <1>1, <1>3, <2>1, <2>2, CronIsOnTime
    <3>2. \A t \in (last + 1)..(n - 1) : (t + z) % s.period # s.phase % s.period
      BY <1>1, <1>3, <2>1, <2>2, CronIsFirst
    <3>3. QED BY <1>2, <1>3, <2>2, <3>1, <3>2 DEF Occurs, Recurs
  <2>3. CASE s.period = 0
    <3>1. n = -1 /\ ~Recurs(s)
      BY <1>3, <2>1, <2>3 DEF CronNext, ZeroTime, Recurs
    <3>2. n <= last
      BY <1>1, <3>1
    <3>3. DayIn(n, z) <= DayIn(last, z)
      BY <1>1, <1>2, <3>2, DaysGrow
    <3>4. QED BY <1>2, <3>1, <3>3
  <2>4. QED BY <2>1, <2>2, <2>3
<1>4. CASE s.type = "interval"
  <2>1. n = IntervalNext(s, last, z) /\ s.dayInterval \in Int
    BY <1>1, <1>4, ScheduleAssumption DEF NextRun
  <2>2. /\ (n + z) % DayLength = s.hour
        /\ DayIn(n, z) = DayIn(last, z) + s.dayInterval
        /\ s.dayInterval > 0 => n > last
    BY <1>1, <1>4, <2>1, IntervalIsOnTime
  <2>3. DayIn(last, z) \in Int
    <3>1. last <= last
      BY <1>1
    <3>2. QED BY <1>1, <3>1, DaysGrow
  <2>4. CASE s.dayInterval > 0
    <3>1. \A t \in (last + 1)..(n - 1) :
            ~ ((t + z) % DayLength = s.hour /\ DayIn(t, z) >= DayIn(last, z) + s.dayInterval)
      BY <1>1, <1>4, <2>1, IntervalIsFirst
    <3>2. DayIn(n, z) >= DayIn(last, z) + s.dayInterval
      BY <2>1, <2>2, <2>3
    <3>3. Occurs(s, n, last, z) /\ \A t \in (last + 1)..(n - 1) : ~Occurs(s, t, last, z)
      BY <1>4, <2>2, <3>1, <3>2 DEF Occurs
    <3>4. QED BY <1>2, <1>4, <2>2, <2>4, <3>3 DEF Recurs
  <2>5. CASE ~ (s.dayInterval > 0)
    <3>1. ~Recurs(s)
      BY <1>4, <2>5 DEF Recurs
    <3>2. DayIn(n, z) <= DayIn(last, z)
      BY <2>1, <2>2, <2>3, <2>5
    <3>3. QED BY <1>2, <3>1, <3>2
  <2>6. QED BY <2>4, <2>5
<1>5. QED BY <1>3, <1>4

(* So shouldExecuteSchedule finds a scheduled task that has run before and *)
(* recurs due just when its schedule has occurred since: it runs none      *)
(* early and passes none over.  One that does not recur it finds due again *)
(* at once, with no occurrence since, from the hour of its last day on.    *)
THEOREM DueAfterOccurrence ==
  ASSUME now \in Int, NEW st \in Row, st.schedule.type \in {"cron", "interval"},
         st.lastExecuted # Never, NEW z \in Zones
  PROVE  /\ Recurs(st.schedule)
              => (ShouldExecute(st, z)
                    <=> \E t \in (st.lastExecuted + 1)..now :
                          Occurs(st.schedule, t, st.lastExecuted, z))
         /\ /\ ~Recurs(st.schedule) /\ st.lastExecuted <= now
            /\ st.schedule.type = "interval"
                 => (st.lastExecuted + z) % DayLength >= st.schedule.hour
            => ShouldExecute(st, z)
<1> DEFINE s == st.schedule
<1> DEFINE last == st.lastExecuted
<1> DEFINE n == NextRun(s, st.created, last, z)
<1>1. s \in Schedules /\ st.created \in Times /\ last \in Times /\ last \in Int /\ last >= 0
  BY ScheduleAssumption DEF Row, Times
<1>2. ShouldExecute(st, z) <=> n <= now
  BY DEF ShouldExecute
<1>3. /\ n \in Int
      /\ Recurs(s) => /\ n > last /\ Occurs(s, n, last, z)
                      /\ \A t \in (last + 1)..(n - 1) : ~Occurs(s, t, last, z)
      /\ ~Recurs(s) => DayIn(n, z) <= DayIn(last, z)
  BY <1>1, NextRunIsFirstOccurrence
<1>4. ASSUME ~Recurs(s), s.type = "interval" => (last + z) % DayLength >= s.hour
      PROVE  n <= last
  <2>1. CASE s.type = "cron"
    <3>1. s.period = 0
      BY <1>1, <1>4, <2>1, ScheduleAssumption DEF Recurs
    <3>2. n = -1
      BY <2>1, <3>1 DEF NextRun, CronNext, ZeroTime
    <3>3. QED BY <1>1, <3>2
  <2>2. CASE s.type = "interval"
    <3>1. /\ z \in Int /\ s.hour \in Int /\ DayLength \in Nat \ {0}
      BY <1>1, <2>2, ScheduleAssumption
    <3>2. n = IntervalNext(s, last, z)
      BY <2>2 DEF NextRun
    <3>3. (n + z) % DayLength = s.hour
      BY <1>1, <2>2, <3>1, <3>2, IntervalIsOnTime
    <3>4. n + z \in Int /\ last + z \in Int
      BY <1>1, <1>3, <3>1
    <3> DEFINE dn == (n + z) \div DayLength
    <3> DEFINE dl == (last + z) \div DayLength
    <3> DEFINE rl == (last + z) % DayLength
    <3>5. dn \in Int /\ n + z = DayLength * dn + s.hour
      BY <3>1, <3>3, <3>4, DivisionFits
    <3>6. dl \in Int /\ rl \in Int /\ last + z = DayLength * dl + rl
      <4> HIDE DEF last
      <4>1. rl \in 0..(DayLength - 1) /\ dl \in Int /\ last + z = DayLength * dl + rl
        BY <3>1, <3>4, DivisionFits, Zenon
      <4> HIDE DEF rl, dl
      <4>2. QED BY <3>1, <4>1
    <3>7. dn <= dl /\ rl >= s.hour
      BY <1>3, <1>4, <2>2 DEF DayIn
    <3> HIDE DEF n, last, dn, dl, rl
    <3>8. DayLength * dn <= DayLength * dl /\ DayLength * dn \in Int /\ DayLength * dl \in Int
      BY <3>1, <3>5, <3>6, <3>7
    <3>9. n + z <= last + z
      BY <3>1, <3>5, <3>6, <3>7, <3>8
    <3>10. QED BY <1>1, <1>3, <3>1, <3>9
  <2>3. QED BY <2>1, <2>2
<1> HIDE DEF n, last, s
<1>5. Recurs(s) => (n <= now <=> \E t \in (last + 1)..now : Occurs(s, t, last, z))
  BY <1>1, <1>3
<1>6. ASSUME ~Recurs(s), last <= now, s.type = "interval" => (last + z) % DayLength >= s.hour
      PROVE  n <= now
  <2>1. n <= last
    BY <1>4, <1>6
  <2>2. QED BY <1>1, <1>3, <1>6, <2>1
<1>7. QED BY <1>2, <1>5, <1>6 DEF last, s

(* The first execution by intervals is at its hour in the tenant's time    *)
(* zone.  It is less than an interval after the initial day or, as the     *)
(* date is taken from one zone and the hour from the other, less than a    *)
(* day and what the zone is behind UTC after it; and before it by no more  *)
(* than the zone is ahead of UTC, unless the interval is of no days.       *)
THEOREM FirstExecutionIsNear ==
  ASSUME NEW s \in Schedules, s.type = "interval", NEW z \in Zones,
         NEW n, n = FirstExecution(s, z)
  PROVE  /\ n \in Int /\ (n + z) % DayLength = s.hour
         /\ n < s.initialDay + s.dayInterval * DayLength \/ n < s.initialDay + DayLength - z
         /\ s.dayInterval > 0 => n >= s.initialDay \/ n >= s.initialDay - z
<1> DEFINE L == DayLength
<1> DEFINE i == s.initialDay
<1> DEFINE h == s.hour
<1> DEFINE k == s.dayInterval
<1> DEFINE d == DayIn(i, 0)
<1>1. /\ L \in Nat \ {0} /\ i \in Nat /\ h \in 0..(L - 1) /\ k \in Int /\ z \in Int
  BY ScheduleAssumption
<1> HIDE DEF L, i, h, k
<1>2. d \in Int /\ d * L \in Int /\ d * L <= i /\ i <= d * L + (L - 1)
  <2>1. i \div L \in Int /\ i % L \in 0..(L - 1) /\ i = L * (i \div L) + (i % L)
    BY <1>1, DivisionFits
  <2>2. d = i \div L
    BY <1>1 DEF DayIn, L
  <2> HIDE DEF d
  <2>3. d \in Int /\ i = L * d + (i % L)
    BY <2>1, <2>2
  <2>4. L * d = d * L /\ d * L \in Int
    BY <1>1, <2>3
  <2> DEFINE r == i % L
  <2>5. r \in 0..(L - 1) /\ i = d * L + r
    BY <2>1, <2>3, <2>4
  <2> HIDE DEF r
  <2>6. QED BY <1>1, <2>3, <2>4, <2>5
<1> HIDE DEF d
<1> DEFINE c == d * L + h - z
<1>3. n = IF c < i THEN c + k * L ELSE c
  BY DEF FirstExecution, AtHour, L, i, h, k, d
<1>4. k * L \in Int /\ (k > 0 => k * L >= L) /\ (d + k) \in Int
  BY <1>1, <1>2
<1>5. \E m \in Int : n + z = m * L + h
  <2>1. (d + k) * L = d * L + k * L
    BY <1>1, <1>2
  <2>2. c + z = d * L + h /\ c + k * L + z = (d + k) * L + h
    BY <1>1, <1>2, <1>4, <2>1
  <2>3. QED BY <1>2, <1>3, <1>4, <2>2
<1>6. (n + z) % L = h
  BY <1>1, <1>5, DivisionUnique
<1> DEFINE dL == d * L
<1> DEFINE kL == k * L
<1>7. /\ dL \in Int /\ dL <= i /\ i <= dL + (L - 1) /\ kL \in Int /\ (k > 0 => kL >= L)
      /\ n = IF dL + h - z < i THEN dL + h - z + kL ELSE dL + h - z
  BY <1>2, <1>3, <1>4
<1> HIDE DEF dL, kL
<1>8. /\ n \in Int /\ (n < i + kL \/ n < i + L - z)
      /\ k > 0 => n >= i \/ n >= i - z
  BY <1>1, <1>7
<1>9. QED BY <1>6, <1>8 DEF L, i, h, k, kL
===============================================================================
