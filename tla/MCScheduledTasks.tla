--------------------------- MODULE MCScheduledTasks ---------------------------
(* Instances of ScheduledTasks for TLC.                                      *)
EXTENDS ScheduledTasks

(* Once a day at one o'clock, every second day at midnight from the first on *)
(* and what the update lets in besides: an interval of no days, a cron       *)
(* expression that never matches, and intervals with the other fields left   *)
(* out.                                                                      *)
Daily == [type |-> "cron", period |-> DayLength, phase |-> 1]
EverySecondDay == [type |-> "interval", initialDay |-> 0, dayInterval |-> 2, hour |-> 0]
EveryZeroDays == [EverySecondDay EXCEPT !.dayInterval = 0]
NoDay == [type |-> "cron", period |-> 0, phase |-> 0]
Incomplete == [type |-> "incomplete"]

ZonesAround == {-1, 0, 1}
AllSchedules == {Daily, EverySecondDay, EveryZeroDays, NoDay, Incomplete}
===============================================================================
