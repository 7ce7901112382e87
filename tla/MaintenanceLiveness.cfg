SPECIFICATION FairSpec
CONSTANTS
  Executions = {e1, e2, e3}
  Requested = {e3}
  Completions = {}
  Edits = {x1}
  StartDate = 1
  Every = 10
  DayLength = 2
  NotificationDays = {0}
  Ahead = 1
  MaxTime = 3
  MaxFaults = 1
  MaxRestarts = 0
PROPERTIES OverdueNoticed
CHECK_DEADLOCK FALSE
