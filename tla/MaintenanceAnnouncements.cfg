SPECIFICATION Spec
CONSTANTS
  Executions = {e1, e2}
  Requested = {}
  Completions = {m1, m2}
  Edits = {}
  StartDate = 3
  Every = 10
  DayLength = 2
  NotificationDays = {0, 1}
  Ahead = 1
  MaxTime = 7
  MaxFaults = 1
  MaxRestarts = 1
INVARIANTS TypeOK ReadyAnnouncedOnce OverdueGrows PlannedOnce
PROPERTIES CompletionLostOnlyByOverlap
CHECK_DEADLOCK FALSE
