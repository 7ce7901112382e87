SPECIFICATION FairSpec
CONSTANTS
  Edits = {x1}
  Schedules <- AllSchedules
  Zones <- ZonesAround
  DayLength = 2
  MaxTime = 4
  MaxFaults = 1
INVARIANTS TypeOK TwiceOnlyByLoss
 
CHECK_DEADLOCK FALSE
