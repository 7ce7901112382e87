SPECIFICATION FairSpec
CONSTANTS
  c1 = c1  c2 = c2  t1 = t1  t2 = t2  q1 = q1
  Commands = {c1, c2}
  Tasks = {t1, t2}
  Sequences = {}
  CommandsOf <- TwoTasks
  PayloadIndex <- SameActuator
  Dispatchers = {d1}
  Slots = {}
  OverlapBuffer = 1
  MaxTime = 2
  MaxInflight = 1
  MaxFaults = 2
INVARIANTS OverlapOnlyByRace
PROPERTIES EventuallySent
CHECK_DEADLOCK FALSE
