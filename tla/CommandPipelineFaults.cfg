SPECIFICATION Spec
CONSTANTS
  c1 = c1  c2 = c2  t1 = t1  t2 = t2  q1 = q1
  Commands = {c1}
  Tasks = {}
  Sequences = {q1}
  CommandsOf <- OneSequence
  PayloadIndex <- SameActuator
  Dispatchers = {d1, d2}
  Slots = {s1, s2}
  OverlapBuffer = 1
  MaxTime = 1
  MaxInflight = 2
  MaxFaults = 1
INVARIANTS TypeOK NoEarlyDispatch SentWasHanded StatusWasReported
PROPERTIES NothingForgotten ImplementsLifecycle
CHECK_DEADLOCK FALSE
