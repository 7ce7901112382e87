SPECIFICATION FairSpec
\* Go's arrays have room for 1, 2, 4, ... subscribers; here one array is never full,
\* so that the lists of three subscribers share it.
CONSTANTS
  Subscribers = {s1, s2, s3}
  Messages = {m1, m2}
  Leavers = {s1}
  Quitters = {s2}
  Capacities = {}
INVARIANTS TypeOK LostOnlyByOverlap PassedMeansReceived
PROPERTIES EveryoneIsServed
CHECK_DEADLOCK FALSE
