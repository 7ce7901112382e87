SPECIFICATION TopicsFairSpec
CONSTANTS
  Topics = {up, ack}
  Ticks = {g1, g2}
  Published = {up}
  MaxConnections = 2
  MaxFaults = 1
INVARIANTS TopicsTypeOK MissedOnlyByRefusal
PROPERTIES EventuallyHeard
CHECK_DEADLOCK FALSE
