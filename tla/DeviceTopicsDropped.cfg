SPECIFICATION TopicsSpec
CONSTANTS
  Topics = {up, ack}
  Ticks = {g1}
  Published = {up}
  MaxConnections = 1
  MaxFaults = 0
INVARIANTS OnlyDuplicatesDropped
CHECK_DEADLOCK FALSE
