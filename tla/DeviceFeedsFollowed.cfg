SPECIFICATION FairSpec
CONSTANTS
  Clients = {c1}
  Controllers = {"all", "device"}
  Capacity = 2
  MaxUplinks = 3
  MaxCommands = 1
  MaxFaults = 1
INVARIANTS TypeOK NothingMissed ShowsTheNewest
PROPERTY LeftIsForgotten
CHECK_DEADLOCK FALSE
