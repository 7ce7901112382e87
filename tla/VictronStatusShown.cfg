SPECIFICATION FairSpec
CONSTANTS
  Topics <- AcInput
  Readings <- Inputs
  Null = Null
  Unreported = Unreported
  Clients = {c1}
  Capacity = 1
  MaxChanges = 1
  MaxCrashes = 1
  MaxFaults = 1
INVARIANTS TypeOK ShownIsCurrent IndicatorsWin
PROPERTY DashboardsCatchUp
CHECK_DEADLOCK FALSE
