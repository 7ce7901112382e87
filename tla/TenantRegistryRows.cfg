SPECIFICATION Spec
CONSTANTS
  Tenants = {t1, t2}
  Devices = {d1, d2}
  Users = {u1}
  Names = {n1, n2}
  Labels = {l1}
  Zones = {z1, z2}
  DefaultZone = z1
  Clients = {c1, c2, c3}
  Null = Null
  MaxFaults = 1
SYMMETRY AlikeClients
INVARIANTS TypeOK LostOnlyByOverlap TwinsOnlyByRace
PROPERTIES DeletedIsFinal DefaultsYield
CHECK_DEADLOCK FALSE
