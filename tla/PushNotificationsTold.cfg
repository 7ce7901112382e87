SPECIFICATION Spec
CONSTANTS
  Tokens = {t1, t2}
  WebTokens = {t1}
  Users = {u1, u2}
  Senders = {s1}
  Requests = {q1, q2, q3}
  Null = Null
  MaxNotifications = 2
  MaxFaults = 2
SYMMETRY Alike
INVARIANTS TypeOK RegistrationLostOnlyByOverlap EveryoneIsTold
CHECK_DEADLOCK FALSE
