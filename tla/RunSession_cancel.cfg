\* A run is cancelled while a process is on it.
CONSTANTS
  o1 = o1
  o2 = o2
  r1 = r1
  Owner = {o1, o2}
  Run = {r1}
  Sweepers = {}
  TTL = 1
  MaxAge = 0
  MaxRecoveries = 1
  NoRow = NoRow
  Nobody = Nobody
  NoSession = NoSession
SPECIFICATION SessionSpec
PROPERTIES
  CancellationIsKept
\* Every process may end.
CHECK_DEADLOCK FALSE
