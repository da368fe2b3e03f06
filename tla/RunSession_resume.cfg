\* A run that waits for the operator is resumed while its lease is live.
CONSTANTS
  o1 = o1
  o2 = o2
  r1 = r1
  Owner = {o1, o2}
  Run = {r1}
  Sweepers = {}
  TTL = 1
  MaxAge = 0
  MaxRecoveries = 1
  NoRow = NoRow
  Nobody = Nobody
  NoSession = NoSession
SPECIFICATION SessionSpec
PROPERTIES
  InterruptedStaysResumable
\* Every process may end.
CHECK_DEADLOCK FALSE
