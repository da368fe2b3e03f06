\* Three processes that may all run cleanup, one run: every interleaving.
CONSTANTS
  o1 = o1
  o2 = o2
  o3 = o3
  r1 = r1
  Owner = {o1, o2, o3}
  Run = {r1}
  Sweepers = {o1, o2, o3}
  TTL = 1
  MaxAge = 0
  MaxRecoveries = 1
  NoRow = NoRow
  Nobody = Nobody
SYMMETRY Symmetry
SPECIFICATION Spec
INVARIANTS
  GrantBacked
  OneLiveHolder
  TablesAgree
  FinishedIsReleased
PROPERTIES
  LiveLeaseKept
  RecoveryCountsTakeovers
\* Every process may end.
CHECK_DEADLOCK FALSE
