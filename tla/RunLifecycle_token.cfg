\* Two processes, one run, no cleanup: the leases against the token.
CONSTANTS
  o1 = o1
  o2 = o2
  r1 = r1
  Owner = {o1, o2}
  Run = {r1}
  Sweepers = {}
  TTL = 2
  MaxAge = 0
  MaxRecoveries = 2
  NoRow = NoRow
  Nobody = Nobody
SPECIFICATION FairSpec
PROPERTIES
  LeasesAreTokens
  WriteLockIsFreed
  OrphanExpires
\* Every process may end.
CHECK_DEADLOCK FALSE
