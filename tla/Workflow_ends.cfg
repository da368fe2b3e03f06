\* Two items, delivery to GitHub, leases that are lost, a worktree that fails
\* once, a git status that fails: the run ends, and commits nothing unvalidated.
CONSTANTS
  N = 2
  IdOf <- DistinctIds
  NoItem = NoItem
  MaxAttempts = 2
  MaxTotalAttempts = 3
  Deliveries = {"github"}
  Faults = {"lease", "workspace", "status"}
  MaxMishaps = 1
SPECIFICATION FairSpec
PROPERTIES
  CommitsAreValidated
  RunEnds
\* The run ends.
CHECK_DEADLOCK FALSE
