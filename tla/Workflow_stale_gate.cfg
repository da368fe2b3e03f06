\* A worktree fails at the policy gate.
CONSTANTS
  N = 2
  IdOf <- DistinctIds
  NoItem = NoItem
  MaxAttempts = 2
  MaxTotalAttempts = 3
  Deliveries = {"github"}
  Faults = {"workspace"}
  MaxMishaps = 1
SPECIFICATION Spec
PROPERTIES
  CommitsAreChecked
\* The run ends.
CHECK_DEADLOCK FALSE
