\* Two items, every kind of delivery, every fault but a failing worktree or git status.
CONSTANTS
  N = 2
  IdOf <- DistinctIds
  NoItem = NoItem
  MaxAttempts = 2
  MaxTotalAttempts = 3
  Deliveries = {"none", "dry_run", "github"}
  Faults = {"busy", "lease", "error", "crash", "cancel", "budget"}
  MaxMishaps = 1
SPECIFICATION Spec
INVARIANTS
  TypeOK
  CommittedOnce
  BuildsBounded
  RetryIsDue
  CancelledEndsCancelled
  DeliveredIsComplete
  EndReleasesLease
PROPERTIES
  CommitsAreChecked
  PushIsComplete
  StoppedHasNoEffect
\* The run ends.
CHECK_DEADLOCK FALSE
