\* Two processes, one thread of three checkpoints at most.
CONSTANTS
  Process = {p1, p2}
  Thread = {t1}
  Retention = 2
  Keep = {1}
  MaxAge = {0}
  NoAge = NoAge
  NoWork = NoWork
  Legacy <- OldAndNew
  Touched = {"cancel_requested"}
  MaxCheckpoints = 3
  MaxTime = 1
SYMMETRY Symmetry
SPECIFICATION Spec
INVARIANTS
  RestartReadsTheSame
PROPERTIES
  ResumesFromLastPut
  NewestAreKept
  RetentionIsApplied
  UnfinishedIsKept
  WritesGoToo
