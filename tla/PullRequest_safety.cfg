\* Two processes, two pull requests and two commits.
CONSTANTS
  p1 = p1
  p2 = p2
  l1 = l1
  Text = Text
  Process = {p1, p2}
  Policy = {l1}
  MaxPulls = 2
  MaxCommits = 2
SPECIFICATION Spec
SYMMETRY Symmetry
INVARIANTS
  NoDuplicate
PROPERTIES
  HandoffIsComplete
  HandoffHasTheWork
\* The run ends.
CHECK_DEADLOCK FALSE
