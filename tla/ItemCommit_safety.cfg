\* Two plain files and a guarded one, and everything that may happen to them.
CONSTANTS
  f1 = f1
  f2 = f2
  guarded = guarded
  File = {f1, f2, guarded}
  Guarded = {guarded}
  Content = {absent, old, new, secret}
  Secret = {secret}
  Absent = absent
  Faults = {"status", "edits"}
SYMMETRY Symmetry
SPECIFICATION Spec
PROPERTIES
  NothingRiskyIsCommitted
  WholeItemIsCommitted
\* The run ends.
CHECK_DEADLOCK FALSE
