\* Two runs with similar ids, one command at a time.
CONSTANTS
  r1 = r1
  r2 = r2
  text = text
  c1 = c1
  Run = {r1, r2}
  Clean <- SameText
  Changed = {r2}
  Workers = {r1}
  Cleaner = {c1}
  Flags <- Everything
SPECIFICATION Spec
PROPERTIES
  SteadyRunKeepsWork
  UnforcedKeepsLocalWork
