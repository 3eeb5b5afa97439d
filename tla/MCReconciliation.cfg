CONSTANTS
  a1 = a1  p1 = p1  r1 = r1  i1 = i1  i2 = i2
  Assets = {a1}
  People = {p1}
  Requests = {r1}
  Ids = {i1, i2}
  None = None
  Workflow <- ShortWorkflow
  Terminal <- DefaultTerminal
SPECIFICATION DriftedSpec
INVARIANTS QuietRunRepairs
PROPERTIES DriftEnds
CHECK_DEADLOCK FALSE
