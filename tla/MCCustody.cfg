CONSTANTS
  a1 = a1  a2 = a2  p1 = p1  p2 = p2  r1 = r1  r2 = r2  i1 = i1  i2 = i2  i3 = i3
  Assets = {a1}
  People = {p1, p2}
  Requests = {r1, r2}
  Ids = {i1, i2, i3}
  None = None
  Workflow <- ShortWorkflow
  Terminal <- DefaultTerminal
SPECIFICATION Spec
INVARIANTS PointerAgrees ChainOfCustody
PROPERTIES HistoryIsKept ImplementsRegister
SYMMETRY Symmetry
CHECK_DEADLOCK FALSE
