CONSTANTS
  A = A  B = B  u1 = u1  w1 = w1  w2 = w2  serial = serial
  Imports = {A, B}
  Rows = {1, 2}
  ImportOf <- MCImportOf
  Identity <- MCIdentity
  Users = {u1}
  Workers = {w1, w2}
  Strategies = {"update"}
  None = None
  MaxAttempts = 2
  MaxRequests = 4
  MaxFaults = 1
SPECIFICATION FairSpec
INVARIANTS OneImportAtATime
PROPERTIES CreatedAsOffered CommitEnds
CHECK_DEADLOCK FALSE
