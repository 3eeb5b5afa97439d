CONSTANTS
  r1 = r1  r2 = r2  x1 = x1  x2 = x2  x3 = x3
  l1 = l1  h1 = h1  h2 = h2  u1 = u1  u2 = u2
  d1 = d1
  Scenarios = {"units"}
  Licenced = {l1}
  Holders = {h1, h2}
  Seats = {x1, x2, x3}
  Sizes = {1, 2}
  Unlimited = Unlimited
  Requests = {r1, r2}
  None = None
  Clients = {r1, r2}
  RefreshTokens = {h1, h2}
  Links = {l1}
  MaxFailures = 1
  MaxVersion = 1
  Nobody = Nobody
  Callers = {r1, r2}
  Users = {u1, u2}
  Founder = u1
  Invitations = {l1}
  SeatLimit = 2
  MaxEdits = 1
  NoRow = NoRow
  Removed = Removed
  Docs = {d1}
  DocRequests = {r1, r2}
  Files <- MCFiles
  MaxFileSize = 2
  StorageLimit = 2
  MaxCounted = 2
  Absent = Absent
  Purged = Purged
  Works = {x1, x2, x3}
  Technicians = {r1, r2}
  WorkshopEdges <- MCEdges
  MaxVisits = 4
  NoWork = NoWork
  Tokens = {x1, x2, x3}
  Desks = {r1, r2}
  LastDay = 1
  Unasked = Unasked
  Units = {x1, x2, x3}
  Editors = {r1}
  Residents = {l1}
  MaxUnitEdits = 6
  Nil = Nil
  Staff = {x1, x2, x3}
  Officers = {r1, r2}
  MaxWalk = 2
  NoOne = NoOne
  Countables = {x1, x2, x3}
  Clerks = {r1, r2}
  PlanLimit = 2
  MaxOrders = 4
  Uncreated = Uncreated
  FieldRequests = {r1, r2}
  FieldOptions = {h1, h2}
  MaxFields = 2
  MaxAsks = 4
  NoValue = NoValue
  RowIds = {1, 2, 3, 4}
  Ticks = {1, 2}
  PageSizes = {1, 2}
  NotThere = NotThere
  Columns = 3
  Targets = {1, 2}
  Needed = {1}
  Wholes = {0, 7, 120, 1200, 45678, 1234567}
  Unread = Unread
  Registrars = {r1, r2}
  Emails = {h1, h2}
  Slugs = {1, 2}
  Names = {l1}
  MaxBegun = 3
  Unset = Unset
SPECIFICATION RequestsSpec
SYMMETRY Symmetry
INVARIANTS RestoredPathsAgree
CHECK_DEADLOCK FALSE
