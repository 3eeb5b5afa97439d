CONSTANTS
  x1 = x1  x2 = x2  y1 = y1  y2 = y2  t1 = t1  t2 = t2  t3 = t3  k1 = k1  a1 = a1
  a2 = a2  b1 = b1  c1 = c1  n1 = n1  n2 = n2  n3 = n3  q1 = q1  w1 = w1  m1 = m1
  Scenarios = {"outbox"}
  Jobs = {x1, x2}
  Keys = {k1}
  NoKey = NoKey
  Runners = {n1, n2}
  Loops = {a1, a2, b1}
  RunnerOf <- MCRunnerOf
  NoRunner = NoRunner
  NoJob = NoJob
  MaxAttempts = 2
  MaxFaults = 1
  Events = {1, 2}
  Subscribers = {1, 2}
  Applicable <- AuditAndTimeline
  Idempotent = {2}
  Emitters = {q1}
  Sweepers = {w1}
  Limit = 2
  DeadAfter = 2
  MaxOutboxFaults = 1
  Ticks = {t1, t2, t3}
  Interval = 2
  Horizon = 5
  NeverRun = NeverRun
  Messages = {x1, x2}
  MailKeys = {k1}
  Unkeyed = Unkeyed
  Senders = {q1}
  Deliveries = {y1, y2}
  MaxSends = 2
  NoMessage = NoMessage
  Containers = {y1, y2}
  WindowLength = 2
  HitLimit = 1
  LastInstant = 4
  MaxHits = 4
  Organisations = {x1, x2}
  Members = {m1}
  Thresholds <- WideAndTight
  FirstDays = 4
  Scanners = {y1, y2}
SPECIFICATION BackgroundSpec
PROPERTIES DeadLettersRest
CHECK_DEADLOCK FALSE
