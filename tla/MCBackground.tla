----------------------------- MODULE MCBackground -----------------------------
(* The components that work behind the requests, in one run.  A behaviour is  *)
(* one of the component named by scenario; the variables of the others stay   *)
(* at their initial values.  Since no action of a component reads or writes a *)
(* variable of another, the reachable states are those of the components one  *)
(* by one, not of their product.                                              *)
EXTENDS JobQueue, Outbox, Schedules, Mail, RateLimit, Notices, TLC

CONSTANTS
  x1, x2,          \* jobs, messages, organisations
  y1, y2,          \* deliveries, containers, scanners
  t1, t2, t3,      \* ticks
  k1, a1, a2, b1, c1, n1, n2, n3, q1, w1, m1,
  Scenarios        \* the components to follow

VARIABLE scenario

backgroundVars == <<vars, outboxVars, scheduleVars, mailVars, rateLimitVars, noticeVars, scenario>>

AllScenarios == {"queue", "outbox", "schedules", "mail", "limits", "notices"}

LiveScenarios == {"queue", "outbox"}

ASSUME ScenariosAssumption == Scenarios \subseteq AllScenarios

\* Runner n1 has the loops a1 and a2, runner n2 the loop b1, runner n3 the loop c1.
MCRunnerOf == [l \in Loops |-> IF l = b1 THEN n2 ELSE IF l = c1 THEN n3 ELSE n1]

\* An asset event, which goes to audit (1) and timeline (2), and one that goes
\* to audit only.
AuditAndTimeline == [e \in Events |-> IF e = 1 THEN {1, 2} ELSE {1}]

AuditOnly == [e \in Events |-> {1}]

\* Two thresholds, the wider one first, as in scans.service.ts.
WideAndTight == <<3, 1>>

\* The components name the same two records and the same two actors, so that
\* one permutation serves whichever component is followed.
Symmetry == Permutations({x1, x2}) \cup Permutations({y1, y2})

BackgroundInit ==
  /\ scenario \in Scenarios
  /\ Init /\ OutboxInit /\ SchedulesInit /\ MailInit /\ RateLimitInit /\ NoticesInit

Following(s, others) == scenario = s /\ UNCHANGED <<others, scenario>>

BackgroundNext ==
  \/ /\ Following("queue", <<outboxVars, scheduleVars, mailVars, rateLimitVars, noticeVars>>)
     /\ Next
  \/ /\ Following("outbox", <<vars, scheduleVars, mailVars, rateLimitVars, noticeVars>>)
     /\ OutboxNext
  \/ /\ Following("schedules", <<vars, outboxVars, mailVars, rateLimitVars, noticeVars>>)
     /\ SchedulesNext
  \/ /\ Following("mail", <<vars, outboxVars, scheduleVars, rateLimitVars, noticeVars>>)
     /\ MailNext
  \/ /\ Following("limits", <<vars, outboxVars, scheduleVars, mailVars, noticeVars>>)
     /\ RateLimitNext
  \/ /\ Following("notices", <<vars, outboxVars, scheduleVars, mailVars, rateLimitVars>>)
     /\ NoticesNext

BackgroundSpec == BackgroundInit /\ [][BackgroundNext]_backgroundVars

\* A component that is not followed has no job or event, so that no action its
\* fairness names is ever enabled and its fairness asks for nothing.
BackgroundFairSpec == BackgroundSpec /\ Fairness /\ OutboxFairness

\* Every variable of the component that is followed has its type.
BackgroundTypeOK ==
  CASE scenario = "queue" -> TypeOK
    [] scenario = "outbox" -> OutboxTypeOK
    [] scenario = "schedules" -> SchedulesTypeOK
    [] scenario = "mail" -> MailTypeOK
    [] scenario = "limits" -> RateLimitTypeOK
    [] scenario = "notices" -> NoticesTypeOK

=============================================================================
