------------------------------ MODULE Schedules -------------------------------
(* One recurring task, claimed for a period in the database by whoever ticks:  *)
(* EventBridge each minute, a local scheduler each thirty seconds, a retry of  *)
(* either.  A tick that wins the claim then queues the job under a fixed id.   *)
EXTENDS Integers, FiniteSets

CONSTANTS
  Ticks,     \* callers of runDueSchedules()
  Interval,  \* intervalMs
  Horizon,   \* bound: instants followed
  NeverRun   \* no row for the schedule yet

ASSUME SchedulesAssumption == Interval \in Nat \ {0} /\ Horizon \in Nat /\ NeverRun \notin Int

VARIABLES
  now,        \* the clock
  lastRunAt,  \* the schedule's row
  tick,       \* what each caller holds
  claims,     \* history: how many claims were won with each instant
  outstanding \* the job of the fixed id is queued or running

scheduleVars == <<now, lastRunAt, tick, claims, outstanding>>

Tick == [pc : {"idle"}] \cup [pc : {"claim", "enqueue"}, now : 0..Horizon]

IdleTick == [pc |-> "idle"]

SchedulesTypeOK ==
  /\ now \in 0..Horizon
  /\ lastRunAt \in 0..Horizon \cup {NeverRun}
  /\ tick \in [Ticks -> Tick]
  /\ claims \in [0..Horizon -> Nat]
  /\ outstanding \in BOOLEAN

SchedulesInit ==
  /\ now = 0
  /\ lastRunAt = NeverRun
  /\ tick = [t \in Ticks |-> IdleTick]
  /\ claims = [i \in 0..Horizon |-> 0]
  /\ outstanding = FALSE

(* The instant is taken once, before the schedules are gone through in turn.   *)
RunDueSchedules(t) ==
  /\ tick[t] = IdleTick
  /\ tick' = [tick EXCEPT ![t] = [pc |-> "claim", now |-> now]]
  /\ UNCHANGED <<now, lastRunAt, claims, outstanding>>

(* Mutant: a schedule is due as soon as the clock has moved on.                *)
DueAtNextTick(at) == lastRunAt = NeverRun \/ lastRunAt < at

(* lastRunAt <= now - intervalMs, or an upsert that meets no row.              *)
Due(at) == lastRunAt = NeverRun \/ lastRunAt <= at - Interval

ClaimSchedule(t) ==
  /\ tick[t].pc = "claim"
  /\ LET at == tick[t].now
     IN IF Due(at)
          THEN /\ lastRunAt' = at
               /\ claims' = [claims EXCEPT ![at] = @ + 1]
               /\ tick' = [tick EXCEPT ![t].pc = "enqueue"]
          ELSE /\ tick' = [tick EXCEPT ![t] = IdleTick]
               /\ UNCHANGED <<lastRunAt, claims>>
  /\ UNCHANGED <<now, outstanding>>

(* add() under a job id that is outstanding adds nothing.                      *)
Enqueue(t) ==
  /\ tick[t].pc = "enqueue"
  /\ outstanding' = TRUE
  /\ tick' = [tick EXCEPT ![t] = IdleTick]
  /\ UNCHANGED <<now, lastRunAt, claims>>

JobSettles ==
  /\ outstanding
  /\ outstanding' = FALSE
  /\ UNCHANGED <<now, lastRunAt, tick, claims>>

(* The caller dies, or the error is logged and the period goes without.        *)
TickFails(t) ==
  /\ tick[t] # IdleTick
  /\ tick' = [tick EXCEPT ![t] = IdleTick]
  /\ UNCHANGED <<now, lastRunAt, claims, outstanding>>

ClockAdvances ==
  /\ now < Horizon
  /\ now' = now + 1
  /\ UNCHANGED <<lastRunAt, tick, claims, outstanding>>

SchedulesNext ==
  \/ \E t \in Ticks : RunDueSchedules(t) \/ ClaimSchedule(t) \/ Enqueue(t) \/ TickFails(t)
  \/ JobSettles \/ ClockAdvances

SchedulesSpec == SchedulesInit /\ [][SchedulesNext]_scheduleVars

-------------------------------------------------------------------------------
(* "Of any number of simultaneous callers exactly one sees true"               *)
(* (schedule.ts:37): however late a caller claims with the instant it began    *)
(* at, no two claims are closer than an interval.                              *)
OncePerPeriod ==
  LET won == {i \in 0..Horizon : claims[i] > 0}
  IN  /\ \A i \in won : claims[i] = 1
      /\ \A i, j \in won : i < j => j - i >= Interval

=============================================================================
