------------------------------- MODULE JobQueue -------------------------------
(***************************************************************************)
(* The job queue of core/jobs/jobQueue.ts: a MongoDB collection of jobs    *)
(* claimed under a lease by the loops of several runner processes.         *)
(*                                                                         *)
(* A database call is one step.  A loop is between two of its calls when   *)
(* it runs a handler and when the handler has returned and the write of    *)
(* its result has not been made yet: a crash, a lapsed lease, or another   *)
(* loop's claim may fall there.                                            *)
(*                                                                         *)
(* Time is abstracted to what the claim filter compares with it: `due`     *)
(* says runAt <= now, `lapsed` says lockedUntil < now.  The claim sorts by *)
(* runAt; here any due job may be claimed, which includes that order.      *)
(***************************************************************************)
EXTENDS Naturals, FiniteSets

CONSTANTS
  Jobs,         \* the job documents that may ever be created
  Keys,         \* dedupe keys
  NoKey,        \* dedupeKey null
  Runners,      \* runner ids; a restarted process has a new one (jobQueue.ts:137)
  Loops,        \* polling or draining loops of all the runners
  RunnerOf,     \* the runner each loop belongs to
  NoRunner,     \* lockedBy null
  NoJob,        \* an idle loop
  MaxAttempts,  \* options.attempts of every job
  MaxFaults     \* bound on slow handlers and failed database writes

ASSUME JobQueueAssumption ==
  /\ NoKey \notin Keys
  /\ NoRunner \notin Runners
  /\ NoJob \notin Jobs
  /\ RunnerOf \in [Loops -> Runners]
  /\ MaxAttempts \in Nat \ {0}
  /\ MaxFaults \in Nat

VARIABLES
  job,     \* the collection
  loop,    \* what each loop is doing
  runner,  \* the state of each runner process
  faults,  \* slow handlers and failed writes so far
  handled, \* history: the jobs whose handler has succeeded at least once
  holder   \* history: the loop that claimed each job last

vars == <<job, loop, runner, faults, handled, holder>>

Statuses == {"absent", "pending", "running", "done", "failed", "removed"}

JobRecord == [status: Statuses, due: BOOLEAN, attempts: Nat,
              lockedBy: Runners \cup {NoRunner}, lapsed: BOOLEAN,
              live: BOOLEAN, key: Keys \cup {NoKey}]

\* `attempts` is job.attempts as the claim returned it; the loop decides with
\* that copy whether the job is exhausted.
LoopRecord == [pc: {"idle", "running", "ok", "defer", "fail"},
               job: Jobs \cup {NoJob}, attempts: Nat]

Absent == [status |-> "absent", due |-> FALSE, attempts |-> 0,
           lockedBy |-> NoRunner, lapsed |-> FALSE, live |-> FALSE, key |-> NoKey]

Idle == [pc |-> "idle", job |-> NoJob, attempts |-> 0]

Outstanding(j) == job[j].status \in {"pending", "running"}
Settled(j)     == job[j].status \in {"done", "failed", "removed"}

Init ==
  /\ job = [j \in Jobs |-> Absent]
  /\ loop = [l \in Loops |-> Idle]
  /\ runner = [r \in Runners |-> "up"]
  /\ faults = 0
  /\ handled = {}
  /\ holder = [j \in Jobs |-> NoJob]

-----------------------------------------------------------------------------
(* Producers                                                               *)

\* Mutant: an index over pending jobs only.
KeyTakenByPending(k) == k # NoKey /\ \E j \in Jobs : job[j].status = "pending" /\ job[j].key = k

\* The unique partial index on dedupeKey, over the documents with live = true.
KeyTaken(k) == k # NoKey /\ \E j \in Jobs : job[j].live /\ job[j].key = k

\* add(): a duplicate of a live key is the same job, and nothing is written.
Add(j, k, delayed) ==
  /\ job[j].status = "absent"
  /\ ~KeyTaken(k)
  /\ job' = [job EXCEPT ![j] = [Absent EXCEPT !.status = "pending", !.live = TRUE,
                                              !.key = k, !.due = ~delayed]]
  /\ UNCHANGED <<loop, runner, faults, handled, holder>>

-----------------------------------------------------------------------------
(* Time                                                                    *)

BecomeDue(j) ==
  /\ job[j].status = "pending" /\ ~job[j].due
  /\ job' = [job EXCEPT ![j].due = TRUE]
  /\ UNCHANGED <<loop, runner, faults, handled, holder>>

\* A loop of the lease's owner still works on the job under this very claim.
Attended(j) == \E l \in Loops : loop[l].job = j /\ holder[j] = l

\* The lease of an abandoned job runs out.
LeaseLapses(j) ==
  /\ job[j].status = "running" /\ ~job[j].lapsed /\ ~Attended(j)
  /\ job' = [job EXCEPT ![j].lapsed = TRUE]
  /\ UNCHANGED <<loop, runner, faults, handled, holder>>

\* The lease runs out under a handler that takes longer than leaseMs.
LeaseOutlived(j) ==
  /\ job[j].status = "running" /\ ~job[j].lapsed /\ Attended(j)
  /\ faults < MaxFaults
  /\ job' = [job EXCEPT ![j].lapsed = TRUE]
  /\ faults' = faults + 1
  /\ UNCHANGED <<loop, runner, handled, holder>>

\* The TTL index removes a settled job.
Expire(j) ==
  /\ job[j].status \in {"done", "failed"}
  /\ job' = [job EXCEPT ![j].status = "removed"]
  /\ UNCHANGED <<loop, runner, faults, handled, holder>>

-----------------------------------------------------------------------------
(* Runners                                                                 *)

\* Mutant: a claim that passes over abandoned jobs.
ClaimableUnlocked(j) == job[j].status = "pending" /\ job[j].due

Claimable(j) ==
  \/ job[j].status = "pending" /\ job[j].due
  \/ job[j].status = "running" /\ job[j].lapsed

\* Mutant: a claim that does not count the attempt, which a deferral gives back.
ClaimedUncounted(rec, r) == [rec EXCEPT !.status = "running", !.lockedBy = r, !.lapsed = FALSE]

ClaimedRecord(rec, r) == [rec EXCEPT !.status = "running", !.lockedBy = r,
                                     !.lapsed = FALSE, !.attempts = rec.attempts + 1]

\* claim(): one findOneAndUpdate takes the job, whoever held it before.
Claim(l, j) ==
  /\ loop[l].pc = "idle"
  /\ runner[RunnerOf[l]] = "up"
  /\ Claimable(j)
  /\ job' = [job EXCEPT ![j] = ClaimedRecord(job[j], RunnerOf[l])]
  /\ loop' = [loop EXCEPT ![l] = [pc |-> "running", job |-> j,
                                  attempts |-> job[j].attempts + 1]]
  /\ holder' = [holder EXCEPT ![j] = l]
  /\ UNCHANGED <<runner, faults, handled>>

\* The handler returns ("ok"), throws DeferJob ("defer"), or throws ("fail").
HandlerEnds(l, outcome) ==
  /\ loop[l].pc = "running"
  /\ loop' = [loop EXCEPT ![l].pc = outcome]
  /\ handled' = IF outcome = "ok" THEN handled \cup {loop[l].job} ELSE handled
  /\ UNCHANGED <<job, runner, faults, holder>>

\* Mutant: a write that finds its job by id alone.
OwnedById(l, j) == job[j].status # "removed"

\* The filter of every write after a claim (`owned`).
Owned(l, j) == job[j].status = "running" /\ job[j].lockedBy = RunnerOf[l]

DoneRecord(rec)  == [rec EXCEPT !.status = "done", !.live = FALSE,
                                !.lockedBy = NoRunner, !.lapsed = FALSE]
\* Mutant: a deferral taken for a success.
DeferredAsDone(rec) == DoneRecord(rec)

DeferredRecord(rec) == [rec EXCEPT !.status = "pending", !.due = FALSE,
                                   !.attempts = rec.attempts - 1,
                                   !.lockedBy = NoRunner, !.lapsed = FALSE]
RetryRecord(rec) == [rec EXCEPT !.status = "pending", !.due = FALSE,
                                !.lockedBy = NoRunner, !.lapsed = FALSE]
\* Mutant: a dead letter that still blocks its key.
DeadStillLive(rec) == [rec EXCEPT !.status = "failed", !.lockedBy = NoRunner, !.lapsed = FALSE]

DeadRecord(rec)  == [rec EXCEPT !.status = "failed", !.live = FALSE,
                                !.lockedBy = NoRunner, !.lapsed = FALSE]

\* updateOne(owned, ...): the job of loop l becomes rec, or nothing matches.
UpdateOwned(l, rec) ==
  LET j == loop[l].job
  IN  job' = IF Owned(l, j) THEN [job EXCEPT ![j] = rec] ELSE job

Complete(l) ==
  /\ loop[l].pc = "ok"
  /\ UpdateOwned(l, DoneRecord(job[loop[l].job]))
  /\ loop' = [loop EXCEPT ![l] = Idle]
  /\ UNCHANGED <<runner, faults, handled, holder>>

\* The write of a success fails, with or without having been applied: the error
\* lands in the catch block and counts as a failure of the handler.
CompleteErrs(l) ==
  /\ loop[l].pc = "ok" /\ faults < MaxFaults
  /\ \/ UpdateOwned(l, DoneRecord(job[loop[l].job]))
     \/ UNCHANGED job
  /\ loop' = [loop EXCEPT ![l].pc = "fail"]
  /\ faults' = faults + 1
  /\ UNCHANGED <<runner, handled, holder>>

Defer(l) ==
  /\ loop[l].pc = "defer"
  /\ UpdateOwned(l, DeferredRecord(job[loop[l].job]))
  /\ loop' = [loop EXCEPT ![l] = Idle]
  /\ UNCHANGED <<runner, faults, handled, holder>>

\* Mutant: one attempt short.
ExhaustedEarly(l) == loop[l].attempts + 1 >= MaxAttempts

Exhausted(l) == loop[l].attempts >= MaxAttempts

Retry(l) ==
  /\ loop[l].pc = "fail" /\ ~Exhausted(l)
  /\ UpdateOwned(l, RetryRecord(job[loop[l].job]))
  /\ loop' = [loop EXCEPT ![l] = Idle]
  /\ UNCHANGED <<runner, faults, handled, holder>>

DeadLetter(l) ==
  /\ loop[l].pc = "fail" /\ Exhausted(l)
  /\ UpdateOwned(l, DeadRecord(job[loop[l].job]))
  /\ loop' = [loop EXCEPT ![l] = Idle]
  /\ UNCHANGED <<runner, faults, handled, holder>>

\* A write of the catch block fails: poll() logs it and goes on; the job stays
\* running until its lease lapses.
CatchErrs(l) ==
  /\ loop[l].pc \in {"defer", "fail"} /\ faults < MaxFaults
  /\ loop' = [loop EXCEPT ![l] = Idle]
  /\ faults' = faults + 1
  /\ UNCHANGED <<job, runner, handled, holder>>

\* The last runner stands for every one the schedule will start after it.
OtherUp(r) == \E s \in Runners \ {r} : runner[s] = "up"

\* close(), or a drain whose budget is spent: nothing new is claimed.
Stop(r) ==
  /\ runner[r] = "up" /\ OtherUp(r)
  /\ runner' = [runner EXCEPT ![r] = "stopping"]
  /\ UNCHANGED <<job, loop, faults, handled, holder>>

\* The process dies with whatever its loops were doing.
Crash(r) ==
  /\ runner[r] # "down" /\ OtherUp(r)
  /\ runner' = [runner EXCEPT ![r] = "down"]
  /\ loop' = [l \in Loops |-> IF RunnerOf[l] = r THEN Idle ELSE loop[l]]
  /\ UNCHANGED <<job, faults, handled, holder>>

-----------------------------------------------------------------------------
LoopStep(l) ==
  \/ \E o \in {"ok", "defer", "fail"} : HandlerEnds(l, o)
  \/ Complete(l) \/ CompleteErrs(l) \/ Defer(l)
  \/ Retry(l) \/ DeadLetter(l) \/ CatchErrs(l)

JobStep(j) ==
  \/ \E k \in Keys \cup {NoKey}, d \in BOOLEAN : Add(j, k, d)
  \/ BecomeDue(j) \/ LeaseLapses(j) \/ LeaseOutlived(j) \/ Expire(j)
  \/ \E l \in Loops : Claim(l, j)

Next ==
  \/ \E j \in Jobs : JobStep(j)
  \/ \E l \in Loops : LoopStep(l)
  \/ \E r \in Runners : Stop(r) \/ Crash(r)

Spec == Init /\ [][Next]_vars

\* Clocks advance, a loop that has started a handler goes on, and a due job is
\* claimed in the end: claims are sorted by runAt, so only finitely many jobs
\* are ever ahead of one.  A handler that is run for ever does not defer for ever.
Fairness ==
  /\ \A j \in Jobs :
       /\ WF_vars(BecomeDue(j)) /\ WF_vars(LeaseLapses(j))
       /\ SF_vars(\E l \in Loops : Claim(l, j))
       /\ SF_vars(\E l \in Loops, o \in {"ok", "fail"} :
                     loop[l].job = j /\ holder[j] = l /\ HandlerEnds(l, o))
  /\ \A l \in Loops : WF_vars(LoopStep(l))

FairSpec == Spec /\ Fairness

-----------------------------------------------------------------------------
(* Properties                                                              *)

\* Every variable has its type (the schema of job.model.ts and the loop's locals).
TypeOK ==
  /\ job \in [Jobs -> JobRecord]
  /\ loop \in [Loops -> LoopRecord]
  /\ \A l \in Loops : loop[l].pc # "idle" => loop[l].job \in Jobs
  /\ runner \in [Runners -> {"up", "stopping", "down"}]
  /\ faults \in 0..MaxFaults
  /\ handled \subseteq Jobs
  /\ holder \in [Jobs -> Loops \cup {NoJob}]

\* Two outstanding jobs never carry the same dedupe key, whatever late writes
\* of earlier claims arrive: clicking "Import" twice is one import.
OneOutstandingPerKey ==
  \A i, j \in Jobs :
    (Outstanding(i) /\ Outstanding(j) /\ job[i].key = job[j].key /\ job[i].key # NoKey) => i = j

\* `live`, which the dedupe index is filtered by, agrees with `status`: a
\* settled job never blocks the same work from being queued again, and an
\* outstanding one always does.
LiveIffOutstanding == \A j \in Jobs : job[j].live <=> Outstanding(j)

\* A dead-lettered job has had all its attempts, although a loop decides on the
\* count it claimed with and a deferral gives an attempt back.
DeadLetterEarned ==
  \A j \in Jobs : job[j].status = "failed" => job[j].attempts >= MaxAttempts

\* A job is marked done only if its handler succeeded.
DoneMeansHandled == \A j \in Jobs : job[j].status = "done" => j \in handled

\* A settled job is never run again nor changes from done to failed, whatever
\* late loops write.
SettledIsFinal ==
  [][\A j \in Jobs : Settled(j) => job'[j].status \in {job[j].status, "removed"}]_vars

\* If loop l, going on from a claim, changes a job, its process holds the lease:
\* the last claim of that job was made by l or by a loop of the same process.
HolderWrites(l) ==
  (loop[l].pc # "idle" /\ loop'[l] # loop[l] /\ job' # job) =>
    RunnerOf[holder[loop[l].job]] = RunnerOf[l]

\* "A runner whose lease was taken over cannot overwrite the result of the runner
\* that took it" (job.model.ts, header): whatever its loops still write, a process
\* changes nothing of a job that another process has claimed since.  It is said of
\* processes because the lease carries the id of the process (jobQueue.ts:137, 211):
\* a loop whose lease a sibling took over does pass the filter, and may settle or
\* release the job the sibling is running.
OnlyHolderSettles == [][\A l \in Loops : HolderWrites(l)]_vars

\* The register of jobs this implements: a job is outstanding while it waits, while
\* it runs, and while it is held by a runner that has died.
Register == INSTANCE JobRegister WITH
  state <- [j \in Jobs |-> IF Outstanding(j) THEN "outstanding" ELSE job[j].status],
  key <- [j \in Jobs |-> job[j].key],
  spent <- [j \in Jobs |-> job[j].attempts],
  succeeded <- handled

\* Leases, late writes, crashes and lost answers keep what the queue promises:
\* jobs that are durable, retried, deduplicated and dead-lettered (job.model.ts, header).
ImplementsJobRegister == Register!Spec

\* No job is started more often than it has attempts: one that kills its
\* runner each time is dead-lettered in the end.
NoRunBeyondMaxAttempts == \A j \in Jobs : job[j].attempts <= MaxAttempts

\* Every queued job is settled in the end, through crashes and lapsed leases.
EveryJobSettles == \A j \in Jobs : Outstanding(j) ~> Settled(j)

=============================================================================
