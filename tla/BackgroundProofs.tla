--------------------------- MODULE BackgroundProofs ---------------------------
(***************************************************************************)
(* What runs beside the requests: a job is kept until it has run, a period *)
(* is claimed once, an event is recorded for every subscriber, a scan      *)
(* misses nobody, a mail goes out with its link, and a container lets      *)
(* through twice the limit at most, for any number of jobs, runners,       *)
(* deliverers, events and containers.                                      *)
(***************************************************************************)
EXTENDS MCBackground, TotalsProofs

-------------------------------------------------------------------------------
(***************************************************************************)
(* The job queue.  A running job is leased to the runner of the loop that  *)
(* claimed it last, and no loop has seen more attempts than the job has.   *)
(***************************************************************************)

\* A running job is leased to the runner of the loop that claimed it last, and
\* has been counted as an attempt at least once.
LeaseInv ==
  \A j \in Jobs : job[j].status = "running" =>
    /\ holder[j] \in Loops
    /\ job[j].lockedBy = RunnerOf[holder[j]]
    /\ job[j].attempts >= 1

\* What the unique index of the collection says.
IndexInv ==
  \A i, j \in Jobs :
    (job[i].live /\ job[j].live /\ job[i].key = job[j].key /\ job[i].key # NoKey) => i = j

\* The count a loop claimed with never exceeds the count the job will have when
\* it next runs: a deferral gives back an attempt only by ending a run.
SeenInv ==
  \A l \in Loops : loop[l].pc # "idle" =>
    LET j == loop[l].job
    IN  /\ job[j].status = "running" => loop[l].attempts <= job[j].attempts
        /\ job[j].status = "pending" => loop[l].attempts <= job[j].attempts + 1
        /\ job[j].status # "absent"

\* A loop about to write a success has run the handler of its job.
SuccessInv == \A l \in Loops : loop[l].pc = "ok" => loop[l].job \in handled

IInv ==
  /\ TypeOK
  /\ LiveIffOutstanding
  /\ IndexInv
  /\ LeaseInv
  /\ SeenInv
  /\ DeadLetterEarned
  /\ DoneMeansHandled
  /\ SuccessInv

-----------------------------------------------------------------------------
\* The invariant holds at the start.
LEMMA InitIInv == Init => IInv
BY JobQueueAssumption
DEF Init, IInv, TypeOK, LiveIffOutstanding, IndexInv, LeaseInv, SeenInv, DeadLetterEarned,
    DoneMeansHandled, SuccessInv, Outstanding, JobRecord, LoopRecord, Statuses, Absent, Idle

\* What each update makes of a well-typed job is well typed.
LEMMA FlagRecords ==
  ASSUME NEW rec \in JobRecord
  PROVE  [rec EXCEPT !.due = TRUE] \in JobRecord /\ [rec EXCEPT !.lapsed = TRUE] \in JobRecord
<1>1. [rec EXCEPT !.due = TRUE] \in JobRecord
  BY DEF JobRecord
<1>2. \A b \in BOOLEAN : [rec EXCEPT !.lapsed = b] \in JobRecord
  BY DEF JobRecord
<1> QED BY <1>1, <1>2

\* A claimed job is well typed.
LEMMA ClaimedRecords ==
  ASSUME NEW rec \in JobRecord, NEW r \in Runners
  PROVE  ClaimedRecord(rec, r) \in JobRecord
<1>1. \A n \in Nat : [rec EXCEPT !.status = "running", !.lockedBy = r,
                                 !.lapsed = FALSE, !.attempts = n] \in JobRecord
  BY DEF JobRecord, Statuses
<1>2. rec.attempts + 1 \in Nat
  BY DEF JobRecord
<1> QED BY <1>1, <1>2 DEF ClaimedRecord

\* So is one that is completed, retried, dead-lettered or deferred.
LEMMA WrittenRecords ==
  ASSUME NEW rec \in JobRecord
  PROVE  /\ DoneRecord(rec) \in JobRecord
         /\ RetryRecord(rec) \in JobRecord
         /\ DeadRecord(rec) \in JobRecord
         /\ rec.attempts >= 1 => DeferredRecord(rec) \in JobRecord
<1>1. \A s \in Statuses, b \in BOOLEAN :
        [rec EXCEPT !.status = s, !.live = b, !.lockedBy = NoRunner, !.lapsed = FALSE] \in JobRecord
  BY DEF JobRecord
<1>2. \A s \in Statuses, b \in BOOLEAN :
        [rec EXCEPT !.status = s, !.due = b, !.lockedBy = NoRunner, !.lapsed = FALSE] \in JobRecord
  BY DEF JobRecord
<1>3. \A n \in Nat : [rec EXCEPT !.status = "pending", !.due = FALSE, !.attempts = n,
                                 !.lockedBy = NoRunner, !.lapsed = FALSE] \in JobRecord
  BY DEF JobRecord, Statuses
<1>4. rec.attempts >= 1 => rec.attempts - 1 \in Nat
  BY DEF JobRecord
<1>5. {"pending", "done", "failed"} \subseteq Statuses
  BY DEF Statuses
<1> QED BY <1>1, <1>2, <1>3, <1>4, <1>5 DEF DoneRecord, RetryRecord, DeadRecord, DeferredRecord

\* A new job has a key that no live one has.
LEMMA AddIInv ==
  ASSUME NEW j \in Jobs, NEW k \in Keys \cup {NoKey}, NEW d \in BOOLEAN, IInv, Add(j, k, d)
  PROVE  IInv'
<1> USE JobQueueAssumption DEF IInv
<1>1. job[j].status = "absent" /\ ~KeyTaken(k)
  BY DEF Add
<1>2. \A i \in Jobs : job'[i] = IF i = j THEN job'[j] ELSE job[i]
  BY DEF Add, TypeOK, JobRecord, LoopRecord
<1>3. /\ job'[j].status = "pending" /\ job'[j].live /\ job'[j].key = k
      /\ UNCHANGED <<loop, handled, holder>>
  BY DEF Add, Absent, TypeOK, JobRecord, LoopRecord
<1>4. TypeOK'
  BY DEF Add, TypeOK, JobRecord, LoopRecord, Statuses, Absent
<1>5. LiveIffOutstanding'
  BY <1>1, <1>2, <1>3 DEF LiveIffOutstanding, Outstanding
<1>6. IndexInv'
  BY <1>1, <1>2, <1>3 DEF IndexInv, KeyTaken
<1>7. LeaseInv'
  BY <1>1, <1>2, <1>3 DEF LeaseInv
<1>8. SeenInv'
  BY <1>1, <1>2, <1>3 DEF SeenInv, TypeOK
<1>9. DeadLetterEarned'
  BY <1>1, <1>2, <1>3 DEF DeadLetterEarned
<1>10. DoneMeansHandled'
  BY <1>1, <1>2, <1>3 DEF DoneMeansHandled
<1>11. SuccessInv'
  BY <1>1, <1>2, <1>3 DEF SuccessInv
<1> QED BY <1>4, <1>5, <1>6, <1>7, <1>8, <1>9, <1>10, <1>11

\* A pending job becomes due.
LEMMA BecomeDueIInv ==
  ASSUME NEW j \in Jobs, IInv, BecomeDue(j)
  PROVE  IInv'
<1> USE JobQueueAssumption DEF IInv
<1>1. \A i \in Jobs : job'[i] = IF i = j THEN job'[j] ELSE job[i]
  BY DEF BecomeDue, TypeOK, JobRecord, LoopRecord
<1>2. /\ job'[j] = [job[j] EXCEPT !.due = TRUE]
      /\ UNCHANGED <<loop, handled, holder>>
  BY DEF BecomeDue, TypeOK, JobRecord, LoopRecord
<1>3. [job[j] EXCEPT !.due = TRUE] \in JobRecord
  BY FlagRecords DEF TypeOK
<1>4. TypeOK'
  BY <1>3 DEF BecomeDue, TypeOK
<1>5. LiveIffOutstanding'
  BY <1>1, <1>2 DEF LiveIffOutstanding, Outstanding, TypeOK, JobRecord, LoopRecord
<1>6. IndexInv'
  BY <1>1, <1>2 DEF IndexInv, TypeOK, JobRecord, LoopRecord
<1>7. LeaseInv'
  BY <1>1, <1>2 DEF LeaseInv, TypeOK, JobRecord, LoopRecord
<1>8. SeenInv'
  <2>1. \A i \in Jobs : job'[i].status = job[i].status /\ job'[i].attempts = job[i].attempts
    BY <1>1, <1>2 DEF TypeOK, JobRecord
  <2> QED BY <1>2, <2>1 DEF SeenInv, TypeOK
<1>9. DeadLetterEarned'
  BY <1>1, <1>2 DEF DeadLetterEarned, TypeOK, JobRecord, LoopRecord
<1>10. DoneMeansHandled'
  BY <1>1, <1>2 DEF DoneMeansHandled, TypeOK, JobRecord, LoopRecord
<1>11. SuccessInv'
  BY <1>1, <1>2 DEF SuccessInv, TypeOK, JobRecord, LoopRecord
<1> QED BY <1>4, <1>5, <1>6, <1>7, <1>8, <1>9, <1>10, <1>11

\* The lease of an abandoned job lapses.
LEMMA LeaseLapsesIInv ==
  ASSUME NEW j \in Jobs, IInv, LeaseLapses(j)
  PROVE  IInv'
<1> USE JobQueueAssumption DEF IInv
<1>1. \A i \in Jobs : job'[i] = IF i = j THEN job'[j] ELSE job[i]
  BY DEF LeaseLapses, TypeOK, JobRecord, LoopRecord
<1>2. /\ job'[j] = [job[j] EXCEPT !.lapsed = TRUE]
      /\ UNCHANGED <<loop, handled, holder>>
  BY DEF LeaseLapses, TypeOK, JobRecord, LoopRecord
<1>3. [job[j] EXCEPT !.lapsed = TRUE] \in JobRecord
  BY FlagRecords DEF TypeOK
<1>4. TypeOK'
  BY <1>3 DEF LeaseLapses, TypeOK
<1>5. LiveIffOutstanding'
  BY <1>1, <1>2 DEF LiveIffOutstanding, Outstanding, TypeOK, JobRecord, LoopRecord
<1>6. IndexInv'
  BY <1>1, <1>2 DEF IndexInv, TypeOK, JobRecord, LoopRecord
<1>7. LeaseInv'
  BY <1>1, <1>2 DEF LeaseInv, TypeOK, JobRecord, LoopRecord
<1>8. SeenInv'
  <2>1. \A i \in Jobs : job'[i].status = job[i].status /\ job'[i].attempts = job[i].attempts
    BY <1>1, <1>2 DEF TypeOK, JobRecord
  <2> QED BY <1>2, <2>1 DEF SeenInv, TypeOK
<1>9. DeadLetterEarned'
  BY <1>1, <1>2 DEF DeadLetterEarned, TypeOK, JobRecord, LoopRecord
<1>10. DoneMeansHandled'
  BY <1>1, <1>2 DEF DoneMeansHandled, TypeOK, JobRecord, LoopRecord
<1>11. SuccessInv'
  BY <1>1, <1>2 DEF SuccessInv, TypeOK, JobRecord, LoopRecord
<1> QED BY <1>4, <1>5, <1>6, <1>7, <1>8, <1>9, <1>10, <1>11

\* A lease lapses under its own handler.
LEMMA LeaseOutlivedIInv ==
  ASSUME NEW j \in Jobs, IInv, LeaseOutlived(j)
  PROVE  IInv'
<1> USE JobQueueAssumption DEF IInv
<1>1. \A i \in Jobs : job'[i] = IF i = j THEN job'[j] ELSE job[i]
  BY DEF LeaseOutlived, TypeOK, JobRecord, LoopRecord
<1>2. /\ job'[j] = [job[j] EXCEPT !.lapsed = TRUE]
      /\ UNCHANGED <<loop, handled, holder>>
  BY DEF LeaseOutlived, TypeOK, JobRecord, LoopRecord
<1>3. [job[j] EXCEPT !.lapsed = TRUE] \in JobRecord
  BY FlagRecords DEF TypeOK
<1>4. TypeOK'
  BY <1>3 DEF LeaseOutlived, TypeOK
<1>5. LiveIffOutstanding'
  BY <1>1, <1>2 DEF LiveIffOutstanding, Outstanding, TypeOK, JobRecord, LoopRecord
<1>6. IndexInv'
  BY <1>1, <1>2 DEF IndexInv, TypeOK, JobRecord, LoopRecord
<1>7. LeaseInv'
  BY <1>1, <1>2 DEF LeaseInv, TypeOK, JobRecord, LoopRecord
<1>8. SeenInv'
  <2>1. \A i \in Jobs : job'[i].status = job[i].status /\ job'[i].attempts = job[i].attempts
    BY <1>1, <1>2 DEF TypeOK, JobRecord
  <2> QED BY <1>2, <2>1 DEF SeenInv, TypeOK
<1>9. DeadLetterEarned'
  BY <1>1, <1>2 DEF DeadLetterEarned, TypeOK, JobRecord, LoopRecord
<1>10. DoneMeansHandled'
  BY <1>1, <1>2 DEF DoneMeansHandled, TypeOK, JobRecord, LoopRecord
<1>11. SuccessInv'
  BY <1>1, <1>2 DEF SuccessInv, TypeOK, JobRecord, LoopRecord
<1> QED BY <1>4, <1>5, <1>6, <1>7, <1>8, <1>9, <1>10, <1>11

\* The TTL index removes a settled job.
LEMMA ExpireIInv ==
  ASSUME NEW j \in Jobs, IInv, Expire(j)
  PROVE  IInv'
<1> USE JobQueueAssumption DEF IInv
<1>1. \A i \in Jobs : job'[i] = IF i = j THEN job'[j] ELSE job[i]
  BY DEF Expire, TypeOK, JobRecord, LoopRecord
<1>2. job[j].status \in {"done", "failed"} /\ job'[j].status = "removed"
  BY DEF Expire, TypeOK, JobRecord, LoopRecord
<1>3. job'[j].live = job[j].live /\ UNCHANGED <<loop, handled, holder>>
  BY DEF Expire, TypeOK, JobRecord, LoopRecord
<1>4. TypeOK'
  <2>1. [job[j] EXCEPT !.status = "removed"] \in JobRecord
    BY DEF TypeOK, JobRecord, Statuses
  <2> QED BY <2>1 DEF Expire, TypeOK
<1>5. LiveIffOutstanding'
  BY <1>1, <1>2, <1>3 DEF LiveIffOutstanding, Outstanding
<1>6. IndexInv'
  BY <1>1, <1>2, <1>3 DEF IndexInv, LiveIffOutstanding, Outstanding
<1>7. LeaseInv'
  BY <1>1, <1>2, <1>3 DEF LeaseInv
<1>8. SeenInv'
  BY <1>1, <1>2, <1>3 DEF SeenInv, TypeOK
<1>9. DeadLetterEarned'
  BY <1>1, <1>2, <1>3 DEF DeadLetterEarned
<1>10. DoneMeansHandled'
  BY <1>1, <1>2, <1>3 DEF DoneMeansHandled
<1>11. SuccessInv'
  BY <1>1, <1>2, <1>3 DEF SuccessInv
<1> QED BY <1>4, <1>5, <1>6, <1>7, <1>8, <1>9, <1>10, <1>11

\* A claim makes the claimer the holder and counts the attempt.
LEMMA ClaimIInv ==
  ASSUME NEW l \in Loops, NEW j \in Jobs, IInv, Claim(l, j)
  PROVE  IInv'
<1> USE JobQueueAssumption DEF IInv
<1>1. loop[l] = loop[l] /\ RunnerOf[l] \in Runners
  BY DEF TypeOK, JobRecord, LoopRecord
<1>2. \A i \in Jobs : job'[i] = IF i = j THEN job'[j] ELSE job[i]
  BY DEF Claim, TypeOK, JobRecord, LoopRecord
<1>3. /\ job[j].status \in {"pending", "running"}
      /\ job'[j].status = "running" /\ job'[j].lockedBy = RunnerOf[l]
      /\ job'[j].attempts = job[j].attempts + 1 /\ job[j].attempts \in Nat
      /\ job'[j].live = job[j].live /\ job'[j].key = job[j].key
  BY DEF Claim, Claimable, ClaimedRecord, TypeOK, JobRecord, LoopRecord
<1>4. /\ loop[l].pc = "idle"
      /\ loop' = [loop EXCEPT ![l] = [pc |-> "running", job |-> j, attempts |-> job[j].attempts + 1]]
      /\ holder' = [holder EXCEPT ![j] = l] /\ handled' = handled
  BY DEF Claim
<1>5. ClaimedRecord(job[j], RunnerOf[l]) \in JobRecord
  BY ClaimedRecords DEF TypeOK
<1>6. TypeOK'
  <2>1. job' \in [Jobs -> JobRecord]
    BY <1>5 DEF Claim, TypeOK
  <2>2. [pc |-> "running", job |-> j, attempts |-> job[j].attempts + 1] \in LoopRecord
    BY <1>3 DEF LoopRecord
  <2>3. loop' \in [Loops -> LoopRecord] /\ \A m \in Loops : loop'[m].pc # "idle" => loop'[m].job \in Jobs
    BY <1>4, <2>2 DEF TypeOK
  <2> QED BY <2>1, <2>3 DEF Claim, TypeOK
<1>7. LiveIffOutstanding'
  BY <1>1, <1>2, <1>3, <1>4 DEF LiveIffOutstanding, Outstanding
<1>8. IndexInv'
  BY <1>1, <1>2, <1>3, <1>4 DEF IndexInv
<1>9. LeaseInv'
  BY <1>1, <1>2, <1>3, <1>4 DEF LeaseInv, TypeOK
<1>10. SeenInv'
  BY <1>1, <1>2, <1>3, <1>4 DEF SeenInv, TypeOK, LoopRecord, JobRecord
<1>11. DeadLetterEarned'
  BY <1>1, <1>2, <1>3, <1>4 DEF DeadLetterEarned
<1>12. DoneMeansHandled'
  BY <1>1, <1>2, <1>3, <1>4 DEF DoneMeansHandled
<1>13. SuccessInv'
  BY <1>1, <1>2, <1>3, <1>4 DEF SuccessInv, TypeOK, LoopRecord
<1> QED BY <1>6, <1>7, <1>8, <1>9, <1>10, <1>11, <1>12, <1>13

\* A handler returns, defers or throws.
LEMMA HandlerEndsIInv ==
  ASSUME NEW l \in Loops, NEW o \in {"ok", "defer", "fail"}, IInv, HandlerEnds(l, o)
  PROVE  IInv'
<1> USE JobQueueAssumption DEF IInv
<1>1. /\ loop[l].pc = "running" /\ UNCHANGED <<job, holder>>
      /\ handled \subseteq handled'
      /\ o = "ok" => loop[l].job \in handled'
  BY DEF HandlerEnds
<1>2. /\ loop'[l] = [loop[l] EXCEPT !.pc = o]
      /\ \A m \in Loops \ {l} : loop'[m] = loop[m]
  BY DEF HandlerEnds, TypeOK, JobRecord, LoopRecord
<1>3. TypeOK'
  BY DEF HandlerEnds, TypeOK, JobRecord, LoopRecord, Statuses
<1>4. LiveIffOutstanding'
  BY <1>1, <1>2 DEF LiveIffOutstanding, Outstanding
<1>5. IndexInv'
  BY <1>1, <1>2 DEF IndexInv
<1>6. LeaseInv'
  BY <1>1, <1>2 DEF LeaseInv
<1>7. SeenInv'
  BY <1>1, <1>2 DEF SeenInv, TypeOK, LoopRecord
<1>8. DeadLetterEarned'
  BY <1>1, <1>2 DEF DeadLetterEarned
<1>9. DoneMeansHandled'
  BY <1>1, <1>2 DEF DoneMeansHandled
<1>10. SuccessInv'
  BY <1>1, <1>2 DEF SuccessInv, TypeOK, JobRecord, LoopRecord
<1> QED BY <1>3, <1>4, <1>5, <1>6, <1>7, <1>8, <1>9, <1>10

-----------------------------------------------------------------------------
\* The write a loop makes after its handler: whatever the loop becomes, and
\* whether or not the filter matches, the invariant survives a record that
\* keeps the key, keeps `live` with the status, and accounts for the attempts.
LEMMA WriteIInv ==
  ASSUME NEW l \in Loops, NEW rec \in JobRecord, NEW next \in LoopRecord,
         NEW j \in Jobs, j = loop[l].job,
         IInv, loop[l].pc # "idle", UpdateOwned(l, rec),
         loop' = [loop EXCEPT ![l] = next],
         next = Idle \/ (next.pc = "fail" /\ next.job = j /\ next.attempts = loop[l].attempts),
         UNCHANGED <<runner, handled, holder>>, faults' \in 0..MaxFaults,
         rec.key = job[j].key,
         rec.status \in {"pending", "done", "failed"},
         Owned(l, j) =>
           /\ rec.live <=> rec.status = "pending"
           /\ rec.status = "pending" => rec.attempts + 1 >= job[j].attempts
           /\ rec.status = "failed" => rec.attempts >= MaxAttempts
           /\ rec.status = "done" => j \in handled
  PROVE  IInv'
<1> USE JobQueueAssumption DEF IInv
<1>1. \/ job' = job
      \/ job[j].status = "running" /\ Owned(l, j) /\ job' = [job EXCEPT ![j] = rec]
  BY DEF UpdateOwned, Owned
<1>2. /\ \A i \in Jobs : job'[i] = job[i] \/ (i = j /\ job'[i] = rec /\ job[i].status = "running")
      /\ job' # job => Owned(l, j)
  BY <1>1 DEF TypeOK
<1>3. \A m \in Loops : loop'[m] = loop[m] \/ (m = l /\ loop'[m] = next)
  <2>1. DOMAIN loop = Loops
    BY DEF TypeOK
  <2> QED BY <2>1
<1>4. TypeOK'
  BY <1>1, <1>3 DEF TypeOK, LoopRecord, Idle
<1>5. LiveIffOutstanding'
  BY <1>2 DEF LiveIffOutstanding, Outstanding
<1>6. IndexInv'
  BY <1>2 DEF IndexInv, LiveIffOutstanding, Outstanding
<1>7. LeaseInv'
  BY <1>2 DEF LeaseInv
<1>8. SeenInv'
  <2> SUFFICES ASSUME NEW m \in Loops, loop'[m].pc # "idle"
               PROVE  LET i == loop'[m].job
                      IN  /\ job'[i].status = "running" => loop'[m].attempts <= job'[i].attempts
                          /\ job'[i].status = "pending" => loop'[m].attempts <= job'[i].attempts + 1
                          /\ job'[i].status # "absent"
    BY DEF SeenInv
  <2>1. /\ loop[m].pc # "idle" /\ loop'[m].job = loop[m].job
        /\ loop'[m].attempts = loop[m].attempts /\ loop[m].attempts \in Nat
        /\ loop[m].job \in Jobs
    BY <1>3 DEF Idle, TypeOK, LoopRecord
  <2>2. CASE job'[loop[m].job] = job[loop[m].job]
    BY <2>1, <2>2 DEF SeenInv
  <2>3. CASE job'[loop[m].job] # job[loop[m].job]
    <3>1. loop[m].job = j /\ job'[j] = rec /\ job[j].status = "running" /\ Owned(l, j)
      BY <1>2, <2>1, <2>3
    <3>2. job[j].attempts \in Nat /\ rec.attempts \in Nat
      BY DEF TypeOK, JobRecord
    <3> QED BY <2>1, <3>1, <3>2 DEF SeenInv
  <2> QED BY <2>2, <2>3
<1>9. DeadLetterEarned'
  BY <1>2 DEF DeadLetterEarned
<1>10. DoneMeansHandled'
  BY <1>2 DEF DoneMeansHandled
<1>11. SuccessInv'
  BY <1>3 DEF SuccessInv, Idle
<1> QED BY <1>4, <1>5, <1>6, <1>7, <1>8, <1>9, <1>10, <1>11

\* The write of a success.
LEMMA CompleteIInv ==
  ASSUME NEW l \in Loops, IInv, Complete(l)
  PROVE  IInv'
<1> USE JobQueueAssumption
<1> DEFINE j == loop[l].job
           rec == DoneRecord(job[j])
<1>1. j \in Jobs /\ loop[l].pc # "idle" /\ loop[l] \in LoopRecord /\ job[j] \in JobRecord
  BY DEF Complete, IInv, TypeOK
<1>2. Idle \in LoopRecord
  BY DEF LoopRecord, Idle
<1>3. rec \in JobRecord
  BY <1>1, WrittenRecords
<1>4. rec.key = job[j].key /\ rec.attempts = job[j].attempts /\ rec.attempts \in Nat
  BY <1>1 DEF DoneRecord, JobRecord
<1>5. rec.status = "done" /\ (rec.live <=> rec.status = "pending")
  BY <1>1 DEF DoneRecord, JobRecord
<1>6. j \in handled
  BY DEF Complete, IInv, SuccessInv
<1> QED BY <1>1, <1>2, <1>3, <1>4, <1>5, <1>6, WriteIInv DEF Complete, IInv, TypeOK

\* The write of a failure with attempts left.
LEMMA RetryIInv ==
  ASSUME NEW l \in Loops, IInv, Retry(l)
  PROVE  IInv'
<1> USE JobQueueAssumption
<1> DEFINE j == loop[l].job
           rec == RetryRecord(job[j])
<1>1. j \in Jobs /\ loop[l].pc # "idle" /\ loop[l] \in LoopRecord /\ job[j] \in JobRecord
  BY DEF Retry, IInv, TypeOK
<1>2. Idle \in LoopRecord
  BY DEF LoopRecord, Idle
<1>3. rec \in JobRecord
  BY <1>1, WrittenRecords
<1>4. rec.key = job[j].key /\ rec.attempts = job[j].attempts /\ rec.attempts \in Nat
  BY <1>1 DEF RetryRecord, JobRecord
<1>5. rec.status = "pending" /\ (Owned(l, j) => rec.live)
  BY <1>1 DEF RetryRecord, JobRecord, Owned, IInv, LiveIffOutstanding, Outstanding
<1>6. Owned(l, j) => /\ rec.live <=> rec.status = "pending"
                     /\ rec.attempts + 1 >= job[j].attempts
  BY <1>4, <1>5
<1>7. UpdateOwned(l, rec) /\ faults' \in 0..MaxFaults
  BY DEF Retry, IInv, TypeOK
<1>8. loop' = [loop EXCEPT ![l] = Idle] /\ UNCHANGED <<runner, handled, holder>>
  BY DEF Retry
<1> HIDE DEF rec
<1> QED BY <1>1, <1>2, <1>3, <1>4, <1>5, <1>6, <1>7, <1>8, WriteIInv

\* The write of the last failure.
LEMMA DeadLetterIInv ==
  ASSUME NEW l \in Loops, IInv, DeadLetter(l)
  PROVE  IInv'
<1> USE JobQueueAssumption
<1> DEFINE j == loop[l].job
           rec == DeadRecord(job[j])
<1>1. j \in Jobs /\ loop[l].pc # "idle" /\ loop[l] \in LoopRecord /\ job[j] \in JobRecord
  BY DEF DeadLetter, IInv, TypeOK
<1>2. Idle \in LoopRecord
  BY DEF LoopRecord, Idle
<1>3. rec \in JobRecord
  BY <1>1, WrittenRecords
<1>4. rec.key = job[j].key /\ rec.attempts = job[j].attempts /\ rec.attempts \in Nat
  BY <1>1 DEF DeadRecord, JobRecord
<1>5. rec.status = "failed" /\ (rec.live <=> rec.status = "pending")
  BY <1>1 DEF DeadRecord, JobRecord
<1>6. Owned(l, j) => job[j].attempts >= MaxAttempts
  BY <1>1 DEF DeadLetter, Exhausted, Owned, IInv, SeenInv, LoopRecord, JobRecord
<1> QED BY <1>1, <1>2, <1>3, <1>4, <1>5, <1>6, WriteIInv DEF DeadLetter, IInv, TypeOK

\* The write of a deferral, which gives the attempt back.
LEMMA DeferIInv ==
  ASSUME NEW l \in Loops, IInv, Defer(l)
  PROVE  IInv'
<1> USE JobQueueAssumption
<1> DEFINE j == loop[l].job
<1>1. j \in Jobs /\ loop[l].pc # "idle" /\ loop[l] \in LoopRecord /\ job[j] \in JobRecord
  BY DEF Defer, IInv, TypeOK
<1>2. Idle \in LoopRecord
  BY DEF LoopRecord, Idle
<1>3. CASE Owned(l, j)
  <2> DEFINE rec == DeferredRecord(job[j])
  <2>1. job[j].attempts >= 1
    BY <1>1, <1>3 DEF Owned, IInv, LeaseInv
  <2>2. rec \in JobRecord
    BY <1>1, <2>1, WrittenRecords
  <2>3. /\ rec.key = job[j].key /\ rec.attempts = job[j].attempts - 1
        /\ rec.status = "pending" /\ rec.live /\ job[j].attempts \in Nat
    BY <1>1, <1>3 DEF DeferredRecord, JobRecord, Owned, IInv, LiveIffOutstanding, Outstanding
  <2>4. /\ rec.live <=> rec.status = "pending"
        /\ rec.attempts + 1 >= job[j].attempts
    BY <2>3
  <2>5. UpdateOwned(l, rec) /\ faults' \in 0..MaxFaults
    BY DEF Defer, IInv, TypeOK
  <2>6. loop' = [loop EXCEPT ![l] = Idle] /\ UNCHANGED <<runner, handled, holder>>
    BY DEF Defer
  <2> HIDE DEF rec
  <2> QED BY <1>1, <1>2, <2>2, <2>3, <2>4, <2>5, <2>6, WriteIInv
<1>4. CASE ~Owned(l, j)
  <2> DEFINE rec == RetryRecord(job[j])
  <2>1. rec \in JobRecord /\ rec.key = job[j].key /\ rec.status = "pending"
    BY <1>1, WrittenRecords DEF RetryRecord, JobRecord
  <2>2. UpdateOwned(l, rec)
    BY <1>4 DEF Defer, UpdateOwned
  <2> QED BY <1>1, <1>2, <1>4, <2>1, <2>2, WriteIInv DEF Defer, IInv, TypeOK
<1> QED BY <1>3, <1>4

\* The write of a success that fails, applied or not.
LEMMA CompleteErrsIInv ==
  ASSUME NEW l \in Loops, IInv, CompleteErrs(l)
  PROVE  IInv'
<1> USE JobQueueAssumption
<1> DEFINE j == loop[l].job
           rec == DoneRecord(job[j])
           next == [loop[l] EXCEPT !.pc = "fail"]
<1>1. j \in Jobs /\ loop[l].pc # "idle" /\ loop[l] \in LoopRecord /\ job[j] \in JobRecord
  BY DEF CompleteErrs, IInv, TypeOK
<1>2. /\ next \in LoopRecord /\ next.pc = "fail" /\ next.job = j /\ next.attempts = loop[l].attempts
      /\ loop' = [loop EXCEPT ![l] = next]
  BY <1>1 DEF LoopRecord, CompleteErrs
<1>3. faults' \in 0..MaxFaults
  BY DEF CompleteErrs, IInv, TypeOK
<1>4. CASE UpdateOwned(l, rec)
  <2>1. rec \in JobRecord
    BY <1>1, WrittenRecords
  <2>2. rec.key = job[j].key /\ rec.status = "done" /\ ~rec.live
    BY <1>1 DEF DoneRecord, JobRecord
  <2>3. j \in handled
    BY DEF CompleteErrs, IInv, SuccessInv
  <2> QED BY <1>1, <1>2, <1>3, <1>4, <2>1, <2>2, <2>3, WriteIInv DEF CompleteErrs
<1>5. CASE UNCHANGED job
  <2>1. TypeOK'
    BY <1>1, <1>2, <1>3, <1>5 DEF CompleteErrs, IInv, TypeOK
  <2>2. \A m \in Loops : /\ loop'[m].job = loop[m].job /\ loop'[m].attempts = loop[m].attempts
                         /\ loop'[m].pc # "idle" => loop[m].pc # "idle"
                         /\ loop'[m].pc = "ok" => loop[m].pc = "ok"
    BY <1>1, <1>2 DEF IInv, TypeOK
  <2>3. LiveIffOutstanding' /\ IndexInv' /\ LeaseInv'
    BY <1>5 DEF CompleteErrs, IInv, LiveIffOutstanding, Outstanding, IndexInv, LeaseInv
  <2>4. SeenInv'
    <3>1. ASSUME NEW m \in Loops, loop'[m].pc # "idle"
          PROVE  /\ loop[m].pc # "idle" /\ loop'[m].job = loop[m].job
                 /\ loop'[m].attempts = loop[m].attempts
      BY <2>2, <3>1
    <3> QED BY <1>5, <3>1 DEF IInv, SeenInv
  <2>5. DeadLetterEarned' /\ DoneMeansHandled'
    BY <1>5 DEF CompleteErrs, IInv, DeadLetterEarned, DoneMeansHandled
  <2>6. SuccessInv'
    BY <2>2 DEF CompleteErrs, IInv, SuccessInv
  <2> QED BY <2>1, <2>3, <2>4, <2>5, <2>6 DEF IInv
<1> QED BY <1>4, <1>5 DEF CompleteErrs

\* Steps that only make loops idle: a failed write of the catch block, a crash.
LEMMA ForgetIInv ==
  ASSUME IInv, UNCHANGED <<job, handled, holder>>,
         \A m \in Loops : loop'[m] = loop[m] \/ loop'[m] = Idle,
         loop' \in [Loops -> LoopRecord],
         runner' \in [Runners -> {"up", "stopping", "down"}], faults' \in 0..MaxFaults
  PROVE  IInv'
<1>1. \A m \in Loops : loop'[m].pc # "idle" => loop'[m] = loop[m]
  BY DEF Idle
<1>2. TypeOK'
  BY <1>1 DEF IInv, TypeOK
<1>3. LiveIffOutstanding' /\ IndexInv' /\ LeaseInv'
  BY DEF IInv, LiveIffOutstanding, Outstanding, IndexInv, LeaseInv
<1>4. SeenInv'
  BY <1>1 DEF IInv, SeenInv
<1>5. DeadLetterEarned' /\ DoneMeansHandled'
  BY DEF IInv, DeadLetterEarned, DoneMeansHandled
<1>6. SuccessInv'
  BY <1>1 DEF IInv, SuccessInv
<1> QED BY <1>2, <1>3, <1>4, <1>5, <1>6 DEF IInv

\* Writes that fail, stops and crashes leave the jobs alone.
LEMMA QuietIInv ==
  ASSUME IInv, \/ \E l \in Loops : CatchErrs(l)
               \/ \E r \in Runners : Stop(r) \/ Crash(r)
               \/ UNCHANGED vars
  PROVE  IInv'
<1>1. Idle \in LoopRecord
  BY JobQueueAssumption DEF Idle, LoopRecord
<1>2. ASSUME NEW l \in Loops, CatchErrs(l) PROVE IInv'
  BY <1>1, <1>2, ForgetIInv, JobQueueAssumption DEF CatchErrs, IInv, TypeOK
<1>3. ASSUME NEW r \in Runners, Stop(r) PROVE IInv'
  BY <1>3, ForgetIInv DEF Stop, IInv, TypeOK
<1>4. ASSUME NEW r \in Runners, Crash(r) PROVE IInv'
  BY <1>1, <1>4, ForgetIInv DEF Crash, IInv, TypeOK
<1>5. ASSUME UNCHANGED vars PROVE IInv'
  BY <1>5, ForgetIInv DEF vars, IInv, TypeOK
<1> QED BY <1>2, <1>3, <1>4, <1>5

\* Every step keeps the invariant.
LEMMA NextIInv == IInv /\ [Next]_vars => IInv'
<1> SUFFICES ASSUME IInv, [Next]_vars PROVE IInv'
  OBVIOUS
<1>1. ASSUME NEW j \in Jobs, JobStep(j) PROVE IInv'
  BY <1>1, AddIInv, BecomeDueIInv, LeaseLapsesIInv, LeaseOutlivedIInv, ExpireIInv, ClaimIInv
     DEF JobStep
<1>2. ASSUME NEW l \in Loops, LoopStep(l) PROVE IInv'
  BY <1>2, HandlerEndsIInv, CompleteIInv, CompleteErrsIInv, DeferIInv, RetryIInv, DeadLetterIInv,
     QuietIInv DEF LoopStep
<1>3. ASSUME NEW r \in Runners, Stop(r) \/ Crash(r) PROVE IInv'
  BY <1>3, QuietIInv
<1> QED BY <1>1, <1>2, <1>3, QuietIInv DEF Next

-----------------------------------------------------------------------------
\* The invariant holds in every reachable state.
LEMMA InvariantHolds == Spec => []IInv
BY InitIInv, NextIInv, PTL DEF Spec

\* Every variable keeps its type.
THEOREM TypeCorrect == Spec => []TypeOK
BY InvariantHolds, PTL DEF IInv

\* Work queued under one dedupe key is outstanding at most once, for any number
\* of jobs, keys, runners and loops, however late the loops write.
THEOREM DedupeSafe == Spec => []OneOutstandingPerKey
<1>1. IInv => OneOutstandingPerKey
  BY DEF IInv, OneOutstandingPerKey, LiveIffOutstanding, IndexInv
<1> QED BY <1>1, InvariantHolds, PTL

\* The flag the dedupe index filters on never parts from the status.
THEOREM LiveAgrees == Spec => []LiveIffOutstanding
BY InvariantHolds, PTL DEF IInv

\* A job is dead-lettered only after MaxAttempts claims that were not given back.
THEOREM DeadLettersEarned == Spec => []DeadLetterEarned
BY InvariantHolds, PTL DEF IInv

\* A job is done only after its handler succeeded.
THEOREM DoneWasHandled == Spec => []DoneMeansHandled
BY InvariantHolds, PTL DEF IInv

\* The step of a loop changes only its own job, and only while that job runs.
LEMMA LateWrite ==
  ASSUME IInv, NEW l \in Loops, NEW rec, loop[l].pc # "idle", UpdateOwned(l, rec)
  PROVE  /\ \A j \in Jobs : job'[j] # job[j] => job[j].status = "running"
         /\ job' # job => Owned(l, loop[l].job)
BY DEF UpdateOwned, Owned, IInv, TypeOK

\* A settled job stays as it was settled: no late loop, lease or claim brings
\* it back.
THEOREM SettledStaysSettled == Spec => SettledIsFinal
<1> DEFINE Final == \A j \in Jobs : Settled(j) => job'[j].status \in {job[j].status, "removed"}
<1>1. ASSUME IInv, [Next]_vars PROVE Final
  <2>1. ASSUME NEW i \in Jobs, JobStep(i) PROVE Final
    <3>1. Settled(i) => Expire(i)
      BY <2>1 DEF JobStep, Settled, Add, BecomeDue, LeaseLapses, LeaseOutlived, Claim, Claimable
    <3>2. \A j \in Jobs \ {i} : job'[j] = job[j]
      BY <1>1, <2>1 DEF JobStep, Add, BecomeDue, LeaseLapses, LeaseOutlived, Claim, Expire,
                        IInv, TypeOK
    <3>3. Expire(i) => job'[i].status = "removed"
      BY <1>1 DEF Expire, IInv, TypeOK, JobRecord
    <3> QED BY <3>1, <3>2, <3>3
  <2>2. ASSUME NEW l \in Loops, LoopStep(l) PROVE Final
    <3>1. \A j \in Jobs : job'[j] # job[j] => job[j].status = "running"
      <4>1. CASE UNCHANGED job
        BY <4>1
      <4>2. CASE loop[l].pc # "idle" /\ \E rec : UpdateOwned(l, rec)
        BY <1>1, <4>2, LateWrite
      <4> QED BY <2>2, <4>1, <4>2
              DEF LoopStep, HandlerEnds, Complete, CompleteErrs, Defer, Retry, DeadLetter, CatchErrs
    <3> QED BY <3>1 DEF Settled
  <2>3. ASSUME UNCHANGED job PROVE Final
    BY <2>3
  <2> QED BY <1>1, <2>1, <2>2, <2>3 DEF Next, Stop, Crash, vars
<1> QED BY <1>1, InvariantHolds, PTL DEF Spec, SettledIsFinal

\* However many loops a process runs and however late they write, a process changes nothing
\* of a job that another process has claimed since (job.model.ts, header).
THEOREM LeaseGuardsResult == Spec => OnlyHolderSettles
<1> DEFINE Guarded == \A l \in Loops : HolderWrites(l)
<1>1. ASSUME IInv, [Next]_vars PROVE Guarded
  <2> SUFFICES ASSUME NEW l \in Loops, loop[l].pc # "idle", loop'[l] # loop[l], job' # job
               PROVE  RunnerOf[holder[loop[l].job]] = RunnerOf[l]
    BY DEF HolderWrites
  <2>1. ASSUME NEW j \in Jobs, JobStep(j) PROVE FALSE
    <3>1. PICK m \in Loops : Claim(m, j)
      BY <2>1 DEF JobStep, Add, BecomeDue, LeaseLapses, LeaseOutlived, Expire
    <3>2. m # l
      BY <3>1 DEF Claim
    <3> QED BY <1>1, <3>1, <3>2 DEF Claim, IInv, TypeOK
  <2>2. PICK m \in Loops : LoopStep(m)
    BY <1>1, <2>1 DEF Next, Stop, Crash, vars
  <2>3. m = l
    BY <1>1, <2>2 DEF LoopStep, HandlerEnds, Complete, CompleteErrs, Defer, Retry, DeadLetter,
                      CatchErrs, IInv, TypeOK
  <2>4. \E rec : UpdateOwned(l, rec)
    BY <2>2, <2>3 DEF LoopStep, HandlerEnds, Complete, CompleteErrs, Defer, Retry, DeadLetter,
                      CatchErrs
  <2>5. Owned(l, loop[l].job) /\ loop[l].job \in Jobs
    BY <1>1, <2>4, LateWrite DEF IInv, TypeOK
  <2> QED BY <1>1, <2>5 DEF Owned, IInv, LeaseInv
<1> QED BY <1>1, InvariantHolds, PTL DEF Spec, OnlyHolderSettles

-----------------------------------------------------------------------------
(* The register of jobs the queue implements.                               *)

\* What the register says of the collection.
StateOf(rec) == IF rec.status \in {"pending", "running"} THEN "outstanding" ELSE rec.status

JobStates == [j \in Jobs |-> IF Outstanding(j) THEN "outstanding" ELSE job[j].status]
JobKeys == [j \in Jobs |-> job[j].key]
JobAttempts == [j \in Jobs |-> job[j].attempts]

\* The initial states map to the register's.
LEMMA InitJobRegister == Init => Register!Init
BY DEF Init, Register!Init, Outstanding, Absent

\* One record that is written is one job of the register that changes.
LEMMA OneJobChanges ==
  ASSUME TypeOK, NEW j \in Jobs, NEW rec \in JobRecord, job' = [job EXCEPT ![j] = rec]
  PROVE  /\ JobStates' = [JobStates EXCEPT ![j] = StateOf(rec)]
         /\ JobKeys' = [JobKeys EXCEPT ![j] = rec.key]
         /\ JobAttempts' = [JobAttempts EXCEPT ![j] = rec.attempts]
<1>1. job'[j] = rec /\ \A i \in Jobs : i # j => job'[i] = job[i]
  BY DEF TypeOK
<1>2. JobStates' = [JobStates EXCEPT ![j] = StateOf(rec)]
  <2>1. \A i \in Jobs : JobStates'[i] = IF i = j THEN StateOf(rec) ELSE JobStates[i]
    BY <1>1 DEF JobStates, Outstanding, StateOf
  <2> QED BY <2>1 DEF JobStates
<1>3. JobKeys' = [JobKeys EXCEPT ![j] = rec.key]
  <2>1. \A i \in Jobs : JobKeys'[i] = IF i = j THEN rec.key ELSE JobKeys[i]
    BY <1>1 DEF JobKeys
  <2> QED BY <2>1 DEF JobKeys
<1>4. JobAttempts' = [JobAttempts EXCEPT ![j] = rec.attempts]
  <2>1. \A i \in Jobs : JobAttempts'[i] = IF i = j THEN rec.attempts ELSE JobAttempts[i]
    BY <1>1 DEF JobAttempts
  <2> QED BY <2>1 DEF JobAttempts
<1> QED BY <1>2, <1>3, <1>4

\* A step that writes no job and ends no handler well is invisible.
LEMMA NothingWritten ==
  ASSUME UNCHANGED <<job, handled>>
  PROVE  UNCHANGED Register!vars
BY DEF Register!vars, Outstanding

\* So is one that leaves the state, the key and the count of its job.
LEMMA SameToRegister ==
  ASSUME TypeOK, NEW j \in Jobs, NEW rec \in JobRecord, job' = [job EXCEPT ![j] = rec],
         StateOf(rec) = StateOf(job[j]), rec.key = job[j].key,
         rec.attempts = job[j].attempts, UNCHANGED handled
  PROVE  UNCHANGED Register!vars
<1>1. JobStates[j] = StateOf(job[j]) /\ JobKeys[j] = rec.key /\ JobAttempts[j] = rec.attempts
  BY DEF JobStates, JobKeys, JobAttempts, Outstanding, StateOf
<1>2. /\ JobStates' = [JobStates EXCEPT ![j] = JobStates[j]]
      /\ JobKeys' = [JobKeys EXCEPT ![j] = JobKeys[j]]
      /\ JobAttempts' = [JobAttempts EXCEPT ![j] = JobAttempts[j]]
  <2>1. /\ JobStates' = [JobStates EXCEPT ![j] = StateOf(rec)]
        /\ JobKeys' = [JobKeys EXCEPT ![j] = rec.key]
        /\ JobAttempts' = [JobAttempts EXCEPT ![j] = rec.attempts]
    BY OneJobChanges
  <2> QED BY <1>1, <2>1
<1>3. UNCHANGED <<JobStates, JobKeys, JobAttempts>>
  BY <1>2 DEF JobStates, JobKeys, JobAttempts
<1> QED BY <1>3 DEF Register!vars, JobStates, JobKeys, JobAttempts

\* A job that is added is queued under a key no outstanding job has.
LEMMA AddRegister ==
  ASSUME IInv, NEW j \in Jobs, NEW k \in Keys \cup {NoKey}, NEW d \in BOOLEAN, Add(j, k, d)
  PROVE  Register!Queue(j, k)
<1> USE DEF IInv
<1> DEFINE rec == [Absent EXCEPT !.status = "pending", !.live = TRUE, !.key = k, !.due = ~d]
<1>0. job' = [job EXCEPT ![j] = rec]
  BY DEF Add
<1>1. rec \in JobRecord /\ rec.status = "pending" /\ rec.key = k /\ rec.attempts = 0
  BY DEF Absent, JobRecord, Statuses
<1> HIDE DEF rec
<1>2. /\ JobStates' = [JobStates EXCEPT ![j] = "outstanding"]
      /\ JobKeys' = [JobKeys EXCEPT ![j] = k]
      /\ JobAttempts' = [JobAttempts EXCEPT ![j] = 0]
  BY <1>0, <1>1, OneJobChanges DEF StateOf
<1>3. JobStates[j] = "absent"
  BY DEF Add, JobStates, Outstanding
<1>4. k # NoKey => \A i \in Jobs : JobStates[i] = "outstanding" => JobKeys[i] # k
  <2> SUFFICES ASSUME k # NoKey, NEW i \in Jobs, JobStates[i] = "outstanding", JobKeys[i] = k
               PROVE  FALSE
    OBVIOUS
  <2>1. Outstanding(i)
    BY DEF JobStates, TypeOK, JobRecord, Statuses
  <2>2. job[i].live /\ job[i].key = k
    BY <2>1 DEF LiveIffOutstanding, JobKeys
  <2> QED BY <2>2 DEF Add, KeyTaken
<1>5. UNCHANGED handled
  BY DEF Add
<1> QED BY <1>2, <1>3, <1>4, <1>5 DEF Register!Queue, JobStates, JobKeys, JobAttempts

\* Time makes jobs due and lets leases lapse, which the register does not see.
LEMMA TimeRegister ==
  ASSUME IInv, NEW j \in Jobs, BecomeDue(j) \/ LeaseLapses(j) \/ LeaseOutlived(j)
  PROVE  UNCHANGED Register!vars
<1>1. job[j] \in JobRecord /\ UNCHANGED handled
  BY DEF IInv, TypeOK, BecomeDue, LeaseLapses, LeaseOutlived
<1>2. CASE BecomeDue(j)
  <2> DEFINE rec == [job[j] EXCEPT !.due = TRUE]
  <2>1. job' = [job EXCEPT ![j] = rec]
    BY <1>2 DEF BecomeDue
  <2>2. rec \in JobRecord
    BY <1>1, FlagRecords
  <2>3. rec.status = job[j].status /\ rec.key = job[j].key /\ rec.attempts = job[j].attempts
    BY <1>1 DEF JobRecord
  <2> HIDE DEF rec
  <2>4. StateOf(rec) = StateOf(job[j])
    BY <2>3 DEF StateOf
  <2> QED BY <1>1, <2>1, <2>2, <2>3, <2>4, SameToRegister DEF IInv
<1>3. CASE LeaseLapses(j) \/ LeaseOutlived(j)
  <2> DEFINE rec == [job[j] EXCEPT !.lapsed = TRUE]
  <2>1. job' = [job EXCEPT ![j] = rec]
    BY <1>3 DEF LeaseLapses, LeaseOutlived
  <2>2. rec \in JobRecord
    BY <1>1, FlagRecords
  <2>3. rec.status = job[j].status /\ rec.key = job[j].key /\ rec.attempts = job[j].attempts
    BY <1>1 DEF JobRecord
  <2> HIDE DEF rec
  <2>4. StateOf(rec) = StateOf(job[j])
    BY <2>3 DEF StateOf
  <2> QED BY <1>1, <2>1, <2>2, <2>3, <2>4, SameToRegister DEF IInv
<1> QED BY <1>2, <1>3

\* The TTL index forgets settled jobs.
LEMMA ExpireRegister ==
  ASSUME IInv, NEW j \in Jobs, Expire(j)
  PROVE  Register!Forget(j)
<1>1. job[j] \in JobRecord  BY DEF IInv, TypeOK
<1> DEFINE rec == [job[j] EXCEPT !.status = "removed"]
<1>2. job' = [job EXCEPT ![j] = rec]
  BY DEF Expire
<1>2a. /\ rec \in JobRecord /\ rec.status = "removed"
       /\ rec.key = job[j].key /\ rec.attempts = job[j].attempts
  BY <1>1 DEF JobRecord, Statuses
<1> HIDE DEF rec
<1>3. /\ JobStates' = [JobStates EXCEPT ![j] = "removed"]
      /\ JobKeys' = [JobKeys EXCEPT ![j] = job[j].key]
      /\ JobAttempts' = [JobAttempts EXCEPT ![j] = job[j].attempts]
  <2>1. StateOf(rec) = "removed" /\ TypeOK
    BY <1>2a DEF StateOf, IInv
  <2>2. /\ JobStates' = [JobStates EXCEPT ![j] = StateOf(rec)]
        /\ JobKeys' = [JobKeys EXCEPT ![j] = rec.key]
        /\ JobAttempts' = [JobAttempts EXCEPT ![j] = rec.attempts]
    BY <1>2, <1>2a, <2>1, OneJobChanges
  <2> QED BY <1>2a, <2>1, <2>2
<1>4. JobKeys' = JobKeys /\ JobAttempts' = JobAttempts
  BY <1>3 DEF JobKeys, JobAttempts
<1>5. JobStates[j] \in {"done", "failed"} /\ UNCHANGED handled
  BY DEF Expire, JobStates, Outstanding
<1> QED BY <1>3, <1>4, <1>5 DEF Register!Forget, JobStates, JobKeys, JobAttempts

\* A claim spends an attempt, be it of a waiting job or of an abandoned one.
LEMMA ClaimRegister ==
  ASSUME IInv, NEW j \in Jobs, NEW l \in Loops, Claim(l, j)
  PROVE  Register!Spend(j)
<1>1. job[j] \in JobRecord  BY DEF IInv, TypeOK
<1> DEFINE rec == ClaimedRecord(job[j], RunnerOf[l])
<1>2. job' = [job EXCEPT ![j] = rec]
  BY DEF Claim
<1>2a. rec \in JobRecord
  BY <1>1, ClaimedRecords, JobQueueAssumption
<1>2b. /\ rec.status = "running" /\ rec.key = job[j].key
       /\ rec.attempts = job[j].attempts + 1
  BY <1>1 DEF ClaimedRecord, JobRecord
<1> HIDE DEF rec
<1>3. /\ JobStates' = [JobStates EXCEPT ![j] = "outstanding"]
      /\ JobKeys' = [JobKeys EXCEPT ![j] = job[j].key]
      /\ JobAttempts' = [JobAttempts EXCEPT ![j] = job[j].attempts + 1]
  BY <1>2, <1>2a, <1>2b, OneJobChanges DEF IInv, StateOf
<1>4. JobStates[j] = "outstanding" /\ JobAttempts[j] = job[j].attempts /\ UNCHANGED handled
  BY DEF Claim, Claimable, JobStates, JobAttempts, Outstanding
<1>5. JobStates' = JobStates /\ JobKeys' = JobKeys
  BY <1>3, <1>4 DEF JobStates, JobKeys
<1> QED BY <1>3, <1>4, <1>5 DEF Register!Spend, JobStates, JobKeys, JobAttempts

\* A write that no longer owns its job is none; one that owns it finds it
\* outstanding, with an attempt spent.
LEMMA OwnedOrNot ==
  ASSUME IInv, NEW l \in Loops, loop[l].pc # "idle", NEW rec, UpdateOwned(l, rec)
  PROVE  \/ UNCHANGED job
         \/ /\ job' = [job EXCEPT ![loop[l].job] = rec]
            /\ loop[l].job \in Jobs /\ job[loop[l].job] \in JobRecord
            /\ job[loop[l].job].status = "running"
            /\ job[loop[l].job].attempts >= 1
            /\ loop[l].attempts <= job[loop[l].job].attempts
BY DEF UpdateOwned, Owned, IInv, TypeOK, LeaseInv, SeenInv

\* A handler that returns has succeeded; what it throws is not seen.
LEMMA HandlerEndsRegister ==
  ASSUME IInv, NEW l \in Loops, NEW j \in Jobs, j = loop[l].job, NEW o, HandlerEnds(l, o)
  PROVE  Register!Succeed(j) \/ UNCHANGED Register!vars
<1>1. CASE o = "ok"
  <2>1. job[j].status # "absent"
    BY DEF HandlerEnds, IInv, SeenInv
  <2>2. JobStates[j] # "absent"
    BY <2>1 DEF JobStates
  <2>3. handled' = handled \cup {j} /\ UNCHANGED job
    BY <1>1 DEF HandlerEnds
  <2>4. UNCHANGED <<JobStates, JobKeys, JobAttempts>>
    BY <2>3 DEF JobStates, JobKeys, JobAttempts, Outstanding
  <2> QED BY <2>2, <2>3, <2>4 DEF Register!Succeed, JobStates, JobKeys, JobAttempts
<1>2. CASE o # "ok"
  BY <1>2, NothingWritten DEF HandlerEnds
<1> QED BY <1>1, <1>2

\* A settled job keeps its key and its count.
LEMMA SettledInRegister ==
  ASSUME IInv, NEW j \in Jobs, NEW outcome \in {"done", "failed"},
         NEW rec \in JobRecord,
         job[j].status = "running", job' = [job EXCEPT ![j] = rec], rec.status = outcome,
         rec.key = job[j].key, rec.attempts = job[j].attempts, UNCHANGED handled
  PROVE  Register!Settle(j, outcome)
<1>1. /\ JobStates' = [JobStates EXCEPT ![j] = outcome]
      /\ JobKeys' = [JobKeys EXCEPT ![j] = job[j].key]
      /\ JobAttempts' = [JobAttempts EXCEPT ![j] = job[j].attempts]
  <2>1. StateOf(rec) = outcome /\ TypeOK
    BY DEF StateOf, IInv
  <2>2. /\ JobStates' = [JobStates EXCEPT ![j] = StateOf(rec)]
        /\ JobKeys' = [JobKeys EXCEPT ![j] = rec.key]
        /\ JobAttempts' = [JobAttempts EXCEPT ![j] = rec.attempts]
    BY <2>1, OneJobChanges
  <2> QED BY <2>1, <2>2
<1>2. JobKeys' = JobKeys /\ JobAttempts' = JobAttempts /\ JobStates[j] = "outstanding"
  BY <1>1 DEF JobKeys, JobAttempts, JobStates, Outstanding
<1> QED BY <1>1, <1>2 DEF Register!Settle, JobStates, JobKeys, JobAttempts

\* A success that is written finishes the job, whether its answer arrives or not.
LEMMA CompleteRegister ==
  ASSUME IInv, NEW l \in Loops, NEW j \in Jobs, j = loop[l].job, loop[l].pc = "ok",
         UpdateOwned(l, DoneRecord(job[j])) \/ UNCHANGED job, UNCHANGED handled
  PROVE  [Register!Next]_(Register!vars)
<1> DEFINE rec == DoneRecord(job[j])
<1>1. CASE UNCHANGED job
  BY <1>1, NothingWritten
<1>2. CASE ~UNCHANGED job
  <2>1. /\ job' = [job EXCEPT ![j] = rec]
        /\ job[j] \in JobRecord /\ job[j].status = "running"
    BY <1>2, OwnedOrNot
  <2>2a. rec \in JobRecord
    BY <2>1, WrittenRecords
  <2>2. rec.status = "done" /\ rec.key = job[j].key /\ rec.attempts = job[j].attempts
    BY <2>1 DEF DoneRecord, JobRecord
  <2>3. j \in handled
    BY DEF IInv, SuccessInv
  <2> HIDE DEF rec
  <2>4. Register!Settle(j, "done")
    BY <2>1, <2>2, <2>2a, SettledInRegister
  <2>5. Register!Finish(j)
    BY <2>3, <2>4 DEF Register!Finish
  <2> QED BY <2>5 DEF Register!Next
<1> QED BY <1>1, <1>2

\* A dead letter has spent its attempts, by the count it was claimed with.
LEMMA DeadLetterRegister ==
  ASSUME IInv, NEW l \in Loops, NEW j \in Jobs, j = loop[l].job, DeadLetter(l)
  PROVE  [Register!Next]_(Register!vars)
<1> DEFINE rec == DeadRecord(job[j])
<1>0. loop[l].pc # "idle" /\ UpdateOwned(l, rec) /\ UNCHANGED handled
  BY DEF DeadLetter
<1>1. CASE UNCHANGED job
  BY <1>0, <1>1, NothingWritten
<1>2. CASE ~UNCHANGED job
  <2>1. /\ job' = [job EXCEPT ![j] = rec]
        /\ job[j] \in JobRecord /\ job[j].status = "running"
        /\ loop[l].attempts <= job[j].attempts
    BY <1>0, <1>2, OwnedOrNot
  <2>2a. rec \in JobRecord
    BY <2>1, WrittenRecords
  <2>2. rec.status = "failed" /\ rec.key = job[j].key /\ rec.attempts = job[j].attempts
    BY <2>1 DEF DeadRecord, JobRecord
  <2>3. JobAttempts[j] >= MaxAttempts
    <3>1. loop[l].attempts \in Nat /\ loop[l].attempts >= MaxAttempts
      BY DEF DeadLetter, Exhausted, IInv, TypeOK, LoopRecord
    <3>2. job[j].attempts \in Nat
      BY <2>1 DEF JobRecord
    <3>3. job[j].attempts >= MaxAttempts
      BY <2>1, <3>1, <3>2, JobQueueAssumption
    <3> QED BY <2>1, <3>3 DEF JobAttempts
  <2> HIDE DEF rec
  <2>4. Register!Settle(j, "failed")
    BY <1>0, <2>1, <2>2, <2>2a, SettledInRegister
  <2>5. Register!GiveUp(j)
    BY <2>1, <2>3, <2>4 DEF Register!GiveUp, JobAttempts
  <2> QED BY <2>5 DEF Register!Next
<1> QED BY <1>1, <1>2

\* A deferral gives back the attempt that was spent on it.
LEMMA DeferRegister ==
  ASSUME IInv, NEW l \in Loops, NEW j \in Jobs, j = loop[l].job, Defer(l)
  PROVE  [Register!Next]_(Register!vars)
<1> DEFINE rec == DeferredRecord(job[j])
<1>0. loop[l].pc # "idle" /\ UpdateOwned(l, rec) /\ UNCHANGED handled
  BY DEF Defer
<1>1. CASE UNCHANGED job
  BY <1>0, <1>1, NothingWritten
<1>2. CASE ~UNCHANGED job
  <2>1. /\ job' = [job EXCEPT ![j] = rec]
        /\ job[j] \in JobRecord /\ job[j].status = "running" /\ job[j].attempts >= 1
    BY <1>0, <1>2, OwnedOrNot
  <2>2a. rec \in JobRecord
    BY <2>1, WrittenRecords
  <2>2. rec.status = "pending" /\ rec.key = job[j].key /\ rec.attempts = job[j].attempts - 1
    BY <2>1 DEF DeferredRecord, JobRecord
  <2> HIDE DEF rec
  <2>3. /\ JobStates' = [JobStates EXCEPT ![j] = "outstanding"]
        /\ JobKeys' = [JobKeys EXCEPT ![j] = job[j].key]
        /\ JobAttempts' = [JobAttempts EXCEPT ![j] = job[j].attempts - 1]
    BY <2>1, <2>2, <2>2a, OneJobChanges DEF IInv, StateOf
  <2>4. JobStates[j] = "outstanding" /\ JobAttempts[j] = job[j].attempts
    BY <2>1 DEF JobStates, JobAttempts, Outstanding
  <2>5. JobStates' = JobStates /\ JobKeys' = JobKeys
    BY <2>3, <2>4 DEF JobStates, JobKeys
  <2>6. JobAttempts[j] > 0
    BY <2>1, <2>4 DEF JobRecord
  <2>7. Register!GiveBack(j)
    BY <1>0, <2>1, <2>3, <2>4, <2>5, <2>6 DEF Register!GiveBack, JobStates, JobKeys, JobAttempts
  <2> QED BY <2>7 DEF Register!Next
<1> QED BY <1>1, <1>2

\* A retry leaves the job outstanding, with its attempts.
LEMMA RetryRegister ==
  ASSUME IInv, NEW l \in Loops, NEW j \in Jobs, j = loop[l].job, Retry(l)
  PROVE  UNCHANGED Register!vars
<1> DEFINE rec == RetryRecord(job[j])
<1>0. loop[l].pc # "idle" /\ UpdateOwned(l, rec) /\ UNCHANGED handled
  BY DEF Retry
<1>1. CASE UNCHANGED job
  BY <1>0, <1>1, NothingWritten
<1>2. CASE ~UNCHANGED job
  <2>1. /\ job' = [job EXCEPT ![j] = rec]
        /\ job[j] \in JobRecord /\ job[j].status = "running"
    BY <1>0, <1>2, OwnedOrNot
  <2>2a. rec \in JobRecord
    BY <2>1, WrittenRecords
  <2>2. rec.status = "pending" /\ rec.key = job[j].key /\ rec.attempts = job[j].attempts
    BY <2>1 DEF RetryRecord, JobRecord
  <2>3. StateOf(rec) = StateOf(job[j])
    BY <2>1, <2>2 DEF StateOf
  <2> HIDE DEF rec
  <2> QED BY <1>0, <2>1, <2>2, <2>2a, <2>3, SameToRegister DEF IInv
<1> QED BY <1>1, <1>2

\* Every step maps to a step of the register or to a stutter.
LEMMA NextJobRegister ==
  ASSUME IInv, [Next]_vars
  PROVE  [Register!Next]_(Register!vars)
<1>1. ASSUME NEW j \in Jobs, JobStep(j) PROVE [Register!Next]_(Register!vars)
  <2>1. ASSUME NEW k \in Keys \cup {NoKey}, NEW d \in BOOLEAN, Add(j, k, d)
        PROVE  Register!Next
    BY <2>1, AddRegister DEF Register!Next
  <2>2. ASSUME BecomeDue(j) \/ LeaseLapses(j) \/ LeaseOutlived(j) PROVE UNCHANGED Register!vars
    BY <2>2, TimeRegister
  <2>3. ASSUME Expire(j) PROVE Register!Next
    BY <2>3, ExpireRegister DEF Register!Next
  <2>4. ASSUME NEW l \in Loops, Claim(l, j) PROVE Register!Next
    BY <2>4, ClaimRegister DEF Register!Next
  <2> QED BY <1>1, <2>1, <2>2, <2>3, <2>4 DEF JobStep
<1>2. ASSUME NEW l \in Loops, LoopStep(l) PROVE [Register!Next]_(Register!vars)
  <2>1. loop[l].pc # "idle"
    BY <1>2 DEF LoopStep, HandlerEnds, Complete, CompleteErrs, Defer, Retry, DeadLetter, CatchErrs
  <2>2. PICK j \in Jobs : j = loop[l].job
    BY <2>1 DEF IInv, TypeOK
  <2>3. ASSUME NEW o \in {"ok", "defer", "fail"}, HandlerEnds(l, o)
        PROVE  [Register!Next]_(Register!vars)
    BY <2>2, <2>3, HandlerEndsRegister DEF Register!Next
  <2>4. ASSUME Complete(l) \/ CompleteErrs(l) PROVE [Register!Next]_(Register!vars)
    <3>1. /\ loop[l].pc = "ok" /\ UNCHANGED handled
          /\ UpdateOwned(l, DoneRecord(job[j])) \/ UNCHANGED job
      BY <2>2, <2>4 DEF Complete, CompleteErrs
    <3> QED BY <2>2, <3>1, CompleteRegister
  <2>5. ASSUME Defer(l) PROVE [Register!Next]_(Register!vars)
    BY <2>2, <2>5, DeferRegister
  <2>6. ASSUME Retry(l) PROVE [Register!Next]_(Register!vars)
    BY <2>2, <2>6, RetryRegister
  <2>7. ASSUME DeadLetter(l) PROVE [Register!Next]_(Register!vars)
    BY <2>2, <2>7, DeadLetterRegister
  <2>8. ASSUME CatchErrs(l) PROVE [Register!Next]_(Register!vars)
    BY <2>8, NothingWritten DEF CatchErrs
  <2> QED BY <1>2, <2>3, <2>4, <2>5, <2>6, <2>7, <2>8 DEF LoopStep
<1>3. ASSUME UNCHANGED vars \/ \E r \in Runners : Stop(r) \/ Crash(r)
      PROVE  UNCHANGED Register!vars
  BY <1>3, NothingWritten DEF vars, Stop, Crash
<1> QED BY <1>1, <1>2, <1>3 DEF Next

\* Leases, late writes, crashes and writes whose answer is lost implement the
\* register: no queued job is lost, settled without cause, or settled twice, and no
\* two outstanding jobs have one key.
THEOREM QueueImplementsRegister == Spec => ImplementsJobRegister
<1>1. IInv /\ [Next]_vars => [Register!Next]_(Register!vars)
  BY NextJobRegister
<1> QED
  BY <1>1, InitJobRegister, InvariantHolds, PTL DEF Spec, ImplementsJobRegister, Register!Spec

-------------------------------------------------------------------------------
(***************************************************************************)
(* Schedules.  A claim is judged by the row alone.  It is safe because the *)
(* row holds the latest instant that was ever claimed (LastIsLatest): a claim*)
(* that keeps its distance from that one keeps it from all.                *)
(***************************************************************************)

\* No claim was won with a later instant than the row's.
LastIsLatest ==
  \A i \in 0..Horizon : claims[i] > 0 => lastRunAt # NeverRun /\ i <= lastRunAt

SchedulesInv == SchedulesTypeOK /\ LastIsLatest /\ OncePerPeriod

-----------------------------------------------------------------------------
\* Nothing is claimed at the start.
LEMMA SchedulesInitInv == SchedulesInit => SchedulesInv
<1> SUFFICES ASSUME SchedulesInit PROVE SchedulesInv
  OBVIOUS
<1>1. SchedulesTypeOK
  <2>1. IdleTick \in Tick  BY DEF IdleTick, Tick
  <2>2. tick \in [Ticks -> Tick]  BY <2>1 DEF SchedulesInit
  <2>3. now \in 0..Horizon /\ claims \in [0..Horizon -> Nat]
    BY SchedulesAssumption DEF SchedulesInit
  <2> QED  BY <2>2, <2>3 DEF SchedulesInit, SchedulesTypeOK
<1>2. \A i \in 0..Horizon : ~(claims[i] > 0)  BY SchedulesAssumption DEF SchedulesInit
<1> QED  BY <1>1, <1>2 DEF SchedulesInv, LastIsLatest, OncePerPeriod

\* What a caller claims with is an instant that was followed.
LEMMA InstantType ==
  ASSUME SchedulesTypeOK, NEW t \in Ticks, tick[t].pc = "claim"
  PROVE  tick[t] \in [pc : {"claim", "enqueue"}, now : 0..Horizon]
<1>1. tick[t] \in Tick  BY DEF SchedulesTypeOK
<1> QED  BY <1>1 DEF Tick

\* A claim that is won is an interval later than every claim before it.
LEMMA ClaimKeepsDistance ==
  ASSUME SchedulesInv, NEW t \in Ticks, tick[t].pc = "claim", Due(tick[t].now)
  PROVE  \A i \in 0..Horizon : claims[i] > 0 => tick[t].now - i >= Interval
<1> SUFFICES ASSUME NEW i \in 0..Horizon, claims[i] > 0
             PROVE  tick[t].now - i >= Interval
  OBVIOUS
<1>1. lastRunAt # NeverRun /\ i <= lastRunAt  BY DEF SchedulesInv, LastIsLatest
<1>2. lastRunAt \in Int /\ i \in Int  BY <1>1, SchedulesAssumption DEF SchedulesInv, SchedulesTypeOK
<1>3. tick[t].now \in Int /\ Interval \in Int  BY InstantType, SchedulesAssumption DEF SchedulesInv
<1>4. lastRunAt <= tick[t].now - Interval  BY <1>1 DEF Due
<1> QED  BY <1>1, <1>2, <1>3, <1>4

\* A claim, won or not, keeps the invariant.
LEMMA ClaimKeeps ==
  ASSUME SchedulesInv, NEW t \in Ticks, ClaimSchedule(t)
  PROVE  SchedulesInv'
<1> DEFINE at == tick[t].now
<1>1. tick[t].pc = "claim"  BY DEF ClaimSchedule
<1>2. at \in 0..Horizon /\ tick[t] \in [pc : {"claim", "enqueue"}, now : 0..Horizon]
  BY <1>1, InstantType DEF SchedulesInv
<1>3. CASE ~Due(at)
  <2>1. tick' = [tick EXCEPT ![t] = IdleTick] /\ UNCHANGED <<now, lastRunAt, claims, outstanding>>
    BY <1>3 DEF ClaimSchedule
  <2> QED  BY <2>1 DEF SchedulesInv, SchedulesTypeOK, Tick, IdleTick, LastIsLatest, OncePerPeriod
<1>4. CASE Due(at)
  <2>1. /\ lastRunAt' = at /\ claims' = [claims EXCEPT ![at] = @ + 1]
        /\ tick' = [tick EXCEPT ![t].pc = "enqueue"] /\ UNCHANGED <<now, outstanding>>
    BY <1>4 DEF ClaimSchedule
  <2>2. \A i \in 0..Horizon : claims[i] > 0 => at - i >= Interval
    BY <1>1, <1>4, ClaimKeepsDistance
  <2>3. claims[at] = 0
    <3>1. claims[at] \in Nat  BY <1>2 DEF SchedulesInv, SchedulesTypeOK
    <3>2. ~(at - at >= Interval)  BY <1>2, SchedulesAssumption
    <3> QED  BY <1>2, <2>2, <3>1, <3>2
  <2>4. \A i \in 0..Horizon : claims'[i] = IF i = at THEN 1 ELSE claims[i]
    BY <1>2, <2>1, <2>3 DEF SchedulesInv, SchedulesTypeOK
  <2>5. SchedulesTypeOK'
    <3>1. tick' \in [Ticks -> Tick]
      BY <1>2, <2>1 DEF SchedulesInv, SchedulesTypeOK, Tick
    <3>2. claims' \in [0..Horizon -> Nat]  BY <1>2, <2>1, <2>3 DEF SchedulesInv, SchedulesTypeOK
    <3> QED  BY <1>2, <2>1, <3>1, <3>2 DEF SchedulesInv, SchedulesTypeOK
  <2>6. LastIsLatest'
    <3> SUFFICES ASSUME NEW i \in 0..Horizon, claims'[i] > 0
                 PROVE  lastRunAt' # NeverRun /\ i <= lastRunAt'
      BY DEF LastIsLatest
    <3>1. lastRunAt' # NeverRun  BY <1>2, <2>1, SchedulesAssumption
    <3>2. i = at \/ at - i >= Interval  BY <2>2, <2>4
    <3> QED  BY <1>2, <2>1, <3>1, <3>2, SchedulesAssumption
  <2>7. OncePerPeriod'
    <3>1. ASSUME NEW i \in 0..Horizon, claims'[i] > 0 PROVE claims'[i] = 1
      BY <2>4, <3>1 DEF SchedulesInv, OncePerPeriod
    <3>2. ASSUME NEW i \in 0..Horizon, NEW j \in 0..Horizon, claims'[i] > 0, claims'[j] > 0, i < j
          PROVE  j - i >= Interval
      <4>1. CASE j = at
        BY <2>2, <2>4, <3>2, <4>1
      <4>2. CASE i = at
        <5>1. j # at /\ claims[j] > 0  BY <2>4, <3>2, <4>2
        <5>2. at - j >= Interval  BY <2>2, <5>1
        <5> QED  BY <1>2, <3>2, <4>2, <5>2, SchedulesAssumption
      <4>3. CASE i # at /\ j # at
        BY <2>4, <3>2, <4>3 DEF SchedulesInv, OncePerPeriod
      <4> QED  BY <4>1, <4>2, <4>3
    <3> QED  BY <3>1, <3>2 DEF OncePerPeriod
  <2> QED  BY <2>5, <2>6, <2>7 DEF SchedulesInv
<1> QED  BY <1>3, <1>4

\* A step keeps the invariant.
LEMMA SchedulesInductive == SchedulesInv /\ [SchedulesNext]_scheduleVars => SchedulesInv'
<1> SUFFICES ASSUME SchedulesInv, [SchedulesNext]_scheduleVars PROVE SchedulesInv'
  OBVIOUS
<1> USE SchedulesAssumption DEF SchedulesInv, SchedulesTypeOK, LastIsLatest, OncePerPeriod
<1>1. ASSUME NEW t \in Ticks, RunDueSchedules(t) PROVE SchedulesInv'
  BY <1>1 DEF RunDueSchedules, Tick
<1>2. ASSUME NEW t \in Ticks, ClaimSchedule(t) PROVE SchedulesInv'
  BY <1>2, ClaimKeeps
<1>3. ASSUME NEW t \in Ticks, Enqueue(t) PROVE SchedulesInv'
  BY <1>3 DEF Enqueue, Tick, IdleTick
<1>4. ASSUME NEW t \in Ticks, TickFails(t) PROVE SchedulesInv'
  BY <1>4 DEF TickFails, Tick, IdleTick
<1>5. ASSUME JobSettles PROVE SchedulesInv'  BY <1>5 DEF JobSettles
<1>6. ASSUME ClockAdvances PROVE SchedulesInv'  BY <1>6 DEF ClockAdvances
<1>7. CASE UNCHANGED scheduleVars  BY <1>7 DEF scheduleVars
<1> QED  BY <1>1, <1>2, <1>3, <1>4, <1>5, <1>6, <1>7 DEF SchedulesNext

\* Every step keeps the types of the clock, the schedule's row and what each caller carries.
THEOREM SchedulesTypeCorrect == SchedulesSpec => []SchedulesTypeOK
<1>1. SchedulesInv => SchedulesTypeOK  BY DEF SchedulesInv
<1> QED  BY <1>1, SchedulesInitInv, SchedulesInductive, PTL DEF SchedulesSpec

\* "Of any number of simultaneous callers exactly one sees true" (schedule.ts:37):
\* no period is claimed twice, however late a caller claims with its instant.
THEOREM PeriodsClaimedOnce == SchedulesSpec => []OncePerPeriod
<1>1. SchedulesInv => OncePerPeriod  BY DEF SchedulesInv
<1> QED  BY <1>1, SchedulesInitInv, SchedulesInductive, PTL DEF SchedulesSpec

-------------------------------------------------------------------------------
(***************************************************************************)
(* Notices.  Whoever a scan went past has the notice or is about to        *)
(* (ScanTells), and a notice has its mail asked for by the runner that made*)
(* it (MailFollows).                                                       *)
(***************************************************************************)

\* The scan a runner is in, that it goes back to once a mail was asked for.
ScanOf(v) == IF v.pc = "email" THEN v.scan ELSE v

First == Thresholds[1]

\* Whoever the scan has gone past, in an organisation it did not fail in, has the
\* notice or is about to.
ScanTells(r) ==
  /\ r.pc = "over" => r.left = {}
  /\ r.pc \in {"next", "over"} => r.todo = {}
  /\ r.pc \in {"next", "notify", "over"} =>
       \A o \in Organisations \ (r.left \cup r.failed) : \A m \in active[o] :
         daysLeft <= First => <<o, m, First>> \in notices \cup r.todo

\* A notice is there before its mail is asked for.
MailFollows ==
  \A n \in notices : ~broken => \/ n \in emailed
                                \/ \E t \in Scanners : scan[t].pc = "email" /\ scan[t].notice = n

NoticesInv ==
  /\ NoticesTypeOK
  /\ \A s \in Scanners : scan[s].pc = "email" => scan[s].scan.pc = "notify"
  /\ \A s \in Scanners : ScanTells(ScanOf(scan[s]))
  /\ MailFollows

-----------------------------------------------------------------------------
\* From the first threshold on down that threshold is the one that is found.
LEMMA FirstThreshold ==
  /\ First \in ToSet(Thresholds) /\ First \in Nat
  /\ \A d \in Int : /\ ThresholdFor(d) \subseteq ToSet(Thresholds)
                    /\ d <= First => ThresholdFor(d) = {First}
<1>1. Thresholds \in Seq(Nat) /\ Len(Thresholds) \in Nat \ {0} /\ DOMAIN Thresholds = 1..Len(Thresholds)
  BY NoticesAssumption
<1>2. First \in ToSet(Thresholds) /\ First \in Nat  BY <1>1 DEF ToSet, First
<1>3. ASSUME NEW d \in Int PROVE ThresholdFor(d) \subseteq ToSet(Thresholds)
  BY <1>1 DEF ThresholdFor, ToSet
<1>4. ASSUME NEW d \in Int, d <= First PROVE ThresholdFor(d) = {First}
  <2> DEFINE fits == {i \in 1..Len(Thresholds) : d <= Thresholds[i]}
             best == {j \in fits : \A k \in fits : j <= k}
  <2>1. 1 \in fits /\ \A k \in fits : 1 <= k  BY <1>1, <1>4 DEF First
  <2>2. best = {1}
    <3>1. \A j \in fits : j \in Nat  BY <1>1
    <3> HIDE DEF fits
    <3>2. \A j \in best : j <= 1 /\ 1 <= j /\ j \in Nat  BY <2>1, <3>1
    <3>3. \A j \in best : j = 1  BY <3>2
    <3> QED  BY <2>1, <3>3
  <2>3. ThresholdFor(d) = {Thresholds[i] : i \in best}  BY DEF ThresholdFor
  <2> QED  BY <2>2, <2>3 DEF First
<1> QED  BY <1>2, <1>3, <1>4

Mailing == [pc : {"email"}, notice : Notice, scan : Scan]

\* What a scan carries, by where it is.
LEMMA ScanTypes ==
  ASSUME NoticesInv, NEW s \in Scanners
  PROVE  /\ scan \in [Scanners -> Scan \cup Mailing]
         /\ scan[s].pc # "email" => scan[s] \in Scan /\ ScanTells(scan[s])
         /\ scan[s].pc = "email" =>
              /\ scan[s] \in Mailing /\ scan[s].notice \in Notice
              /\ scan[s].scan \in Scan /\ scan[s].scan.pc = "notify" /\ ScanTells(scan[s].scan)
<1>1. scan \in [Scanners -> Scan \cup Mailing] /\ scan[s] \in Scan \cup Mailing
  BY DEF NoticesInv, NoticesTypeOK, Mailing
<1>2. CASE scan[s] \in Scan
  <2>1. scan[s].pc # "email"  BY <1>2 DEF Scan
  <2> QED  BY <1>1, <1>2, <2>1 DEF NoticesInv, ScanOf
<1>3. CASE scan[s] \in Mailing
  <2>1. scan[s].pc = "email" /\ scan[s].notice \in Notice /\ scan[s].scan \in Scan
    BY <1>3 DEF Mailing
  <2> QED  BY <1>1, <1>3, <2>1 DEF NoticesInv, ScanOf
<1> QED  BY <1>1, <1>2, <1>3

\* A step of one runner: the scan it is left with tells everybody, and a mail is asked for
\* or begun for whatever is new.
LEMMA ScannerKeeps ==
  ASSUME NoticesInv, NEW s \in Scanners, NEW v \in Scan \cup Mailing,
         scan' = [scan EXCEPT ![s] = v], UNCHANGED <<daysLeft, active, read>>,
         notices \subseteq notices', notices' \subseteq Notice,
         emailed \subseteq emailed', emailed' \subseteq Notice, broken' \in BOOLEAN,
         v.pc = "email" => v.scan.pc = "notify",
         ScanTells(ScanOf(v))',
         ~broken' =>
           /\ ~broken
           /\ \A n \in notices' \ notices : n \in emailed' \/ (v.pc = "email" /\ v.notice = n)
           /\ scan[s].pc = "email" => scan[s].notice \in emailed'
  PROVE  NoticesInv'
<1>1. \A t \in Scanners : scan'[t] = IF t = s THEN v ELSE scan[t]  BY ScanTypes
<1>2. NoticesTypeOK'
  <2>1. scan' \in [Scanners -> Scan \cup Mailing]  BY ScanTypes
  <2> QED  BY <2>1 DEF NoticesInv, NoticesTypeOK, Mailing
<1>3. ASSUME NEW t \in Scanners, scan'[t].pc = "email" PROVE scan'[t].scan.pc = "notify"
  BY <1>1, <1>3 DEF NoticesInv
<1>4. ASSUME NEW r, ScanTells(r) PROVE ScanTells(r)'  BY <1>4 DEF ScanTells
<1>5. \A t \in Scanners : ScanTells(ScanOf(scan[t]))  BY DEF NoticesInv
<1>6. ASSUME NEW t \in Scanners PROVE ScanTells(ScanOf(scan[t]))'
  <2>1. CASE t = s
    <3>1. scan'[t] = v  BY <1>1, <2>1
    <3> QED  BY <3>1 DEF ScanTells, ScanOf
  <2>2. CASE t # s
    <3>1. scan'[t] = scan[t]  BY <1>1, <2>2
    <3>2. ScanOf(scan[t])' = ScanOf(scan[t])  BY <3>1 DEF ScanOf
    <3> QED  BY <1>5, <3>2 DEF ScanTells
  <2> QED  BY <2>1, <2>2
<1>7. MailFollows'
  <2> SUFFICES ASSUME NEW n \in notices', ~broken', n \notin emailed'
               PROVE  \E t \in Scanners : scan'[t].pc = "email" /\ scan'[t].notice = n
    BY DEF MailFollows
  <2>1. CASE n \notin notices  BY <1>1, <2>1
  <2>2. CASE n \in notices
    <3>1. PICK t \in Scanners : scan[t].pc = "email" /\ scan[t].notice = n
      BY <2>2 DEF NoticesInv, MailFollows
    <3>2. t # s  BY <3>1
    <3> QED  BY <1>1, <3>1, <3>2
  <2> QED  BY <2>1, <2>2
<1> QED  BY <1>2, <1>3, <1>6, <1>7 DEF NoticesInv

\* A step of one runner that leaves the notices and their mails alone.
LEMMA ScannerGoesOn ==
  ASSUME NoticesInv, NEW s \in Scanners, NEW v \in Scan,
         scan' = [scan EXCEPT ![s] = v], UNCHANGED <<daysLeft, active, read, notices, emailed>>,
         broken' = (broken \/ scan[s].pc = "email"), ScanTells(v)
  PROVE  NoticesInv'
<1>1. v.pc # "email" /\ ScanOf(v) = v  BY DEF Scan, ScanOf
<1>2. ScanTells(v)'  BY DEF ScanTells
<1>3. ScanTells(ScanOf(v))'  BY <1>1, <1>2 DEF ScanOf
<1>4. broken' \in BOOLEAN /\ (~broken' => ~broken /\ scan[s].pc # "email")  OBVIOUS
<1>5. notices \subseteq Notice /\ emailed \subseteq Notice  BY DEF NoticesInv, NoticesTypeOK
<1>6. v \in Scan \cup Mailing  OBVIOUS
<1>7. \A n \in notices' \ notices : n \in emailed' \/ (v.pc = "email" /\ v.notice = n)  OBVIOUS
<1>8. notices \subseteq notices' /\ notices' \subseteq Notice /\ emailed \subseteq emailed' /\ emailed' \subseteq Notice
  BY <1>5
<1> QED  BY <1>1, <1>3, <1>4, <1>6, <1>7, <1>8, ScannerKeeps

\* The steps of a scan through organisations and days keep the invariant.
LEMMA ScanSteps ==
  ASSUME NoticesInv, NEW s \in Scanners,
         \/ BeginScan(s) \/ ScanFailsForOne(s) \/ OrganisationDone(s) \/ EndScan(s) \/ ScanDies(s)
         \/ \E o \in Organisations : ScanOrganisation(s, o)
  PROVE  NoticesInv'
<1> DEFINE r == scan[s]
<1>0. /\ broken \in BOOLEAN /\ daysLeft \in Int /\ active \in [Organisations -> SUBSET Members]
      /\ NoScan \in Scan /\ NoScan.pc = "idle" /\ NoScan.failed = {} /\ NoScan.left = {} /\ NoScan.todo = {}
  BY DEF NoticesInv, NoticesTypeOK, NoScan, Scan
<1>1. ASSUME BeginScan(s) PROVE NoticesInv'
  <2> DEFINE v == [NoScan EXCEPT !.pc = "next", !.left = Organisations]
  <2>1. v \in Scan /\ v.pc = "next" /\ v.left = Organisations /\ v.todo = {}  BY DEF NoScan, Scan
  <2> HIDE DEF v
  <2>2. ScanTells(v)  BY <2>1 DEF ScanTells
  <2>3. /\ scan' = [scan EXCEPT ![s] = v] /\ UNCHANGED <<daysLeft, active, read, notices, emailed, broken>>
        /\ scan[s].pc # "email"
    BY <1>1 DEF BeginScan, v
  <2>4. broken' = (broken \/ scan[s].pc = "email")  BY <1>0, <2>3
  <2> QED  BY <2>1, <2>2, <2>3, <2>4, ScannerGoesOn
<1>2. ASSUME ScanFailsForOne(s) PROVE NoticesInv'
  <2> DEFINE v == [r EXCEPT !.pc = "next", !.todo = {}, !.failed = @ \cup {n[1] : n \in r.todo}]
  <2>1. r.pc = "notify" /\ r \in Scan /\ ScanTells(r)  BY <1>2, ScanTypes DEF ScanFailsForOne
  <2>2. \A n \in r.todo : n[1] \in Organisations  BY <2>1 DEF Scan, Notice
  <2>3. /\ v \in Scan /\ v.pc = "next" /\ v.left = r.left /\ v.todo = {}
        /\ v.failed = r.failed \cup {n[1] : n \in r.todo}
    BY <2>1, <2>2 DEF Scan
  <2>4. /\ scan' = [scan EXCEPT ![s] = v] /\ UNCHANGED <<daysLeft, active, read, notices, emailed, broken>>
    BY <1>2 DEF ScanFailsForOne
  <2>5. broken' = (broken \/ scan[s].pc = "email")  BY <1>0, <2>1, <2>4
  <2> HIDE DEF v, r
  <2>6. ScanTells(v)
    <3> SUFFICES ASSUME NEW o \in Organisations \ (v.left \cup v.failed), NEW m \in active[o], daysLeft <= First
                 PROVE  <<o, m, First>> \in notices
      BY <2>3 DEF ScanTells
    <3>1. <<o, m, First>> \in notices \cup r.todo  BY <2>1, <2>3 DEF ScanTells
    <3>2. <<o, m, First>>[1] = o  OBVIOUS
    <3> QED  BY <2>3, <3>1, <3>2
  <2> QED  BY <2>3, <2>4, <2>5, <2>6, ScannerGoesOn
<1>3. ASSUME OrganisationDone(s) PROVE NoticesInv'
  <2> DEFINE v == [r EXCEPT !.pc = "next"]
  <2>1. r.pc = "notify" /\ r.todo = {} /\ r \in Scan /\ ScanTells(r)  BY <1>3, ScanTypes DEF OrganisationDone
  <2>2. v \in Scan /\ v.pc = "next" /\ v.left = r.left /\ v.todo = {} /\ v.failed = r.failed
    BY <2>1 DEF Scan
  <2>3. /\ scan' = [scan EXCEPT ![s] = v] /\ UNCHANGED <<daysLeft, active, read, notices, emailed, broken>>
    BY <1>3 DEF OrganisationDone
  <2>4. broken' = (broken \/ scan[s].pc = "email")  BY <1>0, <2>1, <2>3
  <2> HIDE DEF v, r
  <2>5. ScanTells(v)  BY <2>1, <2>2 DEF ScanTells
  <2> QED  BY <2>2, <2>3, <2>4, <2>5, ScannerGoesOn
<1>4. ASSUME EndScan(s) PROVE NoticesInv'
  <2> DEFINE v == [r EXCEPT !.pc = "over"]
  <2>1. r.pc = "next" /\ r.left = {} /\ r \in Scan /\ ScanTells(r)  BY <1>4, ScanTypes DEF EndScan
  <2>2. v \in Scan /\ v.pc = "over" /\ v.left = r.left /\ v.todo = r.todo /\ v.failed = r.failed
    BY <2>1 DEF Scan
  <2>3. /\ scan' = [scan EXCEPT ![s] = v] /\ UNCHANGED <<daysLeft, active, read, notices, emailed, broken>>
    BY <1>4 DEF EndScan
  <2>4. broken' = (broken \/ scan[s].pc = "email")  BY <1>0, <2>1, <2>3
  <2> HIDE DEF v, r
  <2>5. ScanTells(v)  BY <2>1, <2>2 DEF ScanTells
  <2> QED  BY <2>2, <2>3, <2>4, <2>5, ScannerGoesOn
<1>5. ASSUME ScanDies(s) PROVE NoticesInv'
  <2>1. ScanTells(NoScan)  BY <1>0 DEF ScanTells
  <2>2. /\ scan' = [scan EXCEPT ![s] = NoScan] /\ UNCHANGED <<daysLeft, active, read, notices, emailed>>
        /\ broken' = (broken \/ scan[s].pc = "email")
    BY <1>5 DEF ScanDies
  <2> QED  BY <1>0, <2>1, <2>2, ScannerGoesOn
<1>6. ASSUME NEW o \in Organisations, ScanOrganisation(s, o) PROVE NoticesInv'
  <2> DEFINE todo == {o} \X active[o] \X ThresholdFor(daysLeft)
             v == [r EXCEPT !.pc = "notify", !.left = @ \ {o}, !.todo = todo]
  <2>1. r.pc = "next" /\ r \in Scan /\ ScanTells(r)  BY <1>6, ScanTypes DEF ScanOrganisation
  <2>2. todo \subseteq Notice /\ (daysLeft <= First => todo = {o} \X active[o] \X {First})
    BY <1>0, FirstThreshold DEF Notice
  <2>3. scan' = [scan EXCEPT ![s] = v] /\ UNCHANGED <<daysLeft, active, read, notices, emailed, broken>>
    BY <1>6 DEF ScanOrganisation
  <2>4. broken' = (broken \/ scan[s].pc = "email")  BY <1>0, <2>1, <2>3
  <2> HIDE DEF todo
  <2>5. v \in Scan /\ v.pc = "notify" /\ v.left = r.left \ {o} /\ v.todo = todo /\ v.failed = r.failed
    BY <2>1, <2>2 DEF Scan
  <2> HIDE DEF v, r
  <2>6. ScanTells(v)
    <3> SUFFICES ASSUME NEW p \in Organisations \ (v.left \cup v.failed), NEW m \in active[p], daysLeft <= First
                 PROVE  <<p, m, First>> \in notices \cup todo
      BY <2>5 DEF ScanTells
    <3>1. CASE p = o  BY <2>2, <3>1
    <3>2. CASE p # o  BY <2>1, <2>5, <3>2 DEF ScanTells
    <3> QED  BY <3>1, <3>2
  <2> QED  BY <2>3, <2>4, <2>5, <2>6, ScannerGoesOn
<1> QED  BY <1>1, <1>2, <1>3, <1>4, <1>5, <1>6

\* The notice and its mail keep the invariant.
LEMMA NoticeSteps ==
  ASSUME NoticesInv, NEW s \in Scanners, EmailNotice(s) \/ \E n \in Notice : Notify(s, n)
  PROVE  NoticesInv'
<1> DEFINE r == scan[s]
<1>0. broken \in BOOLEAN /\ notices \subseteq Notice /\ emailed \subseteq Notice
  BY DEF NoticesInv, NoticesTypeOK
<1>1. ASSUME EmailNotice(s) PROVE NoticesInv'
  <2>1. /\ r.pc = "email" /\ r.notice \in Notice /\ r.scan \in Scan /\ r.scan.pc = "notify"
        /\ ScanTells(r.scan)
    BY <1>1, ScanTypes DEF EmailNotice
  <2>2. PICK v \in Scan : v = r.scan  BY <2>1
  <2>3. /\ scan' = [scan EXCEPT ![s] = v] /\ UNCHANGED <<daysLeft, active, read, notices>>
        /\ \/ emailed' = emailed \cup {r.notice} /\ UNCHANGED broken
           \/ broken' = TRUE /\ UNCHANGED emailed
    BY <1>1, <2>2 DEF EmailNotice
  <2>4. ScanTells(v) /\ v.pc = "notify"  BY <2>1, <2>2
  <2>5. ScanTells(ScanOf(v))'
    <3>1. ScanTells(v)'  BY <2>3, <2>4 DEF ScanTells
    <3> QED  BY <2>4, <3>1 DEF ScanOf
  <2>6. broken' \in BOOLEAN /\ (~broken' => ~broken /\ r.notice \in emailed')
    BY <1>0, <2>3
  <2>7. notices \subseteq notices' /\ notices' \subseteq Notice
    BY <1>0, <2>3
  <2>8. emailed \subseteq emailed' /\ emailed' \subseteq Notice  BY <1>0, <2>1, <2>3
  <2>9. notices' \ notices = {}  BY <2>3
  <2> QED  BY <2>3, <2>4, <2>5, <2>6, <2>7, <2>8, <2>9, ScannerKeeps
<1>2. ASSUME NEW n \in Notice, Notify(s, n) PROVE NoticesInv'
  <2>1. r.pc = "notify" /\ n \in r.todo /\ r \in Scan /\ ScanTells(r)  BY <1>2, ScanTypes DEF Notify
  <2>2. PICK rest \in Scan : rest = [r EXCEPT !.todo = @ \ {n}]  BY <2>1 DEF Scan
  <2>3. /\ rest.pc = "notify" /\ rest.left = r.left /\ rest.failed = r.failed
        /\ rest.todo = r.todo \ {n}
    BY <2>1, <2>2 DEF Scan
  <2>4. PICK v \in Scan \cup Mailing :
           v = IF n \in notices THEN rest ELSE [pc |-> "email", notice |-> n, scan |-> rest]
    BY DEF Mailing
  <2>5. /\ UNCHANGED <<daysLeft, active, read, emailed, broken>> /\ notices' = notices \cup {n}
        /\ scan' = [scan EXCEPT ![s] = IF n \in notices THEN [r EXCEPT !.todo = @ \ {n}]
                        ELSE [pc |-> "email", notice |-> n, scan |-> [r EXCEPT !.todo = @ \ {n}]]]
    BY <1>2 DEF Notify
  <2>6. scan' = [scan EXCEPT ![s] = v]  BY <2>2, <2>4, <2>5
  <2>7. /\ n \in notices => v = rest /\ v.pc = "notify"
        /\ n \notin notices => v.pc = "email" /\ v.notice = n /\ v.scan = rest
    BY <2>3, <2>4
  <2>8. ScanOf(v) = rest  BY <2>3, <2>7 DEF ScanOf
  <2>9. ScanTells(ScanOf(v))'
    <3>1. ASSUME NEW o \in Organisations \ (rest.left \cup rest.failed), NEW m \in active'[o],
                 daysLeft' <= First
          PROVE  <<o, m, First>> \in notices' \cup rest.todo
      <4>1. <<o, m, First>> \in notices \cup r.todo  BY <2>1, <2>3, <2>5, <3>1 DEF ScanTells
      <4> QED  BY <2>3, <2>5, <4>1
    <3>2. ScanTells(rest)'  BY <2>3, <3>1 DEF ScanTells, First
    <3>3. ScanOf(v)' = ScanOf(v)  BY DEF ScanOf
    <3> QED  BY <2>8, <3>2, <3>3 DEF ScanTells
  <2>10. broken' \in BOOLEAN /\ (~broken' => ~broken) /\ r.pc # "email"  BY <1>0, <2>1, <2>5
  <2>11. notices \subseteq notices' /\ notices' \subseteq Notice /\ emailed \subseteq emailed' /\ emailed' \subseteq Notice
    BY <1>0, <2>5
  <2>12. \A x \in notices' \ notices : (x \in emailed') \/ (v.pc = "email" /\ v.notice = x)  BY <2>5, <2>7
  <2>13. v.pc = "email" => v.scan.pc = "notify"  BY <2>3, <2>7
  <2> QED  BY <2>5, <2>6, <2>9, <2>10, <2>11, <2>12, <2>13, ScannerKeeps
<1> QED  BY <1>1, <1>2

\* What happens beside the scans.
LEMMA NoticeOtherSteps ==
  ASSUME NoticesInv,
         \/ NightPasses \/ UNCHANGED noticeVars
         \/ \E o \in Organisations, m \in Members : MemberSuspended(o, m) \/ MarkAllRead(o, m)
  PROVE  NoticesInv'
<1>0. /\ daysLeft \in -1..FirstDays /\ FirstDays \in Nat /\ active \in [Organisations -> SUBSET Members]
      /\ notices \subseteq Notice /\ read \subseteq notices /\ emailed \subseteq Notice
      /\ scan \in [Scanners -> Scan \cup Mailing]
      /\ \A s \in Scanners : scan[s].pc = "email" => scan[s].scan.pc = "notify"
      /\ \A s \in Scanners : ScanTells(ScanOf(scan[s]))
      /\ MailFollows
  BY NoticesAssumption DEF NoticesInv, NoticesTypeOK, Mailing
<1>1. ASSUME UNCHANGED <<daysLeft, notices, emailed, scan, broken>>, read' \subseteq notices',
             active' \in [Organisations -> SUBSET Members],
             \A o \in Organisations : active'[o] \subseteq active[o]
      PROVE  NoticesInv'
  <2>1. NoticesTypeOK'  BY <1>1 DEF NoticesInv, NoticesTypeOK
  <2>2. ASSUME NEW s \in Scanners PROVE ScanTells(ScanOf(scan[s]))'
    <3>1. ScanTells(ScanOf(scan[s])) /\ scan' = scan  BY <1>0, <1>1
    <3> QED  BY <1>1, <3>1 DEF ScanTells, ScanOf
  <2>3. MailFollows'  BY <1>0, <1>1 DEF MailFollows
  <2> QED  BY <1>0, <1>1, <2>1, <2>2, <2>3 DEF NoticesInv
<1>2. ASSUME NightPasses PROVE NoticesInv'
  <2>1. /\ scan' = [s \in Scanners |-> NoScan] /\ UNCHANGED <<active, notices, read, emailed, broken>>
        /\ \A s \in Scanners : scan[s].pc \in {"idle", "over"}
    BY <1>2 DEF NightPasses
  <2>2. NoScan \in Scan /\ NoScan.pc = "idle"  BY DEF NoScan, Scan
  <2>3. NoticesTypeOK'
    <3>1. scan' \in [Scanners -> Scan \cup Mailing]  BY <2>1, <2>2
    <3>2. broken' \in BOOLEAN  BY <2>1 DEF NoticesInv, NoticesTypeOK
    <3>3. /\ active' = active /\ notices' = notices /\ read' = read /\ emailed' = emailed
          /\ daysLeft' \in -1..FirstDays
      <4>1. daysLeft' = daysLeft - 1 /\ daysLeft > -1  BY <1>2 DEF NightPasses
      <4> QED  BY <1>0, <2>1, <4>1
    <3> QED  BY <1>0, <3>1, <3>2, <3>3 DEF NoticesTypeOK, Mailing
  <2>4. \A s \in Scanners : scan'[s] = NoScan  BY <2>1
  <2>5. ASSUME NEW s \in Scanners PROVE ScanTells(ScanOf(scan[s]))'
    <3>1. ScanOf(scan'[s]).pc = "idle"  BY <2>2, <2>4 DEF ScanOf
    <3> QED  BY <3>1 DEF ScanTells, ScanOf
  <2>6. MailFollows'  BY <1>0, <2>1 DEF MailFollows
  <2> QED  BY <2>2, <2>3, <2>4, <2>5, <2>6 DEF NoticesInv
<1>3. ASSUME NEW o \in Organisations, NEW m \in Members, MemberSuspended(o, m) PROVE NoticesInv'
  <2>1. /\ active' = [active EXCEPT ![o] = @ \ {m}]
        /\ UNCHANGED <<daysLeft, notices, read, emailed, scan, broken>>
    BY <1>3 DEF MemberSuspended
  <2> QED  BY <1>0, <1>1, <2>1
<1>4. ASSUME NEW o \in Organisations, NEW m \in Members, MarkAllRead(o, m) PROVE NoticesInv'
  <2>1. /\ UNCHANGED <<daysLeft, active, notices, emailed, scan, broken>> /\ read' \subseteq notices'
    BY <1>0, <1>4 DEF MarkAllRead
  <2> QED  BY <1>0, <1>1, <2>1
<1>5. ASSUME UNCHANGED noticeVars PROVE NoticesInv'
  <2>1. UNCHANGED <<daysLeft, active, notices, read, emailed, scan, broken>>  BY <1>5 DEF noticeVars
  <2> QED  BY <1>0, <1>1, <2>1
<1> QED  BY <1>2, <1>3, <1>4, <1>5

\* The invariant holds at first.
LEMMA NoticesInitInv == NoticesInit => NoticesInv
<1> SUFFICES ASSUME NoticesInit PROVE NoticesInv  OBVIOUS
<1>1. NoScan \in Scan /\ NoScan.pc = "idle"  BY DEF NoScan, Scan
<1>2. \A s \in Scanners : scan[s] = NoScan /\ ScanOf(scan[s]) = NoScan
  BY <1>1 DEF NoticesInit, ScanOf
<1>3. NoticesTypeOK
  <2>1. scan \in [Scanners -> Scan \cup Mailing]  BY <1>1 DEF NoticesInit
  <2>2. broken = FALSE  BY DEF NoticesInit
  <2>3. broken \in BOOLEAN  BY <2>2
  <2>4. daysLeft \in -1..FirstDays  BY NoticesAssumption DEF NoticesInit
  <2>5. active \in [Organisations -> SUBSET Members]  BY DEF NoticesInit
  <2>6. notices = {} /\ read = {} /\ emailed = {}  BY DEF NoticesInit
  <2> QED  BY <2>1, <2>3, <2>4, <2>5, <2>6 DEF NoticesTypeOK, Mailing
<1>4. ScanTells(NoScan)  BY <1>1 DEF ScanTells
<1>5. MailFollows  BY DEF NoticesInit, MailFollows
<1> QED  BY <1>1, <1>2, <1>3, <1>4, <1>5 DEF NoticesInv

\* The invariant is inductive.
LEMMA NoticesInductive == NoticesInv /\ [NoticesNext]_noticeVars => NoticesInv'
BY ScanSteps, NoticeSteps, NoticeOtherSteps DEF NoticesNext

\* Every step keeps the types of notices, mails asked for and where each scan has got to.
THEOREM NoticesTypeCorrect == NoticesSpec => []NoticesTypeOK
<1>1. NoticesInv => NoticesTypeOK  BY DEF NoticesInv
<1> QED  BY <1>1, NoticesInitInv, NoticesInductive, PTL DEF NoticesSpec

\* Whatever scans overlap, fail in an organisation or die, a scan that ends on a day within
\* the first threshold leaves no active member without the notice, in every organisation it
\* did not fail in; and each notice has had its mail asked for unless a runner is about to,
\* or one broke off in between (scans.service.ts:61, notification.service.ts:43).
THEOREM NobodyMissed == NoticesSpec => []EveryoneWasTold
<1>1. NoticesInv => EveryoneWasTold
  <2> SUFFICES ASSUME NoticesInv, NEW s \in Scanners, scan[s].pc = "over",
                      NEW o \in Organisations \ scan[s].failed, NEW m \in active[o], daysLeft <= First
               PROVE  /\ <<o, m, First>> \in notices
                      /\ ~broken => \/ <<o, m, First>> \in emailed
                                    \/ \E t \in Scanners : /\ scan[t].pc = "email"
                                                           /\ scan[t].notice = <<o, m, First>>
    BY DEF EveryoneWasTold, First
  <2>1. ScanTells(scan[s])  BY ScanTypes
  <2>2. <<o, m, First>> \in notices  BY <2>1 DEF ScanTells
  <2> QED  BY <2>2 DEF NoticesInv, MailFollows
<1> QED  BY <1>1, NoticesInitInv, NoticesInductive, PTL DEF NoticesSpec

-------------------------------------------------------------------------------
(***************************************************************************)
(* Mail.  Deliveries work on copies.  A copy is taken of a row that is     *)
(* queued and so is whole, and stays whole while it is carried             *)
(* (CopiesAreWhole), no matter what a sibling erases in the row meanwhile. *)
(***************************************************************************)

\* A delivery that may still send carries a whole body.
CopiesAreWhole ==
  \A d \in Deliveries : delivery[d].op \in {"check", "send", "block"} => delivery[d].whole

\* What is queued, carried or sent was logged.
NamesLogged ==
  /\ \A s \in Senders : sender[s].op = "add" => sender[s].msg \in Logged
  /\ \A d \in Deliveries :
       delivery[d].op \in {"check", "send", "block", "sent", "failed", "retry"} => delivery[d].msg \in Logged
  /\ \A m \in Messages : mailJob[m] > 0 \/ provider[m] # "nothing" => m \in Logged

MailInv == MailTypeOK /\ NamesLogged /\ CopiesAreWhole /\ MailGoesOutWhole

-----------------------------------------------------------------------------
\* Numbers of attempts that jobs are given.
LEMMA AttemptsType ==
  /\ 0 \in 0..MaxSends /\ MaxSends \in 0..MaxSends
  /\ \A n \in 0..MaxSends : (IF n = 0 THEN 0 ELSE n - 1) \in 0..MaxSends
  BY MailAssumption

\* Nothing is logged at the start.
LEMMA MailInitInv == MailInit => MailInv
<1> SUFFICES ASSUME MailInit PROVE MailInv
  OBVIOUS
<1>1. NoSender \in Sender /\ NoDelivery \in Delivery  BY DEF NoSender, NoDelivery, Sender, Delivery
<1>2. MailTypeOK
  <2>1. mailJob \in [Messages -> 0..MaxSends]  BY AttemptsType DEF MailInit
  <2> QED  BY <1>1, <2>1 DEF MailInit, MailTypeOK
<1>3. NamesLogged /\ CopiesAreWhole
  BY DEF MailInit, NamesLogged, CopiesAreWhole, NoSender, NoDelivery
<1>4. MailGoesOutWhole  BY DEF MailInit, MailGoesOutWhole, Logged
<1> QED  BY <1>2, <1>3, <1>4 DEF MailInv

\* What was logged is a message.
LEMMA LoggedType ==
  ASSUME MailTypeOK, NEW m \in Logged
  PROVE  m \in Messages /\ message[m] \in Message
  BY DEF MailTypeOK, Logged

\* What a caller holds between two calls.
LEMMA SenderType ==
  ASSUME MailTypeOK, NEW s \in Senders
  PROVE  /\ sender[s].op = "create" => sender[s] \in [op : {"create"}, key : MailKeys \cup {Unkeyed}, blocked : BOOLEAN]
         /\ sender[s].op = "add" => sender[s] \in [op : {"add"}, msg : Messages]
<1>1. sender[s] \in Sender  BY DEF MailTypeOK
<1> QED  BY <1>1 DEF Sender, NoSender

\* What a delivery holds between two calls.
LEMMA DeliveryType ==
  ASSUME MailTypeOK, NEW d \in Deliveries
  PROVE  /\ delivery[d].op \in {"check", "send", "block"} =>
              delivery[d] \in [op : {"check", "send", "block"}, msg : Messages, whole : BOOLEAN]
         /\ delivery[d].op \in {"sent", "failed", "retry"} =>
              delivery[d] \in [op : {"sent", "failed", "retry"}, msg : Messages]
<1>1. delivery[d] \in Delivery  BY DEF MailTypeOK
<1> QED  BY <1>1 DEF Delivery, NoDelivery

\* A call of sendEmail() that changes no row keeps the invariant.
LEMMA SenderKeeps ==
  ASSUME MailInv, NEW s \in Senders,
         \/ \E key \in MailKeys \cup {Unkeyed} : CheckSuppression(s, key)
         \/ QueueDelivery(s) \/ SenderEnds(s)
  PROVE  MailInv'
<1> USE DEF MailInv
<1>1. /\ UNCHANGED <<message, suppressed, delivery, provider>>
      /\ Logged' = Logged
  BY DEF CheckSuppression, QueueDelivery, SenderEnds, Logged
<1>2. CopiesAreWhole' /\ MailGoesOutWhole'
  BY <1>1 DEF CopiesAreWhole, MailGoesOutWhole
<1>3. ASSUME NEW key \in MailKeys \cup {Unkeyed}, CheckSuppression(s, key)
      PROVE  MailTypeOK' /\ NamesLogged'
  <2>1. [op |-> "create", key |-> key, blocked |-> suppressed] \in Sender
    BY DEF MailTypeOK, Sender
  <2> QED  BY <1>1, <1>3, <2>1 DEF CheckSuppression, Send, MailTypeOK, NamesLogged
<1>4. ASSUME QueueDelivery(s) PROVE MailTypeOK' /\ NamesLogged'
  <2>1. NoSender \in Sender  BY DEF Sender
  <2>2. sender[s].msg \in Logged  BY <1>4 DEF QueueDelivery, NamesLogged
  <2>3. mailJob' \in [Messages -> 0..MaxSends]
    BY <1>4, AttemptsType DEF QueueDelivery, MailTypeOK
  <2>4. \A m \in Messages : mailJob'[m] > 0 => m \in Logged
    BY <1>4, <2>2 DEF QueueDelivery, MailTypeOK, NamesLogged
  <2> QED  BY <1>1, <1>4, <2>1, <2>3, <2>4 DEF QueueDelivery, Send, MailTypeOK, NamesLogged, NoSender
<1>5. ASSUME SenderEnds(s) PROVE MailTypeOK' /\ NamesLogged'
  <2>1. NoSender \in Sender  BY DEF Sender
  <2> QED  BY <1>1, <1>5, <2>1 DEF SenderEnds, Send, MailTypeOK, NamesLogged, NoSender
<1> QED  BY <1>2, <1>3, <1>4, <1>5

\* A message that is logged is whole.
LEMMA LogKeeps ==
  ASSUME MailInv, NEW s \in Senders, NEW m \in Messages, LogMessage(s, m)
  PROVE  MailInv'
<1> USE NoMessageAssumption DEF MailInv
<1> DEFINE new == [status |-> IF sender[s].blocked THEN "suppressed" ELSE "queued",
                   key |-> sender[s].key, whole |-> TRUE, known |-> FALSE]
<1>1. /\ sender[s] \in [op : {"create"}, key : MailKeys \cup {Unkeyed}, blocked : BOOLEAN]
      /\ UNCHANGED <<suppressed, mailJob, delivery, provider>>
  BY SenderType DEF LogMessage
<1>2. new \in Message  BY <1>1 DEF Message
<1>3. NoSender \in Sender /\ [op |-> "add", msg |-> m] \in Sender  BY DEF Sender
<1>4. CASE UNCHANGED message
  <2>1. Logged' = Logged  BY <1>4 DEF Logged
  <2>2. message # [message EXCEPT ![m] = new]
    BY <1>2 DEF LogMessage, MailTypeOK
  <2>3. Send(s, NoSender)  BY <1>4, <2>2 DEF LogMessage
  <2> QED  BY <1>1, <1>3, <1>4, <2>1, <2>3
    DEF Send, NoSender, MailTypeOK, NamesLogged, CopiesAreWhole, MailGoesOutWhole
<1>5. CASE message' = [message EXCEPT ![m] = new]
  <2>1. Logged' = Logged \cup {m}  BY <1>2, <1>5 DEF Logged, MailTypeOK
  <2>2. MailTypeOK'
    <3>1. message' \in [Messages -> Message \cup {NoMessage}]  BY <1>2, <1>5 DEF MailTypeOK
    <3>2. sender' \in [Senders -> Sender]  BY <1>3 DEF LogMessage, Send, MailTypeOK
    <3> QED  BY <1>1, <3>1, <3>2 DEF MailTypeOK
  <2>3. NamesLogged'
    <3>1. \A r \in Senders : sender'[r].op = "add" => sender'[r].msg \in Logged \cup {m}
      BY <1>1 DEF LogMessage, Send, NoSender, MailTypeOK, NamesLogged
    <3> QED  BY <1>1, <2>1, <3>1 DEF NamesLogged
  <2>4. CopiesAreWhole'  BY <1>1 DEF CopiesAreWhole
  <2>5. MailGoesOutWhole'
    <3>1. message'[m].whole /\ \A n \in Messages : n # m => message'[n] = message[n]
      BY <1>5 DEF MailTypeOK
    <3> QED  BY <1>1, <2>1, <3>1 DEF MailGoesOutWhole
  <2> QED  BY <2>2, <2>3, <2>4, <2>5
<1> QED  BY <1>4, <1>5 DEF LogMessage

\* A row that is closed is no longer queued, so its body may go.
LEMMA CloseKeeps ==
  ASSUME MailInv, NEW d \in Deliveries, NEW status \in {"suppressed", "sent", "failed"},
         NEW known \in BOOLEAN, delivery[d].op \in {"block", "sent", "failed"}, Close(d, status, known)
  PROVE  MailInv'
<1> USE NoMessageAssumption DEF MailInv
<1> DEFINE m == delivery[d].msg
           closed == [message[m] EXCEPT !.status = status, !.whole = FALSE, !.known = @ \/ known]
<1>1. m \in Logged /\ m \in Messages /\ message[m] \in Message
  BY LoggedType DEF NamesLogged
<1>2. message' = [message EXCEPT ![m] = closed]
  BY <1>1 DEF Close, MailTypeOK
<1>3. closed \in Message /\ closed.status # "queued"  BY <1>1 DEF Message
<1>4. /\ mailJob' = [mailJob EXCEPT ![m] = 0] /\ delivery' = [delivery EXCEPT ![d] = NoDelivery]
      /\ UNCHANGED <<suppressed, sender, provider>>
  BY DEF Close, SetDelivery
<1>5. Logged' = Logged  BY <1>1, <1>2, <1>3 DEF Logged, MailTypeOK
<1>6. MailTypeOK'
  <2>1. message' \in [Messages -> Message \cup {NoMessage}]  BY <1>2, <1>3 DEF MailTypeOK
  <2>2. mailJob' \in [Messages -> 0..MaxSends]  BY <1>4, AttemptsType DEF MailTypeOK
  <2>3. delivery' \in [Deliveries -> Delivery]  BY <1>4 DEF MailTypeOK, Delivery
  <2> QED  BY <1>4, <2>1, <2>2, <2>3 DEF MailTypeOK
<1>7. NamesLogged' /\ CopiesAreWhole'
  BY <1>4, <1>5 DEF NamesLogged, CopiesAreWhole, NoDelivery, MailTypeOK
<1>8. MailGoesOutWhole'
  <2>1. message'[m].status # "queued" /\ \A n \in Messages : n # m => message'[n] = message[n]
    BY <1>1, <1>2, <1>3 DEF MailTypeOK
  <2> QED  BY <1>4, <1>5, <2>1 DEF MailGoesOutWhole
<1> QED  BY <1>6, <1>7, <1>8

\* A delivery that writes no row keeps the invariant: what it carries was read
\* from a queued row.
LEMMA DeliveryKeeps ==
  ASSUME MailInv, NEW d \in Deliveries,
         \/ CheckAgain(d) \/ SaveRetry(d) \/ DeliveryDies(d) \/ Suppress(d)
         \/ \E m \in Messages : FindMessage(d, m)
  PROVE  MailInv'
<1> USE DEF MailInv
<1>1. /\ UNCHANGED <<message, sender, provider>> /\ Logged' = Logged
  BY DEF CheckAgain, SaveRetry, DeliveryDies, Suppress, FindMessage, Logged
<1>2. MailGoesOutWhole'  BY <1>1 DEF MailGoesOutWhole
<1>3. NoDelivery \in Delivery  BY DEF Delivery
<1>4. ASSUME CheckAgain(d) PROVE MailInv'
  <2> DEFINE op == IF suppressed THEN "block" ELSE "send"
  <2>1. delivery[d] \in [op : {"check", "send", "block"}, msg : Messages, whole : BOOLEAN]
    BY <1>4, DeliveryType DEF CheckAgain
  <2>2. delivery' = [delivery EXCEPT ![d] = [@ EXCEPT !.op = op]]  BY <1>4 DEF CheckAgain
  <2>3. [delivery[d] EXCEPT !.op = op] \in [op : {"check", "send", "block"}, msg : Messages, whole : BOOLEAN]
    BY <2>1
  <2>4. MailTypeOK'  BY <1>1, <1>4, <2>2, <2>3 DEF CheckAgain, MailTypeOK, Delivery
  <2>5. delivery[d].whole /\ delivery[d].msg \in Logged
    BY <1>4 DEF CheckAgain, CopiesAreWhole, NamesLogged
  <2>6. delivery'[d].whole = delivery[d].whole /\ delivery'[d].msg = delivery[d].msg
    BY <2>1, <2>2 DEF MailTypeOK
  <2>7. \A e \in Deliveries : e # d => delivery'[e] = delivery[e]
    BY <2>2 DEF MailTypeOK
  <2>8. CopiesAreWhole'  BY <2>5, <2>6, <2>7 DEF CopiesAreWhole
  <2>9. NamesLogged'  BY <1>1, <1>4, <2>5, <2>6, <2>7 DEF CheckAgain, NamesLogged
  <2> QED  BY <1>2, <2>4, <2>8, <2>9
<1>5. ASSUME SaveRetry(d) PROVE MailInv'
  <2>1. mailJob' \in [Messages -> 0..MaxSends]
    BY <1>5, AttemptsType DEF SaveRetry, MailTypeOK
  <2>2. \A m \in Messages : mailJob'[m] > 0 => mailJob[m] > 0
    BY <1>5, MailAssumption DEF SaveRetry, MailTypeOK
  <2> QED  BY <1>1, <1>2, <1>3, <1>5, <2>1, <2>2
    DEF SaveRetry, SetDelivery, NoDelivery, MailTypeOK, NamesLogged, CopiesAreWhole
<1>6. ASSUME DeliveryDies(d) \/ Suppress(d) PROVE MailInv'
  <2>1. /\ delivery' = [delivery EXCEPT ![d] = NoDelivery] /\ UNCHANGED mailJob
        /\ suppressed' \in BOOLEAN
    BY <1>6 DEF DeliveryDies, Suppress, SetDelivery, MailTypeOK
  <2>2. MailTypeOK'  BY <1>1, <1>3, <2>1 DEF MailTypeOK
  <2>3. CopiesAreWhole' /\ NamesLogged'
    BY <1>1, <2>1 DEF NoDelivery, MailTypeOK, NamesLogged, CopiesAreWhole
  <2> QED  BY <1>2, <2>2, <2>3
<1>7. ASSUME NEW m \in Messages, FindMessage(d, m) PROVE MailInv'
  <2>1. m \in Logged /\ message[m] \in Message
    BY <1>7, LoggedType DEF FindMessage, NamesLogged
  <2>2. CASE message[m].status = "queued"
    <3>1. message[m].whole  BY <2>1, <2>2 DEF MailGoesOutWhole
    <3>2. /\ delivery' = [delivery EXCEPT ![d] = [op |-> "check", msg |-> m, whole |-> message[m].whole]]
          /\ UNCHANGED <<suppressed, mailJob>>
      BY <1>7, <2>2 DEF FindMessage, SetDelivery
    <3>3. [op |-> "check", msg |-> m, whole |-> message[m].whole] \in Delivery
      BY <2>1 DEF Delivery, Message
    <3>4. MailTypeOK'  BY <1>1, <3>2, <3>3 DEF MailTypeOK
    <3>5. CopiesAreWhole' /\ NamesLogged'
      BY <1>1, <2>1, <3>1, <3>2 DEF CopiesAreWhole, NamesLogged, MailTypeOK
    <3> QED  BY <1>2, <3>4, <3>5
  <2>3. CASE message[m].status # "queued"
    <3>1. mailJob' = [mailJob EXCEPT ![m] = 0] /\ UNCHANGED <<suppressed, delivery>>
      BY <1>7, <2>3 DEF FindMessage
    <3>2. mailJob' \in [Messages -> 0..MaxSends] /\ \A n \in Messages : mailJob'[n] > 0 => mailJob[n] > 0
      BY <3>1, MailAssumption DEF MailTypeOK
    <3> QED  BY <1>1, <1>2, <3>1, <3>2 DEF MailTypeOK, NamesLogged, CopiesAreWhole
  <2> QED  BY <2>2, <2>3
<1> QED  BY <1>4, <1>5, <1>6, <1>7

\* The provider gets what the delivery carries, which is whole.
LEMMA ProviderKeeps ==
  ASSUME MailInv, NEW d \in Deliveries, NEW answer \in {"ok", "lost", "busy", "refused"},
         CallProvider(d, answer)
  PROVE  MailInv'
<1> USE DEF MailInv
<1> DEFINE m == delivery[d].msg
           op == CASE answer = "ok" -> "sent"
                   [] answer = "refused" -> "failed"
                   [] answer \in {"lost", "busy"} -> "retry"
<1>1. /\ m \in Logged /\ m \in Messages /\ delivery[d].whole
      /\ UNCHANGED <<message, suppressed, sender, mailJob>>
      /\ delivery' = [delivery EXCEPT ![d] = [msg |-> m, op |-> op]]
  BY LoggedType DEF CallProvider, SetDelivery, NamesLogged, CopiesAreWhole
<1>2. op \in {"sent", "failed", "retry"}  OBVIOUS
<1>3. [msg |-> m, op |-> op] \in Delivery  BY <1>1, <1>2 DEF Delivery
<1>4. provider' = provider \/ provider' = [provider EXCEPT ![m] = "whole"]
  BY <1>1 DEF CallProvider
<1>5. Logged' = Logged  BY <1>1 DEF Logged
<1>6. MailTypeOK'  BY <1>1, <1>3, <1>4 DEF MailTypeOK
<1>7. CopiesAreWhole'  BY <1>1, <1>2 DEF CopiesAreWhole, MailTypeOK
<1>8. NamesLogged'
  <2>1. \A n \in Messages : provider'[n] # "nothing" => n \in Logged
    BY <1>1, <1>4 DEF NamesLogged, MailTypeOK
  <2> QED  BY <1>1, <1>2, <1>5, <2>1 DEF NamesLogged, MailTypeOK
<1>9. MailGoesOutWhole'  BY <1>1, <1>4, <1>5 DEF MailGoesOutWhole, MailTypeOK
<1> QED  BY <1>6, <1>7, <1>8, <1>9

\* A report never puts a message back into the queue.
LEMMA ReportKeeps ==
  ASSUME MailInv, NEW d \in Deliveries, NEW m \in Messages, NEW report \in Reports,
         RecordDeliveryEvent(d, m, report)
  PROVE  MailInv'
<1> USE NoMessageAssumption DEF MailInv
<1>1. m \in Logged /\ message[m] \in Message
  BY LoggedType DEF RecordDeliveryEvent, NamesLogged
<1>2. [message[m] EXCEPT !.status = report] \in Message  BY <1>1 DEF Message, Reports
<1>3. message' = message \/ message' = [message EXCEPT ![m] = [message[m] EXCEPT !.status = report]]
  BY DEF RecordDeliveryEvent
<1>4. message' \in [Messages -> Message \cup {NoMessage}] /\ Logged' = Logged
  BY <1>1, <1>2, <1>3 DEF MailTypeOK, Logged
<1>5. /\ delivery' = [delivery EXCEPT ![d] = delivery'[d]]
      /\ delivery'[d].op \in {"none", "suppress"} /\ delivery'[d] \in Delivery
      /\ UNCHANGED <<suppressed, sender, mailJob, provider>>
  BY DEF RecordDeliveryEvent, SetDelivery, NoDelivery, Delivery, MailTypeOK
<1>6. MailTypeOK'  BY <1>4, <1>5 DEF MailTypeOK
<1>7. NamesLogged' /\ CopiesAreWhole'
  BY <1>4, <1>5 DEF NamesLogged, CopiesAreWhole, MailTypeOK
<1>8. MailGoesOutWhole'
  <2>1. \A n \in Logged : message'[n].status = "queued" => message'[n] = message[n]
    BY <1>1, <1>3 DEF Logged, MailTypeOK, Message, Reports
  <2> QED  BY <1>4, <1>5, <2>1 DEF MailGoesOutWhole
<1> QED  BY <1>6, <1>7, <1>8

\* A step keeps the invariant.
LEMMA MailInductive == MailInv /\ [MailNext]_mailVars => MailInv'
<1> SUFFICES ASSUME MailInv, [MailNext]_mailVars PROVE MailInv'
  OBVIOUS
<1>1. ASSUME NEW d \in Deliveries, SaveBlocked(d) \/ SaveSent(d) \/ SaveFailed(d) PROVE MailInv'
  BY <1>1, CloseKeeps DEF SaveBlocked, SaveSent, SaveFailed
<1>2. CASE UNCHANGED mailVars
  BY <1>2 DEF mailVars, MailInv, MailTypeOK, NamesLogged, CopiesAreWhole, MailGoesOutWhole, Logged
<1> QED
  BY <1>1, <1>2, SenderKeeps, LogKeeps, DeliveryKeeps, ProviderKeeps, ReportKeeps DEF MailNext

\* Every variable keeps its type (emailMessage.model.ts).
THEOREM MailTypeCorrect == MailSpec => []MailTypeOK
<1>1. MailInv => MailTypeOK  BY DEF MailInv
<1> QED  BY <1>1, MailInitInv, MailInductive, PTL DEF MailSpec

\* A body is erased "once nothing will send it again" (email.service.ts:187): no mail
\* goes out without its link, however deliveries are retried, overlap or lose their
\* answer.
THEOREM MailGoesOutWithItsLink == MailSpec => []MailGoesOutWhole
<1>1. MailInv => MailGoesOutWhole  BY DEF MailInv
<1> QED  BY <1>1, MailInitInv, MailInductive, PTL DEF MailSpec

-------------------------------------------------------------------------------
(***************************************************************************)
(* RateLimit.  A window lets through no more than its document counts, and *)
(* no document more than the limit (WindowsHold); a stretch as long as a   *)
(* window meets two of them at most (TwoWindows).                          *)
(***************************************************************************)

Instants == 0..LastInstant

\* The instants that one document counts the hits of.
InWindow(w) == {i \in Instants : WindowStart(i) = w}

Admissions(w) == Total(InWindow(w), admitted)

\* A document counts all that its window admitted, while it can still count.
WindowsHold ==
  \A w \in Instants : /\ Admissions(w) <= HitLimit
                      /\ w = WindowStart(instant) => Admissions(w) <= hits[w]

RateLimitInv ==
  /\ RateLimitTypeOK
  /\ \A c \in Containers : counting[c].op = "hit" => counting[c].at <= instant
  /\ \A i \in Instants : i > instant => admitted[i] = 0
  /\ ~ceded => WindowsHold

-----------------------------------------------------------------------------
\* The window of an instant starts no later, and less than its length before.
LEMMA WindowBounds ==
  ASSUME NEW t \in Nat
  PROVE  /\ t \div WindowLength \in Nat /\ WindowStart(t) \in Nat
         /\ WindowStart(t) <= t /\ t < WindowStart(t) + WindowLength
<1> DEFINE q == t \div WindowLength
<1>0. WindowLength \in Nat \ {0}  BY RateLimitAssumption
<1>1. q \in Nat /\ WindowLength * q <= t /\ t < WindowLength * q + WindowLength
  BY <1>0, SMTT(60)
<1>2. WindowStart(t) = q * WindowLength  BY DEF WindowStart
<1> HIDE DEF q
<1> QED  BY <1>0, <1>1, <1>2 DEF q

\* Products grow with their factors.
LEMMA ProductsGrow == ASSUME NEW a \in Nat, NEW b \in Nat, NEW w \in Nat, a <= b PROVE a * w <= b * w
OBVIOUS

\* An instant between two starts is of the window of the first.
LEMMA WindowsDoNotOverlap ==
  ASSUME NEW q \in Nat, NEW i \in Nat, q * WindowLength <= i, i < q * WindowLength + WindowLength
  PROVE  WindowStart(i) = q * WindowLength
<1> DEFINE p == i \div WindowLength
           W == WindowLength
<1>0. W \in Nat  BY RateLimitAssumption
<1>1. p \in Nat /\ p * W <= i /\ i < p * W + W  BY WindowBounds DEF WindowStart
<1>2. q * W <= i /\ i < q * W + W  OBVIOUS
<1> HIDE DEF p, W
<1>3. ~(q + 1 <= p)
  <2> SUFFICES ASSUME q + 1 <= p PROVE FALSE  OBVIOUS
  <2>1. (q + 1) * W <= p * W  BY <1>0, <1>1, ProductsGrow
  <2>2. (q + 1) * W = q * W + W  BY <1>0
  <2> QED  BY <1>0, <1>1, <1>2, <2>1, <2>2
<1>4. ~(p + 1 <= q)
  <2> SUFFICES ASSUME p + 1 <= q PROVE FALSE  OBVIOUS
  <2>1. (p + 1) * W <= q * W  BY <1>0, <1>1, ProductsGrow
  <2>2. (p + 1) * W = p * W + W  BY <1>0, <1>1
  <2> QED  BY <1>0, <1>1, <1>2, <2>1, <2>2
<1>5. p = q  BY <1>1, <1>3, <1>4
<1> QED  BY <1>5 DEF p, W, WindowStart

\* As long as a window, and across one boundary at most.
LEMMA TwoWindows ==
  ASSUME NEW t \in Nat, NEW i \in Nat, t <= i, i < t + WindowLength
  PROVE  WindowStart(i) \in {WindowStart(t), WindowStart(t) + WindowLength}
<1> DEFINE q == t \div WindowLength
           W == WindowLength
<1>0. W \in Nat  BY RateLimitAssumption
<1>1. q \in Nat /\ WindowStart(t) = q * W /\ q * W \in Nat /\ q * W <= t /\ t < q * W + W
  BY WindowBounds DEF WindowStart
<1>2. t <= i /\ i < t + W  OBVIOUS
<1>3. (q + 1) * W = q * W + W /\ q + 1 \in Nat  BY <1>0, <1>1
<1>4. CASE i < q * W + W
  <2>1. q * W <= i  BY <1>1, <1>2
  <2>2. WindowStart(i) = q * W  BY <1>1, <1>4, <2>1, WindowsDoNotOverlap
  <2> QED  BY <1>1, <2>2
<1>5. CASE q * W + W <= i
  <2>1. (q + 1) * W <= i /\ i < (q + 1) * W + W
    <3> HIDE DEF q, W
    <3> QED  BY <1>0, <1>1, <1>2, <1>3, <1>5
  <2>2. WindowStart(i) = (q + 1) * W  BY <1>3, <2>1, WindowsDoNotOverlap
  <2> QED  BY <1>1, <1>3, <2>2
<1>6. i < q * W + W \/ q * W + W <= i
  <2> HIDE DEF q, W
  <2> QED  BY <1>0, <1>1
<1> QED  BY <1>4, <1>5, <1>6

\* The types, from the invariant.
LEMMA RateFacts ==
  ASSUME RateLimitInv
  PROVE  /\ instant \in Instants /\ instant \in Nat /\ LastInstant \in Nat /\ HitLimit \in Nat
         /\ WindowLength \in Nat \ {0} /\ ceded \in BOOLEAN /\ begun \in 0..MaxHits
         /\ hits \in [Instants -> Nat] /\ admitted \in [Instants -> Nat]
         /\ counting \in [Containers -> Counting]
         /\ \A w : IsFiniteSet(InWindow(w)) /\ Admissions(w) \in Int
<1>1. /\ instant \in Instants /\ LastInstant \in Nat /\ HitLimit \in Nat
      /\ WindowLength \in Nat \ {0} /\ ceded \in BOOLEAN /\ begun \in 0..MaxHits
      /\ hits \in [Instants -> Nat] /\ admitted \in [Instants -> Nat]
      /\ counting \in [Containers -> Counting]
  BY RateLimitAssumption DEF RateLimitInv, RateLimitTypeOK, Instants
<1>2. instant \in Nat  BY <1>1 DEF Instants
<1>3. ASSUME NEW w PROVE IsFiniteSet(InWindow(w)) /\ Admissions(w) \in Int
  <2>1. IsFiniteSet(Instants)  BY <1>1, FS_Interval DEF Instants
  <2>2. IsFiniteSet(InWindow(w)) /\ InWindow(w) \subseteq Instants  BY <2>1, FS_Subset DEF InWindow
  <2>3. \A i \in InWindow(w) : admitted[i] \in Int  BY <1>1, <2>2
  <2> QED  BY <2>2, <2>3, TotalType DEF Admissions
<1> QED  BY <1>1, <1>2, <1>3

\* What a hit carries, by where it is.
LEMMA CountingTypes ==
  ASSUME RateLimitInv, NEW c \in Containers, counting[c].op = "hit"
  PROVE  /\ counting[c].at \in Instants /\ counting[c].at <= instant
         /\ NotCounting \in Counting /\ NotCounting.op = "none"
<1>1. counting[c] \in Counting /\ counting[c].at <= instant  BY DEF RateLimitInv, RateLimitTypeOK
<1>2. NotCounting \in Counting /\ NotCounting.op = "none"  BY DEF Counting, NotCounting
<1>3. counting[c] # NotCounting  BY <1>2
<1>4. counting[c].at \in Instants  BY <1>1, <1>3 DEF Counting, Instants
<1> QED  BY <1>1, <1>2, <1>4

\* An instant's window starts at an instant.
LEMMA WindowIsInstant ==
  ASSUME RateLimitInv, NEW t \in Instants
  PROVE  t \in Nat /\ WindowStart(t) \in Instants /\ WindowStart(t) <= t /\ t < WindowStart(t) + WindowLength
<1>1. t \in Nat /\ t <= LastInstant  BY RateFacts DEF Instants
<1>2. WindowStart(t) \in Nat /\ WindowStart(t) <= t /\ t < WindowStart(t) + WindowLength
  BY <1>1, WindowBounds
<1> QED  BY <1>1, <1>2, RateFacts DEF Instants

\* One more request of an instant is one more of its window.
LEMMA OneMoreAdmitted ==
  ASSUME RateLimitInv, NEW at \in Instants, admitted' = [admitted EXCEPT ![at] = @ + 1]
  PROVE  /\ admitted' \in [Instants -> Nat]
         /\ \A i \in Instants : i # at => admitted'[i] = admitted[i]
         /\ \A w : Admissions(w)' = Admissions(w) + (IF w = WindowStart(at) THEN 1 ELSE 0)
<1>0. admitted \in [Instants -> Nat]  BY RateFacts
<1>1. admitted' \in [Instants -> Nat] /\ admitted'[at] = admitted[at] + 1 /\ admitted[at] \in Nat
      /\ \A i \in Instants : i # at => admitted'[i] = admitted[i]
  BY <1>0
<1>2. ASSUME NEW w PROVE Admissions(w)' = Admissions(w) + (IF w = WindowStart(at) THEN 1 ELSE 0)
  <2>1. InWindow(w) \subseteq Instants /\ IsFiniteSet(InWindow(w)) /\ Admissions(w) \in Int
        /\ Admissions(w)' = Total(InWindow(w), admitted')
    BY RateFacts DEF InWindow, Admissions
  <2>2. CASE w = WindowStart(at)
    <3>1. at \in InWindow(w)  BY <2>2 DEF InWindow
    <3>2. \A i \in InWindow(w) : admitted[i] \in Int /\ admitted'[i] \in Int  BY <1>0, <1>1, <2>1
    <3>3. \A i \in InWindow(w) \ {at} : admitted'[i] = admitted[i]  BY <1>1, <2>1
    <3>4. Total(InWindow(w), admitted') = Total(InWindow(w), admitted) + admitted'[at] - admitted[at]
      <4>1. ASSUME NEW S, S = InWindow(w)
            PROVE  Total(S, admitted') = Total(S, admitted) + admitted'[at] - admitted[at]
        <5>1. /\ IsFiniteSet(S) /\ at \in S
              /\ \A y \in S : admitted[y] \in Int /\ admitted'[y] \in Int
              /\ \A y \in S \ {at} : admitted'[y] = admitted[y]
          BY <2>1, <3>1, <3>2, <3>3, <4>1
        <5> QED  BY ONLY <5>1, TotalMove
      <4> QED  BY <4>1
    <3> QED  BY <1>1, <2>1, <2>2, <3>4 DEF Admissions
  <2>3. CASE w # WindowStart(at)
    <3>1. \A i \in InWindow(w) : admitted'[i] = admitted[i]  BY <1>1, <2>3 DEF InWindow
    <3>2. Total(InWindow(w), admitted') = Total(InWindow(w), admitted)  BY <3>1, TotalSame
    <3> QED  BY <2>1, <2>3, <3>2 DEF Admissions
  <2> QED  BY <2>2, <2>3
<1> QED  BY <1>1, <1>2

\* Nothing was admitted in a window that is to come.
LEMMA NothingAhead ==
  ASSUME RateLimitInv, NEW w, w > instant, w \in Nat
  PROVE  Admissions(w) = 0
<1> DEFINE z == [i \in InWindow(w) |-> 0]
<1>1. ASSUME NEW i \in InWindow(w) PROVE admitted[i] = 0
  <2>1. i \in Instants /\ WindowStart(i) = w  BY DEF InWindow
  <2>2. i \in Nat /\ w <= i  BY <2>1, WindowIsInstant
  <2>3. i > instant  BY <2>2, RateFacts
  <2> QED  BY <2>1, <2>3 DEF RateLimitInv
<1>2. UnitsOf(InWindow(w), admitted) = {}
  <2>1. \A i \in InWindow(w) : 1..admitted[i] = {}  BY <1>1
  <2> QED  BY <2>1 DEF UnitsOf
<1>3. \A i \in InWindow(w) : admitted[i] \in Nat  BY <1>1
<1> QED  BY <1>2, <1>3, RateFacts, TotalOfNat, FS_EmptySet DEF Admissions

\* The invariant is inductive.
LEMMA RateLimitInductive == RateLimitInv /\ [RateLimitNext]_rateLimitVars => RateLimitInv'
<1> SUFFICES ASSUME RateLimitInv, [RateLimitNext]_rateLimitVars PROVE RateLimitInv'  OBVIOUS
<1>0. /\ instant \in Instants /\ instant \in Nat /\ LastInstant \in Nat /\ HitLimit \in Nat
      /\ WindowLength \in Nat \ {0} /\ ceded \in BOOLEAN /\ begun \in 0..MaxHits
      /\ hits \in [Instants -> Nat] /\ admitted \in [Instants -> Nat]
      /\ counting \in [Containers -> Counting]
      /\ \A w : Admissions(w) \in Int
      /\ \A c \in Containers : counting[c].op = "hit" => counting[c].at <= instant
      /\ \A i \in Instants : i > instant => admitted[i] = 0
      /\ ~ceded => WindowsHold
  BY RateFacts DEF RateLimitInv
\* A container is done with its hit.
<1>1. ASSUME NEW c \in Containers, counting' = [counting EXCEPT ![c] = NotCounting],
             UNCHANGED <<instant, begun>>, hits' \in [Instants -> Nat], admitted' \in [Instants -> Nat],
             \A i \in Instants : i > instant => admitted'[i] = 0,
             ceded' \in BOOLEAN, ~ceded' => WindowsHold'
      PROVE  RateLimitInv'
  <2>1. NotCounting \in Counting /\ NotCounting.op = "none"  BY DEF Counting, NotCounting
  <2>2. counting' \in [Containers -> Counting]  BY <1>0, <1>1, <2>1
  <2>3. \A d \in Containers : counting'[d] = IF d = c THEN NotCounting ELSE counting[d]  BY <1>0, <1>1
  <2>4. \A d \in Containers : counting'[d].op = "hit" => counting'[d].at <= instant'
    BY <1>0, <1>1, <2>1, <2>3
  <2>5. RateLimitTypeOK'  BY <1>0, <1>1, <2>2 DEF RateLimitTypeOK, Instants
  <2> QED  BY <1>1, <2>4, <2>5 DEF RateLimitInv
<1>2. ASSUME NEW c \in Containers, Hit(c) PROVE RateLimitInv'
  <2>0. counting[c].at \in Instants /\ counting[c].at <= instant  BY <1>2, CountingTypes DEF Hit
  <2> PICK at \in Instants : at = counting[c].at  BY <2>0
  <2> PICK w : w = WindowStart(at)  OBVIOUS
  <2>1. at \in Instants /\ at <= instant /\ w \in Instants  BY <2>0, WindowIsInstant
  <2>2. /\ counting' = [counting EXCEPT ![c] = NotCounting] /\ UNCHANGED <<instant, begun>>
        /\ hits' = [hits EXCEPT ![w] = @ + 1]
        /\ admitted' = IF hits'[w] <= HitLimit THEN [admitted EXCEPT ![at] = @ + 1] ELSE admitted
        /\ ceded' = (ceded \/ WindowStart(instant) # w)
    BY <1>2 DEF Hit
  <2>3. /\ hits' \in [Instants -> Nat] /\ hits[w] \in Nat /\ hits'[w] = hits[w] + 1
        /\ \A v \in Instants : v # w => hits'[v] = hits[v]
    BY <1>0, <2>1, <2>2
  <2>4. ceded' \in BOOLEAN /\ (~ceded' => ~ceded /\ WindowStart(instant) = w)  BY <2>2
  <2>5. CASE hits'[w] <= HitLimit
    <3>1. /\ admitted' \in [Instants -> Nat]
          /\ \A i \in Instants : i # at => admitted'[i] = admitted[i]
          /\ \A v : Admissions(v)' = Admissions(v) + (IF v = w THEN 1 ELSE 0)
      BY <2>1, <2>2, <2>5, OneMoreAdmitted
    <3>2. \A i \in Instants : i > instant => admitted'[i] = 0
      <4>1. \A i \in Instants : i > instant => i # at  BY <1>0, <2>1 DEF Instants
      <4> QED  BY <1>0, <3>1, <4>1
    <3>3. ASSUME ~ceded' PROVE WindowsHold'
      <4>1. WindowsHold /\ WindowStart(instant) = w /\ instant' = instant  BY <1>0, <2>2, <2>4, <3>3
      <4>2. Admissions(w) <= hits[w]  BY <2>1, <4>1 DEF WindowsHold
      <4>3. Admissions(w)' <= hits'[w] /\ Admissions(w)' <= HitLimit
        BY <1>0, <2>3, <2>5, <3>1, <4>2
      <4>4. \A v \in Instants : v # w => Admissions(v)' = Admissions(v)  BY <1>0, <3>1
      <4>5. ASSUME NEW v \in Instants
            PROVE  Admissions(v)' <= HitLimit /\ (v = WindowStart(instant)' => Admissions(v)' <= hits'[v])
        <5>1. CASE v = w  BY <4>3, <5>1 DEF Admissions, InWindow
        <5>2. CASE v # w  BY <4>1, <4>4, <5>2 DEF WindowsHold, WindowStart
        <5> QED  BY <5>1, <5>2
      <4> QED  BY <4>5 DEF WindowsHold
    <3> QED  BY <1>1, <2>2, <2>3, <2>4, <3>1, <3>2, <3>3
  <2>6. CASE ~(hits'[w] <= HitLimit)
    <3>1. admitted' = admitted  BY <2>2, <2>6
    <3>2. \A v : Admissions(v)' = Admissions(v)  BY <3>1 DEF Admissions, InWindow
    <3>3. ASSUME ~ceded' PROVE WindowsHold'
      <4>1. WindowsHold /\ WindowStart(instant) = w /\ instant' = instant  BY <1>0, <2>2, <2>4, <3>3
      <4>2. Admissions(w) <= hits'[w]
        <5>1. Admissions(w) <= hits[w]  BY <2>1, <4>1 DEF WindowsHold
        <5> QED  BY <1>0, <2>3, <5>1
      <4>3. WindowStart(instant)' = w  BY <4>1 DEF WindowStart
      <4> QED  BY <3>2, <4>1, <4>2, <4>3 DEF WindowsHold
    <3> QED  BY <1>0, <1>1, <2>2, <2>3, <2>4, <3>1, <3>3
  <2> QED  BY <2>5, <2>6
<1>3. ASSUME NEW c \in Containers, FailOpen(c) PROVE RateLimitInv'
  <2> DEFINE at == counting[c].at
  <2>1. at \in Instants /\ at <= instant  BY <1>3, CountingTypes DEF FailOpen
  <2>2. /\ counting' = [counting EXCEPT ![c] = NotCounting] /\ UNCHANGED <<instant, hits, begun>>
        /\ admitted' = [admitted EXCEPT ![at] = @ + 1] /\ ceded' = TRUE
    BY <1>3 DEF FailOpen
  <2> HIDE DEF at
  <2>3. /\ admitted' \in [Instants -> Nat]
        /\ \A i \in Instants : i # at => admitted'[i] = admitted[i]
    BY <2>1, <2>2, OneMoreAdmitted
  <2>4. \A i \in Instants : i > instant => i # at  BY <1>0, <2>1 DEF Instants
  <2> QED  BY <1>0, <1>1, <2>2, <2>3, <2>4
<1>4. ASSUME NEW c \in Containers, BeginHit(c) PROVE RateLimitInv'
  <2> DEFINE t == [op |-> "hit", at |-> instant]
  <2>1. /\ begun' = begun + 1 /\ begun < MaxHits /\ counting' = [counting EXCEPT ![c] = t]
        /\ UNCHANGED <<instant, hits, admitted, ceded>>
    BY <1>4 DEF BeginHit
  <2>2. t \in Counting /\ t.at = instant  BY <1>0 DEF Counting, Instants
  <2> HIDE DEF t
  <2>3. begun' \in 0..MaxHits  BY <1>0, <2>1, RateLimitAssumption
  <2>4. counting' \in [Containers -> Counting]  BY <1>0, <2>1, <2>2
  <2>5. \A d \in Containers : counting'[d] = IF d = c THEN t ELSE counting[d]  BY <1>0, <2>1
  <2>6. RateLimitTypeOK'  BY <1>0, <2>1, <2>3, <2>4 DEF RateLimitTypeOK, Instants
  <2>7. \A d \in Containers : counting'[d].op = "hit" => counting'[d].at <= instant'
    BY <1>0, <2>1, <2>2, <2>5
  <2>8. WindowsHold' = WindowsHold  BY <2>1 DEF WindowsHold, Admissions, InWindow, WindowStart
  <2> QED  BY <1>0, <2>1, <2>6, <2>7, <2>8 DEF RateLimitInv
<1>5. ASSUME NEW t \in Instants, ExpireHits(t) PROVE RateLimitInv'
  <2>1. /\ t + WindowLength <= instant /\ hits' = [hits EXCEPT ![t] = 0]
        /\ UNCHANGED <<instant, begun, counting, admitted, ceded>>
    BY <1>5 DEF ExpireHits
  <2>2. WindowStart(instant) # t
    <3>1. WindowStart(instant) \in Nat /\ instant < WindowStart(instant) + WindowLength
      BY <1>0, WindowBounds
    <3> QED  BY <1>0, <2>1, <3>1 DEF Instants
  <2>3. hits' \in [Instants -> Nat] /\ \A v \in Instants : v # t => hits'[v] = hits[v]  BY <1>0, <2>1
  <2>4. RateLimitTypeOK'  BY <1>0, <2>1, <2>3 DEF RateLimitTypeOK, Instants
  <2>5. WindowsHold => WindowsHold'
    <3>1. (\A v : Admissions(v)' = Admissions(v)) /\ WindowStart(instant)' = WindowStart(instant)
      BY <2>1 DEF Admissions, InWindow, WindowStart
    <3> QED  BY <2>2, <2>3, <3>1 DEF WindowsHold
  <2> QED  BY <1>0, <2>1, <2>4, <2>5 DEF RateLimitInv
<1>6. ASSUME InstantPasses PROVE RateLimitInv'
  <2>1. /\ instant < LastInstant /\ instant' = instant + 1
        /\ UNCHANGED <<hits, begun, counting, admitted, ceded>>
    BY <1>6 DEF InstantPasses
  <2>2. instant' \in Instants /\ instant' \in Nat  BY <1>0, <2>1 DEF Instants
  <2>3. RateLimitTypeOK'  BY <1>0, <2>1, <2>2 DEF RateLimitTypeOK, Instants
  <2>4. \A d \in Containers : counting'[d].op = "hit" => counting'[d].at <= instant'
    <3>1. \A d \in Containers : counting[d].op = "hit" => counting[d].at \in Nat
      BY CountingTypes DEF Instants
    <3> QED  BY <1>0, <2>1, <2>2, <3>1
  <2>5. \A i \in Instants : i > instant' => admitted'[i] = 0
    <3>1. \A i \in Instants : i > instant' => i > instant  BY <1>0, <2>1 DEF Instants
    <3> QED  BY <1>0, <2>1, <3>1
  <2>6. ASSUME WindowsHold PROVE WindowsHold'
    <3>1. \A v : Admissions(v)' = Admissions(v)  BY <2>1 DEF Admissions, InWindow
    <3>2. ASSUME NEW v \in Instants, v = WindowStart(instant') PROVE Admissions(v) <= hits[v]
      <4>1. v \in Nat /\ v <= instant' /\ instant' < v + WindowLength /\ v \in Nat  BY <2>2, <3>2, WindowBounds
      <4>2. CASE v > instant
        <5>1. Admissions(v) = 0  BY <4>1, <4>2, NothingAhead
        <5> QED  BY <1>0, <5>1
      <4>3. CASE v <= instant
        <5> DEFINE q == instant' \div WindowLength
        <5>1. q \in Nat /\ v = q * WindowLength  BY <2>2, <3>2, WindowBounds DEF WindowStart
        <5> HIDE DEF q
        <5>2. instant < v + WindowLength  BY <1>0, <2>1, <4>1
        <5>3. WindowStart(instant) = v
          <6>1. q * WindowLength <= instant /\ instant < q * WindowLength + WindowLength
            BY <4>3, <5>1, <5>2
          <6> QED  BY <1>0, <5>1, <6>1, WindowsDoNotOverlap
        <5> QED  BY <2>6, <5>3 DEF WindowsHold
      <4> QED  BY <1>0, <4>1, <4>2, <4>3
    <3>3. WindowStart(instant)' = WindowStart(instant')  BY DEF WindowStart
    <3> QED  BY <2>1, <2>6, <3>1, <3>2, <3>3 DEF WindowsHold
  <2> QED  BY <1>0, <2>1, <2>3, <2>4, <2>5, <2>6 DEF RateLimitInv
<1>7. ASSUME UNCHANGED rateLimitVars PROVE RateLimitInv'
  <2>1. UNCHANGED <<instant, hits, begun, counting, admitted, ceded>>  BY <1>7 DEF rateLimitVars
  <2>2. WindowsHold' = WindowsHold  BY <2>1 DEF WindowsHold, Admissions, InWindow, WindowStart
  <2>3. RateLimitTypeOK'  BY <1>0, <2>1 DEF RateLimitTypeOK, Instants
  <2> QED  BY <1>0, <2>1, <2>2, <2>3 DEF RateLimitInv
<1> QED  BY <1>2, <1>3, <1>4, <1>5, <1>6, <1>7 DEF RateLimitNext, Instants

\* The invariant holds at first.
LEMMA RateLimitInitInv == RateLimitInit => RateLimitInv
<1> SUFFICES ASSUME RateLimitInit PROVE RateLimitInv  OBVIOUS
<1>1. NotCounting \in Counting /\ NotCounting.op = "none"  BY DEF Counting, NotCounting
<1>2. RateLimitTypeOK
  <2>1. ceded = FALSE  BY DEF RateLimitInit
  <2>2. ceded \in BOOLEAN  BY <2>1
  <2>3. instant \in 0..LastInstant /\ begun \in 0..MaxHits  BY RateLimitAssumption DEF RateLimitInit
  <2>4. hits \in [0..LastInstant -> Nat] /\ admitted \in [0..LastInstant -> Nat]  BY DEF RateLimitInit
  <2>5. counting \in [Containers -> Counting]  BY <1>1 DEF RateLimitInit
  <2> QED  BY <2>2, <2>3, <2>4, <2>5 DEF RateLimitTypeOK
<1>3. \A c \in Containers : counting[c].op = "hit" => counting[c].at <= instant  BY <1>1 DEF RateLimitInit
<1>4. \A i \in Instants : admitted[i] = 0 /\ hits[i] = 0  BY DEF RateLimitInit, Instants
<1>5. \A w : Admissions(w) = 0
  <2> TAKE w
  <2>1. \A i \in InWindow(w) : admitted[i] = 0 /\ admitted[i] \in Nat  BY <1>4 DEF InWindow
  <2>2. \A i \in InWindow(w) : 1..admitted[i] = {}  BY <2>1
  <2>3. UnitsOf(InWindow(w), admitted) = {}  BY <2>2 DEF UnitsOf
  <2>4. IsFiniteSet(Instants)  BY RateLimitAssumption, FS_Interval DEF Instants
  <2>5. IsFiniteSet(InWindow(w))  BY <2>4, FS_Subset DEF InWindow
  <2> QED  BY <2>1, <2>3, <2>5, TotalOfNat, FS_EmptySet DEF Admissions
<1>6. WindowsHold  BY <1>4, <1>5, RateLimitAssumption DEF WindowsHold
<1> QED  BY <1>2, <1>3, <1>4, <1>6 DEF RateLimitInv

\* Every step keeps the types of the counters of the windows and what each container is counting.
THEOREM RateLimitTypeCorrect == RateLimitSpec => []RateLimitTypeOK
<1>1. RateLimitInv => RateLimitTypeOK  BY DEF RateLimitInv
<1> QED  BY <1>1, RateLimitInitInv, RateLimitInductive, PTL DEF RateLimitSpec

\* "A fixed window allows up to twice the limit across a boundary": for every length of the
\* window, every limit and every number of containers, no more than twice the limit are let
\* through for as long as a window lasts, from any admitted request on, if the store answered
\* every hit and within its window (mongoRateLimitStore.ts:17).
THEOREM TwiceAtMost == RateLimitSpec => []AtMostTwiceTheLimit
<1>1. RateLimitInv => AtMostTwiceTheLimit
  <2> SUFFICES ASSUME RateLimitInv, ~ceded, NEW t \in Instants
               PROVE  Total({i \in Instants : t <= i /\ i < t + WindowLength}, admitted) <= 2 * HitLimit
    BY DEF AtMostTwiceTheLimit, Instants
  <2> DEFINE S == {i \in Instants : t <= i /\ i < t + WindowLength}
             w == WindowStart(t)
             v == w + WindowLength
  <2>1. t \in Nat /\ w \in Instants /\ w \in Nat /\ v \in Nat
    <3>1. t \in Nat /\ w \in Instants  BY WindowIsInstant
    <3>2. w \in Nat /\ WindowLength \in Nat  BY <3>1, WindowBounds, RateLimitAssumption
    <3> QED  BY <3>1, <3>2
  <2>2. S \subseteq InWindow(w) \cup InWindow(v)
    <3>1. ASSUME NEW i \in S PROVE i \in InWindow(w) \cup InWindow(v)
      <4>1. i \in Nat /\ i \in Instants /\ t <= i /\ i < t + WindowLength  BY DEF Instants
      <4>2. WindowStart(i) \in {w, v}  BY <2>1, <4>1, TwoWindows
      <4> QED  BY <4>1, <4>2 DEF InWindow
    <3> QED  BY <3>1
  <2>3. Total(S, admitted) <= Admissions(w) + Admissions(v)
    <3>1. IsFiniteSet(InWindow(w)) /\ IsFiniteSet(InWindow(v))  BY RateFacts
    <3>2. \A i \in InWindow(w) \cup InWindow(v) : admitted[i] \in Nat  BY RateFacts DEF InWindow
    <3> HIDE DEF S, w, v
    <3> QED  BY <2>2, <3>1, <3>2, TotalCovered DEF Admissions
  <2>4. Admissions(w) <= HitLimit  BY <2>1 DEF RateLimitInv, WindowsHold
  <2>5. Admissions(v) <= HitLimit
    <3>1. CASE v \in Instants  BY <3>1 DEF RateLimitInv, WindowsHold
    <3>2. CASE v \notin Instants
      <4>1. v > instant  BY <2>1, <3>2, RateFacts DEF Instants
      <4>2. Admissions(v) = 0  BY <2>1, <4>1, NothingAhead
      <4> QED  BY <4>2, RateFacts
    <3> QED  BY <3>1, <3>2
  <2>6. Admissions(w) \in Int /\ Admissions(v) \in Int /\ Total(S, admitted) \in Int /\ HitLimit \in Nat
    <3>1. IsFiniteSet(Instants)  BY RateFacts, FS_Interval DEF Instants
    <3>2. IsFiniteSet(S)  BY <3>1, FS_Subset
    <3>3. \A i \in S : admitted[i] \in Int  BY RateFacts
    <3>4. Total(S, admitted) \in Int  BY <3>2, <3>3, TotalType
    <3> QED  BY <3>4, RateFacts
  <2> HIDE DEF S, w, v
  <2>7. Total(S, admitted) <= 2 * HitLimit  BY <2>3, <2>4, <2>5, <2>6
  <2> QED  BY <2>7 DEF S
<1> QED  BY <1>1, RateLimitInitInv, RateLimitInductive, PTL DEF RateLimitSpec

-------------------------------------------------------------------------------
(***************************************************************************)
(* Outbox.  The invariant says of a deliverer's unlocked copy what the     *)
(* properties say of the row: a subscriber it would skip has recorded the  *)
(* event.                                                                  *)
(***************************************************************************)

\* A subscriber that a deliverer will skip, or has called, has its entry.
CopiesAreRecorded ==
  \A d \in Deliverers, e \in Events :
    (worker[d].pc = "deliver" /\ e \in worker[d].batch) =>
      \A s \in worker[d].copy[e].completed : records[e][s] >= 1

\* What a deliverer is about to $push is in its copy of the row it is at.
PushedInCopy ==
  \A d \in Deliverers : \A e \in Current(d) : worker[d].pushed \subseteq worker[d].copy[e].completed

\* A deliverer that is not at a row has nothing to $push.
NothingPushedBefore ==
  \A d \in Deliverers : worker[d].pc # "deliver" => worker[d].pushed = {}

\* A row not yet written has no completions and no deliverer.
UnwrittenRows ==
  \A e \in Events : row[e].status = "none" =>
    row[e].completed = {} /\ \A d \in Deliverers : e \notin worker[d].batch

OutboxInv ==
  /\ OutboxTypeOK
  /\ UnwrittenRows
  /\ CopiesAreRecorded
  /\ PushedInCopy
  /\ NothingPushedBefore
  /\ CompletedMeansRecorded
  /\ DoneMeansDelivered
  /\ OneTimelineEntry

USE OutboxAssumption

-----------------------------------------------------------------------------
\* A row copied from a typed row is typed.
LEMMA CopyType ==
  ASSUME row \in [Events -> Row], NEW batch
  PROVE  ReadCopy(batch) \in [Events -> RowCopy]
  BY DEF ReadCopy, Row, RowCopy, NoCopy

\* A resting deliverer is typed.
LEMMA RestingType == Resting \in Worker
  BY DEF Resting, Worker, NoCopy, RowCopy

\* An entry is never withdrawn, and an idempotent subscriber adds one at most.
LEMMA RecordedFacts ==
  ASSUME records \in [Events -> [Subscribers -> 0..2]], NEW e \in Events, NEW s \in Subscribers
  PROVE  /\ Recorded(e, s) \in [Events -> [Subscribers -> 0..2]]
         /\ Recorded(e, s)[e][s] >= 1
         /\ \A f \in Events, t \in Subscribers :
              records[f][t] >= 1 => Recorded(e, s)[f][t] >= 1
         /\ s \in Idempotent => Recorded(e, s)[e][s] = 1
         /\ \A f \in Events, t \in Subscribers :
              (f # e \/ t # s) => Recorded(e, s)[f][t] = records[f][t]
<1> DEFINE n == CASE s \in Idempotent -> 1
                  [] s \notin Idempotent -> IF records[e][s] = 0 THEN 1 ELSE 2
<1>2. n \in 1..2 /\ (s \in Idempotent => n = 1)
  BY DEF n
<1>3. Recorded(e, s) = [records EXCEPT ![e] = [records[e] EXCEPT ![s] = n]]
  BY DEF Recorded, n
<1> HIDE DEF n
<1>4. \A f \in Events, t \in Subscribers :
        Recorded(e, s)[f][t] = IF f = e /\ t = s THEN n ELSE records[f][t]
  BY <1>3
<1>5. Recorded(e, s) \in [Events -> [Subscribers -> 0..2]]
  BY <1>2, <1>3
<1> QED
  BY <1>2, <1>4, <1>5

\* The saved row is typed, keeps what was noted and adds what was pushed.
LEMMA SavedType ==
  ASSUME OutboxTypeOK, NEW d \in Deliverers, NEW e \in Events
  PROVE  /\ SavedRow(d, e) \in Row
         /\ SavedRow(d, e).completed = row[e].completed \cup worker[d].pushed
         /\ SavedRow(d, e).status = "done" =>
              row[e].status = "done" \/ worker[d].failures = {}
         /\ SavedRow(d, e).status = "none" => row[e].status = "none"
<1> /\ worker[d].copy[e] \in RowCopy /\ row[e] \in Row
    /\ worker[d].pushed \in SUBSET Subscribers /\ worker[d].failures \in SUBSET Subscribers
  BY DEF OutboxTypeOK, Worker
<1> DEFINE a == Attempted(worker[d].copy[e].attempts)
<1>1. a \in 0..DeadAfter
  BY DEF Attempted, RowCopy
<1>2. /\ Outcome(a, worker[d].failures) \in {"pending", "done", "failed"}
      /\ Outcome(a, worker[d].failures) = "done" => worker[d].failures = {}
  BY <1>1 DEF Outcome
<1> HIDE DEF a
<1>3. SavedRow(d, e) =
        [status    |-> IF Outcome(a, worker[d].failures) = worker[d].copy[e].status
                       THEN row[e].status ELSE Outcome(a, worker[d].failures),
         due       |-> row[e].due /\ Outcome(a, worker[d].failures) # "pending",
         attempts  |-> a,
         completed |-> row[e].completed \cup worker[d].pushed]
  BY DEF SavedRow, a
<1> QED
  BY <1>1, <1>2, <1>3 DEF Row

-----------------------------------------------------------------------------
\* The invariant holds at the start.
LEMMA OutboxInitInv == OutboxInit => OutboxInv
<1> SUFFICES ASSUME OutboxInit PROVE OutboxInv
  OBVIOUS
<1>1. row \in [Events -> Row] /\ records \in [Events -> [Subscribers -> 0..2]]
  BY DEF OutboxInit, NoRow, Row
<1>2. worker \in [Deliverers -> Worker]
  BY RestingType DEF OutboxInit
<1>3. OutboxTypeOK
  BY <1>1, <1>2 DEF OutboxTypeOK, OutboxInit
<1>4. \A d \in Deliverers : worker[d].pc = "idle" /\ worker[d].pushed = {} /\ worker[d].batch = {}
  BY DEF OutboxInit, Resting
<1>5. \A e \in Events : row[e].completed = {} /\ row[e].status = "none"
  BY DEF OutboxInit, NoRow
<1> QED
  BY <1>3, <1>4, <1>5 DEF OutboxInv, UnwrittenRows, CopiesAreRecorded, PushedInCopy, NothingPushedBefore,
     CompletedMeansRecorded, DoneMeansDelivered, OneTimelineEntry, Current, OutboxInit

\* Steps that leave rows and entries alone and put one deliverer to rest, or to
\* work on fresh copies of rows, keep the invariant.
LEMMA WorkerStep ==
  ASSUME OutboxInv, NEW d \in Deliverers, NEW w \in Worker,
         worker' = [worker EXCEPT ![d] = w], UNCHANGED <<row, records>>,
         outboxFaults' \in 0..MaxOutboxFaults,
         w.pushed = {},
         w.pc = "deliver" =>
           \A e \in w.batch : w.copy[e].completed = row[e].completed,
         \A e \in w.batch : row[e].status # "none"
  PROVE  OutboxInv'
<1> USE DEF OutboxInv
<1>1. OutboxTypeOK'
  BY DEF OutboxTypeOK
<1>2. \A c \in Deliverers : worker'[c] = IF c = d THEN w ELSE worker[c]
  BY DEF OutboxTypeOK
<1>3. CopiesAreRecorded'
  BY <1>2 DEF CopiesAreRecorded, CompletedMeansRecorded, Worker
<1>4. PushedInCopy' /\ NothingPushedBefore'
  BY <1>2 DEF PushedInCopy, NothingPushedBefore, Current
<1>5. CompletedMeansRecorded' /\ DoneMeansDelivered' /\ OneTimelineEntry'
  BY DEF CompletedMeansRecorded, DoneMeansDelivered, OneTimelineEntry
<1>6. UnwrittenRows'
  BY <1>2 DEF UnwrittenRows, Worker
<1> QED
  BY <1>1, <1>3, <1>4, <1>5, <1>6

\* A request commits a row and takes it up.
LEMMA CommitInv ==
  ASSUME OutboxInv, NEW d \in Deliverers, NEW e \in Events, Commit(d, e)
  PROVE  OutboxInv'
<1> USE DEF OutboxInv
<1> DEFINE w == [Resting EXCEPT !.pc = "flush", !.batch = {e}]
           r == NewRow
<1>1. /\ w \in Worker /\ w.pc = "flush" /\ w.pushed = {} /\ w.batch = {e}
  <2>1. NoCopy \in [Events -> RowCopy]
    BY DEF NoCopy, RowCopy
  <2> QED
    BY <2>1 DEF Worker, Resting
<1>2. r \in Row /\ r.completed = {} /\ r.status = "pending"
  BY DEF NewRow, Row
<1> HIDE DEF w, r
<1>3. /\ worker' = [worker EXCEPT ![d] = w] /\ row' = [row EXCEPT ![e] = r]
      /\ UNCHANGED <<records, outboxFaults>>
  BY DEF Commit, w, r
<1>4. OutboxTypeOK'
  BY <1>1, <1>2, <1>3 DEF OutboxTypeOK
<1>5. /\ \A c \in Deliverers : worker'[c] = IF c = d THEN w ELSE worker[c]
      /\ \A f \in Events : row'[f] = IF f = e THEN r ELSE row[f]
  BY <1>3 DEF OutboxTypeOK
<1>6. CopiesAreRecorded' /\ PushedInCopy' /\ NothingPushedBefore'
  BY <1>1, <1>3, <1>5 DEF CopiesAreRecorded, PushedInCopy, NothingPushedBefore, Current
<1>7. CompletedMeansRecorded' /\ DoneMeansDelivered' /\ OneTimelineEntry'
  BY <1>2, <1>3, <1>5 DEF CompletedMeansRecorded, DoneMeansDelivered, OneTimelineEntry
<1>8. UnwrittenRows'
  BY <1>1, <1>2, <1>5 DEF UnwrittenRows
<1> QED
  BY <1>4, <1>6, <1>7, <1>8

\* A request reads back the rows it emitted.
LEMMA FlushInv ==
  ASSUME OutboxInv, NEW d \in Deliverers, Flush(d)
  PROVE  OutboxInv'
<1> USE DEF OutboxInv
<1> DEFINE w == [worker[d] EXCEPT !.pc = "deliver", !.copy = ReadCopy(worker[d].batch)]
<1>1. ReadCopy(worker[d].batch) \in [Events -> RowCopy] /\ worker[d] \in Worker
  BY CopyType DEF OutboxTypeOK
<1>2. w \in Worker /\ w.batch = worker[d].batch /\ w.copy = ReadCopy(worker[d].batch)
      /\ w.pushed = worker[d].pushed
  BY <1>1 DEF Worker
<1>3. worker' = [worker EXCEPT ![d] = w]
  BY DEF Flush, OutboxTypeOK
<1>4. w.pushed = {}
  BY <1>2 DEF NothingPushedBefore, Flush
<1>5. \A e \in w.batch : w.copy[e].completed = row[e].completed
  BY <1>1, <1>2 DEF ReadCopy, Worker
<1>6. \A e \in w.batch : row[e].status # "none"
  BY <1>2 DEF UnwrittenRows, Worker
<1> HIDE DEF w
<1> QED
  BY <1>2, <1>3, <1>4, <1>5, <1>6, WorkerStep DEF Flush, OutboxTypeOK

\* A sweep reads copies of its batch.
LEMMA SweepInv ==
  ASSUME OutboxInv, NEW d \in Deliverers, Sweep(d)
  PROVE  OutboxInv'
<1> USE DEF OutboxInv
<1> DEFINE w == [Resting EXCEPT !.pc = "deliver", !.batch = SweepBatch,
                                !.copy = ReadCopy(SweepBatch)]
<1>1. ReadCopy(SweepBatch) \in [Events -> RowCopy] /\ SweepBatch \in SUBSET Events
  BY CopyType DEF OutboxTypeOK, SweepBatch, Selectable
<1>2. w \in Worker /\ w.batch = SweepBatch /\ w.copy = ReadCopy(SweepBatch) /\ w.pushed = {}
  BY <1>1 DEF Worker, Resting
<1>3. worker' = [worker EXCEPT ![d] = w]
  BY DEF Sweep
<1>4. \A e \in w.batch : w.copy[e].completed = row[e].completed
  BY <1>1, <1>2 DEF ReadCopy
<1>5. \A e \in w.batch : row[e].status # "none"
  BY <1>2 DEF SweepBatch, Selectable
<1> HIDE DEF w
<1> QED
  BY <1>2, <1>3, <1>4, <1>5, WorkerStep DEF Sweep, OutboxTypeOK

\* A deliverer that dies leaves rows and entries alone.
LEMMA AbandonInv ==
  ASSUME OutboxInv, NEW d \in Deliverers, Abandon(d)
  PROVE  OutboxInv'
<1>1. Resting \in Worker /\ Resting.pushed = {} /\ Resting.pc = "idle" /\ Resting.batch = {}
  BY RestingType DEF Resting
<1>2. outboxFaults' \in 0..MaxOutboxFaults
  BY DEF Abandon, OutboxInv, OutboxTypeOK
<1> QED
  BY <1>1, <1>2, WorkerStep DEF Abandon

\* A subscriber's entry is there before the copy says so.
LEMMA HandleOkInv ==
  ASSUME OutboxInv, NEW d \in Deliverers, NEW e \in Events, NEW s \in Subscribers, HandleOk(d, e, s)
  PROVE  OutboxInv'
<1> USE DEF OutboxInv
<1>0. worker[d] \in Worker /\ worker[d].copy[e] \in RowCopy /\ e \in Current(d)
      /\ worker[d].pc = "deliver" /\ e \in worker[d].batch
  BY DEF OutboxTypeOK, Worker, HandleOk, Current
<1> DEFINE c == [worker[d].copy[e] EXCEPT !.completed = @ \cup {s}]
           w == [worker[d] EXCEPT !.copy = [worker[d].copy EXCEPT ![e] = c],
                                  !.pushed = worker[d].pushed \cup {s}]
<1>1. c \in RowCopy /\ c.completed = worker[d].copy[e].completed \cup {s}
  BY <1>0 DEF RowCopy
<1>2. worker' = [worker EXCEPT ![d] = w]
  BY DEF HandleOk, OutboxTypeOK
<1> HIDE DEF c
<1>3. /\ w \in Worker /\ w.pc = "deliver" /\ w.batch = worker[d].batch
      /\ w.pushed = worker[d].pushed \cup {s}
      /\ \A f \in Events : w.copy[f] = IF f = e THEN c ELSE worker[d].copy[f]
  BY <1>0, <1>1 DEF Worker
<1> HIDE DEF w
<1>4. /\ records' \in [Events -> [Subscribers -> 0..2]]
      /\ records'[e][s] >= 1
      /\ \A f \in Events, t \in Subscribers : records[f][t] >= 1 => records'[f][t] >= 1
      /\ s \in Idempotent => records'[e][s] = 1
      /\ \A f \in Events, t \in Subscribers :
           (f # e \/ t # s) => records'[f][t] = records[f][t]
  BY RecordedFacts DEF HandleOk, OutboxTypeOK
<1>5. OutboxTypeOK'
  BY <1>2, <1>3, <1>4 DEF OutboxTypeOK, HandleOk
<1>6. \A b \in Deliverers : worker'[b] = IF b = d THEN w ELSE worker[b]
  BY <1>2 DEF OutboxTypeOK
<1>7. \A f \in Events, t \in Subscribers : records[f][t] \in 0..2 /\ records'[f][t] \in 0..2
  BY <1>4 DEF OutboxTypeOK
<1>8. \A b \in Deliverers, f \in Events : worker[b].copy[f].completed \in SUBSET Subscribers
  BY DEF OutboxTypeOK, Worker, RowCopy
<1>9. CopiesAreRecorded'
  <2> SUFFICES ASSUME NEW b \in Deliverers, NEW f \in Events,
                      worker'[b].pc = "deliver", f \in worker'[b].batch,
                      NEW t \in worker'[b].copy[f].completed
               PROVE  records'[f][t] >= 1
    BY DEF CopiesAreRecorded
  <2>1. CASE b = d /\ f = e /\ t = s
    BY <2>1, <1>4
  <2>2. CASE ~(b = d /\ f = e /\ t = s)
    <3>1. worker[b].pc = "deliver" /\ f \in worker[b].batch /\ t \in worker[b].copy[f].completed
      BY <2>2, <1>0, <1>1, <1>3, <1>6
    <3>2. records[f][t] >= 1 /\ t \in Subscribers
      BY <3>1, <1>8 DEF CopiesAreRecorded
    <3> QED
      BY <3>2, <1>4, <1>7
  <2> QED
    BY <2>1, <2>2
<1>10. PushedInCopy' /\ NothingPushedBefore'
  <2>1. \A b \in Deliverers : Current(b)' = Current(b)
    BY <1>0, <1>3, <1>6 DEF Current
  <2>2. \A f \in Current(d) : f = e
    BY <1>0 DEF Current, OutboxTypeOK, Worker
  <2>3. ASSUME NEW b \in Deliverers, NEW f \in Current(b)'
        PROVE  worker'[b].pushed \subseteq worker'[b].copy[f].completed
    <3>1. f \in Current(b) /\ f \in Events
      BY <2>1, <2>3 DEF Current, OutboxTypeOK, Worker
    <3>2. CASE b = d
      BY <3>1, <3>2, <2>2, <1>1, <1>3, <1>6 DEF PushedInCopy
    <3>3. CASE b # d
      BY <3>1, <3>3, <1>6 DEF PushedInCopy
    <3> QED
      BY <3>2, <3>3
  <2>4. PushedInCopy'
    BY <2>3 DEF PushedInCopy
  <2>5. NothingPushedBefore'
    BY <1>3, <1>6 DEF NothingPushedBefore
  <2> QED
    BY <2>4, <2>5
<1>11. \A f \in Events : row[f].completed \in SUBSET Subscribers /\ Applicable[f] \in SUBSET Subscribers
  BY DEF OutboxTypeOK, Row
<1>12. CompletedMeansRecorded' /\ DoneMeansDelivered'
  BY <1>4, <1>7, <1>11 DEF CompletedMeansRecorded, DoneMeansDelivered, HandleOk
<1>13. OneTimelineEntry'
  BY <1>4, <1>7 DEF OneTimelineEntry
<1>14. UnwrittenRows'
  BY <1>3, <1>6 DEF UnwrittenRows, HandleOk
<1> QED
  BY <1>5, <1>9, <1>10, <1>12, <1>13, <1>14

\* A subscriber that throws is not in the copy.
LEMMA HandleFailsInv ==
  ASSUME OutboxInv, NEW d \in Deliverers, NEW e \in Events, NEW s \in Subscribers, HandleFails(d, e, s)
  PROVE  OutboxInv'
<1> USE DEF OutboxInv
<1> DEFINE w == [worker[d] EXCEPT !.failures = worker[d].failures \cup {s}]
<1>1. worker' = [worker EXCEPT ![d] = w]
  BY DEF HandleFails, OutboxTypeOK
<1>2. /\ w \in Worker /\ w.pc = worker[d].pc /\ w.batch = worker[d].batch
      /\ w.pushed = worker[d].pushed /\ w.copy = worker[d].copy
  BY DEF OutboxTypeOK, Worker
<1> HIDE DEF w
<1>3. /\ records' \in [Events -> [Subscribers -> 0..2]]
      /\ \A f \in Events, t \in Subscribers : records[f][t] >= 1 => records'[f][t] >= 1
      /\ \A f \in Events, t \in Idempotent : records'[f][t] = records[f][t] \/ records'[f][t] = 1
  <2>1. CASE records' = records
    BY <2>1 DEF OutboxTypeOK
  <2>2. CASE records' = Recorded(e, s)
    BY <2>2, RecordedFacts DEF OutboxTypeOK
  <2> QED
    BY <2>1, <2>2 DEF HandleFails
<1>4. OutboxTypeOK'
  BY <1>1, <1>2, <1>3 DEF OutboxTypeOK, HandleFails
<1>5. \A b \in Deliverers : worker'[b] = IF b = d THEN w ELSE worker[b]
  BY <1>1 DEF OutboxTypeOK
<1>6. \A f \in Events, t \in Subscribers : records[f][t] \in 0..2 /\ records'[f][t] \in 0..2
  BY <1>3 DEF OutboxTypeOK
<1>7. \A b \in Deliverers, f \in Events : worker[b].copy[f].completed \in SUBSET Subscribers
  BY DEF OutboxTypeOK, Worker, RowCopy
<1>8. CopiesAreRecorded'
  <2> SUFFICES ASSUME NEW b \in Deliverers, NEW f \in Events,
                      worker'[b].pc = "deliver", f \in worker'[b].batch,
                      NEW t \in worker'[b].copy[f].completed
               PROVE  records'[f][t] >= 1
    BY DEF CopiesAreRecorded
  <2>1. worker[b].pc = "deliver" /\ f \in worker[b].batch /\ t \in worker[b].copy[f].completed
    BY <1>2, <1>5
  <2>2. records[f][t] >= 1 /\ t \in Subscribers
    BY <2>1, <1>7 DEF CopiesAreRecorded
  <2> QED
    BY <2>2, <1>3
<1>9. PushedInCopy' /\ NothingPushedBefore'
  BY <1>2, <1>5 DEF PushedInCopy, NothingPushedBefore, Current
<1>10. \A f \in Events : row[f].completed \in SUBSET Subscribers /\ Applicable[f] \in SUBSET Subscribers
  BY DEF OutboxTypeOK, Row
<1>11. CompletedMeansRecorded' /\ DoneMeansDelivered'
  <2>1. row' = row
    BY DEF HandleFails
  <2>2. CompletedMeansRecorded'
    BY <2>1, <1>3, <1>10 DEF CompletedMeansRecorded
  <2>3. DoneMeansDelivered'
    BY <2>1, <1>3, <1>10 DEF DoneMeansDelivered
  <2> QED
    BY <2>2, <2>3
<1>12. OneTimelineEntry'
  <2> SUFFICES ASSUME NEW f \in Events, NEW t \in Idempotent PROVE records'[f][t] <= 1
    BY DEF OneTimelineEntry
  <2>1. records[f][t] <= 1
    BY DEF OneTimelineEntry
  <2>2. records'[f][t] = records[f][t] \/ records'[f][t] = 1
    BY <1>3
  <2> QED
    BY ONLY <2>1, <2>2
<1>13. UnwrittenRows'
  BY <1>2, <1>5 DEF UnwrittenRows, HandleFails
<1> QED
  BY <1>4, <1>8, <1>9, <1>11, <1>12, <1>13

\* Saving an old copy adds only subscribers that have their entries.
LEMMA SaveInv ==
  ASSUME OutboxInv, NEW d \in Deliverers, NEW e \in Events, Save(d, e)
  PROVE  OutboxInv'
<1> USE DEF OutboxInv
<1> DEFINE w == NextRow(d, e)
           r == SavedRow(d, e)
<1>0. worker[d] \in Worker /\ e \in Current(d) /\ worker[d].pc = "deliver" /\ e \in worker[d].batch
  BY DEF OutboxTypeOK, Save, Current
<1>1. worker' = [worker EXCEPT ![d] = w] /\ row' = [row EXCEPT ![e] = r]
      /\ UNCHANGED <<records, outboxFaults>>
  BY DEF Save
<1>2. /\ w \in Worker /\ w.pushed = {} /\ w.batch \subseteq worker[d].batch
      /\ w.pc = "deliver" => w.copy = worker[d].copy
  BY <1>0, RestingType DEF NextRow, Worker, Resting
<1>3. /\ r \in Row /\ r.completed = row[e].completed \cup worker[d].pushed
      /\ r.status = "done" => row[e].status = "done" \/ worker[d].failures = {}
      /\ r.status = "none" => row[e].status = "none"
  BY SavedType
<1> HIDE DEF w, r
<1>4. OutboxTypeOK'
  BY <1>1, <1>2, <1>3 DEF OutboxTypeOK
<1>5. /\ \A b \in Deliverers : worker'[b] = IF b = d THEN w ELSE worker[b]
      /\ \A f \in Events : row'[f] = IF f = e THEN r ELSE row[f]
  BY <1>1 DEF OutboxTypeOK
<1>6. CopiesAreRecorded'
  BY <1>0, <1>1, <1>2, <1>5 DEF CopiesAreRecorded
<1>7. PushedInCopy' /\ NothingPushedBefore'
  BY <1>2, <1>5 DEF PushedInCopy, NothingPushedBefore, Current
<1>8. CompletedMeansRecorded'
  BY <1>0, <1>1, <1>3, <1>5 DEF CompletedMeansRecorded, PushedInCopy, CopiesAreRecorded
<1>9. DoneMeansDelivered'
  <2>1. worker[d].failures = {} => \A s \in Applicable[e] : records[e][s] >= 1
    BY <1>0 DEF Save, Todo, CopiesAreRecorded
  <2> QED
    BY <2>1, <1>1, <1>3, <1>5 DEF DoneMeansDelivered
<1>10. OneTimelineEntry'
  BY <1>1 DEF OneTimelineEntry
<1>11. UnwrittenRows'
  BY <1>0, <1>2, <1>3, <1>5 DEF UnwrittenRows
<1> QED
  BY <1>4, <1>6, <1>7, <1>8, <1>9, <1>10, <1>11

\* A row becomes due again.
LEMMA BecomeDueInv ==
  ASSUME OutboxInv, NEW e \in Events, RowBecomesDue(e)
  PROVE  OutboxInv'
<1> USE DEF OutboxInv
<1> DEFINE r == [row[e] EXCEPT !.due = TRUE]
<1>1. row' = [row EXCEPT ![e] = r] /\ UNCHANGED <<worker, records, outboxFaults>>
  BY DEF RowBecomesDue, OutboxTypeOK
<1>2. r \in Row /\ r.completed = row[e].completed /\ r.status = row[e].status
  BY DEF OutboxTypeOK, Row
<1> HIDE DEF r
<1>3. OutboxTypeOK'
  BY <1>1, <1>2 DEF OutboxTypeOK
<1>4. \A f \in Events : row'[f].completed = row[f].completed /\ row'[f].status = row[f].status
  BY <1>1, <1>2 DEF OutboxTypeOK
<1>5. CopiesAreRecorded' /\ PushedInCopy' /\ NothingPushedBefore' /\ OneTimelineEntry'
  BY <1>1 DEF CopiesAreRecorded, PushedInCopy, NothingPushedBefore, OneTimelineEntry, Current
<1>6. CompletedMeansRecorded' /\ DoneMeansDelivered' /\ UnwrittenRows'
  BY <1>1, <1>4 DEF CompletedMeansRecorded, DoneMeansDelivered, UnwrittenRows
<1> QED
  BY <1>3, <1>5, <1>6

\* Every step keeps the invariant.
LEMMA OutboxNextInv == OutboxInv /\ [OutboxNext]_outboxVars => OutboxInv'
<1> SUFFICES ASSUME OutboxInv, [OutboxNext]_outboxVars PROVE OutboxInv'
  OBVIOUS
<1>1. ASSUME NEW d \in Emitters, Flush(d) PROVE OutboxInv'
  BY <1>1, FlushInv DEF Deliverers
<1>2. ASSUME NEW d \in Emitters, NEW e \in Events, Commit(d, e) PROVE OutboxInv'
  BY <1>2, CommitInv DEF Deliverers
<1>3. ASSUME NEW d \in Sweepers, Sweep(d) PROVE OutboxInv'
  BY <1>3, SweepInv DEF Deliverers
<1>4. ASSUME NEW d \in Deliverers, Deliver(d) PROVE OutboxInv'
  BY <1>4, SaveInv, HandleOkInv, HandleFailsInv DEF Deliver
<1>5. ASSUME NEW d \in Deliverers, Abandon(d) PROVE OutboxInv'
  BY <1>5, AbandonInv
<1>6. ASSUME NEW e \in Events, RowBecomesDue(e) PROVE OutboxInv'
  BY <1>6, BecomeDueInv
<1>7. CASE UNCHANGED outboxVars
  BY <1>7 DEF outboxVars, OutboxInv, OutboxTypeOK, UnwrittenRows, CopiesAreRecorded, PushedInCopy, NothingPushedBefore,
     CompletedMeansRecorded, DoneMeansDelivered, OneTimelineEntry, Current
<1> QED
  BY <1>1, <1>2, <1>3, <1>4, <1>5, <1>6, <1>7 DEF OutboxNext

\* The invariant holds in every reachable state.
LEMMA OutboxInvHolds == OutboxSpec => []OutboxInv
  BY OutboxInitInv, OutboxNextInv, PTL DEF OutboxSpec

\* Every variable keeps its type.
THEOREM OutboxTypeCorrect == OutboxSpec => []OutboxTypeOK
<1>1. OutboxInv => OutboxTypeOK
  BY DEF OutboxInv
<1> QED
  BY <1>1, OutboxInvHolds, PTL

\* A row is marked done only when every subscriber that wants it has recorded
\* it, however many deliverers worked on unlocked copies of the row (deliver()).
THEOREM DoneWasDelivered == OutboxSpec => []DoneMeansDelivered
<1>1. OutboxInv => DoneMeansDelivered
  BY DEF OutboxInv
<1> QED
  BY <1>1, OutboxInvHolds, PTL

\* A later delivery skips only subscribers that have recorded the event.
THEOREM CompletedWasRecorded == OutboxSpec => []CompletedMeansRecorded
<1>1. OutboxInv => CompletedMeansRecorded
  BY DEF OutboxInv
<1> QED
  BY <1>1, OutboxInvHolds, PTL

\* Redelivery never gives an idempotent subscriber a second entry.
THEOREM TimelineIsIdempotent == OutboxSpec => []OneTimelineEntry
<1>1. OutboxInv => OneTimelineEntry
  BY DEF OutboxInv
<1> QED
  BY <1>1, OutboxInvHolds, PTL

\* A deliverer that saves an old copy of a row keeps what another has noted in it.
THEOREM CompletionsKept == OutboxSpec => CompletionsAreKept
<1> DEFINE Kept == \A e \in Events : row[e].completed \subseteq row'[e].completed
<1>1. ASSUME OutboxInv, [OutboxNext]_outboxVars PROVE [Kept]_outboxVars
  <2>0. row \in [Events -> Row]
    BY <1>1 DEF OutboxInv, OutboxTypeOK
  <2>1. ASSUME NEW d \in Deliverers, NEW e \in Events, Save(d, e) PROVE Kept
    BY <2>0, <2>1, <1>1, SavedType DEF Save, OutboxInv
  <2>2. ASSUME NEW d \in Emitters, NEW e \in Events, Commit(d, e) PROVE Kept
    <3>1. row[e].completed = {}
      BY <1>1, <2>2 DEF Commit, OutboxInv, UnwrittenRows
    <3> QED
      BY <3>1, <2>0, <2>2 DEF Commit
  <2>3. ASSUME NEW e \in Events, RowBecomesDue(e) PROVE Kept
    BY <2>0, <2>3 DEF RowBecomesDue, Row
  <2> QED
    BY <1>1, <2>1, <2>2, <2>3 DEF OutboxNext, Flush, Sweep, Deliver, HandleOk, HandleFails, Abandon, outboxVars
<1> QED
  BY <1>1, OutboxInvHolds, PTL DEF OutboxSpec, CompletionsAreKept

-------------------------------------------------------------------------------
(***************************************************************************)
(* All of them in one behaviour. A step of one component leaves the others *)
(* as they are, so that what is said of each holds of the whole.           *)
(***************************************************************************)

\* A step of the whole is a step of each component or leaves it as it is.
LEMMA BackgroundSteps ==
  [BackgroundNext]_backgroundVars =>
    /\ [Next]_vars /\ [OutboxNext]_outboxVars /\ [SchedulesNext]_scheduleVars
    /\ [MailNext]_mailVars /\ [RateLimitNext]_rateLimitVars /\ [NoticesNext]_noticeVars
    /\ scenario' = scenario
<1> SUFFICES ASSUME [BackgroundNext]_backgroundVars
             PROVE  /\ [Next]_vars /\ [OutboxNext]_outboxVars /\ [SchedulesNext]_scheduleVars
                    /\ [MailNext]_mailVars /\ [RateLimitNext]_rateLimitVars /\ [NoticesNext]_noticeVars
                    /\ scenario' = scenario
  OBVIOUS
<1>1. [Next]_vars  BY DEF BackgroundNext, Following, backgroundVars
<1>2. [OutboxNext]_outboxVars  BY DEF BackgroundNext, Following, backgroundVars
<1>3. [SchedulesNext]_scheduleVars  BY DEF BackgroundNext, Following, backgroundVars
<1>4. [MailNext]_mailVars  BY DEF BackgroundNext, Following, backgroundVars
<1>5. [RateLimitNext]_rateLimitVars  BY DEF BackgroundNext, Following, backgroundVars
<1>6. [NoticesNext]_noticeVars  BY DEF BackgroundNext, Following, backgroundVars
<1>7. scenario' = scenario  BY DEF BackgroundNext, Following, backgroundVars
<1> QED  BY <1>1, <1>2, <1>3, <1>4, <1>5, <1>6, <1>7

\* What the runs check of all of them at once is what the theorems say of each: whatever
\* the components do beside each other, every one of them behaves as it does alone.
THEOREM BackgroundComposed ==
  BackgroundSpec => /\ Spec /\ OutboxSpec /\ SchedulesSpec
                    /\ MailSpec /\ RateLimitSpec /\ NoticesSpec
<1>1. BackgroundInit => /\ Init /\ OutboxInit /\ SchedulesInit
                        /\ MailInit /\ RateLimitInit /\ NoticesInit
  BY DEF BackgroundInit
<1> QED  BY <1>1, BackgroundSteps, PTL
         DEF BackgroundSpec, Spec, OutboxSpec, SchedulesSpec, MailSpec, RateLimitSpec, NoticesSpec

\* Every variable has its type, of the component that is followed as of the others.
THEOREM BackgroundTypeCorrect == BackgroundSpec => []BackgroundTypeOK
<1>1. BackgroundInit => scenario \in AllScenarios
  BY ScenariosAssumption DEF BackgroundInit
<1>2. scenario \in AllScenarios /\ [BackgroundNext]_backgroundVars => (scenario \in AllScenarios)'
  BY BackgroundSteps
<1>3. (/\ scenario \in AllScenarios /\ TypeOK /\ OutboxTypeOK /\ SchedulesTypeOK
       /\ MailTypeOK /\ RateLimitTypeOK /\ NoticesTypeOK) => BackgroundTypeOK
  BY DEF BackgroundTypeOK, AllScenarios
<1> QED
  BY <1>1, <1>2, <1>3, BackgroundComposed, TypeCorrect, OutboxTypeCorrect, SchedulesTypeCorrect,
     MailTypeCorrect, RateLimitTypeCorrect, NoticesTypeCorrect, PTL DEF BackgroundSpec
===============================================================================
