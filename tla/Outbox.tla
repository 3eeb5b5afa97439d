-------------------------------- MODULE Outbox --------------------------------
(***************************************************************************)
(* The transactional outbox of core/events/eventBus.ts.                    *)
(*                                                                         *)
(* A request commits an event row with its state change and then delivers  *)
(* the row itself (flushOutbox); sweeps of the outbox queue deliver what   *)
(* is left (dispatchPending).  Nothing locks a row: several deliverers may *)
(* hold copies of the same row, hand it to the subscribers at once and     *)
(* save their copies in any order.  row.save() sends what the copy         *)
(* changed: a $push of the subscribers this deliverer completed, a $set of *)
(* attempts, and a $set of status only if it differs from what was read.   *)
(***************************************************************************)
EXTENDS Naturals, FiniteSets

CONSTANTS
  Events,      \* event rows, numbered in the order of occurredAt
  Subscribers, \* numbered in the order of registration (1: audit, 2: timeline)
  Applicable,  \* the subscribers whose types match each event
  Idempotent,  \* the subscribers with a unique index on sourceEventId
  Emitters,    \* HTTP requests that emit events
  Sweepers,    \* runs of the outbox job and of the worker's loop
  Limit,       \* rows a sweep reads
  DeadAfter,   \* attempts after which a failing event is dead-lettered (5)
  MaxOutboxFaults    \* bound on crashes and on failures of row.save()

ASSUME OutboxAssumption ==
  /\ Events \subseteq Nat /\ Subscribers \subseteq Nat
  /\ Applicable \in [Events -> SUBSET Subscribers]
  /\ Idempotent \subseteq Subscribers
  /\ Emitters \cap Sweepers = {}
  /\ Limit \in Nat \ {0} /\ DeadAfter \in Nat \ {0} /\ MaxOutboxFaults \in Nat

VARIABLES
  row,      \* the collection outboxevents
  worker,   \* what each deliverer is doing
  records,  \* entries each subscriber has written for each event: 0, 1, or 2 for more
  outboxFaults    \* crashes and failed saves so far

outboxVars == <<row, worker, records, outboxFaults>>

Deliverers == Emitters \cup Sweepers

\* attempts is compared with DeadAfter only, and counted up to it.
RowCopy == [status: {"none", "pending", "done", "failed"},
            attempts: 0..DeadAfter, completed: SUBSET Subscribers]

Row == [status: {"none", "pending", "done", "failed"}, due: BOOLEAN,
        attempts: 0..DeadAfter, completed: SUBSET Subscribers]

\* batch: the rows still to deliver; copy: the rows as they were read; pushed
\* and failures: the subscribers that succeeded and failed on the oldest of them.
Worker == [pc: {"idle", "flush", "deliver"}, batch: SUBSET Events,
           copy: [Events -> RowCopy],
           pushed: SUBSET Subscribers, failures: SUBSET Subscribers]

NoRow == [status |-> "none", due |-> FALSE, attempts |-> 0, completed |-> {}]
NewRow == [status |-> "pending", due |-> TRUE, attempts |-> 0, completed |-> {}]
NoCopy == [e \in Events |-> [status |-> "none", attempts |-> 0, completed |-> {}]]

Resting == [pc |-> "idle", batch |-> {}, copy |-> NoCopy, pushed |-> {}, failures |-> {}]

OutboxInit ==
  /\ row = [e \in Events |-> NoRow]
  /\ worker = [d \in Deliverers |-> Resting]
  /\ records = [e \in Events |-> [s \in Subscribers |-> 0]]
  /\ outboxFaults = 0

-----------------------------------------------------------------------------
\* emit() inside the transaction of a request, and its commit.
Commit(d, e) ==
  /\ worker[d].pc = "idle" /\ row[e].status = "none"
  /\ row' = [row EXCEPT ![e] = NewRow]
  /\ worker' = [worker EXCEPT ![d] = [Resting EXCEPT !.pc = "flush", !.batch = {e}]]
  /\ UNCHANGED <<records, outboxFaults>>

\* The rows of a batch as the database has them now.
ReadCopy(batch) ==
  [e \in Events |-> IF e \in batch
                    THEN [status |-> row[e].status, attempts |-> row[e].attempts,
                          completed |-> row[e].completed]
                    ELSE NoCopy[e]]

\* flushOutbox(): reads back the rows this request emitted.
Flush(d) ==
  /\ worker[d].pc = "flush"
  /\ worker' = [worker EXCEPT ![d].pc = "deliver", ![d].copy = ReadCopy(worker[d].batch)]
  /\ UNCHANGED <<row, records, outboxFaults>>

\* Mutant: a sweep of failed rows only.
SelectableFailed == {e \in Events : row[e].status = "failed" /\ row[e].due}

Selectable == {e \in Events : row[e].status \in {"pending", "failed"} /\ row[e].due}

\* dispatchPending(): the oldest `Limit` rows that are pending or failed.
SweepBatch ==
  {e \in Selectable : Cardinality({f \in Selectable : f <= e}) <= Limit}

Sweep(d) ==
  /\ worker[d].pc = "idle" /\ Selectable # {}
  /\ worker' = [worker EXCEPT ![d] = [Resting EXCEPT !.pc = "deliver", !.batch = SweepBatch,
                                                     !.copy = ReadCopy(SweepBatch)]]
  /\ UNCHANGED <<row, records, outboxFaults>>

\* The row a deliverer is at: rows go oldest first.
Current(d) ==
  {e \in worker[d].batch : worker[d].pc = "deliver" /\ \A f \in worker[d].batch : e <= f}

\* The applicable subscribers it has neither skipped nor called, and the next of
\* them in the order of registration.
Todo(d, e) == Applicable[e] \ (worker[d].copy[e].completed \cup worker[d].failures)

Upcoming(d, e) == {s \in Todo(d, e) : \A t \in Todo(d, e) : s <= t}

\* What subscriber s adds for event e: an idempotent one finds its own entry
\* under the unique index and treats the duplicate as success.
Recorded(e, s) ==
  [records EXCEPT ![e][s] =
     CASE s \in Idempotent -> 1
       [] s \notin Idempotent -> IF records[e][s] = 0 THEN 1 ELSE 2]

HandleOk(d, e, s) ==
  /\ e \in Current(d) /\ s \in Upcoming(d, e)
  /\ records' = Recorded(e, s)
  /\ worker' = [worker EXCEPT ![d].copy[e].completed = @ \cup {s}, ![d].pushed = @ \cup {s}]
  /\ UNCHANGED <<row, outboxFaults>>

\* handle() throws, before or after its entry was written.
HandleFails(d, e, s) ==
  /\ e \in Current(d) /\ s \in Upcoming(d, e)
  /\ records' \in {records, Recorded(e, s)}
  /\ worker' = [worker EXCEPT ![d].failures = @ \cup {s}]
  /\ UNCHANGED <<row, outboxFaults>>

\* Mutant: failures that are not looked at.
OutcomeUnseen(attempts, failures) == "done"

\* The status deliver() gives its copy once every subscriber has been called.
Outcome(attempts, failures) ==
  CASE failures = {} -> "done"
    [] failures # {} /\ attempts >= DeadAfter -> "failed"
    [] failures # {} /\ attempts < DeadAfter -> "pending"

Attempted(n) == IF n < DeadAfter THEN n + 1 ELSE DeadAfter

\* Mutant: the whole array is $set, as this deliverer has it.
SavedRowOverwriting(d, e) ==
  [row[e] EXCEPT !.status = Outcome(DeadAfter, worker[d].failures),
                 !.completed = worker[d].copy[e].completed]

\* row.save() of the first row of the batch.
SavedRow(d, e) ==
  LET read     == worker[d].copy[e]
      attempts == Attempted(read.attempts)
      outcome  == Outcome(attempts, worker[d].failures)
  IN  [status    |-> IF outcome = read.status THEN row[e].status ELSE outcome,
       due       |-> row[e].due /\ outcome # "pending",
       attempts  |-> attempts,
       completed |-> row[e].completed \cup worker[d].pushed]

\* On to the next row of the batch, or out of the loop.
NextRow(d, e) ==
  IF worker[d].batch = {e} THEN Resting
  ELSE [worker[d] EXCEPT !.batch = worker[d].batch \ {e}, !.pushed = {}, !.failures = {}]

Save(d, e) ==
  /\ e \in Current(d) /\ Todo(d, e) = {}
  /\ row' = [row EXCEPT ![e] = SavedRow(d, e)]
  /\ worker' = [worker EXCEPT ![d] = NextRow(d, e)]
  /\ UNCHANGED <<records, outboxFaults>>

\* The process dies, or row.save() throws and the rest of the batch is left.
Abandon(d) ==
  /\ worker[d].pc # "idle" /\ outboxFaults < MaxOutboxFaults
  /\ worker' = [worker EXCEPT ![d] = Resting]
  /\ outboxFaults' = outboxFaults + 1
  /\ UNCHANGED <<row, records>>

\* availableAt comes.
RowBecomesDue(e) ==
  /\ row[e].status # "none" /\ ~row[e].due
  /\ row' = [row EXCEPT ![e].due = TRUE]
  /\ UNCHANGED <<worker, records, outboxFaults>>

-----------------------------------------------------------------------------
Deliver(d) ==
  \E e \in Events :
    \/ Save(d, e)
    \/ \E s \in Subscribers : HandleOk(d, e, s) \/ HandleFails(d, e, s)

OutboxNext ==
  \/ \E d \in Emitters : Flush(d) \/ \E e \in Events : Commit(d, e)
  \/ \E d \in Sweepers : Sweep(d)
  \/ \E d \in Deliverers : Deliver(d) \/ Abandon(d)
  \/ \E e \in Events : RowBecomesDue(e)

OutboxSpec == OutboxInit /\ [][OutboxNext]_outboxVars

\* The outbox job is scheduled every minute, so a sweep starts again and again;
\* a deliverer that does not die goes on; a subscriber called again and again
\* for the same event does not throw for ever.  Emitters owe nothing.
OutboxFairness ==
  /\ \A e \in Events : WF_outboxVars(RowBecomesDue(e))
  /\ \A d \in Sweepers : WF_outboxVars(Sweep(d))
  /\ \A d \in Sweepers : WF_outboxVars(Deliver(d))
  /\ \A d \in Sweepers, e \in Events : \A s \in Applicable[e] : SF_outboxVars(HandleOk(d, e, s))

OutboxFairSpec == OutboxSpec /\ OutboxFairness

-----------------------------------------------------------------------------
(* Properties                                                              *)

\* Every variable has its type (outbox.model.ts and the locals of deliver()).
OutboxTypeOK ==
  /\ row \in [Events -> Row]
  /\ worker \in [Deliverers -> Worker]
  /\ records \in [Events -> [Subscribers -> 0..2]]
  /\ outboxFaults \in 0..MaxOutboxFaults

\* A row is marked done only when every applicable subscriber has recorded the
\* event, although deliverers decide it on copies they do not lock.
DoneMeansDelivered ==
  \A e \in Events : row[e].status = "done" => \A s \in Applicable[e] : records[e][s] >= 1

\* A subscriber listed in completedSubscribers, which every later delivery
\* skips, has recorded the event.
CompletedMeansRecorded ==
  \A e \in Events : \A s \in row[e].completed : records[e][s] >= 1

\* However often a row is redelivered, an idempotent subscriber has one entry.
OneTimelineEntry ==
  \A e \in Events : \A s \in Idempotent : records[e][s] <= 1

\* A deliverer saving an old copy does not erase what another one has noted.
CompletionsAreKept ==
  [][\A e \in Events : row[e].completed \subseteq row'[e].completed]_outboxVars

\* A dead-lettered event waits for someone to look at it: no sweep takes it up.
DeadLettersRest ==
  [][\A d \in Sweepers, e \in Events :
       (worker[d].pc = "idle" /\ e \in worker'[d].batch) => row[e].status # "failed"]_outboxVars

\* Every committed event is delivered to all its subscribers in the end, even
\* if the request that emitted it died before its flush.
EveryEventDelivered ==
  \A e \in Events : row[e].status # "none" ~> row[e].status = "done"

=============================================================================
