-------------------------------- MODULE Imports --------------------------------
(***************************************************************************)
(* The staged imports of one organisation (modules/imports): the requests  *)
(* that map, validate, queue and cancel an import, and the runs of the     *)
(* background job that commits it under the organisation's lock            *)
(* (core/locks).                                                           *)
(*                                                                         *)
(* Every database call is a step, for the requests and the runs hold       *)
(* copies of what they have read: a row that is being validated or         *)
(* committed may change under them, and so may the import.  The queue is   *)
(* that of JobQueue, reduced to what an import's job can tell apart.       *)
(***************************************************************************)
EXTENDS Naturals, FiniteSets

CONSTANTS
  Imports,
  Rows,            \* numbers of the staged rows
  ImportOf,        \* the import of each row
  Identity,        \* serial number, email or employee code of each row, or None
  Users,           \* requests in flight
  Strategies,      \* the duplicate strategies that are chosen
  Workers,         \* loops that run jobs of the imports queue
  None,
  MaxAttempts,     \* attempts of an import's job (3)
  MaxRequests,     \* bound on requests
  MaxFaults        \* bound on crashes and errors of the database

Identities == {Identity[r] : r \in Rows} \ {None}

ASSUME ImportsAssumption ==
  /\ Rows \subseteq Nat /\ IsFiniteSet(Rows) /\ ImportOf \in [Rows -> Imports]
  /\ None \notin Imports /\ Strategies \subseteq {"skip", "update", "error"}
  /\ MaxAttempts \in Nat \ {0} /\ MaxRequests \in Nat /\ MaxFaults \in Nat

VARIABLES
  import,   \* the collection importjobs
  row,      \* the collection importrows
  made,     \* entities (assets or people) created from each row: 0, 1, or 2 for more
  task,     \* the queue's job `import:<id>` of each import
  lock,     \* the document import-commit:<tenant>
  user,     \* what each request is doing
  run,      \* what each worker is doing
  open,         \* history: the rows put up for creation since they last created
  requests,     \* requests so far
  faults        \* crashes and errors so far

vars == <<import, row, made, task, lock, user, run, open, requests, faults>>

Statuses == {"mapping", "validating", "preview", "committing", "completed", "failed", "cancelled"}

RowStatuses == {"valid", "invalid", "duplicate", "created", "updated", "skipped", "failed"}

AllStrategies == {"skip", "update", "error"}

RowRecord == [status: RowStatuses, matched: BOOLEAN]

ToCommit == {"valid", "duplicate"}

RowsOf(i) == {r \in Rows : ImportOf[r] = i}

\* A request: the import it is about, the status and strategy it read, and for a
\* validation the rows it has yet to save and the rows as it read them.
UserRecord == [op: {"none", "mapping", "validate", "commit", "cancel"},
               import: Imports \cup {None}, read: Statuses \cup {None},
               strategy: AllStrategies \cup {None}, todo: SUBSET Rows, copy: [Rows -> RowRecord]]

\* A run of an import's job: the batch it has yet to commit, the rows as it read
\* them, and what came of the row it has just applied.
RunRecord == [pc: {"idle", "locking", "reading", "marking", "fetching", "applying", "saving",
                   "finishing", "failing", "releasing", "settling"},
              import: Imports \cup {None}, strategy: AllStrategies \cup {None},
              batch: SUBSET Rows, copy: [Rows -> RowRecord],
              outcome: RowStatuses \cup {None}, ok: BOOLEAN]

Staged == [r \in Rows |-> [status |-> "valid", matched |-> FALSE]]

AtRest == [op |-> "none", import |-> None, read |-> None, strategy |-> None,
           todo |-> {}, copy |-> Staged]

NotRunning == [pc |-> "idle", import |-> None, strategy |-> None, batch |-> {},
               copy |-> Staged, outcome |-> None, ok |-> FALSE]

NoTask == [state |-> "none", attempts |-> 0, lapsed |-> FALSE]

Unlocked == [holder |-> None, lapsed |-> FALSE]

\* The rows of every import are staged and a strategy has been chosen.
Init ==
  /\ import \in [Imports -> [status: {"mapping"}, strategy: Strategies]]
  /\ row = Staged
  /\ made = [r \in Rows |-> 0]
  /\ task = [i \in Imports |-> NoTask]
  /\ lock = Unlocked
  /\ user = [u \in Users |-> AtRest]
  /\ run = [w \in Workers |-> NotRunning]
  /\ open = {}
  /\ requests = 0 /\ faults = 0

-----------------------------------------------------------------------------
(* Requests                                                                 *)

\* findImport(), and the check each handler makes of what it read.
Read(u, op, i) ==
  /\ user[u] = AtRest /\ requests < MaxRequests
  /\ requests' = requests + 1
  /\ user' = [user EXCEPT ![u] = [AtRest EXCEPT !.op = op, !.import = i,
                                               !.read = import[i].status]]
  /\ UNCHANGED <<import, row, made, task, lock, run, open, faults>>

StartMapping(u, i) == import[i].status \notin {"committing", "completed"} /\ Read(u, "mapping", i)

StartCommit(u, i)  == import[i].status = "preview" /\ Read(u, "commit", i)

StartCancel(u, i)  == import[i].status # "completed" /\ Read(u, "cancel", i)

Answered(u) == user' = [user EXCEPT ![u] = AtRest]

\* job.save() writes what this copy has changed: a status equal to the one it
\* read is not written.
SavedStatus(u, status) ==
  LET i == user[u].import
  IN  IF user[u].read = status THEN import[i].status ELSE status

SaveMapping(u, strategy) ==
  /\ user[u].op = "mapping"
  /\ import' = [import EXCEPT ![user[u].import] = [status |-> SavedStatus(u, "mapping"),
                                                   strategy |-> strategy]]
  /\ Answered(u)
  /\ UNCHANGED <<row, made, task, lock, run, open, requests, faults>>

SaveCancel(u) ==
  /\ user[u].op = "cancel"
  /\ import' = [import EXCEPT ![user[u].import].status = SavedStatus(u, "cancelled")]
  /\ Answered(u)
  /\ UNCHANGED <<row, made, task, lock, run, open, requests, faults>>

\* queueImportCommit(): the dedupe key makes a second job of the import the same one.
Enqueue(u) ==
  LET i == user[u].import
  IN  /\ user[u].op = "commit"
      /\ task' = IF task[i].state = "none" THEN [task EXCEPT ![i].state = "queued"] ELSE task
      /\ Answered(u)
      /\ UNCHANGED <<import, row, made, lock, run, open, requests, faults>>

\* Some rows as they are read now; the others are of no concern.
CopyOf(rows) == [r \in Rows |-> IF r \in rows THEN row[r] ELSE Staged[r]]

\* validateImport() checks no status.  Its first save and its read of the rows
\* are one step here.
BeginValidate(u, i) ==
  /\ user[u] = AtRest /\ requests < MaxRequests
  /\ import' = [import EXCEPT ![i].status = "validating"]
  /\ user' = [user EXCEPT ![u] = [op |-> "validate", import |-> i, read |-> "validating",
                                  strategy |-> import[i].strategy,
                                  todo |-> RowsOf(i), copy |-> CopyOf(RowsOf(i))]]
  /\ requests' = requests + 1
  /\ UNCHANGED <<row, made, task, lock, run, open, faults>>

First(rows) == {r \in rows : \A q \in rows : r <= q}

\* Some entity has the identity of row r.
Exists(r) == Identity[r] # None /\ \E q \in Rows : Identity[q] = Identity[r] /\ made[q] > 0

Repeats(r) ==
  Identity[r] # None /\ \E q \in RowsOf(ImportOf[r]) : q < r /\ Identity[q] = Identity[r]

\* What a validation finds: a duplicate in the file, an existing record, or a row
\* to create.  A row with an error in its data is never committed and left out.
Verdict(r, strategy) ==
  [matched |-> ~Repeats(r) /\ Exists(r),
   status  |-> CASE Repeats(r) -> "invalid"
                 [] ~Repeats(r) /\ ~Exists(r) -> "valid"
                 [] ~Repeats(r) /\ Exists(r) -> IF strategy = "error" THEN "invalid" ELSE "duplicate"]

\* row.save() writes the fields that differ from the copy that was read.
SavedRow(r, read, new) ==
  [status  |-> IF new.status = read.status THEN row[r].status ELSE new.status,
   matched |-> IF new.matched = read.matched THEN row[r].matched ELSE new.matched]

ValidateRow(u, r) ==
  /\ user[u].op = "validate" /\ r \in First(user[u].todo)
  /\ row' = [row EXCEPT ![r] = SavedRow(r, user[u].copy[r], Verdict(r, user[u].strategy))]
  /\ open' = IF row[r].status \notin ToCommit /\ row'[r].status \in ToCommit
             THEN open \cup {r} ELSE open
  /\ user' = [user EXCEPT ![u].todo = @ \ {r}, ![u].copy[r] = Staged[r]]
  /\ UNCHANGED <<import, made, task, lock, run, requests, faults>>

FinishValidate(u) ==
  /\ user[u].op = "validate" /\ user[u].todo = {}
  /\ import' = [import EXCEPT ![user[u].import].status = "preview"]
  /\ Answered(u)
  /\ UNCHANGED <<row, made, task, lock, run, open, requests, faults>>

\* A validation over the plan's limit, an error, or the end of the process.
Drop(u) ==
  /\ user[u] # AtRest
  /\ Answered(u)
  /\ UNCHANGED <<import, row, made, task, lock, run, open, requests, faults>>

-----------------------------------------------------------------------------
(* The queue's job and the organisation's lock                              *)

OnIt(w, i) == run[w].import = i

At(w, pc) == run[w].pc = pc

Goto(w, pc) == run' = [run EXCEPT ![w].pc = pc]

Claim(w, i) ==
  /\ At(w, "idle")
  /\ task[i].state = "queued" \/ (task[i].state = "running" /\ task[i].lapsed)
  /\ task' = [task EXCEPT ![i] = [state |-> "running", lapsed |-> FALSE,
                                  attempts |-> IF @.attempts < MaxAttempts
                                               THEN @.attempts + 1 ELSE MaxAttempts]]
  /\ run' = [run EXCEPT ![w] = [NotRunning EXCEPT !.pc = "locking", !.import = i]]
  /\ UNCHANGED <<import, row, made, lock, user, open, requests, faults>>

\* acquireLock(): the holder is the import, so its retry re-enters its own lock.
Lockable(i) == lock.holder \in {None, i} \/ lock.lapsed

TakeLock(w) ==
  /\ At(w, "locking") /\ Lockable(run[w].import)
  /\ lock' = [holder |-> run[w].import, lapsed |-> FALSE]
  /\ Goto(w, "reading")
  /\ UNCHANGED <<import, row, made, task, user, open, requests, faults>>

\* DeferJob: the job waits for the lock without spending an attempt.
Deferred(i) == [task EXCEPT ![i].state = "queued", ![i].attempts = @ - 1]

\* Mutant: refused inside the try block whose finally releases the lock.
LockRefusedReleasing(w) ==
  /\ At(w, "locking") /\ ~Lockable(run[w].import)
  /\ task' = Deferred(run[w].import) /\ lock' = Unlocked
  /\ run' = [run EXCEPT ![w] = NotRunning]
  /\ UNCHANGED <<import, row, made, user, open, requests, faults>>

LockRefused(w) ==
  /\ At(w, "locking") /\ ~Lockable(run[w].import)
  /\ task' = Deferred(run[w].import)
  /\ run' = [run EXCEPT ![w] = NotRunning]
  /\ UNCHANGED <<import, row, made, lock, user, open, requests, faults>>

\* releaseLock(), in the handler's finally block.
Release(w) ==
  /\ At(w, "releasing")
  /\ lock' = IF lock.holder = run[w].import THEN Unlocked ELSE lock
  /\ Goto(w, "settling")
  /\ UNCHANGED <<import, row, made, task, user, open, requests, faults>>

\* The queue records the result: done, to be retried, or dead-lettered.
Settle(w) ==
  LET i == run[w].import
  IN  /\ At(w, "settling")
      /\ task' = [task EXCEPT ![i] = IF run[w].ok \/ @.attempts >= MaxAttempts THEN NoTask
                                     ELSE [@ EXCEPT !.state = "queued"]]
      /\ run' = [run EXCEPT ![w] = NotRunning]
      /\ UNCHANGED <<import, row, made, lock, user, open, requests, faults>>

\* The lease and the lock are both longer than a run may take (LOCK_TTL_MS), so
\* they run out only when the run that took them is dead.
LeaseLapses(i) ==
  /\ task[i].state = "running" /\ ~task[i].lapsed /\ \A w \in Workers : ~OnIt(w, i)
  /\ task' = [task EXCEPT ![i].lapsed = TRUE]
  /\ UNCHANGED <<import, row, made, lock, user, run, open, requests, faults>>

LockLapses ==
  /\ lock.holder # None /\ ~lock.lapsed /\ \A w \in Workers : ~OnIt(w, lock.holder)
  /\ lock' = [lock EXCEPT !.lapsed = TRUE]
  /\ UNCHANGED <<import, row, made, task, user, run, open, requests, faults>>

-----------------------------------------------------------------------------
(* commitImport()                                                           *)

RowsToCommit(i) == {r \in RowsOf(i) : row[r].status \in ToCommit}

\* Mutants: an interrupted import is resumed; it is passed over without a word.
ReadImportResuming(w) ==
  LET i == run[w].import
  IN  /\ At(w, "reading")
      /\ run' = [run EXCEPT ![w].strategy = import[i].strategy,
                            ![w].pc = IF import[i].status \in {"preview", "committing"}
                                      THEN "marking" ELSE "failing"]
      /\ open' = IF import[i].status = "preview" THEN open \cup RowsToCommit(i) ELSE open
      /\ UNCHANGED <<import, row, made, task, lock, user, requests, faults>>

ReadImportQuietly(w) ==
  LET i == run[w].import
  IN  /\ At(w, "reading")
      /\ run' = [run EXCEPT ![w].strategy = import[i].strategy,
                            ![w].pc = IF import[i].status = "preview" THEN "marking" ELSE "releasing"]
      /\ UNCHANGED <<import, row, made, task, lock, user, open, requests, faults>>

ReadImport(w) ==
  LET i == run[w].import
  IN  /\ At(w, "reading")
      /\ run' = [run EXCEPT ![w].strategy = import[i].strategy,
                            ![w].pc = IF import[i].status = "preview" THEN "marking"
                                      ELSE "failing"]
      /\ open' = IF import[i].status = "preview" THEN open \cup RowsToCommit(i) ELSE open
      /\ UNCHANGED <<import, row, made, task, lock, user, requests, faults>>

MarkCommitting(w) ==
  LET i == run[w].import
  IN  /\ At(w, "marking")
      /\ import' = [import EXCEPT ![i].status = "committing"]
      /\ Goto(w, "fetching")
      /\ UNCHANGED <<row, made, task, lock, user, open, requests, faults>>

\* The rows still to commit are read anew until there are none.
FetchBatch(w) ==
  LET batch == RowsToCommit(run[w].import)
  IN  /\ At(w, "fetching")
      /\ run' = [run EXCEPT ![w].batch = batch, ![w].copy = CopyOf(batch),
                            ![w].pc = IF batch = {} THEN "finishing" ELSE "applying"]
      /\ UNCHANGED <<import, row, made, task, lock, user, open, requests, faults>>

\* Mutant: the row's new status is not assigned.
OutcomeUnset(w, status) == Goto(w, "saving")

Outcome(w, status) == run' = [run EXCEPT ![w].outcome = status, ![w].pc = "saving"]

Current(w, r) == At(w, "applying") /\ r \in First(run[w].batch)

\* applyUpdate() or a skip, by the strategy the run read.
ApplyMatched(w, r) ==
  /\ Current(w, r) /\ run[w].copy[r].matched
  /\ IF run[w].strategy = "skip" THEN Outcome(w, "skipped")
     ELSE \E s \in {"updated", "failed"} : Outcome(w, s)
  /\ UNCHANGED <<import, row, made, task, lock, user, open, requests, faults>>

\* applyCreate(): a unique index refuses a second entity of the same identity.
\* The row fails too if the usage counter cannot be raised after the commit.
ApplyCreate(w, r) ==
  /\ Current(w, r) /\ ~run[w].copy[r].matched /\ ~Exists(r)
  /\ made' = [made EXCEPT ![r] = IF @ = 0 THEN 1 ELSE 2]
  /\ open' = open \ {r}
  /\ \/ Outcome(w, "created") /\ UNCHANGED faults
     \/ Outcome(w, "failed") /\ faults < MaxFaults /\ faults' = faults + 1
  /\ UNCHANGED <<import, row, task, lock, user, requests>>

ApplyRefused(w, r) ==
  /\ Current(w, r) /\ ~run[w].copy[r].matched
  /\ Outcome(w, "failed")
  /\ UNCHANGED <<import, row, made, task, lock, user, open, requests, faults>>

SaveRow(w, r) ==
  /\ At(w, "saving") /\ r \in First(run[w].batch)
  /\ row' = [row EXCEPT ![r].status = run[w].outcome]
  /\ run' = [run EXCEPT ![w].batch = @ \ {r}, ![w].copy[r] = Staged[r], ![w].outcome = None,
                        ![w].pc = IF run[w].batch = {r} THEN "fetching" ELSE "applying"]
  /\ UNCHANGED <<import, made, task, lock, user, open, requests, faults>>

Finish(w) ==
  /\ At(w, "finishing")
  /\ import' = [import EXCEPT ![run[w].import].status = "completed"]
  /\ run' = [run EXCEPT ![w].pc = "releasing", ![w].ok = TRUE]
  /\ UNCHANGED <<row, made, task, lock, user, open, requests, faults>>

\* The handler's catch block.
MarkFailed(w) ==
  /\ At(w, "failing")
  /\ import' = [import EXCEPT ![run[w].import].status = "failed"]
  /\ Goto(w, "releasing")
  /\ UNCHANGED <<row, made, task, lock, user, open, requests, faults>>

\* A call to the database throws, in acquireLock() or in commitImport().
RunErrs(w) ==
  /\ faults < MaxFaults
  /\ \/ At(w, "locking") /\ Goto(w, "settling")
     \/ run[w].pc \in {"reading", "marking", "fetching", "saving", "finishing"} /\ Goto(w, "failing")
  /\ faults' = faults + 1
  /\ UNCHANGED <<import, row, made, task, lock, user, open, requests>>

Crash(w) ==
  /\ ~At(w, "idle") /\ faults < MaxFaults
  /\ run' = [run EXCEPT ![w] = NotRunning]
  /\ faults' = faults + 1
  /\ UNCHANGED <<import, row, made, task, lock, user, open, requests>>

-----------------------------------------------------------------------------
UserStep(u) ==
  \/ \E i \in Imports : \/ StartMapping(u, i) \/ StartCommit(u, i)
                        \/ StartCancel(u, i) \/ BeginValidate(u, i)
  \/ \E s \in Strategies : SaveMapping(u, s)
  \/ \E r \in Rows : ValidateRow(u, r)
  \/ SaveCancel(u) \/ Enqueue(u) \/ FinishValidate(u) \/ Drop(u)

RunStep(w) ==
  \/ TakeLock(w) \/ LockRefused(w) \/ ReadImport(w) \/ MarkCommitting(w) \/ FetchBatch(w)
  \/ \E r \in Rows : ApplyMatched(w, r) \/ ApplyCreate(w, r) \/ ApplyRefused(w, r) \/ SaveRow(w, r)
  \/ Finish(w) \/ MarkFailed(w) \/ Release(w) \/ Settle(w)

Next ==
  \/ \E u \in Users : UserStep(u)
  \/ \E w \in Workers : RunStep(w) \/ RunErrs(w) \/ Crash(w)
  \/ \E w \in Workers, i \in Imports : Claim(w, i)
  \/ \E i \in Imports : LeaseLapses(i)
  \/ LockLapses

Spec == Init /\ [][Next]_vars

\* A run that does not die goes on; leases and locks of dead runs run out; a job
\* that can be claimed is, and one that defers again and again finds the lock
\* free in the end.  Requests owe nothing.
Fairness ==
  /\ \A w \in Workers : WF_vars(RunStep(w))
  /\ \A i \in Imports : /\ WF_vars(LeaseLapses(i))
                        /\ SF_vars(\E w \in Workers : Claim(w, i))
                        /\ SF_vars(\E w \in Workers : OnIt(w, i) /\ TakeLock(w))
  /\ WF_vars(LockLapses)

FairSpec == Spec /\ Fairness

-----------------------------------------------------------------------------
(* Properties                                                              *)

\* Every variable has its type (importJob.model.ts, importRow.model.ts, lock.ts).
TypeOK ==
  /\ import \in [Imports -> [status: Statuses, strategy: AllStrategies]]
  /\ row \in [Rows -> RowRecord]
  /\ made \in [Rows -> 0..2]
  /\ task \in [Imports -> [state: {"none", "queued", "running"}, attempts: 0..MaxAttempts,
                           lapsed: BOOLEAN]]
  /\ lock \in [holder: Imports \cup {None}, lapsed: BOOLEAN]
  /\ user \in [Users -> UserRecord]
  /\ run \in [Workers -> RunRecord]
  /\ open \subseteq Rows
  /\ requests \in 0..MaxRequests /\ faults \in 0..MaxFaults

\* Between taking the organisation's lock and giving it back.
Inside(w) == run[w].pc \notin {"idle", "locking", "settling"}

\* Two imports of one organisation never commit at once, through deferrals,
\* crashes, retries and lapsed locks (docs/06-edge-cases.md, #36).
OneImportAtATime == \A v, w \in Workers : Inside(v) /\ Inside(w) => v = w

\* A row creates an entity only if it was put up for it since it last did: by a
\* run that finds the import validated, or by a validation that turned it back
\* into a row to commit.  A retry of an interrupted run puts up nothing.
CreatedAsOffered == [][\A w \in Workers, r \in Rows : ApplyCreate(w, r) => r \in open]_vars

\* A row creates one entity at most: "a retried or resumed commit cannot
\* double-create" (docs/06-edge-cases.md, #32).
CreatedOnce == \A r \in Rows : made[r] <= 1

\* An import does not stay in "committing", with fewer faults than its job has
\* attempts: the user is told that it ended.
CommitEnds == \A i \in Imports : import[i].status = "committing" ~> import[i].status # "committing"

=============================================================================
