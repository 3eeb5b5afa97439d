----------------------------- MODULE ImportsProofs -----------------------------
(***************************************************************************)
(* Type correctness and two safety properties of Imports, for any number   *)
(* of imports, rows, requests and workers.                                 *)
(*                                                                         *)
(* The lock excludes because a worker inside it also has the lease of its  *)
(* import's job (Claimed), which no second worker of that import can have, *)
(* and because neither lapses under a live run (Locked).  A row creates    *)
(* only when it was put up for it because a committing run never has a row *)
(* before it that was not (Offered), but for the one it is about to save.  *)
(***************************************************************************)
EXTENDS Imports, TLAPS

Busy(w) == run[w].pc # "idle"

\* A worker that runs an import's job is alone with it and has its lease.
Claimed ==
  \A w \in Workers : Busy(w) =>
    /\ run[w].import \in Imports
    /\ task[run[w].import].state = "running" /\ ~task[run[w].import].lapsed
    /\ task[run[w].import].attempts >= 1
    /\ \A v \in Workers : Busy(v) /\ run[v].import = run[w].import => v = w

\* A worker inside the lock has it.
Locked == \A w \in Workers : Inside(w) => lock.holder = run[w].import /\ ~lock.lapsed

Committing(w) == run[w].pc \in {"marking", "fetching", "applying", "saving"}

\* The row that has been applied and not yet saved.
Applied(w) == IF At(w, "saving") THEN First(run[w].batch) ELSE {}

\* What a committing run v has before it was put up for creation.
OfferedTo(v) ==
  /\ Committing(v) => RowsToCommit(run[v].import) \ Applied(v) \subseteq open
  /\ run[v].pc \in {"applying", "saving"} => run[v].batch \ Applied(v) \subseteq open

Offered == \A v \in Workers : OfferedTo(v)

\* A row that has been applied leaves the set that is still to commit.
Decided ==
  \A w \in Workers : At(w, "saving") => run[w].outcome \in {"created", "updated", "skipped", "failed"}

IInv == TypeOK /\ Claimed /\ Locked /\ Offered /\ Decided

-----------------------------------------------------------------------------
\* The records that the actions make have their types.
LEMMA Records ==
  /\ Staged \in [Rows -> RowRecord]
  /\ AtRest \in UserRecord /\ NotRunning \in RunRecord
  /\ \A rows : row \in [Rows -> RowRecord] => CopyOf(rows) \in [Rows -> RowRecord]
<1>1. Staged \in [Rows -> RowRecord]  BY DEF Staged, RowRecord, RowStatuses
<1> QED  BY <1>1 DEF AtRest, UserRecord, NotRunning, RunRecord, CopyOf, AllStrategies, RowRecord

ImportRecord == [status: Statuses, strategy: AllStrategies]
TaskRecord == [state: {"none", "queued", "running"}, attempts: 0..MaxAttempts, lapsed: BOOLEAN]

\* An import whose status is saved has its type.
LEMMA StatusSaved ==
  ASSUME TypeOK, NEW i, NEW status \in Statuses
  PROVE  [import EXCEPT ![i].status = status] \in [Imports -> ImportRecord]
<1>1. import \in [Imports -> ImportRecord]  BY DEF TypeOK, ImportRecord
<1>2. \A rec \in ImportRecord : [rec EXCEPT !.status = status] \in ImportRecord  BY DEF ImportRecord
<1> HIDE DEF ImportRecord
<1> QED  BY <1>1, <1>2

\* A job of the queue that is put back or abandoned has its type.
LEMMA TaskSaved ==
  ASSUME TypeOK, NEW i
  PROVE  /\ [task EXCEPT ![i].state = "queued"] \in [Imports -> TaskRecord]
         /\ [task EXCEPT ![i].lapsed = TRUE] \in [Imports -> TaskRecord]
<1>1. task \in [Imports -> TaskRecord]  BY DEF TypeOK, TaskRecord
<1>2. \A rec \in TaskRecord : [rec EXCEPT !.state = "queued"] \in TaskRecord  BY DEF TaskRecord
<1>3. \A rec \in TaskRecord : [rec EXCEPT !.lapsed = TRUE] \in TaskRecord  BY DEF TaskRecord
<1> QED  BY <1>1, <1>2, <1>3

\* Every variable has its type at the start.
LEMMA InitType == Init => TypeOK
<1> SUFFICES ASSUME Init PROVE TypeOK
  OBVIOUS
<1> USE ImportsAssumption
<1>1. import \in [Imports -> [status: Statuses, strategy: AllStrategies]]
  BY DEF Init, Statuses, AllStrategies
<1>2. task \in [Imports -> [state: {"none", "queued", "running"}, attempts: 0..MaxAttempts,
                           lapsed: BOOLEAN]]
  BY DEF Init, NoTask
<1>3. user \in [Users -> UserRecord] /\ run \in [Workers -> RunRecord] /\ row \in [Rows -> RowRecord]
  BY Records DEF Init
<1> QED  BY <1>1, <1>2, <1>3 DEF Init, TypeOK, Unlocked

\* A request keeps every type.
LEMMA UserType == ASSUME TypeOK, NEW u \in Users, UserStep(u) PROVE TypeOK'
<1> USE ImportsAssumption
<1> DEFINE Tasks == [Imports -> [state: {"none", "queued", "running"}, attempts: 0..MaxAttempts,
                                 lapsed: BOOLEAN]]
           ImportRecords == [Imports -> [status: Statuses, strategy: AllStrategies]]
<1>1. ASSUME NEW i \in Imports, NEW op \in {"mapping", "commit", "cancel"}, Read(u, op, i)
      PROVE  TypeOK'
  <2>1. [AtRest EXCEPT !.op = op, !.import = i, !.read = import[i].status] \in UserRecord
    BY Records DEF AtRest, UserRecord, TypeOK
  <2> QED  BY <1>1, <2>1 DEF Read, TypeOK
<1>2. ASSUME NEW i \in Imports, BeginValidate(u, i) PROVE TypeOK'
  <2>1. RowsOf(i) \in SUBSET Rows /\ CopyOf(RowsOf(i)) \in [Rows -> RowRecord]
    BY Records DEF RowsOf, TypeOK
  <2>2. import[i].strategy \in AllStrategies  BY DEF TypeOK
  <2>3. [op |-> "validate", import |-> i, read |-> "validating", strategy |-> import[i].strategy,
         todo |-> RowsOf(i), copy |-> CopyOf(RowsOf(i))] \in UserRecord
    BY <2>1, <2>2 DEF UserRecord, Statuses
  <2>4. user' \in [Users -> UserRecord]  BY <1>2, <2>3 DEF BeginValidate, TypeOK
  <2>5. import' \in ImportRecords
    BY <1>2 DEF BeginValidate, TypeOK, Statuses
  <2>6. requests' \in 0..MaxRequests  BY <1>2 DEF BeginValidate, TypeOK
  <2> QED  BY <1>2, <2>4, <2>5, <2>6 DEF BeginValidate, TypeOK
<1>3. ASSUME Answered(u) PROVE user' \in [Users -> UserRecord]
  BY <1>3, Records DEF Answered, TypeOK
<1>4. \A status \in Statuses : user[u].import \in Imports => SavedStatus(u, status) \in Statuses
  BY DEF SavedStatus, TypeOK
<1>5. ASSUME NEW status \in Statuses, NEW strategy \in AllStrategies,
             import' = [import EXCEPT ![user[u].import] = [status |-> SavedStatus(u, status),
                                                           strategy |-> strategy]]
      PROVE  import' \in ImportRecords
  BY <1>4, <1>5 DEF TypeOK
<1>6. ASSUME NEW s \in Strategies, SaveMapping(u, s) PROVE TypeOK'
  <2>1. s \in AllStrategies /\ "mapping" \in Statuses  BY DEF AllStrategies, Statuses
  <2>2. user' \in [Users -> UserRecord]  BY <1>3, <1>6 DEF SaveMapping
  <2>3. import' \in ImportRecords
    BY <1>5, <1>6, <2>1 DEF SaveMapping
  <2> QED  BY <1>6, <2>2, <2>3 DEF SaveMapping, TypeOK
<1>7. ASSUME SaveCancel(u) PROVE TypeOK'
  <2>1. "cancelled" \in Statuses  BY DEF Statuses
  <2>2. user' \in [Users -> UserRecord]  BY <1>3, <1>7 DEF SaveCancel
  <2>3. import' = [import EXCEPT ![user[u].import].status = SavedStatus(u, "cancelled")]
    BY <1>7 DEF SaveCancel
  <2>4. import' \in ImportRecords
    <3>1. CASE user[u].import \in Imports
      BY <1>4, <2>1, <2>3, <3>1, StatusSaved DEF ImportRecord
    <3>2. CASE user[u].import \notin Imports
      <4>1. import' = import  BY <2>3, <3>2 DEF TypeOK
      <4> QED  BY <4>1 DEF TypeOK
    <3> QED  BY <3>1, <3>2
  <2> QED  BY <1>7, <2>2, <2>4 DEF SaveCancel, TypeOK
<1>8. ASSUME Enqueue(u) PROVE TypeOK'
  <2>1. user' \in [Users -> UserRecord]  BY <1>3, <1>8 DEF Enqueue
  <2>2. task' = task \/ task' = [task EXCEPT ![user[u].import].state = "queued"]
    BY <1>8 DEF Enqueue
  <2>3. task' \in Tasks
    <3>1. task \in Tasks  BY DEF TypeOK
    <3> QED  BY <2>2, <3>1, TaskSaved DEF TaskRecord
  <2> QED  BY <1>8, <2>1, <2>3 DEF Enqueue, TypeOK
<1>9. ASSUME NEW r \in Rows, ValidateRow(u, r) PROVE TypeOK'
  <2> DEFINE verdict == Verdict(r, user[u].strategy)
             saved == SavedRow(r, user[u].copy[r], verdict)
  <2>1. verdict \in RowRecord
    BY DEF Verdict, RowRecord, RowStatuses, Repeats, Exists
  <2>2. saved \in RowRecord
    <3>1. row[r] \in RowRecord  BY DEF TypeOK
    <3> HIDE DEF verdict
    <3> QED  BY <2>1, <3>1 DEF SavedRow, RowRecord
  <2>3. row' = [row EXCEPT ![r] = saved]  BY <1>9 DEF ValidateRow
  <2>4. row' \in [Rows -> RowRecord]
    <3> HIDE DEF saved
    <3> QED  BY <2>2, <2>3 DEF TypeOK
  <2>5. user' \in [Users -> UserRecord]
    <3>1. user[u] \in UserRecord /\ Staged[r] \in RowRecord  BY Records DEF TypeOK
    <3>2. user' = [user EXCEPT ![u] = [user[u] EXCEPT !.todo = user[u].todo \ {r},
                                                      !.copy = [user[u].copy EXCEPT ![r] = Staged[r]]]]
      BY <1>9, <3>1 DEF ValidateRow, TypeOK, UserRecord
    <3>3. user[u].todo \ {r} \in SUBSET Rows /\ user[u].copy \in [Rows -> RowRecord]
      BY <3>1 DEF UserRecord
    <3>4. [user[u].copy EXCEPT ![r] = Staged[r]] \in [Rows -> RowRecord]
      BY <3>1, <3>3
    <3>5. [user[u] EXCEPT !.todo = user[u].todo \ {r},
                          !.copy = [user[u].copy EXCEPT ![r] = Staged[r]]] \in UserRecord
      BY <3>1, <3>3, <3>4 DEF UserRecord
    <3> QED  BY <3>2, <3>5 DEF TypeOK
  <2>6. open' \subseteq Rows  BY <1>9 DEF ValidateRow, TypeOK
  <2> QED  BY <1>9, <2>4, <2>5, <2>6 DEF ValidateRow, TypeOK
<1>10. ASSUME FinishValidate(u) PROVE TypeOK'
  <2>1. user' \in [Users -> UserRecord]  BY <1>3, <1>10 DEF FinishValidate
  <2>2. import' \in ImportRecords
    <3>1. import' = [import EXCEPT ![user[u].import].status = "preview"]
      BY <1>10 DEF FinishValidate
    <3>2. "preview" \in Statuses  BY DEF Statuses
    <3> QED  BY <3>1, <3>2, StatusSaved DEF ImportRecord
  <2> QED  BY <1>10, <2>1, <2>2 DEF FinishValidate, TypeOK
<1>11. ASSUME Drop(u) PROVE TypeOK'
  <2>1. user' \in [Users -> UserRecord]  BY <1>3, <1>11 DEF Drop
  <2> QED  BY <1>11, <2>1 DEF Drop, TypeOK
<1> QED  BY <1>1, <1>2, <1>6, <1>7, <1>8, <1>9, <1>10, <1>11
         DEF UserStep, StartMapping, StartCommit, StartCancel

\* A step of a run keeps every type.
LEMMA RunType ==
  ASSUME TypeOK, Claimed, Decided, NEW w \in Workers, RunStep(w) \/ RunErrs(w) \/ Crash(w)
  PROVE  TypeOK'
<1> USE ImportsAssumption
<1> DEFINE Pcs == {"idle", "locking", "reading", "marking", "fetching", "applying", "saving",
                   "finishing", "failing", "releasing", "settling"}
           Tasks == [Imports -> TaskRecord]
           ImportRecords == [Imports -> ImportRecord]
<1>1. run[w] \in RunRecord  BY DEF TypeOK
<1>2. ASSUME NEW pc \in Pcs, Goto(w, pc) PROVE run' \in [Workers -> RunRecord]
  BY <1>1, <1>2 DEF Goto, RunRecord, TypeOK
<1>3. ASSUME run' = [run EXCEPT ![w] = NotRunning] PROVE run' \in [Workers -> RunRecord]
  BY <1>3, Records DEF TypeOK
<1>4. ASSUME NEW s \in RowStatuses, Outcome(w, s) PROVE run' \in [Workers -> RunRecord]
  BY <1>1, <1>4 DEF Outcome, RunRecord, TypeOK
<1>5. CASE TakeLock(w)
  <2>1. run' \in [Workers -> RunRecord]  BY <1>2, <1>5 DEF TakeLock
  <2>2. lock' \in [holder: Imports \cup {None}, lapsed: BOOLEAN]
    BY <1>1, <1>5 DEF TakeLock, RunRecord
  <2> QED  BY <1>5, <2>1, <2>2 DEF TakeLock, TypeOK
<1>6. CASE LockRefused(w)
  <2>1. run' \in [Workers -> RunRecord]  BY <1>3, <1>6 DEF LockRefused
  <2>2. run[w].import \in Imports /\ task[run[w].import].attempts >= 1
    BY <1>6 DEF LockRefused, At, Claimed, Busy
  <2>3. task[run[w].import].attempts - 1 \in 0..MaxAttempts  BY <2>2 DEF TypeOK
  <2> DEFINE i == run[w].import
  <2>4. task' \in Tasks
    <3>1. task' = [[task EXCEPT ![i].state = "queued"] EXCEPT ![i].attempts = @ - 1]
      BY <1>6, <2>2 DEF LockRefused, Deferred, TypeOK
    <3>2. [task EXCEPT ![i].state = "queued"] \in [Imports -> TaskRecord]  BY TaskSaved
    <3>3. [task EXCEPT ![i].state = "queued"][i].attempts = task[i].attempts  BY <2>2 DEF TypeOK
    <3>4. \A t \in [Imports -> TaskRecord], n \in 0..MaxAttempts :
            [t EXCEPT ![i].attempts = n] \in [Imports -> TaskRecord]
      BY <2>2 DEF TaskRecord
    <3> QED  BY <2>3, <3>1, <3>2, <3>3, <3>4 DEF TaskRecord
  <2> QED  BY <1>6, <2>1, <2>4 DEF LockRefused, TypeOK, TaskRecord
<1>7. CASE ReadImport(w)
  <2>1. run[w].import \in Imports  BY <1>7 DEF ReadImport, At, Claimed, Busy
  <2>2. import[run[w].import].strategy \in AllStrategies  BY <2>1 DEF TypeOK
  <2>3. run' \in [Workers -> RunRecord]
    BY <1>1, <1>7, <2>2 DEF ReadImport, RunRecord, TypeOK
  <2>4. open' \subseteq Rows  BY <1>7 DEF ReadImport, TypeOK, RowsToCommit, RowsOf
  <2> QED  BY <1>7, <2>3, <2>4 DEF ReadImport, TypeOK
<1>8. CASE MarkCommitting(w)
  <2>1. run' \in [Workers -> RunRecord]  BY <1>2, <1>8 DEF MarkCommitting
  <2>2. import' \in ImportRecords
    <3>1. "committing" \in Statuses  BY DEF Statuses
    <3> QED  BY <1>8, <3>1, StatusSaved DEF MarkCommitting, ImportRecord
  <2> QED  BY <1>8, <2>1, <2>2 DEF MarkCommitting, TypeOK, ImportRecord
<1>9. CASE FetchBatch(w)
  <2> DEFINE batch == RowsToCommit(run[w].import)
             copied == CopyOf(batch)
  <2>1. batch \in SUBSET Rows /\ copied \in [Rows -> RowRecord]
    BY Records DEF RowsToCommit, RowsOf, TypeOK
  <2>2. run' = [run EXCEPT ![w].batch = batch, ![w].copy = copied,
                           ![w].pc = IF batch = {} THEN "finishing" ELSE "applying"]
    BY <1>9 DEF FetchBatch
  <2>3. run' \in [Workers -> RunRecord]
    <3> HIDE DEF batch, copied
    <3> QED  BY <1>1, <2>1, <2>2 DEF RunRecord, TypeOK
  <2> QED  BY <1>9, <2>3 DEF FetchBatch, TypeOK
<1>10. ASSUME NEW r \in Rows, ApplyMatched(w, r) PROVE TypeOK'
  <2>1. run' \in [Workers -> RunRecord]  BY <1>4, <1>10 DEF ApplyMatched, RowStatuses
  <2> QED  BY <1>10, <2>1 DEF ApplyMatched, TypeOK
<1>11. ASSUME NEW r \in Rows, ApplyCreate(w, r) PROVE TypeOK'
  <2>1. run' \in [Workers -> RunRecord]  BY <1>4, <1>11 DEF ApplyCreate, RowStatuses
  <2>2. made' \in [Rows -> 0..2]
    <3>1. made' = [made EXCEPT ![r] = IF made[r] = 0 THEN 1 ELSE 2]  BY <1>11 DEF ApplyCreate
    <3> QED  BY <3>1 DEF TypeOK
  <2>3. faults' \in 0..MaxFaults  BY <1>11 DEF ApplyCreate, TypeOK
  <2>4. open' \subseteq Rows  BY <1>11 DEF ApplyCreate, TypeOK
  <2> QED  BY <1>11, <2>1, <2>2, <2>3, <2>4 DEF ApplyCreate, TypeOK
<1>12. ASSUME NEW r \in Rows, ApplyRefused(w, r) PROVE TypeOK'
  <2>1. run' \in [Workers -> RunRecord]  BY <1>4, <1>12 DEF ApplyRefused, RowStatuses
  <2> QED  BY <1>12, <2>1 DEF ApplyRefused, TypeOK
<1>13. ASSUME NEW r \in Rows, SaveRow(w, r) PROVE TypeOK'
  <2> DEFINE rest == run[w].batch \ {r}
             copied == [run[w].copy EXCEPT ![r] = Staged[r]]
             next == IF run[w].batch = {r} THEN "fetching" ELSE "applying"
  <2>1. run[w].outcome \in RowStatuses  BY <1>13 DEF Decided, SaveRow, RowStatuses
  <2>2. row' \in [Rows -> RowRecord]  BY <1>13, <2>1 DEF SaveRow, RowRecord, TypeOK
  <2>3. rest \in SUBSET Rows /\ copied \in [Rows -> RowRecord]  BY <1>1, Records DEF RunRecord
  <2>4. run' = [run EXCEPT ![w] = [run[w] EXCEPT !.batch = rest, !.copy = copied,
                                                 !.outcome = None, !.pc = next]]
    BY <1>13, <1>1 DEF SaveRow, TypeOK, RunRecord
  <2>5. [run[w] EXCEPT !.batch = rest, !.copy = copied, !.outcome = None, !.pc = next] \in RunRecord
    <3> HIDE DEF rest, copied
    <3> QED  BY <1>1, <2>3 DEF RunRecord
  <2>6. run' \in [Workers -> RunRecord]
    <3> HIDE DEF rest, copied, next
    <3> QED  BY <2>4, <2>5 DEF TypeOK
  <2> QED  BY <1>13, <2>2, <2>6 DEF SaveRow, TypeOK
<1>14. CASE Finish(w)
  <2>1. run' \in [Workers -> RunRecord]  BY <1>1, <1>14 DEF Finish, RunRecord, TypeOK
  <2>2. import' \in ImportRecords
    <3>1. "completed" \in Statuses  BY DEF Statuses
    <3> QED  BY <1>14, <3>1, StatusSaved DEF Finish, ImportRecord
  <2> QED  BY <1>14, <2>1, <2>2 DEF Finish, TypeOK, ImportRecord
<1>15. CASE MarkFailed(w)
  <2>1. run' \in [Workers -> RunRecord]  BY <1>2, <1>15 DEF MarkFailed
  <2>2. import' \in ImportRecords
    <3>1. "failed" \in Statuses  BY DEF Statuses
    <3> QED  BY <1>15, <3>1, StatusSaved DEF MarkFailed, ImportRecord
  <2> QED  BY <1>15, <2>1, <2>2 DEF MarkFailed, TypeOK, ImportRecord
<1>16. CASE Release(w)
  <2>1. run' \in [Workers -> RunRecord]  BY <1>2, <1>16 DEF Release
  <2> QED  BY <1>16, <2>1 DEF Release, TypeOK, Unlocked
<1>17. CASE Settle(w)
  <2>1. run' \in [Workers -> RunRecord]  BY <1>3, <1>17 DEF Settle
  <2>2. run[w].import \in Imports  BY <1>17 DEF Settle, At, Claimed, Busy
  <2>3. NoTask \in [state: {"none", "queued", "running"}, attempts: 0..MaxAttempts, lapsed: BOOLEAN]
    BY DEF NoTask
  <2>4. task' \in Tasks  BY <1>17, <2>2, <2>3 DEF Settle, TypeOK, TaskRecord
  <2> QED  BY <1>17, <2>1, <2>4 DEF Settle, TypeOK, TaskRecord
<1>18. CASE RunErrs(w)
  <2>1. run' \in [Workers -> RunRecord]  BY <1>2, <1>18 DEF RunErrs
  <2>2. faults' \in 0..MaxFaults  BY <1>18 DEF RunErrs, TypeOK
  <2> QED  BY <1>18, <2>1, <2>2 DEF RunErrs, TypeOK
<1>19. CASE Crash(w)
  <2>1. run' \in [Workers -> RunRecord]  BY <1>3, <1>19 DEF Crash
  <2>2. faults' \in 0..MaxFaults  BY <1>19 DEF Crash, TypeOK
  <2> QED  BY <1>19, <2>1, <2>2 DEF Crash, TypeOK
<1> QED  BY <1>5, <1>6, <1>7, <1>8, <1>9, <1>10, <1>11, <1>12, <1>13, <1>14, <1>15, <1>16,
            <1>17, <1>18, <1>19
         DEF RunStep

\* A step keeps every type.
LEMMA NextType ==
  ASSUME TypeOK, Claimed, Decided, [Next]_vars
  PROVE  TypeOK'
<1> USE ImportsAssumption
<1>1. ASSUME NEW w \in Workers, NEW i \in Imports, Claim(w, i) PROVE TypeOK'
  <2>1. [NotRunning EXCEPT !.pc = "locking", !.import = i] \in RunRecord
    BY Records DEF RunRecord, NotRunning
  <2>2. run' \in [Workers -> RunRecord]  BY <1>1, <2>1 DEF Claim, TypeOK
  <2>3. task[i].attempts \in 0..MaxAttempts  BY DEF TypeOK
  <2>4. (IF task[i].attempts < MaxAttempts THEN task[i].attempts + 1 ELSE MaxAttempts) \in 0..MaxAttempts
    BY <2>3
  <2>5. task' = [task EXCEPT ![i] = [state |-> "running", lapsed |-> FALSE,
          attempts |-> IF task[i].attempts < MaxAttempts THEN task[i].attempts + 1 ELSE MaxAttempts]]
    BY <1>1 DEF Claim, TypeOK
  <2>6. task' \in [Imports -> [state: {"none", "queued", "running"}, attempts: 0..MaxAttempts,
                              lapsed: BOOLEAN]]
    BY <2>4, <2>5 DEF TypeOK
  <2> QED  BY <1>1, <2>2, <2>6 DEF Claim, TypeOK
<1>2. ASSUME NEW i \in Imports, LeaseLapses(i) PROVE TypeOK'
  <2>1. task' \in [Imports -> TaskRecord]  BY <1>2, TaskSaved DEF LeaseLapses
  <2> QED  BY <1>2, <2>1 DEF LeaseLapses, TypeOK, TaskRecord
<1>3. CASE LockLapses  BY <1>3 DEF LockLapses, TypeOK
<1>4. CASE UNCHANGED vars  BY <1>4 DEF vars, TypeOK
<1> QED  BY <1>1, <1>2, <1>3, <1>4, UserType, RunType DEF Next

-----------------------------------------------------------------------------
\* A run that goes on is about the same import, and only TakeLock goes in.
LEMMA RunKeeps ==
  ASSUME TypeOK, NEW w \in Workers, RunStep(w) \/ RunErrs(w) \/ Crash(w), NEW v \in Workers
  PROVE  /\ Busy(v)' => Busy(v) /\ run'[v].import = run[v].import
         /\ Inside(v)' => Inside(v) \/ (v = w /\ TakeLock(w))
         /\ v # w => run'[v] = run[v]
<1>1. run[w] \in RunRecord /\ run \in [Workers -> RunRecord]  BY DEF TypeOK
<1> DEFINE Kept == /\ Busy(v)' => Busy(v) /\ run'[v].import = run[v].import
                   /\ Inside(v)' => Inside(v) \/ (v = w /\ TakeLock(w))
                   /\ v # w => run'[v] = run[v]
<1>2. ASSUME NEW pc \in {"reading", "fetching", "failing", "releasing", "settling"}, Goto(w, pc), Busy(w),
             Inside(w) \/ TakeLock(w) \/ pc = "settling"
      PROVE  Kept
  BY <1>1, <1>2 DEF Goto, Busy, Inside, RunRecord
<1>3. ASSUME run' = [run EXCEPT ![w] = NotRunning] PROVE Kept
  BY <1>1, <1>3 DEF NotRunning, Busy, Inside
<1>4. CASE TakeLock(w)  BY <1>2, <1>4 DEF TakeLock, At, Busy
<1>5. CASE LockRefused(w) \/ Settle(w) \/ Crash(w)  BY <1>3, <1>5 DEF LockRefused, Settle, Crash
<1>6. CASE ReadImport(w)  BY <1>1, <1>6 DEF ReadImport, At, Busy, Inside, RunRecord
<1>7. CASE MarkCommitting(w)  BY <1>2, <1>7 DEF MarkCommitting, At, Busy, Inside
<1>8. CASE FetchBatch(w)  BY <1>1, <1>8 DEF FetchBatch, At, Busy, Inside, RunRecord
<1>9. ASSUME NEW r \in Rows, ApplyMatched(w, r) \/ ApplyCreate(w, r) \/ ApplyRefused(w, r)
      PROVE  Kept
  <2>1. At(w, "applying") /\ \E s \in RowStatuses : Outcome(w, s)
    BY <1>9 DEF ApplyMatched, ApplyCreate, ApplyRefused, Current, RowStatuses
  <2> QED  BY <1>1, <2>1 DEF Outcome, At, Busy, Inside, RunRecord
<1>10. ASSUME NEW r \in Rows, SaveRow(w, r) PROVE Kept
  BY <1>1, <1>10 DEF SaveRow, At, Busy, Inside, RunRecord
<1>11. CASE Finish(w)  BY <1>1, <1>11 DEF Finish, At, Busy, Inside, RunRecord
<1>12. CASE MarkFailed(w)  BY <1>2, <1>12 DEF MarkFailed, At, Busy, Inside
<1>13. CASE Release(w)  BY <1>2, <1>13 DEF Release, At, Busy, Inside
<1>14. CASE RunErrs(w)  BY <1>2, <1>14 DEF RunErrs, At, Busy, Inside
<1> QED  BY <1>4, <1>5, <1>6, <1>7, <1>8, <1>9, <1>10, <1>11, <1>12, <1>13, <1>14 DEF RunStep

\* A step of a run changes the queue only when it ends, and only its own job.
LEMMA RunTask ==
  ASSUME TypeOK, NEW w \in Workers, RunStep(w) \/ RunErrs(w) \/ Crash(w)
  PROVE  \/ task' = task
         \/ /\ run' = [run EXCEPT ![w] = NotRunning] /\ Busy(w)
            /\ \A i \in Imports : i # run[w].import => task'[i] = task[i]
<1>1. CASE LockRefused(w)  BY <1>1 DEF LockRefused, Deferred, TypeOK, At, Busy
<1>2. CASE Settle(w)  BY <1>2 DEF Settle, TypeOK, At, Busy
<1> QED
  BY <1>1, <1>2 DEF RunStep, RunErrs, Crash, TakeLock, ReadImport, MarkCommitting, FetchBatch,
                    ApplyMatched, ApplyCreate, ApplyRefused, SaveRow, Finish, MarkFailed, Release

\* A step leaves every run alone with its import, and with the lease.
LEMMA NextClaimed ==
  ASSUME TypeOK, TypeOK', Claimed, [Next]_vars
  PROVE  Claimed'
<1> SUFFICES ASSUME NEW v \in Workers, Busy(v)'
             PROVE  /\ run'[v].import \in Imports
                    /\ task'[run'[v].import].state = "running" /\ ~task'[run'[v].import].lapsed
                    /\ task'[run'[v].import].attempts >= 1
                    /\ \A x \in Workers : Busy(x)' /\ run'[x].import = run'[v].import => x = v
  BY DEF Claimed
<1> USE ImportsAssumption
<1> DEFINE Alone == /\ run'[v].import \in Imports
                    /\ task'[run'[v].import].state = "running" /\ ~task'[run'[v].import].lapsed
                    /\ task'[run'[v].import].attempts >= 1
                    /\ \A x \in Workers : Busy(x)' /\ run'[x].import = run'[v].import => x = v
<1>1. ASSUME run' = run, \A i \in Imports : task[i].state = "running" /\ ~task[i].lapsed =>
                                           task'[i] = task[i] \/ \A w \in Workers : ~OnIt(w, i)
      PROVE  Alone
  BY <1>1 DEF Claimed, Busy, OnIt
<1>2. ASSUME NEW w \in Workers, RunStep(w) \/ RunErrs(w) \/ Crash(w) PROVE Alone
  <2>1. \A x \in Workers : Busy(x)' => Busy(x) /\ run'[x].import = run[x].import
    BY <1>2, RunKeeps
  <2>2. CASE task' = task  BY <2>1, <2>2 DEF Claimed
  <2>3. CASE /\ run' = [run EXCEPT ![w] = NotRunning] /\ Busy(w)
             /\ \A i \in Imports : i # run[w].import => task'[i] = task[i]
    <3>1. v # w  BY <2>3 DEF TypeOK, Busy, NotRunning
    <3>2. run[v].import # run[w].import  BY <2>1, <2>3, <3>1 DEF Claimed
    <3> QED  BY <2>1, <2>3, <3>2 DEF Claimed
  <2> QED  BY <1>2, <2>2, <2>3, RunTask
<1>3. ASSUME NEW w \in Workers, NEW i \in Imports, Claim(w, i) PROVE Alone
  <2>1. \A x \in Workers : Busy(x) => run[x].import # i
    BY <1>3 DEF Claim, Claimed
  <2>2. /\ run' = [run EXCEPT ![w] = [NotRunning EXCEPT !.pc = "locking", !.import = i]]
        /\ ~Busy(w)
    BY <1>3 DEF Claim, At, Busy
  <2>3. run'[w].import = i /\ \A x \in Workers : x # w => run'[x] = run[x]
    BY <2>2 DEF TypeOK, NotRunning
  <2>4. \A j \in Imports : j # i => task'[j] = task[j]  BY <1>3 DEF Claim, TypeOK
  <2>5. task'[i].state = "running" /\ ~task'[i].lapsed /\ task'[i].attempts >= 1
    BY <1>3 DEF Claim, TypeOK
  <2>6. CASE v = w  BY <2>1, <2>3, <2>5, <2>6 DEF Busy
  <2>7. CASE v # w
    <3>1. Busy(v) /\ run'[v] = run[v]  BY <2>3, <2>7 DEF Busy
    <3>2. run[v].import # i  BY <2>1, <3>1
    <3> QED  BY <2>3, <2>4, <3>1, <3>2 DEF Claimed, Busy
  <2> QED  BY <2>6, <2>7
<1>4. ASSUME NEW u \in Users, UserStep(u) PROVE Alone
  <2>1. run' = run
    BY <1>4 DEF UserStep, StartMapping, StartCommit, StartCancel, Read, BeginValidate, SaveMapping,
                ValidateRow, SaveCancel, Enqueue, FinishValidate, Drop
  <2>2. task' = task \/ Enqueue(u)
    BY <1>4 DEF UserStep, StartMapping, StartCommit, StartCancel, Read, BeginValidate, SaveMapping,
                ValidateRow, SaveCancel, FinishValidate, Drop
  <2>3. Enqueue(u) => \A i \in Imports : task[i].state = "running" => task'[i] = task[i]
    BY DEF Enqueue, TypeOK
  <2> QED  BY <1>1, <2>1, <2>2, <2>3
<1>5. ASSUME NEW i \in Imports, LeaseLapses(i) PROVE Alone
  BY <1>1, <1>5 DEF LeaseLapses, TypeOK
<1>6. CASE LockLapses \/ UNCHANGED vars  BY <1>1, <1>6 DEF LockLapses, vars
<1> QED  BY <1>2, <1>3, <1>4, <1>5, <1>6 DEF Next

\* Two workers are never inside the lock at once.
LEMMA Excluded == ASSUME Claimed, Locked PROVE OneImportAtATime
<1> SUFFICES ASSUME NEW v \in Workers, NEW w \in Workers, Inside(v), Inside(w) PROVE v = w
  BY DEF OneImportAtATime
<1>1. run[v].import = run[w].import  BY DEF Locked
<1>2. Busy(v) /\ Busy(w)  BY DEF Inside, Busy
<1> QED  BY <1>1, <1>2 DEF Claimed

\* A step leaves the lock with the worker inside it.
LEMMA NextLocked ==
  ASSUME TypeOK, Claimed, Locked, [Next]_vars
  PROVE  Locked'
<1> SUFFICES ASSUME NEW v \in Workers, Inside(v)' PROVE lock'.holder = run'[v].import /\ ~lock'.lapsed
  BY DEF Locked
<1> DEFINE Has == lock'.holder = run'[v].import /\ ~lock'.lapsed
<1>0. Busy(v)'  BY DEF Inside, Busy
<1>1. ASSUME lock' = lock, Inside(v), run'[v].import = run[v].import PROVE Has
  BY <1>1 DEF Locked
<1>2. ASSUME NEW w \in Workers, RunStep(w) \/ RunErrs(w) \/ Crash(w) PROVE Has
  <2>1. /\ run'[v].import = run[v].import /\ (v # w => run'[v] = run[v])
        /\ Inside(v) \/ (v = w /\ TakeLock(w))
    BY <1>0, <1>2, RunKeeps
  <2>2. CASE TakeLock(w)
    <3>1. CASE v = w
      <4>1. lock' = [holder |-> run[w].import, lapsed |-> FALSE]  BY <2>2 DEF TakeLock
      <4> QED  BY <2>1, <3>1, <4>1
    <3>2. CASE v # w
      <4>1. Inside(v) /\ Busy(v)  BY <2>1, <3>2 DEF Inside, Busy
      <4>2. lock.holder = run[v].import /\ ~lock.lapsed  BY <4>1 DEF Locked
      <4>3. Busy(w) /\ Lockable(run[w].import)  BY <2>2 DEF TakeLock, At, Busy
      <4>4. run[v].import # run[w].import /\ run[v].import # None
        BY <3>2, <4>1, <4>3, ImportsAssumption DEF Claimed
      <4> QED  BY <4>2, <4>3, <4>4 DEF Lockable
    <3> QED  BY <3>1, <3>2
  <2>3. CASE Release(w)
    <3>1. v # w  BY <2>3 DEF Release, Goto, Inside, TypeOK
    <3>2. Inside(v) /\ Inside(w)  BY <2>1, <2>3, <3>1 DEF Release, At, Inside, TakeLock
    <3> QED  BY <3>1, <3>2, Excluded DEF OneImportAtATime
  <2>4. CASE ~TakeLock(w) /\ ~Release(w)
    <3>1. lock' = lock
      BY <1>2, <2>4 DEF RunStep, RunErrs, Crash, LockRefused, Settle, ReadImport, MarkCommitting,
         FetchBatch, ApplyMatched, ApplyCreate, ApplyRefused, SaveRow, Finish, MarkFailed
    <3> QED  BY <1>1, <2>1, <2>4, <3>1
  <2> QED  BY <2>2, <2>3, <2>4
<1>3. ASSUME NEW w \in Workers, NEW i \in Imports, Claim(w, i) PROVE Has
  <2>1. v # w  BY <1>3 DEF Claim, Inside, TypeOK, NotRunning
  <2> QED  BY <1>1, <1>3, <2>1 DEF Claim, Inside, TypeOK
<1>4. ASSUME NEW u \in Users, UserStep(u) PROVE Has
  <2>1. run' = run /\ lock' = lock
    BY <1>4 DEF UserStep, StartMapping, StartCommit, StartCancel, Read, BeginValidate, SaveMapping,
                ValidateRow, SaveCancel, Enqueue, FinishValidate, Drop
  <2> QED  BY <1>1, <2>1 DEF Inside
<1>5. CASE LockLapses
  <2>1. Inside(v) /\ run'[v].import = run[v].import  BY <1>5 DEF LockLapses, Inside
  <2> QED  BY <1>5, <2>1 DEF LockLapses, Locked, OnIt
<1>6. CASE (\E i \in Imports : LeaseLapses(i)) \/ UNCHANGED vars
  BY <1>1, <1>6 DEF LeaseLapses, vars, Inside
<1> QED  BY <1>2, <1>3, <1>4, <1>5, <1>6 DEF Next

\* A step leaves an outcome with every row that is about to be saved.
LEMMA NextDecided ==
  ASSUME TypeOK, Decided, [Next]_vars
  PROVE  Decided'
<1> SUFFICES ASSUME NEW v \in Workers, run'[v].pc = "saving"
             PROVE  run'[v].outcome \in {"created", "updated", "skipped", "failed"}
  BY DEF Decided, At
<1> DEFINE Set == run'[v].outcome \in {"created", "updated", "skipped", "failed"}
<1>1. ASSUME run'[v] = run[v] PROVE Set
  BY <1>1 DEF Decided, At
<1>2. ASSUME NEW w \in Workers, RunStep(w) \/ RunErrs(w) \/ Crash(w) PROVE Set
  <2>1. CASE v # w  BY <1>1, <1>2, <2>1, RunKeeps
  <2>2. CASE v = w
    <3>1. ASSUME NEW r \in Rows, ApplyMatched(w, r) \/ ApplyCreate(w, r) \/ ApplyRefused(w, r) PROVE Set
      <4>1. \E s \in {"created", "updated", "skipped", "failed"} : Outcome(w, s)
        BY <3>1 DEF ApplyMatched, ApplyCreate, ApplyRefused
      <4> QED  BY <2>2, <4>1 DEF Outcome, TypeOK, RunRecord
    <3>2. ASSUME NEW pc, Goto(w, pc), pc # "saving" PROVE run'[w].pc # "saving"
      BY <3>2 DEF Goto, TypeOK
    <3>3. run' = [run EXCEPT ![w] = NotRunning] => run'[w].pc # "saving"
      BY DEF NotRunning, TypeOK
    <3>4. CASE ReadImport(w) \/ FetchBatch(w) \/ Finish(w) \/ \E r \in Rows : SaveRow(w, r)
      <4>1. run[w] \in RunRecord /\ run \in [Workers -> RunRecord]  BY DEF TypeOK
      <4>2. ReadImport(w) => run'[w].pc # "saving"  BY <4>1 DEF ReadImport, RunRecord
      <4>3. FetchBatch(w) => run'[w].pc # "saving"  BY <4>1 DEF FetchBatch, RunRecord
      <4>4. Finish(w) => run'[w].pc # "saving"  BY <4>1 DEF Finish, RunRecord
      <4>5. ASSUME NEW r \in Rows, SaveRow(w, r) PROVE run'[w].pc # "saving"
        BY <4>1, <4>5 DEF SaveRow, RunRecord
      <4> QED  BY <2>2, <3>4, <4>2, <4>3, <4>4, <4>5
    <3>5. CASE TakeLock(w) \/ LockRefused(w) \/ MarkCommitting(w) \/ MarkFailed(w) \/ Release(w)
               \/ Settle(w) \/ RunErrs(w) \/ Crash(w)
      BY <2>2, <3>2, <3>3, <3>5
         DEF TakeLock, LockRefused, MarkCommitting, MarkFailed, Release, Settle, RunErrs, Crash
    <3> QED  BY <1>2, <3>1, <3>4, <3>5 DEF RunStep
  <2> QED  BY <2>1, <2>2
<1>3. ASSUME NEW w \in Workers, NEW i \in Imports, Claim(w, i) PROVE Set
  <2>1. v # w  BY <1>3 DEF Claim, TypeOK, NotRunning
  <2> QED  BY <1>1, <1>3, <2>1 DEF Claim, TypeOK
<1>4. ASSUME NEW u \in Users, UserStep(u) PROVE Set
  BY <1>1, <1>4 DEF UserStep, StartMapping, StartCommit, StartCancel, Read, BeginValidate,
                    SaveMapping, ValidateRow, SaveCancel, Enqueue, FinishValidate, Drop
<1>5. CASE LockLapses \/ (\E i \in Imports : LeaseLapses(i)) \/ UNCHANGED vars
  BY <1>1, <1>5 DEF LockLapses, LeaseLapses, vars
<1> QED  BY <1>2, <1>3, <1>4, <1>5 DEF Next

-----------------------------------------------------------------------------
\* The row at hand is one row.
LEMMA OneFirst ==
  ASSUME NEW rows \in SUBSET Rows, NEW r \in First(rows), NEW q \in First(rows)
  PROVE  r = q
<1>1. r \in Nat /\ q \in Nat  BY ImportsAssumption DEF First
<1>2. r <= q /\ q <= r  BY DEF First
<1> QED  BY <1>1, <1>2

\* A run that takes no step keeps its rows, if none is added that was not put up.
LEMMA StillOffered ==
  ASSUME NEW v \in Workers, OfferedTo(v), run'[v] = run[v], open \subseteq open',
         \A r \in Rows : row'[r].status \in ToCommit => row[r].status \in ToCommit \/ r \in open'
  PROVE  OfferedTo(v)'
<1>1. Applied(v)' = Applied(v) /\ Committing(v)' = Committing(v)
  BY DEF Applied, At, First, Committing
<1>2. RowsToCommit(run[v].import)' \subseteq RowsToCommit(run[v].import) \cup open'
  BY DEF RowsToCommit, RowsOf
<1> QED  BY <1>1, <1>2 DEF OfferedTo

\* A step of a run leaves its own rows put up for creation.
LEMMA OwnOffered ==
  ASSUME TypeOK, Decided, NEW w \in Workers, OfferedTo(w), RunStep(w) \/ RunErrs(w) \/ Crash(w)
  PROVE  OfferedTo(w)'
<1>1. run[w] \in RunRecord /\ run \in [Workers -> RunRecord]  BY DEF TypeOK
<1>2. ASSUME ~Committing(w)' PROVE OfferedTo(w)'
  BY <1>2 DEF OfferedTo, Committing
<1>3. ASSUME NEW pc, Goto(w, pc), ~(pc \in {"marking", "fetching", "applying", "saving"}) PROVE ~Committing(w)'
  BY <1>1, <1>3 DEF Goto, Committing
<1>4. CASE TakeLock(w) \/ MarkFailed(w) \/ Release(w) \/ RunErrs(w)
  BY <1>2, <1>3, <1>4 DEF TakeLock, MarkFailed, Release, RunErrs
<1>5. CASE LockRefused(w) \/ Settle(w) \/ Crash(w)
  BY <1>1, <1>2, <1>5 DEF LockRefused, Settle, Crash, NotRunning, Committing
<1>6. CASE ReadImport(w)
  <2>1. CASE import[run[w].import].status = "preview"
    <3>1. /\ run'[w].pc = "marking" /\ run'[w].import = run[w].import /\ row' = row
          /\ open' = open \cup RowsToCommit(run[w].import)
      BY <1>1, <1>6, <2>1 DEF ReadImport, RunRecord
    <3> QED  BY <3>1 DEF OfferedTo, RowsToCommit, RowsOf
  <2>2. CASE import[run[w].import].status # "preview"
    BY <1>1, <1>2, <1>6, <2>2 DEF ReadImport, RunRecord, Committing
  <2> QED  BY <2>1, <2>2
<1>7. CASE MarkCommitting(w)
  <2>1. /\ run[w].pc = "marking" /\ run'[w].pc = "fetching" /\ run'[w].import = run[w].import
        /\ row' = row /\ open' = open
    BY <1>1, <1>7 DEF MarkCommitting, Goto, At, RunRecord
  <2>2. Applied(w) = {}  BY <2>1 DEF Applied, At
  <2> QED  BY <2>1, <2>2 DEF OfferedTo, RowsToCommit, RowsOf, Committing
<1>8. CASE FetchBatch(w)
  <2> DEFINE batch == RowsToCommit(run[w].import)
  <2>1. /\ run[w].pc = "fetching" /\ run'[w].pc # "saving" /\ run'[w].import = run[w].import
        /\ run'[w].batch = batch /\ row' = row /\ open' = open
    BY <1>1, <1>8 DEF FetchBatch, At, RunRecord
  <2>2. Applied(w) = {}  BY <2>1 DEF Applied, At
  <2>3. batch \subseteq open  BY <2>1, <2>2 DEF OfferedTo, Committing
  <2> QED  BY <2>1, <2>3 DEF OfferedTo, RowsToCommit, RowsOf
<1>9. ASSUME NEW r \in Rows, ApplyMatched(w, r) \/ ApplyCreate(w, r) \/ ApplyRefused(w, r)
      PROVE  OfferedTo(w)'
  <2>1. Current(w, r) /\ row' = row /\ open \ {r} \subseteq open' /\ \E s \in RowStatuses : Outcome(w, s)
    BY <1>9 DEF ApplyMatched, ApplyCreate, ApplyRefused, RowStatuses
  <2>2. /\ run[w].pc = "applying" /\ run'[w].pc = "saving" /\ run'[w].import = run[w].import
        /\ run'[w].batch = run[w].batch
    BY <1>1, <2>1 DEF Current, At, Outcome, RunRecord
  <2>3. Applied(w) = {} /\ r \in Applied(w)'
    BY <2>1, <2>2 DEF Applied, At, Current, First
  <2>4. RowsToCommit(run[w].import) \subseteq open /\ run[w].batch \subseteq open
    BY <2>2, <2>3 DEF OfferedTo, Committing
  <2> QED  BY <2>1, <2>2, <2>3, <2>4 DEF OfferedTo, RowsToCommit, RowsOf
<1>10. ASSUME NEW r \in Rows, SaveRow(w, r) PROVE OfferedTo(w)'
  <2>1. /\ run[w].pc = "saving" /\ run'[w].pc # "saving" /\ run'[w].import = run[w].import
        /\ run'[w].batch = run[w].batch \ {r} /\ open' = open /\ r \in First(run[w].batch)
    BY <1>1, <1>10 DEF SaveRow, At, RunRecord
  <2>2. row' = [row EXCEPT ![r].status = run[w].outcome]  BY <1>10 DEF SaveRow
  <2>3. run[w].outcome \notin ToCommit  BY <2>1 DEF Decided, At, ToCommit
  <2>4. \A q \in Rows : row'[q].status \in ToCommit => q # r /\ row[q].status \in ToCommit
    BY <2>2, <2>3 DEF TypeOK, RowRecord
  <2>5. Applied(w) = {r}
    <3>1. run[w].batch \in SUBSET Rows  BY <1>1 DEF RunRecord
    <3> QED  BY <2>1, <3>1, OneFirst DEF Applied, At
  <2>6. RowsToCommit(run[w].import) \ {r} \subseteq open /\ run[w].batch \ {r} \subseteq open
    BY <2>1, <2>5 DEF OfferedTo, Committing
  <2> QED  BY <2>1, <2>4, <2>6 DEF OfferedTo, RowsToCommit, RowsOf, Applied, At
<1>11. CASE Finish(w)
  BY <1>1, <1>2, <1>11 DEF Finish, Committing, RunRecord
<1> QED  BY <1>4, <1>5, <1>6, <1>7, <1>8, <1>9, <1>10, <1>11 DEF RunStep

\* A step leaves every committing run's rows put up for creation.
LEMMA NextOffered ==
  ASSUME TypeOK, TypeOK', Claimed, Locked, Offered, Decided, [Next]_vars
  PROVE  Offered'
<1> SUFFICES ASSUME NEW v \in Workers PROVE OfferedTo(v)'
  BY DEF Offered
<1>0. OfferedTo(v)  BY DEF Offered
<1>1. ASSUME run'[v] = run[v], open' = open, row' = row PROVE OfferedTo(v)'
  BY <1>0, <1>1, StillOffered
<1>2. ASSUME NEW w \in Workers, RunStep(w) \/ RunErrs(w) \/ Crash(w) PROVE OfferedTo(v)'
  <2>1. CASE v = w  BY <1>0, <1>2, <2>1, OwnOffered
  <2>2. CASE v # w /\ ~Committing(v)
    <3>1. run'[v] = run[v]  BY <1>2, <2>2, RunKeeps
    <3> QED  BY <2>2, <3>1 DEF OfferedTo, Committing
  <2>3. CASE v # w /\ Committing(v)
    <3>1. run'[v] = run[v]  BY <1>2, <2>3, RunKeeps
    <3>2. ~Inside(w)  BY <2>3, Excluded DEF OneImportAtATime, Committing, Inside
    <3>3. row' = row /\ open' = open
      BY <1>2, <3>2 DEF Inside, RunStep, RunErrs, Crash, TakeLock, LockRefused, Settle, ReadImport,
         MarkCommitting, FetchBatch, ApplyMatched, ApplyCreate, ApplyRefused, Current, SaveRow, Finish,
         MarkFailed, Release, At
    <3> QED  BY <1>1, <3>1, <3>3
  <2> QED  BY <2>1, <2>2, <2>3
<1>3. ASSUME NEW w \in Workers, NEW i \in Imports, Claim(w, i) PROVE OfferedTo(v)'
  <2>1. CASE v = w
    BY <1>3, <2>1 DEF Claim, TypeOK, NotRunning, OfferedTo, Committing
  <2>2. CASE v # w
    BY <1>1, <1>3, <2>2 DEF Claim, TypeOK
  <2> QED  BY <2>1, <2>2
<1>4. ASSUME NEW u \in Users, NEW r \in Rows, ValidateRow(u, r) PROVE OfferedTo(v)'
  <2>1. run' = run /\ open \subseteq open'  BY <1>4 DEF ValidateRow
  <2>2. \A q \in Rows : q # r => row'[q] = row[q]  BY <1>4 DEF ValidateRow, TypeOK
  <2>3. row'[r].status \in ToCommit => row[r].status \in ToCommit \/ r \in open'
    BY <1>4 DEF ValidateRow
  <2>4. \A q \in Rows : row'[q].status \in ToCommit => row[q].status \in ToCommit \/ q \in open'
    BY <2>2, <2>3
  <2> QED  BY <1>0, <2>1, <2>4, StillOffered
<1>5. ASSUME NEW u \in Users, UserStep(u) PROVE OfferedTo(v)'
  BY <1>1, <1>4, <1>5 DEF UserStep, StartMapping, StartCommit, StartCancel, Read, BeginValidate,
                          SaveMapping, SaveCancel, Enqueue, FinishValidate, Drop
<1>6. CASE LockLapses \/ (\E i \in Imports : LeaseLapses(i)) \/ UNCHANGED vars
  BY <1>1, <1>6 DEF LockLapses, LeaseLapses, vars
<1> QED  BY <1>2, <1>3, <1>5, <1>6 DEF Next

-----------------------------------------------------------------------------
\* The invariant holds at the start, and every step keeps it.
LEMMA InitIInv == Init => IInv
<1> SUFFICES ASSUME Init PROVE IInv
  OBVIOUS
<1>1. \A w \in Workers : run[w].pc = "idle"  BY DEF Init, NotRunning
<1> QED
  BY <1>1, InitType DEF IInv, Claimed, Busy, Locked, Inside, Offered, OfferedTo, Committing, Decided, At

\* Every step keeps the invariant.
LEMMA Inductive == IInv /\ [Next]_vars => IInv'
<1> SUFFICES ASSUME IInv, [Next]_vars PROVE IInv'
  OBVIOUS
<1>1. TypeOK'  BY NextType DEF IInv
<1> QED  BY <1>1, NextClaimed, NextLocked, NextOffered, NextDecided DEF IInv

\* Every variable keeps its type (importJob.model.ts, importRow.model.ts, lock.ts).
THEOREM TypeCorrect == Spec => []TypeOK
<1>1. IInv => TypeOK  BY DEF IInv
<1> QED  BY <1>1, InitIInv, Inductive, PTL DEF Spec

\* Two imports of one organisation never commit at once, for any number of
\* workers and imports, through deferrals, crashes, retries and lapsed locks.
THEOREM ImportsExclude == Spec => []OneImportAtATime
<1>1. IInv => OneImportAtATime  BY Excluded DEF IInv
<1> QED  BY <1>1, InitIInv, Inductive, PTL DEF Spec

\* Every entity an import creates is from a row that was put up for creation
\* since it last created: no retry of an interrupted run creates by itself.
THEOREM CreationIsOffered == Spec => CreatedAsOffered
<1>1. IInv /\ [Next]_vars => [\A w \in Workers, r \in Rows : ApplyCreate(w, r) => r \in open]_vars
  <2> SUFFICES ASSUME IInv, NEW w \in Workers, NEW r \in Rows, ApplyCreate(w, r) PROVE r \in open
    OBVIOUS
  <2>1. At(w, "applying") /\ r \in run[w].batch  BY DEF ApplyCreate, Current, First
  <2>2. Applied(w) = {}  BY <2>1 DEF Applied, At
  <2> QED  BY <2>1, <2>2 DEF IInv, Offered, OfferedTo, At
<1> QED  BY <1>1, InitIInv, Inductive, PTL DEF Spec, CreatedAsOffered

=============================================================================
