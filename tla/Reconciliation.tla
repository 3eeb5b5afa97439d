---------------------------- MODULE Reconciliation ----------------------------
(***************************************************************************)
(* The nightly reconciliation of one organisation with repair on           *)
(* (reports/reconciliation.service.ts), beside the requests of Custody.    *)
(*                                                                         *)
(* The job reads the active assignments, then the assets, and then writes  *)
(* one asset at a time what it worked out from the two reads.  It takes no *)
(* lock, opens no transaction and writes without looking again.            *)
(***************************************************************************)
EXTENDS Custody

VARIABLE job

\* found: the active assignments as they were read; repairs: for each asset that
\* disagreed, the pointer to write.  alone is a history variable: no request has
\* written an asset or an assignment since the job began.
Job == [pc: {"idle", "reading", "repairing", "reported"}, found: SUBSET Ids,
        repairs: SUBSET (Assets \X (Ids \cup {None})), alone: BOOLEAN]

Waiting == [pc |-> "idle", found |-> {}, repairs |-> {}, alone |-> TRUE]

allVars == <<asset, assignment, person, request, job>>

\* Mutant: the holders of the assignments are read in place of their ids.
ReadHolders ==
  /\ job.pc \in {"idle", "reported"}
  /\ job' = [Waiting EXCEPT !.pc = "reading",
                           !.found = {assignment[i].holder : i \in UNION {Active(a) : a \in Assets}}]
  /\ UNCHANGED vars

ReadAssignments ==
  /\ job.pc \in {"idle", "reported"}
  /\ job' = [pc |-> "reading", found |-> {i \in Ids : assignment[i].status = "active"},
             repairs |-> {}, alone |-> TRUE]
  /\ UNCHANGED vars

\* activeByAsset: what the job believes each asset's pointer should be.
Believed(a) == {i \in job.found : assignment[i].asset = a}

\* Mutants: without the pointers at nothing, and without the wrong ones.
DiscrepanciesMissing ==
  {d \in Assets \X (Ids \cup {None}) :
     Live(d[1]) /\ d[2] # asset[d[1]].current /\ d[2] \in Believed(d[1])}

DiscrepanciesUnset ==
  {d \in Assets \X (Ids \cup {None}) :
     Live(d[1]) /\ asset[d[1]].current = None /\ d[2] \in Believed(d[1])}

\* The three discrepancies it repairs: missing, pointing at nothing, and wrong.
Discrepancies ==
  {d \in Assets \X (Ids \cup {None}) :
     /\ Live(d[1]) /\ d[2] # asset[d[1]].current
     /\ IF Believed(d[1]) = {} THEN d[2] = None ELSE d[2] \in Believed(d[1])}

ReadAssets ==
  /\ job.pc = "reading"
  /\ job' = [job EXCEPT !.pc = "repairing", !.repairs = Discrepancies]
  /\ UNCHANGED vars

\* updateOne() on the asset; the soft-delete plugin lets it miss a deleted one.
Repair ==
  /\ job.pc = "repairing"
  /\ \E d \in job.repairs :
       /\ asset' = IF Live(d[1]) THEN [asset EXCEPT ![d[1]].current = d[2]] ELSE asset
       /\ job' = [job EXCEPT !.repairs = @ \ {d}]
  /\ UNCHANGED <<assignment, person, request>>

Report ==
  /\ job.pc = "repairing" /\ job.repairs = {}
  /\ job' = [job EXCEPT !.pc = "reported"]
  /\ UNCHANGED vars

\* The job's process dies, and the repairs it had left are not made.
JobDies ==
  /\ job.pc \in {"reading", "repairing"}
  /\ job' = Waiting
  /\ UNCHANGED vars

JobStep == ReadAssignments \/ ReadAssets \/ Repair \/ Report

RequestStep ==
  /\ Next
  /\ job' = [job EXCEPT !.alone = @ /\ UNCHANGED <<asset, assignment>>]

AllNext == RequestStep \/ JobStep \/ JobDies

\* "A migration writes around the service, a bug slips past review, a partial
\* restore lands": some pointer of a held or a free asset is wrong.
DriftedInit ==
  /\ \E i \in Ids, a \in Assets, p \in People, cached \in Ids \cup {None} :
       /\ asset = [b \in Assets |->
                     IF b = a THEN [row |-> "live", state |-> "deployed", current |-> cached]
                     ELSE [row |-> "none", state |-> "in_stock", current |-> None]]
       /\ assignment \in {[j \in Ids |-> IF j = i THEN NewAssignment(a, p, None) ELSE Unwritten],
                          [j \in Ids |-> Unwritten]}
  /\ person = [p \in People |-> [row |-> "live", status |-> "active"]]
  /\ request = [r \in Requests |-> Idle]
  /\ job = Waiting

\* The schedule starts the job every night; its process may die, but not each
\* night at the same step.
JobFairness ==
  /\ SF_allVars(ReadAssignments) /\ SF_allVars(ReadAssets)
  /\ SF_allVars(Repair) /\ SF_allVars(Report)

DriftedSpec == DriftedInit /\ [][AllNext]_allVars /\ JobFairness

-----------------------------------------------------------------------------
(* Properties                                                              *)

\* The job's locals have their types.
JobTypeOK == TypeOK /\ job \in Job

\* A run that no request's write overlapped leaves the pointer of every asset
\* right, in whichever direction it was wrong.
QuietRunRepairs ==
  (job.pc = "reported" /\ job.alone) =>
    \A a \in Assets : Live(a) => Agrees(a)

\* However the pointers drifted, and whatever the job itself broke by running
\* beside requests, once writing stops every pointer becomes and stays right.
DriftEnds ==
  (<>[](\A r \in Requests : request[r] = Idle))
    => <>[](\A a \in Assets : Live(a) => Agrees(a))
=============================================================================
