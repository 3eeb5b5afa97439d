-------------------------------- MODULE Custody --------------------------------
(***************************************************************************)
(* Who holds what: assets (modules/assets), assignments                    *)
(* (modules/assignments), and the people they are assigned to              *)
(* (modules/people, reports/offboarding).                                  *)
(*                                                                         *)
(* Every operation reads and checks first and writes later.  A request is  *)
(* therefore two steps: a Start action reads, checks and remembers what    *)
(* the handler carries over, and a Commit action is the handler's          *)
(* transaction, which reloads some of what was read and not the rest.      *)
(* Concurrent transactions that write the same document conflict and are   *)
(* retried (withTransaction), so each is one atomic step.  Giving up       *)
(* covers a refusal inside the transaction, its timeout and a crash.       *)
(***************************************************************************)
EXTENDS Naturals, FiniteSets

CONSTANTS
  Assets, People, Requests,
  Ids,        \* ids of assignment records
  None,       \* no assignment, no person, no state
  Workflow,   \* transitions of the tenant's lifecycle workflow: [from, to, guard]
  Terminal    \* its final states

States == {t.from : t \in Workflow} \cup {t.to : t \in Workflow}

ASSUME CustodyAssumption ==
  /\ None \notin Ids /\ None \notin People
  /\ Workflow \subseteq [from: States, to: States, guard: {"none", "held", "free"}]
  /\ {"in_stock", "deployed"} \subseteq States
  /\ \A t \in Workflow : t.from \notin Terminal

\* DEFAULT_WORKFLOW: "held" is the guard has_assignment, "free" no_active_assignment.
DefaultWorkflow ==
  LET move(from, to, guard) == [from |-> from, to |-> to, guard |-> guard]
  IN  {move("ordered", "in_stock", "none"), move("in_stock", "deployed", "held"),
       move("deployed", "in_stock", "free"), move("in_stock", "maintenance", "none"),
       move("deployed", "maintenance", "none"), move("maintenance", "in_stock", "free"),
       move("maintenance", "deployed", "held"), move("in_stock", "retired", "free"),
       move("maintenance", "retired", "free"), move("deployed", "retired", "free"),
       move("retired", "disposed", "none"), move("in_stock", "lost", "none"),
       move("deployed", "lost", "none")}

DefaultTerminal == {"disposed", "lost"}

VARIABLES
  asset,       \* the collection of assets
  assignment,  \* the collection of assignments
  person,      \* the collection of people
  request      \* what each request has checked and not yet written

vars == <<asset, assignment, person, request>>

\* current is the cached pointer currentAssignment.
Asset == [row: {"none", "live", "deleted", "purged"}, state: States, current: Ids \cup {None}]

\* previous is previousAssignmentId.
Assignment == [status: {"none", "active", "returned"}, asset: Assets \cup {None},
               holder: People \cup {None}, previous: Ids \cup {None}]

\* active stands for on_leave too, which no check of the code tells apart.
Person == [row: {"live", "deleted", "purged"}, status: {"active", "offboarding", "inactive"}]

Operations == {"none", "create", "assign", "return", "transfer", "transition", "delete",
               "restore", "complete", "deletePerson"}

Request == [op: Operations, asset: Assets \cup {None}, person: People \cup {None},
            to: States \cup {None}]

Idle == [op |-> "none", asset |-> None, person |-> None, to |-> None]

Unwritten == [status |-> "none", asset |-> None, holder |-> None, previous |-> None]

Init ==
  /\ asset = [a \in Assets |-> [row |-> "none", state |-> "in_stock", current |-> None]]
  /\ assignment = [i \in Ids |-> Unwritten]
  /\ person = [p \in People |-> [row |-> "live", status |-> "active"]]
  /\ request = [r \in Requests |-> Idle]

-----------------------------------------------------------------------------
Live(a) == asset[a].row = "live"

Active(a) == {i \in Ids : assignment[i].status = "active" /\ assignment[i].asset = a}

HeldBy(p) == {i \in Ids : assignment[i].status = "active" /\ assignment[i].holder = p}

\* assertAssigneeExists(): read outside any transaction and not again inside.
Assignable(p) == person[p].row = "live" /\ person[p].status = "active"

Start(r, carried) ==
  /\ request[r] = Idle
  /\ request' = [request EXCEPT ![r] = carried]
  /\ UNCHANGED <<asset, assignment, person>>

Pending(r, op) == request[r].op = op

Done(r) == request' = [request EXCEPT ![r] = Idle]

GiveUp(r) ==
  /\ request[r] # Idle
  /\ Done(r)
  /\ UNCHANGED <<asset, assignment, person>>

-----------------------------------------------------------------------------
(* assignment.service.ts                                                    *)

StartAssign(r, a, p) ==
  /\ Live(a) /\ Assignable(p)
  /\ Start(r, [Idle EXCEPT !.op = "assign", !.asset = a, !.person = p])

\* A new active record; the partial unique index refuses a second one.
NewAssignment(a, p, previous) ==
  [status |-> "active", asset |-> a, holder |-> p, previous |-> previous]

\* Mutant: without the unique index on active assignments.
CommitAssignTwice(r, i) ==
  LET a == request[r].asset
  IN  /\ Pending(r, "assign") /\ Live(a) /\ assignment[i] = Unwritten
      /\ assignment' = [assignment EXCEPT ![i] = NewAssignment(a, request[r].person, None)]
      /\ asset' = [asset EXCEPT ![a].current = i, ![a].state = "deployed"]
      /\ Done(r) /\ UNCHANGED person

CommitAssign(r, i) ==
  LET a == request[r].asset
  IN  /\ Pending(r, "assign") /\ Live(a) /\ Active(a) = {} /\ assignment[i] = Unwritten
      /\ assignment' = [assignment EXCEPT ![i] = NewAssignment(a, request[r].person, None)]
      /\ asset' = [asset EXCEPT ![a].current = i,
                                ![a].state = IF @ = "in_stock" THEN "deployed" ELSE @]
      /\ Done(r) /\ UNCHANGED person

StartReturn(r, a) ==
  /\ Live(a) /\ Active(a) # {}
  /\ Start(r, [Idle EXCEPT !.op = "return", !.asset = a])

\* Mutant: a return that does not look at the asset again.
CommitReturnOfDeleted(r) ==
  LET a == request[r].asset
  IN  /\ Pending(r, "return")
      /\ \E i \in Active(a) : assignment' = [assignment EXCEPT ![i].status = "returned"]
      /\ asset' = [asset EXCEPT ![a].current = None]
      /\ Done(r) /\ UNCHANGED person

CommitReturn(r) ==
  LET a == request[r].asset
  IN  /\ Pending(r, "return") /\ Live(a)
      /\ \E i \in Active(a) : assignment' = [assignment EXCEPT ![i].status = "returned"]
      /\ asset' = [asset EXCEPT ![a].current = None,
                                ![a].state = IF @ = "deployed" THEN "in_stock" ELSE @]
      /\ Done(r) /\ UNCHANGED person

StartTransfer(r, a, p) ==
  /\ Live(a) /\ \E i \in Active(a) : assignment[i].holder # p
  /\ Assignable(p)
  /\ Start(r, [Idle EXCEPT !.op = "transfer", !.asset = a, !.person = p])

\* Mutants: a transfer that leaves the old assignment open, and one that edits it.
CommitTransferOverlapping(r, i) ==
  LET a == request[r].asset
  IN  /\ Pending(r, "transfer") /\ Live(a) /\ assignment[i] = Unwritten
      /\ \E j \in Active(a) :
           assignment' = [assignment EXCEPT ![i] = NewAssignment(a, request[r].person, j)]
      /\ asset' = [asset EXCEPT ![a].current = i]
      /\ Done(r) /\ UNCHANGED person

CommitTransferInPlace(r, i) ==
  /\ Pending(r, "transfer") /\ i \in Active(request[r].asset)
  /\ assignment' = [assignment EXCEPT ![i].holder = request[r].person]
  /\ Done(r) /\ UNCHANGED <<asset, person>>

\* One transaction, not a return followed by an assign.
CommitTransfer(r, i) ==
  LET a == request[r].asset
  IN  /\ Pending(r, "transfer") /\ Live(a) /\ assignment[i] = Unwritten
      /\ \E j \in Active(a) :
           assignment' = [assignment EXCEPT
                            ![j].status = "returned",
                            ![i] = NewAssignment(a, request[r].person, j)]
      /\ asset' = [asset EXCEPT ![a].current = i]
      /\ Done(r) /\ UNCHANGED person

-----------------------------------------------------------------------------
(* asset.service.ts                                                         *)

StartCreate(r, a) ==
  /\ asset[a].row = "none"
  /\ Start(r, [Idle EXCEPT !.op = "create", !.asset = a])

CommitCreate(r) ==
  LET a == request[r].asset
  IN  /\ Pending(r, "create") /\ asset[a].row = "none"
      /\ asset' = [asset EXCEPT ![a] = [row |-> "live", state |-> "in_stock", current |-> None]]
      /\ Done(r) /\ UNCHANGED <<assignment, person>>

\* planTransition(), on the pointer and the state as they are read.
Planned(a, to) ==
  \E t \in Workflow :
    /\ t.from = asset[a].state /\ t.to = to
    /\ t.guard = "held" => asset[a].current # None
    /\ t.guard = "free" => asset[a].current = None

\* Mutant: the state planned is not carried over.
StartTransitionUnplanned(r, a, to) ==
  /\ Live(a) /\ Planned(a, to)
  /\ Start(r, [Idle EXCEPT !.op = "transition", !.asset = a])

StartTransition(r, a, to) ==
  /\ Live(a) /\ Planned(a, to)
  /\ Start(r, [Idle EXCEPT !.op = "transition", !.asset = a, !.to = to])

CommitTransition(r) ==
  LET a == request[r].asset
  IN  /\ Pending(r, "transition") /\ Live(a)
      /\ asset' = [asset EXCEPT ![a].state = request[r].to]
      /\ Done(r) /\ UNCHANGED <<assignment, person>>

StartDelete(r, a) ==
  /\ Live(a) /\ asset[a].current = None
  /\ Start(r, [Idle EXCEPT !.op = "delete", !.asset = a])

CommitDelete(r) ==
  LET a == request[r].asset
  IN  /\ Pending(r, "delete") /\ Live(a)
      /\ asset' = [asset EXCEPT ![a].row = "deleted"]
      /\ Done(r) /\ UNCHANGED <<assignment, person>>

\* Reached from the recycle bin, which lists deleted assets.
StartRestore(r, a) ==
  /\ asset[a].row = "deleted"
  /\ Start(r, [Idle EXCEPT !.op = "restore", !.asset = a])

CommitRestore(r) ==
  LET a == request[r].asset
  IN  /\ Pending(r, "restore") /\ asset[a].row \in {"live", "deleted"}
      /\ asset' = [asset EXCEPT ![a].row = "live"]
      /\ Done(r) /\ UNCHANGED <<assignment, person>>

-----------------------------------------------------------------------------
(* people.service.ts and offboarding.service.ts                             *)

StartOffboarding(p) ==
  /\ person[p].row = "live"
  /\ person' = [person EXCEPT ![p].status = "offboarding"]
  /\ UNCHANGED <<asset, assignment, request>>

\* offboardingChecklist() passes over assignments whose asset is deleted.
ClearToDeactivate(p) == \A i \in HeldBy(p) : ~Live(assignment[i].asset)

\* The checklist, or a force that overrules it.
StartComplete(r, p, force) ==
  /\ person[p].row = "live" /\ (ClearToDeactivate(p) \/ force)
  /\ Start(r, [Idle EXCEPT !.op = "complete", !.person = p])

CommitComplete(r) ==
  LET p == request[r].person
  IN  /\ Pending(r, "complete") /\ person[p].row = "live"
      /\ person' = [person EXCEPT ![p].status = "inactive"]
      /\ Done(r) /\ UNCHANGED <<asset, assignment>>

DeactivatePerson(p) ==
  /\ person[p].row = "live"
  /\ person' = [person EXCEPT ![p].status = "inactive"]
  /\ UNCHANGED <<asset, assignment, request>>

\* deletePerson(), with the guard that composition/deleteGuards.ts supplies.
StartDeletePerson(r, p) ==
  /\ person[p].row = "live" /\ HeldBy(p) = {}
  /\ Start(r, [Idle EXCEPT !.op = "deletePerson", !.person = p])

CommitDeletePerson(r) ==
  LET p == request[r].person
  IN  /\ Pending(r, "deletePerson") /\ person[p].row # "purged"
      /\ person' = [person EXCEPT ![p].row = "deleted"]
      /\ Done(r) /\ UNCHANGED <<asset, assignment>>

RestorePerson(p) ==
  /\ person[p].row = "deleted"
  /\ person' = [person EXCEPT ![p].row = "live"]
  /\ UNCHANGED <<asset, assignment, request>>

\* purgeExpired(): assignments of what is removed are kept.
PurgeAsset(a) ==
  /\ asset[a].row = "deleted"
  /\ asset' = [asset EXCEPT ![a].row = "purged"]
  /\ UNCHANGED <<assignment, person, request>>

PurgePerson(p) ==
  /\ person[p].row = "deleted"
  /\ person' = [person EXCEPT ![p].row = "purged"]
  /\ UNCHANGED <<asset, assignment, request>>

-----------------------------------------------------------------------------
AssignmentStep(r) ==
  \/ \E a \in Assets, p \in People : StartAssign(r, a, p) \/ StartTransfer(r, a, p)
  \/ \E a \in Assets : StartReturn(r, a)
  \/ \E i \in Ids : CommitAssign(r, i) \/ CommitTransfer(r, i)
  \/ CommitReturn(r)

AssetStep(r) ==
  \/ \E a \in Assets : StartCreate(r, a) \/ StartDelete(r, a) \/ StartRestore(r, a)
  \/ \E a \in Assets, to \in States : StartTransition(r, a, to)
  \/ CommitCreate(r) \/ CommitTransition(r) \/ CommitDelete(r) \/ CommitRestore(r)

PersonStep ==
  \/ \E p \in People : \/ StartOffboarding(p) \/ DeactivatePerson(p)
                       \/ RestorePerson(p) \/ PurgePerson(p)
  \/ \E r \in Requests, p \in People, force \in BOOLEAN : StartComplete(r, p, force)
  \/ \E r \in Requests, p \in People : StartDeletePerson(r, p)
  \/ \E r \in Requests : CommitComplete(r) \/ CommitDeletePerson(r)

Next ==
  \/ \E r \in Requests : AssignmentStep(r) \/ AssetStep(r) \/ GiveUp(r)
  \/ PersonStep
  \/ \E a \in Assets : PurgeAsset(a)

Spec == Init /\ [][Next]_vars

-----------------------------------------------------------------------------
(* Properties                                                              *)

\* Every variable has its type (asset.model.ts, assignment.model.ts, person.model.ts).
TypeOK ==
  /\ asset \in [Assets -> Asset]
  /\ assignment \in [Ids -> Assignment]
  /\ person \in [People -> Person]
  /\ request \in [Requests -> Request]

\* The pointer of an asset names its active assignment, its only one, if it has any.
Agrees(a) == Active(a) = {asset[a].current} \ {None}

\* The cached pointer of every asset names its active assignment, and is empty
\* when it has none: so there is one active assignment at most, and history and
\* state cannot disagree (assignment.service.ts, header).
PointerAgrees == \A a \in Assets : Agrees(a)

\* The chain of custody of an asset does not fork and does not skip: what an
\* assignment replaced is a returned assignment of the same asset, and was
\* replaced once (previousAssignmentId).
ChainOfCustody ==
  \A i, j \in Ids :
    /\ assignment[i].previous = j =>
         assignment[j].status = "returned" /\ assignment[j].asset = assignment[i].asset
    /\ (i # j /\ assignment[i].previous # None) =>
         assignment[i].previous # assignment[j].previous

\* History is only ever added to: an assignment keeps its asset, its holder and
\* what it replaced, and once returned is never active again.
HistoryIsKept ==
  [][\A i \in Ids : assignment[i].status # "none" =>
       /\ assignment'[i].asset = assignment[i].asset
       /\ assignment'[i].holder = assignment[i].holder
       /\ assignment'[i].previous = assignment[i].previous
       /\ assignment[i].status = "returned" => assignment'[i].status = "returned"]_vars

\* The custody register this implements: the holder is read off the assignments,
\* not off the pointer.
Holder(a) ==
  IF Active(a) = {} THEN None ELSE assignment[CHOOSE i \in Active(a) : TRUE].holder

Register == INSTANCE CustodyRegister WITH
  Nobody <- None,
  holder <- [a \in Assets |-> Holder(a)],
  listed <- {a \in Assets : Live(a)}

\* Requests that interleave, give up and restart keep the register's promise.
ImplementsRegister == Register!Spec

\* Nothing moves out of a final state (lifecycle.service.ts, planTransition).
FinalIsFinal ==
  [][\A a \in Assets : asset[a].state \in Terminal => asset'[a].state = asset[a].state]_vars

=============================================================================
