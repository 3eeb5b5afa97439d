----------------------------- MODULE Maintenance ------------------------------
(* Work done on one asset: scheduled, started, finished, cancelled, deleted.   *)
(* Starting work may move the asset into the workshop and finishing it may     *)
(* move it back; that move is a transaction of its own, taken before the       *)
(* record is written on the way in and after it on the way out.                *)
EXTENDS Naturals, FiniteSets

CONSTANTS
  Works,          \* maintenance records of the asset
  Technicians,    \* requests under way
  WorkshopEdges,  \* the tenant's workflow: pairs <<from, to>> of asset states
  MaxVisits,      \* bound: requests begun and bookings made
  NoWork          \* no such record, null

ASSUME MaintenanceAssumption == MaxVisits \in Nat

VARIABLES
  work,        \* maintenancerecords, by id
  assetState,  \* lifecycleState of the asset
  visit,       \* what each request holds between two calls
  visits       \* requests begun and bookings made so far, up to MaxVisits

maintenanceVars == <<work, assetState, visit, visits>>

AssetStates == {"in_stock", "deployed", "maintenance", "retired"}

Nowhere == "nowhere"

(* before: assetStateBefore; next, previous: the series of recurring work.     *)
Work == [status : {"scheduled", "in_progress", "completed", "cancelled"},
         recurs : BOOLEAN, before : AssetStates \cup {Nowhere},
         next : Works \cup {NoWork}, previous : Works \cup {NoWork}, deleted : BOOLEAN]

ASSUME NoWorkAssumption == NoWork \notin Works \cup Work

NoVisit == [op |-> "none"]

Visit == {NoVisit}
    \cup [op : {"plan", "commit", "write"}, for : {"create", "start"}, work : Works,
          from : AssetStates \cup {Nowhere}, to : {"maintenance"}]
    \cup [op : {"plan", "commit"}, for : {"complete"}, work : Works,
          from : {"maintenance"}, to : {"in_stock", "deployed"}]
    \cup [op : {"complete", "cancel", "delete", "look", "count"}, work : Works]

MaintenanceTypeOK ==
  /\ work \in [Works -> Work \cup {NoWork}]
  /\ assetState \in AssetStates
  /\ visit \in [Technicians -> Visit]
  /\ visits \in 0..MaxVisits

MaintenanceInit ==
  /\ work = [w \in Works |-> NoWork]
  /\ assetState = "in_stock"
  /\ visit = [t \in Technicians |-> NoVisit]
  /\ visits = 0

Visible == {w \in Works : work[w] # NoWork /\ ~work[w].deleted}

Closed(w) == work[w].status \in {"completed", "cancelled"}

Visiting(t, op) == visit[t] # NoVisit /\ visit[t].op = op

Carry(t, v) == visit' = [visit EXCEPT ![t] = v]

Arrive(t) == visit[t] = NoVisit /\ visits < MaxVisits /\ visits' = visits + 1

NewWork(status, recurs, before, previous) ==
  [status |-> status, recurs |-> recurs, before |-> before,
   next |-> NoWork, previous |-> previous, deleted |-> FALSE]

(* moveIntoMaintenance(): where the asset came from, or null when it is not    *)
(* asked for or the asset is in the workshop already.                          *)
Enter(t, for, w, moveAsset) ==
  LET moves == moveAsset /\ assetState # "maintenance"
  IN Carry(t, [op |-> IF moves THEN "plan" ELSE "write", for |-> for, work |-> w,
              from |-> IF moves THEN assetState ELSE Nowhere, to |-> "maintenance"])

-------------------------------------------------------------------------------
ScheduleMaintenance(w, recurs) ==
  /\ work[w] = NoWork
  /\ visits < MaxVisits /\ visits' = visits + 1
  /\ work' = [work EXCEPT ![w] = NewWork("scheduled", recurs, Nowhere, NoWork)]
  /\ UNCHANGED <<assetState, visit>>

BeginCreate(t, w, moveAsset) ==
  /\ Arrive(t)
  /\ work[w] = NoWork
  /\ Enter(t, "create", w, moveAsset)
  /\ UNCHANGED <<work, assetState>>

FindForStart(t, w, moveAsset) ==
  /\ Arrive(t)
  /\ w \in Visible /\ work[w].status = "scheduled"
  /\ Enter(t, "start", w, moveAsset)
  /\ UNCHANGED <<work, assetState>>

(* transitionAsset(): the workflow is asked about the state read here ...      *)
PlanMove(t) ==
  /\ Visiting(t, "plan")
  /\ <<assetState, visit[t].to>> \in WorkshopEdges
  /\ visit' = [visit EXCEPT ![t].op = "commit"]
  /\ UNCHANGED <<work, assetState, visits>>

(* ... and the transaction sets the new one over whatever it finds.            *)
CommitMove(t) ==
  /\ Visiting(t, "commit")
  /\ assetState' = visit[t].to
  /\ IF visit[t].for = "complete" THEN Carry(t, NoVisit)
                                  ELSE visit' = [visit EXCEPT ![t].op = "write"]
  /\ UNCHANGED <<work, visits>>

CreateMaintenance(t, recurs) ==
  LET w == visit[t].work
  IN  /\ Visiting(t, "write") /\ visit[t].for = "create"
      /\ work[w] = NoWork
      /\ work' = [work EXCEPT ![w] = NewWork("in_progress", recurs, visit[t].from, NoWork)]
      /\ Carry(t, NoVisit)
      /\ UNCHANGED <<assetState, visits>>

(* The record is read again in the transaction, its status is not.             *)
StartMaintenance(t) ==
  LET w == visit[t].work
  IN  /\ Visiting(t, "write") /\ visit[t].for = "start"
      /\ w \in Visible
      /\ work' = [work EXCEPT ![w].status = "in_progress", ![w].before = visit[t].from]
      /\ Carry(t, NoVisit)
      /\ UNCHANGED <<assetState, visits>>

FindOpen(t, w, op) ==
  /\ Arrive(t)
  /\ w \in Visible /\ ~Closed(w)
  /\ Carry(t, [op |-> op, work |-> w])
  /\ UNCHANGED <<work, assetState>>

(* Mutant: the next visit is scheduled whether or not there is one already.    *)
CompleteRebooks(t) ==
  LET w == visit[t].work
      done == [work[w] EXCEPT !.status = "completed"]
  IN  /\ Visiting(t, "complete")
      /\ w \in Visible
      /\ IF done.recurs
           THEN \E v \in Works :
                  /\ work[v] = NoWork
                  /\ work' = [work EXCEPT ![w] = [done EXCEPT !.next = v],
                                          ![v] = NewWork("scheduled", TRUE, Nowhere, w)]
           ELSE work' = [work EXCEPT ![w] = done]
      /\ Carry(t, IF done.before = Nowhere THEN NoVisit ELSE [op |-> "look", work |-> w])
      /\ UNCHANGED <<assetState, visits>>

(* Recurring work schedules the next visit in the same transaction, unless the *)
(* record names one already.                                                   *)
CompleteMaintenance(t) ==
  LET w == visit[t].work
      done == [work[w] EXCEPT !.status = "completed"]
  IN  /\ Visiting(t, "complete")
      /\ w \in Visible
      /\ IF done.recurs /\ done.next = NoWork
           THEN \E v \in Works :
                  /\ work[v] = NoWork
                  /\ work' = [work EXCEPT ![w] = [done EXCEPT !.next = v],
                                          ![v] = NewWork("scheduled", TRUE, Nowhere, w)]
           ELSE work' = [work EXCEPT ![w] = done]
      /\ Carry(t, IF done.before = Nowhere THEN NoVisit ELSE [op |-> "look", work |-> w])
      /\ UNCHANGED <<assetState, visits>>

FindAssetAfter(t) ==
  /\ Visiting(t, "look")
  /\ Carry(t, IF assetState = "maintenance" THEN [visit[t] EXCEPT !.op = "count"] ELSE NoVisit)
  /\ UNCHANGED <<work, assetState, visits>>

(* Another job still open keeps the asset in the workshop; where it goes       *)
(* otherwise depends on whether somebody holds it.                             *)
CountOthers(t, back) ==
  LET w == visit[t].work
      others == {v \in Visible \ {w} : work[v].status = "in_progress"}
  IN  /\ Visiting(t, "count")
      /\ Carry(t, IF others # {} THEN NoVisit
                 ELSE [op |-> "plan", for |-> "complete", work |-> w,
                       from |-> "maintenance", to |-> back])
      /\ UNCHANGED <<work, assetState, visits>>

CancelMaintenance(t) ==
  /\ Visiting(t, "cancel")
  /\ visit[t].work \in Visible
  /\ work' = [work EXCEPT ![visit[t].work].status = "cancelled"]
  /\ Carry(t, NoVisit)
  /\ UNCHANGED <<assetState, visits>>

UpdateMaintenance(w) ==
  /\ w \in Visible /\ work[w].status # "cancelled"
  /\ work' = [work EXCEPT ![w].recurs = ~@]
  /\ UNCHANGED <<assetState, visit, visits>>

FindForDeletion(t, w) ==
  /\ Arrive(t)
  /\ w \in Visible /\ work[w].status # "in_progress"
  /\ Carry(t, [op |-> "delete", work |-> w])
  /\ UNCHANGED <<work, assetState>>

DeleteMaintenance(t) ==
  /\ Visiting(t, "delete")
  /\ work' = [work EXCEPT ![visit[t].work].deleted = TRUE]
  /\ Carry(t, NoVisit)
  /\ UNCHANGED <<assetState, visits>>

(* Anybody else's transition of the asset.                                     *)
AssetMoves(to) ==
  /\ <<assetState, to>> \in WorkshopEdges
  /\ assetState' = to
  /\ UNCHANGED <<work, visit, visits>>

VisitEnds(t) ==
  /\ visit[t] # NoVisit
  /\ Carry(t, NoVisit)
  /\ UNCHANGED <<work, assetState, visits>>

MaintenanceNext ==
  \/ \E t \in Technicians :
       \/ PlanMove(t) \/ CommitMove(t) \/ StartMaintenance(t) \/ CompleteMaintenance(t)
       \/ FindAssetAfter(t) \/ CancelMaintenance(t) \/ DeleteMaintenance(t) \/ VisitEnds(t)
       \/ \E back \in {"in_stock", "deployed"} : CountOthers(t, back)
       \/ \E recurs \in BOOLEAN : CreateMaintenance(t, recurs)
       \/ \E w \in Works : \/ \E op \in {"complete", "cancel"} : FindOpen(t, w, op)
                           \/ FindForDeletion(t, w)
                           \/ \E moveAsset \in BOOLEAN :
                                BeginCreate(t, w, moveAsset) \/ FindForStart(t, w, moveAsset)
  \/ \E w \in Works : UpdateMaintenance(w) \/ \E recurs \in BOOLEAN : ScheduleMaintenance(w, recurs)
  \/ \E to \in AssetStates : AssetMoves(to)

MaintenanceSpec == MaintenanceInit /\ [][MaintenanceNext]_maintenanceVars

-------------------------------------------------------------------------------
(* Recurring work is one series (completeMaintenance): a record names a        *)
(* follow-up exactly when that follow-up names it, so however many requests    *)
(* finish, reopen by a late start, or cancel the same work, a visit is never   *)
(* booked twice and none is left out of the series.                            *)
OneFollowUp ==
  \A w, v \in Works :
    (work[w] # NoWork /\ work[v] # NoWork) => (work[w].next = v <=> work[v].previous = w)

=============================================================================
