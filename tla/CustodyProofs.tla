----------------------------- MODULE CustodyProofs -----------------------------
(***************************************************************************)
(* Proofs about custody, for any assets, people, requests and workflow.    *)
(*                                                                         *)
(* PointerAgrees is not inductive: a commit needs to know that the request *)
(* carries an asset, that a record in use names an asset and a holder, and *)
(* that an asset not yet created points at nothing.                        *)
(***************************************************************************)
EXTENDS Reconciliation, TLAPS

AssetOps == {"create", "assign", "return", "transfer", "transition", "delete", "restore"}
PersonOps == {"assign", "transfer", "complete", "deletePerson"}

\* A pending request carries what its commit needs.
RequestsCarry ==
  \A r \in Requests :
    /\ request[r].op \in AssetOps => request[r].asset \in Assets
    /\ request[r].op \in PersonOps => request[r].person \in People
    /\ request[r].op = "transition" => request[r].to \in States

\* What a single request must carry.
Fits(c) ==
  /\ c \in Request
  /\ c.op \in AssetOps => c.asset \in Assets
  /\ c.op \in PersonOps => c.person \in People
  /\ c.op = "transition" => c.to \in States

\* A record in use names an asset and a holder.
RecordsName ==
  \A i \in Ids : assignment[i].status # "none" =>
    assignment[i].asset \in Assets /\ assignment[i].holder \in People

\* An asset that was never created points at nothing.
UncreatedFree == \A a \in Assets : asset[a].row = "none" => asset[a].current = None

IInv ==
  /\ TypeOK
  /\ RequestsCarry
  /\ RecordsName
  /\ UncreatedFree
  /\ PointerAgrees
  /\ ChainOfCustody

USE CustodyAssumption

-----------------------------------------------------------------------------
\* A request may carry nothing, and any request that carries assets, people and
\* states is typed.
LEMMA IdleType == Idle \in Request /\ Idle.op = "none"
  BY DEF Idle, Request, Operations

\* A request that carries an asset, a person and a state has its type.
LEMMA CarriedType ==
  ASSUME NEW c, c \in Request,
         c.op \in AssetOps => c.asset \in Assets,
         c.op \in PersonOps => c.person \in People,
         c.op = "transition" => c.to \in States,
         IInv, NEW r \in Requests,
         request' = [request EXCEPT ![r] = c], UNCHANGED <<asset, assignment, person>>
  PROVE  IInv'
<1>1. TypeOK'
  BY DEF IInv, TypeOK
<1>2. RequestsCarry'
  BY DEF IInv, TypeOK, RequestsCarry
<1>3. RecordsName' /\ UncreatedFree' /\ PointerAgrees' /\ ChainOfCustody'
  BY DEF IInv, RecordsName, UncreatedFree, PointerAgrees, Agrees, Active, ChainOfCustody
<1> QED
  BY <1>1, <1>2, <1>3 DEF IInv

\* The invariant holds at the start.
LEMMA InitInv == Init => IInv
<1> SUFFICES ASSUME Init PROVE IInv
  OBVIOUS
<1>1. asset \in [Assets -> Asset] /\ person \in [People -> Person]
  BY DEF Init, Asset, Person
<1>2. assignment \in [Ids -> Assignment]
  BY DEF Init, Unwritten, Assignment
<1>3. request \in [Requests -> Request] /\ \A r \in Requests : request[r].op = "none"
  BY IdleType DEF Init
<1>4. \A i \in Ids : assignment[i].status = "none" /\ assignment[i].previous = None
  BY DEF Init, Unwritten
<1>5. \A a \in Assets : asset[a].current = None
  BY DEF Init
<1>6. TypeOK
  BY <1>1, <1>2, <1>3 DEF TypeOK
<1>7. RequestsCarry
  BY <1>3 DEF RequestsCarry, AssetOps, PersonOps
<1>8. RecordsName /\ UncreatedFree
  BY <1>4, <1>5 DEF RecordsName, UncreatedFree
<1>9. PointerAgrees
  BY <1>4, <1>5 DEF PointerAgrees, Agrees, Active
<1>10. ChainOfCustody
  BY <1>4 DEF ChainOfCustody
<1> QED
  BY <1>6, <1>7, <1>8, <1>9, <1>10 DEF IInv

-----------------------------------------------------------------------------
\* The steps that only make a request carry something.
LEMMA StartAssetInv ==
  ASSUME IInv, NEW r \in Requests, NEW a \in Assets,
         \/ StartReturn(r, a) \/ StartCreate(r, a) \/ StartDelete(r, a) \/ StartRestore(r, a)
         \/ \E to \in States : StartTransition(r, a, to)
  PROVE  IInv'
<1> SUFFICES ASSUME NEW c, Start(r, c), Fits(c) PROVE IInv'
  <2>1. /\ Fits([Idle EXCEPT !.op = "return", !.asset = a])
        /\ Fits([Idle EXCEPT !.op = "create", !.asset = a])
        /\ Fits([Idle EXCEPT !.op = "delete", !.asset = a])
        /\ Fits([Idle EXCEPT !.op = "restore", !.asset = a])
    BY DEF Fits, Idle, Request, Operations, AssetOps, PersonOps
  <2>2. \A to \in States : Fits([Idle EXCEPT !.op = "transition", !.asset = a, !.to = to])
    BY DEF Fits, Idle, Request, Operations, AssetOps, PersonOps
  <2> QED
    BY <2>1, <2>2 DEF StartReturn, StartCreate, StartDelete, StartRestore, StartTransition
<1> QED
  BY CarriedType DEF Start, Fits

\* The same for a request that carries an asset and a person.
LEMMA StartHolderInv ==
  ASSUME IInv, NEW r \in Requests, NEW a \in Assets, NEW p \in People,
         StartAssign(r, a, p) \/ StartTransfer(r, a, p)
  PROVE  IInv'
<1> SUFFICES ASSUME NEW c, Start(r, c), Fits(c) PROVE IInv'
  <2>1. /\ Fits([Idle EXCEPT !.op = "assign", !.asset = a, !.person = p])
        /\ Fits([Idle EXCEPT !.op = "transfer", !.asset = a, !.person = p])
    BY DEF Fits, Idle, Request, Operations, AssetOps, PersonOps
  <2> QED
    BY <2>1 DEF StartAssign, StartTransfer
<1> QED
  BY CarriedType DEF Start, Fits

\* The same for a request that carries a person only.
LEMMA StartPersonInv ==
  ASSUME IInv, NEW r \in Requests, NEW p \in People,
         (\E force \in BOOLEAN : StartComplete(r, p, force)) \/ StartDeletePerson(r, p)
  PROVE  IInv'
<1> SUFFICES ASSUME NEW c, Start(r, c), Fits(c) PROVE IInv'
  <2>1. /\ Fits([Idle EXCEPT !.op = "complete", !.person = p])
        /\ Fits([Idle EXCEPT !.op = "deletePerson", !.person = p])
    BY DEF Fits, Idle, Request, Operations, AssetOps, PersonOps
  <2> QED
    BY <2>1 DEF StartComplete, StartDeletePerson
<1> QED
  BY CarriedType DEF Start, Fits

\* A request given up leaves custody alone.
LEMMA GiveUpInv ==
  ASSUME IInv, NEW r \in Requests, GiveUp(r)
  PROVE  IInv'
  BY IdleType, CarriedType DEF GiveUp, Done, AssetOps, PersonOps

\* What every commit does to the requests.
LEMMA DoneFacts ==
  ASSUME IInv, NEW r \in Requests, Done(r)
  PROVE  request' \in [Requests -> Request] /\ RequestsCarry'
<1>1. request' \in [Requests -> Request]
  BY IdleType DEF Done, IInv, TypeOK
<1>2. \A q \in Requests : request'[q] = IF q = r THEN Idle ELSE request[q]
  BY DEF Done, IInv, TypeOK
<1> QED
  BY <1>1, <1>2, IdleType DEF IInv, RequestsCarry, AssetOps, PersonOps

\* A commit that leaves the assignments alone and writes of one asset at most
\* whether it is listed and its state.
LEMMA AssetWriteInv ==
  ASSUME IInv, NEW a \in Assets, NEW new \in Asset,
         new.current = asset[a].current, new.row # "none",
         asset' = [asset EXCEPT ![a] = new],
         UNCHANGED <<assignment, person>>,
         request' \in [Requests -> Request], RequestsCarry'
  PROVE  IInv'
<1>1. TypeOK'
  BY DEF IInv, TypeOK
<1>2. \A b \in Assets : asset'[b] = IF b = a THEN new ELSE asset[b]
  BY DEF IInv, TypeOK
<1>3. RecordsName' /\ ChainOfCustody'
  BY DEF IInv, RecordsName, ChainOfCustody
<1>4. UncreatedFree' /\ PointerAgrees'
  BY <1>2 DEF IInv, UncreatedFree, PointerAgrees, Agrees, Active
<1> QED
  BY <1>1, <1>3, <1>4 DEF IInv

\* Creating, moving, deleting and restoring an asset.
LEMMA AssetCommitInv ==
  ASSUME IInv, NEW r \in Requests,
         CommitCreate(r) \/ CommitTransition(r) \/ CommitDelete(r) \/ CommitRestore(r)
  PROVE  IInv'
<1> DEFINE a == request[r].asset
<1>0. a \in Assets /\ Done(r) /\ asset[a] \in Asset /\ UNCHANGED <<assignment, person>>
  BY DEF IInv, TypeOK, RequestsCarry, AssetOps, Pending,
     CommitCreate, CommitTransition, CommitDelete, CommitRestore
<1>1. request' \in [Requests -> Request] /\ RequestsCarry'
  BY <1>0, DoneFacts
<1>2. CASE CommitCreate(r)
  <2> DEFINE new == [row |-> "live", state |-> "in_stock", current |-> None]
  <2>1. new \in Asset /\ new.row # "none" /\ asset' = [asset EXCEPT ![a] = new]
    BY <1>2 DEF CommitCreate, Asset
  <2>2. new.current = asset[a].current
    BY <1>0, <1>2 DEF IInv, UncreatedFree, CommitCreate
  <2> QED
    BY <1>0, <1>1, <2>1, <2>2, AssetWriteInv
<1>3. CASE CommitTransition(r)
  <2> DEFINE new == [asset[a] EXCEPT !.state = request[r].to]
  <2>1. request[r].to \in States
    BY <1>3 DEF IInv, RequestsCarry, CommitTransition, Pending
  <2>2. new \in Asset /\ new.row # "none" /\ new.current = asset[a].current
    BY <1>0, <1>3, <2>1 DEF CommitTransition, Live, Asset
  <2>3. asset' = [asset EXCEPT ![a] = new]
    BY <1>3 DEF CommitTransition
  <2> QED
    BY <1>0, <1>1, <2>2, <2>3, AssetWriteInv
<1>4. CASE CommitDelete(r)
  <2> DEFINE new == [asset[a] EXCEPT !.row = "deleted"]
  <2>1. new \in Asset /\ new.row # "none" /\ new.current = asset[a].current
    BY <1>0 DEF Asset
  <2>2. asset' = [asset EXCEPT ![a] = new]
    BY <1>4 DEF CommitDelete
  <2> QED
    BY <1>0, <1>1, <2>1, <2>2, AssetWriteInv
<1>5. CASE CommitRestore(r)
  <2> DEFINE new == [asset[a] EXCEPT !.row = "live"]
  <2>1. new \in Asset /\ new.row # "none" /\ new.current = asset[a].current
    BY <1>0 DEF Asset
  <2>2. asset' = [asset EXCEPT ![a] = new]
    BY <1>5 DEF CommitRestore
  <2> QED
    BY <1>0, <1>1, <2>1, <2>2, AssetWriteInv
<1> QED
  BY <1>2, <1>3, <1>4, <1>5

\* Purging an asset leaves its assignments and its pointer.
LEMMA PurgeAssetInv ==
  ASSUME IInv, NEW a \in Assets, PurgeAsset(a)
  PROVE  IInv'
<1> DEFINE new == [asset[a] EXCEPT !.row = "purged"]
<1>1. asset[a] \in Asset  BY DEF IInv, TypeOK
<1>2. new \in Asset /\ new.row # "none" /\ new.current = asset[a].current
  BY <1>1 DEF Asset
<1>3. asset' = [asset EXCEPT ![a] = new] /\ UNCHANGED <<assignment, person, request>>
  BY DEF PurgeAsset
<1>4. request' \in [Requests -> Request] /\ RequestsCarry'
  BY <1>3 DEF IInv, TypeOK, RequestsCarry
<1> QED
  BY <1>2, <1>3, <1>4, AssetWriteInv

\* The steps that write people only.
LEMMA PersonInv ==
  ASSUME IInv, person' \in [People -> Person],
         UNCHANGED <<asset, assignment>>,
         request' \in [Requests -> Request], RequestsCarry'
  PROVE  IInv'
  BY DEF IInv, TypeOK, RecordsName, UncreatedFree, PointerAgrees, Agrees, Active, ChainOfCustody

\* The operations on people that are one step.
LEMMA PersonStepInv ==
  ASSUME IInv, NEW p \in People,
         StartOffboarding(p) \/ DeactivatePerson(p) \/ RestorePerson(p) \/ PurgePerson(p)
  PROVE  IInv'
<1>1. person' \in [People -> Person]
  BY DEF IInv, TypeOK, Person, StartOffboarding, DeactivatePerson, RestorePerson, PurgePerson
<1>2. UNCHANGED <<asset, assignment, request>>
  BY DEF StartOffboarding, DeactivatePerson, RestorePerson, PurgePerson
<1>3. request' \in [Requests -> Request] /\ RequestsCarry'
  BY <1>2 DEF IInv, TypeOK, RequestsCarry
<1> QED
  BY <1>1, <1>2, <1>3, PersonInv

\* The commits of the operations on people.
LEMMA PersonCommitInv ==
  ASSUME IInv, NEW r \in Requests, CommitComplete(r) \/ CommitDeletePerson(r)
  PROVE  IInv'
<1>1. request[r].person \in People /\ Done(r) /\ UNCHANGED <<asset, assignment>>
  BY DEF IInv, RequestsCarry, PersonOps, CommitComplete, CommitDeletePerson, Pending
<1>2. person' \in [People -> Person]
  BY <1>1 DEF IInv, TypeOK, Person, CommitComplete, CommitDeletePerson
<1> QED
  BY <1>1, <1>2, DoneFacts, PersonInv

-----------------------------------------------------------------------------
(* The three commits that write custody.                                    *)

\* The first assignment of a free asset names it and links to nothing.
LEMMA CommitAssignInv ==
  ASSUME IInv, NEW r \in Requests, NEW i \in Ids, CommitAssign(r, i)
  PROVE  IInv'
<1> DEFINE a == request[r].asset
           p == request[r].person
           n == NewAssignment(a, p, None)
           new == [asset[a] EXCEPT !.current = i,
                     !.state = IF asset[a].state = "in_stock" THEN "deployed" ELSE asset[a].state]
<1>0. a \in Assets /\ p \in People /\ asset[a] \in Asset /\ Live(a) /\ Active(a) = {}
      /\ assignment[i] = Unwritten
  BY DEF IInv, TypeOK, RequestsCarry, AssetOps, PersonOps, Pending, CommitAssign
<1>1. request' \in [Requests -> Request] /\ RequestsCarry'
  BY DoneFacts DEF CommitAssign
<1>2. /\ assignment' = [assignment EXCEPT ![i] = n] /\ asset' = [asset EXCEPT ![a] = new]
      /\ person' = person
  BY DEF CommitAssign
<1>3. n \in Assignment /\ n.status = "active" /\ n.asset = a /\ n.holder = p /\ n.previous = None
  BY <1>0 DEF NewAssignment, Assignment
<1>4. new \in Asset /\ new.current = i /\ new.row = "live"
  BY <1>0 DEF Asset, Live
<1>5. assignment[i].status = "none" /\ assignment[i].previous = None
  BY <1>0 DEF Unwritten
<1> HIDE DEF a, p, n, new
<1>6. TypeOK'
  BY <1>1, <1>2, <1>3, <1>4 DEF IInv, TypeOK
<1>7. /\ \A j \in Ids : assignment'[j] = IF j = i THEN n ELSE assignment[j]
      /\ \A b \in Assets : asset'[b] = IF b = a THEN new ELSE asset[b]
  BY <1>2 DEF IInv, TypeOK
<1>8. RecordsName' /\ UncreatedFree'
  BY <1>0, <1>3, <1>4, <1>7 DEF IInv, RecordsName, UncreatedFree
<1>9. PointerAgrees'
  <2> SUFFICES ASSUME NEW b \in Assets PROVE Active(b)' = {asset'[b].current} \ {None}
    BY DEF PointerAgrees, Agrees
  <2>1. CASE b = a
    BY <2>1, <1>0, <1>3, <1>4, <1>7 DEF Active
  <2>2. CASE b # a
    <3>1. Active(b)' = Active(b)
      BY <2>2, <1>3, <1>5, <1>7 DEF Active
    <3> QED
      BY <3>1, <2>2, <1>7 DEF IInv, PointerAgrees, Agrees
  <2> QED
    BY <2>1, <2>2
<1>10. ChainOfCustody'
  BY <1>3, <1>5, <1>7 DEF IInv, ChainOfCustody
<1> QED
  BY <1>1, <1>6, <1>8, <1>9, <1>10 DEF IInv

\* A return ends the only active assignment and empties the pointer.
LEMMA CommitReturnInv ==
  ASSUME IInv, NEW r \in Requests, CommitReturn(r)
  PROVE  IInv'
<1> DEFINE a == request[r].asset
           new == [asset[a] EXCEPT !.current = None,
                     !.state = IF asset[a].state = "deployed" THEN "in_stock" ELSE asset[a].state]
<1>0. a \in Assets /\ asset[a] \in Asset /\ Live(a)
  BY DEF IInv, TypeOK, RequestsCarry, AssetOps, Pending, CommitReturn
<1>1. request' \in [Requests -> Request] /\ RequestsCarry'
  BY DoneFacts DEF CommitReturn
<1>2. PICK i \in Active(a) : assignment' = [assignment EXCEPT ![i].status = "returned"]
  BY DEF CommitReturn
<1> DEFINE n == [assignment[i] EXCEPT !.status = "returned"]
<1>3. i \in Ids /\ assignment[i] \in Assignment /\ assignment[i].status = "active"
      /\ assignment[i].asset = a /\ Active(a) = {i}
  BY <1>0, <1>2 DEF Active, IInv, TypeOK, PointerAgrees, Agrees
<1>4. n \in Assignment /\ n.status = "returned" /\ n.asset = a
      /\ n.holder = assignment[i].holder /\ n.previous = assignment[i].previous
  BY <1>3 DEF Assignment
<1>5. new \in Asset /\ new.current = None /\ new.row = "live"
  BY <1>0 DEF Asset, Live
<1>6. /\ assignment' = [assignment EXCEPT ![i] = n] /\ asset' = [asset EXCEPT ![a] = new]
      /\ person' = person
  BY <1>2 DEF CommitReturn
<1> HIDE DEF a, n, new
<1>7. TypeOK'
  BY <1>1, <1>4, <1>5, <1>6 DEF IInv, TypeOK
<1>8. /\ \A j \in Ids : assignment'[j] = IF j = i THEN n ELSE assignment[j]
      /\ \A b \in Assets : asset'[b] = IF b = a THEN new ELSE asset[b]
  BY <1>6 DEF IInv, TypeOK
<1>9. RecordsName' /\ UncreatedFree'
  BY <1>3, <1>4, <1>5, <1>8 DEF IInv, RecordsName, UncreatedFree
<1>10. PointerAgrees'
  <2> SUFFICES ASSUME NEW b \in Assets PROVE Active(b)' = {asset'[b].current} \ {None}
    BY DEF PointerAgrees, Agrees
  <2>1. CASE b = a
    BY <2>1, <1>3, <1>4, <1>5, <1>8 DEF Active
  <2>2. CASE b # a
    <3>1. Active(b)' = Active(b)
      BY <2>2, <1>3, <1>4, <1>8 DEF Active
    <3> QED
      BY <3>1, <2>2, <1>8 DEF IInv, PointerAgrees, Agrees
  <2> QED
    BY <2>1, <2>2
<1>11. ChainOfCustody'
  BY <1>3, <1>4, <1>8 DEF IInv, ChainOfCustody
<1> QED
  BY <1>1, <1>7, <1>9, <1>10, <1>11 DEF IInv

\* A transfer ends one assignment and links the next one to it.
LEMMA CommitTransferInv ==
  ASSUME IInv, NEW r \in Requests, NEW i \in Ids, CommitTransfer(r, i)
  PROVE  IInv'
<1> DEFINE a == request[r].asset
           p == request[r].person
           new == [asset[a] EXCEPT !.current = i]
<1>0. a \in Assets /\ p \in People /\ asset[a] \in Asset /\ Live(a) /\ assignment[i] = Unwritten
  BY DEF IInv, TypeOK, RequestsCarry, AssetOps, PersonOps, Pending, CommitTransfer
<1>1. request' \in [Requests -> Request] /\ RequestsCarry'
  BY DoneFacts DEF CommitTransfer
<1>2. PICK j \in Active(a) :
        assignment' = [assignment EXCEPT ![j].status = "returned",
                                         ![i] = NewAssignment(a, p, j)]
  BY DEF CommitTransfer
<1> DEFINE m == [assignment[j] EXCEPT !.status = "returned"]
           n == NewAssignment(a, p, j)
<1>3. j \in Ids /\ assignment[j] \in Assignment /\ assignment[j].status = "active"
      /\ assignment[j].asset = a /\ Active(a) = {j}
  BY <1>0, <1>2 DEF Active, IInv, TypeOK, PointerAgrees, Agrees
<1>4. m \in Assignment /\ m.status = "returned" /\ m.asset = a
      /\ m.holder = assignment[j].holder /\ m.previous = assignment[j].previous
  BY <1>3 DEF Assignment
<1>5. n \in Assignment /\ n.status = "active" /\ n.asset = a /\ n.holder = p /\ n.previous = j
  BY <1>0, <1>3 DEF NewAssignment, Assignment
<1>6. new \in Asset /\ new.current = i /\ new.row = "live"
  BY <1>0 DEF Asset, Live
<1>7. /\ asset' = [asset EXCEPT ![a] = new] /\ person' = person
  BY DEF CommitTransfer
<1>8. i # j /\ assignment[i].status = "none" /\ assignment[i].previous = None
  BY <1>0, <1>3 DEF Unwritten
<1>9. /\ \A k \in Ids : assignment'[k] = IF k = i THEN n ELSE IF k = j THEN m ELSE assignment[k]
      /\ DOMAIN assignment' = Ids
  BY <1>2, <1>8 DEF IInv, TypeOK
<1>10. \A b \in Assets : asset'[b] = IF b = a THEN new ELSE asset[b]
  BY <1>7 DEF IInv, TypeOK
<1>11. assignment' = [k \in Ids |-> assignment'[k]]
  BY <1>2 DEF IInv, TypeOK
<1> HIDE DEF a, p, m, n, new
<1>12. TypeOK'
  <2>1. \A k \in Ids : assignment'[k] \in Assignment
    BY <1>4, <1>5, <1>9 DEF IInv, TypeOK
  <2>2. assignment' \in [Ids -> Assignment]
    BY <2>1, <1>11
  <2> QED
    BY <2>2, <1>1, <1>6, <1>7 DEF IInv, TypeOK
<1>13. RecordsName' /\ UncreatedFree'
  BY <1>0, <1>3, <1>4, <1>5, <1>6, <1>9, <1>10 DEF IInv, RecordsName, UncreatedFree
<1>14. PointerAgrees'
  <2> SUFFICES ASSUME NEW b \in Assets PROVE Active(b)' = {asset'[b].current} \ {None}
    BY DEF PointerAgrees, Agrees
  <2>1. CASE b = a
    BY <2>1, <1>3, <1>4, <1>5, <1>6, <1>8, <1>9, <1>10 DEF Active
  <2>2. CASE b # a
    <3>1. Active(b)' = Active(b)
      BY <2>2, <1>3, <1>4, <1>5, <1>8, <1>9 DEF Active
    <3> QED
      BY <3>1, <2>2, <1>10 DEF IInv, PointerAgrees, Agrees
  <2> QED
    BY <2>1, <2>2
<1>15. ChainOfCustody'
  <2> SUFFICES ASSUME NEW k \in Ids, NEW l \in Ids
               PROVE  /\ assignment'[k].previous = l =>
                           /\ assignment'[l].status = "returned"
                           /\ assignment'[l].asset = assignment'[k].asset
                      /\ (k # l /\ assignment'[k].previous # None) =>
                           assignment'[k].previous # assignment'[l].previous
    BY DEF ChainOfCustody
  <2>1. \A k1 \in Ids : assignment[k1].previous # j /\ assignment[k1].previous # i
    BY <1>3, <1>8 DEF IInv, ChainOfCustody
  <2> QED
    BY <2>1, <1>3, <1>4, <1>5, <1>8, <1>9 DEF IInv, ChainOfCustody
<1> QED
  BY <1>1, <1>12, <1>13, <1>14, <1>15 DEF IInv

-----------------------------------------------------------------------------
\* Every step keeps the invariant.
LEMMA NextInv == IInv /\ [Next]_vars => IInv'
<1> SUFFICES ASSUME IInv, [Next]_vars PROVE IInv'
  OBVIOUS
<1>1. ASSUME NEW r \in Requests, GiveUp(r) PROVE IInv'
  BY <1>1, GiveUpInv
<1>2. ASSUME NEW r \in Requests, AssetStep(r) PROVE IInv'
  BY <1>2, StartAssetInv, AssetCommitInv DEF AssetStep
<1>3. ASSUME NEW r \in Requests, AssignmentStep(r) PROVE IInv'
  BY <1>3, StartAssetInv, StartHolderInv, CommitAssignInv, CommitReturnInv, CommitTransferInv
     DEF AssignmentStep
<1>4. CASE PersonStep
  BY <1>4, StartPersonInv, PersonStepInv, PersonCommitInv DEF PersonStep
<1>5. CASE UNCHANGED vars
  BY <1>5 DEF vars, IInv, TypeOK, RequestsCarry, RecordsName, UncreatedFree, PointerAgrees,
     Agrees, Active, ChainOfCustody
<1>6. ASSUME NEW a \in Assets, PurgeAsset(a) PROVE IInv'
  BY <1>6, PurgeAssetInv
<1> QED
  BY <1>1, <1>2, <1>3, <1>4, <1>5, <1>6 DEF Next

\* The invariant holds in every reachable state.
LEMMA InvariantHolds == Spec => []IInv
  BY InitInv, NextInv, PTL DEF Spec

\* Every variable keeps its type.
THEOREM TypeCorrect == Spec => []TypeOK
<1>1. IInv => TypeOK
  BY DEF IInv
<1> QED
  BY <1>1, InvariantHolds, PTL

\* The cached pointer and the assignments never disagree, and an asset never has
\* two active assignments, however requests interleave (assignment.service.ts).
THEOREM PointerNeverDrifts == Spec => []PointerAgrees
<1>1. IInv => PointerAgrees
  BY DEF IInv
<1> QED
  BY <1>1, InvariantHolds, PTL

\* The chain of custody never forks (previousAssignmentId).
THEOREM CustodyIsAChain == Spec => []ChainOfCustody
<1>1. IInv => ChainOfCustody
  BY DEF IInv
<1> QED
  BY <1>1, InvariantHolds, PTL

\* No operation rewrites custody history.
THEOREM HistoryKept == Spec => HistoryIsKept
<1> DEFINE Kept == \A i \in Ids : assignment[i].status # "none" =>
                     /\ assignment'[i].asset = assignment[i].asset
                     /\ assignment'[i].holder = assignment[i].holder
                     /\ assignment'[i].previous = assignment[i].previous
                     /\ assignment[i].status = "returned" => assignment'[i].status = "returned"
<1>1. ASSUME IInv, [Next]_vars PROVE [Kept]_vars
  <2>0. assignment \in [Ids -> Assignment]
    BY <1>1 DEF IInv, TypeOK
  <2>1. ASSUME NEW r \in Requests, NEW i \in Ids, CommitAssign(r, i) PROVE Kept
    <3>1. assignment[i].status = "none"
      BY <2>1 DEF CommitAssign, Unwritten
    <3>2. \A j \in Ids : j # i => assignment'[j] = assignment[j]
      BY <2>0, <2>1 DEF CommitAssign
    <3> QED
      BY <3>1, <3>2
  <2>2. ASSUME NEW r \in Requests, CommitReturn(r) PROVE Kept
    BY <2>0, <2>2 DEF CommitReturn, Active, Assignment
  <2>3. ASSUME NEW r \in Requests, NEW i \in Ids, CommitTransfer(r, i) PROVE Kept
    <3>1. assignment[i].status = "none"
      BY <2>3 DEF CommitTransfer, Unwritten
    <3>2. PICK j \in Active(request[r].asset) :
            assignment' = [assignment EXCEPT
                             ![j].status = "returned",
                             ![i] = NewAssignment(request[r].asset, request[r].person, j)]
      BY <2>3 DEF CommitTransfer
    <3>3. j \in Ids /\ j # i /\ assignment[j].status = "active"
      BY <3>1, <3>2 DEF Active
    <3>4. \A k \in Ids : k # i /\ k # j => assignment'[k] = assignment[k]
      BY <2>0, <3>2
    <3>5. assignment'[j] = [assignment[j] EXCEPT !.status = "returned"]
      BY <2>0, <3>2, <3>3
    <3>6. /\ assignment'[j].asset = assignment[j].asset
          /\ assignment'[j].holder = assignment[j].holder
          /\ assignment'[j].previous = assignment[j].previous
      BY <2>0, <3>3, <3>5 DEF Assignment
    <3> QED
      BY <3>1, <3>3, <3>4, <3>6
  <2>4. CASE UNCHANGED assignment
    BY <2>4
  <2>5. CASE \/ \E r \in Requests : AssetStep(r) \/ GiveUp(r)
             \/ \E a \in Assets : PurgeAsset(a)
             \/ PersonStep \/ UNCHANGED vars
    <3>1. UNCHANGED assignment
      BY <2>5 DEF AssetStep, PersonStep, GiveUp, vars, Start, StartCreate, StartDelete,
         StartRestore, StartTransition, CommitCreate, CommitTransition, CommitDelete,
         CommitRestore, StartOffboarding, DeactivatePerson, RestorePerson, PurgePerson,
         PurgeAsset, StartComplete, StartDeletePerson, CommitComplete, CommitDeletePerson
    <3> QED
      BY <3>1, <2>4
  <2>6. ASSUME NEW r \in Requests, AssignmentStep(r) PROVE Kept
    <3>1. ASSUME NEW a \in Assets, NEW p \in People,
                 StartAssign(r, a, p) \/ StartTransfer(r, a, p)
          PROVE  Kept
      BY <3>1, <2>4 DEF StartAssign, StartTransfer, Start
    <3>2. ASSUME NEW a \in Assets, StartReturn(r, a) PROVE Kept
      BY <3>2, <2>4 DEF StartReturn, Start
    <3> QED
      BY <2>6, <3>1, <3>2, <2>1, <2>2, <2>3 DEF AssignmentStep
  <2> QED
    BY <1>1, <2>5, <2>6 DEF Next
<1> QED
  BY <1>1, InvariantHolds, PTL DEF Spec, HistoryIsKept

-----------------------------------------------------------------------------
(* Custody implements the register.                                         *)

\* The holder read off the assignments is the holder the pointer leads to.
HolderByPointer ==
  \A a \in Assets :
    /\ asset[a].current = None => Active(a) = {} /\ Holder(a) = None
    /\ asset[a].current # None =>
         /\ asset[a].current \in Ids /\ assignment[asset[a].current].status = "active"
         /\ Holder(a) = assignment[asset[a].current].holder
         /\ Holder(a) \in People

\* The holder read off the assignments is the holder of the pointer's assignment.
LEMMA HolderFacts == IInv => HolderByPointer
<1> SUFFICES ASSUME IInv, NEW a \in Assets
             PROVE  /\ asset[a].current = None => Active(a) = {} /\ Holder(a) = None
                    /\ asset[a].current # None =>
                         /\ asset[a].current \in Ids
                         /\ assignment[asset[a].current].status = "active"
                         /\ Holder(a) = assignment[asset[a].current].holder
                         /\ Holder(a) \in People
  BY DEF HolderByPointer
<1>1. Active(a) = {asset[a].current} \ {None}
  BY DEF IInv, PointerAgrees, Agrees
<1>2. CASE asset[a].current = None
  BY <1>1, <1>2 DEF Holder
<1>3. CASE asset[a].current # None
  <2>1. Active(a) = {asset[a].current}
    BY <1>1, <1>3
  <2>2. (CHOOSE i \in Active(a) : TRUE) = asset[a].current
    BY <2>1
  <2>3. asset[a].current \in Ids /\ assignment[asset[a].current].status = "active"
    BY <2>1 DEF Active
  <2>4. Holder(a) = assignment[asset[a].current].holder
    BY <2>1, <2>2 DEF Holder
  <2>5. Holder(a) \in People
    BY <2>3, <2>4 DEF IInv, RecordsName
  <2> QED
    BY <1>3, <2>3, <2>4, <2>5
<1> QED
  BY <1>2, <1>3

Held == [a \in Assets |-> Holder(a)]
Listed == {a \in Assets : Live(a)}

\* The initial states map to the register's.
LEMMA InitRegister == Init => Register!Init
<1> SUFFICES ASSUME Init PROVE Register!Init
  OBVIOUS
<1>1. \A a \in Assets : Holder(a) = None /\ ~Live(a)
  BY DEF Init, Unwritten, Holder, Active, Live
<1> QED
  BY <1>1 DEF Register!Init

\* A step that writes neither assets nor assignments is invisible.
LEMMA InvisibleStep ==
  ASSUME UNCHANGED <<asset, assignment>>
  PROVE  UNCHANGED Register!vars
  BY DEF Register!vars, Holder, Active, Live

\* Adding, moving, deleting and restoring an asset leaves its holder alone.
LEMMA AssetCommitRegister ==
  ASSUME IInv, NEW r \in Requests,
         CommitCreate(r) \/ CommitTransition(r) \/ CommitDelete(r) \/ CommitRestore(r)
  PROVE  [Register!Next]_(Register!vars)
<1> DEFINE a == request[r].asset
<1>0. a \in Assets /\ asset \in [Assets -> Asset] /\ UNCHANGED assignment
  BY DEF IInv, TypeOK, RequestsCarry, AssetOps, Pending,
     CommitCreate, CommitTransition, CommitDelete, CommitRestore
<1>1. Held' = Held
  BY <1>0 DEF Held, Holder, Active
<1>2. \/ Listed' = Listed \cup {a} \/ Listed' = Listed \ {a} \/ Listed' = Listed
  <2>1. CASE CommitCreate(r)
    BY <1>0, <2>1 DEF CommitCreate, Listed, Live
  <2>2. CASE CommitTransition(r)
    <3>1. \A b \in Assets : asset'[b].row = asset[b].row
      BY <1>0, <2>2 DEF CommitTransition, Asset
    <3> QED
      BY <3>1 DEF Listed, Live
  <2>3. CASE CommitDelete(r)
    <3>1. \A b \in Assets : asset'[b].row = IF b = a THEN "deleted" ELSE asset[b].row
      BY <1>0, <2>3 DEF CommitDelete, Asset
    <3> QED
      BY <3>1 DEF Listed, Live
  <2>4. CASE CommitRestore(r)
    <3>1. \A b \in Assets : asset'[b].row = IF b = a THEN "live" ELSE asset[b].row
      BY <1>0, <2>4 DEF CommitRestore, Asset
    <3> QED
      BY <1>0, <3>1 DEF Listed, Live
  <2> QED
    BY <2>1, <2>2, <2>3, <2>4
<1>3. CASE Listed' = Listed \cup {a}
  BY <1>0, <1>1, <1>3 DEF Register!Next, Register!List, Held, Listed
<1>4. CASE Listed' = Listed \ {a}
  BY <1>0, <1>1, <1>4 DEF Register!Next, Register!Unlist, Held, Listed
<1>5. CASE Listed' = Listed
  BY <1>1, <1>5 DEF Register!vars, Held, Listed
<1> QED
  BY <1>2, <1>3, <1>4, <1>5

\* Purging is invisible: the asset was in the bin already.
LEMMA PurgeRegister ==
  ASSUME IInv, NEW a \in Assets, PurgeAsset(a)
  PROVE  UNCHANGED Register!vars
<1>0. asset \in [Assets -> Asset] /\ UNCHANGED assignment
  BY DEF IInv, TypeOK, PurgeAsset
<1>1. Held' = Held
  BY <1>0 DEF Held, Holder, Active
<1>2. \A b \in Assets : asset'[b].row = IF b = a THEN "purged" ELSE asset[b].row
  BY <1>0 DEF PurgeAsset, Asset
<1>3. Listed' = Listed
  BY <1>2 DEF PurgeAsset, Listed, Live
<1> QED
  BY <1>1, <1>3 DEF Register!vars, Held, Listed

\* Assigning is an issue of the register.
LEMMA AssignRegister ==
  ASSUME IInv, IInv', HolderByPointer, HolderByPointer',
         NEW r \in Requests, NEW i \in Ids, CommitAssign(r, i)
  PROVE  Register!Next
<1> DEFINE a == request[r].asset
           p == request[r].person
<1>0. /\ a \in Assets /\ p \in People /\ Live(a) /\ Active(a) = {}
      /\ asset \in [Assets -> Asset] /\ assignment \in [Ids -> Assignment]
      /\ assignment[i].status = "none"
  BY DEF IInv, TypeOK, RequestsCarry, AssetOps, PersonOps, Pending, CommitAssign, Unwritten
<1>1. /\ \A j \in Ids : j # i => assignment'[j] = assignment[j]
      /\ assignment'[i].holder = p
  BY <1>0 DEF CommitAssign, NewAssignment
<1>2. /\ \A b \in Assets : b # a => asset'[b] = asset[b]
      /\ asset'[a].current = i /\ asset'[a].row = asset[a].row
  BY <1>0 DEF CommitAssign, Asset
<1>3. Held[a] = None /\ Held'[a] = p
  BY <1>0, <1>1, <1>2 DEF Held, Holder, HolderByPointer
<1>4. \A b \in Assets : b # a => Held'[b] = Held[b]
  BY <1>0, <1>1, <1>2 DEF Held, HolderByPointer
<1>5. Held' = [Held EXCEPT ![a] = p]
  BY <1>0, <1>3, <1>4 DEF Held
<1>6. Listed' = Listed /\ a \in Listed
  BY <1>0, <1>2 DEF Listed, Live
<1>7. Register!Issue(a, p)
  BY <1>3, <1>5, <1>6 DEF Register!Issue, Held, Listed
<1> QED
  BY <1>0, <1>7 DEF Register!Next

\* Returning gives the asset back.
LEMMA ReturnRegister ==
  ASSUME IInv, IInv', HolderByPointer, HolderByPointer', NEW r \in Requests, CommitReturn(r)
  PROVE  Register!Next
<1> DEFINE a == request[r].asset
<1>0. /\ a \in Assets /\ Live(a)
      /\ asset \in [Assets -> Asset] /\ assignment \in [Ids -> Assignment]
  BY DEF IInv, TypeOK, RequestsCarry, AssetOps, Pending, CommitReturn
<1>1. PICK i \in Active(a) : assignment' = [assignment EXCEPT ![i].status = "returned"]
  BY DEF CommitReturn
<1>2. i \in Ids /\ assignment[i].asset = a /\ assignment[i].status = "active"
  BY <1>1 DEF Active
<1>3. \A j \in Ids : assignment'[j].holder = assignment[j].holder
  BY <1>0, <1>1, <1>2 DEF Assignment
<1>4. /\ \A b \in Assets : b # a => asset'[b] = asset[b]
      /\ asset'[a].current = None /\ asset'[a].row = asset[a].row
  BY <1>0 DEF CommitReturn, Asset
<1>5. asset[a].current # None
  BY <1>0, <1>1 DEF HolderByPointer
<1>6. Held[a] \in People /\ Held'[a] = None
  BY <1>0, <1>4, <1>5 DEF Held, HolderByPointer
<1>7. \A b \in Assets : b # a => Held'[b] = Held[b]
  BY <1>3, <1>4 DEF Held, HolderByPointer
<1>8. Held' = [Held EXCEPT ![a] = None]
  BY <1>0, <1>6, <1>7 DEF Held
<1>9. Listed' = Listed /\ a \in Listed
  BY <1>0, <1>4 DEF Listed, Live
<1>10. Register!GiveBack(a)
  BY <1>6, <1>8, <1>9 DEF Register!GiveBack, Held, Listed
<1> QED
  BY <1>0, <1>10 DEF Register!Next

\* A transfer goes from holder to holder in one step.
LEMMA TransferRegister ==
  ASSUME IInv, IInv', HolderByPointer, HolderByPointer',
         NEW r \in Requests, NEW i \in Ids, CommitTransfer(r, i)
  PROVE  Register!Next
<1> DEFINE a == request[r].asset
           p == request[r].person
<1>0. /\ a \in Assets /\ p \in People /\ Live(a)
      /\ asset \in [Assets -> Asset] /\ assignment \in [Ids -> Assignment]
      /\ assignment[i].status = "none"
  BY DEF IInv, TypeOK, RequestsCarry, AssetOps, PersonOps, Pending, CommitTransfer, Unwritten
<1>1. PICK j \in Active(a) :
        assignment' = [assignment EXCEPT ![j].status = "returned",
                                         ![i] = NewAssignment(a, p, j)]
  BY DEF CommitTransfer
<1>2. j \in Ids /\ j # i
  BY <1>0, <1>1 DEF Active
<1>3. /\ \A k \in Ids : k # i => assignment'[k].holder = assignment[k].holder
      /\ assignment'[i].holder = p
  BY <1>0, <1>1, <1>2 DEF Assignment, NewAssignment
<1>4. /\ \A b \in Assets : b # a => asset'[b] = asset[b]
      /\ asset'[a].current = i /\ asset'[a].row = asset[a].row
  BY <1>0 DEF CommitTransfer, Asset
<1>5. asset[a].current # None
  BY <1>0, <1>1 DEF HolderByPointer
<1>6. Held[a] \in People /\ Held'[a] = p
  BY <1>0, <1>3, <1>4, <1>5 DEF Held, HolderByPointer
<1>7. \A b \in Assets : b # a => Held'[b] = Held[b]
  BY <1>0, <1>3, <1>4 DEF Held, HolderByPointer
<1>8. Held' = [Held EXCEPT ![a] = p]
  BY <1>0, <1>6, <1>7 DEF Held
<1>9. Listed' = Listed /\ a \in Listed
  BY <1>0, <1>4 DEF Listed, Live
<1>10. Register!HandOver(a, p)
  BY <1>6, <1>8, <1>9 DEF Register!HandOver, Held, Listed
<1> QED
  BY <1>0, <1>10 DEF Register!Next

\* Every step maps to a step of the register or to a stutter.
LEMMA NextRegister ==
  ASSUME IInv, IInv', HolderByPointer, HolderByPointer', [Next]_vars
  PROVE  [Register!Next]_(Register!vars)
<1>1. ASSUME NEW r \in Requests, AssetStep(r) PROVE [Register!Next]_(Register!vars)
  <2>1. ASSUME UNCHANGED <<asset, assignment>> PROVE [Register!Next]_(Register!vars)
    BY <2>1, InvisibleStep
  <2> QED
    BY <1>1, <2>1, AssetCommitRegister DEF AssetStep, Start, StartCreate, StartDelete,
       StartRestore, StartTransition
<1>2. ASSUME NEW r \in Requests, AssignmentStep(r) PROVE [Register!Next]_(Register!vars)
  <2>1. ASSUME UNCHANGED <<asset, assignment>> PROVE [Register!Next]_(Register!vars)
    BY <2>1, InvisibleStep
  <2> QED
    BY <1>2, <2>1, AssignRegister, ReturnRegister, TransferRegister
       DEF AssignmentStep, Start, StartAssign, StartReturn, StartTransfer
<1>3. ASSUME \/ PersonStep \/ UNCHANGED vars \/ \E r \in Requests : GiveUp(r)
      PROVE  [Register!Next]_(Register!vars)
  <2>1. UNCHANGED <<asset, assignment>>
    BY <1>3 DEF PersonStep, vars, GiveUp, Start, StartOffboarding, DeactivatePerson,
       RestorePerson, PurgePerson, StartComplete, StartDeletePerson, CommitComplete, CommitDeletePerson
  <2> QED
    BY <2>1, InvisibleStep
<1>4. ASSUME NEW a \in Assets, PurgeAsset(a) PROVE [Register!Next]_(Register!vars)
  BY <1>4, PurgeRegister
<1> QED
  BY <1>1, <1>2, <1>3, <1>4 DEF Next

\* Requests that check early, interleave, give up and restart implement the
\* register: one holder at most, transfers without a gap, and nothing issued,
\* returned or transferred for an asset in the recycle bin.
THEOREM CustodyImplementsRegister == Spec => ImplementsRegister
<1>1. IInv' => HolderByPointer'
  BY HolderFacts, PTL
<1>2. IInv /\ IInv' /\ [Next]_vars => [Register!Next]_(Register!vars)
  BY <1>1, HolderFacts, NextRegister
<1> QED
  BY <1>2, InitRegister, InvariantHolds, PTL DEF Spec, ImplementsRegister, Register!Spec

-------------------------------------------------------------------------------
(***************************************************************************)
(* Reconciliation. Pointers may have drifted to anything, but the          *)
(* assignments have not: no asset has two active ones (OneActive). With    *)
(* that, a run that no write overlapped knows of every asset whose pointer *)
(* is wrong (RunKnows), whatever the size of the collections.              *)
(***************************************************************************)

\* No asset has two active assignments, whatever its pointer says.
OneActive == \A a \in Assets : \A i, j \in Active(a) : i = j

\* What holds of custody although pointers have drifted.
DriftInv == TypeOK /\ RequestsCarry /\ OneActive

\* What a run that no write overlapped has found and has left to do.
RunKnows ==
  /\ job.pc = "reading" => job.found = {i \in Ids : assignment[i].status = "active"}
  /\ job.pc = "repairing" =>
       \A d \in job.repairs : Live(d[1]) => Active(d[1]) = {d[2]} \ {None}
  /\ job.pc \in {"repairing", "reported"} =>
       \A a \in Assets : Live(a) => Agrees(a) \/ \E d \in job.repairs : d[1] = a
  /\ job.pc = "reported" => job.repairs = {}

ReconciliationInv == DriftInv /\ job \in Job /\ (job.alone => RunKnows)

\* A request that carries something of its type, with the collections as they were.
LEMMA CarryKeepsDrift ==
  ASSUME DriftInv, NEW r \in Requests, NEW c, Fits(c),
         request' = [request EXCEPT ![r] = c], UNCHANGED <<asset, assignment, person>>
  PROVE  DriftInv'
<1>1. TypeOK'  BY DEF DriftInv, TypeOK, Fits
<1>2. \A q \in Requests : request'[q] = IF q = r THEN c ELSE request[q]  BY DEF DriftInv, TypeOK
<1>3. RequestsCarry'  BY <1>2 DEF DriftInv, RequestsCarry, Fits
<1>4. OneActive'  BY DEF DriftInv, OneActive, Active
<1> QED  BY <1>1, <1>3, <1>4 DEF DriftInv

\* The steps that write no collection.
LEMMA StartsKeepDrift ==
  ASSUME DriftInv, NEW r \in Requests,
         \/ GiveUp(r)
         \/ \E a \in Assets :
              \/ StartReturn(r, a) \/ StartCreate(r, a) \/ StartDelete(r, a) \/ StartRestore(r, a)
              \/ \E to \in States : StartTransition(r, a, to)
              \/ \E p \in People : StartAssign(r, a, p) \/ StartTransfer(r, a, p)
         \/ \E p \in People : \/ StartDeletePerson(r, p)
                              \/ \E force \in BOOLEAN : StartComplete(r, p, force)
  PROVE  DriftInv' /\ UNCHANGED <<asset, assignment>>
<1>1. Fits(Idle)  BY IdleType DEF Fits, AssetOps, PersonOps
<1>2. ASSUME NEW a \in Assets
      PROVE  /\ \A op \in {"return", "create", "delete", "restore"} : Fits([Idle EXCEPT !.op = op, !.asset = a])
             /\ \A to \in States : Fits([Idle EXCEPT !.op = "transition", !.asset = a, !.to = to])
             /\ \A p \in People : \A op \in {"assign", "transfer"} :
                  Fits([Idle EXCEPT !.op = op, !.asset = a, !.person = p])
  <2>1. \A op \in {"return", "create", "delete", "restore"} : Fits([Idle EXCEPT !.op = op, !.asset = a])
    BY DEF Fits, Idle, Request, Operations, AssetOps, PersonOps
  <2>2. \A to \in States : Fits([Idle EXCEPT !.op = "transition", !.asset = a, !.to = to])
    BY DEF Fits, Idle, Request, Operations, AssetOps, PersonOps
  <2>3. \A p \in People : \A op \in {"assign", "transfer"} :
          Fits([Idle EXCEPT !.op = op, !.asset = a, !.person = p])
    BY DEF Fits, Idle, Request, Operations, AssetOps, PersonOps
  <2> QED  BY <2>1, <2>2, <2>3
<1>3. \A p \in People : \A op \in {"complete", "deletePerson"} :
        Fits([Idle EXCEPT !.op = op, !.person = p])
  BY DEF Fits, Idle, Request, Operations, AssetOps, PersonOps
<1>4. \E c : Fits(c) /\ request' = [request EXCEPT ![r] = c] /\ UNCHANGED <<asset, assignment, person>>
  <2>1. CASE GiveUp(r)  BY <2>1, <1>1 DEF GiveUp, Done
  <2>2. ASSUME NEW a \in Assets,
               \/ StartReturn(r, a) \/ StartCreate(r, a) \/ StartDelete(r, a) \/ StartRestore(r, a)
               \/ \E to \in States : StartTransition(r, a, to)
               \/ \E p \in People : StartAssign(r, a, p) \/ StartTransfer(r, a, p)
        PROVE  \E c : Fits(c) /\ Start(r, c)
    <3>1. CASE StartReturn(r, a)  BY <1>2, <3>1 DEF StartReturn
    <3>2. CASE StartCreate(r, a)  BY <1>2, <3>2 DEF StartCreate
    <3>3. CASE StartDelete(r, a)  BY <1>2, <3>3 DEF StartDelete
    <3>4. CASE StartRestore(r, a)  BY <1>2, <3>4 DEF StartRestore
    <3>5. ASSUME NEW to \in States, StartTransition(r, a, to) PROVE \E c : Fits(c) /\ Start(r, c)
      BY <1>2, <3>5 DEF StartTransition
    <3>6. ASSUME NEW p \in People, StartAssign(r, a, p) \/ StartTransfer(r, a, p)
          PROVE  \E c : Fits(c) /\ Start(r, c)
      <4>1. CASE StartAssign(r, a, p)  BY <1>2, <4>1 DEF StartAssign
      <4>2. CASE StartTransfer(r, a, p)  BY <1>2, <4>2 DEF StartTransfer
      <4> QED  BY <3>6, <4>1, <4>2
    <3> QED  BY <2>2, <3>1, <3>2, <3>3, <3>4, <3>5, <3>6
  <2>3. ASSUME NEW p \in People,
               StartDeletePerson(r, p) \/ \E force \in BOOLEAN : StartComplete(r, p, force)
        PROVE  \E c : Fits(c) /\ Start(r, c)
    <3>1. CASE StartDeletePerson(r, p)  BY <1>3, <3>1 DEF StartDeletePerson
    <3>2. ASSUME NEW force \in BOOLEAN, StartComplete(r, p, force) PROVE \E c : Fits(c) /\ Start(r, c)
      BY <1>3, <3>2 DEF StartComplete
    <3> QED  BY <2>3, <3>1, <3>2
  <2> QED  BY <2>1, <2>2, <2>3 DEF Start
<1> QED  BY <1>4, CarryKeepsDrift

\* What every commit does to the requests, and what it works on.
LEMMA DoneKeepsDrift ==
  ASSUME DriftInv, NEW r \in Requests, Done(r)
  PROVE  request' \in [Requests -> Request] /\ RequestsCarry'
<1>1. request' \in [Requests -> Request]  BY IdleType DEF Done, DriftInv, TypeOK
<1>2. \A q \in Requests : request'[q] = IF q = r THEN Idle ELSE request[q]
  BY DEF Done, DriftInv, TypeOK
<1> QED  BY <1>1, <1>2, IdleType DEF DriftInv, RequestsCarry, AssetOps, PersonOps

\* A write of one asset, or of people, beside the assignments.
LEMMA WritesKeepDrift ==
  ASSUME DriftInv, UNCHANGED assignment, asset' \in [Assets -> Asset], person' \in [People -> Person],
         request' \in [Requests -> Request], RequestsCarry'
  PROVE  DriftInv'
<1>1. OneActive'  BY DEF DriftInv, OneActive, Active
<1> QED  BY <1>1 DEF DriftInv, TypeOK

\* Steps on assets and people that leave the assignments alone.
LEMMA CommitsKeepDrift ==
  ASSUME DriftInv, NEW r \in Requests,
         \/ CommitCreate(r) \/ CommitTransition(r) \/ CommitDelete(r) \/ CommitRestore(r)
         \/ CommitComplete(r) \/ CommitDeletePerson(r)
  PROVE  DriftInv'
<1>0. asset \in [Assets -> Asset] /\ person \in [People -> Person]  BY DEF DriftInv, TypeOK
<1>1. Done(r) /\ UNCHANGED assignment
  BY DEF CommitCreate, CommitTransition, CommitDelete, CommitRestore, CommitComplete, CommitDeletePerson
<1>2. asset' \in [Assets -> Asset] /\ person' \in [People -> Person]
  <2>1. CASE CommitCreate(r)
    <3>1. [row |-> "live", state |-> "in_stock", current |-> None] \in Asset  BY CustodyAssumption DEF Asset
    <3> QED  BY <1>0, <2>1, <3>1 DEF CommitCreate
  <2>2. CASE CommitTransition(r)
    <3>1. request[r].to \in States /\ request[r].asset \in Assets
      BY <2>2 DEF DriftInv, RequestsCarry, CommitTransition, Pending, AssetOps
    <3>2. [asset[request[r].asset] EXCEPT !.state = request[r].to] \in Asset  BY <1>0, <3>1 DEF Asset
    <3> QED  BY <1>0, <2>2, <3>1, <3>2 DEF CommitTransition
  <2>3. CASE CommitDelete(r)  BY <1>0, <2>3 DEF CommitDelete, Asset
  <2>4. CASE CommitRestore(r)  BY <1>0, <2>4 DEF CommitRestore, Asset
  <2>5. CASE CommitComplete(r)  BY <1>0, <2>5 DEF CommitComplete, Person
  <2>6. CASE CommitDeletePerson(r)  BY <1>0, <2>6 DEF CommitDeletePerson, Person
  <2> QED  BY <2>1, <2>2, <2>3, <2>4, <2>5, <2>6
<1> QED  BY <1>1, <1>2, DoneKeepsDrift, WritesKeepDrift

\* The steps without a request.
LEMMA UnaskedKeepDrift ==
  ASSUME DriftInv,
         \/ \E a \in Assets : PurgeAsset(a)
         \/ \E p \in People : \/ StartOffboarding(p) \/ DeactivatePerson(p)
                              \/ RestorePerson(p) \/ PurgePerson(p)
  PROVE  DriftInv'
<1>1. asset' \in [Assets -> Asset] /\ person' \in [People -> Person]
      /\ UNCHANGED assignment /\ UNCHANGED request
  BY DEF DriftInv, TypeOK, Asset, Person, PurgeAsset, StartOffboarding, DeactivatePerson, RestorePerson,
     PurgePerson
<1> QED  BY <1>1, WritesKeepDrift DEF DriftInv, TypeOK, RequestsCarry

\* The commits that write an assignment leave one at most active.
LEMMA AssignmentsKeepDrift ==
  ASSUME DriftInv, NEW r \in Requests,
         CommitReturn(r) \/ \E i \in Ids : CommitAssign(r, i) \/ CommitTransfer(r, i)
  PROVE  DriftInv'
<1> DEFINE a == request[r].asset
           p == request[r].person
<1>0. /\ asset \in [Assets -> Asset] /\ assignment \in [Ids -> Assignment] /\ person' = person
      /\ Done(r) /\ Live(a) /\ a \in Assets
      /\ \A b \in Assets : Active(b) \subseteq Ids
  BY DEF DriftInv, TypeOK, RequestsCarry, AssetOps, Pending, CommitReturn, CommitAssign, CommitTransfer, Active
<1>1. request' \in [Requests -> Request] /\ RequestsCarry'  BY <1>0, DoneKeepsDrift
<1>2. ASSUME NEW f \in [Ids -> Assignment], assignment' = f,
             asset' \in [Assets -> Asset], OneActive'
      PROVE  DriftInv'
  BY <1>0, <1>1, <1>2 DEF DriftInv, TypeOK
<1>3. CASE CommitReturn(r)
  <2>1. PICK i \in Active(a) : assignment' = [assignment EXCEPT ![i].status = "returned"]
    BY <1>3 DEF CommitReturn
  <2>2. asset' \in [Assets -> Asset]  BY <1>0, <1>3 DEF CommitReturn, Asset
  <2>3. i \in Ids  BY <1>0, <2>1
  <2>4. [assignment EXCEPT ![i].status = "returned"] \in [Ids -> Assignment]
    BY <1>0, <2>3 DEF Assignment
  <2>5. \A b \in Assets : Active(b)' \subseteq Active(b)
    BY <1>0, <2>1, <2>3 DEF Active, Assignment
  <2>6. OneActive'  BY <2>5 DEF DriftInv, OneActive
  <2> QED  BY <1>2, <2>1, <2>2, <2>4, <2>6
<1>4. ASSUME NEW i \in Ids, CommitAssign(r, i) PROVE DriftInv'
  <2>1. /\ p \in People /\ Active(a) = {} /\ assignment[i] = Unwritten
        /\ assignment' = [assignment EXCEPT ![i] = NewAssignment(a, p, None)]
    BY <1>4 DEF DriftInv, RequestsCarry, PersonOps, Pending, CommitAssign
  <2>2. asset' \in [Assets -> Asset]  BY <1>0, <1>4 DEF CommitAssign, Asset
  <2>3. NewAssignment(a, p, None) \in Assignment /\ NewAssignment(a, p, None).asset = a
    BY <1>0, <2>1 DEF NewAssignment, Assignment
  <2>4. [assignment EXCEPT ![i] = NewAssignment(a, p, None)] \in [Ids -> Assignment]
    BY <1>0, <2>3
  <2>5. \A b \in Assets : Active(b)' \subseteq (IF b = a THEN {i} ELSE Active(b))
    BY <1>0, <2>1, <2>3 DEF Active
  <2>6. OneActive'  BY <2>5 DEF DriftInv, OneActive
  <2> QED  BY <1>2, <2>1, <2>2, <2>4, <2>6
<1>5. ASSUME NEW i \in Ids, CommitTransfer(r, i) PROVE DriftInv'
  <2>1. PICK j \in Active(a) :
          assignment' = [assignment EXCEPT ![j].status = "returned", ![i] = NewAssignment(a, p, j)]
    BY <1>5 DEF CommitTransfer
  <2>2. asset' \in [Assets -> Asset]  BY <1>0, <1>5 DEF CommitTransfer, Asset
  <2>3. p \in People /\ j \in Ids /\ j # i
    BY <1>0, <1>5, <2>1 DEF DriftInv, RequestsCarry, PersonOps, Pending, CommitTransfer, Active, Unwritten
  <2>4. NewAssignment(a, p, j) \in Assignment /\ NewAssignment(a, p, j).asset = a
    BY <1>0, <2>3 DEF NewAssignment, Assignment
  <2>5. PICK m \in Assignment : m = [assignment[j] EXCEPT !.status = "returned"]
    <3>1. assignment[j] \in Assignment  BY <1>0, <2>3
    <3>2. [assignment[j] EXCEPT !.status = "returned"] \in Assignment  BY <3>1 DEF Assignment
    <3> QED  BY <3>2
  <2>6. m.status = "returned"  BY <1>0, <2>3, <2>5 DEF Assignment
  <2>7. PICK n \in Assignment : n = NewAssignment(a, p, j)  BY <2>4
  <2>8. assignment' = [[assignment EXCEPT ![j] = m] EXCEPT ![i] = n]  BY <1>0, <2>1, <2>3, <2>5, <2>7
  <2>9. [[assignment EXCEPT ![j] = m] EXCEPT ![i] = n] \in [Ids -> Assignment]  BY <1>0, <2>3
  <2>10. \A k \in Ids : assignment'[k] = IF k = i THEN n ELSE IF k = j THEN m ELSE assignment[k]
    BY <1>0, <2>3, <2>8
  <2>11. \A b \in Assets : Active(b)' \subseteq (IF b = a THEN {i} \cup (Active(a) \ {j}) ELSE Active(b))
    BY <2>4, <2>6, <2>7, <2>10 DEF Active
  <2>12. Active(a) \ {j} = {}  BY <1>0, <2>1 DEF DriftInv, OneActive
  <2>13. OneActive'  BY <2>11, <2>12 DEF DriftInv, OneActive
  <2> QED  BY <1>2, <2>2, <2>8, <2>9, <2>13
<1> QED  BY <1>3, <1>4, <1>5

\* Every step of a request keeps what holds in spite of drift.
LEMMA NextKeepsDrift == DriftInv /\ Next => DriftInv'
<1> SUFFICES ASSUME DriftInv, Next PROVE DriftInv'
  OBVIOUS
<1> QED
  BY StartsKeepDrift, CommitsKeepDrift, UnaskedKeepDrift, AssignmentsKeepDrift
     DEF Next, AssignmentStep, AssetStep, PersonStep

\* What a run knows is about assets and assignments alone.
LEMMA KnowsAgain ==
  ASSUME RunKnows, UNCHANGED <<asset, assignment>>,
         job'.pc = job.pc, job'.found = job.found, job'.repairs = job.repairs
  PROVE  RunKnows'
BY DEF RunKnows, Active, Live, Agrees

\* A step of a request.
LEMMA RequestStepKeeps == ReconciliationInv /\ RequestStep => ReconciliationInv'
<1> SUFFICES ASSUME ReconciliationInv, RequestStep PROVE ReconciliationInv'
  OBVIOUS
<1>1. DriftInv'  BY NextKeepsDrift DEF ReconciliationInv, RequestStep
<1>2. PICK quiet \in BOOLEAN : quiet = UNCHANGED <<asset, assignment>>
  OBVIOUS
<1>3. job' = [job EXCEPT !.alone = job.alone /\ quiet] /\ job \in Job
  BY <1>2 DEF RequestStep, ReconciliationInv
<1>4. job' \in Job /\ job'.pc = job.pc /\ job'.found = job.found /\ job'.repairs = job.repairs
      /\ (job'.alone => job.alone /\ quiet)
  BY <1>3 DEF Job
<1>5. job'.alone => RunKnows'  BY <1>2, <1>4, KnowsAgain DEF ReconciliationInv
<1> QED  BY <1>1, <1>4, <1>5 DEF ReconciliationInv

\* A run's reads, its report and its death.
LEMMA RunReads ==
  ASSUME ReconciliationInv, ReadAssignments \/ ReadAssets \/ Report \/ JobDies
  PROVE  ReconciliationInv'
<1>0. UNCHANGED <<asset, assignment, person, request>> /\ job \in Job
  BY DEF vars, ReadAssignments, ReadAssets, Report, JobDies, ReconciliationInv
<1>1. DriftInv'
  BY <1>0 DEF ReconciliationInv, DriftInv, TypeOK, RequestsCarry, OneActive, Active
<1>2. CASE ReadAssignments
  <2>1. job' \in Job /\ job'.pc = "reading" /\ job'.found = {i \in Ids : assignment[i].status = "active"}
    BY <1>2 DEF ReadAssignments, Job
  <2>2. RunKnows'  BY <1>0, <2>1 DEF RunKnows
  <2> QED  BY <1>1, <2>1, <2>2 DEF ReconciliationInv
<1>3. CASE ReadAssets
  <2>1. /\ job' \in Job /\ job'.pc = "repairing" /\ job'.repairs = Discrepancies
        /\ job'.alone = job.alone /\ job.pc = "reading"
    BY <1>0, <1>3 DEF ReadAssets, Job, Discrepancies
  <2>2. ASSUME job.alone PROVE RunKnows'
    <3>1. \A a \in Assets : Believed(a) = Active(a)
      BY <2>1, <2>2 DEF ReconciliationInv, RunKnows, Believed, Active
    <3>2. ASSUME NEW d \in Discrepancies PROVE Active(d[1]) = {d[2]} \ {None}
      <4>1. d[1] \in Assets /\ Active(d[1]) \subseteq Ids  BY DEF Discrepancies, Active
      <4>2. IF Active(d[1]) = {} THEN d[2] = None ELSE d[2] \in Active(d[1])
        BY <3>1, <4>1 DEF Discrepancies
      <4>3. \A i, j \in Active(d[1]) : i = j  BY <4>1 DEF ReconciliationInv, DriftInv, OneActive
      <4>4. None \notin Ids  BY CustodyAssumption
      <4> QED  BY <4>1, <4>2, <4>3, <4>4
    <3>3. ASSUME NEW a \in Assets, Live(a), ~Agrees(a) PROVE \E d \in Discrepancies : d[1] = a
      <4>1. None \notin Ids /\ Active(a) \subseteq Ids  BY CustodyAssumption DEF Active
      <4>2. CASE Active(a) = {}
        <5>1. asset[a].current # None  BY <3>3, <4>2 DEF Agrees
        <5>2. <<a, None>> \in Discrepancies  BY <3>1, <3>3, <4>2, <5>1 DEF Discrepancies
        <5> QED  BY <5>2
      <4>3. CASE Active(a) # {}
        <5>1. PICK i \in Active(a) : TRUE  BY <4>3
        <5>2. Active(a) = {i}  BY <5>1 DEF ReconciliationInv, DriftInv, OneActive
        <5>3. asset[a].current # i  BY <3>3, <4>1, <5>1, <5>2 DEF Agrees
        <5>4. <<a, i>> \in Discrepancies  BY <3>1, <3>3, <4>1, <4>3, <5>1, <5>3 DEF Discrepancies
        <5> QED  BY <5>4
      <4> QED  BY <4>2, <4>3
    <3>4. \A a \in Assets : Live(a)' = Live(a) /\ Active(a)' = Active(a) /\ Agrees(a)' = Agrees(a)
      BY <1>0 DEF Live, Active, Agrees
    <3>5. \A d \in Discrepancies : d[1] \in Assets  BY DEF Discrepancies
    <3> QED  BY <2>1, <3>2, <3>3, <3>4, <3>5 DEF RunKnows
  <2> QED  BY <1>1, <2>1, <2>2 DEF ReconciliationInv
<1>4. CASE Report
  <2>1. /\ job' \in Job /\ job'.pc = "reported" /\ job.pc = "repairing" /\ job.repairs = {}
        /\ job'.alone = job.alone /\ job'.repairs = job.repairs
    BY <1>0, <1>4 DEF Report, Job
  <2>2. \A a \in Assets : Live(a)' = Live(a) /\ Agrees(a)' = Agrees(a)
    BY <1>0 DEF Live, Active, Agrees
  <2>3. job.alone => RunKnows'  BY <2>1, <2>2 DEF ReconciliationInv, RunKnows
  <2> QED  BY <1>1, <2>1, <2>3 DEF ReconciliationInv
<1>5. CASE JobDies
  <2>1. job' \in Job /\ job'.pc = "idle"  BY <1>5 DEF JobDies, Waiting, Job
  <2> QED  BY <1>1, <2>1 DEF ReconciliationInv, RunKnows
<1> QED  BY <1>2, <1>3, <1>4, <1>5

\* A repair of one asset makes its pointer right and leaves the others.
LEMMA RepairKeeps == ReconciliationInv /\ Repair => ReconciliationInv'
<1> SUFFICES ASSUME ReconciliationInv, Repair PROVE ReconciliationInv'
  OBVIOUS
<1>1. PICK d \in job.repairs :
        /\ asset' = IF Live(d[1]) THEN [asset EXCEPT ![d[1]].current = d[2]] ELSE asset
        /\ job' = [job EXCEPT !.repairs = job.repairs \ {d}]
  BY DEF Repair
<1>2. /\ job.pc = "repairing" /\ job \in Job /\ UNCHANGED <<assignment, person, request>>
      /\ asset \in [Assets -> Asset]
  BY DEF Repair, ReconciliationInv, DriftInv, TypeOK
<1>3. d[1] \in Assets /\ d[2] \in Ids \cup {None}  BY <1>1, <1>2 DEF Job
<1>4. job' \in Job /\ job'.pc = "repairing" /\ job'.repairs = job.repairs \ {d} /\ job'.alone = job.alone
  BY <1>1, <1>2 DEF Job
<1>5. PICK new \in Asset : new = [asset[d[1]] EXCEPT !.current = d[2]]  BY <1>2, <1>3 DEF Asset
<1>6. new.current = d[2] /\ new.row = asset[d[1]].row  BY <1>2, <1>3, <1>5 DEF Asset
<1>7. /\ asset' \in [Assets -> Asset]
      /\ \A a \in Assets : asset'[a] = IF a = d[1] /\ Live(a) THEN new ELSE asset[a]
  BY <1>1, <1>2, <1>3, <1>5
<1>8. DriftInv'
  BY <1>2, <1>7, WritesKeepDrift DEF ReconciliationInv, DriftInv, TypeOK, RequestsCarry
<1>9. \A a \in Assets : Live(a)' = Live(a) /\ Active(a)' = Active(a)
  BY <1>2, <1>6, <1>7 DEF Live, Active
<1>10. ASSUME job.alone PROVE RunKnows'
  <2>1. RunKnows  BY <1>10 DEF ReconciliationInv
  <2>2. \A c \in job'.repairs : c[1] \in Assets  BY <1>4 DEF Job
  <2>3. \A c \in job'.repairs : Live(c[1])' => Active(c[1])' = {c[2]} \ {None}
    BY <1>2, <1>4, <1>9, <2>1, <2>2 DEF RunKnows
  <2>4. ASSUME NEW a \in Assets, Live(a)' PROVE Agrees(a)' \/ \E c \in job'.repairs : c[1] = a
    <3>1. CASE a = d[1]
      <4>1. Active(a) = {d[2]} \ {None}  BY <1>1, <1>2, <1>9, <2>1, <2>4, <3>1 DEF RunKnows
      <4>2. asset'[a].current = d[2]  BY <1>6, <1>7, <1>9, <2>4, <3>1
      <4> QED  BY <1>9, <4>1, <4>2 DEF Agrees
    <3>2. CASE a # d[1]
      <4>1. Agrees(a)' = Agrees(a)  BY <1>7, <1>9, <3>2 DEF Agrees
      <4>2. Agrees(a) \/ \E c \in job.repairs : c[1] = a  BY <1>2, <1>9, <2>1, <2>4 DEF RunKnows
      <4> QED  BY <1>4, <3>2, <4>1, <4>2
    <3> QED  BY <3>1, <3>2
  <2> QED  BY <1>4, <2>3, <2>4 DEF RunKnows
<1> QED  BY <1>4, <1>8, <1>10 DEF ReconciliationInv

\* Wherever the pointer has drifted to, there is one active assignment at most.
LEMMA DriftedInitInv == DriftedInit => ReconciliationInv
<1> SUFFICES ASSUME DriftedInit PROVE ReconciliationInv
  OBVIOUS
<1>1. PICK i \in Ids, a \in Assets, p \in People, cached \in Ids \cup {None} :
         /\ asset = [b \in Assets |->
                       IF b = a THEN [row |-> "live", state |-> "deployed", current |-> cached]
                       ELSE [row |-> "none", state |-> "in_stock", current |-> None]]
         /\ assignment \in {[j \in Ids |-> IF j = i THEN NewAssignment(a, p, None) ELSE Unwritten],
                            [j \in Ids |-> Unwritten]}
  BY DEF DriftedInit
<1>2. asset \in [Assets -> Asset]  BY <1>1, CustodyAssumption DEF Asset
<1>3. NewAssignment(a, p, None) \in Assignment /\ Unwritten \in Assignment /\ Unwritten.status = "none"
  BY DEF NewAssignment, Unwritten, Assignment
<1>4. assignment \in [Ids -> Assignment] /\ \A j \in Ids : j # i => assignment[j].status = "none"
  BY <1>1, <1>3
<1>5. OneActive  BY <1>4 DEF OneActive, Active
<1>6. person \in [People -> Person] /\ request = [r \in Requests |-> Idle]  BY DEF DriftedInit, Person
<1>7. request \in [Requests -> Request] /\ RequestsCarry
  BY <1>6, IdleType DEF RequestsCarry, AssetOps, PersonOps
<1>8. job \in Job /\ job.pc = "idle"  BY DEF DriftedInit, Waiting, Job
<1>9. RunKnows  BY <1>8 DEF RunKnows
<1> QED  BY <1>2, <1>4, <1>5, <1>6, <1>7, <1>8, <1>9 DEF ReconciliationInv, DriftInv, TypeOK

\* The invariant is inductive.
LEMMA ReconciliationInductive == ReconciliationInv /\ [AllNext]_allVars => ReconciliationInv'
<1> SUFFICES ASSUME ReconciliationInv, [AllNext]_allVars PROVE ReconciliationInv'
  OBVIOUS
<1>1. CASE UNCHANGED allVars
  <2>1. UNCHANGED <<asset, assignment, person, request>> /\ job' = job  BY <1>1 DEF allVars
  <2>2. DriftInv'
    BY <2>1 DEF ReconciliationInv, DriftInv, TypeOK, RequestsCarry, OneActive, Active
  <2>3. job.alone => RunKnows'  BY <2>1, KnowsAgain DEF ReconciliationInv
  <2> QED  BY <2>1, <2>2, <2>3 DEF ReconciliationInv
<1> QED  BY <1>1, RequestStepKeeps, RunReads, RepairKeeps DEF AllNext, JobStep

\* Whichever pointers of an organisation had drifted and wherever to, a run of the
\* reconciliation that no request's write overlapped leaves the pointer of every listed
\* asset naming its active assignment (reconciliation.service.ts:93).
THEOREM QuietRunsRepair == DriftedSpec => []QuietRunRepairs
<1>1. ReconciliationInv => QuietRunRepairs
  BY DEF ReconciliationInv, RunKnows, QuietRunRepairs
<1> QED  BY <1>1, DriftedInitInv, ReconciliationInductive, PTL DEF DriftedSpec
=============================================================================
