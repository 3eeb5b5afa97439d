----------------------------- MODULE QuotaProofs ------------------------------
(***************************************************************************)
(* What is counted against a limit is counted right: the seats of a        *)
(* licence and of a plan, people, assets, custom fields and stored bytes,  *)
(* for any number of requests and any limit.                               *)
(***************************************************************************)
EXTENDS Licences, Memberships, Usage, Documents, TotalsProofs

-------------------------------------------------------------------------------
(***************************************************************************)
(* Licences.  The seats are safe because of two facts that every step keeps:*)
(* the count covers the live seats (CountCovers), and it stays within the  *)
(* seats that were bought (WithinSize).                                    *)
(***************************************************************************)

\* The count stays within the seats that were bought.
WithinSize == \A l \in Licenced : licence[l].seats # Unlimited => licence[l].used <= licence[l].seats

LicencesInv == TypeOK /\ CountCovers /\ WithinSize

-----------------------------------------------------------------------------
\* The live seats of a licence are finitely many.
LEMMA TakenFinite ==
  ASSUME NEW l \in Licenced
  PROVE  IsFiniteSet(Taken(l)) /\ Cardinality(Taken(l)) \in Nat
<1>1. Taken(l) \subseteq Seats  BY DEF Taken
<1>2. IsFiniteSet(Taken(l))  BY <1>1, LicencesAssumption, FS_Subset
<1> QED  BY <1>2, FS_CardinalityType

\* Every variable has its type at the start.
LEMMA LicencesInitType == Init => TypeOK
  BY LicencesAssumption DEF Init, TypeOK, Licence, Seat, Request, Idle

\* Revoking a seat lowers a count that was above zero, or none.
LEMMA RevokedType ==
  ASSUME TypeOK, NEW s \in Seats, Revoked(s)
  PROVE  licence' \in [Licenced -> Licence] /\ seat' \in [Seats -> Seat]
<1> DEFINE l == seat[s].licence
<1>1. seat' \in [Seats -> Seat]  BY DEF TypeOK, Seat, Revoked
<1>2. CASE Live(l) /\ licence[l].used > 0 /\ l \in Licenced
  <2>1. licence[l].used - 1 \in Nat  BY <1>2 DEF TypeOK, Licence
  <2>2. licence' = [licence EXCEPT ![l].used = @ - 1]  BY <1>2 DEF Revoked
  <2> QED  BY <1>1, <1>2, <2>1, <2>2 DEF TypeOK, Licence
<1>3. CASE l \notin Licenced
  <2>1. licence' = [licence EXCEPT ![l].used = @ - 1] \/ licence' = licence  BY DEF Revoked
  <2> QED  BY <1>1, <1>3, <2>1 DEF TypeOK
<1>4. CASE l \in Licenced /\ ~(Live(l) /\ licence[l].used > 0)
  <2>1. licence' = licence  BY <1>4 DEF Revoked
  <2> QED  BY <1>1, <2>1 DEF TypeOK
<1> QED  BY <1>2, <1>3, <1>4

\* A step keeps every type.
LEMMA LicencesNextType == TypeOK /\ [Next]_vars => TypeOK'
<1> SUFFICES ASSUME TypeOK, [Next]_vars PROVE TypeOK'
  OBVIOUS
<1> USE LicencesAssumption
<1>1. ASSUME NEW r \in Requests, NEW l \in Licenced, StartDelete(r, l) PROVE TypeOK'
  BY <1>1 DEF StartDelete, Start, TypeOK, Request, Idle
<1>2. ASSUME NEW r \in Requests, NEW l \in Licenced, NEW h \in Holders, StartAllocate(r, l, h)
      PROVE  TypeOK'
  BY <1>2 DEF StartAllocate, Start, TypeOK, Request, Idle
<1>3. ASSUME NEW r \in Requests, NEW l \in Licenced,
             NEW to \in (Sizes \cup {Unlimited, None}) \X {"active", "cancelled"}, StartUpdate(r, l, to)
      PROVE  TypeOK'
  <2>1. <<licence[l].seats, licence[l].status>> \in (Sizes \cup {Unlimited, None}) \X {"active", "cancelled"}
    BY DEF TypeOK, Licence
  <2> QED  BY <1>3, <2>1 DEF StartUpdate, Start, TypeOK, Request, Idle
<1>4. ASSUME NEW r \in Requests, NEW h \in Holders, StartFree(r, h) PROVE TypeOK'
  BY <1>4 DEF StartFree, Start, TypeOK, Request, Idle
<1>5. ASSUME NEW r \in Requests, NEW s \in Seats, CommitAllocate(r, s) PROVE TypeOK'
  <2>1. /\ request[r].licence \in Licenced \cup {None} /\ request[r].holder \in Holders \cup {None}
        /\ request' = [request EXCEPT ![r] = Idle]
    BY <1>5 DEF CommitAllocate, Done, TypeOK, Request
  <2>2. seat' \in [Seats -> Seat]  BY <1>5, <2>1 DEF CommitAllocate, TypeOK, Seat
  <2>3. licence' \in [Licenced -> Licence]
    <3>1. licence' = [licence EXCEPT ![request[r].licence].used = @ + 1]
      BY <1>5 DEF CommitAllocate
    <3>2. CASE request[r].licence \in Licenced
      <4>1. licence[request[r].licence].used + 1 \in Nat  BY <3>2 DEF TypeOK, Licence
      <4> QED  BY <3>1, <3>2, <4>1 DEF TypeOK, Licence
    <3>3. CASE request[r].licence \notin Licenced
      BY <3>1, <3>3 DEF TypeOK
    <3> QED  BY <3>2, <3>3
  <2>4. request' \in [Requests -> Request]  BY <2>1 DEF TypeOK, Request, Idle
  <2> QED  BY <2>2, <2>3, <2>4 DEF TypeOK
<1>6. ASSUME NEW r \in Requests, NEW s \in Seats, FreeOne(r, s) PROVE TypeOK'
  <2> DEFINE rest == request[r].todo \ {s}
  <2>1. request[r] \in Request  BY DEF TypeOK
  <2>2. rest \subseteq Seats  BY <2>1 DEF Request
  <2>3. request' \in [Requests -> Request]
    <3>1. request' = [request EXCEPT ![r] = [request[r] EXCEPT !.todo = rest]]
      BY <1>6 DEF FreeOne, TypeOK
    <3> HIDE DEF rest
    <3>2. [request[r] EXCEPT !.todo = rest] \in Request  BY <2>1, <2>2 DEF Request
    <3> QED  BY <3>1, <3>2 DEF TypeOK
  <2> QED  BY <1>6, <2>3, RevokedType DEF FreeOne, TypeOK
<1>7. ASSUME NEW r \in Requests, CommitUpdate(r) PROVE TypeOK'
  <2> DEFINE l == request[r].licence
             now == Written(request[r].was[1], request[r].to[1], licence[l].seats)
             then == Written(request[r].was[2], request[r].to[2], licence[l].status)
  <2>1. request' \in [Requests -> Request]  BY <1>7 DEF CommitUpdate, Done, TypeOK, Request, Idle
  <2>2. licence' = [licence EXCEPT ![l].seats = now, ![l].status = then]
    BY <1>7 DEF CommitUpdate
  <2>3. request[r].to[1] \in Sizes \cup {Unlimited, None} /\ request[r].to[2] \in {"active", "cancelled"}
    BY DEF TypeOK, Request
  <2>4. CASE l \in Licenced
    <3>1. now \in Sizes \cup {Unlimited} /\ then \in {"active", "cancelled"}
      BY <2>3, <2>4 DEF TypeOK, Licence, Written
    <3>2. licence' \in [Licenced -> Licence]  BY <2>2, <2>4, <3>1 DEF TypeOK, Licence
    <3> QED  BY <1>7, <2>1, <3>2 DEF CommitUpdate, TypeOK
  <2>5. CASE l \notin Licenced
    <3>1. licence' \in [Licenced -> Licence]  BY <2>2, <2>5 DEF TypeOK
    <3> QED  BY <1>7, <2>1, <3>1 DEF CommitUpdate, TypeOK
  <2> QED  BY <2>4, <2>5
<1>8. ASSUME NEW r \in Requests, CommitDelete(r) PROVE TypeOK'
  <2>1. licence' = [licence EXCEPT ![request[r].licence].row = "deleted"]
    BY <1>8 DEF CommitDelete
  <2>2. licence' \in [Licenced -> Licence]
    <3>1. CASE request[r].licence \in Licenced  BY <2>1, <3>1 DEF TypeOK, Licence
    <3>2. CASE request[r].licence \notin Licenced  BY <2>1, <3>2 DEF TypeOK
    <3> QED  BY <3>1, <3>2
  <2>3. request' \in [Requests -> Request]
    BY <1>8 DEF CommitDelete, Done, TypeOK, Request, Idle
  <2> QED  BY <1>8, <2>2, <2>3 DEF CommitDelete, TypeOK
<1>9. ASSUME NEW r \in Requests, GiveUp(r) PROVE TypeOK'
  BY <1>9 DEF GiveUp, Done, TypeOK, Request, Idle
<1>10. ASSUME NEW s \in Seats, Revoke(s) PROVE TypeOK'
  BY <1>10, RevokedType DEF Revoke, TypeOK
<1>11. ASSUME NEW l \in Licenced, Restore(l) \/ Purge(l) PROVE TypeOK'
  BY <1>11 DEF Restore, Purge, TypeOK, Licence
<1>12. CASE UNCHANGED vars
  BY <1>12 DEF vars, TypeOK
<1> QED  BY <1>1, <1>2, <1>3, <1>4, <1>5, <1>6, <1>7, <1>8, <1>9, <1>10, <1>11, <1>12
         DEF Next, RequestStep

-----------------------------------------------------------------------------
\* If no licence gets more live seats and no count is lowered, the count still covers them.
LEMMA FewerTaken ==
  ASSUME TypeOK, TypeOK', CountCovers,
         \A l \in Licenced : Taken(l)' \subseteq Taken(l) /\ licence'[l].used = licence[l].used
  PROVE  CountCovers'
<1> SUFFICES ASSUME NEW l \in Licenced PROVE Cardinality(Taken(l)') <= licence'[l].used
  BY DEF CountCovers
<1>1. IsFiniteSet(Taken(l)) /\ Cardinality(Taken(l)) \in Nat  BY TakenFinite
<1>2. Cardinality(Taken(l)') \in Nat /\ Cardinality(Taken(l)') <= Cardinality(Taken(l))
  BY <1>1, FS_Subset, FS_CardinalityType
<1>3. Cardinality(Taken(l)) <= licence[l].used /\ licence[l].used \in Nat
  BY DEF CountCovers, TypeOK, Licence
<1> QED  BY <1>1, <1>2, <1>3

\* Revoking a seat takes it from its licence, and from the count at most that one.
LEMMA RevokedCovers ==
  ASSUME TypeOK, TypeOK', CountCovers, NEW s \in Seats, Revoked(s)
  PROVE  CountCovers'
<1> DEFINE m == seat[s].licence
<1>1. \A l \in Licenced : Taken(l)' = Taken(l) \ {s}
  BY DEF Taken, Revoked, TypeOK, Seat
<1>2. CASE m \in Licenced /\ Live(m) /\ licence[m].used > 0
  <2>1. licence' = [licence EXCEPT ![m].used = @ - 1]  BY <1>2 DEF Revoked
  <2> SUFFICES ASSUME NEW l \in Licenced PROVE Cardinality(Taken(l)') <= licence'[l].used
    BY DEF CountCovers
  <2>2. Cardinality(Taken(l)) <= licence[l].used /\ licence[l].used \in Nat
    BY DEF CountCovers, TypeOK, Licence
  <2>3. IsFiniteSet(Taken(l)) /\ Cardinality(Taken(l)) \in Nat  BY TakenFinite
  <2>4. CASE l = m
    <3>1. s \in Taken(l)  BY <2>4 DEF Taken, Revoked
    <3>2. Cardinality(Taken(l)') = Cardinality(Taken(l)) - 1
      BY <1>1, <2>3, <3>1, FS_RemoveElement
    <3>3. licence'[l].used = licence[l].used - 1  BY <2>1, <2>4 DEF TypeOK, Licence
    <3> QED  BY <2>2, <2>3, <3>2, <3>3
  <2>5. CASE l # m
    <3>1. s \notin Taken(l)  BY <2>5 DEF Taken
    <3>2. Taken(l)' = Taken(l)  BY <1>1, <3>1
    <3>3. licence'[l].used = licence[l].used  BY <2>1, <2>5 DEF TypeOK
    <3> QED  BY <2>2, <3>2, <3>3
  <2> QED  BY <2>4, <2>5
<1>3. CASE m \notin Licenced
  <2>1. licence' = [licence EXCEPT ![m].used = @ - 1] \/ licence' = licence  BY DEF Revoked
  <2>2. \A l \in Licenced : licence'[l].used = licence[l].used  BY <1>3, <2>1 DEF TypeOK
  <2> QED  BY <1>1, <2>2, FewerTaken
<1>4. CASE ~(Live(m) /\ licence[m].used > 0)
  <2>1. licence' = licence  BY <1>4 DEF Revoked
  <2> QED  BY <1>1, <2>1, FewerTaken
<1> QED  BY <1>2, <1>3, <1>4

\* An allocation takes one seat and counts one.
LEMMA AllocateCovers ==
  ASSUME TypeOK, CountCovers, NEW r \in Requests, NEW s \in Seats, CommitAllocate(r, s)
  PROVE  CountCovers'
<1> DEFINE m == request[r].licence
           h == request[r].holder
<1>1. /\ licence' = [licence EXCEPT ![m].used = @ + 1]
      /\ seat' = [seat EXCEPT ![s] = [state |-> "live", licence |-> m, holder |-> h]]
      /\ seat[s].state = "none"
  BY DEF CommitAllocate
<1> SUFFICES ASSUME NEW l \in Licenced PROVE Cardinality(Taken(l)') <= licence'[l].used
  BY DEF CountCovers
<1>2. Cardinality(Taken(l)) <= licence[l].used /\ licence[l].used \in Nat
  BY DEF CountCovers, TypeOK, Licence
<1>3. IsFiniteSet(Taken(l)) /\ Cardinality(Taken(l)) \in Nat  BY TakenFinite
<1>4. s \notin Taken(l)  BY <1>1 DEF Taken
<1>5. CASE l = m
  <2>1. Taken(l)' = Taken(l) \cup {s}  BY <1>1, <1>5 DEF Taken, TypeOK
  <2>2. Cardinality(Taken(l)') = Cardinality(Taken(l)) + 1
    BY <1>3, <1>4, <2>1, FS_AddElement
  <2>3. licence'[l].used = licence[l].used + 1  BY <1>1, <1>5 DEF TypeOK, Licence
  <2> QED  BY <1>2, <1>3, <2>2, <2>3
<1>6. CASE l # m
  <2>1. Taken(l)' = Taken(l)  BY <1>1, <1>4, <1>6 DEF Taken, TypeOK
  <2>2. licence'[l].used = licence[l].used  BY <1>1, <1>6 DEF TypeOK
  <2> QED  BY <1>2, <2>1, <2>2
<1> QED  BY <1>5, <1>6

-----------------------------------------------------------------------------
\* A step keeps the count above the live seats.
LEMMA NextCovers == TypeOK /\ TypeOK' /\ CountCovers /\ [Next]_vars => CountCovers'
<1> SUFFICES ASSUME TypeOK, TypeOK', CountCovers, [Next]_vars PROVE CountCovers'
  OBVIOUS
<1> DEFINE Left == \A l \in Licenced : Taken(l)' \subseteq Taken(l) /\ licence'[l].used = licence[l].used
<1>1. Left => CountCovers'  BY FewerTaken
<1>2. UNCHANGED <<licence, seat>> => Left  BY DEF Taken
<1>3. ASSUME NEW r \in Requests, NEW s \in Seats, CommitAllocate(r, s) PROVE CountCovers'
  BY <1>3, AllocateCovers
<1>4. ASSUME NEW s \in Seats, Revoked(s) PROVE CountCovers'
  BY <1>4, RevokedCovers
<1>5. ASSUME NEW r \in Requests, CommitUpdate(r) PROVE Left
  <2> DEFINE m == request[r].licence
  <2>1. PICK seats, status : licence' = [licence EXCEPT ![m].seats = seats, ![m].status = status]
    BY <1>5, Zenon DEF CommitUpdate
  <2>2. seat' = seat  BY <1>5 DEF CommitUpdate
  <2>3. \A l \in Licenced : Taken(l)' = Taken(l)  BY <2>2 DEF Taken
  <2>4. ASSUME NEW l \in Licenced PROVE licence'[l].used = licence[l].used
    <3>1. licence[l] \in Licence /\ DOMAIN licence = Licenced  BY DEF TypeOK
    <3>2. CASE l # m  BY <2>1, <3>1, <3>2
    <3>3. CASE l = m
      <4>1. licence'[l] = [licence[l] EXCEPT !.seats = seats, !.status = status]
        BY <2>1, <3>1, <3>3
      <4> QED  BY <3>1, <4>1 DEF Licence
    <3> QED  BY <3>2, <3>3
  <2> QED  BY <2>3, <2>4
<1>6. ASSUME NEW r \in Requests, CommitDelete(r) PROVE Left
  BY <1>6 DEF CommitDelete, Taken, TypeOK, Licence
<1>7. ASSUME NEW l \in Licenced, Restore(l) \/ Purge(l) PROVE Left
  BY <1>7 DEF Restore, Purge, Taken, TypeOK, Licence
<1>8. ASSUME NEW r \in Requests, RequestStep(r) PROVE CountCovers'
  BY <1>1, <1>2, <1>3, <1>4, <1>5, <1>6, <1>8
     DEF RequestStep, StartDelete, StartAllocate, StartUpdate, StartFree, Start, GiveUp, FreeOne
<1>9. CASE UNCHANGED vars  BY <1>1, <1>2, <1>9 DEF vars
<1> QED  BY <1>1, <1>4, <1>7, <1>8, <1>9 DEF Next, Revoke

\* A step keeps the count within the seats that were bought.
LEMMA NextWithin == TypeOK /\ WithinSize /\ [Next]_vars => WithinSize'
<1> SUFFICES ASSUME TypeOK, WithinSize, [Next]_vars PROVE WithinSize'
  OBVIOUS
<1> USE LicencesAssumption
<1> DEFINE Left == \A l \in Licenced : licence'[l].seats = licence[l].seats /\ licence'[l].used = licence[l].used
<1>1. Left => WithinSize'  BY DEF WithinSize
<1>2. UNCHANGED licence => Left  OBVIOUS
<1>3. ASSUME NEW r \in Requests, NEW s \in Seats, CommitAllocate(r, s) PROVE WithinSize'
  <2> DEFINE m == request[r].licence
  <2>1. licence' = [licence EXCEPT ![m].used = @ + 1] /\ SeatFree(m)
    BY <1>3 DEF CommitAllocate
  <2> SUFFICES ASSUME NEW l \in Licenced, licence'[l].seats # Unlimited
               PROVE  licence'[l].used <= licence'[l].seats
    BY DEF WithinSize
  <2>2. CASE l = m
    <3>1. licence'[l].seats = licence[l].seats /\ licence'[l].used = licence[l].used + 1
      BY <2>1, <2>2 DEF TypeOK, Licence
    <3>2. licence[l].used < licence[l].seats  BY <2>1, <2>2, <3>1 DEF SeatFree
    <3>3. licence[l].used \in Nat /\ licence[l].seats \in Nat  BY <3>1 DEF TypeOK, Licence
    <3> QED  BY <3>1, <3>2, <3>3
  <2>3. CASE l # m
    BY <2>1, <2>3 DEF WithinSize, TypeOK, Licence
  <2> QED  BY <2>2, <2>3
<1>4. ASSUME NEW s \in Seats, Revoked(s) PROVE WithinSize'
  <2> DEFINE m == seat[s].licence
  <2>1. licence' = licence \/ (licence[m].used > 0 /\ licence' = [licence EXCEPT ![m].used = @ - 1])
    BY <1>4 DEF Revoked
  <2> SUFFICES ASSUME NEW l \in Licenced, licence'[l].seats # Unlimited
               PROVE  licence'[l].used <= licence'[l].seats
    BY DEF WithinSize
  <2>2. licence'[l].seats = licence[l].seats  BY <2>1 DEF TypeOK, Licence
  <2>3. licence[l].used \in Nat /\ licence[l].seats \in Nat /\ licence[l].used <= licence[l].seats
    BY <2>2 DEF TypeOK, Licence, WithinSize
  <2>4. licence'[l].used = licence[l].used \/ licence'[l].used = licence[l].used - 1
    BY <2>1 DEF TypeOK, Licence
  <2> QED  BY <2>2, <2>3, <2>4
<1>5. ASSUME NEW r \in Requests, CommitUpdate(r) PROVE WithinSize'
  <2> DEFINE m == request[r].licence
             now == Written(request[r].was[1], request[r].to[1], licence[m].seats)
             then == Written(request[r].was[2], request[r].to[2], licence[m].status)
  <2>1. licence' = [licence EXCEPT ![m].seats = now, ![m].status = then] /\ Fits(m, request[r].to[1])
    BY <1>5 DEF CommitUpdate
  <2>2. request[r].to[1] \in Sizes \cup {Unlimited, None}  BY DEF TypeOK, Request
  <2> SUFFICES ASSUME NEW l \in Licenced, licence'[l].seats # Unlimited
               PROVE  licence'[l].used <= licence'[l].seats
    BY DEF WithinSize
  <2>3. CASE l = m
    <3>1. licence'[l].seats = now /\ licence'[l].used = licence[l].used
      BY <2>1, <2>3 DEF TypeOK, Licence
    <3>2. now = licence[l].seats \/ (now = request[r].to[1] /\ request[r].to[1] # None)
      BY <2>3 DEF Written
    <3> QED  BY <2>1, <2>2, <2>3, <3>1, <3>2 DEF WithinSize, Fits
  <2>4. CASE l # m
    BY <2>1, <2>4 DEF WithinSize, TypeOK, Licence
  <2> QED  BY <2>3, <2>4
<1>6. ASSUME NEW r \in Requests, CommitDelete(r) PROVE Left
  BY <1>6 DEF CommitDelete, TypeOK, Licence
<1>7. ASSUME NEW l \in Licenced, Restore(l) \/ Purge(l) PROVE Left
  BY <1>7 DEF Restore, Purge, TypeOK, Licence
<1>8. ASSUME NEW r \in Requests, RequestStep(r) PROVE WithinSize'
  BY <1>1, <1>2, <1>3, <1>4, <1>5, <1>6, <1>8
     DEF RequestStep, StartDelete, StartAllocate, StartUpdate, StartFree, Start, GiveUp, FreeOne
<1>9. CASE UNCHANGED vars  BY <1>1, <1>2, <1>9 DEF vars
<1> QED  BY <1>1, <1>4, <1>7, <1>8, <1>9 DEF Next, Revoke

\* No licence has a seat when the requests begin.
LEMMA LicencesInitInv == Init => LicencesInv
<1> SUFFICES ASSUME Init PROVE LicencesInv
  OBVIOUS
<1>1. TypeOK  BY LicencesInitType
<1>2. \A l \in Licenced : Taken(l) = {}  BY DEF Init, Taken
<1>3. \A l \in Licenced : licence[l].used = 0  BY DEF Init
<1>4. CountCovers  BY <1>2, <1>3, FS_EmptySet DEF CountCovers
<1>5. WithinSize
  <2> SUFFICES ASSUME NEW l \in Licenced, licence[l].seats # Unlimited
               PROVE  licence[l].used <= licence[l].seats
    BY DEF WithinSize
  <2>1. licence[l].seats \in Nat  BY <1>1, LicencesAssumption DEF TypeOK, Licence
  <2> QED  BY <1>3, <2>1
<1> QED  BY <1>1, <1>4, <1>5 DEF LicencesInv

\* The invariant is inductive.
LEMMA LicencesInductive == LicencesInv /\ [Next]_vars => LicencesInv'
  BY LicencesNextType, NextCovers, NextWithin DEF LicencesInv

\* Every variable keeps its type (licence.model.ts).
THEOREM TypeCorrect == Spec => []TypeOK
<1>1. Init => TypeOK  BY LicencesInitType
<1>2. TypeOK /\ [Next]_vars => TypeOK'  BY LicencesNextType
<1> QED  BY <1>1, <1>2, PTL DEF Spec

\* The count of a licence never runs below its live seats, whatever allocations,
\* revocations, deletions and restores overlap.
THEOREM CountCoversSeats == Spec => []CountCovers
<1>1. LicencesInv => CountCovers  BY DEF LicencesInv
<1> QED  BY <1>1, LicencesInitInv, LicencesInductive, PTL DEF Spec

\* "Never eleven people on a ten-seat licence": the live seats of a licence never
\* exceed those that were bought, however allocations and reductions race.
THEOREM SeatsNeverOverAllocated == Spec => []NoOverAllocation
<1>1. LicencesInv => NoOverAllocation
  <2> SUFFICES ASSUME LicencesInv, NEW l \in Licenced, licence[l].seats # Unlimited
               PROVE  Cardinality(Taken(l)) <= licence[l].seats
    BY DEF NoOverAllocation
  <2>1. Cardinality(Taken(l)) \in Nat  BY TakenFinite
  <2>2. licence[l].used \in Nat /\ licence[l].seats \in Nat
    BY LicencesAssumption DEF LicencesInv, TypeOK, Licence
  <2> QED  BY <2>1, <2>2 DEF LicencesInv, CountCovers, WithinSize
<1> QED  BY <1>1, LicencesInitInv, LicencesInductive, PTL DEF Spec

-------------------------------------------------------------------------------
(***************************************************************************)
(* Memberships.  A seat is free when a request finds it free, and the seats*)
(* taken are those of members, of open invitations and of requests that are*)
(* to write one (SeatsCounted): as long as nothing was written from a read *)
(* that another request had overtaken, the last seat is given once.        *)
(***************************************************************************)

CallsTo(op) == {c \in Callers : call[c].op = op}

\* A request that changes a role found a member who may be edited once more.
EditsLeft ==
  \A c \in Callers : call[c].op \in {"setRole", "saveRole"} => call[c].edits < MaxEdits

\* Whom a request is to change, it found; no membership is ever removed.
TargetsFound ==
  \A c \in Callers : call[c].op \in {"setRole", "saveRole", "suspend"} => call[c].on \in Members

\* Whoever is to step down, another owner stays.
OthersStay ==
  \A c \in Callers :
    (call[c].op = "suspend" \/ (call[c].op = "saveRole" /\ call[c].role = "member")) =>
       call[c].others # {}

\* Whoever has passed the check of the seats was told of a free one.
SeatsWereFree ==
  \A c \in Callers : call[c].op \in {"invite", "countSeat"} => call[c].seats + 1 <= SeatLimit

\* Members and open invitations hold a seat that is counted, or is about to be.
SeatsCounted ==
  Cardinality(Members) + Cardinality(Open) + Cardinality(CallsTo("releaseSeat"))
    <= seatsUsed + Cardinality(CallsTo("countSeat")) + Cardinality(CallsTo("accept"))

MembershipsInv ==
  /\ MembershipsTypeOK /\ EditsLeft /\ TargetsFound
  /\ ~slipped => ActiveOwners # {} /\ OthersStay
  /\ SeatsWereFree
  /\ ~slipped => SeatsCounted /\ seatsUsed <= SeatLimit

-----------------------------------------------------------------------------
\* What a call carries, by what it is about to do.
LEMMA MemberCallTypes ==
  ASSUME MembershipsTypeOK, NEW c \in Callers
  PROVE  /\ call[c].op \in {"invite", "countSeat"} => call[c].seats \in Int
         /\ call[c].op \in {"accept", "revoke", "resend", "join"} => call[c].on \in Invitations
         /\ call[c].op = "join" => call[c].email \in Users
         /\ call[c].op \in {"setRole", "saveRole"} =>
              /\ call[c].on \in Users /\ call[c].role \in {"owner", "member"}
              /\ call[c].edits \in 0..MaxEdits
         /\ call[c].op = "suspend" => call[c].on \in Users
<1>1. call[c] \in Call  BY DEF MembershipsTypeOK
<1> QED  BY <1>1 DEF Call

\* Members, open invitations and the requests of one kind can be counted.
LEMMA SeatSetsFinite ==
  ASSUME MembershipsTypeOK
  PROVE  /\ IsFiniteSet(Members) /\ Cardinality(Members) \in Nat
         /\ IsFiniteSet(Open) /\ Cardinality(Open) \in Nat
         /\ \A op : IsFiniteSet(CallsTo(op)) /\ Cardinality(CallsTo(op)) \in Nat
<1>1. IsFiniteSet(Members) /\ IsFiniteSet(Open)
  BY MembershipsAssumption, FS_Subset DEF Members, Open, Kept
<1>2. ASSUME NEW op PROVE IsFiniteSet(CallsTo(op))
  BY MembershipsAssumption, FS_Subset DEF CallsTo
<1> QED  BY <1>1, <1>2, FS_CardinalityType

\* How many requests are at a point, before and after a call of one of them.
LEMMA TurnCounts ==
  ASSUME MembershipsTypeOK, NEW c \in Callers, NEW t, Turn(c, t), NEW op
  PROVE  Cardinality(CallsTo(op)') =
           Cardinality(CallsTo(op)) + (IF t.op = op THEN 1 ELSE 0) - (IF call[c].op = op THEN 1 ELSE 0)
<1>1. \A q \in Callers : call'[q] = IF q = c THEN t ELSE call[q]  BY DEF Turn, MembershipsTypeOK
<1>2. IsFiniteSet(CallsTo(op)) /\ Cardinality(CallsTo(op)) \in Nat  BY SeatSetsFinite
<1>3. c \in CallsTo(op) <=> call[c].op = op  BY DEF CallsTo
<1>4. CASE t.op = op
  <2>1. CallsTo(op)' = CallsTo(op) \cup {c}  BY <1>1, <1>4 DEF CallsTo
  <2>2. Cardinality(CallsTo(op) \cup {c}) =
          IF c \in CallsTo(op) THEN Cardinality(CallsTo(op)) ELSE Cardinality(CallsTo(op)) + 1
    BY <1>2, FS_AddElement
  <2> QED  BY <1>2, <1>3, <1>4, <2>1, <2>2
<1>5. CASE t.op # op
  <2>1. CallsTo(op)' = CallsTo(op) \ {c}  BY <1>1, <1>5 DEF CallsTo
  <2>2. Cardinality(CallsTo(op) \ {c}) =
          IF c \in CallsTo(op) THEN Cardinality(CallsTo(op)) - 1 ELSE Cardinality(CallsTo(op))
    BY <1>2, FS_RemoveElement
  <2> QED  BY <1>2, <1>3, <1>5, <2>1, <2>2
<1> QED  BY <1>4, <1>5

\* An invitation that is written holds a seat from now on, or no longer.
LEMMA OpenCounts ==
  ASSUME MembershipsTypeOK, NEW i \in Invitations, NEW x \in Invitation \cup {NoRow, Removed},
         invitation' = [invitation EXCEPT ![i] = x]
  PROVE  /\ invitation' \in [Invitations -> Invitation \cup {NoRow, Removed}]
         /\ Cardinality(Open') = Cardinality(Open)
              + (IF x \notin {NoRow, Removed} /\ ~x.accepted /\ ~x.revoked THEN 1 ELSE 0)
              - (IF i \in Open THEN 1 ELSE 0)
<1> DEFINE In == x \notin {NoRow, Removed} /\ ~x.accepted /\ ~x.revoked
<1>1. \A j \in Invitations : invitation'[j] = IF j = i THEN x ELSE invitation[j]
  BY DEF MembershipsTypeOK
<1>2. IsFiniteSet(Open) /\ Cardinality(Open) \in Nat  BY SeatSetsFinite
<1>3. Open' = IF In THEN Open \cup {i} ELSE Open \ {i}  BY <1>1 DEF Open, Kept
<1>4. Cardinality(Open \cup {i}) = IF i \in Open THEN Cardinality(Open) ELSE Cardinality(Open) + 1
  BY <1>2, FS_AddElement
<1>5. Cardinality(Open \ {i}) = IF i \in Open THEN Cardinality(Open) - 1 ELSE Cardinality(Open)
  BY <1>2, FS_RemoveElement
<1>6. invitation' \in [Invitations -> Invitation \cup {NoRow, Removed}]  BY DEF MembershipsTypeOK
<1> QED  BY <1>2, <1>3, <1>4, <1>5, <1>6

\* What holds of every request but c holds of c too.
LEMMA TurnKeeps ==
  ASSUME MembershipsInv, NEW c \in Callers, NEW t \in Call, Turn(c, t),
         t.op \in {"setRole", "saveRole"} => t.edits < MaxEdits,
         (~slipped /\ (t.op = "suspend" \/ (t.op = "saveRole" /\ t.role = "member"))) => t.others # {},
         t.op \in {"invite", "countSeat"} => t.seats + 1 <= SeatLimit,
         Members \subseteq Members',
         t.op \in {"setRole", "saveRole", "suspend"} => t.on \in Members
  PROVE  /\ call' \in [Callers -> Call] /\ EditsLeft' /\ TargetsFound' /\ SeatsWereFree'
         /\ ~slipped => OthersStay'
<1>1. call' \in [Callers -> Call]  BY DEF MembershipsInv, MembershipsTypeOK, Turn
<1>2. \A q \in Callers : call'[q] = IF q = c THEN t ELSE call[q]
  BY DEF MembershipsInv, MembershipsTypeOK, Turn
<1>3. EditsLeft'  BY <1>2 DEF MembershipsInv, EditsLeft
<1>4. SeatsWereFree'  BY <1>2 DEF MembershipsInv, SeatsWereFree
<1>5. ~slipped => OthersStay'  BY <1>2 DEF MembershipsInv, OthersStay
<1>6. TargetsFound'  BY <1>2 DEF MembershipsInv, TargetsFound
<1> QED  BY <1>1, <1>3, <1>4, <1>5, <1>6

\* A request that ends leaves the others as they were.
LEMMA NoTurnKeeps ==
  ASSUME MembershipsInv, NEW c \in Callers, Turn(c, NoCall), Members \subseteq Members'
  PROVE  /\ call' \in [Callers -> Call] /\ EditsLeft' /\ TargetsFound' /\ SeatsWereFree'
         /\ ~slipped => OthersStay'
<1>1. NoCall \in Call /\ NoCall.op = "none"  BY DEF NoCall, Call
<1> QED  BY <1>1, TurnKeeps

\* The balance of the seats, after a call of c that moves it by the numbers given.
LEMMA SeatsBalance ==
  ASSUME MembershipsInv, NEW c \in Callers, NEW t, Turn(c, t), ~slipped,
         NEW m \in Int, NEW o \in Int, NEW s \in Int,
         Cardinality(Members') = Cardinality(Members) + m,
         Cardinality(Open') = Cardinality(Open) + o, seatsUsed' = seatsUsed + s,
         m + o + (IF t.op = "releaseSeat" THEN 1 ELSE 0) - (IF call[c].op = "releaseSeat" THEN 1 ELSE 0)
           <= s + (IF t.op = "countSeat" THEN 1 ELSE 0) - (IF call[c].op = "countSeat" THEN 1 ELSE 0)
                + (IF t.op = "accept" THEN 1 ELSE 0) - (IF call[c].op = "accept" THEN 1 ELSE 0)
  PROVE  SeatsCounted'
<1>0. MembershipsTypeOK /\ seatsUsed \in Int /\ SeatsCounted  BY DEF MembershipsInv, MembershipsTypeOK
<1>1. /\ Cardinality(Members) \in Nat /\ Cardinality(Open) \in Nat
      /\ Cardinality(CallsTo("releaseSeat")) \in Nat /\ Cardinality(CallsTo("countSeat")) \in Nat
      /\ Cardinality(CallsTo("accept")) \in Nat
  BY <1>0, SeatSetsFinite
<1>2. Cardinality(CallsTo("releaseSeat")') =
           Cardinality(CallsTo("releaseSeat")) + (IF t.op = "releaseSeat" THEN 1 ELSE 0)
             - (IF call[c].op = "releaseSeat" THEN 1 ELSE 0)
  BY <1>0, TurnCounts
<1>3. Cardinality(CallsTo("countSeat")') =
           Cardinality(CallsTo("countSeat")) + (IF t.op = "countSeat" THEN 1 ELSE 0)
             - (IF call[c].op = "countSeat" THEN 1 ELSE 0)
  BY <1>0, TurnCounts
<1>4. Cardinality(CallsTo("accept")') =
           Cardinality(CallsTo("accept")) + (IF t.op = "accept" THEN 1 ELSE 0)
             - (IF call[c].op = "accept" THEN 1 ELSE 0)
  BY <1>0, TurnCounts
<1>5. SeatsCounted' =
        ((Cardinality(Members') + Cardinality(Open') + Cardinality(CallsTo("releaseSeat")'))
           <= seatsUsed' + Cardinality(CallsTo("countSeat")') + Cardinality(CallsTo("accept")'))
  BY DEF SeatsCounted
<1> QED  BY <1>0, <1>1, <1>2, <1>3, <1>4, <1>5 DEF SeatsCounted
\* The types, from the invariant.
LEMMA MembershipTypes ==
  ASSUME MembershipsInv
  PROVE  /\ MembershipsTypeOK /\ seatsUsed \in Int /\ slipped \in BOOLEAN
         /\ NoCall \in Call /\ NoCall.op = "none"
BY DEF MembershipsInv, MembershipsTypeOK, NoCall, Call

\* A call that only reads, or is told of a seat.
LEMMA ReadKeepsMemberships ==
  ASSUME MembershipsInv, NEW c \in Callers,
         \/ AssertSeat(c) \/ CheckOwnersForRole(c) \/ \E u \in Users : CheckOwnersForSuspend(c, u)
         \/ \E i \in Invitations : FindInvitation(c, i)
         \/ \E u \in Users, role \in {"owner", "member"} : FindForRole(c, u, role)
  PROVE  MembershipsInv'
<1>0. MembershipsTypeOK  BY DEF MembershipsInv
<1>1. ASSUME NEW t \in Call, Turn(c, t), t.op \notin {"countSeat", "accept", "releaseSeat"},
             call[c].op \notin {"countSeat", "accept", "releaseSeat"},
             t.op \in {"setRole", "saveRole"} => t.edits < MaxEdits,
             (~slipped /\ (t.op = "suspend" \/ (t.op = "saveRole" /\ t.role = "member"))) => t.others # {},
             t.op = "invite" => t.seats + 1 <= SeatLimit,
             t.op \in {"setRole", "saveRole", "suspend"} => t.on \in Members,
             UNCHANGED <<membership, invitation, seatsUsed, slipped>>
      PROVE  MembershipsInv'
  <2>0. Members' = Members  BY <1>1 DEF Members
  <2>1. /\ call' \in [Callers -> Call] /\ EditsLeft' /\ TargetsFound' /\ SeatsWereFree'
        /\ ~slipped => OthersStay'
    BY <1>1, <2>0, TurnKeeps
  <2>2. MembershipsTypeOK'  BY <1>0, <1>1, <2>1 DEF MembershipsTypeOK
  <2>3. Members' = Members /\ Open' = Open /\ ActiveOwners' = ActiveOwners
    BY <1>1 DEF Members, Open, Kept, ActiveOwners
  <2>4. ASSUME ~slipped PROVE SeatsCounted'
    <3>1. /\ Cardinality(Members') = Cardinality(Members) + 0
          /\ Cardinality(Open') = Cardinality(Open) + 0 /\ seatsUsed' = seatsUsed + 0
      BY <1>0, <1>1, <2>3, SeatSetsFinite DEF MembershipsTypeOK
    <3>2. 0 + 0 + (IF t.op = "releaseSeat" THEN 1 ELSE 0) - (IF call[c].op = "releaseSeat" THEN 1 ELSE 0)
            <= 0 + (IF t.op = "countSeat" THEN 1 ELSE 0) - (IF call[c].op = "countSeat" THEN 1 ELSE 0)
                 + (IF t.op = "accept" THEN 1 ELSE 0) - (IF call[c].op = "accept" THEN 1 ELSE 0)
      BY <1>1
    <3>3. 0 \in Int  OBVIOUS
    <3>4. Turn(c, t)  BY <1>1
    <3> QED  BY ONLY MembershipsInv, c \in Callers, <2>4, <3>1, <3>2, <3>3, <3>4, SeatsBalance
  <2> QED  BY <1>1, <2>1, <2>2, <2>3, <2>4 DEF MembershipsInv
<1>2. ASSUME AssertSeat(c) PROVE MembershipsInv'
  <2> DEFINE t == [op |-> "invite", seats |-> seatsUsed]
  <2>1. t \in Call /\ t.op = "invite" /\ t.seats = seatsUsed  BY MembershipTypes DEF Call
  <2>2. Turn(c, t)  BY <1>2 DEF AssertSeat
  <2> HIDE DEF t
  <2> QED  BY <1>1, <1>2, <2>1, <2>2, MembershipTypes DEF AssertSeat, Free
<1>3. ASSUME CheckOwnersForRole(c) PROVE MembershipsInv'
  <2> DEFINE o == call[c]
             t == [op |-> "saveRole", on |-> o.on, role |-> o.role, edits |-> o.edits,
                   others |-> OtherOwners(o.on)]
  <2>1. o.on \in Users /\ o.role \in {"owner", "member"} /\ o.edits \in 0..MaxEdits /\ o.edits < MaxEdits
    BY <1>0, <1>3, MemberCallTypes DEF CheckOwnersForRole, MembershipsInv, EditsLeft
  <2>6. o.on \in Members  BY <1>3 DEF CheckOwnersForRole, MembershipsInv, TargetsFound
  <2>2. t \in Call  BY <2>1 DEF Call, OtherOwners, ActiveOwners, Members
  <2>3. (~slipped /\ o.role = "member") => OtherOwners(o.on) # {}
    BY <1>3 DEF CheckOwnersForRole, NotLastOwner, OtherOwners, ActiveOwners, MembershipsInv
  <2>4. t.op = "saveRole" /\ t.edits = o.edits /\ t.role = o.role /\ t.others = OtherOwners(o.on) /\ t.on = o.on  OBVIOUS
  <2>5. Turn(c, t) /\ o.op = "setRole" /\ UNCHANGED <<membership, invitation, seatsUsed, slipped>>
    BY <1>3 DEF CheckOwnersForRole
  <2> HIDE DEF t
  <2> QED  BY <1>1, <2>1, <2>2, <2>3, <2>4, <2>5, <2>6
<1>4. ASSUME NEW u \in Users, CheckOwnersForSuspend(c, u) PROVE MembershipsInv'
  <2> DEFINE t == [op |-> "suspend", on |-> u, others |-> OtherOwners(u)]
  <2>1. t \in Call  BY DEF Call, OtherOwners, ActiveOwners, Members
  <2>2. ~slipped => OtherOwners(u) # {}
    BY <1>4 DEF CheckOwnersForSuspend, NotLastOwner, OtherOwners, ActiveOwners, MembershipsInv
  <2>3. t.op = "suspend" /\ t.others = OtherOwners(u) /\ t.on = u  OBVIOUS
  <2>4. u \in Members /\ Turn(c, t) /\ call[c] = NoCall /\ UNCHANGED <<membership, invitation, seatsUsed, slipped>>
    BY <1>4 DEF CheckOwnersForSuspend, Free
  <2> HIDE DEF t
  <2> QED  BY <1>1, <2>1, <2>2, <2>3, <2>4, MembershipTypes
<1>5. ASSUME NEW i \in Invitations, FindInvitation(c, i) PROVE MembershipsInv'
  <2>1. call[c] = NoCall /\ UNCHANGED <<membership, invitation, seatsUsed, slipped>>
    BY <1>5 DEF FindInvitation, Free
  <2>2. PICK t \in Call : Turn(c, t) /\ t.op \in {"join", "revoke", "resend"}
    <3>1. /\ [op |-> "revoke", on |-> i] \in Call /\ [op |-> "resend", on |-> i] \in Call
          /\ i \in Open => [op |-> "join", on |-> i, email |-> invitation[i].email] \in Call
      BY <1>0 DEF Call, MembershipsTypeOK, Open, Kept, Invitation
    <3> QED  BY <1>5, <3>1 DEF FindInvitation
  <2> QED  BY <1>1, <2>1, <2>2, MembershipTypes
<1>6. ASSUME NEW u \in Users, NEW role \in {"owner", "member"}, FindForRole(c, u, role)
      PROVE  MembershipsInv'
  <2> DEFINE t == [op |-> "setRole", on |-> u, role |-> role, edits |-> membership[u].edits]
  <2>1. membership[u].edits \in 0..MaxEdits /\ membership[u].edits < MaxEdits
    BY <1>0, <1>6 DEF FindForRole, Members, MembershipsTypeOK, Membership
  <2>2. t \in Call /\ t.op = "setRole" /\ t.edits = membership[u].edits /\ t.on = u  BY <2>1 DEF Call
  <2>3. u \in Members /\ Turn(c, t) /\ call[c] = NoCall /\ UNCHANGED <<membership, invitation, seatsUsed, slipped>>
    BY <1>6 DEF FindForRole, Free
  <2> HIDE DEF t
  <2> QED  BY <1>1, <2>1, <2>2, <2>3, MembershipTypes
<1> QED  BY <1>2, <1>3, <1>4, <1>5, <1>6

\* A call that writes an invitation or the counter of the seats.
LEMMA InvitationStepKeeps ==
  ASSUME MembershipsInv, NEW c \in Callers,
         \/ CountSeat(c) \/ MarkAccepted(c) \/ ResendInvitation(c) \/ RevokeInvitation(c)
         \/ ReleaseSeat(c) \/ CallEnds(c)
         \/ \E i \in Invitations, u \in Users : InviteMember(c, i, u)
  PROVE  MembershipsInv'
<1> DEFINE o == call[c]
<1>0. /\ MembershipsTypeOK /\ seatsUsed \in Int /\ slipped \in BOOLEAN
      /\ NoCall \in Call /\ NoCall.op = "none"
      /\ Cardinality(Open) \in Nat /\ Cardinality(Members) \in Nat
  BY MembershipTypes, SeatSetsFinite
<1>1. ASSUME NEW t \in Call, Turn(c, t), t.op \in {"none", "countSeat", "releaseSeat"},
             t.op = "countSeat" => t.seats + 1 <= SeatLimit,
             UNCHANGED membership, slipped' \in BOOLEAN,
             invitation' \in [Invitations -> Invitation \cup {NoRow, Removed}],
             NEW n \in Int, Cardinality(Open') = Cardinality(Open) + n,
             NEW s \in Int, seatsUsed' = seatsUsed + s,
             ~slipped' =>
               /\ ~slipped /\ seatsUsed' <= SeatLimit
               /\ n + (IF t.op = "releaseSeat" THEN 1 ELSE 0) - (IF o.op = "releaseSeat" THEN 1 ELSE 0)
                    <= s + (IF t.op = "countSeat" THEN 1 ELSE 0) - (IF o.op = "countSeat" THEN 1 ELSE 0)
                         - (IF o.op = "accept" THEN 1 ELSE 0)
      PROVE  MembershipsInv'
  <2>0. Members' = Members  BY <1>1 DEF Members
  <2>1. /\ call' \in [Callers -> Call] /\ EditsLeft' /\ TargetsFound' /\ SeatsWereFree'
        /\ ~slipped => OthersStay'
    BY <1>1, <2>0, TurnKeeps
  <2>2. MembershipsTypeOK'  BY <1>0, <1>1, <2>1 DEF MembershipsTypeOK
  <2>3. Members' = Members /\ ActiveOwners' = ActiveOwners  BY <1>1 DEF Members, ActiveOwners
  <2>4. ASSUME ~slipped' PROVE SeatsCounted'
    <3>1. Cardinality(Members') = Cardinality(Members) + 0  BY <1>0, <2>3
    <3>2. 0 + n + (IF t.op = "releaseSeat" THEN 1 ELSE 0) - (IF call[c].op = "releaseSeat" THEN 1 ELSE 0)
           <= s + (IF t.op = "countSeat" THEN 1 ELSE 0) - (IF call[c].op = "countSeat" THEN 1 ELSE 0)
                + (IF t.op = "accept" THEN 1 ELSE 0) - (IF call[c].op = "accept" THEN 1 ELSE 0)
      BY <1>1, <2>4
    <3> QED  BY <1>1, <2>4, <3>1, <3>2, SeatsBalance
  <2> QED  BY <1>1, <2>1, <2>2, <2>3, <2>4 DEF MembershipsInv
<1>2. ASSUME CountSeat(c) PROVE MembershipsInv'
  <2>1. o.seats \in Int /\ o.seats + 1 <= SeatLimit /\ o.op = "countSeat"
    BY <1>0, <1>2, MemberCallTypes DEF CountSeat, MembershipsInv, SeatsWereFree
  <2>2. Turn(c, NoCall) /\ UNCHANGED <<membership, invitation>> /\ seatsUsed' = seatsUsed + 1
    BY <1>2 DEF CountSeat
  <2>3. slipped' \in BOOLEAN /\ (~slipped' => ~slipped /\ seatsUsed <= o.seats)
    <3>1. slipped' = (slipped \/ seatsUsed > o.seats)  BY <1>2 DEF CountSeat
    <3>2. ~(seatsUsed > o.seats) => seatsUsed <= o.seats  BY <1>0, <2>1
    <3> QED  BY <3>1, <3>2
  <2>4. Open' = Open  BY <2>2 DEF Open, Kept
  <2>5. Cardinality(Open') = Cardinality(Open) + 0 /\ 0 \in Int /\ 1 \in Int  BY <1>0, <2>4
  <2>6. ~slipped' => seatsUsed' <= SeatLimit  BY <1>0, <2>1, <2>2, <2>3, MembershipsAssumption
  <2>7. invitation' \in [Invitations -> Invitation \cup {NoRow, Removed}] /\ seatsUsed' \in Int
    BY <1>0, <2>2 DEF MembershipsTypeOK
  <2>8. 0 + (IF NoCall.op = "releaseSeat" THEN 1 ELSE 0) - (IF o.op = "releaseSeat" THEN 1 ELSE 0)
          <= 1 + (IF NoCall.op = "countSeat" THEN 1 ELSE 0) - (IF o.op = "countSeat" THEN 1 ELSE 0)
               - (IF o.op = "accept" THEN 1 ELSE 0)
    BY <1>0, <2>1, <2>2
  <2> QED  BY <1>0, <1>1, <2>2, <2>3, <2>5, <2>6, <2>7, <2>8
<1>3. ASSUME ReleaseSeat(c) PROVE MembershipsInv'
  <2>2. /\ Turn(c, NoCall) /\ UNCHANGED <<membership, invitation, slipped>> /\ seatsUsed' = seatsUsed + -1
        /\ o.op = "releaseSeat"
    BY <1>3 DEF ReleaseSeat
  <2>4. Open' = Open  BY <2>2 DEF Open, Kept
  <2>5. Cardinality(Open') = Cardinality(Open) + 0  BY <1>0, <2>4
  <2>6. ~slipped' => seatsUsed' <= SeatLimit
    <3>1. ~slipped' => seatsUsed <= SeatLimit  BY <2>2 DEF MembershipsInv
    <3> QED  BY <1>0, <2>2, <3>1, MembershipsAssumption
  <2>7. invitation' \in [Invitations -> Invitation \cup {NoRow, Removed}] /\ seatsUsed' \in Int
    BY <1>0, <2>2 DEF MembershipsTypeOK
  <2>8. 0 + (IF NoCall.op = "releaseSeat" THEN 1 ELSE 0) - (IF o.op = "releaseSeat" THEN 1 ELSE 0)
          <= -1 + (IF NoCall.op = "countSeat" THEN 1 ELSE 0) - (IF o.op = "countSeat" THEN 1 ELSE 0)
               - (IF o.op = "accept" THEN 1 ELSE 0)
    BY <1>0, <2>2, <2>2
  <2>9. slipped' \in BOOLEAN /\ (~slipped' => ~slipped) /\ -1 \in Int /\ 0 \in Int  BY <1>0, <2>2
  <2>10. UNCHANGED membership  BY <2>2
  <2> HIDE DEF o
  <2> QED  BY <1>0, <1>1, <2>2, <2>5, <2>6, <2>7, <2>8, <2>9, <2>10 DEF o
\* An invitation is written and the counter is left alone.
<1>4. ASSUME NEW t \in Call, Turn(c, t), t.op \in {"none", "countSeat", "releaseSeat"},
             t.op = "countSeat" => t.seats + 1 <= SeatLimit, slipped' \in BOOLEAN,
             NEW i \in Invitations, NEW x \in Invitation \cup {NoRow, Removed},
             invitation' = [invitation EXCEPT ![i] = x], UNCHANGED <<membership, seatsUsed>>,
             ~slipped' =>
               /\ ~slipped
               /\ (IF x \notin {NoRow, Removed} /\ ~x.accepted /\ ~x.revoked THEN 1 ELSE 0)
                   - (IF i \in Open THEN 1 ELSE 0)
                   + (IF t.op = "releaseSeat" THEN 1 ELSE 0) - (IF o.op = "releaseSeat" THEN 1 ELSE 0)
                  <= (IF t.op = "countSeat" THEN 1 ELSE 0) - (IF o.op = "countSeat" THEN 1 ELSE 0)
                     - (IF o.op = "accept" THEN 1 ELSE 0)
      PROVE  MembershipsInv'
  <2> DEFINE n == (IF x \notin {NoRow, Removed} /\ ~x.accepted /\ ~x.revoked THEN 1 ELSE 0)
                   - (IF i \in Open THEN 1 ELSE 0)
  <2>1. /\ invitation' \in [Invitations -> Invitation \cup {NoRow, Removed}]
        /\ Cardinality(Open') = Cardinality(Open)
              + (IF x \notin {NoRow, Removed} /\ ~x.accepted /\ ~x.revoked THEN 1 ELSE 0)
              - (IF i \in Open THEN 1 ELSE 0)
    BY <1>0, <1>4, OpenCounts
  <2>2. n \in Int /\ Cardinality(Open') = Cardinality(Open) + n /\ seatsUsed' = seatsUsed + 0
    BY <1>0, <1>4, <2>1
  <2>3. ~slipped' =>
           n + (IF t.op = "releaseSeat" THEN 1 ELSE 0) - (IF o.op = "releaseSeat" THEN 1 ELSE 0)
             <= 0 + (IF t.op = "countSeat" THEN 1 ELSE 0) - (IF o.op = "countSeat" THEN 1 ELSE 0)
                  - (IF o.op = "accept" THEN 1 ELSE 0)
    BY <1>4
  <2>4. ~slipped' => seatsUsed' <= SeatLimit  BY <1>4 DEF MembershipsInv
  <2> HIDE DEF n, o
  <2> QED  BY <1>1, <1>4, <2>1, <2>2, <2>3, <2>4 DEF o
<1>5. ASSUME NEW i \in Invitations, NEW u \in Users, InviteMember(c, i, u) PROVE MembershipsInv'
  <2> DEFINE x == [email |-> u, accepted |-> FALSE, revoked |-> FALSE, expired |-> FALSE]
             t == [op |-> "countSeat", seats |-> o.seats]
  <2>1. o.op = "invite" /\ o.seats \in Int /\ o.seats + 1 <= SeatLimit
    BY <1>0, <1>5, MemberCallTypes DEF InviteMember, MembershipsInv, SeatsWereFree
  <2>2. t \in Call /\ t.op = "countSeat" /\ t.seats = o.seats  BY <2>1 DEF Call
  <2>3. x \in Invitation  BY DEF Invitation
  <2>4. i \notin Open  BY <1>5 DEF InviteMember, Open, Kept
  <2>5. /\ Turn(c, t) /\ invitation' = [invitation EXCEPT ![i] = x]
        /\ UNCHANGED <<membership, seatsUsed, slipped>>
    BY <1>5 DEF InviteMember
  <2> HIDE DEF t, x, o
  <2>6. (IF x \notin {NoRow, Removed} /\ ~x.accepted /\ ~x.revoked THEN 1 ELSE 0)
                   - (IF i \in Open THEN 1 ELSE 0)
                   + (IF t.op = "releaseSeat" THEN 1 ELSE 0) - (IF o.op = "releaseSeat" THEN 1 ELSE 0)
                  <= (IF t.op = "countSeat" THEN 1 ELSE 0) - (IF o.op = "countSeat" THEN 1 ELSE 0)
                     - (IF o.op = "accept" THEN 1 ELSE 0)
    BY <2>1, <2>2, <2>4
  <2> QED  BY <1>4, <2>1, <2>2, <2>3, <2>5, <2>6, MembershipTypes DEF o
<1>6. ASSUME MarkAccepted(c) PROVE MembershipsInv'
  <2> DEFINE i == o.on
             x == IF i \in Kept THEN [invitation[i] EXCEPT !.accepted = TRUE] ELSE invitation[i]
  <2>1. i \in Invitations /\ o.op = "accept"  BY <1>0, <1>6, MemberCallTypes DEF MarkAccepted
  <2>2. x \in Invitation \cup {NoRow, Removed} /\ (x \notin {NoRow, Removed} => x.accepted)
    BY <1>0, <2>1 DEF MembershipsTypeOK, Kept, Invitation
  <2>3. ~slipped' => ~slipped /\ i \in Open  BY <1>6 DEF MarkAccepted
  <2>4. /\ Turn(c, NoCall) /\ invitation' = [invitation EXCEPT ![i] = x]
        /\ UNCHANGED <<membership, seatsUsed>> /\ slipped' \in BOOLEAN
    BY <1>6 DEF MarkAccepted
  <2> HIDE DEF x, i, o
  <2>5. (IF x \notin {NoRow, Removed} /\ ~x.accepted /\ ~x.revoked THEN 1 ELSE 0) = 0  BY <2>2
  <2>6. ~slipped' => (IF i \in Open THEN 1 ELSE 0) = 1  BY <2>3
  <2>7. ~slipped' => (IF x \notin {NoRow, Removed} /\ ~x.accepted /\ ~x.revoked THEN 1 ELSE 0)
                   - (IF i \in Open THEN 1 ELSE 0)
                   + (IF NoCall.op = "releaseSeat" THEN 1 ELSE 0) - (IF o.op = "releaseSeat" THEN 1 ELSE 0)
                  <= (IF NoCall.op = "countSeat" THEN 1 ELSE 0) - (IF o.op = "countSeat" THEN 1 ELSE 0)
                     - (IF o.op = "accept" THEN 1 ELSE 0)
    BY <1>0, <2>1, <2>5, <2>6
  <2> QED  BY <1>0, <1>4, <2>1, <2>2, <2>3, <2>4, <2>7 DEF o
<1>7. ASSUME ResendInvitation(c) PROVE MembershipsInv'
  <2> DEFINE i == o.on
             x == [invitation[i] EXCEPT !.expired = FALSE]
  <2>1. i \in Kept /\ i \in Invitations /\ o.op = "resend"  BY <1>7 DEF ResendInvitation, Kept
  <2>2. /\ x \in Invitation /\ x.accepted = invitation[i].accepted /\ x.revoked = invitation[i].revoked
    BY <1>0, <2>1 DEF MembershipsTypeOK, Kept, Invitation
  <2>3. i \in Open <=> ~x.accepted /\ ~x.revoked  BY <2>1, <2>2 DEF Open
  <2>4. /\ Turn(c, NoCall) /\ invitation' = [invitation EXCEPT ![i] = x]
        /\ UNCHANGED <<membership, seatsUsed, slipped>>
    BY <1>7 DEF ResendInvitation
  <2>5. x \notin {NoRow, Removed}  BY <2>2, NoRowAssumption
  <2> HIDE DEF x, i, o
  <2>6. (IF x \notin {NoRow, Removed} /\ ~x.accepted /\ ~x.revoked THEN 1 ELSE 0)
          = (IF i \in Open THEN 1 ELSE 0)
    BY <2>3, <2>5
  <2>7. (IF x \notin {NoRow, Removed} /\ ~x.accepted /\ ~x.revoked THEN 1 ELSE 0)
                   - (IF i \in Open THEN 1 ELSE 0)
                   + (IF NoCall.op = "releaseSeat" THEN 1 ELSE 0) - (IF o.op = "releaseSeat" THEN 1 ELSE 0)
                  <= (IF NoCall.op = "countSeat" THEN 1 ELSE 0) - (IF o.op = "countSeat" THEN 1 ELSE 0)
                     - (IF o.op = "accept" THEN 1 ELSE 0)
    BY <1>0, <2>1, <2>6
  <2> QED  BY <1>0, <1>4, <2>1, <2>2, <2>4, <2>7 DEF o
<1>8. ASSUME RevokeInvitation(c) PROVE MembershipsInv'
  <2> DEFINE i == o.on
             x == [invitation[i] EXCEPT !.revoked = TRUE]
             t == [op |-> "releaseSeat"]
  <2>1. i \in Kept /\ i \in Invitations /\ o.op = "revoke"  BY <1>8 DEF RevokeInvitation, Kept
  <2>2. x \in Invitation /\ x.revoked
    BY <1>0, <2>1 DEF MembershipsTypeOK, Kept, Invitation
  <2>3. ~slipped' => ~slipped /\ i \in Open  BY <1>8 DEF RevokeInvitation
  <2>4. /\ Turn(c, t) /\ invitation' = [invitation EXCEPT ![i] = x]
        /\ UNCHANGED <<membership, seatsUsed>> /\ slipped' \in BOOLEAN
    BY <1>8 DEF RevokeInvitation
  <2>5. t \in Call /\ t.op = "releaseSeat"  BY DEF Call
  <2> HIDE DEF x, i, o, t
  <2>6. (IF x \notin {NoRow, Removed} /\ ~x.accepted /\ ~x.revoked THEN 1 ELSE 0) = 0  BY <2>2
  <2>7. ~slipped' => (IF i \in Open THEN 1 ELSE 0) = 1  BY <2>3
  <2>8. ~slipped' => (IF x \notin {NoRow, Removed} /\ ~x.accepted /\ ~x.revoked THEN 1 ELSE 0)
                   - (IF i \in Open THEN 1 ELSE 0)
                   + (IF t.op = "releaseSeat" THEN 1 ELSE 0) - (IF o.op = "releaseSeat" THEN 1 ELSE 0)
                  <= (IF t.op = "countSeat" THEN 1 ELSE 0) - (IF o.op = "countSeat" THEN 1 ELSE 0)
                     - (IF o.op = "accept" THEN 1 ELSE 0)
    BY <1>0, <2>1, <2>5, <2>6, <2>7
  <2> QED  BY <1>0, <1>4, <2>1, <2>2, <2>3, <2>4, <2>5, <2>8 DEF o
<1>9. ASSUME CallEnds(c) PROVE MembershipsInv'
  <2>1. /\ Turn(c, NoCall) /\ UNCHANGED <<membership, invitation, seatsUsed>> /\ slipped' \in BOOLEAN
        /\ ~slipped' => ~slipped /\ o.op \notin {"countSeat", "accept", "releaseSeat"}
    BY <1>9 DEF CallEnds
  <2>2. Open' = Open  BY <2>1 DEF Open, Kept
  <2>3. Cardinality(Open') = Cardinality(Open) + 0 /\ seatsUsed' = seatsUsed + 0  BY <1>0, <2>1, <2>2
  <2>4. ~slipped' => seatsUsed' <= SeatLimit  BY <2>1 DEF MembershipsInv
  <2>5. invitation' \in [Invitations -> Invitation \cup {NoRow, Removed}] /\ seatsUsed' \in Int
    BY <1>0, <2>1 DEF MembershipsTypeOK
  <2>6. ~slipped' =>
          0 + (IF NoCall.op = "releaseSeat" THEN 1 ELSE 0) - (IF o.op = "releaseSeat" THEN 1 ELSE 0)
            <= 0 + (IF NoCall.op = "countSeat" THEN 1 ELSE 0) - (IF o.op = "countSeat" THEN 1 ELSE 0)
                 - (IF o.op = "accept" THEN 1 ELSE 0)
    BY <1>0, <2>1
  <2> HIDE DEF o
  <2> QED  BY <1>0, <1>1, <2>1, <2>3, <2>4, <2>5, <2>6 DEF o
<1> QED  BY <1>2, <1>3, <1>5, <1>6, <1>7, <1>8, <1>9

\* A request that makes a member, or changes one.
LEMMA MemberStepKeeps ==
  ASSUME MembershipsInv, NEW c \in Callers,
         CreateMembership(c) \/ UpdateMemberRoles(c) \/ SuspendMember(c)
  PROVE  MembershipsInv'
<1> DEFINE o == call[c]
<1>0. /\ MembershipsTypeOK /\ seatsUsed \in Int /\ slipped \in BOOLEAN
      /\ NoCall \in Call /\ NoCall.op = "none"
      /\ IsFiniteSet(Members) /\ Cardinality(Open) \in Nat /\ Cardinality(Members) \in Nat
  BY MembershipTypes, SeatSetsFinite
<1>1. ASSUME NEW t \in Call, Turn(c, t), t.op \in {"none", "accept"},
             Members \subseteq Members', UNCHANGED <<invitation, seatsUsed>>,
             membership' \in [Users -> Membership \cup {NoRow}], slipped' \in BOOLEAN,
             NEW m \in Int, Cardinality(Members') = Cardinality(Members) + m,
             o.op \notin {"countSeat", "accept", "releaseSeat"},
             m <= (IF t.op = "accept" THEN 1 ELSE 0),
             ~slipped' => ~slipped /\ ActiveOwners' # {}
      PROVE  MembershipsInv'
  <2>1. /\ call' \in [Callers -> Call] /\ EditsLeft' /\ TargetsFound' /\ SeatsWereFree'
        /\ ~slipped => OthersStay'
    BY <1>1, TurnKeeps
  <2>2. MembershipsTypeOK'  BY <1>0, <1>1, <2>1 DEF MembershipsTypeOK
  <2>3. Open' = Open  BY <1>1 DEF Open, Kept
  <2>4. ASSUME ~slipped' PROVE SeatsCounted'
    <3>1. Cardinality(Open') = Cardinality(Open) + 0 /\ seatsUsed' = seatsUsed + 0  BY <1>0, <1>1, <2>3
    <3>2. m + 0 + (IF t.op = "releaseSeat" THEN 1 ELSE 0) - (IF call[c].op = "releaseSeat" THEN 1 ELSE 0)
           <= 0 + (IF t.op = "countSeat" THEN 1 ELSE 0) - (IF call[c].op = "countSeat" THEN 1 ELSE 0)
                + (IF t.op = "accept" THEN 1 ELSE 0) - (IF call[c].op = "accept" THEN 1 ELSE 0)
      BY <1>1
    <3> QED  BY <1>1, <2>4, <3>1, <3>2, SeatsBalance
  <2>5. ~slipped' => seatsUsed' <= SeatLimit  BY <1>1 DEF MembershipsInv
  <2> QED  BY <1>1, <2>1, <2>2, <2>4, <2>5 DEF MembershipsInv
<1>2. ASSUME CreateMembership(c) PROVE MembershipsInv'
  <2> DEFINE u == o.email
             x == [role |-> "member", status |-> "active", edits |-> 0]
             t == [op |-> "accept", on |-> o.on]
  <2>1. o.op = "join" /\ u \in Users /\ o.on \in Invitations
    BY <1>0, <1>2, MemberCallTypes DEF CreateMembership
  <2>2. t \in Call /\ t.op = "accept"  BY <2>1 DEF Call
  <2>3. x \in Membership  BY MembershipsAssumption DEF Membership
  <2>4. x # NoRow  BY <2>3, NoRowAssumption
  <2>5. /\ membership[u] = NoRow /\ membership' = [membership EXCEPT ![u] = x]
        /\ Turn(c, t) /\ UNCHANGED <<invitation, seatsUsed>> /\ slipped' \in BOOLEAN
        /\ ~slipped' => ~slipped
    BY <1>2 DEF CreateMembership
  <2> HIDE DEF x, t, u, o
  <2>6. \A v \in Users : membership'[v] = IF v = u THEN x ELSE membership[v]
    BY <1>0, <2>5 DEF MembershipsTypeOK
  <2>7. membership' \in [Users -> Membership \cup {NoRow}]  BY <1>0, <2>3, <2>5 DEF MembershipsTypeOK
  <2>8. Members' = Members \cup {u} /\ u \notin Members  BY <2>1, <2>4, <2>5, <2>6 DEF Members
  <2>9. Cardinality(Members') = Cardinality(Members) + 1  BY <1>0, <2>8, FS_AddElement
  <2>10. ActiveOwners \subseteq ActiveOwners'  BY <2>5, <2>6, <2>8 DEF ActiveOwners, Members
  <2>11. ~slipped' => ActiveOwners' # {}  BY <2>5, <2>10 DEF MembershipsInv
  <2> QED  BY <1>1, <2>1, <2>2, <2>5, <2>7, <2>8, <2>9, <2>11
\* A member is written over.
<1>3. ASSUME Turn(c, NoCall), NEW u \in Members, NEW x \in Membership,
             membership' = [membership EXCEPT ![u] = x], UNCHANGED <<invitation, seatsUsed>>,
             slipped' \in BOOLEAN, o.op \notin {"countSeat", "accept", "releaseSeat"},
             ~slipped' => ~slipped /\ (OtherOwners(u) # {} \/ (x.role = "owner" /\ x.status = membership[u].status))
      PROVE  MembershipsInv'
  <2>1. u \in Users /\ x # NoRow  BY <1>3, NoRowAssumption DEF Members
  <2>2. \A v \in Users : membership'[v] = IF v = u THEN x ELSE membership[v]
    BY <1>0, <1>3 DEF MembershipsTypeOK
  <2>3. membership' \in [Users -> Membership \cup {NoRow}]  BY <1>0, <1>3 DEF MembershipsTypeOK
  <2>4. Members' = Members  BY <1>3, <2>1, <2>2 DEF Members
  <2>5. Cardinality(Members') = Cardinality(Members) + 0  BY <1>0, <2>4
  <2>6. OtherOwners(u) \subseteq ActiveOwners'
    BY <2>2, <2>4 DEF OtherOwners, ActiveOwners, Members
  <2>7. ASSUME ~slipped' PROVE ActiveOwners' # {}
    <3>1. CASE OtherOwners(u) # {}  BY <2>6, <3>1
    <3>2. CASE OtherOwners(u) = {} /\ x.role = "owner" /\ x.status = membership[u].status
      <4>1. ActiveOwners # {}  BY <1>3, <2>7 DEF MembershipsInv
      <4>2. u \in ActiveOwners  BY <3>2, <4>1 DEF OtherOwners
      <4>3. u \in ActiveOwners'  BY <1>3, <2>1, <2>2, <2>4, <3>2, <4>2 DEF ActiveOwners
      <4> QED  BY <4>3
    <3> QED  BY <1>3, <2>7, <3>1, <3>2
  <2> QED  BY <1>0, <1>1, <1>3, <2>3, <2>4, <2>5, <2>7
<1>4. ASSUME UpdateMemberRoles(c) PROVE MembershipsInv'
  <2> DEFINE u == o.on
             x == [membership[u] EXCEPT !.role = o.role, !.edits = @ + 1]
  <2>1. /\ o.op = "saveRole" /\ u \in Members /\ o.role \in {"owner", "member"}
        /\ o.edits \in 0..MaxEdits /\ o.edits < MaxEdits
    BY <1>0, <1>4, MemberCallTypes DEF UpdateMemberRoles, MembershipsInv, TargetsFound, EditsLeft
  <2>2. membership[u] \in Membership /\ membership[u].edits = o.edits
    BY <1>0, <1>4, <2>1 DEF UpdateMemberRoles, MembershipsTypeOK, Members
  <2>3. o.edits + 1 \in 0..MaxEdits  BY <2>1, MembershipsAssumption
  <2>4. x \in Membership /\ x.role = o.role /\ x.status = membership[u].status
    BY <2>1, <2>2, <2>3 DEF Membership
  <2>5. /\ Turn(c, NoCall) /\ membership' = [membership EXCEPT ![u] = x]
        /\ UNCHANGED <<invitation, seatsUsed>> /\ slipped' \in BOOLEAN
        /\ ~slipped' => ~slipped /\ OtherOwners(u) = o.others
    BY <1>4 DEF UpdateMemberRoles
  <2>6. (~slipped /\ o.role = "member") => o.others # {}
    BY <2>1 DEF MembershipsInv, OthersStay
  <2> HIDE DEF x, u, o
  <2> QED  BY <1>3, <2>1, <2>4, <2>5, <2>6
<1>5. ASSUME SuspendMember(c) PROVE MembershipsInv'
  <2> DEFINE u == o.on
             x == [membership[u] EXCEPT !.status = "suspended"]
  <2>1. o.op = "suspend" /\ u \in Members
    BY <1>5 DEF SuspendMember, MembershipsInv, TargetsFound
  <2>2. membership[u] \in Membership  BY <1>0, <2>1 DEF MembershipsTypeOK, Members
  <2>3. x \in Membership  BY <2>2 DEF Membership
  <2>4. /\ Turn(c, NoCall) /\ membership' = [membership EXCEPT ![u] = x]
        /\ UNCHANGED <<invitation, seatsUsed>> /\ slipped' \in BOOLEAN
        /\ ~slipped' => ~slipped /\ OtherOwners(u) = o.others
    BY <1>5 DEF SuspendMember
  <2>5. ~slipped => o.others # {}  BY <2>1 DEF MembershipsInv, OthersStay
  <2> HIDE DEF x, u, o
  <2> QED  BY <1>3, <2>1, <2>3, <2>4, <2>5
<1> QED  BY <1>2, <1>4, <1>5

\* What happens without a request.
LEMMA UnaskedStepKeeps ==
  ASSUME MembershipsInv,
         \/ \E i \in Invitations : Expire(i) \/ ExpiredRowRemoved(i)
         \/ \E u \in Users : ReactivateMember(u)
  PROVE  MembershipsInv'
<1>0. /\ MembershipsTypeOK /\ seatsUsed \in Int
      /\ Cardinality(Open) \in Nat /\ Cardinality(Members) \in Nat
      /\ Cardinality(CallsTo("releaseSeat")) \in Nat /\ Cardinality(CallsTo("countSeat")) \in Nat
      /\ Cardinality(CallsTo("accept")) \in Nat
  BY MembershipTypes, SeatSetsFinite
<1>1. ASSUME MembershipsTypeOK', UNCHANGED <<seatsUsed, call, slipped>>, Members' = Members,
             Cardinality(Open') \in Int, Cardinality(Open') <= Cardinality(Open),
             ~slipped => ActiveOwners' # {}
      PROVE  MembershipsInv'
  <2>1. \A op : CallsTo(op)' = CallsTo(op)  BY <1>1 DEF CallsTo
  <2>2. SeatsCounted => SeatsCounted'
    <3>1. SeatsCounted' =
            (Cardinality(Members) + Cardinality(Open') + Cardinality(CallsTo("releaseSeat"))
              <= seatsUsed + Cardinality(CallsTo("countSeat")) + Cardinality(CallsTo("accept")))
      BY <1>1, <2>1 DEF SeatsCounted
    <3> QED  BY <1>0, <1>1, <3>1 DEF SeatsCounted
  <2>3. EditsLeft' /\ TargetsFound' /\ SeatsWereFree' /\ (~slipped => OthersStay')
    BY <1>1 DEF MembershipsInv, EditsLeft, TargetsFound, SeatsWereFree, OthersStay
  <2> QED  BY <1>1, <2>2, <2>3 DEF MembershipsInv
<1>2. ASSUME NEW i \in Invitations, Expire(i) PROVE MembershipsInv'
  <2> DEFINE x == [invitation[i] EXCEPT !.expired = TRUE]
  <2>1. invitation[i] \in Invitation /\ UNCHANGED <<membership, seatsUsed, call, slipped>>
    BY <1>0, <1>2 DEF Expire, Kept, MembershipsTypeOK
  <2>2. /\ x \in Invitation /\ x.accepted = invitation[i].accepted /\ x.revoked = invitation[i].revoked
    BY <2>1 DEF Invitation
  <2>3. invitation' = [invitation EXCEPT ![i] = x]  BY <1>2 DEF Expire
  <2>4. x \notin {NoRow, Removed} /\ i \in Kept  BY <1>2, <2>2, NoRowAssumption DEF Expire
  <2> HIDE DEF x
  <2>5. \A j \in Invitations : invitation'[j] = IF j = i THEN x ELSE invitation[j]
    BY <1>0, <2>3 DEF MembershipsTypeOK
  <2>6. Open' = Open  BY <2>2, <2>4, <2>5 DEF Open, Kept
  <2>7. MembershipsTypeOK'  BY <1>0, <2>1, <2>2, <2>3 DEF MembershipsTypeOK
  <2>8. Members' = Members /\ ActiveOwners' = ActiveOwners  BY <2>1 DEF Members, ActiveOwners
  <2>9. Cardinality(Open') \in Int /\ Cardinality(Open') <= Cardinality(Open)  BY <1>0, <2>6
  <2>10. ~slipped => ActiveOwners' # {}  BY <2>8 DEF MembershipsInv
  <2> QED  BY <1>1, <2>1, <2>7, <2>8, <2>9, <2>10
<1>3. ASSUME NEW i \in Invitations, ExpiredRowRemoved(i) PROVE MembershipsInv'
  <2>1. /\ UNCHANGED <<membership, seatsUsed, call, slipped>>
        /\ invitation' = [invitation EXCEPT ![i] = Removed]
    BY <1>3 DEF ExpiredRowRemoved
  <2>2. \A j \in Invitations : invitation'[j] = IF j = i THEN Removed ELSE invitation[j]
    BY <1>0, <2>1 DEF MembershipsTypeOK
  <2>3. Open' \subseteq Open  BY <2>2 DEF Open, Kept
  <2>4. Cardinality(Open') \in Int /\ Cardinality(Open') <= Cardinality(Open)
    <3>1. IsFiniteSet(Open)  BY <1>0, SeatSetsFinite
    <3> QED  BY <2>3, <3>1, FS_Subset, FS_CardinalityType
  <2>5. MembershipsTypeOK'  BY <1>0, <2>1 DEF MembershipsTypeOK
  <2>6. Members' = Members /\ ActiveOwners' = ActiveOwners  BY <2>1 DEF Members, ActiveOwners
  <2>7. ~slipped => ActiveOwners' # {}  BY <2>6 DEF MembershipsInv
  <2> QED  BY <1>1, <2>1, <2>4, <2>5, <2>6, <2>7
<1>4. ASSUME NEW u \in Users, ReactivateMember(u) PROVE MembershipsInv'
  <2> DEFINE x == [membership[u] EXCEPT !.status = "active"]
  <2>1. u \in Members /\ membership[u] \in Membership /\ UNCHANGED <<invitation, seatsUsed, call, slipped>>
    BY <1>0, <1>4 DEF ReactivateMember, Members, MembershipsTypeOK
  <2>2. x \in Membership /\ x.role = membership[u].role /\ x.status = "active"  BY <2>1 DEF Membership
  <2>3. membership' = [membership EXCEPT ![u] = x]  BY <1>4 DEF ReactivateMember
  <2>4. x # NoRow  BY <2>2, NoRowAssumption
  <2> HIDE DEF x
  <2>5. \A v \in Users : membership'[v] = IF v = u THEN x ELSE membership[v]
    BY <1>0, <2>3 DEF MembershipsTypeOK
  <2>6. MembershipsTypeOK'  BY <1>0, <2>1, <2>2, <2>3 DEF MembershipsTypeOK
  <2>7. Members' = Members  BY <2>1, <2>4, <2>5 DEF Members
  <2>8. ActiveOwners \subseteq ActiveOwners'  BY <2>1, <2>2, <2>5, <2>7 DEF ActiveOwners, Members
  <2>9. ~slipped => ActiveOwners' # {}  BY <2>8 DEF MembershipsInv
  <2>10. Open' = Open  BY <2>1 DEF Open, Kept
  <2>11. Cardinality(Open') \in Int /\ Cardinality(Open') <= Cardinality(Open)  BY <1>0, <2>10
  <2> QED  BY <1>1, <2>1, <2>6, <2>7, <2>9, <2>11
<1> QED  BY <1>2, <1>3, <1>4

\* The invariant holds at first.
LEMMA MembershipsInitInv == MembershipsInit => MembershipsInv
<1> SUFFICES ASSUME MembershipsInit PROVE MembershipsInv  OBVIOUS
<1> DEFINE x == [role |-> "owner", status |-> "active", edits |-> 0]
<1>1. x \in Membership /\ x.role = "owner" /\ x.status = "active"
  BY MembershipsAssumption DEF Membership
<1>2. x # NoRow  BY <1>1, NoRowAssumption
<1>3. membership = [u \in Users |-> IF u = Founder THEN x ELSE NoRow]  BY DEF MembershipsInit
<1> HIDE DEF x
<1>4. membership \in [Users -> Membership \cup {NoRow}]  BY <1>1, <1>3
<1>5. Members = {Founder} /\ ActiveOwners = {Founder}
  BY <1>1, <1>2, <1>3, MembershipsAssumption DEF Members, ActiveOwners
<1>6. Open = {}  BY DEF MembershipsInit, Open, Kept
<1>7. NoCall \in Call /\ NoCall.op = "none"  BY DEF NoCall, Call
<1>8. \A c \in Callers : call[c] = NoCall  BY DEF MembershipsInit
<1>9. MembershipsTypeOK
  <2>1. call \in [Callers -> Call]  BY <1>7 DEF MembershipsInit
  <2>2. invitation \in [Invitations -> Invitation \cup {NoRow, Removed}]  BY DEF MembershipsInit
  <2>3. slipped = FALSE  BY DEF MembershipsInit
  <2>4. slipped \in BOOLEAN  BY <2>3
  <2>5. seatsUsed = 1  BY DEF MembershipsInit
  <2> QED  BY <1>4, <2>1, <2>2, <2>4, <2>5 DEF MembershipsTypeOK
<1>10. EditsLeft /\ TargetsFound /\ OthersStay /\ SeatsWereFree
  BY <1>7, <1>8 DEF EditsLeft, TargetsFound, OthersStay, SeatsWereFree
<1>11. CallsTo("releaseSeat") = {} /\ CallsTo("countSeat") = {} /\ CallsTo("accept") = {}
  BY <1>7, <1>8 DEF CallsTo
<1>12. SeatsCounted
  <2>1. Cardinality({Founder}) = 1 /\ Cardinality({}) = 0  BY FS_Singleton, FS_EmptySet
  <2>2. seatsUsed = 1  BY DEF MembershipsInit
  <2> QED  BY <1>5, <1>6, <1>11, <2>1, <2>2 DEF SeatsCounted
<1>13. seatsUsed <= SeatLimit  BY MembershipsAssumption DEF MembershipsInit
<1> QED  BY <1>5, <1>9, <1>10, <1>12, <1>13 DEF MembershipsInv

\* The invariant is inductive.
LEMMA MembershipsInductive == MembershipsInv /\ [MembershipsNext]_membershipVars => MembershipsInv'
<1> SUFFICES ASSUME MembershipsInv, [MembershipsNext]_membershipVars PROVE MembershipsInv'  OBVIOUS
<1>1. CASE UNCHANGED membershipVars
  <2>1. /\ UNCHANGED <<membership, invitation, seatsUsed, call, slipped>>
        /\ Members' = Members /\ Open' = Open /\ ActiveOwners' = ActiveOwners
        /\ \A op : CallsTo(op)' = CallsTo(op)
    BY <1>1 DEF membershipVars, Members, Open, Kept, ActiveOwners, CallsTo
  <2>2. MembershipsTypeOK'  BY <2>1 DEF MembershipsInv, MembershipsTypeOK
  <2>3. EditsLeft' /\ TargetsFound' /\ SeatsWereFree' /\ (~slipped => OthersStay')
    BY <2>1 DEF MembershipsInv, EditsLeft, TargetsFound, SeatsWereFree, OthersStay
  <2>4. SeatsCounted' = SeatsCounted  BY <2>1 DEF SeatsCounted
  <2> QED  BY <2>1, <2>2, <2>3, <2>4 DEF MembershipsInv
<1>2. ASSUME MembershipsNext PROVE MembershipsInv'
  BY <1>2, ReadKeepsMemberships, InvitationStepKeeps, MemberStepKeeps, UnaskedStepKeeps
     DEF MembershipsNext
<1> QED  BY <1>1, <1>2

\* Every step keeps the types of membership and invitation rows, the seat counter and what each call carries.
THEOREM MembershipsTypeCorrect == MembershipsSpec => []MembershipsTypeOK
<1>1. MembershipsInv => MembershipsTypeOK  BY DEF MembershipsInv
<1> QED  BY <1>1, MembershipsInitInv, MembershipsInductive, PTL DEF MembershipsSpec

\* Between requests an organisation has an owner who can sign in, and every member and
\* every open invitation holds a seat of the plan, whatever the number of requests, as
\* long as none wrote from an overtaken read or died half way
\* (membership.service.ts:58, membership.controller.ts:54).
THEOREM OrganisationStaysInOrder == MembershipsSpec => []OrganisationInOrder
<1>1. MembershipsInv => OrganisationInOrder
  <2> SUFFICES ASSUME MembershipsInv, ~slipped, \A c \in Callers : Free(c)
               PROVE  /\ ActiveOwners # {}
                      /\ Cardinality(Members) + Cardinality(Open) <= seatsUsed
                      /\ seatsUsed <= SeatLimit
    BY DEF OrganisationInOrder
  <2>1. CallsTo("releaseSeat") = {} /\ CallsTo("countSeat") = {} /\ CallsTo("accept") = {}
    BY MembershipTypes DEF CallsTo, Free
  <2>2. /\ seatsUsed \in Int /\ Cardinality(Open) \in Nat /\ Cardinality(Members) \in Nat
        /\ Cardinality({}) = 0
    BY MembershipTypes, SeatSetsFinite, FS_EmptySet
  <2>3. ActiveOwners # {} /\ SeatsCounted /\ seatsUsed <= SeatLimit  BY DEF MembershipsInv
  <2> QED  BY <2>1, <2>2, <2>3 DEF SeatsCounted
<1> QED  BY <1>1, MembershipsInitInv, MembershipsInductive, PTL DEF MembershipsSpec

-------------------------------------------------------------------------------
(***************************************************************************)
(* Usage.  The counter is the number of rows less what requests still have *)
(* to count up, plus what they have to count down (CounterBalanced), and the*)
(* rows and the requests let in fit under the limit (RoomLeft).  A recount *)
(* ends that for good unless it ran while no request did (QuietRecount).   *)
(***************************************************************************)

\* Requests that have still to move the counter up, or down.
Counters(by) == {c \in Clerks : order[c] = Counting(by)}

\* Requests that were let in and have not written their row, and those whose row
\* the counter has not been told of.
Admitted(o) == \/ o.op \in {"create", "readmit"}
               \/ o.op = "restore" /\ resource # "assets"

InFlight(o) == Admitted(o) \/ o = Counting(1)

\* A person who was inactive comes back without a place in the plan.
TakesAPlace(o) == Admitted(o) /\ (o.op = "restore" /\ resource = "people" => o.seen.active)

UsageTypes ==
  /\ resource \in {"people", "assets", "customFields"}
  /\ entry \in [Countables -> Entry \cup {Uncreated}]
  /\ usage \in Int
  /\ order \in [Clerks -> Order]
  /\ recount \in [pc : {"idle", "counted", "differs"}, found : Int, quiet : BOOLEAN]
  /\ orders \in 0..MaxOrders
  /\ drifted \in BOOLEAN /\ crowded \in BOOLEAN

\* Only fields are seeded and only people and assets are deleted.
RowsFit ==
  \A k \in Entered : /\ entry[k].seeded => resource = "customFields"
                     /\ entry[k].deleted => resource # "customFields"

\* What a request that holds a row has seen of it.
OrderFits(o) ==
  /\ o.op \in {"stand down", "delete", "admit", "restore"} => o.row \in Entered
  /\ o.op \in {"stand down", "delete"} => ~o.seen.deleted
  /\ o.op = "delete" => resource # "customFields"
  /\ o.op = "admit" => resource = "people"
  /\ o.op = "readmit" => resource = "customFields"
  /\ (o.op \in {"admit", "restore"} /\ resource = "people" /\ ~o.seen.active)
       => ~entry[o.row].active

OrdersFit == \A c \in Clerks : OrderFits(order[c])

CounterBalanced ==
  usage + Cardinality(Counters(1)) - Cardinality(Counters(-1)) = Cardinality(CountedRows)

RoomLeft ==
  /\ Cardinality(CountedRows) <= PlanLimit
  /\ \A c \in Clerks : TakesAPlace(order[c]) => Cardinality(CountedRows) + 1 <= PlanLimit
  /\ \A c, d \in Clerks : InFlight(order[c]) /\ InFlight(order[d]) => c = d

QuietRecount ==
  recount.quiet => /\ \A c \in Clerks : IdleClerk(c)
                   /\ recount.found = Cardinality(CountedRows)

UsageInv ==
  /\ UsageTypes /\ RowsFit /\ OrdersFit /\ QuietRecount
  /\ ~drifted => CounterBalanced
  /\ ~crowded => RoomLeft

-----------------------------------------------------------------------------
\* The rows and the requests of one kind can be counted.
LEMMA UsageSetsFinite ==
  /\ IsFiniteSet(CountedRows) /\ Cardinality(CountedRows) \in Nat
  /\ \A by : IsFiniteSet(Counters(by)) /\ Cardinality(Counters(by)) \in Nat
<1>1. IsFiniteSet(CountedRows)  BY UsageAssumption, FS_Subset DEF CountedRows, Entered
<1>2. ASSUME NEW by PROVE IsFiniteSet(Counters(by))  BY UsageAssumption, FS_Subset DEF Counters
<1> QED  BY <1>1, <1>2, FS_CardinalityType

\* An order is one of these kinds.
LEMMA OrdersAre ==
  /\ NoOrder \in Order /\ NoOrder.op = "none"
  /\ Counting(1) \in Order /\ Counting(1).op = "count" /\ Counting(1).by = 1
  /\ Counting(-1) \in Order /\ Counting(-1).op = "count" /\ Counting(-1).by = -1
  /\ Counting(1) # Counting(-1)
BY DEF Order, NoOrder, Counting

\* The kinds of an order, told apart.
LEMMA OrderTypes ==
  ASSUME NEW o \in Order
  PROVE  /\ o.op \in {"none", "create", "readmit", "count", "stand down", "delete", "admit", "restore"}
         /\ o.op = "none" <=> o = NoOrder
         /\ o.op = "count" => o.by \in {-1, 1} /\ o = Counting(o.by)
         /\ o.op \in {"stand down", "delete", "admit", "restore"} => o.row \in Countables /\ o.seen \in Entry
         /\ o = Counting(1) => o.op = "count" /\ o.by = 1
         /\ o = Counting(-1) => o.op = "count" /\ o.by = -1
<1>1. CASE o = NoOrder  BY <1>1, OrdersAre
<1>2. CASE o \in [op : {"create", "readmit"}]
  <2>1. o.op \in {"create", "readmit"}  BY <1>2
  <2> QED  BY <2>1, OrdersAre
<1>3. CASE o \in [op : {"count"}, by : {-1, 1}]
  <2>1. o.op = "count" /\ o.by \in {-1, 1}  BY <1>3
  <2>2. o = [op |-> o.op, by |-> o.by]  BY <1>3
  <2>3. o = Counting(o.by)  BY <2>1, <2>2 DEF Counting
  <2> QED  BY <2>1, <2>3, OrdersAre
<1>4. CASE o \in [op : {"stand down", "delete", "admit", "restore"}, row : Countables, seen : Entry]
  <2>1. o.op \in {"stand down", "delete", "admit", "restore"} /\ o.row \in Countables /\ o.seen \in Entry
    BY <1>4
  <2> QED  BY <2>1, OrdersAre
<1> QED  BY <1>1, <1>2, <1>3, <1>4 DEF Order

\* A request that takes its next step moves the numbers in flight by what it was and is.
LEMMA CarriesCounts ==
  ASSUME UsageTypes, NEW c \in Clerks, NEW o \in Order, Carries(c, o), NEW by
  PROVE  Cardinality(Counters(by)') = Cardinality(Counters(by))
           + (IF o = Counting(by) THEN 1 ELSE 0) - (IF order[c] = Counting(by) THEN 1 ELSE 0)
<1>1. \A q \in Clerks : order'[q] = IF q = c THEN o ELSE order[q]  BY DEF Carries, UsageTypes
<1>2. IsFiniteSet(Counters(by)) /\ Cardinality(Counters(by)) \in Nat  BY UsageSetsFinite
<1>3. c \in Counters(by) <=> order[c] = Counting(by)  BY DEF Counters
<1>4. CASE o = Counting(by)
  <2>1. Counters(by)' = Counters(by) \cup {c}  BY <1>1, <1>4 DEF Counters
  <2>2. Cardinality(Counters(by) \cup {c}) =
          IF c \in Counters(by) THEN Cardinality(Counters(by)) ELSE Cardinality(Counters(by)) + 1
    BY <1>2, FS_AddElement
  <2> QED  BY <1>2, <1>3, <1>4, <2>1, <2>2
<1>5. CASE o # Counting(by)
  <2>1. Counters(by)' = Counters(by) \ {c}  BY <1>1, <1>5 DEF Counters
  <2>2. Cardinality(Counters(by) \ {c}) =
          IF c \in Counters(by) THEN Cardinality(Counters(by)) - 1 ELSE Cardinality(Counters(by))
    BY <1>2, FS_RemoveElement
  <2> QED  BY <1>2, <1>3, <1>5, <2>1, <2>2
<1> QED  BY <1>4, <1>5

Counted(x) == x.active /\ ~x.deleted /\ ~x.seeded

\* A write of one row moves the number of rows by what that row was and is.
LEMMA EntryCounts ==
  ASSUME UsageTypes, NEW k \in Countables, NEW x \in Entry, entry' = [entry EXCEPT ![k] = x]
  PROVE  /\ entry' \in [Countables -> Entry \cup {Uncreated}]
         /\ Entered' = Entered \cup {k}
         /\ \A j \in Countables : entry'[j] = IF j = k THEN x ELSE entry[j]
         /\ Cardinality(CountedRows') = Cardinality(CountedRows)
              + (IF Counted(x) THEN 1 ELSE 0) - (IF k \in CountedRows THEN 1 ELSE 0)
<1>1. \A j \in Countables : entry'[j] = IF j = k THEN x ELSE entry[j]  BY DEF UsageTypes
<1>2. IsFiniteSet(CountedRows) /\ Cardinality(CountedRows) \in Nat  BY UsageSetsFinite
<1>3. x # Uncreated  BY NoEntryAssumption
<1>4. Entered' = Entered \cup {k}  BY <1>1, <1>3 DEF Entered
<1>5. CountedRows' = IF Counted(x) THEN CountedRows \cup {k} ELSE CountedRows \ {k}
  <2>1. \A j \in Countables : j \in CountedRows' <=> j \in Entered' /\ Counted(entry'[j])
    BY DEF CountedRows, Counted, Entered
  <2>2. \A j \in Countables : j \in CountedRows <=> j \in Entered /\ Counted(entry[j])
    BY DEF CountedRows, Counted, Entered
  <2>3. CountedRows \subseteq Countables /\ CountedRows' \subseteq Countables
    BY DEF CountedRows, Entered
  <2> QED  BY <1>1, <1>4, <2>1, <2>2, <2>3
<1>6. Cardinality(CountedRows \cup {k}) =
        IF k \in CountedRows THEN Cardinality(CountedRows) ELSE Cardinality(CountedRows) + 1
  BY <1>2, FS_AddElement
<1>7. Cardinality(CountedRows \ {k}) =
        IF k \in CountedRows THEN Cardinality(CountedRows) - 1 ELSE Cardinality(CountedRows)
  BY <1>2, FS_RemoveElement
<1>8. entry' \in [Countables -> Entry \cup {Uncreated}]  BY DEF UsageTypes
<1> QED  BY <1>1, <1>2, <1>4, <1>5, <1>6, <1>7, <1>8

\* A call of one request keeps the invariant if it moves rows, counters and the
\* counter together, by the numbers given, and lets in no more than the limit.
LEMMA OrderStepKeeps ==
  ASSUME UsageInv, NEW c \in Clerks, NEW o \in Order, Carries(c, o),
         orders' \in 0..MaxOrders, drifted' \in BOOLEAN, crowded' \in BOOLEAN,
         entry' \in [Countables -> Entry \cup {Uncreated}], Entered \subseteq Entered', RowsFit',
         \A k \in Entered : resource = "people" /\ ~entry[k].active => ~entry'[k].active,
         OrderFits(o)',
         NEW n \in Int, Cardinality(CountedRows') = Cardinality(CountedRows) + n,
         NEW s \in Int, usage' = usage + s,
         ~drifted' =>
           /\ ~drifted
           /\ s + (IF o = Counting(1) THEN 1 ELSE 0) - (IF order[c] = Counting(1) THEN 1 ELSE 0)
                - (IF o = Counting(-1) THEN 1 ELSE 0) + (IF order[c] = Counting(-1) THEN 1 ELSE 0) = n,
         ~crowded' =>
           /\ ~crowded
           /\ n <= (IF TakesAPlace(order[c]) THEN 1 ELSE 0)
           /\ TakesAPlace(o) => Cardinality(CountedRows) + n + 1 <= PlanLimit
           /\ InFlight(o) => InFlight(order[c]) \/ \A d \in Clerks \ {c} : ~InFlight(order[d])
  PROVE  UsageInv'
<1>0. /\ UsageTypes /\ usage \in Int /\ Cardinality(CountedRows) \in Nat
      /\ Cardinality(Counters(1)) \in Nat /\ Cardinality(Counters(-1)) \in Nat
      /\ PlanLimit \in Nat
  BY UsageSetsFinite, UsageAssumption DEF UsageInv, UsageTypes
<1>1. \A q \in Clerks : order'[q] = IF q = c THEN o ELSE order[q]  BY <1>0 DEF Carries, UsageTypes
<1>2. UsageTypes'
  <2>1. order' \in [Clerks -> Order]  BY <1>0 DEF Carries, UsageTypes
  <2>2. recount' \in [pc : {"idle", "counted", "differs"}, found : Int, quiet : BOOLEAN]
    BY <1>0 DEF Carries, UsageTypes
  <2>3. resource' = resource /\ usage' \in Int  BY <1>0 DEF Carries
  <2> QED  BY <1>0, <2>1, <2>2, <2>3 DEF UsageTypes
<1>3. resource' = resource /\ ~recount'.quiet
  <2>1. recount' = [recount EXCEPT !.quiet = FALSE] /\ resource' = resource  BY DEF Carries
  <2> QED  BY <1>0, <2>1 DEF UsageTypes
<1>4. QuietRecount'  BY <1>3 DEF QuietRecount
<1>5. OrdersFit'
  <2>1. ASSUME NEW r, OrderFits(r) PROVE OrderFits(r)'  BY <1>3, <2>1 DEF OrderFits
  <2>2. ASSUME NEW q \in Clerks PROVE OrderFits(order[q])  BY DEF UsageInv, OrdersFit
  <2>3. OrdersFit' <=> \A q \in Clerks : \A r : r = order'[q] => OrderFits(r)'
    BY DEF OrdersFit, OrderFits
  <2> QED  BY <1>1, <2>1, <2>2, <2>3
<1>6. ~drifted' => CounterBalanced'
  <2>1. Cardinality(Counters(1)') = Cardinality(Counters(1))
           + (IF o = Counting(1) THEN 1 ELSE 0) - (IF order[c] = Counting(1) THEN 1 ELSE 0)
    BY <1>0, CarriesCounts
  <2>2. Cardinality(Counters(-1)') = Cardinality(Counters(-1))
           + (IF o = Counting(-1) THEN 1 ELSE 0) - (IF order[c] = Counting(-1) THEN 1 ELSE 0)
    BY <1>0, CarriesCounts
  <2>3. CounterBalanced' =
          (usage' + Cardinality(Counters(1)') - Cardinality(Counters(-1)') = Cardinality(CountedRows'))
    BY DEF CounterBalanced
  <2>4. ~drifted => CounterBalanced  BY DEF UsageInv
  <2> QED  BY <1>0, <2>1, <2>2, <2>3, <2>4 DEF CounterBalanced
<1>7. ASSUME ~crowded' PROVE RoomLeft'
  <2>1. RoomLeft  BY <1>7 DEF UsageInv
  <2>2. \A r : /\ TakesAPlace(r)' <=> TakesAPlace(r)
               /\ InFlight(r)' <=> InFlight(r)
    BY <1>3 DEF TakesAPlace, InFlight, Admitted
  <2>3. Cardinality(CountedRows') <= PlanLimit
    <3>1. TakesAPlace(order[c]) => Cardinality(CountedRows) + 1 <= PlanLimit  BY <2>1 DEF RoomLeft
    <3>2. Cardinality(CountedRows) <= PlanLimit  BY <2>1 DEF RoomLeft
    <3>3. n <= (IF TakesAPlace(order[c]) THEN 1 ELSE 0)  BY <1>7
    <3> QED  BY <1>0, <3>1, <3>2, <3>3
  <2>4. ASSUME NEW q \in Clerks, TakesAPlace(order'[q]) PROVE Cardinality(CountedRows') + 1 <= PlanLimit
    <3>1. CASE q = c  BY <1>0, <1>1, <1>7, <2>4, <3>1
    <3>2. CASE q # c
      <4>1. TakesAPlace(order[q]) /\ InFlight(order[q])
        BY <1>1, <2>4, <3>2 DEF TakesAPlace, InFlight
      <4>2. ~TakesAPlace(order[c])  BY <2>1, <3>2, <4>1 DEF RoomLeft, TakesAPlace, InFlight
      <4>3. Cardinality(CountedRows) + 1 <= PlanLimit  BY <2>1, <4>1 DEF RoomLeft
      <4>4. n <= 0  BY <1>7, <4>2
      <4> QED  BY <1>0, <4>3, <4>4
    <3> QED  BY <3>1, <3>2
  <2>5. ASSUME NEW p \in Clerks, NEW q \in Clerks, InFlight(order'[p]), InFlight(order'[q]) PROVE p = q
    <3>1. CASE p # c /\ q # c  BY <1>1, <2>1, <2>5, <3>1 DEF RoomLeft
    <3>2. CASE p = c /\ q # c  BY <1>1, <1>7, <2>1, <2>5, <3>2 DEF RoomLeft
    <3>3. CASE p # c /\ q = c  BY <1>1, <1>7, <2>1, <2>5, <3>3 DEF RoomLeft
    <3> QED  BY <3>1, <3>2, <3>3
  <2> QED  BY <2>2, <2>3, <2>4, <2>5 DEF RoomLeft
<1> QED  BY <1>2, <1>4, <1>5, <1>6, <1>7 DEF UsageInv

\* The types, from the invariant.
LEMMA UsageFacts ==
  ASSUME UsageInv
  PROVE  /\ UsageTypes /\ usage \in Int /\ PlanLimit \in Nat /\ drifted \in BOOLEAN /\ crowded \in BOOLEAN
         /\ Cardinality(CountedRows) \in Nat /\ entry \in [Countables -> Entry \cup {Uncreated}]
         /\ \A c \in Clerks : order[c] \in Order /\ OrderFits(order[c])
         /\ orders \in 0..MaxOrders /\ (orders < MaxOrders => orders + 1 \in 0..MaxOrders)
<1>1. orders \in 0..MaxOrders /\ (orders < MaxOrders => orders + 1 \in 0..MaxOrders)
  BY UsageAssumption DEF UsageInv, UsageTypes
<1> QED  BY <1>1, UsageSetsFinite, UsageAssumption DEF UsageInv, UsageTypes, OrdersFit

\* Whoever passes the check of an undrifted counter, beside nobody, finds room.
LEMMA CheckFindsRoom ==
  ASSUME UsageInv, NEW c \in Clerks, order[c].op # "count", ~drifted, ~Admitting(c)
  PROVE  /\ \A d \in Clerks \ {c} : ~InFlight(order[d])
         /\ WithinLimit => Cardinality(CountedRows) + 1 <= PlanLimit
<1>1. \A d \in Clerks \ {c} : ~InFlight(order[d])
  BY UsageFacts, OrderTypes DEF InFlight, Admitted, Admitting
<1>2. order[c] # Counting(1)  BY OrdersAre
<1>3. Counters(1) = {}  BY <1>1, <1>2 DEF Counters, InFlight
<1>4. Cardinality(Counters(1)) = 0 /\ Cardinality(Counters(-1)) \in Nat
  BY <1>3, UsageSetsFinite, FS_EmptySet
<1>5. CounterBalanced  BY DEF UsageInv
<1>6. WithinLimit => Cardinality(CountedRows) + 1 <= PlanLimit
  BY <1>4, <1>5, UsageFacts DEF CounterBalanced, WithinLimit
<1> QED  BY <1>1, <1>6

\* A call that writes no row and leaves the counter alone.
LEMMA ReadKeepsUsage ==
  ASSUME UsageInv, NEW c \in Clerks,
         \/ CheckLimit(c) \/ AdmitPerson(c) \/ CheckFieldLimit(c)
         \/ \E k \in Countables :
              FindToStandDown(c, k) \/ FindToDelete(c, k) \/ FindToRestore(c, k) \/ FindField(c, k)
  PROVE  UsageInv'
<1> DEFINE own == order[c]
<1>0. own \in Order /\ OrderFits(own)  BY UsageFacts
<1>1. ASSUME NEW o \in Order, Carries(c, o), UNCHANGED <<entry, usage, drifted>>,
             orders' \in 0..MaxOrders, crowded' \in BOOLEAN, OrderFits(o),
             o.op # "count", own.op # "count",
             ~crowded' => /\ ~crowded
                          /\ TakesAPlace(o) => Cardinality(CountedRows) + 1 <= PlanLimit
                          /\ Admitted(o) => InFlight(own) \/ \A d \in Clerks \ {c} : ~InFlight(order[d])
      PROVE  UsageInv'
  <2>1. resource' = resource  BY <1>1 DEF Carries
  <2>2. Entered' = Entered /\ CountedRows' = CountedRows  BY <1>1 DEF Entered, CountedRows
  <2>3. RowsFit'  BY <1>1, <2>1, <2>2 DEF UsageInv, RowsFit
  <2>4. OrderFits(o)'  BY <1>1, <2>1, <2>2 DEF OrderFits
  <2>5. Cardinality(CountedRows') = Cardinality(CountedRows) + 0 /\ usage' = usage + 0
    BY <1>1, <2>2, UsageFacts
  <2>6. o # Counting(1) /\ o # Counting(-1) /\ own # Counting(1) /\ own # Counting(-1)
    BY <1>1, OrdersAre
  <2>7. InFlight(o) => Admitted(o)  BY <2>6 DEF InFlight
  <2>8. 0 + (IF o = Counting(1) THEN 1 ELSE 0) - (IF order[c] = Counting(1) THEN 1 ELSE 0)
          - (IF o = Counting(-1) THEN 1 ELSE 0) + (IF order[c] = Counting(-1) THEN 1 ELSE 0) = 0
    BY <2>6
  <2>9. 0 <= (IF TakesAPlace(order[c]) THEN 1 ELSE 0)  OBVIOUS
  <2>10. TakesAPlace(o) /\ ~crowded' => Cardinality(CountedRows) + 0 + 1 <= PlanLimit  BY <1>1, UsageFacts
  <2>11. drifted' \in BOOLEAN /\ (~drifted' => ~drifted)  BY <1>1, UsageFacts
  <2>12. \A k \in Entered : resource = "people" /\ ~entry[k].active => ~entry'[k].active
    BY <1>1
  <2>13. entry' \in [Countables -> Entry \cup {Uncreated}] /\ Entered \subseteq Entered'
    BY <1>1, <2>2, UsageFacts
  <2> HIDE DEF own
  <2> QED  BY <1>1, <2>3, <2>4, <2>5, <2>7, <2>8, <2>9, <2>10, <2>11, <2>12, <2>13, OrderStepKeeps DEF own
<1>2. ASSUME CheckLimit(c) PROVE UsageInv'
  <2> DEFINE o == [op |-> "create"]
  <2>1. o \in Order /\ o.op = "create"  BY DEF Order
  <2>2. own = NoOrder /\ own.op # "count"  BY <1>2, OrdersAre DEF CheckLimit, Takes, IdleClerk
  <2>3. Carries(c, o) /\ UNCHANGED <<entry, usage, drifted>> /\ orders' = orders + 1 /\ orders < MaxOrders
    BY <1>2 DEF CheckLimit, Takes
  <2>4. crowded' \in BOOLEAN /\ (~crowded' => ~crowded /\ ~drifted /\ ~Admitting(c)) /\ WithinLimit
    BY <1>2, UsageFacts DEF CheckLimit, Crowds
  <2> HIDE DEF o, own
  <2>5. OrderFits(o)  BY <2>1 DEF OrderFits
  <2> QED  BY <1>1, <2>1, <2>2, <2>3, <2>4, <2>5, CheckFindsRoom, UsageFacts DEF own
<1>3. ASSUME CheckFieldLimit(c) PROVE UsageInv'
  <2> DEFINE o == [op |-> "readmit"]
  <2>1. o \in Order /\ o.op = "readmit"  BY DEF Order
  <2>2. own = NoOrder /\ own.op # "count"  BY <1>3, OrdersAre DEF CheckFieldLimit, Takes, IdleClerk
  <2>3. Carries(c, o) /\ UNCHANGED <<entry, usage, drifted>> /\ orders' = orders + 1 /\ orders < MaxOrders
    BY <1>3 DEF CheckFieldLimit, Takes
  <2>4. crowded' \in BOOLEAN /\ (~crowded' => ~crowded /\ ~drifted /\ ~Admitting(c)) /\ WithinLimit
    BY <1>3, UsageFacts DEF CheckFieldLimit, Crowds
  <2>5. resource = "customFields"  BY <1>3 DEF CheckFieldLimit
  <2> HIDE DEF o, own
  <2>6. OrderFits(o)  BY <2>1, <2>5 DEF OrderFits
  <2> QED  BY <1>1, <2>1, <2>2, <2>3, <2>4, <2>6, CheckFindsRoom, UsageFacts DEF own
<1>4. ASSUME AdmitPerson(c) PROVE UsageInv'
  <2> DEFINE o == [own EXCEPT !.op = "restore"]
  <2>1. own.op = "admit"  BY <1>4 DEF AdmitPerson
  <2>2. own \in [op : {"stand down", "delete", "admit", "restore"}, row : Countables, seen : Entry]
    <3>1. own # NoOrder  BY <2>1, OrdersAre
    <3> QED  BY <1>0, <2>1, <3>1 DEF Order
  <2>3. /\ o \in [op : {"stand down", "delete", "admit", "restore"}, row : Countables, seen : Entry]
        /\ o.op = "restore" /\ o.row = own.row /\ o.seen = own.seen
    BY <2>2
  <2>4. o \in Order  BY <2>3 DEF Order
  <2>5. resource = "people"  BY <1>0, <2>1 DEF OrderFits
  <2>6. Carries(c, o) /\ UNCHANGED <<entry, usage, drifted, orders>> /\ (own.seen.active => WithinLimit)
    BY <1>4 DEF AdmitPerson, Goes
  <2>7. crowded' \in BOOLEAN /\ (~crowded' => ~crowded /\ ~drifted /\ ~Admitting(c))
    BY <1>4, UsageFacts DEF AdmitPerson, Crowds
  <2> HIDE DEF o, own
  <2>8. OrderFits(o)  BY <1>0, <2>1, <2>3, <2>5 DEF OrderFits
  <2>9. TakesAPlace(o) => own.seen.active  BY <2>3, <2>5 DEF TakesAPlace
  <2> QED  BY <1>1, <2>1, <2>3, <2>4, <2>6, <2>7, <2>8, <2>9, CheckFindsRoom, UsageFacts DEF own
\* A row is found and remembered.
<1>5. ASSUME NEW k \in Entered, NEW op \in {"stand down", "delete", "admit", "restore"},
             Carries(c, [op |-> op, row |-> k, seen |-> entry[k]]), UNCHANGED <<entry, usage, drifted, crowded>>,
             orders' \in 0..MaxOrders, own.op # "count",
             op \in {"stand down", "delete"} => ~entry[k].deleted,
             op = "delete" => resource # "customFields", op = "admit" => resource = "people",
             op = "restore" /\ resource # "assets" => own.op = "readmit" /\ resource = "customFields"
      PROVE  UsageInv'
  <2> DEFINE o == [op |-> op, row |-> k, seen |-> entry[k]]
  <2>1. k \in Countables /\ entry[k] \in Entry  BY UsageFacts DEF Entered
  <2>2. o \in Order /\ o.op = op /\ o.row = k /\ o.seen = entry[k]  BY <2>1 DEF Order
  <2>3. Carries(c, o)  BY <1>5
  <2> HIDE DEF o, own
  <2>4. OrderFits(o)  BY <1>5, <2>2 DEF OrderFits
  <2>5. Admitted(o) => InFlight(own)  BY <1>5, <2>2 DEF Admitted, InFlight
  <2>6. TakesAPlace(o) => TakesAPlace(own)  BY <1>5, <2>2 DEF TakesAPlace, Admitted
  <2>7. ~crowded => (TakesAPlace(own) => Cardinality(CountedRows) + 1 <= PlanLimit)
    BY DEF UsageInv, RoomLeft, own
  <2>8. crowded' \in BOOLEAN /\ (~crowded' => ~crowded) /\ UNCHANGED <<entry, usage, drifted>>
    BY <1>5, UsageFacts
  <2>9. o.op # "count"  BY <2>2
  <2> QED  BY <1>1, <1>5, <2>2, <2>3, <2>4, <2>5, <2>6, <2>7, <2>8, <2>9 DEF own
<1>6. ASSUME NEW k \in Countables, FindToStandDown(c, k) PROVE UsageInv'
  <2>1. own.op # "count" /\ k \in Entered /\ orders' \in 0..MaxOrders /\ ~entry[k].deleted
    BY <1>6, UsageFacts, OrdersAre DEF FindToStandDown, Takes, IdleClerk
  <2>2. /\ Carries(c, [op |-> "stand down", row |-> k, seen |-> entry[k]])
        /\ UNCHANGED <<entry, usage, drifted, crowded>>
    BY <1>6 DEF FindToStandDown, Takes
  <2> QED  BY <1>5, <2>1, <2>2
<1>7. ASSUME NEW k \in Countables, FindToDelete(c, k) PROVE UsageInv'
  <2>1. own.op # "count" /\ k \in Entered /\ orders' \in 0..MaxOrders /\ ~entry[k].deleted
    BY <1>7, UsageFacts, OrdersAre DEF FindToDelete, Takes, IdleClerk
  <2>2. /\ Carries(c, [op |-> "delete", row |-> k, seen |-> entry[k]])
        /\ UNCHANGED <<entry, usage, drifted, crowded>> /\ resource # "customFields"
    BY <1>7 DEF FindToDelete, Takes
  <2> QED  BY <1>5, <2>1, <2>2
<1>8. ASSUME NEW k \in Countables, FindToRestore(c, k) PROVE UsageInv'
  <2>1. k \in Entered /\ UNCHANGED <<entry, usage, drifted, crowded>>  BY <1>8 DEF FindToRestore
  <2>2. CASE resource = "people" /\ Takes(c, [op |-> "admit", row |-> k, seen |-> entry[k]])
    <3>1. own.op # "count" /\ orders' \in 0..MaxOrders  BY <2>2, UsageFacts, OrdersAre DEF Takes, IdleClerk
    <3>2. Carries(c, [op |-> "admit", row |-> k, seen |-> entry[k]])  BY <2>2 DEF Takes
    <3> QED  BY <1>5, <2>1, <2>2, <3>1, <3>2
  <2>3. CASE resource = "assets" /\ Takes(c, [op |-> "restore", row |-> k, seen |-> entry[k]])
    <3>1. own.op # "count" /\ orders' \in 0..MaxOrders  BY <2>3, UsageFacts, OrdersAre DEF Takes, IdleClerk
    <3>2. Carries(c, [op |-> "restore", row |-> k, seen |-> entry[k]])  BY <2>3 DEF Takes
    <3> QED  BY <1>5, <2>1, <2>3, <3>1, <3>2
  <2> QED  BY <1>8, <2>2, <2>3 DEF FindToRestore
<1>9. ASSUME NEW k \in Countables, FindField(c, k) PROVE UsageInv'
  <2>1. own.op = "readmit" /\ k \in Entered /\ orders' \in 0..MaxOrders
    BY <1>9, UsageFacts DEF FindField, Goes
  <2>2. resource = "customFields"  BY <1>0, <2>1 DEF OrderFits
  <2>3. /\ Carries(c, [op |-> "restore", row |-> k, seen |-> entry[k]])
        /\ UNCHANGED <<entry, usage, drifted, crowded>>
    BY <1>9 DEF FindField, Goes
  <2> QED  BY <1>5, <2>1, <2>2, <2>3
<1> QED  BY <1>2, <1>3, <1>4, <1>6, <1>7, <1>8, <1>9

\* A call that writes a row.
LEMMA WriteKeepsUsage ==
  ASSUME UsageInv, NEW c \in Clerks,
         CreateEntry(c) \/ SeedField(c) \/ StandDown(c) \/ DeleteEntry(c) \/ RestoreEntry(c)
  PROVE  UsageInv'
<1> DEFINE own == order[c]
<1>0. own \in Order /\ OrderFits(own)  BY UsageFacts
<1>1. ASSUME NEW o \in {NoOrder, Counting(1), Counting(-1)}, Carries(c, o), UNCHANGED usage,
             NEW k \in Countables, NEW x \in Entry, entry' = [entry EXCEPT ![k] = x],
             x.seeded => resource = "customFields", x.deleted => resource # "customFields",
             resource = "people" /\ k \in Entered /\ ~entry[k].active => ~x.active,
             orders' \in 0..MaxOrders, drifted' \in BOOLEAN, crowded' \in BOOLEAN, own.op # "count",
             ~drifted' =>
               /\ ~drifted
               /\ (IF o = Counting(1) THEN 1 ELSE 0) - (IF o = Counting(-1) THEN 1 ELSE 0) =
                    (IF Counted(x) THEN 1 ELSE 0) - (IF k \in CountedRows THEN 1 ELSE 0),
             ~crowded' =>
               /\ ~crowded
               /\ Counted(x) => k \in CountedRows \/ TakesAPlace(own)
               /\ o = Counting(1) => InFlight(own)
      PROVE  UsageInv'
  <2> DEFINE n == (IF Counted(x) THEN 1 ELSE 0) - (IF k \in CountedRows THEN 1 ELSE 0)
  <2>1. /\ entry' \in [Countables -> Entry \cup {Uncreated}]
        /\ Entered' = Entered \cup {k}
        /\ \A j \in Countables : entry'[j] = IF j = k THEN x ELSE entry[j]
        /\ Cardinality(CountedRows') = Cardinality(CountedRows)
              + (IF Counted(x) THEN 1 ELSE 0) - (IF k \in CountedRows THEN 1 ELSE 0)
    BY <1>1, UsageFacts, EntryCounts
  <2>2. n \in Int /\ Cardinality(CountedRows') = Cardinality(CountedRows) + n /\ usage' = usage + 0
    BY <1>1, <2>1, UsageFacts
  <2>3. resource' = resource  BY <1>1 DEF Carries
  <2>4. RowsFit'
    <3>1. \A j \in Entered' : j = k \/ (j \in Entered /\ entry'[j] = entry[j] /\ j \in Countables)
      BY <2>1 DEF Entered
    <3> QED  BY <1>1, <2>1, <2>3, <3>1 DEF UsageInv, RowsFit
  <2>5. \A j \in Entered : resource = "people" /\ ~entry[j].active => ~entry'[j].active
    BY <1>1, <2>1 DEF Entered
  <2>6. o \in Order /\ o.op \in {"none", "count"}  BY <1>1, OrdersAre
  <2>7. OrderFits(o)'  BY <2>6 DEF OrderFits
  <2>8. own # Counting(1) /\ own # Counting(-1)  BY <1>1, OrdersAre
  <2>9. 0 + (IF o = Counting(1) THEN 1 ELSE 0) - (IF own = Counting(1) THEN 1 ELSE 0)
          - (IF o = Counting(-1) THEN 1 ELSE 0) + (IF own = Counting(-1) THEN 1 ELSE 0)
        = (IF o = Counting(1) THEN 1 ELSE 0) - (IF o = Counting(-1) THEN 1 ELSE 0)
    BY <2>8
  <2>10. ~TakesAPlace(o) /\ (InFlight(o) => o = Counting(1))
    BY <2>6 DEF TakesAPlace, InFlight, Admitted
  <2>11. ~crowded' => n <= (IF TakesAPlace(own) THEN 1 ELSE 0)  BY <1>1
  <2>12. Entered \subseteq Entered'  BY <2>1
  <2>13. ~drifted' => ~drifted /\ 0 + (IF o = Counting(1) THEN 1 ELSE 0) - (IF own = Counting(1) THEN 1 ELSE 0)
          - (IF o = Counting(-1) THEN 1 ELSE 0) + (IF own = Counting(-1) THEN 1 ELSE 0) = n
    BY <1>1, <2>9
  <2> HIDE DEF own, n
  <2> QED  BY <1>1, <2>1, <2>2, <2>4, <2>5, <2>6, <2>7, <2>10, <2>11, <2>12, <2>13, OrderStepKeeps DEF own
<1>2. ASSUME CreateEntry(c) PROVE UsageInv'
  <2>1. PICK k \in Countables \ Entered : entry' = [entry EXCEPT ![k] = Fresh]  BY <1>2 DEF CreateEntry
  <2>2. own.op = "create" /\ Carries(c, Counting(1)) /\ UNCHANGED <<usage, drifted, crowded, orders>>
    BY <1>2 DEF CreateEntry, Goes
  <2>3. Fresh \in Entry /\ Fresh.active /\ ~Fresh.deleted /\ ~Fresh.seeded  BY DEF Fresh, Entry
  <2>4. k \notin CountedRows  BY <2>1 DEF CountedRows
  <2>5. InFlight(own) /\ TakesAPlace(own)  BY <2>2 DEF InFlight, TakesAPlace, Admitted
  <2>6. (IF Counting(1) = Counting(1) THEN 1 ELSE 0) - (IF Counting(1) = Counting(-1) THEN 1 ELSE 0) =
                    (IF Counted(Fresh) THEN 1 ELSE 0) - (IF k \in CountedRows THEN 1 ELSE 0)
    BY <2>3, <2>4, OrdersAre DEF Counted
  <2>7. /\ orders' \in 0..MaxOrders /\ drifted' \in BOOLEAN /\ crowded' \in BOOLEAN
        /\ (~drifted' => ~drifted) /\ (~crowded' => ~crowded) /\ own.op # "count"
    BY <2>2, UsageFacts
  <2> HIDE DEF own
  <2> QED  BY <1>1, <2>1, <2>2, <2>3, <2>5, <2>6, <2>7
<1>3. ASSUME SeedField(c) PROVE UsageInv'
  <2> DEFINE x == [Fresh EXCEPT !.seeded = TRUE]
  <2>1. PICK k \in Countables \ Entered : entry' = [entry EXCEPT ![k] = x]  BY <1>3 DEF SeedField
  <2>2. /\ own = NoOrder /\ Carries(c, NoOrder) /\ UNCHANGED <<usage, drifted, crowded>>
        /\ orders' \in 0..MaxOrders /\ resource = "customFields"
    BY <1>3, UsageFacts DEF SeedField, Takes, IdleClerk
  <2>3. x \in Entry /\ ~x.deleted /\ x.seeded  BY DEF Fresh, Entry
  <2>4. k \notin CountedRows  BY <2>1 DEF CountedRows
  <2>5. NoOrder # Counting(1) /\ NoOrder # Counting(-1) /\ own.op # "count"  BY <2>2, OrdersAre
  <2>6. (IF NoOrder = Counting(1) THEN 1 ELSE 0) - (IF NoOrder = Counting(-1) THEN 1 ELSE 0) =
                    (IF Counted(x) THEN 1 ELSE 0) - (IF k \in CountedRows THEN 1 ELSE 0)
    BY <2>3, <2>4, <2>5 DEF Counted
  <2>7. /\ drifted' \in BOOLEAN /\ crowded' \in BOOLEAN
        /\ (~drifted' => ~drifted) /\ (~crowded' => ~crowded)
    BY <2>2, UsageFacts
  <2>8. ~Counted(x)  BY <2>3 DEF Counted
  <2> HIDE DEF own, x
  <2> QED  BY <1>1, <2>1, <2>2, <2>3, <2>5, <2>6, <2>7, <2>8
<1>4. ASSUME StandDown(c) PROVE UsageInv'
  <2> DEFINE k == own.row
             x == [entry[k] EXCEPT !.active = FALSE]
  <2>1. own.op = "stand down" /\ Carries(c, Counting(-1)) /\ UNCHANGED <<usage, crowded, orders>>
    BY <1>4 DEF StandDown, Goes
  <2>2. k \in Entered /\ k \in Countables /\ entry[k] \in Entry /\ ~own.seen.deleted
    BY <1>0, <2>1, UsageFacts DEF OrderFits, Entered
  <2>3. x \in Entry /\ ~x.active /\ x.deleted = entry[k].deleted /\ x.seeded = entry[k].seeded
    BY <2>2 DEF Entry
  <2>4. entry' = [entry EXCEPT ![k] = x]  BY <1>4 DEF StandDown
  <2>5. drifted' = (drifted \/ entry[k] # own.seen \/ ~entry[k].active \/ entry[k].seeded)
    BY <1>4 DEF StandDown, Drifts, Overtaken
  <2>6. drifted' \in BOOLEAN  BY <2>5
  <2>7. ~drifted' => ~drifted /\ k \in CountedRows  BY <2>2, <2>5 DEF CountedRows
  <2>8. ~drifted' => (IF Counting(-1) = Counting(1) THEN 1 ELSE 0) - (IF Counting(-1) = Counting(-1) THEN 1 ELSE 0) =
                    (IF Counted(x) THEN 1 ELSE 0) - (IF k \in CountedRows THEN 1 ELSE 0)
    BY <2>3, <2>7, OrdersAre DEF Counted
  <2>9. /\ x.seeded => resource = "customFields"
        /\ x.deleted => resource # "customFields"
    BY <2>2, <2>3 DEF UsageInv, RowsFit
  <2>10. /\ crowded' \in BOOLEAN /\ (~crowded' => ~crowded) /\ orders' \in 0..MaxOrders
         /\ own.op # "count" /\ ~Counted(x)
    BY <2>1, <2>3, UsageFacts DEF Counted
  <2> HIDE DEF own, x, k
  <2> QED  BY <1>1, <2>1, <2>2, <2>3, <2>4, <2>6, <2>7, <2>8, <2>9, <2>10, OrdersAre
<1>5. ASSUME DeleteEntry(c) PROVE UsageInv'
  <2> DEFINE k == own.row
             x == [entry[k] EXCEPT !.deleted = TRUE]
             o == IF own.seen.active THEN Counting(-1) ELSE NoOrder
  <2>1. own.op = "delete" /\ Carries(c, o) /\ UNCHANGED <<usage, crowded, orders>>
    BY <1>5 DEF DeleteEntry, Goes
  <2>2. /\ k \in Entered /\ k \in Countables /\ entry[k] \in Entry /\ ~own.seen.deleted
        /\ resource # "customFields"
    BY <1>0, <2>1, UsageFacts DEF OrderFits, Entered
  <2>3. x \in Entry /\ x.deleted /\ x.active = entry[k].active /\ x.seeded = entry[k].seeded
    BY <2>2 DEF Entry
  <2>4. entry' = [entry EXCEPT ![k] = x]  BY <1>5 DEF DeleteEntry
  <2>5. drifted' = (drifted \/ entry[k] # own.seen)  BY <1>5 DEF DeleteEntry, Drifts, Overtaken
  <2>6. drifted' \in BOOLEAN  BY <2>5
  <2>7. ~entry[k].seeded  BY <2>2 DEF UsageInv, RowsFit
  <2>8. ~drifted' => ~drifted /\ (own.seen.active <=> k \in CountedRows)
    BY <2>2, <2>5, <2>7 DEF CountedRows
  <2>9. o \in {NoOrder, Counting(1), Counting(-1)} /\ (o = Counting(-1) <=> own.seen.active) /\ o # Counting(1)
    BY OrdersAre
  <2>10. /\ crowded' \in BOOLEAN /\ (~crowded' => ~crowded) /\ orders' \in 0..MaxOrders
         /\ own.op # "count" /\ ~Counted(x)
    BY <2>1, <2>3, UsageFacts DEF Counted
  <2> HIDE DEF own, x, k, o
  <2>11. ~drifted' => (IF o = Counting(1) THEN 1 ELSE 0) - (IF o = Counting(-1) THEN 1 ELSE 0) =
                    (IF Counted(x) THEN 1 ELSE 0) - (IF k \in CountedRows THEN 1 ELSE 0)
    BY <2>8, <2>9, <2>10
  <2> QED  BY <1>1, <2>1, <2>2, <2>3, <2>4, <2>6, <2>7, <2>8, <2>9, <2>10, <2>11
<1>6. ASSUME RestoreEntry(c) PROVE UsageInv'
  <2> DEFINE k == own.row
             x == IF resource = "customFields" THEN [entry[k] EXCEPT !.active = TRUE]
                  ELSE [entry[k] EXCEPT !.deleted = FALSE]
             o == IF own.seen.active \/ resource = "customFields" THEN Counting(1) ELSE NoOrder
  <2>1. own.op = "restore" /\ Carries(c, o) /\ UNCHANGED <<usage, orders>>
    BY <1>6 DEF RestoreEntry, Goes
  <2>2. /\ k \in Entered /\ k \in Countables /\ entry[k] \in Entry
        /\ resource = "people" /\ ~own.seen.active => ~entry[k].active
    BY <1>0, <2>1, UsageFacts DEF OrderFits, Entered
  <2>3. /\ x \in Entry /\ x.seeded = entry[k].seeded
        /\ resource = "customFields" => x.active /\ x.deleted = entry[k].deleted
        /\ resource # "customFields" => ~x.deleted /\ x.active = entry[k].active
    BY <2>2 DEF Entry
  <2>4. entry' = [entry EXCEPT ![k] = x]  BY <1>6 DEF RestoreEntry
  <2>5. drifted' = (drifted \/ entry[k] # own.seen \/ entry[k] = x \/ entry[k].seeded)
    BY <1>6 DEF RestoreEntry, Drifts, Overtaken
  <2>6. drifted' \in BOOLEAN  BY <2>5
  <2>7. /\ entry[k].seeded => resource = "customFields"
        /\ entry[k].deleted => resource # "customFields"
    BY <2>2 DEF UsageInv, RowsFit
  <2>8. entry[k] # x => /\ resource = "customFields" => ~entry[k].active
                        /\ resource # "customFields" => entry[k].deleted
    BY <2>2 DEF Entry
  <2>9. o \in {NoOrder, Counting(1), Counting(-1)} /\ o # Counting(-1)
        /\ (o = Counting(1) <=> own.seen.active \/ resource = "customFields")
    BY OrdersAre
  <2>10. crowded' = (crowded \/ resource = "assets")  BY <1>6 DEF RestoreEntry
  <2>11. crowded' \in BOOLEAN /\ (~crowded' => ~crowded /\ resource # "assets") /\ orders' \in 0..MaxOrders
    BY <2>1, <2>10, UsageFacts
  <2>12. resource \in {"people", "assets", "customFields"}  BY UsageFacts DEF UsageTypes
  <2>13. resource # "assets" => InFlight(own)  BY <2>1 DEF InFlight, Admitted
  <2>14. (resource # "assets" /\ Counted(x)) => TakesAPlace(own)
    BY <2>1, <2>2, <2>3, <2>12 DEF TakesAPlace, Admitted, Counted
  <2>15. ~drifted' => /\ ~drifted /\ k \notin CountedRows
                      /\ Counted(x) <=> (own.seen.active \/ resource = "customFields")
    BY <2>2, <2>3, <2>5, <2>7, <2>8 DEF CountedRows, Counted
  <2> HIDE DEF own, x, k, o
  <2>16. ~drifted' => (IF o = Counting(1) THEN 1 ELSE 0) - (IF o = Counting(-1) THEN 1 ELSE 0) =
                    (IF Counted(x) THEN 1 ELSE 0) - (IF k \in CountedRows THEN 1 ELSE 0)
    BY <2>9, <2>15
  <2>17. /\ x.seeded => resource = "customFields"
         /\ x.deleted => resource # "customFields"
         /\ resource = "people" /\ k \in Entered /\ ~entry[k].active => ~x.active
         /\ own.op # "count"
    BY <2>1, <2>3, <2>7
  <2> QED  BY <1>1, <2>1, <2>2, <2>3, <2>4, <2>6, <2>9, <2>11, <2>13, <2>14, <2>15, <2>16, <2>17
<1> QED  BY <1>2, <1>3, <1>4, <1>5, <1>6

\* A request that moves the counter, or ends before it has.
LEMMA CountKeepsUsage ==
  ASSUME UsageInv, NEW c \in Clerks, IncrementUsage(c) \/ OrderEnds(c)
  PROVE  UsageInv'
<1> DEFINE own == order[c]
<1>0. own \in Order /\ OrderFits(own)  BY UsageFacts
<1>1. ASSUME Carries(c, NoOrder), UNCHANGED <<entry, orders, crowded>>, drifted' \in BOOLEAN,
             NEW s \in Int, usage' = usage + s,
             ~drifted' => /\ ~drifted
                          /\ s - (IF own = Counting(1) THEN 1 ELSE 0) + (IF own = Counting(-1) THEN 1 ELSE 0) = 0
      PROVE  UsageInv'
  <2>1. resource' = resource  BY <1>1 DEF Carries
  <2>2. Entered' = Entered /\ CountedRows' = CountedRows  BY <1>1 DEF Entered, CountedRows
  <2>3. RowsFit'  BY <1>1, <2>1, <2>2 DEF UsageInv, RowsFit
  <2>4. OrderFits(NoOrder)'  BY OrdersAre DEF OrderFits
  <2>5. Cardinality(CountedRows') = Cardinality(CountedRows) + 0  BY <1>1, <2>2, UsageFacts
  <2>6. NoOrder # Counting(1) /\ NoOrder # Counting(-1)  BY OrdersAre
  <2>7. ~TakesAPlace(NoOrder) /\ ~InFlight(NoOrder)
    BY <2>6, OrdersAre DEF TakesAPlace, InFlight, Admitted
  <2>8. ~drifted' =>
           /\ ~drifted
           /\ s + (IF NoOrder = Counting(1) THEN 1 ELSE 0) - (IF own = Counting(1) THEN 1 ELSE 0)
                - (IF NoOrder = Counting(-1) THEN 1 ELSE 0) + (IF own = Counting(-1) THEN 1 ELSE 0) = 0
    BY <1>1, <2>6
  <2>9. 0 <= (IF TakesAPlace(own) THEN 1 ELSE 0)  OBVIOUS
  <2>10. \A k \in Entered : resource = "people" /\ ~entry[k].active => ~entry'[k].active
    BY <1>1
  <2>11. /\ entry' \in [Countables -> Entry \cup {Uncreated}] /\ Entered \subseteq Entered'
         /\ orders' \in 0..MaxOrders /\ crowded' \in BOOLEAN /\ (~crowded' => ~crowded)
    BY <1>1, <2>2, UsageFacts
  <2> HIDE DEF own
  <2> QED  BY <1>1, <2>3, <2>4, <2>5, <2>7, <2>8, <2>9, <2>10, <2>11, OrdersAre, OrderStepKeeps DEF own
<1>2. ASSUME IncrementUsage(c) PROVE UsageInv'
  <2>1. own.op = "count" /\ Carries(c, NoOrder) /\ UNCHANGED <<entry, orders, crowded, drifted>>
    BY <1>2 DEF IncrementUsage, Goes
  <2>2. usage' = usage + own.by  BY <1>2 DEF IncrementUsage
  <2>3. own.by \in {-1, 1} /\ own = Counting(own.by)  BY <1>0, <2>1, OrderTypes
  <2>4. own.by - (IF own = Counting(1) THEN 1 ELSE 0) + (IF own = Counting(-1) THEN 1 ELSE 0) = 0
    <3>1. CASE own.by = 1  BY <2>3, <3>1, OrdersAre
    <3>2. CASE own.by = -1  BY <2>3, <3>2, OrdersAre
    <3> QED  BY <2>3, <3>1, <3>2
  <2>5. own.by \in Int  BY <2>3
  <2>6. drifted' \in BOOLEAN /\ (~drifted' => ~drifted)  BY <2>1, UsageFacts
  <2> HIDE DEF own
  <2> QED  BY <1>1, <2>1, <2>2, <2>4, <2>5, <2>6
<1>3. ASSUME OrderEnds(c) PROVE UsageInv'
  <2>1. /\ Carries(c, NoOrder) /\ UNCHANGED <<entry, orders, crowded, usage>>
        /\ drifted' = (drifted \/ own.op = "count")
    BY <1>3 DEF OrderEnds, Drifts
  <2>2. drifted' \in BOOLEAN /\ (~drifted' => ~drifted /\ own # Counting(1) /\ own # Counting(-1))
    BY <2>1, OrdersAre
  <2>3. ~drifted' => 0 - (IF own = Counting(1) THEN 1 ELSE 0) + (IF own = Counting(-1) THEN 1 ELSE 0) = 0
    BY <2>2
  <2>4. usage' = usage + 0  BY <2>1, UsageFacts
  <2> HIDE DEF own
  <2> QED  BY <1>1, <2>1, <2>2, <2>3, <2>4
<1> QED  BY <1>2, <1>3

\* The reconciliation, and a step that changes nothing here.
LEMMA RecountKeepsUsage ==
  ASSUME UsageInv,
         CountEntries \/ CompareUsage \/ SetUsage \/ RecountDies \/ UNCHANGED usageVars
  PROVE  UsageInv'
<1>1. ASSUME UNCHANGED <<resource, entry, order, orders, crowded>>, usage' \in Int, drifted' \in BOOLEAN,
             recount' \in [pc : {"idle", "counted", "differs"}, found : Int, quiet : BOOLEAN],
             recount'.quiet => /\ \A c \in Clerks : IdleClerk(c)
                               /\ recount'.found = Cardinality(CountedRows),
             ~drifted' => \/ ~drifted /\ usage' = usage
                          \/ usage' = Cardinality(CountedRows) /\ \A c \in Clerks : IdleClerk(c)
      PROVE  UsageInv'
  <2>1. /\ Entered' = Entered /\ CountedRows' = CountedRows /\ resource' = resource
        /\ \A by : Counters(by)' = Counters(by)
    BY <1>1 DEF Entered, CountedRows, Counters
  <2>2. UsageTypes'  BY <1>1 DEF UsageInv, UsageTypes
  <2>3. RowsFit'  BY <1>1, <2>1 DEF UsageInv, RowsFit
  <2>4. OrdersFit'  BY <1>1, <2>1 DEF UsageInv, OrdersFit, OrderFits
  <2>5. QuietRecount'  BY <1>1, <2>1 DEF QuietRecount, IdleClerk
  <2>6. ASSUME ~drifted' PROVE CounterBalanced'
    <3>1. CASE ~drifted /\ usage' = usage  BY <2>1, <3>1 DEF UsageInv, CounterBalanced
    <3>2. CASE usage' = Cardinality(CountedRows) /\ \A c \in Clerks : IdleClerk(c)
      <4>1. Counters(1) = {} /\ Counters(-1) = {}  BY <3>2, OrdersAre DEF Counters, IdleClerk
      <4>2. Cardinality(Counters(1)') = 0 /\ Cardinality(Counters(-1)') = 0
        BY <2>1, <4>1, FS_EmptySet
      <4>3. Cardinality(CountedRows') = usage'  BY <2>1, <3>2
      <4> QED  BY <1>1, <4>2, <4>3 DEF CounterBalanced
    <3> QED  BY <1>1, <2>6, <3>1, <3>2
  <2>7. RoomLeft' = RoomLeft  BY <1>1, <2>1 DEF RoomLeft, TakesAPlace, InFlight, Admitted
  <2> QED  BY <1>1, <2>2, <2>3, <2>4, <2>5, <2>6, <2>7 DEF UsageInv
<1>0. recount \in [pc : {"idle", "counted", "differs"}, found : Int, quiet : BOOLEAN]
  BY UsageFacts DEF UsageTypes
<1>2. NoRecount \in [pc : {"idle", "counted", "differs"}, found : Int, quiet : BOOLEAN] /\ ~NoRecount.quiet
  BY DEF NoRecount
<1>3. recount.quiet => /\ \A c \in Clerks : IdleClerk(c)
                       /\ recount.found = Cardinality(CountedRows)
  BY DEF UsageInv, QuietRecount
<1>4. ASSUME CountEntries PROVE UsageInv'
  <2> DEFINE still == \A c \in Clerks : IdleClerk(c)
             r == [pc |-> "counted", found |-> Cardinality(CountedRows), quiet |-> still]
  <2>1. recount' = r /\ UNCHANGED <<resource, entry, usage, order, orders, drifted, crowded>>
    BY <1>4 DEF CountEntries
  <2>2. still \in BOOLEAN  OBVIOUS
  <2> HIDE DEF still
  <2>3. /\ r \in [pc : {"idle", "counted", "differs"}, found : Int, quiet : BOOLEAN]
        /\ r.found = Cardinality(CountedRows) /\ r.quiet = still
    BY <2>2, UsageFacts
  <2> HIDE DEF r
  <2> QED  BY <1>1, <2>1, <2>3, UsageFacts DEF still
<1>5. ASSUME CompareUsage PROVE UsageInv'
  <2> DEFINE r == [recount EXCEPT !.pc = "differs"]
  <2>1. /\ recount' = NoRecount \/ recount' = r
        /\ UNCHANGED <<resource, entry, usage, order, orders, drifted, crowded>>
    BY <1>5 DEF CompareUsage
  <2>2. /\ r \in [pc : {"idle", "counted", "differs"}, found : Int, quiet : BOOLEAN]
        /\ r.found = recount.found /\ r.quiet = recount.quiet
    BY <1>0
  <2> HIDE DEF r
  <2> QED  BY <1>1, <1>2, <1>3, <2>1, <2>2, UsageFacts
<1>6. ASSUME SetUsage PROVE UsageInv'
  <2>1. /\ recount' = NoRecount /\ usage' = recount.found /\ drifted' = ~recount.quiet
        /\ UNCHANGED <<resource, entry, order, orders, crowded>>
    BY <1>6 DEF SetUsage
  <2>2. recount.found \in Int /\ recount.quiet \in BOOLEAN  BY <1>0
  <2>3. drifted' \in BOOLEAN /\ (~drifted' => recount.quiet)  BY <2>1, <2>2
  <2> QED  BY <1>1, <1>2, <1>3, <2>1, <2>2, <2>3
<1>7. ASSUME RecountDies PROVE UsageInv'
  <2>1. recount' = NoRecount /\ UNCHANGED <<resource, entry, usage, order, orders, drifted, crowded>>
    BY <1>7 DEF RecountDies
  <2> QED  BY <1>1, <1>2, <2>1, UsageFacts
<1>8. ASSUME UNCHANGED usageVars PROVE UsageInv'
  <2>1. UNCHANGED <<resource, entry, usage, order, recount, orders, drifted, crowded>>
    BY <1>8 DEF usageVars
  <2> QED  BY <1>0, <1>1, <1>3, <2>1, UsageFacts
<1> QED  BY <1>4, <1>5, <1>6, <1>7, <1>8

\* The invariant holds at first.
LEMMA UsageInitInv == UsageInit => UsageInv
<1> SUFFICES ASSUME UsageInit PROVE UsageInv  OBVIOUS
<1>1. \A c \in Clerks : order[c] = NoOrder  BY DEF UsageInit
<1>2. Entered = {} /\ CountedRows = {}  BY DEF UsageInit, Entered, CountedRows
<1>3. Counters(1) = {} /\ Counters(-1) = {}  BY <1>1, OrdersAre DEF Counters
<1>4. Cardinality({}) = 0  BY FS_EmptySet
<1>5. UsageTypes
  <2>1. order \in [Clerks -> Order]  BY OrdersAre DEF UsageInit
  <2>2. recount \in [pc : {"idle", "counted", "differs"}, found : Int, quiet : BOOLEAN]
    BY DEF UsageInit, NoRecount
  <2>3. orders \in 0..MaxOrders /\ usage \in Int  BY UsageAssumption DEF UsageInit
  <2>4. drifted = FALSE /\ crowded = FALSE  BY DEF UsageInit
  <2>5. drifted \in BOOLEAN /\ crowded \in BOOLEAN  BY <2>4
  <2>6. resource \in {"people", "assets", "customFields"} /\ entry \in [Countables -> Entry \cup {Uncreated}]
    BY DEF UsageInit
  <2> QED  BY <2>1, <2>2, <2>3, <2>5, <2>6 DEF UsageTypes
<1>6. RowsFit /\ OrdersFit  BY <1>1, <1>2, OrdersAre DEF RowsFit, OrdersFit, OrderFits
<1>7. QuietRecount  BY DEF UsageInit, NoRecount, QuietRecount
<1>8. CounterBalanced
  <2>1. usage = 0  BY DEF UsageInit
  <2> QED  BY <1>2, <1>3, <1>4, <2>1 DEF CounterBalanced
<1>9. RoomLeft
  <2>1. NoOrder # Counting(1)  BY OrdersAre
  <2>2. \A c \in Clerks : ~InFlight(order[c]) /\ ~TakesAPlace(order[c])
    BY <1>1, <2>1, OrdersAre DEF InFlight, TakesAPlace, Admitted
  <2>3. Cardinality(CountedRows) <= PlanLimit  BY <1>2, <1>4, UsageAssumption
  <2> QED  BY <2>2, <2>3 DEF RoomLeft
<1> QED  BY <1>5, <1>6, <1>7, <1>8, <1>9 DEF UsageInv

\* The invariant is inductive.
LEMMA UsageInductive == UsageInv /\ [UsageNext]_usageVars => UsageInv'
BY ReadKeepsUsage, WriteKeepsUsage, CountKeepsUsage, RecountKeepsUsage DEF UsageNext

\* However many requests and recounts run side by side, the counter of people, assets or
\* custom fields is the number of rows once every request has finished, and the rows
\* never pass the plan's limit, in every history free of what the code does not guard
\* against (usage.service.ts:29).
THEOREM UsageKeepsCount == UsageSpec => []UsageAgrees
<1>1. UsageInv => UsageAgrees
  <2> SUFFICES ASSUME UsageInv PROVE UsageAgrees  OBVIOUS
  <2>1. ASSUME ~drifted, \A c \in Clerks : IdleClerk(c) PROVE usage = Cardinality(CountedRows)
    <3>1. Counters(1) = {} /\ Counters(-1) = {}  BY <2>1, OrdersAre DEF Counters, IdleClerk
    <3>2. CounterBalanced /\ usage \in Int  BY <2>1, UsageFacts DEF UsageInv
    <3>3. usage + Cardinality({}) - Cardinality({}) = Cardinality(CountedRows)
      BY <3>1, <3>2 DEF CounterBalanced
    <3> QED  BY <3>2, <3>3, FS_EmptySet
  <2> QED  BY <2>1 DEF UsageInv, UsageAgrees, RoomLeft
<1> QED  BY <1>1, UsageInitInv, UsageInductive, PTL DEF UsageSpec

-----------------------------------------------------------------------------
\* A request moves the counter by one at most, so that it stays as close to what
\* the last recount found, or to nothing, as there were requests.
Busy == {c \in Clerks : ~IdleClerk(c)}

UsageBounded ==
  /\ recount.found \in 0..Cardinality(Countables)
  /\ Cardinality(Busy) <= orders
  /\ 0 - orders <= usage - Cardinality(Busy)
  /\ usage + Cardinality(Busy) <= Cardinality(Countables) + orders

LEMMA BusyCounted == IsFiniteSet(Busy) /\ Cardinality(Busy) \in Nat /\ Cardinality(Countables) \in Nat
<1>1. IsFiniteSet(Busy)  BY UsageAssumption, FS_Subset DEF Busy
<1> QED  BY <1>1, UsageAssumption, FS_CardinalityType

\* One request more or less, or as many as before.
LEMMA BusyMoves ==
  ASSUME UsageTypes, NEW c \in Clerks, NEW o \in Order, order' = [order EXCEPT ![c] = o]
  PROVE  Cardinality(Busy') = Cardinality(Busy)
           + (IF o = NoOrder THEN 0 ELSE 1) - (IF order[c] = NoOrder THEN 0 ELSE 1)
<1>1. \A q \in Clerks : order'[q] = IF q = c THEN o ELSE order[q]  BY DEF UsageTypes
<1>2. IsFiniteSet(Busy) /\ Cardinality(Busy) \in Nat  BY BusyCounted
<1>3. c \in Busy <=> order[c] # NoOrder  BY DEF Busy, IdleClerk
<1>4. CASE o # NoOrder
  <2>1. Busy' = Busy \cup {c}  BY <1>1, <1>4 DEF Busy, IdleClerk
  <2>2. Cardinality(Busy \cup {c}) = IF c \in Busy THEN Cardinality(Busy) ELSE Cardinality(Busy) + 1
    BY <1>2, FS_AddElement
  <2> QED  BY <1>2, <1>3, <1>4, <2>1, <2>2
<1>5. CASE o = NoOrder
  <2>1. Busy' = Busy \ {c}  BY <1>1, <1>5 DEF Busy, IdleClerk
  <2>2. Cardinality(Busy \ {c}) = IF c \in Busy THEN Cardinality(Busy) - 1 ELSE Cardinality(Busy)
    BY <1>2, FS_RemoveElement
  <2> QED  BY <1>2, <1>3, <1>5, <2>1, <2>2
<1> QED  BY <1>4, <1>5

\* A call of a request keeps the bounds if it moves the counter only when the
\* request ends, by one at most.
LEMMA OrderStepBounded ==
  ASSUME UsageTypes, UsageBounded, NEW c \in Clerks, NEW o \in Order, Carries(c, o),
         NEW s \in {-1, 0, 1}, usage' = usage + s,
         \/ s = 0 /\ order[c] = NoOrder /\ orders' = orders + 1
         \/ s = 0 /\ order[c] # NoOrder /\ orders' = orders
         \/ o = NoOrder /\ order[c] # NoOrder /\ orders' = orders
  PROVE  UsageBounded'
<1>1. order' = [order EXCEPT ![c] = o] /\ recount' = [recount EXCEPT !.quiet = FALSE]
  BY DEF Carries
<1>2. recount'.found = recount.found  BY <1>1 DEF UsageTypes
<1>3. Cardinality(Busy') = Cardinality(Busy)
           + (IF o = NoOrder THEN 0 ELSE 1) - (IF order[c] = NoOrder THEN 0 ELSE 1)
  BY <1>1, BusyMoves
<1>4. /\ Cardinality(Busy) \in Nat /\ Cardinality(Countables) \in Nat
      /\ usage \in Int /\ orders \in Nat
  BY BusyCounted, UsageAssumption DEF UsageTypes
<1>5. PICK b, d : b = Cardinality(Busy) /\ d = Cardinality(Busy')  OBVIOUS
<1>6. /\ b \in Nat /\ d \in Int /\ b <= orders /\ 0 - orders <= usage - b
      /\ usage + b <= Cardinality(Countables) + orders
      /\ d = b + (IF o = NoOrder THEN 0 ELSE 1) - (IF order[c] = NoOrder THEN 0 ELSE 1)
  BY <1>3, <1>4, <1>5 DEF UsageBounded
<1>7. /\ d <= orders' /\ 0 - orders' <= usage' - d
      /\ usage' + d <= Cardinality(Countables) + orders'
  <2>1. CASE s = 0 /\ order[c] = NoOrder /\ orders' = orders + 1  BY <1>4, <1>6, <2>1
  <2>2. CASE s = 0 /\ order[c] # NoOrder /\ orders' = orders  BY <1>4, <1>6, <2>2
  <2>3. CASE o = NoOrder /\ order[c] # NoOrder /\ orders' = orders
    <3>1. d = b - 1  BY <1>6, <2>3
    <3> QED  BY <1>4, <1>6, <2>3, <3>1
  <2> QED  BY <2>1, <2>2, <2>3
<1> QED  BY <1>2, <1>5, <1>7 DEF UsageBounded

LEMMA UsageNextBounded ==
  UsageInv /\ UsageInv' /\ UsageBounded /\ [UsageNext]_usageVars => UsageBounded'
<1> SUFFICES ASSUME UsageInv, UsageInv', UsageBounded, [UsageNext]_usageVars PROVE UsageBounded'
  OBVIOUS
<1>0. UsageTypes /\ UsageTypes' /\ usage + 0 = usage
  <2>1. UsageTypes /\ UsageTypes'  BY DEF UsageInv
  <2> QED  BY <2>1 DEF UsageTypes
<1>1. ASSUME NEW c \in Clerks, NEW o \in Order, Takes(c, o), UNCHANGED usage PROVE UsageBounded'
  BY <1>0, <1>1, OrderStepBounded DEF Takes, IdleClerk
<1>2. ASSUME NEW c \in Clerks, NEW o \in Order, NEW op, op # "none", Goes(c, op, o), UNCHANGED usage
      PROVE UsageBounded'
  BY <1>0, <1>2, OrderStepBounded, OrdersAre DEF Goes
<1>3. ASSUME NEW c \in Clerks,
             \/ CheckLimit(c) \/ SeedField(c) \/ CheckFieldLimit(c)
             \/ \E k \in Countables : FindToStandDown(c, k) \/ FindToDelete(c, k)
      PROVE UsageBounded'
  <2>1. [op |-> "create"] \in Order /\ [op |-> "readmit"] \in Order /\ NoOrder \in Order
    BY DEF Order
  <2>2. ASSUME NEW k \in Entered
        PROVE  /\ [op |-> "stand down", row |-> k, seen |-> entry[k]] \in Order
               /\ [op |-> "delete", row |-> k, seen |-> entry[k]] \in Order
    <3>1. k \in Countables /\ entry[k] \in Entry  BY <1>0 DEF Entered, UsageTypes
    <3> QED  BY <3>1 DEF Order
  <2> QED  BY <1>1, <1>3, <2>1, <2>2
           DEF CheckLimit, SeedField, CheckFieldLimit, FindToStandDown, FindToDelete
<1>4. ASSUME NEW c \in Clerks, \E k \in Countables : FindToRestore(c, k) \/ FindField(c, k)
      PROVE UsageBounded'
  <2>1. PICK k \in Entered : FindToRestore(c, k) \/ FindField(c, k)
    BY <1>4 DEF FindToRestore, FindField
  <2>2. k \in Countables /\ entry[k] \in Entry  BY <1>0 DEF Entered, UsageTypes
  <2>3. /\ [op |-> "admit", row |-> k, seen |-> entry[k]] \in Order
        /\ [op |-> "restore", row |-> k, seen |-> entry[k]] \in Order
    BY <2>2 DEF Order
  <2> QED  BY <1>1, <1>2, <2>1, <2>3 DEF FindToRestore, FindField
<1>5. ASSUME NEW c \in Clerks, CreateEntry(c) \/ StandDown(c) \/ DeleteEntry(c) \/ RestoreEntry(c)
      PROVE UsageBounded'
  BY <1>2, <1>5, OrdersAre DEF CreateEntry, StandDown, DeleteEntry, RestoreEntry
<1>6. ASSUME NEW c \in Clerks, AdmitPerson(c) PROVE UsageBounded'
  <2>1. order[c] \in Order /\ order[c].op = "admit"  BY <1>0, <1>6 DEF AdmitPerson, UsageTypes
  <2>2. order'[c] \in Order /\ order'[c] = [order[c] EXCEPT !.op = "restore"]
    BY <1>0, <1>6 DEF AdmitPerson, Goes, Carries, UsageTypes
  <2> QED  BY <1>2, <1>6, <2>2 DEF AdmitPerson
<1>7. ASSUME NEW c \in Clerks, IncrementUsage(c) PROVE UsageBounded'
  <2>1. order[c] \in Order /\ order[c].op = "count"  BY <1>0, <1>7 DEF IncrementUsage, Goes, UsageTypes
  <2>2. order[c].by \in {-1, 0, 1} /\ order[c] # NoOrder  BY <2>1, OrderTypes
  <2> QED  BY <1>0, <1>7, <2>2, OrdersAre, OrderStepBounded DEF IncrementUsage, Goes
<1>8. ASSUME NEW c \in Clerks, OrderEnds(c) PROVE UsageBounded'
  BY <1>0, <1>8, OrdersAre, OrderStepBounded DEF OrderEnds, IdleClerk
<1>9. ASSUME UNCHANGED <<usage, order, orders>>, recount'.found \in 0..Cardinality(Countables)
      PROVE UsageBounded'
  BY <1>9 DEF UsageBounded, Busy, IdleClerk
<1>10. Cardinality(CountedRows) \in 0..Cardinality(Countables)
  <2>1. CountedRows \subseteq Countables  BY DEF CountedRows, Entered
  <2>2. Cardinality(CountedRows) <= Cardinality(Countables)  BY <2>1, UsageAssumption, FS_Subset
  <2> QED  BY <2>2, UsageSetsFinite, BusyCounted
<1>11. 0 \in 0..Cardinality(Countables) /\ NoRecount.found = 0  BY BusyCounted DEF NoRecount
<1>12. CASE CountEntries \/ CompareUsage \/ RecountDies
  <2>1. CASE CountEntries  BY <1>9, <1>10, <2>1 DEF CountEntries
  <2>2. CASE CompareUsage
    <3>1. recount'.found = recount.found \/ recount' = NoRecount
      BY <1>0, <2>2 DEF CompareUsage, UsageTypes
    <3> QED  BY <1>9, <1>11, <2>2, <3>1 DEF CompareUsage, UsageBounded
  <2>3. CASE RecountDies  BY <1>9, <1>11, <2>3 DEF RecountDies
  <2> QED  BY <1>12, <2>1, <2>2, <2>3
<1>13. CASE SetUsage
  <2>1. usage' = recount.found /\ order' = order /\ orders' = orders /\ recount' = NoRecount
    BY <1>13 DEF SetUsage
  <2>2. Busy' = Busy  BY <2>1 DEF Busy, IdleClerk
  <2>3. orders \in Nat  BY <1>0, UsageAssumption DEF UsageTypes
  <2> QED  BY <1>11, <2>1, <2>2, <2>3, BusyCounted DEF UsageBounded
<1>14. CASE UNCHANGED usageVars  BY <1>9, <1>14 DEF usageVars, UsageBounded
<1> QED  BY <1>3, <1>4, <1>5, <1>6, <1>7, <1>8, <1>12, <1>13, <1>14 DEF UsageNext

LEMMA UsageInitBounded == UsageInit => UsageBounded
<1> SUFFICES ASSUME UsageInit PROVE UsageBounded  OBVIOUS
<1>1. Busy = {}  BY DEF UsageInit, Busy, IdleClerk
<1>2. Cardinality(Busy) = 0  BY <1>1, FS_EmptySet
<1>3. usage = 0 /\ orders = 0 /\ recount = NoRecount /\ NoRecount.found = 0
  BY DEF UsageInit, NoRecount
<1> QED  BY <1>2, <1>3, BusyCounted DEF UsageBounded

\* Every variable has its type, and the counter in particular never leaves the
\* number of rows by more than there were requests, however the requests and the
\* recount interleave and wherever they end: no call moves it by more than one
\* (incrementUsage()), and the recount sets it to a count.
THEOREM UsageTypeCorrect == UsageSpec => []UsageTypeOK
<1>1. UsageInit => UsageInv /\ UsageBounded  BY UsageInitInv, UsageInitBounded
<1>2. UsageInv /\ UsageBounded /\ [UsageNext]_usageVars => (UsageInv /\ UsageBounded)'
  BY UsageInductive, UsageNextBounded
<1>3. UsageInv /\ UsageBounded => UsageTypeOK
  <2> SUFFICES ASSUME UsageInv, UsageBounded PROVE UsageTypeOK  OBVIOUS
  <2>1. UsageTypes  BY DEF UsageInv
  <2>2. PICK b, d : b = Cardinality(Busy) /\ d = Cardinality(Countables)  OBVIOUS
  <2>3. /\ b \in Nat /\ d \in Nat /\ usage \in Int /\ orders \in Nat /\ orders <= MaxOrders
        /\ MaxOrders \in Nat /\ b <= orders /\ 0 - orders <= usage - b /\ usage + b <= d + orders
    BY <2>1, <2>2, BusyCounted, UsageAssumption DEF UsageTypes, UsageBounded
  <2>4. usage \in (0 - MaxOrders)..(d + MaxOrders)  BY <2>3
  <2>5. recount \in [pc : {"idle", "counted", "differs"}, found : 0..Cardinality(Countables),
                     quiet : BOOLEAN]
    BY <2>1 DEF UsageTypes, UsageBounded
  <2> QED  BY <2>1, <2>2, <2>4, <2>5 DEF UsageTypes, UsageTypeOK
<1> QED  BY <1>1, <1>2, <1>3, PTL DEF UsageSpec

-------------------------------------------------------------------------------
(***************************************************************************)
(* Documents.  An object has a row because a row outlives the links that can*)
(* bring its object back (BinAges, PurgesKeepOff).  The ledger is off by the*)
(* bytes that confirmed requests have still to count (LedgerInv).          *)
(***************************************************************************)

\* What is past the window is long past the life of an upload link.
BinAges == \A d \in Rows : row[d].bin = "old" => row[d].aged

\* What a purge has listed no link can bring back: rows that were reserved, whose
\* links are dead, and whose objects it has removed but for those left.
PurgesKeepOff ==
  \A r \in DocRequests : docTask[r].op = "purge" =>
    \A d \in docTask[r].listed :
      /\ row[d] # Absent
      /\ d \in Rows => row[d].aged
      /\ d \notin docTask[r].left => object[d] = Absent

DocumentsInv == DocumentsTypeOK /\ BinAges /\ PurgesKeepOff /\ NoOrphanObjects

-----------------------------------------------------------------------------
\* The invariant holds at first.
LEMMA DocumentsInitInv == DocumentsInit => DocumentsInv
<1> SUFFICES ASSUME DocumentsInit PROVE DocumentsInv
  OBVIOUS
<1>1. NoDocTask \in DocTask /\ NoDocTask.op = "none"  BY DEF NoDocTask, DocTask
<1>2. DocumentsTypeOK
  <2>1. docTask \in [DocRequests -> DocTask]  BY <1>1 DEF DocumentsInit
  <2>2. row \in [Docs -> Row \cup {Absent, Purged}]  BY DEF DocumentsInit
  <2>3. object \in [Docs -> Files \cup {Absent}]  BY DEF DocumentsInit
  <2>4. storageBytes \in Int  BY DEF DocumentsInit
  <2>5. docSlipped \in BOOLEAN  BY DEF DocumentsInit
  <2> QED  BY <2>1, <2>2, <2>3, <2>4, <2>5 DEF DocumentsTypeOK
<1>3. BinAges /\ PurgesKeepOff /\ NoOrphanObjects
  BY <1>1 DEF DocumentsInit, BinAges, PurgesKeepOff, NoOrphanObjects, Rows
<1> QED  BY <1>2, <1>3 DEF DocumentsInv

\* What a request holds between two calls.
LEMMA DocTaskType ==
  ASSUME DocumentsTypeOK, NEW r \in DocRequests
  PROVE  /\ docTask[r].op \in {"head", "reject", "drop", "verify", "save"} => docTask[r].doc \in Docs
         /\ docTask[r].op \in {"verify", "save"} => docTask[r].size \in Nat
         /\ docTask[r].op = "count" => docTask[r].bytes \in Int
         /\ docTask[r].op \in {"bin", "restore"} => docTask[r].doc \in Docs /\ docTask[r].copy \in Row
         /\ docTask[r].op = "purge" =>
              docTask[r] \in [op : {"purge"}, left : SUBSET Docs, listed : SUBSET Docs]
         /\ docTask[r].op \in {"sweep", "sweepRow"} => docTask[r].left \in SUBSET Docs
<1>1. docTask[r] \in DocTask  BY DEF DocumentsTypeOK
<1> QED  BY <1>1 DEF DocTask

\* A step after which rows are where they were or further on.
LEMMA DocumentsStep ==
  ASSUME DocumentsInv, DocumentsTypeOK', BinAges', NoOrphanObjects',
         \A d \in Docs : row[d] # Absent =>
           row'[d] # Absent /\ (d \in Rows' => d \in Rows /\ (row[d].aged => row'[d].aged)),
         \A d \in Docs : object'[d] \in {object[d], Absent} \/ (d \in Rows /\ ~row[d].aged),
         \A r \in DocRequests : docTask'[r].op = "purge" =>
           \/ docTask'[r] = docTask[r]
           \/ \A d \in docTask'[r].listed :
                /\ row'[d] # Absent
                /\ d \in Rows' => row'[d].aged
                /\ d \notin docTask'[r].left => object'[d] = Absent
  PROVE  DocumentsInv'
<1>1. ASSUME NEW r \in DocRequests, docTask[r].op = "purge", NEW d \in docTask[r].listed
      PROVE  /\ row'[d] # Absent
             /\ d \in Rows' => row'[d].aged
             /\ d \notin docTask[r].left => object'[d] = Absent
  <2>1. d \in Docs  BY <1>1, DocTaskType DEF DocumentsInv
  <2>2. /\ row[d] # Absent
        /\ d \in Rows => row[d].aged
        /\ d \notin docTask[r].left => object[d] = Absent
    BY <1>1 DEF DocumentsInv, PurgesKeepOff
  <2> QED  BY <2>1, <2>2
<1>2. PurgesKeepOff'  BY <1>1 DEF PurgesKeepOff
<1> QED  BY <1>2 DEF DocumentsInv

\* A row that is written keeps its age, and no row goes away.
LEMMA RowWritten ==
  ASSUME DocumentsInv, NEW d \in Docs, NEW x \in Row, row' = [row EXCEPT ![d] = x],
         row[d] # Purged, d \in Rows => (row[d].aged => x.aged), x.bin = "old" => x.aged
  PROVE  /\ row' \in [Docs -> Row \cup {Absent, Purged}]
         /\ BinAges' /\ Rows' = Rows \cup {d}
         /\ \A e \in Docs : row[e] # Absent =>
              row'[e] # Absent /\ (e \in Rows' => e \in Rows /\ (row[e].aged => row'[e].aged))
<1>1. x # Absent /\ x # Purged  BY NoDocumentAssumption
<1>2. \A e \in Docs : row'[e] = IF e = d THEN x ELSE row[e]  BY DEF DocumentsInv, DocumentsTypeOK
<1>3. Rows' = Rows \cup {d}  BY <1>1, <1>2 DEF Rows
<1>4. BinAges'  BY <1>2, <1>3 DEF BinAges, DocumentsInv
<1>5. row' \in [Docs -> Row \cup {Absent, Purged}]  BY DEF DocumentsInv, DocumentsTypeOK
<1>6. \A e \in Docs : row[e] # Absent =>
         row'[e] # Absent /\ (e \in Rows' => e \in Rows /\ (row[e].aged => row'[e].aged))
  <2> TAKE e \in Docs
  <2>1. CASE e = d  BY <1>1, <1>2, <2>1 DEF Rows
  <2>2. CASE e # d  BY <1>2, <1>3, <2>2
  <2> QED  BY <2>1, <2>2
<1> QED  BY <1>3, <1>4, <1>5, <1>6

\* A step that writes no row leaves every row there.
LEMMA RowsStay ==
  ASSUME DocumentsInv, UNCHANGED row
  PROVE  /\ row' \in [Docs -> Row \cup {Absent, Purged}]
         /\ BinAges' /\ Rows' = Rows
         /\ \A e \in Docs : row[e] # Absent =>
              row'[e] # Absent /\ (e \in Rows' => e \in Rows /\ (row[e].aged => row'[e].aged))
BY DEF DocumentsInv, DocumentsTypeOK, BinAges, Rows

\* A call of a request that writes at most one row and removes at most one object.
LEMMA DocCallKeeps ==
  ASSUME DocumentsInv, NEW r \in DocRequests, NEW t \in DocTask, docTask' = [docTask EXCEPT ![r] = t],
         t.op # "purge", storageBytes' \in Int, docSlipped' \in BOOLEAN,
         \/ UNCHANGED row
         \/ \E d \in Rows, x \in Row : /\ row' = [row EXCEPT ![d] = x]
                                       /\ row[d].aged => x.aged
                                       /\ x.bin = "old" => x.aged,
         UNCHANGED object \/ \E d \in Docs : object' = [object EXCEPT ![d] = Absent]
  PROVE  DocumentsInv'
<1>1. /\ row' \in [Docs -> Row \cup {Absent, Purged}] /\ BinAges' /\ Rows' = Rows
      /\ \A e \in Docs : row[e] # Absent =>
           row'[e] # Absent /\ (e \in Rows' => e \in Rows /\ (row[e].aged => row'[e].aged))
  <2>1. CASE UNCHANGED row  BY <2>1, RowsStay
  <2>2. ASSUME NEW d \in Rows, NEW x \in Row, row' = [row EXCEPT ![d] = x],
               row[d].aged => x.aged, x.bin = "old" => x.aged
        PROVE  /\ row' \in [Docs -> Row \cup {Absent, Purged}] /\ BinAges' /\ Rows' = Rows
               /\ \A e \in Docs : row[e] # Absent =>
                    row'[e] # Absent /\ (e \in Rows' => e \in Rows /\ (row[e].aged => row'[e].aged))
    <3>1. d \in Docs /\ row[d] # Purged /\ Rows \cup {d} = Rows  BY DEF Rows
    <3> QED  BY <2>2, <3>1, RowWritten
  <2> QED  BY <2>1, <2>2
<1>2. /\ object' \in [Docs -> Files \cup {Absent}]
      /\ \A e \in Docs : object'[e] \in {object[e], Absent}
  BY DEF DocumentsInv, DocumentsTypeOK
<1>3. NoOrphanObjects'  BY <1>1, <1>2 DEF DocumentsInv, NoOrphanObjects
<1>4. docTask' \in [DocRequests -> DocTask]  BY DEF DocumentsInv, DocumentsTypeOK
<1>5. DocumentsTypeOK'  BY <1>1, <1>2, <1>4 DEF DocumentsTypeOK
<1>6. \A q \in DocRequests : docTask'[q].op = "purge" => docTask'[q] = docTask[q]
  BY DEF DocumentsInv, DocumentsTypeOK
<1> QED  BY <1>1, <1>2, <1>3, <1>5, <1>6, DocumentsStep

\* The types, from the invariant.
LEMMA DocumentTypes ==
  ASSUME DocumentsInv
  PROVE  /\ storageBytes \in Int /\ docSlipped \in BOOLEAN
         /\ NoDocTask \in DocTask /\ NoDocTask.op = "none"
         /\ \A d \in Rows : row[d] \in Row
BY DEF DocumentsInv, DocumentsTypeOK, NoDocTask, DocTask, Rows

\* The first bytes of an object lead to the save or to the rejection.
LEMMA ReadHeadGoes ==
  ASSUME DocumentsTypeOK, NEW r \in DocRequests, ReadHead(r)
  PROVE  \E t \in DocTask : docTask' = [docTask EXCEPT ![r] = t] /\ t.op \in {"save", "reject"}
<1> DEFINE o == docTask[r]
           save == [o EXCEPT !.op = "save"]
           rej == [op |-> "reject", doc |-> o.doc]
<1>1. o \in DocTask /\ o.op = "verify"  BY DEF ReadHead, DocumentsTypeOK
<1>2. o \in [op : {"verify", "save"}, doc : Docs, size : Nat]  BY <1>1 DEF DocTask
<1>3. save \in DocTask /\ save.op = "save" /\ rej \in DocTask /\ rej.op = "reject"
  BY <1>2 DEF DocTask
<1>4. docTask' = [docTask EXCEPT ![r] = save] \/ docTask' = [docTask EXCEPT ![r] = rej]
  BY DEF ReadHead, Go
<1> HIDE DEF save, rej
<1> QED  BY <1>3, <1>4

\* Confirmations, up to the count of their bytes.
LEMMA ConfirmationKeeps ==
  ASSUME DocumentsInv, NEW r \in DocRequests,
         \/ HeadObject(r) \/ ReadHead(r) \/ ConfirmUpload(r) \/ Reject(r) \/ DropRejected(r)
         \/ AddStorageBytes(r) \/ \E d \in Docs : FindForConfirm(r, d)
  PROVE  DocumentsInv'
<1> DEFINE o == docTask[r]
<1>0. DocumentsTypeOK  BY DEF DocumentsInv
<1>1. ASSUME NEW d \in Docs, FindForConfirm(r, d) PROVE DocumentsInv'
  <2>1. [op |-> "head", doc |-> d] \in DocTask  BY DEF DocTask
  <2> QED  BY <1>1, <2>1, DocumentTypes, DocCallKeeps DEF FindForConfirm, Go
<1>2. ASSUME HeadObject(r) PROVE DocumentsInv'
  <2> DEFINE rej == [op |-> "reject", doc |-> o.doc]
             ver == [op |-> "verify", doc |-> o.doc, size |-> object[o.doc].size]
  <2>1. o.doc \in Docs  BY <1>0, <1>2, DocTaskType DEF HeadObject
  <2>2. object[o.doc].size \in Nat
    BY <1>0, <1>2, <2>1, DocumentsAssumption DEF HeadObject, DocumentsTypeOK
  <2>3. rej \in DocTask /\ ver \in DocTask /\ rej.op # "purge" /\ ver.op # "purge"
    BY <2>1, <2>2 DEF DocTask
  <2>4. docTask' = [docTask EXCEPT ![r] = rej] \/ docTask' = [docTask EXCEPT ![r] = ver]
    BY <1>2 DEF HeadObject, Go
  <2> HIDE DEF rej, ver
  <2> QED  BY <1>2, <2>3, <2>4, DocumentTypes, DocCallKeeps DEF HeadObject
<1>3. ASSUME ConfirmUpload(r) PROVE DocumentsInv'
  <2> DEFINE t == [op |-> "count", bytes |-> o.size]
             x == [row[o.doc] EXCEPT !.status = "ready", !.size = o.size]
  <2>1. o.doc \in Rows /\ o.size \in Nat /\ row[o.doc] \in Row
    BY <1>0, <1>3, DocTaskType, DocumentTypes DEF ConfirmUpload
  <2>2. t \in DocTask /\ t.op = "count"  BY <2>1 DEF DocTask
  <2>3. row' = [row EXCEPT ![o.doc] = x]  BY <1>0, <1>3, <2>1 DEF ConfirmUpload, DocumentsTypeOK, Rows
  <2>4. x \in Row /\ x.aged = row[o.doc].aged /\ x.bin = row[o.doc].bin  BY <2>1 DEF Row
  <2>5. row[o.doc].bin = "old" => row[o.doc].aged  BY <2>1 DEF DocumentsInv, BinAges
  <2>6. docTask' = [docTask EXCEPT ![r] = t] /\ UNCHANGED <<object, storageBytes>> /\ docSlipped' \in BOOLEAN
    BY <1>3 DEF ConfirmUpload, Go
  <2> HIDE DEF t, x
  <2> QED  BY <2>1, <2>2, <2>3, <2>4, <2>5, <2>6, DocumentTypes, DocCallKeeps
<1>4. ASSUME ReadHead(r) PROVE DocumentsInv'
  <2>1. PICK t \in DocTask : docTask' = [docTask EXCEPT ![r] = t] /\ t.op \in {"save", "reject"}
    BY <1>0, <1>4, ReadHeadGoes
  <2> QED  BY <1>4, <2>1, DocumentTypes, DocCallKeeps DEF ReadHead
<1>5. ASSUME Reject(r) PROVE DocumentsInv'
  <2> DEFINE t == [op |-> "drop", doc |-> o.doc]
             x == [row[o.doc] EXCEPT !.status = "rejected"]
  <2>1. o.doc \in Rows /\ o.doc \in Docs /\ row[o.doc] \in Row
    BY <1>5, DocumentTypes DEF Reject, Rows
  <2>2. t \in DocTask /\ t.op = "drop"  BY <2>1 DEF DocTask
  <2>3. row' = [row EXCEPT ![o.doc] = x]  BY <1>5 DEF Reject
  <2>4. x \in Row /\ x.aged = row[o.doc].aged /\ x.bin = row[o.doc].bin  BY <2>1 DEF Row
  <2>5. row[o.doc].bin = "old" => row[o.doc].aged  BY <2>1 DEF DocumentsInv, BinAges
  <2>6. docTask' = [docTask EXCEPT ![r] = t] /\ UNCHANGED <<object, storageBytes>> /\ docSlipped' \in BOOLEAN
    BY <1>5 DEF Reject, Go
  <2> HIDE DEF t, x
  <2> QED  BY <2>1, <2>2, <2>3, <2>4, <2>5, <2>6, DocumentTypes, DocCallKeeps
<1>6. ASSUME DropRejected(r) PROVE DocumentsInv'
  <2>1. o.doc \in Docs  BY <1>0, <1>6, DocTaskType DEF DropRejected
  <2> QED  BY <1>6, <2>1, DocumentTypes, DocCallKeeps DEF DropRejected, Keep, Go
<1>7. ASSUME AddStorageBytes(r) PROVE DocumentsInv'
  <2>1. o.bytes \in Int  BY <1>0, <1>7, DocTaskType DEF AddStorageBytes
  <2>2. storageBytes' \in Int  BY <1>7, <2>1, DocumentTypes DEF AddStorageBytes
  <2>3. docTask' = [docTask EXCEPT ![r] = NoDocTask] /\ UNCHANGED <<row, object, docSlipped>>
    BY <1>7 DEF AddStorageBytes, Keep, Go
  <2> QED  BY <2>2, <2>3, DocumentTypes, DocCallKeeps
<1> QED  BY <1>1, <1>2, <1>3, <1>4, <1>5, <1>6, <1>7

\* Into the bin, out of it, and requests that end.
LEMMA BinKeeps ==
  ASSUME DocumentsInv, NEW r \in DocRequests,
         \/ DeleteDocument(r) \/ RestoreDocument(r) \/ SweepRow(r) \/ ListAbandoned(r) \/ DocTaskEnds(r)
         \/ \E d \in Docs : FindForDelete(r, d) \/ FindForRestore(r, d) \/ SweepObject(r, d)
  PROVE  DocumentsInv'
<1> DEFINE o == docTask[r]
<1>0. DocumentsTypeOK  BY DEF DocumentsInv
<1>1. ASSUME NEW d \in Docs, FindForDelete(r, d) \/ FindForRestore(r, d) PROVE DocumentsInv'
  <2>1. row[d] \in Row  BY <1>1, DocumentTypes DEF FindForDelete, FindForRestore, Undeleted
  <2>2. PICK op \in {"bin", "restore"} :
          docTask' = [docTask EXCEPT ![r] = [op |-> op, doc |-> d, copy |-> row[d]]]
    BY <1>1 DEF FindForDelete, FindForRestore, Go
  <2>3. [op |-> op, doc |-> d, copy |-> row[d]] \in DocTask  BY <2>1 DEF DocTask
  <2> QED  BY <1>1, <2>2, <2>3, DocumentTypes, DocCallKeeps DEF FindForDelete, FindForRestore
<1>2. ASSUME DeleteDocument(r) \/ RestoreDocument(r) PROVE DocumentsInv'
  <2>1. o.doc \in Rows /\ o.doc \in Docs /\ row[o.doc] \in Row /\ o.copy.size \in Nat
    BY <1>0, <1>2, DocTaskType, DocumentTypes DEF DeleteDocument, RestoreDocument, Rows, Row
  <2>2. PICK t \in DocTask : docTask' = [docTask EXCEPT ![r] = t] /\ t.op \in {"count", "none"}
    <3> DEFINE u == [op |-> "count", bytes |-> 0 - o.copy.size]
               v == [op |-> "count", bytes |-> o.copy.size]
    <3>1. u \in DocTask /\ u.op = "count" /\ v \in DocTask /\ v.op = "count"  BY <2>1 DEF DocTask
    <3>2. docTask' \in {[docTask EXCEPT ![r] = u], [docTask EXCEPT ![r] = v],
                        [docTask EXCEPT ![r] = NoDocTask]}
      BY <1>2 DEF DeleteDocument, RestoreDocument, Go
    <3> HIDE DEF u, v
    <3> QED  BY <3>1, <3>2, DocumentTypes
  <2>3. PICK bin \in {"no", "recent"} : row' = [row EXCEPT ![o.doc] = [row[o.doc] EXCEPT !.bin = bin]]
    BY <1>2 DEF DeleteDocument, RestoreDocument
  <2> DEFINE x == [row[o.doc] EXCEPT !.bin = bin]
  <2>4. x \in Row /\ x.aged = row[o.doc].aged /\ x.bin # "old"  BY <2>1 DEF Row
  <2>5. UNCHANGED <<object, storageBytes>> /\ docSlipped' \in BOOLEAN
    BY <1>2 DEF DeleteDocument, RestoreDocument
  <2> QED  BY <2>1, <2>2, <2>3, <2>4, <2>5, DocumentTypes, DocCallKeeps
<1>3. ASSUME SweepRow(r) PROVE DocumentsInv'
  <2>1. o.doc \in Rows /\ o.doc \in Docs /\ row[o.doc] \in Row /\ o.left \in SUBSET Docs
    BY <1>0, <1>3, DocTaskType, DocumentTypes DEF SweepRow, Rows
  <2> DEFINE x == [row[o.doc] EXCEPT !.bin = "recent"]
             t == [op |-> "sweep", left |-> o.left, doc |-> Absent]
  <2>2. x \in Row /\ x.aged = row[o.doc].aged /\ x.bin # "old"  BY <2>1 DEF Row
  <2>3. t \in DocTask /\ t.op = "sweep"  BY <2>1 DEF DocTask
  <2>4. docTask' = [docTask EXCEPT ![r] = t] \/ docTask' = [docTask EXCEPT ![r] = NoDocTask]
    BY <1>3 DEF SweepRow, Go
  <2>5. row' = [row EXCEPT ![o.doc] = x] /\ UNCHANGED <<object, storageBytes>> /\ docSlipped' \in BOOLEAN
    BY <1>3 DEF SweepRow
  <2> HIDE DEF x, t
  <2> QED  BY <2>1, <2>2, <2>3, <2>4, <2>5, DocumentTypes, DocCallKeeps
<1>4. ASSUME ListAbandoned(r) PROVE DocumentsInv'
  <2> DEFINE stale == {d \in Undeleted : row[d].status = "pending" /\ row[d].aged}
             t == [op |-> "sweep", left |-> stale, doc |-> Absent]
  <2>1. t \in DocTask /\ t.op = "sweep"  BY DEF DocTask, Undeleted, Rows
  <2>2. docTask' = [docTask EXCEPT ![r] = t]  BY <1>4 DEF ListAbandoned, Go
  <2> HIDE DEF t
  <2> QED  BY <1>4, <2>1, <2>2, DocumentTypes, DocCallKeeps DEF ListAbandoned
<1>5. ASSUME DocTaskEnds(r) PROVE DocumentsInv'
  BY <1>5, DocumentTypes, DocCallKeeps DEF DocTaskEnds, Keep, Go
<1>6. ASSUME NEW d \in Docs, SweepObject(r, d) PROVE DocumentsInv'
  <2> DEFINE t == [op |-> "sweepRow", left |-> o.left \ {d}, doc |-> d]
  <2>1. t \in DocTask /\ t.op = "sweepRow"  BY <1>0, <1>6, DocTaskType DEF SweepObject, DocTask
  <2>2. docTask' = [docTask EXCEPT ![r] = t]  BY <1>6 DEF SweepObject, Go
  <2> HIDE DEF t
  <2> QED  BY <1>6, <2>1, <2>2, DocumentTypes, DocCallKeeps DEF SweepObject
<1> QED  BY <1>1, <1>2, <1>3, <1>4, <1>5, <1>6

\* A purge: its list, its objects one by one, and its rows.
LEMMA PurgeKeeps ==
  ASSUME DocumentsInv, NEW r \in DocRequests,
         ListForPurge(r) \/ PurgeRows(r) \/ \E d \in Docs : PurgeObject(r, d)
  PROVE  DocumentsInv'
<1> DEFINE o == docTask[r]
<1>0. DocumentsTypeOK  BY DEF DocumentsInv
<1>1. ASSUME ListForPurge(r) PROVE DocumentsInv'
  <2> DEFINE expired == {d \in Rows : row[d].bin = "old"}
             t == [op |-> "purge", left |-> expired, listed |-> expired]
  <2>1. t \in DocTask  BY DEF DocTask, Rows
  <2>2. docTask' = [docTask EXCEPT ![r] = t] /\ UNCHANGED <<row, object, storageBytes, docSlipped>>
    BY <1>1 DEF ListForPurge, Go
  <2>3. \A d \in t.listed : row'[d] # Absent /\ row'[d].aged /\ d \in t.left
    BY <2>2 DEF DocumentsInv, BinAges, Rows
  <2> HIDE DEF t
  <2>4. \A q \in DocRequests : docTask'[q] = IF q = r THEN t ELSE docTask[q]
    BY <1>0, <2>2 DEF DocumentsTypeOK
  <2>5. DocumentsTypeOK'  BY <1>0, <2>1, <2>2 DEF DocumentsTypeOK
  <2>6. NoOrphanObjects'  BY <2>2 DEF DocumentsInv, NoOrphanObjects, Rows
  <2> QED  BY <2>2, <2>3, <2>4, <2>5, <2>6, RowsStay, DocumentsStep
<1>2. ASSUME NEW d \in Docs, PurgeObject(r, d) PROVE DocumentsInv'
  <2>1. o \in [op : {"purge"}, left : SUBSET Docs, listed : SUBSET Docs]
    BY <1>0, <1>2, DocTaskType DEF PurgeObject
  <2> DEFINE t == [o EXCEPT !.left = o.left \ {d}]
  <2>2. t \in DocTask /\ t.listed = o.listed /\ t.left = o.left \ {d}  BY <2>1 DEF DocTask
  <2>3. /\ docTask' = [docTask EXCEPT ![r] = t] /\ UNCHANGED <<row, storageBytes>>
        /\ object' = [object EXCEPT ![d] = Absent] /\ docSlipped' \in BOOLEAN
    BY <1>2 DEF PurgeObject
  <2> HIDE DEF t
  <2>4. \A e \in Docs : object'[e] = IF e = d THEN Absent ELSE object[e]
    BY <1>0, <2>3 DEF DocumentsTypeOK
  <2>5. \A e \in t.listed : /\ row'[e] # Absent
                            /\ e \in Rows' => row'[e].aged
                            /\ e \notin t.left => object'[e] = Absent
    <3>1. o.op = "purge" /\ t.listed \subseteq Docs  BY <1>2, <2>1, <2>2 DEF PurgeObject
    <3>2. \A e \in o.listed : /\ row[e] # Absent
                              /\ e \in Rows => row[e].aged
                              /\ e \notin o.left => object[e] = Absent
      BY <3>1 DEF DocumentsInv, PurgesKeepOff
    <3>3. Rows' = Rows  BY <2>3 DEF Rows
    <3> QED  BY <2>2, <2>3, <2>4, <3>1, <3>2, <3>3
  <2>6. \A q \in DocRequests : docTask'[q] = IF q = r THEN t ELSE docTask[q]
    BY <1>0, <2>3 DEF DocumentsTypeOK
  <2>7. DocumentsTypeOK'  BY <1>0, <2>2, <2>3 DEF DocumentsTypeOK
  <2>8. NoOrphanObjects'  BY <2>3, <2>4 DEF DocumentsInv, NoOrphanObjects, Rows
  <2> QED  BY <2>3, <2>4, <2>5, <2>6, <2>7, <2>8, RowsStay, DocumentsStep
<1>3. ASSUME PurgeRows(r) PROVE DocumentsInv'
  <2> DEFINE gone == {d \in o.listed \cap Rows : row[d].bin = "old"}
  <2>1. /\ row' = [d \in Docs |-> IF d \in gone THEN Purged ELSE row[d]]
        /\ docTask' = [docTask EXCEPT ![r] = NoDocTask]
        /\ UNCHANGED <<object, storageBytes, docSlipped>>
    BY <1>3 DEF PurgeRows, Keep, Go
  <2>2. gone \subseteq Docs /\ \A d \in gone : object[d] = Absent
    <3>1. o.op = "purge" /\ o.left = {}  BY <1>3 DEF PurgeRows
    <3> QED  BY <3>1 DEF DocumentsInv, PurgesKeepOff, Rows
  <2> HIDE DEF gone
  <2>3. row' \in [Docs -> Row \cup {Absent, Purged}]  BY <1>0, <2>1 DEF DocumentsTypeOK
  <2>4. Rows' = Rows \ gone /\ \A e \in Rows' : row'[e] = row[e]  BY <2>1, <2>2 DEF Rows
  <2>5. BinAges'  BY <2>4 DEF DocumentsInv, BinAges
  <2>6. \A e \in Docs : row[e] # Absent =>
           row'[e] # Absent /\ (e \in Rows' => e \in Rows /\ (row[e].aged => row'[e].aged))
    BY <2>1, <2>4, NoDocumentAssumption
  <2>7. NoOrphanObjects'  BY <2>1, <2>2, <2>4 DEF DocumentsInv, NoOrphanObjects
  <2>8. DocumentsTypeOK'  BY <1>0, <2>1, <2>3, DocumentTypes DEF DocumentsTypeOK
  <2>9. \A q \in DocRequests : docTask'[q].op = "purge" => docTask'[q] = docTask[q]
    BY <1>0, <2>1, DocumentTypes DEF DocumentsTypeOK
  <2> QED  BY <2>1, <2>5, <2>6, <2>7, <2>8, <2>9, DocumentsStep
<1> QED  BY <1>1, <1>2, <1>3

\* What the browser does, and time.
LEMMA OutsideKeeps ==
  ASSUME DocumentsInv, NEW d \in Docs, Age(d) \/ \E f \in Files : Upload(d, f) \/ PresignUpload(d, f.size)
  PROVE  DocumentsInv'
<1>0. DocumentsTypeOK  BY DEF DocumentsInv
<1>1. ASSUME NEW f \in Files, Upload(d, f) PROVE DocumentsInv'
  <2>1. /\ d \in Rows /\ ~row[d].aged /\ object' = [object EXCEPT ![d] = f]
        /\ UNCHANGED <<row, storageBytes, docTask, docSlipped>>
    BY <1>1 DEF Upload
  <2>2. \A e \in Docs : object'[e] = IF e = d THEN f ELSE object[e]  BY <1>0, <2>1 DEF DocumentsTypeOK
  <2>3. DocumentsTypeOK'  BY <1>0, <2>1 DEF DocumentsTypeOK
  <2>4. NoOrphanObjects'  BY <2>1, <2>2, RowsStay DEF DocumentsInv, NoOrphanObjects
  <2> QED  BY <2>1, <2>2, <2>3, <2>4, RowsStay, DocumentsStep
<1>2. ASSUME NEW x \in Row, row' = [row EXCEPT ![d] = x], row[d] # Purged,
             d \in Rows => (row[d].aged => x.aged), x.bin = "old" => x.aged,
             UNCHANGED <<object, storageBytes, docTask, docSlipped>>
      PROVE  DocumentsInv'
  <2>1. /\ row' \in [Docs -> Row \cup {Absent, Purged}]
        /\ BinAges' /\ Rows' = Rows \cup {d}
        /\ \A e \in Docs : row[e] # Absent =>
              row'[e] # Absent /\ (e \in Rows' => e \in Rows /\ (row[e].aged => row'[e].aged))
    BY <1>2, RowWritten
  <2>2. DocumentsTypeOK'  BY <1>0, <1>2, <2>1 DEF DocumentsTypeOK
  <2>3. NoOrphanObjects'  BY <1>2, <2>1 DEF DocumentsInv, NoOrphanObjects
  <2> QED  BY <1>2, <2>1, <2>2, <2>3, DocumentsStep
<1>3. ASSUME NEW f \in Files, PresignUpload(d, f.size) PROVE DocumentsInv'
  <2> DEFINE x == [status |-> "pending", size |-> f.size, aged |-> FALSE, bin |-> "no"]
  <2>1. x \in Row /\ x.bin = "no"  BY DocumentsAssumption DEF Row
  <2>2. row' = [row EXCEPT ![d] = x] /\ row[d] = Absent /\ d \notin Rows
    BY <1>3 DEF PresignUpload, Rows
  <2>3. UNCHANGED <<object, storageBytes, docTask, docSlipped>>  BY <1>3 DEF PresignUpload
  <2> HIDE DEF x
  <2> QED  BY <1>2, <2>1, <2>2, <2>3, NoDocumentAssumption
<1>4. ASSUME Age(d) PROVE DocumentsInv'
  <2>1. d \in Rows /\ row[d] # Purged /\ row[d] \in Row  BY <1>4, DocumentTypes DEF Age, Rows
  <2>2. PICK x \in Row : row' = [row EXCEPT ![d] = x] /\ x.aged
    <3> DEFINE x == [row[d] EXCEPT !.aged = TRUE]
               y == [row[d] EXCEPT !.bin = "old"]
    <3>1. x \in Row /\ x.aged /\ y \in Row /\ y.aged = row[d].aged  BY <2>1 DEF Row
    <3>2. row' = [row EXCEPT ![d] = x] \/ (row[d].aged /\ row' = [row EXCEPT ![d] = y])
      BY <1>4 DEF Age
    <3> HIDE DEF x, y
    <3> QED  BY <3>1, <3>2
  <2> QED  BY <1>2, <1>4, <2>1, <2>2 DEF Age
<1> QED  BY <1>1, <1>3, <1>4

\* Every step keeps every object on a row.
LEMMA DocumentsInductive == DocumentsInv /\ [DocumentsNext]_documentVars => DocumentsInv'
<1> SUFFICES ASSUME DocumentsInv, [DocumentsNext]_documentVars PROVE DocumentsInv'
  OBVIOUS
<1>1. CASE UNCHANGED documentVars
  BY <1>1 DEF documentVars, DocumentsInv, DocumentsTypeOK, BinAges, PurgesKeepOff, NoOrphanObjects, Rows
<1> QED  BY <1>1, ConfirmationKeeps, BinKeeps, PurgeKeeps, OutsideKeeps DEF DocumentsNext

\* Every step keeps the types of rows, stored objects, the byte counter and what each request carries.
THEOREM DocumentsTypeCorrect == DocumentsSpec => []DocumentsTypeOK
<1>1. DocumentsInv => DocumentsTypeOK  BY DEF DocumentsInv
<1> QED  BY <1>1, DocumentsInitInv, DocumentsInductive, PTL DEF DocumentsSpec

\* "The other order would leave objects no row points to" (document.service.ts:203): every
\* object in storage has a row, whatever uploads, purges and restores overlap and wherever
\* they die, for any number of documents, links and requests.
THEOREM ObjectsHaveRows == DocumentsSpec => []NoOrphanObjects
<1>1. DocumentsInv => NoOrphanObjects  BY DEF DocumentsInv
<1> QED  BY <1>1, DocumentsInitInv, DocumentsInductive, PTL DEF DocumentsSpec
-----------------------------------------------------------------------------
(* The ledger of the bytes.                                                  *)

ToCount == {r \in DocRequests : docTask[r].op = "count"}

BytesToCount == Total(ToCount, [r \in ToCount |-> docTask[r].bytes])

BytesReady == Total(Ready, [d \in Ready |-> row[d].size])

\* What can be downloaded, or be brought back, is there.
ReadyStored == \A d \in Rows : (row[d].status = "ready" /\ row[d].bin # "old") => object[d] # Absent

CopiesFound ==
  \A r \in DocRequests :
    /\ docTask[r].op = "bin" => docTask[r].copy.bin = "no"
    /\ docTask[r].op = "restore" => docTask[r].copy.bin = "recent" /\ docTask[r].copy.status = "ready"

LedgerInv ==
  ~docSlipped => storageBytes + BytesToCount = BytesReady /\ ReadyStored /\ CopiesFound

\* The numbers of the ledger are numbers.
LEMMA LedgerTypes ==
  ASSUME DocumentsTypeOK
  PROVE  /\ BytesToCount \in Int /\ BytesReady \in Int /\ storageBytes \in Int
         /\ IsFiniteSet(ToCount) /\ IsFiniteSet(Ready)
<1>1. IsFiniteSet(ToCount) /\ IsFiniteSet(Ready)
  BY DocumentsAssumption, FS_Subset DEF ToCount, Ready, Undeleted, Rows
<1>2. \A r \in ToCount : docTask[r].bytes \in Int  BY DocTaskType DEF ToCount
<1>3. \A d \in Ready : row[d].size \in Int
  BY DEF Ready, Undeleted, Rows, DocumentsTypeOK, Row
<1> QED  BY <1>1, <1>2, <1>3, TotalType DEF BytesToCount, BytesReady, DocumentsTypeOK

\* What a call of one request does to the bytes that are still to be counted.
LEMMA CallCounts ==
  ASSUME DocumentsTypeOK, NEW r \in DocRequests, NEW t \in DocTask, docTask' = [docTask EXCEPT ![r] = t]
  PROVE  BytesToCount' = BytesToCount + (IF t.op = "count" THEN t.bytes ELSE 0)
                                      - (IF docTask[r].op = "count" THEN docTask[r].bytes ELSE 0)
<1> DEFINE f == [q \in ToCount |-> docTask[q].bytes]
           g == [q \in ToCount' |-> docTask'[q].bytes]
<1>1. \A q \in DocRequests : docTask'[q] = IF q = r THEN t ELSE docTask[q]  BY DEF DocumentsTypeOK
<1>2. IsFiniteSet(ToCount) /\ BytesToCount \in Int  BY LedgerTypes
<1>3. \A q \in ToCount : f[q] = docTask[q].bytes /\ f[q] \in Int  BY DocTaskType DEF ToCount
<1>4. t.op = "count" => t.bytes \in Int  BY DEF DocTask
<1>5. \A q \in ToCount' : g[q] = IF q = r THEN t.bytes ELSE docTask[q].bytes  BY <1>1 DEF ToCount
<1>6. BytesToCount = Total(ToCount, f) /\ BytesToCount' = Total(ToCount', g)  BY DEF BytesToCount
<1>7. ToCount' = IF t.op = "count" THEN ToCount \cup {r} ELSE ToCount \ {r}  BY <1>1 DEF ToCount
<1>8. r \in ToCount <=> docTask[r].op = "count"  BY DEF ToCount
<1> HIDE DEF f, g
<1>9. CASE t.op = "count" /\ docTask[r].op = "count"
  <2>1. ToCount' = ToCount /\ r \in ToCount  BY <1>7, <1>8, <1>9
  <2>2. Total(ToCount, g) = Total(ToCount, f) + g[r] - f[r]
    BY <1>2, <1>3, <1>4, <1>5, <1>9, <2>1, TotalMove
  <2> QED  BY <1>2, <1>3, <1>4, <1>5, <1>6, <1>9, <2>1, <2>2
<1>10. CASE t.op = "count" /\ docTask[r].op # "count"
  <2>1. ToCount' = ToCount \cup {r} /\ r \notin ToCount  BY <1>7, <1>8, <1>10
  <2>3. g[r] \in Int /\ r \notin ToCount /\ \A q \in ToCount : f[q] \in Int /\ g[q] = f[q]
    BY <1>3, <1>4, <1>5, <1>10, <2>1
  <2>2. Total(ToCount', g) = Total(ToCount, f) + g[r]
    BY ONLY <1>2, <2>1, <2>3, TotalAdd
  <2> QED  BY <1>2, <1>4, <1>5, <1>6, <1>10, <2>1, <2>2
<1>11. CASE t.op # "count" /\ docTask[r].op = "count"
  <2>1. ToCount' = ToCount \ {r} /\ r \in ToCount  BY <1>7, <1>8, <1>11
  <2>3. r \in ToCount /\ (\A q \in ToCount : f[q] \in Int) /\ (\A q \in ToCount' : g[q] = f[q])
    BY <1>3, <1>5, <2>1
  <2>2. Total(ToCount', g) = Total(ToCount, f) - f[r]
    BY ONLY <1>2, <2>1, <2>3, TotalDrop
  <2> QED  BY <1>2, <1>3, <1>6, <1>11, <2>1, <2>2
<1>12. CASE t.op # "count" /\ docTask[r].op # "count"
  <2>1. ToCount' = ToCount /\ r \notin ToCount  BY <1>7, <1>8, <1>12
  <2>2. Total(ToCount, g) = Total(ToCount, f)  BY <1>3, <1>5, <2>1, TotalSame
  <2> QED  BY <1>2, <1>6, <1>12, <2>1, <2>2
<1> QED  BY <1>9, <1>10, <1>11, <1>12

\* What the writing of one row does to the bytes that can be downloaded.
LEMMA RowCounts ==
  ASSUME DocumentsTypeOK, NEW d \in Docs, NEW x \in Row, row' = [row EXCEPT ![d] = x]
  PROVE  /\ BytesReady' = BytesReady + (IF x.status = "ready" /\ x.bin = "no" THEN x.size ELSE 0)
                                     - (IF d \in Ready THEN row[d].size ELSE 0)
         /\ x.size \in Int /\ (d \in Ready => row[d].size \in Int)
<1> DEFINE f == [e \in Ready |-> row[e].size]
           g == [e \in Ready' |-> row'[e].size]
           In == x.status = "ready" /\ x.bin = "no"
<1>1. \A e \in Docs : row'[e] = IF e = d THEN x ELSE row[e]  BY DEF DocumentsTypeOK
<1>2. IsFiniteSet(Ready) /\ BytesReady \in Int  BY LedgerTypes
<1>3. Ready \subseteq Docs /\ \A e \in Ready : f[e] = row[e].size /\ f[e] \in Int
  BY DEF Ready, Undeleted, Rows, DocumentsTypeOK, Row
<1>4. x.size \in Int  BY DEF Row
<1>5. x # Absent /\ x # Purged  BY NoDocumentAssumption
<1>6. Ready' = IF In THEN Ready \cup {d} ELSE Ready \ {d}
  BY <1>1, <1>5 DEF Ready, Undeleted, Rows
<1>7. \A e \in Ready' : g[e] = IF e = d THEN x.size ELSE row[e].size
  BY <1>1, <1>3, <1>6
<1>8. BytesReady = Total(Ready, f) /\ BytesReady' = Total(Ready', g)  BY DEF BytesReady
<1> HIDE DEF f, g, In
<1>9. CASE In /\ d \in Ready
  <2>1. Ready' = Ready  BY <1>6, <1>9
  <2>2. Total(Ready, g) = Total(Ready, f) + g[d] - f[d]
    BY <1>2, <1>3, <1>4, <1>7, <1>9, <2>1, TotalMove
  <2> QED  BY <1>2, <1>3, <1>4, <1>7, <1>8, <1>9, <2>1, <2>2 DEF In
<1>10. CASE In /\ d \notin Ready
  <2>1. Ready' = Ready \cup {d}  BY <1>6, <1>10
  <2>3. g[d] \in Int /\ d \notin Ready /\ \A e \in Ready : f[e] \in Int /\ g[e] = f[e]
    BY <1>3, <1>4, <1>7, <1>10, <2>1
  <2>2. Total(Ready', g) = Total(Ready, f) + g[d]
    BY ONLY <1>2, <2>1, <2>3, TotalAdd
  <2> QED  BY <1>2, <1>4, <1>7, <1>8, <1>10, <2>1, <2>2 DEF In
<1>11. CASE ~In /\ d \in Ready
  <2>1. Ready' = Ready \ {d}  BY <1>6, <1>11
  <2>3. d \in Ready /\ (\A e \in Ready : f[e] \in Int) /\ (\A e \in Ready' : g[e] = f[e])
    BY <1>3, <1>7, <1>11, <2>1
  <2>2. Total(Ready', g) = Total(Ready, f) - f[d]
    BY ONLY <1>2, <2>1, <2>3, TotalDrop
  <2> QED  BY <1>2, <1>3, <1>4, <1>8, <1>11, <2>1, <2>2 DEF In
<1>12. CASE ~In /\ d \notin Ready
  <2>1. Ready' = Ready  BY <1>6, <1>12
  <2>2. Total(Ready, g) = Total(Ready, f)  BY <1>3, <1>7, <1>12, <2>1, TotalSame
  <2> QED  BY <1>2, <1>4, <1>8, <1>12, <2>1, <2>2 DEF In
<1> QED  BY <1>9, <1>10, <1>11, <1>12

\* The copies are those of the rows that were found.
LEMMA CopiesKeep ==
  ASSUME DocumentsTypeOK, CopiesFound, NEW r \in DocRequests, NEW t \in DocTask,
         docTask' = [docTask EXCEPT ![r] = t],
         t.op = "bin" => t.copy.bin = "no",
         t.op = "restore" => t.copy.bin = "recent" /\ t.copy.status = "ready"
  PROVE  CopiesFound'
BY DEF DocumentsTypeOK, CopiesFound

\* A call that writes no row and counts nothing.
LEMMA LookKeepsLedger ==
  ASSUME DocumentsInv, LedgerInv, NEW r \in DocRequests, NEW t \in DocTask,
         docTask' = [docTask EXCEPT ![r] = t], t.op # "count",
         t.op = "bin" => t.copy.bin = "no",
         t.op = "restore" => t.copy.bin = "recent" /\ t.copy.status = "ready",
         ~docSlipped' => ~docSlipped /\ docTask[r].op # "count",
         UNCHANGED <<row, object, storageBytes>>
  PROVE  LedgerInv'
<1> SUFFICES ASSUME ~docSlipped'
             PROVE  (storageBytes + BytesToCount = BytesReady)' /\ ReadyStored' /\ CopiesFound'
  BY DEF LedgerInv
<1>0. DocumentsTypeOK /\ BytesToCount \in Int  BY LedgerTypes DEF DocumentsInv
<1>1. BytesToCount' = BytesToCount
  <2>1. BytesToCount' = BytesToCount + (IF t.op = "count" THEN t.bytes ELSE 0)
                                     - (IF docTask[r].op = "count" THEN docTask[r].bytes ELSE 0)
    BY <1>0, CallCounts
  <2> QED  BY <1>0, <2>1
<1>2. BytesReady' = BytesReady /\ (ReadyStored => ReadyStored')
  BY DEF BytesReady, ReadyStored, Ready, Undeleted, Rows
<1>3. CopiesFound'  BY CopiesKeep DEF DocumentsInv, LedgerInv
<1> QED  BY <1>1, <1>2, <1>3 DEF LedgerInv

\* A call that only reads keeps the ledger.
LEMMA LooksKeepLedger ==
  ASSUME DocumentsInv, LedgerInv, NEW r \in DocRequests,
         \/ HeadObject(r) \/ ReadHead(r) \/ ListForPurge(r) \/ ListAbandoned(r) \/ DocTaskEnds(r)
         \/ \E d \in Docs : FindForConfirm(r, d) \/ FindForDelete(r, d) \/ FindForRestore(r, d)
  PROVE  LedgerInv'
<1> DEFINE o == docTask[r]
<1>0. DocumentsTypeOK /\ NoDocTask \in DocTask /\ NoDocTask.op = "none"
  BY DocumentTypes DEF DocumentsInv
<1>1. UNCHANGED <<row, object, storageBytes>>
  BY DEF HeadObject, ReadHead, ListForPurge, ListAbandoned, DocTaskEnds, FindForConfirm, FindForDelete,
         FindForRestore, Keep
<1>2. ~docSlipped' => ~docSlipped /\ o.op # "count"
  BY <1>0 DEF HeadObject, ReadHead, ListForPurge, ListAbandoned, DocTaskEnds, FindForConfirm, FindForDelete,
         FindForRestore, Keep, Resting
<1>3. docTask' \in [DocRequests -> DocTask]
  <2>1. DocumentsInv'  BY ConfirmationKeeps, BinKeeps, PurgeKeeps
  <2> QED  BY <2>1 DEF DocumentsInv, DocumentsTypeOK
<1>4. PICK t : docTask' = [docTask EXCEPT ![r] = t] /\ t.op # "count"
               /\ (t.op = "bin" => t.copy.bin = "no")
               /\ (t.op = "restore" => t.copy.bin = "recent" /\ t.copy.status = "ready")
  <2> DEFINE OK(t) == /\ docTask' = [docTask EXCEPT ![r] = t] /\ t.op # "count"
                      /\ (t.op = "bin" => t.copy.bin = "no")
                      /\ (t.op = "restore" => t.copy.bin = "recent" /\ t.copy.status = "ready")
  <2>1. ASSUME HeadObject(r) PROVE \E t : OK(t)
    <3>1. CASE object[o.doc].size > MaxFileSize
      <4>1. OK([op |-> "reject", doc |-> o.doc])  BY <2>1, <3>1 DEF HeadObject, Go
      <4> QED  BY <4>1
    <3>2. CASE ~(object[o.doc].size > MaxFileSize)
      <4>1. OK([op |-> "verify", doc |-> o.doc, size |-> object[o.doc].size])  BY <2>1, <3>2 DEF HeadObject, Go
      <4> QED  BY <4>1
    <3> QED  BY <3>1, <3>2
  <2>2. ASSUME ReadHead(r) PROVE \E t : OK(t)
    <3>1. PICK t \in DocTask : docTask' = [docTask EXCEPT ![r] = t] /\ t.op \in {"save", "reject"}
      BY <1>0, <2>2, ReadHeadGoes
    <3>2. OK(t)  BY <3>1
    <3> QED  BY <3>2
  <2>3. ASSUME ListForPurge(r) PROVE \E t : OK(t)
    <3> DEFINE e == {d \in Rows : row[d].bin = "old"}
    <3>1. OK([op |-> "purge", left |-> e, listed |-> e])  BY <2>3 DEF ListForPurge, Go
    <3> QED  BY <3>1
  <2>4. ASSUME ListAbandoned(r) PROVE \E t : OK(t)
    <3> DEFINE e == {d \in Undeleted : row[d].status = "pending" /\ row[d].aged}
    <3>1. OK([op |-> "sweep", left |-> e, doc |-> Absent])  BY <2>4 DEF ListAbandoned, Go
    <3> QED  BY <3>1
  <2>5. ASSUME DocTaskEnds(r) PROVE \E t : OK(t)
    <3>1. OK(NoDocTask)  BY <1>0, <2>5 DEF DocTaskEnds, Keep, Go
    <3> QED  BY <3>1
  <2>6. ASSUME NEW d \in Docs, FindForConfirm(r, d) PROVE \E t : OK(t)
    <3>1. OK([op |-> "head", doc |-> d])  BY <2>6 DEF FindForConfirm, Go
    <3> QED  BY <3>1
  <2>7. ASSUME NEW d \in Docs, FindForDelete(r, d) PROVE \E t : OK(t)
    <3>1. OK([op |-> "bin", doc |-> d, copy |-> row[d]])  BY <2>7 DEF FindForDelete, Go, Undeleted
    <3> QED  BY <3>1
  <2>8. ASSUME NEW d \in Docs, FindForRestore(r, d) PROVE \E t : OK(t)
    <3>1. OK([op |-> "restore", doc |-> d, copy |-> row[d]])  BY <2>8 DEF FindForRestore, Go
    <3> QED  BY <3>1
  <2> QED  BY <2>1, <2>2, <2>3, <2>4, <2>5, <2>6, <2>7, <2>8
<1>5. t \in DocTask  BY <1>0, <1>3, <1>4 DEF DocumentsTypeOK
<1> QED  BY <1>1, <1>2, <1>4, <1>5, LookKeepsLedger
\* A row that is written, whatever else is.
LEMMA RowStored ==
  ASSUME DocumentsTypeOK, ReadyStored, NEW d \in Docs, NEW x \in Row, row' = [row EXCEPT ![d] = x],
         UNCHANGED object, (x.status = "ready" /\ x.bin # "old") => object[d] # Absent
  PROVE  ReadyStored'
<1>1. \A e \in Docs : row'[e] = IF e = d THEN x ELSE row[e]  BY DEF DocumentsTypeOK
<1> QED  BY <1>1 DEF ReadyStored, Rows

\* A call that writes a row, and is to count the bytes this makes or ends.
LEMMA WriteKeepsLedger ==
  ASSUME DocumentsInv, LedgerInv, NEW r \in DocRequests, NEW t \in DocTask,
         docTask' = [docTask EXCEPT ![r] = t], t.op \notin {"bin", "restore"},
         NEW d \in Docs, NEW x \in Row, row' = [row EXCEPT ![d] = x],
         UNCHANGED <<object, storageBytes>>, docTask[r].op # "count",
         ~docSlipped' =>
           /\ ~docSlipped
           /\ (x.status = "ready" /\ x.bin # "old") => object[d] # Absent
           /\ (IF t.op = "count" THEN t.bytes ELSE 0) =
                (IF x.status = "ready" /\ x.bin = "no" THEN x.size ELSE 0)
                  - (IF d \in Ready THEN row[d].size ELSE 0)
  PROVE  LedgerInv'
<1> SUFFICES ASSUME ~docSlipped'
             PROVE  (storageBytes + BytesToCount = BytesReady)' /\ ReadyStored' /\ CopiesFound'
  BY DEF LedgerInv
<1>0. DocumentsTypeOK /\ BytesToCount \in Int /\ BytesReady \in Int /\ storageBytes \in Int
  BY LedgerTypes DEF DocumentsInv
<1>1. BytesToCount' = BytesToCount + (IF t.op = "count" THEN t.bytes ELSE 0)
                                   - (IF docTask[r].op = "count" THEN docTask[r].bytes ELSE 0)
  BY <1>0, CallCounts
<1>2. /\ BytesReady' = BytesReady + (IF x.status = "ready" /\ x.bin = "no" THEN x.size ELSE 0)
                                   - (IF d \in Ready THEN row[d].size ELSE 0)
      /\ x.size \in Int /\ (d \in Ready => row[d].size \in Int)
  BY <1>0, RowCounts
<1>3. storageBytes + BytesToCount = BytesReady /\ ReadyStored /\ CopiesFound  BY DEF LedgerInv
<1>4. (storageBytes + BytesToCount = BytesReady)'  BY <1>0, <1>1, <1>2, <1>3
<1>5. ReadyStored'  BY <1>0, <1>3, RowStored
<1>6. CopiesFound'  BY <1>0, <1>3, CopiesKeep
<1> QED  BY <1>4, <1>5, <1>6

\* A copy that no request has overtaken is the row.
LEMMA CopyIsRow ==
  ASSUME NEW x \in Row, NEW c \in Row, x = [c EXCEPT !.aged = x.aged]
  PROVE  x.status = c.status /\ x.size = c.size /\ x.bin = c.bin
BY DEF Row

\* A write of a row, with what its request will then count, keeps the ledger.
LEMMA WritesKeepLedger ==
  ASSUME DocumentsInv, LedgerInv, NEW r \in DocRequests,
         ConfirmUpload(r) \/ Reject(r) \/ DeleteDocument(r) \/ RestoreDocument(r) \/ SweepRow(r)
  PROVE  LedgerInv'
<1> DEFINE o == docTask[r]
           d == o.doc
<1>0. DocumentsTypeOK /\ NoDocTask \in DocTask /\ NoDocTask.op = "none"
  BY DocumentTypes DEF DocumentsInv
<1>1. d \in Rows /\ d \in Docs /\ row[d] \in Row
  BY DocumentTypes DEF ConfirmUpload, Reject, DeleteDocument, RestoreDocument, SweepRow, Rows
<1>2. d \in Ready <=> row[d].status = "ready" /\ row[d].bin = "no"
  BY <1>1 DEF Ready, Undeleted
<1>3. ~docSlipped => ReadyStored /\ CopiesFound  BY DEF LedgerInv
<1>4. ASSUME ConfirmUpload(r) PROVE LedgerInv'
  <2> DEFINE t == [op |-> "count", bytes |-> o.size]
             x == [row[d] EXCEPT !.status = "ready", !.size = o.size]
  <2>1. o.size \in Nat  BY <1>0, <1>4, DocTaskType DEF ConfirmUpload
  <2>2. t \in DocTask /\ t.op = "count" /\ t.bytes = o.size  BY <2>1 DEF DocTask
  <2>3. x \in Row /\ x.status = "ready" /\ x.size = o.size /\ x.bin = row[d].bin  BY <1>1, <2>1 DEF Row
  <2>4. row' = [row EXCEPT ![d] = x]  BY <1>0, <1>1, <1>4 DEF ConfirmUpload, DocumentsTypeOK
  <2>5. /\ docTask' = [docTask EXCEPT ![r] = t] /\ UNCHANGED <<object, storageBytes>>
        /\ o.op = "save"
    BY <1>4 DEF ConfirmUpload, Go
  <2>6. ~docSlipped' => /\ ~docSlipped /\ row[d].bin = "no" /\ row[d].status # "ready"
                        /\ object[d] # Absent
    BY <1>4 DEF ConfirmUpload, Undeleted
  <2> HIDE DEF t, x
  <2>7. ~docSlipped' => (IF t.op = "count" THEN t.bytes ELSE 0) =
                (IF x.status = "ready" /\ x.bin = "no" THEN x.size ELSE 0)
                  - (IF d \in Ready THEN row[d].size ELSE 0)
    BY <1>2, <2>1, <2>2, <2>3, <2>6
  <2> HIDE DEF d, o
  <2> QED  BY <1>1, <2>2, <2>3, <2>4, <2>5, <2>6, <2>7, WriteKeepsLedger DEF o
<1>5. ASSUME Reject(r) PROVE LedgerInv'
  <2> DEFINE t == [op |-> "drop", doc |-> d]
             x == [row[d] EXCEPT !.status = "rejected"]
  <2>1. t \in DocTask /\ t.op = "drop"  BY <1>1 DEF DocTask
  <2>2. x \in Row /\ x.status = "rejected"  BY <1>1 DEF Row
  <2>3. row' = [row EXCEPT ![d] = x]  BY <1>5 DEF Reject
  <2>4. docTask' = [docTask EXCEPT ![r] = t] /\ UNCHANGED <<object, storageBytes>> /\ o.op = "reject"
    BY <1>5 DEF Reject, Go
  <2>5. ~docSlipped' => ~docSlipped /\ row[d].status # "ready"  BY <1>5 DEF Reject
  <2> HIDE DEF t, x
  <2>6. ~docSlipped' => (IF t.op = "count" THEN t.bytes ELSE 0) =
                (IF x.status = "ready" /\ x.bin = "no" THEN x.size ELSE 0)
                  - (IF d \in Ready THEN row[d].size ELSE 0)
    BY <1>2, <2>1, <2>2, <2>5
  <2> HIDE DEF d, o
  <2> QED  BY <1>1, <2>1, <2>2, <2>3, <2>4, <2>5, <2>6, WriteKeepsLedger DEF o
<1>6. ASSUME DeleteDocument(r) PROVE LedgerInv'
  <2> DEFINE c == o.copy
             x == [row[d] EXCEPT !.bin = "recent"]
             u == [op |-> "count", bytes |-> 0 - c.size]
             t == IF c.status = "ready" THEN u ELSE NoDocTask
  <2>1. c \in Row /\ c.size \in Int /\ o.op = "bin"
    BY <1>0, <1>6, DocTaskType DEF DeleteDocument, Row
  <2>2. u \in DocTask /\ u.op = "count" /\ u.bytes = 0 - c.size  BY <2>1 DEF DocTask
  <2>3. x \in Row /\ x.status = row[d].status /\ x.bin = "recent"  BY <1>1 DEF Row
  <2>4. row' = [row EXCEPT ![d] = x] /\ docTask' = [docTask EXCEPT ![r] = t] /\ UNCHANGED <<object, storageBytes>>
    BY <1>6 DEF DeleteDocument, Go
  <2>5. ~docSlipped' => /\ ~docSlipped /\ c.bin = "no" /\ row[d].status = c.status
                        /\ row[d].size = c.size /\ row[d].bin = c.bin
    <3>1. ~docSlipped' => ~docSlipped /\ row[d] = [c EXCEPT !.aged = row[d].aged]
      BY <1>6 DEF DeleteDocument
    <3> QED  BY <1>1, <1>3, <2>1, <3>1, CopyIsRow DEF CopiesFound
  <2> HIDE DEF x, u, c
  <2>6. t \in DocTask /\ t.op \in {"count", "none"} /\ (t.op = "count" <=> c.status = "ready")
        /\ (t.op = "count" => t.bytes = 0 - c.size)
    BY <1>0, <2>2
  <2> HIDE DEF t
  <2>7. ~docSlipped' => (IF t.op = "count" THEN t.bytes ELSE 0) =
                (IF x.status = "ready" /\ x.bin = "no" THEN x.size ELSE 0)
                  - (IF d \in Ready THEN row[d].size ELSE 0)
    BY <1>2, <2>1, <2>3, <2>5, <2>6
  <2>8. ~docSlipped' => (x.status = "ready" => object[d] # Absent)
    BY <1>1, <1>3, <2>3, <2>5 DEF ReadyStored
  <2> HIDE DEF d, o
  <2> QED  BY <1>1, <2>1, <2>3, <2>4, <2>5, <2>6, <2>7, <2>8, WriteKeepsLedger DEF o
<1>7. ASSUME RestoreDocument(r) PROVE LedgerInv'
  <2> DEFINE c == o.copy
             x == [row[d] EXCEPT !.bin = "no"]
             t == [op |-> "count", bytes |-> c.size]
  <2>1. c \in Row /\ c.size \in Int /\ o.op = "restore"
    BY <1>0, <1>7, DocTaskType DEF RestoreDocument, Row
  <2>2. t \in DocTask /\ t.op = "count" /\ t.bytes = c.size  BY <2>1 DEF DocTask
  <2>3. x \in Row /\ x.status = row[d].status /\ x.bin = "no" /\ x.size = row[d].size  BY <1>1 DEF Row
  <2>4. row' = [row EXCEPT ![d] = x] /\ docTask' = [docTask EXCEPT ![r] = t] /\ UNCHANGED <<object, storageBytes>>
    BY <1>7 DEF RestoreDocument, Go
  <2>5. ~docSlipped' => /\ ~docSlipped /\ c.bin = "recent" /\ c.status = "ready"
                        /\ row[d].status = c.status /\ row[d].size = c.size /\ row[d].bin = c.bin
    <3>1. ~docSlipped' => ~docSlipped /\ row[d] = [c EXCEPT !.aged = row[d].aged]
      BY <1>7 DEF RestoreDocument
    <3> QED  BY <1>1, <1>3, <2>1, <3>1, CopyIsRow DEF CopiesFound
  <2> HIDE DEF x, t, c
  <2>7. ~docSlipped' => (IF t.op = "count" THEN t.bytes ELSE 0) =
                (IF x.status = "ready" /\ x.bin = "no" THEN x.size ELSE 0)
                  - (IF d \in Ready THEN row[d].size ELSE 0)
    BY <1>2, <2>1, <2>2, <2>3, <2>5
  <2>8. ~docSlipped' => object[d] # Absent
    BY <1>1, <1>3, <2>5 DEF ReadyStored
  <2> HIDE DEF d, o
  <2> QED  BY <1>1, <2>1, <2>2, <2>3, <2>4, <2>5, <2>7, <2>8, WriteKeepsLedger DEF o
<1>8. ASSUME SweepRow(r) PROVE LedgerInv'
  <2> DEFINE x == [row[d] EXCEPT !.bin = "recent"]
             v == [op |-> "sweep", left |-> o.left, doc |-> Absent]
             t == IF o.left = {} THEN NoDocTask ELSE v
  <2>1. o.left \in SUBSET Docs /\ o.op = "sweepRow"  BY <1>0, <1>8, DocTaskType DEF SweepRow
  <2>2. v \in DocTask /\ v.op = "sweep"  BY <2>1 DEF DocTask
  <2>3. x \in Row /\ x.status = row[d].status /\ x.bin = "recent"  BY <1>1 DEF Row
  <2>4. row' = [row EXCEPT ![d] = x] /\ docTask' = [docTask EXCEPT ![r] = t] /\ UNCHANGED <<object, storageBytes>>
    BY <1>8 DEF SweepRow, Go
  <2>5. ~docSlipped' => ~docSlipped /\ row[d].status = "pending"  BY <1>8 DEF SweepRow
  <2> HIDE DEF x, v
  <2>6. t \in DocTask /\ t.op \in {"sweep", "none"}  BY <1>0, <2>2
  <2> HIDE DEF t
  <2>7. ~docSlipped' => (IF t.op = "count" THEN t.bytes ELSE 0) =
                (IF x.status = "ready" /\ x.bin = "no" THEN x.size ELSE 0)
                  - (IF d \in Ready THEN row[d].size ELSE 0)
    BY <1>2, <2>3, <2>5, <2>6
  <2> HIDE DEF d, o
  <2> QED  BY <1>1, <2>1, <2>3, <2>4, <2>5, <2>6, <2>7, WriteKeepsLedger DEF o
<1> QED  BY <1>4, <1>5, <1>6, <1>7, <1>8

\* A request that removes an object, or counts bytes.
LEMMA DropsKeepLedger ==
  ASSUME DocumentsInv, LedgerInv, NEW r \in DocRequests,
         DropRejected(r) \/ AddStorageBytes(r) \/ \E d \in Docs : PurgeObject(r, d) \/ SweepObject(r, d)
  PROVE  LedgerInv'
<1> DEFINE o == docTask[r]
<1>0. /\ DocumentsTypeOK /\ NoDocTask \in DocTask /\ NoDocTask.op = "none"
      /\ BytesToCount \in Int /\ BytesReady \in Int /\ storageBytes \in Int
  BY DocumentTypes, LedgerTypes DEF DocumentsInv
<1>1. ASSUME NEW d \in Docs, NEW t \in DocTask, docTask' = [docTask EXCEPT ![r] = t],
             t.op \notin {"bin", "restore", "count"}, o.op # "count",
             object' = [object EXCEPT ![d] = Absent], UNCHANGED <<row, storageBytes>>,
             ~docSlipped' => ~docSlipped /\ (row[d].status # "ready" \/ row[d].bin = "old")
      PROVE  LedgerInv'
  <2> SUFFICES ASSUME ~docSlipped'
               PROVE  (storageBytes + BytesToCount = BytesReady)' /\ ReadyStored' /\ CopiesFound'
    BY DEF LedgerInv
  <2>1. BytesToCount' = BytesToCount
    <3>1. BytesToCount' = BytesToCount + (IF t.op = "count" THEN t.bytes ELSE 0)
                                       - (IF docTask[r].op = "count" THEN docTask[r].bytes ELSE 0)
      BY <1>0, <1>1, CallCounts
    <3> QED  BY <1>0, <1>1, <3>1
  <2>2. BytesReady' = BytesReady  BY <1>1 DEF BytesReady, Ready, Undeleted, Rows
  <2>3. \A e \in Docs : object'[e] = IF e = d THEN Absent ELSE object[e]
    BY <1>0, <1>1 DEF DocumentsTypeOK
  <2>4. ReadyStored'  BY <1>1, <2>3 DEF LedgerInv, ReadyStored, Rows
  <2>5. CopiesFound'  BY <1>0, <1>1, CopiesKeep DEF LedgerInv
  <2> QED  BY <1>1, <2>1, <2>2, <2>4, <2>5 DEF LedgerInv
<1>2. ASSUME DropRejected(r) PROVE LedgerInv'
  <2>1. o.doc \in Docs  BY <1>0, <1>2, DocTaskType DEF DropRejected
  <2>2. ~docSlipped' => ~docSlipped /\ row[o.doc].status # "ready"  BY <1>2 DEF DropRejected, Rejected
  <2> QED  BY <1>0, <1>1, <1>2, <2>1, <2>2 DEF DropRejected, Keep, Go
<1>3. ASSUME NEW d \in Docs, PurgeObject(r, d) PROVE LedgerInv'
  <2>1. o \in [op : {"purge"}, left : SUBSET Docs, listed : SUBSET Docs]
    BY <1>0, <1>3, DocTaskType DEF PurgeObject
  <2> DEFINE t == [o EXCEPT !.left = o.left \ {d}]
  <2>2. t \in DocTask /\ t.op = "purge"  BY <2>1 DEF DocTask
  <2>3. docTask' = [docTask EXCEPT ![r] = t]  BY <1>3 DEF PurgeObject
  <2> HIDE DEF t
  <2> QED  BY <1>1, <1>3, <2>2, <2>3 DEF PurgeObject
<1>4. ASSUME NEW d \in Docs, SweepObject(r, d) PROVE LedgerInv'
  <2> DEFINE t == [op |-> "sweepRow", left |-> o.left \ {d}, doc |-> d]
  <2>1. t \in DocTask /\ t.op = "sweepRow"  BY <1>0, <1>4, DocTaskType DEF SweepObject, DocTask
  <2>2. docTask' = [docTask EXCEPT ![r] = t]  BY <1>4 DEF SweepObject, Go
  <2>3. ~docSlipped' => ~docSlipped /\ row[d].status # "ready"  BY <1>4 DEF SweepObject
  <2> HIDE DEF t
  <2> QED  BY <1>1, <1>4, <2>1, <2>2, <2>3 DEF SweepObject
<1>5. ASSUME AddStorageBytes(r) PROVE LedgerInv'
  <2> SUFFICES ASSUME ~docSlipped'
               PROVE  (storageBytes + BytesToCount = BytesReady)' /\ ReadyStored' /\ CopiesFound'
    BY DEF LedgerInv
  <2>1. /\ docTask' = [docTask EXCEPT ![r] = NoDocTask] /\ UNCHANGED <<row, object, docSlipped>>
        /\ o.op = "count" /\ storageBytes' = storageBytes + o.bytes
    BY <1>5 DEF AddStorageBytes, Keep, Go
  <2>2. o.bytes \in Int  BY <1>0, <2>1, DocTaskType
  <2>3. BytesToCount' = BytesToCount - o.bytes
    <3>1. BytesToCount' = BytesToCount + (IF NoDocTask.op = "count" THEN NoDocTask.bytes ELSE 0)
                                       - (IF docTask[r].op = "count" THEN docTask[r].bytes ELSE 0)
      BY <1>0, <2>1, CallCounts
    <3> QED  BY <1>0, <2>1, <2>2, <3>1
  <2>4. BytesReady' = BytesReady /\ (ReadyStored => ReadyStored')
    BY <2>1 DEF BytesReady, ReadyStored, Ready, Undeleted, Rows
  <2>5. CopiesFound'  BY <1>0, <2>1, CopiesKeep DEF LedgerInv
  <2> QED  BY <1>0, <2>1, <2>2, <2>3, <2>4, <2>5 DEF LedgerInv
<1> QED  BY <1>2, <1>3, <1>4, <1>5

\* Rows that are purged were past the window.
LEMMA PurgeKeepsLedger ==
  ASSUME DocumentsInv, LedgerInv, NEW r \in DocRequests, PurgeRows(r)
  PROVE  LedgerInv'
<1> SUFFICES ASSUME ~docSlipped'
             PROVE  (storageBytes + BytesToCount = BytesReady)' /\ ReadyStored' /\ CopiesFound'
  BY DEF LedgerInv
<1>0. /\ DocumentsTypeOK /\ NoDocTask \in DocTask /\ NoDocTask.op = "none" /\ BytesToCount \in Int
  BY DocumentTypes, LedgerTypes DEF DocumentsInv
<1>1. /\ docTask[r].op = "purge" /\ docTask' = [docTask EXCEPT ![r] = NoDocTask]
      /\ UNCHANGED <<object, storageBytes, docSlipped>>
  BY DEF PurgeRows, Keep, Go
<1>2. \A e \in Docs : \/ row'[e] = row[e]
                      \/ row'[e] = Purged /\ e \in Rows /\ row[e].bin = "old"
  BY DEF PurgeRows
<1>3. Ready' = Ready /\ \A e \in Ready : row'[e] = row[e]
  BY <1>2 DEF Ready, Undeleted, Rows
<1>4. BytesReady' = BytesReady
  <2>1. [e \in Ready' |-> row'[e].size] = [e \in Ready |-> row[e].size]  BY <1>3
  <2> QED  BY <1>3, <2>1 DEF BytesReady
<1>5. BytesToCount' = BytesToCount
  <2>1. BytesToCount' = BytesToCount + (IF NoDocTask.op = "count" THEN NoDocTask.bytes ELSE 0)
                                     - (IF docTask[r].op = "count" THEN docTask[r].bytes ELSE 0)
    BY <1>0, <1>1, CallCounts
  <2> QED  BY <1>0, <1>1, <2>1
<1>6. ReadyStored'  BY <1>1, <1>2 DEF LedgerInv, ReadyStored, Rows
<1>7. CopiesFound'  BY <1>0, <1>1, CopiesKeep DEF LedgerInv
<1> QED  BY <1>1, <1>4, <1>5, <1>6, <1>7 DEF LedgerInv

\* New uploads, and what the clock and the clients do, keep the ledger.
LEMMA OutsideKeepsLedger ==
  ASSUME DocumentsInv, LedgerInv, NEW d \in Docs, Age(d) \/ \E f \in Files : Upload(d, f) \/ PresignUpload(d, f.size)
  PROVE  LedgerInv'
<1> SUFFICES ASSUME ~docSlipped'
             PROVE  (storageBytes + BytesToCount = BytesReady)' /\ ReadyStored' /\ CopiesFound'
  BY DEF LedgerInv
<1>0. /\ DocumentsTypeOK /\ BytesToCount \in Int /\ BytesReady \in Int /\ storageBytes \in Int
  BY LedgerTypes DEF DocumentsInv
<1>1. UNCHANGED <<storageBytes, docTask, docSlipped>>
  BY DEF Age, Upload, PresignUpload
<1>2. BytesToCount' = BytesToCount /\ (CopiesFound => CopiesFound')
  BY <1>1 DEF BytesToCount, ToCount, CopiesFound
<1>3. storageBytes + BytesToCount = BytesReady /\ ReadyStored /\ CopiesFound  BY <1>1 DEF LedgerInv
<1>4. ASSUME NEW f \in Files, Upload(d, f) PROVE BytesReady' = BytesReady /\ ReadyStored'
  <2>1. UNCHANGED row /\ object' = [object EXCEPT ![d] = f] /\ f # Absent
    BY <1>4, NoDocumentAssumption DEF Upload
  <2>2. \A e \in Docs : object'[e] = IF e = d THEN f ELSE object[e]  BY <1>0, <2>1 DEF DocumentsTypeOK
  <2> QED  BY <1>3, <2>1, <2>2 DEF BytesReady, ReadyStored, Ready, Undeleted, Rows
<1>5. ASSUME NEW x \in Row, row' = [row EXCEPT ![d] = x], UNCHANGED object, d \notin Ready,
             x.status # "ready" \/ x.bin = "old" \/ (x.bin = "recent" /\ object[d] # Absent)
      PROVE  BytesReady' = BytesReady /\ ReadyStored'
  <2>1. ReadyStored'  BY <1>0, <1>3, <1>5, RowStored
  <2>2. BytesReady' = BytesReady + (IF x.status = "ready" /\ x.bin = "no" THEN x.size ELSE 0)
                                 - (IF d \in Ready THEN row[d].size ELSE 0)
    BY <1>0, <1>5, RowCounts
  <2>3. ~(x.status = "ready" /\ x.bin = "no")  BY <1>5
  <2> QED  BY <1>0, <1>5, <2>1, <2>2, <2>3
<1>6. ASSUME NEW f \in Files, PresignUpload(d, f.size) PROVE BytesReady' = BytesReady /\ ReadyStored'
  <2> DEFINE x == [status |-> "pending", size |-> f.size, aged |-> FALSE, bin |-> "no"]
  <2>1. x \in Row /\ x.status = "pending"  BY DocumentsAssumption DEF Row
  <2>2. row' = [row EXCEPT ![d] = x] /\ UNCHANGED object /\ d \notin Ready
    BY <1>6 DEF PresignUpload, Ready, Undeleted, Rows
  <2> HIDE DEF x
  <2> QED  BY <1>5, <2>1, <2>2
<1>7. ASSUME Age(d) PROVE BytesReady' = BytesReady /\ ReadyStored'
  <2>0. d \in Rows /\ row[d] \in Row /\ UNCHANGED object  BY <1>7, DocumentTypes DEF Age
  <2>1. CASE row' = [row EXCEPT ![d].aged = TRUE]
    <3> DEFINE x == [row[d] EXCEPT !.aged = TRUE]
    <3>1. x \in Row /\ x.status = row[d].status /\ x.bin = row[d].bin /\ x.size = row[d].size
      BY <2>0 DEF Row
    <3>2. row' = [row EXCEPT ![d] = x]  BY <2>1
    <3>3. d \in Ready <=> x.status = "ready" /\ x.bin = "no"  BY <2>0, <3>1 DEF Ready, Undeleted
    <3> HIDE DEF x
    <3>4. /\ BytesReady' = BytesReady + (IF x.status = "ready" /\ x.bin = "no" THEN x.size ELSE 0)
                                     - (IF d \in Ready THEN row[d].size ELSE 0)
          /\ x.size \in Int
      BY <1>0, <3>1, <3>2, RowCounts
    <3>5. BytesReady' = BytesReady  BY <1>0, <3>1, <3>3, <3>4
    <3>6. ReadyStored'  BY <1>0, <1>3, <2>0, <3>1, <3>2, RowStored DEF ReadyStored
    <3> QED  BY <3>5, <3>6
  <2>2. CASE row' = [row EXCEPT ![d].bin = "old"] /\ row[d].bin = "recent"
    <3> DEFINE x == [row[d] EXCEPT !.bin = "old"]
    <3>1. x \in Row /\ x.bin = "old"  BY <2>0 DEF Row
    <3>2. row' = [row EXCEPT ![d] = x] /\ d \notin Ready  BY <2>2 DEF Ready, Undeleted
    <3> HIDE DEF x
    <3> QED  BY <1>5, <2>0, <3>1, <3>2
  <2> QED  BY <1>7, <2>1, <2>2 DEF Age
<1>8. BytesReady' = BytesReady /\ ReadyStored'  BY <1>4, <1>6, <1>7
<1> QED  BY <1>0, <1>1, <1>2, <1>3, <1>8

\* The ledger is inductive.
LEMMA LedgerInductive ==
  DocumentsInv /\ LedgerInv /\ [DocumentsNext]_documentVars => LedgerInv'
<1> SUFFICES ASSUME DocumentsInv, LedgerInv, [DocumentsNext]_documentVars PROVE LedgerInv'
  OBVIOUS
<1>1. CASE UNCHANGED documentVars
  BY <1>1 DEF documentVars, LedgerInv, BytesToCount, ToCount, BytesReady, Ready, Undeleted, Rows,
              ReadyStored, CopiesFound
<1> QED
  BY <1>1, LooksKeepLedger, WritesKeepLedger, DropsKeepLedger, PurgeKeepsLedger, OutsideKeepsLedger
  DEF DocumentsNext

\* The ledger holds at first.
LEMMA LedgerInit == DocumentsInit => LedgerInv
<1> SUFFICES ASSUME DocumentsInit PROVE LedgerInv
  OBVIOUS
<1>1. NoDocTask.op = "none"  BY DEF NoDocTask
<1>2. ToCount = {} /\ Ready = {} /\ Rows = {}
  BY <1>1 DEF DocumentsInit, ToCount, Ready, Undeleted, Rows
<1>3. BytesToCount = 0 /\ BytesReady = 0 /\ storageBytes = 0
  BY <1>2, TotalNone DEF BytesToCount, BytesReady, DocumentsInit
<1> QED  BY <1>1, <1>2, <1>3 DEF LedgerInv, ReadyStored, CopiesFound, DocumentsInit

\* When nothing is under way, the bytes counted against the quota are those of the files
\* that can be downloaded, and each of these is in storage, for any sizes and any number of
\* requests, none of which wrote from an overtaken read or died half way
\* (document.service.ts:203).
THEOREM BytesAgree == DocumentsSpec => []LedgerAgrees
<1>1. ASSUME DocumentsInv, LedgerInv PROVE LedgerAgrees
  <2> SUFFICES ASSUME ~docSlipped, \A r \in DocRequests : Resting(r)
               PROVE  storageBytes = BytesReady /\ \A d \in Ready : object[d] # Absent
    BY DEF LedgerAgrees, BytesReady
  <2>1. ToCount = {}  BY DEF ToCount, Resting, NoDocTask
  <2>2. BytesToCount = 0  BY <2>1, TotalNone DEF BytesToCount
  <2>3. storageBytes \in Int  BY <1>1, LedgerTypes DEF DocumentsInv
  <2> QED  BY <1>1, <2>2, <2>3 DEF LedgerInv, ReadyStored, Ready, Undeleted
<1> QED
  BY <1>1, DocumentsInitInv, DocumentsInductive, LedgerInit, LedgerInductive, PTL DEF DocumentsSpec
===============================================================================
