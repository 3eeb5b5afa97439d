------------------------------- MODULE Licences -------------------------------
(***************************************************************************)
(* Software licences and their seats (modules/licences), with the part of  *)
(* the recycle bin that restores and purges licences.                      *)
(*                                                                         *)
(* A licence carries a count of the seats in use beside the seat records.  *)
(* Allocating and updating check first and write later, under a condition; *)
(* deleting checks first and writes whatever happened since; a seat is     *)
(* revoked in one transaction, in which a licence that is in the recycle   *)
(* bin is not found.                                                       *)
(***************************************************************************)
EXTENDS Naturals, FiniteSets

CONSTANTS
  Licenced,    \* the licences
  Holders,     \* people and assets that may have a seat
  Seats,       \* ids of seat records
  Sizes,       \* numbers of seats a licence may be bought with
  Unlimited,   \* seats null
  Requests,
  None

ASSUME LicencesAssumption ==
  /\ Sizes \subseteq Nat /\ Unlimited \notin Nat
  /\ None \notin Licenced /\ None \notin Holders
  /\ IsFiniteSet(Seats)

VARIABLES
  licence,  \* the collection licences
  seat,     \* the collection licenceseats
  request   \* what each request has checked and not yet written

vars == <<licence, seat, request>>

Licence == [row: {"live", "deleted", "purged"}, status: {"active", "cancelled"},
            seats: Sizes \cup {Unlimited}, used: Nat]

Seat == [state: {"none", "live", "revoked"}, licence: Licenced \cup {None},
         holder: Holders \cup {None}]

\* was: the seats and the status an update read; to: those it asks for (no seats
\* when the body leaves them out); todo: the seats an offboarding has still to free.
Request == [op: {"none", "allocate", "update", "delete", "free"}, licence: Licenced \cup {None},
            holder: Holders \cup {None},
            was: (Sizes \cup {Unlimited, None}) \X {"active", "cancelled"},
            to: (Sizes \cup {Unlimited, None}) \X {"active", "cancelled"}, todo: SUBSET Seats]

Idle == [op |-> "none", licence |-> None, holder |-> None, was |-> <<None, "active">>,
         to |-> <<None, "active">>, todo |-> {}]

\* createLicence() has made every licence.
Init ==
  /\ licence \in [Licenced -> [row: {"live"}, status: {"active"}, seats: Sizes \cup {Unlimited},
                               used: {0}]]
  /\ seat = [s \in Seats |-> [state |-> "none", licence |-> None, holder |-> None]]
  /\ request = [r \in Requests |-> Idle]

-----------------------------------------------------------------------------
Live(l) == licence[l].row = "live"

\* The live seats of a licence.
Taken(l) == {s \in Seats : seat[s].state = "live" /\ seat[s].licence = l}

Start(r, carried) ==
  /\ request[r] = Idle
  /\ request' = [request EXCEPT ![r] = carried]
  /\ UNCHANGED <<licence, seat>>

Done(r) == request' = [request EXCEPT ![r] = Idle]

\* A refusal in the second half, an error, or the end of the process.
GiveUp(r) ==
  /\ request[r] # Idle /\ Done(r)
  /\ UNCHANGED <<licence, seat>>

StartAllocate(r, l, h) ==
  /\ Live(l) /\ licence[l].status = "active"
  /\ Start(r, [Idle EXCEPT !.op = "allocate", !.licence = l, !.holder = h])

\* The conditional increment matches only while a seat is free.
SeatFree(l) == licence[l].seats # Unlimited => licence[l].used < licence[l].seats

\* The partial unique index refuses a second live seat of one holder.
Holds(l, h) == \E s \in Taken(l) : seat[s].holder = h

CommitAllocate(r, s) ==
  LET l == request[r].licence
      h == request[r].holder
  IN  /\ request[r].op = "allocate" /\ Live(l) /\ SeatFree(l) /\ ~Holds(l, h)
      /\ seat[s].state = "none"
      /\ licence' = [licence EXCEPT ![l].used = @ + 1]
      /\ seat' = [seat EXCEPT ![s] = [state |-> "live", licence |-> l, holder |-> h]]
      /\ Done(r)

\* Fewer seats than are in use are refused.
Fits(l, seats) == seats \in Sizes => licence[l].used <= seats

StartUpdate(r, l, to) ==
  /\ Live(l) /\ Fits(l, to[1])
  /\ Start(r, [Idle EXCEPT !.op = "update", !.licence = l, !.to = to,
                           !.was = <<licence[l].seats, licence[l].status>>])

\* Only the fields that were changed are written.
Written(read, new, current) == IF new \in {read, None} THEN current ELSE new

\* Mutant: an update whose second half has no condition.
CommitUpdateUnchecked(r) ==
  /\ request[r].op = "update" /\ Live(request[r].licence)
  /\ licence' = [licence EXCEPT ![request[r].licence].seats =
                               Written(request[r].was[1], request[r].to[1], @)]
  /\ Done(r) /\ UNCHANGED seat

CommitUpdate(r) ==
  LET l  == request[r].licence
      was == request[r].was
      to == request[r].to
  IN  /\ request[r].op = "update" /\ Live(l) /\ Fits(l, to[1])
      /\ licence' = [licence EXCEPT ![l].seats = Written(was[1], to[1], @),
                                    ![l].status = Written(was[2], to[2], @)]
      /\ Done(r) /\ UNCHANGED seat

StartDelete(r, l) ==
  /\ Live(l) /\ licence[l].used = 0
  /\ Start(r, [Idle EXCEPT !.op = "delete", !.licence = l])

\* Mutant: a state that no licence has.
CommitDeleteAsCancel(r) ==
  /\ request[r].op = "delete"
  /\ licence' = [licence EXCEPT ![request[r].licence].row = "cancelled"]
  /\ Done(r) /\ UNCHANGED seat

\* softDelete() of the copy that was read.
CommitDelete(r) ==
  LET l == request[r].licence
  IN  /\ request[r].op = "delete" /\ licence[l].row # "purged"
      /\ licence' = [licence EXCEPT ![l].row = "deleted"]
      /\ Done(r) /\ UNCHANGED seat

Restore(l) ==
  /\ licence[l].row = "deleted"
  /\ licence' = [licence EXCEPT ![l].row = "live"]
  /\ UNCHANGED <<seat, request>>

Purge(l) ==
  /\ licence[l].row = "deleted"
  /\ licence' = [licence EXCEPT ![l].row = "purged"]
  /\ UNCHANGED <<seat, request>>

\* Mutant: a seat that was revoked already is revoked again.
RevokedAgain(s) ==
  LET l == seat[s].licence
  IN  /\ seat[s].state # "none"
      /\ seat' = [seat EXCEPT ![s].state = "revoked"]
      /\ licence' = IF Live(l) /\ licence[l].used > 0
                    THEN [licence EXCEPT ![l].used = @ - 1] ELSE licence

\* revokeSeat(): the count of a licence in the recycle bin is not found.
Revoked(s) ==
  LET l == seat[s].licence
  IN  /\ seat[s].state = "live"
      /\ seat' = [seat EXCEPT ![s].state = "revoked"]
      /\ licence' = IF Live(l) /\ licence[l].used > 0
                    THEN [licence EXCEPT ![l].used = @ - 1] ELSE licence

Revoke(s) == Revoked(s) /\ UNCHANGED request

\* revokeAllSeatsFor(): the holder's seats are listed, then revoked one by one.
StartFree(r, h) ==
  Start(r, [Idle EXCEPT !.op = "free", !.holder = h,
                        !.todo = {s \in Seats : seat[s].state = "live" /\ seat[s].holder = h}])

FreeOne(r, s) ==
  /\ request[r].op = "free" /\ s \in request[r].todo
  /\ Revoked(s)
  /\ request' = [request EXCEPT ![r].todo = @ \ {s}]

-----------------------------------------------------------------------------
RequestStep(r) ==
  \/ \E l \in Licenced : \/ StartDelete(r, l)
                         \/ \E h \in Holders : StartAllocate(r, l, h)
                         \/ \E to \in (Sizes \cup {Unlimited, None}) \X {"active", "cancelled"} :
                              StartUpdate(r, l, to)
  \/ \E h \in Holders : StartFree(r, h)
  \/ \E s \in Seats : CommitAllocate(r, s) \/ FreeOne(r, s)
  \/ CommitUpdate(r) \/ CommitDelete(r) \/ GiveUp(r)

Next ==
  \/ \E r \in Requests : RequestStep(r)
  \/ \E s \in Seats : Revoke(s)
  \/ \E l \in Licenced : Restore(l) \/ Purge(l)

Spec == Init /\ [][Next]_vars

-----------------------------------------------------------------------------
(* Properties                                                              *)

\* Every variable has its type (licence.model.ts).
TypeOK ==
  /\ licence \in [Licenced -> Licence]
  /\ seat \in [Seats -> Seat]
  /\ request \in [Requests -> Request]

\* No licence ever has more live seats than were bought, whatever allocations,
\* reductions, deletions and restores overlap ("never eleven people on a
\* ten-seat licence").
NoOverAllocation ==
  \A l \in Licenced :
    licence[l].seats # Unlimited => Cardinality(Taken(l)) <= licence[l].seats

\* The count that the conditions look at never runs below the seats in use.
CountCovers == \A l \in Licenced : Cardinality(Taken(l)) <= licence[l].used

=============================================================================
