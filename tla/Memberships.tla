----------------------------- MODULE Memberships ------------------------------
(* Who belongs to one organisation: memberships, invitations, and the seats    *)
(* the subscription counts for them.  Requests check first and write later, in *)
(* separate database calls and without a transaction.                          *)
(*                                                                             *)
(* Every address is the address of one user.  Access tokens are not modelled:  *)
(* what a member may do is read from the database on every request.            *)
EXTENDS Integers, FiniteSets

CONSTANTS
  Callers,      \* requests under way
  Users,
  Founder,      \* registered the organisation
  Invitations,  \* invitations that can be made
  SeatLimit,    \* seats of the plan
  MaxEdits,     \* bound: changes of one member's role
  NoRow,        \* no membership, no invitation
  Removed       \* an invitation the TTL index removed

ASSUME MembershipsAssumption ==
  /\ SeatLimit \in Nat \ {0} /\ MaxEdits \in Nat
  /\ Founder \in Users
  /\ IsFiniteSet(Users) /\ IsFiniteSet(Invitations) /\ IsFiniteSet(Callers)

VARIABLES
  membership,  \* memberships collection, by user
  invitation,  \* invitations collection
  seatsUsed,   \* TenantUsage.seatsUsed
  call,        \* what each request holds between two database calls
  slipped      \* history: a request wrote from a read that another had overtaken,
               \* or died between two writes that belong together

membershipVars == <<membership, invitation, seatsUsed, call, slipped>>

Membership == [role : {"owner", "member"}, status : {"active", "suspended"}, edits : 0..MaxEdits]

Invitation == [email : Users, accepted : BOOLEAN, revoked : BOOLEAN, expired : BOOLEAN]

ASSUME NoRowAssumption == NoRow \notin Membership \cup Invitation /\ Removed \notin Invitation

NoCall == [op |-> "none"]

Call == [op : {"none"}]
   \cup [op : {"invite"}, seats : Int]
   \cup [op : {"countSeat"}, seats : Int]
   \cup [op : {"join"}, on : Invitations, email : Users]
   \cup [op : {"accept", "revoke", "resend"}, on : Invitations]
   \cup [op : {"releaseSeat"}]
   \cup [op : {"setRole"}, on : Users, role : {"owner", "member"}, edits : 0..MaxEdits]
   \cup [op : {"saveRole"}, on : Users, role : {"owner", "member"}, edits : 0..MaxEdits, others : SUBSET Users]
   \cup [op : {"suspend"}, on : Users, others : SUBSET Users]

MembershipsTypeOK ==
  /\ membership \in [Users -> Membership \cup {NoRow}]
  /\ invitation \in [Invitations -> Invitation \cup {NoRow, Removed}]
  /\ seatsUsed \in Int
  /\ call \in [Callers -> Call]
  /\ slipped \in BOOLEAN

(* register: the tenant, its owner membership and the owner's seat.            *)
MembershipsInit ==
  /\ membership = [u \in Users |-> IF u = Founder
                     THEN [role |-> "owner", status |-> "active", edits |-> 0] ELSE NoRow]
  /\ invitation = [i \in Invitations |-> NoRow]
  /\ seatsUsed = 1
  /\ call = [c \in Callers |-> NoCall]
  /\ slipped = FALSE

Members == {u \in Users : membership[u] # NoRow}

ActiveOwners == {u \in Members : membership[u].role = "owner" /\ membership[u].status = "active"}

Kept == {i \in Invitations : invitation[i] \notin {NoRow, Removed}}

\* Neither accepted nor revoked: the filter of the partial unique index.
Open == {i \in Kept : ~invitation[i].accepted /\ ~invitation[i].revoked}

Turn(c, t) == call' = [call EXCEPT ![c] = t]

Free(c) == call[c] = NoCall

-------------------------------------------------------------------------------
(* Inviting: a seat is checked, the invitation created, the seat counted.      *)

AssertSeat(c) ==
  /\ Free(c)
  /\ seatsUsed + 1 <= SeatLimit
  /\ Turn(c, [op |-> "invite", seats |-> seatsUsed])
  /\ UNCHANGED <<membership, invitation, seatsUsed, slipped>>

InviteMember(c, i, u) ==
  /\ call[c].op = "invite"
  /\ invitation[i] = NoRow
  /\ \A o \in Open : invitation[o].email # u
  /\ invitation' = [invitation EXCEPT ![i] =
       [email |-> u, accepted |-> FALSE, revoked |-> FALSE, expired |-> FALSE]]
  /\ Turn(c, [op |-> "countSeat", seats |-> call[c].seats])
  /\ UNCHANGED <<membership, seatsUsed, slipped>>

CountSeat(c) ==
  /\ call[c].op = "countSeat"
  /\ seatsUsed' = seatsUsed + 1
  /\ slipped' = (slipped \/ seatsUsed > call[c].seats)
  /\ Turn(c, NoCall)
  /\ UNCHANGED <<membership, invitation>>

-------------------------------------------------------------------------------
(* An invitation is accepted, sent again, withdrawn, or runs out.              *)

FindInvitation(c, i) ==
  /\ Free(c)
  /\ i \in Open
  /\ \/ ~invitation[i].expired /\ Turn(c, [op |-> "join", on |-> i, email |-> invitation[i].email])
     \/ Turn(c, [op |-> "revoke", on |-> i])
     \/ Turn(c, [op |-> "resend", on |-> i])
  /\ UNCHANGED <<membership, invitation, seatsUsed, slipped>>

(* The unique index refuses a second membership of one user.                   *)
CreateMembership(c) ==
  /\ call[c].op = "join"
  /\ membership[call[c].email] = NoRow
  /\ membership' = [membership EXCEPT ![call[c].email] =
       [role |-> "member", status |-> "active", edits |-> 0]]
  /\ slipped' = (slipped \/ call[c].on \notin Open)
  /\ Turn(c, [op |-> "accept", on |-> call[c].on])
  /\ UNCHANGED <<invitation, seatsUsed>>

MarkAccepted(c) ==
  /\ call[c].op = "accept"
  /\ LET i == call[c].on
     IN /\ invitation' = [invitation EXCEPT ![i] =
             IF i \in Kept THEN [invitation[i] EXCEPT !.accepted = TRUE] ELSE @]
        /\ slipped' = (slipped \/ i \notin Open)
  /\ Turn(c, NoCall)
  /\ UNCHANGED <<membership, seatsUsed>>

(* save() names the document by its id alone: it fails only if that is gone.   *)
ResendInvitation(c) ==
  /\ call[c].op = "resend"
  /\ call[c].on \in Kept
  /\ invitation' = [invitation EXCEPT ![call[c].on].expired = FALSE]
  /\ Turn(c, NoCall)
  /\ UNCHANGED <<membership, seatsUsed, slipped>>

RevokeInvitation(c) ==
  /\ call[c].op = "revoke"
  /\ call[c].on \in Kept
  /\ invitation' = [invitation EXCEPT ![call[c].on].revoked = TRUE]
  /\ slipped' = (slipped \/ call[c].on \notin Open)
  /\ Turn(c, [op |-> "releaseSeat"])
  /\ UNCHANGED <<membership, seatsUsed>>

ReleaseSeat(c) ==
  /\ call[c].op = "releaseSeat"
  /\ seatsUsed' = seatsUsed - 1
  /\ Turn(c, NoCall)
  /\ UNCHANGED <<membership, invitation, slipped>>

Expire(i) ==
  /\ i \in Kept
  /\ ~invitation[i].expired
  /\ invitation' = [invitation EXCEPT ![i].expired = TRUE]
  /\ UNCHANGED <<membership, seatsUsed, call, slipped>>

(* The TTL index removes any invitation past its date; nothing frees its seat. *)
ExpiredRowRemoved(i) ==
  /\ i \in Kept
  /\ invitation[i].expired
  /\ invitation' = [invitation EXCEPT ![i] = Removed]
  /\ UNCHANGED <<membership, seatsUsed, call, slipped>>

-------------------------------------------------------------------------------
(* Roles and suspension, guarded by assertNotLastOwner.                        *)

(* Mutant: the owner who is to step down is counted too.                       *)
OwnersWithTarget(u) == ActiveOwners

OtherOwners(u) == ActiveOwners \ {u}

(* Passes when the target is no owner or another owner is active.              *)
NotLastOwner(u) == u \in Members /\ membership[u].role = "owner" => OtherOwners(u) # {}

FindForRole(c, u, role) ==
  /\ Free(c)
  /\ u \in Members
  /\ membership[u].edits < MaxEdits
  /\ Turn(c, [op |-> "setRole", on |-> u, role |-> role, edits |-> membership[u].edits])
  /\ UNCHANGED <<membership, invitation, seatsUsed, slipped>>

CheckOwnersForRole(c) ==
  /\ call[c].op = "setRole"
  /\ call[c].role = "owner" \/ NotLastOwner(call[c].on)
  /\ Turn(c, [op |-> "saveRole", on |-> call[c].on, role |-> call[c].role,
              edits |-> call[c].edits, others |-> OtherOwners(call[c].on)])
  /\ UNCHANGED <<membership, invitation, seatsUsed, slipped>>

(* Replacing the whole array makes mongoose compare the version it read.       *)
UpdateMemberRoles(c) ==
  /\ call[c].op = "saveRole"
  /\ LET u == call[c].on
     IN /\ membership[u].edits = call[c].edits
        /\ membership' = [membership EXCEPT ![u].role = call[c].role, ![u].edits = @ + 1]
        /\ slipped' = (slipped \/ OtherOwners(u) # call[c].others)
  /\ Turn(c, NoCall)
  /\ UNCHANGED <<invitation, seatsUsed>>

CheckOwnersForSuspend(c, u) ==
  /\ Free(c)
  /\ u \in Members
  /\ NotLastOwner(u)
  /\ Turn(c, [op |-> "suspend", on |-> u, others |-> OtherOwners(u)])
  /\ UNCHANGED <<membership, invitation, seatsUsed, slipped>>

(* No version is compared here, so a promotion made meanwhile is not noticed.  *)
SuspendMember(c) ==
  /\ call[c].op = "suspend"
  /\ LET u == call[c].on
     IN /\ membership' = [membership EXCEPT ![u].status = "suspended"]
        /\ slipped' = (slipped \/ OtherOwners(u) # call[c].others)
  /\ Turn(c, NoCall)
  /\ UNCHANGED <<invitation, seatsUsed>>

ReactivateMember(u) ==
  /\ u \in Members
  /\ membership' = [membership EXCEPT ![u].status = "active"]
  /\ UNCHANGED <<invitation, seatsUsed, call, slipped>>

-------------------------------------------------------------------------------
(* A request ends early: refused by a check, or failed between two calls.      *)
CallEnds(c) ==
  /\ ~Free(c)
  /\ slipped' = (slipped \/ call[c].op \in {"countSeat", "accept", "releaseSeat"})
  /\ Turn(c, NoCall)
  /\ UNCHANGED <<membership, invitation, seatsUsed>>

MembershipsNext ==
  \/ \E c \in Callers :
       \/ AssertSeat(c) \/ CountSeat(c) \/ CreateMembership(c) \/ MarkAccepted(c)
       \/ ResendInvitation(c) \/ RevokeInvitation(c) \/ ReleaseSeat(c)
       \/ CheckOwnersForRole(c) \/ UpdateMemberRoles(c) \/ SuspendMember(c) \/ CallEnds(c)
       \/ \E i \in Invitations : FindInvitation(c, i) \/ \E u \in Users : InviteMember(c, i, u)
       \/ \E u \in Users : CheckOwnersForSuspend(c, u)
       \/ \E u \in Users, role \in {"owner", "member"} : FindForRole(c, u, role)
  \/ \E i \in Invitations : Expire(i) \/ ExpiredRowRemoved(i)
  \/ \E u \in Users : ReactivateMember(u)

MembershipsSpec == MembershipsInit /\ [][MembershipsNext]_membershipVars

-------------------------------------------------------------------------------
(* Between requests an organisation has an owner who can sign in, and every    *)
(* member and every open invitation holds a seat of the plan, as long as no    *)
(* request has written from an overtaken read or died half way                 *)
(* (membership.service.ts:58, membership.controller.ts:54).  The checks are    *)
(* complete, then: only their lack of isolation can break either.              *)
OrganisationInOrder ==
  (~slipped /\ \A c \in Callers : Free(c)) =>
     /\ ActiveOwners # {}
     /\ Cardinality(Members) + Cardinality(Open) <= seatsUsed
     /\ seatsUsed <= SeatLimit

=============================================================================
