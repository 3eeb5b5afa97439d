------------------------------- MODULE Notices --------------------------------
(* The nightly scans that warn of something about to lapse (a warranty, a      *)
(* licence; one for each organisation here) and the notices they send.  A scan *)
(* goes through the organisations in turn, each under its own context, and     *)
(* tells every active member; two scans overlap when a lease lapses.           *)
EXTENDS Integers, FiniteSets, Sequences, SequencesExt

CONSTANTS
  Organisations,  \* active and trialing tenants
  Members,        \* memberships of each
  Thresholds,     \* NOTICE_THRESHOLDS, in order
  FirstDays,      \* days left at first
  Scanners        \* runners of the scan

ASSUME NoticesAssumption ==
  /\ Thresholds \in Seq(Nat) /\ Thresholds # <<>> /\ FirstDays \in Nat

VARIABLES
  daysLeft,  \* daysUntil() the date
  active,    \* members whose membership is active, by organisation
  notices,   \* notifications: <<organisation, member, threshold>>, its dedupeKey
  read,      \* those with a readAt
  emailed,   \* those whose mail was asked for
  scan,      \* what each runner holds
  broken     \* history: a scan died, or failed to ask for a mail

noticeVars == <<daysLeft, active, notices, read, emailed, scan, broken>>

Notice == Organisations \X Members \X ToSet(Thresholds)

NoScan == [pc |-> "idle", left |-> {}, failed |-> {}, todo |-> {}]

(* left: organisations to come; todo: notices of the one at hand.              *)
Scan == [pc : {"idle", "next", "notify", "over"}, left : SUBSET Organisations,
         failed : SUBSET Organisations, todo : SUBSET Notice]

NoticesTypeOK ==
  /\ daysLeft \in -1..FirstDays
  /\ active \in [Organisations -> SUBSET Members]
  /\ notices \subseteq Notice
  /\ read \subseteq notices
  /\ emailed \subseteq Notice
  /\ scan \in [Scanners -> Scan \cup [pc : {"email"}, notice : Notice, scan : Scan]]
  /\ broken \in BOOLEAN

NoticesInit ==
  /\ daysLeft = FirstDays
  /\ active = [o \in Organisations |-> Members]
  /\ notices = {} /\ read = {} /\ emailed = {}
  /\ scan = [s \in Scanners |-> NoScan]
  /\ broken = FALSE

(* NOTICE_THRESHOLDS.find(): the first one the days are within, or none.       *)
ThresholdFor(days) ==
  LET fits == {i \in 1..Len(Thresholds) : days <= Thresholds[i]}
  IN  {Thresholds[i] : i \in {j \in fits : \A k \in fits : j <= k}}

BeginScan(s) ==
  /\ scan[s].pc \in {"idle", "over"}
  /\ scan' = [scan EXCEPT ![s] = [NoScan EXCEPT !.pc = "next", !.left = Organisations]]
  /\ UNCHANGED <<daysLeft, active, notices, read, emailed, broken>>

(* What is expiring and who is to know are read together; what lapsed more     *)
(* than a day ago is not looked at.                                            *)
ScanOrganisation(s, o) ==
  /\ scan[s].pc = "next" /\ o \in scan[s].left
  /\ scan' = [scan EXCEPT ![s].pc = "notify", ![s].left = @ \ {o},
                          ![s].todo = {o} \X active[o] \X ThresholdFor(daysLeft)]
  /\ UNCHANGED <<daysLeft, active, notices, read, emailed, broken>>

(* Mutant: an error ends the scan of every organisation.                       *)
ScanFailsForAll(s) ==
  /\ scan[s].pc = "notify" /\ scan[s].todo # {}
  /\ scan' = [scan EXCEPT ![s].pc = "next", ![s].todo = {}, ![s].left = {},
                          ![s].failed = @ \cup {n[1] : n \in scan[s].todo}]
  /\ UNCHANGED <<daysLeft, active, notices, read, emailed, broken>>

(* "One tenant's failure must not stop the scan for everyone else."            *)
ScanFailsForOne(s) ==
  /\ scan[s].pc = "notify" /\ scan[s].todo # {}
  /\ scan' = [scan EXCEPT ![s].pc = "next", ![s].todo = {},
                          ![s].failed = @ \cup {n[1] : n \in scan[s].todo}]
  /\ UNCHANGED <<daysLeft, active, notices, read, emailed, broken>>

(* notify(): a notice whose key is taken is a success that sends nothing.      *)
Notify(s, n) ==
  /\ scan[s].pc = "notify" /\ n \in scan[s].todo
  /\ notices' = notices \cup {n}
  /\ LET rest == [scan[s] EXCEPT !.todo = @ \ {n}]
     IN scan' = [scan EXCEPT ![s] = IF n \in notices THEN rest
                                    ELSE [pc |-> "email", notice |-> n, scan |-> rest]]
  /\ UNCHANGED <<daysLeft, active, read, emailed, broken>>

(* An error of the mail is logged and the scan goes on.                        *)
EmailNotice(s) ==
  /\ scan[s].pc = "email"
  /\ \/ emailed' = emailed \cup {scan[s].notice} /\ UNCHANGED broken
     \/ broken' = TRUE /\ UNCHANGED emailed
  /\ scan' = [scan EXCEPT ![s] = scan[s].scan]
  /\ UNCHANGED <<daysLeft, active, notices, read>>

OrganisationDone(s) ==
  /\ scan[s].pc = "notify" /\ scan[s].todo = {}
  /\ scan' = [scan EXCEPT ![s].pc = "next"]
  /\ UNCHANGED <<daysLeft, active, notices, read, emailed, broken>>

EndScan(s) ==
  /\ scan[s].pc = "next" /\ scan[s].left = {}
  /\ scan' = [scan EXCEPT ![s].pc = "over"]
  /\ UNCHANGED <<daysLeft, active, notices, read, emailed, broken>>

(* The runner dies; the job runs again from the start.                         *)
ScanDies(s) ==
  /\ scan[s].pc \in {"next", "notify", "email"}
  /\ scan' = [scan EXCEPT ![s] = NoScan]
  /\ broken' = (broken \/ scan[s].pc = "email")
  /\ UNCHANGED <<daysLeft, active, notices, read, emailed>>

(* A night passes once nobody scans, since the schedule runs daily.            *)
NightPasses ==
  /\ \A s \in Scanners : scan[s].pc \in {"idle", "over"}
  /\ daysLeft > -1
  /\ daysLeft' = daysLeft - 1
  /\ scan' = [s \in Scanners |-> NoScan]
  /\ UNCHANGED <<active, notices, read, emailed, broken>>

MemberSuspended(o, m) ==
  /\ m \in active[o]
  /\ active' = [active EXCEPT ![o] = @ \ {m}]
  /\ UNCHANGED <<daysLeft, notices, read, emailed, scan, broken>>

MarkAllRead(o, m) ==
  LET unread == {n \in notices \ read : n[1] = o /\ n[2] = m}
  IN  /\ unread # {}
      /\ read' = read \cup unread
      /\ UNCHANGED <<daysLeft, active, notices, emailed, scan, broken>>

NoticesNext ==
  \/ \E s \in Scanners :
       \/ BeginScan(s) \/ ScanFailsForOne(s) \/ EmailNotice(s) \/ OrganisationDone(s)
       \/ EndScan(s) \/ ScanDies(s)
       \/ \E o \in Organisations : ScanOrganisation(s, o)
       \/ \E n \in Notice : Notify(s, n)
  \/ NightPasses
  \/ \E o \in Organisations, m \in Members : MemberSuspended(o, m) \/ MarkAllRead(o, m)

NoticesSpec == NoticesInit /\ [][NoticesNext]_noticeVars

-------------------------------------------------------------------------------
(* When a scan ends on a day within the first threshold, every member who is   *)
(* still active has the notice, in every organisation the scan did not fail    *)
(* in, whatever failed in the others; and as long as none broke off between a  *)
(* notice and its mail, the mail was asked for with each (notify()).           *)
EveryoneWasTold ==
  \A s \in Scanners :
    scan[s].pc = "over" =>
      \A o \in Organisations \ scan[s].failed : \A m \in active[o] :
        daysLeft <= Thresholds[1] =>
          /\ <<o, m, Thresholds[1]>> \in notices
          /\ ~broken => \/ <<o, m, Thresholds[1]>> \in emailed
                        \/ \E t \in Scanners : /\ scan[t].pc = "email"
                                               /\ scan[t].notice = <<o, m, Thresholds[1]>>

(* "Notifies at 30 and 7 days" (scans.service.ts:61): a scan that ends within  *)
(* the last threshold has sent the notice of that threshold too.               *)
EachThresholdIsSent ==
  \A s \in Scanners :
    (scan[s].pc = "over" /\ daysLeft <= Thresholds[Len(Thresholds)]) =>
      \A o \in Organisations \ scan[s].failed : \A m \in active[o] :
        <<o, m, Thresholds[Len(Thresholds)]>> \in notices

=============================================================================
