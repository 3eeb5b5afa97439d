---------------------------- MODULE ReportingLines ----------------------------
(* Who manages whom.  An edit walks up from the new manager, one read at a     *)
(* time, and refuses when it meets the person; deleting somebody with reports  *)
(* is refused; coming back clears a manager who has gone.                      *)
EXTENDS Naturals, FiniteSets

CONSTANTS
  Staff,     \* people
  Officers,  \* requests under way
  MaxWalk,   \* levels createsManagerCycle() looks at
  NoOne      \* null

ASSUME ReportingLinesAssumption == MaxWalk \in Nat /\ IsFiniteSet(Staff) /\ NoOne \notin Staff

VARIABLES
  managerOf,     \* managerId
  gone,          \* people with a deletedAt
  walk,          \* what each request holds
  linesSlipped   \* history: a write fell between the reads and the write of another

reportingVars == <<managerOf, gone, walk, linesSlipped>>

NoWalk == [op |-> "none"]

Walk == {NoWalk}
   \cup [op : {"walk", "save"}, person : Staff, manager : Staff, at : Staff \cup {NoOne},
         depth : 0..MaxWalk]
   \cup [op : {"delete"}, person : Staff]
   \cup [op : {"restore"}, person : Staff, orphaned : BOOLEAN]

ReportingTypeOK ==
  /\ managerOf \in [Staff -> Staff \cup {NoOne}]
  /\ gone \subseteq Staff
  /\ walk \in [Officers -> Walk]
  /\ linesSlipped \in BOOLEAN

ReportingInit ==
  /\ managerOf = [p \in Staff |-> NoOne]
  /\ gone = {}
  /\ walk = [o \in Officers |-> NoWalk]
  /\ linesSlipped = FALSE

Present == Staff \ gone

Stride(o, v) == walk' = [walk EXCEPT ![o] = v]

Writes(o) ==
  /\ Stride(o, NoWalk)
  /\ linesSlipped' = (linesSlipped \/ \E q \in Officers \ {o} : walk[q] # NoWalk)

Reads(o, v) ==
  /\ Stride(o, v)
  /\ UNCHANGED <<managerOf, gone, linesSlipped>>

(* assertReferencesExist(): not themselves, and somebody who is there.         *)
FindForManager(o, p, m) ==
  /\ walk[o] = NoWalk
  /\ {p, m} \subseteq Present /\ p # m
  /\ Reads(o, [op |-> "walk", person |-> p, manager |-> m, at |-> m, depth |-> 0])

(* Mutant: one level short.                                                    *)
StopsEarly(w) == w.at = NoOne \/ w.depth + 1 >= MaxWalk

(* The loop condition: past the top, or at the bound.                          *)
WalkedEnough(w) == w.at = NoOne \/ w.depth = MaxWalk

(* createsManagerCycle(): one more level, up to the top or the bound, or to    *)
(* the person, which refuses the edit.  A row that is not there has no manager. *)
WalkUp(o) ==
  LET w == walk[o]
  IN  /\ w.op = "walk"
      /\ Reads(o, IF WalkedEnough(w) THEN [w EXCEPT !.op = "save"]
                  ELSE IF w.at = w.person THEN NoWalk
                  ELSE [w EXCEPT !.at = IF w.at \in Present THEN managerOf[w.at] ELSE NoOne,
                                 !.depth = @ + 1])

UpdateManager(o) ==
  /\ walk[o].op = "save"
  /\ managerOf' = [managerOf EXCEPT ![walk[o].person] = walk[o].manager]
  /\ Writes(o)
  /\ UNCHANGED gone

ClearManager(p) ==
  /\ p \in Present /\ managerOf[p] # NoOne
  /\ managerOf' = [managerOf EXCEPT ![p] = NoOne]
  /\ UNCHANGED <<gone, walk, linesSlipped>>

CountReports(o, p) ==
  /\ walk[o] = NoWalk
  /\ p \in Present /\ \A q \in Present : managerOf[q] # p
  /\ Reads(o, [op |-> "delete", person |-> p])

DeleteManager(o) ==
  /\ walk[o].op = "delete"
  /\ gone' = gone \cup {walk[o].person}
  /\ Writes(o)
  /\ UNCHANGED managerOf

FindDeletedPerson(o, p) ==
  /\ walk[o] = NoWalk
  /\ p \in gone
  /\ Reads(o, [op |-> "restore", person |-> p, orphaned |-> managerOf[p] \notin Present])

RestoreManaged(o) ==
  /\ walk[o].op = "restore"
  /\ gone' = gone \ {walk[o].person}
  /\ managerOf' = IF walk[o].orphaned THEN [managerOf EXCEPT ![walk[o].person] = NoOne]
                                      ELSE managerOf
  /\ Writes(o)

OfficerLeaves(o) == walk[o] # NoWalk /\ Reads(o, NoWalk)

ReportingNext ==
  \/ \E o \in Officers :
       \/ WalkUp(o) \/ UpdateManager(o) \/ DeleteManager(o) \/ RestoreManaged(o) \/ OfficerLeaves(o)
       \/ \E p \in Staff : \/ CountReports(o, p) \/ FindDeletedPerson(o, p)
                           \/ \E m \in Staff : FindForManager(o, p, m)
  \/ \E p \in Staff : ClearManager(p)

ReportingSpec == ReportingInit /\ [][ReportingNext]_reportingVars

-------------------------------------------------------------------------------
(* "A cycle makes every org-chart query hang" (people.service.ts:259): as long *)
(* as no write fell between the reads and the write of another request,        *)
(* everybody's manager is there and no MaxWalk people or fewer manage each      *)
(* other: a cycle, if there is one, is longer than a walk looks (line 265).     *)
(* What was deleted and came back, was skipped by a walk while it was gone, or *)
(* hangs below such a long cycle, is no way around it.                          *)
LinesLeadUp ==
  ~linesSlipped =>
     /\ \A p \in Present : managerOf[p] \in Present \cup {NoOne}
     /\ \A group \in SUBSET Present :
          group # {} /\ Cardinality(group) <= MaxWalk => \E p \in group : managerOf[p] \notin group

=============================================================================
