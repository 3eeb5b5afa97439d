------------------------------ MODULE Hierarchy -------------------------------
(* Departments, locations or cost centres: a tree kept twice, as each unit's   *)
(* parent and as its path of ancestors.  A move saves the unit and then        *)
(* rewrites the paths below it one row at a time.  People are placed in units. *)
EXTENDS Naturals, FiniteSets, Sequences, SequencesExt

CONSTANTS
  Units,     \* org units of one kind
  Editors,   \* requests under way
  Residents, \* people placed in the units
  MaxUnitEdits,  \* bound: requests begun
  Nil        \* no row, null

ASSUME HierarchyAssumption == MaxUnitEdits \in Nat /\ IsFiniteSet(Units) /\ Nil \notin Units

VARIABLES
  unit,      \* org units
  home,      \* departmentId, locationId or costCentreId of each person
  edit,      \* what each request holds between two calls
  edits,     \* requests begun, up to MaxUnitEdits
  orgSlipped,   \* history: a request wrote from an overtaken read, or died half way
  staleRestore  \* history: a unit came back whose ancestors had moved meanwhile

hierarchyVars == <<unit, home, edit, edits, orgSlipped, staleRestore>>

Paths == Seq(Units)

Unit == [parent : Units \cup {Nil}, path : Paths, deleted : BOOLEAN]

\* A null is not a row.
ASSUME NoUnitAssumption == Nil \notin Unit

NoEdit == [op |-> "none"]

Edit == {NoEdit}
   \cup [op : {"create"}, unit : Units, parent : Units \cup {Nil}, path : Paths]
   \cup [op : {"check", "resolve"}, unit : Units, parent : Units \cup {Nil}, old : Paths]
   \cup [op : {"move", "list"}, unit : Units, parent : Units \cup {Nil}, old : Paths, path : Paths]
   \cup [op : {"rewrite"}, rows : SUBSET (Units \X Paths \X Paths)]
   \cup [op : {"delete"}, unit : Units]
   \cup [op : {"restore"}, unit : Units, orphaned : BOOLEAN]
   \cup [op : {"place"}, person : Residents, unit : Units]
   \cup [op : {"empty"}, unit : Units, to : Units]

HierarchyTypeOK ==
  /\ unit \in [Units -> Unit \cup {Nil}]
  /\ home \in [Residents -> Units \cup {Nil}]
  /\ edit \in [Editors -> Edit]
  /\ edits \in 0..MaxUnitEdits
  /\ orgSlipped \in BOOLEAN /\ staleRestore \in BOOLEAN

HierarchyInit ==
  /\ unit = [u \in Units |-> Nil]
  /\ home = [p \in Residents |-> Nil]
  /\ edit = [e \in Editors |-> NoEdit]
  /\ edits = 0
  /\ orgSlipped = FALSE /\ staleRestore = FALSE

LiveUnits == {u \in Units : unit[u] # Nil /\ ~unit[u].deleted}

Editing(e, op) == edit[e].op = op

Hold(e, v) == edit' = [edit EXCEPT ![e] = v]

OpenEdit(e, v) ==
  /\ edit[e] = NoEdit /\ edits < MaxUnitEdits
  /\ edits' = edits + 1
  /\ Hold(e, v)
  /\ UNCHANGED <<unit, home, orgSlipped, staleRestore>>

Slips(overtaken) == orgSlipped' = (orgSlipped \/ overtaken)

(* A save that replaces the path compares the version its request read, so it  *)
(* ends every other request that is still to replace the path of that unit.    *)
SavePath(e, u, v) ==
  edit' = [f \in Editors |->
    CASE f = e -> v
      [] f # e -> IF /\ \/ edit[f].op \in {"check", "resolve", "move"}
                        \/ Editing(f, "restore") /\ edit[f].orphaned
                     /\ edit[f].unit = u
                  THEN NoEdit ELSE edit[f]]

(* Another request has saved a move and not rewritten every path below it.     *)
MidMove(e) ==
  \E f \in Editors \ {e} : Editing(f, "list") \/ (Editing(f, "rewrite") /\ edit[f].rows # {})

(* resolvePath()                                                               *)
PathUnder(p) == IF p = Nil THEN <<>> ELSE Append(unit[p].path, p)

Exists(p) == p = Nil \/ p \in LiveUnits

-------------------------------------------------------------------------------
FindParent(e, u, p) ==
  /\ unit[u] = Nil /\ Exists(p)
  /\ OpenEdit(e, [op |-> "create", unit |-> u, parent |-> p, path |-> PathUnder(p)])

CreateOrgUnit(e) ==
  LET u == edit[e].unit
      p == edit[e].parent
  IN  /\ Editing(e, "create") /\ unit[u] = Nil
      /\ unit' = [unit EXCEPT ![u] = [parent |-> p, path |-> edit[e].path, deleted |-> FALSE]]
      /\ Slips(~Exists(p) \/ PathUnder(p) # edit[e].path \/ MidMove(e))
      /\ Hold(e, NoEdit)
      /\ UNCHANGED <<home, edits, staleRestore>>

FindUnit(e, u, p) ==
  /\ u \in LiveUnits /\ p # unit[u].parent
  /\ OpenEdit(e, [op |-> "check", unit |-> u, parent |-> p, old |-> unit[u].path])

AssertNoCycle(e) ==
  LET u == edit[e].unit
      p == edit[e].parent
  IN  /\ Editing(e, "check")
      /\ Exists(p) /\ ~Contains(PathUnder(p), u)
      /\ edit' = [edit EXCEPT ![e].op = "resolve"]
      /\ UNCHANGED <<unit, home, edits, orgSlipped, staleRestore>>

ResolvePath(e) ==
  LET p == edit[e].parent
  IN  /\ Editing(e, "resolve") /\ Exists(p)
      /\ Hold(e, [op |-> "move", unit |-> edit[e].unit, parent |-> p, old |-> edit[e].old,
                  path |-> PathUnder(p)])
      /\ UNCHANGED <<unit, home, edits, orgSlipped, staleRestore>>

UpdateOrgUnit(e) ==
  LET u == edit[e].unit
      p == edit[e].parent
  IN  /\ Editing(e, "move")
      /\ unit' = [unit EXCEPT ![u].parent = p, ![u].path = edit[e].path]
      /\ Slips(\/ u \notin LiveUnits \/ ~Exists(p) \/ unit[u].path # edit[e].old
               \/ PathUnder(p) # edit[e].path \/ Contains(edit[e].path, u) \/ MidMove(e))
      /\ SavePath(e, u, [edit[e] EXCEPT !.op = "list"])
      /\ UNCHANGED <<home, edits, staleRestore>>

(* Mutant: the slice starts at the unit itself.                                *)
TailFromUnit(path, old) == SubSeq(path, Len(old) + 1, Len(path))

(* What is left of a path below the unit: everything after its old path and it.*)
TailBelow(path, old) == SubSeq(path, Len(old) + 2, Len(path))

FindDescendants(e) ==
  LET u == edit[e].unit
      below == {d \in LiveUnits : Contains(unit[d].path, u)}
  IN  /\ Editing(e, "list")
      /\ Hold(e, [op |-> "rewrite",
                  rows |-> {<<d, unit[d].path,
                              Append(edit[e].path, u) \o TailBelow(unit[d].path, edit[e].old)>>
                            : d \in below}])
      /\ Slips(\/ unit[u].path # edit[e].path
               \/ \E d \in below : ~IsPrefix(Append(edit[e].old, u), unit[d].path))
      /\ UNCHANGED <<unit, home, edits, staleRestore>>

RewriteDescendant(e, row) ==
  /\ Editing(e, "rewrite") /\ row \in edit[e].rows
  /\ unit' = IF row[1] \in LiveUnits THEN [unit EXCEPT ![row[1]].path = row[3]] ELSE unit
  /\ Slips(row[1] \notin LiveUnits \/ unit[row[1]].path # row[2])
  /\ edit' = [edit EXCEPT ![e].rows = @ \ {row}]
  /\ UNCHANGED <<home, edits, staleRestore>>

MoveEnds(e) ==
  /\ Editing(e, "rewrite") /\ edit[e].rows = {}
  /\ Hold(e, NoEdit)
  /\ UNCHANGED <<unit, home, edits, orgSlipped, staleRestore>>

-------------------------------------------------------------------------------
(* deleteUnit(), deleteOrgUnit(): nothing may be in it or below it.            *)
CountReferences(e, u) ==
  /\ u \in LiveUnits
  /\ \A v \in LiveUnits : unit[v].parent # u
  /\ \A p \in Residents : home[p] # u
  /\ OpenEdit(e, [op |-> "delete", unit |-> u])

DeleteOrgUnit(e) ==
  LET u == edit[e].unit
  IN  /\ Editing(e, "delete")
      /\ unit' = [unit EXCEPT ![u].deleted = TRUE]
      /\ Slips((\E v \in LiveUnits : unit[v].parent = u) \/ \E p \in Residents : home[p] = u)
      /\ Hold(e, NoEdit)
      /\ UNCHANGED <<home, edits, staleRestore>>

FindDeletedUnit(e, u) ==
  /\ unit[u] # Nil /\ unit[u].deleted
  /\ OpenEdit(e, [op |-> "restore", unit |-> u, orphaned |-> ~Exists(unit[u].parent)])

(* A unit whose parent is gone comes back at the top; any other as it was.  A  *)
(* request that read it before another one restored it is overtaken when there *)
(* are units below it by now.                                                  *)
RestoreOrgUnit(e) ==
  LET u == edit[e].unit
      back == IF edit[e].orphaned THEN [unit[u] EXCEPT !.parent = Nil, !.path = <<>>] ELSE unit[u]
  IN  /\ Editing(e, "restore")
      /\ unit' = [unit EXCEPT ![u] = [back EXCEPT !.deleted = FALSE]]
      /\ Slips(\/ ~Exists(back.parent) \/ MidMove(e)
               \/ edit[e].orphaned /\ \E v \in LiveUnits : unit[v].parent = u)
      /\ staleRestore' = (staleRestore \/ (Exists(back.parent) /\ PathUnder(back.parent) # back.path))
      /\ IF edit[e].orphaned THEN SavePath(e, u, NoEdit) ELSE Hold(e, NoEdit)
      /\ UNCHANGED <<home, edits>>

-------------------------------------------------------------------------------
(* assertReferencesExist(), and then the save of the person.                   *)
FindPlace(e, p, u) ==
  /\ u \in LiveUnits
  /\ OpenEdit(e, [op |-> "place", person |-> p, unit |-> u])

PlacePerson(e) ==
  /\ Editing(e, "place")
  /\ home' = [home EXCEPT ![edit[e].person] = edit[e].unit]
  /\ Slips(edit[e].unit \notin LiveUnits)
  /\ Hold(e, NoEdit)
  /\ UNCHANGED <<unit, edits, staleRestore>>

FindUnits(e, u, v) ==
  /\ {u, v} \subseteq LiveUnits /\ u # v
  /\ OpenEdit(e, [op |-> "empty", unit |-> u, to |-> v])

MoveContents(e) ==
  /\ Editing(e, "empty")
  /\ home' = [p \in Residents |-> IF home[p] = edit[e].unit THEN edit[e].to ELSE home[p]]
  /\ Slips(edit[e].to \notin LiveUnits)
  /\ Hold(e, NoEdit)
  /\ UNCHANGED <<unit, edits, staleRestore>>

(* A request is refused, or dies: half way through a move the paths stay as    *)
(* they are.                                                                   *)
EditEnds(e) ==
  /\ edit[e] # NoEdit
  /\ Slips(Editing(e, "list") \/ (Editing(e, "rewrite") /\ edit[e].rows # {}))
  /\ Hold(e, NoEdit)
  /\ UNCHANGED <<unit, home, edits, staleRestore>>

HierarchyNext ==
  \E e \in Editors :
    \/ CreateOrgUnit(e) \/ AssertNoCycle(e) \/ ResolvePath(e) \/ UpdateOrgUnit(e)
    \/ FindDescendants(e) \/ MoveEnds(e) \/ DeleteOrgUnit(e) \/ RestoreOrgUnit(e)
    \/ PlacePerson(e) \/ MoveContents(e) \/ EditEnds(e)
    \/ edit[e].op = "rewrite" /\ \E row \in edit[e].rows : RewriteDescendant(e, row)
    \/ \E u \in Units :
         \/ CountReferences(e, u) \/ FindDeletedUnit(e, u)
         \/ \E p \in Units \cup {Nil} : FindParent(e, u, p) \/ FindUnit(e, u, p)
         \/ \E p \in Residents : FindPlace(e, p, u)
         \/ \E v \in Units : FindUnits(e, u, v)

HierarchySpec == HierarchyInit /\ [][HierarchyNext]_hierarchyVars

-------------------------------------------------------------------------------
(* Every live unit hangs from a live one or from the top, its path is that of  *)
(* its parent and the parent, and nobody is placed in a unit that is gone.     *)
TreeAgrees ==
  /\ \A u \in LiveUnits : Exists(unit[u].parent) /\ unit[u].path = PathUnder(unit[u].parent)
  /\ \A p \in Residents : home[p] = Nil \/ home[p] \in LiveUnits

AtRest == \A e \in Editors : edit[e] = NoEdit

(* Creating, moving, deleting and filling units leaves the tree and its paths  *)
(* in agreement (hierarchy.ts:6-15), as long as no request wrote from a read   *)
(* that was overtaken, fell into the move of another or died half way, and no  *)
(* unit came back from the bin after its ancestors had moved.                  *)
PathsAgree == (~orgSlipped /\ ~staleRestore /\ AtRest) => TreeAgrees

(* "Each node stores path[] - the ids of every ancestor, root first"           *)
(* (hierarchy.ts:7), for restored units as well.                               *)
RestoredPathsAgree == (~orgSlipped /\ AtRest) => TreeAgrees

=============================================================================
