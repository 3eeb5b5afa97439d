---------------------------- MODULE HierarchyProofs ----------------------------
(***************************************************************************)
(* Proofs about departments, locations and cost centres, for any units,    *)
(* people and requests that interleave.                                    *)
(*                                                                         *)
(* A move saves the unit and then rewrites the paths below it one row at a *)
(* time.  In between the paths are wrong, in a way the request knows: the  *)
(* invariant says that they agree once the rows it holds are written.      *)
(***************************************************************************)
EXTENDS Hierarchy, SequenceTheorems, TLAPS

\* A move that is saved and whose descendants are not all rewritten.
Mid(v) == v.op = "list" \/ (v.op = "rewrite" /\ v.rows # {})

\* The path a unit has once the rows are written.
HasRow(rows, u) == \E row \in rows : row[1] = u
RowFor(rows, u) == CHOOSE row \in rows : row[1] = u

NewPath(rows, u) == IF HasRow(rows, u) THEN RowFor(rows, u)[3] ELSE unit[u].path

NewPathUnder(rows, p) == IF p = Nil THEN <<>> ELSE Append(NewPath(rows, p), p)

\* Once the rows are written every live unit has the path of its parent and the parent.
Agreed(rows) ==
  \A u \in LiveUnits : Exists(unit[u].parent) /\ NewPath(rows, u) = NewPathUnder(rows, unit[u].parent)

OneRowEach(rows) == \A row, other \in rows : row[1] = other[1] => row = other

\* The units below one that was moved, and the rows that give them their new paths.
Below(v) == {d \in LiveUnits : Contains(unit[d].path, v.unit)}

RowsBelow(v) ==
  {<<d, unit[d].path, Append(v.path, v.unit) \o TailBelow(unit[d].path, v.old)>> : d \in Below(v)}

\* Only the paths of the children are wrong when a unit has just been moved: they
\* are as the unit's old path has it.
Moved(v) ==
  /\ unit[v.unit].path = v.path /\ ~Contains(v.path, v.unit)
  /\ \A u \in LiveUnits :
       /\ Exists(unit[u].parent)
       /\ unit[u].path = IF unit[u].parent = v.unit THEN Append(v.old, v.unit) ELSE PathUnder(unit[u].parent)

\* How far the paths are from agreeing, by what an editor holds.
Settling(v) ==
  /\ v.op = "list" => Moved(v)
  /\ v.op = "rewrite" => (v.rows = {} \/ (OneRowEach(v.rows) /\ Agreed(v.rows)))

\* What a request works on has been created, and nothing is ever removed.
UnitsFound ==
  \A e \in Editors : edit[e].op \in {"check", "resolve", "move", "list", "delete", "restore"} =>
    unit[edit[e].unit] # Nil

\* Every live unit hangs from a live one or from the top, with the path that gives.
PathsInOrder ==
  \A u \in LiveUnits : Exists(unit[u].parent) /\ unit[u].path = PathUnder(unit[u].parent)

\* Everyone who is placed is in a unit that is there.
Housed == \A p \in Residents : home[p] = Nil \/ home[p] \in LiveUnits

\* One move is saved at a time, and what the request that saved it holds leads to
\* paths that agree.
MovesSettle ==
  /\ \A e, f \in Editors : Mid(edit[e]) /\ Mid(edit[f]) => e = f
  /\ \A e \in Editors : Settling(edit[e])

TreeInv ==
  /\ Housed /\ MovesSettle
  /\ (\A e \in Editors : ~Mid(edit[e])) => PathsInOrder

HierarchyInv ==
  /\ HierarchyTypeOK /\ UnitsFound
  /\ ~orgSlipped /\ ~staleRestore => TreeInv


-------------------------------------------------------------------------------
\* What a request holds, by the step it is at.
LEMMA EditFields ==
  ASSUME NEW v \in Edit
  PROVE  /\ v.op = "create" => /\ v.unit \in Units /\ v.parent \in Units \cup {Nil}
                               /\ v.path \in Seq(Units)
         /\ v.op \in {"check", "resolve"} =>
              /\ v.unit \in Units /\ v.parent \in Units \cup {Nil} /\ v.old \in Seq(Units)
              /\ v = [op |-> v.op, unit |-> v.unit, parent |-> v.parent, old |-> v.old]
         /\ v.op \in {"move", "list"} =>
              /\ v.unit \in Units /\ v.parent \in Units \cup {Nil}
              /\ v.old \in Seq(Units) /\ v.path \in Seq(Units)
              /\ v = [op |-> v.op, unit |-> v.unit, parent |-> v.parent, old |-> v.old,
                      path |-> v.path]
         /\ v.op = "rewrite" => /\ v.rows \subseteq Units \X Seq(Units) \X Seq(Units)
                                /\ v = [op |-> "rewrite", rows |-> v.rows]
         /\ v.op = "delete" => v.unit \in Units
         /\ v.op = "restore" => v.unit \in Units /\ v.orphaned \in BOOLEAN
         /\ v.op = "place" => v.person \in Residents /\ v.unit \in Units
         /\ v.op = "empty" => v.unit \in Units /\ v.to \in Units
BY DEF Edit, NoEdit, Paths

\* A row that was written is a unit, and not null.
LEMMA UnitFields ==
  ASSUME HierarchyTypeOK, NEW u \in Units, unit[u] # Nil
  PROVE  /\ unit[u] \in Unit
         /\ unit[u].parent \in Units \cup {Nil} /\ unit[u].path \in Seq(Units)
         /\ unit[u].deleted \in BOOLEAN
BY DEF HierarchyTypeOK, Unit, Paths

LEMMA LiveFields ==
  ASSUME HierarchyTypeOK, NEW u \in LiveUnits
  PROVE  /\ u \in Units /\ u # Nil /\ unit[u] # Nil /\ unit[u] \in Unit
         /\ unit[u].parent \in Units \cup {Nil} /\ unit[u].path \in Seq(Units)
BY UnitFields, HierarchyAssumption DEF LiveUnits

LEMMA PathUnderType ==
  ASSUME HierarchyTypeOK, NEW p, Exists(p)
  PROVE  p \in Units \cup {Nil} /\ PathUnder(p) \in Seq(Units)
<1>1. CASE p = Nil
  BY <1>1 DEF PathUnder
<1>2. CASE p # Nil
  <2>1. p \in LiveUnits
    BY <1>2 DEF Exists
  <2>2. p \in Units /\ unit[p].path \in Seq(Units)
    BY <2>1, LiveFields
  <2> QED BY <1>2, <2>2, AppendProperties DEF PathUnder
<1> QED BY <1>1, <1>2

\* One row is written.
LEMMA UnitWritten ==
  ASSUME HierarchyTypeOK, NEW u \in Units, NEW w \in Unit, unit' = [unit EXCEPT ![u] = w]
  PROVE  /\ unit' \in [Units -> Unit \cup {Nil}]
         /\ unit'[u] = w /\ unit'[u] # Nil
         /\ \A v \in Units : v # u => unit'[v] = unit[v]
BY NoUnitAssumption DEF HierarchyTypeOK

LEMMA EditHeld ==
  ASSUME HierarchyTypeOK, NEW e \in Editors, NEW v \in Edit, Hold(e, v)
  PROVE  /\ edit' \in [Editors -> Edit] /\ edit'[e] = v
         /\ \A f \in Editors : f # e => edit'[f] = edit[f]
BY DEF HierarchyTypeOK, Hold

LEMMA PathSaved ==
  ASSUME HierarchyTypeOK, NEW e \in Editors, NEW v \in Edit, NEW u, SavePath(e, u, v)
  PROVE  /\ edit' \in [Editors -> Edit] /\ edit'[e] = v
         /\ \A f \in Editors : f # e =>
              \/ edit'[f] = edit[f]
              \/ edit'[f] = NoEdit /\ edit[f].op \in {"check", "resolve", "move", "restore"}
<1>1. \A f \in Editors : f # e =>
              \/ edit'[f] = edit[f]
              \/ edit'[f] = NoEdit /\ edit[f].op \in {"check", "resolve", "move", "restore"}
  BY DEF SavePath, Editing
<1>2. edit'[e] = v
  BY DEF SavePath
<1>3. NoEdit \in Edit
  BY DEF Edit
<1>4. \A f \in Editors : edit'[f] \in Edit
  BY <1>1, <1>2, <1>3 DEF HierarchyTypeOK
<1>5. edit' = [f \in Editors |-> edit'[f]]
  BY DEF SavePath
<1> QED BY <1>1, <1>2, <1>4, <1>5

LEMMA NoEditIsEdit == NoEdit \in Edit /\ NoEdit.op = "none"
BY DEF Edit, NoEdit

LEMMA RowsHeld ==
  ASSUME NEW rows, rows \subseteq Units \X Seq(Units) \X Seq(Units)
  PROVE  [op |-> "rewrite", rows |-> rows] \in Edit
BY DEF Edit, Paths

\* Every variable has its type at the start.
LEMMA HierarchyInitType == HierarchyInit => HierarchyTypeOK /\ UnitsFound
<1> SUFFICES ASSUME HierarchyInit PROVE HierarchyTypeOK /\ UnitsFound
  OBVIOUS
<1>1. HierarchyTypeOK
  <2>1. edit \in [Editors -> Edit]
    BY NoEditIsEdit DEF HierarchyInit
  <2>2. unit \in [Units -> Unit \cup {Nil}] /\ home \in [Residents -> Units \cup {Nil}]
    BY DEF HierarchyInit
  <2>3. edits \in 0..MaxUnitEdits
    BY HierarchyAssumption DEF HierarchyInit
  <2>4. orgSlipped \in BOOLEAN /\ staleRestore \in BOOLEAN
    BY DEF HierarchyInit
  <2> QED BY <2>1, <2>2, <2>3, <2>4 DEF HierarchyTypeOK
<1>2. UnitsFound
  BY NoEditIsEdit DEF HierarchyInit, UnitsFound
<1> QED BY <1>1, <1>2

\* Rows are not removed: what the others work on is there as long as it was.
LEMMA FoundKept ==
  ASSUME HierarchyTypeOK, UnitsFound, NEW e \in Editors,
         \A u \in Units : unit[u] # Nil => unit'[u] # Nil,
         \A f \in Editors : f # e => edit'[f] = edit[f] \/ edit'[f] = NoEdit,
         edit'[e].op \in {"check", "resolve", "move", "list", "delete", "restore"} =>
           edit'[e].unit \in Units /\ unit[edit'[e].unit] # Nil
  PROVE  UnitsFound'
<1> SUFFICES ASSUME NEW f \in Editors,
                    edit'[f].op \in {"check", "resolve", "move", "list", "delete", "restore"}
             PROVE  unit'[edit'[f].unit] # Nil
  BY DEF UnitsFound
<1>1. CASE f = e
  BY <1>1
<1>2. CASE f # e
  <2>1. edit'[f] = edit[f]
    BY <1>2, NoEditIsEdit
  <2>2. edit[f].unit \in Units
    <3>1. edit[f] \in Edit
      BY DEF HierarchyTypeOK
    <3> QED BY <2>1, <3>1, EditFields
  <2>3. unit[edit[f].unit] # Nil
    BY <2>1 DEF UnitsFound
  <2> QED BY <2>1, <2>2, <2>3
<1> QED BY <1>1, <1>2

\* The step of one request, in what it does to the types.
LEMMA EditStepTyped ==
  ASSUME HierarchyTypeOK, UnitsFound, NEW e \in Editors, NEW v \in Edit, Hold(e, v),
         unit' = unit, home' \in [Residents -> Units \cup {Nil}], edits' \in 0..MaxUnitEdits,
         orgSlipped' \in BOOLEAN, staleRestore' = staleRestore,
         v.op \in {"check", "resolve", "move", "list", "delete", "restore"} =>
           v.unit \in Units /\ unit[v.unit] # Nil
  PROVE  HierarchyTypeOK' /\ UnitsFound'
<1>1. /\ edit' \in [Editors -> Edit] /\ edit'[e] = v
      /\ \A f \in Editors : f # e => edit'[f] = edit[f]
  BY EditHeld
<1>2. HierarchyTypeOK'
  BY <1>1 DEF HierarchyTypeOK
<1>3. \A u \in Units : unit[u] # Nil => unit'[u] # Nil
  OBVIOUS
<1>4. UnitsFound'
  BY <1>1, <1>3, FoundKept
<1> QED BY <1>2, <1>4

LEMMA OpenEditTyped ==
  ASSUME HierarchyTypeOK, UnitsFound, NEW e \in Editors, NEW v \in Edit, OpenEdit(e, v),
         v.op \in {"check", "resolve", "move", "list", "delete", "restore"} =>
           v.unit \in Units /\ unit[v.unit] # Nil
  PROVE  HierarchyTypeOK' /\ UnitsFound'
<1>1. /\ Hold(e, v) /\ unit' = unit /\ home' = home /\ edits' = edits + 1 /\ edits < MaxUnitEdits
      /\ orgSlipped' = orgSlipped /\ staleRestore' = staleRestore
  BY DEF OpenEdit
<1>2. edits' \in 0..MaxUnitEdits
  BY <1>1, HierarchyAssumption DEF HierarchyTypeOK
<1>3. home' \in [Residents -> Units \cup {Nil}] /\ orgSlipped' \in BOOLEAN
  BY <1>1 DEF HierarchyTypeOK
<1> QED BY <1>1, <1>2, <1>3, EditStepTyped

\* A row is written by a request that then holds v, and may end others.
LEMMA WriteTyped ==
  ASSUME HierarchyTypeOK, UnitsFound, NEW e \in Editors, NEW u \in Units, NEW w \in Unit,
         unit' = [unit EXCEPT ![u] = w],
         edit' \in [Editors -> Edit],
         \A f \in Editors : f # e => edit'[f] = edit[f] \/ edit'[f] = NoEdit,
         edit'[e].op \in {"check", "resolve", "move", "list", "delete", "restore"} =>
           edit'[e].unit \in Units /\ unit[edit'[e].unit] # Nil,
         home' = home, edits' = edits, orgSlipped' \in BOOLEAN, staleRestore' \in BOOLEAN
  PROVE  HierarchyTypeOK' /\ UnitsFound'
<1>1. /\ unit' \in [Units -> Unit \cup {Nil}]
      /\ unit'[u] # Nil
      /\ \A v \in Units : v # u => unit'[v] = unit[v]
  BY UnitWritten
<1>2. HierarchyTypeOK'
  BY <1>1 DEF HierarchyTypeOK
<1>3. UnitsFound'
  BY <1>1, FoundKept
<1> QED BY <1>2, <1>3

LEMMA SlipTyped ==
  ASSUME HierarchyTypeOK, NEW b, Slips(b)
  PROVE  orgSlipped' \in BOOLEAN
BY DEF HierarchyTypeOK, Slips
\* What is left of a path below a unit is a path.
LEMMA TailType ==
  ASSUME NEW path \in Seq(Units), NEW old \in Seq(Units)
  PROVE  TailBelow(path, old) \in Seq(Units)
<1>1. Len(path) \in Nat /\ Len(old) \in Nat
  OBVIOUS
<1>2. \A i \in Len(old) + 2 .. Len(path) : path[i] \in Units
  BY <1>1
<1> QED BY <1>1, <1>2, SubSeqProperties DEF TailBelow

-------------------------------------------------------------------------------
\* What each step does to the types.
LEMMA ReadsTyped ==
  ASSUME HierarchyTypeOK, UnitsFound, NEW e \in Editors, NEW u \in Units,
         \/ CountReferences(e, u) \/ FindDeletedUnit(e, u)
         \/ \E p \in Units \cup {Nil} : FindParent(e, u, p) \/ FindUnit(e, u, p)
         \/ \E p \in Residents : FindPlace(e, p, u)
         \/ \E v \in Units : FindUnits(e, u, v)
  PROVE  HierarchyTypeOK' /\ UnitsFound'
<1>1. CASE CountReferences(e, u)
  <2>1. OpenEdit(e, [op |-> "delete", unit |-> u]) /\ unit[u] # Nil
    BY <1>1 DEF CountReferences, LiveUnits
  <2>2. [op |-> "delete", unit |-> u] \in Edit
    BY DEF Edit
  <2> QED BY <2>1, <2>2, OpenEditTyped
<1>2. CASE FindDeletedUnit(e, u)
  <2>1. PICK b \in BOOLEAN : b = ~Exists(unit[u].parent)
    OBVIOUS
  <2>2. OpenEdit(e, [op |-> "restore", unit |-> u, orphaned |-> b]) /\ unit[u] # Nil
    BY <1>2, <2>1 DEF FindDeletedUnit
  <2>3. [op |-> "restore", unit |-> u, orphaned |-> b] \in Edit
    BY DEF Edit
  <2> QED BY <2>2, <2>3, OpenEditTyped
<1>3. ASSUME NEW p \in Units \cup {Nil}, FindParent(e, u, p) PROVE HierarchyTypeOK' /\ UnitsFound'
  <2>1. OpenEdit(e, [op |-> "create", unit |-> u, parent |-> p, path |-> PathUnder(p)]) /\ Exists(p)
    BY <1>3 DEF FindParent
  <2>2. [op |-> "create", unit |-> u, parent |-> p, path |-> PathUnder(p)] \in Edit
    BY <2>1, PathUnderType DEF Edit, Paths
  <2> QED BY <2>1, <2>2, OpenEditTyped
<1>4. ASSUME NEW p \in Units \cup {Nil}, FindUnit(e, u, p) PROVE HierarchyTypeOK' /\ UnitsFound'
  <2>1. OpenEdit(e, [op |-> "check", unit |-> u, parent |-> p, old |-> unit[u].path])
        /\ u \in LiveUnits
    BY <1>4 DEF FindUnit
  <2>2. [op |-> "check", unit |-> u, parent |-> p, old |-> unit[u].path] \in Edit
    BY <2>1, LiveFields DEF Edit, Paths
  <2>3. unit[u] # Nil
    BY <2>1 DEF LiveUnits
  <2> QED BY <2>1, <2>2, <2>3, OpenEditTyped
<1>5. ASSUME NEW q \in Residents, FindPlace(e, q, u) PROVE HierarchyTypeOK' /\ UnitsFound'
  <2>1. OpenEdit(e, [op |-> "place", person |-> q, unit |-> u])
    BY <1>5 DEF FindPlace
  <2>2. [op |-> "place", person |-> q, unit |-> u] \in Edit
    BY DEF Edit
  <2> QED BY <2>1, <2>2, OpenEditTyped
<1>6. ASSUME NEW w \in Units, FindUnits(e, u, w) PROVE HierarchyTypeOK' /\ UnitsFound'
  <2>1. OpenEdit(e, [op |-> "empty", unit |-> u, to |-> w])
    BY <1>6 DEF FindUnits
  <2>2. [op |-> "empty", unit |-> u, to |-> w] \in Edit
    BY DEF Edit
  <2> QED BY <2>1, <2>2, OpenEditTyped
<1> QED BY <1>1, <1>2, <1>3, <1>4, <1>5, <1>6

LEMMA StepsOnEditsTyped ==
  ASSUME HierarchyTypeOK, UnitsFound, NEW e \in Editors,
         \/ AssertNoCycle(e) \/ ResolvePath(e) \/ FindDescendants(e) \/ MoveEnds(e)
         \/ PlacePerson(e) \/ MoveContents(e) \/ EditEnds(e)
  PROVE  HierarchyTypeOK' /\ UnitsFound'
<1>0. /\ edit[e] \in Edit /\ home \in [Residents -> Units \cup {Nil}] /\ edits \in 0..MaxUnitEdits
      /\ orgSlipped \in BOOLEAN
  BY DEF HierarchyTypeOK
<1>1. CASE AssertNoCycle(e)
  <2>1. PICK v : v = [edit[e] EXCEPT !.op = "resolve"]
    OBVIOUS
  <2>2. edit[e].op = "check" /\ unit[edit[e].unit] # Nil
    BY <1>1 DEF AssertNoCycle, Editing, UnitsFound
  <2>3. v = [op |-> "resolve", unit |-> edit[e].unit, parent |-> edit[e].parent, old |-> edit[e].old]
        /\ edit[e].unit \in Units
    BY <1>0, <2>1, <2>2, EditFields
  <2>4. v \in Edit
    BY <1>0, <2>2, <2>3, EditFields DEF Edit, Paths
  <2>5. edit' = [edit EXCEPT ![e] = v]
    BY <1>1, <2>1 DEF AssertNoCycle
  <2>6. Hold(e, v)
    BY <2>5 DEF Hold
  <2>7. unit' = unit /\ home' = home /\ edits' = edits /\ orgSlipped' = orgSlipped
        /\ staleRestore' = staleRestore
    BY <1>1 DEF AssertNoCycle
  <2>8. v.unit = edit[e].unit
    BY <2>3
  <2> QED BY <1>0, <2>2, <2>3, <2>4, <2>6, <2>7, <2>8, EditStepTyped
<1>2. CASE ResolvePath(e)
  <2>1. PICK v : v = [op |-> "move", unit |-> edit[e].unit, parent |-> edit[e].parent,
                      old |-> edit[e].old, path |-> PathUnder(edit[e].parent)]
    OBVIOUS
  <2>2. edit[e].op = "resolve" /\ unit[edit[e].unit] # Nil
    BY <1>2 DEF ResolvePath, Editing, UnitsFound
  <2>3. PathUnder(edit[e].parent) \in Seq(Units)
    BY <1>2, PathUnderType DEF ResolvePath
  <2>4. v \in Edit
    BY <1>0, <2>1, <2>2, <2>3, EditFields DEF Edit, Paths
  <2>5. Hold(e, v)
    BY <1>2, <2>1 DEF ResolvePath
  <2>6. v.unit = edit[e].unit /\ edit[e].unit \in Units
    BY <1>0, <2>1, <2>2, EditFields
  <2>7. unit' = unit /\ home' = home /\ edits' = edits /\ orgSlipped' = orgSlipped
        /\ staleRestore' = staleRestore
    BY <1>2 DEF ResolvePath
  <2> QED BY <1>0, <2>2, <2>4, <2>5, <2>6, <2>7, EditStepTyped
<1>3. CASE FindDescendants(e)
  <2> DEFINE below == {d \in LiveUnits : Contains(unit[d].path, edit[e].unit)}
             NewTop == Append(edit[e].path, edit[e].unit)
             Row(d) == <<d, unit[d].path, NewTop \o TailBelow(unit[d].path, edit[e].old)>>
  <2>1. PICK rows : rows = {Row(d) : d \in below}
    OBVIOUS
  <2>2. edit[e].op = "list" /\ Hold(e, [op |-> "rewrite", rows |-> rows])
    BY <1>3, <2>1 DEF FindDescendants, Editing
  <2>3. NewTop \in Seq(Units) /\ edit[e].old \in Seq(Units)
    BY <1>0, <2>2, EditFields, AppendProperties
  <2>4. ASSUME NEW d \in below PROVE Row(d) \in Units \X Seq(Units) \X Seq(Units)
    <3>1. d \in Units /\ unit[d].path \in Seq(Units)
      BY LiveFields
    <3>2. TailBelow(unit[d].path, edit[e].old) \in Seq(Units)
      BY <3>1, <2>3, TailType
    <3>3. NewTop \o TailBelow(unit[d].path, edit[e].old) \in Seq(Units)
      BY <2>3, <3>2, ConcatProperties
    <3> QED BY <3>1, <3>3
  <2>5. rows \subseteq Units \X Seq(Units) \X Seq(Units)
    BY <2>1, <2>4
  <2>6. [op |-> "rewrite", rows |-> rows] \in Edit
    BY <2>5, RowsHeld
  <2>7. orgSlipped' \in BOOLEAN
    BY <1>3, SlipTyped DEF FindDescendants
  <2>8. unit' = unit /\ home' = home /\ edits' = edits /\ staleRestore' = staleRestore
    BY <1>3 DEF FindDescendants
  <2> QED BY <1>0, <2>2, <2>6, <2>7, <2>8, EditStepTyped
<1>4. CASE MoveEnds(e)
  <2>1. Hold(e, NoEdit) /\ unit' = unit /\ home' = home /\ edits' = edits
        /\ orgSlipped' = orgSlipped /\ staleRestore' = staleRestore
    BY <1>4 DEF MoveEnds
  <2> QED BY <1>0, <2>1, EditStepTyped, NoEditIsEdit
<1>5. CASE PlacePerson(e)
  <2>1. Hold(e, NoEdit) /\ unit' = unit /\ edits' = edits /\ staleRestore' = staleRestore
        /\ edit[e].op = "place" /\ home' = [home EXCEPT ![edit[e].person] = edit[e].unit]
    BY <1>5 DEF PlacePerson, Editing
  <2>2. home' \in [Residents -> Units \cup {Nil}]
    BY <1>0, <2>1, EditFields
  <2>3. orgSlipped' \in BOOLEAN
    BY <1>5, SlipTyped DEF PlacePerson
  <2> QED BY <1>0, <2>1, <2>2, <2>3, EditStepTyped, NoEditIsEdit
<1>6. CASE MoveContents(e)
  <2>1. Hold(e, NoEdit) /\ unit' = unit /\ edits' = edits /\ staleRestore' = staleRestore
        /\ edit[e].op = "empty"
        /\ home' = [p \in Residents |-> IF home[p] = edit[e].unit THEN edit[e].to ELSE home[p]]
    BY <1>6 DEF MoveContents, Editing
  <2>2. home' \in [Residents -> Units \cup {Nil}]
    BY <1>0, <2>1, EditFields
  <2>3. orgSlipped' \in BOOLEAN
    BY <1>6, SlipTyped DEF MoveContents
  <2> QED BY <1>0, <2>1, <2>2, <2>3, EditStepTyped, NoEditIsEdit
<1>7. CASE EditEnds(e)
  <2>1. Hold(e, NoEdit) /\ unit' = unit /\ home' = home /\ edits' = edits
        /\ staleRestore' = staleRestore
    BY <1>7 DEF EditEnds
  <2>2. orgSlipped' \in BOOLEAN
    BY <1>7, SlipTyped DEF EditEnds
  <2> QED BY <1>0, <2>1, <2>2, EditStepTyped, NoEditIsEdit
<1> QED BY <1>1, <1>2, <1>3, <1>4, <1>5, <1>6, <1>7
-------------------------------------------------------------------------------
\* What each write does to the row and to the requests.
LEMMA CreateWrites ==
  ASSUME HierarchyTypeOK, NEW e \in Editors, CreateOrgUnit(e)
  PROVE  /\ edit[e].op = "create" /\ edit[e].unit \in Units /\ unit[edit[e].unit] = Nil
         /\ \E w \in Unit :
              /\ unit' = [unit EXCEPT ![edit[e].unit] = w]
              /\ w.parent = edit[e].parent /\ w.path = edit[e].path /\ ~w.deleted
         /\ edit' \in [Editors -> Edit] /\ edit'[e] = NoEdit
         /\ \A f \in Editors : f # e => edit'[f] = edit[f]
<1>1. edit[e].op = "create" /\ unit[edit[e].unit] = Nil /\ Hold(e, NoEdit)
  BY DEF CreateOrgUnit, Editing
<1>2. /\ edit[e].unit \in Units /\ edit[e].parent \in Units \cup {Nil} /\ edit[e].path \in Seq(Units)
  BY <1>1, EditFields DEF HierarchyTypeOK
<1>3. PICK w : w = [parent |-> edit[e].parent, path |-> edit[e].path, deleted |-> FALSE]
  OBVIOUS
<1>4. w \in Unit
  BY <1>2, <1>3 DEF Unit, Paths
<1>5. unit' = [unit EXCEPT ![edit[e].unit] = w]
  BY <1>3 DEF CreateOrgUnit
<1>6. w.parent = edit[e].parent /\ w.path = edit[e].path /\ ~w.deleted
  BY <1>3
<1> QED BY <1>1, <1>2, <1>4, <1>5, <1>6, EditHeld, NoEditIsEdit

LEMMA UpdateWrites ==
  ASSUME HierarchyTypeOK, UnitsFound, NEW e \in Editors, UpdateOrgUnit(e)
  PROVE  /\ edit[e].op = "move" /\ edit[e].unit \in Units /\ unit[edit[e].unit] # Nil
         /\ \E w \in Unit :
              /\ unit' = [unit EXCEPT ![edit[e].unit] = w]
              /\ w.parent = edit[e].parent /\ w.path = edit[e].path
              /\ w.deleted = unit[edit[e].unit].deleted
         /\ edit' \in [Editors -> Edit]
         /\ edit'[e].op = "list" /\ edit'[e].unit = edit[e].unit
         /\ edit'[e].old = edit[e].old /\ edit'[e].path = edit[e].path
         /\ \A f \in Editors : f # e =>
              \/ edit'[f] = edit[f]
              \/ edit'[f] = NoEdit /\ edit[f].op \in {"check", "resolve", "move", "restore"}
<1>1. edit[e].op = "move" /\ unit[edit[e].unit] # Nil
  BY DEF UpdateOrgUnit, Editing, UnitsFound
<1>2. edit[e] \in Edit
  BY DEF HierarchyTypeOK
<1>3. /\ edit[e].unit \in Units /\ edit[e].parent \in Units \cup {Nil}
      /\ edit[e].path \in Seq(Units) /\ edit[e].old \in Seq(Units)
      /\ edit[e] = [op |-> "move", unit |-> edit[e].unit, parent |-> edit[e].parent,
                    old |-> edit[e].old, path |-> edit[e].path]
  BY <1>1, <1>2, EditFields
<1>4. unit[edit[e].unit] \in Unit
  BY <1>1, <1>3, UnitFields
<1>5. PICK w : w = [unit[edit[e].unit] EXCEPT !.parent = edit[e].parent, !.path = edit[e].path]
  OBVIOUS
<1>6. w \in Unit /\ w.parent = edit[e].parent /\ w.path = edit[e].path
      /\ w.deleted = unit[edit[e].unit].deleted
  BY <1>3, <1>4, <1>5 DEF Unit, Paths
<1>7. unit' = [unit EXCEPT ![edit[e].unit] = w]
  BY <1>5, <1>3 DEF UpdateOrgUnit, HierarchyTypeOK
<1>8. PICK v : v = [edit[e] EXCEPT !.op = "list"]
  OBVIOUS
<1>9. v = [op |-> "list", unit |-> edit[e].unit, parent |-> edit[e].parent,
           old |-> edit[e].old, path |-> edit[e].path]
  BY <1>3, <1>8
<1>10. v \in Edit
  BY <1>3, <1>9 DEF Edit, Paths
<1>11. SavePath(e, edit[e].unit, v)
  BY <1>8 DEF UpdateOrgUnit
<1>12. /\ edit' \in [Editors -> Edit] /\ edit'[e] = v
       /\ \A f \in Editors : f # e =>
              \/ edit'[f] = edit[f]
              \/ edit'[f] = NoEdit /\ edit[f].op \in {"check", "resolve", "move", "restore"}
  BY <1>10, <1>11, PathSaved
<1>13. v.op = "list" /\ v.unit = edit[e].unit /\ v.old = edit[e].old /\ v.path = edit[e].path
  BY <1>9
<1> QED BY <1>1, <1>3, <1>6, <1>7, <1>12, <1>13

LEMMA DeleteWrites ==
  ASSUME HierarchyTypeOK, UnitsFound, NEW e \in Editors, DeleteOrgUnit(e)
  PROVE  /\ edit[e].op = "delete" /\ edit[e].unit \in Units /\ unit[edit[e].unit] # Nil
         /\ \E w \in Unit :
              /\ unit' = [unit EXCEPT ![edit[e].unit] = w]
              /\ w.path = unit[edit[e].unit].path /\ w.deleted
         /\ edit' \in [Editors -> Edit] /\ edit'[e] = NoEdit
         /\ \A f \in Editors : f # e => edit'[f] = edit[f]
<1>1. edit[e].op = "delete" /\ unit[edit[e].unit] # Nil /\ Hold(e, NoEdit)
  BY DEF DeleteOrgUnit, Editing, UnitsFound
<1>2. edit[e].unit \in Units
  BY <1>1, EditFields DEF HierarchyTypeOK
<1>3. unit[edit[e].unit] \in Unit
  BY <1>1, <1>2, UnitFields
<1>4. PICK w : w = [unit[edit[e].unit] EXCEPT !.deleted = TRUE]
  OBVIOUS
<1>5. w \in Unit /\ w.path = unit[edit[e].unit].path /\ w.deleted
  BY <1>3, <1>4 DEF Unit
<1>6. unit' = [unit EXCEPT ![edit[e].unit] = w]
  BY <1>2, <1>4 DEF DeleteOrgUnit, HierarchyTypeOK
<1> QED BY <1>1, <1>2, <1>5, <1>6, EditHeld, NoEditIsEdit

LEMMA RestoreWrites ==
  ASSUME HierarchyTypeOK, UnitsFound, NEW e \in Editors, RestoreOrgUnit(e)
  PROVE  /\ edit[e].op = "restore" /\ edit[e].unit \in Units /\ unit[edit[e].unit] # Nil
         /\ edit[e].orphaned \in BOOLEAN
         /\ \E w \in Unit :
              /\ unit' = [unit EXCEPT ![edit[e].unit] = w] /\ ~w.deleted
              /\ edit[e].orphaned => w.parent = Nil /\ w.path = <<>>
              /\ ~edit[e].orphaned => /\ w.parent = unit[edit[e].unit].parent
                                      /\ w.path = unit[edit[e].unit].path
              /\ orgSlipped' = (\/ orgSlipped \/ ~Exists(w.parent) \/ MidMove(e)
                                \/ /\ edit[e].orphaned
                                   /\ \E v \in LiveUnits : unit[v].parent = edit[e].unit)
              /\ staleRestore' = (staleRestore \/ (Exists(w.parent) /\ PathUnder(w.parent) # w.path))
         /\ edit' \in [Editors -> Edit] /\ edit'[e] = NoEdit
         /\ \A f \in Editors : f # e =>
              \/ edit'[f] = edit[f]
              \/ edit'[f] = NoEdit /\ edit[f].op \in {"check", "resolve", "move", "restore"}
<1>1. edit[e].op = "restore" /\ unit[edit[e].unit] # Nil
  BY DEF RestoreOrgUnit, Editing, UnitsFound
<1>2. edit[e].unit \in Units /\ edit[e].orphaned \in BOOLEAN
  BY <1>1, EditFields DEF HierarchyTypeOK
<1>3. unit[edit[e].unit] \in Unit
  BY <1>1, <1>2, UnitFields
<1>4. PICK back : back = IF edit[e].orphaned
                         THEN [unit[edit[e].unit] EXCEPT !.parent = Nil, !.path = <<>>]
                         ELSE unit[edit[e].unit]
  OBVIOUS
<1>5. /\ back \in Unit
      /\ edit[e].orphaned => back.parent = Nil /\ back.path = <<>>
      /\ ~edit[e].orphaned => back = unit[edit[e].unit]
  <2>1. CASE edit[e].orphaned
    <3>1. back = [unit[edit[e].unit] EXCEPT !.parent = Nil, !.path = <<>>]
      BY <1>4, <2>1
    <3> <<>> \in Seq(Units)
      OBVIOUS
    <3>2. PICK top : top = <<>> /\ top \in Seq(Units)
      OBVIOUS
    <3>3. back = [unit[edit[e].unit] EXCEPT !.parent = Nil, !.path = top]
      BY <3>1, <3>2
    <3>4. back \in Unit /\ back.parent = Nil /\ back.path = top
      BY <1>3, <3>2, <3>3 DEF Unit, Paths
    <3> QED BY <2>1, <3>2, <3>4
  <2>2. CASE ~edit[e].orphaned
    BY <1>3, <1>4, <2>2
  <2> QED BY <2>1, <2>2
<1>6. PICK w : w = [back EXCEPT !.deleted = FALSE]
  OBVIOUS
<1>7. w \in Unit /\ ~w.deleted /\ w.parent = back.parent /\ w.path = back.path
  BY <1>5, <1>6 DEF Unit
<1>8. /\ unit' = [unit EXCEPT ![edit[e].unit] = w]
      /\ orgSlipped' = (\/ orgSlipped \/ ~Exists(back.parent) \/ MidMove(e)
                        \/ /\ edit[e].orphaned
                           /\ \E v \in LiveUnits : unit[v].parent = edit[e].unit)
      /\ staleRestore' = (staleRestore \/ (Exists(back.parent) /\ PathUnder(back.parent) # back.path))
  BY <1>4, <1>6 DEF RestoreOrgUnit, Slips
<1>9. SavePath(e, edit[e].unit, NoEdit) \/ Hold(e, NoEdit)
  BY DEF RestoreOrgUnit
<1>10. /\ edit' \in [Editors -> Edit] /\ edit'[e] = NoEdit
       /\ \A f \in Editors : f # e =>
              \/ edit'[f] = edit[f]
              \/ edit'[f] = NoEdit /\ edit[f].op \in {"check", "resolve", "move", "restore"}
  BY <1>9, PathSaved, EditHeld, NoEditIsEdit
<1>11. /\ edit[e].orphaned => w.parent = Nil /\ w.path = <<>>
       /\ ~edit[e].orphaned => w.parent = unit[edit[e].unit].parent /\ w.path = unit[edit[e].unit].path
  BY <1>5, <1>7
<1>12. /\ orgSlipped' = (\/ orgSlipped \/ ~Exists(w.parent) \/ MidMove(e)
                         \/ /\ edit[e].orphaned
                            /\ \E v \in LiveUnits : unit[v].parent = edit[e].unit)
       /\ staleRestore' = (staleRestore \/ (Exists(w.parent) /\ PathUnder(w.parent) # w.path))
  BY ONLY <1>7, <1>8
<1> QED BY <1>1, <1>2, <1>7, <1>8, <1>10, <1>11, <1>12

LEMMA RewriteWrites ==
  ASSUME HierarchyTypeOK, NEW e \in Editors, edit[e].op = "rewrite", NEW row \in edit[e].rows,
         RewriteDescendant(e, row)
  PROVE  /\ edit[e].rows \subseteq Units \X Seq(Units) \X Seq(Units)
         /\ edit'[e].op = "rewrite" /\ edit'[e].rows = edit[e].rows \ {row}
         /\ edit' \in [Editors -> Edit]
         /\ \A f \in Editors : f # e => edit'[f] = edit[f]
         /\ row[1] \in LiveUnits =>
              \E w \in Unit :
                /\ unit' = [unit EXCEPT ![row[1]] = w]
                /\ w.parent = unit[row[1]].parent /\ w.path = row[3]
                /\ w.deleted = unit[row[1]].deleted
         /\ row[1] \notin LiveUnits => unit' = unit
<1>1. edit[e] \in Edit
  BY DEF HierarchyTypeOK
<1>2. /\ edit[e].rows \subseteq Units \X Seq(Units) \X Seq(Units)
      /\ edit[e] = [op |-> "rewrite", rows |-> edit[e].rows]
  BY <1>1, EditFields
<1>3. PICK v : v = [op |-> "rewrite", rows |-> edit[e].rows \ {row}]
  OBVIOUS
<1>4. v \in Edit
  BY <1>2, <1>3, RowsHeld
<1>5. Hold(e, v)
  <2>1. [edit[e] EXCEPT !.rows = edit[e].rows \ {row}] = v
    <3>1. PICK r : r = edit[e].rows
      OBVIOUS
    <3>2. edit[e] = [op |-> "rewrite", rows |-> r]
      BY <1>2, <3>1
    <3>3. [edit[e] EXCEPT !.rows = r \ {row}] = [op |-> "rewrite", rows |-> r \ {row}]
      BY <3>2
    <3> QED BY <1>3, <3>1, <3>3
  <2>2. edit' = [edit EXCEPT ![e] = [edit[e] EXCEPT !.rows = edit[e].rows \ {row}]]
    BY DEF RewriteDescendant, HierarchyTypeOK
  <2> QED BY <2>1, <2>2 DEF Hold
<1>6. /\ edit' \in [Editors -> Edit] /\ edit'[e] = v
      /\ \A f \in Editors : f # e => edit'[f] = edit[f]
  BY <1>4, <1>5, EditHeld
<1>7. ASSUME row[1] \in LiveUnits
      PROVE  \E w \in Unit :
                /\ unit' = [unit EXCEPT ![row[1]] = w]
                /\ w.parent = unit[row[1]].parent /\ w.path = row[3]
                /\ w.deleted = unit[row[1]].deleted
  <2>1. unit[row[1]] \in Unit /\ row[1] \in Units
    BY <1>7, LiveFields
  <2>2. row[3] \in Seq(Units)
    BY <1>2
  <2>3. PICK w : w = [unit[row[1]] EXCEPT !.path = row[3]]
    OBVIOUS
  <2>4. w \in Unit /\ w.parent = unit[row[1]].parent /\ w.path = row[3]
        /\ w.deleted = unit[row[1]].deleted
    BY <2>1, <2>2, <2>3 DEF Unit, Paths
  <2>5. unit' = [unit EXCEPT ![row[1]] = w]
    BY <1>7, <2>1, <2>3 DEF RewriteDescendant, HierarchyTypeOK
  <2> QED BY <2>4, <2>5
<1>8. row[1] \notin LiveUnits => unit' = unit
  BY DEF RewriteDescendant
<1> QED BY <1>2, <1>3, <1>6, <1>7, <1>8
LEMMA StepsThatWriteTyped ==
  ASSUME HierarchyTypeOK, UnitsFound, NEW e \in Editors,
         CreateOrgUnit(e) \/ UpdateOrgUnit(e) \/ DeleteOrgUnit(e) \/ RestoreOrgUnit(e)
  PROVE  HierarchyTypeOK' /\ UnitsFound'
<1> DEFINE u == edit[e].unit
           Ended(f) == edit'[f] = edit[f] \/ edit'[f] = NoEdit
<1>1. /\ u \in Units /\ edit' \in [Editors -> Edit]
      /\ \E w \in Unit : unit' = [unit EXCEPT ![u] = w]
      /\ \A f \in Editors : f # e => Ended(f)
      /\ edit'[e] = NoEdit \/ (edit'[e].op = "list" /\ edit'[e].unit = u /\ unit[u] # Nil)
  <2>1. CASE CreateOrgUnit(e)
    BY <2>1, CreateWrites
  <2>2. CASE UpdateOrgUnit(e)
    BY <2>2, UpdateWrites
  <2>3. CASE DeleteOrgUnit(e)
    BY <2>3, DeleteWrites
  <2>4. CASE RestoreOrgUnit(e)
    BY <2>4, RestoreWrites
  <2> QED BY <2>1, <2>2, <2>3, <2>4
<1>2. home' = home /\ edits' = edits
  BY DEF CreateOrgUnit, UpdateOrgUnit, DeleteOrgUnit, RestoreOrgUnit
<1>3. orgSlipped' \in BOOLEAN
  BY SlipTyped DEF CreateOrgUnit, UpdateOrgUnit, DeleteOrgUnit, RestoreOrgUnit
<1>4. staleRestore' \in BOOLEAN
  BY DEF HierarchyTypeOK, CreateOrgUnit, UpdateOrgUnit, DeleteOrgUnit, RestoreOrgUnit
<1>5. edit'[e].op \in {"check", "resolve", "move", "list", "delete", "restore"} =>
        edit'[e].unit \in Units /\ unit[edit'[e].unit] # Nil
  BY <1>1, NoEditIsEdit
<1>6. PICK w \in Unit : unit' = [unit EXCEPT ![u] = w]
  BY <1>1
<1>7. \A f \in Editors : f # e => edit'[f] = edit[f] \/ edit'[f] = NoEdit
  BY <1>1
<1>8. u \in Units /\ edit' \in [Editors -> Edit]
  BY <1>1
<1> HIDE DEF u
<1> QED BY <1>2, <1>3, <1>4, <1>5, <1>6, <1>7, <1>8, WriteTyped

LEMMA RewriteTyped ==
  ASSUME HierarchyTypeOK, UnitsFound, NEW e \in Editors, edit[e].op = "rewrite",
         NEW row \in edit[e].rows, RewriteDescendant(e, row)
  PROVE  HierarchyTypeOK' /\ UnitsFound'
<1>1. /\ home' = home /\ edits' = edits /\ orgSlipped' \in BOOLEAN
      /\ staleRestore' \in BOOLEAN
  BY SlipTyped DEF RewriteDescendant, HierarchyTypeOK
<1>2. edit' \in [Editors -> Edit] /\ edit'[e].op = "rewrite"
      /\ \A f \in Editors : f # e => edit'[f] = edit[f]
  BY RewriteWrites
<1>3. CASE row[1] \in LiveUnits
  <2>1. PICK w \in Unit : unit' = [unit EXCEPT ![row[1]] = w]
    BY <1>3, RewriteWrites
  <2>2. row[1] \in Units
    BY <1>3 DEF LiveUnits
  <2> QED BY <1>1, <1>2, <2>1, <2>2, WriteTyped
<1>4. CASE row[1] \notin LiveUnits
  <2>1. unit' = unit
    BY <1>4, RewriteWrites
  <2>2. HierarchyTypeOK'
    BY <1>1, <1>2, <2>1 DEF HierarchyTypeOK
  <2>3. UnitsFound'
    BY <1>2, <2>1, FoundKept
  <2> QED BY <2>2, <2>3
<1> QED BY <1>3, <1>4

LEMMA HierarchyStepType ==
  ASSUME HierarchyTypeOK, UnitsFound, [HierarchyNext]_hierarchyVars
  PROVE  HierarchyTypeOK' /\ UnitsFound'
<1>1. CASE HierarchyNext
  <2>1. PICK e \in Editors :
          \/ CreateOrgUnit(e) \/ AssertNoCycle(e) \/ ResolvePath(e) \/ UpdateOrgUnit(e)
          \/ FindDescendants(e) \/ MoveEnds(e) \/ DeleteOrgUnit(e) \/ RestoreOrgUnit(e)
          \/ PlacePerson(e) \/ MoveContents(e) \/ EditEnds(e)
          \/ edit[e].op = "rewrite" /\ \E row \in edit[e].rows : RewriteDescendant(e, row)
          \/ \E u \in Units :
               \/ CountReferences(e, u) \/ FindDeletedUnit(e, u)
               \/ \E p \in Units \cup {Nil} : FindParent(e, u, p) \/ FindUnit(e, u, p)
               \/ \E p \in Residents : FindPlace(e, p, u)
               \/ \E v \in Units : FindUnits(e, u, v)
    BY <1>1 DEF HierarchyNext
  <2>2. CASE CreateOrgUnit(e) \/ UpdateOrgUnit(e) \/ DeleteOrgUnit(e) \/ RestoreOrgUnit(e)
    BY <2>2, StepsThatWriteTyped
  <2>3. CASE \/ AssertNoCycle(e) \/ ResolvePath(e) \/ FindDescendants(e) \/ MoveEnds(e)
             \/ PlacePerson(e) \/ MoveContents(e) \/ EditEnds(e)
    BY <2>3, StepsOnEditsTyped
  <2>4. CASE edit[e].op = "rewrite" /\ \E row \in edit[e].rows : RewriteDescendant(e, row)
    BY <2>4, RewriteTyped
  <2>5. CASE \E u \in Units :
               \/ CountReferences(e, u) \/ FindDeletedUnit(e, u)
               \/ \E p \in Units \cup {Nil} : FindParent(e, u, p) \/ FindUnit(e, u, p)
               \/ \E p \in Residents : FindPlace(e, p, u)
               \/ \E v \in Units : FindUnits(e, u, v)
    <3>1. PICK u \in Units :
               \/ CountReferences(e, u) \/ FindDeletedUnit(e, u)
               \/ \E p \in Units \cup {Nil} : FindParent(e, u, p) \/ FindUnit(e, u, p)
               \/ \E p \in Residents : FindPlace(e, p, u)
               \/ \E v \in Units : FindUnits(e, u, v)
      BY <2>5
    <3> QED BY <3>1, ReadsTyped
  <2> QED BY <2>1, <2>2, <2>3, <2>4, <2>5
<1>2. CASE UNCHANGED hierarchyVars
  BY <1>2 DEF hierarchyVars, HierarchyTypeOK, UnitsFound
<1> QED BY <1>1, <1>2

\* Every variable keeps its type, in every behaviour.
THEOREM HierarchyTypeCorrect == HierarchySpec => []HierarchyTypeOK
<1>1. HierarchyInit => HierarchyTypeOK /\ UnitsFound
  BY HierarchyInitType
<1>2. (HierarchyTypeOK /\ UnitsFound) /\ [HierarchyNext]_hierarchyVars => (HierarchyTypeOK /\ UnitsFound)'
  BY HierarchyStepType
<1> QED BY <1>1, <1>2, PTL DEF HierarchySpec
-------------------------------------------------------------------------------
\* With no rows to write the paths agree when they are in order.
LEMMA NoRowsLeft == Agreed({}) => PathsInOrder
BY DEF Agreed, NewPath, HasRow, NewPathUnder, PathsInOrder, PathUnder

\* A step that writes no unit, and leaves alone every request that is mid move.
LEMMA UnitsUntouched ==
  ASSUME TreeInv, unit' = unit,
         \A f \in Editors : edit'[f] = edit[f] \/ (~Mid(edit[f]) /\ ~Mid(edit'[f])),
         Housed'
  PROVE  TreeInv'
<1>1. \A f \in Editors : Mid(edit'[f]) <=> Mid(edit[f])
  OBVIOUS
<1>2. ASSUME NEW f \in Editors PROVE Settling(edit[f])'
  <2>1. CASE edit'[f] = edit[f]
    <3>1. PICK v : v = edit[f]
      OBVIOUS
    <3>2. Settling(v)
      BY <3>1 DEF TreeInv, MovesSettle
    <3>3. Moved(v) => Moved(v)'
      BY DEF Moved, LiveUnits, Exists, PathUnder
    <3>4. PICK rows : rows = v.rows
      OBVIOUS
    <3>5. Agreed(rows) => Agreed(rows)'
      <4>1. \A u : NewPath(rows, u)' = NewPath(rows, u) /\ NewPathUnder(rows, u)' = NewPathUnder(rows, u)
        BY DEF NewPath, NewPathUnder
      <4>2. LiveUnits' = LiveUnits /\ \A u : Exists(u)' = Exists(u)
        BY DEF LiveUnits, Exists
      <4> QED BY <4>1, <4>2 DEF Agreed
    <3>6. Settling(v)'
      <4>1. v.op = "list" => Moved(v)'
        BY <3>2, <3>3 DEF Settling
      <4>2. v.op = "rewrite" => rows = {} \/ (OneRowEach(rows) /\ Agreed(rows)')
        BY <3>2, <3>4, <3>5 DEF Settling
      <4> QED BY <3>4, <4>1, <4>2 DEF Settling
    <3> QED BY <2>1, <3>1, <3>6
  <2>2. CASE ~Mid(edit'[f])
    BY <2>2 DEF Mid, Settling
  <2> QED BY <2>1, <2>2
<1>3. \A d, f \in Editors : Mid(edit'[d]) /\ Mid(edit'[f]) => d = f
  BY <1>1 DEF TreeInv, MovesSettle
<1>4. PathsInOrder => PathsInOrder'
  BY DEF PathsInOrder, LiveUnits, Exists, PathUnder
<1>5. MovesSettle'
  BY <1>2, <1>3 DEF MovesSettle
<1> QED BY <1>1, <1>4, <1>5 DEF TreeInv

\* A step after which nobody is mid move and the paths are in order.
LEMMA QuietWrite ==
  ASSUME \A f \in Editors : ~Mid(edit'[f]), PathsInOrder', Housed'
  PROVE  TreeInv'
<1>1. MovesSettle'
  BY DEF MovesSettle, Mid, Settling
<1> QED BY <1>1 DEF TreeInv

LEMMA NobodyMid ==
  ASSUME TreeInv, NEW e \in Editors, ~MidMove(e), ~Mid(edit[e])
  PROVE  (\A f \in Editors : ~Mid(edit[f])) /\ PathsInOrder
<1>1. \A f \in Editors : ~Mid(edit[f])
  BY DEF MidMove, Mid, Editing
<1> QED BY <1>1 DEF TreeInv

LEMMA IdleIsNotMid == ~Mid(NoEdit)
BY NoEditIsEdit DEF Mid

\* The units that are live once one row is written.
LEMMA LiveAfter ==
  ASSUME HierarchyTypeOK, NEW u \in Units, NEW w \in Unit, unit' = [unit EXCEPT ![u] = w]
  PROVE  /\ u \in LiveUnits' <=> ~w.deleted
         /\ \A v \in Units : v # u => (v \in LiveUnits' <=> v \in LiveUnits)
         /\ LiveUnits' \subseteq Units
BY UnitWritten DEF LiveUnits

-------------------------------------------------------------------------------
\* Reading, and what does not write a unit.
LEMMA FindsKeepTree ==
  ASSUME HierarchyTypeOK, TreeInv, NEW e \in Editors, NEW u \in Units,
         \/ CountReferences(e, u) \/ FindDeletedUnit(e, u)
         \/ \E p \in Units \cup {Nil} : FindParent(e, u, p) \/ FindUnit(e, u, p)
         \/ \E p \in Residents : FindPlace(e, p, u)
         \/ \E v \in Units : FindUnits(e, u, v)
  PROVE  TreeInv'
<1>1. PICK v : OpenEdit(e, v) /\ v.op \notin {"list", "rewrite"}
  <2>1. CASE CountReferences(e, u)
    <3>1. PICK v : v = [op |-> "delete", unit |-> u]
      OBVIOUS
    <3>2. OpenEdit(e, v) /\ v.op = "delete"
      BY <2>1, <3>1 DEF CountReferences
    <3> QED BY <3>2
  <2>2. CASE FindDeletedUnit(e, u)
    <3>1. PICK v : v = [op |-> "restore", unit |-> u, orphaned |-> ~Exists(unit[u].parent)]
      OBVIOUS
    <3>2. OpenEdit(e, v) /\ v.op = "restore"
      BY <2>2, <3>1 DEF FindDeletedUnit
    <3> QED BY <3>2
  <2>3. ASSUME NEW p \in Units \cup {Nil}, FindParent(e, u, p)
        PROVE  \E v : OpenEdit(e, v) /\ v.op \notin {"list", "rewrite"}
    <3>1. PICK v : v = [op |-> "create", unit |-> u, parent |-> p, path |-> PathUnder(p)]
      OBVIOUS
    <3>2. OpenEdit(e, v) /\ v.op = "create"
      BY <2>3, <3>1 DEF FindParent
    <3> QED BY <3>2
  <2>4. ASSUME NEW p \in Units \cup {Nil}, FindUnit(e, u, p)
        PROVE  \E v : OpenEdit(e, v) /\ v.op \notin {"list", "rewrite"}
    <3>1. PICK v : v = [op |-> "check", unit |-> u, parent |-> p, old |-> unit[u].path]
      OBVIOUS
    <3>2. OpenEdit(e, v) /\ v.op = "check"
      BY <2>4, <3>1 DEF FindUnit
    <3> QED BY <3>2
  <2>5. ASSUME NEW p \in Residents, FindPlace(e, p, u)
        PROVE  \E v : OpenEdit(e, v) /\ v.op \notin {"list", "rewrite"}
    <3>1. PICK v : v = [op |-> "place", person |-> p, unit |-> u]
      OBVIOUS
    <3>2. OpenEdit(e, v) /\ v.op = "place"
      BY <2>5, <3>1 DEF FindPlace
    <3> QED BY <3>2
  <2>6. ASSUME NEW w \in Units, FindUnits(e, u, w)
        PROVE  \E v : OpenEdit(e, v) /\ v.op \notin {"list", "rewrite"}
    <3>1. PICK v : v = [op |-> "empty", unit |-> u, to |-> w]
      OBVIOUS
    <3>2. OpenEdit(e, v) /\ v.op = "empty"
      BY <2>6, <3>1 DEF FindUnits
    <3> QED BY <3>2
  <2> QED BY <2>1, <2>2, <2>3, <2>4, <2>5, <2>6
<1>2. edit[e] = NoEdit /\ Hold(e, v) /\ unit' = unit /\ home' = home
  BY <1>1 DEF OpenEdit
<1>3. edit'[e] = v /\ \A f \in Editors : f # e => edit'[f] = edit[f]
  BY <1>2 DEF Hold, HierarchyTypeOK
<1>4. \A f \in Editors : edit'[f] = edit[f] \/ (~Mid(edit[f]) /\ ~Mid(edit'[f]))
  BY <1>1, <1>2, <1>3, IdleIsNotMid DEF Mid
<1>5. Housed'
  BY <1>2 DEF TreeInv, Housed, LiveUnits
<1> QED BY <1>2, <1>4, <1>5, UnitsUntouched

LEMMA EditsKeepTree ==
  ASSUME HierarchyTypeOK, TreeInv, ~orgSlipped', NEW e \in Editors,
         AssertNoCycle(e) \/ ResolvePath(e) \/ MoveEnds(e) \/ EditEnds(e)
  PROVE  TreeInv'
<1>1. unit' = unit /\ home' = home
  BY DEF AssertNoCycle, ResolvePath, MoveEnds, EditEnds
<1>2. ~Mid(edit[e])
  BY DEF AssertNoCycle, ResolvePath, MoveEnds, EditEnds, Mid, Editing, Slips
<1>3. edit' = [edit EXCEPT ![e] = edit'[e]] /\ ~Mid(edit'[e])
  <2>1. edit[e] \in Edit /\ edit = [f \in Editors |-> edit[f]]
    BY DEF HierarchyTypeOK
  <2>2. CASE AssertNoCycle(e)
    <3>1. edit' = [edit EXCEPT ![e] = [edit[e] EXCEPT !.op = "resolve"]] /\ edit[e].op = "check"
      BY <2>2 DEF AssertNoCycle, Editing
    <3>2. [edit[e] EXCEPT !.op = "resolve"].op = "resolve"
      BY <2>1, <3>1, EditFields
    <3>3. edit'[e].op = "resolve"
      BY <2>1, <3>1, <3>2
    <3> QED BY <2>1, <3>1, <3>3 DEF Mid
  <2>3. CASE ResolvePath(e)
    <3>1. PICK v : v.op = "move" /\ edit' = [edit EXCEPT ![e] = v]
      BY <2>3 DEF ResolvePath, Hold
    <3> QED BY <2>1, <3>1 DEF Mid
  <2>4. CASE MoveEnds(e) \/ EditEnds(e)
    <3>1. edit' = [edit EXCEPT ![e] = NoEdit]
      BY <2>4 DEF MoveEnds, EditEnds, Hold
    <3> QED BY <2>1, <3>1, IdleIsNotMid
  <2> QED BY <2>2, <2>3, <2>4
<1>4. \A f \in Editors : f # e => edit'[f] = edit[f]
  BY <1>3 DEF HierarchyTypeOK
<1>5. Housed'
  BY <1>1 DEF TreeInv, Housed, LiveUnits
<1> QED BY <1>1, <1>2, <1>3, <1>4, <1>5, UnitsUntouched

LEMMA PlacingKeepsTree ==
  ASSUME HierarchyTypeOK, TreeInv, ~orgSlipped', NEW e \in Editors,
         PlacePerson(e) \/ MoveContents(e)
  PROVE  TreeInv'
<1>1. unit' = unit /\ Hold(e, NoEdit) /\ ~Mid(edit[e])
  BY DEF PlacePerson, MoveContents, Mid, Editing
<1>2. edit'[e] = NoEdit /\ \A f \in Editors : f # e => edit'[f] = edit[f]
  BY <1>1, EditHeld, NoEditIsEdit
<1>3. Housed /\ home \in [Residents -> Units \cup {Nil}]
  BY DEF TreeInv, HierarchyTypeOK
<1>4. Housed'
  <2>1. CASE PlacePerson(e)
    <3>1. home' = [home EXCEPT ![edit[e].person] = edit[e].unit] /\ edit[e].unit \in LiveUnits
      BY <2>1 DEF PlacePerson, Slips
    <3> QED BY <1>1, <1>3, <3>1 DEF Housed, LiveUnits
  <2>2. CASE MoveContents(e)
    <3>1. home' = [p \in Residents |-> IF home[p] = edit[e].unit THEN edit[e].to ELSE home[p]]
          /\ edit[e].to \in LiveUnits
      BY <2>2 DEF MoveContents, Slips
    <3> QED BY <1>1, <1>3, <3>1 DEF Housed, LiveUnits
  <2> QED BY <2>1, <2>2
<1>5. \A f \in Editors : edit'[f] = edit[f] \/ (~Mid(edit[f]) /\ ~Mid(edit'[f]))
  BY <1>1, <1>2, IdleIsNotMid
<1> QED BY <1>1, <1>4, <1>5, UnitsUntouched
-------------------------------------------------------------------------------
\* A row is written, and the units that were live are: their people are housed.
LEMMA StillHoused ==
  ASSUME Housed, home' = home, LiveUnits \subseteq LiveUnits'
  PROVE  Housed'
BY DEF Housed

LEMMA CreateKeepsTree ==
  ASSUME HierarchyTypeOK, TreeInv, ~orgSlipped', NEW e \in Editors, CreateOrgUnit(e)
  PROVE  TreeInv'
<1> DEFINE u == edit[e].unit
           p == edit[e].parent
<1>1. /\ u \in Units /\ unit[u] = Nil /\ edit[e].op = "create"
      /\ edit'[e] = NoEdit /\ \A f \in Editors : f # e => edit'[f] = edit[f]
  BY CreateWrites
<1>2. PICK w \in Unit : /\ unit' = [unit EXCEPT ![u] = w]
                        /\ w.parent = p /\ w.path = edit[e].path /\ ~w.deleted
  BY CreateWrites
<1>3. Exists(p) /\ PathUnder(p) = edit[e].path /\ ~MidMove(e) /\ home' = home
  BY DEF CreateOrgUnit, Slips
<1>4. (\A f \in Editors : ~Mid(edit[f])) /\ PathsInOrder
  BY <1>1, <1>3, NobodyMid DEF Mid
<1>5. unit'[u] = w /\ \A v \in Units : v # u => unit'[v] = unit[v]
  BY <1>1, <1>2, UnitWritten
<1>6. /\ u \in LiveUnits' /\ u \notin LiveUnits
      /\ \A v \in Units : v # u => (v \in LiveUnits' <=> v \in LiveUnits)
  BY <1>1, <1>2, LiveAfter DEF LiveUnits
<1>7. LiveUnits \subseteq LiveUnits'
  BY <1>6 DEF LiveUnits
<1> HIDE DEF u, p
<1>8. ASSUME NEW q, Exists(q) PROVE Exists(q)' /\ PathUnder(q)' = PathUnder(q)
  BY <1>5, <1>6, <1>7, <1>8 DEF Exists, PathUnder, LiveUnits
<1>9. PathsInOrder'
  <2> SUFFICES ASSUME NEW v \in LiveUnits', NEW q, q = unit'[v].parent
               PROVE  Exists(q)' /\ unit'[v].path = PathUnder(q)'
    BY DEF PathsInOrder, Exists, PathUnder
  <2>1. CASE v = u
    BY <1>2, <1>3, <1>5, <1>8, <2>1
  <2>2. CASE v # u
    <3>1. v \in LiveUnits /\ unit'[v] = unit[v]
      BY <1>5, <1>6, <2>2 DEF LiveUnits
    <3>2. Exists(unit[v].parent) /\ unit[v].path = PathUnder(unit[v].parent)
      BY <1>4, <3>1 DEF PathsInOrder
    <3> QED BY <1>8, <3>1, <3>2
  <2> QED BY <2>1, <2>2
<1>10. Housed'
  BY <1>3, <1>7, StillHoused DEF TreeInv
<1>11. \A f \in Editors : ~Mid(edit'[f])
  BY <1>1, <1>4, IdleIsNotMid
<1> QED BY <1>9, <1>10, <1>11, QuietWrite

LEMMA RestoreKeepsTree ==
  ASSUME HierarchyTypeOK, UnitsFound, TreeInv, ~orgSlipped', ~staleRestore', NEW e \in Editors,
         RestoreOrgUnit(e)
  PROVE  TreeInv'
<1> DEFINE u == edit[e].unit
<1>1. /\ u \in Units /\ unit[u] # Nil /\ edit[e].op = "restore" /\ edit[e].orphaned \in BOOLEAN
      /\ edit'[e] = NoEdit
      /\ \A f \in Editors : f # e => \/ edit'[f] = edit[f]
                                     \/ edit'[f] = NoEdit
  BY RestoreWrites
<1>2. PICK w \in Unit :
              /\ unit' = [unit EXCEPT ![u] = w] /\ ~w.deleted
              /\ edit[e].orphaned => w.parent = Nil
              /\ ~edit[e].orphaned => w.path = unit[u].path
              /\ Exists(w.parent) /\ ~MidMove(e)
              /\ edit[e].orphaned => \A v \in LiveUnits : unit[v].parent # u
              /\ PathUnder(w.parent) = w.path
  BY RestoreWrites
<1>3. home' = home
  BY DEF RestoreOrgUnit
<1>4. (\A f \in Editors : ~Mid(edit[f])) /\ PathsInOrder
  BY <1>1, <1>2, NobodyMid DEF Mid
<1>5. unit'[u] = w /\ \A v \in Units : v # u => unit'[v] = unit[v]
  BY <1>1, <1>2, UnitWritten
<1>6. /\ u \in LiveUnits'
      /\ \A v \in Units : v # u => (v \in LiveUnits' <=> v \in LiveUnits)
      /\ LiveUnits' \subseteq Units
  BY <1>1, <1>2, LiveAfter
<1>7. LiveUnits \subseteq LiveUnits'
  BY <1>6 DEF LiveUnits
<1>8. \A f \in Editors : ~Mid(edit'[f])
  BY <1>1, <1>4, IdleIsNotMid
<1>9. Housed'
  BY <1>3, <1>7, StillHoused DEF TreeInv
<1> HIDE DEF u
\* The row above u is not u itself, or its path has not changed.
<1>10. ASSUME NEW v \in LiveUnits', v # u
       PROVE  v \in LiveUnits /\ unit'[v] = unit[v]
  BY <1>5, <1>6, <1>10
<1>11. ASSUME NEW q, Exists(q), q # u \/ ~edit[e].orphaned
       PROVE  Exists(q)' /\ PathUnder(q)' = PathUnder(q)
  <2>1. Exists(q)'
    BY <1>7, <1>11 DEF Exists
  <2>2. q # Nil => q \in Units /\ unit'[q].path = unit[q].path
    BY <1>2, <1>5, <1>11 DEF Exists, LiveUnits
  <2> QED BY <2>1, <2>2 DEF PathUnder
<1>12. edit[e].orphaned => w.parent # u
  BY <1>1, <1>2, HierarchyAssumption
<1>13. PathsInOrder'
  <2> SUFFICES ASSUME NEW v \in LiveUnits', NEW q, q = unit'[v].parent
               PROVE  Exists(q)' /\ unit'[v].path = PathUnder(q)'
    BY DEF PathsInOrder, Exists, PathUnder
  <2>1. CASE v = u
    BY <1>1, <1>2, <1>5, <1>11, <1>12, <2>1
  <2>2. CASE v # u
    <3>1. v \in LiveUnits /\ unit'[v] = unit[v]
      BY <1>10, <2>2
    <3>2. Exists(unit[v].parent) /\ unit[v].path = PathUnder(unit[v].parent)
      BY <1>4, <3>1 DEF PathsInOrder
    <3>3. unit[v].parent # u \/ ~edit[e].orphaned
      BY <1>1, <1>2, <3>1
    <3> QED BY <1>11, <3>1, <3>2, <3>3
  <2> QED BY <2>1, <2>2
<1> QED BY <1>8, <1>9, <1>13, QuietWrite

LEMMA DeleteKeepsTree ==
  ASSUME HierarchyTypeOK, UnitsFound, TreeInv, ~orgSlipped', NEW e \in Editors, DeleteOrgUnit(e)
  PROVE  TreeInv'
<1> DEFINE u == edit[e].unit
<1>1. /\ u \in Units /\ edit[e].op = "delete" /\ edit'[e] = NoEdit
      /\ \A f \in Editors : f # e => edit'[f] = edit[f]
  BY DeleteWrites
<1>2. PICK w \in Unit : /\ unit' = [unit EXCEPT ![u] = w]
                        /\ w.path = unit[u].path /\ w.deleted
  BY DeleteWrites
<1>3. /\ \A v \in LiveUnits : unit[v].parent # u
      /\ \A p \in Residents : home[p] # u
      /\ home' = home
  BY DEF DeleteOrgUnit, Slips
<1>4. unit'[u] = w /\ \A v \in Units : v # u => unit'[v] = unit[v]
  BY <1>1, <1>2, UnitWritten
<1>5. /\ u \notin LiveUnits'
      /\ \A v \in Units : v # u => (v \in LiveUnits' <=> v \in LiveUnits)
      /\ LiveUnits' \subseteq Units
  BY <1>1, <1>2, LiveAfter
<1> HIDE DEF u
<1>6. \A v \in LiveUnits' : v \in LiveUnits /\ v # u /\ unit'[v] = unit[v]
  BY <1>4, <1>5
<1>7. \A v \in Units : unit'[v].path = unit[v].path
  BY <1>1, <1>2, <1>4
<1>8. \A q \in Units \cup {Nil} : q # u /\ Exists(q) => Exists(q)'
  BY <1>5 DEF Exists
<1>9. \A v \in LiveUnits' : unit[v].parent \in Units \cup {Nil} /\ unit[v].parent # u
  BY <1>3, <1>6, LiveFields
<1>10. \A q \in Units \cup {Nil} : PathUnder(q)' = PathUnder(q)
  BY <1>7 DEF PathUnder
<1>11. Housed'
  BY <1>3, <1>5 DEF TreeInv, Housed, LiveUnits
<1>12. PathsInOrder => PathsInOrder'
  BY <1>6, <1>8, <1>9, <1>10 DEF PathsInOrder
<1>13. ASSUME NEW v \in Edit, Moved(v), v.op = "list" PROVE Moved(v)'
  <2>1. v.unit \in Units
    BY <1>13, EditFields
  <2>2. unit'[v.unit].path = v.path /\ ~Contains(v.path, v.unit)
    BY <1>7, <1>13, <2>1 DEF Moved
  <2>3. ASSUME NEW d \in LiveUnits', NEW q, q = unit'[d].parent
        PROVE  /\ Exists(q)'
               /\ unit'[d].path = IF q = v.unit THEN Append(v.old, v.unit) ELSE PathUnder(q)'
    <3>1. d \in LiveUnits /\ unit'[d] = unit[d] /\ unit[d].parent \in Units \cup {Nil}
          /\ unit[d].parent # u
      BY <1>6, <1>9
    <3>2. /\ Exists(unit[d].parent)
          /\ unit[d].path = IF unit[d].parent = v.unit THEN Append(v.old, v.unit)
                            ELSE PathUnder(unit[d].parent)
      BY <1>13, <3>1 DEF Moved
    <3>3. /\ q \in Units \cup {Nil} /\ q # u /\ Exists(q)
          /\ unit[d].path = IF q = v.unit THEN Append(v.old, v.unit) ELSE PathUnder(q)
      BY <2>3, <3>1, <3>2
    <3>4. Exists(q)' /\ PathUnder(q)' = PathUnder(q)
      BY <1>8, <1>10, <3>3
    <3> QED BY <3>1, <3>3, <3>4
  <2> QED BY <2>2, <2>3 DEF Moved, Exists, PathUnder
<1>14. ASSUME NEW rows, Agreed(rows) PROVE Agreed(rows)'
  <2>1. \A v \in Units : NewPath(rows, v)' = NewPath(rows, v)
    BY <1>7 DEF NewPath
  <2>2. \A q \in Units \cup {Nil} : NewPathUnder(rows, q)' = NewPathUnder(rows, q)
    BY <2>1 DEF NewPathUnder
  <2>3. LiveUnits' \subseteq Units
    BY <1>5
  <2> QED BY <1>6, <1>8, <1>9, <1>14, <2>1, <2>2, <2>3 DEF Agreed
<1>15. ASSUME NEW f \in Editors PROVE Settling(edit[f])'
  <2>1. CASE f = e
    BY <1>1, <2>1, NoEditIsEdit DEF Settling
  <2>2. CASE f # e
    <3>1. PICK v : v = edit[f] /\ v \in Edit
      BY DEF HierarchyTypeOK
    <3>2. Settling(v) /\ edit'[f] = v
      BY <1>1, <2>2, <3>1 DEF TreeInv, MovesSettle
    <3>3. Settling(v)'
      <4>1. v.op = "list" => Moved(v)'
        BY <1>13, <3>1, <3>2 DEF Settling
      <4>2. PICK rows : rows = v.rows
        OBVIOUS
      <4>3. v.op = "rewrite" => rows = {} \/ (OneRowEach(rows) /\ Agreed(rows)')
        BY <1>14, <3>2, <4>2 DEF Settling
      <4> QED BY <4>1, <4>2, <4>3 DEF Settling
    <3> QED BY <3>2, <3>3
  <2> QED BY <2>1, <2>2
<1>16. \A f \in Editors : Mid(edit'[f]) <=> Mid(edit[f])
  BY <1>1, IdleIsNotMid DEF Mid
<1>17. \A d, f \in Editors : Mid(edit'[d]) /\ Mid(edit'[f]) => d = f
  BY <1>16 DEF TreeInv, MovesSettle
<1>18. MovesSettle'
  BY <1>15, <1>17 DEF MovesSettle
<1> QED BY <1>11, <1>12, <1>16, <1>18 DEF TreeInv
-------------------------------------------------------------------------------
\* Paths, and what is left of them below a unit.
LEMMA ContainsAppend ==
  ASSUME NEW s \in Seq(Units), NEW x \in Units, NEW u
  PROVE  Contains(Append(s, x), u) <=> (Contains(s, u) \/ x = u)
<1>1. /\ Len(Append(s, x)) = Len(s) + 1 /\ Len(s) \in Nat
      /\ \A i \in 1..Len(s) : Append(s, x)[i] = s[i]
      /\ Append(s, x)[Len(s) + 1] = x
  BY AppendProperties
<1>2. ASSUME Contains(Append(s, x), u) PROVE Contains(s, u) \/ x = u
  <2>1. PICK i \in 1..Len(Append(s, x)) : Append(s, x)[i] = u
    BY <1>2 DEF Contains
  <2>2. i \in 1..Len(s) \/ i = Len(s) + 1
    BY <1>1
  <2> QED BY <1>1, <2>1, <2>2 DEF Contains
<1>3. ASSUME Contains(s, u) PROVE Contains(Append(s, x), u)
  <2>1. PICK i \in 1..Len(s) : s[i] = u
    BY <1>3 DEF Contains
  <2>2. i \in 1..Len(Append(s, x)) /\ Append(s, x)[i] = u
    BY <1>1, <2>1
  <2> QED BY <2>2 DEF Contains
<1>4. ASSUME x = u PROVE Contains(Append(s, x), u)
  <2>1. Len(s) + 1 \in 1..Len(Append(s, x)) /\ Append(s, x)[Len(s) + 1] = u
    BY <1>1, <1>4
  <2> QED BY <2>1 DEF Contains
<1> QED BY <1>2, <1>3, <1>4

LEMMA ContainsNothing == \A u : ~Contains(<<>>, u)
BY DEF Contains

\* Nothing is left of a child's path; one level deeper, one more is.
LEMMA TailOfChild ==
  ASSUME NEW old \in Seq(Units), NEW u \in Units
  PROVE  TailBelow(Append(old, u), old) = <<>>
<1>1. Len(Append(old, u)) = Len(old) + 1 /\ Len(old) \in Nat
  BY AppendProperties
<1> QED BY <1>1, SubSeqEmpty DEF TailBelow

LEMMA TailGrows ==
  ASSUME NEW old \in Seq(Units), NEW s \in Seq(Units), NEW x \in Units,
         Len(old) + 1 <= Len(s)
  PROVE  TailBelow(Append(s, x), old) = Append(TailBelow(s, old), x)
<1> DEFINE t == Append(s, x)
           m == Len(old) + 2
           n == Len(s) + 1
<1>1. /\ Len(s) \in Nat /\ Len(old) \in Nat /\ t \in Seq(Units) /\ Len(t) = n
      /\ \A i \in 1..Len(s) : t[i] = s[i]
      /\ t[n] = x
  BY AppendProperties
<1>2. SubSeq(t, m, n) = SubSeq(t, m, n - 1) \o <<t[n]>>
  <2>1. m \in 1..Len(t) /\ n \in m..Len(t) /\ t \in Seq(Units)
    BY <1>1
  <2> HIDE DEF t, m, n
  <2> QED BY <2>1, SubSeqRecursiveSecond
<1>3. SubSeq(t, m, n - 1) = SubSeq(s, m, Len(s))
  <2>1. t = s \o <<x>>
    BY AppendIsConcat
  <2>2. m \in 1..Len(s) + 1 /\ m \in Int /\ Len(s) \in Int
    BY <1>1
  <2>3. SubSeq(s \o <<x>>, m, Len(s)) = SubSeq(s, m, Len(s))
    BY <1>1, <2>2, SubSeqOfConcat1
  <2> QED BY <1>1, <2>1, <2>3
<1>4. TailBelow(s, old) \in Seq(Units)
  BY TailType
<1>5. Append(TailBelow(s, old), x) = TailBelow(s, old) \o <<x>>
  BY <1>4, AppendIsConcat
<1> QED BY <1>1, <1>2, <1>3, <1>5 DEF TailBelow

LEMMA AppendAfter ==
  ASSUME NEW s \in Seq(Units), NEW t \in Seq(Units), NEW x \in Units
  PROVE  s \o Append(t, x) = Append(s \o t, x)
<1>1. Append(t, x) = t \o <<x>> /\ s \o t \in Seq(Units) /\ <<x>> \in Seq(Units)
  BY AppendIsConcat, ConcatProperties
<1>2. Append(s \o t, x) = (s \o t) \o <<x>>
  BY <1>1, AppendIsConcat
<1>3. (s \o t) \o <<x>> = s \o (t \o <<x>>)
  BY <1>1, ConcatAssociative
<1> QED BY <1>1, <1>2, <1>3
-------------------------------------------------------------------------------
\* The unit is saved below its new parent, and its children still have its old path.
LEMMA UpdateKeepsTree ==
  ASSUME HierarchyTypeOK, UnitsFound, TreeInv, ~orgSlipped', NEW e \in Editors, UpdateOrgUnit(e)
  PROVE  TreeInv'
<1> DEFINE u == edit[e].unit
           p == edit[e].parent
           path == edit[e].path
           old == edit[e].old
<1>1. /\ u \in Units /\ edit[e].op = "move" /\ path \in Seq(Units) /\ old \in Seq(Units)
      /\ p \in Units \cup {Nil}
  BY EditFields, UpdateWrites DEF HierarchyTypeOK
<1>2. /\ edit'[e].op = "list" /\ edit'[e].unit = u /\ edit'[e].old = old /\ edit'[e].path = path
      /\ \A f \in Editors : f # e => edit'[f] = edit[f] \/ edit'[f] = NoEdit
  BY UpdateWrites
<1>3. PICK w \in Unit : /\ unit' = [unit EXCEPT ![u] = w]
                        /\ w.parent = p /\ w.path = path /\ w.deleted = unit[u].deleted
  BY UpdateWrites
<1>4. /\ u \in LiveUnits /\ Exists(p) /\ unit[u].path = old /\ PathUnder(p) = path
      /\ ~Contains(path, u) /\ ~MidMove(e) /\ home' = home
  BY DEF UpdateOrgUnit, Slips
<1>5. (\A f \in Editors : ~Mid(edit[f])) /\ PathsInOrder
  BY <1>1, <1>4, NobodyMid DEF Mid
<1>6. unit'[u] = w /\ \A v \in Units : v # u => unit'[v] = unit[v]
  BY <1>1, <1>3, UnitWritten
<1>7. LiveUnits' = LiveUnits
  <2>1. u \in LiveUnits' <=> ~w.deleted
    BY <1>1, <1>3, LiveAfter
  <2>2. /\ \A v \in Units : v # u => (v \in LiveUnits' <=> v \in LiveUnits)
        /\ LiveUnits' \subseteq Units
    BY <1>1, <1>3, LiveAfter
  <2>3. ~w.deleted
    BY <1>3, <1>4 DEF LiveUnits
  <2> QED BY <1>4, <2>1, <2>2, <2>3 DEF LiveUnits
<1> HIDE DEF u, p, path, old
<1>8. p # u
  <2> SUFFICES ASSUME p = u PROVE FALSE
    OBVIOUS
  <2>1. path = Append(old, u)
    BY <1>1, <1>4, HierarchyAssumption DEF PathUnder
  <2> QED BY <1>1, <1>4, <2>1, ContainsAppend
<1>9. \A q : Exists(q) => Exists(q)'
  BY <1>7 DEF Exists
<1>10. ASSUME NEW q, Exists(q), q # u PROVE PathUnder(q)' = PathUnder(q)
  BY <1>6, <1>10 DEF PathUnder, Exists, LiveUnits
<1>11. PICK v : v = edit'[e]
  OBVIOUS
<1>12. v.op = "list" /\ v.unit = u /\ v.old = old /\ v.path = path
  BY <1>2, <1>11
<1>13. Moved(v)'
  <2>1. unit'[u].path = path /\ ~Contains(path, u)
    BY <1>3, <1>4, <1>6
  <2>2. ASSUME NEW d \in LiveUnits', NEW q, q = unit'[d].parent
        PROVE  Exists(q)' /\ unit'[d].path = IF q = u THEN Append(old, u) ELSE PathUnder(q)'
    <3>1. CASE d = u
      BY <1>3, <1>4, <1>6, <1>8, <1>9, <1>10, <2>2, <3>1
    <3>2. CASE d # u
      <4>1. d \in LiveUnits /\ d \in Units /\ unit'[d] = unit[d]
        BY <1>6, <1>7, <3>2 DEF LiveUnits
      <4>2. Exists(q) /\ unit[d].path = PathUnder(q)
        BY <1>5, <2>2, <4>1 DEF PathsInOrder
      <4>3. CASE q = u
        <5>1. PathUnder(u) = Append(old, u)
          BY <1>1, <1>4, HierarchyAssumption DEF PathUnder
        <5> QED BY <1>9, <4>1, <4>2, <4>3, <5>1
      <4>4. CASE q # u
        BY <1>9, <1>10, <4>1, <4>2, <4>4
      <4> QED BY <4>3, <4>4
    <3> QED BY <3>1, <3>2
  <2> QED BY <1>12, <2>1, <2>2 DEF Moved, Exists, PathUnder
<1>14. \A f \in Editors : f # e => ~Mid(edit'[f])
  BY <1>2, <1>5, IdleIsNotMid
<1>15. \A f \in Editors : Settling(edit[f])'
  <2>1. Settling(v)'
    BY <1>12, <1>13 DEF Settling
  <2>2. \A f \in Editors : ~Mid(edit'[f]) => Settling(edit[f])'
    BY DEF Mid, Settling
  <2> QED BY <1>11, <1>14, <2>1, <2>2
<1>16. MovesSettle'
  BY <1>14, <1>15 DEF MovesSettle
<1>17. Housed'
  BY <1>4, <1>7, StillHoused DEF TreeInv
<1>18. Mid(edit'[e])
  BY <1>2 DEF Mid
<1> QED BY <1>16, <1>17, <1>18 DEF TreeInv
\* With at most one row of each unit, a row is the one its unit has, and stays it
\* when another row is written.
LEMMA RowIsFound ==
  ASSUME NEW rows, OneRowEach(rows), NEW row \in rows
  PROVE  HasRow(rows, row[1]) /\ RowFor(rows, row[1]) = row
<1>1. HasRow(rows, row[1])
  BY DEF HasRow
<1>2. \E other \in rows : other[1] = row[1]
  OBVIOUS
<1>3. RowFor(rows, row[1]) \in rows /\ RowFor(rows, row[1])[1] = row[1]
  BY <1>2 DEF RowFor
<1> QED BY <1>1, <1>3 DEF OneRowEach

LEMMA RowsLeft ==
  ASSUME NEW rows, OneRowEach(rows), NEW row \in rows
  PROVE  /\ OneRowEach(rows \ {row})
         /\ ~HasRow(rows \ {row}, row[1])
         /\ \A u : u # row[1] =>
              /\ HasRow(rows \ {row}, u) <=> HasRow(rows, u)
              /\ HasRow(rows, u) => RowFor(rows \ {row}, u) = RowFor(rows, u)
<1> DEFINE left == rows \ {row}
<1>1. OneRowEach(left)
  BY DEF OneRowEach
<1>2. ~HasRow(left, row[1])
  BY DEF HasRow, OneRowEach
<1>3. ASSUME NEW u, u # row[1]
      PROVE  /\ HasRow(left, u) <=> HasRow(rows, u)
             /\ HasRow(rows, u) => RowFor(left, u) = RowFor(rows, u)
  <2>1. HasRow(left, u) <=> HasRow(rows, u)
    BY <1>3 DEF HasRow
  <2>2. ASSUME HasRow(rows, u) PROVE RowFor(left, u) = RowFor(rows, u)
    <3>1. PICK other \in rows : other[1] = u
      BY <2>2 DEF HasRow
    <3>2. other \in left
      BY <1>3, <3>1
    <3> HIDE DEF left
    <3>3. RowFor(left, other[1]) = other /\ RowFor(rows, other[1]) = other
      BY <1>1, <3>2, RowIsFound
    <3> QED BY <3>1, <3>3
  <2> QED BY <2>1, <2>2
<1> QED BY <1>1, <1>2, <1>3

\* A row is written: the paths that all rows lead to are the same as before.
LEMMA RewriteKeepsTree ==
  ASSUME HierarchyTypeOK, TreeInv, ~orgSlipped', NEW e \in Editors, edit[e].op = "rewrite",
         NEW row \in edit[e].rows, RewriteDescendant(e, row)
  PROVE  TreeInv'
<1>1. PICK rows, left : rows = edit[e].rows /\ left = rows \ {row}
  OBVIOUS
<1>2. Mid(edit[e])
  BY <1>1 DEF Mid
<1>3. \A f \in Editors : f # e => ~Mid(edit[f])
  BY <1>2 DEF TreeInv, MovesSettle
<1>4. OneRowEach(rows) /\ Agreed(rows)
  BY <1>1 DEF TreeInv, MovesSettle, Settling
<1>5. row[1] \in LiveUnits /\ home' = home
  BY DEF RewriteDescendant, Slips
<1>6. row[1] \in Units
  BY <1>5 DEF LiveUnits
<1>7. PICK w \in Unit :
                /\ unit' = [unit EXCEPT ![row[1]] = w]
                /\ w.parent = unit[row[1]].parent /\ w.path = row[3]
                /\ w.deleted = unit[row[1]].deleted
  BY <1>5, RewriteWrites
<1>8. /\ edit'[e].op = "rewrite" /\ edit'[e].rows = left
      /\ \A f \in Editors : f # e => edit'[f] = edit[f]
  BY <1>1, RewriteWrites
<1>9. unit'[row[1]] = w /\ \A v \in Units : v # row[1] => unit'[v] = unit[v]
  BY <1>6, <1>7, UnitWritten
<1>10. LiveUnits' = LiveUnits
  <2>1. row[1] \in LiveUnits' <=> ~w.deleted
    BY <1>6, <1>7, LiveAfter
  <2>2. /\ \A v \in Units : v # row[1] => (v \in LiveUnits' <=> v \in LiveUnits)
        /\ LiveUnits' \subseteq Units
    BY <1>6, <1>7, LiveAfter
  <2>3. ~w.deleted
    BY <1>5, <1>7 DEF LiveUnits
  <2> QED BY <1>5, <2>1, <2>2, <2>3 DEF LiveUnits
<1>11. \A v \in Units : unit'[v].parent = unit[v].parent
  BY <1>7, <1>9
<1>12. ASSUME NEW v \in Units PROVE NewPath(left, v)' = NewPath(rows, v)
  <2>1. CASE v = row[1]
    <3>1. HasRow(rows, v) /\ RowFor(rows, v) = row
      BY <1>1, <1>4, <2>1, RowIsFound
    <3>2. ~HasRow(left, v)
      BY <1>1, <1>4, <2>1, RowsLeft
    <3> QED BY <1>7, <1>9, <2>1, <3>1, <3>2 DEF NewPath
  <2>2. CASE v # row[1]
    <3>1. /\ HasRow(left, v) <=> HasRow(rows, v)
          /\ HasRow(rows, v) => RowFor(left, v) = RowFor(rows, v)
      BY <1>1, <1>4, <2>2, RowsLeft
    <3> QED BY <1>9, <2>2, <3>1 DEF NewPath
  <2> QED BY <2>1, <2>2
<1>13. ASSUME NEW q, Exists(q) PROVE Exists(q)' /\ NewPathUnder(left, q)' = NewPathUnder(rows, q)
  <2>1. Exists(q)'
    BY <1>10, <1>13 DEF Exists
  <2>2. q = Nil \/ q \in Units
    BY <1>13 DEF Exists, LiveUnits
  <2> QED BY <1>12, <2>1, <2>2 DEF NewPathUnder
<1>14. Agreed(left)'
  <2>1. ASSUME NEW v \in LiveUnits', NEW q, q = unit'[v].parent
        PROVE  Exists(q)' /\ NewPath(left, v)' = NewPathUnder(left, q)'
    <3>1. v \in LiveUnits /\ v \in Units /\ q = unit[v].parent
      BY <1>10, <1>11, <2>1 DEF LiveUnits
    <3>2. Exists(q) /\ NewPath(rows, v) = NewPathUnder(rows, q)
      BY <1>4, <3>1 DEF Agreed
    <3> QED BY <1>12, <1>13, <3>1, <3>2
  <2> QED BY <2>1 DEF Agreed, Exists, NewPathUnder
<1>15. OneRowEach(left)
  BY <1>1, <1>4, RowsLeft
<1>16. \A f \in Editors : f # e => ~Mid(edit'[f])
  BY <1>3, <1>8
<1>17. \A f \in Editors : Settling(edit[f])'
  <2>1. PICK v : v = edit'[e]
    OBVIOUS
  <2>2. Settling(v)'
    BY <1>8, <1>14, <1>15, <2>1 DEF Settling
  <2>3. \A f \in Editors : ~Mid(edit'[f]) => Settling(edit[f])'
    BY DEF Mid, Settling
  <2> QED BY <1>16, <2>1, <2>2, <2>3
<1>18. MovesSettle'
  BY <1>16, <1>17 DEF MovesSettle
<1>19. Housed'
  BY <1>5, <1>10, StillHoused DEF TreeInv
<1>20. (\A f \in Editors : ~Mid(edit'[f])) => PathsInOrder'
  <2> SUFFICES ASSUME ~Mid(edit'[e]) PROVE PathsInOrder'
    OBVIOUS
  <2>1. left = {}
    BY <1>8 DEF Mid
  <2>2. Agreed({})'
    BY <1>14, <2>1
  <2>3. (Agreed({}) => PathsInOrder)'
    BY NoRowsLeft, PTL
  <2> QED BY <2>2, <2>3
<1> QED BY <1>18, <1>19, <1>20 DEF TreeInv
\* The rows that a request writes below a unit that it has moved: one for each unit
\* below, and once they are written the paths agree.
LEMMA RowsAgree ==
  ASSUME HierarchyTypeOK, NEW v \in Edit, v.op = "list", Moved(v),
         \A d \in Below(v) : IsPrefix(Append(v.old, v.unit), unit[d].path)
  PROVE  OneRowEach(RowsBelow(v)) /\ Agreed(RowsBelow(v))
<1> DEFINE u == v.unit
           NewTop == Append(v.path, u)
           Row(d) == <<d, unit[d].path, NewTop \o TailBelow(unit[d].path, v.old)>>
<1>1. u \in Units /\ v.path \in Seq(Units) /\ v.old \in Seq(Units)
  BY EditFields
<1>2. NewTop \in Seq(Units)
  BY <1>1, AppendProperties
<1> PICK below, rows : below = Below(v) /\ rows = RowsBelow(v)
  OBVIOUS
<1>3. rows = {Row(d) : d \in below} /\ below = {d \in LiveUnits : Contains(unit[d].path, u)}
  BY DEF RowsBelow, Below
<1>4. \A d : Row(d)[1] = d /\ Row(d)[3] = NewTop \o TailBelow(unit[d].path, v.old)
  OBVIOUS
<1>5. OneRowEach(rows)
  <2> HIDE DEF Row
  <2> SUFFICES ASSUME NEW row \in rows, NEW other \in rows, row[1] = other[1] PROVE row = other
    BY DEF OneRowEach
  <2>1. PICK c, d : row = Row(c) /\ other = Row(d)
    BY <1>3
  <2>2. c = d
    BY <1>4, <2>1
  <2> QED BY <2>1, <2>2
<1>6. \A d : HasRow(rows, d) <=> d \in below
  <2> HIDE DEF Row
  <2> QED BY <1>3, <1>4 DEF HasRow
<1>7. ASSUME NEW d \in below
      PROVE  NewPath(rows, d) = NewTop \o TailBelow(unit[d].path, v.old)
  <2> HIDE DEF Row
  <2>1. Row(d) \in rows
    BY <1>3
  <2>2. HasRow(rows, Row(d)[1]) /\ RowFor(rows, Row(d)[1]) = Row(d)
    BY <1>5, <2>1, RowIsFound
  <2> QED BY <1>4, <2>2 DEF NewPath
<1>8. ASSUME NEW d, d \notin below PROVE NewPath(rows, d) = unit[d].path
  BY <1>6, <1>8 DEF NewPath
<1>9. unit[u].path = v.path /\ ~Contains(v.path, u) /\ u \notin below
  BY <1>3 DEF Moved
<1>10. ASSUME NEW d \in LiveUnits
       PROVE  Exists(unit[d].parent) /\ NewPath(rows, d) = NewPathUnder(rows, unit[d].parent)
  <2>1. PICK q : q = unit[d].parent
    OBVIOUS
  <2>2. /\ Exists(q)
        /\ unit[d].path = IF q = u THEN Append(v.old, u) ELSE PathUnder(q)
    BY <2>1 DEF Moved
  <2>3. d \in below <=> Contains(unit[d].path, u)
    BY <1>3
  <2> HIDE DEF u, NewTop, Row
  <2>4. CASE q = u
    <3>1. u # Nil
      BY <1>1, HierarchyAssumption
    <3>2. unit[d].path = Append(v.old, u)
      BY <2>2, <2>4
    <3>3. d \in below
      BY <1>1, <2>3, <3>2, ContainsAppend
    <3>4. TailBelow(unit[d].path, v.old) = <<>>
      BY <1>1, <3>2, TailOfChild
    <3>5. NewPath(rows, d) = NewTop
      BY <1>2, <1>7, <3>3, <3>4, ConcatEmptySeq
    <3>6. NewPathUnder(rows, u) = NewTop
      BY <1>8, <1>9, <3>1 DEF NewPathUnder, NewTop, u
    <3> QED BY <2>1, <2>2, <2>4, <3>5, <3>6
  <2>5. CASE q = Nil
    <3>1. unit[d].path = <<>>
      BY <1>1, <2>2, <2>5, HierarchyAssumption DEF PathUnder
    <3>2. d \notin below
      BY <2>3, <3>1, ContainsNothing
    <3>3. NewPath(rows, d) = <<>>
      BY <1>8, <3>1, <3>2
    <3> QED BY <2>1, <2>2, <2>5, <3>3 DEF NewPathUnder
  <2>6. CASE q # u /\ q # Nil
    <3>1. q \in LiveUnits /\ q \in Units /\ unit[q].path \in Seq(Units)
      BY <2>2, <2>6, LiveFields DEF Exists
    <3>2. unit[d].path = Append(unit[q].path, q)
      BY <2>2, <2>6 DEF PathUnder
    <3>3. d \in below <=> q \in below
      <4>1. q \in below <=> Contains(unit[q].path, u)
        BY <1>3, <3>1
      <4>2. Contains(unit[d].path, u) <=> Contains(unit[q].path, u)
        BY <2>6, <3>1, <3>2, ContainsAppend
      <4> QED BY <2>3, <4>1, <4>2
    <3>4. CASE q \in below
      <4>1. Len(v.old) + 1 <= Len(unit[q].path)
        <5>1. Len(Append(v.old, u)) = Len(v.old) + 1
          BY <1>1, AppendProperties
        <5>2. IsPrefix(Append(v.old, u), unit[q].path)
          BY <3>4 DEF u
        <5> QED BY <5>1, <5>2 DEF IsPrefix
      <4>2. TailBelow(unit[d].path, v.old) = Append(TailBelow(unit[q].path, v.old), q)
        BY <1>1, <3>1, <3>2, <4>1, TailGrows
      <4>3. TailBelow(unit[q].path, v.old) \in Seq(Units)
        BY <1>1, <3>1, TailType
      <4>4. NewTop \o Append(TailBelow(unit[q].path, v.old), q)
              = Append(NewTop \o TailBelow(unit[q].path, v.old), q)
        BY <1>2, <3>1, <4>3, AppendAfter
      <4>5. NewPath(rows, q) = NewTop \o TailBelow(unit[q].path, v.old)
        BY <1>7, <3>4
      <4>6. NewPath(rows, d) = NewTop \o TailBelow(unit[d].path, v.old)
        BY <1>7, <3>3, <3>4
      <4>7. NewPath(rows, d) = Append(NewPath(rows, q), q)
        BY <4>2, <4>4, <4>5, <4>6
      <4> QED BY <2>1, <2>2, <2>6, <4>7 DEF NewPathUnder
    <3>5. CASE q \notin below
      <4>1. NewPath(rows, d) = unit[d].path /\ NewPath(rows, q) = unit[q].path
        BY <1>8, <3>3, <3>5
      <4> QED BY <2>1, <2>2, <2>6, <3>2, <4>1 DEF NewPathUnder
    <3> QED BY <3>4, <3>5
  <2> QED BY <2>4, <2>5, <2>6
<1>11. Agreed(rows)
  BY <1>10 DEF Agreed
<1> QED BY <1>5, <1>11

\* The units below are listed: the rows to write lead to paths that agree.
LEMMA FindDescendantsKeepsTree ==
  ASSUME HierarchyTypeOK, TreeInv, ~orgSlipped', NEW e \in Editors, FindDescendants(e)
  PROVE  TreeInv'
<1>1. PICK v : v = edit[e] /\ v \in Edit
  BY DEF HierarchyTypeOK
<1>2. PICK rows : rows = RowsBelow(v)
  OBVIOUS
<1>4. v.op = "list" /\ unit' = unit /\ home' = home
  BY <1>1 DEF FindDescendants, Editing
<1>5. /\ Hold(e, [op |-> "rewrite", rows |-> rows])
      /\ \A d \in Below(v) : IsPrefix(Append(v.old, v.unit), unit[d].path)
  BY <1>1, <1>2 DEF FindDescendants, Slips, RowsBelow, Below
<1>6. PICK next : next = [op |-> "rewrite", rows |-> rows]
  OBVIOUS
<1>7. next.op = "rewrite" /\ next.rows = rows
  BY <1>6
<1>8. edit'[e] = next /\ \A f \in Editors : f # e => edit'[f] = edit[f]
  BY <1>5, <1>6 DEF Hold, HierarchyTypeOK
<1>9. Mid(edit[e])
  BY <1>1, <1>4 DEF Mid
<1>10. \A f \in Editors : f # e => ~Mid(edit'[f])
  BY <1>8, <1>9 DEF TreeInv, MovesSettle
<1>11. Moved(v)
  BY <1>1, <1>4 DEF TreeInv, MovesSettle, Settling
<1>12. OneRowEach(rows) /\ Agreed(rows)
  BY <1>1, <1>2, <1>4, <1>5, <1>11, RowsAgree
<1>13. LiveUnits' = LiveUnits /\ \A q : Exists(q)' = Exists(q)
  BY <1>4 DEF LiveUnits, Exists
<1>14. Agreed(rows)'
  <2>1. \A q : NewPath(rows, q)' = NewPath(rows, q) /\ NewPathUnder(rows, q)' = NewPathUnder(rows, q)
    BY <1>4 DEF NewPath, NewPathUnder
  <2> QED BY <1>4, <1>12, <1>13, <2>1 DEF Agreed
<1>15. \A f \in Editors : Settling(edit[f])'
  <2>1. Settling(next)'
    BY <1>7, <1>12, <1>14 DEF Settling
  <2>2. \A f \in Editors : ~Mid(edit'[f]) => Settling(edit[f])'
    BY DEF Mid, Settling
  <2> QED BY <1>8, <1>10, <2>1, <2>2
<1>16. MovesSettle'
  BY <1>10, <1>15 DEF MovesSettle
<1>17. Housed'
  BY <1>4, <1>13, StillHoused DEF TreeInv
<1>18. (\A f \in Editors : ~Mid(edit'[f])) => PathsInOrder'
  <2> SUFFICES ASSUME ~Mid(edit'[e]) PROVE PathsInOrder'
    OBVIOUS
  <2>1. rows = {}
    BY <1>7, <1>8 DEF Mid
  <2>2. Agreed({})'
    BY <1>14, <2>1
  <2>3. (Agreed({}) => PathsInOrder)'
    BY NoRowsLeft, PTL
  <2> QED BY <2>2, <2>3
<1> QED BY <1>16, <1>17, <1>18 DEF TreeInv

-------------------------------------------------------------------------------
LEMMA TreeStep ==
  ASSUME HierarchyTypeOK, UnitsFound, TreeInv, [HierarchyNext]_hierarchyVars,
         ~orgSlipped', ~staleRestore'
  PROVE  TreeInv'
<1>1. CASE HierarchyNext
  <2>1. PICK e \in Editors :
          \/ CreateOrgUnit(e) \/ AssertNoCycle(e) \/ ResolvePath(e) \/ UpdateOrgUnit(e)
          \/ FindDescendants(e) \/ MoveEnds(e) \/ DeleteOrgUnit(e) \/ RestoreOrgUnit(e)
          \/ PlacePerson(e) \/ MoveContents(e) \/ EditEnds(e)
          \/ edit[e].op = "rewrite" /\ \E row \in edit[e].rows : RewriteDescendant(e, row)
          \/ \E u \in Units :
               \/ CountReferences(e, u) \/ FindDeletedUnit(e, u)
               \/ \E p \in Units \cup {Nil} : FindParent(e, u, p) \/ FindUnit(e, u, p)
               \/ \E p \in Residents : FindPlace(e, p, u)
               \/ \E v \in Units : FindUnits(e, u, v)
    BY <1>1 DEF HierarchyNext
  <2>2. CASE CreateOrgUnit(e)
    BY <2>2, CreateKeepsTree
  <2>3. CASE UpdateOrgUnit(e)
    BY <2>3, UpdateKeepsTree
  <2>4. CASE FindDescendants(e)
    BY <2>4, FindDescendantsKeepsTree
  <2>5. CASE DeleteOrgUnit(e)
    BY <2>5, DeleteKeepsTree
  <2>6. CASE RestoreOrgUnit(e)
    BY <2>6, RestoreKeepsTree
  <2>7. CASE PlacePerson(e) \/ MoveContents(e)
    BY <2>7, PlacingKeepsTree
  <2>8. CASE AssertNoCycle(e) \/ ResolvePath(e) \/ MoveEnds(e) \/ EditEnds(e)
    BY <2>8, EditsKeepTree
  <2>9. CASE edit[e].op = "rewrite" /\ \E row \in edit[e].rows : RewriteDescendant(e, row)
    BY <2>9, RewriteKeepsTree
  <2>10. CASE \E u \in Units :
               \/ CountReferences(e, u) \/ FindDeletedUnit(e, u)
               \/ \E p \in Units \cup {Nil} : FindParent(e, u, p) \/ FindUnit(e, u, p)
               \/ \E p \in Residents : FindPlace(e, p, u)
               \/ \E v \in Units : FindUnits(e, u, v)
    BY <2>10, FindsKeepTree
  <2> QED BY <2>1, <2>2, <2>3, <2>4, <2>5, <2>6, <2>7, <2>8, <2>9, <2>10
<1>2. CASE UNCHANGED hierarchyVars
  <2>1. unit' = unit /\ edit' = edit /\ home' = home
    BY <1>2 DEF hierarchyVars
  <2>2. Housed'
    BY <2>1 DEF TreeInv, Housed, LiveUnits
  <2> QED BY <2>1, <2>2, UnitsUntouched
<1> QED BY <1>1, <1>2

\* What went wrong once is not forgotten.
LEMMA HistoryKept ==
  ASSUME [HierarchyNext]_hierarchyVars
  PROVE  (orgSlipped => orgSlipped') /\ (staleRestore => staleRestore')
<1>1. ASSUME NEW e, NEW v, OpenEdit(e, v)
      PROVE  (orgSlipped => orgSlipped') /\ (staleRestore => staleRestore')
  BY <1>1 DEF OpenEdit
<1>2. ASSUME NEW b, Slips(b) PROVE orgSlipped => orgSlipped'
  BY <1>2 DEF Slips
<1>3. CASE HierarchyNext
  <2>1. PICK e \in Editors :
          \/ CreateOrgUnit(e) \/ AssertNoCycle(e) \/ ResolvePath(e) \/ UpdateOrgUnit(e)
          \/ FindDescendants(e) \/ MoveEnds(e) \/ DeleteOrgUnit(e) \/ RestoreOrgUnit(e)
          \/ PlacePerson(e) \/ MoveContents(e) \/ EditEnds(e)
          \/ edit[e].op = "rewrite" /\ \E row \in edit[e].rows : RewriteDescendant(e, row)
          \/ \E u \in Units :
               \/ CountReferences(e, u) \/ FindDeletedUnit(e, u)
               \/ \E p \in Units \cup {Nil} : FindParent(e, u, p) \/ FindUnit(e, u, p)
               \/ \E p \in Residents : FindPlace(e, p, u)
               \/ \E v \in Units : FindUnits(e, u, v)
    BY <1>3 DEF HierarchyNext
  <2>2. CASE CreateOrgUnit(e) \/ UpdateOrgUnit(e) \/ FindDescendants(e) \/ DeleteOrgUnit(e)
             \/ PlacePerson(e) \/ MoveContents(e) \/ EditEnds(e)
    <3>1. (\E b : Slips(b)) /\ staleRestore' = staleRestore
      <4>1. CASE CreateOrgUnit(e)
        BY <4>1 DEF CreateOrgUnit
      <4>2. CASE UpdateOrgUnit(e)
        BY <4>2 DEF UpdateOrgUnit
      <4>3. CASE FindDescendants(e)
        BY <4>3 DEF FindDescendants
      <4>4. CASE DeleteOrgUnit(e)
        BY <4>4 DEF DeleteOrgUnit
      <4>5. CASE PlacePerson(e)
        BY <4>5 DEF PlacePerson
      <4>6. CASE MoveContents(e)
        BY <4>6 DEF MoveContents
      <4>7. CASE EditEnds(e)
        BY <4>7 DEF EditEnds
      <4> QED BY <2>2, <4>1, <4>2, <4>3, <4>4, <4>5, <4>6, <4>7
    <3> QED BY <1>2, <3>1
  <2>3. CASE RestoreOrgUnit(e)
    BY <1>2, <2>3 DEF RestoreOrgUnit
  <2>4. CASE AssertNoCycle(e) \/ ResolvePath(e) \/ MoveEnds(e)
    BY <2>4 DEF AssertNoCycle, ResolvePath, MoveEnds
  <2>5. CASE \E row \in edit[e].rows : RewriteDescendant(e, row)
    BY <1>2, <2>5 DEF RewriteDescendant
  <2>6. CASE \E u \in Units :
               \/ CountReferences(e, u) \/ FindDeletedUnit(e, u)
               \/ \E p \in Units \cup {Nil} : FindParent(e, u, p) \/ FindUnit(e, u, p)
               \/ \E p \in Residents : FindPlace(e, p, u)
               \/ \E v \in Units : FindUnits(e, u, v)
    BY <1>1, <2>6 DEF CountReferences, FindDeletedUnit, FindParent, FindUnit, FindPlace, FindUnits
  <2> QED BY <2>1, <2>2, <2>3, <2>4, <2>5, <2>6
<1>4. CASE UNCHANGED hierarchyVars
  BY <1>4 DEF hierarchyVars
<1> QED BY <1>3, <1>4

LEMMA HierarchyInvStep == HierarchyInv /\ [HierarchyNext]_hierarchyVars => HierarchyInv'
<1> SUFFICES ASSUME HierarchyInv, [HierarchyNext]_hierarchyVars PROVE HierarchyInv'
  OBVIOUS
<1>1. HierarchyTypeOK' /\ UnitsFound'
  BY HierarchyStepType DEF HierarchyInv
<1>2. (orgSlipped => orgSlipped') /\ (staleRestore => staleRestore')
  BY HistoryKept
<1>3. ~orgSlipped' /\ ~staleRestore' => TreeInv'
  BY <1>2, TreeStep DEF HierarchyInv
<1> QED BY <1>1, <1>3 DEF HierarchyInv

LEMMA HierarchyInvInit == HierarchyInit => HierarchyInv
<1> SUFFICES ASSUME HierarchyInit PROVE HierarchyInv
  OBVIOUS
<1>1. HierarchyTypeOK /\ UnitsFound
  BY HierarchyInitType
<1>2. LiveUnits = {} /\ (\A e \in Editors : edit[e] = NoEdit) /\ Housed
  BY DEF HierarchyInit, LiveUnits, Housed
<1>3. \A e \in Editors : ~Mid(edit[e]) /\ Settling(edit[e])
  BY <1>2, NoEditIsEdit DEF Mid, Settling
<1>4. PathsInOrder
  BY <1>2 DEF PathsInOrder
<1>5. TreeInv
  BY <1>2, <1>3, <1>4 DEF TreeInv, MovesSettle
<1> QED BY <1>1, <1>5 DEF HierarchyInv

\* Creating, moving, deleting, restoring and filling units, however the requests
\* interleave, leaves the tree and its paths in agreement once nobody is at work,
\* unless a request wrote from a read that was overtaken, fell into the move of
\* another or died half way, or a unit came back after its ancestors had moved
\* (people.service.ts:387-471, hierarchy.ts:18-89).
THEOREM PathsStayInAgreement == HierarchySpec => []PathsAgree
<1>1. HierarchyInit => HierarchyInv
  BY HierarchyInvInit
<1>2. HierarchyInv /\ [HierarchyNext]_hierarchyVars => HierarchyInv'
  BY HierarchyInvStep
<1>3. HierarchyInv => PathsAgree
  <2> SUFFICES ASSUME HierarchyInv, ~orgSlipped, ~staleRestore, AtRest PROVE TreeAgrees
    BY DEF PathsAgree
  <2>1. \A e \in Editors : ~Mid(edit[e])
    BY IdleIsNotMid DEF AtRest
  <2>2. Housed /\ PathsInOrder
    BY <2>1 DEF HierarchyInv, TreeInv
  <2> QED BY <2>2 DEF TreeAgrees, Housed, PathsInOrder
<1> QED BY <1>1, <1>2, <1>3, PTL DEF HierarchySpec

================================================================================
