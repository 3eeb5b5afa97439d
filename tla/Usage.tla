-------------------------------- MODULE Usage ---------------------------------
(* The counters a plan's limits are checked against: of the people, the assets *)
(* or the custom fields of an organisation.  A request checks the limit,       *)
(* writes its row and then moves the counter, each in a call of its own; the   *)
(* nightly reconciliation counts people and assets again.                      *)
EXTENDS Integers, FiniteSets

CONSTANTS
  Countables,  \* rows of the resource
  Clerks,      \* requests under way
  PlanLimit,   \* the resolved entitlement
  MaxOrders,   \* bound: requests begun
  Uncreated    \* no row

ASSUME UsageAssumption ==
  PlanLimit \in Nat /\ MaxOrders \in Nat /\ IsFiniteSet(Countables) /\ IsFiniteSet(Clerks)

VARIABLES
  resource,  \* which of the three resources it is
  entry,     \* its rows
  usage,     \* peopleCount, assetCount or customFieldCount
  order,     \* what each request holds between two calls
  recount,   \* what the reconciliation holds between two calls
  orders,    \* requests begun, up to MaxOrders
  drifted,   \* history: something the counter is known not to survive happened
  crowded    \* history: a row was admitted beside another, or unchecked

usageVars == <<resource, entry, usage, order, recount, orders, drifted, crowded>>

\* An inactive person or an archived field has no place in the plan; seeded is a
\* field that a preset brought.
Entry == [active : BOOLEAN, deleted : BOOLEAN, seeded : BOOLEAN]

ASSUME NoEntryAssumption == Uncreated \notin Entry

Fresh == [active |-> TRUE, deleted |-> FALSE, seeded |-> FALSE]

NoOrder == [op |-> "none"]

Order == {NoOrder} \cup [op : {"create", "readmit"}] \cup [op : {"count"}, by : {-1, 1}]
   \cup [op : {"stand down", "delete", "admit", "restore"}, row : Countables, seen : Entry]

NoRecount == [pc |-> "idle", found |-> 0, quiet |-> FALSE]

UsageTypeOK ==
  /\ resource \in {"people", "assets", "customFields"}
  /\ entry \in [Countables -> Entry \cup {Uncreated}]
  /\ usage \in (0 - MaxOrders)..(Cardinality(Countables) + MaxOrders)
  /\ order \in [Clerks -> Order]
  /\ recount \in [pc : {"idle", "counted", "differs"}, found : 0..Cardinality(Countables), quiet : BOOLEAN]
  /\ orders \in 0..MaxOrders
  /\ drifted \in BOOLEAN /\ crowded \in BOOLEAN

UsageInit ==
  /\ resource \in {"people", "assets", "customFields"}
  /\ entry = [k \in Countables |-> Uncreated]
  /\ usage = 0
  /\ order = [c \in Clerks |-> NoOrder]
  /\ recount = NoRecount
  /\ orders = 0
  /\ drifted = FALSE /\ crowded = FALSE

Entered == {k \in Countables : entry[k] # Uncreated}

\* What countDocuments() counts: deleted rows are outside every query.  Fields
\* are never recounted, and those of a preset were never counted.
CountedRows == {k \in Entered : entry[k].active /\ ~entry[k].deleted /\ ~entry[k].seeded}

IdleClerk(c) == order[c] = NoOrder

\* A call of request c: what it holds afterwards.  A recount it runs beside is
\* no longer an undisturbed one.
Carries(c, o) ==
  /\ order' = [order EXCEPT ![c] = o]
  /\ recount' = [recount EXCEPT !.quiet = FALSE]
  /\ UNCHANGED resource

Takes(c, o) == IdleClerk(c) /\ orders < MaxOrders /\ orders' = orders + 1 /\ Carries(c, o)

Goes(c, op, o) == order[c].op = op /\ Carries(c, o) /\ UNCHANGED orders

Counting(by) == [op |-> "count", by |-> by]

-----------------------------------------------------------------------------
\* assertWithinLimit(): the counter as it is now, not the rows.
WithinLimit == usage + 1 <= PlanLimit

\* Another request has been admitted, or has written its row, and not counted it.
Admitting(c) ==
  \E d \in Clerks \ {c} : \/ order[d].op \in {"create", "readmit", "restore"}
                          \/ order[d].op = "count" /\ order[d].by = 1

Crowds(c) == crowded' = (crowded \/ drifted \/ Admitting(c))

CheckLimit(c) ==
  /\ WithinLimit /\ Crowds(c)
  /\ Takes(c, [op |-> "create"])
  /\ UNCHANGED <<entry, usage, drifted>>

\* createPerson(), createAsset() and createDefinition(), up to their commit.
CreateEntry(c) ==
  /\ \E k \in Countables \ Entered : entry' = [entry EXCEPT ![k] = Fresh]
  /\ Goes(c, "create", Counting(1))
  /\ UNCHANGED <<usage, drifted, crowded>>

IncrementUsage(c) ==
  /\ Goes(c, "count", NoOrder)
  /\ usage' = usage + order[c].by
  /\ UNCHANGED <<entry, drifted, crowded>>

\* applyPreset() creates the fields an industry starts with and counts none.
SeedField(c) ==
  /\ resource = "customFields"
  /\ \E k \in Countables \ Entered : entry' = [entry EXCEPT ![k] = [Fresh EXCEPT !.seeded = TRUE]]
  /\ Takes(c, NoOrder)
  /\ UNCHANGED <<usage, drifted, crowded>>

-----------------------------------------------------------------------------
Overtaken(c) == entry[order[c].row] # order[c].seen

Drifts(cause) == drifted' = (drifted \/ cause)

FindToStandDown(c, k) ==
  /\ resource # "assets" /\ k \in Entered /\ ~entry[k].deleted
  /\ Takes(c, [op |-> "stand down", row |-> k, seen |-> entry[k]])
  /\ UNCHANGED <<entry, usage, drifted, crowded>>

\* deactivatePerson() and archiveCustomField() give the place back without asking
\* whether the row still had one.
StandDown(c) ==
  /\ Goes(c, "stand down", Counting(-1))
  /\ LET k == order[c].row IN
       /\ entry' = [entry EXCEPT ![k].active = FALSE]
       /\ Drifts(Overtaken(c) \/ ~entry[k].active \/ entry[k].seeded)
  /\ UNCHANGED <<usage, crowded>>

FindToDelete(c, k) ==
  /\ resource # "customFields" /\ k \in Entered /\ ~entry[k].deleted
  /\ Takes(c, [op |-> "delete", row |-> k, seen |-> entry[k]])
  /\ UNCHANGED <<entry, usage, drifted, crowded>>

\* Mutant: the place is given back whoever is deleted.
DeleteCounted(c) ==
  /\ Goes(c, "delete", Counting(-1))
  /\ entry' = [entry EXCEPT ![order[c].row].deleted = TRUE]
  /\ Drifts(Overtaken(c))
  /\ UNCHANGED <<usage, crowded>>

\* deletePerson() gives back only the place the person had when it was read;
\* deleteAsset() reads the row again in its transaction and stops if it is gone.
DeleteEntry(c) ==
  /\ order[c].op = "delete"
  /\ LET k == order[c].row IN
       /\ resource = "assets" => ~entry[k].deleted
       /\ entry' = [entry EXCEPT ![k].deleted = TRUE]
  /\ Goes(c, "delete", IF order[c].seen.active THEN Counting(-1) ELSE NoOrder)
  /\ Drifts(Overtaken(c))
  /\ UNCHANGED <<usage, crowded>>

\* restorePerson() finds only a deleted person; restoreAsset() finds any asset.
FindToRestore(c, k) ==
  /\ k \in Entered
  /\ \/ resource = "people" /\ entry[k].deleted
        /\ Takes(c, [op |-> "admit", row |-> k, seen |-> entry[k]])
     \/ resource = "assets"
        /\ Takes(c, [op |-> "restore", row |-> k, seen |-> entry[k]])
  /\ UNCHANGED <<entry, usage, drifted, crowded>>

\* Only a person who takes a place is checked against the limit.
AdmitPerson(c) ==
  /\ order[c].op = "admit"
  /\ order[c].seen.active => WithinLimit
  /\ Goes(c, "admit", [order[c] EXCEPT !.op = "restore"])
  /\ Crowds(c)
  /\ UNCHANGED <<entry, usage, drifted>>

\* restoreCustomField() checks the limit before it looks for the field.
CheckFieldLimit(c) ==
  /\ resource = "customFields" /\ WithinLimit /\ Crowds(c)
  /\ Takes(c, [op |-> "readmit"])
  /\ UNCHANGED <<entry, usage, drifted>>

FindField(c, k) ==
  /\ k \in Entered
  /\ Goes(c, "readmit", [op |-> "restore", row |-> k, seen |-> entry[k]])
  /\ UNCHANGED <<entry, usage, drifted, crowded>>

\* restoreAsset() is not checked against the limit, and like restoreCustomField()
\* counts a row that was there already.
RestoreEntry(c) ==
  /\ order[c].op = "restore"
  /\ LET k == order[c].row
         back == IF resource = "customFields" THEN [entry[k] EXCEPT !.active = TRUE]
                 ELSE [entry[k] EXCEPT !.deleted = FALSE] IN
       /\ entry' = [entry EXCEPT ![k] = back]
       /\ Drifts(Overtaken(c) \/ entry[k] = back \/ entry[k].seeded)
  /\ Goes(c, "restore", IF order[c].seen.active \/ resource = "customFields" THEN Counting(1) ELSE NoOrder)
  /\ crowded' = (crowded \/ resource = "assets")
  /\ UNCHANGED usage

\* The process dies, or a call fails, between the row and the counter or before.
OrderEnds(c) ==
  /\ ~IdleClerk(c)
  /\ Drifts(order[c].op = "count")
  /\ Carries(c, NoOrder)
  /\ UNCHANGED <<entry, usage, orders, crowded>>

-----------------------------------------------------------------------------
\* reconcileTenant(): people and assets are counted, then the counter is read and
\* compared, then set.
CountEntries ==
  /\ recount.pc = "idle" /\ resource # "customFields"
  /\ recount' = [pc |-> "counted", found |-> Cardinality(CountedRows),
                 quiet |-> \A c \in Clerks : IdleClerk(c)]
  /\ UNCHANGED <<resource, entry, usage, order, orders, drifted, crowded>>

CompareUsage ==
  /\ recount.pc = "counted"
  /\ recount' = IF usage = recount.found THEN NoRecount ELSE [recount EXCEPT !.pc = "differs"]
  /\ UNCHANGED <<resource, entry, usage, order, orders, drifted, crowded>>

\* An undisturbed recount ends any drift; one that ran beside a request may set
\* the counter over what the request added.
SetUsage ==
  /\ recount.pc = "differs"
  /\ usage' = recount.found
  /\ drifted' = ~recount.quiet
  /\ recount' = NoRecount
  /\ UNCHANGED <<resource, entry, order, orders, crowded>>

RecountDies ==
  /\ recount.pc # "idle"
  /\ recount' = NoRecount
  /\ UNCHANGED <<resource, entry, usage, order, orders, drifted, crowded>>

UsageNext ==
  \/ \E c \in Clerks :
       \/ CheckLimit(c) \/ CreateEntry(c) \/ IncrementUsage(c) \/ SeedField(c)
       \/ StandDown(c) \/ DeleteEntry(c) \/ AdmitPerson(c) \/ CheckFieldLimit(c)
       \/ RestoreEntry(c) \/ OrderEnds(c)
       \/ \E k \in Countables :
            FindToStandDown(c, k) \/ FindToDelete(c, k) \/ FindToRestore(c, k) \/ FindField(c, k)
  \/ CountEntries \/ CompareUsage \/ SetUsage \/ RecountDies

UsageSpec == UsageInit /\ [][UsageNext]_usageVars

-----------------------------------------------------------------------------
(* Properties                                                               *)

\* Whatever requests and recounts ran side by side, the counter is the number of
\* rows once every request has finished, and the rows never pass the limit, in
\* every history free of what the code does not guard against: a request that
\* dies before it counts, two that change one row, a row stood down or brought
\* back twice, a preset's field archived, an asset restored unchecked, two rows
\* admitted at once, a recount beside a request.
UsageAgrees ==
  /\ (~drifted /\ \A c \in Clerks : IdleClerk(c)) => usage = Cardinality(CountedRows)
  /\ ~crowded => Cardinality(CountedRows) <= PlanLimit
===============================================================================
