----------------------------- MODULE CustomFields ------------------------------
(* Custom fields of a record, a person or an asset: definitions that are made, *)
(* edited, archived and restored, and the values one record keeps under their  *)
(* keys.  Every field here is a choice; its values are ids of its options.     *)
EXTENDS Naturals

CONSTANTS
  FieldRequests, \* requests under way
  FieldOptions,       \* ids of options
  MaxFields,     \* bound: keys that one label may be given
  MaxAsks,       \* bound: requests begun
  NoValue        \* no row, and undefined

ASSUME CustomFieldsAssumption ==
  /\ MaxFields \in Nat /\ MaxAsks \in Nat /\ NoValue \notin FieldOptions

VARIABLES
  appliesTo,    \* the record is a person or an asset
  field,        \* definitions, by their keys
  cf,           \* values of the record, by the keys of the fields
  ask,          \* what each request holds between two calls
  asks,         \* requests begun, up to MaxAsks
  fieldSlipped  \* history: a person was saved over another request's save

fieldVars == <<appliesTo, field, cf, ask, asks, fieldSlipped>>

Keys == 1..MaxFields

\* covers: assetTypeIds is empty or names the type of the record.
Definition == [active : BOOLEAN, covers : BOOLEAN, required : BOOLEAN,
               live : SUBSET FieldOptions, shelved : SUBSET FieldOptions]

ASSUME NoDefinitionAssumption == NoValue \notin Definition

Values == [Keys -> FieldOptions \cup {NoValue}]

NoAsk == [op |-> "none"]

Ask == {NoAsk} \cup [op : {"make", "edit"}, key : Keys]
   \cup [op : {"create", "update"}, key : Keys, value : FieldOptions \cup {NoValue}, seen : Values \cup {NoValue}]
   \cup [op : {"save"}, key : Keys, value : FieldOptions \cup {NoValue}, seen : Values \cup {NoValue}, parsed : Values]

FieldsTypeOK ==
  /\ appliesTo \in {"person", "asset"}
  /\ field \in [Keys -> Definition \cup {NoValue}]
  /\ cf \in Values \cup {NoValue}
  /\ ask \in [FieldRequests -> Ask]
  /\ asks \in 0..MaxAsks
  /\ fieldSlipped \in BOOLEAN

\* The label's first field is there and no record is.
FieldsInit ==
  /\ appliesTo \in {"person", "asset"}
  /\ field \in {[k \in Keys |-> IF k = 1 THEN [active |-> TRUE, covers |-> TRUE, required |-> FALSE,
                                               live |-> live, shelved |-> {}] ELSE NoValue]
                : live \in SUBSET FieldOptions \ {{}}}
  /\ cf = NoValue
  /\ ask = [r \in FieldRequests |-> NoAsk]
  /\ asks = 0
  /\ fieldSlipped = FALSE

Defined == {k \in Keys : field[k] # NoValue}

\* The next call of a request, which leaves o to hold.
Asks(r, o) == ask[r] = NoAsk /\ asks < MaxAsks /\ asks' = asks + 1 /\ ask' = [ask EXCEPT ![r] = o]

Answers(r, op, o) == ask[r].op = op /\ ask' = [ask EXCEPT ![r] = o] /\ UNCHANGED asks

-----------------------------------------------------------------------------
(* Definitions                                                              *)

\* The first of label, label_2, ... that no definition has, archived ones included.
GenerateFieldKey(r) ==
  /\ \E k \in Keys \ Defined : 1..(k-1) \subseteq Defined /\ Asks(r, [op |-> "make", key |-> k])
  /\ UNCHANGED <<appliesTo, field, cf, fieldSlipped>>

\* The unique index refuses a key that another request took first.
CreateDefinition(r) ==
  /\ Answers(r, "make", NoAsk)
  /\ ask[r].key \notin Defined
  /\ \E required \in BOOLEAN, live \in SUBSET FieldOptions \ {{}} :
       field' = [field EXCEPT ![ask[r].key] = [active |-> TRUE, covers |-> TRUE, required |-> required,
                                               live |-> live, shelved |-> {}]]
  /\ UNCHANGED <<appliesTo, cf, fieldSlipped>>

FindDefinition(r, k) ==
  /\ k \in Defined
  /\ Asks(r, [op |-> "edit", key |-> k])
  /\ UNCHANGED <<appliesTo, field, cf, fieldSlipped>>

\* Replacing the options raises the version of the row, so that another request
\* which read it and replaces them too is refused.
Overtakes(r, k) ==
  ask' = [q \in FieldRequests |-> IF q = r \/ ask[q] = [op |-> "edit", key |-> k] THEN NoAsk ELSE ask[q]]

\* updateDefinition(): options are those of the patch, archived or not, and none
\* other; the key, the type and the entity are immutable.
UpdateOptions(r) ==
  /\ ask[r].op = "edit" /\ Overtakes(r, ask[r].key)
  /\ \E live \in SUBSET FieldOptions : \E shelved \in SUBSET (FieldOptions \ live) :
       field' = [field EXCEPT ![ask[r].key].live = live, ![ask[r].key].shelved = shelved]
  /\ UNCHANGED <<appliesTo, cf, asks, fieldSlipped>>

UpdateDefinition(r) ==
  /\ Answers(r, "edit", NoAsk)
  /\ \E covers, required \in BOOLEAN :
       /\ appliesTo = "person" => covers
       /\ field' = [field EXCEPT ![ask[r].key].covers = covers, ![ask[r].key].required = required]
  /\ UNCHANGED <<appliesTo, cf, fieldSlipped>>

\* archiveCustomField() and restoreCustomField(): values stay where they are.
SetDefinitionStatus(r) ==
  /\ Answers(r, "edit", NoAsk)
  /\ \E active \in BOOLEAN : field' = [field EXCEPT ![ask[r].key].active = active]
  /\ UNCHANGED <<appliesTo, cf, fieldSlipped>>

-----------------------------------------------------------------------------
(* Values                                                                   *)

\* definitionsFor(): the active fields that apply to the record.
DefinitionsFor == {k \in Defined : field[k].active /\ field[k].covers}

Provided(values) == {k \in Keys : values[k] # NoValue}

\* flattenCustomFields() under the fields of the request; a creation has only those.
Merged(o) ==
  [(IF o.op = "update" THEN o.seen ELSE [k \in Keys |-> NoValue]) EXCEPT ![o.key] = o.value]

\* Mutant: fields out of sight are passed over.
AcceptedIfSeen(o) ==
  \A k \in DefinitionsFor :
    IF Merged(o)[k] = NoValue THEN ~field[k].required ELSE Merged(o)[k] \in field[k].live

\* compileFieldSchema().parse(): a key without a definition is refused, and so is
\* the value of an option that has been archived.
Accepted(o) ==
  /\ Provided(Merged(o)) \cup {o.key} \subseteq DefinitionsFor
  /\ \A k \in DefinitionsFor :
       IF Merged(o)[k] = NoValue THEN ~field[k].required ELSE Merged(o)[k] \in field[k].live

\* Only values under a definition that was read are written back.
Parsed(o) == [k \in Keys |-> IF k \in DefinitionsFor THEN Merged(o)[k] ELSE NoValue]

FindRecord(r) ==
  /\ \E k \in Keys, v \in FieldOptions \cup {NoValue} :
       Asks(r, [op |-> IF cf = NoValue THEN "create" ELSE "update", key |-> k, value |-> v, seen |-> cf])
  /\ UNCHANGED <<appliesTo, field, cf, fieldSlipped>>

\* applyCustomFields(): the definitions are read outside any transaction.
ApplyCustomFields(r) ==
  /\ ask[r].op \in {"create", "update"}
  /\ ask' = [ask EXCEPT ![r] = IF ~Accepted(@) THEN NoAsk
                               ELSE [op |-> "save", key |-> @.key, value |-> @.value,
                                     seen |-> @.seen, parsed |-> Parsed(@)]]
  /\ UNCHANGED <<appliesTo, field, cf, asks, fieldSlipped>>

\* Mutant: an asset too is saved over whatever was saved meanwhile.
SaveOver(r) ==
  /\ ask[r].op = "save"
  /\ cf' = ask[r].parsed
  /\ ask' = [ask EXCEPT ![r] = NoAsk]
  /\ fieldSlipped' = (fieldSlipped \/ (appliesTo = "person" /\ cf # ask[r].seen))
  /\ UNCHANGED <<appliesTo, field, asks>>

\* The whole of cf is set.  An asset is saved in the transaction that read it, and
\* one that another save overtook starts again; a person is saved as it stands.
\* One record is followed, and one request has made it.
SaveRecord(r) ==
  /\ ask[r].op = "save"
  /\ LET again == cf # ask[r].seen /\ (appliesTo = "asset" \/ ask[r].seen = NoValue) IN
       /\ cf' = IF again THEN cf ELSE ask[r].parsed
       /\ ask' = [ask EXCEPT ![r] =
                    IF again /\ @.seen # NoValue
                    THEN [op |-> "update", key |-> @.key, value |-> @.value, seen |-> cf]
                    ELSE NoAsk]
       /\ fieldSlipped' = (fieldSlipped \/ (~again /\ cf # ask[r].seen))
  /\ UNCHANGED <<appliesTo, field, asks>>

AskEnds(r) ==
  /\ ask[r] # NoAsk
  /\ ask' = [ask EXCEPT ![r] = NoAsk]
  /\ UNCHANGED <<appliesTo, field, cf, asks, fieldSlipped>>

FieldsNext ==
  \E r \in FieldRequests :
    \/ GenerateFieldKey(r) \/ CreateDefinition(r)
    \/ \E k \in Keys : FindDefinition(r, k)
    \/ UpdateOptions(r) \/ UpdateDefinition(r) \/ SetDefinitionStatus(r)
    \/ FindRecord(r) \/ ApplyCustomFields(r) \/ SaveRecord(r) \/ AskEnds(r)

FieldsSpec == FieldsInit /\ [][FieldsNext]_fieldVars

-----------------------------------------------------------------------------
(* Properties                                                               *)

\* Whatever happens to its field (an archival, a new list of options, a type it
\* leaves), a value on a record changes only when a request that names its key is
\* saved; only two edits of one person at once may lose one.  What the refusal
\* of keys out of sight costs is that such a record takes no edit of any field.
ValuesAreKept ==
  [][\A k \in Keys :
       (cf # NoValue /\ cf[k] # NoValue /\ cf' # cf /\ cf'[k] # cf[k] /\ ~fieldSlipped')
         => \E r \in FieldRequests :
              ask[r].op = "save" /\ ask[r].key = k /\ ask'[r] = NoAsk]_fieldVars
================================================================================
