------------------------------ MODULE Documents -------------------------------
(* Attachments of one organisation: the rows, the objects in storage they      *)
(* point at, and the bytes counted against the plan.  An upload goes straight  *)
(* from the browser to storage on a link that outlives the request for five    *)
(* minutes; the row becomes ready when its object has been looked at.  The bin *)
(* keeps a deleted row and its object for a day, then a purge removes both.    *)
EXTENDS Integers, FiniteSets, Totals

CONSTANTS
  Docs,         \* documents that can be reserved; each has a storage key of its own
  DocRequests,  \* requests and scheduled tasks under way
  Files,        \* what a browser may send: [size, sound]
  MaxFileSize,  \* MAX_FILE_BYTES
  StorageLimit, \* storageBytes of the plan
  MaxCounted,   \* bound: the counter is followed from -MaxCounted to MaxCounted
  Absent,       \* no row yet, no object
  Purged        \* the row is gone for good: keys are random, none comes back

ASSUME DocumentsAssumption ==
  /\ Files \subseteq [size : Nat \ {0}, sound : BOOLEAN]
  /\ MaxFileSize \in Nat /\ StorageLimit \in Nat /\ MaxCounted \in Nat
  /\ IsFiniteSet(Docs) /\ IsFiniteSet(DocRequests)

VARIABLES
  row,          \* documents collection
  object,       \* the bucket, by the document's key
  storageBytes, \* TenantUsage.storageBytes
  docTask,      \* what each request holds between two calls
  docSlipped    \* history: a request wrote from an overtaken read, or died between
                \* two writes that belong together

documentVars == <<row, object, storageBytes, docTask, docSlipped>>

(* aged: past PENDING_TTL_MS, so the upload link is long dead too.             *)
(* bin: not deleted, restorable, or past the window.                           *)
Row == [status : {"pending", "ready", "rejected"}, size : Nat, aged : BOOLEAN,
        bin : {"no", "recent", "old"}]

ASSUME NoDocumentAssumption == Absent \notin Row \cup Files /\ Purged \notin Row \cup {Absent}

NoDocTask == [op |-> "none"]

DocTask == [op : {"none"}]
      \cup [op : {"head", "reject"}, doc : Docs]
      \cup [op : {"verify", "save"}, doc : Docs, size : Nat]
      \cup [op : {"count"}, bytes : Int]
      \cup [op : {"drop"}, doc : Docs]
      \cup [op : {"bin", "restore"}, doc : Docs, copy : Row]
      \cup [op : {"purge"}, left : SUBSET Docs, listed : SUBSET Docs]
      \cup [op : {"sweep", "sweepRow"}, left : SUBSET Docs, doc : Docs \cup {Absent}]

DocumentsTypeOK ==
  /\ row \in [Docs -> Row \cup {Absent, Purged}]
  /\ object \in [Docs -> Files \cup {Absent}]
  /\ storageBytes \in Int
  /\ docTask \in [DocRequests -> DocTask]
  /\ docSlipped \in BOOLEAN

DocumentsInit ==
  /\ row = [d \in Docs |-> Absent]
  /\ object = [d \in Docs |-> Absent]
  /\ storageBytes = 0
  /\ docTask = [r \in DocRequests |-> NoDocTask]
  /\ docSlipped = FALSE

Rows == {d \in Docs : row[d] \notin {Absent, Purged}}

(* What a query without a deletedAt condition sees.                            *)
Undeleted == {d \in Rows : row[d].bin = "no"}

Ready == {d \in Undeleted : row[d].status = "ready"}

Rejected == {d \in Rows : row[d].status = "rejected"}

Go(r, t) == docTask' = [docTask EXCEPT ![r] = t]

Resting(r) == docTask[r] = NoDocTask

Keep(r, vs) == Go(r, NoDocTask) /\ UNCHANGED vs

(* verifyMagicBytes on the first bytes, or on none when the object is gone.     *)
Verified(d) == object[d] # Absent /\ object[d].sound

HasRoomFor(bytes) == storageBytes + bytes <= StorageLimit

-------------------------------------------------------------------------------
(* Upload: presign, send, confirm.                                             *)

PresignUpload(d, declared) ==
  /\ row[d] = Absent
  /\ declared <= MaxFileSize
  /\ HasRoomFor(declared)
  /\ row' = [row EXCEPT ![d] =
       [status |-> "pending", size |-> declared, aged |-> FALSE, bin |-> "no"]]
  /\ UNCHANGED <<object, storageBytes, docTask, docSlipped>>

(* The link accepts any file while it lives, whatever became of the row.       *)
Upload(d, f) ==
  /\ d \in Rows
  /\ ~row[d].aged
  /\ f.size <= MaxFileSize
  /\ object' = [object EXCEPT ![d] = f]
  /\ UNCHANGED <<row, storageBytes, docTask, docSlipped>>

FindForConfirm(r, d) ==
  /\ Resting(r)
  /\ d \in Undeleted
  /\ row[d].status # "ready"
  /\ Go(r, [op |-> "head", doc |-> d])
  /\ UNCHANGED <<row, object, storageBytes, docSlipped>>

HeadObject(r) ==
  /\ docTask[r].op = "head"
  /\ LET d == docTask[r].doc
     IN /\ object[d] # Absent
        /\ Go(r, IF object[d].size > MaxFileSize
                    THEN [op |-> "reject", doc |-> d]
                    ELSE [op |-> "verify", doc |-> d, size |-> object[d].size])
  /\ UNCHANGED <<row, object, storageBytes, docSlipped>>

(* The first bytes decide.                                                     *)
ReadHead(r) ==
  /\ docTask[r].op = "verify"
  /\ Go(r, IF Verified(docTask[r].doc)
               THEN [docTask[r] EXCEPT !.op = "save"]
               ELSE [op |-> "reject", doc |-> docTask[r].doc])
  /\ UNCHANGED <<row, object, storageBytes, docSlipped>>

(* The save, which a sweep may have overtaken: the object read is gone then.   *)
ConfirmUpload(r) ==
  /\ docTask[r].op = "save"
  /\ LET d == docTask[r].doc
         s == docTask[r].size
     IN /\ d \in Rows
        /\ row' = [row EXCEPT ![d].status = "ready", ![d].size = s]
        /\ docSlipped' = (docSlipped \/ d \notin Undeleted \/ row[d].status = "ready"
                                    \/ object[d] = Absent)
        /\ Go(r, [op |-> "count", bytes |-> s])
  /\ UNCHANGED <<object, storageBytes>>

Reject(r) ==
  /\ docTask[r].op = "reject"
  /\ LET d == docTask[r].doc
     IN /\ d \in Rows
        /\ row' = [row EXCEPT ![d].status = "rejected"]
        /\ docSlipped' = (docSlipped \/ d \notin Undeleted \/ row[d].status = "ready")
        /\ Go(r, [op |-> "drop", doc |-> d])
  /\ UNCHANGED <<object, storageBytes>>

DropRejected(r) ==
  /\ docTask[r].op = "drop"
  /\ object' = [object EXCEPT ![docTask[r].doc] = Absent]
  /\ docSlipped' = (docSlipped \/ docTask[r].doc \notin Rejected)
  /\ Keep(r, <<row, storageBytes>>)

AddStorageBytes(r) ==
  /\ docTask[r].op = "count"
  /\ storageBytes' = storageBytes + docTask[r].bytes
  /\ storageBytes' \in (0 - MaxCounted)..MaxCounted
  /\ Keep(r, <<row, object, docSlipped>>)

-------------------------------------------------------------------------------
(* The bin.                                                                    *)

FindForDelete(r, d) ==
  /\ Resting(r)
  /\ d \in Undeleted
  /\ Go(r, [op |-> "bin", doc |-> d, copy |-> row[d]])
  /\ UNCHANGED <<row, object, storageBytes, docSlipped>>

(* Mutant: every deleted row gives its size back.                              *)
DeleteGivesBackAll(r) ==
  /\ docTask[r].op = "bin"
  /\ LET d == docTask[r].doc
         c == docTask[r].copy
     IN /\ d \in Rows
        /\ row' = [row EXCEPT ![d].bin = "recent"]
        /\ docSlipped' = (docSlipped \/ row[d] # [c EXCEPT !.aged = row[d].aged])
        /\ Go(r, [op |-> "count", bytes |-> 0 - c.size])
  /\ UNCHANGED <<object, storageBytes>>

(* softDelete() saves by id; the bytes are given back by the copy's account.   *)
DeleteDocument(r) ==
  /\ docTask[r].op = "bin"
  /\ LET d == docTask[r].doc
         c == docTask[r].copy
     IN /\ d \in Rows
        /\ row' = [row EXCEPT ![d].bin = "recent"]
        /\ docSlipped' = (docSlipped \/ row[d] # [c EXCEPT !.aged = row[d].aged])
        /\ Go(r, IF c.status = "ready" THEN [op |-> "count", bytes |-> 0 - c.size]
                                          ELSE NoDocTask)
  /\ UNCHANGED <<object, storageBytes>>

(* restoreItem refuses what is past the window, restoreDocument what is not    *)
(* ready, assertStorageAvailable what does not fit.                            *)
FindForRestore(r, d) ==
  /\ Resting(r)
  /\ d \in Rows
  /\ row[d].bin = "recent" /\ row[d].status = "ready"
  /\ HasRoomFor(row[d].size)
  /\ Go(r, [op |-> "restore", doc |-> d, copy |-> row[d]])
  /\ UNCHANGED <<row, object, storageBytes, docSlipped>>

RestoreDocument(r) ==
  /\ docTask[r].op = "restore"
  /\ LET d == docTask[r].doc
         c == docTask[r].copy
     IN /\ d \in Rows
        /\ row' = [row EXCEPT ![d].bin = "no"]
        /\ docSlipped' = (docSlipped \/ row[d] # [c EXCEPT !.aged = row[d].aged])
        /\ Go(r, [op |-> "count", bytes |-> c.size])
  /\ UNCHANGED <<object, storageBytes>>

ListForPurge(r) ==
  /\ Resting(r)
  /\ LET expired == {d \in Rows : row[d].bin = "old"}
     IN expired # {} /\ Go(r, [op |-> "purge", left |-> expired, listed |-> expired])
  /\ UNCHANGED <<row, object, storageBytes, docSlipped>>

PurgeObject(r, d) ==
  /\ docTask[r].op = "purge"
  /\ d \in docTask[r].left
  /\ object' = [object EXCEPT ![d] = Absent]
  /\ docSlipped' = (docSlipped \/ d \notin Rows \/ row[d].bin # "old")
  /\ docTask' = [docTask EXCEPT ![r].left = @ \ {d}]
  /\ UNCHANGED <<row, storageBytes>>

(* Mutant: the rows may go before their objects.                               *)
PurgeRowsFirst(r) ==
  /\ docTask[r].op = "purge"
  /\ row' = [d \in Docs |-> IF /\ d \in docTask[r].listed \cap Rows
                               /\ row[d].bin = "old"
                            THEN Purged ELSE row[d]]
  /\ Keep(r, <<object, storageBytes, docSlipped>>)

PurgeRows(r) ==
  /\ docTask[r].op = "purge"
  /\ docTask[r].left = {}
  /\ row' = [d \in Docs |-> IF /\ d \in docTask[r].listed \cap Rows
                               /\ row[d].bin = "old"
                            THEN Purged ELSE row[d]]
  /\ Keep(r, <<object, storageBytes, docSlipped>>)

-------------------------------------------------------------------------------
(* The sweep of uploads reserved and never confirmed.                          *)

ListAbandoned(r) ==
  /\ Resting(r)
  /\ LET stale == {d \in Undeleted : row[d].status = "pending" /\ row[d].aged}
     IN stale # {} /\ Go(r, [op |-> "sweep", left |-> stale, doc |-> Absent])
  /\ UNCHANGED <<row, object, storageBytes, docSlipped>>

SweepObject(r, d) ==
  /\ docTask[r].op = "sweep"
  /\ d \in docTask[r].left
  /\ object' = [object EXCEPT ![d] = Absent]
  /\ docSlipped' = (docSlipped \/ d \notin Undeleted \/ row[d].status # "pending")
  /\ Go(r, [op |-> "sweepRow", left |-> docTask[r].left \ {d}, doc |-> d])
  /\ UNCHANGED <<row, storageBytes>>

SweepRow(r) ==
  /\ docTask[r].op = "sweepRow"
  /\ LET d == docTask[r].doc
     IN /\ d \in Rows
        /\ row' = [row EXCEPT ![d].bin = "recent"]
        /\ docSlipped' = (docSlipped \/ row[d].status # "pending")
        /\ Go(r, IF docTask[r].left = {} THEN NoDocTask
                    ELSE [op |-> "sweep", left |-> docTask[r].left, doc |-> Absent])
  /\ UNCHANGED <<object, storageBytes>>

-------------------------------------------------------------------------------
(* Time passes; a request is refused, or fails between two calls.              *)

Age(d) ==
  /\ d \in Rows
  /\ \/ ~row[d].aged /\ row' = [row EXCEPT ![d].aged = TRUE]
     \/ /\ row[d].aged /\ row[d].bin = "recent"
        /\ \A r \in DocRequests : docTask[r].op # "purge"   \* none lasts a day
        /\ row' = [row EXCEPT ![d].bin = "old"]
  /\ UNCHANGED <<object, storageBytes, docTask, docSlipped>>

DocTaskEnds(r) ==
  /\ ~Resting(r)
  /\ docSlipped' = (docSlipped \/ docTask[r].op = "count")
  /\ Keep(r, <<row, object, storageBytes>>)

DocumentsNext ==
  \/ \E r \in DocRequests :
       \/ HeadObject(r) \/ ReadHead(r) \/ ConfirmUpload(r) \/ Reject(r) \/ DropRejected(r)
       \/ AddStorageBytes(r) \/ DeleteDocument(r) \/ RestoreDocument(r)
       \/ ListForPurge(r) \/ PurgeRows(r) \/ ListAbandoned(r) \/ SweepRow(r) \/ DocTaskEnds(r)
       \/ \E d \in Docs : \/ FindForConfirm(r, d) \/ FindForDelete(r, d) \/ FindForRestore(r, d)
                          \/ PurgeObject(r, d) \/ SweepObject(r, d)
  \/ \E d \in Docs : \/ Age(d)
                     \/ \E f \in Files : Upload(d, f) \/ PresignUpload(d, f.size)

DocumentsSpec == DocumentsInit /\ [][DocumentsNext]_documentVars

-------------------------------------------------------------------------------
(* "The other order would leave objects no row points to"                      *)
(* (document.service.ts:203): whatever overlaps and wherever a task dies,      *)
(* every object in storage has a row.                                          *)
NoOrphanObjects == \A d \in Docs : object[d] # Absent => d \in Rows

(* When nothing is under way, the bytes counted are those of the files that    *)
(* can be downloaded, and each of these is there to download, as long as no    *)
(* request has written from an overtaken read or died half way.                *)
LedgerAgrees ==
  (~docSlipped /\ \A r \in DocRequests : Resting(r)) =>
     /\ storageBytes = Total(Ready, [d \in Ready |-> row[d].size])
     /\ \A d \in Ready : object[d] # Absent

=============================================================================
