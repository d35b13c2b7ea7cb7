-------------------------- MODULE AttachmentCleanup --------------------------
(***************************************************************************)
(* The files of one collaboration task (attachment_upload.go,              *)
(* attachment_delete.go): an upload that crosses a change of the task, and *)
(* a deletion that is written down first and carried out afterwards, by    *)
(* the request itself or by the job of any process; and the file service's *)
(* own DELETE /files/:id, which asks no task.  Objects and file rows lie   *)
(* behind the file service, outside the task's transaction; an attachment  *)
(* is deleted with its file row (ON DELETE CASCADE of migration 000013).   *)
(* A commit that reports an error is taken not to have happened.           *)
(***************************************************************************)
EXTENDS Naturals, FiniteSets

CONSTANTS
  Files, Cleaners, None,
  MaxSwings, MaxMishaps     \* bounds: changes of the task, failures and crashes

ASSUME CleanupAssumption == MaxSwings \in Nat /\ MaxMishaps \in Nat

VARIABLES
  mutable,          \* what ensureMutable says of the task and the uploader
  upload,           \* the request that uploads each file: idle, stored, over
  object, meta,     \* the object in the storage, the row of the file service
  attached,         \* task_attachments
  deletion,         \* task_file_deletions: none, pending, completed
  purge,            \* a DELETE of the file itself: none, begun, broken off
  cleaner,          \* the file each cleaner works on, and how far it is
  swings, mishaps

fileVars == <<mutable, upload, object, meta, attached, deletion, purge, cleaner, swings, mishaps>>
storage == <<object, meta>>

Resting == [file |-> None, pc |-> "idle"]

FileInit ==
  /\ mutable = TRUE /\ upload = [f \in Files |-> "idle"]
  /\ object = {} /\ meta = {} /\ attached = {}
  /\ deletion = [f \in Files |-> "none"] /\ purge = deletion /\ cleaner = [x \in Cleaners |-> Resting]
  /\ swings = 0 /\ mishaps = 0

Mishap == mishaps < MaxMishaps /\ mishaps' = mishaps + 1

\* The task moves on to review, comes back, or changes hands.
Swing ==
  /\ swings < MaxSwings /\ swings' = swings + 1 /\ mutable' = ~mutable
  /\ UNCHANGED <<upload, storage, attached, deletion, cleaner, mishaps, purge>>

(* UploadAttachment *)
StoreUpload(f) ==
  /\ mutable /\ upload[f] = "idle" /\ upload' = [upload EXCEPT ![f] = "stored"]
  /\ object' = object \cup {f} /\ meta' = meta \cup {f}
  /\ UNCHANGED <<mutable, attached, deletion, cleaner, swings, mishaps, purge>>

\* The second look at the task, under its lock; the attachment refers to the row.
Attach(f) ==
  /\ upload[f] = "stored" /\ mutable /\ f \in meta
  /\ upload' = [upload EXCEPT ![f] = "over"] /\ attached' = attached \cup {f}
  /\ UNCHANGED <<mutable, storage, deletion, cleaner, swings, mishaps, purge>>

\* Refused or failed: the upload is removed again, unless that fails as well.
Withdraw(f) ==
  /\ upload[f] = "stored" /\ upload' = [upload EXCEPT ![f] = "over"]
  /\ \/ (~mutable \/ f \notin meta) /\ UNCHANGED mishaps
     \/ Mishap
  /\ object' = object \ {f} /\ meta' = meta \ {f}
  /\ UNCHANGED <<mutable, attached, deletion, cleaner, swings, purge>>

\* A crash, or a clean-up that fails: the row stays without a task, its object
\* with it or not.
Forget(f) ==
  /\ upload[f] = "stored" /\ upload' = [upload EXCEPT ![f] = "over"] /\ Mishap
  /\ object' \in {object, object \ {f}}
  /\ UNCHANGED <<mutable, meta, attached, deletion, cleaner, swings, purge>>

(* DeleteAttachment *)
\* Faulty: the request is written down, the attachment stays listed.
RequestKeepingRow(f) ==
  /\ mutable /\ f \in attached /\ deletion[f] = "none"
  /\ deletion' = [deletion EXCEPT ![f] = "pending"]
  /\ UNCHANGED <<mutable, upload, storage, attached, cleaner, swings, mishaps, purge>>

RequestDeletion(f) ==
  /\ mutable /\ f \in attached /\ deletion[f] = "none"
  /\ deletion' = [deletion EXCEPT ![f] = "pending"] /\ attached' = attached \ {f}
  /\ UNCHANGED <<mutable, upload, storage, cleaner, swings, mishaps, purge>>

(* deleteStoredAttachment, by the requester or by the job *)
Is(x, pc) == cleaner[x].pc = pc
GoesOn(x, f, pc) == cleaner' = [cleaner EXCEPT ![x] = [file |-> f, pc |-> pc]]
Rests(x) == cleaner' = [cleaner EXCEPT ![x] = Resting]
Locked(f) == \E x \in Cleaners : cleaner[x].file = f /\ ~Is(x, "listed")

\* ProcessAttachmentDeletions lists the pending requests.
ListPending(x, f) ==
  /\ Is(x, "idle") /\ deletion[f] = "pending" /\ GoesOn(x, f, "listed")
  /\ UNCHANGED <<mutable, upload, storage, attached, deletion, swings, mishaps, purge>>

\* cleanup.Lock, and the status is read again under the lock.
LockRequest(x) ==
  LET f == cleaner[x].file IN
  /\ Is(x, "listed") /\ ~Locked(f)
  /\ IF deletion[f] = "completed" THEN Rests(x) ELSE GoesOn(x, f, "locked")
  /\ UNCHANGED <<mutable, upload, storage, attached, deletion, swings, mishaps, purge>>

\* Faulty: a file row that is gone already is a failure.
DeleteOnlyWhatIsThere(x) ==
  LET f == cleaner[x].file IN
  /\ Is(x, "locked") /\ f \in meta
  /\ object' = object \ {f} /\ meta' = meta \ {f} /\ GoesOn(x, f, "deleted")
  /\ UNCHANGED <<mutable, upload, attached, deletion, swings, mishaps, purge>>

\* bridge.Delete: first the object, then the row; NotFound counts as done.
DeleteStored(x) ==
  LET f == cleaner[x].file IN
  /\ Is(x, "locked") /\ object' = object \ {f} /\ meta' = meta \ {f} /\ GoesOn(x, f, "deleted")
  /\ UNCHANGED <<mutable, upload, attached, deletion, swings, mishaps, purge>>

\* It fails before anything happened or with only the object deleted: the
\* attempt is saved and the request stays pending.
DeleteFails(x) ==
  LET f == cleaner[x].file IN
  /\ Is(x, "locked") /\ Mishap /\ object' \in {object, object \ {f}}
  /\ Rests(x) /\ UNCHANGED <<mutable, upload, meta, attached, deletion, swings, purge>>

Complete(x) ==
  LET f == cleaner[x].file IN
  /\ Is(x, "deleted") /\ deletion' = [deletion EXCEPT ![f] = "completed"] /\ Rests(x)
  /\ UNCHANGED <<mutable, upload, storage, attached, swings, mishaps, purge>>

\* A crash or a failed save rolls the request back, not the store.
CleanerDies(x) ==
  /\ ~Is(x, "idle") /\ Mishap /\ Rests(x)
  /\ UNCHANGED <<mutable, upload, storage, attached, deletion, swings, purge>>

(* fileService.Delete, asked for by the uploader or a holder of file:delete *)
PurgeObject(f) ==
  /\ f \in meta /\ purge[f] # "begun" /\ purge' = [purge EXCEPT ![f] = "begun"]
  /\ object' = object \ {f}
  /\ UNCHANGED <<mutable, upload, meta, attached, deletion, cleaner, swings, mishaps>>

\* The row goes, and an attachment of it with it.
PurgeRow(f) ==
  /\ purge[f] = "begun" /\ purge' = [purge EXCEPT ![f] = "none"]
  /\ meta' = meta \ {f} /\ attached' = attached \ {f}
  /\ UNCHANGED <<mutable, upload, object, deletion, cleaner, swings, mishaps>>

\* A crash, or the row cannot be deleted: the object is gone, the row is not.
PurgeBreaks(f) ==
  /\ purge[f] = "begun" /\ purge' = [purge EXCEPT ![f] = "broken"] /\ Mishap
  /\ UNCHANGED <<mutable, upload, storage, attached, deletion, cleaner, swings>>

Purges(f) == PurgeObject(f) \/ PurgeRow(f) \/ PurgeBreaks(f)

Cleans(x) == LockRequest(x) \/ DeleteStored(x) \/ Complete(x)

FileNext ==
  \/ Swing
  \/ \E f \in Files : StoreUpload(f) \/ Attach(f) \/ Withdraw(f) \/ Forget(f) \/ RequestDeletion(f) \/ Purges(f)
  \/ \E x \in Cleaners : (\E f \in Files : ListPending(x, f))
                         \/ Cleans(x) \/ DeleteFails(x) \/ CleanerDies(x)

FileSpec == FileInit /\ [][FileNext]_fileVars

-----------------------------------------------------------------------------
(* Properties.                                                             *)

FileTypeOK ==
  /\ mutable \in BOOLEAN /\ upload \in [Files -> {"idle", "stored", "over"}]
  /\ object \subseteq Files /\ meta \subseteq Files /\ attached \subseteq Files
  /\ deletion \in [Files -> {"none", "pending", "completed"}]
  /\ purge \in [Files -> {"none", "begun", "broken"}]
  /\ cleaner \in [Cleaners -> [file : Files \cup {None}, pc : {"idle", "listed", "locked", "deleted"}]]
  /\ swings \in 0..MaxSwings /\ mishaps \in 0..MaxMishaps

\* What a task lists has its file row, and can be downloaded unless somebody is
\* just deleting the file itself, or broke off doing so (query.go deletes the
\* object first); a deletion of the file carried to its end leaves no listing
\* behind.  What is reported deleted is gone (attachment_delete.go: "the durable
\* job is committed before touching object storage").
ListedFilesExist ==
  /\ FileTypeOK
  /\ \A f \in attached : f \in meta /\ (f \in object \/ purge[f] # "none")
  /\ \A f \in Files : deletion[f] = "completed" => f \notin object \cup meta \cup attached

\* A deletion once recorded is carried out ("retrying after either an
\* object-delete or database failure is safe, including after restart").
RecordedDeletionIsDone == \A f \in Files : deletion[f] = "pending" ~> deletion[f] = "completed"
=============================================================================
