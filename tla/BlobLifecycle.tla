---------------------------- MODULE BlobLifecycle ----------------------------
(***************************************************************************)
(* The raw files of documents: bytes in a blob store without transactions, *)
(* rows in PostgreSQL.  A request stores the bytes under a new key before  *)
(* it commits the row that points to them, and deletes them again when the *)
(* commit fails; a deletion commits first and deletes the bytes after.     *)
(* Files that could not be deleted become cleanup tasks, which cleaners    *)
(* hold for five minutes while they try again.                             *)
(*                                                                         *)
(* Time is abstracted: a task is due, held by a cleaner, or waits after a  *)
(* failure.  Keys are random, so each is used once.                        *)
(***************************************************************************)
EXTENDS Naturals, FiniteSets

CONSTANTS
  Requests,        \* concurrent imports, uploads and deletions
  Cleaners,        \* runs of cleanup-blobs
  Docs, Keys,
  NoDoc, NoKey,    \* sentinels
  CleanupLimit,    \* how many tasks one cleanup takes
  MaxMishaps       \* bound on crashes and failures of store and database

ASSUME BlobAssumption ==
  /\ NoDoc \notin Docs /\ NoKey \notin Keys
  /\ CleanupLimit \in Nat \ {0}
  /\ MaxMishaps \in Nat

VARIABLES
  document,        \* "absent", "stored" or "deleted"
  asset,           \* document_assets: the key of a document's file, or NoKey
  file,            \* the blob store: "none", "stored" or "deleted"
  task,            \* blob_cleanup_tasks: "none", "due", "held" or "waiting"
  request,         \* what each request is doing
  cleaner,         \* what each cleanup run has in hand
  mishaps,         \* how much of MaxMishaps is used
  unanswered       \* commits that took place although they raised

blobVars == <<document, asset, file, task, request, cleaner, mishaps, unanswered>>

NoRequest == [pc |-> "idle", doc |-> NoDoc, key |-> NoKey]
NoCleanup == [todo |-> {}, gone |-> NoKey]

Pending(r, pc, d, k) == request' = [request EXCEPT ![r] = [pc |-> pc, doc |-> d, key |-> k]]
Done(r) == request' = [request EXCEPT ![r] = NoRequest]
Becomes(r, pc) == request' = [request EXCEPT ![r].pc = pc]

InHand(k) == \E r \in Requests : request[r].key = k
InUse(k) == \E d \in Docs : asset[d] = k
Unused(k) == file[k] = "none" /\ ~InHand(k)

Mishap == mishaps < MaxMishaps /\ mishaps' = mishaps + 1
NoMishap == UNCHANGED mishaps
-----------------------------------------------------------------------------

BlobInit ==
  /\ document = [d \in Docs |-> "absent"]
  /\ asset = [d \in Docs |-> NoKey]
  /\ file = [k \in Keys |-> "none"]
  /\ task = [k \in Keys |-> "none"]
  /\ request = [r \in Requests |-> NoRequest]
  /\ cleaner = [c \in Cleaners |-> NoCleanup]
  /\ mishaps = 0
  /\ unanswered = 0

(* DocumentService.create: a document without a file. *)
Create(d) ==
  /\ document[d] = "absent"
  /\ document' = [document EXCEPT ![d] = "stored"]
  /\ UNCHANGED <<asset, file, task, request, cleaner, mishaps, unanswered>>

(* import_file has no document yet; attach has checked, without a lock,    *)
(* that its document exists and has no file.                               *)
Begin(r, k) ==
  /\ request[r] = NoRequest /\ Unused(k)
  /\ \/ Pending(r, "put", NoDoc, k)
     \/ \E d \in Docs : /\ document[d] = "stored" /\ asset[d] = NoKey
                        /\ Pending(r, "put", d, k)
  /\ UNCHANGED <<document, asset, file, task, cleaner, mishaps, unanswered>>

(* stored_blob: the bytes appear as a whole or, on an error, not at all.   *)
Put(r) ==
  /\ request[r].pc = "put"
  /\ \/ file' = [file EXCEPT ![request[r].key] = "stored"] /\ Becomes(r, "stored")
     \/ UNCHANGED file /\ Done(r)
  /\ UNCHANGED <<document, asset, task, cleaner, mishaps, unanswered>>

(* The row that points to the bytes: of a new document or of d. *)
RowsSaved(r) ==
  \E d \in Docs :
    /\ IF request[r].doc = NoDoc THEN document[d] = "absent"
       ELSE d = request[r].doc /\ document[d] = "stored" /\ asset[d] = NoKey
    /\ document' = [document EXCEPT ![d] = "stored"]
    /\ asset' = [asset EXCEPT ![d] = request[r].key]

CommitFile(r) ==
  /\ request[r].pc = "stored"
  /\ RowsSaved(r)
  /\ Done(r)
  /\ UNCHANGED <<file, task, cleaner, mishaps, unanswered>>

(* The document went or got a file meanwhile, or the database fails. *)
CommitFileFails(r) ==
  LET d == request[r].doc IN
  /\ request[r].pc = "stored"
  /\ IF d # NoDoc /\ (document[d] # "stored" \/ asset[d] # NoKey) THEN NoMishap ELSE Mishap
  /\ Becomes(r, "remove")
  /\ UNCHANGED <<document, asset, file, task, cleaner, unanswered>>

(* The database commits, but the connection is lost before it says so. *)
CommitFileUnanswered(r) ==
  /\ request[r].pc = "stored"
  /\ RowsSaved(r)
  /\ Mishap /\ unanswered' = unanswered + 1
  /\ Becomes(r, "remove")
  /\ UNCHANGED <<file, task, cleaner>>

(* DocumentService.delete reads the asset first... *)
BeginDelete(r, d) ==
  /\ request[r] = NoRequest /\ document[d] = "stored"
  /\ Pending(r, "delete", d, asset[d])
  /\ UNCHANGED <<document, asset, file, task, cleaner, mishaps, unanswered>>

(* Mutant: the file is deleted before the commit. *)
CommitDeleteFileFirst(r) ==
  LET d == request[r].doc
      k == request[r].key
  IN
  /\ request[r].pc = "delete"
  /\ document[d] = "stored" /\ asset[d] = k /\ k # NoKey
  /\ file' = [file EXCEPT ![k] = "deleted"]
  /\ \/ /\ document' = [document EXCEPT ![d] = "deleted"]
        /\ asset' = [asset EXCEPT ![d] = NoKey]
        /\ NoMishap
     \/ Mishap /\ UNCHANGED <<document, asset>>
  /\ Done(r)
  /\ UNCHANGED <<task, cleaner, unanswered>>

(* ... deletes the rows it knows, and the file only after the commit. *)
CommitDelete(r) ==
  LET d == request[r].doc
      k == request[r].key
  IN
  /\ request[r].pc = "delete"
  /\ document[d] = "stored" /\ asset[d] = k
  /\ document' = [document EXCEPT ![d] = "deleted"]
  /\ asset' = [asset EXCEPT ![d] = NoKey]
  /\ IF k = NoKey THEN Done(r) ELSE Becomes(r, "remove")
  /\ UNCHANGED <<file, task, cleaner, mishaps, unanswered>>

(* Somebody else deleted it (NotFoundError), a file was attached after the *)
(* read (RESTRICT), or the database fails.                                 *)
CommitDeleteFails(r) ==
  LET d == request[r].doc IN
  /\ request[r].pc = "delete"
  /\ IF document[d] # "stored" \/ asset[d] # request[r].key THEN NoMishap ELSE Mishap
  /\ Done(r)
  /\ UNCHANGED <<document, asset, file, task, cleaner, unanswered>>

CommitDeleteUnanswered(r) ==
  LET d == request[r].doc IN
  /\ request[r].pc = "delete"
  /\ document[d] = "stored" /\ asset[d] = request[r].key
  /\ document' = [document EXCEPT ![d] = "deleted"]
  /\ asset' = [asset EXCEPT ![d] = NoKey]
  /\ Mishap /\ unanswered' = unanswered + 1
  /\ Done(r)
  /\ UNCHANGED <<file, task, cleaner>>

(* _remove and _delete_blob: deleting a missing file is no error. *)
RemoveFile(r) ==
  LET k == request[r].key IN
  /\ request[r].pc = "remove"
  /\ \/ file' = [file EXCEPT ![k] = "deleted"] /\ Done(r) /\ NoMishap
     \/ UNCHANGED file /\ Becomes(r, "track") /\ Mishap
  /\ UNCHANGED <<document, asset, task, cleaner, unanswered>>

(* The cleanup task of a file that could not be deleted.  The failure to   *)
(* save it is only logged.                                                 *)
Track(r) ==
  LET k == request[r].key IN
  /\ request[r].pc = "track"
  /\ \/ task' = [task EXCEPT ![k] = IF @ = "none" THEN "due" ELSE @] /\ NoMishap
     \/ UNCHANGED task /\ Mishap
  /\ Done(r)
  /\ UNCHANGED <<document, asset, file, cleaner, unanswered>>

CrashRequest(r) ==
  /\ request[r] # NoRequest
  /\ Mishap
  /\ Done(r)
  /\ UNCHANGED <<document, asset, file, task, cleaner, unanswered>>
-----------------------------------------------------------------------------

(* A cleanup takes the next tasks that are due. *)
ClaimDue(c, S) ==
  /\ cleaner[c] = NoCleanup
  /\ S # {} /\ Cardinality(S) <= CleanupLimit
  /\ \A k \in S : task[k] = "due"
  /\ task' = [k \in Keys |-> IF k \in S THEN "held" ELSE task[k]]
  /\ cleaner' = [cleaner EXCEPT ![c].todo = S]
  /\ UNCHANGED <<document, asset, file, request, mishaps, unanswered>>

(* _clean: the file first.  A failure moves a task that still exists to    *)
(* its next try.                                                           *)
CleanFile(c, k) ==
  /\ cleaner[c].gone = NoKey /\ k \in cleaner[c].todo
  /\ \/ /\ file' = [file EXCEPT ![k] = "deleted"]
        /\ cleaner' = [cleaner EXCEPT ![c].gone = k]
        /\ UNCHANGED task /\ NoMishap
     \/ /\ task' = [task EXCEPT ![k] = IF @ = "none" THEN "none" ELSE "waiting"]
        /\ cleaner' = [cleaner EXCEPT ![c].todo = @ \ {k}]
        /\ UNCHANGED file /\ Mishap
  /\ UNCHANGED <<document, asset, request, unanswered>>

(* ... and then its task, in a transaction of its own. *)
ForgetTask(c) ==
  LET k == cleaner[c].gone IN
  /\ k # NoKey
  /\ task' = [task EXCEPT ![k] = "none"]
  /\ cleaner' = [cleaner EXCEPT ![c] = [todo |-> @.todo \ {k}, gone |-> NoKey]]
  /\ UNCHANGED <<document, asset, file, request, mishaps, unanswered>>

CrashCleaner(c) ==
  /\ cleaner[c] # NoCleanup
  /\ Mishap
  /\ cleaner' = [cleaner EXCEPT ![c] = NoCleanup]
  /\ UNCHANGED <<document, asset, file, task, request, unanswered>>

(* Mutant: a held task waits for the cleaner that holds it. *)
TaskDueAfterFailure(k) ==
  /\ task[k] = "waiting"
  /\ task' = [task EXCEPT ![k] = "due"]
  /\ UNCHANGED <<document, asset, file, request, cleaner, mishaps, unanswered>>

(* The hold of a task, or the delay after a failure, is over.  The cleaner *)
(* that held it may still be at work.                                      *)
TaskDue(k) ==
  /\ task[k] \in {"held", "waiting"}
  /\ task' = [task EXCEPT ![k] = "due"]
  /\ UNCHANGED <<document, asset, file, request, cleaner, mishaps, unanswered>>
-----------------------------------------------------------------------------

RequestStep(r) ==
  \/ \E k \in Keys : Begin(r, k)
  \/ Put(r)
  \/ CommitFile(r)
  \/ CommitFileFails(r)
  \/ CommitFileUnanswered(r)
  \/ \E d \in Docs : BeginDelete(r, d)
  \/ CommitDelete(r)
  \/ CommitDeleteFails(r)
  \/ CommitDeleteUnanswered(r)
  \/ RemoveFile(r)
  \/ Track(r)
  \/ CrashRequest(r)

CleanerStep(c) ==
  \/ \E S \in SUBSET Keys : ClaimDue(c, S)
  \/ \E k \in Keys : CleanFile(c, k)
  \/ ForgetTask(c)
  \/ CrashCleaner(c)

BlobStep ==
  \/ \E d \in Docs : Create(d)
  \/ \E r \in Requests : RequestStep(r)
  \/ \E c \in Cleaners : CleanerStep(c)
  \/ \E k \in Keys : TaskDue(k)

BlobSpec == BlobInit /\ [][BlobStep]_blobVars

(* cleanup-blobs is run again and again and takes the oldest task first,   *)
(* and time passes; requests may stop anywhere.                            *)
BlobFairness ==
  /\ \A c \in Cleaners :
       /\ WF_blobVars(\E S \in SUBSET Keys : ClaimDue(c, S))
       /\ WF_blobVars(\E k \in Keys : CleanFile(c, k))
       /\ WF_blobVars(ForgetTask(c))
  /\ \A k \in Keys : WF_blobVars(TaskDue(k))

FairBlobSpec == BlobSpec /\ BlobFairness
-----------------------------------------------------------------------------

(* The variables hold values of the kinds the tables and requests keep. *)
BlobTypeOK ==
  /\ document \in [Docs -> {"absent", "stored", "deleted"}]
  /\ asset \in [Docs -> Keys \cup {NoKey}]
  /\ file \in [Keys -> {"none", "stored", "deleted"}]
  /\ task \in [Keys -> {"none", "due", "held", "waiting"}]
  /\ request \in [Requests ->
       [pc: {"idle", "put", "stored", "delete", "remove", "track"},
        doc: Docs \cup {NoDoc}, key: Keys \cup {NoKey}]]
  /\ cleaner \in [Cleaners -> [todo: SUBSET Keys, gone: Keys \cup {NoKey}]]
  /\ mishaps \in 0..MaxMishaps
  /\ unanswered \in 0..mishaps

(* A row only points to a missing file when a commit went unanswered: no   *)
(* race of uploads, deletions and cleanups deletes a file in use.          *)
MissingFilesHaveACause ==
  Cardinality({d \in Docs : asset[d] # NoKey /\ file[asset[d]] # "stored"}) <= unanswered

(* A file that nobody points to, works on or remembers for cleanup was     *)
(* lost to a crash or a failure, one for each at most: the ordinary losers *)
(* of a race (a second upload, a document deleted meanwhile) leave nothing.*)
LeaksHaveACause ==
  Cardinality({k \in Keys : /\ file[k] = "stored" /\ ~InUse(k)
                            /\ ~InHand(k) /\ task[k] = "none"}) <= mishaps

(* Rows and files agree, but for one named cause each.                     *)
FilesAgree == BlobTypeOK /\ MissingFilesHaveACause /\ LeaksHaveACause

(* Every task is done in the end, and it is done only when the file is     *)
(* gone: failures, crashes and holds that run out only delay it.           *)
TrackedFilesAreDeleted ==
  \A k \in Keys : task[k] # "none" ~> task[k] = "none" /\ file[k] = "deleted"
=============================================================================
