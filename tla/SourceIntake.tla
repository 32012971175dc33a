---------------------------- MODULE SourceIntake ----------------------------
(***************************************************************************)
(* createSourceFileImportJob (apps/worker/src/source-intake*.ts): the      *)
(* route that uploads, the mail handler and the ingest API all call it to  *)
(* keep a file in R2, its row and its job in D1, and a message in the      *)
(* queue.  R2, D1 and the queue share no transaction, so the calls below   *)
(* are awaited one by one and any number of uploads of the same bytes may  *)
(* be between them.  The row, the job and the object of an upload carry    *)
(* ids made for it, so the upload itself stands for them.                  *)
(***************************************************************************)
EXTENDS FiniteSets

CONSTANTS Uploads,   \* calls of createSourceFileImportJob
          Contents,  \* workspace and content hash of a file
          Content,   \* what each upload uploads
          Faults     \* the faults the environment may produce

FaultKind ==
  {"database",      \* the D1 batch throws and nothing was written
   "batch_unknown", \* the D1 batch throws after it was written
   "storage",       \* an R2 call throws, with its effect or without
   "send",          \* IMPORT_JOBS.send throws and nothing was enqueued
   "send_unknown",  \* IMPORT_JOBS.send throws after the message was enqueued
   "crash"}         \* the isolate is evicted between two awaits

ASSUME IntakeAssumption ==
  /\ Content \in [Uploads -> Contents]
  /\ Faults \subseteq FaultKind

VARIABLES
  objects,      \* SOURCE_FILES: the uploads whose object is stored
  sourceFiles,  \* source_files: the uploads that have a row
  jobStatus,    \* import_jobs.status of each upload's job as intake writes it, "none"
                \* without a row; what a consumer makes of it is ImportJob's part
  sent,         \* the uploads whose job was put in the queue
  pc,           \* the control state of each upload
  answer        \* what its caller was told

intakeVars == <<objects, sourceFiles, jobStatus, sent, pc, answer>>

-----------------------------------------------------------------------------
Pc == {"idle", "put", "insert", "cleanup", "send", "fail", "done"}

Answer == {"none", "unsupported", "duplicate", "queued", "dispatch_failed", "error", "lost"}

Init ==
  /\ objects = {}
  /\ sourceFiles = {}
  /\ jobStatus = [u \in Uploads |-> "none"]
  /\ sent = {}
  /\ pc = [u \in Uploads |-> "idle"]
  /\ answer = [u \in Uploads |-> "none"]

Step(u, from, to) ==
  /\ pc[u] = from
  /\ pc' = [pc EXCEPT ![u] = to]
  /\ UNCHANGED answer

Finish(u, from, result) ==
  /\ pc[u] = from
  /\ pc' = [pc EXCEPT ![u] = "done"]
  /\ answer' = [answer EXCEPT ![u] = result]

\* Mutant: rows are compared by the id of the upload, not by content.
SameUpload(u) == {v \in sourceFiles : v = u}

\* The rows the unique index on (workspace_id, content_hash) compares u with.
SameContent(u) == {v \in sourceFiles : Content[v] = Content[u]}

\* selectImportAdapter finds no adapter: 415.
RejectUnsupported(u) ==
  /\ Finish(u, "idle", "unsupported")
  /\ UNCHANGED <<objects, sourceFiles, jobStatus, sent>>

\* Mutant: the object is stored before the duplicate is looked for.
PutThenFindDuplicate(u) ==
  /\ IF SameContent(u) # {} THEN Finish(u, "idle", "duplicate") ELSE Step(u, "idle", "insert")
  /\ objects' = objects \cup {u}
  /\ UNCHANGED <<sourceFiles, jobStatus, sent>>

\* An earlier row with the content is answered with its job, whatever became
\* of that job.
FindDuplicateSourceFile(u) ==
  /\ IF SameContent(u) # {} THEN Finish(u, "idle", "duplicate") ELSE Step(u, "idle", "put")
  /\ UNCHANGED <<objects, sourceFiles, jobStatus, sent>>

PutObject(u) ==
  /\ Step(u, "put", "insert")
  /\ objects' = objects \cup {u}
  /\ UNCHANGED <<sourceFiles, jobStatus, sent>>

InsertRows(u) ==
  /\ sourceFiles' = sourceFiles \cup {u}
  /\ jobStatus' = [jobStatus EXCEPT ![u] = "queued"]

\* One batch: the source file row and its queued job.
InsertSourceFileImportJob(u) ==
  /\ SameContent(u) = {}
  /\ Step(u, "insert", "send")
  /\ InsertRows(u)
  /\ UNCHANGED <<objects, sent>>

\* The batch throws: another upload of the content was first, or the database
\* failed, with the rows written or not.
InsertThrows(u) ==
  /\ Step(u, "insert", "cleanup")
  /\ \/ SameContent(u) # {} /\ UNCHANGED <<sourceFiles, jobStatus>>
     \/ "database" \in Faults /\ UNCHANGED <<sourceFiles, jobStatus>>
     \/ "batch_unknown" \in Faults /\ SameContent(u) = {} /\ InsertRows(u)
  /\ UNCHANGED <<objects, sent>>

\* Mutant: an object key made from the content.
ObjectsOfContent(u) == {v \in Uploads : Content[v] = Content[u]}

\* buildSourceFileKey: the key holds the source file id made for this upload.
OwnObject(u) == {u}

\* The catch of persistSourceFileImportJob; the error is thrown on.
DeleteObject(u) ==
  /\ Finish(u, "cleanup", "error")
  /\ objects' = objects \ OwnObject(u)
  /\ UNCHANGED <<sourceFiles, jobStatus, sent>>

SendMessage(u) ==
  /\ Finish(u, "send", "queued")
  /\ sent' = sent \cup {u}
  /\ UNCHANGED <<objects, sourceFiles, jobStatus>>

\* Mutant: the failure is swallowed and the job reported as queued.
IgnoreSendFailure(u) ==
  /\ "send" \in Faults
  /\ Finish(u, "send", "queued")
  /\ UNCHANGED <<objects, sourceFiles, jobStatus, sent>>

SendThrows(u) ==
  /\ Step(u, "send", "fail")
  /\ \/ "send" \in Faults /\ UNCHANGED sent
     \/ "send_unknown" \in Faults /\ sent' = sent \cup {u}
  /\ UNCHANGED <<objects, sourceFiles, jobStatus>>

MarkFailed(u) == jobStatus' = [jobStatus EXCEPT ![u] = "failed"]

\* markImportJobFailed, then 503.
RecordDispatchFailure(u) ==
  /\ Finish(u, "fail", "dispatch_failed")
  /\ MarkFailed(u)
  /\ UNCHANGED <<objects, sourceFiles, sent>>

\* The put or the clean-up's delete throws, where nothing catches it.  (A delete that
\* throws after it took the object ends like DeleteObject.)
StorageThrows(u) ==
  /\ "storage" \in Faults
  /\ \/ Finish(u, "put", "error") /\ objects' \in {objects, objects \cup {u}}
     \/ Finish(u, "cleanup", "error") /\ UNCHANGED objects
  /\ UNCHANGED <<sourceFiles, jobStatus, sent>>

\* The duplicate's read throws, or markImportJobFailed in the catch of the dispatch,
\* written or not.
DatabaseThrows(u) ==
  /\ \/ "database" \in Faults /\ UNCHANGED jobStatus
        /\ (Finish(u, "idle", "error") \/ Finish(u, "fail", "error"))
     \/ "batch_unknown" \in Faults /\ Finish(u, "fail", "error") /\ MarkFailed(u)
  /\ UNCHANGED <<objects, sourceFiles, sent>>

\* The isolate is evicted at an await; the caller sees no response.  (When the last
\* call was made, what is lost is the response to an upload that is over.)
UploadCrashes(u) ==
  /\ "crash" \in Faults
  /\ \E from \in {"put", "insert", "cleanup", "send", "fail"} : Finish(u, from, "lost")
  /\ UNCHANGED <<objects, sourceFiles, jobStatus, sent>>

\* createSourceFileImportJob, from await to await.
UploadStep(u) ==
  \/ RejectUnsupported(u)
  \/ FindDuplicateSourceFile(u)
  \/ PutObject(u)
  \/ InsertSourceFileImportJob(u)
  \/ InsertThrows(u)
  \/ DeleteObject(u)
  \/ SendMessage(u)
  \/ SendThrows(u)
  \/ RecordDispatchFailure(u)
  \/ StorageThrows(u)
  \/ DatabaseThrows(u)
  \/ UploadCrashes(u)

Next == \E u \in Uploads : UploadStep(u)

Spec == Init /\ [][Next]_intakeVars

-----------------------------------------------------------------------------
(* Properties. *)

\* Every object, row and answer belongs to an upload and has one of its values.
TypeOK ==
  /\ objects \subseteq Uploads
  /\ sourceFiles \subseteq Uploads
  /\ jobStatus \in [Uploads -> {"none", "queued", "failed"}]
  /\ sent \subseteq Uploads
  /\ pc \in [Uploads -> Pc]
  /\ answer \in [Uploads -> Answer]

\* However many uploads of the same bytes race, one of them has a source file and
\* a job.
OneSourceFilePerContent ==
  \A u, v \in sourceFiles : Content[u] = Content[v] => u = v

\* The object of every source file is there to be processed: the clean-up of an
\* upload that lost the race never takes the winner's object, and no row precedes
\* its object.  A batch that throws after it was written is the exception.
SourceFileHasObject ==
  \A u \in sourceFiles :
    u \in objects \/ ("batch_unknown" \in Faults /\ answer[u] # "queued")

\* An object without a row is about to get one or to be deleted, or an eviction or
\* an R2 failure left it behind.
StrayObjectIsExplained ==
  \A u \in objects \ sourceFiles :
    \/ pc[u] \in {"insert", "cleanup"}
    \/ answer[u] = "lost"
    \/ "storage" \in Faults /\ answer[u] = "error"

\* What a caller was told is true: "queued" is stored and sent, a duplicate names
\* another upload's file, "dispatch_failed" is a job marked failed that can be retried,
\* also when its message was enqueued after all.
AnswerIsTrue ==
  \A u \in Uploads :
    /\ answer[u] = "queued" => u \in objects \cap sourceFiles \cap sent
    /\ answer[u] = "duplicate" => SameContent(u) \ {u} # {} /\ u \notin objects
    /\ answer[u] = "dispatch_failed" => u \in sourceFiles /\ jobStatus[u] = "failed"

\* A job left in "queued" by an upload that is over has its message, unless the
\* caller got no answer or an error.
QueuedJobWasSent ==
  \A u \in Uploads :
    jobStatus[u] = "queued" /\ pc[u] = "done" => u \in sent \/ answer[u] \in {"lost", "error"}

\* However uploads race, fail and are evicted, an upload is a few changes of a store
\* without a bucket: its content is stored once and for ever, only an upload without an
\* answer hands out its job or marks it failed, and its answer comes in one step with
\* what it says.
Store == INSTANCE FileStore

ImplementsFileStore == Store!StoreSpec

=============================================================================
