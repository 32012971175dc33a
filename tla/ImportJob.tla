------------------------------ MODULE ImportJob ------------------------------
(***************************************************************************)
(* The life of one import job from its first dispatch to review: the       *)
(* dispatches (the upload that created the job and the retries of a failed *)
(* one), the queue that delivers their messages at least once, and the     *)
(* consumer invocations that run processImportJob                          *)
(* (apps/worker/src/import-job-*.ts, source-intake-dispatch.ts).           *)
(*                                                                         *)
(* Only the start of processing is guarded by the status it expects; the   *)
(* end of staging and every failure write the status whatever it is by     *)
(* then.  The faults a run allows are named in Faults.                     *)
(***************************************************************************)
EXTENDS ImportStatus

CONSTANTS Records,        \* staged record keys the source file parses to
          Consumers,      \* queue consumer invocations that may overlap
          Retries,        \* requests to POST /api/import-jobs/:jobId/retry
          Intake,         \* the upload, whose dispatch follows the job's insert
          Faults,         \* the faults the environment may produce
          MaxDeliveries   \* deliveries of a message before the dead letter queue

FaultKind ==
  {"database",     \* an awaited D1 or R2 call throws; a write may have been done
   "send",         \* IMPORT_JOBS.send throws and nothing was enqueued
   "send_unknown", \* IMPORT_JOBS.send throws after the message was enqueued
   "crash",        \* an isolate is evicted between two awaits
   "source",       \* the R2 object is missing for a time
   "adapter",      \* the deployed worker does not register the adapter
   "unusable"}     \* the adapter throws on the file or produces no record from it

ASSUME JobAssumption ==
  /\ IsFiniteSet(Retries)
  /\ Intake \notin Retries
  /\ Faults \subseteq FaultKind
  /\ MaxDeliveries \in Nat \ {0}

Dispatchers == Retries \cup {Intake}

VARIABLES
  jobStatus,     \* import_jobs.status
  attemptCount,  \* import_jobs.attempt_count
  failureClass,  \* import_jobs.failure_class
  staged,        \* example_staged_records.review_status
  sourceStored,  \* whether SOURCE_FILES holds the job's object
  message,       \* the queue message of each dispatch
  consumer,      \* the control state of each consumer invocation
  dispatcher     \* the control state of each dispatch

rowVars == <<jobStatus, attemptCount, failureClass, staged>>
jobVars == <<rowVars, sourceStored, message, consumer, dispatcher>>

-----------------------------------------------------------------------------
NoFailure == "none"

FailureClass ==
  {NoFailure, "adapter_missing", "source_missing", "validation",
   "processing", "queue_dispatch"}

Message == [state : {"unsent", "queued", "acked", "dead"}, deliveries : 0..MaxDeliveries]

\* The consumer's place in processImportJob, the message it was invoked with
\* and the failure it is about to record.
Consumer ==
  [pc : {"idle", "read", "start", "source", "stage", "fail", "ack"},
   of : Dispatchers,
   class : FailureClass]

\* "refused": 409, or stopped before the job was queued; "stopped": gone after it.
DispatcherPc == {"idle", "requeue", "send", "fail", "done", "refused", "stopped"}

Become(c, pc, class) ==
  consumer' = [consumer EXCEPT ![c] = [pc |-> pc, of |-> consumer[c].of, class |-> class]]

Goto(c, pc) == Become(c, pc, NoFailure)

FailWith(c, class) == Become(c, "fail", class)

IdleConsumer == [pc |-> "idle", of |-> Intake, class |-> NoFailure]

\* The invocation is over, one way or another.
Return(c) == consumer' = [consumer EXCEPT ![c] = IdleConsumer]

SetMessage(d, state, deliveries) ==
  message' = [message EXCEPT ![d] = [state |-> state, deliveries |-> deliveries]]

Step(d, from, to) ==
  /\ dispatcher[d] = from
  /\ dispatcher' = [dispatcher EXCEPT ![d] = to]

InitProcesses ==
  /\ sourceStored = TRUE
  /\ message = [d \in Dispatchers |-> [state |-> "unsent", deliveries |-> 0]]
  /\ consumer = [c \in Consumers |-> IdleConsumer]
  /\ dispatcher = [d \in Dispatchers |-> IF d = Intake THEN "send" ELSE "idle"]

\* The upload has stored the object and inserted the job.
Init ==
  /\ jobStatus = "queued"
  /\ attemptCount = 0
  /\ failureClass = NoFailure
  /\ staged = [r \in Records |-> Unstaged]
  /\ InitProcesses

-----------------------------------------------------------------------------
(* Dispatching: the upload's first message and retries. *)

\* Mutant: the failure is not recorded.
IgnoreFailure(class) == UNCHANGED rowVars

\* UPDATE import_jobs SET status = 'failed' ... WHERE id: unguarded.
MarkImportJobFailed(class) ==
  /\ jobStatus' = "failed"
  /\ failureClass' = class
  /\ UNCHANGED <<attemptCount, staged>>

ReadRetryTarget(d) ==
  /\ Step(d, "idle", IF jobStatus = "failed" THEN "requeue" ELSE "refused")
  /\ UNCHANGED <<rowVars, sourceStored, message, consumer>>

\* Mutant: the failure class survives the retry.
RequeueKeepingClass == jobStatus' = "queued" /\ UNCHANGED failureClass

Requeue == jobStatus' = "queued" /\ failureClass' = NoFailure

\* The update is guarded by status = 'failed', its audit event and the send
\* that follows are not.
QueueRetry(d) ==
  /\ \/ Step(d, "requeue", "send")
     \/ "database" \in Faults /\ Step(d, "requeue", "stopped")
  /\ IF jobStatus = "failed" THEN Requeue ELSE UNCHANGED <<jobStatus, failureClass>>
  /\ UNCHANGED <<attemptCount, staged, sourceStored, message, consumer>>

Enqueue(d) == SetMessage(d, "queued", message[d].deliveries)

SendMessage(d) ==
  /\ Step(d, "send", "done")
  /\ Enqueue(d)
  /\ UNCHANGED <<rowVars, sourceStored, consumer>>

SendThrows(d) ==
  /\ Step(d, "send", "fail")
  /\ \/ "send" \in Faults /\ UNCHANGED message
     \/ "send_unknown" \in Faults /\ Enqueue(d)
  /\ UNCHANGED <<rowVars, sourceStored, consumer>>

RecordDispatchFailure(d) ==
  /\ Step(d, "fail", "done")
  /\ MarkImportJobFailed("queue_dispatch")
  /\ UNCHANGED <<sourceStored, message, consumer>>

\* The request ends early: an isolate is evicted or a statement throws.
DispatcherStops(d) ==
  /\ Faults \cap {"crash", "database"} # {}
  /\ \/ Step(d, "requeue", "refused")
     \/ "crash" \in Faults /\ Step(d, "send", "stopped")
     \/ Step(d, "fail", "stopped")
  /\ UNCHANGED <<rowVars, sourceStored, message, consumer>>

DispatcherStep(d) ==
  \/ ReadRetryTarget(d)
  \/ QueueRetry(d)
  \/ SendMessage(d)
  \/ SendThrows(d)
  \/ RecordDispatchFailure(d)

-----------------------------------------------------------------------------
(* The queue. *)

\* A message stays in the queue until it is acknowledged, so it may be
\* delivered again, to an overlapping invocation too.
Deliver(c, d) ==
  /\ consumer[c].pc = "idle"
  /\ message[d].state = "queued"
  /\ message[d].deliveries < MaxDeliveries
  /\ SetMessage(d, "queued", message[d].deliveries + 1)
  /\ consumer' = [consumer EXCEPT ![c] = [pc |-> "read", of |-> d, class |-> NoFailure]]
  /\ UNCHANGED <<rowVars, sourceStored, dispatcher>>

\* The consumer returned: its batch is acknowledged.
Acknowledge(c) ==
  /\ consumer[c].pc = "ack"
  /\ LET d == consumer[c].of
     IN  SetMessage(d, IF message[d].state = "queued" THEN "acked" ELSE message[d].state,
                    message[d].deliveries)
  /\ Return(c)
  /\ UNCHANGED <<rowVars, sourceStored, dispatcher>>

\* Deliveries are used up and no invocation still holds the message.
MoveToDeadLetterQueue(d) ==
  /\ message[d].state = "queued"
  /\ message[d].deliveries = MaxDeliveries
  /\ \A c \in Consumers : consumer[c].pc # "idle" => consumer[c].of # d
  /\ SetMessage(d, "dead", MaxDeliveries)
  /\ UNCHANGED <<rowVars, sourceStored, consumer, dispatcher>>

-----------------------------------------------------------------------------
(* processImportJob. *)

ReadImportProcessingJob(c) ==
  /\ consumer[c].pc = "read"
  /\ \/ jobStatus # "queued" /\ Goto(c, "ack")
     \/ jobStatus = "queued" /\ Goto(c, "start")
     \/ jobStatus = "queued" /\ "adapter" \in Faults /\ FailWith(c, "adapter_missing")
  /\ UNCHANGED <<rowVars, sourceStored, message, dispatcher>>

\* Mutant: the start does not look at the status again.
AlwaysStartable == TRUE

Startable == jobStatus = "queued"

\* UPDATE ... WHERE id = ? AND status = 'queued': one of several consumers wins.
MarkProcessingStarted(c) ==
  /\ consumer[c].pc = "start"
  /\ IF Startable
       THEN /\ jobStatus' = "processing"
            /\ attemptCount' = attemptCount + 1
            /\ failureClass' = NoFailure
            /\ Goto(c, "source")
       ELSE UNCHANGED <<jobStatus, attemptCount, failureClass>> /\ Goto(c, "ack")
  /\ UNCHANGED <<staged, sourceStored, message, dispatcher>>

\* SOURCE_FILES.get and adapter.parseAndStage.
ParseSource(c) ==
  /\ consumer[c].pc = "source"
  /\ \/ ~sourceStored /\ FailWith(c, "source_missing")
     \/ /\ sourceStored /\ "unusable" \in Faults
        /\ FailWith(c, "validation") \/ FailWith(c, "processing")
     \/ sourceStored /\ Goto(c, "stage")
  /\ UNCHANGED <<rowVars, sourceStored, message, dispatcher>>

\* Mutant: existing rows are replaced.
ReplacedRows == [r \in Records |-> "pending"]

\* INSERT OR IGNORE.
StagedRows == [r \in Records |-> IF staged[r] = Unstaged THEN "pending" ELSE staged[r]]

\* The rows and the unguarded status, in one batch.
StageImportJobRecords(c) ==
  /\ consumer[c].pc = "stage"
  /\ staged' = StagedRows
  /\ jobStatus' = "needs_review"
  /\ \/ Goto(c, "ack")
     \/ "database" \in Faults /\ FailWith(c, "processing")
  /\ UNCHANGED <<attemptCount, failureClass, sourceStored, message, dispatcher>>

\* The catch of processImportJob; it also takes what fails between the update that
\* starts processing and the read of the object.
ProcessingThrows(c) ==
  /\ "database" \in Faults
  /\ consumer[c].pc \in {"read", "start", "source", "stage"}
  /\ FailWith(c, "processing")
  /\ UNCHANGED <<rowVars, sourceStored, message, dispatcher>>

\* A failure that cannot be recorded is caught and recorded as "processing";
\* when that fails too the consumer throws and the message is delivered again.
Rethrow(c) ==
  IF consumer[c].class = "processing" THEN Return(c) ELSE FailWith(c, "processing")

RecordProcessingFailure(c) ==
  /\ consumer[c].pc = "fail"
  /\ MarkImportJobFailed(consumer[c].class)
  /\ Goto(c, "ack") \/ ("database" \in Faults /\ Rethrow(c))
  /\ UNCHANGED <<sourceStored, message, dispatcher>>

RecordingThrows(c) ==
  /\ "database" \in Faults
  /\ consumer[c].pc = "fail"
  /\ Rethrow(c)
  /\ UNCHANGED <<rowVars, sourceStored, message, dispatcher>>

ConsumerStep(c) ==
  \/ Acknowledge(c)
  \/ ReadImportProcessingJob(c)
  \/ MarkProcessingStarted(c)
  \/ ParseSource(c)
  \/ StageImportJobRecords(c)
  \/ RecordProcessingFailure(c)

\* The invocation is evicted, or another message of its batch throws after this
\* one: no catch runs here, and the message stays queued.
ConsumerCrashes(c) ==
  /\ "crash" \in Faults
  /\ consumer[c].pc # "idle"
  /\ Return(c)
  /\ UNCHANGED <<rowVars, sourceStored, message, dispatcher>>

\* The object is lost, or restored as the runbook asks for.
SourceChanges ==
  /\ "source" \in Faults
  /\ sourceStored' = ~sourceStored
  /\ UNCHANGED <<rowVars, message, consumer, dispatcher>>

-----------------------------------------------------------------------------
JobStep ==
  \/ \E d \in Dispatchers :
       DispatcherStep(d) \/ DispatcherStops(d) \/ MoveToDeadLetterQueue(d)
  \/ \E c \in Consumers :
       \/ \E d \in Dispatchers : Deliver(c, d)
       \/ ConsumerStep(c) \/ ProcessingThrows(c) \/ RecordingThrows(c) \/ ConsumerCrashes(c)
  \/ SourceChanges

Next == JobStep

Spec == Init /\ [][Next]_jobVars

\* A request or an invocation that is not evicted runs on, and the queue keeps
\* delivering what it holds; retries are a user's choice.
Fairness ==
  /\ \A d \in Dispatchers :
       /\ WF_jobVars(DispatcherStep(d) /\ dispatcher[d] # "idle")
       /\ WF_jobVars(\E c \in Consumers : Deliver(c, d))
       /\ WF_jobVars(MoveToDeadLetterQueue(d))
  /\ \A c \in Consumers : WF_jobVars(ConsumerStep(c))

FairSpec == Spec /\ Fairness

-----------------------------------------------------------------------------
(* Properties. *)

\* Every column, message and control state holds one of its values.
TypeOK ==
  /\ jobStatus \in ImportJobStatus
  /\ attemptCount \in Nat
  /\ failureClass \in FailureClass
  /\ staged \in [Records -> RowStatus]
  /\ sourceStored \in BOOLEAN
  /\ message \in [Dispatchers -> Message]
  /\ consumer \in [Consumers -> Consumer]
  /\ dispatcher \in [Dispatchers -> DispatcherPc]

\* The dispatches that put the job in the queue state, or tried to.
Dispatched == {d \in Dispatchers : dispatcher[d] \in {"send", "fail", "done", "stopped"}}

\* A job is processed at most once per dispatch, however often its messages are
\* delivered and however many consumers hold them.
OneAttemptPerDispatch ==
  attemptCount + (IF jobStatus = "queued" THEN 1 ELSE 0) <= Cardinality(Dispatched)

\* The failure class is there to classify a failed job and gone once it is retried.
FailureIsClassified ==
  /\ jobStatus = "failed" => failureClass # NoFailure
  /\ jobStatus \in {"queued", "processing"} => failureClass = NoFailure

\* A queued job is not forgotten: a dispatch of it is about to send or to fail, or
\* its message is still in the queue; only an eviction or a failing database can
\* leave it with a dead message or without one.
QueuedJobIsDispatched ==
  jobStatus = "queued" =>
    \E d \in Dispatchers :
      \/ dispatcher[d] \in {"send", "fail"}
      \/ message[d].state = "queued"
      \/ /\ Faults \cap {"crash", "database"} # {}
         /\ dispatcher[d] = "stopped" \/ message[d].state = "dead"

\* The consumers that won the start of processing and have not recorded its end.
Owners == {c \in Consumers :
             \/ consumer[c].pc \in {"source", "stage"}
             \/ /\ consumer[c].pc = "fail"
                /\ consumer[c].class \in {"source_missing", "validation", "processing"}}

\* With a database that does not fail and the adapter deployed, at most one consumer
\* works on the job, and only while it is processing.
OneOwner ==
  /\ \A k, l \in Owners : k = l
  /\ Owners # {} => jobStatus = "processing"

\* Without evictions and database failures a job in "processing" has a consumer that is
\* going to end it, whatever else fails: what keeps ProcessingEnds from being a promise
\* that nobody is left to keep.
ProcessingHasOwner == jobStatus = "processing" => Owners # {}

\* A queued job is eventually picked up, or its dispatch failure is recorded.
QueuedIsPickedUp == (jobStatus = "queued") ~> (jobStatus # "queued")

\* Processing ends: with records to review or with a failure to retry.
ProcessingEnds == (jobStatus = "processing") ~> (jobStatus # "processing")

=============================================================================
