--------------------------- MODULE ImportPipeline ---------------------------
(***************************************************************************)
(* One import job through the whole pipeline: ImportJob and ImportReview   *)
(* share the job's row and its staged records.  Nothing in the worker      *)
(* orders the two: a late consumer, a late dispatch failure or a retry     *)
(* writes the job while reviewers decide and commit, and review looks at   *)
(* staged rows, never at the job's status.  ImportReview's invariants are  *)
(* about the same variables and are checked here as well.                  *)
(***************************************************************************)
EXTENDS ImportReview

CONSTANTS Consumers, Retries, Intake, Faults, MaxDeliveries

VARIABLES attemptCount, failureClass, sourceStored, message, consumer, dispatcher

Job == INSTANCE ImportJob

jobOnly == <<attemptCount, failureClass, sourceStored, message, consumer, dispatcher>>
reviewOnly == <<committedRecordId, committedRecords, decisions, call>>
pipelineVars == <<jobStatus, staged, jobOnly, reviewOnly>>

\* The job is queued and none of its records is staged, so there is nothing to review.
PipelineInit ==
  /\ Job!Init
  /\ committedRecordId = [r \in Records |-> NoCall]
  /\ committedRecords = [r \in Records |-> NoCall]
  /\ decisions = {}
  /\ InitCalls

PipelineNext ==
  \/ Job!JobStep /\ UNCHANGED reviewOnly
  \/ (\E c \in Calls : ReviewStep(c)) /\ UNCHANGED jobOnly

PipelineSpec == PipelineInit /\ [][PipelineNext]_pipelineVars

-----------------------------------------------------------------------------
\* Processing a job again, after a retry or a redelivery, never touches a record
\* that a reviewer has decided or a commit has written.
DecisionsSurviveReprocessing ==
  [][Job!JobStep => \A r \in Records : staged[r] # Unstaged => staged'[r] = staged[r]]_pipelineVars

\* The ledger's promise holds for the job as a whole: reprocessing commits nothing
\* twice and nothing unapproved.
PipelineImplementsLedger == ImplementsLedger

InReview == {"needs_review", "approved", "committed"}

\* With requests one at a time, neither send nor database failing and the adapter
\* deployed, the job status seen in review is the one its rows stand for, whatever is
\* redelivered.
ReviewStatusIsDerived ==
  jobStatus \in InReview => jobStatus = JobStatusForReviewSummary(ReadReviewStatusSummary(staged))

\* With send and database working and the adapter deployed, at most one consumer works
\* on the job, and none while it is in review, whatever is redelivered or retried twice.
OneOwner == Job!OneOwner

\* Under the same faults a job that reached review stays there: no redelivery, retry or late failure takes
\* it back to processing or to failed under the reviewers.
ReviewIsReachedOnce ==
  [][(jobStatus \in InReview) => (jobStatus' \in InReview)]_pipelineVars

\* Seen from the job's row and from which records are staged, the pipeline is the life
\* cycle of the documents, under the same faults: redeliveries, lost consumers, late
\* retries and reviewers that race add no step of their own, and no attempt is counted
\* that did not start from the queue.
Lifecycle == INSTANCE JobLifecycle
  WITH status <- jobStatus, attempts <- attemptCount,
       rows <- {r \in Records : staged[r] # Unstaged}

PipelineImplementsLifecycle == Lifecycle!LifecycleSpec

=============================================================================
