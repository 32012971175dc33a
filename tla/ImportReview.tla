---------------------------- MODULE ImportReview ----------------------------
(***************************************************************************)
(* Review and commit of the staged records of one import job               *)
(* (apps/worker/src/import-review-*.ts).                                   *)
(*                                                                         *)
(* Each call is one HTTP request: approve or reject one record, confirm    *)
(* every pending record, or commit the approved ones.  A handler reads the *)
(* rows it is about, then reads the counts of all statuses, then writes    *)
(* one D1 batch; other requests run at each of these awaits, and the batch *)
(* is atomic.  The statuses a handler read are never read again.           *)
(***************************************************************************)
EXTENDS ImportStatus

CONSTANTS Records,     \* staged record keys of the job
          Calls,       \* review requests, each served once
          NoCall,      \* no commit wrote the row
          MaxInFlight  \* bound: requests served at the same time

ASSUME ReviewAssumption ==
  /\ IsFiniteSet(Records)
  /\ IsFiniteSet(Calls)
  /\ NoCall \notin Calls
  /\ MaxInFlight \in Nat \ {0}

VARIABLES
  jobStatus,          \* import_jobs.status
  staged,             \* example_staged_records.review_status
  committedRecordId,  \* example_staged_records.committed_record_id
  committedRecords,   \* example_committed_records: the call that wrote each row
  decisions,          \* import_review_record_decisions: <<record, action>>
  call                \* the control state of each request

dbVars == <<jobStatus, staged, committedRecordId, committedRecords, decisions>>
reviewVars == <<dbVars, call>>

-----------------------------------------------------------------------------
Request == ReviewAction \cup {"confirm_pending", "commit"}

\* What a request makes of the records it is about.
TargetStatus(request) ==
  CASE request \in ReviewAction -> StagedStatusForReviewAction(request)
    [] request = "confirm_pending" -> StagedStatusForReviewAction("approve")
    [] request = "commit" -> "committed"

\* The locals of a handler: the rows it read, the status it saw on them, and
\* the job status it is going to write.
CallState ==
  [pc : {"ready", "summary", "write", "answered"},
   request : Request,
   records : SUBSET Records,
   seen : StagedRecordStatus,
   status : ImportJobStatus]

Idle(pc) ==
  [request |-> "commit", pc |-> pc, records |-> {}, seen |-> "pending",
   status |-> "queued"]

InFlight == {c \in Calls : call[c].pc \in {"summary", "write"}}

CanStart(c) == call[c].pc = "ready" /\ Cardinality(InFlight) < MaxInFlight

\* The response is sent: 200, a duplicate, 404, 409 or 500.
Answer(c) == call' = [call EXCEPT ![c] = Idle("answered")]

\* The handler has read the rows it is about and goes on.
Proceed(c, request, records, seen) ==
  call' = [call EXCEPT ![c] =
             [request |-> request, pc |-> "summary", records |-> records,
              seen |-> seen, status |-> "queued"]]

InitCalls == call = [c \in Calls |-> Idle("ready")]

Init ==
  /\ jobStatus = "needs_review"
  /\ staged = [r \in Records |-> "pending"]
  /\ committedRecordId = [r \in Records |-> NoCall]
  /\ committedRecords = [r \in Records |-> NoCall]
  /\ decisions = {}
  /\ InitCalls

-----------------------------------------------------------------------------
(* Reading the rows a request is about. *)

\* 404 without a row, 409 for a committed record, a duplicate answer when the
\* record already has the status asked for.
Refused(r, action) ==
  staged[r] \in {Unstaged, "committed", StagedStatusForReviewAction(action)}

RefuseDecision(c, r, action) ==
  /\ CanStart(c)
  /\ Refused(r, action)
  /\ Answer(c)
  /\ UNCHANGED dbVars

ReadDecisionTarget(c, r, action) ==
  /\ CanStart(c)
  /\ ~Refused(r, action)
  /\ Proceed(c, action, {r}, staged[r])
  /\ UNCHANGED dbVars

PendingRecords == {r \in Records : staged[r] = "pending"}

ReadPendingRecords(c) ==
  /\ CanStart(c)
  /\ IF PendingRecords = {}
       THEN Answer(c)
       ELSE Proceed(c, "confirm_pending", PendingRecords, "pending")
  /\ UNCHANGED dbVars

\* Mutant: what is not committed yet is committed, approved or not.
UncommittedRecords ==
  {r \in Records : staged[r] # Unstaged /\ committedRecordId[r] = NoCall}

ApprovedRecords ==
  {r \in Records : staged[r] = "approved" /\ committedRecordId[r] = NoCall}

ReadApprovedRecords(c) ==
  /\ CanStart(c)
  /\ IF ApprovedRecords = {}
       THEN Answer(c)
       ELSE Proceed(c, "commit", ApprovedRecords, "approved")
  /\ UNCHANGED dbVars

-----------------------------------------------------------------------------
(* Reading the counts and deriving the job status from them. *)

\* Mutant: the status the records had is still counted.
StatusOnlyAdding(summary, seen, target, count) ==
  JobStatusForReviewSummary(AdjustReviewStatus(summary, target, count))

StatusAfter(summary, seen, target, count) ==
  JobStatusForReviewSummary(
    AdjustReviewStatus(AdjustReviewStatus(summary, seen, -count), target, count))

ReadSummary(c) ==
  /\ call[c].pc = "summary"
  /\ call' = [call EXCEPT
       ![c].pc = "write",
       ![c].status = StatusAfter(ReadReviewStatusSummary(staged), call[c].seen,
                                 TargetStatus(call[c].request),
                                 Cardinality(call[c].records))]
  /\ UNCHANGED dbVars

-----------------------------------------------------------------------------
(* The batches. *)

Writing(c, requests) == call[c].pc = "write" /\ call[c].request \in requests

\* Mutant: the decision never reaches the ledger.
DecisionNotRecorded(c, action) == UNCHANGED decisions

RecordDecisions(c, action) ==
  decisions' = decisions \cup (call[c].records \X {action})

\* UPDATE ... SET review_status WHERE id: whatever the status is by now.
WriteDecision(c) ==
  /\ Writing(c, ReviewAction)
  /\ RecordDecisions(c, call[c].request)
  /\ staged' = [r \in Records |->
       IF r \in call[c].records THEN TargetStatus(call[c].request) ELSE staged[r]]
  /\ jobStatus' = call[c].status
  /\ Answer(c)
  /\ UNCHANGED <<committedRecordId, committedRecords>>

\* The same for every record that was pending, but only where it still is; the
\* decision is written for all of them.
WriteConfirmation(c) ==
  /\ Writing(c, {"confirm_pending"})
  /\ RecordDecisions(c, "approve")
  /\ staged' = [r \in Records |->
       IF r \in call[c].records /\ staged[r] = "pending" THEN "approved" ELSE staged[r]]
  /\ jobStatus' = call[c].status
  /\ Answer(c)
  /\ UNCHANGED <<committedRecordId, committedRecords>>

\* A staged row the commit marks: still approved and never committed.
Marked(c) ==
  {r \in call[c].records : staged[r] = "approved" /\ committedRecordId[r] = NoCall}

\* Mutant: the committed rows are upserted.
NeverConflicts(c) == FALSE

\* UNIQUE (import_job_id, staged_record_key) refuses a second committed row.
Conflicts(c) == \E r \in call[c].records : committedRecords[r] # NoCall

WriteCommit(c) ==
  /\ Writing(c, {"commit"})
  /\ ~Conflicts(c)
  /\ committedRecords' =
       [r \in Records |-> IF r \in call[c].records THEN c ELSE committedRecords[r]]
  /\ committedRecordId' =
       [r \in Records |-> IF r \in Marked(c) THEN c ELSE committedRecordId[r]]
  /\ staged' = [r \in Records |-> IF r \in Marked(c) THEN "committed" ELSE staged[r]]
  /\ jobStatus' = call[c].status
  /\ Answer(c)
  /\ UNCHANGED decisions

\* One refused row fails the whole batch.
CommitConflict(c) ==
  /\ Writing(c, {"commit"})
  /\ Conflicts(c)
  /\ Answer(c)
  /\ UNCHANGED dbVars

\* A database call throws, the adapter refuses the commit, or the isolate dies:
\* the request ends without its batch.  (A batch that is written and throws is a
\* write: no one here reads the response.)
FailCall(c) ==
  /\ call[c].pc \in {"summary", "write"}
  /\ Answer(c)
  /\ UNCHANGED dbVars

-----------------------------------------------------------------------------
ReviewStep(c) ==
  \/ \E r \in Records, action \in ReviewAction :
       RefuseDecision(c, r, action) \/ ReadDecisionTarget(c, r, action)
  \/ ReadPendingRecords(c)
  \/ ReadApprovedRecords(c)
  \/ ReadSummary(c)
  \/ WriteDecision(c)
  \/ WriteConfirmation(c)
  \/ WriteCommit(c)
  \/ CommitConflict(c)
  \/ FailCall(c)

Next == \E c \in Calls : ReviewStep(c)

Spec == Init /\ [][Next]_reviewVars

-----------------------------------------------------------------------------
(* Properties. *)

\* Every row and every local holds a value of its column or variable.
TypeOK ==
  /\ jobStatus \in ImportJobStatus
  /\ staged \in [Records -> RowStatus]
  /\ committedRecordId \in [Records -> Calls \cup {NoCall}]
  /\ committedRecords \in [Records -> Calls \cup {NoCall}]
  /\ decisions \subseteq Records \X ReviewAction
  /\ call \in [Calls -> CallState]

\* committed_record_id of a staged row always names the committed row that
\* exists for it, whichever of several racing commits wrote it.
CommittedIdResolves ==
  \A r \in Records :
    committedRecordId[r] # NoCall => committedRecords[r] = committedRecordId[r]

\* No row reaches the business table unless a reviewer's approval of that record
\* is in the decision ledger.
CommittedOnlyAfterApproval ==
  \A r \in Records : committedRecords[r] # NoCall => <<r, "approve">> \in decisions

\* A status a reviewer can set is backed by a decision of the ledger, and a record
\* with a decision is never pending again.
LedgerExplainsStatus ==
  \A r \in Records :
    /\ staged[r] = "approved" => <<r, "approve">> \in decisions
    /\ staged[r] = "rejected" => <<r, "reject">> \in decisions
    /\ staged[r] \in {Unstaged, "pending"} => \A a \in ReviewAction : <<r, a>> \notin decisions

\* A handler may write long after it read: the records it is about still have
\* rows, and those of a commit were approved by a decision of the ledger, even
\* if they are not approved any more.
FlightsAreFounded ==
  \A c \in Calls :
    call[c].pc \in {"summary", "write"} =>
      \A r \in call[c].records :
        /\ staged[r] # Unstaged
        /\ call[c].request = "commit" => <<r, "approve">> \in decisions

\* The committed row of a record is written once and never replaced or removed,
\* however many commits are sent for the job.
CommittedRowsAreFinal ==
  [][\A r \in Records :
       committedRecords[r] # NoCall => committedRecords'[r] = committedRecords[r]]_reviewVars

\* Review and commit implement the abstract ledger.
Ledger == INSTANCE CommitLedger WITH
  Ids <- Calls,
  NoId <- NoCall,
  approvedEver <- {r \in Records : <<r, "approve">> \in decisions},
  row <- committedRecords

ImplementsLedger == Ledger!LedgerSpec

\* A job is committed only when no staged record is pending or approved.
CommittedJobIsSettled ==
  jobStatus = "committed" => \A r \in Records : staged[r] \notin {"pending", "approved"}

\* A commit writes no row of a record that was rejected before it: a rejected
\* record that no commit marked has no row.
RejectedNotCommitted ==
  \A r \in Records :
    staged[r] = "rejected" /\ committedRecordId[r] = NoCall => committedRecords[r] = NoCall

\* What the next commit reads as ready to commit has no committed row yet, so
\* that commit is not refused by the unique index.
ApprovedIsCommittable ==
  \A r \in ApprovedRecords : committedRecords[r] = NoCall

=============================================================================
