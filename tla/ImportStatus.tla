---------------------------- MODULE ImportStatus ----------------------------
(***************************************************************************)
(* The vocabulary of the import pipeline (packages/import-pipeline): the   *)
(* statuses of a job and of a staged record, the count of records per      *)
(* status, and the job status derived from that count.                     *)
(***************************************************************************)
EXTENDS Integers, FiniteSets

\* "voided" is in the schema too, but no statement of the worker writes it.
ImportJobStatus ==
  {"queued", "processing", "needs_review", "approved", "committed", "failed"}

StagedRecordStatus == {"pending", "approved", "rejected", "committed"}

\* A record with no row in example_staged_records.
Unstaged == "unstaged"

RowStatus == StagedRecordStatus \cup {Unstaged}

ReviewAction == {"approve", "reject"}

StagedStatusForReviewAction(action) ==
  IF action = "approve" THEN "approved" ELSE "rejected"

ReviewStatusSummary == [StagedRecordStatus -> Nat]

\* SELECT review_status, COUNT(*) ... GROUP BY review_status, missing ones 0.
ReadReviewStatusSummary(rowStatus) ==
  [s \in StagedRecordStatus |->
     Cardinality({r \in DOMAIN rowStatus : rowStatus[r] = s})]

\* A count moves by delta and never below zero; a status that is not counted
\* changes nothing.
AdjustReviewStatus(summary, status, delta) ==
  [s \in StagedRecordStatus |->
     IF s # status THEN summary[s]
     ELSE IF summary[s] + delta > 0 THEN summary[s] + delta ELSE 0]

\* Mutant: committed records are looked at first.
CommittedFirst(summary) ==
  CASE summary["committed"] > 0 -> "committed"
    [] summary["committed"] = 0 /\ summary["approved"] > 0 -> "approved"
    [] OTHER -> "needs_review"

JobStatusForReviewSummary(summary) ==
  CASE summary["approved"] > 0 -> "approved"
    [] summary["approved"] = 0 /\ summary["pending"] > 0 -> "needs_review"
    [] summary["approved"] = 0 /\ summary["pending"] = 0
         /\ summary["committed"] > 0 -> "committed"
    [] OTHER -> "needs_review"

=============================================================================
