---------------------------- MODULE JobLifecycle ----------------------------
(***************************************************************************)
(* What the documents promise of one import job as its row is read by      *)
(* anybody (docs/troubleshooting.md, docs/operations/dlq-remediation.md):  *)
(* it is processed once per attempt, an attempt ends in review or in a     *)
(* failure that a retry takes back to the queue, and once its records are  *)
(* there they are all there, for review alone to move the job among its    *)
(* own statuses.  ImportPipeline implements it.                            *)
(***************************************************************************)
EXTENDS Naturals

CONSTANT Records   \* the records the source file parses to

VARIABLES status,    \* the job's status
          attempts,  \* how often processing has started
          rows       \* the records that are staged

lifecycleVars == <<status, attempts, rows>>

Reviewing == {"needs_review", "approved", "committed"}

LifecycleInit ==
  /\ status = "queued"
  /\ attempts = 0
  /\ rows = {}

Move(from, to) == status = from /\ status' = to

Start ==
  /\ Move("queued", "processing")
  /\ attempts' = attempts + 1
  /\ UNCHANGED rows

Fail == Move("processing", "failed") /\ UNCHANGED <<attempts, rows>>

Retry == Move("failed", "queued") /\ UNCHANGED <<attempts, rows>>

Stage ==
  /\ Move("processing", "needs_review")
  /\ rows = {} /\ rows' = Records
  /\ UNCHANGED attempts

Review ==
  /\ status \in Reviewing /\ status' \in Reviewing
  /\ UNCHANGED <<attempts, rows>>

LifecycleNext == Start \/ Fail \/ Retry \/ Stage \/ Review

LifecycleSpec == LifecycleInit /\ [][LifecycleNext]_lifecycleVars

=============================================================================
