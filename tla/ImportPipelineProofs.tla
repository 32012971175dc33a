------------------------ MODULE ImportPipelineProofs ------------------------
(***************************************************************************)
(* What holds of one job through the whole pipeline, for every set of      *)
(* records, consumers, retries and requests.                               *)
(*                                                                         *)
(* Whatever fails, the job's steps only add rows and write job statuses,   *)
(* so review keeps its invariant.  What the documents say of statuses      *)
(* needs more: Reliable faults, so that a job in review stays there, and   *)
(* requests one at a time, so that a request finds what it read.           *)
(***************************************************************************)
EXTENDS ImportPipeline, ImportReviewProofs, FiniteSetTheorems

\* A job step stages rows where there are none, or leaves the rows alone, and what it
\* makes of the job is a status of its own.
LEMMA JobStepWrites ==
  ASSUME Job!JobStep
  PROVE  /\ staged' = staged \/ staged' = Job!StagedRows
         /\ jobStatus' = jobStatus \/ jobStatus' \in ImportJobStatus
BY DEF Job!JobStep, Job!DispatcherStep, Job!DispatcherStops, Job!MoveToDeadLetterQueue,
       Job!Deliver, Job!ConsumerStep, Job!ProcessingThrows, Job!RecordingThrows,
       Job!ConsumerCrashes, Job!SourceChanges, Job!ReadRetryTarget, Job!QueueRetry,
       Job!SendMessage, Job!SendThrows, Job!RecordDispatchFailure, Job!Acknowledge,
       Job!ReadImportProcessingJob, Job!MarkProcessingStarted, Job!ParseSource,
       Job!StageImportJobRecords, Job!RecordProcessingFailure, Job!MarkImportJobFailed,
       Job!Requeue, Job!rowVars, ImportJobStatus

\* A row that is there is kept by a job step.
LEMMA JobStepKeepsRows ==
  ASSUME Job!JobStep, NEW r \in Records, staged[r] # Unstaged
  PROVE  staged'[r] = staged[r]
BY JobStepWrites DEF Job!StagedRows, Job!Unstaged, Unstaged

-----------------------------------------------------------------------------
(* Any faults, any number of requests at a time. *)

LEMMA PipelineInitIInv == PipelineInit => IInv
<1>1. SUFFICES ASSUME PipelineInit PROVE IInv
  OBVIOUS
<1>2. /\ jobStatus = "queued"
      /\ staged = [r \in Records |-> Unstaged]
      /\ committedRecordId = [r \in Records |-> NoCall]
      /\ committedRecords = [r \in Records |-> NoCall]
      /\ decisions = {}
      /\ call = [c \in Calls |-> Idle("ready")]
  BY <1>1 DEF PipelineInit, Job!Init, Job!Unstaged, Unstaged, InitCalls
<1>3. TypeOK
  BY <1>2, IdleType DEF TypeOK, ImportJobStatus, RowStatus, StagedRecordStatus
<1>4. LedgerExplainsStatus /\ CommittedIdResolves /\ CommittedOnlyAfterApproval
  BY <1>2 DEF LedgerExplainsStatus, CommittedIdResolves, CommittedOnlyAfterApproval, Unstaged
<1>5. FlightsAreFounded
  BY <1>2, IdleType DEF FlightsAreFounded
<1> QED BY <1>3, <1>4, <1>5 DEF IInv

LEMMA JobStepIInv ==
  ASSUME IInv, Job!JobStep, UNCHANGED reviewOnly
  PROVE  IInv'
<1>1. \A r \in Records :
        \/ staged'[r] = staged[r]
        \/ staged[r] = Unstaged /\ staged'[r] = "pending"
  BY JobStepWrites DEF Job!StagedRows, Job!Unstaged, Unstaged
<1>2. staged' \in [Records -> RowStatus]
  BY JobStepWrites
  DEF IInv, TypeOK, Job!StagedRows, Job!Unstaged, Unstaged, RowStatus, StagedRecordStatus
<1>3. TypeOK'
  BY <1>2, JobStepWrites DEF IInv, TypeOK, reviewOnly
<1>4. LedgerExplainsStatus'
  BY <1>1 DEF IInv, LedgerExplainsStatus, reviewOnly
<1>5. CommittedIdResolves' /\ CommittedOnlyAfterApproval'
  BY DEF IInv, CommittedIdResolves, CommittedOnlyAfterApproval, reviewOnly
<1>6. FlightsAreFounded'
  BY <1>1 DEF IInv, TypeOK, CallState, FlightsAreFounded, reviewOnly, Unstaged
<1> QED BY <1>3, <1>4, <1>5, <1>6 DEF IInv

LEMMA PipelineNextIInv == IInv /\ [PipelineNext]_pipelineVars => IInv'
<1>1. SUFFICES ASSUME IInv, [PipelineNext]_pipelineVars PROVE IInv'
  OBVIOUS
<1>2. CASE Job!JobStep /\ UNCHANGED reviewOnly
  BY <1>1, <1>2, JobStepIInv
<1>3. CASE [Next]_reviewVars
  BY <1>1, <1>3, NextIInv
<1> QED
  BY <1>1, <1>2, <1>3 DEF PipelineNext, Next, pipelineVars, reviewVars, dbVars, reviewOnly

LEMMA PipelineInvariance == PipelineSpec => []IInv
BY PipelineInitIInv, PipelineNextIInv, PTL DEF PipelineSpec

\* A retry, a redelivery or a late consumer never touches a record that was staged.
THEOREM DecisionsSurvive == PipelineSpec => DecisionsSurviveReprocessing
<1>1. [PipelineNext]_pipelineVars =>
        [Job!JobStep => \A r \in Records : staged[r] # Unstaged => staged'[r] = staged[r]]_pipelineVars
  BY JobStepKeepsRows
<1> QED BY <1>1, PTL DEF PipelineSpec, DecisionsSurviveReprocessing

\* The job as a whole implements the ledger: only review's steps are steps of it.
THEOREM PipelineKeepsLedger == PipelineSpec => PipelineImplementsLedger
<1>1. PipelineInit => Ledger!LedgerInit
  BY DEF PipelineInit, Ledger!LedgerInit
<1>2. IInv /\ [PipelineNext]_pipelineVars => [Ledger!LedgerNext]_Ledger!ledgerVars
  <2>1. SUFFICES ASSUME IInv, [PipelineNext]_pipelineVars
                 PROVE  [Ledger!LedgerNext]_Ledger!ledgerVars
    OBVIOUS
  <2>2. CASE UNCHANGED reviewOnly
    BY <2>2 DEF reviewOnly, Ledger!ledgerVars
  <2>3. CASE [Next]_reviewVars
    BY <2>1, <2>3, NextRefines
  <2> QED BY <2>1, <2>2, <2>3 DEF PipelineNext, Next, pipelineVars
<1> QED
  BY <1>1, <1>2, PipelineInvariance, PTL
  DEF PipelineSpec, PipelineImplementsLedger, ImplementsLedger, Ledger!LedgerSpec

-----------------------------------------------------------------------------
(* With send and database working and the adapter deployed: one owner at a   *)
(* time, and review is reached once.                                         *)

Reliable == Faults \cap {"database", "send", "send_unknown", "adapter"} = {}

\* What a consumer and a dispatch can be about, and who owns the job.
JobInv ==
  /\ consumer \in [Consumers -> Job!Consumer]
  /\ dispatcher \in [Job!Dispatchers -> Job!DispatcherPc \ {"fail"}]
  /\ \A c \in Consumers : consumer[c].pc = "fail" => c \in Job!Owners
  /\ \A c, d \in Job!Owners : c = d
  /\ Job!Owners # {} => jobStatus = "processing"

\* Rows are there only in review, and a request that goes on is about some.
ReviewInv ==
  /\ \A r \in Records : staged[r] # Unstaged => jobStatus \in InReview
  /\ \A c \in InFlight : call[c].records # {}
  /\ \A c \in Calls : call[c].pc = "write" => call[c].status \in InReview

StageInv == IInv /\ JobInv /\ ReviewInv

LEMMA InitStageInv == PipelineInit => StageInv
<1>1. SUFFICES ASSUME PipelineInit PROVE StageInv
  OBVIOUS
<1>2. consumer = [c \in Consumers |-> Job!IdleConsumer]
  BY <1>1 DEF PipelineInit, Job!Init, Job!InitProcesses
<1>3. Job!IdleConsumer \in Job!Consumer /\ Job!IdleConsumer.pc = "idle"
  BY DEF Job!IdleConsumer, Job!Consumer, Job!Dispatchers, Job!FailureClass, Job!NoFailure
<1>4. dispatcher \in [Job!Dispatchers -> Job!DispatcherPc \ {"fail"}]
  BY <1>1 DEF PipelineInit, Job!Init, Job!InitProcesses, Job!DispatcherPc
<1>5. JobInv
  BY <1>2, <1>3, <1>4 DEF JobInv, Job!Owners
<1>6. ReviewInv
  BY <1>1, IdleType
  DEF PipelineInit, Job!Init, Job!Unstaged, Unstaged, InitCalls, ReviewInv, InFlight
<1> QED BY <1>1, <1>5, <1>6, PipelineInitIInv DEF StageInv

-----------------------------------------------------------------------------
(* Job steps. *)

\* A dispatch writes the job only to queue it again after a failure.
LEMMA DispatchKeepsJob ==
  ASSUME Reliable, JobInv, NEW d \in Job!Dispatchers,
         Job!DispatcherStep(d) \/ Job!DispatcherStops(d) \/ Job!MoveToDeadLetterQueue(d)
  PROVE  /\ UNCHANGED <<consumer, staged>>
         /\ dispatcher' \in [Job!Dispatchers -> Job!DispatcherPc \ {"fail"}]
         /\ jobStatus' = jobStatus \/ (jobStatus = "failed" /\ jobStatus' = "queued")
<1>1. CASE Job!ReadRetryTarget(d)
  BY <1>1 DEF JobInv, Job!ReadRetryTarget, Job!Step, Job!DispatcherPc, Job!rowVars
<1>2. CASE Job!QueueRetry(d)
  BY <1>2 DEF JobInv, Job!QueueRetry, Job!Step, Job!DispatcherPc, Job!Requeue
<1>3. CASE Job!SendMessage(d)
  BY <1>3 DEF JobInv, Job!SendMessage, Job!Step, Job!DispatcherPc, Job!rowVars
<1>4. ~Job!SendThrows(d)
  BY DEF Reliable, Job!SendThrows
<1>5. ~Job!RecordDispatchFailure(d)
  BY DEF JobInv, Job!RecordDispatchFailure, Job!Step
<1>6. CASE Job!DispatcherStops(d)
  BY <1>6 DEF JobInv, Job!DispatcherStops, Job!Step, Job!DispatcherPc, Job!rowVars
<1>7. CASE Job!MoveToDeadLetterQueue(d)
  BY <1>7 DEF JobInv, Job!MoveToDeadLetterQueue, Job!rowVars
<1> QED
  BY <1>1, <1>2, <1>3, <1>4, <1>5, <1>6, <1>7 DEF Job!DispatcherStep

\* Moving one consumer moves no other in or out of the owners.
LEMMA OneConsumerMoves ==
  ASSUME JobInv, NEW c \in Consumers, NEW state \in Job!Consumer,
         consumer' = [consumer EXCEPT ![c] = state]
  PROVE  /\ consumer' \in [Consumers -> Job!Consumer]
         /\ consumer'[c] = state
         /\ \A k \in Consumers \ {c} : consumer'[k] = consumer[k]
         /\ Job!Owners' \ {c} = Job!Owners \ {c}
         /\ c \in Job!Owners' <=>
              \/ state.pc \in {"source", "stage"}
              \/ /\ state.pc = "fail"
                 /\ state.class \in {"source_missing", "validation", "processing"}
BY DEF JobInv, Job!Owners

LEMMA StatesOfConsumers ==
  ASSUME JobInv, NEW c \in Consumers,
         NEW pc \in {"idle", "read", "start", "source", "stage", "fail", "ack"},
         NEW class \in Job!FailureClass
  PROVE  /\ [pc |-> pc, of |-> consumer[c].of, class |-> class] \in Job!Consumer
         /\ Job!IdleConsumer \in Job!Consumer /\ Job!IdleConsumer.pc = "idle"
         /\ Job!NoFailure \in Job!FailureClass
BY DEF JobInv, Job!Consumer, Job!IdleConsumer, Job!FailureClass, Job!NoFailure, Job!Dispatchers

\* The consumer that moves neither owned the job nor comes to own it, or stops owning
\* it, and the row is left alone.
LEMMA BystanderStep ==
  ASSUME JobInv, NEW c \in Consumers, NEW state \in Job!Consumer,
         consumer' = [consumer EXCEPT ![c] = state],
         state.pc \in {"idle", "read", "start", "ack"},
         UNCHANGED <<jobStatus, dispatcher>>
  PROVE  JobInv'
<1>0. Job!Owners' \ {c} = Job!Owners \ {c} /\ c \notin Job!Owners'
  BY OneConsumerMoves
<1>1. Job!Owners' = Job!Owners \ {c}
  BY <1>0
<1>2. \A k \in Consumers : consumer'[k].pc = "fail" => k \in Job!Owners'
  BY <1>1, OneConsumerMoves DEF JobInv
<1> QED BY <1>1, <1>2, OneConsumerMoves DEF JobInv

\* The owner goes on.
LEMMA OwnerStep ==
  ASSUME JobInv, NEW c \in Job!Owners, NEW state \in Job!Consumer,
         consumer' = [consumer EXCEPT ![c] = state],
         \/ state.pc \in {"source", "stage"}
         \/ /\ state.pc = "fail"
            /\ state.class \in {"source_missing", "validation", "processing"},
         UNCHANGED <<jobStatus, dispatcher>>
  PROVE  JobInv'
<1>1. c \in Consumers
  BY DEF Job!Owners
<1>0. Job!Owners' \ {c} = Job!Owners \ {c} /\ c \in Job!Owners'
  BY <1>1, OneConsumerMoves
<1>2. Job!Owners' = Job!Owners
  BY <1>0
<1>3. \A k \in Consumers : consumer'[k].pc = "fail" => k \in Job!Owners'
  BY <1>1, <1>2, OneConsumerMoves DEF JobInv
<1> QED BY <1>1, <1>2, <1>3, OneConsumerMoves DEF JobInv

\* The owner is done and the job is what it wrote.
LEMMA OwnerEnds ==
  ASSUME JobInv, NEW c \in Job!Owners, NEW state \in Job!Consumer,
         consumer' = [consumer EXCEPT ![c] = state],
         state.pc = "ack",
         UNCHANGED dispatcher
  PROVE  JobInv' /\ Job!Owners' = {}
<1>1. c \in Consumers
  BY DEF Job!Owners
<1>0. Job!Owners' \ {c} = Job!Owners \ {c} /\ c \notin Job!Owners'
  BY <1>1, OneConsumerMoves
<1>2. Job!Owners' = {}
  BY <1>0 DEF JobInv
<1>3. \A k \in Consumers : consumer'[k].pc = "fail" => k \in Job!Owners'
  BY <1>1, OneConsumerMoves DEF JobInv
<1> QED BY <1>1, <1>2, <1>3, OneConsumerMoves DEF JobInv

\* The winner of the start is the one owner.
LEMMA WinnerStarts ==
  ASSUME JobInv, NEW c \in Consumers, NEW state \in Job!Consumer,
         consumer' = [consumer EXCEPT ![c] = state],
         state.pc = "source", jobStatus = "queued", jobStatus' = "processing",
         UNCHANGED dispatcher
  PROVE  JobInv'
<1>1. Job!Owners = {}
  BY DEF JobInv
<1>2. Job!Owners' \ {c} = Job!Owners \ {c} /\ c \in Job!Owners'
  BY OneConsumerMoves
<1>3. Job!Owners' = {c}
  BY <1>1, <1>2
<1>4. \A k \in Consumers : consumer'[k].pc = "fail" => k \in Job!Owners'
  BY <1>1, <1>3, OneConsumerMoves DEF JobInv
<1> QED BY <1>3, <1>4, OneConsumerMoves DEF JobInv

\* What a job step makes of the job and its rows.
JobMoves ==
  \/ UNCHANGED <<jobStatus, staged>>
  \/ jobStatus = "failed" /\ jobStatus' = "queued" /\ UNCHANGED staged
  \/ jobStatus = "queued" /\ jobStatus' = "processing" /\ UNCHANGED staged
  \/ jobStatus = "processing" /\ jobStatus' = "failed" /\ UNCHANGED staged
  \/ jobStatus = "processing" /\ jobStatus' = "needs_review" /\ staged' = Job!StagedRows

\* A failure is recorded, and rows are staged, by the owner only.
LEMMA ConsumerKeepsJob ==
  ASSUME Reliable, JobInv, NEW c \in Consumers,
         \/ \E d \in Job!Dispatchers : Job!Deliver(c, d)
         \/ Job!ConsumerStep(c) \/ Job!ProcessingThrows(c)
         \/ Job!RecordingThrows(c) \/ Job!ConsumerCrashes(c)
  PROVE  JobInv' /\ JobMoves
<1> DEFINE next(pc, class) == [pc |-> pc, of |-> consumer[c].of, class |-> class]
<1>1. ASSUME NEW d \in Job!Dispatchers, Job!Deliver(c, d) PROVE JobInv' /\ JobMoves
  <2> DEFINE state == [pc |-> "read", of |-> d, class |-> Job!NoFailure]
  <2>1. state \in Job!Consumer /\ state.pc = "read"
    BY DEF Job!Consumer, Job!FailureClass, Job!NoFailure
  <2>2. /\ consumer' = [consumer EXCEPT ![c] = state]
        /\ UNCHANGED <<jobStatus, staged, dispatcher>>
    BY <1>1 DEF Job!Deliver, Job!rowVars
  <2> HIDE DEF state
  <2> QED BY <2>1, <2>2, BystanderStep DEF JobMoves
<1>2. ASSUME NEW pc \in {"read", "start", "ack"}, Job!Goto(c, pc),
             UNCHANGED <<jobStatus, staged, dispatcher>>
      PROVE  JobInv' /\ JobMoves
  <2>1. next(pc, Job!NoFailure) \in Job!Consumer /\ next(pc, Job!NoFailure).pc = pc
    BY StatesOfConsumers DEF Job!FailureClass, Job!NoFailure
  <2>2. consumer' = [consumer EXCEPT ![c] = next(pc, Job!NoFailure)]
    BY <1>2 DEF Job!Goto, Job!Become
  <2> HIDE DEF next
  <2> QED BY <1>2, <2>1, <2>2, BystanderStep DEF JobMoves
<1>3. ASSUME Job!Return(c), UNCHANGED <<jobStatus, staged, dispatcher>>
      PROVE  JobInv' /\ JobMoves
  <2>1. Job!IdleConsumer \in Job!Consumer /\ Job!IdleConsumer.pc = "idle"
    BY StatesOfConsumers DEF Job!FailureClass, Job!NoFailure
  <2>2. consumer' = [consumer EXCEPT ![c] = Job!IdleConsumer]
    BY <1>3 DEF Job!Return
  <2> QED BY <1>3, <2>1, <2>2, BystanderStep DEF JobMoves
<1>4. CASE Job!Acknowledge(c)
  BY <1>3, <1>4 DEF Job!Acknowledge, Job!rowVars
<1>5. CASE Job!ReadImportProcessingJob(c)
  BY <1>2, <1>5 DEF Reliable, Job!ReadImportProcessingJob, Job!rowVars
<1>6. CASE Job!MarkProcessingStarted(c)
  <2>1. CASE Job!Startable
    <3>1. next("source", Job!NoFailure) \in Job!Consumer /\ next("source", Job!NoFailure).pc = "source"
      BY StatesOfConsumers DEF Job!FailureClass, Job!NoFailure
    <3>2. /\ consumer' = [consumer EXCEPT ![c] = next("source", Job!NoFailure)]
          /\ jobStatus = "queued" /\ jobStatus' = "processing"
          /\ UNCHANGED <<staged, dispatcher>>
      BY <1>6, <2>1 DEF Job!MarkProcessingStarted, Job!Startable, Job!Goto, Job!Become
    <3> HIDE DEF next
    <3> QED BY <3>1, <3>2, WinnerStarts DEF JobMoves
  <2>2. CASE ~Job!Startable
    BY <1>2, <1>6, <2>2 DEF Job!MarkProcessingStarted
  <2> QED BY <2>1, <2>2
<1>7. CASE Job!ParseSource(c)
  <2>1. /\ c \in Job!Owners
        /\ UNCHANGED <<jobStatus, staged, dispatcher>>
        /\ \/ Job!Goto(c, "stage")
           \/ \E class \in {"source_missing", "validation", "processing"} : Job!FailWith(c, class)
    BY <1>7 DEF Job!ParseSource, Job!Owners, Job!rowVars
  <2>2. CASE Job!Goto(c, "stage")
    <3>1. next("stage", Job!NoFailure) \in Job!Consumer /\ next("stage", Job!NoFailure).pc = "stage"
      BY StatesOfConsumers DEF Job!FailureClass, Job!NoFailure
    <3>2. consumer' = [consumer EXCEPT ![c] = next("stage", Job!NoFailure)]
      BY <2>2 DEF Job!Goto, Job!Become
    <3> HIDE DEF next
    <3> QED BY <2>1, <3>1, <3>2, OwnerStep DEF JobMoves
  <2>3. ASSUME NEW class \in {"source_missing", "validation", "processing"},
               Job!FailWith(c, class)
        PROVE  JobInv' /\ JobMoves
    <3>1. /\ next("fail", class) \in Job!Consumer
          /\ next("fail", class).pc = "fail" /\ next("fail", class).class = class
      BY StatesOfConsumers DEF Job!FailureClass
    <3>2. consumer' = [consumer EXCEPT ![c] = next("fail", class)]
      BY <2>3 DEF Job!FailWith, Job!Become
    <3> HIDE DEF next
    <3> QED BY <2>1, <2>3, <3>1, <3>2, OwnerStep DEF JobMoves
  <2> QED BY <2>1, <2>2, <2>3
<1>8. ASSUME Job!StageImportJobRecords(c) \/ Job!RecordProcessingFailure(c)
      PROVE  JobInv' /\ JobMoves
  <2>1. /\ c \in Job!Owners
        /\ jobStatus = "processing"
        /\ Job!Goto(c, "ack")
        /\ UNCHANGED dispatcher
        /\ \/ jobStatus' = "needs_review" /\ staged' = Job!StagedRows
           \/ jobStatus' = "failed" /\ UNCHANGED staged
    BY <1>8
    DEF Reliable, JobInv, Job!Owners, Job!StageImportJobRecords, Job!RecordProcessingFailure,
        Job!MarkImportJobFailed
  <2>2. next("ack", Job!NoFailure) \in Job!Consumer /\ next("ack", Job!NoFailure).pc = "ack"
    BY StatesOfConsumers DEF Job!FailureClass, Job!NoFailure
  <2>3. consumer' = [consumer EXCEPT ![c] = next("ack", Job!NoFailure)]
    BY <2>1 DEF Job!Goto, Job!Become
  <2> HIDE DEF next
  <2> QED BY <2>1, <2>2, <2>3, OwnerEnds DEF JobMoves
<1>9. ~Job!ProcessingThrows(c) /\ ~Job!RecordingThrows(c)
  BY DEF Reliable, Job!ProcessingThrows, Job!RecordingThrows
<1>10. CASE Job!ConsumerCrashes(c)
  BY <1>3, <1>10 DEF Job!ConsumerCrashes, Job!rowVars
<1> QED BY <1>1, <1>4, <1>5, <1>6, <1>7, <1>8, <1>9, <1>10 DEF Job!ConsumerStep

LEMMA JobStepJobInv ==
  ASSUME Reliable, JobInv, Job!JobStep
  PROVE  JobInv' /\ JobMoves
<1>1. ASSUME NEW d \in Job!Dispatchers,
             Job!DispatcherStep(d) \/ Job!DispatcherStops(d) \/ Job!MoveToDeadLetterQueue(d)
      PROVE  JobInv' /\ JobMoves
  <2>1. /\ UNCHANGED <<consumer, staged>>
        /\ dispatcher' \in [Job!Dispatchers -> Job!DispatcherPc \ {"fail"}]
        /\ jobStatus' = jobStatus \/ (jobStatus = "failed" /\ jobStatus' = "queued")
    BY <1>1, DispatchKeepsJob
  <2>2. Job!Owners' = Job!Owners
    BY <2>1 DEF Job!Owners
  <2> QED BY <2>1, <2>2 DEF JobInv, JobMoves
<1>2. CASE Job!SourceChanges
  BY <1>2 DEF Job!SourceChanges, Job!rowVars, JobInv, JobMoves, Job!Owners
<1> QED BY <1>1, <1>2, ConsumerKeepsJob DEF Job!JobStep

\* A job step takes no job out of review and stages rows only to bring one there.
LEMMA JobMovesKeepReview ==
  ASSUME ReviewInv, JobMoves, UNCHANGED reviewOnly
  PROVE  ReviewInv'
BY DEF ReviewInv, JobMoves, InReview, InFlight, reviewOnly

-----------------------------------------------------------------------------
(* Review steps. *)

\* What a request that goes on has read: some rows, all of one status that it is
\* going to change.
Reading(request, records, seen) ==
  /\ records # {}
  /\ \A r \in records : staged[r] = seen
  /\ seen \notin {"committed", TargetStatus(request)}
  /\ request = "commit" => seen = "approved"
  /\ request = "confirm_pending" => seen = "pending"

\* The kinds of step a request takes.
LEMMA ReviewMoves ==
  ASSUME IInv, NEW c \in Calls, ReviewStep(c)
  PROVE  \/ UNCHANGED dbVars /\ Answer(c)
         \/ /\ UNCHANGED dbVars /\ CanStart(c)
            /\ \E request \in Request, records \in SUBSET Records, seen \in StagedRecordStatus :
                 Reading(request, records, seen) /\ Proceed(c, request, records, seen)
         \/ ReadSummary(c)
         \/ WriteDecision(c) \/ WriteConfirmation(c) \/ WriteCommit(c)
<1>1. ASSUME NEW r \in Records, NEW action \in ReviewAction, ReadDecisionTarget(c, r, action)
      PROVE  \E request \in Request, records \in SUBSET Records, seen \in StagedRecordStatus :
               Reading(request, records, seen) /\ Proceed(c, request, records, seen)
  <2>1. /\ action \in Request /\ {r} \in SUBSET Records
        /\ action \notin {"commit", "confirm_pending"}
        /\ TargetStatus(action) = StagedStatusForReviewAction(action)
    BY DEF Request, ReviewAction, TargetStatus
  <2>2. staged[r] \in StagedRecordStatus \ {"committed", StagedStatusForReviewAction(action)}
    BY <1>1 DEF IInv, TypeOK, RowStatus, Unstaged, ReadDecisionTarget, Refused
  <2>3. Reading(action, {r}, staged[r])
    BY <2>1, <2>2 DEF Reading
  <2> QED BY <1>1, <2>1, <2>2, <2>3 DEF ReadDecisionTarget
<1>2. ASSUME PendingRecords # {}, Proceed(c, "confirm_pending", PendingRecords, "pending")
      PROVE  \E request \in Request, records \in SUBSET Records, seen \in StagedRecordStatus :
               Reading(request, records, seen) /\ Proceed(c, request, records, seen)
  <2>1. /\ "confirm_pending" \in Request /\ PendingRecords \in SUBSET Records
        /\ "pending" \in StagedRecordStatus
        /\ TargetStatus("confirm_pending") = "approved"
    BY DEF Request, ReviewAction, PendingRecords, StagedRecordStatus, TargetStatus,
           StagedStatusForReviewAction
  <2>2. Reading("confirm_pending", PendingRecords, "pending")
    BY <1>2, <2>1 DEF Reading, PendingRecords
  <2> QED BY <1>2, <2>1, <2>2
<1>3. ASSUME ApprovedRecords # {}, Proceed(c, "commit", ApprovedRecords, "approved")
      PROVE  \E request \in Request, records \in SUBSET Records, seen \in StagedRecordStatus :
               Reading(request, records, seen) /\ Proceed(c, request, records, seen)
  <2>1. /\ "commit" \in Request /\ ApprovedRecords \in SUBSET Records
        /\ "approved" \in StagedRecordStatus
        /\ TargetStatus("commit") = "committed"
    BY DEF Request, ReviewAction, ApprovedRecords, StagedRecordStatus, TargetStatus
  <2>2. Reading("commit", ApprovedRecords, "approved")
    BY <1>3, <2>1 DEF Reading, ApprovedRecords
  <2> QED BY <1>3, <2>1, <2>2
<1> QED
  BY <1>1, <1>2, <1>3
  DEF ReviewStep, RefuseDecision, ReadDecisionTarget, ReadPendingRecords, ReadApprovedRecords,
      CommitConflict, FailCall

LEMMA DerivedInReview ==
  ASSUME NEW summary
  PROVE  JobStatusForReviewSummary(summary) \in InReview
BY DEF JobStatusForReviewSummary, InReview

\* A request writes only when rows are there, so the job is in review and has no
\* owner, and it leaves the job in review.
LEMMA ReviewStepStages ==
  ASSUME StageInv, NEW c \in Calls, ReviewStep(c), UNCHANGED jobOnly
  PROVE  /\ JobInv' /\ ReviewInv'
         /\ jobStatus \in InReview => jobStatus' \in InReview
<1>1. CASE UNCHANGED dbVars /\ Answer(c)
  BY <1>1, IdleType
  DEF StageInv, IInv, TypeOK, JobInv, ReviewInv, InFlight, Answer, dbVars, jobOnly, Job!Owners
<1>2. ASSUME NEW request \in Request, NEW records \in SUBSET Records,
             NEW seen \in StagedRecordStatus, UNCHANGED dbVars,
             Reading(request, records, seen), Proceed(c, request, records, seen)
      PROVE  /\ JobInv' /\ ReviewInv'
             /\ jobStatus \in InReview => jobStatus' \in InReview
  BY <1>2
  DEF StageInv, IInv, TypeOK, JobInv, ReviewInv, InFlight, Proceed, Reading, dbVars, jobOnly,
      Job!Owners
<1>3. CASE ReadSummary(c)
  BY <1>3, DerivedInReview
  DEF StageInv, IInv, TypeOK, CallState, JobInv, ReviewInv, InFlight, ReadSummary, StatusAfter,
      dbVars, jobOnly, Job!Owners
<1>4. CASE WriteDecision(c) \/ WriteConfirmation(c) \/ WriteCommit(c)
  <2>1. /\ c \in InFlight /\ call[c].status \in InReview
        /\ jobStatus' = call[c].status
        /\ Answer(c)
    BY <1>4
    DEF StageInv, ReviewInv, InFlight, WriteDecision, WriteConfirmation, WriteCommit, Writing
  <2>2. jobStatus \in InReview
    BY <2>1 DEF StageInv, IInv, TypeOK, CallState, FlightsAreFounded, ReviewInv, InFlight
  <2>3. Job!Owners = {}
    BY <2>2 DEF StageInv, JobInv, InReview
  <2>4. JobInv'
    BY <2>3 DEF StageInv, JobInv, jobOnly, Job!Owners
  <2>5. ReviewInv'
    BY <2>1, IdleType DEF StageInv, IInv, TypeOK, ReviewInv, InFlight, Answer
  <2> QED BY <2>1, <2>4, <2>5
<1> QED BY <1>1, <1>2, <1>3, <1>4, ReviewMoves DEF StageInv

LEMMA NextStageInv ==
  Reliable /\ StageInv /\ [PipelineNext]_pipelineVars =>
    StageInv' /\ (jobStatus \in InReview => jobStatus' \in InReview)
<1>1. SUFFICES ASSUME Reliable, StageInv, [PipelineNext]_pipelineVars
               PROVE  StageInv' /\ (jobStatus \in InReview => jobStatus' \in InReview)
  OBVIOUS
<1>2. IInv'
  BY <1>1, PipelineNextIInv DEF StageInv
<1>3. CASE UNCHANGED pipelineVars
  BY <1>1, <1>2, <1>3
  DEF pipelineVars, jobOnly, reviewOnly, StageInv, JobInv, ReviewInv, InFlight, Job!Owners
<1>4. CASE Job!JobStep /\ UNCHANGED reviewOnly
  BY <1>1, <1>2, <1>4, JobStepJobInv, JobMovesKeepReview DEF StageInv, JobMoves, InReview
<1>5. CASE (\E c \in Calls : ReviewStep(c)) /\ UNCHANGED jobOnly
  BY <1>1, <1>2, <1>5, ReviewStepStages DEF StageInv
<1> QED BY <1>1, <1>3, <1>4, <1>5 DEF PipelineNext

LEMMA StageInvariance == Reliable => (PipelineSpec => []StageInv)
<1>1. SUFFICES ASSUME Reliable PROVE PipelineSpec => []StageInv
  OBVIOUS
<1>2. StageInv /\ [PipelineNext]_pipelineVars => StageInv'
  BY <1>1, NextStageInv
<1> QED BY <1>2, InitStageInv, PTL DEF PipelineSpec

\* With reliable faults, and however many consumers, retries and deliveries there are,
\* the job has one owner at a time, and none once it is in review.
THEOREM OneOwnerAtATime == Reliable => (PipelineSpec => []OneOwner)
<1>1. StageInv => OneOwner
  BY DEF StageInv, JobInv, OneOwner, Job!OneOwner
<1> QED BY <1>1, StageInvariance, PTL

\* And nothing takes a job out of review again.
THEOREM ReviewReachedOnce == Reliable => (PipelineSpec => ReviewIsReachedOnce)
<1>1. SUFFICES ASSUME Reliable PROVE PipelineSpec => ReviewIsReachedOnce
  OBVIOUS
<1>2. StageInv /\ [PipelineNext]_pipelineVars =>
        [(jobStatus \in InReview) => (jobStatus' \in InReview)]_pipelineVars
  BY <1>1, NextStageInv
<1>3. PipelineSpec => []StageInv
  BY <1>1, StageInvariance
<1> QED BY <1>2, <1>3, PTL DEF PipelineSpec, ReviewIsReachedOnce

-----------------------------------------------------------------------------
(* The life cycle of the documents. *)

\* An attempt is counted exactly when processing starts, and it starts from the queue.
LEMMA AttemptsAreStarts ==
  ASSUME Job!JobStep
  PROVE  \/ attemptCount' = attemptCount /\ (jobStatus' = "processing" => jobStatus = "processing")
         \/ /\ attemptCount' = attemptCount + 1
            /\ jobStatus = "queued" /\ jobStatus' = "processing"
BY DEF Job!JobStep, Job!DispatcherStep, Job!DispatcherStops, Job!MoveToDeadLetterQueue,
       Job!Deliver, Job!ConsumerStep, Job!ProcessingThrows, Job!RecordingThrows,
       Job!ConsumerCrashes, Job!SourceChanges, Job!ReadRetryTarget, Job!QueueRetry,
       Job!SendMessage, Job!SendThrows, Job!RecordDispatchFailure, Job!Acknowledge,
       Job!ReadImportProcessingJob, Job!MarkProcessingStarted, Job!Startable, Job!ParseSource,
       Job!StageImportJobRecords, Job!RecordProcessingFailure, Job!MarkImportJobFailed,
       Job!Requeue, Job!rowVars

StagedSet == {r \in Records : staged[r] # Unstaged}

\* The moves of a job step are those of the life cycle: when the owner stages the
\* records none was there before, so all of them are staged now.
LEMMA JobStepIsLifecycleStep ==
  ASSUME StageInv, Job!JobStep, JobMoves
  PROVE  [Lifecycle!LifecycleNext]_Lifecycle!lifecycleVars
<1> USE DEF Lifecycle!LifecycleNext, Lifecycle!lifecycleVars, Lifecycle!Move
<1>1. CASE UNCHANGED <<jobStatus, staged>>
  <2>1. attemptCount' = attemptCount
    BY <1>1, AttemptsAreStarts
  <2> QED BY <1>1, <2>1
<1>2. CASE jobStatus = "failed" /\ jobStatus' = "queued" /\ UNCHANGED staged
  BY <1>2, AttemptsAreStarts DEF Lifecycle!Retry
<1>3. CASE jobStatus = "queued" /\ jobStatus' = "processing" /\ UNCHANGED staged
  BY <1>3, AttemptsAreStarts DEF Lifecycle!Start
<1>4. CASE jobStatus = "processing" /\ jobStatus' = "failed" /\ UNCHANGED staged
  BY <1>4, AttemptsAreStarts DEF Lifecycle!Fail
<1>5. CASE jobStatus = "processing" /\ jobStatus' = "needs_review" /\ staged' = Job!StagedRows
  <2>1. \A r \in Records : staged[r] = Unstaged
    BY <1>5 DEF StageInv, ReviewInv, InReview
  <2>2. \A r \in Records : staged'[r] # Unstaged
    BY <1>5, <2>1 DEF Job!StagedRows, Job!Unstaged, Unstaged
  <2>3. StagedSet = {} /\ StagedSet' = Records
    BY <2>1, <2>2 DEF StagedSet
  <2>4. attemptCount' = attemptCount
    BY <1>5, AttemptsAreStarts
  <2> QED BY <1>5, <2>3, <2>4 DEF StagedSet, Lifecycle!Stage
<1> QED BY <1>1, <1>2, <1>3, <1>4, <1>5 DEF JobMoves

\* A request changes the status of rows that are there, and the job's only within review.
LEMMA ReviewStepIsLifecycleStep ==
  ASSUME StageInv, NEW c \in Calls, ReviewStep(c), UNCHANGED jobOnly,
         jobStatus \in InReview => jobStatus' \in InReview
  PROVE  [Lifecycle!LifecycleNext]_Lifecycle!lifecycleVars
<1>1. CASE UNCHANGED dbVars
  BY <1>1 DEF dbVars, jobOnly, Lifecycle!lifecycleVars
<1>2. CASE WriteDecision(c) \/ WriteConfirmation(c) \/ WriteCommit(c)
  <2>1. c \in InFlight /\ call[c].status \in InReview
    BY <1>2 DEF StageInv, ReviewInv, InFlight, WriteDecision, WriteConfirmation, WriteCommit, Writing
  <2>2. jobStatus \in InReview
    BY <2>1 DEF StageInv, IInv, TypeOK, CallState, FlightsAreFounded, ReviewInv, InFlight
  <2>3. call[c].records \subseteq Records
    BY DEF StageInv, IInv, TypeOK, CallState
  <2>4. \A r \in call[c].records : staged[r] # Unstaged
    BY <2>1 DEF StageInv, IInv, FlightsAreFounded, InFlight
  <2>5. TargetStatus(call[c].request) # Unstaged
    BY TargetStatusType DEF StageInv, IInv, TypeOK, CallState, StagedRecordStatus, Unstaged
  <2>6. \A r \in Records : staged'[r] # Unstaged <=> staged[r] # Unstaged
    BY <1>2, <2>4, <2>5
    DEF WriteDecision, WriteConfirmation, WriteCommit, Marked, Unstaged
  <2>7. StagedSet' = StagedSet
    BY <2>6 DEF StagedSet
  <2> QED
    BY <2>2, <2>7
    DEF StagedSet, InReview, jobOnly, Lifecycle!LifecycleNext, Lifecycle!lifecycleVars,
        Lifecycle!Review, Lifecycle!Reviewing
<1> QED BY <1>1, <1>2, ReviewMoves DEF StageInv, ReadSummary

\* With reliable faults the pipeline implements the life cycle that the documents draw,
\* for any number of consumers, retries, deliveries and racing reviewers.
THEOREM PipelineFollowsLifecycle == Reliable => (PipelineSpec => PipelineImplementsLifecycle)
<1>1. SUFFICES ASSUME Reliable PROVE PipelineSpec => PipelineImplementsLifecycle
  OBVIOUS
<1>2. PipelineInit => Lifecycle!LifecycleInit
  BY DEF PipelineInit, Job!Init, Job!Unstaged, Unstaged, Lifecycle!LifecycleInit
<1>3. StageInv /\ [PipelineNext]_pipelineVars => [Lifecycle!LifecycleNext]_Lifecycle!lifecycleVars
  <2>1. SUFFICES ASSUME StageInv, [PipelineNext]_pipelineVars
                 PROVE  [Lifecycle!LifecycleNext]_Lifecycle!lifecycleVars
    OBVIOUS
  <2>2. CASE UNCHANGED pipelineVars
    BY <2>2 DEF pipelineVars, jobOnly, Lifecycle!lifecycleVars
  <2>3. CASE Job!JobStep /\ UNCHANGED reviewOnly
    BY <1>1, <2>1, <2>3, JobStepJobInv, JobStepIsLifecycleStep DEF StageInv
  <2>4. CASE (\E c \in Calls : ReviewStep(c)) /\ UNCHANGED jobOnly
    BY <2>1, <2>4, ReviewStepStages, ReviewStepIsLifecycleStep
  <2> QED BY <2>1, <2>2, <2>3, <2>4 DEF PipelineNext
<1>4. PipelineSpec => []StageInv
  BY <1>1, StageInvariance
<1> QED
  BY <1>2, <1>3, <1>4, PTL DEF PipelineSpec, PipelineImplementsLifecycle, Lifecycle!LifecycleSpec

-----------------------------------------------------------------------------
(* Requests one at a time, any faults: a request finds the rows as it read   *)
(* them, so a commit marks every row it commits.                             *)

SerialInv ==
  /\ IInv
  /\ \A r \in Records : committedRecords[r] = committedRecordId[r]
  /\ \A r \in Records : staged[r] = "committed" <=> committedRecordId[r] # NoCall
  /\ \A c, d \in InFlight : c = d
  /\ \A c \in InFlight : Reading(call[c].request, call[c].records, call[c].seen)

LEMMA InitSerial == PipelineInit => SerialInv
<1>1. SUFFICES ASSUME PipelineInit PROVE SerialInv
  OBVIOUS
<1>2. InFlight = {}
  BY <1>1, IdleType DEF PipelineInit, InitCalls, InFlight
<1> QED
  BY <1>1, <1>2, PipelineInitIInv DEF PipelineInit, Job!Init, Job!Unstaged, Unstaged, SerialInv

LEMMA JobStepSerial ==
  ASSUME SerialInv, Job!JobStep, UNCHANGED reviewOnly, IInv'
  PROVE  SerialInv'
<1>1. \A r \in Records : staged[r] # Unstaged => staged'[r] = staged[r]
  BY JobStepKeepsRows
<1>2. \A r \in Records : staged'[r] = "committed" <=> staged[r] = "committed"
  BY JobStepWrites DEF Job!StagedRows, Job!Unstaged
<1>3. \A c \in InFlight' : Reading(call[c].request, call[c].records, call[c].seen)'
  <2>1. SUFFICES ASSUME NEW c \in InFlight
                 PROVE  Reading(call[c].request, call[c].records, call[c].seen)'
    BY DEF reviewOnly, InFlight
  <2>2. /\ call[c].records \subseteq Records
        /\ call[c].seen # Unstaged
        /\ Reading(call[c].request, call[c].records, call[c].seen)
    BY <2>1 DEF SerialInv, IInv, TypeOK, CallState, StagedRecordStatus, Unstaged, InFlight
  <2> QED BY <1>1, <2>2 DEF Reading, reviewOnly
<1> QED BY <1>2, <1>3 DEF SerialInv, reviewOnly, InFlight

\* The request that moves was the only one, so when it is over there is none.
LEMMA AnswerEndsFlights ==
  ASSUME TypeOK, NEW c \in Calls, Answer(c)
  PROVE  InFlight' = InFlight \ {c}
BY IdleType DEF TypeOK, Answer, InFlight

LEMMA StartIsAlone ==
  ASSUME MaxInFlight = 1, NEW c \in Calls, CanStart(c)
  PROVE  InFlight = {}
<1>1. IsFiniteSet(InFlight)
  BY ReviewAssumption, FS_Subset DEF InFlight
<1>2. Cardinality(InFlight) = 0
  BY <1>1, FS_CardinalityType DEF CanStart
<1> QED BY <1>1, <1>2, FS_EmptySet

\* A commit marks all the rows it writes.
LEMMA CommitMarksAll ==
  ASSUME SerialInv, NEW c \in Calls, WriteCommit(c)
  PROVE  Marked(c) = call[c].records
<1>1. c \in InFlight /\ call[c].request = "commit" /\ call[c].records \subseteq Records
  BY DEF WriteCommit, Writing, InFlight, SerialInv, IInv, TypeOK, CallState
<1>2. \A r \in call[c].records : staged[r] = "approved"
  BY <1>1 DEF SerialInv, Reading
<1> QED BY <1>1, <1>2 DEF SerialInv, Marked

LEMMA ReviewStepSerial ==
  ASSUME MaxInFlight = 1, SerialInv, NEW c \in Calls, ReviewStep(c), IInv'
  PROVE  SerialInv'
<1>0. TypeOK
  BY DEF SerialInv, IInv
<1>1. CASE UNCHANGED dbVars /\ Answer(c)
  <2>1. InFlight' = InFlight \ {c}
    BY <1>0, <1>1, AnswerEndsFlights
  <2>2. \A d \in InFlight' : call'[d] = call[d]
    BY <1>0, <1>1, <2>1 DEF TypeOK, Answer, InFlight
  <2> QED BY <1>1, <2>1, <2>2 DEF SerialInv, dbVars, Reading
<1>2. ASSUME NEW request \in Request, NEW records \in SUBSET Records,
             NEW seen \in StagedRecordStatus, UNCHANGED dbVars, CanStart(c),
             Reading(request, records, seen), Proceed(c, request, records, seen)
      PROVE  SerialInv'
  <2>1. InFlight = {}
    BY <1>2, StartIsAlone
  <2>2. /\ InFlight' = {c}
        /\ call'[c].request = request /\ call'[c].records = records /\ call'[c].seen = seen
    BY <1>0, <1>2, <2>1 DEF TypeOK, Proceed, InFlight
  <2> QED BY <1>2, <2>2 DEF SerialInv, dbVars, Reading
<1>3. CASE ReadSummary(c)
  <2>1. /\ InFlight' = InFlight
        /\ \A d \in Calls : /\ call'[d].request = call[d].request
                            /\ call'[d].records = call[d].records
                            /\ call'[d].seen = call[d].seen
    BY <1>0, <1>3 DEF TypeOK, CallState, ReadSummary, InFlight
  <2>2. ASSUME NEW d \in InFlight
        PROVE  Reading(call[d].request, call[d].records, call[d].seen)'
    <3>1. /\ call'[d].request = call[d].request
          /\ call'[d].records = call[d].records
          /\ call'[d].seen = call[d].seen
      BY <2>1 DEF InFlight
    <3>2. Reading(call[d].request, call[d].records, call[d].seen) /\ staged' = staged
      BY <1>3 DEF SerialInv, ReadSummary, dbVars
    <3> QED BY <3>1, <3>2 DEF Reading
  <2> QED BY <1>3, <2>1, <2>2 DEF SerialInv, ReadSummary, dbVars
<1>4. ASSUME WriteDecision(c) \/ WriteConfirmation(c) \/ WriteCommit(c)
      PROVE  /\ InFlight' = {}
             /\ Reading(call[c].request, call[c].records, call[c].seen)
             /\ call[c].records \subseteq Records
  <2>1. c \in InFlight /\ Answer(c)
    BY <1>4 DEF WriteDecision, WriteConfirmation, WriteCommit, Writing, InFlight
  <2>2. InFlight' = InFlight \ {c}
    BY <1>0, <2>1, AnswerEndsFlights
  <2> QED BY <1>0, <2>1, <2>2 DEF SerialInv, TypeOK, CallState
<1>5. CASE WriteDecision(c)
  <2>1. TargetStatus(call[c].request) \in {"approved", "rejected"}
    BY <1>5 DEF WriteDecision, Writing, TargetStatus, ReviewAction, StagedStatusForReviewAction
  <2>2. \A r \in Records : staged'[r] = "committed" <=> staged[r] = "committed"
    BY <1>4, <1>5, <2>1 DEF WriteDecision, Reading
  <2> QED BY <1>4, <1>5, <2>2 DEF SerialInv, WriteDecision
<1>6. CASE WriteConfirmation(c)
  <2>1. \A r \in Records : staged'[r] = "committed" <=> staged[r] = "committed"
    BY <1>6 DEF WriteConfirmation
  <2> QED BY <1>4, <1>6, <2>1 DEF SerialInv, WriteConfirmation
<1>7. CASE WriteCommit(c)
  <2>1. Marked(c) = call[c].records
    BY <1>7, CommitMarksAll
  <2>2. c # NoCall
    BY ReviewAssumption
  <2> QED BY <1>4, <1>7, <2>1, <2>2 DEF SerialInv, WriteCommit
<1> QED BY <1>1, <1>2, <1>3, <1>5, <1>6, <1>7, ReviewMoves DEF SerialInv

LEMMA NextSerial ==
  MaxInFlight = 1 /\ SerialInv /\ [PipelineNext]_pipelineVars => SerialInv'
<1>1. SUFFICES ASSUME MaxInFlight = 1, SerialInv, [PipelineNext]_pipelineVars
               PROVE  SerialInv'
  OBVIOUS
<1>2. IInv'
  BY <1>1, PipelineNextIInv DEF SerialInv
<1>3. CASE UNCHANGED pipelineVars
  BY <1>1, <1>2, <1>3 DEF pipelineVars, reviewOnly, SerialInv, InFlight, Reading
<1>4. CASE Job!JobStep /\ UNCHANGED reviewOnly
  BY <1>1, <1>2, <1>4, JobStepSerial
<1>5. CASE (\E c \in Calls : ReviewStep(c)) /\ UNCHANGED jobOnly
  BY <1>1, <1>2, <1>5, ReviewStepSerial
<1> QED BY <1>1, <1>3, <1>4, <1>5 DEF PipelineNext

LEMMA SerialInvariance == MaxInFlight = 1 => (PipelineSpec => []SerialInv)
<1>1. SUFFICES ASSUME MaxInFlight = 1 PROVE PipelineSpec => []SerialInv
  OBVIOUS
<1>2. SerialInv /\ [PipelineNext]_pipelineVars => SerialInv'
  BY <1>1, NextSerial
<1> QED BY <1>2, InitSerial, PTL DEF PipelineSpec

\* One request at a time, whatever fails and is reprocessed, a rejected record has no
\* committed row.
THEOREM RejectedNeverCommitted == MaxInFlight = 1 => (PipelineSpec => []RejectedNotCommitted)
<1>1. SerialInv => RejectedNotCommitted
  BY DEF SerialInv, RejectedNotCommitted
<1> QED BY <1>1, SerialInvariance, PTL

\* And no commit is refused for a row that is there already.
THEOREM ApprovedAlwaysCommittable == MaxInFlight = 1 => (PipelineSpec => []ApprovedIsCommittable)
<1>1. SerialInv => ApprovedIsCommittable
  BY DEF SerialInv, ApprovedIsCommittable, ApprovedRecords
<1> QED BY <1>1, SerialInvariance, PTL

-----------------------------------------------------------------------------
(* Both: the status a request derives from counts is the one its rows get.   *)

With(rows, status) == {r \in Records : rows[r] = status}

\* Moving some records from one status to another moves the counts.
LEMMA CountsMove ==
  ASSUME NEW rows \in [Records -> RowStatus], NEW records \in SUBSET Records,
         NEW seen \in StagedRecordStatus, NEW target \in StagedRecordStatus, seen # target,
         \A r \in records : rows[r] = seen
  PROVE  LET moved == [r \in Records |-> IF r \in records THEN target ELSE rows[r]]
             n == Cardinality(records)
         IN  AdjustReviewStatus(AdjustReviewStatus(ReadReviewStatusSummary(rows), seen, -n), target, n)
               = ReadReviewStatusSummary(moved)
<1> DEFINE moved == [r \in Records |-> IF r \in records THEN target ELSE rows[r]]
           n == Cardinality(records)
           before == ReadReviewStatusSummary(rows)
           after == AdjustReviewStatus(AdjustReviewStatus(before, seen, -n), target, n)
<1>1. \A status : IsFiniteSet(With(rows, status)) /\ Cardinality(With(rows, status)) \in Nat
  BY ReviewAssumption, FS_Subset, FS_CardinalityType DEF With
<1>2. IsFiniteSet(records) /\ n \in Nat
  BY ReviewAssumption, FS_Subset, FS_CardinalityType
<1>3. Cardinality(With(moved, seen)) = Cardinality(With(rows, seen)) - n
  <2>1. With(moved, seen) = With(rows, seen) \ records /\ records \subseteq With(rows, seen)
    BY DEF With
  <2>2. With(rows, seen) \cap records = records
    BY <2>1
  <2> QED BY <1>1, <2>1, <2>2, FS_Difference
<1>4. Cardinality(With(moved, target)) = Cardinality(With(rows, target)) + n
  <2>1. With(moved, target) = With(rows, target) \cup records
    BY DEF With
  <2>2. With(rows, target) \cap records = {}
    BY DEF With
  <2>3. Cardinality(With(rows, target) \cap records) = 0
    BY <2>2, FS_EmptySet
  <2>4. /\ IsFiniteSet(With(rows, target))
        /\ Cardinality(With(rows, target)) \in Nat
    BY <1>1
  <2>5. Cardinality(With(rows, target) \cup records) =
          Cardinality(With(rows, target)) + Cardinality(records)
            - Cardinality(With(rows, target) \cap records)
    BY <1>2, <2>4, FS_Union
  <2>6. Cardinality(With(rows, target) \cup records) = Cardinality(With(rows, target)) + n
    BY <1>2, <2>3, <2>4, <2>5
  <2> QED BY <2>1, <2>6
<1>5. \A status \in StagedRecordStatus \ {seen, target} : With(moved, status) = With(rows, status)
  BY DEF With
<1>6. n <= Cardinality(With(rows, seen))
  <2>1. records \subseteq With(rows, seen)
    BY DEF With
  <2> QED BY <1>1, <2>1, FS_Subset
<1>7. /\ before = [s \in StagedRecordStatus |-> Cardinality(With(rows, s))]
      /\ ReadReviewStatusSummary(moved) = [s \in StagedRecordStatus |-> Cardinality(With(moved, s))]
  BY DEF ReadReviewStatusSummary, With
<1> HIDE DEF before, n, moved
<1>8. ASSUME NEW s \in StagedRecordStatus
      PROVE  after[s] = Cardinality(With(moved, s))
  <2>1. CASE s = seen
    BY <1>1, <1>2, <1>3, <1>6, <1>7, <2>1 DEF AdjustReviewStatus
  <2>2. CASE s = target
    BY <1>1, <1>2, <1>4, <1>7, <2>2 DEF AdjustReviewStatus
  <2>3. CASE s \notin {seen, target}
    BY <1>5, <1>7, <2>3 DEF AdjustReviewStatus
  <2> QED BY <2>1, <2>2, <2>3
<1>9. after = [s \in StagedRecordStatus |-> Cardinality(With(moved, s))]
  BY <1>8 DEF AdjustReviewStatus
<1>10. after = ReadReviewStatusSummary(moved)
  BY <1>7, <1>9
<1> QED BY <1>10 DEF before, n, moved

\* Where every row is pending, or none is there, review has yet to begin.
LEMMA PendingNeedsReview ==
  ASSUME NEW rows, rows = [r \in Records |-> "pending"]
  PROVE  JobStatusForReviewSummary(ReadReviewStatusSummary(rows)) = "needs_review"
<1>1. \A s \in {"approved", "committed"} : {r \in DOMAIN rows : rows[r] = s} = {}
  OBVIOUS
<1>2. \A s \in {"approved", "committed"} : ReadReviewStatusSummary(rows)[s] = 0
  BY <1>1, FS_EmptySet DEF ReadReviewStatusSummary, StagedRecordStatus
<1> QED BY <1>2 DEF JobStatusForReviewSummary

DerivedStatus == JobStatusForReviewSummary(ReadReviewStatusSummary(staged))

\* What a request is going to make of the job's status, from what it read.
Knows(c) ==
  call[c].status = StatusAfter(ReadReviewStatusSummary(staged), call[c].seen,
                               TargetStatus(call[c].request), Cardinality(call[c].records))

DerivedInv ==
  /\ StageInv
  /\ SerialInv
  /\ ReviewStatusIsDerived
  /\ \A c \in Calls : call[c].pc = "write" => Knows(c)

\* A status that a write finds already there is the one its records do not have.
LEMMA WriteDerives ==
  ASSUME DerivedInv, NEW c \in Calls,
         WriteDecision(c) \/ WriteConfirmation(c) \/ WriteCommit(c)
  PROVE  ReviewStatusIsDerived'
<1> DEFINE records == call[c].records
           seen == call[c].seen
           target == TargetStatus(call[c].request)
           moved == [r \in Records |-> IF r \in records THEN target ELSE staged[r]]
<1>1. /\ c \in InFlight /\ call[c].pc = "write"
      /\ jobStatus' = call[c].status
      /\ call[c].request \in Request
      /\ records \in SUBSET Records /\ seen \in StagedRecordStatus
      /\ staged \in [Records -> RowStatus]
  BY DEF DerivedInv, SerialInv, IInv, TypeOK, CallState, InFlight, WriteDecision,
         WriteConfirmation, WriteCommit, Writing
<1>2. /\ \A r \in records : staged[r] = seen
      /\ seen # target
      /\ call[c].request = "confirm_pending" => seen = "pending"
  BY <1>1 DEF DerivedInv, SerialInv, Reading
<1>3. target \in StagedRecordStatus
  BY <1>1, TargetStatusType
<1>4. staged' = moved
  <2>1. CASE WriteDecision(c)
    BY <2>1 DEF WriteDecision
  <2>2. CASE WriteConfirmation(c)
    <3>1. target = "approved" /\ \A r \in records : staged[r] = "pending"
      BY <1>2, <2>2 DEF WriteConfirmation, Writing, TargetStatus, StagedStatusForReviewAction,
                        ReviewAction
    <3> QED BY <2>2, <3>1 DEF WriteConfirmation
  <2>3. CASE WriteCommit(c)
    <3>1. Marked(c) = records /\ target = "committed"
      BY <2>3, CommitMarksAll DEF DerivedInv, WriteCommit, Writing, TargetStatus, ReviewAction
    <3> QED BY <2>3, <3>1 DEF WriteCommit
  <2> QED BY <2>1, <2>2, <2>3
<1>5. call[c].status = JobStatusForReviewSummary(ReadReviewStatusSummary(moved))
  BY <1>1, <1>2, <1>3, CountsMove DEF DerivedInv, Knows, StatusAfter
<1> HIDE DEF moved
<1> QED BY <1>1, <1>4, <1>5 DEF ReviewStatusIsDerived

LEMMA ReviewStepDerives ==
  ASSUME MaxInFlight = 1, DerivedInv, NEW c \in Calls, ReviewStep(c), UNCHANGED jobOnly,
         StageInv', SerialInv'
  PROVE  DerivedInv'
<1>0. TypeOK
  BY DEF DerivedInv, SerialInv, IInv
<1>1. CASE UNCHANGED dbVars /\ Answer(c)
  <2>1. \A d \in Calls : call'[d].pc = "write" => call'[d] = call[d]
    BY <1>0, <1>1, IdleType DEF TypeOK, Answer
  <2> QED BY <1>1, <2>1 DEF DerivedInv, ReviewStatusIsDerived, Knows, dbVars
<1>2. ASSUME NEW request \in Request, NEW records \in SUBSET Records,
             NEW seen \in StagedRecordStatus, UNCHANGED dbVars,
             Proceed(c, request, records, seen)
      PROVE  DerivedInv'
  <2>1. \A d \in Calls : call'[d].pc = "write" => call'[d] = call[d]
    BY <1>0, <1>2 DEF TypeOK, Proceed
  <2> QED BY <1>2, <2>1 DEF DerivedInv, ReviewStatusIsDerived, Knows, dbVars
<1>3. CASE ReadSummary(c)
  <2>1. /\ \A d \in Calls \ {c} : call'[d] = call[d]
        /\ call'[c].status = StatusAfter(ReadReviewStatusSummary(staged), call[c].seen,
                                 TargetStatus(call[c].request), Cardinality(call[c].records))
        /\ call'[c].request = call[c].request
        /\ call'[c].records = call[c].records
        /\ call'[c].seen = call[c].seen
        /\ UNCHANGED dbVars
    BY <1>0, <1>3 DEF TypeOK, CallState, ReadSummary
  <2>2. Knows(c)'
    BY <2>1 DEF Knows, dbVars
  <2>3. \A d \in Calls \ {c} : call'[d].pc = "write" => Knows(d)'
    BY <2>1 DEF DerivedInv, Knows, dbVars
  <2> QED BY <2>1, <2>2, <2>3 DEF DerivedInv, ReviewStatusIsDerived, dbVars
<1>4. CASE WriteDecision(c) \/ WriteConfirmation(c) \/ WriteCommit(c)
  <2>1. ReviewStatusIsDerived'
    BY <1>4, WriteDerives
  <2>2. c \in InFlight /\ Answer(c)
    BY <1>4 DEF WriteDecision, WriteConfirmation, WriteCommit, Writing, InFlight
  <2>3. InFlight' = {}
    BY <1>0, <2>2, AnswerEndsFlights DEF DerivedInv, SerialInv
  <2>4. \A d \in Calls : call'[d].pc # "write"
    BY <2>3 DEF InFlight
  <2> QED BY <2>1, <2>4 DEF DerivedInv
<1> QED BY <1>1, <1>2, <1>3, <1>4, ReviewMoves DEF DerivedInv, SerialInv

\* The job's own steps bring a job into review with all of its rows pending, before
\* any request is about them, and make nothing of rows that are in review.
LEMMA JobStepDerives ==
  ASSUME DerivedInv, JobMoves, UNCHANGED reviewOnly, StageInv', SerialInv'
  PROVE  DerivedInv'
<1>1. CASE UNCHANGED staged /\ (jobStatus' = jobStatus \/ jobStatus' \notin InReview)
  BY <1>1 DEF DerivedInv, ReviewStatusIsDerived, Knows, reviewOnly
<1>2. CASE jobStatus = "processing" /\ jobStatus' = "needs_review" /\ staged' = Job!StagedRows
  <2>1. \A r \in Records : staged[r] = Unstaged
    BY <1>2 DEF DerivedInv, StageInv, ReviewInv, InReview
  <2>2. staged' = [r \in Records |-> "pending"]
    BY <1>2, <2>1 DEF Job!StagedRows, Job!Unstaged, Unstaged
  <2>3. JobStatusForReviewSummary(ReadReviewStatusSummary(staged')) = "needs_review"
    BY <2>2, PendingNeedsReview
  <2>4. ASSUME NEW c \in InFlight PROVE FALSE
    <3>1. PICK r \in call[c].records : TRUE
      BY DEF DerivedInv, StageInv, ReviewInv
    <3>2. r \in Records
      BY DEF DerivedInv, StageInv, IInv, TypeOK, CallState, InFlight
    <3>3. staged[r] # Unstaged
      BY DEF DerivedInv, StageInv, IInv, FlightsAreFounded, InFlight
    <3> QED BY <2>1, <3>2, <3>3
  <2>5. \A c \in Calls : call'[c].pc # "write"
    BY <2>4 DEF InFlight, reviewOnly
  <2> QED BY <1>2, <2>3, <2>5 DEF DerivedInv, ReviewStatusIsDerived
<1> QED BY <1>1, <1>2 DEF JobMoves, InReview

LEMMA NextDerives ==
  Reliable /\ MaxInFlight = 1 /\ DerivedInv /\ [PipelineNext]_pipelineVars => DerivedInv'
<1>1. SUFFICES ASSUME Reliable, MaxInFlight = 1, DerivedInv, [PipelineNext]_pipelineVars
               PROVE  DerivedInv'
  OBVIOUS
<1>2. StageInv' /\ SerialInv'
  BY <1>1, NextStageInv, NextSerial DEF DerivedInv
<1>3. CASE UNCHANGED pipelineVars
  BY <1>1, <1>2, <1>3
  DEF pipelineVars, reviewOnly, DerivedInv, ReviewStatusIsDerived, Knows
<1>4. CASE Job!JobStep /\ UNCHANGED reviewOnly
  <2>1. JobMoves
    BY <1>1, <1>4, JobStepJobInv DEF DerivedInv, StageInv
  <2> QED BY <1>1, <1>2, <1>4, <2>1, JobStepDerives
<1>5. CASE (\E c \in Calls : ReviewStep(c)) /\ UNCHANGED jobOnly
  BY <1>1, <1>2, <1>5, ReviewStepDerives
<1> QED BY <1>1, <1>3, <1>4, <1>5 DEF PipelineNext

LEMMA InitDerives == PipelineInit => DerivedInv
BY InitStageInv, InitSerial, IdleType
DEF PipelineInit, Job!Init, InitCalls, InReview, DerivedInv, ReviewStatusIsDerived

LEMMA DerivedInvariance == Reliable /\ MaxInFlight = 1 => (PipelineSpec => []DerivedInv)
<1>1. SUFFICES ASSUME Reliable, MaxInFlight = 1 PROVE PipelineSpec => []DerivedInv
  OBVIOUS
<1>2. DerivedInv /\ [PipelineNext]_pipelineVars => DerivedInv'
  BY <1>1, NextDerives
<1> QED BY <1>2, InitDerives, PTL DEF PipelineSpec

\* With reliable faults and one request at a time, the status seen in review is the one
\* the rows stand for, whatever is redelivered and retried.
THEOREM StatusAlwaysDerived ==
  Reliable /\ MaxInFlight = 1 => (PipelineSpec => []ReviewStatusIsDerived)
<1>1. DerivedInv => ReviewStatusIsDerived
  BY DEF DerivedInv
<1> QED BY <1>1, DerivedInvariance, PTL

\* A committed job has nothing left to decide or to commit.
THEOREM CommittedJobAlwaysSettled ==
  Reliable /\ MaxInFlight = 1 => (PipelineSpec => []CommittedJobIsSettled)
<1>1. DerivedInv => CommittedJobIsSettled
  <2>1. SUFFICES ASSUME DerivedInv, jobStatus = "committed",
                        NEW r \in Records, NEW s \in {"pending", "approved"}, staged[r] = s
                 PROVE  FALSE
    BY DEF CommittedJobIsSettled
  <2> DEFINE summary == ReadReviewStatusSummary(staged)
  <2>2. JobStatusForReviewSummary(summary) = "committed"
    BY <2>1 DEF DerivedInv, ReviewStatusIsDerived, InReview
  <2>3. staged \in [Records -> RowStatus]
    BY <2>1 DEF DerivedInv, SerialInv, IInv, TypeOK
  <2>4. summary[s] = Cardinality(With(staged, s))
    BY <2>3 DEF ReadReviewStatusSummary, StagedRecordStatus, With
  <2>5. IsFiniteSet(With(staged, s)) /\ With(staged, s) # {}
    BY <2>1, ReviewAssumption, FS_Subset DEF With
  <2>6. summary[s] \in Nat /\ summary[s] # 0
    BY <2>4, <2>5, FS_EmptySet, FS_CardinalityType
  <2> HIDE DEF summary
  <2>7. summary["approved"] \in Nat
    <3>1. summary["approved"] = Cardinality(With(staged, "approved"))
      BY <2>3 DEF summary, ReadReviewStatusSummary, StagedRecordStatus, With
    <3>2. IsFiniteSet(With(staged, "approved"))
      BY ReviewAssumption, FS_Subset DEF With
    <3> QED BY <3>1, <3>2, FS_CardinalityType
  <2> QED BY <2>2, <2>6, <2>7 DEF JobStatusForReviewSummary
<1> QED BY <1>1, DerivedInvariance, PTL

=============================================================================
