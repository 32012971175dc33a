--------------------------- MODULE ImportJobProofs ---------------------------
(***************************************************************************)
(* What holds of ImportJob for every set of faults, every number of        *)
(* consumers, retries and deliveries.                                      *)
(*                                                                         *)
(* That a queued job is not forgotten needs two facts no property states:  *)
(* a dispatch that has not sent yet has a message nobody was given         *)
(* (SentLater), and the dispatch that keeps the job alive has a message no *)
(* consumer is about to acknowledge (Alive).                               *)
(***************************************************************************)
EXTENDS ImportJob, FiniteSetTheorems, TLAPS

\* A consumer about to record a failure knows which.
FailingHasClass ==
  \A c \in Consumers : consumer[c].pc = "fail" => consumer[c].class # NoFailure

Holds(c, d) == consumer[c].pc # "idle" /\ consumer[c].of = d

\* A message is unsent until its dispatch sends it, and given to nobody.
SentLater ==
  \A d \in Dispatchers :
    /\ dispatcher[d] \in {"idle", "requeue", "send", "refused"} => message[d].state = "unsent"
    /\ message[d].state = "unsent" =>
         /\ message[d].deliveries = 0
         /\ \A c \in Consumers : ~Holds(c, d)

Faulty == Faults \cap {"crash", "database"} # {}

\* The dispatch d will yet take the job out of "queued", or a fault has stopped it.
Alive(d) ==
  \/ dispatcher[d] \in {"send", "fail"}
  \/ /\ message[d].state = "queued"
     /\ \A c \in Consumers : Holds(c, d) => consumer[c].pc \in {"read", "start", "fail"}
     /\ Faulty \/ message[d].deliveries = 0 \/ \E c \in Consumers : Holds(c, d)
  \/ Faulty /\ (dispatcher[d] = "stopped" \/ message[d].state = "dead")

QueuedIsAlive == jobStatus = "queued" => \E d \in Dispatchers : Alive(d)

IInv ==
  /\ TypeOK
  /\ FailureIsClassified
  /\ FailingHasClass
  /\ SentLater
  /\ QueuedIsAlive

-----------------------------------------------------------------------------
LEMMA InitIInv == Init => IInv
<1>1. SUFFICES ASSUME Init PROVE IInv
  OBVIOUS
<1>2. TypeOK
  BY <1>1, JobAssumption
  DEF Init, InitProcesses, IdleConsumer, TypeOK, ImportJobStatus, RowStatus, FailureClass,
      NoFailure, Message, Consumer, Dispatchers, DispatcherPc
<1>3. FailureIsClassified /\ FailingHasClass
  BY <1>1 DEF Init, InitProcesses, IdleConsumer, FailureIsClassified, FailingHasClass
<1>4. SentLater
  BY <1>1 DEF Init, InitProcesses, IdleConsumer, SentLater, Holds
<1>5. Intake \in Dispatchers /\ dispatcher[Intake] = "send"
  BY <1>1 DEF Init, InitProcesses, Dispatchers
<1> QED BY <1>2, <1>3, <1>4, <1>5 DEF IInv, QueuedIsAlive, Alive

-----------------------------------------------------------------------------
(* Types. *)

\* A step of a dispatch moves to a control state of dispatches.
LEMMA StepType ==
  ASSUME TypeOK, NEW d \in Dispatchers, NEW from, NEW to \in DispatcherPc, Step(d, from, to)
  PROVE  dispatcher' \in [Dispatchers -> DispatcherPc]
BY DEF TypeOK, Step

LEMMA SetMessageType ==
  ASSUME TypeOK, NEW d \in Dispatchers, NEW deliveries \in 0..MaxDeliveries,
         NEW state \in {"unsent", "queued", "acked", "dead"},
         SetMessage(d, state, deliveries)
  PROVE  message' \in [Dispatchers -> Message]
BY DEF TypeOK, SetMessage, Message

LEMMA BecomeType ==
  ASSUME TypeOK, NEW c \in Consumers, NEW class \in FailureClass,
         NEW pc \in {"idle", "read", "start", "source", "stage", "fail", "ack"},
         Become(c, pc, class)
  PROVE  consumer' \in [Consumers -> Consumer]
BY DEF TypeOK, Become, Consumer

LEMMA ReturnType ==
  ASSUME TypeOK, NEW c \in Consumers, Return(c)
  PROVE  consumer' \in [Consumers -> Consumer]
BY DEF TypeOK, Return, IdleConsumer, Consumer, Dispatchers, FailureClass, NoFailure

LEMMA DispatcherType ==
  ASSUME TypeOK, NEW d \in Dispatchers, DispatcherStep(d) \/ DispatcherStops(d)
  PROVE  TypeOK'
<1>1. /\ {"idle", "requeue", "send", "fail", "done", "refused", "stopped"} = DispatcherPc
      /\ message[d].deliveries \in 0..MaxDeliveries
  BY DEF DispatcherPc, TypeOK, Message
<1>2. CASE ReadRetryTarget(d)
  BY <1>1, <1>2, StepType DEF ReadRetryTarget, TypeOK, rowVars
<1>3. CASE QueueRetry(d)
  BY <1>1, <1>3, StepType
  DEF QueueRetry, Requeue, TypeOK, ImportJobStatus, FailureClass, NoFailure
<1>4. CASE SendMessage(d)
  BY <1>1, <1>4, StepType, SetMessageType DEF SendMessage, Enqueue, TypeOK, rowVars
<1>5. CASE SendThrows(d)
  BY <1>1, <1>5, StepType, SetMessageType DEF SendThrows, Enqueue, TypeOK, rowVars
<1>6. CASE RecordDispatchFailure(d)
  BY <1>1, <1>6, StepType
  DEF RecordDispatchFailure, MarkImportJobFailed, TypeOK, ImportJobStatus, FailureClass
<1>7. CASE DispatcherStops(d)
  BY <1>1, <1>7, StepType DEF DispatcherStops, TypeOK, rowVars
<1> QED BY <1>2, <1>3, <1>4, <1>5, <1>6, <1>7 DEF DispatcherStep

LEMMA QueueType ==
  ASSUME TypeOK, NEW d \in Dispatchers,
         MoveToDeadLetterQueue(d) \/ \E c \in Consumers : Deliver(c, d) \/ Acknowledge(c)
  PROVE  TypeOK'
<1>1. CASE MoveToDeadLetterQueue(d)
  BY <1>1, JobAssumption, SetMessageType DEF MoveToDeadLetterQueue, TypeOK, rowVars
<1>2. ASSUME NEW c \in Consumers, Deliver(c, d) PROVE TypeOK'
  <2>1. message[d].deliveries + 1 \in 0..MaxDeliveries
    BY <1>2, JobAssumption DEF Deliver, TypeOK, Message
  <2>2. consumer' \in [Consumers -> Consumer]
    BY <1>2 DEF Deliver, TypeOK, Consumer, FailureClass, NoFailure
  <2> QED BY <1>2, <2>1, <2>2, SetMessageType DEF Deliver, TypeOK, rowVars
<1>3. ASSUME NEW c \in Consumers, Acknowledge(c) PROVE TypeOK'
  <2> DEFINE of == consumer[c].of
  <2>1. /\ of \in Dispatchers
        /\ message[of].deliveries \in 0..MaxDeliveries
        /\ message[of].state \in {"unsent", "queued", "acked", "dead"}
    BY DEF TypeOK, Consumer, Message
  <2>2. SetMessage(of, IF message[of].state = "queued" THEN "acked" ELSE message[of].state,
                   message[of].deliveries)
    BY <1>3 DEF Acknowledge
  <2>3. message' \in [Dispatchers -> Message]
    BY <2>1, <2>2, SetMessageType
  <2> QED BY <1>3, <2>3, ReturnType DEF Acknowledge, TypeOK, rowVars
<1> QED BY <1>1, <1>2, <1>3

LEMMA ConsumerType ==
  ASSUME TypeOK, NEW c \in Consumers,
         \/ ReadImportProcessingJob(c) \/ MarkProcessingStarted(c) \/ ParseSource(c)
         \/ StageImportJobRecords(c) \/ ProcessingThrows(c) \/ RecordProcessingFailure(c)
         \/ RecordingThrows(c) \/ ConsumerCrashes(c)
  PROVE  TypeOK'
<1>1. FailureClass = {NoFailure, "adapter_missing", "source_missing", "validation",
                      "processing", "queue_dispatch"}
  BY DEF FailureClass
<1>2. CASE ReadImportProcessingJob(c)
  BY <1>1, <1>2, BecomeType DEF ReadImportProcessingJob, Goto, FailWith, TypeOK, rowVars
<1>3. CASE MarkProcessingStarted(c)
  BY <1>1, <1>3, BecomeType DEF MarkProcessingStarted, Goto, TypeOK, ImportJobStatus
<1>4. CASE ParseSource(c)
  BY <1>1, <1>4, BecomeType DEF ParseSource, Goto, FailWith, TypeOK, rowVars
<1>5. CASE StageImportJobRecords(c)
  <2>1. staged' \in [Records -> RowStatus]
    BY <1>5 DEF StageImportJobRecords, StagedRows, TypeOK, RowStatus, StagedRecordStatus
  <2> QED BY <1>1, <1>5, <2>1, BecomeType DEF StageImportJobRecords, Goto, FailWith, TypeOK, ImportJobStatus
<1>6. CASE ProcessingThrows(c)
  BY <1>1, <1>6, BecomeType DEF ProcessingThrows, FailWith, TypeOK, rowVars
<1>7. CASE RecordProcessingFailure(c)
  <2>1. consumer[c].class \in FailureClass
    BY DEF TypeOK, Consumer
  <2> QED BY <1>1, <1>7, <2>1, BecomeType, ReturnType
          DEF RecordProcessingFailure, MarkImportJobFailed, Rethrow, Goto, FailWith, TypeOK, ImportJobStatus
<1>8. CASE RecordingThrows(c)
  BY <1>1, <1>8, BecomeType, ReturnType DEF RecordingThrows, Rethrow, FailWith, TypeOK, rowVars
<1>9. CASE ConsumerCrashes(c)
  BY <1>9, ReturnType DEF ConsumerCrashes, TypeOK, rowVars
<1> QED BY <1>2, <1>3, <1>4, <1>5, <1>6, <1>7, <1>8, <1>9

LEMMA TypeStep == TypeOK /\ [Next]_jobVars => TypeOK'
<1>1. SUFFICES ASSUME TypeOK, [Next]_jobVars PROVE TypeOK'
  OBVIOUS
<1>2. CASE UNCHANGED jobVars
  BY <1>1, <1>2 DEF jobVars, rowVars, TypeOK
<1>3. CASE SourceChanges
  BY <1>1, <1>3 DEF SourceChanges, rowVars, TypeOK
<1>4. ASSUME NEW c \in Consumers, Acknowledge(c) PROVE TypeOK'
  BY <1>1, <1>4, QueueType DEF Dispatchers
<1> QED
  BY <1>1, <1>2, <1>3, <1>4, DispatcherType, QueueType, ConsumerType
  DEF Next, JobStep, ConsumerStep

-----------------------------------------------------------------------------
(* The failure class. *)

\* A consumer that has no failure to record, or one with a class, keeps FailingHasClass.
LEMMA BecomeKeepsClass ==
  ASSUME TypeOK, FailingHasClass, NEW c \in Consumers, NEW pc, NEW class,
         Become(c, pc, class), pc = "fail" => class # NoFailure
  PROVE  FailingHasClass'
BY DEF TypeOK, FailingHasClass, Become

LEMMA ReturnKeepsClass ==
  ASSUME TypeOK, FailingHasClass, NEW c \in Consumers, Return(c)
  PROVE  FailingHasClass'
BY DEF TypeOK, FailingHasClass, Return, IdleConsumer

LEMMA ClassStep ==
  ASSUME TypeOK, FailureIsClassified, FailingHasClass, [Next]_jobVars
  PROVE  FailureIsClassified' /\ FailingHasClass'
<1>1. CASE UNCHANGED <<jobStatus, failureClass, consumer>>
  BY <1>1 DEF FailureIsClassified, FailingHasClass
<1>2. ASSUME NEW d \in Dispatchers, QueueRetry(d)
      PROVE  FailureIsClassified' /\ FailingHasClass'
  BY <1>2 DEF QueueRetry, Requeue, FailureIsClassified, FailingHasClass
<1>3. ASSUME NEW d \in Dispatchers, RecordDispatchFailure(d)
      PROVE  FailureIsClassified' /\ FailingHasClass'
  BY <1>3 DEF RecordDispatchFailure, MarkImportJobFailed, FailureIsClassified,
              FailingHasClass, NoFailure
<1>4. ASSUME NEW c \in Consumers, NEW d \in Dispatchers, Deliver(c, d)
      PROVE  FailureIsClassified' /\ FailingHasClass'
  BY <1>4 DEF Deliver, rowVars, TypeOK, FailureIsClassified, FailingHasClass
<1>5. ASSUME NEW c \in Consumers, Acknowledge(c) \/ ConsumerCrashes(c)
      PROVE  FailureIsClassified' /\ FailingHasClass'
  BY <1>5, ReturnKeepsClass DEF Acknowledge, ConsumerCrashes, rowVars, FailureIsClassified
<1>6. ASSUME NEW c \in Consumers,
             ReadImportProcessingJob(c) \/ ParseSource(c) \/ ProcessingThrows(c) \/ RecordingThrows(c)
      PROVE  FailureIsClassified' /\ FailingHasClass'
  <2>1. UNCHANGED <<jobStatus, failureClass>>
    BY <1>6 DEF ReadImportProcessingJob, ParseSource, ProcessingThrows, RecordingThrows, rowVars
  <2>2. FailingHasClass'
    BY <1>6, BecomeKeepsClass, ReturnKeepsClass
    DEF ReadImportProcessingJob, ParseSource, ProcessingThrows, RecordingThrows, Rethrow, Goto,
        FailWith, NoFailure
  <2> QED BY <2>1, <2>2 DEF FailureIsClassified
<1>7. ASSUME NEW c \in Consumers, MarkProcessingStarted(c) \/ StageImportJobRecords(c)
      PROVE  FailureIsClassified' /\ FailingHasClass'
  <2>1. FailingHasClass'
    BY <1>7, BecomeKeepsClass
    DEF MarkProcessingStarted, StageImportJobRecords, Goto, FailWith, NoFailure
  <2> QED BY <1>7, <2>1 DEF MarkProcessingStarted, StageImportJobRecords, Startable,
                            FailureIsClassified
<1>8. ASSUME NEW c \in Consumers, RecordProcessingFailure(c)
      PROVE  FailureIsClassified' /\ FailingHasClass'
  <2>1. FailingHasClass'
    BY <1>8, BecomeKeepsClass, ReturnKeepsClass
    DEF RecordProcessingFailure, Rethrow, Goto, FailWith, NoFailure
  <2>2. consumer[c].class # NoFailure
    BY <1>8 DEF RecordProcessingFailure, FailingHasClass
  <2> QED BY <1>8, <2>1, <2>2 DEF RecordProcessingFailure, MarkImportJobFailed, FailureIsClassified
<1> QED
  BY <1>1, <1>2, <1>3, <1>4, <1>5, <1>6, <1>7, <1>8
  DEF Next, JobStep, DispatcherStep, ConsumerStep, ReadRetryTarget, SendMessage, SendThrows,
      DispatcherStops, MoveToDeadLetterQueue, SourceChanges, jobVars, rowVars

-----------------------------------------------------------------------------
(* Messages follow their dispatch. *)

LEMMA SentLaterStep ==
  ASSUME TypeOK, SentLater, [Next]_jobVars
  PROVE  SentLater'
<1>1. CASE UNCHANGED <<dispatcher, message, consumer>>
  BY <1>1 DEF SentLater, Holds
<1>2. ASSUME NEW d \in Dispatchers,
             \/ ReadRetryTarget(d) \/ QueueRetry(d)
             \/ RecordDispatchFailure(d) \/ DispatcherStops(d)
      PROVE  SentLater'
  <2>1. UNCHANGED <<message, consumer>>
    BY <1>2 DEF ReadRetryTarget, QueueRetry, RecordDispatchFailure, DispatcherStops
  <2>2. \A e \in Dispatchers :
          dispatcher'[e] \in {"idle", "requeue", "send", "refused"} =>
            dispatcher[e] \in {"idle", "requeue", "send", "refused"}
    BY <1>2 DEF TypeOK, ReadRetryTarget, QueueRetry, RecordDispatchFailure, DispatcherStops, Step
  <2> QED BY <2>1, <2>2 DEF SentLater, Holds
<1>3. ASSUME NEW d \in Dispatchers, SendMessage(d) \/ SendThrows(d) PROVE SentLater'
  <2>1. /\ UNCHANGED consumer
        /\ dispatcher'[d] \in {"done", "fail"}
        /\ \A e \in Dispatchers : e # d => dispatcher'[e] = dispatcher[e]
    BY <1>3 DEF TypeOK, SendMessage, SendThrows, Step
  <2>2. \/ UNCHANGED message
        \/ /\ message'[d].state = "queued"
           /\ \A e \in Dispatchers : e # d => message'[e] = message[e]
    BY <1>3 DEF TypeOK, SendMessage, SendThrows, Enqueue, SetMessage
  <2> QED BY <2>1, <2>2 DEF SentLater, Holds
<1>4. ASSUME NEW c \in Consumers, NEW d \in Dispatchers, Deliver(c, d) PROVE SentLater'
  <2>1. /\ UNCHANGED dispatcher
        /\ message[d].state = "queued" /\ message'[d].state = "queued"
        /\ \A e \in Dispatchers : e # d => message'[e] = message[e]
        /\ consumer'[c].of = d
        /\ \A k \in Consumers : k # c => consumer'[k] = consumer[k]
    BY <1>4 DEF Deliver, TypeOK, SetMessage
  <2> QED BY <2>1 DEF SentLater, Holds
<1>5. ASSUME NEW c \in Consumers, Acknowledge(c) PROVE SentLater'
  <2> DEFINE d == consumer[c].of
  <2>1. /\ d \in Dispatchers /\ Holds(c, d)
        /\ UNCHANGED dispatcher
        /\ consumer'[c].pc = "idle"
        /\ \A k \in Consumers : k # c => consumer'[k] = consumer[k]
    BY <1>5 DEF Acknowledge, Return, IdleConsumer, TypeOK, Consumer, Holds
  <2>2. message[d].state # "unsent"
    BY <2>1 DEF SentLater
  <2>3. /\ message'[d].state # "unsent"
        /\ \A e \in Dispatchers : e # d => message'[e] = message[e]
    BY <1>5, <2>1, <2>2 DEF Acknowledge, SetMessage, TypeOK
  <2> QED BY <2>1, <2>2, <2>3 DEF SentLater, Holds
<1>6. ASSUME NEW d \in Dispatchers, MoveToDeadLetterQueue(d) PROVE SentLater'
  <2>1. /\ UNCHANGED <<dispatcher, consumer>>
        /\ message[d].state = "queued" /\ message'[d].state = "dead"
        /\ \A e \in Dispatchers : e # d => message'[e] = message[e]
    BY <1>6 DEF MoveToDeadLetterQueue, TypeOK, SetMessage
  <2> QED BY <2>1 DEF SentLater, Holds
<1>7. ASSUME NEW c \in Consumers,
             \/ ReadImportProcessingJob(c) \/ MarkProcessingStarted(c) \/ ParseSource(c)
             \/ StageImportJobRecords(c) \/ ProcessingThrows(c) \/ RecordProcessingFailure(c)
             \/ RecordingThrows(c) \/ ConsumerCrashes(c)
      PROVE  SentLater'
  <2>1. UNCHANGED <<dispatcher, message>> /\ consumer[c].pc # "idle"
    BY <1>7
    DEF ReadImportProcessingJob, MarkProcessingStarted, ParseSource, StageImportJobRecords,
        ProcessingThrows, RecordProcessingFailure, RecordingThrows, ConsumerCrashes
  <2>2. /\ consumer'[c].of = consumer[c].of \/ consumer'[c].pc = "idle"
        /\ \A k \in Consumers : k # c => consumer'[k] = consumer[k]
    BY <1>7
    DEF TypeOK, ReadImportProcessingJob, MarkProcessingStarted, ParseSource,
        StageImportJobRecords, ProcessingThrows, RecordProcessingFailure, RecordingThrows,
        ConsumerCrashes, Rethrow, Goto, FailWith, Become, Return, IdleConsumer
  <2> QED BY <2>1, <2>2 DEF SentLater, Holds
<1> QED
  BY <1>1, <1>2, <1>3, <1>4, <1>5, <1>6, <1>7
  DEF Next, JobStep, DispatcherStep, ConsumerStep, SourceChanges, jobVars

-----------------------------------------------------------------------------
(* A queued job has a dispatch that is alive. *)

\* While the job stays queued, the dispatch that keeps it alive stays alive.
LEMMA AliveStep ==
  ASSUME TypeOK, SentLater, [Next]_jobVars, jobStatus = "queued", jobStatus' = "queued",
         NEW a \in Dispatchers, Alive(a)
  PROVE  Alive(a)'
<1>1. CASE UNCHANGED <<dispatcher, message, consumer>>
  BY <1>1 DEF Alive, Holds
<1>2. ASSUME NEW d \in Dispatchers, ReadRetryTarget(d) \/ QueueRetry(d) PROVE Alive(a)'
  <2>1. UNCHANGED <<message, consumer>> /\ dispatcher[d] \in {"idle", "requeue"}
    BY <1>2 DEF ReadRetryTarget, QueueRetry, Step
  <2>2. d # a
    BY <2>1 DEF SentLater, Alive
  <2>3. dispatcher'[a] = dispatcher[a]
    BY <1>2, <2>2 DEF TypeOK, ReadRetryTarget, QueueRetry, Step
  <2> QED BY <2>1, <2>3 DEF Alive, Holds
<1>3. ASSUME NEW d \in Dispatchers, SendMessage(d) \/ SendThrows(d) PROVE Alive(a)'
  <2>1. /\ UNCHANGED consumer
        /\ dispatcher[d] = "send"
        /\ \A e \in Dispatchers : e # d => dispatcher'[e] = dispatcher[e]
    BY <1>3 DEF TypeOK, SendMessage, SendThrows, Step
  <2>2. CASE d = a
    <3>1. message[a].deliveries = 0 /\ \A c \in Consumers : ~Holds(c, a)
      BY <2>1, <2>2 DEF SentLater
    <3>2. CASE SendMessage(d)
      <4>1. message'[a].state = "queued" /\ message'[a].deliveries = 0
        BY <2>2, <3>1, <3>2 DEF SendMessage, Enqueue, SetMessage, TypeOK
      <4> QED BY <2>1, <3>1, <4>1 DEF Alive, Holds
    <3>3. CASE SendThrows(d)
      BY <2>2, <3>3 DEF SendThrows, Step, TypeOK, Alive
    <3> QED BY <1>3, <3>2, <3>3
  <2>3. CASE d # a
    <3>1. message'[a] = message[a]
      BY <1>3, <2>3 DEF SendMessage, SendThrows, Enqueue, SetMessage, TypeOK
    <3> QED BY <2>1, <2>3, <3>1 DEF Alive, Holds
  <2> QED BY <2>2, <2>3
<1>4. ASSUME NEW d \in Dispatchers, DispatcherStops(d) PROVE Alive(a)'
  <2>1. Faulty /\ UNCHANGED <<message, consumer>>
    BY <1>4 DEF DispatcherStops, Faulty
  <2>2. CASE d = a /\ dispatcher[a] \in {"send", "fail"}
    <3>1. dispatcher'[a] = "stopped"
      BY <1>4, <2>2 DEF DispatcherStops, Step, TypeOK
    <3> QED BY <2>1, <3>1 DEF Alive
  <2>3. CASE d = a /\ dispatcher[a] = "requeue"
    BY <2>3 DEF SentLater, Alive
  <2>4. CASE d # a
    <3>1. dispatcher'[a] = dispatcher[a]
      BY <1>4, <2>4 DEF DispatcherStops, Step, TypeOK
    <3> QED BY <2>1, <3>1 DEF Alive, Holds
  <2> QED BY <1>4, <2>2, <2>3, <2>4 DEF DispatcherStops, Step
<1>5. ASSUME NEW c \in Consumers, NEW d \in Dispatchers, Deliver(c, d) PROVE Alive(a)'
  <2>1. /\ UNCHANGED dispatcher
        /\ consumer[c].pc = "idle"
        /\ consumer'[c].pc = "read" /\ consumer'[c].of = d
        /\ \A k \in Consumers : k # c => consumer'[k] = consumer[k]
        /\ message'[d].state = message[d].state /\ message[d].state = "queued"
        /\ \A e \in Dispatchers : e # d => message'[e] = message[e]
    BY <1>5 DEF Deliver, TypeOK, SetMessage
  <2> QED BY <2>1 DEF Alive, Holds
<1>6. ASSUME NEW c \in Consumers, Acknowledge(c) PROVE Alive(a)'
  <2> DEFINE d == consumer[c].of
  <2>1. /\ UNCHANGED dispatcher
        /\ d \in Dispatchers /\ Holds(c, d) /\ consumer[c].pc = "ack"
        /\ consumer'[c].pc = "idle"
        /\ \A k \in Consumers : k # c => consumer'[k] = consumer[k]
        /\ message[d].state # "queued" => message'[d].state = message[d].state
        /\ \A e \in Dispatchers : e # d => message'[e] = message[e]
    BY <1>6 DEF Acknowledge, Return, IdleConsumer, SetMessage, TypeOK, Consumer, Holds
  <2> QED BY <2>1 DEF Alive, Holds
<1>7. ASSUME NEW d \in Dispatchers, MoveToDeadLetterQueue(d) PROVE Alive(a)'
  <2>1. /\ UNCHANGED <<dispatcher, consumer>>
        /\ message'[d].state = "dead"
        /\ \A c \in Consumers : ~Holds(c, d)
        /\ message[d].deliveries # 0
        /\ \A e \in Dispatchers : e # d => message'[e] = message[e]
    BY <1>7, JobAssumption DEF MoveToDeadLetterQueue, SetMessage, TypeOK, Holds
  <2> QED BY <2>1 DEF Alive, Holds
<1>8. ASSUME NEW c \in Consumers,
             \/ ReadImportProcessingJob(c) \/ MarkProcessingStarted(c) \/ ParseSource(c)
             \/ StageImportJobRecords(c) \/ RecordProcessingFailure(c)
      PROVE  Alive(a)'
  <2>1. ~RecordProcessingFailure(c) /\ ~StageImportJobRecords(c) /\ ~MarkProcessingStarted(c)
    BY DEF RecordProcessingFailure, MarkImportJobFailed, StageImportJobRecords,
           MarkProcessingStarted, Startable
  <2>2. UNCHANGED <<dispatcher, message>>
    BY <1>8, <2>1 DEF ReadImportProcessingJob, ParseSource
  <2>3. /\ consumer'[c].of = consumer[c].of
        /\ consumer'[c].pc # "idle" /\ consumer[c].pc # "idle"
        /\ consumer[c].pc \in {"read", "start", "fail"} =>
             consumer'[c].pc \in {"read", "start", "fail"}
        /\ \A k \in Consumers : k # c => consumer'[k] = consumer[k]
    BY <1>8, <2>1
    DEF ReadImportProcessingJob, ParseSource, Goto, FailWith, Become, TypeOK
  <2> QED BY <2>2, <2>3 DEF Alive, Holds
<1>9. ASSUME NEW c \in Consumers, ProcessingThrows(c) \/ RecordingThrows(c) \/ ConsumerCrashes(c)
      PROVE  Alive(a)'
  <2>1. Faulty /\ UNCHANGED <<dispatcher, message>>
    BY <1>9 DEF ProcessingThrows, RecordingThrows, ConsumerCrashes, Faulty
  <2>2. /\ \/ consumer'[c].of = consumer[c].of /\ consumer'[c].pc = "fail"
           \/ consumer'[c].pc = "idle"
        /\ consumer[c].pc # "idle"
        /\ \A k \in Consumers : k # c => consumer'[k] = consumer[k]
    BY <1>9
    DEF ProcessingThrows, RecordingThrows, ConsumerCrashes, Rethrow, FailWith, Become,
        Return, IdleConsumer, TypeOK
  <2> QED BY <2>1, <2>2 DEF Alive, Holds
<1>10. \A d \in Dispatchers : ~RecordDispatchFailure(d)
  BY DEF RecordDispatchFailure, MarkImportJobFailed
<1> QED
  BY <1>1, <1>2, <1>3, <1>4, <1>5, <1>6, <1>7, <1>8, <1>9, <1>10
  DEF Next, JobStep, DispatcherStep, ConsumerStep, SourceChanges, jobVars

\* Only a retry queues the job, and that retry is about to send, or stopped by a fault.
LEMMA QueuedIsAliveStep ==
  ASSUME TypeOK, SentLater, QueuedIsAlive, [Next]_jobVars
  PROVE  QueuedIsAlive'
<1>1. SUFFICES ASSUME jobStatus' = "queued" PROVE \E d \in Dispatchers : Alive(d)'
  BY DEF QueuedIsAlive, Dispatchers
<1>2. CASE jobStatus = "queued"
  BY <1>1, <1>2, AliveStep DEF QueuedIsAlive
<1>3. CASE jobStatus # "queued"
  <2>1. \E d \in Dispatchers : QueueRetry(d)
    BY <1>1, <1>3
    DEF Next, JobStep, DispatcherStep, ConsumerStep, jobVars, rowVars, ReadRetryTarget,
        SendMessage, SendThrows, RecordDispatchFailure, MarkImportJobFailed, DispatcherStops,
        Deliver, Acknowledge, MoveToDeadLetterQueue, ReadImportProcessingJob,
        MarkProcessingStarted, ParseSource, StageImportJobRecords, ProcessingThrows,
        RecordProcessingFailure, RecordingThrows, ConsumerCrashes, SourceChanges, Startable
  <2> QED BY <2>1 DEF QueueRetry, Step, TypeOK, Alive, Faulty
<1> QED BY <1>2, <1>3

-----------------------------------------------------------------------------
LEMMA NextIInv == IInv /\ [Next]_jobVars => IInv'
BY TypeStep, ClassStep, SentLaterStep, QueuedIsAliveStep DEF IInv

LEMMA Invariance == Spec => []IInv
BY InitIInv, NextIInv, PTL DEF Spec

\* An alive dispatch is one that QueuedJobIsDispatched asks for.
LEMMA AliveIsDispatched == IInv => QueuedJobIsDispatched
BY DEF IInv, QueuedIsAlive, Alive, Faulty, QueuedJobIsDispatched

\* Every column, message and control state has its type.
THEOREM TypeCorrect == Spec => []TypeOK
BY Invariance, PTL DEF IInv

\* A failed job has a failure class, a job that is queued or processing has none.
THEOREM FailureAlwaysClassified == Spec => []FailureIsClassified
BY Invariance, PTL DEF IInv

\* Without evictions and database failures a queued job always has a dispatch or
\* a message that will take it further.
THEOREM QueuedJobAlwaysDispatched == Spec => []QueuedJobIsDispatched
BY Invariance, AliveIsDispatched, PTL

-----------------------------------------------------------------------------
(* One attempt per dispatch. *)

LEMMA DispatchedFinite == IsFiniteSet(Dispatched) /\ Cardinality(Dispatched) \in Nat
<1>1. IsFiniteSet(Dispatchers)
  BY JobAssumption, FS_AddElement DEF Dispatchers
<1>2. Dispatched \subseteq Dispatchers
  BY DEF Dispatched
<1> QED BY <1>1, <1>2, FS_Subset, FS_CardinalityType

\* The count of attempts moves only when the job leaves "queued" to be processed,
\* and the job enters "queued" only by a dispatch that was not counted before.
LEMMA AttemptStep ==
  ASSUME TypeOK, OneAttemptPerDispatch, [Next]_jobVars
  PROVE  OneAttemptPerDispatch'
<1>1. Cardinality(Dispatched) \in Nat /\ attemptCount \in Nat
  BY DispatchedFinite DEF TypeOK
<1>2. ASSUME attemptCount' = attemptCount, jobStatus' = "queued" => jobStatus = "queued",
             Dispatched' = Dispatched
      PROVE  OneAttemptPerDispatch'
  BY <1>1, <1>2 DEF OneAttemptPerDispatch
<1>3. CASE UNCHANGED <<attemptCount, jobStatus, dispatcher>>
  BY <1>2, <1>3 DEF Dispatched
<1>4. ASSUME NEW d \in Dispatchers,
             \/ ReadRetryTarget(d) \/ SendMessage(d) \/ SendThrows(d)
             \/ RecordDispatchFailure(d) \/ DispatcherStops(d)
      PROVE  OneAttemptPerDispatch'
  <2>1. attemptCount' = attemptCount /\ (jobStatus' = "queued" => jobStatus = "queued")
    BY <1>4
    DEF ReadRetryTarget, SendMessage, SendThrows, RecordDispatchFailure, DispatcherStops,
        MarkImportJobFailed, rowVars
  <2>2. \A e \in Dispatchers :
          dispatcher'[e] \in {"send", "fail", "done", "stopped"} <=>
            dispatcher[e] \in {"send", "fail", "done", "stopped"}
    BY <1>4
    DEF TypeOK, ReadRetryTarget, SendMessage, SendThrows, RecordDispatchFailure,
        DispatcherStops, Step
  <2>3. Dispatched' = Dispatched
    BY <2>2 DEF Dispatched
  <2> QED BY <1>2, <2>1, <2>3
<1>5. ASSUME NEW d \in Dispatchers, QueueRetry(d) PROVE OneAttemptPerDispatch'
  <2>1. Dispatched' = Dispatched \cup {d} /\ d \notin Dispatched
    BY <1>5 DEF QueueRetry, Step, TypeOK, Dispatched
  <2>2. Cardinality(Dispatched') = Cardinality(Dispatched) + 1
    BY <2>1, DispatchedFinite, FS_AddElement
  <2>3. attemptCount' = attemptCount
    BY <1>5 DEF QueueRetry
  <2> QED BY <1>1, <2>2, <2>3 DEF OneAttemptPerDispatch
<1>6. ASSUME NEW c \in Consumers, MarkProcessingStarted(c) PROVE OneAttemptPerDispatch'
  <2>1. Dispatched' = Dispatched
    BY <1>6 DEF MarkProcessingStarted, Dispatched
  <2> QED BY <1>1, <1>6, <2>1 DEF MarkProcessingStarted, Startable, OneAttemptPerDispatch
<1>7. ASSUME NEW c \in Consumers, StageImportJobRecords(c) \/ RecordProcessingFailure(c)
      PROVE  OneAttemptPerDispatch'
  BY <1>2, <1>7
  DEF StageImportJobRecords, RecordProcessingFailure, MarkImportJobFailed, Dispatched
<1> QED
  BY <1>3, <1>4, <1>5, <1>6, <1>7
  DEF Next, JobStep, DispatcherStep, ConsumerStep, Deliver, Acknowledge,
      MoveToDeadLetterQueue, ReadImportProcessingJob, ParseSource, ProcessingThrows,
      RecordingThrows, ConsumerCrashes, SourceChanges, jobVars, rowVars

\* However often its messages are delivered, and to however many consumers, a job
\* is started at most once per dispatch.
THEOREM OneAttempt == Spec => []OneAttemptPerDispatch
<1>1. Init => OneAttemptPerDispatch
  <2>1. SUFFICES ASSUME Init PROVE OneAttemptPerDispatch
    OBVIOUS
  <2>2. Dispatched = {Intake}
    BY <2>1 DEF Init, InitProcesses, Dispatched, Dispatchers
  <2>3. Cardinality({Intake}) = 1
    BY FS_Singleton
  <2>4. Cardinality(Dispatched) = 1
    BY <2>2, <2>3
  <2> QED BY <2>1, <2>4 DEF Init, OneAttemptPerDispatch
<1>2. TypeOK /\ OneAttemptPerDispatch /\ [Next]_jobVars => OneAttemptPerDispatch'
  BY AttemptStep
<1> QED BY <1>1, <1>2, TypeCorrect, PTL DEF Spec

-----------------------------------------------------------------------------
(* Processing is always somebody's to end. *)

\* A step of another consumer leaves the owners who they are.
LEMMA OwnersStay ==
  ASSUME TypeOK, NEW c \in Consumers, c \notin Owners,
         \A k \in Consumers : k # c => consumer'[k] = consumer[k]
  PROVE  Owners \subseteq Owners'
BY DEF Owners

\* Nobody gives the job up without writing what became of it.
LEMMA OwnerStep ==
  ASSUME ~Faulty, TypeOK, ProcessingHasOwner, [Next]_jobVars
  PROVE  ProcessingHasOwner'
<1>1. SUFFICES ASSUME jobStatus' = "processing" PROVE Owners' # {}
  BY DEF ProcessingHasOwner
<1>2. ASSUME jobStatus' = jobStatus, UNCHANGED consumer PROVE Owners' # {}
  BY <1>1, <1>2 DEF ProcessingHasOwner, Owners
<1>3. ASSUME NEW d \in Dispatchers, DispatcherStep(d) \/ DispatcherStops(d) \/ MoveToDeadLetterQueue(d)
      PROVE  Owners' # {}
  BY <1>1, <1>2, <1>3
  DEF DispatcherStep, DispatcherStops, MoveToDeadLetterQueue, ReadRetryTarget, QueueRetry,
      Requeue, SendMessage, SendThrows, RecordDispatchFailure, MarkImportJobFailed, rowVars
<1>4. ASSUME NEW c \in Consumers, c \notin Owners, jobStatus' = jobStatus,
             \A k \in Consumers : k # c => consumer'[k] = consumer[k]
      PROVE  Owners' # {}
  BY <1>1, <1>4, OwnersStay DEF ProcessingHasOwner
<1>5. ASSUME NEW c \in Consumers, NEW d \in Dispatchers, Deliver(c, d) PROVE Owners' # {}
  BY <1>4, <1>5 DEF Deliver, Owners, TypeOK, rowVars
<1>6. ASSUME NEW c \in Consumers, Acknowledge(c) \/ ReadImportProcessingJob(c)
      PROVE  Owners' # {}
  BY <1>4, <1>6
  DEF Acknowledge, ReadImportProcessingJob, Owners, TypeOK, rowVars, Return, Goto, FailWith, Become
<1>7. ASSUME NEW c \in Consumers, MarkProcessingStarted(c) PROVE Owners' # {}
  <2>1. CASE Startable
    BY <1>7, <2>1 DEF MarkProcessingStarted, Goto, Become, TypeOK, Owners
  <2>2. CASE ~Startable
    BY <1>4, <1>7, <2>2 DEF MarkProcessingStarted, Goto, Become, TypeOK, Owners
  <2> QED BY <2>1, <2>2
<1>8. ASSUME NEW c \in Consumers, ParseSource(c) PROVE Owners' # {}
  <2>1. c \in Owners'
    BY <1>8 DEF ParseSource, Goto, FailWith, Become, TypeOK, Owners
  <2> QED BY <2>1
<1>9. \A c \in Consumers : ~StageImportJobRecords(c) /\ ~RecordProcessingFailure(c)
  BY <1>1 DEF StageImportJobRecords, RecordProcessingFailure, MarkImportJobFailed
<1>10. \A c \in Consumers : ~ProcessingThrows(c) /\ ~RecordingThrows(c) /\ ~ConsumerCrashes(c)
  BY DEF Faulty, ProcessingThrows, RecordingThrows, ConsumerCrashes
<1>11. CASE SourceChanges \/ UNCHANGED jobVars
  BY <1>2, <1>11 DEF SourceChanges, jobVars, rowVars
<1> QED
  BY <1>3, <1>5, <1>6, <1>7, <1>8, <1>9, <1>10, <1>11 DEF Next, JobStep, ConsumerStep

\* Without evictions and database failures no job is left processing with nobody to end
\* it: the loss that job_stuck exhibits needs one of the two.
THEOREM ProcessingAlwaysHasOwner == ~Faulty => (Spec => []ProcessingHasOwner)
<1>1. SUFFICES ASSUME ~Faulty PROVE Spec => []ProcessingHasOwner
  OBVIOUS
<1>2. Init => ProcessingHasOwner
  BY DEF Init, ProcessingHasOwner
<1>3. TypeOK /\ ProcessingHasOwner /\ [Next]_jobVars => ProcessingHasOwner'
  BY <1>1, OwnerStep
<1> QED BY <1>2, <1>3, TypeCorrect, PTL DEF Spec

=============================================================================
