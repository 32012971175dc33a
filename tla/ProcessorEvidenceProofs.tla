----------------------- MODULE ProcessorEvidenceProofs -----------------------
(***************************************************************************)
(* What holds of ProcessorEvidence for any messages, processors and        *)
(* requests and any set of faults.  A request writes its evidence once,    *)
(* long after it read what the evidence is about; Founded says what is     *)
(* still true of that reading when the batch runs.                         *)
(***************************************************************************)
EXTENDS ProcessorEvidence, TLAPS

\* The first attempt, or the attempt after a failed delivery.
Follows(retryOf, message, processor, attempt) ==
  IF retryOf = NoCall THEN attempt = 1
  ELSE \E e \in deliveries :
         /\ e.id = retryOf /\ e.status = "failed"
         /\ e.message = message /\ e.processor = processor
         /\ attempt = e.attempt + 1

\* A request that is not over has written nothing.
Unwritten(c) ==
  /\ c \notin artifacts
  /\ \A r \in runs : r.id # c
  /\ \A d \in deliveries : d.id # c

FoundedRequest(c) ==
  /\ call[c].pc # "done" => Unwritten(c)
  /\ call[c].pc = "idle" => c \notin processed /\ call[c].op = "none"
  /\ call[c].pc = "sent" => call[c].op = "invoke"
  /\ call[c].pc = "record" => call[c].message \in Messages /\ call[c].status # "none"
  /\ call[c].pc = "record" /\ call[c].op # "invoke" => call[c].status = "succeeded"
  /\ call[c].pc \in {"sent", "record"} /\ call[c].op = "invoke" =>
       /\ call[c].message \in Messages /\ call[c].processor \in Processors
       /\ call[c].attempt > 0
       /\ Follows(call[c].retryOf, call[c].message, call[c].processor, call[c].attempt)
  /\ call[c].pc = "record" /\ call[c].op = "invoke" /\ call[c].status = "succeeded" =>
       c \in processed

Founded == \A c \in Calls : FoundedRequest(c)

\* What a request derives from is there, and of its message.
InputsExist ==
  \A c \in Calls :
    call[c].pc \in {"sent", "record"} =>
      /\ call[c].inputs # {}
      /\ call[c].inputs \subseteq ObjectsOf(call[c].message)

IInv ==
  /\ TypeOK /\ Founded /\ InputsExist
  /\ EvidenceAgrees /\ RetriesFollowFailures /\ DeliveredWasProcessed
  /\ LineageReachesRaw

-----------------------------------------------------------------------------
LEMMA InitIInv == Init => IInv
<1>1. SUFFICES ASSUME Init PROVE IInv
  OBVIOUS
<1>2. /\ TypeOK /\ Founded /\ InputsExist
      /\ EvidenceAgrees /\ RetriesFollowFailures /\ DeliveredWasProcessed
  BY <1>1, EvidenceAssumption
  DEF Init, TypeOK, Founded, FoundedRequest, InputsExist, Unwritten, EvidenceAgrees,
      RetriesFollowFailures, DeliveredWasProcessed, Idle, Request, Operation
<1>3. \A m \in Messages :
        /\ ObjectsOf(m) = {Raw(m), Normalized(m), NormalizedJson(m)}
        /\ <<Raw(m), Normalized(m)>> \in lineage
        /\ <<Normalized(m), NormalizedJson(m)>> \in lineage
  BY <1>1 DEF Init, ObjectsOf, ArtifactsOf, Received
<1>4. ASSUME NEW m \in Messages, NEW S \in SUBSET ObjectsOf(m), Raw(m) \in S,
             \A edge \in lineage : edge[1] \in S => edge[2] \in S
      PROVE  S = ObjectsOf(m)
  <2>1. Normalized(m) \in S
    BY <1>3, <1>4
  <2>2. NormalizedJson(m) \in S
    BY <1>3, <1>4, <2>1
  <2>3. QED
    BY <1>3, <1>4, <2>1, <2>2
<1>5. ASSUME NEW edge \in lineage
      PROVE  \E m \in Messages : {edge[1], edge[2]} \subseteq ObjectsOf(m)
  <2>1. PICK m \in Messages :
          edge \in {<<Raw(m), Normalized(m)>>, <<Normalized(m), NormalizedJson(m)>>}
    BY <1>1, <1>5 DEF Init
  <2>2. {edge[1], edge[2]} \subseteq {Raw(m), Normalized(m), NormalizedJson(m)}
    BY <2>1
  <2>3. QED
    BY <1>3, <2>2
<1>6. QED
  BY <1>2, <1>4, <1>5 DEF IInv, LineageReachesRaw

LEMMA BeginType ==
  ASSUME TypeOK, NEW c \in Calls, NEW request \in Request, Begin(c, request)
  PROVE  TypeOK'
BY DEF TypeOK, Begin, evidenceVars

LEMMA InvocationType ==
  ASSUME NEW m \in Messages, NEW p \in Processors, NEW r \in Calls \cup {NoCall}, NEW n \in Nat
  PROVE  Invocation(m, p, r, n) \in Request
<1>1. {Normalized(m)} \in SUBSET AllObjects
  BY DEF AllObjects, Received
<1>2. QED
  BY <1>1 DEF Invocation, Request, Operation

LEMMA DerivationType ==
  ASSUME NEW op \in {"submit", "replay", "bundle"}, NEW m \in Messages,
         NEW inputs \in SUBSET AllObjects
  PROVE  Derivation(op, m, inputs) \in Request
BY DEF Derivation, Request, Operation

\* The requests that begin: an invocation that follows what is logged, or a
\* derivation; each from objects of its message.
Started(request) ==
  /\ request.pc \in {"sent", "record"} /\ request.message \in Messages
  /\ request.answer = "none"
  /\ request.pc = "sent" => request.op = "invoke"
  /\ request.pc = "record" => request.status # "none"
  /\ request.pc = "record" /\ request.op # "invoke" => request.status = "succeeded"
  /\ request.op = "invoke" =>
       /\ request.processor \in Processors /\ request.attempt > 0 /\ request.status = "failed"
       /\ Follows(request.retryOf, request.message, request.processor, request.attempt)
  /\ request.inputs # {} /\ request.inputs \subseteq ObjectsOf(request.message)

LEMMA InvocationStarted ==
  ASSUME NEW m \in Messages, NEW p \in Processors, NEW r, NEW n \in Nat \ {0},
         Follows(r, m, p, n)
  PROVE  Started(Invocation(m, p, r, n))
BY DEF Started, Invocation, ObjectsOf, Received

LEMMA DerivationStarted ==
  ASSUME NEW op \in {"submit", "replay", "bundle"}, NEW m \in Messages,
         NEW inputs \in SUBSET ObjectsOf(m), inputs # {}
  PROVE  Started(Derivation(op, m, inputs))
BY DEF Started, Derivation

Starts(c) ==
  \/ InvokeExternalProcessor(c) \/ RetryProcessorDelivery(c)
  \/ SubmitArtifact(c) \/ ReplayMessage(c) \/ CreateAgentContextBundle(c)

LEMMA StartsOf ==
  ASSUME TypeOK, NEW c \in Calls, Starts(c)
  PROVE  \E request \in Request : Begin(c, request) /\ Started(request)
<1>1. CASE InvokeExternalProcessor(c)
  <2>1. PICK m \in Messages, p \in Processors : Begin(c, Invocation(m, p, NoCall, 1))
    BY <1>1 DEF InvokeExternalProcessor
  <2>2. Follows(NoCall, m, p, 1)
    BY DEF Follows
  <2>3. Invocation(m, p, NoCall, 1) \in Request
    BY InvocationType
  <2>4. Started(Invocation(m, p, NoCall, 1))
    BY <2>2, InvocationStarted
  <2>5. QED
    BY <2>1, <2>3, <2>4
<1>2. CASE RetryProcessorDelivery(c)
  <2>1. PICK d \in deliveries :
          /\ d.status = "failed"
          /\ Begin(c, Invocation(d.message, d.processor, d.id, d.attempt + 1))
    BY <1>2 DEF RetryProcessorDelivery, RetryableDeliveries
  <2>2. /\ d.message \in Messages /\ d.processor \in Processors
        /\ d.id \in Calls /\ d.attempt + 1 \in Nat \ {0}
    BY <2>1 DEF TypeOK, Delivery
  <2>3. Follows(d.id, d.message, d.processor, d.attempt + 1)
    BY <2>1, <2>2, EvidenceAssumption DEF Follows
  <2>4. QED
    BY <2>1, <2>2, <2>3, InvocationType, InvocationStarted
<1>3. CASE SubmitArtifact(c) \/ ReplayMessage(c) \/ CreateAgentContextBundle(c)
  <2>1. \A m \in Messages :
          /\ Raw(m) \in ObjectsOf(m) /\ Normalized(m) \in ObjectsOf(m)
          /\ ArtifactsOf(m) \subseteq ObjectsOf(m)
    BY DEF ObjectsOf, Received
  <2>2. PICK op \in {"submit", "replay", "bundle"}, m \in Messages :
          \E selected \in SUBSET ObjectsOf(m) :
            selected # {} /\ Begin(c, Derivation(op, m, selected))
    <3>1. CASE SubmitArtifact(c)
      BY <2>1, <3>1 DEF SubmitArtifact
    <3>2. CASE ReplayMessage(c)
      BY <2>1, <3>2 DEF ReplayMessage, TypeOK
    <3>3. CASE CreateAgentContextBundle(c)
      <4>1. PICK m \in Messages : \E selected \in (SUBSET ArtifactsOf(m)) \ {{}} :
              Begin(c, Derivation("bundle", m, selected))
        BY <3>3 DEF CreateAgentContextBundle
      <4>2. PICK selected \in (SUBSET ArtifactsOf(m)) \ {{}} :
              Begin(c, Derivation("bundle", m, selected))
        BY <4>1
      <4>3. selected # {} /\ selected \in SUBSET ObjectsOf(m)
        BY <2>1
      <4>4. \E inputs \in SUBSET ObjectsOf(m) :
              inputs # {} /\ Begin(c, Derivation("bundle", m, inputs))
        BY <4>2, <4>3
      <4>5. QED
        BY <4>4
    <3>4. QED
      BY <1>3, <3>1, <3>2, <3>3
  <2>3. PICK inputs \in SUBSET ObjectsOf(m) :
          inputs # {} /\ Begin(c, Derivation(op, m, inputs))
    BY <2>2
  <2>4. inputs \in SUBSET AllObjects
    BY DEF ObjectsOf, ArtifactsOf, Received, AllObjects, TypeOK
  <2>5. QED
    BY <2>3, <2>4, DerivationType, DerivationStarted
<1>4. QED
  BY <1>1, <1>2, <1>3 DEF Starts

\* The fields a step changes after a request has begun.
LEMMA AdvanceType ==
  ASSUME TypeOK, NEW c \in Calls, NEW from, NEW to \in {"sent", "record"},
         NEW status \in {"failed", "succeeded"}, Advance(c, from, to, status)
  PROVE  TypeOK'
<1>1. call[c] \in Request /\ call \in [Calls -> Request]
  BY DEF TypeOK
<1>2. [[call[c] EXCEPT !.pc = to] EXCEPT !.status = status] \in Request
  BY <1>1 DEF Request
<1>3. call' = [call EXCEPT ![c] = [[call[c] EXCEPT !.pc = to] EXCEPT !.status = status]]
  BY <1>1 DEF Advance
<1>4. QED
  BY <1>1, <1>2, <1>3 DEF TypeOK, Advance, evidenceVars

LEMMA AnswerType ==
  ASSUME TypeOK, NEW c \in Calls, NEW from,
         NEW answer \in {"refused", "failed", "succeeded", "error", "lost"},
         Answer(c, from, answer)
  PROVE  call' \in [Calls -> Request]
<1>1. call[c] \in Request /\ call \in [Calls -> Request]
  BY DEF TypeOK
<1>2. [[call[c] EXCEPT !.pc = "done"] EXCEPT !.answer = answer] \in Request
  BY <1>1 DEF Request
<1>3. call' = [call EXCEPT ![c] = [[call[c] EXCEPT !.pc = "done"] EXCEPT !.answer = answer]]
  BY <1>1 DEF Answer
<1>4. QED
  BY <1>1, <1>2, <1>3

\* The batch writes rows of the right types.
LEMMA WriteType ==
  ASSUME TypeOK, Founded, NEW c \in Calls, call[c].pc = "record", WriteEvidence(c)
  PROVE  /\ runs' \subseteq Run
         /\ deliveries' \subseteq Delivery
         /\ artifacts' \subseteq Calls
<1>1. PICK outputs \in Outputs(c) :
        /\ runs' = runs \cup RunOf(c)
        /\ deliveries' = deliveries \cup DeliveryOf(c)
        /\ artifacts' = artifacts \cup outputs
  BY DEF WriteEvidence
<1>2. call[c] \in Request
  BY DEF TypeOK
<1>3. RunOf(c) \subseteq Run
  BY <1>2 DEF RunOf, Run, Request, Founded, FoundedRequest
<1>4. DeliveryOf(c) \subseteq Delivery
  BY <1>2 DEF DeliveryOf, Delivery, Request, Founded, FoundedRequest
<1>5. outputs \subseteq Calls
  BY <1>1 DEF Outputs
<1>6. QED
  BY <1>1, <1>3, <1>4, <1>5 DEF TypeOK

LEMMA TypeStep == TypeOK /\ Founded /\ [Next]_vars => TypeOK'
<1>1. SUFFICES ASSUME TypeOK, Founded, [Next]_vars PROVE TypeOK'
  OBVIOUS
<1>2. CASE UNCHANGED vars
  BY <1>1, <1>2 DEF vars, evidenceVars, TypeOK
<1>3. ASSUME NEW c \in Calls, Refuse(c) \/ ReadResponseThrows(c) \/ Crash(c) PROVE TypeOK'
  BY <1>1, <1>3, AnswerType DEF Refuse, ReadResponseThrows, Crash, evidenceVars, TypeOK
<1>4. ASSUME NEW c \in Calls, Starts(c) PROVE TypeOK'
  BY <1>1, <1>4, StartsOf, BeginType
<1>6. ASSUME NEW c \in Calls, EndpointProcesses(c) PROVE TypeOK'
  BY <1>1, <1>6 DEF TypeOK, EndpointProcesses, evidenceVars
<1>7. ASSUME NEW c \in Calls, ReceiveResponse(c) \/ InvocationFails(c) PROVE TypeOK'
  BY <1>1, <1>7, AdvanceType DEF ReceiveResponse, InvocationFails
<1>9. ASSUME NEW c \in Calls, Record(c) PROVE TypeOK'
  <2>1. call[c].pc = "record" /\ call[c].status \in {"failed", "succeeded"}
    BY <1>1, <1>9 DEF Record, Answer, Founded, FoundedRequest, TypeOK, Request
  <2>2. QED
    BY <1>1, <1>9, <2>1, AnswerType, WriteType DEF Record, TypeOK
<1>10. ASSUME NEW c \in Calls, RecordThrows(c) PROVE TypeOK'
  <2>1. call[c].pc = "record"
    BY <1>10 DEF RecordThrows, Answer
  <2>2. call' \in [Calls -> Request]
    BY <1>1, <1>10, AnswerType DEF RecordThrows
  <2>3. QED
    BY <1>1, <1>10, <2>1, <2>2, WriteType DEF RecordThrows, TypeOK, evidenceVars
<1>11. QED
  BY <1>1, <1>2, <1>3, <1>4, <1>6, <1>7, <1>9, <1>10 DEF Next, Starts

-----------------------------------------------------------------------------
(* Every step starts a request, lets an endpoint act, moves a request on or  *)
(* ends it; only the end of a request writes evidence.                       *)

\* A step that writes no evidence and forgets nothing of it keeps what is said of it.
LEMMA EvidenceKept ==
  ASSUME IInv, UNCHANGED evidenceVars, processed \subseteq processed',
         \A d \in artifacts : call'[d].message = call[d].message,
         \A d \in processed' : call'[d].processor \in Accepting
  PROVE  /\ \A m : ObjectsOf(m)' = ObjectsOf(m)
         /\ EvidenceAgrees' /\ RetriesFollowFailures' /\ DeliveredWasProcessed'
         /\ LineageReachesRaw'
<1>1. \A m : ObjectsOf(m)' = ObjectsOf(m)
  BY DEF ObjectsOf, ArtifactsOf, evidenceVars
<1>2. EvidenceAgrees' /\ RetriesFollowFailures'
  BY DEF IInv, EvidenceAgrees, RetriesFollowFailures, evidenceVars
<1>3. DeliveredWasProcessed'
  BY DEF IInv, DeliveredWasProcessed, evidenceVars
<1>4. LineageReachesRaw'
  BY <1>1 DEF IInv, LineageReachesRaw, evidenceVars
<1>5. QED
  BY <1>1, <1>2, <1>3, <1>4

LEMMA BeginStep ==
  ASSUME IInv, NEW c \in Calls, NEW request \in Request, Begin(c, request), Started(request)
  PROVE  IInv'
<1>1. /\ call[c].pc = "idle" /\ call' = [call EXCEPT ![c] = request]
      /\ UNCHANGED <<evidenceVars, processed>>
      /\ TypeOK /\ Founded /\ InputsExist
  BY DEF Begin, IInv
<1>2. /\ call'[c] = request
      /\ \A d \in Calls \ {c} : call'[d] = call[d]
  BY <1>1 DEF TypeOK
<1>3. c \notin artifacts /\ c \notin processed
  BY <1>1 DEF Founded, FoundedRequest, Unwritten
<1>4. /\ \A m : ObjectsOf(m)' = ObjectsOf(m)
      /\ EvidenceAgrees' /\ RetriesFollowFailures' /\ DeliveredWasProcessed'
      /\ LineageReachesRaw'
  <2>1. \A d \in artifacts : call'[d].message = call[d].message
    BY <1>1, <1>2, <1>3 DEF TypeOK
  <2>2. \A d \in processed' : call'[d].processor \in Accepting
    BY <1>1, <1>2, <1>3 DEF TypeOK, IInv, DeliveredWasProcessed
  <2>3. QED
    BY <1>1, <2>1, <2>2, EvidenceKept
<1>5. ASSUME NEW d \in Calls PROVE Unwritten(d)' <=> Unwritten(d)
  BY <1>1 DEF Unwritten, evidenceVars
<1>6. ASSUME NEW r, NEW m, NEW p, NEW n PROVE Follows(r, m, p, n)' <=> Follows(r, m, p, n)
  BY <1>1 DEF Follows, evidenceVars
<1>7. Founded'
  BY <1>1, <1>2, <1>5, <1>6 DEF Founded, FoundedRequest, Started
<1>8. InputsExist'
  BY <1>1, <1>2, <1>4 DEF InputsExist, Started
<1>9. QED
  BY <1>1, <1>4, <1>7, <1>8, BeginType DEF IInv

\* The endpoint acts, while its request goes on or after it was given up.
LEMMA ProcessStep ==
  ASSUME IInv, NEW c \in Calls, EndpointProcesses(c)
  PROVE  IInv'
<1>1. /\ call[c].op = "invoke" /\ call[c].processor \in Accepting
      /\ processed' = processed \cup {c} /\ UNCHANGED <<replayable, evidenceVars, call>>
      /\ TypeOK /\ Founded /\ InputsExist
  BY DEF EndpointProcesses, IInv
<1>2. TypeOK'
  BY <1>1 DEF TypeOK, evidenceVars
<1>3. /\ \A m : ObjectsOf(m)' = ObjectsOf(m)
      /\ EvidenceAgrees' /\ RetriesFollowFailures' /\ DeliveredWasProcessed'
      /\ LineageReachesRaw'
  BY <1>1, EvidenceKept DEF IInv, DeliveredWasProcessed
<1>4. Founded'
  BY <1>1 DEF Founded, FoundedRequest, Unwritten, Follows, evidenceVars
<1>5. InputsExist'
  BY <1>1, <1>3 DEF InputsExist
<1>6. QED
  BY <1>2, <1>3, <1>4, <1>5 DEF IInv

LEMMA AdvanceStep ==
  ASSUME IInv, NEW c \in Calls, ReceiveResponse(c) \/ InvocationFails(c)
  PROVE  IInv'
<1>1. PICK status \in {"failed", "succeeded"} :
        /\ Advance(c, "sent", "record", status)
        /\ status = "succeeded" => c \in processed
  BY DEF ReceiveResponse, InvocationFails
<1>2. /\ call[c].pc = "sent" /\ UNCHANGED <<replayable, evidenceVars, processed>>
      /\ call' = [call EXCEPT ![c].pc = "record", ![c].status = status]
      /\ TypeOK /\ Founded /\ InputsExist
  BY <1>1 DEF Advance, IInv
<1>3. /\ call'[c] = [call[c] EXCEPT !.pc = "record", !.status = status]
      /\ \A d \in Calls \ {c} : call'[d] = call[d]
      /\ call[c] \in Request
  BY <1>2 DEF TypeOK
<1>4. /\ call'[c].pc = "record" /\ call'[c].status = status
      /\ call'[c].op = call[c].op /\ call'[c].message = call[c].message
      /\ call'[c].processor = call[c].processor /\ call'[c].retryOf = call[c].retryOf
      /\ call'[c].attempt = call[c].attempt /\ call'[c].inputs = call[c].inputs
  BY <1>3 DEF Request
<1>5. /\ \A m : ObjectsOf(m)' = ObjectsOf(m)
      /\ EvidenceAgrees' /\ RetriesFollowFailures' /\ DeliveredWasProcessed'
      /\ LineageReachesRaw'
  <2>1. \A d \in artifacts : call'[d].message = call[d].message
    BY <1>2, <1>3, <1>4 DEF TypeOK
  <2>2. \A d \in processed' : call'[d].processor \in Accepting
    BY <1>2, <1>3, <1>4 DEF TypeOK, IInv, DeliveredWasProcessed
  <2>3. QED
    BY <1>2, <2>1, <2>2, EvidenceKept
<1>6. ASSUME NEW d \in Calls PROVE Unwritten(d)' <=> Unwritten(d)
  BY <1>2 DEF Unwritten, evidenceVars
<1>7. ASSUME NEW r, NEW m, NEW p, NEW n PROVE Follows(r, m, p, n)' <=> Follows(r, m, p, n)
  BY <1>2 DEF Follows, evidenceVars
<1>8. Founded'
  <2>1. /\ Unwritten(c) /\ call[c].op = "invoke"
        /\ call[c].message \in Messages /\ call[c].processor \in Processors
        /\ call[c].attempt > 0
        /\ Follows(call[c].retryOf, call[c].message, call[c].processor, call[c].attempt)
    BY <1>2 DEF Founded, FoundedRequest
  <2>2. ASSUME NEW d \in Calls \ {c}, call[d].op = "invoke", call[d].pc \in {"sent", "record"}
        PROVE  Follows(call[d].retryOf, call[d].message, call[d].processor, call[d].attempt)'
    <3>1. Follows(call[d].retryOf, call[d].message, call[d].processor, call[d].attempt)
      BY <1>2, <2>2 DEF Founded, FoundedRequest
    <3>2. QED
      BY <1>2, <1>3, <3>1 DEF Follows, evidenceVars
  <2>3. Follows(call[c].retryOf, call[c].message, call[c].processor, call[c].attempt)'
    BY <1>2, <1>4, <2>1 DEF Follows, evidenceVars
  <2>4. ASSUME NEW d \in Calls \ {c} PROVE FoundedRequest(d)'
    <3>1. FoundedRequest(d)
      BY <1>2 DEF Founded
    <3>2. QED
      BY <1>2, <1>3, <1>6, <2>2, <3>1 DEF FoundedRequest
  <2>5. FoundedRequest(c)'
    BY <1>1, <1>2, <1>4, <1>6, <2>1, <2>3 DEF FoundedRequest
  <2>6. QED
    BY <2>4, <2>5 DEF Founded
<1>9. InputsExist'
  BY <1>2, <1>3, <1>4, <1>5 DEF InputsExist
<1>10. QED
  BY <1>1, <1>5, <1>8, <1>9, AdvanceType DEF IInv

-----------------------------------------------------------------------------
(* Requests that end. *)

\* What the end of a request leaves of it, and of the others.
LEMMA AnswerKeeps ==
  ASSUME TypeOK, NEW c \in Calls, NEW from, NEW answer, Answer(c, from, answer)
  PROVE  /\ call'[c].pc = "done" /\ call'[c].message = call[c].message
         /\ call'[c].processor = call[c].processor
         /\ \A d \in Calls \ {c} : call'[d] = call[d]
BY DEF TypeOK, Answer, Request

LEMMA EndStep ==
  ASSUME IInv, NEW c \in Calls, NEW from \in {"idle", "sent", "record"},
         NEW answer \in {"refused", "failed", "succeeded", "error", "lost"},
         Answer(c, from, answer), UNCHANGED <<replayable, evidenceVars, processed>>
  PROVE  IInv'
<1>1. /\ TypeOK /\ Founded /\ InputsExist
  BY DEF IInv
<1>2. /\ call'[c].pc = "done" /\ call'[c].message = call[c].message
      /\ call'[c].processor = call[c].processor
      /\ \A d \in Calls \ {c} : call'[d] = call[d]
  BY <1>1, AnswerKeeps
<1>3. /\ \A m : ObjectsOf(m)' = ObjectsOf(m)
      /\ EvidenceAgrees' /\ RetriesFollowFailures' /\ DeliveredWasProcessed'
      /\ LineageReachesRaw'
  <2>1. \A d \in artifacts : call'[d].message = call[d].message
    BY <1>1, <1>2 DEF TypeOK
  <2>2. \A d \in processed' : call'[d].processor \in Accepting
    BY <1>1, <1>2 DEF TypeOK, IInv, DeliveredWasProcessed
  <2>3. QED
    BY <2>1, <2>2, EvidenceKept
<1>4. ASSUME NEW d \in Calls PROVE Unwritten(d)' <=> Unwritten(d)
  BY DEF Unwritten, evidenceVars
<1>5. ASSUME NEW r, NEW m, NEW p, NEW n PROVE Follows(r, m, p, n)' <=> Follows(r, m, p, n)
  BY DEF Follows, evidenceVars
<1>6. Founded'
  BY <1>1, <1>2, <1>4, <1>5 DEF Founded, FoundedRequest
<1>7. InputsExist'
  BY <1>1, <1>2, <1>3 DEF InputsExist
<1>8. TypeOK'
  BY <1>1, AnswerType DEF TypeOK, evidenceVars
<1>9. QED
  BY <1>3, <1>6, <1>7, <1>8 DEF IInv

\* The batch: rows of one request that has written nothing before.
LEMMA WriteStep ==
  ASSUME IInv, NEW c \in Calls,
         NEW answer \in {"refused", "failed", "succeeded", "error", "lost"},
         Answer(c, "record", answer), WriteEvidence(c), UNCHANGED <<replayable, processed>>
  PROVE  IInv'
<1>1. /\ TypeOK /\ Founded /\ InputsExist /\ call[c].pc = "record"
      /\ EvidenceAgrees /\ RetriesFollowFailures /\ DeliveredWasProcessed /\ LineageReachesRaw
  BY DEF IInv, Answer
<1>2. /\ call'[c].pc = "done" /\ call'[c].message = call[c].message
      /\ call'[c].processor = call[c].processor
      /\ \A d \in Calls \ {c} : call'[d] = call[d]
  BY <1>1, AnswerKeeps
<1>3. PICK outputs \in Outputs(c) :
        /\ runs' = runs \cup RunOf(c)
        /\ deliveries' = deliveries \cup DeliveryOf(c)
        /\ artifacts' = artifacts \cup outputs
        /\ lineage' = lineage \cup EdgesOf(c, outputs)
  BY DEF WriteEvidence
<1>4. /\ outputs \subseteq {c}
      /\ outputs # {} => call[c].status # "failed"
  BY <1>3 DEF Outputs
<1>5. /\ call[c].message \in Messages /\ call[c].status \in {"failed", "succeeded"}
      /\ Unwritten(c) /\ call[c] \in Request
  BY <1>1 DEF Founded, FoundedRequest, TypeOK, Request
<1>6. /\ \A r \in RunOf(c) : r.id = c /\ r.message = call[c].message /\ r.status = call[c].status
      /\ \E r \in runs' : r.id = c /\ r.message = call[c].message /\ r.status = call[c].status
  <2>1. \A r \in RunOf(c) : r.id = c /\ r.message = call[c].message /\ r.status = call[c].status
    BY DEF RunOf
  <2>2. \E r \in RunOf(c) : r \in runs'
    BY <1>3 DEF RunOf
  <2>3. QED
    BY <2>1, <2>2
<1>7. \A d \in DeliveryOf(c) :
        /\ call[c].op = "invoke" /\ d.id = c /\ d.message = call[c].message
        /\ d.processor = call[c].processor /\ d.retryOf = call[c].retryOf
        /\ d.attempt = call[c].attempt
        /\ d.status = IF call[c].status = "succeeded" THEN "delivered" ELSE "failed"
  BY DEF DeliveryOf
<1>8. TypeOK'
  BY <1>1, AnswerType, WriteType DEF TypeOK
<1>9. Founded'
  <2>1. ASSUME NEW d \in Calls \ {c} PROVE FoundedRequest(d)'
    <3>1. FoundedRequest(d)
      BY <1>1 DEF Founded
    <3>2. Unwritten(d) => Unwritten(d)'
      BY <1>3, <1>4, <1>6, <1>7 DEF Unwritten
    <3>3. Follows(call[d].retryOf, call[d].message, call[d].processor, call[d].attempt)
          => Follows(call[d].retryOf, call[d].message, call[d].processor, call[d].attempt)'
      BY <1>2, <1>3 DEF Follows
    <3>4. QED
      BY <1>2, <3>1, <3>2, <3>3 DEF FoundedRequest
  <2>2. FoundedRequest(c)'
    BY <1>2 DEF FoundedRequest
  <2>3. QED
    BY <2>1, <2>2 DEF Founded
<1>10. EvidenceAgrees'
  <2>1. \A d \in artifacts' : \E r \in runs' : r.id = d /\ r.status = "succeeded"
    BY <1>1, <1>3, <1>4, <1>5, <1>6 DEF EvidenceAgrees
  <2>2. \A d \in deliveries' : \E r \in runs' :
          /\ r.id = d.id /\ r.message = d.message
          /\ d.status = "delivered" <=> r.status = "succeeded"
    BY <1>1, <1>3, <1>5, <1>6, <1>7 DEF EvidenceAgrees
  <2>3. \A q, r \in runs' : q.id = r.id => q = r
    BY <1>1, <1>3, <1>5 DEF EvidenceAgrees, Unwritten, RunOf
  <2>4. QED
    BY <2>1, <2>2, <2>3 DEF EvidenceAgrees
<1>11. RetriesFollowFailures'
  <2>1. ASSUME NEW d \in deliveries
        PROVE  Follows(d.retryOf, d.message, d.processor, d.attempt)
    BY <1>1 DEF RetriesFollowFailures, Follows
  <2>2. ASSUME NEW d \in DeliveryOf(c)
        PROVE  Follows(d.retryOf, d.message, d.processor, d.attempt)
    BY <1>1, <1>7 DEF Founded, FoundedRequest
  <2>3. ASSUME NEW d \in deliveries'
        PROVE  IF d.retryOf = NoCall THEN d.attempt = 1
               ELSE \E e \in deliveries' :
                      /\ e.id = d.retryOf /\ e.status = "failed"
                      /\ e.message = d.message /\ e.processor = d.processor
                      /\ d.attempt = e.attempt + 1
    BY <1>3, <2>1, <2>2 DEF Follows
  <2>4. QED
    BY <2>3 DEF RetriesFollowFailures
<1>12. DeliveredWasProcessed'
  <2>1. \A d \in DeliveryOf(c) : d.status = "delivered" => d.id \in processed
    BY <1>1, <1>7 DEF Founded, FoundedRequest
  <2>2. \A d \in processed : call'[d].processor \in Accepting
    BY <1>1, <1>2 DEF DeliveredWasProcessed, TypeOK
  <2>3. QED
    BY <1>1, <1>3, <2>1, <2>2 DEF DeliveredWasProcessed
<1>13. \A m : ObjectsOf(m)' = ObjectsOf(m) \cup {d \in outputs : call[c].message = m}
  <2>1. c \notin artifacts /\ artifacts \subseteq Calls
    BY <1>1, <1>5 DEF Unwritten, TypeOK
  <2>2. QED
    BY <1>2, <1>3, <1>4, <2>1 DEF ObjectsOf, ArtifactsOf, Received, Raw, Normalized, NormalizedJson
<1>14. InputsExist'
  <2>1. ASSUME NEW d \in Calls, call'[d].pc \in {"sent", "record"}
        PROVE  /\ call'[d].inputs # {}
               /\ call'[d].inputs \subseteq ObjectsOf(call[d].message)'
    BY <1>1, <1>2, <1>13, <2>1 DEF InputsExist
  <2>2. QED
    BY <1>2, <1>13, <2>1 DEF InputsExist
<1>15. LineageReachesRaw'
  <2>1. \A m \in Messages : c \notin ObjectsOf(m)
    BY <1>5, EvidenceAssumption
    DEF ObjectsOf, ArtifactsOf, Received, Raw, Normalized, NormalizedJson, Unwritten
  <2>2. ASSUME NEW m \in Messages, NEW S \in SUBSET ObjectsOf(m)', Raw(m) \in S,
               \A edge \in lineage' : edge[1] \in S => edge[2] \in S
        PROVE  S = ObjectsOf(m)'
    <3>1. S \cap ObjectsOf(m) = ObjectsOf(m)
      <4>1. Raw(m) \in S \cap ObjectsOf(m)
        BY <2>2 DEF ObjectsOf, Received
      <4>2. ASSUME NEW edge \in lineage, edge[1] \in S \cap ObjectsOf(m)
            PROVE  edge[2] \in S \cap ObjectsOf(m)
        <5>1. edge[2] \in S
          BY <1>3, <2>2, <4>2
        <5>2. edge[2] # c
          BY <1>1, <2>1 DEF LineageReachesRaw
        <5>3. QED
          BY <1>4, <1>13, <2>2, <5>1, <5>2
      <4>3. QED
        BY <1>1, <4>1, <4>2 DEF LineageReachesRaw
    <3>2. ASSUME c \in outputs, call[c].message = m PROVE c \in S
      <4>1. PICK i \in call[c].inputs : i \in S
        BY <1>1, <3>1, <3>2 DEF InputsExist
      <4>2. <<i, c>> \in lineage'
        BY <1>3, <3>2 DEF EdgesOf
      <4>3. QED
        BY <2>2, <4>1, <4>2
    <3>3. QED
      BY <1>4, <1>13, <2>2, <3>1, <3>2
  <2>3. ASSUME NEW edge \in lineage'
        PROVE  \E m \in Messages : {edge[1], edge[2]} \subseteq ObjectsOf(m)'
    <3>1. CASE edge \in lineage
      BY <1>1, <1>13, <3>1 DEF LineageReachesRaw
    <3>2. CASE edge \in EdgesOf(c, outputs)
      <4>1. edge[1] \in call[c].inputs /\ edge[2] \in outputs
        BY <3>2 DEF EdgesOf
      <4>2. PICK m \in Messages : m = call[c].message
        BY <1>5
      <4>3. edge[1] \in ObjectsOf(m)
        BY <1>1, <4>1, <4>2 DEF InputsExist
      <4>4. {edge[1], edge[2]} \subseteq ObjectsOf(m)'
        BY <1>13, <4>1, <4>2, <4>3
      <4>5. QED
        BY <4>4
    <3>3. QED
      BY <1>3, <2>3, <3>1, <3>2
  <2>4. QED
    BY <2>2, <2>3 DEF LineageReachesRaw
<1>16. QED
  BY <1>8, <1>9, <1>10, <1>11, <1>12, <1>14, <1>15 DEF IInv

-----------------------------------------------------------------------------
LEMMA NextIInv == IInv /\ [Next]_vars => IInv'
<1>1. SUFFICES ASSUME IInv, [Next]_vars PROVE IInv'
  OBVIOUS
<1>2. CASE UNCHANGED vars
  BY <1>1, <1>2
  DEF vars, evidenceVars, IInv, TypeOK, Founded, FoundedRequest, Follows, Unwritten, InputsExist,
      ObjectsOf, ArtifactsOf, EvidenceAgrees, RetriesFollowFailures, DeliveredWasProcessed,
      LineageReachesRaw
<1>3. ASSUME NEW c \in Calls, Starts(c) PROVE IInv'
  BY <1>1, <1>3, StartsOf, BeginStep DEF IInv
<1>4. ASSUME NEW c \in Calls, EndpointProcesses(c) PROVE IInv'
  BY <1>1, <1>4, ProcessStep
<1>5. ASSUME NEW c \in Calls, ReceiveResponse(c) \/ InvocationFails(c) PROVE IInv'
  BY <1>1, <1>5, AdvanceStep
<1>6. ASSUME NEW c \in Calls, Refuse(c) \/ ReadResponseThrows(c) \/ Crash(c) PROVE IInv'
  <2>1. PICK from \in {"idle", "sent", "record"}, answer \in {"refused", "error", "lost"} :
          Answer(c, from, answer) /\ UNCHANGED <<replayable, evidenceVars, processed>>
    BY <1>6 DEF Refuse, ReadResponseThrows, Crash
  <2>2. QED
    BY <1>1, <2>1, EndStep
<1>7. ASSUME NEW c \in Calls, Record(c) PROVE IInv'
  <2>1. call[c].status \in {"failed", "succeeded"}
    BY <1>1, <1>7 DEF Record, Answer, IInv, Founded, FoundedRequest, TypeOK, Request
  <2>2. QED
    BY <1>1, <1>7, <2>1, WriteStep DEF Record
<1>8. ASSUME NEW c \in Calls, RecordThrows(c) PROVE IInv'
  <2>1. CASE UNCHANGED evidenceVars
    BY <1>1, <1>8, <2>1, EndStep DEF RecordThrows
  <2>2. CASE WriteEvidence(c)
    BY <1>1, <1>8, <2>2, WriteStep DEF RecordThrows
  <2>3. QED
    BY <1>8, <2>1, <2>2 DEF RecordThrows
<1>9. QED
  BY <1>1, <1>2, <1>3, <1>4, <1>5, <1>6, <1>7, <1>8 DEF Next, Starts

LEMMA Invariance == Spec => []IInv
BY InitIInv, NextIInv, PTL DEF Spec

\* The tables hold rows of their types, and what a request carries is typed.
THEOREM TypeCorrect == Spec => []TypeOK
BY Invariance, PTL DEF IInv

\* Whatever endpoints answer, batches throw and isolates are evicted: the lineage of
\* a message always leads from its raw object to everything derived from it, and to
\* nothing else (recordProcessorSuccess, submission, replayCarbotiMessage and
\* createAgentContextBundle each write an artifact and its edges in one batch).
THEOREM LineageAlwaysReachesRaw == Spec => []LineageReachesRaw
BY Invariance, PTL DEF IInv

\* Runs, deliveries and artifacts never disagree.
THEOREM EvidenceAlwaysAgrees == Spec => []EvidenceAgrees
BY Invariance, PTL DEF IInv

\* A retry that reads a delivery long before it is logged itself still continues a
\* failed one: what has failed stays failed.
THEOREM RetriesAlwaysFollowFailures == Spec => []RetriesFollowFailures
BY Invariance, PTL DEF IInv

\* Nothing is logged as delivered that no endpoint acted on, and no endpoint acts on
\* what its manifest does not admit.
THEOREM DeliveredAlwaysProcessed == Spec => []DeliveredWasProcessed
BY Invariance, PTL DEF IInv

-----------------------------------------------------------------------------
(* What an endpoint does after its request is over is logged already. *)

Logged ==
  \A c \in Calls :
    /\ c \in processed => call[c].op = "invoke"
    /\ call[c].pc = "done" /\ call[c].op = "invoke" =>
         call[c].answer \in {"error", "lost"} \/ \E d \in deliveries : d.id = c

\* Of the batch: all of a request's rows are there, its delivery among them.
LEMMA WriteDelivers ==
  ASSUME NEW c \in Calls, WriteEvidence(c)
  PROVE  /\ deliveries \subseteq deliveries'
         /\ call[c].op = "invoke" => \E d \in deliveries' : d.id = c
<1>1. deliveries' = deliveries \cup DeliveryOf(c)
  BY DEF WriteEvidence
<1>2. \A d \in DeliveryOf(c) : d.id = c
  BY DEF DeliveryOf
<1>3. call[c].op = "invoke" => DeliveryOf(c) # {}
  BY DEF DeliveryOf
<1>4. QED
  BY <1>1, <1>2, <1>3

LEMMA AnswerTells ==
  ASSUME TypeOK, NEW c \in Calls, NEW from, NEW answer, Answer(c, from, answer)
  PROVE  /\ call'[c].pc = "done" /\ call'[c].op = call[c].op /\ call'[c].answer = answer
         /\ \A d \in Calls \ {c} : call'[d] = call[d]
BY DEF TypeOK, Answer, Request

LEMMA LoggedStep == IInv /\ Logged /\ [Next]_vars => Logged'
<1>1. SUFFICES ASSUME IInv, Logged, [Next]_vars PROVE Logged'
  OBVIOUS
<1>2. TypeOK /\ Founded
  BY <1>1 DEF IInv
<1>3. CASE UNCHANGED vars
  BY <1>1, <1>3 DEF vars, evidenceVars, Logged
<1>4. ASSUME NEW c \in Calls, Starts(c) PROVE Logged'
  <2>1. PICK request \in Request : Begin(c, request) /\ Started(request)
    BY <1>2, <1>4, StartsOf
  <2>2. /\ c \notin processed /\ UNCHANGED <<evidenceVars, processed>>
        /\ call'[c].pc \in {"sent", "record"}
        /\ \A d \in Calls \ {c} : call'[d] = call[d]
    BY <1>2, <2>1 DEF Begin, Started, TypeOK, Founded, FoundedRequest
  <2>3. QED
    BY <1>1, <2>2 DEF Logged, evidenceVars
<1>5. ASSUME NEW c \in Calls, EndpointProcesses(c) PROVE Logged'
  BY <1>1, <1>5 DEF EndpointProcesses, Logged, evidenceVars
<1>6. ASSUME NEW c \in Calls, ReceiveResponse(c) \/ InvocationFails(c) PROVE Logged'
  <2>1. PICK status \in {"failed", "succeeded"} : Advance(c, "sent", "record", status)
    BY <1>6 DEF ReceiveResponse, InvocationFails
  <2>2. /\ call'[c].pc = "record" /\ call'[c].op = call[c].op
        /\ \A d \in Calls \ {c} : call'[d] = call[d]
        /\ UNCHANGED <<evidenceVars, processed>>
    BY <1>2, <2>1 DEF Advance, TypeOK, Request
  <2>3. QED
    BY <1>1, <2>2 DEF Logged, evidenceVars
<1>7. ASSUME NEW c \in Calls, NEW from, NEW answer, Answer(c, from, answer),
             UNCHANGED processed, deliveries \subseteq deliveries',
             call[c].op = "invoke" =>
               answer \in {"error", "lost"} \/ \E d \in deliveries' : d.id = c
      PROVE  Logged'
  BY <1>1, <1>2, <1>7, AnswerTells DEF Logged
<1>8. ASSUME NEW c \in Calls, Refuse(c) PROVE Logged'
  <2>1. call[c].op = "none"
    BY <1>2, <1>8 DEF Refuse, Answer, Founded, FoundedRequest
  <2>2. QED
    BY <1>7, <1>8, <2>1 DEF Refuse, evidenceVars
<1>9. ASSUME NEW c \in Calls, ReadResponseThrows(c) \/ Crash(c) PROVE Logged'
  BY <1>7, <1>9 DEF ReadResponseThrows, Crash, evidenceVars
<1>10. ASSUME NEW c \in Calls, Record(c) PROVE Logged'
  BY <1>7, <1>10, WriteDelivers DEF Record
<1>11. ASSUME NEW c \in Calls, RecordThrows(c) PROVE Logged'
  BY <1>7, <1>11, WriteDelivers DEF RecordThrows, evidenceVars
<1>12. QED
  BY <1>1, <1>3, <1>4, <1>5, <1>6, <1>8, <1>9, <1>10, <1>11 DEF Next, Starts

\* An endpoint never acts on a request that ended with another answer than an error
\* and is not logged, however late it acts.
THEOREM ProcessedAlwaysLogged == Spec => []ProcessedIsLogged
<1>1. Init => Logged
  BY DEF Init, Logged, Idle
<1>2. Logged /\ TypeOK => ProcessedIsLogged
  BY DEF Logged, TypeOK, ProcessedIsLogged
<1>3. IInv => TypeOK
  BY DEF IInv
<1>4. QED
  BY <1>1, <1>2, <1>3, Invariance, LoggedStep, PTL DEF Spec

-----------------------------------------------------------------------------
(* When a failed invocation is logged.                                       *)

LEMMA FailedLoggedStep ==
  ASSUME "body" \notin Faults, "database" \notin Faults
  PROVE  IInv /\ FailedInvocationIsLogged /\ [Next]_vars => FailedInvocationIsLogged'
<1>1. SUFFICES ASSUME IInv, FailedInvocationIsLogged, [Next]_vars
               PROVE  FailedInvocationIsLogged'
  OBVIOUS
<1>2. TypeOK /\ Founded
  BY <1>1 DEF IInv
<1>3. CASE UNCHANGED vars
  BY <1>1, <1>3 DEF vars, evidenceVars, FailedInvocationIsLogged
<1>4. ASSUME NEW c \in Calls, Starts(c) PROVE FailedInvocationIsLogged'
  <2>1. PICK request \in Request : Begin(c, request) /\ Started(request)
    BY <1>2, <1>4, StartsOf
  <2>2. /\ UNCHANGED deliveries /\ call'[c].answer = "none"
        /\ \A d \in Calls \ {c} : call'[d] = call[d]
    BY <1>2, <2>1 DEF Begin, Started, TypeOK, evidenceVars
  <2>3. QED
    BY <1>1, <2>2 DEF FailedInvocationIsLogged
<1>5. ASSUME NEW c \in Calls, EndpointProcesses(c) PROVE FailedInvocationIsLogged'
  BY <1>1, <1>5 DEF EndpointProcesses, FailedInvocationIsLogged, evidenceVars
<1>6. ASSUME NEW c \in Calls, NEW status, Advance(c, "sent", "record", status)
      PROVE  FailedInvocationIsLogged'
  <2>1. /\ call'[c].op = call[c].op /\ call'[c].answer = call[c].answer
        /\ \A d \in Calls \ {c} : call'[d] = call[d]
        /\ UNCHANGED deliveries
    BY <1>2, <1>6 DEF Advance, TypeOK, Request, evidenceVars
  <2>2. QED
    BY <1>1, <2>1 DEF FailedInvocationIsLogged
<1>7. ASSUME NEW c \in Calls, NEW from, NEW answer, Answer(c, from, answer),
             deliveries \subseteq deliveries',
             call[c].op = "invoke" /\ answer = "error" => \E d \in deliveries' : d.id = c
      PROVE  FailedInvocationIsLogged'
  BY <1>1, <1>2, <1>7, AnswerTells DEF FailedInvocationIsLogged
<1>8. CASE \E c \in Calls : Refuse(c) \/ Crash(c)
  BY <1>7, <1>8 DEF Refuse, Crash, evidenceVars
<1>9. CASE \E c \in Calls : Record(c) \/ RecordThrows(c)
  BY <1>7, <1>9, WriteDelivers DEF Record, RecordThrows
<1>10. CASE \E c \in Calls : ReceiveResponse(c) \/ InvocationFails(c)
  BY <1>6, <1>10 DEF ReceiveResponse, InvocationFails
<1>11. QED
  BY <1>1, <1>3, <1>4, <1>5, <1>8, <1>9, <1>10 DEF Next, Starts, ReadResponseThrows

\* Two faults alone keep a failed invocation out of the log: a body that breaks off
\* and a batch that writes nothing.  A batch that throws after it was written or an
\* endpoint that acts late leaves no error without its delivery; a request that is
\* evicted is answered nothing and counts as lost, not as failed.
THEOREM FailedAlwaysLogged ==
  "body" \notin Faults /\ "database" \notin Faults => (Spec => []FailedInvocationIsLogged)
<1>1. SUFFICES ASSUME "body" \notin Faults, "database" \notin Faults
               PROVE  Spec => []FailedInvocationIsLogged
  OBVIOUS
<1>2. IInv /\ FailedInvocationIsLogged /\ [Next]_vars => FailedInvocationIsLogged'
  BY <1>1, FailedLoggedStep
<1>3. Init => FailedInvocationIsLogged
  BY DEF Init, FailedInvocationIsLogged, Idle
<1>4. QED
  BY <1>2, <1>3, Invariance, PTL DEF Spec

-----------------------------------------------------------------------------
(* Each write of evidence is one entry of EvidenceLog.                       *)

\* What readers see of the log when no evidence is written.
LEMMA LogKept ==
  ASSUME UNCHANGED evidenceVars, \A d \in artifacts : call'[d].message = call[d].message
  PROVE  UNCHANGED Log!logVars
<1>1. \A m : ObjectsOf(m)' = ObjectsOf(m)
  BY DEF ObjectsOf, ArtifactsOf, evidenceVars
<1>2. QED
  BY <1>1 DEF Log!logVars, evidenceVars

\* The one delivery that the batch of an invocation writes.
LEMMA DeliveryIsAttempt ==
  ASSUME IInv, NEW c \in Calls, call[c].pc = "record", call[c].op = "invoke",
         deliveries' = deliveries \cup DeliveryOf(c),
         NEW status, status = IF call[c].status = "succeeded" THEN "delivered" ELSE "failed"
  PROVE  Log!Deliver(c, call[c].message, status)
<1>1. /\ call[c].processor \in Processors
      /\ Follows(call[c].retryOf, call[c].message, call[c].processor, call[c].attempt)
  BY DEF IInv, Founded, FoundedRequest
<1>2. DeliveryOf(c) = {Log!Attempt(c, call[c].message, call[c].processor, call[c].retryOf,
                                   call[c].attempt, status)}
  BY DEF DeliveryOf, Log!Attempt
<1>3. CASE call[c].retryOf = NoCall
  <2>1. call[c].attempt = 1
    BY <1>1, <1>3 DEF Follows
  <2>2. Log!FirstDelivery(c, call[c].message, status)
    BY <1>1, <1>2, <1>3, <2>1 DEF Log!FirstDelivery
  <2>3. QED
    BY <2>2 DEF Log!Deliver
<1>4. CASE call[c].retryOf # NoCall
  <2>1. PICK failed \in deliveries :
          /\ failed.id = call[c].retryOf /\ failed.status = "failed"
          /\ failed.message = call[c].message /\ failed.processor = call[c].processor
          /\ call[c].attempt = failed.attempt + 1
    BY <1>1, <1>4 DEF Follows
  <2>2. Log!RetriedDelivery(c, call[c].message, status)
    BY <1>2, <2>1 DEF Log!RetriedDelivery
  <2>3. QED
    BY <2>2 DEF Log!Deliver
<1>5. QED
  BY <1>3, <1>4

\* The batch, as one entry.
LEMMA WriteIsEntry ==
  ASSUME IInv, NEW c \in Calls, NEW answer, Answer(c, "record", answer), WriteEvidence(c)
  PROVE  Log!Append(c)
<1> DEFINE m == call[c].message
<1>1. /\ TypeOK /\ Founded /\ InputsExist /\ call[c].pc = "record"
  BY DEF IInv, Answer
<1>2. PICK outputs \in Outputs(c) :
        /\ runs' = runs \cup RunOf(c)
        /\ deliveries' = deliveries \cup DeliveryOf(c)
        /\ artifacts' = artifacts \cup outputs
        /\ lineage' = lineage \cup EdgesOf(c, outputs)
  BY DEF WriteEvidence
<1>3. /\ m \in Messages /\ call[c].status \in {"failed", "succeeded"}
      /\ Unwritten(c)
      /\ call[c].op # "invoke" => call[c].status = "succeeded"
      /\ call[c].inputs # {} /\ call[c].inputs \subseteq ObjectsOf(m)
  BY <1>1 DEF Founded, FoundedRequest, InputsExist, TypeOK, Request
<1>4. \A run \in runs : run.id # c
  BY <1>3 DEF Unwritten
<1>5. \A n : ObjectsOf(n)' = ObjectsOf(n) \cup {d \in outputs : m = n}
  <2>1. /\ call'[c].message = m
        /\ \A d \in Calls \ {c} : call'[d] = call[d]
    BY <1>1, AnswerKeeps
  <2>2. c \notin artifacts /\ artifacts \subseteq Calls /\ outputs \subseteq {c}
    BY <1>1, <1>2, <1>3 DEF Unwritten, TypeOK, Outputs
  <2>3. QED
    BY <1>2, <2>1, <2>2 DEF ObjectsOf, ArtifactsOf, Received, Raw, Normalized, NormalizedJson
<1>6. ASSUME outputs = {c} PROVE Log!Derive(c, m)
  <2>1. [n \in Messages |-> ObjectsOf(n)]' =
          [[n \in Messages |-> ObjectsOf(n)] EXCEPT ![m] = @ \cup {c}]
    BY <1>3, <1>5, <1>6
  <2>2. EdgesOf(c, outputs) = call[c].inputs \X {c}
    BY <1>6 DEF EdgesOf
  <2>3. call[c].inputs \in (SUBSET [n \in Messages |-> ObjectsOf(n)][m]) \ {{}}
    BY <1>3
  <2>4. QED
    BY <1>2, <2>1, <2>2, <2>3 DEF Log!Derive
<1>7. ASSUME outputs = {}
      PROVE  lineage' = lineage /\ [n \in Messages |-> ObjectsOf(n)]' = [n \in Messages |-> ObjectsOf(n)]
  BY <1>2, <1>5, <1>7 DEF EdgesOf
<1>8. RunOf(c) = {[id |-> c, message |-> m, status |-> call[c].status]}
  BY DEF RunOf
<1>9. CASE call[c].status = "failed"
  <2>1. call[c].op = "invoke" /\ outputs = {}
    BY <1>2, <1>3, <1>9 DEF Outputs
  <2>2. Log!Deliver(c, m, "failed")
    BY <1>1, <1>2, <1>9, <2>1, DeliveryIsAttempt
  <2>3. Log!Fail(c, m)
    BY <1>2, <1>7, <1>8, <1>9, <2>1, <2>2 DEF Log!Fail
  <2>4. QED
    BY <1>3, <1>4, <2>3 DEF Log!Append
<1>10. CASE call[c].status = "succeeded"
  <2>1. CASE call[c].op = "invoke"
    <3>1. outputs = {} \/ outputs = {c}
      BY <1>2, <1>10, <2>1 DEF Outputs
    <3>2. Log!Deliver(c, m, "delivered")
      BY <1>1, <1>2, <1>10, <2>1, DeliveryIsAttempt
    <3>3. Log!Succeed(c, m)
      BY <1>2, <1>6, <1>7, <1>8, <1>10, <3>1, <3>2 DEF Log!Succeed
    <3>4. QED
      BY <1>3, <1>4, <3>3 DEF Log!Append
  <2>2. CASE call[c].op # "invoke"
    <3>1. outputs = {c} /\ deliveries' = deliveries
      BY <1>2, <1>10, <2>2 DEF Outputs, DeliveryOf
    <3>2. Log!Succeed(c, m)
      BY <1>2, <1>6, <1>8, <1>10, <3>1 DEF Log!Succeed
    <3>3. QED
      BY <1>3, <1>4, <3>2 DEF Log!Append
  <2>3. QED
    BY <2>1, <2>2
<1>11. QED
  BY <1>3, <1>9, <1>10

LEMMA StepIsEntry ==
  IInv /\ [Next]_vars => [\E id \in Calls : Log!Append(id)]_(Log!logVars)
<1>1. SUFFICES ASSUME IInv, [Next]_vars
               PROVE  UNCHANGED Log!logVars \/ \E id \in Calls : Log!Append(id)
  OBVIOUS
<1>2. TypeOK /\ Founded
  BY <1>1 DEF IInv
<1>3. CASE UNCHANGED vars
  BY <1>3, LogKept DEF vars
<1>4. ASSUME NEW c \in Calls, Starts(c) PROVE UNCHANGED Log!logVars
  <2>1. PICK request \in Request : Begin(c, request)
    BY <1>2, <1>4, StartsOf
  <2>2. c \notin artifacts
    BY <1>2, <2>1 DEF Begin, Founded, FoundedRequest, Unwritten
  <2>3. QED
    BY <1>2, <2>1, <2>2, LogKept DEF Begin, TypeOK
<1>5. ASSUME NEW c \in Calls, EndpointProcesses(c) PROVE UNCHANGED Log!logVars
  BY <1>5, LogKept DEF EndpointProcesses
<1>6. ASSUME NEW c \in Calls, NEW status, Advance(c, "sent", "record", status)
      PROVE  UNCHANGED Log!logVars
  <2>1. c \notin artifacts
    BY <1>2, <1>6 DEF Advance, Founded, FoundedRequest, Unwritten
  <2>2. QED
    BY <1>2, <1>6, <2>1, LogKept DEF Advance, TypeOK
<1>7. ASSUME NEW c \in Calls, NEW from, NEW answer, Answer(c, from, answer), UNCHANGED evidenceVars
      PROVE  UNCHANGED Log!logVars
  BY <1>2, <1>7, AnswerKeeps, LogKept DEF TypeOK
<1>8. CASE \E c \in Calls : Record(c) \/ RecordThrows(c)
  BY <1>1, <1>7, <1>8, WriteIsEntry DEF Record, RecordThrows
<1>9. CASE \E c \in Calls : Refuse(c) \/ ReadResponseThrows(c) \/ Crash(c)
  BY <1>7, <1>9 DEF Refuse, ReadResponseThrows, Crash
<1>10. CASE \E c \in Calls : ReceiveResponse(c) \/ InvocationFails(c)
  BY <1>6, <1>10 DEF ReceiveResponse, InvocationFails
<1>11. QED
  BY <1>1, <1>3, <1>4, <1>5, <1>8, <1>9, <1>10 DEF Next, Starts

\* Whatever requests run beside each other, however late their batches come and
\* whatever is thrown or evicted, the tables are an append-only log of whole entries:
\* no row is changed, none is half there, a retry continues what had failed and an
\* artifact derives from what its message had.
THEOREM EvidenceIsLog == Spec => ImplementsEvidenceLog
<1>1. Init => Log!LogInit
  BY DEF Init, Log!LogInit
<1>2. QED
  BY <1>1, Invariance, StepIsEntry, PTL DEF Spec, ImplementsEvidenceLog, Log!LogSpec

=============================================================================
