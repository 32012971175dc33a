-------------------------- MODULE ProcessorEvidence --------------------------
(***************************************************************************)
(* What is derived from a recorded message, and the evidence kept of it:   *)
(* external processors are invoked and their failed deliveries retried     *)
(* (carboti-processor-routes.ts), clients submit artifacts, replay a       *)
(* message (carboti-evidence-routes.ts) and bundle artifacts for an agent  *)
(* (carboti-agent-routes.ts).  Each request reads, may talk to an endpoint *)
(* that acts on its own time, and writes one D1 batch.  A request makes    *)
(* one run, at most one delivery and one artifact, with ids made for it,   *)
(* so the request stands for them.                                         *)
(***************************************************************************)
EXTENDS Integers, FiniteSets

CONSTANTS Messages, Processors,
          Accepting,  \* the processors whose manifest admits normalized messages
          Calls,      \* requests
          NoCall,
          Faults      \* the faults the environment may produce

FaultKind ==
  {"database",      \* the D1 batch throws and nothing was written
   "batch_unknown", \* the D1 batch throws after it was written
   "body",          \* the body of a response breaks off, or comes too late
   "crash"}         \* the isolate is evicted between two awaits

ASSUME EvidenceAssumption ==
  /\ Accepting \subseteq Processors
  /\ Faults \subseteq FaultKind
  /\ NoCall \notin Calls
  /\ \A m \in Messages : \A kind \in {"raw", "normalized", "normalized_json"} :
       <<m, kind>> \notin Calls

VARIABLES
  replayable,  \* SOURCE_FILES: the messages whose raw object is there
  runs,        \* carboti_processor_runs
  deliveries,  \* carboti_webhook_deliveries
  artifacts,   \* carboti_artifacts, and the rows of carboti_objects made for them
  lineage,     \* carboti_lineage_edges
  processed,   \* the requests an endpoint has acted on
  call         \* the control state of each request

evidenceVars == <<runs, deliveries, artifacts, lineage>>
vars == <<replayable, evidenceVars, processed, call>>

-----------------------------------------------------------------------------
(* The objects of a message: three of its receipt, then what is derived. *)

Raw(m) == <<m, "raw">>
Normalized(m) == <<m, "normalized">>
NormalizedJson(m) == <<m, "normalized_json">>

Received(m) == {Raw(m), Normalized(m), NormalizedJson(m)}

\* readContextArtifacts lists carboti_artifacts, where raw objects have no row.
ArtifactsOf(m) == {NormalizedJson(m)} \cup {c \in artifacts : call[c].message = m}

AllObjects == (UNION {Received(m) : m \in Messages}) \cup Calls

ObjectsOf(m) == Received(m) \cup ArtifactsOf(m)

Operation == {"none", "invoke", "submit", "replay", "bundle"}

Idle ==
  [message |-> NoCall, pc |-> "idle", op |-> "none", processor |-> NoCall,
   retryOf |-> NoCall, attempt |-> 0, inputs |-> {}, status |-> "none", answer |-> "none"]

\* The receipt batches of mail, HTTP and connector ingest have run.  The raw object
\* of a message may be gone: its batch threw after it was written.
Init ==
  /\ replayable \in SUBSET Messages
  /\ runs = {} /\ deliveries = {} /\ artifacts = {}
  /\ lineage = UNION {{<<Raw(m), Normalized(m)>>, <<Normalized(m), NormalizedJson(m)>>} :
                        m \in Messages}
  /\ processed = {}
  /\ call = [c \in Calls |-> Idle]

Begin(c, request) ==
  /\ call[c].pc = "idle"
  /\ call' = [call EXCEPT ![c] = request]
  /\ UNCHANGED <<replayable, evidenceVars, processed>>

Advance(c, from, to, status) ==
  /\ call[c].pc = from
  /\ call' = [call EXCEPT ![c].pc = to, ![c].status = status]
  /\ UNCHANGED <<replayable, evidenceVars, processed>>

Answer(c, from, answer) ==
  /\ call[c].pc = from
  /\ call' = [call EXCEPT ![c].pc = "done", ![c].answer = answer]

-----------------------------------------------------------------------------
(* Invoking processors. *)

Invocation(m, p, retryOf, attempt) ==
  [message |-> m, pc |-> IF p \in Accepting THEN "sent" ELSE "record",
   op |-> "invoke", processor |-> p, retryOf |-> retryOf,
   attempt |-> attempt, inputs |-> {Normalized(m)}, status |-> "failed", answer |-> "none"]

\* An unknown processor, message, delivery or artifact, a revoked signing secret.
Refuse(c) ==
  /\ Answer(c, "idle", "refused")
  /\ UNCHANGED <<replayable, evidenceVars, processed>>

\* The processor, its secret and the message are read and the request leaves.  A
\* manifest that does not admit the message is recorded as a failed delivery
\* without a request.
InvokeExternalProcessor(c) ==
  \E m \in Messages, p \in Processors : Begin(c, Invocation(m, p, NoCall, 1))

\* Mutant: the status of the delivery is not looked at.
AnyDelivery == deliveries

RetryableDeliveries == {d \in deliveries : d.status = "failed"}

RetryProcessorDelivery(c) ==
  \E d \in RetryableDeliveries :
    Begin(c, Invocation(d.message, d.processor, d.id, d.attempt + 1))

\* At any time after it was sent, also when nobody waits for the answer any more.
EndpointProcesses(c) ==
  /\ call[c].op = "invoke" /\ call[c].processor \in Accepting
  /\ c \notin processed
  /\ processed' = processed \cup {c}
  /\ UNCHANGED <<replayable, evidenceVars, call>>

\* Mutant: an endpoint that did not answer in time is taken to have succeeded.
AssumeSuccess(c) == Advance(c, "sent", "record", "succeeded")

\* A valid response within the manifest, read in time.
ReceiveResponse(c) ==
  /\ c \in processed
  /\ Advance(c, "sent", "record", "succeeded")

\* Mutant: the failure is answered and not recorded.
ForgetFailure(c) ==
  /\ Answer(c, "sent", "failed")
  /\ UNCHANGED <<replayable, evidenceVars, processed>>

\* The timeout, a network error, a response that is not ok, not JSON of the schema
\* or with an artifact the manifest does not admit.
InvocationFails(c) == Advance(c, "sent", "record", "failed")

\* The timeout and the connection also end the reading of the body, which nothing
\* catches: 500.
ReadResponseThrows(c) ==
  /\ "body" \in Faults
  /\ c \in processed
  /\ Answer(c, "sent", "error")
  /\ UNCHANGED <<replayable, evidenceVars, processed>>

-----------------------------------------------------------------------------
(* Requests that need no endpoint. *)

Derivation(op, m, inputs) ==
  [message |-> m, pc |-> "record", op |-> op, processor |-> NoCall, retryOf |-> NoCall,
   attempt |-> 0, inputs |-> inputs, status |-> "succeeded", answer |-> "none"]

SubmitArtifact(c) ==
  \E m \in Messages : Begin(c, Derivation("submit", m, {Normalized(m)}))

\* Refused when the raw object is missing in R2.
ReplayMessage(c) ==
  \E m \in replayable : Begin(c, Derivation("replay", m, {Raw(m)}))

\* The artifacts of the kinds asked for, the newest ones.
CreateAgentContextBundle(c) ==
  \E m \in Messages : \E selected \in (SUBSET ArtifactsOf(m)) \ {{}} :
    Begin(c, Derivation("bundle", m, selected))

-----------------------------------------------------------------------------
(* The batch. *)

\* A processor may answer with no artifact; the other operations make one.
Outputs(c) ==
  IF call[c].status = "failed" THEN {{}}
  ELSE IF call[c].op = "invoke" THEN {{}, {c}} ELSE {{c}}

\* Mutant: a failed delivery is recorded without its run.
RunsOfSuccess(c) ==
  IF call[c].status = "failed" THEN {}
  ELSE {[message |-> call[c].message, status |-> call[c].status, id |-> c]}

RunOf(c) == {[message |-> call[c].message, status |-> call[c].status, id |-> c]}

DeliveryOf(c) ==
  IF call[c].op # "invoke" THEN {}
  ELSE {[message |-> call[c].message, processor |-> call[c].processor,
         retryOf |-> call[c].retryOf, attempt |-> call[c].attempt,
         status |-> IF call[c].status = "succeeded" THEN "delivered" ELSE "failed",
         id |-> c]}

\* Mutant: edges from the objects of the receipt only.
EdgesFromReceipt(c, outputs) ==
  {<<from, to>> : from \in call[c].inputs \cap Received(call[c].message), to \in outputs}

EdgesOf(c, outputs) == {<<from, to>> : from \in call[c].inputs, to \in outputs}

WriteEvidence(c) ==
  \E outputs \in Outputs(c) :
    /\ runs' = runs \cup RunOf(c)
    /\ deliveries' = deliveries \cup DeliveryOf(c)
    /\ artifacts' = artifacts \cup outputs
    /\ lineage' = lineage \cup EdgesOf(c, outputs)

\* 201, or 409 and 502 when a failure was recorded.
Record(c) ==
  /\ Answer(c, "record", call[c].status)
  /\ WriteEvidence(c)
  /\ UNCHANGED <<replayable, processed>>

\* Nothing catches a batch that throws: 500.
RecordThrows(c) ==
  /\ Answer(c, "record", "error")
  /\ \/ "database" \in Faults /\ UNCHANGED evidenceVars
     \/ "batch_unknown" \in Faults /\ WriteEvidence(c)
  /\ UNCHANGED <<replayable, processed>>

Crash(c) ==
  /\ "crash" \in Faults
  /\ \E from \in {"sent", "record"} : Answer(c, from, "lost")
  /\ UNCHANGED <<replayable, evidenceVars, processed>>

Next ==
  \E c \in Calls :
    \/ Refuse(c)
    \/ InvokeExternalProcessor(c)
    \/ RetryProcessorDelivery(c)
    \/ EndpointProcesses(c)
    \/ ReceiveResponse(c)
    \/ InvocationFails(c)
    \/ ReadResponseThrows(c)
    \/ SubmitArtifact(c)
    \/ ReplayMessage(c)
    \/ CreateAgentContextBundle(c)
    \/ Record(c)
    \/ RecordThrows(c)
    \/ Crash(c)

Spec == Init /\ [][Next]_vars

-----------------------------------------------------------------------------
(* Properties. *)

Request ==
  [pc : {"idle", "sent", "record", "done"}, op : Operation,
   message : Messages \cup {NoCall}, processor : Processors \cup {NoCall},
   retryOf : Calls \cup {NoCall}, attempt : Nat,
   inputs : SUBSET AllObjects,
   status : {"none", "failed", "succeeded"},
   answer : {"none", "refused", "failed", "succeeded", "error", "lost"}]

Run == [id : Calls, message : Messages, status : {"succeeded", "failed"}]

Delivery ==
  [id : Calls, message : Messages, processor : Processors, retryOf : Calls \cup {NoCall},
   attempt : Nat \ {0}, status : {"delivered", "failed"}]

\* Every row and request has its type.
TypeOK ==
  /\ replayable \subseteq Messages
  /\ runs \subseteq Run
  /\ deliveries \subseteq Delivery
  /\ artifacts \subseteq Calls
  /\ processed \subseteq Calls
  /\ call \in [Calls -> Request]

\* Following the lineage from the raw object of a message reaches every object
\* derived from it, however many processors, submissions and bundles it went
\* through, and never leaves the message or names an object that does not exist.
LineageReachesRaw ==
  /\ \A m \in Messages : \A S \in SUBSET ObjectsOf(m) :
       /\ Raw(m) \in S
       /\ \A edge \in lineage : edge[1] \in S => edge[2] \in S
       => S = ObjectsOf(m)
  /\ \A edge \in lineage : \E m \in Messages : {edge[1], edge[2]} \subseteq ObjectsOf(m)

\* Runs, deliveries and artifacts agree, whatever was evicted or thrown: an artifact
\* comes of a run that succeeded, a delivery tells what its run does, and nothing
\* else claims to have run.
EvidenceAgrees ==
  /\ \A c \in artifacts : \E r \in runs : r.id = c /\ r.status = "succeeded"
  /\ \A d \in deliveries : \E r \in runs :
       /\ r.id = d.id /\ r.message = d.message
       /\ d.status = "delivered" <=> r.status = "succeeded"
  /\ \A q, r \in runs : q.id = r.id => q = r

\* A retry continues a failed delivery of the same message to the same processor,
\* with the next attempt number; the first delivery of a chain is attempt 1.
RetriesFollowFailures ==
  \A d \in deliveries :
    IF d.retryOf = NoCall THEN d.attempt = 1
    ELSE \E e \in deliveries :
           /\ e.id = d.retryOf /\ e.status = "failed"
           /\ e.message = d.message /\ e.processor = d.processor
           /\ d.attempt = e.attempt + 1

\* A delivery counts as delivered only if the endpoint acted on it, and no endpoint
\* acts on a message its manifest does not admit.
DeliveredWasProcessed ==
  /\ \A d \in deliveries : d.status = "delivered" => d.id \in processed
  /\ \A c \in processed : call[c].processor \in Accepting

\* What an endpoint acted on is logged once its request is over, unless the caller
\* got no answer or an error.
ProcessedIsLogged ==
  \A c \in processed :
    call[c].pc = "done" =>
      call[c].answer \in {"error", "lost"} \/ \E d \in deliveries : d.id = c

\* An invocation that ended in an error left a delivery to log and retry it by.
FailedInvocationIsLogged ==
  \A c \in Calls :
    call[c].op = "invoke" /\ call[c].answer = "error" => \E d \in deliveries : d.id = c

\* The tables are an append-only log: what every request leaves in them is one entry
\* of EvidenceLog, whole or not at all, continues a delivery that had failed by then
\* and derives from what its message had by then, however long ago it read that.
Log ==
  INSTANCE EvidenceLog WITH
    Requests <- Calls, NoRequest <- NoCall,
    objects <- [m \in Messages |-> ObjectsOf(m)], edges <- lineage

ImplementsEvidenceLog == Log!LogSpec

=============================================================================
