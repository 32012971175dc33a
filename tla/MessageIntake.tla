---------------------------- MODULE MessageIntake ----------------------------
(***************************************************************************)
(* How messages come in: mails (inbound-email*.ts), HTTP ingest requests   *)
(* (carboti-http-ingest-*.ts) and connector ingest requests                *)
(* (carboti-connector-routes.ts).  Each stores its raw bytes in R2 first;  *)
(* a mail then stores its attachments one by one and hands each to source  *)
(* intake, an HTTP request hands over its body; then one D1 batch records  *)
(* the message, its objects, artifacts and lineage.  Ids and keys are made *)
(* for the message, so the message stands for them.  A mail delivered      *)
(* again is another message with the same contents.                        *)
(***************************************************************************)
EXTENDS SourceIntake, Sequences, Integers

CONSTANTS Mails, HttpRequests, ConnectorRequests,
          Parts,      \* the uploads a message hands to source intake, in order
          NoReceipt,
          MaxInFlight \* bound: messages and direct uploads handled at the same time

Messages == Mails \cup HttpRequests \cup ConnectorRequests

PartsOf(m) == {Parts[m][i] : i \in DOMAIN Parts[m]}

ReceiptRow(m) ==
  [status : {"stored", "partial", "queued", "accepted"},
   parts  : [PartsOf(m) ->
               [status : Answer \cup {"failed", "not_supported"}, file : SUBSET Uploads]]]

ASSUME MessageAssumption ==
  /\ Parts \in [Messages -> Seq(Uploads)]
  /\ Mails \cap (HttpRequests \cup ConnectorRequests) = {}
  /\ HttpRequests \cap ConnectorRequests = {}
  /\ Messages \cap Uploads = {} /\ IsFiniteSet(Messages)
  /\ \A m \in Messages : NoReceipt \notin ReceiptRow(m)
  /\ MaxInFlight \in Nat
  /\ \A m \in HttpRequests : Len(Parts[m]) = 1
  /\ \A m \in ConnectorRequests : Parts[m] = <<>>
  /\ \A m, n \in Messages : m # n => PartsOf(m) \cap PartsOf(n) = {}
  /\ \A m \in Messages : \A i, j \in DOMAIN Parts[m] : Parts[m][i] = Parts[m][j] => i = j

VARIABLES
  rawObjects,  \* SOURCE_FILES: the messages and attachments whose raw copy is stored
  receipt,     \* what the D1 batch of each message wrote, NoReceipt before it
  place        \* the control state of each message

messageVars == <<rawObjects, receipt, place>>

-----------------------------------------------------------------------------
\* "kept": an error too, with the raw bytes left behind: of a delete that threw, or of
\* a put that threw after it stored them.
Place == {"idle", "open", "cleanup", "refused", "accepted", "error", "kept", "lost"}

MessageInit ==
  /\ Init
  /\ rawObjects = {}
  /\ receipt = [m \in Messages |-> NoReceipt]
  /\ place = [m \in Messages |-> "idle"]

Goto(m, from, to) ==
  /\ place[m] = from
  /\ place' = [place EXCEPT ![m] = to]

\* createSourceFileImportJob came back: with a result, or with an error that the
\* HTTP route swallows.
Returned(m, u) ==
  \/ answer[u] \in {"unsupported", "duplicate", "queued", "dispatch_failed"}
  \/ m \in HttpRequests /\ answer[u] = "error"

\* The loop over the attachments is at u.
InTurn(m, u) ==
  \E i \in DOMAIN Parts[m] :
    /\ Parts[m][i] = u
    /\ \A j \in 1..(i - 1) : Returned(m, Parts[m][j])

\* Mutant: intake is called without a raw copy.
NoRawCopy(m, u) == TRUE

\* The raw copy of an attachment is stored before its intake.
RawCopyFirst(m, u) == m \in Mails => u \in rawObjects

-----------------------------------------------------------------------------
(* Receiving. *)

\* Checks of the request and of the connector's source.
RefuseMessage(m) ==
  /\ m \notin Mails
  /\ Goto(m, "idle", "refused")
  /\ UNCHANGED <<rawObjects, receipt, intakeVars>>

\* Uploads of the upload route.
Direct == {u \in Uploads : \A m \in Messages : u \notin PartsOf(m)}

InFlight ==
  {m \in Messages : place[m] \in {"open", "cleanup"}}
    \cup {u \in Direct : pc[u] \notin {"idle", "done"}}

StoreRaw(m) ==
  /\ Cardinality(InFlight) < MaxInFlight
  /\ Goto(m, "idle", "open")
  /\ rawObjects' = rawObjects \cup {m}
  /\ UNCHANGED <<receipt, intakeVars>>

StoreRawAttachment(m, u) ==
  /\ m \in Mails /\ place[m] = "open"
  /\ InTurn(m, u) /\ pc[u] = "idle" /\ u \notin rawObjects
  /\ rawObjects' = rawObjects \cup {u}
  /\ UNCHANGED <<receipt, place, intakeVars>>

\* Where a message is when the intake of u has taken a step: an eviction ends it,
\* and an error ends a mail.
PlaceAfter(m, u) ==
  IF answer'[u] = "lost" THEN "lost"
  ELSE IF m \in Mails /\ answer'[u] = "error" THEN "error" ELSE "open"

IntakePart(m, u) ==
  /\ InTurn(m, u) /\ RawCopyFirst(m, u)
  /\ UploadStep(u)
  /\ Goto(m, "open", PlaceAfter(m, u))
  /\ UNCHANGED <<rawObjects, receipt>>

UploadDirectly(u) ==
  /\ u \in Direct
  /\ pc[u] = "idle" => Cardinality(InFlight) < MaxInFlight
  /\ UploadStep(u)
  /\ UNCHANGED messageVars

-----------------------------------------------------------------------------
(* The receipt. *)

\* Mutant: the ids made for this upload, also when intake answered with others.
FileMadeFor(u) == {u}

\* sourceFileId and importJobId of an intake result; {} for null.
FileOf(u) ==
  CASE answer[u] = "duplicate" -> SameContent(u)
    [] answer[u] \in {"queued", "dispatch_failed"} -> {u}
    [] OTHER -> {}

\* Of a mail: inbound_email_attachments.status.  Of an HTTP request: the status
\* in importPipeline, of the envelope and the answer, or its duplicate flag (the
\* status is then that of the other job).
PartStatus(m, u) ==
  IF m \in Mails
  THEN IF answer[u] \in {"queued", "duplicate"} THEN answer[u] ELSE "failed"
  ELSE IF answer[u] = "error" THEN "not_supported" ELSE answer[u]

InboundEmailStatus(m) ==
  IF PartsOf(m) = {} THEN "stored"
  ELSE IF \E u \in PartsOf(m) : PartStatus(m, u) = "failed" THEN "partial" ELSE "queued"

Receipt(m) ==
  [status |-> IF m \in Mails THEN InboundEmailStatus(m) ELSE "accepted",
   parts  |-> [u \in PartsOf(m) |-> [status |-> PartStatus(m, u), file |-> FileOf(u)]]]

AllReturned(m) == \A u \in PartsOf(m) : Returned(m, u)

Write(m) == receipt' = [receipt EXCEPT ![m] = Receipt(m)]

\* The batch, and the answer 202 or the return of the mail handler.
WriteReceipt(m) ==
  /\ AllReturned(m)
  /\ Goto(m, "open", "accepted")
  /\ Write(m)
  /\ UNCHANGED <<rawObjects, intakeVars>>

\* The batch throws.  The two routes catch it to delete the raw object; nothing
\* catches it for a mail.
WriteThrows(m) ==
  /\ AllReturned(m)
  /\ Goto(m, "open", IF m \in Mails THEN "error" ELSE "cleanup")
  /\ \/ "database" \in Faults /\ UNCHANGED receipt
     \/ "batch_unknown" \in Faults /\ Write(m)
  /\ UNCHANGED <<rawObjects, intakeVars>>

\* Mutant: the error is thrown on at once.
LeaveRaw(m) ==
  /\ Goto(m, "cleanup", "error")
  /\ UNCHANGED <<rawObjects, receipt, intakeVars>>

DeleteRaw(m) ==
  /\ Goto(m, "cleanup", "error")
  /\ rawObjects' = rawObjects \ {m}
  /\ UNCHANGED <<receipt, intakeVars>>

-----------------------------------------------------------------------------
(* Failures. *)

\* No part is between two awaits of intake.
BetweenParts(m) == \A u \in PartsOf(m) : pc[u] \in {"idle", "done"}

\* The raw put of the message or of an attachment throws, with the bytes stored or not.
\* Nothing catches it.
RawPutThrows(m) ==
  /\ "storage" \in Faults
  /\ \/ Goto(m, "idle", "error") /\ UNCHANGED rawObjects
     \/ Goto(m, "idle", "kept") /\ rawObjects' = rawObjects \cup {m}
     \/ /\ m \in Mails /\ Goto(m, "open", "error")
        /\ \E u \in PartsOf(m) \ rawObjects :
             InTurn(m, u) /\ rawObjects' \in {rawObjects, rawObjects \cup {u}}
  /\ UNCHANGED <<receipt, intakeVars>>

\* The delete or the read of the connector's source throws where nothing catches it.
\* (A delete that throws after it took the bytes ends like DeleteRaw.)
MessageThrows(m) ==
  /\ \/ "storage" \in Faults /\ Goto(m, "cleanup", "kept")
     \/ "database" \in Faults /\ m \in ConnectorRequests /\ Goto(m, "idle", "error")
  /\ UNCHANGED <<rawObjects, receipt, intakeVars>>

MessageCrashes(m) ==
  /\ "crash" \in Faults
  /\ BetweenParts(m)
  /\ Goto(m, "open", "lost") \/ Goto(m, "cleanup", "lost")
  /\ UNCHANGED <<rawObjects, receipt, intakeVars>>

MessageNext ==
  \/ \E m \in Messages :
       \/ RefuseMessage(m)
       \/ StoreRaw(m)
       \/ WriteReceipt(m)
       \/ WriteThrows(m)
       \/ DeleteRaw(m)
       \/ RawPutThrows(m)
       \/ MessageThrows(m)
       \/ MessageCrashes(m)
  \/ \E m \in Messages : \E u \in PartsOf(m) : StoreRawAttachment(m, u) \/ IntakePart(m, u)
  \/ \E u \in Uploads : UploadDirectly(u)

MessageSpec == MessageInit /\ [][MessageNext]_<<intakeVars, messageVars>>

-----------------------------------------------------------------------------
(* Properties. *)

\* Both halves of the state have their types.
MessageTypeOK ==
  /\ TypeOK
  /\ rawObjects \subseteq Messages \cup Uploads
  /\ DOMAIN receipt = Messages
  /\ \A m \in Messages : receipt[m] \in ReceiptRow(m) \cup {NoReceipt}
  /\ place \in [Messages -> Place]

Recorded == {m \in Messages : receipt[m] # NoReceipt}

\* What a receipt says of an attachment or body is true when it is written and
\* stays true: the file it names has a row, a job and the same bytes, "queued" was
\* sent, and no part reported as taken is without a file.
ReceiptNamesRealFiles ==
  \A m \in Recorded : \A u \in PartsOf(m) :
    LET entry == receipt[m].parts[u] IN
    /\ entry.status \in {"queued", "duplicate"} => entry.file # {}
    /\ entry.status = "queued" => u \in sent
    /\ \A f \in entry.file :
         f \in sourceFiles /\ Content[f] = Content[u] /\ jobStatus[f] # "none"

\* However often and by whatever way the same bytes come in, every receipt that
\* names a file for them names the same one, and at most one says it was queued.
SameBytesSameFile ==
  \A m, n \in Recorded : \A u \in PartsOf(m), v \in PartsOf(n) :
    LET a == receipt[m].parts[u]
        b == receipt[n].parts[v]
    IN  Content[u] = Content[v] =>
          /\ a.file = {} \/ b.file = {} \/ a.file = b.file
          /\ a.status = "queued" /\ b.status = "queued" => u = v

\* A recorded message has its raw bytes in R2, and a recorded mail those of its
\* attachments, even when intake refused them.  The exception is a batch that was
\* written although it threw: the two routes then delete what it names.
RecordedRawIsKept ==
  \A m \in Recorded :
    /\ m \in Mails => PartsOf(m) \subseteq rawObjects
    /\ m \in rawObjects \/ (m \notin Mails /\ "batch_unknown" \in Faults /\ place[m] = "error")

\* Raw bytes without a message belong to one that is being handled, to a mail that
\* failed, or were left by an eviction or an R2 failure.
StrayRawIsExplained ==
  \A m \in (Messages \cap rawObjects) \ Recorded :
    \/ place[m] \in {"open", "cleanup", "lost", "kept"}
    \/ place[m] = "error" /\ m \in Mails

=============================================================================
