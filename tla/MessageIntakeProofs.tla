------------------------- MODULE MessageIntakeProofs -------------------------
(***************************************************************************)
(* What holds of SourceIntake and MessageIntake for any uploads, messages  *)
(* and attachments, any bound on how many are handled at once and any set  *)
(* of faults.                                                              *)
(*                                                                         *)
(* Of SourceIntake each property speaks of an upload that is over or of    *)
(* one that is between two awaits; Progress says what an upload between    *)
(* two awaits has stored so far, which is what links the two.  Every step  *)
(* of MessageIntake is a step of source intake or leaves it alone, so      *)
(* everything proved of SourceIntake holds of it too.                      *)
(***************************************************************************)
EXTENDS MessageIntake, TLAPS


\* What an upload has stored by the await it is at.
Progress ==
  \A u \in Uploads :
    /\ pc[u] \in {"idle", "put"} => u \notin objects /\ u \notin sourceFiles
    /\ pc[u] = "insert" => u \in objects /\ u \notin sourceFiles
    /\ pc[u] \in {"idle", "put", "insert"} => jobStatus[u] = "none"
    /\ pc[u] = "cleanup" => u \in objects /\ (u \in sourceFiles => "batch_unknown" \in Faults)
    /\ pc[u] \in {"send", "fail"} =>
         u \in objects /\ u \in sourceFiles /\ jobStatus[u] = "queued"
    /\ pc[u] # "done" => answer[u] = "none" /\ (pc[u] # "fail" => u \notin sent)

\* The parts of the invariant that relate an upload's own row, object and answer.
Own ==
  /\ Progress
  /\ SourceFileHasObject
  /\ StrayObjectIsExplained
  /\ QueuedJobWasSent

IInv == TypeOK /\ OneSourceFilePerContent /\ Own /\ AnswerIsTrue

-----------------------------------------------------------------------------
LEMMA InitIInv == Init => IInv
BY DEF Init, IInv, TypeOK, Pc, Answer, OneSourceFilePerContent, Own, Progress,
       SourceFileHasObject, StrayObjectIsExplained, QueuedJobWasSent, AnswerIsTrue

LEMMA TypeStep == TypeOK /\ [Next]_intakeVars => TypeOK'
<1>1. SUFFICES ASSUME TypeOK, [Next]_intakeVars PROVE TypeOK'
  OBVIOUS
<1>2. CASE UNCHANGED intakeVars
  BY <1>1, <1>2 DEF intakeVars, TypeOK
<1>3. ASSUME NEW u \in Uploads, NEW from, NEW to \in Pc, Step(u, from, to)
      PROVE  pc' \in [Uploads -> Pc] /\ answer' \in [Uploads -> Answer]
  BY <1>1, <1>3 DEF TypeOK, Step
<1>4. ASSUME NEW u \in Uploads, NEW from, NEW result \in Answer, Finish(u, from, result)
      PROVE  pc' \in [Uploads -> Pc] /\ answer' \in [Uploads -> Answer]
  BY <1>1, <1>4 DEF TypeOK, Finish, Pc
<1>5. /\ Pc = {"idle", "put", "insert", "cleanup", "send", "fail", "done"}
      /\ Answer = {"none", "unsupported", "duplicate", "queued", "dispatch_failed", "error", "lost"}
  BY DEF Pc, Answer
<1>6. ASSUME NEW u \in Uploads,
             \/ RejectUnsupported(u) \/ FindDuplicateSourceFile(u)
             \/ SendThrows(u) \/ StorageThrows(u) \/ UploadCrashes(u)
      PROVE  TypeOK'
  BY <1>1, <1>3, <1>4, <1>5, <1>6
  DEF TypeOK, RejectUnsupported, FindDuplicateSourceFile, SendThrows, StorageThrows,
      UploadCrashes
<1>7. ASSUME NEW u \in Uploads, PutObject(u) \/ DeleteObject(u) \/ SendMessage(u)
      PROVE  TypeOK'
  BY <1>1, <1>3, <1>4, <1>5, <1>7 DEF TypeOK, PutObject, DeleteObject, SendMessage, OwnObject
<1>8. ASSUME NEW u \in Uploads, InsertSourceFileImportJob(u) \/ InsertThrows(u)
      PROVE  TypeOK'
  BY <1>1, <1>3, <1>4, <1>5, <1>8
  DEF TypeOK, InsertSourceFileImportJob, InsertThrows, InsertRows
<1>9. ASSUME NEW u \in Uploads, RecordDispatchFailure(u) \/ DatabaseThrows(u)
      PROVE  TypeOK'
  BY <1>1, <1>3, <1>4, <1>5, <1>9
  DEF TypeOK, RecordDispatchFailure, DatabaseThrows, MarkFailed
<1> QED BY <1>1, <1>2, <1>6, <1>7, <1>8, <1>9 DEF Next, UploadStep

-----------------------------------------------------------------------------
\* What an upload's step leaves alone: the rows, objects and answers of others.
LEMMA OthersStay ==
  ASSUME TypeOK, NEW u \in Uploads, NEW v \in Uploads, v # u, UploadStep(u)
  PROVE  /\ v \in objects' <=> v \in objects
         /\ v \in sourceFiles' <=> v \in sourceFiles
         /\ v \in sent' <=> v \in sent
         /\ jobStatus'[v] = jobStatus[v] /\ pc'[v] = pc[v] /\ answer'[v] = answer[v]
BY DEF UploadStep, TypeOK, Step, Finish, RejectUnsupported, FindDuplicateSourceFile, PutObject,
       InsertSourceFileImportJob, InsertThrows, InsertRows, DeleteObject, OwnObject,
       SendMessage, SendThrows, RecordDispatchFailure, MarkFailed, StorageThrows, DatabaseThrows,
       UploadCrashes

\* The unique index: a row is inserted only where no other has its content.
LEMMA OneSourceFileStep ==
  ASSUME OneSourceFilePerContent, [Next]_intakeVars
  PROVE  OneSourceFilePerContent'
<1>1. CASE UNCHANGED sourceFiles
  BY <1>1 DEF OneSourceFilePerContent
<1>2. ASSUME NEW u \in Uploads, InsertRows(u), SameContent(u) = {}
      PROVE  OneSourceFilePerContent'
  BY <1>2 DEF InsertRows, SameContent, OneSourceFilePerContent
<1> QED
  BY <1>1, <1>2
  DEF Next, UploadStep, intakeVars, RejectUnsupported, FindDuplicateSourceFile, PutObject,
      InsertSourceFileImportJob, InsertThrows, DeleteObject, SendMessage, SendThrows,
      RecordDispatchFailure, MarkFailed, StorageThrows, DatabaseThrows,
      UploadCrashes

\* Rows are never removed, so a duplicate stays one.
LEMMA SourceFilesGrow ==
  ASSUME [Next]_intakeVars
  PROVE  sourceFiles \subseteq sourceFiles'
BY DEF Next, UploadStep, intakeVars, InsertRows, RejectUnsupported, FindDuplicateSourceFile, PutObject,
       InsertSourceFileImportJob, InsertThrows, DeleteObject, SendMessage, SendThrows,
       RecordDispatchFailure, MarkFailed, StorageThrows, DatabaseThrows,
       UploadCrashes

-----------------------------------------------------------------------------
\* Every step keeps what is said of the upload that takes it.
LEMMA OwnStep ==
  ASSUME IInv, [Next]_intakeVars
  PROVE  Own'
<1> USE DEF Own, Progress, SourceFileHasObject, StrayObjectIsExplained, QueuedJobWasSent
<1>1. CASE UNCHANGED intakeVars
  BY <1>1 DEF IInv, intakeVars
<1>2. ASSUME NEW u \in Uploads, RejectUnsupported(u) PROVE Own'
  BY <1>2, OthersStay DEF UploadStep, IInv, TypeOK, RejectUnsupported, Finish
<1>3. ASSUME NEW u \in Uploads, FindDuplicateSourceFile(u) PROVE Own'
  BY <1>3, OthersStay DEF UploadStep, IInv, TypeOK, FindDuplicateSourceFile, Finish, Step
<1>4. ASSUME NEW u \in Uploads, PutObject(u) PROVE Own'
  BY <1>4, OthersStay DEF UploadStep, IInv, TypeOK, PutObject, Step
<1>5. ASSUME NEW u \in Uploads, InsertSourceFileImportJob(u) PROVE Own'
  BY <1>5, OthersStay DEF UploadStep, IInv, TypeOK, InsertSourceFileImportJob, InsertRows, Step
<1>6. ASSUME NEW u \in Uploads, InsertThrows(u) PROVE Own'
  BY <1>6, OthersStay DEF UploadStep, IInv, TypeOK, InsertThrows, InsertRows, Step
<1>7. ASSUME NEW u \in Uploads, DeleteObject(u) PROVE Own'
  BY <1>7, OthersStay DEF UploadStep, IInv, TypeOK, DeleteObject, OwnObject, Finish
<1>8. ASSUME NEW u \in Uploads, SendMessage(u) PROVE Own'
  BY <1>8, OthersStay DEF UploadStep, IInv, TypeOK, SendMessage, Finish
<1>9. ASSUME NEW u \in Uploads, SendThrows(u) PROVE Own'
  BY <1>9, OthersStay DEF UploadStep, IInv, TypeOK, SendThrows, Step
<1>10. ASSUME NEW u \in Uploads, RecordDispatchFailure(u) PROVE Own'
  BY <1>10, OthersStay DEF UploadStep, IInv, TypeOK, RecordDispatchFailure, MarkFailed, Finish
<1>11. ASSUME NEW u \in Uploads, StorageThrows(u) PROVE Own'
  BY <1>11, OthersStay DEF UploadStep, IInv, TypeOK, StorageThrows, Finish
<1>12. ASSUME NEW u \in Uploads, DatabaseThrows(u) PROVE Own'
  BY <1>12, OthersStay DEF UploadStep, IInv, TypeOK, DatabaseThrows, MarkFailed, Finish
<1>13. ASSUME NEW u \in Uploads, UploadCrashes(u) PROVE Own'
  BY <1>13, OthersStay DEF UploadStep, IInv, TypeOK, UploadCrashes, Finish
<1> QED
  BY <1>1, <1>2, <1>3, <1>4, <1>5, <1>6, <1>7, <1>8, <1>9, <1>10, <1>11, <1>12, <1>13
  DEF Next, UploadStep

LEMMA AnswerStep ==
  ASSUME IInv, [Next]_intakeVars
  PROVE  AnswerIsTrue'
<1>1. CASE UNCHANGED intakeVars
  BY <1>1 DEF IInv, AnswerIsTrue, SameContent, intakeVars
<1>2. ASSUME NEW v \in Uploads, SameContent(v) \ {v} # {}
      PROVE  SameContent(v)' \ {v} # {}
  BY <1>2, SourceFilesGrow DEF SameContent
<1>3. ASSUME NEW u \in Uploads, UploadStep(u)
      PROVE  AnswerIsTrue'
  <2>1. ASSUME NEW v \in Uploads, v # u
        PROVE  /\ answer'[v] = "queued" => v \in objects' \cap sourceFiles' \cap sent'
               /\ answer'[v] = "duplicate" => SameContent(v)' \ {v} # {} /\ v \notin objects'
               /\ answer'[v] = "dispatch_failed" => v \in sourceFiles' /\ jobStatus'[v] = "failed"
    BY <1>2, <1>3, <2>1, OthersStay DEF IInv, AnswerIsTrue
  <2>2. ASSUME answer'[u] = "queued" PROVE u \in objects' \cap sourceFiles' \cap sent'
    BY <1>3, <2>2
    DEF UploadStep, IInv, TypeOK, Own, Progress, Finish, Step, RejectUnsupported, FindDuplicateSourceFile,
        PutObject, InsertSourceFileImportJob, InsertThrows, DeleteObject, SendMessage, SendThrows,
        RecordDispatchFailure, MarkFailed, StorageThrows, DatabaseThrows,
        UploadCrashes
  <2>3. ASSUME answer'[u] = "duplicate" PROVE SameContent(u)' \ {u} # {} /\ u \notin objects'
    <3>1. FindDuplicateSourceFile(u) /\ pc[u] = "idle" /\ SameContent(u) # {}
      BY <1>3, <2>3
      DEF UploadStep, IInv, TypeOK, Own, Progress, Finish, Step, RejectUnsupported, FindDuplicateSourceFile,
          PutObject, InsertSourceFileImportJob, InsertThrows, DeleteObject, SendMessage,
          SendThrows, RecordDispatchFailure, MarkFailed, StorageThrows, DatabaseThrows,
          UploadCrashes
    <3>2. u \notin objects /\ u \notin sourceFiles /\ UNCHANGED <<objects, sourceFiles>>
      BY <3>1 DEF IInv, Own, Progress, FindDuplicateSourceFile
    <3> QED BY <2>3, <3>1, <3>2 DEF SameContent
  <2>4. ASSUME answer'[u] = "dispatch_failed" PROVE u \in sourceFiles' /\ jobStatus'[u] = "failed"
    BY <1>3, <2>4
    DEF UploadStep, IInv, TypeOK, Own, Progress, Finish, Step, RejectUnsupported, FindDuplicateSourceFile,
        PutObject, InsertSourceFileImportJob, InsertThrows, DeleteObject, SendMessage, SendThrows,
        RecordDispatchFailure, MarkFailed, StorageThrows, DatabaseThrows,
        UploadCrashes
  <2> QED BY <2>1, <2>2, <2>3, <2>4 DEF AnswerIsTrue
<1> QED BY <1>1, <1>3 DEF Next, UploadStep

-----------------------------------------------------------------------------
LEMMA Invariance == Spec => []IInv
<1>1. IInv /\ [Next]_intakeVars => IInv'
  BY TypeStep, OneSourceFileStep, OwnStep, AnswerStep DEF IInv
<1> QED BY InitIInv, <1>1, PTL DEF Spec

\* Objects, rows, messages and answers have their types.
THEOREM TypeCorrect == Spec => []TypeOK
BY Invariance, PTL DEF IInv

\* Of any number of uploads of the same bytes, one has a source file.
THEOREM OneSourceFile == Spec => []OneSourceFilePerContent
BY Invariance, PTL DEF IInv

\* No clean-up takes the object of a source file that was reported as stored.
THEOREM SourceFileAlwaysHasObject == Spec => []SourceFileHasObject
BY Invariance, PTL DEF IInv, Own

\* Objects without rows come only from evictions and R2 failures.
THEOREM StrayObjectsExplained == Spec => []StrayObjectIsExplained
BY Invariance, PTL DEF IInv, Own

\* Every answer a caller was given stays true.
THEOREM AnswersAreTrue == Spec => []AnswerIsTrue
BY Invariance, PTL DEF IInv

\* A job reported as queued, or not reported as failed, has its message.
THEOREM QueuedJobAlwaysSent == Spec => []QueuedJobWasSent
BY Invariance, PTL DEF IInv, Own

-----------------------------------------------------------------------------
(* Each step of an upload is one change of FileStore, or invisible there.    *)

LEMMA UploadStepIsStoreStep ==
  ASSUME IInv, NEW u \in Uploads, UploadStep(u)
  PROVE  \/ UNCHANGED Store!storeVars
         \/ Store!Keep(u) \/ Store!Queue(u) \/ Store!HandOverUnnoticed(u)
         \/ Store!FailDispatch(u) \/ Store!Decline(u) \/ Store!GiveUp(u)
<1>1. TypeOK /\ Progress
  BY DEF IInv, Own
<1>2. SameContent(u) = Store!StoredWith(Content[u])
  BY DEF SameContent, Store!StoredWith
<1>3. ASSUME NEW from \in Pc \ {"done"}, NEW result, Finish(u, from, result)
      PROVE  Store!Tell(u, result)
  BY <1>1, <1>3 DEF Progress, Finish, Pc, Store!Tell
<1>4. ASSUME pc[u] = "insert", SameContent(u) = {}, InsertRows(u), UNCHANGED <<sent, answer>>
      PROVE  Store!Keep(u)
  BY <1>1, <1>2, <1>4 DEF Progress, InsertRows, Store!Keep
<1>5. CASE RejectUnsupported(u) \/ FindDuplicateSourceFile(u)
  <2>1. pc[u] = "idle" /\ jobStatus[u] = "none" /\ UNCHANGED <<sourceFiles, jobStatus, sent>>
    BY <1>1, <1>5
    DEF Progress, RejectUnsupported, FindDuplicateSourceFile, Finish, Step
  <2>2. \/ Finish(u, "idle", "unsupported")
        \/ SameContent(u) # {} /\ Finish(u, "idle", "duplicate")
        \/ UNCHANGED answer
    BY <1>5 DEF RejectUnsupported, FindDuplicateSourceFile, Step
  <2>3. \/ Store!Tell(u, "unsupported")
        \/ Store!StoredWith(Content[u]) # {} /\ Store!Tell(u, "duplicate")
        \/ UNCHANGED answer
    BY <1>2, <1>3, <2>2 DEF Pc
  <2>4. QED
    BY <2>1, <2>3 DEF Store!Decline, Store!storeVars
<1>6. CASE PutObject(u) \/ SendThrows(u)
  <2>1. CASE UNCHANGED sent
    BY <1>6, <2>1 DEF PutObject, SendThrows, Step, Store!storeVars
  <2>2. CASE sent' # sent
    <3>1. /\ pc[u] = "send" /\ sent' = sent \cup {u}
          /\ UNCHANGED <<sourceFiles, jobStatus, answer>>
      BY <1>6, <2>2 DEF PutObject, SendThrows, Step
    <3>2. QED
      BY <1>1, <3>1 DEF Progress, Store!HandOver, Store!HandOverUnnoticed
  <2>3. QED
    BY <2>1, <2>2
<1>7. CASE InsertSourceFileImportJob(u) \/ InsertThrows(u)
  BY <1>4, <1>7 DEF InsertSourceFileImportJob, InsertThrows, Step, Store!storeVars
<1>8. CASE SendMessage(u)
  <2>1. jobStatus[u] = "queued" /\ u \notin sent
    BY <1>1, <1>8 DEF Progress, SendMessage, Finish
  <2>2. Store!Tell(u, "queued")
    BY <1>3, <1>8 DEF SendMessage, Pc
  <2>3. QED
    BY <1>8, <2>1, <2>2 DEF SendMessage, Store!HandOver, Store!Queue
<1>9. ASSUME NEW result \in {"dispatch_failed", "error"}, Finish(u, "fail", result),
             MarkFailed(u), UNCHANGED <<sourceFiles, sent>>
      PROVE  Store!FailDispatch(u)
  <2>1. jobStatus[u] = "queued"
    BY <1>1, <1>9 DEF Progress, Finish
  <2>2. Store!Tell(u, result)
    BY <1>3, <1>9 DEF Pc
  <2>3. QED
    BY <1>9, <2>1, <2>2 DEF MarkFailed, Store!FailDispatch
<1>10. ASSUME UNCHANGED <<sourceFiles, jobStatus, sent>>,
              NEW from \in Pc \ {"done"}, NEW result \in {"error", "lost"},
              Finish(u, from, result)
       PROVE  Store!GiveUp(u)
  BY <1>3, <1>10 DEF Store!GiveUp
<1>11. CASE RecordDispatchFailure(u)
  BY <1>9, <1>11 DEF RecordDispatchFailure
<1>12. CASE DatabaseThrows(u)
  <2>1. CASE MarkFailed(u) /\ Finish(u, "fail", "error")
    BY <1>9, <1>12, <2>1 DEF DatabaseThrows
  <2>2. CASE UNCHANGED jobStatus /\ (Finish(u, "idle", "error") \/ Finish(u, "fail", "error"))
    BY <1>10, <1>12, <2>2 DEF DatabaseThrows, Pc
  <2>3. QED
    BY <1>12, <2>1, <2>2 DEF DatabaseThrows
<1>13. CASE DeleteObject(u) \/ StorageThrows(u) \/ UploadCrashes(u)
  BY <1>10, <1>13 DEF DeleteObject, StorageThrows, UploadCrashes, Pc
<1>14. QED
  BY <1>5, <1>6, <1>7, <1>8, <1>11, <1>12, <1>13 DEF UploadStep

LEMMA IntakeIsStore == Spec => ImplementsFileStore
<1>1. Init => Store!StoreInit
  BY DEF Init, Store!StoreInit
<1>2. IInv /\ [Next]_intakeVars => [Store!StoreNext]_(Store!storeVars)
  <2>1. UNCHANGED intakeVars => UNCHANGED Store!storeVars
    BY DEF intakeVars, Store!storeVars
  <2>2. QED
    BY <2>1, UploadStepIsStoreStep DEF Next, Store!StoreNext
<1>3. QED
  BY <1>1, <1>2, Invariance, PTL DEF Spec, ImplementsFileStore, Store!StoreSpec

-----------------------------------------------------------------------------
(* Messages over source intake. *)

messageSpecVars == <<intakeVars, messageVars>>

\* Where a message is, what of it is stored and what is recorded go together.
Control(m) ==
  /\ place[m] \in {"idle", "refused"} => m \notin rawObjects /\ receipt[m] = NoReceipt
  /\ place[m] = "open" => m \in rawObjects /\ receipt[m] = NoReceipt
  /\ place[m] = "cleanup" =>
       m \notin Mails /\ m \in rawObjects /\ (receipt[m] # NoReceipt => "batch_unknown" \in Faults)
  /\ place[m] = "accepted" => m \in rawObjects /\ receipt[m] # NoReceipt
  /\ place[m] \in {"kept", "lost"} => m \in rawObjects
  /\ place[m] = "error" /\ m \in Mails => (receipt[m] # NoReceipt => m \in rawObjects)
  /\ place[m] = "error" /\ m \notin Mails =>
       /\ receipt[m] # NoReceipt => "batch_unknown" \in Faults
       /\ m \notin rawObjects

\* A mail's attachments are stored raw before intake sees them.
RawFirst(m) ==
  m \in Mails =>
    /\ \A u \in PartsOf(m) : pc[u] # "idle" => u \in rawObjects
    /\ receipt[m] # NoReceipt => PartsOf(m) \subseteq rawObjects

\* What ReceiptNamesRealFiles says of one receipt.
IsTrue(m, r) ==
  \A u \in PartsOf(m) :
    LET entry == r.parts[u] IN
    /\ entry.status \in {"queued", "duplicate"} => entry.file # {}
    /\ entry.status = "queued" => u \in sent
    /\ \A f \in entry.file :
         f \in sourceFiles /\ Content[f] = Content[u] /\ jobStatus[f] # "none"

\* Rows and messages of source intake that receipts rest on.
RowsHaveJobs ==
  /\ \A u \in sourceFiles : jobStatus[u] # "none"
  /\ sent \subseteq sourceFiles

MInv ==
  /\ IInv /\ RowsHaveJobs
  /\ MessageTypeOK
  /\ \A m \in Messages : Control(m) /\ RawFirst(m)
  /\ ReceiptNamesRealFiles

-----------------------------------------------------------------------------
(* Messages only call source intake. *)

LEMMA PartsAreUploads ==
  /\ \A m \in Messages : PartsOf(m) \subseteq Uploads
  /\ \A m, n \in Messages : m # n => PartsOf(m) \cap PartsOf(n) = {}
<1>1. ASSUME NEW m \in Messages PROVE PartsOf(m) \subseteq Uploads
  <2>1. Parts[m] \in Seq(Uploads)
    BY MessageAssumption
  <2>2. \A i \in DOMAIN Parts[m] : Parts[m][i] \in Uploads
    BY <2>1
  <2>3. QED
    BY <2>2 DEF PartsOf
<1>2. QED
  BY <1>1, MessageAssumption

LEMMA MessageStepIsIntakeStep == [MessageNext]_messageSpecVars => [Next]_intakeVars
<1>1. SUFFICES ASSUME [MessageNext]_messageSpecVars PROVE [Next]_intakeVars
  OBVIOUS
<1>2. CASE UNCHANGED messageSpecVars
  BY <1>2 DEF messageSpecVars, intakeVars
<1>3. CASE \E m \in Messages :
             \/ RefuseMessage(m) \/ StoreRaw(m) \/ WriteReceipt(m) \/ WriteThrows(m)
             \/ DeleteRaw(m) \/ RawPutThrows(m) \/ MessageThrows(m) \/ MessageCrashes(m)
             \/ \E u \in PartsOf(m) : StoreRawAttachment(m, u)
  BY <1>3 DEF RefuseMessage, StoreRaw, WriteReceipt, WriteThrows, DeleteRaw, RawPutThrows,
              MessageThrows, MessageCrashes, StoreRawAttachment
<1>4. CASE \E m \in Messages : \E u \in PartsOf(m) : IntakePart(m, u)
  BY <1>4, PartsAreUploads DEF IntakePart, Next
<1>5. CASE \E u \in Uploads : UploadDirectly(u)
  BY <1>5 DEF UploadDirectly, Next
<1>6. QED
  BY <1>1, <1>2, <1>3, <1>4, <1>5 DEF MessageNext

\* Whatever mails, HTTP and connector requests do, files are stored by source intake
\* as it is checked and proved on its own: messages add no other way to a source
\* file, a job or a queue message (intakeInboundEmailAttachments and the HTTP
\* route only call createSourceFileImportJob).
THEOREM MessagesImplementIntake == MessageSpec => Spec
<1>1. MessageInit => Init
  BY DEF MessageInit
<1>2. QED
  BY <1>1, MessageStepIsIntakeStep, PTL DEF MessageSpec, Spec, messageSpecVars

\* By way of source intake, mails, requests and direct uploads all use the bucket, D1
\* and the queue as one store, under every fault: a content is stored once and for
\* ever, however its uploads race; "queued" is said in the step that hands the job
\* over, "dispatch_failed" in the one that marks it failed; and nothing comes of an
\* upload after its answer, though a failed send may have handed the job over before.
THEOREM MessagesUseFileStore == MessageSpec => ImplementsFileStore
BY MessagesImplementIntake, IntakeIsStore, PTL

-----------------------------------------------------------------------------
(* Source intake forgets nothing a receipt may name. *)

LEMMA IntakeKeeps ==
  ASSUME IInv, RowsHaveJobs, [Next]_intakeVars
  PROVE  /\ RowsHaveJobs'
         /\ sourceFiles \subseteq sourceFiles' /\ sent \subseteq sent'
         /\ \A u \in Uploads : pc[u] # "idle" => pc'[u] # "idle"
<1>1. TypeOK /\ Progress
  BY DEF IInv, Own
<1>2. CASE UNCHANGED intakeVars
  BY <1>2 DEF intakeVars, RowsHaveJobs
<1>3. ASSUME NEW u \in Uploads, UploadStep(u)
      PROVE  /\ RowsHaveJobs'
             /\ sourceFiles \subseteq sourceFiles' /\ sent \subseteq sent'
             /\ \A v \in Uploads : pc[v] # "idle" => pc'[v] # "idle"
  BY <1>1, <1>3
  DEF UploadStep, RowsHaveJobs, TypeOK, Progress, Step, Finish, RejectUnsupported,
      FindDuplicateSourceFile, PutObject, InsertSourceFileImportJob, InsertThrows, InsertRows,
      DeleteObject, SendMessage, SendThrows, RecordDispatchFailure, MarkFailed,
      StorageThrows, DatabaseThrows, UploadCrashes
<1>4. QED
  BY <1>2, <1>3 DEF Next

\* What a receipt says of a part, when it is written.
LEMMA ReceiptIsTrue ==
  ASSUME MInv, NEW m \in Messages, AllReturned(m)
  PROVE  Receipt(m) \in ReceiptRow(m) /\ IsTrue(m, Receipt(m))
<1>1. /\ TypeOK /\ AnswerIsTrue /\ RowsHaveJobs
      /\ PartsOf(m) \subseteq Uploads
  BY PartsAreUploads DEF MInv, IInv
<1>2. ASSUME NEW u \in PartsOf(m)
      PROVE  /\ PartStatus(m, u) \in Answer \cup {"failed", "not_supported"}
             /\ FileOf(u) \in SUBSET Uploads
             /\ PartStatus(m, u) \in {"queued", "duplicate"} =>
                  FileOf(u) # {} /\ answer[u] = PartStatus(m, u)
             /\ PartStatus(m, u) = "queued" => u \in sent
             /\ \A f \in FileOf(u) :
                  f \in sourceFiles /\ Content[f] = Content[u] /\ jobStatus[f] # "none"
  <2>1. u \in Uploads /\ answer[u] \in Answer
    BY <1>1 DEF TypeOK
  <2>2. PartStatus(m, u) \in Answer \cup {"failed", "not_supported"}
    BY <2>1 DEF PartStatus, Answer
  <2>3. PartStatus(m, u) \in {"queued", "duplicate"} => answer[u] = PartStatus(m, u)
    BY DEF PartStatus
  <2>4. CASE answer[u] = "duplicate"
    BY <1>1, <2>1, <2>2, <2>3, <2>4
    DEF FileOf, SameContent, AnswerIsTrue, TypeOK, RowsHaveJobs
  <2>5. CASE answer[u] \in {"queued", "dispatch_failed"}
    BY <1>1, <2>1, <2>2, <2>3, <2>5 DEF FileOf, AnswerIsTrue, RowsHaveJobs
  <2>6. CASE answer[u] \notin {"duplicate", "queued", "dispatch_failed"}
    BY <2>1, <2>2, <2>3, <2>6 DEF FileOf
  <2>7. QED
    BY <2>4, <2>5, <2>6
<1>3. InboundEmailStatus(m) \in {"stored", "partial", "queued"}
  BY DEF InboundEmailStatus
<1>4. Receipt(m).parts = [u \in PartsOf(m) |-> [status |-> PartStatus(m, u), file |-> FileOf(u)]]
  BY DEF Receipt
<1>5. Receipt(m).parts \in
        [PartsOf(m) -> [status : Answer \cup {"failed", "not_supported"}, file : SUBSET Uploads]]
  BY <1>2, <1>4
<1>6. Receipt(m) \in ReceiptRow(m)
  BY <1>3, <1>5 DEF Receipt, ReceiptRow
<1>7. ASSUME NEW u \in PartsOf(m)
      PROVE  Receipt(m).parts[u].status = PartStatus(m, u) /\ Receipt(m).parts[u].file = FileOf(u)
  BY <1>4
<1>8. QED
  BY <1>2, <1>6, <1>7 DEF IsTrue

\* Receipts stay true, and a batch writes a true one.
LEMMA ReceiptStep ==
  ASSUME MInv, [MessageNext]_messageSpecVars, RowsHaveJobs',
         sourceFiles \subseteq sourceFiles', sent \subseteq sent',
         \A m \in Messages :
           receipt'[m] = receipt[m]
           \/ (receipt'[m] = Receipt(m) /\ AllReturned(m) /\ UNCHANGED intakeVars)
  PROVE  ReceiptNamesRealFiles'
<1>1. ASSUME NEW m \in Messages, NEW r, IsTrue(m, r) PROVE IsTrue(m, r)'
  BY <1>1 DEF IsTrue, RowsHaveJobs
<1>2. ASSUME NEW m \in Messages, receipt'[m] # NoReceipt PROVE IsTrue(m, receipt[m])'
  <2>1. PICK r : r = receipt'[m]
    OBVIOUS
  <2>2. IsTrue(m, r)
    <3>1. CASE receipt'[m] = receipt[m]
      BY <1>2, <2>1, <3>1 DEF MInv, ReceiptNamesRealFiles, Recorded, IsTrue
    <3>2. CASE receipt'[m] = Receipt(m) /\ AllReturned(m)
      BY <2>1, <3>2, ReceiptIsTrue
    <3>3. QED
      BY <3>1, <3>2
  <2>3. IsTrue(m, r)'
    BY <1>1, <2>2
  <2>4. QED
    BY <2>1, <2>3 DEF IsTrue
<1>3. QED
  BY <1>2 DEF ReceiptNamesRealFiles, Recorded, IsTrue

-----------------------------------------------------------------------------
(* The steps. *)

LEMMA InitMInv == MessageInit => MInv
<1>1. SUFFICES ASSUME MessageInit PROVE MInv
  OBVIOUS
<1>2. IInv
  BY <1>1, InitIInv DEF MessageInit
<1>3. RowsHaveJobs
  BY <1>1 DEF MessageInit, Init, RowsHaveJobs
<1>4. MessageTypeOK
  BY <1>1, <1>2 DEF MessageInit, MessageTypeOK, IInv, Place
<1>5. ASSUME NEW m \in Messages PROVE Control(m) /\ RawFirst(m)
  BY <1>1, PartsAreUploads DEF MessageInit, Init, Control, RawFirst
<1>6. ReceiptNamesRealFiles
  BY <1>1 DEF MessageInit, ReceiptNamesRealFiles, Recorded
<1>7. QED
  BY <1>2, <1>3, <1>4, <1>5, <1>6 DEF MInv

LEMMA GotoMoves ==
  ASSUME MessageTypeOK, NEW m \in Messages, NEW from, NEW to \in Place, Goto(m, from, to)
  PROVE  /\ place[m] = from /\ place'[m] = to /\ place' \in [Messages -> Place]
         /\ \A n \in Messages \ {m} : place'[n] = place[n]
BY DEF Goto, MessageTypeOK

\* A message another step says nothing about.
LEMMA OtherMessage ==
  ASSUME MInv, NEW n \in Messages, place'[n] = place[n], receipt'[n] = receipt[n],
         n \in rawObjects' <=> n \in rawObjects,
         rawObjects \cap Uploads \subseteq rawObjects',
         \A u \in PartsOf(n) :
           pc'[u] # "idle" => pc[u] # "idle" \/ u \in rawObjects' \/ n \notin Mails
  PROVE  Control(n)' /\ RawFirst(n)'
<1>1. Control(n) /\ RawFirst(n) /\ PartsOf(n) \subseteq Uploads
  BY PartsAreUploads DEF MInv
<1>2. Control(n)'
  BY <1>1 DEF Control
<1>3. RawFirst(n)'
  BY <1>1 DEF RawFirst
<1>4. QED
  BY <1>2, <1>3

\* A step of m that keeps what MInv says of messages.
Keeps(m) ==
  /\ rawObjects' \subseteq Messages \cup Uploads
  /\ place' \in [Messages -> Place]
  /\ DOMAIN receipt' = Messages
  /\ \A n \in Messages : receipt'[n] \in ReceiptRow(n) \cup {NoReceipt}
  /\ \A n \in Messages :
       receipt'[n] = receipt[n]
       \/ (receipt'[n] = Receipt(n) /\ AllReturned(n) /\ UNCHANGED intakeVars)
  /\ \A n \in Messages \ {m} : Control(n)' /\ RawFirst(n)'
  /\ Control(m)' /\ RawFirst(m)'

LEMMA QuietStep ==
  ASSUME MInv, NEW m \in Messages,
         RefuseMessage(m) \/ DeleteRaw(m) \/ MessageThrows(m) \/ MessageCrashes(m)
  PROVE  Keeps(m)
<1>1. /\ MessageTypeOK /\ Control(m) /\ RawFirst(m) /\ PartsOf(m) \subseteq Uploads
      /\ Messages \cap Uploads = {}
  BY PartsAreUploads, MessageAssumption DEF MInv
<1>2. /\ UNCHANGED <<receipt, intakeVars>>
      /\ rawObjects' \in {rawObjects, rawObjects \ {m}}
      /\ \E from, to \in Place : Goto(m, from, to)
  BY DEF RefuseMessage, DeleteRaw, MessageThrows, MessageCrashes, Place
<1>3. /\ place' \in [Messages -> Place]
      /\ \A n \in Messages \ {m} : place'[n] = place[n]
  BY <1>1, <1>2, GotoMoves
<1>4. ASSUME NEW n \in Messages \ {m} PROVE Control(n)' /\ RawFirst(n)'
  BY <1>1, <1>2, <1>3, OtherMessage DEF intakeVars
<1>5. RawFirst(m)'
  BY <1>1, <1>2 DEF RawFirst, intakeVars
<1>6. Control(m)'
  <2>1. CASE RefuseMessage(m)
    <3>1. place[m] = "idle" /\ place'[m] = "refused" /\ UNCHANGED <<rawObjects, receipt>>
      BY <1>1, <2>1, GotoMoves DEF RefuseMessage, Place
    <3>2. QED
      BY <1>1, <3>1 DEF Control
  <2>2. CASE DeleteRaw(m)
    <3>1. /\ place[m] = "cleanup" /\ place'[m] = "error"
          /\ m \notin rawObjects' /\ UNCHANGED receipt
      BY <1>1, <2>2, GotoMoves DEF DeleteRaw, Place
    <3>2. QED
      BY <1>1, <3>1 DEF Control
  <2>3. CASE MessageThrows(m)
    <3>1. \/ place[m] = "cleanup" /\ place'[m] = "kept"
          \/ place[m] = "idle" /\ place'[m] = "error"
      BY <1>1, <2>3, GotoMoves DEF MessageThrows, Place
    <3>2. UNCHANGED <<rawObjects, receipt>>
      BY <2>3 DEF MessageThrows
    <3>3. QED
      BY <1>1, <3>1, <3>2 DEF Control
  <2>4. CASE MessageCrashes(m)
    <3>1. /\ place[m] \in {"cleanup", "open"} /\ place'[m] = "lost"
          /\ UNCHANGED <<rawObjects, receipt>>
      BY <1>1, <2>4, GotoMoves DEF MessageCrashes, Place
    <3>2. QED
      BY <1>1, <3>1 DEF Control
  <2>5. QED
    BY <2>1, <2>2, <2>3, <2>4
<1>7. QED
  BY <1>1, <1>2, <1>3, <1>4, <1>5, <1>6 DEF Keeps, MessageTypeOK

LEMMA StoreStep ==
  ASSUME MInv, NEW m \in Messages,
         StoreRaw(m) \/ RawPutThrows(m) \/ \E u \in PartsOf(m) : StoreRawAttachment(m, u)
  PROVE  Keeps(m)
<1>1. /\ MessageTypeOK /\ Control(m) /\ RawFirst(m) /\ PartsOf(m) \subseteq Uploads
      /\ Messages \cap Uploads = {}
  BY PartsAreUploads, MessageAssumption DEF MInv
<1>2. /\ UNCHANGED <<receipt, intakeVars>>
      /\ rawObjects \subseteq rawObjects'
      /\ rawObjects' \ rawObjects \subseteq {m} \cup Uploads
  BY <1>1 DEF StoreRaw, RawPutThrows, StoreRawAttachment
<1>3. /\ place' \in [Messages -> Place]
      /\ \A n \in Messages \ {m} : place'[n] = place[n]
      /\ \/ place[m] \in {"idle", "open"} /\ place'[m] = "open" /\ m \in rawObjects'
         \/ place[m] = "idle" /\ place'[m] = "kept" /\ m \in rawObjects'
         \/ place[m] = "idle" /\ place'[m] = "error" /\ UNCHANGED rawObjects
         \/ place[m] = "open" /\ place'[m] = "error" /\ m \in Mails
  <2>1. CASE StoreRaw(m)
    BY <1>1, <2>1, GotoMoves DEF StoreRaw, Place
  <2>2. CASE \E u \in PartsOf(m) : StoreRawAttachment(m, u)
    BY <1>1, <2>2 DEF StoreRawAttachment, MessageTypeOK, Control
  <2>3. CASE RawPutThrows(m)
    BY <1>1, <2>3, GotoMoves DEF RawPutThrows, Place
  <2>4. QED
    BY <2>1, <2>2, <2>3
<1>4. ASSUME NEW n \in Messages \ {m} PROVE Control(n)' /\ RawFirst(n)'
  BY <1>1, <1>2, <1>3, OtherMessage DEF intakeVars
<1>5. Control(m)' /\ RawFirst(m)'
  BY <1>1, <1>2, <1>3 DEF Control, RawFirst, intakeVars
<1>6. QED
  BY <1>1, <1>2, <1>3, <1>4, <1>5 DEF Keeps, MessageTypeOK

LEMMA IntakeStep ==
  ASSUME MInv, NEW m \in Messages, NEW u \in PartsOf(m), IntakePart(m, u)
  PROVE  Keeps(m)
<1>1. /\ MessageTypeOK /\ Control(m) /\ RawFirst(m) /\ u \in Uploads /\ TypeOK
      /\ place[m] = "open" /\ UNCHANGED <<rawObjects, receipt>>
  BY PartsAreUploads DEF MInv, MessageTypeOK, IntakePart, Goto
<1>2. /\ place' \in [Messages -> Place]
      /\ \A n \in Messages \ {m} : place'[n] = place[n]
      /\ place'[m] = PlaceAfter(m, u)
  BY <1>1, GotoMoves DEF IntakePart, PlaceAfter, Place
<1>3. \A v \in Uploads \ {u} : pc'[v] = pc[v]
  BY <1>1, OthersStay DEF IntakePart
<1>4. m \in Mails => u \in rawObjects
  BY DEF IntakePart, RawCopyFirst
<1>5. ASSUME NEW n \in Messages \ {m} PROVE Control(n)' /\ RawFirst(n)'
  <2>1. u \notin PartsOf(n) /\ PartsOf(n) \subseteq Uploads
    BY PartsAreUploads
  <2>2. \A v \in PartsOf(n) : pc'[v] = pc[v]
    BY <1>3, <2>1
  <2>3. QED
    BY <1>1, <1>2, <2>2, OtherMessage
<1>6. Control(m)'
  BY <1>1, <1>2 DEF Control, PlaceAfter
<1>7. RawFirst(m)'
  BY <1>1, <1>3, <1>4, PartsAreUploads DEF RawFirst
<1>8. QED
  BY <1>1, <1>2, <1>5, <1>6, <1>7 DEF Keeps, MessageTypeOK

LEMMA WriteStep ==
  ASSUME MInv, NEW m \in Messages, WriteReceipt(m) \/ WriteThrows(m)
  PROVE  Keeps(m)
<1>1. /\ MessageTypeOK /\ Control(m) /\ RawFirst(m) /\ PartsOf(m) \subseteq Uploads
      /\ place[m] = "open" /\ UNCHANGED <<rawObjects, intakeVars>> /\ AllReturned(m)
  BY PartsAreUploads DEF MInv, WriteReceipt, WriteThrows, Goto
<1>2. /\ place' \in [Messages -> Place]
      /\ \A n \in Messages \ {m} : place'[n] = place[n]
      /\ WriteReceipt(m) => place'[m] = "accepted"
      /\ WriteThrows(m) => place'[m] = IF m \in Mails THEN "error" ELSE "cleanup"
  BY <1>1, GotoMoves DEF WriteReceipt, WriteThrows, Place
<1>3. /\ DOMAIN receipt' = Messages
      /\ \A n \in Messages \ {m} : receipt'[n] = receipt[n]
      /\ receipt'[m] \in {receipt[m], Receipt(m)}
      /\ WriteReceipt(m) => receipt'[m] = Receipt(m)
      /\ WriteThrows(m) => receipt'[m] = receipt[m] \/ "batch_unknown" \in Faults
  BY <1>1 DEF WriteReceipt, WriteThrows, Write, MessageTypeOK
<1>4. Receipt(m) \in ReceiptRow(m) /\ Receipt(m) # NoReceipt
  BY <1>1, ReceiptIsTrue, MessageAssumption
<1>5. ASSUME NEW n \in Messages \ {m} PROVE Control(n)' /\ RawFirst(n)'
  BY <1>1, <1>2, <1>3, OtherMessage DEF intakeVars
<1>6. Control(m)'
  <2>1. CASE WriteReceipt(m)
    BY <1>1, <1>2, <1>3, <1>4, <2>1 DEF Control
  <2>2. CASE WriteThrows(m)
    BY <1>1, <1>2, <1>3, <1>4, <2>2 DEF Control
  <2>3. QED
    BY <2>1, <2>2
<1>7. RawFirst(m)'
  <2>1. ASSUME m \in Mails, NEW u \in PartsOf(m) PROVE u \in rawObjects
    <3>1. answer[u] # "none"
      BY <1>1, <2>1 DEF AllReturned, Returned
    <3>2. pc[u] = "done"
      BY <1>1, <3>1 DEF MInv, IInv, Own, Progress
    <3>3. QED
      BY <1>1, <2>1, <3>2 DEF RawFirst
  <2>2. QED
    BY <1>1, <2>1 DEF RawFirst, intakeVars
<1>8. QED
  BY <1>1, <1>2, <1>3, <1>4, <1>5, <1>6, <1>7 DEF Keeps, MessageTypeOK

\* An upload of the upload route.
LEMMA DirectStep ==
  ASSUME MInv, NEW u \in Uploads, UploadDirectly(u), NEW m \in Messages
  PROVE  Keeps(m)
<1>1. /\ MessageTypeOK /\ UNCHANGED messageVars /\ TypeOK
      /\ \A v \in Uploads \ {u} : pc'[v] = pc[v]
      /\ \A n \in Messages : u \notin PartsOf(n)
  BY OthersStay DEF MInv, MessageTypeOK, UploadDirectly, Direct
<1>2. ASSUME NEW n \in Messages PROVE Control(n)' /\ RawFirst(n)'
  <2>1. \A v \in PartsOf(n) : pc'[v] = pc[v]
    BY <1>1, PartsAreUploads
  <2>2. QED
    BY <1>1, <2>1, OtherMessage DEF messageVars
<1>3. QED
  BY <1>1, <1>2 DEF Keeps, MessageTypeOK, messageVars

LEMMA StutterStep ==
  ASSUME MInv, UNCHANGED messageSpecVars, NEW m \in Messages
  PROVE  Keeps(m)
<1>1. /\ MessageTypeOK /\ UNCHANGED messageVars /\ UNCHANGED pc
  BY DEF MInv, messageSpecVars, intakeVars
<1>2. ASSUME NEW n \in Messages PROVE Control(n)' /\ RawFirst(n)'
  BY <1>1, OtherMessage DEF messageVars
<1>3. QED
  BY <1>1, <1>2 DEF Keeps, MessageTypeOK, messageVars

LEMMA NextMInv == MInv /\ [MessageNext]_messageSpecVars => MInv'
<1>1. SUFFICES ASSUME MInv, [MessageNext]_messageSpecVars PROVE MInv'
  OBVIOUS
<1>2. IInv' /\ RowsHaveJobs' /\ sourceFiles \subseteq sourceFiles' /\ sent \subseteq sent'
  BY <1>1, MessageStepIsIntakeStep, IntakeKeeps,
     TypeStep, OneSourceFileStep, OwnStep, AnswerStep DEF MInv, IInv
<1>3. CASE Messages = {}
  <2>1. /\ ~ \E m \in Messages : TRUE
        /\ MessageTypeOK
    BY <1>1, <1>3 DEF MInv
  <2>2. UNCHANGED messageVars
    BY <1>1, <2>1 DEF MessageNext, UploadDirectly, messageSpecVars
  <2>3. QED
    BY <1>2, <1>3, <2>1, <2>2
    DEF MInv, MessageTypeOK, IInv, messageVars, ReceiptNamesRealFiles, Recorded
<1>4. CASE Messages # {}
  <2>1. \E m \in Messages : Keeps(m)
    <3>1. CASE UNCHANGED messageSpecVars
      BY <1>1, <1>4, <3>1, StutterStep
    <3>2. CASE \E m \in Messages :
                 RefuseMessage(m) \/ DeleteRaw(m) \/ MessageThrows(m) \/ MessageCrashes(m)
      BY <1>1, <3>2, QuietStep
    <3>3. CASE \E m \in Messages :
                 \/ StoreRaw(m) \/ RawPutThrows(m)
                 \/ \E u \in PartsOf(m) : StoreRawAttachment(m, u)
      BY <1>1, <3>3, StoreStep
    <3>4. CASE \E m \in Messages : WriteReceipt(m) \/ WriteThrows(m)
      BY <1>1, <3>4, WriteStep
    <3>5. CASE \E m \in Messages : \E u \in PartsOf(m) : IntakePart(m, u)
      BY <1>1, <3>5, IntakeStep
    <3>6. CASE \E u \in Uploads : UploadDirectly(u)
      BY <1>1, <1>4, <3>6, DirectStep
    <3>7. QED
      BY <1>1, <3>1, <3>2, <3>3, <3>4, <3>5, <3>6 DEF MessageNext
  <2>2. PICK m \in Messages : Keeps(m)
    BY <2>1
  <2>3. MessageTypeOK'
    BY <1>2, <2>2 DEF Keeps, MessageTypeOK, IInv
  <2>4. ReceiptNamesRealFiles'
    BY <1>1, <1>2, <2>2, ReceiptStep DEF Keeps
  <2>5. ASSUME NEW n \in Messages PROVE Control(n)' /\ RawFirst(n)'
    BY <2>2 DEF Keeps
  <2>6. QED
    BY <1>2, <2>3, <2>4, <2>5 DEF MInv
<1>5. QED
  BY <1>3, <1>4

LEMMA MessageInvariance == MessageSpec => []MInv
<1>1. MessageSpec => MessageInit /\ [][MessageNext]_messageSpecVars
  BY DEF MessageSpec, messageSpecVars
<1>2. QED
  BY <1>1, InitMInv, NextMInv, PTL

-----------------------------------------------------------------------------
\* Both halves of the state keep their types.
THEOREM MessagesTypeCorrect == MessageSpec => []MessageTypeOK
BY MessageInvariance, PTL DEF MInv

\* A receipt never names a file that is not there, of other bytes or without a job,
\* and what it calls queued was sent (writeInboundEmailReceipt and the HTTP route
\* write what createSourceFileImportJob answered).
THEOREM ReceiptsNameRealFiles == MessageSpec => []ReceiptNamesRealFiles
BY MessageInvariance, PTL DEF MInv

\* Two receipts for the same bytes never name two files, and one at most queued them:
\* the unique index of source intake is enough for mails, HTTP requests and uploads.
THEOREM SameBytesAlwaysSameFile == MessageSpec => []SameBytesSameFile
<1>1. MInv => SameBytesSameFile
  <2>1. SUFFICES ASSUME MInv,
                        NEW m \in Recorded, NEW n \in Recorded,
                        NEW u \in PartsOf(m), NEW v \in PartsOf(n), Content[u] = Content[v]
                 PROVE  LET a == receipt[m].parts[u]
                            b == receipt[n].parts[v]
                        IN  /\ a.file = {} \/ b.file = {} \/ a.file = b.file
                            /\ a.status = "queued" /\ b.status = "queued" => u = v
    BY DEF SameBytesSameFile
  <2> DEFINE a == receipt[m].parts[u]
  <2> DEFINE b == receipt[n].parts[v]
  <2>2. /\ \A f \in a.file : f \in sourceFiles /\ Content[f] = Content[u]
        /\ \A f \in b.file : f \in sourceFiles /\ Content[f] = Content[u]
        /\ a.status = "queued" => u \in sourceFiles
        /\ b.status = "queued" => v \in sourceFiles
    BY <2>1 DEF MInv, ReceiptNamesRealFiles, RowsHaveJobs
  <2>3. \A f, g \in sourceFiles : Content[f] = Content[g] => f = g
    BY <2>1 DEF MInv, IInv, OneSourceFilePerContent
  <2>4. a.file = {} \/ b.file = {} \/ a.file = b.file
    <3>1. \A f \in a.file : \A g \in b.file : f = g
      BY <2>2, <2>3
    <3>2. ASSUME NEW f \in a.file, NEW g \in b.file PROVE a.file = b.file
      <4>1. \A e : e \in a.file <=> e \in b.file
        BY <3>1, <3>2
      <4>2. \A A, B : (\A e : e \in A <=> e \in B) => A = B
        OBVIOUS
      <4>3. QED
        BY <4>1, <4>2
    <3>3. QED
      BY <3>2
  <2>5. QED
    BY <2>1, <2>2, <2>3, <2>4
<1>2. QED
  BY <1>1, MessageInvariance, PTL

\* What was recorded of a message can be read again, unless a batch that was written
\* threw.
THEOREM RecordedRawAlwaysKept == MessageSpec => []RecordedRawIsKept
<1>1. MInv => RecordedRawIsKept
  BY DEF MInv, RecordedRawIsKept, Recorded, Control, RawFirst, MessageTypeOK, Place
<1>2. QED
  BY <1>1, MessageInvariance, PTL

\* Raw bytes are left behind only by mails that failed, evictions and R2 failures.
THEOREM StrayRawAlwaysExplained == MessageSpec => []StrayRawIsExplained
<1>1. MInv => StrayRawIsExplained
  BY DEF MInv, StrayRawIsExplained, Recorded, Control, MessageTypeOK, Place
<1>2. QED
  BY <1>1, MessageInvariance, PTL

=============================================================================
