------------------------- MODULE ImportReviewProofs -------------------------
(***************************************************************************)
(* What holds of ImportReview for every set of records, every set of       *)
(* requests and every number of them in flight.                            *)
(*                                                                         *)
(* A commit writes rows long after it read them as approved, so its        *)
(* locals carry the argument: the records of a commit in flight are        *)
(* approved in the ledger, and nothing removes a decision from the ledger. *)
(***************************************************************************)
EXTENDS ImportReview, TLAPS

IInv ==
  /\ TypeOK
  /\ LedgerExplainsStatus
  /\ CommittedIdResolves
  /\ CommittedOnlyAfterApproval
  /\ FlightsAreFounded

-----------------------------------------------------------------------------
\* The job status derived from any counts is a job status.
LEMMA DerivedStatusType ==
  ASSUME NEW summary
  PROVE  JobStatusForReviewSummary(summary) \in ImportJobStatus
BY DEF JobStatusForReviewSummary, ImportJobStatus

\* What a request makes of a record is a status of a staged record; a decision
\* makes it approved or rejected.
LEMMA TargetStatusType ==
  ASSUME NEW request \in Request
  PROVE  /\ TargetStatus(request) \in StagedRecordStatus
         /\ request = "approve" => TargetStatus(request) = "approved"
         /\ request = "reject" => TargetStatus(request) = "rejected"
BY DEF TargetStatus, Request, ReviewAction, StagedStatusForReviewAction, StagedRecordStatus

\* An answered request has locals of the right types.
LEMMA IdleType ==
  ASSUME NEW pc \in {"ready", "summary", "write", "answered"}
  PROVE  /\ Idle(pc) \in CallState
         /\ Idle(pc).pc = pc
BY DEF Idle, CallState, Request, StagedRecordStatus, ImportJobStatus

-----------------------------------------------------------------------------
LEMMA InitIInv == Init => IInv
<1>1. SUFFICES ASSUME Init PROVE IInv
  OBVIOUS
<1>2. TypeOK
  BY <1>1, IdleType
  DEF Init, InitCalls, TypeOK, ImportJobStatus, RowStatus, StagedRecordStatus
<1>3. LedgerExplainsStatus /\ CommittedIdResolves /\ CommittedOnlyAfterApproval
  BY <1>1 DEF Init, LedgerExplainsStatus, CommittedIdResolves, CommittedOnlyAfterApproval
<1>4. FlightsAreFounded
  BY <1>1, IdleType DEF Init, InitCalls, FlightsAreFounded
<1> QED BY <1>2, <1>3, <1>4 DEF IInv

-----------------------------------------------------------------------------
(* The database a handler leaves alone keeps what is said of it; only the    *)
(* locals of the call that moves have to be looked at.                       *)

\* A request that is answered without a write keeps the invariant.
LEMMA AnswerKeepsIInv ==
  ASSUME IInv, NEW c \in Calls, Answer(c), UNCHANGED dbVars
  PROVE  IInv'
<1>1. TypeOK'
  BY IdleType DEF IInv, TypeOK, Answer, dbVars
<1>2. (LedgerExplainsStatus /\ CommittedIdResolves /\ CommittedOnlyAfterApproval)'
  BY DEF IInv, dbVars, LedgerExplainsStatus, CommittedIdResolves, CommittedOnlyAfterApproval
<1>3. FlightsAreFounded'
  BY IdleType DEF IInv, TypeOK, dbVars, Answer, FlightsAreFounded
<1> QED BY <1>1, <1>2, <1>3 DEF IInv

\* So does a request that goes on with rows of which the invariant holds.
LEMMA ProceedKeepsIInv ==
  ASSUME IInv, NEW c \in Calls, NEW request \in Request,
         NEW records \in SUBSET Records, NEW seen \in StagedRecordStatus,
         Proceed(c, request, records, seen), UNCHANGED dbVars,
         \A r \in records : staged[r] # Unstaged,
         request = "commit" => \A r \in records : <<r, "approve">> \in decisions
  PROVE  IInv'
<1>1. TypeOK'
  BY DEF IInv, TypeOK, Proceed, dbVars, CallState, ImportJobStatus
<1>2. (LedgerExplainsStatus /\ CommittedIdResolves /\ CommittedOnlyAfterApproval)'
  BY DEF IInv, dbVars, LedgerExplainsStatus, CommittedIdResolves, CommittedOnlyAfterApproval
<1>3. FlightsAreFounded'
  BY DEF IInv, TypeOK, dbVars, Proceed, FlightsAreFounded
<1> QED BY <1>1, <1>2, <1>3 DEF IInv

\* Reading the counts changes a status to write and nothing else.
LEMMA ReadSummaryKeepsIInv ==
  ASSUME IInv, NEW c \in Calls, ReadSummary(c)
  PROVE  IInv'
<1>1. TypeOK'
  <2>1. StatusAfter(ReadReviewStatusSummary(staged), call[c].seen,
                    TargetStatus(call[c].request),
                    Cardinality(call[c].records)) \in ImportJobStatus
    BY DerivedStatusType DEF StatusAfter
  <2> QED BY <2>1 DEF IInv, TypeOK, ReadSummary, dbVars, CallState
<1>2. (LedgerExplainsStatus /\ CommittedIdResolves /\ CommittedOnlyAfterApproval)'
  BY DEF IInv, ReadSummary, dbVars, LedgerExplainsStatus, CommittedIdResolves,
         CommittedOnlyAfterApproval
<1>3. FlightsAreFounded'
  BY DEF IInv, TypeOK, CallState, ReadSummary, dbVars, FlightsAreFounded
<1> QED BY <1>1, <1>2, <1>3 DEF IInv

-----------------------------------------------------------------------------
LEMMA WriteDecisionKeepsIInv ==
  ASSUME IInv, NEW c \in Calls, WriteDecision(c)
  PROVE  IInv'
<1> DEFINE request == call[c].request
           records == call[c].records
<1>1. /\ request \in ReviewAction
      /\ records \in SUBSET Records
      /\ TargetStatus(request) \in {"approved", "rejected"}
      /\ TargetStatus(request) = "approved" => request = "approve"
      /\ TargetStatus(request) = "rejected" => request = "reject"
  BY TargetStatusType DEF IInv, TypeOK, CallState, WriteDecision, Writing, ReviewAction, Request
<1>2. /\ decisions' = decisions \cup (records \X {request})
      /\ staged' = [r \in Records |-> IF r \in records THEN TargetStatus(request) ELSE staged[r]]
      /\ UNCHANGED <<committedRecordId, committedRecords>>
  BY DEF WriteDecision, RecordDecisions
<1>3. TypeOK'
  <2>1. jobStatus' \in ImportJobStatus /\ call' \in [Calls -> CallState]
    BY IdleType DEF IInv, TypeOK, CallState, WriteDecision, Answer
  <2>2. staged' \in [Records -> RowStatus] /\ decisions' \subseteq Records \X ReviewAction
    BY <1>1, <1>2 DEF IInv, TypeOK, RowStatus, StagedRecordStatus
  <2> QED BY <1>2, <2>1, <2>2 DEF IInv, TypeOK
<1>4. LedgerExplainsStatus'
  BY <1>1, <1>2 DEF IInv, TypeOK, LedgerExplainsStatus, Unstaged
<1>5. CommittedIdResolves' /\ CommittedOnlyAfterApproval'
  BY <1>2 DEF IInv, CommittedIdResolves, CommittedOnlyAfterApproval
<1>6. FlightsAreFounded'
  BY <1>1, <1>2, IdleType
  DEF IInv, TypeOK, CallState, FlightsAreFounded, WriteDecision, Answer, Unstaged
<1> QED BY <1>3, <1>4, <1>5, <1>6 DEF IInv

LEMMA WriteConfirmationKeepsIInv ==
  ASSUME IInv, NEW c \in Calls, WriteConfirmation(c)
  PROVE  IInv'
<1> DEFINE records == call[c].records
<1>1. records \in SUBSET Records /\ \A r \in records : staged[r] # Unstaged
  BY DEF IInv, TypeOK, CallState, FlightsAreFounded, WriteConfirmation, Writing
<1>2. /\ decisions' = decisions \cup (records \X {"approve"})
      /\ staged' = [r \in Records |->
           IF r \in records /\ staged[r] = "pending" THEN "approved" ELSE staged[r]]
      /\ UNCHANGED <<committedRecordId, committedRecords>>
  BY DEF WriteConfirmation, RecordDecisions
<1>3. TypeOK'
  <2>1. jobStatus' \in ImportJobStatus /\ call' \in [Calls -> CallState]
    BY IdleType DEF IInv, TypeOK, CallState, WriteConfirmation, Answer
  <2>2. staged' \in [Records -> RowStatus] /\ decisions' \subseteq Records \X ReviewAction
    BY <1>1, <1>2 DEF IInv, TypeOK, RowStatus, StagedRecordStatus, ReviewAction
  <2> QED BY <1>2, <2>1, <2>2 DEF IInv, TypeOK
<1>4. LedgerExplainsStatus'
  BY <1>1, <1>2 DEF IInv, TypeOK, LedgerExplainsStatus, Unstaged, ReviewAction
<1>5. CommittedIdResolves' /\ CommittedOnlyAfterApproval'
  BY <1>2 DEF IInv, CommittedIdResolves, CommittedOnlyAfterApproval
<1>6. FlightsAreFounded'
  BY <1>1, <1>2, IdleType
  DEF IInv, TypeOK, CallState, FlightsAreFounded, WriteConfirmation, Answer, Unstaged
<1> QED BY <1>3, <1>4, <1>5, <1>6 DEF IInv

\* The heart of it: what a commit writes was approved when it was read, and the
\* unique index keeps it from any row that is there already.
LEMMA WriteCommitKeepsIInv ==
  ASSUME IInv, NEW c \in Calls, WriteCommit(c)
  PROVE  IInv'
<1> DEFINE records == call[c].records
<1>1. /\ records \in SUBSET Records
      /\ \A r \in records : <<r, "approve">> \in decisions
      /\ \A r \in records : committedRecords[r] = NoCall
      /\ Marked(c) \subseteq records
  BY DEF IInv, TypeOK, CallState, FlightsAreFounded, WriteCommit, Writing, Conflicts, Marked
<1>2. /\ committedRecords' =
           [r \in Records |-> IF r \in records THEN c ELSE committedRecords[r]]
      /\ committedRecordId' =
           [r \in Records |-> IF r \in Marked(c) THEN c ELSE committedRecordId[r]]
      /\ staged' = [r \in Records |-> IF r \in Marked(c) THEN "committed" ELSE staged[r]]
      /\ UNCHANGED decisions
  BY DEF WriteCommit
<1>3. TypeOK'
  <2>1. jobStatus' \in ImportJobStatus /\ call' \in [Calls -> CallState]
    BY IdleType DEF IInv, TypeOK, CallState, WriteCommit, Answer
  <2>2. staged' \in [Records -> RowStatus]
    BY <1>2 DEF IInv, TypeOK, RowStatus, StagedRecordStatus
  <2>3. /\ committedRecordId' \in [Records -> Calls \cup {NoCall}]
        /\ committedRecords' \in [Records -> Calls \cup {NoCall}]
    BY <1>2 DEF IInv, TypeOK
  <2> QED BY <1>2, <2>1, <2>2, <2>3 DEF IInv, TypeOK
<1>4. LedgerExplainsStatus'
  BY <1>2 DEF IInv, TypeOK, LedgerExplainsStatus, Unstaged
<1>5. CommittedIdResolves'
  BY <1>1, <1>2 DEF IInv, CommittedIdResolves
<1>6. CommittedOnlyAfterApproval'
  BY <1>1, <1>2 DEF IInv, CommittedOnlyAfterApproval
<1>7. FlightsAreFounded'
  BY <1>2, IdleType
  DEF IInv, TypeOK, CallState, FlightsAreFounded, WriteCommit, Answer, Unstaged
<1> QED BY <1>3, <1>4, <1>5, <1>6, <1>7 DEF IInv

-----------------------------------------------------------------------------
LEMMA NextIInv == IInv /\ [Next]_reviewVars => IInv'
<1>1. SUFFICES ASSUME IInv, [Next]_reviewVars PROVE IInv'
  OBVIOUS
<1>2. CASE UNCHANGED reviewVars
  BY <1>1, <1>2
  DEF reviewVars, dbVars, IInv, TypeOK, LedgerExplainsStatus, CommittedIdResolves,
      CommittedOnlyAfterApproval, FlightsAreFounded
<1>3. ASSUME NEW c \in Calls, ReviewStep(c) PROVE IInv'
  <2>1. ASSUME NEW r \in Records, NEW action \in ReviewAction, RefuseDecision(c, r, action)
        PROVE  IInv'
    BY <1>1, <2>1, AnswerKeepsIInv DEF RefuseDecision
  <2>2. ASSUME NEW r \in Records, NEW action \in ReviewAction, ReadDecisionTarget(c, r, action)
        PROVE  IInv'
    <3>1. /\ action \in Request /\ action # "commit"
          /\ staged[r] \in StagedRecordStatus /\ staged[r] # Unstaged
      BY <1>1, <2>2
      DEF IInv, TypeOK, RowStatus, Unstaged, ReadDecisionTarget, Refused, Request, ReviewAction
    <3>2. Proceed(c, action, {r}, staged[r]) /\ UNCHANGED dbVars
      BY <2>2 DEF ReadDecisionTarget
    <3> QED BY <1>1, <3>1, <3>2, ProceedKeepsIInv
  <2>3. CASE ReadPendingRecords(c)
    <3>1. CASE Answer(c)
      BY <1>1, <2>3, <3>1, AnswerKeepsIInv DEF ReadPendingRecords
    <3>2. CASE Proceed(c, "confirm_pending", PendingRecords, "pending")
      <4>1. /\ PendingRecords \in SUBSET Records
            /\ \A r \in PendingRecords : staged[r] # Unstaged
            /\ "confirm_pending" \in Request /\ "pending" \in StagedRecordStatus
        BY DEF PendingRecords, Unstaged, Request, StagedRecordStatus
      <4> QED BY <1>1, <2>3, <3>2, <4>1, ProceedKeepsIInv DEF ReadPendingRecords
    <3> QED BY <2>3, <3>1, <3>2 DEF ReadPendingRecords
  <2>4. CASE ReadApprovedRecords(c)
    <3>1. CASE Answer(c)
      BY <1>1, <2>4, <3>1, AnswerKeepsIInv DEF ReadApprovedRecords
    <3>2. CASE Proceed(c, "commit", ApprovedRecords, "approved")
      <4>1. /\ ApprovedRecords \in SUBSET Records
            /\ \A r \in ApprovedRecords : staged[r] # Unstaged
            /\ \A r \in ApprovedRecords : <<r, "approve">> \in decisions
            /\ "commit" \in Request /\ "approved" \in StagedRecordStatus
        BY <1>1 DEF ApprovedRecords, IInv, LedgerExplainsStatus, Unstaged, Request, StagedRecordStatus
      <4> QED BY <1>1, <2>4, <3>2, <4>1, ProceedKeepsIInv DEF ReadApprovedRecords
    <3> QED BY <2>4, <3>1, <3>2 DEF ReadApprovedRecords
  <2>5. CASE ReadSummary(c)
    BY <1>1, <2>5, ReadSummaryKeepsIInv
  <2>6. CASE WriteDecision(c)
    BY <1>1, <2>6, WriteDecisionKeepsIInv
  <2>7. CASE WriteConfirmation(c)
    BY <1>1, <2>7, WriteConfirmationKeepsIInv
  <2>8. CASE WriteCommit(c)
    BY <1>1, <2>8, WriteCommitKeepsIInv
  <2>9. CASE CommitConflict(c) \/ FailCall(c)
    BY <1>1, <2>9, AnswerKeepsIInv DEF CommitConflict, FailCall
  <2> QED
    BY <1>3, <2>1, <2>2, <2>3, <2>4, <2>5, <2>6, <2>7, <2>8, <2>9 DEF ReviewStep
<1> QED BY <1>1, <1>2, <1>3 DEF Next

LEMMA Invariance == Spec => []IInv
BY InitIInv, NextIInv, PTL DEF Spec

-----------------------------------------------------------------------------
\* Every row, decision and local of a handler has its type, whatever requests race.
THEOREM TypeCorrect == Spec => []TypeOK
BY Invariance, PTL DEF IInv

\* A staged row that names a committed row names the one that exists.
THEOREM CommittedIdAlwaysResolves == Spec => []CommittedIdResolves
BY Invariance, PTL DEF IInv

\* No row reaches the business table without a recorded approval.
THEOREM CommittedRowsWereApproved == Spec => []CommittedOnlyAfterApproval
BY Invariance, PTL DEF IInv

\* The status of every staged row is explained by the decisions of the ledger.
THEOREM LedgerAlwaysExplainsStatus == Spec => []LedgerExplainsStatus
BY Invariance, PTL DEF IInv

\* What a handler goes on to write is about rows that exist, and a commit about
\* records that were approved, however long ago it read them.
THEOREM FlightsAlwaysFounded == Spec => []FlightsAreFounded
BY Invariance, PTL DEF IInv

-----------------------------------------------------------------------------
\* No step replaces or removes a committed row: only a commit writes rows, and
\* only where there are none.
LEMMA StepKeepsRows ==
  ASSUME IInv, [Next]_reviewVars, NEW r \in Records, committedRecords[r] # NoCall
  PROVE  committedRecords'[r] = committedRecords[r]
<1>1. CASE committedRecords' = committedRecords
  BY <1>1
<1>2. ASSUME NEW c \in Calls, WriteCommit(c)
      PROVE  committedRecords'[r] = committedRecords[r]
  BY <1>2 DEF WriteCommit, Conflicts
<1> QED
  BY <1>1, <1>2
  DEF Next, ReviewStep, reviewVars, dbVars, RefuseDecision, ReadDecisionTarget,
      ReadPendingRecords, ReadApprovedRecords, ReadSummary, WriteDecision,
      WriteConfirmation, CommitConflict, FailCall

\* However many commits race, a committed row stays the one that was written.
THEOREM CommittedRowsStay == Spec => CommittedRowsAreFinal
<1>1. IInv /\ [Next]_reviewVars =>
        [\A r \in Records :
           committedRecords[r] # NoCall => committedRecords'[r] = committedRecords[r]]_reviewVars
  BY StepKeepsRows
<1> QED BY <1>1, Invariance, PTL DEF Spec, CommittedRowsAreFinal

-----------------------------------------------------------------------------
(* The refinement of CommitLedger. *)

ApprovedEver == {r \in Records : <<r, "approve">> \in decisions}

LEMMA InitRefines == Init => Ledger!LedgerInit
BY DEF Init, Ledger!LedgerInit

\* A batch of decisions approves, or does nothing the ledger sees.
LEMMA DecisionRefines ==
  ASSUME IInv, decisions \subseteq decisions', UNCHANGED committedRecords
  PROVE  Ledger!Approve
<1> DEFINE new == {r \in Records : <<r, "approve">> \in decisions'}
<1>1. new = ApprovedEver \cup new /\ new \in SUBSET Records
  BY DEF ApprovedEver
<1> QED BY <1>1 DEF Ledger!Approve, ApprovedEver

\* A commit that is not refused is a commit of the ledger, by its own identity.
LEMMA CommitRefines ==
  ASSUME IInv, NEW c \in Calls, WriteCommit(c)
  PROVE  Ledger!Commit(c)
<1> DEFINE records == call[c].records
<1>1. records \in SUBSET ApprovedEver
  BY DEF IInv, TypeOK, CallState, FlightsAreFounded, WriteCommit, Writing, ApprovedEver
<1>2. \A r \in records : committedRecords[r] = NoCall
  BY DEF WriteCommit, Conflicts
<1>3. committedRecords' = [r \in Records |-> IF r \in records THEN c ELSE committedRecords[r]]
  BY DEF WriteCommit
<1>4. UNCHANGED decisions
  BY DEF WriteCommit
<1> QED BY <1>1, <1>2, <1>3, <1>4 DEF Ledger!Commit, ApprovedEver

LEMMA NextRefines ==
  IInv /\ [Next]_reviewVars => [Ledger!LedgerNext]_Ledger!ledgerVars
<1>1. SUFFICES ASSUME IInv, [Next]_reviewVars
               PROVE  [Ledger!LedgerNext]_Ledger!ledgerVars
  OBVIOUS
<1>2. CASE UNCHANGED <<decisions, committedRecords>>
  BY <1>2 DEF Ledger!ledgerVars
<1>3. ASSUME NEW c \in Calls, WriteDecision(c) \/ WriteConfirmation(c)
      PROVE  Ledger!LedgerNext
  BY <1>1, <1>3, DecisionRefines
  DEF WriteDecision, WriteConfirmation, RecordDecisions, Ledger!LedgerNext
<1>4. ASSUME NEW c \in Calls, WriteCommit(c) PROVE Ledger!LedgerNext
  BY <1>1, <1>4, CommitRefines DEF Ledger!LedgerNext
<1> QED
  BY <1>1, <1>2, <1>3, <1>4
  DEF Next, ReviewStep, reviewVars, dbVars, RefuseDecision, ReadDecisionTarget,
      ReadPendingRecords, ReadApprovedRecords, ReadSummary, CommitConflict, FailCall

\* Review and commit keep the ledger's promise: a record is committed at most
\* once, for good, only after an approval, and a commit is all or nothing.
THEOREM ReviewImplementsLedger == Spec => ImplementsLedger
BY InitRefines, NextRefines, Invariance, PTL DEF Spec, ImplementsLedger, Ledger!LedgerSpec

=============================================================================
