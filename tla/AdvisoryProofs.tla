---------------------------- MODULE AdvisoryProofs ----------------------------
(***************************************************************************)
(* What holds of Advisory for any records, any requests of either kind,    *)
(* any faults and any advisories there before.  Advisory requests leave    *)
(* the job and its review alone, so everything proved of ImportPipeline    *)
(* holds here too.                                                         *)
(***************************************************************************)
EXTENDS Advisory, ImportPipelineProofs

\* What the first conjunct of FirstVerdictStands says of one advisory.
VerdictStands(b) ==
  Exists(b) =>
    /\ advisories[b].status = "suggested" <=> Verdicts(b) = {}
    /\ \A v \in Verdict :
         IF advisories[b].status = v THEN Event(v, advisories[b].by[v], b) \in trail
                                     ELSE advisories[b].by[v] = NoAsk

\* A verdict on record is about an advisory that had none when its request, which is
\* over, read it.
EventFounded(e) ==
  /\ ask[e.actor].pc = "answered"
  /\ e.action \in Verdict => Exists(e.subject) /\ e.subject \notin ask[e.actor].settled

\* A request that is going to write reads an advisory without a verdict, or is going to
\* generate one that is not there yet.
AskFounded(a) ==
  /\ ask[a].pc # "answered" => ~Exists(a)
  /\ ask[a].pc = "update" =>
       /\ ask[a].of \in Ids \ ask[a].settled
       /\ Exists(ask[a].of)

VerdictInv ==
  /\ AdvisoryTypeOK
  /\ \A b \in Ids : VerdictStands(b)
  /\ \A e \in trail : EventFounded(e)
  /\ \A a \in Asks : AskFounded(a)

-----------------------------------------------------------------------------
\* An advisory request leaves the job, its records and its review alone, and every other
\* step is one of ImportPipeline.
THEOREM AdvisoriesImplementPipeline == AdvisorySpec => PipelineSpec
<1>1. AdvisoryInit => PipelineInit
  BY DEF AdvisoryInit
<1>2. [AdvisoryNext]_advisorySpecVars => [PipelineNext]_pipelineVars
  BY DEF AdvisoryNext, advisorySpecVars
<1> QED BY <1>1, <1>2, PTL DEF AdvisorySpec, PipelineSpec

-----------------------------------------------------------------------------
(* Types. *)

LEMMA CountsType ==
  ASSUME NEW rowStatus, rowStatus = staged, TypeOK
  PROVE  ReadStats(rowStatus) \in ReviewStatusSummary
<1>1. ASSUME NEW s \in StagedRecordStatus
      PROVE  Cardinality({r \in DOMAIN staged : staged[r] = s}) \in Nat
  <2>1. DOMAIN staged = Records
    BY DEF TypeOK
  <2>2. IsFiniteSet({r \in Records : staged[r] = s})
    BY ReviewAssumption, FS_Subset
  <2> QED BY <2>1, <2>2, FS_CardinalityType
<1> QED BY <1>1 DEF ReadStats, ReadReviewStatusSummary, ReviewStatusSummary

LEMMA NewArtifactType ==
  ASSUME NEW counts \in ReviewStatusSummary
  PROVE  /\ NewArtifact(counts) \in Artifact
         /\ NewArtifact(counts) # NoAsk
         /\ NewArtifact(counts).counts = counts
         /\ NewArtifact(counts).status = "suggested"
         /\ \A v \in Verdict : NewArtifact(counts).by[v] = NoAsk
<1>1. NewArtifact(counts) \in Artifact
  BY DEF NewArtifact, Artifact
<1>2. NewArtifact(counts) # NoAsk
  BY <1>1, AdvisoryAssumption
<1> QED BY <1>1, <1>2 DEF NewArtifact

AskState ==
  [pc : {"ready", "insert", "update", "answered"}, of : Ids \cup {NoAsk},
   counts : ReviewStatusSummary, verdict : Verdict, settled : SUBSET Ids]

LEMMA IdleAskType ==
  ASSUME NEW pc \in {"ready", "insert", "update", "answered"}
  PROVE  /\ IdleAsk(pc) \in AskState
         /\ IdleAsk(pc).pc = pc
         /\ IdleAsk(pc).settled = {}
BY DEF IdleAsk, AskState, NoCounts, ReviewStatusSummary, Verdict

LEMMA InitVerdict == AdvisoryInit => VerdictInv
<1>1. SUFFICES ASSUME AdvisoryInit PROVE VerdictInv
  OBVIOUS
<1>2. TypeOK
  BY <1>1, PipelineInitIInv DEF AdvisoryInit, IInv
<1>3. ReadStats(staged) \in ReviewStatusSummary
  BY <1>2, CountsType
<1>4. /\ advisories = [a \in Ids |->
           IF a \in Earlier THEN NewArtifact(ReadStats(staged)) ELSE NoAsk]
      /\ trail = {}
      /\ ask = [a \in Asks |-> IdleAsk("ready")]
  BY <1>1 DEF AdvisoryInit
<1>5. AdvisoryTypeOK
  BY <1>3, <1>4, NewArtifactType, IdleAskType DEF AdvisoryTypeOK, AskState
<1>6. ASSUME NEW b \in Ids PROVE VerdictStands(b)
  <2>1. CASE b \in Earlier
    <3>1. advisories[b] = NewArtifact(ReadStats(staged))
      BY <1>4, <2>1
    <3>2. Verdicts(b) = {}
      BY <1>4 DEF Verdicts
    <3> QED BY <3>1, <3>2, <1>3, NewArtifactType DEF VerdictStands, Verdict
  <2>2. CASE b \notin Earlier
    BY <1>4, <2>2 DEF VerdictStands, Exists
  <2> QED BY <2>1, <2>2
<1>7. \A a \in Asks : AskFounded(a)
  BY <1>4, IdleAskType, AdvisoryAssumption DEF AskFounded, Exists, Ids
<1> QED BY <1>4, <1>5, <1>6, <1>7 DEF VerdictInv

-----------------------------------------------------------------------------
(* Steps. *)

\* A request that is answered without a write changes nothing that is said of events,
\* which name other requests or none.
LEMMA AnswerKeeps ==
  ASSUME VerdictInv, NEW a \in Asks, AnswerAsk(a), ask[a].pc # "answered",
         UNCHANGED <<advisories, trail>>
  PROVE  VerdictInv'
<1> DEFINE state == [IdleAsk("answered") EXCEPT !.settled = ask[a].settled]
<1>1. /\ state \in AskState /\ state.pc = "answered" /\ state.settled = ask[a].settled
      /\ ask \in [Asks -> AskState]
  BY IdleAskType DEF VerdictInv, AdvisoryTypeOK, AskState
<1>2. ask' = [ask EXCEPT ![a] = state]
  BY DEF AnswerAsk
<1> HIDE DEF state
<1>3. AdvisoryTypeOK'
  BY <1>1, <1>2 DEF VerdictInv, AdvisoryTypeOK, AskState
<1>4. \A b \in Ids : VerdictStands(b)'
  BY DEF VerdictInv, VerdictStands, Exists, Verdicts
<1>5. \A e \in trail' : EventFounded(e)'
  BY <1>1, <1>2 DEF VerdictInv, AdvisoryTypeOK, EventFounded, Exists
<1>6. \A x \in Asks : AskFounded(x)'
  BY <1>1, <1>2 DEF VerdictInv, AskFounded, Exists
<1> QED BY <1>3, <1>4, <1>5, <1>6 DEF VerdictInv

\* So does a request that goes on, with a founded reading.
LEMMA GoOnKeeps ==
  ASSUME VerdictInv, NEW a \in Asks, NEW state \in AskState, ask[a].pc = "ready",
         ask' = [ask EXCEPT ![a] = state], UNCHANGED <<advisories, trail>>,
         state.pc = "update" => state.of \in Ids \ state.settled /\ Exists(state.of)
  PROVE  VerdictInv'
<1>1. AdvisoryTypeOK'
  BY DEF VerdictInv, AdvisoryTypeOK, AskState
<1>2. \A b \in Ids : VerdictStands(b)'
  BY DEF VerdictInv, VerdictStands, Exists, Verdicts
<1>3. \A e \in trail' : EventFounded(e)'
  BY DEF VerdictInv, AdvisoryTypeOK, EventFounded, Exists
<1>4. \A x \in Asks : AskFounded(x)'
  BY DEF VerdictInv, AdvisoryTypeOK, AskFounded, Exists
<1> QED BY <1>1, <1>2, <1>3, <1>4 DEF VerdictInv

LEMMA WriteAdvisoryKeeps ==
  ASSUME VerdictInv, NEW a \in Asks, WriteAdvisory(a)
  PROVE  VerdictInv'
<1> DEFINE state == [IdleAsk("answered") EXCEPT !.settled = ask[a].settled]
           new == NewArtifact(ask[a].counts)
<1>1. /\ state \in AskState /\ state.pc = "answered" /\ state.settled = ask[a].settled
      /\ ask \in [Asks -> AskState]
      /\ ask[a].counts \in ReviewStatusSummary
  BY IdleAskType DEF VerdictInv, AdvisoryTypeOK, AskState
<1>2. /\ new \in Artifact /\ new # NoAsk /\ new.status = "suggested"
      /\ \A v \in Verdict : new.by[v] = NoAsk
  BY <1>1, NewArtifactType
<1>3. /\ ask' = [ask EXCEPT ![a] = state]
      /\ advisories' = [advisories EXCEPT ![a] = new]
      /\ trail' = trail \cup {Event("generated", a, a)}
      /\ ask[a].pc = "insert"
  BY DEF AnswerAsk, WriteAdvisory
<1> HIDE DEF state, new
<1>4. a \in Ids /\ ~Exists(a) /\ Ids = Asks \cup Earlier
  BY <1>3 DEF VerdictInv, AskFounded, Ids
<1>5. Event("generated", a, a) \in
        [action : Verdict \cup {"generated"}, actor : Asks, subject : Ids]
  BY <1>4 DEF Event
<1>6. AdvisoryTypeOK'
  BY <1>1, <1>2, <1>3, <1>4, <1>5 DEF VerdictInv, AdvisoryTypeOK, AskState
<1>7. \A b \in Ids : Verdicts(b)' = Verdicts(b)
  BY <1>3 DEF Verdicts, Event, Verdict
<1>8. Verdicts(a) = {}
  BY <1>4 DEF VerdictInv, Verdicts, EventFounded
<1>9. ASSUME NEW b \in Ids PROVE VerdictStands(b)'
  <2>1. CASE b = a
    <3>1. advisories'[b] = new
      BY <1>3, <1>4, <2>1 DEF VerdictInv, AdvisoryTypeOK
    <3> QED BY <1>2, <1>7, <1>8, <2>1, <3>1 DEF VerdictStands, Verdict
  <2>2. CASE b # a
    <3>1. advisories'[b] = advisories[b]
      BY <1>3, <1>4, <2>2 DEF VerdictInv, AdvisoryTypeOK
    <3>2. VerdictStands(b)
      BY DEF VerdictInv
    <3> QED BY <1>3, <1>7, <3>1, <3>2 DEF VerdictStands, Exists
  <2> QED BY <2>1, <2>2
<1>10. ASSUME NEW e \in trail' PROVE EventFounded(e)'
  <2>1. CASE e = Event("generated", a, a)
    BY <1>1, <1>3, <2>1 DEF EventFounded, Event, Verdict
  <2>2. CASE e \in trail
    <3>1. e.actor \in Asks /\ e.subject \in Ids
      BY <2>2 DEF VerdictInv, AdvisoryTypeOK
    <3>2. EventFounded(e) /\ e.actor # a
      BY <1>3, <2>2 DEF VerdictInv, EventFounded
    <3>3. ask'[e.actor] = ask[e.actor]
      BY <1>1, <1>3, <3>1, <3>2
    <3>4. Exists(e.subject) => Exists(e.subject)'
      BY <1>2, <1>3, <1>4, <3>1 DEF Exists, VerdictInv, AdvisoryTypeOK
    <3> QED BY <3>2, <3>3, <3>4 DEF EventFounded
  <2> QED BY <1>3, <2>1, <2>2
<1>11. ASSUME NEW x \in Asks PROVE AskFounded(x)'
  <2>1. CASE x = a
    BY <1>1, <1>3, <2>1 DEF AskFounded
  <2>2. CASE x # a
    <3>1. ask'[x] = ask[x] /\ advisories'[x] = advisories[x]
      BY <1>1, <1>3, <1>4, <2>2 DEF VerdictInv, AdvisoryTypeOK
    <3>2. AskFounded(x) /\ ask[x] \in AskState
      BY <1>1 DEF VerdictInv
    <3>3. \A y \in Ids : Exists(y) => Exists(y)'
      BY <1>2, <1>3, <1>4 DEF Exists, VerdictInv, AdvisoryTypeOK
    <3> QED BY <3>1, <3>2, <3>3 DEF AskFounded, Exists
  <2> QED BY <2>1, <2>2
<1> QED BY <1>6, <1>9, <1>10, <1>11 DEF VerdictInv

LEMMA WriteVerdictKeeps ==
  ASSUME VerdictInv, NEW a \in Asks, WriteVerdict(a),
         NEW b, b = ask[a].of, NEW verdict, verdict = ask[a].verdict
  PROVE  VerdictInv'
<1> DEFINE state == [IdleAsk("answered") EXCEPT !.settled = ask[a].settled]
           row == [advisories[b] EXCEPT !.status = verdict, !.by[verdict] = a]
<1>1. /\ state \in AskState /\ state.pc = "answered" /\ state.settled = ask[a].settled
      /\ ask \in [Asks -> AskState]
      /\ ask[a].pc = "update"
  BY IdleAskType DEF VerdictInv, AdvisoryTypeOK, AskState, WriteVerdict
<1>2. /\ ask' = [ask EXCEPT ![a] = state]
      /\ advisories' = [x \in Ids |->
           IF x = b /\ Exists(x) /\ advisories[x].status = "suggested" THEN row
           ELSE advisories[x]]
      /\ trail' = trail \cup {Event(verdict, a, b)}
  BY DEF AnswerAsk, WriteVerdict
<1> HIDE DEF state
<1>3. /\ b \in Ids \ ask[a].settled /\ Exists(b) /\ verdict \in Verdict
      /\ advisories[b] \in Artifact
  BY <1>1 DEF VerdictInv, AdvisoryTypeOK, AskFounded, AskState, Exists
<1>4. /\ row \in Artifact /\ row # NoAsk
      /\ row.status = verdict /\ row.by[verdict] = a
      /\ \A v \in Verdict \ {verdict} : row.by[v] = advisories[b].by[v]
  <2>1. row \in Artifact
    BY <1>3 DEF Artifact, Ids
  <2> QED BY <1>3, <2>1, AdvisoryAssumption DEF Artifact
<1> HIDE DEF row
<1>5. \A x \in Ids : Exists(x) <=> Exists(x)'
  BY <1>2, <1>3, <1>4 DEF Exists
<1>6. AdvisoryTypeOK'
  <2>1. advisories' \in [Ids -> Artifact \cup {NoAsk}]
    BY <1>2, <1>3, <1>4 DEF VerdictInv, AdvisoryTypeOK
  <2>2. Event(verdict, a, b) \in
          [action : Verdict \cup {"generated"}, actor : Asks, subject : Ids]
    BY <1>3 DEF Event
  <2>3. ask' \in [Asks -> AskState]
    BY <1>1, <1>2
  <2> QED BY <1>2, <2>1, <2>2, <2>3 DEF VerdictInv, AdvisoryTypeOK, AskState
<1>7. /\ Verdicts(b)' = Verdicts(b) \cup {Event(verdict, a, b)}
      /\ \A x \in Ids \ {b} : Verdicts(x)' = Verdicts(x)
  BY <1>2, <1>3 DEF Verdicts, Event
<1>8. ASSUME NEW x \in Ids PROVE VerdictStands(x)'
  <2>1. VerdictStands(x)
    BY DEF VerdictInv
  <2>2. CASE x # b
    <3>1. advisories'[x] = advisories[x] /\ Verdicts(x)' = Verdicts(x)
      BY <1>2, <1>7, <2>2
    <3> QED BY <1>2, <2>1, <3>1 DEF VerdictStands, Exists
  <2>3. CASE x = b /\ advisories[b].status = "suggested"
    <3>1. advisories'[b] = row
      BY <1>2, <1>3, <2>3
    <3>2. \A v \in Verdict \ {verdict} : row.by[v] = NoAsk
      BY <1>3, <1>4, <2>1, <2>3 DEF VerdictStands, Verdict
    <3>3. verdict # "suggested" /\ Verdicts(b)' # {}
      BY <1>3, <1>7 DEF Verdict
    <3>4. Event(verdict, a, b) \in trail'
      BY <1>2
    <3> QED BY <1>4, <2>3, <3>1, <3>2, <3>3, <3>4 DEF VerdictStands
  <2>4. CASE x = b /\ advisories[b].status # "suggested"
    <3>1. advisories'[b] = advisories[b]
      BY <1>2, <1>3, <2>4
    <3>2. Verdicts(b)' # {}
      BY <1>7
    <3> QED BY <1>2, <1>3, <2>1, <2>4, <3>1, <3>2 DEF VerdictStands
  <2> QED BY <2>2, <2>3, <2>4
<1>9. ASSUME NEW e \in trail' PROVE EventFounded(e)'
  <2>1. CASE e = Event(verdict, a, b)
    <3>1. ask'[a] = state
      BY <1>1, <1>2
    <3>2. e.actor = a /\ e.subject = b
      BY <2>1 DEF Event
    <3>3. Exists(b)' /\ b \notin ask[a].settled
      BY <1>3, <1>5
    <3> QED BY <1>1, <3>1, <3>2, <3>3 DEF EventFounded, Exists
  <2>2. CASE e \in trail
    <3>1. e.actor \in Asks /\ e.subject \in Ids
      BY <2>2 DEF VerdictInv, AdvisoryTypeOK
    <3>2. EventFounded(e) /\ e.actor # a
      BY <1>1, <2>2 DEF VerdictInv, EventFounded
    <3>3. ask'[e.actor] = ask[e.actor]
      BY <1>1, <1>2, <3>1, <3>2
    <3> QED BY <1>5, <3>1, <3>2, <3>3 DEF EventFounded
  <2> QED BY <1>2, <2>1, <2>2
<1>10. ASSUME NEW x \in Asks PROVE AskFounded(x)'
  <2>1. CASE x = a
    BY <1>1, <1>2, <2>1 DEF AskFounded
  <2>2. CASE x # a
    <3>1. ask'[x] = ask[x]
      BY <1>1, <1>2, <2>2
    <3>2. AskFounded(x)
      BY DEF VerdictInv
    <3>3. x \in Ids
      BY DEF Ids
    <3> QED BY <1>5, <3>1, <3>2, <3>3 DEF AskFounded, Exists
  <2> QED BY <2>1, <2>2
<1> QED BY <1>6, <1>8, <1>9, <1>10 DEF VerdictInv

LEMMA NextVerdict == TypeOK /\ VerdictInv /\ [AdvisoryNext]_advisorySpecVars => VerdictInv'
<1>1. SUFFICES ASSUME TypeOK, VerdictInv, [AdvisoryNext]_advisorySpecVars PROVE VerdictInv'
  OBVIOUS
<1>2. CASE UNCHANGED advisoryVars
  BY <1>1, <1>2
  DEF advisoryVars, VerdictInv, AdvisoryTypeOK, VerdictStands, EventFounded, AskFounded,
      Exists, Verdicts
<1>3. ASSUME NEW a \in Asks, AskStep(a) PROVE VerdictInv'
  <2>1. CASE ReadGenerateTarget(a)
    <3> DEFINE state == [IdleAsk("insert") EXCEPT !.counts = ReadStats(staged)]
    <3>1. state \in AskState /\ state.pc = "insert"
      BY <1>1, CountsType, IdleAskType DEF AskState, IdleAsk
    <3>2. ask[a].pc = "ready" /\ ask' = [ask EXCEPT ![a] = state]
      BY <2>1 DEF ReadGenerateTarget
    <3> HIDE DEF state
    <3> QED BY <1>1, <2>1, <3>1, <3>2, GoOnKeeps DEF ReadGenerateTarget
  <2>2. CASE WriteAdvisory(a)
    BY <1>1, <2>2, WriteAdvisoryKeeps
  <2>3. CASE ReadAdvisory(a)
    <3>1. CASE AnswerAsk(a)
      BY <1>1, <2>3, <3>1, AnswerKeeps DEF ReadAdvisory
    <3>2. ASSUME NEW b \in Ids, NEW verdict \in Verdict,
                 Exists(b), advisories[b].status = "suggested", ProceedWith(a, b, verdict)
          PROVE  VerdictInv'
      <4> DEFINE settled == {x \in Ids : Verdicts(x) # {}}
                 state == [IdleAsk("update") EXCEPT
                             !.of = b, !.verdict = verdict, !.settled = settled]
      <4>1. /\ state \in AskState
            /\ state.pc = "update" /\ state.of = b /\ state.settled = settled
        BY IdleAskType DEF AskState, IdleAsk
      <4>2. b \notin settled
        BY <1>1, <3>2 DEF VerdictInv, VerdictStands
      <4>3. ask[a].pc = "ready" /\ UNCHANGED <<advisories, trail>>
        BY <2>3 DEF ReadAdvisory
      <4>4. ask' = [ask EXCEPT ![a] = state]
        BY <3>2 DEF ProceedWith
      <4> HIDE DEF state
      <4> QED BY <1>1, <3>2, <4>1, <4>2, <4>3, <4>4, GoOnKeeps
    <3> QED BY <2>3, <3>1, <3>2 DEF ReadAdvisory
  <2>4. CASE WriteVerdict(a)
    BY <1>1, <2>4, WriteVerdictKeeps
  <2>5. CASE FailAsk(a)
    BY <1>1, <2>5, AnswerKeeps DEF FailAsk
  <2> QED BY <1>3, <2>1, <2>2, <2>3, <2>4, <2>5 DEF AskStep
<1> QED BY <1>1, <1>2, <1>3 DEF AdvisoryNext, advisorySpecVars, advisoryVars

LEMMA VerdictInvariance == AdvisorySpec => []VerdictInv
<1>1. IInv => TypeOK
  BY DEF IInv
<1> QED
  BY <1>1, AdvisoriesImplementPipeline, PipelineInvariance, InitVerdict, NextVerdict, PTL
  DEF AdvisorySpec

\* Every artifact, event and request has its type.
THEOREM AdvisoryTypeCorrect == AdvisorySpec => []AdvisoryTypeOK
BY VerdictInvariance, PTL DEF VerdictInv

\* Whatever requests confirm and dismiss an advisory at once, the first verdict stands,
\* and a verdict on record that it does not have comes from a request that raced it.
THEOREM FirstVerdict == AdvisorySpec => []FirstVerdictStands
<1>1. VerdictInv => FirstVerdictStands
  BY DEF VerdictInv, FirstVerdictStands, VerdictStands, EventFounded
<1> QED BY <1>1, VerdictInvariance, PTL

-----------------------------------------------------------------------------
(* Counts age. *)

\* Rows are staged all at once.
NothingStaged == \A r \in Records : staged[r] = Unstaged
AllStaged == \A r \in Records : staged[r] # Unstaged

\* Counts were read before the records were staged, or they count every one of them
\* and are out of date in one direction only.
Sound(counts) ==
  \/ counts = NoCounts
  \/ /\ AllStaged
     /\ RecordCount(counts) = Cardinality(Records)
     /\ Ages(counts)

\* A record whose staged row is committed has a committed row.
CommittedHasRow ==
  \A r \in Records : staged[r] = "committed" => committedRecords[r] # NoCall

AgeInv ==
  /\ CommittedHasRow
  /\ NothingStaged \/ AllStaged
  /\ \A b \in Ids : Exists(b) => Sound(advisories[b].counts)
  /\ \A a \in Asks : ask[a].pc = "insert" => Sound(ask[a].counts)

\* In review no record becomes pending again, no committed row goes away, and no row
\* is staged or removed.
LEMMA ReviewOnlyAges ==
  ASSUME IInv, CommittedHasRow, [Next]_reviewVars
  PROVE  /\ PendingRecords' \subseteq PendingRecords
         /\ CommittedRows \subseteq CommittedRows'
         /\ CommittedHasRow'
         /\ \A r \in Records : staged'[r] = Unstaged <=> staged[r] = Unstaged
<1> DEFINE sameRows == \A r \in Records : staged'[r] = Unstaged <=> staged[r] = Unstaged
<1>1. CommittedRows \subseteq CommittedRows'
  BY StepKeepsRows DEF CommittedRows
<1>2. CASE UNCHANGED <<staged, committedRecords>>
  BY <1>1, <1>2 DEF PendingRecords, CommittedHasRow
<1>3. ASSUME NEW c \in Calls, WriteDecision(c)
      PROVE  PendingRecords' \subseteq PendingRecords /\ CommittedHasRow' /\ sameRows
  <2>1. TargetStatus(call[c].request) \in {"approved", "rejected"}
    BY <1>3, TargetStatusType DEF WriteDecision, Writing, ReviewAction, Request
  <2>2. \A r \in call[c].records : staged[r] # Unstaged
    BY <1>3 DEF IInv, FlightsAreFounded, WriteDecision, Writing
  <2> QED
    BY <1>3, <2>1, <2>2 DEF WriteDecision, PendingRecords, CommittedHasRow, Unstaged
<1>4. ASSUME NEW c \in Calls, WriteConfirmation(c)
      PROVE  PendingRecords' \subseteq PendingRecords /\ CommittedHasRow' /\ sameRows
  BY <1>4 DEF WriteConfirmation, PendingRecords, CommittedHasRow, Unstaged
<1>5. ASSUME NEW c \in Calls, WriteCommit(c)
      PROVE  PendingRecords' \subseteq PendingRecords /\ CommittedHasRow' /\ sameRows
  BY <1>5, ReviewAssumption DEF WriteCommit, Marked, PendingRecords, CommittedHasRow, Unstaged
<1> QED
  BY <1>1, <1>2, <1>3, <1>4, <1>5
  DEF Next, ReviewStep, reviewVars, dbVars, RefuseDecision, ReadDecisionTarget,
      ReadPendingRecords, ReadApprovedRecords, ReadSummary, CommitConflict, FailCall

\* Neither does the processing of the job, except that it stages what is not there.
LEMMA PipelineOnlyAges ==
  ASSUME IInv, CommittedHasRow, NothingStaged \/ AllStaged, [PipelineNext]_pipelineVars
  PROVE  /\ CommittedHasRow'
         /\ (NothingStaged \/ AllStaged)'
         /\ AllStaged => /\ AllStaged'
                         /\ PendingRecords' \subseteq PendingRecords
                         /\ CommittedRows \subseteq CommittedRows'
<1>1. CASE Job!JobStep /\ UNCHANGED reviewOnly
  <2>1. UNCHANGED committedRecords
    BY <1>1 DEF reviewOnly
  <2>2. \A r \in Records : \/ staged'[r] = staged[r]
                           \/ staged[r] = Unstaged /\ staged'[r] = "pending"
    BY <1>1, JobStepWrites DEF Job!StagedRows, Job!Unstaged, Unstaged
  <2>3. CommittedHasRow'
    BY <2>1, <2>2 DEF CommittedHasRow
  <2>4. (NothingStaged \/ AllStaged)'
    BY <1>1, JobStepWrites
    DEF NothingStaged, AllStaged, Job!StagedRows, Job!Unstaged, Unstaged
  <2>5. AllStaged => \A r \in Records : staged'[r] = staged[r]
    BY <2>2 DEF AllStaged
  <2> QED BY <2>1, <2>3, <2>4, <2>5 DEF AllStaged, PendingRecords, CommittedRows
<1>2. CASE [Next]_reviewVars
  BY <1>2, ReviewOnlyAges DEF NothingStaged, AllStaged
<1> QED
  BY <1>1, <1>2 DEF PipelineNext, Next, pipelineVars, reviewVars, dbVars, reviewOnly

LEMMA CountedSets ==
  /\ IsFiniteSet(PendingRecords) /\ Cardinality(PendingRecords) \in Nat
  /\ IsFiniteSet(CommittedRows) /\ Cardinality(CommittedRows) \in Nat
<1>1. IsFiniteSet(PendingRecords) /\ IsFiniteSet(CommittedRows)
  BY ReviewAssumption, FS_Subset DEF PendingRecords, CommittedRows
<1> QED BY <1>1, FS_CardinalityType

\* Sets without a common element are counted one after the other.
LEMMA DisjointCount ==
  ASSUME NEW S, NEW T, IsFiniteSet(S), IsFiniteSet(T), S \cap T = {}
  PROVE  /\ IsFiniteSet(S \cup T)
         /\ Cardinality(S \cup T) = Cardinality(S) + Cardinality(T)
<1>1. Cardinality(S \cap T) = 0
  BY FS_EmptySet
<1>2. Cardinality(S) \in Nat /\ Cardinality(T) \in Nat
  BY FS_CardinalityType
<1>3. /\ IsFiniteSet(S \cup T)
      /\ Cardinality(S \cup T) =
           Cardinality(S) + Cardinality(T) - Cardinality(S \cap T)
  BY FS_Union
<1> QED BY <1>1, <1>2, <1>3

\* Once staged, every record is counted under one status.
LEMMA EveryRecordCounted ==
  ASSUME TypeOK, AllStaged
  PROVE  RecordCount(ReadStats(staged)) = Cardinality(Records)
<1> DEFINE rows(status) == {r \in Records : staged[r] = status}
           two == rows("pending") \cup rows("approved")
           three == two \cup rows("rejected")
<1>1. \A s \in StagedRecordStatus : ReadStats(staged)[s] = Cardinality(rows(s))
  BY DEF TypeOK, ReadStats, ReadReviewStatusSummary
<1>2. \A s \in StagedRecordStatus : IsFiniteSet(rows(s)) /\ Cardinality(rows(s)) \in Nat
  BY ReviewAssumption, FS_Subset, FS_CardinalityType
<1>3. Records = three \cup rows("committed")
  BY DEF TypeOK, AllStaged, RowStatus, Unstaged, StagedRecordStatus
<1>4. /\ IsFiniteSet(two)
      /\ Cardinality(two) = Cardinality(rows("pending")) + Cardinality(rows("approved"))
  <2>1. rows("pending") \cap rows("approved") = {}
    OBVIOUS
  <2> HIDE DEF rows
  <2> QED BY <1>2, <2>1, DisjointCount DEF StagedRecordStatus
<1>5. /\ IsFiniteSet(three)
      /\ Cardinality(three) = Cardinality(two) + Cardinality(rows("rejected"))
  <2>1. two \cap rows("rejected") = {}
    OBVIOUS
  <2> HIDE DEF rows, two
  <2> QED BY <1>2, <1>4, <2>1, DisjointCount DEF StagedRecordStatus
<1>6. Cardinality(Records) = Cardinality(three) + Cardinality(rows("committed"))
  <2>1. three \cap rows("committed") = {}
    OBVIOUS
  <2> HIDE DEF rows, three
  <2> QED BY <1>2, <1>3, <1>5, <2>1, DisjointCount DEF StagedRecordStatus
<1> HIDE DEF rows, two, three
<1> QED BY <1>1, <1>2, <1>4, <1>5, <1>6 DEF RecordCount, StagedRecordStatus

\* Counts that are just read are true.
LEMMA FreshCounts ==
  ASSUME TypeOK, CommittedHasRow, NothingStaged \/ AllStaged
  PROVE  Sound(ReadStats(staged))
<1> DEFINE committed == {r \in Records : staged[r] = "committed"}
<1>1. DOMAIN staged = Records
  BY DEF TypeOK
<1>2. CASE NothingStaged
  <2>1. ASSUME NEW s \in StagedRecordStatus
        PROVE  Cardinality({r \in DOMAIN staged : staged[r] = s}) = 0
    <3>1. {r \in DOMAIN staged : staged[r] = s} = {}
      BY <1>1, <1>2 DEF NothingStaged, Unstaged, StagedRecordStatus
    <3> QED BY <3>1, FS_EmptySet
  <2>2. ReadStats(staged) = NoCounts
    BY <2>1 DEF ReadStats, ReadReviewStatusSummary, NoCounts
  <2> QED BY <2>2 DEF Sound
<1>3. CASE AllStaged
  <2>1. /\ ReadStats(staged)["pending"] = Cardinality(PendingRecords)
        /\ ReadStats(staged)["committed"] = Cardinality(committed)
    BY <1>1 DEF ReadStats, ReadReviewStatusSummary, StagedRecordStatus, PendingRecords
  <2>2. committed \subseteq CommittedRows
    BY DEF CommittedHasRow, CommittedRows
  <2>3. Cardinality(committed) <= Cardinality(CommittedRows)
    BY <2>2, CountedSets, FS_Subset
  <2>4. Ages(ReadStats(staged))
    BY <2>1, <2>3, CountedSets DEF Ages
  <2> QED BY <1>3, <2>4, EveryRecordCounted DEF Sound
<1> QED BY <1>2, <1>3

\* Counts that were true once keep aging.
LEMMA OlderCounts ==
  ASSUME NEW counts \in ReviewStatusSummary, Sound(counts),
         AllStaged => /\ AllStaged'
                      /\ PendingRecords' \subseteq PendingRecords
                      /\ CommittedRows \subseteq CommittedRows'
  PROVE  Sound(counts)'
<1>1. CASE counts = NoCounts
  BY <1>1 DEF Sound, NoCounts
<1>2. CASE AllStaged /\ RecordCount(counts) = Cardinality(Records) /\ Ages(counts)
  <2>1. Cardinality(PendingRecords)' <= Cardinality(PendingRecords)
    BY <1>2, CountedSets, FS_Subset
  <2>2. IsFiniteSet(CommittedRows') /\ Cardinality(CommittedRows)' \in Nat
    BY ReviewAssumption, FS_Subset, FS_CardinalityType DEF CommittedRows
  <2>3. Cardinality(CommittedRows) <= Cardinality(CommittedRows)'
    BY <1>2, <2>2, FS_Subset
  <2>4. IsFiniteSet(PendingRecords') /\ Cardinality(PendingRecords)' \in Nat
    BY ReviewAssumption, FS_Subset, FS_CardinalityType DEF PendingRecords
  <2>5. counts["pending"] \in Nat /\ counts["committed"] \in Nat
    BY DEF ReviewStatusSummary, StagedRecordStatus
  <2>6. Ages(counts)'
    BY <1>2, <2>1, <2>2, <2>3, <2>4, <2>5, CountedSets DEF Ages
  <2> QED BY <1>2, <2>6 DEF Sound, RecordCount
<1> QED BY <1>1, <1>2 DEF Sound

LEMMA InitAge == AdvisoryInit => AgeInv
<1>1. SUFFICES ASSUME AdvisoryInit PROVE AgeInv
  OBVIOUS
<1>2. /\ TypeOK /\ NothingStaged /\ CommittedHasRow
  <2>1. TypeOK
    BY <1>1, PipelineInitIInv DEF AdvisoryInit, IInv
  <2>2. NothingStaged
    BY <1>1 DEF AdvisoryInit, PipelineInit, Job!Init, Job!Unstaged, Unstaged, NothingStaged
  <2> QED BY <2>1, <2>2 DEF NothingStaged, CommittedHasRow, Unstaged
<1>3. Sound(ReadStats(staged)) /\ ReadStats(staged) \in ReviewStatusSummary
  BY <1>2, FreshCounts, CountsType
<1>4. ASSUME NEW b \in Ids, Exists(b) PROVE Sound(advisories[b].counts)
  <2>1. advisories[b] = NewArtifact(ReadStats(staged))
    BY <1>1, <1>4 DEF AdvisoryInit, Exists
  <2> QED BY <1>3, <2>1, NewArtifactType
<1>5. \A a \in Asks : ask[a].pc = "ready"
  BY <1>1, IdleAskType DEF AdvisoryInit
<1> QED BY <1>2, <1>4, <1>5 DEF AgeInv

LEMMA NextAge ==
  IInv /\ AdvisoryTypeOK /\ AgeInv /\ [AdvisoryNext]_advisorySpecVars => AgeInv'
<1>1. SUFFICES ASSUME IInv, AdvisoryTypeOK, AgeInv, [AdvisoryNext]_advisorySpecVars PROVE AgeInv'
  OBVIOUS
<1>2. CASE [PipelineNext]_pipelineVars /\ UNCHANGED advisoryVars
  <2>1. /\ CommittedHasRow'
        /\ (NothingStaged \/ AllStaged)'
        /\ AllStaged => /\ AllStaged'
                        /\ PendingRecords' \subseteq PendingRecords
                        /\ CommittedRows \subseteq CommittedRows'
    BY <1>1, <1>2, PipelineOnlyAges DEF AgeInv
  <2>2. ASSUME NEW b \in Ids, Exists(b)' PROVE Sound(advisories[b].counts)'
    <3>1. advisories' = advisories
      BY <1>2 DEF advisoryVars
    <3>2. advisories[b].counts \in ReviewStatusSummary /\ Sound(advisories[b].counts)
      BY <1>1, <2>2, <3>1 DEF AdvisoryTypeOK, Artifact, Exists, AgeInv
    <3>3. ASSUME NEW counts, counts = advisories[b].counts PROVE Sound(counts)'
      BY <2>1, <3>2, <3>3, OlderCounts
    <3> QED BY <3>1, <3>3 DEF Sound, Ages, RecordCount
  <2>3. ASSUME NEW a \in Asks, ask'[a].pc = "insert" PROVE Sound(ask[a].counts)'
    <3>1. ask' = ask
      BY <1>2 DEF advisoryVars
    <3>2. ask[a].counts \in ReviewStatusSummary /\ Sound(ask[a].counts)
      BY <1>1, <2>3, <3>1 DEF AdvisoryTypeOK, AgeInv
    <3>3. ASSUME NEW counts, counts = ask[a].counts PROVE Sound(counts)'
      BY <2>1, <3>2, <3>3, OlderCounts
    <3> QED BY <3>1, <3>3 DEF Sound, Ages, RecordCount
  <2> QED BY <2>1, <2>2, <2>3 DEF AgeInv
<1>3. ASSUME NEW a \in Asks, AskStep(a), UNCHANGED pipelineVars PROVE AgeInv'
  <2> DEFINE answered == [IdleAsk("answered") EXCEPT !.settled = ask[a].settled]
  <2>1. /\ UNCHANGED <<staged, committedRecords, PendingRecords, CommittedRows>>
        /\ \A counts : Sound(counts) <=> Sound(counts)'
    BY <1>3 DEF pipelineVars, reviewOnly, PendingRecords, CommittedRows, AllStaged, Ages,
                RecordCount, Sound
  <2>2. CommittedHasRow' /\ (NothingStaged \/ AllStaged)'
    BY <1>1, <2>1 DEF AgeInv, CommittedHasRow, NothingStaged, AllStaged
  <2>3. answered.pc = "answered" /\ ask \in [Asks -> AskState]
    BY <1>1, IdleAskType DEF IdleAsk, AdvisoryTypeOK, AskState
  <2>4. SUFFICES /\ \A b \in Ids : advisories'[b] # NoAsk => Sound(advisories'[b].counts)
                 /\ \A x \in Asks : ask'[x].pc = "insert" => Sound(ask'[x].counts)
    BY <2>1, <2>2 DEF AgeInv, Exists, Sound, AllStaged, Ages, RecordCount
  <2>5. CASE ReadGenerateTarget(a)
    <3> DEFINE state == [IdleAsk("insert") EXCEPT !.counts = ReadStats(staged)]
    <3>1. state.counts = ReadStats(staged)
      BY DEF IdleAsk
    <3>2. Sound(ReadStats(staged))
      BY <1>1, FreshCounts DEF IInv, AgeInv
    <3>3. ask' = [ask EXCEPT ![a] = state] /\ UNCHANGED advisories
      BY <2>5 DEF ReadGenerateTarget
    <3> HIDE DEF state
    <3> QED BY <1>1, <2>3, <3>1, <3>2, <3>3 DEF AgeInv, Exists
  <2>6. CASE WriteAdvisory(a)
    <3>1. /\ ask[a].pc = "insert" /\ ask[a].counts \in ReviewStatusSummary
          /\ ask' = [ask EXCEPT ![a] = answered]
          /\ advisories' = [advisories EXCEPT ![a] = NewArtifact(ask[a].counts)]
      BY <1>1, <2>6 DEF WriteAdvisory, AnswerAsk, AdvisoryTypeOK
    <3> HIDE DEF answered
    <3>2. ASSUME NEW b \in Ids, advisories'[b] # NoAsk PROVE Sound(advisories'[b].counts)
      <4>1. CASE b = a
        <5>1. advisories'[b] = NewArtifact(ask[a].counts)
          BY <1>1, <3>1, <4>1 DEF AdvisoryTypeOK
        <5> QED BY <1>1, <3>1, <5>1, NewArtifactType DEF AgeInv
      <4>2. CASE b # a
        BY <1>1, <3>1, <3>2, <4>2 DEF AdvisoryTypeOK, AgeInv, Exists
      <4> QED BY <4>1, <4>2
    <3>3. ASSUME NEW x \in Asks, ask'[x].pc = "insert" PROVE Sound(ask'[x].counts)
      BY <1>1, <2>3, <3>1, <3>3 DEF AgeInv
    <3> QED BY <3>2, <3>3
  <2>7. CASE ReadAdvisory(a) \/ FailAsk(a)
    <3>1. /\ UNCHANGED advisories
          /\ ask'[a].pc # "insert"
          /\ \A x \in Asks \ {a} : ask'[x] = ask[x]
      BY <2>3, <2>7 DEF ReadAdvisory, FailAsk, AnswerAsk, ProceedWith, IdleAsk
    <3> QED BY <1>1, <3>1 DEF AgeInv, Exists
  <2>8. CASE WriteVerdict(a)
    <3>1. ask' = [ask EXCEPT ![a] = answered]
      BY <2>8 DEF WriteVerdict, AnswerAsk
    <3>2. ASSUME NEW x \in Ids, advisories'[x] # NoAsk
          PROVE  Exists(x) /\ advisories'[x].counts = advisories[x].counts
      BY <1>1, <2>8, <3>2 DEF WriteVerdict, AdvisoryTypeOK, Artifact, Exists
    <3> HIDE DEF answered
    <3>3. ASSUME NEW x \in Asks, ask'[x].pc = "insert" PROVE Sound(ask'[x].counts)
      BY <1>1, <2>3, <3>1, <3>3 DEF AgeInv
    <3> QED BY <1>1, <3>2, <3>3 DEF AgeInv
  <2> QED BY <1>3, <2>5, <2>6, <2>7, <2>8 DEF AskStep
<1> QED BY <1>1, <1>2, <1>3 DEF AdvisoryNext, advisorySpecVars

\* However the job is processed and reviewed, an advisory made before its records were
\* staged says that there are none, and any other counts all of them and only ever says
\* too many are pending and too few committed.
THEOREM OnlyAge == AdvisorySpec => []AdvisoriesOnlyAge
<1>1. AgeInv => AdvisoriesOnlyAge
  BY DEF AgeInv, AdvisoriesOnlyAge, Sound
<1> QED
  BY <1>1, InitAge, NextAge, AdvisoriesImplementPipeline, PipelineInvariance,
     AdvisoryTypeCorrect, PTL
  DEF AdvisorySpec

=============================================================================
