------------------------------- MODULE Advisory -------------------------------
(***************************************************************************)
(* AI advisories of an import job (apps/worker/src/ai-advisory-*.ts).      *)
(*                                                                         *)
(* An advisory is generated from the counts of the job's records, whatever *)
(* the job's status, and is confirmed or dismissed by a person.  Neither   *)
(* touches the job or its records: the processing and review of            *)
(* ImportPipeline go on underneath.  A request reads, awaits, and writes   *)
(* one D1 batch; an advisory is named by the request that generates it,    *)
(* which also stands for the user who makes it.                            *)
(***************************************************************************)
EXTENDS ImportPipeline

CONSTANTS Asks,     \* advisory requests, each served once
          Earlier,  \* the advisories generated while the job waited for its dispatch
          NoAsk     \* no row, no user

Ids == Asks \cup Earlier

Verdict == {"confirmed", "dismissed"}

\* ai_advisory_artifacts: the counts of output_json, status, confirmed_by and
\* dismissed_by.
Artifact ==
  [counts : ReviewStatusSummary, status : Verdict \cup {"suggested"},
   by : [Verdict -> Asks \cup {NoAsk}]]

ASSUME AdvisoryAssumption ==
  /\ Asks \cap Earlier = {}
  /\ NoAsk \notin Ids
  /\ NoAsk \notin Artifact

VARIABLES
  advisories,  \* the artifact of an id, or NoAsk
  trail,       \* audit_events about advisories, from then on
  ask          \* the control state of each request

advisoryVars == <<advisories, trail, ask>>
advisorySpecVars == <<pipelineVars, advisoryVars>>

Exists(b) == advisories[b] # NoAsk

Event(action, a, b) == [action |-> action, actor |-> a, subject |-> b]

\* The verdicts on record about an advisory.
Verdicts(b) == {e \in trail : e.subject = b /\ e.action \in Verdict}

NoCounts == [s \in StagedRecordStatus |-> 0]

\* A request: the advisory it is about, the counts or the verdict it is going to write.
\* "settled" is the history: the advisories with a verdict on record when it read.
IdleAsk(pc) ==
  [pc |-> pc, of |-> NoAsk, counts |-> NoCounts, verdict |-> "confirmed", settled |-> {}]

\* The response is sent.
AnswerAsk(a) ==
  ask' = [ask EXCEPT ![a] = [IdleAsk("answered") EXCEPT !.settled = ask[a].settled]]

\* Mutant: what is approved is counted as committed.
ApprovedAsCommitted(rowStatus) ==
  LET counts == ReadReviewStatusSummary(rowStatus) IN
  [counts EXCEPT !["committed"] = @ + counts["approved"], !["approved"] = 0]

\* The counts are read in one query; the other query, for open issues, counts rows
\* that only staging writes.
ReadStats(rowStatus) == ReadReviewStatusSummary(rowStatus)

NewArtifact(counts) ==
  [counts |-> counts, status |-> "suggested", by |-> [v \in Verdict |-> NoAsk]]

AdvisoryInit ==
  /\ PipelineInit
  /\ advisories = [a \in Ids |-> IF a \in Earlier THEN NewArtifact(ReadStats(staged)) ELSE NoAsk]
  /\ trail = {}
  /\ ask = [a \in Asks |-> IdleAsk("ready")]

-----------------------------------------------------------------------------
(* Generating. *)

\* A job is found in any status, and counts are read even if nothing is staged yet.
ReadGenerateTarget(a) ==
  /\ ask[a].pc = "ready"
  /\ ask' = [ask EXCEPT ![a] = [IdleAsk("insert") EXCEPT !.counts = ReadStats(staged)]]
  /\ UNCHANGED <<advisories, trail>>

WriteAdvisory(a) ==
  /\ ask[a].pc = "insert"
  /\ advisories' = [advisories EXCEPT ![a] = NewArtifact(ask[a].counts)]
  /\ trail' = trail \cup {Event("generated", a, a)}
  /\ AnswerAsk(a)

-----------------------------------------------------------------------------
(* Confirming and dismissing. *)

ProceedWith(a, b, verdict) ==
  ask' = [ask EXCEPT ![a] = [IdleAsk("update") EXCEPT
            !.of = b, !.verdict = verdict, !.settled = {x \in Ids : Verdicts(x) # {}}]]

\* Mutant: the status that was read is not looked at.
ReadAnyAdvisory(a) ==
  /\ ask[a].pc = "ready"
  /\ \E b \in Ids, verdict \in Verdict : Exists(b) /\ ProceedWith(a, b, verdict)
  /\ UNCHANGED <<advisories, trail>>

\* 404 without a row; a duplicate answer or 409 when it has a verdict.
ReadAdvisory(a) ==
  /\ ask[a].pc = "ready"
  /\ \E b \in Ids, verdict \in Verdict :
       \/ ~Exists(b) /\ AnswerAsk(a)
       \/ Exists(b) /\ advisories[b].status # "suggested" /\ AnswerAsk(a)
       \/ /\ Exists(b)
          /\ advisories[b].status = "suggested"
          /\ ProceedWith(a, b, verdict)
  /\ UNCHANGED <<advisories, trail>>

\* UPDATE ... WHERE id = ? AND status = 'suggested', with the audit event in the same
\* batch: the event is written even if the update finds nothing.
WriteVerdict(a) ==
  LET b == ask[a].of
      verdict == ask[a].verdict
  IN
  /\ ask[a].pc = "update"
  /\ advisories' = [x \in Ids |->
       IF x = b /\ Exists(x) /\ advisories[x].status = "suggested"
         THEN [advisories[x] EXCEPT !.status = verdict, !.by[verdict] = a]
         ELSE advisories[x]]
  /\ trail' = trail \cup {Event(verdict, a, b)}
  /\ AnswerAsk(a)

-----------------------------------------------------------------------------
\* A D1 call throws, or the isolate is evicted: the batch has no effect.  (One that has
\* its effect and throws is WriteAdvisory or WriteVerdict with another response.)
FailAsk(a) ==
  /\ ask[a].pc \in {"insert", "update"}
  /\ AnswerAsk(a)
  /\ UNCHANGED <<advisories, trail>>

AskStep(a) ==
  \/ ReadGenerateTarget(a) \/ WriteAdvisory(a)
  \/ ReadAdvisory(a) \/ WriteVerdict(a)
  \/ FailAsk(a)

AdvisoryNext ==
  \/ PipelineNext /\ UNCHANGED advisoryVars
  \/ (\E a \in Asks : AskStep(a)) /\ UNCHANGED pipelineVars

AdvisorySpec == AdvisoryInit /\ [][AdvisoryNext]_advisorySpecVars

-----------------------------------------------------------------------------
\* Artifacts, events and requests have their types.
AdvisoryTypeOK ==
  /\ advisories \in [Ids -> Artifact \cup {NoAsk}]
  /\ trail \subseteq [action : Verdict \cup {"generated"}, actor : Asks, subject : Ids]
  /\ ask \in [Asks -> [pc : {"ready", "insert", "update", "answered"}, of : Ids \cup {NoAsk},
                       counts : ReviewStatusSummary, verdict : Verdict,
                       settled : SUBSET Ids]]

\* An advisory has the verdict that came first, of the user it names, and no other: a
\* verdict on record which it does not have was read before any was there.
FirstVerdictStands ==
  /\ \A b \in Ids : Exists(b) => LET row == advisories[b] IN
       /\ row.status = "suggested" <=> Verdicts(b) = {}
       /\ \A v \in Verdict :
            IF row.status = v THEN Event(v, row.by[v], b) \in trail
                              ELSE row.by[v] = NoAsk
  /\ \A e \in trail : e.action \in Verdict =>
       Exists(e.subject) /\ e.subject \notin ask[e.actor].settled

CommittedRows == {r \in Records : committedRecords[r] # NoCall}

Ages(counts) ==
  /\ counts["pending"] >= Cardinality(PendingRecords)
  /\ counts["committed"] <= Cardinality(CommittedRows)

\* recordCount of readImportReviewStats.
RecordCount(counts) ==
  counts["pending"] + counts["approved"] + counts["rejected"] + counts["committed"]

\* An advisory says that there are no records, if it was generated before they were
\* staged, or it counts every one of them.  Of the second kind it only ages: whatever is
\* processed again and reviewed while it is generated and after, never more records are
\* pending than it says, and never fewer have a committed row.
AdvisoriesOnlyAge ==
  \A b \in Ids : Exists(b) =>
    \/ advisories[b].counts = NoCounts
    \/ /\ RecordCount(advisories[b].counts) = Cardinality(Records)
       /\ Ages(advisories[b].counts)

=============================================================================
