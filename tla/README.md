# A verification project for carboti's worker

carboti is a starter for document-intake applications: a Cloudflare Worker
(`apps/worker`) with a D1 database, an R2 bucket (`SOURCE_FILES`), a queue
(`IMPORT_JOBS`), and packages and a web application around it. Files come in
through an upload, a mail or an API call, are processed asynchronously into
staged records, reviewed by people record by record, and committed to a business
table. Mails and ingested requests are also kept as messages, from which
external processors and agents derive artifacts with runs, deliveries and
lineage as evidence. This directory holds TLA+ models of these parts, TLC
configurations that check them on small instances, and TLAPS proofs of the
properties that matter most, for every instance.

The three stores share no transaction. A D1 batch is atomic; between any two
awaits of a handler every other request and queue invocation may run, the isolate
may be evicted, and a call may throw, sometimes after it had its effect. Almost
every guard of the worker is a read that precedes the write it protects; a few
are in the write itself (`WHERE status = 'queued'`, the unique indexes). The
models keep exactly that distinction.

## The system

| Component | State | Operations | Talks to |
|---|---|---|---|
| source intake (`source-intake*.ts`) | R2 objects, `source_files`, `import_jobs` | `createSourceFileImportJob`: look for a duplicate, store, insert, dispatch | upload route, mail handler, HTTP ingest call it; it sends to the queue |
| dispatch and processing (`import-job-*.ts`, `index.ts` `queue`) | `import_jobs.status/attempt_count/failure_class`, staged rows, queue messages | retry, deliver, start, parse, stage, fail | R2, adapters; shares the job and its rows with review |
| review and commit (`import-review-*.ts`, `features/starter-review-*`) | staged rows, committed rows, decision ledger, `import_jobs.status` | approve, reject, confirm every pending record, commit | called by reviewers, in any number at once |
| vocabulary (`packages/import-pipeline`) | none | statuses, counts per status, the job status derived from them | used by all of the above |
| users and sessions (`auth-*.ts`) | accounts, credentials, sessions, reset links, invitations, audit events | login, logout, ask for a reset, reset, invite, revoke, accept, delete, local bootstrap | guards every route of the web application |
| API access (`carboti-api-*.ts`, `carboti-secret-*.ts`, registrations of connectors and processors) | API clients, encrypted secrets, the connectors and processors that refer to them | authorise a token, issue and revoke clients and secrets, register, check, look up | guards the `/api/carboti` routes; hands secrets to processors |
| inbound email, HTTP ingest, connectors | raw R2 objects, messages, receipts | store raw, hand parts to intake one by one, write the receipt in one batch | source intake; the mail service, clients |
| processors, evidence, agent surface | runs, deliveries, artifacts, lineage of each message | invoke, retry, submit, replay, bundle | external HTTP endpoints; the messages and objects above |
| AI advisory (`ai-advisory-*.ts`) | advisory artifacts, audit events | generate, confirm, dismiss | reads the counts of review; the review screen |
| web application, UI packages, CLI, SDK, scripts | none the worker depends on | presentation and tooling | HTTP API |

`PROJECT.json` lists every component with its sources, and every hazard found
while reading, at the line where it bites.

### What makes each part correct, and what makes it hard

* **Source intake.** One source file and one job per workspace and content hash,
  whoever races; every row has its object; a caller is told the truth. Hard
  because the duplicate check, the R2 put, the D1 batch and the send are four
  awaits over three stores, with a compensation (delete the object) that must
  only ever hit the loser's object.
* **Dispatch and processing.** A job is processed once per dispatch although the
  queue delivers at least once; a queued job is always on its way; a failed job
  says why. Hard because only the start of processing is guarded in SQL: staging
  and every failure write `status` unconditionally, and a failed `send` may have
  been delivered.
* **Review and commit.** A record is committed at most once, only after an
  approval, and what is committed stays; the job's status tells what its records
  are. Hard because every handler reads the rows, then the counts, then writes,
  and neither is checked again.
* **Inbound email, HTTP ingest, connectors.** A receipt names files that are there
  and tells what became of each part; what is recorded can be read again; the same
  bytes coming in by several ways end in one file. Hard because a mail is an R2 put
  per attachment, a call of source intake per attachment, and only then a batch: a
  failure in the middle leaves files and jobs without a mail, and the mail comes
  again. The HTTP route swallows what intake throws, and two of the three delete
  the raw object when their batch throws, written or not.
* **Processors, evidence, agent surface.** Runs, deliveries and artifacts agree,
  retries continue failures, lineage leads from the raw object of a message to
  everything derived from it. Hard because an endpoint acts on its own time,
  perhaps after the request that called it has timed out, while other requests
  derive more from the same message.
* **Users and sessions.** An address has one account; the audit trail tells who
  exists; no session outlives the password it was opened with; a reset link is used
  once; an accepted invitation stays accepted; an administrator remains. Hard because
  each of these is a read, an await (hashing takes long) and a batch: two
  acceptances, a reset beside a login, a revocation beside an acceptance, two
  administrators who delete each other.
* **API access.** What a workspace refers to is its own; a revoked secret gets no new
  use; a workspace is never locked out of its own clients. Hard because a request is
  authorised first and acts several awaits later, when its client or the secret it
  refers to may be revoked, and a secret is written before the row that refers to it.
* **AI advisory.** An advisory keeps its first verdict, its counts are either from
  before the records were staged or wrong in one direction only, and it never changes
  what is processed or reviewed. Hard because the batch of a verdict writes an audit
  event whether or not its guarded update found the advisory still open, because counts
  are read long before they are shown, and because a job is taken in any status.
* **The pipeline.** Reprocessing (after a retry, a redelivery, a late failure)
  never undoes a reviewer's decision.

## Modules

| Module | Models | Notes |
|---|---|---|
| `ImportStatus` | `packages/import-pipeline`, `starter-review-status-queries.ts`, `adjustReviewStatus` | the vocabulary and the derived job status |
| `CommitLedger` | nothing in the code: the promise of review | abstract specification: which records were ever approved, which commit wrote each row |
| `JobLifecycle` | the promise of a job's row | abstract specification: queue, attempt, failure or review |
| `FileStore` | the promise of an upload | abstract specification: a store without bucket or order of calls, in which a hand-over may go unnoticed and an upload unanswered |
| `EvidenceLog` | the promise of the evidence tables | abstract specification: a log whose entries are appended whole |
| `UserDirectory` | the promise of accounts and sessions | abstract specification: who exists, with which password, signed in where |
| `ImportReview` | review and commit of one job | one action per await of the four handlers |
| `ImportJob` | dispatches, queue and consumers of one job | faults are switched on by the constant `Faults` |
| `ImportPipeline` | `ImportJob` and `ImportReview` over the same job row and staged rows | extends `ImportReview`, instantiates `ImportJob` |
| `Advisory` | AI advisories of a job beside its processing and its review | extends `ImportPipeline`, whose steps go on underneath |
| `SourceIntake` | `createSourceFileImportJob` by several callers | objects, rows and messages of each upload |
| `MessageIntake` | `inbound-email*.ts`, HTTP ingest, connector ingest, over `SourceIntake` | extends `SourceIntake`: its steps are taken on behalf of messages, one part at a time, or of direct uploads |
| `ProcessorEvidence` | invocations and retries, artifact submission, replay, agent context bundles | endpoints are actors of their own |
| `Accounts` | `auth-*.ts`: accounts, credentials, sessions, reset links, invitations | one table per variable, one record per request |
| `ApiAccess` | API clients, secrets, and the connectors and processors that refer to them | several workspaces, none of which should see another |
| `ImportReviewProofs`, `ImportJobProofs`, `ImportPipelineProofs`, `AdvisoryProofs`, `MessageIntakeProofs` (and `SourceIntake`), `ProcessorEvidenceProofs`, `AccountsProofs`, `ApiAccessProofs` | theorems | see below |
| `MC*` | TLC instances | symmetry sets and definitions used by the `.cfg` files |

The abstract specifications are written from what the documents promise, without the
reads, guards and retries by which the code gets there. A component implements its
own through a refinement mapping, checked as a property of a run and proved step by
step:

| Abstract | Implemented by | Under the mapping |
|---|---|---|
| `CommitLedger` | `ImportReview`, `ImportPipeline` (`ReviewImplementsLedger`, `PipelineImplementsLedger`) | the decision ledger gives the approved records, the committed rows their commit |
| `JobLifecycle` | `ImportPipeline` (`PipelineImplementsLifecycle`), under `Reliable` faults | `status` is `jobStatus`, `rows` the records that are staged |
| `FileStore` | `SourceIntake`, and `MessageIntake` through it (`ImplementsFileStore`) | the tables and answers as they are; objects, places and messages in the queue are hidden |
| `EvidenceLog` | `ProcessorEvidence` (`ImplementsEvidenceLog`) | the four tables as they are; requests and endpoints are hidden |
| `UserDirectory` | `Accounts` (`ImplementsUserDirectory`) | `Password` is the request that set a credential, `Live` the sessions that `Works` says a guarded route would accept, `Spent` the requests that are over; links, invitations and audit rows are hidden |

How state and actions correspond to the code:

* `jobStatus`, `attemptCount`, `failureClass` are the columns of the one job;
  `staged` and `committedRecordId` those of `example_staged_records`;
  `committedRecords` has, per record, the commit that wrote the row of
  `example_committed_records` (its unique index on job and key makes this a
  function); `decisions` is `import_review_record_decisions` without ids and notes.
* In `SourceIntake`, `MessageIntake` and `ProcessorEvidence` every upload, message
  and request makes its own ids and object keys, so it stands for its object, its
  row, its job, its run, its delivery and its artifact. `receipt[m]` is what the
  one batch of a message wrote; `place[m]` its control state. A mail that is
  delivered again is another message with the same contents.
* `ProcessorEvidence` starts from messages whose receipt batch has run: three
  objects and two lineage edges each. `readProcessorInputObject` can fall back to
  the raw object, which it never does for these messages: their batch wrote the
  normalized object too. `processed` is not a table: it is what the endpoints know.
* In `Accounts`, `ApiAccess` and `Advisory` a row is named by the request that
  inserts it, or by a founding identity that was there before. Expiry is not counted
  in time: a link or a session may have run out at any read. `under`
  is the password in force when a session was inserted, `known`, `settled` and `seen` are
  what only properties read: which secrets were revoked when a request began, which
  advisories had a verdict when it read, which other administrator a deletion found.
  A read whose request then writes nothing ends like a refusal.
* An advisory is named by the request that generates it, and a request stands for the
  user who makes it. `Advisory` begins with the job in the queue, like
  `ImportPipeline`, so advisories are made before the records are staged, after a
  failure, and at any moment of review; those of `Earlier` were there from the start. The count of open issues is left out: only staging writes issues.
* A handler is a small state machine in `call`, `consumer`, `dispatcher` or `pc`,
  one step per await that reads or writes shared state. What it read is kept in
  its record and never refreshed, as in the code. Code between two awaits, and a
  D1 batch, is one step.
* Event rows, notes, ids and timestamps are left out: they are written in the same
  batches and nothing reads them to decide. Audit rows are modelled where a property
  is about them, in `Accounts`, `ApiAccess` and `Advisory`. The checks of login and permission
  are in `Accounts` and `ApiAccess`; the other modules begin after them.
* A handler that throws answers 500 and leaves the database alone: `FailCall`,
  `ProcessingThrows`. A call of R2, D1 or the queue that throws in `SourceIntake` and
  `MessageIntake` may have had its effect: `InsertThrows`, `SendThrows`,
  `StorageThrows`, `DatabaseThrows`, `RawPutThrows`, `WriteThrows`.

Definitions whose comment begins with "Mutant" are not part of any
specification. Each is a plausible slip in the definition after it (a dropped
guard, swapped columns, an upsert), kept to show that the property it is paired
with in `PROJECT.json` does notice.

## Runs

`tlc -config X.cfg M` with the module of the table.

| Run | Module | Bounds | Shows |
|---|---|---|---|
| `review_race` | `MCAdvisory` | 2 records, 1 consumer, 1 retry, unusable files, 3 review requests at once, 2 advisory requests, 1 advisory from before | the safety of commit under every interleaving, that review implements `CommitLedger`, and what an advisory is good for meanwhile |
| `review_reject_race` | `MCImportReview` | 1 record, 3 requests, 2 at a time | a rejected record is committed when two requests overlap |
| `job_faults` | `MCImportJob` | 1 record, 2 consumers, upload and 1 retry, every fault, 2 deliveries | classification, one attempt per dispatch, no forgotten job |
| `job_liveness` | `MCImportJob` | 2 consumers, upload and 1 retry, no evictions, no database failures | queued jobs are picked up, processing ends |
| `job_stuck` | `MCImportJob` | 1 consumer, evictions | an eviction during processing is never repaired |
| `pipeline_faults` | `MCImportPipeline` | 1 record, 1 consumer, 1 retry, 3 review requests, 2 at a time, D1 failures and sends that were delivered | decisions survive reprocessing, the ledger holds for the whole pipeline |
| `pipeline_reliable` | `MCImportPipeline` | 2 records, 2 consumers, 2 retries, 2 review requests one at a time, evictions, missing objects and unusable files | one owner at a time, that the job follows `JobLifecycle`, and what the documents say of a job's status and its records when requests do not overlap |
| `message_intake` | `MCMessageIntake` | a mail with 2 attachments, an HTTP request, a connector request, an upload, with shared bytes, any 3 of them at once, every fault | that source intake is a `FileStore`, and the receipts that rest on it, whatever fails in between |
| `processor_evidence` | `MCProcessorEvidence` | 2 messages, 2 processors of which 1 admits them, 3 requests of any kind, every fault | the tables are an `EvidenceLog`, evidence agrees, lineage is complete |
| `processor_unlogged` | `MCProcessorEvidence` | 1 message, 2 requests, response bodies that break off | an invocation can fail without a delivery |
| `accounts` | `MCAccounts` | 3 requests of any kind at once, 3 addresses of which 2 founders, 2 roles, local bootstrap on | accounts and sessions are a `UserDirectory`, links and the audit trail agree, and the last administrator falls only to a race |
| `api_access` | `MCApiAccess` | 3 requests of any kind, 2 at a time, 3 founding clients in 2 workspaces, 2 secret refs a request | workspaces stay apart, a revoked secret gets no new use, a lockout needs a race |

Type invariants are proved rather than run, and so are the properties whose essence a
refinement says that a run checks: `QueuedJobWasSent`, `OneSourceFilePerContent`,
`RetriesFollowFailures`, `OneAccountPerEmail`, `OverStaysOver`, `ReviewIsReachedOnce`.

**Why the bounds are enough to be interesting.** Two records let a job be partly
decided; three requests let an approval, a rejection and a commit overlap, or two commits
after an approval. Two
consumers and two deliveries are the smallest instance of a duplicate delivery
to overlapping invocations; the worker's configuration allows four deliveries
(`max_retries` 3), and more deliveries only repeat the same race. Two retries let
both pass the check of the failed status. In `message_intake` the first attachment,
the HTTP request and the direct upload have the same bytes, so that three ways in race
for one file, and the second attachment has bytes of its own; a connector request adds
a message without parts. `MaxArrivals`, the constraint of that run, lets any three of
these four into one behaviour, so that every way in meets every two others. Three requests on one message make chains: a failed invocation, its retry
and a bundle of what the retry derived, or two retries of the same failure. Three
account requests let two overlap after a third prepared them (an invitation and two
acceptances, a reset link and a reset beside a login), and two founders can delete
each other. Three API requests make a secret or a client, use it and revoke it, next
to a workspace of which they know nothing. Two advisory requests are two verdicts on
the advisory from before, or one generated at any time and its verdict; a file that was
unusable and a retry let advisories be made of a failed job and of one processed again.
`MaxInFlight` bounds the requests (in `MessageIntake` the messages and direct uploads)
served at the same time, `MaxDeliveries` the deliveries of one message, `MaxRefs` the
secret refs of one registration; the number of requests, retries, messages and uploads
is bounded by the sets. `CHECK_DEADLOCK FALSE`
everywhere: when every request is answered and every message acknowledged or
dead, the system is done.

**Symmetry** is used in safety runs for consumers, retries, requests and
records, for the requests and messages of `ProcessorEvidence`, and for the requests,
addresses and clients of `Advisory`, `Accounts` and `ApiAccess` as far as they are
interchangeable; the liveness
runs use none, nor do the runs where contents tell uploads and messages apart.

**Fairness** (`ImportJob!FairSpec`). Weak fairness of a dispatch that has
started, of each consumer's next step, of delivery of each queued message and of
the move to the dead letter queue. The runtime runs an invocation it does not
evict, and Cloudflare Queues redelivers a message until it is acknowledged or its
deliveries are used up. There is no fairness for starting a retry (a user's
choice), for faults, or for a missing object coming back. `job_liveness` switches
off evictions and D1 failures because under them the claims are false, which is
what `job_stuck` shows for evictions.

## What the runs found

Three statements of the repository do not survive concurrency, eviction or a
broken connection. Each has a run that ends in a violation and an entry under
`findings`.

1. *"Rejected records are not committed."* (`docs/guides/first-vertical-slice.md`).
   A commit inserts rows for the records it read as approved. A rejection written
   in between leaves the record rejected with a committed row
   (`review_reject_race`).
2. *"Failures should be visible and retryable …"* (`docs/architecture/import-pipeline.md`).
   An eviction after `markImportJobProcessingStarted` leaves the job processing:
   redeliveries return at once because it is not queued, and a retry is refused
   because it is not failed (`job_stuck`).
3. *"Retry and log delivery failures."* (`docs/carboti/product-plan.md`). The body of
   an endpoint's response is read outside the `try` that records failures, while
   the timeout still runs: a body that breaks off, or comes too late, ends in a 500
   with neither a run nor a delivery, although the endpoint acted
   (`processor_unlogged`).

The first needs overlap: `pipeline_reliable` shows it holding for requests that do not
overlap, together with what the documents say of a job's status ("a job becomes
`committed` only after … no staged records remain pending or approved"), and
`ImportPipelineProofs` proves it. With two requests in flight these break in the same
way, for the same reason: status and counts are read before the batch that relies on
them. None of it breaks the promise of `CommitLedger`, which holds under every
interleaving and is proved.

Further behaviour that a reader of the code should know of, each stated as what does
hold and proved:

* "Refuse to delete the last remaining `owner` or `admin`"
  (`docs/architecture/auth-security.md`) is a count before a batch. Two deletions
  that overlap can leave nobody; one that overlaps no other cannot
  (`LastAdminFallsToARace`). Likewise two revocations of API clients
  (`LockoutNeedsARace`).
* A login that verified the old password before a reset can open its session after it.
  Sessions that were there when the password was replaced are gone
  (`SessionsAreYoungerThanPassword`); the late one stays.
* Of two verdicts on an advisory that both read it as suggested, the first stands. The
  second changes nothing, but its audit event is written and its caller is told that
  it took (`FirstVerdictStands`).
* An advisory can be generated of a job in any status. One made while the job waits, is
  processed or has failed says that there are no records, and keeps saying so once they
  are staged: of a later one it holds that never more is pending than it says, of this
  one it does not (`AdvisoriesOnlyAge`).
* A send that failed may have been delivered. The job is then marked failed and its
  message is in the queue as well: the caller is told of the failure, never that the
  job was queued, and the job can be retried (`AnswerIsTrue`, `ImplementsFileStore`).
* Of two uploads of the same bytes that both pass the duplicate check, the one whose
  batch comes second gets an error instead of the other's file. There is still one
  file, and every answer and receipt that names one names it (`AnswerIsTrue`,
  `SameBytesSameFile`).

## Proofs

All theorems are for arbitrary sets of records, requests, consumers, retries,
uploads, messages, processors, accounts, workspaces and advisories and for every set
of faults. They rest on the named assumptions of the modules (`ReviewAssumption`,
`JobAssumption`, `IntakeAssumption`, `MessageAssumption`, `EvidenceAssumption`,
`AdvisoryAssumption`, `AccountsAssumption`, `ApiAssumption`), which say that the
sets TLA+ counts are finite, that model values which must differ do, that no two
messages share an attachment, and who is there before the first request.

* **`ImportReviewProofs`.** `IInv` conjoins `TypeOK`, `CommittedIdResolves`,
  `CommittedOnlyAfterApproval`, `LedgerExplainsStatus` and `FlightsAreFounded`.
  The last one is the strengthening: a commit writes rows long after it read
  them, and what makes the write sound is not that the records are still approved
  (they may not be) but that an approval was in the ledger when they were read,
  and the ledger only grows. From it follow the four invariants,
  `CommittedRowsStay` (the unique index is the only guard) and
  `ReviewImplementsLedger`: decisions map to `Approve`, a commit to `Commit` of
  its own identity, everything else stutters.
* **`ImportJobProofs`.** `IInv` conjoins `TypeOK`, `FailureIsClassified`, that a
  consumer about to record a failure carries a class, that a dispatch which has
  not reached its send has no message, and `QueuedIsAlive`, a strengthening of
  `QueuedJobIsDispatched` that also says which consumer or dispatch is going to
  move a queued job on, so that acknowledging a message cannot strand it.
  `OneAttempt` is a separate counting argument: each attempt consumes the queued
  status, and only a new dispatch gives it back. `ProcessingAlwaysHasOwner` is the
  safety half of `ProcessingEnds`: unless the database or the isolate fails, a job in
  processing has a consumer that is going to end it, because the claim and
  its owner come in one step and every way out of processing writes the status first.
* **`ImportPipelineProofs`.** A step of the job only adds rows where there are none, so
  review's `IInv` is an invariant of the whole, and with it `DecisionsSurvive` and
  `PipelineKeepsLedger`, whatever fails. The other theorems state their premise.
  Under `Reliable` faults (send and database work, the adapter is deployed),
  `StageInv` says that only an owner is about to record a failure, that there is at most
  one and the job is then processing, that rows exist only in review, and that a
  request which goes on is about some row; so review finds no owner and processing no
  rows (`OneOwnerAtATime`, `ReviewReachedOnce`). `PipelineFollowsLifecycle` maps every
  step to `JobLifecycle`: a claim to `Start`, a recorded failure to `Fail` because its
  owner found the job processing, a retry that wrote to `Retry`, staging to `Stage`
  because no row was there, any write of a reviewer to `Review`, all else to a stutter. With one request at a time, whatever
  fails, `SerialInv` says that a request finds its rows as it read them, so that a
  commit marks every row it writes (`RejectedNeverCommitted`,
  `ApprovedAlwaysCommittable`). Under both, `CountsMove` computes the counts that a
  request derives a status from: moving records from one status to another adds and
  subtracts their number (`StatusAlwaysDerived`, `CommittedJobAlwaysSettled`).
* **`AdvisoryProofs`.** An advisory request leaves the job and its review alone
  (`AdvisoriesImplementPipeline`), so all of the above holds beside it, under every
  fault. `VerdictInv` says what a request that read an advisory may rely on, and that an
  event is of a request that is over. `AgeInv` says that either no record is staged or
  all are, and that counts which were read are those of a job without records or count
  every record (`EveryRecordCounted`); from staging on, whatever is processed again
  or reviewed, pending records only become fewer and committed rows more, which is
  what makes such counts age in one direction (`PipelineOnlyAges`, `OnlyAge`).
* **`SourceIntake`** (in `MessageIntakeProofs`). `IInv` relates the place of each upload to its own
  object, row and message; `OneSourceFile` needs only the unique index.
  `SourceFileAlwaysHasObject` needs that the object key is the upload's own and
  that no row is inserted before its object. `MessagesUseFileStore` maps uploads, those
  a message makes included, to `FileStore`: only an upload whose place is past its
  insert has a job, so an answer is given once, in the step that makes it true. A send
  that throws after it enqueued is a hand-over that goes unnoticed, and a failure batch
  that is written and throws marks the job failed with an error as the answer.

* **`MessageIntakeProofs`.** `MessagesImplementIntake` says that every step of a
  message is a step of `SourceIntake` or leaves it alone, so the invariant of
  `SourceIntake` holds here as well. `MInv` adds to it `Control` (which place
  goes with which object and receipt), `RawFirst` (intake never sees an attachment
  whose raw copy is not stored) and two facts about intake that receipts rest on:
  a row always has a job, and only rows are sent. A receipt is true when it is
  written because intake's answers are, and it stays true because rows, messages
  and jobs are never taken back. `SameBytesAlwaysSameFile` then needs nothing but
  the unique index.
* **`ProcessorEvidenceProofs`.** A request reads, waits for an endpoint, and writes
  much later. `Founded` says what is still true of its reading then: it has written
  nothing yet, the failed delivery it follows is still failed, and if it has a
  response the endpoint acted. `InputsExist` says that what it derives from is still
  there and of its message. `LineageAlwaysReachesRaw` is the deepest: a set that is
  closed under the new edges is, without the new artifact, closed under the old
  ones, so it was complete before; and the new artifact is reached because the
  inputs of a batch are never empty. `ProcessedAlwaysLogged` covers endpoints that
  act after their request is over: by then it was logged or had ended in an error.
  `EvidenceIsLog` maps each of the many batches to one entry of `EvidenceLog`: the delivery
  that a retry continues had failed when it was read and deliveries never change
  (`DeliveryIsAttempt`), and what a run derives from is still among the objects of its
  message (`WriteIsEntry`). `FailedAlwaysLogged` is the other side of `processor_unlogged`:
  without a broken body or a failing database, an invocation that fails is logged.

* **`AccountsProofs`.** `Core` holds the types, that nothing names a request which has
  not written yet (ids are fresh), what a request relies on between its read and its
  batch, and the audit: that accounts, credentials and events agree is inductive only
  together with the others. On it rest five separate arguments. An address has one
  account because of the unique index, whatever was read before the insert. An
  administrator remains because a deletion found another (`seen`, the witness), who is
  still there or was deleted since. A batch that replaces a password revokes the
  sessions that are there. A reset link is marked used in the batch that resets, and
  nothing else marks it. An acceptance is undone only by a resend.
  `AccountsAreDirectory` joins them: each request is one act of `UserDirectory` or none
  (`AnswerSpends`), whatever it read before. That needs that a session of an id is opened
  by the request of that id alone, that an account is inserted only if its address is free
  in the batch (`InsertJoins`), and that a session or credential written for an account
  that is gone by then opens nothing. `OverStays` follows from ids being used once.
* **`ApiAccessProofs`.** `Core` again, then: `Apart`, since every lookup is by
  workspace and rows never change theirs; `NoNewUse`, since a request looks its
  secret up after it began and a secret never becomes active again; `Lockout`, since
  the client that revokes the last of those that manage clients is not that one, and
  so is one of them unless it was revoked after it was authorised.

Only model-checked: liveness (`QueuedIsPickedUp`, `ProcessingEnds`), which is out of
the prover's reach. Every other property of a passing run is stated by a theorem. No
theorem needs a recursive definition.

## Not modelled, and why

* Parsing of files, MIME and requests, presenters, lists and event rows:
  no state that a decision depends on.
* The local drain route (`import-job-dev-routes.ts`): refused outside local
  development, and one more caller of `processImportJob`.
* Several jobs at once: rows of different jobs share nothing but the batch of a
  queue invocation, whose effect (a message redelivered after its job was done)
  `ConsumerCrashes` has.
* Signed links to artifacts (`carboti-agent-routes.ts`, `carboti-evidence-routes.ts`):
  a link is checked against its signature and its deadline only and outlives, by
  design, the client that made it; no state.
* Encryption of secrets, hashing of passwords and tokens, the wording and sending of
  mails: a secret is what it was, a hash fits one password, a mail may be lost.
* Lists, traces, manifests and the current user: reads.
* The web application: its hooks keep drafts and selections, and ask the worker again
  after every action; no state of the worker depends on them.
* UI packages, charts, translations, schemas and the OpenAPI description
  (`packages/core`), the SDK, the CLI and the scripts: most of the repository's lines,
  and without state of their own.
* Everything marked `not_modelled` in `PROJECT.json`; the plan follows.

## Plan

1. Done: `ImportStatus`, `CommitLedger`, `ImportReview`, `ImportJob`,
   `ImportPipeline`, `Advisory`, `SourceIntake`, `MessageIntake`,
   `ProcessorEvidence`, `Accounts`, `ApiAccess`, the abstract specifications
   `JobLifecycle`, `FileStore`, `EvidenceLog` and `UserDirectory`, and the proofs above.
2. Composition of `MessageIntake` and `ProcessorEvidence`: a message is invoked or
   replayed while its receipt is being undone.
3. Proofs still worth the effort: that `MessageIntake` implements an abstract inbox (a
   receipt appears once and names a `FileStore` answer for each part), and that secrets
   and clients of `ApiAccess` implement one with revocation as their only change.
4. Composition of `ApiAccess` and `ProcessorEvidence`: a processor whose signing secret
   is revoked between an invocation and its retry.
5. The review screen of the web application: a response that arrives after another
   job was selected.
