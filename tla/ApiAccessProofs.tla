-------------------------- MODULE ApiAccessProofs --------------------------
(***************************************************************************)
(* Proofs about ApiAccess for any requests, founders, workspaces and       *)
(* grants, however many requests are in flight.                            *)
(***************************************************************************)
EXTENDS ApiAccess, TLAPS

\* A request has no rows until it is over.
Fresh(c) ==
  /\ clients[c] = None /\ secrets[c] = None /\ connectors[c] = None
  /\ processors[c] = None /\ checks[c] = None

FreshIds == \A c \in Calls : call[c].pc # "done" => Fresh(c)

\* What a request goes by once it is authorised.
Authorized(c) ==
  /\ call[c].client \in Ids
  /\ clients[call[c].client] # None
  /\ call[c].op \in Ops
  /\ HasScope(call[c].client, ScopeOf[call[c].op])
  /\ \A s \in call[c].known : secrets[s] # None /\ ~secrets[s].active

\* What it has read at the places where it goes on to write or send.
HoldsRow(c) ==
  /\ call[c].op \in {"revoke_client", "revoke_secret", "health"} /\ call[c].pc = "write" =>
       call[c].of \in Ids
  /\ At(c, "revoke_client", "write") =>
       call[c].of # call[c].client /\ MyRow(c, clients[call[c].of])
  /\ At(c, "revoke_secret", "write") => MyRow(c, secrets[call[c].of])
  /\ At(c, "health", "write") =>
       MyRow(c, connectors[call[c].of]) /\ connectors[call[c].of].kind = "source"

\* The secret refs already looked up, and the signing secret before the request is sent.
HoldsSecrets(c) ==
  /\ call[c].op = "connector" /\ call[c].pc \in {"refs", "write"} =>
       \A s \in call[c].refs \ call[c].left :
         /\ MyRow(c, secrets[s]) /\ secrets[s].kind = "connector_credential"
         /\ s \notin call[c].known
  /\ At(c, "connector", "write") => call[c].left = {}
  /\ call[c].op = "invoke" /\ call[c].pc \in {"secret", "send"} =>
       call[c].of \in Ids /\ MyRow(c, processors[call[c].of])
  /\ At(c, "invoke", "send") => processors[call[c].of].secret \notin call[c].known

Holds(c) ==
  call[c].pc \notin {"idle", "done"} => Authorized(c) /\ HoldsRow(c) /\ HoldsSecrets(c)

CallsHold == \A c \in Calls : Holds(c)

Core == ApiTypeOK /\ FreshIds /\ CallsHold

\* Rows stay, where they are and what they are; what is revoked stays revoked.
RowsStay ==
  /\ \A k \in Ids : clients[k] # None =>
       /\ clients'[k] # None
       /\ clients'[k].workspace = clients[k].workspace
       /\ clients'[k].scopes = clients[k].scopes
  /\ \A s \in Ids : secrets[s] # None =>
       /\ secrets'[s] # None
       /\ secrets'[s].workspace = secrets[s].workspace
       /\ secrets'[s].kind = secrets[s].kind
       /\ ~secrets[s].active => ~secrets'[s].active
  /\ \A k \in Ids : connectors[k] # None => connectors'[k] = connectors[k]
  /\ \A p \in Ids : processors[p] # None => processors'[p] = processors[p]
  /\ \A h \in Ids : checks[h] # None => checks'[h] = checks[h]

-----------------------------------------------------------------------------
LEMMA IdleType == Idle \in CallState
BY DEF Idle, CallState

LEMMA BecomeType ==
  ASSUME ApiTypeOK, NEW c \in Calls, NEW state \in CallState, Become(c, state)
  PROVE  /\ call' \in [Calls -> CallState]
         /\ call'[c] = state
         /\ \A d \in Calls : d # c => call'[d] = call[d]
BY DEF ApiTypeOK, Become

LEMMA EndType ==
  ASSUME ApiTypeOK, NEW c \in Calls, End(c)
  PROVE  /\ call' \in [Calls -> CallState]
         /\ call'[c].pc = "done"
         /\ \A d \in Calls : d # c => call'[d] = call[d]
<1>1. [Idle EXCEPT !.pc = "done"] \in CallState
  BY IdleType DEF CallState
<1>2. QED
  BY <1>1, BecomeType DEF End, Idle

LEMMA AuditType ==
  ASSUME ApiTypeOK, NEW c \in Calls, call[c].client \in Ids,
         NEW a \in {"created", "revoked", "checked"},
         NEW t \in {"clients", "secrets", "connectors", "processors"}, NEW s \in Ids,
         Audit(c, a, t, s)
  PROVE  audit' \subseteq [action : {"created", "revoked", "checked"}, actor : Ids,
                           subject : Ids,
                           table : {"clients", "secrets", "connectors", "processors"}]
BY DEF ApiTypeOK, Audit, Event

LEMMA WorkspaceType ==
  ASSUME ApiTypeOK, NEW c \in Calls, Authorized(c)
  PROVE  Workspace(c) \in Workspaces
BY DEF ApiTypeOK, Authorized, Workspace, Client

LEMMA NewSecretType ==
  ASSUME ApiTypeOK, NEW c \in Calls, Authorized(c), NEW kind \in SecretKinds,
         NewSecret(c, kind)
  PROVE  secrets' \in [Ids -> Secret \cup {None}]
BY WorkspaceType DEF ApiTypeOK, NewSecret, Secret

LEMMA NewProcessorType ==
  ASSUME ApiTypeOK, NEW c \in Calls, Authorized(c), NEW s \in Ids \cup {None},
         NewProcessor(c, s)
  PROVE  processors' \in [Ids -> Processor \cup {None}]
BY WorkspaceType DEF ApiTypeOK, NewProcessor, Processor

\* A revocation changes the status of its row and nothing else.
LEMMA RevokeClientRow ==
  ASSUME ApiTypeOK, NEW k \in Ids, clients[k] # None,
         clients' = [clients EXCEPT ![k].active = FALSE]
  PROVE  /\ clients' \in [Ids -> Client \cup {None}]
         /\ clients'[k] # None /\ ~clients'[k].active
         /\ clients'[k].scopes = clients[k].scopes
         /\ clients'[k].workspace = clients[k].workspace
         /\ \A j \in Ids : j # k => clients'[j] = clients[j]
<1>1. clients[k] \in Client
  BY DEF ApiTypeOK
<1>2. [clients[k] EXCEPT !.active = FALSE] \in Client
  BY <1>1 DEF Client
<1>3. clients' = [clients EXCEPT ![k] = [clients[k] EXCEPT !.active = FALSE]]
  OBVIOUS
<1>4. clients'[k] = [clients[k] EXCEPT !.active = FALSE]
  BY <1>3 DEF ApiTypeOK
<1>5. /\ ~clients'[k].active
      /\ clients'[k].scopes = clients[k].scopes
      /\ clients'[k].workspace = clients[k].workspace
  BY <1>1, <1>4 DEF Client
<1>6. clients' \in [Ids -> Client \cup {None}]
  BY <1>2, <1>3 DEF ApiTypeOK
<1>7. clients'[k] # None
  BY <1>2, <1>4, ApiAssumption
<1>8. \A j \in Ids : j # k => clients'[j] = clients[j]
  BY <1>3 DEF ApiTypeOK
<1>9. QED
  BY <1>5, <1>6, <1>7, <1>8

LEMMA RevokeSecretRow ==
  ASSUME ApiTypeOK, NEW k \in Ids, secrets[k] # None,
         secrets' = [secrets EXCEPT ![k].active = FALSE]
  PROVE  /\ secrets' \in [Ids -> Secret \cup {None}]
         /\ secrets'[k] # None /\ ~secrets'[k].active
         /\ secrets'[k].kind = secrets[k].kind
         /\ secrets'[k].workspace = secrets[k].workspace
         /\ \A j \in Ids : j # k => secrets'[j] = secrets[j]
<1>1. secrets[k] \in Secret
  BY DEF ApiTypeOK
<1>2. [secrets[k] EXCEPT !.active = FALSE] \in Secret
  BY <1>1 DEF Secret
<1>3. secrets' = [secrets EXCEPT ![k] = [secrets[k] EXCEPT !.active = FALSE]]
  OBVIOUS
<1>4. secrets'[k] = [secrets[k] EXCEPT !.active = FALSE]
  BY <1>3 DEF ApiTypeOK
<1>5. /\ ~secrets'[k].active
      /\ secrets'[k].kind = secrets[k].kind
      /\ secrets'[k].workspace = secrets[k].workspace
  BY <1>1, <1>4 DEF Secret
<1>6. secrets' \in [Ids -> Secret \cup {None}]
  BY <1>2, <1>3 DEF ApiTypeOK
<1>7. secrets'[k] # None
  BY <1>2, <1>4, ApiAssumption
<1>8. \A j \in Ids : j # k => secrets'[j] = secrets[j]
  BY <1>3 DEF ApiTypeOK
<1>9. QED
  BY <1>5, <1>6, <1>7, <1>8

-----------------------------------------------------------------------------
LEMMA InitType == Init => ApiTypeOK
BY IdleType, ApiAssumption DEF Init, ApiTypeOK, Ids, Client, Secret, SecretKinds, Scopes

\* Most steps read and go on.
Reads(c) == UNCHANGED tables /\ \E state \in CallState : Become(c, state)

LEMMA ReadsKeepTypes ==
  ASSUME ApiTypeOK, NEW c \in Calls, Reads(c)
  PROVE  ApiTypeOK' /\ RowsStay
BY BecomeType DEF Reads, ApiTypeOK, RowsStay, tables

LEMMA RefuseReads ==
  ASSUME NEW c \in Calls, Refuse(c)
  PROVE  Reads(c)
<1>1. [Idle EXCEPT !.pc = "done"] \in CallState
  BY IdleType DEF CallState
<1>2. QED
  BY <1>1 DEF Refuse, End, Reads

ReadStep(c) ==
  \/ Authorize(c) \/ List(c) \/ ReadClient(c) \/ ReadSecret(c) \/ StartConnector(c)
  \/ ReadSecretRef(c) \/ ReadSource(c) \/ ReadProcessor(c) \/ ReadSigningSecret(c)
  \/ Send(c) \/ FailCall(c)

LEMMA ReadStepReads ==
  ASSUME ApiTypeOK, NEW c \in Calls, ReadStep(c)
  PROVE  Reads(c)
<1>0. call[c] \in CallState
  BY DEF ApiTypeOK
<1>1. ASSUME Refuse(c) PROVE Reads(c)
  BY <1>1, RefuseReads
<1>2. ASSUME NEW state \in CallState, Become(c, state), UNCHANGED tables PROVE Reads(c)
  BY <1>2 DEF Reads
<1>3. CASE Authorize(c)
  <2>1. ASSUME NEW k \in Ids, NEW o \in Ops
        PROVE  [Idle EXCEPT !.client = k, !.op = o, !.pc = "authorized",
                            !.known = RevokedSecrets] \in CallState
    BY IdleType DEF CallState, RevokedSecrets
  <2>2. QED
    BY <1>1, <1>2, <1>3, <2>1 DEF Authorize
<1>4. CASE List(c)
  BY <1>1, <1>4 DEF List
<1>5. CASE ReadClient(c) \/ ReadSecret(c) \/ ReadSource(c)
  <2>1. ASSUME NEW k \in Ids PROVE [call[c] EXCEPT !.of = k, !.pc = "write"] \in CallState
    BY <1>0 DEF CallState
  <2>2. QED
    BY <1>1, <1>2, <1>5, <2>1 DEF ReadClient, ReadSecret, ReadSource
<1>6. CASE StartConnector(c)
  <2>1. ASSUME NEW refs \in SUBSET Ids, NEW p \in {"refs", "write"}
        PROVE  [call[c] EXCEPT !.refs = refs, !.left = refs, !.pc = p] \in CallState
    BY <1>0 DEF CallState
  <2>2. QED
    BY <1>1, <1>2, <1>6, <2>1 DEF StartConnector
<1>7. CASE ReadSecretRef(c)
  <2>1. ASSUME NEW s \in Ids, NEW p \in {"refs", "write"}
        PROVE  [call[c] EXCEPT !.left = @ \ {s}, !.pc = p] \in CallState
    BY <1>0 DEF CallState
  <2>2. \A s \in call[c].left : s \in Ids
    BY <1>0 DEF CallState
  <2>3. QED
    BY <1>1, <1>2, <1>7, <2>1, <2>2 DEF ReadSecretRef
<1>8. CASE ReadProcessor(c)
  <2>1. ASSUME NEW p \in Ids PROVE [call[c] EXCEPT !.of = p, !.pc = "secret"] \in CallState
    BY <1>0 DEF CallState
  <2>2. QED
    BY <1>1, <1>2, <1>8, <2>1 DEF ReadProcessor
<1>9. CASE ReadSigningSecret(c)
  <2>1. [call[c] EXCEPT !.pc = "send"] \in CallState
    BY <1>0 DEF CallState
  <2>2. QED
    BY <1>1, <1>2, <1>9, <2>1 DEF ReadSigningSecret
<1>10. CASE Send(c)
  BY <1>1, <1>10 DEF Send, Refuse
<1>11. CASE FailCall(c)
  BY <1>1, <1>11 DEF FailCall
<1>12. QED
  BY <1>3, <1>4, <1>5, <1>6, <1>7, <1>8, <1>9, <1>10, <1>11 DEF ReadStep

WriteStep(c) ==
  \/ CreateClient(c) \/ RevokeClient(c) \/ CreateSecret(c) \/ RevokeSecret(c)
  \/ WriteConnector(c) \/ WriteCheck(c) \/ CreateHostedProcessor(c)
  \/ CreateExternalProcessor(c)

LEMMA StepCases ==
  ASSUME NEW c \in Calls, ApiStep(c)
  PROVE  ReadStep(c) \/ WriteStep(c)
BY DEF ApiStep, ReadStep, WriteStep

\* A step that writes comes from an authorised request and ends it, unless it was
\* refused.
LEMMA WriteStepEnds ==
  ASSUME ApiTypeOK, CallsHold, NEW c \in Calls, WriteStep(c)
  PROVE  /\ Authorized(c) /\ HoldsRow(c) /\ HoldsSecrets(c)
         /\ call[c].pc # "done"
         /\ End(c)
<1>1. call[c].pc \in {"authorized", "write"}
  BY DEF WriteStep, CreateClient, RevokeClient, CreateSecret, RevokeSecret, WriteConnector,
         WriteCheck, CreateHostedProcessor, CreateExternalProcessor, At
<1>2. End(c)
  BY DEF WriteStep, CreateClient, RevokeClient, CreateSecret, RevokeSecret, WriteConnector,
         WriteCheck, CreateHostedProcessor, CreateExternalProcessor, Refuse
<1>3. QED
  BY <1>1, <1>2 DEF CallsHold, Holds

-----------------------------------------------------------------------------
\* A step that writes keeps the types, and every row that was there.
LEMMA WriteStepRows ==
  ASSUME Core, NEW c \in Calls, WriteStep(c), ~Refuse(c)
  PROVE  ApiTypeOK' /\ RowsStay
<1>0. ApiTypeOK /\ c \in Ids /\ call[c] \in CallState
  BY DEF Core, ApiTypeOK, Ids
<1>1. Authorized(c) /\ HoldsRow(c) /\ HoldsSecrets(c) /\ Fresh(c) /\ End(c)
  BY WriteStepEnds DEF Core, FreshIds
<1>2. call' \in [Calls -> CallState]
  BY <1>0, <1>1, EndType
<1>3. ASSUME NEW a \in {"created", "revoked", "checked"},
             NEW t \in {"clients", "secrets", "connectors", "processors"}, NEW s \in Ids,
             Audit(c, a, t, s)
      PROVE  audit' \subseteq [action : {"created", "revoked", "checked"}, actor : Ids,
                               subject : Ids,
                               table : {"clients", "secrets", "connectors", "processors"}]
  BY <1>0, <1>1, <1>3, AuditType DEF Authorized
<1>4. Workspace(c) \in Workspaces
  BY <1>0, <1>1, WorkspaceType
<1>5. CASE CreateClient(c)
  <2>1. PICK scopes \in SUBSET Scopes :
          clients' = [clients EXCEPT ![c] =
            [active |-> TRUE, scopes |-> scopes, workspace |-> Workspace(c)]]
    BY <1>5 DEF CreateClient, CanGrant
  <2>2. [active |-> TRUE, scopes |-> scopes, workspace |-> Workspace(c)] \in Client
    BY <1>4 DEF Client
  <2>3. clients' \in [Ids -> Client \cup {None}]
    BY <1>0, <2>1, <2>2 DEF ApiTypeOK
  <2>4. \A k \in Ids : k # c => clients'[k] = clients[k]
    BY <1>0, <2>1 DEF ApiTypeOK
  <2>5. /\ Audit(c, "created", "clients", c)
        /\ UNCHANGED <<secrets, connectors, processors, checks>>
    BY <1>5 DEF CreateClient
  <2>6. ApiTypeOK'
    BY <1>0, <1>2, <1>3, <2>3, <2>5 DEF ApiTypeOK
  <2>7. RowsStay
    BY <1>1, <2>4, <2>5 DEF RowsStay, Fresh
  <2>8. QED
    BY <2>6, <2>7
<1>6. CASE RevokeClient(c)
  <2>1. call[c].of \in Ids /\ clients[call[c].of] # None
    BY <1>1, <1>6 DEF RevokeClient, HoldsRow, At, MyRow
  <2>2. /\ clients' = [clients EXCEPT ![call[c].of].active = FALSE]
        /\ Audit(c, "revoked", "clients", call[c].of)
        /\ UNCHANGED <<secrets, connectors, processors, checks>>
    BY <1>6 DEF RevokeClient
  <2>3. ApiTypeOK'
    BY <1>0, <1>2, <1>3, <2>1, <2>2, RevokeClientRow DEF ApiTypeOK
  <2>4. RowsStay
    BY <1>0, <2>1, <2>2, RevokeClientRow DEF RowsStay
  <2>5. QED
    BY <2>3, <2>4
<1>7. CASE CreateSecret(c)
  <2>1. PICK kind \in SecretKinds : NewSecret(c, kind)
    BY <1>7 DEF CreateSecret
  <2>2. /\ Audit(c, "created", "secrets", c)
        /\ UNCHANGED <<clients, connectors, processors, checks>>
    BY <1>7 DEF CreateSecret
  <2>3. ApiTypeOK'
    BY <1>0, <1>1, <1>2, <1>3, <2>1, <2>2, NewSecretType DEF ApiTypeOK
  <2>4. RowsStay
    BY <1>0, <1>1, <2>1, <2>2 DEF RowsStay, Fresh, NewSecret, ApiTypeOK
  <2>5. QED
    BY <2>3, <2>4
<1>8. CASE RevokeSecret(c)
  <2>1. call[c].of \in Ids /\ secrets[call[c].of] # None
    BY <1>1, <1>8 DEF RevokeSecret, HoldsRow, At, MyRow
  <2>2. /\ secrets' = [secrets EXCEPT ![call[c].of].active = FALSE]
        /\ Audit(c, "revoked", "secrets", call[c].of)
        /\ UNCHANGED <<clients, connectors, processors, checks>>
    BY <1>8 DEF RevokeSecret
  <2>3. ApiTypeOK'
    BY <1>0, <1>2, <1>3, <2>1, <2>2, RevokeSecretRow DEF ApiTypeOK
  <2>4. RowsStay
    BY <1>0, <2>1, <2>2, RevokeSecretRow DEF RowsStay
  <2>5. QED
    BY <2>3, <2>4
<1>9. CASE WriteConnector(c)
  <2>1. PICK kind \in {"source", "sink"}, active \in BOOLEAN :
          connectors' = [connectors EXCEPT ![c] =
            [active |-> active, workspace |-> Workspace(c), kind |-> kind,
             secrets |-> call[c].refs]]
    BY <1>9 DEF WriteConnector
  <2>2. [active |-> active, workspace |-> Workspace(c), kind |-> kind,
         secrets |-> call[c].refs] \in Connector
    BY <1>0, <1>4 DEF Connector, CallState
  <2>3. connectors' \in [Ids -> Connector \cup {None}]
    BY <1>0, <2>1, <2>2 DEF ApiTypeOK
  <2>4. /\ Audit(c, "created", "connectors", c)
        /\ UNCHANGED <<clients, secrets, processors, checks>>
    BY <1>9 DEF WriteConnector
  <2>5. ApiTypeOK'
    BY <1>0, <1>2, <1>3, <2>3, <2>4 DEF ApiTypeOK
  <2>6. \A k \in Ids : k # c => connectors'[k] = connectors[k]
    BY <1>0, <2>1 DEF ApiTypeOK
  <2>7. RowsStay
    BY <1>1, <2>4, <2>6 DEF RowsStay, Fresh
  <2>8. QED
    BY <2>5, <2>7
<1>10. CASE WriteCheck(c)
  <2>1. call[c].of \in Ids
    BY <1>1, <1>10 DEF WriteCheck, HoldsRow, At
  <2>2. PICK status \in {"healthy", "degraded", "disabled"} :
          checks' = [checks EXCEPT ![c] =
            [workspace |-> Workspace(c), source |-> call[c].of, status |-> status]]
    BY <1>10 DEF WriteCheck
  <2>3. [workspace |-> Workspace(c), source |-> call[c].of, status |-> status] \in Check
    BY <1>4, <2>1 DEF Check
  <2>4. checks' \in [Ids -> Check \cup {None}]
    BY <1>0, <2>2, <2>3 DEF ApiTypeOK
  <2>5. /\ Audit(c, "checked", "connectors", call[c].of)
        /\ UNCHANGED <<clients, secrets, connectors, processors>>
    BY <1>10 DEF WriteCheck
  <2>6. ApiTypeOK'
    BY <1>0, <1>2, <1>3, <2>1, <2>4, <2>5 DEF ApiTypeOK
  <2>7. \A k \in Ids : k # c => checks'[k] = checks[k]
    BY <1>0, <2>2 DEF ApiTypeOK
  <2>8. RowsStay
    BY <1>1, <2>5, <2>7 DEF RowsStay, Fresh
  <2>9. QED
    BY <2>6, <2>8
<1>11. CASE CreateHostedProcessor(c)
  <2>1. /\ NewProcessor(c, None)
        /\ Audit(c, "created", "processors", c)
        /\ UNCHANGED <<clients, secrets, connectors, checks>>
    BY <1>11 DEF CreateHostedProcessor
  <2>2. ApiTypeOK'
    BY <1>0, <1>1, <1>2, <1>3, <2>1, NewProcessorType DEF ApiTypeOK
  <2>3. RowsStay
    BY <1>0, <1>1, <2>1 DEF RowsStay, Fresh, NewProcessor, ApiTypeOK
  <2>4. QED
    BY <2>2, <2>3
<1>12. CASE CreateExternalProcessor(c)
  <2>1. /\ NewSecret(c, "processor_signing_key")
        /\ NewProcessor(c, c)
        /\ Audit(c, "created", "processors", c)
        /\ UNCHANGED <<clients, connectors, checks>>
    BY <1>12 DEF CreateExternalProcessor
  <2>2. secrets' \in [Ids -> Secret \cup {None}]
    BY <1>0, <1>1, <2>1, NewSecretType DEF SecretKinds
  <2>3. ApiTypeOK'
    BY <1>0, <1>1, <1>2, <1>3, <2>1, <2>2, NewProcessorType DEF ApiTypeOK
  <2>4. RowsStay
    BY <1>0, <1>1, <2>1 DEF RowsStay, Fresh, NewProcessor, NewSecret, ApiTypeOK
  <2>5. QED
    BY <2>3, <2>4
<1>13. QED
  BY <1>5, <1>6, <1>7, <1>8, <1>9, <1>10, <1>11, <1>12 DEF WriteStep

\* Every step does; and only requests that end write.
LEMMA StepRows ==
  ASSUME Core, NEW c \in Calls, ApiStep(c)
  PROVE  /\ ApiTypeOK' /\ RowsStay
         /\ \A d \in Calls : d # c => call'[d] = call[d]
         /\ Reads(c) \/ (WriteStep(c) /\ call'[c].pc = "done")
<1>1. CASE Reads(c)
  BY <1>1, ReadsKeepTypes, BecomeType DEF Core, Reads
<1>2. CASE WriteStep(c) /\ ~Refuse(c)
  BY <1>2, WriteStepRows, WriteStepEnds, EndType DEF Core
<1>3. QED
  BY <1>1, <1>2, StepCases, ReadStepReads, RefuseReads DEF Core

-----------------------------------------------------------------------------
LEMMA FreshStep ==
  ASSUME Core, NEW c \in Calls, ApiStep(c)
  PROVE  FreshIds'
<1>1. SUFFICES ASSUME NEW d \in Calls, call'[d].pc # "done" PROVE Fresh(d)'
  BY DEF FreshIds
<1>2. CASE Reads(c)
  <2>1. call[d].pc # "done"
    <3>1. CASE d # c
      BY <1>1, <3>1, StepRows
    <3>2. CASE d = c
      BY <3>2 DEF ApiStep, CanStart, At, InFlight, Authorize, List, CreateClient,
         ReadClient, RevokeClient, CreateSecret, ReadSecret, RevokeSecret, StartConnector,
         ReadSecretRef, WriteConnector, ReadSource, WriteCheck, CreateHostedProcessor,
         CreateExternalProcessor, ReadProcessor, ReadSigningSecret, Send, FailCall
    <3>3. QED
      BY <3>1, <3>2
  <2>2. QED
    BY <1>2, <2>1 DEF Core, FreshIds, Fresh, Reads, tables
<1>3. CASE WriteStep(c) /\ call'[c].pc = "done" /\ ~Reads(c)
  <2>1. d # c /\ Fresh(d) /\ d \in Ids /\ c \in Ids
    BY <1>1, <1>3, StepRows DEF Core, FreshIds, Ids
  <2>2. HoldsRow(c)
    BY <1>3, WriteStepEnds DEF Core
  <2>3. CASE RevokeClient(c)
    <3>1. call[c].of \in Ids /\ clients[call[c].of] # None
      BY <2>2, <2>3 DEF RevokeClient, HoldsRow, At, MyRow
    <3>2. QED
      BY <2>1, <2>3, <3>1, RevokeClientRow DEF RevokeClient, Fresh, Core
  <2>4. CASE RevokeSecret(c)
    <3>1. call[c].of \in Ids /\ secrets[call[c].of] # None
      BY <2>2, <2>4 DEF RevokeSecret, HoldsRow, At, MyRow
    <3>2. QED
      BY <2>1, <2>4, <3>1, RevokeSecretRow DEF RevokeSecret, Fresh, Core
  <2>5. ~Refuse(c)
    BY <1>3, RefuseReads
  <2>6. CASE CreateClient(c) \/ CreateSecret(c) \/ WriteConnector(c) \/ WriteCheck(c)
    BY <2>1, <2>5, <2>6
    DEF CreateClient, CreateSecret, WriteConnector, WriteCheck, NewSecret, Fresh, Core,
        ApiTypeOK
  <2>7. CASE CreateHostedProcessor(c) \/ CreateExternalProcessor(c)
    BY <2>1, <2>5, <2>7
    DEF CreateHostedProcessor, CreateExternalProcessor, NewSecret, NewProcessor, Fresh,
        Core, ApiTypeOK
  <2>8. QED
    BY <1>3, <2>3, <2>4, <2>6, <2>7 DEF WriteStep
<1>4. QED
  BY <1>2, <1>3, StepRows

\* What a request goes by stays true when rows stay.
LEMMA HoldsStays ==
  ASSUME Core, RowsStay, NEW d \in Calls, call'[d] = call[d]
  PROVE  Holds(d)'
<1>1. SUFFICES ASSUME call[d].pc \notin {"idle", "done"}
               PROVE  (Authorized(d) /\ HoldsRow(d) /\ HoldsSecrets(d))'
  BY DEF Holds
<1>2. Authorized(d) /\ HoldsRow(d) /\ HoldsSecrets(d) /\ call[d] \in CallState
  BY <1>1 DEF Core, CallsHold, Holds, ApiTypeOK
<1>3. call[d].client \in Ids /\ clients[call[d].client] # None
  BY <1>2 DEF Authorized
<1>4. Workspace(d)' = Workspace(d)
  BY <1>3 DEF Workspace, RowsStay
<1>5. Authorized(d)'
  BY <1>2, <1>3 DEF Authorized, RowsStay, HasScope, CallState
<1>6. HoldsRow(d)'
  BY <1>2, <1>4 DEF HoldsRow, RowsStay, At, MyRow
<1>7. HoldsSecrets(d)'
  <2>1. \A s \in Ids : MyRow(d, secrets[s]) /\ secrets[s].kind = "connector_credential"
          => (MyRow(d, secrets[s]) /\ secrets[s].kind = "connector_credential")'
    BY <1>4 DEF RowsStay, MyRow
  <2>2. \A p \in Ids : MyRow(d, processors[p]) =>
          MyRow(d, processors[p])' /\ processors'[p] = processors[p]
    BY <1>4 DEF RowsStay, MyRow
  <2>3. call[d].refs \subseteq Ids
    BY <1>2 DEF CallState
  <2>4. QED
    BY <1>2, <2>1, <2>2, <2>3 DEF HoldsSecrets, At
<1>8. QED
  BY <1>5, <1>6, <1>7

\* A step that reads leaves its own request with what it goes by next.
LEMMA HoldsRead ==
  ASSUME Core, NEW c \in Calls, ReadStep(c)
  PROVE  Holds(c)'
<1>0. /\ call[c] \in CallState /\ ApiTypeOK /\ c \in Ids
      /\ RowsStay /\ UNCHANGED tables /\ call \in [Calls -> CallState]
  BY ReadStepReads, ReadsKeepTypes DEF Core, ApiTypeOK, Ids, Reads
<1>1. ASSUME Refuse(c) PROVE Holds(c)'
  BY <1>0, <1>1, EndType DEF Refuse, Holds
<1>2. CASE Authorize(c) /\ ~Refuse(c)
  <2>1. PICK k \in Ids, o \in Ops :
          /\ clients[k] # None /\ HasScope(k, ScopeOf[o])
          /\ Become(c, [Idle EXCEPT !.client = k, !.op = o, !.pc = "authorized",
                                    !.known = RevokedSecrets])
    BY <1>2 DEF Authorize
  <2>2. call'[c] = [Idle EXCEPT !.client = k, !.op = o, !.pc = "authorized",
                                !.known = RevokedSecrets]
    BY <1>0, <2>1 DEF Become
  <2>3. /\ call'[c].client = k /\ call'[c].op = o /\ call'[c].pc = "authorized"
        /\ call'[c].known = RevokedSecrets
    BY <2>2 DEF Idle
  <2>4. Authorized(c)'
    BY <1>0, <2>1, <2>3 DEF Authorized, RevokedSecrets, HasScope, tables
  <2>5. QED
    BY <2>3, <2>4 DEF Holds, HoldsRow, HoldsSecrets, At
<1>3. ASSUME ~Refuse(c), call[c].pc \notin {"idle", "done"},
             call'[c].client = call[c].client, call'[c].op = call[c].op,
             call'[c].known = call[c].known
      PROVE  /\ Authorized(c)' /\ Workspace(c)' = Workspace(c)
             /\ HoldsRow(c) /\ HoldsSecrets(c)
  BY <1>0, <1>3 DEF Core, CallsHold, Holds, Authorized, Workspace, HasScope, tables
<1>4. CASE (ReadClient(c) \/ ReadSecret(c) \/ ReadSource(c)) /\ ~Refuse(c)
  <2>1. PICK k \in Ids :
          /\ call[c].pc = "authorized"
          /\ Become(c, [call[c] EXCEPT !.of = k, !.pc = "write"])
          /\ \/ /\ call[c].op = "revoke_client"
                /\ k # call[c].client /\ MyRow(c, clients[k])
             \/ call[c].op = "revoke_secret" /\ MyRow(c, secrets[k])
             \/ /\ call[c].op = "health" /\ MyRow(c, connectors[k])
                /\ connectors[k].kind = "source"
    BY <1>4 DEF ReadClient, ReadSecret, ReadSource, At
  <2>2. call'[c] = [call[c] EXCEPT !.of = k, !.pc = "write"]
    BY <1>0, <2>1 DEF Become
  <2>3. /\ call'[c].client = call[c].client /\ call'[c].op = call[c].op
        /\ call'[c].known = call[c].known /\ call'[c].of = k /\ call'[c].pc = "write"
    BY <1>0, <2>2 DEF CallState
  <2>4. Authorized(c)' /\ Workspace(c)' = Workspace(c)
    BY <1>3, <1>4, <2>1, <2>3
  <2>5. HoldsRow(c)'
    BY <1>0, <2>1, <2>3, <2>4 DEF HoldsRow, At, MyRow, tables
  <2>6. HoldsSecrets(c)'
    BY <2>1, <2>3 DEF HoldsSecrets, At
  <2>7. QED
    BY <2>4, <2>5, <2>6 DEF Holds
<1>5. CASE StartConnector(c) /\ ~Refuse(c)
  <2>1. PICK refs \in SUBSET Ids :
          /\ call[c].op = "connector" /\ call[c].pc = "authorized"
          /\ Become(c, [call[c] EXCEPT !.refs = refs, !.left = refs,
                          !.pc = IF refs = {} THEN "write" ELSE "refs"])
    BY <1>5 DEF StartConnector, At
  <2>2. call'[c] = [call[c] EXCEPT !.refs = refs, !.left = refs,
                          !.pc = IF refs = {} THEN "write" ELSE "refs"]
    BY <1>0, <2>1 DEF Become
  <2>3. /\ call'[c].client = call[c].client /\ call'[c].op = "connector"
        /\ call'[c].known = call[c].known /\ call'[c].refs = refs /\ call'[c].left = refs
        /\ call'[c].pc = "write" => refs = {}
    BY <1>0, <2>1, <2>2 DEF CallState
  <2>4. Authorized(c)'
    BY <1>3, <1>5, <2>1, <2>3
  <2>5. QED
    BY <2>3, <2>4 DEF Holds, HoldsRow, HoldsSecrets, At
<1>6. CASE ReadSecretRef(c) /\ ~Refuse(c)
  <2>1. PICK s \in call[c].left :
          /\ call[c].op = "connector" /\ call[c].pc = "refs"
          /\ Finds(c, "connector_credential", s)
          /\ Become(c, [call[c] EXCEPT !.left = @ \ {s},
                          !.pc = IF call[c].left = {s} THEN "write" ELSE "refs"])
    BY <1>6 DEF ReadSecretRef, At
  <2>2. call'[c] = [call[c] EXCEPT !.left = @ \ {s},
                          !.pc = IF call[c].left = {s} THEN "write" ELSE "refs"]
    BY <1>0, <2>1 DEF Become
  <2>3. /\ call'[c].client = call[c].client /\ call'[c].op = "connector"
        /\ call'[c].known = call[c].known /\ call'[c].refs = call[c].refs
        /\ call'[c].left = call[c].left \ {s}
        /\ call'[c].pc = "write" => call'[c].left = {}
    BY <1>0, <2>1, <2>2 DEF CallState
  <2>4. Authorized(c)' /\ Workspace(c)' = Workspace(c) /\ HoldsSecrets(c)
    BY <1>3, <1>6, <2>1, <2>3
  <2>5. /\ MyRow(c, secrets[s]) /\ secrets[s].kind = "connector_credential"
        /\ s \notin call[c].known
    BY <1>0, <2>1, <2>3, <2>4 DEF Finds, Authorized, tables
  <2>6. HoldsSecrets(c)'
    BY <1>0, <2>1, <2>3, <2>4, <2>5 DEF HoldsSecrets, At, MyRow, tables
  <2>7. QED
    BY <2>3, <2>4, <2>6 DEF Holds, HoldsRow, At
<1>7. CASE ReadProcessor(c) /\ ~Refuse(c)
  <2>1. PICK p \in Ids :
          /\ call[c].op = "invoke" /\ call[c].pc = "authorized"
          /\ MyRow(c, processors[p])
          /\ Become(c, [call[c] EXCEPT !.of = p, !.pc = "secret"])
    BY <1>7 DEF ReadProcessor, At
  <2>2. call'[c] = [call[c] EXCEPT !.of = p, !.pc = "secret"]
    BY <1>0, <2>1 DEF Become
  <2>3. /\ call'[c].client = call[c].client /\ call'[c].op = "invoke"
        /\ call'[c].known = call[c].known /\ call'[c].of = p /\ call'[c].pc = "secret"
    BY <1>0, <2>1, <2>2 DEF CallState
  <2>4. Authorized(c)' /\ Workspace(c)' = Workspace(c)
    BY <1>3, <1>7, <2>1, <2>3
  <2>5. QED
    BY <1>0, <2>1, <2>3, <2>4 DEF Holds, HoldsRow, HoldsSecrets, At, MyRow, tables
<1>8. CASE ReadSigningSecret(c) /\ ~Refuse(c)
  <2>1. /\ call[c].op = "invoke" /\ call[c].pc = "secret"
        /\ Finds(c, "processor_signing_key", processors[call[c].of].secret)
        /\ Become(c, [call[c] EXCEPT !.pc = "send"])
    BY <1>8 DEF ReadSigningSecret, At
  <2>2. call'[c] = [call[c] EXCEPT !.pc = "send"]
    BY <1>0, <2>1 DEF Become
  <2>3. /\ call'[c].client = call[c].client /\ call'[c].op = "invoke"
        /\ call'[c].known = call[c].known /\ call'[c].of = call[c].of
        /\ call'[c].pc = "send"
    BY <1>0, <2>1, <2>2 DEF CallState
  <2>4. Authorized(c)' /\ Workspace(c)' = Workspace(c) /\ HoldsSecrets(c)
    BY <1>3, <1>8, <2>1, <2>3
  <2>5. processors[call[c].of].secret \notin call[c].known
    BY <1>0, <2>1, <2>3, <2>4 DEF Finds, Authorized, tables
  <2>6. QED
    BY <1>0, <2>1, <2>3, <2>4, <2>5
    DEF Holds, HoldsRow, HoldsSecrets, At, MyRow, tables
<1>9. CASE List(c) \/ Send(c) \/ FailCall(c)
  BY <1>1, <1>9 DEF List, Send, Refuse, FailCall
<1>10. QED
  BY <1>1, <1>2, <1>4, <1>5, <1>6, <1>7, <1>8, <1>9 DEF ReadStep

LEMMA HoldsStep ==
  ASSUME Core, NEW c \in Calls, ApiStep(c)
  PROVE  CallsHold'
<1>1. SUFFICES ASSUME NEW d \in Calls PROVE Holds(d)'
  BY DEF CallsHold
<1>2. CASE d # c
  BY <1>2, StepRows, HoldsStays
<1>3. CASE d = c
  <2>1. CASE ReadStep(c)
    BY <1>3, <2>1, HoldsRead
  <2>2. CASE WriteStep(c)
    BY <1>3, <2>2, WriteStepEnds, EndType DEF Core, Holds
  <2>3. QED
    BY <2>1, <2>2, StepCases
<1>4. QED
  BY <1>2, <1>3

LEMMA CoreInit == Init => Core
BY InitType, ApiAssumption
DEF Init, Core, FreshIds, Fresh, CallsHold, Holds, Idle, Ids

LEMMA CoreStep == Core /\ [Next]_vars => Core'
<1>1. SUFFICES ASSUME Core, [Next]_vars PROVE Core'
  OBVIOUS
<1>2. CASE UNCHANGED vars
  <2>1. ApiTypeOK'
    BY <1>1, <1>2 DEF Core, ApiTypeOK, vars
  <2>2. FreshIds'
    BY <1>1, <1>2 DEF Core, FreshIds, Fresh, vars
  <2>3. RowsStay
    BY <1>2 DEF RowsStay, vars
  <2>4. CallsHold'
    BY <1>1, <1>2, <2>3, HoldsStays DEF CallsHold, vars
  <2>5. QED
    BY <2>1, <2>2, <2>4 DEF Core
<1>3. ASSUME NEW c \in Calls, ApiStep(c) PROVE Core'
  BY <1>1, <1>3, StepRows, FreshStep, HoldsStep DEF Core
<1>4. QED
  BY <1>1, <1>2, <1>3 DEF Next

\* Types, fresh rows and what requests go by are inductive.
THEOREM CoreInvariant == Spec => []Core
BY CoreInit, CoreStep, PTL DEF Spec

\* The tables and the requests keep their types.
THEOREM TypeCorrect == Spec => []ApiTypeOK
<1>1. Core => ApiTypeOK
  BY DEF Core
<1>2. QED
  BY <1>1, CoreInvariant, PTL

-----------------------------------------------------------------------------
(* Nothing crosses from one workspace to another. *)

LEMMA ApartInit == Init => WorkspacesAreApart
BY ApiAssumption
DEF Init, WorkspacesAreApart, ConnectorsStayHome, ProcessorsStayHome, ChecksStayHome,
    AuditStaysHome

\* What was apart stays apart, as rows stay.
LEMMA ApartStays ==
  ASSUME Core, WorkspacesAreApart, RowsStay
  PROVE  /\ \A k \in Ids : connectors[k] # None => \A s \in connectors[k].secrets :
              /\ Belongs(secrets[s], connectors[k].workspace)'
              /\ secrets'[s].kind = "connector_credential"
         /\ \A p \in Ids : processors[p] # None /\ processors[p].secret # None =>
              /\ Belongs(secrets[processors[p].secret], processors[p].workspace)'
              /\ secrets'[processors[p].secret].kind = "processor_signing_key"
         /\ \A h \in Ids : checks[h] # None =>
              /\ Belongs(connectors[checks[h].source], checks[h].workspace)'
              /\ connectors'[checks[h].source].kind = "source"
         /\ \A e \in audit : clients'[e.actor] # None
                             /\ (Belongs(RowOf(e), clients[e.actor].workspace))'
<1>0. ApiTypeOK
  BY DEF Core
<1>1. ASSUME NEW k \in Ids, connectors[k] # None, NEW s \in connectors[k].secrets
      PROVE  /\ Belongs(secrets[s], connectors[k].workspace)'
             /\ secrets'[s].kind = "connector_credential"
  <2>1. s \in Ids
    BY <1>0, <1>1 DEF ApiTypeOK, Connector
  <2>2. QED
    BY <1>1, <2>1 DEF WorkspacesAreApart, ConnectorsStayHome, Belongs, RowsStay
<1>2. ASSUME NEW p \in Ids, processors[p] # None, processors[p].secret # None
      PROVE  /\ Belongs(secrets[processors[p].secret], processors[p].workspace)'
             /\ secrets'[processors[p].secret].kind = "processor_signing_key"
  <2>1. processors[p].secret \in Ids
    BY <1>0, <1>2 DEF ApiTypeOK, Processor
  <2>2. QED
    BY <1>2, <2>1 DEF WorkspacesAreApart, ProcessorsStayHome, Belongs, RowsStay
<1>3. ASSUME NEW h \in Ids, checks[h] # None
      PROVE  /\ Belongs(connectors[checks[h].source], checks[h].workspace)'
             /\ connectors'[checks[h].source].kind = "source"
  <2>1. checks[h].source \in Ids
    BY <1>0, <1>3 DEF ApiTypeOK, Check
  <2>2. QED
    BY <1>3, <2>1 DEF WorkspacesAreApart, ChecksStayHome, Belongs, RowsStay
<1>4. ASSUME NEW e \in audit
      PROVE  clients'[e.actor] # None /\ (Belongs(RowOf(e), clients[e.actor].workspace))'
  <2>1. /\ e.actor \in Ids /\ e.subject \in Ids
        /\ e.table \in {"clients", "secrets", "connectors", "processors"}
    BY <1>0 DEF ApiTypeOK
  <2>2. /\ clients[e.actor] # None /\ RowOf(e) # None
        /\ RowOf(e).workspace = clients[e.actor].workspace
    BY DEF WorkspacesAreApart, AuditStaysHome, Belongs
  <2>3. clients'[e.actor] # None /\ clients'[e.actor].workspace = clients[e.actor].workspace
    BY <2>1, <2>2 DEF RowsStay
  <2>4. RowOf(e)' # None /\ RowOf(e)'.workspace = RowOf(e).workspace
    BY <2>1, <2>2 DEF RowsStay, RowOf
  <2>5. QED
    BY <2>2, <2>3, <2>4 DEF Belongs
<1>5. QED
  BY <1>1, <1>2, <1>3, <1>4

\* An event about a row of the actor's workspace.
LEMMA AuditHome ==
  ASSUME Core, NEW c \in Calls, Authorized(c), RowsStay, WorkspacesAreApart,
         NEW a, NEW t \in {"clients", "secrets", "connectors", "processors"}, NEW s \in Ids,
         Audit(c, a, t, s),
         t = "clients" => Belongs(clients'[s], Workspace(c)),
         t = "secrets" => Belongs(secrets'[s], Workspace(c)),
         t = "connectors" => Belongs(connectors'[s], Workspace(c)),
         t = "processors" => Belongs(processors'[s], Workspace(c))
  PROVE  AuditStaysHome'
<1>1. SUFFICES ASSUME NEW e \in audit'
               PROVE  /\ clients'[e.actor] # None
                      /\ (Belongs(RowOf(e), clients[e.actor].workspace))'
  BY DEF AuditStaysHome
<1>2. CASE e \in audit
  BY <1>2, ApartStays
<1>3. CASE e = Event(c, a, t, s)
  <2>1. e.actor = call[c].client /\ e.table = t /\ e.subject = s
    BY <1>3 DEF Event
  <2>2. clients'[e.actor] # None /\ clients'[e.actor].workspace = Workspace(c)
    BY <2>1 DEF Authorized, Workspace, RowsStay
  <2>3. Belongs(RowOf(e)', Workspace(c))
    BY <2>1 DEF RowOf
  <2>4. QED
    BY <2>2, <2>3 DEF Belongs
<1>4. QED
  BY <1>2, <1>3 DEF Audit

LEMMA ApartStep ==
  ASSUME Core, WorkspacesAreApart, NEW c \in Calls, ApiStep(c)
  PROVE  WorkspacesAreApart'
<1>0. /\ ApiTypeOK /\ RowsStay /\ c \in Ids
  BY StepRows DEF Core, Ids
<1>1. ASSUME UNCHANGED connectors PROVE ConnectorsStayHome'
  BY <1>0, <1>1, ApartStays DEF ConnectorsStayHome
<1>2. ASSUME UNCHANGED processors PROVE ProcessorsStayHome'
  BY <1>0, <1>2, ApartStays DEF ProcessorsStayHome
<1>3. ASSUME UNCHANGED checks PROVE ChecksStayHome'
  BY <1>0, <1>3, ApartStays DEF ChecksStayHome
<1>4. CASE Reads(c)
  <2>1. AuditStaysHome'
    BY <1>0, <1>4, ApartStays DEF AuditStaysHome, Reads, tables
  <2>2. QED
    BY <1>1, <1>2, <1>3, <1>4, <2>1 DEF WorkspacesAreApart, Reads, tables
<1>5. CASE WriteStep(c) /\ ~Reads(c)
  <2>0. /\ Authorized(c) /\ HoldsRow(c) /\ HoldsSecrets(c) /\ ~Refuse(c)
        /\ Workspace(c) \in Workspaces /\ call[c] \in CallState
    BY <1>0, <1>5, WriteStepEnds, RefuseReads, WorkspaceType DEF Core, ApiTypeOK
  <2>1. CASE CreateClient(c)
    <3>1. Belongs(clients'[c], Workspace(c))
      <4>1. PICK scopes \in SUBSET Scopes :
              clients' = [clients EXCEPT ![c] =
                [active |-> TRUE, scopes |-> scopes, workspace |-> Workspace(c)]]
        BY <2>0, <2>1 DEF CreateClient, CanGrant
      <4>2. [active |-> TRUE, scopes |-> scopes, workspace |-> Workspace(c)] \in Client
        BY <2>0 DEF Client
      <4>3. QED
        BY <1>0, <4>1, <4>2, ApiAssumption DEF ApiTypeOK, Belongs
    <3>2. AuditStaysHome'
      BY <1>0, <2>0, <2>1, <3>1, AuditHome DEF CreateClient
    <3>3. QED
      BY <1>1, <1>2, <1>3, <2>0, <2>1, <3>2 DEF WorkspacesAreApart, CreateClient
  <2>2. CASE RevokeClient(c)
    <3>1. call[c].of \in Ids /\ MyRow(c, clients[call[c].of])
      BY <2>0, <2>2 DEF RevokeClient, HoldsRow, At
    <3>2. Belongs(clients'[call[c].of], Workspace(c))
      BY <1>0, <3>1 DEF RowsStay, MyRow, Belongs
    <3>3. AuditStaysHome'
      BY <1>0, <2>0, <2>2, <3>1, <3>2, AuditHome DEF RevokeClient
    <3>4. QED
      BY <1>1, <1>2, <1>3, <2>2, <3>3 DEF WorkspacesAreApart, RevokeClient
  <2>3. CASE CreateSecret(c)
    <3>1. Belongs(secrets'[c], Workspace(c))
      <4>1. PICK kind \in SecretKinds :
              secrets' = [secrets EXCEPT ![c] =
                [active |-> TRUE, workspace |-> Workspace(c), kind |-> kind]]
        BY <2>0, <2>3 DEF CreateSecret, NewSecret
      <4>2. [active |-> TRUE, workspace |-> Workspace(c), kind |-> kind] \in Secret
        BY <2>0 DEF Secret
      <4>3. QED
        BY <1>0, <4>1, <4>2, ApiAssumption DEF ApiTypeOK, Belongs
    <3>2. AuditStaysHome'
      BY <1>0, <2>0, <2>3, <3>1, AuditHome DEF CreateSecret
    <3>3. QED
      BY <1>1, <1>2, <1>3, <2>0, <2>3, <3>2 DEF WorkspacesAreApart, CreateSecret
  <2>4. CASE RevokeSecret(c)
    <3>1. call[c].of \in Ids /\ MyRow(c, secrets[call[c].of])
      BY <2>0, <2>4 DEF RevokeSecret, HoldsRow, At
    <3>2. Belongs(secrets'[call[c].of], Workspace(c))
      BY <1>0, <3>1 DEF RowsStay, MyRow, Belongs
    <3>3. AuditStaysHome'
      BY <1>0, <2>0, <2>4, <3>1, <3>2, AuditHome DEF RevokeSecret
    <3>4. QED
      BY <1>1, <1>2, <1>3, <2>4, <3>3 DEF WorkspacesAreApart, RevokeSecret
  <2>5. CASE WriteConnector(c)
    <3>1. PICK kind \in {"source", "sink"}, active \in BOOLEAN :
            connectors' = [connectors EXCEPT ![c] =
              [active |-> active, workspace |-> Workspace(c), kind |-> kind,
               secrets |-> call[c].refs]]
      BY <2>5 DEF WriteConnector
    <3>2. connectors'[c] = [active |-> active, workspace |-> Workspace(c), kind |-> kind,
                            secrets |-> call[c].refs]
      BY <1>0, <3>1 DEF ApiTypeOK
    <3>3. connectors'[c].secrets = call[c].refs /\ connectors'[c].workspace = Workspace(c)
      BY <3>2
    <3>4. UNCHANGED <<secrets, processors, checks>> /\ Audit(c, "created", "connectors", c)
      BY <2>5 DEF WriteConnector
    <3>5. \A s \in call[c].refs : MyRow(c, secrets[s])
                                  /\ secrets[s].kind = "connector_credential"
      BY <2>0, <2>5 DEF WriteConnector, HoldsSecrets, At
    <3>6. ConnectorsStayHome'
      <4>1. SUFFICES ASSUME NEW k \in Ids, connectors'[k] # None,
                            NEW s \in connectors'[k].secrets
                     PROVE  /\ (Belongs(secrets[s], connectors[k].workspace))'
                            /\ secrets'[s].kind = "connector_credential"
        BY DEF ConnectorsStayHome
      <4>2. CASE k = c
        BY <3>3, <3>4, <3>5, <4>1, <4>2 DEF Belongs, MyRow
      <4>3. CASE k # c
        <5>1. connectors'[k] = connectors[k]
          BY <1>0, <3>1, <4>3 DEF ApiTypeOK
        <5>2. QED
          BY <1>0, <4>1, <5>1, ApartStays
      <4>4. QED
        BY <4>2, <4>3
    <3>7. Belongs(connectors'[c], Workspace(c))
      <4>1. connectors'[c] \in Connector
        BY <1>0, <2>0, <3>2 DEF Connector, CallState
      <4>2. QED
        BY <3>3, <4>1, ApiAssumption DEF Belongs
    <3>8. AuditStaysHome'
      BY <1>0, <2>0, <3>4, <3>7, AuditHome
    <3>9. QED
      BY <1>2, <1>3, <3>4, <3>6, <3>8 DEF WorkspacesAreApart
  <2>6. CASE WriteCheck(c)
    <3>1. call[c].of \in Ids /\ MyRow(c, connectors[call[c].of])
          /\ connectors[call[c].of].kind = "source"
      BY <2>0, <2>6 DEF WriteCheck, HoldsRow, At
    <3>2. PICK status \in {"healthy", "degraded", "disabled"} :
            checks' = [checks EXCEPT ![c] =
              [workspace |-> Workspace(c), source |-> call[c].of, status |-> status]]
      BY <2>6 DEF WriteCheck
    <3>3. checks'[c].source = call[c].of /\ checks'[c].workspace = Workspace(c)
      BY <1>0, <3>2 DEF ApiTypeOK
    <3>4. \A h \in Ids : h # c => checks'[h] = checks[h]
      BY <1>0, <3>2 DEF ApiTypeOK
    <3>5. /\ UNCHANGED <<clients, secrets, connectors, processors>>
          /\ Audit(c, "checked", "connectors", call[c].of)
      BY <2>6 DEF WriteCheck
    <3>6. ChecksStayHome'
      BY <1>0, <3>1, <3>3, <3>4, <3>5, ApartStays DEF ChecksStayHome, Belongs, MyRow
    <3>7. Belongs(connectors'[call[c].of], Workspace(c))
      BY <3>1, <3>5 DEF MyRow, Belongs
    <3>8. AuditStaysHome'
      BY <1>0, <2>0, <3>1, <3>5, <3>7, AuditHome
    <3>9. QED
      BY <1>1, <1>2, <3>5, <3>6, <3>8 DEF WorkspacesAreApart
  <2>7. CASE CreateHostedProcessor(c)
    <3>1. /\ processors' = [processors EXCEPT ![c] =
               [workspace |-> Workspace(c), secret |-> None]]
          /\ UNCHANGED <<clients, secrets, connectors, checks>>
          /\ Audit(c, "created", "processors", c)
      BY <2>7 DEF CreateHostedProcessor, NewProcessor
    <3>2. [workspace |-> Workspace(c), secret |-> None] \in Processor
      BY <2>0 DEF Processor
    <3>3. /\ processors'[c] # None /\ processors'[c].workspace = Workspace(c)
          /\ processors'[c].secret = None
      BY <1>0, <3>1, <3>2, ApiAssumption DEF ApiTypeOK
    <3>4. \A p \in Ids : p # c => processors'[p] = processors[p]
      BY <1>0, <3>1 DEF ApiTypeOK
    <3>5. ProcessorsStayHome'
      BY <1>0, <3>3, <3>4, ApartStays DEF ProcessorsStayHome
    <3>6. AuditStaysHome'
      BY <1>0, <2>0, <3>1, <3>3, AuditHome DEF Belongs
    <3>7. QED
      BY <1>1, <1>3, <3>1, <3>5, <3>6 DEF WorkspacesAreApart
  <2>8. CASE CreateExternalProcessor(c)
    <3>1. /\ processors' = [processors EXCEPT ![c] =
               [workspace |-> Workspace(c), secret |-> c]]
          /\ secrets' = [secrets EXCEPT ![c] =
               [active |-> TRUE, workspace |-> Workspace(c),
                kind |-> "processor_signing_key"]]
          /\ UNCHANGED <<clients, connectors, checks>>
          /\ Audit(c, "created", "processors", c)
      BY <2>0, <2>8 DEF CreateExternalProcessor, NewProcessor, NewSecret
    <3>2. /\ [workspace |-> Workspace(c), secret |-> c] \in Processor
          /\ [active |-> TRUE, workspace |-> Workspace(c),
              kind |-> "processor_signing_key"] \in Secret
      BY <1>0, <2>0 DEF Processor, Secret, SecretKinds
    <3>3. /\ processors'[c] # None /\ processors'[c].workspace = Workspace(c)
          /\ processors'[c].secret = c
      BY <1>0, <3>1, <3>2, ApiAssumption DEF ApiTypeOK
    <3>4. /\ secrets'[c] # None /\ secrets'[c].workspace = Workspace(c)
          /\ secrets'[c].kind = "processor_signing_key"
      BY <1>0, <3>1, <3>2, ApiAssumption DEF ApiTypeOK
    <3>5. \A p \in Ids : p # c => processors'[p] = processors[p]
      BY <1>0, <3>1 DEF ApiTypeOK
    <3>6. ProcessorsStayHome'
      BY <1>0, <3>3, <3>4, <3>5, ApartStays DEF ProcessorsStayHome, Belongs
    <3>7. AuditStaysHome'
      BY <1>0, <2>0, <3>1, <3>3, AuditHome DEF Belongs
    <3>8. QED
      BY <1>1, <1>3, <3>1, <3>6, <3>7 DEF WorkspacesAreApart
  <2>9. QED
    BY <1>5, <2>1, <2>2, <2>3, <2>4, <2>5, <2>6, <2>7, <2>8 DEF WriteStep
<1>6. QED
  BY <1>4, <1>5, StepRows

LEMMA ApartInvariant == Core /\ WorkspacesAreApart /\ [Next]_vars => WorkspacesAreApart'
<1>1. SUFFICES ASSUME Core, WorkspacesAreApart, [Next]_vars PROVE WorkspacesAreApart'
  OBVIOUS
<1>2. CASE UNCHANGED vars
  <2>1. RowsStay
    BY <1>2 DEF RowsStay, vars
  <2>2. QED
    BY <1>1, <1>2, <2>1, ApartStays
    DEF WorkspacesAreApart, ConnectorsStayHome, ProcessorsStayHome, ChecksStayHome,
        AuditStaysHome, vars
<1>3. QED
  BY <1>1, <1>2, ApartStep DEF Next

\* Connectors, processors, health checks and audit events never reach into another
\* workspace.
THEOREM Apart == Spec => []WorkspacesAreApart
BY CoreInvariant, ApartInit, ApartInvariant, PTL DEF Spec

-----------------------------------------------------------------------------
\* No request that began after the revocation of a secret puts it into a connector or
\* signs with it.
THEOREM NoNewUse == Spec => RevokedSecretsGetNoNewUse
<1>1. ASSUME Core, NEW c \in Calls, WriteConnector(c) \/ Send(c)
      PROVE  Uses(c) \cap call[c].known = {}
  <2>1. HoldsSecrets(c)
    BY <1>1 DEF Core, CallsHold, Holds, WriteConnector, Send, At
  <2>2. CASE WriteConnector(c)
    BY <2>1, <2>2 DEF WriteConnector, Uses, HoldsSecrets, At
  <2>3. CASE Send(c)
    BY <2>1, <2>3 DEF Send, Uses, HoldsSecrets, At
  <2>4. QED
    BY <1>1, <2>2, <2>3
<1>2. Core => \A c \in Calls : WriteConnector(c) \/ Send(c) => Uses(c) \cap call[c].known = {}
  BY <1>1
<1>3. QED
  BY <1>2, CoreInvariant, PTL DEF RevokedSecretsGetNoNewUse

\* Only revocations take a client out of the keepers of a workspace.
LEMMA KeepersStay ==
  ASSUME Core, NEW c \in Calls, ApiStep(c), ~RevokeClient(c), NEW w \in Workspaces,
         NEW k \in Keepers(w)
  PROVE  k \in Keepers(w)'
<1>1. k \in Ids /\ clients[k] # None
  BY DEF Keepers
<1>2. clients'[k] = clients[k]
  <2>1. CASE Reads(c)
    BY <2>1 DEF Reads, tables
  <2>2. CASE WriteStep(c) /\ ~Reads(c)
    <3>1. ~Refuse(c) /\ Fresh(c) /\ c \in Ids
      BY <2>2, RefuseReads, WriteStepEnds DEF Core, FreshIds, Ids
    <3>2. k # c
      BY <1>1, <3>1 DEF Fresh
    <3>3. CASE CreateClient(c)
      BY <1>1, <3>1, <3>2, <3>3 DEF CreateClient, Core, ApiTypeOK
    <3>4. QED
      BY <2>2, <3>1, <3>3
      DEF WriteStep, CreateSecret, RevokeSecret, WriteConnector, WriteCheck,
          CreateHostedProcessor, CreateExternalProcessor
  <2>3. QED
    BY <2>1, <2>2, StepRows
<1>3. QED
  BY <1>1, <1>2 DEF Keepers, HasScope

LEMMA LastKeeper ==
  ASSUME Core, NEW c \in Calls, ApiStep(c), NEW w \in Workspaces,
         Keepers(w) # {}, Keepers(w)' = {}
  PROVE  RevokeClient(c) /\ ~clients[call[c].client].active
<1>1. PICK k \in Keepers(w) : k \notin Keepers(w)'
  OBVIOUS
<1>2. RevokeClient(c)
  BY <1>1, KeepersStay
<1>3. Authorized(c) /\ HoldsRow(c) /\ call[c].op = "revoke_client" /\ call[c].pc = "write"
  BY <1>2 DEF Core, CallsHold, Holds, RevokeClient, At
<1>4. /\ call[c].of \in Ids /\ call[c].of # call[c].client
      /\ clients[call[c].of] # None /\ clients[call[c].of].workspace = Workspace(c)
      /\ call[c].client \in Ids
  BY <1>3 DEF HoldsRow, At, MyRow, Authorized
<1>5. \A j \in Ids : j # call[c].of => clients'[j] = clients[j]
  BY <1>2, <1>4, RevokeClientRow DEF RevokeClient, Core
<1>6. k = call[c].of
  BY <1>1, <1>5 DEF Keepers, HasScope
<1>7. clients[call[c].client].workspace = w
  BY <1>1, <1>4, <1>6 DEF Keepers, Workspace
<1>8. HasScope(call[c].client, "api_clients:write")
  BY <1>3 DEF Authorized, ScopeOf
<1>9. ASSUME clients[call[c].client].active PROVE FALSE
  <2>1. call[c].client \in Keepers(w)
    BY <1>3, <1>4, <1>7, <1>8, <1>9 DEF Keepers, Authorized
  <2>2. call[c].client \in Keepers(w)'
    BY <1>4, <1>5, <2>1 DEF Keepers, HasScope
  <2>3. QED
    BY <2>2
<1>10. QED
  BY <1>2, <1>9

\* A workspace loses its last client that manages clients only by the request of a client
\* that was itself revoked under way.
THEOREM Lockout == Spec => LockoutNeedsARace
<1>1. Core /\ [Next]_vars =>
        [\A w \in Workspaces : Keepers(w) # {} /\ Keepers(w)' = {} =>
           \E c \in Calls : RevokeClient(c) /\ ~clients[call[c].client].active]_vars
  BY LastKeeper DEF Next
<1>2. QED
  BY <1>1, CoreInvariant, PTL DEF Spec, LockoutNeedsARace

=============================================================================
