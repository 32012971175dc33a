----------------------------- MODULE ApiAccess -----------------------------
(***************************************************************************)
(* The Carboti API's own administration: its clients and their scopes, the *)
(* secrets, connectors and processors that they register, and what is done *)
(* with a secret (apps/worker/src/carboti-api-auth.ts and the client,      *)
(* secret, connector and processor routes).                                *)
(*                                                                         *)
(* Every request looks its client up once, by its token, and goes on with  *)
(* what it read: a revocation stops the requests that start after it, not  *)
(* those in flight.  Every row belongs to a workspace.  A row is named by  *)
(* the request that inserts it, the rows that precede the run by the       *)
(* client they belong to.  Reads that write nothing end like a refusal.    *)
(***************************************************************************)
EXTENDS Naturals, FiniteSets

CONSTANTS
  Calls,        \* the requests
  Founders,     \* the clients provisioned before the run
  Workspaces,
  Home,         \* the workspace of each founder
  Grants,       \* the sets of scopes that requests for a new client name
  MaxRefs,      \* bound: secret refs of a connector
  MaxInFlight,  \* bound: requests served at the same time
  None

Ids == Calls \cup Founders

Scopes == {"*", "api_clients:read", "api_clients:write", "secrets:write", "connectors:write",
           "processors:write", "processors:invoke"}

ScopeOf == [list |-> "api_clients:read",
            create_client |-> "api_clients:write", revoke_client |-> "api_clients:write",
            create_secret |-> "secrets:write", revoke_secret |-> "secrets:write",
            connector |-> "connectors:write", health |-> "connectors:write",
            processor |-> "processors:write", invoke |-> "processors:invoke"]
Ops == DOMAIN ScopeOf

SecretKinds == {"connector_credential", "processor_signing_key", "generic"}

Client == [active : BOOLEAN, scopes : SUBSET Scopes, workspace : Workspaces]
Secret == [active : BOOLEAN, workspace : Workspaces, kind : SecretKinds]
Connector == [active : BOOLEAN, workspace : Workspaces, kind : {"source", "sink"},
              secrets : SUBSET Ids]
Processor == [workspace : Workspaces, secret : Ids \cup {None}]
Check == [workspace : Workspaces, source : Ids, status : {"healthy", "degraded", "disabled"}]

ASSUME ApiAssumption ==
  /\ Calls \cap Founders = {}
  /\ Home \in [Founders -> Workspaces]
  /\ None \notin Ids
  /\ None \notin Client /\ None \notin Secret /\ None \notin Connector
  /\ None \notin Processor /\ None \notin Check

VARIABLES
  clients,     \* carboti_api_clients
  secrets,     \* carboti_secret_refs
  connectors,  \* carboti_sources and carboti_sinks
  processors,  \* carboti_processor_configs; "secret" is None for a hosted one
  checks,      \* carboti_connector_health_checks
  audit,       \* audit_events: who did what to which row
  call         \* the requests' progress

tables == <<clients, secrets, connectors, processors, checks, audit>>
vars == <<clients, secrets, connectors, processors, checks, audit, call>>

-----------------------------------------------------------------------------
\* A request: its client, the row it has read ("of"), the secret refs it was given and
\* those not yet looked up.  "known" is the history: the secrets that had been revoked
\* when the request began.
Idle == [client |-> None, known |-> {}, left |-> {}, of |-> None, op |-> "none",
         pc |-> "idle", refs |-> {}]

InFlight == {c \in Calls : call[c].pc \notin {"idle", "done"}}
CanStart(c) == call[c].pc = "idle" /\ Cardinality(InFlight) < MaxInFlight

At(c, o, p) == call[c].op = o /\ call[c].pc = p
Become(c, state) == call' = [call EXCEPT ![c] = state]
End(c) == Become(c, [Idle EXCEPT !.pc = "done"])
Refuse(c) == End(c) /\ UNCHANGED tables

Workspace(c) == clients[call[c].client].workspace

Event(c, a, t, s) == [action |-> a, actor |-> call[c].client, subject |-> s, table |-> t]
Audit(c, a, t, s) == audit' = audit \cup {Event(c, a, t, s)}

Init ==
  /\ clients = [k \in Ids |->
       IF k \in Founders
         THEN [active |-> TRUE, scopes |-> {"*"}, workspace |-> Home[k]] ELSE None]
  /\ secrets = [s \in Ids |->
       IF s \in Founders
         THEN [active |-> TRUE, workspace |-> Home[s], kind |-> "connector_credential"]
         ELSE None]
  /\ connectors = [k \in Ids |-> None]
  /\ processors = [p \in Ids |-> None]
  /\ checks = [h \in Ids |-> None]
  /\ audit = {}
  /\ call = [c \in Calls |-> Idle]

-----------------------------------------------------------------------------
HasScope(k, scope) == "*" \in clients[k].scopes \/ scope \in clients[k].scopes

RevokedSecrets == {s \in Ids : secrets[s] # None /\ ~secrets[s].active}

\* requireCarbotiApiClient opens every request.  An unknown or revoked token and a
\* missing scope are refused.
Authorize(c) ==
  /\ CanStart(c)
  /\ \E k \in Ids, o \in Ops :
       /\ clients[k] # None
       /\ \/ ~(clients[k].active /\ HasScope(k, ScopeOf[o])) /\ Refuse(c)
          \/ /\ clients[k].active /\ HasScope(k, ScopeOf[o])
             /\ Become(c, [Idle EXCEPT !.client = k, !.op = o, !.pc = "authorized",
                                       !.known = RevokedSecrets])
             /\ UNCHANGED tables

\* Mutant: rows are looked up by id alone.
AnyRow(c, row) == row # None

\* WHERE id = ? AND workspace_id = ?
MyRow(c, row) == row # None /\ row.workspace = Workspace(c)

-----------------------------------------------------------------------------
(* API clients. *)

\* The lists answer with the workspace's own rows.
List(c) ==
  /\ At(c, "list", "authorized")
  /\ Refuse(c)

\* Every scope asked for must exist and be the creator's to grant.
CanGrant(k, scopes) ==
  /\ scopes \subseteq Scopes
  /\ "*" \in clients[k].scopes \/ scopes \subseteq clients[k].scopes

CreateClient(c) ==
  /\ At(c, "create_client", "authorized")
  /\ \E scopes \in Grants :
       \/ ~CanGrant(call[c].client, scopes) /\ Refuse(c)
       \/ /\ CanGrant(call[c].client, scopes)
          /\ clients' = [clients EXCEPT ![c] =
               [active |-> TRUE, scopes |-> scopes, workspace |-> Workspace(c)]]
          /\ Audit(c, "created", "clients", c)
          /\ End(c)
          /\ UNCHANGED <<secrets, connectors, processors, checks>>

\* Mutant: a client may revoke itself.
ReadAnyClient(c) ==
  /\ At(c, "revoke_client", "authorized")
  /\ \E k \in Ids :
       /\ MyRow(c, clients[k])
       /\ Become(c, [call[c] EXCEPT !.of = k, !.pc = "write"])
       /\ UNCHANGED tables

ReadClient(c) ==
  /\ At(c, "revoke_client", "authorized")
  /\ \E k \in Ids :
       \/ (k = call[c].client \/ ~MyRow(c, clients[k])) /\ Refuse(c)
       \/ /\ k # call[c].client
          /\ MyRow(c, clients[k])
          /\ Become(c, [call[c] EXCEPT !.of = k, !.pc = "write"])
          /\ UNCHANGED tables

RevokeClient(c) ==
  /\ At(c, "revoke_client", "write")
  /\ clients' = [clients EXCEPT ![call[c].of].active = FALSE]
  /\ Audit(c, "revoked", "clients", call[c].of)
  /\ End(c)
  /\ UNCHANGED <<secrets, connectors, processors, checks>>

-----------------------------------------------------------------------------
(* Secrets. *)

NewSecret(c, kind) ==
  secrets' = [secrets EXCEPT ![c] =
    [active |-> TRUE, workspace |-> Workspace(c), kind |-> kind]]

\* Without an encryption key the request is refused.
CreateSecret(c) ==
  /\ At(c, "create_secret", "authorized")
  /\ \/ Refuse(c)
     \/ /\ \E kind \in SecretKinds : NewSecret(c, kind)
        /\ Audit(c, "created", "secrets", c)
        /\ End(c)
        /\ UNCHANGED <<clients, connectors, processors, checks>>

ReadSecret(c) ==
  /\ At(c, "revoke_secret", "authorized")
  /\ \E s \in Ids :
       \/ ~MyRow(c, secrets[s]) /\ Refuse(c)
       \/ /\ MyRow(c, secrets[s])
          /\ Become(c, [call[c] EXCEPT !.of = s, !.pc = "write"])
          /\ UNCHANGED tables

RevokeSecret(c) ==
  /\ At(c, "revoke_secret", "write")
  /\ secrets' = [secrets EXCEPT ![call[c].of].active = FALSE]
  /\ Audit(c, "revoked", "secrets", call[c].of)
  /\ End(c)
  /\ UNCHANGED <<clients, connectors, processors, checks>>

\* Mutant: the lookup of a secret ignores its status.
FindsAnyStatus(c, kind, s) == MyRow(c, secrets[s]) /\ secrets[s].kind = kind

\* WHERE id = ? AND workspace_id = ? AND kind = ? AND (status IS NULL OR status = 'active')
Finds(c, kind, s) ==
  MyRow(c, secrets[s]) /\ secrets[s].kind = kind /\ secrets[s].active

-----------------------------------------------------------------------------
(* Connectors. *)

\* An unsupported kind, a missing field or an inline secret is refused.
StartConnector(c) ==
  /\ At(c, "connector", "authorized")
  /\ \/ Refuse(c)
     \/ \E refs \in {r \in SUBSET Ids : Cardinality(r) <= MaxRefs} :
          /\ Become(c, [call[c] EXCEPT !.refs = refs, !.left = refs,
                                       !.pc = IF refs = {} THEN "write" ELSE "refs"])
          /\ UNCHANGED tables

\* The refs are looked up one after the other.
ReadSecretRef(c) ==
  /\ At(c, "connector", "refs")
  /\ \E s \in call[c].left :
       \/ ~Finds(c, "connector_credential", s) /\ Refuse(c)
       \/ /\ Finds(c, "connector_credential", s)
          /\ Become(c, [call[c] EXCEPT !.left = @ \ {s},
                          !.pc = IF call[c].left = {s} THEN "write" ELSE "refs"])
          /\ UNCHANGED tables

WriteConnector(c) ==
  /\ At(c, "connector", "write")
  /\ \E kind \in {"source", "sink"}, active \in BOOLEAN :
       connectors' = [connectors EXCEPT ![c] =
         [active |-> active, workspace |-> Workspace(c), kind |-> kind,
          secrets |-> call[c].refs]]
  /\ Audit(c, "created", "connectors", c)
  /\ End(c)
  /\ UNCHANGED <<clients, secrets, processors, checks>>

ReadSource(c) ==
  /\ At(c, "health", "authorized")
  /\ \E k \in Ids :
       \/ ~(MyRow(c, connectors[k]) /\ connectors[k].kind = "source") /\ Refuse(c)
       \/ /\ MyRow(c, connectors[k])
          /\ connectors[k].kind = "source"
          /\ Become(c, [call[c] EXCEPT !.of = k, !.pc = "write"])
          /\ UNCHANGED tables

\* Of the row as it was read: its status, then whether its config has the fields its
\* manifest requires.  The secrets are counted, not looked up.
WriteCheck(c) ==
  /\ At(c, "health", "write")
  /\ \E status \in IF connectors[call[c].of].active THEN {"healthy", "degraded"}
                                                    ELSE {"disabled"} :
       checks' = [checks EXCEPT ![c] =
         [workspace |-> Workspace(c), source |-> call[c].of, status |-> status]]
  /\ Audit(c, "checked", "connectors", call[c].of)
  /\ End(c)
  /\ UNCHANGED <<clients, secrets, connectors, processors>>

-----------------------------------------------------------------------------
(* Processors. *)

NewProcessor(c, secret) ==
  processors' = [processors EXCEPT ![c] = [workspace |-> Workspace(c), secret |-> secret]]

CreateHostedProcessor(c) ==
  /\ At(c, "processor", "authorized")
  /\ NewProcessor(c, None)
  /\ Audit(c, "created", "processors", c)
  /\ End(c)
  /\ UNCHANGED <<clients, secrets, connectors, checks>>

\* An external processor comes with its signing secret, in one batch; without an
\* encryption key it is refused.
CreateExternalProcessor(c) ==
  /\ At(c, "processor", "authorized")
  /\ \/ Refuse(c)
     \/ /\ NewSecret(c, "processor_signing_key")
        /\ NewProcessor(c, c)
        /\ Audit(c, "created", "processors", c)
        /\ End(c)
        /\ UNCHANGED <<clients, connectors, checks>>

\* A hosted processor is not invoked over HTTP.
ReadProcessor(c) ==
  /\ At(c, "invoke", "authorized")
  /\ \E p \in Ids :
       \/ ~(MyRow(c, processors[p]) /\ processors[p].secret # None) /\ Refuse(c)
       \/ /\ MyRow(c, processors[p])
          /\ processors[p].secret # None
          /\ Become(c, [call[c] EXCEPT !.of = p, !.pc = "secret"])
          /\ UNCHANGED tables

ReadSigningSecret(c) ==
  /\ At(c, "invoke", "secret")
  /\ \/ /\ ~Finds(c, "processor_signing_key", processors[call[c].of].secret)
        /\ Refuse(c)
     \/ /\ Finds(c, "processor_signing_key", processors[call[c].of].secret)
        /\ Become(c, [call[c] EXCEPT !.pc = "send"])
        /\ UNCHANGED tables

\* The signed request leaves; what comes of it is ProcessorEvidence's.
Send(c) ==
  /\ At(c, "invoke", "send")
  /\ End(c)
  /\ UNCHANGED tables

-----------------------------------------------------------------------------
\* A D1 call throws, or the isolate is evicted: the batch has no effect.
FailCall(c) ==
  /\ c \in InFlight
  /\ Refuse(c)

ApiStep(c) ==
  \/ Authorize(c) \/ List(c)
  \/ CreateClient(c) \/ ReadClient(c) \/ RevokeClient(c)
  \/ CreateSecret(c) \/ ReadSecret(c) \/ RevokeSecret(c)
  \/ StartConnector(c) \/ ReadSecretRef(c) \/ WriteConnector(c)
  \/ ReadSource(c) \/ WriteCheck(c)
  \/ CreateHostedProcessor(c) \/ CreateExternalProcessor(c)
  \/ ReadProcessor(c) \/ ReadSigningSecret(c) \/ Send(c)
  \/ FailCall(c)

Next == \E c \in Calls : ApiStep(c)

Spec == Init /\ [][Next]_vars

-----------------------------------------------------------------------------
CallState ==
  [client : Ids \cup {None}, known : SUBSET Ids, left : SUBSET Ids, of : Ids \cup {None},
   op : Ops \cup {"none"},
   pc : {"idle", "authorized", "refs", "secret", "send", "write", "done"},
   refs : SUBSET Ids]

\* The tables and the requests have their types.
ApiTypeOK ==
  /\ clients \in [Ids -> Client \cup {None}]
  /\ secrets \in [Ids -> Secret \cup {None}]
  /\ connectors \in [Ids -> Connector \cup {None}]
  /\ processors \in [Ids -> Processor \cup {None}]
  /\ checks \in [Ids -> Check \cup {None}]
  /\ audit \subseteq [action : {"created", "revoked", "checked"}, actor : Ids, subject : Ids,
                      table : {"clients", "secrets", "connectors", "processors"}]
  /\ call \in [Calls -> CallState]

RowOf(e) ==
  CASE e.table = "clients" -> clients[e.subject]
    [] e.table = "secrets" -> secrets[e.subject]
    [] e.table = "connectors" -> connectors[e.subject]
    [] e.table = "processors" -> processors[e.subject]

Belongs(row, workspace) == row # None /\ row.workspace = workspace

ConnectorsStayHome ==
  \A k \in Ids : connectors[k] # None => \A s \in connectors[k].secrets :
    /\ Belongs(secrets[s], connectors[k].workspace)
    /\ secrets[s].kind = "connector_credential"

ProcessorsStayHome ==
  \A p \in Ids : processors[p] # None /\ processors[p].secret # None =>
    /\ Belongs(secrets[processors[p].secret], processors[p].workspace)
    /\ secrets[processors[p].secret].kind = "processor_signing_key"

ChecksStayHome ==
  \A h \in Ids : checks[h] # None =>
    /\ Belongs(connectors[checks[h].source], checks[h].workspace)
    /\ connectors[checks[h].source].kind = "source"

AuditStaysHome ==
  \A e \in audit : clients[e.actor] # None /\ Belongs(RowOf(e), clients[e.actor].workspace)

\* Nothing crosses from one workspace to another: a connector's secrets, a processor's
\* signing secret and a health check's source are rows of its own workspace and of the
\* right kind, and the audit names only clients of the row's workspace.
WorkspacesAreApart ==
  ConnectorsStayHome /\ ProcessorsStayHome /\ ChecksStayHome /\ AuditStaysHome

Uses(c) == IF call[c].op = "connector" THEN call[c].refs
                                       ELSE {processors[call[c].of].secret}

\* A revoked secret gets no new use: no request that began after the revocation puts it
\* into a connector or signs with it.  Only one that overlapped the revocation may.
RevokedSecretsGetNoNewUse ==
  [][\A c \in Calls : WriteConnector(c) \/ Send(c) => Uses(c) \cap call[c].known = {}]_vars

Keepers(w) ==
  {k \in Ids : /\ clients[k] # None
               /\ clients[k].workspace = w
               /\ clients[k].active
               /\ HasScope(k, "api_clients:write")}

\* A client cannot revoke itself, and that keeps a workspace from losing its last
\* client that manages clients, but for a race: the revocation that removes it comes
\* from a client that has been revoked itself since it was authorised.
LockoutNeedsARace ==
  [][\A w \in Workspaces : Keepers(w) # {} /\ Keepers(w)' = {} =>
       \E c \in Calls : RevokeClient(c) /\ ~clients[call[c].client].active]_vars

=============================================================================
