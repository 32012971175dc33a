------------------------------ MODULE Accounts ------------------------------
(***************************************************************************)
(* Users, credentials, sessions, password reset links and invitations of   *)
(* the worker (apps/worker/src/auth-*.ts).                                  *)
(*                                                                         *)
(* A request reads rows, awaits, and writes one D1 batch: each read and    *)
(* each batch is an action, so that any other request may run in between.  *)
(* A row is named by the request that inserts it; the rows that precede    *)
(* the run are named by the address they belong to.  A password is named   *)
(* by the request that set it.  Deadlines are left to chance: a session, a *)
(* reset link or an invitation may be found expired whenever it is read.   *)
(***************************************************************************)
EXTENDS Naturals, FiniteSets

CONSTANTS
  Calls,        \* the requests
  Emails,       \* the addresses
  Founders,     \* the addresses that have an account from the start
  Roles,        \* the roles that requests name
  Local,        \* APP_ENV = "local": the bootstrap routes answer
  MaxInFlight,  \* bound: requests served at the same time
  None

RoleNames == {"owner", "admin", "reviewer", "viewer"}
Managers == {"owner", "admin"}

Ids == Calls \cup Emails

Account == [email : Emails, role : RoleNames]
Session == [user : Ids, under : Ids \cup {None}, revoked : BOOLEAN]
Invitation == [email : Emails, role : RoleNames, token : Ids,
               status : {"pending", "accepted", "revoked", "expired"}]
ResetToken == [user : Ids, status : {"pending", "used", "expired"}]

ASSUME AccountsAssumption ==
  /\ Calls \cap Emails = {}
  /\ Founders \subseteq Emails
  /\ Founders # {}
  /\ Roles \subseteq RoleNames
  /\ Local \in BOOLEAN
  /\ None \notin Ids \cup RoleNames
  /\ None \notin Account
  /\ None \notin Session
  /\ None \notin Invitation
  /\ None \notin ResetToken

VARIABLES
  users,        \* users: the account of an id, or None
  credential,   \* password_credentials: the request that set the password, or None
  sessions,     \* sessions; "under" is the password in force when it was inserted
  invitations,  \* invitations
  resets,       \* password_reset_tokens
  audit,        \* audit_events: those about the rows above
  call          \* the requests' progress

tables == <<users, credential, sessions, invitations, resets, audit>>
vars == <<users, credential, sessions, invitations, resets, audit, call>>

Existing == {u \in Ids : users[u] # None}
Admins == {u \in Existing : users[u].role \in Managers}
UserWithEmail(e) == {u \in Existing : users[u].email = e}

Event(a, by, of) == [action |-> a, actor |-> by, subject |-> of]
Audit(a, by, of) == audit' = audit \cup {Event(a, by, of)}
Happened(a, of) == \E e \in audit : e.action = a /\ e.subject = of

-----------------------------------------------------------------------------
(* A request: where it stands ("pc"), whom it acts for ("user"), the row it *)
(* has read and will write ("of"), what it has read or been given of it.    *)
Idle == [email |-> None, role |-> None, user |-> None, of |-> None,
         op |-> "none", pc |-> "idle", answer |-> "none", seen |-> None]

InFlight == {c \in Calls : call[c].pc \notin {"idle", "done"}}
CanStart(c) == call[c].pc = "idle" /\ Cardinality(InFlight) < MaxInFlight

At(c, o, p) == call[c].op = o /\ call[c].pc = p
Become(c, state) == call' = [call EXCEPT ![c] = state]
Answer(c, a) == Become(c, [call[c] EXCEPT !.pc = "done", !.answer = a])
Refuse(c, a) ==
  /\ Become(c, [Idle EXCEPT !.pc = "done", !.answer = a])
  /\ UNCHANGED tables

OpenSession(c, u, password) ==
  [user |-> u, under |-> password, revoked |-> FALSE]

\* Mutant: a new password leaves the sessions alone.
KeepSessions(u) == sessions

RevokedOf(u) ==
  [s \in Ids |-> IF sessions[s] # None /\ sessions[s].user = u
                   THEN [sessions[s] EXCEPT !.revoked = TRUE]
                   ELSE sessions[s]]

Init ==
  /\ users = [u \in Ids |->
       IF u \in Founders THEN [email |-> u, role |-> "admin"] ELSE None]
  /\ credential = [u \in Ids |-> IF u \in Founders THEN u ELSE None]
  /\ sessions = [s \in Ids |-> IF s \in Founders THEN OpenSession(s, s, s) ELSE None]
  /\ invitations = [i \in Ids |->
       IF i \in Emails \ Founders
         THEN [email |-> i, role |-> "admin", token |-> i, status |-> "pending"]
         ELSE None]
  /\ resets = [t \in Ids |->
       IF t \in Founders THEN [user |-> t, status |-> "pending"] ELSE None]
  /\ audit = {}
  /\ call = [c \in Calls |-> Idle]

-----------------------------------------------------------------------------
(* Signing in and out. *)

\* A wrong password and an unknown address get the same answer.
ReadLogin(c) ==
  /\ CanStart(c)
  /\ \/ Refuse(c, "invalid_credentials")
     \/ \E u \in Existing :
          /\ credential[u] # None
          /\ Become(c, [Idle EXCEPT !.op = "login", !.pc = "write", !.user = u])
          /\ UNCHANGED tables

WriteLogin(c) ==
  /\ At(c, "login", "write")
  /\ sessions' = [sessions EXCEPT ![c] =
       OpenSession(c, call[c].user, credential[call[c].user])]
  /\ Audit("login_succeeded", call[c].user, c)
  /\ Answer(c, "ok")
  /\ UNCHANGED <<users, credential, invitations, resets>>

Revoke(s) ==
  sessions' = [sessions EXCEPT ![s].revoked = TRUE]

Logout(c) ==
  /\ CanStart(c)
  /\ \E s \in Ids : sessions[s] # None /\ Revoke(s)
  /\ Answer(c, "ok")
  /\ UNCHANGED <<users, credential, invitations, resets, audit>>

\* readCurrentUser and requirePermission, which open every manager's request.  An
\* expired session is revoked on sight.
Authorize(c) ==
  /\ CanStart(c)
  /\ \E s \in Ids :
       /\ sessions[s] # None
       /\ ~sessions[s].revoked
       /\ sessions[s].user \in Existing
       /\ \/ /\ Revoke(s)
             /\ Answer(c, "unauthorized")
             /\ UNCHANGED <<users, credential, invitations, resets, audit>>
          \/ sessions[s].user \notin Admins /\ Refuse(c, "forbidden")
          \/ /\ sessions[s].user \in Admins
             /\ Become(c, [Idle EXCEPT !.op = "manage", !.pc = "authorized",
                                       !.user = sessions[s].user])
             /\ UNCHANGED tables

-----------------------------------------------------------------------------
(* Password reset. *)

\* An unknown address is answered like a known one.
ReadResetUser(c) ==
  /\ CanStart(c)
  /\ \/ Refuse(c, "ok")
     \/ \E u \in Existing :
          /\ Become(c, [Idle EXCEPT !.op = "reset", !.pc = "write", !.user = u])
          /\ UNCHANGED tables

WriteReset(c) ==
  /\ At(c, "reset", "write")
  /\ resets' = [resets EXCEPT ![c] = [user |-> call[c].user, status |-> "pending"]]
  /\ Audit("reset_requested", None, call[c].user)
  /\ Become(c, [call[c] EXCEPT !.pc = "mail"])
  /\ UNCHANGED <<users, credential, sessions, invitations>>

ReadResetToken(c) ==
  /\ CanStart(c)
  /\ \E t \in Ids :
       /\ resets[t] # None
       /\ \/ resets[t].status # "pending" /\ Refuse(c, "conflict")
          \/ /\ resets[t].status = "pending"
             /\ \E p \in {"write", "expire"} :
                  Become(c, [Idle EXCEPT !.op = "confirm", !.pc = p, !.of = t,
                                         !.user = resets[t].user])
             /\ UNCHANGED tables

\* Mutant: the expiry is written without looking at the status again.
ExpireAnyReset(c) ==
  /\ At(c, "confirm", "expire")
  /\ resets' = [t \in Ids |->
       IF t = call[c].of /\ resets[t] # None
         THEN [resets[t] EXCEPT !.status = "expired"] ELSE resets[t]]
  /\ Answer(c, "expired")
  /\ UNCHANGED <<users, credential, sessions, invitations, audit>>

ExpireReset(c) ==
  /\ At(c, "confirm", "expire")
  /\ resets' = [t \in Ids |->
       IF t = call[c].of /\ resets[t] # None /\ resets[t].status = "pending"
         THEN [resets[t] EXCEPT !.status = "expired"] ELSE resets[t]]
  /\ Answer(c, "expired")
  /\ UNCHANGED <<users, credential, sessions, invitations, audit>>

WriteConfirm(c) ==
  LET u == call[c].user IN
  /\ At(c, "confirm", "write")
  /\ credential' = [v \in Ids |->
       IF v = u /\ credential[v] # None THEN c ELSE credential[v]]
  /\ resets' = [t \in Ids |->
       IF t = call[c].of /\ resets[t] # None
         THEN [resets[t] EXCEPT !.status = "used"] ELSE resets[t]]
  /\ sessions' = RevokedOf(u)
  /\ Audit("reset_succeeded", u, call[c].of)
  /\ Answer(c, "ok")
  /\ UNCHANGED <<users, invitations>>

-----------------------------------------------------------------------------
(* Invitations. *)

\* A manager's invitation, or the local bootstrap's, which nobody signs.
WriteInvite(c) ==
  /\ \/ At(c, "manage", "authorized")
     \/ Local /\ CanStart(c)
  /\ \E e \in Emails, r \in Roles :
       invitations' = [invitations EXCEPT ![c] =
         [email |-> e, role |-> r, token |-> c, status |-> "pending"]]
  /\ Audit("invitation.created", call[c].user, c)
  /\ Become(c, [call[c] EXCEPT !.op = "invite", !.pc = "mail"])
  /\ UNCHANGED <<users, credential, sessions, resets>>

\* The link is sent after the rows are written; whether it arrives changes no row.
DeliverEmail(c) ==
  /\ call[c].pc = "mail"
  /\ Answer(c, "ok")
  /\ UNCHANGED tables

StatusFor(o) ==
  CASE o = "resend" -> {"pending", "expired"}
    [] o = "revoke" -> {"pending"}
    [] o = "remove" -> {"revoked"}

ReadInvitation(c) ==
  /\ At(c, "manage", "authorized")
  /\ \/ Refuse(c, "not_found")
     \/ \E i \in Ids, o \in {"resend", "revoke", "remove"} :
          /\ invitations[i] # None
          /\ \/ invitations[i].status \notin StatusFor(o) /\ Refuse(c, "conflict")
             \/ /\ invitations[i].status \in StatusFor(o)
                /\ Become(c, [call[c] EXCEPT !.op = o, !.pc = "write", !.of = i])
                /\ UNCHANGED tables

WriteResend(c) ==
  /\ At(c, "resend", "write")
  /\ invitations' = [i \in Ids |->
       IF i = call[c].of /\ invitations[i] # None
         THEN [invitations[i] EXCEPT !.status = "pending", !.token = c]
         ELSE invitations[i]]
  /\ Audit("invitation.resent", call[c].user, call[c].of)
  /\ Become(c, [call[c] EXCEPT !.pc = "mail"])
  /\ UNCHANGED <<users, credential, sessions, resets>>

\* Mutant: revocation and expiry without AND status = 'pending'.
WhateverStatus(i, status) ==
  [j \in Ids |->
     IF j = i /\ invitations[j] # None
       THEN [invitations[j] EXCEPT !.status = status] ELSE invitations[j]]

\* UPDATE ... WHERE id = ? AND status = 'pending', for a revocation and an expiry.
IfPending(i, status) ==
  [j \in Ids |->
     IF j = i /\ invitations[j] # None /\ invitations[j].status = "pending"
       THEN [invitations[j] EXCEPT !.status = status] ELSE invitations[j]]

WriteRevoke(c) ==
  /\ At(c, "revoke", "write")
  /\ invitations' = IfPending(call[c].of, "revoked")
  /\ Audit("invitation.revoked", call[c].user, call[c].of)
  /\ Answer(c, "ok")
  /\ UNCHANGED <<users, credential, sessions, resets>>

WriteRemove(c) ==
  /\ At(c, "remove", "write")
  /\ invitations' = [invitations EXCEPT ![call[c].of] = None]
  /\ Audit("invitation.deleted", call[c].user, call[c].of)
  /\ Answer(c, "ok")
  /\ UNCHANGED <<users, credential, sessions, resets>>

\* A link is looked up by its token: one that a resend has replaced is unknown.
ReadInvitationToken(c) ==
  /\ CanStart(c)
  /\ \E i \in Ids, t \in Ids :
       /\ invitations[i] # None
       /\ \/ invitations[i].token # t /\ Refuse(c, "not_found")
          \/ /\ invitations[i].token = t
             /\ invitations[i].status # "pending"
             /\ Refuse(c, "conflict")
          \/ /\ invitations[i].token = t
             /\ invitations[i].status = "pending"
             /\ \E p \in {"invited", "expire"} :
                  Become(c, [Idle EXCEPT !.op = "accept", !.pc = p, !.of = i,
                                         !.email = invitations[i].email,
                                         !.role = invitations[i].role])
             /\ UNCHANGED tables

ExpireInvitation(c) ==
  /\ At(c, "accept", "expire")
  /\ invitations' = IfPending(call[c].of, "expired")
  /\ Answer(c, "expired")
  /\ UNCHANGED <<users, credential, sessions, resets, audit>>

ReadInvitedUser(c) ==
  /\ At(c, "accept", "invited")
  /\ \/ UserWithEmail(call[c].email) # {} /\ Refuse(c, "conflict")
     \/ /\ UserWithEmail(call[c].email) = {}
        /\ Become(c, [call[c] EXCEPT !.pc = "write"])
        /\ UNCHANGED tables

\* Mutant: no UNIQUE on users.email.
NeverTaken(e) == FALSE

\* users.email is UNIQUE: the insert throws, and the batch with it.
EmailTaken(e) == UserWithEmail(e) # {}

InsertUser(c) ==
  /\ ~EmailTaken(call[c].email)
  /\ users' = [users EXCEPT ![c] = [email |-> call[c].email, role |-> call[c].role]]
  /\ credential' = [credential EXCEPT ![c] = c]
  /\ sessions' = [sessions EXCEPT ![c] = OpenSession(c, c, c)]

WriteAccept(c) ==
  /\ At(c, "accept", "write")
  /\ \/ EmailTaken(call[c].email) /\ Refuse(c, "error")
     \/ /\ InsertUser(c)
        /\ invitations' = [i \in Ids |->
             IF i = call[c].of /\ invitations[i] # None
               THEN [invitations[i] EXCEPT !.status = "accepted"]
               ELSE invitations[i]]
        /\ Audit("invitation.accepted", c, call[c].of)
        /\ Answer(c, "ok")
        /\ UNCHANGED resets

-----------------------------------------------------------------------------
(* Deleting a user. *)

ReadUser(c) ==
  /\ At(c, "manage", "authorized")
  /\ \/ Refuse(c, "conflict")           \* oneself
     \/ \E u \in Ids \ {call[c].user} :
          \/ users[u] = None /\ Refuse(c, "not_found")
          \/ /\ users[u] # None
             /\ Become(c, [call[c] EXCEPT !.op = "delete", !.of = u,
                  !.pc = IF u \in Admins THEN "remaining" ELSE "write"])
             /\ UNCHANGED tables

\* Mutant: the check for another administrator is left out.
SkipRemainingAdmin(c) ==
  /\ At(c, "delete", "remaining")
  /\ Become(c, [call[c] EXCEPT !.pc = "write"])
  /\ UNCHANGED tables

ReadRemainingAdmin(c) ==
  /\ At(c, "delete", "remaining")
  /\ \/ Admins \ {call[c].of} = {} /\ Refuse(c, "conflict")
     \/ \E w \in Admins \ {call[c].of} :
          /\ Become(c, [call[c] EXCEPT !.pc = "write", !.seen = w])
          /\ UNCHANGED tables

WriteDelete(c) ==
  LET u == call[c].of IN
  /\ At(c, "delete", "write")
  /\ users' = [users EXCEPT ![u] = None]
  /\ credential' = [credential EXCEPT ![u] = None]
  /\ sessions' = [s \in Ids |->
       IF sessions[s] # None /\ sessions[s].user = u THEN None ELSE sessions[s]]
  /\ resets' = [t \in Ids |->
       IF resets[t] # None /\ resets[t].user = u THEN None ELSE resets[t]]
  /\ Audit("user.deleted", call[c].user, u)
  /\ Answer(c, "ok")
  /\ UNCHANGED invitations

-----------------------------------------------------------------------------
(* The local bootstrap of an administrator or a reviewer. *)

ReadBootstrapUser(c) ==
  /\ Local
  /\ CanStart(c)
  /\ \E e \in Emails, r \in {"admin", "reviewer"}, u \in Ids \cup {None} :
       /\ IF UserWithEmail(e) = {} THEN u = None ELSE u \in UserWithEmail(e)
       /\ Become(c, [Idle EXCEPT !.op = "bootstrap", !.pc = "write",
                                 !.email = e, !.role = r, !.user = u])
       /\ UNCHANGED tables

\* Mutant: the user is upserted too.
UpsertUser(c, u) ==
  /\ users' = [users EXCEPT ![u] = [email |-> call[c].email, role |-> call[c].role]]
  /\ credential' = [credential EXCEPT ![u] = c]
  /\ sessions' = [RevokedOf(u) EXCEPT ![c] = OpenSession(c, u, c)]

\* The credential is upserted and the session inserted even if the user it was read
\* for has been deleted since.
RewriteUser(c, u) ==
  /\ users' = [v \in Ids |->
       IF v = u /\ users[v] # None THEN [users[v] EXCEPT !.role = call[c].role]
       ELSE users[v]]
  /\ credential' = [credential EXCEPT ![u] = c]
  /\ sessions' = [RevokedOf(u) EXCEPT ![c] = OpenSession(c, u, c)]

WriteBootstrap(c) ==
  LET u == call[c].user IN
  /\ At(c, "bootstrap", "write")
  /\ \/ u = None /\ EmailTaken(call[c].email) /\ Refuse(c, "error")
     \/ /\ \/ u = None /\ InsertUser(c)
           \/ u # None /\ RewriteUser(c, u)
        /\ Audit("user.bootstrapped", None, IF u = None THEN c ELSE u)
        /\ Answer(c, "ok")
        /\ UNCHANGED <<invitations, resets>>

-----------------------------------------------------------------------------
\* A D1 call throws, or the isolate is evicted: the batch has no effect and the
\* caller gets an error, as it does when the link's delivery cannot be recorded.
FailCall(c) ==
  /\ c \in InFlight
  /\ Refuse(c, "error")

AccountsStep(c) ==
  \/ ReadLogin(c) \/ WriteLogin(c) \/ Logout(c) \/ Authorize(c)
  \/ ReadResetUser(c) \/ WriteReset(c)
  \/ ReadResetToken(c) \/ ExpireReset(c) \/ WriteConfirm(c)
  \/ WriteInvite(c) \/ DeliverEmail(c) \/ ReadInvitation(c)
  \/ WriteResend(c) \/ WriteRevoke(c) \/ WriteRemove(c)
  \/ ReadInvitationToken(c) \/ ExpireInvitation(c)
  \/ ReadInvitedUser(c) \/ WriteAccept(c)
  \/ ReadUser(c) \/ ReadRemainingAdmin(c) \/ WriteDelete(c)
  \/ ReadBootstrapUser(c) \/ WriteBootstrap(c)
  \/ FailCall(c)

Next == \E c \in Calls : AccountsStep(c)

Spec == Init /\ [][Next]_vars

-----------------------------------------------------------------------------
CallState ==
  [op : {"none", "login", "manage", "reset", "confirm", "invite", "resend", "revoke",
         "remove", "accept", "delete", "bootstrap"},
   pc : {"idle", "write", "authorized", "expire", "mail", "invited", "remaining", "done"},
   answer : {"none", "ok", "invalid_credentials", "unauthorized", "forbidden",
             "conflict", "expired", "not_found", "error"},
   user : Ids \cup {None}, of : Ids \cup {None}, seen : Ids \cup {None},
   email : Emails \cup {None}, role : RoleNames \cup {None}]

Actions == {"login_succeeded", "reset_requested", "reset_succeeded", "invitation.created",
            "invitation.resent", "invitation.revoked", "invitation.deleted",
            "invitation.accepted", "user.deleted", "user.bootstrapped"}

\* The tables and the requests have their types.
AccountsTypeOK ==
  /\ users \in [Ids -> Account \cup {None}]
  /\ credential \in [Ids -> Ids \cup {None}]
  /\ sessions \in [Ids -> Session \cup {None}]
  /\ invitations \in [Ids -> Invitation \cup {None}]
  /\ resets \in [Ids -> ResetToken \cup {None}]
  /\ audit \subseteq [action : Actions, actor : Ids \cup {None}, subject : Ids]
  /\ call \in [Calls -> CallState]

\* However many invitations to one address are accepted at once, and whatever the
\* bootstrap does meanwhile, the address has one account.
OneAccountPerEmail ==
  \A u, v \in Existing : users[u].email = users[v].email => u = v

\* The audit tells who exists: an account that was founded, invited or bootstrapped is
\* there, with a credential, until the audit says it was deleted, and not after.
Provisioned(u) ==
  \/ u \in Founders
  \/ \E i \in Ids : Event("invitation.accepted", u, i) \in audit
  \/ Happened("user.bootstrapped", u)

AuditTellsWhoExists ==
  /\ \A u \in Ids : u \in Existing <=> Provisioned(u) /\ ~Happened("user.deleted", u)
  /\ \A u \in Existing : credential[u] # None

\* "Existing sessions revoke after password reset": no session that works is older
\* than its account's password, whether a reset or the bootstrap changed it.
SessionsAreYoungerThanPassword ==
  \A s \in Ids : sessions[s] # None /\ ~sessions[s].revoked =>
    sessions[s].under = credential[sessions[s].user]

\* A reset link says "used" exactly when a reset has been made with it, even when a
\* reset and the link's expiry overlap.
LinkTellsItsUse ==
  \A t \in Ids : resets[t] # None =>
    (resets[t].status = "used" <=> Happened("reset_succeeded", t))

\* An accepted invitation stays accepted, against revocations and expiries that read it
\* before; only a resend, which has no guard, may reopen it.
AcceptanceIsKept ==
  \A i \in Ids :
    /\ Happened("invitation.accepted", i)
    /\ invitations[i] # None
    /\ invitations[i].status # "accepted"
    => Happened("invitation.resent", i)

Deleted(d) == At(d, "delete", "done")

\* The check for a remaining administrator is defeated by another request only: when no
\* administrator is left and no bootstrap changed a role, a deletion went through
\* whose witness was deleted between its check and its write.
LastAdminFallsToARace ==
  Admins = {} =>
    \/ \E u \in Ids : Happened("user.bootstrapped", u)
    \/ \E d, e \in Calls :
         Deleted(d) /\ Deleted(e) /\ call[d].seen # None /\ call[d].seen = call[e].of

\* Sessions and credentials may outlive their account as rows: a login or a bootstrap
\* that read the account before its deletion still writes them.  They open nothing.
Password == [u \in Ids |-> IF users[u] # None THEN credential[u] ELSE None]

Works(s) ==
  /\ sessions[s] # None /\ ~sessions[s].revoked
  /\ users[sessions[s].user] # None

Live == [s \in Ids |-> IF Works(s) THEN sessions[s].user ELSE None]

Spent == {c \in Calls : call[c].pc \in {"mail", "done"}}

\* Whatever requests overlap, lose their row to another or fail: seen from the accounts
\* and the sessions that work, each request does one thing at once or nothing.
Directory ==
  INSTANCE UserDirectory WITH
    Requests <- Calls, Roles <- RoleNames,
    accounts <- users, password <- Password, live <- Live, spent <- Spent

ImplementsUserDirectory == Directory!DirectorySpec

\* What is over stays over: neither an account that was deleted nor a session that was
\* closed, revoked or lost its account works again, though rows of both may be written
\* later by requests that read it before.
OverStaysOver ==
  [][\A i \in Emails \cup Spent :
       /\ users[i] = None => users'[i] = None
       /\ Live[i] = None => Live'[i] = None]_vars

=============================================================================
