--------------------------- MODULE AccountsProofs ---------------------------
(***************************************************************************)
(* Proofs about Accounts for any requests, addresses, founders and roles.  *)
(***************************************************************************)
EXTENDS Accounts, TLAPS

\* Nothing names a request that has not yet written: its rows, the rows' owners, the
\* events and the other requests.
Unwritten(c) ==
  /\ users[c] = None /\ sessions[c] = None
  /\ invitations[c] = None /\ resets[c] = None
  /\ \A s \in Ids : sessions[s] # None => sessions[s].user # c
  /\ \A t \in Ids : resets[t] # None => resets[t].user # c
  /\ \A e \in audit : e.actor # c /\ e.subject # c

Unnamed(c) ==
  /\ Unwritten(c)
  /\ \A d \in Calls : call[d].user # c /\ call[d].of # c

FreshIds == \A c \in Calls : call[c].pc \notin {"mail", "done"} => Unnamed(c)

\* What a request holds at the places where it goes on to write.
Holds(c) ==
  /\ call[c].op \in {"login", "reset", "confirm", "manage", "resend", "revoke", "remove",
                     "delete"} => call[c].user \in Ids
  /\ call[c].op \in {"confirm", "resend", "revoke", "remove", "accept", "delete"} =>
       call[c].of \in Ids
  /\ call[c].op \in {"accept", "bootstrap"} =>
       call[c].email \in Emails /\ call[c].role \in RoleNames
  /\ call[c].op = "bootstrap" /\ call[c].user # None =>
       call[c].user \in Ids /\ Provisioned(call[c].user)

CallsHold == \A c \in Calls : Holds(c)

\* Of a deletion that has read its witness: the witness is another administrator, or
\* was deleted since; one that needed none is not about an administrator.
Bootstrapped == \E u \in Ids : Happened("user.bootstrapped", u)
Gone(u) == \E e \in Calls : Deleted(e) /\ call[e].of = u

Witnessed(d) ==
  At(d, "delete", "write") =>
    \/ Bootstrapped
    \/ call[d].of \notin Admins
    \/ /\ call[d].seen \in Ids /\ call[d].seen # call[d].of
       /\ call[d].seen \in Admins \/ Gone(call[d].seen)

DeletionsAreWitnessed == \A d \in Calls : Witnessed(d)

-----------------------------------------------------------------------------
Answers == {"none", "ok", "invalid_credentials", "unauthorized", "forbidden",
            "conflict", "expired", "not_found", "error"}

LEMMA IdleType == Idle \in CallState
BY AccountsAssumption DEF Idle, CallState

LEMMA BecomeType ==
  ASSUME AccountsTypeOK, NEW c \in Calls, NEW state \in CallState, Become(c, state)
  PROVE  call' \in [Calls -> CallState]
BY DEF AccountsTypeOK, Become

LEMMA AnswerType ==
  ASSUME AccountsTypeOK, NEW c \in Calls, NEW a \in Answers, Answer(c, a)
  PROVE  call' \in [Calls -> CallState]
<1>0. call[c] \in CallState
  BY DEF AccountsTypeOK
<1>1. [call[c] EXCEPT !.pc = "done", !.answer = a] \in CallState
  BY <1>0 DEF CallState, Answers
<1>2. QED
  BY <1>1, BecomeType DEF Answer

LEMMA RefuseType ==
  ASSUME AccountsTypeOK, NEW c \in Calls, NEW a \in Answers, Refuse(c, a)
  PROVE  AccountsTypeOK'
<1>1. [Idle EXCEPT !.pc = "done", !.answer = a] \in CallState
  BY IdleType DEF CallState, Answers
<1>2. call' \in [Calls -> CallState]
  BY <1>1, BecomeType DEF Refuse
<1>3. QED
  BY <1>2 DEF AccountsTypeOK, Refuse, tables

LEMMA AuditType ==
  ASSUME AccountsTypeOK, NEW a \in Actions, NEW by \in Ids \cup {None}, NEW of \in Ids,
         Audit(a, by, of)
  PROVE  audit' \subseteq [action : Actions, actor : Ids \cup {None}, subject : Ids]
BY DEF AccountsTypeOK, Audit, Event

LEMMA RevokeType ==
  ASSUME AccountsTypeOK, NEW s \in Ids, sessions[s] # None, Revoke(s)
  PROVE  sessions' \in [Ids -> Session \cup {None}]
<1>1. sessions[s] \in Session
  BY DEF AccountsTypeOK
<1>2. [sessions[s] EXCEPT !.revoked = TRUE] \in Session
  BY <1>1 DEF Session
<1>3. sessions' = [sessions EXCEPT ![s] = [sessions[s] EXCEPT !.revoked = TRUE]]
  BY DEF Revoke
<1>4. QED
  BY <1>2, <1>3 DEF AccountsTypeOK

LEMMA IfPendingType ==
  ASSUME AccountsTypeOK, NEW i, NEW status \in {"revoked", "expired"}
  PROVE  IfPending(i, status) \in [Ids -> Invitation \cup {None}]
BY DEF IfPending, AccountsTypeOK, Invitation

LEMMA InsertUserType ==
  ASSUME AccountsTypeOK, NEW c \in Calls, call[c].email \in Emails,
         call[c].role \in RoleNames, InsertUser(c)
  PROVE  /\ users' \in [Ids -> Account \cup {None}]
         /\ credential' \in [Ids -> Ids \cup {None}]
         /\ sessions' \in [Ids -> Session \cup {None}]
<1>1. c \in Ids
  BY DEF Ids
<1>2. OpenSession(c, c, c) \in Session
  BY <1>1 DEF OpenSession, Session
<1>3. [email |-> call[c].email, role |-> call[c].role] \in Account
  BY DEF Account
<1>4. QED
  BY <1>1, <1>2, <1>3 DEF InsertUser, AccountsTypeOK

LEMMA RewriteUserType ==
  ASSUME AccountsTypeOK, NEW c \in Calls, NEW u \in Ids, call[c].role \in RoleNames,
         RewriteUser(c, u)
  PROVE  /\ users' \in [Ids -> Account \cup {None}]
         /\ credential' \in [Ids -> Ids \cup {None}]
         /\ sessions' \in [Ids -> Session \cup {None}]
<1>1. c \in Ids
  BY DEF Ids
<1>2. OpenSession(c, u, c) \in Session
  BY <1>1 DEF OpenSession, Session
<1>3. RevokedOf(u) \in [Ids -> Session \cup {None}]
  BY DEF RevokedOf, AccountsTypeOK, Session
<1>4. sessions' \in [Ids -> Session \cup {None}]
  BY <1>1, <1>2, <1>3 DEF RewriteUser
<1>5. users' \in [Ids -> Account \cup {None}]
  BY DEF RewriteUser, AccountsTypeOK, Account
<1>6. QED
  BY <1>1, <1>4, <1>5 DEF RewriteUser, AccountsTypeOK

LEMMA InitType == Init => AccountsTypeOK
<1>1. SUFFICES ASSUME Init PROVE AccountsTypeOK
  OBVIOUS
<1>2. /\ users \in [Ids -> Account \cup {None}]
      /\ credential \in [Ids -> Ids \cup {None}]
      /\ sessions \in [Ids -> Session \cup {None}]
  BY <1>1, AccountsAssumption DEF Init, Ids, Account, Session, RoleNames, OpenSession
<1>3. /\ invitations \in [Ids -> Invitation \cup {None}]
      /\ resets \in [Ids -> ResetToken \cup {None}]
  BY <1>1, AccountsAssumption DEF Init, Ids, Invitation, ResetToken, RoleNames
<1>4. QED
  BY <1>1, <1>2, <1>3, IdleType DEF Init, AccountsTypeOK

LEMMA StepType ==
  ASSUME AccountsTypeOK, CallsHold, NEW c \in Calls, AccountsStep(c)
  PROVE  AccountsTypeOK'
<1> USE AccountsAssumption
<1>0. c \in Ids /\ call[c] \in CallState /\ Holds(c)
  BY DEF AccountsTypeOK, CallsHold, Ids
<1>1. ASSUME NEW state \in CallState, Become(c, state), UNCHANGED tables
      PROVE  AccountsTypeOK'
  BY <1>1, BecomeType DEF AccountsTypeOK, tables
<1>2. ASSUME NEW a \in Answers, Refuse(c, a) PROVE AccountsTypeOK'
  BY <1>2, RefuseType
<1>3. CASE ReadLogin(c)
  <2>1. ASSUME NEW u \in Ids
        PROVE  [Idle EXCEPT !.op = "login", !.pc = "write", !.user = u] \in CallState
    BY IdleType DEF CallState
  <2>2. QED
    BY <1>1, <1>2, <1>3, <2>1 DEF ReadLogin, Existing, Answers
<1>4. CASE WriteLogin(c)
  <2>1. call[c].user \in Ids
    BY <1>0, <1>4 DEF WriteLogin, At, Holds
  <2>2. OpenSession(c, call[c].user, credential[call[c].user]) \in Session
    BY <2>1 DEF OpenSession, Session, AccountsTypeOK
  <2>3. call' \in [Calls -> CallState]
    BY <1>4, AnswerType DEF WriteLogin, Answers
  <2>4. QED
    BY <1>0, <1>4, <2>1, <2>2, <2>3, AuditType DEF WriteLogin, AccountsTypeOK, Actions
<1>5. CASE Logout(c)
  <2>1. call' \in [Calls -> CallState]
    BY <1>5, AnswerType DEF Logout, Answers
  <2>2. PICK s \in Ids : sessions[s] # None /\ Revoke(s)
    BY <1>5 DEF Logout
  <2>3. sessions' \in [Ids -> Session \cup {None}]
    BY <2>2, RevokeType
  <2>4. QED
    BY <1>5, <2>1, <2>3 DEF Logout, AccountsTypeOK
<1>6. CASE Authorize(c)
  <2>1. PICK s \in Ids :
          /\ sessions[s] # None /\ sessions[s].user \in Existing
          /\ \/ /\ Revoke(s) /\ Answer(c, "unauthorized")
                /\ UNCHANGED <<users, credential, invitations, resets, audit>>
             \/ Refuse(c, "forbidden")
             \/ /\ Become(c, [Idle EXCEPT !.op = "manage", !.pc = "authorized",
                                          !.user = sessions[s].user])
                /\ UNCHANGED tables
    BY <1>6 DEF Authorize
  <2>2. CASE /\ Revoke(s) /\ Answer(c, "unauthorized")
             /\ UNCHANGED <<users, credential, invitations, resets, audit>>
    <3>1. call' \in [Calls -> CallState]
      BY <2>2, AnswerType DEF Answers
    <3>2. sessions' \in [Ids -> Session \cup {None}]
      BY <2>1, <2>2, RevokeType
    <3>3. QED
      BY <2>2, <3>1, <3>2 DEF AccountsTypeOK
  <2>3. [Idle EXCEPT !.op = "manage", !.pc = "authorized", !.user = sessions[s].user]
          \in CallState
    BY <2>1, IdleType DEF CallState, Existing
  <2>4. QED
    BY <1>1, <1>2, <2>1, <2>2, <2>3 DEF Answers
<1>7. CASE ReadResetUser(c)
  <2>1. ASSUME NEW u \in Ids
        PROVE  [Idle EXCEPT !.op = "reset", !.pc = "write", !.user = u] \in CallState
    BY IdleType DEF CallState
  <2>2. QED
    BY <1>1, <1>2, <1>7, <2>1 DEF ReadResetUser, Existing, Answers
<1>8. CASE WriteReset(c)
  <2>1. call[c].user \in Ids
    BY <1>0, <1>8 DEF WriteReset, At, Holds
  <2>2. [call[c] EXCEPT !.pc = "mail"] \in CallState
    BY <1>0 DEF CallState
  <2>3. [user |-> call[c].user, status |-> "pending"] \in ResetToken
    BY <2>1 DEF ResetToken
  <2>4. QED
    BY <1>0, <1>8, <2>1, <2>2, <2>3, AuditType, BecomeType
    DEF WriteReset, AccountsTypeOK, Actions
<1>9. CASE ReadResetToken(c)
  <2>1. ASSUME NEW t \in Ids, resets[t] # None, NEW p \in {"write", "expire"}
        PROVE  [Idle EXCEPT !.op = "confirm", !.pc = p, !.of = t, !.user = resets[t].user]
                 \in CallState
    BY <2>1, IdleType DEF CallState, AccountsTypeOK, ResetToken
  <2>2. QED
    BY <1>1, <1>2, <1>9, <2>1 DEF ReadResetToken, Answers
<1>10. CASE ExpireReset(c)
  <2>1. call' \in [Calls -> CallState]
    BY <1>10, AnswerType DEF ExpireReset, Answers
  <2>2. resets' \in [Ids -> ResetToken \cup {None}]
    BY <1>10 DEF ExpireReset, AccountsTypeOK, ResetToken
  <2>3. QED
    BY <1>10, <2>1, <2>2 DEF ExpireReset, AccountsTypeOK
<1>11. CASE WriteConfirm(c)
  <2>1. call[c].user \in Ids /\ call[c].of \in Ids
    BY <1>0, <1>11 DEF WriteConfirm, At, Holds
  <2>2. call' \in [Calls -> CallState]
    BY <1>11, AnswerType DEF WriteConfirm, Answers
  <2>3. resets' \in [Ids -> ResetToken \cup {None}]
    BY <1>11 DEF WriteConfirm, AccountsTypeOK, ResetToken
  <2>4. RevokedOf(call[c].user) \in [Ids -> Session \cup {None}]
    BY DEF RevokedOf, AccountsTypeOK, Session
  <2>5. credential' \in [Ids -> Ids \cup {None}]
    BY <1>0, <1>11 DEF WriteConfirm, AccountsTypeOK
  <2>6. audit' \subseteq [action : Actions, actor : Ids \cup {None}, subject : Ids]
    BY <1>11, <2>1, AuditType DEF WriteConfirm, Actions
  <2>7. QED
    BY <1>11, <2>2, <2>3, <2>4, <2>5, <2>6 DEF WriteConfirm, AccountsTypeOK
<1>12. CASE WriteInvite(c)
  <2>1. PICK e \in Emails, r \in Roles :
          invitations' = [invitations EXCEPT ![c] =
            [email |-> e, role |-> r, token |-> c, status |-> "pending"]]
    BY <1>12 DEF WriteInvite
  <2>2. [email |-> e, role |-> r, token |-> c, status |-> "pending"] \in Invitation
    BY <1>0 DEF Invitation
  <2>3. invitations' \in [Ids -> Invitation \cup {None}]
    BY <1>0, <2>1, <2>2 DEF AccountsTypeOK
  <2>4. [call[c] EXCEPT !.op = "invite", !.pc = "mail"] \in CallState
    BY <1>0 DEF CallState
  <2>5. call[c].user \in Ids \cup {None}
    BY <1>0 DEF CallState
  <2>6. audit' \subseteq [action : Actions, actor : Ids \cup {None}, subject : Ids]
    BY <1>0, <1>12, <2>5, AuditType DEF WriteInvite, Actions
  <2>7. call' \in [Calls -> CallState]
    BY <1>12, <2>4, BecomeType DEF WriteInvite
  <2>8. QED
    BY <1>12, <2>3, <2>6, <2>7 DEF WriteInvite, AccountsTypeOK
<1>13. CASE DeliverEmail(c)
  <2>1. call' \in [Calls -> CallState]
    BY <1>13, AnswerType DEF DeliverEmail, Answers
  <2>2. QED
    BY <1>13, <2>1 DEF DeliverEmail, AccountsTypeOK, tables
<1>14. CASE ReadInvitation(c)
  <2>1. ASSUME NEW i \in Ids, NEW o \in {"resend", "revoke", "remove"}
        PROVE  [call[c] EXCEPT !.op = o, !.pc = "write", !.of = i] \in CallState
    BY <1>0 DEF CallState
  <2>2. QED
    BY <1>1, <1>2, <1>14, <2>1 DEF ReadInvitation, Answers
<1>15. CASE WriteResend(c)
  <2>1. call[c].user \in Ids /\ call[c].of \in Ids
    BY <1>0, <1>15 DEF WriteResend, At, Holds
  <2>2. invitations' \in [Ids -> Invitation \cup {None}]
    <3>1. ASSUME NEW i \in Ids, invitations[i] # None
          PROVE  [invitations[i] EXCEPT !.status = "pending", !.token = c] \in Invitation
      BY <1>0, <3>1 DEF AccountsTypeOK, Invitation
    <3>2. QED
      BY <1>15, <3>1 DEF WriteResend, AccountsTypeOK
  <2>3. [call[c] EXCEPT !.pc = "mail"] \in CallState
    BY <1>0 DEF CallState
  <2>4. call' \in [Calls -> CallState]
    BY <1>15, <2>3, BecomeType DEF WriteResend
  <2>5. audit' \subseteq [action : Actions, actor : Ids \cup {None}, subject : Ids]
    BY <1>15, <2>1, AuditType DEF WriteResend, Actions
  <2>6. QED
    BY <1>15, <2>2, <2>4, <2>5 DEF WriteResend, AccountsTypeOK
<1>16. CASE WriteRevoke(c)
  <2>1. call[c].user \in Ids /\ call[c].of \in Ids
    BY <1>0, <1>16 DEF WriteRevoke, At, Holds
  <2>2. invitations' \in [Ids -> Invitation \cup {None}]
    BY <1>16, IfPendingType DEF WriteRevoke
  <2>3. call' \in [Calls -> CallState]
    BY <1>16, AnswerType DEF WriteRevoke, Answers
  <2>4. audit' \subseteq [action : Actions, actor : Ids \cup {None}, subject : Ids]
    BY <1>16, <2>1, AuditType DEF WriteRevoke, Actions
  <2>5. QED
    BY <1>16, <2>2, <2>3, <2>4 DEF WriteRevoke, AccountsTypeOK
<1>17. CASE WriteRemove(c)
  <2>1. call[c].user \in Ids /\ call[c].of \in Ids
    BY <1>0, <1>17 DEF WriteRemove, At, Holds
  <2>2. call' \in [Calls -> CallState]
    BY <1>17, AnswerType DEF WriteRemove, Answers
  <2>3. audit' \subseteq [action : Actions, actor : Ids \cup {None}, subject : Ids]
    BY <1>17, <2>1, AuditType DEF WriteRemove, Actions
  <2>4. QED
    BY <1>17, <2>2, <2>3 DEF WriteRemove, AccountsTypeOK
<1>18. CASE ReadInvitationToken(c)
  <2>1. ASSUME NEW i \in Ids, invitations[i] # None, NEW p \in {"invited", "expire"}
        PROVE  [Idle EXCEPT !.op = "accept", !.pc = p, !.of = i,
                            !.email = invitations[i].email,
                            !.role = invitations[i].role] \in CallState
    BY <2>1, IdleType DEF CallState, AccountsTypeOK, Invitation
  <2>2. QED
    BY <1>1, <1>2, <1>18, <2>1 DEF ReadInvitationToken, Answers
<1>19. CASE ExpireInvitation(c)
  <2>1. call' \in [Calls -> CallState]
    BY <1>19, AnswerType DEF ExpireInvitation, Answers
  <2>2. invitations' \in [Ids -> Invitation \cup {None}]
    BY <1>19, IfPendingType DEF ExpireInvitation
  <2>3. QED
    BY <1>19, <2>1, <2>2 DEF ExpireInvitation, AccountsTypeOK
<1>20. CASE ReadInvitedUser(c)
  <2>1. [call[c] EXCEPT !.pc = "write"] \in CallState
    BY <1>0 DEF CallState
  <2>2. QED
    BY <1>1, <1>2, <1>20, <2>1 DEF ReadInvitedUser, Answers
<1>21. CASE WriteAccept(c)
  <2>1. CASE Refuse(c, "error")
    BY <1>2, <2>1 DEF Answers
  <2>2. CASE /\ InsertUser(c)
             /\ invitations' = [i \in Ids |->
                  IF i = call[c].of /\ invitations[i] # None
                    THEN [invitations[i] EXCEPT !.status = "accepted"]
                    ELSE invitations[i]]
             /\ Audit("invitation.accepted", c, call[c].of)
             /\ Answer(c, "ok")
             /\ UNCHANGED resets
    <3>1. call[c].of \in Ids /\ call[c].email \in Emails /\ call[c].role \in RoleNames
      BY <1>0, <1>21 DEF WriteAccept, At, Holds
    <3>2. invitations' \in [Ids -> Invitation \cup {None}]
      BY <2>2 DEF AccountsTypeOK, Invitation
    <3>3. call' \in [Calls -> CallState]
      BY <2>2, AnswerType DEF Answers
    <3>4. audit' \subseteq [action : Actions, actor : Ids \cup {None}, subject : Ids]
      BY <1>0, <2>2, <3>1, AuditType DEF Actions
    <3>5. QED
      BY <2>2, <3>1, <3>2, <3>3, <3>4, InsertUserType DEF AccountsTypeOK
  <2>3. QED
    BY <1>21, <2>1, <2>2 DEF WriteAccept
<1>22. CASE ReadUser(c)
  <2>1. ASSUME NEW u \in Ids, NEW p \in {"remaining", "write"}
        PROVE  [call[c] EXCEPT !.op = "delete", !.of = u, !.pc = p] \in CallState
    BY <1>0 DEF CallState
  <2>2. QED
    BY <1>1, <1>2, <1>22, <2>1 DEF ReadUser, Answers
<1>23. CASE ReadRemainingAdmin(c)
  <2>1. ASSUME NEW w \in Ids
        PROVE  [call[c] EXCEPT !.pc = "write", !.seen = w] \in CallState
    BY <1>0 DEF CallState
  <2>2. QED
    BY <1>1, <1>2, <1>23, <2>1 DEF ReadRemainingAdmin, Answers, Admins, Existing
<1>24. CASE WriteDelete(c)
  <2>1. call[c].user \in Ids /\ call[c].of \in Ids
    BY <1>0, <1>24 DEF WriteDelete, At, Holds
  <2>2. call' \in [Calls -> CallState]
    BY <1>24, AnswerType DEF WriteDelete, Answers
  <2>3. audit' \subseteq [action : Actions, actor : Ids \cup {None}, subject : Ids]
    BY <1>24, <2>1, AuditType DEF WriteDelete, Actions
  <2>4. /\ users' \in [Ids -> Account \cup {None}]
        /\ credential' \in [Ids -> Ids \cup {None}]
        /\ sessions' \in [Ids -> Session \cup {None}]
        /\ resets' \in [Ids -> ResetToken \cup {None}]
    BY <1>24, <2>1 DEF WriteDelete, AccountsTypeOK
  <2>5. QED
    BY <1>24, <2>2, <2>3, <2>4 DEF WriteDelete, AccountsTypeOK
<1>25. CASE ReadBootstrapUser(c)
  <2>1. ASSUME NEW e \in Emails, NEW r \in {"admin", "reviewer"}, NEW u \in Ids \cup {None}
        PROVE  [Idle EXCEPT !.op = "bootstrap", !.pc = "write",
                            !.email = e, !.role = r, !.user = u] \in CallState
    BY IdleType DEF CallState, RoleNames
  <2>2. QED
    BY <1>1, <1>25, <2>1 DEF ReadBootstrapUser
<1>26. CASE WriteBootstrap(c)
  <2> DEFINE u == call[c].user
  <2>1. CASE Refuse(c, "error")
    BY <1>2, <2>1 DEF Answers
  <2>2. CASE /\ \/ u = None /\ InsertUser(c)
                \/ u # None /\ RewriteUser(c, u)
             /\ Audit("user.bootstrapped", None, IF u = None THEN c ELSE u)
             /\ Answer(c, "ok")
             /\ UNCHANGED <<invitations, resets>>
    <3>1. /\ call[c].email \in Emails /\ call[c].role \in RoleNames
          /\ u # None => u \in Ids
      BY <1>0, <1>26 DEF WriteBootstrap, At, Holds
    <3>2. call' \in [Calls -> CallState]
      BY <2>2, AnswerType DEF Answers
    <3>3. audit' \subseteq [action : Actions, actor : Ids \cup {None}, subject : Ids]
      BY <1>0, <2>2, <3>1, AuditType DEF Actions
    <3>4. QED
      BY <2>2, <3>1, <3>2, <3>3, InsertUserType, RewriteUserType DEF AccountsTypeOK
  <2>3. QED
    BY <1>26, <2>1, <2>2 DEF WriteBootstrap
<1>27. CASE FailCall(c)
  BY <1>2, <1>27 DEF FailCall, Answers
<1>28. QED
  BY <1>3, <1>4, <1>5, <1>6, <1>7, <1>8, <1>9, <1>10, <1>11, <1>12, <1>13, <1>14, <1>15,
     <1>16, <1>17, <1>18, <1>19, <1>20, <1>21, <1>22, <1>23, <1>24, <1>25, <1>26, <1>27
  DEF AccountsStep

-----------------------------------------------------------------------------
\* What every step leaves alone.

Accounting == {"invitation.accepted", "user.deleted", "user.bootstrapped"}
Elsewhere ==
  /\ UNCHANGED <<users, credential>>
  /\ \/ UNCHANGED audit
     \/ \E a \in Actions \ Accounting, by \in Ids \cup {None}, of \in Ids : Audit(a, by, of)

LEMMA StepKinds ==
  ASSUME AccountsTypeOK, CallsHold, NEW c \in Calls, AccountsStep(c)
  PROVE  Elsewhere \/ WriteConfirm(c) \/ WriteAccept(c) \/ WriteDelete(c) \/ WriteBootstrap(c)
<1>0. c \in Ids /\ call[c] \in CallState /\ Holds(c)
  BY DEF AccountsTypeOK, CallsHold, Ids
<1>1. CASE UNCHANGED tables
  BY <1>1 DEF tables, Elsewhere
<1>2. CASE WriteLogin(c)
  <2>1. call[c].user \in Ids
    BY <1>0, <1>2 DEF WriteLogin, At, Holds
  <2>2. QED
    BY <1>0, <1>2, <2>1 DEF WriteLogin, Elsewhere, Actions, Accounting
<1>3. CASE WriteReset(c)
  <2>1. call[c].user \in Ids
    BY <1>0, <1>3 DEF WriteReset, At, Holds
  <2>2. QED
    BY <1>0, <1>3, <2>1 DEF WriteReset, Elsewhere, Actions, Accounting
<1>4. CASE WriteInvite(c)
  <2>1. call[c].user \in Ids \cup {None}
    BY <1>0 DEF CallState
  <2>2. QED
    BY <1>0, <1>4, <2>1 DEF WriteInvite, Elsewhere, Actions, Accounting
<1>5. CASE WriteResend(c) \/ WriteRevoke(c) \/ WriteRemove(c)
  <2>1. call[c].user \in Ids /\ call[c].of \in Ids
    BY <1>0, <1>5 DEF WriteResend, WriteRevoke, WriteRemove, At, Holds
  <2>2. QED
    BY <1>0, <1>5, <2>1 DEF WriteResend, WriteRevoke, WriteRemove, Elsewhere, Actions, Accounting
<1>6. CASE Logout(c) \/ ExpireReset(c) \/ ExpireInvitation(c)
  BY <1>6 DEF Logout, ExpireReset, ExpireInvitation, Elsewhere
<1>7. CASE Authorize(c)
  BY <1>7 DEF Authorize, Refuse, tables, Elsewhere
<1>8. CASE \/ ReadLogin(c) \/ ReadResetUser(c) \/ ReadResetToken(c) \/ DeliverEmail(c)
           \/ ReadInvitation(c) \/ ReadInvitationToken(c) \/ ReadInvitedUser(c)
           \/ ReadUser(c) \/ ReadRemainingAdmin(c) \/ ReadBootstrapUser(c) \/ FailCall(c)
  <2>1. UNCHANGED tables
    BY <1>8 DEF ReadLogin, ReadResetUser, ReadResetToken, DeliverEmail, ReadInvitation,
      ReadInvitationToken, ReadInvitedUser, ReadUser, ReadRemainingAdmin,
      ReadBootstrapUser, FailCall, Refuse
  <2>2. QED
    BY <1>1, <2>1
<1>9. QED
  BY <1>2, <1>3, <1>4, <1>5, <1>6, <1>7, <1>8 DEF AccountsStep

LEMMA AuditGrows ==
  ASSUME AccountsTypeOK, CallsHold, NEW c \in Calls, AccountsStep(c)
  PROVE  audit \subseteq audit'
<1>1. CASE Elsewhere
  BY <1>1 DEF Elsewhere, Audit
<1>2. CASE WriteConfirm(c) \/ WriteAccept(c) \/ WriteDelete(c) \/ WriteBootstrap(c)
  BY <1>2 DEF WriteConfirm, WriteAccept, WriteDelete, WriteBootstrap, Refuse, tables, Audit
<1>3. QED
  BY <1>1, <1>2, StepKinds

LEMMA OthersWait ==
  ASSUME AccountsTypeOK, NEW c \in Calls, AccountsStep(c)
  PROVE  \E state : Become(c, state)
BY DEF AccountsStep, ReadLogin, WriteLogin, Logout, Authorize, ReadResetUser, WriteReset,
  ReadResetToken, ExpireReset, WriteConfirm, WriteInvite, DeliverEmail, ReadInvitation,
  WriteResend, WriteRevoke, WriteRemove, ReadInvitationToken, ExpireInvitation,
  ReadInvitedUser, WriteAccept, ReadUser, ReadRemainingAdmin, WriteDelete,
  ReadBootstrapUser, WriteBootstrap, FailCall, Refuse, Answer

LEMMA OthersUnchanged ==
  ASSUME AccountsTypeOK, NEW c \in Calls, AccountsStep(c), NEW d \in Calls, d # c
  PROVE  call'[d] = call[d]
BY OthersWait DEF Become, AccountsTypeOK

-----------------------------------------------------------------------------
\* What the requests hold, fresh names, and the audit that tells who exists: each
\* needs the others.

Core == AccountsTypeOK /\ FreshIds /\ CallsHold /\ AuditTellsWhoExists

LEMMA HoldsStep ==
  ASSUME Core, NEW c \in Calls, AccountsStep(c)
  PROVE  CallsHold'
<1> USE AccountsAssumption
<1>0. AccountsTypeOK /\ CallsHold /\ AuditTellsWhoExists
  BY DEF Core
<1>1. audit \subseteq audit'
  BY <1>0, AuditGrows
<1>2. ASSUME NEW u, Provisioned(u) PROVE Provisioned(u)'
  BY <1>1, <1>2 DEF Provisioned, Happened
<1>3. ASSUME NEW d \in Calls, d # c PROVE Holds(d)'
  <2>1. call'[d] = call[d] /\ Holds(d)
    BY <1>0, <1>3, OthersUnchanged DEF CallsHold
  <2>2. QED
    BY <1>2, <2>1 DEF Holds
<1>4. SUFFICES Holds(c)'
  BY <1>3 DEF CallsHold
<1>5. call[c] \in CallState /\ Holds(c)
  BY <1>0 DEF AccountsTypeOK, CallsHold
<1>6. ASSUME NEW a, Refuse(c, a) PROVE Holds(c)'
  <2>1. call'[c].op = "none"
    BY <1>0, <1>6, IdleType DEF Refuse, Become, AccountsTypeOK, CallState, Idle
  <2>2. QED
    BY <2>1 DEF Holds
<1>7. ASSUME NEW p, NEW a, Become(c, [call[c] EXCEPT !.pc = p, !.answer = a])
      PROVE  Holds(c)'
  <2>1. /\ call'[c].op = call[c].op /\ call'[c].user = call[c].user
        /\ call'[c].of = call[c].of
        /\ call'[c].email = call[c].email /\ call'[c].role = call[c].role
    BY <1>0, <1>5, <1>7 DEF Become, AccountsTypeOK, CallState
  <2>2. QED
    BY <1>2, <1>5, <2>1 DEF Holds
<1>8. ASSUME NEW p, Become(c, [call[c] EXCEPT !.pc = p]) PROVE Holds(c)'
  <2>1. [call[c] EXCEPT !.pc = p] = [call[c] EXCEPT !.pc = p, !.answer = call[c].answer]
    BY <1>5 DEF CallState
  <2>2. QED
    BY <1>7, <1>8, <2>1
<1>9. ASSUME NEW a, Answer(c, a) PROVE Holds(c)'
  BY <1>7, <1>9 DEF Answer
<1>10. ASSUME NEW s \in CallState, Become(c, s),
             s.op \in {"login", "reset", "manage"}, s.user \in Ids
      PROVE  Holds(c)'
  <2>1. call'[c] = s
    BY <1>0, <1>10 DEF Become, AccountsTypeOK
  <2>2. QED
    BY <1>10, <2>1 DEF Holds
<1>11. CASE \/ WriteLogin(c) \/ Logout(c) \/ ExpireReset(c) \/ WriteConfirm(c)
            \/ DeliverEmail(c) \/ WriteRevoke(c) \/ WriteRemove(c)
            \/ ExpireInvitation(c) \/ WriteDelete(c)
  BY <1>9, <1>11 DEF WriteLogin, Logout, ExpireReset, WriteConfirm, DeliverEmail,
    WriteRevoke, WriteRemove, ExpireInvitation, WriteDelete
<1>12. CASE WriteAccept(c) \/ WriteBootstrap(c)
  BY <1>6, <1>9, <1>12 DEF WriteAccept, WriteBootstrap
<1>13. CASE WriteReset(c) \/ WriteResend(c) \/ ReadInvitedUser(c)
  BY <1>6, <1>8, <1>13 DEF WriteReset, WriteResend, ReadInvitedUser
<1>14. CASE ReadLogin(c) \/ ReadResetUser(c)
  <2>1. ASSUME NEW u \in Ids, NEW o \in {"login", "reset"}
        PROVE  [Idle EXCEPT !.op = o, !.pc = "write", !.user = u] \in CallState
    BY IdleType DEF CallState
  <2>2. ASSUME NEW u \in Existing, NEW o \in {"login", "reset"},
               Become(c, [Idle EXCEPT !.op = o, !.pc = "write", !.user = u])
        PROVE  Holds(c)'
    BY <1>10, <2>1, <2>2 DEF Existing, Idle
  <2>3. QED
    BY <1>6, <1>14, <2>2 DEF ReadLogin, ReadResetUser
<1>15. CASE Authorize(c)
  <2>1. ASSUME NEW s \in Ids, sessions[s] # None, sessions[s].user \in Existing,
               Become(c, [Idle EXCEPT !.op = "manage", !.pc = "authorized",
                                      !.user = sessions[s].user])
        PROVE  Holds(c)'
    <3>1. sessions[s].user \in Ids
      BY <2>1 DEF Existing
    <3>2. [Idle EXCEPT !.op = "manage", !.pc = "authorized", !.user = sessions[s].user]
            \in CallState
      BY <3>1, IdleType DEF CallState
    <3>3. QED
      BY <1>10, <2>1, <3>1, <3>2 DEF Idle
  <2>2. QED
    BY <1>6, <1>9, <1>15, <2>1 DEF Authorize
<1>16. CASE ReadResetToken(c)
  <2>1. ASSUME NEW t \in Ids, resets[t] # None, NEW p,
               Become(c, [Idle EXCEPT !.op = "confirm", !.pc = p, !.of = t,
                                      !.user = resets[t].user])
        PROVE  Holds(c)'
    <3>1. resets[t].user \in Ids
      BY <1>0, <2>1 DEF AccountsTypeOK, ResetToken
    <3>2. call'[c].op = "confirm" /\ call'[c].of = t /\ call'[c].user = resets[t].user
      BY <1>0, <2>1 DEF Become, AccountsTypeOK, Idle
    <3>3. QED
      BY <3>1, <3>2 DEF Holds
  <2>2. QED
    BY <1>6, <1>16, <2>1 DEF ReadResetToken
<1>17. CASE WriteInvite(c)
  <2>1. call'[c].op = "invite"
    BY <1>0, <1>5, <1>17 DEF WriteInvite, Become, AccountsTypeOK, CallState
  <2>2. QED
    BY <2>1 DEF Holds
<1>18. CASE ReadInvitation(c)
  <2>1. call[c].user \in Ids
    BY <1>5, <1>18 DEF ReadInvitation, At, Holds
  <2>2. ASSUME NEW i \in Ids, NEW o \in {"resend", "revoke", "remove"},
               Become(c, [call[c] EXCEPT !.op = o, !.pc = "write", !.of = i])
        PROVE  Holds(c)'
    <3>1. call'[c].op = o /\ call'[c].of = i /\ call'[c].user = call[c].user
      BY <1>0, <1>5, <2>2 DEF Become, AccountsTypeOK, CallState
    <3>2. QED
      BY <2>1, <3>1 DEF Holds
  <2>3. QED
    BY <1>6, <1>18, <2>2 DEF ReadInvitation
<1>19. CASE ReadInvitationToken(c)
  <2>1. ASSUME NEW i \in Ids, invitations[i] # None, NEW p,
               Become(c, [Idle EXCEPT !.op = "accept", !.pc = p, !.of = i,
                                      !.email = invitations[i].email,
                                      !.role = invitations[i].role])
        PROVE  Holds(c)'
    <3>1. invitations[i].email \in Emails /\ invitations[i].role \in RoleNames
      BY <1>0, <2>1 DEF AccountsTypeOK, Invitation
    <3>2. /\ call'[c].op = "accept" /\ call'[c].of = i
          /\ call'[c].email = invitations[i].email /\ call'[c].role = invitations[i].role
      BY <1>0, <2>1 DEF Become, AccountsTypeOK, Idle
    <3>3. QED
      BY <3>1, <3>2 DEF Holds
  <2>2. QED
    BY <1>6, <1>19, <2>1 DEF ReadInvitationToken
<1>20. CASE ReadUser(c)
  <2>1. call[c].user \in Ids
    BY <1>5, <1>20 DEF ReadUser, At, Holds
  <2>2. ASSUME NEW u \in Ids, NEW p,
               Become(c, [call[c] EXCEPT !.op = "delete", !.of = u, !.pc = p])
        PROVE  Holds(c)'
    <3>1. call'[c].op = "delete" /\ call'[c].of = u /\ call'[c].user = call[c].user
      BY <1>0, <1>5, <2>2 DEF Become, AccountsTypeOK, CallState
    <3>2. QED
      BY <2>1, <3>1 DEF Holds
  <2>3. QED
    BY <1>6, <1>20, <2>2 DEF ReadUser
<1>21. CASE ReadRemainingAdmin(c)
  <2>1. ASSUME NEW w, Become(c, [call[c] EXCEPT !.pc = "write", !.seen = w])
        PROVE  Holds(c)'
    <3>1. /\ call'[c].op = call[c].op /\ call'[c].user = call[c].user
          /\ call'[c].of = call[c].of
          /\ call'[c].email = call[c].email /\ call'[c].role = call[c].role
      BY <1>0, <1>5, <2>1 DEF Become, AccountsTypeOK, CallState
    <3>2. QED
      BY <1>2, <1>5, <3>1 DEF Holds
  <2>2. QED
    BY <1>6, <1>21, <2>1 DEF ReadRemainingAdmin
<1>22. CASE ReadBootstrapUser(c)
  <2>1. PICK e \in Emails, r \in {"admin", "reviewer"}, u \in Ids \cup {None} :
          /\ IF UserWithEmail(e) = {} THEN u = None ELSE u \in UserWithEmail(e)
          /\ Become(c, [Idle EXCEPT !.op = "bootstrap", !.pc = "write",
                                    !.email = e, !.role = r, !.user = u])
    BY <1>22 DEF ReadBootstrapUser
  <2>2. /\ call'[c].op = "bootstrap" /\ call'[c].user = u
        /\ call'[c].email = e /\ call'[c].role = r
    BY <1>0, <2>1 DEF Become, AccountsTypeOK, Idle
  <2>3. u # None => u \in Ids /\ Provisioned(u)
    BY <1>0, <2>1 DEF UserWithEmail, Existing, AuditTellsWhoExists
  <2>4. QED
    BY <1>2, <2>2, <2>3 DEF Holds, RoleNames
<1>23. CASE FailCall(c)
  BY <1>6, <1>23 DEF FailCall
<1>24. QED
  BY <1>11, <1>12, <1>13, <1>14, <1>15, <1>16, <1>17, <1>18, <1>19, <1>20, <1>21, <1>22,
     <1>23 DEF AccountsStep

LEMMA BecomeNames ==
  ASSUME AccountsTypeOK, NEW c \in Calls, NEW state, Become(c, state)
  PROVE  call'[c] = state
BY DEF Become, AccountsTypeOK

\* A step takes on no name that nothing names.
LEMMA NamesStep ==
  ASSUME AccountsTypeOK, NEW c \in Calls, AccountsStep(c), NEW d \in Calls, Unnamed(d)
  PROVE  call'[c].user # d /\ call'[c].of # d
<1> USE AccountsAssumption
<1>1. /\ call[c] \in CallState /\ call[c].user # d /\ call[c].of # d /\ d # None
      /\ d \notin Existing
  BY DEF AccountsTypeOK, Unnamed, Unwritten, Existing, Ids
<1>2. ASSUME NEW p, NEW a, Become(c, [call[c] EXCEPT !.pc = p, !.answer = a])
      PROVE  call'[c].user # d /\ call'[c].of # d
  <2>1. call'[c] = [call[c] EXCEPT !.pc = p, !.answer = a]
    BY <1>2, BecomeNames
  <2>2. QED
    BY <1>1, <2>1 DEF CallState
<1>3. ASSUME NEW p, Become(c, [call[c] EXCEPT !.pc = p])
      PROVE  call'[c].user # d /\ call'[c].of # d
  BY <1>1, <1>3, BecomeNames DEF CallState
<1>4. ASSUME NEW a, Refuse(c, a)
      PROVE  call'[c].user # d /\ call'[c].of # d
  <2>1. call'[c] = [Idle EXCEPT !.pc = "done", !.answer = a]
    BY <1>4, BecomeNames DEF Refuse
  <2>2. QED
    BY <1>1, <2>1 DEF Idle
<1>5. ASSUME NEW a, Answer(c, a)
      PROVE  call'[c].user # d /\ call'[c].of # d
  BY <1>2, <1>5 DEF Answer
<1>6. ASSUME NEW u \in Existing, NEW o, NEW p,
             Become(c, [Idle EXCEPT !.op = o, !.pc = p, !.user = u])
      PROVE  call'[c].user # d /\ call'[c].of # d
  BY <1>1, <1>6, BecomeNames DEF Idle
<1>7. ASSUME NEW x, x # d, NEW o, NEW p, Become(c, [call[c] EXCEPT !.op = o, !.pc = p, !.of = x])
      PROVE  call'[c].user # d /\ call'[c].of # d
  <2>1. call'[c] = [call[c] EXCEPT !.op = o, !.pc = p, !.of = x]
    BY <1>7, BecomeNames
  <2>2. QED
    BY <1>1, <1>7, <2>1 DEF CallState
<1>8. CASE \/ WriteLogin(c) \/ Logout(c) \/ ExpireReset(c) \/ WriteConfirm(c)
           \/ DeliverEmail(c) \/ WriteRevoke(c) \/ WriteRemove(c)
           \/ ExpireInvitation(c) \/ WriteDelete(c)
  BY <1>5, <1>8 DEF WriteLogin, Logout, ExpireReset, WriteConfirm, DeliverEmail,
    WriteRevoke, WriteRemove, ExpireInvitation, WriteDelete
<1>9. CASE WriteAccept(c) \/ WriteBootstrap(c) \/ FailCall(c)
  BY <1>4, <1>5, <1>9 DEF WriteAccept, WriteBootstrap, FailCall
<1>10. CASE WriteReset(c) \/ WriteResend(c) \/ ReadInvitedUser(c)
  BY <1>3, <1>4, <1>10 DEF WriteReset, WriteResend, ReadInvitedUser
<1>11. CASE ReadLogin(c) \/ ReadResetUser(c)
  BY <1>4, <1>6, <1>11 DEF ReadLogin, ReadResetUser
<1>12. CASE Authorize(c)
  BY <1>4, <1>5, <1>6, <1>12 DEF Authorize
<1>13. CASE ReadResetToken(c)
  <2>1. ASSUME NEW t \in Ids, resets[t] # None, NEW p,
               Become(c, [Idle EXCEPT !.op = "confirm", !.pc = p, !.of = t,
                                      !.user = resets[t].user])
        PROVE  call'[c].user # d /\ call'[c].of # d
    <3>1. resets[t].user # d /\ t # d
      BY <2>1 DEF Unnamed, Unwritten
    <3>2. call'[c].user = resets[t].user /\ call'[c].of = t
      BY <2>1, BecomeNames DEF Idle
    <3>3. QED
      BY <3>1, <3>2
  <2>2. QED
    BY <1>4, <1>13, <2>1 DEF ReadResetToken
<1>14. CASE WriteInvite(c)
  <2>1. call'[c].user = call[c].user /\ call'[c].of = call[c].of
    <3>1. call'[c] = [call[c] EXCEPT !.op = "invite", !.pc = "mail"]
      BY <1>14, BecomeNames DEF WriteInvite
    <3>2. QED
      BY <1>1, <3>1 DEF CallState
  <2>2. QED
    BY <1>1, <2>1
<1>15. CASE ReadInvitation(c)
  <2>1. ASSUME NEW i \in Ids, invitations[i] # None PROVE i # d
    BY <2>1 DEF Unnamed, Unwritten
  <2>2. QED
    BY <1>4, <1>7, <1>15, <2>1 DEF ReadInvitation
<1>16. CASE ReadInvitationToken(c)
  <2>1. ASSUME NEW i \in Ids, invitations[i] # None, NEW p,
               Become(c, [Idle EXCEPT !.op = "accept", !.pc = p, !.of = i,
                                      !.email = invitations[i].email,
                                      !.role = invitations[i].role])
        PROVE  call'[c].user # d /\ call'[c].of # d
    <3>1. i # d
      BY <2>1 DEF Unnamed, Unwritten
    <3>2. call'[c].user = None /\ call'[c].of = i
      BY <2>1, BecomeNames DEF Idle
    <3>3. QED
      BY <1>1, <3>1, <3>2
  <2>2. QED
    BY <1>4, <1>16, <2>1 DEF ReadInvitationToken
<1>17. CASE ReadUser(c)
  <2>1. ASSUME NEW u \in Ids, users[u] # None PROVE u # d
    BY <2>1 DEF Unnamed, Unwritten
  <2>2. ASSUME NEW u \in Ids, users[u] # None, NEW p,
               Become(c, [call[c] EXCEPT !.op = "delete", !.of = u, !.pc = p])
        PROVE  call'[c].user # d /\ call'[c].of # d
    <3>1. call'[c] = [call[c] EXCEPT !.op = "delete", !.of = u, !.pc = p]
      BY <2>2, BecomeNames
    <3>2. QED
      BY <1>1, <2>1, <2>2, <3>1 DEF CallState
  <2>3. QED
    BY <1>4, <1>17, <2>2 DEF ReadUser
<1>18. CASE ReadRemainingAdmin(c)
  <2>1. ASSUME NEW w, Become(c, [call[c] EXCEPT !.pc = "write", !.seen = w])
        PROVE  call'[c].user # d /\ call'[c].of # d
    <3>1. call'[c] = [call[c] EXCEPT !.pc = "write", !.seen = w]
      BY <2>1, BecomeNames
    <3>2. QED
      BY <1>1, <3>1 DEF CallState
  <2>2. QED
    BY <1>4, <1>18, <2>1 DEF ReadRemainingAdmin
<1>19. CASE ReadBootstrapUser(c)
  <2>1. PICK e \in Emails, r \in {"admin", "reviewer"}, u \in Ids \cup {None} :
          /\ IF UserWithEmail(e) = {} THEN u = None ELSE u \in UserWithEmail(e)
          /\ Become(c, [Idle EXCEPT !.op = "bootstrap", !.pc = "write",
                                    !.email = e, !.role = r, !.user = u])
    BY <1>19 DEF ReadBootstrapUser
  <2>2. u # d
    BY <1>1, <2>1 DEF UserWithEmail
  <2>3. call'[c].user = u /\ call'[c].of = None
    BY <2>1, BecomeNames DEF Idle
  <2>4. QED
    BY <1>1, <2>2, <2>3
<1>20. QED
  BY <1>8, <1>9, <1>10, <1>11, <1>12, <1>13, <1>14, <1>15, <1>16, <1>17, <1>18, <1>19
  DEF AccountsStep

\* A step writes no row or event that names another request nothing names.
LEMMA UnwrittenStep ==
  ASSUME AccountsTypeOK, CallsHold, NEW c \in Calls, AccountsStep(c),
         NEW d \in Calls, d # c, Unnamed(d)
  PROVE  Unwritten(d)'
<1> USE AccountsAssumption
<1>1. /\ Unwritten(d) /\ call[c].user # d /\ call[c].of # d /\ d # None
      /\ c \in Ids /\ d \in Ids /\ c # d
  BY DEF Unnamed, Ids
<1>2. CASE UNCHANGED tables
  BY <1>1, <1>2 DEF tables, Unwritten
<1>3. CASE WriteLogin(c)
  BY <1>1, <1>3 DEF WriteLogin, Unwritten, OpenSession, Audit, Event, AccountsTypeOK
<1>4. ASSUME NEW s \in Ids, sessions[s] # None, Revoke(s)
      PROVE  /\ sessions'[d] = None
             /\ \A t \in Ids : sessions'[t] # None => sessions'[t].user # d
  <2>1. sessions[s] \in Session /\ sessions[s].user # d /\ s # d
    BY <1>1, <1>4 DEF AccountsTypeOK, Unwritten
  <2>2. [sessions[s] EXCEPT !.revoked = TRUE].user = sessions[s].user
    BY <2>1 DEF Session
  <2>3. sessions' = [sessions EXCEPT ![s] = [sessions[s] EXCEPT !.revoked = TRUE]]
    BY <1>4 DEF Revoke
  <2>4. QED
    BY <1>1, <2>1, <2>2, <2>3 DEF AccountsTypeOK, Unwritten
<1>5. CASE Logout(c)
  BY <1>1, <1>4, <1>5 DEF Logout, Unwritten
<1>6. CASE Authorize(c)
  BY <1>1, <1>2, <1>4, <1>6 DEF Authorize, Refuse, Unwritten
<1>7. CASE WriteReset(c)
  BY <1>1, <1>7 DEF WriteReset, Unwritten, Audit, Event, AccountsTypeOK
<1>8. CASE ExpireReset(c)
  BY <1>1, <1>8 DEF ExpireReset, Unwritten, AccountsTypeOK, ResetToken
<1>9. ASSUME NEW u
      PROVE  \A s \in Ids : /\ RevokedOf(u)[s] = None <=> sessions[s] = None
                            /\ RevokedOf(u)[s] # None => RevokedOf(u)[s].user = sessions[s].user
  BY DEF RevokedOf, AccountsTypeOK, Session
<1>10. CASE WriteConfirm(c)
  <2>1. /\ resets'[d] = None
        /\ \A t \in Ids : resets'[t] # None => resets'[t].user # d
    BY <1>1, <1>10 DEF WriteConfirm, Unwritten, AccountsTypeOK, ResetToken
  <2>2. /\ sessions'[d] = None
        /\ \A t \in Ids : sessions'[t] # None => sessions'[t].user # d
    BY <1>1, <1>9, <1>10 DEF WriteConfirm, Unwritten
  <2>3. \A e \in audit' : e.actor # d /\ e.subject # d
    BY <1>1, <1>10 DEF WriteConfirm, Unwritten, Audit, Event
  <2>4. QED
    BY <1>1, <1>10, <2>1, <2>2, <2>3 DEF WriteConfirm, Unwritten
<1>11. CASE WriteInvite(c)
  BY <1>1, <1>11 DEF WriteInvite, Unwritten, Audit, Event, AccountsTypeOK
<1>12. CASE WriteResend(c) \/ WriteRevoke(c) \/ WriteRemove(c)
  <2>1. invitations'[d] = None
    BY <1>1, <1>12 DEF WriteResend, WriteRevoke, WriteRemove, IfPending, Unwritten,
      AccountsTypeOK
  <2>2. \A e \in audit' : e.actor # d /\ e.subject # d
    <3>1. PICK x : Audit(x, call[c].user, call[c].of)
      BY <1>12 DEF WriteResend, WriteRevoke, WriteRemove
    <3>2. QED
      BY <1>1, <3>1 DEF Unwritten, Audit, Event
  <2>3. QED
    BY <1>1, <1>12, <2>1, <2>2 DEF WriteResend, WriteRevoke, WriteRemove, Unwritten
<1>13. CASE ExpireInvitation(c)
  BY <1>1, <1>13 DEF ExpireInvitation, IfPending, Unwritten
<1>14. ASSUME InsertUser(c)
       PROVE  /\ users'[d] = None /\ sessions'[d] = None
              /\ \A t \in Ids : sessions'[t] # None => sessions'[t].user # d
  BY <1>1, <1>14 DEF InsertUser, Unwritten, OpenSession, AccountsTypeOK
<1>15. CASE WriteAccept(c)
  BY <1>1, <1>2, <1>14, <1>15 DEF WriteAccept, Refuse, Unwritten, Audit, Event
<1>16. CASE WriteDelete(c)
  BY <1>1, <1>16 DEF WriteDelete, Unwritten, Audit, Event, AccountsTypeOK
<1>17. CASE WriteBootstrap(c)
  <2>1. ASSUME NEW u, u # d, RewriteUser(c, u)
        PROVE  /\ users'[d] = None /\ sessions'[d] = None
               /\ \A t \in Ids : sessions'[t] # None => sessions'[t].user # d
    <3>1. users'[d] = None
      BY <1>1, <2>1 DEF RewriteUser, Unwritten
    <3>2. RevokedOf(u) = [s \in Ids |-> RevokedOf(u)[s]]
      BY DEF RevokedOf
    <3>3. \A t \in Ids : sessions'[t] = IF t = c THEN OpenSession(c, u, c) ELSE RevokedOf(u)[t]
      BY <1>1, <2>1, <3>2 DEF RewriteUser
    <3>4. QED
      BY <1>1, <1>9, <2>1, <3>1, <3>3 DEF Unwritten, OpenSession
  <2>2. QED
    BY <1>1, <1>2, <1>14, <1>17, <2>1 DEF WriteBootstrap, Refuse, Unwritten, Audit, Event
<1>18. CASE \/ ReadLogin(c) \/ ReadResetUser(c) \/ ReadResetToken(c) \/ DeliverEmail(c)
            \/ ReadInvitation(c) \/ ReadInvitationToken(c) \/ ReadInvitedUser(c)
            \/ ReadUser(c) \/ ReadRemainingAdmin(c) \/ ReadBootstrapUser(c) \/ FailCall(c)
  BY <1>2, <1>18 DEF ReadLogin, ReadResetUser, ReadResetToken, DeliverEmail, ReadInvitation,
    ReadInvitationToken, ReadInvitedUser, ReadUser, ReadRemainingAdmin,
    ReadBootstrapUser, FailCall, Refuse
<1>19. QED
  BY <1>3, <1>5, <1>6, <1>7, <1>8, <1>10, <1>11, <1>12, <1>13, <1>15, <1>16, <1>17, <1>18
  DEF AccountsStep

LEMMA FreshStep ==
  ASSUME Core, NEW c \in Calls, AccountsStep(c)
  PROVE  FreshIds'
<1> USE AccountsAssumption
<1>0. AccountsTypeOK /\ CallsHold /\ FreshIds
  BY DEF Core
<1>1. SUFFICES ASSUME NEW d \in Calls, call'[d].pc \notin {"mail", "done"}
               PROVE  Unnamed(d)'
  BY DEF FreshIds
<1>2. call[c] \in CallState
  BY <1>0 DEF AccountsTypeOK
<1>3. ASSUME d = c PROVE Unnamed(d) /\ UNCHANGED tables
  <2>1. ASSUME NEW a, Answer(c, a) PROVE FALSE
    <3>1. call'[c] = [call[c] EXCEPT !.pc = "done", !.answer = a]
      BY <1>0, <2>1, BecomeNames DEF Answer
    <3>2. QED
      BY <1>1, <1>2, <1>3, <3>1 DEF CallState
  <2>2. ASSUME NEW a, Refuse(c, a) PROVE FALSE
    BY <1>0, <1>1, <1>3, <2>2, BecomeNames DEF Refuse, Idle
  <2>3. ASSUME NEW o, Become(c, [call[c] EXCEPT !.op = o, !.pc = "mail"]) PROVE FALSE
    <3>1. call'[c] = [call[c] EXCEPT !.op = o, !.pc = "mail"]
      BY <1>0, <2>3, BecomeNames
    <3>2. QED
      BY <1>1, <1>2, <1>3, <3>1 DEF CallState
  <2>4. ASSUME Become(c, [call[c] EXCEPT !.pc = "mail"]) PROVE FALSE
    BY <1>0, <1>1, <1>2, <1>3, <2>4, BecomeNames DEF CallState
  <2>5. \/ ReadLogin(c) \/ Authorize(c) \/ ReadResetUser(c) \/ ReadResetToken(c)
        \/ ReadInvitation(c) \/ ReadInvitationToken(c) \/ ReadInvitedUser(c)
        \/ ReadUser(c) \/ ReadRemainingAdmin(c) \/ ReadBootstrapUser(c)
    BY <2>1, <2>2, <2>3, <2>4 DEF AccountsStep, WriteLogin, Logout, WriteReset, ExpireReset,
      WriteConfirm, WriteInvite, DeliverEmail, WriteResend, WriteRevoke, WriteRemove,
      ExpireInvitation, WriteAccept, WriteDelete, WriteBootstrap, FailCall
  <2>6. UNCHANGED tables
    BY <2>1, <2>2, <2>5 DEF ReadLogin, Authorize, ReadResetUser, ReadResetToken,
      ReadInvitation, ReadInvitationToken, ReadInvitedUser, ReadUser, ReadRemainingAdmin,
      ReadBootstrapUser
  <2>7. call[c].pc \notin {"mail", "done"}
    BY <2>5 DEF ReadLogin, Authorize, ReadResetUser, ReadResetToken,
      ReadInvitation, ReadInvitationToken, ReadInvitedUser, ReadUser, ReadRemainingAdmin,
      ReadBootstrapUser, CanStart, At
  <2>8. QED
    BY <1>0, <1>3, <2>6, <2>7 DEF FreshIds
<1>4. Unnamed(d)
  BY <1>0, <1>1, <1>3, OthersUnchanged DEF FreshIds
<1>5. Unwritten(d)'
  <2>1. CASE d = c
    BY <1>3, <1>4, <2>1 DEF Unnamed, Unwritten, tables
  <2>2. CASE d # c
    BY <1>0, <1>4, <2>2, UnwrittenStep
  <2>3. QED
    BY <2>1, <2>2
<1>6. ASSUME NEW e \in Calls PROVE call'[e].user # d /\ call'[e].of # d
  <2>1. CASE e = c
    BY <1>0, <1>4, <2>1, NamesStep
  <2>2. CASE e # c
    BY <1>0, <1>4, <2>2, OthersUnchanged DEF Unnamed
  <2>3. QED
    BY <2>1, <2>2
<1>7. QED
  BY <1>5, <1>6 DEF Unnamed

LEMMA HappenedStep ==
  ASSUME NEW a, NEW by, NEW of, Audit(a, by, of), NEW b, NEW v
  PROVE  Happened(b, v)' <=> Happened(b, v) \/ (b = a /\ v = of)
<1>1. Event(a, by, of).action = a /\ Event(a, by, of).subject = of
  BY DEF Event
<1>2. QED
  BY <1>1 DEF Audit, Happened

\* The audit of accounts, action by action.
LEMMA AuditStep ==
  ASSUME Core, NEW c \in Calls, AccountsStep(c)
  PROVE  AuditTellsWhoExists'
<1> USE AccountsAssumption
<1>0. AccountsTypeOK /\ CallsHold /\ FreshIds /\ AuditTellsWhoExists /\ c \in Ids
  BY DEF Core, Ids
<1>1. ASSUME UNCHANGED Existing,
             \A u \in Ids : Provisioned(u)' <=> Provisioned(u),
             \A u \in Ids : Happened("user.deleted", u)' <=> Happened("user.deleted", u),
             \A u \in Existing : credential'[u] # None
      PROVE  AuditTellsWhoExists'
  BY <1>0, <1>1 DEF AuditTellsWhoExists
<1>2. ASSUME NEW a, a \notin Accounting, NEW by, NEW of, Audit(a, by, of)
      PROVE  /\ \A u \in Ids : Provisioned(u)' <=> Provisioned(u)
             /\ \A u \in Ids : Happened("user.deleted", u)' <=> Happened("user.deleted", u)
  <2>1. /\ \A u \in Ids : Happened("user.deleted", u)' <=> Happened("user.deleted", u)
        /\ \A u \in Ids : Happened("user.bootstrapped", u)' <=> Happened("user.bootstrapped", u)
    BY <1>2 DEF Audit, Event, Happened, Accounting
  <2>2. \A u, i \in Ids : Event("invitation.accepted", u, i) \in audit' <=>
                          Event("invitation.accepted", u, i) \in audit
    BY <1>2 DEF Audit, Event, Accounting
  <2>3. QED
    BY <2>1, <2>2 DEF Provisioned
<1>3. CASE Elsewhere
  <2>1. UNCHANGED Existing /\ \A u \in Existing : credential'[u] # None
    BY <1>0, <1>3 DEF Elsewhere, Existing, AuditTellsWhoExists
  <2>2. CASE UNCHANGED audit
    BY <1>1, <2>1, <2>2 DEF Provisioned, Happened
  <2>3. QED
    BY <1>1, <1>2, <1>3, <2>1, <2>2 DEF Elsewhere
<1>4. CASE WriteConfirm(c)
  <2>1. UNCHANGED Existing /\ \A u \in Existing : credential'[u] # None
    BY <1>0, <1>4 DEF WriteConfirm, Existing, AuditTellsWhoExists
  <2>2. QED
    BY <1>1, <1>2, <1>4, <2>1 DEF WriteConfirm, Accounting
<1>5. ASSUME InsertUser(c), call[c].pc \notin {"mail", "done"},
             call[c].email \in Emails, call[c].role \in RoleNames,
             Provisioned(c)',
             \A u \in Ids \ {c} : Provisioned(u)' <=> Provisioned(u),
             \A u \in Ids : Happened("user.deleted", u)' <=> Happened("user.deleted", u)
      PROVE  AuditTellsWhoExists'
  <2>1. Unnamed(c)
    BY <1>0, <1>5 DEF FreshIds
  <2>2. ~Happened("user.deleted", c)
    BY <2>1 DEF Unnamed, Unwritten, Happened
  <2>3. Existing' = Existing \cup {c}
    <3>1. [email |-> call[c].email, role |-> call[c].role] \in Account
      BY <1>5 DEF Account
    <3>2. QED
      BY <1>0, <1>5, <3>1 DEF InsertUser, Existing, AccountsTypeOK
  <2>4. \A u \in Existing' : credential'[u] # None
    BY <1>0, <1>5, <2>3 DEF InsertUser, AccountsTypeOK, AuditTellsWhoExists, Existing
  <2>5. QED
    BY <1>0, <1>5, <2>2, <2>3, <2>4 DEF AuditTellsWhoExists
<1>6. CASE WriteAccept(c)
  <2>1. CASE Refuse(c, "error")
    BY <1>1, <1>0, <2>1 DEF Refuse, tables, Existing, Provisioned, Happened, AuditTellsWhoExists
  <2>2. CASE InsertUser(c) /\ Audit("invitation.accepted", c, call[c].of)
    <3>1. /\ call[c].of \in Ids /\ call[c].pc \notin {"mail", "done"}
          /\ call[c].email \in Emails /\ call[c].role \in RoleNames
      BY <1>0, <1>6 DEF WriteAccept, At, CallsHold, Holds
    <3>2. Provisioned(c)'
      BY <2>2, <3>1 DEF Audit, Provisioned
    <3>3. \A u \in Ids : Happened("user.deleted", u)' <=> Happened("user.deleted", u)
      BY <2>2 DEF Audit, Event, Happened
    <3>4. \A u \in Ids : Happened("user.bootstrapped", u)' <=> Happened("user.bootstrapped", u)
      BY <2>2 DEF Audit, Event, Happened
    <3>5. \A u \in Ids \ {c}, i \in Ids : Event("invitation.accepted", u, i) \in audit' <=>
                                          Event("invitation.accepted", u, i) \in audit
      BY <2>2 DEF Audit, Event
    <3>6. \A u \in Ids \ {c} : Provisioned(u)' <=> Provisioned(u)
      BY <3>4, <3>5 DEF Provisioned
    <3>7. QED
      BY <1>5, <2>2, <3>1, <3>2, <3>3, <3>6
  <2>3. QED
    BY <1>6, <2>1, <2>2 DEF WriteAccept
<1>7. CASE WriteDelete(c)
  <2> DEFINE u == call[c].of
  <2>1. u \in Ids
    BY <1>0, <1>7 DEF WriteDelete, At, CallsHold, Holds
  <2>2. Audit("user.deleted", call[c].user, u)
    BY <1>7 DEF WriteDelete
  <2>3. \A v \in Ids : Happened("user.deleted", v)' <=> Happened("user.deleted", v) \/ v = u
    BY <2>2, HappenedStep
  <2>4. \A v \in Ids : Happened("user.bootstrapped", v)' <=> Happened("user.bootstrapped", v)
    BY <2>2 DEF Audit, Event, Happened
  <2>5. \A v, i \in Ids : Event("invitation.accepted", v, i) \in audit' <=>
                          Event("invitation.accepted", v, i) \in audit
    BY <2>2 DEF Audit, Event
  <2>6. \A v \in Ids : Provisioned(v)' <=> Provisioned(v)
    BY <2>4, <2>5 DEF Provisioned
  <2>7. Existing' = Existing \ {u}
    BY <1>0, <1>7, <2>1 DEF WriteDelete, Existing, AccountsTypeOK
  <2>8. \A v \in Existing' : credential'[v] # None
    BY <1>0, <1>7, <2>1, <2>7 DEF WriteDelete, AccountsTypeOK, AuditTellsWhoExists, Existing
  <2>9. QED
    BY <1>0, <2>3, <2>6, <2>7, <2>8 DEF AuditTellsWhoExists
<1>8. CASE WriteBootstrap(c)
  <2>0. PICK u, w : u = call[c].user /\ w = IF u = None THEN c ELSE u
    OBVIOUS
  <2>1. CASE Refuse(c, "error")
    BY <1>1, <1>0, <2>1 DEF Refuse, tables, Existing, Provisioned, Happened, AuditTellsWhoExists
  <2>2. CASE /\ \/ u = None /\ InsertUser(c)
                \/ u # None /\ RewriteUser(c, u)
             /\ Audit("user.bootstrapped", None, w)
    <3>1. /\ call[c].email \in Emails /\ call[c].role \in RoleNames
          /\ call[c].pc \notin {"mail", "done"}
          /\ u # None => u \in Ids /\ Provisioned(u)
      BY <1>0, <1>8, <2>0 DEF WriteBootstrap, At, CallsHold, Holds
    <3>2. \A v \in Ids : Happened("user.deleted", v)' <=> Happened("user.deleted", v)
      BY <2>2 DEF Audit, Event, Happened
    <3>3. \A v \in Ids : Happened("user.bootstrapped", v)' <=>
                           Happened("user.bootstrapped", v) \/ v = w
      BY <2>2, HappenedStep
    <3>4. \A v, i \in Ids : Event("invitation.accepted", v, i) \in audit' <=>
                            Event("invitation.accepted", v, i) \in audit
      BY <2>2 DEF Audit, Event
    <3>5. \A v \in Ids \ {w} : Provisioned(v)' <=> Provisioned(v)
      BY <3>3, <3>4 DEF Provisioned
    <3>6. Provisioned(w)'
      BY <1>0, <2>0, <3>1, <3>3 DEF Provisioned
    <3>7. CASE u = None
      BY <1>5, <2>0, <2>2, <3>1, <3>2, <3>5, <3>6, <3>7
    <3>8. CASE u # None
      <4>1. \A v \in Ids : Provisioned(v)' <=> Provisioned(v)
        BY <2>0, <3>1, <3>5, <3>6, <3>8
      <4>2. UNCHANGED Existing
        <5>1. ASSUME NEW v \in Ids, users[v] # None
              PROVE  [users[v] EXCEPT !.role = call[c].role] \in Account
          BY <1>0, <3>1, <5>1 DEF AccountsTypeOK, Account
        <5>2. QED
          BY <2>2, <3>8, <5>1 DEF RewriteUser, Existing
      <4>3. \A v \in Existing : credential'[v] # None
        BY <1>0, <2>2, <3>1, <3>8 DEF RewriteUser, AccountsTypeOK, AuditTellsWhoExists, Existing
      <4>4. QED
        BY <1>1, <3>2, <4>1, <4>2, <4>3
    <3>9. QED
      BY <3>7, <3>8
  <2>3. QED
    BY <1>8, <2>0, <2>1, <2>2 DEF WriteBootstrap
<1>9. QED
  BY <1>0, <1>3, <1>4, <1>6, <1>7, <1>8, StepKinds

LEMMA CoreInit == Init => Core
<1> USE AccountsAssumption
<1>1. SUFFICES ASSUME Init PROVE Core
  OBVIOUS
<1>2. ASSUME NEW c \in Calls PROVE Unnamed(c) /\ Holds(c)
  BY <1>1 DEF Init, Unnamed, Unwritten, Holds, Idle, Ids, OpenSession
<1>3. AuditTellsWhoExists
  <2>1. ASSUME NEW u \in Founders PROVE [email |-> u, role |-> "admin"] \in Account
    BY DEF Account, RoleNames
  <2>2. Existing = Founders
    BY <1>1, <2>1 DEF Init, Existing, Ids
  <2>3. QED
    BY <1>1, <2>2 DEF Init, AuditTellsWhoExists, Provisioned, Happened, Ids
<1>4. QED
  BY <1>1, <1>2, <1>3, InitType DEF Core, FreshIds, CallsHold

LEMMA CoreStep == Core /\ [Next]_vars => Core'
<1>1. SUFFICES ASSUME Core, [Next]_vars PROVE Core'
  OBVIOUS
<1>2. CASE UNCHANGED vars
  <2>1. AccountsTypeOK'
    BY <1>1, <1>2 DEF Core, AccountsTypeOK, vars
  <2>2. FreshIds'
    BY <1>1, <1>2 DEF Core, FreshIds, Unnamed, Unwritten, vars
  <2>3. CallsHold'
    BY <1>1, <1>2 DEF Core, CallsHold, Holds, Provisioned, Happened, vars
  <2>4. AuditTellsWhoExists'
    BY <1>1, <1>2 DEF Core, AuditTellsWhoExists, Existing, Provisioned, Happened, vars
  <2>5. QED
    BY <2>1, <2>2, <2>3, <2>4 DEF Core
<1>3. ASSUME NEW c \in Calls, AccountsStep(c) PROVE Core'
  BY <1>1, <1>3, StepType, FreshStep, HoldsStep, AuditStep DEF Core
<1>4. QED
  BY <1>1, <1>2, <1>3 DEF Next

\* Types, fresh ids, what requests hold and the audit together are inductive.
THEOREM CoreInvariant == Spec => []Core
BY CoreInit, CoreStep, PTL DEF Spec

\* The tables and the requests keep their types.
THEOREM TypeCorrect == Spec => []AccountsTypeOK
<1>1. Core => AccountsTypeOK
  BY DEF Core
<1>2. QED
  BY <1>1, CoreInvariant, PTL

\* An account that was founded, invited or bootstrapped is there, with a credential,
\* until the audit says it was deleted, and not after.
THEOREM AuditTells == Spec => []AuditTellsWhoExists
<1>1. Core => AuditTellsWhoExists
  BY DEF Core
<1>2. QED
  BY <1>1, CoreInvariant, PTL

-----------------------------------------------------------------------------
\* One account per address.

LEMMA EmailStep ==
  ASSUME Core, OneAccountPerEmail, [Next]_vars
  PROVE  OneAccountPerEmail'
<1> USE AccountsAssumption
<1>0. AccountsTypeOK /\ CallsHold
  BY DEF Core
<1>1. ASSUME UNCHANGED users PROVE OneAccountPerEmail'
  BY <1>1 DEF OneAccountPerEmail, Existing
<1>2. ASSUME NEW c \in Calls, InsertUser(c), call[c].email \in Emails,
             call[c].role \in RoleNames
      PROVE  OneAccountPerEmail'
  <2>1. /\ c \in Ids
        /\ [email |-> call[c].email, role |-> call[c].role] \in Account
    BY <1>2 DEF Account, Ids
  <2>2. /\ Existing' = Existing \cup {c}
        /\ users'[c].email = call[c].email
        /\ \A u \in Existing \ {c} : users'[u] = users[u]
    BY <1>0, <1>2, <2>1 DEF InsertUser, Existing, AccountsTypeOK
  <2>3. \A u \in Existing : users[u].email # call[c].email
    BY <1>2 DEF InsertUser, EmailTaken, UserWithEmail
  <2>4. QED
    BY <2>2, <2>3 DEF OneAccountPerEmail
<1>3. ASSUME NEW c \in Calls, AccountsStep(c) PROVE OneAccountPerEmail'
  <2>1. CASE Elsewhere \/ WriteConfirm(c)
    BY <1>1, <2>1 DEF Elsewhere, WriteConfirm
  <2>2. CASE WriteAccept(c)
    BY <1>0, <1>1, <1>2, <2>2 DEF WriteAccept, Refuse, tables, At, CallsHold, Holds
  <2>3. CASE WriteDelete(c)
    <3>1. /\ Existing' \subseteq Existing
          /\ \A u \in Existing' : users'[u] = users[u]
      BY <1>0, <2>3 DEF WriteDelete, Existing, AccountsTypeOK
    <3>2. QED
      BY <3>1 DEF OneAccountPerEmail
  <2>4. ASSUME NEW u, RewriteUser(c, u), call[c].role \in RoleNames
        PROVE  OneAccountPerEmail'
    <3>1. ASSUME NEW v \in Ids, users[v] # None
          PROVE  /\ [users[v] EXCEPT !.role = call[c].role] \in Account
                 /\ [users[v] EXCEPT !.role = call[c].role].email = users[v].email
      BY <1>0, <2>4, <3>1 DEF AccountsTypeOK, Account
    <3>2. /\ Existing' = Existing
          /\ \A v \in Existing : users'[v].email = users[v].email
      BY <2>4, <3>1 DEF RewriteUser, Existing
    <3>3. QED
      BY <3>2 DEF OneAccountPerEmail
  <2>5. CASE WriteBootstrap(c)
    BY <1>0, <1>1, <1>2, <2>4, <2>5 DEF WriteBootstrap, Refuse, tables, At, CallsHold, Holds
  <2>6. QED
    BY <1>0, <1>3, <2>1, <2>2, <2>3, <2>5, StepKinds
<1>4. QED
  BY <1>1, <1>3 DEF Next, vars

\* Whatever invitations and bootstraps overlap, an address has one account.
THEOREM OneAccount == Spec => []OneAccountPerEmail
<1>1. Init => OneAccountPerEmail
  BY DEF Init, OneAccountPerEmail, Existing
<1>2. QED
  BY <1>1, CoreInvariant, EmailStep, PTL DEF Spec

-----------------------------------------------------------------------------
\* Administrators.

LEMMA NewDeletion ==
  ASSUME AccountsTypeOK, NEW c \in Calls, AccountsStep(c), At(c, "delete", "write")'
  PROVE  ReadUser(c) \/ ReadRemainingAdmin(c)
<1>1. call[c] \in CallState
  BY DEF AccountsTypeOK
<1>2. ASSUME NEW a, Answer(c, a) PROVE FALSE
  <2>1. call'[c] = [call[c] EXCEPT !.pc = "done", !.answer = a]
    BY <1>2, BecomeNames DEF Answer
  <2>2. QED
    BY <1>1, <2>1 DEF CallState, At
<1>3. ASSUME NEW state, state.op # "delete", Become(c, state) PROVE FALSE
  BY <1>3, BecomeNames DEF At
<1>4. ASSUME NEW a, Refuse(c, a) PROVE FALSE
  BY <1>3, <1>4 DEF Refuse, Idle
<1>5. ASSUME NEW p, Become(c, [call[c] EXCEPT !.pc = p]) PROVE call[c].op = "delete"
  <2>1. call'[c] = [call[c] EXCEPT !.pc = p]
    BY <1>5, BecomeNames
  <2>2. QED
    BY <1>1, <2>1 DEF CallState, At
<1>6. ASSUME WriteInvite(c) PROVE FALSE
  <2>1. call'[c] = [call[c] EXCEPT !.op = "invite", !.pc = "mail"]
    BY <1>6, BecomeNames DEF WriteInvite
  <2>2. QED
    BY <1>1, <2>1 DEF CallState, At
<1>7. ASSUME ReadInvitation(c) PROVE FALSE
  <2>1. ASSUME NEW i, NEW o \in {"resend", "revoke", "remove"},
               Become(c, [call[c] EXCEPT !.op = o, !.pc = "write", !.of = i])
        PROVE  FALSE
    <3>1. call'[c] = [call[c] EXCEPT !.op = o, !.pc = "write", !.of = i]
      BY <2>1, BecomeNames
    <3>2. QED
      BY <1>1, <3>1 DEF CallState, At
  <2>2. QED
    BY <1>4, <1>7, <2>1 DEF ReadInvitation
<1>8. ASSUME WriteReset(c) \/ WriteResend(c) \/ ReadInvitedUser(c) PROVE FALSE
  BY <1>4, <1>5, <1>8 DEF WriteReset, WriteResend, ReadInvitedUser, At
<1>9. ASSUME \/ ReadLogin(c) \/ Authorize(c) \/ ReadResetUser(c) \/ ReadResetToken(c)
             \/ ReadInvitationToken(c) \/ ReadBootstrapUser(c)
      PROVE  FALSE
  BY <1>2, <1>3, <1>4, <1>9 DEF ReadLogin, Authorize, ReadResetUser, ReadResetToken,
    ReadInvitationToken, ReadBootstrapUser, Idle
<1>10. ASSUME \/ WriteLogin(c) \/ Logout(c) \/ ExpireReset(c) \/ WriteConfirm(c)
              \/ DeliverEmail(c) \/ WriteRevoke(c) \/ WriteRemove(c)
              \/ ExpireInvitation(c) \/ WriteAccept(c) \/ WriteDelete(c)
              \/ WriteBootstrap(c) \/ FailCall(c)
       PROVE  FALSE
  BY <1>2, <1>4, <1>10 DEF WriteLogin, Logout, ExpireReset, WriteConfirm, DeliverEmail,
    WriteRevoke, WriteRemove, ExpireInvitation, WriteAccept, WriteDelete, WriteBootstrap,
    FailCall
<1>11. QED
  BY <1>6, <1>7, <1>8, <1>9, <1>10 DEF AccountsStep

LEMMA DeletedStays ==
  ASSUME AccountsTypeOK, NEW c \in Calls, AccountsStep(c), NEW d \in Calls, Deleted(d)
  PROVE  call'[d] = call[d] /\ Deleted(d)'
<1>1. call[c].pc # "done"
  BY DEF AccountsStep, ReadLogin, WriteLogin, Logout, Authorize, ReadResetUser, WriteReset,
    ReadResetToken, ExpireReset, WriteConfirm, WriteInvite, DeliverEmail, ReadInvitation,
    WriteResend, WriteRevoke, WriteRemove, ReadInvitationToken, ExpireInvitation,
    ReadInvitedUser, WriteAccept, ReadUser, ReadRemainingAdmin, WriteDelete,
    ReadBootstrapUser, WriteBootstrap, FailCall, CanStart, At, InFlight
<1>2. QED
  BY <1>1, OthersUnchanged DEF Deleted, At

LEMMA DeleteEnds ==
  ASSUME AccountsTypeOK, NEW c \in Calls, WriteDelete(c)
  PROVE  /\ Deleted(c)'
         /\ call'[c].of = call[c].of /\ call'[c].seen = call[c].seen
<1>1. call'[c] = [call[c] EXCEPT !.pc = "done", !.answer = "ok"]
  BY BecomeNames DEF WriteDelete, Answer
<1>2. call[c] \in CallState
  BY DEF AccountsTypeOK
<1>3. QED
  BY <1>1, <1>2 DEF CallState, WriteDelete, At, Deleted

LEMMA BootstrappedStays ==
  ASSUME AccountsTypeOK, CallsHold, NEW c \in Calls, AccountsStep(c), Bootstrapped
  PROVE  Bootstrapped'
BY AuditGrows DEF Bootstrapped, Happened

\* How the administrators change when no bootstrap takes part.
LEMMA AdminsStep ==
  ASSUME Core, NEW c \in Calls, AccountsStep(c)
  PROVE  \/ Admins' = Admins
         \/ Admins' = Admins \cup {c} /\ Unnamed(c)
         \/ WriteDelete(c) /\ call[c].of \in Ids /\ Admins' = Admins \ {call[c].of}
         \/ Bootstrapped'
<1>0. AccountsTypeOK /\ CallsHold /\ FreshIds /\ c \in Ids
  BY DEF Core, Ids
<1>1. CASE UNCHANGED users
  BY <1>1 DEF Admins, Existing
<1>2. CASE Elsewhere \/ WriteConfirm(c)
  BY <1>1, <1>2 DEF Elsewhere, WriteConfirm
<1>3. CASE WriteAccept(c)
  <2>1. CASE Refuse(c, "error")
    BY <1>1, <2>1 DEF Refuse, tables
  <2>2. CASE InsertUser(c)
    <3>1. Unnamed(c)
      BY <1>0, <1>3 DEF WriteAccept, At, FreshIds
    <3>2. users' = [users EXCEPT ![c] = users'[c]]
      BY <1>0, <2>2 DEF InsertUser, AccountsTypeOK
    <3>3. users[c] = None
      BY <3>1 DEF Unnamed, Unwritten
    <3>4. Admins' = Admins \/ Admins' = Admins \cup {c}
      BY <1>0, <3>2, <3>3 DEF Admins, Existing, AccountsTypeOK
    <3>5. QED
      BY <3>1, <3>4
  <2>3. QED
    BY <1>3, <2>1, <2>2 DEF WriteAccept
<1>4. CASE WriteDelete(c)
  <2>1. call[c].of \in Ids
    BY <1>0, <1>4 DEF WriteDelete, At, CallsHold, Holds
  <2>2. Admins' = Admins \ {call[c].of}
    BY <1>0, <1>4, <2>1 DEF WriteDelete, Admins, Existing, AccountsTypeOK
  <2>3. QED
    BY <1>4, <2>1, <2>2
<1>5. CASE WriteBootstrap(c)
  <2>1. CASE Refuse(c, "error")
    BY <1>1, <2>1 DEF Refuse, tables
  <2>2. PICK w : w = IF call[c].user = None THEN c ELSE call[c].user
    OBVIOUS
  <2>3. w \in Ids
    BY <1>0, <1>5, <2>2 DEF WriteBootstrap, At, CallsHold, Holds
  <2>4. CASE Audit("user.bootstrapped", None, w)
    BY <2>3, <2>4, HappenedStep DEF Bootstrapped
  <2>5. QED
    BY <1>5, <2>1, <2>2, <2>4 DEF WriteBootstrap
<1>6. QED
  BY <1>0, <1>2, <1>3, <1>4, <1>5, StepKinds

LEMMA WitnessStep ==
  ASSUME Core, DeletionsAreWitnessed, NEW c \in Calls, AccountsStep(c)
  PROVE  DeletionsAreWitnessed'
<1> USE AccountsAssumption
<1>0. AccountsTypeOK /\ CallsHold /\ FreshIds
  BY DEF Core
<1>1. SUFFICES ASSUME NEW d \in Calls, At(d, "delete", "write")', ~Bootstrapped',
                      NEW o, o = call'[d].of, NEW w, w = call'[d].seen
               PROVE  \/ o \notin Admins'
                      \/ w \in Ids /\ w # o /\ (w \in Admins' \/ Gone(w)')
  BY DEF DeletionsAreWitnessed, Witnessed, Gone
<1>2. CASE d # c
  <2>1. call'[d] = call[d]
    BY <1>0, <1>2, OthersUnchanged
  <2>2. \/ o \notin Admins
        \/ w \in Ids /\ w # o /\ (w \in Admins \/ Gone(w))
    BY <1>0, <1>1, <2>1, BootstrappedStays DEF DeletionsAreWitnessed, Witnessed, At
  <2>3. Gone(w) => Gone(w)'
    BY <1>0, DeletedStays DEF Gone
  <2>4. ASSUME WriteDelete(c), call[c].of = w PROVE Gone(w)'
    BY <1>0, <2>4, DeleteEnds DEF Gone
  <2>5. w \in Admins => w \in Admins' \/ Gone(w)'
    BY <1>1, <2>4, AdminsStep
  <2>6. ASSUME Unnamed(c) PROVE o # c
    BY <1>1, <2>1, <2>6 DEF Unnamed
  <2>7. o \notin Admins => o \notin Admins'
    BY <1>1, <2>6, AdminsStep
  <2>8. QED
    BY <2>2, <2>3, <2>5, <2>7
<1>3. CASE d = c
  <2>1. call[c] \in CallState
    BY <1>0 DEF AccountsTypeOK
  <2>2. CASE ReadUser(c)
    <3>1. ASSUME NEW a, Refuse(c, a) PROVE FALSE
      BY <1>0, <1>1, <1>3, <3>1, BecomeNames DEF Refuse, Idle, At
    <3>2. PICK u \in Ids :
            /\ Become(c, [call[c] EXCEPT !.op = "delete", !.of = u,
                            !.pc = IF u \in Admins THEN "remaining" ELSE "write"])
            /\ UNCHANGED tables
      BY <2>2, <3>1 DEF ReadUser
    <3>3. call'[c].of = u /\ call'[c].pc = IF u \in Admins THEN "remaining" ELSE "write"
      <4>1. call'[c] = [call[c] EXCEPT !.op = "delete", !.of = u,
                          !.pc = IF u \in Admins THEN "remaining" ELSE "write"]
        BY <1>0, <3>2, BecomeNames
      <4>2. QED
        BY <2>1, <4>1 DEF CallState
    <3>4. u \notin Admins
      BY <1>1, <1>3, <3>3 DEF At
    <3>5. QED
      BY <1>1, <1>3, <3>2, <3>3, <3>4 DEF tables, Admins, Existing
  <2>3. CASE ReadRemainingAdmin(c)
    <3>1. ASSUME NEW a, Refuse(c, a) PROVE FALSE
      BY <1>0, <1>1, <1>3, <3>1, BecomeNames DEF Refuse, Idle, At
    <3>2. PICK v \in Admins \ {call[c].of} :
            /\ Become(c, [call[c] EXCEPT !.pc = "write", !.seen = v])
            /\ UNCHANGED tables
      BY <2>3, <3>1 DEF ReadRemainingAdmin
    <3>3. call'[c].of = call[c].of /\ call'[c].seen = v
      <4>1. call'[c] = [call[c] EXCEPT !.pc = "write", !.seen = v]
        BY <1>0, <3>2, BecomeNames
      <4>2. QED
        BY <2>1, <4>1 DEF CallState
    <3>4. QED
      BY <1>1, <1>3, <3>2, <3>3 DEF tables, Admins, Existing
  <2>4. QED
    BY <1>0, <1>1, <1>3, <2>2, <2>3, NewDeletion
<1>4. QED
  BY <1>2, <1>3

LEMMA LastAdminStep ==
  ASSUME Core, DeletionsAreWitnessed, LastAdminFallsToARace, NEW c \in Calls, AccountsStep(c)
  PROVE  LastAdminFallsToARace'
<1> USE AccountsAssumption
<1>0. AccountsTypeOK /\ CallsHold
  BY DEF Core
<1>1. SUFFICES ASSUME Admins' = {}, ~Bootstrapped'
               PROVE  \E d, e \in Calls :
                        /\ Deleted(d)' /\ Deleted(e)'
                        /\ call'[d].seen # None /\ call'[d].seen = call'[e].of
  BY DEF LastAdminFallsToARace, Bootstrapped
<1>2. CASE Admins = {}
  <2>1. PICK d, e \in Calls :
          Deleted(d) /\ Deleted(e) /\ call[d].seen # None /\ call[d].seen = call[e].of
    BY <1>0, <1>1, <1>2, BootstrappedStays DEF LastAdminFallsToARace, Bootstrapped
  <2>2. QED
    BY <1>0, <2>1, DeletedStays
<1>3. CASE Admins # {}
  <2>1. WriteDelete(c) /\ call[c].of \in Admins /\ Admins = {call[c].of}
    BY <1>1, <1>3, AdminsStep
  <2>2. /\ call[c].seen \in Ids /\ call[c].seen # call[c].of
        /\ call[c].seen \in Admins \/ Gone(call[c].seen)
    BY <1>0, <1>1, <2>1, BootstrappedStays DEF DeletionsAreWitnessed, Witnessed, WriteDelete
  <2>3. PICK e \in Calls : Deleted(e) /\ call[e].of = call[c].seen
    BY <2>1, <2>2 DEF Gone
  <2>4. Deleted(e)' /\ call'[e] = call[e]
    BY <1>0, <2>3, DeletedStays
  <2>5. Deleted(c)' /\ call'[c].seen = call[c].seen
    BY <1>0, <2>1, DeleteEnds
  <2>6. call[c].seen # None
    BY <2>2
  <2>7. QED
    BY <2>3, <2>4, <2>5, <2>6
<1>4. QED
  BY <1>2, <1>3

\* The check for a remaining administrator is defeated by another deletion only.
THEOREM LastAdmin == Spec => []LastAdminFallsToARace
<1> DEFINE Inv == DeletionsAreWitnessed /\ LastAdminFallsToARace
<1>1. Init => Inv
  <2>1. SUFFICES ASSUME Init PROVE Inv
    OBVIOUS
  <2>2. DeletionsAreWitnessed
    BY <2>1 DEF Init, Idle, DeletionsAreWitnessed, Witnessed, At
  <2>3. PICK u \in Founders : TRUE
    BY AccountsAssumption
  <2>4. [email |-> u, role |-> "admin"] \in Account
    BY <2>3, AccountsAssumption DEF Account, RoleNames
  <2>5. u \in Admins
    BY <2>1, <2>3, <2>4, AccountsAssumption DEF Init, Admins, Existing, Managers, Ids
  <2>6. QED
    BY <2>2, <2>5 DEF LastAdminFallsToARace
<1>2. Core /\ Inv /\ [Next]_vars => Inv'
  <2>1. SUFFICES ASSUME Core, Inv, [Next]_vars PROVE Inv'
    OBVIOUS
  <2>2. CASE UNCHANGED vars
    BY <2>1, <2>2 DEF vars, DeletionsAreWitnessed, Witnessed, LastAdminFallsToARace,
      Bootstrapped, Gone, Deleted, At, Happened, Admins, Existing
  <2>3. QED
    BY <2>1, <2>2, WitnessStep, LastAdminStep DEF Next
<1>3. Inv => LastAdminFallsToARace
  OBVIOUS
<1> HIDE DEF Inv
<1>4. QED
  BY <1>1, <1>2, <1>3, CoreInvariant, PTL DEF Spec

-----------------------------------------------------------------------------
\* Sessions, reset links and invitations.

LEMMA Fresh ==
  ASSUME Core, NEW c \in Calls, call[c].pc \notin {"mail", "done"}
  PROVE  Unnamed(c)
BY DEF Core, FreshIds

LEMMA RevokedOfMember ==
  ASSUME AccountsTypeOK, NEW u, NEW s \in Ids
  PROVE  /\ RevokedOf(u)[s] = None <=> sessions[s] = None
         /\ RevokedOf(u)[s] # None =>
              /\ RevokedOf(u)[s].user = sessions[s].user
              /\ RevokedOf(u)[s].under = sessions[s].under
              /\ sessions[s].user = u => RevokedOf(u)[s].revoked
              /\ ~RevokedOf(u)[s].revoked => ~sessions[s].revoked
<1>1. RevokedOf(u)[s] = IF sessions[s] # None /\ sessions[s].user = u
                          THEN [sessions[s] EXCEPT !.revoked = TRUE] ELSE sessions[s]
  BY DEF RevokedOf
<1>2. CASE sessions[s] # None /\ sessions[s].user = u
  <2>1. sessions[s] \in Session
    BY <1>2 DEF AccountsTypeOK
  <2>2. [sessions[s] EXCEPT !.revoked = TRUE] \in Session
    BY <2>1 DEF Session
  <2>3. [sessions[s] EXCEPT !.revoked = TRUE] # None
    BY <2>2, AccountsAssumption
  <2>4. /\ [sessions[s] EXCEPT !.revoked = TRUE].user = sessions[s].user
        /\ [sessions[s] EXCEPT !.revoked = TRUE].under = sessions[s].under
        /\ [sessions[s] EXCEPT !.revoked = TRUE].revoked
    BY <2>1 DEF Session
  <2>5. QED
    BY <1>1, <1>2, <2>3, <2>4
<1>3. CASE ~(sessions[s] # None /\ sessions[s].user = u)
  BY <1>1, <1>3
<1>4. QED
  BY <1>2, <1>3

LEMMA SessionStep ==
  ASSUME Core, SessionsAreYoungerThanPassword, [Next]_vars
  PROVE  SessionsAreYoungerThanPassword'
<1> USE AccountsAssumption
<1>0. AccountsTypeOK /\ CallsHold
  BY DEF Core
<1>1. ASSUME UNCHANGED <<sessions, credential>> PROVE SessionsAreYoungerThanPassword'
  BY <1>1 DEF SessionsAreYoungerThanPassword
<1>2. ASSUME NEW s \in Ids, sessions[s] # None, Revoke(s), UNCHANGED credential
      PROVE  SessionsAreYoungerThanPassword'
  <2>1. sessions' = [sessions EXCEPT ![s] = [sessions[s] EXCEPT !.revoked = TRUE]]
    BY <1>2 DEF Revoke
  <2>2. sessions[s] \in Session
    BY <1>0, <1>2 DEF AccountsTypeOK
  <2>3. [sessions[s] EXCEPT !.revoked = TRUE].revoked
    BY <2>2 DEF Session
  <2>4. QED
    BY <1>0, <1>2, <2>1, <2>3 DEF SessionsAreYoungerThanPassword, AccountsTypeOK
<1>3. ASSUME NEW c \in Calls, AccountsStep(c) PROVE SessionsAreYoungerThanPassword'
  <2>0. c \in Ids
    BY DEF Ids
  <2>1. CASE WriteLogin(c)
    <3>1. OpenSession(c, call[c].user, credential[call[c].user]).under =
            credential[OpenSession(c, call[c].user, credential[call[c].user]).user]
      BY DEF OpenSession
    <3>2. QED
      BY <1>0, <2>0, <2>1, <3>1 DEF WriteLogin, SessionsAreYoungerThanPassword, AccountsTypeOK
  <2>2. CASE Logout(c) \/ Authorize(c)
    BY <1>1, <1>2, <2>2 DEF Logout, Authorize, Refuse, tables
  <2>3. CASE WriteConfirm(c)
    <3>1. \A v \in Ids : v # call[c].user => credential'[v] = credential[v]
      BY <1>0, <2>3 DEF WriteConfirm, AccountsTypeOK
    <3>2. \A s \in Ids : sessions[s] # None => sessions[s].user \in Ids
      BY <1>0 DEF AccountsTypeOK, Session
    <3>3. QED
      BY <1>0, <2>3, <3>1, <3>2, RevokedOfMember
      DEF WriteConfirm, SessionsAreYoungerThanPassword
  <2>4. ASSUME InsertUser(c), Unnamed(c) PROVE SessionsAreYoungerThanPassword'
    <3>1. OpenSession(c, c, c).under = c /\ OpenSession(c, c, c).user = c
      BY DEF OpenSession
    <3>2. \A s \in Ids : sessions[s] # None => sessions[s].user # c /\ sessions[s].user \in Ids
      BY <1>0, <2>4 DEF Unnamed, Unwritten, AccountsTypeOK, Session
    <3>3. QED
      BY <1>0, <2>0, <2>4, <3>1, <3>2
      DEF InsertUser, SessionsAreYoungerThanPassword, AccountsTypeOK
  <2>5. CASE WriteAccept(c)
    BY <1>1, <2>4, <2>5, Fresh DEF WriteAccept, At, Refuse, tables
  <2>6. CASE WriteDelete(c)
    <3>1. \A s \in Ids : sessions[s] # None => sessions[s].user \in Ids
      BY <1>0 DEF AccountsTypeOK, Session
    <3>2. QED
      BY <1>0, <2>6, <3>1 DEF WriteDelete, SessionsAreYoungerThanPassword, AccountsTypeOK
  <2>7. ASSUME NEW u \in Ids, RewriteUser(c, u) PROVE SessionsAreYoungerThanPassword'
    <3>1. OpenSession(c, u, c).under = c /\ OpenSession(c, u, c).user = u
      BY DEF OpenSession
    <3>2. \A s \in Ids : sessions'[s] = IF s = c THEN OpenSession(c, u, c) ELSE RevokedOf(u)[s]
      BY <2>0, <2>7 DEF RewriteUser, RevokedOf
    <3>3. /\ credential'[u] = c
          /\ \A v \in Ids : v # u => credential'[v] = credential[v]
      BY <1>0, <2>0, <2>7 DEF RewriteUser, AccountsTypeOK
    <3>4. \A s \in Ids : sessions[s] # None => sessions[s].user \in Ids
      BY <1>0 DEF AccountsTypeOK, Session
    <3>5. QED
      BY <1>0, <3>1, <3>2, <3>3, <3>4, RevokedOfMember DEF SessionsAreYoungerThanPassword
  <2>8. CASE WriteBootstrap(c)
    <3>1. call[c].user # None => call[c].user \in Ids
      BY <1>0, <2>8 DEF WriteBootstrap, At, CallsHold, Holds
    <3>2. QED
      BY <1>1, <2>4, <2>7, <2>8, <3>1, Fresh DEF WriteBootstrap, At, Refuse, tables
  <2>9. QED
    BY <1>1, <1>3, <2>1, <2>2, <2>3, <2>5, <2>6, <2>8
    DEF AccountsStep, ReadLogin, ReadResetUser, WriteReset, ReadResetToken, ExpireReset,
      WriteInvite, DeliverEmail, ReadInvitation, WriteResend, WriteRevoke, WriteRemove,
      ReadInvitationToken, ExpireInvitation, ReadInvitedUser, ReadUser, ReadRemainingAdmin,
      ReadBootstrapUser, FailCall, Refuse, tables
<1>4. QED
  BY <1>1, <1>3 DEF Next, vars

\* No session that works is older than its account's password.
THEOREM SessionsFollowPassword == Spec => []SessionsAreYoungerThanPassword
<1>1. Init => SessionsAreYoungerThanPassword
  BY AccountsAssumption DEF Init, SessionsAreYoungerThanPassword, OpenSession, Ids
<1>2. QED
  BY <1>1, CoreInvariant, SessionStep, PTL DEF Spec

LEMMA LinkStep ==
  ASSUME Core, LinkTellsItsUse, [Next]_vars
  PROVE  LinkTellsItsUse'
<1> USE AccountsAssumption
<1>0. AccountsTypeOK /\ CallsHold
  BY DEF Core
<1>1. ASSUME UNCHANGED <<resets, audit>> PROVE LinkTellsItsUse'
  BY <1>1 DEF LinkTellsItsUse, Happened
<1>2. ASSUME NEW a, a # "reset_succeeded", NEW by, NEW of, Audit(a, by, of), NEW t
      PROVE  Happened("reset_succeeded", t)' <=> Happened("reset_succeeded", t)
  BY <1>2, HappenedStep
<1>3. ASSUME NEW a, a # "reset_succeeded", NEW by, NEW of, Audit(a, by, of), UNCHANGED resets
      PROVE  LinkTellsItsUse'
  BY <1>2, <1>3 DEF LinkTellsItsUse
<1>4. ASSUME NEW c \in Calls, AccountsStep(c) PROVE LinkTellsItsUse'
  <2>0. c \in Ids
    BY DEF Ids
  <2>1. CASE WriteReset(c)
    <3>1. ~Happened("reset_succeeded", c)
      BY <2>1, Fresh DEF WriteReset, At, Unnamed, Unwritten, Happened
    <3>2. [user |-> call[c].user, status |-> "pending"].status # "used"
      OBVIOUS
    <3>3. \A t : Happened("reset_succeeded", t)' <=> Happened("reset_succeeded", t)
      BY <1>2, <2>1 DEF WriteReset
    <3>4. QED
      BY <1>0, <2>0, <2>1, <3>1, <3>2, <3>3 DEF WriteReset, LinkTellsItsUse, AccountsTypeOK
  <2>2. CASE ExpireReset(c)
    <3>1. \A t \in Ids : resets'[t] # None =>
            resets[t] # None /\ (resets'[t].status = "used" <=> resets[t].status = "used")
      BY <1>0, <2>2 DEF ExpireReset, AccountsTypeOK, ResetToken
    <3>2. \A t : Happened("reset_succeeded", t)' <=> Happened("reset_succeeded", t)
      BY <2>2 DEF ExpireReset, Happened
    <3>3. QED
      BY <3>1, <3>2 DEF LinkTellsItsUse
  <2>3. CASE WriteConfirm(c)
    <3>1. PICK o : o = call[c].of
      OBVIOUS
    <3>2. \A t \in Ids : resets'[t] # None =>
            /\ resets[t] # None
            /\ resets'[t].status = "used" <=> resets[t].status = "used" \/ t = o
      BY <1>0, <2>3, <3>1 DEF WriteConfirm, AccountsTypeOK, ResetToken
    <3>3. \A t : Happened("reset_succeeded", t)' <=> Happened("reset_succeeded", t) \/ t = o
      BY <2>3, <3>1, HappenedStep DEF WriteConfirm
    <3>4. QED
      BY <3>2, <3>3 DEF LinkTellsItsUse
  <2>4. CASE WriteDelete(c)
    <3>1. \A t \in Ids : resets'[t] # None => resets'[t] = resets[t]
      BY <1>0, <2>4 DEF WriteDelete, AccountsTypeOK
    <3>2. \A t : Happened("reset_succeeded", t)' <=> Happened("reset_succeeded", t)
      BY <1>2, <2>4 DEF WriteDelete
    <3>3. QED
      BY <3>1, <3>2 DEF LinkTellsItsUse
  <2>5. CASE WriteAccept(c) \/ WriteBootstrap(c)
    BY <1>1, <1>3, <2>5 DEF WriteAccept, WriteBootstrap, Refuse, tables
  <2>6. CASE WriteLogin(c) \/ WriteInvite(c) \/ WriteResend(c) \/ WriteRevoke(c) \/ WriteRemove(c)
    BY <1>3, <2>6 DEF WriteLogin, WriteInvite, WriteResend, WriteRevoke, WriteRemove
  <2>7. QED
    BY <1>1, <1>4, <2>1, <2>2, <2>3, <2>4, <2>5, <2>6
    DEF AccountsStep, ReadLogin, Logout, Authorize, ReadResetUser, ReadResetToken,
      DeliverEmail, ReadInvitation, ReadInvitationToken, ExpireInvitation, ReadInvitedUser,
      ReadUser, ReadRemainingAdmin, ReadBootstrapUser, FailCall, Refuse, tables
<1>5. QED
  BY <1>1, <1>4 DEF Next, vars

\* A reset link says "used" exactly when a reset has been made with it.
THEOREM LinkUse == Spec => []LinkTellsItsUse
<1>1. Init => LinkTellsItsUse
  BY AccountsAssumption DEF Init, LinkTellsItsUse, Happened, Ids
<1>2. QED
  BY <1>1, CoreInvariant, LinkStep, PTL DEF Spec

LEMMA AcceptanceStep ==
  ASSUME Core, AcceptanceIsKept, [Next]_vars
  PROVE  AcceptanceIsKept'
<1> USE AccountsAssumption
<1>0. AccountsTypeOK /\ CallsHold
  BY DEF Core
<1>1. ASSUME UNCHANGED <<invitations, audit>> PROVE AcceptanceIsKept'
  BY <1>1 DEF AcceptanceIsKept, Happened
\* A step that accepts nothing, and leaves what is accepted or gone as it was.
<1>2. ASSUME audit \subseteq audit',
             \A i \in Ids : Happened("invitation.accepted", i)' =>
                              Happened("invitation.accepted", i),
             \A i \in Ids : invitations'[i] # None /\ Happened("invitation.accepted", i) =>
               /\ invitations[i] # None
               /\ invitations[i].status = "accepted" => invitations'[i].status = "accepted"
      PROVE  AcceptanceIsKept'
  <2>1. \A i \in Ids : Happened("invitation.resent", i) => Happened("invitation.resent", i)'
    BY <1>2 DEF Happened
  <2>2. QED
    BY <1>2, <2>1 DEF AcceptanceIsKept
<1>3. ASSUME NEW a, a # "invitation.accepted", NEW by, NEW of, Audit(a, by, of)
      PROVE  /\ audit \subseteq audit'
             /\ \A i : Happened("invitation.accepted", i)' => Happened("invitation.accepted", i)
  BY <1>3, HappenedStep DEF Audit
<1>4. ASSUME NEW a, a # "invitation.accepted", NEW by, NEW of, Audit(a, by, of),
             UNCHANGED invitations
      PROVE  AcceptanceIsKept'
  BY <1>2, <1>3, <1>4
<1>5. ASSUME NEW i, NEW status
      PROVE  \A j \in Ids : /\ IfPending(i, status)[j] # None => invitations[j] # None
                            /\ invitations[j] # None /\ invitations[j].status = "accepted" =>
                                 IfPending(i, status)[j].status = "accepted"
  BY DEF IfPending
<1>6. ASSUME NEW c \in Calls, AccountsStep(c) PROVE AcceptanceIsKept'
  <2>0. c \in Ids
    BY DEF Ids
  <2>1. CASE WriteInvite(c)
    <3>1. ~Happened("invitation.accepted", c)
      BY <2>1, Fresh DEF WriteInvite, CanStart, At, Unnamed, Unwritten, Happened
    <3>2. \A i \in Ids \ {c} : invitations'[i] = invitations[i]
      BY <1>0, <2>1 DEF WriteInvite, AccountsTypeOK
    <3>3. /\ audit \subseteq audit'
          /\ \A i : Happened("invitation.accepted", i)' => Happened("invitation.accepted", i)
      BY <1>3, <2>1 DEF WriteInvite
    <3>4. QED
      BY <1>2, <3>1, <3>2, <3>3
  <2>2. CASE WriteResend(c)
    <3>1. PICK o : o = call[c].of
      OBVIOUS
    <3>2. Happened("invitation.resent", o)'
      <4>1. Audit("invitation.resent", call[c].user, o)
        BY <2>2, <3>1 DEF WriteResend
      <4>2. QED
        BY <4>1, HappenedStep
    <3>3. \A i \in Ids \ {o} : invitations'[i] = invitations[i]
      BY <1>0, <2>2, <3>1 DEF WriteResend, AccountsTypeOK
    <3>4. /\ audit \subseteq audit'
          /\ \A i : Happened("invitation.accepted", i)' => Happened("invitation.accepted", i)
      BY <1>3, <2>2 DEF WriteResend
    <3>5. \A i : Happened("invitation.resent", i) => Happened("invitation.resent", i)'
      BY <3>4 DEF Happened
    <3>6. QED
      BY <3>2, <3>3, <3>4, <3>5 DEF AcceptanceIsKept
  <2>3. CASE WriteRevoke(c)
    BY <1>2, <1>3, <1>5, <2>3 DEF WriteRevoke
  <2>4. CASE WriteRemove(c)
    <3>1. \A i \in Ids : invitations'[i] # None => invitations'[i] = invitations[i]
      BY <1>0, <2>4 DEF WriteRemove, AccountsTypeOK
    <3>2. /\ audit \subseteq audit'
          /\ \A i : Happened("invitation.accepted", i)' => Happened("invitation.accepted", i)
      BY <1>3, <2>4 DEF WriteRemove
    <3>3. QED
      BY <1>2, <3>1, <3>2
  <2>5. CASE ExpireInvitation(c)
    <3>1. UNCHANGED audit
      BY <2>5 DEF ExpireInvitation
    <3>2. \A i : Happened("invitation.accepted", i)' => Happened("invitation.accepted", i)
      BY <3>1 DEF Happened
    <3>3. QED
      BY <1>2, <1>5, <2>5, <3>1, <3>2 DEF ExpireInvitation
  <2>6. CASE WriteAccept(c)
    <3>1. CASE Refuse(c, "error")
      BY <1>1, <3>1 DEF Refuse, tables
    <3>2. CASE /\ Audit("invitation.accepted", c, call[c].of)
               /\ invitations' = [i \in Ids |->
                    IF i = call[c].of /\ invitations[i] # None
                      THEN [invitations[i] EXCEPT !.status = "accepted"]
                      ELSE invitations[i]]
      <4>1. PICK o : o = call[c].of
        OBVIOUS
      <4>2. \A i : Happened("invitation.accepted", i)' <=>
                     Happened("invitation.accepted", i) \/ i = o
        BY <3>2, <4>1, HappenedStep
      <4>3. \A i : Happened("invitation.resent", i)' <=> Happened("invitation.resent", i)
        BY <3>2, HappenedStep
      <4>4. \A i \in Ids : invitations[i] # None =>
              [invitations[i] EXCEPT !.status = "accepted"].status = "accepted"
        BY <1>0 DEF AccountsTypeOK, Invitation
      <4>5. QED
        BY <3>2, <4>1, <4>2, <4>3, <4>4 DEF AcceptanceIsKept
    <3>3. QED
      BY <2>6, <3>1, <3>2 DEF WriteAccept
  <2>7. CASE \/ WriteLogin(c) \/ WriteReset(c) \/ WriteConfirm(c) \/ WriteDelete(c)
             \/ WriteBootstrap(c)
    BY <1>1, <1>4, <2>7 DEF WriteLogin, WriteReset, WriteConfirm, WriteDelete, WriteBootstrap,
      Refuse, tables
  <2>8. QED
    BY <1>1, <1>6, <2>1, <2>2, <2>3, <2>4, <2>5, <2>6, <2>7
    DEF AccountsStep, ReadLogin, Logout, Authorize, ReadResetUser, ReadResetToken, ExpireReset,
      DeliverEmail, ReadInvitation, ReadInvitationToken, ReadInvitedUser,
      ReadUser, ReadRemainingAdmin, ReadBootstrapUser, FailCall, Refuse, tables
<1>7. QED
  BY <1>1, <1>6 DEF Next, vars

\* An accepted invitation stays accepted until it is resent.
THEOREM AcceptanceKept == Spec => []AcceptanceIsKept
<1>1. Init => AcceptanceIsKept
  BY DEF Init, AcceptanceIsKept, Happened
<1>2. QED
  BY <1>1, CoreInvariant, AcceptanceStep, PTL DEF Spec

-----------------------------------------------------------------------------
(* Seen from the accounts and the sessions that work, a request does one     *)
(* thing at once or nothing.                                                 *)

\* A request is spent once, by the step that has its effect.
LEMMA SpentStep ==
  ASSUME AccountsTypeOK, NEW c \in Calls, AccountsStep(c)
  PROVE  Spent' = Spent \/ (c \notin Spent /\ Spent' = Spent \cup {c})
<1>1. \A d \in Calls \ {c} : call'[d] = call[d]
  BY OthersUnchanged
<1>2. ASSUME NEW a, Refuse(c, a) \/ Answer(c, a) PROVE call'[c].pc = "done"
  BY <1>2 DEF Refuse, Answer, Become, AccountsTypeOK, CallState, Idle
<1>3. ASSUME call[c].pc \in {"mail", "done"} PROVE call'[c].pc = "done"
  BY <1>2, <1>3
  DEF AccountsStep, ReadLogin, WriteLogin, Logout, Authorize, ReadResetUser, WriteReset,
    ReadResetToken, ExpireReset, WriteConfirm, WriteInvite, DeliverEmail, ReadInvitation,
    WriteResend, WriteRevoke, WriteRemove, ReadInvitationToken, ExpireInvitation,
    ReadInvitedUser, WriteAccept, ReadUser, ReadRemainingAdmin, WriteDelete,
    ReadBootstrapUser, WriteBootstrap, FailCall, At, CanStart
<1>4. QED
  BY <1>1, <1>3 DEF Spent

\* The step that writes rows and answers in one spends its request.
LEMMA AnswerSpends ==
  ASSUME AccountsTypeOK, NEW c \in Calls, NEW a, Answer(c, a), call[c].pc \notin {"mail", "done"}
  PROVE  c \notin Spent /\ Spent' = Spent \cup {c}
<1>1. /\ call'[c].pc = "done"
      /\ \A d \in Calls \ {c} : call'[d] = call[d]
  BY DEF Answer, Become, AccountsTypeOK, CallState
<1>2. QED
  BY <1>1 DEF Spent

LEMMA SessionUser ==
  ASSUME AccountsTypeOK, NEW s \in Ids, sessions[s] # None
  PROVE  sessions[s] \in Session /\ sessions[s].user \in Ids
BY DEF AccountsTypeOK, Session

LEMMA Opened ==
  ASSUME AccountsTypeOK, NEW c \in Ids, NEW u \in Ids, NEW password \in Ids \cup {None}
  PROVE  /\ OpenSession(c, u, password) # None
         /\ OpenSession(c, u, password).user = u
         /\ ~OpenSession(c, u, password).revoked
<1>1. OpenSession(c, u, password) \in Session
  BY DEF OpenSession, Session
<1>2. QED
  BY <1>1, AccountsAssumption DEF OpenSession

\* A revocation, of a session that worked or not.
LEMMA RevokeSignsOut ==
  ASSUME AccountsTypeOK, NEW s \in Ids, sessions[s] # None, Revoke(s),
         UNCHANGED <<users, credential>>
  PROVE  Directory!SignOut
<1>1. sessions' = [sessions EXCEPT ![s] = [sessions[s] EXCEPT !.revoked = TRUE]]
  BY DEF Revoke
<1>2. sessions'[s].revoked
  BY <1>1, SessionUser DEF AccountsTypeOK, Session
<1>3. \A r \in Ids \ {s} : sessions'[r] = sessions[r]
  BY <1>1 DEF AccountsTypeOK
<1>4. Live' = [Live EXCEPT ![s] = None]
  BY <1>2, <1>3 DEF Live, Works
<1>5. UNCHANGED <<users, Password>>
  BY DEF Password
<1>6. QED
  BY <1>4, <1>5 DEF Directory!SignOut

LEMMA LoginSignsIn ==
  ASSUME Core, NEW c \in Calls, WriteLogin(c)
  PROVE  Directory!SignIn(c) \/ Directory!Refuse
<1> DEFINE u == call[c].user
<1>1. AccountsTypeOK /\ Unnamed(c) /\ c \in Ids /\ u \in Ids
  BY Fresh DEF Core, WriteLogin, At, CallsHold, Holds, Ids
<1>2. /\ sessions' = [sessions EXCEPT ![c] = OpenSession(c, u, credential[u])]
      /\ UNCHANGED <<users, credential>>
  BY DEF WriteLogin
<1>3. credential[u] \in Ids \cup {None}
  BY <1>1 DEF AccountsTypeOK
<1>4. /\ sessions'[c] = OpenSession(c, u, credential[u])
      /\ sessions[c] = None
      /\ \A s \in Ids \ {c} : sessions'[s] = sessions[s]
  BY <1>1, <1>2 DEF AccountsTypeOK, Unnamed, Unwritten
<1>5. UNCHANGED Password
  BY <1>2 DEF Password
<1>6. CASE users[u] # None
  <2>1. Live' = [Live EXCEPT ![c] = u]
    <3>1. Works(c)' /\ sessions'[c].user = u
      BY <1>1, <1>2, <1>3, <1>4, <1>6, Opened DEF Works
    <3>2. \A s \in Ids \ {c} : (Works(s)' <=> Works(s)) /\ sessions'[s] = sessions[s]
      BY <1>2, <1>4 DEF Works
    <3>3. QED
      BY <1>1, <3>1, <3>2 DEF Live
  <2>2. QED
    BY <1>1, <1>2, <1>5, <1>6, <2>1 DEF Directory!SignIn
<1>7. CASE users[u] = None
  <2>1. Live' = Live
    BY <1>1, <1>2, <1>3, <1>4, <1>7, Opened DEF Live, Works
  <2>2. QED
    BY <1>2, <1>5, <2>1 DEF Directory!Refuse
<1>8. QED
  BY <1>6, <1>7

\* What revoking the sessions of u leaves to the others, whether u is there or not.
LEMMA RevokedOfLive ==
  ASSUME AccountsTypeOK, NEW u \in Ids, NEW s \in Ids
  PROVE  (IF /\ RevokedOf(u)[s] # None /\ ~RevokedOf(u)[s].revoked
             /\ users[RevokedOf(u)[s].user] # None
          THEN RevokedOf(u)[s].user ELSE None)
         = Directory!LiveWithout(u)[s]
<1>1. Directory!LiveWithout(u)[s] = IF Live[s] = u THEN None ELSE Live[s]
  BY DEF Directory!LiveWithout
<1>2. Live[s] = IF Works(s) THEN sessions[s].user ELSE None
  BY DEF Live
<1>3. u # None
  BY AccountsAssumption
<1>4. CASE sessions[s] # None /\ sessions[s].user = u
  BY <1>1, <1>2, <1>3, <1>4, RevokedOfMember
<1>5. CASE ~(sessions[s] # None /\ sessions[s].user = u)
  <2>1. RevokedOf(u)[s] = sessions[s]
    BY <1>5 DEF RevokedOf
  <2>2. QED
    BY <1>1, <1>2, <1>5, <2>1 DEF Works
<1>6. QED
  BY <1>4, <1>5

LEMMA NobodyLive ==
  ASSUME AccountsTypeOK, NEW u \in Ids, users[u] = None
  PROVE  Directory!LiveWithout(u) = Live
BY AccountsAssumption DEF Directory!LiveWithout, Live, Works

LEMMA ConfirmChanges ==
  ASSUME Core, NEW c \in Calls, WriteConfirm(c)
  PROVE  Directory!ChangePassword(c) \/ Directory!Refuse
<1> DEFINE u == call[c].user
<1>1. AccountsTypeOK /\ AuditTellsWhoExists /\ c \in Ids /\ u \in Ids
  BY DEF Core, WriteConfirm, At, CallsHold, Holds, Ids
<1>2. /\ credential' = [v \in Ids |-> IF v = u /\ credential[v] # None THEN c ELSE credential[v]]
      /\ sessions' = RevokedOf(u) /\ users' = users
  BY DEF WriteConfirm
<1>3. Live' = Directory!LiveWithout(u)
  <2>1. \A s \in Ids : Live'[s] = Directory!LiveWithout(u)[s]
    BY <1>1, <1>2, RevokedOfLive DEF Live, Works
  <2>2. QED
    BY <2>1 DEF Live, Directory!LiveWithout
<1>4. CASE users[u] # None
  <2>1. credential[u] # None
    BY <1>1, <1>4 DEF AuditTellsWhoExists, Existing
  <2>2. Password' = [Password EXCEPT ![u] = c]
    BY <1>1, <1>2, <1>4, <2>1 DEF Password
  <2>3. QED
    BY <1>1, <1>2, <1>3, <1>4, <2>2 DEF Directory!ChangePassword
<1>5. CASE users[u] = None
  <2>1. Password' = Password
    BY <1>1, <1>2, <1>5 DEF Password
  <2>2. QED
    BY <1>1, <1>2, <1>3, <1>5, <2>1, NobodyLive DEF Directory!Refuse
<1>6. QED
  BY <1>4, <1>5

LEMMA InsertJoins ==
  ASSUME Core, NEW c \in Calls, InsertUser(c), call[c].pc = "write",
         call[c].email \in Emails, call[c].role \in RoleNames
  PROVE  Directory!Join(c)
<1>1. AccountsTypeOK /\ Unnamed(c) /\ c \in Ids
  BY Fresh DEF Core, Ids
<1>2. /\ users' = [users EXCEPT ![c] = [email |-> call[c].email, role |-> call[c].role]]
      /\ credential' = [credential EXCEPT ![c] = c]
      /\ sessions' = [sessions EXCEPT ![c] = OpenSession(c, c, c)]
      /\ ~EmailTaken(call[c].email)
  BY DEF InsertUser
<1>3. ~Directory!Taken(call[c].email)
  BY <1>2 DEF EmailTaken, UserWithEmail, Existing, Directory!Taken
<1>4. users'[c] # None
  <2>1. [email |-> call[c].email, role |-> call[c].role] \in Account
    BY DEF Account
  <2>2. QED
    BY <1>1, <1>2, <2>1, AccountsAssumption DEF AccountsTypeOK
<1>5. Password' = [Password EXCEPT ![c] = c]
  BY <1>1, <1>2, <1>4 DEF Password, AccountsTypeOK
<1>6. Live' = [Live EXCEPT ![c] = c]
  <2>1. /\ sessions'[c] = OpenSession(c, c, c)
        /\ \A s \in Ids \ {c} : sessions'[s] = sessions[s]
    BY <1>1, <1>2 DEF AccountsTypeOK
  <2>2. \A s \in Ids : sessions[s] # None => users'[sessions[s].user] = users[sessions[s].user]
    BY <1>1, <1>2, SessionUser DEF AccountsTypeOK, Unnamed, Unwritten
  <2>3. \A s \in Ids \ {c} : Works(s)' <=> Works(s)
    BY <2>1, <2>2 DEF Works
  <2>4. Works(c)' /\ sessions'[c].user = c
    BY <1>1, <1>4, <2>1, Opened DEF Works
  <2>5. QED
    BY <2>1, <2>3, <2>4 DEF Live
<1>7. QED
  BY <1>2, <1>3, <1>5, <1>6 DEF Directory!Join

LEMMA DeleteRemoves ==
  ASSUME Core, NEW c \in Calls, WriteDelete(c)
  PROVE  Directory!Remove \/ Directory!Refuse
<1> DEFINE u == call[c].of
<1>1. AccountsTypeOK /\ u \in Ids
  BY DEF Core, WriteDelete, At, CallsHold, Holds
<1>2. /\ users' = [users EXCEPT ![u] = None]
      /\ credential' = [credential EXCEPT ![u] = None]
      /\ sessions' = [s \in Ids |->
           IF sessions[s] # None /\ sessions[s].user = u THEN None ELSE sessions[s]]
  BY DEF WriteDelete
<1>3. Password' = [Password EXCEPT ![u] = None]
  BY <1>1, <1>2 DEF Password, AccountsTypeOK
<1>4. Live' = Directory!LiveWithout(u)
  <2>1. ASSUME NEW s \in Ids PROVE Live'[s] = IF Live[s] = u THEN None ELSE Live[s]
    <3>1. u # None
      BY <1>1, AccountsAssumption
    <3>2. CASE sessions[s] # None /\ sessions[s].user = u
      BY <1>2, <3>1, <3>2 DEF Live, Works
    <3>3. CASE sessions[s] # None /\ sessions[s].user # u
      <4>1. users'[sessions[s].user] = users[sessions[s].user] /\ sessions'[s] = sessions[s]
        BY <1>1, <1>2, <3>3, SessionUser DEF AccountsTypeOK
      <4>2. QED
        BY <3>3, <4>1, <3>1 DEF Live, Works
    <3>4. CASE sessions[s] = None
      BY <1>2, <3>1, <3>4 DEF Live, Works
    <3>5. QED
      BY <3>2, <3>3, <3>4
  <2>2. QED
    BY <2>1 DEF Live, Directory!LiveWithout
<1>5. CASE users[u] # None
  BY <1>1, <1>2, <1>3, <1>4, <1>5 DEF Directory!Remove
<1>6. CASE users[u] = None
  <2>1. users' = users
    BY <1>1, <1>2, <1>6 DEF AccountsTypeOK
  <2>2. Password' = Password
    BY <1>1, <1>3, <1>6 DEF Password
  <2>3. QED
    BY <1>1, <1>4, <1>6, <2>1, <2>2, NobodyLive DEF Directory!Refuse
<1>7. QED
  BY <1>5, <1>6

LEMMA RewriteTakesOver ==
  ASSUME Core, NEW c \in Calls, NEW u \in Ids, RewriteUser(c, u), call[c].pc = "write",
         call[c].role \in RoleNames
  PROVE  Directory!TakeOver(c) \/ Directory!Refuse
<1>1. AccountsTypeOK /\ Unnamed(c) /\ c \in Ids
  BY Fresh DEF Core, Ids
<1>2. /\ users' = [v \in Ids |->
           IF v = u /\ users[v] # None THEN [users[v] EXCEPT !.role = call[c].role] ELSE users[v]]
      /\ credential' = [credential EXCEPT ![u] = c]
  BY DEF RewriteUser
<1>3. /\ sessions'[c] = OpenSession(c, u, c)
      /\ \A s \in Ids \ {c} : sessions'[s] = RevokedOf(u)[s]
  BY <1>1 DEF RewriteUser, RevokedOf
<1>4. \A v \in Ids : users'[v] # None <=> users[v] # None
  <2>1. ASSUME NEW v \in Ids, users[v] # None
        PROVE  [users[v] EXCEPT !.role = call[c].role] \in Account
    BY <1>1, <2>1 DEF AccountsTypeOK, Account
  <2>2. QED
    BY <1>2, <2>1, AccountsAssumption
<1>5. ASSUME NEW s \in Ids \ {c} PROVE Live'[s] = Directory!LiveWithout(u)[s]
  <2>1. RevokedOf(u)[s] # None => RevokedOf(u)[s].user \in Ids
    BY <1>1, RevokedOfMember, SessionUser
  <2>2. Works(s)' <=> /\ RevokedOf(u)[s] # None /\ ~RevokedOf(u)[s].revoked
                      /\ users[RevokedOf(u)[s].user] # None
    BY <1>3, <1>4, <2>1 DEF Works
  <2>3. QED
    BY <1>1, <1>3, <2>2, RevokedOfLive DEF Live
<1>6. Live'[c] = IF users[u] # None THEN u ELSE None
  BY <1>1, <1>3, <1>4, Opened DEF Live, Works
<1>7. CASE users[u] # None
  <2>1. users' = [users EXCEPT ![u].role = call[c].role]
    BY <1>1, <1>2, <1>7 DEF AccountsTypeOK
  <2>2. Password' = [Password EXCEPT ![u] = c]
    BY <1>1, <1>2, <1>4, <1>7 DEF Password, AccountsTypeOK
  <2>3. Live' = [Directory!LiveWithout(u) EXCEPT ![c] = u]
    <3>1. \A s \in Ids : Live'[s] = IF s = c THEN u ELSE Directory!LiveWithout(u)[s]
      BY <1>5, <1>6, <1>7
    <3>2. QED
      BY <3>1 DEF Live, Directory!LiveWithout
  <2>4. QED
    BY <1>7, <2>1, <2>2, <2>3 DEF Directory!TakeOver
<1>8. CASE users[u] = None
  <2>1. users' = users
    BY <1>1, <1>2, <1>8 DEF AccountsTypeOK
  <2>2. Password' = Password
    BY <1>1, <1>2, <1>8, <2>1 DEF Password, AccountsTypeOK
  <2>3. Live[c] = None
    BY <1>1 DEF Live, Works, Unnamed, Unwritten
  <2>4. \A s \in Ids : Live'[s] = Live[s]
    BY <1>1, <1>5, <1>6, <1>8, <2>3, NobodyLive
  <2>5. Live' = Live
    BY <2>4 DEF Live
  <2>6. QED
    BY <2>1, <2>2, <2>5 DEF Directory!Refuse
<1>9. QED
  BY <1>7, <1>8

LEMMA StepIsAct ==
  ASSUME Core, [Next]_vars
  PROVE  [\E c \in Calls : Directory!Act(c)]_(Directory!directoryVars)
<1>0. AccountsTypeOK /\ CallsHold
  BY DEF Core
<1>1. SUFFICES UNCHANGED Directory!directoryVars \/ \E c \in Calls : Directory!Act(c)
  OBVIOUS
<1>2. CASE UNCHANGED vars
  BY <1>2 DEF vars, Directory!directoryVars, Password, Live, Works, Spent
<1>3. ASSUME NEW c \in Calls, AccountsStep(c), Directory!Effect(c), Spent' # Spent
      PROVE  Directory!Act(c)
  BY <1>0, <1>3, SpentStep DEF Directory!Act
<1>4. ASSUME NEW c \in Calls, NEW a, AccountsStep(c), Answer(c, a),
             call[c].pc \notin {"mail", "done"}, Directory!Effect(c)
      PROVE  Directory!Act(c)
  BY <1>0, <1>4, AnswerSpends DEF Directory!Act
<1>5. ASSUME NEW c \in Calls, AccountsStep(c), UNCHANGED <<users, credential, sessions>>
      PROVE  UNCHANGED Directory!directoryVars \/ Directory!Act(c)
  <2>1. UNCHANGED <<users, Password, Live>>
    BY <1>5 DEF Password, Live, Works
  <2>2. Directory!Effect(c)
    BY <2>1 DEF Directory!Effect, Directory!Refuse
  <2>3. QED
    BY <1>3, <1>5, <2>1, <2>2 DEF Directory!directoryVars
<1>6. ASSUME NEW c \in Calls, AccountsStep(c)
      PROVE  UNCHANGED Directory!directoryVars \/ Directory!Act(c)
  <2>1. CASE WriteLogin(c)
    BY <1>4, <1>6, <2>1, LoginSignsIn DEF WriteLogin, At, Directory!Effect
  <2>2. CASE Logout(c)
    <3>1. PICK s \in Ids : sessions[s] # None /\ Revoke(s)
      BY <2>2 DEF Logout
    <3>2. Directory!Effect(c)
      BY <1>0, <2>2, <3>1, RevokeSignsOut DEF Logout, Directory!Effect
    <3>3. QED
      BY <1>4, <1>6, <2>2, <3>2 DEF Logout, CanStart
  <2>3. CASE Authorize(c)
    <3>1. CASE UNCHANGED tables
      BY <1>5, <1>6, <3>1 DEF tables
    <3>2. CASE \E s \in Ids : sessions[s] # None /\ Revoke(s) /\ Answer(c, "unauthorized")
                              /\ UNCHANGED <<users, credential>>
      <4>1. Directory!Effect(c)
        BY <1>0, <3>2, RevokeSignsOut DEF Directory!Effect
      <4>2. QED
        BY <1>4, <1>6, <2>3, <3>2, <4>1 DEF Authorize, CanStart
    <3>3. QED
      BY <2>3, <3>1, <3>2 DEF Authorize, Refuse
  <2>4. CASE WriteConfirm(c)
    BY <1>4, <1>6, <2>4, ConfirmChanges DEF WriteConfirm, At, Directory!Effect
  <2>5. CASE WriteAccept(c)
    <3>1. CASE UNCHANGED tables
      BY <1>5, <1>6, <3>1 DEF tables
    <3>2. CASE InsertUser(c) /\ Answer(c, "ok")
      <4>1. call[c].email \in Emails /\ call[c].role \in RoleNames
        BY <1>0, <2>5 DEF WriteAccept, At, CallsHold, Holds
      <4>2. Directory!Join(c)
        BY <2>5, <3>2, <4>1, InsertJoins DEF WriteAccept, At
      <4>3. QED
        BY <1>4, <1>6, <2>5, <3>2, <4>2 DEF WriteAccept, At, Directory!Effect
    <3>3. QED
      BY <2>5, <3>1, <3>2 DEF WriteAccept, Refuse
  <2>6. CASE WriteDelete(c)
    BY <1>4, <1>6, <2>6, DeleteRemoves DEF WriteDelete, At, Directory!Effect
  <2>7. CASE WriteBootstrap(c)
    <3>1. /\ call[c].email \in Emails /\ call[c].role \in RoleNames
          /\ call[c].user # None => call[c].user \in Ids
          /\ call[c].pc = "write"
      BY <1>0, <2>7 DEF WriteBootstrap, At, CallsHold, Holds
    <3>2. CASE UNCHANGED tables
      BY <1>5, <1>6, <3>2 DEF tables
    <3>3. CASE InsertUser(c) /\ Answer(c, "ok")
      BY <1>4, <1>6, <3>1, <3>3, InsertJoins DEF Directory!Effect
    <3>4. CASE call[c].user # None /\ RewriteUser(c, call[c].user) /\ Answer(c, "ok")
      BY <1>4, <1>6, <3>1, <3>4, RewriteTakesOver DEF Directory!Effect
    <3>5. QED
      BY <2>7, <3>2, <3>3, <3>4 DEF WriteBootstrap, Refuse
  <2>8. QED
    BY <1>5, <1>6, <2>1, <2>2, <2>3, <2>4, <2>5, <2>6, <2>7
    DEF AccountsStep, ReadLogin, ReadResetUser, WriteReset, ReadResetToken, ExpireReset,
      WriteInvite, DeliverEmail, ReadInvitation, WriteResend, WriteRevoke, WriteRemove,
      ReadInvitationToken, ExpireInvitation, ReadInvitedUser, ReadUser, ReadRemainingAdmin,
      ReadBootstrapUser, FailCall, Refuse, tables
<1>7. QED
  BY <1>2, <1>6 DEF Next

\* However logins, resets, invitations, deletions and the bootstrap overlap, seen from
\* the accounts and the sessions that work every request does one thing at once or
\* nothing: an address has one account, a changed password takes its sessions with
\* it, and neither a deleted account nor a closed session ever works again.
THEOREM AccountsAreDirectory == Spec => ImplementsUserDirectory
<1>1. Init => Directory!DirectoryInit
  <2>1. SUFFICES ASSUME Init PROVE Directory!DirectoryInit
    OBVIOUS
  <2>2. ASSUME NEW u \in Founders
        PROVE  [email |-> u, role |-> "admin"] # None /\ u \in Ids /\ u # None
    <3>1. [email |-> u, role |-> "admin"] \in Account
      BY AccountsAssumption DEF Account, RoleNames
    <3>2. QED
      BY <3>1, AccountsAssumption DEF Ids
  <2>3. \A u \in Ids : users[u] # None <=> u \in Founders
    BY <2>1, <2>2 DEF Init
  <2>4. \A u \in Ids : Password[u] # None <=> users[u] # None
    BY <2>1, <2>2, <2>3 DEF Init, Password
  <2>5. \A s \in Ids : Live[s] # None => users[Live[s]] # None
    BY DEF Live, Works
  <2>6. Spent = {}
    BY <2>1 DEF Init, Idle, Spent
  <2>7. QED
    BY <2>4, <2>5, <2>6 DEF Directory!DirectoryInit
<1>2. Core /\ [Next]_vars => [\E c \in Calls : Directory!Act(c)]_(Directory!directoryVars)
  BY StepIsAct
<1>3. QED
  BY <1>1, <1>2, CoreInvariant, PTL DEF Spec, ImplementsUserDirectory, Directory!DirectorySpec

\* No row that is written late brings a deleted account or a closed session back
\* (auth-login-record.ts and auth-local-bootstrap-record.ts write for a user they read
\* an await before and do not look again).
THEOREM OverStays == Spec => OverStaysOver
<1> DEFINE Stays == \A i \in Emails \cup Spent :
                      /\ users[i] = None => users'[i] = None
                      /\ Live[i] = None => Live'[i] = None
<1>1. Core /\ [Next]_vars => [Stays]_vars
  <2>1. SUFFICES ASSUME Core, [Next]_vars, NEW i \in Emails \cup Spent
                 PROVE  /\ users[i] = None => users'[i] = None
                        /\ Live[i] = None => Live'[i] = None
    OBVIOUS
  <2>2. AccountsTypeOK /\ i \in Ids /\ Live \in [Ids -> Ids \cup {None}] /\ None \notin Ids
    BY <2>1, SessionUser, AccountsAssumption DEF Core, Spent, Ids, Live, Works
  <2>3. CASE UNCHANGED Directory!directoryVars
    BY <2>3 DEF Directory!directoryVars
  <2>4. ASSUME NEW c \in Calls, Directory!Act(c)
        PROVE  /\ users[i] = None => users'[i] = None
               /\ Live[i] = None => Live'[i] = None
    <3>1. i # c
      BY <2>1, <2>4, AccountsAssumption DEF Directory!Act
    <3>2. CASE Directory!Join(c)
      BY <2>2, <3>1, <3>2 DEF Directory!Join, AccountsTypeOK
    <3>3. CASE Directory!SignIn(c) \/ Directory!SignOut \/ Directory!Refuse
      BY <2>2, <3>1, <3>3 DEF Directory!SignIn, Directory!SignOut, Directory!Refuse
    <3>4. CASE Directory!ChangePassword(c)
      BY <2>2, <3>4 DEF Directory!ChangePassword, Directory!LiveWithout
    <3>5. CASE Directory!TakeOver(c)
      BY <2>2, <3>1, <3>5 DEF Directory!TakeOver, Directory!LiveWithout, AccountsTypeOK
    <3>6. CASE Directory!Remove
      BY <2>2, <3>6 DEF Directory!Remove, Directory!LiveWithout, AccountsTypeOK
    <3>7. QED
      BY <2>4, <3>2, <3>3, <3>4, <3>5, <3>6 DEF Directory!Act, Directory!Effect
  <2>5. QED
    BY <2>1, <2>3, <2>4, StepIsAct
<1>2. QED
  BY <1>1, CoreInvariant, PTL DEF Spec, OverStaysOver

=============================================================================
