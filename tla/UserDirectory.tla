---------------------------- MODULE UserDirectory ----------------------------
(***************************************************************************)
(* Who may act, as docs/architecture/auth-security.md promises it: the     *)
(* accounts, the password of each, and the sessions that work, without     *)
(* the links, checks and audit rows by which the routes get there.  An     *)
(* address has one account; a password is replaced together with the       *)
(* sessions it opened; an account goes with its password and sessions; and *)
(* what is over, an account or a session, is over for good, as every       *)
(* request makes what it makes under its own name.  Accounts implements it.*)
(***************************************************************************)

CONSTANTS Requests, Ids, Emails, Roles, None

VARIABLES accounts,  \* the account of an id, or None
          password,  \* the request that set the password of an id, or None
          live,      \* the account a working session belongs to, None for the others
          spent      \* the requests that have had their effect

directoryVars == <<accounts, password, live, spent>>

Taken(email) == \E u \in Ids : accounts[u] # None /\ accounts[u].email = email

\* The sessions of everybody else.
LiveWithout(u) == [s \in Ids |-> IF live[s] = u THEN None ELSE live[s]]

DirectoryInit ==
  /\ \A u \in Ids : password[u] # None <=> accounts[u] # None
  /\ \A s \in Ids : live[s] # None => accounts[live[s]] # None
  /\ spent = {}

Join(c) ==
  /\ \E email \in Emails, role \in Roles :
       /\ ~Taken(email)
       /\ accounts' = [accounts EXCEPT ![c] = [email |-> email, role |-> role]]
  /\ password' = [password EXCEPT ![c] = c]
  /\ live' = [live EXCEPT ![c] = c]

SignIn(c) ==
  /\ \E u \in Ids : accounts[u] # None /\ live' = [live EXCEPT ![c] = u]
  /\ UNCHANGED <<accounts, password>>

SignOut ==
  /\ \E s \in Ids : live' = [live EXCEPT ![s] = None]
  /\ UNCHANGED <<accounts, password>>

ChangePassword(c) ==
  /\ \E u \in Ids :
       /\ accounts[u] # None
       /\ password' = [password EXCEPT ![u] = c]
       /\ live' = LiveWithout(u)
  /\ UNCHANGED accounts

\* An operator takes an account over: role, password and a session at once.
TakeOver(c) ==
  \E u \in Ids, role \in Roles :
    /\ accounts[u] # None
    /\ accounts' = [accounts EXCEPT ![u].role = role]
    /\ password' = [password EXCEPT ![u] = c]
    /\ live' = [LiveWithout(u) EXCEPT ![c] = u]

Remove ==
  \E u \in Ids :
    /\ accounts[u] # None
    /\ accounts' = [accounts EXCEPT ![u] = None]
    /\ password' = [password EXCEPT ![u] = None]
    /\ live' = LiveWithout(u)

Refuse == UNCHANGED <<accounts, password, live>>

Effect(c) ==
  \/ Join(c) \/ SignIn(c) \/ SignOut \/ ChangePassword(c) \/ TakeOver(c) \/ Remove \/ Refuse

Act(c) == c \notin spent /\ spent' = spent \cup {c} /\ Effect(c)

DirectorySpec == DirectoryInit /\ [][\E c \in Requests : Act(c)]_directoryVars

=============================================================================
