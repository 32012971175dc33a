---------------------------- MODULE CommitLedger ----------------------------
(***************************************************************************)
(* What review and commit promise whoever reads the committed rows,        *)
(* whatever requests race: a record is committed at most once, for good,   *)
(* only after a reviewer approved it, and a commit writes all of its rows  *)
(* or none.  ImportReview implements it.                                   *)
(***************************************************************************)
CONSTANTS Records,   \* staged record keys of one import job
          Ids,       \* identities of commits
          NoId       \* the id of a record that has no committed row

VARIABLES approvedEver,   \* the records some decision approved
          row             \* the commit that wrote each record's row

ledgerVars == <<approvedEver, row>>

LedgerInit ==
  /\ approvedEver = {}
  /\ row = [r \in Records |-> NoId]

\* A reviewer approves some records.
Approve ==
  /\ \E rs \in SUBSET Records : approvedEver' = approvedEver \cup rs
  /\ UNCHANGED row

\* A commit writes the rows of approved records that have none.
Commit(id) ==
  /\ \E rs \in SUBSET approvedEver :
       /\ \A r \in rs : row[r] = NoId
       /\ row' = [r \in Records |-> IF r \in rs THEN id ELSE row[r]]
  /\ UNCHANGED approvedEver

LedgerNext == Approve \/ \E id \in Ids : Commit(id)

LedgerSpec == LedgerInit /\ [][LedgerNext]_ledgerVars

=============================================================================
