----------------------------- MODULE MCAccounts -----------------------------
(* Accounts for TLC: requests and addresses are interchangeable, founders    *)
(* among themselves.                                                         *)
EXTENDS Accounts, TLC

Symmetry == Permutations(Calls) \cup Permutations(Founders) \cup
            Permutations(Emails \ Founders)

=============================================================================
