----------------------------- MODULE MCAdvisory -----------------------------
(* Advisory for TLC: requests, retries and records are interchangeable. *)
EXTENDS Advisory, TLC

Symmetry == Permutations(Calls) \cup Permutations(Retries) \cup
            Permutations(Records) \cup Permutations(Asks)

=============================================================================
