--------------------------- MODULE MCImportReview ---------------------------
(* ImportReview for TLC: requests and records are interchangeable. *)
EXTENDS ImportReview, TLC

Symmetry == Permutations(Calls) \cup Permutations(Records)

=============================================================================
