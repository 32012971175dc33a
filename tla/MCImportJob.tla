----------------------------- MODULE MCImportJob -----------------------------
(* ImportJob for TLC: consumers, and retries, are interchangeable. *)
EXTENDS ImportJob, TLC

Symmetry == Permutations(Consumers) \cup Permutations(Retries)

AllFaults == FaultKind

=============================================================================
