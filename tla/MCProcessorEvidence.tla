------------------------- MODULE MCProcessorEvidence -------------------------
(* Symmetry for TLC: requests and messages are interchangeable. *)
EXTENDS ProcessorEvidence, TLC

Symmetry == Permutations(Calls) \cup Permutations(Messages)

=============================================================================
