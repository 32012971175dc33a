-------------------------- MODULE MCImportPipeline --------------------------
(* ImportPipeline for TLC. *)
EXTENDS ImportPipeline, TLC

Symmetry == Permutations(Consumers) \cup Permutations(Retries) \cup
            Permutations(Calls) \cup Permutations(Records)

=============================================================================
