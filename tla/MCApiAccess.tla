---------------------------- MODULE MCApiAccess ----------------------------
(* ApiAccess for TLC: two founders share a workspace, the third has one of   *)
(* its own.                                                                  *)
EXTENDS ApiAccess, TLC

CONSTANTS f1, f2, g, here, there

TwoWorkspaces == f1 :> here @@ f2 :> here @@ g :> there

Asked == {{"*"}, {"api_clients:write"}, {"connectors:write", "processors:invoke"}, {"unknown"}}

Symmetry == Permutations(Calls) \cup Permutations({f1, f2})

=============================================================================
