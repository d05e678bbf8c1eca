--------------------------- MODULE MCClaudeModal ----------------------------
(* TLC instance of ClaudeModal. *)
EXTENDS ClaudeModal, TLC

Symmetry == Permutations(Loads) \cup Permutations(Posts) \cup Permutations(ExecIds)
=============================================================================
