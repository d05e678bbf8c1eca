-------------------------- MODULE MCTokenLifecycle --------------------------
(* TLC instances of TokenLifecycle: which session belongs to which user.    *)
EXTENDS TokenLifecycle, TLC

CONSTANTS u1, u2, s1, s2

OneSession == [s \in {s1} |-> u1]
TwoUsers == s1 :> u1 @@ s2 :> u2

Symmetry == Permutations(Reqs)
=============================================================================
