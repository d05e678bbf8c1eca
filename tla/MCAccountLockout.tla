-------------------------- MODULE MCAccountLockout --------------------------
(* TLC instances of AccountLockout.                                         *)
EXTENDS AccountLockout, TLC

Symmetry == Permutations(Logins)
=============================================================================
