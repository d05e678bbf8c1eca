------------------------- MODULE MCPermissionCache --------------------------
(* TLC instances of PermissionCache.                                        *)
EXTENDS PermissionCache, TLC

Symmetry == Permutations(Logins) \cup Permutations(Checks)
=============================================================================
