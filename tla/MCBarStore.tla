----------------------------- MODULE MCBarStore -----------------------------
(* TLC instance of BarStore: every key is used for one of two codes.        *)
EXTENDS BarStore, TLC

CONSTANTS exp1, exp2, k1

MCCodes == {exp1, exp2}
MCKeys == {k1}
MCBodyOf == k1 :> exp1

Symmetry == Permutations(Requests) \cup Permutations(Ids)
=============================================================================
