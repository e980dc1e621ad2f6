--------------------------- MODULE MCAccountState ---------------------------
(* AccountState under a policy of six seconds, windows of two.             *)
EXTENDS AccountState, TLC

EventSymmetry == Permutations(Events)
=============================================================================
