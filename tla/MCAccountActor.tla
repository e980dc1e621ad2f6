--------------------------- MODULE MCAccountActor ---------------------------
(* AccountActor with two processes on one device and one on another.       *)
EXTENDS AccountActor, TLC

CONSTANTS tab1, tab2, other, dev1, dev2

MCDeviceOf == [a \in Actors |-> IF a = other THEN dev2 ELSE dev1]

Symmetry == Permutations(Ids) \cup Permutations({tab1, tab2})
=============================================================================
