---------------------------- MODULE MCKeyService ----------------------------
(* One reader with one permit, another with one, two publications, of      *)
(* which the first ends before the second.                                 *)
EXTENDS KeyService, TLC

MCStateEnd == (1 :> 3) @@ (2 :> 4)
MCLimits == [challengeSeconds |-> 2, keySeconds |-> 2, windowSeconds |-> 2, requests |-> 3,
             replayEntries |-> 2, concurrent |-> 2]
=============================================================================
