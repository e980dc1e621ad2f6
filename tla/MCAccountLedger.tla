-------------------------- MODULE MCAccountLedger --------------------------
(***************************************************************************)
(* AccountLedger with two handles and the requests that compete: two       *)
(* devices' geneses, two successors of the first state that settle the     *)
(* same obligation, a later one that would settle it again, one proved     *)
(* under a retuned wait, and another owner using the same request name.    *)
(***************************************************************************)
EXTENDS AccountLedger, TLC

CONSTANTS o1, o2, i1, i2, i3, k1, k2, r1, r2, s0, s1, s2, s3, m

GenesisBy(owner, id, state, now, expires) ==
    [owner |-> owner, id |-> id, genesis |-> TRUE, previousVersion |-> 0,
     previousState |-> NoState, nextState |-> state, marker |-> NoMarker,
     root |-> r1, wait |-> 2, now |-> now, expiresAt |-> expires]

StepBy(id, version, from, to, marker, wait, now) ==
    [owner |-> o1, id |-> id, genesis |-> FALSE, previousVersion |-> version,
     previousState |-> from, nextState |-> to, marker |-> marker,
     root |-> r1, wait |-> wait, now |-> now, expiresAt |-> 4]

MCRequests == {
    GenesisBy(o1, i1, s0, 1, 2), GenesisBy(o1, i2, s1, 2, 3),
    GenesisBy(o2, i1, s0, 2, 4),
    StepBy(i2, 0, s0, s2, m, 2, 2), StepBy(i3, 0, s0, s3, m, 3, 2),
    StepBy(i3, 1, s2, s1, m, 2, 3)}

MCAuthorities == {
    [owner |-> o1, key |-> k1, until |-> 4], [owner |-> o1, key |-> k2, until |-> 5],
    [owner |-> o2, key |-> k2, until |-> 5]}

HandleSymmetry == Permutations(Handles)
=============================================================================
