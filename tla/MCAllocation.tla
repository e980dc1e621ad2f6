---------------------------- MODULE MCAllocation ----------------------------
(***************************************************************************)
(* Allocation with one member's four nonces, one of them in two requests,  *)
(* a second member, and two epochs configured with the same key.           *)
(***************************************************************************)
EXTENDS Allocation, TLC

CONSTANTS ann, bob, n1, n2, n3, n4, m1, m2, m3, m4, c1, c2, key

Ask(member, nonce, context, message, from, until) ==
    [member |-> member, nonce |-> nonce, context |-> context, message |-> message,
     issuedAt |-> from, expiresAt |-> until]

MCRequests == {
    Ask(ann, n1, c1, m1, 1, 4), Ask(ann, n1, c1, m2, 1, 4),
    Ask(ann, n2, c1, m2, 1, 7), Ask(ann, n3, c2, m3, 3, 8), Ask(ann, n4, c1, m4, 3, 8),
    Ask(bob, n1, c2, m1, 2, 8)}

MCEpochs == {
    [context |-> c1, key |-> key, validFrom |-> 1, issueUntil |-> 8],
    [context |-> c2, key |-> key, validFrom |-> 2, issueUntil |-> 8]}
=============================================================================
