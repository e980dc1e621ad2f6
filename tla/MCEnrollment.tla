---------------------------- MODULE MCEnrollment ----------------------------
(* Two members over two slots.  The first renews within the slots, and one *)
(* of its delegations names another secret.  A publication is as long as   *)
(* its roster and one more.                                                *)
EXTENDS Enrollment, SequencesExt

CONSTANTS a, b, h1, h2

Delegation(member, secret, issued, expires) ==
    [member |-> member, secret |-> secret, issued |-> issued, expires |-> expires]

MCDelegations ==
    {Delegation(a, 1, 1, 3), Delegation(a, 1, 1, 4), Delegation(a, 1, 2, 4),
     Delegation(a, 2, 2, 4), Delegation(b, 3, 1, 5)}
MCSizeOf(p) == Cardinality(p.roster) + 1

Symmetry == Permutations(Handlers)
-----------------------------------------------------------------------------
(* The loops of the two stores as they run, one slot at a time: the oldest *)
(* other slot is deleted while the total is too large; a slot is kept if   *)
(* it fits with those before it, from the newest on.                       *)
SqliteLoop(texts, slot) ==
    LET slots == SetToSortSeq(DOMAIN texts, LAMBDA s, t : s < t)
        kept == ToSet(SubSeq(slots, Max({1, Len(slots) - MaxRetained + 1}), Len(slots)))
        Prune(s, left) == IF s # slot /\ Bytes(texts, left) > MaxBytes THEN left \ {s} ELSE left
    IN  FoldRight(Prune, Reverse(slots), kept)

TursoLoop(texts, slot) ==
    LET Keep(s, kept) ==
            IF /\ s # slot /\ Cardinality(kept) < MaxRetained
               /\ Bytes(texts, kept \cup {s}) <= MaxBytes
            THEN kept \cup {s} ELSE kept
    IN  FoldRight(Keep, SetToSortSeq(DOMAIN texts, LAMBDA s, t : s < t), {slot})

(* What the module says is kept is what the loops keep, of four slots and  *)
(* texts of any lengths within the limit.                                  *)
SomeText(n) == CHOOSE p \in Publication : SizeOf(p) = n
Sizes == {SizeOf(p) : p \in Publication}
ASSUME KeptIsWhatLoopsKeep ==
    \A slots \in SUBSET (0 .. 3) : \A sizes \in [slots -> {n \in Sizes : n <= MaxBytes}] :
        LET texts == [s \in slots |-> SomeText(sizes[s])]
        IN  \A slot \in slots :
                /\ SqliteKept(texts, slot) = SqliteLoop(texts, slot)
                /\ TursoKept(texts, slot) = TursoLoop(texts, slot)
=============================================================================
