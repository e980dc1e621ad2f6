----------------------------- MODULE SparseTree -----------------------------
(***************************************************************************)
(* The sparse Merkle tree (SparseTree in runtime/accounting/hashes.mjs)    *)
(* that IndexedMap and the enrollment rosters keep, and the circuit's own  *)
(* reckoning of roots (account-state/src/indexed.nr).                      *)
(*                                                                         *)
(* The client stores the nodes it has touched and updates one path at a    *)
(* time; the circuit sees no tree, only a leaf with its path, and inserts  *)
(* with two paths taken of two different trees.  A node's hash is the pair *)
(* of its children, so equal hashes are equal trees; 0 is a missing leaf.  *)
(* That a path proves the leaf of one position is what module IndexedTree  *)
(* takes for granted.                                                      *)
(***************************************************************************)
EXTENDS Integers

CONSTANTS
    DEPTH,
    LeafHashes,     \* hashes of leaves, none of them 0
    MaxLeaves       \* bound, at most 2^DEPTH

VARIABLES
    kind,           \* "map" or "roster"
    nodes,          \* [<<level, position>> -> hash], of the nodes that were touched
    filled,         \* leaves in use
    witness         \* {} or the witness of the last transition

treeVars == <<kind, nodes, filled, witness>>

Node(left, right) == <<left, right>>

(* create: a missing node's hash depends on its level. *)
Empty ==
    LET of[level \in 0 .. DEPTH] ==
            IF level = 0 THEN 0 ELSE Node(of[level - 1], of[level - 1])
    IN  of

At(tree, level, index) ==
    IF <<level, index>> \in DOMAIN tree THEN tree[<<level, index>>] ELSE Empty[level]
RootOf(tree) == At(tree, DEPTH, 0)

Above(index, level) == index \div 2^level
Sibling(index) == IF index % 2 = 0 THEN index + 1 ELSE index - 1
Path(tree, index) ==
    [level \in 0 .. DEPTH - 1 |-> At(tree, level, Sibling(Above(index, level)))]

Touched(tree, level, index, value) ==
    [n \in DOMAIN tree \cup {<<level, index>>} |->
        IF n = <<level, index>> THEN value ELSE tree[n]]

(* set: from the leaf up, each parent from the children as they are now. *)
SetLeaf(tree, index, value) ==
    LET upTo[level \in 0 .. DEPTH] ==
            IF level = 0 THEN Touched(tree, 0, index, value)
            ELSE LET below == upTo[level - 1]
                     left == 2 * Above(index, level)
                 IN  Touched(below, level, Above(index, level),
                        Node(At(below, level - 1, left), At(below, level - 1, left + 1)))
    IN  upTo[DEPTH]

(* The circuit's root of a value at an index, by its bits. *)
CircuitRoot(value, path, index) ==
    LET current[level \in 0 .. DEPTH] ==
            IF level = 0 THEN value
            ELSE IF Above(index, level - 1) % 2 = 0
                 THEN Node(current[level - 1], path[level - 1])
                 ELSE Node(path[level - 1], current[level - 1])
    IN  current[DEPTH]

(* initial_root *)
InitialRoot(sentinel) ==
    LET current[level \in 0 .. DEPTH] ==
            IF level = 0 THEN <<sentinel, 0>>
            ELSE <<Node(current[level - 1][1], current[level - 1][2]),
                   Node(current[level - 1][2], current[level - 1][2])>>
    IN  current[DEPTH][1]

Untouched == [n \in {} |-> 0]
Init ==
    /\ kind \in {"map", "roster"}
    /\ filled = IF kind = "map" THEN 1 ELSE 0
    /\ IF kind = "map" THEN \E sentinel \in LeafHashes : nodes = SetLeaf(Untouched, 0, sentinel)
                       ELSE nodes = Untouched
    /\ witness = {}
-----------------------------------------------------------------------------
(* checkpointFromVerified: the roster's leaves, in its order. *)
Enter(value) ==
    /\ kind = "roster" /\ filled < MaxLeaves
    /\ nodes' = SetLeaf(nodes, filled, value)
    /\ filled' = filled + 1
    /\ UNCHANGED <<kind, witness>>

(* IndexedMap.insert: the predecessor is linked, then the leaf appended,   *)
(* whose path is that of the tree between the two.                         *)
OfOldTree(old, linked) == old
OfLinkedTree(old, linked) == linked
Insert(low, link, added) ==
    LET linked == SetLeaf(nodes, low, link)
    IN  /\ kind = "map" /\ low < filled /\ filled < MaxLeaves
        /\ witness' = {[before |-> nodes, index |-> low, linked |-> link,
                        path |-> Path(nodes, low), append |-> filled, added |-> added,
                        appendPath |-> Path(OfLinkedTree(nodes, linked), filled)]}
        /\ nodes' = SetLeaf(linked, filled, added)
        /\ filled' = filled + 1
        /\ UNCHANGED kind

(* IndexedMap.update *)
Update(index, value) ==
    /\ kind = "map" /\ index < filled
    /\ nodes' = SetLeaf(nodes, index, value)
    /\ witness' = {}
    /\ UNCHANGED <<kind, filled>>

Next == \E value \in LeafHashes :
    \/ Enter(value)
    \/ \E index \in 0 .. filled - 1 :
        \/ Update(index, value)
        \/ \E link \in LeafHashes : Insert(index, link, value)

Spec == Init /\ [][Next]_treeVars
-----------------------------------------------------------------------------
(* The stored nodes, of which most are never touched, are those of the     *)
(* whole tree over its leaves, and each leaf's path leads to the root the  *)
(* circuit reckons; its first root is the client's (hashes.mjs:81-107,     *)
(* indexed.nr:39-57).                                                      *)
PathsLeadToRoot ==
    /\ \A level \in 1 .. DEPTH, index \in 0 .. 2^DEPTH - 1 : index < 2^(DEPTH - level) =>
        At(nodes, level, index)
            = Node(At(nodes, level - 1, 2 * index), At(nodes, level - 1, 2 * index + 1))
    /\ \A index \in 0 .. 2^DEPTH - 1 :
        CircuitRoot(At(nodes, 0, index), Path(nodes, index), index) = RootOf(nodes)
    /\ \A sentinel \in LeafHashes :
        InitialRoot(sentinel) = RootOf(SetLeaf(Untouched, 0, sentinel))

(* A client's witness of an insertion passes the circuit, which ends with  *)
(* the client's root: the predecessor's path is one of the old tree, and   *)
(* the appended leaf's of the linked one, although it may go through the   *)
(* predecessor (hashes.mjs:134-146, indexed.nr:83-97).                     *)
InsertionAccepted ==
    \A w \in witness :
        LET intermediate == CircuitRoot(w.linked, w.path, w.index)
        IN  /\ CircuitRoot(At(w.before, 0, w.index), w.path, w.index) = RootOf(w.before)
            /\ CircuitRoot(0, w.appendPath, w.append) = intermediate
            /\ CircuitRoot(w.added, w.appendPath, w.append) = RootOf(nodes)
=============================================================================
