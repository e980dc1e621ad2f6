---------------------------- MODULE IndexedTree -----------------------------
(***************************************************************************)
(* The indexed Merkle map behind an account's obligations and pairs: the   *)
(* circuit's checks (account-state/src/indexed.nr) of witnesses that any   *)
(* prover may choose, the client's own search for one (IndexedMap of       *)
(* runtime/accounting/hashes.mjs) and what a restored checkpoint checks    *)
(* of its leaves (checkpoint.mjs).                                         *)
(*                                                                         *)
(* A root binds every leaf and a path proves one leaf at its position, so  *)
(* a witness is a position; positions from count on are empty.  Leaf 0 is  *)
(* the sentinel, of key 0; each leaf links to the next key in order.       *)
(***************************************************************************)
EXTENDS Integers

CONSTANTS
    Keys,           \* field elements other than 0
    Payloads,       \* commitments to what a key stands for
    Limit           \* capacity, 2^32

ASSUME KeysAssumption == Keys \subseteq Nat \ {0}
ASSUME LimitAssumption == Limit \in Nat \ {0}
ASSUME PayloadsAssumption == 0 \in Payloads

VARIABLES leaves, count
treeVars == <<leaves, count>>

Positions == 0 .. count - 1
Leaf == [key : Keys \cup {0}, payload : Payloads, next : Nat, nextKey : Keys \cup {0}]
NewLeaf(key, payload, next, nextKey) ==
    [key |-> key, payload |-> payload, next |-> next, nextKey |-> nextKey]

TreeTypeOK == count \in 1 .. Limit /\ leaves \in [Positions -> Leaf]

TreeInit == count = 1 /\ leaves = [i \in {0} |-> NewLeaf(0, 0, 0, 0)]
-----------------------------------------------------------------------------
ValidLeaf(leaf, i) ==
    /\ (leaf.key = 0) = (i = 0)
    /\ i = 0 => leaf.payload = 0
    /\ leaf.next < count
    /\ (leaf.next = 0) = (leaf.nextKey = 0)
    /\ leaf.next # 0 => leaf.next # i /\ leaf.key < leaf.nextKey

AnyGap(leaf, key) == leaf.key < key
Gap(leaf, key) == leaf.key < key /\ (leaf.nextKey = 0 \/ key < leaf.nextKey)

(* absent and present: what position i proves of a key. *)
Absent(key, i) == ValidLeaf(leaves[i], i) /\ Gap(leaves[i], key)
Present(key, payload, i) ==
    ValidLeaf(leaves[i], i) /\ leaves[i].key = key /\ leaves[i].payload = payload

LinkLost(key, payload, i) == [j \in 0 .. count |->
    IF j = count THEN NewLeaf(key, payload, leaves[i].next, leaves[i].nextKey) ELSE leaves[j]]
(* The predecessor's link is updated before the empty position is filled.  *)
Appended(key, payload, i) == [j \in 0 .. count |->
    IF j = i THEN NewLeaf(leaves[i].key, leaves[i].payload, count, key)
    ELSE IF j = count THEN NewLeaf(key, payload, leaves[i].next, leaves[i].nextKey)
    ELSE leaves[j]]

Insert(key, payload, i) ==
    /\ count < Limit
    /\ Absent(key, i)
    /\ leaves' = Appended(key, payload, i)
    /\ count' = count + 1

Update(key, old, new, i) ==
    /\ Present(key, old, i)
    /\ leaves' = [leaves EXCEPT ![i].payload = new]
    /\ UNCHANGED count

TreeNext == \E key \in Keys, new \in Payloads, i \in Positions :
    \/ Insert(key, new, i)
    \/ \E old \in Payloads : Update(key, old, new, i)

TreeSpec == TreeInit /\ [][TreeNext]_treeVars
-----------------------------------------------------------------------------
Above(i) == {j \in Positions : leaves[j].key > leaves[i].key}
Lowest(j, above) == j \in above /\ \A k \in above : leaves[j].key <= leaves[k].key

(* mapLeaves, which sorts the leaves by key: the sentinel comes first, no  *)
(* key occurs twice, and each leaf links to its neighbour.                 *)
Sentinel == leaves[0].key = 0 /\ leaves[0].payload = 0
DistinctKeys == \A i, j \in Positions : leaves[i].key = leaves[j].key => i = j
Linked == \A i \in Positions :
    \/ Above(i) = {} /\ leaves[i].next = 0 /\ leaves[i].nextKey = 0
    \/ Lowest(leaves[i].next, Above(i)) /\ leaves[i].nextKey = leaves[leaves[i].next].key

(* Every map the circuit accepts can be restored from its leaves, whatever *)
(* witnesses its prover chose (checkpoint.mjs:98-112).                     *)
Restorable == Sentinel /\ DistinctKeys /\ Linked

(* No witness proves a key absent that is in the map, or present under two *)
(* payloads, so no obligation is opened twice or read in an old phase      *)
(* (indexed.nr:74-81, 110-115).                                            *)
Sound == \A key \in Keys, i, j \in Positions :
    /\ Absent(key, i) => leaves[j].key # key
    /\ \A p \in Payloads : Present(key, p, i) =>
           \A q \in Payloads : Present(key, q, j) => p = q

(* The map restores, and nothing can be shown of it that is not so         *)
(* (checkpoint.mjs:98-112, indexed.nr:74-115).                             *)
MapHolds == Restorable /\ Sound

Entries == {<<leaves[i].key, leaves[i].payload>> : i \in Positions \ {0}}
(* The map is the keyed entries the account reads it as. *)
Map == INSTANCE KeyedEntries WITH entries <- Entries
ImplementsMap == Map!Spec
=============================================================================
