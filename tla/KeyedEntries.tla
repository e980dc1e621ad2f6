---------------------------- MODULE KeyedEntries ----------------------------
(***************************************************************************)
(* What an indexed map promises the account: entries under distinct keys,  *)
(* added once, replaced in place and never removed.                        *)
(***************************************************************************)
CONSTANTS Keys, Payloads
VARIABLE entries        \* <<key, payload>>

Init == entries = {}

Add(key, payload) ==
    /\ \A e \in entries : e[1] # key
    /\ entries' = entries \cup {<<key, payload>>}

Replace(key, old, new) ==
    /\ <<key, old>> \in entries
    /\ entries' = (entries \ {<<key, old>>}) \cup {<<key, new>>}

Next == \E new \in Payloads :
    \/ \E key \in Keys : Add(key, new)
    \/ \E e \in entries : Replace(e[1], e[2], new)

Spec == Init /\ [][Next]_entries
=============================================================================
