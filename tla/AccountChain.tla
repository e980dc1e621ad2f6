---------------------------- MODULE AccountChain ----------------------------
(***************************************************************************)
(* What the ledger promises its members, without handles, transactions or  *)
(* configuration: every owner has one growing chain of accepted            *)
(* statements, whatever is answered is an element of it, unchanged, and    *)
(* time, once observed, never goes back: a request that has expired by     *)
(* then is never accepted.                                                 *)
(***************************************************************************)
EXTENDS Integers, Sequences

CONSTANTS Owners, NoMarker, NoReply

VARIABLES
    chain,      \* owner -> the acceptances so far, oldest first
    floor,      \* the latest time the ledger answered at
    reply       \* the acceptance handed out by the latest step, or NoReply

vars == <<chain, floor, reply>>

Init ==
    /\ chain = [o \in Owners |-> <<>>]
    /\ floor = 0
    /\ reply = NoReply

Positions(owner) == 1..Len(chain[owner])

Extends(owner, a) ==
    LET n == Len(chain[owner])
    IN  IF n = 0 THEN a.request.genesis
        ELSE /\ ~a.request.genesis
             /\ a.request.previousState = chain[owner][n].request.nextState

Accept(a) ==
    LET o == a.request.owner
    IN  /\ Extends(o, a)
        /\ a.request.marker # NoMarker =>
            \A i \in Positions(o) : chain[o][i].request.marker # a.request.marker
        /\ floor <= a.acceptedAt /\ a.acceptedAt < a.request.expiresAt
        /\ chain' = [chain EXCEPT ![o] = Append(@, a)]
        /\ floor' = a.acceptedAt
        /\ reply' \in {a, NoReply}

Recall(owner) ==
    /\ floor <= floor'
    /\ \E i \in Positions(owner) : reply' = chain[owner][i]
    /\ UNCHANGED chain

(* Nothing is handed out: no answer, a lost one, or "not accepted". *)
Silence ==
    /\ floor <= floor'
    /\ reply' = NoReply
    /\ UNCHANGED chain

(* The accepted statement is the one the next chain ends with. *)
Next ==
    \/ \E owner \in Owners :
        /\ Len(chain'[owner]) = Len(chain[owner]) + 1
        /\ Accept(chain'[owner][Len(chain'[owner])])
    \/ \E owner \in Owners : Recall(owner)
    \/ Silence

Spec == Init /\ [][Next]_vars
=============================================================================
