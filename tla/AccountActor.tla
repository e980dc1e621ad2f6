---------------------------- MODULE AccountActor ----------------------------
(***************************************************************************)
(* The holder side of one account (runtime/accounting/actor.mjs with       *)
(* actor-storage.mjs and client.mjs).  The private opening of a state      *)
(* exists only in the journal of the device that proved it: losing the     *)
(* opening of the ledger's current state loses the account.                *)
(*                                                                         *)
(* Actors are processes; those of one device share its storage, a record   *)
(* replaced by compare-and-swap on its revision.  Each `await' of the code *)
(* is a step: storage, transport and ledger act in between, a process may  *)
(* die, a write may be durable though it was reported as failed, and a     *)
(* request may reach the ledger long after its sender gave up on it.       *)
(*                                                                         *)
(* The ledger is AccountChain, which AccountLedger implements.  An answer  *)
(* in transit is a copy of an element of a chain that only grows, so a     *)
(* step that receives one reads the chain.  A state is named by the        *)
(* request that proposes it; proofs, signatures, encryption and the choice *)
(* of the account action are left out.                                     *)
(***************************************************************************)
EXTENDS Integers, Sequences, FiniteSets

CONSTANTS
    owner,
    Actors, Devices,
    DeviceOf,       \* actor -> the device whose storage it uses
    Recovering,     \* the actors whose host keeps recovering them
    Ids,            \* request identifiers, drawn at random by the code
    Times,          \* the ledger's times
    Expiries,       \* expiry times a caller may ask for
    MaxRefreshed,   \* bound on the storage revision an enrollment refresh starts from
    NoMarker, NoReply, None

ASSUME ActorTypes ==
    /\ DeviceOf \in [Actors -> Devices]
    /\ Recovering \subseteq Actors
    /\ Times \subseteq Nat \ {0} /\ Expiries \subseteq Nat
    /\ MaxRefreshed \in Nat

VARIABLES
    chain, floor,   \* the ledger: accepted statements, latest time it answered at
    sent,           \* requests that have left a device and may still arrive
    storage,        \* device -> its sealed journal
    drawn,          \* request identifiers drawn so far
    pc,             \* actor -> what it is awaiting
    journal,        \* actor -> the journal it holds in memory
    blocked,        \* actor -> must reload: blocked, or storage is uncertain
    candidate       \* actor -> the signed request it is about to save

ledger == <<chain, floor>>
device == <<storage, sent, drawn>>
memory == <<pc, journal, blocked, candidate>>
vars == <<ledger, device, memory>>

Ledger == INSTANCE AccountChain WITH Owners <- {owner}, reply <- NoReply

Request == [id : Ids, device : Devices, owner : {owner}, genesis : BOOLEAN,
            previousState : Ids \cup {None}, nextState : Ids,
            marker : {NoMarker}, expiresAt : Expiries]
ASSUME NoneIsNothing == None \notin Ids /\ None \notin Request

(* What the ledger accepted, and the statement it accepted last. *)
Accepted == {chain[owner][i].request : i \in 1..Len(chain[owner])}
Latest == IF chain[owner] = <<>> THEN None ELSE chain[owner][Len(chain[owner])].request

EmptyJournal == [revision |-> 0, accepted |-> None, pending |-> None]

Init ==
    /\ Ledger!Init
    /\ sent = {}
    /\ storage = [d \in Devices |-> EmptyJournal]
    /\ drawn = {}
    /\ pc = [a \in Actors |-> "down"]
    /\ journal = [a \in Actors |-> EmptyJournal]
    /\ blocked = [a \in Actors |-> TRUE]
    /\ candidate = [a \in Actors |-> None]
-----------------------------------------------------------------------------
(* A step of the ledger: it accepts a request that reached it, however     *)
(* late, or in duplicate, under the terms of AccountChain.                 *)
LedgerApply(r, now) ==
    /\ Ledger!Accept([request |-> r, acceptedAt |-> now])
    /\ UNCHANGED <<device, memory>>
-----------------------------------------------------------------------------
Moved(a, step) == pc' = [pc EXCEPT ![a] = step]
Blocks(a) == blocked' = [blocked EXCEPT ![a] = TRUE]

(* Outcomes of store.save(next), awaited by `a': written and acknowledged, *)
(* written but reported as failed, not written (another process replaced   *)
(* the record first, or the host failed), or not even sealed.  Only the    *)
(* last leaves the actor usable without a reload.                          *)
AnyRevision(a) == TRUE
Unreplaced(a) == storage[DeviceOf[a]].revision = journal[a].revision

Written(a, next) ==
    /\ Unreplaced(a)
    /\ storage' = [storage EXCEPT ![DeviceOf[a]] =
                      [next EXCEPT !.revision = journal[a].revision + 1]]

SaveSucceeds(a, next, step) ==
    /\ Written(a, next)
    /\ journal' = [journal EXCEPT ![a] = storage'[DeviceOf[a]]]
    /\ Moved(a, step)
    /\ UNCHANGED blocked

SaveFails(a, next, unsealed) ==
    /\ UNCHANGED journal
    /\ \/ Written(a, next) /\ Blocks(a) /\ Moved(a, "idle")
       \/ UNCHANGED storage /\ Blocks(a) /\ Moved(a, "idle")
       \/ UNCHANGED <<storage, blocked>> /\ Moved(a, unsealed)

(* reload: the process reads the sealed journal, which holds every private *)
(* opening it will need. *)
Reloads(a) ==
    /\ journal' = [journal EXCEPT ![a] = storage[DeviceOf[a]]]
    /\ blocked' = [blocked EXCEPT ![a] = FALSE]

Start(a) ==
    /\ pc[a] = "down"
    /\ Reloads(a)
    /\ Moved(a, "idle")
    /\ UNCHANGED <<ledger, device, candidate>>

Crash(a) ==
    /\ pc[a] # "down"
    /\ Moved(a, "down")
    /\ Blocks(a)
    /\ journal' = [journal EXCEPT ![a] = EmptyJournal]
    /\ candidate' = [candidate EXCEPT ![a] = None]
    /\ UNCHANGED <<ledger, device>>
-----------------------------------------------------------------------------
EvenPending(a) == ~blocked[a]
Available(a) == ~blocked[a] /\ journal[a].pending = None

(* transition, up to saving: a successor of the accepted state is proved   *)
(* and the request for it signed.                                          *)
Successor(a, id, expires) ==
    LET accepted == journal[a].accepted
    IN  [id |-> id, device |-> DeviceOf[a], owner |-> owner,
         genesis |-> accepted = None,
         previousState |-> IF accepted = None THEN None ELSE accepted.nextState,
         nextState |-> id, marker |-> NoMarker, expiresAt |-> expires]

Transition(a, id, expires) ==
    /\ pc[a] = "idle" /\ Available(a)
    /\ id \notin drawn
    /\ drawn' = drawn \cup {id}
    /\ candidate' = [candidate EXCEPT ![a] = Successor(a, id, expires)]
    /\ Moved(a, "saving")
    /\ UNCHANGED <<ledger, storage, sent, journal, blocked>>

(* The signed request and its private successor are durable before the     *)
(* request leaves the device.                                              *)
SavePending(a) ==
    /\ pc[a] = "saving"
    /\ LET next == [journal[a] EXCEPT !.pending = candidate[a]]
       IN  SaveSucceeds(a, next, "applying") \/ SaveFails(a, next, "idle")
    /\ candidate' = [candidate EXCEPT ![a] = None]
    /\ UNCHANGED <<ledger, sent, drawn>>

(* applyPending: the exact pending request goes to the transport.  The     *)
(* answer is verified against it, so only its own acceptance installs it.  *)
Send(a) ==
    /\ pc[a] \in {"applying", "reapplying"}
    /\ journal[a].pending \notin sent
    /\ sent' = sent \cup {journal[a].pending}
    /\ UNCHANGED <<ledger, storage, drawn, memory>>

ApplyAnswered(a) ==
    /\ pc[a] \in {"applying", "reapplying"}
    /\ journal[a].pending \in Accepted \cap sent
    /\ Moved(a, IF pc[a] = "applying" THEN "installing" ELSE "reinstalling")
    /\ UNCHANGED <<ledger, device, journal, blocked, candidate>>

(* Refused, lost, timed out, or failed before it was sent. *)
ApplyFails(a) ==
    /\ pc[a] \in {"applying", "reapplying"}
    /\ Moved(a, IF pc[a] = "applying" THEN "idle" ELSE "asking")
    /\ UNCHANGED <<ledger, device, journal, blocked, candidate>>

(* install *)
Installed(a) == [journal[a] EXCEPT !.accepted = journal[a].pending, !.pending = None]

Install(a) ==
    /\ pc[a] \in {"installing", "reinstalling"}
    /\ \/ SaveSucceeds(a, Installed(a), "idle")
       \/ SaveFails(a, Installed(a), IF pc[a] = "installing" THEN "idle" ELSE "asking")
    /\ UNCHANGED <<ledger, sent, drawn, candidate>>
-----------------------------------------------------------------------------
(* recover reloads whatever happened before, then tries the exact request  *)
(* again, or checks that the retained state is the current one.            *)
OnlyUnblocked(a) == pc[a] = "idle" /\ ~blocked[a]
Recoverable(a) == pc[a] = "idle"

AfterReload(loaded) == IF loaded.pending # None THEN "reapplying" ELSE "checking"

Recover(a) ==
    /\ Recoverable(a)
    /\ Reloads(a)
    /\ Moved(a, AfterReload(storage[DeviceOf[a]]))
    /\ UNCHANGED <<ledger, device, candidate>>

(* The load fails, or the record was sealed under another roster.  The     *)
(* actor stays blocked, so a stale journal is never saved over that record. *)
RecoverFails(a) ==
    /\ Recoverable(a)
    /\ Blocks(a)
    /\ UNCHANGED <<ledger, device, pc, journal, candidate>>

(* The ledger answers a status request at `now'. *)
Answers(now) == now >= floor /\ floor' = now /\ UNCHANGED chain

UnexpiredToo(r, now) == TRUE
ExpiredBy(r, now) == now >= r.expiresAt

(* status of the pending request: accepted after all, expired unaccepted,  *)
(* or perhaps still on its way.                                            *)
StatusOfPending(a, now) ==
    LET r == journal[a].pending
    IN  /\ pc[a] = "asking"
        /\ Answers(now)
        /\ \/ r \in Accepted /\ Moved(a, "installing")
           \/ r \notin Accepted /\ ExpiredBy(r, now) /\ Moved(a, "confirming")
           \/ r \notin Accepted /\ ~ExpiredBy(r, now) /\ Moved(a, "idle")
        /\ UNCHANGED <<device, journal, blocked, candidate>>

(* status of the latest request, and matchesCurrent. *)
StatusOfLatest(a, now, step) ==
    /\ Answers(now)
    /\ \/ Latest = journal[a].accepted /\ Moved(a, step) /\ UNCHANGED blocked
       \/ Latest # journal[a].accepted /\ Moved(a, "idle") /\ Blocks(a)
    /\ UNCHANGED <<device, journal, candidate>>

ConfirmLatest(a, now) == pc[a] = "confirming" /\ StatusOfLatest(a, now, "dropping")

(* A status call fails: refused, lost or timed out. *)
StatusFails(a) ==
    /\ pc[a] \in {"asking", "confirming", "checking"}
    /\ Moved(a, "idle")
    /\ UNCHANGED <<ledger, device, journal, blocked, candidate>>

Dropped(a) == [journal[a] EXCEPT !.pending = None]

DropPending(a) ==
    /\ pc[a] = "dropping"
    /\ SaveSucceeds(a, Dropped(a), "idle") \/ SaveFails(a, Dropped(a), "idle")
    /\ UNCHANGED <<ledger, sent, drawn, candidate>>

(* current: asked for by the host or by provePeer, and at the end of recover. *)
Current(a) ==
    /\ pc[a] = "idle" /\ Available(a)
    /\ Moved(a, "checking")
    /\ UNCHANGED <<ledger, device, journal, blocked, candidate>>

CheckCurrent(a, now) == pc[a] = "checking" /\ StatusOfLatest(a, now, "idle")

(* withEnrollment re-seals the accepted state, whether or not a request is *)
(* pending, and so takes a revision.                                       *)
WithEnrollment(a) ==
    /\ pc[a] = "idle" /\ ~blocked[a]
    /\ journal[a].revision <= MaxRefreshed
    /\ SaveSucceeds(a, journal[a], "idle") \/ SaveFails(a, journal[a], "idle")
    /\ UNCHANGED <<ledger, sent, drawn, candidate>>

Next ==
    \/ \E r \in sent, now \in Times : LedgerApply(r, now)
    \/ \E a \in Actors :
        \/ Start(a) \/ Crash(a)
        \/ \E id \in Ids, expires \in Expiries : Transition(a, id, expires)
        \/ SavePending(a) \/ Send(a) \/ ApplyAnswered(a) \/ ApplyFails(a) \/ Install(a)
        \/ Recover(a) \/ RecoverFails(a) \/ StatusFails(a) \/ DropPending(a)
        \/ Current(a) \/ WithEnrollment(a)
        \/ \E now \in Times :
            StatusOfPending(a, now) \/ ConfirmLatest(a, now) \/ CheckCurrent(a, now)

Spec == Init /\ [][Next]_vars

(* The host keeps starting and recovering these actors; they die, and      *)
(* storage and ledger fail, now and then but not for ever; transport calls *)
(* end, and the ledger's clock passes every expiry.                        *)
Late == {now \in Times : \A e \in Expiries : now >= e}
Succeeds(a) == ~blocked'[a] /\ storage' # storage
Fairness ==
    \A a \in Recovering :
        /\ WF_vars(Start(a))
        /\ WF_vars(SavePending(a) \/ Install(a) \/ DropPending(a))
        /\ SF_vars(Recover(a))
        /\ SF_vars(ApplyFails(a))
        /\ SF_vars(\E now \in Late : StatusOfPending(a, now))
        /\ SF_vars(\E now \in Late : ConfirmLatest(a, now))
        /\ SF_vars(\E now \in Late : CheckCurrent(a, now))
        /\ SF_vars((Install(a) \/ DropPending(a)) /\ Succeeds(a))

FairSpec == Spec /\ Fairness
-----------------------------------------------------------------------------
(* The device that proved the ledger's current state still holds its       *)
(* private opening, accepted or pending: no order of late arrivals, failed *)
(* writes, crashes and recoveries strands the account.                     *)
OpeningRetained ==
    Latest # None => Latest \in {storage[Latest.device].accepted, storage[Latest.device].pending}

(* A device never lets the ledger choose: of the requests that ever left   *)
(* it, at most one can still be accepted.                                  *)
Acceptable(r) ==
    /\ r \in sent
    /\ floor < r.expiresAt
    /\ r.previousState = IF Latest = None THEN None ELSE Latest.nextState
OneOutstanding ==
    \A d \in Devices : Cardinality({r \in sent : r.device = d /\ Acceptable(r)}) <= 1

(* A process that lags behind, in another tab or after a failed write,     *)
(* never puts an older state back into the device's storage.               *)
Depth(r) == Cardinality({i \in 1..Len(chain[owner]) :
                \E j \in i..Len(chain[owner]) : chain[owner][j].request = r})
NeverRollsBack ==
    [][\A d \in Devices : Depth(storage[d].accepted)' >= Depth(storage[d].accepted)]_vars

(* A signed request does not stay unresolved: it is installed or dropped,  *)
(* unless another device has moved the account on.                         *)
SupersededOn(d) == Latest # None /\ Latest.device # d
PendingResolved ==
    \A d \in {DeviceOf[a] : a \in Recovering} :
        storage[d].pending # None ~> storage[d].pending = None \/ SupersededOn(d)
=============================================================================
