-------------------------- MODULE WitnessCheckpoints --------------------------
(***************************************************************************)
(* The private state of an account as the wallet stores it                 *)
(* (runtime/accounting/checkpoint.mjs with enrollment.mjs): exported after *)
(* a transition or a refresh of the roster, and restored by a process that *)
(* starts with the ledger's accepted statement and the roster its          *)
(* configuration pins.                                                     *)
(*                                                                         *)
(* Members renew or leave while the account keeps the slots they reserved: *)
(* what binds a slot is the leaf it was reserved under, not the roster.    *)
(* The wallet may return an older backup, or damaged bytes that still      *)
(* parse.  The commitment stands for all that the account state hashes.    *)
(* The order in which a device saves and sends is AccountActor's subject:  *)
(* here a transition is accepted and saved at once.                        *)
(***************************************************************************)
EXTENDS Integers, Sequences, FiniteSets, FiniteSetsExt

CONSTANTS
    Peers,
    owner,
    PeerOf,         \* event -> peer
    AmountOf,       \* role + 1 -> what a live slot reserves
    MaxRosters, MaxVersion      \* bounds

VARIABLES
    rosters,        \* the rosters published so far: member -> leaf, 0 if absent
    pinned,         \* the roster that the configuration pins
    ledgerState,    \* the accepted statement: [version, root, commitment]
    memory,         \* what a running process holds: {} or {[slots, version]}
    truth,          \* the slots of the accepted state
    files           \* what the wallet and its backups hold

checkpointVars == <<rosters, pinned, ledgerState, memory, truth, files>>

Events == DOMAIN PeerOf

(* Assumed wherever the module is instantiated. *)
CheckpointConstants == PeerOf \in [Events -> Peers]
-----------------------------------------------------------------------------
(* A map's payload of a slot, and the maps of an account with these slots. *)
Obligation(s) == [event |-> s.event, phase |-> s.phase, owner |-> s.ownerLeaf,
                  peer |-> s.peerLeaf]
Entries(slots, role) == {Obligation(s) : s \in {x \in slots : x.role = role}}
Reserved(slots) ==
    MapThenSumSet(LAMBDA s : IF s.phase \in {1, 2} THEN AmountOf[s.role + 1] ELSE 0,
                  slots)

Commitment(f) == <<f.version, f.outgoing, f.incoming, f.pairs, f.reserved>>

(* exportWitnessCheckpoint *)
File(slots, version, root) ==
    [version |-> version, root |-> root, slots |-> slots,
     outgoing |-> Entries(slots, 0), incoming |-> Entries(slots, 1),
     pairs |-> {PeerOf[s.event] : s \in slots}, reserved |-> Reserved(slots)]

Saves(file) == files' = files \cup {file}

Init ==
    LET file == File({}, 0, 1)
    IN  /\ rosters = <<[m \in Peers \cup {owner} |-> 1]>> /\ pinned = 1
        /\ truth = {} /\ memory = {[slots |-> {}, version |-> 0]}
        /\ ledgerState = [version |-> 0, root |-> 1, commitment |-> Commitment(file)]
        /\ files = {file}
-----------------------------------------------------------------------------
(* The operator publishes a roster in which a member renewed, or left. *)
Publishes(m, leaf) ==
    /\ Len(rosters) < MaxRosters
    /\ rosters' = Append(rosters, [rosters[Len(rosters)] EXCEPT ![m] = leaf])
    /\ UNCHANGED <<pinned, ledgerState, memory, truth, files>>

Renew(m) == Publishes(m, Len(rosters) + 1)
Leave(m) == rosters[Len(rosters)][m] # 0 /\ Publishes(m, 0)

(* A transition of the process's own state, under the roster it pins. *)
Transition(slots) ==
    /\ ledgerState.version < MaxVersion /\ rosters[pinned][owner] # 0
    /\ \E m \in memory : m.version = ledgerState.version
    /\ LET next == File(slots, ledgerState.version + 1, pinned)
       IN  /\ ledgerState' = [version |-> next.version, root |-> pinned,
                              commitment |-> Commitment(next)]
           /\ memory' = {[slots |-> slots, version |-> next.version]}
           /\ Saves(next)
    /\ truth' = slots
    /\ UNCHANGED <<rosters, pinned>>

Reserve(e, role) ==
    \E m \in memory :
        /\ \A s \in m.slots : s.event # e
        /\ rosters[pinned][PeerOf[e]] # 0
        /\ Transition(m.slots \cup {[event |-> e, role |-> role, phase |-> 1,
             ownerLeaf |-> rosters[pinned][owner], peerLeaf |-> rosters[pinned][PeerOf[e]]]})

(* change: the phase moves on, whatever roster the slot's members are on.  *)
Settle(e, phase) ==
    \E m \in memory : \E s \in m.slots :
        /\ s.event = e
        /\ s.phase = IF phase \in {2, 4} THEN 1 ELSE 2
        /\ phase = 5 => s.role = 0
        /\ Transition((m.slots \ {s}) \cup {[s EXCEPT !.phase = phase]})

(* withEnrollment and refreshEnrollment: the same state under another      *)
(* roster that has its owner.                                              *)
Refresh(r) ==
    /\ memory # {} /\ r \in pinned + 1 .. Len(rosters) /\ rosters[r][owner] # 0
    /\ pinned' = r
    /\ \E m \in memory : Saves(File(m.slots, m.version, r))
    /\ UNCHANGED <<rosters, ledgerState, memory, truth>>

Stop ==
    /\ memory # {} /\ memory' = {}
    /\ UNCHANGED <<rosters, pinned, ledgerState, truth, files>>

(* Bytes that were changed and still parse: a slot or an obligation that  *)
(* is gone, a slot with another role, phase or leaf; an older version is   *)
(* refused anyhow.                                                         *)
Altered(s) ==
    {[s EXCEPT !.role = 1 - @]} \cup {[s EXCEPT !.phase = p] : p \in 1 .. 5}
    \cup {[s EXCEPT !.ownerLeaf = l] : l \in 1 .. Len(rosters)}
    \cup {[s EXCEPT !.peerLeaf = l] : l \in 1 .. Len(rosters)}
Damaged(f) ==
    (UNION {{[f EXCEPT !.slots = @ \ {s}]} \cup
            {[f EXCEPT !.slots = (@ \ {s}) \cup {x}] : x \in Altered(s)} : s \in f.slots})
    \cup {[f EXCEPT !.outgoing = @ \ {o}] : o \in f.outgoing}
    \cup {[f EXCEPT !.incoming = @ \ {o}] : o \in f.incoming}
-----------------------------------------------------------------------------
(* restoreWitnessCheckpoint.  The owner must be on the pinned roster; a    *)
(* peer only has a leaf that hashes to what its slot names.                *)
OnRoster(r) == rosters[r][owner] # 0
PeerOnRoster(s) == rosters[Len(rosters)][PeerOf[s.event]] = s.peerLeaf
PeerHeader(s) == TRUE

RootAccepted(f, r) == f.root \in {r, ledgerState.root}

OwnMap(f, s) == IF s.role = 0 THEN f.outgoing ELSE f.incoming
OtherMap(f, s) == IF s.role = 0 THEN f.incoming ELSE f.outgoing
SlotInMaps(f, s) ==
    /\ s.role = 1 => s.phase # 5
    /\ Obligation(s) \in OwnMap(f, s)
    /\ \A o \in OtherMap(f, s) : o.event # s.event
    /\ PeerOf[s.event] \in f.pairs

LeftoversIgnored(f) == TRUE
NothingLeft(f) ==
    /\ f.outgoing = Entries(f.slots, 0) /\ f.incoming = Entries(f.slots, 1)
    /\ f.pairs = {PeerOf[s.event] : s \in f.slots}
    /\ f.reserved = Reserved(f.slots)

Accepts(f, r) ==
    /\ OnRoster(r) /\ RootAccepted(f, r) /\ f.version = ledgerState.version
    /\ \A s, t \in f.slots : s.event = t.event => s = t
    /\ \A s \in f.slots : PeerHeader(s) /\ SlotInMaps(f, s)
    /\ NothingLeft(f)
    /\ Commitment(f) = ledgerState.commitment

(* A process starts, perhaps with a later roster, from the file it finds;  *)
(* if that is refused it does not.                                         *)
Start(r, f) ==
    /\ memory = {} /\ r \in pinned .. Len(rosters)
    /\ pinned' = r
    /\ memory' = IF Accepts(f, r) THEN {[slots |-> f.slots, version |-> f.version]} ELSE {}
    /\ UNCHANGED <<rosters, ledgerState, truth, files>>

(* Damaged bytes that are refused leave what an older file leaves.        *)
Next ==
    \/ \E m \in Peers \cup {owner} : Renew(m) \/ Leave(m)
    \/ \E e \in Events, role \in {0, 1} : Reserve(e, role)
    \/ \E e \in Events, phase \in 2 .. 5 : Settle(e, phase)
    \/ \E r \in 1 .. MaxRosters : Refresh(r)
    \/ \E r \in 1 .. MaxRosters, f \in files :
           \/ Start(r, f)
           \/ /\ memory = {} /\ f.version = ledgerState.version
              /\ \E bad \in Damaged(f) : Start(r, bad) /\ memory' # {}
    \/ Stop

Spec == Init /\ [][Next]_checkpointVars
-----------------------------------------------------------------------------
(* What a process restores is the state that the ledger accepted, slot by  *)
(* slot, whatever file the wallet returned (checkpoint.mjs:163-199).       *)
RestoredIsAccepted == \A m \in memory : m.slots = truth

(* What was exported for the accepted state restores, whichever peers left *)
(* or renewed meanwhile, as long as its roster is the pinned one or that   *)
(* of the statement (checkpoint.mjs:165-192).                              *)
SavedReopens ==
    \A f \in files : (/\ f.version = ledgerState.version
                        /\ OnRoster(pinned) /\ RootAccepted(f, pinned)) => Accepts(f, pinned)
=============================================================================
