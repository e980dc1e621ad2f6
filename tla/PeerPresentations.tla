-------------------------- MODULE PeerPresentations --------------------------
(***************************************************************************)
(* How a member shows another that it holds a live reservation with it:    *)
(* provePeer and verifyPeer of runtime/accounting/actor.mjs, over          *)
(* peer-witness.mjs, peer-prover.mjs and peer-verifier.mjs.  A proof says  *)
(* that a slot is in a state of the account, the operator's acceptance     *)
(* that this state was the account's; neither says that it still is.       *)
(*                                                                         *)
(* The presenter has several devices, of which one may lag behind the      *)
(* ledger.  Rosters change with each checkpoint slot of time, so a state   *)
(* may have been accepted under an older root than the current one.        *)
(* Presentations may be checked late, by any context and more than once;   *)
(* each check looks at the clock, awaits, and looks again.  A root stands  *)
(* for its slot.  Proofs and signatures are abstracted to what they say:   *)
(* a presentation can only be of a state its prover had, with the          *)
(* acceptance of that state.                                               *)
(***************************************************************************)
EXTENDS Naturals, Sequences, FiniteSets, FiniteSetsExt

CONSTANTS
    Devices,            \* of the presenter
    PeerChallenges,
    checkpointSeconds,  \* length of a checkpoint slot
    abandonAfter,       \* length of a lease
    policyValidUntil,
    authorityLife,      \* how long the verifier's authority lasts from its check
    MaxPeerTime, MaxStates, MaxPresented, MaxChecks     \* bounds

(* Assumed wherever the module is instantiated. *)
PeerConstants ==
    /\ checkpointSeconds \in Nat \ {0} /\ abandonAfter \in Nat
    /\ policyValidUntil \in Nat /\ authorityLife \in Nat

VARIABLES
    peerNow,
    states,         \* the accepted states: [phase, openedAt, expiresAt, root, at, acceptedAt]
    device,         \* device -> the version of the state it keeps, 0 for none
    proving,        \* device -> {} or the presentation it proves
    presented,      \* those of [version, phase, openedAt, expiresAt, challenge, acceptance]
    checks,         \* verifyPeer under way: {[presentation, context, own, since]}
    released        \* what verifyPeer returned: {[check, at, validUntil]}

peerVars == <<peerNow, states, device, proving, presented, checks, released>>

PeerTimes == 1 .. MaxPeerTime
Live == {1, 2}      \* reserved and active; 3 is settled
RootAt(now) == now \div checkpointSeconds
Accepted == Len(states)

Init ==
    /\ peerNow = 1 /\ states = <<>>
    /\ device = [d \in Devices |-> 0]
    /\ proving = [d \in Devices |-> {}]
    /\ presented = {} /\ checks = {} /\ released = {}
-----------------------------------------------------------------------------
Tick ==
    /\ peerNow < MaxPeerTime
    /\ peerNow' = peerNow + 1
    /\ UNCHANGED <<states, device, proving, presented, checks, released>>

(* An actor runs one operation at a time. *)
Busy(d) == proving[d] # {} \/ \E check \in checks : d \in check.own

(* The account's next state, by a device that has the latest.  The slot is *)
(* reserved anew, moves on, or is not what the transition is about; its    *)
(* statement's time may be earlier, in the same checkpoint slot.           *)
Opening == Accepted > 0 => states[Accepted].phase = 3
Lasting(phase) == Accepted > 0 /\ states[Accepted].phase <= phase
Advance(d, phase, at) ==
    /\ Accepted < MaxStates /\ device[d] = Accepted /\ ~ Busy(d)
    /\ at <= peerNow /\ RootAt(at) = RootAt(peerNow)
    /\ \A v \in 1 .. Accepted : states[v].acceptedAt <= at
    /\ \/ /\ Opening /\ phase = 1
          /\ states' = Append(states, [phase |-> 1, openedAt |-> at,
                expiresAt |-> at + abandonAfter, root |-> RootAt(at), at |-> at,
                acceptedAt |-> peerNow])
       \/ /\ Lasting(phase)
          /\ states' = Append(states, [states[Accepted] EXCEPT !.phase = phase,
                !.root = RootAt(at), !.at = at, !.acceptedAt = peerNow])
    /\ device' = [device EXCEPT ![d] = Accepted + 1]
    /\ UNCHANGED <<peerNow, proving, presented, checks, released>>

(* accountActorPeerContext: the roster is the current one, or that of an   *)
(* authenticated checkpoint in which the state was accepted.               *)
Context(now, challenge, root, checkpoint) ==
    [now |-> now, challenge |-> challenge, root |-> root, checkpoint |-> checkpoint,
     authorityExpiresAt |-> now + authorityLife]
Contexts == {Context(peerNow, c, RootAt(peerNow), cp) :
    c \in PeerChallenges, cp \in {{}} \cup {{root} : root \in 0 .. RootAt(peerNow)}}

NotBefore(root) == root * checkpointSeconds
Ends(root) == (root + 1) * checkpointSeconds
CheckpointOf(context, acceptance) ==
    \A cp \in context.checkpoint :
        /\ NotBefore(cp) <= acceptance.at /\ acceptance.at < Ends(cp)
        /\ acceptance.at <= acceptance.acceptedAt /\ acceptance.acceptedAt < Ends(cp)
        /\ acceptance.acceptedAt <= context.now
        /\ acceptance.root = cp
RootOf(context) == IF context.checkpoint = {} THEN context.root
                   ELSE CHOOSE cp \in context.checkpoint : TRUE

(* validateAcceptedContext: what was expected, of the state the acceptance *)
(* certifies, under the pinned root, while the introduction's lease runs.  *)
(* An acceptance dated before its statement or at its end, and a lease     *)
(* that outlasts the policy, are refused by the code but not here.         *)
Unpinned(root, acceptance) == TRUE
Pinned(root, acceptance) == acceptance.root = root
Validated(p, context) ==
    /\ p.phase \in Live /\ p.challenge = context.challenge
    /\ p.acceptance.version = p.version
    /\ p.acceptance.acceptedAt <= context.now
    /\ CheckpointOf(context, p.acceptance)
    /\ Pinned(RootOf(context), p.acceptance)
    /\ p.openedAt <= context.now /\ context.now < p.expiresAt
    /\ context.now < policyValidUntil

(* current: the operator's status must be the acceptance this device has. *)
IsCurrent(d) == device[d] = Accepted

PresentationOf(v, challenge) ==
    [version |-> v, phase |-> states[v].phase, openedAt |-> states[v].openedAt,
     expiresAt |-> states[v].expiresAt, challenge |-> challenge,
     acceptance |-> [version |-> v, root |-> states[v].root, at |-> states[v].at,
                     acceptedAt |-> states[v].acceptedAt]]

(* provePeer: the context is checked before the proof, which takes time. *)
ProveBegin(d, context) ==
    /\ Cardinality(presented) < MaxPresented
    /\ ~ Busy(d) /\ IsCurrent(d) /\ Accepted > 0
    /\ LET p == PresentationOf(Accepted, context.challenge)
       IN  /\ Validated(p, context)
           /\ proving' = [proving EXCEPT ![d] = {p}]
    /\ UNCHANGED <<peerNow, states, device, presented, checks, released>>

ProveEnd(d) ==
    /\ presented' = presented \cup proving[d]
    /\ proving[d] # {} /\ proving' = [proving EXCEPT ![d] = {}]
    /\ UNCHANGED <<peerNow, states, device, checks, released>>

(* verifyPeer: by the other member, or with `own' by a device of the       *)
(* presenter, which compares the state with its own after the operator's   *)
(* status.                                                                 *)
Unchecked(p, d) == p.version = device[d]
Checked(p, d) == IsCurrent(d) /\ p.version = device[d]
VerifyBegin(p, context, own) ==
    /\ Cardinality(checks) + Cardinality(released) < MaxChecks
    /\ \A d \in own : ~ Busy(d) /\ Checked(p, d)
    /\ Validated(p, context)
    /\ checks' = checks \cup {[presentation |-> p, context |-> context, own |-> own,
                               since |-> Accepted]}
    /\ UNCHANGED <<peerNow, states, device, proving, presented, released>>

(* The verifier answered: what verifies is what a prover made, and nothing *)
(* is released once an authority ended.                                    *)
ValidUntil(check) ==
    Min({policyValidUntil, check.presentation.expiresAt, check.context.authorityExpiresAt})
ProofVerifies(p) == p \in presented
EvenLate(check) == TRUE
StillValid(check) == peerNow < ValidUntil(check)
VerifyEnd(check) ==
    /\ checks' = checks \ {check}
    /\ released' = IF ProofVerifies(check.presentation) /\ StillValid(check)
                   THEN released \cup {[check |-> check, at |-> peerNow,
                                        validUntil |-> ValidUntil(check)]}
                   ELSE released
    /\ UNCHANGED <<peerNow, states, device, proving, presented>>

(* A device that lags catches up from the shared store, or never. *)
CatchUp(d) ==
    /\ ~ Busy(d) /\ device[d] < Accepted
    /\ device' = [device EXCEPT ![d] = Accepted]
    /\ UNCHANGED <<peerNow, states, proving, presented, checks, released>>

Next ==
    \/ Tick
    \/ \E d \in Devices, phase \in 1 .. 3, at \in PeerTimes : Advance(d, phase, at)
    \/ \E d \in Devices : CatchUp(d) \/ ProveEnd(d) \/ \E c \in Contexts : ProveBegin(d, c)
    \/ \E p \in presented, c \in Contexts, own \in {{}} \cup {{d} : d \in Devices} : VerifyBegin(p, c, own)
    \/ \E check \in checks : VerifyEnd(check)

Spec == Init /\ [][Next]_peerVars
-----------------------------------------------------------------------------
(* What is released is a live slot of a state that the operator accepted   *)
(* while the roster of that slot of time was in force, for the challenge   *)
(* the verifier chose, and not after the introduction, the policy or the   *)
(* authority ended; if it is the member's own, no later state had been     *)
(* accepted when the check began (actor.mjs:288-316,                       *)
(* peer-verifier.mjs:21-60).                                               *)
ReleasedWasAccepted ==
    \A r \in released :
        LET p == r.check.presentation
            s == states[p.version]
        IN  /\ s.phase \in Live /\ s.phase = p.phase
            /\ s.acceptedAt \in NotBefore(RootOf(r.check.context)) .. Ends(RootOf(r.check.context)) - 1
            /\ r.check.context.challenge = p.challenge
            /\ r.at < s.expiresAt /\ r.at < policyValidUntil
            /\ r.at < r.check.context.authorityExpiresAt
            /\ r.check.own # {} => p.version = r.check.since
=============================================================================
