--------------------------- MODULE MemberProfiles ---------------------------
(***************************************************************************)
(* The member profile prototype: an owner that answers challenged reads    *)
(* (experiments/member-profiles/protocol.js) behind a wire service that    *)
(* publishes an onion address for the length of a lease (wire.js).         *)
(*                                                                         *)
(* Every step that awaits (admission, signatures, the proof's              *)
(* verification, the publication) may answer late: the owner may then have *)
(* been deactivated or activated anew, the lease or the challenge ended,   *)
(* the service closed.  A session's two frames carry any challenge its     *)
(* reader was ever sent, so reads are repeated on several connections.     *)
(* The text, signatures and the reader's checks of them are left out.      *)
(***************************************************************************)
EXTENDS Integers, Sequences, FiniteSets, Functions

CONSTANTS
    Connections,        \* sessions a service may have at once
    maxConcurrentProofs, maxReplayMarks, challengeLife, leaseLife,
    MaxProfileTime, MaxServices, MaxChallenged      \* bounds of the model

(* Assumed wherever the module is instantiated: the host's bounds.         *)
ProfileConstants ==
    /\ maxConcurrentProofs \in Nat /\ challengeLife \in Nat /\ leaseLife \in Nat
    /\ MaxServices \in Nat

VARIABLES
    profileNow,
    service,        \* number of the service started last
    serving,        \* its state: "starting", "active", "closed"
    lease,          \* leaseExpiresAt
    publications,   \* service -> "unasked", "pending", "held", "released"
    session,        \* the owner's active session, the service's number, or 0
    consumed,       \* challenges answered in the active session
    verifying,      \* proofs being verified
    sessions,       \* connection -> [phase, service, challenge]
    challenged,     \* challenges the owner signed, [id, session, issuedAt, expiresAt]
    answers         \* challenges it answered with a profile, in order

wireVars == <<service, serving, lease, publications>>
ownerVars == <<session, consumed, verifying, challenged, answers>>
profileVars == <<profileNow, wireVars, ownerVars, sessions>>

NoChallenge == [id |-> 0, session |-> 0, issuedAt |-> 0, expiresAt |-> 0]
Closed == [phase |-> "closed", service |-> 0, challenge |-> NoChallenge]
At(phase, s, c) == [phase |-> phase, service |-> s, challenge |-> c]

Init ==
    /\ profileNow = 1 /\ service = 0 /\ serving = "closed" /\ lease = 0
    /\ publications = [s \in 1 .. MaxServices |-> "unasked"]
    /\ session = 0 /\ consumed = {} /\ verifying = 0
    /\ sessions = [k \in Connections |-> Closed] /\ challenged = {} /\ answers = << >>

Pass ==
    /\ profileNow < MaxProfileTime /\ profileNow' = profileNow + 1
    /\ UNCHANGED <<wireVars, ownerVars, sessions>>
-----------------------------------------------------------------------------
(* The service *)

(* One service at a time owns the session: the code leaves that to its     *)
(* caller, and a second one over the same owner would end the first's.     *)
Start ==
    /\ serving = "closed" /\ service < MaxServices
    /\ service' = service + 1 /\ serving' = "starting" /\ lease' = profileNow + leaseLife
    /\ session' = 0 /\ consumed' = {}
    /\ UNCHANGED <<profileNow, publications, verifying, sessions, challenged, answers>>

(* Listening done, the provider is asked to publish. *)
Publish ==
    /\ serving = "starting" /\ publications[service] = "unasked"
    /\ publications' = [publications EXCEPT ![service] = "pending"]
    /\ UNCHANGED <<profileNow, service, serving, lease, ownerVars, sessions>>

(* The provider answers, perhaps a service that is closed. *)
KeptLate(s) == "held"
Provided(s) == IF s = service /\ serving = "starting" THEN "held" ELSE "released"
Published(s) ==
    /\ publications[s] = "pending"
    /\ publications' = [publications EXCEPT ![s] = Provided(s)]
    /\ UNCHANGED <<profileNow, service, serving, lease, ownerVars, sessions>>

(* The owner's activate and disconnect: its marks go with its session. *)
ActivateOwner == profileNow < lease /\ session' = service /\ consumed' = {}
DisconnectOwner == session' = 0 /\ consumed' = {}

Activate ==
    /\ serving = "starting" /\ publications[service] = "held"
    /\ serving' = "active" /\ ActivateOwner
    /\ UNCHANGED <<profileNow, service, lease, publications, verifying, sessions, challenged,
                   answers>>

(* disconnect: asked for, or the startup timer, the server, the loss of    *)
(* the publication, a failed verification or the end of the lease.         *)
(* Channels close; what their handlers await goes on.                      *)
Disconnect ==
    /\ serving # "closed"
    /\ serving' = "closed" /\ DisconnectOwner
    /\ publications' = [publications EXCEPT ![service] = IF @ = "held" THEN "released" ELSE @]
    /\ UNCHANGED <<profileNow, service, lease, verifying, sessions, challenged, answers>>

LiveService(k) ==
    sessions[k].service = service /\ serving = "active" /\ profileNow < lease
-----------------------------------------------------------------------------
(* The owner's handling of a connection's two frames *)

To(k, phase, c) == sessions' = [sessions EXCEPT ![k] = At(phase, @.service, c)]
End(k) == sessions' = [sessions EXCEPT ![k] = Closed]

Connect(k) ==
    /\ sessions[k] = Closed
    /\ serving = "active" /\ profileNow < lease
    /\ sessions' = [sessions EXCEPT ![k] = At("hello", service, NoChallenge)]
    /\ UNCHANGED <<profileNow, wireVars, ownerVars>>

Hello(k) ==
    /\ sessions[k].phase = "hello" /\ LiveService(k) /\ session = service
    /\ To(k, "admitting", NoChallenge)
    /\ UNCHANGED <<profileNow, wireVars, ownerVars>>

(* The owner's own admission still holds; the challenge is signed. *)
Challenge(k) ==
    /\ sessions[k].phase = "admitting" /\ session = sessions[k].service
    /\ Cardinality(challenged) < MaxChallenged /\ profileNow < lease
    /\ LET ends == IF profileNow + challengeLife < lease THEN profileNow + challengeLife
                   ELSE lease
           c == [id |-> Cardinality(challenged) + 1, session |-> session,
                 issuedAt |-> profileNow, expiresAt |-> ends]
       IN  challenged' = challenged \cup {c} /\ To(k, "signing", c)
    /\ UNCHANGED <<profileNow, wireVars, session, consumed, verifying, answers>>

(* matches: the challenge is of the session that is active now, and fresh. *)
FreshChallenge(c) == profileNow < c.expiresAt
AnySession(c) == FreshChallenge(c)
Matches(c) == c.session = session /\ FreshChallenge(c)

SendChallenge(k) ==
    /\ sessions[k].phase = "signing" /\ Matches(sessions[k].challenge) /\ LiveService(k)
    /\ To(k, "read", NoChallenge)
    /\ UNCHANGED <<profileNow, wireVars, ownerVars>>

Remembered == {c \in consumed : c.expiresAt > profileNow}
CheckedBefore(c) == TRUE
Unconsumed(c) == c \notin Remembered /\ Cardinality(Remembered) < maxReplayMarks

Read(k, c) ==
    /\ sessions[k].phase = "read" /\ LiveService(k) /\ Matches(c)
    /\ c \notin Remembered /\ Cardinality(Remembered) < maxReplayMarks
    /\ verifying < maxConcurrentProofs
    /\ verifying' = verifying + 1 /\ consumed' = Remembered
    /\ To(k, "verifying", c)
    /\ UNCHANGED <<profileNow, wireVars, session, challenged, answers>>

(* The proof holds: the challenge is claimed before the answer is signed.  *)
Verified(k) ==
    /\ sessions[k].phase = "verifying"
    /\ Matches(sessions[k].challenge) /\ Unconsumed(sessions[k].challenge)
    /\ consumed' = Remembered \cup {sessions[k].challenge}
    /\ To(k, "answering", sessions[k].challenge)
    /\ UNCHANGED <<profileNow, wireVars, session, verifying, challenged, answers>>

Answer(k) ==
    /\ sessions[k].phase = "answering" /\ Matches(sessions[k].challenge)
    /\ verifying' = verifying - 1
    /\ answers' = Append(answers, sessions[k].challenge)
    /\ End(k)
    /\ UNCHANGED <<profileNow, wireVars, session, consumed, challenged>>

(* A check or an awaited step fails, or the connection ends between frames. *)
Kept(k) == verifying
Freed(k) == IF sessions[k].phase \in {"verifying", "answering"} THEN verifying - 1 ELSE verifying
Fail(k) ==
    /\ sessions[k] # Closed
    /\ verifying' = Freed(k)
    /\ End(k)
    /\ UNCHANGED <<profileNow, wireVars, session, consumed, challenged, answers>>

Next ==
    \/ Pass \/ Start \/ Publish \/ Activate \/ Disconnect
    \/ \E s \in 1 .. service : Published(s)
    \/ \E k \in Connections :
        \/ Connect(k) \/ Hello(k) \/ Challenge(k) \/ SendChallenge(k)
        \/ \E c \in challenged : Read(k, c)
        \/ Verified(k) \/ Answer(k) \/ Fail(k)

Spec == Init /\ [][Next]_profileVars
-----------------------------------------------------------------------------
(* A challenge is answered once: not by two handlers that verified its     *)
(* proof at the same time, and not again after its mark was pruned or its  *)
(* session replaced (protocol.js:227-248).                                 *)
AnsweredOnce == IsInjective(answers)

(* What is taken is given back: every publication of a closed service is   *)
(* released or will be when it arrives, and the owner counts exactly the   *)
(* proofs it is still working on, through failures and reactivations       *)
(* (wire.js:122-126, 185; protocol.js:235, 248).                           *)
NothingLeaks ==
    /\ \A s \in 1 .. MaxServices :
        publications[s] = "held" => s = service /\ serving # "closed"
    /\ verifying = Cardinality({k \in Connections :
                       sessions[k].phase \in {"verifying", "answering"}})
    /\ verifying <= maxConcurrentProofs
=============================================================================
