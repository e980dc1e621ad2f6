----------------------------- MODULE Rendezvous -----------------------------
(***************************************************************************)
(* The ephemeral rendezvous (src/rendezvous.js): an admitted member asks   *)
(* for a challenge, signs it with its chat key and registers a route for   *)
(* the length of a lease; who is registered may list the others.           *)
(*                                                                         *)
(* A registration checks its challenge, awaits the admission verifier,     *)
(* and checks again before it commits: other calls, expiries and the       *)
(* process's end come in between.  Signatures and authenticators are true  *)
(* of the challenge they were made for; the route is part of it.           *)
(***************************************************************************)
EXTENDS Integers, Sequences, FiniteSets, Functions

CONSTANTS
    Grants,         \* admission grants, [member, issuedAt, expiresAt]
    leaseSeconds, replySeconds, maxMembers, maxReplayEntries,  \* the host's bounds
    MaxRdvTime, MaxBegun, MaxRegistering    \* bounds of the model

(* Assumed wherever the module is instantiated. *)
RendezvousConstants ==
    /\ leaseSeconds \in Nat /\ replySeconds \in Nat
    /\ maxMembers \in Nat /\ maxReplayEntries \in Nat
    /\ \A g \in Grants : g.issuedAt \in Nat /\ g.expiresAt \in Nat

VARIABLES
    rdvNow,         \* clock(), which only advances
    members,        \* member -> token, a partial function
    sessions,       \* [token, challenge, expiresAt]
    used,           \* challenges registered and not yet pruned, replay markers
    asked,          \* challenges made
    begun,          \* challenges this process authenticated, [id, member, issuedAt, expiresAt]
    registering,    \* registrations awaiting admission, [challenge, grant]
    registered      \* every challenge that got a session; its index is the token

rdvVars == <<rdvNow, members, sessions, used, asked, begun, registering, registered>>

NobodyRegistered ==
    /\ members = << >> /\ sessions = {} /\ used = {} /\ begun = {} /\ registering = {}
Init == rdvNow = 1 /\ NobodyRegistered /\ asked = 0 /\ registered = << >>
-----------------------------------------------------------------------------
Earlier(a, b) == IF a < b THEN a ELSE b
Only(map, domain) == [m \in domain |-> map[m]]

(* pruneAt, which every call does first: what it leaves. *)
Live == {s \in sessions : s.expiresAt > rdvNow}
Marks == {c \in used : c.expiresAt > rdvNow}
Erased(gone) == Only(members, DOMAIN members \ {s.challenge.member : s \in gone})
Listed == Erased(sessions \ Live)

(* The timer, prune(), list() and a rejected call change nothing else. *)
Prune ==
    /\ members' = Listed /\ sessions' = Live /\ used' = Marks
    /\ UNCHANGED <<rdvNow, asked, begun, registering, registered>>

Advance ==
    /\ rdvNow < MaxRdvTime /\ rdvNow' = rdvNow + 1
    /\ UNCHANGED <<members, sessions, used, asked, begun, registering, registered>>

Valid(g) == g.issuedAt <= rdvNow /\ rdvNow < g.expiresAt

Begin(g) ==
    /\ asked < MaxBegun /\ asked' = asked + 1
    /\ Valid(g)
    /\ begun' = begun \cup {[id |-> asked, member |-> g.member,
            issuedAt |-> rdvNow, expiresAt |-> Earlier(rdvNow + replySeconds, g.expiresAt)]}
    /\ members' = Listed /\ sessions' = Live /\ used' = Marks
    /\ UNCHANGED <<rdvNow, registering, registered>>

(* register: up to the await, and what the verifier may then approve. *)
Register(c, g) ==
    /\ Cardinality(registering) < MaxRegistering
    /\ Valid(c)
    /\ Valid(g) /\ g.member = c.member /\ g.expiresAt >= c.expiresAt
    /\ registering' = registering \cup {[challenge |-> c, grant |-> g]}
    /\ members' = Listed /\ sessions' = Live /\ used' = Marks
    /\ UNCHANGED <<rdvNow, asked, begun, registered>>

AlreadyChecked(r) == TRUE
StillValid(r) == rdvNow < r.challenge.expiresAt /\ rdvNow < r.grant.expiresAt

Replaced(m) == {s \in Live : s.challenge.member = m}
(* A member's entry is written after the erasure of its old session. *)
EntryThenErase(r) ==
    IF Replaced(r.challenge.member) # {} THEN Only(Listed, DOMAIN Listed \ {r.challenge.member})
    ELSE [m \in DOMAIN Listed \cup {r.challenge.member} |->
            IF m = r.challenge.member THEN Len(registered) + 1 ELSE Listed[m]]
EraseThenEntry(r) ==
    [m \in DOMAIN Listed \cup {r.challenge.member} |->
        IF m = r.challenge.member THEN Len(registered) + 1 ELSE Listed[m]]

Commit(r) ==
    /\ StillValid(r)
    /\ r.challenge \notin Marks /\ Cardinality(Marks) < maxReplayEntries
    /\ \/ r.challenge.member \in DOMAIN Listed
       \/ Cardinality(DOMAIN Listed) < maxMembers
    /\ members' = EraseThenEntry(r)
    /\ sessions' = (Live \ Replaced(r.challenge.member)) \cup
            {[token |-> Len(registered) + 1, challenge |-> r.challenge,
              expiresAt |-> Earlier(rdvNow + leaseSeconds, r.grant.expiresAt)]}
    /\ used' = Marks \cup {r.challenge}
    /\ registered' = Append(registered, r.challenge)
    /\ registering' = registering \ {r}
    /\ UNCHANGED <<rdvNow, asked, begun>>

(* The verifier refuses, or a check fails after it answered. *)
Refuse(r) ==
    /\ registering' = registering \ {r}
    /\ members' = Listed /\ sessions' = Live /\ used' = Marks
    /\ UNCHANGED <<rdvNow, asked, begun, registered>>

Disconnect(s) ==
    /\ s \in Live
    /\ members' = Erased((sessions \ Live) \cup {s}) /\ sessions' = Live \ {s} /\ used' = Marks
    /\ UNCHANGED <<rdvNow, asked, begun, registering, registered>>

(* close, and a new process, whose secret authenticates no old challenge. *)
Restart ==
    /\ members' = << >> /\ sessions' = {} /\ used' = {} /\ registering' = {}
    /\ begun' = {} /\ UNCHANGED <<rdvNow, asked, registered>>

Next ==
    \/ Advance \/ Prune \/ Restart
    \/ \E g \in Grants : Begin(g) \/ \E c \in begun : Register(c, g)
    \/ \E r \in registering : Commit(r) \/ Refuse(r)
    \/ \E s \in sessions : Disconnect(s)

Spec == Init /\ [][Next]_rdvVars
-----------------------------------------------------------------------------
(* A signed challenge registers once, however long its verification takes  *)
(* and although its replay marker is pruned: what is rechecked after the   *)
(* await outlives the marker (rendezvous.js:176-184).                      *)
ChallengeOnce == IsInjective(registered)

(* Whoever is registered has one session, the one the directory of members *)
(* points to, and the host's bounds hold after every order of expiries,    *)
(* replacements, disconnections and registrations (rendezvous.js:101-109,  *)
(* 179-187).                                                               *)
OneSessionEach ==
    /\ {<<s.challenge.member, s.token>> : s \in sessions}
        = {<<m, members[m]>> : m \in DOMAIN members}
    /\ Cardinality(sessions) <= maxMembers /\ Cardinality(used) <= maxReplayEntries
=============================================================================
