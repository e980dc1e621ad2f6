----------------------------- MODULE KeyService -----------------------------
(***************************************************************************)
(* A profile's key against a ticket: the key service of a holder           *)
(* (createProfileKeyService in browser/profiles/access.js), whom the       *)
(* publisher or a seed gave the key; a reader (createProfileReader) with   *)
(* its wallet of permits (createProfileTicketAcquirer in tickets.js); and  *)
(* the operator who exchanges a permit for a ticket, which is Redemption.  *)
(*                                                                         *)
(* The holder sees a key request only as bytes: it may be repeated, late,  *)
(* and come from another reader with its own permit, who chose what to     *)
(* combine.  Requests are handled concurrently, each across several        *)
(* `await's, while the publisher may replace the publication or the        *)
(* service may restart.  The reader's device may stop anywhere, and its    *)
(* saves may fail after they were applied.                                 *)
(*                                                                         *)
(* A publication stands for its key; StateEnd is the earliest expiry of    *)
(* the envelope, the holder's authority and its delegation.  Encryption,   *)
(* signatures and the eligibility proof are abstracted to who may pass     *)
(* them: a challenge is one the service signed, a ticket one the operator  *)
(* stamped.  Holder and reader share one clock, the operator has its own.  *)
(***************************************************************************)
EXTENDS Redemption, FiniteSets

CONSTANTS
    Publications,   \* 1 .. n, in the order they are published
    StateEnd,       \* publication -> time
    OwnTokens,      \* of the Tokens, those in the reader's wallet
    Handlers,       \* requests the service can have under way
    limits,         \* [challengeSeconds, keySeconds, windowSeconds, requests,
                    \*  replayEntries, concurrent]
    OperatorTimes,  \* what the operator's clock may show
    MaxTime, MaxSessions, MaxChallenges,    \* bounds of the model
    None

Readers == {"own", "other"}
Challenge ==
    [session : 1 .. MaxSessions, publication : Publications, reader : Readers,
     nonce : 1 .. MaxChallenges, issuedAt : Times, expiresAt : Times]
(* A ticket's commitment is to a challenge and its end, both here. *)
TicketClaims == {c \in [token : Tokens, claim : Readers, commitment : Challenge, until : Times] :
            c.until = c.commitment.expiresAt /\ validFrom < c.until /\ c.until <= expiresAt}

ASSUME KeyServiceAssumption ==
    /\ StateEnd \in [Publications -> Nat]
    /\ OwnTokens \subseteq Tokens /\ OperatorTimes \subseteq Nat
    /\ limits.challengeSeconds \in Nat
    /\ None \notin Publications
    /\ None \notin [token : Tokens, claim : Readers, commitment : [session : Nat,
          publication : Publications, reader : Readers, nonce : Nat, issuedAt : Nat,
          expiresAt : Nat], until : Nat]

VARIABLES
    now,
    active,         \* the publication the service has the key of, or None
    session,        \* sessionId, drawn when the service starts
    consumed,       \* challenges that were used
    window,         \* [start, requests]
    handlers,       \* [at, value, ticket] of each request under way
    challenges,     \* those the service signed
    granted,        \* token -> keys given for it
    reader,         \* [at, value, pending]: the read, and the acquirer's claim
    wallet,         \* the permits takePermit may still take
    journal         \* the claim savePending saved, or None

service == <<active, session, consumed, window, handlers, challenges, granted>>
device == <<reader, wallet, journal>>
operator == vars    \* those of Redemption
allVars == <<now, service, device, operator>>

NoRequest == [at |-> "idle", value |-> None, ticket |-> None]

KeyInit ==
    /\ now = 1 /\ active = None /\ session = 1
    /\ consumed = {} /\ window = [start |-> 0, requests |-> 0]
    /\ handlers = [h \in Handlers |-> NoRequest]
    /\ challenges = {} /\ granted = [token \in Tokens |-> 0]
    /\ reader = [at |-> "idle", value |-> None, pending |-> None]
    /\ wallet = OwnTokens /\ journal = None
    /\ Init

Tick ==
    /\ now < MaxTime
    /\ now' = now + 1
    /\ UNCHANGED <<service, device, operator>>
-----------------------------------------------------------------------------
(* The holder *)

Live(publication) == active = publication /\ publication # None /\ now < StateEnd[publication]

(* The publisher commits its next publication, or drops an expired one. *)
Replace ==
    /\ active' \in IF active = None THEN Publications ELSE {p \in Publications : p > active}
    /\ UNCHANGED <<now, session, consumed, window, handlers, challenges, granted,
                   device, operator>>

Withdraw ==
    /\ active # None /\ now >= StateEnd[active]
    /\ active' = None
    /\ UNCHANGED <<now, session, consumed, window, handlers, challenges, granted,
                   device, operator>>

(* A new service object: it forgets what was used, under another session. *)
Restart ==
    /\ session < MaxSessions
    /\ session' = session + 1
    /\ consumed' = {} /\ window' = [start |-> 0, requests |-> 0]
    /\ handlers' = [h \in Handlers |-> NoRequest]
    /\ UNCHANGED <<now, active, challenges, granted, device, operator>>

(* rate: every request counts, and prunes the challenges that ended.  Of   *)
(* the requests refused later only answers not given are steps here, and   *)
(* the limit is reached later than in the code.                            *)
Renewed == now >= window.start + limits.windowSeconds
Rate ==
    /\ Renewed \/ window.requests < limits.requests
    /\ window' = IF Renewed THEN [start |-> now, requests |-> 1]
                 ELSE [window EXCEPT !.requests = @ + 1]
Unexpired == {value \in consumed : now < value.expiresAt}

Least(a, b) == IF a < b THEN a ELSE b

(* A hello is answered at once or not at all: its challenge leaves only if  *)
(* the publication still is the one it began with.                         *)
Hello(who) ==
    /\ Live(active) /\ Rate
    /\ consumed' = Unexpired
    /\ Cardinality(challenges) < MaxChallenges
    /\ challenges' = challenges \cup
        {[session |-> session, publication |-> active, reader |-> who,
          nonce |-> Cardinality(challenges) + 1, issuedAt |-> now,
          expiresAt |-> Least(now + limits.challengeSeconds, StateEnd[active])]}
    /\ UNCHANGED <<now, active, session, handlers, granted, device, operator>>

(* matches: after every await, the same publication under the same session. *)
Matches(value) ==
    /\ Live(value.publication) /\ value.session = session
    /\ now < value.expiresAt

Verifying == {h \in Handlers : handlers[h].at # "idle"}

AnyChallenge(value) == Cardinality(Unexpired) < limits.replayEntries
Unused(value) == value \notin Unexpired /\ Cardinality(Unexpired) < limits.replayEntries

(* A challenge is used up before the first verifier is awaited, however     *)
(* the request ends.                                                       *)
Read(h, value, ticket) ==
    /\ handlers[h].at = "idle"
    /\ Rate /\ Matches(value)
    /\ Unused(value)
    /\ Cardinality(Verifying) < limits.concurrent
    /\ consumed' = Unexpired \cup {value}
    /\ handlers' = [handlers EXCEPT ![h] = [at |-> "proving", value |-> value, ticket |-> ticket]]
    /\ UNCHANGED <<now, active, session, challenges, granted, device, operator>>

Goes(h, at) == handlers' = [handlers EXCEPT ![h].at = at]

(* verifyProof, then authorizeAccess, both of the embedding. *)
Authorized(h) ==
    /\ handlers[h].at = "proving" /\ Matches(handlers[h].value)
    /\ Goes(h, "authorized")
    /\ UNCHANGED <<now, active, session, consumed, window, challenges, granted, device, operator>>

(* createProfileTicketVerifier: a stamp for this challenge, in the epoch. *)
AnyTicket(ticket, value) == TRUE
ForChallenge(ticket, value) == ticket.commitment = value
TicketChecked(h) ==
    /\ handlers[h].at = "authorized" /\ Matches(handlers[h].value)
    /\ CheckTime(now)
    /\ ForChallenge(handlers[h].ticket, handlers[h].value)
    /\ Goes(h, "wrapping")
    /\ UNCHANGED <<now, active, session, consumed, window, challenges, granted, device, operator>>

(* The key was wrapped and the grant signed; it leaves only if it still may. *)
KeyEnd(value) == Least(value.expiresAt, value.issuedAt + limits.keySeconds)
Unchecked(value) == TRUE
StillMatches(value) == Matches(value)
Grant(h) ==
    /\ handlers[h].at = "wrapping" /\ StillMatches(handlers[h].value)
    /\ now < KeyEnd(handlers[h].value)
    /\ granted' = [granted EXCEPT ![handlers[h].ticket.token] = @ + 1]
    /\ handlers' = [handlers EXCEPT ![h] = NoRequest]
    /\ UNCHANGED <<now, active, session, consumed, window, challenges, device, operator>>

Refuse(h) ==
    /\ handlers[h].at # "idle"
    /\ handlers' = [handlers EXCEPT ![h] = NoRequest]
    /\ UNCHANGED <<now, active, session, consumed, window, challenges, granted, device, operator>>
-----------------------------------------------------------------------------
(* The operator, and a reader who may give one permit for two challenges.  *)

RedeemTicket(c, at, done) == Redeem(c, at, done) /\ UNCHANGED <<now, service, device>>
PruneTickets(at) == Prune(at) /\ UNCHANGED <<now, service, device>>

OtherDraws(token, value) ==
    /\ value.reader = "other" /\ now < value.expiresAt
    /\ Draw([token |-> token, claim |-> "other", commitment |-> value,
                      until |-> value.expiresAt], now)
    /\ UNCHANGED <<now, service, device>>
-----------------------------------------------------------------------------
(* The reader *)

Reads(at) == reader' = [reader EXCEPT !.at = at]

(* read: the holder's challenge for the publication it fetched. *)
Begin(value) ==
    /\ reader.at = "idle" /\ value.reader = "own" /\ now < value.expiresAt
    /\ reader' = [reader EXCEPT !.at = "challenged", !.value = value]
    /\ UNCHANGED <<now, service, wallet, journal, operator>>

(* acquireTicket: a claim is never left for another challenge. *)
Acquire ==
    /\ reader.at = "challenged" /\ now < reader.value.expiresAt
    /\ CheckTime(now)
    /\ IF reader.pending # None
       THEN /\ reader.pending.commitment = reader.value
            /\ Reads("saving") /\ UNCHANGED wallet
       ELSE \E token \in wallet :
            /\ wallet' = wallet \ {token}
            /\ reader' = [reader EXCEPT !.at = "saving", !.pending =
                [token |-> token, claim |-> "own", commitment |-> reader.value,
                 until |-> reader.value.expiresAt]]
    /\ UNCHANGED <<now, service, journal, operator>>

RetryPending ==
    /\ reader.at = "idle" /\ reader.pending # None
    /\ Reads("saving")
    /\ UNCHANGED <<now, service, wallet, journal, operator>>

(* finish: the claim is saved before the operator may spend its permit. *)
Unsaved(claim) == journal
Saved(claim) == claim
SaveClaim ==
    /\ reader.at = "saving" /\ now < reader.pending.until /\ CheckTime(now)
    /\ journal' = Saved(reader.pending)
    /\ IF reader.pending \in drawn THEN UNCHANGED operator
       ELSE Draw(reader.pending, now)
    /\ Reads("redeeming")
    /\ UNCHANGED <<now, service, wallet>>

HaveTicket ==
    /\ reader.at = "redeeming"
    /\ Accept(reader.pending, now)
    /\ Reads("completing")
    /\ UNCHANGED <<now, service, wallet, journal>>

(* complete: the permit is spent; the ticket is in hand, if there is time. *)
Complete ==
    /\ reader.at = "completing"
    /\ journal' = None
    /\ reader' = [at |-> "idle", value |-> None, pending |-> None]
    /\ UNCHANGED <<now, service, wallet, operator>>

(* A save or a call fails, the first perhaps after it was applied. *)
AcquirerFails ==
    /\ reader.at # "idle"
    /\ Reads("idle")
    /\ journal' \in CASE reader.at = "saving" -> {journal, Saved(reader.pending)}
                      [] reader.at = "completing" -> {journal, None}
                      [] OTHER -> {journal}
    /\ UNCHANGED <<now, service, wallet, operator>>

(* retireExpired: the permit may have been spent, and is never put back. *)
RetireExpired ==
    /\ reader.at = "idle" /\ reader.pending # None /\ now >= reader.pending.until
    /\ journal' = None
    /\ reader' = [reader EXCEPT !.pending = None]
    /\ UNCHANGED <<now, service, wallet, operator>>

DeviceRestarts ==
    /\ reader' = [at |-> "idle", value |-> None, pending |-> journal]
    /\ UNCHANGED <<now, service, wallet, journal, operator>>

KeyNext ==
    \/ Tick \/ Replace \/ Withdraw \/ Restart
    \/ \E who \in Readers : Hello(who)
    \/ \E h \in Handlers :
        \/ \E value \in challenges, ticket \in stamps : Read(h, value, ticket)
        \/ Authorized(h) \/ TicketChecked(h) \/ Grant(h) \/ Refuse(h)
    \/ \E c \in drawn, at, done \in OperatorTimes : RedeemTicket(c, at, done)
    \/ \E at \in OperatorTimes : PruneTickets(at)
    \/ \E token \in Tokens \ OwnTokens, value \in challenges : OtherDraws(token, value)
    \/ \E value \in challenges : Begin(value)
    \/ Acquire \/ RetryPending \/ SaveClaim \/ HaveTicket \/ Complete
    \/ AcquirerFails \/ RetireExpired \/ DeviceRestarts

KeySpec == KeyInit /\ [][KeyNext]_allVars
-----------------------------------------------------------------------------
(* One permit, one key: whatever is repeated, late, handled at once or      *)
(* after a restart, and whatever two challenges one permit was drawn for.  *)
KeyPerPermit == \A token \in Tokens : granted[token] <= 1

(* While its challenge lasts, a claim the operator has spent a permit for   *)
(* is on the reader's disk, which can ask for the same ticket again, or     *)
(* the reader has had the ticket.                                          *)
PaidIsKept ==
    \A c \in redemptions : c.claim = "own" /\ now < c.until => journal = c \/ c \in accepted

(* No key leaves once its publication was replaced or has ended, or the     *)
(* service that was asked is gone, wherever the request had got to.        *)
GrantIsCurrent ==
    [][\A h \in Handlers :
        granted' # granted /\ handlers'[h] # handlers[h] =>
            /\ handlers[h].value.publication = active /\ now < StateEnd[active]
            /\ handlers[h].value.session = session /\ handlers[h].value \in challenges]_allVars
=============================================================================
