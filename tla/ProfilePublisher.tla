-------------------------- MODULE ProfilePublisher --------------------------
(***************************************************************************)
(* The publisher of a member's profile (browser/profiles/publisher.js) on  *)
(* the discovery client (discovery.js), on one device, over the profile    *)
(* cache.                                                                  *)
(*                                                                         *)
(* Two journals are nested: the wallet's checkpoint has the key of the     *)
(* publication that is active and of the one whose outcome is unknown, the *)
(* client's has the request it sends.  Every save, send and answer is an   *)
(* `await'; a save that fails may have been applied, an answer may be      *)
(* lost, a request may arrive late or twice, and the process may stop      *)
(* (or the publisher be closed) anywhere.                                  *)
(*                                                                         *)
(* A publication is its sequence number and expiry, and stands for the key *)
(* encryptProfile drew for it.  A request is named by when it was signed.  *)
(***************************************************************************)
EXTENDS Naturals

CONSTANTS
    OtherWrites,     \* "heartbeat", "disconnect"
    Lifetimes,       \* how long a publication may be valid
    RequestSeconds,
    MaxTime, MaxSequence,   \* bounds of the model
    None

ASSUME PublisherConstants ==
    /\ OtherWrites \subseteq {"heartbeat", "disconnect"}
    /\ Lifetimes \subseteq Nat \ {0} /\ RequestSeconds \in Nat \ {0}
    /\ MaxTime \in Nat /\ MaxSequence \in Nat

Publication == [sequence : Nat, expiresAt : Nat, own : BOOLEAN]
Request ==
    [kind : {"publish"} \cup OtherWrites, publication : Publication \cup {None}, issuedAt : Nat]

ASSUME NoneIsNothing == None \notin Publication /\ None \notin Request

VARIABLES
    now,
    reserved,   \* the device state shared by the member's devices
    row,        \* the cache: [publication, until], or None
    sent,       \* requests that left the device
    accepted,   \* those the cache answered with `updated'
    wallet,     \* the saved checkpoint
    journal,    \* the saved request, or None
    publisher,  \* [at, sequence, active, pending], at = "down" when stopped
    client      \* [at, pending]

network == <<reserved, row, sent, accepted>>
disk == <<wallet, journal>>
vars == <<now, network, disk, publisher, client>>

Stopped == [at |-> "down", sequence |-> 0, active |-> None, pending |-> None]
Unsigned == [at |-> "idle", pending |-> None]

Init ==
    /\ now = 0 /\ reserved = 0 /\ row = None /\ sent = {} /\ accepted = {}
    /\ wallet = [sequence |-> 0, active |-> None, pending |-> None]
    /\ journal = None
    /\ publisher = Stopped /\ client = Unsigned

Fresh(publication) == now < publication.expiresAt
ValidUntil(request) == request.issuedAt + RequestSeconds
-----------------------------------------------------------------------------
(* The cache, which keeps what it must remember of accepted requests.      *)

(* A greater sequence, or the current publication under another lease.     *)
Acceptable(request) ==
    request.kind = "publish" =>
        /\ Fresh(request.publication)
        /\ \/ row = None
           \/ request.publication.sequence > row.publication.sequence
           \/ request.publication = row.publication

Later(a, b) == IF a > b THEN a ELSE b

Submitted == {request \in sent \ accepted :
                now < ValidUntil(request) /\ Acceptable(request)}

Receive ==
    \E request \in Submitted :
        /\ accepted' = accepted \cup {request}
        /\ row' = IF request.kind = "publish"
                  THEN [publication |-> request.publication,
                        until |-> Later(ValidUntil(request), request.publication.expiresAt)]
                  ELSE IF row = None THEN None
                  ELSE [row EXCEPT !.until = Later(@, ValidUntil(request))]
        /\ UNCHANGED <<now, reserved, sent, disk, publisher, client>>

Forget ==
    /\ row # None /\ row.until <= now
    /\ row' = None
    /\ UNCHANGED <<now, reserved, sent, accepted, disk, publisher, client>>

(* Another device of the member publishes, with a sequence of its own.     *)
OtherPublishes ==
    /\ reserved < MaxSequence
    /\ reserved' = reserved + 1
    /\ \E lifetime \in Lifetimes :
        row' = [publication |-> [sequence |-> reserved', expiresAt |-> now + lifetime,
                                 own |-> FALSE],
                until |-> now + Later(lifetime, RequestSeconds)]
    /\ UNCHANGED <<now, sent, accepted, disk, publisher, client>>

Tick ==
    /\ now < MaxTime
    /\ now' = now + 1
    /\ UNCHANGED <<network, disk, publisher, client>>
-----------------------------------------------------------------------------
(* The publisher *)

Goes(at) == publisher' = [publisher EXCEPT !.at = at]

(* restoreState, for both parts of the checkpoint. *)
Restored(state) == IF state = None \/ ~ Fresh(state) THEN None ELSE state
Loadable(checkpoint) ==
    LET active == Restored(checkpoint.active)
        pending == Restored(checkpoint.pending)
    IN  /\ \A state \in {active, pending} \ {None} : state.sequence <= checkpoint.sequence
        /\ active # None /\ pending # None => pending.sequence > active.sequence

Start ==
    /\ publisher.at = "down"
    /\ Loadable(wallet)
    /\ publisher' = [at |-> "idle", sequence |-> wallet.sequence,
                     active |-> Restored(wallet.active), pending |-> Restored(wallet.pending)]
    /\ client' = [at |-> "idle", pending |-> journal]
    /\ UNCHANGED <<now, network, disk>>

Stop ==
    /\ publisher.at # "down"
    /\ publisher' = Stopped /\ client' = Unsigned
    /\ UNCHANGED <<now, network, disk>>

(* publish: the sequence is taken for good before anything can fail. *)
Publish ==
    /\ publisher.at = "idle" /\ publisher.pending = None
    /\ reserved < MaxSequence /\ reserved' = reserved + 1
    /\ reserved' > publisher.sequence
    /\ publisher' = [publisher EXCEPT !.at = "encrypting", !.sequence = reserved']
    /\ UNCHANGED <<now, row, sent, accepted, disk, client>>

Encrypt ==
    /\ publisher.at = "encrypting"
    /\ \E lifetime \in Lifetimes :
        publisher' = [publisher EXCEPT !.at = "saving", !.pending =
            [sequence |-> publisher.sequence, expiresAt |-> now + lifetime, own |-> TRUE]]
    /\ UNCHANGED <<now, network, disk, client>>

RetryPending ==
    /\ publisher.at = "idle"
    /\ IF publisher.pending # None THEN Goes("saving")
       ELSE publisher.active # None /\ Goes("committing")
    /\ UNCHANGED <<now, network, disk, client>>

Remembered ==
    [sequence |-> publisher.sequence, active |-> publisher.active, pending |-> publisher.pending]

(* commitPending, until the cache is asked. *)
WithoutPending(checkpoint) == [checkpoint EXCEPT !.pending = wallet.pending]
Journaled(checkpoint) == checkpoint
SavePending ==
    /\ publisher.at = "saving" /\ Fresh(publisher.pending)
    /\ wallet' = Journaled(Remembered)
    /\ Goes("publishing")
    /\ UNCHANGED <<now, network, journal, client>>

(* commitPending, once the cache has answered. *)
SaveActive ==
    /\ publisher.at = "committing"
    /\ wallet' = Remembered
    /\ Goes("confirming")
    /\ UNCHANGED <<now, network, journal, client>>

(* confirmPublication of the client, which refuses another publication's. *)
Confirms == client.pending # None /\ client.pending.kind = "publish"
            /\ client.pending.publication = publisher.active
ClientPublishes == client.at # "idle" /\ client.pending.kind = "publish"
Confirm ==
    /\ publisher.at = "confirming" /\ client.at = "idle"
    /\ client.pending # None => Confirms
    /\ journal' = IF Confirms THEN None ELSE journal
    /\ client' = Unsigned
    /\ Goes("idle")
    /\ UNCHANGED <<now, network, wallet>>

Expire ==
    /\ publisher.at = "idle"
    /\ publisher' = [publisher EXCEPT !.at = "expiring",
            !.active = Restored(@), !.pending = Restored(@)]
    /\ UNCHANGED <<now, network, disk, client>>

SaveExpired ==
    /\ publisher.at = "expiring"
    /\ wallet' = Remembered
    /\ Goes("idle")
    /\ UNCHANGED <<now, network, journal, client>>

(* A call that fails leaves what it had in memory, and perhaps on disk; one *)
(* inside the client fails with it.                                        *)
PublisherFails ==
    /\ publisher.at \notin {"down", "idle"}
    /\ ~ ClientPublishes
    /\ Goes("idle")
    /\ wallet' \in IF publisher.at \in {"saving", "committing", "expiring"}
                   THEN {wallet, Remembered} ELSE {wallet}
    /\ journal' \in IF publisher.at = "confirming" /\ client.at = "idle" /\ Confirms
                    THEN {journal, None} ELSE {journal}
    /\ UNCHANGED <<now, network, client>>
-----------------------------------------------------------------------------
(* The client's writes.  The host's own go on while the publisher works.   *)

Moot == client.pending # None /\ client.pending.kind = "publish"
        /\ ~ Fresh(client.pending.publication)
Uncertain == IF Moot THEN None ELSE client.pending

(* An uncertain write is only ever repeated, never replaced by another.    *)
Names(request, kind, publication) ==
    request # None /\ request.kind = kind /\ request.publication = publication
Overtakes(kind, publication) ==
    \A request \in {Uncertain} \ {None} :
        request.kind # "publish" \/ Names(request, kind, publication)
Matches(kind, publication) ==
    \A request \in {Uncertain} \ {None} : Names(request, kind, publication)

Prepared(kind, publication) ==
    IF Names(Uncertain, kind, publication) /\ now < ValidUntil(Uncertain)
    THEN Uncertain
    ELSE [kind |-> kind, publication |-> publication, issuedAt |-> now]

Write(kind, publication) ==
    /\ client.at = "idle"
    /\ Matches(kind, publication)
    /\ client' = [at |-> "saving", pending |-> Prepared(kind, publication)]
    /\ journal' = IF Moot THEN None ELSE journal

PublishCache ==
    /\ publisher.at = "publishing"
    /\ Fresh(publisher.pending)
    /\ Write("publish", publisher.pending)
    /\ UNCHANGED <<now, network, wallet, publisher>>

HostWrites(kind) ==
    /\ publisher.at # "down"
    /\ Write(kind, None)
    /\ UNCHANGED <<now, network, wallet, publisher>>

(* The lease or the signature fails after a moot request was dropped. *)
WriteFails ==
    /\ client.at = "idle" /\ Moot
    /\ client' = Unsigned
    /\ journal' = None
    /\ UNCHANGED <<now, network, wallet, publisher>>

SaveRequest ==
    /\ client.at = "saving"
    /\ journal' = client.pending
    /\ client' = [client EXCEPT !.at = "sending"]
    /\ UNCHANGED <<now, network, wallet, publisher>>

Transmit ==
    /\ client.at = "sending" /\ now < ValidUntil(client.pending)
    /\ sent' = sent \cup {client.pending}
    /\ client' = [client EXCEPT !.at = "waiting"]
    /\ UNCHANGED <<now, reserved, row, accepted, disk, publisher>>

(* The request stays in the journal until the publisher has confirmed it;  *)
(* commitPending goes on if its publication still is fresh.                *)
PublicationAnswered ==
    /\ client.at = "waiting" /\ client.pending \in accepted
    /\ client.pending.kind = "publish"
    /\ client' = [client EXCEPT !.at = "idle"]
    /\ publisher' = IF Fresh(publisher.pending)
                    THEN [publisher EXCEPT !.at = "committing",
                                           !.active = publisher.pending, !.pending = None]
                    ELSE [publisher EXCEPT !.at = "idle"]
    /\ UNCHANGED <<now, network, disk>>

WriteAnswered ==
    /\ client.at = "waiting" /\ client.pending \in accepted
    /\ client.pending.kind # "publish"
    /\ client' = [client EXCEPT !.at = "clearing"]
    /\ UNCHANGED <<now, network, disk, publisher>>

ClearJournal ==
    /\ client.at = "clearing"
    /\ journal' = None
    /\ client' = Unsigned
    /\ UNCHANGED <<now, network, wallet, publisher>>

ClientFails ==
    /\ client.at # "idle"
    /\ client' = [client EXCEPT !.at = "idle"]
    /\ journal' \in CASE client.at = "saving" -> {journal, client.pending}
                      [] client.at = "clearing" -> {journal, None}
                      [] OTHER -> {journal}
    /\ IF client.pending.kind = "publish" THEN Goes("idle") ELSE UNCHANGED publisher
    /\ UNCHANGED <<now, network, wallet>>

Next ==
    \/ Tick \/ Forget \/ OtherPublishes
    \/ Receive
    \/ Start \/ Stop \/ Publish \/ Encrypt \/ RetryPending \/ Expire
    \/ SavePending \/ SaveActive \/ SaveExpired \/ Confirm \/ PublisherFails
    \/ PublishCache \/ \E kind \in OtherWrites : HostWrites(kind)
    \/ WriteFails \/ SaveRequest \/ Transmit \/ PublicationAnswered \/ WriteAnswered
    \/ ClearJournal \/ ClientFails

Spec == Init /\ [][Next]_vars
-----------------------------------------------------------------------------
(* Whatever was lost, repeated or late, and wherever the device stopped,   *)
(* its wallet loads and has the key of its publication that the cache      *)
(* serves: nobody is ever given a profile no one can open.                 *)
ServedKeyHeld ==
    row # None /\ row.publication.own /\ Fresh(row.publication) =>
        /\ Loadable(wallet)
        /\ row.publication \in {wallet.active, wallet.pending}
        /\ publisher.at # "down" =>
            row.publication \in {publisher.active, publisher.pending}

(* Of all the writes that left the device, one at most may still be         *)
(* accepted: "other writes cannot overtake" one that is uncertain.         *)
Open(request) ==
    /\ request \notin accepted /\ now < ValidUntil(request)
    /\ request.kind = "publish" => Fresh(request.publication)
OneUncertainWrite ==
    \A r, s \in {request \in sent : Open(request)} : r = s
=============================================================================
