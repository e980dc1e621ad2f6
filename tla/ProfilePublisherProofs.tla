----------------------- MODULE ProfilePublisherProofs -----------------------
(***************************************************************************)
(* Theorems about ProfilePublisher, for any lifetimes and clock: whatever  *)
(* fails, stops or arrives late, one write at most is uncertain, and the   *)
(* device has the key of its publication that the cache serves.            *)
(***************************************************************************)
EXTENDS ProfilePublisher, TLAPS

Optional == Publication \cup {None}
Points == {"down", "idle", "encrypting", "saving", "publishing", "committing", "confirming",
           "expiring"}
ClientPoints == {"idle", "saving", "sending", "waiting", "clearing"}

IsPublish(request) == request # None /\ request.kind = "publish"
Up == publisher.at # "down"

Types ==
    /\ now \in Nat /\ reserved \in Nat
    /\ row # None => row \in [publication : Publication, until : Nat]
    /\ sent \subseteq Request /\ accepted \subseteq sent
    /\ wallet \in [sequence : Nat, active : Optional, pending : Optional]
    /\ publisher \in [at : Points, sequence : Nat, active : Optional, pending : Optional]
    /\ journal \in Request \cup {None}
    /\ client \in [at : ClientPoints, pending : Request \cup {None}]
    /\ \A request \in sent \cup {journal, client.pending} :
        IsPublish(request) => request.publication # None

(* A checkpoint's pending publication comes after its active one. *)
Ordered(state) ==
    /\ state.active # None => state.active.sequence <= state.sequence
    /\ state.pending # None => state.pending.sequence <= state.sequence
    /\ state.active # None /\ state.pending # None =>
        state.active.sequence < state.pending.sequence

(* A sequence number is taken before anything is made of it, and no saved  *)
(* publication, active in memory or on disk, reaches the one to come. *)
Taken(request) ==
    IsPublish(request) =>
        /\ request.publication.sequence <= reserved
        /\ publisher.at = "encrypting" => request.publication.sequence < publisher.sequence
Sequenced ==
    /\ Ordered(wallet) /\ wallet.sequence <= reserved
    /\ Ordered(publisher) /\ publisher.sequence <= reserved
    /\ \A request \in sent \cup {journal, client.pending} : Taken(request)
    /\ wallet.active # None /\ publisher.pending # None =>
        wallet.active.sequence < publisher.pending.sequence
    /\ publisher.at = "encrypting" =>
        /\ publisher.pending = None
        /\ \A active \in {wallet.active, publisher.active} \ {None} :
            active.sequence < publisher.sequence

(* What the publisher and its client rely on at their awaits. *)
AtPoints ==
    /\ ~ Up => client = Unsigned /\ publisher = Stopped
    /\ publisher.at \in {"saving", "publishing"} => publisher.pending # None
    /\ publisher.at = "publishing" => wallet.pending = publisher.pending
    /\ client.at # "idle" => client.pending # None
    /\ ClientPublishes => publisher.at = "publishing"
                          /\ client.pending.publication = publisher.pending
    /\ client.at \in {"sending", "waiting", "clearing"} => journal = client.pending
    /\ client.at = "clearing" => client.pending \in accepted

(* A write whose outcome is unknown stays in the client's journal. *)
OpenIsKept ==
    \A request \in sent : Open(request) =>
        request = journal /\ (Up => request = client.pending)

(* The publication of such a write stays pending, on disk and in memory. *)
PendingIsKept ==
    \A request \in {journal, client.pending} :
        IsPublish(request) /\ Fresh(request.publication) /\ request \notin accepted =>
            /\ request.publication = wallet.pending
            /\ Up => request.publication = publisher.pending

(* A publication is active once the cache has accepted the write. *)
ActiveIsAccepted ==
    \A request \in {journal, client.pending} :
        IsPublish(request) /\ request.publication \in {publisher.active, wallet.active}
            => request \in accepted

(* No older publication of the device is served next to its latest one. *)
LatestIsServed ==
    \A request \in accepted :
        /\ IsPublish(request) /\ request.publication \in {publisher.pending, wallet.pending}
        /\ row # None /\ row.publication.own /\ Fresh(row.publication)
        => row.publication = request.publication

KeyHeld ==
    row # None /\ row.publication.own /\ Fresh(row.publication) =>
        /\ row.publication \in {wallet.active, wallet.pending}
        /\ Up => row.publication \in {publisher.active, publisher.pending}

IInv ==
    /\ Types /\ Sequenced /\ AtPoints
    /\ OpenIsKept /\ PendingIsKept /\ ActiveIsAccepted /\ LatestIsServed /\ KeyHeld
-----------------------------------------------------------------------------
(* What a fresh write of the client is: the uncertain one, or a new one. *)
LEMMA PreparedType ==
  ASSUME Types, NEW kind \in {"publish"} \cup OtherWrites, NEW publication \in Optional,
         kind = "publish" => publication # None, Write(kind, publication)
  PROVE  LET new == [kind |-> kind, publication |-> publication, issuedAt |-> now]
         IN  /\ new \in Request
             /\ \/ Prepared(kind, publication) = client.pending /\ client.pending # None
                \/ Prepared(kind, publication) = new
             /\ Prepared(kind, publication) \in Request
             /\ Prepared(kind, publication).kind = kind
             /\ Prepared(kind, publication).publication = publication
  BY PublisherConstants, NoneIsNothing
  DEF Types, Write, Prepared, Names, Uncertain, Moot, Request, Optional, ClientPoints

(* What a restart takes of a checkpoint. *)
LEMMA RestoredIs ==
  ASSUME NEW state \in Optional
  PROVE  /\ Restored(state) \in {state, None}
         /\ state # None /\ Fresh(state) => Restored(state) = state
         /\ Restored(state) # None => Restored(state) = state /\ Fresh(state)
  BY DEF Restored

LEMMA StepTypes ==
  ASSUME IInv, Next
  PROVE  Types'
  <1> USE PublisherConstants, NoneIsNothing DEF IInv, Types, network, disk
  <1>1. CASE Tick
    BY <1>1 DEF Tick, IsPublish
  <1>2. CASE Forget
    BY <1>2 DEF Forget, IsPublish
  <1>3. CASE OtherPublishes
    <2>1. PICK lifetime \in Lifetimes :
            row' = [publication |-> [sequence |-> reserved', expiresAt |-> now + lifetime,
                                     own |-> FALSE],
                    until |-> now + Later(lifetime, RequestSeconds)]
      BY <1>3 DEF OtherPublishes
    <2>2. row' \in [publication : Publication, until : Nat] /\ reserved' \in Nat
      BY <1>3, <2>1 DEF OtherPublishes, Publication, Later
    <2>3. QED BY <1>3, <2>2 DEF OtherPublishes, IsPublish
  <1>4. CASE Receive
    <2>1. PICK request \in Submitted :
            /\ accepted' = accepted \cup {request}
            /\ row' = IF request.kind = "publish"
                      THEN [publication |-> request.publication,
                            until |-> Later(ValidUntil(request), request.publication.expiresAt)]
                      ELSE IF row = None THEN None
                      ELSE [row EXCEPT !.until = Later(@, ValidUntil(request))]
      BY <1>4 DEF Receive
    <2>2. /\ request \in sent /\ request \in Request
          /\ request.kind = "publish" => request.publication \in Publication
      BY <2>1 DEF Submitted, IsPublish, Request
    <2>3. ValidUntil(request) \in Nat
      BY <2>2 DEF ValidUntil, Request
    <2>4. row' # None => row' \in [publication : Publication, until : Nat]
      BY <2>1, <2>2, <2>3 DEF Later, Publication
    <2>5. QED BY <1>4, <2>1, <2>2, <2>4 DEF Receive, IsPublish
  <1>5. CASE Start
    <2>1. /\ Restored(wallet.active) \in Optional /\ Restored(wallet.pending) \in Optional
      BY RestoredIs DEF Optional
    <2>2. QED BY <1>5, <2>1 DEF Start, IsPublish, Points, ClientPoints
  <1>6. CASE Stop
    BY <1>6 DEF Stop, Stopped, Unsigned, IsPublish, Points, ClientPoints, Optional
  <1>7. CASE Publish \/ RetryPending
    <2>1. CASE Publish
      <3>1. /\ reserved' \in Nat
            /\ publisher' = [publisher EXCEPT !.at = "encrypting", !.sequence = reserved']
        BY <2>1 DEF Publish
      <3>2. publisher' \in [at : Points, sequence : Nat, active : Optional, pending : Optional]
        BY <3>1 DEF Points
      <3>3. QED BY <2>1, <3>1, <3>2 DEF Publish, IsPublish
    <2>2. CASE RetryPending
      <3>1. publisher' \in [at : Points, sequence : Nat, active : Optional, pending : Optional]
        BY <2>2 DEF RetryPending, Goes, Points
      <3>2. QED BY <2>2, <3>1 DEF RetryPending, IsPublish
    <2>3. QED BY <1>7, <2>1, <2>2
  <1>8. CASE Encrypt
    <2>1. PICK lifetime \in Lifetimes :
            publisher' = [publisher EXCEPT !.at = "saving", !.pending =
                [sequence |-> publisher.sequence, expiresAt |-> now + lifetime, own |-> TRUE]]
      BY <1>8 DEF Encrypt
    <2>2. [sequence |-> publisher.sequence, expiresAt |-> now + lifetime, own |-> TRUE] \in Optional
      <3>1. lifetime \in Nat
        OBVIOUS
      <3>2. now \in Nat
        OBVIOUS
      <3>3. now + lifetime \in Nat
        BY <3>1, <3>2
      <3>4. publisher.sequence \in Nat
        OBVIOUS
      <3>5. QED BY <3>3, <3>4 DEF Publication, Optional
    <2>3. QED BY <1>8, <2>1, <2>2 DEF Encrypt, IsPublish, Points
  <1>9. CASE Expire
    <2>1. Restored(publisher.active) \in Optional /\ Restored(publisher.pending) \in Optional
      BY RestoredIs DEF Optional
    <2>2. QED BY <1>9, <2>1 DEF Expire, IsPublish, Points
  <1>10. CASE SavePending \/ SaveActive \/ SaveExpired
    BY <1>10 DEF SavePending, SaveActive, SaveExpired, Journaled, Remembered, Goes, IsPublish,
                 Points
  <1>11. CASE Confirm
    BY <1>11 DEF Confirm, Goes, Unsigned, IsPublish, Points, ClientPoints
  <1>12. CASE PublisherFails
    BY <1>12 DEF PublisherFails, Remembered, Goes, IsPublish, Points
  <1>13. CASE PublishCache
    BY <1>13, PreparedType DEF PublishCache, Write, AtPoints, IsPublish, Request, Optional,
                               ClientPoints
  <1>14. ASSUME NEW kind \in OtherWrites, HostWrites(kind) PROVE Types'
    BY <1>14, PreparedType DEF HostWrites, Write, IsPublish, Request, Optional, ClientPoints
  <1>15. CASE WriteFails \/ SaveRequest \/ Transmit \/ WriteAnswered \/ ClearJournal
    BY <1>15 DEF WriteFails, SaveRequest, Transmit, WriteAnswered, ClearJournal, AtPoints,
                 Unsigned, IsPublish, ClientPoints
  <1>16. CASE PublicationAnswered
    BY <1>16 DEF PublicationAnswered, IsPublish, Points, ClientPoints, Optional
  <1>17. CASE ClientFails
    BY <1>17 DEF ClientFails, Goes, AtPoints, IsPublish, Points, ClientPoints
  <1>18. QED
    BY <1>1, <1>2, <1>3, <1>4, <1>5, <1>6, <1>7, <1>8, <1>9, <1>10, <1>11, <1>12, <1>13, <1>14,
       <1>15, <1>16, <1>17 DEF Next

(* Time, sequence numbers and what was sent or accepted only grow. *)
LEMMA Onward ==
  ASSUME IInv, Next
  PROVE  /\ now' \in Nat /\ now <= now' /\ reserved <= reserved'
         /\ accepted \subseteq accepted' /\ sent \subseteq sent'
         /\ \A state \in Publication : Fresh(state)' => Fresh(state)
         /\ \A request \in Request : IsPublish(request)' = IsPublish(request)
         /\ \A request \in sent : Open(request)' => Open(request)
  <1>1. /\ now' \in Nat /\ now <= now' /\ reserved <= reserved'
        /\ accepted \subseteq accepted' /\ sent \subseteq sent'
    <2>0. now \in Nat /\ reserved \in Nat
      BY DEF IInv, Types
    <2>1. CASE Tick \/ Forget \/ OtherPublishes \/ Receive
      <3>1. CASE Tick
        BY <2>0, <3>1 DEF Tick, network
      <3>2. CASE OtherPublishes
        BY <2>0, <3>2 DEF OtherPublishes
      <3>3. CASE Forget \/ Receive
        BY <2>0, <3>3 DEF Forget, Receive
      <3>4. QED BY <2>1, <3>1, <3>2, <3>3
    <2>6. CASE Start \/ Stop \/ Publish \/ Encrypt
      <3>1. CASE Publish
        BY <2>0, <3>1 DEF Publish
      <3>2. CASE Start \/ Stop
        BY <2>0, <3>2 DEF Start, Stop, network
      <3>3. CASE Encrypt
        <4>1. UNCHANGED <<now, network>>
          BY <3>3 DEF Encrypt
        <4>2. QED BY <2>0, <4>1 DEF network
      <3>4. QED BY <2>6, <3>1, <3>2, <3>3
    <2>2. CASE RetryPending \/ Expire \/ SavePending \/ SaveActive \/ SaveExpired \/ Confirm
               \/ PublisherFails
      BY <2>0, <2>2 DEF RetryPending, Expire, SavePending, SaveActive, SaveExpired, Confirm,
                        PublisherFails, network
    <2>3. CASE PublishCache \/ (\E kind \in OtherWrites : HostWrites(kind)) \/ WriteFails
               \/ SaveRequest \/ Transmit
      BY <2>0, <2>3 DEF PublishCache, HostWrites, WriteFails, SaveRequest, Transmit, network
    <2>4. CASE PublicationAnswered \/ WriteAnswered \/ ClearJournal \/ ClientFails
      BY <2>0, <2>4 DEF PublicationAnswered, WriteAnswered, ClearJournal, ClientFails, network
    <2>5. QED BY <2>1, <2>2, <2>3, <2>4, <2>6 DEF Next
  <1>2. now \in Nat /\ \A request \in sent : /\ request \in Request /\ ValidUntil(request) \in Nat
                                             /\ IsPublish(request) => request.publication \in Publication
    BY PublisherConstants DEF IInv, Types, Request, ValidUntil, IsPublish
  <1>3. \A state \in Publication : Fresh(state)' => Fresh(state)
    BY <1>1, <1>2 DEF Fresh, Publication
  <1>4. \A request \in sent : Open(request)' => Open(request)
    <2> SUFFICES ASSUME NEW request \in sent, Open(request)'
                 PROVE  Open(request)
      OBVIOUS
    <2>1. request \notin accepted /\ now < ValidUntil(request)
      BY <1>1, <1>2 DEF Open, ValidUntil
    <2>2. request.kind = "publish" => Fresh(request.publication)
      BY <1>2, <1>3, NoneIsNothing DEF Open, IsPublish
    <2>3. QED BY <2>1, <2>2 DEF Open
  <1>5. QED BY <1>1, <1>3, <1>4 DEF IsPublish

(* A host's write, or the publisher's, repeats the uncertain one while it  *)
(* may still be accepted. *)
LEMMA WriteRepeats ==
  ASSUME Types, OpenIsKept, Up, NEW kind, NEW publication, Write(kind, publication),
         NEW request \in sent, Open(request)
  PROVE  /\ request = client.pending /\ request = journal
         /\ client'.pending = request /\ journal' = journal
  <1>1. request = client.pending /\ request = journal /\ request \in Request /\ request # None
    BY NoneIsNothing DEF OpenIsKept, Types
  <1>2. ~ Moot /\ Uncertain = request /\ now < ValidUntil(request)
    BY <1>1 DEF Moot, Uncertain, Open
  <1>3. Names(Uncertain, kind, publication)
    BY <1>1, <1>2 DEF Write, Matches
  <1>4. QED BY <1>1, <1>2, <1>3 DEF Write, Prepared

LEMMA StepOpen ==
  ASSUME IInv, Next
  PROVE  OpenIsKept'
  <1> SUFFICES ASSUME NEW request \in sent', Open(request)'
               PROVE  request = journal' /\ (Up' => request = client'.pending)
    BY DEF OpenIsKept
  <1>0. /\ request \in sent => /\ Open(request) /\ request = journal
                               /\ Up => request = client.pending
        /\ sent \subseteq Request /\ client \in [at : ClientPoints, pending : Request \cup {None}]
        /\ request \notin accepted /\ request \notin accepted'
        /\ None \notin sent
    BY Onward, NoneIsNothing DEF IInv, OpenIsKept, Types, Open
  <1>1. CASE Tick \/ Forget \/ OtherPublishes \/ Publish \/ Encrypt \/ RetryPending \/ Expire
             \/ SavePending \/ SaveActive \/ SaveExpired
    <2>1. UNCHANGED <<sent, journal, client>> /\ (Up' => Up)
      BY <1>1 DEF Tick, Forget, OtherPublishes, Publish, Encrypt, RetryPending, Expire, SavePending,
                  SaveActive, SaveExpired, Goes, Up, network, disk, IInv, Types
    <2>2. QED BY <1>0, <2>1
  <1>2. CASE Receive
    BY <1>0, <1>2 DEF Receive, disk, Up
  <1>3. CASE Start \/ Stop
    BY <1>0, <1>3 DEF Start, Stop, Stopped, Up, network, disk
  <1>4. CASE Confirm
    <2>1. ASSUME request = client.pending PROVE FALSE
      <3>1. client.pending # None /\ Confirms
        BY <1>0, <1>4, <2>1, NoneIsNothing DEF Confirm, network, IInv, Types
      <3>2. client.pending \in accepted
        BY <3>1 DEF Confirms, IInv, ActiveIsAccepted, IsPublish
      <3>3. QED BY <1>0, <2>1, <3>2
    <2>2. Up /\ sent' = sent
      BY <1>4 DEF Confirm, network, Up
    <2>3. QED BY <1>0, <2>1, <2>2
  <1>5. CASE PublisherFails
    <2>1. Up /\ UNCHANGED <<sent, client>> /\ request = client.pending
      BY <1>0, <1>5 DEF PublisherFails, network, Up
    <2>2. ~ (publisher.at = "confirming" /\ client.at = "idle" /\ Confirms)
      BY <1>0, <2>1 DEF Confirms, IInv, ActiveIsAccepted, IsPublish
    <2>3. journal' = journal
      BY <1>5, <2>2 DEF PublisherFails
    <2>4. QED BY <1>0, <2>1, <2>3
  <1>6. CASE PublishCache \/ \E kind \in OtherWrites : HostWrites(kind)
    BY <1>0, <1>6, WriteRepeats DEF PublishCache, HostWrites, IInv, Up, network
  <1>7. CASE WriteFails
    <2>1. Up /\ sent' = sent
      BY <1>7, NoneIsNothing DEF WriteFails, Moot, Unsigned, network, IInv, AtPoints, Up
    <2>2. QED BY <1>0, <1>7, <2>1 DEF WriteFails, Moot, Open
  <1>8. CASE SaveRequest
    BY <1>0, <1>8 DEF SaveRequest, network, Up, IInv, AtPoints, Unsigned
  <1>9. CASE Transmit
    BY <1>0, <1>9 DEF Transmit, disk, Up, IInv, AtPoints, Unsigned
  <1>10. CASE PublicationAnswered \/ WriteAnswered
    BY <1>0, <1>10 DEF PublicationAnswered, WriteAnswered, network, disk, Up, IInv, AtPoints,
                       Unsigned
  <1>11. CASE ClearJournal
    BY <1>0, <1>11 DEF ClearJournal, network, Up, IInv, AtPoints, Unsigned
  <1>12. CASE ClientFails
    BY <1>0, <1>12 DEF ClientFails, Goes, network, Up, IInv, AtPoints, Unsigned
  <1>13. QED
    BY <1>1, <1>2, <1>3, <1>4, <1>5, <1>6, <1>7, <1>8, <1>9, <1>10, <1>11, <1>12 DEF Next

(* How the publisher's memory changes. *)
Kept == /\ publisher'.sequence = publisher.sequence
        /\ publisher'.active = publisher.active /\ publisher'.pending = publisher.pending
LEMMA Memory ==
  ASSUME IInv, Next
  PROVE  \/ Kept /\ Up' = Up /\ (publisher'.at = "encrypting" => publisher.at = "encrypting")
         \/ Start \/ Stop \/ Publish \/ Encrypt \/ Expire \/ PublicationAnswered
  <1>0. publisher \in [at : Points, sequence : Nat, active : Optional, pending : Optional]
    BY DEF IInv, Types
  <1>1. CASE Tick \/ Forget \/ OtherPublishes \/ Receive
    BY <1>0, <1>1 DEF Tick, Forget, OtherPublishes, Receive, Kept, Up
  <1>2. CASE RetryPending \/ SavePending \/ SaveActive \/ SaveExpired \/ Confirm \/ PublisherFails
    BY <1>0, <1>2 DEF RetryPending, SavePending, SaveActive, SaveExpired, Confirm, PublisherFails,
                      Goes, Kept, Up
  <1>3. CASE PublishCache \/ (\E kind \in OtherWrites : HostWrites(kind)) \/ WriteFails
             \/ SaveRequest \/ Transmit \/ WriteAnswered \/ ClearJournal
    BY <1>0, <1>3 DEF PublishCache, HostWrites, WriteFails, SaveRequest, Transmit, WriteAnswered,
                      ClearJournal, Kept, Up
  <1>4. CASE ClientFails
    BY <1>0, <1>4 DEF ClientFails, Goes, Kept, Up, IInv, AtPoints, Unsigned
  <1>5. QED BY <1>1, <1>2, <1>3, <1>4 DEF Next

(* What a step saves is what the publisher has in memory. *)
LEMMA Saves ==
  ASSUME IInv, Next
  PROVE  \/ wallet' = wallet
         \/ wallet' = Remembered /\ Kept /\ Up /\ Up' /\ publisher.at # "encrypting"
            /\ publisher'.at # "encrypting" /\ UNCHANGED <<now, network, client>>
            /\ journal' = journal
  <1>0. publisher \in [at : Points, sequence : Nat, active : Optional, pending : Optional]
    BY DEF IInv, Types
  <1>1. CASE SavePending \/ SaveActive \/ SaveExpired \/ PublisherFails
    BY <1>0, <1>1 DEF SavePending, SaveActive, SaveExpired, PublisherFails, Journaled, Goes, Kept, Up
  <1>2. CASE Tick \/ Forget \/ OtherPublishes \/ Receive \/ Start \/ Stop \/ Publish \/ Encrypt
             \/ RetryPending \/ Expire \/ Confirm
    BY <1>2 DEF Tick, Forget, OtherPublishes, Receive, Start, Stop, Publish, Encrypt, RetryPending,
                Expire, Confirm, disk
  <1>3. CASE PublishCache \/ (\E kind \in OtherWrites : HostWrites(kind)) \/ WriteFails
             \/ SaveRequest \/ Transmit \/ PublicationAnswered \/ WriteAnswered \/ ClearJournal
             \/ ClientFails
    BY <1>3 DEF PublishCache, HostWrites, WriteFails, SaveRequest, Transmit, PublicationAnswered,
                WriteAnswered, ClearJournal, ClientFails, disk
  <1>4. QED BY <1>1, <1>2, <1>3 DEF Next

(* Where the requests of the client come from: all that is new are the     *)
(* host's, and those for the publication that is pending. *)
LEMMA Requests ==
  ASSUME IInv, Next, NEW request \in {journal', client'.pending}, request # None
  PROVE  \/ request \in {journal, client.pending}
         \/ request \in Request /\ request.kind # "publish"
         \/ PublishCache /\ request \in Request /\ request.kind = "publish"
            /\ request.publication = publisher.pending /\ request.publication # None
  <1>0. client \in [at : ClientPoints, pending : Request \cup {None}]
    BY DEF IInv, Types
  <1>1. CASE Tick \/ Forget \/ OtherPublishes \/ Receive \/ Publish \/ Encrypt
             \/ RetryPending \/ Expire \/ SavePending \/ SaveActive \/ SaveExpired
    <2>1. UNCHANGED <<journal, client>>
      BY <1>1 DEF Tick, Forget, OtherPublishes, Receive, Publish, Encrypt, RetryPending,
                  Expire, SavePending, SaveActive, SaveExpired, disk
    <2>2. QED BY <2>1
  <1>8. CASE Start \/ Stop
    <2>1. journal' = journal /\ client'.pending \in {journal, None}
      BY <1>8 DEF Start, Stop, disk, Unsigned
    <2>2. QED BY <2>1
  <1>6. CASE Confirm
    <2>1. journal' \in {journal, None} /\ client' = Unsigned
      BY <1>6 DEF Confirm
    <2>2. client'.pending = None
      BY <2>1 DEF Unsigned
    <2>3. QED BY <2>1, <2>2
  <1>7. CASE PublisherFails
    <2>1. journal' \in {journal, None} /\ client' = client
      BY <1>7 DEF PublisherFails
    <2>2. QED BY <2>1
  <1>2. CASE WriteFails \/ SaveRequest \/ Transmit \/ PublicationAnswered \/ WriteAnswered
             \/ ClearJournal \/ ClientFails
    BY <1>0, <1>2 DEF WriteFails, SaveRequest, Transmit, PublicationAnswered, WriteAnswered,
                      ClearJournal, ClientFails, disk, Unsigned
  <1>3. ASSUME NEW kind \in OtherWrites, HostWrites(kind)
        PROVE  \/ request \in {journal, client.pending}
               \/ request \in Request /\ request.kind # "publish"
    <2>1. kind # "publish" /\ Write(kind, None) /\ None \in Optional
      BY <1>3, PublisherConstants DEF HostWrites, Optional
    <2>2. Prepared(kind, None) \in Request /\ Prepared(kind, None).kind = kind
      BY <2>1, PreparedType DEF IInv
    <2>3. QED BY <2>1, <2>2 DEF Write
  <1>4. CASE PublishCache
    <2>1. publisher.pending \in Optional /\ publisher.pending # None
      BY <1>4 DEF PublishCache, IInv, Types, AtPoints
    <2>2. Write("publish", publisher.pending)
      BY <1>4 DEF PublishCache
    <2>3. /\ Prepared("publish", publisher.pending) \in Request
          /\ Prepared("publish", publisher.pending).kind = "publish"
          /\ Prepared("publish", publisher.pending).publication = publisher.pending
      BY <2>1, <2>2, PreparedType DEF IInv
    <2>4. QED BY <1>4, <2>1, <2>2, <2>3 DEF Write
  <1>5. QED BY <1>1, <1>2, <1>3, <1>4, <1>6, <1>7, <1>8 DEF Next

(* Only a client sends, only the cache accepts. *)
LEMMA Sent ==
  ASSUME Next
  PROVE  /\ sent' = sent \/ Transmit
         /\ UNCHANGED <<accepted, row>> \/ Receive \/ Forget \/ OtherPublishes
         /\ Forget \/ OtherPublishes => accepted' = accepted
  <1>1. CASE Tick \/ Start \/ Stop \/ Publish \/ Encrypt \/ RetryPending \/ Expire
             \/ SavePending \/ SaveActive \/ SaveExpired
    BY <1>1 DEF Tick, Start, Stop, Publish, Encrypt, RetryPending, Expire, SavePending, SaveActive,
                SaveExpired, Forget, OtherPublishes, network
  <1>2. CASE Confirm \/ PublisherFails \/ PublishCache \/ \E kind \in OtherWrites : HostWrites(kind)
    BY <1>2 DEF Confirm, PublisherFails, PublishCache, HostWrites, Forget, OtherPublishes, network
  <1>3. CASE WriteFails \/ SaveRequest \/ Transmit \/ PublicationAnswered \/ WriteAnswered
             \/ ClearJournal \/ ClientFails
    BY <1>3 DEF WriteFails, SaveRequest, Transmit, PublicationAnswered, WriteAnswered,
                ClearJournal, ClientFails, Forget, OtherPublishes, network
  <1>4. CASE Forget \/ OtherPublishes \/ Receive
    BY <1>4 DEF Forget, OtherPublishes, Receive
  <1>5. QED BY <1>1, <1>2, <1>3, <1>4 DEF Next

LEMMA StepSequenced ==
  ASSUME IInv, Next
  PROVE  Sequenced'
  <1>0. /\ reserved \in Nat /\ reserved' \in Nat /\ reserved <= reserved'
        /\ \A state \in {publisher, wallet} :
            /\ state.sequence \in Nat /\ state.sequence <= reserved /\ Ordered(state)
            /\ state.active # None => state.active.sequence \in Nat
            /\ state.pending # None => state.pending.sequence \in Nat
        /\ \A request \in sent \cup {journal, client.pending} :
            IsPublish(request) => request.publication.sequence \in Nat
    <2>1. Types /\ Types' /\ Sequenced
      BY StepTypes DEF IInv
    <2>2. \A state \in Optional : state # None => state.sequence \in Nat
      BY DEF Optional, Publication
    <2>3. \A request \in sent \cup {journal, client.pending} :
            IsPublish(request) => request.publication \in Optional /\ request.publication # None
      BY <2>1 DEF Types, IsPublish, Request, Optional
    <2>4. publisher.active \in Optional /\ publisher.pending \in Optional
          /\ wallet.active \in Optional /\ wallet.pending \in Optional
          /\ publisher.sequence \in Nat /\ wallet.sequence \in Nat
      BY <2>1 DEF Types
    <2>5. reserved \in Nat /\ reserved' \in Nat
      BY <2>1 DEF Types
    <2>6. QED BY <2>1, <2>2, <2>3, <2>4, <2>5, Onward DEF Sequenced
  <1>1. CASE Kept /\ Up' = Up /\ (publisher'.at = "encrypting" => publisher.at = "encrypting")
    <2>1. Ordered(publisher)' /\ publisher'.sequence <= reserved'
      BY <1>0, <1>1 DEF Ordered, Kept
    <2>2. Ordered(wallet)' /\ wallet'.sequence <= reserved'
      BY <1>0, Saves DEF Ordered, Remembered
    <2>3. wallet'.active # None /\ publisher'.pending # None =>
            wallet'.active.sequence < publisher'.pending.sequence
      BY <1>0, <1>1, Saves DEF Ordered, Remembered, Kept, IInv, Sequenced
    <2>4. publisher'.at = "encrypting" =>
            /\ publisher'.pending = None
            /\ \A active \in {wallet'.active, publisher'.active} \ {None} :
                active.sequence < publisher'.sequence
      BY <1>1, Saves DEF Kept, IInv, Sequenced
    <2>5. ASSUME NEW request \in sent' \cup {journal', client'.pending}, IsPublish(request)
          PROVE  Taken(request)'
      <3>1. CASE request \in sent \cup {journal, client.pending}
        BY <1>0, <1>1, <2>5, <3>1 DEF IInv, Sequenced, Taken, Kept, IsPublish
      <3>2. CASE PublishCache /\ request.publication = publisher.pending
                 /\ publisher.pending # None
        <4>1. publisher'.at # "encrypting"
          BY <3>2 DEF PublishCache
        <4>2. request.publication.sequence <= reserved
          BY <1>0, <3>2 DEF Ordered
        <4>3. QED BY <1>0, <3>2, <4>1, <4>2 DEF Taken
      <3>3. QED BY <2>5, <3>1, <3>2, Sent, Requests DEF Transmit, IsPublish
    <2>6. QED BY <2>1, <2>2, <2>3, <2>4, <2>5 DEF Sequenced, Taken
  <1>2. ASSUME Start \/ Stop \/ Publish \/ Encrypt \/ Expire \/ PublicationAnswered
        PROVE  /\ sent' = sent /\ {journal', client'.pending} \subseteq {journal, client.pending, None}
               /\ wallet' = wallet
    <2>1. UNCHANGED <<sent, journal, wallet>>
      BY <1>2 DEF Start, Stop, Publish, Encrypt, Expire, PublicationAnswered, network, disk
    <2>2. Start \/ Stop => client'.pending \in {journal, None}
      BY DEF Start, Stop, Unsigned
    <2>3. Publish \/ Encrypt \/ Expire => client'.pending = client.pending
      BY DEF Publish, Encrypt, Expire
    <2>4. PublicationAnswered => client'.pending = client.pending
      BY DEF PublicationAnswered, IInv, Types
    <2>5. client'.pending \in {journal, client.pending, None}
      BY <1>2, <2>2, <2>3, <2>4
    <2>6. QED BY <2>1, <2>5
  <1>3. CASE Start
    <2>1. /\ publisher'.at = "idle" /\ publisher'.sequence = wallet.sequence
          /\ publisher'.active \in {wallet.active, None} /\ publisher'.pending \in {wallet.pending, None}
      BY <1>3 DEF Start, Restored
    <2>2. QED BY <1>0, <1>2, <1>3, <2>1 DEF IInv, Sequenced, Ordered, Taken, IsPublish
  <1>4. CASE Stop
    <2>1. /\ publisher'.at = "down" /\ publisher'.sequence = 0
          /\ publisher'.active = None /\ publisher'.pending = None
      BY <1>4 DEF Stop, Stopped
    <2>2. QED BY <1>0, <1>2, <1>4, <2>1 DEF IInv, Sequenced, Ordered, Taken, IsPublish
  <1>5. CASE Publish
    <2>1. /\ publisher'.at = "encrypting" /\ publisher'.sequence = reserved'
          /\ publisher'.active = publisher.active /\ publisher'.pending = None
          /\ reserved' = reserved + 1
      BY <1>5 DEF Publish, IInv, Types
    <2>2. QED BY <1>0, <1>2, <1>5, <2>1 DEF IInv, Sequenced, Ordered, Taken, IsPublish
  <1>6. CASE Encrypt
    <2>1. /\ publisher'.at = "saving" /\ publisher'.sequence = publisher.sequence
          /\ publisher'.active = publisher.active /\ publisher.at = "encrypting"
          /\ publisher'.pending.sequence = publisher.sequence
      BY <1>6 DEF Encrypt, IInv, Types
    <2>2. QED BY <1>0, <1>2, <1>6, <2>1 DEF IInv, Sequenced, Ordered, Taken, IsPublish
  <1>7. CASE Expire
    <2>1. /\ publisher'.at = "expiring" /\ publisher'.sequence = publisher.sequence
          /\ publisher'.active \in {publisher.active, None}
          /\ publisher'.pending \in {publisher.pending, None}
      BY <1>7 DEF Expire, Restored, IInv, Types
    <2>2. QED BY <1>0, <1>2, <1>7, <2>1 DEF IInv, Sequenced, Ordered, Taken, IsPublish
  <1>8. CASE PublicationAnswered
    <2>1. /\ publisher'.at \in {"committing", "idle"} /\ publisher'.sequence = publisher.sequence
          /\ \/ publisher'.active = publisher.active /\ publisher'.pending = publisher.pending
             \/ publisher'.active = publisher.pending /\ publisher'.pending = None
      BY <1>8 DEF PublicationAnswered, IInv, Types
    <2>2. QED BY <1>0, <1>2, <1>8, <2>1 DEF IInv, Sequenced, Ordered, Taken, IsPublish
  <1>9. QED BY <1>1, <1>3, <1>4, <1>5, <1>6, <1>7, <1>8, Memory

LEMMA Encrypted ==
  ASSUME Types, Encrypt
  PROVE  publisher'.pending \in Publication /\ publisher'.pending # None
  <1>1. PICK lifetime \in Lifetimes :
          publisher' = [publisher EXCEPT !.at = "saving", !.pending =
              [sequence |-> publisher.sequence, expiresAt |-> now + lifetime, own |-> TRUE]]
    BY DEF Encrypt
  <1>2. lifetime \in Nat /\ now \in Nat /\ publisher.sequence \in Nat
    BY PublisherConstants DEF Types
  <1>3. publisher'.pending
          = [sequence |-> publisher.sequence, expiresAt |-> now + lifetime, own |-> TRUE]
    BY <1>1 DEF Types
  <1>4. now + lifetime \in Nat
    BY <1>2
  <1>5. [sequence |-> publisher.sequence, expiresAt |-> now + lifetime, own |-> TRUE] \in Publication
    BY <1>2, <1>4 DEF Publication
  <1>6. QED BY <1>3, <1>5, NoneIsNothing

(* What each await relies on, whatever the others do meanwhile. *)
LEMMA StepAtPoints ==
  ASSUME IInv, Next
  PROVE  AtPoints'
  <1>0. /\ Types /\ AtPoints
        /\ publisher \in [at : Points, sequence : Nat, active : Optional, pending : Optional]
        /\ client \in [at : ClientPoints, pending : Request \cup {None}]
    BY DEF IInv, Types
  <1>1. CASE Tick \/ Forget \/ OtherPublishes
    BY <1>0, <1>1 DEF Tick, Forget, OtherPublishes, AtPoints, ClientPublishes, Up, network, disk
  <1>2. CASE Receive
    BY <1>0, <1>2, Onward DEF Receive, AtPoints, ClientPublishes, Up, disk
  <1>3. CASE Start \/ Stop
    BY <1>3 DEF Start, Stop, Stopped, Unsigned, AtPoints, ClientPublishes, Up
  <1>4. ASSUME publisher.at # "publishing", publisher'.at \notin {"publishing", "down"},
               publisher.at # "down", client' = client, UNCHANGED <<journal, accepted>>,
               publisher'.at = "saving" => publisher'.pending # None
        PROVE  AtPoints'
    BY <1>0, <1>4 DEF AtPoints, ClientPublishes, Up
  <1>5. CASE Publish \/ Encrypt \/ RetryPending \/ Expire \/ SaveActive \/ SaveExpired
    <2>1. /\ publisher.at # "publishing" /\ publisher'.at \notin {"publishing", "down"}
          /\ publisher.at # "down" /\ client' = client /\ UNCHANGED <<journal, accepted>>
      BY <1>0, <1>5 DEF Publish, Encrypt, RetryPending, Expire, SaveActive, SaveExpired, Goes,
                        network, disk
    <2>2. publisher'.at = "saving" => publisher'.pending # None
      BY <1>0, <1>5, Encrypted DEF Publish, RetryPending, Expire, SaveActive, SaveExpired, Goes
    <2>3. QED BY <1>4, <2>1, <2>2
  <1>6. CASE SavePending
    BY <1>0, <1>6 DEF SavePending, Journaled, Remembered, Goes, AtPoints, ClientPublishes, Up, network
  <1>7. CASE Confirm
    BY <1>0, <1>7 DEF Confirm, Unsigned, Goes, AtPoints, ClientPublishes, Up, network
  <1>8. CASE PublisherFails
    <2>1. client' = client /\ UNCHANGED accepted /\ publisher'.at = "idle" /\ ~ ClientPublishes
      BY <1>0, <1>8 DEF PublisherFails, Goes, network
    <2>2. client.at \in {"sending", "waiting", "clearing"} => journal' = journal
      BY <1>8 DEF PublisherFails
    <2>3. QED BY <1>0, <1>8, <2>1, <2>2 DEF AtPoints, ClientPublishes, Up, PublisherFails
  <1>9. CASE PublishCache
    <2>1. publisher.pending \in Optional /\ publisher.pending # None
      BY <1>0, <1>9 DEF PublishCache, AtPoints
    <2>2. /\ Prepared("publish", publisher.pending).publication = publisher.pending
          /\ Prepared("publish", publisher.pending) \in Request
      BY <1>0, <1>9, <2>1, PreparedType DEF PublishCache
    <2>3. client'.at = "saving" /\ client'.pending = Prepared("publish", publisher.pending)
      BY <1>9 DEF PublishCache, Write
    <2>4. QED BY <1>0, <1>9, <2>2, <2>3, NoneIsNothing
              DEF PublishCache, AtPoints, ClientPublishes, Up, network
  <1>10. ASSUME NEW kind \in OtherWrites, HostWrites(kind) PROVE AtPoints'
    <2>1. kind # "publish" /\ Write(kind, None) /\ None \in Optional
      BY <1>10, PublisherConstants DEF HostWrites, Optional
    <2>2. Prepared(kind, None) \in Request /\ Prepared(kind, None).kind = kind
      BY <1>0, <2>1, PreparedType
    <2>3. client'.at = "saving" /\ client'.pending = Prepared(kind, None)
      BY <2>1 DEF Write
    <2>4. QED BY <1>0, <1>10, <2>1, <2>2, <2>3, NoneIsNothing
              DEF HostWrites, AtPoints, ClientPublishes, Up, network
  <1>11. CASE WriteFails
    BY <1>0, <1>11, NoneIsNothing DEF WriteFails, Moot, Unsigned, AtPoints, ClientPublishes, Up, network
  <1>12. CASE SaveRequest
    BY <1>0, <1>12 DEF SaveRequest, AtPoints, ClientPublishes, Up, network, Unsigned
  <1>13. CASE Transmit
    BY <1>0, <1>13 DEF Transmit, AtPoints, ClientPublishes, Up, disk, Unsigned
  <1>14. CASE PublicationAnswered
    BY <1>0, <1>14 DEF PublicationAnswered, AtPoints, ClientPublishes, Up, network, disk, Unsigned
  <1>15. CASE WriteAnswered \/ ClearJournal
    BY <1>0, <1>15 DEF WriteAnswered, ClearJournal, AtPoints, ClientPublishes, Up, network, disk,
                       Unsigned
  <1>16. CASE ClientFails
    BY <1>0, <1>16 DEF ClientFails, Goes, AtPoints, ClientPublishes, Up, network, Unsigned
  <1>17. QED
    BY <1>1, <1>2, <1>3, <1>5, <1>6, <1>7, <1>8, <1>9, <1>10, <1>11, <1>12, <1>13, <1>14, <1>15,
       <1>16 DEF Next

(* What the next lemmas have in common. *)
LEMMA Base ==
  ASSUME IInv, Next
  PROVE  /\ Types /\ Types' /\ Sequenced /\ AtPoints /\ OpenIsKept /\ PendingIsKept
         /\ ActiveIsAccepted /\ LatestIsServed /\ KeyHeld
         /\ {wallet.active, wallet.pending, publisher.active, publisher.pending} \subseteq Optional
         /\ None \notin sent /\ None \notin Publication
         /\ \A request \in sent \cup sent' \cup {journal, client.pending, journal', client'.pending} :
                IsPublish(request) => request.publication \in Publication
  <1>1. Types /\ Types'
    BY StepTypes DEF IInv
  <1>2. \A request \in sent \cup sent' \cup {journal, client.pending, journal', client'.pending} :
            IsPublish(request) => request.publication \in Publication
    BY <1>1 DEF Types, IsPublish, Request
  <1>3. QED BY <1>1, <1>2, NoneIsNothing DEF Types, IInv

LEMMA StepPending ==
  ASSUME IInv, Next
  PROVE  PendingIsKept'
  <1> SUFFICES ASSUME NEW request \in {journal', client'.pending}, IsPublish(request),
                      Fresh(request.publication)', request \notin accepted'
               PROVE  /\ request.publication = wallet'.pending
                      /\ Up' => request.publication = publisher'.pending
    BY DEF PendingIsKept
  <1>0. /\ request \notin accepted /\ Fresh(request.publication) /\ request.publication # None
        /\ request # None /\ request.publication \in Publication
    BY Base, Onward DEF IsPublish
  <1>1. \/ request \in {journal, client.pending}
        \/ PublishCache /\ request.publication = publisher.pending
    BY <1>0, Requests DEF IsPublish
  <1>2. /\ request.publication = wallet.pending
        /\ Up => request.publication = publisher.pending
    <2>1. CASE request \in {journal, client.pending}
      BY <1>0, <2>1, Base DEF PendingIsKept
    <2>2. CASE PublishCache /\ request.publication = publisher.pending
      BY <2>2, Base DEF PublishCache, AtPoints
    <2>3. QED BY <1>1, <2>1, <2>2
  <1>3. request.publication = wallet'.pending
    BY <1>2, Saves DEF Remembered
  <1>4. ASSUME Up' PROVE request.publication = publisher'.pending
    <2>1. CASE Kept /\ Up' = Up
      BY <1>2, <1>4, <2>1 DEF Kept
    <2>2. CASE Start
      BY <1>0, <1>2, <2>2 DEF Start, Restored
    <2>3. CASE Stop
      BY <1>4, <2>3 DEF Stop, Stopped, Up
    <2>4. CASE Publish
      BY <1>0, <1>2, <2>4, Base DEF Publish, Up
    <2>5. CASE Encrypt
      BY <1>0, <1>2, <2>5, Base DEF Encrypt, Sequenced, Up
    <2>6. CASE Expire
      BY <1>0, <1>2, <2>6, Base DEF Expire, Restored, Types, Up
    <2>7. CASE PublicationAnswered
      <3>1. journal' = journal /\ client'.pending = client.pending /\ journal = client.pending
            /\ client.pending \in accepted
        BY <2>7, Base DEF PublicationAnswered, AtPoints, Types, disk
      <3>2. QED BY <1>0, <3>1
    <2>8. QED BY <2>1, <2>2, <2>3, <2>4, <2>5, <2>6, <2>7, Memory
  <1>5. QED BY <1>3, <1>4

LEMMA StepActive ==
  ASSUME IInv, Next
  PROVE  ActiveIsAccepted'
  <1> SUFFICES ASSUME NEW request \in {journal', client'.pending}, IsPublish(request),
                      request.publication \in {publisher'.active, wallet'.active}
               PROVE  request \in accepted'
    BY DEF ActiveIsAccepted
  <1>0. /\ request # None /\ request.publication \in Publication /\ request.publication # None
        /\ accepted \subseteq accepted'
    BY Base, Onward DEF IsPublish
  <1>1. CASE PublicationAnswered
    <2>1. journal' = journal /\ client'.pending = client.pending /\ journal = client.pending
          /\ client.pending \in accepted
      BY <1>1, Base DEF PublicationAnswered, AtPoints, Types, disk
    <2>2. QED BY <1>0, <2>1
  <1>2. CASE ~ PublicationAnswered
    <2>1. publisher'.active \in {publisher.active, wallet.active, None}
      <3>1. CASE Kept
        BY <3>1 DEF Kept
      <3>2. CASE Start \/ Stop
        BY <3>2 DEF Start, Restored, Stop, Stopped
      <3>3. CASE Publish \/ Encrypt
        BY <3>3, Base DEF Publish, Encrypt, Types
      <3>4. CASE Expire
        BY <3>4, Base DEF Expire, Restored, Types
      <3>5. QED BY <1>2, <3>1, <3>2, <3>3, <3>4, Memory
    <2>2. wallet'.active \in {publisher.active, wallet.active}
      BY Saves DEF Remembered
    <2>3. request.publication \in {publisher.active, wallet.active}
      BY <1>0, <2>1, <2>2
    <2>4. CASE request \in {journal, client.pending}
      BY <1>0, <2>3, <2>4, Base DEF ActiveIsAccepted
    <2>5. CASE PublishCache /\ request.publication = publisher.pending
      <3>1. /\ publisher.active # None => publisher.active.sequence \in Nat
            /\ wallet.active # None => wallet.active.sequence \in Nat
        BY Base DEF Optional, Publication
      <3>2. request.publication \notin {publisher.active, wallet.active}
        BY <1>0, <2>5, <3>1, Base DEF Sequenced, Ordered
      <3>3. QED BY <2>3, <3>2
    <2>6. QED BY <1>0, <2>4, <2>5, Requests DEF IsPublish
  <1>3. QED BY <1>1, <1>2

(* The write that the cache accepts is the uncertain one, and what it      *)
(* publishes is pending. *)
LEMMA Received ==
  ASSUME IInv, Next, Receive
  PROVE  /\ UNCHANGED <<now, sent, journal, wallet, publisher, client>>
         /\ \E request \in sent :
             /\ accepted' = accepted \cup {request}
             /\ IsPublish(request) =>
                 /\ row'.publication = request.publication
                 /\ request.publication = wallet.pending
                 /\ publisher.pending \in {None, request.publication}
                 /\ Up => request.publication = publisher.pending
             /\ ~ IsPublish(request) /\ row' # None =>
                 row # None /\ row'.publication = row.publication
  <1>1. PICK request \in Submitted :
          /\ accepted' = accepted \cup {request}
          /\ row' = IF request.kind = "publish"
                    THEN [publication |-> request.publication,
                          until |-> Later(ValidUntil(request), request.publication.expiresAt)]
                    ELSE IF row = None THEN None
                    ELSE [row EXCEPT !.until = Later(@, ValidUntil(request))]
    BY DEF Receive
  <1>2. /\ request \in sent /\ request # None /\ request \notin accepted /\ Open(request)
        /\ IsPublish(request) => Fresh(request.publication)
    BY Base DEF Submitted, Open, Acceptable, IsPublish
  <1>3. request = journal
    BY <1>2, Base DEF OpenIsKept
  <1>4. IsPublish(request) =>
          /\ request.publication = wallet.pending
          /\ Up => request.publication = publisher.pending
    BY <1>2, <1>3, Base DEF PendingIsKept
  <1>5. ~ Up => publisher.pending = None
    BY Base DEF AtPoints, Stopped
  <1>6. IsPublish(request) => row'.publication = request.publication
    BY <1>1 DEF IsPublish
  <1>7. ~ IsPublish(request) /\ row' # None => row # None /\ row'.publication = row.publication
    BY <1>1, <1>2, Base DEF IsPublish, Types
  <1>8. UNCHANGED <<now, sent, journal, wallet, publisher, client>>
    BY DEF Receive, disk
  <1>9. QED BY <1>1, <1>2, <1>4, <1>5, <1>6, <1>7, <1>8

LEMMA StepLatest ==
  ASSUME IInv, Next
  PROVE  LatestIsServed'
  <1> SUFFICES ASSUME NEW request \in accepted', IsPublish(request),
                      request.publication \in {publisher'.pending, wallet'.pending},
                      row' # None, row'.publication.own, Fresh(row.publication)'
               PROVE  row'.publication = request.publication
    BY DEF LatestIsServed
  <1>0. /\ request \in sent' /\ request.publication \in Publication
        /\ row'.publication \in Publication /\ Fresh(row'.publication)
    BY Base, Onward DEF Types
  <1>1. CASE Receive
    <2>1. PICK received \in sent :
             /\ accepted' = accepted \cup {received}
             /\ IsPublish(received) =>
                 /\ row'.publication = received.publication
                 /\ received.publication = wallet.pending
                 /\ publisher.pending \in {None, received.publication}
             /\ ~ IsPublish(received) /\ row' # None =>
                 row # None /\ row'.publication = row.publication
      BY <1>1, Received
    <2>2. wallet' = wallet /\ publisher' = publisher
      BY <1>1, Received
    <2>3. CASE IsPublish(received)
      BY <1>0, <2>1, <2>2, <2>3, Base
    <2>4. CASE ~ IsPublish(received)
      <3>1. request \in accepted /\ row # None /\ row'.publication = row.publication
        BY <2>1, <2>4
      <3>2. QED BY <1>0, <2>2, <3>1, Base DEF LatestIsServed
    <2>5. QED BY <2>3, <2>4
  <1>2. CASE Forget \/ OtherPublishes
    BY <1>2 DEF Forget, OtherPublishes
  <1>3. CASE UNCHANGED <<accepted, row>>
    <2>1. wallet'.pending \in {publisher.pending, wallet.pending}
      BY Saves DEF Remembered
    <2>2. CASE Encrypt
      <3>1. publisher'.pending.sequence = publisher.sequence /\ publisher.at = "encrypting"
        BY <2>2, Base DEF Encrypt, Types
      <3>2. /\ request \in sent /\ request.publication.sequence < publisher.sequence
            /\ request.publication.sequence \in Nat /\ publisher.sequence \in Nat
        BY <1>0, <1>3, <3>1, Base DEF Sequenced, Taken, Types, Publication
      <3>3. request.publication # publisher'.pending
        BY <3>1, <3>2
      <3>4. QED BY <1>0, <1>3, <2>1, <3>3, Base DEF LatestIsServed
    <2>3. CASE ~ Encrypt
      <3>1. publisher'.pending \in {publisher.pending, wallet.pending, None}
        <4>1. CASE Kept
          BY <4>1 DEF Kept
        <4>2. CASE Start \/ Stop
          BY <4>2 DEF Start, Restored, Stop, Stopped
        <4>3. CASE Publish \/ Expire
          BY <4>3, Base DEF Publish, Expire, Restored, Types
        <4>4. CASE PublicationAnswered
          BY <4>4, Base DEF PublicationAnswered, Types
        <4>5. QED BY <2>3, <4>1, <4>2, <4>3, <4>4, Memory
      <3>2. QED BY <1>0, <1>3, <2>1, <3>1, Base DEF LatestIsServed
    <2>4. QED BY <2>2, <2>3
  <1>4. QED BY <1>1, <1>2, <1>3, Sent

LEMMA StepKeyHeld ==
  ASSUME IInv, Next
  PROVE  KeyHeld'
  <1> SUFFICES ASSUME row' # None, row'.publication.own, Fresh(row.publication)'
               PROVE  /\ row'.publication \in {wallet'.active, wallet'.pending}
                      /\ Up' => row'.publication \in {publisher'.active, publisher'.pending}
    BY DEF KeyHeld
  <1>0. row'.publication \in Publication /\ Fresh(row'.publication)
    BY Base, Onward DEF Types
  <1>1. CASE Receive
    <2>1. PICK received \in sent :
             /\ IsPublish(received) =>
                 /\ row'.publication = received.publication
                 /\ received.publication = wallet.pending
                 /\ Up => received.publication = publisher.pending
             /\ ~ IsPublish(received) /\ row' # None =>
                 row # None /\ row'.publication = row.publication
      BY <1>1, Received
    <2>2. wallet' = wallet /\ publisher' = publisher
      BY <1>1, Received
    <2>3. CASE IsPublish(received)
      BY <2>1, <2>2, <2>3 DEF Up
    <2>4. CASE ~ IsPublish(received)
      BY <1>0, <2>1, <2>2, <2>4, Base DEF KeyHeld, Up
    <2>5. QED BY <2>3, <2>4
  <1>2. CASE Forget \/ OtherPublishes
    BY <1>2 DEF Forget, OtherPublishes
  <1>3. CASE UNCHANGED <<accepted, row>>
    <2>1. /\ row'.publication \in {wallet.active, wallet.pending}
          /\ Up => row'.publication \in {publisher.active, publisher.pending}
      BY <1>0, <1>3, Base DEF KeyHeld
    <2>2. row'.publication \in {wallet'.active, wallet'.pending}
      BY <2>1, Saves DEF Remembered
    <2>3. ASSUME Up' PROVE row'.publication \in {publisher'.active, publisher'.pending}
      <3>1. CASE Kept /\ Up' = Up
        BY <2>1, <2>3, <3>1 DEF Kept
      <3>2. CASE Start
        BY <1>0, <2>1, <3>2 DEF Start, Restored
      <3>3. CASE Stop
        BY <2>3, <3>3 DEF Stop, Stopped, Up
      <3>4. CASE Publish \/ Encrypt
        BY <1>0, <2>1, <3>4, Base DEF Publish, Encrypt, Types, Sequenced, Up
      <3>5. CASE Expire
        BY <1>0, <2>1, <3>5, Base DEF Expire, Restored, Types, Up
      <3>6. CASE PublicationAnswered
        <4>1. /\ client.pending \in accepted /\ IsPublish(client.pending)
              /\ client.pending.publication = publisher.pending /\ Up
          BY <3>6, Base DEF PublicationAnswered, AtPoints, ClientPublishes, IsPublish, Unsigned, Up
        <4>2. row'.publication = publisher.pending
          BY <1>0, <1>3, <4>1, Base DEF LatestIsServed
        <4>3. QED BY <3>6, <4>2, Base DEF PublicationAnswered, Types
      <3>7. QED BY <3>1, <3>2, <3>3, <3>4, <3>5, <3>6, Memory
    <2>4. QED BY <2>2, <2>3
  <1>4. QED BY <1>1, <1>2, <1>3, Sent
-----------------------------------------------------------------------------
LEMMA InitIInv == Init => IInv
  <1> SUFFICES ASSUME Init PROVE IInv
    OBVIOUS
  <1>1. Types
    BY DEF Init, Types, Stopped, Unsigned, Optional, Points, ClientPoints, IsPublish
  <1>2. Sequenced
    BY DEF Init, Sequenced, Ordered, Taken, Stopped, Unsigned, IsPublish
  <1>3. AtPoints
    BY DEF Init, AtPoints, ClientPublishes, Stopped, Unsigned, Up
  <1>4. OpenIsKept /\ PendingIsKept /\ ActiveIsAccepted /\ LatestIsServed /\ KeyHeld
    BY DEF Init, OpenIsKept, PendingIsKept, ActiveIsAccepted, LatestIsServed, KeyHeld, Stopped,
           Unsigned, IsPublish
  <1>5. QED BY <1>1, <1>2, <1>3, <1>4 DEF IInv

LEMMA NextIInv == IInv /\ [Next]_vars => IInv'
  <1> SUFFICES ASSUME IInv, [Next]_vars PROVE IInv'
    OBVIOUS
  <1>1. CASE Next
    BY <1>1, StepTypes, StepSequenced, StepAtPoints, StepOpen, StepPending, StepActive, StepLatest,
       StepKeyHeld DEF IInv
  <1>2. CASE UNCHANGED vars
    BY <1>2 DEF vars, network, disk, IInv, Types, Sequenced, Ordered, Taken, AtPoints,
                ClientPublishes, Up, OpenIsKept, Open, ValidUntil, Fresh, PendingIsKept,
                ActiveIsAccepted, LatestIsServed, KeyHeld, IsPublish
  <1>3. QED BY <1>1, <1>2

LEMMA Inductive == Spec => []IInv
  BY InitIInv, NextIInv, PTL DEF Spec

(* Of all the writes that left the device, one at most may still be        *)
(* accepted: "other writes cannot overtake" one that is uncertain          *)
(* (discovery.js, prepareWrite). *)
THEOREM OneWriteUncertain == Spec => []OneUncertainWrite
  <1>1. IInv => OneUncertainWrite
    BY DEF IInv, OpenIsKept, OneUncertainWrite
  <1>2. QED BY <1>1, Inductive, PTL

(* Whatever was lost, repeated or late, and wherever the device stopped,   *)
(* its wallet loads and has the key of its publication that the cache      *)
(* serves (publisher.js, commitPending). *)
THEOREM KeyOfServed == Spec => []ServedKeyHeld
  <1>1. IInv => ServedKeyHeld
    <2> SUFFICES ASSUME IInv, row # None, row.publication.own, Fresh(row.publication)
                 PROVE  /\ Loadable(wallet)
                        /\ row.publication \in {wallet.active, wallet.pending}
                        /\ Up => row.publication \in {publisher.active, publisher.pending}
      BY DEF ServedKeyHeld, Up
    <2>1. Loadable(wallet)
      BY NoneIsNothing DEF IInv, Sequenced, Ordered, Loadable, Restored
    <2>2. QED BY <2>1 DEF IInv, KeyHeld
  <1>2. QED BY <1>1, Inductive, PTL
=============================================================================
