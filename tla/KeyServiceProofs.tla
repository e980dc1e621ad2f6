-------------------------- MODULE KeyServiceProofs --------------------------
(***************************************************************************)
(* Theorems about KeyService with the redemption store it extends, for any *)
(* tokens, publications, limits, handlers and clock readings.  Three parts *)
(* are inductive: what the operator stamps, which challenges the holder    *)
(* has used, and what the reader's disk holds.                             *)
(***************************************************************************)
EXTENDS KeyService, Allocation, FiniteSetTheorems, TLAPS

AnyChallenges ==
    [session : Nat, publication : Publications, reader : Readers, nonce : Nat,
     issuedAt : Nat, expiresAt : Nat]
AnyClaims == [token : Tokens, claim : Readers, commitment : AnyChallenges, until : Nat]

(* The operator: one claim a token, and stamps are of claims it remembers, *)
(* until the epoch is over for good. *)
StampsSound ==
    /\ floor \in Nat
    /\ redemptions \subseteq drawn /\ stamps \subseteq drawn /\ accepted \subseteq stamps
    /\ \A c, d \in redemptions : c.token = d.token => c = d
    /\ stamps \subseteq redemptions \/ floor >= expiresAt
    /\ \A c, d \in stamps : c.token = d.token => c = d

ServiceTypes ==
    /\ now \in Nat /\ session \in Nat
    /\ active \in Publications \cup {None}
    /\ challenges \subseteq AnyChallenges /\ \A value \in challenges : value.session <= session
    /\ IsFiniteSet(challenges) /\ consumed \subseteq challenges
    /\ handlers \in [Handlers -> [at : {"idle", "proving", "authorized", "wrapping"},
                                  value : AnyChallenges \cup {None}, ticket : AnyClaims \cup {None}]]
    /\ granted \in [Tokens -> Nat]

DeviceTypes ==
    /\ drawn \subseteq AnyClaims
    /\ wallet \subseteq OwnTokens
    /\ reader \in [at : {"idle", "challenged", "saving", "redeeming", "completing"},
                   value : AnyChallenges \cup {None}, pending : AnyClaims \cup {None}]
    /\ reader.at = "challenged" => reader.value \in AnyChallenges
    /\ reader.at \in {"saving", "redeeming", "completing"} => reader.pending \in AnyClaims
    /\ journal \in AnyClaims \cup {None}

(* A challenge that no request can use any more. *)
Used(value) == value.session < session \/ value \in consumed \/ value.expiresAt <= now

Busy(h) == handlers[h].at # "idle"

(* Requests under way have used different challenges and show stamps. *)
HandlersApart ==
    \A h \in Handlers : Busy(h) =>
        /\ handlers[h].value \in challenges /\ Used(handlers[h].value)
        /\ handlers[h].ticket \in stamps
        /\ handlers[h].at = "wrapping" => handlers[h].ticket.commitment = handlers[h].value
        /\ \A g \in Handlers \ {h} : Busy(g) => handlers[g].value # handlers[h].value

(* A token that gave a key was stamped for a challenge now used, and no    *)
(* request under way can give another for it. *)
KeysCounted ==
    /\ \A token \in Tokens : granted[token] # 0 =>
        granted[token] = 1 /\ \E c \in stamps : c.token = token /\ Used(c.commitment)
    /\ \A h \in Handlers :
        Busy(h) /\ handlers[h].ticket.commitment = handlers[h].value
            => granted[handlers[h].ticket.token] = 0

(* What the reader has drawn is on its disk until it has the ticket. *)
DrawnIsKept ==
    /\ journal # None => journal = reader.pending
    /\ reader.at = "completing" => reader.pending \in accepted
    /\ \A c \in drawn : c.claim = "own" /\ now < c.until => journal = c \/ c \in accepted

IInv == StampsSound /\ ServiceTypes /\ DeviceTypes /\ HandlersApart /\ KeysCounted /\ DrawnIsKept
-----------------------------------------------------------------------------
(* What a step can do to the store: nothing, a redemption, a pruning, a    *)
(* new claim of either reader, or a stamp received. *)
LEMMA StoreSteps ==
  ASSUME [KeyNext]_allVars
  PROVE  \/ UNCHANGED vars
         \/ \E c \in drawn, at, done \in OperatorTimes : Redeem(c, at, done)
         \/ \E at \in OperatorTimes : Prune(at)
         \/ \E token \in Tokens, value \in challenges :
              Draw([token |-> token, claim |-> "other", commitment |-> value,
                    until |-> value.expiresAt], now)
         \/ SaveClaim /\ Draw(reader.pending, now)
         \/ HaveTicket /\ Accept(reader.pending, now)
  BY Zenon DEF KeyNext, allVars, operator, Tick, Replace, Withdraw, Restart, Hello, Read, Authorized,
     TicketChecked, Grant, Refuse, RedeemTicket, PruneTickets, OtherDraws, Begin, Acquire,
     RetryPending, SaveClaim, HaveTicket, Complete, AcquirerFails, RetireExpired, DeviceRestarts

(* What a step can do to the holder's service. *)
LEMMA ServiceSteps ==
  ASSUME [KeyNext]_allVars
  PROVE  \/ UNCHANGED <<now, service>>
         \/ Tick \/ Replace \/ Withdraw \/ Restart
         \/ \E who \in Readers : Hello(who)
         \/ \E h \in Handlers :
              \/ \E value \in challenges, ticket \in stamps : Read(h, value, ticket)
              \/ Authorized(h) \/ TicketChecked(h) \/ Grant(h) \/ Refuse(h)
  BY Zenon DEF KeyNext, allVars, RedeemTicket, PruneTickets, OtherDraws, Begin, Acquire,
     RetryPending, SaveClaim, HaveTicket, Complete, AcquirerFails, RetireExpired, DeviceRestarts

(* What a step can do to the reader's device. *)
LEMMA DeviceSteps ==
  ASSUME [KeyNext]_allVars
  PROVE  \/ UNCHANGED device
         \/ \E value \in challenges : Begin(value)
         \/ Acquire \/ RetryPending \/ SaveClaim \/ HaveTicket \/ Complete
         \/ AcquirerFails \/ RetireExpired \/ DeviceRestarts
  BY Zenon DEF KeyNext, allVars, Tick, Replace, Withdraw, Restart, Hello, Read, Authorized,
     TicketChecked, Grant, Refuse, RedeemTicket, PruneTickets, OtherDraws
-----------------------------------------------------------------------------
(* The store stays sound: after a pruning, nothing is redeemed any more. *)
LEMMA NextStamps ==
  ASSUME StampsSound, [KeyNext]_allVars
  PROVE  StampsSound'
  <1>1. CASE UNCHANGED vars
    BY <1>1 DEF vars, StampsSound
  <1>2. ASSUME NEW c \in drawn, NEW at \in OperatorTimes, NEW done \in OperatorTimes,
               Redeem(c, at, done)
        PROVE  StampsSound'
    <2>1. at \in Nat /\ done \in Nat
      BY KeyServiceAssumption
    <2>2. floor' \in Nat /\ drawn' = drawn /\ accepted' = accepted
      BY <1>2, <2>1 DEF Redeem
    <2>3. redemptions' = redemptions \cup {c} /\ stamps' \subseteq stamps \cup {c}
          /\ stamps \subseteq stamps'
      BY <1>2 DEF Redeem, Stamped
    <2>4. stamps \subseteq redemptions
      BY <1>2, <2>1, EpochAssumption DEF Redeem, CheckTime, StampsSound
    <2>5. \A d \in redemptions : d.token = c.token => d = c
      BY <1>2 DEF Redeem, Spent
    <2>6. \A d, e \in redemptions' : d.token = e.token => d = e
      BY <2>3, <2>5 DEF StampsSound
    <2>7. QED BY <2>2, <2>3, <2>4, <2>6 DEF StampsSound
  <1>3. ASSUME NEW at \in OperatorTimes, Prune(at) PROVE StampsSound'
    <2>1. at \in Nat
      BY KeyServiceAssumption
    <2>2. QED BY <1>3, <2>1 DEF Prune, Expired, FloorAfterPrune, StampsSound
  <1>4. ASSUME NEW c, Draw(c, now) PROVE StampsSound'
    BY <1>4 DEF Draw, StampsSound
  <1>5. ASSUME NEW c, Accept(c, now) PROVE StampsSound'
    BY <1>5 DEF Accept, OwnStamp, StampsSound
  <1>6. QED BY <1>1, <1>2, <1>3, <1>4, <1>5, StoreSteps

(* The holder's state keeps its types. *)
LEMMA NextServiceTypes ==
  ASSUME ServiceTypes, DeviceTypes, StampsSound, [KeyNext]_allVars
  PROVE  ServiceTypes'
  <1>1. CASE UNCHANGED <<now, service>>
    BY <1>1 DEF service, ServiceTypes
  <1>2. CASE Tick \/ Replace \/ Withdraw
    BY <1>2 DEF Tick, Replace, Withdraw, service, ServiceTypes
  <1>3. CASE Restart
    BY <1>3 DEF Restart, NoRequest, ServiceTypes, AnyChallenges
  <1>4. ASSUME NEW who \in Readers, Hello(who) PROVE ServiceTypes'
    <2>1. active \in Publications /\ StateEnd[active] \in Nat
      BY <1>4, KeyServiceAssumption DEF Hello, Live, ServiceTypes
    <2>2. Cardinality(challenges) + 1 \in Nat
      BY FS_CardinalityType DEF ServiceTypes
    <2> DEFINE end == Least(now + limits.challengeSeconds, StateEnd[active])
               value == [session |-> session, publication |-> active, reader |-> who,
                         nonce |-> Cardinality(challenges) + 1, issuedAt |-> now,
                         expiresAt |-> end]
    <2>3. end \in Nat
      BY <2>1, KeyServiceAssumption DEF Least, ServiceTypes
    <2>4. value \in AnyChallenges /\ value.session = session
      BY <2>1, <2>2, <2>3 DEF AnyChallenges, ServiceTypes
    <2>5. challenges' = challenges \cup {value}
      BY <1>4 DEF Hello
    <2> HIDE DEF value
    <2>6. IsFiniteSet(challenges')
      BY <2>5, FS_AddElement DEF ServiceTypes
    <2>7. QED BY <1>4, <2>4, <2>5, <2>6 DEF Hello, Unexpired, ServiceTypes
  <1>5. ASSUME NEW h \in Handlers, NEW value \in challenges, NEW ticket \in stamps,
               Read(h, value, ticket)
        PROVE  ServiceTypes'
    <2>1. ticket \in AnyClaims /\ value \in AnyChallenges
      BY DEF ServiceTypes, DeviceTypes, StampsSound
    <2>2. QED BY <1>5, <2>1 DEF Read, Unexpired, ServiceTypes
  <1>6. ASSUME NEW h \in Handlers, Authorized(h) \/ TicketChecked(h) \/ Refuse(h)
        PROVE  ServiceTypes'
    BY <1>6 DEF Authorized, TicketChecked, Refuse, Goes, NoRequest, ServiceTypes
  <1>7. ASSUME NEW h \in Handlers, Grant(h) PROVE ServiceTypes'
    <2>1. granted' \in [Tokens -> Nat]
      <3> DEFINE token == handlers[h].ticket.token
      <3>1. granted' = [granted EXCEPT ![token] = granted[token] + 1]
        BY <1>7 DEF Grant
      <3> HIDE DEF token
      <3>2. granted \in [Tokens -> Nat]
        BY DEF ServiceTypes
      <3>3. CASE token \in Tokens
        <4>1. granted[token] + 1 \in Nat
          BY <3>2, <3>3
        <4>2. QED BY <3>1, <3>2, <4>1
      <3>4. CASE token \notin Tokens
        BY <3>1, <3>2, <3>4
      <3>5. QED BY <3>3, <3>4
    <2>2. NoRequest \in [at : {"idle", "proving", "authorized", "wrapping"},
                         value : AnyChallenges \cup {None}, ticket : AnyClaims \cup {None}]
      BY DEF NoRequest
    <2>3. handlers' = [handlers EXCEPT ![h] = NoRequest]
      BY <1>7 DEF Grant
    <2>4. QED BY <1>7, <2>1, <2>2, <2>3 DEF Grant, ServiceTypes
  <1>8. QED BY <1>1, <1>2, <1>3, <1>4, <1>5, <1>6, <1>7, ServiceSteps

(* The device's state keeps its types. *)
LEMMA NextDeviceTypes ==
  ASSUME ServiceTypes, DeviceTypes, [KeyNext]_allVars
  PROVE  DeviceTypes'
  <1>1. drawn' \subseteq AnyClaims
    <2>1. ASSUME NEW token \in Tokens, NEW value \in challenges
          PROVE  [token |-> token, claim |-> "other", commitment |-> value,
                  until |-> value.expiresAt] \in AnyClaims
      BY DEF AnyClaims, AnyChallenges, ServiceTypes, Readers
    <2>2. CASE SaveClaim
      BY <2>2 DEF SaveClaim, DeviceTypes, Draw, operator, vars
    <2>3. ASSUME NEW token \in Tokens, NEW value \in challenges,
                 Draw([token |-> token, claim |-> "other", commitment |-> value,
                       until |-> value.expiresAt], now)
          PROVE  drawn' \subseteq AnyClaims
      BY <2>1, <2>3 DEF Draw, DeviceTypes
    <2>4. \/ UNCHANGED vars \/ \E c \in drawn, at, done \in OperatorTimes : Redeem(c, at, done)
          \/ (\E at \in OperatorTimes : Prune(at)) \/ Accept(reader.pending, now)
          => drawn' = drawn
      BY DEF vars, Redeem, Prune, Accept
    <2>5. QED BY <2>2, <2>3, <2>4, StoreSteps DEF DeviceTypes
  <1>2. CASE UNCHANGED device
    BY <1>1, <1>2 DEF device, DeviceTypes
  <1>3. ASSUME NEW value \in challenges, Begin(value) PROVE DeviceTypes'
    BY <1>1, <1>3 DEF Begin, DeviceTypes, ServiceTypes
  <1>4. CASE Acquire
    <2>1. reader.value \in AnyChallenges /\ reader.value.expiresAt \in Nat
      BY <1>4 DEF Acquire, DeviceTypes, AnyChallenges
    <2>2. CASE reader.pending # None
      BY <1>1, <1>4, <2>2 DEF Acquire, Reads, DeviceTypes
    <2>3. CASE reader.pending = None
      <3>1. PICK token \in wallet :
              /\ wallet' = wallet \ {token}
              /\ reader' = [reader EXCEPT !.at = "saving", !.pending =
                  [token |-> token, claim |-> "own", commitment |-> reader.value,
                   until |-> reader.value.expiresAt]]
        BY <1>4, <2>3 DEF Acquire
      <3>2. [token |-> token, claim |-> "own", commitment |-> reader.value,
             until |-> reader.value.expiresAt] \in AnyClaims
        BY <2>1, KeyServiceAssumption DEF DeviceTypes, AnyClaims, Readers
      <3>3. journal' = journal
        BY <1>4 DEF Acquire
      <3>4. QED BY <1>1, <3>1, <3>2, <3>3 DEF DeviceTypes
    <2>4. QED BY <2>2, <2>3
  <1>5. CASE RetryPending \/ HaveTicket \/ SaveClaim
    BY <1>1, <1>5 DEF RetryPending, HaveTicket, SaveClaim, Reads, Saved, DeviceTypes
  <1>6. CASE Complete \/ RetireExpired \/ DeviceRestarts
    BY <1>1, <1>6 DEF Complete, RetireExpired, DeviceRestarts, DeviceTypes
  <1>7. CASE AcquirerFails
    BY <1>1, <1>7 DEF AcquirerFails, Reads, Saved, DeviceTypes
  <1>8. QED BY <1>2, <1>3, <1>4, <1>5, <1>6, <1>7, DeviceSteps
-----------------------------------------------------------------------------
(* Stamps, challenges and claims once there stay, and time does not go     *)
(* back. *)
LEMMA OnlyMore ==
  ASSUME ServiceTypes, [KeyNext]_allVars
  PROVE  /\ stamps \subseteq stamps' /\ accepted \subseteq accepted'
         /\ challenges \subseteq challenges'
         /\ now <= now' /\ now' \in Nat
  <1>1. stamps \subseteq stamps' /\ accepted \subseteq accepted'
    BY StoreSteps DEF vars, Redeem, Stamped, Prune, Draw, Accept
  <1>2. challenges \subseteq challenges'
    BY ServiceSteps DEF service, device, operator, Tick, Replace, Withdraw, Restart, Hello, Read,
       Authorized, TicketChecked, Grant, Refuse
  <1>3. now' \in Nat /\ now <= now'
    BY ServiceSteps DEF service, device, operator, Tick, Replace, Withdraw, Restart, Hello, Read,
       Authorized, TicketChecked, Grant, Refuse, ServiceTypes
  <1>4. QED BY <1>1, <1>2, <1>3

(* A used challenge stays used: it is forgotten only when it has expired,  *)
(* or with its session. *)
LEMMA UsedStays ==
  ASSUME ServiceTypes, [KeyNext]_allVars, NEW value \in AnyChallenges, Used(value)
  PROVE  Used(value)'
  <1>1. value.session \in Nat /\ value.expiresAt \in Nat /\ now \in Nat /\ session \in Nat
    BY DEF AnyChallenges, ServiceTypes
  <1>2. CASE Restart
    <2>1. session' = session + 1 /\ now' = now
      BY <1>2 DEF Restart
    <2>2. value \in consumed => value.session <= session
      BY DEF ServiceTypes
    <2>3. QED BY <1>1, <2>1, <2>2 DEF Used
  <1>3. CASE \/ UNCHANGED <<now, service>> \/ Tick \/ Replace \/ Withdraw
             \/ \E h \in Handlers : Authorized(h) \/ TicketChecked(h) \/ Grant(h) \/ Refuse(h)
    BY <1>1, <1>3 DEF service, Tick, Replace, Withdraw, Authorized, TicketChecked, Grant, Refuse,
       Used
  <1>4. CASE \/ \E who \in Readers : Hello(who)
             \/ \E h \in Handlers, v \in challenges, ticket \in stamps : Read(h, v, ticket)
    <2>1. Unexpired \subseteq consumed' /\ session' = session /\ now' = now
      BY <1>4 DEF Hello, Read
    <2>2. QED BY <1>1, <2>1 DEF Unexpired, Used
  <1>5. QED BY <1>2, <1>3, <1>4, ServiceSteps

(* A claim's commitment is a challenge. *)
LEMMA StampTypes ==
  ASSUME StampsSound, DeviceTypes, NEW c \in stamps
  PROVE  c \in AnyClaims /\ c.token \in Tokens /\ c.commitment \in AnyChallenges
  BY DEF StampsSound, DeviceTypes, AnyClaims
-----------------------------------------------------------------------------
(* A request that starts uses a challenge that none under way has used. *)
LEMMA NextApart ==
  ASSUME ServiceTypes, HandlersApart, [KeyNext]_allVars
  PROVE  HandlersApart'
  <1>0. ASSUME NEW h \in Handlers, Busy(h), handlers'[h].value = handlers[h].value
        PROVE  handlers[h].value \in challenges' /\ Used(handlers[h].value)'
    BY <1>0, UsedStays, OnlyMore DEF HandlersApart, ServiceTypes
  <1>1. ASSUME UNCHANGED handlers PROVE HandlersApart'
    BY <1>0, <1>1, OnlyMore DEF HandlersApart, Busy
  <1>2. CASE Restart
    BY <1>2 DEF Restart, NoRequest, HandlersApart, Busy
  <1>3. ASSUME NEW h \in Handlers, NEW value \in challenges, NEW ticket \in stamps,
               Read(h, value, ticket)
        PROVE  HandlersApart'
    <2>1. handlers' = [handlers EXCEPT ![h] =
             [at |-> "proving", value |-> value, ticket |-> ticket]]
      BY <1>3 DEF Read
    <2>2. ~ Used(value)
      BY <1>3 DEF Read, Matches, Unused, Unexpired, Used, ServiceTypes, AnyChallenges
    <2>3. Used(value)' /\ value \in challenges' /\ ticket \in stamps'
      BY <1>3, OnlyMore DEF Read, Used
    <2>4. \A g \in Handlers \ {h} : Busy(g) => handlers[g].value # value
      BY <2>2 DEF HandlersApart
    <2>5. handlers'[h] = [at |-> "proving", value |-> value, ticket |-> ticket]
          /\ \A g \in Handlers \ {h} : handlers'[g] = handlers[g]
      BY <2>1 DEF ServiceTypes
    <2>6. QED BY <1>0, <2>3, <2>4, <2>5, OnlyMore DEF HandlersApart, Busy
  <1>4. ASSUME NEW h \in Handlers, Authorized(h) \/ TicketChecked(h)
        PROVE  HandlersApart'
    <2>1. /\ Busy(h) /\ handlers'[h].value = handlers[h].value
          /\ handlers'[h].ticket = handlers[h].ticket
          /\ \A g \in Handlers \ {h} : handlers'[g] = handlers[g]
          /\ handlers'[h].at = "wrapping" => handlers[h].ticket.commitment = handlers[h].value
      BY <1>4 DEF Authorized, TicketChecked, Goes, ForChallenge, ServiceTypes, Busy
    <2>2. QED BY <1>0, <2>1, OnlyMore DEF HandlersApart, Busy
  <1>5. ASSUME NEW h \in Handlers, Grant(h) \/ Refuse(h) PROVE HandlersApart'
    <2>1. handlers'[h].at = "idle" /\ \A g \in Handlers \ {h} : handlers'[g] = handlers[g]
      BY <1>5 DEF Grant, Refuse, NoRequest, ServiceTypes
    <2>2. QED BY <1>0, <2>1, OnlyMore DEF HandlersApart, Busy
  <1>6. QED
    BY <1>1, <1>2, <1>3, <1>4, <1>5, ServiceSteps DEF service, Tick, Replace, Withdraw, Hello

(* A key is counted when its challenge has been used, so the token's only  *)
(* stamp is worth no second one. *)
LEMMA NextKeys ==
  ASSUME StampsSound, ServiceTypes, DeviceTypes, HandlersApart, KeysCounted, [KeyNext]_allVars
  PROVE  KeysCounted'
  <1>1. ASSUME NEW c \in stamps, Used(c.commitment) PROVE c \in stamps' /\ Used(c.commitment)'
    BY <1>1, StampTypes, UsedStays, OnlyMore
  <1>2. ASSUME UNCHANGED granted
        PROVE  \A token \in Tokens : granted'[token] # 0 =>
                 granted'[token] = 1 /\ \E c \in stamps' : c.token = token /\ Used(c.commitment)'
    BY <1>1, <1>2 DEF KeysCounted
  <1>3. ASSUME UNCHANGED <<handlers, granted>> PROVE KeysCounted'
    BY <1>2, <1>3 DEF KeysCounted, Busy
  <1>4. CASE Restart
    BY <1>2, <1>4 DEF Restart, NoRequest, KeysCounted, Busy
  <1>5. ASSUME NEW h \in Handlers, NEW value \in challenges, NEW ticket \in stamps,
               Read(h, value, ticket)
        PROVE  KeysCounted'
    <2>1. /\ handlers'[h] = [at |-> "proving", value |-> value, ticket |-> ticket]
          /\ \A g \in Handlers \ {h} : handlers'[g] = handlers[g]
          /\ granted' = granted
      BY <1>5 DEF Read, ServiceTypes
    <2>2. ~ Used(value)
      BY <1>5 DEF Read, Matches, Unused, Unexpired, Used, ServiceTypes, AnyChallenges
    <2>3. ticket.token \in Tokens
      BY StampTypes
    <2>4. ticket.commitment = value => granted[ticket.token] = 0
      BY <2>2, <2>3 DEF KeysCounted, StampsSound
    <2>5. QED BY <1>2, <2>1, <2>4 DEF KeysCounted, Busy
  <1>6. ASSUME NEW h \in Handlers, Authorized(h) \/ TicketChecked(h)
        PROVE  KeysCounted'
    <2>1. /\ Busy(h) /\ handlers'[h].value = handlers[h].value
          /\ handlers'[h].ticket = handlers[h].ticket
          /\ \A g \in Handlers \ {h} : handlers'[g] = handlers[g]
          /\ granted' = granted
      BY <1>6 DEF Authorized, TicketChecked, Goes, ServiceTypes, Busy
    <2>2. QED BY <1>2, <2>1 DEF KeysCounted, Busy
  <1>7. ASSUME NEW h \in Handlers, Refuse(h) PROVE KeysCounted'
    <2>1. /\ handlers'[h].at = "idle" /\ \A g \in Handlers \ {h} : handlers'[g] = handlers[g]
          /\ granted' = granted
      BY <1>7 DEF Refuse, NoRequest, ServiceTypes
    <2>2. QED BY <1>2, <2>1 DEF KeysCounted, Busy
  <1>8. ASSUME NEW h \in Handlers, Grant(h) PROVE KeysCounted'
    <2> DEFINE ticket == handlers[h].ticket
    <2>1. /\ Busy(h) /\ ticket \in stamps /\ ticket.commitment = handlers[h].value
          /\ Used(ticket.commitment)
      BY <1>8 DEF Grant, HandlersApart, Busy
    <2>2. ticket.token \in Tokens /\ granted[ticket.token] = 0
      BY <2>1, StampTypes DEF KeysCounted
    <2>3. /\ granted'[ticket.token] = 1
          /\ \A token \in Tokens \ {ticket.token} : granted'[token] = granted[token]
      BY <1>8, <2>2 DEF Grant, ServiceTypes
    <2>4. handlers'[h].at = "idle" /\ \A g \in Handlers \ {h} : handlers'[g] = handlers[g]
      BY <1>8 DEF Grant, NoRequest, ServiceTypes
    <2>5. ASSUME NEW g \in Handlers \ {h}, Busy(g),
                 handlers[g].ticket.commitment = handlers[g].value
          PROVE  granted'[handlers[g].ticket.token] = 0
      <3>1. handlers[g].ticket \in stamps /\ handlers[g].value # handlers[h].value
        BY <2>1, <2>5 DEF HandlersApart
      <3>2. handlers[g].ticket.token # ticket.token
        BY <2>1, <2>5, <3>1 DEF StampsSound
      <3>3. handlers[g].ticket.token \in Tokens
        BY <3>1, StampTypes
      <3>4. QED BY <2>3, <2>5, <3>2, <3>3 DEF KeysCounted
    <2>6. \A token \in Tokens : granted'[token] # 0 =>
            granted'[token] = 1 /\ \E c \in stamps' : c.token = token /\ Used(c.commitment)'
      BY <1>1, <2>1, <2>3 DEF KeysCounted
    <2>7. QED BY <2>4, <2>5, <2>6 DEF KeysCounted, Busy
  <1>9. QED
    BY <1>3, <1>4, <1>5, <1>6, <1>7, <1>8, ServiceSteps
    DEF service, Tick, Replace, Withdraw, Hello
-----------------------------------------------------------------------------
(* None is no claim. *)
LEMMA NoneIsNoClaim == None \notin AnyClaims
  BY KeyServiceAssumption DEF AnyClaims, AnyChallenges

(* A claim leaves the disk only for itself, once its ticket is in hand or  *)
(* its challenge is over. *)
LEMMA NextKept ==
  ASSUME ServiceTypes, DeviceTypes, DrawnIsKept, [KeyNext]_allVars
  PROVE  DrawnIsKept'
  <1>1. ASSUME UNCHANGED device, UNCHANGED vars PROVE DrawnIsKept'
    BY <1>1, OnlyMore DEF device, vars, DrawnIsKept, ServiceTypes, DeviceTypes, AnyClaims
  <1> DEFINE Kept(c) == c.claim = "own" /\ now' < c.until => journal' = c \/ c \in accepted'
  <1>2. ASSUME NEW c \in drawn, journal = c => journal' = c \/ c \in accepted' \/ c.until <= now'
        PROVE  Kept(c)
    <2>1. c.until \in Nat /\ now \in Nat /\ now' \in Nat /\ now <= now'
      BY OnlyMore DEF DeviceTypes, ServiceTypes, AnyClaims
    <2>2. QED BY <1>2, <2>1, OnlyMore DEF DrawnIsKept
  <1>3. ASSUME NEW c \in drawn, journal = c PROVE reader.pending = c
    BY <1>3, NoneIsNoClaim DEF DrawnIsKept, DeviceTypes
  <1>4. \A c \in drawn : Kept(c)
    <2>1. ASSUME NEW c \in drawn, journal = c
          PROVE  journal' = c \/ c \in accepted' \/ c.until <= now'
      <3>1. reader.pending = c /\ c \in AnyClaims /\ c # None
        BY <1>3, <2>1, NoneIsNoClaim DEF DeviceTypes
      <3>2. CASE Complete
        BY <2>1, <3>1, <3>2, OnlyMore DEF Complete, DrawnIsKept
      <3>3. CASE RetireExpired
        BY <2>1, <3>1, <3>3, OnlyMore DEF RetireExpired
      <3>4. CASE AcquirerFails
        BY <2>1, <3>1, <3>4, OnlyMore DEF AcquirerFails, Saved, DrawnIsKept
      <3>5. CASE SaveClaim
        BY <2>1, <3>1, <3>5 DEF SaveClaim, Saved
      <3>6. QED
        BY <2>1, <3>2, <3>3, <3>4, <3>5, DeviceSteps
        DEF device, Begin, Acquire, RetryPending, HaveTicket, DeviceRestarts
    <2>2. QED BY <1>2, <2>1
  <1> HIDE DEF Kept
  <1>5. \A c \in drawn' : Kept(c)
    <2>1. ASSUME NEW token, NEW value
          PROVE  Kept([token |-> token, claim |-> "other", commitment |-> value,
                       until |-> value.expiresAt])
      BY DEF Kept
    <2>2. ASSUME SaveClaim PROVE Kept(reader.pending)
      BY <2>2 DEF SaveClaim, Saved, Kept
    <2>3. \/ drawn' = drawn
          \/ \E token \in Tokens, value \in challenges : drawn' = drawn \cup
               {[token |-> token, claim |-> "other", commitment |-> value,
                 until |-> value.expiresAt]}
          \/ SaveClaim /\ drawn' = drawn \cup {reader.pending}
      BY StoreSteps DEF vars, Redeem, Prune, Draw, Accept
    <2>4. QED BY <1>4, <2>1, <2>2, <2>3
  <1>6. journal' # None => journal' = reader'.pending
    <2>1. CASE Acquire
      BY <2>1 DEF Acquire, Reads, DrawnIsKept, DeviceTypes
    <2>2. CASE \/ \E value \in challenges : Begin(value)
               \/ UNCHANGED device \/ RetryPending \/ HaveTicket \/ SaveClaim
      BY <2>2 DEF Begin, device, RetryPending, HaveTicket, SaveClaim, Saved, Reads, DrawnIsKept,
         DeviceTypes
    <2>3. CASE Complete \/ RetireExpired \/ DeviceRestarts \/ AcquirerFails
      BY <2>3 DEF Complete, RetireExpired, DeviceRestarts, AcquirerFails, Saved, Reads,
         DrawnIsKept, DeviceTypes
    <2>4. QED BY <2>1, <2>2, <2>3, DeviceSteps
  <1>7. reader'.at = "completing" => reader'.pending \in accepted'
    <2>1. CASE HaveTicket
      BY <2>1 DEF HaveTicket, Accept, Reads, DeviceTypes
    <2>2. CASE UNCHANGED device
      BY <2>2, OnlyMore DEF device, DrawnIsKept
    <2>3. CASE Acquire
      BY <2>3 DEF Acquire, Reads, DeviceTypes
    <2>4. CASE RetireExpired \/ Complete \/ DeviceRestarts
      BY <2>4 DEF RetireExpired, Complete, DeviceRestarts, DeviceTypes
    <2>5. CASE \/ \E value \in challenges : Begin(value)
               \/ RetryPending \/ SaveClaim \/ AcquirerFails
      BY <2>5 DEF Begin, RetryPending, SaveClaim, AcquirerFails, Reads, DeviceTypes
    <2>6. QED BY <2>1, <2>2, <2>3, <2>4, <2>5, DeviceSteps
  <1>8. QED BY <1>5, <1>6, <1>7 DEF DrawnIsKept, Kept
-----------------------------------------------------------------------------
(* Nothing has been asked for at the start. *)
LEMMA InitIInv == KeyInit => IInv
  <1> SUFFICES ASSUME KeyInit PROVE IInv
    OBVIOUS
  <1>1. StampsSound
    BY DEF KeyInit, Init, StampsSound
  <1>2. ServiceTypes
    BY FS_EmptySet DEF KeyInit, NoRequest, ServiceTypes
  <1>3. DeviceTypes
    BY DEF KeyInit, Init, DeviceTypes
  <1>4. HandlersApart /\ KeysCounted
    BY DEF KeyInit, NoRequest, HandlersApart, KeysCounted, Busy
  <1>5. DrawnIsKept
    BY DEF KeyInit, Init, DrawnIsKept
  <1>6. QED BY <1>1, <1>2, <1>3, <1>4, <1>5 DEF IInv

(* The three parts hold in every behaviour of holder, readers and operator. *)
LEMMA Inductive == KeySpec => []IInv
  <1>1. IInv /\ [KeyNext]_allVars => IInv'
    BY NextStamps, NextServiceTypes, NextDeviceTypes, NextApart, NextKeys, NextKept DEF IInv
  <1>2. QED BY InitIInv, <1>1, PTL DEF KeySpec
-----------------------------------------------------------------------------
(* One claim of a permit is ever stamped or accepted, whatever is retried, *)
(* lost, pruned or set back (permit_issuer.rs:239-322). *)
THEOREM StampedOnce == KeySpec => []SpentOnce
  <1>1. IInv => SpentOnce
    BY DEF IInv, StampsSound, SpentOnce
  <1>2. QED BY Inductive, <1>1, PTL

(* One permit gives at most one key, over sessions, handlers at once and   *)
(* repeated or late requests (access.js:133-161). *)
THEOREM OneKeyPerPermit == KeySpec => []KeyPerPermit
  <1>1. IInv => KeyPerPermit
    <2> SUFFICES ASSUME IInv, NEW token \in Tokens PROVE granted[token] <= 1
      BY DEF KeyPerPermit
    <2>1. granted[token] = 0 \/ granted[token] = 1
      BY DEF IInv, KeysCounted
    <2>2. QED BY <2>1
  <1>2. QED BY Inductive, <1>1, PTL

(* No crash or failed save loses a ticket that was paid for                *)
(* (tickets.js:95-141). *)
THEOREM PaidTicketsKept == KeySpec => []PaidIsKept
  <1>1. IInv => PaidIsKept
    BY DEF IInv, StampsSound, DrawnIsKept, PaidIsKept
  <1>2. QED BY Inductive, <1>1, PTL

(* A key leaves only while its publication is the one that is served       *)
(* (access.js:155-161). *)
THEOREM GrantsAreCurrent == KeySpec => GrantIsCurrent
  <1>1. ASSUME IInv, [KeyNext]_allVars, NEW h \in Handlers, granted' # granted,
               handlers'[h] # handlers[h]
        PROVE  /\ handlers[h].value.publication = active /\ now < StateEnd[active]
               /\ handlers[h].value.session = session /\ handlers[h].value \in challenges
    <2>1. PICK g \in Handlers : Grant(g)
      BY <1>1, ServiceSteps DEF service, device, operator, Tick, Replace, Withdraw, Restart, Hello,
         Read, Authorized, TicketChecked, Refuse
    <2>2. g = h
      BY <1>1, <2>1 DEF Grant, IInv, ServiceTypes
    <2>3. QED BY <1>1, <2>1, <2>2
              DEF Grant, StillMatches, Matches, Live, IInv, HandlersApart, Busy
  <1>2. IInv /\ [KeyNext]_allVars =>
          [\A h \in Handlers :
            granted' # granted /\ handlers'[h] # handlers[h] =>
              /\ handlers[h].value.publication = active /\ now < StateEnd[active]
              /\ handlers[h].value.session = session /\ handlers[h].value \in challenges]_allVars
    BY <1>1
  <1>3. QED BY Inductive, <1>2, PTL DEF KeySpec, GrantIsCurrent
-----------------------------------------------------------------------------
(***************************************************************************)
(* The ledger the permits come from, Allocation, for any members, requests,*)
(* epochs, allowance and clock readings: no member draws more than its     *)
(* allowance over any span of periods, and every signature that left was   *)
(* paid for once.                                                          *)
(***************************************************************************)
DebitRow == [member : Members, nonce : Nonces, period : Nat]
Row == [credits : Nat, lastPeriod : Nat]

Types ==
    /\ clockFloor \in Nat
    /\ members \in [Members -> Row \cup {NoMember}]
    /\ debits \subseteq DebitRow /\ IsFiniteSet(debits)
    /\ \A v \in reservations : v.request \in Requests

(* A nonce of a member has one reservation, and one debit. *)
NoncesOnce ==
    /\ \A v, w \in reservations :
        v.request.member = w.request.member /\ v.request.nonce = w.request.nonce => v = w
    /\ \A v \in reservations : \E g \in debits :
        g.member = v.request.member /\ g.nonce = v.request.nonce
    /\ \A g \in debits : \E v \in reservations :
        g.member = v.request.member /\ g.nonce = v.request.nonce
    /\ \A g, k \in debits : g.member = k.member /\ g.nonce = k.nonce => g = k

(* What left the operator is what the reservation of its request holds. *)
Stored ==
    \A x \in released :
        /\ x = [request |-> x.request, context |-> x.request.context, signature |-> x.signature]
        /\ \E v \in reservations : v.request = x.request /\ v.response = x.signature

(* A member's row is of its latest debit, which the clockFloor has passed. *)
Dated ==
    \A m \in Members :
        /\ members[m] = NoMember => \A g \in debits : g.member # m
        /\ members[m] # NoMember =>
            /\ members[m].lastPeriod <= Period(clockFloor)
            /\ \E g \in debits : g.member = m
            /\ \A g \in debits : g.member = m => g.period <= members[m].lastPeriod

(* What was drawn since any period, with what is left, is within what the  *)
(* member had then and what the periods since have added. *)
Limit(start, from, to) == start + periodicCredits * (to - from)
DrawnSince(m, from) == GrantedIn(m, from, members[m].lastPeriod) + members[m].credits
Balanced(m) ==
    members[m] # NoMember => \A from \in 0 .. members[m].lastPeriod :
        /\ DrawnSince(m, from) <= Limit(creditCap, from, members[m].lastPeriod)
        /\ GrantedIn(m, 0, from - 1) = 0 =>
            DrawnSince(m, from) <= Limit(initialCredits, from, members[m].lastPeriod)

(* AllowanceKept, for one span of one member. *)
Kept(m, from, to) ==
    /\ GrantedIn(m, from, to) <= Limit(creditCap, from, to)
    /\ GrantedIn(m, 0, from - 1) = 0 => GrantedIn(m, from, to) <= Limit(initialCredits, from, to)

AllowanceInv ==
    /\ Types /\ NoncesOnce /\ Stored /\ Dated
    /\ \A m \in Members : Balanced(m)
    /\ \A m \in Members : \A from, to \in Nat : from <= to => Kept(m, from, to)
-----------------------------------------------------------------------------
(* The allowance is made of natural numbers, and periods of time order it. *)
LEMMA Numbers ==
  /\ initialCredits \in Nat /\ periodicCredits \in Nat /\ creditCap \in Nat
  /\ initialCredits <= creditCap
  /\ periodSeconds \in Nat /\ periodSeconds > 0
  /\ \A t \in Readings : t \in Nat
  BY AllocationPolicy

(* Periods are counted from zero. *)
LEMMA PeriodsAreNumbers == ASSUME NEW t \in Nat PROVE Period(t) \in Nat
  BY Numbers, SMTT(20) DEF Period

(* A later time is in no earlier period. *)
LEMMA PeriodMonotone ==
  ASSUME NEW t \in Nat, NEW u \in Nat, t <= u
  PROVE  Period(t) <= Period(u)
  BY Numbers, SMTT(20) DEF Period

(* A longer span, and a larger start, allow more. *)
LEMMA LimitMonotone ==
  ASSUME NEW a \in Nat, NEW from \in Nat, NEW to \in Nat, NEW later \in Nat, to <= later
  PROVE  /\ Limit(a, from, to) \in Int
         /\ Limit(a, from, later) = Limit(a, from, to) + periodicCredits * (later - to)
         /\ periodicCredits * (later - to) \in Nat
         /\ (later - to) * periodicCredits = periodicCredits * (later - to)
  BY Numbers, SMTT(20) DEF Limit

(* Grants counted over a span, when one more is made and when none is left *)
(* beyond its end. *)
GrantsIn(m, from, to) == {g \in debits : g.member = m /\ from <= g.period /\ g.period <= to}

(* Such counts are of finite sets. *)
LEMMA CountType ==
  ASSUME IsFiniteSet(debits), NEW m, NEW from, NEW to
  PROVE  /\ IsFiniteSet(GrantsIn(m, from, to)) /\ GrantedIn(m, from, to) \in Nat
         /\ GrantedIn(m, from, to) = Cardinality(GrantsIn(m, from, to))
         /\ GrantedIn(m, from, to) = 0 <=> GrantsIn(m, from, to) = {}
  <1>1. GrantsIn(m, from, to) \in SUBSET debits
    BY DEF GrantsIn
  <1>2. IsFiniteSet(GrantsIn(m, from, to))
    BY <1>1, FS_Subset
  <1>3. GrantedIn(m, from, to) = Cardinality(GrantsIn(m, from, to))
    BY DEF GrantedIn, GrantsIn
  <1>4. QED BY <1>2, <1>3, FS_CardinalityType, FS_EmptySet

(* One more grant counts in the spans that hold it. *)
LEMMA CountStep ==
  ASSUME IsFiniteSet(debits), NEW h, h \notin debits, debits' = debits \cup {h},
         NEW m, NEW from, NEW to
  PROVE  GrantedIn(m, from, to)' = IF h.member = m /\ from <= h.period /\ h.period <= to
                                   THEN GrantedIn(m, from, to) + 1 ELSE GrantedIn(m, from, to)
  <1>0. /\ IsFiniteSet(GrantsIn(m, from, to)) /\ h \notin GrantsIn(m, from, to)
        /\ GrantedIn(m, from, to) = Cardinality(GrantsIn(m, from, to))
    BY CountType DEF GrantsIn
  <1>1. CASE h.member = m /\ from <= h.period /\ h.period <= to
    <2>1. GrantsIn(m, from, to)' = GrantsIn(m, from, to) \cup {h}
      BY <1>1 DEF GrantsIn
    <2>2. Cardinality(GrantsIn(m, from, to) \cup {h}) = Cardinality(GrantsIn(m, from, to)) + 1
      BY <1>0, FS_AddElement
    <2>3. GrantedIn(m, from, to)' = Cardinality(GrantsIn(m, from, to)')
      BY DEF GrantedIn, GrantsIn
    <2>4. QED BY <1>0, <1>1, <2>1, <2>2, <2>3
  <1>2. CASE ~(h.member = m /\ from <= h.period /\ h.period <= to)
    <2>1. GrantsIn(m, from, to)' = GrantsIn(m, from, to)
      BY <1>2 DEF GrantsIn
    <2>2. GrantedIn(m, from, to)' = Cardinality(GrantsIn(m, from, to)')
      BY DEF GrantedIn, GrantsIn
    <2>3. QED BY <1>0, <1>2, <2>1, <2>2
  <1>3. QED BY <1>1, <1>2

(* All that a member drew up to a time it drew nothing after. *)
LEMMA CountBeyond ==
  ASSUME debits \subseteq DebitRow, NEW m, NEW last \in Nat, NEW from \in Nat, NEW to \in Nat, last <= to,
         \A g \in debits : g.member = m => g.period <= last
  PROVE  GrantedIn(m, from, to) = GrantedIn(m, from, last)
  <1>1. GrantsIn(m, from, to) = GrantsIn(m, from, last)
    BY DEF GrantsIn, DebitRow
  <1>2. QED BY <1>1 DEF GrantedIn, GrantsIn
-----------------------------------------------------------------------------
(* An answer of this step, as the transaction's response made it. *)
AnswerTo(r, response) == [request |-> r, context |-> r.context, signature |-> response]

(* A retry of any kind debits nothing, and answers what is stored. *)
Quiet ==
    /\ UNCHANGED <<members, reservations, debits>>
    /\ clockFloor' \in Nat /\ clockFloor <= clockFloor'
    /\ \A x \in released' : x \in released \/ \E v \in reservations :
        x = AnswerTo(v.request, v.response)

(* A new reservation, with the answer that may leave after it. *)
DebitOf(r, time, done, response) ==
    /\ Debit(r, time, done, response)
    /\ \A x \in released' : x \in released \/ x = AnswerTo(r, response)

(* Every step is one or the other. *)
LEMMA Steps ==
  ASSUME Types, [AllocationNext]_allocationVars
  PROVE  \/ Quiet
         \/ \E r \in Requests, time \in Readings, done \in Readings : \E response :
              DebitOf(r, time, done, response)
  <1>0. clockFloor \in Nat
    BY DEF Types
  <1>1. CASE UNCHANGED allocationVars
    BY <1>0, <1>1 DEF allocationVars, Quiet
  <1>2. ASSUME NEW r \in Requests, NEW time \in Readings, NEW done \in Readings, Reserve(r, time, done)
        PROVE  DebitOf(r, time, done, Empty)
    BY <1>2 DEF Reserve, DebitOf
  <1>3. ASSUME NEW r \in Requests, NEW time \in Readings, RetryReserve(r, time) PROVE Quiet
    BY <1>0, <1>3, Numbers DEF RetryReserve, Recovered, Quiet
  <1>4. ASSUME NEW r \in Requests, NEW time \in Readings, NEW done \in Readings, NEW e \in Epochs,
               Issue(e, r, time, done)
        PROVE  DebitOf(r, time, done, Signed(e, r))
    BY <1>4 DEF Issue, DebitOf, Answered, ForEpoch, AnswerTo
  <1>5. ASSUME NEW r \in Requests, NEW time \in Readings, NEW e \in Epochs, RetryIssue(e, r, time)
        PROVE  Quiet
    <2>1. PICK s \in Signature : Recovered(r, time, s) /\ Answered(e, r, s)
      BY <1>5 DEF RetryIssue
    <2>2. PICK v \in reservations : v.request = r /\ v.response = s
      BY <2>1 DEF Recovered, PriorOf
    <2>3. \A x \in released' : x \in released \/ x = AnswerTo(v.request, v.response)
      BY <1>5, <2>1, <2>2 DEF Answered, RetryIssue, ForEpoch, AnswerTo
    <2>4. QED BY <1>0, <2>1, <2>3, Numbers DEF Recovered, Quiet
  <1>6. QED BY <1>1, <1>2, <1>3, <1>4, <1>5 DEF AllocationNext

(* What a debit relies on and leaves. *)
GrantOf(r, time) == [member |-> r.member, nonce |-> r.nonce, period |-> Period(time)]

LEMMA Debited ==
  ASSUME Types, NoncesOnce, Dated, NEW r \in Requests, NEW time \in Readings, NEW done \in Readings,
         NEW response, DebitOf(r, time, done, response)
  PROVE  LET m == r.member  p == Period(time)  c == CreditsAt(m, time)
         IN  /\ m \in Members /\ p \in Nat /\ p <= Period(clockFloor') /\ clockFloor <= clockFloor' /\ clockFloor' \in Nat
             /\ c \in Nat /\ 1 <= c
             /\ members[m] = NoMember => c = initialCredits
             /\ members[m] # NoMember =>
                 /\ members[m].credits \in Nat /\ members[m].lastPeriod \in Nat
                 /\ members[m].lastPeriod <= p
                 /\ c <= creditCap /\ c <= Accrued(m, time)
             /\ members' = [members EXCEPT ![m] = [credits |-> c - 1, lastPeriod |-> p]]
             /\ [credits |-> c - 1, lastPeriod |-> p] \in Row /\ members'[m] # NoMember
             /\ reservations' = reservations \cup
                   {[request |-> r, remaining |-> c - 1, response |-> response]}
             /\ debits' = debits \cup {GrantOf(r, time)} /\ GrantOf(r, time) \notin debits
             /\ GrantOf(r, time) \in DebitRow
             /\ \A v \in reservations :
                  ~(v.request.member = r.member /\ v.request.nonce = r.nonce)
  <1> DEFINE m == r.member
             p == Period(time)
             c == CreditsAt(m, time)
  <1>1. m \in Members /\ r.nonce \in Nonces
    BY RequestShape DEF Request
  <1>2. /\ time \in Nat /\ done \in Nat /\ clockFloor \in Nat
        /\ clockFloor <= time /\ time <= done /\ clockFloor' = done /\ 1 <= c
    BY Numbers DEF DebitOf, Debit, Allowed, Types
  <1>3. p \in Nat /\ Period(clockFloor) \in Nat /\ p <= Period(clockFloor') /\ Period(clockFloor) <= p
    BY <1>2, PeriodsAreNumbers, PeriodMonotone
  <1>4. members[m] # NoMember =>
          /\ members[m].credits \in Nat /\ members[m].lastPeriod \in Nat
          /\ members[m].lastPeriod <= p
    BY <1>1, <1>2, <1>3, PeriodsAreNumbers DEF Types, Dated, Row
  <1>5. members[m] # NoMember => Accrued(m, time) \in Nat
    <2>1. CASE members[m] # NoMember
      <3>1. (p - members[m].lastPeriod) * periodicCredits \in Nat
        BY <1>3, <1>4, <2>1, LimitMonotone, Numbers
      <3>2. QED BY <1>4, <2>1, <3>1 DEF Accrued
    <2>2. QED BY <2>1
  <1>6. c \in Nat /\ (members[m] = NoMember => c = initialCredits)
        /\ (members[m] # NoMember => c <= creditCap /\ c <= Accrued(m, time))
    BY <1>5, Numbers DEF CreditsAt
  <1>7. [credits |-> c - 1, lastPeriod |-> p] \in Row
    BY <1>2, <1>3, <1>6 DEF Row
  <1>8. members' = [members EXCEPT ![m] = [credits |-> c - 1, lastPeriod |-> p]]
    BY DEF DebitOf, Debit
  <1>9. members'[m] # NoMember
    BY <1>1, <1>7, <1>8, NoMemberIsNoRow DEF Types, Row
  <1>10. \A v \in reservations : ~(v.request.member = r.member /\ v.request.nonce = r.nonce)
    BY DEF DebitOf, Debit, PriorOf
  <1>11. GrantOf(r, time) \notin debits
    BY <1>10 DEF NoncesOnce, GrantOf
  <1>12. GrantOf(r, time) \in DebitRow
    BY <1>1, <1>3 DEF DebitRow, GrantOf
  <1>13. /\ debits' = debits \cup {GrantOf(r, time)}
         /\ reservations' = reservations \cup
              {[request |-> r, remaining |-> c - 1, response |-> response]}
    BY DEF DebitOf, Debit, GrantOf
  <1>14. QED
    BY <1>1, <1>2, <1>3, <1>4, <1>6, <1>7, <1>8, <1>9, <1>10, <1>11, <1>12, <1>13
-----------------------------------------------------------------------------
(* Types, at the start and over a step. *)
LEMMA InitTypes == AllocationInit => Types
  BY FS_EmptySet DEF AllocationInit, Types

(* They hold over each step. *)
LEMMA NextTypes ==
  ASSUME Types, NoncesOnce, Dated, [AllocationNext]_allocationVars
  PROVE  Types'
  <1>1. CASE Quiet
    BY <1>1 DEF Quiet, Types
  <1>2. ASSUME NEW r \in Requests, NEW time \in Readings, NEW done \in Readings, NEW response,
               DebitOf(r, time, done, response)
        PROVE  Types'
    <2>1. /\ clockFloor' \in Nat /\ r.member \in Members
          /\ members' = [members EXCEPT ![r.member] =
                            [credits |-> CreditsAt(r.member, time) - 1, lastPeriod |-> Period(time)]]
          /\ [credits |-> CreditsAt(r.member, time) - 1, lastPeriod |-> Period(time)] \in Row
          /\ debits' = debits \cup {GrantOf(r, time)} /\ GrantOf(r, time) \in DebitRow
          /\ reservations' = reservations \cup
              {[request |-> r, remaining |-> CreditsAt(r.member, time) - 1, response |-> response]}
      BY <1>2, Debited
    <2>2. members' \in [Members -> Row \cup {NoMember}]
      BY <2>1 DEF Types
    <2>3. IsFiniteSet(debits') /\ debits' \subseteq DebitRow
      BY <2>1, FS_AddElement DEF Types
    <2>4. \A v \in reservations' : v.request \in Requests
      BY <2>1 DEF Types
    <2>5. QED BY <2>1, <2>2, <2>3, <2>4 DEF Types
  <1>3. QED BY <1>1, <1>2, Steps

(* A debit uses its nonce up, with the reservation that names it. *)
LEMMA NextNoncesOnce ==
  ASSUME Types, NoncesOnce, Dated, [AllocationNext]_allocationVars
  PROVE  NoncesOnce'
  <1>1. CASE Quiet
    BY <1>1 DEF Quiet, NoncesOnce
  <1>2. ASSUME NEW r \in Requests, NEW time \in Readings, NEW done \in Readings, NEW response,
               DebitOf(r, time, done, response)
        PROVE  NoncesOnce'
    <2> DEFINE new == [request |-> r, remaining |-> CreditsAt(r.member, time) - 1,
                       response |-> response]
               h == GrantOf(r, time)
    <2>1. /\ reservations' = reservations \cup {new} /\ debits' = debits \cup {h}
          /\ \A v \in reservations : ~(v.request.member = r.member /\ v.request.nonce = r.nonce)
      BY <1>2, Debited
    <2>2. new.request = r /\ h.member = r.member /\ h.nonce = r.nonce
      BY DEF GrantOf
    <2> HIDE DEF new, h
    <2>3. \A v, w \in reservations' :
            v.request.member = w.request.member /\ v.request.nonce = w.request.nonce => v = w
      BY <2>1, <2>2 DEF NoncesOnce
    <2>4. \A v \in reservations' : \E g \in debits' :
            g.member = v.request.member /\ g.nonce = v.request.nonce
      BY <2>1, <2>2 DEF NoncesOnce
    <2>5. \A g \in debits' : \E v \in reservations' :
            g.member = v.request.member /\ g.nonce = v.request.nonce
      BY <2>1, <2>2 DEF NoncesOnce
    <2>6. \A g \in debits : ~(g.member = h.member /\ g.nonce = h.nonce)
      BY <2>1, <2>2 DEF NoncesOnce
    <2>7. \A g, k \in debits' : g.member = k.member /\ g.nonce = k.nonce => g = k
      BY <2>1, <2>6 DEF NoncesOnce
    <2>8. QED BY <2>3, <2>4, <2>5, <2>7 DEF NoncesOnce
  <1>3. QED BY <1>1, <1>2, Steps

(* Only what a reservation holds leaves, and reservations are kept. *)
LEMMA NextStored ==
  ASSUME Types, NoncesOnce, Dated, Stored, [AllocationNext]_allocationVars
  PROVE  Stored'
  <1> SUFFICES ASSUME NEW x \in released'
      PROVE  /\ x = [request |-> x.request, context |-> x.request.context,
                     signature |-> x.signature]
             /\ \E v \in reservations' : v.request = x.request /\ v.response = x.signature
    BY DEF Stored
  <1>1. reservations \subseteq reservations'
    BY Steps, Debited DEF Quiet
  <1>2. CASE x \in released
    BY <1>1, <1>2 DEF Stored
  <1>3. ASSUME NEW v \in reservations', x = AnswerTo(v.request, v.response)
        PROVE  /\ x = [request |-> x.request, context |-> x.request.context,
                       signature |-> x.signature]
               /\ v.request = x.request /\ v.response = x.signature
    BY <1>3 DEF AnswerTo
  <1>4. CASE Quiet
    BY <1>1, <1>2, <1>3, <1>4 DEF Quiet
  <1>5. ASSUME NEW r \in Requests, NEW time \in Readings, NEW done \in Readings, NEW response,
               DebitOf(r, time, done, response), x \notin released
        PROVE  \E v \in reservations' : x = AnswerTo(v.request, v.response)
    <2> DEFINE new == [request |-> r, remaining |-> CreditsAt(r.member, time) - 1,
                       response |-> response]
    <2>1. reservations' = reservations \cup {new}
      BY <1>5, Debited
    <2>2. x = AnswerTo(new.request, new.response)
      BY <1>5 DEF DebitOf
    <2>3. QED BY <2>1, <2>2
  <1>6. QED BY <1>2, <1>3, <1>4, <1>5, Steps

(* A debit dates its member's row, and the clockFloor follows. *)
LEMMA NextDated ==
  ASSUME Types, NoncesOnce, Dated, [AllocationNext]_allocationVars
  PROVE  Dated'
  <1> SUFFICES ASSUME NEW m \in Members
      PROVE  /\ members'[m] = NoMember => \A g \in debits' : g.member # m
             /\ members'[m] # NoMember =>
                 /\ members'[m].lastPeriod <= Period(clockFloor')
                 /\ \E g \in debits' : g.member = m
                 /\ \A g \in debits' : g.member = m => g.period <= members'[m].lastPeriod
    BY DEF Dated, Period
  <1>0. clockFloor \in Nat /\ (members[m] # NoMember => members[m].lastPeriod \in Nat)
    BY DEF Types, Row
  <1>1. CASE Quiet
    <2>1. Period(clockFloor) <= Period(clockFloor') /\ Period(clockFloor) \in Nat /\ Period(clockFloor') \in Nat
      BY <1>0, <1>1, PeriodMonotone, PeriodsAreNumbers DEF Quiet
    <2>2. QED BY <1>0, <1>1, <2>1 DEF Quiet, Dated
  <1>2. ASSUME NEW r \in Requests, NEW time \in Readings, NEW done \in Readings, NEW response,
               DebitOf(r, time, done, response)
        PROVE  /\ members'[m] = NoMember => \A g \in debits' : g.member # m
               /\ members'[m] # NoMember =>
                   /\ members'[m].lastPeriod <= Period(clockFloor')
                   /\ \E g \in debits' : g.member = m
                   /\ \A g \in debits' : g.member = m => g.period <= members'[m].lastPeriod
    <2> DEFINE p == Period(time)
               h == GrantOf(r, time)
    <2>1. /\ r.member \in Members /\ p \in Nat /\ p <= Period(clockFloor')
          /\ clockFloor <= clockFloor' /\ clockFloor' \in Nat
          /\ members' = [members EXCEPT ![r.member] =
                            [credits |-> CreditsAt(r.member, time) - 1, lastPeriod |-> p]]
          /\ members'[r.member] # NoMember /\ debits' = debits \cup {h}
          /\ members[r.member] # NoMember => members[r.member].lastPeriod <= p
      BY <1>2, Debited
    <2>2. h.member = r.member /\ h.period = p
      BY DEF GrantOf
    <2> HIDE DEF h, p
    <2>3. CASE m = r.member
      <3>1. members'[m].lastPeriod = p
        BY <2>1, <2>3 DEF Types
      <3>2. \A g \in debits : g.member = m => g.period <= p
        <4>1. CASE members[m] = NoMember
          BY <4>1 DEF Dated
        <4>2. ASSUME members[m] # NoMember, NEW g \in debits, g.member = m PROVE g.period <= p
          <5>1. g.period \in Nat /\ g.period <= members[m].lastPeriod
            BY <4>2 DEF Dated, Types, DebitRow
          <5>2. QED BY <1>0, <2>1, <2>3, <4>2, <5>1
        <4>3. QED BY <4>1, <4>2
      <3>3. QED BY <2>1, <2>2, <2>3, <3>1, <3>2
    <2>4. CASE m # r.member
      <3>1. members'[m] = members[m]
        BY <2>1, <2>4
      <3>2. Period(clockFloor) <= Period(clockFloor') /\ Period(clockFloor) \in Nat /\ Period(clockFloor') \in Nat
        BY <1>0, <2>1, PeriodMonotone, PeriodsAreNumbers
      <3>3. QED BY <1>0, <2>1, <2>2, <2>4, <3>1, <3>2 DEF Dated
    <2>5. QED BY <2>3, <2>4
  <1>3. QED BY <1>1, <1>2, Steps
-----------------------------------------------------------------------------
(* The counts of a member, when it draws one more. *)
LEMMA Drawn ==
  ASSUME Types, NoncesOnce, Dated, NEW r \in Requests, NEW time \in Readings, NEW done \in Readings,
         NEW response, DebitOf(r, time, done, response), NEW m \in Members,
         NEW from \in Int, NEW to \in Int
  PROVE  /\ GrantedIn(m, from, to) \in Nat
         /\ m # r.member => GrantedIn(m, from, to)' = GrantedIn(m, from, to)
         /\ m = r.member => GrantedIn(m, from, to)' =
                IF from <= Period(time) /\ Period(time) <= to
                THEN GrantedIn(m, from, to) + 1 ELSE GrantedIn(m, from, to)
         /\ m = r.member => \A g \in debits : g.member = m => g.period <= Period(time)
  <1> DEFINE h == GrantOf(r, time)
  <1>1. /\ debits' = debits \cup {h} /\ h \notin debits /\ IsFiniteSet(debits)
        /\ Period(time) \in Nat
        /\ members[r.member] # NoMember =>
            /\ members[r.member].lastPeriod \in Nat
            /\ members[r.member].lastPeriod <= Period(time)
    BY Debited DEF Types
  <1>2. h.member = r.member /\ h.period = Period(time)
    BY DEF GrantOf
  <1> HIDE DEF h
  <1>3. GrantedIn(m, from, to)' = IF h.member = m /\ from <= h.period /\ h.period <= to
                                  THEN GrantedIn(m, from, to) + 1 ELSE GrantedIn(m, from, to)
    BY <1>1, CountStep
  <1>4. GrantedIn(m, from, to) \in Nat
    BY <1>1, CountType
  <1>5. ASSUME m = r.member, NEW g \in debits, g.member = m PROVE g.period <= Period(time)
    <2>1. members[m] # NoMember /\ g.period <= members[m].lastPeriod /\ g.period \in Nat
      BY <1>5 DEF Dated, Types, DebitRow
    <2>2. QED BY <1>1, <1>5, <2>1
  <1>6. QED BY <1>2, <1>3, <1>4, <1>5

(* A member's balance survives a debit: what the periods since the last    *)
(* one added is all that was added, and the cap only lowers it. *)
LEMMA DebitBalanced ==
  ASSUME AllowanceInv, NEW r \in Requests, NEW time \in Readings, NEW done \in Readings, NEW response,
         DebitOf(r, time, done, response), NEW from \in 0 .. Period(time)
  PROVE  LET m == r.member  p == Period(time)  c == CreditsAt(m, time)
         IN  /\ GrantedIn(m, from, p) + c <= Limit(creditCap, from, p)
             /\ GrantedIn(m, 0, from - 1) = 0 =>
                 GrantedIn(m, from, p) + c <= Limit(initialCredits, from, p)
  <1> DEFINE m == r.member
             p == Period(time)
             c == CreditsAt(m, time)
             L == members[m].lastPeriod
  <1>0. Types /\ NoncesOnce /\ Dated /\ \A x \in Members : Balanced(x)
    BY DEF AllowanceInv
  <1>1. /\ m \in Members /\ p \in Nat /\ c \in Nat
        /\ members[m] = NoMember => c = initialCredits
        /\ members[m] # NoMember =>
            /\ members[m].credits \in Nat /\ L \in Nat /\ L <= p
            /\ c <= creditCap /\ c <= Accrued(m, time)
    BY <1>0, Debited
  <1>2. from \in Nat /\ from <= p
    BY <1>1
  <1>3. /\ GrantedIn(m, from, p) \in Nat
        /\ \A g \in debits : g.member = m => g.period \in Nat /\ g.period <= p
    BY <1>0, <1>1, <1>2, Drawn DEF Types, DebitRow
  <1>4. \A a \in {creditCap, initialCredits} : Limit(a, from, p) \in Int /\ a <= Limit(a, from, p)
    <2>1. ASSUME NEW a \in Nat PROVE Limit(a, from, p) \in Int /\ a <= Limit(a, from, p)
      <3>1. periodicCredits * (p - from) \in Nat
        BY <1>1, <1>2, LimitMonotone, Numbers
      <3>2. QED BY <2>1, <3>1 DEF Limit
    <2>2. QED BY <2>1, Numbers
  <1>5. CASE members[m] = NoMember
    <2>1. GrantsIn(m, from, p) = {}
      BY <1>0, <1>1, <1>5 DEF Dated, GrantsIn
    <2>2. GrantedIn(m, from, p) = 0
      BY <1>0, <2>1, CountType DEF Types
    <2>3. QED BY <1>1, <1>4, <1>5, <2>2, Numbers
  <1>6. CASE members[m] # NoMember
    <2>0. L \in Nat /\ L <= p /\ members[m].credits \in Nat /\ c <= creditCap
          /\ \A g \in debits : g.member = m => g.period \in Nat /\ g.period <= L
      BY <1>0, <1>1, <1>3, <1>6 DEF Dated
    <2>1. GrantedIn(m, from, p) = GrantedIn(m, from, L) /\ GrantedIn(m, from, L) \in Nat
      BY <1>0, <1>1, <1>2, <2>0, CountBeyond, CountType DEF Types
    <2>2. CASE from <= L
      <3>1. /\ DrawnSince(m, from) <= Limit(creditCap, from, L)
            /\ GrantedIn(m, 0, from - 1) = 0 => DrawnSince(m, from) <= Limit(initialCredits, from, L)
        BY <1>0, <1>1, <1>2, <1>6, <2>0, <2>2 DEF Balanced
      <3>2. \A a \in {creditCap, initialCredits} :
              /\ Limit(a, from, L) \in Int /\ Limit(a, from, p) \in Int
              /\ Limit(a, from, p) = Limit(a, from, L) + periodicCredits * (p - L)
              /\ periodicCredits * (p - L) \in Nat
              /\ (p - L) * periodicCredits = periodicCredits * (p - L)
        <4>1. ASSUME NEW a \in Nat
              PROVE  /\ Limit(a, from, L) \in Int
                     /\ Limit(a, from, p) = Limit(a, from, L) + periodicCredits * (p - L)
                     /\ periodicCredits * (p - L) \in Nat
                     /\ (p - L) * periodicCredits = periodicCredits * (p - L)
          BY <1>1, <1>2, <2>0, <4>1, LimitMonotone
        <4>2. QED BY <4>1, Numbers
      <3>3. c <= members[m].credits + periodicCredits * (p - L)
        BY <1>1, <1>6, <3>2 DEF Accrued
      <3>4. DrawnSince(m, from) = GrantedIn(m, from, L) + members[m].credits
        BY DEF DrawnSince
      <3>5. QED BY <1>1, <2>0, <2>1, <3>1, <3>2, <3>3, <3>4
    <2>3. CASE from > L
      <3>1. GrantsIn(m, from, L) = {}
        BY <1>2, <2>0, <2>3 DEF GrantsIn
      <3>2. GrantedIn(m, from, L) = 0
        BY <1>0, <3>1, CountType DEF Types
      <3>3. GrantsIn(m, 0, from - 1) # {}
        <4>1. PICK g \in debits : g.member = m
          BY <1>0, <1>1, <1>6 DEF Dated
        <4>2. g \in GrantsIn(m, 0, from - 1)
          BY <1>2, <2>0, <2>3, <4>1 DEF GrantsIn
        <4>3. QED BY <4>2
      <3>4. GrantedIn(m, 0, from - 1) # 0
        BY <1>0, <3>3, CountType DEF Types
      <3>5. QED BY <1>1, <1>4, <2>0, <2>1, <3>2, <3>4, Numbers
    <2>4. QED BY <1>2, <2>0, <2>2, <2>3
  <1>7. QED BY <1>5, <1>6

(* The balance of every member, over a step. *)
LEMMA NextBalanced ==
  ASSUME AllowanceInv, [AllocationNext]_allocationVars, NEW m \in Members
  PROVE  Balanced(m)'
  <1>0. Types /\ NoncesOnce /\ Dated /\ Balanced(m)
    BY DEF AllowanceInv
  <1>1. CASE Quiet
    BY <1>0, <1>1 DEF Quiet, Balanced, DrawnSince, Limit, GrantedIn
  <1>2. ASSUME NEW r \in Requests, NEW time \in Readings, NEW done \in Readings, NEW response,
               DebitOf(r, time, done, response)
        PROVE  Balanced(m)'
    <2> DEFINE p == Period(time)
               c == CreditsAt(r.member, time)
    <2>1. /\ r.member \in Members /\ p \in Nat /\ c \in Nat
          /\ members' = [members EXCEPT ![r.member] = [credits |-> c - 1, lastPeriod |-> p]]
      BY <1>0, <1>2, Debited
    <2>2. CASE m = r.member
      <3>1. members'[m].lastPeriod = p /\ members'[m].credits = c - 1
        BY <1>0, <2>1, <2>2 DEF Types
      <3>2. SUFFICES ASSUME NEW from \in 0 .. p
                     PROVE  /\ DrawnSince(m, from)' <= Limit(creditCap, from, p)
                            /\ GrantedIn(m, 0, from - 1)' = 0 =>
                                 DrawnSince(m, from)' <= Limit(initialCredits, from, p)
        BY <3>1 DEF Balanced, Limit
      <3>3. from \in Nat /\ from <= p /\ from - 1 \in Int /\ ~(p <= from - 1)
        BY <2>1
      <3>4. /\ GrantedIn(m, from, p) \in Nat
            /\ GrantedIn(m, from, p)' = GrantedIn(m, from, p) + 1
            /\ GrantedIn(m, 0, from - 1)' = GrantedIn(m, 0, from - 1)
        BY <1>0, <1>2, <2>1, <2>2, <3>3, Drawn
      <3>5. DrawnSince(m, from)' = GrantedIn(m, from, p)' + (c - 1)
        BY <3>1 DEF DrawnSince, GrantedIn
      <3>6. DrawnSince(m, from)' = GrantedIn(m, from, p) + c
        BY <2>1, <3>4, <3>5
      <3>7. /\ GrantedIn(m, from, p) + c <= Limit(creditCap, from, p)
            /\ GrantedIn(m, 0, from - 1) = 0 =>
                GrantedIn(m, from, p) + c <= Limit(initialCredits, from, p)
        BY <1>2, <2>2, DebitBalanced
      <3>8. QED BY <3>4, <3>6, <3>7
    <2>3. CASE m # r.member
      <3>1. members'[m] = members[m]
        BY <2>1, <2>3
      <3>2. ASSUME NEW from \in Int, NEW to \in Int
            PROVE  GrantedIn(m, from, to)' = GrantedIn(m, from, to)
        BY <1>0, <1>2, <2>3, Drawn
      <3>3. ASSUME members[m] # NoMember, NEW from \in 0 .. members[m].lastPeriod
            PROVE  /\ DrawnSince(m, from)' = DrawnSince(m, from)
                   /\ GrantedIn(m, 0, from - 1)' = GrantedIn(m, 0, from - 1)
        <4>1. PICK last \in Int : last = members[m].lastPeriod
          BY <1>0, <3>3 DEF Types, Row
        <4>2. from \in Int /\ from - 1 \in Int
          BY <3>3, <4>1
        <4>3. DrawnSince(m, from)' = GrantedIn(m, from, last)' + members[m].credits
          BY <3>1, <4>1 DEF DrawnSince, GrantedIn
        <4>4. DrawnSince(m, from) = GrantedIn(m, from, last) + members[m].credits
          BY <4>1 DEF DrawnSince
        <4>5. GrantedIn(m, from, last)' = GrantedIn(m, from, last)
          BY <3>2, <4>2
        <4>6. GrantedIn(m, 0, from - 1)' = GrantedIn(m, 0, from - 1)
          BY <3>2, <4>2
        <4>7. QED BY <4>3, <4>4, <4>5, <4>6
      <3>4. QED BY <1>0, <3>1, <3>3 DEF Balanced, Limit
    <2>4. QED BY <2>2, <2>3
  <1>3. QED BY <1>0, <1>1, <1>2, Steps

(* No span holds more than its allowance, over a step: one that ends       *)
(* before the debit's period holds what it held, one that reaches it ends  *)
(* there. *)
LEMMA KeptByNext ==
  ASSUME AllowanceInv, [AllocationNext]_allocationVars, NEW m \in Members, NEW from \in Nat, NEW to \in Nat, from <= to
  PROVE  Kept(m, from, to)'
  <1>0. Types /\ NoncesOnce /\ Dated /\ Kept(m, from, to)
    BY DEF AllowanceInv
  <1>1. CASE Quiet
    BY <1>0, <1>1 DEF Quiet, Kept, Limit, GrantedIn
  <1>2. ASSUME NEW r \in Requests, NEW time \in Readings, NEW done \in Readings, NEW response,
               DebitOf(r, time, done, response)
        PROVE  Kept(m, from, to)'
    <2> DEFINE p == Period(time)
               c == CreditsAt(r.member, time)
    <2>1. p \in Nat /\ c \in Nat /\ 1 <= c
      BY <1>0, <1>2, Debited
    <2>2. /\ GrantedIn(m, 0, from - 1) \in Nat
          /\ GrantedIn(m, 0, from - 1)' = 0 => GrantedIn(m, 0, from - 1) = 0
      <3>1. from - 1 \in Int
        OBVIOUS
      <3>2. GrantedIn(m, 0, from - 1) \in Nat
            /\ GrantedIn(m, 0, from - 1)' \in {GrantedIn(m, 0, from - 1), GrantedIn(m, 0, from - 1) + 1}
        BY <1>0, <1>2, <3>1, Drawn
      <3>3. QED BY <3>2
    <2>3. CASE m # r.member \/ ~(from <= p /\ p <= to)
      <3>1. GrantedIn(m, from, to)' = GrantedIn(m, from, to)
        BY <1>0, <1>2, <2>3, Drawn
      <3>2. QED BY <1>0, <2>2, <3>1 DEF Kept, Limit
    <2>4. CASE m = r.member /\ from <= p /\ p <= to
      <3>1. GrantedIn(m, from, to) = GrantedIn(m, from, p) /\ GrantedIn(m, from, p) \in Nat
        <4>1. \A g \in debits : g.member = m => g.period <= p
          BY <1>0, <1>2, <2>4, Drawn
        <4>2. QED BY <1>0, <2>1, <2>4, <4>1, CountBeyond, CountType DEF Types
      <3>2. GrantedIn(m, from, to)' = GrantedIn(m, from, to) + 1
        BY <1>0, <1>2, <2>4, Drawn
      <3>3. /\ GrantedIn(m, from, p) + c <= Limit(creditCap, from, p)
            /\ GrantedIn(m, 0, from - 1) = 0 =>
                GrantedIn(m, from, p) + c <= Limit(initialCredits, from, p)
        <4>1. from \in 0 .. p
          BY <2>1, <2>4
        <4>2. QED BY <1>2, <2>4, <4>1, DebitBalanced
      <3>4. ASSUME NEW a \in Nat
            PROVE  /\ Limit(a, from, p) \in Int /\ Limit(a, from, to) \in Int
                   /\ Limit(a, from, p) <= Limit(a, from, to)
        <4>1. /\ Limit(a, from, p) \in Int
              /\ Limit(a, from, to) = Limit(a, from, p) + periodicCredits * (to - p)
              /\ periodicCredits * (to - p) \in Nat
          <5>1. p \in Nat /\ p <= to
            BY <2>1, <2>4
          <5> HIDE DEF p
          <5>2. QED BY <5>1, <3>4, Numbers, SMTT(20) DEF Limit
        <4>2. QED BY <4>1
      <3>5. \A a \in Nat : GrantedIn(m, from, p) + c <= Limit(a, from, p) =>
                              GrantedIn(m, from, to)' <= Limit(a, from, to)
        BY <2>1, <3>1, <3>2, <3>4
      <3>6. GrantedIn(m, 0, from - 1)' = 0 =>
              GrantedIn(m, from, to)' <= Limit(initialCredits, from, to)
        BY <2>2, <3>3, <3>5, Numbers
      <3>7. GrantedIn(m, from, to)' <= Limit(creditCap, from, to)
        BY <3>3, <3>5, Numbers
      <3>8. QED BY <3>6, <3>7 DEF Kept, Limit
    <2>5. QED BY <2>3, <2>4
  <1>3. QED BY <1>0, <1>1, <1>2, Steps
-----------------------------------------------------------------------------
(* Nothing is drawn at the start. *)
LEMMA InitAllowance == AllocationInit => AllowanceInv
  <1> SUFFICES ASSUME AllocationInit PROVE AllowanceInv
    OBVIOUS
  <1>1. Types
    BY InitTypes
  <1>2. NoncesOnce /\ Stored /\ Dated /\ \A m \in Members : Balanced(m)
    BY DEF AllocationInit, NoncesOnce, Stored, Dated, Balanced
  <1>3. ASSUME NEW m \in Members, NEW from \in Nat, NEW to \in Nat, from <= to PROVE Kept(m, from, to)
    <2>1. GrantedIn(m, from, to) = 0
      BY <1>1, CountType DEF Types, GrantsIn, AllocationInit
    <2>2. \A a \in Nat : 0 <= Limit(a, from, to)
      BY <1>3, Numbers, SMTT(20) DEF Limit
    <2>3. QED BY <2>1, <2>2, Numbers DEF Kept
  <1>4. QED BY <1>1, <1>2, <1>3 DEF AllowanceInv

(* The invariant, over a step and in every behaviour. *)
LEMMA NextAllowance == AllowanceInv /\ [AllocationNext]_allocationVars => AllowanceInv'
  <1> SUFFICES ASSUME AllowanceInv, [AllocationNext]_allocationVars PROVE AllowanceInv'
    OBVIOUS
  <1>1. Types /\ NoncesOnce /\ Stored /\ Dated
    BY DEF AllowanceInv
  <1>2. Types' /\ NoncesOnce' /\ Stored' /\ Dated'
    BY <1>1, NextTypes, NextNoncesOnce, NextStored, NextDated
  <1>3. QED BY <1>2, NextBalanced, KeptByNext DEF AllowanceInv

(* The invariant holds throughout. *)
LEMMA AllowanceInductive == AllocationSpec => []AllowanceInv
  BY InitAllowance, NextAllowance, PTL DEF AllocationSpec

(* Over any span of periods, whatever bursts, idle time, retries and clock *)
(* readings, a member is granted at most the cap and what the later        *)
(* periods add; from its first grant on, at most what it started with      *)
(* (allocation.rs, credits_at and issue_with). *)
THEOREM AllowanceNeverExceeded == AllocationSpec => []AllowanceKept
  <1>1. AllowanceInv => AllowanceKept
    <2> SUFFICES ASSUME AllowanceInv, NEW m \in Members, NEW from \in Periods, NEW to \in Periods, from <= to
        PROVE  /\ GrantedIn(m, from, to) <= creditCap + periodicCredits * (to - from)
               /\ GrantedIn(m, 0, from - 1) = 0
                    => GrantedIn(m, from, to) <= initialCredits + periodicCredits * (to - from)
      BY DEF AllowanceKept
    <2>1. from \in Nat /\ to \in Nat
      BY PeriodsAreNumbers, Numbers DEF Periods
    <2>2. Kept(m, from, to)
      BY <2>1 DEF AllowanceInv
    <2>3. QED BY <2>2 DEF Kept, Limit
  <1>2. QED BY <1>1, AllowanceInductive, PTL

(* Every signature that leaves, at first or in a retry, was paid for by    *)
(* the reservation of its nonce, which yields no other one and is charged  *)
(* once (permit_issuer.rs, issue inside the ledger's transaction). *)
THEOREM SignaturesPaid == AllocationSpec => []PaidSignatures
  <1>1. AllowanceInv => PaidSignatures
    <2> SUFFICES ASSUME AllowanceInv PROVE PaidSignatures
      OBVIOUS
    <2>0. NoncesOnce /\ Stored
      BY DEF AllowanceInv
    <2>1. ASSUME NEW x \in released
          PROVE  \E v \in PriorOf(x.request) :
                   /\ v.request = x.request /\ v.response = x.signature
                   /\ \E g \in debits : g.member = x.request.member /\ g.nonce = x.request.nonce
      <3>1. PICK v \in reservations : v.request = x.request /\ v.response = x.signature
        BY <2>0 DEF Stored
      <3>2. v \in PriorOf(x.request)
        BY <3>1 DEF PriorOf
      <3>3. QED BY <2>0, <3>1, <3>2 DEF NoncesOnce
    <2>2. ASSUME NEW x \in released, NEW y \in released,
                 x.request.member = y.request.member, x.request.nonce = y.request.nonce
          PROVE  x = y
      <3>1. PICK v \in reservations : v.request = x.request /\ v.response = x.signature
        BY <2>0 DEF Stored
      <3>2. PICK w \in reservations : w.request = y.request /\ w.response = y.signature
        BY <2>0 DEF Stored
      <3>3. v = w
        BY <2>0, <2>2, <3>1, <3>2 DEF NoncesOnce
      <3>4. x.request = y.request /\ x.signature = y.signature
        BY <3>1, <3>2, <3>3
      <3>5. QED BY <2>0, <3>4 DEF Stored
    <2>3. QED BY <2>0, <2>1, <2>2 DEF PaidSignatures, NoncesOnce
  <1>2. QED BY <1>1, AllowanceInductive, PTL
=============================================================================
