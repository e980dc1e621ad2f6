--------------------------- MODULE DiscoveryProofs ---------------------------
(***************************************************************************)
(* Theorems about Discovery, for any members, devices, requests, handlers  *)
(* and limits, with or without late scripts.  Whatever a property forbids, *)
(* the invariant says which row still remembers it, and that the row is    *)
(* kept until the request that could do it has expired.                    *)
(***************************************************************************)
EXTENDS Discovery, FiniteSetTheorems, TLAPS

Lives == {LiveUntil(control, now) : control \in Control, now \in Times} \cup {0}
Bodies == Publications \cup {None}
Handler ==
    [stage : {"committed", "reading", "fetched", "served"}, request : Requests,
     now : Times, revision : Nat, live : Lives, publication : Bodies,
     target : Members, body : Bodies]
LeaseChange == [request : Requests, at : Times]
Charge == [kind : Kinds, request : Requests, at : Times]

TypeOK ==
    /\ scope \in [lastNow : Nat, revision : Nat]
    /\ rows \in [Members -> Row \cup {None}]
    /\ cache \in [Members -> [body : Bodies, live : Lives]]
    /\ DOMAIN handlers = Handlers
    /\ \A h \in Handlers : handlers[h] # None => handlers[h] \in Handler
    /\ delayed \subseteq [member : Members, live : Lives, now : Times, publication : Bodies]
    /\ superseded \subseteq Publications
    /\ leased \in [Members -> [Devices -> LeaseChange \cup {None}]]
    /\ charges \subseteq Charge

(* A revision is given once: the handler that finds its own in the row is  *)
(* the last to have written it. *)
Revisions ==
    /\ \A m \in Members : rows[m] # None => rows[m].revision <= scope.revision
    /\ \A h \in Handlers : handlers[h] # None =>
        /\ handlers[h].revision <= scope.revision
        /\ handlers[h].stage = "committed" /\ RowCurrent(h) =>
            handlers[h].publication
                \in {None, rows[handlers[h].request.member].control.publication}

(* A row has a publication of its member, and outlives it. *)
PublishedBy(m) == {r.publication : r \in {q \in Requests : q.op = "publish" /\ q.member = m}}
Owned ==
    \A m \in Members : rows[m] # None =>
        /\ rows[m].control.publication \in PublishedBy(m) \cup {None}
        /\ rows[m].control.retainUntil >= ExpiryOf(rows[m].control.publication)

(* What is superseded has expired, or the row knows of something newer. *)
Replaced(m, p) ==
    /\ rows[m] # None
    /\ rows[m].control.retainUntil >= p.expires
    /\ SequenceOf(rows[m].control.publication) > p.sequence
Fenced ==
    /\ superseded \cap Current(rows) = {}
    /\ \A p \in superseded :
        \E m \in Members : p \in PublishedBy(m) /\ (p.expires <= scope.lastNow \/ Replaced(m, p))

(* A lease change is remembered while a request signed before it is valid. *)
Remembered(m, d) ==
    LET ends == leased[m][d].at + limits.request
        lease == rows[m].control.leases[d]
    IN  \/ ends <= scope.lastNow
        \/ /\ rows[m] # None /\ rows[m].control.retainUntil >= ends
           /\ lease # None /\ lease.retain >= ends
           /\ lease.sequence = leased[m][d].request.sequence
LeasesRemembered ==
    \A m \in Members, d \in Devices : leased[m][d] # None => Remembered(m, d)

(* What a member was charged in a window is within the quota, and counted  *)
(* in the row until the window has passed. *)
Spent(m, kind, start) ==
    {e \in charges : e.kind = kind /\ e.request.member = m /\ WindowStart(kind, e.at) = start}
Counted(m, kind, start) ==
    LET ends == start + limits.window[kind]
        spent == Spent(m, kind, start)
    IN  /\ IsFiniteSet(spent) /\ Cardinality(spent) <= limits.quota[kind]
        /\ \/ ends <= scope.lastNow
           \/ /\ rows[m] # None /\ rows[m].control.retainUntil >= ends
              /\ rows[m].control.counters[kind].start = start
              /\ Cardinality(spent) <= rows[m].control.counters[kind].used
ChargesCounted ==
    \A c \in charges :
        /\ c.at <= scope.lastNow
        /\ Counted(c.request.member, c.kind, WindowStart(c.kind, c.at))

(* A publication that was paid for is current or has been. *)
PaidKnown ==
    /\ \A c \in charges : c.kind = "publish" =>
        /\ c.request.op = "publish"
        /\ c.request.publication \in superseded \cup Current(rows)
    /\ \A c, e \in charges :
        c.kind = "publish" /\ e.kind = "publish"
            /\ c.request.publication = e.request.publication => c = e

IInv ==
    /\ TypeOK /\ Revisions /\ Owned /\ Fenced
    /\ LeasesRemembered /\ ChargesCounted /\ PaidKnown
-----------------------------------------------------------------------------
(* A set of numbers has a least, and a bounded one a greatest: its Max. *)
LEMMA Least ==
  ASSUME NEW S \in SUBSET Nat, S # {}
  PROVE  \E m \in S : \A t \in S : m <= t
  <1> DEFINE R == OpToRel(<, Nat)
  <1>1. R = {ss \in Nat \X Nat : ss[1] < ss[2]}
    BY DEF OpToRel
  <1>2. IsWellFoundedOn(R, Nat)
    BY NatLessThanWellFounded
  <1> HIDE DEF R
  <1>3. PICK m \in S : \A y \in S : ~ (<<y, m>> \in R)
    BY <1>2, WFMin
  <1>4. ASSUME NEW t \in S PROVE ~(t < m)
    <2>1. t \in Nat /\ m \in Nat /\ ~(<<t, m>> \in R)
      BY <1>3
    <2>2. t < m => <<t, m>> \in {ss \in Nat \X Nat : ss[1] < ss[2]}
      BY <2>1
    <2>3. QED BY <1>1, <2>1, <2>2
  <1>5. QED BY <1>4

LEMMA MaxIs ==
  ASSUME NEW S \in SUBSET Nat, S # {}, NEW b \in Nat, \A x \in S : x <= b
  PROVE  Max(S) \in S /\ \A x \in S : Max(S) >= x
  <1> DEFINE Below == {b - x : x \in S}
  <1>1. Below \in SUBSET Nat /\ Below # {}
    OBVIOUS
  <1>2. PICK n \in Below : \A t \in Below : n <= t
    BY <1>1, Least
  <1>3. PICK m \in S : n = b - m
    BY <1>2
  <1>4. ASSUME NEW x \in S PROVE m >= x
    <2>1. b - m <= b - x
      BY <1>2, <1>3
    <2>2. b \in Nat /\ m \in Nat /\ x \in Nat
      OBVIOUS
    <2>3. QED BY <2>1, <2>2
  <1>5. \E x \in S : \A y \in S : x >= y
    BY <1>4
  <1>6. Max(S) = CHOOSE x \in S : \A y \in S : x >= y
    BY Zenon DEF Max
  <1>7. QED BY <1>5, <1>6

(* Numbers are no more than their sum. *)
LEMMA SumBounds ==
  ASSUME NEW n1 \in Nat, NEW n2 \in Nat, NEW n3 \in Nat, NEW n4 \in Nat, NEW n5 \in Nat
  PROVE  \E b \in Nat : \A x \in {n1, n2, n3, n4, n5} : x <= b
  <1>1. /\ n1 + n2 + n3 + n4 + n5 \in Nat
        /\ \A x \in {n1, n2, n3, n4, n5} : x <= n1 + n2 + n3 + n4 + n5
    OBVIOUS
  <1>2. QED BY <1>1

(* What a request is made of; a publication is an owner's. *)
LEMMA RequestTypes ==
  ASSUME NEW r \in Requests
  PROVE  /\ r.member \in Members /\ r.device \in Devices /\ r.publication \in Bodies
         /\ r.issued \in Nat /\ r.expires \in Nat /\ r.sequence \in Nat /\ r.lease \in Nat
         /\ r.op = "publish" => r.publication \in Publications /\ r.publication # None
         /\ r.op # "publish" => r.publication = None
         /\ r.op = "publish" => r.publication \in PublishedBy(r.member)
         /\ SequenceOf(r.publication) \in Nat /\ ExpiryOf(r.publication) \in Nat
  <1>1. /\ r.member \in Members /\ r.device \in Devices
        /\ r.issued \in Nat /\ r.expires \in Nat /\ r.sequence \in Nat /\ r.lease \in Nat
        /\ r.publication \in (IF r.op = "publish" THEN Publications ELSE {None})
    BY RequestShape
  <1>2. r.publication \in Bodies
    BY <1>1 DEF Bodies
  <1>3. SequenceOf(r.publication) \in Nat /\ ExpiryOf(r.publication) \in Nat
    BY <1>2, RequestShape DEF Bodies, SequenceOf, ExpiryOf
  <1>4. QED BY <1>1, <1>2, <1>3, NoneIsNothing DEF PublishedBy

(* What a member's control is made of. *)
LEMMA ControlTypes ==
  ASSUME NEW control \in Control
  PROVE  /\ control.retainUntil \in Nat /\ control.publication \in Bodies
         /\ control.leases \in [Devices -> Lease \cup {None}]
         /\ control.replay \in SUBSET Requests
         /\ control.counters \in [Kinds -> [start : Nat, used : Nat]]
         /\ SequenceOf(control.publication) \in Nat /\ ExpiryOf(control.publication) \in Nat
  <1>1. /\ control.retainUntil \in Nat /\ control.publication \in Bodies
        /\ control.leases \in [Devices -> Lease \cup {None}]
        /\ control.replay \in SUBSET Requests
        /\ control.counters \in [Kinds -> [start : Nat, used : Nat]]
    BY DEF Control, Bodies
  <1>2. SequenceOf(control.publication) \in Nat /\ ExpiryOf(control.publication) \in Nat
    BY <1>1, RequestShape DEF Bodies, SequenceOf, ExpiryOf
  <1>3. QED BY <1>1, <1>2

(* A time is a number. *)
LEMMA TimeTypes ==
  ASSUME NEW now \in Times
  PROVE  now \in Nat
  BY RequestShape

(* A row stays for what its member may still be held to. *)
LEMMA RetentionIs ==
  ASSUME NEW control \in Control, NEW r \in Requests, NEW now \in Times
  PROVE  /\ Retention(control, r, now) \in Nat
         /\ Retention(control, r, now) >= control.retainUntil
         /\ Retention(control, r, now) >= ExpiryOf(r.publication)
         /\ Retention(control, r, now) >= now + limits.request
         /\ \A k \in Kinds : Retention(control, r, now) >= now + limits.window[k]
  <1> DEFINE W == {limits.window[k] : k \in Kinds} \cup {limits.request, limits.lease}
  <1>1. /\ W \in SUBSET Nat /\ limits.request \in W
        /\ \A k \in Kinds : limits.window[k] \in W
    BY RequestShape
  <1>2. PICK b \in Nat : \A x \in W : x <= b
    <2>1. /\ limits.window["publish"] \in Nat /\ limits.window["discriminate"] \in Nat
          /\ limits.window["read"] \in Nat /\ limits.request \in Nat /\ limits.lease \in Nat
      BY RequestShape DEF Kinds
    <2>2. W = {limits.window["publish"], limits.window["discriminate"],
               limits.window["read"], limits.request, limits.lease}
      BY DEF Kinds
    <2> HIDE DEF W
    <2>3. QED BY <2>1, <2>2, SumBounds
  <1>3. LongestWindow = Max(W)
    BY DEF LongestWindow
  <1> HIDE DEF W
  <1>4. LongestWindow \in W /\ \A x \in W : LongestWindow >= x
    BY <1>1, <1>2, <1>3, MaxIs
  <1>5. /\ LongestWindow \in Nat /\ LongestWindow >= limits.request
        /\ \A k \in Kinds : LongestWindow >= limits.window[k]
    BY <1>1, <1>4
  <1>6. /\ control.retainUntil \in Nat /\ now \in Nat /\ ExpiryOf(r.publication) \in Nat
        /\ r.lease \in Nat /\ limits.request \in Nat
        /\ \A k \in Kinds : limits.window[k] \in Nat
    <2>1. control.retainUntil \in Nat
      BY ControlTypes
    <2>2. ExpiryOf(r.publication) \in Nat /\ r.lease \in Nat
      BY RequestTypes
    <2>3. now \in Nat /\ limits.request \in Nat
      BY RequestShape
    <2>4. \A k \in Kinds : limits.window[k] \in Nat
      BY RequestShape
    <2>5. QED BY <2>1, <2>2, <2>3, <2>4
  <1> DEFINE T == {control.retainUntil, now + LongestWindow, ExpiryOf(r.publication)}
        \cup (IF r.op \in {"publish", "heartbeat"} THEN {r.lease} ELSE {})
  <1>7. T \in SUBSET Nat
    BY <1>5, <1>6
  <1>8. /\ control.retainUntil \in T /\ now + LongestWindow \in T
        /\ ExpiryOf(r.publication) \in T
    OBVIOUS
  <1>9. PICK n \in Nat : \A x \in T : x <= n
    <2>1. \A x \in T : x \in {control.retainUntil, now + LongestWindow,
                              ExpiryOf(r.publication), r.lease, 0}
      OBVIOUS
    <2>2. now + LongestWindow \in Nat
      BY <1>5, <1>6
    <2>3. PICK n \in Nat : \A x \in {control.retainUntil, now + LongestWindow,
                                     ExpiryOf(r.publication), r.lease, 0} : x <= n
      BY <1>6, <2>2, SumBounds
    <2>4. QED BY <2>1, <2>3
  <1>10. Retention(control, r, now) = Max(T)
    BY DEF Retention
  <1> HIDE DEF T
  <1>11. Retention(control, r, now) \in T /\ \A x \in T : Retention(control, r, now) >= x
    BY <1>7, <1>8, <1>9, <1>10, MaxIs
  <1>12. /\ Retention(control, r, now) \in Nat
         /\ Retention(control, r, now) >= now + LongestWindow
         /\ Retention(control, r, now) >= control.retainUntil
         /\ Retention(control, r, now) >= ExpiryOf(r.publication)
    BY <1>7, <1>8, <1>11
  <1>13. QED BY <1>5, <1>6, <1>12

(* A time is in one window, which began by then and ends after it. *)
LEMMA WindowIs ==
  ASSUME NEW k \in Kinds, NEW at \in Nat, NEW now \in Nat, at <= now
  PROVE  /\ WindowStart(k, at) \in Nat /\ WindowStart(k, at) <= at
         /\ at < WindowStart(k, at) + limits.window[k]
         /\ \/ WindowStart(k, at) + limits.window[k] <= now
            \/ WindowStart(k, now) = WindowStart(k, at)
  <1> DEFINE W == limits.window[k]
  <1>1. W \in Nat /\ W > 0
    BY RequestShape
  <1>2. WindowStart(k, at) = at - (at % W) /\ WindowStart(k, now) = now - (now % W)
    BY DEF WindowStart
  <1> HIDE DEF W
  <1>3. at - (at % W) \in Nat /\ at - (at % W) <= at /\ at < at - (at % W) + W
    BY <1>1, SMTT(20)
  <1>4. now < at - (at % W) + W => now - (now % W) = at - (at % W)
    <2>1. at = W * (at \div W) + (at % W) /\ 0 <= at % W /\ at % W < W /\ at \div W \in Int
      BY <1>1, SMTT(20)
    <2>2. now = W * (now \div W) + (now % W) /\ 0 <= now % W /\ now % W < W /\ now \div W \in Int
      BY <1>1, SMTT(20)
    <2> DEFINE q == at \div W
               p == now \div W
    <2>3. SUFFICES ASSUME now < W * q + W, W * q <= now PROVE p = q
      BY <1>1, <2>1, <2>2
    <2> HIDE DEF q, p
    <2>4. W * p <= now /\ now < W * p + W /\ p \in Int /\ q \in Int
      BY <1>1, <2>1, <2>2 DEF p, q
    <2>5. ~(p >= q + 1)
      BY <1>1, <2>3, <2>4, SMTT(20)
    <2>6. ~(q >= p + 1)
      BY <1>1, <2>3, <2>4, SMTT(20)
    <2>7. QED BY <2>4, <2>5, <2>6
  <1>5. QED BY <1>1, <1>2, <1>3, <1>4 DEF W
-----------------------------------------------------------------------------
(* The row a transaction finds is the one that has not expired. *)
Alive(m, now) == rows[m] # None /\ rows[m].control.retainUntil > now

LEMMA RowTypes ==
  ASSUME TypeOK, NEW m \in Members, rows[m] # None
  PROVE  rows[m] \in Row /\ rows[m].revision \in Nat /\ rows[m].control \in Control
  BY DEF TypeOK, Row

LEMMA FreshTypes == Fresh \in Control
  <1>1. /\ Fresh.leases \in [Devices -> Lease \cup {None}]
        /\ Fresh.counters \in [Kinds -> [start : Nat, used : Nat]]
    BY DEF Fresh
  <1>2. QED BY <1>1 DEF Fresh, Control

(* The control a transaction starts from: the row's, or none. *)
LEMMA ControlIs ==
  ASSUME TypeOK, NEW m \in Members, NEW now \in Times
  PROVE  /\ ControlOf(m, now) \in Control
         /\ Alive(m, now) =>
              LET c == rows[m].control
              IN  /\ ControlOf(m, now).publication = c.publication
                  /\ ControlOf(m, now).retainUntil = c.retainUntil
                  /\ ControlOf(m, now).counters = c.counters
                  /\ \A d \in Devices : c.leases[d] # None /\ c.leases[d].retain > now =>
                        ControlOf(m, now).leases[d] = c.leases[d]
         /\ ~Alive(m, now) => ControlOf(m, now) = Fresh
  <1>1. ~Alive(m, now) => ControlOf(m, now) = Fresh
    BY DEF Alive, ControlOf, Unexpired
  <1>2. CASE ~Alive(m, now)
    BY <1>1, <1>2, FreshTypes
  <1>3. CASE Alive(m, now)
    <2> DEFINE c == rows[m].control
               R == {q \in c.replay : q.expires > now}
               L == [d \in Devices |->
                IF d \in Held(c) /\ LeaseRetained(c.leases[d], now) THEN c.leases[d] ELSE None]
               p == Prune(c, now)
    <2>1. rows[m] # None /\ c \in Control
      BY <1>3, RowTypes DEF Alive
    <2>2. Unexpired(now)[m] = rows[m]
      BY <1>3 DEF Alive, Unexpired
    <2>3. ControlOf(m, now) = p
      BY <2>1, <2>2 DEF ControlOf
    <2> HIDE DEF c
    <2>4. /\ p.retainUntil = c.retainUntil /\ p.publication = c.publication
          /\ p.counters = c.counters
          /\ p.replay = R /\ p.leases = L
          /\ p = [retainUntil |-> p.retainUntil, leases |-> p.leases, replay |-> p.replay,
                  counters |-> p.counters, publication |-> p.publication]
      <3>1. p = [c EXCEPT !.replay = R, !.leases = L]
        BY DEF Prune
      <3> HIDE DEF p, R, L
      <3>2. c = [retainUntil |-> c.retainUntil, leases |-> c.leases, replay |-> c.replay,
                 counters |-> c.counters, publication |-> c.publication]
        BY <2>1 DEF Control
      <3>3. p = [retainUntil |-> c.retainUntil, leases |-> L, replay |-> R,
                 counters |-> c.counters, publication |-> c.publication]
        BY <3>1, <3>2
      <3>4. QED BY <3>3
    <2> HIDE DEF p
    <2>5. p.leases \in [Devices -> Lease \cup {None}]
      BY <2>1, <2>4, ControlTypes DEF Held
    <2>6. p.replay \in SUBSET Requests
      BY <2>1, <2>4, ControlTypes
    <2>7. p \in Control
      BY <2>1, <2>4, <2>5, <2>6 DEF Control
    <2>8. \A d \in Devices : c.leases[d] # None /\ c.leases[d].retain > now =>
            p.leases[d] = c.leases[d]
      BY <2>4 DEF Held, LeaseRetained
    <2>9. QED BY <1>3, <2>3, <2>4, <2>7, <2>8 DEF c
  <1>4. QED BY <1>2, <1>3

(* The later of two times. *)
LEMMA LaterOf ==
  ASSUME NEW t \in Nat, NEW u \in Nat
  PROVE  Max({t, u}) \in Nat /\ Max({t, u}) >= t /\ Max({t, u}) >= u
  <1>1. {t, u} \in SUBSET Nat /\ t + u \in Nat /\ \A x \in {t, u} : x <= t + u
    OBVIOUS
  <1>2. Max({t, u}) \in {t, u} /\ \A x \in {t, u} : Max({t, u}) >= x
    BY <1>1, MaxIs
  <1>3. QED BY <1>2

(* The lease a write leaves is its own, for as long as it may matter. *)
LEMMA NewLeaseIs ==
  ASSUME NEW control \in Control, NEW r \in Requests, NEW now \in Times,
         r.op \in Writes, LeaseMoves(control, r)
  PROVE  LET lease == NewLeases(control, r, now)[r.device]
         IN  /\ lease \in Lease /\ lease # None
             /\ lease.sequence = r.sequence /\ lease.retain >= now + limits.request
             /\ \A d \in Devices \ {r.device} :
                  NewLeases(control, r, now)[d] = control.leases[d]
             /\ NewLeases(control, r, now) \in [Devices -> Lease \cup {None}]
             /\ control.leases[r.device] # None =>
                  control.leases[r.device].sequence < r.sequence
  <1> DEFINE held == control.leases[r.device]
             kept == IF r.op = "disconnect" THEN held.retain ELSE r.lease
             ends == IF r.op = "disconnect" THEN now ELSE r.lease
             until == Max({kept, now + limits.request})
             new == [session |-> r.session, sequence |-> r.sequence, expires |-> ends,
                     retain |-> until]
  <1>1. r.device \in Devices /\ r.lease \in Nat /\ r.sequence \in Nat
    BY RequestTypes
  <1>2. now \in Nat /\ now + limits.request \in Nat
    BY RequestShape
  <1>3. control.leases \in [Devices -> Lease \cup {None}]
    BY ControlTypes
  <1>4. r.op = "disconnect" => held \in Lease /\ held.sequence < r.sequence
    BY <1>1, <1>3 DEF LeaseMoves
  <1>5. r.op # "disconnect" => r.op \in {"publish", "heartbeat"}
    BY DEF Writes
  <1>6. held # None => held.sequence < r.sequence
    BY <1>4, <1>5 DEF LeaseMoves
  <1>7. kept \in Nat /\ ends \in Nat
    BY <1>1, <1>2, <1>4 DEF Lease
  <1>8. until \in Nat /\ until >= now + limits.request
    <2> HIDE DEF kept
    <2>1. QED BY <1>2, <1>7, LaterOf
  <1>9. NewLeases(control, r, now) = [control.leases EXCEPT ![r.device] = new]
    BY DEF NewLeases
  <1> HIDE DEF until, ends
  <1>10. new \in Lease
    BY <1>1, <1>7, <1>8 DEF Lease
  <1>11. new # None
    BY <1>10, NoneIsNothing
  <1>12. new.sequence = r.sequence /\ new.retain >= now + limits.request
    BY <1>8
  <1> HIDE DEF new
  <1>13. /\ NewLeases(control, r, now)[r.device] = new
         /\ \A d \in Devices \ {r.device} : NewLeases(control, r, now)[d] = control.leases[d]
         /\ NewLeases(control, r, now) \in [Devices -> Lease \cup {None}]
    BY <1>1, <1>3, <1>9, <1>10
  <1>14. QED BY <1>6, <1>10, <1>11, <1>12, <1>13

(* What an accepted request makes of a control. *)
LEMMA ChangeIs ==
  ASSUME NEW control \in Control, NEW r \in Requests, NEW now \in Times,
         Acceptable(control, r, now)
  PROVE  LET new == Change(control, r, now)
         IN  /\ new \in Control
             /\ new.retainUntil = Retention(control, r, now)
             /\ new.leases = NewLeases(control, r, now)
             /\ new.publication =
                  IF r.op = "publish" THEN r.publication ELSE control.publication
             /\ \A k \in Kinds : new.counters[k] =
                  IF k \in Debits(control, r)
                  THEN Take(control.counters[k], WindowStart(k, now))
                  ELSE control.counters[k]
  <1> DEFINE new == Change(control, r, now)
             counters == [k \in Kinds |->
                IF k \in Debits(control, r) THEN Take(control.counters[k], WindowStart(k, now))
                                            ELSE control.counters[k]]
             publication == IF r.op = "publish" THEN r.publication ELSE control.publication
  <1>1. new = [retainUntil |-> Retention(control, r, now),
               leases |-> NewLeases(control, r, now), replay |-> control.replay \cup {r},
               counters |-> counters, publication |-> publication]
    BY DEF Change
  <1>2. NewLeases(control, r, now) \in [Devices -> Lease \cup {None}]
    <2>1. CASE r.op \in Writes
      BY <2>1, NewLeaseIs DEF Acceptable
    <2>2. CASE r.op \notin Writes
      BY <2>2, ControlTypes DEF NewLeases
    <2>3. QED BY <2>1, <2>2
  <1>3. counters \in [Kinds -> [start : Nat, used : Nat]]
    <2>1. ASSUME NEW k \in Kinds
          PROVE  Take(control.counters[k], WindowStart(k, now)) \in [start : Nat, used : Nat]
      <3>1. control.counters[k] \in [start : Nat, used : Nat]
        BY <2>1, ControlTypes
      <3>2. WindowStart(k, now) \in Nat
        BY <2>1, TimeTypes, WindowIs
      <3>3. QED BY <3>1, <3>2 DEF Take
    <2>2. control.counters \in [Kinds -> [start : Nat, used : Nat]]
      BY ControlTypes
    <2>3. QED BY <2>1, <2>2
  <1>4. publication \in Bodies
    BY RequestTypes, ControlTypes
  <1>5. control.replay \cup {r} \in SUBSET Requests
    BY ControlTypes
  <1>6. Retention(control, r, now) \in Nat
    BY RetentionIs
  <1>7. \A k \in Kinds : counters[k] =
          IF k \in Debits(control, r) THEN Take(control.counters[k], WindowStart(k, now))
                                      ELSE control.counters[k]
    OBVIOUS
  <1> HIDE DEF new, counters
  <1>8. new \in Control
    BY <1>1, <1>2, <1>3, <1>4, <1>5, <1>6 DEF Control, Bodies
  <1>9. /\ new.retainUntil = Retention(control, r, now)
        /\ new.leases = NewLeases(control, r, now) /\ new.publication = publication
        /\ new.counters = counters
    BY <1>1
  <1>10. QED BY <1>7, <1>8, <1>9 DEF new

(* What a transaction does, accepted or retried. *)
LEMMA CommitIs ==
  ASSUME TypeOK, NEW h \in Handlers, NEW r \in Requests, NEW now \in Times,
         NEW control \in Control, NEW publication \in Bodies,
         Commit(h, r, now, control, publication)
  PROVE  /\ scope' = [lastNow |-> now, revision |-> scope.revision + 1]
         /\ rows' \in [Members -> Row \cup {None}]
         /\ rows'[r.member] # None
         /\ rows'[r.member].revision = scope.revision + 1
         /\ rows'[r.member].control = control
         /\ \A m \in Members \ {r.member} :
              rows'[m] = IF Alive(m, now) THEN rows[m] ELSE None
         /\ superseded' = superseded \cup ((Current(rows) \ Current(rows')) \ {None})
         /\ DOMAIN handlers' = Handlers
         /\ \A g \in Handlers \ {h} : handlers'[g] = handlers[g]
         /\ handlers'[h] \in Handler
         /\ handlers'[h].request = r /\ handlers'[h].publication = publication
         /\ handlers'[h].revision = scope.revision + 1
         /\ handlers'[h].stage \in {"committed", "reading"}
         /\ UNCHANGED <<cache, delayed>>
  <1> DEFINE m == r.member
             row == [revision |-> scope.revision + 1, control |-> control]
             handler == [stage |-> IF r.op \in Writes THEN "committed" ELSE "reading",
                 request |-> r, now |-> now, revision |-> scope.revision + 1,
                 live |-> LiveUntil(control, now), publication |-> publication,
                 target |-> m, body |-> None]
  <1>1. m \in Members /\ scope.revision + 1 \in Nat
    BY RequestTypes DEF TypeOK
  <1>2. /\ scope' = [lastNow |-> now, revision |-> scope.revision + 1]
        /\ rows' = [Unexpired(now) EXCEPT ![m] = row]
        /\ handlers' = [handlers EXCEPT ![h] = handler]
        /\ UNCHANGED <<cache, delayed>>
    BY DEF Commit, NextRevision
  <1>3. superseded' = superseded \cup ((Current(rows) \ Current(rows')) \ {None})
    <2>1. superseded' = superseded \cup
            ((Current(rows) \ Current([Unexpired(now) EXCEPT ![m] = row])) \ {None})
      BY DEF Commit, NextRevision
    <2>2. Current(rows') = Current([Unexpired(now) EXCEPT ![m] = row])
      BY <1>2
    <2>3. QED BY <2>1, <2>2
  <1>4. LiveUntil(control, now) \in Lives
    BY DEF Lives
  <1>5. handler \in Handler
    BY <1>1, <1>4 DEF Handler, Bodies
  <1>6. /\ handler.request = r /\ handler.publication = publication
        /\ handler.revision = scope.revision + 1
        /\ handler.stage \in {"committed", "reading"}
    OBVIOUS
  <1>7. row \in Row /\ row.revision = scope.revision + 1 /\ row.control = control
    BY <1>1 DEF Row
  <1>8. Unexpired(now) \in [Members -> Row \cup {None}]
    BY DEF TypeOK, Unexpired
  <1>9. \A n \in Members : Unexpired(now)[n] = IF Alive(n, now) THEN rows[n] ELSE None
    BY DEF Unexpired, Alive
  <1> HIDE DEF handler, row
  <1>10. /\ DOMAIN handlers' = Handlers /\ handlers'[h] = handler
         /\ \A g \in Handlers \ {h} : handlers'[g] = handlers[g]
    BY <1>2 DEF TypeOK
  <1>11. /\ rows' \in [Members -> Row \cup {None}] /\ rows'[m] = row
         /\ \A n \in Members \ {m} : rows'[n] = IF Alive(n, now) THEN rows[n] ELSE None
    BY <1>1, <1>2, <1>7, <1>8, <1>9
  <1>12. row # None
    BY <1>7, NoneIsNothing
  <1>13. QED BY <1>2, <1>3, <1>5, <1>6, <1>7, <1>10, <1>11, <1>12

(* The facts every proof about an accepted or a retried request starts from. *)
LEMMA AuthorizeIs ==
  ASSUME TypeOK, NEW h \in Handlers, NEW r \in Requests, NEW now \in Times,
         Authorize(h, r, now) \/ AuthorizeRetry(h, r, now)
  PROVE  LET m == r.member
             control == ControlOf(m, now)
         IN  /\ control \in Control /\ m \in Members
             /\ handlers[h] = None /\ scope.lastNow <= now /\ Verified(r, now)
             /\ Authorize(h, r, now) =>
                  /\ Acceptable(control, r, now)
                  /\ Commit(h, r, now, Change(control, r, now), r.publication)
             /\ AuthorizeRetry(h, r, now) =>
                  /\ Alive(m, now)
                  /\ Commit(h, r, now, control,
                       IF r.publication = control.publication THEN r.publication ELSE None)
                  /\ UNCHANGED <<charges, leased>>
  <1>1. r.member \in Members
    BY RequestTypes
  <1>2. ControlOf(r.member, now) \in Control
    BY <1>1, ControlIs
  <1>3. handlers[h] = None /\ scope.lastNow <= now /\ Verified(r, now)
    BY DEF Authorize, AuthorizeRetry, Admissible
  <1>4. Authorize(h, r, now) =>
          /\ Acceptable(ControlOf(r.member, now), r, now)
          /\ Commit(h, r, now, Change(ControlOf(r.member, now), r, now), r.publication)
    BY DEF Authorize
  <1>5. AuthorizeRetry(h, r, now) =>
          /\ Exact(ControlOf(r.member, now), r)
          /\ Commit(h, r, now, ControlOf(r.member, now),
               IF r.publication = ControlOf(r.member, now).publication
               THEN r.publication ELSE None)
          /\ UNCHANGED <<charges, leased>>
    BY DEF AuthorizeRetry
  <1>6. ~Exact(Fresh, r)
    BY DEF Exact, Fresh
  <1>7. Exact(ControlOf(r.member, now), r) => Alive(r.member, now)
    BY <1>1, <1>6, ControlIs
  <1>8. QED BY <1>1, <1>2, <1>3, <1>4, <1>5, <1>7

(* A transaction leaves its member a row that replaces no publication but   *)
(* by a newer one, and stays as long; every other row is as it was, or     *)
(* deleted as expired. *)
LEMMA TransactionIs ==
  ASSUME TypeOK, NEW h \in Handlers, NEW r \in Requests, NEW now \in Times,
         Authorize(h, r, now) \/ AuthorizeRetry(h, r, now)
  PROVE  LET m == r.member
             old == ControlOf(m, now)
             new == rows'[m].control
         IN  /\ m \in Members /\ old \in Control /\ new \in Control
             /\ rows' \in [Members -> Row \cup {None}]
             /\ rows'[m] # None /\ rows'[m].revision = scope.revision + 1
             /\ \A n \in Members \ {m} : rows'[n] = IF Alive(n, now) THEN rows[n] ELSE None
             /\ scope' = [lastNow |-> now, revision |-> scope.revision + 1]
             /\ superseded' = superseded \cup ((Current(rows) \ Current(rows')) \ {None})
             /\ handlers[h] = None /\ DOMAIN handlers' = Handlers
             /\ \A g \in Handlers \ {h} : handlers'[g] = handlers[g]
             /\ handlers'[h] \in Handler /\ handlers'[h].request = r
             /\ handlers'[h].revision = scope.revision + 1
             /\ handlers'[h].stage \in {"committed", "reading"}
             /\ handlers'[h].publication \in {None, new.publication}
             /\ UNCHANGED <<cache, delayed>>
             /\ new.retainUntil >= old.retainUntil
             /\ \/ new.publication = old.publication
                \/ /\ r.op = "publish" /\ new.publication = r.publication
                   /\ r.publication.sequence > SequenceOf(old.publication)
                   /\ now < r.publication.expires
                   /\ new.retainUntil >= r.publication.expires
  <1> DEFINE m == r.member
             old == ControlOf(m, now)
  <1>1. old \in Control /\ m \in Members /\ handlers[h] = None /\ Verified(r, now)
    BY AuthorizeIs
  <1>2. r.publication \in Bodies
    BY RequestTypes
  <1>3. CASE Authorize(h, r, now)
    <2> DEFINE new == Change(old, r, now)
    <2>1. /\ Acceptable(old, r, now)
          /\ Commit(h, r, now, new, r.publication)
      BY <1>3, AuthorizeIs
    <2>2. /\ new \in Control
          /\ new.retainUntil = Retention(old, r, now)
          /\ new.publication = IF r.op = "publish" THEN r.publication ELSE old.publication
      BY <1>1, <2>1, ChangeIs
    <2>3. r.op = "publish" =>
            \/ r.publication.sequence > SequenceOf(old.publication)
            \/ r.publication = old.publication
      BY <2>1 DEF Acceptable, Supersedes
    <2>4. /\ Retention(old, r, now) >= old.retainUntil
          /\ Retention(old, r, now) >= ExpiryOf(r.publication)
      BY <1>1, RetentionIs
    <2>5. r.op = "publish" => now < r.publication.expires
      BY <1>1 DEF Verified
    <2>6. r.op = "publish" => ExpiryOf(r.publication) = r.publication.expires
      BY RequestTypes DEF ExpiryOf
    <2>7. r.publication \in {None, new.publication}
      BY <2>2, RequestTypes
    <2> HIDE DEF new, old
    <2>8. rows'[m].control = new
      BY <1>2, <2>1, <2>2, CommitIs
    <2>9. /\ new.retainUntil >= old.retainUntil
          /\ \/ new.publication = old.publication
             \/ /\ r.op = "publish" /\ new.publication = r.publication
                /\ r.publication.sequence > SequenceOf(old.publication)
                /\ now < r.publication.expires
                /\ new.retainUntil >= r.publication.expires
      BY <2>2, <2>3, <2>4, <2>5, <2>6
    <2>10. /\ rows' \in [Members -> Row \cup {None}]
           /\ rows'[m] # None /\ rows'[m].revision = scope.revision + 1
           /\ \A n \in Members \ {m} : rows'[n] = IF Alive(n, now) THEN rows[n] ELSE None
           /\ scope' = [lastNow |-> now, revision |-> scope.revision + 1]
           /\ superseded' = superseded \cup ((Current(rows) \ Current(rows')) \ {None})
           /\ DOMAIN handlers' = Handlers
           /\ \A g \in Handlers \ {h} : handlers'[g] = handlers[g]
           /\ handlers'[h] \in Handler /\ handlers'[h].request = r
           /\ handlers'[h].revision = scope.revision + 1
           /\ handlers'[h].stage \in {"committed", "reading"}
           /\ handlers'[h].publication = r.publication
           /\ UNCHANGED <<cache, delayed>>
      BY <1>2, <2>1, <2>2, CommitIs
    <2>11. QED BY <1>1, <2>2, <2>7, <2>8, <2>9, <2>10 DEF old
  <1>4. CASE AuthorizeRetry(h, r, now)
    <2> DEFINE publication == IF r.publication = old.publication THEN r.publication ELSE None
    <2>1. Commit(h, r, now, old, publication)
      BY <1>4, AuthorizeIs
    <2>2. publication \in Bodies /\ publication \in {None, old.publication}
      BY <1>2 DEF Bodies
    <2> HIDE DEF publication, old
    <2>3. rows'[m].control = old
      BY <1>1, <2>1, <2>2, CommitIs
    <2>4. /\ rows' \in [Members -> Row \cup {None}]
          /\ rows'[m] # None /\ rows'[m].revision = scope.revision + 1
          /\ \A n \in Members \ {m} : rows'[n] = IF Alive(n, now) THEN rows[n] ELSE None
          /\ scope' = [lastNow |-> now, revision |-> scope.revision + 1]
          /\ superseded' = superseded \cup ((Current(rows) \ Current(rows')) \ {None})
          /\ DOMAIN handlers' = Handlers
          /\ \A g \in Handlers \ {h} : handlers'[g] = handlers[g]
          /\ handlers'[h] \in Handler /\ handlers'[h].request = r
          /\ handlers'[h].revision = scope.revision + 1
          /\ handlers'[h].stage \in {"committed", "reading"}
          /\ handlers'[h].publication = publication
          /\ UNCHANGED <<cache, delayed>>
      BY <1>1, <2>1, <2>2, CommitIs
    <2>5. old.retainUntil \in Nat
      BY <1>1, ControlTypes
    <2>6. QED BY <1>1, <2>2, <2>3, <2>4, <2>5 DEF old
  <1>5. QED BY <1>3, <1>4

(* What the steps that are not transactions leave alone. *)
LEMMA OtherSteps ==
  ASSUME TypeOK, [Next]_vars,
         ~ \E h \in Handlers, r \in Requests, now \in Times :
             Authorize(h, r, now) \/ AuthorizeRetry(h, r, now)
  PROVE  UNCHANGED <<scope, rows, superseded, leased, charges>>
  <1>1. CASE UNCHANGED vars
    BY <1>1 DEF vars
  <1>2. ASSUME NEW h \in Handlers, Apply(h) \/ TimeOut(h) \/ Serve(h) \/ Continue(h) \/ Finish(h)
        PROVE  UNCHANGED <<scope, rows, superseded, leased, charges>>
    BY <1>2 DEF Apply, TimeOut, Serve, Continue, Finish, history
  <1>3. ASSUME NEW h \in Handlers, NEW m \in Members, Fetch(h, m) \/ CleanUp(h, m)
        PROVE  UNCHANGED <<scope, rows, superseded, leased, charges>>
    BY <1>3 DEF Fetch, CleanUp, history
  <1>4. ASSUME NEW script \in delayed, RunLate(script)
        PROVE  UNCHANGED <<scope, rows, superseded, leased, charges>>
    BY <1>4 DEF RunLate, history
  <1>5. ASSUME NEW m \in Members, Evict(m)
        PROVE  UNCHANGED <<scope, rows, superseded, leased, charges>>
    BY <1>5 DEF Evict, history
  <1>6. QED BY <1>1, <1>2, <1>3, <1>4, <1>5 DEF Next
-----------------------------------------------------------------------------
LEMMA InitInv == Init => IInv
  <1> SUFFICES ASSUME Init PROVE IInv
    OBVIOUS
  <1>1. TypeOK
    BY DEF Init, TypeOK, NotCached, Bodies, Lives
  <1>2. Current(rows) = {}
    BY DEF Init, Current
  <1>3. Revisions
    BY DEF Init, Revisions
  <1>4. Owned
    BY DEF Init, Owned
  <1>5. Fenced
    BY <1>2 DEF Init, Fenced
  <1>6. LeasesRemembered
    BY DEF Init, LeasesRemembered
  <1>7. ChargesCounted /\ PaidKnown
    BY DEF Init, ChargesCounted, PaidKnown
  <1>8. QED BY <1>1, <1>3, <1>4, <1>5, <1>6, <1>7 DEF IInv

(* The fields of a handler and of a cached entry. *)
LEMMA HandlerTypes ==
  ASSUME TypeOK, NEW h \in Handlers, handlers[h] # None
  PROVE  /\ handlers[h] \in Handler
         /\ handlers[h].request \in Requests /\ handlers[h].request.member \in Members
         /\ handlers[h].revision \in Nat /\ handlers[h].now \in Times
         /\ handlers[h].publication \in Bodies /\ handlers[h].live \in Lives
         /\ handlers[h].target \in Members
  <1>1. handlers[h] \in Handler
    BY DEF TypeOK
  <1>2. handlers[h].request \in Requests
    BY <1>1 DEF Handler
  <1>3. handlers[h].request.member \in Members
    BY <1>2, RequestTypes
  <1>4. QED BY <1>1, <1>2, <1>3 DEF Handler

LEMMA ScriptTypes ==
  ASSUME TypeOK, NEW h \in Handlers, handlers[h] # None
  PROVE  Script(h) \in [member : Members, live : Lives, now : Times, publication : Bodies]
  BY HandlerTypes DEF Script

(* What a script leaves in the cache. *)
LEMMA RunIs ==
  ASSUME TypeOK,
         NEW script \in [member : Members, live : Lives, now : Times, publication : Bodies],
         Run(script)
  PROVE  /\ cache' \in [Members -> [body : Bodies, live : Lives]]
         /\ \A m \in Members :
              cache'[m].body \in {None, cache[m].body}
                \cup (IF m = script.member THEN {script.publication} ELSE {})
  <1> DEFINE m == script.member
             entry == Committed(cache[m], script)
  <1>1. /\ m \in Members /\ script.live \in Lives /\ script.publication \in Bodies
        /\ cache \in [Members -> [body : Bodies, live : Lives]]
    BY DEF TypeOK
  <1>2. cache[m].body \in Bodies /\ None \in Bodies /\ 0 \in Lives
    BY <1>1 DEF Bodies, Lives
  <1>3. /\ entry \in [body : Bodies, live : Lives]
        /\ entry.body \in {None, cache[m].body, script.publication}
    BY <1>1, <1>2 DEF Committed, NotCached
  <1>4. cache' = [cache EXCEPT ![m] = entry]
    BY DEF Run
  <1> HIDE DEF entry, m
  <1>5. /\ cache' \in [Members -> [body : Bodies, live : Lives]]
        /\ cache'[m] = entry /\ \A n \in Members \ {m} : cache'[n] = cache[n]
    BY <1>1, <1>3, <1>4
  <1>6. QED BY <1>3, <1>5 DEF m

LEMMA EvictTypes ==
  ASSUME TypeOK, NEW m \in Members,
         \/ cache' = [cache EXCEPT ![m].body = None] \/ cache' = [cache EXCEPT ![m].live = 0]
  PROVE  /\ cache' \in [Members -> [body : Bodies, live : Lives]]
         /\ \A n \in Members : cache'[n].body \in {None, cache[n].body}
  <1>1. cache \in [Members -> [body : Bodies, live : Lives]]
    BY DEF TypeOK
  <1>2. None \in Bodies /\ 0 \in Lives
    BY DEF Bodies, Lives
  <1> DEFINE entry == cache[m]
  <1>3. PICK new \in [body : Bodies, live : Lives] :
          cache' = [cache EXCEPT ![m] = new] /\ new.body \in {None, cache[m].body}
    <2>1. entry \in [body : Bodies, live : Lives]
      BY <1>1
    <2> HIDE DEF entry
    <2>2. /\ [entry EXCEPT !.body = None] \in [body : Bodies, live : Lives]
          /\ [entry EXCEPT !.body = None].body = None
          /\ [entry EXCEPT !.live = 0] \in [body : Bodies, live : Lives]
          /\ [entry EXCEPT !.live = 0].body = entry.body
      BY <1>2, <2>1
    <2>3. \/ cache' = [cache EXCEPT ![m] = [entry EXCEPT !.body = None]]
          \/ cache' = [cache EXCEPT ![m] = [entry EXCEPT !.live = 0]]
      BY <1>1 DEF entry
    <2>4. QED BY <2>2, <2>3 DEF entry
  <1>4. QED BY <1>1, <1>3

(* The steps that change a handler make it stop or go on as it was. *)
LEMMA HandlerSteps ==
  ASSUME TypeOK, NEW h \in Handlers,
         \/ handlers' = [handlers EXCEPT ![h] = None]
         \/ /\ handlers[h] # None
            /\ \/ Serve(h) \/ Continue(h)
               \/ \E m \in Members : Fetch(h, m)
  PROVE  /\ DOMAIN handlers' = Handlers
         /\ \A g \in Handlers \ {h} : handlers'[g] = handlers[g]
         /\ handlers'[h] # None =>
              /\ handlers'[h] \in Handler /\ handlers[h] # None
              /\ handlers'[h].revision = handlers[h].revision
              /\ handlers'[h].stage \in {"reading", "fetched", "served"}
  <1> DEFINE old == handlers[h]
  <1>1. CASE handlers' = [handlers EXCEPT ![h] = None]
    BY <1>1 DEF TypeOK
  <1>2. ASSUME handlers[h] # None, NEW new \in Handler,
               handlers'[h] = new, \A g \in Handlers \ {h} : handlers'[g] = handlers[g],
               DOMAIN handlers' = Handlers,
               new.revision = old.revision, new.stage \in {"reading", "fetched", "served"}
        PROVE  /\ DOMAIN handlers' = Handlers
               /\ \A g \in Handlers \ {h} : handlers'[g] = handlers[g]
               /\ handlers'[h] # None =>
                    /\ handlers'[h] \in Handler /\ handlers[h] # None
                    /\ handlers'[h].revision = handlers[h].revision
                    /\ handlers'[h].stage \in {"reading", "fetched", "served"}
    BY <1>2
  <1>3. ASSUME handlers[h] # None PROVE old \in Handler
    BY <1>3, HandlerTypes
  <1>4. CASE handlers[h] # None /\ Serve(h)
    <2> DEFINE new == [old EXCEPT !.stage = "served"]
    <2>1. /\ handlers'[h] = new /\ \A g \in Handlers \ {h} : handlers'[g] = handlers[g]
          /\ DOMAIN handlers' = Handlers
      BY <1>4 DEF Serve, TypeOK
    <2> HIDE DEF old
    <2>2. new \in Handler /\ new.revision = old.revision /\ new.stage = "served"
      BY <1>3, <1>4 DEF Handler
    <2> HIDE DEF new
    <2>3. QED BY <1>2, <1>4, <2>1, <2>2
  <1>5. CASE handlers[h] # None /\ Continue(h)
    <2> DEFINE new == [old EXCEPT !.stage = "reading", !.body = None]
    <2>1. /\ handlers'[h] = new /\ \A g \in Handlers \ {h} : handlers'[g] = handlers[g]
          /\ DOMAIN handlers' = Handlers
      BY <1>5 DEF Continue, TypeOK
    <2> HIDE DEF old
    <2>2. new \in Handler /\ new.revision = old.revision /\ new.stage = "reading"
      BY <1>3, <1>5 DEF Handler, Bodies
    <2> HIDE DEF new
    <2>3. QED BY <1>2, <1>5, <2>1, <2>2
  <1>6. ASSUME handlers[h] # None, NEW m \in Members, Fetch(h, m)
        PROVE  /\ DOMAIN handlers' = Handlers
               /\ \A g \in Handlers \ {h} : handlers'[g] = handlers[g]
               /\ handlers'[h] # None =>
                    /\ handlers'[h] \in Handler /\ handlers[h] # None
                    /\ handlers'[h].revision = handlers[h].revision
                    /\ handlers'[h].stage \in {"reading", "fetched", "served"}
    <2> DEFINE body == cache[m].body
               new == [old EXCEPT !.stage = "fetched", !.target = m, !.body = body]
    <2>1. /\ handlers'[h] = new /\ \A g \in Handlers \ {h} : handlers'[g] = handlers[g]
          /\ DOMAIN handlers' = Handlers
      BY <1>6 DEF Fetch, TypeOK
    <2>2. body \in Bodies
      BY DEF TypeOK
    <2> HIDE DEF old, body
    <2>3. new \in Handler /\ new.revision = old.revision /\ new.stage = "fetched"
      BY <1>3, <1>6, <2>2 DEF Handler
    <2> HIDE DEF new
    <2>4. QED BY <1>2, <1>6, <2>1, <2>3
  <1>7. QED BY <1>1, <1>4, <1>5, <1>6

(* Outside of transactions a handler goes on under its revision, or stops. *)
LEMMA OtherTypes ==
  ASSUME TypeOK, [Next]_vars,
         ~ \E h \in Handlers, r \in Requests, now \in Times :
             Authorize(h, r, now) \/ AuthorizeRetry(h, r, now)
  PROVE  /\ TypeOK'
         /\ \A h \in Handlers : handlers'[h] # None =>
              /\ handlers[h] # None /\ handlers'[h].revision = handlers[h].revision
              /\ \/ handlers'[h] = handlers[h]
                 \/ handlers'[h].stage \in {"reading", "fetched", "served"}
  <1> DEFINE Script0 == [member : Members, live : Lives, now : Times, publication : Bodies]
             HandlersOK ==
               /\ DOMAIN handlers' = Handlers
               /\ \A h \in Handlers : handlers'[h] # None =>
                    /\ handlers'[h] \in Handler
                    /\ handlers[h] # None /\ handlers'[h].revision = handlers[h].revision
                    /\ \/ handlers'[h] = handlers[h]
                       \/ handlers'[h].stage \in {"reading", "fetched", "served"}
             CacheOK == cache' \in [Members -> [body : Bodies, live : Lives]]
             DelayedOK == delayed' \subseteq Script0
  <1>1. UNCHANGED <<scope, rows, superseded, leased, charges>>
    BY OtherSteps
  <1>2. handlers' = handlers => HandlersOK
    BY DEF TypeOK
  <1>3. cache' = cache => CacheOK
    BY DEF TypeOK
  <1>4. delayed' \subseteq delayed => DelayedOK
    BY DEF TypeOK
  <1>5. ASSUME NEW h \in Handlers,
               \/ handlers' = [handlers EXCEPT ![h] = None]
               \/ handlers[h] # None /\ (Serve(h) \/ Continue(h) \/ \E m \in Members : Fetch(h, m))
        PROVE  HandlersOK
    <2>1. /\ DOMAIN handlers' = Handlers
          /\ \A g \in Handlers \ {h} : handlers'[g] = handlers[g]
          /\ handlers'[h] # None =>
               /\ handlers'[h] \in Handler /\ handlers[h] # None
               /\ handlers'[h].revision = handlers[h].revision
               /\ handlers'[h].stage \in {"reading", "fetched", "served"}
      BY <1>5, HandlerSteps
    <2>2. \A g \in Handlers : handlers[g] # None => handlers[g] \in Handler
      BY DEF TypeOK
    <2>3. QED BY <2>1, <2>2
  <1> HIDE DEF HandlersOK, CacheOK, DelayedOK
  <1>6. ASSUME NEW h \in Handlers, Serve(h) \/ Continue(h)
        PROVE  HandlersOK /\ CacheOK /\ DelayedOK
    <2>1. handlers[h] # None /\ cache' = cache /\ delayed' = delayed
      BY <1>6 DEF Serve, Continue, Reading
    <2>2. QED BY <1>3, <1>4, <1>5, <1>6, <2>1
  <1>7. ASSUME NEW h \in Handlers, NEW m \in Members, Fetch(h, m)
        PROVE  HandlersOK /\ CacheOK /\ DelayedOK
    <2>1. handlers[h] # None /\ cache' = cache /\ delayed' = delayed
      BY <1>7 DEF Fetch, Reading
    <2>2. QED BY <1>3, <1>4, <1>5, <1>7, <2>1
  <1>8. ASSUME NEW h \in Handlers, Finish(h) PROVE HandlersOK /\ CacheOK /\ DelayedOK
    <2>1. handlers' = [handlers EXCEPT ![h] = None] /\ cache' = cache /\ delayed' = delayed
      BY <1>8 DEF Finish
    <2>2. QED BY <1>3, <1>4, <1>5, <2>1
  <1>9. ASSUME NEW h \in Handlers, Apply(h) PROVE HandlersOK /\ CacheOK /\ DelayedOK
    <2>1. /\ handlers' = [handlers EXCEPT ![h] = None] /\ delayed' = delayed
          /\ handlers[h] # None /\ Run(Script(h))
      BY <1>9 DEF Apply, Mutate
    <2>2. CacheOK
      BY <2>1, ScriptTypes, RunIs DEF CacheOK
    <2>3. QED BY <1>4, <1>5, <2>1, <2>2
  <1>10. ASSUME NEW h \in Handlers, TimeOut(h) PROVE HandlersOK /\ CacheOK /\ DelayedOK
    <2>1. /\ handlers' = [handlers EXCEPT ![h] = None] /\ delayed' = {Script(h)}
          /\ handlers[h] # None /\ cache' = cache
      BY <1>10 DEF TimeOut, Mutate
    <2>2. DelayedOK
      BY <2>1, ScriptTypes DEF DelayedOK
    <2>3. QED BY <1>3, <1>5, <2>1, <2>2
  <1>11. ASSUME NEW script \in delayed, RunLate(script) PROVE HandlersOK /\ CacheOK /\ DelayedOK
    <2>1. handlers' = handlers /\ delayed' \subseteq delayed /\ Run(script)
      BY <1>11 DEF RunLate
    <2>2. script \in Script0
      BY DEF TypeOK
    <2>3. CacheOK
      BY <2>1, <2>2, RunIs DEF CacheOK
    <2>4. QED BY <1>2, <1>4, <2>1, <2>3
  <1>12. ASSUME NEW m \in Members,
                handlers' = handlers, delayed' = delayed,
                \/ cache' = [cache EXCEPT ![m].body = None]
                \/ cache' = [cache EXCEPT ![m].live = 0]
         PROVE  HandlersOK /\ CacheOK /\ DelayedOK
    BY <1>2, <1>4, <1>12, EvictTypes DEF CacheOK
  <1>13. ASSUME NEW h \in Handlers, NEW m \in Members, CleanUp(h, m)
         PROVE  HandlersOK /\ CacheOK /\ DelayedOK
    <2>1. handlers' = handlers /\ delayed' = delayed /\ cache' = [cache EXCEPT ![m].live = 0]
      BY <1>13 DEF CleanUp
    <2>2. QED BY <1>12, <2>1
  <1>14. ASSUME NEW m \in Members, Evict(m) PROVE HandlersOK /\ CacheOK /\ DelayedOK
    <2>1. /\ handlers' = handlers /\ delayed' = delayed
          /\ \/ cache' = [cache EXCEPT ![m].body = None]
             \/ cache' = [cache EXCEPT ![m].live = 0]
      BY <1>14 DEF Evict
    <2>2. QED BY <1>12, <2>1
  <1>15. ASSUME UNCHANGED vars PROVE HandlersOK /\ CacheOK /\ DelayedOK
    BY <1>2, <1>3, <1>4, <1>15 DEF vars
  <1>16. HandlersOK /\ CacheOK /\ DelayedOK
    BY <1>6, <1>7, <1>8, <1>9, <1>10, <1>11, <1>13, <1>14, <1>15 DEF Next
  <1>17. TypeOK'
    BY <1>1, <1>16 DEF TypeOK, HandlersOK, CacheOK, DelayedOK
  <1>18. QED BY <1>16, <1>17 DEF HandlersOK

(* What a request adds to the history. *)
LEMMA HistoryTypes ==
  ASSUME TypeOK, NEW h \in Handlers, NEW r \in Requests, NEW now \in Times, Authorize(h, r, now)
  PROVE  /\ charges' = charges \cup
              {[kind |-> k, request |-> r, at |-> now] : k \in Debits(ControlOf(r.member, now), r)}
         /\ charges' \subseteq Charge
         /\ leased' = IF r.op \in Writes
                      THEN [leased EXCEPT ![r.member][r.device] = [request |-> r, at |-> now]]
                      ELSE leased
         /\ leased' \in [Members -> [Devices -> LeaseChange \cup {None}]]
  <1> DEFINE debits == Debits(ControlOf(r.member, now), r)
             added == {[kind |-> k, request |-> r, at |-> now] : k \in debits}
             change == [request |-> r, at |-> now]
  <1>1. /\ charges' = charges \cup added
        /\ leased' = IF r.op \in Writes
                     THEN [leased EXCEPT ![r.member][r.device] = change] ELSE leased
    BY DEF Authorize
  <1>2. debits \subseteq Kinds
    BY Zenon DEF Debits, Kinds
  <1>3. added \subseteq Charge
    <2> HIDE DEF debits
    <2>1. QED BY <1>2 DEF Charge
  <1>4. change \in LeaseChange
    BY DEF LeaseChange
  <1>5. leased' \in [Members -> [Devices -> LeaseChange \cup {None}]]
    <2> HIDE DEF change
    <2>1. leased \in [Members -> [Devices -> LeaseChange \cup {None}]]
      BY DEF TypeOK
    <2>2. r.member \in Members /\ r.device \in Devices
      BY RequestTypes
    <2>3. QED BY <1>1, <1>4, <2>1, <2>2
  <1>6. charges \subseteq Charge
    BY DEF TypeOK
  <1>7. QED BY <1>1, <1>3, <1>5, <1>6

LEMMA TypeStep == TypeOK /\ [Next]_vars => TypeOK'
  <1> SUFFICES ASSUME TypeOK, [Next]_vars PROVE TypeOK'
    OBVIOUS
  <1>1. ASSUME NEW h \in Handlers, NEW r \in Requests, NEW now \in Times,
               Authorize(h, r, now) \/ AuthorizeRetry(h, r, now)
        PROVE  TypeOK'
    <2>1. /\ rows' \in [Members -> Row \cup {None}]
          /\ scope' = [lastNow |-> now, revision |-> scope.revision + 1]
          /\ superseded' = superseded \cup ((Current(rows) \ Current(rows')) \ {None})
          /\ DOMAIN handlers' = Handlers
          /\ \A g \in Handlers \ {h} : handlers'[g] = handlers[g]
          /\ handlers'[h] \in Handler
          /\ UNCHANGED <<cache, delayed>>
      BY <1>1, TransactionIs
    <2>2. scope' \in [lastNow : Nat, revision : Nat]
      BY <2>1, TimeTypes DEF TypeOK
    <2>3. superseded' \subseteq Publications
      <3>1. ASSUME NEW p \in Current(rows), p # None PROVE p \in Publications
        <4>1. PICK m \in Members : rows[m] # None /\ p = rows[m].control.publication
          BY <3>1 DEF Current
        <4>2. p \in Bodies
          BY <4>1, RowTypes, ControlTypes
        <4>3. QED BY <3>1, <4>2 DEF Bodies
      <3>2. QED BY <2>1, <3>1 DEF TypeOK
    <2>4. \A g \in Handlers : handlers'[g] # None => handlers'[g] \in Handler
      BY <2>1 DEF TypeOK
    <2>5. /\ charges' \subseteq Charge
          /\ leased' \in [Members -> [Devices -> LeaseChange \cup {None}]]
      <3>1. CASE Authorize(h, r, now)
        BY <3>1, HistoryTypes
      <3>2. CASE AuthorizeRetry(h, r, now)
        BY <3>2, AuthorizeIs DEF TypeOK
      <3>3. QED BY <1>1, <3>1, <3>2
    <2>6. QED BY <2>1, <2>2, <2>3, <2>4, <2>5 DEF TypeOK
  <1>2. QED BY <1>1, OtherTypes

LEMMA RevisionsStep == TypeOK /\ Revisions /\ [Next]_vars => Revisions'
  <1> SUFFICES ASSUME TypeOK, Revisions, [Next]_vars PROVE Revisions'
    OBVIOUS
  <1>1. ASSUME NEW h \in Handlers, NEW r \in Requests, NEW now \in Times,
               Authorize(h, r, now) \/ AuthorizeRetry(h, r, now)
        PROVE  Revisions'
    <2> DEFINE m == r.member
    <2>1. /\ rows'[m] # None /\ rows'[m].revision = scope.revision + 1
          /\ \A n \in Members \ {m} : rows'[n] = IF Alive(n, now) THEN rows[n] ELSE None
          /\ scope' = [lastNow |-> now, revision |-> scope.revision + 1]
          /\ \A g \in Handlers \ {h} : handlers'[g] = handlers[g]
          /\ handlers'[h] \in Handler /\ handlers'[h].request = r
          /\ handlers'[h].revision = scope.revision + 1
          /\ handlers'[h].publication \in {None, rows'[m].control.publication}
      BY <1>1, TransactionIs
    <2>2. scope.revision \in Nat /\ scope'.revision = scope.revision + 1
      BY <2>1 DEF TypeOK
    <2>3. \A n \in Members : rows'[n] # None => rows'[n].revision <= scope'.revision
      <3>1. ASSUME NEW n \in Members \ {m}, rows'[n] # None
            PROVE  rows'[n].revision <= scope'.revision
        <4>1. rows'[n] = rows[n] /\ rows[n] # None
          BY <2>1, <3>1 DEF Alive
        <4>2. rows[n].revision \in Nat /\ rows[n].revision <= scope.revision
          BY <4>1, RowTypes DEF Revisions
        <4>3. QED BY <2>2, <4>1, <4>2
      <3>2. QED BY <2>1, <2>2, <3>1
    <2>4. ASSUME NEW g \in Handlers \ {h}, handlers'[g] # None
          PROVE  /\ handlers'[g].revision <= scope'.revision
                 /\ handlers'[g].stage = "committed" /\ RowCurrent(g)' =>
                      handlers'[g].publication
                        \in {None, rows'[handlers'[g].request.member].control.publication}
      <3> DEFINE n == handlers[g].request.member
      <3>1. /\ handlers'[g] = handlers[g] /\ handlers[g] # None
            /\ n \in Members /\ handlers[g].revision \in Nat
            /\ handlers[g].revision <= scope.revision
        BY <2>1, <2>4, HandlerTypes DEF Revisions
      <3>2. RowCurrent(g)' => n # m /\ RowCurrent(g) /\ rows'[n] = rows[n]
        <4>1. handlers'[g].request.member = n
          BY <3>1
        <4>2. RowCurrent(g)' =>
                rows'[n] # None /\ rows'[n].revision = handlers[g].revision
          BY <3>1, <4>1 DEF RowCurrent
        <4>3. RowCurrent(g)' => n # m
          BY <2>1, <2>2, <3>1, <4>2
        <4>4. RowCurrent(g)' => rows'[n] = rows[n]
          BY <2>1, <3>1, <4>2, <4>3
        <4>5. QED BY <4>2, <4>3, <4>4 DEF RowCurrent
      <3>3. handlers[g].stage = "committed" /\ RowCurrent(g) =>
              handlers[g].publication \in {None, rows[n].control.publication}
        BY <3>1 DEF Revisions
      <3>4. QED BY <2>2, <3>1, <3>2, <3>3
    <2>5. /\ handlers'[h].revision <= scope'.revision
          /\ handlers'[h].publication
               \in {None, rows'[handlers'[h].request.member].control.publication}
      BY <2>1, <2>2
    <2>6. QED BY <2>3, <2>4, <2>5 DEF Revisions
  <1>2. CASE ~ \E h \in Handlers, r \in Requests, now \in Times :
               Authorize(h, r, now) \/ AuthorizeRetry(h, r, now)
    <2>1. UNCHANGED <<scope, rows>>
      BY <1>2, OtherSteps
    <2>2. \A h \in Handlers : handlers'[h] # None =>
            /\ handlers[h] # None /\ handlers'[h].revision = handlers[h].revision
            /\ \/ handlers'[h] = handlers[h]
               \/ handlers'[h].stage \in {"reading", "fetched", "served"}
      BY <1>2, OtherTypes
    <2>3. ASSUME NEW h \in Handlers, handlers'[h] # None
          PROVE  /\ handlers'[h].revision <= scope'.revision
                 /\ handlers'[h].stage = "committed" /\ RowCurrent(h)' =>
                      handlers'[h].publication
                        \in {None, rows'[handlers'[h].request.member].control.publication}
      <3>1. handlers'[h].stage = "committed" => handlers'[h] = handlers[h]
        BY <2>2, <2>3
      <3>2. handlers'[h] = handlers[h] => RowCurrent(h)' = RowCurrent(h)
        BY <2>1 DEF RowCurrent
      <3>3. QED BY <2>1, <2>2, <2>3, <3>1, <3>2 DEF Revisions
    <2>4. QED BY <2>1, <2>3 DEF Revisions
  <1>3. QED BY <1>1, <1>2
-----------------------------------------------------------------------------
(* Publications: what is replaced does not come back. *)

LEMMA OneOwner ==
  ASSUME NEW m, NEW n, NEW p \in PublishedBy(m) \cap PublishedBy(n)
  PROVE  m = n /\ p \in Publications /\ p # None /\ p.expires \in Nat /\ p.sequence \in Nat
  <1>1. PICK r \in Requests : r.op = "publish" /\ r.member = m /\ r.publication = p
    BY DEF PublishedBy
  <1>2. PICK q \in Requests : q.op = "publish" /\ q.member = n /\ q.publication = p
    BY DEF PublishedBy
  <1>3. m = n
    BY <1>1, <1>2, RequestShape
  <1>4. p \in Publications /\ p # None
    BY <1>1, RequestTypes
  <1>5. QED BY <1>3, <1>4, RequestShape

(* The row of a member whose publication has not expired has not either. *)
LEMMA OwnedAlive ==
  ASSUME TypeOK, Owned, NEW m \in Members, rows[m] # None, NEW p, p # None,
         rows[m].control.publication = p
  PROVE  /\ p \in PublishedBy(m) /\ p \in Publications /\ p \in Current(rows)
         /\ p.expires \in Nat /\ p.sequence \in Nat
         /\ rows[m].control.retainUntil \in Nat
         /\ rows[m].control.retainUntil >= p.expires
  <1>1. p \in PublishedBy(m)
    BY DEF Owned
  <1>2. p.expires \in Nat /\ p.sequence \in Nat /\ p \in Publications
    BY <1>1, OneOwner
  <1>3. rows[m].control.retainUntil >= p.expires
    BY DEF Owned, ExpiryOf
  <1>4. rows[m].control.retainUntil \in Nat
    BY RowTypes, ControlTypes
  <1>5. QED BY <1>1, <1>2, <1>3, <1>4 DEF Current

(* A row that replaces its publication gets one that never was current. *)
LEMMA NeverAgain ==
  ASSUME TypeOK, Owned, Fenced, NEW r \in Requests, NEW now \in Times,
         scope.lastNow <= now, r.op = "publish",
         r.publication.sequence > SequenceOf(ControlOf(r.member, now).publication),
         now < r.publication.expires
  PROVE  r.publication \notin superseded \cup Current(rows)
  <1> DEFINE p == r.publication
             m == r.member
             old == ControlOf(m, now)
  <1>1. m \in Members /\ p \in PublishedBy(m) /\ p \in Publications /\ p # None
    BY RequestTypes
  <1>2. /\ p.expires \in Nat /\ p.sequence \in Nat /\ now \in Nat
        /\ scope.lastNow \in Nat /\ scope.lastNow <= now
    BY <1>1, RequestShape DEF TypeOK
  <1>3. ASSUME rows[m] # None, rows[m].control.retainUntil >= p.expires
        PROVE  old.publication = rows[m].control.publication /\ old \in Control
    <2>1. rows[m].control.retainUntil \in Nat
      BY <1>1, <1>3, RowTypes, ControlTypes
    <2>2. Alive(m, now)
      BY <1>2, <1>3, <2>1 DEF Alive
    <2>3. QED BY <1>1, <2>2, ControlIs
  <1>4. p \notin Current(rows)
    <2>1. SUFFICES ASSUME NEW n \in Members, rows[n] # None, rows[n].control.publication = p
                   PROVE  FALSE
      BY DEF Current
    <2>2. p \in PublishedBy(n) /\ rows[n].control.retainUntil >= p.expires
      BY <1>1, <2>1, OwnedAlive
    <2>3. n = m
      BY <1>1, <2>2, OneOwner
    <2>4. old.publication = p
      BY <1>3, <2>1, <2>2, <2>3
    <2>5. SequenceOf(old.publication) = p.sequence
      BY <1>1, <2>4 DEF SequenceOf
    <2>6. QED BY <1>2, <2>5
  <1>5. p \notin superseded
    <2>1. SUFFICES ASSUME p \in superseded PROVE FALSE
      OBVIOUS
    <2>2. PICK n \in Members :
            p \in PublishedBy(n) /\ (p.expires <= scope.lastNow \/ Replaced(n, p))
      BY <2>1 DEF Fenced
    <2>3. n = m
      BY <1>1, <2>2, OneOwner
    <2>4. ~(p.expires <= scope.lastNow)
      BY <1>2
    <2>5. /\ rows[m] # None /\ rows[m].control.retainUntil >= p.expires
          /\ SequenceOf(rows[m].control.publication) > p.sequence
      BY <2>2, <2>3, <2>4 DEF Replaced
    <2>6. old.publication = rows[m].control.publication /\ old \in Control
      BY <1>3, <2>5
    <2>7. SequenceOf(old.publication) \in Nat /\ SequenceOf(old.publication) > p.sequence
      BY <2>5, <2>6, ControlTypes
    <2>8. QED BY <1>2, <2>7
  <1>6. QED BY <1>4, <1>5

LEMMA OwnedStep == TypeOK /\ Owned /\ [Next]_vars => Owned'
  <1> SUFFICES ASSUME TypeOK, Owned, [Next]_vars PROVE Owned'
    OBVIOUS
  <1>1. ASSUME NEW h \in Handlers, NEW r \in Requests, NEW now \in Times,
               Authorize(h, r, now) \/ AuthorizeRetry(h, r, now)
        PROVE  Owned'
    <2> DEFINE m == r.member
               old == ControlOf(m, now)
               new == rows'[m].control
    <2>1. /\ m \in Members /\ old \in Control /\ new \in Control
          /\ \A n \in Members \ {m} : rows'[n] = IF Alive(n, now) THEN rows[n] ELSE None
          /\ new.retainUntil >= old.retainUntil
          /\ \/ new.publication = old.publication
             \/ /\ r.op = "publish" /\ new.publication = r.publication
                /\ r.publication.sequence > SequenceOf(old.publication)
                /\ now < r.publication.expires
                /\ new.retainUntil >= r.publication.expires
      BY <1>1, TransactionIs
    <2>2. ASSUME NEW n \in Members \ {m}, rows'[n] # None
          PROVE  /\ rows'[n].control.publication \in PublishedBy(n) \cup {None}
                 /\ rows'[n].control.retainUntil >= ExpiryOf(rows'[n].control.publication)
      <3>1. rows'[n] = rows[n] /\ rows[n] # None
        BY <2>1, <2>2 DEF Alive
      <3>2. QED BY <3>1 DEF Owned
    <2>3. /\ old.publication \in PublishedBy(m) \cup {None}
          /\ old.retainUntil >= ExpiryOf(old.publication)
      <3>1. CASE Alive(m, now)
        BY <2>1, <3>1, ControlIs DEF Owned, Alive
      <3>2. CASE ~Alive(m, now)
        BY <2>1, <3>2, ControlIs DEF Fresh, ExpiryOf
      <3>3. QED BY <3>1, <3>2
    <2>4. /\ new.publication \in PublishedBy(m) \cup {None}
          /\ new.retainUntil >= ExpiryOf(new.publication)
      <3> HIDE DEF new, old
      <3>1. CASE new.publication = old.publication
        <4>1. /\ new.retainUntil \in Nat /\ old.retainUntil \in Nat
              /\ ExpiryOf(old.publication) \in Nat
          BY <2>1, ControlTypes
        <4>2. new.retainUntil >= ExpiryOf(old.publication)
          BY <2>1, <2>3, <4>1
        <4>3. QED BY <2>3, <3>1, <4>2
      <3>2. CASE r.op = "publish" /\ new.publication = r.publication
                 /\ new.retainUntil >= r.publication.expires
        BY <3>2, RequestTypes DEF ExpiryOf
      <3>3. QED BY <2>1, <3>1, <3>2
    <2>5. QED BY <2>2, <2>4 DEF Owned
  <1>2. CASE ~ \E h \in Handlers, r \in Requests, now \in Times :
               Authorize(h, r, now) \/ AuthorizeRetry(h, r, now)
    <2>1. rows' = rows
      BY <1>2, OtherSteps
    <2>2. QED BY <2>1 DEF Owned
  <1>3. QED BY <1>1, <1>2

LEMMA FencedStep == TypeOK /\ Owned /\ Fenced /\ [Next]_vars => Fenced'
  <1> SUFFICES ASSUME TypeOK, Owned, Fenced, [Next]_vars PROVE Fenced'
    OBVIOUS
  <1>1. ASSUME NEW h \in Handlers, NEW r \in Requests, NEW now \in Times,
               Authorize(h, r, now) \/ AuthorizeRetry(h, r, now)
        PROVE  Fenced'
    <2> DEFINE m == r.member
               old == ControlOf(m, now)
               new == rows'[m].control
               Moves == /\ r.op = "publish" /\ new.publication = r.publication
                        /\ r.publication.sequence > SequenceOf(old.publication)
                        /\ now < r.publication.expires
    <2>1. /\ m \in Members /\ old \in Control /\ new \in Control /\ rows'[m] # None
          /\ \A n \in Members \ {m} : rows'[n] = IF Alive(n, now) THEN rows[n] ELSE None
          /\ scope' = [lastNow |-> now, revision |-> scope.revision + 1]
          /\ superseded' = superseded \cup ((Current(rows) \ Current(rows')) \ {None})
          /\ new.retainUntil >= old.retainUntil
          /\ new.publication = old.publication \/ Moves
      BY <1>1, TransactionIs
    <2>2. /\ scope.lastNow <= now /\ now \in Nat /\ scope.lastNow \in Nat
          /\ scope'.lastNow = now
      BY <1>1, <2>1, AuthorizeIs, TimeTypes DEF TypeOK
    <2>3. Moves => r.publication \notin superseded \cup Current(rows)
      BY <2>2, NeverAgain
    <2>4. superseded \cap Current(rows') = {}
      <3>1. SUFFICES ASSUME NEW p \in superseded, NEW n \in Members, rows'[n] # None,
                            rows'[n].control.publication = p
                     PROVE  FALSE
        BY DEF Current
      <3>2. p # None
        BY <3>1, NoneIsNothing DEF TypeOK
      <3>3. ASSUME rows[n] # None, rows[n].control.publication = p PROVE FALSE
        BY <3>1, <3>3 DEF Fenced, Current
      <3>4. n = m
        BY <2>1, <3>1, <3>3 DEF Alive
      <3>5. new.publication = p
        BY <3>1, <3>4
      <3>6. ~Moves
        BY <2>3, <3>5
      <3>7. old.publication = p
        BY <2>1, <3>5, <3>6
      <3>8. CASE Alive(m, now)
        BY <2>1, <3>3, <3>4, <3>7, <3>8, ControlIs DEF Alive
      <3>9. CASE ~Alive(m, now)
        BY <2>1, <3>2, <3>7, <3>9, ControlIs DEF Fresh
      <3>10. QED BY <3>8, <3>9
    <2>5. superseded' \cap Current(rows') = {}
      BY <2>1, <2>4
    <2>6. ASSUME NEW n \in Members, NEW p \in PublishedBy(n),
                 rows[n] # None, rows[n].control.retainUntil >= p.expires,
                 \/ SequenceOf(rows[n].control.publication) > p.sequence
                 \/ rows[n].control.publication = p /\ p \notin Current(rows')
          PROVE  (p.expires <= scope.lastNow \/ Replaced(n, p))'
      <3> DEFINE c == rows[n].control
      <3>1. /\ c.retainUntil \in Nat /\ SequenceOf(c.publication) \in Nat
            /\ p # None /\ p.expires \in Nat /\ p.sequence \in Nat
        BY <2>6, OneOwner, RowTypes, ControlTypes
      <3>2. CASE ~Alive(n, now)
        <4>1. ~(c.retainUntil > now)
          BY <2>6, <3>2 DEF Alive
        <4>2. p.expires <= now
          BY <2>2, <2>6, <3>1, <4>1
        <4>3. QED BY <2>2, <4>2
      <3>3. CASE Alive(n, now) /\ n # m
        <4>1. rows'[n] = rows[n]
          BY <2>1, <3>3
        <4>2. c.publication \in Current(rows')
          BY <2>6, <4>1 DEF Current
        <4>3. SequenceOf(c.publication) > p.sequence
          BY <2>6, <4>2
        <4>4. QED BY <2>6, <4>1, <4>3 DEF Replaced
      <3>4. CASE Alive(n, now) /\ n = m
        <4>1. old.publication = c.publication /\ old.retainUntil = c.retainUntil
          BY <2>1, <3>4, ControlIs
        <4>2. new.publication \in Current(rows')
          BY <2>1 DEF Current
        <4>3. new.retainUntil \in Nat /\ SequenceOf(new.publication) \in Nat
          BY <2>1, ControlTypes
        <4>4. Moves => SequenceOf(new.publication) = r.publication.sequence
          BY RequestTypes DEF SequenceOf
        <4>5. c.publication = p => SequenceOf(c.publication) = p.sequence
          BY <3>1 DEF SequenceOf
        <4> HIDE DEF c, old, new, Moves
        <4>6. new.retainUntil >= p.expires
          BY <2>1, <2>6, <3>1, <4>1, <4>3 DEF c
        <4>7. Moves => SequenceOf(new.publication) > SequenceOf(c.publication)
          BY <4>1, <4>4 DEF Moves
        <4>8. SequenceOf(new.publication) > p.sequence
          BY <2>1, <2>6, <3>1, <4>1, <4>2, <4>3, <4>5, <4>7 DEF c
        <4>9. QED BY <2>1, <3>4, <4>6, <4>8 DEF Replaced, new
      <3>5. QED BY <3>2, <3>3, <3>4
    <2>7. ASSUME NEW p \in superseded
          PROVE  \E n \in Members :
                   p \in PublishedBy(n) /\ (p.expires <= scope.lastNow \/ Replaced(n, p))'
      <3>1. PICK n \in Members :
              p \in PublishedBy(n) /\ (p.expires <= scope.lastNow \/ Replaced(n, p))
        BY DEF Fenced
      <3>2. CASE p.expires <= scope.lastNow
        <4>1. p.expires \in Nat
          BY <3>1, OneOwner
        <4>2. p.expires <= scope'.lastNow
          BY <2>2, <3>2, <4>1
        <4>3. QED BY <3>1, <4>2
      <3>3. CASE Replaced(n, p)
        <4>1. (p.expires <= scope.lastNow \/ Replaced(n, p))'
          BY <2>6, <3>1, <3>3 DEF Replaced
        <4>2. QED BY <3>1, <4>1
      <3>4. QED BY <3>1, <3>2, <3>3
    <2>8. ASSUME NEW p \in superseded' \ superseded
          PROVE  \E n \in Members :
                   p \in PublishedBy(n) /\ (p.expires <= scope.lastNow \/ Replaced(n, p))'
      <3>1. p \in Current(rows) /\ p \notin Current(rows') /\ p # None
        BY <2>1, <2>8
      <3>2. PICK n \in Members : rows[n] # None /\ rows[n].control.publication = p
        BY <3>1 DEF Current
      <3>3. p \in PublishedBy(n) /\ rows[n].control.retainUntil >= p.expires
        BY <3>1, <3>2, OwnedAlive
      <3>4. (p.expires <= scope.lastNow \/ Replaced(n, p))'
        BY <2>6, <3>1, <3>2, <3>3
      <3>5. QED BY <3>3, <3>4
    <2>9. QED BY <2>5, <2>7, <2>8 DEF Fenced
  <1>2. CASE ~ \E h \in Handlers, r \in Requests, now \in Times :
               Authorize(h, r, now) \/ AuthorizeRetry(h, r, now)
    <2>1. UNCHANGED <<scope, rows, superseded>>
      BY <1>2, OtherSteps
    <2>2. QED BY <2>1 DEF Fenced, Replaced, Current
  <1>3. QED BY <1>1, <1>2
-----------------------------------------------------------------------------
(* Leases: a change of a device's lease is not undone by what came before. *)

LEMMA LeasesOf ==
  ASSUME TypeOK, NEW h \in Handlers, NEW r \in Requests, NEW now \in Times,
         Authorize(h, r, now) \/ AuthorizeRetry(h, r, now)
  PROVE  LET m == r.member
             old == ControlOf(m, now)
             new == rows'[m].control
         IN  /\ \A n \in Members \ {m} : leased'[n] = leased[n]
             /\ \A d \in Devices :
                  \/ new.leases[d] = old.leases[d] /\ leased'[m][d] = leased[m][d]
                  \/ /\ leased'[m][d] = [request |-> r, at |-> now]
                     /\ new.leases[d] # None /\ new.leases[d] \in Lease
                     /\ new.leases[d].sequence = r.sequence
                     /\ new.leases[d].retain >= now + limits.request
                     /\ new.retainUntil >= now + limits.request
                     /\ old.leases[d] # None => old.leases[d].sequence < r.sequence
  <1> DEFINE m == r.member
             old == ControlOf(m, now)
             change == [request |-> r, at |-> now]
  <1>1. /\ old \in Control /\ m \in Members /\ r.device \in Devices
        /\ r.publication \in Bodies
    BY AuthorizeIs, RequestTypes
  <1>2. CASE Authorize(h, r, now)
    <2> DEFINE new == Change(old, r, now)
    <2>1. /\ Acceptable(old, r, now)
          /\ Commit(h, r, now, new, r.publication)
      BY <1>2, AuthorizeIs
    <2>2. /\ new \in Control
          /\ new.retainUntil = Retention(old, r, now)
          /\ new.leases = NewLeases(old, r, now)
      BY <1>1, <2>1, ChangeIs
    <2>3. Retention(old, r, now) >= now + limits.request
      BY <1>1, RetentionIs
    <2>4. leased' = IF r.op \in Writes THEN [leased EXCEPT ![m][r.device] = change] ELSE leased
      BY <1>2, HistoryTypes
    <2>5. leased \in [Members -> [Devices -> LeaseChange \cup {None}]]
      BY DEF TypeOK
    <2> HIDE DEF new, old, change
    <2>6. rows'[m].control = new
      BY <1>1, <2>1, <2>2, CommitIs
    <2>7. CASE r.op \notin Writes
      <3>1. new.leases = old.leases
        BY <2>2, <2>7 DEF NewLeases
      <3>2. QED BY <2>4, <2>6, <2>7, <3>1 DEF old
    <2>8. CASE r.op \in Writes
      <3>1. LeaseMoves(old, r)
        BY <2>1 DEF Acceptable
      <3> DEFINE lease == new.leases[r.device]
      <3>2. /\ lease # None /\ lease \in Lease
            /\ lease.sequence = r.sequence /\ lease.retain >= now + limits.request
            /\ old.leases[r.device] # None => old.leases[r.device].sequence < r.sequence
            /\ \A d \in Devices \ {r.device} : new.leases[d] = old.leases[d]
        BY <1>1, <2>2, <2>8, <3>1, NewLeaseIs
      <3>3. /\ \A n \in Members \ {m} : leased'[n] = leased[n]
            /\ leased'[m][r.device] = change
            /\ \A d \in Devices \ {r.device} : leased'[m][d] = leased[m][d]
        BY <1>1, <2>4, <2>5, <2>8
      <3> HIDE DEF lease
      <3>4. QED BY <2>2, <2>3, <2>6, <3>2, <3>3 DEF lease, old, change
    <2>9. QED BY <2>7, <2>8
  <1>3. CASE AuthorizeRetry(h, r, now)
    <2> DEFINE publication == IF r.publication = old.publication THEN r.publication ELSE None
    <2>1. Commit(h, r, now, old, publication) /\ UNCHANGED leased
      BY <1>3, AuthorizeIs
    <2>2. publication \in Bodies
      BY <1>1 DEF Bodies
    <2> HIDE DEF publication, old
    <2>3. rows'[m].control = old
      BY <1>1, <2>1, <2>2, CommitIs
    <2>4. QED BY <2>1, <2>3 DEF old
  <1>4. QED BY <1>2, <1>3

LEMMA LeasesStep == TypeOK /\ LeasesRemembered /\ [Next]_vars => LeasesRemembered'
  <1> SUFFICES ASSUME TypeOK, LeasesRemembered, [Next]_vars PROVE LeasesRemembered'
    OBVIOUS
  <1>1. ASSUME NEW h \in Handlers, NEW r \in Requests, NEW now \in Times,
               Authorize(h, r, now) \/ AuthorizeRetry(h, r, now),
               NEW n \in Members, NEW d \in Devices, leased'[n][d] # None
        PROVE  Remembered(n, d)'
    <2> DEFINE m == r.member
               old == ControlOf(m, now)
               new == rows'[m].control
    <2>1. /\ m \in Members /\ old \in Control /\ new \in Control /\ rows'[m] # None
          /\ \A k \in Members \ {m} : rows'[k] = IF Alive(k, now) THEN rows[k] ELSE None
          /\ scope' = [lastNow |-> now, revision |-> scope.revision + 1]
          /\ new.retainUntil >= old.retainUntil
      BY <1>1, TransactionIs
    <2>2. /\ scope.lastNow <= now /\ now \in Nat /\ scope.lastNow \in Nat
          /\ scope'.lastNow = now /\ limits.request \in Nat
      BY <1>1, <2>1, AuthorizeIs, RequestShape DEF TypeOK
    <2>3. ASSUME n = m, leased'[m][d] = [request |-> r, at |-> now],
                 new.leases[d] # None, new.leases[d].sequence = r.sequence,
                 new.leases[d].retain >= now + limits.request,
                 new.retainUntil >= now + limits.request
          PROVE  Remembered(n, d)'
      <3>1. leased'[n][d].at = now /\ leased'[n][d].request = r
        BY <2>3
      <3>2. QED BY <2>1, <2>3, <3>1 DEF Remembered
    <2>4. ASSUME leased'[n][d] = leased[n][d],
                 n = m => new.leases[d] = old.leases[d]
          PROVE  Remembered(n, d)'
      <3> DEFINE ends == leased[n][d].at + limits.request
                 c == rows[n].control
      <3>1. leased[n][d] \in LeaseChange /\ leased[n][d] # None
        BY <1>1, <2>4 DEF TypeOK
      <3>2. ends \in Nat
        <4>1. leased[n][d].at \in Times
          BY <3>1 DEF LeaseChange
        <4>2. leased[n][d].at \in Nat
          BY <4>1, TimeTypes
        <4>3. QED BY <2>2, <4>2
      <3>3. ends <= scope.lastNow \/
              /\ rows[n] # None /\ c.retainUntil >= ends
              /\ c.leases[d] # None /\ c.leases[d].retain >= ends
              /\ c.leases[d].sequence = leased[n][d].request.sequence
        BY <3>1 DEF LeasesRemembered, Remembered
      <3>4. ends <= now => Remembered(n, d)'
        BY <2>2, <2>4 DEF Remembered
      <3>5. CASE ends <= scope.lastNow
        <4>1. ends <= now
          BY <2>2, <3>2, <3>5
        <4>2. QED BY <3>4, <4>1
      <3>6. CASE /\ rows[n] # None /\ c.retainUntil >= ends /\ ~(ends <= now)
                 /\ c.leases[d] # None /\ c.leases[d].retain >= ends
                 /\ c.leases[d].sequence = leased[n][d].request.sequence
        <4>1. c.retainUntil \in Nat /\ c.leases[d] \in Lease
          BY <3>6, RowTypes, ControlTypes
        <4>2. c.leases[d].retain \in Nat
          BY <4>1 DEF Lease
        <4>3. Alive(n, now) /\ c.leases[d].retain > now
          BY <2>2, <3>2, <3>6, <4>1, <4>2 DEF Alive
        <4>4. CASE n # m
          <5>1. rows'[n] = rows[n]
            BY <2>1, <4>3, <4>4
          <5>2. QED BY <2>4, <3>6, <5>1 DEF Remembered
        <4>5. CASE n = m
          <5>1. old.retainUntil = c.retainUntil /\ old.leases[d] = c.leases[d]
            BY <3>6, <4>3, <4>5, ControlIs
          <5>2. new.leases[d] = c.leases[d]
            BY <2>4, <4>5, <5>1
          <5>3. new.retainUntil \in Nat
            BY <2>1, ControlTypes
          <5> HIDE DEF new, old, c
          <5>4. new.retainUntil >= ends
            BY <2>1, <3>2, <3>6, <4>1, <5>1, <5>3
          <5> HIDE DEF ends
          <5>5. rows'[n] # None /\ rows'[n].control = new
            BY <2>1, <4>5 DEF new
          <5>6. QED BY <2>4, <3>6, <5>2, <5>4, <5>5 DEF Remembered, ends
        <4>6. QED BY <4>4, <4>5
      <3>7. QED BY <3>3, <3>4, <3>5, <3>6
    <2> HIDE DEF old, new
    <2>5. /\ \A k \in Members \ {m} : leased'[k] = leased[k]
          /\ \A k \in Devices :
               \/ new.leases[k] = old.leases[k] /\ leased'[m][k] = leased[m][k]
               \/ /\ leased'[m][k] = [request |-> r, at |-> now]
                  /\ new.leases[k] # None /\ new.leases[k] \in Lease
                  /\ new.leases[k].sequence = r.sequence
                  /\ new.leases[k].retain >= now + limits.request
                  /\ new.retainUntil >= now + limits.request
                  /\ old.leases[k] # None => old.leases[k].sequence < r.sequence
      BY <1>1, LeasesOf DEF old, new
    <2>6. \/ new.leases[d] = old.leases[d] /\ leased'[m][d] = leased[m][d]
          \/ /\ leased'[m][d] = [request |-> r, at |-> now]
             /\ new.leases[d] # None /\ new.leases[d].sequence = r.sequence
             /\ new.leases[d].retain >= now + limits.request
             /\ new.retainUntil >= now + limits.request
      BY <2>5
    <2>7. CASE n # m
      BY <2>4, <2>5, <2>7
    <2>8. CASE n = m /\ new.leases[d] = old.leases[d] /\ leased'[m][d] = leased[m][d]
      BY <2>4, <2>8
    <2>9. CASE /\ n = m /\ leased'[m][d] = [request |-> r, at |-> now]
               /\ new.leases[d] # None /\ new.leases[d].sequence = r.sequence
               /\ new.leases[d].retain >= now + limits.request
               /\ new.retainUntil >= now + limits.request
      BY <2>3, <2>9
    <2>10. QED BY <2>6, <2>7, <2>8, <2>9
  <1>2. CASE ~ \E h \in Handlers, r \in Requests, now \in Times :
               Authorize(h, r, now) \/ AuthorizeRetry(h, r, now)
    <2>1. UNCHANGED <<scope, rows, leased>>
      BY <1>2, OtherSteps
    <2>2. QED BY <2>1 DEF LeasesRemembered, Remembered
  <1>3. QED BY <1>1, <1>2 DEF LeasesRemembered
-----------------------------------------------------------------------------
(* Quotas: what is spent in a window is counted until the window has passed. *)

LEMMA DebitsAre ==
  ASSUME NEW control, NEW r
  PROVE  /\ Debits(control, r) \subseteq Kinds
         /\ "publish" \in Debits(control, r) =>
              r.op = "publish" /\ r.publication # control.publication
  <1>1. CASE r.op \in {"query", "fetch"}
    <2>1. Debits(control, r) = {"read"}
      BY <1>1, Zenon DEF Debits
    <2>2. QED BY <2>1 DEF Kinds
  <1>2. CASE r.op = "publish" /\ r.publication # control.publication
    BY <1>2, Zenon DEF Debits, Kinds
  <1>3. CASE r.op \notin {"query", "fetch"}
             /\ ~(r.op = "publish" /\ r.publication # control.publication)
    <2>1. Debits(control, r) = {}
      BY <1>3, Zenon DEF Debits
    <2>2. QED BY <2>1
  <1>4. QED BY <1>1, <1>2, <1>3

LEMMA ChargesOf ==
  ASSUME TypeOK, NEW h \in Handlers, NEW r \in Requests, NEW now \in Times,
         Authorize(h, r, now) \/ AuthorizeRetry(h, r, now)
  PROVE  LET old == ControlOf(r.member, now)
             new == rows'[r.member].control
         IN  \E debits \in SUBSET Kinds :
               /\ charges' = charges \cup
                    {[kind |-> k, request |-> r, at |-> now] : k \in debits}
               /\ "publish" \in debits =>
                    /\ r.op = "publish" /\ r.publication # old.publication
                    /\ new.publication = r.publication
               /\ \A k \in debits :
                    /\ Affordable(old, k, now)
                    /\ new.counters[k] = Take(old.counters[k], WindowStart(k, now))
                    /\ new.retainUntil >= now + limits.window[k]
               /\ \A k \in Kinds \ debits : new.counters[k] = old.counters[k]
  <1> DEFINE m == r.member
             old == ControlOf(m, now)
             debits == Debits(old, r)
  <1>1. old \in Control /\ m \in Members /\ r.publication \in Bodies
    BY AuthorizeIs, RequestTypes
  <1>2. CASE Authorize(h, r, now)
    <2> DEFINE new == Change(old, r, now)
    <2>1. /\ Acceptable(old, r, now)
          /\ Commit(h, r, now, new, r.publication)
      BY <1>2, AuthorizeIs
    <2>2. /\ new \in Control
          /\ new.retainUntil = Retention(old, r, now)
          /\ new.publication = IF r.op = "publish" THEN r.publication ELSE old.publication
          /\ \A k \in Kinds : new.counters[k] =
               IF k \in debits THEN Take(old.counters[k], WindowStart(k, now))
                               ELSE old.counters[k]
      BY <1>1, <2>1, ChangeIs
    <2>3. \A k \in Kinds : Retention(old, r, now) >= now + limits.window[k]
      BY <1>1, RetentionIs
    <2>4. /\ debits \subseteq Kinds
          /\ "publish" \in debits => r.op = "publish" /\ r.publication # old.publication
      BY DebitsAre
    <2>5. \A k \in debits : Affordable(old, k, now)
      BY <2>1 DEF Acceptable
    <2>6. charges' = charges \cup {[kind |-> k, request |-> r, at |-> now] : k \in debits}
      BY <1>2, HistoryTypes
    <2> HIDE DEF new, debits, old
    <2>7. rows'[m].control = new
      BY <1>1, <2>1, <2>2, CommitIs
    <2>8. debits \in SUBSET Kinds
      BY <2>4
    <2>9. \A k \in debits :
            /\ Affordable(old, k, now)
            /\ new.counters[k] = Take(old.counters[k], WindowStart(k, now))
            /\ new.retainUntil >= now + limits.window[k]
      BY <2>2, <2>3, <2>4, <2>5
    <2>10. \A k \in Kinds \ debits : new.counters[k] = old.counters[k]
      BY <2>2
    <2>11. "publish" \in debits =>
             /\ r.op = "publish" /\ r.publication # old.publication
             /\ new.publication = r.publication
      BY <2>2, <2>4
    <2>12. QED BY <2>6, <2>7, <2>8, <2>9, <2>10, <2>11 DEF old
  <1>3. CASE AuthorizeRetry(h, r, now)
    <2> DEFINE publication == IF r.publication = old.publication THEN r.publication ELSE None
    <2>1. Commit(h, r, now, old, publication) /\ UNCHANGED charges
      BY <1>3, AuthorizeIs
    <2>2. publication \in Bodies
      BY <1>1 DEF Bodies
    <2> HIDE DEF publication, old, debits
    <2>3. rows'[m].control = old
      BY <1>1, <2>1, <2>2, CommitIs
    <2>4. {} \in SUBSET Kinds
      OBVIOUS
    <2>5. charges' = charges \cup {[kind |-> k, request |-> r, at |-> now] : k \in {}}
      BY <2>1
    <2>6. \A k \in Kinds \ {} : rows'[m].control.counters[k] = old.counters[k]
      BY <2>3
    <2>7. QED BY <2>4, <2>5, <2>6 DEF old
  <1>4. QED BY <1>2, <1>3

LEMMA ChargesStep == TypeOK /\ ChargesCounted /\ [Next]_vars => ChargesCounted'
  <1> SUFFICES ASSUME TypeOK, ChargesCounted, [Next]_vars PROVE ChargesCounted'
    OBVIOUS
  <1>1. ASSUME NEW h \in Handlers, NEW r \in Requests, NEW now \in Times,
               Authorize(h, r, now) \/ AuthorizeRetry(h, r, now)
        PROVE  ChargesCounted'
    <2> DEFINE m == r.member
               old == ControlOf(m, now)
               new == rows'[m].control
               charge(k) == [kind |-> k, request |-> r, at |-> now]
    <2>1. /\ m \in Members /\ old \in Control /\ new \in Control /\ rows'[m] # None
          /\ \A n \in Members \ {m} : rows'[n] = IF Alive(n, now) THEN rows[n] ELSE None
          /\ scope' = [lastNow |-> now, revision |-> scope.revision + 1]
          /\ new.retainUntil >= old.retainUntil
      BY <1>1, TransactionIs
    <2>2. /\ scope.lastNow <= now /\ now \in Nat /\ scope.lastNow \in Nat
          /\ scope'.lastNow = now
      BY <1>1, <2>1, AuthorizeIs, TimeTypes DEF TypeOK
    <2>3. PICK debits \in SUBSET Kinds :
            /\ charges' = charges \cup {charge(k) : k \in debits}
            /\ \A k \in debits :
                 /\ Affordable(old, k, now)
                 /\ new.counters[k] = Take(old.counters[k], WindowStart(k, now))
                 /\ new.retainUntil >= now + limits.window[k]
            /\ \A k \in Kinds \ debits : new.counters[k] = old.counters[k]
      BY <1>1, ChargesOf
    <2>4. \A c \in charges :
            /\ c.kind \in Kinds /\ c.request \in Requests /\ c.request.member \in Members
            /\ c.at \in Nat /\ c.at <= scope.lastNow /\ c.at <= now
            /\ Counted(c.request.member, c.kind, WindowStart(c.kind, c.at))
      <3>1. ASSUME NEW c \in charges
            PROVE  c.kind \in Kinds /\ c.request \in Requests /\ c.at \in Times
        BY DEF TypeOK, Charge
      <3>2. ASSUME NEW c \in charges
            PROVE  c.request.member \in Members /\ c.at \in Nat
        BY <3>1, RequestTypes, TimeTypes
      <3>3. QED BY <2>2, <3>1, <3>2 DEF ChargesCounted
    <2> HIDE DEF old, new
    \* A window nothing is added to.
    <2>5. ASSUME NEW c \in charges,
                 ~(/\ c.request.member = m /\ c.kind \in debits
                   /\ WindowStart(c.kind, now) = WindowStart(c.kind, c.at))
          PROVE  Counted(c.request.member, c.kind, WindowStart(c.kind, c.at))'
      <3> DEFINE n == c.request.member
                 k == c.kind
                 w == WindowStart(k, c.at)
                 ends == w + limits.window[k]
                 row == rows[n].control
      <3>1. /\ n \in Members /\ k \in Kinds /\ Counted(n, k, w)
            /\ w \in Nat /\ limits.window[k] \in Nat /\ ends \in Nat
            /\ ends <= now \/ WindowStart(k, now) = w
        BY <2>2, <2>4, WindowIs, RequestShape
      <3> HIDE DEF n, k, w
      <3>2. Spent(n, k, w)' = Spent(n, k, w)
        <4>1. ASSUME NEW d \in debits
              PROVE  ~(/\ charge(d).kind = k /\ charge(d).request.member = n
                       /\ WindowStart(k, charge(d).at) = w)
          <5>1. charge(d).kind = d /\ charge(d).request = r /\ charge(d).at = now
            OBVIOUS
          <5>2. QED BY <2>5, <5>1 DEF n, k, w
        <4> HIDE DEF charge
        <4>2. QED BY <2>3, <4>1 DEF Spent
      <3>3. /\ IsFiniteSet(Spent(n, k, w))
            /\ Cardinality(Spent(n, k, w)) <= limits.quota[k]
            /\ \/ ends <= scope.lastNow
               \/ /\ rows[n] # None /\ row.retainUntil >= ends
                  /\ row.counters[k].start = w
                  /\ Cardinality(Spent(n, k, w)) <= row.counters[k].used
        BY <3>1 DEF Counted
      <3>4. \/ ends <= now
            \/ /\ rows'[n] # None /\ rows'[n].control.retainUntil >= ends
               /\ rows'[n].control.counters[k].start = w
               /\ Cardinality(Spent(n, k, w)) <= rows'[n].control.counters[k].used
        <4>1. SUFFICES ASSUME ~(ends <= now)
                       PROVE  /\ rows'[n] # None /\ rows'[n].control.retainUntil >= ends
                              /\ rows'[n].control.counters[k].start = w
                              /\ Cardinality(Spent(n, k, w)) <= rows'[n].control.counters[k].used
          OBVIOUS
        <4>2. ~(ends <= scope.lastNow)
          <5> HIDE DEF ends
          <5>1. QED BY <2>2, <3>1, <4>1
        <4>3. /\ rows[n] # None /\ row.retainUntil >= ends
              /\ row.counters[k].start = w
              /\ Cardinality(Spent(n, k, w)) <= row.counters[k].used
          BY <3>3, <4>2
        <4>4. row.retainUntil \in Nat
          BY <3>1, <4>3, RowTypes, ControlTypes
        <4>5. Alive(n, now)
          <5> HIDE DEF ends
          <5>1. row.retainUntil > now
            BY <2>2, <3>1, <4>1, <4>3, <4>4
          <5>2. QED BY <4>3, <5>1 DEF Alive
        <4>6. CASE n # m
          BY <2>1, <3>1, <4>3, <4>5, <4>6
        <4>7. CASE n = m
          <5>1. old.retainUntil = row.retainUntil /\ old.counters = row.counters
            BY <3>1, <4>5, <4>7, ControlIs DEF old
          <5>2. WindowStart(k, now) = w
            BY <3>1, <4>1
          <5>3. k \notin debits
            BY <2>5, <4>7, <5>2 DEF n, k, w
          <5>4. new.counters[k] = row.counters[k]
            BY <2>3, <3>1, <5>1, <5>3
          <5>5. new.retainUntil \in Nat
            BY <2>1, ControlTypes
          <5>6. new.retainUntil >= ends
            <6> HIDE DEF ends, row
            <6>1. QED BY <2>1, <3>1, <4>3, <4>4, <5>1, <5>5
          <5>7. rows'[n] # None /\ rows'[n].control = new
            BY <2>1, <4>7 DEF new
          <5>8. QED BY <4>3, <5>4, <5>6, <5>7
        <4>8. QED BY <4>6, <4>7
      <3>5. QED BY <2>2, <3>2, <3>3, <3>4 DEF Counted, n, k, w
    \* The window of a charge that is added.
    <2>6. ASSUME NEW k \in debits
          PROVE  Counted(m, k, WindowStart(k, now))'
      <3> DEFINE w == WindowStart(k, now)
                 spent == Spent(m, k, w)
                 x == charge(k)
                 ends == w + limits.window[k]
                 counter == old.counters[k]
      <3>1. /\ w \in Nat /\ w <= now /\ now < ends /\ ends \in Nat
            /\ limits.window[k] \in Nat /\ limits.quota[k] \in Nat \ {0}
        <4>1. /\ w \in Nat /\ w <= now /\ now < ends
          BY <2>2, WindowIs
        <4>2. limits.window[k] \in Nat /\ limits.quota[k] \in Nat \ {0}
          BY RequestShape
        <4>3. QED BY <4>1, <4>2
      <3>2. Spent(m, k, w)' = spent \cup {x}
        <4>1. ASSUME NEW d \in debits
              PROVE  (/\ charge(d).kind = k /\ charge(d).request.member = m
                      /\ WindowStart(k, charge(d).at) = w) <=> d = k
          OBVIOUS
        <4> HIDE DEF charge, w
        <4>2. QED BY <2>3, <4>1 DEF Spent
      <3>3. new.retainUntil \in Nat /\ new.retainUntil >= ends
        <4>1. new.retainUntil \in Nat
          BY <2>1, ControlTypes
        <4>2. new.retainUntil >= now + limits.window[k]
          BY <2>3
        <4> HIDE DEF w
        <4>3. QED BY <2>2, <3>1, <4>1, <4>2
      <3>4. new.counters[k] = Take(counter, w) /\ Affordable(old, k, now)
        BY <2>3
      <3>5. counter.start \in Nat /\ counter.used \in Nat
        BY <2>1, ControlTypes
      <3> HIDE DEF w, x
      <3>6. /\ IsFiniteSet(spent)
            /\ spent = {} \/ (counter.start = w /\ Cardinality(spent) <= counter.used)
        <4>1. CASE spent = {}
          BY <4>1, FS_EmptySet
        <4>2. CASE spent # {}
          <5>1. PICK c \in charges :
                  c.kind = k /\ c.request.member = m /\ WindowStart(k, c.at) = w
            BY <4>2 DEF Spent
          <5>2. /\ IsFiniteSet(spent)
                /\ \/ ends <= scope.lastNow
                   \/ /\ rows[m] # None /\ rows[m].control.retainUntil >= ends
                      /\ rows[m].control.counters[k].start = w
                      /\ Cardinality(spent) <= rows[m].control.counters[k].used
            BY <2>4, <5>1 DEF Counted
          <5>3. ~(ends <= scope.lastNow)
            <6> HIDE DEF ends
            <6>1. QED BY <2>2, <3>1
          <5>4. rows[m].control.retainUntil \in Nat
            BY <2>1, <5>2, <5>3, RowTypes, ControlTypes
          <5>5. Alive(m, now)
            <6> HIDE DEF ends
            <6>1. rows[m].control.retainUntil > now
              BY <2>2, <3>1, <5>2, <5>3, <5>4
            <6>2. QED BY <5>2, <5>3, <6>1 DEF Alive
          <5>6. counter = rows[m].control.counters[k]
            BY <2>1, <5>5, ControlIs DEF old
          <5>7. QED BY <5>2, <5>3, <5>6
        <4>3. QED BY <4>1, <4>2
      <3> DEFINE after == new.counters[k]
      <3>7. /\ after.start = w
            /\ after.used = IF counter.start = w THEN counter.used + 1 ELSE 1
        BY <3>4 DEF Take
      <3>8. counter.start = w => counter.used < limits.quota[k]
        BY <3>4 DEF Affordable, w
      <3>9. /\ IsFiniteSet(spent \cup {x})
            /\ Cardinality(spent) \in Nat /\ Cardinality(spent \cup {x}) \in Nat
            /\ Cardinality(spent \cup {x}) <= Cardinality(spent) + 1
        <4> HIDE DEF spent
        <4>1. /\ IsFiniteSet(spent \cup {x})
              /\ Cardinality(spent \cup {x}) =
                   IF x \in spent THEN Cardinality(spent) ELSE Cardinality(spent) + 1
          BY <3>6, FS_AddElement
        <4>2. Cardinality(spent) \in Nat
          BY <3>6, FS_CardinalityType
        <4>3. QED BY <4>1, <4>2
      <3>10. Cardinality({}) = 0
        BY FS_EmptySet
      <3>11. /\ Cardinality(spent \cup {x}) <= limits.quota[k]
             /\ Cardinality(spent \cup {x}) <= after.used
        <4> HIDE DEF spent, after, counter
        <4>1. CASE spent = {}
          <5>1. Cardinality(spent) = 0
            BY <3>10, <4>1
          <5>2. Cardinality(spent \cup {x}) <= 1
            BY <3>9, <5>1
          <5>3. limits.quota[k] >= 1 /\ after.used \in Nat /\ after.used >= 1
            BY <3>1, <3>5, <3>7
          <5>4. QED BY <3>1, <3>9, <5>2, <5>3
        <4>2. CASE counter.start = w /\ Cardinality(spent) <= counter.used
          BY <3>1, <3>5, <3>7, <3>8, <3>9, <4>2
        <4>3. QED BY <3>6, <4>1, <4>2
      <3>12. rows'[m] # None /\ rows'[m].control = new
        BY <2>1 DEF new
      <3> HIDE DEF spent
      <3>13. Counted(m, k, w)'
        BY <3>2, <3>3, <3>7, <3>9, <3>11, <3>12 DEF Counted
      <3>14. QED BY <3>13 DEF w
    <2>7. ASSUME NEW c \in charges'
          PROVE  c.at <= scope'.lastNow
                 /\ Counted(c.request.member, c.kind, WindowStart(c.kind, c.at))'
      <3>1. CASE c \in charges
        BY <2>2, <2>4, <2>5, <2>6, <3>1
      <3>2. CASE c \notin charges
        <4>1. PICK k \in debits : c = charge(k)
          BY <2>3, <2>7, <3>2
        <4>2. c.kind = k /\ c.request.member = m /\ c.at = now
          BY <4>1
        <4>3. QED BY <2>2, <2>6, <4>2
      <3>3. QED BY <3>1, <3>2
    <2>8. QED BY <2>7 DEF ChargesCounted
  <1>2. CASE ~ \E h \in Handlers, r \in Requests, now \in Times :
               Authorize(h, r, now) \/ AuthorizeRetry(h, r, now)
    <2>1. UNCHANGED <<scope, rows, charges>>
      BY <1>2, OtherSteps
    <2>2. QED BY <2>1 DEF ChargesCounted, Counted, Spent
  <1>3. QED BY <1>1, <1>2

LEMMA PaidStep == TypeOK /\ Owned /\ Fenced /\ PaidKnown /\ [Next]_vars => PaidKnown'
  <1> SUFFICES ASSUME TypeOK, Owned, Fenced, PaidKnown, [Next]_vars PROVE PaidKnown'
    OBVIOUS
  <1>1. ASSUME NEW h \in Handlers, NEW r \in Requests, NEW now \in Times,
               Authorize(h, r, now) \/ AuthorizeRetry(h, r, now)
        PROVE  PaidKnown'
    <2> DEFINE m == r.member
               old == ControlOf(m, now)
               new == rows'[m].control
               charge(k) == [kind |-> k, request |-> r, at |-> now]
               Known == superseded \cup Current(rows)
    <2>1. /\ m \in Members /\ rows'[m] # None
          /\ superseded' = superseded \cup ((Current(rows) \ Current(rows')) \ {None})
          /\ \/ new.publication = old.publication
             \/ /\ r.op = "publish" /\ new.publication = r.publication
                /\ r.publication.sequence > SequenceOf(old.publication)
                /\ now < r.publication.expires
      BY <1>1, TransactionIs
    <2>2. PICK debits \in SUBSET Kinds :
            /\ charges' = charges \cup {charge(k) : k \in debits}
            /\ "publish" \in debits =>
                 /\ r.op = "publish" /\ r.publication # old.publication
                 /\ new.publication = r.publication
      BY <1>1, ChargesOf
    <2>3. scope.lastNow <= now
      BY <1>1, AuthorizeIs
    <2>4. "publish" \in debits =>
            /\ r.op = "publish" /\ r.publication \notin Known
            /\ r.publication \in Current(rows')
      <3>1. SUFFICES ASSUME "publish" \in debits
                     PROVE  r.publication \notin Known /\ r.publication \in Current(rows')
        BY <2>2
      <3>2. /\ r.op = "publish" /\ new.publication = r.publication
            /\ r.publication.sequence > SequenceOf(old.publication)
            /\ now < r.publication.expires
        BY <2>1, <2>2, <3>1
      <3>3. r.publication \notin Known
        BY <2>3, <3>2, NeverAgain
      <3>4. new.publication \in Current(rows')
        BY <2>1 DEF Current
      <3>5. QED BY <3>2, <3>3, <3>4
    <2>5. ASSUME NEW c \in charges, c.kind = "publish"
          PROVE  /\ c.request.op = "publish" /\ c.request.publication \in Known
                 /\ c.request.publication \in superseded' \cup Current(rows')
      <3>1. c.request.op = "publish" /\ c.request.publication \in Known
        BY <2>5 DEF PaidKnown
      <3>2. c.request \in Requests
        BY DEF TypeOK, Charge
      <3>3. c.request.publication # None
        BY <3>1, <3>2, RequestTypes
      <3>4. QED BY <2>1, <3>1, <3>3
    <2>6. ASSUME NEW c \in charges' \ charges, c.kind = "publish"
          PROVE  "publish" \in debits /\ c = charge("publish") /\ c.request = r
      <3>1. PICK k \in debits : c = charge(k)
        BY <2>2, <2>6
      <3>2. c.kind = k /\ c.request = r
        BY <3>1
      <3>3. QED BY <2>6, <3>1, <3>2
    <2> HIDE DEF charge, Known, old, new
    <2>7. ASSUME NEW c \in charges', c.kind = "publish"
          PROVE  /\ c.request.op = "publish"
                 /\ c.request.publication \in superseded' \cup Current(rows')
      BY <2>4, <2>5, <2>6, <2>7
    <2>8. ASSUME NEW c \in charges', NEW e \in charges', c.kind = "publish", e.kind = "publish",
                 c.request.publication = e.request.publication
          PROVE  c = e
      <3>1. CASE c \in charges /\ e \in charges
        BY <2>8, <3>1 DEF PaidKnown
      <3>2. CASE c \notin charges /\ e \notin charges
        BY <2>6, <2>8, <3>2
      <3>3. CASE c \in charges /\ e \notin charges
        BY <2>4, <2>5, <2>6, <2>8, <3>3
      <3>4. CASE c \notin charges /\ e \in charges
        BY <2>4, <2>5, <2>6, <2>8, <3>4
      <3>5. QED BY <3>1, <3>2, <3>3, <3>4
    <2>9. QED BY <2>7, <2>8 DEF PaidKnown
  <1>2. CASE ~ \E h \in Handlers, r \in Requests, now \in Times :
               Authorize(h, r, now) \/ AuthorizeRetry(h, r, now)
    <2>1. UNCHANGED <<rows, superseded, charges>>
      BY <1>2, OtherSteps
    <2>2. QED BY <2>1 DEF PaidKnown, Current
  <1>3. QED BY <1>1, <1>2

LEMMA Inductive == IInv /\ [Next]_vars => IInv'
  BY TypeStep, RevisionsStep, OwnedStep, FencedStep, LeasesStep, ChargesStep, PaidStep DEF IInv

LEMMA Invariant == Spec => []IInv
  BY InitInv, Inductive, PTL DEF Spec
-----------------------------------------------------------------------------
(* Every variable has its type: rows, handlers, the cache and the scripts  *)
(* on their way hold what the requests put there. *)
THEOREM TypeCorrect == Spec => []TypeOK
  <1>1. IInv => TypeOK
    BY DEF IInv
  <1>2. QED BY <1>1, Invariant, PTL

(* However often requests are retried or repaired, on whatever devices and *)
(* replicas, and whenever rows expire and are made again, no member is     *)
(* charged more than a quota in one of its windows, and a publication is   *)
(* charged for once (Counter::take and retain_until). *)
THEOREM QuotasHold == Spec => []QuotaKept
  <1>1. IInv => QuotaKept
    <2> SUFFICES ASSUME IInv PROVE QuotaKept
      OBVIOUS
    <2>1. ASSUME NEW c \in charges
          PROVE  Cardinality({e \in charges :
                   /\ e.kind = c.kind /\ e.request.member = c.request.member
                   /\ WindowStart(e.kind, e.at) = WindowStart(c.kind, c.at)})
                     <= limits.quota[c.kind]
      <3> DEFINE w == WindowStart(c.kind, c.at)
                 S == {e \in charges :
                        /\ e.kind = c.kind /\ e.request.member = c.request.member
                        /\ WindowStart(e.kind, e.at) = w}
      <3>1. Cardinality(Spent(c.request.member, c.kind, w)) <= limits.quota[c.kind]
        BY DEF IInv, ChargesCounted, Counted
      <3> HIDE DEF w
      <3>2. \A e \in charges :
              (/\ e.kind = c.kind /\ e.request.member = c.request.member
               /\ WindowStart(e.kind, e.at) = w)
              <=> (/\ e.kind = c.kind /\ e.request.member = c.request.member
                   /\ WindowStart(c.kind, e.at) = w)
        OBVIOUS
      <3>3. S = Spent(c.request.member, c.kind, w)
        BY <3>2 DEF Spent
      <3>4. Cardinality(S) <= limits.quota[c.kind]
        BY <3>1, <3>3
      <3>5. QED BY <3>4 DEF w
    <2>2. QED BY <2>1 DEF IInv, PaidKnown, QuotaKept
  <1>2. QED BY <1>1, Invariant, PTL

(* A reader is given what the row vouches for in the same step, and no     *)
(* replaced publication ever becomes a row's again: neither by a late      *)
(* write nor after the row that knew of the newer one has expired (fetch   *)
(* and current of discovery_control.rs). *)
THEOREM SupersededIsNotServed == Spec => SupersededNeverServed
  <1>1. ASSUME IInv, [Next]_vars, NEW h \in Handlers,
               Reading(h, "fetched"), handlers'[h] # None, handlers'[h].stage = "served"
        PROVE  handlers[h].body \notin superseded
    <2>1. handlers[h] # None /\ handlers[h].stage = "fetched" /\ TypeOK /\ Fenced
      BY <1>1 DEF Reading, IInv
    <2>2. CASE Serve(h)
      <3>1. rows[handlers[h].target] # None
            /\ rows[handlers[h].target].control.publication = handlers[h].body
        BY <2>2 DEF Serve, Vouches, Vouched
      <3>2. handlers[h].target \in Members
        BY <2>1, HandlerTypes
      <3>3. handlers[h].body \in Current(rows)
        BY <3>1, <3>2 DEF Current
      <3>4. QED BY <2>1, <3>3 DEF Fenced
    <2>3. handlers'[h] # handlers[h]
      BY <1>1, <2>1
    <2>4. ASSUME NEW g \in Handlers, NEW r \in Requests, NEW now \in Times,
                 Authorize(g, r, now) \/ AuthorizeRetry(g, r, now)
          PROVE  FALSE
      <3>1. handlers[g] = None /\ \A k \in Handlers \ {g} : handlers'[k] = handlers[k]
        BY <2>1, <2>4, TransactionIs
      <3>2. QED BY <2>1, <2>3, <3>1
    <2>5. ASSUME NEW g \in Handlers, handlers' = [handlers EXCEPT ![g] = None]
          PROVE  FALSE
      BY <1>1, <2>1, <2>3, <2>5 DEF TypeOK
    <2>6. ASSUME NEW g \in Handlers, g # h,
                 handlers[g] # None /\ (Serve(g) \/ Continue(g) \/ \E m \in Members : Fetch(g, m))
          PROVE  FALSE
      BY <2>1, <2>3, <2>6, HandlerSteps
    <2>7. ASSUME Continue(h) PROVE FALSE
      <3>1. handlers'[h] = [handlers[h] EXCEPT !.stage = "reading", !.body = None]
        BY <2>1, <2>7 DEF Continue, TypeOK
      <3>2. handlers[h] \in Handler
        BY <2>1, HandlerTypes
      <3>3. handlers'[h].stage = "reading"
        BY <3>1, <3>2 DEF Handler
      <3>4. QED BY <1>1, <3>3
    <2>8. ASSUME NEW m \in Members, Fetch(h, m) PROVE FALSE
      BY <2>1, <2>8 DEF Fetch, Reading
    <2>9. ASSUME handlers' = handlers PROVE FALSE
      BY <2>3, <2>9
    <2>10. ASSUME NEW g \in Handlers, Serve(g), g # h PROVE FALSE
      BY <2>6, <2>10 DEF Serve, Reading
    <2>11. ASSUME NEW g \in Handlers, Continue(g), g # h PROVE FALSE
      BY <2>6, <2>11 DEF Continue, Reading
    <2>12. ASSUME NEW g \in Handlers, NEW m \in Members, Fetch(g, m), g # h PROVE FALSE
      BY <2>6, <2>12 DEF Fetch, Reading
    <2>13. ASSUME NEW g \in Handlers, Apply(g) \/ TimeOut(g) \/ Finish(g) PROVE FALSE
      BY <2>5, <2>13 DEF Apply, TimeOut, Finish
    <2>14. ASSUME NEW g \in Handlers, NEW m \in Members, CleanUp(g, m) PROVE FALSE
      BY <2>9, <2>14 DEF CleanUp
    <2>15. ASSUME NEW script \in delayed, RunLate(script) PROVE FALSE
      BY <2>9, <2>15 DEF RunLate
    <2>16. ASSUME NEW m \in Members, Evict(m) PROVE FALSE
      BY <2>9, <2>16 DEF Evict
    <2>17. ASSUME UNCHANGED vars PROVE FALSE
      BY <2>9, <2>17 DEF vars
    <2>18. QED
      BY <1>1, <2>2, <2>4, <2>7, <2>8, <2>10, <2>11, <2>12, <2>13, <2>14, <2>15, <2>16, <2>17
         DEF Next
  <1>2. IInv /\ [Next]_vars =>
          [\A h \in Handlers :
             Reading(h, "fetched") /\ handlers'[h] # None /\ handlers'[h].stage = "served"
               => handlers[h].body \notin superseded]_vars
    BY <1>1
  <1>3. QED BY <1>2, Invariant, PTL DEF Spec, SupersededNeverServed

(* A request signed before a device's last lease change, its disconnect    *)
(* among them, changes that lease only under a higher sequence: while it   *)
(* is valid the row still has the lease, whose sequence it must exceed     *)
(* (update_lease, and the retain_until of a lease). *)
THEOREM LeasesMoveOn == Spec => OldLeaseNeverReturns
  <1>1. ASSUME IInv, [Next]_vars, NEW m \in Members, NEW d \in Devices,
               leased[m][d] # None, leased'[m][d] # leased[m][d]
        PROVE  \/ leased'[m][d].request.issued > leased[m][d].at
               \/ leased'[m][d].request.sequence > leased[m][d].request.sequence
    <2> DEFINE e == leased[m][d]
               ends == e.at + limits.request
    <2>1. TypeOK /\ LeasesRemembered
      BY <1>1 DEF IInv
    <2>2. PICK h \in Handlers, r \in Requests, now \in Times :
            Authorize(h, r, now) \/ AuthorizeRetry(h, r, now)
      BY <1>1, <2>1, OtherSteps
    <2> DEFINE old == ControlOf(m, now)
    <2>3. /\ m = r.member
          /\ leased'[m][d] = [request |-> r, at |-> now]
          /\ old.leases[d] # None => old.leases[d].sequence < r.sequence
      <3> DEFINE before == ControlOf(r.member, now)
      <3>1. /\ \A n \in Members \ {r.member} : leased'[n] = leased[n]
            /\ \A k \in Devices :
                 \/ leased'[r.member][k] = leased[r.member][k]
                 \/ /\ leased'[r.member][k] = [request |-> r, at |-> now]
                    /\ before.leases[k] # None => before.leases[k].sequence < r.sequence
        <4> HIDE DEF before
        <4>1. QED BY <2>1, <2>2, LeasesOf DEF before
      <3>2. m = r.member
        BY <1>1, <3>1
      <3> HIDE DEF before
      <3>3. /\ leased'[m][d] = [request |-> r, at |-> now]
            /\ before.leases[d] # None => before.leases[d].sequence < r.sequence
        BY <1>1, <3>1, <3>2
      <3>4. QED BY <3>2, <3>3 DEF before
    <2>4. leased'[m][d].request = r
      BY <2>3
    <2>5. /\ scope.lastNow <= now /\ now < r.expires
          /\ scope.lastNow \in Nat /\ now \in Nat
      BY <2>1, <2>2, AuthorizeIs, TimeTypes DEF Verified, TypeOK
    <2>6. e.request \in Requests /\ e.at \in Times
      BY <1>1, <2>1 DEF TypeOK, LeaseChange
    <2>7. /\ e.at \in Nat /\ ends \in Nat /\ limits.request \in Nat
          /\ e.request.sequence \in Nat
          /\ r.issued \in Nat /\ r.expires \in Nat /\ r.sequence \in Nat
          /\ r.expires <= r.issued + limits.request
      <3>1. e.at \in Nat /\ limits.request \in Nat
        BY <2>6, RequestShape
      <3>2. r.expires <= r.issued + limits.request
        BY RequestShape
      <3>3. QED BY <2>6, <3>1, <3>2, RequestTypes
    <2>8. CASE ends <= now
      <3>1. r.issued > e.at
        <4> HIDE DEF e
        <4>1. QED BY <2>5, <2>7, <2>8
      <3>2. QED BY <2>4, <3>1
    <2>9. CASE ~(ends <= now)
      <3> DEFINE c == rows[m].control
      <3>1. ~(ends <= scope.lastNow)
        <4> HIDE DEF ends
        <4>1. QED BY <2>5, <2>7, <2>9
      <3>2. /\ rows[m] # None /\ c.retainUntil >= ends
            /\ c.leases[d] # None /\ c.leases[d].retain >= ends
            /\ c.leases[d].sequence = e.request.sequence
        BY <1>1, <2>1, <3>1 DEF LeasesRemembered, Remembered
      <3>3. c.retainUntil \in Nat /\ c.leases[d] \in Lease
        BY <2>1, <3>2, RowTypes, ControlTypes
      <3>4. c.leases[d].retain \in Nat
        BY <3>3 DEF Lease
      <3>5. Alive(m, now) /\ c.leases[d].retain > now
        <4> HIDE DEF ends
        <4>1. c.retainUntil > now /\ c.leases[d].retain > now
          BY <2>5, <2>7, <2>9, <3>2, <3>3, <3>4
        <4>2. QED BY <3>2, <4>1 DEF Alive
      <3>6. old.leases[d] = c.leases[d]
        BY <2>1, <3>2, <3>5, ControlIs
      <3>7. e.request.sequence < r.sequence
        BY <2>3, <3>2, <3>6
      <3>8. r.sequence > e.request.sequence
        <4> HIDE DEF e
        <4>1. QED BY <2>7, <3>7
      <3>9. QED BY <2>4, <3>8
    <2>10. QED BY <2>8, <2>9
  <1>2. IInv /\ [Next]_vars =>
          [\A m \in Members, d \in Devices :
             leased[m][d] # None /\ leased'[m][d] # leased[m][d] =>
               \/ leased'[m][d].request.issued > leased[m][d].at
               \/ leased'[m][d].request.sequence > leased[m][d].request.sequence]_vars
    BY <1>1
  <1>3. QED BY <1>2, Invariant, PTL DEF Spec, OldLeaseNeverReturns

(* Only a script whose caller has given up puts a replaced publication     *)
(* over another: every other script runs while its transaction holds the   *)
(* row at the revision its intent was committed under, and revisions are   *)
(* never given twice (with_current, and last_revision of the scope). *)
THEOREM RevisionsFence == Spec => SupersededOnlyLate
  <1>1. ASSUME IInv, [Next]_vars, NEW m \in Members,
               cache'[m].body # cache[m].body, cache'[m].body \in superseded
        PROVE  delayed' # delayed
    <2>1. TypeOK /\ Revisions /\ Fenced
      BY <1>1 DEF IInv
    <2>2. cache'[m].body # None
      BY <1>1, <2>1, NoneIsNothing DEF TypeOK
    <2>3. cache' # cache
      BY <1>1
    <2>4. ASSUME NEW h \in Handlers, Apply(h) PROVE FALSE
      <3> DEFINE n == handlers[h].request.member
                 p == handlers[h].publication
      <3>1. /\ handlers[h] # None /\ handlers[h].stage = "committed"
            /\ RowCurrent(h) /\ Run(Script(h))
        BY <2>4 DEF Apply, Mutate
      <3>2. Script(h).member = n /\ Script(h).publication = p
        BY DEF Script
      <3>3. cache'[m].body \in {None, cache[m].body}
              \cup (IF m = Script(h).member THEN {Script(h).publication} ELSE {})
        BY <2>1, <3>1, ScriptTypes, RunIs
      <3>4. m = n /\ cache'[m].body = p
        BY <1>1, <2>2, <3>2, <3>3
      <3>5. p \in {None, rows[n].control.publication}
        BY <2>1, <3>1 DEF Revisions
      <3>6. rows[n] # None
        BY <3>1 DEF RowCurrent
      <3>7. p \in Current(rows)
        BY <2>2, <3>4, <3>5, <3>6 DEF Current
      <3>8. QED BY <1>1, <2>1, <3>4, <3>7 DEF Fenced
    <2>5. ASSUME NEW n \in Members,
                 \/ cache' = [cache EXCEPT ![n].body = None]
                 \/ cache' = [cache EXCEPT ![n].live = 0]
          PROVE  FALSE
      <3>1. cache'[m].body \in {None, cache[m].body}
        BY <2>1, <2>5, EvictTypes
      <3>2. QED BY <1>1, <2>2, <3>1
    <2>6. ASSUME NEW n \in Members, Evict(n) PROVE FALSE
      <3>1. \/ cache' = [cache EXCEPT ![n].body = None]
            \/ cache' = [cache EXCEPT ![n].live = 0]
        BY <2>6 DEF Evict
      <3>2. QED BY <2>5, <3>1
    <2>7. ASSUME NEW h \in Handlers, NEW n \in Members, CleanUp(h, n) PROVE FALSE
      BY <2>5, <2>7 DEF CleanUp
    <2>8. ASSUME NEW h \in Handlers, NEW n \in Members, Fetch(h, n) PROVE FALSE
      BY <2>3, <2>8 DEF Fetch
    <2>9. ASSUME NEW h \in Handlers, TimeOut(h) \/ Serve(h) \/ Continue(h) \/ Finish(h)
          PROVE  FALSE
      BY <2>3, <2>9 DEF TimeOut, Serve, Continue, Finish
    <2>10. ASSUME NEW h \in Handlers, NEW r \in Requests, NEW now \in Times,
                  Authorize(h, r, now) \/ AuthorizeRetry(h, r, now)
           PROVE  FALSE
      BY <2>1, <2>3, <2>10, TransactionIs
    <2>11. ASSUME NEW script \in delayed, RunLate(script) PROVE delayed' # delayed
      BY <2>11 DEF RunLate
    <2>12. ~ UNCHANGED vars
      BY <2>3 DEF vars
    <2>13. QED BY <1>1, <2>4, <2>6, <2>7, <2>8, <2>9, <2>10, <2>11, <2>12 DEF Next
  <1>2. IInv /\ [Next]_vars =>
          [\A m \in Members :
             cache[m].body # None /\ cache'[m].body # cache[m].body
               /\ cache'[m].body \in superseded => delayed' # delayed]_vars
    BY <1>1
  <1>3. QED BY <1>2, Invariant, PTL DEF Spec, SupersededOnlyLate

(* Without late scripts no script puts one there at all. *)
THEOREM NoLateNoOverwrite ==
  ASSUME ~Late
  PROVE  Spec => SupersededCannotOverwrite
  <1>1. Init => delayed = {}
    BY DEF Init
  (* Every step that ~Late leaves keeps the scripts under way as they are. *)
  <1>2. delayed = {} /\ [Next]_vars => (delayed = {})'
    <2>1. UNCHANGED vars => delayed' = delayed
      BY DEF vars
    <2>2. \A m \in Members :
            /\ Evict(m) => delayed' = delayed
            /\ \A h \in Handlers : Fetch(h, m) \/ CleanUp(h, m) => delayed' = delayed
      BY DEF Evict, Fetch, CleanUp
    <2>3. \A h \in Handlers :
            Apply(h) \/ TimeOut(h) \/ Serve(h) \/ Continue(h) \/ Finish(h) => delayed' = delayed
      BY DEF Apply, TimeOut, Serve, Continue, Finish
    <2>4. \A h \in Handlers, r \in Requests, now \in Times :
            Authorize(h, r, now) \/ AuthorizeRetry(h, r, now) => delayed' = delayed
      BY DEF Authorize, AuthorizeRetry, Commit
    <2>5. [Next]_vars => delayed' = delayed \/ delayed # {}
      BY <2>1, <2>2, <2>3, <2>4 DEF Next
    <2> QED
      BY <2>5
  <1>3. Spec => [](delayed = {})
    BY <1>1, <1>2, PTL DEF Spec
  <1>4. delayed = {} /\ (delayed = {})' /\
          [\A m \in Members :
             cache[m].body # None /\ cache'[m].body # cache[m].body
               /\ cache'[m].body \in superseded => delayed' # delayed]_vars
        => [\A m \in Members :
             cache[m].body # None /\ cache'[m].body # cache[m].body
               => cache'[m].body \notin superseded]_vars
    OBVIOUS
  <1>5. Spec => SupersededOnlyLate
    BY RevisionsFence
  <1>6. QED BY <1>3, <1>4, <1>5, PTL DEF SupersededOnlyLate, SupersededCannotOverwrite
=============================================================================
