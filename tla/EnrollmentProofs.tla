-------------------------- MODULE EnrollmentProofs --------------------------
(***************************************************************************)
(* Theorems about Enrollment, for any delegations, handlers, clients,      *)
(* times and limits.  What holds however a store prunes comes first: every *)
(* publication there is, in a handler, a row or a root, was listed in its  *)
(* own slot from the members' table.  What depends on pruning comes last.  *)
(* SQLite's store, if its limit in bytes never makes it prune, gives a     *)
(* slot that has lost its row never another; pruning by bytes, both stores *)
(* may drop a newer row for an older one, and do so alike.                 *)
(***************************************************************************)
EXTENDS Enrollment, FiniteSetTheorems, TLAPS

TypeOK ==
    /\ clock \in Nat
    /\ members \in [Members -> Delegations \cup {None}]
    /\ \A m \in Members : members[m] # None => members[m].member = m
    /\ rows \in [Slots -> Row \cup {None}]
    /\ roots \in [Slots -> Publication \cup {None}]
    /\ handlers \in [Handlers -> Handler \cup {None}]
    /\ served \subseteq Publication
    /\ clients \in [Clients -> [clock : Nat, publication : Publication \cup {None}]]
    /\ owners \in [Clients -> Delegations \cup {None}]
    /\ joined \subseteq [delegation : Delegations, at : Nat]

(* The rows of the tables are where they belong, and a handler has a       *)
(* publication from the time it has listed one or read one. *)
Placed ==
    /\ \A s \in Slots : rows[s] # None => rows[s].publication.slot = s
    /\ \A s \in Slots : roots[s] # None => roots[s].slot = s
    /\ \A h \in Handlers : handlers[h] # None =>
        /\ handlers[h].now <= clock
        /\ handlers[h].step \in {"putting", "installing", "marking"} =>
            handlers[h].publication # None

(* joined is the history of members: each of a member's registrations is   *)
(* issued after the ones before, and what it has is the latest. *)
History ==
    /\ \A j \in joined :
        /\ j.at <= clock
        /\ members[j.delegation.member] # None
        /\ j.delegation.issued <= members[j.delegation.member].issued
    /\ \A j, k \in joined :
        j.delegation.member = k.delegation.member /\ j.delegation.issued = k.delegation.issued
            => j.delegation = k.delegation
    /\ \A m \in Members : members[m] # None => \E j \in joined : j.delegation = members[m]

(* What WaitIsEnough says of a slot's root, of any publication. *)
NobodyForgotten(p) ==
    \A j \in joined :
        j.at < StartOf(p.slot) /\ CoversSlot(j.delegation, p.slot)
        /\ (\A k \in joined : k.delegation.member = j.delegation.member
                                => k.delegation.issued <= j.delegation.issued)
            => j.delegation \in p.roster

(* A publication was listed from the members' table, in its slot. *)
WasListed(p) ==
    /\ StartOf(p.slot) <= clock
    /\ \A d \in p.roster : members[d.member] # None /\ members[d.member].secret = d.secret
    /\ NobodyForgotten(p)

Published ==
    {p \in Publication :
        \/ \E h \in Handlers : handlers[h] # None /\ handlers[h].publication = p
        \/ \E s \in Slots : rows[s] # None /\ rows[s].publication = p
        \/ \E s \in Slots : roots[s] = p}
AllListed == \A p \in Published : WasListed(p)

(* The entry an account is proved under is of the secret the member has. *)
OwnersBound ==
    \A m \in Clients : owners[m] # None =>
        members[m] # None /\ members[m].secret = owners[m].secret

IInv == TypeOK /\ Placed /\ History /\ AllListed /\ OwnersBound
-----------------------------------------------------------------------------
(* Where only the number of slots prunes, the rows are the newest slots    *)
(* that were ever put: a slot without a row that once had one is older     *)
(* than all of them.                                                       *)
Outlived(slot) ==
    /\ Cardinality(RowSlots) = MaxRetained
    /\ \A s \in RowSlots : slot < s
WasPut(p) ==
    \/ rows[p.slot] # None /\ rows[p.slot].publication = p
    \/ Outlived(p.slot)

Retention ==
    /\ IsFiniteSet(RowSlots) /\ Cardinality(RowSlots) <= MaxRetained
    /\ \A s \in RowSlots : SizeOf(rows[s].publication) <= MaxBytes
    /\ \A h \in Handlers :
        /\ At(h, "installing") \/ At(h, "marking") => WasPut(handlers[h].publication)
        /\ At(h, "marking") => roots[handlers[h].publication.slot] = handlers[h].publication
    /\ \A s \in Slots : roots[s] # None => WasPut(roots[s])

SqliteInv == Retention /\ HistoryIsInstalled /\ ServedIsCommonRoot
-----------------------------------------------------------------------------
(* A slot starts by the time that falls into it, and ends after it. *)
LEMMA SlotBounds ==
  ASSUME NEW now \in Times
  PROVE  /\ SlotOf(now) \in Slots /\ SlotOf(now) \in Nat
         /\ StartOf(SlotOf(now)) <= now /\ now < EndOf(SlotOf(now))
  <1>1. now \in Nat /\ Period \in Nat /\ Period > 0
    BY EnrollmentConstants
  <1>2. SlotOf(now) \in Nat /\ SlotOf(now) * Period <= now /\ now < (SlotOf(now) + 1) * Period
    BY <1>1, SMTT(20) DEF SlotOf
  <1>3. QED BY <1>2 DEF Slots, StartOf, EndOf

(* Slots are numbered, and what they start and end at are numbers. *)
LEMMA SlotTypes ==
  ASSUME NEW s \in Slots
  PROVE  s \in Nat /\ StartOf(s) \in Nat /\ EndOf(s) \in Nat
  <1>1. s \in Nat /\ Period \in Nat
    BY SlotBounds, EnrollmentConstants DEF Slots
  <1>2. QED BY <1>1 DEF StartOf, EndOf

(* What a delegation, a publication, a row and a handler are made of. *)
LEMMA DelegationTypes ==
  ASSUME NEW d \in Delegations
  PROVE  /\ d # None /\ d.member \in Members
         /\ d.issued \in Nat /\ d.expires \in Nat /\ 0 < d.issued /\ d.issued < d.expires
  BY EnrollmentConstants, NoneIsNothing DEF DelegationShape

(* A publication has a slot and one entry a member. *)
LEMMA PublicationTypes ==
  ASSUME NEW p \in Publication
  PROVE  /\ p # None /\ p.slot \in Slots /\ p.roster \subseteq Delegations
         /\ OnePerMember(p.roster)
  BY NoneIsNothing DEF Publication

(* A row has a publication, a handler a time and maybe a publication. *)
LEMMA RowTypes ==
  ASSUME TypeOK, NEW s \in Slots, rows[s] # None
  PROVE  rows[s] \in Row /\ rows[s].publication \in Publication /\ rows[s].installed \in BOOLEAN
  BY DEF TypeOK, Row

(* Under any step. *)
LEMMA HandlerTypes ==
  ASSUME TypeOK, NEW h \in Handlers, handlers[h] # None
  PROVE  /\ handlers[h] \in Handler /\ handlers[h].now \in Times
         /\ handlers[h].publication \in Publication \cup {None}
  BY DEF TypeOK, Handler

(* A handler that has come to its publication has one. *)
LEMMA PublicationOf ==
  ASSUME TypeOK, Placed, NEW h \in Handlers,
         At(h, "putting") \/ At(h, "installing") \/ At(h, "marking")
  PROVE  /\ handlers[h].publication \in Publication
         /\ handlers[h].publication.slot \in Slots
  <1>1. handlers[h] # None /\ handlers[h].publication # None
    BY DEF At, Placed
  <1>2. QED BY <1>1, HandlerTypes, PublicationTypes
-----------------------------------------------------------------------------
(* What a listing lists is a publication of its slot. *)
LEMMA ListingTypes ==
  ASSUME TypeOK, NEW h \in Handlers, List(h)
  PROVE  /\ handlers'[h].publication \in Publication
         /\ handlers' = [handlers EXCEPT ![h].step = "putting",
                                         ![h].publication = handlers'[h].publication]
         /\ handlers[h] # None
         /\ handlers'[h].publication.slot = SlotOf(handlers[h].now)
         /\ handlers'[h].publication.roster =
              {d \in Records(handlers[h].now) : Listed(d, SlotOf(handlers[h].now))}
  <1> DEFINE now == handlers[h].now
             roster == {d \in Records(now) : Listed(d, SlotOf(now))}
             p == [slot |-> SlotOf(now), roster |-> roster]
  <1>1. handlers[h] # None /\ now \in Times /\ handlers[h] \in Handler
    BY HandlerTypes DEF List, At
  <1>2. /\ handlers' = [handlers EXCEPT ![h].step = "putting", ![h].publication = p]
        /\ roster # {}
    BY DEF List
  <1>3. handlers'[h] = [handlers[h] EXCEPT !.step = "putting", !.publication = p]
    BY <1>2 DEF TypeOK
  <1>4. handlers'[h].publication = p
    BY <1>1, <1>3 DEF Handler
  <1>5. roster \subseteq Delegations /\ \A d \in roster : members[d.member] = d
    <2>1. \A d \in roster : \E m \in Members : d = members[m] /\ d # None
      BY DEF Records
    <2>2. QED BY <2>1 DEF TypeOK
  <1>6. OnePerMember(roster)
    BY <1>5 DEF OnePerMember
  <1>7. p \in Publication
    BY <1>1, <1>2, <1>5, <1>6, SlotBounds DEF Publication
  <1>8. p.slot = SlotOf(now) /\ p.roster = roster
    OBVIOUS
  <1> HIDE DEF p
  <1>9. QED BY <1>1, <1>2, <1>4, <1>7, <1>8
-----------------------------------------------------------------------------
(* Types are kept: first by the steps of a call, which change the tables. *)
LEMMA HandlerStepTypes ==
  ASSUME TypeOK, Placed, NEW h \in Handlers,
         \/ Fail(h) \/ ReadPending(h) \/ List(h) \/ PutPending(h)
         \/ Install(h) \/ MarkInstalled(h)
         \/ \E slot \in Slots : Checkpoint(h, slot)
  PROVE  TypeOK'
  <1> USE DEF TypeOK
  <1>0. ASSUME NEW step \in {"listing", "putting", "installing", "marking"}, handlers[h] # None
        PROVE  [handlers EXCEPT ![h].step = step] \in [Handlers -> Handler \cup {None}]
    BY <1>0 DEF Handler
  <1>1. CASE Fail(h)
    BY <1>1 DEF Fail, Ends
  <1>2. CASE ReadPending(h)
    <2> DEFINE row == rows[SlotOf(handlers[h].now)]
    <2>1. SlotOf(handlers[h].now) \in Slots /\ handlers[h] # None /\ handlers[h] \in Handler
      BY <1>2, HandlerTypes, SlotBounds DEF ReadPending, At
    <2>2. row # None => row.publication \in Publication
      BY <2>1, RowTypes
    <2>3. /\ UNCHANGED <<clock, members, rows, roots, joined, clients, owners>>
          /\ \/ row = None /\ Goes(h, "listing") /\ UNCHANGED served
             \/ row # None /\ Answer(h, row.publication)
             \/ /\ row # None /\ UNCHANGED served
                /\ handlers' = [handlers EXCEPT ![h].step = "installing",
                                                ![h].publication = row.publication]
      BY <1>2 DEF ReadPending
    <2> HIDE DEF row
    <2>4. CASE row = None /\ Goes(h, "listing") /\ UNCHANGED served
      BY <1>0, <2>1, <2>3, <2>4 DEF Goes
    <2>5. CASE row # None /\ Answer(h, row.publication)
      BY <2>2, <2>3, <2>5 DEF Answer, Ends
    <2>6. CASE /\ row # None /\ UNCHANGED served
               /\ handlers' = [handlers EXCEPT ![h].step = "installing",
                                               ![h].publication = row.publication]
      <3>1. handlers' \in [Handlers -> Handler \cup {None}]
        BY <2>1, <2>2, <2>6 DEF Handler
      <3>2. QED BY <2>3, <2>6, <3>1
    <2>7. QED BY <2>3, <2>4, <2>5, <2>6
  <1>3. CASE List(h)
    <2>1. /\ handlers'[h].publication \in Publication
          /\ handlers' = [handlers EXCEPT ![h].step = "putting",
                                          ![h].publication = handlers'[h].publication]
      BY <1>3, ListingTypes
    <2>2. handlers[h] \in Handler
      BY <1>3, ListingTypes
    <2>3. [handlers[h] EXCEPT !.step = "putting", !.publication = handlers'[h].publication]
            \in Handler
      BY <2>1, <2>2 DEF Handler
    <2>4. handlers' \in [Handlers -> Handler \cup {None}]
      BY <2>1, <2>3
    <2>5. QED BY <1>3, <2>4 DEF List
  <1>4. CASE PutPending(h)
    <2> DEFINE p == handlers[h].publication
    <2>1. p \in Publication /\ p.slot \in Slots /\ handlers[h] # None
      BY <1>4, PublicationOf DEF PutPending, At
    <2>2. UNCHANGED <<clock, members, roots, joined, clients, owners>>
      BY <1>4 DEF PutPending
    <2>3. handlers' \in [Handlers -> Handler \cup {None}] /\ served' \subseteq Publication
      BY <1>0, <1>4, <2>1 DEF PutPending, Goes, Answer, Ends
    <2>4. rows' \in [Slots -> Row \cup {None}]
      <3>1. [publication |-> p, installed |-> FALSE] \in Row
        BY <2>1 DEF Row
      <3>2. \/ UNCHANGED rows
            \/ /\ \A s \in Slots :
                    rows'[s] \in {None, [publication |-> p, installed |-> FALSE], rows[s]}
               /\ rows' = [s \in Slots |-> rows'[s]]
        BY <1>4 DEF PutPending
      <3>3. QED BY <3>1, <3>2
    <2>5. QED BY <2>2, <2>3, <2>4
  <1>5. CASE Install(h)
    <2>1. handlers[h].publication \in Publication /\ handlers[h] # None
      BY <1>5, PublicationOf DEF Install, At
    <2>2. roots' \in [Slots -> Publication \cup {None}]
      BY <1>5, <2>1 DEF Install
    <2>3. QED BY <1>0, <1>5, <2>1, <2>2 DEF Install, Goes
  <1>6. CASE MarkInstalled(h)
    <2> DEFINE p == handlers[h].publication
    <2>1. p \in Publication /\ p.slot \in Slots /\ rows[p.slot] # None
      BY <1>6, PublicationOf DEF MarkInstalled
    <2>2. rows' \in [Slots -> Row \cup {None}]
      BY <1>6, <2>1, RowTypes DEF MarkInstalled, Row
    <2>3. QED BY <1>6, <2>1, <2>2 DEF MarkInstalled, Answer, Ends
  <1>7. ASSUME NEW slot \in Slots, Checkpoint(h, slot) PROVE TypeOK'
    BY <1>7, RowTypes DEF Checkpoint, Retained, Answer, Ends
  <1>8. QED BY <1>1, <1>2, <1>3, <1>4, <1>5, <1>6, <1>7

(* Then by those that move the clock, the members or the clients. *)
LEMMA NextTypeOK == TypeOK /\ Placed /\ [Next]_vars => TypeOK'
  <1> SUFFICES ASSUME TypeOK, Placed, [Next]_vars PROVE TypeOK'
    OBVIOUS
  <1>1. CASE UNCHANGED vars
    BY <1>1 DEF TypeOK, vars, service
  <1>2. ASSUME NEW h \in Handlers, NEW now \in Times, Begin(h, now) PROVE TypeOK'
    BY <1>2, EnrollmentConstants DEF TypeOK, Begin, ObserveClock, Handler
  <1>3. ASSUME NEW h \in Handlers, NEW d \in Delegations, Enroll(h, d) PROVE TypeOK'
    BY <1>3, DelegationTypes DEF TypeOK, Enroll, Upsert, Ends
  <1>4. ASSUME NEW m \in Clients, Refresh(m) PROVE TypeOK'
    <2>1. clients[m].publication \in Publication
      BY <1>4 DEF TypeOK, Refresh
    <2>2. Own(m, clients[m].publication) \subseteq Delegations
      BY <2>1, PublicationTypes DEF Own
    <2>3. QED BY <1>4, <2>2 DEF TypeOK, Refresh, service
  <1>5. ASSUME NEW m \in Clients, NEW p \in served, NEW at \in Times,
               \/ Current(m, p, at) \/ \E now \in Times : Historical(m, p, at, now)
               \/ \E d \in Delegations, from \in Times : Acquire(m, d, from, p, at)
        PROVE TypeOK'
    <2>1. /\ UNCHANGED <<service, owners>>
          /\ Takes(m, p, at) \/ \E now \in Times : Takes(m, p, now)
      BY <1>5 DEF Current, Historical, Acquire
    <2>2. Times \subseteq Nat /\ p \in Publication
      BY EnrollmentConstants DEF TypeOK
    <2>3. PICK now \in Times : Takes(m, p, now)
      BY <2>1
    <2>4. clients' \in [Clients -> [clock : Nat, publication : Publication \cup {None}]]
      BY <2>2, <2>3 DEF TypeOK, Takes
    <2>5. QED BY <2>1, <2>4 DEF TypeOK, service
  <1>6. QED BY <1>1, <1>2, <1>3, <1>4, <1>5, HandlerStepTypes DEF Next
-----------------------------------------------------------------------------
(* Which calls write which table. *)
LEMMA WhoWrites ==
  ASSUME [Next]_vars
  PROVE  /\ UNCHANGED rows \/ \E h \in Handlers : PutPending(h) \/ MarkInstalled(h)
         /\ UNCHANGED roots \/ \E h \in Handlers : Install(h)
         /\ \/ UNCHANGED served
            \/ \E h \in Handlers :
                 \/ ReadPending(h) \/ PutPending(h) \/ MarkInstalled(h)
                 \/ \E slot \in Slots : Checkpoint(h, slot)
         /\ UNCHANGED owners \/ \E m \in Clients : Refresh(m)
  <1>1. CASE UNCHANGED vars
    BY <1>1 DEF vars, service
  <1>2. ASSUME NEW h \in Handlers,
               \/ \E now \in Times : Begin(h, now)
               \/ Fail(h) \/ List(h)
               \/ \E d \in Delegations : Enroll(h, d)
        PROVE  UNCHANGED <<rows, roots, served, owners>>
    BY <1>2 DEF Begin, Fail, List, Enroll
  <1>3. ASSUME NEW h \in Handlers, PutPending(h) \/ MarkInstalled(h)
        PROVE  UNCHANGED <<roots, owners>>
    BY <1>3 DEF PutPending, MarkInstalled
  <1>4. ASSUME NEW h \in Handlers, Install(h)
        PROVE  UNCHANGED <<rows, served, owners>>
    BY <1>4 DEF Install
  <1>5. ASSUME NEW h \in Handlers, ReadPending(h) \/ \E slot \in Slots : Checkpoint(h, slot)
        PROVE  UNCHANGED <<rows, roots, owners>>
    BY <1>5 DEF ReadPending, Checkpoint
  <1>6. ASSUME NEW m \in Clients, Refresh(m)
        PROVE  UNCHANGED <<rows, roots, served>>
    BY <1>6 DEF Refresh, service
  <1>7. ASSUME NEW m \in Clients, NEW p \in served, NEW at \in Times,
               \/ Current(m, p, at) \/ \E now \in Times : Historical(m, p, at, now)
               \/ \E d \in Delegations, from \in Times : Acquire(m, d, from, p, at)
        PROVE  UNCHANGED <<rows, roots, served, owners>>
    BY <1>7 DEF Current, Historical, Acquire, service
  <1>8. QED BY <1>1, <1>2, <1>3, <1>4, <1>5, <1>6, <1>7 DEF Next
-----------------------------------------------------------------------------
(* A step moves the clock forward or registers one delegation. *)
LEMMA Registrations ==
  ASSUME TypeOK, [Next]_vars
  PROVE  /\ clock \in Nat /\ clock' \in Nat /\ clock <= clock'
         /\ \/ UNCHANGED <<members, joined>>
            \/ \E d \in Delegations : Upsert(d) /\ clock' = clock
  <1>0. clock \in Nat
    BY DEF TypeOK
  <1>1. ASSUME NEW h \in Handlers, NEW now \in Times, Begin(h, now)
        PROVE  clock' \in Nat /\ clock <= clock' /\ UNCHANGED <<members, joined>>
    BY <1>0, <1>1, EnrollmentConstants DEF Begin, ObserveClock
  <1>2. ASSUME NEW h \in Handlers, NEW d \in Delegations, Enroll(h, d)
        PROVE  Upsert(d) /\ clock' = clock
    BY <1>2 DEF Enroll
  <1>3. CASE UNCHANGED <<clock, members, joined>>
    BY <1>0, <1>3
  <1>4. ASSUME NEW h \in Handlers,
               \/ Fail(h) \/ ReadPending(h) \/ List(h) \/ PutPending(h)
               \/ Install(h) \/ MarkInstalled(h)
               \/ \E slot \in Slots : Checkpoint(h, slot)
        PROVE  UNCHANGED <<clock, members, joined>>
    BY <1>4 DEF Fail, ReadPending, List, PutPending, Install, MarkInstalled, Checkpoint
  <1>5. ASSUME NEW m \in Clients,
               \/ Refresh(m)
               \/ \E p \in served, at \in Times :
                    \/ Current(m, p, at) \/ \E now \in Times : Historical(m, p, at, now)
                    \/ \E d \in Delegations, from \in Times : Acquire(m, d, from, p, at)
        PROVE  UNCHANGED <<clock, members, joined>>
    BY <1>5 DEF Refresh, Current, Historical, Acquire, service
  <1>6. CASE UNCHANGED vars
    BY <1>0, <1>6 DEF vars, service
  <1>7. QED BY <1>0, <1>1, <1>2, <1>3, <1>4, <1>5, <1>6 DEF Next

(* A registration is the member's first, or is issued later and is of the  *)
(* same secret; nobody else's row changes. *)
LEMMA UpsertIs ==
  ASSUME TypeOK, NEW d \in Delegations, Upsert(d)
  PROVE  /\ d.member \in Members /\ d # None /\ d.issued \in Nat
         /\ members'[d.member] = d
         /\ \A m \in Members : m # d.member => members'[m] = members[m]
         /\ joined' = joined \cup {[delegation |-> d, at |-> clock]}
         /\ members[d.member] # None =>
              /\ members[d.member].issued \in Nat /\ members[d.member].issued < d.issued
              /\ members[d.member].secret = d.secret
  <1>1. d.member \in Members /\ d # None /\ d.issued \in Nat
    BY DelegationTypes
  <1>2. members[d.member] # None => members[d.member].issued \in Nat
    BY <1>1, DelegationTypes DEF TypeOK
  <1>3. QED BY <1>1, <1>2 DEF TypeOK, Upsert, Renews

(* Nobody loses their row, or their secret. *)
LEMMA SecretsStay ==
  ASSUME TypeOK, [Next]_vars, NEW m \in Members, members[m] # None
  PROVE  members'[m] # None /\ members'[m].secret = members[m].secret
  <1>1. CASE UNCHANGED <<members, joined>>
    BY <1>1
  <1>2. ASSUME NEW d \in Delegations, Upsert(d)
        PROVE  members'[m] # None /\ members'[m].secret = members[m].secret
    BY <1>2, UpsertIs
  <1>3. QED BY <1>1, <1>2, Registrations

(* What members have registered is dated and never comes back. *)
LEMMA NextHistory == TypeOK /\ History /\ [Next]_vars => History'
  <1> SUFFICES ASSUME TypeOK, History, [Next]_vars PROVE History'
    OBVIOUS
  <1>0. \A j \in joined : /\ j.at \in Nat /\ j.delegation \in Delegations
                          /\ j.delegation.member \in Members /\ j.delegation.issued \in Nat
    BY DelegationTypes DEF TypeOK
  <1>1. CASE UNCHANGED <<members, joined>>
    <2>1. \A j \in joined : j.at <= clock'
      BY <1>0, Registrations DEF History
    <2>2. QED BY <1>1, <2>1 DEF History
  <1>2. ASSUME NEW d \in Delegations, Upsert(d), clock' = clock PROVE History'
    <2> DEFINE new == [delegation |-> d, at |-> clock]
    <2>0. new.delegation = d /\ new.at = clock /\ clock \in Nat
      BY DEF TypeOK
    <2> HIDE DEF new
    <2>1. joined' = joined \cup {new}
      BY <1>2, UpsertIs DEF new
    <2>2. ASSUME NEW j \in joined, j.delegation.member = d.member
          PROVE  j.delegation.issued < d.issued
      <3>1. /\ members[d.member] # None /\ members[d.member].issued \in Nat
            /\ members[d.member].issued < d.issued
        BY <1>2, <2>2, UpsertIs DEF History
      <3>2. j.delegation.issued <= members[d.member].issued
        BY <2>2 DEF History
      <3>3. QED BY <1>0, <1>2, <3>1, <3>2, UpsertIs
    <2>3. ASSUME NEW j \in joined'
          PROVE  /\ j.at <= clock
                 /\ members'[j.delegation.member] # None
                 /\ j.delegation.issued <= members'[j.delegation.member].issued
      <3>1. CASE j = new
        BY <1>2, <2>0, <3>1, UpsertIs
      <3>2. CASE j \in joined /\ j.delegation.member = d.member
        <4>1. members'[d.member] = d /\ d # None /\ d.issued \in Nat
          BY <1>2, UpsertIs
        <4>2. j.delegation.issued <= d.issued
          BY <1>0, <2>2, <3>2, <4>1
        <4>3. j.at <= clock
          BY <3>2 DEF History
        <4>4. QED BY <3>2, <4>1, <4>2, <4>3
      <3>3. CASE j \in joined /\ j.delegation.member # d.member
        BY <1>0, <1>2, <3>3, UpsertIs DEF History
      <3>4. QED BY <2>1, <3>1, <3>2, <3>3
    <2>4. ASSUME NEW j \in joined', NEW k \in joined',
                 j.delegation.member = k.delegation.member, j.delegation.issued = k.delegation.issued
          PROVE  j.delegation = k.delegation
      <3>1. CASE j \in joined /\ k \in joined
        BY <2>4, <3>1 DEF History
      <3>2. CASE j = new \/ k = new
        <4>1. d.issued \in Nat
          BY <1>2, UpsertIs
        <4>2. QED BY <1>0, <2>0, <2>1, <2>2, <2>4, <3>2, <4>1
      <3>3. QED BY <2>1, <3>1, <3>2
    <2>5. ASSUME NEW m \in Members, members'[m] # None
          PROVE  \E j \in joined' : j.delegation = members'[m]
      <3>1. CASE m = d.member
        <4>1. new \in joined' /\ new.delegation = members'[m]
          BY <1>2, <2>0, <2>1, <3>1, UpsertIs
        <4>2. QED BY <4>1
      <3>2. CASE m # d.member
        BY <1>2, <2>1, <2>5, <3>2, UpsertIs DEF History
      <3>3. QED BY <3>1, <3>2
    <2>6. QED BY <1>2, <2>3, <2>4, <2>5 DEF History
  <1>3. QED BY <1>1, <1>2, Registrations
-----------------------------------------------------------------------------
(* What is in hand, in a row or in a root was already, or has just been    *)
(* listed. *)
LEMMA NewlyPublished ==
  ASSUME TypeOK, Placed, [Next]_vars, NEW p \in Published'
  PROVE  \/ p \in Published
         \/ \E h \in Handlers : List(h) /\ handlers'[h].publication = p
  <1> USE DEF Published
  <1>0. p \in Publication /\ TypeOK'
    BY NextTypeOK
  <1>1. ASSUME NEW h \in Handlers, List(h)
        PROVE  p \in Published \/ handlers'[h].publication = p
    <2>1. \A k \in Handlers : k # h => handlers'[k] = handlers[k]
      BY <1>1 DEF List, TypeOK
    <2>2. UNCHANGED <<rows, roots>>
      BY <1>1 DEF List
    <2>3. QED BY <1>0, <2>1, <2>2
  <1>2. ASSUME NEW h \in Handlers,
               Fail(h) \/ ReadPending(h) \/ PutPending(h) \/ Install(h) \/ MarkInstalled(h)
        PROVE  p \in Published
    <2>1. /\ handlers[h] # None
          /\ \A k \in Handlers : k # h => handlers'[k] = handlers[k]
          /\ \/ handlers'[h] = None
             \/ /\ handlers'[h] # None
                /\ \/ handlers'[h].publication = handlers[h].publication
                   \/ \E s \in Slots : rows[s] # None /\ handlers'[h].publication = rows[s].publication
      <3>1. CASE Fail(h) \/ MarkInstalled(h)
        BY <3>1 DEF TypeOK, Fail, MarkInstalled, Answer, Ends, At
      <3>2. CASE PutPending(h) \/ Install(h)
        <4>1. handlers[h] # None /\ handlers[h] \in Handler
          BY <3>2, HandlerTypes DEF PutPending, Install, At
        <4>2. \/ handlers' = [handlers EXCEPT ![h] = None]
              \/ \E step \in {"installing", "marking"} :
                    handlers' = [handlers EXCEPT ![h].step = step]
          BY <3>2 DEF PutPending, Install, Goes, Answer, Ends
        <4>3. ASSUME NEW step, handlers' = [handlers EXCEPT ![h].step = step]
              PROVE  handlers'[h].publication = handlers[h].publication
          BY <4>1, <4>3 DEF TypeOK, Handler
        <4>4. \A k \in Handlers : k # h => handlers'[k] = handlers[k]
          BY <4>2 DEF TypeOK
        <4>5. QED BY <4>1, <4>2, <4>3, <4>4 DEF TypeOK
      <3>3. CASE ReadPending(h)
        <4> DEFINE row == rows[SlotOf(handlers[h].now)]
        <4>1. SlotOf(handlers[h].now) \in Slots /\ handlers[h] # None /\ handlers[h] \in Handler
          BY <3>3, HandlerTypes, SlotBounds DEF ReadPending, At
        <4>2. \/ row = None /\ handlers' = [handlers EXCEPT ![h].step = "listing"]
              \/ row # None /\ handlers' = [handlers EXCEPT ![h] = None]
              \/ /\ row # None
                 /\ handlers' = [handlers EXCEPT ![h].step = "installing",
                                                 ![h].publication = row.publication]
          BY <3>3 DEF ReadPending, Goes, Answer, Ends
        <4>3. row # None => row = rows[SlotOf(handlers[h].now)]
          OBVIOUS
        <4> HIDE DEF row
        <4>4. CASE row = None /\ handlers' = [handlers EXCEPT ![h].step = "listing"]
          <5>1. handlers'[h] = [handlers[h] EXCEPT !.step = "listing"]
            BY <4>4 DEF TypeOK
          <5>2. handlers'[h].publication = handlers[h].publication
            BY <4>1, <5>1 DEF Handler
          <5>3. QED BY <4>1, <4>4, <5>2 DEF TypeOK
        <4>5. CASE row # None /\ handlers' = [handlers EXCEPT ![h] = None]
          BY <4>1, <4>5 DEF TypeOK
        <4>6. CASE /\ row # None
                   /\ handlers' = [handlers EXCEPT ![h].step = "installing",
                                                   ![h].publication = row.publication]
          <5>1. handlers'[h] = [handlers[h] EXCEPT !.step = "installing",
                                                   !.publication = row.publication]
            BY <4>6 DEF TypeOK
          <5>2. handlers'[h].publication = row.publication
            BY <4>1, <5>1 DEF Handler
          <5>3. QED BY <4>1, <4>3, <4>6, <5>2 DEF TypeOK
        <4>7. QED BY <4>2, <4>4, <4>5, <4>6
      <3>4. QED BY <1>2, <3>1, <3>2, <3>3
    <2>2. ASSUME NEW s \in Slots, rows'[s] # None
          PROVE  \/ rows'[s].publication = handlers[h].publication
                 \/ rows[s] # None /\ rows'[s].publication = rows[s].publication
      <3>1. CASE UNCHANGED rows
        BY <2>2, <3>1
      <3>2. CASE PutPending(h)
        <4>1. \/ UNCHANGED rows
              \/ rows'[s] \in {None, rows[s],
                               [publication |-> handlers[h].publication, installed |-> FALSE]}
          BY <3>2 DEF PutPending
        <4>2. QED BY <2>2, <4>1
      <3>3. CASE MarkInstalled(h)
        <4> DEFINE q == handlers[h].publication
        <4>1. q.slot \in Slots /\ rows[q.slot] # None
          BY <3>3, PublicationOf DEF MarkInstalled
        <4>2. rows' = [rows EXCEPT ![q.slot].installed = TRUE]
          BY <3>3 DEF MarkInstalled
        <4>3. CASE s # q.slot
          BY <2>2, <4>2, <4>3 DEF TypeOK
        <4>4. CASE s = q.slot
          <5>1. rows[s] \in Row /\ rows'[s] = [rows[s] EXCEPT !.installed = TRUE]
            BY <4>1, <4>2, <4>4, RowTypes DEF TypeOK
          <5>2. rows'[s].publication = rows[s].publication
            BY <5>1 DEF Row
          <5>3. QED BY <4>1, <4>4, <5>2
        <4>5. QED BY <4>3, <4>4
      <3>4. QED BY <1>2, <3>1, <3>2, <3>3 DEF Fail, ReadPending, Install
    <2>3. ASSUME NEW s \in Slots
          PROVE  roots'[s] = roots[s] \/ roots'[s] = handlers[h].publication
      BY <1>2 DEF TypeOK, Fail, ReadPending, PutPending, Install, MarkInstalled
    <2>4. QED BY <1>0, <2>1, <2>2, <2>3
  <1>3. ASSUME NEW h \in Handlers, NEW now \in Times, Begin(h, now) PROVE p \in Published
    <2>1. UNCHANGED <<rows, roots>> /\ handlers[h] = None
      BY <1>3 DEF Begin
    <2>2. \A k \in Handlers : k # h => handlers'[k] = handlers[k]
      BY <1>3 DEF Begin, TypeOK
    <2>3. handlers'[h].publication = None
      BY <1>3 DEF Begin, TypeOK
    <2>4. QED BY <1>0, <2>1, <2>2, <2>3, PublicationTypes
  <1>4. ASSUME NEW h \in Handlers,
               \/ \E d \in Delegations : Enroll(h, d)
               \/ \E slot \in Slots : Checkpoint(h, slot)
        PROVE p \in Published
    <2>1. UNCHANGED <<rows, roots>> /\ handlers' = [handlers EXCEPT ![h] = None]
      BY <1>4 DEF Enroll, Checkpoint, Answer, Ends
    <2>2. \A k \in Handlers : handlers'[k] # None => handlers'[k] = handlers[k]
      BY <2>1 DEF TypeOK
    <2>3. QED BY <2>1, <2>2
  <1>5. ASSUME NEW m \in Clients,
               \/ Refresh(m)
               \/ \E q \in served, at \in Times :
                    \/ Current(m, q, at) \/ \E now \in Times : Historical(m, q, at, now)
                    \/ \E d \in Delegations, from \in Times : Acquire(m, d, from, q, at)
        PROVE  p \in Published
    BY <1>5 DEF Refresh, Current, Historical, Acquire, service
  <1>6. CASE UNCHANGED vars
    BY <1>6 DEF vars, service
  <1>7. QED BY <1>1, <1>2, <1>3, <1>4, <1>5, <1>6 DEF Next
-----------------------------------------------------------------------------
(* What a handler lists is everybody the slot's members were, at a time    *)
(* within the slot. *)
LEMMA ListingListed ==
  ASSUME TypeOK, Placed, History, NEW h \in Handlers, List(h),
         NEW p, p = handlers'[h].publication
  PROVE  WasListed(p)
  <1> DEFINE now == handlers[h].now
  <1>1. /\ p \in Publication /\ p.slot = SlotOf(now) /\ p.slot \in Slots
        /\ p.roster = {d \in Records(now) : Listed(d, SlotOf(now))}
        /\ handlers[h] # None
    BY ListingTypes, PublicationTypes
  <1>2. now \in Times /\ now \in Nat /\ now <= clock /\ clock \in Nat
    BY <1>1, HandlerTypes, EnrollmentConstants DEF TypeOK, Placed
  <1>3. /\ StartOf(p.slot) \in Nat /\ EndOf(p.slot) \in Nat
        /\ StartOf(p.slot) <= now /\ now < EndOf(p.slot)
    BY <1>1, <1>2, SlotBounds, SlotTypes
  <1>4. StartOf(p.slot) <= clock
    BY <1>2, <1>3
  <1>5. ASSUME NEW d \in p.roster PROVE members[d.member] = d /\ d # None
    <2>1. PICK m \in Members : d = members[m] /\ d # None
      BY <1>1 DEF Records
    <2>2. QED BY <2>1 DEF TypeOK
  <1>6. ASSUME NEW j \in joined, CoversSlot(j.delegation, p.slot),
               \A k \in joined : k.delegation.member = j.delegation.member
                                   => k.delegation.issued <= j.delegation.issued
        PROVE  j.delegation \in p.roster
    <2> DEFINE d == j.delegation
    <2>1. d \in Delegations /\ d # None /\ d.member \in Members /\ d.issued \in Nat /\ d.expires \in Nat
      BY DelegationTypes DEF TypeOK
    <2>2. members[d.member] # None /\ members[d.member].member = d.member
      BY <2>1 DEF TypeOK, History
    <2>3. PICK k \in joined : k.delegation = members[d.member]
      BY <2>1, <2>2 DEF History
    <2>4. k.delegation.issued \in Nat
      BY DelegationTypes DEF TypeOK
    <2>5. k.delegation.issued <= d.issued /\ d.issued <= k.delegation.issued
      BY <1>6, <2>1, <2>2, <2>3 DEF History
    <2>6. k.delegation.member = d.member
      BY <2>2, <2>3
    <2>7. k.delegation.issued = d.issued
      BY <2>1, <2>4, <2>5
    <2>8. d = members[d.member]
      BY <2>3, <2>6, <2>7 DEF History
    <2>9. EndOf(p.slot) <= d.expires /\ now < d.expires
      BY <1>2, <1>3, <1>6, <2>1 DEF CoversSlot
    <2>10. d \in Records(now) /\ Listed(d, SlotOf(now))
      BY <1>1, <1>2, <2>1, <2>8, <2>9 DEF Records, Listed
    <2>11. QED BY <1>1, <2>10
  <1>7. NobodyForgotten(p)
    BY <1>6 DEF NobodyForgotten
  <1>8. QED BY <1>4, <1>5, <1>7 DEF WasListed

(* No later registration makes a publication one that forgets somebody or  *)
(* has another secret. *)
LEMMA StaysListed ==
  ASSUME TypeOK, History, [Next]_vars, NEW p \in Publication, WasListed(p)
  PROVE  WasListed(p)'
  <1>1. StartOf(p.slot) \in Nat /\ clock \in Nat /\ clock' \in Nat /\ clock <= clock'
    BY PublicationTypes, SlotTypes, Registrations
  <1>2. StartOf(p.slot) <= clock'
    BY <1>1 DEF WasListed
  <1>3. ASSUME NEW d \in p.roster
        PROVE  members'[d.member] # None /\ members'[d.member].secret = d.secret
    <2>1. d.member \in Members
      BY PublicationTypes, DelegationTypes
    <2>2. QED BY <2>1, SecretsStay DEF WasListed
  <1>4. NobodyForgotten(p)'
    <2>1. CASE UNCHANGED <<members, joined>>
      BY <2>1 DEF WasListed, NobodyForgotten
    <2>2. ASSUME NEW d \in Delegations, Upsert(d), clock' = clock PROVE NobodyForgotten(p)'
      <3>1. joined' = joined \cup {[delegation |-> d, at |-> clock]}
        BY <2>2 DEF Upsert
      <3>2. StartOf(p.slot) <= clock
        BY DEF WasListed
      <3>3. \A j \in joined' : j.at < StartOf(p.slot) => j \in joined
        BY <1>1, <3>1, <3>2
      <3>4. QED BY <3>1, <3>3 DEF WasListed, NobodyForgotten
    <2>3. QED BY <2>1, <2>2, Registrations
  <1>5. QED BY <1>2, <1>3, <1>4 DEF WasListed

(* Every publication that is anywhere was listed from the table. *)
LEMMA NextListed == IInv /\ [Next]_vars => AllListed'
  <1> SUFFICES ASSUME IInv, [Next]_vars, NEW p \in Published' PROVE WasListed(p)'
    BY DEF AllListed
  <1>1. TypeOK /\ Placed /\ History /\ p \in Publication
    BY DEF IInv, Published
  <1>2. p \in Published => WasListed(p)
    BY DEF IInv, AllListed
  <1>3. ASSUME NEW h \in Handlers, List(h), handlers'[h].publication = p PROVE WasListed(p)
    BY <1>1, <1>3, ListingListed
  <1>4. WasListed(p)
    BY <1>1, <1>2, <1>3, NewlyPublished
  <1>5. QED BY <1>1, <1>4, StaysListed

(* Rows, roots and handlers stay in their places. *)
LEMMA NextPlaced == TypeOK /\ Placed /\ [Next]_vars => Placed'
  <1> SUFFICES ASSUME TypeOK, Placed, [Next]_vars PROVE Placed'
    OBVIOUS
  <1>0. TypeOK' /\ clock \in Nat /\ clock' \in Nat /\ clock <= clock'
    BY NextTypeOK, Registrations
  <1>1. ASSUME NEW s \in Slots, rows'[s] # None PROVE rows'[s].publication.slot = s
    <2>1. CASE UNCHANGED rows
      BY <1>1, <2>1 DEF Placed
    <2>2. ASSUME NEW h \in Handlers, PutPending(h) PROVE rows'[s].publication.slot = s
      <3>1. \/ UNCHANGED rows
            \/ rows'[s] \in {None, rows[s]}
            \/ /\ s = handlers[h].publication.slot
               /\ rows'[s] = [publication |-> handlers[h].publication, installed |-> FALSE]
        BY <2>2 DEF PutPending
      <3>2. QED BY <1>1, <3>1 DEF Placed
    <2>3. ASSUME NEW h \in Handlers, MarkInstalled(h) PROVE rows'[s].publication.slot = s
      <3> DEFINE q == handlers[h].publication
      <3>1. q.slot \in Slots /\ rows[q.slot] # None
        BY <2>3, PublicationOf DEF MarkInstalled
      <3>2. rows' = [rows EXCEPT ![q.slot].installed = TRUE]
        BY <2>3 DEF MarkInstalled
      <3>3. CASE s # q.slot
        BY <1>1, <3>2, <3>3 DEF TypeOK, Placed
      <3>4. CASE s = q.slot
        <4>1. rows[s] \in Row /\ rows'[s] = [rows[s] EXCEPT !.installed = TRUE]
          BY <3>1, <3>2, <3>4, RowTypes DEF TypeOK
        <4>2. rows'[s].publication = rows[s].publication
          BY <4>1 DEF Row
        <4>3. QED BY <3>1, <3>4, <4>2 DEF Placed
      <3>5. QED BY <3>3, <3>4
    <2>4. \/ UNCHANGED rows
          \/ \E h \in Handlers : PutPending(h) \/ MarkInstalled(h)
      BY WhoWrites
    <2>5. QED BY <2>1, <2>2, <2>3, <2>4
  <1>2. ASSUME NEW s \in Slots, roots'[s] # None PROVE roots'[s].slot = s
    <2>1. \/ UNCHANGED roots
          \/ \E h \in Handlers : Install(h)
      BY WhoWrites
    <2>2. \A h \in Handlers : Install(h) =>
            roots' = [roots EXCEPT ![handlers[h].publication.slot] = handlers[h].publication]
      BY DEF Install
    <2>3. QED BY <1>2, <2>1, <2>2 DEF TypeOK, Placed
  <1>3. ASSUME NEW h \in Handlers, handlers'[h] # None
        PROVE  /\ handlers'[h].now <= clock'
               /\ handlers'[h].step \in {"putting", "installing", "marking"} =>
                    handlers'[h].publication # None
    <2> DEFINE OK == /\ handlers'[h].now <= clock'
                     /\ handlers'[h].step \in {"putting", "installing", "marking"} =>
                          handlers'[h].publication # None
    <2>0. handlers[h] # None => handlers[h].now \in Nat /\ handlers[h].now <= clock'
      BY <1>0, HandlerTypes, EnrollmentConstants DEF Placed
    <2>1. CASE handlers'[h] = handlers[h]
      BY <1>3, <2>0, <2>1 DEF Placed
    <2>2. ASSUME NEW now \in Times, Begin(h, now) PROVE OK
      <3>1. handlers'[h] = [step |-> "ready", now |-> now, publication |-> None] /\ clock' = now
        BY <2>2 DEF Begin, ObserveClock, TypeOK
      <3>2. QED BY <1>0, <3>1
    <2>3. CASE List(h)
      <3>1. /\ handlers'[h].publication # None /\ handlers[h] # None
            /\ handlers' = [handlers EXCEPT ![h].step = "putting",
                                            ![h].publication = handlers'[h].publication]
        BY <2>3, ListingTypes, PublicationTypes
      <3>2. handlers[h] \in Handler
        BY <3>1, HandlerTypes
      <3>3. handlers'[h].now = handlers[h].now
        BY <3>1, <3>2 DEF TypeOK, Handler
      <3>4. QED BY <2>0, <3>1, <3>3
    <2>4. ASSUME handlers[h] # None,
                 \/ handlers' = [handlers EXCEPT ![h].step = "listing"]
                 \/ \E step \in {"installing", "marking"} :
                      /\ handlers[h].publication # None
                      /\ handlers' = [handlers EXCEPT ![h].step = step]
                 \/ \E q \in Publication :
                      handlers' = [handlers EXCEPT ![h].step = "installing", ![h].publication = q]
          PROVE OK
      <3>1. handlers[h] \in Handler
        BY <2>4, HandlerTypes
      <3>2. CASE handlers' = [handlers EXCEPT ![h].step = "listing"]
        <4>1. handlers'[h] = [handlers[h] EXCEPT !.step = "listing"]
          BY <3>2 DEF TypeOK
        <4>2. handlers'[h].now = handlers[h].now /\ handlers'[h].step = "listing"
          BY <3>1, <4>1 DEF Handler
        <4>3. QED BY <2>0, <2>4, <4>2
      <3>3. ASSUME NEW step, handlers[h].publication # None,
                   handlers' = [handlers EXCEPT ![h].step = step]
            PROVE OK
        <4>1. handlers'[h] = [handlers[h] EXCEPT !.step = step]
          BY <3>3 DEF TypeOK
        <4>2. /\ handlers'[h].now = handlers[h].now
              /\ handlers'[h].publication = handlers[h].publication
          BY <3>1, <4>1 DEF Handler
        <4>3. QED BY <2>0, <2>4, <3>3, <4>2
      <3>4. ASSUME NEW q \in Publication,
                   handlers' = [handlers EXCEPT ![h].step = "installing", ![h].publication = q]
            PROVE OK
        <4>1. handlers'[h] = [handlers[h] EXCEPT !.step = "installing", !.publication = q]
          BY <3>4 DEF TypeOK
        <4>2. handlers'[h].now = handlers[h].now /\ handlers'[h].publication = q
          BY <3>1, <4>1 DEF Handler
        <4>3. QED BY <2>0, <2>4, <4>2, PublicationTypes
      <3>5. QED BY <2>4, <3>2, <3>3, <3>4
    <2>5. CASE ReadPending(h)
      <3>1. /\ handlers[h] # None
            /\ \/ handlers' = [handlers EXCEPT ![h].step = "listing"]
               \/ handlers' = [handlers EXCEPT ![h] = None]
               \/ /\ rows[SlotOf(handlers[h].now)] # None
                  /\ handlers' = [handlers EXCEPT ![h].step = "installing",
                        ![h].publication = rows[SlotOf(handlers[h].now)].publication]
        BY <2>5 DEF ReadPending, Goes, Answer, Ends, At
      <3>2. rows[SlotOf(handlers[h].now)] # None =>
              rows[SlotOf(handlers[h].now)].publication \in Publication
        BY <3>1, HandlerTypes, SlotBounds, RowTypes
      <3>3. handlers' # [handlers EXCEPT ![h] = None]
        BY <1>3 DEF TypeOK
      <3>4. QED BY <2>4, <3>1, <3>2, <3>3
    <2>6. CASE PutPending(h) \/ Install(h)
      <3>1. /\ handlers[h] # None /\ handlers[h].publication # None
            /\ \/ handlers' = [handlers EXCEPT ![h] = None]
               \/ \E step \in {"installing", "marking"} :
                    handlers' = [handlers EXCEPT ![h].step = step]
        BY <2>6, PublicationOf, PublicationTypes DEF PutPending, Install, Goes, Answer, Ends, At
      <3>2. handlers' # [handlers EXCEPT ![h] = None]
        BY <1>3 DEF TypeOK
      <3>3. QED BY <2>4, <3>1, <3>2
    <2>7. \/ handlers'[h] = handlers[h] \/ handlers'[h] = None
          \/ \E now \in Times : Begin(h, now)
          \/ List(h) \/ ReadPending(h) \/ PutPending(h) \/ Install(h)
      <3>1. CASE UNCHANGED handlers
        BY <3>1
      <3>2. ASSUME NEW k \in Handlers, k # h,
                   \/ \E now \in Times : Begin(k, now)
                   \/ List(k) \/ ReadPending(k) \/ PutPending(k) \/ Install(k)
            PROVE  handlers'[h] = handlers[h]
        BY <3>2 DEF TypeOK, Begin, List, ReadPending, PutPending, Install, Goes, Answer, Ends
      <3>3. ASSUME NEW k \in Handlers,
                   \/ Fail(k) \/ MarkInstalled(k)
                   \/ \E d \in Delegations : Enroll(k, d)
                   \/ \E slot \in Slots : Checkpoint(k, slot)
            PROVE  handlers'[h] = handlers[h] \/ handlers'[h] = None
        BY <3>3 DEF TypeOK, Fail, MarkInstalled, Enroll, Checkpoint, Answer, Ends
      <3>4. ASSUME NEW m \in Clients,
                   \/ Refresh(m)
                   \/ \E q \in served, at \in Times :
                        \/ Current(m, q, at) \/ \E now \in Times : Historical(m, q, at, now)
                        \/ \E d \in Delegations, from \in Times : Acquire(m, d, from, q, at)
            PROVE  UNCHANGED handlers
        BY <3>4 DEF Refresh, Current, Historical, Acquire, service
      <3>5. QED BY <3>1, <3>2, <3>3, <3>4 DEF Next, vars, service
    <2>8. QED BY <1>3, <2>1, <2>2, <2>3, <2>5, <2>6, <2>7
  <1>4. QED BY <1>1, <1>2, <1>3 DEF Placed
-----------------------------------------------------------------------------
(* An account's entry is taken from a root, so it is of its member's secret. *)
LEMMA NextOwnersBound == IInv /\ [Next]_vars => OwnersBound'
  <1> SUFFICES ASSUME IInv, [Next]_vars, NEW m \in Clients, owners'[m] # None
               PROVE  members'[m] # None /\ members'[m].secret = owners'[m].secret
    BY DEF OwnersBound
  <1>1. TypeOK /\ m \in Members
    BY EnrollmentConstants DEF IInv
  <1>2. members[m] # None => members'[m] # None /\ members'[m].secret = members[m].secret
    BY <1>1, SecretsStay
  <1>3. CASE owners'[m] = owners[m]
    BY <1>2, <1>3 DEF IInv, OwnersBound
  <1>4. CASE Refresh(m)
    <2> DEFINE p == clients[m].publication
    <2>1. p \in Publication /\ p.slot \in Slots /\ roots[p.slot] = p
      BY <1>1, <1>4, PublicationTypes DEF Refresh, Pinned, TypeOK
    <2>2. WasListed(p)
      BY <2>1 DEF IInv, AllListed, Published
    <2>3. PICK d \in Own(m, p) : owners' = [owners EXCEPT ![m] = d]
      BY <1>4 DEF Refresh
    <2>4. d \in p.roster /\ d.member = m /\ owners'[m] = d
      BY <1>1, <2>3 DEF Own, TypeOK
    <2>5. QED BY <1>2, <2>2, <2>4 DEF WasListed
  <1>5. owners'[m] = owners[m] \/ Refresh(m)
    <2>1. UNCHANGED owners \/ \E k \in Clients : Refresh(k)
      BY WhoWrites
    <2>2. ASSUME NEW k \in Clients, Refresh(k), k # m PROVE owners'[m] = owners[m]
      BY <1>1, <2>2 DEF Refresh, TypeOK
    <2>3. QED BY <2>1, <2>2
  <1>6. QED BY <1>3, <1>4, <1>5

(* Nothing is enrolled, listed or proved at first. *)
LEMMA InitIInv == Init => IInv
  <1> SUFFICES ASSUME Init PROVE IInv
    OBVIOUS
  <1>1. TypeOK
    BY EnrollmentConstants DEF Init, TypeOK
  <1>2. Placed /\ History /\ OwnersBound
    BY DEF Init, Placed, History, OwnersBound
  <1>3. Published = {}
    BY PublicationTypes DEF Init, Published
  <1>4. QED BY <1>1, <1>2, <1>3 DEF IInv, AllListed

(* The invariant of both retention rules, in every behaviour. *)
LEMMA Inductive == Spec => []IInv
  <1>1. IInv /\ [Next]_vars => IInv'
    BY NextTypeOK, NextPlaced, NextHistory, NextListed, NextOwnersBound DEF IInv
  <1>2. QED BY InitIInv, <1>1, PTL DEF Spec

(* The state of enrollment is of its types. *)
THEOREM TypeCorrect == Spec => []TypeOK
  <1>1. IInv => TypeOK BY DEF IInv
  <1>2. QED BY Inductive, <1>1, PTL

(* Who enrolled in time is in the slot's root, however slowly and however  *)
(* often it is listed, put and installed (enrollment-service.mjs,          *)
(* publishAt and installPublication; enrollment-turso.mjs, records). *)
THEOREM WaitSuffices == Spec => []WaitIsEnough
  <1>1. IInv => WaitIsEnough
    <2> SUFFICES ASSUME IInv, NEW s \in Slots, roots[s] # None
                 PROVE  roots[s] \in Publication /\ roots[s].slot = s /\ NobodyForgotten(roots[s])
      BY DEF WaitIsEnough, NobodyForgotten
    <2>1. roots[s] \in Publication /\ roots[s].slot = s
      BY DEF IInv, TypeOK, Placed
    <2>2. QED BY <2>1 DEF IInv, AllListed, Published, WasListed
  <1>2. QED BY Inductive, <1>1, PTL

(* A member has one secret in all roots and in its own account, however    *)
(* it renews (enrollment-store.mjs and enrollment-turso.mjs, upsert;       *)
(* enrollment.mjs, refreshEnrollment). *)
THEOREM BindingsStay == Spec => []BindingKept
  <1>1. IInv => BindingKept
    <2> SUFFICES ASSUME IInv PROVE BindingKept
      OBVIOUS
    <2>1. ASSUME NEW s \in Slots, roots[s] # None, NEW d \in roots[s].roster
          PROVE  members[d.member] # None /\ members[d.member].secret = d.secret
      <3>1. roots[s] \in Publication
        BY <2>1 DEF IInv, TypeOK
      <3>2. QED BY <2>1, <3>1 DEF IInv, AllListed, Published, WasListed
    <2>2. \A m \in Clients : owners[m] # None => members[m].secret = owners[m].secret
      BY DEF IInv, OwnersBound
    <2>3. QED BY <2>1, <2>2 DEF BindingKept
  <1>2. QED BY Inductive, <1>1, PTL
-----------------------------------------------------------------------------
(* A set of slots that is not empty has an oldest one. *)
LEMMA Oldest ==
  ASSUME NEW S \in SUBSET Nat, S # {}
  PROVE  \E m \in S : \A t \in S : m <= t
  <1> DEFINE R == OpToRel(<, Nat)
  <1>1. R = {ss \in Nat \X Nat : ss[1] < ss[2]}
    BY DEF OpToRel
  <1>2. IsWellFoundedOn(R, Nat)
    BY NatLessThanWellFounded
  <1> HIDE DEF R
  <1>3. PICK m \in S : \A y \in S : ~ (<<y, m>> \in R)
    BY <1>2, WFMin
  <1>4. ASSUME NEW t \in S PROVE ~(t < m)
    <2>1. t \in Nat /\ m \in Nat /\ ~(<<t, m>> \in R)
      BY <1>3
    <2>2. t < m => <<t, m>> \in {ss \in Nat \X Nat : ss[1] < ss[2]}
      BY <2>1
    <2>3. QED BY <1>1, <2>1, <2>2
  <1>5. QED BY <1>4

(* Of as many slots as may be kept, all are; of one more, all but the      *)
(* oldest. *)
LEMMA NewestAre ==
  ASSUME NEW S \in SUBSET Nat, IsFiniteSet(S), NEW n \in Nat \ {0}, Cardinality(S) <= n + 1
  PROVE  /\ Cardinality(S) <= n => NewestOf(S, n) = S
         /\ Cardinality(S) = n + 1 =>
              \E m \in S : NewestOf(S, n) = S \ {m} /\ \A t \in S \ {m} : m < t
  <1> DEFINE Newer(s) == {t \in S : t > s}
  <1>0. Cardinality(S) \in Nat
    BY FS_CardinalityType
  <1>1. ASSUME NEW s \in S
        PROVE  IsFiniteSet(S \ {s}) /\ Cardinality(S \ {s}) = Cardinality(S) - 1
    BY <1>1, FS_RemoveElement
  <1>2. ASSUME Cardinality(S) <= n, NEW s \in S PROVE Cardinality(Newer(s)) < n
    <2>1. Newer(s) \in SUBSET (S \ {s})
      OBVIOUS
    <2>2. Cardinality(Newer(s)) <= Cardinality(S \ {s}) /\ Cardinality(Newer(s)) \in Nat
      BY <1>1, <2>1, FS_Subset, FS_CardinalityType
    <2>3. QED BY <1>0, <1>1, <1>2, <2>2
  <1>3. ASSUME Cardinality(S) = n + 1
        PROVE  \E m \in S : NewestOf(S, n) = S \ {m} /\ \A t \in S \ {m} : m < t
    <2>1. S # {}
      BY <1>3, FS_EmptySet
    <2>2. PICK m \in S : \A t \in S : m <= t
      BY <2>1, Oldest
    <2>3. \A t \in S \ {m} : m < t
      BY <2>2
    <2>4. Newer(m) = S \ {m} /\ ~(Cardinality(Newer(m)) < n)
      <3>1. Newer(m) = S \ {m}
        <4>1. \A t \in S : t > m <=> t # m
          BY <2>3
        <4>2. QED BY <4>1
      <3>2. Cardinality(S \ {m}) = n
        BY <1>1, <1>3
      <3>3. QED BY <3>1, <3>2
    <2>5. ASSUME NEW s \in S, s # m PROVE Cardinality(Newer(s)) < n
      <3>1. Newer(s) \in SUBSET ((S \ {m}) \ {s})
        BY <2>2
      <3>2. /\ IsFiniteSet((S \ {m}) \ {s})
            /\ Cardinality((S \ {m}) \ {s}) = Cardinality(S \ {m}) - 1
        BY <1>1, <2>5, FS_RemoveElement
      <3>3. /\ Cardinality(Newer(s)) <= Cardinality((S \ {m}) \ {s})
            /\ Cardinality(Newer(s)) \in Nat
        BY <3>1, <3>2, FS_Subset, FS_CardinalityType
      <3>4. QED BY <1>1, <1>3, <3>2, <3>3
    <2>6. NewestOf(S, n) = S \ {m}
      BY <2>4, <2>5 DEF NewestOf
    <2>7. QED BY <2>3, <2>6
  <1>4. QED BY <1>2, <1>3 DEF NewestOf
-----------------------------------------------------------------------------
(* As many texts as are retained fit, if each set of that many does. *)
LEMMA BytesFit ==
  ASSUME RetentionFits, NEW texts, NEW T, IsFiniteSet(T), Cardinality(T) <= MaxRetained,
         \A s \in T : texts[s] \in Publication /\ SizeOf(texts[s]) <= MaxBytes
  PROVE  Bytes(texts, T) <= MaxBytes
  <1>1. PICK largest \in 1 .. MaxBytes :
          /\ MaxRetained * largest <= MaxBytes
          /\ \A p \in Publication : SizeOf(p) <= MaxBytes => SizeOf(p) <= largest
    BY DEF RetentionFits
  <1>2. MaxRetained \in Nat /\ MaxBytes \in Nat /\ largest \in Nat /\ largest >= 1
    BY <1>1, EnrollmentConstants DEF StoreLimits
  <1> DEFINE units == {x \in T \X (1 .. MaxBytes) : x[2] <= SizeOf(texts[x[1]])}
             room == T \X (1 .. largest)
  <1>3. \A s \in T : SizeOf(texts[s]) \in Nat /\ SizeOf(texts[s]) <= largest
    BY <1>1, SizesAreNumbers
  <1>4. units \subseteq room
    <2>1. ASSUME NEW s \in T, NEW i \in 1 .. MaxBytes, i <= SizeOf(texts[s])
          PROVE  i \in 1 .. largest
      BY <1>2, <1>3, <2>1
    <2>2. QED BY <2>1
  <1>5. /\ IsFiniteSet(1 .. largest) /\ Cardinality(1 .. largest) = largest
        /\ Cardinality(T) \in Nat
    <2>1. 1 \in Int /\ largest \in Int /\ ~(1 > largest)
      BY <1>2
    <2>2. /\ IsFiniteSet(1 .. largest)
          /\ Cardinality(1 .. largest) = IF 1 > largest THEN 0 ELSE largest - 1 + 1
      BY <2>1, FS_Interval
    <2>3. QED BY <1>2, <2>1, <2>2, FS_CardinalityType
  <1>6. IsFiniteSet(room) /\ Cardinality(room) = Cardinality(T) * largest
    BY <1>5, FS_Product
  <1>7. Cardinality(units) <= Cardinality(room)
    BY <1>4, <1>6, FS_Subset
  <1>8. Cardinality(units) \in Nat
    BY <1>4, <1>6, FS_Subset, FS_CardinalityType
  <1>9. Cardinality(T) * largest <= MaxRetained * largest
    BY <1>2, <1>5
  <1>10. Cardinality(T) * largest \in Nat /\ MaxRetained * largest \in Nat
    BY <1>2, <1>5
  <1> HIDE DEF units, room
  <1>11. Cardinality(units) <= MaxBytes
    BY <1>1, <1>2, <1>6, <1>7, <1>8, <1>9, <1>10
  <1>12. QED BY <1>11 DEF Bytes, units

(* Then SQLite's store prunes by the number of slots only. *)
LEMMA SqliteKeepsNewest ==
  ASSUME RetentionFits, NEW texts, NEW S \in SUBSET Nat, IsFiniteSet(S), DOMAIN texts = S,
         Cardinality(S) <= MaxRetained + 1, NEW slot,
         \A s \in S : texts[s] \in Publication /\ SizeOf(texts[s]) <= MaxBytes
  PROVE  SqliteKept(texts, slot) = NewestOf(S, MaxRetained)
  <1> DEFINE newest == NewestOf(S, MaxRetained)
  <1>1. MaxRetained \in Nat \ {0} /\ Cardinality(S) \in Nat
    BY EnrollmentConstants, FS_CardinalityType DEF StoreLimits
  <1>2. newest \subseteq S /\ IsFiniteSet(newest)
    BY FS_Subset DEF NewestOf
  <1>3. Cardinality(newest) <= MaxRetained
    <2>1. CASE Cardinality(S) <= MaxRetained
      BY <1>1, <2>1, NewestAre
    <2>2. CASE Cardinality(S) = MaxRetained + 1
      <3>1. PICK m \in S : newest = S \ {m}
        BY <1>1, <2>2, NewestAre
      <3>2. Cardinality(S \ {m}) = Cardinality(S) - 1
        BY FS_RemoveElement
      <3>3. QED BY <1>1, <2>2, <3>1, <3>2
    <2>3. QED BY <1>1, <2>1, <2>2
  <1> HIDE DEF newest
  <1>4. ASSUME NEW T \in SUBSET newest PROVE Bytes(texts, T) <= MaxBytes
    <2>1. IsFiniteSet(T) /\ Cardinality(T) <= Cardinality(newest)
          /\ Cardinality(T) \in Nat /\ Cardinality(newest) \in Nat
      BY <1>2, FS_Subset, FS_CardinalityType
    <2>2. Cardinality(T) <= MaxRetained
      BY <1>1, <1>3, <2>1
    <2>3. \A s \in T : texts[s] \in Publication /\ SizeOf(texts[s]) <= MaxBytes
      BY <1>2
    <2>4. QED BY <2>1, <2>2, <2>3, BytesFit
  <1>5. SqliteKept(texts, slot) = newest
    <2>1. \A s : Bytes(texts, {t \in newest : t >= s \/ t = slot}) <= MaxBytes
      BY <1>4
    <2>2. QED BY <2>1 DEF SqliteKept, newest
  <1>6. QED BY <1>5 DEF newest

(* A row's text is within the limit: it was when it was put. *)
LEMMA NextSizes ==
  ASSUME TypeOK, Placed, Retention, [Next]_vars
  PROVE  \A s \in RowSlots' : SizeOf(rows'[s].publication) <= MaxBytes
  <1> SUFFICES ASSUME NEW s \in Slots, rows'[s] # None
               PROVE  SizeOf(rows'[s].publication) <= MaxBytes
    BY DEF RowSlots
  <1>1. ASSUME rows[s] # None, rows'[s].publication = rows[s].publication
        PROVE  SizeOf(rows'[s].publication) <= MaxBytes
    BY <1>1 DEF Retention, RowSlots
  <1>2. ASSUME NEW h \in Handlers, PutPending(h)
        PROVE  SizeOf(rows'[s].publication) <= MaxBytes
    <2>1. SizeOf(handlers[h].publication) <= MaxBytes
      BY <1>2 DEF PutPending
    <2>2. rows'[s] \in {None, rows[s],
                        [publication |-> handlers[h].publication, installed |-> FALSE]}
      BY <1>2 DEF PutPending
    <2>3. QED BY <1>1, <2>1, <2>2
  <1>3. ASSUME NEW h \in Handlers, MarkInstalled(h)
        PROVE  rows[s] # None /\ rows'[s].publication = rows[s].publication
    <2> DEFINE p == handlers[h].publication
    <2>1. p.slot \in Slots /\ rows[p.slot] # None /\ rows[p.slot] \in Row
      BY <1>3, PublicationOf, RowTypes DEF MarkInstalled
    <2>2. rows' = [rows EXCEPT ![p.slot].installed = TRUE]
      BY <1>3 DEF MarkInstalled
    <2>3. rows'[p.slot].publication = rows[p.slot].publication
      BY <2>1, <2>2 DEF TypeOK, Row
    <2> HIDE DEF p
    <2>4. s # p.slot => rows'[s] = rows[s]
      BY <2>2 DEF TypeOK
    <2>5. QED BY <2>1, <2>3, <2>4
  <1>4. UNCHANGED rows \/ \E h \in Handlers : PutPending(h) \/ MarkInstalled(h)
    BY WhoWrites
  <1>5. QED BY <1>1, <1>2, <1>3, <1>4

(* What is put anew has its row, or is older than every slot that has one. *)
(* So is, from then on, the slot that loses its row to it. *)
LEMMA PuttingAnew ==
  ASSUME TypeOK, Placed, Retention, ~Remote, RetentionFits,
         NEW h \in Handlers, PutPending(h), rows[handlers[h].publication.slot] = None
  PROVE  /\ IsFiniteSet(RowSlots') /\ Cardinality(RowSlots') <= MaxRetained
         /\ \A q \in Publication : WasPut(q) \/ q = handlers[h].publication => WasPut(q)'
  <1> DEFINE p == handlers[h].publication
             new == [publication |-> p, installed |-> FALSE]
             S == RowSlots \cup {p.slot}
             kept == NewestOf(S, MaxRetained)
             texts == TextsWith(p)
  <1>1. p \in Publication /\ p.slot \in Slots /\ p.slot \notin RowSlots
    BY PublicationOf DEF PutPending, RowSlots
  <1>3. MaxRetained \in Nat \ {0}
    BY EnrollmentConstants DEF StoreLimits
  <1>4. /\ S \in SUBSET Nat /\ IsFiniteSet(S) /\ Cardinality(RowSlots) \in Nat
        /\ Cardinality(S) = Cardinality(RowSlots) + 1
    <2>1. IsFiniteSet(RowSlots)
      BY DEF Retention
    <2>2. S \in SUBSET Nat
      BY <1>1, SlotTypes DEF RowSlots
    <2>3. Cardinality(RowSlots) \in Nat
      BY <2>1, FS_CardinalityType
    <2>4. IsFiniteSet(S) /\ Cardinality(S) = Cardinality(RowSlots) + 1
      BY <1>1, <2>1, FS_AddElement
    <2>5. QED BY <2>2, <2>3, <2>4
  <1>2. rows' = [s \in Slots |-> IF s \notin kept THEN None
                                 ELSE IF s = p.slot THEN new ELSE rows[s]]
    <2>1. DOMAIN texts = S /\ Cardinality(S) <= MaxRetained + 1
      BY <1>3, <1>4 DEF TextsWith, Retention
    <2>2. \A s \in S : texts[s] \in Publication /\ SizeOf(texts[s]) <= MaxBytes
      <3>1. SizeOf(p) <= MaxBytes
        BY DEF PutPending
      <3>2. \A s \in RowSlots : rows[s].publication \in Publication
        BY RowTypes DEF RowSlots
      <3>3. QED BY <1>1, <3>1, <3>2 DEF TextsWith, Retention
    <2> HIDE DEF texts
    <2>3. SqliteKept(texts, p.slot) = kept
      BY <1>4, <2>1, <2>2, SqliteKeepsNewest
    <2>4. QED BY <2>3 DEF PutPending, Kept, texts
  <1>5. new # None /\ new.publication = p
    <2>1. new \in Row
      BY <1>1 DEF Row
    <2>2. QED BY <2>1, NoneIsNothing
  <1>6. kept \subseteq S
    BY DEF NewestOf
  <1> HIDE DEF new, kept, p, texts
  <1>7. RowSlots' = kept
    <2>1. RowSlots' = {s \in Slots : rows'[s] # None}
      BY DEF RowSlots
    <2>2. \A s \in Slots : rows'[s] # None <=> s \in kept
      BY <1>2, <1>5, <1>6 DEF RowSlots
    <2>3. S \subseteq Slots
      BY <1>1 DEF RowSlots
    <2> HIDE DEF S
    <2>4. QED BY <1>6, <2>1, <2>2, <2>3
  <1>8. ASSUME NEW q \in Publication, q.slot \in kept,
               q = p \/ (rows[q.slot] # None /\ rows[q.slot].publication = q)
        PROVE  rows'[q.slot] # None /\ rows'[q.slot].publication = q
    <2>1. q.slot \in Slots /\ rows[p.slot] = None
      BY <1>8, PublicationTypes DEF p
    <2>2. QED BY <1>2, <1>5, <1>8, <2>1
  <1>9. CASE Cardinality(S) <= MaxRetained
    <2>1. kept = S
      BY <1>3, <1>4, <1>9, NewestAre DEF kept
    <2>2. IsFiniteSet(RowSlots') /\ Cardinality(RowSlots') <= MaxRetained
      BY <1>4, <1>7, <1>9, <2>1
    <2>3. ASSUME NEW q \in Publication, WasPut(q) \/ q = p PROVE WasPut(q)'
      <3>1. \A s : ~Outlived(s)
        BY <1>3, <1>4, <1>9 DEF Outlived
      <3>2. q = p \/ (rows[q.slot] # None /\ rows[q.slot].publication = q)
        BY <2>3, <3>1 DEF WasPut
      <3>3. q.slot \in kept
        BY <2>1, <3>2, PublicationTypes DEF RowSlots
      <3>4. QED BY <1>8, <3>2, <3>3 DEF WasPut
    <2>4. QED BY <2>2, <2>3 DEF p
  <1>10. CASE Cardinality(S) = MaxRetained + 1
    <2>1. PICK m \in S : kept = S \ {m} /\ \A t \in S \ {m} : m < t
      BY <1>3, <1>4, <1>10, NewestAre DEF kept
    <2>2. IsFiniteSet(RowSlots') /\ Cardinality(RowSlots') = MaxRetained
      BY <1>3, <1>4, <1>7, <1>10, <2>1, FS_RemoveElement
    <2>3. Outlived(m)'
      BY <1>7, <2>1, <2>2 DEF Outlived
    <2>4. ASSUME NEW s \in Slots, Outlived(s) PROVE Outlived(s)'
      <3>1. \A t \in RowSlots : s < t
        BY <2>4 DEF Outlived
      <3>2. CASE m = p.slot
        BY <1>7, <2>1, <2>2, <3>1, <3>2 DEF Outlived
      <3>3. CASE m # p.slot
        <4>1. m \in RowSlots /\ s < m /\ s \in Nat /\ m \in Nat
          BY <2>1, <3>1, <3>3, SlotTypes DEF RowSlots
        <4>2. \A t \in S \ {m} : t \in Nat /\ s < t
          BY <1>4, <2>1, <4>1
        <4>3. QED BY <1>7, <2>1, <2>2, <4>2 DEF Outlived
      <3>4. QED BY <3>2, <3>3
    <2>5. ASSUME NEW q \in Publication, WasPut(q) \/ q = p PROVE WasPut(q)'
      <3>1. q.slot \in Slots
        BY PublicationTypes
      <3>2. CASE Outlived(q.slot)
        BY <2>4, <3>1, <3>2 DEF WasPut
      <3>3. CASE q = p \/ (rows[q.slot] # None /\ rows[q.slot].publication = q)
        <4>1. q.slot \in S
          BY <3>1, <3>3 DEF RowSlots
        <4>2. CASE q.slot = m
          BY <2>3, <4>2 DEF WasPut
        <4>3. CASE q.slot # m
          BY <1>8, <2>1, <3>3, <4>1, <4>3 DEF WasPut
        <4>4. QED BY <4>2, <4>3
      <3>4. QED BY <2>5, <3>2, <3>3 DEF WasPut
    <2>6. QED BY <1>3, <2>2, <2>5 DEF p
  <1>11. QED BY <1>3, <1>4, <1>9, <1>10 DEF Retention

(* Whatever was put stays put, under every step. *)
LEMMA StaysPut ==
  ASSUME TypeOK, Placed, Retention, ~Remote, RetentionFits, [Next]_vars
  PROVE  /\ IsFiniteSet(RowSlots') /\ Cardinality(RowSlots') <= MaxRetained
         /\ \A q \in Publication : WasPut(q) => WasPut(q)'
  <1>1. CASE UNCHANGED rows
    BY <1>1 DEF Retention, RowSlots, WasPut, Outlived
  <1>2. ASSUME NEW h \in Handlers, MarkInstalled(h)
        PROVE  /\ RowSlots' = RowSlots
               /\ \A s \in Slots : rows[s] # None => rows'[s].publication = rows[s].publication
    <2> DEFINE p == handlers[h].publication
    <2>1. p.slot \in Slots /\ rows[p.slot] # None /\ rows[p.slot] \in Row
      BY <1>2, PublicationOf, RowTypes DEF MarkInstalled
    <2>2. rows' = [rows EXCEPT ![p.slot].installed = TRUE]
      BY <1>2 DEF MarkInstalled
    <2>3. rows'[p.slot] \in Row /\ rows'[p.slot].publication = rows[p.slot].publication
      BY <2>1, <2>2 DEF TypeOK, Row
    <2>4. rows'[p.slot] # None
      BY <2>3, NoneIsNothing
    <2> HIDE DEF p
    <2>5. \A s \in Slots : s # p.slot => rows'[s] = rows[s]
      BY <2>2 DEF TypeOK
    <2>6. QED BY <2>1, <2>3, <2>4, <2>5 DEF RowSlots
  <1>3. ASSUME NEW h \in Handlers, MarkInstalled(h)
        PROVE  /\ IsFiniteSet(RowSlots') /\ Cardinality(RowSlots') <= MaxRetained
               /\ \A q \in Publication : WasPut(q) => WasPut(q)'
    <2>1. IsFiniteSet(RowSlots') /\ Cardinality(RowSlots') <= MaxRetained
      BY <1>2, <1>3 DEF Retention
    <2>2. ASSUME NEW q \in Publication, WasPut(q) PROVE WasPut(q)'
      <3>1. q.slot \in Slots /\ RowSlots' = RowSlots
        BY <1>2, <1>3, PublicationTypes
      <3>2. CASE Outlived(q.slot)
        BY <3>1, <3>2 DEF WasPut, Outlived
      <3>3. CASE rows[q.slot] # None /\ rows[q.slot].publication = q
        <4>1. rows'[q.slot] # None
          BY <3>1, <3>3 DEF RowSlots
        <4>2. rows'[q.slot].publication = q
          BY <1>2, <1>3, <3>1, <3>3
        <4>3. QED BY <4>1, <4>2 DEF WasPut
      <3>4. QED BY <2>2, <3>2, <3>3 DEF WasPut
    <2>3. QED BY <2>1, <2>2
  <1>4. ASSUME NEW h \in Handlers, PutPending(h)
        PROVE  UNCHANGED rows \/ rows[handlers[h].publication.slot] = None
    BY <1>4 DEF PutPending
  <1>5. \/ UNCHANGED rows
        \/ \E h \in Handlers : PutPending(h) \/ MarkInstalled(h)
    BY WhoWrites
  <1>6. QED BY <1>1, <1>3, <1>4, <1>5, PuttingAnew
-----------------------------------------------------------------------------
(* A root stays; a new one is what a handler came to install. *)
LEMMA RootsStay ==
  ASSUME TypeOK, Placed, [Next]_vars, NEW s \in Slots
  PROVE  /\ roots[s] # None => roots'[s] = roots[s]
         /\ roots'[s] # roots[s] => \E h \in Handlers :
              Install(h) /\ roots'[s] = handlers[h].publication /\ s = handlers[h].publication.slot
  <1>1. ASSUME NEW h \in Handlers, Install(h)
        PROVE  /\ roots[s] # None => roots'[s] = roots[s]
               /\ roots'[s] # roots[s] =>
                    roots'[s] = handlers[h].publication /\ s = handlers[h].publication.slot
    <2>1. roots[handlers[h].publication.slot] \in {None, handlers[h].publication}
      BY <1>1 DEF Install, RootAdmissible
    <2>2. roots' = [roots EXCEPT ![handlers[h].publication.slot] = handlers[h].publication]
      BY <1>1 DEF Install
    <2>3. QED BY <2>1, <2>2 DEF TypeOK
  <1>2. UNCHANGED roots \/ \E h \in Handlers : Install(h)
    BY WhoWrites
  <1>3. QED BY <1>1, <1>2

(* A handler comes to install what it put or read, and to mark what it     *)
(* installed. *)
LEMMA HandlerCameBy ==
  ASSUME TypeOK, Placed, [Next]_vars, NEW h \in Handlers,
         At(h, "installing")' \/ At(h, "marking")'
  PROVE  \/ handlers'[h] = handlers[h]
         \/ /\ At(h, "installing")' /\ ReadPending(h)
            /\ rows[SlotOf(handlers[h].now)] # None
            /\ handlers'[h].publication = rows[SlotOf(handlers[h].now)].publication
         \/ /\ At(h, "installing")' /\ PutPending(h)
            /\ handlers'[h].publication = handlers[h].publication
         \/ /\ At(h, "marking")' /\ Install(h)
            /\ handlers'[h].publication = handlers[h].publication
  <1>0. handlers'[h] # None /\ handlers'[h].step \in {"installing", "marking"}
    BY DEF At
  <1>1. ASSUME NEW now \in Times, Begin(h, now) PROVE FALSE
    <2>1. handlers'[h] = [step |-> "ready", now |-> now, publication |-> None]
      BY <1>1 DEF Begin, TypeOK
    <2>2. QED BY <1>0, <2>1
  <1>2. CASE List(h)
    <2>1. /\ handlers[h] \in Handler
          /\ handlers' = [handlers EXCEPT ![h].step = "putting",
                                          ![h].publication = handlers'[h].publication]
      BY <1>2, ListingTypes, HandlerTypes
    <2>2. handlers'[h].step = "putting"
      BY <2>1 DEF TypeOK, Handler
    <2>3. QED BY <1>0, <2>2
  <1>3. CASE ReadPending(h)
    <2> DEFINE row == rows[SlotOf(handlers[h].now)]
    <2>1. handlers[h] # None /\ handlers[h] \in Handler
      BY <1>3, HandlerTypes DEF ReadPending, At
    <2>2. \/ row = None /\ handlers' = [handlers EXCEPT ![h].step = "listing"]
          \/ row # None /\ handlers' = [handlers EXCEPT ![h] = None]
          \/ /\ row # None
             /\ handlers' = [handlers EXCEPT ![h].step = "installing",
                                             ![h].publication = row.publication]
      BY <1>3 DEF ReadPending, Goes, Answer, Ends
    <2> HIDE DEF row
    <2>3. handlers' # [handlers EXCEPT ![h].step = "listing"]
      <3>1. SUFFICES ASSUME handlers' = [handlers EXCEPT ![h].step = "listing"] PROVE FALSE
        OBVIOUS
      <3>2. handlers'[h] = [handlers[h] EXCEPT !.step = "listing"]
        BY <3>1 DEF TypeOK
      <3>3. handlers'[h].step = "listing"
        BY <2>1, <3>2 DEF Handler
      <3>4. QED BY <1>0, <3>3
    <2>4. handlers' # [handlers EXCEPT ![h] = None]
      BY <1>0 DEF TypeOK
    <2>5. /\ row # None
          /\ handlers'[h] = [handlers[h] EXCEPT !.step = "installing",
                                                !.publication = row.publication]
      BY <2>2, <2>3, <2>4 DEF TypeOK
    <2>6. handlers'[h].step = "installing" /\ handlers'[h].publication = row.publication
      BY <2>1, <2>5 DEF Handler
    <2>7. QED BY <1>0, <1>3, <2>5, <2>6 DEF At, row
  <1>4. ASSUME NEW step, handlers[h] # None, handlers' = [handlers EXCEPT ![h].step = step]
        PROVE  handlers'[h].step = step /\ handlers'[h].publication = handlers[h].publication
    <2>1. handlers[h] \in Handler
      BY <1>4, HandlerTypes
    <2>2. handlers'[h] = [handlers[h] EXCEPT !.step = step]
      BY <1>4 DEF TypeOK
    <2>3. QED BY <2>1, <2>2 DEF Handler
  <1>5. handlers' # [handlers EXCEPT ![h] = None]
    BY <1>0 DEF TypeOK
  <1>6. CASE PutPending(h)
    <2>1. handlers[h] # None /\ handlers' = [handlers EXCEPT ![h].step = "installing"]
      BY <1>5, <1>6 DEF PutPending, At, Goes, Answer, Ends
    <2>2. QED BY <1>0, <1>4, <1>6, <2>1 DEF At
  <1>7. CASE Install(h)
    <2>1. handlers[h] # None /\ handlers' = [handlers EXCEPT ![h].step = "marking"]
      BY <1>7 DEF Install, At, Goes
    <2>2. QED BY <1>0, <1>4, <1>7, <2>1 DEF At
  <1>8. \/ handlers'[h] = handlers[h]
        \/ \E now \in Times : Begin(h, now)
        \/ List(h) \/ ReadPending(h) \/ PutPending(h) \/ Install(h)
    <2>1. CASE UNCHANGED handlers
      BY <2>1
    <2>2. ASSUME NEW k \in Handlers, k # h,
                 \/ \E now \in Times : Begin(k, now)
                 \/ List(k) \/ ReadPending(k) \/ PutPending(k) \/ Install(k)
          PROVE  handlers'[h] = handlers[h]
      BY <2>2 DEF TypeOK, Begin, List, ReadPending, PutPending, Install, Goes, Answer, Ends
    <2>3. ASSUME NEW k \in Handlers,
                 \/ Fail(k) \/ MarkInstalled(k)
                 \/ \E d \in Delegations : Enroll(k, d)
                 \/ \E slot \in Slots : Checkpoint(k, slot)
          PROVE  handlers'[h] = handlers[h]
      <3>1. handlers' = [handlers EXCEPT ![k] = None]
        BY <2>3 DEF Fail, MarkInstalled, Enroll, Checkpoint, Answer, Ends
      <3>2. QED BY <1>0, <3>1 DEF TypeOK
    <2>4. ASSUME NEW m \in Clients,
                 \/ Refresh(m)
                 \/ \E q \in served, at \in Times :
                      \/ Current(m, q, at) \/ \E now \in Times : Historical(m, q, at, now)
                      \/ \E d \in Delegations, from \in Times : Acquire(m, d, from, q, at)
          PROVE  UNCHANGED handlers
      BY <2>4 DEF Refresh, Current, Historical, Acquire, service
    <2>5. QED BY <2>1, <2>2, <2>3, <2>4 DEF Next, vars, service
  <1>9. QED BY <1>1, <1>2, <1>3, <1>6, <1>7, <1>8
-----------------------------------------------------------------------------
(* Handlers and roots keep to what was put. *)
LEMMA NextRetention ==
  ASSUME IInv, SqliteInv, ~Remote, RetentionFits, [Next]_vars
  PROVE  Retention'
  <1>0. TypeOK /\ Placed /\ Retention /\ TypeOK' /\ Placed'
    BY NextTypeOK, NextPlaced DEF IInv, SqliteInv
  <1>1. /\ IsFiniteSet(RowSlots') /\ Cardinality(RowSlots') <= MaxRetained
        /\ \A q \in Publication : WasPut(q) => WasPut(q)'
    BY <1>0, StaysPut
  <1>2. ASSUME NEW h \in Handlers, At(h, "installing")' \/ At(h, "marking")'
        PROVE  /\ \E q \in Publication : q = handlers'[h].publication /\ WasPut(q)'
               /\ At(h, "marking")' =>
                    roots'[handlers'[h].publication.slot] = handlers'[h].publication
    <2> DEFINE p == handlers'[h].publication
    <2>1. p \in Publication /\ p.slot \in Slots
      <3>1. handlers'[h] # None /\ p # None
        BY <1>0, <1>2 DEF At, Placed
      <3>2. QED BY <1>0, <3>1, PublicationTypes DEF TypeOK, Handler
    <2>2. CASE handlers'[h] = handlers[h]
      <3>1. /\ WasPut(handlers[h].publication)
            /\ At(h, "marking")' => At(h, "marking")
        BY <1>0, <1>2, <2>2 DEF Retention, At
      <3>2. At(h, "marking")' => roots[p.slot] = p
        BY <1>0, <2>2, <3>1 DEF Retention
      <3>3. \E q \in Publication : q = p /\ WasPut(q)
        BY <2>1, <2>2, <3>1
      <3>4. \E q \in Publication : q = p /\ WasPut(q)'
        BY <1>1, <3>3
      <3>5. QED BY <1>0, <2>1, <3>2, <3>4, RootsStay, PublicationTypes
    <2>3. CASE /\ At(h, "installing")' /\ ReadPending(h)
               /\ rows[SlotOf(handlers[h].now)] # None
               /\ p = rows[SlotOf(handlers[h].now)].publication
      <3>1. SlotOf(handlers[h].now) \in Slots
        BY <1>0, <2>3, HandlerTypes, SlotBounds DEF ReadPending, At
      <3>2. p.slot = SlotOf(handlers[h].now)
        BY <1>0, <2>3, <3>1 DEF Placed
      <3>3. \E q \in Publication : q = p /\ WasPut(q)
        BY <2>1, <2>3, <3>2 DEF WasPut
      <3>4. QED BY <1>1, <2>3, <3>3 DEF At
    <2>4. CASE /\ At(h, "installing")' /\ PutPending(h)
               /\ p = handlers[h].publication
      <3>1. CASE rows[handlers[h].publication.slot] = None
        <4>1. \A q \in Publication : q = handlers[h].publication => WasPut(q)'
          BY <1>0, <2>4, <3>1, PuttingAnew
        <4>2. QED BY <2>1, <2>4, <4>1 DEF At
      <3>2. CASE rows[handlers[h].publication.slot] # None
        <4>1. rows[p.slot].publication = p
          BY <2>4, <3>2 DEF PutPending
        <4>2. \E q \in Publication : q = p /\ WasPut(q)
          BY <2>1, <2>4, <3>2, <4>1 DEF WasPut
        <4>3. QED BY <1>1, <2>4, <4>2 DEF At
      <3>3. QED BY <3>1, <3>2
    <2>5. CASE /\ At(h, "marking")' /\ Install(h)
               /\ p = handlers[h].publication
      <3>1. WasPut(handlers[h].publication)
        BY <1>0, <2>5 DEF Install, Retention
      <3>2. roots' = [roots EXCEPT ![p.slot] = p]
        BY <2>5 DEF Install
      <3>3. \E q \in Publication : q = p /\ WasPut(q)
        BY <2>1, <2>5, <3>1
      <3>4. QED BY <1>0, <1>1, <2>1, <3>2, <3>3 DEF TypeOK
    <2>6. QED BY <1>0, <1>2, <2>2, <2>3, <2>4, <2>5, HandlerCameBy
  <1>3. ASSUME NEW s \in Slots, roots'[s] # None
        PROVE  \E q \in Publication : q = roots'[s] /\ WasPut(q)'
    <2>1. roots'[s] \in Publication
      BY <1>0, <1>3 DEF TypeOK
    <2>2. WasPut(roots[s]) /\ roots[s] = roots'[s] => \E q \in Publication : q = roots'[s] /\ WasPut(q)
      BY <2>1
    <2>3. ASSUME roots'[s] # roots[s] PROVE \E q \in Publication : q = roots'[s] /\ WasPut(q)
      <3>1. PICK h \in Handlers : Install(h) /\ roots'[s] = handlers[h].publication
        BY <1>0, <2>3, RootsStay
      <3>2. WasPut(handlers[h].publication)
        BY <1>0, <3>1 DEF Install, Retention
      <3>3. QED BY <2>1, <3>1, <3>2
    <2>4. roots'[s] = roots[s] => WasPut(roots[s])
      BY <1>0, <1>3 DEF Retention
    <2>5. QED BY <1>1, <2>2, <2>3, <2>4
  <1>4. ASSUME NEW h \in Handlers, At(h, "installing")' \/ At(h, "marking")'
        PROVE  WasPut(handlers[h].publication)'
    BY <1>2, <1>4 DEF WasPut, Outlived, RowSlots
  <1>5. ASSUME NEW s \in Slots, roots'[s] # None PROVE WasPut(roots[s])'
    BY <1>3, <1>5 DEF WasPut, Outlived, RowSlots
  <1>6. \A s \in RowSlots' : SizeOf(rows'[s].publication) <= MaxBytes
    BY <1>0, NextSizes
  <1>7. QED BY <1>1, <1>2, <1>4, <1>5, <1>6 DEF Retention

(* A row is marked by the handler that installed its publication. *)
LEMMA NextHistoryInstalled ==
  ASSUME IInv, SqliteInv, ~Remote, RetentionFits, [Next]_vars
  PROVE  HistoryIsInstalled'
  <1> SUFFICES ASSUME NEW s \in Slots, rows'[s] # None, rows'[s].installed
               PROVE  roots'[s] = rows'[s].publication
    BY DEF HistoryIsInstalled
  <1>0. TypeOK /\ Placed /\ Retention /\ HistoryIsInstalled
    BY DEF IInv, SqliteInv
  <1>1. ASSUME rows[s] # None, rows[s].installed
        PROVE  roots[s] = rows[s].publication /\ roots'[s] = rows[s].publication
    <2>1. roots[s] = rows[s].publication /\ rows[s].publication # None
      BY <1>0, <1>1, RowTypes, PublicationTypes DEF HistoryIsInstalled
    <2>2. QED BY <1>0, <2>1, RootsStay
  <1>2. CASE rows'[s] = rows[s]
    BY <1>1, <1>2
  <1>3. ASSUME NEW h \in Handlers, PutPending(h), rows'[s] # rows[s] PROVE FALSE
    <2>1. rows'[s] \in {None, rows[s],
                        [publication |-> handlers[h].publication, installed |-> FALSE]}
      BY <1>3 DEF PutPending
    <2>2. QED BY <1>3, <2>1
  <1>4. ASSUME NEW h \in Handlers, MarkInstalled(h), rows'[s] # rows[s]
        PROVE  roots'[s] = rows'[s].publication
    <2> DEFINE p == handlers[h].publication
    <2>1. /\ p \in Publication /\ p.slot \in Slots
          /\ rows[p.slot] # None /\ rows[p.slot] \in Row
      BY <1>0, <1>4, PublicationOf, RowTypes DEF MarkInstalled
    <2>2. rows' = [rows EXCEPT ![p.slot].installed = TRUE]
      BY <1>4 DEF MarkInstalled
    <2>3. s = p.slot
      BY <1>0, <1>4, <2>2 DEF TypeOK
    <2>4. WasPut(p) /\ roots[p.slot] = p
      BY <1>0, <1>4 DEF MarkInstalled, Retention
    <2>5. ~Outlived(p.slot)
      BY <2>1, SlotTypes DEF Outlived, RowSlots
    <2>6. rows[p.slot].publication = p
      BY <2>4, <2>5 DEF WasPut
    <2>7. rows'[s].publication = p
      BY <1>0, <2>1, <2>2, <2>3, <2>6 DEF TypeOK, Row
    <2>8. UNCHANGED roots
      BY <1>4 DEF MarkInstalled
    <2>9. QED BY <2>3, <2>4, <2>7, <2>8
  <1>5. \/ UNCHANGED rows
        \/ \E h \in Handlers : PutPending(h) \/ MarkInstalled(h)
    BY WhoWrites
  <1>6. QED BY <1>2, <1>3, <1>4, <1>5

(* What is answered is the root of its slot, and stays it. *)
LEMMA NextServed ==
  ASSUME IInv, SqliteInv, [Next]_vars
  PROVE  ServedIsCommonRoot'
  <1> SUFFICES ASSUME NEW p \in served' PROVE roots'[p.slot] = p
    BY DEF ServedIsCommonRoot
  <1>0. TypeOK /\ Placed /\ Retention /\ HistoryIsInstalled /\ ServedIsCommonRoot /\ TypeOK'
    BY NextTypeOK DEF IInv, SqliteInv
  <1>1. p \in Publication /\ p # None /\ p.slot \in Slots
    BY <1>0, PublicationTypes DEF TypeOK
  <1>2. roots[p.slot] = p => roots'[p.slot] = p
    BY <1>0, <1>1, RootsStay
  <1>3. ASSUME NEW s \in Slots, rows[s] # None, rows[s].installed, p = rows[s].publication
        PROVE  roots[p.slot] = p
    BY <1>0, <1>3 DEF Placed, HistoryIsInstalled
  <1>4. CASE p \in served
    BY <1>0, <1>2, <1>4 DEF ServedIsCommonRoot
  <1>5. ASSUME NEW h \in Handlers, ReadPending(h), p \notin served PROVE roots[p.slot] = p
    <2> DEFINE row == rows[SlotOf(handlers[h].now)]
    <2>1. SlotOf(handlers[h].now) \in Slots
      BY <1>0, <1>5, HandlerTypes, SlotBounds DEF ReadPending, At
    <2>2. row # None /\ OnceInstalled(row) = "serve" /\ p = row.publication
      BY <1>5 DEF ReadPending, Answer
    <2>3. row.installed
      BY <2>2 DEF OnceInstalled
    <2>4. QED BY <1>3, <2>1, <2>2, <2>3
  <1>6. ASSUME NEW h \in Handlers, PutPending(h), p \notin served PROVE roots[p.slot] = p
    <2> DEFINE q == handlers[h].publication
    <2>1. q.slot \in Slots
      BY <1>0, <1>6, PublicationOf DEF PutPending
    <2>2. rows[q.slot] # None /\ rows[q.slot].installed /\ rows[q.slot].publication = q /\ p = q
      BY <1>6 DEF PutPending, Answer
    <2>3. QED BY <1>3, <2>1, <2>2
  <1>7. ASSUME NEW h \in Handlers, MarkInstalled(h), p \notin served PROVE roots[p.slot] = p
    <2>1. p = handlers[h].publication
      BY <1>7 DEF MarkInstalled, Answer
    <2>2. QED BY <1>0, <1>7, <2>1 DEF MarkInstalled, Retention
  <1>8. ASSUME NEW h \in Handlers, NEW slot \in Slots, Checkpoint(h, slot), p \notin served
        PROVE  roots[p.slot] = p
    BY <1>3, <1>8 DEF Checkpoint, Retained, Answer
  <1>9. \/ UNCHANGED served
        \/ \E h \in Handlers :
             \/ ReadPending(h) \/ PutPending(h) \/ MarkInstalled(h)
             \/ \E slot \in Slots : Checkpoint(h, slot)
    BY WhoWrites
  <1>10. QED BY <1>2, <1>4, <1>5, <1>6, <1>7, <1>8, <1>9

(* An empty database has put nothing. *)
LEMMA InitSqliteInv == Init => SqliteInv
  <1> SUFFICES ASSUME Init PROVE SqliteInv
    OBVIOUS
  <1>1. RowSlots = {}
    BY DEF Init, RowSlots
  <1>2. IsFiniteSet(RowSlots) /\ Cardinality(RowSlots) <= MaxRetained
    BY <1>1, FS_EmptySet, EnrollmentConstants DEF StoreLimits
  <1>3. \A s \in RowSlots : SizeOf(rows[s].publication) <= MaxBytes
    BY <1>1
  <1>4. QED BY <1>2, <1>3 DEF Init, SqliteInv, Retention, HistoryIsInstalled, ServedIsCommonRoot, At

(* The invariant of SQLite's store, in every behaviour in which its limit  *)
(* in bytes leaves room for what it retains. *)
LEMMA InductiveSqlite ==
  ASSUME ~Remote, RetentionFits
  PROVE  Spec => []SqliteInv
  <1>1. IInv /\ SqliteInv /\ [Next]_vars => SqliteInv'
    BY NextRetention, NextHistoryInstalled, NextServed DEF SqliteInv
  <1>2. QED BY Inductive, InitSqliteInv, <1>1, PTL DEF Spec

(* Everybody proves under one roster a slot (enrollment-service.mjs,       *)
(* publishAt and checkpoint), with the store of enrollment-store.mjs, if   *)
(* as many publications as it retains fit its limit in bytes: the slot of  *)
(* a handler that comes too late then has no row any more, so that it has  *)
(* nothing to mark.                                                        *)
THEOREM OneRootServed ==
  ASSUME ~Remote, RetentionFits
  PROVE  Spec => []ServedIsCommonRoot
  <1>1. SqliteInv => ServedIsCommonRoot BY DEF SqliteInv
  <1>2. QED BY InductiveSqlite, <1>1, PTL

(* Then a row that is marked has the publication that was installed        *)
(* (enrollment-store.mjs, markInstalled, which names only the slot). *)
THEOREM InstalledHistory ==
  ASSUME ~Remote, RetentionFits
  PROVE  Spec => []HistoryIsInstalled
  <1>1. SqliteInv => HistoryIsInstalled BY DEF SqliteInv
  <1>2. QED BY InductiveSqlite, <1>1, PTL
-----------------------------------------------------------------------------
(* More slots take no fewer bytes. *)
LEMMA BytesGrow ==
  ASSUME NEW texts, NEW T, IsFiniteSet(T), NEW U \in SUBSET T
  PROVE  Bytes(texts, U) \in Nat /\ Bytes(texts, T) \in Nat /\ Bytes(texts, U) <= Bytes(texts, T)
  <1> DEFINE units(V) == {x \in V \X (1 .. MaxBytes) : x[2] <= SizeOf(texts[x[1]])}
  <1>1. IsFiniteSet(T \X (1 .. MaxBytes))
    <2>1. MaxBytes \in Int /\ 1 \in Int
      BY EnrollmentConstants DEF StoreLimits
    <2>2. IsFiniteSet(1 .. MaxBytes)
      BY <2>1, FS_Interval
    <2>3. QED BY <2>2, FS_Product
  <1>2. IsFiniteSet(units(T)) /\ IsFiniteSet(units(U)) /\ Cardinality(units(U)) <= Cardinality(units(T))
    <2>1. units(T) \subseteq T \X (1 .. MaxBytes) /\ units(U) \subseteq units(T)
      OBVIOUS
    <2> HIDE DEF units
    <2>2. QED BY <1>1, <2>1, FS_Subset
  <1>3. Cardinality(units(T)) \in Nat /\ Cardinality(units(U)) \in Nat
    BY <1>2, FS_CardinalityType
  <1>4. QED BY <1>2, <1>3 DEF Bytes

(* Where no other slot's publication fits beside the one being put, both   *)
(* stores drop every other row, also a newer one that its handler has yet  *)
(* to mark (enrollment-store.mjs:135-141, enrollment-turso.mjs:152-158).   *)
THEOREM StoresPruneAlike ==
  ASSUME NEW texts, DOMAIN texts \subseteq Nat, IsFiniteSet(DOMAIN texts),
         Cardinality(DOMAIN texts) <= MaxRetained, NEW slot \in DOMAIN texts,
         \A s \in DOMAIN texts \ {slot} : Bytes(texts, {slot, s}) > MaxBytes
  PROVE  SqliteKept(texts, slot) = {slot} /\ TursoKept(texts, slot) = {slot}
  <1> DEFINE S == DOMAIN texts
  <1>1. MaxRetained \in Nat \ {0} /\ MaxBytes \in Nat
    BY EnrollmentConstants DEF StoreLimits
  <1>2. ASSUME NEW s \in S, s # slot, NEW T \in SUBSET S, {slot, s} \subseteq T
        PROVE  ~(Bytes(texts, T) <= MaxBytes)
    <2>1. IsFiniteSet(T)
      BY FS_Subset
    <2>2. /\ Bytes(texts, {slot, s}) \in Nat /\ Bytes(texts, T) \in Nat
          /\ Bytes(texts, {slot, s}) <= Bytes(texts, T)
      BY <1>2, <2>1, BytesGrow
    <2>3. Bytes(texts, {slot, s}) > MaxBytes
      BY <1>2
    <2>4. QED BY <1>1, <2>2, <2>3
  <1>3. SqliteKept(texts, slot) = {slot}
    <2>1. NewestOf(S, MaxRetained) = S
      <3>1. Cardinality(S) \in Nat
        BY FS_CardinalityType
      <3>2. QED BY <1>1, <3>1, NewestAre
    <2>2. SqliteKept(texts, slot) =
            {s \in S : s = slot \/ Bytes(texts, {t \in S : t >= s \/ t = slot}) <= MaxBytes}
      BY <2>1 DEF SqliteKept
    <2>3. ASSUME NEW s \in S, s # slot
          PROVE  ~(Bytes(texts, {t \in S : t >= s \/ t = slot}) <= MaxBytes)
      <3>1. {slot, s} \subseteq {t \in S : t >= s \/ t = slot}
        OBVIOUS
      <3>2. QED BY <1>2, <2>3, <3>1
    <2>4. QED BY <2>2, <2>3
  <1>4. TursoKept(texts, slot) = {slot}
    <2> DEFINE Before(kept, s) == {t \in kept : t > s} \cup {slot}
               Fits(kept, s) == /\ Cardinality(Before(kept, s)) < MaxRetained
                                /\ Bytes(texts, Before(kept, s) \cup {s}) <= MaxBytes
               Keeps(kept) == \A s \in S : s \in kept <=> s = slot \/ Fits(kept, s)
    <2>1. TursoKept(texts, slot) = CHOOSE kept \in SUBSET S : Keeps(kept)
      BY DEF TursoKept
    <2>2. ASSUME NEW kept \in SUBSET S, NEW s \in S, s # slot PROVE ~Fits(kept, s)
      <3>1. {slot, s} \subseteq Before(kept, s) \cup {s} /\ Before(kept, s) \cup {s} \subseteq S
        OBVIOUS
      <3> HIDE DEF Before
      <3>2. QED BY <1>2, <2>2, <3>1
    <2> HIDE DEF Fits
    <2>3. Keeps({slot})
      BY <2>2
    <2>4. ASSUME NEW kept \in SUBSET S, Keeps(kept) PROVE kept = {slot}
      BY <2>2, <2>4
    <2>5. {slot} \in SUBSET S
      OBVIOUS
    <2> HIDE DEF Keeps
    <2>6. QED BY <2>1, <2>3, <2>4, <2>5
  <1>5. QED BY <1>3, <1>4
=============================================================================
