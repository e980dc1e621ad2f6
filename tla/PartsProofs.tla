---------------------------- MODULE PartsProofs ----------------------------
(***************************************************************************)
(* Theorems about the parts of MCParts, for any values of their constants. *)
(* A step of the composition is a step of one part and leaves the others   *)
(* alone, so each part has an inductive invariant of its own: Init and     *)
(* Step lemmas say that it is, and a theorem puts together what the parts  *)
(* of a property promise.                                                  *)
(***************************************************************************)
EXTENDS MCParts, Sequences, FiniteSetTheorems, TLAPS

(* A step of the composition is a step of each part, or leaves it alone.   *)
LEMMA StepsOfParts ==
    ASSUME [Next]_partsVars
    PROVE  /\ [Receipt!Next]_receiptVars
           /\ [Registry!Next]_registryVars
           /\ [Talk!Next]_forumVars
           /\ [Meeting!Next]_rdvVars
           /\ [Permit!Next]_permitVars
           /\ [Profile!Next]_profileVars
           /\ [Socket!Next]_socketVars
           /\ [Ticket!Next]_ticketVars
           /\ [Prototype!Next]_prototypeVars
           /\ [Holder!Next]_holderVars
           /\ [Presenter!Next]_presenterVars
           /\ [Runtime!Next]_runtimeVars
           /\ [Checkpoint!Next]_checkpointVars
<1>1. CASE UNCHANGED partsVars
  BY <1>1 DEF partsVars
<1>2. CASE Next
  BY <1>2 DEF Next, Only
<1> QED
  BY <1>1, <1>2

(* Each part has its own instance of the standard definition. *)
LEMMA SameCardinality == \A S :
    /\ Ticket!Cardinality(S) = Cardinality(S)
    /\ Runtime!Cardinality(S) = Cardinality(S)
    /\ Talk!Cardinality(S) = Cardinality(S)
    /\ Meeting!Cardinality(S) = Cardinality(S)
    /\ Profile!Cardinality(S) = Cardinality(S)
    /\ Permit!Cardinality(S) = Cardinality(S)
    /\ Registry!Cardinality(S) = Cardinality(S)
    /\ Receipt!Cardinality(S) = Cardinality(S)
BY DEF Ticket!Cardinality, Runtime!Cardinality, Talk!Cardinality, Meeting!Cardinality,
   Profile!Cardinality, Permit!Cardinality, Registry!Cardinality, Receipt!Cardinality, Cardinality
-----------------------------------------------------------------------------
(* Tickets.  An epoch is over when the durable floor has passed its end.   *)
Over(c) == \E e \in TicketEpochs : e.context = c /\ floor >= e.expiresAt

TicketTypes ==
    /\ floor \in Nat
    /\ registry \subseteq [context : TicketContexts, key : SigningKeys]
    /\ configs \subseteq [context : TicketContexts, policy : TicketPolicies]
    /\ issued \in [TicketContexts -> [Requesters -> Nat]]
    /\ issues \subseteq TicketRequests
    /\ replicas \subseteq [epoch : TicketEpochs, policy : TicketPolicies]
    /\ ticketed \subseteq [request : TicketRequests, key : SigningKeys, policy : TicketPolicies]
    /\ IsFiniteSet(ticketed)

(* A key is registered for one epoch, of every replica and signature. *)
KeysRegistered ==
    /\ \A k, l \in registry : k.key = l.key => k.context = l.context
    /\ \A h \in replicas : [context |-> h.epoch.context, key |-> h.epoch.key] \in registry
    /\ \A s \in ticketed : [context |-> s.request.context, key |-> s.key] \in registry

(* Until an epoch is over, its policy is the one in the database. *)
PoliciesPinned ==
    /\ \A k, l \in configs : k.context = l.context => k.policy = l.policy
    /\ \A h \in replicas :
        \/ [context |-> h.epoch.context, policy |-> h.policy] \in configs
        \/ Over(h.epoch.context)
    /\ \A s \in ticketed :
        \/ [context |-> s.request.context, policy |-> s.policy] \in configs
        \/ Over(s.request.context)

SignedFor(c, m) == {t \in Ticket!SignedIn(c) : t.request.member = m}

(* Until then the counters count its signatures. *)
TicketsCounted ==
    \A c \in TicketContexts : \A m \in Requesters :
        ~ Over(c) => issued[c][m] = Cardinality(SignedFor(c, m))

TicketInv ==
    /\ TicketTypes /\ KeysRegistered /\ PoliciesPinned /\ TicketsCounted
    /\ Ticket!Recoverable /\ Ticket!QuotaKept

LEMMA EpochOfContext ==
    ASSUME NEW e \in TicketEpochs, NEW f \in TicketEpochs, e.context = f.context PROVE e = f
BY TicketConstants DEF Ticket!KeyAccessConstants

LEMMA TicketShapes ==
    /\ \A r \in TicketRequests :
        r.member \in Requesters /\ r.context \in TicketContexts /\ r.id \in TicketIds
    /\ \A e \in TicketEpochs :
        /\ e.context \in TicketContexts /\ e.key \in SigningKeys
        /\ e.validFrom \in Nat /\ e.issueUntil \in Nat /\ e.expiresAt \in Nat
    /\ \A p \in TicketPolicies : p.perMember \in Nat \ {0} /\ p.members \in Nat \ {0}
    /\ TicketTimes \subseteq Nat \ {0}
BY TicketConstants DEF Ticket!KeyAccessConstants, Ticket!Request, Ticket!Epoch, Ticket!Policy

LEMMA SignedForFinite ==
    ASSUME TicketTypes, NEW c, NEW m
    PROVE  /\ IsFiniteSet(SignedFor(c, m)) /\ Cardinality(SignedFor(c, m)) \in Nat
           /\ IsFiniteSet(Ticket!SignedIn(c))
           /\ (SignedFor(c, m) = {}) <=> (Cardinality(SignedFor(c, m)) = 0)
<1>1. SignedFor(c, m) \subseteq ticketed /\ Ticket!SignedIn(c) \subseteq ticketed
  BY DEF SignedFor, Ticket!SignedIn
<1>2. IsFiniteSet(SignedFor(c, m)) /\ IsFiniteSet(Ticket!SignedIn(c))
  BY <1>1, FS_Subset DEF TicketTypes
<1> QED
  BY <1>2, FS_CardinalityType, FS_EmptySet

LEMMA TicketInit == ASSUME Ticket!Init PROVE TicketInv
<1>1. IsFiniteSet({}) /\ Cardinality({}) = 0
  BY FS_EmptySet
<1>2. TicketTypes
  BY <1>1 DEF TicketTypes, Ticket!Init
<1>3. KeysRegistered /\ PoliciesPinned /\ Ticket!Recoverable
  BY DEF KeysRegistered, PoliciesPinned, Ticket!Recoverable, Ticket!Init
<1>4. \A c, m : Ticket!SignedIn(c) = {} /\ SignedFor(c, m) = {}
  BY DEF SignedFor, Ticket!SignedIn, Ticket!Init
<1>5. TicketsCounted
  BY <1>1, <1>4 DEF TicketsCounted, Ticket!Init
<1>6. Ticket!QuotaKept
  BY <1>4 DEF Ticket!QuotaKept
<1> QED
  BY <1>2, <1>3, <1>5, <1>6 DEF TicketInv

(* An epoch that is over stays over. *)
LEMMA OverStays ==
    ASSUME TicketTypes, TicketTypes', floor' >= floor, NEW c, Over(c) PROVE Over(c)'
BY TicketShapes DEF Over, TicketTypes

(* What issues is not over. *)
LEMMA NotOver ==
    ASSUME TicketTypes, NEW h \in replicas, NEW now \in TicketTimes, floor <= now,
           now < h.epoch.expiresAt
    PROVE  ~ Over(h.epoch.context)
<1>1. h.epoch \in TicketEpochs
  BY DEF TicketTypes
<1> QED
  BY <1>1, EpochOfContext, TicketShapes DEF Over, TicketTypes

(* The quota of an epoch, of who asked in it. *)
Asking(c) == {t.request.member : t \in Ticket!SignedIn(c)}
QuotaIn(c, s) ==
    /\ \A t \in Ticket!SignedIn(c) : t.policy = s.policy
    /\ Cardinality(Asking(c)) <= s.policy.members
    /\ \A m \in Requesters : Cardinality(SignedFor(c, m)) <= s.policy.perMember

LEMMA QuotaForm ==
    /\ Ticket!QuotaKept <=> \A c \in TicketContexts : \A s \in Ticket!SignedIn(c) : QuotaIn(c, s)
    /\ Ticket!QuotaKept' <=> \A c \in TicketContexts : \A s \in Ticket!SignedIn(c)' : QuotaIn(c, s)'
<1>1. \A c, m : {t \in Ticket!SignedIn(c) : t.request.member = m} = SignedFor(c, m)
  BY Zenon DEF SignedFor
<1>2. \A c, m : {t \in Ticket!SignedIn(c)' : t.request.member = m} = SignedFor(c, m)'
  BY Zenon DEF SignedFor
<1>3. \A c : {t.request.member : t \in Ticket!SignedIn(c)} = Asking(c)
  BY Zenon DEF Asking
<1>4. \A c : {t.request.member : t \in Ticket!SignedIn(c)'} = Asking(c)'
  BY Zenon DEF Asking
<1>5. ASSUME Ticket!QuotaKept, NEW c \in TicketContexts, NEW s \in Ticket!SignedIn(c)
      PROVE  QuotaIn(c, s)
  BY <1>1, <1>3, <1>5, SameCardinality, Zenon DEF Ticket!QuotaKept, QuotaIn
<1>6. ASSUME \A c \in TicketContexts : \A s \in Ticket!SignedIn(c) : QuotaIn(c, s)
      PROVE  Ticket!QuotaKept
  BY <1>1, <1>3, <1>6, SameCardinality, Zenon DEF Ticket!QuotaKept, QuotaIn
<1>7. ASSUME Ticket!QuotaKept', NEW c \in TicketContexts, NEW s \in Ticket!SignedIn(c)'
      PROVE  QuotaIn(c, s)'
  BY <1>2, <1>4, <1>7, SameCardinality, Zenon DEF Ticket!QuotaKept, QuotaIn
<1>8. ASSUME \A c \in TicketContexts : \A s \in Ticket!SignedIn(c)' : QuotaIn(c, s)'
      PROVE  Ticket!QuotaKept'
  BY <1>2, <1>4, <1>8, SameCardinality, Zenon DEF Ticket!QuotaKept, QuotaIn
<1> QED
  BY <1>5, <1>6, <1>7, <1>8

(* What was signed is a matter of the signatures alone. *)
LEMMA QuotaStays == ASSUME Ticket!QuotaKept, UNCHANGED ticketed PROVE Ticket!QuotaKept'
<1>1. \A c : Ticket!SignedIn(c)' = Ticket!SignedIn(c)
  BY DEF Ticket!SignedIn
<1>2. \A c, m : SignedFor(c, m)' = SignedFor(c, m)
  BY <1>1, Zenon DEF SignedFor
<1>3. \A c : Asking(c)' = Asking(c)
  BY <1>1, Zenon DEF Asking
<1>4. \A c, s : QuotaIn(c, s)' <=> QuotaIn(c, s)
  BY <1>1, <1>2, <1>3, Zenon DEF QuotaIn
<1> QED
  BY <1>1, <1>4, QuotaForm, Zenon

LEMMA TicketOpen ==
    ASSUME TicketInv, NEW e \in TicketEpochs, NEW p \in TicketPolicies, Ticket!Open(e, p)
    PROVE  TicketInv'
<1> USE DEF TicketInv
<1> DEFINE k0 == [context |-> e.context, key |-> e.key]
           c0 == [context |-> e.context, policy |-> p]
<1>1. /\ registry' = registry \cup {k0} /\ configs' = configs \cup {c0}
      /\ replicas' = replicas \cup {[epoch |-> e, policy |-> p]}
      /\ floor' = floor /\ issued' = issued /\ issues' = issues /\ ticketed' = ticketed
  BY DEF Ticket!Open
<1>2. TicketTypes'
  BY <1>1, TicketShapes DEF TicketTypes
<1>3. KeysRegistered'
  <2>1. \A k \in registry : k.key = e.key => k.context = e.context
    BY DEF Ticket!Open, Ticket!KeyFree
  <2>2. ASSUME NEW k \in registry', NEW l \in registry', k.key = l.key PROVE k.context = l.context
    <3>1. k \in registry \/ k = k0
      BY <1>1
    <3>2. l \in registry \/ l = k0
      BY <1>1
    <3>3. k0.context = e.context /\ k0.key = e.key
      OBVIOUS
    <3> QED
      BY <3>1, <3>2, <3>3, <2>1, <2>2 DEF KeysRegistered
  <2>3. ASSUME NEW h \in replicas'
        PROVE  [context |-> h.epoch.context, key |-> h.epoch.key] \in registry'
    <3>1. CASE h \in replicas
      BY <1>1, <3>1 DEF KeysRegistered
    <3>2. CASE h = [epoch |-> e, policy |-> p]
      BY <1>1, <3>2
    <3> QED
      BY <1>1, <3>1, <3>2
  <2>4. \A s \in ticketed' : [context |-> s.request.context, key |-> s.key] \in registry'
    BY <1>1 DEF KeysRegistered
  <2> QED
    BY <2>2, <2>3, <2>4 DEF KeysRegistered
<1>4. PoliciesPinned'
  <2>1. \A c \in configs : c.context = e.context => c.policy = p
    BY DEF Ticket!Open, Ticket!PolicyPinned
  <2>2. ASSUME NEW k \in configs', NEW l \in configs', k.context = l.context
        PROVE  k.policy = l.policy
    <3>1. k \in configs \/ k = c0
      BY <1>1
    <3>2. l \in configs \/ l = c0
      BY <1>1
    <3>3. c0.context = e.context /\ c0.policy = p
      OBVIOUS
    <3> QED
      BY <3>1, <3>2, <3>3, <2>1, <2>2 DEF PoliciesPinned
  <2>3. ASSUME NEW h \in replicas'
        PROVE  \/ [context |-> h.epoch.context, policy |-> h.policy] \in configs'
               \/ Over(h.epoch.context)'
    <3>1. CASE h \in replicas
      BY <1>1, <3>1 DEF PoliciesPinned, Over
    <3>2. CASE h = [epoch |-> e, policy |-> p]
      BY <1>1, <3>2
    <3> QED
      BY <1>1, <3>1, <3>2
  <2>4. \A s \in ticketed' : [context |-> s.request.context, policy |-> s.policy] \in configs'
            \/ Over(s.request.context)'
    BY <1>1 DEF PoliciesPinned, Over
  <2> QED
    BY <2>2, <2>3, <2>4 DEF PoliciesPinned
<1>5. TicketsCounted'
  BY <1>1 DEF TicketsCounted, Over, SignedFor, Ticket!SignedIn
<1>6. Ticket!Recoverable'
  BY <1>1 DEF Ticket!Recoverable, Ticket!PriorOf
<1>7. Ticket!QuotaKept'
  BY <1>1, QuotaStays
<1> QED
  BY <1>2, <1>3, <1>4, <1>5, <1>6, <1>7

LEMMA TicketRetry ==
    ASSUME TicketInv, NEW h \in replicas, NEW r \in TicketRequests,
           NEW now \in TicketTimes, NEW done \in TicketTimes, Ticket!Retry(h, r, now, done)
    PROVE  TicketInv'
<1> USE DEF TicketInv
<1>1. /\ floor' = done /\ floor <= now /\ now <= done
      /\ UNCHANGED <<registry, configs, issued, issues, replicas, ticketed>>
  BY DEF Ticket!Retry
<1>2. TicketTypes' /\ floor' >= floor
  <2>1. now \in Nat /\ done \in Nat
    BY TicketShapes
  <2>2. floor' \in Nat /\ floor' >= floor
    BY <1>1, <2>1 DEF TicketTypes
  <2> QED
    BY <1>1, <2>2 DEF TicketTypes
<1>3. \A c : Over(c) => Over(c)'
  BY <1>2, OverStays
<1>4. KeysRegistered'
  BY <1>1 DEF KeysRegistered
<1>5. PoliciesPinned'
  BY <1>1, <1>3 DEF PoliciesPinned
<1>6. TicketsCounted'
  <2>1. \A c, m : SignedFor(c, m)' = SignedFor(c, m)
    BY <1>1 DEF SignedFor, Ticket!SignedIn
  <2> QED
    BY <1>1, <1>3, <2>1 DEF TicketsCounted
<1>7. Ticket!Recoverable'
  BY <1>1, <1>3 DEF Ticket!Recoverable, Ticket!PriorOf, Over
<1>8. Ticket!QuotaKept'
  BY <1>1, QuotaStays
<1> QED
  BY <1>2, <1>4, <1>5, <1>6, <1>7, <1>8

LEMMA TicketPrune ==
    ASSUME TicketInv, NEW now \in TicketTimes, Ticket!Prune(now)
    PROVE  TicketInv'
<1> USE DEF TicketInv
<1> DEFINE gone == Ticket!Prunable(now)
<1>1. /\ floor' = now /\ now >= floor
      /\ issued' = [c \in TicketContexts |-> [m \in Requesters |->
            IF c \in gone THEN 0 ELSE issued[c][m]]]
      /\ issues' = {r \in issues : r.context \notin gone}
      /\ configs' = {c \in configs : c.context \notin gone}
      /\ UNCHANGED <<registry, replicas, ticketed>>
  BY DEF Ticket!Prune, Ticket!ResetCounters
<1>2. TicketTypes' /\ floor' >= floor
  <2>1. floor' \in Nat /\ floor' >= floor
    BY <1>1, TicketShapes DEF TicketTypes
  <2>2. issued' \in [TicketContexts -> [Requesters -> Nat]]
    BY <1>1 DEF TicketTypes
  <2>3. issues' \subseteq TicketRequests
        /\ configs' \subseteq [context : TicketContexts, policy : TicketPolicies]
    BY <1>1 DEF TicketTypes
  <2> QED
    BY <1>1, <2>1, <2>2, <2>3 DEF TicketTypes
<1>3. \A c : Over(c) => Over(c)'
  BY <1>2, OverStays
<1>4. \A c \in gone : Over(c)'
  <2> SUFFICES ASSUME NEW c \in gone PROVE Over(c)'
    OBVIOUS
  <2>1. PICK e \in TicketEpochs : e.context = c /\ e.expiresAt <= now
    BY DEF Ticket!Prunable
  <2> QED
    BY <1>1, <2>1, TicketShapes DEF Over
<1>5. KeysRegistered'
  BY <1>1 DEF KeysRegistered
<1>6. PoliciesPinned'
  BY <1>1, <1>3, <1>4 DEF PoliciesPinned
<1>7. TicketsCounted'
  BY <1>1, <1>3, <1>4 DEF TicketsCounted, SignedFor, Ticket!SignedIn
<1>8. Ticket!Recoverable'
  <2> SUFFICES ASSUME NEW s \in ticketed, ~ Over(s.request.context)'
               PROVE  s.request \in issues' /\ Ticket!PriorOf(s.request)' = {s.request}
    BY <1>1 DEF Ticket!Recoverable, Over
  <2>1. ~ Over(s.request.context) /\ s.request.context \notin gone
    BY <1>3, <1>4
  <2>2. s.request \in issues /\ Ticket!PriorOf(s.request) = {s.request}
    BY <2>1 DEF Ticket!Recoverable, Over
  <2> QED
    BY <1>1, <2>1, <2>2 DEF Ticket!PriorOf
<1>9. Ticket!QuotaKept'
  BY <1>1, QuotaStays
<1> QED
  BY <1>2, <1>5, <1>6, <1>7, <1>8, <1>9

LEMMA TicketIssue ==
    ASSUME TicketInv, NEW h \in replicas, NEW r \in TicketRequests,
           NEW now \in TicketTimes, NEW done \in TicketTimes, Ticket!Issue(h, r, now, done)
    PROVE  TicketInv'
<1> USE DEF TicketInv
<1> DEFINE c == h.epoch.context
           m == r.member
           new == [request |-> r, key |-> h.epoch.key, policy |-> h.policy]
<1>1. /\ r.context = c /\ floor <= now /\ now <= done /\ now < h.epoch.expiresAt
      /\ Ticket!PriorOf(r) = {} /\ Ticket!Room(h, m)
      /\ issued' = [issued EXCEPT ![c][m] = @ + 1]
      /\ issues' = issues \cup {r} /\ ticketed' = ticketed \cup {new} /\ floor' = done
      /\ UNCHANGED <<registry, configs, replicas>>
  BY DEF Ticket!Issue, Ticket!CheckTime
<1>2. /\ h.epoch \in TicketEpochs /\ h.policy \in TicketPolicies
      /\ c \in TicketContexts /\ m \in Requesters /\ h.epoch.key \in SigningKeys
      /\ h.policy.perMember \in Nat \ {0} /\ h.policy.members \in Nat \ {0}
  BY TicketShapes DEF TicketTypes
<1>3. ~ Over(c)
  BY <1>1, NotOver
<1>4. new \notin ticketed
  <2> SUFFICES ASSUME new \in ticketed PROVE FALSE
    OBVIOUS
  <2>1. new.request = r
    OBVIOUS
  <2>2. r \in issues
    BY <1>1, <1>3, <2>1 DEF Ticket!Recoverable, Over
  <2> QED
    BY <1>1, <2>2 DEF Ticket!PriorOf
<1>5. TicketTypes' /\ floor' >= floor
  <2>1. floor' \in Nat /\ floor' >= floor
    BY <1>1, TicketShapes DEF TicketTypes
  <2>2. IsFiniteSet(ticketed')
    BY <1>1, FS_AddElement DEF TicketTypes
  <2>3. issued' \in [TicketContexts -> [Requesters -> Nat]]
    BY <1>1, <1>2 DEF TicketTypes
  <2>4. new \in [request : TicketRequests, key : SigningKeys, policy : TicketPolicies]
    BY <1>2
  <2> QED
    BY <1>1, <2>1, <2>2, <2>3, <2>4 DEF TicketTypes
<1>6. \A x : Over(x) => Over(x)'
  BY <1>5, OverStays
<1>7. KeysRegistered'
  <2>1. [context |-> c, key |-> h.epoch.key] \in registry
    BY DEF KeysRegistered
  <2>2. ASSUME NEW s \in ticketed'
        PROVE  [context |-> s.request.context, key |-> s.key] \in registry
    <3>1. CASE s \in ticketed
      BY <3>1 DEF KeysRegistered
    <3>2. CASE s = new
      BY <1>1, <2>1, <3>2
    <3> QED
      BY <1>1, <3>1, <3>2
  <2> QED
    BY <1>1, <2>2 DEF KeysRegistered
<1>8. [context |-> c, policy |-> h.policy] \in configs
  BY <1>3 DEF PoliciesPinned
<1>9. PoliciesPinned'
  <2>1. ASSUME NEW s \in ticketed'
        PROVE  \/ [context |-> s.request.context, policy |-> s.policy] \in configs
               \/ Over(s.request.context)'
    <3>1. CASE s \in ticketed
      BY <1>6, <3>1 DEF PoliciesPinned
    <3>2. CASE s = new
      BY <1>1, <1>8, <3>2
    <3> QED
      BY <1>1, <3>1, <3>2
  <2> QED
    BY <1>1, <1>6, <2>1 DEF PoliciesPinned
<1>10. \A s \in Ticket!SignedIn(c) : s.policy = h.policy
  BY <1>3, <1>8 DEF PoliciesPinned, Ticket!SignedIn
<1>11. /\ SignedFor(c, m)' = SignedFor(c, m) \cup {new}
       /\ Ticket!SignedIn(c)' = Ticket!SignedIn(c) \cup {new}
       /\ new \notin SignedFor(c, m)
  <2>1. new.request = r
    OBVIOUS
  <2> QED
    BY <1>1, <1>4, <2>1 DEF SignedFor, Ticket!SignedIn
<1>12. \A x, y : x # c \/ y # m => SignedFor(x, y)' = SignedFor(x, y)
  <2>1. new.request = r
    OBVIOUS
  <2> QED
    BY <1>1, <2>1 DEF SignedFor, Ticket!SignedIn
<1>13. \A x : x # c => Ticket!SignedIn(x)' = Ticket!SignedIn(x)
  <2>1. new.request = r /\ r.context = c
    BY <1>1
  <2> HIDE DEF new
  <2>2. ASSUME NEW x, x # c PROVE Ticket!SignedIn(x)' = Ticket!SignedIn(x)
    BY <1>1, <2>1, <2>2 DEF Ticket!SignedIn
  <2> QED
    BY <2>2
<1>14. Cardinality(SignedFor(c, m)') = Cardinality(SignedFor(c, m)) + 1
  <2> HIDE DEF new, TicketInv
  <2>1. IsFiniteSet(SignedFor(c, m))
    BY SignedForFinite DEF TicketInv
  <2>2. Cardinality(SignedFor(c, m) \cup {new}) = Cardinality(SignedFor(c, m)) + 1
    BY <1>11, <2>1, FS_AddElement
  <2> QED
    BY <1>11, <2>2
<1>15. issued[c][m] = Cardinality(SignedFor(c, m)) /\ issued[c][m] \in Nat
  BY <1>2, <1>3 DEF TicketsCounted, TicketTypes
<1>16. TicketsCounted'
  <2> SUFFICES ASSUME NEW x \in TicketContexts, NEW y \in Requesters, ~ Over(x)'
               PROVE  issued'[x][y] = Cardinality(SignedFor(x, y)')
    BY DEF TicketsCounted
  <2>1. issued[x][y] = Cardinality(SignedFor(x, y))
    BY <1>6 DEF TicketsCounted
  <2>2. CASE x = c /\ y = m
    <3>1. issued'[c][m] = issued[c][m] + 1
      BY <1>1, <1>2 DEF TicketTypes
    <3> QED
      BY <2>2, <3>1, <1>14, <1>15
  <2>3. CASE x # c \/ y # m
    <3>1. issued'[x][y] = issued[x][y]
      BY <1>1, <1>2, <2>3 DEF TicketTypes
    <3>2. SignedFor(x, y)' = SignedFor(x, y)
      BY <1>12, <2>3
    <3> QED
      BY <2>1, <3>1, <3>2
  <2> QED
    BY <2>2, <2>3
<1>17. Ticket!Recoverable'
  <2> SUFFICES ASSUME NEW s \in ticketed', ~ Over(s.request.context)'
               PROVE  s.request \in issues' /\ Ticket!PriorOf(s.request)' = {s.request}
    BY DEF Ticket!Recoverable, Over
  <2>1. CASE s \in ticketed
    <3>1. ~ Over(s.request.context)
      BY <1>6
    <3>2. s.request \in issues /\ Ticket!PriorOf(s.request) = {s.request}
      BY <2>1, <3>1 DEF Ticket!Recoverable, Over
    <3>3. ~ (r.context = s.request.context /\ r.member = s.request.member
                 /\ r.id = s.request.id)
      BY <1>1, <3>2 DEF Ticket!PriorOf
    <3> QED
      BY <1>1, <3>2, <3>3 DEF Ticket!PriorOf
  <2>2. CASE s = new
    <3>1. s.request = r
      BY <2>2
    <3> QED
      BY <1>1, <3>1 DEF Ticket!PriorOf
  <2> QED
    BY <1>1, <2>1, <2>2
<1>18. Ticket!QuotaKept'
  <2>1. Ticket!Counted(c) = Asking(c)
    <3>1. \A y \in Requesters : issued[c][y] > 0 <=> SignedFor(c, y) # {}
      BY <1>2, <1>3, SignedForFinite DEF TicketsCounted
    <3>2. \A y : SignedFor(c, y) # {} <=> y \in Asking(c)
      BY DEF SignedFor, Asking
    <3>3. \A t \in Ticket!SignedIn(c) : t.request.member \in Requesters
      BY TicketShapes DEF Ticket!SignedIn, TicketTypes
    <3> QED
      BY <3>1, <3>2, <3>3 DEF Ticket!Counted, Asking
  <2>2. Asking(c)' = Asking(c) \cup {m}
    <3>1. new.request.member = m
      OBVIOUS
    <3> QED
      BY <3>1, <1>11 DEF Asking
  <2>3. IsFiniteSet(Asking(c))
    <3> DEFINE f == [t \in Ticket!SignedIn(c) |-> t.request.member]
    <3>1. f \in Surjection(Ticket!SignedIn(c), Asking(c))
      BY DEF Surjection, Asking
    <3> HIDE DEF f
    <3> QED
      BY <3>1, SignedForFinite, FS_Surjection
  <2>4. Cardinality(Asking(c) \cup {m}) <= h.policy.members
    <3>1. CASE issued[c][m] > 0
      <4>1. PICK s \in SignedFor(c, m) : TRUE
        BY <3>1, <1>15, SignedForFinite
      <4>2. s \in Ticket!SignedIn(c) /\ s.request.member = m
        BY <4>1 DEF SignedFor
      <4>3. Cardinality(Asking(c)) <= s.policy.members
        BY <1>2, <4>2, QuotaForm DEF QuotaIn
      <4>4. Asking(c) \cup {m} = Asking(c)
        BY <4>2 DEF Asking
      <4> QED
        BY <4>2, <4>3, <4>4, <1>10
    <3>2. CASE ~ issued[c][m] > 0
      <4>1. Cardinality(Asking(c)) < h.policy.members
        <5>1. Cardinality(Ticket!Counted(c)) < h.policy.members
          <6>1. Ticket!Room(h, m)
            BY <1>1
          <6> QED
            BY <6>1, <3>2, SameCardinality DEF Ticket!Room
        <5> QED
          BY <5>1, <2>1
      <4>2. m \notin Asking(c)
        BY <2>1, <3>2 DEF Ticket!Counted
      <4>3. Cardinality(Asking(c) \cup {m}) = Cardinality(Asking(c)) + 1 /\ Cardinality(Asking(c)) \in Nat
        BY <2>3, <4>2, FS_AddElement, FS_CardinalityType
      <4> QED
        BY <1>2, <4>1, <4>3
    <3> QED
      BY <3>1, <3>2
  <2>5. ASSUME NEW y \in Requesters PROVE Cardinality(SignedFor(c, y)') <= h.policy.perMember
    <3>1. CASE y = m
      BY <1>1, <1>2, <1>14, <1>15, <3>1 DEF Ticket!Room
    <3>2. CASE y # m /\ SignedFor(c, y) = {}
      BY <1>2, <1>12, <3>2, FS_EmptySet
    <3>3. CASE y # m /\ SignedFor(c, y) # {}
      <4>1. PICK s \in SignedFor(c, y) : TRUE
        BY <3>3
      <4>2. s \in Ticket!SignedIn(c)
        BY <4>1 DEF SignedFor
      <4>3. Cardinality(SignedFor(c, y)) <= s.policy.perMember
        BY <1>2, <4>2, QuotaForm DEF QuotaIn
      <4> QED
        BY <1>10, <1>12, <3>3, <4>2, <4>3
    <3> QED
      BY <3>1, <3>2, <3>3
  <2>6. \A s \in Ticket!SignedIn(c)' : s.policy = h.policy
    <3>1. new.policy = h.policy
      OBVIOUS
    <3> QED
      BY <3>1, <1>10, <1>11
  <2> SUFFICES ASSUME NEW x \in TicketContexts, NEW s \in Ticket!SignedIn(x)'
               PROVE  QuotaIn(x, s)'
    BY QuotaForm
  <2>7. CASE x = c
    <3>1. s.policy = h.policy
      BY <2>6, <2>7
    <3> QED
      BY <2>2, <2>4, <2>5, <2>6, <2>7, <3>1 DEF QuotaIn
  <2>8. CASE x # c
    <3>1. \A y : SignedFor(x, y)' = SignedFor(x, y)
      BY <1>12, <2>8
    <3>2. Ticket!SignedIn(x)' = Ticket!SignedIn(x)
      BY <1>13, <2>8
    <3>3. QuotaIn(x, s)
      BY <3>2, QuotaForm
    <3>4. Asking(x)' = Asking(x)
      BY <3>2 DEF Asking
    <3> QED
      BY <3>1, <3>2, <3>3, <3>4 DEF QuotaIn
  <2> QED
    BY <2>7, <2>8
<1> QED
  BY <1>5, <1>7, <1>9, <1>16, <1>17, <1>18

LEMMA TicketStep == ASSUME TicketInv, [Ticket!Next]_ticketVars PROVE TicketInv'
<1>1. CASE UNCHANGED ticketVars
  <2> USE <1>1 DEF ticketVars, TicketInv
  <2>1. TicketTypes' /\ KeysRegistered' /\ PoliciesPinned'
    BY DEF TicketTypes, KeysRegistered, PoliciesPinned, Over
  <2>2. TicketsCounted' /\ Ticket!Recoverable'
    BY DEF TicketsCounted, Over, SignedFor, Ticket!SignedIn, Ticket!Recoverable, Ticket!PriorOf
  <2>3. Ticket!QuotaKept'
    BY QuotaStays
  <2> QED
    BY <2>1, <2>2, <2>3
<1>2. CASE Ticket!Next
  <2>1. ASSUME NEW e \in TicketEpochs, NEW p \in TicketPolicies, Ticket!Open(e, p)
        PROVE  TicketInv'
    BY <2>1, TicketOpen
  <2>2. ASSUME NEW now \in TicketTimes, Ticket!Prune(now) PROVE TicketInv'
    BY <2>2, TicketPrune
  <2>3. ASSUME NEW now \in TicketTimes, NEW h \in replicas, NEW r \in TicketRequests,
               NEW done \in TicketTimes, Ticket!Issue(h, r, now, done)
        PROVE  TicketInv'
    BY <2>3, TicketIssue
  <2>4. ASSUME NEW now \in TicketTimes, NEW h \in replicas, NEW r \in TicketRequests,
               NEW done \in TicketTimes, Ticket!Retry(h, r, now, done)
        PROVE  TicketInv'
    BY <2>4, TicketRetry
  <2> QED
    BY <1>2, <2>1, <2>2, <2>3, <2>4 DEF Ticket!Next
<1> QED
  BY <1>1, <1>2

LEMMA TicketInvKeeps == ASSUME TicketInv PROVE TicketsKept
BY DEF TicketInv, TicketsKept, KeysRegistered, Ticket!OneEpochPerKey

(* Replicas opened at any time under any policies keep one quota an epoch, *)
(* lose no ticket before its end and use no key in two (key_access.rs:     *)
(* 245-265, 341-361, 418-424).                                             *)
THEOREM EpochsOfTickets == PartsSpec => []TicketsKept
<1>1. Init => TicketInv
  BY TicketInit DEF Init
<1>2. TicketInv /\ [Next]_partsVars => TicketInv'
  BY TicketStep, StepsOfParts
<1>3. TicketInv => TicketsKept
  BY TicketInvKeeps
<1> QED
  BY <1>1, <1>2, <1>3, PTL DEF PartsSpec
-----------------------------------------------------------------------------
(* The proof runtime.  What is below `reading' has the pinned digest. *)
LastFile == Runtime!Last

LEMMA FilesInOrder ==
    /\ LastFile \in Nat \ {0} /\ Names = 1 .. LastFile
    /\ Runtime!Files = 0 .. LastFile
    /\ \A content \in Contents : SizeOf[content] \in Nat
    /\ maxTotalBytes \in Nat /\ 1 \in Contents
<1>1. PICK n \in Nat \ {0} : Names = 1 .. n
  BY ProofRuntimeConstants DEF Runtime!RuntimeConstants
<1>2. LastFile = CHOOSE x \in Names : \A y \in Names : x >= y
  BY DEF LastFile, Runtime!Last, Runtime!Max
<1>3. LastFile \in Names /\ \A y \in Names : LastFile >= y
  <2>1. n \in Names /\ \A y \in Names : n >= y
    BY <1>1
  <2> QED
    BY <1>2, <2>1
<1>4. LastFile = n
  BY <1>1, <1>3
<1>5. Runtime!Files = 0 .. n
  BY <1>1 DEF Runtime!Files
<1> QED
  BY <1>1, <1>4, <1>5, ProofRuntimeConstants DEF Runtime!RuntimeConstants

RuntimeTypes ==
    /\ buffers \in [0 .. LastFile -> Contents]
    /\ snapshot \in [0 .. LastFile -> SUBSET Contents]
    /\ reading \in 0 .. LastFile + 1
    /\ total \in Nat
    /\ phase \in {"loading", "starting", "ready", "failed", "destroyed"}
    /\ api \in {"none", "open", "closed"}
    /\ calls \in [Callers -> {"idle", "running"}]

Loaded ==
    /\ \A f \in 0 .. LastFile : f < reading => snapshot[f] = {1}
    /\ phase = "loading" => reading <= LastFile
    /\ phase \in {"starting", "ready", "destroyed"} =>
        reading = LastFile + 1 /\ total <= maxTotalBytes

Backend ==
    /\ phase = "loading" => api = "none"
    /\ api = "open" => phase \in {"starting", "ready"}
    /\ phase = "ready" => api = "open"
    /\ Runtime!Running # {} => phase = "ready"
    /\ \A c, d \in Runtime!Running : c = d

RuntimeInv == RuntimeTypes /\ Loaded /\ Backend

LEMMA RuntimeInit == ASSUME Runtime!Init PROVE RuntimeInv
<1>1. RuntimeTypes
  BY FilesInOrder DEF RuntimeTypes, Runtime!Init
<1>2. Loaded
  BY FilesInOrder DEF Loaded, Runtime!Init
<1>3. Backend
  BY DEF Backend, Runtime!Init, Runtime!Running
<1> QED
  BY <1>1, <1>2, <1>3 DEF RuntimeInv

LEMMA RuntimeStep == ASSUME RuntimeInv, [Runtime!Next]_runtimeVars PROVE RuntimeInv'
<1> USE DEF RuntimeInv
<1>1. CASE UNCHANGED runtimeVars
  BY <1>1 DEF runtimeVars, RuntimeTypes, Loaded, Backend, Runtime!Running
<1>2. ASSUME NEW f \in Runtime!Files, NEW content \in Contents, Runtime!Change(f, content)
      PROVE  RuntimeInv'
  <2>1. RuntimeTypes'
    BY <1>2, FilesInOrder DEF RuntimeTypes, Runtime!Change
  <2> QED
    BY <1>2, <2>1 DEF Loaded, Backend, Runtime!Change, Runtime!Running
<1>3. ASSUME Runtime!Receive PROVE RuntimeInv'
  <2>1. buffers[reading] \in Contents /\ SizeOf[buffers[reading]] \in Nat
    BY <1>3, FilesInOrder DEF RuntimeTypes, Runtime!Receive
  <2>2. RuntimeTypes'
    BY <1>3, <2>1, FilesInOrder DEF RuntimeTypes, Runtime!Receive
  <2>3. Loaded'
    BY <1>3, FilesInOrder DEF RuntimeTypes, Loaded, Runtime!Receive
  <2>4. Backend'
    BY <1>3 DEF Backend, Runtime!Receive, Runtime!Running
  <2> QED
    BY <2>2, <2>3, <2>4
<1>4. ASSUME Runtime!Digest PROVE RuntimeInv'
  <2>1. phase = "loading" /\ reading \in 0 .. LastFile
        /\ UNCHANGED <<buffers, total, api, calls>>
    BY <1>4, FilesInOrder DEF Runtime!Digest
  <2>2. CASE Runtime!Digested(reading)
    <3>1. /\ snapshot[reading] = {1} /\ total <= maxTotalBytes
          /\ snapshot' = snapshot /\ reading' = reading + 1
          /\ phase' = IF reading = LastFile THEN "starting" ELSE "loading"
      BY <1>4, <2>1, <2>2 DEF Runtime!Digest, Runtime!Digested, Runtime!Private, RuntimeTypes, LastFile
    <3>2. RuntimeTypes'
      BY <2>1, <3>1, FilesInOrder DEF RuntimeTypes
    <3>3. Loaded'
      BY <2>1, <3>1, FilesInOrder DEF RuntimeTypes, Loaded
    <3>4. Backend'
      BY <2>1, <3>1 DEF Backend, Runtime!Running
    <3> QED
      BY <3>2, <3>3, <3>4
  <2>3. CASE ~ Runtime!Digested(reading)
    BY <1>4, <2>1, <2>3 DEF Runtime!Digest, RuntimeTypes, Loaded, Backend, Runtime!Running
  <2> QED
    BY <2>2, <2>3
<1>5. ASSUME Runtime!FetchFails \/ Runtime!FileChanged PROVE RuntimeInv'
  BY <1>5 DEF RuntimeTypes, Loaded, Backend, Runtime!FetchFails, Runtime!FileChanged, Runtime!Running
<1>6. ASSUME NEW ok \in BOOLEAN, Runtime!Start(ok) PROVE RuntimeInv'
  BY <1>6 DEF RuntimeTypes, Loaded, Backend, Runtime!Start, Runtime!Running
<1>7. ASSUME NEW ok \in BOOLEAN, Runtime!Started(ok) PROVE RuntimeInv'
  BY <1>7 DEF RuntimeTypes, Loaded, Backend, Runtime!Started, Runtime!Running, Runtime!Destroyed
<1>8. ASSUME NEW c \in Callers, Runtime!Begin(c) PROVE RuntimeInv'
  <2>1. RuntimeTypes' /\ Loaded'
    BY <1>8 DEF RuntimeTypes, Loaded, Runtime!Begin
  <2>2. Runtime!Running' = {c}
    BY <1>8 DEF RuntimeTypes, Runtime!Begin, Runtime!Free, Runtime!Running
  <2>3. Backend'
    BY <1>8, <2>2 DEF Backend, Runtime!Begin
  <2> QED
    BY <2>1, <2>3
<1>9. ASSUME NEW c \in Callers, Runtime!Finish(c) PROVE RuntimeInv'
  <2>1. RuntimeTypes' /\ Loaded'
    BY <1>9 DEF RuntimeTypes, Loaded, Runtime!Finish
  <2>2. Runtime!Running' \subseteq Runtime!Running
    BY <1>9 DEF RuntimeTypes, Runtime!Finish, Runtime!Running
  <2>3. Backend'
    BY <1>9, <2>2 DEF Backend, Runtime!Finish
  <2> QED
    BY <2>1, <2>3
<1>10. ASSUME Runtime!Destroy PROVE RuntimeInv'
  BY <1>10 DEF RuntimeTypes, Loaded, Backend, Runtime!Destroy, Runtime!Free, Runtime!Running
<1> QED
  BY <1>1, <1>2, <1>3, <1>4, <1>5, <1>6, <1>7, <1>8, <1>9, <1>10 DEF Runtime!Next

LEMMA RuntimeHolds == ASSUME RuntimeInv PROVE Runtime!UsesPinned /\ Runtime!BackendHeld
<1>1. Runtime!UsesPinned
  BY FilesInOrder DEF RuntimeInv, RuntimeTypes, Loaded, Backend, Runtime!UsesPinned
<1>2. Runtime!Cardinality(Runtime!Running) <= 1
  <2>1. CASE Runtime!Running = {}
    BY <2>1, FS_EmptySet, SameCardinality
  <2>2. CASE Runtime!Running # {}
    <3>1. PICK c \in Runtime!Running : Runtime!Running = {c}
      BY <2>2 DEF RuntimeInv, Backend
    <3>2. Cardinality({c}) = 1
      BY FS_Singleton
    <3>3. Runtime!Cardinality({c}) = 1
      BY <3>2, SameCardinality
    <3> QED
      BY <3>1, <3>3
  <2> QED
    BY <2>1, <2>2
<1>3. Runtime!BackendHeld
  BY <1>2 DEF RuntimeInv, Backend, Runtime!BackendHeld
<1> QED
  BY <1>1, <1>3
-----------------------------------------------------------------------------
(* Holders of a profile's key.  What is held rests on a seed, and a seed   *)
(* on an offer that lasts at least as long.                                *)
HolderTypes ==
    /\ seedNow \in Nat
    /\ \A o \in offers : o.from \in Nat /\ o.from <= seedNow /\ o.until \in Int
    /\ \A m \in making : m.offer \in offers /\ m.until <= m.offer.until
                         /\ m.until \in Int /\ m.offer.until \in Int

SeedOf(s) ==
    /\ s.secret = s.delegation.publication.epoch
    /\ s.delegation.holder = s.offer.authority
    /\ s.offer.from \in Nat /\ s.delegation.from \in Nat /\ s.offer.from <= s.delegation.from
    /\ s.offer.until \in Int /\ s.delegation.until \in Int
    /\ s.delegation.until <= s.offer.until

HeldBySeed(h) ==
    h.delegations = {} \/ \E s \in seeds : /\ h.delegations = {s.delegation}
                                           /\ h.publication = s.delegation.publication

HolderInv ==
    /\ HolderTypes
    /\ \A s \in seeds : SeedOf(s)
    /\ \A h \in holding : HeldBySeed(h)
    /\ \A x \in servings : x.at \in Nat
    /\ Holder!ServedByNamed

LEMMA HolderInit == ASSUME Holder!Init PROVE HolderInv
BY DEF HolderInv, HolderTypes, Holder!Init, HeldBySeed, Holder!ServedByNamed

LEMMA HolderStep == ASSUME HolderInv, [Holder!Next]_holderVars PROVE HolderInv'
<1> USE DEF HolderInv
<1>0. ASSUME seeds \subseteq seeds', servings' = servings PROVE Holder!ServedByNamed'
  BY <1>0 DEF Holder!ServedByNamed, Holder!SameDevice, Holder!Fresh
<1>00. ASSUME seeds \subseteq seeds', NEW h \in holding PROVE HeldBySeed(h)'
  BY <1>00 DEF HeldBySeed
<1>1. CASE UNCHANGED <<making, seeds, holding, servings>> /\ offers \subseteq offers'
           /\ seedNow' \in Nat /\ seedNow' >= seedNow
           /\ \A o \in offers' : o.from \in Nat /\ o.from <= seedNow' /\ o.until \in Int
  <2>1. HolderTypes'
    BY <1>1 DEF HolderTypes
  <2>2. \A h \in holding' : HeldBySeed(h)'
    BY <1>1, <1>00
  <2>3. \A s \in seeds' : SeedOf(s)'
    BY <1>1 DEF SeedOf
  <2> QED
    BY <1>0, <1>1, <2>1, <2>2, <2>3
<1>2. CASE UNCHANGED holderVars
  BY <1>1, <1>2 DEF holderVars, HolderTypes
<1>3. ASSUME Holder!Tick PROVE HolderInv'
  BY <1>1, <1>3 DEF Holder!Tick, HolderTypes
<1>4. ASSUME NEW a \in Authorities, NEW until \in Holder!SeedTimes, Holder!Publish(a, until)
      PROVE  HolderInv'
  <2> DEFINE p == [authority |-> a, epoch |-> Holder!Cardinality(published) + 1,
                   from |-> seedNow, until |-> until]
             h0 == [authority |-> a, publication |-> p, delegations |-> {}]
  <2>1. /\ holding' = holding \cup {h0}
        /\ UNCHANGED <<seedNow, offers, making, seeds, servings>>
    BY <1>4 DEF Holder!Publish
  <2>2. \A h \in holding' : HeldBySeed(h)'
    <3> SUFFICES ASSUME NEW h \in holding', h \notin holding PROVE h.delegations = {}
      BY <2>1, <1>00 DEF HeldBySeed
    <3> QED
      BY <2>1
  <2>3. HolderTypes' /\ \A s \in seeds' : SeedOf(s)'
    BY <2>1 DEF HolderTypes, SeedOf
  <2> QED
    BY <1>0, <2>1, <2>2, <2>3
<1>5. ASSUME NEW a \in Authorities, NEW until \in Holder!SeedTimes, Holder!Offer(a, until)
      PROVE  HolderInv'
  <2> DEFINE o0 == [authority |-> a, wrapping |-> pairs[a.member], from |-> seedNow, until |-> until]
  <2>1. /\ offers' = offers \cup {o0}
        /\ UNCHANGED <<seedNow, making, seeds, holding, servings>>
    BY <1>5 DEF Holder!Offer
  <2>2. o0.from = seedNow /\ o0.until \in Int
    BY DEF Holder!SeedTimes
  <2> HIDE DEF o0
  <2>3. \A o \in offers' : o.from \in Nat /\ o.from <= seedNow /\ o.until \in Int
    BY <2>1, <2>2 DEF HolderTypes
  <2> QED
    BY <1>1, <2>1, <2>3 DEF HolderTypes
<1>6. ASSUME NEW m, Holder!NewPair(m) PROVE HolderInv'
  BY <1>1, <1>6 DEF Holder!NewPair, HolderTypes
<1>7. ASSUME NEW p \in published, NEW o \in offers, NEW until \in Holder!SeedTimes,
             Holder!CheckOffer(p, o, until)
      PROVE  HolderInv'
  <2>1. /\ making' = {[publication |-> p, offer |-> o, until |-> until]}
        /\ until <= o.until
        /\ UNCHANGED <<seedNow, offers, seeds, holding, servings>>
    BY <1>7 DEF Holder!CheckOffer, Holder!WithinOffer
  <2>2. until \in Int
    BY DEF Holder!SeedTimes
  <2>3. HolderTypes'
    BY <2>1, <2>2 DEF HolderTypes
  <2> QED
    BY <1>0, <1>00, <2>1, <2>3 DEF SeedOf
<1>8. ASSUME Holder!MakeSeed PROVE HolderInv'
  <2>1. PICK m \in making :
          LET d == [publication |-> m.publication, holder |-> m.offer.authority,
                    wrapping |-> m.offer.wrapping, from |-> seedNow, until |-> m.until]
          IN  seeds' = seeds \cup {[delegation |-> d, sealedFor |-> m.offer.wrapping,
                                    secret |-> m.publication.epoch, offer |-> m.offer]}
    BY <1>8 DEF Holder!MakeSeed
  <2> DEFINE d == [publication |-> m.publication, holder |-> m.offer.authority,
                   wrapping |-> m.offer.wrapping, from |-> seedNow, until |-> m.until]
             s0 == [delegation |-> d, sealedFor |-> m.offer.wrapping,
                    secret |-> m.publication.epoch, offer |-> m.offer]
  <2>2. seeds' = seeds \cup {s0} /\ making' = {}
        /\ UNCHANGED <<seedNow, offers, holding, servings>>
    BY <1>8, <2>1 DEF Holder!MakeSeed
  <2>3. SeedOf(s0)
    <3>1. /\ s0.secret = m.publication.epoch /\ s0.delegation = d /\ s0.offer = m.offer
          /\ d.publication = m.publication /\ d.holder = m.offer.authority
          /\ d.from = seedNow /\ d.until = m.until
      OBVIOUS
    <3> QED
      BY <3>1 DEF SeedOf, HolderTypes
  <2>4. HolderTypes' /\ \A s \in seeds' : SeedOf(s)'
    BY <2>2, <2>3 DEF HolderTypes, SeedOf
  <2> QED
    BY <1>0, <1>00, <2>2, <2>4
<1>9. ASSUME Holder!GiveUp PROVE HolderInv'
  <2>1. making' = {} /\ UNCHANGED <<seedNow, offers, seeds, holding, servings>>
    BY <1>9 DEF Holder!GiveUp
  <2>2. HolderTypes' /\ \A s \in seeds' : SeedOf(s)'
    BY <2>1 DEF HolderTypes, SeedOf
  <2> QED
    BY <1>0, <1>00, <2>1, <2>2
<1>10. ASSUME NEW s \in seeds, NEW a \in Authorities, Holder!OpenSeed(s, a) PROVE HolderInv'
  <2> DEFINE h0 == [authority |-> a, publication |-> s.delegation.publication,
                    delegations |-> {s.delegation}]
  <2>1. holding' = holding \cup {h0} /\ UNCHANGED <<seedNow, offers, making, seeds, servings>>
    BY <1>10 DEF Holder!OpenSeed
  <2>2. HeldBySeed(h0)'
    BY <2>1 DEF HeldBySeed
  <2>3. HolderTypes' /\ \A x \in seeds' : SeedOf(x)'
    BY <2>1 DEF HolderTypes, SeedOf
  <2> QED
    BY <1>0, <1>00, <2>1, <2>2, <2>3
<1>11. ASSUME NEW h \in holding, Holder!Serve(h) PROVE HolderInv'
  <2> DEFINE x0 == [state |-> h, at |-> seedNow]
  <2>1. servings' = {x0} /\ UNCHANGED <<seedNow, offers, making, seeds, holding>>
    BY <1>11 DEF Holder!Serve
  <2>2. HolderTypes' /\ (\A x \in seeds' : SeedOf(x)') /\ \A x \in servings' : x.at \in Nat
    BY <2>1 DEF HolderTypes, SeedOf
  <2>3. ASSUME h.delegations # {}
        PROVE  \E s \in seeds : /\ s.delegation \in h.delegations
                                /\ s.secret = h.publication.epoch
                                /\ Holder!SameDevice(s.offer.authority, h.authority)
                                /\ Holder!Fresh(s.offer, seedNow)
    <3>1. PICK s \in seeds : h.delegations = {s.delegation}
                             /\ h.publication = s.delegation.publication
      BY <2>3 DEF HeldBySeed
    <3>2. Holder!VerifiedDelegation(s.delegation, h.publication, h.authority, seedNow)
      BY <1>11, <2>3, <3>1 DEF Holder!Serve, Holder!MayServe
    <3>3. Holder!Fresh(s.delegation, seedNow)
          /\ Holder!SameDevice(s.delegation.holder, h.authority)
      BY <3>2 DEF Holder!VerifiedDelegation
    <3>4. SeedOf(s)
      OBVIOUS
    <3>5. Holder!Fresh(s.offer, seedNow)
      BY <3>3, <3>4 DEF Holder!Fresh, SeedOf, HolderTypes
    <3> QED
      BY <3>1, <3>3, <3>4, <3>5 DEF SeedOf
  <2>4. Holder!ServedByNamed'
    <3> SUFFICES ASSUME NEW x \in servings', x.state.delegations # {}
                 PROVE  \E s \in seeds :
                          /\ s.delegation \in x.state.delegations
                          /\ s.secret = x.state.publication.epoch
                          /\ Holder!SameDevice(s.offer.authority, x.state.authority)
                          /\ Holder!Fresh(s.offer, x.at)
      BY <2>1 DEF Holder!ServedByNamed
    <3>1. x.state = h /\ x.at = seedNow
      BY <2>1
    <3> QED
      BY <2>3, <3>1
  <2> QED
    BY <1>00, <2>1, <2>2, <2>4
<1> QED
  BY <1>2, <1>3, <1>4, <1>5, <1>6, <1>7, <1>8, <1>9, <1>10, <1>11 DEF Holder!Next
-----------------------------------------------------------------------------
(* Presentations of a live slot.  A presentation is the account's state of *)
(* its version, which never changes, and a check has compared it with the  *)
(* verifier's context.                                                     *)
StateRecords == [phase : 1 .. 3, openedAt : Int, expiresAt : Int, root : Int, at : Int,
                 acceptedAt : Nat]

PresenterTypes ==
    /\ peerNow \in Nat
    /\ states \in Seq(StateRecords)
    /\ device \in [Devices -> Nat]
    /\ DOMAIN proving = Devices
    /\ \A v \in 1 .. Len(states) : states[v].root = Presenter!RootAt(states[v].acceptedAt)

OfState(p) ==
    /\ p.version \in 1 .. Len(states)
    /\ p.phase = states[p.version].phase /\ p.expiresAt = states[p.version].expiresAt
    /\ p.acceptance.root = states[p.version].root

CheckedAgainst(check) ==
    LET p == check.presentation
    IN  /\ OfState(p)
        /\ p.phase \in Presenter!Live /\ p.challenge = check.context.challenge
        /\ p.acceptance.root = Presenter!RootOf(check.context)
        /\ check.context.authorityExpiresAt \in Int
        /\ check.own # {} => p.version = check.since

InTime(r) ==
    /\ CheckedAgainst(r.check) /\ r.at \in Nat
    /\ r.at < r.check.presentation.expiresAt /\ r.at < policyValidUntil
    /\ r.at < r.check.context.authorityExpiresAt

PresenterInv ==
    /\ PresenterTypes
    /\ \A d \in Devices : \A p \in proving[d] : OfState(p)
    /\ \A p \in presented : OfState(p)
    /\ \A check \in checks : CheckedAgainst(check)
    /\ \A r \in released : InTime(r)

LEMMA RootsOfTimes ==
    ASSUME NEW t \in Nat
    PROVE  /\ Presenter!RootAt(t) \in Nat
           /\ t \in Presenter!NotBefore(Presenter!RootAt(t))
                    .. Presenter!Ends(Presenter!RootAt(t)) - 1
<1> DEFINE q == t \div checkpointSeconds
<1>1. checkpointSeconds \in Nat /\ checkpointSeconds > 0
  BY PresenterConstants DEF Presenter!PeerConstants
<1>2. q \in Nat /\ q * checkpointSeconds <= t /\ t < (q + 1) * checkpointSeconds
  BY <1>1
<1>3. q * checkpointSeconds \in Int /\ (q + 1) * checkpointSeconds \in Int
  BY <1>1, <1>2
<1> QED
  BY <1>2, <1>3 DEF Presenter!RootAt, Presenter!NotBefore, Presenter!Ends

LEMMA LeastOfThree ==
    ASSUME NEW a \in Int, NEW b \in Int, NEW c \in Int
    PROVE  LET least == Presenter!Min({a, b, c})
           IN  least \in Int /\ least <= a /\ least <= b /\ least <= c
<1> DEFINE least == CHOOSE x \in {a, b, c} : \A y \in {a, b, c} : x <= y
<1>1. \E x \in {a, b, c} : \A y \in {a, b, c} : x <= y
  <2>1. CASE a <= b /\ a <= c
    BY <2>1
  <2>2. CASE b <= a /\ b <= c
    BY <2>2
  <2>3. CASE c <= a /\ c <= b
    BY <2>3
  <2> QED
    BY <2>1, <2>2, <2>3
<1>2. least \in {a, b, c} /\ \A y \in {a, b, c} : least <= y
  BY <1>1
<1>3. Presenter!Min({a, b, c}) = least
  BY DEF Presenter!Min
<1> HIDE DEF least
<1> QED
  BY <1>2, <1>3

LEMMA PresenterInit == ASSUME Presenter!Init PROVE PresenterInv
BY DEF PresenterInv, PresenterTypes, Presenter!Init, StateRecords

(* The accepted states only grow, so what is of one stays of it. *)
LEMMA OfStateStays ==
    ASSUME Len(states) \in Nat, Len(states') \in Nat, Len(states) <= Len(states'),
           \A v \in 1 .. Len(states) : states'[v] = states[v]
    PROVE  /\ \A p : OfState(p) => OfState(p)'
           /\ \A check : CheckedAgainst(check) => CheckedAgainst(check)'
           /\ \A r : InTime(r) => InTime(r)'
<1>1. \A p : OfState(p) => OfState(p)'
  BY DEF OfState
<1>2. \A check : CheckedAgainst(check) => CheckedAgainst(check)'
  BY <1>1 DEF CheckedAgainst
<1> QED
  BY <1>1, <1>2 DEF InTime

LEMMA PresenterStep == ASSUME PresenterInv, [Presenter!Next]_presenterVars PROVE PresenterInv'
<1> USE DEF PresenterInv
<1>0. Len(states) \in Nat
  BY DEF PresenterTypes
<1>1. ASSUME UNCHANGED states PROVE /\ \A p : OfState(p) => OfState(p)'
                                    /\ \A check : CheckedAgainst(check) => CheckedAgainst(check)'
                                    /\ \A r : InTime(r) => InTime(r)'
  BY <1>0, <1>1, OfStateStays
<1>2. CASE UNCHANGED <<states, device, proving, presented, checks, released>> /\ peerNow' \in Nat
  <2>1. PresenterTypes'
    BY <1>2 DEF PresenterTypes, Presenter!RootAt
  <2> QED
    BY <1>1, <1>2, <2>1
<1>3. CASE UNCHANGED presenterVars
  <2>1. peerNow' \in Nat
    BY <1>3 DEF presenterVars, PresenterTypes
  <2> QED
    BY <1>2, <1>3, <2>1 DEF presenterVars
<1>4. ASSUME Presenter!Tick PROVE PresenterInv'
  BY <1>2, <1>4 DEF Presenter!Tick, PresenterTypes
<1>5. ASSUME NEW d \in Devices, NEW phase_ \in 1 .. 3, NEW at \in Presenter!PeerTimes,
             Presenter!Advance(d, phase_, at)
      PROVE  PresenterInv'
  <2> DEFINE opening == [phase |-> 1, openedAt |-> at, expiresAt |-> at + abandonAfter,
                         root |-> Presenter!RootAt(at), at |-> at, acceptedAt |-> peerNow]
             lasting == [states[Len(states)] EXCEPT !.phase = phase_,
                            !.root = Presenter!RootAt(at), !.at = at, !.acceptedAt = peerNow]
  <2>1. /\ Presenter!RootAt(at) = Presenter!RootAt(peerNow)
        /\ \/ states' = Append(states, opening)
           \/ Len(states) > 0 /\ states' = Append(states, lasting)
        /\ device' = [device EXCEPT ![d] = Len(states) + 1]
        /\ UNCHANGED <<peerNow, proving, presented, checks, released>>
    BY <1>5 DEF Presenter!Advance, Presenter!Lasting, Presenter!Accepted
  <2>2. Presenter!RootAt(at) \in Int /\ at \in Int /\ abandonAfter \in Nat
    <3>1. Presenter!RootAt(peerNow) \in Nat
      BY RootsOfTimes DEF PresenterTypes
    <3> QED
      BY <2>1, <3>1, PresenterConstants DEF Presenter!PeerTimes, Presenter!PeerConstants
  <2>3. PICK s \in StateRecords : /\ states' = Append(states, s)
                                  /\ s.root = Presenter!RootAt(s.acceptedAt)
    <3>1. CASE states' = Append(states, opening)
      <4>1. opening \in StateRecords
        BY <2>2 DEF StateRecords, PresenterTypes
      <4>2. opening.root = Presenter!RootAt(at) /\ opening.acceptedAt = peerNow
        OBVIOUS
      <4> QED
        BY <2>1, <3>1, <4>1, <4>2
    <3>2. CASE Len(states) > 0 /\ states' = Append(states, lasting)
      <4>1. states[Len(states)] \in StateRecords
        BY <3>2 DEF PresenterTypes
      <4>2. lasting \in StateRecords
        BY <2>2, <4>1 DEF StateRecords, PresenterTypes
      <4>3. lasting.root = Presenter!RootAt(at) /\ lasting.acceptedAt = peerNow
        BY <4>1 DEF StateRecords
      <4> QED
        BY <2>1, <3>2, <4>2, <4>3
    <3> QED
      BY <2>1, <3>1, <3>2
  <2>4. /\ states' \in Seq(StateRecords) /\ Len(states') = Len(states) + 1
        /\ \A v \in 1 .. Len(states) : states'[v] = states[v]
        /\ states'[Len(states) + 1] = s
    BY <2>3 DEF PresenterTypes
  <2>5. \A v \in 1 .. Len(states') : states'[v].root = Presenter!RootAt(states'[v].acceptedAt)
    <3> SUFFICES ASSUME NEW v \in 1 .. Len(states')
                 PROVE  states'[v].root = Presenter!RootAt(states'[v].acceptedAt)
      OBVIOUS
    <3>1. CASE v \in 1 .. Len(states)
      BY <2>4, <3>1 DEF PresenterTypes
    <3>2. CASE v = Len(states) + 1
      BY <2>3, <2>4, <3>2
    <3> QED
      BY <1>0, <2>4, <3>1, <3>2
  <2>6. PresenterTypes'
    <3>1. device' \in [Devices -> Nat]
      BY <1>0, <2>1 DEF PresenterTypes
    <3>2. Presenter!RootAt(0)' = Presenter!RootAt(0)
      BY DEF Presenter!RootAt
    <3> QED
      BY <2>1, <2>4, <2>5, <3>1 DEF PresenterTypes, Presenter!RootAt
  <2>7. /\ \A p : OfState(p) => OfState(p)'
        /\ \A check : CheckedAgainst(check) => CheckedAgainst(check)'
        /\ \A r : InTime(r) => InTime(r)'
    BY <1>0, <2>4, OfStateStays
  <2> QED
    BY <2>1, <2>6, <2>7
<1>6. ASSUME NEW d \in Devices, Presenter!CatchUp(d) PROVE PresenterInv'
  <2>1. device' = [device EXCEPT ![d] = Len(states)]
        /\ UNCHANGED <<peerNow, states, proving, presented, checks, released>>
    BY <1>6 DEF Presenter!CatchUp, Presenter!Accepted
  <2>2. PresenterTypes'
    BY <1>0, <2>1 DEF PresenterTypes, Presenter!RootAt
  <2> QED
    BY <1>1, <2>1, <2>2
<1>7. ASSUME NEW d \in Devices, NEW context \in Presenter!Contexts, Presenter!ProveBegin(d, context)
      PROVE  PresenterInv'
  <2> DEFINE p == Presenter!PresentationOf(Len(states), context.challenge)
  <2>1. /\ Len(states) > 0 /\ proving' = [proving EXCEPT ![d] = {p}]
        /\ UNCHANGED <<peerNow, states, device, presented, checks, released>>
    BY <1>7 DEF Presenter!ProveBegin, Presenter!Accepted
  <2>2. OfState(p)
    BY <1>0, <2>1 DEF OfState, Presenter!PresentationOf
  <2> HIDE DEF p
  <2>3. PresenterTypes'
    BY <2>1 DEF PresenterTypes, Presenter!RootAt
  <2>4. \A x \in Devices : \A y \in proving'[x] : OfState(y)
    BY <2>1, <2>2 DEF PresenterTypes
  <2> QED
    BY <1>1, <2>1, <2>3, <2>4
<1>8. ASSUME NEW d \in Devices, Presenter!ProveEnd(d) PROVE PresenterInv'
  <2>1. /\ presented' = presented \cup proving[d] /\ proving' = [proving EXCEPT ![d] = {}]
        /\ UNCHANGED <<peerNow, states, device, checks, released>>
    BY <1>8 DEF Presenter!ProveEnd
  <2>2. PresenterTypes'
    BY <2>1 DEF PresenterTypes, Presenter!RootAt
  <2>3. \A x \in Devices : \A y \in proving'[x] : OfState(y)
    BY <2>1 DEF PresenterTypes
  <2> QED
    BY <1>1, <2>1, <2>2, <2>3
<1>9. ASSUME NEW p \in presented, NEW context \in Presenter!Contexts, NEW own \in SUBSET Devices,
             Presenter!VerifyBegin(p, context, own)
      PROVE  PresenterInv'
  <2> DEFINE check == [presentation |-> p, context |-> context, own |-> own,
                       since |-> Len(states)]
  <2>1. /\ \A d \in own : p.version = Len(states)
        /\ Presenter!Validated(p, context)
        /\ checks' = checks \cup {check}
        /\ UNCHANGED <<peerNow, states, device, proving, presented, released>>
    BY <1>9 DEF Presenter!VerifyBegin, Presenter!Checked, Presenter!IsCurrent, Presenter!Accepted
  <2>2. context.authorityExpiresAt \in Int
    <3>1. PICK challenge \in PeerChallenges, cp \in {{}} \cup {{root} : root \in 0 .. Presenter!RootAt(peerNow)} :
            context = Presenter!Context(peerNow, challenge, Presenter!RootAt(peerNow), cp)
      BY DEF Presenter!Contexts
    <3>2. context.authorityExpiresAt = peerNow + authorityLife
      BY <3>1 DEF Presenter!Context
    <3> QED
      BY <3>2, PresenterConstants DEF PresenterTypes, Presenter!PeerConstants
  <2>3. CheckedAgainst(check)
    <3>1. check.presentation = p /\ check.context = context /\ check.own = own
          /\ check.since = Len(states)
      OBVIOUS
    <3>2. p.phase \in Presenter!Live /\ p.challenge = context.challenge
          /\ p.acceptance.root = Presenter!RootOf(context)
      BY <2>1 DEF Presenter!Validated, Presenter!Pinned
    <3> HIDE DEF check
    <3> QED
      BY <2>1, <2>2, <3>1, <3>2 DEF CheckedAgainst
  <2> HIDE DEF check
  <2>4. PresenterTypes'
    BY <2>1 DEF PresenterTypes, Presenter!RootAt
  <2> QED
    BY <1>1, <2>1, <2>3, <2>4
<1>10. ASSUME NEW check \in checks, Presenter!VerifyEnd(check) PROVE PresenterInv'
  <2> DEFINE r0 == [check |-> check, at |-> peerNow, validUntil |-> Presenter!ValidUntil(check)]
  <2>1. /\ checks' = checks \ {check}
        /\ \/ released' = released
           \/ /\ released' = released \cup {r0}
              /\ Presenter!ProofVerifies(check.presentation) /\ Presenter!StillValid(check)
        /\ UNCHANGED <<peerNow, states, device, proving, presented>>
    BY <1>10 DEF Presenter!VerifyEnd
  <2>2. ASSUME Presenter!StillValid(check) PROVE InTime(r0)
    <3>1. OfState(check.presentation) /\ check.context.authorityExpiresAt \in Int
      BY DEF CheckedAgainst
    <3>2. check.presentation.expiresAt \in Int /\ policyValidUntil \in Int
      <4>1. check.presentation.version \in 1 .. Len(states)
            /\ check.presentation.expiresAt = states[check.presentation.version].expiresAt
        BY <3>1 DEF OfState
      <4>2. states[check.presentation.version] \in StateRecords
        BY <4>1 DEF PresenterTypes
      <4> QED
        BY <4>1, <4>2, PresenterConstants DEF StateRecords, Presenter!PeerConstants
    <3> DEFINE least == Presenter!Min({policyValidUntil, check.presentation.expiresAt,
                                       check.context.authorityExpiresAt})
    <3>3. /\ least \in Int /\ least <= policyValidUntil
          /\ least <= check.presentation.expiresAt /\ least <= check.context.authorityExpiresAt
      BY <3>1, <3>2, LeastOfThree
    <3>4. peerNow < least
      BY <2>2 DEF Presenter!StillValid, Presenter!ValidUntil
    <3>5. r0.check = check /\ r0.at = peerNow
      OBVIOUS
    <3> HIDE DEF least, r0
    <3> QED
      BY <3>1, <3>2, <3>3, <3>4, <3>5 DEF InTime, PresenterTypes
  <2> HIDE DEF r0
  <2>3. PresenterTypes'
    BY <2>1 DEF PresenterTypes, Presenter!RootAt
  <2>4. \A r \in released' : InTime(r)
    BY <2>1, <2>2
  <2> QED
    BY <1>1, <2>1, <2>3, <2>4
<1>11. ASSUME NEW p \in presented, NEW context \in Presenter!Contexts,
              NEW own \in {{}} \cup {{d} : d \in Devices}
       PROVE  own \in SUBSET Devices
  OBVIOUS
<1> QED
  BY <1>3, <1>4, <1>5, <1>6, <1>7, <1>8, <1>9, <1>10, <1>11 DEF Presenter!Next

LEMMA PresenterHolds == ASSUME PresenterInv PROVE Presenter!ReleasedWasAccepted
<1> SUFFICES ASSUME NEW r \in released
             PROVE  LET p == r.check.presentation
                        s == states[p.version]
                    IN  /\ s.phase \in Presenter!Live /\ s.phase = p.phase
                        /\ s.acceptedAt \in Presenter!NotBefore(Presenter!RootOf(r.check.context))
                                         .. Presenter!Ends(Presenter!RootOf(r.check.context)) - 1
                        /\ r.check.context.challenge = p.challenge
                        /\ r.at < s.expiresAt /\ r.at < policyValidUntil
                        /\ r.at < r.check.context.authorityExpiresAt
                        /\ r.check.own # {} => p.version = r.check.since
  BY DEF Presenter!ReleasedWasAccepted
<1> DEFINE p == r.check.presentation
           s == states[p.version]
<1>1. InTime(r) /\ CheckedAgainst(r.check) /\ OfState(p)
  BY DEF PresenterInv, InTime, CheckedAgainst
<1>2. s.acceptedAt \in Nat /\ s.root = Presenter!RootAt(s.acceptedAt)
  <2>1. p.version \in 1 .. Len(states)
    BY <1>1 DEF OfState
  <2>2. s \in StateRecords
    BY <2>1 DEF PresenterInv, PresenterTypes
  <2> QED
    BY <2>1, <2>2 DEF PresenterInv, PresenterTypes, StateRecords
<1>3. Presenter!RootOf(r.check.context) = Presenter!RootAt(s.acceptedAt)
  BY <1>1, <1>2 DEF CheckedAgainst, OfState
<1>4. s.acceptedAt \in Presenter!NotBefore(Presenter!RootOf(r.check.context))
                       .. Presenter!Ends(Presenter!RootOf(r.check.context)) - 1
  BY <1>2, <1>3, RootsOfTimes
<1> QED
  BY <1>1, <1>4 DEF InTime, CheckedAgainst, OfState
-----------------------------------------------------------------------------
(* The wallet's checkpoints.  The accepted statement commits to the slots, *)
(* as entries of its two maps, from which they can be read back.           *)
SlotRecords == [event : Checkpoint!Events, role : {0, 1}, phase : 1 .. 5,
                ownerLeaf : Nat, peerLeaf : Nat]
FileFields == {"version", "root", "slots", "outgoing", "incoming", "pairs", "reserved"}
FileOfSlots(f) == DOMAIN f = FileFields /\ f.slots \subseteq SlotRecords

CheckpointInv ==
    /\ rosters \in Seq([Peers \cup {owner} -> Nat]) /\ pinned \in 1 .. Len(rosters)
    /\ truth \subseteq SlotRecords
    /\ \A f \in files : FileOfSlots(f)
    /\ \E root : ledgerState.commitment
            = Checkpoint!Commitment(Checkpoint!File(truth, ledgerState.version, root))
    /\ Checkpoint!RestoredIsAccepted

LEMMA EntriesInclude ==
    ASSUME NEW A \in SUBSET SlotRecords, NEW B \in SUBSET SlotRecords,
           Checkpoint!Entries(A, 0) = Checkpoint!Entries(B, 0),
           Checkpoint!Entries(A, 1) = Checkpoint!Entries(B, 1)
    PROVE  A \subseteq B
<1> SUFFICES ASSUME NEW s \in A PROVE s \in B
  OBVIOUS
<1>1. s \in SlotRecords /\ (s.role = 0 \/ s.role = 1)
  BY DEF SlotRecords
<1>2. Checkpoint!Obligation(s) \in Checkpoint!Entries(A, s.role)
  BY DEF Checkpoint!Entries
<1>3. Checkpoint!Obligation(s) \in Checkpoint!Entries(B, s.role)
  BY <1>1, <1>2
<1>4. PICK x \in B : x.role = s.role /\ Checkpoint!Obligation(x) = Checkpoint!Obligation(s)
  BY <1>3 DEF Checkpoint!Entries
<1>5. x.event = s.event /\ x.phase = s.phase /\ x.ownerLeaf = s.ownerLeaf
      /\ x.peerLeaf = s.peerLeaf
  BY <1>4 DEF Checkpoint!Obligation
<1>6. x = s
  BY <1>1, <1>4, <1>5 DEF SlotRecords
<1> QED
  BY <1>4, <1>6

LEMMA AcceptedAreTrue ==
    ASSUME CheckpointInv, NEW f, NEW r, f.slots \subseteq SlotRecords, Checkpoint!Accepts(f, r)
    PROVE  f.slots = truth
<1>1. PICK root : ledgerState.commitment
            = Checkpoint!Commitment(Checkpoint!File(truth, ledgerState.version, root))
  BY DEF CheckpointInv
<1> DEFINE g == Checkpoint!File(truth, ledgerState.version, root)
<1>2. g.outgoing = Checkpoint!Entries(truth, 0) /\ g.incoming = Checkpoint!Entries(truth, 1)
  BY DEF Checkpoint!File
<1>3. Checkpoint!Commitment(f) = Checkpoint!Commitment(g) /\ Checkpoint!NothingLeft(f)
  BY <1>1 DEF Checkpoint!Accepts
<1> HIDE DEF g
<1>4. f.outgoing = g.outgoing /\ f.incoming = g.incoming
  BY <1>3 DEF Checkpoint!Commitment
<1>5. /\ Checkpoint!Entries(f.slots, 0) = Checkpoint!Entries(truth, 0)
      /\ Checkpoint!Entries(f.slots, 1) = Checkpoint!Entries(truth, 1)
  BY <1>2, <1>3, <1>4 DEF Checkpoint!NothingLeft
<1>6. f.slots \in SUBSET SlotRecords /\ truth \in SUBSET SlotRecords
  BY DEF CheckpointInv
<1>7. f.slots \subseteq truth
  BY <1>5, <1>6, EntriesInclude
<1>8. truth \subseteq f.slots
  BY <1>5, <1>6, EntriesInclude
<1> QED
  BY <1>7, <1>8

(* Damage leaves a file one of slots. *)
LEMMA DamagedOfSlots ==
    ASSUME CheckpointInv, NEW f \in files, NEW bad \in Checkpoint!Damaged(f)
    PROVE  bad.slots \subseteq SlotRecords
<1>1. FileOfSlots(f)
  BY DEF CheckpointInv
<1>2. ASSUME NEW s \in f.slots, NEW x \in Checkpoint!Altered(s) PROVE x \in SlotRecords
  <2>1. s \in SlotRecords
    BY <1>1 DEF FileOfSlots
  <2>2. CASE x = [s EXCEPT !.role = 1 - @]
    BY <2>1, <2>2 DEF SlotRecords
  <2>3. CASE \E p \in 1 .. 5 : x = [s EXCEPT !.phase = p]
    BY <2>1, <2>3 DEF SlotRecords
  <2>4. CASE \E l \in 1 .. Len(rosters) :
                x = [s EXCEPT !.ownerLeaf = l] \/ x = [s EXCEPT !.peerLeaf = l]
    BY <2>1, <2>4 DEF SlotRecords
  <2> QED
    BY <2>2, <2>3, <2>4 DEF Checkpoint!Altered
<1>3. \/ \E s \in f.slots : bad = [f EXCEPT !.slots = @ \ {s}]
      \/ \E s \in f.slots : \E x \in Checkpoint!Altered(s) :
            bad = [f EXCEPT !.slots = (@ \ {s}) \cup {x}]
      \/ \E o : bad = [f EXCEPT !.outgoing = @ \ {o}]
      \/ \E o : bad = [f EXCEPT !.incoming = @ \ {o}]
  <2> DEFINE OfSlots == UNION {{[f EXCEPT !.slots = @ \ {s}]} \cup
                    {[f EXCEPT !.slots = (@ \ {s}) \cup {x}] : x \in Checkpoint!Altered(s)}
                    : s \in f.slots}
             OfOutgoing == {[f EXCEPT !.outgoing = @ \ {o}] : o \in f.outgoing}
             OfIncoming == {[f EXCEPT !.incoming = @ \ {o}] : o \in f.incoming}
  <2>1. Checkpoint!Damaged(f) = OfSlots \cup OfOutgoing \cup OfIncoming
    BY Zenon DEF Checkpoint!Damaged
  <2>2. CASE bad \in OfOutgoing
    BY <2>2
  <2>3. CASE bad \in OfIncoming
    BY <2>3
  <2>4. CASE bad \in OfSlots
    <3>1. PICK s \in f.slots : bad \in {[f EXCEPT !.slots = @ \ {s}]} \cup
            {[f EXCEPT !.slots = (@ \ {s}) \cup {x}] : x \in Checkpoint!Altered(s)}
      BY <2>4
    <3> QED
      BY <3>1
  <2> HIDE DEF OfSlots, OfOutgoing, OfIncoming
  <2> QED
    BY <2>1, <2>2, <2>3, <2>4
<1>4. CASE \E s \in f.slots : bad = [f EXCEPT !.slots = @ \ {s}]
  BY <1>1, <1>4 DEF FileOfSlots, FileFields
<1>5. CASE \E s \in f.slots : \E x \in Checkpoint!Altered(s) :
            bad = [f EXCEPT !.slots = (@ \ {s}) \cup {x}]
  <2>0. PICK s \in f.slots : \E x \in Checkpoint!Altered(s) :
            bad = [f EXCEPT !.slots = (@ \ {s}) \cup {x}]
    BY <1>5
  <2>1. PICK x \in Checkpoint!Altered(s) : bad = [f EXCEPT !.slots = (@ \ {s}) \cup {x}]
    BY <2>0
  <2>2. bad.slots = (f.slots \ {s}) \cup {x}
    BY <1>1, <2>1 DEF FileOfSlots, FileFields
  <2> QED
    BY <1>1, <1>2, <2>2 DEF FileOfSlots
<1>6. CASE \E o : bad = [f EXCEPT !.outgoing = @ \ {o}] \/ bad = [f EXCEPT !.incoming = @ \ {o}]
  BY <1>1, <1>6 DEF FileOfSlots, FileFields
<1> QED
  BY <1>3, <1>4, <1>5, <1>6

LEMMA FileShape ==
    ASSUME NEW slots \in SUBSET SlotRecords, NEW version, NEW root
    PROVE  FileOfSlots(Checkpoint!File(slots, version, root))
BY DEF FileOfSlots, FileFields, Checkpoint!File

LEMMA CheckpointInit == ASSUME Checkpoint!Init PROVE CheckpointInv
<1> DEFINE file == Checkpoint!File({}, 0, 1)
<1>1. /\ rosters = <<[m \in Peers \cup {owner} |-> 1]>> /\ pinned = 1
      /\ truth = {} /\ memory = {[slots |-> {}, version |-> 0]}
      /\ ledgerState = [version |-> 0, root |-> 1, commitment |-> Checkpoint!Commitment(file)]
      /\ files = {file}
  BY DEF Checkpoint!Init
<1>2. FileOfSlots(file)
  BY FileShape
<1>3. rosters \in Seq([Peers \cup {owner} -> Nat]) /\ pinned \in 1 .. Len(rosters)
  BY <1>1
<1>4. ledgerState.commitment
            = Checkpoint!Commitment(Checkpoint!File(truth, ledgerState.version, 1))
  BY <1>1
<1>5. Checkpoint!RestoredIsAccepted
  BY <1>1 DEF Checkpoint!RestoredIsAccepted
<1> HIDE DEF file
<1> QED
  BY <1>1, <1>2, <1>3, <1>4, <1>5 DEF CheckpointInv

LEMMA CheckpointTransition ==
    ASSUME CheckpointInv, NEW slots \in SUBSET SlotRecords, Checkpoint!Transition(slots)
    PROVE  CheckpointInv'
<1> DEFINE next == Checkpoint!File(slots, ledgerState.version + 1, pinned)
<1>1. /\ ledgerState' = [version |-> next.version, root |-> pinned,
                         commitment |-> Checkpoint!Commitment(next)]
      /\ memory' = {[slots |-> slots, version |-> next.version]}
      /\ files' = files \cup {next} /\ truth' = slots /\ UNCHANGED <<rosters, pinned>>
  BY DEF Checkpoint!Transition, Checkpoint!Saves
<1>2. FileOfSlots(next)
  BY FileShape
<1>3. next.version = ledgerState.version + 1
  BY DEF Checkpoint!File
<1>4. ledgerState'.version = ledgerState.version + 1
      /\ ledgerState'.commitment = Checkpoint!Commitment(next)
  BY <1>1, <1>3
<1>5. ledgerState'.commitment
            = Checkpoint!Commitment(Checkpoint!File(truth', ledgerState'.version, pinned))
  BY <1>1, <1>4
<1> HIDE DEF next
<1>6. Checkpoint!RestoredIsAccepted'
  BY <1>1 DEF Checkpoint!RestoredIsAccepted
<1>7. \E root : ledgerState'.commitment
            = Checkpoint!Commitment(Checkpoint!File(truth', ledgerState'.version, root))
  BY <1>5
<1>8. (\E root : ledgerState.commitment
            = Checkpoint!Commitment(Checkpoint!File(truth, ledgerState.version, root)))'
  BY <1>7 DEF Checkpoint!Commitment, Checkpoint!File
<1> QED
  BY <1>1, <1>2, <1>6, <1>8 DEF CheckpointInv

LEMMA RosterAt ==
    ASSUME CheckpointInv
    PROVE  /\ rosters[pinned] \in [Peers \cup {owner} -> Nat]
           /\ rosters[Len(rosters)] \in [Peers \cup {owner} -> Nat]
<1> DEFINE Roster == [Peers \cup {owner} -> Nat]
<1>1. rosters \in Seq(Roster) /\ pinned \in 1 .. Len(rosters)
  BY DEF CheckpointInv
<1> HIDE DEF Roster
<1>2. Len(rosters) \in 1 .. Len(rosters)
  BY <1>1
<1>3. \A i \in 1 .. Len(rosters) : rosters[i] \in Roster
  BY <1>1
<1>4. rosters[pinned] \in Roster /\ rosters[Len(rosters)] \in Roster
  BY <1>1, <1>2, <1>3
<1> QED
  BY <1>4 DEF Roster

LEMMA CheckpointStep ==
    ASSUME CheckpointInv, [Checkpoint!Next]_checkpointVars PROVE CheckpointInv'
<1>1. ASSUME UNCHANGED <<ledgerState, truth, memory>>,
             rosters' \in Seq([Peers \cup {owner} -> Nat]), pinned' \in 1 .. Len(rosters'),
             \A f \in files' : FileOfSlots(f)
      PROVE  CheckpointInv'
  BY <1>1 DEF CheckpointInv, Checkpoint!RestoredIsAccepted, Checkpoint!Commitment, Checkpoint!File
<1>2. CASE UNCHANGED checkpointVars
  BY <1>1, <1>2 DEF checkpointVars, CheckpointInv
<1>3. ASSUME NEW m \in Peers \cup {owner}, NEW leaf \in Nat, Checkpoint!Publishes(m, leaf)
      PROVE  CheckpointInv'
  <2> DEFINE roster == [rosters[Len(rosters)] EXCEPT ![m] = leaf]
  <2>1. rosters' = Append(rosters, roster) /\ UNCHANGED <<pinned, ledgerState, memory, truth, files>>
    BY <1>3 DEF Checkpoint!Publishes
  <2>2. rosters \in Seq([Peers \cup {owner} -> Nat]) /\ pinned \in 1 .. Len(rosters)
    BY DEF CheckpointInv
  <2>3. rosters[Len(rosters)] \in [Peers \cup {owner} -> Nat]
    BY <2>2, RosterAt
  <2>4. roster \in [Peers \cup {owner} -> Nat]
    BY <2>3
  <2> HIDE DEF roster
  <2>5. rosters' \in Seq([Peers \cup {owner} -> Nat]) /\ pinned' \in 1 .. Len(rosters')
    BY <2>1, <2>2, <2>4
  <2> QED
    BY <1>1, <2>1, <2>5 DEF CheckpointInv
<1>4. ASSUME NEW m \in Peers \cup {owner}, Checkpoint!Renew(m) \/ Checkpoint!Leave(m)
      PROVE  CheckpointInv'
  <2>1. Len(rosters) + 1 \in Nat
    BY DEF CheckpointInv
  <2> QED
    BY <1>3, <1>4, <2>1 DEF Checkpoint!Renew, Checkpoint!Leave
<1>5. ASSUME NEW e \in Checkpoint!Events, NEW role \in {0, 1}, Checkpoint!Reserve(e, role)
      PROVE  CheckpointInv'
  <2> DEFINE new == [event |-> e, role |-> role, phase |-> 1,
                     ownerLeaf |-> rosters[pinned][owner], peerLeaf |-> rosters[pinned][PeerOf[e]]]
  <2>1. PICK m \in memory : Checkpoint!Transition(m.slots \cup {new})
    BY <1>5 DEF Checkpoint!Reserve
  <2>2. rosters[pinned] \in [Peers \cup {owner} -> Nat]
    BY RosterAt
  <2>3. PeerOf[e] \in Peers
    BY WitnessConstants DEF Checkpoint!CheckpointConstants
  <2>4. rosters[pinned][owner] \in Nat /\ rosters[pinned][PeerOf[e]] \in Nat
    BY <2>2, <2>3
  <2>5. new \in SlotRecords
    BY <2>4 DEF SlotRecords
  <2> HIDE DEF new
  <2>6. m.slots \cup {new} \in SUBSET SlotRecords
    BY <2>5 DEF CheckpointInv, Checkpoint!RestoredIsAccepted
  <2> QED
    BY <2>1, <2>6, CheckpointTransition
<1>6. ASSUME NEW e \in Checkpoint!Events, NEW p \in 2 .. 5, Checkpoint!Settle(e, p)
      PROVE  CheckpointInv'
  <2>1. PICK m \in memory : \E s \in m.slots :
            Checkpoint!Transition((m.slots \ {s}) \cup {[s EXCEPT !.phase = p]})
    BY <1>6 DEF Checkpoint!Settle
  <2>2. PICK s \in m.slots : Checkpoint!Transition((m.slots \ {s}) \cup {[s EXCEPT !.phase = p]})
    BY <2>1
  <2>3. m.slots \subseteq SlotRecords
    BY DEF CheckpointInv, Checkpoint!RestoredIsAccepted
  <2>4. [s EXCEPT !.phase = p] \in SlotRecords
    BY <2>3 DEF SlotRecords
  <2>5. (m.slots \ {s}) \cup {[s EXCEPT !.phase = p]} \in SUBSET SlotRecords
    BY <2>3, <2>4
  <2> QED
    BY <2>2, <2>5, CheckpointTransition
<1>7. ASSUME NEW r, Checkpoint!Refresh(r) PROVE CheckpointInv'
  <2>1. PICK m \in memory : files' = files \cup {Checkpoint!File(m.slots, m.version, r)}
    BY <1>7 DEF Checkpoint!Refresh, Checkpoint!Saves
  <2>2. m.slots \in SUBSET SlotRecords
    BY DEF CheckpointInv, Checkpoint!RestoredIsAccepted
  <2>3. \A f \in files' : FileOfSlots(f)
    BY <2>1, <2>2, FileShape DEF CheckpointInv
  <2>4. /\ pinned' = r /\ r \in pinned + 1 .. Len(rosters)
        /\ UNCHANGED <<rosters, ledgerState, memory, truth>>
    BY <1>7 DEF Checkpoint!Refresh
  <2>5. rosters' \in Seq([Peers \cup {owner} -> Nat]) /\ pinned' \in 1 .. Len(rosters')
    BY <2>4 DEF CheckpointInv
  <2> QED
    BY <1>1, <2>3, <2>4, <2>5
<1>8. ASSUME NEW r, NEW f, f.slots \subseteq SlotRecords, Checkpoint!Start(r, f)
      PROVE  CheckpointInv'
  <2>1. /\ pinned' = r /\ r \in pinned .. Len(rosters)
        /\ memory' = IF Checkpoint!Accepts(f, r) THEN {[slots |-> f.slots, version |-> f.version]}
                     ELSE {}
        /\ UNCHANGED <<rosters, ledgerState, truth, files>>
    BY <1>8 DEF Checkpoint!Start
  <2>2. Checkpoint!Accepts(f, r) => f.slots = truth
    BY <1>8, AcceptedAreTrue
  <2>3. Checkpoint!RestoredIsAccepted'
    BY <2>1, <2>2 DEF Checkpoint!RestoredIsAccepted
  <2>4. rosters' \in Seq([Peers \cup {owner} -> Nat]) /\ pinned' \in 1 .. Len(rosters')
    BY <2>1 DEF CheckpointInv
  <2> QED
    BY <2>1, <2>3, <2>4 DEF CheckpointInv, Checkpoint!Commitment, Checkpoint!File
<1>9. ASSUME Checkpoint!Stop PROVE CheckpointInv'
  BY <1>9 DEF Checkpoint!Stop, CheckpointInv, Checkpoint!RestoredIsAccepted,
              Checkpoint!Commitment, Checkpoint!File
<1>10. ASSUME NEW r, NEW f \in files, Checkpoint!Start(r, f) PROVE CheckpointInv'
  <2>1. f.slots \subseteq SlotRecords
    BY DEF CheckpointInv, FileOfSlots
  <2> QED
    BY <1>8, <1>10, <2>1
<1>11. ASSUME NEW r, NEW f \in files, NEW bad \in Checkpoint!Damaged(f), Checkpoint!Start(r, bad)
       PROVE  CheckpointInv'
  <2>1. bad.slots \subseteq SlotRecords
    BY DamagedOfSlots
  <2> QED
    BY <1>8, <1>11, <2>1
<1> QED
  BY <1>2, <1>4, <1>5, <1>6, <1>7, <1>9, <1>10, <1>11 DEF Checkpoint!Next
-----------------------------------------------------------------------------
VouchedInv == HolderInv /\ PresenterInv /\ RuntimeInv /\ CheckpointInv

(* What is used was vouched for, by then and for this use: a served key,   *)
(* a presented slot, a proof backend and a restored account (keys.js:59,   *)
(* actor.mjs:288, artifacts.mjs:16, checkpoint.mjs:163).                   *)
THEOREM UsedIsVouchedFor == PartsSpec => []VouchedFor
<1>1. Init => VouchedInv
  BY HolderInit, PresenterInit, RuntimeInit, CheckpointInit DEF Init, VouchedInv
<1>2. VouchedInv /\ [Next]_partsVars => VouchedInv'
  BY StepsOfParts, HolderStep, PresenterStep, RuntimeStep, CheckpointStep DEF VouchedInv
<1>3. VouchedInv => VouchedFor
  BY PresenterHolds, RuntimeHolds DEF VouchedInv, HolderInv, CheckpointInv, VouchedFor
<1> QED
  BY <1>1, <1>2, <1>3, PTL DEF PartsSpec
-----------------------------------------------------------------------------
(* The forum.  A reply is for ever, and whoever joins a group has replied  *)
(* to a member of it, or was replied to.                                   *)
Contacts == [from : Forumers, to : Forumers, deadline : Int,
             status : {"pending", "accepted", "replied", "declined", "expired"}]
Invitations == [from : Forumers, to : Forumers, established : BOOLEAN]
AccountRecords == [tokens : Int, approaches : Nat, granted : Nat, activeEpochs : Nat,
                   activity : BOOLEAN, open : BOOLEAN]

Solvent(a) ==
    /\ a.approaches + a.tokens <= a.granted
    /\ a.tokens \in 0 .. policy.tokenCap

AccountsInv ==
    /\ forumNow \in Nat /\ epochGrant \in Nat
    /\ account \in [Forumers -> AccountRecords]
    /\ \A m \in Forumers : Solvent(account[m])

GroupTypes ==
    /\ contacts \subseteq Contacts
    /\ group \in [members : SUBSET Forumers, invitations : SUBSET Invitations]
    /\ IsFiniteSet(group.members)
    /\ \A i \in group.invitations : i.from \in group.members

ForumInv == AccountsInv /\ GroupTypes /\ Talk!GroupConsent

LEMMA ForumNumbers ==
    /\ policy.initialTokens \in Nat /\ policy.tokenCap \in Nat /\ policy.maxEpochGrant \in Nat
    /\ policy.growthPerActiveEpoch \in Nat /\ policy.requestTtl \in Nat
    /\ policy.initialTokens <= policy.tokenCap
    /\ InitialGrant \in Nat /\ GroupLimit \in Nat \ {0, 1} /\ Forumers # {}
BY ForumersConstants DEF Talk!ForumConstants

LEMMA ForumInit == ASSUME Talk!Init PROVE ForumInv
<1>1. AccountsInv
  <2> DEFINE a0 == [tokens |-> policy.initialTokens, approaches |-> 0,
                    granted |-> policy.initialTokens, activeEpochs |-> 0, activity |-> FALSE,
                    open |-> TRUE]
  <2>1. account = [m \in Forumers |-> a0] /\ forumNow = 0 /\ epochGrant = InitialGrant
    BY DEF Talk!Init
  <2>2. a0 \in AccountRecords /\ Solvent(a0)
    BY ForumNumbers DEF AccountRecords, Solvent
  <2> HIDE DEF a0
  <2> QED
    BY <2>1, <2>2, ForumNumbers DEF AccountsInv
<1>2. contacts = {} /\ group = [members |-> {}, invitations |-> {}]
  BY DEF Talk!Init
<1>3. IsFiniteSet({}) /\ Cardinality({}) = 0
  BY FS_EmptySet
<1>4. GroupTypes
  BY <1>2, <1>3 DEF GroupTypes
<1>5. Talk!GroupConsent
  BY <1>2, <1>3, SameCardinality, ForumNumbers DEF Talk!GroupConsent
<1> QED
  BY <1>1, <1>4, <1>5 DEF ForumInv

(* What a step may do to the contacts. *)
RepliesStay == contacts' \subseteq Contacts
               /\ \A c \in contacts : c.status = "replied" => c \in contacts'

LEMMA EstablishedStays ==
    ASSUME RepliesStay, NEW a, NEW b, Talk!Established(a, b) PROVE Talk!Established(a, b)'
BY DEF RepliesStay, Talk!Established, Talk!Between

LEMMA BecomesKeeps ==
    ASSUME GroupTypes, NEW c \in contacts, c.status # "replied",
           NEW s \in {"pending", "accepted", "replied", "declined", "expired"}, Talk!Becomes(c, s)
    PROVE  /\ RepliesStay
           /\ s = "replied" => Talk!Established(c.from, c.to)' /\ Talk!Established(c.to, c.from)'
<1> DEFINE new == [c EXCEPT !.status = s]
<1>1. contacts' = (contacts \ {c}) \cup {new}
  BY DEF Talk!Becomes
<1>2. c \in Contacts
  BY DEF GroupTypes
<1>3. new \in Contacts /\ new.status = s /\ new.from = c.from /\ new.to = c.to
  BY <1>2 DEF Contacts
<1> HIDE DEF new
<1>4. RepliesStay
  BY <1>1, <1>3 DEF RepliesStay, GroupTypes
<1>5. ASSUME s = "replied"
      PROVE  Talk!Established(c.from, c.to)' /\ Talk!Established(c.to, c.from)'
  BY <1>1, <1>3, <1>5 DEF Talk!Established, Talk!Between
<1> QED
  BY <1>4, <1>5

(* The group stays, or changes as below. *)
LEMMA GroupStays ==
    ASSUME ForumInv, RepliesStay, UNCHANGED group PROVE GroupTypes' /\ Talk!GroupConsent'
<1>1. GroupTypes'
  BY DEF ForumInv, GroupTypes, RepliesStay
<1>2. Talk!GroupConsent'
  BY EstablishedStays DEF ForumInv, Talk!GroupConsent
<1> QED
  BY <1>1, <1>2

LEMMA GroupJoined ==
    ASSUME ForumInv, RepliesStay, NEW i \in group.invitations, Talk!HasPlace,
           group' = Talk!Joining(i), Talk!Established(i.to, i.from)'
    PROVE  GroupTypes' /\ Talk!GroupConsent'
<1> USE DEF ForumInv
<1>1. /\ group'.members = group.members \cup {i.to}
      /\ group'.invitations = group.invitations \ {i}
      /\ group' \in [members : SUBSET Forumers, invitations : SUBSET Invitations]
      /\ i.from \in group.members
  BY DEF GroupTypes, Talk!Joining, Invitations
<1>2. /\ IsFiniteSet(group'.members) /\ Cardinality(group'.members) <= GroupLimit
  <2>1. IsFiniteSet(group.members) /\ Cardinality(group.members) \in Nat
        /\ Cardinality(group.members) < GroupLimit
    BY FS_CardinalityType, SameCardinality DEF GroupTypes, Talk!HasPlace
  <2>2. IsFiniteSet(group.members \cup {i.to})
        /\ Cardinality(group.members \cup {i.to}) <= Cardinality(group.members) + 1
    BY <2>1, FS_AddElement
  <2>3. Cardinality(group.members \cup {i.to}) \in Nat
    BY <2>2, FS_CardinalityType
  <2> QED
    BY <1>1, <2>1, <2>2, <2>3, ForumNumbers
<1>3. GroupTypes'
  BY <1>1, <1>2 DEF GroupTypes, RepliesStay
<1>4. PICK first \in Forumers : \A m \in group.members \ {first} :
            \E other \in group.members : Talk!Established(m, other)
  BY DEF Talk!GroupConsent
<1>5. ASSUME NEW m \in group'.members \ {first}
      PROVE  \E other \in group'.members : Talk!Established(m, other)'
  <2>1. CASE m = i.to
    BY <1>1, <2>1
  <2>2. CASE m # i.to
    <3>1. PICK other \in group.members : Talk!Established(m, other)
      BY <1>1, <1>4, <1>5, <2>2
    <3> QED
      BY <1>1, <3>1, EstablishedStays
  <2> QED
    BY <2>1, <2>2
<1>6. Talk!GroupConsent'
  BY <1>2, <1>5, SameCardinality DEF Talk!GroupConsent
<1> QED
  BY <1>3, <1>6

(* The accounts stay, or one of them changes to a solvent one. *)
LEMMA AccountsSame ==
    ASSUME AccountsInv, UNCHANGED <<epochGrant, account>>, forumNow' \in Nat PROVE AccountsInv'
BY DEF AccountsInv, Solvent

LEMMA ActivityMarked ==
    ASSUME AccountsInv, NEW a \in Forumers, NEW b \in Forumers,
           account' = [account EXCEPT ![a].activity = TRUE, ![b].activity = TRUE],
           UNCHANGED <<epochGrant, forumNow>>
    PROVE  AccountsInv'
<1> DEFINE first == [account EXCEPT ![a].activity = TRUE]
<1>1. first \in [Forumers -> AccountRecords] /\ \A m \in Forumers : Solvent(first[m])
  BY DEF AccountsInv, AccountRecords, Solvent
<1>2. account' = [first EXCEPT ![b].activity = TRUE]
  OBVIOUS
<1> HIDE DEF first
<1>3. account' \in [Forumers -> AccountRecords] /\ \A m \in Forumers : Solvent(account'[m])
  <2>1. first[b] \in AccountRecords /\ Solvent(first[b])
    BY <1>1
  <2> DEFINE marked == [first[b] EXCEPT !.activity = TRUE]
  <2>2. marked \in AccountRecords /\ Solvent(marked)
    BY <2>1 DEF AccountRecords, Solvent
  <2>3. account' = [first EXCEPT ![b] = marked]
    BY <1>2
  <2> HIDE DEF marked
  <2> QED
    BY <1>1, <2>2, <2>3
<1> QED
  BY <1>3 DEF AccountsInv, Solvent

LEMMA DeliveredKeeps ==
    ASSUME ForumInv, NEW from \in Forumers, NEW to \in Forumers, Talk!Delivered(from, to)
    PROVE  AccountsInv' /\ RepliesStay
<1> USE DEF ForumInv
<1>1. /\ account[from].tokens >= 1
      /\ account' = [account EXCEPT ![from].tokens = @ - 1, ![from].approaches = @ + 1]
      /\ contacts' = contacts \cup {[from |-> from, to |-> to, status |-> "pending",
                                     deadline |-> forumNow + policy.requestTtl]}
      /\ UNCHANGED <<forumNow, epochGrant>>
  BY DEF Talk!Delivered, Talk!others
<1>2. AccountsInv'
  <2> DEFINE a == account[from]
             spent_ == [a EXCEPT !.tokens = @ - 1, !.approaches = @ + 1]
  <2>1. a \in AccountRecords /\ Solvent(a) /\ a.tokens >= 1
    BY <1>1 DEF AccountsInv
  <2>2. account' = [account EXCEPT ![from] = spent_]
    BY <1>1
  <2>3. spent_ \in AccountRecords /\ Solvent(spent_)
    <3> HIDE DEF a
    <3> DEFINE tokens == a.tokens - 1
               approaches == a.approaches + 1
    <3>0. tokens \in Int /\ approaches \in Nat
      BY <2>1 DEF AccountRecords
    <3>1. /\ spent_ \in AccountRecords
          /\ spent_.tokens = a.tokens - 1 /\ spent_.approaches = a.approaches + 1
          /\ spent_.granted = a.granted
      <4>1. spent_ = [a EXCEPT !.tokens = tokens, !.approaches = approaches]
        OBVIOUS
      <4> HIDE DEF tokens, approaches, spent_
      <4>2. /\ spent_ \in AccountRecords
            /\ spent_.tokens = tokens /\ spent_.approaches = approaches
            /\ spent_.granted = a.granted
        BY <2>1, <3>0, <4>1 DEF AccountRecords
      <4> QED
        BY <4>2 DEF tokens, approaches
    <3>2. a.tokens \in Int /\ a.approaches \in Nat /\ a.granted \in Nat
      BY <2>1 DEF AccountRecords
    <3> HIDE DEF spent_
    <3> QED
      BY <2>1, <3>1, <3>2, ForumNumbers DEF Solvent
  <2> HIDE DEF spent_
  <2>4. account' \in [Forumers -> AccountRecords] /\ \A m \in Forumers : Solvent(account'[m])
    BY <2>2, <2>3 DEF AccountsInv
  <2> QED
    BY <1>1, <2>4 DEF AccountsInv, Solvent
<1>3. RepliesStay
  <2>1. forumNow + policy.requestTtl \in Int
    BY ForumNumbers DEF AccountsInv
  <2> QED
    BY <1>1, <2>1 DEF RepliesStay, GroupTypes, Contacts
<1> QED
  BY <1>2, <1>3

LEMMA ForumTick == ASSUME ForumInv, Talk!Tick PROVE ForumInv'
<1> USE DEF ForumInv
<1> DEFINE Aged(c) == IF c.status = "pending" /\ c.deadline <= forumNow'
                      THEN [c EXCEPT !.status = "expired"] ELSE c
<1>1. /\ forumNow' = forumNow + 1 /\ contacts' = {Aged(c) : c \in contacts}
      /\ UNCHANGED <<epochGrant, account, group>>
  BY DEF Talk!Tick
<1>2. AccountsInv'
  BY <1>1, AccountsSame DEF AccountsInv
<1>3. RepliesStay
  <2>1. \A c \in contacts : Aged(c) \in Contacts /\ (c.status = "replied" => Aged(c) = c)
    BY DEF GroupTypes, Contacts
  <2> HIDE DEF Aged
  <2> QED
    BY <1>1, <2>1 DEF RepliesStay
<1> QED
  BY <1>1, <1>2, <1>3, GroupStays

LEMMA SameContacts == ASSUME ForumInv, UNCHANGED contacts PROVE RepliesStay
BY DEF ForumInv, GroupTypes, RepliesStay

LEMMA ForumEpoch == ASSUME ForumInv, Talk!AdvanceEpoch PROVE ForumInv'
<1> USE DEF ForumInv
<1> DEFINE Active(m) == account[m].activeEpochs + (IF account[m].activity THEN 1 ELSE 0)
           Granted(m) == Talk!Smaller(policy.maxEpochGrant,
                             epochGrant' + Active(m) * policy.growthPerActiveEpoch)
           After(m) == [account[m] EXCEPT !.activeEpochs = Active(m), !.activity = FALSE,
                            !.granted = @ + Granted(m), !.tokens = Talk!Capped(@ + Granted(m))]
<1>1. /\ account' = [m \in Forumers |-> IF m \notin known THEN account[m] ELSE After(m)]
      /\ UNCHANGED <<forumNow, contacts, group>>
  BY DEF Talk!AdvanceEpoch
<1>2. epochGrant' \in Nat
  <2> DEFINE sign == Talk!Sign(Talk!MapThenSumSet(LAMBDA m : votes[m], Forumers))
  <2>1. epochGrant' = IF ~ policy.voting THEN epochGrant ELSE
            Talk!Greater(0, Talk!Smaller(policy.maxEpochGrant, epochGrant + sign))
    BY DEF Talk!AdvanceEpoch
  <2>2. sign \in Int
    BY DEF Talk!Sign
  <2> HIDE DEF sign
  <2> QED
    BY <2>1, <2>2, ForumNumbers DEF Talk!Greater, Talk!Smaller, AccountsInv
<1>3. ASSUME NEW m \in Forumers PROVE After(m) \in AccountRecords /\ Solvent(After(m))
  <2>1. account[m] \in AccountRecords /\ Solvent(account[m])
    BY DEF AccountsInv
  <2>2. Active(m) \in Nat
    BY <2>1 DEF AccountRecords
  <2>3. Granted(m) \in Nat
    <3> HIDE DEF Active
    <3>1. Active(m) * policy.growthPerActiveEpoch \in Nat
      BY <2>2, ForumNumbers
    <3> QED
      BY <1>2, <3>1, ForumNumbers DEF Talk!Smaller
  <2> HIDE DEF Active, Granted
  <2>4. /\ Talk!Capped(account[m].tokens + Granted(m)) \in 0 .. policy.tokenCap
        /\ Talk!Capped(account[m].tokens + Granted(m)) <= account[m].tokens + Granted(m)
    BY <2>1, <2>3, ForumNumbers DEF AccountRecords, Solvent, Talk!Capped, Talk!Smaller
  <2>5. /\ After(m).approaches = account[m].approaches
        /\ After(m).granted = account[m].granted + Granted(m)
        /\ After(m).tokens = Talk!Capped(account[m].tokens + Granted(m))
    BY <2>1 DEF AccountRecords
  <2>6. After(m) \in AccountRecords
    <3> DEFINE a == account[m]
               capped == Talk!Capped(a.tokens + Granted(m))
    <3>1. capped \in Int /\ a.granted + Granted(m) \in Nat
      BY <2>1, <2>3, <2>4 DEF AccountRecords
    <3>2. After(m) = [a EXCEPT !.activeEpochs = Active(m), !.activity = FALSE,
                          !.granted = a.granted + Granted(m), !.tokens = capped]
      OBVIOUS
    <3> HIDE DEF a, capped, After
    <3> QED
      BY <2>1, <2>2, <3>1, <3>2 DEF AccountRecords, a
  <2>7. Solvent(After(m))
    <3> HIDE DEF After
    <3> QED
      BY <2>1, <2>3, <2>4, <2>5 DEF Solvent, AccountRecords
  <2> QED
    BY <2>6, <2>7
<1> HIDE DEF After
<1>4. account' \in [Forumers -> AccountRecords] /\ \A m \in Forumers : Solvent(account'[m])
  BY <1>1, <1>3 DEF AccountsInv
<1>5. AccountsInv'
  BY <1>1, <1>2, <1>4 DEF AccountsInv, Solvent
<1> QED
  BY <1>1, <1>5, SameContacts, GroupStays

LEMMA ForumCreate == ASSUME ForumInv, NEW m \in Forumers, Talk!Create(m) PROVE ForumInv'
<1> USE DEF ForumInv
<1>1. /\ group.members = {} /\ group' = [group EXCEPT !.members = {m}]
      /\ UNCHANGED <<forumNow, epochGrant, account, contacts>>
  BY DEF Talk!Create, Talk!others
<1>2. AccountsInv'
  BY <1>1, AccountsSame DEF AccountsInv
<1>3. group'.members = {m} /\ group'.invitations = group.invitations
      /\ group' \in [members : SUBSET Forumers, invitations : SUBSET Invitations]
  BY <1>1 DEF GroupTypes
<1>4. IsFiniteSet({m}) /\ Cardinality({m}) = 1
  BY FS_Singleton
<1>5. GroupTypes'
  BY <1>1, <1>3, <1>4 DEF GroupTypes
<1>6. Talk!GroupConsent'
  <2>1. Cardinality(group'.members) <= GroupLimit
    BY <1>3, <1>4, ForumNumbers
  <2>2. \E first \in Forumers : group'.members \ {first} = {}
    BY <1>3
  <2> QED
    BY <2>1, <2>2, SameCardinality DEF Talk!GroupConsent
<1> QED
  BY <1>2, <1>5, <1>6

LEMMA ForumInvite ==
    ASSUME ForumInv, NEW inviter \in Forumers, NEW m \in Forumers, Talk!Invite(inviter, m)
    PROVE  ForumInv'
<1> USE DEF ForumInv
<1>1. /\ inviter \in group.members
      /\ group' = [group EXCEPT !.invitations = @ \cup
            {[from |-> inviter, to |-> m, established |-> Talk!Established(inviter, m)]}]
      /\ \/ Talk!Delivered(inviter, m)
         \/ UNCHANGED <<forumNow, epochGrant, account, contacts>>
  BY DEF Talk!Invite, Talk!others
<1>2. AccountsInv' /\ RepliesStay
  <2>1. CASE Talk!Delivered(inviter, m)
    BY <2>1, DeliveredKeeps
  <2>2. CASE UNCHANGED <<forumNow, epochGrant, account, contacts>>
    BY <2>2, AccountsSame, SameContacts DEF AccountsInv
  <2> QED
    BY <1>1, <2>1, <2>2
<1> DEFINE new == [from |-> inviter, to |-> m, established |-> Talk!Established(inviter, m)]
<1>3. new \in Invitations /\ new.from = inviter
  BY DEF Invitations, Talk!Established
<1> HIDE DEF new
<1>4. /\ group'.members = group.members /\ group'.invitations = group.invitations \cup {new}
      /\ group' \in [members : SUBSET Forumers, invitations : SUBSET Invitations]
  BY <1>1, <1>3 DEF GroupTypes, new
<1>5. GroupTypes'
  BY <1>1, <1>2, <1>3, <1>4 DEF GroupTypes, RepliesStay
<1>6. Talk!GroupConsent'
  BY <1>2, <1>4, EstablishedStays DEF Talk!GroupConsent
<1> QED
  BY <1>2, <1>5, <1>6

(* A contact that is accepted or replied, with the activity of both. *)
LEMMA ContactMoves ==
    ASSUME ForumInv, NEW c \in contacts, c.status # "replied",
           NEW s \in {"accepted", "replied", "declined"}, Talk!Becomes(c, s),
           UNCHANGED <<forumNow, epochGrant>>,
           \/ UNCHANGED account
           \/ account' = [account EXCEPT ![c.from].activity = TRUE, ![c.to].activity = TRUE]
    PROVE  /\ AccountsInv' /\ RepliesStay
           /\ s = "replied" => Talk!Established(c.to, c.from)'
<1>1. c.from \in Forumers /\ c.to \in Forumers
  BY DEF ForumInv, GroupTypes, Contacts
<1>2. AccountsInv'
  <2>1. CASE UNCHANGED account
    BY <2>1, AccountsSame DEF ForumInv, AccountsInv
  <2>2. CASE account' = [account EXCEPT ![c.from].activity = TRUE, ![c.to].activity = TRUE]
    BY <1>1, <2>2, ActivityMarked DEF ForumInv
  <2> QED
    BY <2>1, <2>2
<1>3. RepliesStay /\ (s = "replied" => Talk!Established(c.to, c.from)')
  BY BecomesKeeps DEF ForumInv
<1> QED
  BY <1>2, <1>3

LEMMA ForumContact ==
    ASSUME ForumInv, NEW c \in contacts, Talk!Accept(c) \/ Talk!Reply(c) \/ Talk!Decline(c)
    PROVE  ForumInv'
<1>1. CASE Talk!Accept(c)
  <2>1. /\ c.status = "pending" /\ Talk!Becomes(c, "accepted")
        /\ UNCHANGED <<forumNow, epochGrant, account, group>>
    BY <1>1 DEF Talk!Accept, Talk!MayAccept, Talk!others
  <2>2. AccountsInv' /\ RepliesStay
    BY <2>1, ContactMoves
  <2> QED
    BY <2>1, <2>2, GroupStays DEF ForumInv
<1>2. CASE Talk!Reply(c)
  <2>1. /\ c.status = "accepted" /\ Talk!Becomes(c, "replied")
        /\ account' = [account EXCEPT ![c.from].activity = TRUE, ![c.to].activity = TRUE]
        /\ UNCHANGED <<forumNow, epochGrant, group>>
    BY <1>2 DEF Talk!Reply, Talk!others
  <2>2. AccountsInv' /\ RepliesStay
    BY <2>1, ContactMoves
  <2> QED
    BY <2>1, <2>2, GroupStays DEF ForumInv
<1>3. CASE Talk!Decline(c)
  <2>1. /\ c.status = "pending" /\ Talk!Becomes(c, "declined")
        /\ UNCHANGED <<forumNow, epochGrant, account, group>>
    BY <1>3 DEF Talk!Decline, Talk!others
  <2>2. AccountsInv' /\ RepliesStay
    BY <2>1, ContactMoves
  <2> QED
    BY <2>1, <2>2, GroupStays DEF ForumInv
<1> QED
  BY <1>1, <1>2, <1>3

LEMMA ForumJoin ==
    ASSUME ForumInv, NEW i \in group.invitations,
           Talk!JoinKnown(i) \/ Talk!JoinByReply(i) \/ Talk!JoinAtOnce(i)
    PROVE  ForumInv'
<1>1. CASE Talk!JoinKnown(i)
  <2>1. /\ Talk!HasPlace /\ Talk!Established(i.from, i.to) /\ group' = Talk!Joining(i)
        /\ UNCHANGED <<forumNow, epochGrant, account, contacts>>
    BY <1>1 DEF Talk!JoinKnown, Talk!others
  <2>2. AccountsInv' /\ RepliesStay
    BY <2>1, AccountsSame, SameContacts DEF ForumInv, AccountsInv
  <2>3. Talk!Established(i.to, i.from)'
    <3>1. Talk!Established(i.to, i.from)
      BY <2>1 DEF Talk!Established, Talk!Between
    <3> QED
      BY <2>2, <3>1, EstablishedStays
  <2> QED
    BY <2>1, <2>2, <2>3, GroupJoined DEF ForumInv
<1>2. CASE Talk!JoinByReply(i) \/ Talk!JoinAtOnce(i)
  <2>1. PICK c \in Talk!Invited(i) :
          /\ c.status # "replied" /\ Talk!Becomes(c, "replied")
          /\ account' = [account EXCEPT ![c.from].activity = TRUE, ![c.to].activity = TRUE]
    BY <1>2 DEF Talk!JoinByReply, Talk!JoinAtOnce, Talk!MayAccept
  <2>2. /\ Talk!HasPlace /\ group' = Talk!Joining(i) /\ UNCHANGED <<forumNow, epochGrant>>
    BY <1>2 DEF Talk!JoinByReply, Talk!JoinAtOnce, Talk!others
  <2>3. c \in contacts /\ c.from = i.from /\ c.to = i.to
    BY <2>1 DEF Talk!Invited
  <2>4. AccountsInv' /\ RepliesStay /\ Talk!Established(c.to, c.from)'
    BY <2>1, <2>2, <2>3, ContactMoves
  <2>5. Talk!Established(i.to, i.from)'
    BY <2>3, <2>4
  <2> QED
    BY <2>2, <2>4, <2>5, GroupJoined DEF ForumInv
<1> QED
  BY <1>1, <1>2

LEMMA ForumStep == ASSUME ForumInv, [Talk!Next]_forumVars PROVE ForumInv'
<1>1. ASSUME UNCHANGED <<forumNow, epochGrant, account, contacts, group>> PROVE ForumInv'
  <2>1. AccountsInv' /\ RepliesStay
    BY <1>1, AccountsSame, SameContacts DEF ForumInv, AccountsInv
  <2> QED
    BY <1>1, <2>1, GroupStays DEF ForumInv
<1>2. CASE UNCHANGED forumVars
  BY <1>1, <1>2 DEF forumVars
<1>3. ASSUME NEW m \in Forumers, Talk!Connect(m) \/ Talk!Disconnect(m) PROVE ForumInv'
  BY <1>1, <1>3 DEF Talk!Connect, Talk!Disconnect
<1>4. ASSUME NEW m \in Forumers, NEW open \in BOOLEAN, Talk!SetOpen(m, open) PROVE ForumInv'
  <2>1. /\ account' = [account EXCEPT ![m].open = open]
        /\ UNCHANGED <<forumNow, epochGrant, contacts, group>>
    BY <1>4 DEF Talk!SetOpen, Talk!others
  <2>2. account[m] \in AccountRecords /\ Solvent(account[m])
    BY DEF ForumInv, AccountsInv
  <2> DEFINE set == [account[m] EXCEPT !.open = open]
  <2>3. set \in AccountRecords /\ Solvent(set)
    BY <2>2 DEF AccountRecords, Solvent
  <2>4. account' = [account EXCEPT ![m] = set]
    BY <2>1
  <2> HIDE DEF set
  <2>5. account' \in [Forumers -> AccountRecords] /\ \A x \in Forumers : Solvent(account'[x])
    BY <2>3, <2>4 DEF ForumInv, AccountsInv
  <2>6. AccountsInv'
    BY <2>1, <2>5 DEF ForumInv, AccountsInv, Solvent
  <2> QED
    BY <2>1, <2>6, SameContacts, GroupStays DEF ForumInv
<1>5. ASSUME NEW m \in Forumers, NEW direction, Talk!Vote(m, direction) PROVE ForumInv'
  BY <1>1, <1>5 DEF Talk!Vote
<1>6. ASSUME NEW m \in Forumers, NEW other \in Forumers, Talk!Block(m, other) \/ Talk!Unblock(m, other)
      PROVE  ForumInv'
  BY <1>1, <1>6 DEF Talk!Block, Talk!Unblock
<1>7. ASSUME NEW m \in Forumers, NEW other \in Forumers, Talk!Introduce(m, other) PROVE ForumInv'
  <2>1. Talk!Delivered(m, other) /\ UNCHANGED group
    BY <1>7 DEF Talk!Introduce
  <2> QED
    BY <2>1, DeliveredKeeps, GroupStays DEF ForumInv
<1> QED
  BY <1>2, <1>3, <1>4, <1>5, <1>6, <1>7, ForumTick, ForumEpoch, ForumCreate, ForumInvite,
     ForumContact, ForumJoin DEF Talk!Next

(* Who is in a group was accepted by another member of it, and nobody      *)
(* approaches beyond the grants (groups.js:38-58, simulate.js:142-150).    *)
THEOREM ForumKeepsRules == PartsSpec => []ForumRules
<1>1. Init => ForumInv
  BY ForumInit DEF Init
<1>2. ForumInv /\ [Next]_partsVars => ForumInv'
  BY StepsOfParts, ForumStep
<1>3. ForumInv => ForumRules
  BY DEF ForumInv, AccountsInv, Solvent, ForumRules, Talk!WithinGrants
<1> QED
  BY <1>1, <1>2, <1>3, PTL DEF PartsSpec
-----------------------------------------------------------------------------
(* The rendezvous.  The directory and the sessions tell the same story.    *)
Challenges == [id : Nat, member : {g.member : g \in Grants}, issuedAt : Nat, expiresAt : Nat]

Paired(map, open) ==
    /\ map = [m \in DOMAIN map |-> map[m]]
    /\ \A s \in open : s.challenge.member \in DOMAIN map /\ map[s.challenge.member] = s.token
    /\ \A m \in DOMAIN map : \E s \in open : s.challenge.member = m
    /\ \A s, t \in open : s.challenge.member = t.challenge.member => s = t

RdvTypes ==
    /\ rdvNow \in Nat /\ asked \in Nat
    /\ begun \subseteq Challenges
    /\ \A r \in registering : r.challenge \in begun /\ r.grant \in Grants
    /\ registered \in Seq(Challenges)
    /\ \A s \in sessions : s.challenge \in Challenges /\ s.expiresAt \in Nat
    /\ used \subseteq Challenges

Bounded ==
    /\ IsFiniteSet(sessions) /\ Cardinality(sessions) <= maxMembers
    /\ IsFiniteSet(used) /\ Cardinality(used) <= maxReplayEntries

(* A challenge that was registered is marked, has expired, or is one that  *)
(* this process would not recognise. *)
Spent(c) == c \in used \/ c.expiresAt <= rdvNow \/ c \notin begun
ChallengesSpent ==
    /\ \A c \in begun : c.id < asked
    /\ \A i \in 1 .. Len(registered) : registered[i].id < asked /\ Spent(registered[i])
    /\ \A i, j \in 1 .. Len(registered) : registered[i] = registered[j] => i = j

MeetingInv == RdvTypes /\ Paired(members, sessions) /\ Bounded /\ ChallengesSpent

LEMMA MeetingNumbers ==
    /\ leaseSeconds \in Nat /\ replySeconds \in Nat
    /\ maxMembers \in Nat /\ maxReplayEntries \in Nat
    /\ \A g \in Grants : g.issuedAt \in Nat /\ g.expiresAt \in Nat
BY MeetingConstants DEF Meeting!RendezvousConstants

LEMMA EarlierIsTime == \A a, b \in Nat : Meeting!Earlier(a, b) \in Nat
BY DEF Meeting!Earlier

LEMMA MeetingInit == ASSUME Meeting!Init PROVE MeetingInv
<1> USE DEF Meeting!Init, Meeting!NobodyRegistered
<1>1. RdvTypes
  BY DEF RdvTypes
<1>2. Paired(members, sessions)
  BY DEF Paired
<1>3. Bounded
  BY FS_EmptySet, MeetingNumbers DEF Bounded
<1>4. ChallengesSpent
  BY DEF ChallengesSpent
<1> QED
  BY <1>1, <1>2, <1>3, <1>4 DEF MeetingInv

(* Erasing sessions erases their members, and nobody else. *)
LEMMA ErasureKeepsPairs ==
    ASSUME Paired(members, sessions), NEW gone \in SUBSET sessions
    PROVE  Paired(Meeting!Erased(gone), sessions \ gone)
<1> DEFINE names == {s.challenge.member : s \in gone}
           left == Meeting!Erased(gone)
<1>1. left = [m \in DOMAIN members \ names |-> members[m]]
  BY DEF Meeting!Erased, Meeting!Only
<1>2. DOMAIN left = DOMAIN members \ names /\ \A m \in DOMAIN left : left[m] = members[m]
  BY <1>1
<1>3. \A s \in sessions \ gone : s.challenge.member \notin names
  BY DEF Paired
<1>4. \A s \in gone : s.challenge.member \in names
  OBVIOUS
<1>5. left = [m \in DOMAIN left |-> left[m]]
  BY <1>1, <1>2, Zenon
<1> HIDE DEF left, names
<1>6. ASSUME NEW m \in DOMAIN left PROVE \E s \in sessions \ gone : s.challenge.member = m
  <2>1. PICK s \in sessions : s.challenge.member = m
    BY <1>2 DEF Paired
  <2> QED
    BY <1>2, <1>4, <2>1
<1>7. \A s \in sessions \ gone : s.challenge.member \in DOMAIN left
                                 /\ left[s.challenge.member] = s.token
  BY <1>2, <1>3 DEF Paired
<1> QED
  BY <1>5, <1>6, <1>7 DEF Paired, left

(* What every call does first. *)
LEMMA PruningKeeps ==
    ASSUME MeetingInv
    PROVE  /\ Paired(Meeting!Listed, Meeting!Live)
           /\ Meeting!Live \subseteq sessions /\ Meeting!Marks \subseteq used
           /\ IsFiniteSet(Meeting!Live) /\ Cardinality(Meeting!Live) <= maxMembers
           /\ IsFiniteSet(Meeting!Marks) /\ Cardinality(Meeting!Marks) <= maxReplayEntries
           /\ \A c \in used : c \in Meeting!Marks \/ c.expiresAt <= rdvNow
<1>1. Meeting!Live \subseteq sessions /\ Meeting!Marks \subseteq used
  BY DEF Meeting!Live, Meeting!Marks
<1>2. /\ IsFiniteSet(Meeting!Live) /\ Cardinality(Meeting!Live) <= Cardinality(sessions)
      /\ IsFiniteSet(Meeting!Marks) /\ Cardinality(Meeting!Marks) <= Cardinality(used)
  BY <1>1, FS_Subset DEF MeetingInv, Bounded
<1>3. /\ Cardinality(Meeting!Live) \in Nat /\ Cardinality(sessions) \in Nat
      /\ Cardinality(Meeting!Marks) \in Nat /\ Cardinality(used) \in Nat
  BY <1>2, FS_CardinalityType DEF MeetingInv, Bounded
<1>4. Cardinality(Meeting!Live) <= maxMembers /\ Cardinality(Meeting!Marks) <= maxReplayEntries
  <2>1. Cardinality(sessions) <= maxMembers /\ Cardinality(used) <= maxReplayEntries
    BY DEF MeetingInv, Bounded
  <2> QED
    BY <1>2, <1>3, <2>1, MeetingNumbers
<1>5. sessions \ (sessions \ Meeting!Live) = Meeting!Live
  BY <1>1
<1>6. Paired(Meeting!Listed, Meeting!Live)
  BY <1>5, ErasureKeepsPairs, Zenon DEF MeetingInv, Meeting!Listed
<1>7. \A c \in used : c \in Meeting!Marks \/ c.expiresAt <= rdvNow
  BY DEF Meeting!Marks, MeetingInv, RdvTypes, Challenges
<1> QED
  BY <1>1, <1>2, <1>4, <1>6, <1>7

(* A step that prunes, perhaps ends sessions, and forgets registrations.   *)
LEMMA PrunedKeeps ==
    ASSUME MeetingInv, NEW gone \in SUBSET Meeting!Live,
           sessions' = Meeting!Live \ gone, used' = Meeting!Marks,
           Paired(members', sessions'), registering' \subseteq registering,
           UNCHANGED <<rdvNow, asked, begun, registered>>
    PROVE  MeetingInv'
<1>1. RdvTypes'
  BY PruningKeeps DEF MeetingInv, RdvTypes
<1>2. IsFiniteSet(sessions') /\ Cardinality(sessions') <= Cardinality(Meeting!Live)
  BY PruningKeeps, FS_Subset
<1>3. Cardinality(sessions') \in Nat /\ Cardinality(Meeting!Live) \in Nat
  BY <1>2, PruningKeeps, FS_CardinalityType
<1>4. Bounded'
  BY <1>2, <1>3, PruningKeeps, MeetingNumbers DEF Bounded
<1>5. ChallengesSpent'
  BY PruningKeeps DEF MeetingInv, ChallengesSpent, Spent
<1> QED
  BY <1>1, <1>4, <1>5 DEF MeetingInv

(* As many sessions as members. *)
LEMMA AsManySessions ==
    ASSUME MeetingInv
    PROVE  /\ IsFiniteSet(DOMAIN Meeting!Listed)
           /\ Cardinality(Meeting!Live) <= Cardinality(DOMAIN Meeting!Listed)
<1> DEFINE L == Meeting!Live
           D == DOMAIN Meeting!Listed
           f == [s \in L |-> s.challenge.member]
           g == [m \in D |-> CHOOSE s \in L : s.challenge.member = m]
<1>1. /\ \A s \in L : s.challenge.member \in D
      /\ \A m \in D : \E s \in L : s.challenge.member = m
      /\ \A s, t \in L : s.challenge.member = t.challenge.member => s = t
      /\ IsFiniteSet(L)
  BY PruningKeeps DEF Paired
<1> HIDE DEF L, D
<1>2. \A m \in D : g[m] \in L /\ g[m].challenge.member = m
  BY <1>1
<1>3. f \in Surjection(L, D)
  BY <1>1 DEF Surjection
<1>4. g \in Surjection(D, L)
  <2>1. g \in [D -> L]
    BY <1>2
  <2>2. \A s \in L : s.challenge.member \in D /\ g[s.challenge.member] = s
    BY <1>1, <1>2
  <2> HIDE DEF g
  <2> QED
    BY <2>1, <2>2 DEF Surjection
<1> HIDE DEF f, g
<1>5. IsFiniteSet(D)
  BY <1>1, <1>3, FS_Surjection
<1>6. Cardinality(L) <= Cardinality(D)
  BY <1>4, <1>5, FS_Surjection
<1> QED
  BY <1>5, <1>6 DEF L, D

LEMMA MeetingBegin ==
    ASSUME MeetingInv, NEW g \in Grants, Meeting!Begin(g) PROVE MeetingInv'
<1> DEFINE new == [id |-> asked, member |-> g.member, issuedAt |-> rdvNow,
                   expiresAt |-> Meeting!Earlier(rdvNow + replySeconds, g.expiresAt)]
<1>1. /\ asked' = asked + 1 /\ begun' = begun \cup {new}
      /\ members' = Meeting!Listed /\ sessions' = Meeting!Live /\ used' = Meeting!Marks
      /\ UNCHANGED <<rdvNow, registering, registered>>
  BY DEF Meeting!Begin
<1>2. new \in Challenges
  <2>1. rdvNow + replySeconds \in Nat
    BY MeetingNumbers DEF MeetingInv, RdvTypes
  <2>2. Meeting!Earlier(rdvNow + replySeconds, g.expiresAt) \in Nat
    BY <2>1, MeetingNumbers, EarlierIsTime
  <2> QED
    BY <2>2 DEF MeetingInv, RdvTypes, Challenges
<1>3. new.id = asked
  OBVIOUS
<1> HIDE DEF new
<1>4. RdvTypes'
  <2>1. asked' \in Nat /\ begun' \subseteq Challenges
    BY <1>1, <1>2 DEF MeetingInv, RdvTypes
  <2>2. \A r \in registering' : r.challenge \in begun' /\ r.grant \in Grants
    BY <1>1 DEF MeetingInv, RdvTypes
  <2> QED
    BY <1>1, <2>1, <2>2, PruningKeeps DEF MeetingInv, RdvTypes
<1>5. Paired(members, sessions)' /\ Bounded'
  BY <1>1, PruningKeeps DEF Bounded, Paired
<1>6. ChallengesSpent'
  <2>1. asked \in Nat /\ asked' = asked + 1 /\ begun \subseteq Challenges
    BY <1>1 DEF MeetingInv, RdvTypes
  <2>2. \A c \in begun' : c.id < asked'
    BY <1>1, <1>3, <2>1 DEF MeetingInv, ChallengesSpent, Challenges
  <2>3. \A i \in 1 .. Len(registered) :
          registered[i].id < asked /\ registered[i] \in Challenges /\ Spent(registered[i])
    BY DEF MeetingInv, ChallengesSpent, RdvTypes
  <2>4. \A i \in 1 .. Len(registered) : registered[i].id < asked' /\ registered[i] # new
    BY <1>3, <2>1, <2>3 DEF Challenges
  <2>5. \A i \in 1 .. Len(registered) : Spent(registered[i])'
    BY <1>1, <2>3, <2>4, PruningKeeps DEF Spent
  <2> QED
    BY <1>1, <2>2, <2>4, <2>5 DEF MeetingInv, ChallengesSpent
<1> QED
  BY <1>4, <1>5, <1>6 DEF MeetingInv

LEMMA MeetingRegister ==
    ASSUME MeetingInv, NEW c \in begun, NEW g \in Grants, Meeting!Register(c, g)
    PROVE  MeetingInv'
<1>1. /\ registering' = registering \cup {[challenge |-> c, grant |-> g]}
      /\ members' = Meeting!Listed /\ sessions' = Meeting!Live /\ used' = Meeting!Marks
      /\ UNCHANGED <<rdvNow, asked, begun, registered>>
  BY DEF Meeting!Register
<1>2. \A r \in registering' : r.challenge \in begun' /\ r.grant \in Grants
  BY <1>1 DEF MeetingInv, RdvTypes
<1>3. RdvTypes'
  BY <1>1, <1>2, PruningKeeps DEF MeetingInv, RdvTypes
<1>4. Paired(members, sessions)' /\ Bounded'
  BY <1>1, PruningKeeps DEF Bounded, Paired
<1>5. ChallengesSpent'
  BY <1>1, PruningKeeps DEF MeetingInv, ChallengesSpent, Spent
<1> QED
  BY <1>3, <1>4, <1>5 DEF MeetingInv

(* The new entry is the member's only one, and there was room for it. *)
LEMMA MeetingCommit ==
    ASSUME MeetingInv, NEW r \in registering, Meeting!Commit(r) PROVE MeetingInv'
<1> DEFINE c == r.challenge
           m == r.challenge.member
           n == Len(registered) + 1
           s == [token |-> n, challenge |-> c,
                 expiresAt |-> Meeting!Earlier(rdvNow + leaseSeconds, r.grant.expiresAt)]
           kept == Meeting!Live \ Meeting!Replaced(m)
<1>1. /\ rdvNow < c.expiresAt
      /\ c \notin Meeting!Marks /\ Cardinality(Meeting!Marks) < maxReplayEntries
      /\ m \in DOMAIN Meeting!Listed \/ Cardinality(DOMAIN Meeting!Listed) < maxMembers
      /\ members' = Meeting!EraseThenEntry(r)
      /\ sessions' = kept \cup {s} /\ used' = Meeting!Marks \cup {c}
      /\ registered' = Append(registered, c) /\ registering' = registering \ {r}
      /\ UNCHANGED <<rdvNow, asked, begun>>
  BY SameCardinality DEF Meeting!Commit, Meeting!StillValid
<1>2. /\ c \in begun /\ c \in Challenges /\ r.grant.expiresAt \in Nat
      /\ rdvNow \in Nat /\ c.expiresAt \in Nat /\ c.id < asked
  BY MeetingNumbers DEF MeetingInv, RdvTypes, Challenges, ChallengesSpent
<1>3. c \notin used
  BY <1>1, <1>2, PruningKeeps
<1>4. n \in Nat \ {0} /\ Len(registered) \in Nat /\ registered \in Seq(Challenges)
  BY DEF MeetingInv, RdvTypes
<1>5. s.challenge = c /\ s.token = n /\ s.expiresAt \in Nat
  <2>1. rdvNow + leaseSeconds \in Nat
    BY <1>2, MeetingNumbers
  <2> QED
    BY <1>2, <2>1, EarlierIsTime
<1>6. \A x \in Meeting!Live : x \in kept <=> x.challenge.member # m
  BY DEF Meeting!Replaced
<1>7. kept \subseteq Meeting!Live
  OBVIOUS
<1>8. members' = [x \in DOMAIN Meeting!Listed \cup {m} |-> IF x = m THEN n ELSE Meeting!Listed[x]]
  BY <1>1 DEF Meeting!EraseThenEntry
<1> HIDE DEF s, kept
<1>9. RdvTypes'
  <2>1. registered' \in Seq(Challenges)
    BY <1>1, <1>2, <1>4
  <2>2. \A x \in sessions' : x.challenge \in Challenges /\ x.expiresAt \in Nat
    BY <1>1, <1>2, <1>5, <1>7, PruningKeeps DEF MeetingInv, RdvTypes
  <2>3. used' \subseteq Challenges
    BY <1>1, <1>2, PruningKeeps DEF MeetingInv, RdvTypes
  <2>4. \A x \in registering' : x.challenge \in begun' /\ x.grant \in Grants
    BY <1>1 DEF MeetingInv, RdvTypes
  <2> QED
    BY <1>1, <2>1, <2>2, <2>3, <2>4 DEF MeetingInv, RdvTypes
<1>10. Paired(members, sessions)'
  <2>1. DOMAIN members' = DOMAIN Meeting!Listed \cup {m} /\ members'[m] = n
        /\ \A x \in DOMAIN Meeting!Listed : x # m => members'[x] = Meeting!Listed[x]
    BY <1>8
  <2>2. members' = [x \in DOMAIN members' |-> members'[x]]
    BY <1>8
  <2>3. \A x \in sessions' : x.challenge.member \in DOMAIN members'
                             /\ members'[x.challenge.member] = x.token
    BY <1>1, <1>5, <1>6, <1>7, <2>1, PruningKeeps DEF Paired
  <2>4. \A x \in DOMAIN members' : \E t \in sessions' : t.challenge.member = x
    BY <1>1, <1>5, <1>6, <2>1, PruningKeeps DEF Paired
  <2>5. \A x, y \in sessions' : x.challenge.member = y.challenge.member => x = y
    BY <1>1, <1>5, <1>6, <1>7, PruningKeeps DEF Paired
  <2> QED
    BY <2>2, <2>3, <2>4, <2>5 DEF Paired
<1>11. IsFiniteSet(sessions') /\ Cardinality(sessions') <= maxMembers
  <2>1. /\ IsFiniteSet(kept) /\ Cardinality(kept) \in Nat /\ Cardinality(kept) <= Cardinality(Meeting!Live)
        /\ Cardinality(Meeting!Live) \in Nat /\ Cardinality(Meeting!Live) <= maxMembers
    BY <1>7, PruningKeeps, FS_Subset, FS_CardinalityType
  <2>2. s \notin kept
    BY <1>5, <1>6, <1>7
  <2>3. IsFiniteSet(sessions') /\ Cardinality(sessions') = Cardinality(kept) + 1
    BY <1>1, <2>1, <2>2, FS_AddElement
  <2>4. Cardinality(kept) < maxMembers
    <3>1. CASE m \in DOMAIN Meeting!Listed
      <4>1. PICK x \in Meeting!Live : x.challenge.member = m
        BY <3>1, PruningKeeps DEF Paired
      <4>2. x \notin kept
        BY <1>6, <4>1
      <4>3. Cardinality(kept) # Cardinality(Meeting!Live)
        BY <1>7, <4>1, <4>2, PruningKeeps, FS_Subset
      <4> QED
        BY <2>1, <4>3, MeetingNumbers
    <3>2. CASE Cardinality(DOMAIN Meeting!Listed) < maxMembers
      <4>1. Cardinality(DOMAIN Meeting!Listed) \in Nat
        BY AsManySessions, FS_CardinalityType
      <4> QED
        BY <2>1, <3>2, <4>1, AsManySessions, MeetingNumbers
    <3> QED
      BY <1>1, <3>1, <3>2
  <2> QED
    BY <2>1, <2>3, <2>4, MeetingNumbers
<1>12. IsFiniteSet(used') /\ Cardinality(used') <= maxReplayEntries
  <2>1. IsFiniteSet(Meeting!Marks) /\ Cardinality(Meeting!Marks) \in Nat
    BY PruningKeeps, FS_CardinalityType
  <2>2. IsFiniteSet(used') /\ Cardinality(used') = Cardinality(Meeting!Marks) + 1
    BY <1>1, <2>1, FS_AddElement
  <2> QED
    BY <1>1, <2>1, <2>2, MeetingNumbers
<1>13. ChallengesSpent'
  <2>1. \A i \in 1 .. Len(registered) : /\ registered[i] # c
                                        /\ registered'[i] = registered[i] /\ Spent(registered[i])
                                        /\ registered[i].id < asked
    <3>1. ASSUME NEW i \in 1 .. Len(registered)
          PROVE  /\ registered'[i] = registered[i] /\ Spent(registered[i])
                 /\ registered[i].id < asked
      BY <1>1, <1>4 DEF MeetingInv, ChallengesSpent
    <3>2. ~ Spent(c)
      BY <1>1, <1>2, <1>3 DEF Spent
    <3> QED
      BY <3>1, <3>2
  <2>2. Len(registered') = n /\ registered'[n] = c
    BY <1>1, <1>4
  <2>3. 1 .. Len(registered') = 1 .. Len(registered) \cup {n}
    BY <1>4, <2>2
  <2> HIDE DEF n
  <2>6. \A i \in 1 .. Len(registered') : registered'[i].id < asked' /\ Spent(registered[i])'
    <3>1. ASSUME NEW i \in 1 .. Len(registered) PROVE Spent(registered[i])'
      BY <1>1, <2>1, PruningKeeps DEF Spent
    <3>2. ASSUME NEW i, i = n PROVE Spent(registered[i])'
      BY <1>1, <2>2, <3>2 DEF Spent
    <3>3. asked' = asked
      BY <1>1
    <3> QED
      BY <1>2, <2>1, <2>2, <2>3, <3>1, <3>2, <3>3
  <2>7. \A i, j \in 1 .. Len(registered') : registered'[i] = registered'[j] => i = j
    BY <2>1, <2>2, <2>3 DEF MeetingInv, ChallengesSpent
  <2>8. \A x \in begun' : x.id < asked'
    BY <1>1 DEF MeetingInv, ChallengesSpent
  <2> QED
    BY <2>6, <2>7, <2>8 DEF ChallengesSpent
<1> QED
  BY <1>9, <1>10, <1>11, <1>12, <1>13 DEF MeetingInv, Bounded

LEMMA MeetingStep == ASSUME MeetingInv, [Meeting!Next]_rdvVars PROVE MeetingInv'
<1>1. CASE UNCHANGED rdvVars
  BY <1>1 DEF rdvVars, MeetingInv, RdvTypes, Paired, Bounded, ChallengesSpent, Spent
<1>2. CASE Meeting!Advance
  <2>1. RdvTypes' /\ rdvNow' = rdvNow + 1 /\ rdvNow \in Nat
        /\ UNCHANGED <<members, sessions, used, asked, begun, registering, registered>>
    BY <1>2 DEF Meeting!Advance, MeetingInv, RdvTypes
  <2>2. Paired(members, sessions)' /\ Bounded'
    BY <2>1 DEF MeetingInv, Bounded, Paired
  <2>3. \A i \in 1 .. Len(registered) : registered[i].expiresAt \in Nat
    <3>1. \A i \in 1 .. Len(registered) : registered[i] \in Challenges
      BY DEF MeetingInv, RdvTypes
    <3> QED
      BY <3>1 DEF Challenges
  <2>4. ChallengesSpent'
    BY <2>1, <2>3 DEF MeetingInv, ChallengesSpent, Spent
  <2> QED
    BY <2>1, <2>2, <2>4 DEF MeetingInv
<1>3. CASE Meeting!Prune
  BY <1>3, PrunedKeeps, PruningKeeps DEF Meeting!Prune
<1>4. CASE Meeting!Restart
  <2>1. /\ members' = << >> /\ sessions' = {} /\ used' = {} /\ registering' = {} /\ begun' = {}
        /\ UNCHANGED <<rdvNow, asked, registered>>
    BY <1>4 DEF Meeting!Restart
  <2>2. RdvTypes'
    BY <2>1 DEF MeetingInv, RdvTypes
  <2>3. Paired(members, sessions)'
    BY <2>1 DEF Paired
  <2>4. Bounded'
    BY <2>1, FS_EmptySet, MeetingNumbers DEF Bounded
  <2>5. ChallengesSpent'
    BY <2>1 DEF MeetingInv, ChallengesSpent, Spent
  <2> QED
    BY <2>2, <2>3, <2>4, <2>5 DEF MeetingInv
<1>5. ASSUME NEW r \in registering, Meeting!Refuse(r) PROVE MeetingInv'
  <2>1. /\ registering' \subseteq registering /\ members' = Meeting!Listed
        /\ sessions' = Meeting!Live \ {} /\ used' = Meeting!Marks
        /\ UNCHANGED <<rdvNow, asked, begun, registered>>
    BY <1>5 DEF Meeting!Refuse
  <2>2. Paired(members', sessions')
    BY <2>1, PruningKeeps
  <2> QED
    BY <2>1, <2>2, PrunedKeeps
<1>6. ASSUME NEW s \in sessions, Meeting!Disconnect(s) PROVE MeetingInv'
  <2>1. /\ s \in Meeting!Live /\ members' = Meeting!Erased((sessions \ Meeting!Live) \cup {s})
        /\ sessions' = Meeting!Live \ {s} /\ used' = Meeting!Marks
        /\ UNCHANGED <<rdvNow, asked, begun, registering, registered>>
    BY <1>6 DEF Meeting!Disconnect
  <2>2. sessions \ ((sessions \ Meeting!Live) \cup {s}) = Meeting!Live \ {s}
    BY <2>1, PruningKeeps
  <2>3. Paired(Meeting!Erased((sessions \ Meeting!Live) \cup {s}), Meeting!Live \ {s})
    BY <2>2, ErasureKeepsPairs, Zenon DEF MeetingInv
  <2> QED
    BY <2>1, <2>3, PrunedKeeps
<1> QED
  BY <1>1, <1>2, <1>3, <1>4, <1>5, <1>6, MeetingBegin, MeetingRegister, MeetingCommit
  DEF Meeting!Next

LEMMA MeetingHolds ==
    ASSUME MeetingInv PROVE Meeting!OneSessionEach /\ Meeting!ChallengeOnce
<1>1. {<<s.challenge.member, s.token>> : s \in sessions} = {<<m, members[m]>> : m \in DOMAIN members}
  <2>1. \A s \in sessions : <<s.challenge.member, s.token>>
                            \in {<<m, members[m]>> : m \in DOMAIN members}
    BY DEF MeetingInv, Paired
  <2>2. ASSUME NEW m \in DOMAIN members
        PROVE  <<m, members[m]>> \in {<<s.challenge.member, s.token>> : s \in sessions}
    <3>1. PICK s \in sessions : s.challenge.member = m
      BY DEF MeetingInv, Paired
    <3> QED
      BY <3>1 DEF MeetingInv, Paired
  <2> QED
    BY <2>1, <2>2
<1>2. Meeting!OneSessionEach
  BY <1>1, SameCardinality DEF MeetingInv, Bounded, Meeting!OneSessionEach
<1>3. DOMAIN registered = 1 .. Len(registered)
  BY DEF MeetingInv, RdvTypes
<1> QED
  BY <1>2, <1>3 DEF MeetingInv, ChallengesSpent, Meeting!ChallengeOnce, Meeting!IsInjective
-----------------------------------------------------------------------------
(* Member profiles.  Who works on a read holds one of the owner's proofs.  *)
Working == {"verifying", "answering"}
Busy == {k \in Connections : served[k].phase \in Working}

Connection ==
    [phase : {"closed", "hello", "admitting", "signing", "read", "verifying", "answering"},
     service : 0 .. MaxServices, challenge : challenged \cup {Profile!NoChallenge}]

ProfileTypes ==
    /\ profileNow \in Nat /\ lease \in Nat /\ service \in 0 .. MaxServices
    /\ serving \in {"starting", "active", "closed"}
    /\ publications \in [1 .. MaxServices -> {"unasked", "pending", "held", "released"}]
    /\ session \in {0, service}
    /\ \A c \in challenged : c.session \in 1 .. service /\ c.expiresAt \in Nat
    /\ served \in [Connections -> Connection]
    /\ answers \in Seq(challenged)

(* A service is published while it is open, and activates the owner once.  *)
ServiceOpen ==
    /\ serving # "closed" => service >= 1
    /\ session # 0 => serving = "active"
    /\ serving = "starting" => \A c \in challenged : c.session # service
    /\ \A s \in 1 .. MaxServices :
        publications[s] = "held" => s = service /\ serving # "closed"

ProofsCounted ==
    /\ IsFiniteSet(Busy) /\ verifying = Cardinality(Busy) /\ verifying <= maxConcurrentProofs
    /\ \A k \in Connections : served[k].phase # "closed" => served[k].service >= 1
    /\ \A k \in Busy : served[k].challenge \in challenged

(* A challenge that can not be claimed again. *)
Settled(c) == c \in consumed \/ c.session # session \/ c.expiresAt <= profileNow
Answering(k) == served[k].phase = "answering"
AnswersApart ==
    /\ \A i \in 1 .. Len(answers) : Settled(answers[i])
    /\ \A i, j \in 1 .. Len(answers) : answers[i] = answers[j] => i = j
    /\ \A k \in Connections : Answering(k) =>
        /\ Settled(served[k].challenge)
        /\ \A i \in 1 .. Len(answers) : answers[i] # served[k].challenge
        /\ \A l \in Connections :
            Answering(l) /\ served[l].challenge = served[k].challenge => l = k

ProfileInv == ProfileTypes /\ ServiceOpen /\ ProofsCounted /\ AnswersApart

LEMMA ProfileNumbers ==
    maxConcurrentProofs \in Nat /\ challengeLife \in Nat /\ leaseLife \in Nat /\ MaxServices \in Nat
BY OwnerConstants DEF Profile!ProfileConstants

LEMMA ProfileInit == ASSUME Profile!Init PROVE ProfileInv
<1> USE DEF Profile!Init, Profile!Closed
<1>1. ProfileTypes
  BY ProfileNumbers DEF ProfileTypes, Connection
<1>2. ServiceOpen
  BY DEF ServiceOpen
<1>3. Busy = {}
  BY DEF Busy, Working
<1>4. ProofsCounted
  BY <1>3, FS_EmptySet, ProfileNumbers DEF ProofsCounted
<1>5. AnswersApart
  BY DEF AnswersApart, Answering
<1> QED
  BY <1>1, <1>2, <1>4, <1>5 DEF ProfileInv

(* What a connection's step does to the owner's count of proofs. *)
LEMMA BusyMoves ==
    ASSUME ProfileInv, NEW k \in Connections, NEW x, served' = [served EXCEPT ![k] = x]
    PROVE  /\ served'[k] = x /\ \A l \in Connections : l # k => served'[l] = served[l]
           /\ Busy' = IF x.phase \in Working THEN Busy \cup {k} ELSE Busy \ {k}
           /\ IsFiniteSet(Busy')
           /\ x.phase \in Working /\ k \notin Busy => Cardinality(Busy') = verifying + 1
           /\ x.phase \notin Working /\ k \in Busy => Cardinality(Busy') = verifying - 1
           /\ (x.phase \in Working <=> k \in Busy) => Cardinality(Busy') = verifying
<1>1. served'[k] = x /\ \A l \in Connections : l # k => served'[l] = served[l]
  BY DEF ProfileInv, ProfileTypes
<1>2. Busy' = IF x.phase \in Working THEN Busy \cup {k} ELSE Busy \ {k}
  BY <1>1 DEF Busy
<1>3. IsFiniteSet(Busy) /\ verifying = Cardinality(Busy) /\ Cardinality(Busy) \in Nat
  BY FS_CardinalityType DEF ProfileInv, ProofsCounted
<1>4. /\ IsFiniteSet(Busy \cup {k}) /\ IsFiniteSet(Busy \ {k})
      /\ k \notin Busy => Cardinality(Busy \cup {k}) = verifying + 1
      /\ k \in Busy => Cardinality(Busy \ {k}) = verifying - 1
      /\ k \in Busy => Busy \cup {k} = Busy
      /\ k \notin Busy => Busy \ {k} = Busy
  BY <1>3, FS_AddElement, FS_RemoveElement
<1> QED
  BY <1>1, <1>2, <1>3, <1>4

(* Steps of the service, between which a session's challenges go stale. *)
LEMMA ServiceKeeps ==
    ASSUME ProfileInv, UNCHANGED <<verifying, served, challenged, answers>>,
           ProfileTypes', ServiceOpen', \A c \in challenged : Settled(c) => Settled(c)'
    PROVE  ProfileInv'
<1>1. Busy' = Busy
  BY DEF Busy
<1>2. ProofsCounted'
  BY <1>1 DEF ProfileInv, ProofsCounted
<1>3. \A i \in 1 .. Len(answers) : answers[i] \in challenged /\ Settled(answers[i])
  BY DEF ProfileInv, ProfileTypes, AnswersApart
<1>4. \A k \in Connections : Answering(k) => served[k].challenge \in challenged
  BY DEF ProfileInv, ProofsCounted, Answering, Busy, Working
<1>5. \A i \in 1 .. Len(answers) : Settled(answers[i])'
  BY <1>3 DEF Settled
<1>6. \A k \in Connections : Answering(k) => Settled(served[k].challenge)'
  BY <1>4 DEF ProfileInv, AnswersApart, Settled
<1>7. AnswersApart'
  BY <1>5, <1>6 DEF ProfileInv, AnswersApart, Answering
<1> QED
  BY <1>2, <1>7 DEF ProfileInv

LEMMA ServiceSteps ==
    ASSUME ProfileInv,
           \/ Profile!Pass \/ Profile!Start \/ Profile!Publish \/ Profile!Activate
           \/ Profile!Disconnect \/ \E s \in 1 .. service : Profile!Published(s)
    PROVE  ProfileInv'
<1> USE DEF ProfileInv
<1>1. CASE Profile!Pass
  <2>1. /\ profileNow' = profileNow + 1
        /\ UNCHANGED <<service, serving, lease, publications, session, consumed, verifying,
                       served, challenged, answers>>
    BY <1>1 DEF Profile!Pass, Profile!wireVars, Profile!ownerVars
  <2>2. ProfileTypes' /\ ServiceOpen'
    BY <2>1 DEF ProfileTypes, ServiceOpen, Connection
  <2>3. \A c \in challenged : Settled(c) => Settled(c)'
    BY <2>1 DEF ProfileTypes, Settled
  <2> QED
    BY <2>1, <2>2, <2>3, ServiceKeeps
<1>2. CASE Profile!Start
  <2>1. /\ serving = "closed" /\ service < MaxServices
        /\ service' = service + 1 /\ serving' = "starting" /\ lease' = profileNow + leaseLife
        /\ session' = 0 /\ consumed' = {}
        /\ UNCHANGED <<profileNow, publications, verifying, served, challenged, answers>>
    BY <1>2 DEF Profile!Start
  <2>2. ProfileTypes'
    BY <2>1, ProfileNumbers DEF ProfileTypes, Connection
  <2>3. ServiceOpen'
    BY <2>1 DEF ProfileTypes, ServiceOpen
  <2>4. \A c \in challenged : Settled(c)'
    BY <2>1 DEF ProfileTypes, Settled
  <2> QED
    BY <2>1, <2>2, <2>3, <2>4, ServiceKeeps
<1>3. CASE Profile!Publish
  <2>1. /\ serving = "starting"
        /\ publications' = [publications EXCEPT ![service] = "pending"]
        /\ UNCHANGED <<profileNow, service, serving, lease, session, consumed, verifying, served,
                       challenged, answers>>
    BY <1>3 DEF Profile!Publish, Profile!ownerVars
  <2>2. ProfileTypes' /\ ServiceOpen'
    BY <2>1 DEF ProfileTypes, ServiceOpen, Connection
  <2>3. \A c \in challenged : Settled(c) => Settled(c)'
    BY <2>1 DEF Settled
  <2> QED
    BY <2>1, <2>2, <2>3, ServiceKeeps
<1>4. CASE Profile!Activate
  <2>1. /\ serving = "starting" /\ publications[service] = "held"
        /\ serving' = "active" /\ session' = service /\ consumed' = {}
        /\ UNCHANGED <<profileNow, service, lease, publications, verifying, served, challenged,
                       answers>>
    BY <1>4 DEF Profile!Activate, Profile!ActivateOwner
  <2>2. ProfileTypes' /\ ServiceOpen'
    BY <2>1 DEF ProfileTypes, ServiceOpen, Connection
  <2>3. \A c \in challenged : Settled(c)'
    BY <2>1 DEF ServiceOpen, Settled
  <2> QED
    BY <2>1, <2>2, <2>3, ServiceKeeps
<1>5. CASE Profile!Disconnect
  <2>1. /\ serving # "closed" /\ serving' = "closed" /\ session' = 0 /\ consumed' = {}
        /\ publications' = [publications EXCEPT ![service] = IF @ = "held" THEN "released" ELSE @]
        /\ UNCHANGED <<profileNow, service, lease, verifying, served, challenged, answers>>
    BY <1>5 DEF Profile!Disconnect, Profile!DisconnectOwner
  <2>2. ProfileTypes'
    BY <2>1 DEF ProfileTypes, Connection
  <2>3. ServiceOpen'
    BY <2>1, <2>2 DEF ProfileTypes, ServiceOpen
  <2>4. \A c \in challenged : Settled(c)'
    BY <2>1 DEF ProfileTypes, Settled
  <2> QED
    BY <2>1, <2>2, <2>3, <2>4, ServiceKeeps
<1>6. ASSUME NEW s \in 1 .. service, Profile!Published(s) PROVE ProfileInv'
  <2>1. /\ publications' = [publications EXCEPT ![s] = Profile!Provided(s)]
        /\ UNCHANGED <<profileNow, service, serving, lease, session, consumed, verifying, served,
                       challenged, answers>>
    BY <1>6 DEF Profile!Published, Profile!ownerVars
  <2>2. /\ Profile!Provided(s) \in {"held", "released"}
        /\ Profile!Provided(s) = "held" => s = service /\ serving # "closed"
    BY DEF Profile!Provided
  <2>3. ProfileTypes'
    BY <2>1, <2>2 DEF ProfileTypes, Connection
  <2>4. ServiceOpen'
    BY <2>1, <2>2 DEF ProfileTypes, ServiceOpen
  <2>5. \A c \in challenged : Settled(c) => Settled(c)'
    BY <2>1 DEF Settled
  <2> QED
    BY <2>1, <2>3, <2>4, <2>5, ServiceKeeps
<1> QED
  BY <1>1, <1>2, <1>3, <1>4, <1>5, <1>6

(* Steps of a connection that claim no challenge. *)
LEMMA ConnectionKeeps ==
    ASSUME ProfileInv, NEW k \in Connections, NEW x,
           served' = [served EXCEPT ![k] = x], x \in Connection',
           x.phase # "answering", x.phase # "closed" => x.service >= 1,
           x.phase = "verifying" => x.challenge \in challenged',
           verifying' = Cardinality(Busy'), verifying' <= maxConcurrentProofs,
           challenged \subseteq challenged',
           \A c \in challenged' : c.session \in 1 .. service /\ c.expiresAt \in Nat,
           serving = "starting" => challenged' = challenged,
           \A c \in challenged : Settled(c) => Settled(c)',
           UNCHANGED <<profileNow, service, serving, lease, publications, session, answers>>
    PROVE  ProfileInv'
<1>1. /\ served'[k] = x /\ \A l \in Connections : l # k => served'[l] = served[l]
      /\ Busy' = IF x.phase \in Working THEN Busy \cup {k} ELSE Busy \ {k}
      /\ IsFiniteSet(Busy')
  BY BusyMoves
<1>2. served' \in [Connections -> Connection']
  <2>1. \A y \in Connection : y \in Connection'
    BY DEF Connection
  <2> QED
    BY <2>1 DEF ProfileInv, ProfileTypes
<1>3. answers' \in Seq(challenged')
  BY DEF ProfileInv, ProfileTypes
<1>4. ProfileTypes'
  BY <1>2, <1>3 DEF ProfileInv, ProfileTypes
<1>5. ServiceOpen'
  BY DEF ProfileInv, ServiceOpen
<1>6. ProofsCounted'
  <2>1. \A l \in Connections : served'[l].phase # "closed" => served'[l].service >= 1
    BY <1>1 DEF ProfileInv, ProofsCounted
  <2>2. \A l \in Busy' : served'[l].challenge \in challenged'
    BY <1>1 DEF ProfileInv, ProofsCounted, Working
  <2> QED
    BY <1>1, <2>1, <2>2 DEF ProofsCounted
<1>7. AnswersApart'
  <2>1. \A l \in Connections : Answering(l)' => Answering(l) /\ served'[l] = served[l]
    BY <1>1 DEF Answering
  <2>2. \A i \in 1 .. Len(answers) : answers[i] \in challenged /\ Settled(answers[i])
    BY DEF ProfileInv, ProfileTypes, AnswersApart
  <2>3. \A l \in Connections : Answering(l) => served[l].challenge \in challenged
    BY DEF ProfileInv, ProofsCounted, Answering, Busy, Working
  <2>4. \A i \in 1 .. Len(answers) : Settled(answers[i])'
    BY <2>2 DEF Settled
  <2>5. \A l \in Connections : Answering(l)' => Settled(served[l].challenge)'
    <3>1. ASSUME NEW l \in Connections, Answering(l)' PROVE Settled(served[l].challenge)'
      <4>1. Answering(l) /\ served'[l] = served[l]
        BY <2>1, <3>1
      <4>2. served[l].challenge \in challenged /\ Settled(served[l].challenge)
        BY <2>3, <4>1 DEF ProfileInv, AnswersApart
      <4> QED
        BY <4>1, <4>2 DEF Settled
    <3> QED
      BY <3>1
  <2>6. \A l \in Connections : Answering(l)' =>
          /\ \A i \in 1 .. Len(answers) : answers[i] # served'[l].challenge
          /\ \A h \in Connections :
              Answering(h)' /\ served'[h].challenge = served'[l].challenge => h = l
    BY <2>1 DEF ProfileInv, AnswersApart
  <2> QED
    BY <2>4, <2>5, <2>6 DEF ProfileInv, AnswersApart
<1> QED
  BY <1>4, <1>5, <1>6, <1>7 DEF ProfileInv

LEMMA ConnectionTypes ==
    ASSUME ProfileInv, NEW k \in Connections
    PROVE  /\ served[k] \in Connection
           /\ served[k].service \in 0 .. MaxServices
           /\ verifying = Cardinality(Busy) /\ verifying \in Nat /\ verifying <= maxConcurrentProofs
           /\ served[k].phase # "closed" => served[k].service >= 1
BY FS_CardinalityType DEF ProfileInv, ProfileTypes, ProofsCounted, Connection

LEMMA ProfileConnect ==
    ASSUME ProfileInv, NEW k \in Connections,
           Profile!Connect(k) \/ Profile!Hello(k) \/ Profile!SendChallenge(k)
    PROVE  ProfileInv'
<1>1. PICK x : /\ served' = [served EXCEPT ![k] = x] /\ x \in Connection /\ x.service >= 1
               /\ x.phase \in {"hello", "admitting", "read"}
               /\ served[k].phase \notin Working
               /\ UNCHANGED <<profileNow, service, serving, lease, publications, session, consumed,
                              verifying, challenged, answers>>
  <2>1. CASE Profile!Connect(k)
    <3> DEFINE y == Profile!At("hello", service, Profile!NoChallenge)
    <3>1. y \in Connection /\ y.service >= 1 /\ y.phase = "hello"
      BY <2>1 DEF ProfileInv, ProfileTypes, ServiceOpen, Connection, Profile!At, Profile!Connect
    <3>2. served[k].phase \notin Working
      BY <2>1 DEF Profile!Connect, Profile!Closed, Working
    <3>3. /\ served' = [served EXCEPT ![k] = y]
          /\ UNCHANGED <<profileNow, service, serving, lease, publications, session, consumed,
                         verifying, challenged, answers>>
      BY <2>1 DEF Profile!Connect, Profile!wireVars, Profile!ownerVars
    <3> HIDE DEF y
    <3> QED
      BY <3>1, <3>2, <3>3
  <2>2. CASE Profile!Hello(k)
    <3>1. Profile!At("admitting", served[k].service, Profile!NoChallenge) \in Connection
          /\ served[k].service >= 1
      BY <2>2, ConnectionTypes DEF Connection, Profile!At, Profile!Hello
    <3> QED
      BY <2>2, <3>1 DEF Profile!Hello, Profile!To, Profile!At, Profile!wireVars,
         Profile!ownerVars, Working
  <2>3. CASE Profile!SendChallenge(k)
    <3>1. Profile!At("read", served[k].service, Profile!NoChallenge) \in Connection
          /\ served[k].service >= 1
      BY <2>3, ConnectionTypes DEF Connection, Profile!At, Profile!SendChallenge
    <3> QED
      BY <2>3, <3>1 DEF Profile!SendChallenge, Profile!To, Profile!At, Profile!wireVars,
         Profile!ownerVars, Working
  <2> QED
    BY <2>1, <2>2, <2>3
<1>2. x.phase \notin Working /\ k \notin Busy
  BY <1>1 DEF Working, Busy
<1>3. verifying' = Cardinality(Busy') /\ verifying' <= maxConcurrentProofs
  BY <1>1, <1>2, BusyMoves, ConnectionTypes
<1>4. x \in Connection'
  BY <1>1 DEF Connection
<1>5. \A c \in challenged : Settled(c) => Settled(c)'
  BY <1>1 DEF Settled
<1>6. \A c \in challenged' : c.session \in 1 .. service /\ c.expiresAt \in Nat
  BY <1>1 DEF ProfileInv, ProfileTypes
<1> QED
  BY <1>1, <1>3, <1>4, <1>5, <1>6, ConnectionKeeps

LEMMA ProfileChallenge ==
    ASSUME ProfileInv, NEW k \in Connections, Profile!Challenge(k) PROVE ProfileInv'
<1>1. PICK c : /\ c.session = session /\ c.expiresAt \in Nat
               /\ session = served[k].service /\ served[k].phase = "admitting"
               /\ challenged' = challenged \cup {c}
               /\ served' = [served EXCEPT ![k] = Profile!At("signing", served[k].service, c)]
               /\ UNCHANGED <<profileNow, service, serving, lease, publications, session, consumed,
                              verifying, answers>>
  <2>1. /\ profileNow + challengeLife \in Nat /\ lease \in Nat
    BY ProfileNumbers DEF ProfileInv, ProfileTypes
  <2> DEFINE c == [id |-> Profile!Cardinality(challenged) + 1, session |-> session,
                   issuedAt |-> profileNow,
                   expiresAt |-> IF profileNow + challengeLife < lease
                                 THEN profileNow + challengeLife ELSE lease]
  <2>2. c.session = session /\ c.expiresAt \in Nat
    BY <2>1
  <2>3. /\ challenged' = challenged \cup {c}
        /\ served' = [served EXCEPT ![k] = Profile!At("signing", served[k].service, c)]
        /\ session = served[k].service /\ served[k].phase = "admitting"
        /\ UNCHANGED <<profileNow, service, serving, lease, publications, session, consumed,
                       verifying, answers>>
    BY DEF Profile!Challenge, Profile!To, Profile!wireVars
  <2> HIDE DEF c
  <2> QED
    BY <2>2, <2>3
<1> DEFINE x == Profile!At("signing", served[k].service, c)
<1>2. x.phase = "signing" /\ x.service = served[k].service /\ x \in Connection'
  BY <1>1, ConnectionTypes DEF Profile!At, Connection
<1>3. /\ served[k].service >= 1 /\ served[k].service = session /\ session = service
      /\ serving = "active"
  BY <1>1, ConnectionTypes DEF ProfileInv, ProfileTypes, ServiceOpen
<1> HIDE DEF x
<1>4. served' = [served EXCEPT ![k] = x]
  BY <1>1 DEF x
<1>5. x.phase \notin Working /\ k \notin Busy
  BY <1>1, <1>2 DEF Working, Busy
<1>6. verifying' = Cardinality(Busy') /\ verifying' <= maxConcurrentProofs
  BY <1>1, <1>4, <1>5, BusyMoves, ConnectionTypes
<1>7. \A d \in challenged : Settled(d) => Settled(d)'
  BY <1>1 DEF Settled
<1>8. \A d \in challenged' : d.session \in 1 .. service /\ d.expiresAt \in Nat
  BY <1>1, <1>3 DEF ProfileInv, ProfileTypes
<1> QED
  BY <1>1, <1>2, <1>3, <1>4, <1>6, <1>7, <1>8, ConnectionKeeps

LEMMA ProfileRead ==
    ASSUME ProfileInv, NEW k \in Connections, NEW c \in challenged, Profile!Read(k, c)
    PROVE  ProfileInv'
<1> DEFINE x == Profile!At("verifying", served[k].service, c)
<1>1. /\ served[k].phase = "read" /\ served' = [served EXCEPT ![k] = x]
      /\ verifying < maxConcurrentProofs /\ verifying' = verifying + 1
      /\ consumed' = Profile!Remembered
      /\ UNCHANGED <<profileNow, service, serving, lease, publications, session, challenged, answers>>
  BY DEF Profile!Read, Profile!To, Profile!wireVars
<1>2. x.phase = "verifying" /\ x.challenge = c /\ x.service >= 1 /\ x \in Connection'
  BY <1>1, ConnectionTypes DEF Profile!At, Connection
<1> HIDE DEF x
<1>3. x.phase \in Working /\ k \notin Busy
  BY <1>1, <1>2 DEF Working, Busy
<1>4. verifying' = Cardinality(Busy') /\ verifying' <= maxConcurrentProofs
  <2>1. verifying' = Cardinality(Busy')
    BY <1>1, <1>3, BusyMoves
  <2> QED
    BY <1>1, <2>1, ConnectionTypes, ProfileNumbers
<1>5. \A d \in challenged : d.expiresAt \in Nat /\ profileNow \in Nat
  BY DEF ProfileInv, ProfileTypes
<1>6. \A d \in challenged : Settled(d) => Settled(d)'
  BY <1>1, <1>5 DEF Settled, Profile!Remembered
<1>7. \A d \in challenged' : d.session \in 1 .. service /\ d.expiresAt \in Nat
  BY <1>1 DEF ProfileInv, ProfileTypes
<1> QED
  BY <1>1, <1>2, <1>4, <1>6, <1>7, ConnectionKeeps

LEMMA ProfileFail ==
    ASSUME ProfileInv, NEW k \in Connections, Profile!Fail(k) PROVE ProfileInv'
<1>1. /\ served' = [served EXCEPT ![k] = Profile!Closed]
      /\ verifying' = IF k \in Busy THEN verifying - 1 ELSE verifying
      /\ UNCHANGED <<profileNow, service, serving, lease, publications, session, consumed,
                     challenged, answers>>
  BY DEF Profile!Fail, Profile!End, Profile!Freed, Profile!wireVars, Busy, Working
<1>2. Profile!Closed.phase = "closed" /\ Profile!Closed \in Connection'
  BY ProfileNumbers DEF Profile!Closed, Connection
<1>3. Profile!Closed.phase \notin Working
  BY <1>2 DEF Working
<1>4. verifying' = Cardinality(Busy')
  BY <1>1, <1>3, BusyMoves
<1>5. verifying' <= maxConcurrentProofs
  BY <1>1, ConnectionTypes, ProfileNumbers
<1>6. \A d \in challenged : Settled(d) => Settled(d)'
  BY <1>1 DEF Settled
<1>7. \A d \in challenged' : d.session \in 1 .. service /\ d.expiresAt \in Nat
  BY <1>1 DEF ProfileInv, ProfileTypes
<1> QED
  BY <1>1, <1>2, <1>4, <1>5, <1>6, <1>7, ConnectionKeeps

(* The challenge is claimed by the one connection that finds it unclaimed. *)
LEMMA ProfileVerified ==
    ASSUME ProfileInv, NEW k \in Connections, Profile!Verified(k) PROVE ProfileInv'
<1> DEFINE c == served[k].challenge
           x == Profile!At("answering", served[k].service, c)
<1>1. /\ served[k].phase = "verifying" /\ served' = [served EXCEPT ![k] = x]
      /\ c.session = session /\ profileNow < c.expiresAt /\ c \notin Profile!Remembered
      /\ consumed' = Profile!Remembered \cup {c}
      /\ UNCHANGED <<profileNow, service, serving, lease, publications, session, verifying,
                     challenged, answers>>
  BY DEF Profile!Verified, Profile!Matches, Profile!FreshChallenge, Profile!Unconsumed, Profile!To,
     Profile!wireVars
<1>2. k \in Busy /\ c \in challenged
  BY <1>1 DEF ProfileInv, ProofsCounted, Busy, Working
<1>3. x.phase = "answering" /\ x.challenge = c /\ x.service >= 1 /\ x \in Connection
  BY <1>1, <1>2, ConnectionTypes DEF Profile!At, Connection
<1> HIDE DEF x
<1>4. \A d \in challenged : d.expiresAt \in Nat /\ profileNow \in Nat
  BY DEF ProfileInv, ProfileTypes
<1>5. ~ Settled(c)
  BY <1>1, <1>2, <1>4 DEF Settled, Profile!Remembered
<1>6. \A d \in challenged : Settled(d) => Settled(d)'
  BY <1>1, <1>4 DEF Settled, Profile!Remembered
<1>7. /\ served'[k] = x /\ \A l \in Connections : l # k => served'[l] = served[l]
      /\ Busy' = Busy /\ IsFiniteSet(Busy') /\ Cardinality(Busy') = verifying
  <2>1. x.phase \in Working /\ Busy \cup {k} = Busy
    BY <1>2, <1>3 DEF Working
  <2> QED
    BY <1>1, <1>2, <2>1, BusyMoves
<1> HIDE DEF c
<1>8. ProfileTypes'
  <2>1. Connection' = Connection
    BY <1>1 DEF Connection
  <2> QED
    BY <1>1, <1>3, <2>1 DEF ProfileInv, ProfileTypes
<1>9. ServiceOpen'
  BY <1>1 DEF ProfileInv, ServiceOpen
<1>10. ProofsCounted'
  <2>1. \A l \in Connections : served'[l].phase # "closed" => served'[l].service >= 1
    BY <1>3, <1>7 DEF ProfileInv, ProofsCounted
  <2>2. \A l \in Busy' : served'[l].challenge \in challenged'
    BY <1>1, <1>2, <1>3, <1>7 DEF ProfileInv, ProofsCounted, Busy
  <2> QED
    BY <1>1, <1>7, <2>1, <2>2 DEF ProfileInv, ProofsCounted
<1>11. AnswersApart'
  <2>1. /\ \A l \in Connections : l # k /\ Answering(l)' => Answering(l) /\ served'[l] = served[l]
        /\ Answering(k)' /\ ~ Answering(k) /\ served'[k].challenge = c
    BY <1>1, <1>3, <1>7 DEF Answering
  <2>2. \A i \in 1 .. Len(answers) : answers[i] \in challenged /\ Settled(answers[i])
    BY DEF ProfileInv, ProfileTypes, AnswersApart
  <2>3. \A l \in Connections : Answering(l) =>
            served[l].challenge \in challenged /\ Settled(served[l].challenge)
    BY DEF ProfileInv, ProofsCounted, AnswersApart, Answering, Busy, Working
  <2>4. \A i \in 1 .. Len(answers) : answers[i] # c
    BY <1>5, <2>2
  <2>5. \A l \in Connections : Answering(l) => served[l].challenge # c
    BY <1>5, <2>3
  <2>6. ASSUME NEW i \in 1 .. Len(answers) PROVE Settled(answers[i])'
    <3>1. answers' = answers /\ answers[i] \in challenged /\ Settled(answers[i])
      BY <1>1, <2>2
    <3> QED
      BY <1>1, <1>4, <3>1 DEF Settled, Profile!Remembered
  <2>7. ASSUME NEW l \in Connections, Answering(l)' PROVE Settled(served[l].challenge)'
    <3>1. CASE l = k
      BY <1>1, <2>1, <3>1 DEF Settled
    <3>2. CASE l # k
      <4>1. /\ served'[l] = served[l] /\ served[l].challenge \in challenged
            /\ Settled(served[l].challenge)
        BY <2>1, <2>3, <2>7, <3>2
      <4> QED
        BY <1>1, <1>4, <4>1 DEF Settled, Profile!Remembered
    <3> QED
      BY <3>1, <3>2
  <2>8. ASSUME NEW l \in Connections, Answering(l)'
        PROVE  \A i \in 1 .. Len(answers') : answers'[i] # served'[l].challenge
    BY <1>1, <2>1, <2>4, <2>8 DEF ProfileInv, AnswersApart
  <2>9. ASSUME NEW l \in Connections, NEW h \in Connections, Answering(l)', Answering(h)',
               served'[h].challenge = served'[l].challenge
        PROVE  h = l
    BY <2>1, <2>5, <2>9 DEF ProfileInv, AnswersApart
  <2>10. \A i, j \in 1 .. Len(answers) : answers'[i] = answers'[j] => i = j
    BY <1>1 DEF ProfileInv, AnswersApart
  <2>11. answers' = answers
    BY <1>1
  <2> QED
    BY <2>6, <2>7, <2>8, <2>9, <2>10, <2>11 DEF AnswersApart
<1> QED
  BY <1>8, <1>9, <1>10, <1>11 DEF ProfileInv

LEMMA ProfileAnswer ==
    ASSUME ProfileInv, NEW k \in Connections, Profile!Answer(k) PROVE ProfileInv'
<1> DEFINE c == served[k].challenge
           n == Len(answers) + 1
<1>1. /\ served[k].phase = "answering" /\ served' = [served EXCEPT ![k] = Profile!Closed]
      /\ verifying' = verifying - 1 /\ answers' = Append(answers, c)
      /\ UNCHANGED <<profileNow, service, serving, lease, publications, session, consumed, challenged>>
  BY DEF Profile!Answer, Profile!End, Profile!wireVars
<1>2. k \in Busy /\ c \in challenged /\ Answering(k)
  BY <1>1 DEF ProfileInv, ProofsCounted, Busy, Working, Answering
<1>3. Profile!Closed.phase = "closed" /\ Profile!Closed \in Connection
  BY ProfileNumbers DEF Profile!Closed, Connection
<1>4. /\ served'[k] = Profile!Closed /\ \A l \in Connections : l # k => served'[l] = served[l]
      /\ Busy' = Busy \ {k} /\ IsFiniteSet(Busy') /\ Cardinality(Busy') = verifying'
  <2>1. Profile!Closed.phase \notin Working
    BY <1>3 DEF Working
  <2> QED
    BY <1>1, <1>2, <2>1, BusyMoves
<1>5. /\ answers \in Seq(challenged) /\ Len(answers) \in Nat /\ answers' \in Seq(challenged)
      /\ Len(answers') = n /\ answers'[n] = c
      /\ \A i \in 1 .. Len(answers) : answers'[i] = answers[i]
      /\ 1 .. Len(answers') = 1 .. Len(answers) \cup {n}
  <2>1. answers \in Seq(challenged)
    BY DEF ProfileInv, ProfileTypes
  <2> QED
    BY <1>1, <1>2, <2>1
<1> HIDE DEF c
<1>6. ProfileTypes'
  <2>1. Connection' = Connection
    BY <1>1 DEF Connection
  <2> QED
    BY <1>1, <1>3, <1>5, <2>1 DEF ProfileInv, ProfileTypes
<1>7. ServiceOpen'
  BY <1>1 DEF ProfileInv, ServiceOpen
<1>8. ProofsCounted'
  <2>1. \A l \in Connections : served'[l].phase # "closed" => served'[l].service >= 1
    BY <1>3, <1>4 DEF ProfileInv, ProofsCounted
  <2>2. \A l \in Busy' : served'[l].challenge \in challenged'
    BY <1>1, <1>4 DEF ProfileInv, ProofsCounted, Busy
  <2>3. verifying' <= maxConcurrentProofs
    BY <1>1, ConnectionTypes, ProfileNumbers
  <2> QED
    BY <1>4, <2>1, <2>2, <2>3 DEF ProofsCounted
<1>9. AnswersApart'
  <2>1. \A l \in Connections : Answering(l)' => l # k /\ Answering(l) /\ served'[l] = served[l]
    BY <1>3, <1>4 DEF Answering
  <2>2. /\ c = served[k].challenge /\ Settled(c)
        /\ \A i \in 1 .. Len(answers) : answers[i] # c
        /\ \A l \in Connections : Answering(l) /\ served[l].challenge = c => l = k
    BY <1>2 DEF ProfileInv, AnswersApart, c
  <2> HIDE DEF n
  <2>3. ASSUME NEW i \in 1 .. Len(answers') PROVE Settled(answers[i])'
    <3>1. CASE i = n
      BY <1>1, <1>5, <2>2, <3>1 DEF Settled
    <3>2. CASE i \in 1 .. Len(answers)
      <4>1. answers'[i] = answers[i] /\ Settled(answers[i])
        BY <1>5, <3>2 DEF ProfileInv, AnswersApart
      <4> QED
        BY <1>1, <4>1 DEF Settled
    <3> QED
      BY <1>5, <3>1, <3>2
  <2>4. \A i, j \in 1 .. Len(answers') : answers'[i] = answers'[j] => i = j
    BY <1>5, <2>2 DEF ProfileInv, AnswersApart
  <2>5. ASSUME NEW l \in Connections, Answering(l)' PROVE Settled(served[l].challenge)'
    <3>1. served'[l] = served[l] /\ Settled(served[l].challenge)
      BY <2>1, <2>5 DEF ProfileInv, AnswersApart
    <3> QED
      BY <1>1, <3>1 DEF Settled
  <2>6. ASSUME NEW l \in Connections, Answering(l)'
        PROVE  \A i \in 1 .. Len(answers') : answers'[i] # served'[l].challenge
    <3>1. /\ l # k /\ Answering(l) /\ served'[l] = served[l] /\ served[l].challenge # c
      BY <2>1, <2>2, <2>6
    <3>2. \A i \in 1 .. Len(answers) : answers'[i] # served'[l].challenge
      BY <1>5, <3>1 DEF ProfileInv, AnswersApart
    <3> QED
      BY <1>5, <3>1, <3>2
  <2>7. ASSUME NEW l \in Connections, NEW h \in Connections, Answering(l)', Answering(h)',
               served'[h].challenge = served'[l].challenge
        PROVE  h = l
    BY <2>1, <2>7 DEF ProfileInv, AnswersApart
  <2> QED
    BY <2>3, <2>4, <2>5, <2>6, <2>7 DEF AnswersApart
<1> QED
  BY <1>6, <1>7, <1>8, <1>9 DEF ProfileInv

LEMMA ProfileStep == ASSUME ProfileInv, [Profile!Next]_profileVars PROVE ProfileInv'
<1>1. CASE UNCHANGED profileVars
  <2>1. UNCHANGED <<profileNow, service, serving, lease, publications, session, consumed,
                    verifying, served, challenged, answers>>
    BY <1>1 DEF profileVars
  <2>2. ProfileTypes' /\ ServiceOpen'
    BY <2>1 DEF ProfileInv, ProfileTypes, ServiceOpen, Connection
  <2>3. \A c \in challenged : Settled(c) => Settled(c)'
    BY <2>1 DEF Settled
  <2> QED
    BY <2>1, <2>2, <2>3, ServiceKeeps
<1>2. CASE Profile!Next
  BY <1>2, ServiceSteps, ProfileConnect, ProfileChallenge, ProfileRead, ProfileVerified,
     ProfileAnswer, ProfileFail DEF Profile!Next
<1> QED
  BY <1>1, <1>2

LEMMA ProfileHolds ==
    ASSUME ProfileInv PROVE Profile!NothingLeaks /\ Profile!AnsweredOnce
<1>1. {k \in Connections : served[k].phase \in {"verifying", "answering"}} = Busy
  BY DEF Busy, Working
<1>2. Profile!NothingLeaks
  BY <1>1, SameCardinality DEF ProfileInv, ServiceOpen, ProofsCounted, Profile!NothingLeaks
<1>3. DOMAIN answers = 1 .. Len(answers)
  BY DEF ProfileInv, ProfileTypes
<1> QED
  BY <1>2, <1>3 DEF ProfileInv, AnswersApart, Profile!AnsweredOnce, Profile!IsInjective
-----------------------------------------------------------------------------
ReleaseInv == MeetingInv /\ ProfileInv /\ RuntimeInv

(* What a session holds is given back with it, through expiries, late      *)
(* answers and failures: its place in the directory (rendezvous.js:101),   *)
(* its publication and its proof's slot (wire.js:122, protocol.js:248),    *)
(* and a backend with its runtime (runtime.mjs:60-114).                    *)
THEOREM HeldIsReleased == PartsSpec => []Released
<1>1. Init => ReleaseInv
  BY MeetingInit, ProfileInit, RuntimeInit DEF Init, ReleaseInv
<1>2. ReleaseInv /\ [Next]_partsVars => ReleaseInv'
  BY StepsOfParts, MeetingStep, ProfileStep, RuntimeStep DEF ReleaseInv
<1>3. ReleaseInv => Released
  BY MeetingHolds, ProfileHolds, RuntimeHolds DEF ReleaseInv, Released
<1> QED
  BY <1>1, <1>2, <1>3, PTL DEF PartsSpec
-----------------------------------------------------------------------------
(* Directional receipts.  The counters are the rows of their cohort.       *)
SentIn(c, m) == {q \in authorizations : q.cohort = c /\ q.sender = m}
ReceivedIn(c, m) == {x \in spends : x.cohort = c /\ x.receipt.member = m}

ReceiptTypes ==
    /\ receiptFloor \in Nat /\ keys \subseteq Services
    /\ sent \in [Cohorts -> [Members -> Nat]] /\ received \in [Cohorts -> [Members -> Nat]]
    /\ authorizations \subseteq Requests /\ IsFiniteSet(authorizations) /\ IsFiniteSet(spends)
    /\ issuing = [h \in IssueHandlers |-> issuing[h]]
    /\ \A h \in IssueHandlers : issuing[h] # Idle =>
        /\ issuing[h].service \in keys /\ issuing[h].request \in Requests
        /\ issuing[h].service.cohort = issuing[h].request.cohort

KeysApart == \A k, l \in keys : k.key = l.key \/ k.cohort = l.cohort => k = l

(* A registered cohort that has gone never comes back. *)
CohortsKept ==
    /\ \A k \in keys : k.cohort \in cohorts \/ k.redeemUntil <= receiptFloor
    /\ \A c \in cohorts : \E k \in keys : k.cohort = c
    /\ \A q \in authorizations : q.cohort \in cohorts
    /\ \A x \in spends : x.cohort \in cohorts

CountersKept ==
    /\ \A c \in Cohorts, m \in Members :
        sent[c][m] = Cardinality(SentIn(c, m)) /\ received[c][m] = Cardinality(ReceivedIn(c, m))
    /\ \A k \in keys, m \in Members :
        sent[k.cohort][m] <= k.maxSend /\ received[k.cohort][m] <= k.maxReceive

SamePair(x, y) == x.sender = y.sender /\ x.prover = y.prover

NullifiersKept ==
    /\ \A q \in authorizations \cup signed : <<q.sender, q.prover>> \in nullifiers
    /\ \A p, q \in authorizations : SamePair(p, q) => p = q
    /\ \A x \in signed, q \in authorizations : SamePair(x, q) =>
        x.blinded = q.blinded /\ \E k \in keys : k.key = x.key /\ k.cohort = q.cohort
    /\ \A x \in signed :
        x = [key |-> x.key, blinded |-> x.blinded, sender |-> x.sender, prover |-> x.prover]
    /\ Receipt!ReceiptOnce

(* What a key signed was authorized in its cohort, and so is what is spent. *)
AuthorizedIn(c, blinded) == \E q \in authorizations : q.cohort = c /\ q.blinded = blinded
SignaturesAuthorized == \A x \in signed : \E k \in keys :
    k.key = x.key /\ (k.cohort \in cohorts => AuthorizedIn(k.cohort, x.blinded))
SpendsAuthorized == \A x \in spends :
    x = [cohort |-> x.cohort, receipt |-> x.receipt] /\ AuthorizedIn(x.cohort, x.receipt)

ReceiptInv ==
    /\ ReceiptTypes /\ KeysApart /\ CohortsKept /\ CountersKept /\ NullifiersKept
    /\ SignaturesAuthorized /\ SpendsAuthorized

LEMMA ReceiptNumbers ==
    /\ ReceiptTimes \subseteq Nat
    /\ \A s \in Services : /\ s.cohort \in Cohorts /\ s.redeemUntil \in Nat
                           /\ s.maxSend \in Nat /\ s.maxReceive \in Nat
    /\ \A r \in Requests : r.sender \in Members
    /\ \A d \in Redemptions : d.blinded.member \in Members
BY AcknowledgementConstants DEF Receipt!ReceiptConstants

LEMMA ReceiptInit == ASSUME Receipt!Init PROVE ReceiptInv
<1> USE DEF Receipt!Init
<1>1. ReceiptTypes
  BY FS_EmptySet DEF ReceiptTypes
<1>2. \A c, m : SentIn(c, m) = {} /\ ReceivedIn(c, m) = {}
  BY DEF SentIn, ReceivedIn
<1>3. CountersKept
  BY <1>2, FS_EmptySet DEF CountersKept
<1>4. NullifiersKept
  BY DEF NullifiersKept, Receipt!ReceiptOnce
<1> QED
  BY <1>1, <1>3, <1>4 DEF ReceiptInv, KeysApart, CohortsKept, SignaturesAuthorized,
     SpendsAuthorized

LEMMA RowsFinite ==
    ASSUME ReceiptTypes, NEW c, NEW m
    PROVE  IsFiniteSet(SentIn(c, m)) /\ IsFiniteSet(ReceivedIn(c, m))
<1>1. SentIn(c, m) \subseteq authorizations /\ ReceivedIn(c, m) \subseteq spends
  BY DEF SentIn, ReceivedIn
<1> QED
  BY <1>1, FS_Subset DEF ReceiptTypes

(* A configuration registers: its cohort is new, or this one had it before. *)
LEMMA ReceiptRegister ==
    ASSUME ReceiptInv, NEW s \in Services, Receipt!Register(s)
    PROVE  ReceiptInv'
<1>1. /\ Receipt!KeyFree(s) /\ keys' = keys \cup {s}
      /\ cohorts' = IF s.redeemUntil > receiptFloor THEN cohorts \cup {s.cohort} ELSE cohorts
      /\ UNCHANGED <<receiptFloor, sent, received, authorizations, nullifiers, spends, issuing, signed>>
  BY DEF Receipt!Register, Receipt!RegisterKey
<1>2. \A k \in keys : k.key = s.key \/ k.cohort = s.cohort => k = s
  BY <1>1 DEF Receipt!KeyFree
<1>3. s.redeemUntil \in Nat /\ receiptFloor \in Nat /\ s.maxSend \in Nat /\ s.maxReceive \in Nat
      /\ s.cohort \in Cohorts
  BY ReceiptNumbers DEF ReceiptInv, ReceiptTypes
<1>4. cohorts \subseteq cohorts' /\ \A c \in cohorts' : c \in cohorts \/ c = s.cohort
  BY <1>1
<1>5. \A k \in keys : k.cohort \in cohorts' => k.cohort \in cohorts
  BY <1>1, <1>2, <1>3 DEF ReceiptInv, CohortsKept
<1>6. ReceiptTypes'
  BY <1>1 DEF ReceiptInv, ReceiptTypes
<1>7. KeysApart'
  BY <1>1, <1>2 DEF ReceiptInv, KeysApart
<1>8. CohortsKept'
  <2>1. \A k \in keys' : k.cohort \in cohorts' \/ k.redeemUntil <= receiptFloor'
    BY <1>1, <1>3, <1>4 DEF ReceiptInv, CohortsKept
  <2> QED
    BY <1>1, <1>4, <2>1 DEF ReceiptInv, CohortsKept
<1>9. \A c, m : SentIn(c, m)' = SentIn(c, m) /\ ReceivedIn(c, m)' = ReceivedIn(c, m)
  BY <1>1 DEF SentIn, ReceivedIn
<1>10. CountersKept'
  <2>1. s \notin keys => \A m : SentIn(s.cohort, m) = {} /\ ReceivedIn(s.cohort, m) = {}
    BY <1>2 DEF ReceiptInv, CohortsKept, SentIn, ReceivedIn
  <2>2. s \notin keys => \A m \in Members : sent[s.cohort][m] = 0 /\ received[s.cohort][m] = 0
    BY <1>3, <2>1, FS_EmptySet DEF ReceiptInv, CountersKept
  <2>3. \A k \in keys', m \in Members :
          sent[k.cohort][m] <= k.maxSend /\ received[k.cohort][m] <= k.maxReceive
    BY <1>1, <1>3, <2>2 DEF ReceiptInv, CountersKept
  <2> QED
    BY <1>1, <1>9, <2>3 DEF ReceiptInv, CountersKept
<1>11. NullifiersKept'
  BY <1>1 DEF ReceiptInv, NullifiersKept, Receipt!ReceiptOnce
<1>12. SignaturesAuthorized' /\ SpendsAuthorized'
  BY <1>1, <1>5 DEF ReceiptInv, SignaturesAuthorized, SpendsAuthorized, AuthorizedIn
<1> QED
  BY <1>6, <1>7, <1>8, <1>10, <1>11, <1>12 DEF ReceiptInv

(* The clock moves and a handler begins or ends; nothing else changes. *)
LEMMA ReceiptIdle ==
    ASSUME ReceiptInv, ReceiptTypes', receiptFloor <= receiptFloor',
           UNCHANGED <<keys, cohorts, sent, received, authorizations, nullifiers, spends, signed>>
    PROVE  ReceiptInv'
<1>1. \A c, m : SentIn(c, m)' = SentIn(c, m) /\ ReceivedIn(c, m)' = ReceivedIn(c, m)
  BY DEF SentIn, ReceivedIn
<1>2. KeysApart' /\ CountersKept'
  BY <1>1 DEF ReceiptInv, KeysApart, CountersKept
<1>3. CohortsKept'
  BY ReceiptNumbers DEF ReceiptInv, ReceiptTypes, CohortsKept
<1>4. NullifiersKept' /\ SignaturesAuthorized' /\ SpendsAuthorized'
  BY DEF ReceiptInv, NullifiersKept, Receipt!ReceiptOnce, SignaturesAuthorized,
     SpendsAuthorized, AuthorizedIn
<1> QED
  BY <1>2, <1>3, <1>4 DEF ReceiptInv

(* A signature leaves for a request that is recorded, now or before.       *)
LEMMA SignatureLeaves ==
    ASSUME ReceiptInv, NEW s \in keys, NEW r \in Requests, s.cohort = r.cohort,
           \/ r \in authorizations /\ UNCHANGED <<authorizations, nullifiers>>
           \/ /\ Receipt!NullifierUnused(r) /\ authorizations' = authorizations \cup {r}
              /\ nullifiers' = nullifiers \cup {<<r.sender, r.prover>>},
           signed' = signed \/ signed' = signed \cup {Receipt!Signature(s, r)},
           UNCHANGED <<keys, cohorts>>
    PROVE  NullifiersKept' /\ SignaturesAuthorized'
<1> DEFINE new == Receipt!Signature(s, r)
<1>1. /\ new = [key |-> new.key, blinded |-> new.blinded, sender |-> new.sender, prover |-> new.prover]
      /\ new.key = s.key /\ new.blinded = r.blinded /\ new.sender = r.sender /\ new.prover = r.prover
  BY DEF Receipt!Signature
<1>2. signed' = signed \/ signed' = signed \cup {new}
  OBVIOUS
<1> HIDE DEF new
<1>3. /\ authorizations' = authorizations \cup {r}
      /\ nullifiers' = nullifiers \cup {<<r.sender, r.prover>>}
      /\ r \in authorizations \/ Receipt!NullifierUnused(r)
  BY DEF ReceiptInv, NullifiersKept
<1>4. r \notin authorizations => \A q \in authorizations \cup signed : ~ SamePair(q, r)
  BY <1>3 DEF ReceiptInv, NullifiersKept, SamePair, Receipt!NullifierUnused
<1>5. \A q \in authorizations : SamePair(q, r) => q = r
  BY <1>4 DEF ReceiptInv, NullifiersKept
<1>6. \A x \in signed : SamePair(x, r) => x = new
  <2> TAKE x \in signed
  <2> HAVE SamePair(x, r)
  <2>1. r \in authorizations
    BY <1>4
  <2>2. x.blinded = r.blinded /\ \E k \in keys : k.key = x.key /\ k.cohort = r.cohort
    BY <2>1 DEF ReceiptInv, NullifiersKept
  <2>3. x.key = s.key
    BY <2>2 DEF ReceiptInv, KeysApart
  <2>4. x = [key |-> x.key, blinded |-> x.blinded, sender |-> x.sender, prover |-> x.prover]
    BY DEF ReceiptInv, NullifiersKept
  <2> QED
    BY <1>1, <2>2, <2>3, <2>4 DEF SamePair
<1>7. NullifiersKept'
  <2>1. \A q \in authorizations' \cup signed' : <<q.sender, q.prover>> \in nullifiers'
    BY <1>1, <1>2, <1>3 DEF ReceiptInv, NullifiersKept
  <2>2. \A p, q \in authorizations' : SamePair(p, q) => p = q
    BY <1>3, <1>5 DEF ReceiptInv, NullifiersKept, SamePair
  <2>3. ASSUME NEW x \in signed', NEW q \in authorizations', SamePair(x, q)
        PROVE  x.blinded = q.blinded /\ \E k \in keys : k.key = x.key /\ k.cohort = q.cohort
    <3>1. CASE x = new
      BY <1>1, <1>3, <1>5, <2>3, <3>1 DEF SamePair
    <3>2. CASE x \in signed /\ q \in authorizations
      BY <2>3, <3>2 DEF ReceiptInv, NullifiersKept
    <3>3. CASE x \in signed /\ q = r
      BY <1>1, <1>6, <2>3, <3>3
    <3> QED
      BY <1>2, <1>3, <3>1, <3>2, <3>3
  <2>4. \A x \in signed' :
          x = [key |-> x.key, blinded |-> x.blinded, sender |-> x.sender, prover |-> x.prover]
    BY <1>1, <1>2 DEF ReceiptInv, NullifiersKept
  <2>5. Receipt!ReceiptOnce'
    BY <1>1, <1>2, <1>6 DEF ReceiptInv, NullifiersKept, SamePair, Receipt!ReceiptOnce
  <2> QED
    BY <2>1, <2>2, <2>3, <2>4, <2>5 DEF NullifiersKept, SamePair
<1>8. \A c, b : AuthorizedIn(c, b) => AuthorizedIn(c, b)'
  BY <1>3 DEF AuthorizedIn
<1>9. AuthorizedIn(s.cohort, new.blinded)'
  BY <1>1, <1>3 DEF AuthorizedIn
<1>10. SignaturesAuthorized'
  <2>1. \A x \in signed : \E k \in keys :
          k.key = x.key /\ (k.cohort \in cohorts => AuthorizedIn(k.cohort, x.blinded)')
    BY <1>8 DEF ReceiptInv, SignaturesAuthorized
  <2>2. \A x \in signed' : \E k \in keys' :
          k.key = x.key /\ (k.cohort \in cohorts' => AuthorizedIn(k.cohort, x.blinded)')
    BY <1>1, <1>2, <1>9, <2>1
  <2> QED
    BY <2>2 DEF SignaturesAuthorized
<1> QED
  BY <1>7, <1>10

LEMMA ReceiptRecover ==
    ASSUME ReceiptInv, NEW s \in keys, NEW r \in Requests, NEW now \in ReceiptTimes,
           Receipt!Recover(s, r, now)
    PROVE  ReceiptInv'
<1>1. /\ s.cohort = r.cohort /\ receiptFloor' = now /\ now >= receiptFloor
      /\ r \in authorizations /\ signed' = signed \cup {Receipt!Signature(s, r)}
      /\ UNCHANGED <<keys, cohorts, sent, received, authorizations, nullifiers, spends, issuing>>
  BY DEF Receipt!Recover, Receipt!AuthorizationShape, Receipt!Observes, Receipt!Recovered,
     Receipt!SameNonce, Receipt!ledger
<1>2. NullifiersKept' /\ SignaturesAuthorized'
  BY <1>1, SignatureLeaves
<1>3. ReceiptTypes' /\ receiptFloor <= receiptFloor'
  BY <1>1, ReceiptNumbers DEF ReceiptInv, ReceiptTypes
<1>4. CohortsKept'
  BY <1>1, <1>3, ReceiptNumbers DEF ReceiptInv, ReceiptTypes, CohortsKept
<1>5. \A c, m : SentIn(c, m)' = SentIn(c, m) /\ ReceivedIn(c, m)' = ReceivedIn(c, m)
  BY <1>1 DEF SentIn, ReceivedIn
<1>6. KeysApart' /\ CountersKept' /\ SpendsAuthorized'
  BY <1>1, <1>5 DEF ReceiptInv, KeysApart, CountersKept, SpendsAuthorized, AuthorizedIn
<1> QED
  BY <1>2, <1>3, <1>4, <1>6 DEF ReceiptInv

LEMMA ReceiptPreflight ==
    ASSUME ReceiptInv, NEW h \in IssueHandlers, NEW s \in keys, NEW r \in Requests,
           NEW now \in ReceiptTimes, Receipt!Preflight(h, s, r, now)
    PROVE  ReceiptInv'
<1> DEFINE call == [service |-> s, request |-> r]
<1>1. /\ s.cohort = r.cohort /\ receiptFloor' = now /\ now >= receiptFloor
      /\ issuing' = [issuing EXCEPT ![h] = call]
      /\ UNCHANGED <<keys, cohorts, sent, received, authorizations, nullifiers, spends, signed>>
  BY DEF Receipt!Preflight, Receipt!PreflightIssue, Receipt!AuthorizationShape,
     Receipt!Observes, Receipt!ledger
<1>2. call.service = s /\ call.request = r
  OBVIOUS
<1> HIDE DEF call
<1>3. ReceiptTypes' /\ receiptFloor <= receiptFloor'
  BY <1>1, <1>2, ReceiptNumbers DEF ReceiptInv, ReceiptTypes
<1> QED
  BY <1>1, <1>3, ReceiptIdle

(* The row of a new authorization is one more for its sender. *)
LEMMA RecordAuthorization ==
    ASSUME ReceiptInv, NEW s \in keys, NEW r \in Requests, s.cohort = r.cohort,
           r \notin authorizations, sent[s.cohort][r.sender] < s.maxSend,
           authorizations' = authorizations \cup {r},
           sent' = [sent EXCEPT ![s.cohort][r.sender] = @ + 1],
           UNCHANGED <<keys, received, spends>>
    PROVE  /\ sent' \in [Cohorts -> [Members -> Nat]]
           /\ CountersKept'
<1>1. s.cohort \in Cohorts /\ r.sender \in Members /\ s.maxSend \in Nat
  BY ReceiptNumbers DEF ReceiptInv, ReceiptTypes
<1>2. \A c, m : ReceivedIn(c, m)' = ReceivedIn(c, m)
  BY DEF ReceivedIn
<1>3. \A c, m : SentIn(c, m)' = IF c = s.cohort /\ m = r.sender THEN SentIn(c, m) \cup {r}
                                ELSE SentIn(c, m)
  BY DEF SentIn
<1>4. Cardinality(SentIn(s.cohort, r.sender) \cup {r}) = Cardinality(SentIn(s.cohort, r.sender)) + 1
  <2>1. r \notin SentIn(s.cohort, r.sender)
    BY DEF SentIn
  <2> QED
    BY <2>1, RowsFinite, FS_AddElement DEF ReceiptInv
<1>5. sent \in [Cohorts -> [Members -> Nat]]
  BY DEF ReceiptInv, ReceiptTypes
<1>6. \A c \in Cohorts, m \in Members : /\ sent[c][m] \in Nat
         /\ sent'[c][m] = IF c = s.cohort /\ m = r.sender THEN sent[c][m] + 1 ELSE sent[c][m]
  BY <1>1, <1>5
<1>7. sent' \in [Cohorts -> [Members -> Nat]]
  BY <1>1, <1>5
<1>8. ASSUME NEW c \in Cohorts, NEW m \in Members
      PROVE  /\ sent'[c][m] = Cardinality(SentIn(c, m)')
             /\ received'[c][m] = Cardinality(ReceivedIn(c, m)')
  <2>1. /\ sent[c][m] = Cardinality(SentIn(c, m))
        /\ received[c][m] = Cardinality(ReceivedIn(c, m))
    BY DEF ReceiptInv, CountersKept
  <2>2. CASE c = s.cohort /\ m = r.sender
    BY <1>2, <1>3, <1>4, <1>6, <2>1, <2>2
  <2>3. CASE ~ (c = s.cohort /\ m = r.sender)
    BY <1>2, <1>3, <1>6, <2>1, <2>3
  <2> QED
    BY <2>2, <2>3
<1>9. ASSUME NEW k \in keys, NEW m \in Members
      PROVE  sent'[k.cohort][m] <= k.maxSend /\ received'[k.cohort][m] <= k.maxReceive
  <2>1. /\ k.cohort \in Cohorts /\ k.maxSend \in Nat
        /\ sent[k.cohort][m] <= k.maxSend /\ received[k.cohort][m] <= k.maxReceive
    BY ReceiptNumbers DEF ReceiptInv, ReceiptTypes, CountersKept
  <2>2. k.cohort = s.cohort => k = s
    BY DEF ReceiptInv, KeysApart
  <2> QED
    BY <1>6, <2>1, <2>2
<1>10. CountersKept'
  BY <1>8, <1>9 DEF CountersKept
<1> QED
  BY <1>7, <1>10

LEMMA ReceiptIssue ==
    ASSUME ReceiptInv, NEW h \in IssueHandlers, NEW now \in ReceiptTimes, Receipt!Issue(h, now)
    PROVE  ReceiptInv'
<1> DEFINE s == issuing[h].service
           r == issuing[h].request
<1>1. s \in keys /\ r \in Requests /\ s.cohort = r.cohort
  BY DEF Receipt!Issue, ReceiptInv, ReceiptTypes
<1>2. /\ receiptFloor' = now /\ now >= receiptFloor
      /\ issuing' = [issuing EXCEPT ![h] = Idle]
      /\ signed' = signed \/ signed' = signed \cup {Receipt!Signature(s, r)}
      /\ \/ /\ r \in authorizations
            /\ UNCHANGED <<sent, authorizations, nullifiers>>
         \/ /\ Receipt!SameNonce(r) = {} /\ sent[s.cohort][r.sender] < s.maxSend
            /\ Receipt!NullifierUnused(r) /\ s.cohort \in cohorts
            /\ authorizations' = authorizations \cup {r}
            /\ nullifiers' = nullifiers \cup {<<r.sender, r.prover>>}
            /\ sent' = [sent EXCEPT ![s.cohort][r.sender] = @ + 1]
      /\ UNCHANGED <<keys, cohorts, received, spends>>
  BY DEF Receipt!Issue, Receipt!Observes, Receipt!Recovered, Receipt!SameNonce,
     Receipt!ledger, Receipt!CheckedAgain, Receipt!NewIssueAllowed
<1> HIDE DEF s, r
<1>3. NullifiersKept' /\ SignaturesAuthorized'
  BY <1>1, <1>2, SignatureLeaves
<1>4. sent' \in [Cohorts -> [Members -> Nat]] /\ CountersKept'
  <2>1. CASE r \in authorizations /\ UNCHANGED <<sent, authorizations>>
    <3>1. \A c, m : SentIn(c, m)' = SentIn(c, m) /\ ReceivedIn(c, m)' = ReceivedIn(c, m)
      BY <1>2, <2>1 DEF SentIn, ReceivedIn
    <3> QED
      BY <1>2, <2>1, <3>1 DEF ReceiptInv, ReceiptTypes, CountersKept
  <2>2. CASE r \notin authorizations
    BY <1>1, <1>2, <2>2, RecordAuthorization
  <2>3. Receipt!SameNonce(r) = {} => r \notin authorizations
    BY DEF Receipt!SameNonce
  <2> QED
    BY <1>2, <2>1, <2>2, <2>3
<1>5. /\ IsFiniteSet(authorizations') /\ authorizations' \subseteq Requests
      /\ authorizations \subseteq authorizations'
      /\ \A q \in authorizations' : q.cohort \in cohorts
  <2>1. authorizations' = authorizations \/ authorizations' = authorizations \cup {r}
    BY <1>2
  <2>2. IsFiniteSet(authorizations) /\ authorizations \subseteq Requests
    BY DEF ReceiptInv, ReceiptTypes
  <2>3. IsFiniteSet(authorizations')
    BY <2>1, <2>2, FS_AddElement
  <2>4. r \in authorizations \/ r.cohort \in cohorts
    BY <1>1, <1>2
  <2>5. \A q \in authorizations : q.cohort \in cohorts
    BY DEF ReceiptInv, CohortsKept
  <2> QED
    BY <1>1, <2>1, <2>2, <2>3, <2>4, <2>5
<1>6. ReceiptTypes'
  BY <1>2, <1>4, <1>5, ReceiptNumbers DEF ReceiptInv, ReceiptTypes
<1>7. CohortsKept'
  <2>1. receiptFloor \in Nat /\ now \in Nat
    BY ReceiptNumbers DEF ReceiptInv, ReceiptTypes
  <2>2. \A k \in keys : k.redeemUntil <= receiptFloor => k.redeemUntil <= now
    BY <1>2, <2>1, ReceiptNumbers DEF ReceiptInv, ReceiptTypes
  <2> QED
    BY <1>2, <1>5, <2>2 DEF ReceiptInv, CohortsKept
<1>8. KeysApart' /\ SpendsAuthorized'
  BY <1>2, <1>5 DEF ReceiptInv, KeysApart, SpendsAuthorized, AuthorizedIn
<1> QED
  BY <1>3, <1>4, <1>6, <1>7, <1>8 DEF ReceiptInv

LEMMA ReceiptIssueFails ==
    ASSUME ReceiptInv, NEW h \in IssueHandlers, NEW now \in ReceiptTimes,
           Receipt!IssueFails(h, now)
    PROVE  ReceiptInv'
<1>1. /\ receiptFloor' = now /\ now >= receiptFloor /\ issuing' = [issuing EXCEPT ![h] = Idle]
      /\ UNCHANGED <<keys, cohorts, sent, received, authorizations, nullifiers, spends, signed>>
  BY DEF Receipt!IssueFails, Receipt!Observes, Receipt!ledger
<1>2. ReceiptTypes' /\ receiptFloor <= receiptFloor'
  BY <1>1, ReceiptNumbers DEF ReceiptInv, ReceiptTypes
<1> QED
  BY <1>1, <1>2, ReceiptIdle

(* A receipt that is spent was authorized in this cohort, which is there.  *)
LEMMA RecordSpend ==
    ASSUME ReceiptInv, NEW s \in keys, NEW receipt, receipt.member \in Members,
           NEW x \in signed, x.key = s.key, x.blinded = receipt, s.cohort \in cohorts,
           Receipt!SpentAs(s, receipt) = {},
           received[s.cohort][receipt.member] < s.maxReceive,
           spends' = spends \cup {[cohort |-> s.cohort, receipt |-> receipt]},
           received' = [received EXCEPT ![s.cohort][receipt.member] = @ + 1],
           UNCHANGED <<keys, sent, authorizations>>
    PROVE  /\ received' \in [Cohorts -> [Members -> Nat]] /\ IsFiniteSet(spends')
           /\ CountersKept' /\ SpendsAuthorized'
           /\ \A y \in spends' : y \in spends \/ y.cohort = s.cohort
<1> DEFINE new == [cohort |-> s.cohort, receipt |-> receipt]
           mem == receipt.member
<1>1. /\ new = [cohort |-> new.cohort, receipt |-> new.receipt]
      /\ new.cohort = s.cohort /\ new.receipt = receipt /\ spends' = spends \cup {new}
  OBVIOUS
<1> HIDE DEF new
<1>2. /\ s.cohort \in Cohorts /\ mem \in Members /\ s.maxReceive \in Nat
      /\ received' = [received EXCEPT ![s.cohort][mem] = @ + 1]
      /\ received[s.cohort][mem] < s.maxReceive
      /\ new.receipt.member = mem
  BY <1>1, ReceiptNumbers DEF ReceiptInv, ReceiptTypes
<1> HIDE DEF mem
<1>3. new \notin spends
  BY <1>1 DEF Receipt!SpentAs
<1>4. AuthorizedIn(s.cohort, receipt)
  BY DEF ReceiptInv, SignaturesAuthorized, KeysApart
<1>5. SpendsAuthorized'
  BY <1>1, <1>4 DEF ReceiptInv, SpendsAuthorized, AuthorizedIn
<1>6. \A c, m : SentIn(c, m)' = SentIn(c, m)
  BY DEF SentIn
<1>7. \A c, m : ReceivedIn(c, m)' = IF c = s.cohort /\ m = mem THEN ReceivedIn(c, m) \cup {new}
                                    ELSE ReceivedIn(c, m)
  BY <1>1, <1>2 DEF ReceivedIn
<1>8. Cardinality(ReceivedIn(s.cohort, mem) \cup {new}) = Cardinality(ReceivedIn(s.cohort, mem)) + 1
  <2>1. new \notin ReceivedIn(s.cohort, mem)
    BY <1>3 DEF ReceivedIn
  <2> QED
    BY <2>1, RowsFinite, FS_AddElement DEF ReceiptInv
<1>9. received \in [Cohorts -> [Members -> Nat]]
  BY DEF ReceiptInv, ReceiptTypes
<1>10. \A c \in Cohorts, m \in Members : /\ received[c][m] \in Nat
         /\ received'[c][m] = IF c = s.cohort /\ m = mem THEN received[c][m] + 1 ELSE received[c][m]
  BY <1>2, <1>9
<1>11. received' \in [Cohorts -> [Members -> Nat]]
  BY <1>2, <1>9
<1>12. ASSUME NEW c \in Cohorts, NEW m \in Members
       PROVE  /\ sent'[c][m] = Cardinality(SentIn(c, m)')
              /\ received'[c][m] = Cardinality(ReceivedIn(c, m)')
  <2>1. /\ sent[c][m] = Cardinality(SentIn(c, m))
        /\ received[c][m] = Cardinality(ReceivedIn(c, m))
    BY DEF ReceiptInv, CountersKept
  <2>2. CASE c = s.cohort /\ m = mem
    BY <1>6, <1>7, <1>8, <1>10, <2>1, <2>2
  <2>3. CASE ~ (c = s.cohort /\ m = mem)
    BY <1>6, <1>7, <1>10, <2>1, <2>3
  <2> QED
    BY <2>2, <2>3
<1>13. ASSUME NEW k \in keys, NEW m \in Members
       PROVE  sent'[k.cohort][m] <= k.maxSend /\ received'[k.cohort][m] <= k.maxReceive
  <2>1. /\ k.cohort \in Cohorts /\ k.maxReceive \in Nat
        /\ sent[k.cohort][m] <= k.maxSend /\ received[k.cohort][m] <= k.maxReceive
    BY ReceiptNumbers DEF ReceiptInv, ReceiptTypes, CountersKept
  <2>2. k.cohort = s.cohort => k = s
    BY DEF ReceiptInv, KeysApart
  <2> QED
    BY <1>2, <1>10, <2>1, <2>2
<1>14. CountersKept'
  BY <1>12, <1>13 DEF CountersKept
<1>15. IsFiniteSet(spends')
  BY <1>1, FS_AddElement DEF ReceiptInv, ReceiptTypes
<1> QED
  BY <1>1, <1>5, <1>11, <1>14, <1>15

LEMMA ReceiptRedeem ==
    ASSUME ReceiptInv, NEW s \in keys, NEW d \in Redemptions, NEW now \in ReceiptTimes,
           Receipt!Redeem(s, d, now)
    PROVE  ReceiptInv'
<1> DEFINE receipt == d.blinded
<1>1. /\ receiptFloor' = now /\ now >= receiptFloor
      /\ \E x \in signed : x.key = s.key /\ x.blinded = receipt
      /\ \/ UNCHANGED <<received, spends>>
         \/ /\ Receipt!SpentAs(s, receipt) = {}
            /\ received[s.cohort][receipt.member] < s.maxReceive /\ s.cohort \in cohorts
            /\ spends' = spends \cup {[cohort |-> s.cohort, receipt |-> receipt]}
            /\ received' = [received EXCEPT ![s.cohort][receipt.member] = @ + 1]
      /\ UNCHANGED <<keys, cohorts, sent, authorizations, nullifiers, issuing, signed>>
  BY DEF Receipt!Redeem, Receipt!Spend, Receipt!Observes, Receipt!ledger
<1>2. CASE UNCHANGED <<received, spends>>
  <2>1. ReceiptTypes' /\ receiptFloor <= receiptFloor'
    BY <1>1, <1>2, ReceiptNumbers DEF ReceiptInv, ReceiptTypes
  <2> QED
    BY <1>1, <1>2, <2>1, ReceiptIdle
<1>3. CASE ~ UNCHANGED <<received, spends>>
  <2>1. receipt.member \in Members
    BY ReceiptNumbers
  <2>2. /\ received' \in [Cohorts -> [Members -> Nat]] /\ IsFiniteSet(spends')
        /\ CountersKept' /\ SpendsAuthorized'
        /\ \A y \in spends' : y \in spends \/ y.cohort = s.cohort
    BY <1>1, <1>3, <2>1, RecordSpend
  <2> HIDE DEF receipt
  <2>3. ReceiptTypes'
    BY <1>1, <2>2, ReceiptNumbers DEF ReceiptInv, ReceiptTypes
  <2>4. receiptFloor \in Nat /\ now \in Nat
    BY ReceiptNumbers DEF ReceiptInv, ReceiptTypes
  <2>5. \A k \in keys : k.redeemUntil <= receiptFloor => k.redeemUntil <= now
    BY <1>1, <2>4, ReceiptNumbers DEF ReceiptInv, ReceiptTypes
  <2>6. CohortsKept'
    BY <1>1, <1>3, <2>2, <2>5 DEF ReceiptInv, CohortsKept
  <2>7. KeysApart' /\ NullifiersKept' /\ SignaturesAuthorized'
    BY <1>1 DEF ReceiptInv, KeysApart, NullifiersKept, SignaturesAuthorized, AuthorizedIn,
       Receipt!ReceiptOnce
  <2> QED
    BY <2>2, <2>3, <2>6, <2>7 DEF ReceiptInv
<1> QED
  BY <1>2, <1>3

(* Pruning takes a cohort with all its rows, and leaves its key and its    *)
(* nullifiers.                                                             *)
LEMMA ReceiptPrune ==
    ASSUME ReceiptInv, NEW now \in ReceiptTimes, Receipt!PruneCohorts(now)
    PROVE  ReceiptInv'
<1> DEFINE gone == Receipt!Ended(now)
<1>1. /\ receiptFloor' = now /\ now >= receiptFloor
      /\ cohorts' = cohorts \ gone
      /\ authorizations' = {q \in authorizations : q.cohort \notin gone}
      /\ spends' = {x \in spends : x.cohort \notin gone}
      /\ sent' = [c \in Cohorts |-> IF c \in gone THEN [m \in Members |-> 0] ELSE sent[c]]
      /\ received' = [c \in Cohorts |-> IF c \in gone THEN [m \in Members |-> 0] ELSE received[c]]
      /\ nullifiers' = nullifiers
      /\ UNCHANGED <<keys, issuing, signed>>
  BY DEF Receipt!PruneCohorts, Receipt!NullifiersAfter, Receipt!Observes
<1>2. receiptFloor \in Nat /\ now \in Nat
  BY ReceiptNumbers DEF ReceiptInv, ReceiptTypes
<1>3. \A k \in keys : k.cohort \in gone => k.redeemUntil <= now
  BY DEF Receipt!Ended
<1> HIDE DEF gone
<1>4. authorizations' \subseteq authorizations /\ spends' \subseteq spends
  BY <1>1
<1>5. IsFiniteSet(authorizations') /\ IsFiniteSet(spends')
  BY <1>4, FS_Subset DEF ReceiptInv, ReceiptTypes
<1>6. sent' \in [Cohorts -> [Members -> Nat]] /\ received' \in [Cohorts -> [Members -> Nat]]
  BY <1>1 DEF ReceiptInv, ReceiptTypes
<1>7. ReceiptTypes'
  BY <1>1, <1>2, <1>4, <1>5, <1>6 DEF ReceiptInv, ReceiptTypes
<1>8. CohortsKept'
  <2>1. \A k \in keys : k.redeemUntil <= receiptFloor => k.redeemUntil <= now
    BY <1>1, <1>2, ReceiptNumbers DEF ReceiptInv, ReceiptTypes
  <2> QED
    BY <1>1, <1>3, <2>1 DEF ReceiptInv, CohortsKept
<1>9. ASSUME NEW c \in Cohorts, NEW m \in Members
      PROVE  /\ sent'[c][m] = Cardinality(SentIn(c, m)')
             /\ received'[c][m] = Cardinality(ReceivedIn(c, m)')
             /\ sent'[c][m] = sent[c][m] \/ sent'[c][m] = 0
             /\ received'[c][m] = received[c][m] \/ received'[c][m] = 0
  <2>1. CASE c \in gone
    <3>1. SentIn(c, m)' = {} /\ ReceivedIn(c, m)' = {}
      BY <1>1, <2>1 DEF SentIn, ReceivedIn
    <3>2. sent'[c][m] = 0 /\ received'[c][m] = 0
      BY <1>1, <2>1
    <3> QED
      BY <3>1, <3>2, FS_EmptySet
  <2>2. CASE c \notin gone
    <3>1. SentIn(c, m)' = SentIn(c, m) /\ ReceivedIn(c, m)' = ReceivedIn(c, m)
      BY <1>1, <2>2 DEF SentIn, ReceivedIn
    <3>2. sent'[c][m] = sent[c][m] /\ received'[c][m] = received[c][m]
      BY <1>1, <2>2
    <3> QED
      BY <3>1, <3>2 DEF ReceiptInv, CountersKept
  <2> QED
    BY <2>1, <2>2
<1>10. ASSUME NEW k \in keys, NEW m \in Members
       PROVE  sent'[k.cohort][m] <= k.maxSend /\ received'[k.cohort][m] <= k.maxReceive
  <2>1. /\ k.cohort \in Cohorts /\ 0 <= k.maxSend /\ 0 <= k.maxReceive
        /\ sent[k.cohort][m] <= k.maxSend /\ received[k.cohort][m] <= k.maxReceive
    BY ReceiptNumbers DEF ReceiptInv, ReceiptTypes, CountersKept
  <2> QED
    BY <1>9, <2>1
<1>11. CountersKept'
  BY <1>1, <1>9, <1>10 DEF CountersKept
<1>12. NullifiersKept'
  BY <1>1, <1>4 DEF ReceiptInv, NullifiersKept, Receipt!ReceiptOnce
<1>13. \A c, b : c \notin gone /\ AuthorizedIn(c, b) => AuthorizedIn(c, b)'
  BY <1>1 DEF AuthorizedIn
<1>14. SignaturesAuthorized'
  <2>1. \A x \in signed : \E k \in keys :
          k.key = x.key /\ (k.cohort \in cohorts' => AuthorizedIn(k.cohort, x.blinded)')
    BY <1>1, <1>13 DEF ReceiptInv, SignaturesAuthorized
  <2> QED
    BY <1>1, <2>1 DEF SignaturesAuthorized
<1>15. SpendsAuthorized'
  <2>1. \A x \in spends' : x.cohort \notin gone /\ x \in spends
    BY <1>1
  <2>2. \A x \in spends' : x = [cohort |-> x.cohort, receipt |-> x.receipt]
                           /\ AuthorizedIn(x.cohort, x.receipt)'
    BY <1>13, <2>1 DEF ReceiptInv, SpendsAuthorized
  <2> QED
    BY <2>2 DEF SpendsAuthorized
<1>16. KeysApart'
  BY <1>1 DEF ReceiptInv, KeysApart
<1> QED
  BY <1>7, <1>8, <1>11, <1>12, <1>14, <1>15, <1>16 DEF ReceiptInv

LEMMA ReceiptUnchanged == ASSUME ReceiptInv, UNCHANGED receiptVars PROVE ReceiptInv'
<1>1. ReceiptTypes' /\ receiptFloor <= receiptFloor'
  BY DEF ReceiptInv, ReceiptTypes, receiptVars
<1> QED
  BY <1>1, ReceiptIdle DEF receiptVars

LEMMA ReceiptStep == ASSUME ReceiptInv, [Receipt!Next]_receiptVars PROVE ReceiptInv'
<1>1. CASE UNCHANGED receiptVars
  BY <1>1, ReceiptUnchanged
<1>2. CASE Receipt!Next
  BY <1>2, ReceiptRegister, ReceiptRecover, ReceiptPreflight, ReceiptIssue, ReceiptIssueFails,
     ReceiptRedeem, ReceiptPrune DEF Receipt!Next
<1> QED
  BY <1>1, <1>2

(* Receipts of a cohort that are spent were authorized each in its own row. *)
LEMMA SpendsAreFewer ==
    ASSUME ReceiptInv, NEW c
    PROVE  Cardinality({x \in spends : x.cohort = c})
            <= Cardinality({q \in authorizations : q.cohort = c})
<1> DEFINE S == {x \in spends : x.cohort = c}
           T == {q \in authorizations : q.cohort = c}
           f == [x \in S |-> CHOOSE q \in T : q.blinded = x.receipt]
<1>1. \A x \in S : \E q \in T : q.blinded = x.receipt
  BY DEF ReceiptInv, SpendsAuthorized, AuthorizedIn
<1>2. \A x \in S : f[x] \in T /\ f[x].blinded = x.receipt
  BY <1>1
<1>3. \A x, y \in S : x.receipt = y.receipt => x = y
  BY DEF ReceiptInv, SpendsAuthorized
<1>4. f \in [S -> T]
  BY <1>2
<1>5. IsFiniteSet(T)
  BY FS_Subset DEF ReceiptInv, ReceiptTypes
<1> HIDE DEF f
<1>6. \A x, y \in S : f[x] = f[y] => x = y
  BY <1>2, <1>3
<1> HIDE DEF S, T
<1>7. f \in Injection(S, T)
  BY <1>4, <1>6 DEF Injection, IsInjective
<1>8. Cardinality(S) <= Cardinality(T)
  BY <1>5, <1>7, FS_Injection
<1> QED
  BY <1>8 DEF S, T

LEMMA ReceiptHolds == ASSUME ReceiptInv PROVE Receipt!ReceiptOnce /\ Receipt!ReceivedWereSent
<1>1. Receipt!ReceiptOnce
  BY DEF ReceiptInv, NullifiersKept
<1>2. ASSUME NEW s \in keys
      PROVE  Receipt!Cardinality({x \in spends : x.cohort = s.cohort})
                <= Receipt!Cardinality({q \in authorizations : q.cohort = s.cohort})
  BY SpendsAreFewer, SameCardinality
<1>3. ASSUME NEW s \in keys, NEW m \in Members
      PROVE  LET authorized == {q \in authorizations : q.cohort = s.cohort}
                 redeemed == {x \in spends : x.cohort = s.cohort}
             IN  /\ sent[s.cohort][m] = Receipt!Cardinality({q \in authorized : q.sender = m})
                 /\ received[s.cohort][m] =
                        Receipt!Cardinality({x \in redeemed : x.receipt.member = m})
                 /\ sent[s.cohort][m] <= s.maxSend /\ received[s.cohort][m] <= s.maxReceive
  <2> DEFINE authorized == {q \in authorizations : q.cohort = s.cohort}
             redeemed == {x \in spends : x.cohort = s.cohort}
  <2>1. /\ {q \in authorized : q.sender = m} = SentIn(s.cohort, m)
        /\ {x \in redeemed : x.receipt.member = m} = ReceivedIn(s.cohort, m)
    BY DEF SentIn, ReceivedIn
  <2>2. s.cohort \in Cohorts
    BY ReceiptNumbers DEF ReceiptInv, ReceiptTypes
  <2>3. /\ sent[s.cohort][m] = Cardinality(SentIn(s.cohort, m))
        /\ received[s.cohort][m] = Cardinality(ReceivedIn(s.cohort, m))
        /\ sent[s.cohort][m] <= s.maxSend /\ received[s.cohort][m] <= s.maxReceive
    BY <2>2 DEF ReceiptInv, CountersKept
  <2> QED
    BY <2>1, <2>3, SameCardinality
<1> QED
  BY <1>1, <1>2, <1>3 DEF Receipt!ReceivedWereSent
-----------------------------------------------------------------------------
(* Private reciprocity.  Bindings only grow, and a checkpoint's members    *)
(* were bound.                                                             *)
BoundIdentities == {b.identity : b \in bindings}
SignedCheckpoints ==
    [epoch : {Registry!EpochOf(now) : now \in RegistryTimes}, policy : Policies,
     notBefore : RegistryTimes, expiresAt : {Registry!EpochEnd(now) : now \in RegistryTimes},
     previous : Nat, commitments : SUBSET Identities]

RegistryTypes ==
    /\ bindings \subseteq [member : Holders, identity : Identities]
    /\ \A c \in challenges : c.member \in Holders /\ c.identity \in Identities
    /\ checkpoints \in Seq(SignedCheckpoints)

OneIdentityEach == \A b, c \in bindings : b.member = c.member <=> b.identity = c.identity

CommitmentsBound == \A n \in 1 .. Len(checkpoints) : checkpoints[n].commitments \subseteq BoundIdentities

(* An acknowledgement is between two members, both bound by then. *)
AcknowledgedBound == \A a \in acknowledged :
    /\ a = <<a[1], a[2]>> /\ a[2] \in BoundIdentities
    /\ Registry!IdentityOf(a[1]) # {} /\ a[2] \notin Registry!IdentityOf(a[1])

RegistryInv == RegistryTypes /\ OneIdentityEach /\ CommitmentsBound /\ AcknowledgedBound

LEMMA RegistryInit == ASSUME Registry!Init PROVE RegistryInv
BY DEF Registry!Init, RegistryInv, RegistryTypes, OneIdentityEach, CommitmentsBound,
    AcknowledgedBound

(* Bindings change by a new one at most. *)
LEMMA BindingsGrow ==
    ASSUME RegistryInv, NEW c, c.member \in Holders, c.identity \in Identities,
           Registry!Bindable(c),
           bindings' = {b \in bindings : b.member # c.member}
                        \cup {[member |-> c.member, identity |-> c.identity]},
           UNCHANGED <<challenges, checkpoints, acknowledged>>
    PROVE  RegistryInv'
<1> DEFINE new == [member |-> c.member, identity |-> c.identity]
<1>1. /\ new.member = c.member /\ new.identity = c.identity
      /\ new \in [member : Holders, identity : Identities]
  OBVIOUS
<1>2. \A b \in bindings : (b.identity = c.identity) <=> (b.member = c.member)
  BY DEF Registry!Bindable
<1>3. \A b \in bindings : b.member = c.member => b = new
  BY <1>2 DEF RegistryInv, RegistryTypes
<1> HIDE DEF new
<1>4. bindings' = bindings \cup {new}
  BY <1>3 DEF new
<1>5. RegistryTypes'
  BY <1>1, <1>4 DEF RegistryInv, RegistryTypes
<1>6. OneIdentityEach'
  BY <1>1, <1>2, <1>4 DEF RegistryInv, OneIdentityEach
<1>7. BoundIdentities \subseteq BoundIdentities'
  BY <1>4 DEF BoundIdentities
<1>8. CommitmentsBound'
  BY <1>7 DEF RegistryInv, CommitmentsBound
<1>9. \A m : Registry!IdentityOf(m) # {} => Registry!IdentityOf(m)' = Registry!IdentityOf(m)
  BY <1>1, <1>3, <1>4 DEF Registry!IdentityOf
<1>10. AcknowledgedBound'
  BY <1>7, <1>9 DEF RegistryInv, AcknowledgedBound
<1> QED
  BY <1>5, <1>6, <1>8, <1>10 DEF RegistryInv

(* A step of which nothing below depends but on what was bound. *)
LEMMA BindingsStay ==
    ASSUME RegistryInv, UNCHANGED bindings, RegistryTypes', CommitmentsBound', AcknowledgedBound'
    PROVE  RegistryInv'
BY DEF RegistryInv, OneIdentityEach

LEMMA RegistryIdle ==
    ASSUME RegistryInv, UNCHANGED <<bindings, challenges, checkpoints, acknowledged>>
    PROVE  RegistryInv'
BY DEF RegistryInv, RegistryTypes, OneIdentityEach, CommitmentsBound, AcknowledgedBound,
    BoundIdentities, Registry!IdentityOf

LEMMA RegistryBegin ==
    ASSUME RegistryInv, NEW m \in Holders, NEW i \in Identities, NEW p \in Policies,
           NEW until \in GrantEnds, NEW now \in RegistryTimes, Registry!Begin(m, i, p, until, now)
    PROVE  RegistryInv'
<1> DEFINE new == [member |-> m, identity |-> i, policy |-> p, issuedAt |-> now,
                   expiresAt |-> Registry!Lesser(now + challengeSeconds, until)]
<1>1. challenges' = challenges \cup {new} /\ UNCHANGED <<bindings, checkpoints, acknowledged>>
  BY DEF Registry!Begin
<1>2. new.member = m /\ new.identity = i
  OBVIOUS
<1> HIDE DEF new
<1>3. RegistryTypes'
  BY <1>1, <1>2 DEF RegistryInv, RegistryTypes
<1> QED
  BY <1>1, <1>3, BindingsStay DEF RegistryInv, CommitmentsBound, AcknowledgedBound,
     BoundIdentities, Registry!IdentityOf

LEMMA RegistryEnroll ==
    ASSUME RegistryInv, NEW c \in challenges, NEW until \in GrantEnds, NEW now \in RegistryTimes,
           Registry!Enroll(c, until, now)
    PROVE  RegistryInv'
<1>1. c.member \in Holders /\ c.identity \in Identities
  BY DEF RegistryInv, RegistryTypes
<1>2. UNCHANGED <<challenges, checkpoints, acknowledged>>
  BY DEF Registry!Enroll, Registry!Bind
<1>3. \/ UNCHANGED bindings
      \/ /\ Registry!Bindable(c)
         /\ bindings' = {b \in bindings : b.member # c.member}
                        \cup {[member |-> c.member, identity |-> c.identity]}
  BY DEF Registry!Enroll, Registry!Bind
<1> QED
  BY <1>1, <1>2, <1>3, BindingsGrow, RegistryIdle

LEMMA RegistryPublish ==
    ASSUME RegistryInv, NEW p \in Policies, NEW now \in RegistryTimes,
           Registry!PublishCheckpoint(p, now)
    PROVE  RegistryInv'
<1> DEFINE new == [epoch |-> Registry!EpochOf(now), policy |-> p, notBefore |-> now,
                   expiresAt |-> Registry!EpochEnd(now), previous |-> Len(checkpoints),
                   commitments |-> Registry!Roster(p, now)]
<1>1. UNCHANGED <<bindings, challenges, acknowledged>>
  BY DEF Registry!PublishCheckpoint
<1>2. UNCHANGED checkpoints \/ checkpoints' = Append(checkpoints, new)
  BY DEF Registry!PublishCheckpoint
<1>3. CASE UNCHANGED checkpoints
  BY <1>1, <1>3, RegistryIdle
<1>4. CASE checkpoints' = Append(checkpoints, new)
  <2>1. Registry!Roster(p, now) \subseteq BoundIdentities
    BY DEF Registry!Roster, BoundIdentities
  <2>2. BoundIdentities \subseteq Identities
    BY DEF BoundIdentities, RegistryInv, RegistryTypes
  <2>3. Len(checkpoints) \in Nat
    BY DEF RegistryInv, RegistryTypes
  <2>4. new \in SignedCheckpoints /\ new.commitments = Registry!Roster(p, now)
    BY <2>1, <2>2, <2>3 DEF SignedCheckpoints
  <2> HIDE DEF new
  <2>5. RegistryTypes'
    BY <1>1, <1>4, <2>4 DEF RegistryInv, RegistryTypes
  <2>6. \A n \in 1 .. Len(checkpoints') :
          checkpoints'[n] = new \/ (n \in 1 .. Len(checkpoints) /\ checkpoints'[n] = checkpoints[n])
    BY <1>4, <2>4 DEF RegistryInv, RegistryTypes
  <2>7. BoundIdentities' = BoundIdentities
    BY <1>1 DEF BoundIdentities
  <2>8. CommitmentsBound'
    BY <2>1, <2>4, <2>6, <2>7 DEF RegistryInv, CommitmentsBound
  <2>9. AcknowledgedBound'
    BY <1>1 DEF RegistryInv, AcknowledgedBound, BoundIdentities, Registry!IdentityOf
  <2> QED
    BY <1>1, <2>5, <2>8, <2>9, BindingsStay
<1> QED
  BY <1>2, <1>3, <1>4

LEMMA RegistryAcknowledge ==
    ASSUME RegistryInv, NEW sender \in Holders, NEW i \in Identities,
           NEW place \in DOMAIN checkpoints, NEW now, Registry!Acknowledge(sender, i, place, now)
    PROVE  RegistryInv'
<1>1. /\ acknowledged' = acknowledged \cup {<<sender, i>>}
      /\ Registry!IdentityOf(sender) # {}
      /\ i \in checkpoints[place].commitments \ Registry!IdentityOf(sender)
      /\ UNCHANGED <<bindings, challenges, checkpoints>>
  BY DEF Registry!Acknowledge, Registry!Accept, Registry!RegisteredAcknowledgementContext,
     Registry!Others
<1>2. i \in BoundIdentities
  BY <1>1 DEF RegistryInv, RegistryTypes, CommitmentsBound
<1>3. RegistryTypes'
  BY <1>1 DEF RegistryInv, RegistryTypes
<1>4. CommitmentsBound'
  BY <1>1 DEF RegistryInv, CommitmentsBound, BoundIdentities
<1>5. AcknowledgedBound'
  BY <1>1, <1>2 DEF RegistryInv, AcknowledgedBound, BoundIdentities, Registry!IdentityOf
<1> QED
  BY <1>1, <1>3, <1>4, <1>5, BindingsStay

LEMMA RegistryStep == ASSUME RegistryInv, [Registry!Next]_registryVars PROVE RegistryInv'
<1>1. CASE UNCHANGED registryVars
  BY <1>1, RegistryIdle DEF registryVars
<1>2. CASE Registry!Next
  BY <1>2, RegistryBegin, RegistryEnroll, RegistryPublish, RegistryAcknowledge DEF Registry!Next
<1> QED
  BY <1>1, <1>2

LEMMA RegistryHolds == ASSUME RegistryInv PROVE Registry!CreditOnce
<1> DEFINE Credits(m, sender) ==
        {a \in acknowledged : a[1] = sender /\ a[2] \in Registry!IdentityOf(m)}
<1>1. \A a \in acknowledged : \E b \in bindings : b.identity = a[2]
  BY DEF RegistryInv, AcknowledgedBound, BoundIdentities
<1>2. ASSUME NEW m \in Holders, NEW sender \in Holders
      PROVE  Registry!Cardinality(Credits(m, sender)) <= IF m = sender THEN 0 ELSE 1
  <2>1. m = sender => Credits(m, sender) = {}
    BY DEF RegistryInv, AcknowledgedBound
  <2>2. \A x, y \in Registry!IdentityOf(m) : x = y
    BY DEF RegistryInv, OneIdentityEach, Registry!IdentityOf
  <2>3. \A a, b \in Credits(m, sender) : a = b
    BY <2>2 DEF RegistryInv, AcknowledgedBound
  <2>4. CASE Credits(m, sender) = {}
    BY <2>4, FS_EmptySet, SameCardinality
  <2>5. CASE Credits(m, sender) # {}
    <3>1. PICK a \in Credits(m, sender) : Credits(m, sender) = {a}
      BY <2>3, <2>5
    <3>2. Cardinality({a}) = 1
      BY FS_Singleton
    <3> HIDE DEF Credits
    <3> QED
      BY <2>1, <2>5, <3>1, <3>2, SameCardinality
  <2> QED
    BY <2>4, <2>5
<1> QED
  BY <1>1, <1>2 DEF Registry!CreditOnce
-----------------------------------------------------------------------------
(* Anonymous permits.  What is retired stays retired.                      *)
Redeemed == [epoch : Epochs, request : Blindings, claim : Claims \cup {NoClaim}]
Allocated(e, id) == {a \in allocations : a.epoch = e /\ a.id = id}
IssuedOf(e, id) == {i \in issuances : i.epoch = e /\ i.id = id}
GrantedOf(e, id) == {i \in granted : i.epoch = e /\ i.id = id}

PermitTypes ==
    /\ through \in Nat
    /\ allocations \subseteq [epoch : Epochs, id : Allocations, quota : Quotas, issued : Nat]
    /\ issuances \subseteq Permit!Requested /\ IsFiniteSet(issuances)
    /\ signing \subseteq Permit!Requested
    /\ granted \subseteq Permit!Requested /\ IsFiniteSet(granted)
    /\ spent \subseteq Redeemed /\ redeeming \subseteq Redeemed

(* Until an epoch is retired, its allowances count its issuances, and what *)
(* was granted is among these. *)
QuotasCounted ==
    /\ \A a, b \in allocations : a.epoch = b.epoch /\ a.id = b.id => a = b
    /\ \A a \in allocations :
        a.issued = Cardinality(IssuedOf(a.epoch, a.id)) /\ a.issued <= a.quota
    /\ \A i \in issuances : ~ Permit!Retired(i.epoch) /\ Allocated(i.epoch, i.id) # {}
    /\ \A i \in granted : i \in issuances \/ Permit!Retired(i.epoch)
    /\ \A e \in Epochs, id \in Allocations : \E q \in Quotas : Cardinality(GrantedOf(e, id)) <= q

(* Until then, what was accepted is among the spends. *)
SpendsRemembered ==
    /\ \A s, t \in spent : s.epoch = t.epoch /\ s.request = t.request => s = t
    /\ \A a \in accepted :
        /\ a.epoch \in Epochs
        /\ a = [epoch |-> a.epoch, request |-> a.request, claim |-> a.claim, nth |-> 0]
        /\ \/ Permit!Retired(a.epoch)
           \/ [epoch |-> a.epoch, request |-> a.request, claim |-> a.claim] \in spent
    /\ Permit!PermitOnce

PermitInv == PermitTypes /\ QuotasCounted /\ SpendsRemembered

LEMMA PermitNumbers ==
    /\ Quotas # {} /\ Quotas \subseteq Nat /\ PermitTimes \subseteq Nat
    /\ \A e \in Epochs : e.expiresAt \in Nat
BY PermitsConstants DEF Permit!PermitConstants

LEMMA PermitInit == ASSUME Permit!Init PROVE PermitInv
<1> USE DEF Permit!Init
<1>1. PermitTypes
  BY FS_EmptySet DEF PermitTypes
<1>2. \A e, id : GrantedOf(e, id) = {}
  BY DEF GrantedOf
<1>3. \A e, id : Cardinality(GrantedOf(e, id)) = 0
  BY <1>2, FS_EmptySet
<1>4. \E q \in Quotas : q \in Nat /\ 0 <= q
  <2>1. PICK q \in Quotas : TRUE
    BY PermitNumbers
  <2> QED
    BY <2>1, PermitNumbers
<1>5. QuotasCounted
  BY <1>3, <1>4 DEF QuotasCounted
<1>6. SpendsRemembered
  BY DEF SpendsRemembered, Permit!PermitOnce
<1> QED
  BY <1>1, <1>5, <1>6 DEF PermitInv

LEMMA IssuedFinite ==
    ASSUME PermitTypes, NEW e, NEW id
    PROVE  /\ IsFiniteSet(IssuedOf(e, id)) /\ Cardinality(IssuedOf(e, id)) \in Nat
           /\ IsFiniteSet(GrantedOf(e, id)) /\ Cardinality(GrantedOf(e, id)) \in Nat
<1>1. IssuedOf(e, id) \subseteq issuances /\ GrantedOf(e, id) \subseteq granted
  BY DEF IssuedOf, GrantedOf
<1> QED
  BY <1>1, FS_Subset, FS_CardinalityType DEF PermitTypes

(* A step that signs nothing and forgets nothing. *)
LEMMA QuotasStay ==
    ASSUME QuotasCounted, UNCHANGED <<through, allocations, issuances, granted>>
    PROVE  QuotasCounted'
<1>1. \A e, id : /\ GrantedOf(e, id)' = GrantedOf(e, id) /\ IssuedOf(e, id)' = IssuedOf(e, id)
                 /\ Allocated(e, id)' = Allocated(e, id)
  BY DEF GrantedOf, IssuedOf, Allocated
<1>2. \A e : Permit!Retired(e)' <=> Permit!Retired(e)
  BY DEF Permit!Retired
<1> QED
  BY <1>1, <1>2 DEF QuotasCounted

LEMMA SpendsStay ==
    ASSUME SpendsRemembered, UNCHANGED <<through, spent, accepted>> PROVE SpendsRemembered'
BY DEF SpendsRemembered, Permit!PermitOnce, Permit!Retired

LEMMA PermitAllocate ==
    ASSUME PermitInv, NEW e \in Epochs, NEW id \in Allocations, NEW q \in Quotas,
           NEW t \in PermitTimes, Permit!Allocate(e, id, q, t)
    PROVE  PermitInv'
<1> DEFINE new == [epoch |-> e, id |-> id, quota |-> q, issued |-> 0]
<1>1. /\ ~ Permit!Retired(e) /\ ~ \E a \in allocations : a.epoch = e /\ a.id = id
      /\ allocations' = allocations \cup {new}
      /\ UNCHANGED <<through, issuances, spent, signing, redeeming, granted, accepted>>
  BY DEF Permit!Allocate
<1>2. /\ new.epoch = e /\ new.id = id /\ new.quota = q /\ new.issued = 0
      /\ new \in [epoch : Epochs, id : Allocations, quota : Quotas, issued : Nat]
  OBVIOUS
<1> HIDE DEF new
<1>3. PermitTypes'
  BY <1>1, <1>2 DEF PermitInv, PermitTypes
<1>4. IssuedOf(e, id) = {}
  BY <1>1 DEF PermitInv, QuotasCounted, IssuedOf, Allocated
<1>5. /\ \A x, y : GrantedOf(x, y)' = GrantedOf(x, y) /\ IssuedOf(x, y)' = IssuedOf(x, y)
      /\ \A x, y : Allocated(x, y) \subseteq Allocated(x, y)'
      /\ \A x : Permit!Retired(x)' <=> Permit!Retired(x)
  BY <1>1 DEF GrantedOf, IssuedOf, Allocated, Permit!Retired
<1>6. q \in Nat /\ Cardinality(IssuedOf(e, id)) = 0
  BY <1>4, FS_EmptySet, PermitNumbers
<1>7. \A a \in allocations' : a.issued = Cardinality(IssuedOf(a.epoch, a.id)) /\ a.issued <= a.quota
  BY <1>1, <1>2, <1>6 DEF PermitInv, QuotasCounted
<1>8. \A a, b \in allocations' : a.epoch = b.epoch /\ a.id = b.id => a = b
  BY <1>1, <1>2 DEF PermitInv, QuotasCounted
<1>9. \A i \in issuances' : ~ Permit!Retired(i.epoch)' /\ Allocated(i.epoch, i.id)' # {}
  BY <1>1, <1>5 DEF PermitInv, QuotasCounted
<1>10. /\ \A i \in granted' : i \in issuances' \/ Permit!Retired(i.epoch)'
       /\ \A x \in Epochs, y \in Allocations : \E k \in Quotas : Cardinality(GrantedOf(x, y)') <= k
  BY <1>1, <1>5 DEF PermitInv, QuotasCounted
<1>11. QuotasCounted'
  <2>1. \A a \in allocations' :
          a.issued = Cardinality(IssuedOf(a.epoch, a.id)') /\ a.issued <= a.quota
    BY <1>5, <1>7
  <2> QED
    BY <1>8, <1>9, <1>10, <2>1 DEF QuotasCounted
<1> QED
  BY <1>1, <1>3, <1>11, SpendsStay DEF PermitInv

LEMMA PermitBeginIssue ==
    ASSUME PermitInv, NEW i \in Permit!Requested, NEW t \in PermitTimes, Permit!BeginIssue(i, t)
    PROVE  PermitInv'
<1>1. /\ signing' = signing \cup {i}
      /\ UNCHANGED <<through, allocations, issuances, spent, redeeming, granted, accepted>>
  BY DEF Permit!BeginIssue
<1>2. PermitTypes'
  BY <1>1 DEF PermitInv, PermitTypes
<1> QED
  BY <1>1, <1>2, QuotasStay, SpendsStay DEF PermitInv

(* A request that is signed for the first time takes from its allowance.   *)
LEMMA FirstIssue ==
    ASSUME PermitInv, NEW i \in signing, i \notin issuances, ~ Permit!Retired(i.epoch),
           Permit!AllowanceLeft(i), allocations' = Permit!Charge(i),
           issuances' = issuances \cup {i}, through' = through
    PROVE  /\ allocations' \subseteq
                [epoch : Epochs, id : Allocations, quota : Quotas, issued : Nat]
           /\ \A a, b \in allocations' : a.epoch = b.epoch /\ a.id = b.id => a = b
           /\ \A a \in allocations' :
                a.issued = Cardinality(IssuedOf(a.epoch, a.id)') /\ a.issued <= a.quota
           /\ \A j \in issuances' : ~ Permit!Retired(j.epoch)' /\ Allocated(j.epoch, j.id)' # {}
<1> DEFINE Mine(a) == a.epoch = i.epoch /\ a.id = i.id
           After(a) == IF Mine(a) THEN [a EXCEPT !.issued = @ + 1] ELSE a
<1>1. allocations' = {After(a) : a \in allocations}
  BY DEF Permit!Charge
<1>2. PICK mine \in allocations : Mine(mine) /\ mine.issued < mine.quota
  BY DEF Permit!AllowanceLeft, Permit!HasAllowance
<1>3. \A a \in allocations :
        /\ a \in [epoch : Epochs, id : Allocations, quota : Quotas, issued : Nat]
        /\ After(a) \in [epoch : Epochs, id : Allocations, quota : Quotas, issued : Nat]
        /\ After(a).epoch = a.epoch /\ After(a).id = a.id /\ After(a).quota = a.quota
        /\ After(a).issued = IF Mine(a) THEN a.issued + 1 ELSE a.issued
  BY DEF PermitInv, PermitTypes
<1>4. \A a \in allocations : Mine(a) => a = mine
  BY <1>2 DEF PermitInv, QuotasCounted
<1>5. \A e, id : IssuedOf(e, id)' = IF e = i.epoch /\ id = i.id THEN IssuedOf(e, id) \cup {i}
                                    ELSE IssuedOf(e, id)
  BY DEF IssuedOf
<1>6. Cardinality(IssuedOf(i.epoch, i.id) \cup {i}) = Cardinality(IssuedOf(i.epoch, i.id)) + 1
  <2>1. i \notin IssuedOf(i.epoch, i.id)
    BY DEF IssuedOf
  <2> QED
    BY <2>1, IssuedFinite, FS_AddElement DEF PermitInv
<1>7. \A a \in allocations : After(a).issued = Cardinality(IssuedOf(a.epoch, a.id)')
  <2> TAKE a \in allocations
  <2>1. a.issued = Cardinality(IssuedOf(a.epoch, a.id))
    BY DEF PermitInv, QuotasCounted
  <2>2. CASE Mine(a)
    <3>1. IssuedOf(a.epoch, a.id)' = IssuedOf(i.epoch, i.id) \cup {i}
      BY <1>5, <2>2
    <3>2. a.issued = Cardinality(IssuedOf(i.epoch, i.id))
      BY <2>1, <2>2
    <3>3. After(a).issued = a.issued + 1
      BY <1>3, <2>2
    <3> HIDE DEF After, Mine
    <3> QED
      BY <1>6, <3>1, <3>2, <3>3
  <2>3. CASE ~ Mine(a)
    <3>1. IssuedOf(a.epoch, a.id)' = IssuedOf(a.epoch, a.id)
      BY <1>5, <2>3
    <3>2. After(a).issued = a.issued
      BY <1>3, <2>3
    <3> QED
      BY <2>1, <3>1, <3>2
  <2> QED
    BY <2>2, <2>3
<1>8. \A a \in allocations : After(a).issued <= After(a).quota
  <2> TAKE a \in allocations
  <2>1. a.issued \in Nat /\ a.quota \in Nat /\ a.issued <= a.quota
    BY <1>3, PermitNumbers DEF PermitInv, QuotasCounted
  <2>2. Mine(a) => a.issued < a.quota
    BY <1>2, <1>4
  <2>3. After(a).quota = a.quota /\ After(a).issued = IF Mine(a) THEN a.issued + 1 ELSE a.issued
    BY <1>3
  <2> HIDE DEF After, Mine
  <2> QED
    BY <2>1, <2>2, <2>3
<1>9. \A j \in issuances' : \E a \in allocations : a.epoch = j.epoch /\ a.id = j.id
  BY <1>2 DEF PermitInv, QuotasCounted, Allocated
<1>10. \A j \in issuances' : ~ Permit!Retired(j.epoch)'
  BY DEF PermitInv, QuotasCounted, Permit!Retired
<1>11. \A a, b \in allocations : a.epoch = b.epoch /\ a.id = b.id => a = b
  BY DEF PermitInv, QuotasCounted
<1> HIDE DEF After, Mine
<1>12. \A j \in issuances' : Allocated(j.epoch, j.id)' # {}
  BY <1>1, <1>3, <1>9 DEF Allocated
<1>13. \A a \in allocations' :
         a.issued = Cardinality(IssuedOf(a.epoch, a.id)') /\ a.issued <= a.quota
  <2> TAKE a \in allocations'
  <2>1. PICK b \in allocations : a = After(b)
    BY <1>1
  <2>2. a.epoch = b.epoch /\ a.id = b.id
    BY <1>3, <2>1
  <2> QED
    BY <1>7, <1>8, <2>1, <2>2
<1>14. \A a, b \in allocations' : a.epoch = b.epoch /\ a.id = b.id => a = b
  BY <1>1, <1>3, <1>11
<1> QED
  BY <1>1, <1>3, <1>10, <1>12, <1>13, <1>14

LEMMA PermitIssue ==
    ASSUME PermitInv, NEW i \in signing, NEW t \in PermitTimes, Permit!Issue(i, t)
    PROVE  PermitInv'
<1>1. /\ \/ i \in issuances /\ UNCHANGED <<allocations, issuances>>
         \/ /\ i \notin issuances /\ ~ Permit!Retired(i.epoch) /\ Permit!AllowanceLeft(i)
            /\ allocations' = Permit!Charge(i) /\ issuances' = issuances \cup {i}
      /\ granted' = granted \cup {i} /\ signing' \subseteq signing
      /\ UNCHANGED <<through, spent, redeeming, accepted>>
  BY DEF Permit!Issue
<1>2. /\ i \in Permit!Requested /\ i.epoch \in Epochs /\ i.id \in Allocations
      /\ ~ Permit!Retired(i.epoch)
  BY <1>1 DEF PermitInv, PermitTypes, QuotasCounted, Permit!Requested
<1>3. /\ allocations' \subseteq [epoch : Epochs, id : Allocations, quota : Quotas, issued : Nat]
      /\ \A a, b \in allocations' : a.epoch = b.epoch /\ a.id = b.id => a = b
      /\ \A a \in allocations' :
           a.issued = Cardinality(IssuedOf(a.epoch, a.id)') /\ a.issued <= a.quota
      /\ \A j \in issuances' : ~ Permit!Retired(j.epoch)' /\ Allocated(j.epoch, j.id)' # {}
  <2>1. CASE i \in issuances /\ UNCHANGED <<allocations, issuances>>
    <3>1. \A e, id : IssuedOf(e, id)' = IssuedOf(e, id) /\ Allocated(e, id)' = Allocated(e, id)
      BY <2>1 DEF IssuedOf, Allocated
    <3>2. \A e : Permit!Retired(e)' <=> Permit!Retired(e)
      BY <1>1 DEF Permit!Retired
    <3> QED
      BY <2>1, <3>1, <3>2 DEF PermitInv, PermitTypes, QuotasCounted
  <2>2. CASE i \notin issuances
    BY <1>1, <2>2, FirstIssue
  <2> QED
    BY <1>1, <2>1, <2>2
<1>4. issuances' = issuances \cup {i}
  BY <1>1
<1>5. PermitTypes'
  BY <1>1, <1>2, <1>3, <1>4, FS_AddElement DEF PermitInv, PermitTypes
<1>6. \A j \in granted' : j \in issuances' \/ Permit!Retired(j.epoch)'
  BY <1>1, <1>4 DEF PermitInv, QuotasCounted, Permit!Retired
<1>7. \A e \in Epochs, id \in Allocations : \E q \in Quotas : Cardinality(GrantedOf(e, id)') <= q
  <2> TAKE e \in Epochs, id \in Allocations
  <2>1. CASE e = i.epoch /\ id = i.id
    <3>1. GrantedOf(e, id)' \subseteq IssuedOf(e, id)'
      BY <1>2, <1>4, <1>6, <2>1, <1>1 DEF GrantedOf, IssuedOf, Permit!Retired
    <3>2. PICK a \in allocations' : a.epoch = e /\ a.id = id
      BY <1>3, <1>4, <2>1 DEF Allocated
    <3>3. a.issued = Cardinality(IssuedOf(e, id)') /\ a.issued <= a.quota /\ a.quota \in Quotas
      BY <1>3, <3>2
    <3>4. IsFiniteSet(IssuedOf(e, id)')
      <4>1. IssuedOf(e, id)' \subseteq issuances'
        BY DEF IssuedOf
      <4> QED
        BY <1>5, <4>1, FS_Subset DEF PermitTypes
    <3>5. /\ Cardinality(GrantedOf(e, id)') <= Cardinality(IssuedOf(e, id)')
          /\ Cardinality(GrantedOf(e, id)') \in Nat /\ Cardinality(IssuedOf(e, id)') \in Nat
      BY <3>1, <3>4, FS_Subset, FS_CardinalityType
    <3>6. a.quota \in Nat
      BY <3>3, PermitNumbers
    <3>7. Cardinality(GrantedOf(e, id)') <= a.quota
      BY <3>3, <3>5, <3>6
    <3> QED
      BY <3>3, <3>7
  <2>2. CASE ~ (e = i.epoch /\ id = i.id)
    <3>1. GrantedOf(e, id)' = GrantedOf(e, id)
      BY <1>1, <2>2 DEF GrantedOf
    <3> QED
      BY <3>1 DEF PermitInv, QuotasCounted
  <2> QED
    BY <2>1, <2>2
<1>8. QuotasCounted'
  BY <1>3, <1>6, <1>7 DEF QuotasCounted
<1> QED
  BY <1>1, <1>5, <1>8, SpendsStay DEF PermitInv

LEMMA PermitBeginRedeem ==
    ASSUME PermitInv, NEW g \in granted, NEW claim \in Claims \cup {NoClaim},
           NEW t \in PermitTimes, Permit!BeginRedeem(g, claim, t)
    PROVE  PermitInv'
<1>1. /\ redeeming' = redeeming \cup
            {[epoch |-> g.epoch, request |-> g.request, claim |-> claim]}
      /\ UNCHANGED <<through, allocations, issuances, spent, signing, granted, accepted>>
  BY DEF Permit!BeginRedeem
<1>2. g.epoch \in Epochs /\ g.request \in Blindings
  BY DEF PermitInv, PermitTypes, Permit!Requested
<1>3. PermitTypes'
  BY <1>1, <1>2 DEF PermitInv, PermitTypes, Redeemed
<1> QED
  BY <1>1, <1>3, QuotasStay, SpendsStay DEF PermitInv

LEMMA PermitSpend ==
    ASSUME PermitInv, NEW r \in redeeming, NEW t \in PermitTimes, Permit!Spend(r, t)
    PROVE  PermitInv'
<1> DEFINE nth == IF r.claim = NoClaim THEN Permit!Cardinality(Permit!Acceptances(r)) ELSE 0
           new == [epoch |-> r.epoch, request |-> r.request, claim |-> r.claim, nth |-> nth]
<1>1. /\ ~ Permit!Retired(r.epoch)
      /\ \/ Permit!Unspent(r) /\ spent' = spent \cup {r}
         \/ Permit!SameClaim(r) /\ UNCHANGED spent
      /\ accepted' = accepted \cup {new}
      /\ redeeming' \subseteq redeeming
      /\ UNCHANGED <<through, allocations, issuances, signing, granted>>
  BY DEF Permit!Spend, Permit!Accept
<1>2. r \in Redeemed /\ r.epoch \in Epochs /\ r = [epoch |-> r.epoch, request |-> r.request, claim |-> r.claim]
  BY DEF PermitInv, PermitTypes, Redeemed
<1>3. PermitTypes'
  BY <1>1, <1>2 DEF PermitInv, PermitTypes
<1>4. \A a \in Permit!Acceptances(r) :
        [epoch |-> r.epoch, request |-> r.request, claim |-> a.claim] \in Permit!Prior(r)
  BY <1>1 DEF PermitInv, SpendsRemembered, Permit!Acceptances, Permit!Prior
<1>5. Permit!Unspent(r) => Permit!Acceptances(r) = {}
  BY <1>4 DEF Permit!Unspent
<1>6. nth = 0
  <2>1. CASE Permit!Unspent(r)
    BY <1>5, <2>1, SameCardinality, FS_EmptySet
  <2>2. CASE Permit!SameClaim(r)
    BY <2>2 DEF Permit!SameClaim
  <2> QED
    BY <1>1, <2>1, <2>2
<1>7. \A a \in Permit!Acceptances(r) : a.claim = r.claim
  <2> TAKE a \in Permit!Acceptances(r)
  <2> DEFINE row == [epoch |-> r.epoch, request |-> r.request, claim |-> a.claim]
  <2>1. row \in Permit!Prior(r)
    BY <1>4
  <2>2. Permit!Prior(r) = {r}
    BY <1>1, <1>5 DEF Permit!SameClaim
  <2>3. row = r
    BY <2>1, <2>2
  <2> QED
    BY <2>3
<1>8. /\ new = [epoch |-> r.epoch, request |-> r.request, claim |-> r.claim, nth |-> 0]
      /\ new.epoch = r.epoch /\ new.request = r.request /\ new.claim = r.claim
      /\ new = [epoch |-> new.epoch, request |-> new.request, claim |-> new.claim, nth |-> 0]
  BY <1>6
<1> HIDE DEF new, nth
<1>9. \A a \in Permit!Acceptances(r) : a = new
  BY <1>7, <1>8 DEF PermitInv, SpendsRemembered, Permit!Acceptances
<1>10. r \in spent' /\ spent \subseteq spent' /\ spent' \subseteq spent \cup {r}
  BY <1>1 DEF Permit!SameClaim, Permit!Prior
<1>11. SpendsRemembered'
  <2>1. \A s \in spent : s.epoch = r.epoch /\ s.request = r.request => s = r
    BY <1>1 DEF Permit!SameClaim, Permit!Prior, Permit!Unspent
  <2>2. \A x, y \in spent' : x.epoch = y.epoch /\ x.request = y.request => x = y
    BY <1>10, <2>1 DEF PermitInv, SpendsRemembered
  <2>3. Permit!PermitOnce'
    BY <1>1, <1>8, <1>9 DEF PermitInv, SpendsRemembered, Permit!PermitOnce, Permit!Acceptances
  <2>4. \A e : Permit!Retired(e)' <=> Permit!Retired(e)
    BY <1>1 DEF Permit!Retired
  <2>5. [epoch |-> new.epoch, request |-> new.request, claim |-> new.claim] \in spent'
    BY <1>2, <1>8, <1>10
  <2>6. \A a \in accepted' :
          /\ a.epoch \in Epochs
          /\ a = [epoch |-> a.epoch, request |-> a.request, claim |-> a.claim, nth |-> 0]
          /\ \/ Permit!Retired(a.epoch)'
             \/ [epoch |-> a.epoch, request |-> a.request, claim |-> a.claim] \in spent'
    BY <1>1, <1>2, <1>8, <1>10, <2>4, <2>5 DEF PermitInv, SpendsRemembered
  <2> QED
    BY <2>2, <2>3, <2>6 DEF SpendsRemembered
<1> QED
  BY <1>1, <1>3, <1>11, QuotasStay DEF PermitInv

LEMMA PermitDrops ==
    ASSUME PermitInv, (\E i \in signing : Permit!DropIssue(i))
                      \/ \E r \in redeeming : Permit!DropRedeem(r)
    PROVE  PermitInv'
<1>1. /\ signing' \subseteq signing /\ redeeming' \subseteq redeeming
      /\ UNCHANGED <<through, allocations, issuances, spent, granted, accepted>>
  BY DEF Permit!DropIssue, Permit!DropRedeem
<1>2. PermitTypes'
  BY <1>1 DEF PermitInv, PermitTypes
<1> QED
  BY <1>1, <1>2, QuotasStay, SpendsStay DEF PermitInv

(* What goes with pruning is of an epoch that stays retired.               *)
LEMMA PermitPrune ==
    ASSUME PermitInv, NEW t \in PermitTimes, Permit!PruneAt(t)
    PROVE  PermitInv'
<1>1. /\ through' = IF t > through THEN t ELSE through
      /\ allocations' = Permit!Kept(allocations, t) /\ issuances' = Permit!Kept(issuances, t)
      /\ spent' = Permit!Kept(spent, t)
      /\ UNCHANGED <<signing, redeeming, granted, accepted>>
  BY DEF Permit!PruneAt
<1>2. t \in Nat /\ through \in Nat /\ through' \in Nat
  BY <1>1, PermitNumbers DEF PermitInv, PermitTypes
<1>3. /\ allocations' \subseteq allocations /\ issuances' \subseteq issuances
      /\ spent' \subseteq spent
  BY <1>1 DEF Permit!Kept
<1>4. PermitTypes'
  BY <1>1, <1>2, <1>3, FS_Subset DEF PermitInv, PermitTypes
<1>5. \A e \in Epochs : /\ Permit!Retired(e) => Permit!Retired(e)'
                        /\ ~ e.expiresAt > t => Permit!Retired(e)'
                        /\ e.expiresAt > t /\ ~ Permit!Retired(e) => ~ Permit!Retired(e)'
  BY <1>1, <1>2, PermitNumbers DEF Permit!Retired
<1>6. \A i \in issuances : i.epoch \in Epochs
  BY DEF PermitInv, PermitTypes, Permit!Requested
<1>7. \A i \in issuances' : ~ Permit!Retired(i.epoch)' /\ Allocated(i.epoch, i.id)' # {}
  <2> TAKE i \in issuances'
  <2>1. i \in issuances /\ i.epoch.expiresAt > t
    BY <1>1 DEF Permit!Kept
  <2>2. ~ Permit!Retired(i.epoch) /\ Allocated(i.epoch, i.id) # {}
    BY <2>1 DEF PermitInv, QuotasCounted
  <2>3. Allocated(i.epoch, i.id) \subseteq Allocated(i.epoch, i.id)'
    BY <1>1, <2>1 DEF Allocated, Permit!Kept
  <2> QED
    BY <1>5, <1>6, <2>1, <2>2, <2>3
<1>8. \A a \in allocations' : IssuedOf(a.epoch, a.id)' = IssuedOf(a.epoch, a.id)
  BY <1>1 DEF IssuedOf, Permit!Kept
<1>9. \A i \in granted' : i \in issuances' \/ Permit!Retired(i.epoch)'
  BY <1>1, <1>5 DEF PermitInv, PermitTypes, QuotasCounted, Permit!Requested, Permit!Kept
<1>10. \A e, id : GrantedOf(e, id)' = GrantedOf(e, id)
  BY <1>1 DEF GrantedOf
<1>11. QuotasCounted'
  <2>1. \A a, b \in allocations' : a.epoch = b.epoch /\ a.id = b.id => a = b
    BY <1>3 DEF PermitInv, QuotasCounted
  <2>2. \A a \in allocations' :
          a.issued = Cardinality(IssuedOf(a.epoch, a.id)') /\ a.issued <= a.quota
    BY <1>3, <1>8 DEF PermitInv, QuotasCounted
  <2>3. \A e \in Epochs, id \in Allocations : \E q \in Quotas : Cardinality(GrantedOf(e, id)') <= q
    BY <1>10 DEF PermitInv, QuotasCounted
  <2> QED
    BY <1>7, <1>9, <2>1, <2>2, <2>3 DEF QuotasCounted
<1>12. SpendsRemembered'
  <2>1. \A a \in accepted :
          \/ Permit!Retired(a.epoch)'
          \/ [epoch |-> a.epoch, request |-> a.request, claim |-> a.claim] \in spent'
    <3> TAKE a \in accepted
    <3> DEFINE row == [epoch |-> a.epoch, request |-> a.request, claim |-> a.claim]
    <3>1. row.epoch = a.epoch
      OBVIOUS
    <3>2. Permit!Retired(a.epoch) \/ row \in spent
      BY DEF PermitInv, SpendsRemembered
    <3> HIDE DEF row
    <3>3. CASE row \in spent
      <4>1. a.epoch \in Epochs
        BY DEF PermitInv, SpendsRemembered
      <4>2. a.epoch.expiresAt > t => row \in spent'
        BY <1>1, <3>1, <3>3 DEF Permit!Kept
      <4> QED
        BY <1>5, <4>1, <4>2 DEF row
    <3>4. CASE Permit!Retired(a.epoch) /\ row \notin spent
      BY <1>5, <3>4 DEF PermitInv, SpendsRemembered
    <3> QED
      BY <3>2, <3>3, <3>4
  <2> QED
    BY <1>1, <1>3, <2>1 DEF PermitInv, SpendsRemembered, Permit!PermitOnce
<1> QED
  BY <1>4, <1>11, <1>12 DEF PermitInv

LEMMA PermitUnchanged == ASSUME PermitInv, UNCHANGED permitVars PROVE PermitInv'
<1>1. PermitTypes'
  BY DEF PermitInv, PermitTypes, permitVars
<1> QED
  BY <1>1, QuotasStay, SpendsStay DEF PermitInv, permitVars

LEMMA PermitStep == ASSUME PermitInv, [Permit!Next]_permitVars PROVE PermitInv'
<1>1. CASE UNCHANGED permitVars
  BY <1>1, PermitUnchanged
<1>2. CASE Permit!Next
  BY <1>2, PermitBeginIssue, PermitIssue, PermitBeginRedeem, PermitSpend, PermitDrops,
     PermitPrune, PermitAllocate DEF Permit!Next
<1> QED
  BY <1>1, <1>2

LEMMA PermitHolds == ASSUME PermitInv PROVE Permit!PermitOnce /\ Permit!QuotaHolds
<1>1. \A e \in Epochs, id \in Allocations :
        Permit!Cardinality({i \in granted : i.epoch = e /\ i.id = id}) = Cardinality(GrantedOf(e, id))
  BY SameCardinality DEF GrantedOf
<1>2. Permit!QuotaHolds
  BY <1>1 DEF PermitInv, QuotasCounted, Permit!QuotaHolds
<1> QED
  BY <1>2 DEF PermitInv, SpendsRemembered
-----------------------------------------------------------------------------
(* The prototype ledger.  A stored answer is of a request of its account's *)
(* chain, and the account is where the chain has come to.                  *)
OwnerOf(a) == a.request.statement.owner
AnswersOf(o) == {a \in requests : OwnerOf(a) = o}

PrototypeTypes ==
    /\ handles \in [Workers -> WorkerTimes \cup {NoHandle}]
    /\ accounts = [o \in Owners |-> accounts[o]]
    /\ \A o \in Owners : \A x, y \in accounts[o] :
        x = y /\ x.version \in Nat /\ x.lastTime \in Nat
    /\ \A a \in requests : /\ a.request \in Prototype!PrototypeRequests
                           /\ a.version \in Nat /\ a.acceptedAt \in Nat

AnswersRecorded == \A a \in requests :
    /\ <<OwnerOf(a), a.request.statement.marker>> \in markers
    /\ accounts[OwnerOf(a)] # {}

OneAnswerEach == \A a, b \in requests :
    OwnerOf(a) = OwnerOf(b) /\ a.request.id = b.request.id => a = b

AnswersLeadToAccount == \A o \in Owners : \A x \in accounts[o] : \A a \in AnswersOf(o) :
    a.acceptedAt <= x.lastTime

PrototypeInv ==
    /\ PrototypeTypes /\ AnswersRecorded /\ OneAnswerEach /\ AnswersLeadToAccount
    /\ Prototype!OneChain /\ Prototype!AnsweredAsSent

LEMMA PrototypeNumbers == WorkerTimes \subseteq Nat /\ \A s \in Statements : s.owner \in Owners
BY WorkerConstants DEF Prototype!PrototypeConstants

LEMMA PrototypeInit == ASSUME Prototype!Init PROVE PrototypeInv
BY DEF Prototype!Init, PrototypeInv, PrototypeTypes, AnswersRecorded, OneAnswerEach,
    AnswersLeadToAccount, Prototype!OneChain, Prototype!AnsweredAsSent

(* Nothing stored changes. *)
LEMMA AnswersStay ==
    ASSUME PrototypeInv, UNCHANGED <<accounts, markers, requests>>,
           handles' \in [Workers -> WorkerTimes \cup {NoHandle}]
    PROVE  PrototypeTypes' /\ AnswersRecorded' /\ OneAnswerEach' /\ AnswersLeadToAccount'
           /\ Prototype!OneChain'
<1>1. PrototypeTypes'
  BY DEF PrototypeInv, PrototypeTypes
<1>2. AnswersRecorded' /\ OneAnswerEach' /\ AnswersLeadToAccount'
  BY DEF PrototypeInv, AnswersRecorded, OneAnswerEach, AnswersLeadToAccount, AnswersOf, OwnerOf
<1>3. Prototype!OneChain'
  BY DEF PrototypeInv, Prototype!OneChain
<1> QED
  BY <1>1, <1>2, <1>3

LEMMA PrototypeSeed ==
    ASSUME PrototypeInv, NEW w \in Workers, NEW s \in Statements, Prototype!Seed(w, s)
    PROVE  PrototypeInv'
<1> DEFINE new == [scope |-> s.scope, commitment |-> s.old, version |-> 0, lastTime |-> s.now]
<1>1. /\ handles[w] # NoHandle /\ s.now = handles[w] /\ accounts[s.owner] = {}
      /\ accounts' = [accounts EXCEPT ![s.owner] = {new}]
      /\ UNCHANGED <<markers, requests, handles, replies>>
  BY DEF Prototype!Seed
<1>2. s.owner \in Owners /\ s.now \in Nat
  BY <1>1, PrototypeNumbers DEF PrototypeInv, PrototypeTypes
<1>3. new.version = 0 /\ new.lastTime = s.now
  OBVIOUS
<1> HIDE DEF new
<1>4. /\ accounts'[s.owner] = {new} /\ accounts' = [o \in Owners |-> accounts'[o]]
      /\ \A o \in Owners : o # s.owner => accounts'[o] = accounts[o]
  BY <1>1, <1>2 DEF PrototypeInv, PrototypeTypes
<1>5. AnswersOf(s.owner) = {} /\ \A o : AnswersOf(o)' = AnswersOf(o)
  BY <1>1 DEF PrototypeInv, AnswersRecorded, AnswersOf, OwnerOf
<1>6. PrototypeTypes'
  BY <1>1, <1>2, <1>3, <1>4 DEF PrototypeInv, PrototypeTypes
<1>7. \A a \in requests : OwnerOf(a) \in Owners
  BY PrototypeNumbers DEF OwnerOf, PrototypeInv, PrototypeTypes, Prototype!PrototypeRequests
<1>8. AnswersRecorded'
  BY <1>1, <1>4, <1>7 DEF PrototypeInv, AnswersRecorded, OwnerOf
<1>9. OneAnswerEach'
  BY <1>1 DEF PrototypeInv, OneAnswerEach, OwnerOf
<1>10. AnswersLeadToAccount'
  BY <1>4, <1>5 DEF PrototypeInv, AnswersLeadToAccount
<1>11. Prototype!OneChain'
  <2>1. \A a, b \in requests' : a.request.statement.owner = b.request.statement.owner =>
          /\ a # b => a.version # b.version /\ a.request.statement.marker # b.request.statement.marker
          /\ b.version = a.version + 1 =>
               a.request.statement.next = b.request.statement.old /\ a.acceptedAt <= b.acceptedAt
    BY <1>1 DEF PrototypeInv, Prototype!OneChain
  <2>2. ASSUME NEW o \in Owners, NEW x \in accounts'[o]
        PROVE  /\ {a.version : a \in AnswersOf(o)} = 1 .. x.version
               /\ \A a \in AnswersOf(o) :
                    a.version = x.version => a.request.statement.next = x.commitment
    <3>1. CASE o = s.owner
      <4>1. x.version = 0 /\ AnswersOf(o) = {}
        BY <1>3, <1>4, <1>5, <2>2, <3>1
      <4> QED
        BY <4>1
    <3>2. CASE o # s.owner
      <4>1. x \in accounts[o]
        BY <1>4, <2>2, <3>2
      <4> QED
        BY <4>1 DEF PrototypeInv, Prototype!OneChain, AnswersOf, OwnerOf
    <3> QED
      BY <3>1, <3>2
  <2>3. \A o : AnswersOf(o) = {a \in requests' : a.request.statement.owner = o}
    BY <1>1 DEF AnswersOf, OwnerOf
  <2> QED
    BY <2>1, <2>2, <2>3 DEF Prototype!OneChain
<1>12. Prototype!AnsweredAsSent'
  BY <1>1 DEF PrototypeInv, Prototype!AnsweredAsSent
<1> QED
  BY <1>6, <1>8, <1>9, <1>10, <1>11, <1>12 DEF PrototypeInv

(* What a commit adds is the chain's next, and answers its request alone.  *)
LEMMA PrototypeCommit ==
    ASSUME PrototypeInv, NEW w \in Workers, NEW r \in Prototype!PrototypeRequests,
           handles[w] # NoHandle,
           \A x \in accounts[r.statement.owner] : Prototype!CheckAccount(x, handles[w]),
           Prototype!Successor(w, r), Prototype!Committed(w, r),
           handles' \in [Workers -> WorkerTimes \cup {NoHandle}]
    PROVE  /\ PrototypeTypes' /\ AnswersRecorded' /\ OneAnswerEach' /\ AnswersLeadToAccount'
           /\ Prototype!OneChain'
           /\ \A a \in Prototype!Cached(r)' : a.request = r
<1> DEFINE s == r.statement
           o == s.owner
           new == [request |-> r, version |-> r.expected + 1, acceptedAt |-> handles[w]]
           top == [scope |-> s.scope, commitment |-> s.next, version |-> r.expected + 1,
                   lastTime |-> handles[w]]
<1>1. PICK x \in accounts[o] : x.version = r.expected /\ x.commitment = s.old
  BY DEF Prototype!Successor
<1>2. /\ Prototype!Cached(r) = {} /\ <<o, s.marker>> \notin markers
      /\ markers' = markers \cup {<<o, s.marker>>}
      /\ accounts' = [accounts EXCEPT ![o] = {top}]
      /\ requests' = requests \cup {new}
  BY DEF Prototype!Successor, Prototype!Committed, Prototype!MarkerUnspent
<1>3. /\ o \in Owners /\ x.version \in Nat /\ r.expected \in Nat /\ handles[w] \in Nat
      /\ x.lastTime \in Nat /\ x.lastTime <= handles[w]
  BY <1>1, PrototypeNumbers DEF PrototypeInv, PrototypeTypes, Prototype!PrototypeRequests,
     Prototype!CheckAccount
<1>4. /\ new.request = r /\ new.version = x.version + 1 /\ new.acceptedAt = handles[w]
      /\ OwnerOf(new) = o
      /\ top.commitment = s.next /\ top.version = x.version + 1 /\ top.lastTime = handles[w]
  BY <1>1 DEF OwnerOf
<1> HIDE DEF new, top
<1>5. /\ accounts'[o] = {top} /\ accounts' = [p \in Owners |-> accounts'[p]]
      /\ \A p \in Owners : p # o => accounts'[p] = accounts[p]
  BY <1>2, <1>3 DEF PrototypeInv, PrototypeTypes
<1>6. \A y \in accounts[o] : y = x
  BY <1>1, <1>3 DEF PrototypeInv, PrototypeTypes
<1>7. \A a \in requests : /\ OwnerOf(a) \in Owners /\ a.request \in Prototype!PrototypeRequests
                          /\ a.version \in Nat /\ a.acceptedAt \in Nat
  BY PrototypeNumbers DEF OwnerOf, PrototypeInv, PrototypeTypes, Prototype!PrototypeRequests
<1>8. /\ AnswersOf(o)' = AnswersOf(o) \cup {new}
      /\ \A p : p # o => AnswersOf(p)' = AnswersOf(p)
  BY <1>2, <1>4 DEF AnswersOf
<1>9. \A p : AnswersOf(p) = {a \in requests : a.request.statement.owner = p}
  BY DEF AnswersOf, OwnerOf
<1>10. /\ {a.version : a \in AnswersOf(o)} = 1 .. x.version
       /\ \A a \in AnswersOf(o) : a.version = x.version => a.request.statement.next = x.commitment
       /\ \A a \in AnswersOf(o) : a.acceptedAt <= x.lastTime
  BY <1>1, <1>3, <1>9 DEF PrototypeInv, Prototype!OneChain, AnswersLeadToAccount
<1>11. \A a \in AnswersOf(o) : /\ a.version \in 1 .. x.version
                               /\ a.acceptedAt <= handles[w]
                               /\ a.request.id # r.id
                               /\ a.request.statement.marker # s.marker
                               /\ a.version = x.version => a.request.statement.next = s.old
  <2> TAKE a \in AnswersOf(o)
  <2>1. a \in requests /\ OwnerOf(a) = o
    BY DEF AnswersOf
  <2>2. a.version \in 1 .. x.version
    BY <1>10
  <2>3. a.acceptedAt <= handles[w]
    BY <1>3, <1>7, <1>10, <2>1
  <2>4. a.request.id # r.id
    BY <1>2, <2>1 DEF Prototype!Cached, OwnerOf
  <2>5. a.request.statement.marker # s.marker
    BY <1>2, <2>1 DEF PrototypeInv, AnswersRecorded
  <2> QED
    BY <1>1, <1>10, <2>2, <2>3, <2>4, <2>5
<1> HIDE DEF s, o
<1>12. PrototypeTypes'
  BY <1>1, <1>2, <1>3, <1>4, <1>5 DEF PrototypeInv, PrototypeTypes
<1>13. AnswersRecorded'
  <2>1. ASSUME NEW a \in requests
        PROVE  <<OwnerOf(a), a.request.statement.marker>> \in markers' /\ accounts'[OwnerOf(a)] # {}
    BY <1>2, <1>5, <1>7 DEF PrototypeInv, AnswersRecorded
  <2>2. <<OwnerOf(new), new.request.statement.marker>> \in markers' /\ accounts'[OwnerOf(new)] # {}
    BY <1>2, <1>4, <1>5 DEF s
  <2> QED
    BY <1>2, <2>1, <2>2 DEF AnswersRecorded, OwnerOf
<1>14. OneAnswerEach'
  <2>1. \A a \in requests : OwnerOf(a) = o => a.request.id # new.request.id
    BY <1>4, <1>11 DEF AnswersOf
  <2> QED
    BY <1>2, <1>4, <2>1 DEF PrototypeInv, OneAnswerEach, OwnerOf
<1>15. AnswersLeadToAccount'
  <2>1. ASSUME NEW p \in Owners, NEW y \in accounts'[p], NEW a \in AnswersOf(p)'
        PROVE  a.acceptedAt <= y.lastTime
    <3>1. CASE p = o
      <4>1. y = top /\ (a = new \/ a \in AnswersOf(o))
        BY <1>5, <1>8, <2>1, <3>1
      <4>2. top.lastTime = handles[w] /\ new.acceptedAt = handles[w] /\ handles[w] <= handles[w]
        BY <1>3, <1>4
      <4> QED
        BY <1>11, <4>1, <4>2
    <3>2. CASE p # o
      BY <1>5, <1>8, <2>1, <3>2 DEF PrototypeInv, AnswersLeadToAccount
    <3> QED
      BY <3>1, <3>2
  <2> QED
    BY <2>1 DEF AnswersLeadToAccount
<1>16. \A a \in Prototype!Cached(r)' : a.request = r
  <2>1. Prototype!Cached(r)' = Prototype!Cached(r) \cup {new}
    BY <1>2, <1>4 DEF Prototype!Cached
  <2> QED
    BY <1>2, <1>4, <2>1
<1>17. ASSUME NEW p \in Owners, NEW y \in accounts'[p]
       PROVE  /\ {a.version : a \in AnswersOf(p)'} = 1 .. y.version
              /\ \A a \in AnswersOf(p)' :
                   a.version = y.version => a.request.statement.next = y.commitment
  <2>1. CASE p = o
    <3>1. y = top /\ AnswersOf(p)' = AnswersOf(o) \cup {new}
      BY <1>5, <1>8, <1>17, <2>1
    <3>2. {a.version : a \in AnswersOf(o) \cup {new}} = (1 .. x.version) \cup {x.version + 1}
      BY <1>4, <1>10
    <3>3. (1 .. x.version) \cup {x.version + 1} = 1 .. (x.version + 1)
      BY <1>3
    <3>4. {a.version : a \in AnswersOf(p)'} = 1 .. y.version
      BY <1>4, <3>1, <3>2, <3>3
    <3>5. \A a \in AnswersOf(o) : a.version # x.version + 1
      BY <1>3, <1>11
    <3>6. new.request.statement.next = top.commitment
      BY <1>4 DEF s
    <3> QED
      BY <1>4, <3>1, <3>4, <3>5, <3>6
  <2>2. CASE p # o
    <3>1. y \in accounts[p] /\ AnswersOf(p)' = AnswersOf(p)
      BY <1>5, <1>8, <1>17, <2>2
    <3> QED
      BY <1>9, <3>1 DEF PrototypeInv, Prototype!OneChain
  <2> QED
    BY <2>1, <2>2
<1>18. ASSUME NEW a \in requests', NEW b \in requests',
              a.request.statement.owner = b.request.statement.owner
       PROVE  /\ a # b => /\ a.version # b.version
                          /\ a.request.statement.marker # b.request.statement.marker
              /\ b.version = a.version + 1 => /\ a.request.statement.next = b.request.statement.old
                                              /\ a.acceptedAt <= b.acceptedAt
  <2>1. CASE a \in requests /\ b \in requests
    BY <1>18, <2>1 DEF PrototypeInv, Prototype!OneChain
  <2>2. new.request.statement.marker = s.marker /\ new.request.statement.old = s.old
    BY <1>4 DEF s
  <2>3. CASE a \in requests /\ b = new
    <3>1. a \in AnswersOf(o)
      BY <1>4, <1>18, <2>3 DEF AnswersOf, OwnerOf
    <3>2. a.version # new.version /\ (new.version = a.version + 1 => a.version = x.version)
      BY <1>3, <1>4, <1>11, <3>1
    <3> QED
      BY <1>4, <1>11, <2>2, <2>3, <3>1, <3>2
  <2>4. CASE b \in requests /\ a = new
    <3>1. b \in AnswersOf(o)
      BY <1>4, <1>18, <2>4 DEF AnswersOf, OwnerOf
    <3>2. b.version # new.version /\ b.version # new.version + 1
      BY <1>3, <1>4, <1>11, <3>1
    <3> QED
      BY <1>11, <2>2, <2>4, <3>1, <3>2
  <2>5. CASE a = new /\ b = new
    <3>1. new.version # new.version + 1
      BY <1>3, <1>4
    <3> QED
      BY <2>5, <3>1
  <2> QED
    BY <1>2, <2>1, <2>3, <2>4, <2>5
<1>19. Prototype!OneChain'
  <2>1. \A p : AnswersOf(p)' = {a \in requests' : a.request.statement.owner = p}
    BY DEF AnswersOf, OwnerOf
  <2> QED
    BY <1>17, <1>18, <2>1 DEF Prototype!OneChain
<1> QED
  BY <1>12, <1>13, <1>14, <1>15, <1>16, <1>19

LEMMA PrototypeApply ==
    ASSUME PrototypeInv, NEW w \in Workers, NEW r \in Prototype!PrototypeRequests,
           Prototype!Apply(w, r)
    PROVE  PrototypeInv'
<1>1. /\ handles[w] # NoHandle
      /\ \A x \in accounts[r.statement.owner] : Prototype!CheckAccount(x, handles[w])
      /\ handles' = [handles EXCEPT ![w] = NoHandle]
      /\ \/ Prototype!Successor(w, r) /\ Prototype!Committed(w, r)
         \/ Prototype!Stored(r) # {} /\ UNCHANGED <<accounts, markers, requests>>
      /\ \/ replies' = replies
         \/ replies' = replies \cup {[to |-> r, answer |-> a] : a \in Prototype!Cached(r)'}
  BY DEF Prototype!Apply
<1>2. handles' \in [Workers -> WorkerTimes \cup {NoHandle}]
  BY <1>1 DEF PrototypeInv, PrototypeTypes
<1>3. /\ PrototypeTypes' /\ AnswersRecorded' /\ OneAnswerEach' /\ AnswersLeadToAccount'
      /\ Prototype!OneChain'
      /\ \A a \in Prototype!Cached(r)' : a.request = r
  <2>1. CASE Prototype!Successor(w, r) /\ Prototype!Committed(w, r)
    BY <1>1, <1>2, <2>1, PrototypeCommit
  <2>2. CASE Prototype!Stored(r) # {} /\ UNCHANGED <<accounts, markers, requests>>
    <3>1. PICK b \in Prototype!Cached(r) : b.request = r
      BY <2>2 DEF Prototype!Stored, Prototype!SameRequest
    <3>2. \A a \in Prototype!Cached(r) : a = b
      BY <3>1 DEF PrototypeInv, OneAnswerEach, OwnerOf, Prototype!Cached
    <3>3. Prototype!Cached(r)' = Prototype!Cached(r)
      BY <2>2 DEF Prototype!Cached
    <3> QED
      BY <1>2, <2>2, <3>1, <3>2, <3>3, AnswersStay
  <2> QED
    BY <1>1, <2>1, <2>2
<1>4. Prototype!AnsweredAsSent'
  <2>1. \A reply \in replies' : reply \in replies \/
          \E a \in Prototype!Cached(r)' : reply = [to |-> r, answer |-> a]
    BY <1>1
  <2>2. \A a \in Prototype!Cached(r)' :
          LET reply == [to |-> r, answer |-> a] IN reply.answer.request = reply.to
    BY <1>3
  <2>3. \A reply \in replies : reply.answer.request = reply.to
    BY DEF PrototypeInv, Prototype!AnsweredAsSent
  <2> QED
    BY <2>1, <2>2, <2>3 DEF Prototype!AnsweredAsSent
<1> QED
  BY <1>3, <1>4 DEF PrototypeInv

LEMMA PrototypeWorkers == ASSUME PrototypeInv, Prototype!Next PROVE PrototypeInv'
<1>1. ASSUME NEW w \in Workers, (\E now \in WorkerTimes : Prototype!Open(w, now)) \/ Prototype!End(w)
      PROVE  PrototypeInv'
  <2>1. /\ handles' \in [Workers -> WorkerTimes \cup {NoHandle}]
        /\ UNCHANGED <<accounts, markers, requests, replies>>
    BY <1>1 DEF Prototype!Open, Prototype!End, Prototype!database, PrototypeInv, PrototypeTypes
  <2>2. Prototype!AnsweredAsSent'
    BY <2>1 DEF PrototypeInv, Prototype!AnsweredAsSent
  <2> QED
    BY <2>1, <2>2, AnswersStay DEF PrototypeInv
<1> QED
  BY <1>1, PrototypeSeed, PrototypeApply DEF Prototype!Next

LEMMA PrototypeUnchanged == ASSUME PrototypeInv, UNCHANGED prototypeVars PROVE PrototypeInv'
<1>1. /\ handles' \in [Workers -> WorkerTimes \cup {NoHandle}]
      /\ UNCHANGED <<accounts, markers, requests, replies>>
  BY DEF prototypeVars, PrototypeInv, PrototypeTypes
<1>2. Prototype!AnsweredAsSent'
  BY <1>1 DEF PrototypeInv, Prototype!AnsweredAsSent
<1> QED
  BY <1>1, <1>2, AnswersStay DEF PrototypeInv

LEMMA PrototypeStep == ASSUME PrototypeInv, [Prototype!Next]_prototypeVars PROVE PrototypeInv'
BY PrototypeWorkers, PrototypeUnchanged

LEMMA PrototypeHolds ==
    ASSUME PrototypeInv PROVE Prototype!AnsweredAsSent /\ Prototype!OneChain
BY DEF PrototypeInv
-----------------------------------------------------------------------------
OnceInv ==
    /\ ReceiptInv /\ RegistryInv /\ PermitInv /\ MeetingInv /\ ProfileInv /\ PrototypeInv

(* What may happen once happens once, whatever concurrent handlers, retries *)
(* and pruning do: a receipt and its spend (receipts.js:294-338), a credit *)
(* (enrollment.js:100-137), a permit's signature and its use               *)
(* (permits.js:113-146), a rendezvous challenge (rendezvous.js:176-184), a *)
(* profile challenge (protocol.js:227-248), a successor of a prototype     *)
(* account (ledger.mjs:131-165).                                           *)
THEOREM OnceIsOnce == PartsSpec => []AtMostOnce
<1>1. Init => OnceInv
  BY ReceiptInit, RegistryInit, PermitInit, MeetingInit, ProfileInit, PrototypeInit
     DEF Init, OnceInv
<1>2. OnceInv /\ [Next]_partsVars => OnceInv'
  BY StepsOfParts, ReceiptStep, RegistryStep, PermitStep, MeetingStep, ProfileStep,
     PrototypeStep DEF OnceInv
<1>3. OnceInv => AtMostOnce
  BY ReceiptHolds, RegistryHolds, PermitHolds, MeetingHolds, ProfileHolds, PrototypeHolds
     DEF OnceInv, AtMostOnce
<1> QED
  BY <1>1, <1>2, <1>3, PTL DEF PartsSpec
-----------------------------------------------------------------------------
(* What was published and sealed stays readable.  Each period is within    *)
(* the next one, as the checks on signing left it, so the innermost is the *)
(* only one a reader can find over.                                        *)
LatestOf(a, b) == Holder!Max({a, b})
EarliestOf(a, b) == Holder!Min({a, b})

PublishedWithin(p) ==
    /\ p.authority \in Authorities /\ p.from \in Nat /\ p.until \in Nat
    /\ p.from >= p.authority.from /\ p.until <= p.authority.until
    /\ p.until - p.from <= maxProfileSeconds

DelegatedWithin(d) ==
    /\ d.publication \in published /\ d.holder \in Authorities
    /\ d.from \in Nat /\ d.until \in Nat
    /\ d.from >= LatestOf(d.publication.from, d.holder.from)
    /\ d.until <= EarliestOf(d.publication.until, d.holder.until)
    /\ d.until - d.from <= maxKeySeconds

SealedForOffer(s) ==
    /\ s.delegation.holder = s.offer.authority
    /\ s.delegation.wrapping = s.offer.wrapping /\ s.sealedFor = s.offer.wrapping

SeedsInv ==
    /\ seedNow \in Nat
    /\ \A p \in published : PublishedWithin(p)
    /\ \A o \in offers : o.authority \in Authorities
    /\ \A m \in making : m.publication \in published /\ m.offer \in offers /\ m.until \in Nat
    /\ \A s \in seeds : DelegatedWithin(s.delegation) /\ SealedForOffer(s)

LEMMA LatestAndEarliest ==
    ASSUME NEW a \in Nat, NEW b \in Nat
    PROVE  /\ LatestOf(a, b) \in Nat /\ LatestOf(a, b) >= a /\ LatestOf(a, b) >= b
           /\ EarliestOf(a, b) \in Nat /\ EarliestOf(a, b) <= a /\ EarliestOf(a, b) <= b
<1> DEFINE latest == CHOOSE x \in {a, b} : \A y \in {a, b} : x >= y
           earliest == CHOOSE x \in {a, b} : \A y \in {a, b} : x <= y
<1>1. /\ \E x \in {a, b} : \A y \in {a, b} : x >= y
      /\ \E x \in {a, b} : \A y \in {a, b} : x <= y
  <2>1. CASE a <= b
    BY <2>1
  <2>2. CASE b <= a
    BY <2>2
  <2> QED
    BY <2>1, <2>2
<1>2. /\ latest \in {a, b} /\ \A y \in {a, b} : latest >= y
      /\ earliest \in {a, b} /\ \A y \in {a, b} : earliest <= y
  BY <1>1
<1>3. LatestOf(a, b) = latest /\ EarliestOf(a, b) = earliest
  BY DEF LatestOf, EarliestOf, Holder!Max, Holder!Min
<1> HIDE DEF latest, earliest
<1> QED
  BY <1>2, <1>3

LEMMA SeedsInit == ASSUME Holder!Init PROVE SeedsInv
BY DEF SeedsInv, Holder!Init

(* What was within stays within while publications and offers only grow.   *)
LEMMA SeedsStay ==
    ASSUME SeedsInv, seedNow' \in Nat, published \subseteq published', offers \subseteq offers',
           \A p \in published' \ published : PublishedWithin(p),
           \A o \in offers' \ offers : o.authority \in Authorities,
           making' \subseteq making, UNCHANGED seeds
    PROVE  SeedsInv'
BY DEF SeedsInv, PublishedWithin, DelegatedWithin, SealedForOffer, LatestOf, EarliestOf

LEMMA SeedsPublish ==
    ASSUME SeedsInv, NEW a \in Authorities, NEW until \in Holder!SeedTimes,
           Holder!Publish(a, until)
    PROVE  SeedsInv'
<1> DEFINE p == [authority |-> a, epoch |-> Holder!Cardinality(published) + 1,
                 from |-> seedNow, until |-> until]
<1>1. /\ published' = published \cup {p} /\ UNCHANGED <<seedNow, offers, making, seeds>>
      /\ Holder!VerifyAuthority(a, seedNow) /\ until - seedNow <= maxProfileSeconds
      /\ until <= a.until
  BY DEF Holder!Publish
<1>2. p.authority = a /\ p.from = seedNow /\ p.until = until
  OBVIOUS
<1>3. until \in Nat /\ seedNow \in Nat
  BY DEF Holder!SeedTimes, SeedsInv
<1>4. a.from <= seedNow
  BY <1>1 DEF Holder!VerifyAuthority, Holder!Fresh
<1> HIDE DEF p
<1>5. PublishedWithin(p)
  BY <1>1, <1>2, <1>3, <1>4, AuthoritiesConstants DEF PublishedWithin, Holder!HolderConstants
<1> QED
  BY <1>1, <1>3, <1>5, SeedsStay

LEMMA SeedsOffer ==
    ASSUME SeedsInv, NEW a \in Authorities, NEW until \in Holder!SeedTimes, Holder!Offer(a, until)
    PROVE  SeedsInv'
<1> DEFINE o == [authority |-> a, wrapping |-> pairs[a.member], from |-> seedNow, until |-> until]
<1>1. offers' = offers \cup {o} /\ UNCHANGED <<seedNow, published, making, seeds>>
  BY DEF Holder!Offer
<1>2. o.authority \in Authorities
  OBVIOUS
<1> HIDE DEF o
<1> QED
  BY <1>1, <1>2, SeedsStay DEF SeedsInv

LEMMA SeedsCheckOffer ==
    ASSUME SeedsInv, NEW p \in published, NEW o \in offers, NEW until \in Holder!SeedTimes,
           Holder!CheckOffer(p, o, until)
    PROVE  SeedsInv'
<1>1. /\ making' = {[publication |-> p, offer |-> o, until |-> until]}
      /\ UNCHANGED <<seedNow, published, offers, seeds>>
  BY DEF Holder!CheckOffer
<1>2. until \in Nat
  BY DEF Holder!SeedTimes
<1>3. \A m \in making' : m.publication \in published /\ m.offer \in offers /\ m.until \in Nat
  BY <1>1, <1>2
<1> QED
  BY <1>1, <1>3 DEF SeedsInv, PublishedWithin, DelegatedWithin, SealedForOffer, LatestOf, EarliestOf

LEMMA SeedsMake == ASSUME SeedsInv, Holder!MakeSeed PROVE SeedsInv'
<1>1. PICK m \in making :
        LET d == [publication |-> m.publication, holder |-> m.offer.authority,
                  wrapping |-> m.offer.wrapping, from |-> seedNow, until |-> m.until]
        IN  /\ Holder!VerifiedDelegation(d, m.publication, m.offer.authority, seedNow)
            /\ seeds' = seeds \cup {[delegation |-> d, sealedFor |-> m.offer.wrapping,
                                     secret |-> m.publication.epoch, offer |-> m.offer]}
  BY DEF Holder!MakeSeed
<1> DEFINE d == [publication |-> m.publication, holder |-> m.offer.authority,
                 wrapping |-> m.offer.wrapping, from |-> seedNow, until |-> m.until]
           s == [delegation |-> d, sealedFor |-> m.offer.wrapping,
                 secret |-> m.publication.epoch, offer |-> m.offer]
<1>2. /\ seeds' = seeds \cup {s} /\ making' = {} /\ UNCHANGED <<seedNow, published, offers>>
      /\ Holder!VerifiedDelegation(d, m.publication, m.offer.authority, seedNow)
  BY <1>1 DEF Holder!MakeSeed
<1>3. /\ d.publication = m.publication /\ d.holder = m.offer.authority
      /\ d.wrapping = m.offer.wrapping /\ d.from = seedNow /\ d.until = m.until
      /\ s.delegation = d /\ s.sealedFor = m.offer.wrapping /\ s.offer = m.offer
  OBVIOUS
<1> HIDE DEF d, s
<1>4. /\ m.publication \in published /\ m.offer.authority \in Authorities
      /\ m.until \in Nat /\ seedNow \in Nat
  BY DEF SeedsInv
<1>5. DelegatedWithin(d)
  BY <1>2, <1>3, <1>4 DEF DelegatedWithin, Holder!VerifiedDelegation, LatestOf, EarliestOf
<1>6. SealedForOffer(s)
  BY <1>3 DEF SealedForOffer
<1> QED
  BY <1>2, <1>3, <1>5, <1>6 DEF SeedsInv, PublishedWithin, DelegatedWithin, SealedForOffer,
     LatestOf, EarliestOf

LEMMA SeedsStep == ASSUME SeedsInv, [Holder!Next]_holderVars PROVE SeedsInv'
<1>1. CASE UNCHANGED holderVars
  BY <1>1, SeedsStay DEF holderVars, SeedsInv
<1>2. CASE Holder!Tick \/ Holder!GiveUp \/ (\E m \in Holder!Persons : Holder!NewPair(m))
  BY <1>2, SeedsStay DEF Holder!Tick, Holder!GiveUp, Holder!NewPair, SeedsInv
<1>3. CASE \/ \E s \in seeds, a \in Authorities : Holder!OpenSeed(s, a)
           \/ \E h \in holding : Holder!Serve(h)
  BY <1>3, SeedsStay DEF Holder!OpenSeed, Holder!Serve, SeedsInv
<1> QED
  BY <1>1, <1>2, <1>3, SeedsPublish, SeedsOffer, SeedsCheckOffer, SeedsMake DEF Holder!Next

LEMMA SeedsHold == ASSUME SeedsInv PROVE Holder!SeedsOpen
<1>1. ASSUME NEW p \in published, Holder!Fresh(p, seedNow) PROVE Holder!VerifiedProfile(p, seedNow)
  BY <1>1, AuthoritiesConstants DEF SeedsInv, PublishedWithin, Holder!Fresh, Holder!VerifiedProfile,
     Holder!VerifyAuthority, Holder!HolderConstants
<1>2. ASSUME NEW s \in seeds, Holder!Fresh(s.delegation, seedNow),
             pairs[s.offer.authority.member] = s.offer.wrapping
      PROVE  Holder!Opens(s, s.offer.authority, seedNow)
  <2> DEFINE d == s.delegation
             p == s.delegation.publication
             a == s.offer.authority
  <2>1. /\ DelegatedWithin(d) /\ SealedForOffer(s) /\ d.holder = a /\ p \in published
        /\ a \in Authorities /\ PublishedWithin(p) /\ seedNow \in Nat
    BY DEF SeedsInv, DelegatedWithin, SealedForOffer
  <2>2. /\ p.from \in Nat /\ p.until \in Nat /\ a.from \in Nat /\ a.until \in Nat
        /\ d.from \in Nat /\ d.until \in Nat
    BY <2>1, AuthoritiesConstants DEF DelegatedWithin, PublishedWithin, Holder!HolderConstants
  <2>3. /\ d.from >= p.from /\ d.from >= a.from /\ d.until <= p.until /\ d.until <= a.until
    <3>1. /\ d.from >= LatestOf(p.from, a.from) /\ d.until <= EarliestOf(p.until, a.until)
      BY <2>1 DEF DelegatedWithin
    <3>2. /\ LatestOf(p.from, a.from) \in Nat /\ LatestOf(p.from, a.from) >= p.from
          /\ LatestOf(p.from, a.from) >= a.from
      BY <2>2, LatestAndEarliest
    <3>3. /\ EarliestOf(p.until, a.until) \in Nat /\ EarliestOf(p.until, a.until) <= p.until
          /\ EarliestOf(p.until, a.until) <= a.until
      BY <2>2, LatestAndEarliest
    <3> QED
      BY <2>2, <3>1, <3>2, <3>3
  <2>4. Holder!Fresh(p, seedNow) /\ Holder!Fresh(a, seedNow)
    BY <1>2, <2>1, <2>2, <2>3 DEF Holder!Fresh
  <2>5. Holder!VerifiedProfile(p, seedNow) /\ Holder!VerifyAuthority(a, seedNow)
    BY <1>1, <2>1, <2>4 DEF Holder!VerifyAuthority
  <2>6. Holder!VerifiedDelegation(d, p, a, seedNow)
    BY <1>2, <2>1 DEF Holder!VerifiedDelegation, Holder!SameDevice, DelegatedWithin,
       LatestOf, EarliestOf
  <2>7. Holder!Unwraps(s, a)
    BY <1>2, <2>1 DEF Holder!Unwraps, SealedForOffer
  <2> QED
    BY <2>5, <2>6, <2>7 DEF Holder!Opens
<1> QED
  BY <1>1, <1>2 DEF Holder!SeedsOpen
-----------------------------------------------------------------------------
(* What was saved for the accepted statement is an export of the accepted  *)
(* slots, under whatever roster, and these have one slot for each event.   *)
OneSlotEach(slots) ==
    /\ \A s, t \in slots : s.event = t.event => s = t
    /\ \A s \in slots : s.role = 1 => s.phase # 5

ExportOf(f, slots, version) == \E root : f = Checkpoint!File(slots, version, root)

SavedInv ==
    /\ CheckpointInv
    /\ ledgerState.version \in Nat /\ OneSlotEach(truth)
    /\ \A f \in files : f.version \in Nat /\ f.version <= ledgerState.version
    /\ \A f \in files : f.version = ledgerState.version =>
            ExportOf(f, truth, ledgerState.version)
    /\ \A m \in memory : m.version = ledgerState.version

LEMMA SavedInit == ASSUME Checkpoint!Init PROVE SavedInv
<1> DEFINE file == Checkpoint!File({}, 0, 1)
<1>1. /\ truth = {} /\ memory = {[slots |-> {}, version |-> 0]}
      /\ ledgerState = [version |-> 0, root |-> 1, commitment |-> Checkpoint!Commitment(file)]
      /\ files = {file}
  BY DEF Checkpoint!Init
<1>2. file.version = 0
  BY DEF Checkpoint!File
<1>3. ledgerState.version = 0
  BY <1>1
<1>4. ExportOf(file, truth, ledgerState.version)
  BY <1>1, <1>3 DEF ExportOf
<1> HIDE DEF file
<1> QED
  BY <1>1, <1>2, <1>3, <1>4, CheckpointInit DEF SavedInv, OneSlotEach

LEMMA SavedTransition ==
    ASSUME SavedInv, NEW slots \in SUBSET SlotRecords, OneSlotEach(slots),
           Checkpoint!Transition(slots)
    PROVE  SavedInv'
<1> DEFINE next == Checkpoint!File(slots, ledgerState.version + 1, pinned)
<1>1. /\ ledgerState' = [version |-> next.version, root |-> pinned,
                         commitment |-> Checkpoint!Commitment(next)]
      /\ memory' = {[slots |-> slots, version |-> next.version]}
      /\ files' = files \cup {next} /\ truth' = slots
  BY DEF Checkpoint!Transition, Checkpoint!Saves
<1>2. next.version = ledgerState.version + 1
  BY DEF Checkpoint!File
<1>3. ledgerState'.version = ledgerState.version + 1
  BY <1>1, <1>2
<1>4. ExportOf(next, slots, ledgerState.version + 1)
  BY DEF ExportOf
<1> HIDE DEF next
<1>5. \A f \in files' : f.version \in Nat /\ f.version <= ledgerState'.version
  BY <1>1, <1>2, <1>3 DEF SavedInv
<1>6. \A f \in files' : f.version = ledgerState'.version =>
            ExportOf(f, slots, ledgerState.version + 1)
  BY <1>1, <1>3, <1>4 DEF SavedInv
<1>7. \A f \in files' : f.version = ledgerState'.version =>
            ExportOf(f, truth', ledgerState'.version)
  BY <1>1, <1>3, <1>6
<1>8. \A m \in memory' : m.version = ledgerState'.version
  BY <1>1, <1>2, <1>3
<1>9. OneSlotEach(truth')
  BY <1>1
<1>10. CheckpointInv'
  BY CheckpointTransition DEF SavedInv
<1>11. ledgerState'.version \in Nat
  BY <1>3 DEF SavedInv
<1> QED
  BY <1>5, <1>7, <1>8, <1>9, <1>10, <1>11 DEF SavedInv, OneSlotEach, ExportOf, Checkpoint!File

(* Steps that change neither the accepted state nor what it was.           *)
LEMMA SavedSame ==
    ASSUME SavedInv, CheckpointInv', UNCHANGED <<ledgerState, truth>>,
           \A f \in files' \ files : f.version = ledgerState.version
                                     /\ ExportOf(f, truth, ledgerState.version),
           \A m \in memory' : m.version = ledgerState.version
    PROVE  SavedInv'
<1>1. \A f \in files' : /\ f.version \in Nat /\ f.version <= ledgerState.version
                        /\ f.version = ledgerState.version =>
                                ExportOf(f, truth, ledgerState.version)
  BY DEF SavedInv
<1> QED
  BY <1>1 DEF SavedInv, OneSlotEach, ExportOf, Checkpoint!File

LEMMA SavedSteps ==
    ASSUME SavedInv, CheckpointInv', [Checkpoint!Next]_checkpointVars PROVE SavedInv'
<1>0. \A m \in memory : m.slots = truth /\ m.version = ledgerState.version
  BY DEF SavedInv, CheckpointInv, Checkpoint!RestoredIsAccepted
<1>1. CASE UNCHANGED checkpointVars
  BY <1>1, SavedSame DEF checkpointVars, SavedInv
<1>2. ASSUME NEW m \in Peers \cup {owner}, Checkpoint!Renew(m) \/ Checkpoint!Leave(m)
      PROVE  SavedInv'
  BY <1>0, <1>2, SavedSame DEF Checkpoint!Renew, Checkpoint!Leave, Checkpoint!Publishes
<1>3. ASSUME NEW e \in Checkpoint!Events, NEW role \in {0, 1}, Checkpoint!Reserve(e, role)
      PROVE  SavedInv'
  <2> DEFINE new == [event |-> e, role |-> role, phase |-> 1,
                     ownerLeaf |-> rosters[pinned][owner], peerLeaf |-> rosters[pinned][PeerOf[e]]]
  <2>1. PICK m \in memory : (\A s \in m.slots : s.event # e)
                            /\ Checkpoint!Transition(m.slots \cup {new})
    BY <1>3 DEF Checkpoint!Reserve
  <2>2. new.event = e /\ new.phase = 1
    OBVIOUS
  <2>3. rosters[pinned][owner] \in Nat /\ rosters[pinned][PeerOf[e]] \in Nat
    BY RosterAt, WitnessConstants DEF Checkpoint!CheckpointConstants, SavedInv
  <2>4. new \in SlotRecords
    BY <2>3 DEF SlotRecords
  <2> HIDE DEF new
  <2>5. OneSlotEach(truth \cup {new})
    BY <1>0, <2>1, <2>2 DEF SavedInv, OneSlotEach
  <2>6. truth \cup {new} \in SUBSET SlotRecords
    BY <2>4 DEF SavedInv, CheckpointInv
  <2> QED
    BY <1>0, <2>1, <2>5, <2>6, SavedTransition
<1>4. ASSUME NEW e \in Checkpoint!Events, NEW p \in 2 .. 5, Checkpoint!Settle(e, p)
      PROVE  SavedInv'
  <2>1. PICK m \in memory : \E s \in m.slots :
            /\ p = 5 => s.role = 0
            /\ Checkpoint!Transition((m.slots \ {s}) \cup {[s EXCEPT !.phase = p]})
    BY <1>4 DEF Checkpoint!Settle
  <2>2. PICK s \in truth :
            /\ p = 5 => s.role = 0
            /\ Checkpoint!Transition((truth \ {s}) \cup {[s EXCEPT !.phase = p]})
    BY <1>0, <2>1
  <2> DEFINE new == [s EXCEPT !.phase = p]
  <2>3. s \in SlotRecords /\ truth \in SUBSET SlotRecords
    BY DEF SavedInv, CheckpointInv
  <2>4. new \in SlotRecords /\ new.event = s.event /\ new.role = s.role /\ new.phase = p
    BY <2>3 DEF SlotRecords
  <2> HIDE DEF new
  <2>5. OneSlotEach((truth \ {s}) \cup {new})
    BY <2>2, <2>4 DEF SavedInv, OneSlotEach
  <2>6. (truth \ {s}) \cup {new} \in SUBSET SlotRecords
    BY <2>3, <2>4
  <2>7. Checkpoint!Transition((truth \ {s}) \cup {new})
    BY <2>2 DEF new
  <2> QED
    BY <2>5, <2>6, <2>7, SavedTransition
<1>5. ASSUME NEW r, Checkpoint!Refresh(r) PROVE SavedInv'
  <2>1. PICK m \in memory : files' = files \cup {Checkpoint!File(m.slots, m.version, r)}
    BY <1>5 DEF Checkpoint!Refresh, Checkpoint!Saves
  <2> DEFINE file == Checkpoint!File(truth, ledgerState.version, r)
  <2>2. files' = files \cup {file} /\ UNCHANGED <<ledgerState, memory, truth>>
    BY <1>0, <1>5, <2>1 DEF Checkpoint!Refresh
  <2>3. file.version = ledgerState.version /\ ExportOf(file, truth, ledgerState.version)
    BY DEF Checkpoint!File, ExportOf
  <2> HIDE DEF file
  <2> QED
    BY <1>0, <2>2, <2>3, SavedSame
<1>6. ASSUME NEW r, NEW f, Checkpoint!Start(r, f) PROVE SavedInv'
  <2>1. /\ memory' = IF Checkpoint!Accepts(f, r) THEN {[slots |-> f.slots, version |-> f.version]}
                     ELSE {}
        /\ UNCHANGED <<ledgerState, truth, files>>
    BY <1>6 DEF Checkpoint!Start
  <2>2. Checkpoint!Accepts(f, r) => f.version = ledgerState.version
    BY DEF Checkpoint!Accepts
  <2>3. \A m \in memory' : m.version = ledgerState.version
    BY <2>1, <2>2
  <2> QED
    BY <2>1, <2>3, SavedSame
<1>7. ASSUME Checkpoint!Stop PROVE SavedInv'
  BY <1>7, SavedSame DEF Checkpoint!Stop
<1> QED
  BY <1>1, <1>2, <1>3, <1>4, <1>5, <1>6, <1>7 DEF Checkpoint!Next

LEMMA SavedStep == ASSUME SavedInv, [Checkpoint!Next]_checkpointVars PROVE SavedInv'
BY SavedSteps, CheckpointStep DEF SavedInv

LEMMA SavedHolds == ASSUME SavedInv PROVE Checkpoint!SavedReopens
<1> SUFFICES ASSUME NEW f \in files, f.version = ledgerState.version,
                    Checkpoint!OnRoster(pinned), Checkpoint!RootAccepted(f, pinned)
             PROVE  Checkpoint!Accepts(f, pinned)
  BY DEF Checkpoint!SavedReopens
<1>1. PICK root : f = Checkpoint!File(truth, ledgerState.version, root)
  BY DEF SavedInv, ExportOf
<1>2. /\ f.version = ledgerState.version /\ f.slots = truth
      /\ f.outgoing = Checkpoint!Entries(truth, 0) /\ f.incoming = Checkpoint!Entries(truth, 1)
      /\ f.pairs = {PeerOf[s.event] : s \in truth} /\ f.reserved = Checkpoint!Reserved(truth)
  BY <1>1 DEF Checkpoint!File
<1>3. Checkpoint!NothingLeft(f)
  BY <1>2 DEF Checkpoint!NothingLeft
<1>4. Checkpoint!Commitment(f) = ledgerState.commitment
  <2>1. PICK other : ledgerState.commitment
            = Checkpoint!Commitment(Checkpoint!File(truth, ledgerState.version, other))
    BY DEF SavedInv, CheckpointInv
  <2> QED
    BY <1>2, <2>1 DEF Checkpoint!Commitment, Checkpoint!File
<1>5. ASSUME NEW s \in truth PROVE Checkpoint!SlotInMaps(f, s)
  <2>1. s.role \in {0, 1} /\ OneSlotEach(truth)
    BY DEF SavedInv, CheckpointInv, SlotRecords
  <2>2. Checkpoint!OwnMap(f, s) = Checkpoint!Entries(truth, s.role)
        /\ Checkpoint!OtherMap(f, s) = Checkpoint!Entries(truth, 1 - s.role)
    BY <1>2, <2>1 DEF Checkpoint!OwnMap, Checkpoint!OtherMap
  <2>3. Checkpoint!Obligation(s) \in Checkpoint!Entries(truth, s.role)
    BY DEF Checkpoint!Entries
  <2>4. ASSUME NEW o \in Checkpoint!Entries(truth, 1 - s.role) PROVE o.event # s.event
    <3>1. PICK x \in truth : x.role = 1 - s.role /\ o = Checkpoint!Obligation(x)
      BY <2>4 DEF Checkpoint!Entries
    <3>2. o.event = x.event
      BY <3>1 DEF Checkpoint!Obligation
    <3> QED
      BY <2>1, <3>1, <3>2 DEF OneSlotEach
  <2> QED
    BY <1>2, <2>1, <2>2, <2>3, <2>4 DEF Checkpoint!SlotInMaps, OneSlotEach
<1>6. \A s, t \in truth : s.event = t.event => s = t
  BY DEF SavedInv, OneSlotEach
<1> QED
  BY <1>2, <1>3, <1>4, <1>5, <1>6 DEF Checkpoint!Accepts, Checkpoint!PeerHeader
-----------------------------------------------------------------------------
(* The chain of checkpoints.  Epochs rise along it, and the links that are *)
(* kept are those of its newest places, without a gap.                     *)
EpochsRise == \A m, n \in 1 .. Len(checkpoints) :
    m < n => checkpoints[m].epoch < checkpoints[n].epoch
PlacesLinked == \A n \in 1 .. Len(checkpoints) : checkpoints[n].previous = n - 1
NewestRetained == links = {n \in 1 .. Len(checkpoints) : n + maxRetainedLinks > Len(checkpoints)}

LinksInv == checkpoints \in Seq(SignedCheckpoints) /\ EpochsRise /\ PlacesLinked /\ NewestRetained

LEMMA EpochsAreNumbers ==
    /\ maxRetainedLinks \in Nat
    /\ \A now \in RegistryTimes : Registry!EpochOf(now) \in Int
    /\ \A x \in SignedCheckpoints : x.epoch \in Int
<1>1. \A now \in RegistryTimes : Registry!EpochOf(now) \in Int
  BY CheckpointsConstants DEF Registry!RegistryConstants, Registry!EpochOf
<1> QED
  BY <1>1, CheckpointsConstants DEF Registry!RegistryConstants, SignedCheckpoints

LEMMA LinksInit == ASSUME Registry!Init PROVE LinksInv
BY DEF Registry!Init, LinksInv, EpochsRise, PlacesLinked, NewestRetained

LEMMA LinksPublish ==
    ASSUME LinksInv, NEW p \in Policies, NEW now \in RegistryTimes,
           Registry!PublishCheckpoint(p, now), checkpoints' \in Seq(SignedCheckpoints)
    PROVE  LinksInv'
<1> DEFINE L == Len(checkpoints)
           new == [epoch |-> Registry!EpochOf(now), policy |-> p, notBefore |-> now,
                   expiresAt |-> Registry!EpochEnd(now), previous |-> L,
                   commitments |-> Registry!Roster(p, now)]
<1>1. CASE UNCHANGED <<checkpoints, links>>
  BY <1>1 DEF LinksInv, EpochsRise, PlacesLinked, NewestRetained
<1>2. CASE ~ Registry!AlreadyPublished(now)
  <2>1. /\ checkpoints' = Append(checkpoints, new) /\ links' = Registry!RetainedLinks(L + 1)
        /\ \A n \in DOMAIN checkpoints : checkpoints[n].epoch <= Registry!EpochOf(now)
    BY <1>2 DEF Registry!PublishCheckpoint
  <2>2. new.epoch = Registry!EpochOf(now) /\ new.previous = L
    OBVIOUS
  <2>3. L \in Nat /\ checkpoints \in Seq(SignedCheckpoints) /\ DOMAIN checkpoints = 1 .. L
    BY DEF LinksInv
  <2>4. /\ Registry!EpochOf(now) \in Int /\ maxRetainedLinks \in Nat
        /\ \A n \in 1 .. L : checkpoints[n].epoch \in Int
    BY <2>3, EpochsAreNumbers
  <2>5. \A n \in 1 .. L : checkpoints[n].epoch < Registry!EpochOf(now)
    <3> SUFFICES ASSUME NEW n \in 1 .. L PROVE checkpoints[n].epoch < Registry!EpochOf(now)
      OBVIOUS
    <3>1. L \in 1 .. L /\ checkpoints # <<>>
      BY <2>3
    <3>2. checkpoints[L].epoch # Registry!EpochOf(now)
      BY <1>2, <3>1 DEF Registry!AlreadyPublished, Registry!Newest
    <3>3. checkpoints[L].epoch < Registry!EpochOf(now)
      BY <2>1, <2>3, <2>4, <3>1, <3>2
    <3>4. n = L \/ n < L
      <4>1. L \in Nat /\ n \in 1 .. L
        BY <2>3
      <4> HIDE DEF L
      <4> QED
        BY <4>1
    <3>5. n < L => checkpoints[n].epoch < checkpoints[L].epoch
      BY <3>1 DEF LinksInv, EpochsRise
    <3>6. checkpoints[n].epoch \in Int /\ checkpoints[L].epoch \in Int
      BY <2>4, <3>1
    <3> HIDE DEF L
    <3> QED
      BY <2>4, <3>3, <3>4, <3>5, <3>6
  <2> HIDE DEF new
  <2>6. /\ Len(checkpoints') = L + 1 /\ checkpoints'[L + 1] = new
        /\ \A n \in 1 .. L : checkpoints'[n] = checkpoints[n]
    BY <2>1, <2>3
  <2> HIDE DEF L
  <2>7. EpochsRise'
    <3> SUFFICES ASSUME NEW m \in 1 .. L + 1, NEW n \in 1 .. L + 1, m < n
                 PROVE  checkpoints'[m].epoch < checkpoints'[n].epoch
      BY <2>6 DEF EpochsRise
    <3>1. m \in 1 .. L /\ (n \in 1 .. L \/ n = L + 1)
      BY <2>3
    <3> QED
      BY <2>2, <2>5, <2>6, <3>1 DEF LinksInv, EpochsRise, L
  <2>8. PlacesLinked'
    <3> SUFFICES ASSUME NEW n \in 1 .. L + 1 PROVE checkpoints'[n].previous = n - 1
      BY <2>6 DEF PlacesLinked
    <3>1. n \in 1 .. L \/ n = L + 1
      BY <2>3
    <3> QED
      BY <2>2, <2>3, <2>6, <3>1 DEF LinksInv, PlacesLinked, L
  <2>9. NewestRetained'
    <3>1. links = {n \in 1 .. L : n + maxRetainedLinks > L}
      BY DEF LinksInv, NewestRetained, L
    <3>2. links' = {n \in links \cup {L + 1} : n + maxRetainedLinks > L + 1}
      BY <2>1 DEF Registry!RetainedLinks
    <3>3. links' = {n \in 1 .. L + 1 : n + maxRetainedLinks > L + 1}
      BY <2>3, <2>4, <3>1, <3>2
    <3> QED
      BY <2>6, <3>3 DEF NewestRetained
  <2> QED
    BY <2>7, <2>8, <2>9 DEF LinksInv
<1> QED
  BY <1>1, <1>2 DEF Registry!PublishCheckpoint

LEMMA LinksStep ==
    ASSUME LinksInv, RegistryInv', [Registry!Next]_registryVars PROVE LinksInv'
<1>1. checkpoints' \in Seq(SignedCheckpoints)
  BY DEF RegistryInv, RegistryTypes
<1>2. CASE UNCHANGED <<checkpoints, links>>
  BY <1>1, <1>2 DEF LinksInv, EpochsRise, PlacesLinked, NewestRetained
<1>3. CASE UNCHANGED registryVars
  BY <1>2, <1>3 DEF registryVars
<1>4. CASE Registry!Next
  BY <1>1, <1>2, <1>4, LinksPublish DEF Registry!Next, Registry!Begin, Registry!Enroll,
     Registry!Bind, Registry!Acknowledge
<1> QED
  BY <1>3, <1>4

LEMMA LastOfRange == ASSUME NEW a \in Int, NEW b \in Int, a <= b PROVE Registry!Max(a .. b) = b
<1> DEFINE largest == CHOOSE x \in a .. b : \A y \in a .. b : x >= y
<1>1. \E x \in a .. b : \A y \in a .. b : x >= y
  BY b \in a .. b
<1>2. largest \in a .. b /\ \A y \in a .. b : largest >= y
  BY <1>1
<1>3. Registry!Max(a .. b) = largest
  BY DEF Registry!Max
<1> HIDE DEF largest
<1> QED
  BY <1>2, <1>3

LEMMA LinksHold == ASSUME LinksInv PROVE Registry!CatchUp
<1> DEFINE L == Len(checkpoints)
<1> SUFFICES ASSUME NEW anchor \in DOMAIN checkpoints, L - anchor <= maxRetainedLinks
             PROVE  Registry!VerifyCheckpoint(anchor, L, Registry!LinksBetween(anchor, L))
  BY DEF Registry!CatchUp
<1> DEFINE between == Registry!LinksBetween(anchor, L)
           before(n) == Registry!Max({anchor} \cup {k \in between : k < n})
<1>1. /\ L \in Nat /\ anchor \in 1 .. L /\ L \in 1 .. L /\ maxRetainedLinks \in Nat
      /\ \A n \in 1 .. L : checkpoints[n].epoch \in Int
  BY EpochsAreNumbers DEF LinksInv
<1>2. between = {n \in 1 .. L : anchor < n /\ n < L}
  <2>1. links = {n \in 1 .. L : n + maxRetainedLinks > L}
    BY DEF LinksInv, NewestRetained
  <2>2. \A n \in 1 .. L : /\ checkpoints[n].epoch > checkpoints[anchor].epoch <=> anchor < n
                          /\ checkpoints[n].epoch < checkpoints[L].epoch <=> n < L
    <3> SUFFICES ASSUME NEW m \in 1 .. L, NEW n \in 1 .. L
                 PROVE  checkpoints[m].epoch < checkpoints[n].epoch <=> m < n
      BY <1>1
    <3>1. m < n => checkpoints[m].epoch < checkpoints[n].epoch
      BY DEF LinksInv, EpochsRise
    <3>2. n < m => checkpoints[n].epoch < checkpoints[m].epoch
      BY DEF LinksInv, EpochsRise
    <3> QED
      BY <1>1, <3>1, <3>2
  <2>3. between = {n \in links : checkpoints[n].epoch > checkpoints[anchor].epoch
                                 /\ checkpoints[n].epoch < checkpoints[L].epoch}
    BY DEF Registry!LinksBetween
  <2>4. \A n \in 1 .. L : anchor < n => n + maxRetainedLinks > L
    BY <1>1
  <2> HIDE DEF between, L
  <2> QED
    BY <2>1, <2>2, <2>3, <2>4
<1> HIDE DEF between, L
<1>3. ASSUME NEW n \in 1 .. L, anchor < n
      PROVE  /\ before(n) = n - 1 /\ checkpoints[n].previous = n - 1
             /\ checkpoints[n].epoch > checkpoints[n - 1].epoch
  <2>1. {anchor} \cup {k \in between : k < n} = anchor .. (n - 1)
    BY <1>1, <1>2, <1>3
  <2>2. n - 1 \in Int /\ anchor \in Int /\ anchor <= n - 1 /\ n - 1 \in 1 .. L
    BY <1>1, <1>3
  <2>3. Registry!Max(anchor .. (n - 1)) = n - 1
    BY <2>2, LastOfRange
  <2>4. checkpoints[n - 1].epoch < checkpoints[n].epoch
    BY <1>1, <2>2 DEF LinksInv, EpochsRise, L
  <2>5. checkpoints[n].previous = n - 1
    BY DEF LinksInv, PlacesLinked, L
  <2> QED
    BY <1>1, <2>1, <2>2, <2>3, <2>4, <2>5
<1>4. /\ checkpoints[L].epoch >= checkpoints[anchor].epoch
      /\ checkpoints[L].epoch = checkpoints[anchor].epoch => L = anchor /\ between = {}
  <2>1. anchor < L => checkpoints[anchor].epoch < checkpoints[L].epoch
    BY <1>1 DEF LinksInv, EpochsRise, L
  <2> QED
    BY <1>1, <1>2, <2>1
<1>5. \A n \in between : checkpoints[n].previous = before(n)
                         /\ checkpoints[n].epoch > checkpoints[before(n)].epoch
  BY <1>1, <1>2, <1>3
<1>6. L # anchor => checkpoints[L].previous = before(L)
  BY <1>1, <1>3
<1> QED
  BY <1>4, <1>5, <1>6 DEF Registry!VerifyCheckpoint, between
-----------------------------------------------------------------------------
(* Framed sockets.  How many frames an end has read and written follows    *)
(* from its place in its script; what it took of the stream, from the      *)
(* frames it read.                                                         *)
Stream(n) == n * Pieces
ReadBy(e, step) == IF e = "client" THEN (step - 1) \div 2 ELSE step \div 2
WrittenBy(e, step) == IF e = "client" THEN step \div 2 ELSE (step - 1) \div 2
InOrder(n) == [i \in 1 .. n |-> i]

EndRecords == [terminal : BOOLEAN, operation : {"none", "read", "write"}, paused : BOOLEAN,
               taken : Nat, ready : Nat, receiveAfterWrite : BOOLEAN, step : 1 .. 5,
               got : Seq(Nat)]

EndInv(e, x) ==
    LET k == ReadBy(e, x.step)
    IN  /\ x \in EndRecords
        /\ x.got = InOrder(k)
        /\ x.operation # "none" =>
                ~ x.terminal /\ x.step <= 4 /\ Socket!Script(e)[x.step] = x.operation
        /\ ~ x.terminal =>
                \/ x.ready = 0 /\ Stream(k) <= x.taken /\ x.taken < Stream(k + 1)
                \/ x.ready = k + 1 /\ x.taken = Stream(k + 1)

(* An end within its script expects what may come while it is not reading, *)
(* from its write on, unless it has not begun to receive.                  *)
Going(e, x) ==
    /\ ~ x.terminal /\ x.step <= 4
    /\ x.operation = "write" => x.receiveAfterWrite
    /\ x.operation = "none" /\ Socket!Script(e)[x.step] = "read" =>
            x.receiveAfterWrite \/ x.paused

Wrote(e, x) == WrittenBy(e, x.step) + IF x.operation = "write" THEN 1 ELSE 0

InStep ==
    \A e \in Socket!Ends :
        LET p == Socket!Peer(e)
        IN  /\ Going(e, ends[e])
            /\ carried[e] = Stream(Wrote(p, ends[p])) /\ ends[e].taken <= carried[e]

SocketTypes ==
    /\ ends \in [Socket!Ends -> EndRecords] /\ carried \in [Socket!Ends -> Nat]
    /\ cut \in BOOLEAN
Disturbed == cut \/ \E e \in Socket!Ends : ends[e].step > 4

SocketInv ==
    /\ SocketTypes
    /\ \A e \in Socket!Ends : EndInv(e, ends[e])
    /\ Disturbed \/ InStep

LEMMA TwoEnds ==
    \A e \in Socket!Ends : /\ Socket!Peer(e) \in Socket!Ends /\ Socket!Peer(e) # e
                           /\ Socket!Peer(Socket!Peer(e)) = e
                           /\ Socket!Ends = {e, Socket!Peer(e)}
BY DEF Socket!Ends, Socket!Peer

LEMMA StreamGrows ==
    /\ Pieces \in Nat \ {0}
    /\ \A n \in Nat : Stream(n) \in Nat /\ Stream(n + 1) = Stream(n) + Pieces
    /\ \A m, n \in Nat : Stream(m) <= Stream(n) => m <= n
    /\ \A m, n \in Nat : m <= n => Stream(m) <= Stream(n)
<1>1. Pieces \in Nat \ {0}
  BY FrameConstants DEF Socket!SocketConstants
<1>2. ASSUME NEW n \in Nat PROVE Stream(n) \in Nat /\ Stream(n + 1) = Stream(n) + Pieces
  BY <1>1 DEF Stream
<1>3. ASSUME NEW m \in Nat, NEW n \in Nat, m <= n PROVE Stream(m) <= Stream(n)
  BY <1>1, <1>3 DEF Stream
<1>4. ASSUME NEW m \in Nat, NEW n \in Nat, Stream(m) <= Stream(n) PROVE m <= n
  <2> SUFFICES ASSUME n + 1 <= m PROVE FALSE
    OBVIOUS
  <2>1. Stream(n + 1) <= Stream(m)
    BY <1>3
  <2> QED
    BY <1>1, <1>2, <1>4, <2>1
<1> QED
  BY <1>1, <1>2, <1>3, <1>4

(* The frame that ends at a place of the stream, and what is left of one.  *)
LEMMA FrameOfPlace ==
    ASSUME NEW k \in Nat, NEW taken \in Nat, Stream(k) <= taken, taken < Stream(k + 1)
    PROVE  /\ taken \div Pieces = k /\ taken % Pieces = taken - Stream(k)
           /\ Stream(k + 1) \div Pieces = k + 1
<1>1. Pieces \in Nat \ {0} /\ Stream(k) \in Nat /\ Stream(k + 1) = Stream(k) + Pieces
  BY StreamGrows
<1>2. ASSUME NEW q \in Nat, Stream(q) <= taken, taken < Stream(q + 1) PROVE q = k
  <2>0. q + 1 \in Nat /\ k + 1 \in Nat
    OBVIOUS
  <2>1. /\ Stream(q) \in Nat /\ Stream(q + 1) \in Nat /\ Stream(k) \in Nat /\ Stream(k + 1) \in Nat
    BY <2>0, StreamGrows
  <2>2. ~ (q + 1 <= k)
    <3>1. q + 1 <= k => Stream(q + 1) <= Stream(k)
      BY <2>0, StreamGrows
    <3> QED
      BY <1>2, <2>1, <3>1
  <2>3. ~ (k + 1 <= q)
    <3>1. k + 1 <= q => Stream(k + 1) <= Stream(q)
      BY <2>0, StreamGrows
    <3> QED
      BY <1>2, <2>1, <3>1
  <2> QED
    BY <2>2, <2>3
<1> DEFINE q == taken \div Pieces
           rest == taken % Pieces
<1>3. /\ q \in Nat /\ rest \in 0 .. Pieces - 1 /\ taken = Pieces * q + rest
  BY <1>1
<1>4. Pieces * q = Stream(q) /\ Stream(q + 1) = Stream(q) + Pieces /\ Stream(q) \in Nat
  BY <1>1, <1>3, StreamGrows DEF Stream
<1> HIDE DEF q, rest
<1>5. Stream(q) <= taken /\ taken < Stream(q + 1)
  BY <1>1, <1>3, <1>4
<1>6. q = k
  BY <1>2, <1>3, <1>5
<1>7. rest = taken - Stream(k)
  BY <1>1, <1>3, <1>4, <1>6
<1>8. Stream(k + 1) \div Pieces = k + 1
  BY <1>1 DEF Stream
<1> QED
  BY <1>6, <1>7, <1>8 DEF q, rest

LEMMA ScriptCounts ==
    ASSUME NEW e \in Socket!Ends, NEW step \in 1 .. 5
    PROVE  /\ ReadBy(e, step) \in 0 .. 2 /\ WrittenBy(e, step) \in 0 .. 2
           /\ step <= 4 =>
                \/ /\ Socket!Script(e)[step] = "read"
                   /\ ReadBy(e, step + 1) = ReadBy(e, step) + 1
                   /\ WrittenBy(e, step + 1) = WrittenBy(e, step)
                   /\ WrittenBy(e, step) = ReadBy(e, step) + (IF e = "client" THEN 1 ELSE 0)
                   /\ step < 4 => Socket!Script(e)[step + 1] = "write"
                \/ /\ Socket!Script(e)[step] = "write"
                   /\ ReadBy(e, step + 1) = ReadBy(e, step)
                   /\ WrittenBy(e, step + 1) = WrittenBy(e, step) + 1
                   /\ WrittenBy(e, step) = ReadBy(e, step) - (IF e = "client" THEN 0 ELSE 1)
                   /\ step < 4 => Socket!Script(e)[step + 1] = "read"
<1>1. CASE e = "client"
  <2>1. CASE step = 1
    BY <1>1, <2>1 DEF Socket!Script, ReadBy, WrittenBy
  <2>2. CASE step = 2
    BY <1>1, <2>2 DEF Socket!Script, ReadBy, WrittenBy
  <2>3. CASE step = 3
    BY <1>1, <2>3 DEF Socket!Script, ReadBy, WrittenBy
  <2>4. CASE step = 4
    BY <1>1, <2>4 DEF Socket!Script, ReadBy, WrittenBy
  <2>5. CASE step = 5
    BY <1>1, <2>5 DEF ReadBy, WrittenBy
  <2> QED
    BY <2>1, <2>2, <2>3, <2>4, <2>5
<1>2. CASE e = "server"
  <2>1. CASE step = 1
    BY <1>2, <2>1 DEF Socket!Script, ReadBy, WrittenBy
  <2>2. CASE step = 2
    BY <1>2, <2>2 DEF Socket!Script, ReadBy, WrittenBy
  <2>3. CASE step = 3
    BY <1>2, <2>3 DEF Socket!Script, ReadBy, WrittenBy
  <2>4. CASE step = 4
    BY <1>2, <2>4 DEF Socket!Script, ReadBy, WrittenBy
  <2>5. CASE step = 5
    BY <1>2, <2>5 DEF ReadBy, WrittenBy
  <2> QED
    BY <2>1, <2>2, <2>3, <2>4, <2>5
<1> QED
  BY <1>1, <1>2 DEF Socket!Ends

LEMMA OrderGrows ==
    ASSUME NEW k \in Nat
    PROVE  /\ InOrder(k) \in Seq(Nat) /\ Len(InOrder(k)) = k
           /\ Append(InOrder(k), k + 1) = InOrder(k + 1)
           /\ InOrder(0) = << >>
BY DEF InOrder

LEMMA SocketInit == ASSUME Socket!Init PROVE SocketInv
<1>1. ASSUME NEW e \in Socket!Ends
      PROVE  /\ ends[e] \in EndRecords /\ ~ ends[e].terminal
             /\ ends[e].operation = "none" /\ ends[e].taken = 0 /\ ends[e].ready = 0
             /\ ends[e].step = 1 /\ ends[e].got = << >> /\ carried[e] = 0
             /\ e = "server" => ends[e].paused
  <2>1. /\ carried[e] = 0
        /\ ends[e] = [terminal |-> FALSE, operation |-> "none", paused |-> e = "server",
                      taken |-> 0, ready |-> 0, receiveAfterWrite |-> FALSE,
                      step |-> 1, got |-> << >>]
    BY DEF Socket!Init
  <2>2. PICK paused \in BOOLEAN : paused = (e = "server")
    OBVIOUS
  <2>3. ends[e] = [terminal |-> FALSE, operation |-> "none", paused |-> paused,
                   taken |-> 0, ready |-> 0, receiveAfterWrite |-> FALSE,
                   step |-> 1, got |-> << >>]
    BY <2>1, <2>2
  <2>4. << >> \in Seq(Nat)
    OBVIOUS
  <2>5. ends[e] \in EndRecords
    BY <2>3, <2>4 DEF EndRecords
  <2>6. /\ ends[e].terminal = FALSE /\ ends[e].operation = "none" /\ ends[e].taken = 0
        /\ ends[e].ready = 0 /\ ends[e].step = 1 /\ ends[e].got = << >>
    BY <2>3
  <2>7. e = "server" => ends[e].paused
    <3>1. ends[e].paused = paused
      BY <2>3
    <3>2. e = "server" => paused
      BY <2>2
    <3> QED
      BY <3>1, <3>2
  <2> QED
    BY <2>1, <2>5, <2>6, <2>7
<1>2. /\ Stream(0) = 0 /\ Stream(0 + 1) = Pieces /\ Pieces \in Nat \ {0}
      /\ \A e \in Socket!Ends : ReadBy(e, 1) = 0 /\ WrittenBy(e, 1) = 0
  BY StreamGrows DEF Stream, ReadBy, WrittenBy, Socket!Ends
<1>3. Socket!Script("client")[1] = "write"
  BY DEF Socket!Script
<1>4. ASSUME NEW e \in Socket!Ends PROVE EndInv(e, ends[e])
  <2>1. ReadBy(e, ends[e].step) = 0 /\ InOrder(0) = << >>
    BY <1>1, <1>2, OrderGrows
  <2> QED
    BY <1>1, <1>2, <2>1 DEF EndInv
<1>5. InStep
  <2> SUFFICES ASSUME NEW e \in Socket!Ends
               PROVE  /\ Going(e, ends[e]) /\ ends[e].taken <= carried[e]
                      /\ carried[e] = Stream(Wrote(Socket!Peer(e), ends[Socket!Peer(e)]))
    BY DEF InStep
  <2>1. Going(e, ends[e])
    <3>1. CASE e = "client"
      BY <1>1, <1>3, <3>1 DEF Going
    <3>2. CASE e = "server"
      BY <1>1, <3>2 DEF Going
    <3> QED
      BY <3>1, <3>2 DEF Socket!Ends
  <2>2. ASSUME NEW p \in Socket!Ends PROVE Wrote(p, ends[p]) = 0
    <3>1. ends[p].step = 1 /\ ends[p].operation = "none" /\ WrittenBy(p, 1) = 0
      BY <1>1, <1>2
    <3> QED
      BY <3>1 DEF Wrote
  <2>3. Socket!Peer(e) \in Socket!Ends
    BY TwoEnds
  <2>4. Stream(Wrote(Socket!Peer(e), ends[Socket!Peer(e)])) = 0
    BY <1>2, <2>2, <2>3
  <2>5. ends[e].taken = 0 /\ carried[e] = 0
    BY <1>1
  <2> QED
    BY <2>1, <2>4, <2>5
<1>6. SocketTypes
  BY <1>1 DEF SocketTypes, Socket!Init
<1> QED
  BY <1>4, <1>5, <1>6 DEF SocketInv

(* What an end's own step has to keep of it, and of what the two share.    *)
LEMMA SocketMoves ==
    ASSUME SocketInv, NEW e \in Socket!Ends, NEW y, ends' = [ends EXCEPT ![e] = y],
           EndInv(e, y), y.step >= ends[e].step,
           carried' \in [Socket!Ends -> Nat], cut' \in BOOLEAN, cut => cut',
           Disturbed \/ cut' \/ y.step > 4 \/ InStep'
    PROVE  SocketInv'
<1>1. ends'[e] = y /\ \A p \in Socket!Ends \ {e} : ends'[p] = ends[p]
  BY DEF SocketInv, SocketTypes
<1>2. y \in EndRecords
  BY DEF EndInv
<1>3. SocketTypes'
  BY <1>2 DEF SocketInv, SocketTypes
<1>4. \A p \in Socket!Ends : EndInv(p, ends'[p])
  BY <1>1 DEF SocketInv
<1>5. ASSUME NEW p \in Socket!Ends, ends[p].step > 4 PROVE ends'[p].step > 4
  <2>1. ends[p].step \in 1 .. 5 /\ y.step \in 1 .. 5
    BY <1>2 DEF EndRecords, SocketInv, SocketTypes
  <2> QED
    BY <1>1, <1>5, <2>1
<1>6. Disturbed => Disturbed'
  BY <1>5 DEF Disturbed
<1>7. cut' \/ y.step > 4 => Disturbed'
  BY <1>1 DEF Disturbed
<1>8. Disturbed' \/ InStep'
  BY <1>6, <1>7
<1> QED
  BY <1>3, <1>4, <1>8 DEF SocketInv, EndInv

LEMMA InStepMoves ==
    ASSUME SocketInv, InStep, NEW e \in Socket!Ends, NEW y, ends' = [ends EXCEPT ![e] = y],
           UNCHANGED carried, Going(e, y), y.taken <= carried[e], Wrote(e, y) = Wrote(e, ends[e])
    PROVE  InStep'
<1>1. ends'[e] = y /\ \A p \in Socket!Ends \ {e} : ends'[p] = ends[p]
  BY DEF SocketInv, SocketTypes
<1>2. \A p \in Socket!Ends : Wrote(p, ends'[p]) = Wrote(p, ends[p])
  BY <1>1
<1>3. ASSUME NEW p \in Socket!Ends PROVE Going(p, ends'[p]) /\ ends'[p].taken <= carried[p]
  BY <1>1 DEF InStep
<1> QED
  BY <1>2, <1>3, TwoEnds DEF InStep, Going, Wrote

(* The end that reads a whole frame: at once or when it arrives.           *)
LEMMA FrameRead ==
    ASSUME NEW e \in Socket!Ends, NEW x, NEW y, EndInv(e, x), ~ x.terminal, x.step <= 4,
           Socket!Script(e)[x.step] = "read", y \in EndRecords,
           y.terminal = FALSE, y.operation = "none", y.ready = 0, y.step = x.step + 1,
           y.taken = Stream(ReadBy(e, x.step) + 1),
           y.got = Append(x.got, ReadBy(e, x.step) + 1)
    PROVE  /\ EndInv(e, y)
           /\ y.step <= 4 => Going(e, y)
           /\ x.operation # "write" => Wrote(e, y) = Wrote(e, x)
<1> DEFINE k == ReadBy(e, x.step)
<1>1. x.step \in 1 .. 5 /\ x \in EndRecords
  BY DEF EndInv, EndRecords
<1>2. /\ k \in 0 .. 2 /\ ReadBy(e, x.step + 1) = k + 1
      /\ WrittenBy(e, x.step + 1) = WrittenBy(e, x.step)
      /\ x.step < 4 => Socket!Script(e)[x.step + 1] = "write"
  BY <1>1, ScriptCounts
<1>3. x.got = InOrder(k) /\ y.got = Append(x.got, k + 1) /\ k \in Nat
  BY <1>2 DEF EndInv
<1> HIDE DEF k
<1>4. y.got = InOrder(k + 1)
  BY <1>3, OrderGrows
<1>5. /\ Stream(k + 1) \in Nat /\ Stream(k + 1) < Stream(k + 1 + 1)
  <2>1. k + 1 \in Nat
    BY <1>3
  <2>2. Stream(k + 1) \in Nat /\ Stream(k + 1 + 1) = Stream(k + 1) + Pieces /\ Pieces \in Nat \ {0}
    BY <2>1, StreamGrows
  <2> QED
    BY <2>2
<1>6. EndInv(e, y)
  BY <1>2, <1>4, <1>5 DEF EndInv, k
<1>7. y.step <= 4 => Going(e, y)
  BY <1>1, <1>2 DEF Going
<1>8. x.operation # "write" => Wrote(e, y) = Wrote(e, x)
  BY <1>2 DEF Wrote
<1> QED
  BY <1>6, <1>7, <1>8

LEMMA SocketRead == ASSUME SocketInv, NEW e \in Socket!Ends, Socket!Read(e) PROVE SocketInv'
<1> DEFINE x == ends[e]
           k == ReadBy(e, x.step)
<1>1. /\ EndInv(e, x) /\ x \in EndRecords /\ ~ x.terminal /\ x.operation = "none" /\ x.step <= 4
      /\ Socket!Script(e)[x.step] = "read" /\ UNCHANGED <<carried, cut>>
      /\ carried' \in [Socket!Ends -> Nat] /\ cut' \in BOOLEAN
  BY DEF Socket!Read, Socket!Running, SocketInv, SocketTypes
<1>2. CASE x.ready > 0
  <2> DEFINE y == [Socket!Got([x EXCEPT !.paused = FALSE], x.ready) EXCEPT !.ready = 0]
  <2>1. ends' = [ends EXCEPT ![e] = y]
    BY <1>1, <1>2 DEF Socket!Read, Socket!Becomes, EndRecords
  <2>2. k \in 0 .. 2 /\ x.ready = k + 1 /\ x.taken = Stream(k + 1)
    BY <1>1, <1>2, ScriptCounts DEF EndInv, EndRecords
  <2>3. y \in EndRecords
    <3>1. x.step + 1 \in 1 .. 5 /\ Append(x.got, x.ready) \in Seq(Nat)
      BY <1>1 DEF EndRecords
    <3> QED
      BY <1>1, <3>1 DEF EndRecords, Socket!Got, Socket!Stepped
  <2>4. /\ y.terminal = FALSE /\ y.operation = "none" /\ y.ready = 0 /\ y.step = x.step + 1
        /\ y.taken = x.taken /\ y.got = Append(x.got, x.ready)
    BY <1>1 DEF EndRecords, Socket!Got, Socket!Stepped
  <2> HIDE DEF x, y
  <2>5. EndInv(e, y) /\ (y.step <= 4 => Going(e, y)) /\ Wrote(e, y) = Wrote(e, x)
    BY <1>1, <2>2, <2>3, <2>4, FrameRead
  <2>6. y.step >= ends[e].step
    BY <1>1, <2>4 DEF EndRecords, x
  <2>7. InStep => y.taken <= carried[e]
    BY <2>4 DEF InStep, x
  <2>8. InStep /\ y.step <= 4 => InStep'
    BY <1>1, <2>1, <2>5, <2>7, InStepMoves DEF x
  <2>9. y.step \in Nat
    BY <2>3 DEF EndRecords
  <2>10. Disturbed \/ y.step > 4 \/ InStep'
    BY <2>8, <2>9 DEF SocketInv
  <2> QED
    BY <1>1, <2>1, <2>5, <2>6, <2>10, SocketMoves
<1>3. CASE ~ (x.ready > 0)
  <2> DEFINE y == [x EXCEPT !.paused = FALSE, !.operation = "read", !.receiveAfterWrite = FALSE]
  <2>1. ends' = [ends EXCEPT ![e] = y]
    BY <1>1, <1>3 DEF Socket!Read, Socket!Becomes, EndRecords
  <2>2. /\ y \in EndRecords /\ y.terminal = FALSE /\ y.operation = "read" /\ y.ready = x.ready
        /\ y.step = x.step /\ y.taken = x.taken /\ y.got = x.got
    BY <1>1 DEF EndRecords
  <2> HIDE DEF x, y
  <2>3. EndInv(e, y)
    BY <1>1, <2>2 DEF EndInv
  <2>4. Going(e, y) /\ Wrote(e, y) = Wrote(e, x)
    BY <1>1, <2>2 DEF Going, Wrote
  <2>5. InStep => y.taken <= carried[e]
    BY <2>2 DEF InStep, x
  <2>6. InStep => InStep'
    BY <1>1, <2>1, <2>4, <2>5, InStepMoves DEF x
  <2>7. y.step >= ends[e].step
    BY <1>1, <2>2 DEF EndRecords, x
  <2> QED
    BY <1>1, <2>1, <2>3, <2>6, <2>7, SocketMoves DEF SocketInv
<1> QED
  BY <1>2, <1>3

LEMMA SocketWrite == ASSUME SocketInv, NEW e \in Socket!Ends, Socket!Write(e) PROVE SocketInv'
<1> DEFINE x == ends[e]
           p == Socket!Peer(e)
           y == [x EXCEPT !.operation = "write", !.receiveAfterWrite = TRUE]
<1>1. /\ EndInv(e, x) /\ x \in EndRecords /\ ~ x.terminal /\ x.operation = "none" /\ x.step <= 4
      /\ Socket!Script(e)[x.step] = "write" /\ ends' = [ends EXCEPT ![e] = y]
      /\ carried' = [carried EXCEPT ![p] = @ + Pieces] /\ UNCHANGED cut
  BY DEF Socket!Write, Socket!Running, Socket!Becomes, Socket!ExpectAnswer, SocketInv, SocketTypes
<1>2. /\ p \in Socket!Ends /\ p # e /\ Socket!Peer(p) = e /\ Socket!Ends = {e, p}
  BY TwoEnds
<1>3. /\ y \in EndRecords /\ ~ y.terminal /\ y.operation = "write" /\ y.receiveAfterWrite
      /\ y.ready = x.ready /\ y.step = x.step /\ y.taken = x.taken /\ y.got = x.got
  BY <1>1 DEF EndRecords
<1> HIDE DEF y
<1>4. /\ carried \in [Socket!Ends -> Nat] /\ ends \in [Socket!Ends -> EndRecords] /\ cut \in BOOLEAN
  BY DEF SocketInv, SocketTypes
<1>5. /\ carried' \in [Socket!Ends -> Nat] /\ carried'[p] = carried[p] + Pieces
      /\ carried'[e] = carried[e] /\ ends'[e] = y /\ ends'[p] = ends[p]
  <2>1. carried[p] + Pieces \in Nat
    <3>1. carried[p] \in Nat /\ Pieces \in Nat
      BY <1>2, <1>4, StreamGrows
    <3> QED
      BY <3>1
  <2>2. carried' \in [Socket!Ends -> Nat] /\ carried'[p] = carried[p] + Pieces
        /\ carried'[e] = carried[e]
    BY <1>1, <1>2, <1>4, <2>1
  <2>3. ends'[e] = y /\ ends'[p] = ends[p]
    BY <1>1, <1>2, <1>4
  <2> QED
    BY <2>2, <2>3
<1>6. EndInv(e, y)
  BY <1>1, <1>3 DEF EndInv
<1>7. ASSUME InStep PROVE InStep'
  <2>1. Going(e, y)
    BY <1>1, <1>3 DEF Going
  <2>2. Going(p, ends'[p]) /\ Wrote(p, ends'[p]) = Wrote(p, ends[p])
    BY <1>2, <1>5, <1>7 DEF InStep
  <2>3. /\ carried[p] = Stream(Wrote(e, x)) /\ carried[e] = Stream(Wrote(p, ends[p]))
        /\ ends[e].taken <= carried[e] /\ ends[p].taken <= carried[p]
    BY <1>2, <1>7 DEF InStep
  <2>4. Wrote(e, x) \in Nat /\ Wrote(e, y) = Wrote(e, x) + 1
    <3>1. WrittenBy(e, x.step) \in 0 .. 2
      BY <1>1, ScriptCounts DEF EndRecords
    <3> QED
      BY <1>1, <1>3, <3>1 DEF Wrote
  <2>5. carried'[p] = Stream(Wrote(e, y))
    BY <1>5, <2>3, <2>4, StreamGrows
  <2>6. ends[p].taken \in Nat /\ Pieces \in Nat
    BY <1>2, <1>4, StreamGrows DEF EndRecords
  <2>7. ends'[p].taken <= carried'[p] /\ ends'[e].taken <= carried'[e]
    BY <1>2, <1>3, <1>4, <1>5, <2>3, <2>6
  <2>8. ASSUME NEW q \in Socket!Ends
        PROVE  /\ Going(q, ends'[q]) /\ ends'[q].taken <= carried'[q]
               /\ carried'[q] = Stream(Wrote(Socket!Peer(q), ends'[Socket!Peer(q)]))
    <3>1. CASE q = e
      BY <1>2, <1>5, <2>1, <2>2, <2>3, <2>7, <3>1
    <3>2. CASE q = p
      BY <1>2, <1>5, <2>2, <2>5, <2>7, <3>2
    <3> QED
      BY <1>2, <3>1, <3>2
  <2> QED
    BY <2>8 DEF InStep, Going, Wrote
<1>8. y.step >= ends[e].step
  BY <1>1, <1>3 DEF EndRecords
<1>9. Disturbed \/ InStep'
  BY <1>7 DEF SocketInv
<1> QED
  BY <1>1, <1>4, <1>5, <1>6, <1>8, <1>9, SocketMoves

LEMMA SocketConfirmed ==
    ASSUME SocketInv, NEW e \in Socket!Ends, Socket!Confirmed(e) PROVE SocketInv'
<1> DEFINE x == ends[e]
           k == ReadBy(e, x.step)
           y == [x EXCEPT !.operation = "none", !.step = @ + 1]
<1>1. /\ EndInv(e, x) /\ x \in EndRecords /\ x.operation = "write"
      /\ ends' = [ends EXCEPT ![e] = y] /\ UNCHANGED <<carried, cut>>
      /\ carried' \in [Socket!Ends -> Nat] /\ cut' \in BOOLEAN
  BY DEF Socket!Confirmed, Socket!Stepped, Socket!Becomes, SocketInv, SocketTypes
<1>2. ~ x.terminal /\ x.step \in 1 .. 4 /\ Socket!Script(e)[x.step] = "write"
  BY <1>1 DEF EndInv, EndRecords
<1>3. /\ ReadBy(e, x.step + 1) = k /\ WrittenBy(e, x.step + 1) = WrittenBy(e, x.step) + 1
      /\ WrittenBy(e, x.step) \in 0 .. 2
      /\ x.step < 4 => Socket!Script(e)[x.step + 1] = "read"
  BY <1>2, ScriptCounts
<1>4. /\ y \in EndRecords /\ ~ y.terminal /\ y.operation = "none" /\ y.step = x.step + 1
      /\ y.ready = x.ready /\ y.taken = x.taken /\ y.got = x.got
      /\ y.receiveAfterWrite = x.receiveAfterWrite
  <2>1. x.step + 1 \in 1 .. 5
    BY <1>2
  <2> QED
    BY <1>1, <1>2, <2>1 DEF EndRecords
<1> HIDE DEF x, y
<1>5. EndInv(e, y)
  BY <1>1, <1>2, <1>3, <1>4 DEF EndInv
<1>6. InStep => y.taken <= carried[e] /\ x.receiveAfterWrite
  BY <1>1, <1>4 DEF InStep, Going, x
<1>7. Wrote(e, y) = Wrote(e, x)
  BY <1>1, <1>3, <1>4 DEF Wrote
<1>8. InStep /\ y.step <= 4 => Going(e, y)
  BY <1>2, <1>4, <1>6 DEF Going
<1>9. InStep /\ y.step <= 4 => InStep'
  BY <1>1, <1>6, <1>7, <1>8, InStepMoves DEF x
<1>10. Disturbed \/ y.step > 4 \/ InStep'
  BY <1>2, <1>4, <1>9 DEF SocketInv
<1>11. y.step >= ends[e].step
  BY <1>2, <1>4 DEF x
<1> QED
  BY <1>1, <1>5, <1>10, <1>11, SocketMoves

LEMMA EndCloses ==
    ASSUME NEW e, NEW x, EndInv(e, x)
    PROVE  EndInv(e, Socket!Closed(x)) /\ Socket!Closed(x).step = x.step
<1> DEFINE y == Socket!Closed(x)
<1>1. x \in EndRecords
  BY DEF EndInv
<1>2. /\ y \in EndRecords /\ y.terminal = TRUE /\ y.operation = "none"
      /\ y.step = x.step /\ y.got = x.got
  BY <1>1 DEF EndRecords, Socket!Closed
<1> HIDE DEF y
<1>3. EndInv(e, y)
  BY <1>2 DEF EndInv
<1> QED
  BY <1>2, <1>3 DEF y

(* An end that closes is disturbed, or leaves a session that is over. *)
LEMMA SocketCloses ==
    ASSUME SocketInv, NEW e \in Socket!Ends, ends' = [ends EXCEPT ![e] = Socket!Closed(ends[e])],
           UNCHANGED carried, cut' \in BOOLEAN, cut => cut', Disturbed \/ cut'
    PROVE  SocketInv'
<1>1. EndInv(e, ends[e]) /\ ends[e].step \in 1 .. 5 /\ carried' \in [Socket!Ends -> Nat]
  BY DEF SocketInv, SocketTypes, EndRecords
<1> DEFINE y == Socket!Closed(ends[e])
<1>2. EndInv(e, y) /\ y.step = ends[e].step
  BY <1>1, EndCloses
<1>3. y.step >= ends[e].step
  BY <1>1, <1>2
<1> HIDE DEF y
<1>4. ends' = [ends EXCEPT ![e] = y]
  BY DEF y
<1> QED
  BY <1>1, <1>2, <1>3, <1>4, SocketMoves

(* Between two ends that keep to the protocol no more is carried than the  *)
(* frame that is read next, and none while an end expects none.            *)
LEMMA DataWelcome ==
    ASSUME SocketInv, InStep, NEW e \in Socket!Ends
    PROVE  LET x == ends[e]
               k == ReadBy(e, x.step)
           IN  /\ carried[e] <= Stream(k + 1)
               /\ x.operation = "none" /\ ~ x.receiveAfterWrite /\ ~ x.paused =>
                        carried[e] <= Stream(k)
<1> DEFINE Fits(q) == ReadBy(q, ends[q].step) <= Wrote(Socket!Peer(q), ends[Socket!Peer(q)])
           Most(q) == ReadBy(q, ends[q].step) + (IF q = "client" THEN 1 ELSE 0)
           Waits(q) == ends[q].operation = "none" /\ ~ ends[q].receiveAfterWrite /\ ~ ends[q].paused
<1>1. ASSUME NEW q \in Socket!Ends
      PROVE  /\ ReadBy(q, ends[q].step) \in 0 .. 2 /\ Wrote(q, ends[q]) \in Nat
             /\ Wrote(q, ends[q]) <= Most(q)
             /\ Waits(q) => Wrote(q, ends[q]) + 1 <= Most(q)
  <2>1. /\ ends[q] \in EndRecords /\ Going(q, ends[q]) /\ EndInv(q, ends[q])
    BY DEF SocketInv, SocketTypes, InStep
  <2>2. ends[q].step \in 1 .. 5 /\ ends[q].step <= 4
    BY <2>1 DEF EndRecords, Going
  <2>3. /\ ReadBy(q, ends[q].step) \in 0 .. 2 /\ WrittenBy(q, ends[q].step) \in 0 .. 2
        /\ \/ /\ Socket!Script(q)[ends[q].step] = "read"
              /\ WrittenBy(q, ends[q].step) = Most(q)
           \/ /\ Socket!Script(q)[ends[q].step] = "write"
              /\ WrittenBy(q, ends[q].step) + 1 = Most(q)
    BY <2>2, ScriptCounts
  <2>4. ends[q].operation = "write" => Socket!Script(q)[ends[q].step] = "write"
    BY <2>1 DEF EndInv
  <2>5. Waits(q) => Socket!Script(q)[ends[q].step] = "write"
    BY <2>1, <2>3 DEF Going
  <2> HIDE DEF Most
  <2> QED
    BY <2>3, <2>4, <2>5 DEF Wrote
<1>2. ASSUME NEW q \in Socket!Ends PROVE Fits(q)
  <2> DEFINE p == Socket!Peer(q)
  <2>1. /\ EndInv(q, ends[q]) /\ ~ ends[q].terminal /\ ends[q].taken <= carried[q]
        /\ carried[q] = Stream(Wrote(p, ends[p])) /\ ends[q] \in EndRecords
    BY DEF SocketInv, SocketTypes, InStep, Going
  <2>2. /\ ReadBy(q, ends[q].step) \in Nat /\ ReadBy(q, ends[q].step) + 1 \in Nat
        /\ Wrote(p, ends[p]) \in Nat /\ ends[q].taken \in Nat
    BY <1>1, <2>1, TwoEnds DEF EndRecords
  <2>3. /\ Stream(ReadBy(q, ends[q].step)) \in Nat /\ Stream(Wrote(p, ends[p])) \in Nat
        /\ Stream(ReadBy(q, ends[q].step)) <= Stream(ReadBy(q, ends[q].step) + 1)
    BY <2>2, StreamGrows
  <2>4. Stream(ReadBy(q, ends[q].step)) <= ends[q].taken
    BY <2>1, <2>2, <2>3 DEF EndInv
  <2>5. Stream(ReadBy(q, ends[q].step)) <= Stream(Wrote(p, ends[p]))
    BY <2>1, <2>2, <2>3, <2>4
  <2> QED
    BY <2>2, <2>5, StreamGrows
<1> DEFINE p == Socket!Peer(e)
           k == ReadBy(e, ends[e].step)
           w == Wrote(p, ends[p])
<1>3. /\ p \in Socket!Ends /\ p # e /\ Socket!Peer(p) = e /\ (p = "client" <=> e = "server")
      /\ (e = "client" <=> e # "server")
  BY DEF Socket!Ends, Socket!Peer
<1>4. /\ w <= k + 1 /\ (Waits(e) => w <= k) /\ w \in Nat /\ k \in Nat
  <2>1. /\ k <= Wrote(p, ends[p]) /\ ReadBy(p, ends[p].step) <= Wrote(e, ends[e])
    BY <1>2, <1>3
  <2>2. /\ w \in Nat /\ k \in 0 .. 2 /\ Wrote(e, ends[e]) \in Nat
        /\ ReadBy(p, ends[p].step) \in 0 .. 2
        /\ w <= ReadBy(p, ends[p].step) + (IF p = "client" THEN 1 ELSE 0)
        /\ Wrote(e, ends[e]) <= k + (IF e = "client" THEN 1 ELSE 0)
        /\ Waits(e) => Wrote(e, ends[e]) + 1 <= k + (IF e = "client" THEN 1 ELSE 0)
    BY <1>1, <1>3
  <2> HIDE DEF w, k, Waits
  <2> QED
    BY <1>3, <2>1, <2>2
<1>5. carried[e] = Stream(w)
  BY DEF InStep
<1> HIDE DEF w, k
<1>6. /\ carried[e] <= Stream(k + 1) /\ (Waits(e) => carried[e] <= Stream(k))
  <2>1. k + 1 \in Nat
    BY <1>4
  <2>2. Stream(w) <= Stream(k + 1)
    BY <1>4, <2>1, StreamGrows
  <2>3. w <= k => Stream(w) <= Stream(k)
    BY <1>4, StreamGrows
  <2> HIDE DEF Waits
  <2> QED
    BY <1>4, <1>5, <2>2, <2>3
<1> QED
  BY <1>6 DEF k

LEMMA SocketData ==
    ASSUME SocketInv, NEW e \in Socket!Ends, NEW n \in 1 .. 2 * Pieces, Socket!Data(e, n)
    PROVE  SocketInv'
<1> DEFINE x == ends[e]
           k == ReadBy(e, x.step)
           t == Socket!Taken(x, n)
<1>1. /\ EndInv(e, x) /\ x \in EndRecords /\ ~ x.terminal /\ ~ x.paused /\ n <= carried[e] - x.taken
      /\ ends' = [ends EXCEPT ![e] = Socket!Received(x, n)] /\ UNCHANGED <<carried, cut>>
      /\ carried[e] \in Nat /\ carried' \in [Socket!Ends -> Nat] /\ cut' \in BOOLEAN
  BY DEF Socket!Data, Socket!Becomes, SocketInv, SocketTypes
<1>2. /\ x.step \in 1 .. 5 /\ x.taken \in Nat /\ x.ready \in Nat /\ k \in 0 .. 2 /\ k \in Nat
      /\ k + 1 \in Nat /\ n \in Nat /\ n >= 1 /\ Pieces \in Nat \ {0}
      /\ Stream(k) \in Nat /\ Stream(k + 1) \in Nat /\ Stream(k + 1) = Stream(k) + Pieces
  <2>1. x.step \in 1 .. 5 /\ x.taken \in Nat /\ x.ready \in Nat
    BY <1>1 DEF EndRecords
  <2>2. k \in 0 .. 2 /\ Pieces \in Nat \ {0}
    BY <2>1, ScriptCounts, StreamGrows
  <2>3. k \in Nat /\ k + 1 \in Nat
    BY <2>2
  <2> HIDE DEF k
  <2>4. Stream(k) \in Nat /\ Stream(k + 1) \in Nat /\ Stream(k + 1) = Stream(k) + Pieces
    BY <2>3, StreamGrows
  <2>5. n \in Nat /\ n >= 1
    BY <2>2
  <2> QED
    BY <2>1, <2>2, <2>3, <2>4, <2>5
<1>3. /\ t \in EndRecords /\ ~ t.terminal /\ t.operation = x.operation /\ t.paused = x.paused
      /\ t.taken = x.taken + n /\ t.ready = x.ready /\ t.step = x.step /\ t.got = x.got
      /\ t.receiveAfterWrite = x.receiveAfterWrite
  <2>1. x.taken + n \in Nat
    BY <1>2
  <2> QED
    BY <1>1, <2>1 DEF EndRecords, Socket!Taken
<1>4. CASE Socket!Unwelcome(x) \/ n > Socket!Rest(x)
  <2>1. Socket!Received(x, n) = Socket!Closed(x)
    BY <1>4 DEF Socket!Received
  <2>2. ~ InStep
    <3> SUFFICES ASSUME InStep PROVE FALSE
      OBVIOUS
    <3>1. /\ carried[e] <= Stream(k + 1)
          /\ x.operation = "none" /\ ~ x.receiveAfterWrite => carried[e] <= Stream(k)
      BY <1>1, DataWelcome
    <3>2. x.ready = 0 /\ Stream(k) <= x.taken /\ x.taken < Stream(k + 1)
      <4>1. x.taken < Stream(k + 1)
        BY <1>1, <1>2, <3>1
      <4> QED
        BY <1>1, <1>2, <4>1 DEF EndInv
    <3>3. ~ Socket!Unwelcome(x)
      BY <1>1, <1>2, <3>1, <3>2 DEF Socket!Unwelcome
    <3>4. Socket!Rest(x) = Pieces - (x.taken - Stream(k))
      BY <1>2, <3>2, FrameOfPlace DEF Socket!Rest
    <3> QED
      BY <1>1, <1>2, <1>4, <3>1, <3>2, <3>3, <3>4
  <2>3. cut => cut'
    BY <1>1
  <2> QED
    BY <1>1, <2>1, <2>2, <2>3, SocketCloses DEF SocketInv
<1>5. CASE ~ (Socket!Unwelcome(x) \/ n > Socket!Rest(x))
  <2>1. x.ready = 0 /\ Stream(k) <= x.taken /\ x.taken < Stream(k + 1)
    BY <1>1, <1>2, <1>5 DEF EndInv, Socket!Unwelcome
  <2>2. Socket!Rest(x) = Pieces - (x.taken - Stream(k))
    BY <1>2, <2>1, FrameOfPlace DEF Socket!Rest
  <2>3. CASE n < Socket!Rest(x)
    <3>1. Socket!Received(x, n) = t
      BY <1>5, <2>3 DEF Socket!Received
    <3>2. Stream(k) <= t.taken /\ t.taken < Stream(k + 1)
      BY <1>2, <1>3, <2>1, <2>2, <2>3
    <3> HIDE DEF t
    <3>3. EndInv(e, t)
      BY <1>1, <1>3, <2>1, <3>2 DEF EndInv
    <3>4. Wrote(e, t) = Wrote(e, x)
      BY <1>3 DEF Wrote
    <3>5. InStep => Going(e, t)
      BY <1>3 DEF InStep, Going
    <3>6. t.taken <= carried[e] /\ t.step >= ends[e].step
      BY <1>1, <1>2, <1>3
    <3>7. InStep => InStep'
      BY <1>1, <3>1, <3>4, <3>5, <3>6, InStepMoves
    <3>8. Disturbed \/ InStep'
      BY <3>7 DEF SocketInv
    <3> QED
      BY <1>1, <3>1, <3>3, <3>6, <3>8, SocketMoves
  <2>4. CASE n = Socket!Rest(x)
    <3>1. t.taken = Stream(k + 1)
      BY <1>2, <1>3, <2>1, <2>2, <2>4
    <3>2. Socket!Frame(t) = k + 1
      BY <1>2, <2>1, <3>1, FrameOfPlace DEF Socket!Frame
    <3>3. t.taken <= carried[e]
      BY <1>1, <1>2, <1>3
    <3>4. CASE x.operation = "read"
      <4> DEFINE y == Socket!Got(t, k + 1)
      <4>1. Socket!Received(x, n) = y
        BY <1>2, <1>5, <2>2, <2>4, <3>2, <3>4 DEF Socket!Received
      <4>2. x.step <= 4 /\ Socket!Script(e)[x.step] = "read"
        BY <1>1, <3>4 DEF EndInv
      <4>3. y \in EndRecords
        <5>1. t.step + 1 \in 1 .. 5
          BY <1>2, <1>3, <4>2
        <5>2. Append(t.got, k + 1) \in Seq(Nat)
          BY <1>1, <1>2, <1>3 DEF EndRecords
        <5> HIDE DEF t, k
        <5> QED
          BY <1>3, <5>1, <5>2 DEF EndRecords, Socket!Got, Socket!Stepped
      <4>4. /\ y.terminal = FALSE /\ y.operation = "none" /\ y.ready = 0 /\ y.step = x.step + 1
            /\ y.taken = t.taken /\ y.got = Append(x.got, k + 1)
        <5> HIDE DEF t, k
        <5> QED
          BY <1>3, <2>1 DEF EndRecords, Socket!Got, Socket!Stepped
      <4> HIDE DEF y
      <4>5. EndInv(e, y) /\ (y.step <= 4 => Going(e, y)) /\ Wrote(e, y) = Wrote(e, x)
        BY <1>1, <3>1, <3>4, <4>2, <4>3, <4>4, FrameRead
      <4>6. y.step >= ends[e].step /\ y.step \in Nat /\ y.taken <= carried[e]
        <5>1. y.step = ends[e].step + 1 /\ ends[e].step \in 1 .. 5
          BY <1>2, <4>4
        <5> QED
          BY <3>3, <4>4, <5>1
      <4>7. InStep /\ y.step <= 4 => InStep'
        BY <1>1, <4>1, <4>5, <4>6, InStepMoves
      <4>8. Disturbed \/ y.step > 4 \/ InStep'
        BY <4>6, <4>7 DEF SocketInv
      <4> QED
        BY <1>1, <4>1, <4>5, <4>6, <4>8, SocketMoves
    <3>5. CASE x.operation # "read"
      <4> DEFINE y == [t EXCEPT !.ready = k + 1]
      <4>1. Socket!Received(x, n) = y
        BY <1>2, <1>5, <2>2, <2>4, <3>2, <3>5 DEF Socket!Received
      <4>2. /\ y \in EndRecords /\ ~ y.terminal /\ y.operation = x.operation /\ y.paused = x.paused
            /\ y.ready = k + 1 /\ y.taken = t.taken /\ y.step = x.step /\ y.got = x.got
            /\ y.receiveAfterWrite = x.receiveAfterWrite
        <5> HIDE DEF t, k
        <5> QED
          BY <1>2, <1>3 DEF EndRecords
      <4> HIDE DEF y
      <4>3. EndInv(e, y)
        BY <1>1, <3>1, <4>2 DEF EndInv
      <4>4. Wrote(e, y) = Wrote(e, x)
        BY <4>2 DEF Wrote
      <4>5. InStep => Going(e, y)
        BY <4>2 DEF InStep, Going
      <4>6. y.taken <= carried[e] /\ y.step >= ends[e].step
        BY <1>2, <3>3, <4>2
      <4>7. InStep => InStep'
        BY <1>1, <4>1, <4>4, <4>5, <4>6, InStepMoves
      <4>8. Disturbed \/ InStep'
        BY <4>7 DEF SocketInv
      <4> QED
        BY <1>1, <4>1, <4>3, <4>6, <4>8, SocketMoves
    <3> QED
      BY <3>4, <3>5
  <2>5. Socket!Rest(x) \in Int
    BY <1>2, <2>2
  <2> QED
    BY <1>2, <1>5, <2>3, <2>4, <2>5
<1> QED
  BY <1>4, <1>5

LEMMA SocketStep == ASSUME SocketInv, [Socket!Next]_socketVars PROVE SocketInv'
<1>1. CASE UNCHANGED socketVars
  BY <1>1 DEF socketVars, SocketInv, SocketTypes, EndInv, Disturbed, InStep, Going, Wrote
<1>2. ASSUME NEW e \in Socket!Ends, Socket!Deadline(e) PROVE SocketInv'
  BY <1>2, SocketCloses DEF Socket!Deadline, Socket!Becomes
<1>3. ASSUME NEW e \in Socket!Ends, Socket!Finish(e) PROVE SocketInv'
  BY <1>3, SocketCloses DEF Socket!Finish, Socket!Becomes, Disturbed, SocketInv, SocketTypes
<1>4. ASSUME NEW e \in Socket!Ends, Socket!PeerClosed(e) PROVE SocketInv'
  <2>1. ~ InStep
    BY <1>4, TwoEnds DEF Socket!PeerClosed, InStep, Going
  <2> QED
    BY <1>4, <2>1, SocketCloses DEF Socket!PeerClosed, Socket!Becomes, SocketInv, SocketTypes
<1>5. ASSUME NEW e \in Socket!Ends, Socket!OutOfTurn(e) PROVE SocketInv'
  <2>1. /\ cut' = TRUE /\ ends' = ends /\ carried' = [carried EXCEPT ![e] = @ + Pieces]
    BY <1>5 DEF Socket!OutOfTurn
  <2>2. carried[e] + Pieces \in Nat
    <3>1. carried[e] \in Nat /\ Pieces \in Nat
      BY StreamGrows DEF SocketInv, SocketTypes
    <3> QED
      BY <3>1
  <2>3. SocketTypes' /\ Disturbed'
    BY <2>1, <2>2 DEF SocketInv, SocketTypes, Disturbed
  <2> QED
    BY <2>1, <2>3 DEF SocketInv, EndInv
<1>6. CASE Socket!Next
  BY <1>2, <1>3, <1>4, <1>5, <1>6, SocketRead, SocketWrite, SocketConfirmed, SocketData
     DEF Socket!Next
<1> QED
  BY <1>1, <1>6

LEMMA SocketHolds == ASSUME SocketInv PROVE Socket!FramesInOrder /\ Socket!NoFalseClose
<1>1. ASSUME NEW e \in Socket!Ends
      PROVE  ends[e].got = [i \in 1 .. Len(ends[e].got) |-> i]
  <2> DEFINE k == ReadBy(e, ends[e].step)
  <2>1. ends[e].got = InOrder(k) /\ ends[e].step \in 1 .. 5
    BY DEF SocketInv, SocketTypes, EndInv, EndRecords
  <2>2. k \in Nat
    BY <2>1, ScriptCounts
  <2> HIDE DEF k
  <2>3. Len(ends[e].got) = k
    BY <2>1, <2>2, OrderGrows
  <2> QED
    BY <2>1, <2>3 DEF InOrder
<1>2. Socket!NoFalseClose
  BY DEF SocketInv, Disturbed, InStep, Going, Socket!NoFalseClose
<1> QED
  BY <1>1, <1>2 DEF Socket!FramesInOrder
-----------------------------------------------------------------------------
ReachInv == SeedsInv /\ SavedInv /\ RegistryInv /\ LinksInv /\ SocketInv

(* What is sound when it is written is accepted by who reads it later: a   *)
(* checkpoint by a reader within the retained links (enrollment.js:149-    *)
(* 210), frames whole and in order by an end that keeps to the protocol    *)
(* (wire.js:53-104), a holder's seed by the device that offered            *)
(* (keys.js:84-99), a stored account by its next process (checkpoint.mjs:  *)
(* 123-201).                                                               *)
THEOREM WrittenReachesReader == PartsSpec => []ReachesReader
<1>1. Init => ReachInv
  BY SeedsInit, SavedInit, RegistryInit, LinksInit, SocketInit DEF Init, ReachInv
<1>2. ReachInv /\ [Next]_partsVars => ReachInv'
  BY StepsOfParts, SeedsStep, SavedStep, RegistryStep, LinksStep, SocketStep DEF ReachInv
<1>3. ReachInv => ReachesReader
  BY SeedsHold, SavedHolds, LinksHold, SocketHolds DEF ReachInv, ReachesReader
<1> QED
  BY <1>1, <1>2, <1>3, PTL DEF PartsSpec
=============================================================================
