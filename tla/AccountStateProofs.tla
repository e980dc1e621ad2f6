------------------------- MODULE AccountStateProofs -------------------------
(***************************************************************************)
(* Theorems about AccountState, for every policy the code validates, every *)
(* finite set of events and every set of valid waiting periods; and about  *)
(* IndexedTree, the package's map (indexed.nr) in which the account keeps  *)
(* its obligations, for every capacity, set of keys and choice of          *)
(* witnesses: the two share no state, and the map implements KeyedEntries. *)
(***************************************************************************)
EXTENDS AccountState, IndexedTree, FiniteSetTheorems, TLAPS

Slot == [phase : Phases, admittedAt : Times, expiresAt : Times]
Done == {"settled", "cancelled", "expired"}

(* Before genesis nothing has happened. *)
Unborn ==
    ~live => /\ granted = 0
             /\ \A w \in Windows : admittedIn[w] = 0
             /\ \A role \in Roles, e \in Events : slots[role][e].phase = "absent"

(* What the circuit asks of the old opening holds at the ledger's time, and *)
(* the frontier lies beyond the grant that moved it.                        *)
OpeningValid ==
    live => /\ createdAt <= frontier /\ frontier <= ProofValidUntil(clock)
            /\ lastGrant < frontier
            /\ admissionEpoch <= Window(clock) /\ admissions <= maximumAdmissions

(* The opening's counter covers every acceptance of its window. *)
Counted ==
    live => /\ admittedIn[admissionEpoch] <= admissions
            /\ \A w \in Windows : w > admissionEpoch => admittedIn[w] = 0

(* Every obligation was admitted in the past, for a lease inside the policy. *)
LeasesWithinPolicy ==
    \A role \in Roles, e \in Events :
        LET slot == slots[role][e]
        IN  slot.phase # "absent" =>
                /\ 0 < slot.admittedAt /\ slot.admittedAt <= clock
                /\ slot.admittedAt < slot.expiresAt /\ slot.expiresAt < policyValidUntil

(* An event lives in one of the maps, and its marker is spent by its end. *)
OneRole == \A role \in Roles, e \in Events :
    slots[role][e].phase = "absent" \/ slots[Opposite(role)][e].phase = "absent"
MarkersOfDone == \A e \in markers : \E role \in Roles : slots[role][e].phase \in Done

IInv ==
    /\ TypeOK
    /\ Unborn
    /\ OpeningValid
    /\ Counted
    /\ LeasesWithinPolicy
    /\ OneRole
    /\ MarkersOfDone
    /\ Conservation
    /\ WithinCapacity
    /\ AdmissionRate
-----------------------------------------------------------------------------
(* The policy's numbers, one by one. *)
LEMMA PolicyNumbers ==
    /\ initialCredit \in Nat /\ maximumAvailable \in Nat
    /\ outgoingReservation \in Nat /\ incomingReservation \in Nat
    /\ policyValidFrom \in Nat /\ policyValidUntil \in Nat
    /\ newcomerPeriod \in Nat /\ rateWindow \in Nat /\ rateWindow > 0
    /\ newcomerAdmissions \in Nat /\ maximumAdmissions \in Nat
    /\ refillPeriod \in Nat /\ refillPeriod > 0 /\ refillUnits \in Nat
    /\ 0 < policyValidFrom
    /\ initialCredit <= maximumAvailable /\ newcomerAdmissions <= maximumAdmissions
    /\ policyValidFrom < policyValidUntil
  BY PolicyAssumption

(* Windows partition time. *)
LEMMA WindowBounds ==
  ASSUME NEW t \in Nat
  PROVE  /\ Window(t) \in Nat
         /\ Window(t) * rateWindow <= t
         /\ t < (Window(t) + 1) * rateWindow
  <1>1. t \div rateWindow \in Int /\ t \div rateWindow >= 0
    BY PolicyNumbers, SMTT(20)
  <1>2. /\ rateWindow * (t \div rateWindow) <= t
        /\ t < rateWindow * ((t \div rateWindow) + 1)
    BY <1>1, PolicyNumbers, SMTT(20)
  <1>3. QED BY <1>1, <1>2, PolicyNumbers, SMTT(20) DEF Window

(* Later times lie in later windows. *)
LEMMA WindowMonotone ==
  ASSUME NEW t \in Nat, NEW u \in Nat, t <= u
  PROVE  Window(t) <= Window(u)
  BY PolicyNumbers, SMTT(20) DEF Window

(* The horizon is a later time of the policy, and moves only forward. *)
LEMMA HorizonBounds ==
  ASSUME NEW t \in Nat, t <= policyValidUntil
  PROVE  /\ ProofValidUntil(t) \in Nat
         /\ ProofValidUntil(t) <= policyValidUntil
         /\ t < policyValidUntil => t < ProofValidUntil(t)
         /\ ProofValidUntil(t) <= (Window(t) + 1) * rateWindow
  <1>1. (Window(t) + 1) * rateWindow \in Nat
    BY WindowBounds, PolicyNumbers, SMTT(20)
  <1>2. QED BY <1>1, WindowBounds, PolicyNumbers DEF ProofValidUntil

(* A later time has no earlier horizon. *)
LEMMA HorizonMonotone ==
  ASSUME NEW t \in Nat, NEW u \in Nat, t <= u, u <= policyValidUntil
  PROVE  ProofValidUntil(t) <= ProofValidUntil(u)
  <1>1. Window(t) \in Nat /\ Window(u) \in Nat /\ Window(t) <= Window(u)
    BY WindowBounds, WindowMonotone
  <1>2. /\ (Window(t) + 1) * rateWindow \in Nat
        /\ (Window(u) + 1) * rateWindow \in Nat
        /\ (Window(t) + 1) * rateWindow <= (Window(u) + 1) * rateWindow
    BY <1>1, PolicyNumbers, SMTT(20)
  <1>3. QED BY <1>2, PolicyNumbers DEF ProofValidUntil

(* A proof is accepted in the window it was proved in. *)
LEMMA AcceptedInWindow ==
  ASSUME NEW at \in Nat, clock \in policyValidFrom..policyValidUntil, Accepted(at)
  PROVE  /\ at \in Times /\ at <= clock /\ clock \in Nat /\ clock < policyValidUntil
         /\ Window(at) = Window(clock)
         /\ clock < ProofValidUntil(at)
  <1>1. at <= clock /\ clock < ProofValidUntil(at) /\ at \in Times /\ clock \in Nat
    BY PolicyNumbers DEF Accepted, Times
  <1>2. clock < policyValidUntil
    BY <1>1, HorizonBounds, PolicyNumbers DEF Times
  <1>3. clock < (Window(at) + 1) * rateWindow
    BY <1>1, HorizonBounds, WindowBounds, PolicyNumbers, SMTT(20) DEF Times
  <1>4. Window(clock) * rateWindow < (Window(at) + 1) * rateWindow
    BY <1>1, <1>3, WindowBounds, PolicyNumbers, SMTT(20)
  <1>5. Window(clock) < Window(at) + 1
    BY <1>1, <1>4, WindowBounds, PolicyNumbers, SMTT(20)
  <1>6. Window(at) <= Window(clock)
    BY <1>1, WindowMonotone
  <1>7. QED BY <1>1, <1>2, <1>5, <1>6, WindowBounds

(* Capacity and admission limit only grow with age. *)
LEMMA LimitsMonotone ==
  ASSUME NEW t \in Int, NEW u \in Int, t <= u, createdAt \in Nat
  PROVE  /\ CapacityAt(createdAt, t) <= CapacityAt(createdAt, u)
         /\ AdmissionLimitAt(createdAt, t) <= AdmissionLimitAt(createdAt, u)
         /\ CapacityAt(createdAt, t) \in Nat /\ AdmissionLimitAt(createdAt, t) \in Nat
         /\ AdmissionLimitAt(createdAt, t) <= maximumAdmissions
         /\ initialCredit <= CapacityAt(createdAt, t)
  BY PolicyNumbers DEF CapacityAt, AdmissionLimitAt, Mature
-----------------------------------------------------------------------------
(* The steps of the account, with roles and leases as parameters. *)
AccountStep(at) ==
    \/ Genesis(at)
    \/ Refill(at)
    \/ \E role \in Roles, e \in Events :
        \/ \E slot \in Slot : slot.phase = "prepared" /\ ReserveSlot(role, e, slot, at)
        \/ Activate(role, e, at)
        \/ \E from \in Held, to \in Done : Refund(role, e, from, to, at)

(* The steps of Next, one by one. *)
LEMMA Steps ==
  ASSUME TypeOK, Next
  PROVE  \/ Tick
         \/ \E wait \in Waits : Tune(wait)
         \/ \E at \in Times : AccountStep(at)
  <1>1. ASSUME NEW e \in Events, NEW at \in Times, NEW opened \in Times, NEW wait \in Waits,
               ReserveSlot("incoming", e, Obligation("prepared", opened, opened + wait), at)
        PROVE  AccountStep(at)
    <2>1. opened + wait \in Times
      BY <1>1, WaitsValid, PolicyNumbers DEF ReserveSlot, LeaseAt, Obligation, Times, ValidWait
    <2>2. Obligation("prepared", opened, opened + wait) \in Slot
      BY <2>1 DEF Obligation, Slot, Phases
    <2>3. QED BY <1>1, <2>2 DEF AccountStep, Roles, Obligation
  <1>2. ASSUME NEW e \in Events, NEW at \in Times, ReserveOutgoing(e, at)
        PROVE  AccountStep(at)
    <2>1. at + abandonAfter \in Times
      BY <1>2, WaitsValid, PolicyNumbers
      DEF ReserveOutgoing, ReserveSlot, LeaseAt, Obligation, Times, ValidWait, TypeOK
    <2>2. Obligation("prepared", at, at + abandonAfter) \in Slot
      BY <2>1 DEF Obligation, Slot, Phases
    <2>3. QED BY <1>2, <2>2 DEF AccountStep, Roles, Obligation, ReserveOutgoing
  <1>3. ASSUME NEW e \in Events, NEW at \in Times,
               \/ SettleClose(e, at)
               \/ Expire(e, at)
               \/ \E role \in Roles : SettleAnswer(role, e, at) \/ Cancel(role, e, at)
        PROVE  AccountStep(at)
    BY <1>3 DEF AccountStep, SettleClose, Expire, SettleAnswer, Cancel, Roles, Held, Done
  <1>4. ASSUME NEW e \in Events, NEW at \in Times, NEW role \in Roles, Activate(role, e, at)
        PROVE  AccountStep(at)
    BY <1>4 DEF AccountStep
  <1>5. QED BY <1>1, <1>2, <1>3, <1>4 DEF Next, ReserveIncoming, AccountStep

(* Every account step is accepted, whence: *)
LEMMA StepAccepted ==
  ASSUME TypeOK, NEW at \in Times, AccountStep(at)
  PROVE  /\ Accepted(at)
         /\ UNCHANGED <<clock, abandonAfter>>
         /\ at \in Nat /\ at <= clock /\ clock \in Nat /\ clock < policyValidUntil
         /\ Window(at) = Window(clock) /\ Window(at) \in Nat
         /\ clock < ProofValidUntil(at) /\ ProofValidUntil(at) \in Times
         /\ ProofValidUntil(at) <= ProofValidUntil(clock)
         /\ Window(at) \in Windows
  <1>1. Accepted(at) /\ UNCHANGED <<clock, abandonAfter>>
    BY DEF AccountStep, Genesis, Refill, ReserveSlot, Activate, Refund, CanRefund, Transition
  <1>2. at \in Nat /\ at <= policyValidUntil
    BY PolicyNumbers DEF Times
  <1>3. /\ at <= clock /\ clock \in Nat /\ clock < policyValidUntil
        /\ Window(at) = Window(clock) /\ clock < ProofValidUntil(at)
    BY <1>1, <1>2, AcceptedInWindow DEF TypeOK
  <1>4. ProofValidUntil(at) \in Times
    BY <1>2, HorizonBounds, PolicyNumbers DEF Times
  <1>5. ProofValidUntil(at) <= ProofValidUntil(clock)
    BY <1>2, <1>3, HorizonMonotone, PolicyNumbers
  <1>6. Window(at) \in Nat /\ Window(at) <= Window(policyValidUntil) /\ Window(policyValidUntil) \in Nat
    BY <1>2, WindowBounds, WindowMonotone, PolicyNumbers
  <1>7. QED BY <1>1, <1>2, <1>3, <1>4, <1>5, <1>6 DEF Windows
-----------------------------------------------------------------------------
(* Type correctness, at the start. *)
LEMMA InitTypeOK == Init => TypeOK
  <1> SUFFICES ASSUME Init PROVE TypeOK OBVIOUS
  <1>1. 0 \in Times /\ 0 \in Windows
    BY WindowBounds, PolicyNumbers DEF Times, Windows
  <1>2. Obligation("absent", 0, 0) \in [phase : Phases, admittedAt : Times, expiresAt : Times]
    BY <1>1 DEF Obligation, Phases
  <1>3. slots \in [Roles -> [Events -> [phase : Phases, admittedAt : Times, expiresAt : Times]]]
    BY <1>2 DEF Init
  <1>4. clock \in policyValidFrom..policyValidUntil
    BY PolicyNumbers DEF Init
  <1>5. QED BY <1>1, <1>3, <1>4 DEF Init, TypeOK

(* Type correctness, one step. *)
LEMMA NextTypeOK == TypeOK /\ [Next]_vars => TypeOK'
  <1> SUFFICES ASSUME TypeOK, [Next]_vars PROVE TypeOK' OBVIOUS
  <1> USE DEF TypeOK
  <1>1. CASE UNCHANGED vars
    BY <1>1 DEF vars, openingVars, history
  <1>2. CASE Tick
    BY <1>2, PolicyNumbers DEF Tick, openingVars, history
  <1>3. ASSUME NEW wait \in Waits, Tune(wait) PROVE TypeOK'
    BY <1>3 DEF Tune, openingVars, history
  <1>4. ASSUME NEW at \in Times, AccountStep(at) PROVE TypeOK'
    <2> USE <1>4, StepAccepted
    <2>1. CASE Genesis(at)
      BY <2>1, PolicyNumbers DEF Genesis, Times
    <2>2. CASE Refill(at)
      <3>1. CapacityAt(createdAt, at) \in Nat
        BY LimitsMonotone DEF Times
      <3>2. Issue(at) \in Nat
        BY <2>2, <3>1, PolicyNumbers DEF Issue, Refill, Transition
      <3>3. QED BY <2>2, <3>2 DEF Refill, Times
    <2>3. ASSUME NEW role \in Roles, NEW e \in Events, NEW slot \in Slot, ReserveSlot(role, e, slot, at)
          PROVE TypeOK'
      <3>1. slots' \in [Roles -> [Events -> Slot]]
        BY <2>3 DEF ReserveSlot, Slot
      <3>2. available' \in Nat /\ reserved' \in Nat
        BY <2>3, PolicyNumbers DEF ReserveSlot, Affordable, Amount
      <3>3. admissionEpoch' \in Windows /\ admissions' \in Nat
        BY <2>3 DEF ReserveSlot, NextAdmissions
      <3>4. admittedIn' \in [Windows -> Nat]
        BY <2>3 DEF ReserveSlot
      <3>5. QED BY <2>3, <3>1, <3>2, <3>3, <3>4 DEF ReserveSlot, Slot
    <2>4. ASSUME NEW role \in Roles, NEW e \in Events, Activate(role, e, at) PROVE TypeOK'
      <3>1. slots' \in [Roles -> [Events -> Slot]]
        BY <2>4 DEF Activate, MoveTo, Slot, Phases
      <3>2. QED BY <2>4, <3>1 DEF Activate, Slot, openingVars, history
    <2>5. ASSUME NEW role \in Roles, NEW e \in Events, NEW from \in Held, NEW to \in Done,
                 Refund(role, e, from, to, at)
          PROVE TypeOK'
      <3>1. slots' \in [Roles -> [Events -> Slot]]
        BY <2>5 DEF Refund, MoveTo, Slot, Phases, Done
      <3>2. available' \in Nat /\ reserved' \in Nat
        BY <2>5, PolicyNumbers DEF Refund, CanRefund, Amount
      <3>3. QED BY <2>5, <3>1, <3>2 DEF Refund, Slot, history
    <2>6. QED BY <2>1, <2>2, <2>3, <2>4, <2>5 DEF AccountStep
  <1>5. QED BY <1>1, <1>2, <1>3, <1>4, Steps

(* The account's state stays in range: no underflow of available or        *)
(* reserved units, no lease or window outside the policy.                  *)
THEOREM TypeCorrect == Spec => []TypeOK
  <1>1. Init => TypeOK BY InitTypeOK
  <1>2. TypeOK /\ [Next]_vars => TypeOK' BY NextTypeOK
  <1>3. QED BY <1>1, <1>2, PTL DEF Spec
-----------------------------------------------------------------------------
(* A lease inside the policy is what a reservation inserts. *)
LEMMA ReservedSlot ==
  ASSUME TypeOK, NEW at \in Times, NEW role \in Roles, NEW e \in Events, NEW slot \in Slot,
         slot.phase = "prepared", ReserveSlot(role, e, slot, at)
  PROVE  /\ slots' = [slots EXCEPT ![role] = [slots[role] EXCEPT ![e] = slot]]
         /\ 0 < slot.admittedAt /\ slot.admittedAt <= clock
         /\ slot.admittedAt < slot.expiresAt /\ slot.expiresAt < policyValidUntil
         /\ \A r \in Roles : slots[r][e].phase = "absent"
  <1>1. AccountStep(at)
    BY DEF AccountStep
  <1>2. at <= clock /\ at \in Nat /\ clock \in Nat
    BY <1>1, StepAccepted
  <1>3. QED BY <1>2 DEF ReserveSlot, LeaseAt, Slot, Times, Unused, Opposite, Roles, TypeOK

(* What a phase change does: the lease stays, the event was in this map. *)
LEMMA PhaseChange ==
  ASSUME TypeOK, NEW role \in Roles, NEW e \in Events, NEW to, MoveTo(role, e, to)
  PROVE  /\ slots'[role][e] = [slots[role][e] EXCEPT !.phase = to]
         /\ slots'[role][e].phase = to
         /\ \A r \in Roles, f \in Events : r # role \/ f # e => slots'[r][f] = slots[r][f]
  <1>1. slots \in [Roles -> [Events -> Slot]]
    BY DEF TypeOK, Slot
  <1>2. slots' = [slots EXCEPT ![role] = [slots[role] EXCEPT ![e] = [slots[role][e] EXCEPT !.phase = to]]]
    BY DEF MoveTo
  <1>3. /\ slots'[role][e] = [slots[role][e] EXCEPT !.phase = to]
        /\ \A r \in Roles, f \in Events : r # role \/ f # e => slots'[r][f] = slots[r][f]
    BY <1>1, <1>2
  <1>4. slots[role][e] \in Slot
    BY <1>1
  <1>5. QED BY <1>3, <1>4 DEF Slot

(* A step is a genesis or a refill, inserts an obligation, or moves one. *)
PhaseStep(role, e, to) ==
    /\ slots[role][e].phase \in Held
    /\ MoveTo(role, e, to)
    /\ UNCHANGED <<clock, live, frontier, createdAt, admissionEpoch, admissions, history>>
    /\ \/ /\ to \in Held
          /\ UNCHANGED <<available, reserved, markers>>
       \/ /\ to \in Done /\ markers' = markers \cup {e}
          /\ available' = available + Amount(role) /\ reserved' = reserved - Amount(role)

(* What each kind of step does to the maps: it changes one role's slot,    *)
(* or none at all.                                                         *)
LEMMA StepKinds ==
  ASSUME NEW at \in Times, AccountStep(at)
  PROVE  \/ Genesis(at) \/ Refill(at)
         \/ \E role \in Roles, e \in Events, slot \in Slot :
                slot.phase = "prepared" /\ ReserveSlot(role, e, slot, at)
         \/ \E role \in Roles, e \in Events, to \in Phases : PhaseStep(role, e, to)
  <1>1. ASSUME NEW role \in Roles, NEW e \in Events, Activate(role, e, at)
        PROVE  "active" \in Phases /\ PhaseStep(role, e, "active")
    BY <1>1 DEF Activate, PhaseStep, Held, Phases, openingVars
  <1>2. ASSUME NEW role \in Roles, NEW e \in Events, NEW from \in Held, NEW to \in Done,
               Refund(role, e, from, to, at)
        PROVE  to \in Phases /\ PhaseStep(role, e, to)
    BY <1>2 DEF Refund, CanRefund, PhaseStep, Phases, Held, Done
  <1>3. QED BY <1>1, <1>2 DEF AccountStep

(* Reservations are dated inside the policy and in one map only, and       *)
(* nothing happens to an account before its genesis.                       *)
LEMMA NextLeases == IInv /\ [Next]_vars => LeasesWithinPolicy' /\ OneRole' /\ Unborn'
  <1> SUFFICES ASSUME IInv, [Next]_vars PROVE LeasesWithinPolicy' /\ OneRole' /\ Unborn'
    OBVIOUS
  <1> USE DEF IInv
  <1>1. CASE UNCHANGED vars
    BY <1>1 DEF vars, openingVars, history, LeasesWithinPolicy, OneRole, Unborn
  <1>2. CASE Tick
    BY <1>2 DEF Tick, openingVars, history, LeasesWithinPolicy, OneRole, Unborn, TypeOK, Times
  <1>3. ASSUME NEW wait \in Waits, Tune(wait) PROVE LeasesWithinPolicy' /\ OneRole' /\ Unborn'
    BY <1>3 DEF Tune, openingVars, history, LeasesWithinPolicy, OneRole, Unborn
  <1>4. ASSUME NEW at \in Times, AccountStep(at) PROVE LeasesWithinPolicy' /\ OneRole' /\ Unborn'
    <2>1. live'
      BY <1>4 DEF AccountStep, Genesis, Refill, ReserveSlot, Activate, Refund, CanRefund, Transition
    <2>2. clock' = clock
      BY <1>4, StepAccepted
    <2> USE <2>1, <2>2 DEF Unborn
    <2>3. CASE Genesis(at) \/ Refill(at)
      BY <2>3 DEF Genesis, Refill, LeasesWithinPolicy, OneRole
    <2>4. ASSUME NEW role \in Roles, NEW e \in Events, NEW slot \in Slot,
                 slot.phase = "prepared", ReserveSlot(role, e, slot, at)
          PROVE LeasesWithinPolicy' /\ OneRole'
      <3>1. /\ slots'[role][e] = slot
            /\ \A r \in Roles, f \in Events : r # role \/ f # e => slots'[r][f] = slots[r][f]
        BY <2>4, ReservedSlot DEF TypeOK
      <3>2. LeasesWithinPolicy'
        BY <3>1, <2>4, ReservedSlot DEF LeasesWithinPolicy
      <3>3. OneRole'
        BY <3>1, <2>4, ReservedSlot DEF OneRole, Opposite, Roles
      <3>4. QED BY <3>2, <3>3
    <2>5. ASSUME NEW role \in Roles, NEW e \in Events, NEW to \in Phases, PhaseStep(role, e, to)
          PROVE LeasesWithinPolicy' /\ OneRole'
      <3>1. /\ slots'[role][e] = [slots[role][e] EXCEPT !.phase = to]
            /\ \A r \in Roles, f \in Events : r # role \/ f # e => slots'[r][f] = slots[r][f]
        BY <2>5, PhaseChange DEF PhaseStep
      <3>2. slots[role][e] \in Slot /\ slots[role][e].phase # "absent"
        BY <2>5 DEF TypeOK, Slot, Held, PhaseStep
      <3>3. LeasesWithinPolicy'
        BY <3>1, <3>2 DEF LeasesWithinPolicy, Slot
      <3>4. OneRole'
        BY <3>1, <3>2 DEF OneRole, Opposite, Roles, Slot
      <3>5. QED BY <3>3, <3>4
    <2>6. QED BY <1>4, <2>3, <2>4, <2>5, StepKinds
  <1>5. QED BY <1>1, <1>2, <1>3, <1>4, Steps

(* A marker is spent when its obligation ends, and ends are for good. *)
LEMMA NextMarkers == IInv /\ [Next]_vars => MarkersOfDone'
  <1> SUFFICES ASSUME IInv, [Next]_vars PROVE MarkersOfDone'
    OBVIOUS
  <1> USE DEF IInv
  <1>1. CASE UNCHANGED vars \/ Tick \/ \E wait \in Waits : Tune(wait)
    BY <1>1 DEF vars, openingVars, history, Tick, Tune, MarkersOfDone
  <1>2. ASSUME NEW at \in Times, AccountStep(at) PROVE MarkersOfDone'
    <2>1. CASE Genesis(at) \/ Refill(at)
      BY <2>1 DEF Genesis, Refill, MarkersOfDone
    <2>2. ASSUME NEW role \in Roles, NEW e \in Events, NEW slot \in Slot,
                 slot.phase = "prepared", ReserveSlot(role, e, slot, at)
          PROVE MarkersOfDone'
      <3>0. /\ slots[role][e].phase \notin Done
            /\ \A r \in Roles, f \in Events : r # role \/ f # e => slots'[r][f] = slots[r][f]
        BY <2>2, ReservedSlot DEF TypeOK, Done
      <3>1. \A r \in Roles, f \in Events : slots[r][f].phase \in Done => slots'[r][f] = slots[r][f]
        BY <3>0
      <3>2. markers' = markers /\ markers \subseteq Events
        BY <2>2 DEF ReserveSlot, TypeOK
      <3>3. QED BY <3>1, <3>2 DEF MarkersOfDone
    <2>3. ASSUME NEW role \in Roles, NEW e \in Events, NEW to \in Phases, PhaseStep(role, e, to)
          PROVE MarkersOfDone'
      <3>0. /\ slots'[role][e].phase = to
            /\ \A r \in Roles, f \in Events : r # role \/ f # e => slots'[r][f] = slots[r][f]
        <4>1. MoveTo(role, e, to)
          BY <2>3 DEF PhaseStep
        <4>2. QED BY <4>1, PhaseChange, ZenonT(60)
      <3>1. slots[role][e].phase \notin Done
        BY <2>3 DEF Done, Held, PhaseStep
      <3>2. \A r \in Roles, f \in Events : slots[r][f].phase \in Done => slots'[r][f] = slots[r][f]
        BY <3>0, <3>1
      <3>3. markers \subseteq Events
        BY DEF TypeOK
      <3>4. QED BY <2>3, <3>0, <3>2, <3>3 DEF MarkersOfDone, PhaseStep
    <2>4. QED BY <1>2, <2>1, <2>2, <2>3, StepKinds
  <1>3. QED BY <1>1, <1>2, Steps

(* Units on hold can be released: this follows from where events live. *)
LEMMA HeldUnspent == IInv => HeldMarkerUnspent
  <1> SUFFICES ASSUME IInv, NEW role \in Roles, NEW e \in HeldBy(role), e \in markers
               PROVE FALSE
    BY DEF HeldMarkerUnspent
  <1>1. e \in Events /\ slots[role][e].phase \in Held
    BY DEF HeldBy
  <1>2. PICK r \in Roles : slots[r][e].phase \in Done
    BY DEF IInv, MarkersOfDone
  <1>3. r = Opposite(role)
    BY <1>1, <1>2 DEF Roles, Opposite, Held, Done
  <1>4. QED BY <1>1, <1>2, <1>3 DEF IInv, OneRole, Held, Done
-----------------------------------------------------------------------------
(* An accepted transition leaves an opening no newer than the ledger's     *)
(* horizon, so the next one, proved now, is not dated before it.           *)
LEMMA NextOpening == IInv /\ [Next]_vars => OpeningValid'
  <1> SUFFICES ASSUME IInv, [Next]_vars PROVE OpeningValid'
    OBVIOUS
  <1> USE DEF IInv
  <1>1. CASE UNCHANGED vars \/ \E wait \in Waits : Tune(wait)
    BY <1>1 DEF vars, openingVars, history, Tune, OpeningValid
  <1>2. CASE Tick
    <2>1. clock \in Nat /\ clock' \in Nat /\ clock <= clock' /\ clock' <= policyValidUntil
      BY <1>2, PolicyNumbers DEF Tick, TypeOK
    <2>2. ProofValidUntil(clock) <= ProofValidUntil(clock') /\ Window(clock) <= Window(clock')
      BY <2>1, HorizonMonotone, WindowMonotone
    <2>3. /\ ProofValidUntil(clock) \in Nat /\ ProofValidUntil(clock') \in Nat
          /\ Window(clock) \in Nat /\ Window(clock') \in Nat
      BY <2>1, HorizonBounds, WindowBounds, PolicyNumbers
    <2>4. frontier \in Nat /\ admissionEpoch \in Nat
      BY PolicyNumbers DEF TypeOK, Times, Windows
    <2>5. QED BY <1>2, <2>2, <2>3, <2>4 DEF Tick, openingVars, history, OpeningValid
  <1>3. ASSUME NEW at \in Times, AccountStep(at) PROVE OpeningValid'
    <2> USE <1>3, StepAccepted
    <2>1. CASE Genesis(at)
      BY <2>1, PolicyNumbers DEF Genesis, OpeningValid, Times
    <2>2. CASE Refill(at)
      BY <2>2 DEF Refill, Transition, OpeningValid, TypeOK, Times
    <2>3. ASSUME NEW role \in Roles, NEW e \in Events, NEW slot \in Slot, ReserveSlot(role, e, slot, at)
          PROVE OpeningValid'
      <3>1. NextAdmissions(at) \in Nat /\ NextAdmissions(at) <= maximumAdmissions
        <4>1. AdmissionLimitAt(createdAt, at) <= maximumAdmissions /\ AdmissionLimitAt(createdAt, at) \in Nat
          BY LimitsMonotone DEF TypeOK, Times
        <4>2. NextAdmissions(at) \in Nat
          BY DEF NextAdmissions, TypeOK
        <4>3. QED BY <2>3, <4>1, <4>2, PolicyNumbers DEF ReserveSlot
      <3>2. QED BY <2>3, <3>1 DEF ReserveSlot, Transition, OpeningValid
    <2>4. ASSUME NEW role \in Roles, NEW e \in Events, NEW to \in Phases, PhaseStep(role, e, to)
          PROVE OpeningValid'
      BY <2>4 DEF PhaseStep, OpeningValid, history
    <2>5. QED BY <2>1, <2>2, <2>3, <2>4, StepKinds
  <1>4. QED BY <1>1, <1>2, <1>3, Steps

(* The limit at the end of a window covers every time in it. *)
LEMMA WindowLimit ==
  ASSUME TypeOK, NEW at \in Nat
  PROVE  /\ AdmissionLimitAt(createdAt, at)
                <= AdmissionLimitAt(createdAt, (Window(at) + 1) * rateWindow - 1)
         /\ AdmissionLimitAt(createdAt, at) \in Nat
         /\ AdmissionLimitAt(createdAt, (Window(at) + 1) * rateWindow - 1) \in Nat
  <1>1. (Window(at) + 1) * rateWindow \in Int
    BY WindowBounds, PolicyNumbers
  <1>2. (Window(at) + 1) * rateWindow - 1 \in Int /\ at <= (Window(at) + 1) * rateWindow - 1
    BY <1>1, WindowBounds
  <1>3. createdAt \in Nat
    BY DEF TypeOK, Times
  <1>4. QED BY <1>2, <1>3, LimitsMonotone

(* A reservation, however dated inside its window, is counted in the       *)
(* window the ledger accepts it in; no other step admits anything.         *)
LEMMA NextRate == IInv /\ [Next]_vars => Counted' /\ AdmissionRate'
  <1> SUFFICES ASSUME IInv, [Next]_vars PROVE Counted' /\ AdmissionRate'
    OBVIOUS
  <1> USE DEF IInv
  <1>1. CASE UNCHANGED vars \/ Tick \/ \E wait \in Waits : Tune(wait)
    BY <1>1 DEF vars, openingVars, history, Tick, Tune, Counted, AdmissionRate
  <1>2. ASSUME NEW at \in Times, AccountStep(at) PROVE Counted' /\ AdmissionRate'
    <2> USE <1>2, StepAccepted
    <2>1. CASE Genesis(at)
      <3>1. \A w \in Windows : admittedIn'[w] = 0 /\ w \in Nat
        BY <2>1 DEF Genesis, Unborn, Windows
      <3>2. Counted'
        BY <2>1, <3>1 DEF Genesis, Counted
      <3>3. AdmissionRate'
        <4> SUFFICES ASSUME NEW w \in Windows
                     PROVE  0 <= AdmissionLimitAt(createdAt', (w + 1) * rateWindow - 1)
          BY <3>1 DEF AdmissionRate
        <4>1. QED BY PolicyNumbers DEF AdmissionLimitAt
      <3>4. QED BY <3>2, <3>3
    <2>2. CASE Refill(at)
      BY <2>2 DEF Refill, Transition, Counted, AdmissionRate
    <2>3. ASSUME NEW role \in Roles, NEW e \in Events, NEW slot \in Slot, ReserveSlot(role, e, slot, at)
          PROVE Counted' /\ AdmissionRate'
      <3> DEFINE w == Window(at)
      <3>1. /\ live /\ w \in Windows /\ w \in Nat /\ admissionEpoch \in Nat /\ admissionEpoch <= w
            /\ admissionEpoch' = w /\ admissions' = NextAdmissions(at)
            /\ admittedIn' = [admittedIn EXCEPT ![w] = @ + 1]
            /\ createdAt' = createdAt
            /\ admissions' <= AdmissionLimitAt(createdAt, at)
        <4>1. Window(clock) = w /\ w \in Windows /\ w \in Nat
          OBVIOUS
        <4>2. admissionEpoch \in Nat
          BY DEF TypeOK, Windows
        <4>3. QED BY <2>3, <4>1, <4>2 DEF ReserveSlot, Transition
      <3>2. /\ admittedIn[w] \in Nat /\ admissions \in Nat
            /\ admittedIn'[w] = admittedIn[w] + 1
        BY <3>1 DEF TypeOK
      <3>3. admissions' \in Nat /\ admittedIn'[w] <= admissions'
        <4>1. CASE admissionEpoch = w
          BY <3>1, <3>2, <4>1 DEF Counted, NextAdmissions
        <4>2. CASE admissionEpoch # w
          <5>1. admittedIn[w] = 0
            BY <3>1, <4>2 DEF Counted
          <5>2. QED BY <3>1, <3>2, <4>2, <5>1 DEF NextAdmissions
        <4>3. QED BY <4>1, <4>2
      <3>4. Counted'
        <4>1. ASSUME NEW v \in Windows, v > w PROVE admittedIn'[v] = 0
          BY <3>1, <4>1 DEF Counted, TypeOK, Windows
        <4>2. QED BY <3>1, <3>3, <4>1 DEF Counted
      <3>5. AdmissionRate'
        <4>1. admittedIn'[w] <= AdmissionLimitAt(createdAt, (w + 1) * rateWindow - 1)
          <5>1. admittedIn'[w] \in Nat
            BY <3>1 DEF TypeOK
          <5>2. QED BY <3>1, <3>3, <5>1, WindowLimit
        <4>2. ASSUME NEW v \in Windows, v # w PROVE admittedIn'[v] = admittedIn[v]
          BY <3>1, <4>2 DEF TypeOK
        <4>3. QED BY <3>1, <4>1, <4>2 DEF AdmissionRate
      <3>6. QED BY <3>4, <3>5
    <2>4. ASSUME NEW role \in Roles, NEW e \in Events, NEW to \in Phases, PhaseStep(role, e, to)
          PROVE Counted' /\ AdmissionRate'
      BY <2>4 DEF PhaseStep, Counted, AdmissionRate, history
    <2>5. QED BY <2>1, <2>2, <2>3, <2>4, StepKinds
  <1>3. QED BY <1>1, <1>2, Steps
-----------------------------------------------------------------------------
(* Capacity: reservations and refunds move units, a refill stops at it. *)
LEMMA NextCapacity == IInv /\ [Next]_vars => WithinCapacity'
  <1> SUFFICES ASSUME IInv, [Next]_vars PROVE WithinCapacity'
    OBVIOUS
  <1> USE DEF IInv
  <1>0. available \in Nat /\ reserved \in Nat /\ createdAt \in Nat /\ clock \in Nat
    BY PolicyNumbers DEF TypeOK, Times
  <1>1. CASE UNCHANGED vars \/ \E wait \in Waits : Tune(wait)
    BY <1>1 DEF vars, openingVars, history, Tune, WithinCapacity
  <1>2. CASE Tick
    <2>1. CapacityAt(createdAt, clock) <= CapacityAt(createdAt, clock + 1)
          /\ CapacityAt(createdAt, clock) \in Nat /\ CapacityAt(createdAt, clock + 1) \in Nat
      BY <1>0, LimitsMonotone
    <2>2. QED BY <1>0, <1>2, <2>1 DEF Tick, openingVars, history, WithinCapacity
  <1>3. ASSUME NEW at \in Times, AccountStep(at) PROVE WithinCapacity'
    <2>0. at \in Nat /\ at <= clock /\ clock' = clock
      BY <1>3, StepAccepted
    <2>1. CASE Genesis(at)
      <3>1. createdAt' \in Nat
        BY <2>1, <1>3, StepAccepted DEF Genesis, Times
      <3>2. initialCredit <= CapacityAt(createdAt', clock)
        BY <3>1, PolicyNumbers DEF CapacityAt
      <3>3. QED BY <2>0, <2>1, <3>2, PolicyNumbers DEF Genesis, WithinCapacity
    <2>2. CASE Refill(at)
      <3>1. /\ CapacityAt(createdAt, at) \in Nat /\ CapacityAt(createdAt, clock) \in Nat
            /\ CapacityAt(createdAt, at) <= CapacityAt(createdAt, clock)
        BY <1>0, <2>0, LimitsMonotone
      <3>2. available' + reserved' <= CapacityAt(createdAt, at)
        BY <2>2, <1>0, <3>1, PolicyNumbers DEF Refill, Issue
      <3>3. available' + reserved' \in Nat
        BY NextTypeOK DEF TypeOK
      <3>4. QED BY <2>0, <2>2, <3>1, <3>2, <3>3 DEF Refill, WithinCapacity
    <2>3. ASSUME NEW role \in Roles, NEW e \in Events, NEW slot \in Slot, ReserveSlot(role, e, slot, at)
          PROVE WithinCapacity'
      <3>1. available' + reserved' = available + reserved
        BY <2>3, <1>0, PolicyNumbers DEF ReserveSlot, Amount
      <3>2. QED BY <2>0, <2>3, <3>1 DEF ReserveSlot, Transition, WithinCapacity
    <2>4. ASSUME NEW role \in Roles, NEW e \in Events, NEW to \in Phases, PhaseStep(role, e, to)
          PROVE WithinCapacity'
      <3>1. available' + reserved' = available + reserved
        BY <2>4, <1>0, PolicyNumbers DEF PhaseStep, Amount
      <3>2. QED BY <2>4, <3>1 DEF PhaseStep, WithinCapacity, history
    <2>5. QED BY <1>3, <2>1, <2>2, <2>3, <2>4, StepKinds
  <1>4. QED BY <1>1, <1>2, <1>3, Steps
-----------------------------------------------------------------------------
(* How the set of obligations that hold units changes. *)
LEMMA HeldFinite == \A role \in Roles : IsFiniteSet(HeldBy(role)) /\ Cardinality(HeldBy(role)) \in Nat
  <1>1. \A role \in Roles : HeldBy(role) \in SUBSET Events
    BY DEF HeldBy
  <1>2. QED BY <1>1, EventsFinite, FS_Subset, FS_CardinalityType

(* A reservation adds one obligation to those of its map that hold units. *)
LEMMA HeldAfterReserve ==
  ASSUME TypeOK, NEW at \in Times, NEW role \in Roles, NEW e \in Events, NEW slot \in Slot,
         slot.phase = "prepared", ReserveSlot(role, e, slot, at)
  PROVE  /\ Cardinality(HeldBy(role)') = Cardinality(HeldBy(role)) + 1
         /\ HeldBy(Opposite(role))' = HeldBy(Opposite(role))
  <1>1. /\ slots[role][e].phase = "absent" /\ slots'[role][e] = slot
        /\ \A r \in Roles, f \in Events : r # role \/ f # e => slots'[r][f] = slots[r][f]
    BY ReservedSlot DEF TypeOK
  <1>2. e \notin HeldBy(role) /\ HeldBy(role)' = HeldBy(role) \cup {e}
    BY <1>1 DEF HeldBy, Held
  <1>3. HeldBy(Opposite(role))' = HeldBy(Opposite(role))
    BY <1>1 DEF HeldBy, Opposite, Roles
  <1>4. Cardinality(HeldBy(role) \cup {e}) = Cardinality(HeldBy(role)) + 1
    BY <1>2, HeldFinite, FS_AddElement
  <1>5. QED BY <1>2, <1>3, <1>4

(* A change of phase keeps an obligation holding its units or removes it. *)
LEMMA HeldAfterPhaseStep ==
  ASSUME TypeOK, NEW role \in Roles, NEW e \in Events, NEW to \in Phases, PhaseStep(role, e, to)
  PROVE  /\ to \in Held => HeldBy(role)' = HeldBy(role)
         /\ to \in Done => Cardinality(HeldBy(role)') = Cardinality(HeldBy(role)) - 1
         /\ HeldBy(Opposite(role))' = HeldBy(Opposite(role))
  <1>0. MoveTo(role, e, to) /\ slots[role][e].phase \in Held
    BY DEF PhaseStep
  <1>1. /\ slots'[role][e].phase = to /\ slots[role][e].phase \in Held
        /\ \A r \in Roles, f \in Events : r # role \/ f # e => slots'[r][f] = slots[r][f]
    BY <1>0, PhaseChange, ZenonT(60)
  <1>2. HeldBy(Opposite(role))' = HeldBy(Opposite(role))
    BY <1>1 DEF HeldBy, Opposite, Roles
  <1>3. to \in Held => HeldBy(role)' = HeldBy(role)
    BY <1>1 DEF HeldBy
  <1>4. e \in HeldBy(role)
    BY <1>1 DEF HeldBy
  <1>5. to \in Done => HeldBy(role)' = HeldBy(role) \ {e}
    BY <1>1 DEF HeldBy, Held, Done
  <1>6. Cardinality(HeldBy(role) \ {e}) = Cardinality(HeldBy(role)) - 1
    BY <1>4, HeldFinite, FS_RemoveElement
  <1>7. QED BY <1>2, <1>3, <1>5, <1>6

(* Units times one obligation more or less. *)
LEMMA OneMoreOrLess ==
  ASSUME NEW n \in Nat, NEW k \in Nat
  PROVE  n * k \in Nat /\ n * (k + 1) = n * k + n /\ n * (k - 1) = n * k - n
  BY SMTT(20)

(* The units the obligations of one map hold. *)
Units(role) == Amount(role) * Cardinality(HeldBy(role))

(* What that does to the units the obligations hold. *)
LEMMA UnitsAfterOne ==
  ASSUME NEW role \in Roles
  PROVE  /\ Amount(role) \in Nat /\ Units(role) \in Nat
         /\ HeldBy(role)' = HeldBy(role) => Units(role)' = Units(role)
         /\ Cardinality(HeldBy(role)') = Cardinality(HeldBy(role)) + 1
                => Units(role)' = Units(role) + Amount(role)
         /\ Cardinality(HeldBy(role)') = Cardinality(HeldBy(role)) - 1
                => Units(role)' = Units(role) - Amount(role)
  <1>1. Amount(role) \in Nat /\ Cardinality(HeldBy(role)) \in Nat
    BY HeldFinite, PolicyNumbers DEF Amount
  <1>2. Units(role)' = Amount(role) * Cardinality(HeldBy(role)')
    BY DEF Units, Amount
  <1>3. QED BY <1>1, <1>2, OneMoreOrLess DEF Units

ConservedUnits == live => /\ available + reserved = initialCredit + granted
                          /\ reserved = Units("outgoing") + Units("incoming")

(* Conservation, restated with the held units as one number per role. *)
LEMMA ConservationUnits == /\ Conservation <=> ConservedUnits
                           /\ Conservation' <=> ConservedUnits'
  BY DEF Conservation, ConservedUnits, Units, Amount

(* Every kind of transition moves units, and a refill issues what it adds. *)
LEMMA NextConservation == IInv /\ [Next]_vars => Conservation'
  <1> SUFFICES ASSUME IInv, [Next]_vars PROVE Conservation'
    OBVIOUS
  <1> USE DEF IInv
  <1>0. /\ available \in Nat /\ reserved \in Nat /\ granted \in Nat
        /\ \A role \in Roles : Amount(role) \in Nat /\ Units(role) \in Nat
    BY UnitsAfterOne DEF TypeOK
  <1>1. CASE UNCHANGED <<live, available, reserved, slots, granted>>
    BY <1>1 DEF Conservation, HeldBy
  <1>2. ASSUME NEW at \in Times, AccountStep(at) PROVE Conservation'
    <2>1. CASE Genesis(at)
      <3>1. HeldBy("outgoing")' = {} /\ HeldBy("incoming")' = {}
        BY <2>1 DEF Genesis, Unborn, HeldBy, Held, Roles
      <3>2. QED BY <2>1, <3>1, FS_EmptySet, PolicyNumbers DEF Genesis, Unborn, Conservation
    <2>2. CASE Refill(at)
      <3>1. Issue(at) \in Int
        <4>1. createdAt \in Nat
          BY DEF TypeOK, Times
        <4>2. CapacityAt(createdAt, at) \in Nat
          BY <4>1, LimitsMonotone DEF Times
        <4>3. QED BY <1>0, <4>2, PolicyNumbers DEF Issue
      <3>2. QED BY <1>0, <2>2, <3>1, PolicyNumbers DEF Refill, Transition, Conservation, HeldBy
    <2>3. ASSUME NEW role \in Roles, NEW e \in Events, NEW slot \in Slot,
                 slot.phase = "prepared", ReserveSlot(role, e, slot, at)
          PROVE Conservation'
      <3>1. /\ live' = live /\ live /\ granted' = granted
            /\ available' = available - Amount(role) /\ reserved' = reserved + Amount(role)
        BY <2>3 DEF ReserveSlot, Transition
      <3>2. /\ Units(role)' = Units(role) + Amount(role)
            /\ Units(Opposite(role))' = Units(Opposite(role))
            /\ Opposite(role) \in Roles
        BY <2>3, HeldAfterReserve, UnitsAfterOne DEF Opposite, Roles
      <3>3. Units("outgoing")' + Units("incoming")' = Units("outgoing") + Units("incoming") + Amount(role)
        BY <1>0, <3>2 DEF Opposite, Roles
      <3>4. available' + reserved' = available + reserved
        BY <1>0, <3>1
      <3>5. QED BY <3>1, <3>3, <3>4, <1>0, ConservationUnits DEF ConservedUnits
    <2>4. ASSUME NEW role \in Roles, NEW e \in Events, NEW to \in Phases, PhaseStep(role, e, to)
          PROVE Conservation'
      <3>1. live' = live /\ granted' = granted
        BY <2>4 DEF PhaseStep, history
      <3>2. Units(Opposite(role))' = Units(Opposite(role)) /\ Opposite(role) \in Roles
        BY <2>4, HeldAfterPhaseStep, UnitsAfterOne DEF Opposite, Roles
      <3>3. CASE to \in Held
        <4>1. Units(role)' = Units(role)
          BY <2>4, <3>3, HeldAfterPhaseStep, UnitsAfterOne
        <4>2. Units("outgoing")' + Units("incoming")' = Units("outgoing") + Units("incoming")
          BY <1>0, <3>2, <4>1 DEF Opposite, Roles
        <4>3. available' = available /\ reserved' = reserved
          BY <2>4, <3>3 DEF PhaseStep, Held, Done
        <4>4. QED BY <3>1, <4>2, <4>3, <1>0, ConservationUnits DEF ConservedUnits
      <3>4. CASE to \in Done
        <4>1. Units(role)' = Units(role) - Amount(role)
          BY <2>4, <3>4, HeldAfterPhaseStep, UnitsAfterOne
        <4>2. Units("outgoing")' + Units("incoming")' = Units("outgoing") + Units("incoming") - Amount(role)
          BY <1>0, <3>2, <4>1 DEF Opposite, Roles
        <4>3. available' = available + Amount(role) /\ reserved' = reserved - Amount(role)
          BY <2>4, <3>4 DEF PhaseStep, Held, Done
        <4>4. available' + reserved' = available + reserved
          BY <1>0, <4>3
        <4>5. live => reserved' = Units("outgoing")' + Units("incoming")'
          BY <1>0, <4>2, <4>3, ConservationUnits DEF ConservedUnits, Roles
        <4>6. QED BY <3>1, <4>4, <4>5, ConservationUnits DEF ConservedUnits
      <3>5. QED BY <2>4, <3>3, <3>4 DEF PhaseStep
    <2>5. QED BY <1>2, <2>1, <2>2, <2>3, <2>4, StepKinds
  <1>3. QED BY <1>1, <1>2, Steps DEF vars, openingVars, history, Tick, Tune
-----------------------------------------------------------------------------
(* The inductive invariant: at the start, through a step, always. *)
LEMMA InitIInv == Init => IInv
  <1> SUFFICES ASSUME Init PROVE IInv
    OBVIOUS
  <1>1. \A w \in Windows : admittedIn[w] = 0
    BY DEF Init
  <1>2. AdmissionRate
    <2>1. \A w \in Windows : 0 <= AdmissionLimitAt(createdAt, (w + 1) * rateWindow - 1)
      BY PolicyNumbers DEF AdmissionLimitAt
    <2>2. QED BY <1>1, <2>1 DEF AdmissionRate
  <1>3. \A role \in Roles, e \in Events : slots[role][e].phase = "absent"
    BY DEF Init, Obligation
  <1>4. LeasesWithinPolicy /\ OneRole /\ MarkersOfDone
    BY <1>3 DEF LeasesWithinPolicy, OneRole, MarkersOfDone, Init
  <1>5. ~live /\ granted = 0
    BY DEF Init
  <1>6. QED BY <1>1, <1>2, <1>3, <1>4, <1>5, InitTypeOK
        DEF IInv, Unborn, OpeningValid, Counted, Conservation, WithinCapacity

(* Each part from the lemma about it. *)
LEMMA NextIInv == IInv /\ [Next]_vars => IInv'
  BY NextTypeOK, NextLeases, NextMarkers, NextOpening, NextRate, NextCapacity, NextConservation
  DEF IInv

(* The invariant holds in every behaviour of the account. *)
LEMMA Inductive == Spec => []IInv
  <1>1. QED BY InitIInv, NextIInv, PTL DEF Spec
-----------------------------------------------------------------------------
(* Credit is conserved: every unit is accounted for, and the reserved ones *)
(* are exactly those of the obligations not yet finished. *)
THEOREM CreditConserved == Spec => []Conservation
  <1>1. IInv => Conservation BY DEF IInv
  <1>2. QED BY Inductive, <1>1, PTL

(* No order of backdated proofs lifts an account above its capacity. *)
THEOREM CapacityKept == Spec => []WithinCapacity
  <1>1. IInv => WithinCapacity BY DEF IInv
  <1>2. QED BY Inductive, <1>1, PTL

(* The admission rate holds in the ledger's own windows. *)
THEOREM RateKept == Spec => []AdmissionRate
  <1>1. IInv => AdmissionRate BY DEF IInv
  <1>2. QED BY Inductive, <1>1, PTL

(* An obligation that holds units has not spent its settlement marker. *)
THEOREM MarkersUnspent == Spec => []HeldMarkerUnspent
  <1>1. QED BY Inductive, HeldUnspent, PTL

(* A sender's bond can be collected from its date until the policy ends. *)
LEMMA Refundable == IInv => ReleasedBondRefundable
  <1> SUFFICES ASSUME IInv, NEW e \in Events, slots["outgoing"][e].phase = "active"
               PROVE  LET slot == slots["outgoing"][e]
                      IN  /\ slot.expiresAt < policyValidUntil
                          /\ slot.expiresAt <= clock /\ clock < policyValidUntil
                              => CanRefund("outgoing", e, "active", clock)
    BY DEF ReleasedBondRefundable
  <1> USE DEF IInv
  <1> DEFINE slot == slots["outgoing"][e]
  <1>1. /\ 0 < slot.admittedAt /\ slot.admittedAt <= clock
        /\ slot.admittedAt < slot.expiresAt /\ slot.expiresAt < policyValidUntil
    BY DEF LeasesWithinPolicy, Roles
  <1>2. ASSUME clock < policyValidUntil PROVE CanRefund("outgoing", e, "active", clock)
    <2>1. live
      BY DEF Unborn, Roles, TypeOK
    <2>2. clock \in Nat /\ clock \in policyValidFrom..clock
      BY PolicyNumbers DEF TypeOK
    <2>3. Accepted(clock)
      BY <1>2, <2>2, HorizonBounds, PolicyNumbers DEF Accepted
    <2>4. Transition(clock)
      BY <2>1, <2>3 DEF Transition, OpeningValid, WithinCapacity
    <2>5. e \notin markers
      BY HeldUnspent DEF HeldMarkerUnspent, HeldBy, Held, Roles
    <2>6. reserved >= Amount("outgoing")
      <3> DEFINE k == Cardinality(HeldBy("outgoing"))
      <3>1. e \in HeldBy("outgoing")
        BY DEF HeldBy, Held
      <3>2. k \in Nat /\ k # 0
        BY <3>1, HeldFinite, FS_EmptySet DEF Roles
      <3>3. k - 1 \in Nat /\ Amount("outgoing") \in Nat
        BY <3>2, PolicyNumbers DEF Amount
      <3>4. Amount("outgoing") * ((k - 1) + 1) >= Amount("outgoing")
        <4> HIDE DEF k
        <4>1. QED BY <3>3, OneMoreOrLess
      <3>5. (k - 1) + 1 = k
        BY <3>2
      <3>6. Units("outgoing") >= Amount("outgoing")
        BY <3>4, <3>5 DEF Units
      <3>7. Units("outgoing") \in Nat /\ Units("incoming") \in Nat
        BY UnitsAfterOne DEF Roles
      <3>8. QED BY <2>1, <3>3, <3>6, <3>7, ConservationUnits DEF ConservedUnits
    <2>7. LeaseAt(slots["outgoing"][e], clock)
      BY <1>1 DEF LeaseAt
    <2>8. QED BY <2>4, <2>5, <2>6, <2>7 DEF CanRefund
  <1>3. QED BY <1>1, <1>2

(* A released outgoing bond can be refunded from its date until the end    *)
(* of the policy: main.nr dates every lease before policy_valid_until.     *)
THEOREM BondsComeBack == Spec => []ReleasedBondRefundable
  <1>1. QED BY Inductive, Refundable, PTL

(* Backdating buys no early refill. *)
THEOREM RefillsSpaced == Spec => RefillSpacing
  <1>1. IInv /\ [Next]_vars => [live /\ frontier' # frontier => clock - lastGrant > refillPeriod]_vars
    <2> SUFFICES ASSUME IInv, Next, live, frontier' # frontier
                 PROVE  clock - lastGrant > refillPeriod
      BY DEF vars, openingVars
    <2>1. PICK at \in Times : Refill(at)
      BY Steps, StepKinds
      DEF IInv, Tick, Tune, openingVars, Genesis, ReserveSlot, PhaseStep
    <2>2. AccountStep(at)
      BY <2>1 DEF AccountStep
    <2>3. at <= clock /\ at \in Nat /\ clock \in Nat
      BY <2>2, StepAccepted DEF IInv
    <2>4. at - frontier >= refillPeriod /\ lastGrant < frontier
      BY <2>1 DEF Refill, RefillDue, IInv, OpeningValid
    <2>5. frontier \in Nat /\ lastGrant \in Nat
      BY DEF IInv, TypeOK, Times
    <2>6. QED BY <2>3, <2>4, <2>5, PolicyNumbers
  <1>2. QED BY Inductive, <1>1, PTL DEF Spec, RefillSpacing
-----------------------------------------------------------------------------
(* The indexed map. *)

(* The inductive invariant: the leaves form one list in the order of keys. *)
TreeInv == TreeTypeOK /\ Restorable

(* A new map is its sentinel (indexed.nr:51-59). *)
LEMMA InitList == TreeInit => TreeInv
<1>1. SUFFICES ASSUME TreeInit PROVE TreeInv
  OBVIOUS
<1>2. Positions = {0} /\ leaves[0] = NewLeaf(0, 0, 0, 0)
  BY <1>1 DEF TreeInit, Positions
<1>3. NewLeaf(0, 0, 0, 0) \in Leaf
  BY PayloadsAssumption DEF NewLeaf, Leaf
<1>4. TreeTypeOK
  BY <1>1, <1>2, <1>3, LimitAssumption DEF TreeTypeOK, TreeInit
<1>5. Above(0) = {}
  BY <1>2 DEF Above, NewLeaf
<1>6. QED
  BY <1>2, <1>4, <1>5 DEF TreeInv, Restorable, Sentinel, DistinctKeys, Linked, NewLeaf

(* What the invariant says of each leaf, in arithmetic. *)
LEMMA LeafTypes ==
  ASSUME TreeTypeOK, NEW i \in Positions
  PROVE  /\ leaves[i] \in Leaf /\ i \in Nat /\ count \in Nat
         /\ leaves[i].key \in Nat /\ leaves[i].nextKey \in Nat /\ leaves[i].next \in Nat
<1>1. count \in Nat /\ i \in Nat
  BY LimitAssumption DEF TreeTypeOK, Positions
<1>2. leaves[i] \in Leaf
  BY DEF TreeTypeOK
<1>3. Keys \cup {0} \subseteq Nat
  BY KeysAssumption
<1>4. QED
  BY <1>1, <1>2, <1>3 DEF Leaf

(* A gap's key lies between two neighbours of the list: no leaf has it,    *)
(* and the leaves above it are those above the gap's leaf                  *)
(* (indexed.nr:78-86).                                                     *)
LEMMA GapIsClear ==
  ASSUME TreeInv, NEW key \in Keys, NEW i \in Positions, Absent(key, i), NEW j \in Positions
  PROVE  /\ leaves[j].key # key
         /\ leaves[j].key > key <=> leaves[j].key > leaves[i].key
         /\ leaves[i].key < key
<1>1. key \in Nat /\ key > 0
  BY KeysAssumption
<1>2. Gap(leaves[i], key)
  BY DEF Absent
<1>3. leaves[i].key \in Nat /\ leaves[j].key \in Nat /\ leaves[i].nextKey \in Nat
  BY LeafTypes DEF TreeInv
<1>4. CASE Above(i) = {}
  <2>1. ~ leaves[j].key > leaves[i].key
    BY <1>4 DEF Above
  <2>2. QED
    BY <1>1, <1>2, <1>3, <2>1 DEF Gap
<1>5. CASE Above(i) # {}
  <2>1. Lowest(leaves[i].next, Above(i)) /\ leaves[i].nextKey = leaves[leaves[i].next].key
    BY <1>5 DEF TreeInv, Restorable, Linked
  <2>2. leaves[i].nextKey > leaves[i].key
    BY <2>1 DEF Lowest, Above
  <2>3. key < leaves[i].nextKey /\ leaves[i].key < key
    BY <1>2, <1>3, <2>2 DEF Gap
  <2>4. leaves[j].key > leaves[i].key => leaves[i].nextKey <= leaves[j].key
    BY <2>1 DEF Lowest, Above
  <2>5. QED
    BY <1>1, <1>3, <2>3, <2>4
<1>6. QED
  BY <1>4, <1>5

(* The leaves after an insertion. *)
LEMMA InsertLeaves ==
  ASSUME TreeInv, NEW key \in Keys, NEW new \in Payloads, NEW i \in Positions,
         Insert(key, new, i)
  PROVE  /\ Positions' = Positions \cup {count} /\ count \notin Positions
         /\ count' = count + 1 /\ count \in Nat
         /\ leaves'[count] = NewLeaf(key, new, leaves[i].next, leaves[i].nextKey)
         /\ leaves'[i] = NewLeaf(leaves[i].key, leaves[i].payload, count, key)
         /\ \A j \in Positions \ {i} : leaves'[j] = leaves[j]
         /\ \A j \in Positions : leaves'[j].key = leaves[j].key
         /\ \A j \in Positions : leaves'[j].payload = leaves[j].payload
         /\ leaves'[count].key = key
<1>1. count \in Nat /\ count >= 1 /\ count' = count + 1
  BY LimitAssumption DEF TreeInv, TreeTypeOK, Insert
<1>2. Positions' = Positions \cup {count} /\ count \notin Positions
  BY <1>1 DEF Positions
<1>3. i # count /\ i \in 0 .. count /\ count \in 0 .. count
  BY <1>1 DEF Positions
<1>4. leaves' = Appended(key, new, i)
  BY DEF Insert
<1>5. leaves'[count] = NewLeaf(key, new, leaves[i].next, leaves[i].nextKey)
  BY <1>3, <1>4 DEF Appended
<1>6. leaves'[i] = NewLeaf(leaves[i].key, leaves[i].payload, count, key)
  BY <1>3, <1>4 DEF Appended
<1>7. \A j \in Positions \ {i} : leaves'[j] = leaves[j]
  BY <1>1, <1>4 DEF Appended, Positions
<1>8. QED
  BY <1>1, <1>2, <1>5, <1>6, <1>7 DEF NewLeaf

(* An insertion keeps the list, whatever gap its prover named              *)
(* (indexed.nr:88-102, IndexedMap.insert).                                 *)
LEMMA InsertKeeps ==
  ASSUME TreeInv, NEW key \in Keys, NEW new \in Payloads, NEW i \in Positions,
         Insert(key, new, i)
  PROVE  TreeInv'
<1>0. /\ Positions' = Positions \cup {count} /\ count \notin Positions
      /\ count' = count + 1 /\ count \in Nat
      /\ leaves'[count] = NewLeaf(key, new, leaves[i].next, leaves[i].nextKey)
      /\ leaves'[i] = NewLeaf(leaves[i].key, leaves[i].payload, count, key)
      /\ \A j \in Positions \ {i} : leaves'[j] = leaves[j]
      /\ \A j \in Positions : leaves'[j].key = leaves[j].key
      /\ \A j \in Positions : leaves'[j].payload = leaves[j].payload
      /\ leaves'[count].key = key
  BY InsertLeaves
<1> USE <1>0
<1>1. Absent(key, i) /\ count < Limit /\ TreeTypeOK
  BY DEF Insert, TreeInv
<1>2. key \in Nat /\ key > 0
  BY KeysAssumption
<1>3. TreeTypeOK'
  <2>1. count' \in 1 .. Limit
    BY <1>1, LimitAssumption DEF TreeTypeOK
  <2>2. leaves[i] \in Leaf
    BY <1>1, LeafTypes
  <2>3. leaves'[count] \in Leaf /\ leaves'[i] \in Leaf
    BY <1>1, <2>2, LeafTypes DEF Leaf, NewLeaf
  <2>4. \A j \in Positions' : leaves'[j] \in Leaf
    BY <1>1, <2>3, LeafTypes
  <2>5. Positions' = 0 .. count
    BY DEF Positions
  <2>6. leaves' = [j \in Positions' |-> leaves'[j]]
    BY <2>5 DEF Insert, Appended
  <2>7. QED
    BY <2>1, <2>4, <2>6 DEF TreeTypeOK
<1>4. Sentinel'
  <2>1. 0 \in Positions
    BY <1>1, LimitAssumption DEF TreeTypeOK, Positions
  <2>2. QED
    BY <2>1 DEF TreeInv, Restorable, Sentinel
<1>5. DistinctKeys'
  <2>1. \A j \in Positions : leaves[j].key # key
    BY <1>1, GapIsClear
  <2>2. QED
    BY <2>1 DEF TreeInv, Restorable, DistinctKeys
<1>6. Linked'
  <2>1. SUFFICES ASSUME NEW p \in Positions'
                 PROVE  \/ Above(p)' = {} /\ leaves'[p].next = 0 /\ leaves'[p].nextKey = 0
                        \/ /\ Lowest(leaves[p].next, Above(p))'
                           /\ leaves'[p].nextKey = leaves'[leaves'[p].next].key
    BY DEF Linked
  <2>2. \A j \in Positions : leaves[j].key \in Nat
    BY <1>1, LeafTypes
  <2>3. \A j \in Positions : /\ leaves[j].key # key /\ leaves[i].key < key
                             /\ leaves[j].key > key <=> leaves[j].key > leaves[i].key
    BY <1>1, GapIsClear
  <2>4. CASE p = count
    <3>1. Above(p)' = Above(i)
      BY <1>2, <2>2, <2>3, <2>4 DEF Above
    <3>2. leaves'[p].next = leaves[i].next /\ leaves'[p].nextKey = leaves[i].nextKey
      BY <2>4 DEF NewLeaf
    <3>3. CASE Above(i) = {}
      BY <3>1, <3>2, <3>3 DEF TreeInv, Restorable, Linked, Lowest
    <3>4. CASE Above(i) # {}
      <4>1. Lowest(leaves[i].next, Above(i)) /\ leaves[i].nextKey = leaves[leaves[i].next].key
        BY <3>4 DEF TreeInv, Restorable, Linked
      <4>2. leaves[i].next \in Positions /\ Above(i) \subseteq Positions
        BY <4>1 DEF Lowest, Above
      <4>3. QED
        BY <3>1, <3>2, <4>1, <4>2 DEF Lowest
    <3>5. QED
      BY <3>3, <3>4
  <2>5. CASE p = i
    <3>1. Above(p)' = Above(i) \cup {count}
      BY <2>2, <2>3, <2>5 DEF Above
    <3>2. leaves'[p].next = count /\ leaves'[p].nextKey = key
      BY <2>5 DEF NewLeaf
    <3>3. \A k \in Above(i) : k \in Positions /\ key <= leaves[k].key
      BY <1>2, <2>2, <2>3 DEF Above
    <3>4. QED
      BY <1>2, <3>1, <3>2, <3>3 DEF Lowest
  <2>6. CASE p \in Positions \ {i}
    <3>1. leaves'[p] = leaves[p] /\ p \in Positions
      BY <2>6
    <3>2. leaves[p].key # leaves[i].key
      BY <2>6 DEF TreeInv, Restorable, DistinctKeys
    <3>3. CASE leaves[p].key > key
      <4>1. Above(p)' = Above(p)
        BY <1>2, <2>2, <3>1, <3>3 DEF Above
      <4>2. CASE Above(p) = {}
        BY <3>1, <4>1, <4>2 DEF TreeInv, Restorable, Linked, Lowest
      <4>3. CASE Above(p) # {}
        <5>1. Lowest(leaves[p].next, Above(p)) /\ leaves[p].nextKey = leaves[leaves[p].next].key
          BY <3>1, <4>3 DEF TreeInv, Restorable, Linked
        <5>2. leaves[p].next \in Positions /\ Above(p) \subseteq Positions
          BY <5>1 DEF Lowest, Above
        <5>3. QED
          BY <3>1, <4>1, <5>1, <5>2 DEF Lowest
      <4>4. QED
        BY <4>2, <4>3
    <3>4. CASE leaves[p].key < key
      <4>1. leaves[i].key > leaves[p].key
        BY <2>2, <2>3, <3>1, <3>2, <3>4, <1>2
      <4>2. i \in Above(p)
        BY <4>1 DEF Above
      <4>3. Lowest(leaves[p].next, Above(p)) /\ leaves[p].nextKey = leaves[leaves[p].next].key
        BY <3>1, <4>2 DEF TreeInv, Restorable, Linked
      <4>4. leaves[p].next \in Positions /\ Above(p) \subseteq Positions
        BY <4>3 DEF Lowest, Above
      <4>5. leaves[leaves[p].next].key <= key
        BY <1>2, <2>2, <2>3, <4>2, <4>3, <4>4 DEF Lowest
      <4>6. Above(p)' = Above(p) \cup {count}
        BY <1>2, <2>2, <3>1, <3>4 DEF Above
      <4>7. QED
        BY <3>1, <4>3, <4>4, <4>5, <4>6 DEF Lowest
    <3>5. QED
      BY <1>2, <2>2, <2>3, <3>1, <3>3, <3>4
  <2>7. QED
    BY <2>4, <2>5, <2>6
<1>7. QED
  BY <1>3, <1>4, <1>5, <1>6 DEF TreeInv, Restorable

(* The leaves after an update. *)
LEMMA UpdateLeaves ==
  ASSUME TreeInv, NEW key \in Keys, NEW old \in Payloads, NEW new \in Payloads,
         NEW i \in Positions, Update(key, old, new, i)
  PROVE  /\ Positions' = Positions /\ i # 0
         /\ leaves[i].key = key /\ leaves[i].payload = old
         /\ \A j \in Positions : /\ leaves'[j].key = leaves[j].key
                                 /\ leaves'[j].next = leaves[j].next
                                 /\ leaves'[j].nextKey = leaves[j].nextKey
                                 /\ leaves'[j].payload = IF j = i THEN new ELSE leaves[j].payload
         /\ leaves' \in [Positions -> Leaf]
<1>1. leaves[i].key = key /\ leaves[i].payload = old /\ leaves' = [leaves EXCEPT ![i].payload = new]
  BY DEF Update, Present
<1>2. leaves \in [Positions -> Leaf] /\ Positions' = Positions
  BY DEF TreeInv, TreeTypeOK, Update, Positions
<1>3. i # 0
  BY <1>1, KeysAssumption DEF TreeInv, Restorable, Sentinel
<1>4. leaves' = [j \in Positions |-> IF j = i THEN [leaves[i] EXCEPT !.payload = new]
                                     ELSE leaves[j]]
  BY <1>1, <1>2
<1>5. \A j \in Positions : leaves[j] \in Leaf
  BY <1>2
<1>6. [leaves[i] EXCEPT !.payload = new] \in Leaf
  BY <1>5 DEF Leaf
<1>7. QED
  BY <1>1, <1>2, <1>3, <1>4, <1>5, <1>6 DEF Leaf

(* An update keeps the key and both links (indexed.nr:104-114).            *)
LEMMA UpdateKeeps ==
  ASSUME TreeInv, NEW key \in Keys, NEW old \in Payloads, NEW new \in Payloads,
         NEW i \in Positions, Update(key, old, new, i)
  PROVE  TreeInv'
<1> USE UpdateLeaves
<1>1. TreeTypeOK'
  BY DEF TreeInv, TreeTypeOK, Update
<1>2. 0 \in Positions
  BY LimitAssumption DEF TreeInv, TreeTypeOK, Positions
<1>3. Sentinel'
  BY <1>2 DEF TreeInv, Restorable, Sentinel
<1>4. DistinctKeys'
  BY DEF TreeInv, Restorable, DistinctKeys
<1>5. \A p \in Positions : Above(p)' = Above(p) /\ Above(p) \subseteq Positions
  BY DEF Above
<1>6. Linked'
  BY <1>5 DEF TreeInv, Restorable, Linked, Lowest
<1>7. QED
  BY <1>1, <1>3, <1>4, <1>6 DEF TreeInv, Restorable

(* The invariant holds of every reachable map.                             *)
LEMMA ListAlways == TreeSpec => []TreeInv
<1>1. TreeInv /\ [TreeNext]_treeVars => TreeInv'
  <2>1. SUFFICES ASSUME TreeInv, [TreeNext]_treeVars PROVE TreeInv'
    OBVIOUS
  <2>2. CASE TreeNext
    BY <2>1, <2>2, InsertKeeps, UpdateKeeps DEF TreeNext
  <2>3. CASE UNCHANGED treeVars
    BY <2>1, <2>3 DEF treeVars, TreeInv, TreeTypeOK, Restorable, Sentinel, DistinctKeys,
                      Linked, Above, Lowest, Positions
  <2>4. QED
    BY <2>1, <2>2, <2>3
<1>2. QED
  BY <1>1, InitList, PTL DEF TreeSpec

(* A checkpoint of any map the circuit accepted restores                   *)
(* (checkpoint.mjs:92-108).                                                *)
THEOREM AlwaysRestorable == TreeSpec => []Restorable
<1>1. TreeInv => Restorable
  BY DEF TreeInv
<1>2. QED
  BY <1>1, ListAlways, PTL

(* Witnesses prove what is so, for every capacity and set of keys          *)
(* (indexed.nr:78-86, 116-121).                                            *)
THEOREM AlwaysSound == TreeSpec => []Sound
<1>1. TreeInv => Sound
  <2>1. SUFFICES ASSUME TreeInv, NEW key \in Keys, NEW i \in Positions, NEW j \in Positions
                 PROVE  /\ Absent(key, i) => leaves[j].key # key
                        /\ \A p \in Payloads : Present(key, p, i) =>
                               \A q \in Payloads : Present(key, q, j) => p = q
    BY DEF Sound
  <2>2. Absent(key, i) => leaves[j].key # key
    BY <2>1, GapIsClear
  <2>3. \A p, q \in Payloads : Present(key, p, i) /\ Present(key, q, j) => p = q
    BY <2>1 DEF TreeInv, Restorable, DistinctKeys, Present
  <2>4. QED
    BY <2>2, <2>3
<1>2. QED
  BY <1>1, ListAlways, PTL

(* Both, of every map the circuit accepted (checkpoint.mjs:98-112,         *)
(* indexed.nr:74-115).                                                     *)
THEOREM MapAlwaysHolds == TreeSpec => []MapHolds
<1>1. Restorable /\ Sound => MapHolds
  BY DEF MapHolds
<1>2. QED
  BY <1>1, AlwaysRestorable, AlwaysSound, PTL

(* The accepted map behaves as the keyed entries the account reads it as:  *)
(* a key is added once, its payload replaced in place                      *)
(* (indexed.nr:88-114).                                                    *)
THEOREM RefinesEntries == TreeSpec => ImplementsMap
<1>1. TreeInit => Map!Init
  <2>1. TreeInit => Positions \ {0} = {}
    BY DEF TreeInit, Positions
  <2>2. QED
    BY <2>1 DEF Map!Init, Entries
<1>2. TreeInv /\ [TreeNext]_treeVars => [Map!Next]_Entries
  <2>1. SUFFICES ASSUME TreeInv, [TreeNext]_treeVars PROVE Map!Next \/ Entries' = Entries
    OBVIOUS
  <2>2. ASSUME NEW key \in Keys, NEW new \in Payloads, NEW i \in Positions,
               Insert(key, new, i)
        PROVE  Map!Add(key, new)
    <3>1. \A j \in Positions : leaves[j].key # key
      BY <2>1, <2>2, GapIsClear DEF Insert
    <3>2. Positions' \ {0} = (Positions \ {0}) \cup {count}
      BY <2>1, <2>2, InsertLeaves, LimitAssumption DEF TreeInv, TreeTypeOK
    <3>3. leaves'[count].key = key /\ leaves'[count].payload = new
      <4>1. leaves'[count] = NewLeaf(key, new, leaves[i].next, leaves[i].nextKey)
        BY <2>1, <2>2, InsertLeaves
      <4>2. QED
        BY <4>1 DEF NewLeaf
    <3>4. \A j \in Positions : /\ leaves'[j].key = leaves[j].key
                               /\ leaves'[j].payload = leaves[j].payload
      BY <2>1, <2>2, InsertLeaves
    <3>5. Entries' = Entries \cup {<<key, new>>}
      BY <3>2, <3>3, <3>4 DEF Entries
    <3>6. QED
      BY <3>1, <3>5 DEF Map!Add, Entries
  <2>3. ASSUME NEW key \in Keys, NEW old \in Payloads, NEW new \in Payloads,
               NEW i \in Positions, Update(key, old, new, i)
        PROVE  \E e \in Entries : Map!Replace(e[1], e[2], new)
    <3>1. /\ Positions' = Positions /\ i \in Positions \ {0}
          /\ leaves[i].key = key /\ leaves[i].payload = old
      BY <2>1, <2>3, UpdateLeaves
    <3>2. \A j \in Positions : /\ leaves'[j].key = leaves[j].key
                               /\ leaves'[j].payload = IF j = i THEN new ELSE leaves[j].payload
      BY <2>1, <2>3, UpdateLeaves
    <3>3. \A j \in Positions \ {0, i} : leaves[j].key # key
      BY <2>1, <3>1 DEF TreeInv, Restorable, DistinctKeys
    <3>4. <<key, old>> \in Entries
      BY <3>1 DEF Entries
    <3>5. Entries' = (Entries \ {<<key, old>>}) \cup {<<key, new>>}
      BY <3>1, <3>2, <3>3 DEF Entries
    <3>6. Map!Replace(key, old, new)
      BY <3>4, <3>5 DEF Map!Replace
    <3>7. WITNESS <<key, old>> \in Entries
    <3>8. QED
      BY <3>6
  <2>4. CASE TreeNext
    BY <2>2, <2>3, <2>4 DEF TreeNext, Map!Next
  <2>5. CASE UNCHANGED treeVars
    BY <2>5 DEF treeVars, Entries, Positions
  <2>6. QED
    BY <2>1, <2>4, <2>5
<1>3. QED
  BY <1>1, <1>2, ListAlways, PTL DEF TreeSpec, ImplementsMap, Map!Spec
=============================================================================
