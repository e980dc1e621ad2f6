------------------------- MODULE AccountActorProofs -------------------------
(***************************************************************************)
(* Theorems about AccountActor, for any devices, processes, requests and   *)
(* times: the ledger's current state can be opened by the device that      *)
(* proved it, one request of a device at most can still be accepted, and a *)
(* lagging process never puts an older state back.                         *)
(***************************************************************************)
EXTENDS AccountActor, FiniteSetTheorems, TLAPS

Journal == [revision : Nat, accepted : Request \cup {None}, pending : Request \cup {None}]
Acceptance == [request : Request, acceptedAt : Times]
Points == {"down", "idle", "saving", "applying", "reapplying", "installing", "reinstalling",
           "asking", "confirming", "checking", "dropping"}

Types ==
    /\ chain \in [{owner} -> Seq(Acceptance)] /\ floor \in Nat
    /\ sent \subseteq Request /\ drawn \subseteq Ids
    /\ storage \in [Devices -> Journal] /\ journal \in [Actors -> Journal]
    /\ candidate \in [Actors -> Request \cup {None}]
    /\ pc \in [Actors -> Points] /\ blocked \in [Actors -> BOOLEAN]

(* Every request there is was drawn once: its identifier names it. *)
InJournal(j, r) == r = j.accepted \/ r = j.pending
Made(r) ==
    /\ r # None
    /\ \/ r \in sent
       \/ \E d \in Devices : InJournal(storage[d], r)
       \/ \E a \in Actors : InJournal(journal[a], r) \/ r = candidate[a]
MadeOnce ==
    /\ \A r \in Request : Made(r) =>
        /\ r.id \in drawn /\ r.nextState = r.id
        /\ r.genesis <=> r.previousState = None
    /\ \A r, s \in Request : Made(r) /\ Made(s) /\ r.id = s.id => r = s

(* The accepted statements are requests that were sent, each once, and     *)
(* each extends the one before. *)
C == chain[owner]
Linked(i) ==
    /\ C[i].request \in sent
    /\ i = 1 => C[i].request.genesis
    /\ i # 1 => /\ ~C[i].request.genesis
                /\ C[i].request.previousState = C[i - 1].request.nextState
Chained ==
    /\ \A i \in 1 .. Len(C) : Linked(i)
    /\ \A i, j \in 1 .. Len(C) : C[i].request = C[j].request => i = j

(* A process holds what its device's storage held at that revision. *)
Revised ==
    /\ \A d \in Devices : storage[d].revision = 0 => storage[d] = EmptyJournal
    /\ \A a \in Actors :
        /\ journal[a].revision <= storage[DeviceOf[a]].revision
        /\ journal[a].revision = storage[DeviceOf[a]].revision => journal[a] = storage[DeviceOf[a]]

(* A journal is of its own device; its accepted statement was accepted,    *)
(* and its pending request extends that. *)
Extending(j, r) == r.previousState = IF j.accepted = None THEN None ELSE j.accepted.nextState
Sound(j, d) ==
    /\ j.accepted # None => j.accepted \in Accepted /\ j.accepted.device = d
    /\ j.pending # None => j.pending.device = d /\ Extending(j, j.pending)
JournalsSound ==
    /\ \A d \in Devices : Sound(storage[d], d)
    /\ \A a \in Actors : Sound(journal[a], DeviceOf[a])

(* A request that was once saved is still pending on its device, or its    *)
(* outcome is settled. *)
Settled(r) == r = storage[r.device].pending \/ r \in Accepted \/ floor >= r.expiresAt
Known ==
    /\ \A r \in sent : Settled(r)
    /\ \A a \in Actors : journal[a].pending # None => Settled(journal[a].pending)

(* What a process relies on at each await. *)
AtPoint(a) ==
    /\ pc[a] = "saving" =>
        /\ journal[a].pending = None /\ candidate[a] # None
        /\ candidate[a].device = DeviceOf[a] /\ Extending(journal[a], candidate[a])
    /\ pc[a] \in {"applying", "reapplying", "asking"} => journal[a].pending # None
    /\ pc[a] \in {"installing", "reinstalling"} => journal[a].pending \in Accepted
    /\ pc[a] \in {"confirming", "dropping"} =>
        /\ journal[a].pending # None /\ journal[a].pending \notin Accepted
        /\ floor >= journal[a].pending.expiresAt

IInv ==
    /\ Types /\ MadeOnce /\ Chained /\ Revised /\ JournalsSound /\ Known
    /\ \A a \in Actors : AtPoint(a)
    /\ OpeningRetained
-----------------------------------------------------------------------------
(* The chain is a sequence of typed acceptances. *)
LEMMA ChainTypes ==
  ASSUME Types
  PROVE  /\ C \in Seq(Acceptance) /\ Len(C) \in Nat
         /\ \A i \in 1 .. Len(C) : C[i].request \in Request /\ C[i].acceptedAt \in Times
         /\ Accepted \subseteq Request
         /\ \A r : r \in Accepted <=> \E i \in 1 .. Len(C) : C[i].request = r
         /\ Latest # None => Len(C) > 0 /\ Latest = C[Len(C)].request /\ Latest \in Accepted
         /\ Len(C) > 0 => Latest # None
  <1>1. C \in Seq(Acceptance) /\ Len(C) \in Nat
    BY DEF Types, C
  <1>2. \A i \in 1 .. Len(C) : C[i] \in Acceptance
    BY <1>1
  <1>3. \A i \in 1 .. Len(C) : C[i].request \in Request /\ C[i].acceptedAt \in Times
    BY <1>2 DEF Acceptance
  <1>4. Accepted = {C[i].request : i \in 1 .. Len(C)}
    BY DEF Accepted, C
  <1>5. C = << >> => Len(C) = 0
    OBVIOUS
  <1>6. C # << >> => Len(C) > 0
    BY <1>1
  <1>7. Latest = IF C = << >> THEN None ELSE C[Len(C)].request
    BY DEF Latest, C
  <1>8. Len(C) > 0 => Len(C) \in 1 .. Len(C)
    BY <1>1
  <1>9. QED BY <1>1, <1>3, <1>4, <1>5, <1>6, <1>7, <1>8, NoneIsNothing

(* What is accepted was made, with the identifier that names its state. *)
LEMMA AcceptedMade ==
  ASSUME Types, MadeOnce, Chained, NEW r \in Accepted
  PROVE  Made(r) /\ r \in Request /\ r \in sent /\ r # None /\ r.nextState \in Ids
  <1>1. PICK i \in 1 .. Len(C) : C[i].request = r
    BY ChainTypes
  <1>2. r \in sent /\ r \in Request /\ r # None
    BY <1>1, ChainTypes, NoneIsNothing DEF Chained, Linked
  <1>3. QED BY <1>2 DEF Made, Request

(* A state is proposed by one request, so a request's place in the chain   *)
(* follows from the state it extends. *)
LEMMA Place ==
  ASSUME Types, MadeOnce, Chained, NEW i \in 1 .. Len(C), NEW j \in 1 .. Len(C),
         C[i].request.nextState = C[j].request.nextState
  PROVE  i = j
  <1>1. C[i].request \in Accepted /\ C[j].request \in Accepted
    BY ChainTypes
  <1>2. /\ Made(C[i].request) /\ Made(C[j].request)
        /\ C[i].request \in Request /\ C[j].request \in Request
    BY <1>1, AcceptedMade
  <1>3. C[i].request = C[j].request
    BY <1>2 DEF MadeOnce
  <1>4. QED BY <1>3 DEF Chained

(* A pending request that was accepted comes right after the statement its *)
(* journal extends. *)
LEMMA PendingFollows ==
  ASSUME Types, MadeOnce, Chained, NEW j, NEW d, Sound(j, d), j.pending \in Accepted
  PROVE  /\ j.accepted = None => j.pending = C[1].request /\ 1 \in 1 .. Len(C)
         /\ \A i \in 1 .. Len(C) : C[i].request = j.accepted =>
                i + 1 \in 1 .. Len(C) /\ C[i + 1].request = j.pending
  <1>1. PICK k \in 1 .. Len(C) : C[k].request = j.pending
    BY ChainTypes
  <1>2. /\ Made(j.pending) /\ j.pending \in Request /\ j.pending # None
        /\ j.pending.genesis <=> j.pending.previousState = None
        /\ Linked(k) /\ Extending(j, j.pending)
    BY <1>1, AcceptedMade DEF MadeOnce, Chained, Sound
  <1>3. CASE j.accepted = None
    <2>1. j.pending.genesis
      BY <1>2, <1>3 DEF Extending
    <2>2. k = 1
      BY <1>1, <1>2, <2>1 DEF Linked
    <2>3. QED BY <1>1, <1>3, <2>2, ChainTypes, NoneIsNothing
  <1>4. CASE j.accepted # None
    <2>1. j.accepted \in Accepted /\ j.accepted.nextState \in Ids
      BY <1>4, AcceptedMade DEF Sound
    <2>2. j.pending.previousState = j.accepted.nextState /\ ~j.pending.genesis
      BY <1>2, <1>4, <2>1, NoneIsNothing DEF Extending
    <2>3. k # 1 /\ k - 1 \in 1 .. Len(C) /\ C[k - 1].request.nextState = j.accepted.nextState
      BY <1>1, <1>2, <2>2, ChainTypes DEF Linked
    <2>4. ASSUME NEW i \in 1 .. Len(C), C[i].request = j.accepted
          PROVE  i + 1 \in 1 .. Len(C) /\ C[i + 1].request = j.pending
      <3>1. i = k - 1
        BY <2>3, <2>4, Place
      <3>2. i + 1 = k
        BY <3>1
      <3>3. QED BY <1>1, <3>2
    <2>5. QED BY <1>4, <2>4
  <1>5. QED BY <1>3, <1>4
-----------------------------------------------------------------------------
(* The ledger accepts a request: it is the pending one of its device, it   *)
(* was not accepted before, and it is the chain's new end. *)
LEMMA Applied ==
  ASSUME IInv, NEW r \in sent, NEW now \in Times, LedgerApply(r, now)
  PROVE  /\ r \in Request /\ now \in Nat /\ floor <= now /\ now < r.expiresAt /\ floor' = now
         /\ r \notin Accepted /\ r = storage[r.device].pending
         /\ chain' = [chain EXCEPT ![owner] = Append(@, [request |-> r, acceptedAt |-> now])]
         /\ C' = Append(C, [request |-> r, acceptedAt |-> now])
         /\ Len(C') = Len(C) + 1 /\ C'[Len(C) + 1].request = r
         /\ \A i \in 1 .. Len(C) : C'[i] = C[i]
         /\ IF Len(C) = 0 THEN r.genesis
            ELSE ~r.genesis /\ r.previousState = C[Len(C)].request.nextState
         /\ Accepted' = Accepted \cup {r} /\ Latest' = r
         /\ UNCHANGED <<device, memory>>
  <1> USE DEF IInv
  <1> DEFINE new == [request |-> r, acceptedAt |-> now]
  <1>1. r \in Request /\ r.owner = owner /\ r.expiresAt \in Nat /\ now \in Nat /\ floor \in Nat
    BY ActorTypes DEF Types, Request
  <1>2. /\ Ledger!Extends(owner, new) /\ floor <= now /\ now < r.expiresAt /\ floor' = now
        /\ chain' = [chain EXCEPT ![owner] = Append(@, new)]
        /\ UNCHANGED <<device, memory>>
    BY <1>1 DEF LedgerApply, Ledger!Accept
  <1>3. C' = Append(C, new)
    BY <1>2 DEF C, Types
  <1>4. C \in Seq(Acceptance) /\ Len(C) \in Nat /\ new \in Acceptance
    BY <1>1, ChainTypes DEF Acceptance
  <1>5. /\ Len(C') = Len(C) + 1 /\ C'[Len(C) + 1] = new
        /\ \A i \in 1 .. Len(C) : C'[i] = C[i]
    BY <1>3, <1>4
  <1>6. IF Len(C) = 0 THEN r.genesis
        ELSE ~r.genesis /\ r.previousState = C[Len(C)].request.nextState
    BY <1>2 DEF Ledger!Extends, C
  <1>7. r \notin Accepted
    <2> SUFFICES ASSUME NEW k \in 1 .. Len(C), C[k].request = r PROVE FALSE
      BY ChainTypes
    <2>1. Len(C) # 0 /\ ~r.genesis /\ r.previousState = C[Len(C)].request.nextState
      BY <1>4, <1>6
    <2>2. k # 1 /\ r.previousState = C[k - 1].request.nextState
      BY <2>1 DEF Chained, Linked
    <2>3. k - 1 \in 1 .. Len(C) /\ Len(C) \in 1 .. Len(C)
      BY <1>4, <2>1, <2>2
    <2>4. k - 1 = Len(C)
      BY <2>1, <2>2, <2>3, Place
    <2>5. QED BY <1>4, <2>4
  <1>8. r = storage[r.device].pending
    BY <1>1, <1>2, <1>7 DEF Known, Settled
  <1>9. C'[Len(C) + 1].request = r /\ Len(C) + 1 \in 1 .. Len(C') /\ C' # << >>
    BY <1>4, <1>5
  <1>10. Accepted' = {C'[i].request : i \in 1 .. Len(C')} /\ Accepted = {C[i].request : i \in 1 .. Len(C)}
    BY DEF Accepted, C
  <1>11. Accepted' = Accepted \cup {r}
    <2>1. \A i \in 1 .. Len(C') : i \in 1 .. Len(C) \/ i = Len(C) + 1
      BY <1>4, <1>5
    <2>2. \A i \in 1 .. Len(C) : i \in 1 .. Len(C')
      BY <1>4, <1>5
    <2>3. QED BY <1>5, <1>9, <1>10, <2>1, <2>2
  <1>12. Latest' = r
    BY <1>5, <1>9 DEF Latest, C
  <1>13. QED BY <1>1, <1>2, <1>3, <1>5, <1>6, <1>7, <1>8, <1>9, <1>11, <1>12

(* The invariant, when the ledger accepts. *)
LEMMA ApplyIInv ==
  ASSUME IInv, NEW r \in sent, NEW now \in Times, LedgerApply(r, now)
  PROVE  IInv'
  <1>0. UNCHANGED <<sent, storage, drawn, pc, journal, blocked, candidate>>
    BY Applied DEF device, memory
  <1>a. /\ r \in Request /\ now \in Nat /\ floor <= now /\ now < r.expiresAt /\ floor' = now
        /\ r \notin Accepted /\ r = storage[r.device].pending
        /\ chain' = [chain EXCEPT ![owner] = Append(@, [request |-> r, acceptedAt |-> now])]
        /\ Len(C') = Len(C) + 1 /\ C'[Len(C) + 1].request = r
        /\ \A i \in 1 .. Len(C) : C'[i] = C[i]
        /\ IF Len(C) = 0 THEN r.genesis
           ELSE ~r.genesis /\ r.previousState = C[Len(C)].request.nextState
        /\ Accepted' = Accepted \cup {r} /\ Latest' = r
    BY Applied
  <1> USE DEF IInv
  <1>1. Types'
    <2>1. chain' \in [{owner} -> Seq(Acceptance)]
      <3>1. [request |-> r, acceptedAt |-> now] \in Acceptance
        BY <1>a DEF Acceptance
      <3>2. Append(chain[owner], [request |-> r, acceptedAt |-> now]) \in Seq(Acceptance)
        BY <3>1 DEF Types
      <3>3. QED BY <3>2, <1>a DEF Types
    <2>2. QED BY <1>0, <2>1, <1>a DEF Types
  <1>2. MadeOnce'
    BY <1>0 DEF MadeOnce, Made, InJournal
  <1>3. Chained'
    <2>1. Len(C) \in Nat /\ Len(C') = Len(C) + 1 /\ \A i \in 1 .. Len(C) : C'[i] = C[i]
      BY <1>a, ChainTypes
    <2>2. ASSUME NEW i \in 1 .. Len(C') PROVE Linked(i)'
      <3>1. CASE i \in 1 .. Len(C)
        <4>1. Linked(i) /\ C'[i] = C[i] /\ (i # 1 => C'[i - 1] = C[i - 1])
          BY <2>1, <3>1 DEF Chained
        <4>2. QED BY <1>0, <4>1 DEF Linked
      <3>2. CASE i = Len(C) + 1
        <4>1. Len(C) # 0 => Len(C) \in 1 .. Len(C) /\ C'[i - 1] = C[Len(C)] /\ i # 1
          BY <2>1, <3>2
        <4>2. Len(C) = 0 => i = 1
          BY <3>2
        <4>3. QED BY <1>0, <3>2, <4>1, <4>2, <1>a DEF Linked
      <3>3. QED BY <2>1, <2>2, <3>1, <3>2
    <2>3. ASSUME NEW i \in 1 .. Len(C'), NEW j \in 1 .. Len(C'), C'[i].request = C'[j].request
          PROVE  i = j
      <3>1. \A k \in 1 .. Len(C) : C[k].request # r
        BY <1>a, ChainTypes
      <3>2. \A k \in 1 .. Len(C') : k \in 1 .. Len(C) \/ k = Len(C) + 1
        BY <2>1
      <3>3. QED BY <2>1, <2>3, <3>1, <3>2, <1>a DEF Chained
    <2>4. QED BY <2>2, <2>3 DEF Chained
  <1>4. Revised'
    BY <1>0 DEF Revised
  <1>5. JournalsSound'
    BY <1>0, <1>a DEF JournalsSound, Sound, Extending
  <1>6. ASSUME NEW x \in Request, Settled(x) PROVE Settled(x)'
    <2>1. floor \in Nat /\ floor' \in Nat /\ floor <= floor' /\ x.expiresAt \in Nat
      BY <1>a, ActorTypes DEF Types, Request
    <2>2. QED BY <1>0, <1>6, <2>1, <1>a DEF Settled
  <1>7. Known'
    <2>1. \A x \in sent : x \in Request
      BY DEF Types
    <2>2. \A a \in Actors : journal[a].pending # None => journal[a].pending \in Request
      BY DEF Types, Journal
    <2>3. QED BY <1>0, <1>6, <2>1, <2>2 DEF Known
  <1>8. ASSUME NEW a \in Actors PROVE AtPoint(a)'
    <2>1. pc[a] \in {"confirming", "dropping"} =>
            /\ journal[a].pending # r /\ floor' >= journal[a].pending.expiresAt
      <3>1. SUFFICES ASSUME pc[a] \in {"confirming", "dropping"}
                     PROVE  journal[a].pending # r /\ floor' >= journal[a].pending.expiresAt
        OBVIOUS
      <3>2. /\ journal[a].pending \in Request /\ floor >= journal[a].pending.expiresAt
            /\ floor \in Nat /\ journal[a].pending.expiresAt \in Nat
        BY <3>1, ActorTypes DEF AtPoint, Types, Journal, Request
      <3>3. QED BY <3>2, <1>a
    <2>2. QED BY <1>0, <2>1, <1>a DEF AtPoint, Extending
  <1>9. OpeningRetained'
    BY <1>0, <1>a DEF OpeningRetained
  <1>10. QED BY <1>1, <1>2, <1>3, <1>4, <1>5, <1>7, <1>8, <1>9
-----------------------------------------------------------------------------
(* What a process may write over its own revision. *)
Writable(a, next) ==
    \/ pc[a] = "saving" /\ next = [journal[a] EXCEPT !.pending = candidate[a]]
    \/ pc[a] \in {"installing", "reinstalling"} /\ next = Installed(a)
    \/ pc[a] = "dropping" /\ next = Dropped(a)
    \/ next = journal[a]
WritesOf(a) ==
    \/ UNCHANGED storage
    \/ \E next : Writable(a, next) /\ Written(a, next)

ReadsOf(a) ==
    \/ UNCHANGED journal
    \/ journal' = [journal EXCEPT ![a] = storage'[DeviceOf[a]]]
    \/ journal' = [journal EXCEPT ![a] = EmptyJournal]

SendsOf(a) ==
    \/ UNCHANGED sent
    \/ pc[a] \in {"applying", "reapplying"} /\ sent' = sent \cup {journal[a].pending}

DrawsOf(a) ==
    \/ UNCHANGED <<candidate, drawn>>
    \/ candidate' = [candidate EXCEPT ![a] = None] /\ UNCHANGED drawn
    \/ \E id \in Ids \ drawn, expires \in Expiries :
        /\ drawn' = drawn \cup {id}
        /\ candidate' = [candidate EXCEPT ![a] = Successor(a, id, expires)]
        /\ UNCHANGED <<journal, storage, sent>>

(* A step of one process, as the other invariants see it. *)
StepOf(a) ==
    /\ UNCHANGED chain /\ floor' \in Nat /\ floor <= floor'
    /\ WritesOf(a) /\ ReadsOf(a) /\ SendsOf(a) /\ DrawsOf(a)
    /\ pc' \in [Actors -> Points] /\ \A b \in Actors \ {a} : pc'[b] = pc[b]
    /\ blocked' \in [Actors -> BOOLEAN]

(* A save has one of three outcomes. *)
LEMMA Saves ==
  ASSUME Types, NEW a \in Actors, NEW next, NEW step \in Points, NEW unsealed \in Points,
         SaveSucceeds(a, next, step) \/ SaveFails(a, next, unsealed), Writable(a, next)
  PROVE  /\ WritesOf(a) /\ ReadsOf(a)
         /\ pc' \in [Actors -> Points] /\ \A b \in Actors \ {a} : pc'[b] = pc[b]
         /\ blocked' \in [Actors -> BOOLEAN]
  <1>1. CASE SaveSucceeds(a, next, step)
    BY <1>1 DEF SaveSucceeds, Moved, WritesOf, ReadsOf, Types
  <1>2. CASE SaveFails(a, next, unsealed)
    <2>1. "idle" \in Points
      BY DEF Points
    <2>2. WritesOf(a) /\ ReadsOf(a)
      BY <1>2 DEF SaveFails, WritesOf, ReadsOf
    <2>3. /\ pc' = [pc EXCEPT ![a] = "idle"] \/ pc' = [pc EXCEPT ![a] = unsealed]
          /\ blocked' = [blocked EXCEPT ![a] = TRUE] \/ blocked' = blocked
      BY <1>2 DEF SaveFails, Moved, Blocks
    <2>4. QED BY <2>1, <2>2, <2>3 DEF Types
  <1>3. QED BY <1>1, <1>2

(* Each action of a process is such a step. *)
LEMMA Shapes ==
  ASSUME Types, NEW a \in Actors,
         \/ Start(a) \/ Crash(a)
         \/ \E id \in Ids, expires \in Expiries : Transition(a, id, expires)
         \/ SavePending(a) \/ Send(a) \/ ApplyAnswered(a) \/ ApplyFails(a) \/ Install(a)
         \/ Recover(a) \/ RecoverFails(a) \/ StatusFails(a) \/ DropPending(a)
         \/ Current(a) \/ WithEnrollment(a)
         \/ \E now \in Times :
             StatusOfPending(a, now) \/ ConfirmLatest(a, now) \/ CheckCurrent(a, now)
  PROVE  StepOf(a)
  <1>0. /\ floor \in Nat /\ floor <= floor
        /\ \A step \in Points : Moved(a, step) =>
             pc' \in [Actors -> Points] /\ \A b \in Actors \ {a} : pc'[b] = pc[b]
        /\ UNCHANGED pc => pc' \in [Actors -> Points] /\ \A b \in Actors \ {a} : pc'[b] = pc[b]
        /\ Blocks(a) \/ UNCHANGED blocked => blocked' \in [Actors -> BOOLEAN]
        /\ Reloads(a) /\ UNCHANGED storage => ReadsOf(a) /\ blocked' \in [Actors -> BOOLEAN]
    <2>1. floor \in Nat /\ floor <= floor
      BY DEF Types
    <2>2. ASSUME NEW step \in Points, Moved(a, step)
          PROVE  pc' \in [Actors -> Points] /\ \A b \in Actors \ {a} : pc'[b] = pc[b]
      BY <2>2 DEF Types, Moved
    <2>3. ASSUME UNCHANGED pc
          PROVE  pc' \in [Actors -> Points] /\ \A b \in Actors \ {a} : pc'[b] = pc[b]
      BY <2>3 DEF Types
    <2>4. ASSUME Blocks(a) \/ UNCHANGED blocked PROVE blocked' \in [Actors -> BOOLEAN]
      BY <2>4 DEF Types, Blocks
    <2>5. ASSUME Reloads(a), UNCHANGED storage
          PROVE  ReadsOf(a) /\ blocked' \in [Actors -> BOOLEAN]
      BY <2>5 DEF Types, Reloads, ReadsOf
    <2>6. QED BY <2>1, <2>2, <2>3, <2>4, <2>5
  <1>1. CASE Start(a)
    <2>1. /\ Moved(a, "idle") /\ Reloads(a)
          /\ UNCHANGED <<chain, floor, storage, sent, drawn, candidate>>
      BY <1>1 DEF Start, ledger, device
    <2>2. QED BY <1>0, <2>1 DEF StepOf, WritesOf, SendsOf, DrawsOf, Points
  <1>2. CASE Crash(a)
    <2>1. /\ Moved(a, "down") /\ Blocks(a)
          /\ journal' = [journal EXCEPT ![a] = EmptyJournal]
          /\ candidate' = [candidate EXCEPT ![a] = None]
          /\ UNCHANGED <<chain, floor, storage, sent, drawn>>
      BY <1>2 DEF Crash, ledger, device
    <2>2. QED BY <1>0, <2>1 DEF StepOf, WritesOf, ReadsOf, SendsOf, DrawsOf, Points
  <1>3. ASSUME NEW id \in Ids, NEW expires \in Expiries, Transition(a, id, expires) PROVE StepOf(a)
    <2>1. /\ Moved(a, "saving") /\ UNCHANGED <<chain, floor, storage, sent, journal, blocked>>
          /\ DrawsOf(a)
      BY <1>3 DEF Transition, ledger, DrawsOf
    <2>2. QED BY <1>0, <2>1 DEF StepOf, WritesOf, ReadsOf, SendsOf, Points
  <1>4. CASE SavePending(a)
    <2> DEFINE next == [journal[a] EXCEPT !.pending = candidate[a]]
    <2>1. /\ SaveSucceeds(a, next, "applying") \/ SaveFails(a, next, "idle")
          /\ Writable(a, next)
          /\ candidate' = [candidate EXCEPT ![a] = None]
          /\ UNCHANGED <<chain, floor, sent, drawn>>
      BY <1>4 DEF SavePending, ledger, Writable
    <2>2. WritesOf(a) /\ ReadsOf(a) /\ pc' \in [Actors -> Points]
          /\ (\A b \in Actors \ {a} : pc'[b] = pc[b]) /\ blocked' \in [Actors -> BOOLEAN]
      <3>1. "applying" \in Points /\ "idle" \in Points
        BY DEF Points
      <3> HIDE DEF next
      <3>2. QED BY <2>1, <3>1, Saves
    <2>3. QED BY <1>0, <2>1, <2>2 DEF StepOf, SendsOf, DrawsOf
  <1>5. CASE Send(a)
    BY <1>0, <1>5 DEF Send, ledger, memory, StepOf, WritesOf, ReadsOf, SendsOf, DrawsOf
  <1>6. CASE \/ ApplyAnswered(a) \/ ApplyFails(a) \/ RecoverFails(a) \/ StatusFails(a) \/ Current(a)
    <2>1. /\ UNCHANGED <<chain, floor, storage, sent, drawn, journal, candidate>>
          /\ (\E step \in Points : Moved(a, step)) \/ UNCHANGED pc
          /\ Blocks(a) \/ UNCHANGED blocked
      BY <1>6 DEF ApplyAnswered, ApplyFails, RecoverFails, StatusFails, Current, ledger, device, Points
    <2>2. QED BY <1>0, <2>1 DEF StepOf, WritesOf, ReadsOf, SendsOf, DrawsOf
  <1>7. CASE Install(a)
    <2>1. /\ \/ SaveSucceeds(a, Installed(a), "idle")
             \/ SaveFails(a, Installed(a), "idle")
             \/ SaveFails(a, Installed(a), "asking")
          /\ Writable(a, Installed(a))
          /\ UNCHANGED <<chain, floor, sent, drawn, candidate>>
      BY <1>7 DEF Install, ledger, Writable
    <2>2. WritesOf(a) /\ ReadsOf(a) /\ pc' \in [Actors -> Points]
          /\ (\A b \in Actors \ {a} : pc'[b] = pc[b]) /\ blocked' \in [Actors -> BOOLEAN]
      <3>1. "asking" \in Points /\ "idle" \in Points
        BY DEF Points
      <3>2. QED BY <2>1, <3>1, Saves
    <2>3. QED BY <1>0, <2>1, <2>2 DEF StepOf, SendsOf, DrawsOf
  <1>8. CASE Recover(a)
    <2>1. /\ \E step \in Points : Moved(a, step)
          /\ Reloads(a) /\ UNCHANGED <<chain, floor, storage, sent, drawn, candidate>>
      BY <1>8 DEF Recover, AfterReload, ledger, device, Points
    <2>2. QED BY <1>0, <2>1 DEF StepOf, WritesOf, SendsOf, DrawsOf
  <1>9. CASE DropPending(a)
    <2>1. /\ SaveSucceeds(a, Dropped(a), "idle") \/ SaveFails(a, Dropped(a), "idle")
          /\ Writable(a, Dropped(a))
          /\ UNCHANGED <<chain, floor, sent, drawn, candidate>>
      BY <1>9 DEF DropPending, ledger, Writable
    <2>2. WritesOf(a) /\ ReadsOf(a) /\ pc' \in [Actors -> Points]
          /\ (\A b \in Actors \ {a} : pc'[b] = pc[b]) /\ blocked' \in [Actors -> BOOLEAN]
      <3>1. "idle" \in Points
        BY DEF Points
      <3>2. QED BY <2>1, <3>1, Saves
    <2>3. QED BY <1>0, <2>1, <2>2 DEF StepOf, SendsOf, DrawsOf
  <1>10. CASE WithEnrollment(a)
    <2>1. /\ SaveSucceeds(a, journal[a], "idle") \/ SaveFails(a, journal[a], "idle")
          /\ Writable(a, journal[a])
          /\ UNCHANGED <<chain, floor, sent, drawn, candidate>>
      BY <1>10 DEF WithEnrollment, ledger, Writable
    <2>2. WritesOf(a) /\ ReadsOf(a) /\ pc' \in [Actors -> Points]
          /\ (\A b \in Actors \ {a} : pc'[b] = pc[b]) /\ blocked' \in [Actors -> BOOLEAN]
      <3>1. "idle" \in Points
        BY DEF Points
      <3>2. QED BY <2>1, <3>1, Saves
    <2>3. QED BY <1>0, <2>1, <2>2 DEF StepOf, SendsOf, DrawsOf
  <1>11. ASSUME NEW now \in Times,
                StatusOfPending(a, now) \/ ConfirmLatest(a, now) \/ CheckCurrent(a, now)
         PROVE  StepOf(a)
    <2>1. /\ UNCHANGED <<chain, storage, sent, drawn, journal, candidate>>
          /\ floor <= now /\ floor' = now /\ now \in Nat
          /\ \E step \in Points : Moved(a, step)
          /\ Blocks(a) \/ UNCHANGED blocked
      BY <1>0, <1>11, ActorTypes
      DEF StatusOfPending, ConfirmLatest, CheckCurrent, StatusOfLatest, Answers, device, Points
    <2>2. QED BY <1>0, <2>1 DEF StepOf, WritesOf, ReadsOf, SendsOf, DrawsOf
  <1>12. QED
    BY <1>1, <1>2, <1>3, <1>4, <1>5, <1>6, <1>7, <1>8, <1>9, <1>10, <1>11
-----------------------------------------------------------------------------
(* What a process that writes leaves in its device's storage.  It wrote    *)
(* over the journal it holds, so nothing that was saved is lost unseen. *)
Kept(d) == UNCHANGED <<storage[d].accepted, storage[d].pending>>
SavesPending(a, d) ==
    /\ storage[d].pending = None
    /\ storage'[d].accepted = storage[d].accepted /\ storage'[d].pending = candidate[a]
    /\ candidate[a] \in Request /\ candidate[a].device = d /\ Extending(storage[d], candidate[a])
Installs(d) ==
    /\ storage[d].pending \in Accepted
    /\ storage'[d].accepted = storage[d].pending /\ storage'[d].pending = None
Drops(d) ==
    /\ storage[d].pending \in Request /\ storage[d].pending \notin Accepted
    /\ floor >= storage[d].pending.expiresAt
    /\ storage'[d].accepted = storage[d].accepted /\ storage'[d].pending = None

(* The cases of a write. *)
LEMMA Wrote ==
  ASSUME IInv, NEW a \in Actors, StepOf(a)
  PROVE  LET d == DeviceOf[a]
         IN  /\ d \in Devices
             /\ \/ storage' = storage
                \/ /\ journal[a] = storage[d]
                   /\ storage' = [storage EXCEPT ![d] = storage'[d]]
                   /\ storage'[d] \in Journal
                   /\ storage'[d].revision = storage[d].revision + 1
                   /\ SavesPending(a, d) \/ Installs(d) \/ Drops(d) \/ Kept(d)
  <1> DEFINE d == DeviceOf[a]
  <1>1. d \in Devices /\ journal[a] \in Journal /\ storage[d] \in Journal /\ AtPoint(a)
    BY ActorTypes DEF IInv, Types
  <1>2. candidate[a] \in Request \cup {None} /\ storage \in [Devices -> Journal]
    BY DEF IInv, Types
  <1>3. CASE storage' = storage
    BY <1>1, <1>3
  <1>4. CASE storage' # storage
    <2>1. PICK next : Writable(a, next) /\ Written(a, next)
      BY <1>4 DEF StepOf, WritesOf
    <2>2. journal[a] = storage[d]
      BY <1>1, <2>1 DEF Written, Unreplaced, IInv, Revised
    <2>3. storage' = [storage EXCEPT ![d] = [next EXCEPT !.revision = journal[a].revision + 1]]
      BY <2>1 DEF Written
    <2>4. storage'[d] = [next EXCEPT !.revision = storage[d].revision + 1]
      BY <1>1, <1>2, <2>2, <2>3
    <2>5. storage' = [storage EXCEPT ![d] = storage'[d]]
      BY <2>2, <2>3, <2>4
    <2>6. storage[d].revision + 1 \in Nat
      BY <1>1 DEF Journal
    <2>7. CASE pc[a] = "saving" /\ next = [journal[a] EXCEPT !.pending = candidate[a]]
      <3>1. /\ storage[d].pending = None /\ candidate[a] \in Request
            /\ candidate[a].device = d /\ Extending(storage[d], candidate[a])
        BY <1>1, <1>2, <2>2, <2>7 DEF AtPoint
      <3>2. /\ storage'[d] \in Journal /\ storage'[d].revision = storage[d].revision + 1
            /\ storage'[d].accepted = storage[d].accepted /\ storage'[d].pending = candidate[a]
        BY <1>1, <2>2, <2>4, <2>6, <2>7, <3>1 DEF Journal
      <3>3. QED BY <1>1, <2>2, <2>5, <3>1, <3>2 DEF SavesPending
    <2>8. CASE pc[a] \in {"installing", "reinstalling"} /\ next = Installed(a)
      <3>1. storage[d].pending \in Accepted
        BY <1>1, <2>2, <2>8 DEF AtPoint
      <3>2. storage[d].pending \in Request
        BY <3>1, ChainTypes DEF IInv
      <3>3. /\ storage'[d] \in Journal /\ storage'[d].revision = storage[d].revision + 1
            /\ storage'[d].accepted = storage[d].pending /\ storage'[d].pending = None
        BY <1>1, <2>2, <2>4, <2>6, <2>8, <3>2 DEF Journal, Installed
      <3>4. QED BY <1>1, <2>2, <2>5, <3>1, <3>3 DEF Installs
    <2>9. CASE pc[a] = "dropping" /\ next = Dropped(a)
      <3>1. /\ storage[d].pending # None /\ storage[d].pending \notin Accepted
            /\ floor >= storage[d].pending.expiresAt
        BY <1>1, <2>2, <2>9 DEF AtPoint
      <3>2. storage[d].pending \in Request
        BY <1>1, <3>1 DEF Journal
      <3>3. /\ storage'[d] \in Journal /\ storage'[d].revision = storage[d].revision + 1
            /\ storage'[d].accepted = storage[d].accepted /\ storage'[d].pending = None
        BY <1>1, <2>2, <2>4, <2>6, <2>9 DEF Journal, Dropped
      <3>4. QED BY <1>1, <2>2, <2>5, <3>1, <3>2, <3>3 DEF Drops
    <2>10. CASE next = journal[a]
      <3>1. /\ storage'[d] \in Journal /\ storage'[d].revision = storage[d].revision + 1
            /\ storage'[d].accepted = storage[d].accepted /\ storage'[d].pending = storage[d].pending
        BY <1>1, <2>2, <2>4, <2>6, <2>10 DEF Journal
      <3>2. QED BY <1>1, <2>2, <2>5, <3>1 DEF Kept
    <2>11. QED BY <2>1, <2>7, <2>8, <2>9, <2>10 DEF Writable
  <1>5. QED BY <1>3, <1>4

(* A step of a process touches its own device and memory only. *)
LEMMA Elsewhere ==
  ASSUME IInv, NEW a \in Actors, StepOf(a)
  PROVE  /\ Accepted' = Accepted /\ C' = C /\ Latest' = Latest
         /\ \A d \in Devices \ {DeviceOf[a]} : storage'[d] = storage[d]
         /\ \A b \in Actors \ {a} : /\ journal'[b] = journal[b] /\ candidate'[b] = candidate[b]
                                    /\ pc'[b] = pc[b]
         /\ sent \subseteq sent'
         /\ journal'[a] \in {journal[a], storage'[DeviceOf[a]], EmptyJournal}
         /\ EmptyJournal \in Journal
  <1>1. Accepted' = Accepted /\ C' = C /\ Latest' = Latest
    BY DEF StepOf, Accepted, C, Latest
  <1>2. \A d \in Devices \ {DeviceOf[a]} : storage'[d] = storage[d]
    BY Wrote DEF IInv, Types
  <1>3. \A b \in Actors \ {a} : journal'[b] = journal[b] /\ candidate'[b] = candidate[b]
    BY DEF StepOf, ReadsOf, DrawsOf, IInv, Types
  <1>4. journal'[a] \in {journal[a], storage'[DeviceOf[a]], EmptyJournal}
    BY DEF StepOf, ReadsOf, IInv, Types
  <1>5. sent \subseteq sent'
    BY DEF StepOf, SendsOf
  <1>6. EmptyJournal \in Journal
    BY DEF EmptyJournal, Journal
  <1>7. QED BY <1>1, <1>2, <1>3, <1>4, <1>5, <1>6 DEF StepOf
-----------------------------------------------------------------------------
(* What a process proposes is a request, from its own device. *)
LEMMA SuccessorType ==
  ASSUME IInv, NEW a \in Actors, NEW id \in Ids, NEW expires \in Expiries
  PROVE  /\ Successor(a, id, expires) \in Request
         /\ Successor(a, id, expires).id = id /\ Successor(a, id, expires).nextState = id
         /\ Successor(a, id, expires).device = DeviceOf[a]
         /\ Extending(journal[a], Successor(a, id, expires))
         /\ Successor(a, id, expires).genesis <=> Successor(a, id, expires).previousState = None
  <1>1. DeviceOf[a] \in Devices /\ journal[a].accepted \in Request \cup {None}
    BY ActorTypes DEF IInv, Types, Journal
  <1>2. journal[a].accepted # None =>
          journal[a].accepted.nextState \in Ids /\ journal[a].accepted.nextState # None
    BY <1>1, NoneIsNothing DEF Request
  <1>3. QED BY <1>1, <1>2 DEF Successor, Request, Extending

(* Types, over a step of a process. *)
LEMMA StepTypes ==
  ASSUME IInv, NEW a \in Actors, StepOf(a)
  PROVE  Types'
  <1>1. chain' \in [{owner} -> Seq(Acceptance)] /\ floor' \in Nat
    BY DEF StepOf, IInv, Types
  <1>2. storage' \in [Devices -> Journal]
    BY Wrote DEF IInv, Types
  <1>3. journal' \in [Actors -> Journal]
    BY <1>2, Elsewhere, ActorTypes DEF StepOf, ReadsOf, IInv, Types
  <1>4. sent' \subseteq Request
    <2>1. pc[a] \in {"applying", "reapplying"} => journal[a].pending \in Request
      BY DEF IInv, AtPoint, Types, Journal
    <2>2. QED BY <2>1 DEF StepOf, SendsOf, IInv, Types
  <1>5. drawn' \subseteq Ids /\ candidate' \in [Actors -> Request \cup {None}]
    BY SuccessorType DEF StepOf, DrawsOf, IInv, Types
  <1>6. QED BY <1>1, <1>2, <1>3, <1>4, <1>5 DEF StepOf, Types

(* A step makes no request but one it draws. *)
LEMMA StepMadeOnce ==
  ASSUME IInv, NEW a \in Actors, StepOf(a)
  PROVE  MadeOnce'
  <1>0. MadeOnce /\ DeviceOf[a] \in Devices /\ drawn \subseteq drawn'
    BY ActorTypes DEF IInv, StepOf, DrawsOf
  <1>1. ASSUME NEW r \in Request, NEW d \in Devices, InJournal(storage[d], r)' PROVE Made(r)
    <2>0. r # None
      BY NoneIsNothing
    <2>1. CASE d = DeviceOf[a]
      BY <1>1, <2>0, <2>1, Wrote DEF InJournal, Made, SavesPending, Installs, Drops, Kept
    <2>2. CASE d # DeviceOf[a]
      BY <1>1, <2>0, <2>2, Elsewhere DEF InJournal, Made
    <2>3. QED BY <2>1, <2>2
  <1>2. ASSUME NEW r \in Request, NEW b \in Actors, InJournal(journal[b], r)' PROVE Made(r)
    <2>0. r # None
      BY NoneIsNothing
    <2>1. CASE b # a
      BY <1>2, <2>0, <2>1, Elsewhere DEF InJournal, Made
    <2>2. CASE b = a /\ journal'[a] = journal[a]
      BY <1>2, <2>0, <2>2 DEF InJournal, Made
    <2>3. CASE b = a /\ journal'[a] = storage'[DeviceOf[a]]
      BY <1>0, <1>1, <1>2, <2>3 DEF InJournal
    <2>4. CASE b = a /\ journal'[a] = EmptyJournal
      BY <1>2, <2>0, <2>4 DEF InJournal, EmptyJournal
    <2>5. QED BY <2>1, <2>2, <2>3, <2>4, Elsewhere
  <1>3. ASSUME NEW r \in Request, r \in sent' PROVE Made(r)
    BY <1>3, NoneIsNothing DEF StepOf, SendsOf, Made, InJournal
  <1>4. ASSUME NEW r \in Request, NEW b \in Actors, r = candidate'[b], ~Made(r)
        PROVE  /\ r.id \notin drawn /\ r.id \in drawn' /\ r.nextState = r.id /\ b = a
               /\ r.genesis <=> r.previousState = None
    <2>1. r # candidate[b] /\ r # None
      BY <1>4, NoneIsNothing DEF Made
    <2>2. b = a
      BY <1>4, <2>1, Elsewhere
    <2>3. PICK id \in Ids \ drawn, expires \in Expiries :
            drawn' = drawn \cup {id} /\ candidate' = [candidate EXCEPT ![a] = Successor(a, id, expires)]
      BY <1>4, <2>1, <2>2 DEF StepOf, DrawsOf, IInv, Types
    <2>4. r = Successor(a, id, expires)
      BY <1>4, <2>2, <2>3 DEF IInv, Types
    <2>5. QED BY <2>2, <2>3, <2>4, SuccessorType
  <1>5. ASSUME NEW r \in Request, Made(r)'
        PROVE  Made(r) \/ r = candidate'[a]
    BY <1>1, <1>2, <1>3, <1>4, <1>5 DEF Made
  <1>6. ASSUME NEW r \in Request, Made(r)'
        PROVE  /\ r.id \in drawn' /\ r.nextState = r.id
               /\ r.genesis <=> r.previousState = None
               /\ ~Made(r) => r.id \notin drawn
    BY <1>0, <1>4, <1>5, <1>6 DEF MadeOnce
  <1>7. ASSUME NEW r \in Request, NEW s \in Request, Made(r)', Made(s)', r.id = s.id
        PROVE  r = s
    <2>1. CASE Made(r) /\ Made(s)
      BY <1>0, <1>7, <2>1 DEF MadeOnce
    <2>2. CASE ~Made(r) /\ ~Made(s)
      BY <1>5, <1>7, <2>2
    <2>3. ASSUME NEW x \in Request, NEW y \in Request, Made(x), Made(y)', ~Made(y) PROVE x.id # y.id
      <3>1. x.id \in drawn
        BY <1>0, <2>3 DEF MadeOnce
      <3>2. y.id \notin drawn
        BY <1>6, <2>3
      <3>3. QED BY <3>1, <3>2
    <2>4. QED BY <1>7, <2>1, <2>2, <2>3
  <1>8. QED BY <1>6, <1>7 DEF MadeOnce

(* The chain stays what it is. *)
LEMMA StepChained ==
  ASSUME IInv, NEW a \in Actors, StepOf(a)
  PROVE  Chained'
  BY Elsewhere DEF IInv, Chained, Linked

(* A write takes the next revision; everyone else then lags behind. *)
LEMMA StepRevised ==
  ASSUME IInv, NEW a \in Actors, StepOf(a)
  PROVE  Revised'
  <1> DEFINE d == DeviceOf[a]
  <1>0. /\ \A e \in Devices : storage[e].revision \in Nat /\ storage'[e].revision \in Nat
        /\ \A b \in Actors : journal[b].revision \in Nat /\ DeviceOf[b] \in Devices
        /\ EmptyJournal.revision = 0 /\ Revised
    BY StepTypes, ActorTypes DEF IInv, Types, Journal, EmptyJournal
  <1>1. \A e \in Devices : \/ storage'[e] = storage[e]
                           \/ storage'[e].revision = storage[e].revision + 1
    BY Wrote, Elsewhere
  <1>2. ASSUME NEW e \in Devices, storage'[e].revision = 0 PROVE storage'[e] = EmptyJournal
    BY <1>0, <1>1, <1>2 DEF Revised
  <1>3. ASSUME NEW b \in Actors, NEW j, j = journal[b]
        PROVE  /\ j.revision <= storage'[DeviceOf[b]].revision
               /\ j.revision = storage'[DeviceOf[b]].revision => j = storage'[DeviceOf[b]]
    <2>1. /\ j.revision \in Nat /\ DeviceOf[b] \in Devices
          /\ j.revision <= storage[DeviceOf[b]].revision
          /\ j.revision = storage[DeviceOf[b]].revision => j = storage[DeviceOf[b]]
      BY <1>0, <1>3 DEF Revised
    <2>2. QED BY <1>0, <1>1, <2>1
  <1>4. ASSUME NEW b \in Actors
        PROVE  /\ journal'[b].revision <= storage'[DeviceOf[b]].revision
               /\ journal'[b].revision = storage'[DeviceOf[b]].revision
                    => journal'[b] = storage'[DeviceOf[b]]
    <2>1. CASE journal'[b] = journal[b]
      BY <1>3, <2>1
    <2>2. CASE journal'[b] = storage'[DeviceOf[b]]
      BY <1>0, <2>2
    <2>3. CASE journal'[b] = EmptyJournal
      BY <1>0, <1>2, <2>3
    <2>4. QED BY <2>1, <2>2, <2>3, Elsewhere
  <1>5. QED BY <1>2, <1>4 DEF Revised

(* What is written is sound, and so is what is read. *)
LEMMA StepSound ==
  ASSUME IInv, NEW a \in Actors, StepOf(a)
  PROVE  JournalsSound'
  <1>0. /\ \A b \in Actors : DeviceOf[b] \in Devices /\ Sound(journal[b], DeviceOf[b])
        /\ \A e \in Devices : Sound(storage[e], e)
        /\ Accepted' = Accepted
    BY ActorTypes, Elsewhere DEF IInv, JournalsSound
  <1>1. ASSUME NEW j, NEW d, Sound(j, d) PROVE Sound(j, d)'
    BY <1>0, <1>1 DEF Sound, Extending
  <1>2. ASSUME NEW e \in Devices PROVE Sound(storage[e], e)'
    <2>1. CASE storage'[e] = storage[e]
      BY <1>0, <2>1 DEF Sound, Extending
    <2>2. CASE e = DeviceOf[a] /\ SavesPending(a, e)
      BY <1>0, <2>2 DEF SavesPending, Sound, Extending
    <2>3. CASE e = DeviceOf[a] /\ Installs(e)
      BY <1>0, <2>3, ChainTypes, NoneIsNothing DEF Installs, Sound, IInv
    <2>4. CASE e = DeviceOf[a] /\ Drops(e)
      BY <1>0, <2>4 DEF Drops, Sound, Extending
    <2>5. CASE e = DeviceOf[a] /\ Kept(e)
      BY <1>0, <2>5 DEF Kept, Sound, Extending
    <2>6. QED BY <2>1, <2>2, <2>3, <2>4, <2>5, Wrote, Elsewhere
  <1>3. ASSUME NEW b \in Actors PROVE Sound(journal[b], DeviceOf[b])'
    <2>1. CASE journal'[b] = journal[b]
      BY <1>0, <2>1 DEF Sound, Extending
    <2>2. CASE journal'[b] = storage'[DeviceOf[b]]
      BY <1>0, <1>2, <2>2 DEF Sound, Extending
    <2>3. CASE journal'[b] = EmptyJournal
      BY <2>3 DEF Sound, EmptyJournal
    <2>4. QED BY <2>1, <2>2, <2>3, Elsewhere
  <1>4. QED BY <1>2, <1>3 DEF JournalsSound, Sound, Extending

(* A request that is no longer pending was accepted, or is past its expiry. *)
LEMMA StepKnown ==
  ASSUME IInv, NEW a \in Actors, StepOf(a)
  PROVE  Known'
  <1>0. /\ Accepted' = Accepted /\ floor \in Nat /\ floor' \in Nat /\ floor <= floor'
        /\ \A r \in Request : r # None /\ r.device \in Devices /\ r.expiresAt \in Nat
    BY Elsewhere, ActorTypes, NoneIsNothing DEF StepOf, IInv, Types, Request
  <1>1. ASSUME NEW r \in Request, Settled(r) PROVE Settled(r)'
    <2>1. CASE r \in Accepted \/ floor >= r.expiresAt
      BY <1>0, <2>1 DEF Settled
    <2>2. CASE r = storage[r.device].pending
      <3>1. CASE storage'[r.device].pending = storage[r.device].pending
        BY <2>2, <3>1 DEF Settled
      <3>2. CASE storage'[r.device].pending # storage[r.device].pending
        <4>1. r.device = DeviceOf[a]
          BY <1>0, <3>2, Elsewhere
        <4>2. Installs(r.device) \/ Drops(r.device)
          BY <1>0, <2>2, <3>2, <4>1, Wrote DEF SavesPending, Kept
        <4>3. QED BY <1>0, <2>1, <2>2, <4>2 DEF Installs, Drops
      <3>3. QED BY <3>1, <3>2
    <2>3. QED BY <1>1, <2>1, <2>2 DEF Settled
  <1>2. ASSUME NEW b \in Actors, journal'[b].pending # None PROVE Settled(journal[b].pending)'
    <2>1. CASE journal'[b] = journal[b]
      <3>1. journal[b].pending \in Request /\ Settled(journal[b].pending)
        BY <1>2, <2>1 DEF IInv, Types, Journal, Known
      <3>2. Settled(journal[b].pending)' <=>
              \/ journal[b].pending = storage'[journal[b].pending.device].pending
              \/ journal[b].pending \in Accepted' \/ floor' >= journal[b].pending.expiresAt
        BY <2>1 DEF Settled
      <3>3. PICK r \in Request : r = journal[b].pending
        BY <3>1
      <3>4. Settled(r)'
        BY <1>1, <3>1, <3>3
      <3>5. QED BY <3>2, <3>3, <3>4 DEF Settled
    <2>2. CASE journal'[b] = storage'[DeviceOf[b]]
      <3>1. journal'[b].pending.device = DeviceOf[b]
        BY <1>2, StepSound DEF JournalsSound, Sound
      <3>2. QED BY <2>2, <3>1 DEF Settled
    <2>3. CASE journal'[b] = EmptyJournal
      BY <1>2, <2>3 DEF EmptyJournal
    <2>4. QED BY <2>1, <2>2, <2>3, Elsewhere
  <1>3. ASSUME NEW r \in sent' PROVE Settled(r)'
    <2>1. CASE r \in sent
      BY <1>1, <2>1 DEF IInv, Types, Known
    <2>2. CASE pc[a] \in {"applying", "reapplying"} /\ r = journal[a].pending
      BY <1>1, <2>2 DEF IInv, Types, Journal, Known, AtPoint
    <2>3. QED BY <1>3, <2>1, <2>2 DEF StepOf, SendsOf
  <1>4. QED BY <1>2, <1>3 DEF Known

(* The device that proved the current state keeps its opening: a pending   *)
(* request is dropped only when it can no longer be accepted, and only the *)
(* next statement of the chain replaces an accepted one. *)
LEMMA StepRetained ==
  ASSUME IInv, NEW a \in Actors, StepOf(a)
  PROVE  OpeningRetained'
  <1> SUFFICES ASSUME Latest # None
               PROVE  Latest \in {storage'[Latest.device].accepted, storage'[Latest.device].pending}
    BY Elsewhere DEF OpeningRetained
  <1>0. /\ Latest \in {storage[Latest.device].accepted, storage[Latest.device].pending}
        /\ Latest \in Accepted /\ Latest = C[Len(C)].request /\ Len(C) \in 1 .. Len(C)
        /\ Latest.device \in Devices
    BY ChainTypes DEF IInv, OpeningRetained, Request
  <1>1. CASE Latest.device # DeviceOf[a]
    BY <1>0, <1>1, Elsewhere
  <1>2. CASE Latest.device = DeviceOf[a]
    <2> DEFINE d == DeviceOf[a]
    <2>1. CASE storage' = storage \/ Kept(d)
      BY <1>0, <1>2, <2>1 DEF Kept
    <2>2. CASE SavesPending(a, d)
      BY <1>0, <1>2, <2>2 DEF SavesPending
    <2>3. CASE Drops(d)
      BY <1>0, <1>2, <2>3 DEF Drops
    <2>4. CASE Installs(d)
      <3>1. Sound(storage[d], d)
        BY ActorTypes DEF IInv, JournalsSound
      <3>2. Latest # storage[d].accepted
        <4>1. SUFFICES ASSUME Latest = storage[d].accepted PROVE FALSE
          OBVIOUS
        <4>2. Len(C) + 1 \in 1 .. Len(C)
          BY <1>0, <2>4, <3>1, <4>1, PendingFollows DEF Installs, IInv
        <4>3. QED BY <4>2, ChainTypes DEF IInv
      <3>3. QED BY <1>0, <1>2, <2>4, <3>2 DEF Installs
    <2>5. QED BY <2>1, <2>2, <2>3, <2>4, Wrote
  <1>3. QED BY <1>1, <1>2
-----------------------------------------------------------------------------
(* What a process relies on is not disturbed by another's step. *)
LEMMA PointsElsewhere ==
  ASSUME IInv, NEW a \in Actors, StepOf(a), NEW b \in Actors, b # a
  PROVE  AtPoint(b)'
  <1>1. /\ Accepted' = Accepted /\ journal'[b] = journal[b] /\ candidate'[b] = candidate[b]
        /\ pc'[b] = pc[b] /\ AtPoint(b)
    BY Elsewhere DEF IInv
  <1>2. pc[b] \in {"confirming", "dropping"} => floor' >= journal[b].pending.expiresAt
    <2>1. SUFFICES ASSUME pc[b] \in {"confirming", "dropping"}
                   PROVE  floor' >= journal[b].pending.expiresAt
      OBVIOUS
    <2>2. journal[b].pending \in Request /\ floor >= journal[b].pending.expiresAt
      BY <1>1, <2>1 DEF AtPoint, IInv, Types, Journal
    <2>3. journal[b].pending.expiresAt \in Nat /\ floor \in Nat /\ floor' \in Nat /\ floor <= floor'
      BY <2>2, ActorTypes DEF Request, StepOf, IInv, Types
    <2>4. QED BY <2>2, <2>3
  <1>3. QED BY <1>1, <1>2 DEF AtPoint, Extending

(* A save that ends an activity, or another that keeps the journal. *)
LEMMA AfterSave ==
  ASSUME IInv, NEW a \in Actors, NEW next, NEW step, NEW unsealed,
         SaveSucceeds(a, next, step) \/ SaveFails(a, next, unsealed)
  PROVE  \/ pc'[a] = "idle"
         \/ pc'[a] = step /\ journal'[a] = [next EXCEPT !.revision = journal[a].revision + 1]
         \/ pc'[a] = unsealed /\ UNCHANGED journal
  <1>1. CASE SaveSucceeds(a, next, step)
    <2>1. DeviceOf[a] \in Devices
      BY ActorTypes
    <2>2. storage'[DeviceOf[a]] = [next EXCEPT !.revision = journal[a].revision + 1]
      BY <1>1, <2>1 DEF SaveSucceeds, Written, IInv, Types
    <2>3. QED BY <1>1, <2>2 DEF SaveSucceeds, Moved, IInv, Types
  <1>2. CASE SaveFails(a, next, unsealed)
    BY <1>2 DEF SaveFails, Moved, IInv, Types
  <1>3. QED BY <1>1, <1>2

(* A process reaches each await with what it relies on there. *)
LEMMA PointsOwn ==
  ASSUME IInv, NEW a \in Actors, StepOf(a),
         \/ Start(a) \/ Crash(a)
         \/ \E id \in Ids, expires \in Expiries : Transition(a, id, expires)
         \/ SavePending(a) \/ Send(a) \/ ApplyAnswered(a) \/ ApplyFails(a) \/ Install(a)
         \/ Recover(a) \/ RecoverFails(a) \/ StatusFails(a) \/ DropPending(a)
         \/ Current(a) \/ WithEnrollment(a)
         \/ \E now \in Times :
             StatusOfPending(a, now) \/ ConfirmLatest(a, now) \/ CheckCurrent(a, now)
  PROVE  AtPoint(a)'
  <1>0. /\ Accepted' = Accepted /\ AtPoint(a)
        /\ pc \in [Actors -> Points] /\ journal \in [Actors -> Journal]
        /\ floor \in Nat /\ floor' \in Nat /\ floor <= floor'
    BY Elsewhere DEF IInv, Types, StepOf
  <1>1. CASE pc'[a] \in {"idle", "down", "checking"}
    BY <1>1 DEF AtPoint
  <1>2. CASE Start(a) \/ Crash(a) \/ StatusFails(a) \/ Current(a)
    <2>1. pc'[a] \in {"idle", "down", "checking"}
      BY <1>0, <1>2 DEF Start, Crash, StatusFails, Current, Moved
    <2>2. QED BY <1>1, <2>1
  <1>3. ASSUME NEW id \in Ids, NEW expires \in Expiries, Transition(a, id, expires)
        PROVE  AtPoint(a)'
    <2> DEFINE r == Successor(a, id, expires)
    <2>1. pc'[a] = "saving" /\ journal' = journal /\ journal[a].pending = None
      BY <1>0, <1>3 DEF Transition, Moved, Available
    <2>2. candidate'[a] = r
      BY <1>3 DEF Transition, IInv, Types
    <2>3. r \in Request /\ r # None /\ r.device = DeviceOf[a] /\ Extending(journal[a], r)
      BY SuccessorType, NoneIsNothing
    <2> HIDE DEF r
    <2>4. QED BY <2>1, <2>2, <2>3 DEF AtPoint, Extending
  <1>4. CASE SavePending(a)
    <2>1. journal[a].pending = None /\ candidate[a] # None
      BY <1>0, <1>4 DEF SavePending, AtPoint
    <2> DEFINE next == [journal[a] EXCEPT !.pending = candidate[a]]
    <2>2. SaveSucceeds(a, next, "applying") \/ SaveFails(a, next, "idle")
      BY <1>4 DEF SavePending
    <2>3. [next EXCEPT !.revision = journal[a].revision + 1].pending # None
      BY <1>0, <2>1 DEF Journal
    <2> HIDE DEF next
    <2>4. \/ pc'[a] = "idle"
          \/ pc'[a] = "applying" /\ journal'[a] = [next EXCEPT !.revision = journal[a].revision + 1]
      BY <2>2, AfterSave
    <2>5. QED BY <1>1, <2>3, <2>4 DEF AtPoint
  <1>5. CASE Send(a)
    BY <1>0, <1>5 DEF Send, memory, ledger, AtPoint, Extending
  <1>6. CASE ApplyAnswered(a)
    <2>1. pc'[a] \in {"installing", "reinstalling"} /\ journal' = journal /\ journal[a].pending \in Accepted
      BY <1>0, <1>6 DEF ApplyAnswered, Moved
    <2>2. QED BY <1>0, <2>1 DEF AtPoint
  <1>7. CASE ApplyFails(a)
    <2>1. pc'[a] \in {"idle", "asking"} /\ journal' = journal /\ journal[a].pending # None
      BY <1>0, <1>7 DEF ApplyFails, Moved, AtPoint
    <2>2. QED BY <1>0, <2>1 DEF AtPoint
  <1>8. CASE Install(a)
    <2>1. journal[a].pending # None
      BY <1>0, <1>8, AcceptedMade DEF Install, AtPoint, IInv
    <2>a. CASE SaveSucceeds(a, Installed(a), "idle")
      BY <1>0, <1>1, <2>a DEF SaveSucceeds, Moved
    <2>b. CASE SaveFails(a, Installed(a), IF pc[a] = "installing" THEN "idle" ELSE "asking")
      <3>1. pc'[a] \in {"idle", "asking"} /\ journal' = journal
        BY <1>0, <2>b DEF SaveFails, Moved
      <3>2. QED BY <1>0, <2>1, <3>1 DEF AtPoint
    <2>3. QED BY <1>8, <2>a, <2>b DEF Install
  <1>9. CASE Recover(a)
    <2>1. /\ journal'[a] = storage[DeviceOf[a]]
          /\ pc'[a] = AfterReload(storage[DeviceOf[a]])
      BY <1>0, <1>9 DEF Recover, Reloads, Moved
    <2>2. QED BY <1>1, <2>1 DEF AfterReload, AtPoint
  <1>10. CASE RecoverFails(a)
    <2>1. pc'[a] = "idle"
      BY <1>10 DEF RecoverFails, Recoverable
    <2>2. QED BY <1>1, <2>1
  <1>11. CASE DropPending(a)
    <2>1. pc'[a] = "idle"
      BY <1>11, AfterSave DEF DropPending
    <2>2. QED BY <1>1, <2>1
  <1>12. CASE WithEnrollment(a)
    <2>1. pc'[a] = "idle"
      BY <1>12, AfterSave DEF WithEnrollment
    <2>2. QED BY <1>1, <2>1
  <1>13. ASSUME NEW now \in Times, StatusOfPending(a, now) PROVE AtPoint(a)'
    <2>1. /\ journal' = journal /\ floor' = now
          /\ \/ pc'[a] = "idle"
             \/ pc'[a] = "installing" /\ journal[a].pending \in Accepted
             \/ /\ pc'[a] = "confirming" /\ journal[a].pending \notin Accepted
                /\ now >= journal[a].pending.expiresAt
          /\ journal[a].pending # None
      BY <1>0, <1>13 DEF StatusOfPending, Moved, Answers, ExpiredBy, AtPoint
    <2>2. QED BY <1>0, <2>1 DEF AtPoint
  <1>14. ASSUME NEW now \in Times, ConfirmLatest(a, now) PROVE AtPoint(a)'
    <2>1. pc'[a] \in {"idle", "dropping"} /\ journal' = journal /\ pc[a] = "confirming"
      BY <1>0, <1>14 DEF ConfirmLatest, StatusOfLatest, Moved
    <2>2. /\ journal[a].pending # None /\ journal[a].pending \notin Accepted
          /\ floor >= journal[a].pending.expiresAt
      BY <1>0, <2>1 DEF AtPoint
    <2>3. journal[a].pending.expiresAt \in Nat
      BY <1>0, <2>2, ActorTypes DEF Journal, Request
    <2>4. floor' >= journal[a].pending.expiresAt
      BY <1>0, <2>2, <2>3
    <2>5. QED BY <1>0, <2>1, <2>2, <2>4 DEF AtPoint
  <1>15. ASSUME NEW now \in Times, CheckCurrent(a, now) PROVE AtPoint(a)'
    <2>1. pc'[a] = "idle"
      BY <1>0, <1>15 DEF CheckCurrent, StatusOfLatest, Moved
    <2>2. QED BY <1>1, <2>1
  <1>16. QED
    BY <1>2, <1>3, <1>4, <1>5, <1>6, <1>7, <1>8, <1>9, <1>10, <1>11, <1>12, <1>13, <1>14, <1>15
-----------------------------------------------------------------------------
(* The steps of Next. *)
LEMMA NextCases ==
  ASSUME IInv, [Next]_vars
  PROVE  \/ UNCHANGED vars
         \/ \E r \in sent, now \in Times : LedgerApply(r, now)
         \/ \E a \in Actors : StepOf(a) /\ AtPoint(a)'
  BY Shapes, PointsOwn DEF Next, IInv

(* The invariant, over a step. *)
LEMMA NextIInv == IInv /\ [Next]_vars => IInv'
  <1> SUFFICES ASSUME IInv, [Next]_vars PROVE IInv'
    OBVIOUS
  <1>1. CASE UNCHANGED vars
    <2>1. UNCHANGED <<chain, floor, sent, storage, drawn, pc, journal, blocked, candidate>>
      BY <1>1 DEF vars, ledger, device, memory
    <2>2. /\ Accepted' = Accepted /\ C' = C /\ Latest' = Latest
          /\ \A r : Made(r)' = Made(r)
      BY <2>1 DEF Accepted, C, Latest, Made, InJournal
    <2>3. Types' /\ MadeOnce' /\ Chained' /\ Revised'
      BY <2>1, <2>2 DEF IInv, Types, MadeOnce, Chained, Linked, Revised
    <2>4. JournalsSound' /\ Known' /\ OpeningRetained' /\ \A a \in Actors : AtPoint(a)'
      BY <2>1, <2>2 DEF IInv, JournalsSound, Sound, Extending, Known, Settled, AtPoint,
                        OpeningRetained
    <2>5. QED BY <2>3, <2>4 DEF IInv
  <1>2. ASSUME NEW a \in Actors, StepOf(a), AtPoint(a)' PROVE IInv'
    <2>1. \A b \in Actors : AtPoint(b)'
      BY <1>2, PointsElsewhere
    <2>2. QED
      BY <1>2, <2>1, StepTypes, StepMadeOnce, StepChained, StepRevised, StepSound, StepKnown,
         StepRetained
      DEF IInv
  <1>3. QED BY <1>1, <1>2, ApplyIInv, NextCases

(* Nothing is there at the start. *)
LEMMA InitIInv == Init => IInv
  <1> SUFFICES ASSUME Init PROVE IInv
    OBVIOUS
  <1>0. /\ chain = [o \in {owner} |-> << >>] /\ floor = 0 /\ C = << >>
        /\ \A d \in Devices : storage[d] = EmptyJournal
        /\ \A a \in Actors : /\ journal[a] = EmptyJournal /\ candidate[a] = None
                             /\ pc[a] = "down" /\ DeviceOf[a] \in Devices
    BY ActorTypes DEF Init, Ledger!Init, C
  <1>1. Types
    <2>1. EmptyJournal \in Journal /\ "down" \in Points /\ << >> \in Seq(Acceptance)
      BY DEF EmptyJournal, Journal, Points
    <2>2. QED BY <1>0, <2>1 DEF Init, Types
  <1>2. MadeOnce
    BY <1>0 DEF MadeOnce, Made, InJournal, EmptyJournal, Init
  <1>3. Chained /\ OpeningRetained
    BY <1>0 DEF Chained, OpeningRetained, Latest, C
  <1>4. Revised
    BY <1>0 DEF Revised, EmptyJournal
  <1>5. JournalsSound /\ Known /\ \A a \in Actors : AtPoint(a)
    BY <1>0 DEF JournalsSound, Sound, EmptyJournal, Known, AtPoint, Init
  <1>6. QED BY <1>1, <1>2, <1>3, <1>4, <1>5 DEF IInv

(* The invariant holds throughout. *)
LEMMA Inductive == Spec => []IInv
  BY InitIInv, NextIInv, PTL DEF Spec
-----------------------------------------------------------------------------
(* No order of late arrivals, failed writes, crashes and recoveries        *)
(* strands the account: the device that proved the ledger's current state  *)
(* holds its opening (actor.mjs, transition and recover). *)
THEOREM OpeningKept == Spec => []OpeningRetained
  <1>1. IInv => OpeningRetained
    BY DEF IInv
  <1>2. QED BY <1>1, Inductive, PTL

(* A device never lets the ledger choose between two of its requests: one  *)
(* is saved over another only when that one is settled (actor.mjs,         *)
(* requireAvailable and the drop of an expired request). *)
THEOREM OneRequestOutstanding == Spec => []OneOutstanding
  <1>1. IInv => OneOutstanding
    <2> SUFFICES ASSUME IInv, NEW d \in Devices
        PROVE  Cardinality({r \in sent : r.device = d /\ Acceptable(r)}) <= 1
      BY DEF OneOutstanding
    <2>0. Types /\ MadeOnce /\ Chained /\ Known
      BY DEF IInv
    <2> DEFINE Open == {r \in sent : r.device = d /\ Acceptable(r)}
    <2>1. ASSUME NEW r \in Open PROVE r = storage[d].pending
      <3>1. /\ r \in Request /\ r \in sent /\ r.device = d /\ floor < r.expiresAt
            /\ r.previousState = IF Latest = None THEN None ELSE Latest.nextState
        BY <2>0 DEF Types, Acceptable
      <3>2. ~(floor >= r.expiresAt)
        <4>1. r.expiresAt \in Nat /\ floor \in Nat
          BY <2>0, <3>1, ActorTypes DEF Types, Request
        <4>2. floor < r.expiresAt
          BY <3>1
        <4>3. QED BY <4>1, <4>2
      <3>3. r \notin Accepted
        <4>1. SUFFICES ASSUME r \in Accepted PROVE FALSE
          OBVIOUS
        <4>2. PICK k \in 1 .. Len(C) : C[k].request = r
          BY <2>0, <4>1, ChainTypes
        <4>3. Len(C) \in 1 .. Len(C) /\ Latest = C[Len(C)].request /\ Latest \in Accepted
          BY <2>0, <4>2, ChainTypes
        <4>4. Latest # None /\ Latest.nextState \in Ids
          BY <2>0, <4>3, AcceptedMade
        <4>5. r.previousState = Latest.nextState /\ r.previousState # None
          BY <3>1, <4>4, NoneIsNothing
        <4>6. ~r.genesis
          BY <2>0, <3>1, <4>1, <4>5, AcceptedMade DEF MadeOnce
        <4>7. k # 1 /\ C[k - 1].request.nextState = C[Len(C)].request.nextState
          BY <2>0, <4>2, <4>3, <4>5, <4>6 DEF Chained, Linked
        <4>8. k - 1 \in 1 .. Len(C) /\ Len(C) \in Nat
          BY <2>0, <4>7, ChainTypes
        <4>9. k - 1 = Len(C)
          BY <2>0, <4>3, <4>7, <4>8, Place
        <4>10. QED BY <4>8, <4>9
      <3>4. QED BY <2>0, <3>1, <3>2, <3>3 DEF Known, Settled
    <2>2. Open = {} \/ Open = {storage[d].pending}
      BY <2>1
    <2>3. Cardinality(Open) = 0 \/ Cardinality(Open) = 1
      BY <2>2, FS_EmptySet, FS_Singleton
    <2>4. QED BY <2>3
  <1>2. QED BY <1>1, Inductive, PTL

(* How deep in the chain each accepted statement is. *)
DepthRight ==
    /\ Depth(None) = 0
    /\ \A i \in 1 .. Len(C) : Depth(C[i].request) = i

(* A statement is accepted once, so its depth is its place. *)
LEMMA DepthIs == Types /\ Chained => DepthRight
  <1> SUFFICES ASSUME Types, Chained PROVE DepthRight
    OBVIOUS
  <1>0. \A r : Depth(r) = Cardinality({i \in 1 .. Len(C) : \E j \in i .. Len(C) : C[j].request = r})
    BY DEF Depth, C
  <1>1. Len(C) \in Nat
    BY ChainTypes
  <1>2. ASSUME NEW k \in 1 .. Len(C) PROVE Depth(C[k].request) = k
    <2>1. \A i \in 1 .. Len(C) : \A j \in i .. Len(C) : j \in 1 .. Len(C)
      BY <1>1
    <2>2. \A i \in 1 .. Len(C) :
            (\E j \in i .. Len(C) : C[j].request = C[k].request) <=> k \in i .. Len(C)
      BY <1>1, <2>1 DEF Chained
    <2>3. {i \in 1 .. Len(C) : \E j \in i .. Len(C) : C[j].request = C[k].request} = 1 .. k
      BY <1>1, <2>2
    <2>4. Cardinality(1 .. k) = k
      BY <1>1, FS_Interval
    <2>5. QED BY <1>0, <2>3, <2>4
  <1>3. {i \in 1 .. Len(C) : \E j \in i .. Len(C) : C[j].request = None} = {}
    <2>1. \A i \in 1 .. Len(C) : \A j \in i .. Len(C) : C[j].request # None
      BY <1>1, ChainTypes, NoneIsNothing
    <2>2. QED BY <2>1
  <1>4. QED BY <1>0, <1>2, <1>3, FS_EmptySet DEF DepthRight

(* A process that lags behind never puts an older state back into its      *)
(* device's storage (actor-storage.mjs, compare-and-swap on the revision). *)
THEOREM StorageNeverRollsBack == Spec => NeverRollsBack
  <1>1. ASSUME IInv, [Next]_vars, NEW d \in Devices
        PROVE  Depth(storage[d].accepted)' >= Depth(storage[d].accepted)
    <2>0. Types /\ MadeOnce /\ Chained /\ Sound(storage[d], d) /\ DepthRight /\ Len(C) \in Nat
      BY <1>1, DepthIs, ChainTypes DEF IInv, JournalsSound
    <2>1. \/ storage[d].accepted = None /\ Depth(storage[d].accepted) = 0
          \/ \E i \in 1 .. Len(C) : /\ C[i].request = storage[d].accepted
                                    /\ Depth(storage[d].accepted) = i
      BY <2>0, ChainTypes DEF Sound, DepthRight
    <2>2. Depth(storage[d].accepted) \in Nat
      BY <2>0, <2>1
    <2>3. CASE UNCHANGED vars
      <3>1. Depth(storage[d].accepted)' = Depth(storage[d].accepted)
        BY <2>3 DEF vars, ledger, device, Depth
      <3>2. QED BY <2>2, <3>1
    <2>4. ASSUME NEW r \in sent, NEW now \in Times, LedgerApply(r, now)
          PROVE  Depth(storage[d].accepted)' >= Depth(storage[d].accepted)
      <3>1. storage' = storage /\ Len(C') = Len(C) + 1 /\ \A i \in 1 .. Len(C) : C'[i] = C[i]
        BY <1>1, <2>4, Applied DEF device
      <3>2. (Types /\ Chained)'
        BY <1>1, NextIInv DEF IInv
      <3>3. DepthRight'
        BY <3>2, DepthIs, PTL
      <3>4. CASE storage[d].accepted = None
        <4>1. Depth(storage[d].accepted)' = 0 /\ Depth(storage[d].accepted) = 0
          BY <2>0, <3>1, <3>3, <3>4 DEF DepthRight
        <4>2. QED BY <4>1
      <3>5. ASSUME NEW i \in 1 .. Len(C), C[i].request = storage[d].accepted
            PROVE  Depth(storage[d].accepted)' = i /\ Depth(storage[d].accepted) = i
        <4>1. i \in 1 .. Len(C') /\ C'[i].request = storage'[d].accepted
          BY <2>0, <3>1, <3>5
        <4>2. QED BY <2>0, <3>3, <3>5, <4>1 DEF DepthRight
      <3>6. QED BY <2>0, <2>1, <3>4, <3>5
    <2>5. ASSUME NEW a \in Actors, StepOf(a)
          PROVE  Depth(storage[d].accepted)' >= Depth(storage[d].accepted)
      <3>1. Depth(storage[d].accepted)' = Depth(storage'[d].accepted)
        BY <2>5 DEF StepOf, Depth
      <3>2. CASE storage'[d].accepted = storage[d].accepted
        BY <2>2, <3>1, <3>2
      <3>3. CASE d = DeviceOf[a] /\ Installs(d)
        <4>1. CASE storage[d].accepted = None
          <5>1. 1 \in 1 .. Len(C) /\ storage'[d].accepted = C[1].request
            BY <2>0, <3>3, <4>1, PendingFollows DEF Installs
          <5>2. Depth(storage'[d].accepted) = 1 /\ Depth(storage[d].accepted) = 0
            BY <2>0, <4>1, <5>1 DEF DepthRight
          <5>3. QED BY <3>1, <5>2
        <4>2. ASSUME NEW i \in 1 .. Len(C), C[i].request = storage[d].accepted
              PROVE  Depth(storage'[d].accepted) = i + 1 /\ Depth(storage[d].accepted) = i
          <5>1. i + 1 \in 1 .. Len(C) /\ storage'[d].accepted = C[i + 1].request
            BY <2>0, <3>3, <4>2, PendingFollows DEF Installs
          <5>2. QED BY <2>0, <4>2, <5>1 DEF DepthRight
        <4>3. QED BY <2>0, <2>1, <3>1, <4>1, <4>2
      <3>4. QED
        BY <1>1, <2>5, <3>2, <3>3, Wrote, Elsewhere DEF SavesPending, Drops, Kept
    <2>6. QED BY <1>1, <2>3, <2>4, <2>5, NextCases
  <1>2. IInv /\ [Next]_vars
        => [\A d \in Devices : Depth(storage[d].accepted)' >= Depth(storage[d].accepted)]_vars
    BY <1>1
  <1>3. QED BY <1>2, Inductive, PTL DEF NeverRollsBack, Spec
=============================================================================
