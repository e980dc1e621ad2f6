------------------------ MODULE AccountLedgerProofs ------------------------
(***************************************************************************)
(* Theorems about AccountLedger, for any handles, requests, clocks and any *)
(* number of tunings.  The invariants the runs check are inductive         *)
(* together: a commit extends a chain whose end the account row names.     *)
(* Then, that the ledger with its handles and their unlocked verifications *)
(* implements AccountChain: a commit appends to one owner's chain, every   *)
(* other step recalls one of its elements or says nothing.                 *)
(***************************************************************************)
EXTENDS AccountLedger, Sequences, TLAPS

IInv ==
    /\ TypeOK
    /\ OneSuccessor
    /\ MarkerOnce
    /\ AcceptedInOrder
    /\ AcceptedAsStated
-----------------------------------------------------------------------------
(* What a request and a stored row are made of. *)
LEMMA RequestTypes ==
  ASSUME NEW r \in Requests
  PROVE  /\ r \in Request /\ r.owner \in Owners /\ r.id \in Ids /\ r.genesis \in BOOLEAN
         /\ r.previousVersion \in Nat /\ r.nextState \in States /\ r.root \in Roots
         /\ r.marker \in Markers \cup {NoMarker} /\ r.now \in Times /\ r.now \in Nat
         /\ NextVersion(r) \in Nat
         /\ r.genesis => NextVersion(r) = 0 /\ r.marker = NoMarker
         /\ ~r.genesis => NextVersion(r) = r.previousVersion + 1
         /\ Slot(r.now) \in Slots
  <1>1. r \in Request
    BY RequestShape
  <1>2. r.previousVersion \in Nat /\ r.now \in Times /\ r.now \in Nat
    BY <1>1, ConstantTypes DEF Request
  <1>3. NextVersion(r) \in Nat
    BY <1>2 DEF NextVersion
  <1>4. QED BY <1>1, <1>2, <1>3, RequestShape DEF Request, NextVersion, Slots

(* The request and authority of a verification in progress. *)
LEMMA JobTypes ==
  ASSUME TypeOK, NEW h \in Handles, pc[h] = "verifying"
  PROVE  /\ job[h] \in Job /\ job[h].request \in Requests
         /\ job[h].authority \in Authorities /\ job[h].authority.key \in Keys
  <1>1. job[h] \in Job
    BY DEF TypeOK
  <1>2. QED BY <1>1, ConstantTypes DEF Job, Authority

(* The head a commit writes is a well-typed row. *)
LEMMA RowTypes ==
  ASSUME TypeOK, NEW r \in Requests, NEW au \in Authorities, ExtendsHead(r, au)
  PROVE  /\ Row(r, au) \in Account /\ Row(r, au) # NoAccount
         /\ Row(r, au).version = NextVersion(r) /\ Row(r, au).state = r.nextState
         /\ Row(r, au).latest = r.id
  <1>1. au.key \in Keys
    BY ConstantTypes DEF Authority
  <1>2. ~r.genesis => accounts[r.owner].key \in Keys
    BY RequestTypes DEF ExtendsHead, TypeOK, Account
  <1>3. Row(r, au) \in Account
    BY <1>1, <1>2, RequestTypes DEF Row, Account
  <1>4. QED BY <1>3, Placeholders DEF Row
-----------------------------------------------------------------------------
(* All that a commit relies on and writes, with the request named. *)
CommitOf(r, au, now) ==
    /\ CheckTime(now)
    /\ Cached(r) = {}
    /\ r.wait = config.wait
    /\ CheckPending(r, au, now)
    /\ accounts' = [accounts EXCEPT ![r.owner] = Row(r, au)]
    /\ markers' = [markers EXCEPT ![r.owner] = @ \cup ({r.marker} \ {NoMarker})]
    /\ acceptances' = acceptances \cup {[request |-> r, acceptedAt |-> now]}
    /\ floor' = now
    /\ UNCHANGED checkpoints

(* Every other step leaves the chains alone, moves the clock forward and   *)
(* replaces no root. *)
Quiet ==
    /\ UNCHANGED <<accounts, markers, acceptances>>
    /\ floor' >= floor
    /\ \A slot \in Slots : checkpoints[slot] # NoRoot => checkpoints'[slot] = checkpoints[slot]

(* The steps of Next, one by one. *)
LEMMA Steps ==
  ASSUME TypeOK, [Next]_vars
  PROVE  \/ Quiet
         \/ \E r \in Requests, au \in Authorities, now \in Times : CommitOf(r, au, now)
  <1>0. floor \in Nat
    BY DEF TypeOK
  <1>1. CASE UNCHANGED vars
    BY <1>0, <1>1 DEF vars, database, Quiet
  <1>2. ASSUME NEW slot \in Slots, NEW root \in Roots, AdmitCheckpoint(slot, root) PROVE Quiet
    BY <1>0, <1>2 DEF AdmitCheckpoint, Unadmitted, Quiet, TypeOK
  <1>3. ASSUME NEW h \in Handles, Open(h) \/ Close(h) \/ Reload(h) \/ Refuse(h) PROVE Quiet
    BY <1>0, <1>3 DEF Open, Close, Reload, Refuse, database, Quiet
  <1>4. ASSUME NEW h \in Handles, NEW now \in Times,
               \/ \E wait \in Waits : Tune(h, wait, now)
               \/ RetryAfterVerify(h, now)
               \/ \E au \in Authorities :
                   \/ \E o \in Owners : StatusOfLatest(h, o, au, now)
                   \/ \E r \in Requests : \/ Preflight(h, r, au, now)
                                          \/ Retry(h, r, au, now)
                                          \/ StatusOfRequest(h, r, au, now)
        PROVE Quiet
    BY <1>0, <1>4 DEF Tune, RetryAfterVerify, StatusOfLatest, StatusOfRequest, Status, Retry,
       Preflight, AnswerRetry, CheckTime, database, Quiet
  <1>5. ASSUME NEW h \in Handles, NEW now \in Times, Commit(h, now)
        PROVE  \E r \in Requests, au \in Authorities : CommitOf(r, au, now)
    <2>1. job[h].request \in Requests /\ job[h].authority \in Authorities
      BY <1>5, JobTypes DEF Commit
    <2>2. CommitOf(job[h].request, job[h].authority, now)
      BY <1>5 DEF Commit, CommitOf, CheckConfig
    <2>3. QED BY <2>1, <2>2
  <1>6. QED BY <1>1, <1>2, <1>3, <1>4, <1>5 DEF Next
-----------------------------------------------------------------------------
(* Type correctness, at the start. *)
LEMMA InitTypeOK == Init => TypeOK
  <1> SUFFICES ASSUME Init PROVE TypeOK
    OBVIOUS
  <1>1. config \in Config
    BY ConstantTypes DEF Init, Config
  <1>2. QED BY <1>1 DEF Init, TypeOK

(* Type correctness, one step. *)
LEMMA NextTypeOK == TypeOK /\ [Next]_vars => TypeOK'
  <1> SUFFICES ASSUME TypeOK, [Next]_vars PROVE TypeOK'
    OBVIOUS
  <1> USE DEF TypeOK
  <1>1. CASE UNCHANGED vars
    BY <1>1 DEF vars, database
  <1>2. ASSUME NEW slot \in Slots, NEW root \in Roots, AdmitCheckpoint(slot, root) PROVE TypeOK'
    BY <1>2 DEF AdmitCheckpoint
  <1>3. ASSUME NEW h \in Handles, Open(h) \/ Close(h) \/ Reload(h) \/ Refuse(h) PROVE TypeOK'
    BY <1>3, Placeholders DEF Open, Close, Reload, Refuse, Delivered, Lost, database
  <1>4. ASSUME NEW h \in Handles, NEW now \in Times, NEW wait \in Waits, Tune(h, wait, now) PROVE TypeOK'
    <2>1. config' \in Config /\ floor' \in Nat
      BY <1>4, ConstantTypes DEF Tune, Config
    <2>2. QED BY <1>4, <2>1 DEF Tune, Delivered, Lost
  <1>5. ASSUME NEW h \in Handles, NEW r \in Requests, NEW au \in Authorities, NEW now \in Times,
               Preflight(h, r, au, now)
        PROVE TypeOK'
    <2>1. [request |-> r, authority |-> au, seen |-> now] \in Job
      BY DEF Job
    <2>2. QED BY <1>5, <2>1, Placeholders DEF Preflight, database
  <1>6. ASSUME NEW h \in Handles, NEW r \in Requests, NEW au \in Authorities, NEW now \in Times,
               AnswerRetry(h, r, au, now)
        PROVE TypeOK'
    <2>1. floor' \in Nat
      BY <1>6, ConstantTypes DEF AnswerRetry
    <2>2. PICK a \in Acceptance : Delivered(h, a) \/ Lost(h)
      BY <1>6 DEF AnswerRetry, OriginalOf, Cached, Answer
    <2>3. QED BY <1>6, <2>1, <2>2 DEF AnswerRetry, Delivered, Lost
  <1>7. ASSUME NEW h \in Handles, NEW now \in Times, RetryAfterVerify(h, now) PROVE TypeOK'
    BY <1>6, <1>7, JobTypes DEF RetryAfterVerify
  <1>8. ASSUME NEW h \in Handles, NEW o \in Owners, NEW found \in SUBSET acceptances,
               NEW au \in Authorities, NEW now \in Times, Status(h, o, found, au, now)
        PROVE TypeOK'
    <2>1. floor' \in Nat
      BY <1>8, ConstantTypes DEF Status
    <2>2. PICK a \in Acceptance \cup {NoReply} : Delivered(h, a) \/ Lost(h)
      BY <1>8 DEF Status, Answer
    <2>3. job[h] = NoJob
      BY <1>8 DEF Status
    <2>4. QED BY <1>8, <2>1, <2>2, <2>3 DEF Status, Delivered, Lost
  <1>9. ASSUME NEW h \in Handles, NEW now \in Times, Commit(h, now) PROVE TypeOK'
    <2> DEFINE r == job[h].request
               au == job[h].authority
    <2>1. r \in Requests /\ au \in Authorities
      BY <1>9, JobTypes DEF Commit
    <2>2. accounts' \in [Owners -> Account \cup {NoAccount}]
      BY <1>9, <2>1, RowTypes DEF Commit, CheckPending
    <2>3. markers' \in [Owners -> SUBSET Markers]
      BY <1>9, <2>1, RequestTypes DEF Commit
    <2>4. [request |-> r, acceptedAt |-> now] \in Acceptance
      BY <2>1 DEF Acceptance
    <2>5. floor' \in Nat
      BY <1>9, ConstantTypes DEF Commit
    <2>6. QED BY <1>9, <2>2, <2>3, <2>4, <2>5 DEF Commit, Delivered, Lost
  <1>10. ASSUME NEW h \in Handles, NEW o \in Owners, NEW au \in Authorities, NEW now \in Times,
                StatusOfLatest(h, o, au, now)
         PROVE TypeOK'
    BY <1>8, <1>10 DEF StatusOfLatest, LatestOf
  <1>11. ASSUME NEW h \in Handles, NEW r \in Requests, NEW au \in Authorities, NEW now \in Times,
                Retry(h, r, au, now) \/ StatusOfRequest(h, r, au, now)
         PROVE TypeOK'
    BY <1>6, <1>8, <1>11, RequestTypes DEF StatusOfRequest, Cached, Retry
  <1>12. QED BY <1>1, <1>2, <1>3, <1>4, <1>5, <1>7, <1>9, <1>10, <1>11 DEF Next

(* The ledger's tables and handles keep their types; a handle that is not  *)
(* verifying holds no job. *)
THEOREM TypeCorrect == Spec => []TypeOK
  <1>1. QED BY InitTypeOK, NextTypeOK, PTL DEF Spec
-----------------------------------------------------------------------------
(* A commit seen from the chains: what is accepted is new, and its owner's *)
(* account is exactly at the version and state it extends. *)
LEMMA Committed ==
  ASSUME TypeOK, NEW r \in Requests, NEW au \in Authorities, NEW now \in Times, CommitOf(r, au, now)
  PROVE  /\ r.owner \in Owners /\ now \in Nat /\ floor <= now
         /\ accounts'[r.owner] = Row(r, au) /\ accounts'[r.owner] # NoAccount
         /\ Row(r, au).version = NextVersion(r) /\ Row(r, au).state = r.nextState
         /\ Row(r, au).latest = r.id
         /\ \A o \in Owners : o # r.owner => /\ accounts'[o] = accounts[o]
                                            /\ markers'[o] = markers[o]
                                            /\ AcceptedOf(o)' = AcceptedOf(o)
         /\ markers'[r.owner] = markers[r.owner] \cup ({r.marker} \ {NoMarker})
         /\ AcceptedOf(r.owner)' = AcceptedOf(r.owner) \cup {[request |-> r, acceptedAt |-> now]}
         /\ \A b \in AcceptedOf(r.owner) : b.request.id # r.id
         /\ r.genesis => accounts[r.owner] = NoAccount
         /\ ~r.genesis => /\ accounts[r.owner] # NoAccount
                          /\ accounts[r.owner].version = r.previousVersion
                          /\ accounts[r.owner].state = r.previousState
  <1>1. r.owner \in Owners /\ now \in Nat
    BY RequestTypes, ConstantTypes
  <1>2. ExtendsHead(r, au) /\ floor <= now
    BY DEF CommitOf, CheckPending, CheckTime
  <1>3. /\ accounts'[r.owner] = Row(r, au)
        /\ \A o \in Owners : o # r.owner => accounts'[o] = accounts[o] /\ markers'[o] = markers[o]
        /\ markers'[r.owner] = markers[r.owner] \cup ({r.marker} \ {NoMarker})
    BY <1>1 DEF CommitOf, TypeOK
  <1>4. /\ AcceptedOf(r.owner)' = AcceptedOf(r.owner) \cup {[request |-> r, acceptedAt |-> now]}
        /\ \A o \in Owners : o # r.owner => AcceptedOf(o)' = AcceptedOf(o)
    BY DEF CommitOf, AcceptedOf
  <1>5. \A b \in AcceptedOf(r.owner) : b.request.id # r.id
    BY DEF CommitOf, Cached, AcceptedOf
  <1>6. QED BY <1>1, <1>2, <1>3, <1>4, <1>5, RowTypes DEF ExtendsHead

(* A stored acceptance is typed, and its version is a number. *)
LEMMA AcceptanceTypes ==
  ASSUME TypeOK, NEW o \in Owners, NEW a \in AcceptedOf(o)
  PROVE  /\ a \in acceptances /\ a.request \in Requests /\ a.request.owner = o
         /\ a.acceptedAt \in Nat /\ NextVersion(a.request) \in Nat
         /\ a.request.previousVersion \in Nat /\ Slot(a.request.now) \in Slots
         /\ a.request.root \in Roots
  BY RequestTypes, ConstantTypes DEF AcceptedOf, TypeOK, Acceptance

(* The clauses of OneSuccessor, one owner at a time. *)
Unforked(o) == \A a, b \in AcceptedOf(o) : NextVersion(a.request) = NextVersion(b.request) => a = b
Linked(o) == \A a \in AcceptedOf(o) : ~a.request.genesis =>
    \E b \in AcceptedOf(o) : /\ NextVersion(b.request) = a.request.previousVersion
                             /\ b.request.nextState = a.request.previousState
Named(o) == AcceptedOf(o) = {} <=> accounts[o] = NoAccount
AtHead(o) == accounts[o] # NoAccount =>
    /\ \A a \in AcceptedOf(o) : NextVersion(a.request) <= accounts[o].version
    /\ \E a \in LatestOf(o) : /\ NextVersion(a.request) = accounts[o].version
                              /\ a.request.nextState = accounts[o].state
                              /\ LatestOf(o) = {a}
ChainOK(o) == Unforked(o) /\ Linked(o) /\ Named(o) /\ AtHead(o)

(* OneSuccessor, one owner at a time. *)
LEMMA OneSuccessorByOwner ==
  /\ OneSuccessor <=> \A o \in Owners : ChainOK(o)
  /\ OneSuccessor' <=> \A o \in Owners : ChainOK(o)'
  BY DEF OneSuccessor, ChainOK, Unforked, Linked, Named, AtHead

(* A commit, on the head it re-read under the lock, adds the next version. *)
LEMMA CommitChain ==
  ASSUME TypeOK, NEW r \in Requests, NEW au \in Authorities, NEW now \in Times,
         CommitOf(r, au, now), ChainOK(r.owner)
  PROVE  ChainOK(r.owner)'
  <1> DEFINE o == r.owner
             new == [request |-> r, acceptedAt |-> now]
  <1>0. new.request = r /\ o \in Owners /\ NextVersion(r) \in Nat
    BY RequestTypes
  <1>1. AcceptedOf(o)' = AcceptedOf(o) \cup {new} /\ new \notin AcceptedOf(o)
    BY Committed, <1>0
  <1>2. \A b \in AcceptedOf(o) : NextVersion(b.request) \in Nat /\ NextVersion(b.request) < NextVersion(r)
    <2>1. CASE r.genesis
      BY <2>1, <1>0, Committed DEF ChainOK, Named
    <2>2. CASE ~r.genesis
      <3>1. NextVersion(r) = accounts[o].version + 1 /\ accounts[o] # NoAccount
            /\ accounts[o].version \in Nat
        BY <2>2, Committed, RequestTypes
      <3>2. QED BY <1>0, <3>1, AcceptanceTypes DEF ChainOK, AtHead
    <2>3. QED BY <2>1, <2>2
  <1>3. Unforked(o)'
    BY <1>0, <1>1, <1>2 DEF ChainOK, Unforked
  <1>4. Linked(o)'
    <2>1. ~r.genesis => \E b \in AcceptedOf(o) : /\ NextVersion(b.request) = r.previousVersion
                                                /\ b.request.nextState = r.previousState
      BY <1>0, Committed DEF ChainOK, AtHead, LatestOf, AcceptedOf
    <2>2. QED BY <1>0, <1>1, <2>1 DEF ChainOK, Linked
  <1>5. Named(o)'
    BY <1>0, <1>1, Committed DEF Named
  <1>6. AtHead(o)'
    <2>1. LatestOf(o)' = {a \in AcceptedOf(o)' : a.request.id = r.id}
      BY <1>0, Committed DEF LatestOf, AcceptedOf
    <2>2. LatestOf(o)' = {new}
      BY <1>0, <1>1, <2>1, Committed
    <2>3. accounts'[o].version = NextVersion(r) /\ accounts'[o].state = r.nextState
      BY Committed
    <2>4. QED BY <1>0, <1>1, <1>2, <2>2, <2>3 DEF AtHead
  <1>7. QED BY <1>3, <1>4, <1>5, <1>6 DEF ChainOK

(* Only a commit touches the chains, and only its owner's. *)
LEMMA NextOneSuccessor == IInv /\ [Next]_vars => OneSuccessor'
  <1> SUFFICES ASSUME IInv, [Next]_vars, NEW o \in Owners PROVE ChainOK(o)'
    BY OneSuccessorByOwner
  <1> USE DEF IInv
  <1>1. ChainOK(o)
    BY OneSuccessorByOwner
  <1>2. CASE Quiet
    BY <1>1, <1>2 DEF Quiet, ChainOK, Unforked, Linked, Named, AtHead, LatestOf, AcceptedOf
  <1>3. ASSUME NEW r \in Requests, NEW au \in Authorities, NEW now \in Times, CommitOf(r, au, now)
        PROVE ChainOK(o)'
    <2>1. CASE o = r.owner
      BY <1>1, <1>3, <2>1, CommitChain
    <2>2. CASE o # r.owner
      <3>1. AcceptedOf(o)' = AcceptedOf(o) /\ accounts'[o] = accounts[o]
        BY <1>3, <2>2, Committed
      <3>2. LatestOf(o)' = LatestOf(o)
        BY <3>1 DEF LatestOf, AcceptedOf
      <3>3. QED BY <1>1, <3>1, <3>2 DEF ChainOK, Unforked, Linked, Named, AtHead
    <2>3. QED BY <2>1, <2>2
  <1>4. QED BY <1>2, <1>3, Steps
-----------------------------------------------------------------------------
(* A commit spends a marker it found unused under the lock. *)
LEMMA NextMarkerOnce == IInv /\ [Next]_vars => MarkerOnce'
  <1> SUFFICES ASSUME IInv, [Next]_vars PROVE MarkerOnce'
    OBVIOUS
  <1> USE DEF IInv
  <1>1. CASE Quiet
    BY <1>1 DEF Quiet, MarkerOnce, AcceptedOf
  <1>2. ASSUME NEW r \in Requests, NEW au \in Authorities, NEW now \in Times, CommitOf(r, au, now)
        PROVE MarkerOnce'
    <2> SUFFICES ASSUME NEW o \in Owners
                 PROVE  /\ markers'[o] = {a.request.marker : a \in AcceptedOf(o)'} \ {NoMarker}
                        /\ \A a, b \in AcceptedOf(o)' :
                             a.request.marker = b.request.marker /\ a.request.marker # NoMarker => a = b
      BY DEF MarkerOnce, AcceptedOf
    <2>1. CASE o # r.owner
      BY <1>2, <2>1, Committed DEF MarkerOnce
    <2>2. CASE o = r.owner
      <3> DEFINE new == [request |-> r, acceptedAt |-> now]
      <3>1. /\ AcceptedOf(o)' = AcceptedOf(o) \cup {new} /\ new.request = r
            /\ markers'[o] = markers[o] \cup ({r.marker} \ {NoMarker})
        BY <1>2, <2>2, Committed
      <3>2. markers[o] = {a.request.marker : a \in AcceptedOf(o)} \ {NoMarker}
        BY DEF MarkerOnce
      <3>3. r.marker \notin markers[o]
        BY <1>2, <2>2 DEF CommitOf, CheckPending, MarkerUnused
      <3>4. \A a \in AcceptedOf(o) : a.request.marker = r.marker => r.marker = NoMarker
        BY <3>2, <3>3
      <3>5. markers'[o] = {a.request.marker : a \in AcceptedOf(o)'} \ {NoMarker}
        BY <3>1, <3>2
      <3>6. QED BY <3>1, <3>4, <3>5 DEF MarkerOnce
    <2>3. QED BY <2>1, <2>2
  <1>3. QED BY <1>1, <1>2, Steps

(* A commit is no earlier than the floor, and every row is no later. *)
LEMMA NextInOrder == IInv /\ [Next]_vars => AcceptedInOrder'
  <1> SUFFICES ASSUME IInv, [Next]_vars PROVE AcceptedInOrder'
    OBVIOUS
  <1> USE DEF IInv
  <1>0. floor \in Nat /\ floor' \in Nat /\ \A a \in acceptances : a.acceptedAt \in Nat
    BY NextTypeOK, ConstantTypes DEF TypeOK, Acceptance
  <1>1. CASE Quiet
    BY <1>0, <1>1 DEF Quiet, AcceptedInOrder
  <1>2. ASSUME NEW r \in Requests, NEW au \in Authorities, NEW now \in Times, CommitOf(r, au, now)
        PROVE AcceptedInOrder'
    <2> DEFINE new == [request |-> r, acceptedAt |-> now]
    <2>1. /\ acceptances' = acceptances \cup {new} /\ new.request = r /\ new.acceptedAt = now
          /\ floor' = now /\ floor <= now /\ now \in Nat
      BY <1>2, Committed DEF CommitOf
    <2>2. \A a \in acceptances : a.acceptedAt <= now
      BY <1>0, <2>1 DEF AcceptedInOrder
    <2>3. \A a \in acceptances : a.request.owner = r.owner => ~(NextVersion(r) < NextVersion(a.request))
      <3> SUFFICES ASSUME NEW a \in AcceptedOf(r.owner)
                   PROVE  ~(NextVersion(r) < NextVersion(a.request))
        BY DEF AcceptedOf
      <3>1. r.owner \in Owners /\ ChainOK(r.owner) /\ NextVersion(r) \in Nat
        BY OneSuccessorByOwner, RequestTypes
      <3>2. ~r.genesis
        BY <1>2, <3>1, Committed DEF ChainOK, Named
      <3>3. /\ accounts[r.owner] # NoAccount /\ accounts[r.owner].version \in Nat
            /\ NextVersion(r) = accounts[r.owner].version + 1
        BY <1>2, <3>2, Committed, RequestTypes
      <3>4. NextVersion(a.request) <= accounts[r.owner].version /\ NextVersion(a.request) \in Nat
        BY <3>1, <3>3, AcceptanceTypes DEF ChainOK, AtHead
      <3>5. QED BY <3>1, <3>3, <3>4
    <2>4. QED BY <2>1, <2>2, <2>3 DEF AcceptedInOrder
  <1>3. QED BY <1>1, <1>2, Steps

(* A commit checks the window again, and roots are admitted once. *)
LEMMA NextAsStated == IInv /\ [Next]_vars => AcceptedAsStated'
  <1> SUFFICES ASSUME IInv, [Next]_vars PROVE AcceptedAsStated'
    OBVIOUS
  <1> USE DEF IInv
  <1>0. \A a \in acceptances : Slot(a.request.now) \in Slots /\ a.request.root # NoRoot
    BY RequestTypes, Placeholders DEF TypeOK, Acceptance
  <1>1. CASE Quiet
    BY <1>0, <1>1 DEF Quiet, AcceptedAsStated
  <1>2. ASSUME NEW r \in Requests, NEW au \in Authorities, NEW now \in Times, CommitOf(r, au, now)
        PROVE AcceptedAsStated'
    BY <1>2 DEF CommitOf, CheckPending, CheckWindow, AcceptedAsStated
  <1>3. QED BY <1>1, <1>2, Steps

(* The inductive invariant: at the start and through every step. *)
LEMMA InitIInv == Init => IInv
  BY InitTypeOK
  DEF Init, IInv, OneSuccessor, MarkerOnce, AcceptedInOrder, AcceptedAsStated, AcceptedOf

(* The invariant holds in every behaviour of the ledger. *)
LEMMA Inductive == Spec => []IInv
  <1>1. IInv /\ [Next]_vars => IInv'
    BY NextTypeOK, NextOneSuccessor, NextMarkerOnce, NextInOrder, NextAsStated DEF IInv
  <1>2. QED BY InitIInv, <1>1, PTL DEF Spec
-----------------------------------------------------------------------------
(* Every owner's accepted statements are one chain, whatever handles race. *)
THEOREM OneChain == Spec => []OneSuccessor
  <1>1. IInv => OneSuccessor BY DEF IInv
  <1>2. QED BY Inductive, <1>1, PTL

(* A settlement marker is spent once per owner. *)
THEOREM MarkersSpentOnce == Spec => []MarkerOnce
  <1>1. IInv => MarkerOnce BY DEF IInv
  <1>2. QED BY Inductive, <1>1, PTL

(* Acceptance times follow the chain and the durable clock floor, whatever *)
(* the hosts' clocks show. *)
THEOREM TimesInOrder == Spec => []AcceptedInOrder
  <1>1. IInv => AcceptedInOrder BY DEF IInv
  <1>2. QED BY Inductive, <1>1, PTL

(* Acceptance happens within the statement's lifetime, slot and root. *)
THEOREM AsStated == Spec => []AcceptedAsStated
  <1>1. IInv => AcceptedAsStated BY DEF IInv
  <1>2. QED BY Inductive, <1>1, PTL

(* No commit escapes a tuning that happened during its verification. *)
THEOREM UnderCurrentWait == Spec => AcceptedUnderCurrentWait
  <1>1. TypeOK /\ [Next]_vars => [\A a \in acceptances' \ acceptances : a.request.wait = config.wait]_vars
    <2> SUFFICES ASSUME TypeOK, [Next]_vars, NEW a \in acceptances' \ acceptances
                 PROVE  a.request.wait = config.wait
      OBVIOUS
    <2>1. QED BY Steps DEF Quiet, CommitOf
  <1>2. QED BY TypeCorrect, <1>1, PTL DEF Spec, AcceptedUnderCurrentWait
-----------------------------------------------------------------------------
(* The versions accepted for an owner leave no gap below its head, so that *)
(* the chain has an element at each of its positions. *)
Whole(o) == accounts[o] # NoAccount =>
    \A v \in 0 .. accounts[o].version : \E a \in AcceptedOf(o) : NextVersion(a.request) = v
Gapless == \A o \in Owners : Whole(o)
-----------------------------------------------------------------------------
(* What a step hands out: nothing, an acceptance that was durable before,  *)
(* or that of its own commit. *)
LEMMA Answers ==
  ASSUME TypeOK, [Next]_vars
  PROVE  \/ UNCHANGED vars
         \/ Quiet /\ reply' \in acceptances \cup {NoReply}
         \/ \E r \in Requests, au \in Authorities, now \in Times :
              CommitOf(r, au, now) /\ reply' \in {[request |-> r, acceptedAt |-> now], NoReply}
  <1>0. floor \in Nat
    BY DEF TypeOK
  <1>1. ASSUME NEW slot \in Slots, NEW root \in Roots, AdmitCheckpoint(slot, root)
        PROVE  Quiet /\ reply' = NoReply
    BY <1>0, <1>1 DEF AdmitCheckpoint, Unadmitted, Quiet, TypeOK
  <1>2. ASSUME NEW h \in Handles, Open(h) \/ Close(h) \/ Reload(h) \/ Refuse(h)
        PROVE  Quiet /\ reply' = NoReply
    BY <1>0, <1>2 DEF Open, Close, Lost, Delivered, Reload, Refuse, database, Quiet
  <1>3. ASSUME NEW h \in Handles, NEW now \in Times, NEW wait \in Waits, Tune(h, wait, now)
        PROVE  Quiet /\ reply' = NoReply
    BY <1>0, <1>3 DEF Tune, Lost, Delivered, CheckTime, Quiet
  <1>4. ASSUME NEW h \in Handles, NEW r, NEW au, NEW now \in Times, AnswerRetry(h, r, au, now)
        PROVE  Quiet /\ reply' \in acceptances \cup {NoReply}
    BY <1>0, <1>4 DEF AnswerRetry, OriginalOf, Cached, Answer, Delivered, Lost, CheckTime, Quiet
  <1>5. ASSUME NEW h \in Handles, NEW owner, NEW found \in SUBSET acceptances, NEW au,
               NEW now \in Times, Status(h, owner, found, au, now)
        PROVE  Quiet /\ reply' \in acceptances \cup {NoReply}
    BY <1>0, <1>5 DEF Status, Answer, Delivered, Lost, CheckTime, Quiet
  <1>6. ASSUME NEW h \in Handles, NEW r \in Requests, NEW au \in Authorities, NEW now \in Times,
               Preflight(h, r, au, now)
        PROVE  Quiet /\ reply' = NoReply
    BY <1>0, <1>6 DEF Preflight, database, Quiet
  <1>7. ASSUME NEW h \in Handles, NEW now \in Times, Commit(h, now)
        PROVE  \E r \in Requests, au \in Authorities :
                 CommitOf(r, au, now) /\ reply' \in {[request |-> r, acceptedAt |-> now], NoReply}
    <2>1. job[h].request \in Requests /\ job[h].authority \in Authorities
      BY <1>7, JobTypes DEF Commit
    <2>2. CommitOf(job[h].request, job[h].authority, now)
      BY <1>7 DEF Commit, CommitOf, CheckConfig
    <2>3. reply' \in {[request |-> job[h].request, acceptedAt |-> now], NoReply}
      BY <1>7 DEF Commit, Delivered, Lost
    <2>4. QED BY <2>1, <2>2, <2>3
  <1>8. \A r, owner : Cached(r) \subseteq acceptances /\ LatestOf(owner) \subseteq acceptances
    BY DEF Cached, LatestOf
  <1>9. QED
    BY <1>1, <1>2, <1>3, <1>4, <1>5, <1>6, <1>7, <1>8
    DEF Next, RetryAfterVerify, Retry, StatusOfRequest, StatusOfLatest
-----------------------------------------------------------------------------
(* Each position of a chain holds the one acceptance of its version. *)
LEMMA VersionInIs ==
  ASSUME NEW S, NEW a \in S,
         \A b \in S : NextVersion(b.request) = NextVersion(a.request) => b = a
  PROVE  VersionIn(S, NextVersion(a.request)) = a
  BY DEF VersionIn

(* The chain of an owner, position by position. *)
LEMMA ChainIs ==
  ASSUME TypeOK, NEW o \in Owners, ChainOK(o), Whole(o)
  PROVE  /\ Height(o) \in Nat /\ ChainOf(o) \in Seq(acceptances) /\ Len(ChainOf(o)) = Height(o)
         /\ \A n \in 1 .. Height(o) : /\ ChainOf(o)[n] \in AcceptedOf(o)
                                      /\ NextVersion(ChainOf(o)[n].request) = n - 1
         /\ \A a \in AcceptedOf(o) : /\ NextVersion(a.request) + 1 \in 1 .. Height(o)
                                     /\ ChainOf(o)[NextVersion(a.request) + 1] = a
  <1>1. Height(o) \in Nat
    BY DEF Height, TypeOK, Account
  <1>2. ASSUME NEW a \in AcceptedOf(o)
        PROVE  /\ NextVersion(a.request) \in Nat /\ NextVersion(a.request) < Height(o)
               /\ VersionIn(AcceptedOf(o), NextVersion(a.request)) = a
    <2>1. accounts[o] # NoAccount /\ accounts[o].version \in Nat
      BY DEF ChainOK, Named, TypeOK, Account
    <2>2. NextVersion(a.request) \in Nat /\ NextVersion(a.request) <= accounts[o].version
      BY <2>1, AcceptanceTypes DEF ChainOK, AtHead
    <2>3. QED BY <2>1, <2>2, VersionInIs DEF ChainOK, Unforked, Height
  <1>3. ASSUME NEW v \in 0 .. Height(o) - 1
        PROVE  VersionIn(AcceptedOf(o), v) \in AcceptedOf(o)
               /\ NextVersion(VersionIn(AcceptedOf(o), v).request) = v
    <2>1. PICK a \in AcceptedOf(o) : NextVersion(a.request) = v
      BY <1>1, <1>3 DEF Whole, Height, TypeOK, Account
    <2>2. QED BY <1>2, <2>1
  <1>4. \A n \in 1 .. Height(o) : ChainOf(o)[n] = VersionIn(AcceptedOf(o), n - 1)
    BY DEF ChainOf
  <1>5. \A n \in 1 .. Height(o) : /\ ChainOf(o)[n] \in AcceptedOf(o)
                                  /\ NextVersion(ChainOf(o)[n].request) = n - 1
    BY <1>1, <1>3, <1>4
  <1>6. ChainOf(o) \in Seq(acceptances) /\ Len(ChainOf(o)) = Height(o)
    <2>1. ChainOf(o) \in [1 .. Height(o) -> acceptances]
      BY <1>5 DEF ChainOf, AcceptedOf
    <2>2. QED BY <1>1, <2>1
  <1>7. QED BY <1>1, <1>2, <1>4, <1>5, <1>6
-----------------------------------------------------------------------------
(* A commit adds the version after the head, so no gap appears. *)
LEMMA NextGapless == IInv /\ Gapless /\ [Next]_vars => Gapless'
  <1> SUFFICES ASSUME IInv, Gapless, [Next]_vars, NEW o \in Owners PROVE Whole(o)'
    BY DEF Gapless
  <1> USE DEF IInv
  <1>1. Whole(o)
    BY DEF Gapless
  <1>2. CASE Quiet
    BY <1>1, <1>2 DEF Quiet, Whole, AcceptedOf
  <1>3. ASSUME NEW r \in Requests, NEW au \in Authorities, NEW now \in Times, CommitOf(r, au, now)
        PROVE Whole(o)'
    <2>1. CASE o # r.owner
      BY <1>1, <1>3, <2>1, Committed DEF Whole
    <2>2. CASE o = r.owner
      <3>1. accounts'[o].version = NextVersion(r) /\ NextVersion(r) \in Nat
        BY <1>3, <2>2, Committed, RequestTypes
      <3>2. AcceptedOf(o)' = AcceptedOf(o) \cup {[request |-> r, acceptedAt |-> now]}
        BY <1>3, <2>2, Committed
      <3>3. ASSUME NEW v \in 0 .. NextVersion(r), v # NextVersion(r)
            PROVE  \E a \in AcceptedOf(o) : NextVersion(a.request) = v
        <4>1. /\ accounts[o] # NoAccount
              /\ accounts[o].version \in Nat /\ NextVersion(r) = accounts[o].version + 1
          BY <1>3, <2>2, <3>3, Committed, RequestTypes
        <4>2. v \in 0 .. accounts[o].version
          BY <3>1, <3>3, <4>1
        <4>3. QED BY <1>1, <4>1, <4>2 DEF Whole
      <3>4. SUFFICES ASSUME NEW v \in 0 .. NextVersion(r)
                     PROVE  \E a \in AcceptedOf(o)' : NextVersion(a.request) = v
        BY <3>1 DEF Whole, NextVersion
      <3>5. CASE v = NextVersion(r)
        <4> DEFINE new == [request |-> r, acceptedAt |-> now]
        <4>1. new \in AcceptedOf(o)' /\ new.request = r
          BY <3>2
        <4>2. NextVersion(new.request) = v
          BY <3>5, <4>1
        <4> HIDE DEF new
        <4>3. QED BY <4>1, <4>2
      <3>6. CASE v # NextVersion(r)
        BY <3>2, <3>3, <3>6
      <3>7. QED BY <3>5, <3>6
    <2>3. QED BY <2>1, <2>2
  <1>4. QED BY <1>2, <1>3, Steps

(* The first state has no accounts. *)
LEMMA InitGapless == Init => Gapless
  BY DEF Init, Gapless, Whole

(* Chains have no gaps, in every behaviour of the ledger. *)
LEMMA AlwaysGapless == Spec => []Gapless
  BY Inductive, InitGapless, NextGapless, PTL DEF Spec
-----------------------------------------------------------------------------
(* A step that commits nothing leaves every chain as it is. *)
LEMMA QuietChains ==
  ASSUME accounts' = accounts, acceptances' = acceptances
  PROVE  Chains' = Chains
  BY DEF Chains, ChainOf, Height, AcceptedOf

(* A commit appends its acceptance to its owner's chain, and to no other. *)
LEMMA CommitAppends ==
  ASSUME IInv, Gapless, [Next]_vars, NEW r \in Requests, NEW au \in Authorities,
         NEW now \in Times, CommitOf(r, au, now)
  PROVE  Chains' = [Chains EXCEPT ![r.owner] = Append(@, [request |-> r, acceptedAt |-> now])]
  <1> USE DEF IInv
  <1> DEFINE o == r.owner
             new == [request |-> r, acceptedAt |-> now]
  <1>0. o \in Owners /\ new.request = r /\ NextVersion(r) \in Nat
    BY RequestTypes
  <1>1. TypeOK' /\ \A p \in Owners : ChainOK(p) /\ Whole(p) /\ ChainOK(p)' /\ Whole(p)'
    BY OneSuccessorByOwner, NextTypeOK, NextOneSuccessor, NextGapless DEF Gapless
  <1>2. ASSUME NEW p \in Owners, p # o PROVE ChainOf(p)' = ChainOf(p)
    <2>1. AcceptedOf(p)' = AcceptedOf(p) /\ accounts'[p] = accounts[p]
      BY <1>2, Committed
    <2>2. QED BY <2>1 DEF ChainOf, Height
  <1>3. Height(o)' = Height(o) + 1 /\ Height(o) \in Nat /\ NextVersion(r) = Height(o)
    BY <1>0, <1>1, Committed, RequestTypes, ChainIs DEF Height
  <1>4. AcceptedOf(o)' = AcceptedOf(o) \cup {new}
    BY Committed
  <1>5. ASSUME NEW a \in AcceptedOf(o)' PROVE VersionIn(AcceptedOf(o)', NextVersion(a.request)) = a
    <2>1. \A b \in AcceptedOf(o)' : NextVersion(b.request) = NextVersion(a.request) => b = a
      BY <1>0, <1>1, <1>5 DEF ChainOK, Unforked
    <2>2. QED BY <2>1, VersionInIs
  <1>6. ChainOf(o)'[Height(o) + 1] = new
    <2>1. ChainOf(o)'[Height(o) + 1] = VersionIn(AcceptedOf(o)', Height(o) + 1 - 1)
      BY <1>3 DEF ChainOf
    <2>2. Height(o) + 1 - 1 = NextVersion(new.request)
      BY <1>0, <1>3
    <2>3. QED BY <1>4, <1>5, <2>1, <2>2
  <1>7. ASSUME NEW n \in 1 .. Height(o) PROVE ChainOf(o)'[n] = ChainOf(o)[n]
    <2>1. ChainOf(o)[n] \in AcceptedOf(o) /\ NextVersion(ChainOf(o)[n].request) = n - 1
      BY <1>0, <1>1, ChainIs
    <2>2. ChainOf(o)'[n] = VersionIn(AcceptedOf(o)', n - 1)
      BY <1>3 DEF ChainOf
    <2>3. QED BY <1>4, <1>5, <2>1, <2>2
  <1>8. ChainOf(o)' = Append(ChainOf(o), new)
    <2>1. ChainOf(o) \in Seq(acceptances) /\ Len(ChainOf(o)) = Height(o)
      BY <1>0, <1>1, ChainIs
    <2>2. ChainOf(o)' = [n \in 1 .. Height(o) + 1 |-> ChainOf(o)'[n]]
      BY <1>3 DEF ChainOf
    <2>3. Append(ChainOf(o), new) =
            [n \in 1 .. Height(o) + 1 |-> IF n = Height(o) + 1 THEN new ELSE ChainOf(o)[n]]
      BY <2>1, <1>3
    <2>4. \A n \in 1 .. Height(o) + 1 :
            ChainOf(o)'[n] = IF n = Height(o) + 1 THEN new ELSE ChainOf(o)[n]
      BY <1>3, <1>6, <1>7
    <2>5. QED BY <2>2, <2>3, <2>4
  <1>9. QED BY <1>0, <1>2, <1>8 DEF Chains
-----------------------------------------------------------------------------
(* The chain of an owner, as AccountChain sees it. *)
LEMMA ChainsAre ==
  ASSUME IInv, Gapless, NEW o \in Owners
  PROVE  /\ ChainOK(o) /\ Whole(o)
         /\ Chains[o] = ChainOf(o)
         /\ Height(o) \in Nat /\ Len(Chains[o]) = Height(o)
         /\ \A n \in 1 .. Height(o) : Chains[o][n] \in AcceptedOf(o)
         /\ \A a \in AcceptedOf(o) : /\ NextVersion(a.request) + 1 \in 1 .. Height(o)
                                     /\ Chains[o][NextVersion(a.request) + 1] = a
  <1>1. ChainOK(o) /\ Whole(o) /\ TypeOK
    BY OneSuccessorByOwner DEF IInv, Gapless
  <1>2. Chains[o] = ChainOf(o)
    BY DEF Chains
  <1>3. QED BY <1>1, <1>2, ChainIs

(* A statement that commits extends the end of its owner's chain. *)
LEMMA CommitExtends ==
  ASSUME IInv, Gapless, NEW r \in Requests, NEW au \in Authorities,
         NEW now \in Times, CommitOf(r, au, now)
  PROVE  Chain!Extends(r.owner, [request |-> r, acceptedAt |-> now])
  <1> DEFINE o == r.owner
  <1>0. o \in Owners /\ r.genesis \in BOOLEAN /\ TypeOK
    BY RequestTypes DEF IInv
  <1>1. ChainOK(o) /\ Len(Chains[o]) = Height(o)
    BY <1>0, ChainsAre
  <1>2. CASE r.genesis
    <2>1. Height(o) = 0
      BY <1>0, <1>2, Committed DEF Height
    <2>2. QED BY <1>1, <1>2, <2>1 DEF Chain!Extends
  <1>3. CASE ~r.genesis
    <2>1. /\ accounts[o] # NoAccount /\ accounts[o].state = r.previousState
          /\ accounts[o].version \in Nat /\ Height(o) = accounts[o].version + 1
      BY <1>0, <1>3, Committed, RequestTypes DEF Height
    <2>2. PICK a \in AcceptedOf(o) : /\ NextVersion(a.request) = accounts[o].version
                                     /\ a.request.nextState = accounts[o].state
      BY <1>1, <2>1 DEF ChainOK, AtHead, LatestOf, AcceptedOf
    <2>3. Chains[o][Height(o)] = a
      BY <1>0, <2>1, <2>2, ChainsAre
    <2>4. QED BY <1>1, <1>3, <2>1, <2>2, <2>3 DEF Chain!Extends
  <1>4. QED BY <1>0, <1>2, <1>3

(* Each step of the ledger is one of AccountChain, or a stutter. *)
LEMMA NextImplements == IInv /\ Gapless /\ [Next]_vars => [Chain!Next]_(Chain!vars)
  <1> SUFFICES ASSUME IInv, Gapless, [Next]_vars PROVE Chain!Next \/ UNCHANGED Chain!vars
    OBVIOUS
  <1>0. TypeOK /\ floor \in Nat
    BY DEF IInv, TypeOK
  <1>1. CASE UNCHANGED vars
    <2>1. Chains' = Chains /\ floor' = floor /\ reply' = reply
      BY <1>1, QuietChains DEF vars, database
    <2>2. QED BY <2>1 DEF Chain!vars
  <1>2. CASE Quiet /\ reply' = NoReply
    <2>1. Chains' = Chains /\ floor' >= floor
      BY <1>2, QuietChains DEF Quiet
    <2>2. floor <= floor'
      BY <2>1
    <2>3. Chain!Silence
      BY <1>2, <2>1, <2>2 DEF Chain!Silence
    <2>4. QED BY <2>3 DEF Chain!Next
  <1>3. ASSUME Quiet, NEW a \in acceptances, reply' = a PROVE Chain!Next
    <2> DEFINE o == a.request.owner
    <2>1. o \in Owners /\ a \in AcceptedOf(o)
      BY <1>0, RequestTypes DEF TypeOK, Acceptance, AcceptedOf
    <2>2. Chains' = Chains /\ floor <= floor'
      BY <1>3, QuietChains DEF Quiet
    <2>3. \E i \in Chain!Positions(o) : reply' = Chains[o][i]
      BY <1>3, <2>1, ChainsAre DEF Chain!Positions
    <2>4. Chain!Recall(o)
      BY <2>2, <2>3 DEF Chain!Recall
    <2>5. QED BY <2>1, <2>4 DEF Chain!Next
  <1>4. ASSUME NEW r \in Requests, NEW au \in Authorities, NEW now \in Times,
               CommitOf(r, au, now), reply' \in {[request |-> r, acceptedAt |-> now], NoReply}
        PROVE  Chain!Next
    <2> DEFINE o == r.owner
               new == [request |-> r, acceptedAt |-> now]
    <2>0. o \in Owners /\ new.request = r /\ new.acceptedAt = now
      BY RequestTypes
    <2>1. Chains' = [Chains EXCEPT ![o] = Append(@, new)]
      BY <1>4, CommitAppends
    <2>2. Chain!Extends(o, new)
      BY <1>4, CommitExtends
    <2>3. r.marker # NoMarker => \A i \in Chain!Positions(o) : Chains[o][i].request.marker # r.marker
      <3>1. r.marker \notin markers[o]
        BY <1>4 DEF CommitOf, CheckPending, MarkerUnused
      <3>2. \A b \in AcceptedOf(o) : b.request.marker # NoMarker => b.request.marker \in markers[o]
        BY <2>0 DEF IInv, MarkerOnce
      <3>3. \A i \in Chain!Positions(o) : Chains[o][i] \in AcceptedOf(o)
        BY <2>0, ChainsAre DEF Chain!Positions
      <3>4. QED BY <3>1, <3>2, <3>3
    <2>4. floor <= now /\ now < r.expiresAt /\ floor' = now
      BY <1>4 DEF CommitOf, CheckTime, CheckPending, CheckWindow
    <2>5. Chain!Accept(new)
      BY <1>4, <2>0, <2>1, <2>2, <2>3, <2>4 DEF Chain!Accept
    <2>6. Len(Chains'[o]) = Len(Chains[o]) + 1 /\ Chains'[o][Len(Chains'[o])] = new
      <3>1. Chains[o] \in Seq(acceptances) /\ Chains'[o] = Append(Chains[o], new)
        BY <1>0, <2>0, <2>1, ChainsAre, ChainIs DEF Chains
      <3>2. QED BY <3>1
    <2>7. QED BY <2>0, <2>5, <2>6 DEF Chain!Next
  <1>5. QED BY <1>0, <1>1, <1>2, <1>3, <1>4, Answers

(* An empty ledger is an empty chain for everyone. *)
LEMMA InitImplements == Init => Chain!Init
  <1> SUFFICES ASSUME Init PROVE Chain!Init
    OBVIOUS
  <1>1. ASSUME NEW o \in Owners PROVE ChainOf(o) = << >>
    BY DEF Init, ChainOf, Height
  <1>2. Chains = [o \in Owners |-> << >>]
    BY <1>1 DEF Chains
  <1>3. QED BY <1>2 DEF Init, Chain!Init

(* Members never see a fork, an answer that was not durable or one that    *)
(* changed afterwards: the transactions of apply, status and retries       *)
(* (accounting_ledger.rs:342-507) implement one growing chain an owner.    *)
THEOREM ImplementsAccountChain == Spec => ImplementsChain
  <1>1. Spec => [](IInv /\ Gapless)
    BY Inductive, AlwaysGapless, PTL
  <1>2. QED BY <1>1, InitImplements, NextImplements, PTL DEF Spec, ImplementsChain, Chain!Spec
=============================================================================
