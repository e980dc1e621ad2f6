---------------------------- MODULE AccountLedger ----------------------------
(***************************************************************************)
(* The durable account ledger (src/accounting_ledger.rs and its tuning).   *)
(* Several handles (processes, possibly on different hosts over the remote *)
(* storage) share one database.  Every database transaction is IMMEDIATE,  *)
(* hence one atomic step here; the proof is verified between two of them   *)
(* with no lock held.                                                      *)
(*                                                                         *)
(* Clocks: every reading a handle takes is an arbitrary time, so clock     *)
(* skew between hosts and clocks set back are both included; the code's    *)
(* durable clock_floor is what orders them.  A call reads `before', then   *)
(* `now' under the lock with now >= before: choosing now alone covers it.  *)
(*                                                                         *)
(* Abstracted: proofs (every request carries a valid one), signatures, and *)
(* the digest of a request, which is the request itself.  A call that the  *)
(* ledger refuses changes nothing and is no step, except that it ends a    *)
(* verification in progress (Refuse).                                      *)
(***************************************************************************)
EXTENDS AccountPolicy, FiniteSets

CONSTANTS
    Owners, Ids, Keys, Roots, States, Markers, Waits, Handles,
    Requests,           \* the signed requests members may send
    Authorities,        \* admission grants with their device authorization
    Times,              \* clock readings
    MaxRevision,        \* bound on the number of tunings
    initialWait,
    maxAuthorization,   \* max_authorization_seconds
    checkpointPeriod,   \* checkpoint_period_seconds
    NoAccount, NoRoot, NoState, NoMarker, NoJob, NoReply

Slot(time) == time \div checkpointPeriod
Slots == {Slot(time) : time \in Times}

Request == [owner : Owners, id : Ids, genesis : BOOLEAN,
            previousVersion : Nat, previousState : States \cup {NoState}, nextState : States,
            marker : Markers \cup {NoMarker}, root : Roots, wait : Waits,
            now : Times, expiresAt : Nat]
Authority == [owner : Owners, key : Keys, until : Nat]
Account == [key : Keys, version : Nat, state : States, latest : Ids]
Acceptance == [request : Requests, acceptedAt : Times]
Config == [revision : Nat, wait : Waits]
Job == [request : Requests, authority : Authorities, seen : Times]

(* account_request_bytes and the shape a verified statement has; acceptance *)
(* before expiresAt is then also before the statement's validity horizon.   *)
ASSUME RequestShape ==
    /\ Requests \subseteq Request
    /\ \A r \in Requests : r.genesis => /\ r.previousVersion = 0
                                        /\ r.previousState = NoState
                                        /\ r.marker = NoMarker
    /\ \A r \in Requests : r.now < r.expiresAt /\ r.expiresAt <= ProofValidUntil(r.now)
ASSUME ConstantTypes ==
    /\ Authorities \subseteq Authority
    /\ Times \subseteq Nat \ {0}
    /\ initialWait \in Waits /\ \A w \in Waits : ValidWait(w)
    /\ maxAuthorization \in Nat /\ checkpointPeriod \in Nat \ {0} /\ MaxRevision \in Nat
ASSUME Placeholders ==
    /\ NoAccount \notin Account /\ NoReply \notin Acceptance /\ NoJob \notin Job
    /\ NoRoot \notin Roots /\ NoMarker \notin Markers /\ NoState \notin States

VARIABLES
    config,         \* cfrm_accounts_config: the tuned wait and its revision
    floor,          \* clock_floor of the same row
    checkpoints,    \* cfrm_accounts_checkpoints: slot -> enrollment root
    accounts,       \* cfrm_accounts: owner -> head of its chain
    markers,        \* cfrm_accounts_markers
    acceptances,    \* cfrm_accounts_requests
    pc,             \* handle -> closed, idle or verifying
    known,          \* handle -> the configuration it holds in memory
    job,            \* handle -> the request between its two transactions
    reply           \* the acceptance returned by the latest step, if any

database == <<config, floor, checkpoints, accounts, markers, acceptances>>
vars == <<database, pc, known, job, reply>>

TypeOK ==
    /\ config \in Config /\ floor \in Nat
    /\ checkpoints \in [Slots -> Roots \cup {NoRoot}]
    /\ accounts \in [Owners -> Account \cup {NoAccount}]
    /\ markers \in [Owners -> SUBSET Markers]
    /\ acceptances \in SUBSET Acceptance
    /\ pc \in [Handles -> {"closed", "idle", "verifying"}]
    /\ known \in [Handles -> Config]
    /\ job \in [Handles -> Job \cup {NoJob}]
    /\ \A h \in Handles : job[h] # NoJob <=> pc[h] = "verifying"
    /\ reply \in Acceptance \cup {NoReply}

(* with_connection has created the tables and the configuration row. *)
Init ==
    /\ config = [revision |-> 0, wait |-> initialWait]
    /\ floor = 0
    /\ checkpoints = [s \in Slots |-> NoRoot]
    /\ accounts = [o \in Owners |-> NoAccount]
    /\ markers = [o \in Owners |-> {}]
    /\ acceptances = {}
    /\ pc = [h \in Handles |-> "closed"]
    /\ known = [h \in Handles |-> config]
    /\ job = [h \in Handles |-> NoJob]
    /\ reply = NoReply
-----------------------------------------------------------------------------
NextVersion(r) == IF r.genesis THEN 0 ELSE r.previousVersion + 1

AnyTime(now) == TRUE
CheckTime(now) == now >= floor

(* Admission and device authorization, verified at each reading. *)
Authorized(r, au, now) == au.owner = r.owner /\ now < au.until

(* cached *)
Cached(r) == {a \in acceptances : a.request.owner = r.owner /\ a.request.id = r.id}

(* A stored answer is returned only to the exact request it answers. *)
OriginalOf(r) == {a \in Cached(r) : a.request = r}

(* The stored acceptance is returned as it was signed. *)
AnsweredAnew(a, now) == [a EXCEPT !.acceptedAt = now]
Answer(a, now) == a

(* check_config, and the statement's policy against the handle's. *)
CheckStatementOnly(h, r) == r.wait = known[h].wait
CheckConfig(h, r) == config = known[h] /\ r.wait = known[h].wait

(* The account row the statement extends. *)
ExtendsAnyVersion(r, au) ==
    IF r.genesis THEN accounts[r.owner] = NoAccount
    ELSE accounts[r.owner] # NoAccount /\ accounts[r.owner].key = au.key
ExtendsHead(r, au) ==
    IF r.genesis THEN accounts[r.owner] = NoAccount
    ELSE /\ accounts[r.owner] # NoAccount
         /\ accounts[r.owner].key = au.key
         /\ accounts[r.owner].version = r.previousVersion
         /\ accounts[r.owner].state = r.previousState

MarkerIgnored(r) == TRUE
MarkerUnused(r) == r.marker \notin markers[r.owner]

CheckWindow(r, au, now) ==
    /\ r.expiresAt - r.now <= maxAuthorization
    /\ r.now <= now /\ now < r.expiresAt
    /\ r.expiresAt <= au.until
    /\ Slot(now) = Slot(r.now)
    /\ checkpoints[Slot(r.now)] = r.root

(* check_pending *)
CheckPending(r, au, now) ==
    /\ CheckWindow(r, au, now)
    /\ ExtendsHead(r, au)
    /\ MarkerUnused(r)

(* A transaction commits and its caller learns of it, or the answer is     *)
(* lost: the process died, or the remote connection is poisoned and retired. *)
Delivered(h, answer) == reply' = answer /\ pc' = [pc EXCEPT ![h] = "idle"]
Lost(h) == reply' = NoReply /\ pc' = [pc EXCEPT ![h] = "closed"]
-----------------------------------------------------------------------------
(* with_connection on an existing database: the durable wait replaces the  *)
(* bootstrap one, every other setting is pinned.                           *)
Open(h) ==
    /\ pc[h] = "closed"
    /\ pc' = [pc EXCEPT ![h] = "idle"]
    /\ known' = [known EXCEPT ![h] = config]
    /\ reply' = NoReply
    /\ UNCHANGED <<database, job>>

(* A crash, or a storage error or timeout before the commit took effect. *)
Close(h) ==
    /\ pc[h] # "closed"
    /\ Lost(h)
    /\ job' = [job EXCEPT ![h] = NoJob]
    /\ UNCHANGED <<database, known>>

(* reload_policy; the service runs it before each request.  A handle may   *)
(* also be used directly, without it.                                      *)
Reload(h) ==
    /\ pc[h] = "idle"
    /\ config.revision >= known[h].revision
    /\ known' = [known EXCEPT ![h] = config]
    /\ reply' = NoReply
    /\ UNCHANGED <<database, pc, job>>

(* admit_checkpoint: a slot's root is admitted once. *)
Readmit(slot, root) == TRUE
Unadmitted(slot, root) == checkpoints[slot] = NoRoot

AdmitCheckpoint(slot, root) ==
    /\ \E h \in Handles : pc[h] = "idle"
    /\ Unadmitted(slot, root)
    /\ checkpoints' = [checkpoints EXCEPT ![slot] = root]
    /\ reply' = NoReply
    /\ UNCHANGED <<config, floor, accounts, markers, acceptances, pc, known, job>>

(* update_waiting_period.  After a lost answer the handle is retired, so   *)
(* only a delivered one updates what it knows.                             *)
Tune(h, wait, now) ==
    /\ pc[h] = "idle"
    /\ config = known[h] /\ known[h].revision < MaxRevision
    /\ CheckTime(now) /\ PolicyCurrent(now) /\ DeadlineUsable(now, now + wait)
    /\ config' = [revision |-> known[h].revision + 1, wait |-> wait]
    /\ floor' = now
    /\ \/ Delivered(h, NoReply) /\ known' = [known EXCEPT ![h] = config']
       \/ Lost(h) /\ UNCHANGED known
    /\ UNCHANGED <<checkpoints, accounts, markers, acceptances, job>>

(* apply, up to releasing the lock for the verifier. *)
Preflight(h, r, au, now) ==
    /\ pc[h] = "idle"
    /\ CheckTime(now) /\ Authorized(r, au, now)
    /\ Cached(r) = {}
    /\ CheckConfig(h, r)
    /\ CheckPending(r, au, now)
    /\ pc' = [pc EXCEPT ![h] = "verifying"]
    /\ job' = [job EXCEPT ![h] = [request |-> r, authority |-> au, seen |-> now]]
    /\ reply' = NoReply
    /\ UNCHANGED <<database, known>>

(* An exact retry is answered from the table, before the configuration and *)
(* the request's own expiry are looked at.                                 *)
AnswerRetry(h, r, au, now) ==
    /\ CheckTime(now) /\ Authorized(r, au, now)
    /\ \E a \in OriginalOf(r) : Delivered(h, Answer(a, now)) \/ Lost(h)
    /\ floor' = now
    /\ job' = [job EXCEPT ![h] = NoJob]
    /\ UNCHANGED <<config, checkpoints, accounts, markers, acceptances, known>>

Retry(h, r, au, now) == pc[h] = "idle" /\ AnswerRetry(h, r, au, now)

RetryAfterVerify(h, now) ==
    /\ pc[h] = "verifying"
    /\ now >= job[h].seen
    /\ AnswerRetry(h, job[h].request, job[h].authority, now)

(* The verifier rejects or times out, or the final transaction refuses. *)
Refuse(h) ==
    /\ pc[h] = "verifying"
    /\ Delivered(h, NoReply)
    /\ job' = [job EXCEPT ![h] = NoJob]
    /\ UNCHANGED <<database, known>>

(* What both transactions write for an accepted request. *)
Row(r, au) ==
    [key |-> IF r.genesis THEN au.key ELSE accounts[r.owner].key,
     version |-> NextVersion(r), state |-> r.nextState, latest |-> r.id]

(* apply, from the second transaction on: nothing the first one read is    *)
(* relied on.                                                              *)
Commit(h, completed) ==
    LET r == job[h].request
        au == job[h].authority
        accepted == [request |-> r, acceptedAt |-> completed]
    IN  /\ pc[h] = "verifying"
        /\ CheckTime(completed) /\ completed >= job[h].seen
        /\ Authorized(r, au, completed)
        /\ Cached(r) = {}
        /\ CheckConfig(h, r)
        /\ CheckPending(r, au, completed)
        /\ accounts' = [accounts EXCEPT ![r.owner] = Row(r, au)]
        /\ markers' = [markers EXCEPT ![r.owner] = @ \cup ({r.marker} \ {NoMarker})]
        /\ acceptances' = acceptances \cup {accepted}
        /\ floor' = completed
        /\ Delivered(h, accepted) \/ Lost(h)
        /\ job' = [job EXCEPT ![h] = NoJob]
        /\ UNCHANGED <<config, checkpoints, known>>

(* status, for one request or for the owner's latest. *)
LatestOf(owner) ==
    {a \in acceptances : /\ a.request.owner = owner
                         /\ accounts[owner] # NoAccount
                         /\ a.request.id = accounts[owner].latest}

Status(h, owner, found, au, now) ==
    /\ pc[h] = "idle"
    /\ au.owner = owner /\ now < au.until
    /\ CheckTime(now)
    /\ \/ \E a \in found : Delivered(h, Answer(a, now))
       \/ found = {} /\ Delivered(h, NoReply)
       \/ Lost(h)
    /\ floor' = now
    /\ UNCHANGED <<config, checkpoints, accounts, markers, acceptances, known, job>>

StatusOfRequest(h, r, au, now) == Status(h, r.owner, Cached(r), au, now)
StatusOfLatest(h, owner, au, now) == Status(h, owner, LatestOf(owner), au, now)

Next ==
    \/ \E slot \in Slots, root \in Roots : AdmitCheckpoint(slot, root)
    \/ \E h \in Handles :
        \/ Open(h) \/ Close(h) \/ Reload(h) \/ Refuse(h)
        \/ \E now \in Times :
            \/ \E wait \in Waits : Tune(h, wait, now)
            \/ RetryAfterVerify(h, now)
            \/ Commit(h, now)
            \/ \E au \in Authorities :
                \/ \E owner \in Owners : StatusOfLatest(h, owner, au, now)
                \/ \E r \in Requests :
                    Preflight(h, r, au, now) \/ Retry(h, r, au, now) \/ StatusOfRequest(h, r, au, now)

Spec == Init /\ [][Next]_vars
-----------------------------------------------------------------------------
AcceptedOf(owner) == {a \in acceptances : a.request.owner = owner}

(* Whatever two devices race for, with whatever retries and crashes, each  *)
(* owner's accepted statements are one chain: one genesis, one successor   *)
(* per version, each extending the state accepted before it; and the       *)
(* account row names the end of it, recoverable through latest_request.    *)
OneSuccessor ==
    \A owner \in Owners :
        /\ \A a, b \in AcceptedOf(owner) :
            NextVersion(a.request) = NextVersion(b.request) => a = b
        /\ \A a \in AcceptedOf(owner) : ~a.request.genesis =>
            \E b \in AcceptedOf(owner) :
                /\ NextVersion(b.request) = a.request.previousVersion
                /\ b.request.nextState = a.request.previousState
        /\ AcceptedOf(owner) = {} <=> accounts[owner] = NoAccount
        /\ accounts[owner] # NoAccount =>
            /\ \A a \in AcceptedOf(owner) : NextVersion(a.request) <= accounts[owner].version
            /\ \E a \in LatestOf(owner) :
                /\ NextVersion(a.request) = accounts[owner].version
                /\ a.request.nextState = accounts[owner].state
                /\ LatestOf(owner) = {a}

(* A settlement marker is spent by at most one accepted statement of its   *)
(* owner, although the check and the write are in different transactions   *)
(* for a slow verifier.                                                    *)
MarkerOnce ==
    \A owner \in Owners :
        /\ markers[owner] = {a.request.marker : a \in AcceptedOf(owner)} \ {NoMarker}
        /\ \A a, b \in AcceptedOf(owner) :
            a.request.marker = b.request.marker /\ a.request.marker # NoMarker => a = b

(* Whatever the clocks of the hosts do, acceptance times never go back     *)
(* along a chain and none is later than the durable floor, so a status     *)
(* answer can always carry the acceptance it found.                        *)
AcceptedInOrder ==
    /\ \A a \in acceptances : a.acceptedAt <= floor
    /\ \A a, b \in acceptances :
        a.request.owner = b.request.owner /\ NextVersion(a.request) < NextVersion(b.request)
            => a.acceptedAt <= b.acceptedAt

(* A statement is accepted within its own lifetime, in the checkpoint slot *)
(* it was proved in, and against the one root ever admitted for that slot. *)
AcceptedAsStated ==
    \A a \in acceptances :
        /\ a.request.now <= a.acceptedAt /\ a.acceptedAt < a.request.expiresAt
        /\ Slot(a.acceptedAt) = Slot(a.request.now)
        /\ checkpoints[Slot(a.request.now)] = a.request.root

(* No statement is accepted under a waiting period that a tuning replaced  *)
(* while its proof was being verified.                                     *)
AcceptedUnderCurrentWait ==
    [][\A a \in acceptances' \ acceptances : a.request.wait = config.wait]_vars

(* The chain an owner's acceptances form, up to the one its row names.     *)
Height(owner) == IF accounts[owner] = NoAccount THEN 0 ELSE accounts[owner].version + 1
VersionIn(accepted, version) == CHOOSE a \in accepted : NextVersion(a.request) = version
ChainOf(owner) == [n \in 1 .. Height(owner) |-> VersionIn(AcceptedOf(owner), n - 1)]
Chains == [o \in Owners |-> ChainOf(o)]

(* The ledger is an implementation of AccountChain: members never see a    *)
(* fork, an answer that was not durable, or one that changed afterwards    *)
(* (accounting_ledger.rs:342-507).                                         *)
Chain == INSTANCE AccountChain WITH chain <- Chains
ImplementsChain == Chain!Spec
=============================================================================
