--------------------------- MODULE PrototypeLedger ---------------------------
(***************************************************************************)
(* The storage prototype of the accounting study: ExperimentalLedger in    *)
(* experiments/private-accounting/ledger.mjs, one SQLite file that many    *)
(* processes open, and the worker of ledger-worker.mjs that opens it for   *)
(* one request and may die between the commit and its reply.               *)
(*                                                                         *)
(* BEGIN IMMEDIATE makes every method one step.  A handle keeps the time   *)
(* it was opened with, so handles of several times are open at once; the   *)
(* highest time is durable.  A request stands for its digest, which binds  *)
(* its identifier, the expected version and the whole statement.           *)
(***************************************************************************)
EXTENDS Naturals, FiniteSets

CONSTANTS
    Owners,
    Statements,     \* [owner, scope, old, next, marker, now]
    RequestIds,
    Versions,       \* 0 .. n: the versions a request may expect
    Workers,
    WorkerTimes,    \* what the parent's clock shows when it starts a worker
    Closed,         \* a worker without a handle
    MaxWorkers      \* bound on the workers started

(* Assumed wherever the module is instantiated. *)
PrototypeConstants == WorkerTimes \subseteq Nat /\ \A s \in Statements : s.owner \in Owners

VARIABLES
    highTime,       \* metadata.high_time
    accounts,       \* owner -> {} or {[scope, commitment, version, lastTime]}
    markers,        \* {<<owner, marker>>}
    requests,       \* {[request, version, acceptedAt]}: what was answered
    handles,        \* worker -> Closed, or the time of its handle
    started,        \* workers started so far
    replies         \* answers that a parent received

database == <<highTime, accounts, markers, requests>>
prototypeVars == <<database, handles, started, replies>>

(* ledgerRequest: a request identifier may be used for several requests.   *)
PrototypeRequests == [id : RequestIds, expected : Versions, statement : Statements]

Init ==
    /\ highTime = 0
    /\ accounts = [o \in Owners |-> {}]
    /\ markers = {} /\ requests = {}
    /\ handles = [w \in Workers |-> Closed]
    /\ started = 0 /\ replies = {}
-----------------------------------------------------------------------------
(* checkAccount: no account was changed after this handle's time. *)
CheckAccount(account, now) == account.lastTime <= now

(* clock: a handle older than the durable time is of no more use. *)
Clock(now) == now >= highTime

(* The constructor: a first process creates the tables, every one moves    *)
(* the durable time to its own.                                            *)
Open(w, now) ==
    /\ handles[w] = Closed /\ started < MaxWorkers
    /\ Clock(now)
    /\ \A o \in Owners : \A account \in accounts[o] : CheckAccount(account, now)
    /\ highTime' = now
    /\ handles' = [handles EXCEPT ![w] = now]
    /\ started' = started + 1
    /\ UNCHANGED <<accounts, markers, requests, replies>>

(* seedSynthetic: the initial state of an account, for its scope for ever. *)
Seed(w, s) ==
    /\ handles[w] # Closed /\ Clock(handles[w])
    /\ s.now = handles[w]
    /\ accounts[s.owner] = {}
    /\ accounts' = [accounts EXCEPT ![s.owner] =
         {[scope |-> s.scope, commitment |-> s.old, version |-> 0, lastTime |-> s.now]}]
    /\ UNCHANGED <<highTime, markers, requests, handles, started, replies>>

Cached(r) == {a \in requests : a.request.statement.owner = r.statement.owner
                              /\ a.request.id = r.id}

(* accept, first half: the stored answer of this very request, whatever    *)
(* the time is now.                                                        *)
AnyRequest(a, r) == TRUE
SameRequest(a, r) == a.request = r
Stored(r) == {a \in Cached(r) : SameRequest(a, r)}

(* accept, second half: a successor of the stored state. *)
MarkerUnchecked(s) == TRUE
MarkerUnspent(s) == <<s.owner, s.marker>> \notin markers
Successor(w, r) ==
    LET s == r.statement
    IN  /\ Cached(r) = {}
        /\ \E account \in accounts[s.owner] :
            /\ account.scope = s.scope
            /\ account.version = r.expected /\ account.commitment = s.old
        /\ s.now = handles[w]
        /\ MarkerUnspent(s)

Committed(w, r) ==
    LET s == r.statement
    IN  /\ markers' = markers \cup {<<s.owner, s.marker>>}
        /\ accounts' = [accounts EXCEPT ![s.owner] =
             {[scope |-> s.scope, commitment |-> s.next, version |-> r.expected + 1,
               lastTime |-> handles[w]]}]
        /\ requests' = requests \cup
             {[request |-> r, version |-> r.expected + 1, acceptedAt |-> handles[w]]}

(* The worker handles one message, replies unless it dies first, and ends. *)
Apply(w, r) ==
    /\ handles[w] # Closed /\ Clock(handles[w])
    /\ \A account \in accounts[r.statement.owner] : CheckAccount(account, handles[w])
    /\ accounts[r.statement.owner] # {}
    /\ \/ Successor(w, r) /\ Committed(w, r)
       \/ Stored(r) # {} /\ UNCHANGED <<accounts, markers, requests>>
    /\ \E sent \in BOOLEAN :
        replies' = IF sent
                   THEN replies \cup {[to |-> r, answer |-> a] : a \in Cached(r)'}
                   ELSE replies
    /\ handles' = [handles EXCEPT ![w] = Closed]
    /\ UNCHANGED <<highTime, started>>

(* It is refused, or its parent disconnects. *)
End(w) ==
    /\ handles[w] # Closed
    /\ handles' = [handles EXCEPT ![w] = Closed]
    /\ UNCHANGED <<database, started, replies>>

Next ==
    \E w \in Workers :
        \/ \E now \in WorkerTimes : Open(w, now)
        \/ \E s \in Statements : Seed(w, s)
        \/ \E r \in PrototypeRequests : Apply(w, r)
        \/ End(w)

Spec == Init /\ [][Next]_prototypeVars
-----------------------------------------------------------------------------
(* A reply is about the request that was sent, however often and through   *)
(* whichever worker; a marker is spent by one request; and the stored      *)
(* answers of an owner are one chain from the seed to the account, whose   *)
(* times never go back (ledger.mjs:131-165).                               *)
AnsweredAsSent == \A reply \in replies : reply.answer.request = reply.to

OneChain ==
    /\ \A o \in Owners : \A account \in accounts[o] :
        LET own == {a \in requests : a.request.statement.owner = o}
        IN  /\ {a.version : a \in own} = 1 .. account.version
            /\ \A a \in own : a.version = account.version =>
                   a.request.statement.next = account.commitment
    /\ \A a, b \in requests : a.request.statement.owner = b.request.statement.owner =>
        /\ a # b => a.version # b.version /\ a.request.statement.marker # b.request.statement.marker
        /\ b.version = a.version + 1 =>
            /\ a.request.statement.next = b.request.statement.old
            /\ a.acceptedAt <= b.acceptedAt
=============================================================================
