------------------------------ MODULE Discovery ------------------------------
(***************************************************************************)
(* The discovery service over its two stores: the durable control rows     *)
(* (SqliteDiscoveryControl in src/discovery_control.rs, whose rules are    *)
(* `transition' of src/discovery_store.rs) and the Valkey cache of         *)
(* encrypted profiles (src/discovery_valkey.rs).                           *)
(*                                                                         *)
(* A write is two steps of a handler: the intent is committed in the       *)
(* member's row under a new revision, then the cache is changed while a    *)
(* second transaction holds the row at that revision.  A read is three:    *)
(* its debit, the cached body, and the row that must vouch for the body.   *)
(* Handlers run on any number of replicas over one control database; each  *)
(* may fail or stop between its steps, and takes its time from any clock.  *)
(* Requests are signed once and may arrive at any time, any number of      *)
(* times.  The cache may evict what it holds, and with `Late' a script     *)
(* whose answer did not come within io_timeout may still run.              *)
(*                                                                         *)
(* One community; signatures and filters are abstracted, a publication     *)
(* stands for its hash.                                                    *)
(***************************************************************************)
EXTENDS Naturals, FiniteSetsExt

CONSTANTS
    Members, Devices,
    Publications,   \* [sequence, discriminators, issued, expires]
    Requests,       \* VerifiedDiscoveryRequest: [id, session, member, device,
                    \*   issued, expires, op, sequence, lease, publication]
    Handlers,
    Times,
    limits,         \* DiscoveryLimits
    Late,           \* may a script run after its caller gave up?
    MaxRevision,    \* bound on the requests accepted, for TLC
    None

Kinds == {"publish", "discriminate", "read"}
Writes == {"publish", "heartbeat", "disconnect"}

(* request_signing_bytes, execute and verify_lease bound lifetimes, and a   *)
(* publication carries the admission of the member who asks for it         *)
(* (discovery.rs:535-541): it is nobody else's. *)
ASSUME RequestShape ==
    /\ Times \subseteq Nat \ {0}
    /\ limits.request \in Nat /\ limits.lease \in Nat
    /\ \A k \in Kinds : limits.quota[k] \in Nat \ {0} /\ limits.window[k] \in Nat \ {0}
    /\ \A p \in Publications : p.sequence \in Nat /\ p.expires \in Nat
    /\ \A r \in Requests :
        /\ r.member \in Members /\ r.device \in Devices
        /\ r.issued \in Nat /\ r.expires \in Nat /\ r.sequence \in Nat /\ r.lease \in Nat
        /\ r.issued < r.expires /\ r.expires <= r.issued + limits.request
        /\ r.op \in {"publish", "heartbeat"} => r.lease <= r.issued + limits.lease
        /\ r.publication \in (IF r.op = "publish" THEN Publications ELSE {None})
    /\ \A r, q \in Requests :
        r.op = "publish" /\ q.op = "publish" /\ r.publication = q.publication
            => r.member = q.member

(* LeaseState, MemberControl and the row it is stored in. *)
Lease ==
    [session : {r.session : r \in Requests}, sequence : Nat, expires : Nat, retain : Nat]
Control ==
    [retainUntil : Nat, leases : [Devices -> Lease \cup {None}], replay : SUBSET Requests,
     counters : [Kinds -> [start : Nat, used : Nat]],
     publication : Publications \cup {None}]
Row == [revision : Nat, control : Control]

(* "Nothing" is neither a publication nor a value of a table. *)
ASSUME NoneIsNothing == None \notin Publications \cup Lease \cup Row

VARIABLES
    scope,          \* row of cfrm_discovery_scopes: last_now, last_revision
    rows,           \* cfrm_discovery_controls: [revision, control], or None
    cache,          \* Valkey: profile body and score in the live index
    handlers,       \* the request a handler works on, or None
    delayed,        \* scripts sent by callers that timed out
    \* history
    superseded,     \* publications that were current and no longer are
    leased,         \* by member and device: the last accepted lease change, its time
    charges         \* [kind, request, at]: what was debited

vars == <<scope, rows, cache, handlers, delayed, superseded, leased, charges>>
history == <<superseded, leased, charges>>

Fresh ==
    [retainUntil |-> 0, leases |-> [d \in Devices |-> None], replay |-> {},
     counters |-> [k \in Kinds |-> [start |-> 0, used |-> 0]], publication |-> None]
NotCached == [body |-> None, live |-> 0]

Init ==
    /\ scope = [lastNow |-> 0, revision |-> 0]
    /\ rows = [m \in Members |-> None]
    /\ cache = [m \in Members |-> NotCached]
    /\ handlers = [h \in Handlers |-> None]
    /\ delayed = {} /\ superseded = {} /\ charges = {}
    /\ leased = [m \in Members |-> [d \in Devices |-> None]]
-----------------------------------------------------------------------------
(* What `transition' asks and does. *)

SequenceOf(p) == IF p = None THEN 0 ELSE p.sequence
ExpiryOf(p) == IF p = None THEN 0 ELSE p.expires
Held(control) == {d \in Devices : control.leases[d] # None}

(* MemberControl::live_until: the last live lease, within the profile. *)
LiveUntil(control, now) ==
    LET ends == {control.leases[d].expires : d \in Held(control)}
    IN  Min({Max({0} \cup {e \in ends : e > now}), ExpiryOf(control.publication)})

LeaseUnexpired(lease, now) == lease.expires > now
LeaseRetained(lease, now) == lease.retain > now

(* Markers outlive their requests, and leases what was signed before them. *)
Prune(control, now) ==
    [control EXCEPT
        !.replay = {q \in @ : q.expires > now},
        !.leases = [d \in Devices |->
            IF d \in Held(control) /\ LeaseRetained(control.leases[d], now)
            THEN control.leases[d] ELSE None]]

(* execute, verify_cached_profile and verify_lease, at the handler's time. *)
Verified(r, now) ==
    /\ r.issued <= now /\ now < r.expires
    /\ r.op = "publish" => r.publication.issued <= now /\ now < r.publication.expires
    /\ r.op \in {"publish", "heartbeat"} => now < r.lease

Exact(control, r) == r.op \in Writes /\ r \in control.replay

ReplayRoom(control) == Cardinality(control.replay) < limits.replay

Unused(control, r) == (\A q \in control.replay : q.id # r.id) /\ ReplayRoom(control)

(* A publication replaces an older one, or is the current one again. *)
Supersedes(control, r) ==
    r.op = "publish" =>
        \/ r.publication.sequence > SequenceOf(control.publication)
        \/ r.publication = control.publication

(* update_lease, and the conditions of a disconnect. *)
LeaseMoves(control, r) ==
    LET held == control.leases[r.device]
    IN  CASE r.op = "disconnect" -> /\ held # None
                                    /\ held.session = r.session
                                    /\ held.sequence < r.sequence
          [] r.op \in {"publish", "heartbeat"} ->
                IF held = None THEN Cardinality(Held(control)) < limits.devices
                               ELSE held.sequence < r.sequence
          [] OTHER -> TRUE

NewLeases(control, r, now) ==
    LET held == control.leases[r.device]
        ends == IF r.op = "disconnect" THEN now ELSE r.lease
        kept == IF r.op = "disconnect" THEN held.retain ELSE r.lease
    IN  IF r.op \notin Writes THEN control.leases
        ELSE [control.leases EXCEPT ![r.device] =
                [session |-> r.session, sequence |-> r.sequence, expires |-> ends,
                 retain |-> Max({kept, now + limits.request})]]

(* Repairing the current publication is free. *)
Debits(control, r) ==
    CASE r.op \in {"query", "fetch"} -> {"read"}
      [] r.op = "publish" /\ r.publication # control.publication ->
            {"publish"} \cup
            (IF /\ control.publication # None
                /\ control.publication.discriminators = r.publication.discriminators
             THEN {} ELSE {"discriminate"})
      [] OTHER -> {}

WindowStart(kind, now) == now - (now % limits.window[kind])

(* Counter::take *)
Affordable(control, kind, now) ==
    \/ control.counters[kind].start # WindowStart(kind, now)
    \/ control.counters[kind].used < limits.quota[kind]
Take(counter, start) ==
    [start |-> start, used |-> IF counter.start = start THEN counter.used + 1 ELSE 1]

(* How long the row stays: every window, lease and profile it accounts for. *)
LongestWindow ==
    Max({limits.window[k] : k \in Kinds} \cup {limits.request, limits.lease})
RetentionWithoutWindows(control, r, now) ==
    Max({control.retainUntil, now + limits.request, ExpiryOf(r.publication)}
        \cup (IF r.op \in {"publish", "heartbeat"} THEN {r.lease} ELSE {}))
Retention(control, r, now) ==
    Max({control.retainUntil, now + LongestWindow, ExpiryOf(r.publication)}
        \cup (IF r.op \in {"publish", "heartbeat"} THEN {r.lease} ELSE {}))

Acceptable(control, r, now) ==
    /\ Unused(control, r)
    /\ Supersedes(control, r)
    /\ LeaseMoves(control, r)
    /\ \A kind \in Debits(control, r) : Affordable(control, kind, now)

Change(control, r, now) ==
    [retainUntil |-> Retention(control, r, now),
     leases |-> NewLeases(control, r, now),
     replay |-> control.replay \cup {r},
     counters |-> [k \in Kinds |->
        IF k \in Debits(control, r) THEN Take(control.counters[k], WindowStart(k, now))
                                    ELSE control.counters[k]],
     publication |-> IF r.op = "publish" THEN r.publication ELSE control.publication]
-----------------------------------------------------------------------------
(* SqliteDiscoveryControl::authorize *)

(* The rows whose time has come are deleted first. *)
Unexpired(now) ==
    [m \in Members |-> IF rows[m] # None /\ rows[m].control.retainUntil > now
                       THEN rows[m] ELSE None]
ControlOf(m, now) ==
    IF Unexpired(now)[m] = None THEN Fresh ELSE Prune(rows[m].control, now)
MemberRoom(m, now) ==
    \/ Unexpired(now)[m] # None
    \/ Cardinality({n \in Members : Unexpired(now)[n] # None}) < limits.members

(* Generations count over the whole scope, not per row. *)
RowRevision(row) == IF row = None THEN 1 ELSE row.revision + 1
NextRevision(row) == scope.revision + 1

Current(table) == {table[m].control.publication : m \in {n \in Members : table[n] # None}}

(* One transaction: the scope moves, the row is stored, the handler goes   *)
(* on with its snapshot.  A refusal at any point leaves everything as was. *)
Commit(h, r, now, control, publication) ==
    LET m == r.member
        revision == NextRevision(Unexpired(now)[m])
        table == [Unexpired(now) EXCEPT ![m] = [revision |-> revision, control |-> control]]
    IN  /\ scope' = [lastNow |-> now, revision |-> scope.revision + 1]
        /\ rows' = table
        /\ superseded' = superseded \cup ((Current(rows) \ Current(table)) \ {None})
        /\ handlers' = [handlers EXCEPT ![h] =
            [stage |-> IF r.op \in Writes THEN "committed" ELSE "reading",
             request |-> r, now |-> now, revision |-> revision,
             live |-> LiveUntil(control, now), publication |-> publication,
             target |-> m, body |-> None]]
        /\ UNCHANGED <<cache, delayed>>

Admissible(h, r, now) ==
    /\ handlers[h] = None
    /\ Verified(r, now) /\ scope.lastNow <= now
    /\ scope.revision < MaxRevision
    /\ MemberRoom(r.member, now)

Authorize(h, r, now) ==
    LET control == ControlOf(r.member, now)
    IN  /\ Admissible(h, r, now)
        /\ ~Exact(control, r) /\ Acceptable(control, r, now)
        /\ Commit(h, r, now, Change(control, r, now), r.publication)
        /\ charges' = charges \cup
            {[kind |-> k, request |-> r, at |-> now] : k \in Debits(control, r)}
        /\ leased' = IF r.op \in Writes
                     THEN [leased EXCEPT ![r.member][r.device] = [request |-> r, at |-> now]]
                     ELSE leased

(* An exact write retry is free, and carries its publication again only if *)
(* that is still the current one.                                          *)
AuthorizeRetry(h, r, now) ==
    LET control == ControlOf(r.member, now)
    IN  /\ Admissible(h, r, now)
        /\ Exact(control, r)
        /\ Commit(h, r, now, control,
                  IF r.publication = control.publication THEN r.publication ELSE None)
        /\ UNCHANGED <<charges, leased>>
-----------------------------------------------------------------------------
(* The cache *)

(* The COMMIT script: the body is set or kept, the index follows the row,  *)
(* and a member who is not live leaves both.                               *)
Committed(entry, script) ==
    LET body == IF script.publication # None THEN script.publication ELSE entry.body
    IN  IF script.live <= script.now THEN NotCached
        ELSE [body |-> body, live |-> IF body = None THEN 0 ELSE script.live]

Script(h) ==
    [member |-> handlers[h].request.member, live |-> handlers[h].live,
     now |-> handlers[h].now, publication |-> handlers[h].publication]
Run(script) == cache' = [cache EXCEPT ![script.member] = Committed(@, script)]

(* with_current: the row is still at the revision of this intent. *)
RowCurrent(h) ==
    LET row == rows[handlers[h].request.member]
    IN  row # None /\ row.revision = handlers[h].revision

Mutate(h) ==
    /\ handlers[h] # None /\ handlers[h].stage = "committed"
    /\ RowCurrent(h)

Apply(h) ==
    /\ Mutate(h)
    /\ Run(Script(h))
    /\ handlers' = [handlers EXCEPT ![h] = None]
    /\ UNCHANGED <<scope, rows, delayed, history>>

(* No answer within io_timeout: the transaction ends, the script may not have. *)
TimeOut(h) ==
    /\ Late /\ delayed = {}    \* one at a time, for TLC
    /\ Mutate(h)
    /\ delayed' = {Script(h)}
    /\ handlers' = [handlers EXCEPT ![h] = None]
    /\ UNCHANGED <<scope, rows, cache, history>>

RunLate(script) ==
    /\ script \in delayed
    /\ Run(script)
    /\ delayed' = delayed \ {script}
    /\ UNCHANGED <<scope, rows, handlers, history>>

(* Expiry and eviction, of the body or of the index. *)
Evict(m) ==
    /\ cache' \in {[cache EXCEPT ![m].body = None], [cache EXCEPT ![m].live = 0]}
    /\ cache' # cache
    /\ UNCHANGED <<scope, rows, handlers, delayed, history>>
-----------------------------------------------------------------------------
(* Reads *)

Reading(h, stage) == handlers[h] # None /\ handlers[h].stage = stage
Found(h, m) == cache[m].live > handlers[h].now /\ cache[m].body # None

(* The FETCH script, for the target of a fetch or a candidate of a query. *)
Fetch(h, m) ==
    /\ Reading(h, "reading") /\ Found(h, m)
    /\ handlers' = [handlers EXCEPT ![h].stage = "fetched", ![h].target = m,
                                    ![h].body = cache[m].body]
    /\ UNCHANGED <<scope, rows, cache, delayed, history>>

AnyBody(control, body) == TRUE
Vouched(control, body) == control.publication = body

(* `current' at the handler's time, and the two conditions of `fetch'. *)
Vouches(h) ==
    LET row == rows[handlers[h].target]
        now == handlers[h].now
    IN  /\ scope.lastNow <= now
        /\ row # None /\ row.control.retainUntil > now
        /\ Vouched(row.control, handlers[h].body)
        /\ LiveUntil(row.control, now) > now

Serve(h) ==
    /\ Reading(h, "fetched") /\ Vouches(h)
    /\ handlers' = [handlers EXCEPT ![h].stage = "served"]
    /\ UNCHANGED <<scope, rows, cache, delayed, history>>

(* A query goes on to its next candidate, whatever became of this one. *)
Continue(h) ==
    /\ Reading(h, "fetched") \/ Reading(h, "served")
    /\ handlers[h].request.op = "query"
    /\ handlers' = [handlers EXCEPT ![h].stage = "reading", ![h].body = None]
    /\ UNCHANGED <<scope, rows, cache, delayed, history>>

(* A query drops from the index a candidate that is still not found. *)
CleanUp(h, m) ==
    /\ Reading(h, "reading") /\ handlers[h].request.op = "query"
    /\ cache[m].live > 0 /\ ~Found(h, m)
    /\ cache' = [cache EXCEPT ![m].live = 0]
    /\ UNCHANGED <<scope, rows, handlers, delayed, history>>

(* The handler answers, fails, is fenced off, or stops. *)
Finish(h) ==
    /\ handlers[h] # None
    /\ handlers' = [handlers EXCEPT ![h] = None]
    /\ UNCHANGED <<scope, rows, cache, delayed, history>>
-----------------------------------------------------------------------------
Next ==
    \/ \E h \in Handlers :
        \/ \E r \in Requests, now \in Times : Authorize(h, r, now) \/ AuthorizeRetry(h, r, now)
        \/ Apply(h) \/ TimeOut(h) \/ Serve(h) \/ Continue(h) \/ Finish(h)
        \/ \E m \in Members : Fetch(h, m) \/ CleanUp(h, m)
    \/ \E script \in delayed : RunLate(script)
    \/ \E m \in Members : Evict(m)

Spec == Init /\ [][Next]_vars
-----------------------------------------------------------------------------
(* No reader is given a publication the owner has replaced: not out of a   *)
(* cache that an older write reached last, not because the row that knew   *)
(* better has expired and the old publication is submitted again.          *)
SupersededNeverServed ==
    [][\A h \in Handlers :
        Reading(h, "fetched") /\ handlers'[h] # None /\ handlers'[h].stage = "served"
            => handlers[h].body \notin superseded]_vars

(* A heartbeat or publication signed before a device's last accepted lease *)
(* change, such as its disconnect, does not follow it: whatever is late,   *)
(* and whatever has been pruned since.                                     *)
OldLeaseNeverReturns ==
    [][\A m \in Members, d \in Devices :
        leased[m][d] # None /\ leased'[m][d] # leased[m][d] =>
            \/ leased'[m][d].request.issued > leased[m][d].at
            \/ leased'[m][d].request.sequence > leased[m][d].request.sequence]_vars

(* Retries, repairs, other devices and rows that expire get no member past *)
(* a quota in one of its windows, and a publication is paid for once.      *)
QuotaKept ==
    /\ \A c \in charges :
        Cardinality({e \in charges :
            /\ e.kind = c.kind /\ e.request.member = c.request.member
            /\ WindowStart(e.kind, e.at) = WindowStart(c.kind, c.at)}) <= limits.quota[c.kind]
    /\ \A c, e \in charges :
        c.kind = "publish" /\ e.kind = "publish"
            /\ c.request.publication = e.request.publication => c = e

(* A superseded intent does not overwrite a newer publication in the cache. *)
SupersededCannotOverwrite ==
    [][\A m \in Members :
        cache[m].body # None /\ cache'[m].body # cache[m].body
            => cache'[m].body \notin superseded]_vars

(* The one step that does is that of a script its caller gave up: the row's *)
(* revision fences off every other, also after the row expired and was     *)
(* created again (discovery_control.rs:429-434, 511-534).                  *)
SupersededOnlyLate ==
    [][\A m \in Members :
        cache[m].body # None /\ cache'[m].body # cache[m].body
            /\ cache'[m].body \in superseded => delayed' # delayed]_vars
=============================================================================
