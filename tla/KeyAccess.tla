------------------------------ MODULE KeyAccess ------------------------------
(***************************************************************************)
(* Issuing the blind resource tickets of the profile key service           *)
(* (KeyAccessIssuer in src/key_access.rs).  Tickets are spent in the       *)
(* store Redemption models.                                                *)
(*                                                                         *)
(* All replicas, and all epochs, share one database.  A replica opens an   *)
(* epoch under a quota policy it was configured with and may then issue    *)
(* for as long as it lives; closing one only removes behaviour, so an open *)
(* issuer is never removed here.  Each call is one IMMEDIATE transaction,  *)
(* reading the clock under the lock (`now') and before the commit          *)
(* (`done').  The answer may be lost, and requests may be sent again.      *)
(* Admission and signatures are abstracted as in Allocation.               *)
(***************************************************************************)
EXTENDS Integers, FiniteSets

CONSTANTS
    Members, Ids, Contexts, Keys, Messages,
    Requests,       \* the signed requests that may be sent
    Epochs, Policies, Times

Request == [member : Members, id : Ids, context : Contexts, message : Messages,
            issuedAt : Times, expiresAt : Nat]
Epoch == [context : Contexts, key : Keys, validFrom : Nat, issueUntil : Nat, expiresAt : Nat]
Policy == [perMember : Nat \ {0}, members : Nat \ {0}, maxAuthorization : Nat \ {0}]

(* Assumed wherever the module is instantiated. *)
KeyAccessConstants ==
    /\ Requests \subseteq Request /\ \A r \in Requests : r.issuedAt < r.expiresAt
    /\ Epochs \subseteq Epoch /\ \A e, f \in Epochs : e.context = f.context => e = f
    /\ \A e \in Epochs : e.validFrom < e.issueUntil /\ e.issueUntil <= e.expiresAt
    /\ Policies \subseteq Policy
    /\ Times \subseteq Nat \ {0}

VARIABLES
    floor,      \* cfrm_key_access_clock
    registry,   \* cfrm_permit_epochs: the one epoch each key is for
    configs,    \* cfrm_key_access_config: the policy each epoch was opened with
    issued,     \* cfrm_key_access_members: context -> member -> tickets issued
    issues,     \* cfrm_key_access_issues: the answered requests, for retries
    opened,     \* the issuers the replicas run
    signed      \* history: every signature made, under which key and policy

vars == <<floor, registry, configs, issued, issues, opened, signed>>

Init ==
    /\ floor = 0
    /\ registry = {} /\ configs = {}
    /\ issued = [c \in Contexts |-> [m \in Members |-> 0]]
    /\ issues = {} /\ opened = {} /\ signed = {}
-----------------------------------------------------------------------------
AnyKey(e) == TRUE
KeyFree(e) == \A k \in registry : k.key = e.key => k.context = e.context

AnyPolicy(e, p) == TRUE
PolicyPinned(e, p) == \A c \in configs : c.context = e.context => c.policy = p

(* with_connection *)
Open(e, p) ==
    /\ KeyFree(e) /\ PolicyPinned(e, p)
    /\ registry' = registry \cup {[context |-> e.context, key |-> e.key]}
    /\ configs' = configs \cup {[context |-> e.context, policy |-> p]}
    /\ opened' = opened \cup {[epoch |-> e, policy |-> p]}
    /\ UNCHANGED <<floor, issued, issues, signed>>

(* Redemption time, which is also when a stored answer may be recovered. *)
CheckTime(e, now) == e.validFrom <= now /\ now < e.expiresAt

(* A new ticket also needs the epoch's issuing time and the request's own. *)
Fresh(h, r, now) ==
    /\ now < h.epoch.issueUntil
    /\ r.issuedAt >= h.epoch.validFrom /\ r.issuedAt <= now
    /\ r.expiresAt > now /\ r.expiresAt <= h.epoch.issueUntil
    /\ r.expiresAt - r.issuedAt <= h.policy.maxAuthorization

(* The member has tickets left, or there is room for one more member. *)
Counted(c) == {m \in Members : issued[c][m] > 0}
Room(h, m) ==
    LET c == h.epoch.context
    IN  IF issued[c][m] > 0 THEN issued[c][m] < h.policy.perMember
        ELSE Cardinality(Counted(c)) < h.policy.members

PriorOf(r) ==
    {q \in issues : q.context = r.context /\ q.member = r.member /\ q.id = r.id}

Issue(h, r, now, done) ==
    LET c == h.epoch.context
    IN  /\ r.context = c
        /\ floor <= now /\ now <= done
        /\ CheckTime(h.epoch, now) /\ CheckTime(h.epoch, done)
        /\ PriorOf(r) = {}
        /\ Fresh(h, r, now) /\ done < h.epoch.issueUntil /\ done < r.expiresAt
        /\ Room(h, r.member)
        /\ issued' = [issued EXCEPT ![c][r.member] = @ + 1]
        /\ issues' = issues \cup {r}
        /\ signed' = signed \cup {[request |-> r, key |-> h.epoch.key, policy |-> h.policy]}
        /\ floor' = done
        /\ UNCHANGED <<registry, configs, opened>>

(* The exact request recovers its signature, even after it has expired. *)
Retry(h, r, now, done) ==
    /\ r.context = h.epoch.context
    /\ floor <= now /\ now <= done
    /\ CheckTime(h.epoch, now) /\ CheckTime(h.epoch, done)
    /\ r \in PriorOf(r)
    /\ floor' = done
    /\ UNCHANGED <<registry, configs, issued, issues, opened, signed>>

(* prune_expired: quotas and answers of the epochs that ended go, and so   *)
(* does their configuration; the keys stay taken and the floor advances.   *)
PrunableOnceIssued(now) ==
    {k.context : k \in {c \in configs : \E e \in Epochs : e.context = c.context /\ e.issueUntil <= now}}
Prunable(now) ==
    {k.context : k \in {c \in configs : \E e \in Epochs : e.context = c.context /\ e.expiresAt <= now}}

ResetCounters(gone) ==
    [c \in Contexts |-> [m \in Members |-> IF c \in gone THEN 0 ELSE issued[c][m]]]

Prune(now) ==
    /\ now >= floor
    /\ issued' = ResetCounters(Prunable(now))
    /\ issues' = {r \in issues : r.context \notin Prunable(now)}
    /\ configs' = {c \in configs : c.context \notin Prunable(now)}
    /\ floor' = now
    /\ UNCHANGED <<registry, opened, signed>>

Next ==
    \/ \E e \in Epochs, p \in Policies : Open(e, p)
    \/ \E now \in Times :
        \/ Prune(now)
        \/ \E h \in opened, r \in Requests, done \in Times :
            Issue(h, r, now, done) \/ Retry(h, r, now, done)

Spec == Init /\ [][Next]_vars
-----------------------------------------------------------------------------
(* An epoch's tickets stay within one quota: whatever replicas run, are    *)
(* restarted with another policy, retry or prune, only one policy ever     *)
(* issues in an epoch, and neither a member nor all of them exceed it.     *)
SignedIn(c) == {s \in signed : s.request.context = c}
QuotaKept ==
    \A c \in Contexts : \A s \in SignedIn(c) :
        /\ \A t \in SignedIn(c) : t.policy = s.policy
        /\ Cardinality({t.request.member : t \in SignedIn(c)}) <= s.policy.members
        /\ \A m \in Members :
            Cardinality({t \in SignedIn(c) : t.request.member = m}) <= s.policy.perMember

(* A request identifier is signed for one request, and what was signed can *)
(* be recovered until the epoch is over for good.                          *)
Recoverable ==
    \A s \in signed :
        \/ s.request \in issues /\ PriorOf(s.request) = {s.request}
        \/ \E e \in Epochs : e.context = s.request.context /\ floor >= e.expiresAt

(* No key ever signs for two epochs, also after the first was pruned.      *)
OneEpochPerKey ==
    \A s, t \in signed : s.key = t.key => s.request.context = t.request.context
=============================================================================
