-------------------------- MODULE AnonymousPermits --------------------------
(***************************************************************************)
(* The blind permit prototype (experiments/anonymous-permits/permits.js):  *)
(* an issuer signs blinded requests against a fixed allocation, a ledger   *)
(* accepts each permit for one claim, and both forget an epoch once it is  *)
(* pruned.  Issuers and verifiers are several processes on one SQLite      *)
(* ledger; each awaits its cryptography between its checks and its         *)
(* transaction, any process may stop, and each reads a clock that may step *)
(* back, so a call may see any time.                                       *)
(*                                                                         *)
(* A permit is named by its epoch and the blinded request it came from.    *)
(* The contexts table is left out: a row is there with the rows that refer *)
(* to it, which go with it.                                                *)
(***************************************************************************)
EXTENDS Integers, FiniteSets

CONSTANTS
    Epochs,         \* [name, notBefore, expiresAt], one key each
    Allocations,    \* names of allocations
    Quotas,         \* what the numerical rules may grant
    Blindings,      \* blinded requests
    Claims,         \* claims; NoClaim redeems without one
    NoClaim,
    PermitTimes,    \* what a clock may read
    MaxHandlers     \* bound on calls under way

(* Assumed wherever the module is instantiated. *)
PermitConstants ==
    /\ Quotas # {} /\ Quotas \subseteq Nat /\ PermitTimes \subseteq Nat
    /\ \A e \in Epochs : e.expiresAt \in Nat

VARIABLES
    through,        \* retirement: epochs that ended by then stay retired
    allocations,    \* [epoch, id, quota, issued]
    issuances,      \* [epoch, id, request]
    spent,          \* spends, [epoch, request, claim]
    issuing,        \* requests being signed, as issuances
    redeeming,      \* redemptions being verified, as spends
    granted,        \* every issuance answered so far
    accepted        \* every acceptance: [epoch, request, claim, nth]

permitVars == <<through, allocations, issuances, spent, issuing, redeeming, granted, accepted>>

Init ==
    /\ through = 0 /\ allocations = {} /\ issuances = {} /\ spent = {}
    /\ issuing = {} /\ redeeming = {} /\ granted = {} /\ accepted = {}
-----------------------------------------------------------------------------
Active(e, t) == e.notBefore <= t /\ t < e.expiresAt
NeverRetired(e) == FALSE
Retired(e) == e.expiresAt <= through

(* contextInfo, of the catalog's epochs. *)
ContextInfo(e) == e.notBefore < e.expiresAt

Allocate(e, id, quota, t) ==
    /\ ContextInfo(e) /\ Active(e, t) /\ ~ Retired(e)
    /\ ~ \E a \in allocations : a.epoch = e /\ a.id = id
    /\ allocations' = allocations \cup {[epoch |-> e, id |-> id, quota |-> quota, issued |-> 0]}
    /\ UNCHANGED <<through, issuances, spent, issuing, redeeming, granted, accepted>>

HasAllowance(e, id) == \E a \in allocations : a.epoch = e /\ a.id = id /\ a.issued < a.quota

(* issue: a request answered before gets its old answer at once. *)
BeginIssue(i, t) ==
    /\ Cardinality(issuing) < MaxHandlers
    /\ Active(i.epoch, t) /\ i \notin issuances /\ HasAllowance(i.epoch, i.id)
    /\ issuing' = issuing \cup {i}
    /\ UNCHANGED <<through, allocations, issuances, spent, redeeming, granted, accepted>>

AllowanceSeen(i) == \E a \in allocations : a.epoch = i.epoch /\ a.id = i.id
AllowanceLeft(i) == HasAllowance(i.epoch, i.id)
Charge(i) == {IF a.epoch = i.epoch /\ a.id = i.id THEN [a EXCEPT !.issued = @ + 1] ELSE a :
              a \in allocations}

Issue(i, t) ==
    /\ Active(i.epoch, t)
    /\ \/ i \in issuances /\ UNCHANGED <<allocations, issuances>>
       \/ /\ i \notin issuances /\ ~ Retired(i.epoch) /\ AllowanceLeft(i)
          /\ allocations' = Charge(i) /\ issuances' = issuances \cup {i}
    /\ granted' = granted \cup {i}
    /\ issuing' \in {issuing, issuing \ {i}}     \* more calls for it may be under way
    /\ UNCHANGED <<through, spent, redeeming, accepted>>

BeginRedeem(g, claim, t) ==
    /\ Cardinality(redeeming) < MaxHandlers /\ Active(g.epoch, t)
    /\ redeeming' = redeeming \cup {[epoch |-> g.epoch, request |-> g.request, claim |-> claim]}
    /\ UNCHANGED <<through, allocations, issuances, spent, issuing, granted, accepted>>

Prior(r) == {s \in spent : s.epoch = r.epoch /\ s.request = r.request}
Unspent(r) == Prior(r) = {}
SameClaim(r) == Prior(r) = {r} /\ r.claim # NoClaim
Acceptances(r) == {a \in accepted : a.epoch = r.epoch /\ a.request = r.request}
(* Repeating a claim is one acceptance; without a claim each counts.       *)
Accept(r) ==
    accepted' = accepted \cup {[epoch |-> r.epoch, request |-> r.request, claim |-> r.claim,
        nth |-> IF r.claim = NoClaim THEN Cardinality(Acceptances(r)) ELSE 0]}

Spend(r, t) ==
    /\ Active(r.epoch, t) /\ ~ Retired(r.epoch)
    /\ \/ Unspent(r) /\ spent' = spent \cup {r}
       \/ SameClaim(r) /\ UNCHANGED spent
    /\ Accept(r) /\ redeeming' = redeeming \ {r}
    /\ UNCHANGED <<through, allocations, issuances, issuing, granted>>

(* A call that is rejected, or whose process stops. *)
DropIssue(i) ==
    /\ issuing' = issuing \ {i}
    /\ UNCHANGED <<through, allocations, issuances, spent, redeeming, granted, accepted>>
DropRedeem(r) ==
    /\ redeeming' = redeeming \ {r}
    /\ UNCHANGED <<through, allocations, issuances, spent, issuing, granted, accepted>>

(* prune: one durable scalar outlives the rows. *)
Kept(rows, t) == {x \in rows : x.epoch.expiresAt > t}
PruneAt(t) ==
    /\ through' = IF t > through THEN t ELSE through
    /\ allocations' = Kept(allocations, t) /\ issuances' = Kept(issuances, t)
    /\ spent' = Kept(spent, t)
    /\ UNCHANGED <<issuing, redeeming, granted, accepted>>

Requested == [epoch : Epochs, id : Allocations, request : Blindings]
Next ==
    \/ \E t \in PermitTimes :
        \/ PruneAt(t)
        \/ \E e \in Epochs, id \in Allocations, q \in Quotas : Allocate(e, id, q, t)
        \/ \E i \in Requested : BeginIssue(i, t)
        \/ \E i \in issuing : Issue(i, t)
        \/ \E g \in granted, claim \in Claims \cup {NoClaim} : BeginRedeem(g, claim, t)
        \/ \E r \in redeeming : Spend(r, t)
    \/ \E i \in issuing : DropIssue(i)
    \/ \E r \in redeeming : DropRedeem(r)

Spec == Init /\ [][Next]_permitVars
-----------------------------------------------------------------------------
(* A permit is accepted for one claim, and without a claim once, although  *)
(* the spends are pruned and the clock steps back (permits.js:126-146).    *)
PermitOnce ==
    \A a, b \in accepted : a.epoch = b.epoch /\ a.request = b.request => a = b

(* No allocation is ever signed more requests than the largest quota, over *)
(* concurrent issuers, pruning and clocks that step back                   *)
(* (permits.js:113-125).                                                   *)
QuotaHolds == \A e \in Epochs, id \in Allocations :
    \E q \in Quotas : Cardinality({i \in granted : i.epoch = e /\ i.id = id}) <= q
=============================================================================
