----------------------------- MODULE Allocation -----------------------------
(***************************************************************************)
(* Allowances and blind issuance of introduction permits: the allocation   *)
(* ledger (src/allocation.rs) with the permit issuer that signs inside its *)
(* transaction (PermitIssuer::issue in src/permit_issuer.rs).              *)
(*                                                                         *)
(* A call is one IMMEDIATE transaction, so one step: it reads the clock    *)
(* under the lock (`now') and again after the signing operation (`done').  *)
(* Clock readings are arbitrary; the durable floor orders them.  The       *)
(* answer may be lost after the commit, and the caller, or anyone holding  *)
(* the request, may send it again.  A refused call is no step.             *)
(*                                                                         *)
(* Admission, signatures and the digest of a request (it is the request)   *)
(* are abstracted.  A grant or device authorization that ends before the   *)
(* request does is refused, so none of their dates appear.  A blind        *)
(* signature is named by its key and the message it was asked for.         *)
(***************************************************************************)
EXTENDS Integers, FiniteSets

CONSTANTS
    Members, Nonces, Messages, Contexts, Keys,
    Requests,           \* the signed requests that may be sent
    Epochs,             \* the epochs whose issuers share this ledger
    Readings,           \* what the operator's clock may show
    initialCredits, periodicCredits, periodSeconds, creditCap,
    maxAuthorization,   \* max_authorization_seconds
    NoMember, Empty

Period(time) == time \div periodSeconds
Periods == {Period(time) : time \in Readings}

Request == [member : Members, nonce : Nonces, context : Contexts, message : Messages,
            issuedAt : Readings, expiresAt : Nat]
Epoch == [context : Contexts, key : Keys, validFrom : Nat, issueUntil : Nat]
Signature == [key : Keys, message : Messages]
ASSUME AllocationPolicy ==
    /\ initialCredits \in Nat /\ periodicCredits \in Nat /\ creditCap \in Nat
    /\ initialCredits <= creditCap /\ periodicCredits <= creditCap
    /\ periodSeconds \in Nat \ {0} /\ maxAuthorization \in Nat \ {0}
    /\ Readings \subseteq Nat \ {0}
ASSUME RequestShape ==
    /\ Requests \subseteq Request /\ \A r \in Requests : r.issuedAt < r.expiresAt
    /\ Epochs \subseteq Epoch /\ \A e, f \in Epochs : e.context = f.context => e = f

ASSUME NoMemberIsNoRow == NoMember \notin [credits : Nat, lastPeriod : Nat]

VARIABLES
    clockFloor,     \* clock_floor of cfrm_allocation_config
    members,        \* cfrm_allocation_members: credits left and when last computed
    reservations,   \* cfrm_allocation_reservations with their _responses
    epochKeys,      \* cfrm_permit_epochs
    debits,         \* history: in which period each reservation was made
    released        \* history: the answers with a signature that left the operator

allocationVars == <<clockFloor, members, reservations, epochKeys, debits, released>>

AllocationInit ==
    /\ clockFloor = 0
    /\ members = [m \in Members |-> NoMember]
    /\ reservations = {} /\ epochKeys = {}
    /\ debits = {} /\ released = {}
-----------------------------------------------------------------------------
Timely(r, now) ==
    /\ r.expiresAt - r.issuedAt <= maxAuthorization
    /\ r.issuedAt <= now /\ now < r.expiresAt

(* The row of the request's member and nonce. *)
SameRequestOnly(r) == {v \in reservations : v.request = r}
PriorOf(r) ==
    {v \in reservations : v.request.member = r.member /\ v.request.nonce = r.nonce}

(* What a member may draw on: periods that passed add credits up to the cap. *)
Accrued(m, now) ==
    members[m].credits + (Period(now) - members[m].lastPeriod) * periodicCredits
UncappedCredits(m, now) == IF members[m] = NoMember THEN initialCredits ELSE Accrued(m, now)
CreditsAt(m, now) ==
    IF members[m] = NoMember THEN initialCredits
    ELSE IF Accrued(m, now) < creditCap THEN Accrued(m, now) ELSE creditCap

Allowed(m, now) == CreditsAt(m, now) >= 1

(* issue_with for a new request: debit, reservation and response in one.   *)
Debit(r, now, done, response) ==
    LET left == CreditsAt(r.member, now) - 1
    IN  /\ Timely(r, now) /\ now >= clockFloor
        /\ PriorOf(r) = {}
        /\ Allowed(r.member, now)
        /\ now <= done /\ done < r.expiresAt
        /\ members' = [members EXCEPT ![r.member] = [credits |-> left, lastPeriod |-> Period(now)]]
        /\ reservations' = reservations \cup
               {[request |-> r, remaining |-> left, response |-> response]}
        /\ debits' = debits \cup
               {[member |-> r.member, nonce |-> r.nonce, period |-> Period(now)]}
        /\ clockFloor' = done

(* issue_with for an exact retry: the stored response, no debit. *)
Recovered(r, now, response) ==
    /\ Timely(r, now) /\ now >= clockFloor
    /\ \E v \in PriorOf(r) : v.request = r /\ v.response = response
    /\ clockFloor' = now
    /\ UNCHANGED <<members, reservations, epochKeys, debits>>

(* A generic reservation, which returns no response. *)
Reserve(r, now, done) ==
    /\ Debit(r, now, done, Empty)
    /\ UNCHANGED <<epochKeys, released>>

RetryReserve(r, now) ==
    /\ \E response \in Signature \cup {Empty} : Recovered(r, now, response)
    /\ UNCHANGED released
-----------------------------------------------------------------------------
(* What issue checks of the epoch and the request's envelope. *)
ForEpoch(e, r) ==
    /\ r.context = e.context
    /\ r.issuedAt >= e.validFrom /\ r.expiresAt <= e.issueUntil

(* A signing key serves one epoch only, whichever issuer comes second.     *)
KeyUsable(e) == \A k \in epochKeys : k.key = e.key => k.context = e.context

Signed(e, r) == [key |-> e.key, message |-> r.message]

(* The answer is delivered, or lost after the commit. *)
Answered(e, r, signature) ==
    released' \in {released, released \cup {[request |-> r, context |-> e.context,
                                             signature |-> signature]}}

Issue(e, r, now, done) ==
    /\ ForEpoch(e, r)
    /\ e.validFrom <= now /\ now < e.issueUntil
    /\ KeyUsable(e)
    /\ Debit(r, now, done, Signed(e, r))
    /\ epochKeys' = epochKeys \cup {[context |-> e.context, key |-> e.key]}
    /\ Answered(e, r, Signed(e, r))

(* A reservation made without a signature is never signed later.           *)
RetryIssue(e, r, now) ==
    /\ ForEpoch(e, r)
    /\ \E signature \in Signature :
        Recovered(r, now, signature) /\ Answered(e, r, signature)

AllocationNext ==
    \E r \in Requests, now \in Readings :
        \/ \E done \in Readings : Reserve(r, now, done)
        \/ RetryReserve(r, now)
        \/ \E e \in Epochs :
            \/ \E done \in Readings : Issue(e, r, now, done)
            \/ RetryIssue(e, r, now)

AllocationSpec == AllocationInit /\ [][AllocationNext]_allocationVars
-----------------------------------------------------------------------------
(* No burst, idle time, retry or clock gives a member more than its        *)
(* allowance: over any span of periods at most the cap and what the later  *)
(* periods add, and from the first on, at most what it started with.       *)
GrantedIn(m, from, to) ==
    Cardinality({g \in debits : g.member = m /\ from <= g.period /\ g.period <= to})
AllowanceKept ==
    \A m \in Members : \A from, to \in Periods : from <= to =>
        /\ GrantedIn(m, from, to) <= creditCap + periodicCredits * (to - from)
        /\ GrantedIn(m, 0, from - 1) = 0
               => GrantedIn(m, from, to) <= initialCredits + periodicCredits * (to - from)

(* Every signature that leaves the operator has been paid for, by the      *)
(* reservation of the same nonce and for the same message; a nonce yields  *)
(* one signature and is charged once, however often and wherever it is     *)
(* retried: a second charge would leave less in the period, or be made in  *)
(* another one.                                                            *)
PaidSignatures ==
    /\ \A x \in released : \E v \in PriorOf(x.request) :
        /\ v.request = x.request /\ v.response = x.signature
        /\ \E g \in debits : g.member = x.request.member /\ g.nonce = x.request.nonce
    /\ \A x, y \in released :
        x.request.member = y.request.member /\ x.request.nonce = y.request.nonce => x = y
    /\ \A v, w \in reservations :
        v.request.member = w.request.member /\ v.request.nonce = w.request.nonce => v = w
    /\ \A g, k \in debits : g.member = k.member /\ g.nonce = k.nonce => g = k

=============================================================================
