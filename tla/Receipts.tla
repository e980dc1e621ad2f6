------------------------------ MODULE Receipts ------------------------------
(***************************************************************************)
(* The prototype of directional receipts                                   *)
(* (experiments/directional-receipts/receipts.js): a recipient proves in   *)
(* zero knowledge that it is qualified, so that the service signs, blind,  *)
(* a receipt its sender asked for; the recipient redeems it apart.         *)
(*                                                                         *)
(* Services of several cohorts and processes share one ledger.  Issuing    *)
(* checks, awaits a verifier and the signer, and commits in a transaction  *)
(* that checks again.  A commit's answer may be lost, a process may stop,  *)
(* and any caller's clock may show any time: only the durable floor orders *)
(* them.                                                                   *)
(*                                                                         *)
(* Who signs a receipt knows the request, and not what was blinded; a      *)
(* receipt is a key's signature of [domain, member, serial].  A prover has *)
(* one nullifier for each sender.  `from' and `until' bound the request's  *)
(* authorization, grant and checkpoint.                                    *)
(***************************************************************************)
EXTENDS Naturals, FiniteSets

CONSTANTS
    Members,
    Cohorts,
    Services,       \* configurations, [cohort, key, notBefore, issueUntil, redeemUntil,
                    \*   maxSend, maxReceive]
    Requests,       \* [cohort, sender, nonce, prover, blinded, from, until]
    Redemptions,    \* [blinded, from, until]: how a receipt may be redeemed
    IssueHandlers,
    ReceiptTimes,
    Idle

(* Assumed wherever the module is instantiated. *)
ReceiptConstants ==
    /\ ReceiptTimes \subseteq Nat
    /\ \A s \in Services : /\ s.cohort \in Cohorts /\ s.redeemUntil \in Nat
                           /\ s.maxSend \in Nat /\ s.maxReceive \in Nat
    /\ \A r \in Requests : r.sender \in Members
    /\ \A d \in Redemptions : d.blinded.member \in Members

VARIABLES
    receiptFloor,   \* directional_clock
    keys,           \* directional_keys: configurations, which survive their cohort
    cohorts,        \* directional_cohorts, whose removal cascades
    sent, received,         \* directional_counters, by cohort and member
    authorizations,         \* directional_authorizations, by sender and nonce
    nullifiers,     \* directional_nullifiers, for ever
    spends,         \* directional_spends: [cohort, receipt]
    issuing,        \* requests the processes have under way
    signed          \* signatures that left: [key, blinded, sender, prover]

ledger == <<keys, cohorts, sent, received, authorizations, nullifiers, spends>>
receiptVars == <<receiptFloor, ledger, issuing, signed>>

Init ==
    /\ receiptFloor = 0 /\ keys = {} /\ cohorts = {}
    /\ sent = [c \in Cohorts |-> [m \in Members |-> 0]]
    /\ received = [c \in Cohorts |-> [m \in Members |-> 0]]
    /\ authorizations = {} /\ nullifiers = {} /\ spends = {}
    /\ issuing = [h \in IssueHandlers |-> Idle]
    /\ signed = {}
-----------------------------------------------------------------------------
(* time: a transaction that fails has still observed the clock. *)
Observes(now) == now >= receiptFloor /\ receiptFloor' = now

RecoveryActive(s, now) == s.notBefore <= now /\ now < s.redeemUntil

(* register: "old signing interactions must never become valid tokens      *)
(* under a future context that reuses the key".                            *)
KeyUnchecked(s) == TRUE
KeyFree(s) == \A k \in keys : k.key = s.key \/ k.cohort = s.cohort => k = s

RegisterKey(s) ==
    /\ KeyFree(s)
    /\ keys' = keys \cup {s}
    /\ cohorts' = IF s.redeemUntil > receiptFloor THEN cohorts \cup {s.cohort} ELSE cohorts

(* cohortInfo, and the bounds a service is created with. *)
CohortInfo(s) ==
    /\ 0 < s.notBefore /\ s.notBefore < s.issueUntil /\ s.issueUntil < s.redeemUntil
    /\ s.maxSend > 0 /\ s.maxReceive > 0

Register(s) ==
    /\ CohortInfo(s) /\ RegisterKey(s)
    /\ UNCHANGED <<receiptFloor, sent, received, authorizations, nullifiers, spends,
                   issuing, signed>>

(* recover: the answer of this very request; its nonce with another fails. *)
SameNonce(r) == {q \in authorizations : q.sender = r.sender /\ q.nonce = r.nonce}
Recovered(r) == r \in SameNonce(r)

Current(x, now) == x.from <= now /\ now < x.until

NullifierUnused(r) == <<r.sender, r.prover>> \notin nullifiers
NewIssueAllowed(s, r, now) ==
    /\ now < s.issueUntil /\ Current(r, now)
    /\ sent[s.cohort][r.sender] < s.maxSend
    /\ NullifierUnused(r)

(* What leaves is the blind signature with its sender's statement. *)
Signature(s, r) ==
    [key |-> s.key, blinded |-> r.blinded, sender |-> r.sender, prover |-> r.prover]

(* The authorization and the grant are the cohort's own. *)
AuthorizationShape(s, r) == s.cohort = r.cohort /\ r.from < r.until

(* authorizeAndAcknowledge, of a request that was committed before. *)
Recover(s, r, now) ==
    /\ AuthorizationShape(s, r) /\ Observes(now)
    /\ RecoveryActive(s, now) /\ Recovered(r)
    /\ signed' = signed \cup {Signature(s, r)}
    /\ UNCHANGED <<ledger, issuing>>

PreflightIssue(s, r, now) ==
    /\ Observes(now)
    /\ RecoveryActive(s, now) /\ SameNonce(r) = {}
    /\ NewIssueAllowed(s, r, now)

(* The prover is in the checkpoint without the sender; then the preflight, *)
(* before the verifier and the signer are awaited.                         *)
Preflight(h, s, r, now) ==
    /\ AuthorizationShape(s, r) /\ issuing[h] = Idle
    /\ r.prover # r.sender
    /\ PreflightIssue(s, r, now)
    /\ issuing' = [issuing EXCEPT ![h] = [service |-> s, request |-> r]]
    /\ UNCHANGED <<ledger, signed>>

(* issue: the answer leaves only with the commit, and may be lost. *)
CheckedBefore(s, r, now) == TRUE
CheckedAgain(s, r, now) == NewIssueAllowed(s, r, now)
Issue(h, now) ==
    /\ issuing[h] # Idle
    /\ LET s == issuing[h].service
           r == issuing[h].request
       IN  /\ Observes(now) /\ RecoveryActive(s, now)
           /\ IF SameNonce(r) # {}
              THEN Recovered(r) /\ UNCHANGED ledger
              ELSE /\ CheckedAgain(s, r, now) /\ s.cohort \in cohorts
                   /\ authorizations' = authorizations \cup {r}
                   /\ nullifiers' = nullifiers \cup {<<r.sender, r.prover>>}
                   /\ sent' = [sent EXCEPT ![s.cohort][r.sender] = @ + 1]
                   /\ UNCHANGED <<keys, cohorts, received, spends>>
           /\ signed' \in {signed, signed \cup {Signature(s, r)}}
    /\ issuing' = [issuing EXCEPT ![h] = Idle]

(* A verifier refuses, the commit fails, or the process stops. *)
IssueFails(h, now) ==
    /\ issuing[h] # Idle
    /\ issuing' = [issuing EXCEPT ![h] = Idle]
    /\ Observes(now)
    /\ UNCHANGED <<ledger, signed>>

(* redeem, then redeemAcknowledgedReceipt: its member's receipt, under the  *)
(* cohort's own domain.                                                    *)
SpentAs(s, receipt) ==
    {x \in spends : x.cohort = s.cohort /\ x.receipt.serial = receipt.serial}

Spend(s, redemption, now) ==
    LET receipt == redemption.blinded
    IN  /\ Observes(now)
        /\ RecoveryActive(s, now) /\ Current(redemption, now)
        /\ SpentAs(s, receipt) \subseteq {[cohort |-> s.cohort, receipt |-> receipt]}
        /\ IF SpentAs(s, receipt) # {} THEN UNCHANGED ledger
           ELSE /\ received[s.cohort][receipt.member] < s.maxReceive
                /\ s.cohort \in cohorts
                /\ spends' = spends \cup {[cohort |-> s.cohort, receipt |-> receipt]}
                /\ received' = [received EXCEPT ![s.cohort][receipt.member] = @ + 1]
                /\ UNCHANGED <<keys, cohorts, sent, authorizations, nullifiers>>

Redeem(s, redemption, now) ==
    /\ redemption.blinded.domain = s.cohort
    /\ \E x \in signed : x.key = s.key /\ x.blinded = redemption.blinded
    /\ Spend(s, redemption, now)
    /\ UNCHANGED <<issuing, signed>>

(* prune: the cohorts that ended, and all that hangs on them. *)
Ended(now) == {c \in cohorts : \A k \in keys : k.cohort = c => k.redeemUntil <= now}
ForgetAll(gone) == nullifiers \ {<<q.sender, q.prover>> : q \in {a \in authorizations : a.cohort \in gone}}
NullifiersAfter(gone) == nullifiers
PruneCohorts(now) ==
    LET gone == Ended(now)
    IN  /\ Observes(now)
        /\ cohorts' = cohorts \ gone
        /\ authorizations' = {a \in authorizations : a.cohort \notin gone}
        /\ spends' = {x \in spends : x.cohort \notin gone}
        /\ sent' = [c \in Cohorts |-> IF c \in gone THEN [m \in Members |-> 0] ELSE sent[c]]
        /\ received' =
            [c \in Cohorts |-> IF c \in gone THEN [m \in Members |-> 0] ELSE received[c]]
        /\ nullifiers' = NullifiersAfter(gone)
        /\ UNCHANGED <<keys, issuing, signed>>

Next ==
    \/ \E s \in Services : Register(s)
    \/ \E now \in ReceiptTimes :
        \/ \E s \in keys, r \in Requests :
            Recover(s, r, now) \/ \E h \in IssueHandlers : Preflight(h, s, r, now)
        \/ \E h \in IssueHandlers : Issue(h, now) \/ IssueFails(h, now)
        \/ \E s \in keys, redemption \in Redemptions : Redeem(s, redemption, now)
        \/ PruneCohorts(now)

Spec == Init /\ [][Next]_receiptVars
-----------------------------------------------------------------------------
(* A private identity acknowledges a sender with one receipt in its life,   *)
(* through concurrent requests, retries, later cohorts and pruned ones.    *)
ReceiptOnce ==
    \A x, y \in signed : x.sender = y.sender /\ x.prover = y.prover => x = y

(* In a cohort no more receipts are received than were sent: what one      *)
(* cohort signed counts in no other.  The counters that bound both are the *)
(* rows there are, also after pruning and a second registration.           *)
ReceivedWereSent ==
    \A s \in keys :
        LET authorized == {q \in authorizations : q.cohort = s.cohort}
            redeemed == {x \in spends : x.cohort = s.cohort}
        IN  /\ Cardinality(redeemed) <= Cardinality(authorized)
            /\ \A m \in Members :
                /\ sent[s.cohort][m] = Cardinality({q \in authorized : q.sender = m})
                /\ received[s.cohort][m] = Cardinality({x \in redeemed : x.receipt.member = m})
                /\ sent[s.cohort][m] <= s.maxSend /\ received[s.cohort][m] <= s.maxReceive
=============================================================================
