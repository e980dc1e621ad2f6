----------------------------- MODULE Redemption -----------------------------
(***************************************************************************)
(* Spending introduction permits and resource tickets: the shared          *)
(* redemption store of one epoch (PermitRedeemer in src/permit_issuer.rs,  *)
(* KeyAccessRedeemer in src/key_access.rs) and those who redeem            *)
(* (RecipientClaim in src/permits.rs, the holder of a resource key).       *)
(*                                                                         *)
(* A sender may show one permit to several recipients.  Each draws a claim *)
(* bound to itself, keeps it, and submits it, again and again if no answer *)
(* comes; a request once submitted may arrive at any time.  The claim of a *)
(* ticket commits to a holder's challenge and ends with it (`until'), that *)
(* of a permit ends with the epoch.  Every replica of the operator uses    *)
(* one database, and each call is one IMMEDIATE transaction that reads the *)
(* clock at its start (`now') and its end (`done').  All clocks are        *)
(* arbitrary, and only the durable floor orders the operator's.            *)
(* Signatures and the permits' validity are abstracted.                    *)
(***************************************************************************)
EXTENDS Integers

CONSTANTS
    Tokens,         \* permits, by their spend identifier
    Claims,         \* [token, claim, commitment, until]: what is submitted
    Times,
    validFrom, expiresAt

ASSUME EpochAssumption ==
    /\ Times \subseteq Nat
    /\ validFrom \in Nat \ {0} /\ expiresAt \in Nat /\ validFrom < expiresAt
ASSUME ClaimShape ==
    \A c \in Claims : c.token \in Tokens /\ validFrom < c.until /\ c.until <= expiresAt

VARIABLES
    floor,          \* clock_floor of cfrm_redemption_config
    redemptions,    \* cfrm_redemptions: the claims that spent a token
    drawn,          \* claims drawn and kept by their recipients
    stamps,         \* stamps that left the operator
    accepted        \* claims whose recipient has verified its stamp

vars == <<floor, redemptions, drawn, stamps, accepted>>

Init ==
    /\ floor = 0
    /\ redemptions = {} /\ drawn = {} /\ stamps = {} /\ accepted = {}
-----------------------------------------------------------------------------
(* PermitEpoch::check_time, for redemption. *)
CheckTime(now) == validFrom <= now /\ now < expiresAt

(* RecipientClaim::new draws a fresh random claim. *)
Draw(c, now) ==
    /\ CheckTime(now)
    /\ c \notin drawn
    /\ drawn' = drawn \cup {c}
    /\ UNCHANGED <<floor, redemptions, stamps, accepted>>

Spent(token) == {c \in redemptions : c.token = token}

(* The stamp is delivered, or lost after the commit. *)
Stamped(c) == stamps' \in {stamps, stamps \cup {c}}

(* redeem: the first claim of a token spends it, the same one may retry. *)
Redeem(c, now, done) ==
    /\ c \in drawn
    /\ floor <= now /\ now <= done
    /\ CheckTime(now) /\ CheckTime(done) /\ done < c.until
    /\ Spent(c.token) \subseteq {c}
    /\ redemptions' = redemptions \cup {c}
    /\ floor' = done
    /\ Stamped(c)
    /\ UNCHANGED <<drawn, accepted>>

(* verify_stamp and verify_key_access_stamp, at the verifier's own time: a *)
(* stamp of the permit is not enough, it must be for one's own claim.      *)
OwnStamp(c) == c \in stamps

Accept(c, now) ==
    /\ c \in drawn /\ OwnStamp(c)
    /\ CheckTime(now) /\ now < c.until
    /\ accepted' = accepted \cup {c}
    /\ UNCHANGED <<floor, redemptions, drawn, stamps>>

(* prune_expired forgets the tokens; the floor remembers the end of the    *)
(* epoch, whatever the clock shows after a restart.                        *)
Expired(now) == now >= expiresAt
FloorKept(now) == floor
FloorAfterPrune(now) == now

Prune(now) ==
    /\ Expired(now) /\ now >= floor
    /\ redemptions' = {}
    /\ floor' = FloorAfterPrune(now)
    /\ UNCHANGED <<drawn, stamps, accepted>>

Next ==
    \E now \in Times :
        \/ Prune(now)
        \/ \E c \in Claims :
            \/ Draw(c, now) \/ Accept(c, now)
            \/ \E done \in Times : Redeem(c, now, done)

Spec == Init /\ [][Next]_vars
-----------------------------------------------------------------------------
(* One permit admits one introduction: of all the recipients it was shown  *)
(* to, whatever is retried, lost, pruned or set back, one accepts it.      *)
SpentOnce == \A c, d \in stamps \cup accepted : c.token = d.token => c = d
=============================================================================
