----------------------------- MODULE Enrollment -----------------------------
(***************************************************************************)
(* Enrollment: the service (runtime/accounting/enrollment-service.mjs),    *)
(* its database (enrollment-store.mjs, enrollment-turso.mjs), the ledger's *)
(* common roots and the members' clients (enrollment-client.mjs,           *)
(* enrollment.mjs).                                                        *)
(*                                                                         *)
(* A call of the service is a handler; handlers run in one process or many *)
(* over one database, and each `await' is a step at which the others, the  *)
(* clock and new members move on, and the process may stop.  Clocks are    *)
(* arbitrary, ordered only by the database's floor.  What the service      *)
(* answers is never consumed: an answer may be late, or lost.              *)
(*                                                                         *)
(* One community.  A delegation stands for its digest and its public       *)
(* entry, a roster for its sorted list and for its root, so a publication  *)
(* is a slot and a roster; of its text there is the length, which decides  *)
(* what the databases keep.  Signatures are left out.                      *)
(***************************************************************************)
EXTENDS Naturals, FiniteSets

CONSTANTS
    Members, Handlers,
    Clients,        \* the members whose client is modelled
    Delegations,    \* [member, secret, issued, expires]
    Times, Period,
    MaxMembers, MaxRetained,
    MaxBytes,       \* maxPublicationBytes
    SizeOf(_),      \* the length of a publication's text
    Remote,         \* the database: Turso's (TRUE) or SQLite's (FALSE)
    None

(* delegationShape, publicEntry *)
DelegationShape(d) ==
    /\ d.member \in Members
    /\ d.issued \in Nat /\ d.expires \in Nat /\ 0 < d.issued /\ d.issued < d.expires

(* What every store insists on when it is opened. *)
StoreLimits == MaxMembers \in Nat \ {0} /\ MaxRetained \in Nat \ {0} /\ MaxBytes \in Nat \ {0}

ASSUME EnrollmentConstants ==
    /\ Times \subseteq Nat \ {0} /\ Period \in Nat \ {0}
    /\ StoreLimits
    /\ Remote \in BOOLEAN /\ Clients \subseteq Members
    /\ \A d \in Delegations : DelegationShape(d)

(* slotFor *)
SlotOf(now) == now \div Period
StartOf(slot) == slot * Period
EndOf(slot) == (slot + 1) * Period
Slots == {SlotOf(t) : t \in Times}

(* publicationShape: one entry a member, and never an empty roster. *)
OnePerMember(roster) == \A d, e \in roster : d.member = e.member => d = e
Publication ==
    [slot : Slots, roster : {r \in SUBSET Delegations : r # {} /\ OnePerMember(r)}]
ASSUME SizesAreNumbers == \A p \in Publication : SizeOf(p) \in Nat \ {0}
Row == [publication : Publication, installed : BOOLEAN]
Handler ==
    [step : {"ready", "listing", "putting", "installing", "marking"}, now : Times,
     publication : Publication \cup {None}]

(* "Nothing" is no value of any table. *)
ASSUME NoneIsNothing == None \notin Delegations \cup Publication \cup Row \cup Handler

VARIABLES
    clock,      \* cfrm_enrollment_clock
    members,    \* cfrm_enrollment_members
    rows,       \* cfrm_enrollment_pending: [publication, installed], or None
    roots,      \* the ledger: the publication whose root each slot has
    handlers,   \* [step, now, publication], or None
    served,     \* publications the service has answered with
    clients,    \* member -> its client: the clock it has shown, the last answer taken
    owners,     \* member -> the entry its account is proved under
    joined      \* history: [delegation, at]: when each was registered

service == <<clock, members, rows, roots, handlers, served, joined>>
vars == <<service, clients, owners>>

Init ==
    /\ clock = 0
    /\ members = [m \in Members |-> None]
    /\ rows = [s \in Slots |-> None]
    /\ roots = [s \in Slots |-> None]
    /\ handlers = [h \in Handlers |-> None]
    /\ served = {} /\ joined = {}
    /\ clients = [m \in Clients |-> [clock |-> 0, publication |-> None]]
    /\ owners = [m \in Clients |-> None]
-----------------------------------------------------------------------------
(* currentTime: the floor in the database is the one that counts. *)
ObserveClock(now) == now >= clock /\ clock' = now

Begin(h, now) ==
    /\ handlers[h] = None
    /\ ObserveClock(now)
    /\ handlers' = [handlers EXCEPT ![h] =
            [step |-> "ready", now |-> now, publication |-> None]]
    /\ UNCHANGED <<members, rows, roots, served, joined, clients, owners>>

At(h, step) == handlers[h] # None /\ handlers[h].step = step
Goes(h, step) == handlers' = [handlers EXCEPT ![h].step = step]
Ends(h) == handlers' = [handlers EXCEPT ![h] = None]

(* The call fails, is refused, or its process stops; the transaction before *)
(* may have committed although the call was told that it had not.           *)
Fail(h) ==
    /\ handlers[h] # None
    /\ Ends(h)
    /\ UNCHANGED <<clock, members, rows, roots, served, joined, clients, owners>>

Answer(h, publication) == Ends(h) /\ served' = served \cup {publication}
-----------------------------------------------------------------------------
(* enroll *)

Valid(d, now) == d.issued <= now /\ now < d.expires

AnyBinding(d) == members[d.member] # None => d.issued > members[d.member].issued
Renews(d) ==
    members[d.member] # None =>
        members[d.member].secret = d.secret /\ d.issued > members[d.member].issued
HasRoom(d) ==
    \/ members[d.member] # None
    \/ Cardinality({m \in Members : members[m] # None}) < MaxMembers

(* An exact retry changes nothing, and has been answered before. *)
Upsert(d) ==
    /\ members[d.member] # d
    /\ Renews(d) /\ HasRoom(d)
    /\ members' = [members EXCEPT ![d.member] = d]
    /\ joined' = joined \cup {[delegation |-> d, at |-> clock]}

Enroll(h, d) ==
    /\ At(h, "ready") /\ Valid(d, handlers[h].now)
    /\ Upsert(d)
    /\ Ends(h)
    /\ UNCHANGED <<clock, rows, roots, served, clients, owners>>
-----------------------------------------------------------------------------
(* publishAt, for `current' and `publishCheckpoint'. *)

ServesBeforeRoot(row) == "serve"
OnceInstalled(row) == IF row.installed THEN "serve" ELSE "installing"

ReadPending(h) ==
    /\ At(h, "ready")
    /\ LET row == rows[SlotOf(handlers[h].now)]
       IN  IF row = None THEN Goes(h, "listing") /\ UNCHANGED served
           ELSE IF OnceInstalled(row) = "serve" THEN Answer(h, row.publication)
           ELSE /\ handlers' = [handlers EXCEPT ![h].step = "installing",
                                                ![h].publication = row.publication]
                /\ UNCHANGED served
    /\ UNCHANGED <<clock, members, rows, roots, joined, clients, owners>>

(* records, at the handler's time: an expired row is left out, and one not *)
(* yet valid then fails the call.                                          *)
Records(now) == {d \in {members[m] : m \in Members} \ {None} : d.expires > now}

ListedIfLonger(d, slot) == d.expires > EndOf(slot)
Listed(d, slot) == d.expires >= EndOf(slot)

List(h) ==
    LET now == handlers[h].now
        roster == {d \in Records(now) : Listed(d, SlotOf(now))}
    IN  /\ At(h, "listing")
        /\ \A d \in Records(now) : Valid(d, now)
        /\ roster # {}
        /\ handlers' = [handlers EXCEPT ![h].step = "putting",
                ![h].publication = [slot |-> SlotOf(now), roster |-> roster]]
        /\ UNCHANGED <<clock, members, rows, roots, served, joined, clients, owners>>

(* What retention leaves of texts, the publications by slot, of which the  *)
(* one of slot has just been put.  SQLite first drops all but the newest   *)
(* slots, then the oldest slots other than slot until the bytes fit.       *)
NewestOf(slots, n) == {s \in slots : Cardinality({t \in slots : t > s}) < n}
Bytes(texts, slots) ==  \* SUM(length(publication)); no text is longer than MaxBytes
    Cardinality({x \in slots \X (1 .. MaxBytes) : x[2] <= SizeOf(texts[x[1]])})
SqliteKept(texts, slot) ==
    LET newest == NewestOf(DOMAIN texts, MaxRetained)
        AndNewer(s) == {t \in newest : t >= s \/ t = slot}
    IN  {s \in newest : s = slot \/ Bytes(texts, AndNewer(s)) <= MaxBytes}

(* Turso keeps slot, and of the others, from the newest on, each one that  *)
(* still fits with what is kept by then.                                   *)
TursoKept(texts, slot) ==
    CHOOSE kept \in SUBSET DOMAIN texts : \A s \in DOMAIN texts :
        LET before == {t \in kept : t > s} \cup {slot}
        IN  s \in kept <=>
                \/ s = slot
                \/ /\ Cardinality(before) < MaxRetained
                   /\ Bytes(texts, before \cup {s}) <= MaxBytes

Kept(texts, slot) == IF Remote THEN TursoKept(texts, slot) ELSE SqliteKept(texts, slot)

(* putPending: one publication a slot; another one is a conflict. *)
RowSlots == {s \in Slots : rows[s] # None}
TextsWith(p) ==
    [s \in RowSlots \cup {p.slot} |-> IF s = p.slot THEN p ELSE rows[s].publication]
PutPending(h) ==
    LET p == handlers[h].publication
        prior == rows[p.slot]
        kept == Kept(TextsWith(p), p.slot)
    IN  /\ At(h, "putting")
        /\ SizeOf(p) <= MaxBytes
        /\ IF prior = None
           THEN /\ rows' = [s \in Slots |->
                      IF s \notin kept THEN None
                      ELSE IF s = p.slot THEN [publication |-> p, installed |-> FALSE]
                      ELSE rows[s]]
                /\ Goes(h, "installing") /\ UNCHANGED served
           ELSE /\ prior.publication = p
                /\ UNCHANGED rows
                /\ IF prior.installed THEN Answer(h, p)
                                      ELSE Goes(h, "installing") /\ UNCHANGED served
        /\ UNCHANGED <<clock, members, roots, joined, clients, owners>>

(* installCheckpoint: admit_checkpoint takes one root a slot, for good. *)
RootAdmissible(p) == roots[p.slot] \in {None, p}
Install(h) ==
    LET p == handlers[h].publication
    IN  /\ At(h, "installing")
        /\ RootAdmissible(p)
        /\ roots' = [roots EXCEPT ![p.slot] = p]
        /\ Goes(h, "marking")
        /\ UNCHANGED <<clock, members, rows, served, joined, clients, owners>>

(* markInstalled, and the answer: a row that is gone fails the call. *)
MarkInstalled(h) ==
    LET p == handlers[h].publication
    IN  /\ At(h, "marking")
        /\ rows[p.slot] # None
        /\ rows' = [rows EXCEPT ![p.slot].installed = TRUE]
        /\ Answer(h, p)
        /\ UNCHANGED <<clock, members, roots, joined, clients, owners>>

(* checkpoint: what is retained of a slot, once it is installed. *)
Retained(row) == row # None /\ row.installed
Checkpoint(h, slot) ==
    /\ At(h, "ready") /\ slot <= SlotOf(handlers[h].now)
    /\ Retained(rows[slot])
    /\ Answer(h, rows[slot].publication)
    /\ UNCHANGED <<clock, members, rows, roots, joined, clients, owners>>
-----------------------------------------------------------------------------
(* The client, by its own clock, which no answer moves back.               *)

(* verifyPublicationSignature: only the service signs publications. *)
Signed(p) == p \in served

(* verifyAndBuild: the window, and every delegation of the roster. *)
InWindow(p, at) == StartOf(p.slot) <= at /\ at < EndOf(p.slot)
CoversSlot(d, slot) == d.expires >= EndOf(slot)
Verified(p, at) ==
    /\ InWindow(p, at)
    /\ \A d \in p.roster : Valid(d, at) /\ CoversSlot(d, p.slot)

Own(m, p) == {d \in p.roster : d.member = m}
Takes(m, p, at) == clients' = [clients EXCEPT ![m] = [clock |-> at, publication |-> p]]

(* prepare, then acquire.  A member absent from a frozen roster is         *)
(* `pending' until its end; one that is there under another binding than   *)
(* the delegation it sent refuses the answer.                              *)
Prepared(m, d, from) == d.member = m /\ Valid(d, from) /\ clients[m].clock <= from

Acquire(m, d, from, p, at) ==
    /\ Prepared(m, d, from) /\ from <= at
    /\ Signed(p) /\ Verified(p, at)
    /\ \A own \in Own(m, p) : own.secret = d.secret
    /\ Takes(m, p, at)
    /\ UNCHANGED <<service, owners>>

(* current *)
Current(m, p, at) ==
    /\ clients[m].clock <= at
    /\ Signed(p) /\ Verified(p, at)
    /\ Takes(m, p, at)
    /\ UNCHANGED <<service, owners>>

(* historical: verified at the acceptance it is about, not at now. *)
Historical(m, p, at, now) ==
    /\ clients[m].clock <= now
    /\ at <= now /\ SlotOf(at) = p.slot
    /\ Signed(p) /\ Verified(p, at)
    /\ Takes(m, p, now)
    /\ UNCHANGED <<service, owners>>

(* refreshEnrollment: under the ledger's root, the owner's entry is        *)
(* replaced by one of the same secret.                                     *)
Pinned(p) == roots[p.slot] = p
Refresh(m) ==
    LET p == clients[m].publication
    IN  /\ p # None
        /\ Pinned(p)
        /\ \E d \in Own(m, p) :
            /\ owners[m] # None => owners[m].secret = d.secret
            /\ owners' = [owners EXCEPT ![m] = d]
        /\ UNCHANGED <<service, clients>>

Next ==
    \/ \E h \in Handlers :
        \/ \E now \in Times : Begin(h, now)
        \/ Fail(h) \/ ReadPending(h) \/ List(h) \/ PutPending(h)
        \/ Install(h) \/ MarkInstalled(h)
        \/ \E d \in Delegations : Enroll(h, d)
        \/ \E slot \in Slots : Checkpoint(h, slot)
    \/ \E m \in Clients :
        \/ Refresh(m)
        \/ \E p \in served, at \in Times :
            \/ Current(m, p, at)
            \/ \E now \in Times : Historical(m, p, at, now)
            \/ \E d \in Delegations, from \in Times : Acquire(m, d, from, p, at)

Spec == Init /\ [][Next]_vars
-----------------------------------------------------------------------------
(* As many publications as are retained fit the limit in bytes, however    *)
(* long each is, so that only the number of slots prunes.  The stores do   *)
(* not see to it.                                                          *)
RetentionFits ==
    \E largest \in 1 .. MaxBytes :
        /\ MaxRetained * largest <= MaxBytes
        /\ \A p \in Publication : SizeOf(p) <= MaxBytes => SizeOf(p) <= largest

(* Everybody proves under one roster a slot: what the service answers, now *)
(* or from history, is the publication whose root the ledger has, although *)
(* handlers that were slow or stopped leave rows half installed.           *)
ServedIsCommonRoot == \A p \in served : roots[p.slot] = p

(* A row marked as installed is the one that was: the history of a slot    *)
(* is never another roster than its root's.                                *)
HistoryIsInstalled ==
    \A s \in Slots : rows[s] # None /\ rows[s].installed => roots[s] = rows[s].publication

(* A member told to wait for the next slot is in it: a delegation that was *)
(* registered before a slot and outlasts it is in that slot's roster, or   *)
(* one that has since renewed it.                                          *)
WaitIsEnough ==
    \A s \in Slots : roots[s] # None =>
        \A j \in joined :
            j.at < StartOf(s) /\ CoversSlot(j.delegation, s)
            /\ (\A k \in joined : k.delegation.member = j.delegation.member
                                    => k.delegation.issued <= j.delegation.issued)
                => j.delegation \in roots[s].roster

(* No renewal, race or expired row moves a member to another secret, from  *)
(* one slot's root to another's or away from the entry its account is      *)
(* proved under: an account opened once stays provable.                    *)
BindingKept ==
    \A s \in Slots : roots[s] # None => \A d \in roots[s].roster :
        /\ \A t \in Slots : roots[t] # None =>
            \A e \in roots[t].roster : d.member = e.member => d.secret = e.secret
        /\ d.member \in Clients /\ owners[d.member] # None => owners[d.member].secret = d.secret
=============================================================================
