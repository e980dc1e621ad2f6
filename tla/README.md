# A TLA+ model of cfrm

cfrm lets the members of a community introduce themselves to each other under limits nobody has
to see: a private account that counts reservations in zero knowledge, blind permits and tickets,
and small services for presence, profiles and enrollment. Most of its promises are about orders
of events: two devices proving from one state, a reply lost after a commit, a clock set back, an
operator retuning a policy while a proof is verified. These modules state those promises, check
them with TLC and prove some of them, for every value of the constants, with TLAPS.

All source paths below are relative to the repository.

## 1. The system

| Component | State | Operations | Hard behaviour | What makes it correct |
|---|---|---|---|---|
| Account policy `src/accounting_policy.rs` | none (numbers, one of them tuned live) | capacity, admission limit, proof horizon, refund date by age and time | boundaries of windows and of the policy | used by the two below |
| Account state machine: the circuit `experiments/private-accounting/account-state/src/main.nr`, its witness builder `runtime/accounting/witness.mjs` | available and reserved units, refill frontier, admission window, outgoing and incoming maps of obligations | genesis, reserve, activate (release), refund, settle, cancel, expire, refill | a proof names its own time inside its window; proofs chain; the wait is retuned between reservation and refund | units conserved, capped, admissions limited, refunds always possible, refills spaced |
| Indexed maps and trees: the circuit's `indexed.nr`, `runtime/accounting/hashes.mjs` | leaves linked in key order, in a sparse Merkle tree | find, prove absent, insert, update | the prover chooses the witness; an insertion uses paths of two trees | a map: no key twice, none absent and present |
| Wallet checkpoints `runtime/accounting/checkpoint.mjs`, `enrollment.mjs` | files with the private state and the roster it was exported under | export, refresh, restore | old backups; members that renewed or left since | what was saved reopens, what opens is what the ledger accepted |
| Account ledger `src/accounting_ledger.rs`, `accounting_ledger/tuning.rs`, `src/accounting.rs` | one SQL database: config with wait and revision, checkpoints, account heads, markers, acceptances, clock floor | open, admit checkpoint, apply, status, tune, reload | the lock is released during verification; handles race, crash, lose answers; hosts' clocks differ | one chain per owner, markers once, times in order, answers durable and stable |
| Remote storage `src/storage.rs`, `storage/remote.rs` | one connection | begin, query, commit | an error poisons the connection; the outcome of a COMMIT is then unknown | exact retry recovers |
| Account actor `runtime/accounting/actor.mjs`, `actor-storage.mjs`, `client.mjs`, `actor-signing.mjs` | an encrypted journal (accepted checkpoint, pending request) with compare-and-swap revisions | transition, recover, current, withEnrollment | device crash, ambiguous write, two tabs, a late request, the "not accepted" answer | the private opening of the ledger's state is never lost, the journal never goes back |
| Peer reservation presentation: `provePeer` and `verifyPeer` of the actor, `peer-witness.mjs`, `peer-prover.mjs`, `peer-verifier.mjs` | none but the actor's | context, prove, check | awaits on both sides; a device behind the ledger; older roots | what is shown was accepted, for this context |
| Proof verifier and artifacts `src/accounting_service.rs`, `runtime/accounting/artifacts.mjs`, `runtime.mjs`, `node-verifier.mjs` | pinned manifest, loaded backend; count of running processes | load, verify, prove, destroy | the provider changes buffers during an await; overlapping callers; a failed start | only what the manifest pins is used, and given back |
| Allowance ledger `src/allocation.rs` | credits and period per member, reservations with responses, clock floor | reserve, issue_with | lazy refill with a cap; answer lost after the debit; slow signer | the allowance, and one signature per paid nonce |
| Permit issuer and redeemer `src/permit_issuer.rs`, `src/permits.rs` | registry of epoch keys; spent tokens with claims and stamps, clock floor | issue; redeem, prune; claim, verify stamp | same permit at several recipients; lost stamp; prune, then a clock set back | one recipient accepts a permit; retry possible until the end |
| Key access `src/key_access.rs` | quota counters, answers, configurations of many epochs, key registry, clock | open, issue, prune; redeem | replicas with another policy; prune and reopen; key reuse | one quota per epoch, answers recoverable |
| Presence board `src/board.rs` | last update per device, in memory | apply, snapshot | replay floors against leases; limits; restart | no older signed presence comes back while it is valid |
| Discovery `src/discovery.rs`, `discovery_control.rs`, `discovery_store.rs`, `discovery_valkey.rs` | durable control rows (leases, replay markers, quotas, sequence, publication hash, revision); a Valkey cache | publish, heartbeat, disconnect, query, fetch | durable commit, then cache change under a fence; either fails; rows expire and come back | readers get no replaced publication; a retry is not charged twice; a lease that ended is not revived |
| Discovery HTTP service `src/discovery_api.rs` | a semaphore | handle | slow body, cancelled request, queued blocking work | bounded work |
| Profile publisher and discovery client `browser/profiles/publisher.js`, `discovery.js` | two nested pending journals | publish, retryPending, confirmPublication, expire, heartbeat | crash between cache commit and save; lost answers; expired requests | the key of what the cache serves is never lost; one uncertain write at a time |
| Profile key service, tickets `browser/profiles/access.js`, `tickets.js`; other holders `keys.js` | consumed challenges, rate window, running proofs; a reserved permit; offers and seeds | hello, read; acquire, retry, retire; offer, delegate, open a seed | awaits between check and release; the profile is replaced meanwhile; periods within periods | one key a ticket, only for the current profile, only by whom the owner named |
| Enrollment `runtime/accounting/enrollment-*.mjs` | members, one publication per slot, clock | enroll, publish, checkpoint, current | crash between durable publication and ledger root; renewal races | one roster per slot, served only once installed |
| Rendezvous `src/rendezvous.js` | sessions, replay markers, a timer | begin, register, list, disconnect, prune | an await before registration; timer against calls; fail-closed | a challenge registers once, one session per member |
| Synthetic forum and groups `src/forum.js`, `groups.js`, `simulate.js` | contacts, tokens, windows; groups with invitations | connect, introduce, accept, reply, decline, vote; create, invite, join, send | several pending introductions meet the caps | grants and consent |
| Prototypes under `experiments/`: directional receipts, private reciprocity, anonymous permits, member profiles, the accounting study's ledger | their ledgers, checkpoints and sessions | issue, redeem; enroll, publish, acknowledge; challenge, read | verification outside the transaction, retries, pruning, workers that die | what may happen once happens once; what was saved is found |

How they interact. A device's **actor** builds a witness with the **state machine**, whose maps are
**indexed trees**, proves it in the **proof runtime**, and sends it through its **client** to the
**ledger**, which checks the proof in a **verifier** and the enrollment root in a checkpoint that
**enrollment** installed. What the actor keeps are **wallet checkpoints**. Introduction **permits**
are issued in the transaction of the **allowance** ledger and spent by their recipients in the
**redeemer**; the profile key service asks for **tickets** issued by **key access** and spent in a
redeemer of their own. **Discovery** and the **board** show who is reachable, and **profiles** are
published to discovery's cache and opened with keys from the key service. The prototypes share no
state with any of these.

## 2. Modules

| Module | Models | Role |
|---|---|---|
| `AccountPolicy` | `accounting_policy.rs` | constants and operators, shared by the next two |
| `AccountState` | circuit, witness builder | one account, all orders of transitions |
| `AccountLedger` | ledger, tuning, remote failures | handles over one database |
| `AccountChain` | the ledger's promise | abstract specification |
| `AccountActor` | actor, storage, client | processes and devices over `AccountChain` |
| `KeyedEntries` | the maps as an account reads them | abstract specification |
| `IndexedTree` | circuit's `indexed.nr`, `IndexedMap`, the check of restored leaves | implements `KeyedEntries` |
| `SparseTree` | `SparseTree` of `hashes.mjs`, the circuit's roots | what `IndexedTree` takes for granted of paths |
| `WitnessCheckpoints` | `checkpoint.mjs` with rosters that change | files and the processes that restore them |
| `PeerPresentations` | `provePeer`, `verifyPeer` and what they call | presenter with a lagging device, late checks |
| `ProofRuntime` | `artifacts.mjs`, `runtime.mjs` | loading and overlapping callers |
| `Allocation` | allowance ledger and permit issuer | composed, as the issuer runs in the ledger's transaction |
| `Redemption` | redeemer, recipients, ticket redeemer | spending |
| `KeyAccess` | key access issuer | quotas of tickets |
| `KeyService` | `access.js`, `tickets.js` | holder and readers, extends `Redemption` |
| `HolderSeeds` | `keys.js`, `crypto.js`, `envelope.js` | offers, seeds and other holders |
| `ProfilePublisher` | `publisher.js`, `discovery.js` | two journals on one device over the cache |
| `Discovery` | control rows, their rules, the Valkey cache and its readers | replicas over two stores |
| `Enrollment` | service, both stores, roots, clients | handlers over one database |
| `Rendezvous`, `Forum` | `rendezvous.js`; `forum.js`, `groups.js` | libraries in one process |
| `Receipts`, `Reciprocity`, `AnonymousPermits`, `MemberProfiles`, `FramedSockets`, `PrototypeLedger` | the prototypes | one module each, two for member profiles |
| `AccountStateProofs` (with `IndexedTree`), `AccountLedgerProofs`, `AccountActorProofs`, `DiscoveryProofs`, `EnrollmentProofs`, `KeyServiceProofs` (with `Allocation`), `PartsProofs` (about `MCParts`), `ProfilePublisherProofs` | | theorems about the modules they extend |
| `MC...` | | instances for TLC |

`AccountState` and `AccountLedger` extend `AccountPolicy`. `AccountLedger` implements
`AccountChain` (`ImplementsChain`), and `AccountActor` takes `AccountChain`
as its ledger: what the actor needs of the ledger is what the ledger was shown to do. `IndexedTree`
implements `KeyedEntries`, which is how `AccountState` sees its maps. `KeyService` extends
`Redemption`: the holder's awaits include the operator's transaction. `MCParts` puts together the
components that share no state with another, each a small instance of its own; a behaviour there
is one of a single part, so its properties are conjunctions over parts.

### From code to model

- A database transaction is one action, since every one that writes is IMMEDIATE. `apply` is two,
  `Preflight` and then `Commit`, `RetryAfterVerify` or `Refuse`, because the code gives the lock
  up while it verifies. In JavaScript an action ends at each `await` at which others may run.
- A call that is refused and changes nothing is no step. `Lost` and `Close` are the answers that
  never arrive: the state changed, the caller does not know.
- Clock readings are arbitrary (`\E now \in Times`) where code of several hosts reads them; the
  durable floors in the databases order them, as in the code. Where one process refuses a clock
  that goes back, there is one time. In `AccountState` the clock is the ledger's, which
  `AcceptedInOrder` shows to be monotone along a chain; a proof's own time `at` is any that
  `check_pending` accepts.
- A statement is accepted or not; proofs, signatures, hashes, encodings and admission are assumed
  sound and left out, as are the limits on sizes, but for the one of `Enrollment` that decides which
  publications are kept. A signed record stands for its bytes, a digest
  for what it digests.
- History variables (`granted`, `lastGrant`, `admittedIn`, `released`, `signed`, `truth`, ...)
  record what the properties speak about; no guard reads them.
- In `AccountActor`, `device` and `journal` are the memory of one process, `storage` the record on
  disk; a process is at an `await` whenever its `pc` is not `idle`. A save that throws may have
  written: `SaveFails` has both outcomes and blocks the process as the code's `blocked` does. A
  record that does not load (another roster, a broken seal) is `RecoverFails`.
- In `AccountLedger`, the latest request of an account row is read with `LatestOf` from the
  acceptances it must agree with.
- In `IndexedTree` a witness is a position, and a prover may choose any. `SparseTree` justifies
  it: a hash is the pair of its children, and the two paths of an insertion are checked as the
  circuit checks them, the second against the tree after the first update.
- In `WitnessCheckpoints` the wallet may return any file it ever had, or damaged bytes that still
  parse. Restoring an old file is refused unless its roster is the pinned one or the one the
  ledger accepted the state under, as runtime/accounting/README.md:73-77 says it is.
- In `Discovery` a handler is one request on one replica. `Authorize` and `AuthorizeRetry` are the
  transaction that commits the intent, `Apply` the second one with the cache script in it; `Finish`
  stands for the answer, for every failure and for a replica that stops. A publication is its hash
  (`publication_hash`, `profile_sequence` and the like are fields of the one the row holds), and a
  replay marker the request it was made of. The row's own `last_now` is not kept: it is never later
  than the scope's, which is checked first. The catalog and the live index change together and are
  one score; which candidates a query scans is left open.
- In `Enrollment` the two databases are one action, told apart by `Remote`. SQLite's keeps the newest
  slots, among which the one being put need not be, and then deletes the oldest slots other than that
  one until the texts fit `maxPublicationBytes` (enrollment-store.mjs:131-141). Turso's keeps the one
  being put and, from the newest on, each other one that fits the limits of slots and bytes
  (enrollment-turso.mjs:149-158). Of a text there is its length (`SizeOf`), which SQLite counts in
  characters and Turso in bytes; it is one number here. `Kept` states the two rules without their
  loops; `KeptIsWhatLoopsKeep` has TLC compare them with the loops, for texts of any lengths in up to
  four slots.
- The libraries in one process leave some order to their callers. `ProofRuntime` serializes what
  `exclusive` does, proofs and verifications; the hashes that `runtime.mjs:74` hands out use the same
  backend without it. `MemberProfiles` runs one service at a time for an owner, which the code does not
  enforce.
- Some refusals are left out where the model then permits more than the code and the properties still
  hold: requests that the key service refuses also count for its rate (access.js:94-100), and a peer
  verifier also refuses an acceptance dated outside its statement and an introduction that outlasts
  the policy (peer-verifier.mjs:39 and 54).
- In `ProfilePublisher` a publication is its sequence and expiry and stands for its key; a request
  is named by when it was signed. In `KeyService` a key request is bytes that may be repeated, and
  a publication stands for the key the holder releases.

## 3. Properties and runs

Deadlock is checked in `account_actor` and `account_actor_live`. The other systems come to rest in
the model: a policy ends, requests expire, and the instance has no later ones.

### `account_state` (MCAccountState, 198,650 states)

One account, three interchangeable events, a policy of six seconds with windows of two, waits of
two and three, so that an account matures, windows roll over and the policy ends while obligations
are held. Initial credit 2, maximum 3, an outgoing obligation holds 1 and an incoming one 2, so
every combination the capacity allows is reached, refused ones included.

`Conservation`, `WithinCapacity`, `AdmissionRate`, `HeldMarkerUnspent`, `ReleasedBondRefundable`
and `RefillSpacing` are the member's and the community's sides of the account: units only move,
stay under the cap, admissions per *ledger* window keep their limit however the owner dates its
proofs, a held unit's marker is still there to be spent, a bond can always be taken back, and
refills are at least a period of the ledger's own time apart.

### `account_ledger` (MCAccountLedger, 69,549 states)

Two interchangeable handles, two owners, two devices' keys, six requests chosen to compete (two
geneses, two successors of one state with one marker, a later one reusing it, one under a retuned
wait, one with a name another owner uses), one retuning (`MaxRevision`), four clock readings in
two checkpoint slots. `OneSuccessor`, `MarkerOnce`, `AcceptedInOrder`, `AcceptedAsStated`,
`AcceptedUnderCurrentWait` are about the window in which the lock is free. `ImplementsChain` says
all of it from outside: the database and its handles implement one growing chain per owner in
which every answer, first or repeated, is an element.

### `account_actor` (MCAccountActor, 2,104,980 states), `account_actor_live` (36,572)

The first has two processes of one device (two tabs) and one of another device, three request
names, two times and one expiry, and one enrollment refresh (`MaxRefreshed`): enough for a request
to be dropped, replaced and still arrive. It checks `OpeningRetained` (the device that proved the
ledger's current state can open it), `OneOutstanding` (of all that ever left a device one request
at most may yet be accepted) and `NeverRollsBack` (the stored journal never goes back).

The second has one process on each of two devices, and fairness for the first only.
`PendingResolved` says that its pending request is installed or dropped unless the other device
has moved the account on, in which case the code stops with an error by design.

Fairness (`FairSpec`): the host starts a process that is down and its own steps after an `await`
happen (weak). Calls of `recover`, the failure of a call that does not answer, and status answers
by a clock past the expiry happen if they are possible again and again (strong), because crashes
and failures interrupt them, not for ever; so does a storage write that succeeds. Nothing in the
repository provides all of this: it is an assumption on the host. `exclusive` (actor.mjs:137-140)
refuses a call while another one runs and does not queue it, so the host has to call `recover` again;
`client.mjs` sets no timeout, so the host has to make a request that is never answered fail; and the
host starts the process again after `close`, a crash or an uncertain write. Ledger time is only
assumed to pass. No fairness is assumed of the transport, of the ledger accepting anything, or of the
other device. It is the only run that needs fairness.

### `allocation` (MCAllocation, 43,576 states)

Four nonces of one member, one of them in two requests, a second member, two epochs with one key,
seven seconds in periods of two, a cap of two. `AllowanceKept` bounds every span of periods,
`PaidSignatures` ties every signature that left to one debit, and a member's nonce to one debit
however often its answer is lost and the request repeated.

### `discovery` (MCDiscovery, 273,083 states), `discovery_late`

A member with two devices and a reader, on two handlers; eight requests, each valid for two of seven
times: two publications, the first one submitted again in a new request, a heartbeat and a
disconnect signed together, a publication that starts over once everything has expired, a query and
a fetch. Four requests are accepted (`MaxRevision`), so that an intent, its successor, an expired
row and a reader fit in one behaviour; one script at a time may be late. Profiles outlive windows
and leases, and windows outlive requests, so each part of a row's retention is needed.

`SupersededNeverServed` follows a publication through both stores: no reader is given it once its
owner replaced it, although the cache may still hold it, scripts may come late, and the row may
expire and be made again. `OldLeaseNeverReturns` is why a lease record outlives the lease.
`QuotaKept` counts debits in every window through retries, repairs and expired rows.
`SupersededOnlyLate` says that a superseded intent overwrites a newer publication only by a script
that had already timed out, which depends on revisions that count over the whole scope.

`SupersededCannotOverwrite`, without that exception, is docs/discovery.md:146, "A superseded intent
cannot overwrite a newer publication". `discovery_late` finds it violated: when a script is not
answered within `io_timeout`, `with_current` returns and its transaction, the fence, ends, but
Valkey may still run the script after that of a newer write. Readers are safe, since `fetch` asks
the row, but the newer profile is gone from the cache until its owner writes again.

### `enrollment` (MCEnrollment, 419,729 states), `enrollment_pruned`

Two interchangeable handlers over one SQLite database, failing between any two transactions; two
members, of whom one renews inside a slot and has a delegation that names another secret; three times
in slots of two, so that a slot ends while a handler still works on it; one retained publication
(`MaxRetained`), so that pruning happens, and room for the longest one (`MaxBytes`).
`ServedIsCommonRoot`: what the service answers is the ledger's root of that slot, and the same for
everyone. `WaitIsEnough`: who was told to wait for a slot is in its roster. `BindingKept`: a member
stays under the secret it enrolled with.

The first of these depends on the limits: it holds where as many publications as the store retains
fit its limit in bytes (`RetentionFits`), as they do in this instance, so that only the number of
slots prunes. The stores do not check that, and runtime/accounting/README.md:114-115 says that the
byte limit prunes.

`enrollment_pruned` has two retained slots and room for less than two of the longest publications.
enrollment-service.mjs:194 says that "Only an exact publication already installed as a common ledger
root is history"; TLC finds `HistoryIsInstalled` violated with two handlers. One has listed a
publication of the old slot and is slow. The other has put and installed that of the current slot,
and not marked it. The first puts its own, and to fit the bytes the store deletes the row of the
*current* slot. A fresh call lists the members again, who have changed, and puts another roster for
the current slot; the ledger refuses its root, but the handler that installed the first roster marks
the row of its slot, which now is the second one. From then on `current` and `checkpoint` answer with
a roster whose root is not the ledger's. Turso's store does the same by bytes and, as it always keeps
what is being put, by the number of slots too. `StoresPruneAlike` is the common cause: where no other
publication fits beside the one being put, both stores drop all the others.

### `publisher` (MCProfilePublisher, 2,051,871 states)

One device, two publications (`MaxSequence`) that live one or three of three seconds, requests that
live two, and heartbeats as the other write of the client; the process stops between any two awaits.
`ServedKeyHeld`: the key of what the cache serves is in a journal that survived. `OneUncertainWrite`:
of the client's writes whose outcome is unknown, at most one may still take effect.

### `key_service` (MCKeyService, 2,954,518 states)

One reader with a permit, another member with one, two handlers of a holder with two publications of
which the first ends first, operator clocks that step over the epoch (`OperatorTimes`), two
challenges, and two sessions of the reader. `KeyPerPermit`: one key for each ticket. `PaidIsKept`: a
ticket that was paid for is not lost by a crash or a failed save. `SpentOnce` is the redeemer's side,
with pruning followed by a clock set back. `GrantIsCurrent`, an action property, says that a key
leaves only for the profile that is current at that step, not at the check five awaits earlier.

### `parts` (MCParts, 290,495 states)

| Part | States | Bounds | Properties |
|---|---|---|---|
| `IndexedTree` | 769 | four keys, three payloads, capacity 4: every order of insertions, full | `MapHolds` (`Restorable`, `Sound`), `ImplementsMap` |
| `SparseTree` | 517 | depth 3, two leaf hashes, up to five leaves | `PathsProve` (`PathsLeadToRoot`, `InsertionAccepted`) |
| `WitnessCheckpoints` | 9,654 | one peer in two events, three rosters, two transitions: a slot kept from the first roster to the third | `ReachesReader` (`SavedReopens`), `VouchedFor` (`RestoredIsAccepted`) |
| `PeerPresentations` | 22,821 | two devices, one behind; two challenges; the introduction and the policy end at the third time | `VouchedFor` (`ReleasedWasAccepted`) |
| `ProofRuntime` | 160 | two artifacts, two contents, two changes by the provider, two callers | `VouchedFor` (`UsesPinned`), `Released` (`BackendHeld`) |
| `HolderSeeds` | 52,898 | an owner, a holder's two devices of which the second replaces the first, nested periods in four times | `ReachesReader` (`SeedsOpen`), `VouchedFor` (`ServedByNamed`) |
| `KeyAccess` | 6,243 | three epochs, two overlapping, one that would reuse a key; two policies; eight requests | `TicketsKept` |
| `Rendezvous` | 25,067 | directory of one member for two, three challenges, two registrations at once | `AtMostOnce` (`ChallengeOnce`), `Released` (`OneSessionEach`) |
| `Forum` | 40,953 | three interchangeable members, group limit two, two introductions, blocks, absences or votes at once | `ForumRules` |
| `Receipts` | 12,880 | three members, two cohorts, two keys, six competing requests, two handlers | `AtMostOnce` (`ReceiptOnce`, `ReceivedWereSent`) |
| `Reciprocity` | 23,890 | three interchangeable members, three identities, three epochs, two retained links | `AtMostOnce` (`CreditOnce`), `ReachesReader` (`CatchUp`) |
| `AnonymousPermits` | 18,699 | two overlapping epochs, quota one, a claim or none, two handlers | `AtMostOnce` (`PermitOnce`, `QuotaHolds`) |
| `MemberProfiles` | 69,269 | two connections, two services, challenges and leases that end in three times | `AtMostOnce` (`AnsweredOnce`), `Released` (`NothingLeaks`) |
| `FramedSockets` | 1,570 | frames of two pieces, one byte too many | `ReachesReader` (`FramesInOrder`, `NoFalseClose`) |
| `PrototypeLedger` | 5,105 | five competing statements, two workers of two handle times, five starts | `AtMostOnce` (`AnsweredAsSent`, `OneChain`) |

The six properties that gather parts each ask one question: what may happen once happens once
(`AtMostOnce`), what is sound when written is accepted by who reads it later (`ReachesReader`), what
is used was vouched for (`VouchedFor`), what a session holds is given back with it (`Released`),
replicas keep one quota (`TicketsKept`), the forum's grants and consents hold (`ForumRules`).
`MapHolds` and `PathsProve` say of the two trees that what a prover takes from them, the circuit accepts.
Each of the fifteen parts has mutants of its own.

### Mutants

Each property is paired in `PROJECT.json` with variants of operators of its modules
(`ExtendsAnyVersion`, `UncountedFirst`, `FloorKept`, ...), bugs one could make in that line of
code: with the variant in place the same run finds the property violated. The variants stand
beside the operators they replace and nothing else uses them.

## 4. Theorems

`AccountStateProofs`: for any policy that satisfies `PolicyAssumption`, any finite set of events
and any waits, `TypeCorrect`, `CreditConserved`, `CapacityKept`, `RateKept`, `MarkersUnspent`,
`BondsComeBack` and `RefillsSpaced`. The inductive invariant `IInv` is needed because none of these
is inductive alone:

- `Counted` relates the stored window and its count to the per-window history, which `AdmissionRate`
  needs when a proof is dated in an earlier window than the clock's;
- `OpeningValid` says that what the circuit asks of the old opening holds at the ledger's time: the
  frontier is between the account's creation and the proof validity the clock allows, the last
  grant came before it, and the admission window is not later than the clock's. `RefillSpacing` and
  the refunds need it;
- `LeasesWithinPolicy` dates every obligation in the past and ends its lease inside the policy, for
  `ReleasedBondRefundable`;
- `OneRole` and `MarkersOfDone` say that an event lives in one map at most and that spent markers
  are of finished obligations, for `HeldMarkerUnspent`;
- `Unborn` says that nothing happened before genesis;
- `WithinCapacity` holds with `Conservation` because the capacity only grows with age
  (`LimitsMonotone`), so a proof dated in the past stays within what the clock allows;
- `Conservation` itself bounds `available`, and rests on lemmas that count how a map's held set
  grows or shrinks by one (`UnitsAfterOne`, `ConservationUnits`).

`AccountLedgerProofs`: for any requests, handles, authorities, waits and clock readings,
`TypeCorrect`, `OneChain`, `MarkersSpentOnce`, `TimesInOrder`, `AsStated` and `UnderCurrentWait`.
Here `IInv` is the conjunction of the five invariants: the commit re-reads the head, the marker,
the clock and the configuration under the lock, so what was read before verification need not be
invariant, which is the point of the code's second check.

Its second part is `ImplementsAccountChain`, that the ledger with its handles, verifications outside
the lock, lost answers and crashes implements `AccountChain`. A commit appends to one owner's chain;
every other step recalls one of its elements or says nothing. `Gapless` is what the refinement needs
beyond the ledger's own invariant: an owner's accepted versions are 0 up to the head's, so that the
chain has an element at each position. `AccountActor` builds on this result.

The second part of `AccountStateProofs` is about the maps it stands on, `IndexedTree`: for any keys,
payloads and capacity and any witness a prover chooses,
`AlwaysRestorable` and `AlwaysSound`, together `MapAlwaysHolds`, and the refinement `RefinesEntries`. `Restorable`, with the types, is
inductive (`TreeInv`): keys are distinct and each leaf links to the smallest key above its own. It says
so without counting or recursion, so that an insertion disturbs one gap only (`GapIsClear`,
`InsertLeaves`, `InsertKeeps`); what a witness proves and the refinement follow from it.

`AccountActorProofs`: for any number of devices, of processes on each, of requests and refreshes,
`OpeningKept`, `OneRequestOutstanding` and `StorageNeverRollsBack`. The parts of `IInv` (each also
checked by TLC on the instance of `account_actor`):

- `Chained` and `MadeOnce`: accepted requests are linked by their states, each drawn for one request;
- `JournalsSound`: what a journal holds as pending follows what it holds as accepted, on disk and in
  every process, so an accepted pending request is the chain's next one (`PendingFollows`);
- `Revised`: a process holds what its storage held at that revision, and no process is ahead of its device's
  storage, which is what the compare-and-swap turns into `NeverRollsBack`;
- `Known`: a request that was ever saved is still pending on its device, accepted, or expired by the
  ledger's clock. Hence at most one that was sent can still be accepted, also after it was dropped
  and replaced, and the one that is accepted finds its opening on disk;
- `AtPoint`: what a process relies on at each `await`, which no step of another may disturb
  (`PointsElsewhere`).

The second part of `KeyServiceProofs` is about the ledger its permits come from, `Allocation`:
`AllowanceNeverExceeded` and `SignaturesPaid`. `AllowanceInv` says that a nonce has one
reservation and one debit, that a row is dated by its latest debit and never after the floor, and
that what was drawn since any period, with what is left, is within what that span allows. The step
over idle periods is arithmetic that is not linear (`LimitMonotone`).

`KeyServiceProofs`: `StampedOnce`, `OneKeyPerPermit`, `PaidTicketsKept` and `GrantsAreCurrent`, for
any readers, limits and times. `IInv` says that the operator's stamps of a token are one
(`StampsSound`), that a used challenge stays used until it expires or its session ends, whatever the
handlers awaiting verdicts do (`HandlersApart`, `KeysCounted`), and that what a reader drew is on disk
before it leaves (`DrawnIsKept`). Its assumption is `KeyServiceAssumption`.

`ProfilePublisherProofs`: `OneWriteUncertain` and `KeyOfServed`, for any lifetimes, numbers and times.
Six facts hold together in `IInv`: sequence numbers are taken before anything is made of them
(`Sequenced`); a write that may still be accepted is the client's, in its journal and its memory
(`OpenIsKept`); the publication of such a write is pending on disk and in memory (`PendingIsKept`); one
that is active was accepted (`ActiveIsAccepted`), so nothing of it is left in flight when the journal
is cleared; once the latest is accepted the cache serves no older one of the device
(`LatestIsServed`), which is when the publisher may forget the key before; and `KeyHeld`.

`EnrollmentProofs`: for any delegations, members, handlers, slots, times, lengths and limits, and for
either store, `TypeCorrect`, `WaitSuffices` and `BindingsStay`. `IInv` says what the one transaction
that lists the members gives to every later step: each publication there is, in a handler's hands, in
a row or as a root, was listed in its own slot (`AllListed`), from a table that only moves forward
(`History`). `WaitIsEnough` is then said of every such publication (`NobodyForgotten`), not of roots
only, because a handler may install long after it listed.

`OneRootServed` and `InstalledHistory` have two premises: `~Remote`, the store of
`enrollment-store.mjs`, and `RetentionFits`, that as many publications as it retains fit its limit in
bytes. The second one is a condition on a deployment that the store does not ensure; without it they
are false, as `enrollment_pruned` shows. Their invariant (`Retention`) is then the rule of slots seen
over time. The rows are always the newest slots that were ever put (`SqliteKeepsNewest`), so a slot
that has lost its row is older than every row, and as many as `MaxRetained` are there (`Outlived`): it
can never be put again. A handler that is still to install or mark has either its own publication in
the row, or nothing to mark. `StoresPruneAlike` is about the two rules as such, for any texts: where
the limit in bytes decides, there is no difference between the stores.

`DiscoveryProofs`: for any members, devices, requests, handlers, times and limits, with late scripts
or without, `TypeCorrect`, `QuotasHold`, `SupersededIsNotServed`, `LeasesMoveOn` and `RevisionsFence`.
`NoLateNoOverwrite` is the sentence of docs/discovery.md that `discovery_late` refutes, under the
assumption that no script runs late: late scripts are all that is wrong with it. Each part of `IInv`
says which row still remembers what a request could undo, and that the row is kept until such a
request has expired, which is what `retain_until` is computed for:

- `Fenced`: a replaced publication has expired, or its owner's row has one of a higher sequence
  (`Owned`: a row outlives its publication). A row that replaces its publication therefore gets one
  that never was current (`NeverAgain`), which also makes payments unique (`PaidKnown`);
- `LeasesRemembered`: for as long as a request signed before a lease change is valid, the row has the
  lease at the sequence of that change;
- `ChargesCounted`: what was charged in a window is within the quota and counted in the row until the
  window has passed;
- `Revisions`: a handler that finds its revision in the row was the last to write it.

`PartsProofs` is about the parts of `MCParts`, for any values of their constants. A step there is one
of a single part (`StepsOfParts`), so every part has an inductive invariant of its own and a theorem
puts together what the parts of a property promise:

- `EpochsOfTickets` (`TicketsKept`): until the durable floor has passed its end, an epoch has one
  policy, which every replica opened with, and its counters are the numbers of its signatures
  (`PoliciesPinned`, `TicketsCounted`); afterwards nothing is signed in it and counters may go.
- `UsedIsVouchedFor` (`VouchedFor`): for the holders' keys, that an offer, a seed and what a holder
  serves are within each other's periods; for presentations, that what is shown is of a state the
  ledger accepted and that a late check is bound by the earliest of three ends; for the proof runtime,
  that every file below the one being read has the pinned digest (`Loaded`); for wallet files, that
  what an honest device saved is the accepted state of its version, and that a damaged file which
  still agrees with the ledger's commitment has the same slots.
- `ForumKeepsRules` (`ForumRules`): what an account has left, with what it has pending, is within
  what the epochs granted; every member of a group but its founder was accepted by another.
- `HeldIsReleased` (`Released`): for the rendezvous, that directory and sessions are each other's
  inverse (`Paired`), so that a bound on one is a bound on the other; for member profiles, that a
  challenge once claimed stays marked until it has expired or its session is over (`Settled`), which
  holds because a service activates its owner once (`ServiceOpen`), and that the owner's count is of
  the connections that work on a proof (`ProofsCounted`); for the runtime, who may use the backend.
- `OnceIsOnce` (`AtMostOnce`), from what each prototype's database still knows: for receipts, that a
  nullifier outlives its cohort, that a cohort whose rows were pruned is registered under its one
  configuration and never opens again (`CohortsKept`), and that whatever a key signed is recorded for
  as long as its cohort is there (`SignaturesAuthorized`), so that each spend has an authorization of
  its own (`SpendsAreFewer`); for reciprocity, that bindings only grow and a checkpoint's members were
  bound; for permits, that what was granted or accepted is in a row or its epoch stays retired
  (`QuotasCounted`, `SpendsRemembered`); for the prototype ledger, that an owner's answers are versions
  1 to the account's (`PrototypeInv`); and the challenges of the rendezvous and of profiles.
- `WrittenReachesReader` (`ReachesReader`), from what writers keep for later readers:
  - seeds: a publication's period is within its owner's authority, a delegation's within the
    publication and the holder's authority (`PublishedWithin`, `DelegatedWithin`), and a seed is sealed
    for the offer it answers (`SealedForOffer`): while the delegation has not ended nothing around it has;
  - wallet files: every file of the ledger's version is an export of the slots the ledger accepted,
    one for each event (`SavedInv`), so it opens under whatever roster its root is accepted for;
  - checkpoints: epochs rise, each names the one published before it, and the links kept are the
    newest without a gap (`LinksInv`), so a member who is not further behind than they reach catches up;
  - sockets: how many frames an end has read and written follows from its place in the script
    (`ScriptCounts`); what it took from the wire is what it read and at most one frame that waits
    (`EndInv`); and until one end is through or the connection was cut, the wire has carried what the
    other end wrote and no more than the next frame to be read (`InStep`, `DataWelcome`), so no end
    closes on its peer's frames.

Assumptions: the named assumptions on constants in the modules (`PolicyAssumption`, `RequestShape`,
`NoMemberIsNoRow`, `NoneIsNothing`, the parts' `TicketConstants` to `OwnerConstants` and the like, some of
them that a value for "nothing" is no value of the type, and `SizesAreNumbers`), which TLC evaluates
in every run. `RequestShape` states what `execute` has verified of a request before the stores see
it, among it that a publication carries the admission of the member who asks for it. The mathematical facts come from the library's theorems about finite sets and
well-founded relations.

Only model-checked: `PendingResolved`, which is liveness under fairness and like ENABLED outside the
prover's reach, and `PathsProve`: `SparseTree` computes roots by recursion over the tree's levels, and
what a recursive definition computes takes an induction over data.

## 5. What is not modelled

- Cryptography, encodings, and the stateless verification of grants and authorizations
  (`src/admission.rs`): assumed sound and left to tests; a refused object is no step of what calls it.
- The presence board: an ordered map with expiries behind one lock, in one process. Its calls are
  single steps and its unit tests enumerate them. Its replay floors go with their entries and with
  the process (board.rs:184) by design, and nothing else reads its state.
- The discovery HTTP service and the pool of verifier processes: a semaphore's permit that moves into
  a blocking task (discovery_api.rs:122) and a count that falls when a child is dropped
  (accounting_service.rs:200). Both are Rust ownership and not a protocol.
- Browser bindings, build files, studies, harnesses and drivers: conversions, and fixed sequences
  of calls of the components above.
- Of discovery: the memory store (one process, one lock, the same `transition`), filters, pages and
  their cursors. Of permits: blinding and the wallet's format. Of the actor: the typed signer.
  Of the forum: the simulator's personalities and statistics. Of the receipts: the release variant
  of the statements and the wallets. Of the zero-knowledge groups of reciprocity: all but who is in.
- Between modules: the allowance of two epochs is one ledger in `Allocation`, but the registry of
  keys is also used by key access when an operator puts both in one database; the modules treat their
  registries separately. `AccountActor` orders saves and sends, `WitnessCheckpoints` says which files
  reopen; a transition is accepted and saved at once there. A host that calls `publish` again before
  `retryPending` waits behind the client's uncertain write (publisher.js:57); nothing in the code
  obliges it to retry first, so no progress is claimed for the publisher.
