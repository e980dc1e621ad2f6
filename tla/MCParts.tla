------------------------------- MODULE MCParts -------------------------------
(***************************************************************************)
(* A small instance of each component that shares no state with another:   *)
(* the indexed tree of the account proofs and the sparse tree under it,    *)
(* the wallet's checkpoints, the presentations and the proof runtime of an *)
(* account, the holders of a profile's key, the rendezvous and forum       *)
(* libraries and the prototypes under experiments.  A behaviour is one of  *)
(* a single part; the others keep their initial states.                    *)
(***************************************************************************)
EXTENDS IndexedTree, FiniteSets, TLC

CONSTANTS ada, ben, cyd         \* Forumers, and Holders
CONSTANTS
    Members, Cohorts, Services, Requests, Redemptions, IssueHandlers, ReceiptTimes, Idle,
    Holders, Identities, Policies, GrantEnds, challengeSeconds, epochSeconds, minAnonymity,
    maxRetainedLinks, RegistryTimes, MaxChallenges,
    Forumers, policy, InitialGrant, GroupLimit, MaxTurns, MaxChoices,
    Grants, leaseSeconds, replySeconds, maxMembers, maxReplayEntries, MaxRdvTime, MaxBegun,
    MaxRegistering,
    Epochs, Allocations, Quotas, Blindings, Claims, NoClaim, PermitTimes, MaxHandlers,
    Connections, maxConcurrentProofs, maxReplayMarks, challengeLife, leaseLife,
    MaxProfileTime, MaxServices, MaxChallenged,
    Pieces, MaxExtra,
    Requesters, TicketIds, TicketContexts, SigningKeys, Messages, TicketRequests, TicketEpochs,
    TicketPolicies, TicketTimes,
    Owners, Statements, RequestIds, Versions, Workers, WorkerTimes, NoHandle, MaxWorkers,
    Authorities, maxProfileSeconds, maxKeySeconds, MaxSeedTime, MaxPublished, MaxOffers,
    MaxSeeds, MaxPairs,
    Devices, PeerChallenges, checkpointSeconds, abandonAfter, policyValidUntil, authorityLife,
    MaxPeerTime, MaxStates, MaxPresented, MaxChecks,
    Names, Contents, SizeOf, maxTotalBytes, Callers, MaxChanges,
    Peers, owner, PeerOf, AmountOf, MaxRosters, MaxVersion,
    DEPTH, LeafHashes, MaxLeaves

VARIABLES
    part,
    receiptFloor, keys, cohorts, sent, received, authorizations, nullifiers, spends,
    issuing, signed,
    enrollFloor, challenges, replays, bindings, qualified, checkpoints, links, acknowledged,
    forumNow, epoch, epochGrant, known, presence, account, flows, blocks, contacts, votes,
    group,
    rdvNow, members, sessions, used, asked, begun, registering, registered,
    through, allocations, issuances, spent, signing, redeeming, granted, accepted,
    profileNow, service, serving, lease, publications, session, consumed, verifying, served,
    challenged, answers,
    ends, carried, extra, cut,
    floor, registry, configs, issued, issues, replicas, ticketed,
    highTime, accounts, markers, requests, handles, started, replies,
    seedNow, published, pairs, offers, making, seeds, holding, servings,
    peerNow, states, device, proving, presented, checks, released,
    buffers, changes, snapshot, reading, total, phase, api, calls,
    rosters, pinned, ledgerState, memory, truth, files,
    kind, nodes, filled, witness

Receipt == INSTANCE Receipts
Registry == INSTANCE Reciprocity WITH Members <- Holders
Talk == INSTANCE Forum
Meeting == INSTANCE Rendezvous
Permit == INSTANCE AnonymousPermits WITH issuing <- signing
Profile == INSTANCE MemberProfiles WITH sessions <- served
Socket == INSTANCE FramedSockets
Ticket == INSTANCE KeyAccess WITH
    Members <- Requesters, Ids <- TicketIds, Contexts <- TicketContexts,
    Keys <- SigningKeys, Requests <- TicketRequests, Epochs <- TicketEpochs,
    Policies <- TicketPolicies, Times <- TicketTimes,
    opened <- replicas, signed <- ticketed
Prototype == INSTANCE PrototypeLedger WITH Closed <- NoHandle
Holder == INSTANCE HolderSeeds
Presenter == INSTANCE PeerPresentations
Runtime == INSTANCE ProofRuntime
Checkpoint == INSTANCE WitnessCheckpoints
Sparse == INSTANCE SparseTree

ASSUME TicketConstants == Ticket!KeyAccessConstants
ASSUME PresenterConstants == Presenter!PeerConstants
ASSUME WitnessConstants == Checkpoint!CheckpointConstants
ASSUME ForumersConstants == Talk!ForumConstants
ASSUME ProofRuntimeConstants == Runtime!RuntimeConstants
ASSUME MeetingConstants == Meeting!RendezvousConstants
ASSUME AcknowledgementConstants == Receipt!ReceiptConstants
ASSUME WorkerConstants == Prototype!PrototypeConstants
ASSUME PermitsConstants == Permit!PermitConstants
ASSUME AuthoritiesConstants == Holder!HolderConstants
ASSUME CheckpointsConstants == Registry!RegistryConstants
ASSUME FrameConstants == Socket!SocketConstants
ASSUME OwnerConstants == Profile!ProfileConstants
-----------------------------------------------------------------------------
Symmetry == Permutations(Forumers)

Blinded(domain, member, serial) == [domain |-> domain, member |-> member, serial |-> serial]
Cohort(cohort, key, last, most) ==
    [cohort |-> cohort, key |-> key, notBefore |-> 1, issueUntil |-> last,
     redeemUntil |-> last + 1, maxSend |-> most, maxReceive |-> most]
MCServices == {Cohort(1, 1, 2, 1), Cohort(2, 1, 4, 2), Cohort(2, 2, 4, 2)}

Request(cohort, sender, nonce, blinded, from, until) ==
    [cohort |-> cohort, sender |-> sender, nonce |-> nonce, prover |-> blinded.member,
     blinded |-> blinded, from |-> from, until |-> until]
MCRequests == {
    Request(1, 1, 1, Blinded(2, 2, 1), 1, 3), Request(2, 1, 2, Blinded(1, 2, 2), 1, 4),
    Request(1, 1, 3, Blinded(1, 2, 1), 1, 3), Request(2, 1, 1, Blinded(1, 3, 1), 1, 4),
    Request(2, 1, 2, Blinded(2, 3, 1), 2, 5), Request(2, 2, 1, Blinded(2, 3, 2), 1, 4)}
MCRedemptions == {[blinded |-> r.blinded, from |-> 1, until |-> 4] : r \in MCRequests}

MCPolicy == [initialTokens |-> 2, maxEpochGrant |-> 2, tokenCap |-> 2,
    growthPerActiveEpoch |-> 1, imbalanceEpochs |-> 1, maxImbalance |-> 1, pendingCap |-> 1,
    requestTtl |-> 1, presenceTtl |-> 1, voting |-> TRUE]

Grant(member, from, until) == [member |-> member, issuedAt |-> from, expiresAt |-> until]
MCGrants == {Grant(1, 1, 3), Grant(2, 1, 4)}

MCEpochs == {[name |-> 1, notBefore |-> 1, expiresAt |-> 3],
             [name |-> 2, notBefore |-> 2, expiresAt |-> 4]}

(* Tickets: a first epoch, a second that would reuse its key, and a third  *)
(* that overlaps the first with a key of its own.                          *)
Ask(member, id, context, message, from, until) ==
    [member |-> member, id |-> id, context |-> context, message |-> message,
     issuedAt |-> from, expiresAt |-> until]
MCTicketRequests == {
    Ask(1, 1, 1, 1, 1, 3), Ask(1, 1, 1, 2, 1, 3), Ask(1, 2, 1, 2, 1, 3), Ask(2, 1, 1, 1, 2, 3),
    Ask(3, 1, 1, 1, 1, 3), Ask(2, 1, 2, 1, 4, 6), Ask(1, 1, 3, 1, 2, 5), Ask(2, 1, 3, 2, 3, 5)}
TicketEpoch(context, key, from, until, end) ==
    [context |-> context, key |-> key, validFrom |-> from, issueUntil |-> until,
     expiresAt |-> end]
MCTicketEpochs == {TicketEpoch(1, 1, 1, 3, 4), TicketEpoch(2, 1, 4, 6, 6), TicketEpoch(3, 2, 2, 5, 6)}
MCTicketPolicies == {[perMember |-> 1, members |-> 2, maxAuthorization |-> 3],
                     [perMember |-> 2, members |-> 1, maxAuthorization |-> 3]}

(* The prototype ledger: a successor of the seed, two that compete for its *)
(* place, one that reuses a marker, and another owner's.                   *)
Successor(of, old, next, marker, now) ==
    [owner |-> of, scope |-> 1, old |-> old, next |-> next, marker |-> marker, now |-> now]
MCStatements == {Successor(1, 0, 1, 1, 1), Successor(1, 1, 2, 2, 1), Successor(1, 1, 2, 1, 2),
                 Successor(1, 0, 2, 2, 2), Successor(2, 0, 1, 1, 1)}

(* The owner's device, and two of another member, the second of which      *)
(* replaces the first.                                                     *)
Authority(member, id, from, until) ==
    [member |-> member, device |-> id, from |-> from, until |-> until]
MCAuthorities == {Authority(1, 1, 1, 4), Authority(2, 2, 1, 5), Authority(2, 3, 2, 4)}

MCSizeOf == <<1, 3>>
MCPeerOf == <<2, 2>>
MCAmountOf == <<1, 2>>
-----------------------------------------------------------------------------
Parts == {"tree", "receipts", "registry", "forum", "rendezvous", "permits", "profiles",
          "sockets", "tickets", "prototype", "holders", "presentations", "runtime",
          "checkpoints", "paths"}

Init ==
    /\ part \in Parts
    /\ TreeInit /\ Receipt!Init /\ Registry!Init /\ Talk!Init /\ Meeting!Init
    /\ Permit!Init /\ Profile!Init /\ Socket!Init /\ Ticket!Init
    /\ Prototype!Init /\ Holder!Init /\ Presenter!Init /\ Runtime!Init /\ Checkpoint!Init
    /\ IF part = "paths" THEN Sparse!Init
       ELSE kind = "none" /\ nodes = <<>> /\ filled = 0 /\ witness = {}

(* The variables of each part. *)
receiptVars == <<receiptFloor, keys, cohorts, sent, received, authorizations, nullifiers,
    spends, issuing, signed>>
registryVars == <<enrollFloor, challenges, replays, bindings, qualified, checkpoints, links,
    acknowledged>>
forumVars == <<forumNow, epoch, epochGrant, known, presence, account, flows, blocks, contacts,
    votes, group>>
rdvVars == <<rdvNow, members, sessions, used, asked, begun, registering, registered>>
permitVars == <<through, allocations, issuances, spent, signing, redeeming, granted, accepted>>
profileVars == <<profileNow, service, serving, lease, publications, session, consumed,
    verifying, served, challenged, answers>>
socketVars == <<ends, carried, extra, cut>>
ticketVars == <<floor, registry, configs, issued, issues, replicas, ticketed>>
prototypeVars == <<highTime, accounts, markers, requests, handles, started, replies>>
holderVars == <<seedNow, published, pairs, offers, making, seeds, holding, servings>>
presenterVars == <<peerNow, states, device, proving, presented, checks, released>>
runtimeVars == <<buffers, changes, snapshot, reading, total, phase, api, calls>>
checkpointVars == <<rosters, pinned, ledgerState, memory, truth, files>>
sparseVars == <<kind, nodes, filled, witness>>

(* A step of the part p, which leaves the others alone. *)
Only(p) ==
    /\ part = p /\ UNCHANGED part
    /\ IF p = "tree" THEN TRUE ELSE UNCHANGED treeVars
    /\ IF p = "receipts" THEN TRUE ELSE UNCHANGED receiptVars
    /\ IF p = "registry" THEN TRUE ELSE UNCHANGED registryVars
    /\ IF p = "forum" THEN TRUE ELSE UNCHANGED forumVars
    /\ IF p = "rendezvous" THEN TRUE ELSE UNCHANGED rdvVars
    /\ IF p = "permits" THEN TRUE ELSE UNCHANGED permitVars
    /\ IF p = "profiles" THEN TRUE ELSE UNCHANGED profileVars
    /\ IF p = "sockets" THEN TRUE ELSE UNCHANGED socketVars
    /\ IF p = "tickets" THEN TRUE ELSE UNCHANGED ticketVars
    /\ IF p = "prototype" THEN TRUE ELSE UNCHANGED prototypeVars
    /\ IF p = "holders" THEN TRUE ELSE UNCHANGED holderVars
    /\ IF p = "presentations" THEN TRUE ELSE UNCHANGED presenterVars
    /\ IF p = "runtime" THEN TRUE ELSE UNCHANGED runtimeVars
    /\ IF p = "checkpoints" THEN TRUE ELSE UNCHANGED checkpointVars
    /\ IF p = "paths" THEN TRUE ELSE UNCHANGED sparseVars

Next ==
    \/ Only("tree") /\ TreeNext
    \/ Only("receipts") /\ Receipt!Next
    \/ Only("registry") /\ Registry!Next
    \/ Only("forum") /\ Talk!Next
    \/ Only("rendezvous") /\ Meeting!Next
    \/ Only("permits") /\ Permit!Next
    \/ Only("profiles") /\ Profile!Next
    \/ Only("sockets") /\ Socket!Next
    \/ Only("tickets") /\ Ticket!Next
    \/ Only("prototype") /\ Prototype!Next
    \/ Only("holders") /\ Holder!Next
    \/ Only("presentations") /\ Presenter!Next
    \/ Only("runtime") /\ Runtime!Next
    \/ Only("checkpoints") /\ Checkpoint!Next
    \/ Only("paths") /\ Sparse!Next

partsVars == <<part, treeVars, receiptVars, registryVars,
    forumVars, rdvVars, permitVars, profileVars, socketVars, ticketVars, prototypeVars,
    holderVars, presenterVars, runtimeVars, checkpointVars, sparseVars>>

PartsSpec == Init /\ [][Next]_partsVars
-----------------------------------------------------------------------------
(* What may happen once happens once, whatever concurrent handlers, retries *)
(* and pruning do: a receipt, its spend (receipts.js:408-455, 312-338), a  *)
(* credit (enrollment.js:100-137), a permit's signature and its use        *)
(* (permits.js:113-146), a rendezvous challenge (rendezvous.js:176-184), a *)
(* profile challenge (protocol.js:227-248), a successor of a prototype     *)
(* account, whichever worker answers (ledger.mjs:131-165).                 *)
AtMostOnce ==
    /\ Receipt!ReceiptOnce /\ Receipt!ReceivedWereSent
    /\ Registry!CreditOnce
    /\ Permit!PermitOnce /\ Permit!QuotaHolds
    /\ Meeting!ChallengeOnce
    /\ Profile!AnsweredOnce
    /\ Prototype!AnsweredAsSent /\ Prototype!OneChain

(* What is sound when it is written is accepted by who reads it later: a   *)
(* checkpoint by a reader within the retained links (enrollment.js:149-    *)
(* 210), frames whole, once and in order, by an end that keeps to the      *)
(* protocol (wire.js:53-104), a holder's seed by the device that offered   *)
(* (keys.js:84-99), a stored account by its next process (checkpoint.mjs:  *)
(* 123-201).                                                               *)
ReachesReader ==
    /\ Registry!CatchUp
    /\ Socket!FramesInOrder /\ Socket!NoFalseClose
    /\ Holder!SeedsOpen
    /\ Checkpoint!SavedReopens

(* A leaf's path and an insertion's witness, as the prover's own tree      *)
(* gives them, are accepted by the circuit (hashes.mjs:81-146).            *)
PathsProve == part = "paths" => Sparse!PathsLeadToRoot /\ Sparse!InsertionAccepted

(* What is used was vouched for, by then and for this use: a key that a    *)
(* holder serves by its owner (keys.js:59-83), a presented slot by the     *)
(* operator (actor.mjs:288-316), a proof backend by the release            *)
(* (artifacts.mjs:16-74), a restored account by the ledger                 *)
(* (checkpoint.mjs:163-199).                                               *)
VouchedFor ==
    /\ Holder!ServedByNamed
    /\ Presenter!ReleasedWasAccepted
    /\ Runtime!UsesPinned
    /\ Checkpoint!RestoredIsAccepted

(* Who is in a group was accepted by another member of it, and nobody      *)
(* approaches beyond the grants (groups.js:38-58, simulate.js:142-150).    *)
ForumRules == Talk!GroupConsent /\ Talk!WithinGrants

(* What a session holds is given back with it: its place in the directory  *)
(* of members (rendezvous.js:101-109), its publication and the slot of its *)
(* proof (wire.js:122-126, 185, protocol.js:248); and a proof backend with *)
(* the runtime that uses it (runtime.mjs:60-114).                          *)
Released == Meeting!OneSessionEach /\ Profile!NothingLeaks /\ Runtime!BackendHeld

(* Replicas keep one quota per epoch, lose no ticket before its end and    *)
(* never use a key in two (key_access.rs:245-265, 341-361, 418-424).       *)
TicketsKept == Ticket!QuotaKept /\ Ticket!Recoverable /\ Ticket!OneEpochPerKey
=============================================================================
