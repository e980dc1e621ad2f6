------------------------------- MODULE Forum --------------------------------
(***************************************************************************)
(* The rules experiment (src/forum.js) with its groups (groups.js): one    *)
(* object, called by the simulator (simulate.js) in any order.  Members    *)
(* spend tokens on introductions, which are accepted, replied, declined or *)
(* expire; an imbalance between what one sends and receives gates both;    *)
(* epochs grant tokens, which a vote moves.  A group is entered by         *)
(* invitation, which is an introduction.                                   *)
(*                                                                         *)
(* A call that is rejected changes nothing but the clock (and a count of   *)
(* reasons, left out), which Tick stands for.                              *)
(***************************************************************************)
EXTENDS Integers, FiniteSets, FiniteSetsExt

CONSTANTS
    Forumers,       \* synthetic members
    policy,         \* as ForumExperiment's, without the epoch's grant
    InitialGrant,   \* policy.epochGrant, which votes move
    GroupLimit,
    MaxTurns,       \* bound on ticks and epochs together
    MaxChoices      \* bound on introductions, blocks, absences, closed members and votes at once

(* Assumed wherever the module is instantiated: what both constructors     *)
(* require of their policies, and that there is a member.                  *)
ForumConstants ==
    /\ Forumers # {}
    /\ policy.initialTokens \in Nat /\ policy.tokenCap \in Nat /\ policy.maxEpochGrant \in Nat
    /\ policy.growthPerActiveEpoch \in Nat /\ policy.requestTtl \in Nat
    /\ policy.initialTokens <= policy.tokenCap
    /\ InitialGrant \in Nat /\ GroupLimit \in Nat \ {0, 1}

VARIABLES
    forumNow, epoch, epochGrant,
    known,          \* members that have connected
    presence,       \* member -> deadline, 0 if offline
    account,        \* member -> [tokens, approaches, granted, activeEpochs, activity, open]
    flows,          \* [member, direction, epoch] -> counted, by window
    blocks,         \* <<owner, other>>
    contacts,       \* [from, to, deadline, status], one for each pair
    votes,          \* member -> -1, 0, 1
    group           \* [members, invitations], of one group; no members: not made

forumVars == <<forumNow, epoch, epochGrant, known, presence, account, flows, blocks,
               contacts, votes, group>>

Directions == {"sent", "received"}
Init ==
    /\ forumNow = 0 /\ epoch = 0 /\ epochGrant = InitialGrant
    /\ known = {} /\ presence = [m \in Forumers |-> 0]
    /\ account = [m \in Forumers |-> [tokens |-> policy.initialTokens, approaches |-> 0,
            granted |-> policy.initialTokens, activeEpochs |-> 0, activity |-> FALSE,
            open |-> TRUE]]
    /\ flows = [m \in Forumers |-> [d \in Directions |-> [e \in 0 .. MaxTurns |-> 0]]]
    /\ blocks = {} /\ contacts = {} /\ votes = [m \in Forumers |-> 0]
    /\ group = [members |-> {}, invitations |-> {}]

others == <<forumNow, epoch, epochGrant, known, presence, blocks, votes>>
-----------------------------------------------------------------------------
Smaller(a, b) == IF a < b THEN a ELSE b
Greater(a, b) == IF a > b THEN a ELSE b

Tick ==
    /\ forumNow + epoch < MaxTurns
    /\ forumNow' = forumNow + 1
    /\ presence' = [m \in Forumers |-> IF presence[m] <= forumNow' THEN 0 ELSE presence[m]]
    /\ contacts' = {IF c.status = "pending" /\ c.deadline <= forumNow'
                    THEN [c EXCEPT !.status = "expired"] ELSE c : c \in contacts}
    /\ UNCHANGED <<epoch, epochGrant, known, account, flows, blocks, votes, group>>

FewChoices == Cardinality(contacts) + Cardinality(blocks)
    + Cardinality({m \in known : presence[m] = 0})
    + Cardinality({m \in Forumers : ~ account[m].open})
    + Cardinality({m \in Forumers : votes[m] # 0}) < MaxChoices

Connect(m) ==
    /\ known' = known \cup {m}
    /\ presence' = [presence EXCEPT ![m] = forumNow + policy.presenceTtl]
    /\ UNCHANGED <<forumNow, epoch, epochGrant, account, flows, blocks, contacts, votes, group>>

Disconnect(m) ==
    /\ presence[m] > 0 /\ FewChoices
    /\ presence' = [presence EXCEPT ![m] = 0]
    /\ UNCHANGED <<forumNow, epoch, epochGrant, known, account, flows, blocks, contacts,
                   votes, group>>

SetOpen(m, open) ==
    /\ m \in known /\ (open \/ FewChoices)
    /\ account' = [account EXCEPT ![m].open = open]
    /\ UNCHANGED <<others, flows, contacts, group>>

Block(m, other) ==
    /\ m \in known /\ FewChoices /\ blocks' = blocks \cup {<<m, other>>}
    /\ UNCHANGED <<forumNow, epoch, epochGrant, known, presence, account, flows, contacts,
                   votes, group>>
Unblock(m, other) ==
    /\ <<m, other>> \in blocks /\ blocks' = blocks \ {<<m, other>>}
    /\ UNCHANGED <<forumNow, epoch, epochGrant, known, presence, account, flows, contacts,
                   votes, group>>

(* gate: both are here, and neither has blocked the other. *)
Gate(a, b) ==
    /\ a # b /\ presence[a] > 0 /\ presence[b] > 0
    /\ <<a, b>> \notin blocks /\ <<b, a>> \notin blocks

Counted(f, m, direction) == [f EXCEPT ![m][direction][epoch] = @ + 1]

(* Over the windows kept, or over all time when none is configured. *)
Windows ==
    IF policy.imbalanceEpochs = 0 THEN 0 .. epoch
    ELSE Greater(0, epoch - policy.imbalanceEpochs + 1) .. epoch
Flow(m, direction, epochs) == MapThenSumSet(LAMBDA e : flows[m][direction][e], epochs)
Imbalance(m) == Flow(m, "sent", Windows) - Flow(m, "received", Windows)

Between(a, b) == {c \in contacts : {c.from, c.to} = {a, b}}
Pending(m) == {c \in contacts : c.to = m /\ c.status = "pending"}
Established(a, b) == \E c \in Between(a, b) : c.status = "replied"
Becomes(c, status) == contacts' = (contacts \ {c}) \cup {[c EXCEPT !.status = status]}

Delivered(from, to) ==
    /\ Gate(from, to) /\ Between(from, to) = {}
    /\ FewChoices
    /\ account[to].open
    /\ Cardinality(Pending(to)) < policy.pendingCap
    /\ Imbalance(from) < policy.maxImbalance
    /\ account[from].tokens >= 1
    /\ account' = [account EXCEPT ![from].tokens = @ - 1, ![from].approaches = @ + 1]
    /\ flows' = Counted(flows, from, "sent")
    /\ contacts' = contacts \cup {[from |-> from, to |-> to, status |-> "pending",
                                   deadline |-> forumNow + policy.requestTtl]}
    /\ UNCHANGED others

Introduce(from, to) == Delivered(from, to) /\ UNCHANGED group

MayAccept(c) ==
    Gate(c.from, c.to) /\ c.status = "pending" /\ - Imbalance(c.to) < policy.maxImbalance
Accept(c) ==
    /\ MayAccept(c)
    /\ flows' = Counted(flows, c.to, "received")
    /\ Becomes(c, "accepted")
    /\ UNCHANGED <<others, account, group>>

(* A first reply counts for both, whatever their imbalance. *)
CountedReply(c) == Counted(Counted(flows, c.to, "sent"), c.from, "received")
Reply(c) ==
    /\ Gate(c.from, c.to) /\ c.status = "accepted"
    /\ flows' = CountedReply(c)
    /\ account' = [account EXCEPT ![c.from].activity = TRUE, ![c.to].activity = TRUE]
    /\ Becomes(c, "replied")
    /\ UNCHANGED <<others, group>>

Decline(c) ==
    /\ Gate(c.from, c.to) /\ c.status = "pending"
    /\ Becomes(c, "declined")
    /\ UNCHANGED <<others, account, flows, group>>

Vote(m, direction) ==
    /\ policy.voting /\ presence[m] > 0 /\ votes[m] = 0 /\ FewChoices
    /\ votes' = [votes EXCEPT ![m] = direction]
    /\ UNCHANGED <<forumNow, epoch, epochGrant, known, presence, account, flows, blocks,
                   contacts, group>>

Sign(n) == IF n > 0 THEN 1 ELSE IF n < 0 THEN -1 ELSE 0
Unclipped(tokens) == tokens
Capped(tokens) == Smaller(policy.tokenCap, tokens)

AdvanceEpoch ==
    /\ forumNow + epoch < MaxTurns
    /\ epoch' = epoch + 1
    /\ epochGrant' = IF ~ policy.voting THEN epochGrant ELSE
        Greater(0, Smaller(policy.maxEpochGrant,
            epochGrant + Sign(MapThenSumSet(LAMBDA m : votes[m], Forumers))))
    /\ votes' = [m \in Forumers |-> 0]
    /\ account' = [m \in Forumers |->
        LET a == account[m]
            active == a.activeEpochs + (IF a.activity THEN 1 ELSE 0)
            grant == Smaller(policy.maxEpochGrant,
                             epochGrant' + active * policy.growthPerActiveEpoch)
        IN  IF m \notin known THEN a
            ELSE [a EXCEPT !.activeEpochs = active, !.activity = FALSE,
                    !.granted = @ + grant, !.tokens = Capped(@ + grant)]]
    /\ UNCHANGED <<forumNow, known, presence, flows, blocks, contacts, group>>
-----------------------------------------------------------------------------
(* Groups *)

Create(owner) ==
    /\ group.members = {} /\ presence[owner] > 0
    /\ group' = [group EXCEPT !.members = {owner}]
    /\ UNCHANGED <<others, account, flows, contacts>>

Invite(inviter, m) ==
    /\ inviter \in group.members /\ m \notin group.members
    /\ Cardinality(group.members) < GroupLimit
    /\ \A i \in group.invitations : i.to # m
    /\ \/ Delivered(inviter, m)
       \/ Gate(inviter, m) /\ Established(inviter, m)
          /\ UNCHANGED <<others, account, flows, contacts>>
    /\ group' = [group EXCEPT !.invitations = @ \cup
            {[from |-> inviter, to |-> m, established |-> Established(inviter, m)]}]

(* join: an invitation that came with an introduction accepts it and       *)
(* replies, unless the recipient had done so; it may fail in between.      *)
Joining(i) == [members |-> group.members \cup {i.to}, invitations |-> group.invitations \ {i}]
Invited(i) == {c \in contacts : c.from = i.from /\ c.to = i.to}
AlwaysPlace == TRUE
HasPlace == Cardinality(group.members) < GroupLimit

JoinKnown(i) ==
    /\ HasPlace /\ Gate(i.from, i.to) /\ Established(i.from, i.to)
    /\ group' = Joining(i)
    /\ UNCHANGED <<others, account, flows, contacts>>

JoinByReply(i) ==
    /\ HasPlace /\ ~ i.established
    /\ \E c \in Invited(i) :
        /\ c.status = "accepted" /\ Gate(c.from, c.to)
        /\ flows' = CountedReply(c)
        /\ account' = [account EXCEPT ![c.from].activity = TRUE, ![c.to].activity = TRUE]
        /\ Becomes(c, "replied")
    /\ group' = Joining(i)
    /\ UNCHANGED others

JoinAtOnce(i) ==
    /\ HasPlace /\ ~ i.established
    /\ \E c \in Invited(i) :
        /\ MayAccept(c)
        /\ flows' = Counted(CountedReply(c), c.to, "received")
        /\ account' = [account EXCEPT ![c.from].activity = TRUE, ![c.to].activity = TRUE]
        /\ Becomes(c, "replied")
    /\ group' = Joining(i)
    /\ UNCHANGED others

Next ==
    \/ Tick \/ AdvanceEpoch
    \/ \E m \in Forumers :
        \/ Connect(m) \/ Disconnect(m) \/ Create(m)
        \/ \E open \in BOOLEAN : SetOpen(m, open)
        \/ \E direction \in {-1, 1} : Vote(m, direction)
        \/ \E other \in Forumers :
            Block(m, other) \/ Unblock(m, other) \/ Introduce(m, other) \/ Invite(m, other)
    \/ \E c \in contacts : Accept(c) \/ Reply(c) \/ Decline(c)
    \/ \E i \in group.invitations : JoinKnown(i) \/ JoinByReply(i) \/ JoinAtOnce(i)

Spec == Init /\ [][Next]_forumVars
-----------------------------------------------------------------------------
(* No group grows past its limit, and whoever is in it besides its first   *)
(* member has an established contact with another member, however          *)
(* invitations, replies, joins and expiries interleave (groups.js:38-58).  *)
GroupConsent ==
    /\ Cardinality(group.members) <= GroupLimit
    /\ \E first \in Forumers : \A m \in group.members \ {first} :
            \E other \in group.members : Established(m, other)

(* What the simulation claims of every run (simulate.js:142-150): nobody   *)
(* approaches, or could still approach, more than was granted, and         *)
(* balances stay within the cap.                                           *)
WithinGrants == \A m \in Forumers :
    /\ account[m].approaches + account[m].tokens <= account[m].granted
    /\ account[m].tokens \in 0 .. policy.tokenCap
=============================================================================
