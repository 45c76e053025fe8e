------------------------------- MODULE Fanout -------------------------------
(***************************************************************************)
(* How a speaker's voice reaches every listener (internal/peer/fanout.go,  *)
(* topology_message.go, bridge.go, room_datagram.go).  The speaker plans   *)
(* which of its direct neighbours receive its frames (the destinations)    *)
(* and which other listeners each of them forwards to (its assignment),    *)
(* from the neighbours its peers claim in topology snapshots.  It sends    *)
(* each destination its assignment and uses the plan once all are          *)
(* acknowledged; until then it sends to every direct neighbour itself.     *)
(*                                                                         *)
(* One speaker is modelled; a peer keeps what it forwards per speaker, and *)
(* each speaker plans alone.  Sessions are taken as Session establishes    *)
(* them and the fanout and topology channels as MessageChannel promises:   *)
(* in order, each message once, none after its session is replaced.  Peers *)
(* are numbered in the order of comparePeerIDs.  An address is the peer it *)
(* belongs to, so the test that an intermediary still has the address of   *)
(* the bridged path is always met.                                         *)
(***************************************************************************)
EXTENDS Naturals, Sequences, FiniteSets, FiniteSetsExt

CONSTANTS
    Peer,           \* the speaker's remote peers, positive numbers
    Nil,            \* a session's inboundFanout before the first assignment
    QueueLimit,     \* messages that a reliable channel holds before it refuses
    Network         \* the networks to start in and what happens there at most: link,
                    \* the pairs of nodes that can reach each other directly at first;
                    \* changes of links and of sessions; expiries, of claims
                    \* that are not repeated in time

Speaker == 0
Node == Peer \cup {Speaker}
Link(p, q) == {p, q}

ASSUME FanoutAssumption ==
    /\ Peer \subseteq Nat \ {0}
    /\ IsFiniteSet(Peer)
    /\ QueueLimit \in Nat \ {0}
    /\ \A s \in Network :
        s.link \subseteq kSubset(2, Node) /\ s.changes \in Nat /\ s.expiries \in Nat

VARIABLES
    link,           \* pairs of nodes that can reach each other directly
    path,           \* path[p]: the speaker's authenticated path to p: p itself
                    \* (direct), an intermediary, or 0 for none
    far,            \* far[p]: p's authenticated path to the speaker
    near,           \* near[p]: the peers p has authenticated direct sessions with
    lead,           \* lead[p]: which end of the session to p has promoted a
                    \* newer session that the other has not
    inbound,        \* inbound[p]: inboundFanout of p's session with the speaker
    assigned,       \* assigned[p]: assignments queued for p and not acknowledged
    snapshots,      \* snapshots[p]: topology snapshots p has queued for the speaker
    claims,         \* claims[p]: neighbours p has claimed and not taken back
    expired,        \* expired[p]: those of them whose claim has run out
    plan,           \* c.fanout
    dirty,          \* c.fanoutDirty
    armed,          \* activateAt has passed
    changes,        \* changes of links and of sessions still to come, at most
    expiries        \* the same of expiries

fanoutVars == <<link, path, far, near, lead, inbound, assigned, snapshots, claims,
                expired, plan, dirty, armed, changes, expiries>>

channels == <<lead, inbound, assigned, snapshots>>
planning == <<plan, armed>>
topology == <<claims, expired>>

Direct == {p \in Peer : path[p] = p}
Listeners == {p \in Peer : path[p] # 0}

NoPlan == [destinations |-> {}, assignments |-> [p \in Peer |-> {}]]

TypeOK ==
    /\ link \subseteq kSubset(2, Node)
    /\ path \in [Peer -> Node]
    /\ far \in [Peer -> {"none", "direct", "bridge"}]
    /\ near \in [Peer -> SUBSET Peer]
    /\ lead \in [Peer -> {"same", "speaker", "peer"}]
    /\ \A p \in Peer :
        /\ inbound[p] \in (SUBSET Peer) \cup {Nil}
        /\ Len(assigned[p]) <= QueueLimit
        /\ Len(snapshots[p]) <= QueueLimit
        /\ expired[p] \subseteq claims[p]
        /\ claims[p] \subseteq Peer \ {p}
    /\ plan.destinations \subseteq Peer
    /\ plan.assignments \in [Peer -> SUBSET Peer]
    /\ dirty \in BOOLEAN
    /\ armed \in BOOLEAN

\* The direct sessions of a setting are up, and nobody has been told of them.
FanoutInit ==
    /\ \E s \in Network : link = s.link /\ changes = s.changes /\ expiries = s.expiries
    /\ path = [p \in Peer |-> IF Link(Speaker, p) \in link THEN p ELSE 0]
    /\ far = [p \in Peer |-> IF Link(Speaker, p) \in link THEN "direct" ELSE "none"]
    /\ near = [p \in Peer |-> {q \in Peer \ {p} : Link(p, q) \in link}]
    /\ lead = [p \in Peer |-> "same"]
    /\ inbound = [p \in Peer |-> Nil]
    /\ assigned = [p \in Peer |-> <<>>]
    /\ snapshots = [p \in Peer |-> <<>>]
    /\ claims = [p \in Peer |-> {}]
    /\ expired = [p \in Peer |-> {}]
    /\ plan = NoPlan
    /\ dirty = TRUE
    /\ armed = FALSE

-----------------------------------------------------------------------------
(* The plan *)

\* What a direct neighbour would cover of the listeners still uncovered.
Coverage(f, uncovered) == uncovered \cap ({f} \cup (claims[f] \ expired[f]))

\* One round of buildFanoutPlan: the neighbour that covers most, and of equals
\* the first in the order of peer IDs, becomes a destination.
SelectForwarder(round) ==
    LET cover(f) == Cardinality(Coverage(f, round.uncovered))
        first(f) == \A g \in Direct : cover(g) < cover(f) \/ (cover(g) = cover(f) /\ f <= g)
        with(f, coverage) ==
            [uncovered |-> round.uncovered \ coverage,
             destinations |-> round.destinations \cup {f},
             assignments |-> [round.assignments EXCEPT ![f] = @ \cup (coverage \ {f})]]
    IN  IF \A f \in Direct : Coverage(f, round.uncovered) = {} THEN round
        ELSE CHOOSE next \in {with(f, Coverage(f, round.uncovered)) : f \in {g \in Direct : first(g)}} :
                TRUE

\* (The singletons make TLC evaluate each round and each plan once.)
BuildFanoutPlan ==
    LET rounds[n \in 0 .. Cardinality(Peer)] ==
            IF n = 0
            THEN [uncovered |-> Listeners, destinations |-> {},
                  assignments |-> [p \in Peer |-> {}]]
            ELSE CHOOSE next \in {SelectForwarder(round) : round \in {rounds[n - 1]}} : TRUE
    IN  CHOOSE greedy \in {[destinations |-> last.destinations, assignments |-> last.assignments] :
                               last \in {rounds[Cardinality(Peer)]}} : TRUE

\* Listeners on a bridged path whose intermediary is a direct neighbour get the
\* voice from that intermediary, whoever else claims them.
Forced == {p \in Listeners \ Direct : path[p] \in Direct}

\* A slip: the listeners taken over by their intermediary stay with the other too.
ConstrainFanoutToActivePathsTwice(greedy) ==
    [destinations |-> {f \in Direct : f \in greedy.destinations \/ \E p \in Forced : path[p] = f},
     assignments |-> [f \in Peer |->
        {p \in Listeners : p \in greedy.assignments[f] \/ (p \in Forced /\ path[p] = f)}]]

ConstrainFanoutToActivePaths(greedy) ==
    [destinations |-> {f \in Direct : f \in greedy.destinations \/ \E p \in Forced : path[p] = f},
     assignments |-> [f \in Peer |->
        {p \in Listeners : IF p \in Forced THEN path[p] = f ELSE p \in greedy.assignments[f]}]]

NewPlan ==
    CHOOSE new \in {ConstrainFanoutToActivePaths(greedy) : greedy \in {BuildFanoutPlan}} : TRUE

CanQueue(p) == Len(assigned[p]) < QueueLimit

\* refreshFanout and the rest of sendVoiceFrame that changes state.  Forwarders
\* that are no longer in the plan are sent an empty assignment; if any channel
\* is full nothing changes and the plan stays due.
RefreshFanout ==
    /\ dirty
    /\ \E new \in {NewPlan} :
        LET told == new.destinations \cup (plan.destinations \cap Direct)
        IN  /\ \A p \in told : CanQueue(p)
            /\ assigned' = [p \in Peer |->
                    IF p \in told THEN Append(assigned[p], new.assignments[p]) ELSE assigned[p]]
            /\ plan' = new
    /\ armed' = FALSE
    /\ dirty' = FALSE
    /\ UNCHANGED <<link, path, far, near, lead, inbound, snapshots, topology, changes, expiries>>

\* fanoutActivationDelay has passed since the plan was made.
ActivationDelayPasses ==
    /\ ~armed /\ plan.destinations # {}
    /\ armed' = TRUE
    /\ UNCHANGED <<link, path, far, near, channels, topology, plan, dirty, changes, expiries>>

\* A slip: acknowledgments are not waited for.
FanoutReadyAtOnce ==
    /\ plan.destinations # {}
    /\ armed
    /\ \A f \in plan.destinations : path[f] # 0

FanoutReady ==
    /\ plan.destinations # {}
    /\ armed
    /\ \A f \in plan.destinations : path[f] # 0 /\ assigned[f] = <<>>

\* sendVoiceFrame and sendRealtimePacketsToPeers: who is sent a frame.
Destinations == (IF FanoutReady THEN plan.destinations ELSE Direct) \cap Direct

\* forwardRoomDatagram: a peer forwards what comes from the speaker's own address,
\* to the assigned listeners it has direct sessions with.
ForwardsTo(f) ==
    IF far[f] # "direct" \/ inbound[f] = Nil THEN {} ELSE inbound[f] \cap near[f]

\* handleRoomDatagram: a peer takes a frame of a speaker it has an authenticated
\* session with, from an address it has an authenticated direct session with.
Hears(p) ==
    \/ p \in Destinations /\ far[p] = "direct"
    \/ /\ far[p] # "none"
       /\ \E f \in Destinations : f \in near[p] /\ p \in ForwardsTo(f)

-----------------------------------------------------------------------------
(* Reliable messages *)

\* handleReliableMessage at p.  Both ends must use the same session.
HandleFanoutAssignment(p) ==
    /\ assigned[p] # <<>>
    /\ lead[p] = "same" /\ path[p] # 0 /\ far[p] # "none"
    /\ inbound' = [inbound EXCEPT ![p] = Head(assigned[p]) \ {p}]
    /\ assigned' = [assigned EXCEPT ![p] = Tail(@)]
    /\ UNCHANGED <<link, path, far, near, lead, snapshots, topology, planning, dirty,
                   changes, expiries>>

\* A slip: claims about peers that cannot be reached yet are ignored.
RecordTopologyClaimsOfListeners(p, neighbors) ==
    /\ claims' = [claims EXCEPT ![p] = neighbors \cap Listeners]
    /\ expired' = [expired EXCEPT ![p] = {}]
    /\ dirty' = (dirty \/ claims[p] \ expired[p] # neighbors \cap Listeners)

\* recordTopologyClaims at the speaker: the snapshot replaces the claims of p.
\* The plan is due if the claims that had not expired differ from it.
RecordTopologyClaims(p, neighbors) ==
    /\ claims' = [claims EXCEPT ![p] = neighbors]
    /\ expired' = [expired EXCEPT ![p] = {}]
    /\ dirty' = (dirty \/ claims[p] \ expired[p] # neighbors)

HandleTopologySnapshot(p) ==
    /\ snapshots[p] # <<>>
    /\ lead[p] = "same" /\ path[p] # 0 /\ far[p] # "none"
    /\ RecordTopologyClaims(p, Head(snapshots[p]))
    /\ snapshots' = [snapshots EXCEPT ![p] = Tail(@)]
    /\ UNCHANGED <<link, path, far, near, lead, inbound, assigned, planning, changes, expiries>>

\* marshalTopologyMessage for the speaker, queued unless the channel is full.
WithSnapshot(p, neighbors) ==
    IF far[p] # "none" /\ Len(snapshots[p]) < QueueLimit
    THEN [snapshots EXCEPT ![p] = Append(@, neighbors)] ELSE snapshots

\* queueTopologySnapshots on p's probe tick: the neighbours have changed since the
\* last one or topologyRefresh has passed.
QueueTopologySnapshots(p) ==
    /\ far[p] # "none" /\ snapshots[p] = <<>>
    /\ snapshots' = WithSnapshot(p, near[p])
    /\ UNCHANGED <<link, path, far, near, lead, inbound, assigned, topology, planning,
                   dirty, changes, expiries>>

\* A claim of p was not repeated for topologyClaimTTL.
ClaimExpires(p, q) ==
    /\ expiries > 0
    /\ q \in claims[p] \ expired[p]
    /\ expired' = [expired EXCEPT ![p] = @ \cup {q}]
    /\ expiries' = expiries - 1
    /\ UNCHANGED <<link, path, far, near, channels, claims, planning, dirty, changes>>

\* expireTopology on the cleanup tick.  (A peer that it forgets after knownPeerTTL
\* has no claim left by then, as claims last half as long.)
ExpireTopology ==
    /\ \E p \in Peer : expired[p] # {}
    /\ claims' = [p \in Peer |-> claims[p] \ expired[p]]
    /\ expired' = [p \in Peer |-> {}]
    /\ dirty' = TRUE
    /\ UNCHANGED <<link, path, far, near, channels, planning, changes, expiries>>

-----------------------------------------------------------------------------
(* Sessions and links *)

\* A path carries packets both ways.  An intermediary passes packets on only
\* between its authenticated direct sessions (forwardBridgePacket).
Works(p, via) ==
    /\ Link(Speaker, via) \in link
    /\ via # p => /\ path[via] = via /\ far[via] = "direct"
                  /\ Link(via, p) \in link
                  /\ p \in near[via] /\ via \in near[p]

\* bridgePathTo: the first direct neighbour that claims p.
BridgePathTo(p) ==
    LET intermediaries == {i \in Direct : p \in claims[i] \ expired[i]}
    IN  IF path[p] = p \/ intermediaries = {} THEN {} ELSE {Min(intermediaries)}

\* shouldPromotePath, with round trip times left to LikeForLike.
PromotesTo(p, via) ==
    /\ via # path[p] /\ Works(p, via)
    /\ path[p] = 0 \/ ~Works(p, path[p]) \/ via = p

\* The end of handleSessionPacketOnPath at the speaker: a pong on path via.  A
\* replaced session takes the messages queued on it along.
SetPath(p, via, replaced) ==
    /\ path' = [path EXCEPT ![p] = via]
    /\ dirty' = TRUE
    /\ assigned' = IF replaced THEN [assigned EXCEPT ![p] = <<>>] ELSE assigned

SpeakerAuthenticates(p) ==
    /\ lead[p] # "peer"
    /\ \E via \in {p} \cup BridgePathTo(p) : PromotesTo(p, via) /\ SetPath(p, via, FALSE)
    /\ UNCHANGED <<link, far, near, lead, inbound, snapshots, topology, planning, changes, expiries>>

\* The speaker promotes the session that p is already using.
SpeakerFollows(p) ==
    /\ lead[p] = "peer"
    /\ \E via \in {p} \cup BridgePathTo(p) \cup ({path[p]} \ {0}) :
        Works(p, via) /\ SetPath(p, via, TRUE)
    /\ lead' = [lead EXCEPT ![p] = "same"]
    /\ UNCHANGED <<link, far, near, inbound, snapshots, topology, planning, changes, expiries>>

\* The speaker promotes a new session, first of the two ends.
SpeakerReplaces(p) ==
    /\ changes > 0 /\ lead[p] = "same"
    /\ \E via \in {p} \cup BridgePathTo(p) \cup ({path[p]} \ {0}) :
        Works(p, via) /\ SetPath(p, via, TRUE)
    /\ lead' = [lead EXCEPT ![p] = "speaker"]
    /\ changes' = changes - 1
    /\ UNCHANGED <<link, far, near, inbound, snapshots, topology, planning, expiries>>

\* A bridged path with a better round trip time.
LikeForLike(p) ==
    /\ changes > 0 /\ lead[p] # "peer" /\ path[p] \notin {0, p}
    /\ \E via \in BridgePathTo(p) \ {path[p]} : Works(p, via) /\ SetPath(p, via, FALSE)
    /\ changes' = changes - 1
    /\ UNCHANGED <<link, far, near, lead, inbound, snapshots, topology, planning, expiries>>

\* expireRemotePeers at the speaker (or handleLeavePacketOnPath).
SpeakerLoses(p) ==
    /\ path[p] # 0 /\ (~Works(p, path[p]) \/ lead[p] = "peer")
    /\ path' = [path EXCEPT ![p] = 0]
    /\ dirty' = TRUE
    /\ UNCHANGED <<link, far, near, channels, topology, planning, changes, expiries>>

\* The same at p.  p looks for an intermediary on its own; any that works will do.
FarPaths(p) ==
    (IF Link(Speaker, p) \in link THEN {"direct"} ELSE {})
        \cup (IF \E i \in near[p] : Works(p, i) THEN {"bridge"} ELSE {})

PeerAuthenticates(p) ==
    /\ lead[p] # "speaker"
    /\ \E to \in FarPaths(p) :
        /\ far[p] \notin {to, "direct"} \/ (far[p] = "direct" /\ "direct" \notin FarPaths(p))
        /\ far' = [far EXCEPT ![p] = to]
    /\ snapshots' = IF Len(snapshots[p]) < QueueLimit
                    THEN [snapshots EXCEPT ![p] = Append(@, near[p])] ELSE snapshots
    /\ UNCHANGED <<link, path, near, lead, inbound, assigned, topology, planning, dirty,
                   changes, expiries>>

\* A new session has no inboundFanout and an empty queue, to which the forced
\* snapshot is added.
PeerPromotes(p) ==
    /\ \E to \in FarPaths(p) : far' = [far EXCEPT ![p] = to]
    /\ inbound' = [inbound EXCEPT ![p] = Nil]
    /\ snapshots' = [snapshots EXCEPT ![p] = <<near[p]>>]
    /\ UNCHANGED <<link, path, near, assigned, topology, planning, dirty, expiries>>

PeerFollows(p) ==
    /\ lead[p] = "speaker"
    /\ PeerPromotes(p)
    /\ lead' = [lead EXCEPT ![p] = "same"]
    /\ UNCHANGED changes

PeerReplaces(p) ==
    /\ changes > 0 /\ lead[p] = "same"
    /\ PeerPromotes(p)
    /\ lead' = [lead EXCEPT ![p] = "peer"]
    /\ changes' = changes - 1

PeerLoses(p) ==
    /\ far[p] # "none"
    /\ far[p] \notin FarPaths(p) \/ lead[p] = "speaker"
    /\ far' = [far EXCEPT ![p] = "none"]
    /\ UNCHANGED <<link, path, near, channels, topology, planning, dirty, changes, expiries>>

\* Two peers' direct session comes up, and p tells everyone, or goes down.
NeighborUp(p, q) ==
    /\ Link(p, q) \in link /\ q \notin near[p]
    /\ near' = [near EXCEPT ![p] = @ \cup {q}]
    /\ snapshots' = WithSnapshot(p, near'[p])
    /\ UNCHANGED <<link, path, far, lead, inbound, assigned, topology, planning, dirty,
                   changes, expiries>>

NeighborDown(p, q) ==
    /\ Link(p, q) \notin link /\ q \in near[p]
    /\ near' = [near EXCEPT ![p] = @ \ {q}]
    /\ UNCHANGED <<link, path, far, channels, topology, planning, dirty, changes, expiries>>

LinkChanges(l) ==
    /\ changes > 0
    /\ link' = IF l \in link THEN link \ {l} ELSE link \cup {l}
    /\ changes' = changes - 1
    /\ UNCHANGED <<path, far, near, channels, topology, planning, dirty, expiries>>

-----------------------------------------------------------------------------

\* What the handshakes on a working path bring about.
Handshakes(p) ==
    \/ SpeakerAuthenticates(p) \/ SpeakerFollows(p) \/ SpeakerLoses(p)
    \/ PeerAuthenticates(p) \/ PeerFollows(p) \/ PeerLoses(p)
    \/ \E q \in Peer \ {p} : NeighborUp(p, q) \/ NeighborDown(p, q)

FanoutNext ==
    \/ RefreshFanout \/ ActivationDelayPasses \/ ExpireTopology
    \/ \E p \in Peer :
        \/ HandleFanoutAssignment(p) \/ HandleTopologySnapshot(p) \/ QueueTopologySnapshots(p)
        \/ Handshakes(p)
        \/ SpeakerReplaces(p) \/ LikeForLike(p) \/ PeerReplaces(p)
        \/ \E q \in Peer : ClaimExpires(p, q)
    \/ \E l \in kSubset(2, Node) : LinkChanges(l)

FanoutSpec == FanoutInit /\ [][FanoutNext]_fanoutVars

\* The speaker keeps speaking, timers fire, messages on a working path arrive and
\* handshakes on a working path end (Reliable!Settles, Session!Converges).
FairFanoutSpec ==
    /\ FanoutSpec
    /\ WF_fanoutVars(RefreshFanout) /\ WF_fanoutVars(ActivationDelayPasses)
    /\ WF_fanoutVars(ExpireTopology) /\ WF_fanoutVars(\E p \in Peer : Handshakes(p))
    /\ \A p \in Peer :
        /\ WF_fanoutVars(HandleFanoutAssignment(p)) /\ WF_fanoutVars(HandleTopologySnapshot(p))
        /\ WF_fanoutVars(QueueTopologySnapshots(p))

-----------------------------------------------------------------------------
(* Properties *)

\* Whatever the speaker has been told, the plan it would make now covers every
\* listener it can reach, itself or through a neighbour, and gives no listener to
\* two forwarders (buildFanoutPlan, constrainFanoutToActivePaths).
PlanCovers ==
    \A new \in {NewPlan} : \A p \in Listeners :
        LET forwarders == {f \in new.destinations : p \in new.assignments[f]}
        IN  /\ Cardinality(forwarders) <= 1
            /\ p \in Direct \cup Forced => p \in new.destinations \/ forwarders # {}

\* A plan in use is in force: each of its forwarders that shares a session with the
\* speaker forwards to exactly the other listeners the plan gives it (fanoutReady).
ReadyIsInForce ==
    FanoutReady /\ ~dirty =>
        \A f \in plan.destinations :
            lead[f] = "same" => inbound[f] = plan.assignments[f] \ {f}

\* A plan that is not due for a change gives a forwarder only listeners that the
\* forwarder still claims or that the speaker reaches through it: topology changes
\* come first and the assignment follows (recordTopologyClaims, expireTopology).
PlanFollowsTopology ==
    ~dirty => \A f \in plan.destinations : \A p \in plan.assignments[f] :
                p \in claims[f] \/ path[p] = f

\* When the network stops changing, everyone within two hops of the speaker comes
\* to hear it and keeps hearing it.
Reachable(p) ==
    \/ Link(Speaker, p) \in link
    \/ \E i \in Peer : Link(Speaker, i) \in link /\ Link(i, p) \in link

EveryoneHears == <>[](\A p \in Peer : Reachable(p) => Hears(p))
=============================================================================
