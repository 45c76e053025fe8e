------------------------------ MODULE Reliable ------------------------------
(***************************************************************************)
(* The reliable transport of one session (internal/peer/reliable.go), both *)
(* ends of it, and the path between them.                                  *)
(*                                                                         *)
(* Each peer owns one reliableTransport record; the operators that take a  *)
(* record r and return a record are the methods of that struct.  The       *)
(* single goroutine of the client runs every method, so each is one step.  *)
(* Payloads are represented by their size.  Round-trip times are not kept: *)
(* whether a fragment's retransmission timeout has passed when the         *)
(* transport is asked for a packet is a choice, restricted by the order in *)
(* which the fragments were last sent (an older transmission expires       *)
(* first, because all of them share one RTO).                              *)
(*                                                                         *)
(* The session layer below accepts a packet at most once (PacketFlow), so  *)
(* the path loses and reorders packets; only a retransmission repeats a    *)
(* fragment.                                                               *)
(***************************************************************************)
EXTENDS SequenceWindow, SequenceFilter, FiniteSets, SequencesExt

CONSTANTS
    Peer,                   \* the two ends
    Channel,                \* the reliable channels in use
    OrderedChannel,         \* all of them but FileData in the code
    MSS,                    \* largest fragment payload
    MaxFragments,           \* fragments of the largest message
    InitialCwnd, MinimumCwnd, MaximumCwnd,
    MaxQueuedBytes,         \* limit on queued bytes
    MaxReassemblyBytes, MaxAssemblies, MaxParts,   \* limits on reassembly
    SequenceModulus,        \* 2^64 in the code: fragment numbers wrap there
    Workload                \* what may happen, as records of
                            \*   load[p][c]: sizes of the messages p will queue
                            \*   capacity: packets on the path, per direction
                            \*   losses: packets that are lost or refused
                            \*   refuses: whether the socket may refuse a packet

ASSUME ReliableAssumption ==
    /\ Cardinality(Peer) = 2
    /\ IsFiniteSet(Channel) /\ OrderedChannel \subseteq Channel
    /\ {MSS, MaxFragments} \subseteq Nat \ {0}
    /\ {InitialCwnd, MinimumCwnd, MaximumCwnd} \subseteq Nat
    /\ 0 < MinimumCwnd /\ MinimumCwnd <= InitialCwnd /\ InitialCwnd <= MaximumCwnd
    /\ MSS <= MinimumCwnd
    /\ Workload \subseteq [load : [Peer -> [Channel -> Seq(Nat)]],
                           capacity : Nat, losses : Nat, refuses : BOOLEAN]

VARIABLES
    transport,      \* transport[p]: p's reliableTransport
    path,           \* path[p]: bag of the packets on their way from p
    workload,       \* the workload chosen, and in it the losses still to come
    queued,         \* history: the messages p queued on each channel
    delivered       \* history: the messages p handed up on each channel

transportVars == <<transport, path, workload, queued, delivered>>

Other(p) == CHOOSE q \in Peer : q # p

SetMin(S) == CHOOSE x \in S : \A y \in S : x <= y
LesserOf(x, y) == IF x < y THEN x ELSE y
GreaterOf(x, y) == IF x > y THEN x ELSE y
TotalSize(S) == SumFunction([f \in S |-> f.size])

-----------------------------------------------------------------------------
(* The struct *)

\* addChannel: a channel's state when it is first used.
NewChannel == [next |-> 0, received |-> EmptyWindow, ackDirty |-> FALSE,
               nextDelivered |-> 1, held |-> {}]

\* newReliableTransport.  flight lists the fragments in the order they were
\* last sent: it stands for their sentAt times.
NewTransport ==
    [ackChannels |-> <<>>, channels |-> [c \in Channel |-> NewChannel],
     outbound |-> <<>>, flight |-> <<>>,
     queuedBytes |-> 0, bytesInFlight |-> 0,
     reassemblyBytes |-> 0, reassemblyCount |-> 0, reassemblyParts |-> 0,
     cwnd |-> InitialCwnd, ssthresh |-> MaximumCwnd,
     ackCursor |-> 0, dataCursor |-> 0, preferACK |-> TRUE]

\* The channels a transport knows are those on its ackChannels list.
AddChannel(r, c) ==
    IF Contains(r.ackChannels, c) THEN r
    ELSE [r EXCEPT !.ackChannels = Append(@, c)]

FragmentKey(f) == <<f.channel, f.seq>>
OutboundOn(r, c) == {f \in ToSet(r.outbound) : f.channel = c}

-----------------------------------------------------------------------------
(* Queueing *)

FragmentCount(size) == (size + MSS - 1) \div MSS

\* canQueue: room in the queue, and numbers left for every fragment.
CanQueue(r, c, size) ==
    /\ 0 < size /\ size <= MaxFragments * MSS
    /\ size <= MaxQueuedBytes - r.queuedBytes
    /\ FragmentCount(size) <= SequenceModulus - 1 - r.channels[c].next

\* queue: cut the message into fragments and append them.
QueueMessage(r, c, size) ==
    LET s == AddChannel(r, c)
        n == FragmentCount(size)
    IN [s EXCEPT !.outbound = @ \o
                    [i \in 1 .. n |->
                        [channel |-> c, seq |-> r.channels[c].next + i,
                         index |-> i - 1, count |-> n,
                         size |-> LesserOf(MSS, size - (i - 1) * MSS),
                         sent |-> FALSE, timeoutPending |-> FALSE]],
                 !.channels[c].next = @ + n,
                 !.queuedBytes = @ + size]

-----------------------------------------------------------------------------
(* Choosing what to send *)

\* Mutant: no limit on how far a new fragment may be ahead of an old one.
InSendWindowAlways(r, f) == TRUE

\* A new fragment may be at most WindowBits - 1 ahead of the oldest fragment of
\* its channel that is in flight.  The subtraction is unsigned.
InSendWindow(r, f) ==
    LET inFlight == {g.seq : g \in {h \in OutboundOn(r, f.channel) : h.sent}}
    IN \/ inFlight = {}
       \/ (f.seq - SetMin(inFlight)) % SequenceModulus < WindowBits

\* Fragments whose timeout has passed; expired holds the keys of those whose
\* last transmission is old enough.
Retransmittable(r, expired) ==
    {i \in DOMAIN r.outbound :
        /\ r.outbound[i].sent
        /\ r.outbound[i].timeoutPending \/ FragmentKey(r.outbound[i]) \in expired}

Transmittable(r) ==
    {i \in DOMAIN r.outbound :
        /\ ~r.outbound[i].sent
        /\ r.bytesInFlight + r.outbound[i].size <= r.cwnd
        /\ InSendWindow(r, r.outbound[i])}

\* Position of channel c on the ackChannels list, counted from 0.
Slot(r, c) == (CHOOSE i \in DOMAIN r.ackChannels : r.ackChannels[i] = c) - 1

\* How many channels the round robin visits before c, starting at the cursor.
Turn(r, cursor, c) == (Slot(r, c) - cursor) % Len(r.ackChannels)

\* nextFragment: the first eligible fragment of the first channel that has one.
NextFragment(r, eligible) ==
    LET turn(i) == Turn(r, r.dataCursor, r.outbound[i].channel)
    IN CHOOSE i \in eligible :
           \A j \in eligible : turn(i) < turn(j) \/ (turn(i) = turn(j) /\ i <= j)

NoReservation == [kind |-> "none"]

DataReservation(r, kind, i) ==
    [kind |-> kind, channel |-> r.outbound[i].channel, fragment |-> i]

\* nextPacket: retransmissions before new fragments.
NextPacket(r, expired) ==
    IF Retransmittable(r, expired) # {}
    THEN DataReservation(r, "retransmit", NextFragment(r, Retransmittable(r, expired)))
    ELSE IF Transmittable(r) # {}
         THEN DataReservation(r, "new", NextFragment(r, Transmittable(r)))
         ELSE NoReservation

\* nextAck: the first channel after the cursor that owes an acknowledgment.
NextAck(r) ==
    LET dirty == {c \in ToSet(r.ackChannels) : r.channels[c].ackDirty}
    IN IF dirty = {} THEN NoReservation
       ELSE [kind |-> "ack",
             channel |-> CHOOSE c \in dirty : \A d \in dirty :
                             Turn(r, r.ackCursor, c) <= Turn(r, r.ackCursor, d)]

\* nextSend: acknowledgments and data take turns.
NextSend(r, expired) ==
    LET ack  == NextAck(r)
        data == NextPacket(r, expired)
    IN IF r.preferACK
       THEN IF ack # NoReservation THEN ack ELSE data
       ELSE IF data # NoReservation THEN data ELSE ack

\* packetFor, and the packet nextAck builds: every packet carries the
\* receive window of its channel as an acknowledgment.
PacketFor(r, reservation) ==
    LET c == reservation.channel
        f == IF reservation.kind = "ack"
             THEN [seq |-> 0, index |-> 0, count |-> 0, size |-> 0]
             ELSE r.outbound[reservation.fragment]
    IN [channel |-> c, seq |-> f.seq, index |-> f.index, count |-> f.count,
        size |-> f.size, base |-> r.channels[c].received.highest,
        bitmap |-> r.channels[c].received.seen]

\* advance: the cursors move on whether or not the packet left.
Advance(r, reservation) ==
    LET after == (Slot(r, reservation.channel) + 1) % Len(r.ackChannels)
    IN IF reservation.kind = "ack"
       THEN [r EXCEPT !.ackCursor = after, !.preferACK = FALSE]
       ELSE [r EXCEPT !.dataCursor = after, !.preferACK = TRUE]

\* Mutant: a retransmitted fragment counts as in flight a second time.
CommitDataCountsTwice(r, reservation, expired) ==
    LET i == reservation.fragment
        f == r.outbound[i]
    IN [r EXCEPT !.outbound[i] = [f EXCEPT !.sent = TRUE, !.timeoutPending = FALSE],
                 !.flight = Append(Only(@, ToSet(@) \ {FragmentKey(f)}), FragmentKey(f)),
                 !.bytesInFlight = @ + f.size]

\* commit of a fragment.  The first retransmission after a timeout freezes all
\* expired fragments into one wave and shrinks the congestion window once.
CommitData(r, reservation, expired) ==
    LET i == reservation.fragment
        f == r.outbound[i]
        startsWave == reservation.kind = "retransmit" /\ ~f.timeoutPending
        frozen == [j \in DOMAIN r.outbound |->
                      [r.outbound[j] EXCEPT !.timeoutPending =
                          @ \/ (startsWave /\ FragmentKey(r.outbound[j]) \in expired)]]
    IN [r EXCEPT !.outbound = [frozen EXCEPT ![i] =
                                  [f EXCEPT !.sent = TRUE, !.timeoutPending = FALSE]],
                 !.flight = Append(Only(@, ToSet(@) \ {FragmentKey(f)}), FragmentKey(f)),
                 !.bytesInFlight = IF reservation.kind = "new" THEN @ + f.size ELSE @,
                 !.ssthresh = IF startsWave THEN GreaterOf(r.cwnd \div 2, MinimumCwnd) ELSE @,
                 !.cwnd = IF startsWave THEN MinimumCwnd ELSE @]

\* commit: the packet went out, so the acknowledgment it carried is not owed.
Commit(r, reservation, expired) ==
    LET s == IF reservation.kind = "ack" THEN r ELSE CommitData(r, reservation, expired)
    IN [Advance(s, reservation) EXCEPT !.channels[reservation.channel].ackDirty = FALSE]

-----------------------------------------------------------------------------
(* Receiving *)

\* The congestion window after bytes were acknowledged: slow start below
\* ssthresh, else about one MSS per window.
OpenCwnd(r, bytes) ==
    LesserOf(MaximumCwnd,
             IF r.cwnd < r.ssthresh THEN r.cwnd + bytes
             ELSE r.cwnd + GreaterOf((MSS * bytes) \div r.cwnd, 1))

\* consumeFragmentAck: drop the acknowledged fragments.
ConsumeFragmentAck(r, c, base, bitmap) ==
    LET acked == {f \in OutboundOn(r, c) : f.sent /\ FragmentAckContains(base, bitmap, f.seq)}
        bytes == TotalSize(acked)
    IN IF acked = {} THEN r
       ELSE [r EXCEPT !.outbound = Only(@, ToSet(@) \ acked),
                      !.flight = Only(@, ToSet(@) \ {FragmentKey(f) : f \in acked}),
                      !.queuedBytes = @ - bytes,
                      !.bytesInFlight = @ - bytes,
                      !.cwnd = OpenCwnd(r, bytes)]

Start(f) == f.seq - f.index
Starts(S) == {Start(f) : f \in S}

\* The fragments a channel holds of the message that starts at s.
Assembly(ch, s) == {f \in ch.held : Start(f) = s}
CompleteAssembly(ch, s) ==
    \E f \in Assembly(ch, s) : Cardinality(Assembly(ch, s)) = f.count

\* The early returns of receive between the window test and the insertion.
Retainable(r, pkt) ==
    LET ch == r.channels[pkt.channel]
        assembly == Assembly(ch, Start(pkt))
    IN /\ MayAccept(ch.received, pkt.seq)
       /\ pkt.channel \in OrderedChannel => Start(pkt) >= ch.nextDelivered
       /\ \A f \in assembly : f.count = pkt.count /\ f.index # pkt.index
       /\ pkt.size <= MaxReassemblyBytes - r.reassemblyBytes
       /\ r.reassemblyParts < MaxParts
       /\ assembly = {} => r.reassemblyCount < MaxAssemblies

\* Insert the fragment and mark it received.
Retain(r, pkt) ==
    LET ch == r.channels[pkt.channel]
        f == [seq |-> pkt.seq, index |-> pkt.index, count |-> pkt.count, size |-> pkt.size]
    IN [r EXCEPT !.channels[pkt.channel] =
                    [ch EXCEPT !.held = @ \cup {f}, !.received = Accept(@, pkt.seq)],
                 !.reassemblyCount = IF Assembly(ch, Start(pkt)) = {}
                                     THEN @ + 1 ELSE @,
                 !.reassemblyBytes = @ + pkt.size,
                 !.reassemblyParts = @ + 1]

\* removeAssembly, for a set of assemblies.
RemoveAssemblies(r, c, starts) ==
    LET gone == {f \in r.channels[c].held : Start(f) \in starts}
    IN [r EXCEPT !.channels[c].held = @ \ gone,
                 !.reassemblyCount = @ - Cardinality(Starts(gone)),
                 !.reassemblyBytes = @ - TotalSize(gone),
                 !.reassemblyParts = @ - Cardinality(gone)]

\* Mutant: an ordered channel hands up whatever is complete.
DeliverableAnyOrder(r, pkt) ==
    LET ch == r.channels[pkt.channel]
    IN {s \in Starts(ch.held) : CompleteAssembly(ch, s)}

\* Where each message that is handed up after pkt was retained starts.  On an
\* ordered channel (deliverOrdered) that is the run of complete messages that
\* begins at nextDelivered, otherwise the completed message alone.
Deliverable(r, pkt) ==
    LET ch == r.channels[pkt.channel]
        complete == {s \in Starts(ch.held) : CompleteAssembly(ch, s)}
        covered == {f.seq : f \in {g \in ch.held : Start(g) \in complete}}
    IN IF pkt.channel \notin OrderedChannel
       THEN complete \cap {Start(pkt)}
       ELSE {s \in complete : ch.nextDelivered .. s \subseteq covered}

\* Hand messages up: their assemblies go and, on an ordered channel, the next
\* message is the one after them.
HandUp(r, c, starts) ==
    LET past == {f.seq + 1 : f \in {g \in r.channels[c].held : Start(g) \in starts}}
    IN [RemoveAssemblies(r, c, starts) EXCEPT
           !.channels[c].nextDelivered =
               IF c \in OrderedChannel /\ starts # {}
               THEN CHOOSE n \in past : \A m \in past : m <= n
               ELSE @]

\* Mutant: a repeated fragment does not make its acknowledgment due again.
ReceivePacketSilent(r, pkt) ==
    LET acked == ConsumeFragmentAck(r, pkt.channel, pkt.base, pkt.bitmap)
        known == AddChannel(acked, pkt.channel)
        held  == [Retain(known, pkt) EXCEPT !.channels[pkt.channel].ackDirty = TRUE]
        up    == Deliverable(held, pkt)
    IN IF pkt.seq = 0 THEN [transport |-> acked, up |-> <<>>]
       ELSE IF ~Retainable(known, pkt) THEN [transport |-> known, up |-> <<>>]
       ELSE [transport |-> HandUp(held, pkt.channel, up),
             up |-> SetToSortSeq(up, <)]

\* Mutant: the window is marked before the limits on reassembly are looked at.
ReceivePacketMarksRefused(r, pkt) ==
    LET acked == ConsumeFragmentAck(r, pkt.channel, pkt.base, pkt.bitmap)
        known == [AddChannel(acked, pkt.channel) EXCEPT
                     !.channels[pkt.channel].ackDirty = TRUE]
        held  == Retain(known, pkt)
        up    == Deliverable(held, pkt)
    IN IF pkt.seq = 0 THEN [transport |-> acked, up |-> <<>>]
       ELSE IF ~Retainable(known, pkt)
       THEN [transport |-> [known EXCEPT !.channels[pkt.channel].received = Accept(@, pkt.seq)],
             up |-> <<>>]
       ELSE [transport |-> HandUp(held, pkt.channel, up),
             up |-> SetToSortSeq(up, <)]

\* receive: the acknowledgment first, then the fragment.  The result is the
\* new transport and the starts of the messages handed up, in order.
ReceivePacket(r, pkt) ==
    LET acked == ConsumeFragmentAck(r, pkt.channel, pkt.base, pkt.bitmap)
        known == [AddChannel(acked, pkt.channel) EXCEPT
                     !.channels[pkt.channel].ackDirty = TRUE]
        held  == Retain(known, pkt)
        up    == Deliverable(held, pkt)
    IN IF pkt.seq = 0 THEN [transport |-> acked, up |-> <<>>]
       ELSE IF ~Retainable(known, pkt) THEN [transport |-> known, up |-> <<>>]
       ELSE [transport |-> HandUp(held, pkt.channel, up),
             up |-> SetToSortSeq(up, <)]

-----------------------------------------------------------------------------
(* Discarding: what a finished file transfer does to its data channel *)

DiscardOutboundChannel(r, c) ==
    LET gone == OutboundOn(r, c)
    IN [r EXCEPT !.outbound = Only(@, ToSet(@) \ gone),
                 !.flight = Only(@, ToSet(@) \ {FragmentKey(f) : f \in gone}),
                 !.queuedBytes = @ - TotalSize(gone),
                 !.bytesInFlight = @ - TotalSize({f \in gone : f.sent})]

DiscardInboundChannel(r, c) ==
    RemoveAssemblies(r, c, Starts(r.channels[c].held))

-----------------------------------------------------------------------------
(* The two ends and the path *)

TransportInit ==
    /\ transport = [p \in Peer |-> NewTransport]
    /\ path = [p \in Peer |-> EmptyBag]
    /\ workload \in Workload
    /\ queued = [p \in Peer |-> [c \in Channel |-> <<>>]]
    /\ delivered = [p \in Peer |-> [c \in Channel |-> <<>>]]

\* The code above hands the next message of the load to the transport.
QueueReliable(p, c) ==
    LET k == Len(queued[p][c]) + 1
        r == transport[p]
    IN /\ k <= Len(workload.load[p][c])
       /\ CanQueue(r, c, workload.load[p][c][k])
       /\ transport' = [transport EXCEPT ![p] = QueueMessage(r, c, workload.load[p][c][k])]
       /\ queued' = [queued EXCEPT ![p][c] = Append(@, r.channels[c].next + 1)]
       /\ UNCHANGED <<path, workload, delivered>>

\* One turn of sendReliable: the packet leaves and the reservation commits.
\* The k transmissions longest ago have timed out.
Send(p) ==
    /\ BagCardinality(path[p]) < workload.capacity
    /\ \E k \in 0 .. Len(transport[p].flight) :
       LET expired == {transport[p].flight[i] : i \in 1 .. k}
       IN \E reservation \in {NextSend(transport[p], expired)} \ {NoReservation} :
             /\ transport' = [transport EXCEPT ![p] = Commit(@, reservation, expired)]
             /\ path' = [path EXCEPT ![p] =
                            @ (+) SetToBag({PacketFor(transport[p], reservation)})]
             /\ UNCHANGED <<workload, queued, delivered>>

\* One turn of sendReliable in which the socket refuses the packet: reject.
SendRefused(p) ==
    /\ workload.refuses /\ workload.losses > 0
    /\ workload' = [workload EXCEPT !.losses = @ - 1]
    /\ \E k \in 0 .. Len(transport[p].flight) :
        LET r == transport[p]
            reservation == NextSend(r, {r.flight[i] : i \in 1 .. k})
        IN /\ reservation # NoReservation
           /\ transport' = [transport EXCEPT ![p] = Advance(r, reservation)]
           /\ UNCHANGED <<path, queued, delivered>>

\* handleReliablePacketOnPath: any packet on the path arrives at p.
ReceiveReliable(p) ==
    \E pkt \in BagToSet(path[Other(p)]) :
        \E result \in {ReceivePacket(transport[p], pkt)} :
            /\ path' = [path EXCEPT ![Other(p)] = @ (-) SetToBag({pkt})]
            /\ transport' = [transport EXCEPT ![p] = result.transport]
            /\ delivered' = [delivered EXCEPT ![p][pkt.channel] = @ \o result.up]
            /\ UNCHANGED <<workload, queued>>

Lose(p) ==
    /\ workload.losses > 0
    /\ \E pkt \in BagToSet(path[p]) : path' = [path EXCEPT ![p] = @ (-) SetToBag({pkt})]
    /\ workload' = [workload EXCEPT !.losses = @ - 1]
    /\ UNCHANGED <<transport, queued, delivered>>

\* A file transfer ends: the sender drops what it has not sent ...
DiscardOutbound(p, c) ==
    /\ c \in Channel \ OrderedChannel
    /\ OutboundOn(transport[p], c) # {}
    /\ transport' = [transport EXCEPT ![p] = DiscardOutboundChannel(@, c)]
    /\ UNCHANGED <<path, workload, queued, delivered>>

\* ... and the receiver drops what it has not put together.
DiscardInbound(p, c) ==
    /\ c \in Channel \ OrderedChannel
    /\ transport[p].channels[c].held # {}
    /\ transport' = [transport EXCEPT ![p] = DiscardInboundChannel(@, c)]
    /\ UNCHANGED <<path, workload, queued, delivered>>

TransportNext ==
    \E p \in Peer :
        \/ Send(p)
        \/ SendRefused(p)
        \/ ReceiveReliable(p)
        \/ Lose(p)
        \/ \E c \in Channel : QueueReliable(p, c) \/ DiscardOutbound(p, c) \/ DiscardInbound(p, c)

TransportSpec == TransportInit /\ [][TransportNext]_transportVars

\* sendReliable runs on every tick of the client, and the path delivers what it
\* does not lose.  The application is under no obligation to queue.  A transfer that
\* gets no further ends by its idle timeout (FileTransfer) and discards what it holds.
Fairness ==
    \A p \in Peer :
        /\ WF_transportVars(Send(p)) /\ WF_transportVars(ReceiveReliable(p))
        /\ \A c \in Channel \ OrderedChannel : WF_transportVars(DiscardInbound(p, c))

FairTransportSpec == TransportSpec /\ Fairness

-----------------------------------------------------------------------------
(* Properties *)

Fragment ==
    [channel : Channel, seq : Nat \ {0}, index : Nat, count : Nat \ {0},
     size : 1 .. MSS, sent : BOOLEAN, timeoutPending : BOOLEAN]

\* The types of the transport and of what is on the path.
TransportTypeOK ==
    /\ \A p \in Peer :
        LET r == transport[p] IN
        /\ ToSet(r.outbound) \subseteq Fragment
        /\ ToSet(r.ackChannels) \subseteq Channel
        /\ \A c \in Channel : /\ r.channels[c].received \in Window
                              /\ r.channels[c].next \in Nat
                              /\ r.channels[c].nextDelivered \in Nat \ {0}
        /\ {r.queuedBytes, r.bytesInFlight, r.reassemblyBytes, r.reassemblyCount,
            r.reassemblyParts, r.ackCursor, r.dataCursor} \subseteq Nat
        /\ r.cwnd \in MinimumCwnd .. MaximumCwnd
    /\ workload.losses \in Nat

\* The counters that gate sending, queueing and reassembly agree with what the
\* transport really holds, through losses, timeouts, late acknowledgments and
\* discards: a drift would close the transport or open its limits for good.
CountersAreExact ==
    \A p \in Peer :
        LET r == transport[p]
            out == ToSet(r.outbound)
        IN /\ r.queuedBytes = TotalSize(out)
           /\ r.bytesInFlight = TotalSize({f \in out : f.sent})
           /\ r.reassemblyParts =
                  SumFunction([c \in Channel |-> Cardinality(r.channels[c].held)])
           /\ r.reassemblyBytes =
                  SumFunction([c \in Channel |-> TotalSize(r.channels[c].held)])
           /\ r.reassemblyCount =
                  SumFunction([c \in Channel |-> Cardinality(Starts(r.channels[c].held))])

\* The sender's window never lets a fragment be overtaken: a fragment still on
\* its list is one the receiver either has or would still accept.  Once the
\* receiver is WindowBits ahead of a fragment it refuses that fragment for
\* ever, and an ordered channel never hands up anything again.
NoFragmentOutrun ==
    \A p \in Peer : \A c \in Channel : \A f \in OutboundOn(transport[p], c) :
        LET w == transport[Other(p)].channels[c].received
        IN w.highest < f.seq + WindowBits

\* The transport is a MessageChannel: at most once, in order, without gaps.
Promise == INSTANCE MessageChannel
DeliversAsPromised == Promise!Spec

\* Nothing left to send, no acknowledgment owed.
Quiet(p) ==
    /\ transport[p].outbound = <<>>
    /\ \A c \in Channel : ~transport[p].channels[c].ackDirty

\* Whatever was lost, reordered or timed out on the way, every message queued on
\* an ordered channel is handed up at the other end, and then the conversation
\* ends: no retransmission and no acknowledgment goes on for ever (nextPacket,
\* receive, consumeFragmentAck).
Settles ==
    <>[](\A p \in Peer :
            /\ Quiet(p)
            /\ \A c \in OrderedChannel :
                  Len(delivered[Other(p)][c]) = Len(queued[p][c]))
=============================================================================
