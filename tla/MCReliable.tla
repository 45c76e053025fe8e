----------------------------- MODULE MCReliable -----------------------------
(***************************************************************************)
(* Workloads for the model-checking runs of Reliable: the sizes, in units  *)
(* of payload, of the messages each peer queues on each channel.           *)
(***************************************************************************)
EXTENDS Reliable

CONSTANTS a, b,             \* the two peers
          state, files      \* an ordered channel and the file data channel

\* One peer sends three messages, the second of two fragments; all fragments
\* are full (MSS = 1).
OrderedLoad ==
    [p \in Peer |-> [c \in Channel |-> IF p = a /\ c = state THEN <<1, 2, 1>> ELSE <<>>]]

\* One peer sends on both kinds of channel, so the round robins have something to
\* choose from.  Two unfinished messages on the one leave no reassembly room for the
\* message on the other (MaxAssemblies = 2).
TwoChannelLoad ==
    [p \in Peer |-> [c \in Channel |-> IF p = b THEN <<>> ELSE IF c = state THEN <<1>> ELSE <<2, 2>>]]

\* Both peers send, so acknowledgments travel on data packets too.
TwoWayLoad ==
    [p \in Peer |-> [c \in Channel |->
        IF p = a /\ c = files THEN <<2>> ELSE IF p = b /\ c = state THEN <<1>> ELSE <<>>]]

Settings ==
    {[load |-> OrderedLoad, capacity |-> 2, losses |-> 1, refuses |-> FALSE],
     [load |-> TwoChannelLoad, capacity |-> 1, losses |-> 0, refuses |-> FALSE],
     [load |-> TwoWayLoad, capacity |-> 1, losses |-> 1, refuses |-> TRUE]}

\* Messages that fill a fragment and messages that do not (MSS = 2).
UnevenLoad ==
    [p \in Peer |-> [c \in Channel |->
        IF p = a THEN <<2, 1, 2, 1, 1, 1, 1>> ELSE <<>>]]

UnevenSettings == {[load |-> UnevenLoad, capacity |-> 3, losses |-> 0, refuses |-> FALSE]}

\* What a sends on the ordered channel, seen as one instance of SendWindow.
Sender == transport[a]
Unsent == {f \in OutboundOn(Sender, state) : ~f.sent}
Receiver == transport[b].channels[state]
Rule == INSTANCE SendWindow WITH
            MaxSequence <- SequenceModulus - 1,
            next     <- Sender.channels[state].next,
            lastSent <- Sender.channels[state].next - Cardinality(Unsent),
            outbound <- {f.seq : f \in OutboundOn(Sender, state)},
            received <- Receiver.received,
            taken    <- 1 .. Receiver.nextDelivered - 1 \cup {f.seq : f \in Receiver.held},
            acks     <- {[highest |-> pkt.base, seen |-> pkt.bitmap] :
                            pkt \in {q \in BagToSet(path[b]) : q.channel = state}}

\* As long as all fragments have the same size the transport follows the window
\* rule of SendWindow, for which SequenceWindowProofs proves that no fragment is
\* outrun or forgotten: also one that is refused for want of reassembly room leaves
\* the window as it is, and no acknowledgment on its way covers it (nextPacket,
\* receive, consumeFragmentAck).
FollowsWindowRule == Rule!ChannelSpec

\* A fragment that is still listed is one that the receiver would take now or
\* that its next acknowledgment covers: no retransmission is in vain (nextPacket
\* against sequenceWindow.accept and FragmentAckContains).
RetransmissionHelps == Rule!RetransmissionHelps
=============================================================================
