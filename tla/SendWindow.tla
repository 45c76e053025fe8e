----------------------------- MODULE SendWindow -----------------------------
(***************************************************************************)
(* The window rule of one channel of the reliable transport, on its own:   *)
(* which fragment may be sent when, what the receiver still accepts and    *)
(* what an acknowledgment removes.  Congestion control, reassembly and     *)
(* the scheduling of channels only restrict when these steps happen.       *)
(*                                                                         *)
(* nextPacket takes new fragments in the order of the outbound list and    *)
(* skips one only when it does not fit the congestion window.  If all      *)
(* fragments have the same size the one skipped is never overtaken, so new *)
(* fragments leave in sequence: that is the assumption SendNew makes.      *)
(* Reliable implements this module under that assumption and not without   *)
(* it (runs reliable and reliable_uneven).                                 *)
(***************************************************************************)
EXTENDS SequenceWindow, SequenceSpace

VARIABLES
    next,           \* number of the last fragment queued
    lastSent,       \* number of the last fragment sent for the first time
    outbound,       \* fragments queued and not yet known to have arrived
    received,       \* the receiver's window
    taken,          \* history: fragments the receiver has retained
    acks            \* acknowledgments on their way back, each of them the
                    \* receiver's window at the moment it was sent

channelVars == <<next, lastSent, outbound, received, taken, acks>>

InFlight == {s \in outbound : s <= lastSent}

\* Type invariant: nothing is sent that was not queued, and nothing is
\* retained by the receiver that was not sent.
ChannelTypeOK ==
    /\ next \in 0 .. MaxSequence
    /\ lastSent \in 0 .. next
    /\ outbound \subseteq 1 .. next
    /\ received \in Window
    /\ taken \subseteq 1 .. lastSent
    /\ acks \subseteq Window

ChannelInit ==
    /\ next = 0
    /\ lastSent = 0
    /\ outbound = {}
    /\ received = EmptyWindow
    /\ taken = {}
    /\ acks = {}

\* queue: a message adds n fragments, if canQueue has numbers for all of them.
Queue(n) ==
    /\ n <= MaxSequence - next
    /\ next' = next + n
    /\ outbound' = outbound \cup (next + 1 .. next + n)
    /\ UNCHANGED <<lastSent, received, taken, acks>>

\* nextPacket picks a fragment never sent before: it must be less than
\* WindowBits ahead of every fragment of the channel that is in flight.
SendNew ==
    /\ lastSent < next
    /\ \A s \in InFlight : lastSent + 1 - s < WindowBits
    /\ lastSent' = lastSent + 1
    /\ UNCHANGED <<next, outbound, received, taken, acks>>

\* receive: a fragment sent at any time arrives, for the first or the n-th
\* time, and is retained if the window has room for it.
ReceiveFragment(s) ==
    /\ MayAccept(received, s)
    /\ received' = Accept(received, s)
    /\ taken' = taken \cup {s}
    /\ UNCHANGED <<next, lastSent, outbound, acks>>

\* packetFor, nextAck: a packet back carries the window as it is now.
OfferAck ==
    /\ acks' = acks \cup {received}
    /\ UNCHANGED <<next, lastSent, outbound, received, taken>>

LoseAck(w) ==
    /\ acks' = acks \ {w}
    /\ UNCHANGED <<next, lastSent, outbound, received, taken>>

\* consumeFragmentAck: an acknowledgment, however old, arrives and removes what it
\* covers.  Another packet with the same window may still be on its way.
Acknowledge(w) ==
    /\ outbound' = outbound \ {s \in InFlight : FragmentAckContains(w.highest, w.seen, s)}
    /\ acks' \in {acks, acks \ {w}}
    /\ UNCHANGED <<next, lastSent, received, taken>>

ChannelNext ==
    \/ \E n \in 1 .. MaxSequence : Queue(n)
    \/ SendNew
    \/ \E s \in 1 .. lastSent : ReceiveFragment(s)
    \/ OfferAck
    \/ \E w \in acks : LoseAck(w) \/ Acknowledge(w)

ChannelSpec == ChannelInit /\ [][ChannelNext]_channelVars

-----------------------------------------------------------------------------
(* Properties *)

\* What is still listed for retransmission is never out of the receiver's
\* reach: the newest fragment the receiver has seen is less than WindowBits
\* ahead of it (nextPacket against sequenceWindow.accept).
NeverOutrun == \A s \in outbound : received.highest < s + WindowBits

\* A retransmission is never in vain: what is still listed is either something
\* the receiver would accept now, or something its next acknowledgment covers.
RetransmissionHelps ==
    \A s \in outbound :
        \/ MayAccept(received, s)
        \/ s \in taken /\ FragmentAckContains(received.highest, received.seen, s)

\* Every fragment queued is still listed by the sender or was retained by the
\* receiver: no acknowledgment, taken from whatever window and read whenever it
\* arrives, covers a fragment that was not retained (sequenceWindow.accept,
\* FragmentAckContains, consumeFragmentAck).
NothingForgotten == \A s \in 1 .. next : s \in outbound \/ s \in taken
=============================================================================
