----------------------------- MODULE PacketFlow -----------------------------
(***************************************************************************)
(* One direction of an established session (sessionPacketFlow): the sender *)
(* numbers its packets, the network loses, repeats and reorders them, and  *)
(* the receiver accepts a packet in three steps that the code runs in this *)
(* order: mayReceive on the clear header, decryption, commitReceived.      *)
(*                                                                         *)
(* Every packet sent so far may arrive at any time, any number of times or *)
(* never: that is the datagram network.  A damaged packet carries a header *)
(* with any sequence number and fails decryption.                          *)
(***************************************************************************)
EXTENDS SequenceWindow, SequenceSpace

Sequences == 1 .. MaxSequence

VARIABLES
    sendSequence,       \* the sender's last used sequence number
    receiveWindow,      \* the receiver's window
    accepted            \* history: how often each packet was handed on

vars == <<sendSequence, receiveWindow, accepted>>

\* Type invariant: the window of a received session stays a window of
\* WindowBits bits over sequence numbers the sender may use.
TypeOK ==
    /\ sendSequence \in 0 .. MaxSequence
    /\ receiveWindow \in Window
    /\ accepted \in [Sequences -> Nat]

Init ==
    /\ sendSequence = 0
    /\ receiveWindow = EmptyWindow
    /\ accepted = [s \in Sequences |-> 0]

\* nextSendSequence; at MaxSequence it fails and nothing is sent any more.
NextSendSequence ==
    /\ sendSequence < MaxSequence
    /\ sendSequence' = sendSequence + 1
    /\ UNCHANGED <<receiveWindow, accepted>>

\* Mutant: a packet is handed on although the window refuses it.
ReceiveUnchecked(s) ==
    /\ s <= sendSequence
    /\ accepted[s] <= 1
    /\ receiveWindow' = Accept(receiveWindow, s)
    /\ accepted' = [accepted EXCEPT ![s] = @ + 1]
    /\ UNCHANGED sendSequence

\* A genuine packet arrives: mayReceive and decryption succeed, commitReceived
\* records it and the handler goes on.  A packet that mayReceive refuses is
\* dropped without a trace.
Receive(s) ==
    /\ s <= sendSequence
    /\ MayAccept(receiveWindow, s)
    /\ receiveWindow' = Accept(receiveWindow, s)
    /\ accepted' = [accepted EXCEPT ![s] = @ + 1]
    /\ UNCHANGED sendSequence

\* Mutant: the window moves before the packet is authenticated.
ReceiveDamagedCommits(s) ==
    /\ MayAccept(receiveWindow, s)
    /\ receiveWindow' = Accept(receiveWindow, s)
    /\ UNCHANGED <<sendSequence, accepted>>

\* A damaged packet arrives: its header passes mayReceive, which works on a
\* copy of the window, and decryption fails before commitReceived.
ReceiveDamaged(s) ==
    /\ MayAccept(receiveWindow, s)
    /\ UNCHANGED vars

Next ==
    \/ NextSendSequence
    \/ \E s \in Sequences : Receive(s)
    \/ \E s \in Sequences : ReceiveDamaged(s)

Spec == Init /\ [][Next]_vars

-----------------------------------------------------------------------------
(* Properties *)

\* No packet is handed on twice, however often the network repeats it and
\* however far the window has moved (sequenceWindow.accept).
AtMostOnce == \A s \in Sequences : accepted[s] <= 1

\* Packets that fail authentication never move the window: the receiver is
\* never ahead of what the sender really sent, so no genuine packet is pushed
\* out of the window by a damaged one (mayReceive before commitReceived).
NeverAheadOfSender == receiveWindow.highest <= sendSequence

\* The window refuses nothing it still has room for: a packet that was sent,
\* was not handed on and is less than WindowBits behind the newest one would
\* be accepted if it arrived now.
FreshIsAcceptable ==
    \A s \in 1 .. sendSequence :
        accepted[s] = 0 /\ receiveWindow.highest - s < WindowBits
            => MayAccept(receiveWindow, s)

\* The acknowledgment read off the window is one that MarshalReliable encodes
\* and ParseReliable accepts: otherwise the transport could never send again.
AckIsValid == ValidReliableAck(receiveWindow.highest, receiveWindow.seen)

\* The window is exact: bit d is set iff highest - d was handed on, and
\* nothing above highest was.  This is the inductive invariant behind the
\* properties above.
WindowIsExact ==
    /\ \A d \in receiveWindow.seen : d < receiveWindow.highest
    /\ \A s \in Sequences :
           /\ s > receiveWindow.highest => accepted[s] = 0
           /\ s <= receiveWindow.highest /\ receiveWindow.highest - s < WindowBits
                 => accepted[s] = IF receiveWindow.highest - s \in receiveWindow.seen
                                  THEN 1 ELSE 0
=============================================================================
