------------------------ MODULE SequenceWindowProofs ------------------------
(***************************************************************************)
(* The users of the sliding window, for every window width.  A session     *)
(* hands every packet on at most once, refuses nothing its window has room *)
(* for and always has a valid acknowledgment.  On a channel of the         *)
(* transport nothing listed for retransmission ever leaves the reach of    *)
(* the receiver, and nothing is dropped from the list before it arrived.   *)
(* In a room with a screen share the media never overtake the state they   *)
(* belong to, the budget for unfinished chunks is exact, the picture never *)
(* goes back and no frame is heard twice, for any number of viewers,       *)
(* streams, states and frames.                                             *)
(***************************************************************************)
EXTENDS PacketFlow, SendWindow, ScreenShare, FiniteSetTheorems, SequenceTheorems, TLAPS

-----------------------------------------------------------------------------
(* What accept does to a window.  This is all the other proofs know of the mask. *)

\* accept keeps the shape of the struct.
LEMMA AcceptType ==
    ASSUME NEW w \in Window, NEW s \in Nat
    PROVE  Accept(w, s) \in Window
BY WindowBitsAssumption DEF Window, Accept, MayAccept, ShiftLeft, Bits

\* An accepted number is never below the new highest one, and the highest one
\* only grows.
LEMMA AcceptHighest ==
    ASSUME NEW w \in Window, NEW s \in Nat, MayAccept(w, s)
    PROVE  /\ Accept(w, s).highest = IF s > w.highest THEN s ELSE w.highest
           /\ Accept(w, s).highest \in Nat
BY WindowBitsAssumption DEF Window, Accept, MayAccept

\* After accept(s), a number t of the window is marked iff it is s or was
\* marked before.
LEMMA AcceptMarks ==
    ASSUME NEW w \in Window, NEW s \in Nat, MayAccept(w, s),
           NEW t \in Nat, t # 0, t <= Accept(w, s).highest,
           Accept(w, s).highest - t < WindowBits
    PROVE  Accept(w, s).highest - t \in Accept(w, s).seen
             <=> \/ t = s
                 \/ t <= w.highest /\ w.highest - t \in w.seen
<1>1. CASE s > w.highest /\ s - w.highest >= WindowBits
  <2>1. Accept(w, s) = [highest |-> s, seen |-> {0}]
    BY <1>1 DEF Accept
  <2>2. t <= w.highest => w.highest - t \notin Bits \/ s - t >= WindowBits
    BY <1>1, WindowBitsAssumption DEF Window, Bits
  <2> QED
    BY <1>1, <2>1, <2>2, WindowBitsAssumption DEF Window, Bits
<1>2. CASE s > w.highest /\ s - w.highest < WindowBits
  <2>1. Accept(w, s) = [highest |-> s, seen |-> ShiftLeft(w.seen, s - w.highest) \cup {0}]
    <3>1. ~(s - w.highest >= WindowBits)
      BY <1>2, WindowBitsAssumption DEF Window
    <3> QED
      BY <1>2, <3>1 DEF Accept
  <2>2. s - t \in Bits
    BY <2>1, <1>2, WindowBitsAssumption DEF Bits, Window
  <2>3. (s - t) - (s - w.highest) = w.highest - t
    BY DEF Window
  <2>4. w.highest - t \in w.seen => t <= w.highest
    BY WindowBitsAssumption DEF Window, Bits
  <2> QED
    BY <2>1, <2>2, <2>3, <2>4 DEF ShiftLeft, Window
<1>3. CASE ~(s > w.highest)
  <2>1. /\ Accept(w, s).highest = w.highest
        /\ Accept(w, s).seen = w.seen \cup {w.highest - s}
    BY <1>3 DEF Accept, Window
  <2>2. w.highest - t = w.highest - s <=> t = s
    BY DEF Window
  <2> QED
    BY <2>1, <2>2 DEF Window
<1> QED
  BY <1>1, <1>2, <1>3, WindowBitsAssumption DEF Window

\* No bit of the new window stands for the number 0 or a negative one.
LEMMA AcceptBits ==
    ASSUME NEW w \in Window, NEW s \in Nat, MayAccept(w, s),
           \A d \in w.seen : d < w.highest
    PROVE  /\ \A d \in Accept(w, s).seen : d < Accept(w, s).highest
           /\ 0 \in w.seen \/ w.highest = 0 => 0 \in Accept(w, s).seen
BY WindowBitsAssumption DEF Window, Accept, MayAccept, ShiftLeft, Bits

-----------------------------------------------------------------------------
(* The packets of a session: PacketFlow *)

\* The inductive invariant: the type, the exactness of the window, at-most-once
\* itself (it is needed for the numbers that have left the window) and the
\* bound on the window that authentication gives.
FlowIInv == TypeOK /\ WindowIsExact /\ AtMostOnce /\ NeverAheadOfSender /\ AckIsValid

\* A new session starts within the invariant.
LEMMA InitFlowIInv == Init => FlowIInv
BY WindowBitsAssumption, MaxSequenceAssumption
   DEF Init, FlowIInv, TypeOK, WindowIsExact, AtMostOnce, NeverAheadOfSender, AckIsValid,
       ValidReliableAck, Window, EmptyWindow, Sequences, Bits

\* Accepting a packet that may be accepted keeps the invariant.
LEMMA ReceiveFlowIInv ==
    ASSUME FlowIInv, NEW s \in Sequences, Receive(s)
    PROVE  FlowIInv'
<1> DEFINE w == receiveWindow
           v == Accept(w, s)
<1>1. /\ w \in Window
      /\ s \in Nat /\ s # 0
      /\ MayAccept(w, s)
      /\ receiveWindow' = v
      /\ accepted' = [accepted EXCEPT ![s] = @ + 1]
      /\ sendSequence' = sendSequence /\ s <= sendSequence
  BY MaxSequenceAssumption DEF FlowIInv, TypeOK, Receive, Sequences
<1>2. v \in Window
  BY <1>1, AcceptType
<1>3. /\ v.highest = IF s > w.highest THEN s ELSE w.highest
      /\ v.highest \in Nat
  BY <1>1, AcceptHighest
<1> HIDE DEF v
<1>4. accepted[s] = 0
  BY <1>1 DEF FlowIInv, WindowIsExact, MayAccept, Window, Sequences
<1>5. TypeOK'
  BY <1>1, <1>2 DEF FlowIInv, TypeOK
<1>6. AtMostOnce'
  BY <1>1, <1>4 DEF FlowIInv, AtMostOnce, TypeOK
<1>7. NeverAheadOfSender'
  BY <1>1, <1>3 DEF FlowIInv, NeverAheadOfSender
<1>8. \A d \in w.seen : d < w.highest
  BY DEF FlowIInv, WindowIsExact
<1>9. /\ \A d \in v.seen : d < v.highest
      /\ 0 \in v.seen
  <2>1. 0 \in w.seen \/ w.highest = 0
    BY DEF FlowIInv, AckIsValid, ValidReliableAck
  <2> QED
    BY <1>1, <1>8, <2>1, AcceptBits DEF v
<1>10. AckIsValid'
  BY <1>1, <1>2, <1>3, <1>9 DEF AckIsValid, ValidReliableAck, Window
<1>11. ASSUME NEW t \in Sequences
       PROVE  /\ t > v.highest => accepted'[t] = 0
              /\ t <= v.highest /\ v.highest - t < WindowBits
                    => accepted'[t] = IF v.highest - t \in v.seen THEN 1 ELSE 0
  <2>1. t \in Nat /\ t # 0
    BY MaxSequenceAssumption DEF Sequences
  <2>2. t > w.highest => accepted[t] = 0
    BY DEF FlowIInv, WindowIsExact
  <2>3. t <= w.highest /\ w.highest - t < WindowBits
          => accepted[t] = IF w.highest - t \in w.seen THEN 1 ELSE 0
    BY DEF FlowIInv, WindowIsExact
  <2>4. accepted'[t] = IF t = s THEN accepted[t] + 1 ELSE accepted[t]
    BY <1>1 DEF FlowIInv, TypeOK
  <2>5. t > v.highest => accepted'[t] = 0
    BY <1>1, <1>3, <2>1, <2>2, <2>4 DEF Window
  <2>6. ASSUME t <= v.highest, v.highest - t < WindowBits
        PROVE  accepted'[t] = IF v.highest - t \in v.seen THEN 1 ELSE 0
    <3>1. v.highest - t \in v.seen
            <=> t = s \/ (t <= w.highest /\ w.highest - t \in w.seen)
      BY <1>1, <2>1, <2>6, AcceptMarks DEF v
    <3>2. CASE t = s
      BY <3>1, <3>2, <2>4, <1>4
    <3>3. CASE t # s /\ t > w.highest
      BY <3>1, <3>3, <2>4, <2>2, <2>1, <1>1 DEF Window
    <3>4. CASE t # s /\ t <= w.highest
      <4>1. w.highest - t < WindowBits
        BY <3>4, <2>1, <2>6, <1>1, <1>3, WindowBitsAssumption DEF Window
      <4> QED
        BY <3>1, <3>4, <2>4, <2>3, <4>1
    <3> QED
      BY <3>2, <3>3, <3>4, <2>1, <1>1 DEF Window
  <2> QED
    BY <2>5, <2>6
<1>12. WindowIsExact'
  BY <1>1, <1>9, <1>11 DEF WindowIsExact
<1> QED
  BY <1>5, <1>6, <1>7, <1>10, <1>12 DEF FlowIInv

\* Every step of the flow keeps the invariant: sending only raises the bound,
\* a damaged packet changes nothing.
LEMMA NextFlowIInv == FlowIInv /\ [Next]_vars => FlowIInv'
<1> SUFFICES ASSUME FlowIInv, [Next]_vars
             PROVE  FlowIInv'
  OBVIOUS
<1>1. CASE NextSendSequence
  BY <1>1, MaxSequenceAssumption
     DEF NextSendSequence, FlowIInv, TypeOK, WindowIsExact, AtMostOnce, NeverAheadOfSender,
         AckIsValid, Window
<1>2. ASSUME NEW s \in Sequences, Receive(s)
      PROVE  FlowIInv'
  BY <1>2, ReceiveFlowIInv
<1>3. CASE UNCHANGED vars
  BY <1>3 DEF vars, FlowIInv, TypeOK, WindowIsExact, AtMostOnce, NeverAheadOfSender, AckIsValid
<1> QED
  BY <1>1, <1>2, <1>3 DEF Next, ReceiveDamaged

\* The window and the history of what was handed on stay in step throughout a
\* session (nextSendSequence, mayReceive, commitReceived).
THEOREM FlowInvariance == Spec => []FlowIInv
BY InitFlowIInv, NextFlowIInv, PTL DEF Spec

\* The types of the flow (sessionPacketFlow, sequenceWindow).
THEOREM FlowTypeCorrect == Spec => []TypeOK
BY FlowInvariance, PTL DEF FlowIInv

\* No packet is handed on twice, for every window width and sequence space
\* (sequenceWindow.accept).
THEOREM HandedOnAtMostOnce == Spec => []AtMostOnce
BY FlowInvariance, PTL DEF FlowIInv

\* A damaged packet never moves the window past what was sent (mayReceive
\* before commitReceived).
THEOREM WindowFollowsSender == Spec => []NeverAheadOfSender
BY FlowInvariance, PTL DEF FlowIInv

\* What the window still has room for is accepted (sequenceWindow.accept).
THEOREM NothingFreshRefused == Spec => []FreshIsAcceptable
<1>1. FlowIInv => FreshIsAcceptable
  BY MaxSequenceAssumption
     DEF FlowIInv, TypeOK, WindowIsExact, FreshIsAcceptable, MayAccept, Sequences, Window
<1> QED
  BY <1>1, FlowInvariance, PTL

\* The window always reads as an acknowledgment the codec accepts
\* (validReliableAck).
THEOREM AckAlwaysValid == Spec => []AckIsValid
BY FlowInvariance, PTL DEF FlowIInv

-----------------------------------------------------------------------------
(* The fragments of a channel: SendWindow *)

\* The receiver's mask is exactly what it has taken: a number above highest was
\* not taken, and one inside the window is marked iff it was.
MaskIsExact ==
    /\ \A d \in received.seen : d < received.highest
    /\ \A s \in 1 .. MaxSequence :
           /\ s > received.highest => s \notin taken
           /\ s <= received.highest /\ received.highest - s < WindowBits
                 => (s \in taken <=> received.highest - s \in received.seen)

\* What the sender knows: no fragment was sent WindowBits or more ahead of one
\* that is still in flight.  The receiver cannot be ahead of what was sent.
SpreadIsBounded ==
    /\ \A s \in InFlight : lastSent < s + WindowBits
    /\ received.highest <= lastSent

\* An acknowledgment on its way covers only what the receiver has taken.
AcksAreEarned ==
    \A w \in acks : \A s \in 1 .. MaxSequence :
        FragmentAckContains(w.highest, w.seen, s) => s \in taken

\* The inductive invariant.  NeverOutrun alone is not inductive: it says
\* nothing of packets still on the path, which SpreadIsBounded does.  Nor is
\* NothingForgotten, which says nothing of the acknowledgments on their way.
ChannelIInv ==
    ChannelTypeOK /\ SpreadIsBounded /\ MaskIsExact /\ AcksAreEarned /\ NothingForgotten

\* A new channel starts within the invariant.
LEMMA InitChannelIInv == ChannelInit => ChannelIInv
BY WindowBitsAssumption, MaxSequenceAssumption
   DEF ChannelInit, ChannelIInv, ChannelTypeOK, SpreadIsBounded, MaskIsExact, AcksAreEarned,
       NothingForgotten, InFlight, Window, EmptyWindow, Bits

\* Queueing a message only adds numbers nobody has used.
LEMMA QueueIInv ==
    ASSUME ChannelIInv, NEW n \in 1 .. MaxSequence, Queue(n)
    PROVE  ChannelIInv'
<1>1. ChannelTypeOK'
  BY MaxSequenceAssumption DEF ChannelIInv, ChannelTypeOK, Queue
<1>2. SpreadIsBounded'
  BY MaxSequenceAssumption DEF ChannelIInv, ChannelTypeOK, SpreadIsBounded, InFlight, Queue
<1>3. MaskIsExact' /\ AcksAreEarned'
  BY DEF ChannelIInv, MaskIsExact, AcksAreEarned, Queue
<1>4. NothingForgotten'
  BY MaxSequenceAssumption DEF ChannelIInv, ChannelTypeOK, NothingForgotten, Queue
<1> QED
  BY <1>1, <1>2, <1>3, <1>4 DEF ChannelIInv

\* The rule of nextPacket keeps the spread of the fragments in flight below
\* the width of the receiver's window.
LEMMA SendNewIInv ==
    ASSUME ChannelIInv, SendNew
    PROVE  ChannelIInv'
<1>1. ChannelTypeOK'
  BY MaxSequenceAssumption DEF ChannelIInv, ChannelTypeOK, SendNew
<1>2. SpreadIsBounded'
  <2>1. received.highest \in Nat /\ lastSent \in Nat /\ lastSent' = lastSent + 1
    BY MaxSequenceAssumption DEF ChannelIInv, ChannelTypeOK, Window, SendNew
  <2>2. ASSUME NEW s \in InFlight'
        PROVE  lastSent' < s + WindowBits
    <3>1. s \in Nat /\ (s \in InFlight \/ s = lastSent + 1)
      BY <2>1, <2>2, MaxSequenceAssumption DEF ChannelIInv, ChannelTypeOK, InFlight, SendNew
    <3> QED
      BY <2>1, <3>1, WindowBitsAssumption DEF SendNew
  <2> QED
    BY <2>1, <2>2 DEF ChannelIInv, SpreadIsBounded, SendNew
<1>3. MaskIsExact' /\ AcksAreEarned' /\ NothingForgotten'
  BY DEF ChannelIInv, MaskIsExact, AcksAreEarned, NothingForgotten, SendNew
<1> QED
  BY <1>1, <1>2, <1>3 DEF ChannelIInv

\* Whatever arrives was sent, so the receiver's window never moves past the
\* spread that SendNew bounds.
LEMMA ReceiveIInv ==
    ASSUME ChannelIInv, NEW s \in 1 .. lastSent, ReceiveFragment(s)
    PROVE  ChannelIInv'
<1> DEFINE w == received
           v == Accept(w, s)
<1>1. /\ w \in Window
      /\ s \in Nat /\ s # 0 /\ s \in 1 .. MaxSequence
      /\ lastSent \in Nat /\ s <= lastSent
      /\ MayAccept(w, s)
      /\ received' = v
      /\ taken' = taken \cup {s}
      /\ UNCHANGED <<next, lastSent, outbound, acks>>
  BY MaxSequenceAssumption DEF ChannelIInv, ChannelTypeOK, ReceiveFragment
<1>2. v \in Window
  BY <1>1, AcceptType
<1>3. /\ v.highest = IF s > w.highest THEN s ELSE w.highest
      /\ v.highest \in Nat
  BY <1>1, AcceptHighest
<1>4. \A d \in v.seen : d < v.highest
  BY <1>1, AcceptBits DEF ChannelIInv, MaskIsExact
<1> HIDE DEF v
<1>5. ChannelTypeOK'
  BY <1>1, <1>2 DEF ChannelIInv, ChannelTypeOK
<1>6. SpreadIsBounded'
  BY <1>1, <1>3 DEF ChannelIInv, SpreadIsBounded, InFlight
<1>7. NothingForgotten' /\ AcksAreEarned'
  BY <1>1 DEF ChannelIInv, NothingForgotten, AcksAreEarned
<1>8. ASSUME NEW t \in 1 .. MaxSequence
      PROVE  /\ t > v.highest => t \notin taken'
             /\ t <= v.highest /\ v.highest - t < WindowBits
                   => (t \in taken' <=> v.highest - t \in v.seen)
  <2>1. t \in Nat /\ t # 0 /\ w.highest \in Nat
    BY <1>1, MaxSequenceAssumption DEF Window
  <2>2. t > w.highest => t \notin taken
    BY DEF ChannelIInv, MaskIsExact
  <2>3. t <= w.highest /\ w.highest - t < WindowBits
          => (t \in taken <=> w.highest - t \in w.seen)
    BY DEF ChannelIInv, MaskIsExact
  <2>4. t > v.highest => t \notin taken'
    BY <1>1, <1>3, <2>1, <2>2
  <2>5. ASSUME t <= v.highest, v.highest - t < WindowBits
        PROVE  t \in taken' <=> v.highest - t \in v.seen
    <3>1. v.highest - t \in v.seen
            <=> t = s \/ (t <= w.highest /\ w.highest - t \in w.seen)
      BY <1>1, <2>1, <2>5, AcceptMarks DEF v
    <3>2. t <= w.highest => w.highest - t < WindowBits
      BY <1>1, <1>3, <2>1, <2>5, WindowBitsAssumption
    <3> QED
      BY <1>1, <2>1, <2>2, <2>3, <3>1, <3>2
  <2> QED
    BY <2>4, <2>5
<1>9. MaskIsExact'
  BY <1>1, <1>4, <1>8 DEF MaskIsExact
<1> QED
  BY <1>5, <1>6, <1>7, <1>9 DEF ChannelIInv

\* The receiver's window, sent as an acknowledgment, covers only what was taken: each
\* bit of the mask within the window stands for a number retained.
LEMMA OfferAckIInv ==
    ASSUME ChannelIInv, OfferAck
    PROVE  ChannelIInv'
<1>1. ASSUME NEW s \in 1 .. MaxSequence,
             FragmentAckContains(received.highest, received.seen, s)
      PROVE  s \in taken
  <2>1. /\ s <= received.highest
        /\ received.highest - s \in received.seen
    BY <1>1 DEF FragmentAckContains
  <2>2. received.highest - s < WindowBits
    BY <2>1, WindowBitsAssumption, MaxSequenceAssumption
       DEF ChannelIInv, ChannelTypeOK, Window, Bits
  <2> QED
    BY <2>1, <2>2 DEF ChannelIInv, MaskIsExact
<1>2. AcksAreEarned'
  BY <1>1 DEF ChannelIInv, AcksAreEarned, OfferAck
<1>3. ChannelTypeOK'
  BY DEF ChannelIInv, ChannelTypeOK, OfferAck
<1>4. SpreadIsBounded' /\ MaskIsExact' /\ NothingForgotten'
  BY DEF ChannelIInv, SpreadIsBounded, MaskIsExact, NothingForgotten, InFlight, OfferAck
<1> QED
  BY <1>2, <1>3, <1>4 DEF ChannelIInv

\* An acknowledgment that is lost changes nothing else.
LEMMA LoseAckIInv ==
    ASSUME ChannelIInv, NEW w \in acks, LoseAck(w)
    PROVE  ChannelIInv'
BY DEF ChannelIInv, ChannelTypeOK, SpreadIsBounded, MaskIsExact, AcksAreEarned,
       NothingForgotten, InFlight, LoseAck

\* What an acknowledgment removes it covers, so the receiver has taken it.
LEMMA AcknowledgeIInv ==
    ASSUME ChannelIInv, NEW w \in acks, Acknowledge(w)
    PROVE  ChannelIInv'
<1>1. /\ outbound' = {s \in outbound : ~(s \in InFlight
                                        /\ FragmentAckContains(w.highest, w.seen, s))}
      /\ acks' \subseteq acks
      /\ UNCHANGED <<next, lastSent, received, taken>>
  BY DEF Acknowledge
<1>2. NothingForgotten'
  <2>1. next \in Nat /\ next <= MaxSequence
    BY MaxSequenceAssumption DEF ChannelIInv, ChannelTypeOK
  <2>2. ASSUME NEW s \in 1 .. next, s \in outbound, s \notin outbound'
        PROVE  s \in taken
    <3>1. s \in 1 .. MaxSequence
      BY <2>1, MaxSequenceAssumption
    <3>2. FragmentAckContains(w.highest, w.seen, s)
      BY <1>1, <2>2
    <3> QED
      BY <3>1, <3>2 DEF ChannelIInv, AcksAreEarned
  <2> QED
    BY <1>1, <2>2 DEF ChannelIInv, NothingForgotten
<1>3. ChannelTypeOK' /\ SpreadIsBounded' /\ MaskIsExact' /\ AcksAreEarned'
  BY <1>1 DEF ChannelIInv, ChannelTypeOK, SpreadIsBounded, MaskIsExact, AcksAreEarned, InFlight
<1> QED
  BY <1>2, <1>3 DEF ChannelIInv

\* Every step of the channel keeps the invariant.
LEMMA NextChannelIInv == ChannelIInv /\ [ChannelNext]_channelVars => ChannelIInv'
<1> SUFFICES ASSUME ChannelIInv, [ChannelNext]_channelVars
             PROVE  ChannelIInv'
  OBVIOUS
<1>1. CASE UNCHANGED channelVars
  BY <1>1 DEF channelVars, ChannelIInv, ChannelTypeOK, SpreadIsBounded, MaskIsExact,
                AcksAreEarned, NothingForgotten, InFlight
<1> QED
  BY <1>1, QueueIInv, SendNewIInv, ReceiveIInv, OfferAckIInv, LoseAckIInv, AcknowledgeIInv
     DEF ChannelNext

\* The fragments in flight and the receiver's window stay within one window of
\* each other for the whole life of a channel (nextPacket, receive).
THEOREM ChannelInvariance == ChannelSpec => []ChannelIInv
BY InitChannelIInv, NextChannelIInv, PTL DEF ChannelSpec

\* The bounded spread is what keeps listed fragments in reach.
LEMMA IInvNeverOutrun == ChannelIInv => NeverOutrun
BY WindowBitsAssumption, MaxSequenceAssumption
   DEF ChannelIInv, ChannelTypeOK, SpreadIsBounded, NeverOutrun, InFlight, Window

\* What is listed for retransmission stays within the receiver's reach, for
\* every window width (nextPacket, sequenceWindow.accept).
THEOREM ListedStaysInReach == ChannelSpec => []NeverOutrun
BY ChannelInvariance, IInvNeverOutrun, PTL

\* Every retransmission can end: the receiver accepts the fragment or its next
\* acknowledgment covers it (nextPacket, receive, consumeFragmentAck).
THEOREM RetransmissionCanEnd == ChannelSpec => []RetransmissionHelps
<1>1. ChannelIInv /\ NeverOutrun => RetransmissionHelps
  <2> SUFFICES ASSUME ChannelIInv, NeverOutrun, NEW s \in outbound, ~MayAccept(received, s)
               PROVE  s \in taken
                      /\ FragmentAckContains(received.highest, received.seen, s)
    BY DEF RetransmissionHelps
  <2>1. s \in 1 .. MaxSequence /\ s \in Nat /\ s # 0 /\ received.highest \in Nat
    BY MaxSequenceAssumption DEF ChannelIInv, ChannelTypeOK, Window
  <2>2. s <= received.highest /\ received.highest - s < WindowBits
    BY <2>1, WindowBitsAssumption DEF NeverOutrun, MayAccept
  <2>3. received.highest - s \in received.seen
    BY <2>1, <2>2 DEF MayAccept
  <2> QED
    BY <2>1, <2>2, <2>3 DEF ChannelIInv, MaskIsExact, FragmentAckContains
<1> QED
  BY <1>1, ChannelInvariance, IInvNeverOutrun, PTL

\* The sender drops no fragment that the receiver has not retained, however late the
\* acknowledgment that makes it drop one (sequenceWindow.accept, FragmentAckContains,
\* consumeFragmentAck).
THEOREM NothingIsForgotten == ChannelSpec => []NothingForgotten
BY ChannelInvariance, PTL DEF ChannelIInv

\* Nothing is sent before it is queued or retained before it is sent (queue,
\* nextPacket, receive).
THEOREM ChannelTypeCorrect == ChannelSpec => []ChannelTypeOK
BY ChannelInvariance, PTL DEF ChannelIInv

-----------------------------------------------------------------------------
(* The states and the media of a screen share *)

RoomType ==
    [viewers : SUBSET Viewers, screens : Nat, members : Nat, sends : Nat, kinds : SUBSET Kind,
     fragments : Nat \ {0}, rekeys : Nat, full : Nat]
StateType == [revision : Nat \ {0}, value : Nat]
SessionType ==
    [sent : [State -> Nat], out : [State -> Seq(Nat)], unacked : [State -> Nat],
     old : [State -> Seq(Nat)]]
VideoType ==
    [stream : Nat, newest : Nat, delivered : Nat, parts : UNION {[D -> SUBSET Nat] : D \in SUBSET Nat},
     expired : SUBSET Nat]
StreamType == [key : Nat \X Kind, window : Window]
ViewerType ==
    [state : [State -> Nat], windows : Seq(StreamType), video : VideoType, retained : Nat,
     burst : BOOLEAN, forward : SUBSET Datagram, completed : Seq(Nat \X Nat)]

ScreenTypeOK ==
    /\ setting \in RoomType
    /\ desired \in {0, 1} /\ signal \in BOOLEAN
    /\ local \in [State -> StateType]
    /\ sequence \in [voice : Nat, screen : Nat, chunk : Nat]
    /\ session \in [Viewers -> SessionType]
    /\ viewer \in [Viewers -> ViewerType]
    /\ BagToSet(net) \subseteq Datagram
    /\ shown \in [Viewers -> Nat \X Nat]

\* What the viewer is to know of the screen, from now on and one after the other: what it
\* knows, what is on its way from the session before and from this one, what is true.
ChainOf(state, old, out, value) ==
    [i \in 1 .. Len(old) + Len(out) + 2 |->
        IF i = 1 THEN state
        ELSE IF i <= Len(old) + 1 THEN old[i - 1]
        ELSE IF i <= Len(old) + Len(out) + 1 THEN out[i - Len(old) - 1]
        ELSE value]
ChainTo(w, s, state) ==
    ChainOf(w.state["screen"], s.old["screen"], s.out["screen"], state.value)
Chain(v) == ChainTo(viewer[v], session[v], local["screen"])

\* Streams come in their order, and one that has ended does not come back.
Rising(c) ==
    /\ \A i, j \in DOMAIN c : i < j /\ c[i] # 0 /\ c[j] # 0 => c[i] <= c[j]
    /\ \A i, k, j \in DOMAIN c : i < k /\ k < j /\ c[i] # 0 /\ c[k] # c[i] => c[j] # c[i]

\* A stream that none of the states to come belongs to: it is over.
Over(x, c) == \A i \in DOMAIN c : c[i] # 0 => x < c[i]

Chains ==
    /\ local["screen"].value \in {0, local["screen"].revision}
    /\ \A v \in Viewers :
        /\ Rising(Chain(v))
        /\ \A i \in DOMAIN Chain(v) : Chain(v)[i] <= local["screen"].revision

\* A session that counts as up to date is or will be: the last message on its way says
\* what is true, or the viewer knows it.
Told(s, known, state) ==
    LET out == s.out["screen"]
    IN  /\ s.sent["screen"] <= state.revision
        /\ s.sent["screen"] = state.revision =>
                IF out = <<>> THEN known = state.value /\ s.old["screen"] = <<>>
                ELSE out[Len(out)] = state.value
Informed == \A v \in Viewers : Told(session[v], viewer[v].state["screen"], local["screen"])

\* Media on its way is of a stream that was shared, and if it is the one that is shared
\* now, its receiver knows nothing else and will hear of nothing else.
Sent ==
    \A p \in BagToSet(net) : p.from = Sharer =>
        /\ p.stream <= local["screen"].revision
        /\ p.kind # "voice" /\ p.stream = local["screen"].value =>
                \A i \in DOMAIN Chain(p.to) : Chain(p.to)[i] = p.stream

\* The chunks under way, and what they cost.
Exact(w) ==
    /\ IsFiniteSet(Retained(w.video)) /\ w.retained = Cardinality(Retained(w.video))
    /\ w.retained <= MaxRetained
BudgetOf(w) ==
    /\ Exact(w)
    /\ w.video.stream \in {0, w.state["screen"]}
    /\ w.video.stream = 0 => w.video = NoVideo
Budget == \A v \in Viewers : BudgetOf(viewer[v])

\* The windows: one per stream, in the order of their last packets.  After the video of
\* the current stream only its audio and the voice were heard.
Ordered(w) ==
    LET stream == w.state["screen"]
    IN  /\ \A i, j \in DOMAIN w.windows : w.windows[i].key = w.windows[j].key => i = j
        /\ \A i \in DOMAIN w.windows : w.windows[i].key[2] = "voice" <=> w.windows[i].key[1] = 0
        /\ \A i, j \in DOMAIN w.windows :
                i < j /\ w.windows[i].key = <<stream, "video">> =>
                    w.windows[j].key \in {<<0, "voice">>, <<stream, "audio">>}
        /\ w.video.stream # 0 => \E i \in DOMAIN w.windows : w.windows[i].key = <<stream, "video">>
WindowsOf(w, chain, revision) ==
    /\ Ordered(w)
    /\ \A i \in DOMAIN w.windows :
        /\ w.windows[i].key[1] <= revision
        /\ w.windows[i].key[1] \in {0, w.state["screen"]} \/ Over(w.windows[i].key[1], chain)
Windows == \A v \in Viewers : WindowsOf(viewer[v], Chain(v), local["screen"].revision)

\* The chunks completed are in their order, and what comes is later than all of them.
Earlier(a, b) == a[1] < b[1] \/ (a[1] = b[1] /\ a[2] < b[2])
LastDone(done, seen) == IF done = <<>> THEN seen ELSE done[Len(done)]
PicturesOf(w, seen, chain, revision) ==
    LET done == w.completed
        last == LastDone(done, seen)
    IN  /\ \A i, j \in DOMAIN done : i < j => Earlier(done[i], done[j])
        /\ \A i \in DOMAIN done : Earlier(seen, done[i])
        /\ last[1] <= revision
        /\ \/ w.video.stream = last[1] /\ last[2] <= w.video.delivered
           \/ Over(last[1], chain)
Pictures == \A v \in Viewers : PicturesOf(viewer[v], shown[v], Chain(v), local["screen"].revision)

ScreenIInv ==
    ScreenTypeOK /\ Chains /\ Informed /\ Sent /\ Budget /\ Windows /\ Pictures

-----------------------------------------------------------------------------
(* Chains *)

\* d is what is left of c: some of its entries, in their order.
Inside(d, c) ==
    \E f \in [DOMAIN d -> DOMAIN c] :
        /\ \A i, j \in DOMAIN d : i < j => f[i] <= f[j]
        /\ \A i \in DOMAIN d : d[i] = c[f[i]]

\* A sequence of states.
IsChain(c) == \E n \in Nat : c \in [1 .. n -> Nat]

\* What holds of a chain holds of what is left of it.
LEMMA InsideKeeps ==
    ASSUME NEW c, NEW d, IsChain(c), IsChain(d), Inside(d, c)
    PROVE  /\ Rising(c) => Rising(d)
           /\ \A x \in Nat : Over(x, c) => Over(x, d)
           /\ \A x \in Nat : (\A i \in DOMAIN c : c[i] <= x) => \A i \in DOMAIN d : d[i] <= x
           /\ \A x \in Nat : (\A i \in DOMAIN c : c[i] = x) => \A i \in DOMAIN d : d[i] = x
<1> PICK n \in Nat : c \in [1 .. n -> Nat]
  BY DEF IsChain
<1> PICK m \in Nat : d \in [1 .. m -> Nat]
  BY DEF IsChain
<1>1. PICK f \in [1 .. m -> 1 .. n] :
        /\ \A i, j \in 1 .. m : i < j => f[i] <= f[j]
        /\ \A i \in 1 .. m : d[i] = c[f[i]]
  BY DEF Inside
<1>2. ASSUME Rising(c)
      PROVE  Rising(d)
  <2>1. ASSUME NEW i \in 1 .. m, NEW j \in 1 .. m, i < j, d[i] # 0, d[j] # 0
        PROVE  d[i] <= d[j]
    <3>1. f[i] \in 1 .. n /\ f[j] \in 1 .. n /\ f[i] <= f[j] /\ d[i] = c[f[i]] /\ d[j] = c[f[j]]
      BY <1>1, <2>1
    <3> QED
      BY <1>2, <2>1, <3>1 DEF Rising
  <2>2. ASSUME NEW i \in 1 .. m, NEW k \in 1 .. m, NEW j \in 1 .. m,
               i < k, k < j, d[i] # 0, d[k] # d[i]
        PROVE  d[j] # d[i]
    <3>1. /\ f[i] \in 1 .. n /\ f[k] \in 1 .. n /\ f[j] \in 1 .. n
          /\ f[i] <= f[k] /\ f[k] <= f[j]
          /\ d[i] = c[f[i]] /\ d[k] = c[f[k]] /\ d[j] = c[f[j]]
      BY <1>1, <2>2
    <3>2. f[i] # f[k]
      BY <2>2, <3>1
    <3>3. CASE f[k] = f[j]
      BY <2>2, <3>1, <3>3
    <3>4. CASE f[k] # f[j]
      BY <1>2, <2>2, <3>1, <3>2, <3>4 DEF Rising
    <3> QED
      BY <3>3, <3>4
  <2> QED
    BY <2>1, <2>2 DEF Rising
<1>3. \A x \in Nat : Over(x, c) => Over(x, d)
  BY <1>1 DEF Over
<1> QED
  BY <1>1, <1>2, <1>3

\* When the viewer is told something else, what it knew is over.
LEMMA InsideEnds ==
    ASSUME NEW c, NEW d, IsChain(c), IsChain(d), 1 \in DOMAIN c, 1 \in DOMAIN d,
           Inside(d, c), Rising(c), c[1] # 0, d[1] # c[1]
    PROVE  Over(c[1], d)
<1> PICK n \in Nat : c \in [1 .. n -> Nat]
  BY DEF IsChain
<1> PICK m \in Nat : d \in [1 .. m -> Nat]
  BY DEF IsChain
<1>1. PICK f \in [1 .. m -> 1 .. n] :
        /\ \A i, j \in 1 .. m : i < j => f[i] <= f[j]
        /\ \A i \in 1 .. m : d[i] = c[f[i]]
  BY DEF Inside
<1>2. SUFFICES ASSUME NEW i \in 1 .. m, d[i] # 0
               PROVE  c[1] < d[i]
  BY DEF Over
<1>3. /\ 1 \in 1 .. m /\ 1 \in 1 .. n /\ f[1] \in 1 .. n /\ f[i] \in 1 .. n /\ f[1] <= f[i]
      /\ d[1] = c[f[1]] /\ d[i] = c[f[i]]
  BY <1>1
<1>4. 1 < f[1] /\ 1 \in 1 .. n
  BY <1>3
<1>5. c[f[i]] # c[1]
  <2>1. CASE f[i] = f[1]
    BY <1>3, <2>1
  <2>2. CASE f[i] # f[1]
    BY <1>3, <1>4, <2>2 DEF Rising
  <2> QED
    BY <2>1, <2>2
<1>6. c[1] <= c[f[i]]
  BY <1>2, <1>3, <1>4 DEF Rising
<1> QED
  BY <1>3, <1>5, <1>6

LEMMA InsideInside ==
    ASSUME NEW b, NEW c, NEW d, Inside(d, c), Inside(c, b),
           DOMAIN b \subseteq Nat, DOMAIN c \subseteq Nat, DOMAIN d \subseteq Nat
    PROVE  Inside(d, b)
<1>1. PICK f \in [DOMAIN d -> DOMAIN c] :
        /\ \A i, j \in DOMAIN d : i < j => f[i] <= f[j]
        /\ \A i \in DOMAIN d : d[i] = c[f[i]]
  BY DEF Inside
<1>2. PICK g \in [DOMAIN c -> DOMAIN b] :
        /\ \A i, j \in DOMAIN c : i < j => g[i] <= g[j]
        /\ \A i \in DOMAIN c : c[i] = b[g[i]]
  BY DEF Inside
<1> DEFINE h == [i \in DOMAIN d |-> g[f[i]]]
<1>3. h \in [DOMAIN d -> DOMAIN b]
  BY <1>1, <1>2
<1>4. ASSUME NEW i \in DOMAIN d, NEW j \in DOMAIN d, i < j
      PROVE  h[i] <= h[j]
  <2>1. f[i] \in DOMAIN c /\ f[j] \in DOMAIN c /\ f[i] <= f[j]
    BY <1>1, <1>4
  <2>2. CASE f[i] = f[j]
    BY <1>2, <2>1, <2>2
  <2>3. CASE f[i] # f[j]
    <3>1. f[i] < f[j]
      BY <2>1, <2>3
    <3> QED
      BY <1>2, <2>1, <3>1
  <2> QED
    BY <2>2, <2>3
<1>5. \A i \in DOMAIN d : d[i] = b[h[i]]
  BY <1>1, <1>2
<1> HIDE DEF h
<1> QED
  BY <1>3, <1>4, <1>5 DEF Inside

\* The entries of a chain.
LEMMA ChainType ==
    ASSUME NEW state \in Nat, NEW old \in Seq(Nat), NEW out \in Seq(Nat), NEW value \in Nat
    PROVE  /\ Len(old) \in Nat /\ Len(out) \in Nat
           /\ ChainOf(state, old, out, value) \in [1 .. Len(old) + Len(out) + 2 -> Nat]
           /\ ChainOf(state, old, out, value)[1] = state
           /\ ChainOf(state, old, out, value)[Len(old) + Len(out) + 2] = value
<1>1. Len(old) \in Nat /\ Len(out) \in Nat
  OBVIOUS
<1>2. \A i \in 1 .. Len(old) + Len(out) + 2 :
        /\ i # 1 /\ i <= Len(old) + 1 => old[i - 1] \in Nat
        /\ i > Len(old) + 1 /\ i <= Len(old) + Len(out) + 1 => out[i - Len(old) - 1] \in Nat
  BY <1>1
<1> QED
  BY <1>1, <1>2 DEF ChainOf

\* The ways in which the entries move: an old message arrives, a new one arrives and the
\* old ones do not any more, what is true is sent once more, a new session starts, the old
\* messages do not arrive any more.
LEMMA ChainMoves ==
    ASSUME NEW state \in Nat, NEW old \in Seq(Nat), NEW out \in Seq(Nat), NEW value \in Nat
    PROVE  /\ old # <<>> => Inside(ChainOf(Head(old), Tail(old), out, value),
                                   ChainOf(state, old, out, value))
           /\ out # <<>> => Inside(ChainOf(Head(out), <<>>, Tail(out), value),
                                   ChainOf(state, old, out, value))
           /\ Inside(ChainOf(state, old, Append(out, value), value),
                     ChainOf(state, old, out, value))
           /\ Inside(ChainOf(state, out, <<>>, value), ChainOf(state, old, out, value))
           /\ Inside(ChainOf(state, <<>>, out, value), ChainOf(state, old, out, value))
<1> DEFINE c == ChainOf(state, old, out, value)
           l == Len(old)
           n == Len(out)
<1>1. l \in Nat /\ n \in Nat /\ DOMAIN c = 1 .. l + n + 2
  BY ChainType
<1>2. ASSUME old # <<>>
      PROVE  Inside(ChainOf(Head(old), Tail(old), out, value), c)
  <2> DEFINE d == ChainOf(Head(old), Tail(old), out, value)
             f == [i \in 1 .. l + n + 1 |-> i + 1]
  <2>1. Len(Tail(old)) = l - 1 /\ l >= 1 /\ Head(old) = old[1]
        /\ \A i \in 1 .. l - 1 : Tail(old)[i] = old[i + 1]
    BY <1>2
  <2>2. DOMAIN d = 1 .. l + n + 1
    BY <1>1, <2>1 DEF ChainOf
  <2>3. \A i \in 1 .. l + n + 1 : d[i] = c[i + 1]
    BY <1>1, <2>1 DEF ChainOf
  <2>4. f \in [DOMAIN d -> DOMAIN c]
    BY <1>1, <2>2
  <2>5. /\ \A i, j \in DOMAIN d : i < j => f[i] <= f[j]
        /\ \A i \in DOMAIN d : d[i] = c[f[i]]
    <3> HIDE DEF c, d, l, n
    <3> QED
      BY <1>1, <2>2, <2>3
  <2>6. Inside(d, c)
    <3> HIDE DEF c, d, l, n, f
    <3> QED
      BY <2>4, <2>5 DEF Inside
  <2> QED
    BY <2>6
<1>3. ASSUME out # <<>>
      PROVE  Inside(ChainOf(Head(out), <<>>, Tail(out), value), c)
  <2> DEFINE d == ChainOf(Head(out), <<>>, Tail(out), value)
             f == [i \in 1 .. n + 1 |-> i + l + 1]
  <2>1. Len(Tail(out)) = n - 1 /\ n >= 1 /\ Head(out) = out[1] /\ Len(<<>>) = 0
        /\ \A i \in 1 .. n - 1 : Tail(out)[i] = out[i + 1]
    BY <1>3
  <2>2. DOMAIN d = 1 .. n + 1
    BY <1>1, <2>1 DEF ChainOf
  <2>3. \A i \in 1 .. n + 1 : d[i] = c[i + l + 1]
    BY <1>1, <2>1 DEF ChainOf
  <2>4. f \in [DOMAIN d -> DOMAIN c]
    BY <1>1, <2>2
  <2>5. /\ \A i, j \in DOMAIN d : i < j => f[i] <= f[j]
        /\ \A i \in DOMAIN d : d[i] = c[f[i]]
    <3> HIDE DEF c, d, l, n
    <3> QED
      BY <1>1, <2>2, <2>3
  <2>6. Inside(d, c)
    <3> HIDE DEF c, d, l, n, f
    <3> QED
      BY <2>4, <2>5 DEF Inside
  <2> QED
    BY <2>6
<1>4. Inside(ChainOf(state, old, Append(out, value), value), c)
  <2> DEFINE more == Append(out, value)
             d == ChainOf(state, old, more, value)
             f == [i \in 1 .. l + n + 3 |-> IF i <= l + n + 2 THEN i ELSE l + n + 2]
  <2>1. Len(more) = n + 1 /\ \A i \in 1 .. n + 1 : more[i] = IF i <= n THEN out[i] ELSE value
    BY AppendProperties
  <2> HIDE DEF more
  <2>2. DOMAIN d = 1 .. l + n + 3
    BY <1>1, <2>1 DEF ChainOf
  <2>3. \A i \in 1 .. l + n + 3 : d[i] = c[f[i]]
    <3> SUFFICES ASSUME NEW i \in 1 .. l + n + 3
                 PROVE  d[i] = c[f[i]]
      OBVIOUS
    <3>1. d[i] = IF i = 1 THEN state ELSE IF i <= l + 1 THEN old[i - 1]
                 ELSE IF i <= l + n + 2 THEN more[i - l - 1] ELSE value
      BY <1>1, <2>1 DEF ChainOf
    <3>2. i > l + 1 /\ i <= l + n + 2 =>
            more[i - l - 1] = IF i <= l + n + 1 THEN out[i - l - 1] ELSE value
      <4> HIDE DEF l, n
      <4> SUFFICES ASSUME i > l + 1, i <= l + n + 2
                   PROVE  more[i - l - 1] = IF i <= l + n + 1 THEN out[i - l - 1] ELSE value
        OBVIOUS
      <4>1. i - l - 1 \in 1 .. n + 1 /\ (i - l - 1 <= n <=> i <= l + n + 1)
        BY <1>1
      <4> QED
        BY <2>1, <4>1
    <3>3. f[i] = (IF i <= l + n + 2 THEN i ELSE l + n + 2) /\ f[i] \in 1 .. l + n + 2
      BY <1>1
    <3>4. \A k \in 1 .. l + n + 2 :
            c[k] = IF k = 1 THEN state ELSE IF k <= l + 1 THEN old[k - 1]
                   ELSE IF k <= l + n + 1 THEN out[k - l - 1] ELSE value
      BY <1>1 DEF ChainOf
    <3> HIDE DEF c, d, l, n, f
    <3> QED
      BY <1>1, <3>1, <3>2, <3>3, <3>4
  <2>4. f \in [DOMAIN d -> DOMAIN c]
    BY <1>1, <2>2
  <2>5. /\ \A i, j \in DOMAIN d : i < j => f[i] <= f[j]
        /\ \A i \in DOMAIN d : d[i] = c[f[i]]
    <3> HIDE DEF c, d, l, n
    <3> QED
      BY <1>1, <2>2, <2>3
  <2>6. Inside(d, c)
    <3> HIDE DEF c, d, l, n, f
    <3> QED
      BY <2>4, <2>5 DEF Inside
  <2> QED
    BY <2>6 DEF more
<1>5. Inside(ChainOf(state, out, <<>>, value), c)
  <2> DEFINE d == ChainOf(state, out, <<>>, value)
             f == [i \in 1 .. n + 2 |-> IF i = 1 THEN 1 ELSE i + l]
  <2>1. Len(<<>>) = 0
    OBVIOUS
  <2>2. DOMAIN d = 1 .. n + 2
    BY <1>1, <2>1 DEF ChainOf
  <2>3. \A i \in 1 .. n + 2 : d[i] = c[f[i]]
    BY <1>1, <2>1 DEF ChainOf
  <2>4. f \in [DOMAIN d -> DOMAIN c]
    BY <1>1, <2>2
  <2>5. /\ \A i, j \in DOMAIN d : i < j => f[i] <= f[j]
        /\ \A i \in DOMAIN d : d[i] = c[f[i]]
    <3> HIDE DEF c, d, l, n
    <3> QED
      BY <1>1, <2>2, <2>3
  <2>6. Inside(d, c)
    <3> HIDE DEF c, d, l, n, f
    <3> QED
      BY <2>4, <2>5 DEF Inside
  <2> QED
    BY <2>6
<1>6. Inside(ChainOf(state, <<>>, out, value), c)
  <2> DEFINE d == ChainOf(state, <<>>, out, value)
             f == [i \in 1 .. n + 2 |-> IF i = 1 THEN 1 ELSE i + l]
  <2>1. Len(<<>>) = 0
    OBVIOUS
  <2>2. DOMAIN d = 1 .. n + 2
    BY <1>1, <2>1 DEF ChainOf
  <2>3. \A i \in 1 .. n + 2 : d[i] = c[f[i]]
    BY <1>1, <2>1 DEF ChainOf
  <2>4. f \in [DOMAIN d -> DOMAIN c]
    BY <1>1, <2>2
  <2>5. /\ \A i, j \in DOMAIN d : i < j => f[i] <= f[j]
        /\ \A i \in DOMAIN d : d[i] = c[f[i]]
    <3> HIDE DEF c, d, l, n
    <3> QED
      BY <1>1, <2>2, <2>3
  <2>6. Inside(d, c)
    <3> HIDE DEF c, d, l, n, f
    <3> QED
      BY <2>4, <2>5 DEF Inside
  <2> QED
    BY <2>6
<1> QED
  BY <1>2, <1>3, <1>4, <1>5, <1>6

\* A command of the sharer: what was true is replaced by something later.
LEMMA ChainGrows ==
    ASSUME NEW state \in Nat, NEW old \in Seq(Nat), NEW out \in Seq(Nat), NEW value \in Nat,
           NEW bound \in Nat, NEW new \in Nat, new = 0 \/ new > bound,
           Rising(ChainOf(state, old, out, value)),
           \A i \in DOMAIN ChainOf(state, old, out, value) : ChainOf(state, old, out, value)[i] <= bound
    PROVE  /\ Rising(ChainOf(state, old, out, new))
           /\ \A i \in DOMAIN ChainOf(state, old, out, new) :
                \/ ChainOf(state, old, out, new)[i] <= bound
                \/ ChainOf(state, old, out, new)[i] = new
           /\ \A x \in 0 .. bound :
                Over(x, ChainOf(state, old, out, value)) => Over(x, ChainOf(state, old, out, new))
<1> DEFINE c == ChainOf(state, old, out, value)
           d == ChainOf(state, old, out, new)
           n == Len(old) + Len(out) + 2
<1>0. Len(old) \in Nat /\ Len(out) \in Nat
  OBVIOUS
<1>1. n \in Nat /\ n >= 2 /\ c \in [1 .. n -> Nat] /\ d \in [1 .. n -> Nat] /\ d[n] = new
  <2>1. c \in [1 .. n -> Nat]
    BY ChainType, Zenon
  <2>2. d \in [1 .. n -> Nat]
    BY ChainType, Zenon
  <2>3. d[n] = new
    BY <1>0 DEF ChainOf
  <2> QED
    BY <1>0, <2>1, <2>2, <2>3
<1>2. \A i \in 1 .. n : i # n => d[i] = c[i]
  <2> DEFINE l == Len(old)
             k == Len(out)
  <2>1. l \in Nat /\ k \in Nat /\ n = l + k + 2
    OBVIOUS
  <2>2. \A i \in 1 .. n : i # n => i <= l + k + 1
    <3> HIDE DEF l, k, n
    <3> QED
      BY <2>1
  <2> QED
    BY <2>2 DEF ChainOf
<1> HIDE DEF c, d, n
<1>3. Rising(c) /\ \A i \in 1 .. n : c[i] <= bound
  BY <1>1 DEF c
<1>4. Rising(d)
  <2>1. DOMAIN c = 1 .. n /\ \A i \in 1 .. n : c[i] \in Nat /\ d[i] \in Nat
    BY <1>1
  <2>2. /\ \A i, j \in 1 .. n : i < j /\ c[i] # 0 /\ c[j] # 0 => c[i] <= c[j]
        /\ \A i, k, j \in 1 .. n : i < k /\ k < j /\ c[i] # 0 /\ c[k] # c[i] => c[j] # c[i]
    BY <1>3, <2>1 DEF Rising
  <2>3. \A i, j \in 1 .. n : i < j => i # n
    BY <1>1
  <2>4. ASSUME NEW i \in 1 .. n, NEW j \in 1 .. n, i < j, d[i] # 0, d[j] # 0
        PROVE  d[i] <= d[j]
    <3>1. d[i] = c[i] /\ c[i] <= bound
      BY <1>2, <1>3, <2>4, <2>3
    <3>2. CASE j = n
      <4>1. d[j] = new /\ new > bound
        BY <1>1, <2>4, <3>2
      <4> QED
        BY <2>1, <3>1, <4>1
    <3>3. CASE j # n
      BY <1>2, <2>4, <2>2, <3>1, <3>3
    <3> QED
      BY <3>2, <3>3
  <2>5. ASSUME NEW i \in 1 .. n, NEW k \in 1 .. n, NEW j \in 1 .. n, i < k, k < j,
               d[i] # 0, d[k] # d[i], d[j] = d[i]
        PROVE  FALSE
    <3>1. i < j
      BY <1>1, <2>5
    <3>2. d[i] = c[i] /\ c[i] <= bound /\ d[k] = c[k]
      BY <1>2, <1>3, <2>5, <2>3, <3>1
    <3>3. CASE j = n
      <4>1. d[j] = new /\ new > bound
        BY <1>1, <2>5, <3>3
      <4> QED
        BY <2>5, <2>1, <3>2, <4>1
    <3>4. CASE j # n
      BY <1>2, <2>5, <2>2, <3>2, <3>4
    <3> QED
      BY <3>3, <3>4
  <2> QED
    BY <1>1, <2>4, <2>5 DEF Rising
<1>5. \A i \in 1 .. n : d[i] <= bound \/ d[i] = new
  BY <1>1, <1>2, <1>3
<1>6. \A x \in 0 .. bound : Over(x, c) => Over(x, d)
  BY <1>1, <1>2, SMTT(60) DEF Over
<1> QED
  BY <1>1, <1>4, <1>5, <1>6 DEF c, d

-----------------------------------------------------------------------------
(* Sessions *)

\* t is s, with the state of the screen sent once more at most.
Queued(s, t, state) ==
    /\ t.old = s.old
    /\ \/ t.sent["screen"] = s.sent["screen"] /\ t.out["screen"] = s.out["screen"]
       \/ t.sent["screen"] = state.revision /\ t.out["screen"] = Append(s.out["screen"], state.value)

LEMMA QueueStateFacts ==
    ASSUME NEW s \in SessionType, NEW kinds \in SUBSET State, NEW states \in [State -> StateType],
           NEW refused \in BOOLEAN
    PROVE  /\ QueueState(s, kinds, states, refused) \in SessionType
           /\ Queued(s, QueueState(s, kinds, states, refused), states["screen"])
<1> DEFINE due == IF refused THEN {} ELSE Due(s, kinds, states)
           sent == [c \in State |-> IF c \in due THEN states[c].revision ELSE s.sent[c]]
           out == [c \in State |-> IF c \in due THEN Append(s.out[c], states[c].value) ELSE s.out[c]]
<1>1. QueueState(s, kinds, states, refused) =
        [sent |-> sent, out |-> out, unacked |-> s.unacked, old |-> s.old]
  <2>1. QueueState(s, kinds, states, refused) = [s EXCEPT !.sent = sent, !.out = out]
    BY DEF QueueState
  <2> HIDE DEF sent, out
  <2> QED
    BY <2>1 DEF SessionType
<1>2. \A c \in State : states[c].revision \in Nat /\ states[c].value \in Nat /\ s.sent[c] \in Nat
                        /\ s.out[c] \in Seq(Nat)
  BY DEF StateType, SessionType
<1>3. sent \in [State -> Nat] /\ out \in [State -> Seq(Nat)]
  <2> HIDE DEF due
  <2>1. \A c \in State : Append(s.out[c], states[c].value) \in Seq(Nat)
    BY <1>2, AppendProperties
  <2> QED
    BY <1>2, <2>1
<1>4. "screen" \in State
  BY DEF State
<1> HIDE DEF due
<1>5. QueueState(s, kinds, states, refused) \in SessionType
  <2> HIDE DEF sent, out
  <2> QED
    BY <1>1, <1>3 DEF SessionType
<1>6. Queued(s, QueueState(s, kinds, states, refused), states["screen"])
  BY <1>1, <1>4 DEF Queued
<1> QED
  BY <1>5, <1>6

LEMMA QueueStatesFacts ==
    ASSUME ScreenTypeOK, NEW kinds \in SUBSET State, NEW sessions \in [Viewers -> SessionType],
           NEW states \in [State -> StateType], NEW cost \in RoomType, cost.full = setting.full,
           \A v \in Viewers \ setting.viewers : sessions[v] = session[v],
           QueueStates(kinds, sessions, states, cost)
    PROVE  /\ session' \in [Viewers -> SessionType] /\ setting' \in RoomType
           /\ \A v \in Viewers : Queued(sessions[v], session'[v], states["screen"])
<1>1. PICK refused \in SUBSET setting.viewers :
        /\ Cardinality(refused) <= setting.full
        /\ session' = [v \in Viewers |->
                IF v \in setting.viewers THEN QueueState(sessions[v], kinds, states, v \in refused)
                ELSE session[v]]
        /\ setting' = [cost EXCEPT !.full = @ - Cardinality(refused)]
  BY DEF QueueStates
<1>2. setting.viewers \subseteq Viewers /\ setting.full \in Nat
  BY DEF ScreenTypeOK, RoomType
<1>3. Cardinality(refused) \in Nat
  BY <1>2, FS_Subset, FS_CardinalityType, ScreenShareAssumption
<1>4. setting.full - Cardinality(refused) \in Nat
  BY <1>1, <1>2, <1>3
<1>5. setting' \in RoomType
  <2> DEFINE rest == setting.full - Cardinality(refused)
  <2>1. setting' = [cost EXCEPT !.full = rest]
    BY <1>1
  <2> HIDE DEF rest
  <2> QED
    BY <1>4, <2>1 DEF RoomType, rest
<1>6. ASSUME NEW v \in Viewers
      PROVE  session'[v] \in SessionType /\ Queued(sessions[v], session'[v], states["screen"])
  <2>1. CASE v \in setting.viewers
    <3>1. session'[v] = QueueState(sessions[v], kinds, states, v \in refused)
      BY <1>1, <2>1
    <3>2. (v \in refused) \in BOOLEAN /\ sessions[v] \in SessionType
      OBVIOUS
    <3> HIDE DEF QueueState
    <3> QED
      BY <3>1, <3>2, QueueStateFacts
  <2>2. CASE v \notin setting.viewers
    BY <1>1, <2>2 DEF Queued
  <2> QED
    BY <2>1, <2>2
<1>7. session' \in [Viewers -> SessionType]
  <2>1. session' = [v \in Viewers |-> session'[v]]
    BY <1>1
  <2> QED
    BY <1>6, <2>1
<1> QED
  BY <1>5, <1>6, <1>7

\* What a session sends again changes nothing for the viewer in the end.
LEMMA QueuedChain ==
    ASSUME NEW s \in SessionType, NEW t \in SessionType, NEW state \in StateType,
           Queued(s, t, state), NEW known \in Nat
    PROVE  Inside(ChainOf(known, t.old["screen"], t.out["screen"], state.value),
                  ChainOf(known, s.old["screen"], s.out["screen"], state.value))
<1>1. s.old["screen"] \in Seq(Nat) /\ s.out["screen"] \in Seq(Nat) /\ state.value \in Nat
  BY DEF SessionType, StateType, State
<1>2. CASE t.out["screen"] = s.out["screen"]
  <2> DEFINE c == ChainOf(known, s.old["screen"], s.out["screen"], state.value)
             f == [i \in DOMAIN c |-> i]
  <2>1. ChainOf(known, t.old["screen"], t.out["screen"], state.value) = c
    BY <1>2 DEF Queued
  <2>2. DOMAIN c \subseteq Nat
    <3> DEFINE n == Len(s.old["screen"]) + Len(s.out["screen"]) + 2
    <3>1. DOMAIN c = 1 .. n
      BY DEF ChainOf
    <3> HIDE DEF c, n
    <3> QED
      BY <3>1
  <2>3. f \in [DOMAIN c -> DOMAIN c]
    OBVIOUS
  <2>4. /\ \A i, j \in DOMAIN c : i < j => f[i] <= f[j]
        /\ \A i \in DOMAIN c : c[i] = c[f[i]]
    <3> HIDE DEF c
    <3> QED
      BY <2>2
  <2>5. Inside(c, c)
    <3> HIDE DEF c, f
    <3> QED
      BY <2>3, <2>4 DEF Inside
  <2> QED
    BY <2>1, <2>5
<1>3. CASE t.out["screen"] = Append(s.out["screen"], state.value)
  BY <1>1, <1>3, ChainMoves DEF Queued
<1> QED
  BY <1>2, <1>3 DEF Queued

-----------------------------------------------------------------------------
(* Chunks *)

LEMMA PartsFacts ==
    ASSUME NEW video \in VideoType
    PROVE  /\ video.parts = [k \in DOMAIN video.parts |-> video.parts[k]]
           /\ DOMAIN video.parts \subseteq Nat
           /\ \A k \in DOMAIN video.parts : video.parts[k] \subseteq Nat
<1>1. PICK D \in SUBSET Nat : video.parts \in [D -> SUBSET Nat]
  BY DEF VideoType
<1> QED
  BY <1>1

LEMMA PartsType ==
    ASSUME NEW D \in SUBSET Nat, NEW parts \in [D -> SUBSET Nat]
    PROVE  parts \in UNION {[E -> SUBSET Nat] : E \in SUBSET Nat}
OBVIOUS

\* A fragment is a chunk and an index.
LEMMA FragmentsFacts ==
    ASSUME NEW video, NEW chunks, NEW x
    PROVE  x \in Fragments(video, chunks) <=>
                \E k \in chunks \cap DOMAIN video.parts : \E i \in video.parts[k] : x = <<k, i>>
BY DEF Fragments

LEMMA RetainedFacts ==
    ASSUME NEW video, NEW x
    PROVE  x \in Retained(video) <=>
                \E k \in DOMAIN video.parts : \E i \in video.parts[k] : x = <<k, i>>
BY FragmentsFacts DEF Retained

LEMMA NoVideoFacts ==
    /\ NoVideo \in VideoType /\ NoVideo.stream = 0 /\ NoVideo.delivered = 0
    /\ Retained(NoVideo) = {}
    /\ \A n \in Nat : [NoVideo EXCEPT !.stream = n] \in VideoType
                       /\ Retained([NoVideo EXCEPT !.stream = n]) = {}
                       /\ [NoVideo EXCEPT !.stream = n].delivered = 0
<1>1. DOMAIN <<>> = {} /\ <<>> \in [{} -> SUBSET Nat]
  OBVIOUS
<1>2. <<>> \in UNION {[E -> SUBSET Nat] : E \in SUBSET Nat}
  BY <1>1, PartsType
<1>3. NoVideo \in VideoType
  BY <1>2 DEF NoVideo, VideoType
<1>4. \A n \in Nat : [NoVideo EXCEPT !.stream = n] \in VideoType
  BY <1>3 DEF VideoType
<1>5. ASSUME NEW video, video.parts = <<>>
      PROVE  Retained(video) = {}
  BY <1>1, <1>5, FragmentsFacts DEF Retained
<1>6. \A n \in Nat : [NoVideo EXCEPT !.stream = n].parts = <<>>
  BY DEF NoVideo
<1>7. NoVideo.parts = <<>>
  BY DEF NoVideo
<1> QED
  BY <1>3, <1>4, <1>5, <1>6, <1>7 DEF NoVideo

\* The stream is forgotten, or it ends, and its chunks with it.
LEMMA RemoveVideoFacts ==
    ASSUME NEW w \in ViewerType, Exact(w)
    PROVE  /\ RemoveVideo(w) \in ViewerType /\ Exact(RemoveVideo(w))
           /\ RemoveVideo(w).video = NoVideo /\ RemoveVideo(w).state = w.state
           /\ RemoveVideo(w).windows = w.windows /\ RemoveVideo(w).completed = w.completed
<1>1. w.retained \in Nat /\ w.retained - Cardinality(Retained(w.video)) = 0
  BY DEF ViewerType, Exact
<1>2. RemoveVideo(w) = [w EXCEPT !.video = NoVideo, !.forward = {}, !.retained = 0]
  BY <1>1 DEF RemoveVideo
<1>3. MaxRetained \in Nat
  BY ScreenShareAssumption
<1> DEFINE r == RemoveVideo(w)
<1>4. /\ r \in ViewerType /\ r.video = NoVideo /\ r.state = w.state /\ r.retained = 0
      /\ r.windows = w.windows /\ r.completed = w.completed
  <2>1. NoVideo \in VideoType
    BY NoVideoFacts
  <2>2. r = [w EXCEPT !.video = NoVideo, !.forward = {}, !.retained = 0]
    BY <1>2
  <2> HIDE DEF r
  <2> QED
    BY <2>1, <2>2 DEF ViewerType
<1>5. Exact(r)
  <2> HIDE DEF r
  <2>1. Retained(r.video) = {}
    BY <1>4, NoVideoFacts
  <2> QED
    BY <1>3, <1>4, <2>1, FS_EmptySet, ScreenShareAssumption DEF Exact
<1> QED
  BY <1>4, <1>5

\* The chunks given up are no longer retained and no longer counted.
LEMMA RemoveChunksFacts ==
    ASSUME NEW w \in ViewerType, Exact(w), NEW gone \in SUBSET Nat
    PROVE  LET r == RemoveChunks(w, gone)
           IN  /\ r \in ViewerType /\ Exact(r) /\ r.retained <= w.retained
               /\ r.video.stream = w.video.stream /\ r.video.newest = w.video.newest
               /\ r.video.delivered = w.video.delivered
               /\ DOMAIN r.video.parts = DOMAIN w.video.parts \ gone
               /\ \A k \in DOMAIN r.video.parts : r.video.parts[k] = w.video.parts[k]
               /\ r.state = w.state /\ r.windows = w.windows /\ r.forward = w.forward
               /\ r.completed = w.completed
<1> DEFINE parts == Restrict(w.video.parts, DOMAIN w.video.parts \ gone)
           video == [w.video EXCEPT !.parts = parts, !.expired = @ \ gone]
           lost == Fragments(w.video, gone)
           r == RemoveChunks(w, gone)
<1>1. w.video \in VideoType /\ w.retained \in Nat
  BY DEF ViewerType
<1>2. /\ DOMAIN parts = DOMAIN w.video.parts \ gone
      /\ \A k \in DOMAIN parts : parts[k] = w.video.parts[k]
      /\ parts \in [DOMAIN w.video.parts \ gone -> SUBSET Nat]
  BY <1>1, PartsFacts DEF Restrict
<1>3. parts \in UNION {[E -> SUBSET Nat] : E \in SUBSET Nat}
  BY <1>1, <1>2, PartsFacts, PartsType
<1>4. r = [w EXCEPT !.video = video, !.retained = w.retained - Cardinality(lost)]
  BY <1>1 DEF RemoveChunks, ViewerType, VideoType
<1> HIDE DEF parts
<1>5. /\ video \in VideoType /\ video.parts = parts /\ video.stream = w.video.stream
      /\ video.newest = w.video.newest /\ video.delivered = w.video.delivered
  BY <1>1, <1>3 DEF VideoType
<1> HIDE DEF video, r
<1>6. Retained(video) = Retained(w.video) \ lost /\ lost \subseteq Retained(w.video)
  BY <1>2, <1>5, FragmentsFacts DEF Retained
<1>7. /\ IsFiniteSet(lost) /\ IsFiniteSet(Retained(video))
      /\ Cardinality(lost) \in Nat /\ Cardinality(lost) <= Cardinality(Retained(w.video))
  BY <1>6, FS_Subset, FS_CardinalityType DEF Exact
<1>8. Cardinality(Retained(video)) = Cardinality(Retained(w.video)) - Cardinality(lost)
  <2> DEFINE all == Retained(w.video)
  <2>1. all \cap lost = lost /\ IsFiniteSet(all)
    BY <1>6 DEF Exact
  <2> HIDE DEF all, lost
  <2>2. Cardinality(all \ lost) = Cardinality(all) - Cardinality(all \cap lost)
    BY <1>7, <2>1, FS_Difference
  <2> QED
    BY <1>6, <2>1, <2>2 DEF all
<1>9. w.retained - Cardinality(lost) \in Nat
  BY <1>1, <1>7 DEF Exact
<1> DEFINE rest == w.retained - Cardinality(lost)
<1>10. r = [w EXCEPT !.video = video, !.retained = rest]
  BY <1>4
<1>11. rest \in Nat /\ rest = Cardinality(Retained(video)) /\ rest <= w.retained
  BY <1>1, <1>7, <1>8, <1>9 DEF Exact
<1> HIDE DEF rest
<1>12. /\ r \in ViewerType /\ r.video = video /\ r.retained = rest
       /\ r.state = w.state /\ r.windows = w.windows /\ r.forward = w.forward
       /\ r.completed = w.completed
  BY <1>5, <1>10, <1>11 DEF ViewerType
<1>13. Exact(r)
  BY <1>1, <1>7, <1>11, <1>12, ScreenShareAssumption DEF Exact
<1>14. /\ DOMAIN r.video.parts = DOMAIN w.video.parts \ gone
       /\ \A k \in DOMAIN r.video.parts : r.video.parts[k] = w.video.parts[k]
  BY <1>2, <1>5, <1>12
<1> QED
  BY <1>5, <1>11, <1>12, <1>13, <1>14 DEF r

\* What these operations leave alone.
Same(w, r) ==
    /\ r.state = w.state /\ r.windows = w.windows /\ r.forward = w.forward
    /\ r.video.stream = w.video.stream /\ r.video.delivered = w.video.delivered

LEMMA WithStreamFacts ==
    ASSUME NEW w \in ViewerType, Exact(w), NEW stream \in Nat, w.video.stream \in {0, stream},
           w.video.stream = 0 => w.video = NoVideo
    PROVE  LET r == WithStream(w, stream)
           IN  /\ r \in ViewerType /\ Exact(r)
               /\ r.video.stream = stream /\ r.video.delivered = w.video.delivered
               /\ r.state = w.state /\ r.windows = w.windows /\ r.forward = w.forward
               /\ r.completed = w.completed
<1>1. CASE w.video.stream = stream
  BY <1>1 DEF WithStream
<1>2. CASE w.video.stream # stream
  <2> DEFINE video == [NoVideo EXCEPT !.stream = stream]
             r == WithStream(w, stream)
  <2>1. w.video = NoVideo /\ r = [w EXCEPT !.video = video]
    BY <1>2 DEF WithStream
  <2>2. /\ video \in VideoType /\ Retained(video) = {} /\ video.delivered = 0
        /\ video.stream = stream
        /\ NoVideo.delivered = 0 /\ Retained(NoVideo) = {}
    BY NoVideoFacts DEF NoVideo
  <2> HIDE DEF video, r
  <2>3. /\ r \in ViewerType /\ r.video = video /\ r.retained = w.retained
        /\ r.state = w.state /\ r.windows = w.windows /\ r.forward = w.forward
        /\ r.completed = w.completed
    BY <2>1, <2>2 DEF ViewerType
  <2>4. Exact(r)
    BY <2>1, <2>2, <2>3 DEF Exact
  <2> QED
    BY <2>1, <2>2, <2>3, <2>4 DEF r
<1> QED
  BY <1>1, <1>2

LEMMA WithAssemblyFacts ==
    ASSUME NEW w \in ViewerType, Exact(w), NEW chunk \in Nat
    PROVE  LET r == WithAssembly(w, chunk)
           IN  /\ r \in ViewerType /\ Exact(r) /\ Same(w, r) /\ r.completed = w.completed
               /\ chunk \in DOMAIN r.video.parts
<1> DEFINE newest == Max({w.video.newest, chunk})
           gone == {k \in DOMAIN w.video.parts : newest - k > 1}
           kept == RemoveChunks(w, gone)
           parts == [k \in DOMAIN kept.video.parts \cup {chunk} |->
                        IF k \in DOMAIN kept.video.parts THEN kept.video.parts[k] ELSE {}]
           video == [kept.video EXCEPT !.newest = newest, !.parts = parts]
           r == WithAssembly(w, chunk)
<1>1. w.video \in VideoType /\ w.video.newest \in Nat
  BY DEF ViewerType, VideoType
<1>2. newest \in Nat
  <2>1. \E x \in {w.video.newest, chunk} : \A y \in {w.video.newest, chunk} : x >= y
    BY <1>1
  <2>2. newest \in {w.video.newest, chunk}
    BY <2>1, Zenon DEF Max
  <2> QED
    BY <1>1, <2>2
<1>3. gone \in SUBSET Nat
  BY <1>1, PartsFacts
<1> HIDE DEF newest, gone
<1>4. /\ kept \in ViewerType /\ Exact(kept) /\ Same(w, kept) /\ kept.completed = w.completed
  BY <1>3, RemoveChunksFacts DEF Same
<1>5. r = [kept EXCEPT !.video = video]
  BY <1>4 DEF WithAssembly, newest, gone, ViewerType, VideoType
<1> HIDE DEF kept
<1>6. kept.video \in VideoType
  BY <1>4 DEF ViewerType
<1>7. /\ DOMAIN parts = DOMAIN kept.video.parts \cup {chunk}
      /\ \A k \in DOMAIN kept.video.parts : parts[k] = kept.video.parts[k]
      /\ chunk \notin DOMAIN kept.video.parts => parts[chunk] = {}
      /\ parts \in [DOMAIN kept.video.parts \cup {chunk} -> SUBSET Nat]
  BY <1>6, PartsFacts
<1>8. parts \in UNION {[E -> SUBSET Nat] : E \in SUBSET Nat}
  <2>1. DOMAIN kept.video.parts \cup {chunk} \in SUBSET Nat
    BY <1>6, PartsFacts
  <2> HIDE DEF parts
  <2> QED
    BY <1>7, <2>1, PartsType
<1> HIDE DEF parts
<1>9. /\ video \in VideoType /\ video.parts = parts /\ video.stream = kept.video.stream
      /\ video.delivered = kept.video.delivered
  BY <1>2, <1>6, <1>8 DEF VideoType
<1> HIDE DEF video, r
<1>10. Retained(video) = Retained(kept.video)
  <2>1. ASSUME NEW x
        PROVE  x \in Retained(video) <=> x \in Retained(kept.video)
    <3>1. x \in Retained(video) <=> \E k \in DOMAIN parts : \E i \in parts[k] : x = <<k, i>>
      BY <1>9, RetainedFacts
    <3>2. x \in Retained(kept.video) <=>
            \E k \in DOMAIN kept.video.parts : \E i \in kept.video.parts[k] : x = <<k, i>>
      BY RetainedFacts
    <3> QED
      BY <1>7, <3>1, <3>2
  <2> QED
    BY <2>1
<1>11. /\ r \in ViewerType /\ r.video = video /\ r.retained = kept.retained
       /\ r.state = kept.state /\ r.windows = kept.windows /\ r.forward = kept.forward
       /\ r.completed = kept.completed
  BY <1>4, <1>5, <1>9 DEF ViewerType
<1>12. Exact(r)
  BY <1>4, <1>10, <1>11 DEF Exact
<1>13. Same(w, r) /\ chunk \in DOMAIN r.video.parts
  BY <1>4, <1>7, <1>9, <1>11 DEF Same
<1> QED
  BY <1>4, <1>11, <1>12, <1>13 DEF r

LEMMA WithRoomFacts ==
    ASSUME NEW w \in ViewerType, Exact(w), NEW chunk \in DOMAIN w.video.parts
    PROVE  LET r == WithRoom(w, chunk)
           IN  /\ r \in ViewerType /\ Exact(r) /\ Same(w, r) /\ r.completed = w.completed
               /\ chunk \in DOMAIN r.video.parts /\ r.video.parts[chunk] = w.video.parts[chunk]
<1>1. CASE w.retained < MaxRetained
  BY <1>1 DEF WithRoom, Same
<1>2. CASE ~(w.retained < MaxRetained)
  <2> DEFINE gone == DOMAIN w.video.parts \ {chunk}
             r == WithRoom(w, chunk)
  <2>1. w.video \in VideoType
    BY DEF ViewerType
  <2>2. gone \in SUBSET Nat
    BY <2>1, PartsFacts
  <2>3. r = RemoveChunks(w, gone) /\ chunk \notin gone
    BY <1>2 DEF WithRoom
  <2> HIDE DEF gone, r
  <2>4. chunk \in DOMAIN w.video.parts \ gone
    BY <2>3
  <2> QED
    BY <2>2, <2>3, <2>4, RemoveChunksFacts DEF Same, r
<1> QED
  BY <1>1, <1>2

\* A fragment is retained; with the last one of its chunk the chunk is handed on, and is
\* the newest one that was.
LEMMA AddFragmentFacts ==
    ASSUME NEW w \in ViewerType, Exact(w), NEW p \in Datagram, w.retained < MaxRetained,
           p.unit \in DOMAIN w.video.parts, p.index \notin w.video.parts[p.unit]
    PROVE  LET r == AddFragment(w, p)
           IN  /\ r \in ViewerType /\ Exact(r)
               /\ r.state = w.state /\ r.windows = w.windows /\ r.forward = w.forward
               /\ r.video.stream = w.video.stream
               /\ \/ r.completed = w.completed /\ r.video.delivered = w.video.delivered
                  \/ r.completed = Completed(w, p.unit).completed /\ r.video.delivered = p.unit
<1> DEFINE parts == [w.video.parts EXCEPT ![p.unit] = @ \cup {p.index}]
           video == [w.video EXCEPT !.parts = parts]
           added == [w EXCEPT !.video = video, !.retained = w.retained + 1]
           gone == {k \in DOMAIN added.video.parts : k <= p.unit}
           kept == RemoveChunks(added, gone)
           done == [kept EXCEPT !.video.delivered = p.unit]
           r == AddFragment(w, p)
<1>1. /\ w.video \in VideoType /\ w.retained \in Nat
      /\ p.unit \in Nat /\ p.index \in Nat
  BY DEF ViewerType, Datagram
<1>2. r = IF Cardinality(added.video.parts[p.unit]) # p.count THEN added ELSE Completed(done, p.unit)
  BY <1>1 DEF AddFragment, ViewerType, VideoType
<1>3. /\ DOMAIN parts = DOMAIN w.video.parts
      /\ \A k \in DOMAIN w.video.parts :
            parts[k] = IF k = p.unit THEN w.video.parts[k] \cup {p.index} ELSE w.video.parts[k]
      /\ parts \in [DOMAIN w.video.parts -> SUBSET Nat]
  BY <1>1, PartsFacts
<1>4. parts \in UNION {[E -> SUBSET Nat] : E \in SUBSET Nat}
  BY <1>1, <1>3, PartsFacts, PartsType
<1> HIDE DEF parts
<1>5. /\ video \in VideoType /\ video.parts = parts /\ video.stream = w.video.stream
      /\ video.delivered = w.video.delivered
  BY <1>1, <1>4 DEF VideoType
<1> HIDE DEF video
<1>6. /\ Retained(video) = Retained(w.video) \cup {<<p.unit, p.index>>}
      /\ <<p.unit, p.index>> \notin Retained(w.video)
  <2>1. \A x : x \in Retained(video) <=> \E k \in DOMAIN parts : \E i \in parts[k] : x = <<k, i>>
    BY <1>5, RetainedFacts
  <2>2. \A x : x \in Retained(w.video) <=>
            \E k \in DOMAIN w.video.parts : \E i \in w.video.parts[k] : x = <<k, i>>
    BY RetainedFacts
  <2>3. <<p.unit, p.index>> \notin Retained(w.video)
    BY <2>2
  <2>4. ASSUME NEW x
        PROVE  x \in Retained(video) <=> x \in Retained(w.video) \/ x = <<p.unit, p.index>>
    BY <1>3, <2>1, <2>2, ZenonT(60)
  <2> QED
    BY <2>3, <2>4
<1>7. /\ added \in ViewerType /\ added.video = video /\ added.retained = w.retained + 1
      /\ added.state = w.state /\ added.windows = w.windows /\ added.forward = w.forward
      /\ added.completed = w.completed
  <2> DEFINE more == w.retained + 1
  <2>1. more \in Nat /\ added = [w EXCEPT !.video = video, !.retained = more]
    BY <1>1
  <2> HIDE DEF more, added
  <2>2. /\ added \in ViewerType /\ added.video = video /\ added.retained = more
        /\ added.state = w.state /\ added.windows = w.windows /\ added.forward = w.forward
        /\ added.completed = w.completed
    BY <1>5, <2>1 DEF ViewerType
  <2> QED
    BY <2>2 DEF more
<1>8. Exact(added)
  <2>1. IsFiniteSet(Retained(video)) /\ Cardinality(Retained(video)) = w.retained + 1
    <3> DEFINE all == Retained(w.video)
               new == <<p.unit, p.index>>
    <3>1. IsFiniteSet(all) /\ w.retained = Cardinality(all) /\ new \notin all
          /\ Retained(video) = all \cup {new}
      BY <1>6 DEF Exact
    <3> HIDE DEF all, new
    <3> QED
      BY <3>1, FS_AddElement
  <2>2. w.retained + 1 <= MaxRetained
    BY <1>1, ScreenShareAssumption
  <2> HIDE DEF added
  <2> QED
    BY <1>7, <2>1, <2>2 DEF Exact
<1>9. gone \in SUBSET Nat
  BY <1>5, <1>7, PartsFacts
<1> HIDE DEF added, gone
<1>10. /\ kept \in ViewerType /\ Exact(kept) /\ Same(added, kept)
       /\ kept.completed = added.completed
  BY <1>7, <1>8, <1>9, RemoveChunksFacts DEF Same
<1> HIDE DEF kept
<1>11. /\ done \in ViewerType /\ done.state = w.state /\ done.windows = w.windows
       /\ done.forward = w.forward
       /\ done.video.stream = w.video.stream /\ done.video.delivered = p.unit
       /\ done.completed = w.completed
       /\ done.video.parts = kept.video.parts /\ done.retained = kept.retained
  BY <1>1, <1>5, <1>7, <1>10 DEF ViewerType, VideoType, Same
<1>12. Exact(done)
  BY <1>10, <1>11 DEF Exact, Retained, Fragments
<1> HIDE DEF done
<1> DEFINE c == Completed(done, p.unit)
<1>13. /\ c \in ViewerType /\ c.state = w.state /\ c.windows = w.windows /\ c.forward = w.forward
       /\ c.video = done.video /\ c.retained = done.retained
       /\ c.completed = Completed(w, p.unit).completed
  <2> DEFINE queue == IF Len(w.completed) < MaxCompleted THEN w.completed ELSE Tail(w.completed)
             new == <<w.video.stream, p.unit>>
  <2>1. w.completed \in Seq(Nat \X Nat) /\ new \in Nat \X Nat
    BY <1>1 DEF ViewerType, VideoType
  <2>2. queue \in Seq(Nat \X Nat)
    <3>1. CASE Len(w.completed) < MaxCompleted
      BY <2>1, <3>1
    <3>2. CASE ~(Len(w.completed) < MaxCompleted)
      <4>1. w.completed # <<>>
        BY <3>2, ScreenShareAssumption
      <4> QED
        BY <2>1, <3>2, <4>1, HeadTailProperties
    <3> QED
      BY <3>1, <3>2
  <2>3. Append(queue, new) \in Seq(Nat \X Nat)
    BY <2>1, <2>2, AppendProperties
  <2>4. c = [done EXCEPT !.completed = Append(queue, new)]
    BY <1>11 DEF Completed
  <2>5. Completed(w, p.unit).completed = Append(queue, new)
    BY DEF Completed, ViewerType
  <2> HIDE DEF queue, new
  <2> QED
    BY <1>11, <2>3, <2>4, <2>5 DEF ViewerType
<1>14. Exact(c)
  BY <1>12, <1>13 DEF Exact
<1> HIDE DEF c
<1>15. CASE r = added
  BY <1>5, <1>7, <1>8, <1>15
<1>16. CASE r = c
  BY <1>11, <1>13, <1>14, <1>16
<1> QED
  BY <1>2, <1>15, <1>16 DEF c

\* The chunk is handed on; the oldest makes room for it.
Pushed(done, chunk) == Append(IF Len(done) < MaxCompleted THEN done ELSE Tail(done), chunk)

\* A fragment changes nothing but the chunks of its stream, and hands on a chunk only if it
\* is newer than all before.
LEMMA AcceptFragmentFacts ==
    ASSUME NEW w \in ViewerType, Exact(w), NEW p \in Datagram, w.video.stream \in {0, p.stream},
           w.video.stream = 0 => w.video = NoVideo
    PROVE  LET r == AcceptFragment(w, p)
           IN  /\ r \in ViewerType /\ Exact(r)
               /\ r.state = w.state /\ r.windows = w.windows /\ r.forward = w.forward
               /\ r.video.stream = p.stream
               /\ \/ r.completed = w.completed /\ r.video.delivered = w.video.delivered
                  \/ /\ r.completed = Pushed(w.completed, <<p.stream, p.unit>>)
                     /\ r.video.delivered = p.unit /\ w.video.delivered < p.unit
<1> DEFINE s == WithStream(w, p.stream)
           a == WithAssembly(s, p.unit)
           b == WithRoom(a, p.unit)
           r == AcceptFragment(w, p)
<1>1. p.unit \in Nat /\ p.index \in Nat /\ p.stream \in Nat
  BY DEF Datagram
<1>2. /\ s \in ViewerType /\ Exact(s)
      /\ s.video.stream = p.stream /\ s.video.delivered = w.video.delivered
      /\ s.state = w.state /\ s.windows = w.windows /\ s.forward = w.forward
      /\ s.completed = w.completed
  BY <1>1, WithStreamFacts
<1>3. r = IF IsStale(s.video, p.unit) THEN s
          ELSE IF p.unit \in a.video.expired THEN RemoveChunks(a, {p.unit})
          ELSE IF p.index \in a.video.parts[p.unit] THEN a
          ELSE IF b.retained < MaxRetained THEN AddFragment(b, p) ELSE b
  BY DEF AcceptFragment
<1> HIDE DEF s
<1>4. /\ a \in ViewerType /\ Exact(a) /\ Same(s, a) /\ a.completed = s.completed
      /\ p.unit \in DOMAIN a.video.parts
  BY <1>1, <1>2, WithAssemblyFacts
<1> HIDE DEF a
<1>5. /\ b \in ViewerType /\ Exact(b) /\ Same(a, b) /\ b.completed = a.completed
      /\ p.unit \in DOMAIN b.video.parts /\ b.video.parts[p.unit] = a.video.parts[p.unit]
  BY <1>4, WithRoomFacts
<1> HIDE DEF b, r
<1>6. s.video.delivered \in Nat
  BY <1>2 DEF ViewerType, VideoType
<1>7. CASE r = s
  BY <1>2, <1>7 DEF r
<1>8. CASE r = a
  BY <1>2, <1>4, <1>8 DEF r, Same
<1>9. CASE r = b
  BY <1>2, <1>4, <1>5, <1>9 DEF r, Same
<1>10. CASE r = RemoveChunks(a, {p.unit})
  <2>1. {p.unit} \in SUBSET Nat
    BY <1>1
  <2>2. /\ r \in ViewerType /\ Exact(r)
        /\ r.video.stream = a.video.stream /\ r.video.delivered = a.video.delivered
        /\ r.state = a.state /\ r.windows = a.windows /\ r.forward = a.forward
        /\ r.completed = a.completed
    BY <1>4, <1>10, <2>1, RemoveChunksFacts
  <2> QED
    BY <1>2, <1>4, <2>2 DEF r, Same
<1>11. CASE /\ r = AddFragment(b, p) /\ ~IsStale(s.video, p.unit) /\ b.retained < MaxRetained
            /\ p.index \notin b.video.parts[p.unit]
  <2>1. /\ r \in ViewerType /\ Exact(r)
        /\ r.state = b.state /\ r.windows = b.windows /\ r.forward = b.forward
        /\ r.video.stream = b.video.stream
        /\ \/ r.completed = b.completed /\ r.video.delivered = b.video.delivered
           \/ r.completed = Completed(b, p.unit).completed /\ r.video.delivered = p.unit
    BY <1>5, <1>11, AddFragmentFacts
  <2>2. Completed(b, p.unit).completed = Pushed(b.completed, <<b.video.stream, p.unit>>)
    BY <1>5 DEF Completed, Pushed, ViewerType
  <2>3. s.video.delivered < p.unit
    BY <1>1, <1>6, <1>11 DEF IsStale
  <2> HIDE DEF Completed
  <2> QED
    BY <1>2, <1>4, <1>5, <2>1, <2>2, <2>3 DEF r, Same
<1> QED
  BY <1>3, <1>5, <1>7, <1>8, <1>9, <1>10, <1>11

-----------------------------------------------------------------------------
(* Windows *)

\* One entry is taken out, or none (cut behind the end); the others move up.
Cut(s, cut, rest) ==
    /\ Len(rest) = IF cut <= Len(s) THEN Len(s) - 1 ELSE Len(s)
    /\ \A j \in 1 .. Len(rest) : rest[j] = s[IF j < cut THEN j ELSE j + 1]

LEMMA RemoveAtCuts ==
    ASSUME NEW S, NEW s \in Seq(S), NEW i \in 1 .. Len(s)
    PROVE  RemoveAt(s, i) \in Seq(S) /\ Cut(s, i, RemoveAt(s, i))
<1>1. Len(s) \in Nat /\ i \in Nat /\ \A j \in 1 .. Len(s) : s[j] \in S
  OBVIOUS
<1> DEFINE a == SubSeq(s, 1, i - 1)
           b == SubSeq(s, i + 1, Len(s))
<1>2. a \in Seq(S) /\ Len(a) = i - 1 /\ \A j \in 1 .. i - 1 : a[j] = s[j]
  <2>1. \A j \in 1 .. i - 1 : s[j] \in S
    BY <1>1
  <2>2. /\ SubSeq(s, 1, i - 1) \in Seq(S)
        /\ Len(SubSeq(s, 1, i - 1)) = IF 1 <= i - 1 THEN (i - 1) - 1 + 1 ELSE 0
        /\ \A j \in 1 .. (i - 1) - 1 + 1 : SubSeq(s, 1, i - 1)[j] = s[1 + j - 1]
    BY <1>1, <2>1, SubSeqProperties
  <2> HIDE DEF a
  <2> QED
    BY <1>1, <2>2 DEF a
<1>3. b \in Seq(S) /\ Len(b) = Len(s) - i /\ \A j \in 1 .. Len(s) - i : b[j] = s[i + j]
  <2>1. \A j \in i + 1 .. Len(s) : s[j] \in S
    BY <1>1
  <2>2. /\ SubSeq(s, i + 1, Len(s)) \in Seq(S)
        /\ Len(SubSeq(s, i + 1, Len(s))) = IF i + 1 <= Len(s) THEN Len(s) - (i + 1) + 1 ELSE 0
        /\ \A j \in 1 .. Len(s) - (i + 1) + 1 : SubSeq(s, i + 1, Len(s))[j] = s[i + 1 + j - 1]
    BY <1>1, <2>1, SubSeqProperties
  <2> HIDE DEF b
  <2> QED
    BY <1>1, <2>2 DEF b
<1> HIDE DEF a, b
<1>4. /\ a \o b \in Seq(S) /\ Len(a \o b) = Len(a) + Len(b)
      /\ \A j \in 1 .. Len(a) + Len(b) : (a \o b)[j] = IF j <= Len(a) THEN a[j] ELSE b[j - Len(a)]
  BY <1>2, <1>3, ConcatProperties
<1>5. RemoveAt(s, i) = a \o b
  BY DEF RemoveAt, a, b
<1> DEFINE rest == a \o b
<1> HIDE DEF rest
<1>6. rest \in Seq(S) /\ Cut(s, i, rest)
  <2>1. Len(rest) = Len(s) - 1 /\ rest \in Seq(S)
    BY <1>1, <1>2, <1>3, <1>4 DEF rest
  <2>2. ASSUME NEW j \in 1 .. Len(s) - 1
        PROVE  rest[j] = s[IF j < i THEN j ELSE j + 1]
    <3>1. rest[j] = IF j <= i - 1 THEN a[j] ELSE b[j - (i - 1)]
      BY <1>1, <1>2, <1>3, <1>4, SMTT(60) DEF rest
    <3>2. CASE j < i
      BY <1>1, <1>2, <3>1, <3>2
    <3>3. CASE ~(j < i)
      <4>1. j - (i - 1) \in 1 .. Len(s) - i /\ i + (j - (i - 1)) = j + 1 /\ ~(j <= i - 1)
        BY <1>1, <3>3
      <4> QED
        BY <1>3, <3>1, <3>3, <4>1
    <3> QED
      BY <3>2, <3>3
  <2> QED
    BY <1>1, <2>1, <2>2 DEF Cut
<1> QED
  BY <1>5, <1>6 DEF rest

\* What the windows are before the one of the packet is put at their end.
LEMMA RestFacts ==
    ASSUME NEW w \in ViewerType, NEW key
    PROVE  LET rest == IF Known(w, key) THEN RemoveAt(w.windows, Place(w, key))
                       ELSE IF Len(w.windows) >= MaxStreams THEN Tail(w.windows)
                       ELSE w.windows
           IN  /\ rest \in Seq(StreamType)
               /\ \E cut \in 1 .. Len(w.windows) + 1 :
                    /\ Cut(w.windows, cut, rest)
                    /\ Known(w, key) => cut \in Places(w, key)
                    /\ ~Known(w, key) =>
                            cut = IF Len(w.windows) >= MaxStreams THEN 1 ELSE Len(w.windows) + 1
<1>1. /\ w.windows \in Seq(StreamType) /\ Len(w.windows) \in Nat
      /\ DOMAIN w.windows = 1 .. Len(w.windows)
  BY DEF ViewerType
<1>2. CASE Known(w, key)
  <2>1. Place(w, key) \in Places(w, key)
    BY <1>2, Zenon DEF Known, Place
  <2>2. Place(w, key) \in 1 .. Len(w.windows)
    BY <1>1, <2>1 DEF Places
  <2>3. Place(w, key) \in 1 .. Len(w.windows) + 1
    BY <1>1, <2>2
  <2> QED
    BY <1>1, <1>2, <2>1, <2>2, <2>3, RemoveAtCuts
<1>3. CASE ~Known(w, key) /\ Len(w.windows) >= MaxStreams
  <2>1. w.windows # <<>>
    BY <1>1, <1>3, ScreenShareAssumption
  <2>2. Tail(w.windows) \in Seq(StreamType) /\ Cut(w.windows, 1, Tail(w.windows))
    BY <1>1, <2>1, HeadTailProperties DEF Cut
  <2>3. 1 \in 1 .. Len(w.windows) + 1
    BY <1>1
  <2> QED
    BY <1>3, <2>2, <2>3
<1>4. CASE ~Known(w, key) /\ ~(Len(w.windows) >= MaxStreams)
  <2>1. Cut(w.windows, Len(w.windows) + 1, w.windows)
    BY <1>1 DEF Cut
  <2>2. Len(w.windows) + 1 \in 1 .. Len(w.windows) + 1
    BY <1>1
  <2> QED
    BY <1>1, <1>4, <2>1, <2>2
<1> QED
  BY <1>2, <1>3, <1>4

LEMMA WindowType ==
    ASSUME NEW w \in ViewerType, NEW p \in Datagram
    PROVE  [key |-> Key(p), window |-> Accept(WindowOf(w, Key(p)), p.seq)] \in StreamType
<1>1. WindowOf(w, Key(p)) \in Window
  <2>1. CASE Known(w, Key(p))
    <3>1. Place(w, Key(p)) \in Places(w, Key(p))
      BY <2>1, Zenon DEF Known, Place
    <3>2. w.windows \in Seq(StreamType) /\ Place(w, Key(p)) \in DOMAIN w.windows
      BY <3>1 DEF ViewerType, Places
    <3>3. w.windows[Place(w, Key(p))] \in StreamType
      BY <3>2
    <3> QED
      BY <2>1, <3>3 DEF WindowOf, StreamType
  <2>2. CASE ~Known(w, Key(p))
    BY <2>2, WindowBitsAssumption DEF WindowOf, EmptyWindow, Window
  <2> QED
    BY <2>1, <2>2
<1>2. p.seq \in Nat /\ Key(p) \in Nat \X Kind
  BY DEF Datagram, Key
<1> QED
  BY <1>1, <1>2, AcceptType DEF StreamType

\* A full table of windows has room for the streams that are live: the video of the current
\* stream is not forgotten.
LEMMA NotForgotten ==
    ASSUME NEW w \in ViewerType, Ordered(w), NEW p \in Datagram,
           p.kind = "voice" \/ w.state["screen"] = p.stream,
           ~Known(w, Key(p)), Len(w.windows) >= MaxStreams
    PROVE  w.windows[1].key # <<w.state["screen"], "video">>
<1> DEFINE stream == w.state["screen"]
           key == [i \in DOMAIN w.windows |-> w.windows[i].key]
<1>1. /\ Len(w.windows) \in Nat /\ DOMAIN w.windows = 1 .. Len(w.windows)
      /\ Len(w.windows) >= 3
  BY ScreenShareAssumption DEF ViewerType
<1>2. 1 \in DOMAIN w.windows /\ 2 \in DOMAIN w.windows /\ 3 \in DOMAIN w.windows
  BY <1>1
<1>3. SUFFICES ASSUME w.windows[1].key = <<stream, "video">>
               PROVE  FALSE
  OBVIOUS
<1>4. /\ w.windows[2].key \in {<<0, "voice">>, <<stream, "audio">>}
      /\ w.windows[3].key \in {<<0, "voice">>, <<stream, "audio">>}
      /\ w.windows[2].key # w.windows[3].key
  BY <1>2, <1>3 DEF Ordered
<1>5. Key(p) \in {<<0, "voice">>, <<stream, "audio">>, <<stream, "video">>}
  BY DEF Key, Datagram, Kind
<1>6. \E i \in DOMAIN w.windows : w.windows[i].key = Key(p)
  BY <1>2, <1>3, <1>4, <1>5
<1> QED
  BY <1>6 DEF Known, Places

\* How the table of windows changes: the one of the packet comes last, those before it keep
\* their order, and none is lost but the first of a full table.
Moved(w, r, p) ==
    LET key == Key(p)
    IN  /\ r.windows # <<>>
        /\ r.windows[Len(r.windows)] =
                [key |-> key, window |-> Accept(WindowOf(w, key), p.seq)]
        /\ \A k \in DOMAIN w.windows :
            \/ \E i \in DOMAIN r.windows : r.windows[i] = w.windows[k]
            \/ w.windows[k].key = key
            \/ k = 1 /\ ~Known(w, key) /\ Len(w.windows) >= MaxStreams
        /\ \A i, j \in DOMAIN r.windows :
                i < j /\ j # Len(r.windows) =>
                    \E a, b \in DOMAIN w.windows :
                        /\ a < b /\ r.windows[i].key = w.windows[a].key
                        /\ r.windows[j].key = w.windows[b].key

LEMMA RememberFacts ==
    ASSUME NEW w \in ViewerType, Ordered(w), w.video.stream \in {0, w.state["screen"]},
           NEW p \in Datagram, p.kind = "voice" \/ w.state["screen"] = p.stream
    PROVE  LET r == Remember(w, p)
           IN  /\ r \in ViewerType /\ Ordered(r)
               /\ r.state = w.state /\ r.video = w.video /\ r.retained = w.retained
               /\ r.completed = w.completed /\ r.forward = w.forward
               /\ \A i \in DOMAIN r.windows :
                    \/ r.windows[i].key = Key(p)
                    \/ \E j \in DOMAIN w.windows : r.windows[i].key = w.windows[j].key
               /\ \E i \in DOMAIN r.windows : r.windows[i].key = Key(p)
               /\ Moved(w, r, p)
<1> DEFINE key == Key(p)
           stream == w.state["screen"]
           n == Len(w.windows)
           rest == IF Known(w, key) THEN RemoveAt(w.windows, Place(w, key))
                   ELSE IF Len(w.windows) >= MaxStreams THEN Tail(w.windows)
                   ELSE w.windows
           new == [key |-> key, window |-> Accept(WindowOf(w, key), p.seq)]
           all == Append(rest, new)
           r == Remember(w, p)
<1>1. /\ w.windows \in Seq(StreamType) /\ n \in Nat /\ DOMAIN w.windows = 1 .. n
  BY DEF ViewerType
<1>2. /\ rest \in Seq(StreamType)
      /\ \E cut \in 1 .. n + 1 :
            /\ Cut(w.windows, cut, rest)
            /\ Known(w, key) => cut \in Places(w, key)
            /\ ~Known(w, key) => cut = IF n >= MaxStreams THEN 1 ELSE n + 1
  BY RestFacts
<1>3. PICK cut \in 1 .. n + 1 :
            /\ Cut(w.windows, cut, rest)
            /\ Known(w, key) => cut \in Places(w, key)
            /\ ~Known(w, key) => cut = IF n >= MaxStreams THEN 1 ELSE n + 1
  BY <1>2
<1>4. new \in StreamType /\ new.key = key
  BY WindowType
<1>5. ~Known(w, key) /\ n >= MaxStreams => w.windows[1].key # <<stream, "video">>
  BY NotForgotten
<1>6. r = [w EXCEPT !.windows = all]
  <2>1. CASE ~Known(w, key) /\ n >= MaxStreams
    <3>1. w.windows # <<>> /\ Head(w.windows) = w.windows[1] /\ 1 \in DOMAIN w.windows
      BY <1>1, <2>1, ScreenShareAssumption
    <3>2. w.windows[1].key # <<w.video.stream, "video">>
      <4>1. CASE w.video.stream = stream
        BY <1>5, <2>1, <4>1
      <4>2. CASE w.video.stream = 0
        <5>1. w.windows[1].key[2] = "voice" <=> w.windows[1].key[1] = 0
          BY <3>1 DEF Ordered
        <5> QED
          BY <4>2, <5>1
      <4> QED
        BY <4>1, <4>2
    <3>3. MakeRoom(w) = [w EXCEPT !.windows = Tail(w.windows)]
      BY <3>1, <3>2 DEF MakeRoom
    <3> DEFINE room == [w EXCEPT !.windows = Tail(w.windows)]
    <3>4. room.windows = Tail(w.windows) /\ Tail(w.windows) = rest
      BY <2>1 DEF ViewerType
    <3>5. ~Known(room, key)
      <4>1. \A i \in DOMAIN Tail(w.windows) : i + 1 \in DOMAIN w.windows /\ Tail(w.windows)[i] = w.windows[i + 1]
        BY <1>1, <3>1, HeadTailProperties
      <4>2. \A i \in DOMAIN w.windows : w.windows[i].key # key
        BY <2>1 DEF Known, Places
      <4>3. \A i \in DOMAIN room.windows : room.windows[i].key # key
        BY <3>4, <4>1, <4>2
      <4> HIDE DEF room
      <4> QED
        BY <4>3 DEF Known, Places
    <3>6. Others(room, key) = rest
      BY <3>4, <3>5 DEF Others
    <3>7. r = [room EXCEPT !.windows = Append(Others(room, key), new)]
      BY <2>1, <3>3 DEF Remember
    <3> HIDE DEF rest, new
    <3> QED
      BY <3>6, <3>7
  <2>2. CASE Known(w, key) \/ ~(n >= MaxStreams)
    <3>1. r = [w EXCEPT !.windows = Append(Others(w, key), new)]
      BY <2>2 DEF Remember
    <3>2. Others(w, key) = rest
      BY <2>2 DEF Others
    <3> QED
      BY <3>1, <3>2
  <2> QED
    BY <2>1, <2>2
<1> HIDE DEF rest, new, r, n
<1>7. /\ all \in Seq(StreamType) /\ Len(all) = Len(rest) + 1
      /\ \A i \in 1 .. Len(rest) : all[i] = rest[i]
      /\ all[Len(rest) + 1] = new
      /\ Len(rest) \in Nat
  BY <1>2, <1>4, AppendProperties
<1> HIDE DEF all
<1>8. /\ r \in ViewerType /\ r.windows = all
      /\ r.state = w.state /\ r.video = w.video /\ r.retained = w.retained
      /\ r.completed = w.completed /\ r.forward = w.forward
  BY <1>6, <1>7 DEF ViewerType
<1> DEFINE g(i) == IF i < cut THEN i ELSE i + 1
           m == Len(rest)
<1>9. /\ DOMAIN all = 1 .. m + 1 /\ m \in Nat
      /\ \A i \in 1 .. m : g(i) \in 1 .. n /\ g(i) # cut /\ all[i] = w.windows[g(i)]
      /\ \A i, j \in 1 .. m : i < j => g(i) < g(j)
      /\ \A k \in 1 .. n : k # cut => \E i \in 1 .. m : g(i) = k
      /\ all[m + 1] = new
  <2>1. DOMAIN all = 1 .. m + 1 /\ m \in Nat /\ all[m + 1] = new
    BY <1>7
  <2>2. m = (IF cut <= n THEN n - 1 ELSE n) /\ \A j \in 1 .. m : rest[j] = w.windows[g(j)]
    BY <1>3 DEF Cut, n
  <2>3. \A i \in 1 .. m : g(i) \in 1 .. n /\ g(i) # cut
    BY <1>1, <1>3, <2>1, <2>2
  <2>4. \A i \in 1 .. m : all[i] = w.windows[g(i)]
    BY <1>7, <2>2
  <2>5. \A i, j \in 1 .. m : i < j => g(i) < g(j)
    BY <1>3, <2>1
  <2>6. ASSUME NEW k \in 1 .. n, k # cut
        PROVE  \E i \in 1 .. m : g(i) = k
    <3>1. CASE k < cut
      <4>1. k \in 1 .. m /\ g(k) = k
        BY <1>1, <1>3, <2>1, <2>2, <2>6, <3>1
      <4> QED
        BY <4>1
    <3>2. CASE ~(k < cut)
      <4>1. k - 1 \in 1 .. m /\ g(k - 1) = k
        BY <1>1, <1>3, <2>1, <2>2, <2>6, <3>2
      <4> QED
        BY <4>1
    <3> QED
      BY <3>1, <3>2
  <2> QED
    BY <2>1, <2>3, <2>4, <2>5, <2>6
<1> HIDE DEF g, m
<1>10. /\ \A i \in 1 .. n : i \in DOMAIN w.windows
       /\ stream \in Nat /\ n \in Nat
  BY <1>1 DEF ViewerType, State
<1>11. \A i \in 1 .. m : all[i].key # key /\ all[i].key = w.windows[g(i)].key /\ g(i) \in DOMAIN w.windows
  <2>1. SUFFICES ASSUME NEW i \in 1 .. m
                 PROVE  w.windows[g(i)].key # key
    BY <1>9, <1>10
  <2>2. g(i) \in DOMAIN w.windows /\ g(i) # cut
    BY <1>9, <1>10
  <2>3. CASE Known(w, key)
    <3>1. cut \in DOMAIN w.windows /\ w.windows[cut].key = key
      BY <1>3, <2>3 DEF Places
    <3> QED
      BY <2>2, <3>1 DEF Ordered
  <2>4. CASE ~Known(w, key)
    BY <2>2, <2>4 DEF Known, Places
  <2> QED
    BY <2>3, <2>4
<1>12. all[m + 1].key = key /\ m + 1 \in DOMAIN all
  BY <1>4, <1>9
<1>13. key \in {<<0, "voice">>, <<stream, "audio">>, <<stream, "video">>}
  BY DEF Key, Datagram, Kind
<1>14. \A i, j \in DOMAIN all : all[i].key = all[j].key => i = j
  <2>1. ASSUME NEW i \in 1 .. m, NEW j \in 1 .. m, all[i].key = all[j].key
        PROVE  i = j
    <3>1. g(i) = g(j)
      BY <1>11, <2>1 DEF Ordered
    <3>2. g(i) \in Nat /\ g(j) \in Nat
      <4>1. g(i) \in 1 .. n /\ g(j) \in 1 .. n
        BY <1>9
      <4> QED
        BY <1>10, <4>1
    <3>3. ~(g(i) < g(j)) /\ ~(g(j) < g(i))
      BY <3>1, <3>2
    <3>4. ~(i < j) /\ ~(j < i)
      BY <1>9, <3>3
    <3> QED
      BY <1>9, <3>4
  <2>2. \A i \in 1 .. m : all[i].key # all[m + 1].key
    BY <1>11, <1>12
  <2>3. \A i \in DOMAIN all : i \in 1 .. m \/ i = m + 1
    BY <1>9
  <2> QED
    BY <2>1, <2>2, <2>3
<1>15. \A i \in DOMAIN all : all[i].key[2] = "voice" <=> all[i].key[1] = 0
  <2>1. \A i \in 1 .. m : all[i].key[2] = "voice" <=> all[i].key[1] = 0
    BY <1>11 DEF Ordered
  <2>2. key[2] = "voice" <=> key[1] = 0
    BY DEF Key, Datagram
  <2>3. \A i \in DOMAIN all : i \in 1 .. m \/ i = m + 1
    BY <1>9
  <2> QED
    BY <1>12, <2>1, <2>2, <2>3
<1>16. ASSUME NEW i \in DOMAIN all, NEW j \in DOMAIN all, i < j, all[i].key = <<stream, "video">>
       PROVE  all[j].key \in {<<0, "voice">>, <<stream, "audio">>}
  <2>1. i \in 1 .. m
    BY <1>9, <1>16
  <2>2. CASE j \in 1 .. m
    <3>1. g(i) < g(j)
      BY <1>9, <1>16, <2>1, <2>2
    <3> QED
      BY <1>11, <1>16, <2>1, <2>2, <3>1 DEF Ordered
  <2>3. CASE j = m + 1
    BY <1>11, <1>12, <1>13, <1>16, <2>1, <2>3
  <2> QED
    BY <1>9, <2>2, <2>3
<1>17. ASSUME w.video.stream # 0
       PROVE  \E i \in DOMAIN all : all[i].key = <<stream, "video">>
  <2>1. PICK k \in DOMAIN w.windows : w.windows[k].key = <<stream, "video">>
    BY <1>17 DEF Ordered
  <2>2. CASE k # cut
    <3>1. PICK i \in 1 .. m : g(i) = k
      BY <1>1, <1>9, <2>1, <2>2
    <3>2. i \in DOMAIN all
      BY <1>9
    <3> QED
      BY <1>11, <2>1, <3>1, <3>2
  <2>3. CASE k = cut
    <3>1. CASE Known(w, key)
      BY <1>3, <1>12, <2>1, <2>3, <3>1 DEF Places
    <3>2. CASE ~Known(w, key)
      BY <1>1, <1>3, <1>5, <2>1, <2>3, <3>2
    <3> QED
      BY <3>1, <3>2
  <2> QED
    BY <2>2, <2>3
<1> HIDE DEF stream, key
<1>18. Ordered(r)
  BY <1>8, <1>14, <1>15, <1>16, <1>17 DEF Ordered, stream
<1>19. \A i \in DOMAIN all : all[i].key = key \/ \E j \in DOMAIN w.windows : all[i].key = w.windows[j].key
  BY <1>9, <1>11, <1>12
<1>20. Moved(w, r, p)
  <2>1. Len(all) = m + 1 /\ all # <<>>
    BY <1>7 DEF m
  <2>2. ASSUME NEW k \in DOMAIN w.windows
        PROVE  \/ \E i \in DOMAIN all : all[i] = w.windows[k]
               \/ w.windows[k].key = key
               \/ k = 1 /\ ~Known(w, key) /\ n >= MaxStreams
    <3>1. CASE k # cut
      <4>1. PICK i \in 1 .. m : g(i) = k
        BY <1>1, <1>9, <3>1
      <4>2. i \in DOMAIN all
        BY <1>9
      <4> QED
        BY <1>9, <4>1, <4>2
    <3>2. CASE k = cut /\ Known(w, key)
      BY <1>3, <3>2 DEF Places
    <3>3. CASE k = cut /\ ~Known(w, key)
      BY <1>1, <1>3, <3>3
    <3> QED
      BY <3>1, <3>2, <3>3
  <2>3. ASSUME NEW i \in DOMAIN all, NEW j \in DOMAIN all, i < j, j # m + 1
        PROVE  \E a, b \in DOMAIN w.windows :
                    a < b /\ all[i].key = w.windows[a].key /\ all[j].key = w.windows[b].key
    <3>1. i \in 1 .. m /\ j \in 1 .. m
      BY <1>9, <2>3
    <3>2. g(i) < g(j) /\ g(i) \in DOMAIN w.windows /\ g(j) \in DOMAIN w.windows
      BY <1>9, <1>11, <2>3, <3>1
    <3> QED
      BY <1>11, <3>1, <3>2
  <2>4. all[m + 1] = [key |-> key, window |-> Accept(WindowOf(w, key), p.seq)]
    BY <1>9 DEF new
  <2> QED
    BY <1>8, <2>1, <2>2, <2>3, <2>4 DEF Moved, key, n
<1> QED
  BY <1>8, <1>12, <1>18, <1>19, <1>20 DEF r, key

-----------------------------------------------------------------------------
(* The steps *)

LEMMA ScreenStarts ==
    ASSUME ScreenInit
    PROVE  ScreenIInv
<1> USE DEF ScreenInit
<1>1. "screen" \in State /\ "member" \in State
  BY DEF State
<1>2. <<>> \in Seq(Nat) /\ Len(<<>>) = 0 /\ \A S : <<>> \in Seq(S)
  OBVIOUS
<1>3. NewSession([c \in State |-> <<>>]) \in SessionType
  BY <1>2 DEF NewSession, SessionType
<1>4. NewViewer \in ViewerType
  BY <1>2, NoVideoFacts DEF NewViewer, ViewerType
<1>5. ScreenTypeOK
  <2>1. setting \in RoomType
    BY ScreenShareAssumption DEF RoomType
  <2>2. BagToSet(net) = {}
    BY DEF EmptyBag, SetToBag, BagToSet
  <2>3. local \in [State -> StateType]
    BY DEF StateType
  <2> HIDE DEF ScreenInit
  <2>4. session \in [Viewers -> SessionType] /\ viewer \in [Viewers -> ViewerType]
    BY <1>3, <1>4 DEF ScreenInit
  <2>5. shown \in [Viewers -> Nat \X Nat] /\ sequence \in [voice : Nat, screen : Nat, chunk : Nat]
    BY DEF ScreenInit
  <2>6. desired \in {0, 1} /\ signal \in BOOLEAN
    BY DEF ScreenInit
  <2> QED
    BY <2>1, <2>2, <2>3, <2>4, <2>5, <2>6 DEF ScreenTypeOK
<1>6. \A v \in Viewers :
        /\ viewer[v] = NewViewer /\ viewer[v].state["screen"] = 0 /\ viewer[v].windows = <<>>
        /\ viewer[v].video = NoVideo /\ viewer[v].retained = 0 /\ viewer[v].completed = <<>>
        /\ session[v].old["screen"] = <<>> /\ session[v].out["screen"] = <<>>
        /\ session[v].sent["screen"] = 0
  BY <1>1 DEF NewViewer, NewSession
<1>7. local["screen"].revision = 1 /\ local["screen"].value = 0
  BY <1>1
<1>8. \A v \in Viewers : \A i \in DOMAIN Chain(v) : Chain(v)[i] = 0
  <2>1. \A v \in Viewers : Chain(v) = ChainOf(0, <<>>, <<>>, 0)
    BY <1>6, <1>7 DEF Chain, ChainTo
  <2>2. \A i \in 1 .. 2 : ChainOf(0, <<>>, <<>>, 0)[i] = 0
    BY <1>2 DEF ChainOf
  <2>3. DOMAIN ChainOf(0, <<>>, <<>>, 0) = 1 .. 2
    BY <1>2 DEF ChainOf
  <2> QED
    BY <2>1, <2>2, <2>3
<1>9. Chains /\ Informed
  <2> HIDE DEF ScreenInit
  <2>1. Chains
    BY <1>7, <1>8 DEF Chains, Rising
  <2>2. Informed
    BY <1>6, <1>7 DEF Informed, Told
  <2> QED
    BY <2>1, <2>2
<1>10. Sent
  BY DEF Sent, EmptyBag, SetToBag, BagToSet
<1> HIDE DEF ScreenInit
<1>11. Budget
  <2>1. \A v \in Viewers : Exact(viewer[v])
    <3>1. MaxRetained \in Nat
      BY ScreenShareAssumption
    <3>2. IsFiniteSet({}) /\ Cardinality({}) = 0
      BY FS_EmptySet
    <3>3. Retained(NoVideo) = {}
      BY NoVideoFacts
    <3> QED
      <4> SUFFICES ASSUME NEW v \in Viewers
                   PROVE  Exact(viewer[v])
        OBVIOUS
      <4>1. viewer[v].retained = 0 /\ Retained(viewer[v].video) = {}
        BY <1>6, <3>3
      <4> QED
        BY <3>1, <3>2, <4>1 DEF Exact
  <2> QED
    BY <1>6, <2>1, NoVideoFacts DEF Budget, BudgetOf
<1>12. Windows
  BY <1>6, NoVideoFacts DEF Windows, WindowsOf, Ordered
<1>13. Pictures
  <2>1. \A v \in Viewers : shown[v] = <<0, 0>> /\ LastDone(<<>>, shown[v]) = <<0, 0>>
    BY <1>6 DEF LastDone, ScreenInit
  <2> QED
    BY <1>6, <1>7, <2>1, NoVideoFacts DEF Pictures, PicturesOf
<1> QED
  BY <1>5, <1>9, <1>10, <1>11, <1>12, <1>13 DEF ScreenIInv

\* The datagrams after some have been sent.
LEMMA NetGrows ==
    ASSUME NEW n, NEW S
    PROVE  BagToSet(n (+) SetToBag(S)) = BagToSet(n) \cup S
BY DEF BagToSet, SetToBag, (+)

\* The chain of a viewer, as a function of numbers.
LEMMA ChainFacts ==
    ASSUME NEW w \in ViewerType, NEW s \in SessionType, NEW state \in StateType
    PROVE  /\ w.state["screen"] \in Nat /\ s.old["screen"] \in Seq(Nat)
           /\ s.out["screen"] \in Seq(Nat) /\ state.value \in Nat /\ state.revision \in Nat \ {0}
           /\ IsChain(ChainTo(w, s, state)) /\ DOMAIN ChainTo(w, s, state) \subseteq Nat
           /\ 1 \in DOMAIN ChainTo(w, s, state)
           /\ ChainTo(w, s, state)[1] = w.state["screen"]
<1> DEFINE known == w.state["screen"]
           old == s.old["screen"]
           out == s.out["screen"]
           value == state.value
<1>1. "screen" \in State
  BY DEF State
<1>2. known \in Nat /\ old \in Seq(Nat) /\ out \in Seq(Nat)
  BY <1>1 DEF ViewerType, SessionType
<1>3. value \in Nat /\ state.revision \in Nat \ {0}
  BY DEF StateType
<1>4. ChainTo(w, s, state) = ChainOf(known, old, out, value)
  BY DEF ChainTo
<1>5. /\ known = w.state["screen"] /\ value = state.value
      /\ old = s.old["screen"] /\ out = s.out["screen"]
  OBVIOUS
<1> HIDE DEF known, old, out, value
<1> DEFINE n == Len(old) + Len(out) + 2
           chain == ChainOf(known, old, out, value)
<1>6. n \in Nat /\ 1 \in 1 .. n /\ chain \in [1 .. n -> Nat] /\ chain[1] = known
  <2>1. Len(old) \in Nat /\ Len(out) \in Nat
    BY <1>2, LenProperties
  <2>2. chain \in [1 .. n -> Nat]
    BY <1>2, <1>3, ChainType, Zenon
  <2>3. n \in Nat /\ 1 \in 1 .. n
    BY <2>1
  <2>4. chain[1] = known
    BY <2>1 DEF ChainOf
  <2> QED
    BY <2>2, <2>3, <2>4
<1> HIDE DEF n, chain
<1>7. IsChain(chain) /\ DOMAIN chain \subseteq Nat /\ 1 \in DOMAIN chain
  BY <1>6 DEF IsChain
<1> QED
  BY <1>2, <1>3, <1>4, <1>5, <1>6, <1>7 DEF chain

\* What holds of a chain goes on holding while what is true does not change.
LEMMA ChainsKept ==
    ASSUME ScreenTypeOK, ScreenTypeOK', Chains, local'["screen"] = local["screen"],
           \A v \in Viewers : Inside(Chain(v)', Chain(v))
    PROVE  /\ Chains'
           /\ \A v \in Viewers : \A x \in Nat :
                /\ Over(x, Chain(v)) => Over(x, Chain(v)')
                /\ (\A i \in DOMAIN Chain(v) : Chain(v)[i] = x) =>
                        \A i \in DOMAIN Chain(v)' : Chain(v)'[i] = x
<1>1. local["screen"] \in StateType /\ local'["screen"] \in StateType
  BY DEF ScreenTypeOK, State
<1>2. local["screen"].revision \in Nat
  BY <1>1 DEF StateType
<1>3. ASSUME NEW v \in Viewers
      PROVE  /\ Rising(Chain(v)')
             /\ \A i \in DOMAIN Chain(v)' : Chain(v)'[i] <= local["screen"].revision
             /\ \A x \in Nat :
                /\ Over(x, Chain(v)) => Over(x, Chain(v)')
                /\ (\A i \in DOMAIN Chain(v) : Chain(v)[i] = x) =>
                        \A i \in DOMAIN Chain(v)' : Chain(v)'[i] = x
  <2> DEFINE c == Chain(v)
             d == Chain(v)'
  <2>1. viewer[v] \in ViewerType /\ session[v] \in SessionType
    BY DEF ScreenTypeOK
  <2>2. viewer'[v] \in ViewerType /\ session'[v] \in SessionType
    BY DEF ScreenTypeOK
  <2>3. IsChain(c)
    BY <1>1, <2>1, ChainFacts DEF Chain
  <2>4. IsChain(d)
    BY <1>1, <2>2, ChainFacts DEF Chain
  <2>5. Inside(d, c) /\ Rising(c) /\ \A i \in DOMAIN c : c[i] <= local["screen"].revision
    BY DEF Chains
  <2>6. \A i \in DOMAIN c : c[i] \in Nat
    <3> HIDE DEF c
    <3> QED
      BY <2>3 DEF IsChain
  <2> HIDE DEF c, d
  <2>7. /\ Rising(d)
        /\ \A x \in Nat : Over(x, c) => Over(x, d)
        /\ \A x \in Nat : (\A i \in DOMAIN c : c[i] <= x) => \A i \in DOMAIN d : d[i] <= x
        /\ \A x \in Nat : (\A i \in DOMAIN c : c[i] = x) => \A i \in DOMAIN d : d[i] = x
    BY <2>3, <2>4, <2>5, InsideKeeps
  <2>8. \A i \in DOMAIN d : d[i] <= local["screen"].revision
    BY <1>2, <2>5, <2>7
  <2> QED
    BY <2>7, <2>8 DEF c, d
<1>4. Chains'
  BY <1>3 DEF Chains
<1> QED
  BY <1>3, <1>4

LEMMA WindowsKept ==
    ASSUME NEW w \in ViewerType, NEW c, NEW d, NEW revision, WindowsOf(w, c, revision),
           \A x \in Nat : Over(x, c) => Over(x, d)
    PROVE  WindowsOf(w, d, revision)
<1>1. \A i \in DOMAIN w.windows : w.windows[i].key[1] \in Nat
  <2>1. w.windows \in Seq(StreamType)
    BY DEF ViewerType
  <2>2. \A i \in DOMAIN w.windows : w.windows[i] \in StreamType
    BY <2>1
  <2> QED
    BY <2>2 DEF StreamType
<1> QED
  BY <1>1 DEF WindowsOf

LEMMA LastDoneType ==
    ASSUME NEW done \in Seq(Nat \X Nat), NEW seen \in Nat \X Nat
    PROVE  LastDone(done, seen) \in Nat \X Nat
<1>1. CASE done = <<>>
  BY <1>1 DEF LastDone
<1>2. CASE done # <<>>
  <2>1. Len(done) \in DOMAIN done /\ \A i \in DOMAIN done : done[i] \in Nat \X Nat
    BY <1>2
  <2> QED
    BY <1>2, <2>1 DEF LastDone
<1> QED
  BY <1>1, <1>2

LEMMA PicturesKept ==
    ASSUME NEW w \in ViewerType, NEW seen \in Nat \X Nat, NEW c, NEW d, NEW revision,
           PicturesOf(w, seen, c, revision),
           \A x \in Nat : Over(x, c) => Over(x, d)
    PROVE  PicturesOf(w, seen, d, revision)
<1>1. LastDone(w.completed, seen) \in Nat \X Nat
  BY LastDoneType DEF ViewerType
<1>2. LastDone(w.completed, seen)[1] \in Nat
  BY <1>1
<1> QED
  BY <1>2 DEF PicturesOf

\* In a step of the system a stream that is over stays so.
StaysOver ==
    \A v \in Viewers : \A x \in 0 .. local["screen"].revision : Over(x, Chain(v)) => Over(x, Chain(v)')

\* A step of anybody, but for a command of the sharer.
LEMMA ScreenStep ==
    ASSUME ScreenIInv, ScreenTypeOK', local'["screen"] = local["screen"], Informed',
           \A v \in Viewers : Inside(Chain(v)', Chain(v)),
           \A p \in BagToSet(net') :
                \/ p \in BagToSet(net)
                \/ p.from = Sharer =>
                    /\ p.stream <= local["screen"].revision
                    /\ p.kind # "voice" /\ p.stream = local["screen"].value =>
                        \A i \in DOMAIN Chain(p.to)' : Chain(p.to)'[i] = p.stream,
           \A v \in Viewers :
                \/ viewer'[v] = viewer[v] /\ shown'[v] = shown[v]
                \/ /\ BudgetOf(viewer'[v])
                   /\ WindowsOf(viewer'[v], Chain(v)', local["screen"].revision)
                   /\ PicturesOf(viewer'[v], shown'[v], Chain(v)', local["screen"].revision)
    PROVE  ScreenIInv' /\ StaysOver
<1>1. ScreenTypeOK /\ Chains /\ Informed /\ Sent /\ Budget /\ Windows /\ Pictures
  BY DEF ScreenIInv
<1>2. /\ Chains'
      /\ \A v \in Viewers : \A x \in Nat :
            /\ Over(x, Chain(v)) => Over(x, Chain(v)')
            /\ (\A i \in DOMAIN Chain(v) : Chain(v)[i] = x) =>
                    \A i \in DOMAIN Chain(v)' : Chain(v)'[i] = x
  BY <1>1, ChainsKept
<1>3. Sent'
  <2>1. SUFFICES ASSUME NEW p \in BagToSet(net'), p.from = Sharer
                 PROVE  /\ p.stream <= local["screen"].revision
                        /\ p.kind # "voice" /\ p.stream = local["screen"].value =>
                                \A i \in DOMAIN Chain(p.to)' : Chain(p.to)'[i] = p.stream
    BY DEF Sent
  <2>2. CASE p \in BagToSet(net)
    <3>1. p \in Datagram
      BY <1>1, <2>2 DEF ScreenTypeOK
    <3>2. p.to \in Viewers /\ p.stream \in Nat
      BY <3>1 DEF Datagram
    <3> QED
      BY <1>1, <1>2, <2>1, <2>2, <3>2 DEF Sent
  <2> QED
    BY <2>1, <2>2
<1>4. Budget' /\ Windows' /\ Pictures'
  <2>1. ASSUME NEW v \in Viewers
        PROVE  /\ BudgetOf(viewer'[v])
               /\ WindowsOf(viewer'[v], Chain(v)', local["screen"].revision)
               /\ PicturesOf(viewer'[v], shown'[v], Chain(v)', local["screen"].revision)
    <3>1. CASE viewer'[v] = viewer[v] /\ shown'[v] = shown[v]
      <4>1. /\ viewer[v] \in ViewerType /\ shown[v] \in Nat \X Nat
            /\ \A x \in Nat : Over(x, Chain(v)) => Over(x, Chain(v)')
        BY <1>1, <1>2 DEF ScreenTypeOK
      <4>2. /\ BudgetOf(viewer[v]) /\ WindowsOf(viewer[v], Chain(v), local["screen"].revision)
            /\ PicturesOf(viewer[v], shown[v], Chain(v), local["screen"].revision)
        BY <1>1 DEF Budget, Windows, Pictures
      <4>3. WindowsOf(viewer[v], Chain(v)', local["screen"].revision)
        BY <4>1, <4>2, WindowsKept
      <4>4. PicturesOf(viewer[v], shown[v], Chain(v)', local["screen"].revision)
        BY <4>1, <4>2, PicturesKept
      <4> QED
        BY <3>1, <4>2, <4>3, <4>4
    <3> QED
      BY <3>1
  <2> QED
    BY <2>1 DEF Budget, Windows, Pictures
<1>5. StaysOver
  BY <1>1, <1>2 DEF StaysOver, ScreenTypeOK, StateType, State
<1> QED
  BY <1>2, <1>3, <1>4, <1>5 DEF ScreenIInv

\* The chain of a viewer for whom nothing of the screen changed.
LEMMA InsideSelf ==
    ASSUME NEW w \in ViewerType, NEW s \in SessionType, NEW state \in StateType
    PROVE  Inside(ChainTo(w, s, state), ChainTo(w, s, state))
<1> DEFINE c == ChainTo(w, s, state)
           f == [i \in DOMAIN c |-> i]
<1>1. DOMAIN c \subseteq Nat
  BY ChainFacts
<1>2. f \in [DOMAIN c -> DOMAIN c]
  OBVIOUS
<1>3. /\ \A i, j \in DOMAIN c : i < j => f[i] <= f[j]
      /\ \A i \in DOMAIN c : c[i] = c[f[i]]
  <2> HIDE DEF c
  <2> QED
    BY <1>1
<1> HIDE DEF c, f
<1>4. Inside(c, c)
  BY <1>2, <1>3 DEF Inside
<1> QED
  BY <1>4 DEF c

\* What the invariant says of one viewer.
LEMMA AtViewer ==
    ASSUME ScreenIInv, NEW v \in Viewers
    PROVE  /\ viewer[v] \in ViewerType /\ session[v] \in SessionType /\ shown[v] \in Nat \X Nat
           /\ local["screen"] \in StateType
           /\ Rising(Chain(v))
           /\ Told(session[v], viewer[v].state["screen"], local["screen"])
           /\ BudgetOf(viewer[v])
           /\ WindowsOf(viewer[v], Chain(v), local["screen"].revision)
           /\ PicturesOf(viewer[v], shown[v], Chain(v), local["screen"].revision)
<1>1. "screen" \in State
  BY DEF State
<1> QED
  BY <1>1 DEF ScreenIInv, ScreenTypeOK, Chains, Informed, Budget, Windows, Pictures

\* A session that is sent the states again is told what is true.
LEMMA QueuedTold ==
    ASSUME NEW s \in SessionType, NEW t \in SessionType, NEW state \in StateType, NEW known,
           Told(s, known, state), Queued(s, t, state)
    PROVE  Told(t, known, state)
<1>1. s.out["screen"] \in Seq(Nat) /\ state.value \in Nat /\ state.revision \in Nat
  BY DEF SessionType, StateType, State
<1>2. CASE t.sent["screen"] = s.sent["screen"] /\ t.out["screen"] = s.out["screen"]
  BY <1>2 DEF Told, Queued
<1>3. CASE t.sent["screen"] = state.revision /\ t.out["screen"] = Append(s.out["screen"], state.value)
  <2>1. /\ Append(s.out["screen"], state.value) # <<>>
        /\ Append(s.out["screen"], state.value)[Len(Append(s.out["screen"], state.value))] = state.value
    BY <1>1
  <2> QED
    BY <1>1, <1>3, <2>1 DEF Told
<1> QED
  BY <1>2, <1>3 DEF Queued

\* All sessions are sent what they have not been sent, with or without media after it.
LEMMA QueueStep ==
    ASSUME ScreenIInv, NEW kinds \in SUBSET State, NEW sessions \in [Viewers -> SessionType],
           NEW cost \in RoomType, cost.full = setting.full,
           \A v \in Viewers \ setting.viewers : sessions[v] = session[v],
           local' \in [State -> StateType], local'["screen"] = local["screen"],
           QueueStates(kinds, sessions, local', cost), viewer' = viewer,
           \A v \in Viewers :
                /\ Told(sessions[v], viewer[v].state["screen"], local["screen"])
                /\ Inside(ChainTo(viewer[v], sessions[v], local["screen"]), Chain(v))
    PROVE  /\ session' \in [Viewers -> SessionType] /\ setting' \in RoomType
           /\ Informed'
           /\ \A v \in Viewers : Inside(Chain(v)', Chain(v))
<1>1. /\ session' \in [Viewers -> SessionType] /\ setting' \in RoomType
      /\ \A v \in Viewers : Queued(sessions[v], session'[v], local["screen"])
  <2>1. ScreenTypeOK
    BY DEF ScreenIInv
  <2> QED
    BY <2>1, QueueStatesFacts
<1>2. ASSUME NEW v \in Viewers
      PROVE  /\ Told(session'[v], viewer[v].state["screen"], local["screen"])
             /\ Inside(Chain(v)', Chain(v))
  <2>1. /\ sessions[v] \in SessionType /\ session'[v] \in SessionType
        /\ local["screen"] \in StateType /\ viewer[v] \in ViewerType
        /\ Queued(sessions[v], session'[v], local["screen"])
    BY <1>1, AtViewer
  <2>2. Told(session'[v], viewer[v].state["screen"], local["screen"])
    BY <2>1, QueuedTold
  <2>3. viewer[v].state["screen"] \in Nat
    BY <2>1 DEF ViewerType, State
  <2>4. Inside(Chain(v)', ChainTo(viewer[v], sessions[v], local["screen"]))
    BY <2>1, <2>3, QueuedChain DEF Chain, ChainTo
  <2>5. \A s \in SessionType : DOMAIN ChainTo(viewer[v], s, local["screen"]) \subseteq Nat
    BY <2>1, ChainFacts
  <2>6. /\ Chain(v) = ChainTo(viewer[v], session[v], local["screen"])
        /\ Chain(v)' = ChainTo(viewer[v], session'[v], local["screen"])
        /\ session[v] \in SessionType
    BY AtViewer DEF Chain
  <2>7. Inside(Chain(v)', Chain(v))
    <3>1. /\ DOMAIN Chain(v) \subseteq Nat /\ DOMAIN Chain(v)' \subseteq Nat
          /\ DOMAIN ChainTo(viewer[v], sessions[v], local["screen"]) \subseteq Nat
      BY <2>1, <2>5, <2>6
    <3>2. Inside(ChainTo(viewer[v], sessions[v], local["screen"]), Chain(v))
      OBVIOUS
    <3> QED
      BY <2>4, <3>1, <3>2, InsideInside
  <2> QED
    BY <2>2, <2>7
<1> QED
  BY <1>1, <1>2 DEF Informed

LEMMA StaysInside ==
    ASSUME ScreenIInv, NEW v \in Viewers, local'["screen"] = local["screen"],
           session'[v].old["screen"] = session[v].old["screen"],
           session'[v].out["screen"] = session[v].out["screen"],
           viewer'[v].state["screen"] = viewer[v].state["screen"]
    PROVE  Inside(Chain(v)', Chain(v))
<1>1. Chain(v)' = Chain(v)
  BY DEF Chain, ChainTo
<1>2. Inside(Chain(v), Chain(v))
  BY AtViewer, InsideSelf DEF Chain
<1> QED
  BY <1>1, <1>2

-----------------------------------------------------------------------------
(* The steps of the sharer *)

LEMMA StatesStep ==
    ASSUME ScreenIInv, NEW value \in {0, 1}, SetLocalMemberState(value)
    PROVE  ScreenIInv' /\ StaysOver
<1>1. ScreenTypeOK
  BY DEF ScreenIInv
<1>2. /\ local' = local /\ session' = session /\ viewer' = viewer /\ net' = net /\ shown' = shown
      /\ sequence' = sequence /\ setting.members > 0
      /\ setting' = [setting EXCEPT !.members = @ - 1] /\ desired' = value /\ signal' = TRUE
  BY DEF SetLocalMemberState
<1>3. setting' \in RoomType
  <2> DEFINE rest == setting.members - 1
  <2>1. rest \in Nat /\ setting' = [setting EXCEPT !.members = rest]
    BY <1>1, <1>2 DEF ScreenTypeOK, RoomType
  <2> HIDE DEF rest
  <2> QED
    BY <1>1, <2>1 DEF ScreenTypeOK, RoomType
<1>4. ScreenTypeOK'
  BY <1>1, <1>2, <1>3 DEF ScreenTypeOK
<1>5. Informed'
  BY <1>2 DEF Informed, ScreenIInv
<1>6. \A v \in Viewers : Inside(Chain(v)', Chain(v))
  BY <1>2, StaysInside
<1> QED
  BY <1>2, <1>4, <1>5, <1>6, ScreenStep

\* The sessions as they are are what is sent on in every step but one.
LEMMA QueueOnStep ==
    ASSUME ScreenIInv, NEW kinds \in SUBSET State, NEW cost \in RoomType, cost.full = setting.full,
           local' \in [State -> StateType], local'["screen"] = local["screen"],
           QueueStates(kinds, session, local', cost), viewer' = viewer
    PROVE  /\ session' \in [Viewers -> SessionType] /\ setting' \in RoomType
           /\ Informed'
           /\ \A v \in Viewers : Inside(Chain(v)', Chain(v))
<1>1. session \in [Viewers -> SessionType]
  BY DEF ScreenIInv, ScreenTypeOK
<1>2. \A v \in Viewers :
        /\ Told(session[v], viewer[v].state["screen"], local["screen"])
        /\ Inside(ChainTo(viewer[v], session[v], local["screen"]), Chain(v))
  BY AtViewer, InsideSelf DEF Chain
<1> QED
  BY <1>1, <1>2, QueueStep

LEMMA ApplyStep ==
    ASSUME ScreenIInv, ApplyDesiredMemberState
    PROVE  ScreenIInv' /\ StaysOver
<1>1. ScreenTypeOK
  BY DEF ScreenIInv
<1>2. /\ signal' = FALSE /\ desired' = desired /\ sequence' = sequence /\ viewer' = viewer
      /\ net' = net /\ shown' = shown
  BY DEF ApplyDesiredMemberState
<1>3. /\ local' \in [State -> StateType] /\ local'["screen"] = local["screen"]
      /\ session' \in [Viewers -> SessionType] /\ setting' \in RoomType
      /\ Informed'
      /\ \A v \in Viewers : Inside(Chain(v)', Chain(v))
  <2>1. CASE local["member"].value = desired
    <3>1. setting' = setting /\ local' = local /\ session' = session
      BY <2>1 DEF ApplyDesiredMemberState
    <3>2. Informed' /\ \A v \in Viewers : Inside(Chain(v)', Chain(v))
      BY <1>2, <3>1, StaysInside DEF Informed, ScreenIInv
    <3> QED
      BY <1>1, <3>1, <3>2 DEF ScreenTypeOK
  <2>2. CASE local["member"].value # desired
    <3>1. /\ local' = [local EXCEPT !["member"] = [revision |-> @.revision + 1, value |-> desired]]
          /\ QueueStates({"member"}, session, local', setting)
      BY <2>2 DEF ApplyDesiredMemberState
    <3>2. local["member"].revision \in Nat \ {0} /\ desired \in Nat
      BY <1>1 DEF ScreenTypeOK, State, StateType
    <3>3. [revision |-> local["member"].revision + 1, value |-> desired] \in StateType
      BY <3>2 DEF StateType
    <3>4. local' \in [State -> StateType] /\ local'["screen"] = local["screen"]
      BY <1>1, <3>1, <3>3 DEF ScreenTypeOK, State
    <3>5. {"member"} \in SUBSET State /\ setting \in RoomType
      BY <1>1 DEF ScreenTypeOK, State
    <3> QED
      BY <1>2, <3>1, <3>4, <3>5, QueueOnStep
  <2> QED
    BY <2>1, <2>2
<1>4. ScreenTypeOK'
  BY <1>1, <1>2, <1>3 DEF ScreenTypeOK
<1> QED
  BY <1>2, <1>3, <1>4, ScreenStep

LEMMA TickStep ==
    ASSUME ScreenIInv, ReliableTick
    PROVE  ScreenIInv' /\ StaysOver
<1>1. ScreenTypeOK
  BY DEF ScreenIInv
<1>2. /\ desired' = desired /\ signal' = signal /\ sequence' = sequence /\ viewer' = viewer
      /\ net' = net /\ shown' = shown /\ local' = local
      /\ QueueStates(State, session, local', setting)
  BY DEF ReliableTick
<1>3. local' \in [State -> StateType] /\ State \in SUBSET State /\ setting \in RoomType
  BY <1>1, <1>2 DEF ScreenTypeOK
<1>4. /\ session' \in [Viewers -> SessionType] /\ setting' \in RoomType
      /\ Informed'
      /\ \A v \in Viewers : Inside(Chain(v)', Chain(v))
  BY <1>2, <1>3, QueueOnStep
<1>5. ScreenTypeOK'
  BY <1>1, <1>2, <1>3, <1>4 DEF ScreenTypeOK
<1> QED
  BY <1>2, <1>4, <1>5, ScreenStep

LEMMA RekeyStep ==
    ASSUME ScreenIInv, NEW v \in setting.viewers, Rekey(v)
    PROVE  ScreenIInv' /\ StaysOver
<1> DEFINE sessions == [session EXCEPT ![v] = NewSession(@.out)]
           cost == [setting EXCEPT !.rekeys = @ - 1]
<1>1. ScreenTypeOK /\ v \in Viewers
  BY DEF ScreenIInv, ScreenTypeOK, RoomType
<1>2. /\ setting.rekeys > 0
      /\ QueueStates(State, sessions, local', cost)
      /\ desired' = desired /\ signal' = signal /\ sequence' = sequence /\ viewer' = viewer
      /\ net' = net /\ shown' = shown /\ local' = local
  BY DEF Rekey
<1>3. local' \in [State -> StateType] /\ State \in SUBSET State
  BY <1>1, <1>2 DEF ScreenTypeOK
<1>4. cost \in RoomType /\ cost.full = setting.full
  <2> DEFINE rest == setting.rekeys - 1
  <2>1. rest \in Nat /\ cost = [setting EXCEPT !.rekeys = rest]
    BY <1>1, <1>2 DEF ScreenTypeOK, RoomType
  <2> HIDE DEF rest, cost
  <2> QED
    BY <1>1, <2>1 DEF ScreenTypeOK, RoomType
<1>5. /\ NewSession(session[v].out) \in SessionType
      /\ NewSession(session[v].out).sent["screen"] = 0
      /\ NewSession(session[v].out).out["screen"] = <<>>
      /\ NewSession(session[v].out).old = session[v].out
  <2>1. session[v].out \in [State -> Seq(Nat)] /\ <<>> \in Seq(Nat) /\ "screen" \in State
    BY <1>1 DEF ScreenTypeOK, SessionType, State
  <2> QED
    BY <2>1 DEF NewSession, SessionType
<1>6. /\ sessions \in [Viewers -> SessionType] /\ sessions[v] = NewSession(session[v].out)
      /\ \A u \in Viewers : u # v => sessions[u] = session[u]
  BY <1>1, <1>5 DEF ScreenTypeOK
<1> HIDE DEF sessions, cost
<1>7. ASSUME NEW u \in Viewers
      PROVE  /\ Told(sessions[u], viewer[u].state["screen"], local["screen"])
             /\ Inside(ChainTo(viewer[u], sessions[u], local["screen"]), Chain(u))
  <2>1. CASE u = v
    <3>1. local["screen"] \in StateType /\ viewer[v] \in ViewerType /\ session[v] \in SessionType
      BY <1>1, AtViewer
    <3>2. local["screen"].revision \in Nat \ {0}
      BY <3>1 DEF StateType
    <3>3. Told(sessions[v], viewer[v].state["screen"], local["screen"])
      BY <1>5, <1>6, <3>2 DEF Told
    <3>4. ChainTo(viewer[v], sessions[v], local["screen"]) =
            ChainOf(viewer[v].state["screen"], session[v].out["screen"], <<>>, local["screen"].value)
      BY <1>5, <1>6 DEF ChainTo
    <3>5. /\ viewer[v].state["screen"] \in Nat /\ session[v].old["screen"] \in Seq(Nat)
          /\ session[v].out["screen"] \in Seq(Nat) /\ local["screen"].value \in Nat
      BY <3>1, ChainFacts
    <3>6. Inside(ChainOf(viewer[v].state["screen"], session[v].out["screen"], <<>>, local["screen"].value),
                 Chain(v))
      BY <3>5, ChainMoves DEF Chain, ChainTo
    <3> QED
      BY <2>1, <3>3, <3>4, <3>6
  <2>2. CASE u # v
    <3>1. sessions[u] = session[u]
      BY <1>6, <2>2
    <3> QED
      BY <3>1, AtViewer, InsideSelf DEF Chain
  <2> QED
    BY <2>1, <2>2
<1>8. /\ session' \in [Viewers -> SessionType] /\ setting' \in RoomType
      /\ Informed'
      /\ \A u \in Viewers : Inside(Chain(u)', Chain(u))
  <2>1. \A u \in Viewers \ setting.viewers : sessions[u] = session[u]
    BY <1>6
  <2> QED
    BY <1>2, <1>3, <1>4, <1>6, <1>7, <2>1, QueueStep
<1>9. ScreenTypeOK'
  BY <1>1, <1>2, <1>3, <1>8 DEF ScreenTypeOK
<1> QED
  BY <1>2, <1>8, <1>9, ScreenStep

LEMMA PacketsFacts ==
    ASSUME NEW kind \in Kind, NEW stream \in Nat, NEW first \in Nat, NEW unit \in Nat,
           NEW count \in Nat \ {0}, NEW to \in SUBSET Viewers, kind = "voice" <=> stream = 0,
           NEW p \in Packets(kind, stream, first, unit, count, to)
    PROVE  /\ p \in Datagram /\ p.kind = kind /\ p.stream = stream /\ p.from = Sharer /\ p.to \in to
<1>1. PICK i \in 1 .. count, v \in to :
        p = [kind |-> kind, stream |-> stream, seq |-> first + i, unit |-> unit, index |-> i,
             count |-> count, from |-> Sharer, to |-> v]
  BY DEF Packets
<1>2. first + i \in Nat /\ i \in Nat \ {0}
  OBVIOUS
<1> QED
  BY <1>1, <1>2 DEF Datagram

LEMMA VoiceStep ==
    ASSUME ScreenIInv, SendVoiceFrame
    PROVE  ScreenIInv' /\ StaysOver
<1>1. ScreenTypeOK
  BY DEF ScreenIInv
<1>2. /\ setting.sends > 0 /\ setting' = [setting EXCEPT !.sends = @ - 1]
      /\ sequence' = [sequence EXCEPT !.voice = @ + 1]
      /\ local' = local /\ session' = session /\ viewer' = viewer /\ shown' = shown
      /\ desired' = desired /\ signal' = signal
  BY DEF SendVoiceFrame
<1>3. PICK to \in Destinations :
        net' = net (+) SetToBag(Packets("voice", 0, sequence.voice, 0, 1, to))
  BY DEF SendVoiceFrame
<1>4. to \in SUBSET Viewers
  BY <1>1, ScreenShareAssumption DEF Destinations, ScreenTypeOK, RoomType
<1>5. BagToSet(net') = BagToSet(net) \cup Packets("voice", 0, sequence.voice, 0, 1, to)
  BY <1>3, NetGrows
<1>6. \A p \in Packets("voice", 0, sequence.voice, 0, 1, to) :
        p \in Datagram /\ p.kind = "voice" /\ p.stream = 0
  <2>1. "voice" \in Kind /\ sequence.voice \in Nat /\ 0 \in Nat /\ 1 \in Nat \ {0}
    BY <1>1 DEF ScreenTypeOK, Kind
  <2> QED
    BY <1>4, <2>1, PacketsFacts
<1>7. setting' \in RoomType /\ sequence' \in [voice : Nat, screen : Nat, chunk : Nat]
  <2> DEFINE rest == setting.sends - 1
  <2>1. rest \in Nat /\ setting' = [setting EXCEPT !.sends = rest]
    BY <1>1, <1>2 DEF ScreenTypeOK, RoomType
  <2>2. sequence' \in [voice : Nat, screen : Nat, chunk : Nat]
    BY <1>1, <1>2 DEF ScreenTypeOK
  <2> HIDE DEF rest
  <2> QED
    BY <1>1, <2>1, <2>2 DEF ScreenTypeOK, RoomType
<1>8. ScreenTypeOK'
  BY <1>1, <1>2, <1>5, <1>6, <1>7 DEF ScreenTypeOK
<1>9. Informed' /\ \A v \in Viewers : Inside(Chain(v)', Chain(v))
  BY <1>2, StaysInside DEF Informed, ScreenIInv
<1>10. local["screen"].revision \in Nat
  BY <1>1 DEF ScreenTypeOK, State, StateType
<1>11. \A p \in BagToSet(net') :
        \/ p \in BagToSet(net)
        \/ p.kind = "voice" /\ p.stream = 0 /\ p.stream <= local["screen"].revision
  BY <1>5, <1>6, <1>10
<1> QED
  BY <1>2, <1>8, <1>9, <1>11, ScreenStep

\* Media goes to viewers who know the stream and will hear of nothing else.
LEMMA SendScreenStep ==
    ASSUME ScreenIInv, NEW kind \in {"audio", "video"}, SendScreen(kind)
    PROVE  ScreenIInv' /\ StaysOver
<1> DEFINE count == IF kind = "video" THEN setting.fragments ELSE 1
           cost == [setting EXCEPT !.sends = @ - 1]
           stream == local["screen"].value
<1>1. ScreenTypeOK
  BY DEF ScreenIInv
<1>2. /\ setting.sends > 0 /\ stream # 0
      /\ QueueStates({"screen"}, session, local', cost)
      /\ sequence' = [sequence EXCEPT !.screen = @ + count,
                                      !.chunk = IF kind = "video" THEN @ + 1 ELSE @]
      /\ local' = local /\ viewer' = viewer /\ shown' = shown
      /\ desired' = desired /\ signal' = signal
  BY DEF SendScreen
<1>3. PICK to \in Destinations :
        net' = net (+) SetToBag(
                Packets(kind, stream, sequence.screen, sequence'.chunk, count,
                        {v \in to : ScreenStateReady(session'[v])}))
  BY DEF SendScreen
<1> DEFINE ready == {v \in to : ScreenStateReady(session'[v])}
           packets == Packets(kind, stream, sequence.screen, sequence'.chunk, count, ready)
<1>4. to \in SUBSET Viewers
  BY <1>1, ScreenShareAssumption DEF Destinations, ScreenTypeOK, RoomType
<1>5. count \in Nat \ {0}
  BY <1>1 DEF ScreenTypeOK, RoomType
<1>6. cost \in RoomType /\ cost.full = setting.full
  <2> DEFINE rest == setting.sends - 1
  <2>1. rest \in Nat /\ cost = [setting EXCEPT !.sends = rest]
    BY <1>1, <1>2 DEF ScreenTypeOK, RoomType
  <2> HIDE DEF rest, cost
  <2> QED
    BY <1>1, <2>1 DEF ScreenTypeOK, RoomType
<1> HIDE DEF cost, count
<1>7. sequence' \in [voice : Nat, screen : Nat, chunk : Nat]
  <2> DEFINE screen == sequence.screen + count
             chunk == IF kind = "video" THEN sequence.chunk + 1 ELSE sequence.chunk
  <2>1. sequence \in [voice : Nat, screen : Nat, chunk : Nat]
    BY <1>1 DEF ScreenTypeOK
  <2>2. screen \in Nat /\ chunk \in Nat
    BY <1>5, <2>1
  <2>3. sequence' = [sequence EXCEPT !.screen = screen, !.chunk = chunk]
    BY <1>2, <2>1
  <2> HIDE DEF screen, chunk
  <2> QED
    BY <2>1, <2>2, <2>3
<1>8. local' \in [State -> StateType] /\ {"screen"} \in SUBSET State
  BY <1>1, <1>2 DEF ScreenTypeOK, State
<1>9. /\ session' \in [Viewers -> SessionType] /\ setting' \in RoomType
      /\ Informed'
      /\ \A v \in Viewers : Inside(Chain(v)', Chain(v))
  BY <1>2, <1>6, <1>8, QueueOnStep
<1>10. /\ local["screen"] \in StateType /\ stream \in Nat /\ stream <= local["screen"].revision
  <2>1. local["screen"] \in StateType
    BY <1>1 DEF ScreenTypeOK, State
  <2>2. stream \in {0, local["screen"].revision}
    BY DEF ScreenIInv, Chains
  <2> QED
    BY <2>1, <2>2 DEF StateType
<1>11. \A p \in packets :
        p \in Datagram /\ p.kind = kind /\ p.stream = stream /\ p.from = Sharer /\ p.to \in ready
  <2>1. kind \in Kind /\ sequence.screen \in Nat /\ sequence'.chunk \in Nat /\ ready \in SUBSET Viewers
    BY <1>1, <1>4, <1>7 DEF ScreenTypeOK, Kind
  <2>2. ~(kind = "voice") /\ ~(stream = 0)
    BY <1>2
  <2> HIDE DEF ready, stream
  <2> QED
    BY <1>5, <1>10, <2>1, <2>2, PacketsFacts
<1>12. ASSUME NEW v \in ready
       PROVE  \A i \in DOMAIN Chain(v)' : Chain(v)'[i] = stream
  <2>1. v \in Viewers /\ ScreenStateReady(session'[v])
    BY <1>4
  <2>2. /\ session'[v].sent["screen"] = local["screen"].revision
        /\ session'[v].out["screen"] = <<>>
    <3>1. "screen" \in DOMAIN local
      BY <1>1 DEF ScreenTypeOK, State
    <3> QED
      BY <2>1 DEF ScreenStateReady
  <2>3. Told(session'[v], viewer[v].state["screen"], local["screen"])
    BY <1>2, <1>9, <2>1 DEF Informed
  <2>4. viewer[v].state["screen"] = stream /\ session'[v].old["screen"] = <<>>
    BY <2>2, <2>3 DEF Told
  <2>5. Chain(v)' = ChainOf(stream, <<>>, <<>>, stream)
    BY <1>2, <2>2, <2>4 DEF Chain, ChainTo
  <2>6. /\ DOMAIN ChainOf(stream, <<>>, <<>>, stream) = 1 .. 2
        /\ \A i \in 1 .. 2 : ChainOf(stream, <<>>, <<>>, stream)[i] = stream
    <3>1. Len(<<>>) = 0
      OBVIOUS
    <3> HIDE DEF stream
    <3> QED
      BY <3>1 DEF ChainOf
  <2> HIDE DEF stream, ready
  <2> QED
    BY <2>5, <2>6
<1> HIDE DEF ready, packets, stream
<1>13. BagToSet(net') = BagToSet(net) \cup packets
  BY <1>3, NetGrows DEF packets, ready, stream
<1>14. ScreenTypeOK'
  BY <1>1, <1>2, <1>7, <1>8, <1>9, <1>11, <1>13 DEF ScreenTypeOK
<1>15. ASSUME NEW p \in BagToSet(net'), p \notin BagToSet(net)
       PROVE  /\ p.stream <= local["screen"].revision
              /\ \A i \in DOMAIN Chain(p.to)' : Chain(p.to)'[i] = p.stream
  <2>1. p \in packets
    BY <1>13, <1>15
  <2> QED
    BY <1>2, <1>10, <1>11, <1>12, <2>1 DEF stream
<1> QED
  BY <1>2, <1>9, <1>14, <1>15, ScreenStep

\* A command gives the screen a state later than all that anybody has heard of.
LEMMA CommandStep ==
    ASSUME ScreenIInv, NEW active \in BOOLEAN, ScreenCommand(active)
    PROVE  ScreenIInv' /\ StaysOver
<1> DEFINE cost == [setting EXCEPT !.screens = @ - 1]
           bound == local["screen"].revision
           new == IF active THEN bound + 1 ELSE 0
<1>1. ScreenTypeOK /\ Sent
  BY DEF ScreenIInv
<1>2. bound \in Nat \ {0} /\ new \in Nat /\ (new = 0 \/ new > bound) /\ new <= bound + 1
  BY <1>1 DEF ScreenTypeOK, State, StateType
<1>3. /\ setting.screens > 0
      /\ local' = [local EXCEPT !["screen"] = [revision |-> bound + 1, value |-> new]]
      /\ sequence' = [sequence EXCEPT !.screen = 0, !.chunk = 0]
      /\ QueueStates({"screen"}, session, local', cost)
      /\ desired' = desired /\ signal' = signal /\ viewer' = viewer /\ net' = net /\ shown' = shown
  BY DEF ScreenCommand
<1>4. cost \in RoomType /\ cost.full = setting.full
  <2> DEFINE rest == setting.screens - 1
  <2>1. rest \in Nat /\ cost = [setting EXCEPT !.screens = rest]
    BY <1>1, <1>3 DEF ScreenTypeOK, RoomType
  <2> HIDE DEF rest, cost
  <2> QED
    BY <1>1, <2>1 DEF ScreenTypeOK, RoomType
<1>5. /\ local' \in [State -> StateType] /\ local'["screen"].revision = bound + 1
      /\ local'["screen"].value = new /\ local'["screen"] \in StateType
  <2> DEFINE later == bound + 1
             state == [revision |-> later, value |-> new]
  <2>1. state \in StateType /\ state.revision = later /\ state.value = new
    BY <1>2 DEF StateType
  <2>2. local' = [local EXCEPT !["screen"] = state]
    BY <1>3
  <2> HIDE DEF state
  <2>3. local' \in [State -> StateType] /\ local'["screen"] = state
    BY <1>1, <2>1, <2>2 DEF ScreenTypeOK, State
  <2> HIDE DEF later, new
  <2>4. later = bound + 1
    BY DEF later
  <2> QED
    BY <2>1, <2>3, <2>4
<1> HIDE DEF cost, new
<1>6. sequence' \in [voice : Nat, screen : Nat, chunk : Nat]
  BY <1>1, <1>3 DEF ScreenTypeOK
<1>7. /\ session' \in [Viewers -> SessionType] /\ setting' \in RoomType
      /\ \A v \in Viewers : Queued(session[v], session'[v], local'["screen"])
  <2>1. /\ {"screen"} \in SUBSET State /\ session \in [Viewers -> SessionType]
        /\ \A v \in Viewers \ setting.viewers : session[v] = session[v]
    BY <1>1 DEF ScreenTypeOK, State
  <2> QED
    BY <1>1, <1>3, <1>4, <1>5, <2>1, QueueStatesFacts
<1>8. ScreenTypeOK'
  BY <1>1, <1>3, <1>5, <1>6, <1>7 DEF ScreenTypeOK
<1> HIDE DEF bound
<1>9. ASSUME NEW v \in Viewers
      PROVE  /\ Told(session'[v], viewer[v].state["screen"], local'["screen"])
             /\ Rising(Chain(v)')
             /\ \A i \in DOMAIN Chain(v)' : Chain(v)'[i] <= bound + 1
             /\ \A x \in 0 .. bound : Over(x, Chain(v)) => Over(x, Chain(v)')
  <2> DEFINE known == viewer[v].state["screen"]
             old == session[v].old["screen"]
             out == session[v].out["screen"]
             value == local["screen"].value
  <2>1. /\ viewer[v] \in ViewerType /\ session[v] \in SessionType /\ local["screen"] \in StateType
        /\ Rising(Chain(v)) /\ Told(session[v], known, local["screen"])
    BY AtViewer
  <2>2. known \in Nat /\ old \in Seq(Nat) /\ out \in Seq(Nat) /\ value \in Nat
    BY <2>1, ChainFacts
  <2>3. Chain(v) = ChainOf(known, old, out, value)
    BY DEF Chain, ChainTo
  <2>4. \A i \in DOMAIN Chain(v) : Chain(v)[i] <= bound
    BY DEF ScreenIInv, Chains, bound
  <2>5. session'[v] \in SessionType /\ Queued(session[v], session'[v], local'["screen"])
    BY <1>7
  <2>6. Told(session'[v], known, local'["screen"])
    <3>1. session[v].sent["screen"] <= bound /\ session[v].sent["screen"] \in Nat
      BY <2>1 DEF Told, SessionType, State, bound
    <3>2. CASE session'[v].sent["screen"] = session[v].sent["screen"]
      BY <1>2, <1>5, <3>1, <3>2 DEF Told
    <3>3. CASE /\ session'[v].sent["screen"] = local'["screen"].revision
               /\ session'[v].out["screen"] = Append(out, local'["screen"].value)
      <4>1. Append(out, new) # <<>> /\ Append(out, new)[Len(Append(out, new))] = new
        <5>1. out \in Seq(Nat)
          BY <2>2
        <5> HIDE DEF out
        <5>2. Append(out, new) \in Seq(Nat) /\ Len(Append(out, new)) = Len(out) + 1
              /\ Append(out, new)[Len(out) + 1] = new /\ Len(out) \in Nat
          BY <1>2, <5>1, AppendProperties
        <5> QED
          BY <5>2
      <4> QED
        BY <1>2, <1>5, <3>3, <4>1 DEF Told
    <3> QED
      BY <2>5, <3>2, <3>3 DEF Queued
  <2> DEFINE mid == ChainOf(known, old, out, new)
             d == Chain(v)'
  <2>7. Inside(d, mid)
    <3>1. d = ChainOf(known, session'[v].old["screen"], session'[v].out["screen"], local'["screen"].value)
      BY <1>3 DEF Chain, ChainTo
    <3>2. Inside(ChainOf(known, session'[v].old["screen"], session'[v].out["screen"], local'["screen"].value),
                 ChainOf(known, old, out, local'["screen"].value))
      <4> HIDE DEF known
      <4> QED
        BY <1>5, <2>1, <2>2, <2>5, QueuedChain
    <3> HIDE DEF d, known, old, out
    <3> QED
      BY <1>5, <3>1, <3>2
  <2> HIDE DEF known, old, out, value
  <2>8. /\ Rising(mid) /\ \A i \in DOMAIN mid : mid[i] <= bound \/ mid[i] = new
        /\ \A x \in 0 .. bound : Over(x, Chain(v)) => Over(x, mid)
    <3>1. /\ Rising(ChainOf(known, old, out, value))
          /\ \A i \in DOMAIN ChainOf(known, old, out, value) :
                ChainOf(known, old, out, value)[i] <= bound
      BY <2>1, <2>3, <2>4
    <3> HIDE DEF mid
    <3> QED
      BY <1>2, <2>2, <2>3, <3>1, ChainGrows, SMTT(60) DEF mid
  <2>9. IsChain(mid)
    <3> DEFINE k == Len(old) + Len(out) + 2
    <3>1. Len(old) \in Nat /\ Len(out) \in Nat /\ mid \in [1 .. k -> Nat]
      BY <1>2, <2>2, ChainType, Zenon
    <3>2. k \in Nat
      BY <3>1
    <3> HIDE DEF k, mid
    <3> QED
      BY <3>1, <3>2 DEF IsChain
  <2>10. IsChain(d)
    <3>1. viewer'[v] \in ViewerType /\ session'[v] \in SessionType /\ local'["screen"] \in StateType
      BY <1>3, <1>5, <2>1, <2>5
    <3> QED
      BY <3>1, ChainFacts DEF Chain
  <2> HIDE DEF mid, d
  <2>13. /\ Rising(d)
         /\ \A x \in Nat : Over(x, mid) => Over(x, d)
         /\ \A x \in Nat : (\A i \in DOMAIN mid : mid[i] <= x) => \A i \in DOMAIN d : d[i] <= x
    BY <2>7, <2>8, <2>9, <2>10, InsideKeeps
  <2>14. \A i \in DOMAIN mid : mid[i] <= bound + 1
    <3>1. \A i \in DOMAIN mid : mid[i] \in Nat
      BY <2>9 DEF IsChain
    <3> QED
      BY <1>2, <2>8, <3>1
  <2>15. \A i \in DOMAIN d : d[i] <= bound + 1
    <3>1. bound + 1 \in Nat
      BY <1>2
    <3> QED
      BY <2>13, <2>14, <3>1
  <2>16. \A x \in 0 .. bound : Over(x, Chain(v)) => Over(x, d)
    BY <2>8, <2>13
  <2> QED
    BY <2>6, <2>13, <2>15, <2>16 DEF d, known
<1>10. Chains' /\ Informed'
  <2>1. new \in {0, bound + 1}
    BY DEF new
  <2> QED
    BY <1>3, <1>5, <1>9, <2>1 DEF Chains, Informed
<1>11. Sent'
  <2>1. SUFFICES ASSUME NEW p \in BagToSet(net), p.from = Sharer
                 PROVE  /\ p.stream <= bound + 1
                        /\ ~(p.kind # "voice" /\ p.stream = new)
    BY <1>3, <1>5 DEF Sent
  <2>2. /\ p.kind = "voice" <=> p.stream = 0
        /\ p.stream <= bound /\ p.stream \in Nat
    BY <1>1, <2>1 DEF Sent, ScreenTypeOK, Datagram, bound
  <2> QED
    BY <1>2, <2>2
<1>12. Budget' /\ Windows' /\ Pictures'
  <2>1. SUFFICES ASSUME NEW v \in Viewers
                 PROVE  /\ BudgetOf(viewer[v]) /\ WindowsOf(viewer[v], Chain(v)', bound + 1)
                        /\ PicturesOf(viewer[v], shown[v], Chain(v)', bound + 1)
    BY <1>3, <1>5 DEF Budget, Windows, Pictures
  <2>2. /\ BudgetOf(viewer[v]) /\ WindowsOf(viewer[v], Chain(v), bound)
        /\ PicturesOf(viewer[v], shown[v], Chain(v), bound)
        /\ viewer[v] \in ViewerType /\ shown[v] \in Nat \X Nat
    BY AtViewer DEF bound
  <2>3. \A x \in 0 .. bound : Over(x, Chain(v)) => Over(x, Chain(v)')
    BY <1>9
  <2>4. WindowsOf(viewer[v], Chain(v)', bound + 1)
    <3>1. viewer[v].windows \in Seq(StreamType)
      BY <2>2 DEF ViewerType
    <3>2. \A i \in DOMAIN viewer[v].windows : viewer[v].windows[i] \in StreamType
      BY <3>1
    <3>3. \A i \in DOMAIN viewer[v].windows : viewer[v].windows[i].key[1] \in Nat
      BY <3>2 DEF StreamType
    <3>4. \A i \in DOMAIN viewer[v].windows :
            viewer[v].windows[i].key[1] \in 0 .. bound /\ viewer[v].windows[i].key[1] <= bound + 1
      BY <1>2, <2>2, <3>3 DEF WindowsOf
    <3> QED
      BY <2>2, <2>3, <3>4 DEF WindowsOf
  <2>5. PicturesOf(viewer[v], shown[v], Chain(v)', bound + 1)
    <3> DEFINE last == LastDone(viewer[v].completed, shown[v])
    <3>1. last \in Nat \X Nat
      BY <2>2, LastDoneType DEF ViewerType
    <3>2. last[1] \in 0 .. bound /\ last[1] <= bound + 1
      BY <1>2, <2>2, <3>1 DEF PicturesOf
    <3> QED
      BY <2>2, <2>3, <3>2 DEF PicturesOf
  <2> QED
    BY <2>2, <2>4, <2>5
<1>13. StaysOver
  BY <1>9 DEF StaysOver, bound
<1> QED
  BY <1>8, <1>10, <1>11, <1>12, <1>13 DEF ScreenIInv

-----------------------------------------------------------------------------
(* The steps of a viewer *)

LEMMA AckStep ==
    ASSUME ScreenIInv, NEW v \in Viewers, NEW c \in State, AckState(v, c)
    PROVE  ScreenIInv' /\ StaysOver
<1>1. ScreenTypeOK
  BY DEF ScreenIInv
<1>2. /\ session[v].unacked[c] > 0
      /\ session' = [session EXCEPT ![v].unacked[c] = @ - 1]
      /\ local' = local /\ viewer' = viewer /\ net' = net /\ shown' = shown
      /\ sequence' = sequence /\ setting' = setting /\ desired' = desired /\ signal' = signal
  BY DEF AckState
<1>3. session[v].unacked[c] - 1 \in Nat
  <2>1. session[v].unacked[c] \in Nat
    BY <1>1 DEF ScreenTypeOK, SessionType
  <2> QED
    BY <1>2, <2>1
<1>4. /\ session' \in [Viewers -> SessionType]
      /\ \A u \in Viewers : session'[u].sent = session[u].sent /\ session'[u].out = session[u].out
                             /\ session'[u].old = session[u].old
  <2> DEFINE rest == session[v].unacked[c] - 1
             s == [session[v] EXCEPT !.unacked = [session[v].unacked EXCEPT ![c] = rest]]
  <2>1. session' = [session EXCEPT ![v] = s]
    BY <1>1, <1>2 DEF ScreenTypeOK, SessionType
  <2>2. session[v] \in SessionType /\ rest \in Nat
    BY <1>1, <1>3 DEF ScreenTypeOK
  <2> HIDE DEF rest
  <2>3. /\ s \in SessionType /\ s.sent = session[v].sent /\ s.out = session[v].out
        /\ s.old = session[v].old
    BY <2>2 DEF SessionType
  <2> HIDE DEF s
  <2> QED
    BY <1>1, <2>1, <2>3 DEF ScreenTypeOK
<1>5. ScreenTypeOK'
  BY <1>1, <1>2, <1>4 DEF ScreenTypeOK
<1>6. Informed'
  BY <1>2, <1>4 DEF ScreenIInv, Informed, Told
<1>7. \A u \in Viewers : Inside(Chain(u)', Chain(u))
  BY <1>2, <1>4, StaysInside
<1> QED
  BY <1>2, <1>5, <1>6, <1>7, ScreenStep

\* A viewer takes up a state; when the screen's changes, its video is dropped.
LEMMA HandleStateFacts ==
    ASSUME NEW w \in ViewerType, BudgetOf(w), NEW c \in State, NEW value \in Nat
    PROVE  LET r == HandleState(w, c, value)
           IN  /\ r \in ViewerType /\ BudgetOf(r)
               /\ r.windows = w.windows /\ r.completed = w.completed
               /\ r.state["screen"] = IF c = "screen" THEN value ELSE w.state["screen"]
               /\ r.video = IF r.state["screen"] = w.state["screen"] THEN w.video ELSE NoVideo
<1> DEFINE base == IF c = "screen" THEN RemoveVideo(w) ELSE w
           state == [w.state EXCEPT ![c] = value]
           r == HandleState(w, c, value)
<1>1. CASE w.state[c] = value
  BY <1>1 DEF HandleState, State
<1>2. CASE w.state[c] # value
  <2>1. /\ base \in ViewerType /\ Exact(base) /\ base.state = w.state
        /\ base.windows = w.windows /\ base.completed = w.completed
        /\ base.video = IF c = "screen" THEN NoVideo ELSE w.video
    BY RemoveVideoFacts DEF BudgetOf
  <2>2. /\ state \in [State -> Nat]
        /\ state["screen"] = IF c = "screen" THEN value ELSE w.state["screen"]
    BY DEF ViewerType, State
  <2>3. r = [base EXCEPT !.state = state]
    BY <1>2, <2>1 DEF HandleState, ViewerType
  <2> HIDE DEF base, state
  <2>4. /\ r \in ViewerType /\ r.state = state /\ r.windows = base.windows
        /\ r.completed = base.completed /\ r.video = base.video /\ r.retained = base.retained
    <3> HIDE DEF r
    <3> QED
      BY <2>1, <2>2, <2>3 DEF ViewerType
  <2>5. Exact(r)
    BY <2>1, <2>4 DEF Exact
  <2>6. c = "screen" => state["screen"] # w.state["screen"]
    BY <1>2, <2>2
  <2> HIDE DEF r
  <2>7. r.video = IF r.state["screen"] = w.state["screen"] THEN w.video ELSE NoVideo
    BY <2>1, <2>2, <2>4, <2>6
  <2>8. BudgetOf(r)
    BY <2>1, <2>2, <2>4, <2>5, <2>7, NoVideoFacts DEF BudgetOf
  <2> QED
    BY <2>1, <2>2, <2>4, <2>7, <2>8 DEF r
<1> QED
  BY <1>1, <1>2

\* The stream that has ended is over, and the next one has not been heard of before.
LEMMA HandledKeeps ==
    ASSUME NEW w \in ViewerType, NEW r \in ViewerType, NEW seen \in Nat \X Nat, NEW revision,
           NEW c, NEW d, IsChain(c), IsChain(d), 1 \in DOMAIN c, 1 \in DOMAIN d,
           c[1] = w.state["screen"], d[1] = r.state["screen"], Inside(d, c), Rising(c),
           BudgetOf(w), WindowsOf(w, c, revision), PicturesOf(w, seen, c, revision),
           r.windows = w.windows, r.completed = w.completed,
           r.video = IF r.state["screen"] = w.state["screen"] THEN w.video ELSE NoVideo
    PROVE  WindowsOf(r, d, revision) /\ PicturesOf(r, seen, d, revision)
<1> DEFINE ended == w.state["screen"]
           stream == r.state["screen"]
           last == LastDone(w.completed, seen)
<1>1. ended \in Nat /\ stream \in Nat
  BY DEF ViewerType, State
<1>2. \A x \in Nat : Over(x, c) => Over(x, d)
  BY InsideKeeps
<1>3. \A i \in DOMAIN w.windows : w.windows[i].key[1] \in Nat
  <2>1. w.windows \in Seq(StreamType)
    BY DEF ViewerType
  <2>2. \A i \in DOMAIN w.windows : w.windows[i] \in StreamType
    BY <2>1
  <2> QED
    BY <2>2 DEF StreamType
<1>4. last \in Nat \X Nat
  BY LastDoneType DEF ViewerType
<1>5. last[1] \in Nat
  BY <1>4
<1>6. CASE stream = ended
  <2>1. WindowsOf(r, d, revision)
    BY <1>2, <1>3, <1>6 DEF WindowsOf, Ordered
  <2>2. PicturesOf(r, seen, d, revision)
    BY <1>2, <1>5, <1>6 DEF PicturesOf
  <2> QED
    BY <2>1, <2>2
<1>7. CASE stream # ended
  <2>1. r.video = NoVideo /\ r.video.stream = 0
    BY <1>7, NoVideoFacts
  <2>2. ended # 0 => Over(ended, d)
    BY <1>7, InsideEnds
  <2>3. \A x \in Nat : Over(x, d) => x # stream \/ stream = 0
    BY <1>1 DEF Over
  <2>4. ASSUME NEW i \in DOMAIN w.windows
        PROVE  /\ w.windows[i].key[1] \in {0, stream} \/ Over(w.windows[i].key[1], d)
               /\ w.windows[i].key # <<stream, "video">>
    <3>1. w.windows[i].key[1] = 0 \/ Over(w.windows[i].key[1], d)
      BY <1>2, <1>3, <2>2 DEF WindowsOf
    <3>2. w.windows[i].key[2] = "voice" <=> w.windows[i].key[1] = 0
      BY DEF WindowsOf, Ordered
    <3>3. w.windows[i].key # <<stream, "video">>
      <4>1. SUFFICES ASSUME w.windows[i].key = <<stream, "video">>
                     PROVE  FALSE
        OBVIOUS
      <4>2. w.windows[i].key[1] = stream /\ w.windows[i].key[2] = "video" /\ stream # 0
        BY <3>2, <4>1
      <4> QED
        BY <1>1, <2>3, <3>1, <4>2
    <3> QED
      BY <3>1, <3>3
  <2> HIDE DEF stream
  <2>5. Ordered(r)
    <3>1. \A i \in DOMAIN r.windows : r.windows[i].key # <<r.state["screen"], "video">>
      BY <2>4 DEF stream
    <3>2. /\ \A i, j \in DOMAIN w.windows : w.windows[i].key = w.windows[j].key => i = j
          /\ \A i \in DOMAIN w.windows : w.windows[i].key[2] = "voice" <=> w.windows[i].key[1] = 0
      BY DEF WindowsOf, Ordered
    <3> QED
      BY <2>1, <3>1, <3>2 DEF Ordered
  <2>6. WindowsOf(r, d, revision)
    BY <2>4, <2>5 DEF WindowsOf, stream
  <2>7. Over(last[1], d)
    <3>1. CASE Over(last[1], c)
      BY <1>2, <1>5, <3>1
    <3>2. CASE w.video.stream = last[1]
      <4>1. last[1] \in {0, ended}
        BY <3>2 DEF BudgetOf
      <4>2. Over(0, d)
        BY DEF Over, IsChain
      <4> QED
        BY <2>2, <4>1, <4>2
    <3> QED
      BY <3>1, <3>2 DEF PicturesOf
  <2>8. PicturesOf(r, seen, d, revision)
    BY <2>7 DEF PicturesOf
  <2> QED
    BY <2>6, <2>8
<1> QED
  BY <1>6, <1>7

\* A message of a session's transport reaches the viewer.
LEMMA HandledStep ==
    ASSUME ScreenIInv, NEW v \in Viewers, NEW c \in State, NEW value \in Nat,
           session' \in [Viewers -> SessionType],
           \A u \in Viewers : u # v => session'[u] = session[u],
           viewer' = [viewer EXCEPT ![v] = HandleState(@, c, value)],
           UNCHANGED <<setting, desired, signal, local, sequence, net, shown>>,
           Told(session'[v], viewer'[v].state["screen"], local["screen"]),
           Inside(Chain(v)', Chain(v))
    PROVE  ScreenIInv' /\ StaysOver
<1> DEFINE r == HandleState(viewer[v], c, value)
<1>1. ScreenTypeOK
  BY DEF ScreenIInv
<1>2. /\ viewer[v] \in ViewerType /\ BudgetOf(viewer[v]) /\ session[v] \in SessionType
      /\ WindowsOf(viewer[v], Chain(v), local["screen"].revision)
      /\ PicturesOf(viewer[v], shown[v], Chain(v), local["screen"].revision)
      /\ Rising(Chain(v)) /\ shown[v] \in Nat \X Nat /\ local["screen"] \in StateType
  BY AtViewer
<1>3. /\ r \in ViewerType /\ BudgetOf(r)
      /\ r.windows = viewer[v].windows /\ r.completed = viewer[v].completed
      /\ r.video = IF r.state["screen"] = viewer[v].state["screen"] THEN viewer[v].video ELSE NoVideo
  <2> DEFINE w == viewer[v]
  <2>1. w \in ViewerType /\ BudgetOf(w)
    BY <1>2
  <2> HIDE DEF w
  <2>2. /\ HandleState(w, c, value) \in ViewerType /\ BudgetOf(HandleState(w, c, value))
        /\ HandleState(w, c, value).windows = w.windows
        /\ HandleState(w, c, value).completed = w.completed
        /\ HandleState(w, c, value).video =
                IF HandleState(w, c, value).state["screen"] = w.state["screen"] THEN w.video ELSE NoVideo
    BY <2>1, HandleStateFacts
  <2> QED
    BY <2>2 DEF w
<1>4. /\ viewer' \in [Viewers -> ViewerType] /\ viewer'[v] = r
      /\ \A u \in Viewers : u # v => viewer'[u] = viewer[u]
  <2> HIDE DEF r
  <2>1. viewer' = [viewer EXCEPT ![v] = r]
    BY DEF r
  <2> QED
    BY <1>1, <1>3, <2>1 DEF ScreenTypeOK
<1> HIDE DEF r
<1>5. ScreenTypeOK'
  BY <1>1, <1>4 DEF ScreenTypeOK
<1>6. Informed'
  BY <1>4, AtViewer DEF Informed
<1>7. \A u \in Viewers : Inside(Chain(u)', Chain(u))
  BY <1>4, StaysInside
<1>8. /\ WindowsOf(r, Chain(v)', local["screen"].revision)
      /\ PicturesOf(r, shown[v], Chain(v)', local["screen"].revision)
  <2>1. /\ IsChain(Chain(v)) /\ 1 \in DOMAIN Chain(v) /\ Chain(v)[1] = viewer[v].state["screen"]
    BY <1>2, ChainFacts DEF Chain
  <2>2. /\ IsChain(Chain(v)') /\ 1 \in DOMAIN Chain(v)' /\ Chain(v)'[1] = r.state["screen"]
    <3>1. session'[v] \in SessionType /\ Chain(v)' = ChainTo(r, session'[v], local["screen"])
      BY <1>4 DEF Chain
    <3> QED
      BY <1>2, <1>3, <3>1, ChainFacts
  <2> QED
    BY <1>2, <1>3, <2>1, <2>2, HandledKeeps
<1>9. \A u \in Viewers :
        \/ viewer'[u] = viewer[u] /\ shown'[u] = shown[u]
        \/ /\ BudgetOf(viewer'[u])
           /\ WindowsOf(viewer'[u], Chain(u)', local["screen"].revision)
           /\ PicturesOf(viewer'[u], shown'[u], Chain(u)', local["screen"].revision)
  BY <1>3, <1>4, <1>8
<1> QED
  BY <1>5, <1>6, <1>7, <1>9, ScreenStep

LEMMA DeliverStep ==
    ASSUME ScreenIInv, NEW v \in Viewers, NEW c \in State, DeliverState(v, c)
    PROVE  ScreenIInv' /\ StaysOver
<1> DEFINE s == session[v]
           t == session'[v]
           value == Head(s.out[c])
           known == viewer[v].state["screen"]
           truth == local["screen"].value
<1>1. ScreenTypeOK
  BY DEF ScreenIInv
<1>2. /\ s.out[c] # <<>>
      /\ session' = [session EXCEPT ![v].out[c] = Tail(@), ![v].unacked[c] = @ + 1,
                                    ![v].old = [k \in State |-> <<>>]]
      /\ viewer' = [viewer EXCEPT ![v] = HandleState(@, c, value)]
      /\ UNCHANGED <<setting, desired, signal, local, sequence, net, shown>>
  BY DEF DeliverState
<1>3. /\ s \in SessionType /\ viewer[v] \in ViewerType /\ BudgetOf(viewer[v])
      /\ Told(s, known, local["screen"]) /\ local["screen"] \in StateType
  BY AtViewer
<1>4. /\ s.out[c] \in Seq(Nat) /\ s.unacked[c] \in Nat /\ s.out["screen"] \in Seq(Nat)
      /\ s.old["screen"] \in Seq(Nat) /\ known \in Nat /\ truth \in Nat /\ "screen" \in State
  BY <1>3 DEF SessionType, ViewerType, StateType, State
<1>5. value \in Nat /\ Tail(s.out[c]) \in Seq(Nat) /\ <<>> \in Seq(Nat)
  BY <1>2, <1>4, HeadTailProperties, SMTT(60)
<1>6. /\ session' \in [Viewers -> SessionType]
      /\ \A u \in Viewers : u # v => session'[u] = session[u]
      /\ t.sent = s.sent /\ t.out = [s.out EXCEPT ![c] = Tail(s.out[c])]
      /\ t.old = [k \in State |-> <<>>]
  <2> DEFINE out == [s.out EXCEPT ![c] = Tail(s.out[c])]
             unacked == [s.unacked EXCEPT ![c] = s.unacked[c] + 1]
             old == [k \in State |-> <<>>]
             moved == [s EXCEPT !.out = out, !.unacked = unacked, !.old = old]
  <2>1. session' = [session EXCEPT ![v] = moved]
    BY <1>1, <1>2, <1>3 DEF ScreenTypeOK, SessionType
  <2>2. /\ out \in [State -> Seq(Nat)] /\ unacked \in [State -> Nat] /\ old \in [State -> Seq(Nat)]
    BY <1>3, <1>4, <1>5, SMTT(60) DEF SessionType
  <2> HIDE DEF out, unacked, old
  <2>3. moved \in SessionType /\ moved.sent = s.sent /\ moved.out = out /\ moved.old = old
    BY <1>3, <2>2 DEF SessionType
  <2> HIDE DEF moved
  <2>4. /\ session' \in [Viewers -> SessionType] /\ session'[v] = moved
        /\ \A u \in Viewers : u # v => session'[u] = session[u]
    BY <1>1, <2>1, <2>3 DEF ScreenTypeOK
  <2> QED
    BY <2>3, <2>4 DEF out, old
<1>7. /\ t.old["screen"] = <<>> /\ t.sent["screen"] = s.sent["screen"]
      /\ t.out["screen"] = IF c = "screen" THEN Tail(s.out["screen"]) ELSE s.out["screen"]
  <2>1. s.out \in [State -> Seq(Nat)]
    BY <1>3 DEF SessionType
  <2> QED
    BY <1>4, <1>6, <2>1
<1>8. viewer'[v].state["screen"] = IF c = "screen" THEN value ELSE known
  <2>1. viewer'[v] = HandleState(viewer[v], c, value)
    BY <1>1, <1>2 DEF ScreenTypeOK
  <2> DEFINE w == viewer[v]
  <2> HIDE DEF value, w
  <2>2. HandleState(w, c, value).state["screen"] = IF c = "screen" THEN value ELSE w.state["screen"]
    BY <1>3, <1>5, HandleStateFacts DEF w
  <2> QED
    BY <2>1, <2>2 DEF w
<1>9. Told(t, viewer'[v].state["screen"], local["screen"])
  <2>1. CASE c = "screen"
    <3>1. s.out["screen"] # <<>> /\ value = Head(s.out["screen"])
      BY <1>2, <2>1
    <3>2. /\ Tail(s.out["screen"]) = <<>> => value = s.out["screen"][Len(s.out["screen"])]
          /\ Tail(s.out["screen"]) # <<>> =>
                Tail(s.out["screen"])[Len(Tail(s.out["screen"]))] = s.out["screen"][Len(s.out["screen"])]
      <4> DEFINE out == s.out["screen"]
      <4>1. out \in Seq(Nat) /\ out # <<>>
        BY <1>4, <3>1
      <4> HIDE DEF out
      <4>2. /\ Tail(out) = <<>> => Head(out) = out[Len(out)]
            /\ Tail(out) # <<>> => Tail(out)[Len(Tail(out))] = out[Len(out)]
        <5>1. /\ Len(out) \in Nat \ {0} /\ Head(out) = out[1] /\ Tail(out) \in Seq(Nat)
              /\ Len(Tail(out)) = Len(out) - 1
              /\ \A i \in 1 .. Len(out) - 1 : Tail(out)[i] = out[i + 1]
          BY <4>1, HeadTailProperties
        <5>2. CASE Tail(out) = <<>>
          <6> DEFINE rest == Tail(out)
          <6>0. Len(rest) = 0
            <7>1. rest = <<>> /\ Len(<<>>) = 0
              BY <5>2
            <7> HIDE DEF rest
            <7> QED
              BY <7>1
          <6>1. Len(out) = 1
            <7> DEFINE n == Len(out)
                       k == Len(rest)
            <7>1. n \in Nat /\ k = n - 1 /\ k = 0
              BY <5>1, <6>0
            <7> HIDE DEF n, k
            <7>2. n = 1
              BY <7>1
            <7> QED
              BY <7>2 DEF n
          <6> QED
            BY <5>1, <5>2, <6>1
        <5>3. CASE Tail(out) # <<>>
          <6>1. Len(Tail(out)) \in 1 .. Len(out) - 1
            BY <5>1, <5>3
          <6> QED
            BY <5>1, <5>3, <6>1
        <5> QED
          BY <5>2, <5>3
      <4> QED
        BY <3>1, <4>2 DEF out
    <3>3. /\ t.old["screen"] = <<>> /\ t.sent["screen"] = s.sent["screen"]
          /\ t.out["screen"] = Tail(s.out["screen"]) /\ viewer'[v].state["screen"] = value
      BY <1>7, <1>8, <2>1
    <3> HIDE DEF s, t, value
    <3> QED
      BY <1>3, <3>1, <3>2, <3>3 DEF Told
  <2>2. CASE c # "screen"
    <3>1. /\ t.old["screen"] = <<>> /\ t.sent["screen"] = s.sent["screen"]
          /\ t.out["screen"] = s.out["screen"] /\ viewer'[v].state["screen"] = known
      BY <1>7, <1>8, <2>2
    <3> HIDE DEF s, t, known
    <3> QED
      BY <1>3, <3>1 DEF Told
  <2> QED
    BY <2>1, <2>2
<1>10. Inside(Chain(v)', Chain(v))
  <2>1. Chain(v) = ChainOf(known, s.old["screen"], s.out["screen"], truth)
    BY DEF Chain, ChainTo
  <2>2. Chain(v)' = ChainOf(viewer'[v].state["screen"], t.old["screen"], t.out["screen"], truth)
    BY <1>2 DEF Chain, ChainTo
  <2>3. CASE c = "screen"
    <3>1. s.out["screen"] # <<>>
      BY <1>2, <2>3
    <3>2. Chain(v)' = ChainOf(Head(s.out["screen"]), <<>>, Tail(s.out["screen"]), truth)
      BY <1>7, <1>8, <2>2, <2>3
    <3> HIDE DEF s, t, known, truth
    <3> QED
      BY <1>4, <2>1, <3>1, <3>2, ChainMoves
  <2>4. CASE c # "screen"
    <3>1. Chain(v)' = ChainOf(known, <<>>, s.out["screen"], truth)
      BY <1>7, <1>8, <2>2, <2>4
    <3> HIDE DEF s, t, known, truth
    <3> QED
      BY <1>4, <2>1, <3>1, ChainMoves
  <2> QED
    BY <2>3, <2>4
<1> QED
  BY <1>2, <1>5, <1>6, <1>9, <1>10, HandledStep

LEMMA DeliverOldStep ==
    ASSUME ScreenIInv, NEW v \in Viewers, NEW c \in State, DeliverOldState(v, c)
    PROVE  ScreenIInv' /\ StaysOver
<1> DEFINE s == session[v]
           t == session'[v]
           value == Head(s.old[c])
           known == viewer[v].state["screen"]
           truth == local["screen"].value
<1>1. ScreenTypeOK
  BY DEF ScreenIInv
<1>2. /\ s.old[c] # <<>>
      /\ session' = [session EXCEPT ![v].old[c] = Tail(@)]
      /\ viewer' = [viewer EXCEPT ![v] = HandleState(@, c, value)]
      /\ UNCHANGED <<setting, desired, signal, local, sequence, net, shown>>
  BY DEF DeliverOldState
<1>3. /\ s \in SessionType /\ viewer[v] \in ViewerType /\ BudgetOf(viewer[v])
      /\ Told(s, known, local["screen"]) /\ local["screen"] \in StateType
  BY AtViewer
<1>4. /\ s.old[c] \in Seq(Nat) /\ s.out["screen"] \in Seq(Nat)
      /\ s.old["screen"] \in Seq(Nat) /\ known \in Nat /\ truth \in Nat /\ "screen" \in State
  BY <1>3 DEF SessionType, ViewerType, StateType, State
<1>5. value \in Nat /\ Tail(s.old[c]) \in Seq(Nat)
  BY <1>2, <1>4, HeadTailProperties
<1>6. /\ session' \in [Viewers -> SessionType]
      /\ \A u \in Viewers : u # v => session'[u] = session[u]
      /\ t.sent = s.sent /\ t.out = s.out /\ t.old = [s.old EXCEPT ![c] = Tail(s.old[c])]
  <2> DEFINE old == [s.old EXCEPT ![c] = Tail(s.old[c])]
             moved == [s EXCEPT !.old = old]
  <2>1. session' = [session EXCEPT ![v] = moved]
    BY <1>1, <1>2, <1>3 DEF ScreenTypeOK, SessionType
  <2>2. old \in [State -> Seq(Nat)]
    BY <1>3, <1>4, <1>5 DEF SessionType
  <2> HIDE DEF old
  <2>3. moved \in SessionType /\ moved.sent = s.sent /\ moved.out = s.out /\ moved.old = old
    BY <1>3, <2>2 DEF SessionType
  <2> HIDE DEF moved
  <2>4. /\ session' \in [Viewers -> SessionType] /\ session'[v] = moved
        /\ \A u \in Viewers : u # v => session'[u] = session[u]
    BY <1>1, <2>1, <2>3 DEF ScreenTypeOK
  <2> QED
    BY <2>3, <2>4 DEF old
<1>7. /\ t.sent["screen"] = s.sent["screen"] /\ t.out["screen"] = s.out["screen"]
      /\ t.old["screen"] = IF c = "screen" THEN Tail(s.old["screen"]) ELSE s.old["screen"]
  <2>1. s.old \in [State -> Seq(Nat)]
    BY <1>3 DEF SessionType
  <2> QED
    BY <1>4, <1>6, <2>1
<1>8. viewer'[v].state["screen"] = IF c = "screen" THEN value ELSE known
  <2>1. viewer'[v] = HandleState(viewer[v], c, value)
    BY <1>1, <1>2 DEF ScreenTypeOK
  <2> DEFINE w == viewer[v]
  <2> HIDE DEF value, w
  <2>2. HandleState(w, c, value).state["screen"] = IF c = "screen" THEN value ELSE w.state["screen"]
    BY <1>3, <1>5, HandleStateFacts DEF w
  <2> QED
    BY <2>1, <2>2 DEF w
<1>9. Told(t, viewer'[v].state["screen"], local["screen"])
  <2>1. c = "screen" => s.old["screen"] # <<>>
    BY <1>2
  <2>2. c # "screen" => t.old["screen"] = s.old["screen"] /\ viewer'[v].state["screen"] = known
    BY <1>7, <1>8
  <2>3. t.sent["screen"] = s.sent["screen"] /\ t.out["screen"] = s.out["screen"]
    BY <1>7
  <2> HIDE DEF s, t, known
  <2> QED
    BY <1>3, <2>1, <2>2, <2>3 DEF Told
<1>10. Inside(Chain(v)', Chain(v))
  <2>1. Chain(v) = ChainOf(known, s.old["screen"], s.out["screen"], truth)
    BY DEF Chain, ChainTo
  <2>2. Chain(v)' = ChainOf(viewer'[v].state["screen"], t.old["screen"], t.out["screen"], truth)
    BY <1>2 DEF Chain, ChainTo
  <2>3. CASE c = "screen"
    <3>1. s.old["screen"] # <<>>
      BY <1>2, <2>3
    <3>2. Chain(v)' = ChainOf(Head(s.old["screen"]), Tail(s.old["screen"]), s.out["screen"], truth)
      BY <1>7, <1>8, <2>2, <2>3
    <3> HIDE DEF s, t, known, truth
    <3> QED
      BY <1>4, <2>1, <3>1, <3>2, ChainMoves
  <2>4. CASE c # "screen"
    <3>1. /\ viewer'[v].state["screen"] = viewer[v].state["screen"] /\ local' = local
          /\ session'[v].old["screen"] = session[v].old["screen"]
          /\ session'[v].out["screen"] = session[v].out["screen"]
      BY <1>2, <1>7, <1>8, <2>4
    <3> QED
      BY <3>1, StaysInside
  <2> QED
    BY <2>3, <2>4
<1> QED
  BY <1>2, <1>5, <1>6, <1>9, <1>10, HandledStep

\* What a viewer passes on comes from the viewer.
LEMMA CopiesFacts ==
    ASSUME NEW v \in Viewers, NEW packets \in SUBSET Datagram, NEW listeners \in SUBSET Viewers,
           NEW n
    PROVE  \A p \in BagToSet(n (+) Copies(v, packets, listeners)) :
                p \in BagToSet(n) \/ (p \in Datagram /\ p.from # Sharer)
<1> DEFINE copy(p, u) == [p EXCEPT !.from = v, !.to = u]
           copies == {copy(p, u) : p \in packets, u \in listeners}
<1>1. Copies(v, packets, listeners) = SetToBag(copies)
  BY DEF Copies
<1>2. ASSUME NEW p \in packets, NEW u \in listeners
      PROVE  copy(p, u) \in Datagram /\ copy(p, u).from # Sharer
  <2>1. p \in Datagram /\ u \in Viewers /\ v # Sharer
    BY ScreenShareAssumption
  <2> QED
    BY <2>1 DEF Datagram
<1> HIDE DEF copy
<1>3. \A q \in copies : q \in Datagram /\ q.from # Sharer
  BY <1>2
<1> HIDE DEF copies
<1>4. BagToSet(n (+) Copies(v, packets, listeners)) = BagToSet(n) \cup copies
  BY <1>1, NetGrows
<1> QED
  BY <1>3, <1>4

\* A step in which one viewer changes, but for what it knows of the states.
LEMMA ViewerStep ==
    ASSUME ScreenIInv, NEW v \in Viewers, NEW r \in ViewerType,
           viewer' = [viewer EXCEPT ![v] = r], r.state = viewer[v].state,
           shown' \in [Viewers -> Nat \X Nat], \A u \in Viewers : u # v => shown'[u] = shown[u],
           UNCHANGED <<setting, desired, signal, local, sequence, session>>,
           \A p \in BagToSet(net') : p \in BagToSet(net) \/ (p \in Datagram /\ p.from # Sharer),
           BudgetOf(r), WindowsOf(r, Chain(v), local["screen"].revision),
           PicturesOf(r, shown'[v], Chain(v), local["screen"].revision)
    PROVE  ScreenIInv' /\ StaysOver
<1>1. ScreenTypeOK
  BY DEF ScreenIInv
<1>2. /\ viewer' \in [Viewers -> ViewerType] /\ viewer'[v] = r
      /\ \A u \in Viewers : u # v => viewer'[u] = viewer[u]
  BY <1>1 DEF ScreenTypeOK
<1>3. ScreenTypeOK'
  BY <1>1, <1>2 DEF ScreenTypeOK
<1>4. \A u \in Viewers : viewer'[u].state = viewer[u].state
  BY <1>2
<1>5. Informed'
  BY <1>4 DEF ScreenIInv, Informed
<1>6. \A u \in Viewers : Chain(u)' = Chain(u)
  BY <1>4 DEF Chain, ChainTo
<1>7. \A u \in Viewers : Inside(Chain(u)', Chain(u))
  BY <1>4, StaysInside
<1>8. \A u \in Viewers :
        \/ viewer'[u] = viewer[u] /\ shown'[u] = shown[u]
        \/ /\ BudgetOf(viewer'[u])
           /\ WindowsOf(viewer'[u], Chain(u)', local["screen"].revision)
           /\ PicturesOf(viewer'[u], shown'[u], Chain(u)', local["screen"].revision)
  <2>1. ASSUME NEW u \in Viewers
        PROVE  \/ viewer'[u] = viewer[u] /\ shown'[u] = shown[u]
               \/ /\ BudgetOf(viewer'[u])
                  /\ WindowsOf(viewer'[u], Chain(u)', local["screen"].revision)
                  /\ PicturesOf(viewer'[u], shown'[u], Chain(u)', local["screen"].revision)
    <3>1. CASE u # v
      BY <1>2, <3>1
    <3>2. CASE u = v
      <4>1. viewer'[u] = r /\ Chain(u)' = Chain(v) /\ shown'[u] = shown'[v]
        BY <1>2, <1>6, <3>2
      <4> QED
        BY <4>1
    <3> QED
      BY <3>1, <3>2
  <2> QED
    BY <2>1
<1> QED
  BY <1>3, <1>5, <1>7, <1>8, ScreenStep

LEMMA FlushStep ==
    ASSUME ScreenIInv, NEW v \in Viewers, Flush(v)
    PROVE  ScreenIInv' /\ StaysOver
<1> DEFINE w == viewer[v]
           r == [w EXCEPT !.burst = FALSE, !.forward = {}]
<1>1. ScreenTypeOK
  BY DEF ScreenIInv
<1>2. /\ w \in ViewerType /\ BudgetOf(w) /\ WindowsOf(w, Chain(v), local["screen"].revision)
      /\ PicturesOf(w, shown[v], Chain(v), local["screen"].revision)
  BY AtViewer
<1>3. /\ viewer' = [viewer EXCEPT ![v] = r] /\ shown' = shown
      /\ UNCHANGED <<setting, desired, signal, local, sequence, session>>
  BY <1>1 DEF Flush, ScreenTypeOK
<1>4. PICK listeners \in Listeners(v) : net' = net (+) Copies(v, w.forward, listeners)
  BY DEF Flush
<1>5. \A p \in BagToSet(net') : p \in BagToSet(net) \/ (p \in Datagram /\ p.from # Sharer)
  <2>1. w.forward \in SUBSET Datagram
    BY <1>2 DEF ViewerType
  <2>2. listeners \in SUBSET Viewers
    BY <1>1 DEF Listeners, ScreenTypeOK, RoomType
  <2> QED
    BY <1>4, <2>1, <2>2, CopiesFacts
<1> HIDE DEF w
<1>6. /\ r \in ViewerType /\ r.state = w.state /\ r.windows = w.windows /\ r.video = w.video
      /\ r.retained = w.retained /\ r.completed = w.completed
  BY <1>2 DEF ViewerType
<1> HIDE DEF r
<1>7. /\ BudgetOf(r) /\ WindowsOf(r, Chain(v), local["screen"].revision)
      /\ PicturesOf(r, shown[v], Chain(v), local["screen"].revision)
  BY <1>2, <1>6 DEF BudgetOf, Exact, WindowsOf, Ordered, PicturesOf
<1>8. shown' \in [Viewers -> Nat \X Nat]
  BY <1>1, <1>3 DEF ScreenTypeOK
<1> QED
  BY <1>3, <1>5, <1>6, <1>7, <1>8, ViewerStep DEF w

LEMMA ExpiresStep ==
    ASSUME ScreenIInv, NEW v \in Viewers, ChunkExpires(v)
    PROVE  ScreenIInv' /\ StaysOver
<1>1. ScreenTypeOK
  BY DEF ScreenIInv
<1>2. PICK k \in DOMAIN viewer[v].video.parts \ viewer[v].video.expired :
        viewer' = [viewer EXCEPT ![v].video.expired = @ \cup {k}]
  BY DEF ChunkExpires
<1> DEFINE w == viewer[v]
           video == [w.video EXCEPT !.expired = @ \cup {k}]
           r == [w EXCEPT !.video = video]
<1>3. /\ w \in ViewerType /\ BudgetOf(w) /\ WindowsOf(w, Chain(v), local["screen"].revision)
      /\ PicturesOf(w, shown[v], Chain(v), local["screen"].revision)
  BY AtViewer
<1>4. /\ viewer' = [viewer EXCEPT ![v] = r] /\ shown' = shown /\ net' = net
      /\ UNCHANGED <<setting, desired, signal, local, sequence, session>>
  BY <1>1, <1>2 DEF ChunkExpires, ScreenTypeOK, ViewerType, VideoType
<1>5. w.video \in VideoType /\ k \in Nat
  <2>1. w.video \in VideoType
    BY <1>3 DEF ViewerType
  <2> QED
    BY <2>1, PartsFacts
<1>6. k \in DOMAIN w.video.parts
  OBVIOUS
<1> HIDE DEF w
<1>7. /\ video \in VideoType /\ video.stream = w.video.stream /\ video.parts = w.video.parts
      /\ video.delivered = w.video.delivered
  BY <1>5 DEF VideoType
<1> HIDE DEF video
<1>8. /\ r \in ViewerType /\ r.state = w.state /\ r.windows = w.windows /\ r.video = video
      /\ r.retained = w.retained /\ r.completed = w.completed
  BY <1>3, <1>7 DEF ViewerType
<1> HIDE DEF r
<1>9. w.video.stream # 0
  <2>1. ASSUME w.video.stream = 0
        PROVE  FALSE
    <3>1. DOMAIN w.video.parts = {}
      BY <1>3, <2>1 DEF BudgetOf, NoVideo
    <3> QED
      BY <1>6, <3>1
  <2> QED
    BY <2>1
<1>10. Retained(video) = Retained(w.video)
  BY <1>7 DEF Retained, Fragments
<1>11. /\ BudgetOf(r) /\ WindowsOf(r, Chain(v), local["screen"].revision)
       /\ PicturesOf(r, shown[v], Chain(v), local["screen"].revision)
  <2>1. BudgetOf(r)
    BY <1>3, <1>7, <1>8, <1>9, <1>10 DEF BudgetOf, Exact
  <2>2. WindowsOf(r, Chain(v), local["screen"].revision)
    BY <1>3, <1>7, <1>8 DEF WindowsOf, Ordered
  <2>3. PicturesOf(r, shown[v], Chain(v), local["screen"].revision)
    BY <1>3, <1>7, <1>8 DEF PicturesOf
  <2> QED
    BY <2>1, <2>2, <2>3
<1>12. shown' \in [Viewers -> Nat \X Nat]
  BY <1>1, <1>4 DEF ScreenTypeOK
<1> QED
  BY <1>4, <1>8, <1>11, <1>12, ViewerStep DEF w

LEMMA ExpireStep ==
    ASSUME ScreenIInv, NEW v \in Viewers, ExpireScreenVideoChunks(v)
    PROVE  ScreenIInv' /\ StaysOver
<1> DEFINE w == viewer[v]
           r == RemoveChunks(w, w.video.expired)
<1>1. ScreenTypeOK
  BY DEF ScreenIInv
<1>2. /\ w \in ViewerType /\ BudgetOf(w) /\ WindowsOf(w, Chain(v), local["screen"].revision)
      /\ PicturesOf(w, shown[v], Chain(v), local["screen"].revision)
  BY AtViewer
<1>3. /\ viewer' = [viewer EXCEPT ![v] = r] /\ shown' = shown /\ net' = net
      /\ UNCHANGED <<setting, desired, signal, local, sequence, session>>
      /\ w.video.expired # {}
  BY <1>1 DEF ExpireScreenVideoChunks, ScreenTypeOK
<1> HIDE DEF w
<1>4. w.video.expired \in SUBSET Nat
  BY <1>2 DEF ViewerType, VideoType
<1>5. /\ r \in ViewerType /\ Exact(r) /\ r.state = w.state /\ r.windows = w.windows
      /\ r.completed = w.completed /\ r.video.stream = w.video.stream
      /\ r.video.delivered = w.video.delivered
  BY <1>2, <1>4, RemoveChunksFacts DEF BudgetOf
<1>6. w.video.stream # 0
  <2>1. NoVideo.expired = {}
    BY DEF NoVideo
  <2> QED
    BY <1>2, <1>3, <2>1 DEF BudgetOf
<1> HIDE DEF r
<1>7. /\ BudgetOf(r) /\ WindowsOf(r, Chain(v), local["screen"].revision)
      /\ PicturesOf(r, shown[v], Chain(v), local["screen"].revision)
  <2>1. BudgetOf(r)
    BY <1>2, <1>5, <1>6 DEF BudgetOf
  <2>2. WindowsOf(r, Chain(v), local["screen"].revision)
    BY <1>2, <1>5 DEF WindowsOf, Ordered
  <2>3. PicturesOf(r, shown[v], Chain(v), local["screen"].revision)
    BY <1>2, <1>5 DEF PicturesOf
  <2> QED
    BY <2>1, <2>2, <2>3
<1>8. shown' \in [Viewers -> Nat \X Nat]
  BY <1>1, <1>3 DEF ScreenTypeOK
<1> QED
  BY <1>3, <1>5, <1>7, <1>8, ViewerStep DEF w

LEMMA EarlierFacts ==
    ASSUME NEW a \in Nat \X Nat, NEW b \in Nat \X Nat, NEW c \in Nat \X Nat,
           Earlier(a, b), Earlier(b, c)
    PROVE  Earlier(a, c)
<1>1. a[1] \in Nat /\ b[1] \in Nat /\ c[1] \in Nat /\ a[2] \in Nat /\ b[2] \in Nat /\ c[2] \in Nat
  OBVIOUS
<1> QED
  BY <1>1 DEF Earlier

\* The chunk that the user interface takes is the first of those to come.
LEMMA TakeStep ==
    ASSUME ScreenIInv, NEW v \in Viewers, TakeChunk(v)
    PROVE  ScreenIInv' /\ StaysOver
<1> DEFINE w == viewer[v]
           done == w.completed
           rest == Tail(done)
           first == Head(done)
           r == [w EXCEPT !.completed = rest]
<1>1. ScreenTypeOK
  BY DEF ScreenIInv
<1>2. /\ w \in ViewerType /\ BudgetOf(w) /\ WindowsOf(w, Chain(v), local["screen"].revision)
      /\ PicturesOf(w, shown[v], Chain(v), local["screen"].revision)
  BY AtViewer
<1>3. /\ viewer' = [viewer EXCEPT ![v] = r] /\ net' = net
      /\ shown' = [shown EXCEPT ![v] = first]
      /\ UNCHANGED <<setting, desired, signal, local, sequence, session>>
      /\ done # <<>>
  BY <1>1 DEF TakeChunk, ScreenTypeOK, ViewerType
<1> HIDE DEF w
<1>4. done \in Seq(Nat \X Nat)
  BY <1>2 DEF ViewerType
<1> HIDE DEF done
<1>5. /\ Len(done) \in Nat \ {0} /\ first = done[1] /\ first \in Nat \X Nat
      /\ rest \in Seq(Nat \X Nat) /\ Len(rest) = Len(done) - 1
      /\ \A i \in 1 .. Len(rest) : rest[i] = done[i + 1] /\ i + 1 \in 1 .. Len(done)
      /\ DOMAIN done = 1 .. Len(done) /\ DOMAIN rest = 1 .. Len(rest)
  BY <1>3, <1>4, HeadTailProperties, SMTT(60)
<1> HIDE DEF rest, first
<1>6. /\ r \in ViewerType /\ r.state = w.state /\ r.windows = w.windows /\ r.video = w.video
      /\ r.retained = w.retained /\ r.completed = rest
  BY <1>2, <1>5 DEF ViewerType
<1> HIDE DEF r
<1>7. /\ shown' \in [Viewers -> Nat \X Nat] /\ shown'[v] = first
      /\ \A u \in Viewers : u # v => shown'[u] = shown[u]
  BY <1>1, <1>3, <1>5 DEF ScreenTypeOK
<1>8. BudgetOf(r) /\ WindowsOf(r, Chain(v), local["screen"].revision)
  BY <1>2, <1>6 DEF BudgetOf, Exact, WindowsOf, Ordered
<1>9. LastDone(rest, first) = LastDone(done, shown[v])
  <2>1. CASE rest = <<>>
    <3>1. Len(rest) = 0
      <4>1. Len(<<>>) = 0
        OBVIOUS
      <4> QED
        BY <2>1, <4>1
    <3>2. Len(done) = 1
      BY <1>5, <3>1
    <3> QED
      BY <1>3, <1>5, <2>1, <3>2 DEF LastDone
  <2>2. CASE rest # <<>>
    <3>1. Len(rest) # 0
      BY <1>5, <2>2, SMTT(60)
    <3>2. Len(rest) \in 1 .. Len(rest) /\ Len(rest) + 1 = Len(done)
      BY <1>5, <3>1
    <3>3. rest[Len(rest)] = done[Len(done)]
      BY <1>5, <3>2
    <3> QED
      BY <1>3, <2>2, <3>3 DEF LastDone
  <2> QED
    BY <2>1, <2>2
<1>10. /\ \A i, j \in DOMAIN done : i < j => Earlier(done[i], done[j])
       /\ LastDone(done, shown[v])[1] <= local["screen"].revision
       /\ \/ w.video.stream = LastDone(done, shown[v])[1]
             /\ LastDone(done, shown[v])[2] <= w.video.delivered
          \/ Over(LastDone(done, shown[v])[1], Chain(v))
  BY <1>2 DEF PicturesOf, done
<1>11. \A i, j \in DOMAIN rest : i < j => Earlier(rest[i], rest[j])
  <2>1. ASSUME NEW i \in DOMAIN rest, NEW j \in DOMAIN rest, i < j
        PROVE  Earlier(rest[i], rest[j])
    <3>1. /\ rest[i] = done[i + 1] /\ rest[j] = done[j + 1]
          /\ i + 1 \in DOMAIN done /\ j + 1 \in DOMAIN done
      BY <1>5
    <3>2. i \in Nat /\ j \in Nat
      BY <1>5, SMTT(60)
    <3>3. i + 1 < j + 1
      BY <2>1, <3>2
    <3> QED
      BY <1>10, <3>1, <3>3
  <2> QED
    BY <2>1
<1>12. \A i \in DOMAIN rest : Earlier(first, rest[i])
  <2>1. ASSUME NEW i \in DOMAIN rest
        PROVE  Earlier(first, rest[i])
    <3>1. rest[i] = done[i + 1] /\ 1 < i + 1 /\ i + 1 \in DOMAIN done /\ 1 \in DOMAIN done
      BY <1>5, SMTT(60)
    <3> QED
      BY <1>5, <1>10, <3>1
  <2> QED
    BY <2>1
<1>13. PicturesOf(r, first, Chain(v), local["screen"].revision)
  BY <1>6, <1>9, <1>10, <1>11, <1>12 DEF PicturesOf
<1> QED
  BY <1>3, <1>6, <1>7, <1>8, <1>13, ViewerStep DEF w

\* The place after one that is not the last.
LEMMA OneFurther ==
    ASSUME NEW m \in Nat, NEW i \in 1 .. m - 1
    PROVE  i + 1 \in 1 .. m
OBVIOUS

\* A chunk later than the last one is put behind it.
LEMMA PushedKeeps ==
    ASSUME NEW done \in Seq(Nat \X Nat), NEW seen \in Nat \X Nat, NEW new \in Nat \X Nat,
           \A i, j \in DOMAIN done : i < j => Earlier(done[i], done[j]),
           \A i \in DOMAIN done : Earlier(seen, done[i]),
           Earlier(LastDone(done, seen), new)
    PROVE  LET all == Pushed(done, new)
           IN  /\ \A i, j \in DOMAIN all : i < j => Earlier(all[i], all[j])
               /\ \A i \in DOMAIN all : Earlier(seen, all[i])
               /\ LastDone(all, seen) = new
<1> DEFINE n == Len(done)
           kept == IF n < MaxCompleted THEN done ELSE Tail(done)
           all == Append(kept, new)
<1>1. /\ n \in Nat /\ DOMAIN done = 1 .. n /\ \A i \in 1 .. n : done[i] \in Nat \X Nat
  OBVIOUS
<1>2. \A i \in 1 .. n : Earlier(done[i], new)
  <2>1. ASSUME NEW i \in 1 .. n
        PROVE  Earlier(done[i], new)
    <3>1. n \in 1 .. n /\ done # <<>>
      BY <1>1
    <3>2. Earlier(done[n], new) /\ done[n] \in Nat \X Nat
      BY <1>1, <3>1 DEF LastDone
    <3>3. CASE i = n
      BY <3>2, <3>3
    <3>4. CASE i # n
      <4> HIDE DEF n
      <4>1. i < n /\ i \in DOMAIN done /\ n \in DOMAIN done
        BY <1>1, <3>1, <3>4
      <4>2. Earlier(done[i], done[n]) /\ done[i] \in Nat \X Nat
        BY <1>1, <4>1
      <4> QED
        BY <3>2, <4>2, EarlierFacts
    <3> QED
      BY <3>3, <3>4
  <2> QED
    BY <2>1
<1>3. Earlier(seen, new)
  <2>1. CASE done = <<>>
    BY <2>1 DEF LastDone
  <2>2. CASE done # <<>>
    <3>1. 1 \in 1 .. n
      BY <1>1, <2>2
    <3>2. Earlier(seen, done[1]) /\ Earlier(done[1], new) /\ done[1] \in Nat \X Nat
      BY <1>1, <1>2, <3>1
    <3> QED
      BY <3>2, EarlierFacts
  <2> QED
    BY <2>1, <2>2
<1>4. /\ kept \in Seq(Nat \X Nat) /\ Len(kept) \in Nat
      /\ \E shift \in {0, 1} : \A i \in 1 .. Len(kept) :
            i + shift \in 1 .. n /\ kept[i] = done[i + shift]
  <2>1. CASE n < MaxCompleted
    <3>1. \A i \in 1 .. Len(kept) : i + 0 \in 1 .. n /\ kept[i] = done[i + 0]
      BY <1>1, <2>1
    <3> QED
      BY <1>1, <2>1, <3>1
  <2>2. CASE ~(n < MaxCompleted)
    <3>1. done # <<>>
      BY <2>2, ScreenShareAssumption
    <3>2. /\ Tail(done) \in Seq(Nat \X Nat) /\ Len(Tail(done)) = n - 1 /\ n - 1 \in Nat
          /\ \A i \in 1 .. n - 1 : Tail(done)[i] = done[i + 1]
      BY <1>1, <3>1, HeadTailProperties
    <3>3. ASSUME NEW i \in 1 .. n - 1
          PROVE  i + 1 \in 1 .. n
      BY <1>1, OneFurther
    <3> QED
      BY <2>2, <3>2, <3>3
  <2> QED
    BY <2>1, <2>2
<1> HIDE DEF n, kept
<1>5. PICK shift \in {0, 1} : \A i \in 1 .. Len(kept) :
            i + shift \in 1 .. n /\ kept[i] = done[i + shift]
  BY <1>4
<1>6. /\ all \in Seq(Nat \X Nat) /\ Len(all) = Len(kept) + 1 /\ DOMAIN all = 1 .. Len(kept) + 1
      /\ \A i \in 1 .. Len(kept) : all[i] = kept[i]
      /\ all[Len(kept) + 1] = new
  BY <1>4, AppendProperties
<1> HIDE DEF all
<1>7. \A i, j \in DOMAIN all : i < j => Earlier(all[i], all[j])
  <2>1. ASSUME NEW i \in DOMAIN all, NEW j \in DOMAIN all, i < j
        PROVE  Earlier(all[i], all[j])
    <3>1. i \in 1 .. Len(kept)
      BY <1>4, <1>6, <2>1
    <3>2. i + shift \in 1 .. n /\ all[i] = done[i + shift]
      BY <1>5, <1>6, <3>1
    <3>3. CASE j = Len(kept) + 1
      BY <1>2, <1>6, <3>2, <3>3
    <3>4. CASE j \in 1 .. Len(kept)
      <4>1. j + shift \in 1 .. n /\ all[j] = done[j + shift]
        BY <1>5, <1>6, <3>4
      <4>2. i \in Nat /\ j \in Nat
        BY <3>1, <3>4
      <4>3. shift \in Nat
        BY SMT
      <4>4. i + shift < j + shift
        BY <2>1, <4>2, <4>3
      <4> QED
        BY <1>1, <3>2, <4>1, <4>4
    <3> QED
      BY <1>4, <1>6, <3>3, <3>4
  <2> QED
    BY <2>1
<1>8. \A i \in DOMAIN all : Earlier(seen, all[i])
  <2>1. \A i \in 1 .. Len(kept) : Earlier(seen, all[i])
    BY <1>1, <1>5, <1>6
  <2>2. \A i \in DOMAIN all : i \in 1 .. Len(kept) \/ i = Len(kept) + 1
    BY <1>4, <1>6
  <2> QED
    BY <1>3, <1>6, <2>1, <2>2
<1>9. LastDone(all, seen) = new
  <2>1. all # <<>>
    BY <1>4, <1>6
  <2> QED
    BY <1>6, <2>1 DEF LastDone
<1>10. Pushed(done, new) = all
  BY DEF Pushed, all, kept, n
<1> QED
  BY <1>7, <1>8, <1>9, <1>10

\* What a viewer makes of a datagram it accepts, as far as its windows go.
LEMMA HeardWindows ==
    ASSUME NEW w \in ViewerType, NEW r \in ViewerType, NEW p \in Datagram,
           NEW chain, NEW revision \in Nat,
           WindowsOf(w, chain, revision), w.state["screen"] <= revision,
           p.kind = "voice" \/ w.state["screen"] = p.stream,
           Ordered(r), r.state = w.state,
           \A i \in DOMAIN r.windows :
                \/ r.windows[i].key = Key(p)
                \/ \E j \in DOMAIN w.windows : r.windows[i].key = w.windows[j].key
    PROVE  WindowsOf(r, chain, revision)
<1>1. ASSUME NEW i \in DOMAIN r.windows
      PROVE  /\ r.windows[i].key[1] <= revision
             /\ r.windows[i].key[1] \in {0, w.state["screen"]} \/ Over(r.windows[i].key[1], chain)
  <2>1. CASE r.windows[i].key = Key(p)
    <3>1. Key(p)[1] = p.stream
      BY DEF Key
    <3>2. p.stream = 0 \/ p.stream = w.state["screen"]
      BY DEF Datagram
    <3>3. 0 <= revision
      OBVIOUS
    <3> QED
      BY <2>1, <3>1, <3>2, <3>3
  <2>2. CASE \E j \in DOMAIN w.windows : r.windows[i].key = w.windows[j].key
    BY <2>2 DEF WindowsOf
  <2> QED
    BY <2>1, <2>2
<1> QED
  BY <1>1 DEF WindowsOf

LEMMA AudioStep ==
    ASSUME ScreenIInv, NEW v \in Viewers, NEW p \in BagToSet(net),
           ReceiveDatagram(v, p), ReceiveAudio(v, p)
    PROVE  ScreenIInv' /\ StaysOver
<1> DEFINE w == viewer[v]
           m == Remember(w, p)
           r == [m EXCEPT !.burst = m.burst \/ p.kind = "audio"]
           revision == local["screen"].revision
<1>1. ScreenTypeOK
  BY DEF ScreenIInv
<1>2. /\ w \in ViewerType /\ BudgetOf(w) /\ WindowsOf(w, Chain(v), revision)
      /\ PicturesOf(w, shown[v], Chain(v), revision)
  BY AtViewer
<1>3. p \in Datagram
  BY <1>1 DEF ScreenTypeOK
<1>4. /\ viewer' = [viewer EXCEPT ![v] = r]
      /\ UNCHANGED <<setting, desired, signal, local, sequence, session, shown>>
      /\ p.kind = "voice" \/ w.state["screen"] = p.stream
  <2>2. viewer' = [viewer EXCEPT ![v] = r]
    BY Zenon DEF ReceiveAudio
  <2>3. /\ UNCHANGED <<setting, desired, signal, local, sequence, session, shown>>
        /\ p.kind = "voice" \/ w.state["screen"] = p.stream
    BY DEF ReceiveDatagram, Accepts
  <2> QED
    BY <2>2, <2>3
<1>5. \A q \in BagToSet(net') : q \in BagToSet(net) \/ (q \in Datagram /\ q.from # Sharer)
  <2>1. PICK listeners \in Listeners(v) :
            net' = IF p.from = Sharer THEN net (+) Copies(v, {p}, listeners) ELSE net
    BY DEF ReceiveAudio
  <2>2. listeners \in SUBSET Viewers /\ {p} \in SUBSET Datagram
    BY <1>1, <1>3 DEF Listeners, ScreenTypeOK, RoomType
  <2>3. CASE net' = net
    BY <2>3
  <2>4. CASE net' = net (+) Copies(v, {p}, listeners)
    BY <2>2, <2>4, CopiesFacts
  <2> QED
    BY <2>1, <2>3, <2>4
<1>6. revision \in Nat /\ w.state["screen"] <= revision
  <2>1. local["screen"] \in StateType /\ session[v] \in SessionType
    BY AtViewer
  <2>2. 1 \in DOMAIN Chain(v) /\ Chain(v)[1] = w.state["screen"]
    BY <1>2, <2>1, ChainFacts DEF Chain
  <2>3. Chain(v)[1] <= revision
    BY <2>2 DEF ScreenIInv, Chains
  <2> QED
    BY <2>1, <2>2, <2>3 DEF StateType
<1> HIDE DEF w, revision
<1>7. /\ m \in ViewerType /\ Ordered(m)
      /\ m.state = w.state /\ m.video = w.video /\ m.retained = w.retained
      /\ m.completed = w.completed
      /\ \A i \in DOMAIN m.windows :
            \/ m.windows[i].key = Key(p)
            \/ \E j \in DOMAIN w.windows : m.windows[i].key = w.windows[j].key
  <2>1. Ordered(w) /\ w.video.stream \in {0, w.state["screen"]}
    BY <1>2 DEF WindowsOf, BudgetOf
  <2> QED
    BY <1>2, <1>3, <1>4, <2>1, RememberFacts
<1> HIDE DEF m
<1>8. /\ r \in ViewerType /\ r.state = w.state /\ r.windows = m.windows /\ r.video = w.video
      /\ r.retained = w.retained /\ r.completed = w.completed
  BY <1>7 DEF ViewerType
<1> HIDE DEF r
<1>9. BudgetOf(r) /\ PicturesOf(r, shown[v], Chain(v), revision)
  BY <1>2, <1>8 DEF BudgetOf, Exact, PicturesOf
<1>10. WindowsOf(r, Chain(v), revision)
  <2>1. Ordered(r)
    BY <1>7, <1>8 DEF Ordered
  <2> QED
    BY <1>2, <1>3, <1>4, <1>6, <1>7, <1>8, <2>1, HeardWindows
<1>11. shown' \in [Viewers -> Nat \X Nat] /\ shown' = shown
  BY <1>1, <1>4 DEF ScreenTypeOK
<1> QED
  BY <1>4, <1>5, <1>8, <1>9, <1>10, <1>11, ViewerStep DEF w, revision

\* A fragment completes a chunk only if the chunk is later than all before.
LEMMA FragmentPictures ==
    ASSUME NEW w \in ViewerType, NEW r \in ViewerType, NEW p \in Datagram, NEW seen \in Nat \X Nat,
           NEW chain, IsChain(chain), 1 \in DOMAIN chain, chain[1] = p.stream, NEW revision,
           p.stream # 0, p.stream <= revision, w.video.stream \in {0, p.stream},
           PicturesOf(w, seen, chain, revision), r.video.stream = p.stream,
           \/ r.completed = w.completed /\ r.video.delivered = w.video.delivered
           \/ /\ r.completed = Pushed(w.completed, <<p.stream, p.unit>>)
              /\ r.video.delivered = p.unit /\ w.video.delivered < p.unit
    PROVE  PicturesOf(r, seen, chain, revision)
<1> DEFINE done == w.completed
           last == LastDone(done, seen)
           new == <<p.stream, p.unit>>
<1>1. /\ done \in Seq(Nat \X Nat) /\ w.video.delivered \in Nat /\ p.stream \in Nat /\ p.unit \in Nat
  BY DEF ViewerType, VideoType, Datagram
<1>2. last \in Nat \X Nat /\ new \in Nat \X Nat
  BY <1>1, LastDoneType
<1>3. last[1] \in Nat /\ last[2] \in Nat
  BY <1>2
<1>4. /\ \A i, j \in DOMAIN done : i < j => Earlier(done[i], done[j])
      /\ \A i \in DOMAIN done : Earlier(seen, done[i])
      /\ last[1] <= revision
      /\ (w.video.stream = last[1] /\ last[2] <= w.video.delivered) \/ Over(last[1], chain)
  BY DEF PicturesOf
<1>5. \A x \in Nat : Over(x, chain) => x < p.stream
  BY DEF Over
<1>6. Over(0, chain)
  BY DEF Over, IsChain
<1>7. CASE r.completed = w.completed /\ r.video.delivered = w.video.delivered
  <2>1. (r.video.stream = last[1] /\ last[2] <= r.video.delivered) \/ Over(last[1], chain)
    BY <1>4, <1>6, <1>7
  <2> QED
    BY <1>4, <1>7, <2>1 DEF PicturesOf
<1>8. CASE /\ r.completed = Pushed(done, new)
           /\ r.video.delivered = p.unit /\ w.video.delivered < p.unit
  <2>1. new[1] = p.stream /\ new[2] = p.unit
    OBVIOUS
  <2>2. Earlier(last, new)
    <3>1. last[1] < p.stream \/ (last[1] = p.stream /\ last[2] < p.unit)
      <4> HIDE DEF last
      <4> QED
        BY <1>1, <1>3, <1>4, <1>5, <1>8
    <3> HIDE DEF last, new
    <3> QED
      BY <2>1, <3>1 DEF Earlier
  <2> HIDE DEF done, new
  <2>3. /\ \A i, j \in DOMAIN r.completed : i < j => Earlier(r.completed[i], r.completed[j])
        /\ \A i \in DOMAIN r.completed : Earlier(seen, r.completed[i])
        /\ LastDone(r.completed, seen) = new
    BY <1>1, <1>2, <1>4, <1>8, <2>2, PushedKeeps, SMTT(60)
  <2>4. new[1] <= revision /\ r.video.stream = new[1] /\ new[2] <= r.video.delivered
    BY <1>1, <1>8, <2>1
  <2> QED
    BY <2>3, <2>4 DEF PicturesOf
<1> QED
  BY <1>7, <1>8

LEMMA VideoStep ==
    ASSUME ScreenIInv, NEW v \in Viewers, NEW p \in BagToSet(net),
           ReceiveDatagram(v, p), ReceiveVideo(v, p)
    PROVE  ScreenIInv' /\ StaysOver
<1> DEFINE w == viewer[v]
           m == Remember(w, p)
           s == WithStream(m, p.stream)
           a == AcceptFragment(s, p)
           forward == IF p.from = Sharer THEN a.forward \cup {p} ELSE a.forward
           r == [a EXCEPT !.burst = TRUE, !.forward = forward]
           revision == local["screen"].revision
<1>1. ScreenTypeOK
  BY DEF ScreenIInv
<1>2. /\ w \in ViewerType /\ BudgetOf(w) /\ WindowsOf(w, Chain(v), revision)
      /\ PicturesOf(w, shown[v], Chain(v), revision)
      /\ local["screen"] \in StateType /\ session[v] \in SessionType
  BY AtViewer
<1>3. p \in Datagram
  BY <1>1 DEF ScreenTypeOK
<1>4. /\ viewer' = [viewer EXCEPT ![v] = r] /\ net' = net
      /\ UNCHANGED <<setting, desired, signal, local, sequence, session, shown>>
      /\ p.kind = "video" /\ w.state["screen"] = p.stream
  BY <1>1 DEF ReceiveDatagram, ReceiveVideo, Accepts, ScreenTypeOK
<1>5. /\ revision \in Nat /\ p.stream <= revision
      /\ IsChain(Chain(v)) /\ 1 \in DOMAIN Chain(v) /\ Chain(v)[1] = p.stream
  <2>1. IsChain(Chain(v)) /\ 1 \in DOMAIN Chain(v) /\ Chain(v)[1] = w.state["screen"]
    BY <1>2, ChainFacts DEF Chain
  <2>2. Chain(v)[1] <= revision
    BY <2>1 DEF ScreenIInv, Chains
  <2> QED
    BY <1>2, <1>4, <2>1, <2>2 DEF StateType
<1>6. p.stream \in Nat /\ p.stream # 0
  BY <1>3, <1>4 DEF Datagram
<1> HIDE DEF w, revision
<1>7. /\ m \in ViewerType /\ Ordered(m)
      /\ m.state = w.state /\ m.video = w.video /\ m.retained = w.retained
      /\ m.completed = w.completed
      /\ \A i \in DOMAIN m.windows :
            \/ m.windows[i].key = Key(p)
            \/ \E j \in DOMAIN w.windows : m.windows[i].key = w.windows[j].key
      /\ \E i \in DOMAIN m.windows : m.windows[i].key = Key(p)
  <2>1. /\ Ordered(w) /\ w.video.stream \in {0, w.state["screen"]}
        /\ p.kind = "voice" \/ w.state["screen"] = p.stream
    BY <1>2, <1>4 DEF WindowsOf, BudgetOf
  <2> QED
    BY <1>2, <1>3, <2>1, RememberFacts
<1> HIDE DEF m
<1>8. /\ Exact(m) /\ m.video.stream \in {0, p.stream}
      /\ m.video.stream = 0 => m.video = NoVideo
  BY <1>2, <1>4, <1>7 DEF BudgetOf, Exact
<1>9. /\ s \in ViewerType /\ Exact(s)
      /\ s.video.stream = p.stream /\ s.video.delivered = m.video.delivered
      /\ s.state = m.state /\ s.windows = m.windows /\ s.completed = m.completed
  BY <1>6, <1>7, <1>8, WithStreamFacts
<1> HIDE DEF s
<1>10. /\ a \in ViewerType /\ Exact(a)
       /\ a.state = s.state /\ a.windows = s.windows /\ a.video.stream = p.stream
       /\ \/ a.completed = s.completed /\ a.video.delivered = s.video.delivered
          \/ /\ a.completed = Pushed(s.completed, <<p.stream, p.unit>>)
             /\ a.video.delivered = p.unit /\ s.video.delivered < p.unit
  <2>1. s.video.stream \in {0, p.stream} /\ (s.video.stream = 0 => s.video = NoVideo)
    BY <1>6, <1>9
  <2> QED
    BY <1>3, <1>9, <2>1, AcceptFragmentFacts
<1> HIDE DEF a
<1>11. /\ r \in ViewerType /\ r.state = a.state /\ r.windows = a.windows /\ r.video = a.video
       /\ r.retained = a.retained /\ r.completed = a.completed
  <2>1. forward \in SUBSET Datagram
    BY <1>3, <1>10 DEF ViewerType
  <2> HIDE DEF forward
  <2> QED
    BY <1>10, <2>1 DEF ViewerType
<1> HIDE DEF r
<1>12. BudgetOf(r)
  BY <1>4, <1>6, <1>7, <1>9, <1>10, <1>11 DEF BudgetOf, Exact
<1>13. WindowsOf(r, Chain(v), revision)
  <2>1. r.state = w.state /\ r.windows = m.windows
    BY <1>7, <1>9, <1>10, <1>11
  <2>2. \E i \in DOMAIN r.windows : r.windows[i].key = <<w.state["screen"], "video">>
    BY <1>4, <1>7, <2>1 DEF Key
  <2>3. Ordered(r)
    BY <1>7, <2>1, <2>2 DEF Ordered
  <2>4. /\ w.state["screen"] <= revision
        /\ p.kind = "voice" \/ w.state["screen"] = p.stream
    BY <1>4, <1>5
  <2> QED
    BY <1>2, <1>3, <1>5, <1>7, <1>11, <2>1, <2>3, <2>4, HeardWindows
<1>14. PicturesOf(r, shown[v], Chain(v), revision)
  <2>1. /\ r.video.stream = p.stream /\ w.video.stream \in {0, p.stream}
        /\ \/ r.completed = w.completed /\ r.video.delivered = w.video.delivered
           \/ /\ r.completed = Pushed(w.completed, <<p.stream, p.unit>>)
              /\ r.video.delivered = p.unit /\ w.video.delivered < p.unit
    BY <1>7, <1>8, <1>9, <1>10, <1>11
  <2>2. shown[v] \in Nat \X Nat
    BY <1>1 DEF ScreenTypeOK
  <2> QED
    BY <1>2, <1>3, <1>5, <1>6, <1>11, <2>1, <2>2, FragmentPictures
<1>15. shown' \in [Viewers -> Nat \X Nat] /\ shown' = shown
  BY <1>1, <1>4 DEF ScreenTypeOK
<1>16. r.state = viewer[v].state /\ \A q \in BagToSet(net') : q \in BagToSet(net)
  BY <1>4, <1>7, <1>9, <1>10, <1>11 DEF w
<1> QED
  BY <1>4, <1>11, <1>12, <1>13, <1>14, <1>15, <1>16, ViewerStep DEF revision

LEMMA ScreenNextStep ==
    ASSUME ScreenIInv, [ScreenNext]_screenVars
    PROVE  ScreenIInv' /\ StaysOver
<1>1. setting.viewers \subseteq Viewers
  BY DEF ScreenIInv, ScreenTypeOK, RoomType
<1>2. CASE \E value \in {0, 1} : SetLocalMemberState(value)
  BY <1>2, StatesStep
<1>3. CASE ApplyDesiredMemberState
  BY <1>3, ApplyStep
<1>4. CASE ReliableTick
  BY <1>4, TickStep
<1>5. CASE SendVoiceFrame
  BY <1>5, VoiceStep
<1>6. CASE \E active \in BOOLEAN : ScreenCommand(active)
  BY <1>6, CommandStep
<1>7. CASE \E kind \in {"audio", "video"} : SendScreen(kind)
  BY <1>7, SendScreenStep
<1>8. ASSUME NEW v \in setting.viewers, Rekey(v)
      PROVE  ScreenIInv' /\ StaysOver
  BY <1>8, RekeyStep
<1>9. ASSUME NEW v \in setting.viewers, Sync(v)
      PROVE  ScreenIInv' /\ StaysOver
  <2>1. v \in Viewers
    BY <1>1
  <2>2. CASE Flush(v)
    BY <2>1, <2>2, FlushStep
  <2>3. ASSUME NEW c \in State, DeliverState(v, c)
        PROVE  ScreenIInv' /\ StaysOver
    BY <2>1, <2>3, DeliverStep
  <2>4. ASSUME NEW c \in State, DeliverOldState(v, c)
        PROVE  ScreenIInv' /\ StaysOver
    BY <2>1, <2>4, DeliverOldStep
  <2>5. ASSUME NEW c \in State, AckState(v, c)
        PROVE  ScreenIInv' /\ StaysOver
    BY <2>1, <2>5, AckStep
  <2> QED
    BY <1>9, <2>2, <2>3, <2>4, <2>5 DEF Sync
<1>10. ASSUME NEW v \in setting.viewers, NEW p \in BagToSet(net), ReceiveDatagram(v, p)
       PROVE  ScreenIInv' /\ StaysOver
  <2>1. v \in Viewers
    BY <1>1
  <2>2. CASE ReceiveAudio(v, p)
    BY <1>10, <2>1, <2>2, AudioStep
  <2>3. CASE ReceiveVideo(v, p)
    BY <1>10, <2>1, <2>3, VideoStep
  <2> QED
    BY <1>10, <2>2, <2>3 DEF ReceiveDatagram
<1>11. ASSUME NEW v \in setting.viewers, ChunkExpires(v)
       PROVE  ScreenIInv' /\ StaysOver
  BY <1>1, <1>11, ExpiresStep
<1>12. ASSUME NEW v \in setting.viewers, ExpireScreenVideoChunks(v)
       PROVE  ScreenIInv' /\ StaysOver
  BY <1>1, <1>12, ExpireStep
<1>13. ASSUME NEW v \in setting.viewers, TakeChunk(v)
       PROVE  ScreenIInv' /\ StaysOver
  BY <1>1, <1>13, TakeStep
<1>14. CASE UNCHANGED screenVars
  BY <1>14 DEF screenVars, ScreenIInv, ScreenTypeOK, Chains, Informed, Told, Sent, Budget, Windows,
               Pictures, Chain, ChainTo, StaysOver
<1> QED
  BY <1>2, <1>3, <1>4, <1>5, <1>6, <1>7, <1>8, <1>9, <1>10, <1>11, <1>12, <1>13, <1>14
  DEF ScreenNext

\* The inductive invariant holds in every behaviour.
THEOREM ScreenInvariant == ScreenSpec => []ScreenIInv
<1>1. ScreenInit => ScreenIInv
  BY ScreenStarts
<1>2. ScreenIInv /\ [ScreenNext]_screenVars => ScreenIInv'
  BY ScreenNextStep
<1> QED
  BY <1>1, <1>2, PTL DEF ScreenSpec

\* Media of the current stream is never on its way from the sharer to somebody who does not
\* know the stream: no frame is wasted on a viewer who would drop it (screenStateReady,
\* queueScreenStates, handleScreenState).
THEOREM ReceiverKnows == ScreenSpec => []ReceiverKnowsStream
<1>1. ScreenIInv => ReceiverKnowsStream
  <2>1. SUFFICES ASSUME ScreenIInv, NEW p \in BagToSet(net), p.from = Sharer, p.kind # "voice",
                        p.stream = local["screen"].value
                 PROVE  viewer[p.to].state["screen"] = p.stream
    BY DEF ReceiverKnowsStream
  <2>2. p.to \in Viewers
    BY <2>1 DEF ScreenIInv, ScreenTypeOK, Datagram
  <2>3. /\ viewer[p.to] \in ViewerType /\ session[p.to] \in SessionType
        /\ local["screen"] \in StateType
    BY <2>1, <2>2, AtViewer
  <2>4. 1 \in DOMAIN Chain(p.to) /\ Chain(p.to)[1] = viewer[p.to].state["screen"]
    BY <2>3, ChainFacts DEF Chain
  <2> QED
    BY <2>1, <2>4 DEF ScreenIInv, Sent
<1> QED
  BY <1>1, ScreenInvariant, PTL

\* The budget for unfinished chunks counts exactly what is retained and is kept, whatever
\* arrives, expires or is dropped (removeScreenVideoChunkAssembly, makeScreenVideoRetentionRoom).
THEOREM BudgetIsExact == ScreenSpec => []RetainedIsExact
<1>1. ScreenIInv => RetainedIsExact
  BY DEF ScreenIInv, Budget, BudgetOf, Exact, RetainedIsExact
<1> QED
  BY <1>1, ScreenInvariant, PTL

\* The picture a viewer sees never goes back to an earlier chunk or an earlier stream, though
\* datagrams are repeated and delayed and messages of old sessions still arrive
\* (acceptScreenVideoFragment, handleScreenState).
THEOREM PictureNeverGoesBack == ScreenSpec => NeverBackwards
<1> DEFINE Forwards ==
            \A v \in Viewers : shown'[v] # shown[v] =>
                \/ shown'[v][1] > shown[v][1]
                \/ shown'[v][1] = shown[v][1] /\ shown'[v][2] > shown[v][2]
<1>1. ScreenIInv /\ [ScreenNext]_screenVars => [Forwards]_screenVars
  <2> SUFFICES ASSUME ScreenIInv, ScreenNext, NEW v \in Viewers, shown'[v] # shown[v]
               PROVE  shown'[v][1] > shown[v][1]
                      \/ (shown'[v][1] = shown[v][1] /\ shown'[v][2] > shown[v][2])
    OBVIOUS
  <2>1. PICK u \in setting.viewers : TakeChunk(u)
    <3>1. shown' # shown
      OBVIOUS
    <3> QED
      BY <3>1, ZenonT(60) DEF ScreenNext, SetLocalMemberState, ApplyDesiredMemberState, ReliableTick,
                  SendVoiceFrame, ScreenCommand, SendScreen, Rekey, Sync, Flush, DeliverState,
                  DeliverOldState, AckState, ReceiveDatagram, ChunkExpires,
                  ExpireScreenVideoChunks
  <2>2. shown' = [shown EXCEPT ![u] = Head(viewer[u].completed)] /\ viewer[u].completed # <<>>
    BY <2>1 DEF TakeChunk
  <2>3. u = v /\ shown'[v] = Head(viewer[v].completed)
    BY <2>2 DEF ScreenIInv, ScreenTypeOK
  <2>4. /\ viewer[v] \in ViewerType /\ shown[v] \in Nat \X Nat
        /\ PicturesOf(viewer[v], shown[v], Chain(v), local["screen"].revision)
    BY AtViewer
  <2> DEFINE done == viewer[v].completed
  <2>5. done \in Seq(Nat \X Nat) /\ done # <<>>
    BY <2>2, <2>3, <2>4 DEF ViewerType
  <2>6. \A i \in DOMAIN done : Earlier(shown[v], done[i])
    BY <2>4 DEF PicturesOf
  <2>7. shown'[v] = Head(done)
    BY <2>3
  <2> HIDE DEF done
  <2>8. 1 \in DOMAIN done /\ Head(done) = done[1] /\ done[1] \in Nat \X Nat
    BY <2>5
  <2>9. /\ shown'[v][1] \in Nat /\ shown'[v][2] \in Nat
        /\ shown[v][1] \in Nat /\ shown[v][2] \in Nat
    BY <2>4, <2>7, <2>8
  <2>10. Earlier(shown[v], shown'[v])
    BY <2>6, <2>7, <2>8
  <2> QED
    BY <2>9, <2>10 DEF Earlier
<1>2. ScreenSpec => [][Forwards]_screenVars
  <2> HIDE DEF Forwards
  <2> QED
    BY <1>1, ScreenInvariant, PTL DEF ScreenSpec
<1> QED
  BY <1>2 DEF NeverBackwards

-----------------------------------------------------------------------------
(* Every frame is heard once *)

\* The table has room for the commands that are left, too, and no screen is shared from the
\* start.
RoomLeft ==
    LET s == local["screen"]
    IN  /\ s.value # 1
        /\ "voice" \in setting.kinds =>
                1 + 2 * (s.revision - 1 + setting.screens) <= MaxStreams

\* The streams there can be at most.
IsStream(key) ==
    /\ key[1] \in 0 .. local["screen"].revision /\ key[1] # 1
    /\ key[2] = "voice" => "voice" \in setting.kinds
Streams ==
    /\ \A p \in BagToSet(net) : IsStream(Key(p))
    /\ \A v \in Viewers :
        /\ \A i \in DOMAIN viewer[v].windows : IsStream(viewer[v].windows[i].key)
        /\ \A p \in viewer[v].forward : IsStream(Key(p))

\* The numbers still to come are new.
Numbered ==
    \A p \in BagToSet(net) : p.from = Sharer =>
        /\ p.kind = "voice" => p.seq <= sequence.voice
        /\ p.kind # "voice" /\ p.stream = local["screen"].revision => p.seq <= sequence.screen

\* Streams that are over were all heard before the one that is not.
Grouped(w) ==
    LET stream == w.state["screen"]
    IN  \A i, j \in DOMAIN w.windows :
            i < j /\ stream # 0 /\ w.windows[i].key[1] = stream =>
                w.windows[j].key[1] \in {0, stream}

\* A datagram with this number is not accepted any more.
Past(w, chain, revision, key, seq) ==
    /\ key[1] <= revision
    /\ \/ ~MayAccept(WindowOf(w, key), seq)
       \/ key[1] # 0 /\ Over(key[1], chain)
PastAt(v, key, seq) == Past(viewer[v], Chain(v), local["screen"].revision, key, seq)

\* What was heard, forwarded or is to be forwarded is past.
Passed ==
    \A v \in Viewers :
        /\ \A id \in BagToSet(heard[v]) : PastAt(v, id[1], id[2])
        /\ \A p \in viewer[v].forward : p.kind = "video" /\ PastAt(v, Key(p), p.seq)
        /\ \A p \in BagToSet(net) : p.from = v => PastAt(v, Key(p), p.seq)

\* What is to be forwarded was not.
Pending ==
    \A v \in Viewers : \A q \in viewer[v].forward : \A p \in BagToSet(net) :
        p.from = v => Key(p) # Key(q) \/ p.seq # q.seq

\* Every datagram was sent once and every frame heard once.
Single ==
    /\ net = SetToBag(BagToSet(net))
    /\ heard = [v \in Viewers |-> SetToBag(BagToSet(heard[v]))]
    /\ \A v \in Viewers : BagToSet(heard[v]) \subseteq (Nat \X Kind) \X Nat

OnceIInv ==
    /\ RoomLeft /\ Streams /\ Numbered /\ Passed /\ Pending /\ Single
    /\ \A v \in Viewers : Grouped(viewer[v])

\* Two bags without repetitions that have nothing in common.
LEMMA BagsJoin ==
    ASSUME NEW A, NEW B, A \cap B = {}
    PROVE  /\ SetToBag(A) (+) SetToBag(B) = SetToBag(A \cup B)
           /\ BagToSet(SetToBag(A)) = A
           /\ \A x \in A : SetToBag(A)[x] = 1
<1>1. BagToSet(SetToBag(A)) = A /\ BagToSet(SetToBag(B)) = B
  BY DEF BagToSet, SetToBag
<1>2. ASSUME NEW x \in A \cup B
      PROVE  (IF x \in A THEN SetToBag(A)[x] ELSE 0) + (IF x \in B THEN SetToBag(B)[x] ELSE 0) = 1
  BY DEF SetToBag
<1>3. SetToBag(A) (+) SetToBag(B) = [x \in A \cup B |-> 1]
  BY <1>2 DEF SetToBag, (+)
<1> QED
  BY <1>1, <1>3 DEF SetToBag

\* What a window does not accept it does not accept later, and least of all what it has just
\* accepted.
LEMMA StaysClosed ==
    ASSUME NEW w \in Window, NEW s \in Nat, MayAccept(w, s), NEW t \in Nat,
           ~MayAccept(w, t) \/ t = s
    PROVE  ~MayAccept(Accept(w, s), t)
<1> DEFINE v == Accept(w, s)
<1>1. v \in Window /\ v.highest = (IF s > w.highest THEN s ELSE w.highest) /\ v.highest \in Nat
      /\ w.highest \in Nat
  BY AcceptType, AcceptHighest DEF Window
<1> HIDE DEF v
<1>2. SUFFICES ASSUME MayAccept(v, t)
               PROVE  FALSE
  BY DEF v
<1>3. t # 0 /\ t <= v.highest
  BY <1>1, <1>2 DEF MayAccept
<1>4. v.highest - t < WindowBits /\ v.highest - t \notin v.seen
  BY <1>1, <1>2, <1>3 DEF MayAccept
<1>5. ~(t = s) /\ ~(t <= w.highest /\ w.highest - t \in w.seen)
  BY <1>3, <1>4, AcceptMarks DEF v
<1>6. t <= w.highest /\ w.highest - t >= WindowBits
  BY <1>1, <1>3, <1>5, WindowBitsAssumption DEF MayAccept
<1> QED
  BY <1>1, <1>4, <1>6, WindowBitsAssumption

\* The window of a stream.
LEMMA WindowAt ==
    ASSUME NEW w, \A i, j \in DOMAIN w.windows : w.windows[i].key = w.windows[j].key => i = j,
           NEW i \in DOMAIN w.windows
    PROVE  WindowOf(w, w.windows[i].key) = w.windows[i].window
<1> DEFINE key == w.windows[i].key
<1>1. Places(w, key) = {i}
  BY DEF Places
<1>2. Known(w, key)
  BY <1>1 DEF Known
<1>3. Place(w, key) = i
  BY <1>1 DEF Place
<1> QED
  BY <1>2, <1>3 DEF WindowOf

LEMMA WindowUnknown ==
    ASSUME NEW w, NEW key, \A i \in DOMAIN w.windows : w.windows[i].key # key
    PROVE  ~Known(w, key) /\ WindowOf(w, key) = EmptyWindow
BY DEF WindowOf, Known, Places

LEMMA EmptyAccepts ==
    ASSUME NEW seq \in Nat, ~MayAccept(EmptyWindow, seq)
    PROVE  seq = 0
BY DEF MayAccept, EmptyWindow

\* A datagram is accepted: what was past stays past, and the datagram is, too.
LEMMA RememberedPast ==
    ASSUME NEW w \in ViewerType, NEW r \in ViewerType, Ordered(w), Ordered(r), NEW p \in Datagram,
           Moved(w, r, p), MayAccept(WindowOf(w, Key(p)), p.seq),
           NEW chain, NEW revision \in Nat, p.stream <= revision,
           ~Known(w, Key(p)) /\ Len(w.windows) >= MaxStreams =>
                w.windows[1].key[1] # 0 /\ Over(w.windows[1].key[1], chain)
    PROVE  /\ Past(r, chain, revision, Key(p), p.seq)
           /\ \A key, seq : seq \in Nat /\ Past(w, chain, revision, key, seq) =>
                    Past(r, chain, revision, key, seq)
<1> DEFINE n == Len(r.windows)
           own == Key(p)
<1>1. /\ r.windows \in Seq(StreamType) /\ w.windows \in Seq(StreamType)
      /\ r.windows # <<>> /\ n \in DOMAIN r.windows
      /\ r.windows[n] = [key |-> own, window |-> Accept(WindowOf(w, own), p.seq)]
  <2>1. /\ r.windows # <<>> /\ r.windows \in Seq(StreamType) /\ w.windows \in Seq(StreamType)
        /\ r.windows[n] = [key |-> own, window |-> Accept(WindowOf(w, own), p.seq)]
    BY DEF Moved, ViewerType
  <2>2. n \in DOMAIN r.windows
    BY <2>1
  <2> QED
    BY <2>1, <2>2
<1>2. WindowOf(r, own) = Accept(WindowOf(w, own), p.seq)
  <2>1. WindowOf(r, r.windows[n].key) = r.windows[n].window
    BY <1>1, WindowAt DEF Ordered
  <2> QED
    BY <1>1, <2>1
<1>3. own[1] = p.stream /\ p.seq \in Nat
  BY DEF Key, Datagram
<1>4. WindowOf(w, own) \in Window
  <2>1. CASE Known(w, own)
    <3>1. PICK i \in DOMAIN w.windows : w.windows[i].key = own
      BY <2>1 DEF Known, Places
    <3>2. WindowOf(w, own) = w.windows[i].window
      BY <3>1, WindowAt DEF Ordered
    <3>3. w.windows[i] \in StreamType
      BY <1>1, <3>1
    <3> QED
      BY <3>2, <3>3 DEF StreamType
  <2>2. CASE ~Known(w, own)
    BY <2>2 DEF WindowOf, EmptyWindow, Window
  <2> QED
    BY <2>1, <2>2
<1>5. Past(r, chain, revision, own, p.seq)
  BY <1>2, <1>3, <1>4, StaysClosed DEF Past
<1>6. ASSUME NEW key, NEW seq \in Nat, Past(w, chain, revision, key, seq)
      PROVE  Past(r, chain, revision, key, seq)
  <2>1. CASE key[1] # 0 /\ Over(key[1], chain)
    BY <1>6, <2>1 DEF Past
  <2>2. CASE ~MayAccept(WindowOf(w, key), seq) /\ key = own
    <3>1. ~MayAccept(WindowOf(r, key), seq)
      BY <1>2, <1>3, <1>4, <2>2, StaysClosed
    <3> QED
      BY <1>6, <3>1 DEF Past
  <2>3. CASE ~MayAccept(WindowOf(w, key), seq) /\ key # own /\ Known(w, key)
    <3>1. PICK k \in DOMAIN w.windows : w.windows[k].key = key
      BY <2>3 DEF Known, Places
    <3>2. WindowOf(w, key) = w.windows[k].window
      BY <3>1, WindowAt DEF Ordered
    <3>3. CASE \E i \in DOMAIN r.windows : r.windows[i] = w.windows[k]
      <4>1. PICK i \in DOMAIN r.windows : r.windows[i] = w.windows[k]
        BY <3>3
      <4>2. WindowOf(r, key) = r.windows[i].window
        BY <3>1, <4>1, WindowAt DEF Ordered
      <4> QED
        BY <1>6, <2>3, <3>2, <4>1, <4>2 DEF Past
    <3>4. CASE k = 1 /\ ~Known(w, own) /\ Len(w.windows) >= MaxStreams
      BY <1>6, <3>1, <3>4 DEF Past
    <3> QED
      BY <2>3, <3>1, <3>3, <3>4 DEF Moved
  <2>4. CASE ~MayAccept(WindowOf(w, key), seq) /\ ~Known(w, key)
    <3>1. WindowOf(w, key) = EmptyWindow
      BY <2>4 DEF WindowOf
    <3>2. seq = 0
      BY <2>4, <3>1, EmptyAccepts
    <3>3. ~MayAccept(WindowOf(r, key), seq)
      BY <3>2 DEF MayAccept
    <3> QED
      BY <1>6, <3>3 DEF Past
  <2> QED
    BY <1>6, <2>1, <2>2, <2>3, <2>4 DEF Past
<1> QED
  BY <1>5, <1>6

\* After a datagram of a stream that is not over no stream that is over is heard.
LEMMA RememberedGrouped ==
    ASSUME NEW w \in ViewerType, NEW r \in ViewerType, NEW p \in Datagram, Moved(w, r, p),
           Grouped(w), r.state = w.state, p.kind = "voice" \/ w.state["screen"] = p.stream
    PROVE  Grouped(r)
<1>1. SUFFICES ASSUME NEW i \in DOMAIN r.windows, NEW j \in DOMAIN r.windows, i < j,
                      w.state["screen"] # 0, r.windows[i].key[1] = w.state["screen"]
               PROVE  r.windows[j].key[1] \in {0, w.state["screen"]}
  BY DEF Grouped
<1>2. CASE j = Len(r.windows)
  <2>1. r.windows[j].key = Key(p)
    BY <1>2 DEF Moved
  <2> QED
    BY <2>1 DEF Key, Datagram
<1>3. CASE j # Len(r.windows)
  <2>1. PICK a \in DOMAIN w.windows, b \in DOMAIN w.windows :
            a < b /\ r.windows[i].key = w.windows[a].key /\ r.windows[j].key = w.windows[b].key
    BY <1>1, <1>3 DEF Moved
  <2> QED
    BY <1>1, <2>1 DEF Grouped
<1> QED
  BY <1>2, <1>3

\* A table with a window for the voice and two for every stream there can be has room for
\* one that is not in it.
LEMMA TableHasRoom ==
    ASSUME NEW w \in ViewerType, Ordered(w), NEW p \in Datagram, ~Known(w, Key(p)),
           NEW revision \in Nat \ {0}, p.stream \in 0 .. revision, p.stream # 1,
           \A i \in DOMAIN w.windows :
                w.windows[i].key[1] \in 0 .. revision /\ w.windows[i].key[1] # 1
    PROVE  Len(w.windows) <= 2 * (revision - 1)
<1> DEFINE n == Len(w.windows)
           streams == (2 .. revision) \X {"audio", "video"}
           all == streams \cup {<<0, "voice">>}
           rest == all \ {Key(p)}
           f == [i \in 1 .. n |-> w.windows[i].key]
<1>1. w.windows \in Seq(StreamType) /\ n \in Nat /\ DOMAIN w.windows = 1 .. n
  BY DEF ViewerType
<1>2. IsFiniteSet(2 .. revision) /\ Cardinality(2 .. revision) = revision - 1
  BY FS_Interval
<1>3. IsFiniteSet({"audio", "video"}) /\ Cardinality({"audio", "video"}) = 2
  <2>1. IsFiniteSet({"audio"}) /\ Cardinality({"audio"}) = 1
    BY FS_Singleton
  <2>2. /\ IsFiniteSet({"audio"} \cup {"video"})
        /\ Cardinality({"audio"} \cup {"video"}) =
                IF "video" \in {"audio"} THEN Cardinality({"audio"}) ELSE Cardinality({"audio"}) + 1
    BY <2>1, FS_AddElement
  <2>3. {"audio"} \cup {"video"} = {"audio", "video"} /\ "video" \notin {"audio"}
    OBVIOUS
  <2> QED
    BY <2>1, <2>2, <2>3
<1>4. IsFiniteSet(streams) /\ Cardinality(streams) = (revision - 1) * 2
  <2> DEFINE shared == 2 .. revision
             media == {"audio", "video"}
  <2>1. /\ IsFiniteSet(shared) /\ Cardinality(shared) = revision - 1
        /\ IsFiniteSet(media) /\ Cardinality(media) = 2
    BY <1>2, <1>3
  <2> HIDE DEF shared, media
  <2>2. /\ IsFiniteSet(shared \X media)
        /\ Cardinality(shared \X media) = Cardinality(shared) * Cardinality(media)
    BY <2>1, FS_Product
  <2> QED
    BY <2>1, <2>2 DEF shared, media
<1>5. <<0, "voice">> \notin streams
  OBVIOUS
<1> HIDE DEF streams
<1>6. IsFiniteSet(all) /\ Cardinality(all) = (revision - 1) * 2 + 1
  BY <1>4, <1>5, FS_AddElement
<1>7. Key(p) \in all
  <2>1. CASE p.kind = "voice"
    BY <2>1 DEF Key, Datagram
  <2>2. CASE p.kind # "voice"
    <3>1. p.stream \in 2 .. revision /\ p.kind \in {"audio", "video"}
      BY <2>2 DEF Datagram, Kind
    <3> QED
      BY <3>1 DEF Key, streams
  <2> QED
    BY <2>1, <2>2
<1>8. \A i \in 1 .. n : w.windows[i].key \in all
  <2> SUFFICES ASSUME NEW i \in 1 .. n
               PROVE  w.windows[i].key \in all
    OBVIOUS
  <2> DEFINE key == w.windows[i].key
  <2> SUFFICES key \in all
    OBVIOUS
  <2>1. w.windows[i] \in StreamType /\ i \in DOMAIN w.windows
    BY <1>1
  <2>2. /\ key \in Nat \X Kind /\ key[1] \in 0 .. revision /\ key[1] # 1
        /\ key[2] = "voice" <=> key[1] = 0
    BY <2>1 DEF StreamType, Ordered
  <2>3. key = <<key[1], key[2]>>
    BY <2>2
  <2> HIDE DEF key
  <2>4. CASE key[2] = "voice"
    BY <2>2, <2>3, <2>4
  <2>5. CASE key[2] # "voice"
    <3>1. key[1] \in 2 .. revision /\ key[2] \in {"audio", "video"}
      BY <2>2, <2>5 DEF Kind
    <3> QED
      BY <2>3, <3>1 DEF streams
  <2> QED
    BY <2>4, <2>5
<1> HIDE DEF all
<1>9. IsFiniteSet(rest) /\ Cardinality(rest) = (revision - 1) * 2
  BY <1>6, <1>7, FS_RemoveElement
<1>10. \A i \in 1 .. n : w.windows[i].key # Key(p)
  BY <1>1 DEF Known, Places
<1>11. f \in Injection(1 .. n, rest)
  <2>1. f \in [1 .. n -> rest]
    BY <1>8, <1>10
  <2>2. \A i, j \in 1 .. n : f[i] = f[j] => i = j
    BY <1>1 DEF Ordered
  <2> HIDE DEF f, rest
  <2> QED
    BY <2>1, <2>2 DEF Injection, IsInjective
<1> HIDE DEF f, rest
<1>12. Cardinality(1 .. n) <= Cardinality(rest)
  BY <1>9, <1>11, FS_Injection
<1>13. Cardinality(1 .. n) = n
  <2>1. n \in Int /\ n >= 0
    BY <1>1
  <2> HIDE DEF n
  <2>2. Cardinality(1 .. n) = IF 1 > n THEN 0 ELSE n - 1 + 1
    BY <2>1, FS_Interval
  <2> QED
    BY <2>1, <2>2
<1> QED
  BY <1>1, <1>9, <1>12, <1>13

\* What a full table forgets is over.
LEMMA ForgottenIsOver ==
    ASSUME ScreenIInv, OnceIInv, NEW v \in Viewers, NEW p \in BagToSet(net),
           Accepts(viewer[v], p), ~Known(viewer[v], Key(p)), Len(viewer[v].windows) >= MaxStreams
    PROVE  /\ viewer[v].windows[1].key[1] # 0
           /\ Over(viewer[v].windows[1].key[1], Chain(v))
<1> DEFINE w == viewer[v]
           stream == w.state["screen"]
           revision == local["screen"].revision
           n == Len(w.windows)
<1>1. /\ w \in ViewerType /\ WindowsOf(w, Chain(v), revision) /\ local["screen"] \in StateType
      /\ p \in Datagram /\ setting.screens \in Nat
  BY AtViewer DEF ScreenIInv, ScreenTypeOK, RoomType
<1>2. /\ w.windows \in Seq(StreamType) /\ n \in Nat /\ DOMAIN w.windows = 1 .. n
      /\ revision \in Nat \ {0} /\ MaxStreams \in Nat /\ n >= MaxStreams /\ n >= 3
  BY <1>1, ScreenShareAssumption DEF ViewerType, StateType
<1>3. /\ IsStream(Key(p)) /\ \A i \in DOMAIN w.windows : IsStream(w.windows[i].key)
      /\ RoomLeft /\ Grouped(w)
  BY DEF OnceIInv, Streams
<1>4. Ordered(w)
  BY <1>1 DEF WindowsOf
<1>5. "voice" \notin setting.kinds
  <2>1. n <= 2 * (revision - 1)
    <3>1. p.stream \in 0 .. revision /\ p.stream # 1
      BY <1>3 DEF IsStream, Key
    <3>2. \A i \in DOMAIN w.windows : w.windows[i].key[1] \in 0 .. revision /\ w.windows[i].key[1] # 1
      BY <1>3 DEF IsStream
    <3> HIDE DEF revision, w
    <3> QED
      BY <1>1, <1>2, <1>4, <3>1, <3>2, TableHasRoom DEF w
  <2>2. ASSUME 1 + 2 * (revision - 1 + setting.screens) <= MaxStreams
        PROVE  FALSE
    <3> HIDE DEF revision, n
    <3> QED
      BY <1>1, <1>2, <2>1, <2>2
  <2> QED
    BY <1>3, <2>2 DEF RoomLeft
<1>6. p.kind # "voice" /\ p.stream = stream /\ stream # 0
  BY <1>1, <1>3, <1>5 DEF IsStream, Key, Accepts, Datagram
<1>7. \A i \in 1 .. n : /\ w.windows[i].key \in Nat \X Kind
                        /\ w.windows[i].key[2] # "voice" /\ w.windows[i].key[1] # 0
  <2>1. \A i \in 1 .. n : w.windows[i] \in StreamType
    BY <1>2
  <2> QED
    BY <1>2, <1>3, <1>4, <1>5, <2>1 DEF IsStream, Ordered, StreamType
<1>8. 1 \in 1 .. n /\ 2 \in 1 .. n /\ 3 \in 1 .. n
  BY <1>2
<1>9. w.windows[1].key[1] # stream
  <2>1. SUFFICES ASSUME w.windows[1].key[1] = stream
                 PROVE  FALSE
    OBVIOUS
  <2>2. \A i \in {1, 2} : w.windows[i].key[1] = stream
    BY <1>2, <1>3, <1>6, <1>7, <1>8, <2>1, SMTT(60) DEF Grouped
  <2>3. \A i \in {1, 2} : w.windows[i].key # Key(p)
    BY <1>2, <1>8 DEF Known, Places
  <2>4. ASSUME NEW i \in {1, 2}
        PROVE  /\ w.windows[i].key = <<stream, w.windows[i].key[2]>>
               /\ w.windows[i].key[2] \in {"audio", "video"} \ {p.kind}
    <3> DEFINE key == w.windows[i].key
    <3>1. key \in Nat \X Kind /\ key[1] = stream /\ key[2] # "voice"
      BY <1>7, <1>8, <2>2
    <3>2. key # <<p.stream, p.kind>>
      BY <2>3 DEF Key
    <3> HIDE DEF key
    <3>3. key = <<key[1], key[2]>> /\ key[2] \in Kind
      BY <3>1
    <3>4. key[2] # p.kind
      BY <1>6, <3>1, <3>2, <3>3
    <3>5. key = <<stream, key[2]>> /\ key[2] \in {"audio", "video"} \ {p.kind}
      BY <3>1, <3>3, <3>4 DEF Kind
    <3> QED
      BY <3>5 DEF key
  <2>5. p.kind \in {"audio", "video"}
    BY <1>1, <1>6 DEF Datagram, Kind
  <2>6. w.windows[1].key = w.windows[2].key
    BY <2>4, <2>5
  <2> QED
    BY <1>2, <1>4, <1>8, <2>6 DEF Ordered
<1> QED
  BY <1>1, <1>2, <1>7, <1>8, <1>9 DEF WindowsOf

LEMMA PacketsNumbers ==
    ASSUME NEW kind, NEW stream, NEW first \in Nat, NEW unit, NEW count \in Nat, NEW to,
           NEW p \in Packets(kind, stream, first, unit, count, to)
    PROVE  p.seq \in first + 1 .. first + count
<1>1. PICK i \in 1 .. count, v \in to :
        p = [kind |-> kind, stream |-> stream, seq |-> first + i, unit |-> unit, index |-> i,
             count |-> count, from |-> Sharer, to |-> v]
  BY DEF Packets
<1>2. p.seq = first + i
  BY <1>1
<1> QED
  BY <1>2

\* Nothing is sent, or nothing is heard.
LEMMA BagSame ==
    ASSUME NEW b, b = SetToBag(BagToSet(b))
    PROVE  b = b (+) SetToBag({})
<1> DEFINE A == BagToSet(b)
<1>1. A \cap {} = {} /\ A \cup {} = A
  OBVIOUS
<1>2. SetToBag(A) (+) SetToBag({}) = SetToBag(A \cup {})
  BY <1>1, BagsJoin
<1> QED
  BY <1>1, <1>2

\* What was sent and what is sent now.
LEMMA SingleGrows ==
    ASSUME NEW b, b = SetToBag(BagToSet(b)), NEW S, S \cap BagToSet(b) = {}
    PROVE  /\ BagToSet(b (+) SetToBag(S)) = BagToSet(b) \cup S
           /\ b (+) SetToBag(S) = SetToBag(BagToSet(b (+) SetToBag(S)))
<1> DEFINE A == BagToSet(b)
<1>1. SetToBag(A) (+) SetToBag(S) = SetToBag(A \cup S)
  BY BagsJoin
<1>2. BagToSet(SetToBag(A \cup S)) = A \cup S
  <2>1. (A \cup S) \cap {} = {}
    OBVIOUS
  <2> HIDE DEF A
  <2> QED
    BY <2>1, BagsJoin
<1> QED
  BY <1>1, <1>2

\* What is past stays past while the windows are the same.
LEMMA PastKept ==
    ASSUME ScreenIInv, ScreenIInv', StaysOver, NEW v \in Viewers,
           local["screen"].revision <= local'["screen"].revision,
           viewer'[v].windows = viewer[v].windows,
           NEW key, key[1] \in Nat, NEW seq, PastAt(v, key, seq)
    PROVE  PastAt(v, key, seq)'
<1>1. local["screen"].revision \in Nat /\ local'["screen"].revision \in Nat
  BY DEF ScreenIInv, ScreenTypeOK, State, StateType
<1>2. WindowOf(viewer'[v], key) = WindowOf(viewer[v], key)
  BY DEF WindowOf, Known, Place, Places
<1>3. key[1] <= local["screen"].revision
  BY DEF PastAt, Past
<1>4. key[1] \in 0 .. local["screen"].revision /\ key[1] <= local'["screen"].revision
  BY <1>1, <1>3
<1> QED
  BY <1>2, <1>4 DEF PastAt, Past, StaysOver

\* A datagram that is accepted is not past.
LEMMA AcceptedIsNew ==
    ASSUME ScreenIInv, NEW v \in Viewers, NEW p \in Datagram, Accepts(viewer[v], p)
    PROVE  ~PastAt(v, Key(p), p.seq)
<1>1. MayAccept(WindowOf(viewer[v], Key(p)), p.seq) /\ Key(p)[1] = p.stream
  BY DEF Accepts, Key
<1>2. ASSUME p.stream # 0
      PROVE  ~Over(p.stream, Chain(v))
  <2>1. p.stream = viewer[v].state["screen"] /\ p.stream \in Nat
    BY <1>2 DEF Accepts, Datagram
  <2>2. 1 \in DOMAIN Chain(v) /\ Chain(v)[1] = p.stream
    BY <2>1, AtViewer, ChainFacts DEF Chain
  <2> QED
    BY <1>2, <2>1, <2>2 DEF Over
<1> QED
  BY <1>1, <1>2 DEF PastAt, Past

\* A step in which nobody hears or passes on anything.
LEMMA OnceKept ==
    ASSUME ScreenIInv, ScreenIInv', StaysOver, OnceIInv,
           heard' = heard, setting'.kinds = setting.kinds,
           local["screen"].revision <= local'["screen"].revision, RoomLeft', Numbered',
           NEW S, net' = net (+) SetToBag(S), S \cap BagToSet(net) = {},
           \A q \in S : q.from = Sharer /\ IsStream(Key(q))',
           \A v \in Viewers : /\ viewer'[v].windows = viewer[v].windows
                             /\ viewer'[v].forward \subseteq viewer[v].forward
                             /\ Grouped(viewer'[v])
    PROVE  OnceIInv'
<1>1. /\ RoomLeft /\ Streams /\ Numbered /\ Passed /\ Pending /\ Single
      /\ BagToSet(net) \subseteq Datagram /\ Sharer \notin Viewers
      /\ local["screen"].revision \in Nat /\ local'["screen"].revision \in Nat
  BY ScreenShareAssumption DEF OnceIInv, ScreenIInv, ScreenTypeOK, State, StateType
<1>2. /\ BagToSet(net') = BagToSet(net) \cup S
      /\ net' = SetToBag(BagToSet(net'))
  BY <1>1, SingleGrows DEF Single
<1>3. ASSUME NEW key, IsStream(key)
      PROVE  IsStream(key)'
  BY <1>1, <1>3 DEF IsStream
<1>4. Streams'
  BY <1>1, <1>2, <1>3 DEF Streams
<1>5. ASSUME NEW v \in Viewers
      PROVE  /\ \A id \in BagToSet(heard[v]) : PastAt(v, id[1], id[2])'
             /\ \A p \in viewer'[v].forward : p.kind = "video" /\ PastAt(v, Key(p), p.seq)'
             /\ \A p \in BagToSet(net') : p.from = v => PastAt(v, Key(p), p.seq)'
  <2>1. \A id \in BagToSet(heard[v]) : PastAt(v, id[1], id[2])'
    <3>1. ASSUME NEW id \in BagToSet(heard[v])
          PROVE  PastAt(v, id[1], id[2])'
      <4>1. id \in (Nat \X Kind) \X Nat /\ PastAt(v, id[1], id[2])
        BY <1>1 DEF Single, Passed
      <4>2. id[1][1] \in Nat
        BY <4>1
      <4> QED
        BY <4>1, <4>2, PastKept
    <3> QED
      BY <3>1
  <2>2. \A p \in Datagram : PastAt(v, Key(p), p.seq) => PastAt(v, Key(p), p.seq)'
    <3>1. \A p \in Datagram : Key(p)[1] \in Nat
      BY DEF Key, Datagram
    <3> QED
      BY <3>1, PastKept
  <2>3. viewer[v].forward \subseteq Datagram
    BY AtViewer DEF ViewerType
  <2>4. \A p \in viewer'[v].forward : p.kind = "video" /\ PastAt(v, Key(p), p.seq)'
    BY <1>1, <2>2, <2>3 DEF Passed
  <2>5. \A p \in BagToSet(net') : p.from = v => PastAt(v, Key(p), p.seq)'
    BY <1>1, <1>2, <2>2 DEF Passed
  <2> QED
    BY <2>1, <2>4, <2>5
<1>6. Passed'
  BY <1>5 DEF Passed
<1>7. Pending'
  BY <1>1, <1>2 DEF Pending
<1>8. Single'
  BY <1>1, <1>2 DEF Single
<1> QED
  BY <1>4, <1>6, <1>7, <1>8 DEF OnceIInv

-----------------------------------------------------------------------------

LEMMA OnceStarts ==
    ASSUME VoiceHasRoom, ScreenInit
    PROVE  OnceIInv
<1> USE DEF ScreenInit
<1>1. "screen" \in State /\ setting.screens \in Nat /\ setting \in Setting
  BY ScreenShareAssumption DEF State
<1>2. /\ local["screen"].revision = 1 /\ local["screen"].value = 0
      /\ \A v \in Viewers : viewer[v].windows = <<>> /\ viewer[v].forward = {}
  BY <1>1 DEF NewViewer
<1>3. /\ BagToSet(EmptyBag) = {} /\ EmptyBag = SetToBag({})
  BY DEF EmptyBag, SetToBag, BagToSet
<1>4. RoomLeft
  BY <1>1, <1>2 DEF RoomLeft, VoiceHasRoom
<1>5. Streams /\ Numbered /\ Passed /\ Pending /\ \A v \in Viewers : Grouped(viewer[v])
  BY <1>2, <1>3 DEF Streams, Numbered, Passed, Pending, Grouped
<1>6. Single
  BY <1>3 DEF Single
<1> QED
  BY <1>4, <1>5, <1>6 DEF OnceIInv

\* What the states that are queued cost.
LEMMA QueueCosts ==
    ASSUME NEW kinds, NEW sessions, NEW states, NEW cost \in RoomType,
           QueueStates(kinds, sessions, states, cost)
    PROVE  setting'.kinds = cost.kinds /\ setting'.screens = cost.screens
BY DEF QueueStates, RoomType

\* A step that sends no media and in which nobody hears or passes on anything.
LEMMA OnceQuiet ==
    ASSUME ScreenIInv, ScreenIInv', StaysOver, OnceIInv,
           heard' = heard, net' = net, local'["screen"] = local["screen"], sequence' = sequence,
           setting'.kinds = setting.kinds, setting'.screens = setting.screens,
           \A v \in Viewers : /\ viewer'[v].windows = viewer[v].windows
                             /\ viewer'[v].forward \subseteq viewer[v].forward
                             /\ Grouped(viewer'[v])
    PROVE  OnceIInv'
<1>1. RoomLeft' /\ Numbered'
  BY DEF OnceIInv, RoomLeft, Numbered
<1>2. net' = net (+) SetToBag({})
  BY BagSame DEF OnceIInv, Single
<1>3. local["screen"].revision <= local'["screen"].revision
  BY DEF ScreenIInv, ScreenTypeOK, State, StateType
<1> QED
  BY <1>1, <1>2, <1>3, OnceKept

LEMMA OnceStates ==
    ASSUME ScreenIInv, ScreenIInv', StaysOver, OnceIInv,
           \/ \E value \in {0, 1} : SetLocalMemberState(value)
           \/ ApplyDesiredMemberState
           \/ ReliableTick
           \/ \E v \in setting.viewers : Rekey(v)
           \/ UNCHANGED screenVars
    PROVE  OnceIInv'
<1>1. /\ setting \in RoomType /\ local \in [State -> StateType] /\ "screen" \in State
  BY DEF ScreenIInv, ScreenTypeOK, State
<1>2. /\ heard' = heard /\ net' = net /\ sequence' = sequence /\ viewer' = viewer
      /\ local'["screen"] = local["screen"]
  BY <1>1 DEF SetLocalMemberState, ApplyDesiredMemberState, ReliableTick, Rekey, screenVars
<1>3. setting'.kinds = setting.kinds /\ setting'.screens = setting.screens
  <2>1. CASE \E value \in {0, 1} : SetLocalMemberState(value)
    BY <1>1, <2>1 DEF SetLocalMemberState, RoomType
  <2>2. CASE ApplyDesiredMemberState
    BY <1>1, <2>2, QueueCosts DEF ApplyDesiredMemberState
  <2>3. CASE ReliableTick
    BY <1>1, <2>3, QueueCosts DEF ReliableTick
  <2>4. CASE \E v \in setting.viewers : Rekey(v)
    <3> PICK v \in setting.viewers : Rekey(v)
      BY <2>4
    <3> DEFINE rest == setting.rekeys - 1
               cost == [setting EXCEPT !.rekeys = rest]
    <3>1. QueueStates(State, [session EXCEPT ![v] = NewSession(@.out)], local, cost)
      BY DEF Rekey
    <3>2. setting.rekeys \in Nat /\ setting.rekeys > 0
      BY <1>1 DEF RoomType, Rekey
    <3>3. rest \in Nat
      BY <3>2
    <3> HIDE DEF rest
    <3>4. cost \in RoomType /\ cost.kinds = setting.kinds /\ cost.screens = setting.screens
      BY <1>1, <3>3 DEF RoomType
    <3> HIDE DEF cost
    <3> QED
      BY <3>1, <3>4, QueueCosts
  <2>5. CASE UNCHANGED screenVars
    BY <2>5 DEF screenVars
  <2> QED
    BY <2>1, <2>2, <2>3, <2>4, <2>5
<1>4. \A v \in Viewers : Grouped(viewer'[v])
  BY <1>2 DEF OnceIInv
<1> QED
  BY <1>2, <1>3, <1>4, OnceQuiet

LEMMA OnceVoice ==
    ASSUME ScreenIInv, ScreenIInv', StaysOver, OnceIInv, SendVoiceFrame
    PROVE  OnceIInv'
<1>1. /\ ScreenTypeOK /\ setting \in RoomType /\ sequence.voice \in Nat /\ sequence.screen \in Nat
      /\ local["screen"].revision \in Nat \ {0} /\ BagToSet(net) \subseteq Datagram
  BY DEF ScreenIInv, ScreenTypeOK, State, StateType
<1>2. /\ heard' = heard /\ viewer' = viewer /\ local' = local /\ "voice" \in setting.kinds
      /\ setting' = [setting EXCEPT !.sends = @ - 1]
      /\ sequence' = [sequence EXCEPT !.voice = @ + 1]
  BY DEF SendVoiceFrame
<1>3. PICK to \in Destinations :
        net' = net (+) SetToBag(Packets("voice", 0, sequence.voice, 0, 1, to))
  BY DEF SendVoiceFrame
<1> DEFINE S == Packets("voice", 0, sequence.voice, 0, 1, to)
<1>4. ASSUME NEW q \in S
      PROVE  q.from = Sharer /\ q.kind = "voice" /\ q.stream = 0 /\ q.seq = sequence.voice + 1
  <2>1. q.from = Sharer /\ q.kind = "voice" /\ q.stream = 0
    BY DEF Packets
  <2>2. q.seq \in sequence.voice + 1 .. sequence.voice + 1
    BY <1>1, PacketsNumbers
  <2> QED
    BY <1>1, <2>1, <2>2
<1> HIDE DEF S
<1>5. /\ setting'.kinds = setting.kinds /\ setting'.screens = setting.screens
      /\ sequence'.voice = sequence.voice + 1 /\ sequence'.screen = sequence.screen
  BY <1>1, <1>2 DEF RoomType, ScreenTypeOK
<1>6. S \cap BagToSet(net) = {}
  <2>1. ASSUME NEW q \in S, q \in BagToSet(net)
        PROVE  FALSE
    <3>1. q.seq <= sequence.voice
      BY <1>4, <2>1 DEF OnceIInv, Numbered
    <3> QED
      BY <1>1, <1>4, <2>1, <3>1
  <2> QED
    BY <2>1
<1>7. \A q \in S : q.from = Sharer /\ IsStream(Key(q))'
  BY <1>1, <1>2, <1>4, <1>5 DEF IsStream, Key
<1>8. RoomLeft'
  BY <1>2, <1>5 DEF OnceIInv, RoomLeft
<1>9. Numbered'
  <2>1. SUFFICES ASSUME NEW p \in BagToSet(net'), p.from = Sharer
                 PROVE  /\ p.kind = "voice" => p.seq <= sequence.voice + 1
                        /\ p.kind # "voice" /\ p.stream = local["screen"].revision =>
                                p.seq <= sequence.screen
    BY <1>2, <1>5 DEF Numbered
  <2>2. CASE p \in S
    BY <1>1, <1>4, <2>2
  <2>3. CASE p \in BagToSet(net)
    <3>1. p.seq \in Nat
      BY <1>1, <2>3 DEF Datagram
    <3> QED
      BY <1>1, <2>1, <2>3, <3>1 DEF OnceIInv, Numbered
  <2>4. BagToSet(net') = BagToSet(net) \cup S
    BY <1>3, NetGrows DEF S
  <2> QED
    BY <2>1, <2>2, <2>3, <2>4
<1>10. local["screen"].revision <= local'["screen"].revision
  BY <1>1, <1>2
<1>11. net' = net (+) SetToBag(S)
  BY <1>3 DEF S
<1>12. \A v \in Viewers : Grouped(viewer'[v])
  BY <1>2 DEF OnceIInv
<1> QED
  BY <1>2, <1>5, <1>6, <1>7, <1>8, <1>9, <1>10, <1>11, <1>12, OnceKept

LEMMA OnceSend ==
    ASSUME ScreenIInv, ScreenIInv', StaysOver, OnceIInv, NEW kind \in {"audio", "video"},
           SendScreen(kind)
    PROVE  OnceIInv'
<1> DEFINE count == IF kind = "video" THEN setting.fragments ELSE 1
           rest == setting.sends - 1
           cost == [setting EXCEPT !.sends = rest]
           revision == local["screen"].revision
<1>1. /\ ScreenTypeOK /\ setting \in RoomType /\ sequence.voice \in Nat /\ sequence.screen \in Nat
      /\ revision \in Nat \ {0} /\ BagToSet(net) \subseteq Datagram
  BY DEF ScreenIInv, ScreenTypeOK, State, StateType
<1>2. count \in Nat \ {0}
  BY <1>1 DEF RoomType
<1>3. /\ heard' = heard /\ viewer' = viewer /\ local' = local
      /\ setting.sends > 0 /\ local["screen"].value # 0
      /\ QueueStates({"screen"}, session, local, cost)
      /\ sequence' = [sequence EXCEPT !.screen = @ + count,
                                      !.chunk = IF kind = "video" THEN @ + 1 ELSE @]
  BY DEF SendScreen
<1>4. PICK to \in Destinations :
        net' = net (+) SetToBag(
                Packets(kind, local["screen"].value, sequence.screen, sequence'.chunk, count,
                        {v \in to : ScreenStateReady(session'[v])}))
  BY DEF SendScreen
<1> HIDE DEF count
<1> DEFINE S == Packets(kind, local["screen"].value, sequence.screen, sequence'.chunk, count,
                        {v \in to : ScreenStateReady(session'[v])})
<1>5. local["screen"].value = revision /\ revision # 1
  BY <1>3 DEF ScreenIInv, Chains, OnceIInv, RoomLeft
<1>6. ASSUME NEW q \in S
      PROVE  /\ q.from = Sharer /\ q.kind = kind /\ q.stream = revision
             /\ q.seq \in sequence.screen + 1 .. sequence.screen + count
  <2>1. q.from = Sharer /\ q.kind = kind /\ q.stream = local["screen"].value
    BY DEF Packets
  <2>2. q.seq \in sequence.screen + 1 .. sequence.screen + count
    BY <1>1, <1>2, PacketsNumbers
  <2> QED
    BY <1>5, <2>1, <2>2
<1>7. net' = net (+) SetToBag(S)
  BY <1>4
<1> HIDE DEF S
<1>8. setting'.kinds = setting.kinds /\ setting'.screens = setting.screens
  <2>1. rest \in Nat
    BY <1>1, <1>3 DEF RoomType
  <2> HIDE DEF rest
  <2>2. cost \in RoomType /\ cost.kinds = setting.kinds /\ cost.screens = setting.screens
    BY <1>1, <2>1 DEF RoomType
  <2> HIDE DEF cost
  <2> QED
    BY <1>3, <2>2, QueueCosts
<1>9. sequence'.voice = sequence.voice /\ sequence'.screen = sequence.screen + count
  BY <1>1, <1>3 DEF ScreenTypeOK
<1> HIDE DEF revision
<1>10. S \cap BagToSet(net) = {}
  <2>1. ASSUME NEW q \in S, q \in BagToSet(net)
        PROVE  FALSE
    <3>1. q.seq <= sequence.screen
      BY <1>6, <2>1 DEF OnceIInv, Numbered, revision
    <3> QED
      BY <1>1, <1>2, <1>6, <2>1, <3>1
  <2> QED
    BY <2>1
<1>11. \A q \in S : q.from = Sharer /\ IsStream(Key(q))'
  BY <1>1, <1>3, <1>5, <1>6, <1>8 DEF IsStream, Key, revision
<1>12. RoomLeft'
  BY <1>3, <1>8 DEF OnceIInv, RoomLeft
<1>13. Numbered'
  <2>1. SUFFICES ASSUME NEW p \in BagToSet(net'), p.from = Sharer
                 PROVE  /\ p.kind = "voice" => p.seq <= sequence.voice
                        /\ p.kind # "voice" /\ p.stream = revision =>
                                p.seq <= sequence.screen + count
    BY <1>3, <1>9 DEF Numbered, revision
  <2>2. CASE p \in S
    BY <1>1, <1>2, <1>6, <2>2
  <2>3. CASE p \in BagToSet(net)
    <3>1. p.seq \in Nat
      BY <1>1, <2>3 DEF Datagram
    <3> QED
      BY <1>1, <1>2, <2>1, <2>3, <3>1 DEF OnceIInv, Numbered, revision
  <2>4. BagToSet(net') = BagToSet(net) \cup S
    BY <1>7, NetGrows
  <2> QED
    BY <2>1, <2>2, <2>3, <2>4
<1>14. local["screen"].revision <= local'["screen"].revision
  BY <1>1, <1>3 DEF revision
<1>15. \A v \in Viewers : Grouped(viewer'[v])
  BY <1>3 DEF OnceIInv
<1> QED
  BY <1>3, <1>7, <1>8, <1>10, <1>11, <1>12, <1>13, <1>14, <1>15, OnceKept

LEMMA OnceCommand ==
    ASSUME ScreenIInv, ScreenIInv', StaysOver, OnceIInv, NEW active \in BOOLEAN,
           ScreenCommand(active)
    PROVE  OnceIInv'
<1> DEFINE rest == setting.screens - 1
           cost == [setting EXCEPT !.screens = rest]
           revision == local["screen"].revision
<1>1. /\ ScreenTypeOK /\ setting \in RoomType /\ revision \in Nat \ {0}
      /\ BagToSet(net) \subseteq Datagram /\ "screen" \in State
  BY DEF ScreenIInv, ScreenTypeOK, State, StateType
<1>2. /\ heard' = heard /\ viewer' = viewer /\ net' = net /\ setting.screens > 0
      /\ local' = [local EXCEPT !["screen"] =
                    [revision |-> revision + 1, value |-> IF active THEN revision + 1 ELSE 0]]
      /\ sequence' = [sequence EXCEPT !.screen = 0, !.chunk = 0]
      /\ QueueStates({"screen"}, session, local', cost)
  BY DEF ScreenCommand
<1>3. /\ local'["screen"].revision = revision + 1
      /\ local'["screen"].value = IF active THEN revision + 1 ELSE 0
  <2> DEFINE state == [revision |-> revision + 1, value |-> IF active THEN revision + 1 ELSE 0]
  <2>1. local' = [local EXCEPT !["screen"] = state] /\ local \in [State -> StateType]
    BY <1>1, <1>2 DEF ScreenTypeOK
  <2>2. local'["screen"] = state
    <3> HIDE DEF state
    <3> QED
      BY <1>1, <2>1
  <2> QED
    BY <2>2
<1>4. setting'.kinds = setting.kinds /\ setting'.screens = setting.screens - 1
  <2>1. rest \in Nat
    BY <1>1, <1>2 DEF RoomType
  <2> HIDE DEF rest
  <2>2. cost \in RoomType /\ cost.kinds = setting.kinds /\ cost.screens = rest
    BY <1>1, <2>1 DEF RoomType
  <2> HIDE DEF cost
  <2> QED
    BY <1>2, <2>2, QueueCosts DEF rest
<1>5. sequence'.voice = sequence.voice /\ sequence'.screen = 0
  BY <1>1, <1>2 DEF ScreenTypeOK
<1>6. setting.screens \in Nat
  BY <1>1 DEF RoomType
<1>7. RoomLeft'
  <2>1. "voice" \in setting.kinds => 1 + 2 * (revision - 1 + setting.screens) <= MaxStreams
    BY DEF OnceIInv, RoomLeft
  <2> HIDE DEF revision
  <2>2. revision + 1 # 1 /\ revision + 1 - 1 + (setting.screens - 1) = revision - 1 + setting.screens
    BY <1>1, <1>6
  <2>3. local'["screen"].value # 1
    BY <1>3, <2>2
  <2>4. "voice" \in setting'.kinds =>
            1 + 2 * (local'["screen"].revision - 1 + setting'.screens) <= MaxStreams
    BY <1>1, <1>3, <1>4, <1>6, <2>1, <2>2
  <2> QED
    BY <2>3, <2>4 DEF RoomLeft
<1>8. Numbered'
  <2>1. SUFFICES ASSUME NEW p \in BagToSet(net), p.from = Sharer
                 PROVE  /\ p.kind = "voice" => p.seq <= sequence.voice
                        /\ p.stream # revision + 1
    BY <1>2, <1>3, <1>5 DEF Numbered
  <2>2. p.stream <= revision /\ p.stream \in Nat
    BY <1>1, <2>1 DEF ScreenIInv, Sent, Datagram
  <2> QED
    BY <1>1, <2>1, <2>2 DEF OnceIInv, Numbered
<1>9. local["screen"].revision <= local'["screen"].revision
  BY <1>1, <1>3
<1>10. net' = net (+) SetToBag({})
  BY <1>2, BagSame DEF OnceIInv, Single
<1>11. \A v \in Viewers : Grouped(viewer'[v])
  BY <1>2 DEF OnceIInv
<1> QED
  BY <1>2, <1>4, <1>7, <1>8, <1>9, <1>10, <1>11, OnceKept

\* A viewer becomes r; it hears H and passes on C.
Hears(v, r, H, C) ==
    /\ viewer' = [viewer EXCEPT ![v] = r] /\ UNCHANGED <<setting, local, sequence>>
    /\ Grouped(r) /\ \A i \in DOMAIN r.windows : IsStream(r.windows[i].key)
    /\ \A q \in r.forward :
            q.kind = "video" /\ IsStream(Key(q)) /\ PastAt(v, Key(q), q.seq)'
    /\ \A key, seq : seq \in Nat /\ PastAt(v, key, seq) => PastAt(v, key, seq)'
    /\ heard' = [heard EXCEPT ![v] = @ (+) SetToBag(H)]
    /\ H \cap BagToSet(heard[v]) = {} /\ H \subseteq (Nat \X Kind) \X Nat
    /\ \A id \in H : PastAt(v, id[1], id[2])'
    /\ net' = net (+) SetToBag(C) /\ C \cap BagToSet(net) = {}
    /\ \A q \in C : q.from = v /\ IsStream(Key(q)) /\ PastAt(v, Key(q), q.seq)'
    /\ \A q \in r.forward : \A p \in BagToSet(net) \cup C :
            p.from = v => Key(p) # Key(q) \/ p.seq # q.seq

LEMMA OnceHeard ==
    ASSUME ScreenIInv, ScreenIInv', StaysOver, OnceIInv, NEW v \in Viewers, NEW r, NEW H, NEW C,
           Hears(v, r, H, C)
    PROVE  OnceIInv'
<1> USE DEF Hears
<1>1. /\ RoomLeft /\ Streams /\ Numbered /\ Passed /\ Pending /\ Single
      /\ BagToSet(net) \subseteq Datagram /\ Sharer \notin Viewers
      /\ local["screen"].revision \in Nat /\ local'["screen"].revision = local["screen"].revision
  BY ScreenShareAssumption DEF OnceIInv, ScreenIInv, ScreenTypeOK, State, StateType
<1>2. /\ BagToSet(net') = BagToSet(net) \cup C
      /\ net' = SetToBag(BagToSet(net'))
  BY <1>1, SingleGrows DEF Single
<1>3. viewer'[v] = r /\ \A u \in Viewers : u # v => viewer'[u] = viewer[u]
  BY DEF ScreenIInv, ScreenTypeOK
<1>4. \A key : IsStream(key)' <=> IsStream(key)
  BY DEF IsStream
<1>5. /\ \A u \in Viewers : u # v => heard'[u] = heard[u]
      /\ BagToSet(heard'[v]) = BagToSet(heard[v]) \cup H
      /\ heard'[v] = SetToBag(BagToSet(heard'[v]))
      /\ heard' = [u \in Viewers |-> heard'[u]]
  <2>1. /\ heard = [u \in Viewers |-> SetToBag(BagToSet(heard[u]))]
        /\ heard[v] = SetToBag(BagToSet(heard[v]))
    BY <1>1 DEF Single
  <2> DEFINE new == heard[v] (+) SetToBag(H)
  <2>2. BagToSet(new) = BagToSet(heard[v]) \cup H /\ new = SetToBag(BagToSet(new))
    BY <2>1, SingleGrows
  <2>3. heard' = [heard EXCEPT ![v] = new]
    OBVIOUS
  <2> HIDE DEF new
  <2>4. DOMAIN heard = Viewers
    BY <2>1
  <2>5. heard'[v] = new /\ (\A u \in Viewers : u # v => heard'[u] = heard[u])
        /\ heard' = [u \in Viewers |-> heard'[u]]
    BY <2>3, <2>4
  <2> QED
    BY <2>2, <2>5
<1>6. RoomLeft' /\ Numbered'
  <2>1. RoomLeft'
    BY <1>1 DEF RoomLeft
  <2>2. \A p \in C : p.from # Sharer
    BY <1>1
  <2> QED
    BY <1>1, <1>2, <2>1, <2>2 DEF Numbered
<1>7. Streams'
  <2>1. \A p \in BagToSet(net') : IsStream(Key(p))'
    BY <1>1, <1>2, <1>4 DEF Streams
  <2>2. ASSUME NEW u \in Viewers
        PROVE  (/\ \A i \in DOMAIN viewer[u].windows : IsStream(viewer[u].windows[i].key)
                /\ \A p \in viewer[u].forward : IsStream(Key(p)))'
    <3>1. /\ \A i \in DOMAIN viewer'[u].windows : IsStream(viewer'[u].windows[i].key)
          /\ \A p \in viewer'[u].forward : IsStream(Key(p))
      <4>1. CASE u = v
        BY <1>3, <4>1
      <4>2. CASE u # v
        <5>1. viewer'[u] = viewer[u]
          BY <1>3, <4>2
        <5> QED
          BY <1>1, <5>1 DEF Streams
      <4> QED
        BY <4>1, <4>2
    <3> QED
      BY <3>1 DEF IsStream
  <2> QED
    BY <2>1, <2>2 DEF Streams
<1>8. \A q \in Datagram : q.seq \in Nat /\ Key(q)[1] \in Nat
  BY DEF Datagram, Key
<1>9. \A u \in Viewers : \A id \in BagToSet(heard[u]) : id[1][1] \in Nat /\ id[2] \in Nat
  <2>1. \A u \in Viewers : \A id \in BagToSet(heard[u]) : id \in (Nat \X Kind) \X Nat
    BY <1>1 DEF Single
  <2> QED
    BY <2>1
<1>10. ASSUME NEW u \in Viewers, NEW key, key[1] \in Nat, NEW seq \in Nat, PastAt(u, key, seq)
       PROVE  PastAt(u, key, seq)'
  <2>1. CASE u = v
    BY <1>10, <2>1
  <2>2. CASE u # v
    <3>1. viewer'[u].windows = viewer[u].windows
          /\ local["screen"].revision <= local'["screen"].revision
      BY <1>1, <1>3, <2>2
    <3> QED
      BY <1>10, <3>1, PastKept
  <2> QED
    BY <2>1, <2>2
<1>11. ASSUME NEW u \in Viewers
       PROVE  /\ \A id \in BagToSet(heard'[u]) : PastAt(u, id[1], id[2])'
              /\ \A p \in viewer'[u].forward : p.kind = "video" /\ PastAt(u, Key(p), p.seq)'
              /\ \A p \in BagToSet(net') : p.from = u => PastAt(u, Key(p), p.seq)'
  <2>1. ASSUME NEW id \in BagToSet(heard'[u])
        PROVE  PastAt(u, id[1], id[2])'
    <3>1. CASE id \in BagToSet(heard[u])
      <4>1. PastAt(u, id[1], id[2])
        BY <1>1, <3>1 DEF Passed
      <4> QED
        BY <1>9, <1>10, <3>1, <4>1
    <3>2. CASE u = v /\ id \in H
      BY <3>2
    <3> QED
      BY <1>5, <2>1, <3>1, <3>2
  <2>2. ASSUME NEW p \in viewer'[u].forward
        PROVE  p.kind = "video" /\ PastAt(u, Key(p), p.seq)'
    <3>1. CASE u = v
      BY <1>3, <2>2, <3>1
    <3>2. CASE u # v
      <4>1. p \in viewer[u].forward
        BY <1>3, <2>2, <3>2
      <4>2. p \in Datagram
        BY <4>1, AtViewer DEF ViewerType
      <4>3. p.kind = "video" /\ PastAt(u, Key(p), p.seq)
        BY <1>1, <4>1 DEF Passed
      <4> QED
        BY <1>8, <1>10, <4>2, <4>3
    <3> QED
      BY <3>1, <3>2
  <2>3. ASSUME NEW p \in BagToSet(net'), p.from = u
        PROVE  PastAt(u, Key(p), p.seq)'
    <3>1. CASE p \in C
      BY <2>3, <3>1
    <3>2. CASE p \in BagToSet(net)
      <4>1. p \in Datagram /\ PastAt(u, Key(p), p.seq)
        BY <1>1, <2>3, <3>2 DEF Passed
      <4> QED
        BY <1>8, <1>10, <4>1
    <3> QED
      BY <1>2, <2>3, <3>1, <3>2
  <2> QED
    BY <2>1, <2>2, <2>3
<1>12. Passed'
  BY <1>11 DEF Passed
<1>13. Pending'
  <2>1. ASSUME NEW u \in Viewers, NEW q \in viewer'[u].forward, NEW p \in BagToSet(net'),
               p.from = u
        PROVE  Key(p) # Key(q) \/ p.seq # q.seq
    <3>1. CASE u = v
      BY <1>2, <1>3, <2>1, <3>1
    <3>2. CASE u # v
      <4>1. q \in viewer[u].forward /\ p \in BagToSet(net)
        BY <1>2, <1>3, <2>1, <3>2
      <4> QED
        BY <1>1, <2>1, <4>1 DEF Pending
    <3> QED
      BY <3>1, <3>2
  <2> QED
    BY <2>1 DEF Pending
<1>14. Single'
  <2>1. \A u \in Viewers : /\ heard'[u] = SetToBag(BagToSet(heard'[u]))
                           /\ BagToSet(heard'[u]) \subseteq (Nat \X Kind) \X Nat
    <3>1. ASSUME NEW u \in Viewers
          PROVE  /\ heard'[u] = SetToBag(BagToSet(heard'[u]))
                 /\ BagToSet(heard'[u]) \subseteq (Nat \X Kind) \X Nat
      <4>1. CASE u = v
        BY <1>1, <1>5, <4>1 DEF Single
      <4>2. CASE u # v
        <5>1. heard[u] = SetToBag(BagToSet(heard[u]))
              /\ BagToSet(heard[u]) \subseteq (Nat \X Kind) \X Nat
          BY <1>1 DEF Single
        <5> QED
          BY <1>5, <4>2, <5>1
      <4> QED
        BY <4>1, <4>2
    <3> QED
      BY <3>1
  <2> QED
    BY <1>2, <1>5, <2>1 DEF Single
<1>15. \A u \in Viewers : Grouped(viewer'[u])
  BY <1>3 DEF OnceIInv
<1> QED
  BY <1>6, <1>7, <1>12, <1>13, <1>14, <1>15 DEF OnceIInv

\* What a datagram does that is accepted: it was new, it is not accepted again, and nothing
\* that was past comes back.
LEMMA OnceAccepted ==
    ASSUME ScreenIInv, OnceIInv, NEW v \in Viewers, NEW p \in BagToSet(net),
           Accepts(viewer[v], p), NEW r \in ViewerType, viewer' = [viewer EXCEPT ![v] = r],
           UNCHANGED <<session, local>>, Ordered(r), r.state = viewer[v].state,
           Moved(viewer[v], r, p),
           \A i \in DOMAIN r.windows :
                \/ r.windows[i].key = Key(p)
                \/ \E j \in DOMAIN viewer[v].windows : r.windows[i].key = viewer[v].windows[j].key
    PROVE  /\ Grouped(r) /\ \A i \in DOMAIN r.windows : IsStream(r.windows[i].key)
           /\ ~PastAt(v, Key(p), p.seq) /\ PastAt(v, Key(p), p.seq)'
           /\ \A key, seq : seq \in Nat /\ PastAt(v, key, seq) => PastAt(v, key, seq)'
<1> DEFINE w == viewer[v]
           revision == local["screen"].revision
<1>1. /\ w \in ViewerType /\ Ordered(w) /\ p \in Datagram /\ revision \in Nat
      /\ viewer \in [Viewers -> ViewerType]
  BY AtViewer DEF ScreenIInv, ScreenTypeOK, WindowsOf, StateType
<1>2. /\ IsStream(Key(p)) /\ Grouped(w)
      /\ \A i \in DOMAIN w.windows : IsStream(w.windows[i].key)
  BY DEF OnceIInv, Streams
<1>3. p.stream <= revision
  BY <1>2 DEF IsStream, Key
<1>4. /\ p.kind = "voice" \/ w.state["screen"] = p.stream
      /\ MayAccept(WindowOf(w, Key(p)), p.seq)
  BY DEF Accepts
<1>5. ~Known(w, Key(p)) /\ Len(w.windows) >= MaxStreams =>
            w.windows[1].key[1] # 0 /\ Over(w.windows[1].key[1], Chain(v))
  BY ForgottenIsOver
<1>6. viewer'[v] = r /\ Chain(v)' = Chain(v) /\ local' = local
  BY <1>1 DEF Chain, ChainTo
<1>7. Grouped(r)
  <2> HIDE DEF w
  <2> QED
    BY <1>1, <1>2, <1>4, RememberedGrouped DEF w
<1>8. \A i \in DOMAIN r.windows : IsStream(r.windows[i].key)
  BY <1>2
<1>9. /\ Past(r, Chain(v), revision, Key(p), p.seq)
      /\ \A key, seq : seq \in Nat /\ Past(w, Chain(v), revision, key, seq) =>
                Past(r, Chain(v), revision, key, seq)
  <2>1. Moved(w, r, p)
    OBVIOUS
  <2> HIDE DEF w, revision
  <2> QED
    BY <1>1, <1>3, <1>4, <1>5, <2>1, RememberedPast
<1>10. \A key, seq : PastAt(v, key, seq)' <=> Past(r, Chain(v), revision, key, seq)
  BY <1>6 DEF PastAt
<1>11. PastAt(v, Key(p), p.seq)'
  BY <1>6, <1>9 DEF PastAt
<1>12. ~PastAt(v, Key(p), p.seq)
  BY <1>1, AcceptedIsNew
<1> QED
  BY <1>7, <1>8, <1>9, <1>10, <1>11, <1>12 DEF PastAt

\* The copies a viewer sends of a datagram.
LEMMA CopyFacts ==
    ASSUME NEW v \in Viewers, NEW packets \in SUBSET Datagram, NEW listeners
    PROVE  \E C : /\ Copies(v, packets, listeners) = SetToBag(C)
                  /\ \A q \in C : q.from = v /\ \E p \in packets :
                        Key(q) = Key(p) /\ q.seq = p.seq /\ q.kind = p.kind
<1> DEFINE copy(p, u) == [p EXCEPT !.from = v, !.to = u]
           C == {copy(p, u) : p \in packets, u \in listeners}
<1>1. ASSUME NEW p \in packets, NEW u \in listeners
      PROVE  /\ copy(p, u).from = v /\ Key(copy(p, u)) = Key(p) /\ copy(p, u).seq = p.seq
             /\ copy(p, u).kind = p.kind
  <2>1. p \in Datagram
    OBVIOUS
  <2> QED
    BY <2>1 DEF Datagram, Key
<1> HIDE DEF copy
<1>2. \A q \in C : q.from = v /\ \E p \in packets :
            Key(q) = Key(p) /\ q.seq = p.seq /\ q.kind = p.kind
  BY <1>1
<1>3. Copies(v, packets, listeners) = SetToBag(C)
  BY DEF Copies, copy
<1> HIDE DEF C
<1> QED
  BY <1>2, <1>3

LEMMA OnceAudio ==
    ASSUME ScreenIInv, ScreenIInv', StaysOver, OnceIInv, NEW v \in Viewers,
           NEW p \in BagToSet(net), ReceiveDatagram(v, p), ReceiveAudio(v, p)
    PROVE  OnceIInv'
<1> DEFINE w == viewer[v]
           m == Remember(w, p)
           r == [m EXCEPT !.burst = m.burst \/ p.kind = "audio"]
<1>1. /\ w \in ViewerType /\ Ordered(w) /\ w.video.stream \in {0, w.state["screen"]}
      /\ p \in Datagram /\ Accepts(w, p) /\ p.kind # "video"
      /\ p.kind = "voice" \/ w.state["screen"] = p.stream
  BY AtViewer DEF ScreenIInv, ScreenTypeOK, WindowsOf, BudgetOf, ReceiveDatagram, ReceiveAudio, Accepts
<1>2. /\ viewer' = [viewer EXCEPT ![v] = r]
      /\ heard' = [heard EXCEPT ![v] = @ (+) SetToBag({<<Key(p), p.seq>>})]
      /\ UNCHANGED <<setting, local, sequence, session>>
  <2>1. viewer' = [viewer EXCEPT ![v] = r]
    BY Zenon DEF ReceiveAudio
  <2> QED
    BY <2>1 DEF ReceiveAudio, ReceiveDatagram
<1> HIDE DEF w
<1>3. /\ m \in ViewerType /\ Ordered(m) /\ m.state = w.state /\ m.forward = w.forward
      /\ \A i \in DOMAIN m.windows :
            \/ m.windows[i].key = Key(p)
            \/ \E j \in DOMAIN w.windows : m.windows[i].key = w.windows[j].key
      /\ Moved(w, m, p)
  BY <1>1, RememberFacts
<1> HIDE DEF m
<1>4. /\ r \in ViewerType /\ r.state = m.state /\ r.windows = m.windows /\ r.video = m.video
      /\ r.forward = m.forward
  BY <1>3 DEF ViewerType
<1> HIDE DEF r
<1>5. Ordered(r) /\ Moved(w, r, p)
  BY <1>3, <1>4 DEF Ordered, Moved
<1>6. /\ Grouped(r) /\ \A i \in DOMAIN r.windows : IsStream(r.windows[i].key)
      /\ ~PastAt(v, Key(p), p.seq) /\ PastAt(v, Key(p), p.seq)'
      /\ \A key, seq : seq \in Nat /\ PastAt(v, key, seq) => PastAt(v, key, seq)'
  <2>1. /\ Accepts(viewer[v], p) /\ Moved(viewer[v], r, p) /\ r.state = viewer[v].state
        /\ \A i \in DOMAIN r.windows :
            \/ r.windows[i].key = Key(p)
            \/ \E j \in DOMAIN viewer[v].windows : r.windows[i].key = viewer[v].windows[j].key
    BY <1>1, <1>3, <1>4, <1>5 DEF w
  <2> QED
    BY <1>2, <1>4, <1>5, <2>1, OnceAccepted
<1>7. PICK C : /\ net' = net (+) SetToBag(C)
               /\ \A q \in C : /\ q.from = v /\ Key(q) = Key(p) /\ q.seq = p.seq
                              /\ q.kind = p.kind
  <2>1. PICK listeners \in Listeners(v) :
            net' = IF p.from = Sharer THEN net (+) Copies(v, {p}, listeners) ELSE net
    BY DEF ReceiveAudio
  <2>2. CASE p.from = Sharer
    <3>1. {p} \in SUBSET Datagram
      BY <1>1
    <3>2. PICK C : /\ Copies(v, {p}, listeners) = SetToBag(C)
                   /\ \A q \in C : q.from = v /\ \E o \in {p} :
                        Key(q) = Key(o) /\ q.seq = o.seq /\ q.kind = o.kind
      BY <3>1, CopyFacts
    <3> QED
      BY <2>1, <2>2, <3>2
  <2>3. CASE p.from # Sharer
    <3>1. net' = net (+) SetToBag({})
      BY <2>1, <2>3, BagSame DEF OnceIInv, Single
    <3> QED
      BY <3>1
  <2> QED
    BY <2>2, <2>3
<1>8. C \cap BagToSet(net) = {}
  <2>1. ASSUME NEW q \in C, q \in BagToSet(net)
        PROVE  FALSE
    <3>1. PastAt(v, Key(q), q.seq)
      BY <1>7, <2>1 DEF OnceIInv, Passed
    <3> QED
      BY <1>6, <1>7, <3>1
  <2> QED
    BY <2>1
<1>9. \A q \in C : q.from = v /\ IsStream(Key(q)) /\ PastAt(v, Key(q), q.seq)'
  <2>1. IsStream(Key(p))
    BY DEF OnceIInv, Streams
  <2>2. ASSUME NEW q \in C
        PROVE  PastAt(v, Key(q), q.seq)'
    <3>1. Key(q) = Key(p) /\ q.seq = p.seq
      BY <1>7
    <3> QED
      BY <1>6, <3>1
  <2> QED
    BY <1>7, <2>1, <2>2
<1> DEFINE H == {<<Key(p), p.seq>>}
<1>10. /\ H \subseteq (Nat \X Kind) \X Nat /\ H \cap BagToSet(heard[v]) = {}
       /\ \A id \in H : PastAt(v, id[1], id[2])'
  <2> DEFINE id == <<Key(p), p.seq>>
  <2>1. id \in (Nat \X Kind) \X Nat /\ id[1] = Key(p) /\ id[2] = p.seq
    BY <1>1 DEF Key, Datagram
  <2>2. id \notin BagToSet(heard[v])
    <3>1. ~PastAt(v, id[1], id[2])
      BY <1>6, <2>1
    <3> QED
      BY <3>1 DEF OnceIInv, Passed
  <2>3. PastAt(v, id[1], id[2])'
    BY <1>6, <2>1
  <2> QED
    BY <2>1, <2>2, <2>3
<1>11. /\ w.forward \subseteq Datagram
       /\ \A q \in w.forward :
            q.kind = "video" /\ IsStream(Key(q)) /\ PastAt(v, Key(q), q.seq)
  BY <1>1 DEF OnceIInv, Passed, Streams, ViewerType, w
<1>12. \A q \in r.forward :
            q.kind = "video" /\ IsStream(Key(q)) /\ PastAt(v, Key(q), q.seq)'
  <2>1. \A q \in Datagram : q.seq \in Nat
    BY DEF Datagram
  <2> QED
    BY <1>3, <1>4, <1>6, <1>11, <2>1
<1>13. \A q \in r.forward : \A o \in BagToSet(net) \cup C :
            o.from = v => Key(o) # Key(q) \/ o.seq # q.seq
  <2>1. \A q \in r.forward : q \in w.forward /\ Key(q)[2] = "video"
    BY <1>3, <1>4, <1>12 DEF Key
  <2>2. \A o \in C : Key(o)[2] # "video"
    BY <1>1, <1>7 DEF Key
  <2>3. \A q \in w.forward : \A o \in BagToSet(net) :
            o.from = v => Key(o) # Key(q) \/ o.seq # q.seq
    BY DEF OnceIInv, Pending, w
  <2> QED
    BY <2>1, <2>2, <2>3
<1>14. heard' = [heard EXCEPT ![v] = @ (+) SetToBag(H)]
  BY <1>2
<1> HIDE DEF H
<1>15. Hears(v, r, H, C)
  BY <1>2, <1>6, <1>7, <1>8, <1>9, <1>10, <1>12, <1>13, <1>14 DEF Hears
<1> QED
  BY <1>15, OnceHeard

\* Nothing is heard, nothing is passed on.
LEMMA NothingAdded ==
    ASSUME OnceIInv, NEW v \in Viewers
    PROVE  /\ net = net (+) SetToBag({})
           /\ heard = [heard EXCEPT ![v] = @ (+) SetToBag({})]
<1>1. /\ net = SetToBag(BagToSet(net))
      /\ heard = [u \in Viewers |-> SetToBag(BagToSet(heard[u]))]
      /\ heard[v] = SetToBag(BagToSet(heard[v]))
  BY DEF OnceIInv, Single
<1>2. net = net (+) SetToBag({}) /\ heard[v] = heard[v] (+) SetToBag({})
  BY <1>1, BagSame
<1> QED
  BY <1>1, <1>2

LEMMA OnceVideo ==
    ASSUME ScreenIInv, ScreenIInv', StaysOver, OnceIInv, NEW v \in Viewers,
           NEW p \in BagToSet(net), ReceiveDatagram(v, p), ReceiveVideo(v, p)
    PROVE  OnceIInv'
<1> DEFINE w == viewer[v]
           m == Remember(w, p)
           s == WithStream(m, p.stream)
           a == AcceptFragment(s, p)
           forward == IF p.from = Sharer THEN a.forward \cup {p} ELSE a.forward
           r == [a EXCEPT !.burst = TRUE, !.forward = forward]
<1>1. /\ w \in ViewerType /\ BudgetOf(w) /\ Ordered(w) /\ w.video.stream \in {0, w.state["screen"]}
      /\ p \in Datagram /\ Accepts(w, p) /\ p.kind = "video" /\ w.state["screen"] = p.stream
      /\ p.stream \in Nat /\ p.stream # 0
  <2>1. p \in Datagram /\ p.kind = "video"
    BY DEF ScreenIInv, ScreenTypeOK, ReceiveVideo
  <2> QED
    BY <2>1, AtViewer DEF WindowsOf, BudgetOf, ReceiveDatagram, Accepts, Datagram
<1>2. /\ viewer' = [viewer EXCEPT ![v] = r] /\ heard' = heard /\ net' = net
      /\ UNCHANGED <<setting, local, sequence, session>>
  BY DEF ReceiveVideo, ReceiveDatagram, ScreenIInv, ScreenTypeOK
<1> HIDE DEF w
<1>3. /\ m \in ViewerType /\ Ordered(m) /\ m.state = w.state /\ m.forward = w.forward
      /\ m.video = w.video /\ m.retained = w.retained
      /\ \A i \in DOMAIN m.windows :
            \/ m.windows[i].key = Key(p)
            \/ \E j \in DOMAIN w.windows : m.windows[i].key = w.windows[j].key
      /\ \E i \in DOMAIN m.windows : m.windows[i].key = Key(p)
      /\ Moved(w, m, p)
  BY <1>1, RememberFacts
<1> HIDE DEF m
<1>4. /\ Exact(m) /\ m.video.stream \in {0, p.stream}
      /\ m.video.stream = 0 => m.video = NoVideo
  BY <1>1, <1>3 DEF BudgetOf, Exact
<1>5. /\ s \in ViewerType /\ Exact(s) /\ s.video.stream = p.stream
      /\ s.state = m.state /\ s.windows = m.windows /\ s.forward = m.forward
  BY <1>1, <1>3, <1>4, WithStreamFacts
<1> HIDE DEF s
<1>6. /\ a \in ViewerType /\ a.state = s.state /\ a.windows = s.windows /\ a.forward = s.forward
      /\ a.video.stream = p.stream
  <2>1. s.video.stream \in {0, p.stream} /\ (s.video.stream = 0 => s.video = NoVideo)
    BY <1>1, <1>5
  <2> QED
    BY <1>1, <1>5, <2>1, AcceptFragmentFacts
<1> HIDE DEF a
<1>7. /\ r \in ViewerType /\ r.state = w.state /\ r.windows = m.windows
      /\ r.forward = forward /\ r.video.stream = p.stream
  <2>1. forward \in SUBSET Datagram
    BY <1>1, <1>6 DEF ViewerType
  <2> HIDE DEF forward
  <2> QED
    BY <1>3, <1>5, <1>6, <2>1 DEF ViewerType
<1>8. forward \subseteq w.forward \cup {p}
  BY <1>3, <1>5, <1>6
<1> HIDE DEF r, forward
<1>9. Ordered(r) /\ Moved(w, r, p)
  <2>1. \E i \in DOMAIN r.windows : r.windows[i].key = <<r.state["screen"], "video">>
    BY <1>1, <1>3, <1>7 DEF Key
  <2> QED
    BY <1>3, <1>7, <2>1 DEF Ordered, Moved
<1>10. /\ Grouped(r) /\ \A i \in DOMAIN r.windows : IsStream(r.windows[i].key)
       /\ ~PastAt(v, Key(p), p.seq) /\ PastAt(v, Key(p), p.seq)'
       /\ \A key, seq : seq \in Nat /\ PastAt(v, key, seq) => PastAt(v, key, seq)'
  <2>1. /\ Accepts(viewer[v], p) /\ Moved(viewer[v], r, p) /\ r.state = viewer[v].state
        /\ \A i \in DOMAIN r.windows :
            \/ r.windows[i].key = Key(p)
            \/ \E j \in DOMAIN viewer[v].windows : r.windows[i].key = viewer[v].windows[j].key
    BY <1>1, <1>3, <1>7, <1>9 DEF w
  <2> QED
    BY <1>2, <1>7, <1>9, <2>1, OnceAccepted
<1>11. /\ w.forward \subseteq Datagram
       /\ \A q \in w.forward :
            q.kind = "video" /\ IsStream(Key(q)) /\ PastAt(v, Key(q), q.seq)
       /\ IsStream(Key(p))
  BY <1>1 DEF OnceIInv, Passed, Streams, ViewerType, w
<1>12. \A q \in r.forward :
            q.kind = "video" /\ IsStream(Key(q)) /\ PastAt(v, Key(q), q.seq)'
  <2>1. \A q \in Datagram : q.seq \in Nat
    BY DEF Datagram
  <2>2. ASSUME NEW q \in w.forward
        PROVE  q.kind = "video" /\ IsStream(Key(q)) /\ PastAt(v, Key(q), q.seq)'
    BY <1>10, <1>11, <2>1
  <2>3. p.kind = "video" /\ IsStream(Key(p)) /\ PastAt(v, Key(p), p.seq)'
    BY <1>1, <1>10, <1>11
  <2> QED
    BY <1>7, <1>8, <2>2, <2>3
<1>13. \A q \in r.forward : \A o \in BagToSet(net) :
            o.from = v => Key(o) # Key(q) \/ o.seq # q.seq
  <2>1. \A q \in w.forward : \A o \in BagToSet(net) :
            o.from = v => Key(o) # Key(q) \/ o.seq # q.seq
    BY DEF OnceIInv, Pending, w
  <2>2. ASSUME NEW o \in BagToSet(net), o.from = v
        PROVE  Key(o) # Key(p) \/ o.seq # p.seq
    <3>1. PastAt(v, Key(o), o.seq)
      BY <2>2 DEF OnceIInv, Passed
    <3> QED
      BY <1>10, <3>1
  <2> QED
    BY <1>7, <1>8, <2>1, <2>2
<1>14. net' = net (+) SetToBag({}) /\ heard' = [heard EXCEPT ![v] = @ (+) SetToBag({})]
  BY <1>2, NothingAdded
<1>15. Hears(v, r, {}, {})
  BY <1>2, <1>10, <1>12, <1>13, <1>14 DEF Hears
<1> QED
  BY <1>15, OnceHeard

LEMMA OnceFlush ==
    ASSUME ScreenIInv, ScreenIInv', StaysOver, OnceIInv, NEW v \in Viewers, Flush(v)
    PROVE  OnceIInv'
<1> DEFINE w == viewer[v]
           r == [w EXCEPT !.burst = FALSE, !.forward = {}]
<1>1. w \in ViewerType /\ w.forward \in SUBSET Datagram
  BY AtViewer DEF ViewerType
<1>2. /\ viewer' = [viewer EXCEPT ![v] = r] /\ heard' = heard
      /\ UNCHANGED <<setting, local, sequence, session>>
  BY DEF Flush, ScreenIInv, ScreenTypeOK
<1>3. r.windows = w.windows /\ r.state = w.state /\ r.forward = {} /\ viewer'[v] = r
  BY <1>1, <1>2 DEF ViewerType, ScreenIInv, ScreenTypeOK
<1>4. PICK C : /\ net' = net (+) SetToBag(C)
               /\ \A q \in C : q.from = v /\ \E p \in w.forward :
                    Key(q) = Key(p) /\ q.seq = p.seq /\ q.kind = p.kind
  <2>1. PICK listeners \in Listeners(v) : net' = net (+) Copies(v, w.forward, listeners)
    BY DEF Flush
  <2> DEFINE packets == w.forward
  <2>2. packets \in SUBSET Datagram
    BY <1>1
  <2> HIDE DEF packets
  <2>3. PICK C : /\ Copies(v, packets, listeners) = SetToBag(C)
                 /\ \A q \in C : q.from = v /\ \E p \in packets :
                        Key(q) = Key(p) /\ q.seq = p.seq /\ q.kind = p.kind
    BY <2>2, CopyFacts
  <2> QED
    BY <2>1, <2>3 DEF packets
<1> HIDE DEF r
<1>5. \A key, seq : PastAt(v, key, seq)' <=> PastAt(v, key, seq)
  <2>1. Chain(v)' = Chain(v) /\ local' = local
    BY <1>2, <1>3 DEF Chain, ChainTo
  <2>2. ASSUME NEW key
        PROVE  WindowOf(viewer'[v], key) = WindowOf(viewer[v], key)
    <3>1. viewer'[v].windows = viewer[v].windows
      BY <1>3
    <3> QED
      BY <3>1 DEF WindowOf, Known, Place, Places
  <2> QED
    BY <2>1, <2>2 DEF PastAt, Past
<1>6. \A p \in w.forward : IsStream(Key(p)) /\ PastAt(v, Key(p), p.seq)
  BY DEF OnceIInv, Streams, Passed
<1>7. \A q \in C : q.from = v /\ IsStream(Key(q)) /\ PastAt(v, Key(q), q.seq)'
  BY <1>4, <1>5, <1>6
<1>8. C \cap BagToSet(net) = {}
  BY <1>4 DEF OnceIInv, Pending
<1>9. Grouped(r) /\ \A i \in DOMAIN r.windows : IsStream(r.windows[i].key)
  BY <1>3 DEF OnceIInv, Grouped, Streams
<1>10. heard' = [heard EXCEPT ![v] = @ (+) SetToBag({})]
  BY <1>2, NothingAdded
<1>11. \A key, seq : seq \in Nat /\ PastAt(v, key, seq) => PastAt(v, key, seq)'
  BY <1>5
<1>12. Hears(v, r, {}, C)
  BY <1>2, <1>3, <1>4, <1>7, <1>8, <1>9, <1>10, <1>11 DEF Hears
<1> QED
  BY <1>12, OnceHeard

\* A viewer takes up a state: a stream it has not known is a stream it has not heard.
LEMMA OnceHandled ==
    ASSUME ScreenIInv, ScreenIInv', StaysOver, OnceIInv, NEW v \in Viewers, NEW c \in State,
           NEW value \in Nat, viewer' = [viewer EXCEPT ![v] = HandleState(@, c, value)],
           UNCHANGED <<setting, local, sequence, net, heard>>
    PROVE  OnceIInv'
<1> DEFINE w == viewer[v]
           r == HandleState(w, c, value)
           stream == r.state["screen"]
           revision == local["screen"].revision
<1>1. /\ w \in ViewerType /\ BudgetOf(w) /\ WindowsOf(w, Chain(v), revision)
      /\ revision \in Nat
  BY AtViewer DEF StateType
<1>2. /\ viewer'[v] = r /\ \A u \in Viewers : u # v => viewer'[u] = viewer[u]
  BY DEF ScreenIInv, ScreenTypeOK
<1> HIDE DEF w
<1>3. r.windows = w.windows /\ r \in ViewerType
  BY <1>1, HandleStateFacts
<1>4. r.forward \subseteq w.forward
  BY <1>1 DEF HandleState, RemoveVideo, ViewerType
<1> HIDE DEF r
<1>5. Grouped(r)
  <2>1. CASE stream = w.state["screen"]
    <3>1. Grouped(w)
      BY DEF OnceIInv, w
    <3> QED
      BY <1>3, <2>1, <3>1 DEF Grouped
  <2>2. CASE stream # w.state["screen"]
    <3>1. SUFFICES ASSUME NEW i \in DOMAIN w.windows, stream # 0, w.windows[i].key[1] = stream
                   PROVE  FALSE
      BY <1>3 DEF Grouped
    <3>2. stream \in Nat
      BY <1>3 DEF ViewerType, State
    <3>3. stream \in 0 .. revision /\ Over(stream, Chain(v))
      BY <1>1, <2>2, <3>1, <3>2 DEF WindowsOf
    <3>4. Over(stream, Chain(v)')
      BY <3>3 DEF StaysOver, revision
    <3>5. 1 \in DOMAIN Chain(v)' /\ Chain(v)'[1] = stream
      <4>1. session'[v] \in SessionType /\ local'["screen"] \in StateType
        BY DEF ScreenIInv, ScreenTypeOK, State
      <4>2. Chain(v)' = ChainTo(r, session'[v], local'["screen"])
        BY <1>2 DEF Chain
      <4> QED
        BY <1>3, <4>1, <4>2, ChainFacts
    <3> QED
      BY <3>1, <3>2, <3>4, <3>5 DEF Over
  <2> QED
    BY <2>1, <2>2
<1>6. \A u \in Viewers : /\ viewer'[u].windows = viewer[u].windows
                         /\ viewer'[u].forward \subseteq viewer[u].forward
                         /\ Grouped(viewer'[u])
  <2>1. ASSUME NEW u \in Viewers
        PROVE  /\ viewer'[u].windows = viewer[u].windows
               /\ viewer'[u].forward \subseteq viewer[u].forward
               /\ Grouped(viewer'[u])
    <3>1. CASE u = v
      BY <1>2, <1>3, <1>4, <1>5, <3>1 DEF w
    <3>2. CASE u # v
      BY <1>2, <3>2 DEF OnceIInv
    <3> QED
      BY <3>1, <3>2
  <2> QED
    BY <2>1
<1> QED
  BY <1>6, OnceQuiet

\* Chunks expire and are taken, states are delivered and acknowledged.
LEMMA OnceQueues ==
    ASSUME ScreenIInv, ScreenIInv', StaysOver, OnceIInv, NEW v \in Viewers,
           \/ \E c \in State : DeliverState(v, c) \/ DeliverOldState(v, c) \/ AckState(v, c)
           \/ ChunkExpires(v) \/ ExpireScreenVideoChunks(v) \/ TakeChunk(v)
    PROVE  OnceIInv'
<1>1. viewer[v] \in ViewerType /\ session[v] \in SessionType
  BY AtViewer
<1>2. ASSUME NEW c \in State, DeliverState(v, c) \/ DeliverOldState(v, c)
      PROVE  OnceIInv'
  <2>1. /\ session[v].out[c] \in Seq(Nat) /\ session[v].old[c] \in Seq(Nat)
    BY <1>1 DEF SessionType
  <2>2. PICK value \in Nat : viewer' = [viewer EXCEPT ![v] = HandleState(@, c, value)]
    <3>1. CASE DeliverState(v, c)
      <4>1. session[v].out[c] # <<>>
        BY <3>1 DEF DeliverState
      <4>2. Head(session[v].out[c]) \in Nat
        BY <2>1, <4>1
      <4> QED
        BY <3>1, <4>2 DEF DeliverState
    <3>2. CASE DeliverOldState(v, c)
      <4>1. Head(session[v].old[c]) \in Nat
        BY <2>1, <3>2 DEF DeliverOldState
      <4> QED
        BY <3>2, <4>1 DEF DeliverOldState
    <3> QED
      BY <1>2, <3>1, <3>2
  <2>3. UNCHANGED <<setting, local, sequence, net, heard>>
    BY <1>2 DEF DeliverState, DeliverOldState
  <2> QED
    BY <2>2, <2>3, OnceHandled
<1>3. ASSUME NEW c \in State, AckState(v, c)
      PROVE  OnceIInv'
  <2>1. UNCHANGED <<setting, local, sequence, viewer, net, heard>>
    BY <1>3 DEF AckState
  <2>2. \A u \in Viewers : Grouped(viewer[u])
    BY DEF OnceIInv
  <2> QED
    BY <2>1, <2>2, OnceQuiet
<1>4. ASSUME ChunkExpires(v) \/ ExpireScreenVideoChunks(v) \/ TakeChunk(v)
      PROVE  OnceIInv'
  <2>1. UNCHANGED <<setting, local, sequence, net, heard>>
    BY <1>4 DEF ChunkExpires, ExpireScreenVideoChunks, TakeChunk
  <2>2. PICK r : /\ viewer' = [viewer EXCEPT ![v] = r] /\ r.state = viewer[v].state
                 /\ r.windows = viewer[v].windows /\ r.forward = viewer[v].forward
    <3> DEFINE w == viewer[v]
    <3>1. viewer \in [Viewers -> ViewerType] /\ w \in ViewerType
      BY <1>1 DEF ScreenIInv, ScreenTypeOK
    <3>2. CASE ChunkExpires(v)
      <4>1. PICK k : viewer' = [viewer EXCEPT ![v].video.expired = @ \cup {k}]
        BY <3>2 DEF ChunkExpires
      <4> DEFINE r == [w EXCEPT !.video.expired = @ \cup {k}]
      <4>2. viewer' = [viewer EXCEPT ![v] = r]
        BY <3>1, <4>1
      <4>3. r.state = w.state /\ r.windows = w.windows /\ r.forward = w.forward
        BY <3>1 DEF ViewerType
      <4> QED
        BY <4>2, <4>3
    <3>3. CASE ExpireScreenVideoChunks(v)
      <4> DEFINE r == RemoveChunks(w, w.video.expired)
      <4>1. viewer' = [viewer EXCEPT ![v] = r]
        BY <3>3 DEF ExpireScreenVideoChunks
      <4>2. r.state = w.state /\ r.windows = w.windows /\ r.forward = w.forward
        BY <3>1 DEF RemoveChunks, ViewerType
      <4> QED
        BY <4>1, <4>2
    <3>4. CASE TakeChunk(v)
      <4> DEFINE r == [w EXCEPT !.completed = Tail(@)]
      <4>1. viewer' = [viewer EXCEPT ![v] = r]
        BY <3>1, <3>4 DEF TakeChunk
      <4>2. r.state = w.state /\ r.windows = w.windows /\ r.forward = w.forward
        BY <3>1 DEF ViewerType
      <4> QED
        BY <4>1, <4>2
    <3> QED
      BY <1>4, <3>2, <3>3, <3>4
  <2>3. viewer'[v] = r /\ \A u \in Viewers : u # v => viewer'[u] = viewer[u]
    BY <2>2 DEF ScreenIInv, ScreenTypeOK
  <2>4. ASSUME NEW u \in Viewers
        PROVE  /\ viewer'[u].windows = viewer[u].windows
               /\ viewer'[u].forward \subseteq viewer[u].forward
               /\ Grouped(viewer'[u])
    <3>1. /\ viewer'[u].windows = viewer[u].windows /\ viewer'[u].state = viewer[u].state
          /\ viewer'[u].forward = viewer[u].forward
      BY <2>2, <2>3
    <3>2. Grouped(viewer[u])
      BY DEF OnceIInv
    <3> QED
      BY <3>1, <3>2 DEF Grouped
  <2> QED
    BY <2>1, <2>4, OnceQuiet
<1> QED
  BY <1>2, <1>3, <1>4

LEMMA OnceNext ==
    ASSUME ScreenIInv, ScreenIInv', StaysOver, OnceIInv, [ScreenNext]_screenVars
    PROVE  OnceIInv'
<1>1. setting.viewers \subseteq Viewers
  BY DEF ScreenIInv, ScreenTypeOK, RoomType
<1>2. CASE \/ \E value \in {0, 1} : SetLocalMemberState(value)
           \/ ApplyDesiredMemberState \/ ReliableTick
           \/ \E v \in setting.viewers : Rekey(v)
           \/ UNCHANGED screenVars
  BY <1>2, OnceStates
<1>3. CASE SendVoiceFrame
  BY <1>3, OnceVoice
<1>4. CASE \E active \in BOOLEAN : ScreenCommand(active)
  BY <1>4, OnceCommand
<1>5. CASE \E kind \in {"audio", "video"} : SendScreen(kind)
  BY <1>5, OnceSend
<1>6. ASSUME NEW v \in setting.viewers, Sync(v)
      PROVE  OnceIInv'
  BY <1>1, <1>6, OnceFlush, OnceQueues DEF Sync
<1>7. ASSUME NEW v \in setting.viewers, NEW p \in BagToSet(net), ReceiveDatagram(v, p)
      PROVE  OnceIInv'
  <2>1. ReceiveAudio(v, p) \/ ReceiveVideo(v, p)
    BY <1>7 DEF ReceiveDatagram
  <2> QED
    BY <1>1, <1>7, <2>1, OnceAudio, OnceVideo
<1>8. ASSUME NEW v \in setting.viewers,
             ChunkExpires(v) \/ ExpireScreenVideoChunks(v) \/ TakeChunk(v)
      PROVE  OnceIInv'
  BY <1>1, <1>8, OnceQueues
<1> QED
  BY <1>2, <1>3, <1>4, <1>5, <1>6, <1>7, <1>8 DEF ScreenNext

\* Every frame is heard once and nobody sends the same datagram to the same viewer twice,
\* however the network repeats and delays and the assignments overlap, as long as the table of
\* windows has room for the sharer's voice and every stream (handleRoomDatagram,
\* roomDatagramSender, flushScreenVideoForwards).
THEOREM FramesHeardOnce ==
    ASSUME VoiceHasRoom
    PROVE  ScreenSpec => []HeardOnce
<1>1. ScreenInit => OnceIInv
  BY OnceStarts
<1>2. ScreenIInv /\ ScreenIInv' /\ OnceIInv /\ [ScreenNext]_screenVars => OnceIInv'
  BY ScreenNextStep, OnceNext
<1>3. OnceIInv => HeardOnce
  <2> SUFFICES ASSUME OnceIInv
               PROVE  HeardOnce
    OBVIOUS
  <2>1. ASSUME NEW b, b = SetToBag(BagToSet(b)), NEW x \in BagToSet(b)
        PROVE  b[x] = 1
    <3>1. SetToBag(BagToSet(b))[x] = 1
      BY DEF SetToBag
    <3> QED
      BY <2>1, <3>1
  <2>2. /\ net = SetToBag(BagToSet(net))
        /\ heard = [v \in Viewers |-> SetToBag(BagToSet(heard[v]))]
    BY DEF OnceIInv, Single
  <2>3. ASSUME NEW v \in Viewers
        PROVE  heard[v] = SetToBag(BagToSet(heard[v]))
    BY <2>2
  <2> QED
    BY <2>1, <2>2, <2>3 DEF HeardOnce
<1> QED
  BY <1>1, <1>2, <1>3, ScreenInvariant, PTL DEF ScreenSpec
=============================================================================
