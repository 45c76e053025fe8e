------------------------ MODULE EndpointFanoutProofs ------------------------
(***************************************************************************)
(* What becomes of a frame on its way to the listeners.  At the endpoint,  *)
(* for all weights of the four lanes, all capacities and every pattern of  *)
(* writes: no lane of writeLoop waits for more than one turn of each of    *)
(* the others.  In the fanout, for every number of peers, every network    *)
(* and every bound: a plan reaches every direct neighbour and every        *)
(* listener behind one, each through one forwarder at most, and a plan in  *)
(* use is what its forwarders do.                                          *)
(***************************************************************************)
EXTENDS Endpoint, Fanout, SequenceFilterProofs, FiniteSetTheorems, SequenceTheorems, TLAPS

-----------------------------------------------------------------------------
(* The lanes of an endpoint: Endpoint *)

Lanes == {"voice", "control", "screen", "low"}

WriterState == [pc : {"check", "scan", "idle", "write", "drain", "done"}, lane : 1 .. 4,
                remaining : Nat \ {0}, checked : 0 .. 4, selected : Lanes, item : Int]

\* The variables the argument is about, with the types it needs.
Types ==
    /\ DOMAIN setting = {"writes", "batch", "packets", "probes", "leave", "breaks", "stop"}
    /\ setting.batch \in Nat
    /\ queue \in [Lanes -> Seq(Int)]
    /\ part \in [Realtime -> Int]
    /\ starved \in [Lanes -> Nat]
    /\ writer \in WriterState
    /\ DOMAIN probe = {"pc", "id", "pending", "result", "answered"}
    /\ probe.id \in Nat

\* A turn is no longer than the weight of its lane.
TurnsFit == writer.remaining <= Weight[Lane[writer.lane]]

\* The turns lane i takes on the way from lane c to lane p.
Passed(c, i, p) == IF (4 + i - c) % 4 \in 1 .. ((4 + p - c) % 4) - 1 THEN Weight[Lane[i]] ELSE 0

\* The turns that may still be taken before it is the turn of lane p.
Ahead(w, p) ==
    IF w.lane = p THEN 0
    ELSE w.remaining + Passed(w.lane, 1, p) + Passed(w.lane, 2, p) + Passed(w.lane, 3, p)
                     + Passed(w.lane, 4, p)

\* The turns taken and the turns to come are one round at most.
OneRound == \A p \in 1 .. 4 : starved[Lane[p]] > 0 =>
    starved[Lane[p]] + Ahead(writer, p) <= OtherTurns(Lane[p])

\* Lane p has been looked at in the present scan.
Scanned(w, p) == (4 + w.lane - p) % 4 \in 1 .. w.checked

\* A lane that is starved is waiting, so a scan that passes it takes from it.
StarvedWaits ==
    /\ \A l \in Lanes : starved[l] > 0 => Waiting(l) \/ writer.pc = "done"
    /\ writer.pc = "scan" => /\ writer.checked < 4
                             /\ \A p \in 1 .. 4 : Scanned(writer, p) => starved[Lane[p]] = 0
    /\ writer.pc = "idle" => \A l \in Lanes : starved[l] = 0
    /\ writer.pc = "write" => starved[writer.selected] = 0

IInv == Types /\ TurnsFit /\ OneRound /\ StarvedWaits

-----------------------------------------------------------------------------

\* The lanes by their places.
LEMMA LaneFacts ==
    /\ ToSet(Lane) = Lanes /\ Len(Lane) = 4 /\ DOMAIN Lane = 1 .. 4
    /\ Lane[1] = "voice" /\ Lane[2] = "control" /\ Lane[3] = "screen" /\ Lane[4] = "low"
    /\ \A p \in 1 .. 4 : Lane[p] \in Lanes
    /\ \A p, q \in 1 .. 4 : Lane[p] = Lane[q] => p = q
    /\ \A l \in Lanes : \E p \in 1 .. 4 : Lane[p] = l
<1>1. Len(Lane) = 4 /\ DOMAIN Lane = 1 .. 4
  BY DEF Lane
<1>2. Lane[1] = "voice" /\ Lane[2] = "control" /\ Lane[3] = "screen" /\ Lane[4] = "low"
  BY DEF Lane
<1>3. \A p \in 1 .. 4 : p = 1 \/ p = 2 \/ p = 3 \/ p = 4
  OBVIOUS
<1>4. /\ \A p \in 1 .. 4 : Lane[p] \in Lanes
      /\ \A p, q \in 1 .. 4 : Lane[p] = Lane[q] => p = q
  BY <1>2, <1>3 DEF Lanes
<1>5. \A l \in Lanes : \E p \in 1 .. 4 : Lane[p] = l
  BY <1>2 DEF Lanes
<1>6. ToSet(Lane) = Lanes
  BY <1>1, <1>4, <1>5 DEF ToSet
<1> QED
  BY <1>1, <1>2, <1>4, <1>5, <1>6

\* The weights are positive, and the others' turns are those of three lanes.
LEMMA WeightFacts ==
    /\ \A l \in Lanes : Weight[l] \in Nat \ {0} /\ OtherTurns(l) \in Nat
    /\ OtherTurns("voice") = Weight["control"] + Weight["screen"] + Weight["low"]
    /\ OtherTurns("control") = Weight["voice"] + Weight["screen"] + Weight["low"]
    /\ OtherTurns("screen") = Weight["voice"] + Weight["control"] + Weight["low"]
    /\ OtherTurns("low") = Weight["voice"] + Weight["control"] + Weight["screen"]
<1>1. \A l \in Lanes : Weight[l] \in Nat \ {0}
  BY EndpointAssumption, LaneFacts
<1> QED
  BY <1>1 DEF OtherTurns, Lanes

\* The turns that are ahead of p when the turn of lane c is still full: with them one
\* round is not exceeded, and passing to the next lane does not add to them.
LEMMA AheadFacts ==
    ASSUME NEW w \in WriterState, NEW p \in 1 .. 4
    PROVE  /\ Ahead(w, p) \in Nat
           /\ w.remaining <= Weight[Lane[w.lane]] => Ahead(w, p) <= OtherTurns(Lane[p])
           /\ w.lane # p => w.remaining <= Ahead(w, p)
           /\ w.lane # p => Ahead(Advanced(w), p) + w.remaining <= Ahead(w, p)
<1>1. p \in {1, 2, 3, 4} /\ w.lane \in {1, 2, 3, 4} /\ w.remaining \in Nat \ {0}
  BY DEF WriterState
<1>2. /\ Advanced(w).lane = (w.lane % 4) + 1
      /\ Advanced(w).remaining = Weight[Lane[(w.lane % 4) + 1]]
  BY LaneFacts DEF Advanced, WriterState
<1>3. \A k \in 1 .. 4 : Weight[Lane[k]] \in Nat \ {0}
  BY LaneFacts, WeightFacts
<1>4. CASE w.lane = 1
  BY <1>1, <1>2, <1>3, <1>4, LaneFacts, WeightFacts DEF Ahead, Passed
<1>5. CASE w.lane = 2
  BY <1>1, <1>2, <1>3, <1>5, LaneFacts, WeightFacts DEF Ahead, Passed
<1>6. CASE w.lane = 3
  BY <1>1, <1>2, <1>3, <1>6, LaneFacts, WeightFacts DEF Ahead, Passed
<1>7. CASE w.lane = 4
  BY <1>1, <1>2, <1>3, <1>7, LaneFacts, WeightFacts DEF Ahead, Passed
<1> QED
  BY <1>1, <1>4, <1>5, <1>6, <1>7

\* A turn that is used leaves one turn less, whether or not it was the last of its lane.
LEMMA UsedFacts ==
    ASSUME NEW w \in WriterState, w.remaining <= Weight[Lane[w.lane]]
    PROVE  /\ Advanced(w) \in WriterState /\ Used(w) \in WriterState
           /\ Advanced(w).lane = (w.lane % 4) + 1
           /\ Advanced(w).remaining <= Weight[Lane[Advanced(w).lane]]
           /\ Used(w).remaining <= Weight[Lane[Used(w).lane]]
           /\ Advanced(w).checked = w.checked /\ Advanced(w).pc = w.pc
           /\ \A p \in 1 .. 4 : w.lane # p => Ahead(Used(w), p) + 1 <= Ahead(w, p)
<1>1. /\ Advanced(w) = [w EXCEPT !.lane = (w.lane % 4) + 1,
                                 !.remaining = Weight[Lane[(w.lane % 4) + 1]]]
      /\ (w.lane % 4) + 1 \in 1 .. 4
      /\ Weight[Lane[(w.lane % 4) + 1]] \in Nat \ {0}
  BY LaneFacts, WeightFacts DEF Advanced, WriterState
<1>2. /\ Advanced(w) \in WriterState
      /\ Advanced(w).lane = (w.lane % 4) + 1
      /\ Advanced(w).remaining = Weight[Lane[Advanced(w).lane]]
      /\ Advanced(w).checked = w.checked /\ Advanced(w).pc = w.pc
  BY <1>1 DEF WriterState
<1>3. Weight[Lane[w.lane]] \in Nat /\ Weight[Lane[Advanced(w).lane]] \in Nat
  BY <1>2, LaneFacts, WeightFacts DEF WriterState
<1>4. CASE w.remaining = 1
  <2>1. Used(w) = Advanced(w)
    BY <1>4 DEF Used
  <2> QED
    BY <1>2, <1>3, <1>4, <2>1, AheadFacts
<1>5. CASE w.remaining # 1
  <2>1. Used(w) = [w EXCEPT !.remaining = w.remaining - 1]
    BY <1>5 DEF Used
  <2>2. /\ Used(w) \in WriterState /\ Used(w).lane = w.lane
        /\ Used(w).remaining = w.remaining - 1
    BY <1>5, <2>1 DEF WriterState
  <2>3. ASSUME NEW p \in 1 .. 4, w.lane # p
        PROVE  Ahead(Used(w), p) + 1 <= Ahead(w, p)
    <3>1. /\ Passed(w.lane, 1, p) \in Nat /\ Passed(w.lane, 2, p) \in Nat
          /\ Passed(w.lane, 3, p) \in Nat /\ Passed(w.lane, 4, p) \in Nat
      BY LaneFacts, WeightFacts DEF Passed
    <3> QED
      BY <2>2, <2>3, <3>1 DEF Ahead, WriterState
  <2> QED
    BY <1>2, <1>3, <2>2, <2>3 DEF WriterState
<1> QED
  BY <1>4, <1>5

\* The writer takes from lane l in its turn.
LEMMA TakeStep ==
    ASSUME Types, StarvedWaits,
           NEW w \in WriterState, w.remaining <= Weight[Lane[w.lane]], writer.pc # "done",
           \A p \in 1 .. 4 : starved[Lane[p]] > 0 =>
               starved[Lane[p]] + Ahead(w, p) <= OtherTurns(Lane[p]),
           Waiting(Lane[w.lane]), Take(Lane[w.lane], Used(w)), UNCHANGED <<setting, probe>>
    PROVE  IInv'
<1> DEFINE l == Lane[w.lane]
           rest == l \in Realtime /\ part[l] > 0
           u == Used(w)
<1>1. l \in Lanes /\ u \in WriterState /\ u.remaining <= Weight[Lane[u.lane]]
  BY UsedFacts, LaneFacts DEF WriterState
<1>2. /\ queue' \in [Lanes -> Seq(Int)] /\ part' \in [Realtime -> Int]
      /\ (IF rest THEN part[l] ELSE Head(queue[l])) \in Int
      /\ \A k \in Lanes : k # l => queue'[k] = queue[k]
      /\ \A k \in Realtime : k # l => part'[k] = part[k]
  <2>1. CASE rest
    BY <1>1, <2>1, Realtime \subseteq Lanes, SMTT(60) DEF Take, Types, Realtime, Lanes
  <2>2. CASE ~rest
    <3>1. queue[l] # <<>> /\ queue[l] \in Seq(Int)
      BY <1>1, <2>2 DEF Waiting, Types
    <3>2. Head(queue[l]) \in Int /\ Tail(queue[l]) \in Seq(Int)
      BY <3>1, HeadTailProperties
    <3> QED
      BY <1>1, <2>2, <3>2 DEF Take, Types
  <2> QED
    BY <2>1, <2>2
<1>3. /\ writer' = [u EXCEPT !.pc = "write", !.selected = l,
                             !.item = IF rest THEN part[l] ELSE Head(queue[l])]
  BY DEF Take
<1>4. /\ writer' \in WriterState /\ writer'.pc = "write" /\ writer'.selected = l
      /\ writer'.lane = u.lane /\ writer'.remaining = u.remaining
  BY <1>1, <1>2, <1>3 DEF WriterState
<1>5. /\ starved' \in [Lanes -> Nat]
      /\ starved'[l] = 0
      /\ \A k \in Lanes : starved'[k] > 0 =>
             k # l /\ Waiting(k) /\ starved'[k] = starved[k] + 1
  <2>1. starved' = [k \in Lanes |-> IF k = l \/ ~Waiting(k) THEN 0 ELSE starved[k] + 1]
    BY LaneFacts DEF Take
  <2>2. starved \in [Lanes -> Nat]
    BY DEF Types
  <2> QED
    BY <1>1, <2>1, <2>2
<1>6. Types'
  BY <1>2, <1>4, <1>5 DEF Types
<1>7. OneRound'
  <2> SUFFICES ASSUME NEW p \in 1 .. 4, starved'[Lane[p]] > 0
               PROVE  starved'[Lane[p]] + Ahead(writer', p) <= OtherTurns(Lane[p])
    BY DEF OneRound, OtherTurns, Lane, Ahead, Passed
  <2>1. /\ Lane[p] \in Lanes /\ Lane[p] # l /\ starved'[Lane[p]] = starved[Lane[p]] + 1
        /\ starved[Lane[p]] \in Nat
    BY <1>5, LaneFacts DEF Types
  <2>2. w.lane # p
    BY <2>1
  <2>3. Ahead(writer', p) = Ahead(u, p)
    BY <1>4 DEF Ahead
  <2>4. /\ Ahead(u, p) + 1 <= Ahead(w, p) /\ Ahead(u, p) \in Nat /\ Ahead(w, p) \in Nat
        /\ Ahead(w, p) <= OtherTurns(Lane[p]) /\ OtherTurns(Lane[p]) \in Nat
    BY <1>1, <2>1, <2>2, UsedFacts, AheadFacts, WeightFacts
  <2>5. CASE starved[Lane[p]] = 0
    BY <2>1, <2>3, <2>4, <2>5
  <2>6. CASE starved[Lane[p]] > 0
    BY <2>1, <2>3, <2>4, <2>6
  <2> QED
    BY <2>1, <2>5, <2>6
<1>8. StarvedWaits'
  <2>1. \A k \in Lanes : starved'[k] > 0 => Waiting(k)'
    BY <1>2, <1>5 DEF Waiting
  <2> QED
    BY <1>4, <1>5, <2>1 DEF StarvedWaits
<1>9. TurnsFit'
  BY <1>1, <1>4 DEF TurnsFit
<1> QED
  BY <1>6, <1>7, <1>8, <1>9 DEF IInv

\* A step that takes nothing and leaves the turn where it is.
LEMMA SameTurn ==
    ASSUME OneRound, UNCHANGED starved,
           writer'.lane = writer.lane, writer'.remaining = writer.remaining
    PROVE  OneRound'
<1>1. \A p \in 1 .. 4 : Ahead(writer', p) = Ahead(writer, p)
  BY DEF Ahead
<1> SUFFICES ASSUME NEW p \in 1 .. 4, starved[Lane[p]] > 0
             PROVE  starved[Lane[p]] + Ahead(writer', p) <= OtherTurns(Lane[p])
  BY DEF OneRound, OtherTurns, Lane, Ahead, Passed
<1> QED
  BY <1>1 DEF OneRound

\* A step that leaves the writer and its queues alone, or only adds to a queue.
LEMMA OutsideStep ==
    ASSUME IInv, Types', UNCHANGED <<part, writer, starved>>,
           \A l \in Lanes : queue[l] # <<>> => queue'[l] # <<>>
    PROVE  IInv'
<1>1. \A l \in Lanes : Waiting(l) => Waiting(l)'
  BY DEF Waiting
<1>2. StarvedWaits'
  BY <1>1 DEF IInv, StarvedWaits, Scanned
<1> QED
  BY <1>2, SameTurn DEF IInv, TurnsFit

\* Something is put at the end of a queue that had room or has lost its oldest entry.
LEMMA Appended ==
    ASSUME NEW s \in Seq(Int), NEW e \in Int
    PROVE  /\ Append(s, e) \in Seq(Int) /\ Append(s, e) # <<>>
           /\ s # <<>> => Append(Tail(s), e) \in Seq(Int) /\ Append(Tail(s), e) # <<>>
OBVIOUS

\* Nothing waits when the endpoint starts.
LEMMA InitIInv == Init => IInv
<1> SUFFICES ASSUME Init PROVE IInv
  OBVIOUS
<1>1. writer \in WriterState /\ writer.pc = "check" /\ TurnsFit
  BY LaneFacts, WeightFacts DEF Init, WriterState, TurnsFit, Lanes
<1>2. queue \in [Lanes -> Seq(Int)] /\ starved = [l \in Lanes |-> 0]
  BY LaneFacts, <<>> \in Seq(Int) DEF Init
<1>3. Types
  BY <1>1, <1>2, EndpointAssumption DEF Init, Types
<1>4. OneRound
  BY <1>2, LaneFacts DEF OneRound
<1>5. StarvedWaits
  BY <1>1, <1>2 DEF StarvedWaits, Lanes
<1> QED
  BY <1>1, <1>3, <1>4, <1>5 DEF IInv

\* The steps of writeLoop.
LEMMA WriterIInv == IInv /\ WriterStep => IInv'
<1> SUFFICES ASSUME IInv, WriterStep
             PROVE  IInv'
  OBVIOUS
<1> USE DEF IInv
<1>t. /\ writer \in WriterState /\ writer.lane \in 1 .. 4 /\ writer.checked \in 0 .. 4
      /\ writer.selected \in Lanes /\ writer.item \in Int
  BY DEF Types, WriterState
<1>1. CASE WriterChecks
  <2>1. /\ writer' \in WriterState /\ writer'.pc \in {"drain", "scan"} /\ writer'.checked = 0
        /\ writer'.lane = writer.lane /\ writer'.remaining = writer.remaining
    <3>1. \/ writer' = [writer EXCEPT !.pc = "drain", !.checked = 0]
          \/ writer' = [writer EXCEPT !.pc = "scan", !.checked = 0]
      BY <1>1 DEF WriterChecks
    <3>2. /\ writer'.pc \in {"drain", "scan"} /\ writer'.checked = 0
          /\ writer'.lane = writer.lane /\ writer'.remaining = writer.remaining
      BY <1>t, <3>1 DEF WriterState
    <3>3. 0 \in 0 .. 4
      OBVIOUS
    <3>4. writer' \in WriterState
      BY <1>t, <3>1, <3>3, Zenon DEF WriterState
    <3> QED
      BY <3>2, <3>4
  <2>2. Types' /\ UNCHANGED <<starved, queue, part>>
    BY <1>1, <2>1 DEF WriterChecks, Types
  <2>3. StarvedWaits'
    BY <1>1, <2>1, <2>2 DEF StarvedWaits, Scanned, Waiting, WriterChecks
  <2>4. OneRound'
    BY <2>1, <2>2, SameTurn
  <2> QED
    BY <2>1, <2>2, <2>3, <2>4 DEF TurnsFit
<1>2. CASE WriterScans
  <2>1. CASE Waiting(Lane[writer.lane])
    BY <1>2, <1>t, <2>1, TakeStep DEF WriterScans, TurnsFit, OneRound
  <2>2. CASE ~Waiting(Lane[writer.lane])
    <3>1. /\ writer' = [Advanced(writer) EXCEPT
                 !.checked = Advanced(writer).checked + 1,
                 !.pc = IF writer.checked + 1 = 4 THEN "idle" ELSE "scan"]
          /\ UNCHANGED <<queue, part, starved, setting, probe>> /\ writer.pc = "scan"
      BY <1>2, <2>2, LaneFacts DEF WriterScans
    <3>2. /\ Advanced(writer) \in WriterState
          /\ Advanced(writer).lane = (writer.lane % 4) + 1
          /\ Advanced(writer).remaining <= Weight[Lane[Advanced(writer).lane]]
          /\ Advanced(writer).checked = writer.checked /\ writer.checked < 4
      BY <1>t, <3>1, UsedFacts DEF TurnsFit, StarvedWaits
    <3>3. /\ writer' \in WriterState /\ writer'.checked = writer.checked + 1
          /\ writer'.lane = Advanced(writer).lane
          /\ writer'.remaining = Advanced(writer).remaining
          /\ writer'.pc = IF writer.checked + 1 = 4 THEN "idle" ELSE "scan"
      <4> DEFINE a == Advanced(writer)
                 pc == IF writer.checked + 1 = 4 THEN "idle" ELSE "scan"
      <4>1. /\ writer' = [a EXCEPT !.checked = a.checked + 1, !.pc = pc]
            /\ a \in WriterState /\ a.checked = writer.checked /\ writer.checked + 1 \in 0 .. 4
            /\ pc \in {"idle", "scan"}
        BY <1>t, <3>1, <3>2
      <4> HIDE DEF a, pc
      <4>2. /\ writer' \in WriterState /\ writer'.checked = writer.checked + 1
            /\ writer'.lane = a.lane /\ writer'.remaining = a.remaining /\ writer'.pc = pc
        BY <4>1 DEF WriterState
      <4> QED
        BY <4>2 DEF a, pc
    <3>4. starved[Lane[writer.lane]] = 0
      <4>1. Lane[writer.lane] \in Lanes /\ starved[Lane[writer.lane]] \in Nat
        BY <1>t, LaneFacts DEF Types
      <4>2. ~(starved[Lane[writer.lane]] > 0)
        BY <2>2, <3>1, <4>1 DEF StarvedWaits
      <4> QED
        BY <4>1, <4>2
    <3>5. Types' /\ TurnsFit'
      BY <3>1, <3>2, <3>3 DEF Types, TurnsFit
    <3>6. \A p \in 1 .. 4 : Scanned(writer', p) => p = writer.lane \/ Scanned(writer, p)
      BY <1>t, <3>2, <3>3 DEF Scanned
    <3>7. \A p \in 1 .. 4 : Scanned(writer', p) => starved[Lane[p]] = 0
      BY <3>1, <3>4, <3>6 DEF StarvedWaits
    <3>8. writer'.pc = "idle" => \A l \in Lanes : starved[l] = 0
      <4> SUFFICES ASSUME writer'.pc = "idle" PROVE \A p \in 1 .. 4 : starved[Lane[p]] = 0
        BY LaneFacts
      <4>1. writer.checked = 3
        BY <1>t, <3>3
      <4>2. \A p \in 1 .. 4 : p # writer.lane => Scanned(writer, p)
        BY <1>t, <4>1 DEF Scanned
      <4> QED
        BY <3>1, <3>4, <4>2 DEF StarvedWaits
    <3>9. StarvedWaits'
      <4>1. \A l \in Lanes : Waiting(l) => Waiting(l)'
        BY <3>1 DEF Waiting
      <4>2. \A l \in Lanes : starved'[l] > 0 => Waiting(l)'
        BY <3>1, <4>1 DEF StarvedWaits
      <4>3. /\ writer'.pc = "idle" \/ writer'.pc = "scan"
            /\ writer'.pc = "scan" => writer'.checked < 4
        BY <1>t, <3>2, <3>3
      <4>4. \A p \in 1 .. 4 : Scanned(writer', p) => starved'[Lane[p]] = 0
        BY <3>1, <3>7
      <4> QED
        BY <3>1, <3>8, <4>2, <4>3, <4>4 DEF StarvedWaits, Scanned
    <3>10. OneRound'
      <4> SUFFICES ASSUME NEW p \in 1 .. 4, starved[Lane[p]] > 0
                   PROVE  starved[Lane[p]] + Ahead(writer', p) <= OtherTurns(Lane[p])
        BY <3>1 DEF OneRound, OtherTurns, Lane, Ahead, Passed
      <4>1. p # writer.lane
        BY <3>4
      <4>2. Ahead(writer', p) = Ahead(Advanced(writer), p)
        BY <3>3 DEF Ahead
      <4>3. /\ Ahead(Advanced(writer), p) + writer.remaining <= Ahead(writer, p)
            /\ Ahead(Advanced(writer), p) \in Nat /\ Ahead(writer, p) \in Nat
            /\ writer.remaining \in Nat
        BY <1>t, <3>2, <4>1, AheadFacts DEF WriterState
      <4>4. starved[Lane[p]] \in Nat /\ OtherTurns(Lane[p]) \in Nat
        BY LaneFacts, WeightFacts DEF Types
      <4>5. starved[Lane[p]] + Ahead(writer, p) <= OtherTurns(Lane[p])
        BY DEF OneRound
      <4> QED
        BY <4>2, <4>3, <4>4, <4>5
    <3> QED
      BY <3>5, <3>9, <3>10
  <2> QED
    BY <2>1, <2>2
<1>3. CASE WriterIdle
  <2>1. CASE cancelled /\ writer' = [writer EXCEPT !.pc = "drain"] /\ UNCHANGED <<queue, part, starved>>
    <3>1. /\ writer' \in WriterState /\ writer'.pc = "drain"
          /\ writer'.lane = writer.lane /\ writer'.remaining = writer.remaining
      BY <1>t, <2>1 DEF WriterState
    <3>2. Types' /\ writer.pc = "idle"
      BY <1>3, <2>1, <3>1 DEF WriterIdle, Types
    <3>3. OneRound'
      BY <2>1, <3>1, SameTurn
    <3> QED
      BY <2>1, <3>1, <3>2, <3>3 DEF TurnsFit, StarvedWaits, Waiting
  <2>2. ASSUME NEW i \in DOMAIN Lane, queue[Lane[i]] # <<>>,
               Take(Lane[i], Used([writer EXCEPT !.lane = i, !.remaining = Weight[Lane[i]]])),
               UNCHANGED <<setting, probe>>, writer.pc = "idle"
        PROVE  IInv'
    <3> DEFINE w == [writer EXCEPT !.lane = i, !.remaining = Weight[Lane[i]]]
    <3>1. i \in 1 .. 4 /\ Weight[Lane[i]] \in Nat \ {0}
      BY LaneFacts, WeightFacts
    <3>2. w \in WriterState /\ w.lane = i /\ w.remaining = Weight[Lane[i]]
      BY <1>t, <3>1 DEF WriterState
    <3>3. \A p \in 1 .. 4 : ~(starved[Lane[p]] > 0)
      BY <2>2, LaneFacts DEF StarvedWaits
    <3>4. Waiting(Lane[w.lane]) /\ Take(Lane[w.lane], Used(w)) /\ w.remaining <= Weight[Lane[w.lane]]
      BY <2>2, <3>1, <3>2 DEF Waiting
    <3> HIDE DEF w
    <3> QED
      BY <2>2, <3>2, <3>3, <3>4, TakeStep
  <2> QED
    BY <1>3, <2>1, <2>2 DEF WriterIdle
<1>4. CASE WriterWrites
  <2>1. /\ writer' \in WriterState /\ writer'.pc \in {"drain", "check"}
        /\ writer'.lane = writer.lane /\ writer'.remaining = writer.remaining
    BY <1>4, <1>t DEF WriterWrites, WriteRealtime, WriteQueued, WriterState
  <2>2. /\ part' \in [Realtime -> Int]
        /\ \A k \in Realtime : k # writer.selected => part'[k] = part[k]
    BY <1>4, <1>t DEF WriterWrites, WriteRealtime, WriteQueued, Types
  <2>3. UNCHANGED <<queue, setting, starved>> /\ starved[writer.selected] = 0
    BY <1>4 DEF WriterWrites, StarvedWaits
  <2>4. Types'
    BY <1>4, <2>1, <2>2, <2>3 DEF Types, WriterWrites, WriteRealtime, WriteQueued, Report
  <2>5. \A k \in Lanes : starved'[k] > 0 => Waiting(k)'
    BY <1>4, <2>2, <2>3 DEF Waiting, StarvedWaits, WriterWrites
  <2>6. OneRound'
    BY <2>1, <2>3, SameTurn
  <2> QED
    BY <2>1, <2>4, <2>5, <2>6 DEF TurnsFit, StarvedWaits
<1>5. CASE WriterDrains
  <2>1. /\ writer' \in WriterState /\ writer'.pc = "done"
        /\ writer'.lane = writer.lane /\ writer'.remaining = writer.remaining
        /\ UNCHANGED <<setting, part, starved>>
    BY <1>5, <1>t DEF WriterDrains, WriterState
  <2>2. queue' \in [Lanes -> Seq(Int)]
    BY <1>5, <<>> \in Seq(Int) DEF WriterDrains, Types, Lanes
  <2>3. Types'
    BY <1>5, <2>1, <2>2 DEF WriterDrains, Types, Report
  <2>4. OneRound'
    BY <2>1, SameTurn
  <2> QED
    BY <2>1, <2>3, <2>4 DEF TurnsFit, StarvedWaits
<1> QED
  BY <1>1, <1>2, <1>3, <1>4, <1>5 DEF WriterStep

\* The steps of all others.
LEMMA OthersIInv == IInv /\ Next /\ ~WriterStep => IInv'
<1> SUFFICES ASSUME IInv, Next, ~WriterStep
             PROVE  IInv'
  OBVIOUS
<1>t. Types /\ probe.id \in Int /\ Realtime \subseteq Lanes
  BY DEF IInv, Types, Realtime, Lanes
<1>1. ASSUME NEW l \in ToSet(Lane), Enqueue(l)
      PROVE  IInv'
  <2> DEFINE item == IF l \in Realtime THEN setting.batch ELSE Plain
  <2>1. l \in Lanes /\ queue[l] \in Seq(Int) /\ item \in Int /\ QueueCapacity \in Nat \ {0}
    BY <1>t, LaneFacts, EndpointAssumption DEF Types, Plain
  <2>2. \/ queue' = [queue EXCEPT ![l] = Append(queue[l], item)]
        \/ queue[l] # <<>> /\ queue' = [queue EXCEPT ![l] = Append(Tail(queue[l]), item)]
        \/ queue' = queue
    <3>1. ~(Len(queue[l]) < QueueCapacity) => queue[l] # <<>>
      BY <2>1
    <3> HIDE DEF item
    <3> QED
      BY <1>1, <3>1 DEF Enqueue, item
  <2> HIDE DEF item
  <2>3. /\ queue' \in [Lanes -> Seq(Int)]
        /\ \A k \in Lanes : queue[k] # <<>> => queue'[k] # <<>>
    <3>1. queue \in [Lanes -> Seq(Int)]
      BY <1>t DEF Types
    <3>2. ASSUME NEW q \in Seq(Int), q # <<>>, queue' = [queue EXCEPT ![l] = q]
          PROVE  /\ queue' \in [Lanes -> Seq(Int)]
                 /\ \A k \in Lanes : queue[k] # <<>> => queue'[k] # <<>>
      BY <2>1, <3>1, <3>2
    <3> QED
      BY <2>1, <2>2, <3>1, <3>2, Appended
  <2>4. Types' /\ UNCHANGED <<part, writer, starved>>
    <3>1. /\ setting' = [setting EXCEPT !.writes = @ - 1]
          /\ UNCHANGED <<part, writer, starved, probe>>
      BY <1>1 DEF Enqueue
    <3> QED
      BY <1>t, <2>3, <3>1 DEF Types
  <2> QED
    BY <2>3, <2>4, OutsideStep
<1>2. ASSUME NEW e \in Int, queue' = [queue EXCEPT !["control"] = Append(@, e)]
      PROVE  /\ queue' \in [Lanes -> Seq(Int)]
             /\ \A k \in Lanes : queue[k] # <<>> => queue'[k] # <<>>
  <2>1. "control" \in Lanes /\ queue["control"] \in Seq(Int)
    BY <1>t DEF Types, Lanes
  <2> QED
    BY <1>t, <1>2, <2>1, Appended DEF Types
<1>3. CASE LeaveEnqueues
  <2>1. Leave \in Int /\ queue' = [queue EXCEPT !["control"] = Append(@, Leave)]
    BY <1>3 DEF LeaveEnqueues, Leave
  <2>2. Types' /\ UNCHANGED <<part, writer, starved>>
    BY <1>2, <1>3, <1>t, <2>1 DEF Types, LeaveEnqueues
  <2> QED
    BY <1>2, <2>1, <2>2, OutsideStep
<1>4. CASE ProbeEnqueues
  <2>1. queue' = [queue EXCEPT !["control"] = Append(@, probe.id)]
    BY <1>4 DEF ProbeEnqueues
  <2>2. Types' /\ UNCHANGED <<part, writer, starved>>
    BY <1>2, <1>4, <1>t, <2>1 DEF Types, ProbeEnqueues
  <2> QED
    BY <1>2, <1>t, <2>1, <2>2, OutsideStep
<1>5. CASE LeaveStarts \/ LeaveTimesOut \/ ReadFails \/ ClientTakes \/ Cancel \/ RunStops \/ RunReturns
  <2>1. Types' /\ UNCHANGED <<queue, part, writer, starved>>
    BY <1>5, <1>t DEF Types, LeaveStarts, LeaveTimesOut, ReadFails, ClientTakes, Cancel,
                      RunStops, RunReturns
  <2> QED
    BY <2>1, OutsideStep
<1>6. CASE Read \/ ReaderHandsOver
  <2>1. Types' /\ UNCHANGED <<queue, part, writer, starved>>
    <3>1. CASE Read
      <4>1. /\ setting' = [setting EXCEPT !.packets = @ - 1]
            /\ UNCHANGED <<queue, part, writer, starved, probe>>
        BY <3>1 DEF Read
      <4> QED
        BY <1>t, <4>1 DEF Types
    <3>2. CASE ReaderHandsOver
      <4>1. /\ probe' = probe \/ probe' = [probe EXCEPT !.answered = TRUE]
            /\ UNCHANGED <<queue, part, writer, starved, setting>>
        BY <3>2 DEF ReaderHandsOver
      <4> QED
        BY <1>t, <4>1 DEF Types
    <3> QED
      BY <1>6, <3>1, <3>2
  <2> QED
    BY <2>1, OutsideStep
<1>7. CASE ProbeStarts \/ ProbeGoesOn \/ ProbeEnds \/ DiscoveryEnds
  <2>1. Types' /\ UNCHANGED <<queue, part, writer, starved>>
    <3>1. CASE ProbeStarts
      <4>1. /\ setting' = [setting EXCEPT !.probes = @ - 1]
            /\ \/ probe' = probe
               \/ probe' = [pc |-> "enqueue", id |-> probe.id + 1, pending |-> TRUE,
                            result |-> "none", answered |-> FALSE]
            /\ UNCHANGED <<queue, part, writer, starved>>
        BY <3>1 DEF ProbeStarts
      <4> QED
        BY <1>t, <4>1 DEF Types
    <3>2. CASE ProbeGoesOn \/ ProbeEnds \/ DiscoveryEnds
      <4>1. /\ \/ probe' = [probe EXCEPT !.pc = "answer"]
               \/ probe' = [probe EXCEPT !.pc = "idle", !.pending = FALSE]
               \/ probe' = [probe EXCEPT !.pc = "done"]
            /\ UNCHANGED <<queue, part, writer, starved, setting>>
        BY <3>2 DEF ProbeGoesOn, ProbeEnds, DiscoveryEnds
      <4> QED
        BY <1>t, <4>1 DEF Types
    <3> QED
      BY <1>7, <3>1, <3>2
  <2> QED
    BY <2>1, OutsideStep
<1> QED
  BY <1>1, <1>3, <1>4, <1>5, <1>6, <1>7 DEF Next

\* Every step keeps the invariant.
LEMMA NextIInv == IInv /\ [Next]_vars => IInv'
<1> SUFFICES ASSUME IInv, [Next]_vars
             PROVE  IInv'
  OBVIOUS
<1>1. CASE UNCHANGED vars
  <2>1. Types' /\ UNCHANGED <<queue, part, writer, starved>>
    BY <1>1 DEF vars, IInv, Types
  <2> QED
    BY <2>1, OutsideStep
<1> QED
  BY <1>1, WriterIInv, OthersIInv

\* No lane of writeLoop waits for more than one turn of each of the others: what has
\* been taken from a waiting lane's round, and what the turn in force and the lanes in
\* between may still take, fit one round.
THEOREM LanesAreFair == Spec => []NoStarvation
<1>1. IInv => NoStarvation
  <2> SUFFICES ASSUME IInv, NEW l \in Lanes
               PROVE  starved[l] <= OtherTurns(l)
    BY LaneFacts DEF NoStarvation
  <2>1. PICK p \in 1 .. 4 : Lane[p] = l
    BY LaneFacts
  <2>2. starved[l] \in Nat /\ OtherTurns(l) \in Nat /\ Ahead(writer, p) \in Nat
    BY WeightFacts, AheadFacts DEF IInv, Types
  <2>3. starved[l] > 0 => starved[l] + Ahead(writer, p) <= OtherTurns(l)
    BY <2>1 DEF IInv, OneRound
  <2> QED
    BY <2>2, <2>3
<1> QED
  BY <1>1, InitIInv, NextIInv, PTL DEF Spec

-----------------------------------------------------------------------------

\* The channels are closed when Run returns, and by then readLoop has ended for good.
Closing ==
    /\ reader # "panic"
    /\ inbox.closed = TRUE => run = "returned"
    /\ run = "returned" => reader = "done"
    /\ DOMAIN inbox = {"packets", "closed"}

\* readLoop never sends on a channel that Run has closed.
NoPanic == reader # "panic"

\* Run closes the channels to the client and those of the probes only after readLoop
\* has ended, so that no packet and no STUN answer is sent on a closed channel.
THEOREM ChannelsCloseLast == Spec => []NoPanic
<1>1. Init => Closing
  BY DEF Init, Closing
<1>2. Closing /\ [Next]_vars => Closing'
  <2> SUFFICES ASSUME Closing, [Next]_vars
               PROVE  Closing'
    OBVIOUS
  <2>1. CASE Read \/ ReadFails
    BY <2>1 DEF Closing, Read, ReadFails
  <2>2. CASE ReaderHandsOver
    BY <2>2 DEF Closing, ReaderHandsOver
  <2>3. CASE ClientTakes
    BY <2>3 DEF Closing, ClientTakes
  <2>4. CASE RunStops \/ RunReturns
    BY <2>4 DEF Closing, RunStops, RunReturns, WorkersEnded
  <2>5. CASE UNCHANGED <<reader, run, inbox>>
    BY <2>5 DEF Closing
  <2>6. Next => Read \/ ReadFails \/ ReaderHandsOver \/ ClientTakes \/ RunStops \/ RunReturns
                \/ UNCHANGED <<reader, run, inbox>>
    BY DEF Next, Enqueue, LeaveStarts, LeaveEnqueues, LeaveTimesOut, WriterStep, WriterChecks,
           WriterScans, WriterIdle, WriterWrites, WriterDrains, ProbeStarts, ProbeEnqueues,
           ProbeGoesOn, ProbeEnds, DiscoveryEnds, Cancel
  <2> QED
    BY <2>1, <2>2, <2>3, <2>4, <2>5, <2>6 DEF vars
<1>3. Closing => NoPanic
  BY DEF Closing, NoPanic
<1> QED
  BY <1>1, <1>2, <1>3, PTL DEF Spec

-----------------------------------------------------------------------------
(* The plan of a speaker: Fanout *)

\* The variables the argument is about, with the types it needs.
FanoutTypes ==
    /\ lead \in [Peer -> {"same", "speaker", "peer"}]
    /\ inbound \in [Peer -> (SUBSET Peer) \cup {Nil}]
    /\ assigned \in [Peer -> Seq(SUBSET Peer)]
    /\ plan.destinations \subseteq Peer
    /\ plan.assignments \in [Peer -> SUBSET Peer]
    /\ dirty \in BOOLEAN

\* The plan's assignment is the last one queued for f.
Queued(f) ==
    /\ assigned[f] # <<>>
    /\ assigned[f][Len(assigned[f])] = plan.assignments[f]

\* The assignment of a destination is on its way or has arrived; after the speaker
\* has replaced the session it can only be on its way, as the new session has
\* delivered nothing yet.
OnItsWay ==
    ~dirty => \A f \in plan.destinations :
        /\ lead[f] = "same" => Queued(f) \/ (assigned[f] = <<>> /\ inbound[f] = plan.assignments[f] \ {f})
        /\ lead[f] = "speaker" => Queued(f)

FanoutIInv == FanoutTypes /\ OnItsWay

-----------------------------------------------------------------------------

\* What is left of a queue when its first message is taken.
LEMMA TailLast ==
    ASSUME NEW S, NEW s \in Seq(S), s # <<>>
    PROVE  /\ Head(s) \in S
           /\ Tail(s) \in Seq(S)
           /\ Len(s) = 1 => Tail(s) = <<>> /\ Head(s) = s[1]
           /\ Len(s) # 1 => Tail(s) # <<>> /\ Tail(s)[Len(Tail(s))] = s[Len(s)]
<1>1. /\ Head(s) \in S /\ Tail(s) \in Seq(S)
      /\ Len(Tail(s)) = Len(s) - 1
      /\ \A i \in 1 .. Len(Tail(s)) : Tail(s)[i] = s[i + 1]
  BY HeadTailProperties
<1>2. Len(s) \in Nat /\ Len(s) # 0
  BY EmptySeq, LenProperties
<1>3. ASSUME Len(s) = 1
      PROVE  Tail(s) = <<>> /\ Head(s) = s[1]
  <2>1. Len(Tail(s)) = 0
    BY <1>1, <1>3
  <2>2. Tail(s) = <<>>
    BY <1>1, <2>1, EmptySeq
  <2> QED
    BY <2>2
<1>4. ASSUME Len(s) # 1
      PROVE  Tail(s) # <<>> /\ Tail(s)[Len(Tail(s))] = s[Len(s)]
  <2>1. Len(Tail(s)) \in 1 .. Len(Tail(s)) /\ Len(Tail(s)) + 1 = Len(s)
    BY <1>1, <1>2, <1>4
  <2>2. Tail(s) # <<>>
    <3>1. Len(Tail(s)) # 0
      BY <1>1, <1>2, <1>4
    <3> QED
      BY <3>1, EmptySeq, Zenon
  <2> QED
    BY <1>1, <2>1, <2>2
<1> QED
  BY <1>1, <1>3, <1>4

\* A new client has no plan.
LEMMA FanoutStarts == FanoutInit => FanoutIInv
BY DEF FanoutInit, FanoutIInv, FanoutTypes, OnItsWay, NoPlan

\* A plan names direct neighbours and listeners.
LEMMA NewPlanType ==
    /\ NewPlan.destinations \subseteq Peer
    /\ NewPlan.assignments \in [Peer -> SUBSET Peer]
<1>1. ConstrainFanoutToActivePaths(BuildFanoutPlan) = NewPlan
  BY Zenon DEF NewPlan
<1>2. ConstrainFanoutToActivePaths(BuildFanoutPlan).destinations \subseteq Peer
  BY DEF ConstrainFanoutToActivePaths, Direct
<1>3. ConstrainFanoutToActivePaths(BuildFanoutPlan).assignments \in [Peer -> SUBSET Peer]
  BY DEF ConstrainFanoutToActivePaths, Listeners
<1> QED
  BY <1>1, <1>2, <1>3

\* Deploying a plan queues every destination its assignment.
LEMMA RefreshIInv == FanoutIInv /\ RefreshFanout => FanoutIInv'
<1> SUFFICES ASSUME FanoutIInv, RefreshFanout PROVE FanoutIInv'
  OBVIOUS
<1> DEFINE told == NewPlan.destinations \cup (plan.destinations \cap Direct)
<1>1. /\ plan' = NewPlan /\ dirty' = FALSE
      /\ lead' = lead /\ inbound' = inbound
      /\ assigned' = [p \in Peer |->
            IF p \in told THEN Append(assigned[p], NewPlan.assignments[p]) ELSE assigned[p]]
  BY DEF RefreshFanout
<1> HIDE DEF told
<1>2. FanoutTypes'
  <2>1. ASSUME NEW p \in Peer
        PROVE  assigned'[p] \in Seq(SUBSET Peer)
    BY <1>1, <2>1, NewPlanType, AppendProperties DEF FanoutIInv, FanoutTypes
  <2>2. assigned' \in [Peer -> Seq(SUBSET Peer)]
    BY <1>1, <2>1
  <2> QED
    BY <1>1, <2>2, NewPlanType DEF FanoutIInv, FanoutTypes
<1>3. ASSUME NEW f \in NewPlan.destinations
      PROVE  Queued(f)'
  <2>1. f \in Peer /\ f \in told
    BY <1>3, NewPlanType DEF told
  <2>2. /\ assigned[f] \in Seq(SUBSET Peer)
        /\ NewPlan.assignments[f] \in SUBSET Peer
        /\ assigned'[f] = Append(assigned[f], NewPlan.assignments[f])
    BY <1>1, <2>1, NewPlanType DEF FanoutIInv, FanoutTypes
  <2> QED
    BY <1>1, <2>2 DEF Queued
<1> QED
  BY <1>1, <1>2, <1>3 DEF FanoutIInv, OnItsWay

\* An assignment that arrives is applied, and the last one is the plan's.
LEMMA HandleAssignmentIInv ==
    ASSUME FanoutIInv, NEW p \in Peer, HandleFanoutAssignment(p)
    PROVE  FanoutIInv'
<1>1. /\ plan' = plan /\ dirty' = dirty /\ lead' = lead
      /\ assigned[p] # <<>> /\ assigned[p] \in Seq(SUBSET Peer)
      /\ lead[p] = "same"
      /\ inbound' = [inbound EXCEPT ![p] = Head(assigned[p]) \ {p}]
      /\ assigned' = [assigned EXCEPT ![p] = Tail(assigned[p])]
  BY DEF HandleFanoutAssignment, FanoutIInv, FanoutTypes, planning
<1>2. /\ Head(assigned[p]) \in SUBSET Peer
      /\ Tail(assigned[p]) \in Seq(SUBSET Peer)
      /\ Len(assigned[p]) \in Nat /\ Len(assigned[p]) > 0
  BY <1>1
<1>3. FanoutTypes'
  BY <1>1, <1>2 DEF FanoutIInv, FanoutTypes
<1>4. ASSUME NEW f \in plan.destinations, ~dirty
      PROVE  /\ lead[f] = "same" =>
                  Queued(f)' \/ (assigned'[f] = <<>> /\ inbound'[f] = plan.assignments[f] \ {f})
             /\ lead[f] = "speaker" => Queued(f)'
  <2>1. f \in Peer
    BY <1>4 DEF FanoutIInv, FanoutTypes
  <2>2. CASE f # p
    BY <1>1, <1>4, <2>1, <2>2 DEF FanoutIInv, FanoutTypes, OnItsWay, Queued
  <2>3. CASE f = p
    <3>1. assigned[p][Len(assigned[p])] = plan.assignments[p]
      BY <1>1, <1>4, <2>3 DEF FanoutIInv, OnItsWay, Queued
    <3>2. /\ assigned'[p] = Tail(assigned[p])
          /\ inbound'[p] = Head(assigned[p]) \ {p}
      BY <1>1 DEF FanoutIInv, FanoutTypes
    <3>3. CASE Len(assigned[p]) = 1
      <4>1. Tail(assigned[p]) = <<>>
        BY <1>1, <3>3, TailLast
      <4>2. Head(assigned[p]) = plan.assignments[p]
        BY <1>1, <3>1, <3>3, TailLast
      <4> QED
        BY <1>1, <2>3, <3>2, <4>1, <4>2
    <3>4. CASE Len(assigned[p]) # 1
      <4>1. /\ Tail(assigned[p]) # <<>>
            /\ Tail(assigned[p])[Len(Tail(assigned[p]))] = assigned[p][Len(assigned[p])]
        BY <1>1, <3>4, TailLast
      <4> QED
        BY <1>1, <2>3, <3>1, <3>2, <4>1 DEF Queued
    <3> QED
      BY <3>3, <3>4
  <2> QED
    BY <2>2, <2>3
<1> QED
  BY <1>1, <1>3, <1>4 DEF FanoutIInv, OnItsWay

\* Whatever changes the speaker's session with a peer makes the plan due.
LEMMA SpeakerIInv ==
    ASSUME FanoutIInv, NEW p \in Peer,
           SpeakerAuthenticates(p) \/ SpeakerFollows(p) \/ SpeakerReplaces(p)
                \/ LikeForLike(p) \/ SpeakerLoses(p)
    PROVE  FanoutIInv'
<1>1. /\ dirty' = TRUE /\ plan' = plan /\ inbound' = inbound
      /\ assigned' = assigned \/ assigned' = [assigned EXCEPT ![p] = <<>>]
      /\ \/ lead' = lead \/ lead' = [lead EXCEPT ![p] = "same"]
         \/ lead' = [lead EXCEPT ![p] = "speaker"]
  BY DEF SpeakerAuthenticates, SpeakerFollows, SpeakerReplaces, LikeForLike, SpeakerLoses,
         SetPath, planning, channels
<1>2. assigned' \in [Peer -> Seq(SUBSET Peer)]
  <2>1. <<>> \in Seq(SUBSET Peer) /\ assigned \in [Peer -> Seq(SUBSET Peer)]
    BY EmptySeq DEF FanoutIInv, FanoutTypes
  <2> QED
    BY <1>1, <2>1
<1>3. lead' \in [Peer -> {"same", "speaker", "peer"}]
  BY <1>1 DEF FanoutIInv, FanoutTypes
<1> QED
  BY <1>1, <1>2, <1>3 DEF FanoutIInv, FanoutTypes, OnItsWay

\* A peer that promotes a session forgets its assignment.  If the speaker was first,
\* the assignment is still queued; if not, the peer is ahead.
LEMMA PeerIInv ==
    ASSUME FanoutIInv, NEW p \in Peer, PeerFollows(p) \/ PeerReplaces(p)
    PROVE  FanoutIInv'
<1>1. /\ dirty' = dirty /\ plan' = plan /\ assigned' = assigned
      /\ inbound' = [inbound EXCEPT ![p] = Nil]
      /\ \/ lead[p] = "speaker" /\ lead' = [lead EXCEPT ![p] = "same"]
         \/ lead' = [lead EXCEPT ![p] = "peer"]
  BY DEF PeerFollows, PeerReplaces, PeerPromotes, planning
<1>2. FanoutTypes'
  BY <1>1 DEF FanoutIInv, FanoutTypes
<1>3. OnItsWay'
  BY <1>1 DEF FanoutIInv, FanoutTypes, OnItsWay, Queued
<1> QED
  BY <1>2, <1>3 DEF FanoutIInv

\* No other step touches the plan, the assignments or who has promoted what.
LEMMA FanoutOthersStay ==
    ASSUME FanoutIInv, dirty' \in BOOLEAN, dirty => dirty',
           UNCHANGED <<lead, inbound, assigned, plan>>
    PROVE  FanoutIInv'
BY DEF FanoutIInv, FanoutTypes, OnItsWay, Queued

\* Every step keeps the invariant.
LEMMA FanoutStays == FanoutIInv /\ [FanoutNext]_fanoutVars => FanoutIInv'
<1> SUFFICES ASSUME FanoutIInv, [FanoutNext]_fanoutVars PROVE FanoutIInv'
  OBVIOUS
<1>1. dirty \in BOOLEAN
  BY DEF FanoutIInv, FanoutTypes
<1>2. CASE RefreshFanout
  BY <1>2, RefreshIInv
<1>3. CASE ActivationDelayPasses \/ UNCHANGED fanoutVars
  <2>1. dirty' = dirty /\ UNCHANGED <<lead, inbound, assigned, plan>>
    BY <1>3 DEF ActivationDelayPasses, fanoutVars, channels
  <2> QED
    BY <1>1, <2>1, FanoutOthersStay
<1>4. CASE ExpireTopology
  <2>1. dirty' = TRUE /\ UNCHANGED <<lead, inbound, assigned, plan>>
    BY <1>4 DEF ExpireTopology, channels, planning
  <2> QED
    BY <2>1, FanoutOthersStay
<1>5. ASSUME NEW p \in Peer,
             HandleFanoutAssignment(p) \/ HandleTopologySnapshot(p) \/ QueueTopologySnapshots(p)
                \/ Handshakes(p)
      PROVE  FanoutIInv'
  <2>1. CASE HandleFanoutAssignment(p)
    BY <2>1, HandleAssignmentIInv
  <2>2. CASE SpeakerAuthenticates(p) \/ SpeakerFollows(p) \/ SpeakerLoses(p)
    BY <2>2, SpeakerIInv
  <2>3. CASE PeerFollows(p)
    BY <2>3, PeerIInv
  <2>4. CASE HandleTopologySnapshot(p)
    BY <1>1, <2>4, FanoutOthersStay DEF HandleTopologySnapshot, RecordTopologyClaims, planning
  <2>5. CASE QueueTopologySnapshots(p) \/ PeerAuthenticates(p) \/ PeerLoses(p)
    BY <1>1, <2>5, FanoutOthersStay DEF QueueTopologySnapshots, PeerAuthenticates, PeerLoses, channels, planning
  <2>6. CASE \E q \in Peer \ {p} : NeighborUp(p, q) \/ NeighborDown(p, q)
    BY <1>1, <2>6, FanoutOthersStay DEF NeighborUp, NeighborDown, channels, planning
  <2> QED
    BY <1>5, <2>1, <2>2, <2>3, <2>4, <2>5, <2>6 DEF Handshakes
<1>6. ASSUME NEW p \in Peer, SpeakerReplaces(p) \/ LikeForLike(p) \/ PeerReplaces(p)
      PROVE  FanoutIInv'
  BY <1>6, SpeakerIInv, PeerIInv
<1>7. CASE \E p \in Peer : \E q \in Peer : ClaimExpires(p, q)
  BY <1>1, <1>7, FanoutOthersStay DEF ClaimExpires, channels, planning
<1>8. CASE \E l \in kSubset(2, Node) : LinkChanges(l)
  BY <1>1, <1>8, FanoutOthersStay DEF LinkChanges, channels, planning
<1> QED
  BY <1>2, <1>3, <1>4, <1>5, <1>6, <1>7, <1>8 DEF FanoutNext

\* A plan in use is in force, in every room: each forwarder that shares a session
\* with the speaker forwards to the listeners the plan gives it (fanoutReady,
\* refreshFanout, handleReliableMessage).
THEOREM PlanInForce == FanoutSpec => []ReadyIsInForce
<1>1. FanoutIInv => ReadyIsInForce
  BY DEF FanoutIInv, OnItsWay, Queued, ReadyIsInForce, FanoutReady
<1> QED
  BY <1>1, FanoutStarts, FanoutStays, PTL DEF FanoutSpec

-----------------------------------------------------------------------------
(* What a plan covers: the greedy choice of buildFanoutPlan *)

\* A bounded set of numbers has a greatest one.
LEMMA GreatestBelow ==
    ASSUME NEW S \in SUBSET Nat, S # {}, NEW bound \in Nat, \A k \in S : k <= bound
    PROVE  \E m \in S : \A k \in S : k <= m
<1> DEFINE above == {u \in Nat : \A k \in S : k <= u}
<1>1. above \in SUBSET Nat /\ above # {}
  OBVIOUS
<1>2. \A u : u \in above <=> u \in Nat /\ \A k \in S : k <= u
  OBVIOUS
<1> HIDE DEF above
<1>3. PICK m \in above : \A u \in above : m <= u
  BY <1>1, Least
<1>4. m \in S
  <2> SUFFICES ASSUME m \notin S
               PROVE  FALSE
    OBVIOUS
  <2>1. PICK k \in S : TRUE
    OBVIOUS
  <2>2. m \in Nat /\ \A x \in S : x \in Nat /\ x < m
    BY <1>2
  <2>3. m - 1 \in Nat /\ \A x \in S : x <= m - 1
    BY <2>1, <2>2
  <2>4. m - 1 \in above
    BY <1>2, <2>3
  <2> QED
    BY <1>3, <2>2, <2>4
<1> QED
  BY <1>2, <1>3, <1>4

\* What a neighbour covers of a set of peers is finite.
LEMMA CoverageFacts ==
    ASSUME NEW uncovered \in SUBSET Peer, NEW f
    PROVE  /\ Coverage(f, uncovered) \subseteq uncovered
           /\ Cardinality(Coverage(f, uncovered)) \in Nat
           /\ Cardinality(Coverage(f, uncovered)) <= Cardinality(Peer)
           /\ Cardinality(Peer) \in Nat
           /\ f \in uncovered => f \in Coverage(f, uncovered)
<1>1. Coverage(f, uncovered) \subseteq uncovered
  BY DEF Coverage
<1>2. f \in uncovered => f \in Coverage(f, uncovered)
  BY DEF Coverage
<1>3. IsFiniteSet(Peer)
  BY FanoutAssumption
<1>4. Coverage(f, uncovered) \subseteq Peer
  BY <1>1
<1> HIDE DEF Coverage
<1> QED
  BY <1>1, <1>2, <1>3, <1>4, FS_Subset, FS_CardinalityType

\* Before says that the greedy choice takes f rather than g.
Before(f, g, uncovered) ==
    \/ Cardinality(Coverage(g, uncovered)) < Cardinality(Coverage(f, uncovered))
    \/ Cardinality(Coverage(g, uncovered)) = Cardinality(Coverage(f, uncovered)) /\ f <= g

\* Among the direct neighbours there is one that covers most and comes first.
LEMMA FirstExists ==
    ASSUME NEW uncovered \in SUBSET Peer, Direct # {}
    PROVE  \E f \in Direct : \A g \in Direct : Before(f, g, uncovered)
<1> DEFINE cover(f) == Cardinality(Coverage(f, uncovered))
           covers == {cover(f) : f \in Direct}
<1>1. \A f \in Direct : cover(f) \in Nat /\ cover(f) <= Cardinality(Peer)
  BY CoverageFacts
<1>2. Cardinality(Peer) \in Nat
  BY CoverageFacts
<1> HIDE DEF cover
<1>3. covers \in SUBSET Nat /\ covers # {} /\ \A k \in covers : k <= Cardinality(Peer)
  BY <1>1
<1>4. PICK m \in covers : \A k \in covers : k <= m
  <2> HIDE DEF covers
  <2> QED
    BY <1>2, <1>3, GreatestBelow
<1> DEFINE best == {f \in Direct : cover(f) = m}
<1>5. best \in SUBSET Nat /\ best # {}
  BY FanoutAssumption DEF Direct
<1>6. PICK f \in best : \A g \in best : f <= g
  <2> HIDE DEF best
  <2> QED
    BY <1>5, Least
<1>7. ASSUME NEW g \in Direct
      PROVE  cover(g) < cover(f) \/ (cover(g) = cover(f) /\ f <= g)
  <2>1. cover(f) = m /\ cover(g) <= m /\ cover(g) \in Nat /\ m \in Nat
    BY <1>1, <1>4, <1>6
  <2>2. cover(g) = m => f <= g
    BY <1>6
  <2> QED
    BY <2>1, <2>2
<1>8. \A g \in Direct : Before(f, g, uncovered)
  BY <1>7 DEF Before, cover
<1> QED
  BY <1>8

\* One round: nothing is left to cover, or the neighbour that covers most, and at
\* least one listener, becomes a destination.
LEMMA SelectFacts ==
    ASSUME NEW round, round.uncovered \in SUBSET Peer
    PROVE  \/ /\ \A f \in Direct : Coverage(f, round.uncovered) = {}
              /\ SelectForwarder(round) = round
           \/ \E f \in Direct :
                 /\ Coverage(f, round.uncovered) # {}
                 /\ SelectForwarder(round) =
                        [uncovered |-> round.uncovered \ Coverage(f, round.uncovered),
                         destinations |-> round.destinations \cup {f},
                         assignments |-> [round.assignments EXCEPT
                             ![f] = @ \cup (Coverage(f, round.uncovered) \ {f})]]
<1> DEFINE first == {g \in Direct : \A h \in Direct : Before(g, h, round.uncovered)}
           with(f) == [uncovered |-> round.uncovered \ Coverage(f, round.uncovered),
                       destinations |-> round.destinations \cup {f},
                       assignments |-> [round.assignments EXCEPT
                           ![f] = @ \cup (Coverage(f, round.uncovered) \ {f})]]
<1>1. CASE \A f \in Direct : Coverage(f, round.uncovered) = {}
  BY <1>1 DEF SelectForwarder
<1>2. CASE ~ \A f \in Direct : Coverage(f, round.uncovered) = {}
  <2>1. SelectForwarder(round) = CHOOSE next \in {with(f) : f \in first} : TRUE
    BY <1>2, Zenon DEF SelectForwarder, Before
  <2>2. first # {}
    BY <1>2, FirstExists
  <2>3. PICK f \in first : SelectForwarder(round) = with(f)
    <3> HIDE DEF first, with
    <3> QED
      BY <2>1, <2>2
  <2>4. Coverage(f, round.uncovered) # {}
    <3>1. PICK g \in Direct : Coverage(g, round.uncovered) # {}
      BY <1>2
    <3>2. Before(f, g, round.uncovered) /\ f \in Direct
      BY <2>3
    <3>3. IsFiniteSet(Coverage(g, round.uncovered)) /\ IsFiniteSet(Coverage(f, round.uncovered))
      BY FanoutAssumption, CoverageFacts, FS_Subset
    <3>4. Cardinality(Coverage(g, round.uncovered)) \in Nat \ {0}
      BY <3>1, <3>3, FS_CardinalityType, FS_EmptySet
    <3>5. Cardinality(Coverage(f, round.uncovered)) \in Nat
      BY CoverageFacts
    <3>6. Cardinality(Coverage(f, round.uncovered)) # 0
      BY <3>2, <3>4, <3>5 DEF Before
    <3> QED
      BY <3>6, FS_EmptySet
  <2>5. f \in Direct
    BY <2>3
  <2> QED
    BY <2>3, <2>4, <2>5
<1> QED
  BY <1>1, <1>2

-----------------------------------------------------------------------------
(* The rounds of buildFanoutPlan *)

FirstRound ==
    [uncovered |-> Listeners, destinations |-> {}, assignments |-> [p \in Peer |-> {}]]

RoundType ==
    [uncovered : SUBSET Peer, destinations : SUBSET Peer, assignments : [Peer -> SUBSET Peer]]

\* What is true after n rounds: nobody is assigned to two forwarders, who is not
\* covered is assigned to none, who is covered is a destination or assigned to one,
\* and every round has covered somebody unless there was nobody left.
Covering(r, n) ==
    /\ r \in RoundType
    /\ r.destinations \subseteq Direct
    /\ \A p, f, g \in Peer : p \in r.assignments[f] /\ p \in r.assignments[g] => f = g
    /\ \A p \in r.uncovered : \A f \in Peer : p \notin r.assignments[f]
    /\ \A p \in Listeners \ r.uncovered :
          p \in r.destinations \/ \E f \in r.destinations : p \in r.assignments[f]
    /\ \/ \A f \in Direct : Coverage(f, r.uncovered) = {}
       \/ Cardinality(r.uncovered) + n <= Cardinality(Peer)

\* Before the first round everybody is left to cover.
LEMMA FirstCovering == Covering(FirstRound, 0)
<1>1. Listeners \subseteq Peer /\ IsFiniteSet(Peer)
  BY FanoutAssumption DEF Listeners
<1>2. Cardinality(Listeners) <= Cardinality(Peer) /\ Cardinality(Listeners) \in Nat
  BY <1>1, FS_Subset, FS_CardinalityType
<1> QED
  BY <1>1, <1>2 DEF FirstRound, RoundType, Covering

\* A round keeps all this: who is newly covered was assigned to nobody.
LEMMA NextCovering ==
    ASSUME NEW r, NEW n \in Nat, Covering(r, n)
    PROVE  Covering(SelectForwarder(r), n + 1)
<1>1. r \in RoundType /\ r.uncovered \in SUBSET Peer
  BY DEF Covering, RoundType
<1>2. CASE (\A f \in Direct : Coverage(f, r.uncovered) = {}) /\ SelectForwarder(r) = r
  BY <1>2 DEF Covering
<1>3. ASSUME NEW f \in Direct, Coverage(f, r.uncovered) # {},
             SelectForwarder(r) =
                 [uncovered |-> r.uncovered \ Coverage(f, r.uncovered),
                  destinations |-> r.destinations \cup {f},
                  assignments |-> [r.assignments EXCEPT
                      ![f] = @ \cup (Coverage(f, r.uncovered) \ {f})]]
      PROVE  Covering(SelectForwarder(r), n + 1)
  <2> DEFINE t == SelectForwarder(r)
             C == Coverage(f, r.uncovered)
             more == C \ {f}
  <2>1. f \in Peer /\ C \subseteq r.uncovered /\ C # {}
    BY <1>1, <1>3, CoverageFacts DEF Direct
  <2>2. /\ t.uncovered = r.uncovered \ C
        /\ t.destinations = r.destinations \cup {f}
        /\ t.assignments = [r.assignments EXCEPT ![f] = @ \cup more]
    BY <1>3
  <2>3. r.assignments \in [Peer -> SUBSET Peer] /\ r.destinations \in SUBSET Peer
    BY <1>1 DEF RoundType
  <2>4. t \in RoundType
    <3> HIDE DEF C
    <3> QED
      BY <1>1, <1>3, <2>1, <2>3 DEF RoundType, C
  <2> HIDE DEF t, C
  <2>5. \A g \in Peer : t.assignments[g] =
             IF g = f THEN r.assignments[f] \cup more ELSE r.assignments[g]
    BY <2>1, <2>2, <2>3
  <2>6. t.destinations \subseteq Direct
    BY <2>2 DEF Covering
  <2>7. \A p, g, h \in Peer : p \in t.assignments[g] /\ p \in t.assignments[h] => g = h
    BY <2>1, <2>5 DEF Covering
  <2>8. \A p \in t.uncovered : \A g \in Peer : p \notin t.assignments[g]
    BY <2>1, <2>2, <2>5 DEF Covering
  <2>9. ASSUME NEW p \in Listeners \ t.uncovered
        PROVE  p \in t.destinations \/ \E g \in t.destinations : p \in t.assignments[g]
    <3>1. CASE p \in C
      <4>1. p = f \/ p \in t.assignments[f]
        BY <2>1, <2>5, <3>1
      <4> QED
        BY <2>2, <4>1
    <3>2. CASE p \notin C
      <4>1. p \in Listeners \ r.uncovered
        BY <2>2, <2>9, <3>2
      <4>2. p \in r.destinations \/ \E g \in r.destinations : p \in r.assignments[g]
        BY <4>1 DEF Covering
      <4>3. \A g \in r.destinations : g \in Peer /\ r.assignments[g] \subseteq t.assignments[g]
        BY <2>3, <2>5
      <4> QED
        BY <2>2, <4>2, <4>3
    <3> QED
      BY <3>1, <3>2
  <2>10. Cardinality(t.uncovered) + (n + 1) <= Cardinality(Peer)
    <3>1. IsFiniteSet(r.uncovered) /\ Cardinality(r.uncovered) \in Nat
      BY <1>1, FanoutAssumption, FS_Subset, FS_CardinalityType
    <3>2. Cardinality(r.uncovered) + n <= Cardinality(Peer)
      <4>1. ~ \A g \in Direct : Coverage(g, r.uncovered) = {}
        BY <1>3
      <4> QED
        BY <4>1 DEF Covering
    <3>3. PICK p \in C : TRUE
      BY <2>1
    <3>4. p \in r.uncovered /\ t.uncovered \subseteq r.uncovered \ {p}
      BY <2>1, <2>2, <3>3
    <3>5. /\ IsFiniteSet(r.uncovered \ {p})
          /\ Cardinality(r.uncovered \ {p}) = Cardinality(r.uncovered) - 1
      BY <3>1, <3>4, FS_RemoveElement
    <3>6. Cardinality(t.uncovered) <= Cardinality(r.uncovered \ {p}) /\ Cardinality(t.uncovered) \in Nat
      BY <3>4, <3>5, FS_Subset, FS_CardinalityType
    <3>7. Cardinality(Peer) \in Nat
      BY CoverageFacts
    <3> QED
      BY <3>1, <3>2, <3>5, <3>6, <3>7
  <2>11. Covering(t, n + 1)
    BY <2>4, <2>6, <2>7, <2>8, <2>9, <2>10 DEF Covering
  <2> QED
    BY <2>11 DEF t
<1> QED
  BY <1>1, <1>2, <1>3, SelectFacts

\* f lists what is left after each of the first n rounds.
Rounds(f, n) ==
    f = [k \in 0 .. n |->
            IF k = 0 THEN FirstRound
            ELSE CHOOSE next \in {SelectForwarder(round) : round \in {f[k - 1]}} : TRUE]

\* The CHOOSE takes the only element.
LEMMA TheOnlyRound ==
    ASSUME NEW r
    PROVE  (CHOOSE next \in {SelectForwarder(round) : round \in {r}} : TRUE) = SelectForwarder(r)
<1> DEFINE s == SelectForwarder(r)
<1>1. {SelectForwarder(round) : round \in {r}} = {s}
  OBVIOUS
<1> HIDE DEF s
<1>2. (CHOOSE next \in {s} : TRUE) = s
  OBVIOUS
<1>3. (CHOOSE next \in {SelectForwarder(round) : round \in {r}} : TRUE) = (CHOOSE next \in {s} : TRUE)
  BY <1>1, Zenon
<1> QED
  BY <1>2, <1>3 DEF s

\* The recursion is well defined.
LEMMA RoundsExist == \A n \in Nat : \E f : Rounds(f, n)
<1> DEFINE S == {n \in Nat : \E f : Rounds(f, n)}
<1>1. 0 \in S
  <2>1. Rounds([k \in 0 .. 0 |-> FirstRound], 0)
    BY DEF Rounds
  <2> QED
    BY <2>1
<1>2. ASSUME NEW n \in Nat, n \in S
      PROVE  n + 1 \in S
  <2>1. PICK f : Rounds(f, n)
    BY <1>2
  <2> DEFINE step(r) == CHOOSE next \in {SelectForwarder(round) : round \in {r}} : TRUE
             g == [k \in 0 .. n + 1 |-> IF k <= n THEN f[k] ELSE step(f[k - 1])]
  <2>2. f = [k \in 0 .. n |-> IF k = 0 THEN FirstRound ELSE step(f[k - 1])]
    BY <2>1, Zenon DEF Rounds
  <2> HIDE DEF step
  <2>3. \A k \in 0 .. n : f[k] = IF k = 0 THEN FirstRound ELSE step(f[k - 1])
    BY <2>2, Zenon
  <2>4. ASSUME NEW k \in 0 .. n + 1
        PROVE  g[k] = IF k = 0 THEN FirstRound ELSE step(g[k - 1])
    <3>1. CASE k = 0
      BY <2>3, <3>1
    <3>2. CASE k # 0
      <4>1. g[k - 1] = f[k - 1] /\ k - 1 \in 0 .. n
        BY <3>2
      <4>2. k <= n => k \in 0 .. n
        OBVIOUS
      <4> QED
        BY <2>3, <3>2, <4>1, <4>2
    <3> QED
      BY <3>1, <3>2
  <2>5. g = [k \in 0 .. n + 1 |-> g[k]]
    OBVIOUS
  <2> HIDE DEF g
  <2>6. g = [k \in 0 .. n + 1 |-> IF k = 0 THEN FirstRound ELSE step(g[k - 1])]
    BY <2>4, <2>5, Zenon
  <2>7. Rounds(g, n + 1)
    BY <2>6, Zenon DEF Rounds, step
  <2> QED
    BY <2>7
<1> HIDE DEF S
<1>3. Nat \subseteq S
  BY <1>1, <1>2, SetInduction
<1> QED
  BY <1>3 DEF S

\* After as many rounds as there are peers nobody is left that a direct
\* neighbour could cover.
LEMMA RoundsCover ==
    ASSUME NEW n \in Nat, NEW f, Rounds(f, n)
    PROVE  Covering(f[n], n)
<1> DEFINE S == {k \in Nat : k <= n => Covering(f[k], k)}
<1>0. \A k \in 0 .. n : f[k] =
         IF k = 0 THEN FirstRound
         ELSE CHOOSE next \in {SelectForwarder(round) : round \in {f[k - 1]}} : TRUE
  BY Zenon DEF Rounds
<1>1. 0 \in S
  <2>1. f[0] = FirstRound
    BY <1>0
  <2> QED
    BY <2>1, FirstCovering
<1>2. ASSUME NEW k \in Nat, k \in S
      PROVE  k + 1 \in S
  <2> SUFFICES ASSUME k + 1 <= n
               PROVE  Covering(f[k + 1], k + 1)
    OBVIOUS
  <2>1. Covering(f[k], k) /\ k + 1 \in 0 .. n /\ k + 1 # 0 /\ (k + 1) - 1 = k
    BY <1>2
  <2>2. f[k + 1] = CHOOSE next \in {SelectForwarder(round) : round \in {f[k]}} : TRUE
    BY <1>0, <2>1
  <2>3. f[k + 1] = SelectForwarder(f[k])
    BY <2>2, TheOnlyRound
  <2> QED
    BY <2>1, <2>3, NextCovering
<1> HIDE DEF S
<1>3. Nat \subseteq S
  BY <1>1, <1>2, SetInduction
<1> QED
  BY <1>3 DEF S

\* What buildFanoutPlan returns.
LEMMA GreedyCovers ==
    /\ BuildFanoutPlan.destinations \subseteq Direct
    /\ \A p, f, g \in Peer :
          p \in BuildFanoutPlan.assignments[f] /\ p \in BuildFanoutPlan.assignments[g] => f = g
    /\ \A p \in Direct :
          \/ p \in BuildFanoutPlan.destinations
          \/ \E f \in BuildFanoutPlan.destinations : p \in BuildFanoutPlan.assignments[f]
<1> DEFINE N == Cardinality(Peer)
           f == CHOOSE g : Rounds(g, N)
           r == f[N]
<1>1. N \in Nat
  BY CoverageFacts
<1>2. Rounds(f, N)
  BY <1>1, RoundsExist, Zenon
<1>3. BuildFanoutPlan =
        CHOOSE greedy \in {[destinations |-> last.destinations, assignments |-> last.assignments] :
                               last \in {r}} : TRUE
  BY DEF BuildFanoutPlan, Rounds, FirstRound
<1> HIDE DEF f
<1>4. Covering(r, N)
  BY <1>1, <1>2, RoundsCover
<1> HIDE DEF r
<1>5. BuildFanoutPlan = [destinations |-> r.destinations, assignments |-> r.assignments]
  <2> DEFINE x == [destinations |-> r.destinations, assignments |-> r.assignments]
  <2>1. {[destinations |-> last.destinations, assignments |-> last.assignments] : last \in {r}} = {x}
    OBVIOUS
  <2> HIDE DEF x
  <2>2. (CHOOSE greedy \in {x} : TRUE) = x
    OBVIOUS
  <2>3. BuildFanoutPlan = CHOOSE greedy \in {x} : TRUE
    BY <1>3, <2>1, Zenon
  <2> QED
    BY <2>2, <2>3 DEF x
<1>6. ASSUME NEW p \in Direct
      PROVE  p \notin r.uncovered
  <2> SUFFICES ASSUME p \in r.uncovered
               PROVE  FALSE
    OBVIOUS
  <2>1. r.uncovered \in SUBSET Peer
    BY <1>4 DEF Covering, RoundType
  <2>2. p \in Coverage(p, r.uncovered)
    BY <2>1, CoverageFacts
  <2>3. Cardinality(r.uncovered) + N <= N
    BY <1>4, <2>2 DEF Covering
  <2>4. IsFiniteSet(r.uncovered) /\ Cardinality(r.uncovered) \in Nat
    BY <2>1, FanoutAssumption, FS_Subset, FS_CardinalityType
  <2>5. Cardinality(r.uncovered) = 0
    BY <1>1, <2>3, <2>4
  <2> QED
    BY <2>4, <2>5, FS_EmptySet
<1>7. Direct \subseteq Listeners
  BY FanoutAssumption DEF Direct, Listeners
<1>8. \A p \in Direct : p \in r.destinations \/ \E g \in r.destinations : p \in r.assignments[g]
  BY <1>4, <1>6, <1>7 DEF Covering
<1> QED
  BY <1>4, <1>5, <1>8 DEF Covering

\* Whatever the claims and paths are, the plan that refreshFanout makes covers
\* every direct neighbour and every listener behind a direct intermediary, each
\* through one forwarder at most (buildFanoutPlan, constrainFanoutToActivePaths): no
\* listener hears the speaker twice over, and none is left out.
THEOREM EveryPlanCovers == FanoutSpec => []PlanCovers
<1>1. PlanCovers
  <2> DEFINE greedy == BuildFanoutPlan
             new == ConstrainFanoutToActivePaths(greedy)
  <2>1. NewPlan = new
    BY Zenon DEF NewPlan
  <2>2. /\ new.destinations =
               {f \in Direct : f \in greedy.destinations \/ \E p \in Forced : path[p] = f}
        /\ \A f \in Peer : new.assignments[f] =
               {p \in Listeners : IF p \in Forced THEN path[p] = f ELSE p \in greedy.assignments[f]}
    BY DEF ConstrainFanoutToActivePaths
  <2>3. /\ greedy.destinations \subseteq Direct
        /\ \A p, f, g \in Peer : p \in greedy.assignments[f] /\ p \in greedy.assignments[g] => f = g
        /\ \A p \in Direct :
              p \in greedy.destinations \/ \E f \in greedy.destinations : p \in greedy.assignments[f]
    BY GreedyCovers
  <2> HIDE DEF greedy, new
  <2>4. Direct \subseteq Peer /\ Listeners \subseteq Peer /\ Direct \subseteq Listeners
    BY FanoutAssumption DEF Direct, Listeners
  <2>5. \A p \in Forced : p \in Listeners /\ path[p] \in Direct /\ p \notin Direct
    BY DEF Forced
  <2>6. ASSUME NEW p \in Listeners
        PROVE  LET forwarders == {f \in new.destinations : p \in new.assignments[f]}
               IN  /\ Cardinality(forwarders) <= 1
                   /\ p \in Direct \cup Forced => p \in new.destinations \/ forwarders # {}
    <3> DEFINE forwarders == {f \in new.destinations : p \in new.assignments[f]}
    <3>1. \A f, g \in forwarders : f = g
      <4>1. \A f \in forwarders :
               /\ f \in Peer
               /\ IF p \in Forced THEN path[p] = f ELSE p \in greedy.assignments[f]
        BY <2>2, <2>4
      <4> QED
        BY <2>3, <2>4, <4>1
    <3>2. Cardinality(forwarders) <= 1
      <4> HIDE DEF forwarders
      <4>1. CASE forwarders = {}
        BY <4>1, FS_EmptySet
      <4>2. CASE forwarders # {}
        <5>1. PICK f \in forwarders : TRUE
          BY <4>2
        <5>2. forwarders = {f}
          BY <3>1, <5>1
        <5> QED
          BY <5>2, FS_Singleton
      <4> QED
        BY <4>1, <4>2
    <3>3. CASE p \in Forced
      <4>1. path[p] \in new.destinations /\ p \in new.assignments[path[p]]
        BY <2>2, <2>4, <2>5, <3>3
      <4> QED
        BY <3>2, <4>1
    <3>4. CASE p \in Direct
      <4>1. p \notin Forced
        BY <2>5, <3>4
      <4>2. CASE p \in greedy.destinations
        BY <2>2, <3>2, <3>4, <4>2
      <4>3. ASSUME NEW f \in greedy.destinations, p \in greedy.assignments[f]
            PROVE  forwarders # {}
        <5>1. f \in new.destinations /\ f \in Peer
          BY <2>2, <2>3, <2>4
        <5>2. p \in new.assignments[f]
          BY <2>2, <4>1, <4>3, <5>1
        <5> QED
          BY <5>1, <5>2
      <4> QED
        BY <2>3, <3>2, <3>4, <4>2, <4>3
    <3> QED
      BY <3>2, <3>3, <3>4
  <2> QED
    BY <2>1, <2>6 DEF PlanCovers
<1> QED
  BY <1>1, PTL
=============================================================================
