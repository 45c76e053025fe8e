--------------------------- MODULE SessionProofs ----------------------------
(***************************************************************************)
(* For any number of sessions, routes, losses, delays, repetitions and     *)
(* timeouts: the two sessions a peer keeps differ in their IDs, a session  *)
(* in use has keys that the other peer has derived too, and the session in *)
(* use never goes back to an earlier ID.                                   *)
(***************************************************************************)
EXTENDS Session, SequenceFilterProofs, FiniteSetTheorems

\* Any datagram, and those that can be under way: a hello names a session that its
\* sender has created, a sealed packet was sealed with keys that its sender has derived.
Message ==
    [type : {"probe", "hello", "ping", "pong", "leave"}, from : Peer, path : Path,
     sid : Nat, hk : Nat]
From(n, keys) ==
    {m \in Message :
        /\ m.type = "hello" /\ m.from = 1 => m.sid \in 1 .. n
        /\ m.type = "hello" /\ m.from = 2 => <<m.sid, m.hk>> \in keys[2]
        /\ m.type \in {"ping", "pong", "leave"} => <<m.sid, m.hk>> \in keys[m.from]}
Genuine == From(fresh[1], derived)

Traffic ==
    /\ network \in [Peer \X Path -> Seq(Genuine)]
    /\ late \subseteq Genuine

\* The sessions p can hold: it has derived their keys, and peer 2 does so at once.
Held(p) ==
    {s \in Session :
        /\ s.candidate # s.path
        /\ s.hk # 0 => Secret(s) \in derived[p]
        /\ p = 2 => s.hk # 0}

\* Sessions are created one after the other, and keys are derived for sessions only.
Counters ==
    /\ fresh \in [Peer -> 0 .. MaxFresh]
    /\ derived \in [Peer -> SUBSET ((1 .. fresh[1]) \X (1 .. fresh[2]))]

\* Who has left, and what may still go wrong.
Faults ==
    /\ left \subseteq Peer
    /\ allowed \in [path : SUBSET Path, leavers : SUBSET Peer, losses : Nat, late : Nat,
                    timeouts : Nat]

\* A pending session is not authenticated; an active one is, by the other end.
Keys ==
    /\ active \in [Peer -> Session \cup {NoSession}]
    /\ pending \in [Peer -> Session \cup {NoSession}]
    /\ \A p \in Peer :
          /\ active[p] # NoSession =>
                /\ active[p] \in Held(p) /\ active[p].hk # 0 /\ active[p].everAuthenticated
                /\ Secret(active[p]) \in derived[Other(p)]
          /\ pending[p] # NoSession => pending[p] \in Held(p) /\ ~pending[p].authenticated

\* The pending session of peer 1 is its last one.  The pending one of peer 2 may be older
\* than its active one, made from a late hello, but then peer 1 has not derived its keys
\* and never will.
Order ==
    /\ pending[1] # NoSession =>
          pending[1].sid = fresh[1] /\ (active[1] # NoSession => active[1].sid < fresh[1])
    /\ active[2] # NoSession /\ pending[2] # NoSession =>
          /\ active[2].sid # pending[2].sid
          /\ pending[2].sid < active[2].sid => Secret(pending[2]) \notin derived[1]

IInv == Counters /\ Faults /\ Keys /\ Order /\ Traffic

\* t is the session s with another path, candidate path or outstanding ping.
Variant(t, s) ==
    /\ t \in Session /\ t.candidate # t.path
    /\ t.sid = s.sid /\ t.hk = s.hk
    /\ s.everAuthenticated => t.everAuthenticated

(* What a step can do to the sessions and the keys *)

\* Sessions are touched or given up, and nothing else.
Touches ==
    /\ active' \in [Peer -> Session \cup {NoSession}]
    /\ pending' \in [Peer -> Session \cup {NoSession}]
    /\ \A q \in Peer :
          /\ \/ active'[q] \in {NoSession, active[q]}
             \/ active[q] # NoSession /\ Variant(active'[q], active[q])
          /\ \/ pending'[q] \in {NoSession, pending[q]}
             \/ /\ pending[q] # NoSession /\ Variant(pending'[q], pending[q])
                /\ pending'[q].authenticated => pending[q].authenticated
    /\ UNCHANGED <<fresh, derived>>

\* Peer 1 creates a session.
Initiates ==
    /\ fresh[1] < MaxFresh
    /\ fresh' = [fresh EXCEPT ![1] = fresh[1] + 1]
    /\ \E path \in Path :
          pending' = [pending EXCEPT ![1] = NewSession(fresh[1] + 1, 0, path)]
    /\ UNCHANGED <<active, derived>>

\* Peer 2 creates its end of a session that is not the active one.
Responds ==
    \E sid \in 1 .. fresh[1], path \in Path, t \in Session :
        /\ fresh[2] < MaxFresh
        /\ active[2] # NoSession => active[2].sid # sid
        /\ Variant(t, NewSession(sid, fresh[2] + 1, path)) /\ ~t.authenticated
        /\ pending' = [pending EXCEPT ![2] = t]
        /\ fresh' = [fresh EXCEPT ![2] = fresh[2] + 1]
        /\ derived' = [derived EXCEPT ![2] = derived[2] \cup {<<sid, fresh[2] + 1>>}]
        /\ UNCHANGED active

\* Peer 1 learns the other half of the keys of its pending session.
Completes ==
    \E t \in Session :
        /\ pending[1] # NoSession
        /\ t.candidate # t.path /\ t.sid = pending[1].sid /\ ~t.authenticated
        /\ Secret(t) \in derived[2]
        /\ pending' = [pending EXCEPT ![1] = t]
        /\ derived' = [derived EXCEPT ![1] = derived[1] \cup {Secret(t)}]
        /\ UNCHANGED <<active, fresh>>

\* A pending session whose keys the other end has becomes the active one.
Promotes(p) ==
    \E t \in Session :
        /\ pending[p] # NoSession
        /\ Variant(t, pending[p]) /\ t.everAuthenticated /\ t.hk # 0
        /\ Secret(t) \in derived[Other(p)]
        /\ active' = [active EXCEPT ![p] = t]
        /\ pending' = [pending EXCEPT ![p] = NoSession]
        /\ UNCHANGED <<fresh, derived>>

Move == Touches \/ Initiates \/ Responds \/ Completes \/ \E p \in Peer : Promotes(p)

-----------------------------------------------------------------------------
(* Sequences of datagrams *)

\* The two peers, and who the other one is.
LEMMA PeerFacts == /\ Other(1) = 2 /\ Other(2) = 1 /\ 1 \in Peer /\ 2 \in Peer
                   /\ \A p \in Peer : p = 1 \/ p = 2
BY DEF Peer, Other

\* A finite set of datagrams, listed in some order.
LEMMA ListType ==
    ASSUME NEW S, NEW T, IsFiniteSet(S), S \subseteq T
    PROVE  SetToSeq(S) \in Seq(T)
<1>1. Cardinality(S) \in Nat /\ ExistsBijection(1 .. Cardinality(S), S)
  BY FS_CardinalityType
<1>2. PICK f \in Bijection(1 .. Cardinality(S), S) : TRUE
  BY <1>1, Zenon DEF ExistsBijection
<1>3. f \in [1 .. Cardinality(S) -> S] /\ IsInjective(f)
  BY <1>2 DEF Bijection, Injection, IsInjective
<1>4. SetToSeq(S) \in [1 .. Cardinality(S) -> S]
  BY <1>3, Zenon DEF SetToSeq
<1>5. SetToSeq(S) \in Seq(S)
  BY <1>1, <1>4
<1> QED
  BY <1>5, SeqMonotonic

\* A datagram taken out of a route.
LEMMA RemoveType ==
    ASSUME NEW S, NEW s \in Seq(S), NEW i \in DOMAIN s
    PROVE  RemoveAt(s, i) \in Seq(S) /\ s[i] \in S
<1>1. Len(s) \in Nat /\ DOMAIN s = 1 .. Len(s) /\ \A k \in 1 .. Len(s) : s[k] \in S
  BY LenProperties, ElementOfSeq
<1>2. i \in Nat /\ i >= 1 /\ i <= Len(s)
  BY <1>1
<1>3. SubSeq(s, 1, i - 1) \in Seq(S)
  BY <1>1, <1>2, SubSeqProperties
<1>4. SubSeq(s, i + 1, Len(s)) \in Seq(S)
  BY <1>1, <1>2, SubSeqProperties
<1> QED
  BY <1>1, <1>2, <1>3, <1>4, ConcatProperties DEF RemoveAt

\* The network after a handler has sent its datagrams.
LEMMA SentType ==
    ASSUME NEW S, NEW net \in [Peer \X Path -> Seq(S)], NEW out \in Seq(S)
    PROVE  Sent(net, out) \in [Peer \X Path -> Seq(S)]
<1> SUFFICES ASSUME NEW c \in Peer \X Path
             PROVE  Only(net[c], {m \in ToSet(net[c]) : ~Superseded(m, out)}) \o
                    Only(out, {m \in ToSet(out) : <<m.from, m.path>> = c}) \in Seq(S)
  BY DEF Sent
<1>1. net[c] \in Seq(S)
  OBVIOUS
<1>2. /\ Only(net[c], {m \in ToSet(net[c]) : ~Superseded(m, out)}) \in Seq(S)
      /\ Only(out, {m \in ToSet(out) : <<m.from, m.path>> = c}) \in Seq(S)
  BY <1>1, OnlyType
<1> QED
  BY <1>2, ConcatProperties

\* Handling a datagram leaves datagrams of the same kind under way.
LEMMA AnswerType ==
    ASSUME NEW S, network \in [Peer \X Path -> Seq(S)], late \subseteq S,
           NEW m, m.from \in Peer, m.path \in Path, NEW out \in Seq(S), Answer(m, out)
    PROVE  network' \in [Peer \X Path -> Seq(S)] /\ late' \subseteq S
<1>1. CASE late' = late \ {m} /\ network' = Sent(network, out)
  BY <1>1, SentType
<1>2. CASE LET c == <<m.from, m.path>>
           IN /\ network[c] # <<>> /\ Head(network[c]) = m
              /\ network' = Sent([network EXCEPT ![c] = Tail(@)], out)
              /\ UNCHANGED late
  <2> DEFINE c == <<m.from, m.path>>
             net == [network EXCEPT ![c] = Tail(network[c])]
  <2>1. c \in Peer \X Path /\ network[c] \in Seq(S) /\ network[c] # <<>>
    BY <1>2
  <2>2. Tail(network[c]) \in Seq(S)
    BY <2>1, HeadTailProperties
  <2>3. net \in [Peer \X Path -> Seq(S)]
    BY <2>2
  <2>4. network' = Sent(net, out) /\ late' = late
    BY <1>2
  <2> QED
    BY <2>3, <2>4, SentType
<1> QED
  BY <1>1, <1>2 DEF Answer

-----------------------------------------------------------------------------
(* Moves *)

\* Counters and keys, with their types.
LEMMA CounterFacts ==
    ASSUME Counters
    PROVE  /\ fresh[1] \in Nat /\ fresh[2] \in Nat /\ MaxFresh \in Nat
           /\ fresh[1] <= MaxFresh /\ fresh[2] <= MaxFresh
           /\ \A p \in Peer : derived[p] \subseteq (1 .. fresh[1]) \X (1 .. fresh[2])
           /\ DOMAIN fresh = Peer /\ DOMAIN derived = Peer
BY PeerFacts, SessionAssumption DEF Counters

\* Sessions that are only touched.
LEMMA TouchesKeep ==
    ASSUME Counters, Keys, Order, Touches
    PROVE  Keys' /\ Order'
<1>1. ASSUME NEW p \in Peer, active'[p] # NoSession
      PROVE  /\ active[p] # NoSession /\ active'[p].sid = active[p].sid
             /\ Secret(active'[p]) = Secret(active[p])
             /\ active'[p] \in Session /\ active'[p].candidate # active'[p].path
             /\ active'[p].hk # 0 /\ active'[p].everAuthenticated
  <2>1. active[p] # NoSession
    BY <1>1 DEF Touches
  <2>2. active[p] \in Held(p) /\ active[p].hk # 0 /\ active[p].everAuthenticated
    BY <2>1 DEF Keys
  <2> QED
    BY <1>1, <2>1, <2>2 DEF Touches, Variant, Held, Secret
<1>2. ASSUME NEW p \in Peer, pending'[p] # NoSession
      PROVE  /\ pending[p] # NoSession /\ pending'[p].sid = pending[p].sid
             /\ Secret(pending'[p]) = Secret(pending[p]) /\ pending'[p].hk = pending[p].hk
             /\ pending'[p] \in Session /\ pending'[p].candidate # pending'[p].path
             /\ ~pending'[p].authenticated
  <2>1. pending[p] # NoSession
    BY <1>2 DEF Touches
  <2>2. pending[p] \in Held(p) /\ ~pending[p].authenticated
    BY <2>1 DEF Keys
  <2> QED
    BY <1>2, <2>1, <2>2 DEF Touches, Variant, Held, Secret
<1>3. UNCHANGED <<fresh, derived>>
  BY DEF Touches
<1>4. \A p \in Peer : active'[p] # NoSession => active'[p] \in Held(p)'
  BY <1>1, <1>3 DEF Keys, Held
<1>5. \A p \in Peer : pending'[p] # NoSession => pending'[p] \in Held(p)'
  BY <1>2, <1>3 DEF Keys, Held
<1>6. Keys'
  BY <1>1, <1>2, <1>3, <1>4, <1>5 DEF Keys, Touches
<1>7. Order'
  BY <1>1, <1>2, <1>3, PeerFacts DEF Order
<1> QED
  BY <1>6, <1>7

\* A new session.
LEMMA NewSessionFacts ==
    ASSUME NEW sid \in 1 .. MaxFresh, NEW hk \in 0 .. MaxFresh, NEW path \in Path
    PROVE  LET s == NewSession(sid, hk, path)
           IN  /\ s \in Session /\ s # NoSession /\ s.candidate # s.path
               /\ s.sid = sid /\ s.hk = hk /\ ~s.authenticated
<1> DEFINE s == NewSession(sid, hk, path)
<1>1. /\ s.sid = sid /\ s.hk = hk /\ ~s.authenticated /\ s.path = path /\ s.candidate = NoPath
      /\ s \in Session
  BY DEF NewSession, Session
<1>2. NoPath # path /\ s # NoSession
  BY <1>1, SessionAssumption
<1> QED
  BY <1>1, <1>2

\* The sessions held with fewer keys are held with more.
LEMMA HeldGrows ==
    ASSUME \A p \in Peer : derived[p] \subseteq derived'[p]
    PROVE  \A p \in Peer : Held(p) \subseteq Held(p)'
BY DEF Held

\* Peer 1 creates a session.
LEMMA InitiatesKeeps ==
    ASSUME Counters, Keys, Order, Initiates
    PROVE  Counters' /\ Keys' /\ Order'
<1>1. PICK path \in Path : pending' = [pending EXCEPT ![1] = NewSession(fresh[1] + 1, 0, path)]
  BY DEF Initiates
<1> DEFINE s == NewSession(fresh[1] + 1, 0, path)
<1>2. /\ s \in Session /\ s # NoSession /\ s.candidate # s.path
      /\ s.sid = fresh[1] + 1 /\ s.hk = 0 /\ ~s.authenticated
  <2>1. fresh[1] + 1 \in 1 .. MaxFresh /\ 0 \in 0 .. MaxFresh
    BY CounterFacts DEF Initiates
  <2> QED
    BY <2>1, NewSessionFacts
<1>3. pending'[1] = s /\ pending'[2] = pending[2] /\ UNCHANGED <<active, derived>>
  BY <1>1, PeerFacts DEF Keys, Initiates
<1>4. fresh'[1] = fresh[1] + 1 /\ fresh'[2] = fresh[2] /\ fresh' \in [Peer -> 0 .. MaxFresh]
  BY PeerFacts, CounterFacts DEF Initiates, Counters
<1> HIDE DEF s
<1>5. Counters'
  <2>1. (1 .. fresh[1]) \X (1 .. fresh[2]) \subseteq (1 .. fresh'[1]) \X (1 .. fresh'[2])
    BY <1>4, CounterFacts
  <2> QED
    BY <1>3, <1>4, <2>1 DEF Counters
<1>6. pending' \in [Peer -> Session \cup {NoSession}]
  BY <1>1, <1>2 DEF Keys, s
<1>7. \A p \in Peer : Held(p)' = Held(p)
  BY <1>3 DEF Held
<1>8. s \in Held(1)
  BY <1>2 DEF Held
<1>9. Keys'
  BY <1>2, <1>3, <1>6, <1>7, <1>8, PeerFacts DEF Keys
<1>10. Order'
  <2>1. active[1] # NoSession => active[1].sid <= fresh[1]
    <3>1. active[1] # NoSession => Secret(active[1]) \in derived[2]
      BY PeerFacts DEF Keys
    <3>2. active[1] # NoSession => Secret(active[1]) \in (1 .. fresh[1]) \X (1 .. fresh[2])
      BY <3>1, PeerFacts, CounterFacts
    <3> QED
      BY <3>2, CounterFacts DEF Secret
  <2>2. active[1] # NoSession => active[1].sid < fresh'[1]
    <3>1. active[1] # NoSession => active[1].sid \in Nat
      BY PeerFacts, CounterFacts DEF Keys, Session
    <3> QED
      BY <1>4, <2>1, <3>1, CounterFacts
  <2> QED
    BY <1>2, <1>3, <1>4, <2>2 DEF Order
<1> QED
  BY <1>5, <1>9, <1>10

\* Peer 2 answers with a session of its own.
LEMMA RespondsKeeps ==
    ASSUME Counters, Keys, Order, Responds
    PROVE  Counters' /\ Keys' /\ Order'
<1>1. PICK sid \in 1 .. fresh[1], path \in Path, t \in Session :
        /\ fresh[2] < MaxFresh
        /\ active[2] # NoSession => active[2].sid # sid
        /\ Variant(t, NewSession(sid, fresh[2] + 1, path)) /\ ~t.authenticated
        /\ pending' = [pending EXCEPT ![2] = t]
        /\ fresh' = [fresh EXCEPT ![2] = fresh[2] + 1]
        /\ derived' = [derived EXCEPT ![2] = derived[2] \cup {<<sid, fresh[2] + 1>>}]
        /\ UNCHANGED active
  BY DEF Responds
<1>2. fresh[2] + 1 \in 1 .. MaxFresh /\ fresh[2] + 1 \in 0 .. MaxFresh /\ sid \in 1 .. MaxFresh
  BY <1>1, CounterFacts
<1>3. t.candidate # t.path /\ t.sid = sid /\ t.hk = fresh[2] + 1 /\ t # NoSession
  BY <1>1, <1>2, NewSessionFacts, SessionAssumption DEF Variant
<1>4. pending'[2] = t /\ pending'[1] = pending[1] /\ pending' \in [Peer -> Session \cup {NoSession}]
  BY <1>1, PeerFacts DEF Keys
<1>5. fresh'[1] = fresh[1] /\ fresh'[2] = fresh[2] + 1 /\ fresh' \in [Peer -> 0 .. MaxFresh]
  BY <1>1, <1>2, PeerFacts DEF Counters
<1>6. /\ derived'[1] = derived[1] /\ derived'[2] = derived[2] \cup {<<sid, fresh[2] + 1>>}
      /\ DOMAIN derived' = Peer
  BY <1>1, PeerFacts, CounterFacts
<1>7. Counters'
  <2>1. (1 .. fresh[1]) \X (1 .. fresh[2]) \subseteq (1 .. fresh'[1]) \X (1 .. fresh'[2])
    BY <1>5, CounterFacts
  <2>2. <<sid, fresh[2] + 1>> \in (1 .. fresh'[1]) \X (1 .. fresh'[2])
    BY <1>5, CounterFacts
  <2>3. \A p \in Peer : derived'[p] \subseteq (1 .. fresh'[1]) \X (1 .. fresh'[2])
    BY <1>6, <2>1, <2>2, CounterFacts, PeerFacts
  <2>4. derived' = [p \in Peer |-> derived'[p]]
    BY <1>1 DEF Counters
  <2>5. derived' \in [Peer -> SUBSET ((1 .. fresh'[1]) \X (1 .. fresh'[2]))]
    BY <2>3, <2>4
  <2> QED
    BY <1>5, <2>5 DEF Counters
<1>8. \A p \in Peer : derived[p] \subseteq derived'[p]
  BY <1>6, PeerFacts
<1>9. \A p \in Peer : Held(p) \subseteq Held(p)'
  BY <1>8, HeldGrows
<1>10. t \in Held(2)'
  BY <1>2, <1>3, <1>6 DEF Held, Secret
<1>11. Keys'
  <2>1. ASSUME NEW p \in Peer, active'[p] # NoSession
        PROVE  /\ active'[p] \in Held(p)' /\ active'[p].hk # 0 /\ active'[p].everAuthenticated
               /\ Secret(active'[p]) \in derived'[Other(p)]
    BY <1>1, <1>8, <1>9, <2>1, PeerFacts DEF Keys
  <2>2. ASSUME NEW p \in Peer, pending'[p] # NoSession
        PROVE  pending'[p] \in Held(p)' /\ ~pending'[p].authenticated
    BY <1>1, <1>4, <1>9, <1>10, <2>2, PeerFacts DEF Keys
  <2>3. active' \in [Peer -> Session \cup {NoSession}]
    BY <1>1 DEF Keys
  <2> QED
    BY <1>4, <2>1, <2>2, <2>3 DEF Keys, Secret
<1>12. Secret(t) \notin derived[1]
  BY <1>3, CounterFacts, PeerFacts DEF Secret
<1>13. Order'
  BY <1>1, <1>3, <1>4, <1>5, <1>6, <1>12 DEF Order
<1> QED
  BY <1>7, <1>11, <1>13

\* Peer 1 derives the keys of its pending session, its last one: keys that the pending
\* session of peer 2 would need are not among them if that session is an older one.
LEMMA CompletesKeeps ==
    ASSUME Counters, Keys, Order, Completes
    PROVE  Counters' /\ Keys' /\ Order'
<1>1. PICK t \in Session :
        /\ pending[1] # NoSession
        /\ t.candidate # t.path /\ t.sid = pending[1].sid /\ ~t.authenticated
        /\ Secret(t) \in derived[2]
        /\ pending' = [pending EXCEPT ![1] = t]
        /\ derived' = [derived EXCEPT ![1] = derived[1] \cup {Secret(t)}]
        /\ UNCHANGED <<active, fresh>>
  BY DEF Completes
<1>2. Secret(t) \in (1 .. fresh[1]) \X (1 .. fresh[2]) /\ t # NoSession
  BY <1>1, PeerFacts, CounterFacts, SessionAssumption
<1>3. t.hk # 0 /\ t.sid = fresh[1]
  BY <1>1, <1>2, CounterFacts DEF Secret, Order
<1>4. pending'[1] = t /\ pending'[2] = pending[2] /\ pending' \in [Peer -> Session \cup {NoSession}]
  BY <1>1, PeerFacts DEF Keys
<1>5. derived'[1] = derived[1] \cup {Secret(t)} /\ derived'[2] = derived[2]
  BY <1>1, PeerFacts, CounterFacts
<1>6. Counters'
  <2>1. derived[1] \cup {Secret(t)} \in SUBSET ((1 .. fresh[1]) \X (1 .. fresh[2]))
    BY <1>2, CounterFacts, PeerFacts
  <2>2. derived' \in [Peer -> SUBSET ((1 .. fresh[1]) \X (1 .. fresh[2]))]
    BY <1>1, <2>1 DEF Counters
  <2> QED
    BY <1>1, <2>2 DEF Counters
<1>7. \A p \in Peer : derived[p] \subseteq derived'[p]
  BY <1>5, PeerFacts
<1>8. \A p \in Peer : Held(p) \subseteq Held(p)'
  BY <1>7, HeldGrows
<1>9. t \in Held(1)'
  BY <1>1, <1>5 DEF Held
<1>10. Keys'
  <2>1. ASSUME NEW p \in Peer, active'[p] # NoSession
        PROVE  /\ active'[p] \in Held(p)' /\ active'[p].hk # 0 /\ active'[p].everAuthenticated
               /\ Secret(active'[p]) \in derived'[Other(p)]
    BY <1>1, <1>7, <1>8, <2>1, PeerFacts DEF Keys
  <2>2. ASSUME NEW p \in Peer, pending'[p] # NoSession
        PROVE  pending'[p] \in Held(p)' /\ ~pending'[p].authenticated
    BY <1>1, <1>4, <1>8, <1>9, <2>2, PeerFacts DEF Keys
  <2>3. active' \in [Peer -> Session \cup {NoSession}]
    BY <1>1 DEF Keys
  <2> QED
    BY <1>4, <2>1, <2>2, <2>3 DEF Keys, Secret
<1>11. Order'
  <2>1. ASSUME active[2] # NoSession, pending[2] # NoSession, pending[2].sid < active[2].sid
        PROVE  Secret(pending[2]) # Secret(t)
    <3>1. Secret(active[2]) \in derived[1]
      BY <2>1, PeerFacts DEF Keys
    <3>2. Secret(active[2]) \in (1 .. fresh[1]) \X (1 .. fresh[2])
      BY <3>1, PeerFacts, CounterFacts
    <3>3. active[2].sid \in Nat /\ active[2].sid <= fresh[1]
      BY <3>2, CounterFacts DEF Secret
    <3>4. pending[2].sid \in Nat
      BY <2>1, PeerFacts, CounterFacts DEF Keys, Session
    <3>5. pending[2].sid # fresh[1]
      BY <2>1, <3>3, <3>4, CounterFacts
    <3> QED
      BY <1>3, <3>5 DEF Secret
  <2>2. pending[1].sid = fresh[1] /\ (active[1] # NoSession => active[1].sid < fresh[1])
    BY <1>1 DEF Order
  <2> QED
    BY <1>1, <1>3, <1>4, <1>5, <2>1, <2>2 DEF Order
<1> QED
  BY <1>6, <1>10, <1>11

\* A session is promoted.
LEMMA PromotesKeeps ==
    ASSUME Counters, Keys, Order, NEW p \in Peer, Promotes(p)
    PROVE  Keys' /\ Order'
<1>1. PICK t \in Session :
        /\ pending[p] # NoSession
        /\ Variant(t, pending[p]) /\ t.everAuthenticated /\ t.hk # 0
        /\ Secret(t) \in derived[Other(p)]
        /\ active' = [active EXCEPT ![p] = t]
        /\ pending' = [pending EXCEPT ![p] = NoSession]
        /\ UNCHANGED <<fresh, derived>>
  BY DEF Promotes
<1>2. /\ active'[p] = t /\ pending'[p] = NoSession
      /\ \A q \in Peer : q # p => active'[q] = active[q] /\ pending'[q] = pending[q]
      /\ active' \in [Peer -> Session \cup {NoSession}]
      /\ pending' \in [Peer -> Session \cup {NoSession}]
  BY <1>1 DEF Keys
<1>3. t \in Held(p)
  <2>1. pending[p] \in Held(p)
    BY <1>1 DEF Keys
  <2> QED
    BY <1>1, <2>1 DEF Held, Variant, Secret
<1>4. \A q \in Peer : Held(q)' = Held(q)
  BY <1>1 DEF Held
<1>5. Keys'
  <2>1. ASSUME NEW q \in Peer, active'[q] # NoSession
        PROVE  /\ active'[q] \in Held(q)' /\ active'[q].hk # 0 /\ active'[q].everAuthenticated
               /\ Secret(active'[q]) \in derived'[Other(q)]
    <3>1. CASE q = p
      BY <1>1, <1>2, <1>3, <1>4, <3>1
    <3>2. CASE q # p
      BY <1>1, <1>2, <1>4, <2>1, <3>2 DEF Keys
    <3> QED
      BY <3>1, <3>2
  <2>2. ASSUME NEW q \in Peer, pending'[q] # NoSession
        PROVE  pending'[q] \in Held(q)' /\ ~pending'[q].authenticated
    BY <1>2, <1>4, <2>2 DEF Keys
  <2> QED
    BY <1>2, <2>1, <2>2 DEF Keys, Secret
<1>6. Order'
  BY <1>1, <1>2, PeerFacts DEF Order
<1> QED
  BY <1>5, <1>6

\* Whatever the move, the sessions stay in order and their keys known.
LEMMA MoveKeeps ==
    ASSUME Counters, Keys, Order, Move
    PROVE  Counters' /\ Keys' /\ Order'
<1>1. ASSUME UNCHANGED <<fresh, derived>> PROVE Counters'
  BY <1>1 DEF Counters
<1> QED
  BY <1>1, TouchesKeep, InitiatesKeeps, RespondsKeeps, CompletesKeeps, PromotesKeeps
     DEF Move, Touches, Promotes

\* No move takes the session in use back to an earlier one: peer 1 promotes its last
\* session, and what peer 2 promotes has keys that peer 1 knows, so it is not an older one.
LEMMA MoveIsForward ==
    ASSUME Counters, Keys, Order, Move, NEW p \in Peer, active[p] # NoSession, active'[p] # NoSession
    PROVE  active'[p].sid >= active[p].sid
<1>1. active[p].sid \in Nat
  BY CounterFacts DEF Keys, Session
<1>2. CASE Touches
  BY <1>1, <1>2 DEF Touches, Variant
<1>3. CASE UNCHANGED active
  BY <1>1, <1>3
<1>4. ASSUME NEW q \in Peer, Promotes(q)
      PROVE  active'[p].sid >= active[p].sid
  <2>1. PICK t \in Session :
          /\ pending[q] # NoSession
          /\ Variant(t, pending[q]) /\ Secret(t) \in derived[Other(q)]
          /\ active' = [active EXCEPT ![q] = t]
    BY <1>4 DEF Promotes
  <2>2. CASE q # p
    BY <1>1, <2>1, <2>2 DEF Keys
  <2>3. CASE q = p
    <3>1. /\ active'[p] = t /\ t.sid = pending[p].sid /\ Secret(t) = Secret(pending[p])
          /\ pending[p].sid \in Nat
      BY <2>1, <2>3, CounterFacts DEF Keys, Variant, Session, Secret
    <3>2. CASE p = 1
      BY <1>1, <2>1, <2>3, <3>1, <3>2, CounterFacts DEF Order
    <3>3. CASE p = 2
      BY <1>1, <2>1, <2>3, <3>1, <3>3, PeerFacts DEF Order
    <3> QED
      BY <3>2, <3>3, PeerFacts
  <2> QED
    BY <2>2, <2>3
<1> QED
  BY <1>2, <1>3, <1>4 DEF Move, Initiates, Responds, Completes

-----------------------------------------------------------------------------
(* What the handlers do to a session *)

\* A candidate path is remembered, or the session pinged: it is the same session.
LEMMA TouchFacts ==
    ASSUME NEW s \in Session, s.candidate # s.path
    PROVE  /\ Variant(Pinged(s), s) /\ Pinged(s).authenticated = s.authenticated
           /\ \A r \in Path :
                LET t == RememberCandidatePath(s, r)
                IN  /\ Variant(t, s) /\ t.authenticated = s.authenticated
                    /\ Variant(Pinged(t), s) /\ Pinged(t).authenticated = s.authenticated
<1>1. ASSUME NEW t \in Session, t.candidate # t.path
      PROVE  Variant(Pinged(t), t) /\ Pinged(t).authenticated = t.authenticated
  <2> DEFINE tried == t.candidate # NoPath
  <2>1. Pinged(t) = t \/ Pinged(t) = [t EXCEPT !.ping = TRUE, !.candidatePing = tried]
    BY DEF Pinged
  <2>2. tried \in BOOLEAN
    OBVIOUS
  <2> HIDE DEF tried
  <2>3. CASE Pinged(t) = [t EXCEPT !.ping = TRUE, !.candidatePing = tried]
    <3>1. [t EXCEPT !.ping = TRUE, !.candidatePing = tried] \in Session
      BY <2>2 DEF Session
    <3>2. /\ Pinged(t).sid = t.sid /\ Pinged(t).hk = t.hk /\ Pinged(t).path = t.path
          /\ Pinged(t).candidate = t.candidate /\ Pinged(t).authenticated = t.authenticated
          /\ Pinged(t).everAuthenticated = t.everAuthenticated
      BY <2>3 DEF Session
    <3> QED
      BY <1>1, <2>3, <3>1, <3>2 DEF Variant
  <2> QED
    BY <1>1, <2>1, <2>3 DEF Variant
<1>2. ASSUME NEW r \in Path
      PROVE  LET t == RememberCandidatePath(s, r)
             IN  Variant(t, s) /\ t.authenticated = s.authenticated
  BY DEF RememberCandidatePath, Variant, Session
<1>3. ASSUME NEW r \in Path
      PROVE  LET t == RememberCandidatePath(s, r)
             IN  Variant(Pinged(t), s) /\ Pinged(t).authenticated = s.authenticated
  <2> DEFINE t == RememberCandidatePath(s, r)
  <2>1. Variant(t, s) /\ t.authenticated = s.authenticated
    BY <1>2
  <2>2. Variant(Pinged(t), t) /\ Pinged(t).authenticated = t.authenticated
    BY <1>1, <2>1 DEF Variant
  <2>3. Variant(Pinged(t), s) /\ Pinged(t).authenticated = s.authenticated
    <3> HIDE DEF t
    <3> QED
      BY <2>1, <2>2 DEF Variant
  <2> QED
    BY <2>3
<1> QED
  BY <1>1, <1>2, <1>3

\* One peer's session is replaced by a variant of it, or given up.
LEMMA TouchesOne ==
    ASSUME Keys, NEW p \in Peer, UNCHANGED <<fresh, derived>>,
           NEW a, NEW b,
           active' = [active EXCEPT ![p] = a], pending' = [pending EXCEPT ![p] = b],
           a \in {NoSession, active[p]} \/ (active[p] # NoSession /\ Variant(a, active[p])),
           \/ b \in {NoSession, pending[p]}
           \/ /\ pending[p] # NoSession /\ Variant(b, pending[p])
              /\ b.authenticated => pending[p].authenticated
    PROVE  Touches
<1>1. a \in Session \cup {NoSession} /\ b \in Session \cup {NoSession}
  BY DEF Keys, Variant
<1> QED
  BY <1>1 DEF Keys, Touches

\* The sessions are left alone.
LEMMA TouchesNone ==
    ASSUME Keys, UNCHANGED <<active, pending, fresh, derived>>
    PROVE  Touches
BY DEF Keys, Touches

\* What a peer knows of a session it holds.
LEMMA OwnFacts ==
    ASSUME Counters, Keys, Order, NEW p \in Peer, NEW s \in {active[p], pending[p]}, s # NoSession
    PROVE  /\ s \in Session /\ s.candidate # s.path
           /\ s.hk # 0 => Secret(s) \in derived[p]
           /\ p = 1 => s.sid \in 1 .. fresh[1]
           /\ p = 2 => s.hk # 0
<1>1. s \in Held(p)
  BY DEF Keys
<1>2. ASSUME p = 1 PROVE s.sid \in 1 .. fresh[1]
  <2>1. CASE s = pending[p]
    BY <1>1, <1>2, <2>1, CounterFacts DEF Order, Held, Session
  <2>2. CASE s = active[p]
    <3>1. Secret(s) \in derived[p]
      BY <1>1, <2>2 DEF Keys, Held
    <3>2. Secret(s) \in (1 .. fresh[1]) \X (1 .. fresh[2])
      BY <3>1, CounterFacts
    <3> QED
      BY <3>2 DEF Secret
  <2> QED
    BY <2>1, <2>2
<1> QED
  BY <1>1, <1>2 DEF Held

-----------------------------------------------------------------------------
(* Datagrams *)

\* What is sent is genuine: n sessions created by peer 1, keys derived.
LEMMA MessageFacts ==
    ASSUME NEW n \in Nat, NEW keys, NEW p \in Peer, NEW r \in Path, NEW s \in Session
    PROVE  /\ Probe(p, r) \in From(n, keys)
           /\ Secret(s) \in keys[p] =>
                \A type \in {"ping", "pong", "leave"} : Sealed(type, p, s, r) \in From(n, keys)
           /\ (p = 1 => s.sid \in 1 .. n) /\ (p = 2 => Secret(s) \in keys[2]) =>
                Hello(p, s, r) \in From(n, keys)
<1>1. s.sid \in Nat /\ s.hk \in Nat
  BY SessionAssumption DEF Session
<1>2. Probe(p, r) \in From(n, keys)
  BY DEF Probe, From, Message
<1>3. ASSUME Secret(s) \in keys[p], NEW type \in {"ping", "pong", "leave"}
      PROVE  Sealed(type, p, s, r) \in From(n, keys)
  BY <1>1, <1>3 DEF Sealed, From, Message, Secret
<1>4. ASSUME p = 1 => s.sid \in 1 .. n, p = 2 => Secret(s) \in keys[2]
      PROVE  Hello(p, s, r) \in From(n, keys)
  BY <1>1, <1>4, PeerFacts DEF Hello, From, Message, Secret
<1> QED
  BY <1>2, <1>3, <1>4

\* Pings are sealed with keys that the peer has.
LEMMA PingsType ==
    ASSUME NEW n \in Nat, NEW keys, NEW p \in Peer, NEW s \in Session, NEW again,
           s.hk # 0 => Secret(s) \in keys[p]
    PROVE  Pings(p, s, again) \in Seq(From(n, keys))
<1> DEFINE G == From(n, keys)
<1>1. <<>> \in Seq(G) /\ \A m \in G : <<m>> \in Seq(G)
  OBVIOUS
<1>2. SessionReady(s) => \A r \in Path : Sealed("ping", p, s, r) \in G
  BY MessageFacts DEF SessionReady
<1>3. s.path \in Path /\ s.candidate \in Path \cup {NoPath}
  BY DEF Session
<1> DEFINE one == IF s.path = NoPath \/ (s.ping /\ ~again) THEN <<>> ELSE <<Sealed("ping", p, s, s.path)>>
           two == IF s.candidate = NoPath \/ (s.candidatePing /\ ~again) THEN <<>>
                  ELSE <<Sealed("ping", p, s, s.candidate)>>
<1>4. Pings(p, s, again) = IF SessionReady(s) THEN one \o two ELSE <<>>
  BY DEF Pings
<1> HIDE DEF G
<1>5. SessionReady(s) => one \in Seq(G) /\ two \in Seq(G)
  BY <1>1, <1>2, <1>3
<1> HIDE DEF one, two
<1>6. SessionReady(s) => one \o two \in Seq(G)
  BY <1>5, ConcatProperties
<1> QED
  BY <1>1, <1>4, <1>6 DEF G

\* Sessions and keys are only added, so what is genuine stays so.
LEMMA TrafficGrows ==
    ASSUME Counters, Keys, Order, Traffic, Move
    PROVE  /\ fresh'[1] \in Nat /\ fresh[1] <= fresh'[1]
           /\ \A p \in Peer : derived[p] \subseteq derived'[p]
           /\ Genuine' = From(fresh'[1], derived') /\ Genuine \subseteq Genuine'
           /\ network \in [Peer \X Path -> Seq(Genuine')] /\ late \subseteq Genuine'
<1>1. fresh'[1] \in Nat /\ fresh[1] \in Nat /\ fresh[1] <= fresh'[1]
  BY PeerFacts, CounterFacts DEF Move, Touches, Initiates, Responds, Completes, Promotes, Counters
<1>2. \A p \in Peer : derived[p] \subseteq derived'[p]
  BY PeerFacts, CounterFacts DEF Move, Touches, Initiates, Responds, Completes, Promotes
<1>3. Genuine' = From(fresh'[1], derived')
  BY DEF Genuine
<1>4. From(fresh[1], derived) \subseteq From(fresh'[1], derived')
  <2> SUFFICES ASSUME NEW m \in From(fresh[1], derived)
               PROVE  m \in From(fresh'[1], derived')
    OBVIOUS
  <2>1. m \in Message /\ m.from \in Peer /\ m.sid \in Nat
    BY DEF From, Message
  <2> QED
    BY <1>1, <1>2, <2>1, PeerFacts DEF From
<1>5. Genuine \subseteq Genuine'
  BY <1>3, <1>4 DEF Genuine
<1>6. network \in [Peer \X Path -> Seq(Genuine')]
  <2>1. \A s \in Seq(Genuine) : s \in Seq(Genuine')
    BY <1>5, SeqMonotonic
  <2> QED
    BY <2>1 DEF Traffic
<1> QED
  BY <1>1, <1>2, <1>3, <1>5, <1>6 DEF Traffic

\* A handler that sends genuine datagrams.
LEMMA AnswerTraffic ==
    ASSUME Counters, Keys, Order, Traffic, Move, NEW m \in Genuine, NEW out \in Seq(Genuine'),
           Answer(m, out)
    PROVE  Traffic'
<1>1. m.from \in Peer /\ m.path \in Path
  BY DEF Genuine, From, Message
<1>2. network' \in [Peer \X Path -> Seq(Genuine')] /\ late' \subseteq Genuine'
  BY <1>1, TrafficGrows, AnswerType
<1> QED
  BY <1>2 DEF Traffic

\* A ticker that sends genuine datagrams.
LEMMA SentTraffic ==
    ASSUME Counters, Keys, Order, Traffic, Move, NEW out \in Seq(Genuine'),
           network' = Sent(network, out), UNCHANGED late
    PROVE  Traffic'
<1>1. network' \in [Peer \X Path -> Seq(Genuine')]
  BY TrafficGrows, SentType
<1> QED
  BY <1>1, TrafficGrows DEF Traffic

\* Sequences of one datagram, and of one followed by pings.
LEMMA OutType ==
    ASSUME NEW G
    PROVE  /\ <<>> \in Seq(G)
           /\ \A m \in G : <<m>> \in Seq(G)
           /\ \A m \in G : \A more \in Seq(G) : <<m>> \o more \in Seq(G)
<1>1. <<>> \in Seq(G) /\ \A m \in G : <<m>> \in Seq(G)
  OBVIOUS
<1> QED
  BY <1>1, ConcatProperties

\* What a peer says of a session it holds is genuine.
LEMMA OwnMessages ==
    ASSUME Counters, Keys, Order, Traffic, Move, NEW p \in Peer, NEW r \in Path, NEW again,
           NEW s \in {active[p], pending[p]}, s # NoSession, NEW t, Variant(t, s)
    PROVE  /\ Hello(p, t, r) \in Genuine' /\ Pings(p, t, again) \in Seq(Genuine')
           /\ s.hk # 0 =>
                \A type \in {"ping", "pong", "leave"} : Sealed(type, p, t, r) \in Genuine'
<1>1. /\ t \in Session /\ t.sid = s.sid /\ Secret(t) = Secret(s) /\ t.hk = s.hk
      /\ s.hk # 0 => Secret(s) \in derived[p]
      /\ p = 1 => s.sid \in 1 .. fresh[1]
      /\ p = 2 => s.hk # 0
  BY OwnFacts DEF Variant, Secret
<1>2. /\ fresh'[1] \in Nat /\ fresh[1] <= fresh'[1] /\ derived[p] \subseteq derived'[p]
      /\ Genuine' = From(fresh'[1], derived') /\ fresh[1] \in Nat
  BY TrafficGrows, CounterFacts
<1>3. p = 1 => t.sid \in 1 .. fresh'[1]
  BY <1>1, <1>2
<1>4. s.hk # 0 => Secret(t) \in derived'[p]
  BY <1>1, <1>2
<1>5. Hello(p, t, r) \in From(fresh'[1], derived')
  BY <1>1, <1>2, <1>3, <1>4, MessageFacts
<1>6. Pings(p, t, again) \in Seq(From(fresh'[1], derived'))
  BY <1>1, <1>2, <1>4, PingsType
<1>7. s.hk # 0 => \A type \in {"ping", "pong", "leave"} :
                     Sealed(type, p, t, r) \in From(fresh'[1], derived')
  BY <1>1, <1>2, <1>4, MessageFacts
<1> QED
  BY <1>2, <1>5, <1>6, <1>7

-----------------------------------------------------------------------------
(* Handlers *)

\* startInitiatingSession
LEMMA StartInitiatingStep ==
    ASSUME Counters, Keys, Order, Traffic, NEW m \in Genuine, NEW path \in Path,
           StartInitiatingSession(1, m, path)
    PROVE  Move /\ Traffic'
<1> DEFINE s == NewSession(fresh[1] + 1, 0, path)
<1>1. /\ fresh[1] < MaxFresh /\ pending' = [pending EXCEPT ![1] = s]
      /\ Answer(m, <<Hello(1, s, path)>>)
      /\ fresh' = [fresh EXCEPT ![1] = fresh[1] + 1] /\ UNCHANGED <<active, derived>>
  BY DEF StartInitiatingSession, SetPending
<1>2. Initiates
  BY <1>1 DEF Initiates
<1>3. Move
  BY <1>2 DEF Move
<1>4. s \in Session /\ s.sid = fresh[1] + 1
  <2>1. fresh[1] + 1 \in 1 .. MaxFresh /\ 0 \in 0 .. MaxFresh
    BY <1>1, CounterFacts
  <2> QED
    BY <2>1, NewSessionFacts
<1>5. fresh'[1] = fresh[1] + 1 /\ fresh[1] \in Nat
  BY <1>1, PeerFacts, CounterFacts
<1>6. s.sid \in 1 .. fresh'[1]
  BY <1>4, <1>5
<1> HIDE DEF s
<1>7. Hello(1, s, path) \in Genuine'
  <2>1. fresh'[1] \in Nat /\ Genuine' = From(fresh'[1], derived') /\ 1 \in Peer
    BY <1>3, TrafficGrows, PeerFacts
  <2>2. Hello(1, s, path) \in From(fresh'[1], derived')
    <3>1. s.sid \in Nat
      BY <1>4, <1>5
    <3> QED
      BY <1>6, <2>1, <3>1 DEF Hello, From, Message
  <2> QED
    BY <2>1, <2>2
<1>8. <<Hello(1, s, path)>> \in Seq(Genuine')
  BY <1>7, OutType
<1> QED
  BY <1>1, <1>3, <1>8, AnswerTraffic

\* handleHelloProbe
LEMMA ProbeStep ==
    ASSUME Counters, Keys, Order, Traffic, NEW p \in Peer, NEW m \in Genuine,
           NEW again, HandleHelloProbe(p, m, again)
    PROVE  Move /\ Traffic'
<1>m. m.path \in Path
  BY DEF Genuine, From, Message
<1>1. CASE pending[p] # NoSession \/ active[p] # NoSession
  <2> DEFINE usePending == pending[p] # NoSession
             own == IF usePending THEN pending[p] ELSE active[p]
             s == RememberCandidatePath(own, m.path)
  <2>1. /\ IF usePending THEN SetPending(p, Pinged(s)) /\ UNCHANGED active
                         ELSE SetActive(p, Pinged(s)) /\ UNCHANGED pending
        /\ Answer(m, <<Hello(p, s, m.path)>> \o Pings(p, s, again))
        /\ UNCHANGED <<fresh, derived>>
    BY <1>1 DEF HandleHelloProbe, AnswerProbe
  <2>2. own \in {active[p], pending[p]} /\ own # NoSession /\ own \in Session /\ own.candidate # own.path
    BY <1>1, OwnFacts
  <2>3. /\ Variant(s, own) /\ s.authenticated = own.authenticated
        /\ Variant(Pinged(s), own) /\ Pinged(s).authenticated = own.authenticated
    <3> HIDE DEF own
    <3> QED
      BY <1>m, <2>2, TouchFacts
  <2>4. active = [active EXCEPT ![p] = active[p]] /\ pending = [pending EXCEPT ![p] = pending[p]]
    BY DEF Keys
  <2>5. Touches
    <3>1. CASE usePending
      <4>1. pending' = [pending EXCEPT ![p] = Pinged(s)] /\ active' = [active EXCEPT ![p] = active[p]]
        BY <2>1, <2>4, <3>1 DEF SetPending
      <4>2. Variant(Pinged(s), pending[p]) /\ Pinged(s).authenticated = pending[p].authenticated
        BY <2>3, <3>1
      <4> HIDE DEF s, own
      <4> QED
        BY <2>1, <3>1, <4>1, <4>2, TouchesOne
    <3>2. CASE ~usePending
      <4>1. active' = [active EXCEPT ![p] = Pinged(s)] /\ pending' = [pending EXCEPT ![p] = pending[p]]
        BY <2>1, <2>4, <3>2 DEF SetActive
      <4>2. Variant(Pinged(s), active[p]) /\ active[p] # NoSession
        BY <1>1, <2>3, <3>2
      <4> HIDE DEF s, own
      <4> QED
        BY <2>1, <4>1, <4>2, TouchesOne
    <3> QED
      BY <3>1, <3>2
  <2>6. Move
    BY <2>5 DEF Move
  <2>7. Hello(p, s, m.path) \in Genuine' /\ Pings(p, s, again) \in Seq(Genuine')
    <3> HIDE DEF s, own
    <3> QED
      BY <1>m, <2>2, <2>3, <2>6, OwnMessages
  <2>8. <<Hello(p, s, m.path)>> \o Pings(p, s, again) \in Seq(Genuine')
    BY <2>7, OutType
  <2> HIDE DEF s, own, usePending
  <2> QED
    BY <2>1, <2>6, <2>8, AnswerTraffic
<1>2. CASE pending[p] = NoSession /\ active[p] = NoSession /\ p = 1
  <2>1. StartInitiatingSession(1, m, m.path)
    BY <1>2, PeerFacts DEF HandleHelloProbe
  <2> QED
    BY <1>m, <2>1, StartInitiatingStep
<1>3. CASE pending[p] = NoSession /\ active[p] = NoSession /\ p = 2
  <2>1. Answer(m, <<Probe(p, m.path)>>) /\ UNCHANGED <<active, pending, fresh, derived>>
    BY <1>3, PeerFacts DEF HandleHelloProbe
  <2>2. Move
    BY <2>1, TouchesNone DEF Move
  <2>3. Probe(p, m.path) \in Genuine'
    <3>1. Probe(p, m.path) \in Message /\ Probe(p, m.path).type = "probe"
      BY <1>m DEF Probe, Message
    <3> QED
      BY <2>2, <3>1, TrafficGrows DEF From
  <2> QED
    BY <2>1, <2>2, <2>3, OutType, AnswerTraffic
<1> QED
  BY <1>1, <1>2, <1>3, PeerFacts

\* A hello of the other peer, as the one that receives it can rely on it.
LEMMA HelloFacts ==
    ASSUME Counters, NEW p \in Peer, NEW m \in Genuine, m.from = Other(p), m.type = "hello"
    PROVE  /\ m.path \in Path
           /\ p = 2 => m.sid \in 1 .. fresh[1]
           /\ p = 1 => /\ <<m.sid, m.hk>> \in derived[2]
                       /\ m.sid \in 1 .. MaxFresh /\ m.hk \in 1 .. MaxFresh
<1>1. m.path \in Path
  BY DEF Genuine, From, Message
<1>2. p = 2 => m.sid \in 1 .. fresh[1]
  BY PeerFacts DEF Genuine, From
<1>3. ASSUME p = 1
      PROVE  /\ <<m.sid, m.hk>> \in derived[2]
             /\ m.sid \in 1 .. MaxFresh /\ m.hk \in 1 .. MaxFresh
  <2>1. <<m.sid, m.hk>> \in derived[2]
    BY <1>3, PeerFacts DEF Genuine, From
  <2>2. <<m.sid, m.hk>> \in (1 .. fresh[1]) \X (1 .. fresh[2])
    BY <2>1, PeerFacts, CounterFacts
  <2>3. m.sid \in 1 .. fresh[1] /\ m.hk \in 1 .. fresh[2]
    BY <2>2
  <2> QED
    BY <2>1, <2>3, CounterFacts
<1> QED
  BY <1>1, <1>2, <1>3

\* A session resumed by a hello whose keys it has: nothing is derived that was not.
LEMMA ResumedKnown ==
    ASSUME Counters, Keys, Order, NEW p \in Peer, NEW m \in Genuine, m.from = Other(p),
           m.type = "hello", NEW s \in {active[p], pending[p]}, MatchesHello(p, s, m),
           s.hk # 0
    PROVE  /\ Variant(Resumed(p, s, m), s) /\ Resumed(p, s, m).authenticated = s.authenticated
           /\ Variant(Pinged(Resumed(p, s, m)), s)
           /\ Pinged(Resumed(p, s, m)).authenticated = s.authenticated
           /\ derived = [derived EXCEPT ![p] = derived[p] \cup {Secret(Resumed(p, s, m))}]
<1>1. /\ s # NoSession /\ s \in Session /\ s.candidate # s.path /\ Secret(s) \in derived[p]
      /\ m.path \in Path
  BY OwnFacts, HelloFacts DEF MatchesHello
<1>2. (IF p = 1 THEN [s EXCEPT !.hk = m.hk] ELSE s) = s
  <2>1. p = 1 => s.hk = m.hk
    BY DEF MatchesHello
  <2>2. [s EXCEPT !.hk = s.hk] = s
    BY <1>1 DEF Session
  <2> QED
    BY <2>1, <2>2
<1>3. Resumed(p, s, m) = RememberCandidatePath(s, m.path)
  BY <1>2 DEF Resumed
<1>4. /\ Variant(Resumed(p, s, m), s) /\ Resumed(p, s, m).authenticated = s.authenticated
      /\ Variant(Pinged(Resumed(p, s, m)), s)
      /\ Pinged(Resumed(p, s, m)).authenticated = s.authenticated
  BY <1>1, <1>3, TouchFacts
<1>5. Secret(Resumed(p, s, m)) = Secret(s)
  BY <1>4 DEF Variant, Secret
<1>6. derived[p] \cup {Secret(s)} = derived[p] /\ derived = [derived EXCEPT ![p] = derived[p]]
  BY <1>1, CounterFacts DEF Counters
<1> QED
  BY <1>4, <1>5, <1>6

\* resumeSessionFromHello, of the active session
LEMMA ResumeActiveStep ==
    ASSUME Counters, Keys, Order, Traffic, NEW p \in Peer, NEW m \in Genuine, m.from = Other(p),
           m.type = "hello", NEW again, MatchesHello(p, active[p], m), ResumeActive(p, m, again)
    PROVE  Move /\ Traffic'
<1> DEFINE s == Resumed(p, active[p], m)
<1>1. /\ active' = [active EXCEPT ![p] = Pinged(s)] /\ Answer(m, Pings(p, s, again))
      /\ derived' = [derived EXCEPT ![p] = derived[p] \cup {Secret(s)}]
      /\ UNCHANGED <<pending, fresh>>
  BY DEF ResumeActive, SetActive, Derive
<1>2. active[p] # NoSession /\ active[p].hk # 0
  BY DEF MatchesHello, Keys
<1>3. Variant(s, active[p]) /\ Variant(Pinged(s), active[p]) /\ derived' = derived
  BY <1>1, <1>2, ResumedKnown
<1>4. pending' = [pending EXCEPT ![p] = pending[p]]
  BY <1>1 DEF Keys
<1>5. m.path \in Path
  BY HelloFacts
<1> HIDE DEF s
<1>6. Touches
  BY <1>1, <1>2, <1>3, <1>4, TouchesOne
<1>7. Move
  BY <1>6 DEF Move
<1>8. Pings(p, s, again) \in Seq(Genuine')
  BY <1>2, <1>3, <1>5, <1>7, OwnMessages
<1> QED
  BY <1>1, <1>7, <1>8, AnswerTraffic

\* resumeSessionFromHello, of the pending session
LEMMA ResumePendingStep ==
    ASSUME Counters, Keys, Order, Traffic, NEW p \in Peer, NEW m \in Genuine, m.from = Other(p),
           m.type = "hello", NEW again, MatchesHello(p, pending[p], m), ResumePending(p, m, again)
    PROVE  Move /\ Traffic'
<1> DEFINE s == Resumed(p, pending[p], m)
<1>1. /\ pending' = [pending EXCEPT ![p] = Pinged(s)] /\ Answer(m, Pings(p, s, again))
      /\ derived' = [derived EXCEPT ![p] = derived[p] \cup {Secret(s)}]
      /\ UNCHANGED <<active, fresh>>
  BY DEF ResumePending, SetPending, Derive
<1>2. /\ pending[p] # NoSession /\ pending[p] \in Session /\ ~pending[p].authenticated
      /\ pending[p].candidate # pending[p].path
  BY OwnFacts DEF MatchesHello, Keys
<1>3. m.path \in Path
  BY HelloFacts
<1>4. CASE pending[p].hk # 0
  <2>1. /\ Variant(s, pending[p]) /\ Variant(Pinged(s), pending[p]) /\ derived' = derived
        /\ Pinged(s).authenticated = pending[p].authenticated
    BY <1>1, <1>4, ResumedKnown
  <2>2. active' = [active EXCEPT ![p] = active[p]]
    BY <1>1 DEF Keys
  <2> HIDE DEF s
  <2>3. Touches
    BY <1>1, <1>2, <2>1, <2>2, TouchesOne
  <2>4. Move
    BY <2>3 DEF Move
  <2>5. Pings(p, s, again) \in Seq(Genuine')
    BY <1>2, <1>3, <2>1, <2>4, OwnMessages
  <2> QED
    BY <1>1, <2>4, <2>5, AnswerTraffic
<1>5. CASE pending[p].hk = 0
  <2>1. p = 1
    BY <1>2, <1>5, OwnFacts, PeerFacts
  <2> DEFINE c == [pending[p] EXCEPT !.hk = m.hk]
  <2>2. <<m.sid, m.hk>> \in derived[2] /\ m.hk \in 0 .. MaxFresh /\ m.hk # 0 /\ m.sid = pending[p].sid
    BY <2>1, HelloFacts, SessionAssumption DEF MatchesHello
  <2>3. /\ c \in Session /\ c.candidate # c.path /\ c.sid = pending[p].sid /\ c.hk = m.hk
        /\ c.authenticated = pending[p].authenticated
    BY <1>2, <2>2 DEF Session
  <2>4. s = RememberCandidatePath(c, m.path)
    BY <2>1 DEF Resumed
  <2> HIDE DEF c, s
  <2>5. /\ Variant(s, c) /\ Variant(Pinged(s), c) /\ s.authenticated = c.authenticated
        /\ Pinged(s).authenticated = c.authenticated
    BY <1>3, <2>3, <2>4, TouchFacts
  <2>6. /\ Secret(s) = <<m.sid, m.hk>> /\ Secret(Pinged(s)) = Secret(s)
        /\ Pinged(s).sid = pending[p].sid /\ s \in Session /\ Pinged(s) \in Session
        /\ Pinged(s).candidate # Pinged(s).path /\ ~Pinged(s).authenticated
    BY <1>2, <2>2, <2>3, <2>5 DEF Variant, Secret
  <2>7. Completes
    <3> DEFINE t == Pinged(s)
    <3> HIDE DEF t
    <3> SUFFICES /\ t \in Session /\ pending[1] # NoSession
                 /\ t.candidate # t.path /\ t.sid = pending[1].sid /\ ~t.authenticated
                 /\ Secret(t) \in derived[2]
                 /\ pending' = [pending EXCEPT ![1] = t]
                 /\ derived' = [derived EXCEPT ![1] = derived[1] \cup {Secret(t)}]
                 /\ UNCHANGED <<active, fresh>>
      BY DEF Completes
    <3> QED
      BY <1>1, <1>2, <2>1, <2>2, <2>6 DEF t
  <2>8. Move
    BY <2>7 DEF Move
  <2>9. Secret(s) \in derived'[p]
    BY <1>1, CounterFacts
  <2>10. Pings(p, s, again) \in Seq(Genuine')
    <3>1. fresh'[1] \in Nat /\ Genuine' = From(fresh'[1], derived')
      BY <2>8, TrafficGrows
    <3> QED
      BY <2>6, <2>9, <3>1, PingsType
  <2> QED
    BY <1>1, <2>8, <2>10, AnswerTraffic
<1> QED
  BY <1>4, <1>5

\* handleUnexpectedResponderHello
LEMMA UnexpectedHelloStep ==
    ASSUME Counters, Keys, Order, Traffic, NEW m \in Genuine, m.from = Other(1), m.type = "hello",
           HandleUnexpectedResponderHello(1, m)
    PROVE  Move /\ Traffic'
<1> DEFINE usePending == pending[1] # NoSession
           current == IF usePending THEN pending[1] ELSE active[1]
           s == RememberCandidatePath(current, m.path)
<1>m. m.path \in Path /\ 1 \in Peer
  BY HelloFacts, PeerFacts
<1>1. CASE current # NoSession /\ current.sid # m.sid
  <2>1. /\ IF usePending THEN SetPending(1, s) /\ UNCHANGED active
                         ELSE SetActive(1, s) /\ UNCHANGED pending
        /\ Answer(m, <<Hello(1, s, m.path)>>)
        /\ UNCHANGED <<fresh, derived>>
    BY <1>1 DEF HandleUnexpectedResponderHello
  <2>2. /\ current \in {active[1], pending[1]} /\ current # NoSession /\ current \in Session
        /\ current.candidate # current.path
    BY <1>1, <1>m, OwnFacts
  <2>3. Variant(s, current) /\ s.authenticated = current.authenticated
    <3> HIDE DEF current
    <3> QED
      BY <1>m, <2>2, TouchFacts
  <2>4. active = [active EXCEPT ![1] = active[1]] /\ pending = [pending EXCEPT ![1] = pending[1]]
    BY DEF Keys
  <2>5. Touches
    <3>1. CASE usePending
      <4>1. pending' = [pending EXCEPT ![1] = s] /\ active' = [active EXCEPT ![1] = active[1]]
        BY <2>1, <2>4, <3>1 DEF SetPending
      <4>2. Variant(s, pending[1]) /\ s.authenticated = pending[1].authenticated
        BY <2>3, <3>1
      <4> HIDE DEF s, current
      <4> QED
        BY <1>m, <2>1, <3>1, <4>1, <4>2, TouchesOne
    <3>2. CASE ~usePending
      <4>1. active' = [active EXCEPT ![1] = s] /\ pending' = [pending EXCEPT ![1] = pending[1]]
        BY <2>1, <2>4, <3>2 DEF SetActive
      <4>2. Variant(s, active[1]) /\ active[1] # NoSession
        BY <1>1, <2>3, <3>2
      <4> HIDE DEF s, current
      <4> QED
        BY <1>m, <2>1, <4>1, <4>2, TouchesOne
    <3> QED
      BY <3>1, <3>2
  <2>6. Move
    BY <2>5 DEF Move
  <2>7. Hello(1, s, m.path) \in Genuine'
    <3> HIDE DEF s, current
    <3> QED
      BY <1>m, <2>2, <2>3, <2>6, OwnMessages
  <2>8. <<Hello(1, s, m.path)>> \in Seq(Genuine')
    BY <2>7, OutType
  <2> HIDE DEF s, current, usePending
  <2> QED
    BY <2>1, <2>6, <2>8, AnswerTraffic
<1>2. CASE ~(current # NoSession /\ current.sid # m.sid)
  <2>1. StartInitiatingSession(1, m, m.path)
    BY <1>2 DEF HandleUnexpectedResponderHello
  <2> QED
    BY <1>m, <2>1, StartInitiatingStep
<1> QED
  BY <1>1, <1>2

\* The larger peer answers a hello with a session of its own.
LEMMA StartRespondingStep ==
    ASSUME Counters, Keys, Order, Traffic, NEW m \in Genuine, m.from = Other(2), m.type = "hello",
           NEW again, ~MatchesHello(2, active[2], m), StartRespondingSession(2, m, again)
    PROVE  Move /\ Traffic'
<1> DEFINE s == NewSession(m.sid, fresh[2] + 1, m.path)
<1>1. /\ fresh[2] < MaxFresh
      /\ pending' = [pending EXCEPT ![2] = Pinged(s)]
      /\ Answer(m, <<Hello(2, s, m.path)>> \o Pings(2, s, again))
      /\ derived' = [derived EXCEPT ![2] = derived[2] \cup {Secret(s)}]
      /\ fresh' = [fresh EXCEPT ![2] = fresh[2] + 1]
      /\ UNCHANGED active
  BY DEF StartRespondingSession, SetPending, Derive
<1>2. m.path \in Path /\ m.sid \in 1 .. fresh[1] /\ 2 \in Peer
  BY HelloFacts, PeerFacts
<1>3. m.sid \in 1 .. MaxFresh /\ fresh[2] + 1 \in 0 .. MaxFresh
  BY <1>1, <1>2, CounterFacts
<1>4. /\ s \in Session /\ s.candidate # s.path
      /\ s.sid = m.sid /\ s.hk = fresh[2] + 1 /\ ~s.authenticated
  BY <1>2, <1>3, NewSessionFacts
<1>5. Variant(Pinged(s), s) /\ Pinged(s).authenticated = s.authenticated
  <2> HIDE DEF s
  <2> QED
    BY <1>4, TouchFacts
<1>6. active[2] # NoSession => active[2].sid # m.sid
  BY DEF MatchesHello
<1>7. Secret(s) = <<m.sid, fresh[2] + 1>>
  BY <1>4 DEF Secret
<1>8. Responds
  <2> DEFINE t == Pinged(s)
  <2>1. t \in Session /\ Variant(t, NewSession(m.sid, fresh[2] + 1, m.path)) /\ ~t.authenticated
    BY <1>4, <1>5 DEF Variant
  <2>2. pending' = [pending EXCEPT ![2] = t]
    BY <1>1
  <2>3. derived' = [derived EXCEPT ![2] = derived[2] \cup {<<m.sid, fresh[2] + 1>>}]
    BY <1>1, <1>7
  <2> HIDE DEF t, s
  <2> QED
    BY <1>1, <1>2, <1>6, <2>1, <2>2, <2>3 DEF Responds
<1>9. Move
  BY <1>8 DEF Move
<1> HIDE DEF s
<1>10. Secret(s) \in derived'[2]
  BY <1>1, <1>2, CounterFacts
<1>11. fresh'[1] \in Nat /\ Genuine' = From(fresh'[1], derived')
  BY <1>9, TrafficGrows
<1>12. Pings(2, s, again) \in Seq(Genuine')
  BY <1>2, <1>4, <1>10, <1>11, PingsType
<1>13. Hello(2, s, m.path) \in Genuine'
  <2>1. \A q \in Peer : q = 2 => Hello(q, s, m.path) \in From(fresh'[1], derived')
    BY <1>2, <1>4, <1>10, <1>11, MessageFacts
  <2> QED
    BY <1>2, <1>11, <2>1
<1>14. <<Hello(2, s, m.path)>> \o Pings(2, s, again) \in Seq(Genuine')
  BY <1>12, <1>13, OutType
<1> QED
  BY <1>1, <1>9, <1>14, AnswerTraffic

\* handleSessionHello
LEMMA HelloStep ==
    ASSUME Counters, Keys, Order, Traffic, NEW p \in Peer, NEW m \in Genuine, m.from = Other(p),
           m.type = "hello", NEW again, HandleSessionHello(p, m, again)
    PROVE  Move /\ Traffic'
<1>1. CASE MatchesHello(p, active[p], m)
  <2>1. ResumeActive(p, m, again)
    BY <1>1 DEF HandleSessionHello
  <2> QED
    BY <1>1, <2>1, ResumeActiveStep
<1>2. CASE ~MatchesHello(p, active[p], m) /\ MatchesHello(p, pending[p], m)
  <2>1. ResumePending(p, m, again)
    BY <1>2 DEF HandleSessionHello
  <2> QED
    BY <1>2, <2>1, ResumePendingStep
<1>3. CASE ~MatchesHello(p, active[p], m) /\ ~MatchesHello(p, pending[p], m)
  <2>1. CASE p = 1
    <3>1. HandleUnexpectedResponderHello(1, m)
      BY <1>3, <2>1, PeerFacts DEF HandleSessionHello
    <3> QED
      BY <2>1, <3>1, UnexpectedHelloStep
  <2>2. CASE p = 2
    <3>1. StartRespondingSession(2, m, again)
      BY <1>3, <2>2, PeerFacts DEF HandleSessionHello
    <3> QED
      BY <1>3, <2>2, <3>1, StartRespondingStep
  <2> QED
    BY <2>1, <2>2, PeerFacts
<1> QED
  BY <1>1, <1>2, <1>3

\* A sealed packet of the other peer was sealed with keys that it has derived.
LEMMA SealedFacts ==
    ASSUME NEW p \in Peer, NEW m \in Genuine, m.from = Other(p), m.type \in {"ping", "pong", "leave"}
    PROVE  m.path \in Path /\ <<m.sid, m.hk>> \in derived[Other(p)]
BY DEF Genuine, From, Message

\* handleSessionPacketOnPath, ping
LEMMA PingStep ==
    ASSUME Counters, Keys, Order, Traffic, NEW p \in Peer, NEW m \in Genuine, m.from = Other(p),
           m.type = "ping", HandlePing(p, m)
    PROVE  Move /\ Traffic'
<1> DEFINE s == IF UsesActive(p, m) THEN active[p] ELSE pending[p]
<1>1. /\ UsesActive(p, m) \/ UsesPending(p, m)
      /\ Answer(m, <<Sealed("pong", p, s, m.path)>>)
      /\ UNCHANGED <<active, pending, fresh, derived>>
  BY DEF HandlePing
<1>2. s \in {active[p], pending[p]} /\ s # NoSession /\ s.hk # 0
  BY <1>1 DEF UsesActive, UsesPending, SessionForHeader, SessionReady
<1> HIDE DEF s
<1>3. Variant(s, s)
  BY <1>2, OwnFacts DEF Variant
<1>4. Move
  BY <1>1, TouchesNone DEF Move
<1>5. m.path \in Path
  BY SealedFacts
<1>6. Sealed("pong", p, s, m.path) \in Genuine'
  BY <1>2, <1>3, <1>4, <1>5, OwnMessages
<1> QED
  BY <1>1, <1>4, <1>6, OutType, AnswerTraffic

\* A session after a pong.
LEMMA AuthenticatedFacts ==
    ASSUME NEW s \in Session, s.candidate # s.path, NEW m, m.path \in Path, NEW promote \in BOOLEAN
    PROVE  /\ Variant(Authenticated(s, m, promote), s)
           /\ promote => Authenticated(s, m, promote).everAuthenticated
<1>1. NoPath # m.path /\ NoPath # s.path
  BY SessionAssumption DEF Session
<1>2. CASE m.path # s.candidate
  BY <1>2 DEF Authenticated, Variant, Session
<1>3. CASE m.path = s.candidate /\ promote
  BY <1>1, <1>3 DEF Authenticated, Variant, Session
<1>4. CASE m.path = s.candidate /\ ~promote
  BY <1>1, <1>4 DEF Authenticated, Variant, Session
<1> QED
  BY <1>2, <1>3, <1>4

\* handleSessionPacketOnPath, pong: only keys that the other end has derived can have
\* sealed it.
LEMMA PongStep ==
    ASSUME Counters, Keys, Order, Traffic, NEW p \in Peer, NEW m \in Genuine, m.from = Other(p),
           m.type = "pong", HandlePong(p, m)
    PROVE  Move /\ Traffic'
<1> DEFINE s == IF UsesActive(p, m) THEN active[p] ELSE pending[p]
<1>1. PICK promote \in PromotePathChoices(s, m.path) :
        active' = [active EXCEPT ![p] = Authenticated(s, m, promote)]
  BY DEF HandlePong, SetActive
<1>2. /\ UsesActive(p, m) \/ UsesPending(p, m)
      /\ Opens(s, m)
      /\ pending' = [pending EXCEPT ![p] = IF UsesActive(p, m) THEN pending[p] ELSE NoSession]
      /\ Answer(m, <<>>)
      /\ UNCHANGED <<fresh, derived>>
  BY DEF HandlePong
<1>3. s \in {active[p], pending[p]} /\ s # NoSession /\ s.hk # 0 /\ s \in Session /\ s.candidate # s.path
  BY <1>2, OwnFacts DEF UsesActive, UsesPending, SessionForHeader, SessionReady
<1>4. promote \in BOOLEAN /\ (~s.authenticated => promote)
  BY DEF PromotePathChoices
<1>5. m.path \in Path /\ Secret(s) \in derived[Other(p)]
  BY <1>2, SealedFacts DEF Opens
<1> DEFINE t == Authenticated(s, m, promote)
<1>6. Variant(t, s) /\ (~s.authenticated => t.everAuthenticated)
  <2> HIDE DEF s
  <2> QED
    BY <1>3, <1>4, <1>5, AuthenticatedFacts
<1>7. CASE UsesActive(p, m)
  <2>1. /\ active' = [active EXCEPT ![p] = t] /\ pending' = [pending EXCEPT ![p] = pending[p]]
        /\ Variant(t, active[p]) /\ active[p] # NoSession
    BY <1>1, <1>2, <1>3, <1>6, <1>7
  <2> HIDE DEF t, s
  <2>2. Touches
    BY <1>2, <2>1, TouchesOne
  <2> QED
    BY <1>2, <2>2, OutType, AnswerTraffic DEF Move
<1>8. CASE ~UsesActive(p, m)
  <2>1. /\ active' = [active EXCEPT ![p] = t] /\ pending' = [pending EXCEPT ![p] = NoSession]
        /\ Variant(t, pending[p]) /\ pending[p] # NoSession /\ t.everAuthenticated /\ t.hk # 0
        /\ Secret(t) = Secret(s) /\ t \in Session
    BY <1>1, <1>2, <1>3, <1>6, <1>8 DEF Keys, Variant, Secret
  <2> HIDE DEF t, s
  <2>2. Promotes(p)
    BY <1>2, <1>5, <2>1 DEF Promotes
  <2> QED
    BY <1>2, <2>2, OutType, AnswerTraffic DEF Move
<1> QED
  BY <1>7, <1>8

\* handleLeavePacketOnPath
LEMMA LeaveStep ==
    ASSUME Counters, Keys, Order, Traffic, NEW p \in Peer, NEW m \in Genuine, HandleLeave(p, m)
    PROVE  Move /\ Traffic'
<1>1. /\ active' = [active EXCEPT ![p] = NoSession] /\ pending' = [pending EXCEPT ![p] = NoSession]
      /\ Answer(m, <<>>) /\ UNCHANGED <<fresh, derived>>
  BY DEF HandleLeave, SetActive, SetPending
<1>2. Touches
  BY <1>1, TouchesOne
<1> QED
  BY <1>1, <1>2, OutType, AnswerTraffic DEF Move

\* A datagram is received.
LEMMA ReceiveStep ==
    ASSUME Counters, Keys, Order, Traffic, NEW p \in Peer,
           NEW type \in {"probe", "hello", "ping", "pong", "leave"}, Receive(p, type)
    PROVE  Move /\ Traffic' /\ UNCHANGED <<left, allowed>>
<1>1. PICK m \in late \cup {Head(network[c]) : c \in {d \in Peer \X Path : network[d] # <<>>}} :
        /\ m.from = Other(p) /\ m.type = type
        /\ UNCHANGED <<left, allowed>>
        /\ IF p \in left \/ Refused(p, m)
           THEN Answer(m, <<>>) /\ UNCHANGED <<active, pending, fresh, derived>>
           ELSE \E again \in BOOLEAN : Handle(p, m, again)
  BY DEF Receive
<1>2. m \in Genuine
  <2>1. ASSUME NEW c \in Peer \X Path, network[c] # <<>>
        PROVE  Head(network[c]) \in Genuine
    <3>1. network[c] \in Seq(Genuine)
      BY DEF Traffic
    <3> QED
      BY <2>1, <3>1, HeadTailProperties
  <2> QED
    BY <1>1, <2>1 DEF Traffic
<1>3. CASE Answer(m, <<>>) /\ UNCHANGED <<active, pending, fresh, derived>>
  <2>1. Move
    BY <1>3, TouchesNone DEF Move
  <2> QED
    BY <1>1, <1>2, <1>3, <2>1, OutType, AnswerTraffic
<1>4. ASSUME NEW again \in BOOLEAN, Handle(p, m, again)
      PROVE  Move /\ Traffic'
  <2>1. CASE type = "probe"
    BY <1>1, <1>2, <1>4, <2>1, ProbeStep DEF Handle
  <2>2. CASE type = "hello"
    BY <1>1, <1>2, <1>4, <2>2, HelloStep DEF Handle
  <2>3. CASE type = "ping"
    BY <1>1, <1>2, <1>4, <2>3, PingStep DEF Handle
  <2>4. CASE type = "pong"
    BY <1>1, <1>2, <1>4, <2>4, PongStep DEF Handle
  <2>5. CASE type = "leave"
    BY <1>1, <1>2, <1>4, <2>5, LeaveStep DEF Handle
  <2> QED
    BY <2>1, <2>2, <2>3, <2>4, <2>5
<1> QED
  BY <1>1, <1>3, <1>4

-----------------------------------------------------------------------------
(* Timers and the network *)

\* The datagrams for a set of routes, listed in some order.
LEMMA ListOfImage ==
    ASSUME NEW D, D \subseteq Path, NEW f \in [D -> Genuine']
    PROVE  SetToSeq({f[r] : r \in D}) \in Seq(Genuine')
<1> DEFINE T == {f[r] : r \in D}
<1>1. IsFiniteSet(D)
  BY SessionAssumption, FS_Subset
<1>2. f \in Surjection(D, T)
  BY DEF Surjection
<1>3. IsFiniteSet(T)
  BY <1>1, <1>2, FS_Surjection, Zenon
<1>4. T \subseteq Genuine'
  OBVIOUS
<1> QED
  BY <1>3, <1>4, ListType

\* probeTicker
LEMMA ProbeTickStep ==
    ASSUME Counters, Faults, Keys, Order, Traffic, NEW p \in Peer, NEW due \in SUBSET allowed.path,
           ProbeTick(p, due)
    PROVE  Move /\ Traffic' /\ UNCHANGED <<left, allowed>>
<1> DEFINE usePending == pending[p] # NoSession
           current == IF usePending THEN pending[p] ELSE active[p]
           bridges == BridgesToProbe(p, due)
           chosen == CHOOSE r \in bridges : TRUE
           s == IF bridges = {} THEN current ELSE RememberCandidatePath(current, chosen)
           listed == SetToSeq({IF current = NoSession THEN Probe(p, r) ELSE Hello(p, current, r) :
                                  r \in bridges})
<1>1. /\ IF current = NoSession THEN UNCHANGED <<active, pending>>
         ELSE IF usePending THEN SetPending(p, s) /\ UNCHANGED active
                            ELSE SetActive(p, s) /\ UNCHANGED pending
      /\ UNCHANGED <<fresh, late, left, allowed, derived>>
      /\ network' = Sent(network, RetriedHellos(p) \o DiscoveryProbes(p, due) \o listed)
  BY DEF ProbeTick
<1>2. due \subseteq Path
  BY DEF Faults
<1>3. bridges \subseteq Path /\ (bridges # {} => chosen \in Path)
  BY <1>2 DEF BridgesToProbe
<1>4. current \in {active[p], pending[p]}
  OBVIOUS
<1>5. current # NoSession => current \in Session /\ current.candidate # current.path
  BY <1>4, OwnFacts
<1>6. current # NoSession => Variant(s, current) /\ s.authenticated = current.authenticated
  <2> HIDE DEF current, chosen, bridges
  <2> QED
    BY <1>3, <1>5, TouchFacts DEF Variant
<1>7. active = [active EXCEPT ![p] = active[p]] /\ pending = [pending EXCEPT ![p] = pending[p]]
  BY DEF Keys
<1>8. Touches
  <2>1. CASE current = NoSession
    BY <1>1, <2>1, TouchesNone
  <2>2. CASE current # NoSession /\ usePending
    <3>1. pending' = [pending EXCEPT ![p] = s] /\ active' = [active EXCEPT ![p] = active[p]]
      BY <1>1, <1>7, <2>2 DEF SetPending
    <3>2. Variant(s, pending[p]) /\ s.authenticated = pending[p].authenticated
      BY <1>6, <2>2
    <3> HIDE DEF s, current
    <3> QED
      BY <1>1, <2>2, <3>1, <3>2, TouchesOne
  <2>3. CASE current # NoSession /\ ~usePending
    <3>1. active' = [active EXCEPT ![p] = s] /\ pending' = [pending EXCEPT ![p] = pending[p]]
      BY <1>1, <1>7, <2>3 DEF SetActive
    <3>2. Variant(s, active[p]) /\ active[p] # NoSession
      BY <1>6, <2>3
    <3> HIDE DEF s, current
    <3> QED
      BY <1>1, <3>1, <3>2, TouchesOne
  <2> QED
    BY <2>1, <2>2, <2>3
<1>9. Move
  BY <1>8 DEF Move
<1>10. \A r \in Path : Probe(p, r) \in Genuine'
  <2>1. \A r \in Path : Probe(p, r) \in Message /\ Probe(p, r).type = "probe"
    BY DEF Probe, Message
  <2> QED
    BY <1>9, <2>1, TrafficGrows DEF From
<1>11. ASSUME NEW o \in {active[p], pending[p]}, o # NoSession
       PROVE  \A r \in Path : Hello(p, o, r) \in Genuine'
  <2>1. Variant(o, o)
    BY <1>11, OwnFacts DEF Variant
  <2> QED
    BY <1>9, <1>11, <2>1, OwnMessages
<1>12. RetriedHellos(p) \in Seq(Genuine')
  <2>1. CASE pending[p] = NoSession
    BY <2>1, OutType DEF RetriedHellos
  <2>2. CASE pending[p] # NoSession
    <3> DEFINE one == Hello(p, pending[p], pending[p].path)
               more == IF pending[p].candidate = NoPath THEN <<>>
                       ELSE <<Hello(p, pending[p], pending[p].candidate)>>
    <3>1. pending[p].path \in Path /\ pending[p].candidate \in Path \cup {NoPath}
      BY <2>2, OwnFacts DEF Session
    <3>2. one \in Genuine' /\ more \in Seq(Genuine')
      BY <1>11, <2>2, <3>1, OutType
    <3>3. RetriedHellos(p) = <<one>> \o more
      BY <2>2 DEF RetriedHellos
    <3> HIDE DEF one, more
    <3> QED
      BY <3>2, <3>3, OutType
  <2> QED
    BY <2>1, <2>2
<1>13. DiscoveryProbes(p, due) \in Seq(Genuine')
  <2> DEFINE D == {d \in DirectPath \cap due : ~SessionUsesPath(p, d)}
             f == [r \in D |-> Probe(p, r)]
  <2>1. D \subseteq Path /\ f \in [D -> Genuine']
    BY <1>2, <1>10
  <2>2. {Probe(p, r) : r \in D} = {f[r] : r \in D}
    OBVIOUS
  <2>3. DiscoveryProbes(p, due) = SetToSeq({f[r] : r \in D})
    BY <2>2 DEF DiscoveryProbes
  <2> HIDE DEF D, f
  <2> QED
    BY <2>1, <2>3, ListOfImage
<1>14. listed \in Seq(Genuine')
  <2> DEFINE f == [r \in bridges |-> IF current = NoSession THEN Probe(p, r) ELSE Hello(p, current, r)]
  <2>1. f \in [bridges -> Genuine']
    <3> HIDE DEF current, bridges
    <3> QED
      BY <1>3, <1>4, <1>10, <1>11
  <2>2. listed = SetToSeq({f[r] : r \in bridges})
    <3> HIDE DEF current, bridges
    <3>1. {IF current = NoSession THEN Probe(p, r) ELSE Hello(p, current, r) : r \in bridges}
            = {f[r] : r \in bridges}
      OBVIOUS
    <3> QED
      BY <3>1
  <2> HIDE DEF f, bridges, listed
  <2> QED
    BY <1>3, <2>1, <2>2, ListOfImage
<1> HIDE DEF listed, s, current, bridges, chosen, usePending
<1>15. RetriedHellos(p) \o DiscoveryProbes(p, due) \o listed \in Seq(Genuine')
  <2>1. RetriedHellos(p) \o DiscoveryProbes(p, due) \in Seq(Genuine')
    BY <1>12, <1>13, ConcatProperties
  <2> QED
    BY <1>14, <2>1, ConcatProperties
<1>16. Traffic'
  BY <1>1, <1>9, <1>15, SentTraffic
<1> QED
  BY <1>1, <1>9, <1>16

\* pingTicker
LEMMA PingTickStep ==
    ASSUME Counters, Keys, Order, Traffic, NEW p \in Peer, NEW again, PingTick(p, again)
    PROVE  Move /\ Traffic' /\ UNCHANGED <<left, allowed>>
<1> DEFINE a == IF active[p] = NoSession THEN active[p] ELSE Pinged(active[p])
           b == IF pending[p] = NoSession THEN pending[p] ELSE Pinged(pending[p])
           first == IF active[p] = NoSession THEN <<>> ELSE Pings(p, active[p], again)
           second == IF pending[p] = NoSession THEN <<>> ELSE Pings(p, pending[p], again)
<1>1. /\ active' = [active EXCEPT ![p] = a] /\ pending' = [pending EXCEPT ![p] = b]
      /\ UNCHANGED <<fresh, late, left, allowed, derived>>
      /\ network' = Sent(network, first \o second)
  BY DEF PingTick
<1>2. active[p] # NoSession => Variant(a, active[p])
  BY OwnFacts, TouchFacts
<1>3. pending[p] # NoSession => Variant(b, pending[p]) /\ b.authenticated = pending[p].authenticated
  BY OwnFacts, TouchFacts
<1>4. (active[p] = NoSession => a = NoSession) /\ (pending[p] = NoSession => b = NoSession)
  OBVIOUS
<1>5. Touches
  <2> HIDE DEF a, b
  <2> QED
    BY <1>1, <1>2, <1>3, <1>4, TouchesOne
<1>6. Move
  BY <1>5 DEF Move
<1>7. ASSUME NEW o \in {active[p], pending[p]}, o # NoSession
      PROVE  Pings(p, o, again) \in Seq(Genuine')
  <2>1. Variant(o, o) /\ o.path \in Path
    BY <1>7, OwnFacts DEF Variant, Session
  <2> QED
    BY <1>6, <1>7, <2>1, OwnMessages
<1>8. first \in Seq(Genuine') /\ second \in Seq(Genuine')
  BY <1>7, OutType
<1> HIDE DEF a, b, first, second
<1>9. first \o second \in Seq(Genuine')
  BY <1>8, ConcatProperties
<1>10. Traffic'
  BY <1>1, <1>6, <1>9, SentTraffic
<1> QED
  BY <1>1, <1>6, <1>10

\* cleanupTicker
LEMMA CleanupTickStep ==
    ASSUME Counters, Faults, Keys, Order, Traffic, NEW p \in Peer, NEW silent, CleanupTick(p, silent)
    PROVE  Move /\ Traffic' /\ Faults'
<1> DEFINE lapsed == [active[p] EXCEPT !.authenticated = FALSE, !.ping = FALSE,
                                       !.candidate = NoPath, !.candidatePing = FALSE]
           dropped == [active[p] EXCEPT !.candidate = NoPath, !.candidatePing = FALSE]
<1>1. UNCHANGED <<fresh, network, late, left, derived>>
  BY DEF CleanupTick
<1>2. pending' = [pending EXCEPT ![p] = NoSession] \/ pending' = [pending EXCEPT ![p] = pending[p]]
  BY DEF CleanupTick, Keys
<1>3. \/ active' = [active EXCEPT ![p] = NoSession]
      \/ active[p] # NoSession /\ active' = [active EXCEPT ![p] = lapsed]
      \/ active[p] # NoSession /\ active' = [active EXCEPT ![p] = dropped]
      \/ active' = [active EXCEPT ![p] = active[p]]
  BY DEF CleanupTick, Keys
<1>4. active[p] # NoSession => Variant(lapsed, active[p]) /\ Variant(dropped, active[p])
  <2> SUFFICES ASSUME active[p] # NoSession
               PROVE  Variant(lapsed, active[p]) /\ Variant(dropped, active[p])
    OBVIOUS
  <2>1. active[p] \in Session /\ NoPath # active[p].path
    BY OwnFacts, SessionAssumption DEF Session
  <2>2. lapsed \in Session /\ dropped \in Session
    BY <2>1 DEF Session
  <2> QED
    BY <2>1, <2>2 DEF Variant, Session
<1> HIDE DEF lapsed, dropped
<1>5. Touches
  BY <1>1, <1>2, <1>3, <1>4, TouchesOne
<1>6. Move
  BY <1>5 DEF Move
<1>7. Traffic'
  BY <1>1, <1>6, TrafficGrows DEF Traffic
<1>8. Faults'
  <2>1. \/ allowed' = allowed
        \/ allowed.timeouts > 0 /\ allowed' = [allowed EXCEPT !.timeouts = allowed.timeouts - 1]
    BY DEF CleanupTick
  <2>2. allowed.timeouts \in Nat
    BY DEF Faults
  <2> DEFINE n == allowed.timeouts - 1
  <2>3. allowed.timeouts > 0 => n \in Nat
    BY <2>2
  <2>4. allowed' = allowed \/ (allowed' = [allowed EXCEPT !.timeouts = n] /\ n \in Nat)
    BY <2>1, <2>3
  <2> HIDE DEF n
  <2> QED
    BY <1>1, <2>4 DEF Faults
<1> QED
  BY <1>6, <1>7, <1>8

\* sendLeaves
LEMMA LeavesStep ==
    ASSUME Counters, Faults, Keys, Order, Traffic, NEW p \in Peer, Leave(p)
    PROVE  Move /\ Traffic' /\ Faults'
<1> DEFINE out == IF active[p] # NoSession /\ active[p].everAuthenticated
                  THEN <<Sealed("leave", p, active[p], active[p].path)>> ELSE <<>>
<1>1. /\ active' = [active EXCEPT ![p] = NoSession] /\ pending' = [pending EXCEPT ![p] = NoSession]
      /\ left' = left \cup {p} /\ network' = Sent(network, out)
      /\ UNCHANGED <<fresh, late, allowed, derived>>
  BY DEF Leave, SetActive, SetPending
<1>2. Touches
  BY <1>1, TouchesOne
<1>3. Move
  BY <1>2 DEF Move
<1>4. out \in Seq(Genuine')
  <2>1. CASE active[p] # NoSession
    <3>1. active[p].hk # 0 /\ Variant(active[p], active[p]) /\ active[p].path \in Path
      BY <2>1, OwnFacts DEF Variant, Session, Keys
    <3>2. Sealed("leave", p, active[p], active[p].path) \in Genuine'
      BY <1>3, <2>1, <3>1, OwnMessages
    <3> QED
      BY <3>2, OutType
  <2>2. CASE active[p] = NoSession
    BY <2>2, OutType
  <2> QED
    BY <2>1, <2>2
<1> HIDE DEF out
<1>5. Traffic'
  BY <1>1, <1>3, <1>4, SentTraffic
<1>6. Faults'
  BY <1>1 DEF Faults
<1> QED
  BY <1>3, <1>5, <1>6

\* The network loses a datagram, or delays or repeats one.
LEMMA NetworkStep ==
    ASSUME Counters, Faults, Keys, Order, Traffic, Lose \/ Delay
    PROVE  Move /\ Traffic' /\ Faults'
<1>1. UNCHANGED <<active, pending, fresh, left, derived>>
  BY DEF Lose, Delay
<1>2. Move
  BY <1>1, TouchesNone DEF Move
<1>3. PICK c \in Peer \X Path : \E i \in DOMAIN network[c] :
        /\ network' \in {network, [network EXCEPT ![c] = RemoveAt(network[c], i)]}
        /\ late' \in {late, late \cup {network[c][i]}}
  <2>1. CASE Lose
    BY <2>1 DEF Lose
  <2>2. CASE Delay
    BY <2>2 DEF Delay
  <2> QED
    BY <2>1, <2>2
<1>p. PICK i \in DOMAIN network[c] :
        /\ network' \in {network, [network EXCEPT ![c] = RemoveAt(network[c], i)]}
        /\ late' \in {late, late \cup {network[c][i]}}
  BY <1>3
<1>4. network[c] \in Seq(Genuine)
  BY DEF Traffic
<1>5. RemoveAt(network[c], i) \in Seq(Genuine) /\ network[c][i] \in Genuine
  BY <1>4, RemoveType
<1>6. network' \in [Peer \X Path -> Seq(Genuine)] /\ late' \subseteq Genuine
  BY <1>p, <1>5 DEF Traffic
<1>7. Genuine' = Genuine
  BY <1>1 DEF Genuine
<1>8. Traffic'
  BY <1>6, <1>7 DEF Traffic
<1>9. Faults'
  <2>1. \/ allowed.losses > 0 /\ allowed' = [allowed EXCEPT !.losses = allowed.losses - 1]
        \/ allowed.late > 0 /\ allowed' = [allowed EXCEPT !.late = allowed.late - 1]
    BY DEF Lose, Delay
  <2>2. allowed.losses \in Nat /\ allowed.late \in Nat
    BY DEF Faults
  <2> DEFINE k == allowed.losses - 1
             n == allowed.late - 1
  <2>3. (allowed.losses > 0 => k \in Nat) /\ (allowed.late > 0 => n \in Nat)
    BY <2>2
  <2>4. \/ allowed' = [allowed EXCEPT !.losses = k] /\ k \in Nat
        \/ allowed' = [allowed EXCEPT !.late = n] /\ n \in Nat
    BY <2>1, <2>3
  <2> HIDE DEF k, n
  <2> QED
    BY <1>1, <2>4 DEF Faults
<1> QED
  BY <1>2, <1>8, <1>9

-----------------------------------------------------------------------------

\* Every step is a move of the sessions and leaves genuine datagrams under way.
LEMMA StepIsMove ==
    ASSUME IInv, Next
    PROVE  Move /\ Traffic' /\ Faults'
<1>i. Counters /\ Faults /\ Keys /\ Order /\ Traffic
  BY DEF IInv
<1>1. ASSUME UNCHANGED <<left, allowed>> PROVE Faults'
  BY <1>i, <1>1 DEF Faults
<1>2. ASSUME NEW p \in Peer, NEW type \in {"probe", "hello", "ping", "pong", "leave"},
             Receive(p, type)
      PROVE  Move /\ Traffic' /\ Faults'
  BY <1>i, <1>1, <1>2, ReceiveStep
<1>3. ASSUME NEW p \in Peer, NEW due \in SUBSET allowed.path, ProbeTick(p, due)
      PROVE  Move /\ Traffic' /\ Faults'
  BY <1>i, <1>1, <1>3, ProbeTickStep
<1>4. ASSUME NEW p \in Peer, NEW again \in BOOLEAN, PingTick(p, again)
      PROVE  Move /\ Traffic' /\ Faults'
  BY <1>i, <1>1, <1>4, PingTickStep
<1> QED
  BY <1>i, <1>2, <1>3, <1>4, CleanupTickStep, LeavesStep, NetworkStep DEF Next

\* There are no sessions and nothing is under way.
LEMMA InitIInv == Init => IInv
<1> SUFFICES ASSUME Init PROVE IInv
  OBVIOUS
<1>1. Counters
  BY PeerFacts, SessionAssumption DEF Init, Counters
<1>2. Faults
  BY SessionAssumption DEF Init, Faults
<1>3. Keys /\ Order
  BY PeerFacts DEF Init, Keys, Order
<1>4. Traffic
  BY DEF Init, Traffic
<1> QED
  BY <1>1, <1>2, <1>3, <1>4 DEF IInv

\* Every step keeps the invariant.
LEMMA NextIInv == IInv /\ [Next]_vars => IInv'
<1> SUFFICES ASSUME IInv, [Next]_vars PROVE IInv'
  OBVIOUS
<1>1. CASE Next
  BY <1>1, StepIsMove, MoveKeeps DEF IInv
<1>2. CASE UNCHANGED vars
  <2>1. Counters' /\ Faults' /\ Genuine' = Genuine /\ \A p \in Peer : Held(p)' = Held(p)
    BY <1>2 DEF vars, IInv, Counters, Faults, Genuine, Held
  <2>2. Keys' /\ Order'
    BY <1>2, <2>1 DEF vars, IInv, Keys, Order
  <2>3. Traffic'
    BY <1>2, <2>1 DEF vars, IInv, Traffic
  <2> QED
    BY <2>1, <2>2, <2>3 DEF IInv
<1> QED
  BY <1>1, <1>2

\* The two peers hold sessions, counters and keys of the kinds the program keeps; the
\* session in use always has its ciphers, and a path is never its own candidate.
THEOREM TypeCorrect == Spec => []TypeOK
<1>1. IInv => TypeOK
  <2> SUFFICES ASSUME IInv PROVE TypeOK
    OBVIOUS
  <2>1. Counters /\ Faults /\ Keys /\ Order
    BY DEF IInv
  <2>2. \A p \in Peer : \A s \in Sessions(p) : s.candidate # s.path
    BY <2>1, OwnFacts DEF Sessions
  <2>3. derived \in [Peer -> SUBSET ((1 .. MaxFresh) \X (1 .. MaxFresh))]
    <3>1. (1 .. fresh[1]) \X (1 .. fresh[2]) \subseteq (1 .. MaxFresh) \X (1 .. MaxFresh)
      BY <2>1, CounterFacts
    <3> QED
      BY <2>1, <3>1 DEF Counters
  <2> QED
    BY <2>1, <2>2, <2>3 DEF TypeOK, Counters, Faults, Keys, SessionReady
<1> QED
  BY <1>1, InitIInv, NextIInv, PTL DEF Spec

\* Whatever hellos arrive late or twice, a pending session never has the ID of the active
\* one, which would hide it from sessionForHeader.
THEOREM IDsDiffer == Spec => []SessionIDsDiffer
<1>1. IInv => SessionIDsDiffer
  <2> SUFFICES ASSUME IInv, NEW p \in Peer, active[p] # NoSession, pending[p] # NoSession
               PROVE  active[p].sid # pending[p].sid
    BY DEF SessionIDsDiffer
  <2>1. Counters /\ Keys /\ Order
    BY DEF IInv
  <2>2. active[p].sid \in Nat
    BY <2>1, CounterFacts DEF Keys, Session
  <2>3. CASE p = 1
    BY <2>1, <2>2, <2>3, CounterFacts DEF Order
  <2>4. CASE p = 2
    BY <2>1, <2>4 DEF Order
  <2> QED
    BY <2>3, <2>4, PeerFacts
<1> QED
  BY <1>1, InitIInv, NextIInv, PTL DEF Spec

\* A session that is in use has been confirmed with keys that the other peer has derived
\* too, whatever was lost, late or repeated before (handleSessionPacketOnPath).
THEOREM KeysAreShared == Spec => []KeyConfirmed
<1>1. IInv => KeyConfirmed
  BY DEF IInv, Keys, KeyConfirmed
<1> QED
  BY <1>1, InitIInv, NextIInv, PTL DEF Spec

\* No late hello takes a peer back to an earlier session: the responder may make one from
\* it, but the initiator never derives its keys, so it is never confirmed
\* (handleUnexpectedResponderHello).
THEOREM SessionsGoForward == Spec => NeverBackToOldSession
<1>1. IInv /\ [Next]_vars =>
        [\A p \in Peer : active[p] # NoSession /\ active'[p] # NoSession =>
            active'[p].sid >= active[p].sid]_vars
  <2> SUFFICES ASSUME IInv, Next, NEW p \in Peer, active[p] # NoSession, active'[p] # NoSession
               PROVE  active'[p].sid >= active[p].sid
    OBVIOUS
  <2>1. Counters /\ Keys /\ Order
    BY DEF IInv
  <2> QED
    BY <2>1, StepIsMove, MoveIsForward
<1> QED
  BY <1>1, InitIInv, NextIInv, PTL DEF Spec, NeverBackToOldSession
=============================================================================
