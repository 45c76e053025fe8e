------------------------------ MODULE Session -------------------------------
(***************************************************************************)
(* Session establishment between two members of a room                     *)
(* (internal/peer/session.go, client_loop.go, leave.go): hello probes,     *)
(* session hellos, key agreement, ping/pong authentication, candidate      *)
(* paths, timeouts and leaving.                                            *)
(*                                                                         *)
(* Peers are compared by their PeerID; the smaller one, 1, is the one that *)
(* starts sessions.  It draws a fresh session ID and a fresh key together, *)
(* so its hello is identified by the session ID alone.  The other peer, 2, *)
(* answers with a hello for the same ID and a fresh key, hk.  The two      *)
(* hellos determine the ciphers: a packet sealed by one end opens at the   *)
(* other iff both used the same pair <<sid, hk>>.  hk = 0 at peer 1 means  *)
(* that the answer has not arrived and there are no ciphers yet.           *)
(*                                                                         *)
(* The network keeps the datagrams of each route in order, loses some of   *)
(* them, and delays or repeats hellos and probes as long as it likes       *)
(* (sealed packets carry a sequence number and a repeat is refused:        *)
(* PacketFlow).  Ping numbers are not kept: a ping that supersedes another *)
(* one takes that one and its answer, which would be refused, off the      *)
(* network.                                                                *)
(***************************************************************************)
EXTENDS Integers, FiniteSets, SequencesExt, SequenceFilter

CONSTANTS
    Path,           \* routes between the two peers
    DirectPath,     \* those without an intermediary
    NoPath,         \* stands for a nil candidatePath
    NoSession,      \* stands for a nil session
    MaxFresh,       \* bound: sessions each peer creates
    MaxBacklog,     \* bound: datagrams under way on a route when a timer fires
    Setting         \* the settings to consider: see allowed

Peer == {1, 2}
Other(p) == 3 - p

Session ==
    [sid : 1 .. MaxFresh, hk : 0 .. MaxFresh, path : Path, candidate : Path \cup {NoPath},
     authenticated : BOOLEAN, everAuthenticated : BOOLEAN,
     ping : BOOLEAN, candidatePing : BOOLEAN]

ASSUME SessionAssumption ==
    /\ MaxFresh \in Nat
    /\ IsFiniteSet(Path) /\ DirectPath \subseteq Path
    /\ Cardinality(Path \ DirectPath) <= 1    \* bridgePathTo picks one intermediary
    /\ NoPath \notin Path /\ NoSession \notin Session
    /\ Setting \subseteq
           [path : SUBSET Path, leavers : SUBSET Peer, losses : Nat, late : Nat, timeouts : Nat]

VARIABLES
    active,         \* active[p]: p's activeSession for the other peer
    pending,        \* pending[p]: p's pendingSession for the other peer
    fresh,          \* fresh[p]: how many sessions p has created
    network,        \* network[<<p, r>>]: datagrams p sent on route r, under way
    late,           \* hellos and probes that will arrive at some later time
    left,           \* peers that have left the room
    allowed,        \* the routes that work, the peers that may leave, and how many
                    \* more datagrams may be lost or late (delayed or repeated
                    \* hellos and probes) and sessions time out that the other end
                    \* still has
    derived         \* history: derived[p], the secrets p has derived ciphers from

vars == <<active, pending, fresh, network, late, left, allowed, derived>>

SessionReady(s) == s.hk # 0
Secret(s) == <<s.sid, s.hk>>

-----------------------------------------------------------------------------
(* Datagrams *)

Probe(p, path) == [type |-> "probe", from |-> p, path |-> path, sid |-> 0, hk |-> 0]
Hello(p, s, path) ==
    [type |-> "hello", from |-> p, path |-> path, sid |-> s.sid,
     hk |-> IF p = 1 THEN 0 ELSE s.hk]
Sealed(type, p, s, path) ==
    [type |-> type, from |-> p, path |-> path, sid |-> s.sid, hk |-> s.hk]

\* sendPing and sendPingOnPath: a ping on the session's path and one on its
\* candidate path, unless one is outstanding there.  again: pingInterval has
\* passed since it was sent and another one is due.
Pings(p, s, again) ==
    LET pingOn(r, outstanding) ==
            IF r = NoPath \/ (outstanding /\ ~again) THEN <<>> ELSE <<Sealed("ping", p, s, r)>>
    IN IF SessionReady(s)
       THEN pingOn(s.path, s.ping) \o pingOn(s.candidate, s.candidatePing)
       ELSE <<>>
Pinged(s) ==
    IF ~SessionReady(s) THEN s
    ELSE [s EXCEPT !.ping = TRUE, !.candidatePing = s.candidate # NoPath]

\* A ping makes an earlier one for the same session and route, and the answer
\* to it, useless.
Superseded(m, out) ==
    /\ m.type \in {"ping", "pong"}
    /\ \E i \in DOMAIN out :
          /\ out[i].type = "ping"
          /\ out[i].from = (IF m.type = "ping" THEN m.from ELSE Other(m.from))
          /\ <<out[i].sid, out[i].hk, out[i].path>> = <<m.sid, m.hk, m.path>>

\* The network after the datagrams in out have been sent, in this order.
Sent(net, out) ==
    [c \in Peer \X Path |->
        Only(net[c], {m \in ToSet(net[c]) : ~Superseded(m, out)}) \o
        Only(out, {m \in ToSet(out) : <<m.from, m.path>> = c})]

-----------------------------------------------------------------------------
(* Sessions *)

NewSession(sid, hk, path) ==
    [sid |-> sid, hk |-> hk, path |-> path, candidate |-> NoPath,
     authenticated |-> FALSE, everAuthenticated |-> FALSE,
     ping |-> FALSE, candidatePing |-> FALSE]

\* rememberCandidatePath: a direct candidate is not given up for a bridged one.
RememberCandidatePath(s, path) ==
    IF \/ path = s.path
       \/ path = s.candidate
       \/ s.candidate \in DirectPath /\ path \notin DirectPath
    THEN s
    ELSE [s EXCEPT !.candidate = path, !.candidatePing = FALSE]

AcceptsPath(s, path) == path \in {s.path, s.candidate}

\* shouldPromotePath.  Round-trip times and the age of the current path decide
\* between two paths of a kind, and may give up a silent direct path.
PromotePathChoices(s, path) ==
    IF ~s.authenticated \/ (s.path \notin DirectPath /\ path \in DirectPath)
    THEN {TRUE}
    ELSE BOOLEAN

\* Replace p's active session, resp. its pending one.
SetActive(p, s) == active' = [active EXCEPT ![p] = s]
SetPending(p, s) == pending' = [pending EXCEPT ![p] = s]

Derive(p, secret) == derived' = [derived EXCEPT ![p] = @ \cup {secret}]

Init ==
    /\ active = [p \in Peer |-> NoSession]
    /\ pending = [p \in Peer |-> NoSession]
    /\ fresh = [p \in Peer |-> 0]
    /\ network = [c \in Peer \X Path |-> <<>>]
    /\ late = {}
    /\ left = {}
    /\ allowed \in Setting
    /\ derived = [p \in Peer |-> {}]

\* The datagram m is consumed and those its handler sends are on their way.
Answer(m, out) ==
    \/ /\ m \in late
       /\ late' = late \ {m}
       /\ network' = Sent(network, out)
    \/ LET c == <<m.from, m.path>>
       IN /\ network[c] # <<>> /\ Head(network[c]) = m
          /\ network' = Sent([network EXCEPT ![c] = Tail(@)], out)
          /\ UNCHANGED late

-----------------------------------------------------------------------------
(* Hellos *)

\* startInitiatingSession, by peer 1.
StartInitiatingSession(p, m, path) ==
    /\ fresh[p] < MaxFresh
    /\ LET s == NewSession(fresh[p] + 1, 0, path)
       IN /\ SetPending(p, s)
          /\ Answer(m, <<Hello(p, s, path)>>)
    /\ fresh' = [fresh EXCEPT ![p] = @ + 1]
    /\ UNCHANGED <<active, derived>>

\* handleHelloProbe with a session at hand: answer with its hello and ping.
AnswerProbe(p, m, again) ==
    LET usePending == pending[p] # NoSession
        s == RememberCandidatePath(IF usePending THEN pending[p] ELSE active[p], m.path)
    IN /\ IF usePending THEN SetPending(p, Pinged(s)) /\ UNCHANGED active
                        ELSE SetActive(p, Pinged(s)) /\ UNCHANGED pending
       /\ Answer(m, <<Hello(p, s, m.path)>> \o Pings(p, s, again))
       /\ UNCHANGED <<fresh, derived>>

\* handleHelloProbe: only the smaller peer starts a session; the other one
\* sends a probe back.
HandleHelloProbe(p, m, again) ==
    IF pending[p] # NoSession \/ active[p] # NoSession
    THEN AnswerProbe(p, m, again)
    ELSE IF p < Other(p)
         THEN StartInitiatingSession(p, m, m.path)
         ELSE /\ Answer(m, <<Probe(p, m.path)>>)
              /\ UNCHANGED <<active, pending, fresh, derived>>

\* The hello belongs to this session: it is the one the session was made with,
\* or the answer it waits for.
MatchesHello(p, s, m) ==
    /\ s # NoSession
    /\ s.sid = m.sid
    /\ p = 1 => s.hk \in {0, m.hk}

\* resumeSessionFromHello: complete the session, remember the path and ping.
Resumed(p, s, m) ==
    RememberCandidatePath(IF p = 1 THEN [s EXCEPT !.hk = m.hk] ELSE s, m.path)

ResumeActive(p, m, again) ==
    LET s == Resumed(p, active[p], m)
    IN /\ SetActive(p, Pinged(s))
       /\ Answer(m, Pings(p, s, again))
       /\ Derive(p, Secret(s))
       /\ UNCHANGED <<pending, fresh>>

ResumePending(p, m, again) ==
    LET s == Resumed(p, pending[p], m)
    IN /\ SetPending(p, Pinged(s))
       /\ Answer(m, Pings(p, s, again))
       /\ Derive(p, Secret(s))
       /\ UNCHANGED <<active, fresh>>

\* Mutant: a late hello of the responder always starts a new session.
HandleUnexpectedResponderHelloRestart(p, m) ==
    StartInitiatingSession(p, m, m.path)

\* handleUnexpectedResponderHello: a hello for another session than the current
\* one is answered with the current hello, never followed.
HandleUnexpectedResponderHello(p, m) ==
    LET usePending == pending[p] # NoSession
        current == IF usePending THEN pending[p] ELSE active[p]
    IN IF current # NoSession /\ current.sid # m.sid
       THEN LET s == RememberCandidatePath(current, m.path)
            IN /\ IF usePending THEN SetPending(p, s) /\ UNCHANGED active
                                ELSE SetActive(p, s) /\ UNCHANGED pending
               /\ Answer(m, <<Hello(p, s, m.path)>>)
               /\ UNCHANGED <<fresh, derived>>
       ELSE StartInitiatingSession(p, m, m.path)

\* The larger peer answers a hello it does not know with a session of its own,
\* which replaces a pending one.
StartRespondingSession(p, m, again) ==
    /\ fresh[p] < MaxFresh
    /\ LET s == NewSession(m.sid, fresh[p] + 1, m.path)
       IN /\ SetPending(p, Pinged(s))
          /\ Answer(m, <<Hello(p, s, m.path)>> \o Pings(p, s, again))
          /\ Derive(p, Secret(s))
    /\ fresh' = [fresh EXCEPT ![p] = @ + 1]
    /\ UNCHANGED active

\* Mutant: only the pending session is matched with the hello.
HandleSessionHelloPendingOnly(p, m, again) ==
    IF MatchesHello(p, pending[p], m) THEN ResumePending(p, m, again)
    ELSE IF p < Other(p) THEN HandleUnexpectedResponderHello(p, m)
    ELSE StartRespondingSession(p, m, again)

\* handleSessionHello
HandleSessionHello(p, m, again) ==
    IF MatchesHello(p, active[p], m) THEN ResumeActive(p, m, again)
    ELSE IF MatchesHello(p, pending[p], m) THEN ResumePending(p, m, again)
    ELSE IF p < Other(p) THEN HandleUnexpectedResponderHello(p, m)
    ELSE StartRespondingSession(p, m, again)

-----------------------------------------------------------------------------
(* Sealed packets *)

\* sessionForHeader and decryption: the session the packet was sealed for.
SessionForHeader(s, m) ==
    s # NoSession /\ SessionReady(s) /\ s.sid = m.sid /\ AcceptsPath(s, m.path)

\* Mutant: the session ID alone decides, not the keys.
OpensAnyKey(s, m) == s.sid = m.sid

\* Decryption succeeds iff both ends derived their ciphers from the same pair.
Opens(s, m) == Secret(s) = <<m.sid, m.hk>>

\* The active session is looked up first.
UsesActive(p, m) == SessionForHeader(active[p], m)
UsesPending(p, m) == ~UsesActive(p, m) /\ SessionForHeader(pending[p], m)

\* handleSessionPacketOnPath, ping: answered on the path it came by.
HandlePing(p, m) ==
    LET s == IF UsesActive(p, m) THEN active[p] ELSE pending[p]
    IN /\ UsesActive(p, m) \/ UsesPending(p, m)
       /\ Opens(s, m)
       /\ Answer(m, <<Sealed("pong", p, s, m.path)>>)
       /\ UNCHANGED <<active, pending, fresh, derived>>

\* The session after a pong on its own path, or on its candidate path.
Authenticated(s, m, promote) ==
    IF m.path # s.candidate
    THEN [s EXCEPT !.authenticated = TRUE, !.everAuthenticated = TRUE, !.ping = FALSE]
    ELSE IF promote
    THEN [s EXCEPT !.path = m.path, !.candidate = NoPath, !.candidatePing = FALSE,
                   !.authenticated = TRUE, !.everAuthenticated = TRUE, !.ping = FALSE]
    ELSE [s EXCEPT !.candidate = NoPath, !.candidatePing = FALSE]

\* handleSessionPacketOnPath, pong: it must answer an outstanding ping on the
\* same path.  A pending session becomes the active one and replaces it.
HandlePong(p, m) ==
    LET s == IF UsesActive(p, m) THEN active[p] ELSE pending[p]
    IN /\ UsesActive(p, m) \/ UsesPending(p, m)
       /\ Opens(s, m)
       /\ IF m.path = s.candidate THEN s.candidatePing ELSE s.ping
       /\ \E promote \in PromotePathChoices(s, m.path) :
              SetActive(p, Authenticated(s, m, promote))
       /\ pending' = [pending EXCEPT ![p] = IF UsesActive(p, m) THEN @ ELSE NoSession]
       /\ Answer(m, <<>>)
       /\ UNCHANGED <<fresh, derived>>

\* handleLeavePacketOnPath: the record of the peer goes, whatever it holds.
HandleLeave(p, m) ==
    /\ UsesActive(p, m)
    /\ active[p].everAuthenticated
    /\ m.path = active[p].path
    /\ Opens(active[p], m)
    /\ SetActive(p, NoSession)
    /\ SetPending(p, NoSession)
    /\ Answer(m, <<>>)
    /\ UNCHANGED <<fresh, derived>>

\* What a peer does with a datagram; one it cannot use is dropped.
Handle(p, m, again) ==
    CASE m.type = "probe" -> HandleHelloProbe(p, m, again)
      [] m.type = "hello" -> HandleSessionHello(p, m, again)
      [] m.type = "ping"  -> HandlePing(p, m)
      [] m.type = "pong"  -> HandlePong(p, m)
      [] m.type = "leave" -> HandleLeave(p, m)

Refused(p, m) ==
    LET s == IF UsesActive(p, m) THEN active[p] ELSE pending[p]
        known == (UsesActive(p, m) \/ UsesPending(p, m)) /\ Opens(s, m)
    IN CASE m.type = "ping" -> ~known
         [] m.type = "pong" -> ~known \/ ~(IF m.path = s.candidate
                                           THEN s.candidatePing ELSE s.ping)
         [] m.type = "leave" -> \/ ~known
                                \/ ~UsesActive(p, m)
                                \/ ~active[p].everAuthenticated
                                \/ m.path # active[p].path
         [] OTHER -> FALSE

Receive(p, type) ==
    \E m \in late \cup {Head(network[c]) : c \in {d \in Peer \X Path : network[d] # <<>>}} :
        /\ m.from = Other(p) /\ m.type = type
        /\ UNCHANGED <<left, allowed>>
        /\ IF p \in left \/ Refused(p, m)
           THEN Answer(m, <<>>) /\ UNCHANGED <<active, pending, fresh, derived>>
           ELSE \E again \in BOOLEAN : Handle(p, m, again)

-----------------------------------------------------------------------------
(* Timers *)

\* The tickers run at one and two seconds: with MaxBacklog = 0 everything under
\* way has arrived or is lost when one of them fires.
TimerFires(p) ==
    p \notin left /\ \A c \in Peer \X Path : Len(network[c]) <= MaxBacklog

Sessions(p) == {active[p], pending[p]} \ {NoSession}

\* retrySessionHellos: only pending sessions repeat their hello.
RetriedHellos(p) ==
    IF pending[p] = NoSession THEN <<>>
    ELSE LET s == pending[p]
         IN <<Hello(p, s, s.path)>> \o
            IF s.candidate = NoPath THEN <<>> ELSE <<Hello(p, s, s.candidate)>>

\* addressHasSessionPath and sessionUsesPath: a session is on this route, or
\* about to be.  The path of an active session that lost its authentication
\* does not count.
SessionUsesPath(p, r) ==
    \/ /\ active[p] # NoSession
       /\ \/ active[p].authenticated /\ active[p].path = r
          \/ active[p].candidate = r
    \/ pending[p] # NoSession /\ AcceptsPath(pending[p], r)

\* sendDiscoveryProbes
DiscoveryProbes(p, due) ==
    SetToSeq({Probe(p, r) : r \in {d \in DirectPath \cap due : ~SessionUsesPath(p, d)}})

\* bridgePathTo and probeBridgePaths: which bridged path is to be tried now.
BridgesToProbe(p, due) ==
    {r \in due \ DirectPath :
        /\ ~(/\ active[p] # NoSession
             /\ active[p].authenticated /\ active[p].path \in DirectPath)
        /\ ~SessionUsesPath(p, r)}

\* probeTicker: hellos again, then discovery probes, then the bridged path,
\* which gets the hello of the current session if there is one.  due: the
\* addresses whose nextProbe time has come and the bridges there are now.
ProbeTick(p, due) ==
    LET usePending == pending[p] # NoSession
        current == IF usePending THEN pending[p] ELSE active[p]
        bridges == BridgesToProbe(p, due)
        announced(s) == IF bridges = {} THEN s
                        ELSE RememberCandidatePath(s, CHOOSE r \in bridges : TRUE)
    IN /\ TimerFires(p)
       /\ IF current = NoSession THEN UNCHANGED <<active, pending>>
          ELSE IF usePending THEN SetPending(p, announced(current)) /\ UNCHANGED active
                             ELSE SetActive(p, announced(current)) /\ UNCHANGED pending
       /\ UNCHANGED <<fresh, late, left, allowed, derived>>
       /\ network' = Sent(network, RetriedHellos(p) \o DiscoveryProbes(p, due) \o
              SetToSeq({IF current = NoSession THEN Probe(p, r) ELSE Hello(p, current, r) :
                           r \in bridges}))

\* Mutant: only the active session is pinged.
PingTickActiveOnly(p, again) ==
    /\ TimerFires(p)
    /\ active[p] # NoSession
    /\ network' = Sent(network, Pings(p, active[p], again))
    /\ active' = [active EXCEPT ![p] = Pinged(@)]
    /\ UNCHANGED <<pending, fresh, late, left, allowed, derived>>

\* pingTicker: sendPings
PingTick(p, again) ==
    LET pinged(s) == IF s = NoSession THEN s ELSE Pinged(s)
        pings(s) == IF s = NoSession THEN <<>> ELSE Pings(p, s, again)
    IN /\ TimerFires(p)
       /\ active' = [active EXCEPT ![p] = pinged(@)]
       /\ pending' = [pending EXCEPT ![p] = pinged(@)]
       /\ UNCHANGED <<fresh, late, left, allowed, derived>>
       /\ network' = Sent(network, pings(active[p]) \o pings(pending[p]))

\* The other end has no session that could answer s, or will when the hello has
\* arrived: nothing will refresh it.
Dead(p, s) ==
    /\ s # NoSession
    /\ \/ Other(p) \in left
       \/ /\ SessionReady(s)
          /\ \A t \in Sessions(Other(p)) : s.sid # t.sid \/ t.hk \notin {0, s.hk}

DeadSessions(p) ==
    (IF Dead(p, active[p]) THEN {"active"} ELSE {}) \cup
    (IF Dead(p, pending[p]) THEN {"pending"} ELSE {})

\* Mutant: an active session without authentication is kept for ever.
CleanupTickKeepsActive(p, silent) ==
    /\ TimerFires(p)
    /\ silent # {}
    /\ silent \subseteq DeadSessions(p)
    /\ pending' = IF "pending" \in silent THEN [pending EXCEPT ![p] = NoSession] ELSE pending
    /\ active' = IF "active" \in silent
                 THEN [active EXCEPT ![p].authenticated = FALSE] ELSE active
    /\ UNCHANGED <<fresh, network, late, left, allowed, derived>>

\* cleanupTicker: expireRemotePeers.  silent says which timeouts have passed:
\* "candidate" (8s without verification), "failover" (2.5s without a packet:
\* the session loses its authentication and its candidate path), "active" and
\* "pending" (8s: the session goes).  Something the other end could still
\* answer times out only when the network fails it that long: a fault.
CleanupTick(p, silent) ==
    /\ TimerFires(p)
    /\ silent # {}
    /\ {"active", "failover", "candidate"} \cap silent # {} => active[p] # NoSession
    /\ "pending" \in silent => pending[p] # NoSession
    /\ "failover" \in silent => active[p].authenticated
    /\ "candidate" \in silent => active[p].candidate # NoPath
    /\ pending' = IF "pending" \in silent THEN [pending EXCEPT ![p] = NoSession] ELSE pending
    /\ active' = IF "active" \in silent THEN [active EXCEPT ![p] = NoSession]
                 ELSE IF "failover" \in silent
                 THEN [active EXCEPT ![p].authenticated = FALSE, ![p].ping = FALSE,
                                     ![p].candidate = NoPath, ![p].candidatePing = FALSE]
                 ELSE IF "candidate" \in silent
                 THEN [active EXCEPT ![p].candidate = NoPath, ![p].candidatePing = FALSE]
                 ELSE active
    /\ IF silent \subseteq DeadSessions(p) THEN UNCHANGED allowed
       ELSE /\ allowed.timeouts > 0
            /\ allowed' = [allowed EXCEPT !.timeouts = @ - 1]
    /\ UNCHANGED <<fresh, network, late, left, derived>>

\* sendLeaves, and the end of this membership: a PeerID is never used again.
Leave(p) ==
    /\ p \in allowed.leavers \ left
    /\ left' = left \cup {p}
    /\ network' = Sent(network,
           IF active[p] # NoSession /\ active[p].everAuthenticated
           THEN <<Sealed("leave", p, active[p], active[p].path)>> ELSE <<>>)
    /\ SetActive(p, NoSession)
    /\ SetPending(p, NoSession)
    /\ UNCHANGED <<fresh, late, allowed, derived>>

-----------------------------------------------------------------------------
(* The network *)

Lose ==
    /\ allowed.losses > 0
    /\ \E c \in Peer \X Path : \E i \in DOMAIN network[c] :
          network' = [network EXCEPT ![c] = RemoveAt(@, i)]
    /\ allowed' = [allowed EXCEPT !.losses = @ - 1]
    /\ UNCHANGED <<active, pending, fresh, late, left, derived>>

\* An unencrypted datagram is delayed, or repeated: it arrives at some later time.
Delay ==
    /\ allowed.late > 0
    /\ \E c \in Peer \X Path : \E i \in DOMAIN network[c] :
          /\ network[c][i].type \in {"probe", "hello"}
          /\ late' = late \cup {network[c][i]}
          /\ network' \in {network, [network EXCEPT ![c] = RemoveAt(@, i)]}
    /\ allowed' = [allowed EXCEPT !.late = @ - 1]
    /\ UNCHANGED <<active, pending, fresh, left, derived>>

Next ==
    \/ \E p \in Peer :
        \/ \E type \in {"probe", "hello", "ping", "pong", "leave"} : Receive(p, type)
        \/ \E due \in SUBSET allowed.path : ProbeTick(p, due)
        \/ \E again \in BOOLEAN : PingTick(p, again)
        \/ \E silent \in SUBSET {"candidate", "failover", "active", "pending"} :
               CleanupTick(p, silent)
        \/ Leave(p)
    \/ Lose
    \/ Delay

Spec == Init /\ [][Next]_vars

\* The client's tickers never stop, the network delivers what it does not lose,
\* and a session nobody answers runs into its timeout.
Fairness ==
    /\ WF_vars(\E p \in Peer, type \in {"probe", "hello", "ping", "pong", "leave"} :
                   Receive(p, type))
    /\ \A p \in Peer :
        /\ SF_vars(ProbeTick(p, allowed.path))
        /\ SF_vars(PingTick(p, TRUE))
        /\ SF_vars(CleanupTick(p, DeadSessions(p)))

FairSpec == Spec /\ Fairness

-----------------------------------------------------------------------------
(* Properties *)

\* Every value the two peers keep is one the program can hold.
TypeOK ==
    /\ active \in [Peer -> Session \cup {NoSession}]
    /\ pending \in [Peer -> Session \cup {NoSession}]
    /\ \A p \in Peer : \A s \in Sessions(p) : s.candidate # s.path
    /\ \A p \in Peer : active[p] # NoSession => SessionReady(active[p])
    /\ fresh \in [Peer -> 0 .. MaxFresh]
    /\ left \subseteq Peer
    /\ derived \in [Peer -> SUBSET ((1 .. MaxFresh) \X (1 .. MaxFresh))]

\* Both ends use the session, with the same ciphers, and know that it works.
Connected ==
    /\ \A p \in Peer : active[p] # NoSession /\ active[p].authenticated
    /\ Secret(active[1]) = Secret(active[2])

\* Two sessions for the same peer never share a session ID: sessionForHeader
\* looks at the active one first, and a shared ID would hide the pending one.
SessionIDsDiffer ==
    \A p \in Peer :
        active[p] # NoSession /\ pending[p] # NoSession => active[p].sid # pending[p].sid

\* A session is in use only when the other peer has derived the same ciphers at
\* some time: a pong confirms the keys, a matching session ID does not
\* (ParseControl in handleSessionPacketOnPath).
KeyConfirmed ==
    \A p \in Peer :
        active[p] # NoSession =>
            active[p].everAuthenticated /\ Secret(active[p]) \in derived[Other(p)]

\* A late hello never replaces a newer transcript: the session in use never
\* goes back to an earlier session ID (handleUnexpectedResponderHello).
NeverBackToOldSession ==
    [][\A p \in Peer :
          active[p] # NoSession /\ active'[p] # NoSession => active'[p].sid >= active[p].sid]_vars

\* Whatever is lost, late, repeated or timed out, in the end two peers that
\* both stay are connected and remain so, and a session that started over a
\* bridge has moved to the direct path.
Converges ==
    <>[](left = {} => Connected /\ \A p \in Peer : active[p].path \in DirectPath)

\* A peer that left is forgotten for good, even if its hellos arrive late.
LeaverIsForgotten ==
    <>[](\A p \in left : active[Other(p)] = NoSession /\ pending[Other(p)] = NoSession)
=============================================================================
