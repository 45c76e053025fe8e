---------------------------- MODULE ScreenShare ----------------------------
(***************************************************************************)
(* Room media and the states that go with it (internal/peer/screen_video.go*)
(* room_datagram.go and member_state.go): a member who shares a screen and *)
(* speaks, and the viewers.                                                *)
(*                                                                         *)
(* Member state and screen state travel on ordered reliable channels, one  *)
(* message per revision, and again on every new session.  Voice, screen    *)
(* audio and screen video travel as datagrams, which the network may lose, *)
(* delay and repeat: a datagram once sent may arrive at any time and any   *)
(* number of times.  A viewer forwards what it gets from the sharer to the *)
(* listeners it was assigned; the assignments are Fanout's matter and are  *)
(* a choice here.  All sessions are authenticated and direct.              *)
(***************************************************************************)
EXTENDS SequenceWindow, Sequences, FiniteSets, SequencesExt, FiniteSetsExt, Functions, Bags

CONSTANTS
    Viewers,
    Forwarder,          \* the viewer a fanout plan in force sends to
    Sharer,
    MaxStreams,         \* maxRoomDatagramReceiveStreams
    MaxRetained,        \* maxScreenVideoRetainedBytes, in fragments
    MaxCompleted,       \* maxCompletedScreenVideoChunks
    Setting             \* what may happen, as records of viewers (those in the room),
                        \* screens (screen commands),
                        \* members (changes of member state), sends (chunks and
                        \* frames), kinds (of media), fragments (per chunk), rekeys
                        \* (new sessions), full (refusals by a full transport)

Kind == {"voice", "audio", "video"}
\* Voice belongs to no stream.
Datagram ==
    {p \in [kind : Kind, stream : Nat, seq : Nat, unit : Nat, index : Nat \ {0},
            count : Nat \ {0}, from : Viewers \cup {Sharer}, to : Viewers] :
        p.kind = "voice" <=> p.stream = 0}

\* The limit leaves room for what one sharer sends.
ASSUME ScreenShareAssumption ==
    /\ IsFiniteSet(Viewers) /\ Forwarder \in Viewers /\ Sharer \notin Viewers
    /\ MaxStreams \in Nat /\ MaxStreams >= 3
    /\ {MaxRetained, MaxCompleted} \subseteq Nat \ {0}
    /\ Setting \subseteq [viewers : SUBSET Viewers, screens : Nat, members : Nat, sends : Nat,
                          kinds : SUBSET Kind, fragments : Nat \ {0}, rekeys : Nat, full : Nat]

VARIABLES
    setting,    \* the setting, with what is left of it
    desired,    \* desiredMemberState
    signal,     \* memberStateUpdates is full
    local,      \* localMemberState and localScreenState: revision and value
    sequence,   \* voicePacketSequence, screenPacketSequence, screenVideoChunkID
    session,    \* session[v]: the sharer's session with v
    viewer,     \* viewer[v]: what v knows and has received
    net,        \* the datagrams sent, with their numbers
    heard,      \* heard[v]: the audio frames handed to the media port
    shown       \* shown[v]: the chunk the user interface took last

screenVars == <<setting, desired, signal, local, sequence, session, viewer, net, heard, shown>>

State == {"member", "screen"}

\* sent: the revision last queued; out: the messages on their way; unacked: how many have
\* arrived and are not known to have; old: messages of the session before that may arrive
\* until the viewer has taken up the new one.
NewSession(old) ==
    [sent |-> [c \in State |-> 0], out |-> [c \in State |-> <<>>],
     unacked |-> [c \in State |-> 0], old |-> old]

NoVideo == [stream |-> 0, newest |-> 0, delivered |-> 0, parts |-> <<>>, expired |-> {}]

NewViewer ==
    [state |-> [c \in State |-> 0], windows |-> <<>>, video |-> NoVideo, retained |-> 0,
     burst |-> FALSE, forward |-> {}, completed |-> <<>>]

\* A screen state is the number of its stream, 0 when nothing is shared.
ScreenInit ==
    /\ setting \in Setting
    /\ desired = 0 /\ signal = FALSE
    /\ local = [c \in State |-> [revision |-> 1, value |-> 0]]
    /\ sequence = [voice |-> 0, screen |-> 0, chunk |-> 0]
    /\ session = [v \in Viewers |-> NewSession([c \in State |-> <<>>])]
    /\ viewer = [v \in Viewers |-> NewViewer]
    /\ net = EmptyBag
    /\ heard = [v \in Viewers |-> EmptyBag]
    /\ shown = [v \in Viewers |-> <<0, 0>>]

-----------------------------------------------------------------------------
(* States: queueMemberStates, queueScreenStates *)

\* The states of these kinds that the session has not been sent.
Due(s, kinds, states) == {c \in kinds : s.sent[c] # states[c].revision}

\* A slip: the revision counts as sent though the transport refused it.
QueueStateRegardless(s, kinds, states, refused) ==
    LET due == Due(s, kinds, states)
    IN  [s EXCEPT !.sent = [c \in State |-> IF c \in due THEN states[c].revision ELSE @[c]],
                  !.out = [c \in State |-> IF c \in due /\ ~refused
                                           THEN Append(@[c], states[c].value) ELSE @[c]]]

QueueState(s, kinds, states, refused) ==
    LET due == IF refused THEN {} ELSE Due(s, kinds, states)
    IN  [s EXCEPT !.sent = [c \in State |-> IF c \in due THEN states[c].revision ELSE @[c]],
                  !.out = [c \in State |-> IF c \in due THEN Append(@[c], states[c].value) ELSE @[c]]]

\* Queue the states of these kinds on all sessions; the transport of some may be full.
QueueStates(kinds, sessions, states, cost) ==
    \E refused \in SUBSET setting.viewers :
        /\ Cardinality(refused) <= setting.full
        /\ session' = [v \in Viewers |->
                IF v \in setting.viewers THEN QueueState(sessions[v], kinds, states, v \in refused)
                ELSE session[v]]
        /\ setting' = [cost EXCEPT !.full = @ - Cardinality(refused)]

\* SetLocalMemberState.
SetLocalMemberState(value) ==
    /\ setting.members > 0 /\ value # desired
    /\ desired' = value /\ signal' = TRUE
    /\ setting' = [setting EXCEPT !.members = @ - 1]
    /\ UNCHANGED <<local, sequence, session, viewer, net, heard, shown>>

ApplyDesiredMemberState ==
    /\ signal /\ signal' = FALSE
    /\ IF local["member"].value = desired THEN UNCHANGED <<setting, local, session>>
       ELSE /\ local' = [local EXCEPT !["member"] = [revision |-> @.revision + 1, value |-> desired]]
            /\ QueueStates({"member"}, session, local', setting)
    /\ UNCHANGED <<desired, sequence, viewer, net, heard, shown>>

\* startScreenShare and replaceScreenShare, which both end in activateScreenShare, and
\* stopScreenShare.  The revision serves as the random stream ID.
ScreenCommand(active) ==
    /\ setting.screens > 0
    /\ active \/ local["screen"].value # 0
    /\ LET revision == local["screen"].revision + 1
       IN  local' = [local EXCEPT !["screen"] =
                        [revision |-> revision, value |-> IF active THEN revision ELSE 0]]
    /\ sequence' = [sequence EXCEPT !.screen = 0, !.chunk = 0]
    /\ QueueStates({"screen"}, session, local', [setting EXCEPT !.screens = @ - 1])
    /\ UNCHANGED <<desired, signal, viewer, net, heard, shown>>

\* The ticker of the client's loop.
ReliableTick ==
    /\ QueueStates(State, session, local, setting)
    /\ UNCHANGED <<desired, signal, local, sequence, viewer, net, heard, shown>>

\* A new session is promoted: its transport starts empty, nothing counts as sent.
Rekey(v) ==
    /\ setting.rekeys > 0
    /\ QueueStates(State, [session EXCEPT ![v] = NewSession(@.out)], local,
                   [setting EXCEPT !.rekeys = @ - 1])
    /\ UNCHANGED <<desired, signal, local, sequence, viewer, net, heard, shown>>

\* The fragments retained for these chunks.
Fragments(video, chunks) == UNION {{k} \X video.parts[k] : k \in chunks \cap DOMAIN video.parts}
Retained(video) == Fragments(video, DOMAIN video.parts)

RemoveVideo(w) ==
    [w EXCEPT !.video = NoVideo, !.forward = {},
              !.retained = @ - Cardinality(Retained(w.video))]

\* handleMemberState and handleScreenState, which drops the video of the sender.
HandleState(w, c, value) ==
    IF w.state[c] = value THEN w
    ELSE [(IF c = "screen" THEN RemoveVideo(w) ELSE w) EXCEPT !.state[c] = value]

DeliverState(v, c) ==
    /\ ~viewer[v].burst /\ session[v].out[c] # <<>>
    /\ session' = [session EXCEPT ![v].out[c] = Tail(@), ![v].unacked[c] = @ + 1,
                                  ![v].old = [k \in State |-> <<>>]]
    /\ viewer' = [viewer EXCEPT ![v] = HandleState(@, c, Head(session[v].out[c]))]
    /\ UNCHANGED <<setting, desired, signal, local, sequence, net, heard, shown>>

DeliverOldState(v, c) ==
    /\ ~viewer[v].burst /\ session[v].old[c] # <<>>
    /\ session' = [session EXCEPT ![v].old[c] = Tail(@)]
    /\ viewer' = [viewer EXCEPT ![v] = HandleState(@, c, Head(session[v].old[c]))]
    /\ UNCHANGED <<setting, desired, signal, local, sequence, net, heard, shown>>

AckState(v, c) ==
    /\ session[v].unacked[c] > 0
    /\ session' = [session EXCEPT ![v].unacked[c] = @ - 1]
    /\ UNCHANGED <<setting, desired, signal, local, sequence, viewer, net, heard, shown>>

-----------------------------------------------------------------------------
(* Sending media *)

\* A slip: media starts before the viewer is known to have the screen state.
ScreenStateReadyEarly(s) == s.sent["screen"] = local["screen"].revision

ScreenStateReady(s) ==
    /\ s.sent["screen"] = local["screen"].revision
    /\ s.out["screen"] = <<>> /\ s.unacked["screen"] = 0

\* fanoutReady or not: the plan's destinations, or everybody.
Destinations == {{Forwarder}, setting.viewers}

\* The datagrams of one unit, to each of the viewers; video starts a chunk.
Packets(kind, stream, first, unit, count, to) ==
    {[kind |-> kind, stream |-> stream, seq |-> first + i, unit |-> unit, index |-> i,
      count |-> count, from |-> Sharer, to |-> v] : i \in 1 .. count, v \in to}

SendVoiceFrame ==
    /\ setting.sends > 0 /\ "voice" \in setting.kinds
    /\ sequence' = [sequence EXCEPT !.voice = @ + 1]
    /\ \E to \in Destinations :
        net' = net (+) SetToBag(Packets("voice", 0, sequence.voice, 0, 1, to))
    /\ setting' = [setting EXCEPT !.sends = @ - 1]
    /\ UNCHANGED <<desired, signal, local, session, viewer, heard, shown>>

\* sendScreenVideoChunk and sendScreenAudioFrame.
SendScreen(kind) ==
    /\ setting.sends > 0 /\ kind \in setting.kinds
    /\ local["screen"].value # 0
    /\ QueueStates({"screen"}, session, local, [setting EXCEPT !.sends = @ - 1])
    /\ LET count == IF kind = "video" THEN setting.fragments ELSE 1
       IN  /\ sequence' = [sequence EXCEPT !.screen = @ + count,
                                           !.chunk = IF kind = "video" THEN @ + 1 ELSE @]
           /\ \E to \in Destinations :
                net' = net (+) SetToBag(
                    Packets(kind, local["screen"].value, sequence.screen, sequence'.chunk, count,
                            {v \in to : ScreenStateReady(session'[v])}))
    /\ UNCHANGED <<desired, signal, local, viewer, heard, shown>>

-----------------------------------------------------------------------------
(* Receiving media *)

\* A slip: the bytes of a removed assembly still count.
RemoveChunksLeaking(w, gone) ==
    [w EXCEPT !.video.parts = Restrict(@, DOMAIN @ \ gone), !.video.expired = @ \ gone]

\* removeScreenVideoChunkAssembly.
RemoveChunks(w, gone) ==
    [w EXCEPT !.video.parts = Restrict(@, DOMAIN @ \ gone), !.video.expired = @ \ gone,
              !.retained = @ - Cardinality(Fragments(w.video, gone))]

\* The video state of a stream is made when it is first needed.
WithStream(w, stream) ==
    IF w.video.stream = stream THEN w ELSE [w EXCEPT !.video = [NoVideo EXCEPT !.stream = stream]]

\* The assembly of the chunk, those of older chunks being given up for it.
WithAssembly(w, chunk) ==
    LET newest == Max({w.video.newest, chunk})
        kept   == RemoveChunks(w, {k \in DOMAIN w.video.parts : newest - k > 1})
    IN  [kept EXCEPT !.video.newest = newest,
                     !.video.parts = [k \in DOMAIN @ \cup {chunk} |->
                                        IF k \in DOMAIN @ THEN @[k] ELSE {}]]

\* makeScreenVideoRetentionRoom: there is one other assembly at most.
WithRoom(w, chunk) ==
    IF w.retained < MaxRetained THEN w
    ELSE RemoveChunks(w, DOMAIN w.video.parts \ {chunk})

\* deliverScreenVideoChunk: the oldest makes room.
Completed(w, chunk) ==
    [w EXCEPT !.completed = Append(IF Len(@) < MaxCompleted THEN @ ELSE Tail(@),
                                   <<w.video.stream, chunk>>)]

\* A slip: a chunk may be assembled after a later one was delivered.
IsStaleLenient(video, chunk) == chunk < video.newest /\ video.newest - chunk > 1

IsStale(video, chunk) ==
    chunk <= video.delivered \/ (chunk < video.newest /\ video.newest - chunk > 1)

AddFragment(w, p) ==
    LET added == [w EXCEPT !.video.parts[p.unit] = @ \cup {p.index}, !.retained = @ + 1]
    IN  IF Cardinality(added.video.parts[p.unit]) # p.count THEN added
        ELSE Completed([RemoveChunks(added, {k \in DOMAIN added.video.parts : k <= p.unit})
                            EXCEPT !.video.delivered = p.unit], p.unit)

\* acceptScreenVideoFragment.
AcceptFragment(w0, p) ==
    LET w == WithStream(w0, p.stream)
    IN  IF IsStale(w.video, p.unit) THEN w
        ELSE LET a == WithAssembly(w, p.unit)
                 r == WithRoom(a, p.unit)
             IN  IF p.unit \in a.video.expired THEN RemoveChunks(a, {p.unit})
                 ELSE IF p.index \in a.video.parts[p.unit] THEN a
                 ELSE IF r.retained < MaxRetained THEN AddFragment(r, p) ELSE r

Key(p) == <<p.stream, p.kind>>
Places(w, key) == {i \in DOMAIN w.windows : w.windows[i].key = key}
Place(w, key) == CHOOSE i \in Places(w, key) : TRUE
Known(w, key) == Places(w, key) # {}
WindowOf(w, key) == IF Known(w, key) THEN w.windows[Place(w, key)].window ELSE EmptyWindow
Others(w, key) == IF Known(w, key) THEN RemoveAt(w.windows, Place(w, key)) ELSE w.windows

\* roomDatagramSender, and the window before the packet is opened.
Accepts(w, p) ==
    /\ p.kind = "voice" \/ w.state["screen"] = p.stream
    /\ MayAccept(WindowOf(w, Key(p)), p.seq)

\* A slip: at the limit the stream heard last is forgotten.
MakeRoomWrong(w) ==
    LET forgotten == Last(w.windows).key
        rest      == [w EXCEPT !.windows = Front(@)]
    IN  IF forgotten = <<w.video.stream, "video">> THEN RemoveVideo(rest) ELSE rest

\* At the limit the stream heard longest ago is forgotten, with its video.
MakeRoom(w) ==
    LET forgotten == Head(w.windows).key
        rest      == [w EXCEPT !.windows = Tail(@)]
    IN  IF forgotten = <<w.video.stream, "video">> THEN RemoveVideo(rest) ELSE rest

\* accept, and lastSeen: the windows are in the order of their last packets.
Remember(w, p) ==
    LET room == IF ~Known(w, Key(p)) /\ Len(w.windows) >= MaxStreams THEN MakeRoom(w) ELSE w
    IN  [room EXCEPT !.windows = Append(Others(room, Key(p)),
                [key |-> Key(p), window |-> Accept(WindowOf(w, Key(p)), p.seq)])]

Copies(v, packets, listeners) ==
    SetToBag({[p EXCEPT !.from = v, !.to = u] : p \in packets, u \in listeners})
Listeners(v) == {{}, setting.viewers \ {v}}

\* handleRoomDatagram for voice and screen audio, forwarded at once.
ReceiveAudio(v, p) ==
    /\ p.kind # "video"
    /\ LET w == Remember(viewer[v], p)
       IN  viewer' = [viewer EXCEPT ![v] = [w EXCEPT !.burst = w.burst \/ p.kind = "audio"]]
    /\ heard' = [heard EXCEPT ![v] = @ (+) SetToBag({<<Key(p), p.seq>>})]
    /\ \E listeners \in Listeners(v) :
        net' = IF p.from = Sharer THEN net (+) Copies(v, {p}, listeners) ELSE net

\* handleRoomDatagram for screen video, forwarded at the end of the burst.
ReceiveVideo(v, p) ==
    /\ p.kind = "video"
    /\ LET w == AcceptFragment(WithStream(Remember(viewer[v], p), p.stream), p)
       IN  viewer' = [viewer EXCEPT ![v] =
            [w EXCEPT !.burst = TRUE, !.forward = IF p.from = Sharer THEN @ \cup {p} ELSE @]]
    /\ UNCHANGED <<net, heard>>

ReceiveDatagram(v, p) ==
    /\ p.to = v /\ Accepts(viewer[v], p)
    /\ ReceiveAudio(v, p) \/ ReceiveVideo(v, p)
    /\ UNCHANGED <<setting, desired, signal, local, sequence, session, shown>>

\* flushScreenVideoForwards, when handleScreenPacketBurst ends.
Flush(v) ==
    /\ viewer[v].burst
    /\ viewer' = [viewer EXCEPT ![v].burst = FALSE, ![v].forward = {}]
    /\ \E listeners \in Listeners(v) :
        net' = net (+) Copies(v, viewer[v].forward, listeners)
    /\ UNCHANGED <<setting, desired, signal, local, sequence, session, heard, shown>>

\* screenVideoChunkTTL passes for an assembly.
ChunkExpires(v) ==
    /\ \E k \in DOMAIN viewer[v].video.parts \ viewer[v].video.expired :
        viewer' = [viewer EXCEPT ![v].video.expired = @ \cup {k}]
    /\ UNCHANGED <<setting, desired, signal, local, sequence, session, net, heard, shown>>

\* expireScreenVideoChunks.
ExpireScreenVideoChunks(v) ==
    /\ ~viewer[v].burst /\ viewer[v].video.expired # {}
    /\ viewer' = [viewer EXCEPT ![v] = RemoveChunks(@, @.video.expired)]
    /\ UNCHANGED <<setting, desired, signal, local, sequence, session, net, heard, shown>>

\* The user interface takes a chunk from ScreenVideoChunks.
TakeChunk(v) ==
    /\ viewer[v].completed # <<>>
    /\ shown' = [shown EXCEPT ![v] = Head(viewer[v].completed)]
    /\ viewer' = [viewer EXCEPT ![v].completed = Tail(@)]
    /\ UNCHANGED <<setting, desired, signal, local, sequence, session, net, heard>>

-----------------------------------------------------------------------------

Sync(v) ==
    \/ Flush(v)
    \/ \E c \in State : DeliverState(v, c) \/ DeliverOldState(v, c) \/ AckState(v, c)

ScreenNext ==
    \/ \E value \in {0, 1} : SetLocalMemberState(value)
    \/ ApplyDesiredMemberState \/ ReliableTick \/ SendVoiceFrame
    \/ \E active \in BOOLEAN : ScreenCommand(active)
    \/ \E kind \in {"audio", "video"} : SendScreen(kind)
    \/ \E v \in setting.viewers :
        \/ Rekey(v) \/ Sync(v)
        \/ \E p \in BagToSet(net) : ReceiveDatagram(v, p)
        \/ ChunkExpires(v) \/ ExpireScreenVideoChunks(v) \/ TakeChunk(v)

ScreenSpec == ScreenInit /\ [][ScreenNext]_screenVars

\* The loops of sharer and viewers run, and the reliable transport gets through.
FairScreenSpec ==
    /\ ScreenSpec
    /\ WF_screenVars(ApplyDesiredMemberState) /\ WF_screenVars(ReliableTick)
    /\ \A v \in Viewers : WF_screenVars(Sync(v))

-----------------------------------------------------------------------------
(* Properties *)

\* When media of the current stream is on its way from the sharer, its receiver knows
\* the stream: no frame is wasted on a viewer who would drop it (screenStateReady).
ReceiverKnowsStream ==
    \A p \in BagToSet(net) :
        p.from = Sharer /\ p.kind # "voice" /\ p.stream = local["screen"].value
            => viewer[p.to].state["screen"] = p.stream

\* The budget for unfinished chunks counts exactly what is retained, and is kept
\* (removeScreenVideoChunkAssembly, makeScreenVideoRetentionRoom).
RetainedIsExact ==
    \A v \in Viewers :
        /\ viewer[v].retained <= MaxRetained
        /\ viewer[v].retained = Cardinality(Retained(viewer[v].video))

\* However the network repeats and the assignments overlap, every frame is heard once,
\* and nobody sends the same datagram to the same viewer twice (handleRoomDatagram).
HeardOnce ==
    /\ \A p \in BagToSet(net) : net[p] = 1
    /\ \A v \in Viewers : \A id \in BagToSet(heard[v]) : heard[v][id] = 1

\* The condition of that: the voice of the sharer keeps its window, because the table has room
\* for it and for every stream there can be (maxRoomDatagramReceiveStreams is 4096).
VoiceHasRoom == \A s \in Setting : "voice" \in s.kinds => 1 + 2 * s.screens <= MaxStreams

\* The viewer's picture never goes back: not to an earlier chunk, not to an earlier
\* stream (acceptScreenVideoFragment, handleScreenState).
NeverBackwards ==
    [][\A v \in Viewers : shown'[v] # shown[v] =>
            \/ shown'[v][1] > shown[v][1]
            \/ shown'[v][1] = shown[v][1] /\ shown'[v][2] > shown[v][2]]_screenVars

\* In the end every viewer has the sharer's states, through full transports and new
\* sessions (queueMemberStates, queueScreenStates, applyDesiredMemberState).
StatesAgree ==
    <>[](\A v \in setting.viewers : viewer[v].state = [c \in State |->
            IF c = "member" THEN desired ELSE local["screen"].value])
=============================================================================
