# Bork in TLA+

Bork is a serverless voice chat: the members of a room find each other, agree on
pairwise sessions over UDP, and send voice, screen video, state and files to each
other, directly or with the help of another member. This directory models the
protocol core of the client (`src/internal/peer`), the way of a voice frame from
the microphone to the socket, and the network of a room: its UDP endpoint, the port
mappings and the tracker (`src/internal/networking`). It checks them with TLC on small
instances, and proves the parts that hold for every size with TLAPS.

## 1. Inventory

All state of a client is owned by one goroutine, `Client.Loop`
(`internal/peer/client.go`), which takes packets, timer ticks, commands and
worker results one at a time. The hard behaviour is therefore between clients
(losses, repeats, late packets, both ends acting at once, one end timing out
first) and between the loop and its workers, not between locks. The exceptions
are the media path (audio threads, the send mailbox, the endpoint's writers) and
the network supervisor.

| Component | State | Operations | What makes it correct |
|---|---|---|---|
| Session handshake and paths (`session.go`, `client_loop.go`, `path.go`) | per remote peer an active and a pending session: transcript, ciphers, path, candidate path, outstanding pings | probe, hello, ping, pong, promote a path or a session, time out | the two ends end up in one session with the same keys; late hellos do no harm; a direct path wins over a bridge |
| Leave (`leave.go`) | the remote peer table | send and handle leave | a member that left is forgotten although its hellos may still arrive |
| Packet flow (`control_flow.go`) | next sequence number, 64-bit receive window | `nextSendSequence`, `mayReceive`, `commitReceived` | every packet is handed on at most once, none that fits is refused, unauthenticated ones leave no trace |
| Reliable transport (`reliable.go`) | per channel outbound fragments, receive window, assemblies, order; shared counters, congestion window, round robins | queue, next packet, commit, reject, acknowledge, receive, discard | each message is delivered once, in order on ordered channels; counters are exact; everything arrives and then it is silent |
| File transfer (`file.go`) | per transfer an incoming or outgoing record, at most one worker job, partial file | offer, accept, reject, cancel, read, write, verify, acknowledge, expire, stop | completed means whole; no partial file stays; every transfer ends; transfers do not disturb each other |
| Fanout and topology (`fanout.go`, `topology_message.go`, `bridge.go`, `room_datagram.go`) | claimed neighbours with expiry, the plan, assignments received | plan, deploy, claim, expire, forward | every reachable listener hears the speaker, through at most one forwarder |
| Room datagrams and screen video (`room_datagram.go`, `screen_video.go`) | replay windows per stream, chunk assemblies, forward batches | send, receive, forward, assemble, expire | no frame twice, no mixed chunk, memory bounded |
| Member and screen state (`member_state.go`, `screen_video.go`) | desired, local and sent revision | set, apply, queue, handle | everyone ends up with the last state set |
| Discovery hints (`client_loop.go` 34–205) | table of addresses with expiry and probe interval | add, evict, expire, probe | live addresses are kept, the table is bounded |
| Media flow (`internal/media/flow.go`) | send mailbox, generation, invalidator | submit, consume, invalidate, reset | nothing recorded before a mute is sent after it |
| Endpoint (`internal/networking/endpoint`) | four write lanes, deadlines, generation gate | enqueue, write, drain, shut down | no lane starves, expired media is dropped, every waiter returns |
| Room network (`internal/networking/room_network.go`) | lifecycle of endpoint, port mapping lanes, tracker, local discovery | start, apply, stop, finish | starts and stops in order, stops within its timeout |
| Tracker, local discovery, port mapping | schedules, leases | announce, renew, release | announces again after failure, releases what it leased |
| Audio (`internal/audio`) | frame queue, mixer sources, echo history | push, pop, mix, expire | bounded delay, no source mixed twice |
| Application (`internal/app`) | current room, client, devices, settings | join, leave, switch, command | one client at a time, no command reaches a dead client |
| Codecs, identity, invite, configuration, screen capture, frontend, tracker worker | – | – | see section 7 |

Components interact as follows. `Loop` calls the handlers; sealed packets pass
the packet flow first; reliable packets feed the transport of the session, which
hands messages to fanout, topology, member state, screen state and file transfer;
replacing a session discards its transport and everything queued on it; a bridged
path wraps any of these packets for one intermediary; voice bypasses all of it
and is protected by the room key.

The hazards, each with its line, are listed in `PROJECT.json`; the properties
below were chosen for them.

## 2. Modules

| Module | Models | Notes |
|---|---|---|
| `SequenceSpace` | the number space of packets and fragments | a bound and its assumption |
| `SequenceWindow` | `sequenceWindow`, `FragmentAckContains`, `validReliableAck` | pure operators; the mask is the set of its bit positions |
| `PacketFlow` | the packets of one session | window, sender's counter, authentication between check and commit |
| `SendWindow` | the window rule of one reliable channel | abstract specification of `Reliable`'s sender and receiver |
| `MessageChannel` | what a channel promises | abstract specification of `Reliable` |
| `Reliable`, `MCReliable` | `reliable.go`, `sendReliable`, `handleReliablePacketOnPath` | two peers, any channels; workloads and refinement in `MCReliable` |
| `Session`, `MCSession` | hello, ping, pong, leave, timeouts, path promotion | two peers, any routes |
| `FileTransfer`, `MCFileTransfer` | `file.go` | a sender and a receiver, their loops and workers |
| `Fanout`, `MCFanout` | `fanout.go`, topology claims, who hears | a speaker and its peers |
| `ScreenShare`, `MCScreenShare` | `screen_video.go`, `room_datagram.go`, `member_state.go` | a sharer and its viewers; uses `SequenceWindow` |
| `Microphone` | capture and muting in `internal/audio`, the send half of `flow.go`, the voice lane of `endpoint.go` | composes three components |
| `Endpoint`, `MCEndpoint` | `endpoint.go`: `Run`, `readLoop`, `writeLoop`, `discoveryLoop` | goroutines and channels |
| `PortMapping`, `MCPortMapping` | `internal/networking/portmap`: `Gateway.Run`, PCP, NAT-PMP, UPnP | one lane and its router |
| `RoomNetwork`, `MCRoomNetwork` | `room_network.go`, `discovery/tracker`, and what `tracker/src/index.js` keeps | composes the endpoint, the lanes, the tracker and the discovery services |
| `SequenceFilter` | what is left of a queue or a route when some entries are kept | a recursive function, used by `Reliable`, `Microphone` and `Session` |
| `SequenceFilterProofs` | – | lemmas about filters |
| `SequenceWindowProofs` | – | lemmas about the window, theorems of the models that use it: `PacketFlow`, `SendWindow` and `ScreenShare` |
| `ReliableProofs`, `SessionProofs`, `FileTransferProofs`, `MicrophoneProofs`, `PortMappingProofs` | – | theorems, one module per component |
| `EndpointFanoutProofs` | – | theorems about `Endpoint` and `Fanout` |

How state and actions correspond to the code:

* **PacketFlow.** `sendSequence` is the counter of `nextSendSequence`;
  `receiveWindow` is the window; `accepted[s]`, a history variable, counts how
  often packet `s` was handed on. `Receive` is a handler from `mayReceive` to
  `commitReceived`; `ReceiveDamaged` is one whose decryption fails in between.
* **Reliable.** `transport[p]` holds the fields of `reliableTransport`. `QueueReliable`,
  `Send` (one iteration of `sendReliable`: `nextSend`, then `commit`), `SendRefused`
  (the same with `reject`), `ReceiveReliable` and the two discards are the operations.
  Which transmissions have timed out is nondeterministic: those sent longest ago, as many as
  one likes, because all of them share one retransmission timeout. Sizes are in
  units of payload, and the packet bytes on top are left out.
* **Session.** Peer 1 has the smaller ID and starts sessions. A session is
  identified by the session ID and the answer's key; ciphers agree exactly if both
  do. `Receive(p, type)` is `handlePacket` with the handler of that type and
  everything it calls; `ProbeTick`, `PingTick`, `CleanupTick` are the loop's
  tickers. Clocks are replaced by choices: which probes are due, whether a ping is
  due again, which timeouts have passed.
* **FileTransfer.** Each end's record has the code's states; a worker job runs
  between `startFileWork` and its result, so everything may happen while it
  runs. The data channel holds one chunk and is discarded by
  `discardInboundChannel` / `discardOutboundChannel` as in the code.
* **Fanout.** `path[p]` is the speaker's authenticated path to `p`, `far[p]` the
  same at `p`, `near[p]` the direct sessions among peers. `lead[p]` says which end
  has promoted a newer session first; messages pass only when both use the same
  one, and promoting empties the queues of that end. `RefreshFanout` is
  `refreshFanout`; who hears is computed by `Hears` from the code of
  `sendVoiceFrame`, `forwardRoomDatagram` and `handleRoomDatagram`.
* **Microphone.** Device callback, `encodeLoop`, the client's loop, `writeLoop`, the
  operations of `Engine` and `watchDeviceStop` are processes that interleave. `op` is
  the operation that holds `opMu` with its program counter; `flow.holder` holds
  `flow.mu`, which `ConsumeSend` keeps while a frame is sent and `InvalidateSend`
  while it tells the endpoint; what runs under `realtimeMu` is one step. `generation`
  exists three times, as in the code: in the run (`captureGeneration`), the flow and
  the endpoint. A frame's `sound` is the set of eras in which a callback wrote it;
  `era`, a history variable, counts the calls that closed the microphone.
  A frame is two callbacks long, because the device is opened with a period of half a
  frame. Deadlines and silence detection are choices; `Close`, gains, meters and tones
  are left out.
* **ScreenShare.** `desired`, `local` and `session[v].sent` are the three revisions of
  `member_state.go`, and the last two those of the screen state; `out` is what the
  reliable channel holds until it is acknowledged. A new session (`Rekey`) starts with
  `sent = 0` and an empty channel, and messages of the old one may arrive until the
  viewer has taken up the new. `SendVoiceFrame` and `SendScreen` are the handlers of
  a media frame; `net` keeps every datagram, so each may arrive never, late or many times.
  `ReceiveDatagram` is `handleRoomDatagram`: replay check, `MakeRoom` (eviction of the
  least recently used window), forwarding, and for video `AcceptFragment`
  (`acceptScreenVideoFragment` with its stale check, eviction and retention budget).
  `Flush` sends the forward batch, `TakeChunk` is the consumer of completed chunks. Bytes
  are counted in fragments. `SequenceWindowProofs` extends two models, so initial states and
  specifications are named `ScreenInit`, `ScreenNext`, `ScreenSpec` and `FairScreenSpec` here.
* **Endpoint.** One process each for `Run`, `readLoop`, `writeLoop`, `discoveryLoop` with a
  probe, and a caller of `WriteControl`. `writer` holds the lane whose turn it is and
  what is left of its weight; `WriterChecks` is the test of the context, `WriterScans`
  one pass over the lanes, `WriterIdle` the blocking select. `part` is
  `pendingRealtime`, the rest of a batch. `starved[l]`, a history variable, counts the
  turns given to others since lane `l` has had something to send.
* **PortMapping.** Each exchange with the router is one step, in which the request or the
  answer may be lost. `mapper` is the goroutine of a mapper with the
  program counter of its loop; PCP, NAT-PMP and UPnP share what they have in common
  (`Loop`, `Judge`, `Publish`, `Wait`) and differ in `Request`, `Query`, `Check`,
  `Add`, `Verify` and `Delete`. `sup` is `Gateway.Run` with `runMapperProvider`:
  which mapper to try, its states, its result, and stopping it. `table` is the
  router, which counts leases down itself and grants less than it is asked for. A renewed
  mapping whose address is not known is kept and a new one rolled back, hence the two
  stages `renewed` and `external`.
* **RoomNetwork.** `run.pc = "select"` is the loop of `Run`; the later values are the
  steps of `finish` in their order. A lane has a mapper, which publishes and ends, and
  the goroutine that forwards its states (`LaneForwards`). `group` is `Group.Run`: copy
  the candidates, drain the signal, start the announcers, wait, stop them;
  `AnnouncerStep` is one announcer. `swarm` is what the tracker holds of this peer, by
  address. `client.view` is what the client read last.

## 3. Runs

A run may cover several situations: `Setting` (`Workload` in `Reliable`, `Network`
in `Fanout`) is a set of records, one of which the initial state takes, that say what the world is like and how much may go wrong. All `MC` modules
list theirs.

| Run | Instance | Shows |
|---|---|---|
| `packet_flow` | window of 3 bits, 7 packets | at most once, nothing fresh refused, damaged packets without effect, acknowledgment always valid |
| `reliable` | windows of 2 bits, room for 2 unfinished messages of up to 2 fragments; an ordered channel with 4 fragments, reordering over two packets and a loss; an ordered and a discarded channel on one transport, with more messages than it has reassembly room for; data both ways with a loss and a refusing socket | exact counters, no retransmission in vain, implements `MessageChannel` and `SendWindow`, settles |
| `reliable_uneven` | fragments of two sizes | **violation**, section 6 |
| `session` | one route with a loss, a late or repeated datagram, a premature timeout and leaving; a bridged and a direct route with a loss and a premature timeout | session IDs differ, keys are confirmed before use, no way back to an old session, the peers converge on the direct route, who left is forgotten |
| `file_transfer` | files of two and one chunk, and of one and none; one mishap out of nine kinds | completed is whole, the sender knows, stop-and-wait, no partial file, giving up one transfer strands neither end of another, every transfer ends |
| `fanout` | three peers in a diamond; one change of a link or session, or one expired claim | plans cover each listener through at most one forwarder; a plan in use is in force; everyone within two hops comes to hear |
| `fanout_expiry` | two peers, one change and one expired claim | **violation**, section 6 |
| `screen_share` | windows of 3 bits, room for 3 windows, 2 fragments and 2 completed chunks; three chunks of two fragments; two streams with audio and video; states with a new session and a full transport; two viewers, one of which forwards | media only goes to those who know the stream, every frame is heard once, the picture never goes back, the budget is exact, the states agree |
| `microphone` | queues of one, two datagrams a batch, four operations or device failures, two runs | nothing handed over before a mute, stop or device change leaves after it returned; generations agree again; speaking is not shown for a closed microphone; nobody waits in a circle |
| `endpoint` | weights 2, 1, 1, 1, queues of 2; up to 6 writes, batches of up to 3; stopping or a broken socket with probes, packets and a leave under way | no lane waits longer than one full turn of the others; stopping ends everyone and answers everyone |
| `port_mapping` | two ports, leases of 3 ticks asked for and of 2 granted; a router with all protocols, one with UPnP only, one with permanent UPnP leases, one that gives away ports that are taken; one failed call, up to two ports taken by others or restarts, one tick during a call | nothing of ours stays without a failed call, what is shown is held, other devices keep theirs, the lane settles |
| `room_network` | channels of one; up to two changes of candidates, two mapper states, one failed mapper, one tracker outage, one lost stop, two broken services; ended by the room, the endpoint or not at all | client and tracker come to know the present candidates; leaving ends and withdraws everything |

Why the bounds are enough to be interesting:

* A window of 2 or 3 bits slides by less than, exactly and more than its width
  within 7 numbers; the proofs cover every width.
* In `reliable` the window is smaller than the number of fragments, so the
  window rule, the queue limit and the congestion window all block at some time;
  one loss and reordering exercise repeated data, repeated acknowledgments and
  retransmission. Two unfinished messages on the discarded channel
  take all of the reassembly room: the receiver then refuses the fragment of the ordered
  channel until one of them completes or is given up,
  and must not mark it (`FollowsWindowRule`).
* In `session` up to 12 sessions may be created and the runs use fewer; one fault
  of each kind combines into the crossings the handshake has to survive. A
  datagram arrives before the next timer fires (`MaxBacklog` 0): see section 4.
* In `file_transfer` two transfers share one data channel, which is where they can
  meet; the empty file takes the path without data.
* The diamond of `fanout` has a listener that is reached through either of two
  intermediaries, and peers that are direct and claimed by another (the greedy cover
  prefers the forwarder).
* In `screen_share` three chunks compete for a budget of two fragments, so chunks are
  evicted, go stale and complete out of order. Three windows are as many as a sharer uses at
  a time (voice, screen audio, screen video), which `ScreenShareAssumption` asks for; in the
  second setting a fourth stream evicts the window of one that has ended.
* In `microphone` four operations make sequences such as start, mute, unmute, mute, or
  start, device failure, stop, start. Queues of one are full at once, and the second
  datagram of a batch meets every operation that can come after the first.
* In `endpoint` six writes fill three queues of two, and the voice lane's weight of 2 is
  the smallest with a turn of more than one; the turn it gives to others matters when
  the idle select has moved it.
* In `port_mapping` a lease of 3 ticks is asked for and cut to 2, so that believing the
  request differs from believing the answer. It is renewed after one; a call that takes a
  tick then lets the old lease run out. Two ports are what a conflict and one fallback
  need. The router that gives ports away is where a renewal could overwrite another device.
* In `room_network` a channel of one blocks the lanes while `Run` finishes, and two
  changes let the second arrive while the group starts or stops announcers for the first.

## 4. Fairness

* Reliable: `sendReliable` runs on a ticker that never stops, and what the network
  does not lose arrives. Losses are finite in a run. What waits unfinished on a channel
  that is not ordered is given up in the end: those are file channels, and a transfer
  that gets no further ends by its idle timeout and discards them (run `file_transfer`).
* Session: the tickers never stop (strong fairness, because a tick waits for the
  datagrams under way), received packets are handled, and a session nobody
  answers runs into its timeout. `Converges` needs a ping to be answered before
  the next one is due. The code has the same need: `sendPingOnPath` replaces
  the outstanding ping, and an answer to the replaced one is refused, so a path
  with a round trip above `pingInterval` never authenticates.
* FileTransfer: handlers, workers and the expiry tick run; a stopped peer's session
  is noticed.
* Fanout: the speaker keeps speaking (plans are made when a frame is sent), timers
  fire, messages on a working session arrive (`Settles`), and handshakes on a
  working path end (`Converges`).
* ScreenShare: the loops run, and the reliable channel of a session that is not replaced
  gets through (run `reliable`). Datagrams need not arrive.
* Microphone: none is assumed. That operations return is stated as a safety property,
  `NobodyStuck`: an operation under way can move, or somebody it waits for can.
* Endpoint: goroutines run, deadlines pass, and closing the socket ends the read. The
  client need not take packets, and nobody need send any.
* PortMapping: goroutines run, calls end by their timeouts, and time passes (strong
  fairness, because a tick waits until the timers that are due have fired).
* RoomNetwork: goroutines run, the client reads, a mapper and the endpoint end when told
  to (runs `port_mapping` and `endpoint`), and requests to the tracker are answered or
  fail. Outages are finite in a run; `retry` does not give up in the code either.

## 5. Proofs

`SequenceWindowProofs` first states what `Accept` does to type, highest number and mask.
The theorems about `PacketFlow` and `SendWindow` that follow use nothing else about the mask.
The only assumptions are that the window has at least one bit
(`WindowBitsAssumption`) and that the number space is a natural number
(`MaxSequenceAssumption`).

* `PacketFlow`: at-most-once is not inductive: it says nothing of what the
  mask holds. The invariant adds that the mask agrees with the history for all
  numbers inside the window (`WindowIsExact`), that the window is not ahead of the
  sender, and that it reads as a valid acknowledgment. From it follow
  `FlowTypeCorrect`, `HandedOnAtMostOnce`, `WindowFollowsSender`,
  `NothingFreshRefused` and `AckAlwaysValid`, for every width and every number of
  packets.
* `SendWindow`: an acknowledgment is the receiver's window at the moment a packet left.
  It may be lost, repeated, or arrive after any number of newer ones, and the sender
  drops what it covers without knowing what the receiver has. The invariant bounds the
  spread between the fragments in flight and the newest one sent (`SpreadIsBounded`),
  relates the receiver's mask to what it retained (`MaskIsExact`), and says that every
  acknowledgment on its way covers retained fragments only (`AcksAreEarned`): a window
  never marks what was not retained, and what is retained stays so. From it follow `ListedStaysInReach`,
  `RetransmissionCanEnd` and `NothingIsForgotten`. Together with the refinement that
  run `reliable` checks they explain why the width of the send window must be the
  width of the mask; `reliable_uneven` shows the assumption they rest on.

* `ReliableProofs`: `CountersStayExact`, `TransportTypeCorrect` and the invariant they follow
  from (`TransportInvariance`), for any number of channels, any messages, windows, limits and
  losses. `CountersAreExact` compares five counters with what the transport holds; it is not
  inductive, because a counter could be exact and the next acknowledgment subtract a
  fragment that is listed twice, or a packet name a channel the transport has never seen. The
  invariant `TransportIInv` says of each end (`Sound`) that its fields have their types, that a
  fragment is listed once and on a known channel with a number already given out, and that
  the counters are exact; and of the path that it carries packets. A counter is a sum
  over a set, so the proof starts with what `SumFunction` returns (`SumRemove`: a sum is any
  summand and the sum of the others), from which follow how `queue`, `commit`,
  `consumeFragmentAck`, `receive`, `removeAssembly` and the discards move the counters
  (`TotalSizeAdd`), and that a message is cut into fragments of its size (`CutSum`). Each
  method has a lemma that it keeps a transport sound, and each action follows from them.
  `ReliableAssumption` asks for two peers, finitely many channels, limits of the congestion
  window in their order with room for one fragment, and workloads of the declared shape.
* `EndpointFanoutProofs` on `Fanout`: `PlanInForce`: while the plan is ready and no refresh is due, every
  destination of the plan that shares a session with the speaker has exactly the
  plan's assignment in force. This is not inductive: it says nothing of an
  assignment still queued. The invariant (`OnItsWay`) says, ready or not, that a
  destination's assignment is the last one queued or has arrived, and that it can
  only be queued when the speaker has replaced the session and the peer has not.
  The proof holds for every room, network and bound; it uses nothing of how a plan
  is computed and does not cite `FanoutAssumption`.
  `EveryPlanCovers` is about just that: the greedy choice of `buildFanoutPlan`, in every
  state of every room. What a round has left is a recursive function, so the proof is by
  induction over the rounds (`RoundsExist`, `RoundsCover`), with the invariant `Covering`:
  nobody has two forwarders, who is not covered has none, who is covered is a destination or
  has one, and every round has covered somebody unless nobody was left. The best neighbour
  of a round exists because bounded sets of numbers have greatest elements (`FirstExists`).
  After as many rounds as there are peers all direct neighbours are covered;
  `constrainFanoutToActivePaths` adds the listeners behind an intermediary and takes them from
  everybody else. `FanoutAssumption` says that peers are finitely many positive numbers.

* `SessionProofs`: `IDsDiffer`, `KeysAreShared`, `SessionsGoForward` and `TypeCorrect`, for
  any number of sessions, routes, losses, delays, repetitions and timeouts. None of the
  three is inductive: they say nothing of a pending session, which is the next active
  one, and nothing of datagrams under way, which create pending sessions. The invariant
  adds what a pending session can be (`Keys`), that the pending session of the initiator
  is its last one and that of the responder may be older than its active one only if the
  initiator has not derived its keys (`Order`), and that a datagram names a session its
  sender created or was sealed with keys its sender derived (`Traffic`). The proof has two
  halves: every action is one of five moves on sessions and keys (`Touches`, `Initiates`,
  `Responds`, `Completes`, `Promotes`), and every move preserves the invariant. The key of
  the argument is that peer 1 derives keys for its newest session only, so an old session
  made from a late hello is never confirmed. `SessionAssumption` says that the routes are
  finitely many and that the values standing for none are not routes and sessions.
* `FileTransferProofs`: `EndsStayInStep`, `WhatIsCompletedIsWhole`, `SenderIsRight`,
  `NothingHalfWritten` and `TypeCorrect`, for any number of transfers and chunks, any number
  of mishaps, and whatever the source file becomes. What the four state relates records, and
  the facts that make it true are elsewhere: in workers that have not ended, chunks and
  acknowledgments under way, and files not yet removed. The invariant has two
  parts. `Consistent` says, for each status of the receiver's record, what its worker can be
  doing, what the file holds (the hashed chunks are on the disk in their places; a file still
  being created is empty), and how it has yet to be closed. `InStep` says that the chunk
  after those the sender counts is in one place: not read yet, under way, being written, or
  written and not yet acknowledged; and that an acknowledgment of the last chunk is only sent by
  a receiver that has completed. The latter needs that at most one acknowledgment of a transfer
  with chunks is under way (`AckOnce`). Each action is shown to be one of four
  moves (`SenderIInv`, `ReceiverIInv`, `DiskIInv`, `GiveUpIInv`) or touches no record; only
  `stopFileTransfers` changes several transfers at once. `FileTransferAssumption` says that files have a natural
  number of chunks and that `NoJob` is not a worker.
* `MicrophoneProofs`: `MutedIsSilent`, `GenerationsAgree`, `SpeakingIsTrue` and
  `TypeCorrect`, for queues of every length and any number of datagrams, runs and
  operations. `NothingAfterMute` is about the moment of sending, and
  `writeRealtimeDatagram` compares generations, not eras; the invariant relates the two. It
  says where each operation can be and what the engine's status is there (`Places`,
  `Status`), who holds `flow.mu` (`Locks`), how the three generations relate at each place
  (`Gates`), and that every frame and batch under way which carries the generation in
  force holds sound of the present era only, and none while the microphone is shut
  (`Sound`). A frame half written when the gate closes is the hard case: either its
  generation is no longer in force, or the callback that ends it silences it (`Slot`). That sound under way stays allowed is shown once, from `Growth`: no
  step takes back what was allowed. `MicrophoneAssumption` asks for queues of at least one
  entry and that `Nil` is not a frame, batch, callback or operation.
* `EndpointFanoutProofs` on `Endpoint`: `LanesAreFair`, for all weights, capacities and patterns of writes:
  a lane with something to send waits for at most one turn of each other lane. The bound
  itself is not inductive; the invariant (`OneRound`) adds what the turn in force
  and the lanes between it and the waiting one may still take to what has been taken, and
  says that the sum fits one round. `StarvedWaits` carries it through a scan, which skips
  empty lanes, and through the idle select, which may only be entered when nobody waits.
  `ChannelsCloseLast`: `readLoop` never sends on a channel that `Run` has closed; the
  invariant says that `Run` returns only when `readLoop` has ended.

* `SequenceWindowProofs` on `ScreenShare`: `ReceiverKnows`, `BudgetIsExact`,
  `PictureNeverGoesBack` and `FramesHeardOnce`, for any number of viewers, streams, states, frames and faults. The
  invariant `ScreenIInv` has a part for each. That media on its way is known to its receiver
  depends on messages not yet sent: `Chains` orders what a viewer has seen, what lies in the
  channel and what the sharer has sent as one chain of revisions, to which a message of an old
  session only adds something older; `Informed` and `Sent` say that media of a stream is only
  sent to viewers that have acknowledged its state, or a later one. The budget is exact
  because `Budget` ties it to the assemblies, of which there is one per chunk. That
  the picture never goes back needs the replay windows (`Windows`): they are ordered by their
  last packet, so the one that is evicted when the table is full is never that of the live
  video, and with it the number below which fragments are refused; `Pictures` relates that
  number, the completed chunks and what was shown. `ScreenShareAssumption` asks for at
  least three windows, the streams one sharer can send at a time.
  `FramesHeardOnce` has one more hypothesis, `VoiceHasRoom`: where voice is sent, the table
  has room for its window and for those of every stream that will be shared (with the
  code's limit of 4096, for 2047 streams). It is needed. A voice that is silent while newer
  streams fill the table loses its window, and a frame the network then repeats is heard
  again; TLC finds that with three windows and two streams. Without voice any three windows do: a full table
  forgets a stream that is over (`ForgottenIsOver`), because those that are over were last
  heard before the one that is not (`Grouped`). The rest of `OnceIInv` says why a number is
  not used twice: the numbers sent are below the sharer's counters (`Numbered`), and what was heard,
  passed on or is to be passed on is refused by its window or belongs to a stream that is over
  (`Passed`, `Pending`).
* `PortMappingProofs`: `TypeCorrect`, `NothingIsLeft`, `OthersKeepTheirs` and
  `ShownMappingIsHeld`, for any list of mappers, any ports, leases and routers and any
  number of faults and mishaps. `LeavesNothing` counts all our mappings against the failed
  calls; the invariant counts only those that nobody will delete (`Loose`), because the one
  the mapper still holds (`Holds`) is deleted by its cleanup. `Places` says which protocol
  can be at which step and what a deletion is for, `Tables` that the router has one
  mapping for PCP and NAT-PMP, which do not name it by its port, and `Untouched` that UPnP
  deletes or overwrites what it saw to be free or its own, or what came after the look. `ShownIsHeld` compares the room with
  the router, but the mapper stands between them: its belief and the states it has
  published and the Gateway has not taken. `ShownIInv` says of a mapper that has retracted
  nothing (`Live`) that every announcement, taken or not, names the port of its
  mapping and no more time than the router gives it (`Owns`), that nothing was announced
  before it was confirmed, nothing is given up without saying so and no confirmed lease is
  longer than the router grants (`Stages`), and that UPnP finds under its own name only
  what it has just added, with the whole granted lease but the ticks since the request
  (`Creating`). This is where counting the lease from the
  beginning of the request matters. `PortMappingAssumption` says that the mappers are
  among the three protocols and not none, that the ports are finitely many, and that `Nil` and
  `Forever` are no records and no numbers.

`SequenceFilterProofs` shows what a filter on a sequence returns. It needs induction:
`SetInduction` states it for the set of the numbers for which something holds, which follows
from the well-foundedness of `<` and needs no operator as a parameter, and `Least` that a
set of numbers has a least one. The existence of
the recursive function (`FollowsExists`) and the type of its value (`OnlyType`) follow.

The inductive invariants of `Reliable`, `Session`, `FileTransfer`, `Microphone`, `Endpoint`, `Fanout`,
`ScreenShare` and `PortMapping` were model-checked on the instances of the runs before they were proved. `WindowIsExact`, and
`TransportTypeOK` of `Reliable`, `TypeOK` of `PacketFlow`, `Session`, `FileTransfer`, `Microphone`, `ScreenShare` and `PortMapping`, are parts of proved invariants and not
checked by a run of their own; `NoPanic` is a theorem only.

Only model-checked: `RetransmissionHelps` and `Settles` of `Reliable` and its refinements of
`MessageChannel` and `SendWindow`; everything in `RoomNetwork`; `NobodyStranded` of
`FileTransfer`, which supposes that nothing went wrong and needs the order of the control
messages; `NobodyStuck` of `Microphone`, which is
stated with ENABLED; all liveness; and the refinements. Liveness under fairness and
ENABLED are beyond the prover. So are the library's induction theorems, which have an
operator as a parameter, and `SelectSeq`, whose definition is recursive; models that are
proved about use recursive functions and `SequenceFilter` instead.

## 6. Disagreements between code and documents

* `reliable_uneven`: `nextPacket` skips a new fragment that does not fit the
  congestion window and sends smaller, newer ones; the window test looks only at
  fragments already sent. The receiver's window moves past the skipped fragment
  and refuses it for ever; an ordered channel is then stuck.
* `fanout_expiry`: `recordTopologyClaims` ignores claims that have expired but are
  not yet removed when it decides whether anything changed, and then removes them.
  A plan that relies on such a claim is kept although the forwarder no longer
  reaches the listener.

Seen while modelling and not stated as a property:

* Canceling while the destination is being created leaves an empty file (`file.go`
  around 291).
* `finish` with a full queue reports a failed transfer but leaves the whole file.
* A cancel that cannot be queued is dropped; the offer stays at the other end, and
  rejecting it later discards the chunk of another transfer, which then ends by its
  timeout only.
* `fanoutReady` asks whether a destination is authenticated, not whether it is
  direct; while a full channel holds the new plan back, the old one may name a
  destination that gets no frames.
* The gate is read before a callback writes (`engine.go` 515). A callback held up for
  the whole of a mute and the beginning of an unmute hands over half a frame recorded
  before the mute as if it were new. `NothingAfterMute` counts sound from the moment it
  is written, so this is not a violation of it. Callbacks of a whole frame could
  also be sent while muted; the period of half a frame rules that out.
* `setCaptureMuted` opens the gate before it publishes that the microphone is open; a
  status read in between may show a muted member speaking. `SpeakingIsLive` allows
  this while an unmute is under way.
* The tracker (`tracker/src/index.js` around 53) keys a registration by peer ID and
  address, without the port, and all candidates of a client share one peer ID
  (`announcer.go` 46). Two IPv4 candidates with one public address and different ports (a
  port mapping and a STUN mapping, or STUN mappings that differ between servers, which
  `room_network.go` 398 wants to announce) displace each other, and stopping one
  withdraws the other. `Current` therefore asks for one registration per address, not for
  each candidate.
* An announce that was given up may reach the tracker after the stop that followed it and
  then stays until it expires. The model assumes that it arrives before or never.
* A permanent UPnP mapping is forgotten when its rollback fails or the room is left
  at that moment; `LeavesNothing` excepts it.
* NAT-PMP cleans up only a mapping it has advertised. One whose verification failed
  stays for its lease.
* UPnP looks up an entry and then deletes it by port, or adds its own on that port, which
  some routers let replace what is there. Another device may take the port in between and
  loses it; `NoTrespass` excepts this, and nothing else.
* A router that restarts, or a renewal that fails until the lease has run out, leaves an
  address shown that the router does not hold until the mapper's next turn. `ShownIsHeld`
  speaks of mappings the router has not forgotten and leases that have not run out;
  `Settles` demands that neither is shown in the end.
* When the table of replay windows is full, the least recently used one is evicted, in use or not.
  `HeardOnce` holds as long as there is room (`VoiceHasRoom` in section 5); with two streams
  of audio and video beside the voice and room for three windows TLC finds it violated.
* A lane that is blocked on the full event channel when `finish` gives up waiting for it
  stays blocked.
* A `WriteControl` request that gets into the queue after the drain is answered by
  its timeout only.

## 7. Not modelled

* Wire codecs: byte layouts without state. Their one piece of logic,
  `validReliableAck`, is modelled.
* Round trip estimation, real time, addresses within a route: replaced by
  nondeterministic choices.
* Reordering within one route between session packets; `Session` reorders across
  routes and delays hellos and probes at will.
* Of the port mapping: several gateways, route changes, and the formats of PCP,
  NAT-PMP and UPnP. Of the tracker: several providers, the peers it returns, expiry and
  limits of a swarm. Of the endpoint: parallel probes, starting to listen, STUN
  formats. Of screen sharing: several sharers.
* The discovery hints of the client, the local discovery services, the envelope of
  bridge packets, playback with its jitter buffer, and the application: see section 8.
* Screen capture, audio devices, signal processing, frontend, configuration, identity,
  invites: stateless, platform bindings or user interface.

## 8. What is left

Modelled: packet flow, reliable transport, session, leave, file transfer, fanout, screen
sharing and member state, the microphone's way to the socket, the endpoint, port mapping,
the room network with the tracker.

Not modelled, in the order in which it would be worth doing:

1. Playback: the received queues of the flow, the jitter buffer of the mixer and the playback
   queue. It composes with `Microphone` at the other end of a session.
2. The application's lifecycle of a client: join, leave and switch while commands are pending.
3. The hint table with its probe intervals, and the envelope and replay window of bridge
   packets.

Proofs that would add most: that `Reliable` implements `SendWindow`, which would carry
`ListedStaysInReach` over to the transport, and that it implements `MessageChannel`.
