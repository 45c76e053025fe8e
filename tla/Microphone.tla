----------------------------- MODULE Microphone -----------------------------
(***************************************************************************)
(* The way of recorded sound from the audio device to the socket, and the  *)
(* operations that close it: muting, stopping, replacing the device.       *)
(*                                                                         *)
(*   device callback -> capture queue -> encodeLoop -> media.Flow ->       *)
(*   the client's loop -> voice queue of the endpoint -> writeLoop         *)
(*                                                                         *)
(* Each arrow crosses a goroutine, so sound is under way at every one when *)
(* the user mutes.  A send generation, copied to the audio run, the flow   *)
(* and the endpoint, marks what is still allowed out.                      *)
(*                                                                         *)
(* opMu, flow.mu and realtimeMu are modelled: op is the operation that     *)
(* holds opMu, flow.holder the holder of flow.mu; what runs under          *)
(* realtimeMu is one step.  The device calls back with half a frame at a   *)
(* time (PeriodSizeInFrames).  Sound is the set of the eras in which       *)
(* callbacks handed it over; an era ends when a call that closes the       *)
(* microphone returns, and era 0 stands for the time while it is closed.   *)
(***************************************************************************)
EXTENDS Naturals, Sequences, SequencesExt, SequenceFilter

CONSTANTS
    CaptureQueueFrames,  \* captureQueueFrames
    MaxVoiceBatches,     \* maxVoiceBatches
    Datagrams,           \* datagrams of a batch, one for each destination
    MaxOperations,       \* bound: operations and device failures
    MaxRuns,             \* bound: audio runs
    Nil

\* A frame on its way to the flow, a batch of datagrams, an operation and its place.
Frame == [generation : Nat, muted : BOOLEAN, sound : SUBSET Nat]
Batch == [generation : Nat, sound : SUBSET Nat, left : Nat \ {0}]
Callback == [muted : BOOLEAN]
Op == [kind : {"mute", "unmute", "start", "abort", "stop", "rebuild", "monitor"},
       at : {"invalidate", "signal", "store", "open", "finish", "cancel", "uninit", "wait",
             "launch", "device", "activate", "failed"}]

ASSUME MicrophoneAssumption ==
    /\ CaptureQueueFrames \in Nat \ {0}
    /\ MaxVoiceBatches \in Nat \ {0}
    /\ Datagrams \in Nat \ {0}
    /\ MaxOperations \in Nat /\ MaxRuns \in Nat
    /\ Nil \notin Frame \cup Batch \cup Callback \cup Op

VARIABLES
    engine,         \* captureMuted, and of the published status: muted, speaking, running
    run,            \* the last engineRun: id, active, generation, cancelled, its device,
                    \* and whether deviceStopped holds a notice
    capture,        \* the callback under way, captureAssembler and the capture queue
    encoder,        \* encodeLoop of the last run: where it is, and its frame
    flow,           \* media.Flow: generation, send, holder, attached
    consumed,       \* the frame the client's loop has taken from the flow, or Nil
    endpoint,       \* generation, voice queue, the batch writeLoop has in hand
    op,             \* the operation that holds opMu, or Nil
    monitor,        \* monitor[r]: watchDeviceStop of run r
    awaited,        \* runs whose monitor some Stop is waiting for
    era,            \* the current era
    operations      \* bound

vars == <<engine, run, capture, encoder, flow, consumed, endpoint, op, monitor, awaited,
          era, operations>>
audio == <<engine, run, capture, encoder>>
network == <<flow, consumed, endpoint>>
control == <<op, monitor, awaited, era, operations>>

NoCapture == [callback |-> Nil, half |-> 0, slot |-> Nil, queue |-> <<>>]

Init ==
    /\ engine = [captureMuted |-> FALSE, muted |-> FALSE, speaking |-> FALSE, running |-> FALSE]
    /\ run = [id |-> 0, active |-> FALSE, generation |-> 0, cancelled |-> TRUE, device |-> "off",
              notice |-> FALSE]
    /\ capture = NoCapture
    /\ encoder = [at |-> "off", frame |-> Nil]
    /\ flow = [generation |-> 1, send |-> Nil, holder |-> "free", attached |-> FALSE]
    /\ consumed = Nil
    /\ endpoint = [generation |-> 0, batches |-> <<>>, writing |-> Nil]
    /\ op = Nil
    /\ monitor = [r \in 1 .. MaxRuns |-> "none"]
    /\ awaited = {}
    /\ era = 1
    /\ operations = 0

-----------------------------------------------------------------------------
(* Device callbacks: captureAssembler *)

\* The microphone has been closed and nobody is opening it.
Closed == engine.muted /\ (op = Nil \/ op.kind # "unmute")

\* The device calls back and the gate is read, before anything is written.
CallbackBegins ==
    /\ run.device = "on" /\ capture.callback = Nil
    /\ capture' = [capture EXCEPT !.callback = [muted |-> engine.captureMuted]]
    /\ UNCHANGED <<engine, run, encoder, network, control>>

\* The slot a frame is written to; there is none while the queue is full.
NewSlot ==
    IF Len(capture.queue) = CaptureQueueFrames THEN Nil
    ELSE [generation |-> run.generation, muted |-> FALSE, sound |-> {}]

\* Half a frame is added to its slot.  One muted half silences the frame.
AddHalf(slot) ==
    IF slot = Nil THEN Nil
    ELSE [slot EXCEPT !.muted = @ \/ capture.callback.muted,
                      !.sound = @ \cup {IF Closed THEN 0 ELSE era}]

\* Write: a frame takes its generation when it begins and is queued when it is
\* complete.
CallbackWrites ==
    LET begun == AddHalf(NewSlot)
        full == AddHalf(capture.slot)
    IN /\ capture.callback # Nil
       /\ IF capture.half = 0
          THEN capture' = [capture EXCEPT !.callback = Nil, !.half = 1, !.slot = begun]
          ELSE capture' = [capture EXCEPT !.callback = Nil, !.half = 0, !.slot = Nil,
                  !.queue = IF full = Nil THEN @
                            ELSE Append(@, IF full.muted THEN [full EXCEPT !.sound = {}] ELSE full)]
       /\ UNCHANGED <<engine, run, encoder, network, control>>

-----------------------------------------------------------------------------
(* encodeLoop *)

\* The next frame is read in place, or dropped as a leftover.
EncoderAcquires ==
    /\ encoder.at = "idle" /\ capture.queue # <<>>
    /\ IF Head(capture.queue).generation = run.generation
       THEN /\ encoder' = [at |-> "processing", frame |-> Head(capture.queue)]
            /\ UNCHANGED capture
       ELSE /\ capture' = [capture EXCEPT !.queue = Tail(@)]
            /\ UNCHANGED encoder
    /\ UNCHANGED <<engine, run, network, control>>

\* Mutant: a run that has been stopped still reports.
SetLocalSpeakingStopped(generation, speaking) ==
    engine' = IF ~engine.captureMuted /\ generation = run.generation
              THEN [engine EXCEPT !.speaking = speaking] ELSE engine

\* setLocalSpeaking
SetLocalSpeaking(generation, speaking) ==
    engine' = IF run.active /\ ~engine.captureMuted /\ generation = run.generation
              THEN [engine EXCEPT !.speaking = speaking] ELSE engine

\* The frame is measured and encoded, and its slot released.  It goes no further
\* if encoding fails or the codec has nothing to say.
EncoderEncodes ==
    /\ encoder.at = "processing"
    /\ \/ UNCHANGED engine
       \/ SetLocalSpeaking(encoder.frame.generation, FALSE)
       \/ ~encoder.frame.muted /\ SetLocalSpeaking(encoder.frame.generation, TRUE)
    /\ capture' = [capture EXCEPT !.queue = Tail(@)]
    /\ encoder' \in {[encoder EXCEPT !.at = "encoded"], [at |-> "idle", frame |-> Nil]}
    /\ UNCHANGED <<run, network, control>>

\* The generation is compared again after encoding.
EncoderChecks ==
    /\ encoder.at = "encoded"
    /\ encoder' = IF encoder.frame.generation = run.generation
                  THEN [encoder EXCEPT !.at = "submitting"] ELSE [at |-> "idle", frame |-> Nil]
    /\ UNCHANGED <<engine, run, capture, network, control>>

\* SubmitSend: a frame replaces one that has not been taken.
SubmitSend ==
    /\ encoder.at = "submitting" /\ flow.holder = "free"
    /\ flow' = IF encoder.frame.generation = flow.generation
               THEN [flow EXCEPT !.send = encoder.frame] ELSE flow
    /\ encoder' = [at |-> "idle", frame |-> Nil]
    /\ UNCHANGED <<engine, run, capture, consumed, endpoint, control>>

EncoderEnds ==
    /\ encoder.at = "idle" /\ run.cancelled
    /\ encoder' = [encoder EXCEPT !.at = "off"]
    /\ UNCHANGED <<engine, run, capture, network, control>>

-----------------------------------------------------------------------------
(* The client's loop *)

\* A full queue loses its oldest entry.
EnqueueFresh(queue, value) ==
    Append(IF Len(queue) < MaxVoiceBatches THEN queue ELSE Tail(queue), value)

\* SendRealtimeBatch: generation 0 is for what is forwarded.
SendRealtimeBatch(generation, sound) ==
    endpoint' = IF generation \in {0, endpoint.generation}
                THEN [endpoint EXCEPT !.batches = EnqueueFresh(@,
                         [generation |-> generation, sound |-> sound, left |-> Datagrams])]
                ELSE endpoint

\* SetRealtimeSendGeneration: what is queued under another generation goes.
Retained(generation) ==
    [endpoint EXCEPT !.generation = generation,
                     !.batches = Only(@, {b \in ToSet(@) : b.generation \in {0, generation}})]

\* Loop starts: SetSendInvalidator.
ClientStarts ==
    /\ ~flow.attached /\ flow.holder = "free"
    /\ flow' = [flow EXCEPT !.attached = TRUE]
    /\ endpoint' = Retained(flow.generation)
    /\ UNCHANGED <<audio, consumed, control>>

\* ConsumeSend takes the frame and keeps flow.mu until the frame is sent.
ConsumeSend ==
    /\ flow.attached /\ flow.holder = "free" /\ flow.send # Nil
    /\ consumed' = flow.send
    /\ flow' = [flow EXCEPT !.send = Nil, !.holder = "client"]
    /\ UNCHANGED <<audio, endpoint, control>>

\* sendVoiceFrame; nothing is sent if the frame is too late or nobody listens.
SendVoiceFrame ==
    /\ consumed # Nil
    /\ \/ SendRealtimeBatch(consumed.generation, consumed.sound)
       \/ UNCHANGED endpoint
    /\ consumed' = Nil
    /\ flow' = [flow EXCEPT !.holder = "free"]
    /\ UNCHANGED <<audio, control>>

\* forwardRoomDatagram: somebody else's voice is queued.
ForwardRoomDatagram ==
    /\ flow.attached /\ consumed = Nil
    /\ SendRealtimeBatch(0, {})
    /\ UNCHANGED <<audio, flow, consumed, control>>

-----------------------------------------------------------------------------
(* writeLoop, voice lane *)

\* A batch is taken from the queue; no lock protects what is in hand.
TakeBatch ==
    /\ endpoint.writing = Nil /\ endpoint.batches # <<>>
    /\ endpoint' = [endpoint EXCEPT !.writing = Head(endpoint.batches), !.batches = Tail(@)]
    /\ UNCHANGED <<audio, flow, consumed, control>>

\* Mutant: a batch in hand was fresh when it was queued.
WritableOnceQueued(batch) == TRUE

\* The generation is compared for every datagram.
Writable(batch) == batch.generation \in {0, endpoint.generation}

\* What is left of a batch after one datagram.
RestOf(batch) == IF batch.left = 1 THEN Nil ELSE [batch EXCEPT !.left = @ - 1]

\* writeRealtimeDatagram: one datagram reaches the socket; other lanes have
\* their turn before the next one.
Transmit ==
    /\ endpoint.writing # Nil /\ Writable(endpoint.writing)
    /\ endpoint' = [endpoint EXCEPT !.writing = RestOf(@)]
    /\ UNCHANGED <<audio, flow, consumed, control>>

\* The batch is stale or out of time, and dropped.
DropBatch ==
    /\ endpoint.writing # Nil
    /\ endpoint' = [endpoint EXCEPT !.writing = Nil]
    /\ UNCHANGED <<audio, flow, consumed, control>>

-----------------------------------------------------------------------------
(* Operations of the engine, each holding opMu from its first step to its last *)

Begin(kind, at) == op = Nil /\ op' = [kind |-> kind, at |-> at]
Goto(at) == op' = [op EXCEPT !.at = at]
At(at) == op # Nil /\ op.at = at

\* A call of the bounded number of calls and failures.
Counted == operations < MaxOperations /\ operations' = operations + 1

\* setCaptureMuted: the gate is closed first when muting.
SetCaptureMuted(muted) ==
    /\ Counted
    /\ engine.muted # muted
    /\ Begin(IF muted THEN "mute" ELSE "unmute",
             IF engine.running THEN "invalidate" ELSE IF muted THEN "finish" ELSE "open")
    /\ engine' = [engine EXCEPT !.captureMuted = @ \/ muted]
    /\ UNCHANGED <<run, capture, encoder, network, monitor, awaited, era>>

\* InvalidateSend and the send half of Reset, once flow.mu is free.
InvalidateSend ==
    /\ At("invalidate") /\ flow.holder = "free"
    /\ flow' = [flow EXCEPT !.generation = @ + 1, !.send = Nil, !.holder = "operation"]
    /\ Goto("signal")
    /\ UNCHANGED <<audio, consumed, endpoint, monitor, awaited, era, operations>>

\* Where an operation goes on once the generation is in force.
AfterSignal ==
    CASE op.kind \in {"mute", "unmute"} -> "store"
      [] op.kind \in {"stop", "rebuild", "monitor"} -> "cancel"
      [] op.kind = "start" -> "launch"
      [] op.kind = "abort" -> "failed"

\* The invalidator of the flow, if a client is attached; flow.mu is released.
SignalGeneration ==
    /\ At("signal")
    /\ endpoint' = IF flow.attached THEN Retained(flow.generation) ELSE endpoint
    /\ flow' = [flow EXCEPT !.holder = "free"]
    /\ Goto(AfterSignal)
    /\ UNCHANGED <<audio, consumed, monitor, awaited, era, operations>>

\* Mutant: the run keeps the generation it was started with.
StoreGenerationSkipped ==
    /\ At("store")
    /\ Goto(IF op.kind = "mute" THEN "finish" ELSE "open")
    /\ UNCHANGED <<audio, network, monitor, awaited, era, operations>>

\* captureGeneration.Store
StoreGeneration ==
    /\ At("store")
    /\ run' = [run EXCEPT !.generation = flow.generation]
    /\ Goto(IF op.kind = "mute" THEN "finish" ELSE "open")
    /\ UNCHANGED <<engine, capture, encoder, network, monitor, awaited, era, operations>>

\* The gate is opened last when unmuting.
OpenCapture ==
    /\ At("open")
    /\ engine' = [engine EXCEPT !.captureMuted = FALSE]
    /\ Goto("finish")
    /\ UNCHANGED <<run, capture, encoder, network, monitor, awaited, era, operations>>

\* The status is published and the call returns.
FinishMuted ==
    /\ At("finish")
    /\ engine' = [engine EXCEPT !.muted = op.kind = "mute",
                                !.speaking = @ /\ op.kind # "mute"]
    /\ op' = Nil
    /\ era' = IF op.kind = "mute" THEN era + 1 ELSE era
    /\ UNCHANGED <<run, capture, encoder, network, monitor, awaited, operations>>

-----------------------------------------------------------------------------
(* Starting and stopping the run *)

\* The first part of stopRunLocked: the run is no longer the engine's.
StopRun(kind) ==
    /\ engine.running
    /\ Begin(kind, "invalidate")
    /\ engine' = [engine EXCEPT !.running = FALSE, !.speaking = FALSE]
    /\ run' = [run EXCEPT !.active = FALSE]

\* Stop
Stop ==
    /\ Counted
    /\ StopRun("stop")
    /\ UNCHANGED <<capture, encoder, network, monitor, awaited, era>>

\* rebuildRunLocked, from SetDevices and RefreshDevices
Rebuild ==
    /\ Counted
    /\ StopRun("rebuild")
    /\ UNCHANGED <<capture, encoder, network, monitor, awaited, era>>

\* The context of the workers is cancelled, and the device closed, which waits for
\* a callback under way.
Cancel ==
    /\ At("cancel")
    /\ run' = [run EXCEPT !.cancelled = TRUE]
    /\ Goto("uninit")
    /\ UNCHANGED <<engine, capture, encoder, network, monitor, awaited, era, operations>>

Uninit ==
    /\ At("uninit") /\ capture.callback = Nil
    /\ run' = [run EXCEPT !.device = "off"]
    /\ Goto("wait")
    /\ UNCHANGED <<engine, capture, encoder, network, monitor, awaited, era, operations>>

\* Mutant: Stop waits for the monitor before it lets go of opMu.
WorkersDoneMonitorToo ==
    /\ At("wait") /\ encoder.at = "off"
    /\ op.kind = "stop" => monitor[run.id] = "done"
    /\ \/ op.kind \in {"stop", "monitor", "rebuild"} /\ op' = Nil
       \/ op.kind = "rebuild" /\ run.id < MaxRuns /\ op' = [kind |-> "start", at |-> "invalidate"]
       \/ op.kind = "abort" /\ Goto("invalidate")
    /\ era' = IF op.kind = "abort" THEN era ELSE era + 1
    /\ awaited' = IF op.kind = "stop" THEN awaited \cup {run.id} ELSE awaited
    /\ monitor' = IF op.kind = "monitor" THEN [monitor EXCEPT ![run.id] = "done"] ELSE monitor
    /\ UNCHANGED <<audio, network, operations>>

\* workers.Wait is over.  Stop returns when the monitor is done too; rebuilding
\* starts a new run if there are devices; starting has failed.
WorkersDone ==
    /\ At("wait") /\ encoder.at = "off"
    /\ \/ op.kind \in {"stop", "monitor", "rebuild"} /\ op' = Nil
       \/ op.kind = "rebuild" /\ run.id < MaxRuns /\ op' = [kind |-> "start", at |-> "invalidate"]
       \/ op.kind = "abort" /\ Goto("invalidate")
    /\ era' = IF op.kind = "abort" THEN era ELSE era + 1
    /\ awaited' = IF op.kind = "stop" THEN awaited \cup {run.id} ELSE awaited
    /\ monitor' = IF op.kind = "monitor" THEN [monitor EXCEPT ![run.id] = "done"] ELSE monitor
    /\ UNCHANGED <<audio, network, operations>>

\* Start
Start ==
    /\ Counted
    /\ ~engine.running /\ run.id < MaxRuns
    /\ Begin("start", "invalidate")
    /\ UNCHANGED <<audio, network, monitor, awaited, era>>

\* startLocked fails without an encoder or a device, or has cleaned up after a device
\* that did not start: the error is published.
StartFailed ==
    /\ \/ At("invalidate") /\ op.kind = "start"
       \/ At("launch") \/ At("failed")
    /\ engine' = [engine EXCEPT !.speaking = FALSE]
    /\ op' = Nil
    /\ UNCHANGED <<run, capture, encoder, network, monitor, awaited, era, operations>>

\* The device is initialised and the workers are started.
Launch ==
    /\ At("launch")
    /\ run' = [id |-> run.id + 1, active |-> FALSE, generation |-> flow.generation,
               cancelled |-> FALSE, device |-> "off", notice |-> FALSE]
    /\ capture' = NoCapture
    /\ encoder' = [at |-> "idle", frame |-> Nil]
    /\ Goto("device")
    /\ UNCHANGED <<engine, network, monitor, awaited, era, operations>>

\* device.Start; if it fails, what was started is taken back.
DeviceStarts ==
    /\ At("device")
    /\ \/ run' = [run EXCEPT !.device = "on"] /\ Goto("activate")
       \/ UNCHANGED run /\ op' = [kind |-> "abort", at |-> "cancel"]
    /\ UNCHANGED <<engine, capture, encoder, network, monitor, awaited, era, operations>>

Activate ==
    /\ At("activate")
    /\ run' = [run EXCEPT !.active = TRUE]
    /\ engine' = [engine EXCEPT !.running = TRUE]
    /\ monitor' = [monitor EXCEPT ![run.id] = "watching"]
    /\ op' = Nil
    /\ UNCHANGED <<capture, encoder, network, awaited, era, operations>>

-----------------------------------------------------------------------------
(* watchDeviceStop *)

\* The device stops by itself and says so.
DeviceStops ==
    /\ Counted
    /\ run.device = "on" /\ capture.callback = Nil
    /\ run' = [run EXCEPT !.device = "stopped", !.notice = TRUE]
    /\ UNCHANGED <<engine, capture, encoder, network, op, monitor, awaited, era>>

\* It was only a change of the default device.
DeviceReroutes ==
    /\ run.device = "stopped"
    /\ run' = [run EXCEPT !.device = "on"]
    /\ UNCHANGED <<engine, capture, encoder, network, control>>

CancelledRun(r) == r # run.id \/ run.cancelled

\* waitForDeviceStopCheck: the grace period after a notice ends, or the run is
\* cancelled.
GraceEnds(r) ==
    /\ monitor[r] = "watching"
    /\ \/ /\ r = run.id /\ run.notice
          /\ run' = [run EXCEPT !.notice = FALSE]
          /\ monitor' = [monitor EXCEPT ![r] = "locking"]
       \/ /\ CancelledRun(r)
          /\ monitor' = [monitor EXCEPT ![r] = "done"]
          /\ UNCHANGED run
    /\ UNCHANGED <<engine, capture, encoder, network, op, awaited, era, operations>>

\* With opMu: another operation may have ended the run, or the device is back.
MonitorChecks(r) ==
    /\ monitor[r] = "locking" /\ op = Nil
    /\ IF CancelledRun(r) \/ ~engine.running
       THEN monitor' = [monitor EXCEPT ![r] = "done"] /\ UNCHANGED <<engine, run, op>>
       ELSE IF run.device = "on"
       THEN monitor' = [monitor EXCEPT ![r] = "watching"] /\ UNCHANGED <<engine, run, op>>
       ELSE monitor' = [monitor EXCEPT ![r] = "stopping"] /\ StopRun("monitor")
    /\ UNCHANGED <<capture, encoder, network, awaited, era, operations>>

-----------------------------------------------------------------------------

Encoder == EncoderAcquires \/ EncoderEncodes \/ EncoderChecks \/ SubmitSend \/ EncoderEnds
Client == ClientStarts \/ ConsumeSend \/ SendVoiceFrame \/ ForwardRoomDatagram
Writer == TakeBatch \/ Transmit \/ DropBatch
Calls == (\E muted \in BOOLEAN : SetCaptureMuted(muted)) \/ Stop \/ Rebuild \/ Start
Operation ==
    \/ InvalidateSend \/ SignalGeneration \/ StoreGeneration \/ OpenCapture \/ FinishMuted
    \/ Cancel \/ Uninit \/ WorkersDone \/ StartFailed \/ Launch \/ DeviceStarts \/ Activate

Next ==
    \/ CallbackBegins \/ CallbackWrites \/ DeviceStops \/ DeviceReroutes
    \/ Encoder \/ Client \/ Writer \/ Calls \/ Operation
    \/ \E r \in 1 .. MaxRuns : GraceEnds(r) \/ MonitorChecks(r)

Spec == Init /\ [][Next]_vars

-----------------------------------------------------------------------------
(* Properties *)

EngineState == [captureMuted : BOOLEAN, muted : BOOLEAN, speaking : BOOLEAN, running : BOOLEAN]
RunState == [id : Nat, active : BOOLEAN, generation : Nat, cancelled : BOOLEAN,
             device : {"off", "on", "stopped"}, notice : BOOLEAN]
CaptureState == [callback : Callback \cup {Nil}, half : {0, 1}, slot : Frame \cup {Nil},
                 queue : Seq(Frame)]
EncoderState == [at : {"off", "idle", "processing", "encoded", "submitting"},
                 frame : Frame \cup {Nil}]
FlowState == [generation : Nat, send : Frame \cup {Nil}, attached : BOOLEAN,
              holder : {"free", "client", "operation"}]
EndpointState == [generation : Nat, batches : Seq(Batch), writing : Batch \cup {Nil}]

\* What the goroutines hold and what they have handed over.
TypeOK ==
    /\ engine \in EngineState /\ run \in RunState /\ capture \in CaptureState
    /\ encoder \in EncoderState /\ flow \in FlowState /\ consumed \in Frame \cup {Nil}
    /\ endpoint \in EndpointState /\ op \in Op \cup {Nil}
    /\ monitor \in [1 .. MaxRuns -> {"none", "watching", "locking", "stopping", "done"}]
    /\ awaited \subseteq Nat
    /\ era \in Nat /\ operations \in Nat

\* Once a call that mutes, stops or replaces the microphone has returned, nothing
\* handed over before or while it is closed reaches the network, wherever it was
\* on its way (setCaptureMuted, stopRunLocked, InvalidateSend,
\* writeRealtimeDatagram).
NothingAfterMute == [][Transmit => endpoint.writing.sound \subseteq {era}]_vars

\* When no operation is under way, run, flow and endpoint agree on the generation:
\* a microphone that is open is not cut off for good.
GatesAgree ==
    op = Nil =>
        /\ engine.running => run.generation = flow.generation
        /\ flow.attached => endpoint.generation = flow.generation

\* The status never shows someone as speaking whose microphone is stopped or closed
\* (setLocalSpeaking runs on the encoder's goroutine).
SpeakingIsLive == engine.speaking => engine.running /\ ~Closed

\* opMu, flow.mu, the callback, the workers and the monitors never wait for one
\* another in a circle: an operation under way can take its next step or somebody it
\* waits for can, and a monitor that Stop waits for is done or moves as soon as opMu
\* is free (stopRunLocked, watchDeviceStop).
NobodyStuck ==
    /\ op # Nil => ENABLED (Operation \/ CallbackWrites \/ Encoder \/ SendVoiceFrame)
    /\ \A r \in awaited : monitor[r] # "done" =>
           op # Nil \/ ENABLED (GraceEnds(r) \/ MonitorChecks(r))
=============================================================================
