-------------------------- MODULE MicrophoneProofs --------------------------
(***************************************************************************)
(* For every length of the queues, every number of operations and runs:    *)
(* nothing that was recorded before the microphone was closed is sent      *)
(* after, the generations agree when no operation is under way, and        *)
(* nobody is shown as speaking whose microphone is closed.                 *)
(***************************************************************************)
EXTENDS Microphone, SequenceFilterProofs

Doing(kind, places) == op # Nil /\ op.kind = kind /\ op.at \in places
MuteOp == op # Nil /\ op.kind \in {"mute", "unmute"}
StopOp == op # Nil /\ op.kind \in {"stop", "rebuild", "monitor"}

\* What a worker at this place has in hand.
InHand ==
    /\ encoder.at \in {"processing", "encoded", "submitting"} => encoder.frame # Nil
    /\ encoder.at = "processing" => capture.queue # <<>>

\* Where an operation can be.
Places ==
    op # Nil =>
        \/ op.kind = "mute" /\ op.at \in {"invalidate", "signal", "store", "finish"}
        \/ op.kind = "unmute" /\ op.at \in {"invalidate", "signal", "store", "open", "finish"}
        \/ op.kind = "start" /\ op.at \in {"invalidate", "signal", "launch", "device", "activate"}
        \/ op.kind = "abort" /\ op.at \in {"cancel", "uninit", "wait", "invalidate", "signal", "failed"}
        \/ /\ op.kind \in {"stop", "rebuild", "monitor"}
           /\ op.at \in {"invalidate", "signal", "cancel", "uninit", "wait"}

\* What the operation under way says of the engine.
Status ==
    /\ run.active = engine.running
    /\ op # Nil /\ ~MuteOp => ~engine.running
    /\ MuteOp /\ op.at \in {"invalidate", "signal", "store"} => engine.running
    /\ op # Nil /\ op.kind = "mute" => engine.captureMuted /\ ~engine.muted
    /\ op # Nil /\ op.kind = "unmute" => engine.muted /\ (engine.captureMuted <=> op.at # "finish")
    /\ ~MuteOp => engine.captureMuted = engine.muted
    /\ engine.speaking => engine.running /\ ~Closed

\* Who holds flow.mu is in the middle of something.
Locks ==
    /\ flow.holder = "operation" <=> At("signal")
    /\ flow.holder = "client" <=> consumed # Nil
    /\ consumed # Nil => flow.attached

\* The generations of the flow, the run and the endpoint: they agree but for the time
\* in which an operation passes the new one on, and a run that is stopped or being
\* stopped stays behind.
Gates ==
    /\ flow.generation >= 1
    /\ endpoint.generation <= flow.generation /\ run.generation <= flow.generation
    /\ flow.attached /\ ~At("signal") => endpoint.generation = flow.generation
    /\ ~flow.attached => endpoint.generation = 0
    /\ engine.running /\ ~(At("signal") \/ At("store")) => run.generation = flow.generation
    /\ At("device") \/ At("activate") => run.generation = flow.generation
    /\ run.generation = flow.generation =>
          \/ engine.running /\ ~(At("signal") \/ At("store"))
          \/ At("device") \/ At("activate")
          \/ Doing("abort", {"cancel", "uninit", "wait", "invalidate"})
          \/ StopOp /\ op.at = "invalidate"
    /\ run.generation = 0 => run.device = "off" /\ capture.callback = Nil

\* The microphone is shut from the moment its muting has invalidated what was under way
\* to the moment its unmuting opens the gate; it is sealed while no frame that was begun
\* in it can still be completed.
Shut == engine.captureMuted /\ ~Doing("mute", {"invalidate"})
Sealed == Shut /\ ~Doing("unmute", {"signal", "store", "open"})

\* The frames and the batches that may be under way.  Those of the generation in force
\* hold sound of this era only, and none while the microphone is shut.
Allowed ==
    {f \in Frame :
        /\ f.generation >= 1 /\ f.generation <= run.generation
        /\ f.generation = flow.generation =>
              f.sound \subseteq {era} /\ (Shut => f.sound = {})}
AllowedBatch ==
    {b \in Batch :
        /\ b.generation <= run.generation
        /\ b.generation = 0 => b.sound = {}
        /\ b.generation \in {flow.generation, endpoint.generation} => b.sound \subseteq {era}
        /\ b.generation = flow.generation /\ Shut => b.sound = {}}

Sound ==
    /\ capture.queue \in Seq(Allowed)
    /\ encoder.frame \in Allowed \cup {Nil}
    /\ flow.send \in Allowed \cup {Nil}
    /\ consumed \in Allowed \cup {Nil}
    /\ endpoint.batches \in Seq(AllowedBatch)
    /\ endpoint.writing \in AllowedBatch \cup {Nil}

\* A frame that is half written when the microphone is shut will be silenced.
Slot ==
    capture.slot # Nil =>
        /\ capture.slot.generation >= 1 /\ capture.slot.generation <= run.generation
        /\ capture.slot.generation = flow.generation /\ ~Sealed => capture.slot.sound \subseteq {era}
        /\ capture.slot.generation = flow.generation /\ Shut /\ capture.callback # Nil
              /\ capture.half = 1 => capture.callback.muted

IInv == TypeOK /\ InHand /\ Places /\ Status /\ Locks /\ Gates /\ Sound /\ Slot

\* What a step does to the generations, the era and the gate, as far as sound under way
\* is concerned.
Growth ==
    /\ run.generation <= run'.generation
    /\ \/ run.generation < flow'.generation
       \/ /\ flow'.generation = flow.generation
          /\ era' = era \/ (Shut /\ Sealed')
          /\ (Shut' => Shut) /\ (Sealed => Sealed')
    /\ \/ endpoint'.generation \in {0, flow'.generation}
       \/ era' = era /\ endpoint'.generation = endpoint.generation

-----------------------------------------------------------------------------

\* Nil is none of the values.
LEMMA NilFacts ==
    /\ \A f \in Frame : f # Nil
    /\ \A b \in Batch : b # Nil
    /\ \A c \in Callback : c # Nil
    /\ \A o \in Op : o # Nil
BY MicrophoneAssumption

\* Taking the first entry of a sequence and adding one at its end.
LEMMA QueueFacts ==
    ASSUME NEW S, NEW s \in Seq(S)
    PROVE  /\ s # <<>> => Head(s) \in S /\ Tail(s) \in Seq(S)
           /\ \A e \in S : Append(s, e) \in Seq(S) /\ Append(s, e) # <<>>
<1>1. s # <<>> => Head(s) \in S /\ Tail(s) \in Seq(S)
  BY HeadTailProperties
<1>2. ASSUME NEW e \in S
      PROVE  Append(s, e) \in Seq(S) /\ Append(s, e) # <<>>
  <2>1. Append(s, e) \in Seq(S) /\ Len(Append(s, e)) = Len(s) + 1 /\ Len(s) \in Nat
    BY AppendProperties, LenProperties
  <2>2. Len(Append(s, e)) # 0
    BY <2>1
  <2> QED
    BY <2>1, <2>2, EmptySeq, Zenon
<1> QED
  BY <1>1, <1>2

\* What the queue of the endpoint becomes.
LEMMA BatchesType ==
    ASSUME NEW S, NEW s \in Seq(S)
    PROVE  /\ \A e \in S : EnqueueFresh(s, e) \in Seq(S)
           /\ \A keep : Only(s, keep) \in Seq(S)
<1>1. \A e \in S : EnqueueFresh(s, e) \in Seq(S)
  <2>1. ~(Len(s) < MaxVoiceBatches) => s # <<>>
    BY MicrophoneAssumption
  <2> QED
    BY <2>1, QueueFacts DEF EnqueueFresh
<1> QED
  BY <1>1, OnlyType

\* The slot after half a frame.
LEMMA HalfType ==
    ASSUME TypeOK, capture.callback # Nil, NEW slot \in Frame \cup {Nil}
    PROVE  /\ AddHalf(slot) \in Frame \cup {Nil}
           /\ AddHalf(slot) = Nil <=> slot = Nil
           /\ slot # Nil =>
                /\ AddHalf(slot).generation = slot.generation
                /\ AddHalf(slot).muted = (slot.muted \/ capture.callback.muted)
                /\ AddHalf(slot).sound = slot.sound \cup {IF Closed THEN 0 ELSE era}
<1>1. capture.callback.muted \in BOOLEAN /\ (IF Closed THEN 0 ELSE era) \in Nat
  BY DEF TypeOK, CaptureState, Callback
<1>2. CASE slot = Nil
  BY <1>2 DEF AddHalf
<1>3. CASE slot # Nil
  <2> DEFINE e == IF Closed THEN 0 ELSE era
             c == capture.callback.muted
  <2>1. AddHalf(slot) = [slot EXCEPT !.muted = slot.muted \/ c, !.sound = slot.sound \cup {e}]
    BY <1>3 DEF AddHalf
  <2>2. slot \in Frame /\ c \in BOOLEAN /\ e \in Nat
    BY <1>1, <1>3
  <2> HIDE DEF c, e
  <2>3. /\ AddHalf(slot) \in Frame
        /\ AddHalf(slot).generation = slot.generation
        /\ AddHalf(slot).muted = (slot.muted \/ c)
        /\ AddHalf(slot).sound = slot.sound \cup {e}
    BY <2>1, <2>2 DEF Frame
  <2> QED
    BY <1>3, <2>3, NilFacts DEF c, e
<1> QED
  BY <1>2, <1>3

\* The microphone is off.
LEMMA InitType == Init => TypeOK /\ InHand
BY DEF Init, TypeOK, InHand, NoCapture, EngineState, RunState, CaptureState, EncoderState,
       FlowState, EndpointState

\* The device's callbacks and the encoder keep the types, and the encoder has a frame
\* while it works on one.
LEMMA AudioType ==
    ASSUME TypeOK, InHand, CallbackBegins \/ CallbackWrites \/ Encoder
    PROVE  TypeOK' /\ InHand'
<1>1. CASE CallbackBegins
  <2>1. [muted |-> engine.captureMuted] \in Callback
    BY DEF TypeOK, Callback, EngineState
  <2>2. capture' = [capture EXCEPT !.callback = [muted |-> engine.captureMuted]]
    BY <1>1 DEF CallbackBegins
  <2>3. capture' \in CaptureState /\ capture'.queue = capture.queue
    BY <2>1, <2>2 DEF TypeOK, CaptureState
  <2> QED
    BY <1>1, <2>3 DEF CallbackBegins, TypeOK, InHand, network, control
<1>2. CASE CallbackWrites
  <2>1. NewSlot \in Frame \cup {Nil}
    BY DEF NewSlot, TypeOK, RunState, Frame
  <2> DEFINE begun == AddHalf(NewSlot)
             full == AddHalf(capture.slot)
             sent == IF full.muted THEN [full EXCEPT !.sound = {}] ELSE full
  <2>2. begun \in Frame \cup {Nil} /\ full \in Frame \cup {Nil} /\ capture.slot \in Frame \cup {Nil}
    BY <1>2, <2>1, HalfType DEF CallbackWrites, TypeOK, CaptureState
  <2>3. full # Nil => sent \in Frame
    BY <2>2 DEF Frame
  <2>4. \/ capture' = [capture EXCEPT !.callback = Nil, !.half = 1, !.slot = begun]
        \/ capture' = [capture EXCEPT !.callback = Nil, !.half = 0, !.slot = Nil]
        \/ /\ full # Nil
           /\ capture' = [capture EXCEPT !.callback = Nil, !.half = 0, !.slot = Nil,
                                         !.queue = Append(capture.queue, sent)]
    BY <1>2 DEF CallbackWrites
  <2> HIDE DEF begun, full, sent
  <2>5. capture \in CaptureState /\ capture.queue \in Seq(Frame)
    BY DEF TypeOK, CaptureState
  <2>6. full # Nil => Append(capture.queue, sent) \in Seq(Frame) /\ Append(capture.queue, sent) # <<>>
    BY <2>3, <2>5, QueueFacts
  <2>7. capture' \in CaptureState /\ (capture.queue # <<>> => capture'.queue # <<>>)
    BY <2>2, <2>4, <2>5, <2>6 DEF CaptureState
  <2> QED
    BY <1>2, <2>7 DEF CallbackWrites, TypeOK, InHand, network, control
<1>3. CASE EncoderAcquires
  <2>1. Head(capture.queue) \in Frame /\ Tail(capture.queue) \in Seq(Frame) /\ capture.queue # <<>>
    BY <1>3, QueueFacts DEF EncoderAcquires, TypeOK, CaptureState
  <2>2. CASE encoder' = [at |-> "processing", frame |-> Head(capture.queue)] /\ UNCHANGED capture
    <3>1. encoder' \in EncoderState /\ encoder'.frame # Nil
      BY <2>1, <2>2, NilFacts DEF EncoderState
    <3> QED
      BY <1>3, <2>1, <2>2, <3>1 DEF EncoderAcquires, TypeOK, InHand, network, control
  <2>3. CASE capture' = [capture EXCEPT !.queue = Tail(@)] /\ UNCHANGED encoder
    <3>1. capture' \in CaptureState
      BY <2>1, <2>3 DEF TypeOK, CaptureState
    <3> QED
      BY <1>3, <2>3, <3>1 DEF EncoderAcquires, TypeOK, InHand, network, control
  <2> QED
    BY <1>3, <2>2, <2>3 DEF EncoderAcquires
<1>4. CASE EncoderEncodes
  <2>1. Tail(capture.queue) \in Seq(Frame) /\ capture.queue # <<>>
    BY <1>4, QueueFacts DEF EncoderEncodes, TypeOK, InHand, CaptureState
  <2>2. \/ engine' = engine
        \/ engine' = [engine EXCEPT !.speaking = TRUE]
        \/ engine' = [engine EXCEPT !.speaking = FALSE]
    BY <1>4 DEF EncoderEncodes, SetLocalSpeaking
  <2>3. engine' \in EngineState
    BY <2>2 DEF EngineState, TypeOK
  <2>4. /\ capture' = [capture EXCEPT !.queue = Tail(capture.queue)]
        /\ \/ encoder' = [encoder EXCEPT !.at = "encoded"]
           \/ encoder' = [at |-> "idle", frame |-> Nil]
        /\ encoder.at = "processing"
    BY <1>4 DEF EncoderEncodes
  <2>5. capture' \in CaptureState
    BY <2>1, <2>4 DEF TypeOK, CaptureState
  <2>6. /\ encoder' \in EncoderState /\ encoder'.at # "processing"
        /\ encoder'.at \in {"encoded", "submitting"} => encoder'.frame # Nil
    BY <2>4 DEF TypeOK, EncoderState, InHand
  <2> QED
    BY <1>4, <2>3, <2>5, <2>6 DEF TypeOK, InHand, EncoderEncodes, network, control
<1>5. CASE EncoderChecks
  <2>1. /\ encoder' \in EncoderState /\ encoder'.at \in {"submitting", "idle"}
        /\ encoder'.at = "submitting" => encoder'.frame # Nil
    BY <1>5 DEF EncoderChecks, TypeOK, EncoderState, InHand
  <2> QED
    BY <1>5, <2>1 DEF EncoderChecks, TypeOK, InHand, network, control
<1>6. CASE SubmitSend
  <2>1. encoder' \in EncoderState /\ encoder'.at = "idle"
    BY <1>6 DEF SubmitSend, EncoderState
  <2>2. flow' \in FlowState
    BY <1>6 DEF SubmitSend, TypeOK, FlowState, EncoderState
  <2> QED
    BY <1>6, <2>1, <2>2 DEF SubmitSend, TypeOK, InHand, control
<1>7. CASE EncoderEnds
  <2>1. encoder' \in EncoderState /\ encoder'.at = "off"
    BY <1>7 DEF EncoderEnds, TypeOK, EncoderState
  <2> QED
    BY <1>7, <2>1 DEF EncoderEnds, TypeOK, InHand, network, control
<1> QED
  BY <1>1, <1>2, <1>3, <1>4, <1>5, <1>6, <1>7 DEF Encoder

\* What becomes of the endpoint when a generation is set, or something is queued.
LEMMA EndpointType ==
    ASSUME TypeOK
    PROVE  /\ \A g \in Nat :
                /\ Retained(g) \in EndpointState
                /\ Retained(g).generation = g /\ Retained(g).writing = endpoint.writing
           /\ \A b \in Batch :
                [endpoint EXCEPT !.batches = EnqueueFresh(@, b)] \in EndpointState
<1>1. endpoint \in EndpointState /\ endpoint.batches \in Seq(Batch)
  BY DEF TypeOK, EndpointState
<1>2. ASSUME NEW g \in Nat
      PROVE  /\ Retained(g) \in EndpointState
             /\ Retained(g).generation = g /\ Retained(g).writing = endpoint.writing
  <2> DEFINE kept == Only(endpoint.batches,
                          {b \in ToSet(endpoint.batches) : b.generation \in {0, g}})
  <2>1. Retained(g) = [endpoint EXCEPT !.generation = g, !.batches = kept]
    BY DEF Retained
  <2>2. kept \in Seq(Batch)
    BY <1>1, BatchesType
  <2> HIDE DEF kept
  <2> QED
    BY <1>1, <2>1, <2>2 DEF EndpointState
<1>3. ASSUME NEW b \in Batch
      PROVE  [endpoint EXCEPT !.batches = EnqueueFresh(@, b)] \in EndpointState
  <2>1. EnqueueFresh(endpoint.batches, b) \in Seq(Batch)
    BY <1>1, BatchesType
  <2> QED
    BY <1>1, <2>1 DEF EndpointState
<1> QED
  BY <1>2, <1>3

\* A frame or somebody else's voice is queued, or nothing.
LEMMA SendRealtimeBatchType ==
    ASSUME TypeOK, NEW g \in Nat, NEW sound \in SUBSET Nat, SendRealtimeBatch(g, sound)
    PROVE  endpoint' \in EndpointState
<1> DEFINE b == [generation |-> g, sound |-> sound, left |-> Datagrams]
<1>1. b \in Batch
  BY MicrophoneAssumption DEF Batch
<1>2. endpoint' = endpoint \/ endpoint' = [endpoint EXCEPT !.batches = EnqueueFresh(@, b)]
  BY DEF SendRealtimeBatch
<1> HIDE DEF b
<1> QED
  BY <1>1, <1>2, EndpointType DEF TypeOK

\* The client's loop and writeLoop keep the types.
LEMMA NetworkType ==
    ASSUME TypeOK, InHand, Client \/ Writer
    PROVE  TypeOK' /\ InHand'
<1>1. flow \in FlowState /\ endpoint \in EndpointState /\ flow.generation \in Nat
  BY DEF TypeOK, FlowState
<1>2. CASE ClientStarts
  <2>1. flow' \in FlowState
    BY <1>1, <1>2 DEF ClientStarts, FlowState
  <2>2. endpoint' \in EndpointState
    BY <1>1, <1>2, EndpointType DEF ClientStarts
  <2> QED
    BY <1>2, <2>1, <2>2 DEF ClientStarts, TypeOK, InHand, audio, control
<1>3. CASE ConsumeSend
  <2>1. flow' \in FlowState /\ consumed' \in Frame \cup {Nil}
    BY <1>1, <1>3 DEF ConsumeSend, FlowState
  <2> QED
    BY <1>3, <2>1 DEF ConsumeSend, TypeOK, InHand, audio, control
<1>4. CASE SendVoiceFrame
  <2>1. consumed.generation \in Nat /\ consumed.sound \in SUBSET Nat
    BY <1>4 DEF SendVoiceFrame, TypeOK, Frame
  <2>2. endpoint' \in EndpointState
    BY <1>1, <1>4, <2>1, SendRealtimeBatchType DEF SendVoiceFrame
  <2>3. flow' \in FlowState
    BY <1>1, <1>4 DEF SendVoiceFrame, FlowState
  <2> QED
    BY <1>4, <2>2, <2>3 DEF SendVoiceFrame, TypeOK, InHand, audio, control
<1>5. CASE ForwardRoomDatagram
  <2>1. endpoint' \in EndpointState
    BY <1>5, SendRealtimeBatchType DEF ForwardRoomDatagram
  <2> QED
    BY <1>5, <2>1 DEF ForwardRoomDatagram, TypeOK, InHand, audio, control
<1>6. CASE TakeBatch
  <2>1. endpoint.batches \in Seq(Batch) /\ endpoint.batches # <<>>
    BY <1>1, <1>6 DEF TakeBatch, EndpointState
  <2>2. Head(endpoint.batches) \in Batch /\ Tail(endpoint.batches) \in Seq(Batch)
    BY <2>1, QueueFacts
  <2>3. endpoint' \in EndpointState
    BY <1>1, <1>6, <2>2 DEF TakeBatch, EndpointState
  <2> QED
    BY <1>6, <2>3 DEF TakeBatch, TypeOK, InHand, audio, control
<1>7. CASE Transmit \/ DropBatch
  <2>1. endpoint.writing # Nil => RestOf(endpoint.writing) \in Batch \cup {Nil}
    <3> SUFFICES ASSUME NEW b \in Batch PROVE RestOf(b) \in Batch \cup {Nil}
      BY <1>1 DEF EndpointState
    <3>1. b.left # 1 => b.left - 1 \in Nat \ {0}
      BY DEF Batch
    <3> QED
      BY <3>1 DEF RestOf, Batch
  <2>2. endpoint' \in EndpointState
    BY <1>1, <1>7, <2>1 DEF Transmit, DropBatch, EndpointState
  <2> QED
    BY <1>7, <2>2 DEF Transmit, DropBatch, TypeOK, InHand, audio, control
<1> QED
  BY <1>2, <1>3, <1>4, <1>5, <1>6, <1>7 DEF Client, Writer

\* An operation that begins or goes on is one.
LEMMA OpType ==
    /\ \A kind \in {"mute", "unmute", "start", "abort", "stop", "rebuild", "monitor"},
          at \in {"invalidate", "signal", "store", "open", "finish", "cancel", "uninit", "wait",
                  "launch", "device", "activate", "failed"} :
             [kind |-> kind, at |-> at] \in Op
    /\ \A o \in Op,
          at \in {"invalidate", "signal", "store", "open", "finish", "cancel", "uninit", "wait",
                  "launch", "device", "activate", "failed"} :
             [o EXCEPT !.at = at] \in Op
BY DEF Op

\* The calls that begin an operation keep the types.
LEMMA CallsType ==
    ASSUME TypeOK, InHand, Calls
    PROVE  TypeOK' /\ InHand'
<1>1. engine \in EngineState /\ run \in RunState /\ operations \in Nat
  BY DEF TypeOK
<1>2. ASSUME NEW muted \in BOOLEAN, SetCaptureMuted(muted)
      PROVE  TypeOK' /\ InHand'
  <2>1. op' \in Op
    BY <1>2, OpType DEF SetCaptureMuted, Begin
  <2>2. engine' \in EngineState
    BY <1>1, <1>2 DEF SetCaptureMuted, EngineState
  <2>3. operations' \in Nat
    BY <1>1, <1>2 DEF SetCaptureMuted, Counted
  <2> QED
    BY <1>2, <2>1, <2>2, <2>3 DEF SetCaptureMuted, TypeOK, InHand, network
<1>3. CASE Stop \/ Rebuild
  <2>1. op' \in Op
    BY <1>3, OpType DEF Stop, Rebuild, StopRun, Begin
  <2>2. engine' \in EngineState
    BY <1>1, <1>3 DEF Stop, Rebuild, StopRun, EngineState
  <2>3. run' \in RunState
    BY <1>1, <1>3 DEF Stop, Rebuild, StopRun, RunState
  <2>4. operations' \in Nat
    BY <1>1, <1>3 DEF Stop, Rebuild, Counted
  <2> QED
    BY <1>3, <2>1, <2>2, <2>3, <2>4 DEF Stop, Rebuild, TypeOK, InHand, network
<1>4. CASE Start
  <2>1. op' \in Op
    BY <1>4, OpType DEF Start, Begin
  <2>2. operations' \in Nat
    BY <1>1, <1>4 DEF Start, Counted
  <2> QED
    BY <1>4, <2>1, <2>2 DEF Start, TypeOK, InHand, network, audio
<1> QED
  BY <1>2, <1>3, <1>4 DEF Calls

\* The steps of an operation keep the types.
LEMMA OperationType ==
    ASSUME TypeOK, InHand, Places, Operation
    PROVE  TypeOK' /\ InHand'
<1>1. /\ engine \in EngineState /\ run \in RunState /\ flow \in FlowState /\ encoder \in EncoderState
      /\ capture \in CaptureState /\ flow.generation \in Nat /\ run.id \in Nat /\ era \in Nat
  BY DEF TypeOK, FlowState, RunState
<1>2. CASE InvalidateSend
  <2>1. op' \in Op
    BY <1>2, OpType DEF InvalidateSend, Goto, At, TypeOK
  <2>2. flow' \in FlowState
    <3> DEFINE g == flow.generation + 1
    <3>1. flow' = [flow EXCEPT !.generation = g, !.send = Nil, !.holder = "operation"] /\ g \in Nat
      BY <1>1, <1>2 DEF InvalidateSend
    <3> HIDE DEF g
    <3> QED
      BY <1>1, <3>1 DEF FlowState
  <2> QED
    BY <1>2, <2>1, <2>2 DEF InvalidateSend, TypeOK, InHand, audio
<1>3. CASE SignalGeneration
  <2>1. op' \in Op
    <3>1. op \in Op /\ op.at = "signal"
      BY <1>3 DEF SignalGeneration, At, TypeOK
    <3>2. AfterSignal \in {"store", "cancel", "launch", "failed"}
      BY <3>1, NilFacts DEF AfterSignal, Places
    <3> QED
      BY <1>3, <3>1, <3>2, OpType DEF SignalGeneration, Goto
  <2>2. flow' \in FlowState
    BY <1>1, <1>3 DEF SignalGeneration, FlowState
  <2>3. endpoint' \in EndpointState
    BY <1>1, <1>3, EndpointType DEF SignalGeneration, TypeOK
  <2> QED
    BY <1>3, <2>1, <2>2, <2>3 DEF SignalGeneration, TypeOK, InHand, audio
<1>4. CASE StoreGeneration
  <2>1. op' \in Op
    BY <1>4, OpType DEF StoreGeneration, Goto, At, TypeOK
  <2>2. run' \in RunState
    BY <1>1, <1>4 DEF StoreGeneration, RunState
  <2> QED
    BY <1>4, <2>1, <2>2 DEF StoreGeneration, TypeOK, InHand, network
<1>5. CASE OpenCapture
  <2>1. op' \in Op
    BY <1>5, OpType DEF OpenCapture, Goto, At, TypeOK
  <2>2. engine' \in EngineState
    BY <1>1, <1>5 DEF OpenCapture, EngineState
  <2> QED
    BY <1>5, <2>1, <2>2 DEF OpenCapture, TypeOK, InHand, network
<1>6. CASE FinishMuted
  <2>1. engine' \in EngineState
    BY <1>1, <1>6 DEF FinishMuted, EngineState
  <2>2. era' \in Nat
    BY <1>1, <1>6 DEF FinishMuted
  <2> QED
    BY <1>6, <2>1, <2>2 DEF FinishMuted, TypeOK, InHand, network
<1>7. CASE Cancel \/ Uninit
  <2>1. op' \in Op
    BY <1>7, OpType DEF Cancel, Uninit, Goto, At, TypeOK
  <2>2. run' \in RunState
    BY <1>1, <1>7 DEF Cancel, Uninit, RunState
  <2> QED
    BY <1>7, <2>1, <2>2 DEF Cancel, Uninit, TypeOK, InHand, network
<1>8. CASE WorkersDone
  <2>1. op' \in Op \cup {Nil}
    BY <1>8, OpType DEF WorkersDone, Goto, At, TypeOK
  <2>2. era' \in Nat /\ awaited' \subseteq Nat
    <3>1. (era' = era \/ era' = era + 1) /\ (awaited' = awaited \/ awaited' = awaited \cup {run.id})
      BY <1>8 DEF WorkersDone
    <3>2. era' \in Nat
      BY <1>1, <3>1
    <3>3. awaited \subseteq Nat
      BY DEF TypeOK
    <3> QED
      BY <1>1, <3>1, <3>2, <3>3, Zenon
  <2>3. monitor' \in [1 .. MaxRuns -> {"none", "watching", "locking", "stopping", "done"}]
    BY <1>8 DEF WorkersDone, TypeOK
  <2> QED
    BY <1>8, <2>1, <2>2, <2>3 DEF WorkersDone, TypeOK, InHand, network, audio
<1>9. CASE StartFailed
  <2>1. engine' \in EngineState
    BY <1>1, <1>9 DEF StartFailed, EngineState
  <2> QED
    BY <1>9, <2>1 DEF StartFailed, TypeOK, InHand, network
<1>10. CASE Launch
  <2>1. op' \in Op
    BY <1>10, OpType DEF Launch, Goto, At, TypeOK
  <2>2. run' \in RunState
    BY <1>1, <1>10 DEF Launch, RunState
  <2>3. capture' \in CaptureState
    BY <1>10 DEF Launch, NoCapture, CaptureState
  <2>4. encoder' \in EncoderState /\ encoder'.at = "idle"
    BY <1>10 DEF Launch, EncoderState
  <2> QED
    BY <1>10, <2>1, <2>2, <2>3, <2>4 DEF Launch, TypeOK, InHand, network
<1>11. CASE DeviceStarts
  <2>1. op' \in Op
    <3>1. op \in Op
      BY <1>11 DEF DeviceStarts, At, TypeOK
    <3>2. \/ op' = [op EXCEPT !.at = "activate"]
          \/ op' = [kind |-> "abort", at |-> "cancel"]
      BY <1>11 DEF DeviceStarts, Goto
    <3> QED
      BY <3>1, <3>2, OpType
  <2>2. run' \in RunState
    BY <1>1, <1>11 DEF DeviceStarts, RunState
  <2> QED
    BY <1>11, <2>1, <2>2 DEF DeviceStarts, TypeOK, InHand, network
<1>12. CASE Activate
  <2>1. run' \in RunState
    BY <1>1, <1>12 DEF Activate, RunState
  <2>2. engine' \in EngineState
    BY <1>1, <1>12 DEF Activate, EngineState
  <2>3. monitor' \in [1 .. MaxRuns -> {"none", "watching", "locking", "stopping", "done"}]
    BY <1>12 DEF Activate, TypeOK
  <2> QED
    BY <1>12, <2>1, <2>2, <2>3 DEF Activate, TypeOK, InHand, network
<1> QED
  BY <1>2, <1>3, <1>4, <1>5, <1>6, <1>7, <1>8, <1>9, <1>10, <1>11, <1>12 DEF Operation

\* The device's notices and the monitors keep the types.
LEMMA MonitorType ==
    ASSUME TypeOK, InHand,
           \/ DeviceStops \/ DeviceReroutes
           \/ \E r \in 1 .. MaxRuns : GraceEnds(r) \/ MonitorChecks(r)
    PROVE  TypeOK' /\ InHand'
<1>1. engine \in EngineState /\ run \in RunState /\ operations \in Nat
  BY DEF TypeOK
<1>2. CASE DeviceStops \/ DeviceReroutes
  <2>1. run' \in RunState
    BY <1>1, <1>2 DEF DeviceStops, DeviceReroutes, RunState
  <2>2. operations' \in Nat
    BY <1>1, <1>2 DEF DeviceStops, DeviceReroutes, Counted, control
  <2> QED
    BY <1>2, <2>1, <2>2 DEF DeviceStops, DeviceReroutes, TypeOK, InHand, network, control
<1>3. ASSUME NEW r \in 1 .. MaxRuns, GraceEnds(r)
      PROVE  TypeOK' /\ InHand'
  <2>1. run' \in RunState
    BY <1>1, <1>3 DEF GraceEnds, RunState
  <2>2. monitor' \in [1 .. MaxRuns -> {"none", "watching", "locking", "stopping", "done"}]
    BY <1>3 DEF GraceEnds, TypeOK
  <2> QED
    BY <1>3, <2>1, <2>2 DEF GraceEnds, TypeOK, InHand, network
<1>4. ASSUME NEW r \in 1 .. MaxRuns, MonitorChecks(r)
      PROVE  TypeOK' /\ InHand'
  <2>1. monitor' \in [1 .. MaxRuns -> {"none", "watching", "locking", "stopping", "done"}]
    BY <1>4 DEF MonitorChecks, TypeOK
  <2>2. (UNCHANGED <<engine, run, op>>) \/ StopRun("monitor")
    BY <1>4 DEF MonitorChecks
  <2>3. ASSUME StopRun("monitor")
        PROVE  engine' \in EngineState /\ run' \in RunState /\ op' \in Op
    <3>1. engine' \in EngineState
      BY <1>1, <2>3 DEF StopRun, EngineState
    <3>2. run' \in RunState
      BY <1>1, <2>3 DEF StopRun, RunState
    <3> QED
      BY <2>3, <3>1, <3>2, OpType DEF StopRun, Begin
  <2> QED
    BY <1>4, <2>1, <2>2, <2>3 DEF MonitorChecks, TypeOK, InHand, network
<1> QED
  BY <1>2, <1>3, <1>4

-----------------------------------------------------------------------------

\* An operation under way has one of these places, and its fields.
LEMMA OpFields ==
    ASSUME TypeOK, op # Nil, NEW at \in {"invalidate", "signal", "store", "open", "finish",
               "cancel", "uninit", "wait", "launch", "device", "activate", "failed"},
           Goto(at)
    PROVE  op' # Nil /\ op'.kind = op.kind /\ op'.at = at
<1>1. op \in Op /\ op' = [op EXCEPT !.at = at]
  BY DEF TypeOK, Goto
<1>2. op' \in Op /\ op'.kind = op.kind /\ op'.at = at
  BY <1>1 DEF Op
<1> QED
  BY <1>2, NilFacts

LEMMA BeginFields ==
    ASSUME NEW kind \in {"mute", "unmute", "start", "abort", "stop", "rebuild", "monitor"},
           NEW at \in {"invalidate", "finish", "open"},
           Begin(kind, at)
    PROVE  op = Nil /\ op' # Nil /\ op'.kind = kind /\ op'.at = at
BY OpType, NilFacts DEF Begin

\* A step that changes neither the status nor the operation.
LEMMA SameStatus ==
    ASSUME Places, Status, UNCHANGED <<engine, op>>, run'.active = run.active
    PROVE  Places' /\ Status'
BY DEF Places, Status, MuteOp, Closed

\* A call to stop the run.
LEMMA StopRunFields ==
    ASSUME TypeOK, NEW kind \in {"stop", "rebuild", "monitor"}, StopRun(kind)
    PROVE  /\ op = Nil /\ op' # Nil /\ op'.kind = kind /\ op'.at = "invalidate"
           /\ engine.running /\ ~engine'.running /\ ~engine'.speaking /\ ~run'.active
           /\ engine'.muted = engine.muted /\ engine'.captureMuted = engine.captureMuted
           /\ engine'.running \in BOOLEAN /\ run'.active \in BOOLEAN
           /\ run'.generation = run.generation /\ run'.device = run.device
<1>1. op = Nil /\ op' # Nil /\ op'.kind = kind /\ op'.at = "invalidate"
  BY BeginFields DEF StopRun
<1>2. /\ engine.running /\ ~engine'.running /\ ~engine'.speaking
      /\ engine'.muted = engine.muted /\ engine'.captureMuted = engine.captureMuted
      /\ engine'.running \in BOOLEAN
  BY DEF StopRun, TypeOK, EngineState
<1>3. /\ ~run'.active /\ run'.active \in BOOLEAN
      /\ run'.generation = run.generation /\ run'.device = run.device
  BY DEF StopRun, TypeOK, RunState
<1> QED
  BY <1>1, <1>2, <1>3

\* What holds of the operation under way and of the status is kept by every step.
LEMMA StatusStep ==
    ASSUME TypeOK, InHand, Places, Status, Next
    PROVE  Places' /\ Status'
<1>t. engine \in EngineState /\ run \in RunState /\ op \in Op \cup {Nil}
  BY DEF TypeOK
<1>1. CASE CallbackBegins \/ CallbackWrites \/ EncoderAcquires \/ EncoderChecks \/ SubmitSend \/ EncoderEnds
  BY <1>1, SameStatus DEF CallbackBegins, CallbackWrites, EncoderAcquires, EncoderChecks,
                          SubmitSend, EncoderEnds, control
<1>2. CASE Client \/ Writer
  BY <1>2, SameStatus DEF Client, ClientStarts, ConsumeSend, SendVoiceFrame, ForwardRoomDatagram,
                          Writer, TakeBatch, Transmit, DropBatch, audio, control
<1>3. CASE DeviceStops \/ DeviceReroutes
  <2>1. run'.active = run.active
    BY <1>3, <1>t DEF DeviceStops, DeviceReroutes, RunState
  <2> QED
    BY <1>3, <2>1, SameStatus DEF DeviceStops, DeviceReroutes, control
<1>4. ASSUME NEW r \in 1 .. MaxRuns, GraceEnds(r)
      PROVE  Places' /\ Status'
  <2>1. run'.active = run.active
    BY <1>4, <1>t DEF GraceEnds, RunState
  <2> QED
    BY <1>4, <2>1, SameStatus DEF GraceEnds
<1>5. CASE EncoderEncodes
  <2>1. /\ engine'.captureMuted = engine.captureMuted /\ engine'.muted = engine.muted
        /\ engine'.running = engine.running /\ UNCHANGED <<run, op>>
        /\ engine'.speaking => engine.speaking \/ (run.active /\ ~engine.captureMuted)
    BY <1>5, <1>t DEF EncoderEncodes, SetLocalSpeaking, EngineState, control
  <2>2. ~engine.captureMuted => ~Closed
    BY <1>t DEF Status, MuteOp, Closed, EngineState
  <2> QED
    BY <2>1, <2>2 DEF Places, Status, MuteOp, Closed
<1>6. ASSUME NEW muted \in BOOLEAN, SetCaptureMuted(muted)
      PROVE  Places' /\ Status'
  <2>1. /\ op = Nil /\ op' # Nil
        /\ op'.kind = IF muted THEN "mute" ELSE "unmute"
        /\ op'.at = IF engine.running THEN "invalidate" ELSE IF muted THEN "finish" ELSE "open"
    BY <1>6, BeginFields DEF SetCaptureMuted
  <2>2. /\ engine'.captureMuted = (engine.captureMuted \/ muted) /\ engine'.muted = engine.muted
        /\ engine'.running = engine.running /\ engine'.speaking = engine.speaking
        /\ UNCHANGED run /\ engine.muted # muted
    BY <1>6, <1>t DEF SetCaptureMuted, EngineState
  <2>3. CASE muted = TRUE
    BY <1>t, <2>1, <2>2, <2>3 DEF Places, Status, MuteOp, Closed, EngineState
  <2>4. CASE muted = FALSE
    BY <1>t, <2>1, <2>2, <2>4 DEF Places, Status, MuteOp, Closed, EngineState
  <2> QED
    BY <2>3, <2>4
<1>7. ASSUME NEW kind \in {"stop", "rebuild", "monitor"}, StopRun(kind)
      PROVE  Places' /\ Status'
  BY <1>7, StopRunFields DEF Places, Status, MuteOp, Closed
<1>8. CASE Start
  <2>1. op = Nil /\ op' # Nil /\ op'.kind = "start" /\ op'.at = "invalidate"
    BY <1>8, BeginFields DEF Start
  <2> QED
    BY <1>8, <2>1 DEF Start, Places, Status, MuteOp, Closed, audio
<1>9. CASE InvalidateSend \/ SignalGeneration
  <2>1. /\ op # Nil /\ op' # Nil /\ op'.kind = op.kind
        /\ \/ op.at = "invalidate" /\ op'.at = "signal"
           \/ op.at = "signal" /\ op'.at = AfterSignal
    <3>1. op # Nil /\ op.at = "signal" => AfterSignal \in {"store", "cancel", "launch", "failed"}
      BY DEF AfterSignal, Places
    <3> QED
      BY <1>9, <3>1, OpFields DEF InvalidateSend, SignalGeneration, At
  <2>2. op.at = "signal" =>
          /\ op.kind \in {"mute", "unmute"} => AfterSignal = "store"
          /\ op.kind \in {"stop", "rebuild", "monitor"} => AfterSignal = "cancel"
          /\ op.kind = "start" => AfterSignal = "launch"
          /\ op.kind = "abort" => AfterSignal = "failed"
    BY DEF AfterSignal
  <2>3. Places'
    BY <2>1, <2>2 DEF Places
  <2>4. UNCHANGED <<engine, run>>
    BY <1>9 DEF InvalidateSend, SignalGeneration, audio
  <2> QED
    BY <2>1, <2>2, <2>3, <2>4 DEF Places, Status, MuteOp, Closed
<1>10. CASE StoreGeneration
  <2>1. /\ op # Nil /\ op.at = "store" /\ op' # Nil /\ op'.kind = op.kind
        /\ op'.at = IF op.kind = "mute" THEN "finish" ELSE "open"
    BY <1>10, OpFields DEF StoreGeneration, At
  <2>2. UNCHANGED engine /\ run'.active = run.active
    BY <1>10, <1>t DEF StoreGeneration, RunState
  <2> QED
    BY <2>1, <2>2 DEF Places, Status, MuteOp, Closed
<1>11. CASE OpenCapture
  <2>1. op # Nil /\ op.at = "open" /\ op' # Nil /\ op'.kind = op.kind /\ op'.at = "finish"
    BY <1>11, OpFields DEF OpenCapture, At
  <2>2. /\ ~engine'.captureMuted /\ engine'.muted = engine.muted /\ UNCHANGED run
        /\ engine'.running = engine.running /\ engine'.speaking = engine.speaking
    BY <1>11, <1>t DEF OpenCapture, EngineState
  <2> QED
    BY <2>1, <2>2 DEF Places, Status, MuteOp, Closed
<1>12. CASE FinishMuted
  <2>1. op # Nil /\ op.at = "finish" /\ op' = Nil
    BY <1>12 DEF FinishMuted, At
  <2>2. /\ engine'.captureMuted = engine.captureMuted /\ engine'.muted = (op.kind = "mute")
        /\ engine'.running = engine.running /\ UNCHANGED run
        /\ engine'.speaking = (engine.speaking /\ op.kind # "mute")
    BY <1>12, <1>t DEF FinishMuted, EngineState
  <2> QED
    BY <1>t, <2>1, <2>2 DEF Places, Status, MuteOp, Closed, EngineState
<1>13. CASE Cancel \/ Uninit
  <2>1. /\ op # Nil /\ op' # Nil /\ op'.kind = op.kind
        /\ \/ op.at = "cancel" /\ op'.at = "uninit"
           \/ op.at = "uninit" /\ op'.at = "wait"
    BY <1>13, OpFields DEF Cancel, Uninit, At
  <2>2. UNCHANGED engine /\ run'.active = run.active
    BY <1>13, <1>t DEF Cancel, Uninit, RunState
  <2> QED
    BY <2>1, <2>2 DEF Places, Status, MuteOp, Closed
<1>14. CASE WorkersDone
  <2>1. /\ op # Nil /\ op.at = "wait" /\ UNCHANGED <<engine, run>>
        /\ \/ op' = Nil
           \/ op' # Nil /\ op'.kind = "start" /\ op'.at = "invalidate"
           \/ op.kind = "abort" /\ op' # Nil /\ op'.kind = "abort" /\ op'.at = "invalidate"
    <3>1. [kind |-> "start", at |-> "invalidate"] # Nil
      BY OpType, NilFacts
    <3> QED
      BY <1>14, <3>1, OpFields DEF WorkersDone, At, audio
  <2> QED
    BY <2>1 DEF Places, Status, MuteOp, Closed
<1>15. CASE StartFailed
  <2>1. op # Nil /\ op.kind \in {"start", "abort"} /\ op' = Nil
    BY <1>15 DEF StartFailed, At, Places
  <2>2. /\ engine'.captureMuted = engine.captureMuted /\ engine'.muted = engine.muted
        /\ engine'.running = engine.running /\ ~engine'.speaking /\ UNCHANGED run
    BY <1>15, <1>t DEF StartFailed, EngineState
  <2> QED
    BY <2>1, <2>2 DEF Places, Status, MuteOp, Closed
<1>16. CASE Launch
  <2>1. op # Nil /\ op.at = "launch" /\ op' # Nil /\ op'.kind = op.kind /\ op'.at = "device"
    BY <1>16, OpFields DEF Launch, At
  <2>2. UNCHANGED engine /\ run'.active = FALSE
    BY <1>16 DEF Launch
  <2> QED
    BY <1>t, <2>1, <2>2 DEF Places, Status, MuteOp, Closed, EngineState
<1>17. CASE DeviceStarts
  <2>1. /\ op # Nil /\ op.at = "device" /\ op' # Nil
        /\ \/ op'.kind = op.kind /\ op'.at = "activate"
           \/ op'.kind = "abort" /\ op'.at = "cancel"
    <3>1. [kind |-> "abort", at |-> "cancel"] # Nil
      BY OpType, NilFacts
    <3> QED
      BY <1>17, <3>1, OpFields DEF DeviceStarts, At
  <2>2. UNCHANGED engine /\ run'.active = run.active
    BY <1>17, <1>t DEF DeviceStarts, RunState
  <2> QED
    BY <2>1, <2>2 DEF Places, Status, MuteOp, Closed
<1>18. CASE Activate
  <2>1. op # Nil /\ op.at = "activate" /\ op' = Nil
    BY <1>18 DEF Activate, At
  <2>2. /\ engine'.captureMuted = engine.captureMuted /\ engine'.muted = engine.muted
        /\ engine'.running = TRUE /\ engine'.speaking = engine.speaking /\ run'.active = TRUE
    BY <1>18, <1>t DEF Activate, EngineState, RunState
  <2> QED
    BY <2>1, <2>2 DEF Places, Status, MuteOp, Closed
<1>19. ASSUME NEW r \in 1 .. MaxRuns, MonitorChecks(r)
       PROVE  Places' /\ Status'
  BY <1>7, <1>19, SameStatus DEF MonitorChecks
<1> QED
  BY <1>1, <1>2, <1>3, <1>4, <1>5, <1>6, <1>7, <1>8, <1>9, <1>10, <1>11, <1>12, <1>13, <1>14,
     <1>15, <1>16, <1>17, <1>18, <1>19
     DEF Next, Encoder, Calls, Operation, Stop, Rebuild

\* A step that leaves the locks, the generations and the operation alone.
LEMMA SameGates ==
    ASSUME Locks, Gates, UNCHANGED <<flow, consumed, op>>,
           engine'.running = engine.running, run'.generation = run.generation,
           endpoint'.generation = endpoint.generation,
           run.generation # 0 \/ (run'.device = run.device /\ capture'.callback = capture.callback)
    PROVE  Locks' /\ Gates'
BY DEF Locks, Gates, At, Doing, StopOp

\* Which operation holds flow.mu, and how far the generations have been passed on, is
\* kept by every step.
LEMMA GatesStep ==
    ASSUME TypeOK, InHand, Places, Status, Locks, Gates, Next
    PROVE  Locks' /\ Gates'
<1>t. /\ engine \in EngineState /\ run \in RunState /\ op \in Op \cup {Nil} /\ flow \in FlowState
      /\ endpoint \in EndpointState /\ capture \in CaptureState
      /\ run.generation \in Nat /\ flow.generation \in Nat /\ endpoint.generation \in Nat
  BY DEF TypeOK, RunState, FlowState, EndpointState
<1>1. CASE CallbackBegins \/ CallbackWrites
  <2>1. run.generation # 0
    BY <1>1 DEF Gates, CallbackBegins, CallbackWrites
  <2> QED
    BY <1>1, <2>1, SameGates DEF CallbackBegins, CallbackWrites, network, control
<1>2. CASE EncoderAcquires \/ EncoderEncodes \/ EncoderChecks \/ EncoderEnds
  <2>1. engine'.running = engine.running
    BY <1>2, <1>t DEF EncoderAcquires, EncoderEncodes, EncoderChecks, EncoderEnds,
                      SetLocalSpeaking, EngineState
  <2>2. capture'.callback = capture.callback
    BY <1>2, <1>t DEF EncoderAcquires, EncoderEncodes, EncoderChecks, EncoderEnds, CaptureState
  <2> QED
    BY <1>2, <2>1, <2>2, SameGates DEF EncoderAcquires, EncoderEncodes, EncoderChecks, EncoderEnds,
                                       network, control
<1>3. CASE SubmitSend
  <2>1. /\ flow'.generation = flow.generation /\ flow'.holder = flow.holder
        /\ flow'.attached = flow.attached
    BY <1>3, <1>t DEF SubmitSend, FlowState
  <2> QED
    BY <1>3, <2>1 DEF SubmitSend, Locks, Gates, At, Doing, StopOp, control
<1>4. CASE ClientStarts
  <2>1. /\ flow'.generation = flow.generation /\ flow'.holder = flow.holder
        /\ flow'.attached = TRUE /\ flow.holder = "free"
    BY <1>4, <1>t DEF ClientStarts, FlowState
  <2>2. endpoint'.generation = flow.generation
    BY <1>4, <1>t, EndpointType DEF ClientStarts
  <2> QED
    BY <1>4, <1>t, <2>1, <2>2 DEF ClientStarts, Locks, Gates, At, Doing, StopOp, audio, control
<1>5. CASE ConsumeSend
  <2>1. /\ flow'.generation = flow.generation /\ flow'.holder = "client" /\ flow.holder = "free"
        /\ flow'.attached = flow.attached /\ flow.attached = TRUE /\ consumed' # Nil
    BY <1>5, <1>t DEF ConsumeSend, FlowState
  <2> QED
    BY <1>5, <2>1 DEF ConsumeSend, Locks, Gates, At, Doing, StopOp, audio, control
<1>6. CASE SendVoiceFrame
  <2>1. /\ flow'.generation = flow.generation /\ flow'.holder = "free"
        /\ flow'.attached = flow.attached /\ consumed # Nil /\ consumed' = Nil
    BY <1>6, <1>t DEF SendVoiceFrame, FlowState
  <2>2. endpoint'.generation = endpoint.generation
    BY <1>6, <1>t DEF SendVoiceFrame, SendRealtimeBatch, EndpointState
  <2> QED
    BY <1>6, <2>1, <2>2 DEF SendVoiceFrame, Locks, Gates, At, Doing, StopOp, audio, control
<1>7. CASE ForwardRoomDatagram \/ Writer
  <2>1. endpoint'.generation = endpoint.generation
    BY <1>7, <1>t DEF ForwardRoomDatagram, Writer, TakeBatch, Transmit, DropBatch,
                      SendRealtimeBatch, EndpointState
  <2> QED
    BY <1>7, <2>1, SameGates DEF ForwardRoomDatagram, Writer, TakeBatch, Transmit, DropBatch,
                                 audio, control
<1>8. CASE DeviceStops \/ DeviceReroutes
  <2>1. run'.generation = run.generation /\ run.generation # 0
    BY <1>8, <1>t DEF DeviceStops, DeviceReroutes, RunState, Gates
  <2> QED
    BY <1>8, <2>1, SameGates DEF DeviceStops, DeviceReroutes, network, control
<1>9. ASSUME NEW r \in 1 .. MaxRuns, GraceEnds(r)
      PROVE  Locks' /\ Gates'
  <2>1. run'.generation = run.generation /\ run'.device = run.device
    BY <1>9, <1>t DEF GraceEnds, RunState
  <2> QED
    BY <1>9, <2>1, SameGates DEF GraceEnds, network
<1>10. ASSUME NEW muted \in BOOLEAN, SetCaptureMuted(muted)
       PROVE  Locks' /\ Gates'
  <2>1. /\ op = Nil /\ op' # Nil /\ op'.kind \in {"mute", "unmute"}
        /\ op'.at \in {"invalidate", "finish", "open"}
    BY <1>10, BeginFields DEF SetCaptureMuted
  <2>2. engine'.running = engine.running
    BY <1>10, <1>t DEF SetCaptureMuted, EngineState
  <2> QED
    BY <1>10, <2>1, <2>2 DEF SetCaptureMuted, Locks, Gates, At, Doing, StopOp, network
<1>11. ASSUME NEW kind \in {"stop", "rebuild", "monitor"}, StopRun(kind),
              UNCHANGED <<capture, flow, consumed, endpoint>>
       PROVE  Locks' /\ Gates'
  BY <1>11, StopRunFields DEF Locks, Gates, At, Doing, StopOp
<1>12. CASE Start
  <2>1. op = Nil /\ op' # Nil /\ op'.kind = "start" /\ op'.at = "invalidate" /\ ~engine.running
    BY <1>12, BeginFields DEF Start
  <2> QED
    BY <1>12, <2>1 DEF Start, Locks, Gates, At, Doing, StopOp, audio, network
<1>13. CASE InvalidateSend
  <2>1. op # Nil /\ op.at = "invalidate" /\ op' # Nil /\ op'.kind = op.kind /\ op'.at = "signal"
    BY <1>13, OpFields DEF InvalidateSend, At
  <2>2. /\ flow'.generation = flow.generation + 1 /\ flow'.holder = "operation"
        /\ flow'.attached = flow.attached /\ flow.holder = "free"
    BY <1>13, <1>t DEF InvalidateSend, FlowState
  <2> QED
    BY <1>13, <1>t, <2>1, <2>2 DEF InvalidateSend, Locks, Gates, At, Doing, StopOp, audio
<1>14. CASE SignalGeneration
  <2>1. /\ op # Nil /\ op.at = "signal" /\ op' # Nil /\ op'.kind = op.kind
        /\ op'.at \in {"store", "cancel", "launch", "failed"}
        /\ MuteOp => op'.at = "store"
    <3>1. op # Nil /\ op.at = "signal" => AfterSignal \in {"store", "cancel", "launch", "failed"}
      BY DEF AfterSignal, Places
    <3>2. MuteOp => AfterSignal = "store"
      BY DEF AfterSignal, MuteOp
    <3> QED
      BY <1>14, <3>1, <3>2, OpFields DEF SignalGeneration, At
  <2>2. /\ flow'.generation = flow.generation /\ flow'.holder = "free"
        /\ flow'.attached = flow.attached
    BY <1>14, <1>t DEF SignalGeneration, FlowState
  <2>3. endpoint'.generation = IF flow.attached THEN flow.generation ELSE endpoint.generation
    BY <1>14, <1>t, EndpointType DEF SignalGeneration
  <2>4. engine.running => MuteOp
    BY <2>1 DEF Status
  <2>5. UNCHANGED <<engine, run, capture, consumed>>
    BY <1>14 DEF SignalGeneration, audio
  <2> QED
    BY <1>t, <2>1, <2>2, <2>3, <2>4, <2>5 DEF Locks, Gates, At, Doing, StopOp
<1>15. CASE StoreGeneration
  <2>1. /\ op # Nil /\ op.at = "store" /\ op' # Nil /\ op'.kind = op.kind
        /\ op'.at \in {"finish", "open"} /\ engine.running
    BY <1>15, OpFields DEF StoreGeneration, At, Places, Status, MuteOp
  <2>2. run'.generation = flow.generation
    BY <1>15, <1>t DEF StoreGeneration, RunState
  <2> QED
    BY <1>15, <1>t, <2>1, <2>2 DEF StoreGeneration, Locks, Gates, At, Doing, StopOp, network
<1>16. CASE OpenCapture
  <2>1. op # Nil /\ op.at = "open" /\ op' # Nil /\ op'.kind = op.kind /\ op'.at = "finish"
    BY <1>16, OpFields DEF OpenCapture, At
  <2>2. engine'.running = engine.running
    BY <1>16, <1>t DEF OpenCapture, EngineState
  <2> QED
    BY <1>16, <2>1, <2>2 DEF OpenCapture, Locks, Gates, At, Doing, StopOp, network
<1>17. CASE FinishMuted
  <2>1. op # Nil /\ op.at = "finish" /\ op' = Nil /\ engine'.running = engine.running
    BY <1>17, <1>t DEF FinishMuted, At, EngineState
  <2> QED
    BY <1>17, <2>1 DEF FinishMuted, Locks, Gates, At, Doing, StopOp, network
<1>18. CASE Cancel \/ Uninit
  <2>1. /\ op # Nil /\ op' # Nil /\ op'.kind = op.kind
        /\ \/ op.at = "cancel" /\ op'.at = "uninit"
           \/ op.at = "uninit" /\ op'.at = "wait"
    BY <1>18, OpFields DEF Cancel, Uninit, At
  <2>2. run'.generation = run.generation /\ (run'.device = run.device \/ run'.device = "off")
    BY <1>18, <1>t DEF Cancel, Uninit, RunState
  <2> QED
    BY <1>18, <2>1, <2>2 DEF Cancel, Uninit, Locks, Gates, At, Doing, StopOp, network
<1>19. CASE WorkersDone
  <2>1. /\ op # Nil /\ op.at = "wait" /\ UNCHANGED <<engine, run, capture>>
        /\ \/ op.kind \in {"stop", "rebuild", "monitor"} /\ op' = Nil
           \/ op.kind = "rebuild" /\ op' # Nil /\ op'.kind = "start" /\ op'.at = "invalidate"
           \/ op.kind = "abort" /\ op' # Nil /\ op'.kind = "abort" /\ op'.at = "invalidate"
    <3>1. [kind |-> "start", at |-> "invalidate"] # Nil
      BY OpType, NilFacts
    <3> QED
      BY <1>19, <3>1, OpFields DEF WorkersDone, At, audio
  <2>2. ~engine.running
    BY <2>1 DEF Status, MuteOp
  <2> QED
    BY <1>19, <2>1, <2>2 DEF WorkersDone, Locks, Gates, At, Doing, StopOp, network
<1>20. CASE StartFailed
  <2>1. /\ op # Nil /\ op' = Nil
        /\ (op.kind = "start" /\ op.at \in {"invalidate", "launch"}) \/ op.at = "failed"
    BY <1>20 DEF StartFailed, At, Places
  <2>2. engine'.running = engine.running /\ ~engine.running
    BY <1>20, <1>t, <2>1 DEF StartFailed, EngineState, Places, Status, MuteOp
  <2> QED
    BY <1>20, <2>1, <2>2 DEF StartFailed, Locks, Gates, At, Doing, StopOp, network
<1>21. CASE Launch
  <2>1. op # Nil /\ op.at = "launch" /\ op' # Nil /\ op'.kind = op.kind /\ op'.at = "device"
    BY <1>21, OpFields DEF Launch, At
  <2>2. run'.generation = flow.generation /\ ~engine.running
    BY <1>21, <2>1 DEF Launch, Places, Status, MuteOp
  <2> QED
    BY <1>21, <1>t, <2>1, <2>2 DEF Launch, Locks, Gates, At, Doing, StopOp, network
<1>22. CASE DeviceStarts
  <2>1. /\ op # Nil /\ op.at = "device" /\ op' # Nil
        /\ \/ op'.kind = op.kind /\ op'.at = "activate"
           \/ op'.kind = "abort" /\ op'.at = "cancel"
    <3>1. [kind |-> "abort", at |-> "cancel"] # Nil
      BY OpType, NilFacts
    <3> QED
      BY <1>22, <3>1, OpFields DEF DeviceStarts, At
  <2>2. run'.generation = run.generation /\ run.generation = flow.generation /\ ~engine.running
    BY <1>22, <1>t, <2>1 DEF DeviceStarts, RunState, Gates, At, Places, Status, MuteOp
  <2> QED
    BY <1>22, <1>t, <2>1, <2>2 DEF DeviceStarts, Locks, Gates, At, Doing, StopOp, network
<1>23. CASE Activate
  <2>1. op # Nil /\ op.at = "activate" /\ op' = Nil
    BY <1>23 DEF Activate, At
  <2>2. engine'.running = TRUE /\ run'.generation = run.generation /\ run'.device = run.device
    BY <1>23, <1>t DEF Activate, EngineState, RunState
  <2> QED
    BY <1>23, <2>1, <2>2 DEF Activate, Locks, Gates, At, Doing, StopOp, network
<1>24. ASSUME NEW r \in 1 .. MaxRuns, MonitorChecks(r)
       PROVE  Locks' /\ Gates'
  BY <1>11, <1>24, SameGates DEF MonitorChecks, network
<1> QED
  BY <1>1, <1>2, <1>3, <1>4, <1>5, <1>6, <1>7, <1>8, <1>9, <1>10, <1>11, <1>12, <1>13, <1>14,
     <1>15, <1>16, <1>17, <1>18, <1>19, <1>20, <1>21, <1>22, <1>23, <1>24
     DEF Next, Encoder, Client, Calls, Operation, Stop, Rebuild, network

-----------------------------------------------------------------------------

\* A microphone that has been closed is sealed.
LEMMA ClosedIsSealed ==
    ASSUME TypeOK, Places, Status, Closed
    PROVE  Shut /\ Sealed
BY DEF TypeOK, EngineState, Status, MuteOp, Closed, Shut, Sealed, Doing

\* A step that leaves the gate, the operation and the generations alone.
LEMMA SameGrowth ==
    ASSUME TypeOK, UNCHANGED <<op, era>>, engine'.captureMuted = engine.captureMuted,
           run'.generation = run.generation, flow'.generation = flow.generation,
           endpoint'.generation \in {endpoint.generation, flow.generation}
    PROVE  Growth
BY DEF TypeOK, RunState, Growth, Shut, Sealed, Doing

\* No step takes back what was allowed before: a new generation is above that of all that
\* is under way, and an era ends when the run is behind or the microphone shut.
LEMMA GrowthStep ==
    ASSUME TypeOK, Places, Status, Locks, Gates, Next
    PROVE  Growth
<1>t. /\ engine \in EngineState /\ run \in RunState /\ op \in Op \cup {Nil} /\ flow \in FlowState
      /\ endpoint \in EndpointState /\ capture \in CaptureState
      /\ run.generation \in Nat /\ flow.generation \in Nat /\ endpoint.generation \in Nat
  BY DEF TypeOK, RunState, FlowState, EndpointState
<1>1. CASE CallbackBegins \/ CallbackWrites
  BY <1>1, SameGrowth DEF CallbackBegins, CallbackWrites, network, control
<1>2. CASE Encoder
  <2>1. engine'.captureMuted = engine.captureMuted /\ UNCHANGED <<run, endpoint, op, era>>
    BY <1>2, <1>t DEF Encoder, EncoderAcquires, EncoderEncodes, EncoderChecks, EncoderEnds, SubmitSend,
                      SetLocalSpeaking, EngineState, network, control
  <2>2. flow'.generation = flow.generation
    BY <1>2, <1>t DEF Encoder, EncoderAcquires, EncoderEncodes, EncoderChecks, EncoderEnds, SubmitSend,
                      FlowState, network
  <2> QED
    BY <2>1, <2>2, SameGrowth
<1>3. CASE Client \/ Writer
  <2>1. UNCHANGED <<engine, run, op, era>>
    BY <1>3 DEF Client, Writer, ClientStarts, ConsumeSend, SendVoiceFrame, ForwardRoomDatagram,
                TakeBatch, Transmit, DropBatch, audio, control
  <2>2. flow'.generation = flow.generation
    BY <1>3, <1>t DEF Client, Writer, ClientStarts, ConsumeSend, SendVoiceFrame, ForwardRoomDatagram,
                      TakeBatch, Transmit, DropBatch, FlowState
  <2>3. endpoint'.generation \in {endpoint.generation, flow.generation}
    <3>1. CASE ClientStarts
      BY <1>t, <3>1, EndpointType DEF ClientStarts
    <3>2. CASE ConsumeSend \/ SendVoiceFrame \/ ForwardRoomDatagram \/ Writer
      BY <1>t, <3>2 DEF ConsumeSend, SendVoiceFrame, ForwardRoomDatagram, Writer, TakeBatch,
                        Transmit, DropBatch, SendRealtimeBatch, EndpointState
    <3> QED
      BY <1>3, <3>1, <3>2 DEF Client
  <2> QED
    BY <2>1, <2>2, <2>3, SameGrowth
<1>4. CASE DeviceStops \/ DeviceReroutes
  <2>1. run'.generation = run.generation
    BY <1>4, <1>t DEF DeviceStops, DeviceReroutes, RunState
  <2> QED
    BY <1>4, <2>1, SameGrowth DEF DeviceStops, DeviceReroutes, network, control
<1>5. ASSUME NEW r \in 1 .. MaxRuns, GraceEnds(r)
      PROVE  Growth
  <2>1. run'.generation = run.generation
    BY <1>5, <1>t DEF GraceEnds, RunState
  <2> QED
    BY <1>5, <2>1, SameGrowth DEF GraceEnds, network
<1>6. ASSUME NEW muted \in BOOLEAN, SetCaptureMuted(muted)
      PROVE  Growth
  <2>1. /\ op = Nil /\ op' # Nil
        /\ op'.kind = IF muted THEN "mute" ELSE "unmute"
        /\ op'.at = IF engine.running THEN "invalidate" ELSE IF muted THEN "finish" ELSE "open"
    BY <1>6, BeginFields DEF SetCaptureMuted
  <2>2. /\ engine'.captureMuted = (engine.captureMuted \/ muted)
        /\ UNCHANGED <<run, flow, endpoint, era>> /\ engine.muted # muted
    BY <1>6, <1>t DEF SetCaptureMuted, EngineState, network
  <2>3. CASE engine.running
    BY <1>t, <2>1, <2>2, <2>3 DEF Status, MuteOp, Growth, Shut, Sealed, Doing, EngineState
  <2>4. CASE ~engine.running
    <3>1. run.generation < flow.generation
      BY <1>t, <2>1, <2>4 DEF Gates, At, Doing, StopOp
    <3> QED
      BY <1>t, <2>2, <3>1 DEF Growth
  <2> QED
    BY <2>3, <2>4
<1>7. ASSUME NEW kind \in {"stop", "rebuild", "monitor"}, StopRun(kind),
             UNCHANGED <<flow, endpoint, era>>
      PROVE  Growth
  BY <1>t, <1>7, StopRunFields DEF Growth, Shut, Sealed, Doing
<1>8. CASE Start
  <2>1. op = Nil /\ op' # Nil /\ op'.kind = "start"
    BY <1>8, BeginFields DEF Start
  <2> QED
    BY <1>t, <1>8, <2>1 DEF Start, Growth, Shut, Sealed, Doing, audio, network
<1>9. CASE InvalidateSend
  <2>1. flow'.generation = flow.generation + 1
    BY <1>9, <1>t DEF InvalidateSend, FlowState
  <2> QED
    BY <1>9, <1>t, <2>1 DEF InvalidateSend, Gates, Growth, audio
<1>10. CASE SignalGeneration
  <2>1. op # Nil /\ op' # Nil /\ op'.kind = op.kind /\ op.at = "signal" /\ op'.at = AfterSignal
    <3>1. op # Nil /\ op.at = "signal" => AfterSignal \in {"store", "cancel", "launch", "failed"}
      BY DEF AfterSignal, Places
    <3> QED
      BY <1>10, <3>1, OpFields DEF SignalGeneration, At
  <2>2. op.kind = "unmute" => op'.at = "store"
    BY <2>1 DEF AfterSignal
  <2>3. op.kind = "mute" => op'.at # "invalidate"
    BY <2>1 DEF AfterSignal
  <2>4. flow'.generation = flow.generation
    BY <1>10, <1>t DEF SignalGeneration, FlowState
  <2>5. endpoint'.generation \in {endpoint.generation, flow.generation}
    BY <1>10, <1>t, EndpointType DEF SignalGeneration
  <2>6. UNCHANGED <<engine, run, era>>
    BY <1>10 DEF SignalGeneration, audio
  <2> QED
    BY <1>t, <2>1, <2>2, <2>3, <2>4, <2>5, <2>6 DEF Growth, Shut, Sealed, Doing
<1>11. CASE StoreGeneration
  <2>1. run'.generation = flow.generation /\ UNCHANGED <<engine, flow, endpoint, era>>
    BY <1>11, <1>t DEF StoreGeneration, RunState, network
  <2>2. run.generation < flow.generation
    BY <1>11, <1>t DEF StoreGeneration, Gates, At, Doing, StopOp, Places
  <2> QED
    BY <1>t, <2>1, <2>2 DEF Growth
<1>12. CASE OpenCapture
  <2>1. op # Nil /\ op.at = "open" /\ op' # Nil /\ op'.kind = op.kind /\ op'.at = "finish"
    BY <1>12, OpFields DEF OpenCapture, At
  <2>2. engine'.captureMuted = FALSE /\ UNCHANGED <<run, flow, endpoint, era>>
    BY <1>12, <1>t DEF OpenCapture, EngineState, network
  <2> QED
    BY <1>t, <2>1, <2>2 DEF Growth, Shut, Sealed, Doing, Places
<1>13. CASE FinishMuted
  <2>1. /\ op # Nil /\ op.at = "finish" /\ op' = Nil /\ engine'.captureMuted = engine.captureMuted
        /\ UNCHANGED <<run, flow, endpoint>>
        /\ era' = IF op.kind = "mute" THEN era + 1 ELSE era
    BY <1>13, <1>t DEF FinishMuted, At, EngineState, network
  <2>2. endpoint.generation \in {0, flow.generation}
    BY <2>1 DEF Gates, At
  <2> QED
    BY <1>t, <2>1, <2>2 DEF Growth, Shut, Sealed, Doing, Places, Status
<1>14. CASE Cancel \/ Uninit
  <2>1. /\ op # Nil /\ op.at \in {"cancel", "uninit"} /\ op' # Nil /\ op'.kind = op.kind
        /\ op'.at \in {"uninit", "wait"}
    BY <1>14, OpFields DEF Cancel, Uninit, At
  <2>2. run'.generation = run.generation /\ UNCHANGED <<engine, flow, endpoint, era>>
    BY <1>14, <1>t DEF Cancel, Uninit, RunState, network
  <2> QED
    BY <1>t, <2>1, <2>2 DEF Growth, Shut, Sealed, Doing, Places
<1>15. CASE WorkersDone
  <2>1. op # Nil /\ op.at = "wait" /\ UNCHANGED <<engine, run, flow, endpoint>>
    BY <1>15 DEF WorkersDone, At, audio, network
  <2>2. endpoint.generation \in {0, flow.generation}
    BY <2>1 DEF Gates, At
  <2>3. CASE op.kind = "abort"
    <3>1. op' # Nil /\ op'.kind = "abort" /\ era' = era
      BY <1>15, <2>1, <2>3, OpFields DEF WorkersDone
    <3> QED
      BY <1>t, <2>1, <2>3, <3>1 DEF Growth, Shut, Sealed, Doing
  <2>4. CASE op.kind # "abort"
    <3>1. ~engine.running
      BY <2>1, <2>4 DEF Status, Places, MuteOp
    <3>2. run.generation < flow.generation
      BY <1>t, <2>1, <2>4, <3>1 DEF Gates, At, Doing, StopOp
    <3> QED
      BY <1>t, <2>1, <2>2, <3>2 DEF Growth
  <2> QED
    BY <2>3, <2>4
<1>16. CASE StartFailed
  <2>1. op # Nil /\ op.kind \notin {"mute", "unmute"} /\ op' = Nil
    BY <1>16 DEF StartFailed, At, Places
  <2>2. engine'.captureMuted = engine.captureMuted /\ UNCHANGED <<run, flow, endpoint, era>>
    BY <1>16, <1>t DEF StartFailed, EngineState, network
  <2> QED
    BY <1>t, <2>1, <2>2 DEF Growth, Shut, Sealed, Doing
<1>17. CASE Launch
  <2>1. run'.generation = flow.generation /\ UNCHANGED <<engine, flow, endpoint, era>>
    BY <1>17 DEF Launch, network
  <2>2. op # Nil /\ op.at = "launch"
    BY <1>17 DEF Launch, At
  <2>3. run.generation < flow.generation
    BY <1>t, <2>2 DEF Gates, At, Doing, StopOp, Places, Status, MuteOp
  <2> QED
    BY <1>t, <2>1, <2>3 DEF Growth
<1>18. CASE DeviceStarts
  <2>1. /\ op # Nil /\ op.at = "device" /\ op' # Nil
        /\ op'.kind = op.kind \/ op'.kind = "abort"
    <3>1. [kind |-> "abort", at |-> "cancel"] # Nil
      BY OpType, NilFacts
    <3> QED
      BY <1>18, <3>1, OpFields DEF DeviceStarts, At
  <2>2. op.kind = "start"
    BY <2>1 DEF Places
  <2>3. run'.generation = run.generation /\ UNCHANGED <<engine, flow, endpoint, era>>
    BY <1>18, <1>t DEF DeviceStarts, RunState, network
  <2> QED
    BY <1>t, <2>1, <2>2, <2>3 DEF Growth, Shut, Sealed, Doing
<1>19. CASE Activate
  <2>1. op # Nil /\ op.at = "activate" /\ op' = Nil
    BY <1>19 DEF Activate, At
  <2>2. /\ engine'.captureMuted = engine.captureMuted /\ run'.generation = run.generation
        /\ UNCHANGED <<flow, endpoint, era>>
    BY <1>19, <1>t DEF Activate, EngineState, RunState, network
  <2> QED
    BY <1>t, <2>1, <2>2 DEF Growth, Shut, Sealed, Doing, Places
<1>20. ASSUME NEW r \in 1 .. MaxRuns, MonitorChecks(r)
       PROVE  Growth
  BY <1>7, <1>20, SameGrowth DEF MonitorChecks, network
<1> QED
  BY <1>1, <1>2, <1>3, <1>4, <1>5, <1>6, <1>7, <1>8, <1>9, <1>10, <1>11, <1>12, <1>13, <1>14,
     <1>15, <1>16, <1>17, <1>18, <1>19, <1>20
     DEF Next, Calls, Operation, Stop, Rebuild, network

\* What was allowed to be under way is still allowed.
LEMMA AllowedGrows ==
    ASSUME TypeOK, TypeOK', Gates, Growth
    PROVE  Allowed \subseteq Allowed' /\ AllowedBatch \subseteq AllowedBatch'
<1>t. /\ run.generation \in Nat /\ run'.generation \in Nat /\ flow.generation \in Nat
      /\ flow'.generation \in Nat /\ endpoint.generation \in Nat /\ endpoint'.generation \in Nat
  BY DEF TypeOK, RunState, FlowState, EndpointState
<1>1. ASSUME NEW f \in Allowed
      PROVE  f \in Allowed'
  <2>1. f \in Frame /\ f.generation \in Nat
    BY DEF Allowed, Frame
  <2> QED
    BY <1>t, <2>1 DEF Growth, Allowed
<1>2. ASSUME NEW b \in AllowedBatch
      PROVE  b \in AllowedBatch'
  <2>1. b \in Batch /\ b.generation \in Nat
    BY DEF AllowedBatch, Batch
  <2> QED
    BY <1>t, <2>1 DEF Growth, AllowedBatch
<1> QED
  BY <1>1, <1>2

\* A sequence over a set is one over a larger set.
LEMMA LargerSeq ==
    ASSUME NEW S, NEW T, S \subseteq T, NEW s \in Seq(S)
    PROVE  s \in Seq(T)
OBVIOUS

\* What waits where it waited stays allowed.
LEMMA SoundStays ==
    ASSUME TypeOK, TypeOK', Gates, Growth, Sound
    PROVE  /\ capture.queue \in Seq(Allowed')
           /\ encoder.frame \in Allowed' \cup {Nil}
           /\ flow.send \in Allowed' \cup {Nil}
           /\ consumed \in Allowed' \cup {Nil}
           /\ endpoint.batches \in Seq(AllowedBatch')
           /\ endpoint.writing \in AllowedBatch' \cup {Nil}
<1>1. Allowed \subseteq Allowed' /\ AllowedBatch \subseteq AllowedBatch'
  BY AllowedGrows
<1>2. capture.queue \in Seq(Allowed') /\ endpoint.batches \in Seq(AllowedBatch')
  BY <1>1, LargerSeq DEF Sound
<1> QED
  BY <1>1, <1>2 DEF Sound

\* A frame that a callback completes is allowed.
LEMMA CompletedIsAllowed ==
    ASSUME TypeOK, Places, Status, Gates, Slot, capture.callback # Nil, capture.half = 1,
           capture.slot # Nil
    PROVE  LET full == AddHalf(capture.slot)
           IN  (IF full.muted THEN [full EXCEPT !.sound = {}] ELSE full) \in Allowed
<1> DEFINE full == AddHalf(capture.slot)
           sent == IF full.muted THEN [full EXCEPT !.sound = {}] ELSE full
<1>1. capture.slot \in Frame /\ capture.callback.muted \in BOOLEAN
  BY DEF TypeOK, CaptureState, Callback
<1>2. /\ full \in Frame /\ full.generation = capture.slot.generation
      /\ full.muted = (capture.slot.muted \/ capture.callback.muted)
      /\ full.sound = capture.slot.sound \cup {IF Closed THEN 0 ELSE era}
  BY <1>1, HalfType, NilFacts
<1>3. /\ sent \in Frame /\ sent.generation = full.generation
      /\ full.muted => sent.sound = {}
      /\ ~full.muted => sent = full
  <2> HIDE DEF full
  <2> QED
    BY <1>2 DEF Frame
<1>4. ASSUME sent.generation = flow.generation, ~full.muted
      PROVE  ~Shut /\ sent.sound \subseteq {era}
  <2>1. ~Shut /\ ~Sealed
    BY <1>1, <1>2, <1>3, <1>4 DEF Slot, Sealed
  <2>2. ~Closed
    BY <2>1, ClosedIsSealed
  <2> QED
    BY <1>2, <1>3, <1>4, <2>1, <2>2 DEF Slot
<1>5. sent \in Allowed
  <2> HIDE DEF full, sent
  <2> QED
    BY <1>2, <1>3, <1>4 DEF Allowed, Slot
<1> QED
  BY <1>5

\* All sound under way stays allowed by every step.
LEMMA SoundStep ==
    ASSUME TypeOK, TypeOK', InHand, Places, Status, Locks, Gates, Growth, Sound, Slot, Next
    PROVE  Sound'
<1>t. /\ capture \in CaptureState /\ encoder \in EncoderState /\ flow \in FlowState
      /\ endpoint \in EndpointState
      /\ run.generation \in Nat /\ flow.generation \in Nat /\ endpoint.generation \in Nat
  BY DEF TypeOK, RunState, FlowState, EndpointState
<1>s. /\ capture.queue \in Seq(Allowed')
      /\ encoder.frame \in Allowed' \cup {Nil}
      /\ flow.send \in Allowed' \cup {Nil}
      /\ consumed \in Allowed' \cup {Nil}
      /\ endpoint.batches \in Seq(AllowedBatch')
      /\ endpoint.writing \in AllowedBatch' \cup {Nil}
  BY SoundStays
<1>1. CASE CallbackBegins
  <2>1. capture'.queue = capture.queue
    BY <1>1, <1>t DEF CallbackBegins, CaptureState
  <2> QED
    BY <1>1, <1>s, <2>1 DEF CallbackBegins, Sound, network
<1>2. CASE CallbackWrites
  <2> DEFINE full == AddHalf(capture.slot)
             sent == IF full.muted THEN [full EXCEPT !.sound = {}] ELSE full
  <2>1. \/ capture' = [capture EXCEPT !.callback = Nil, !.half = 1, !.slot = AddHalf(NewSlot)]
        \/ capture' = [capture EXCEPT !.callback = Nil, !.half = 0, !.slot = Nil]
        \/ /\ full # Nil /\ capture.callback # Nil /\ capture.half = 1
           /\ capture' = [capture EXCEPT !.callback = Nil, !.half = 0, !.slot = Nil,
                                         !.queue = Append(capture.queue, sent)]
    BY <1>2, <1>t DEF CallbackWrites, CaptureState
  <2>2. full # Nil /\ capture.callback # Nil /\ capture.half = 1 => sent \in Allowed
    BY CompletedIsAllowed DEF AddHalf
  <2>3. full # Nil /\ capture.callback # Nil /\ capture.half = 1 =>
           Append(capture.queue, sent) \in Seq(Allowed')
    <3> HIDE DEF full, sent
    <3> QED
      BY <1>s, <2>2, AllowedGrows, QueueFacts
  <2>4. capture'.queue \in Seq(Allowed')
    <3> HIDE DEF full, sent
    <3> QED
      BY <1>s, <1>t, <2>1, <2>3 DEF CaptureState
  <2> QED
    BY <1>2, <1>s, <2>4 DEF CallbackWrites, Sound, network
<1>3. CASE EncoderAcquires
  <2>1. Head(capture.queue) \in Allowed' /\ Tail(capture.queue) \in Seq(Allowed')
    BY <1>3, <1>s, QueueFacts DEF EncoderAcquires
  <2>2. capture'.queue \in Seq(Allowed') /\ encoder'.frame \in Allowed' \cup {Nil}
    BY <1>3, <1>s, <1>t, <2>1, SMTT(60) DEF EncoderAcquires, CaptureState
  <2> QED
    BY <1>3, <1>s, <2>2 DEF EncoderAcquires, Sound, network
<1>4. CASE EncoderEncodes
  <2>1. Tail(capture.queue) \in Seq(Allowed')
    BY <1>4, <1>s, QueueFacts DEF EncoderEncodes, InHand
  <2>2. capture'.queue \in Seq(Allowed')
    BY <1>4, <1>t, <2>1 DEF EncoderEncodes, CaptureState
  <2>3. encoder'.frame \in Allowed' \cup {Nil}
    BY <1>4, <1>s, <1>t DEF EncoderEncodes, EncoderState
  <2> QED
    BY <1>4, <1>s, <2>2, <2>3 DEF EncoderEncodes, Sound, network
<1>5. CASE EncoderChecks \/ EncoderEnds
  <2>1. encoder'.frame \in Allowed' \cup {Nil}
    BY <1>5, <1>s, <1>t DEF EncoderChecks, EncoderEnds, EncoderState
  <2> QED
    BY <1>5, <1>s, <2>1 DEF EncoderChecks, EncoderEnds, Sound, network
<1>6. CASE SubmitSend
  <2>1. encoder'.frame = Nil
    BY <1>6 DEF SubmitSend
  <2>2. flow'.send \in Allowed' \cup {Nil}
    BY <1>6, <1>s, <1>t DEF SubmitSend, FlowState
  <2> QED
    BY <1>6, <1>s, <2>1, <2>2 DEF SubmitSend, Sound
<1>7. CASE ClientStarts
  <2>1. flow'.send = flow.send
    BY <1>7, <1>t DEF ClientStarts, FlowState
  <2>2. endpoint' = Retained(flow.generation)
    BY <1>7 DEF ClientStarts
  <2>3. endpoint'.batches \in Seq(AllowedBatch') /\ endpoint'.writing = endpoint.writing
    BY <1>s, <1>t, <2>2, BatchesType DEF Retained, EndpointState
  <2> QED
    BY <1>7, <1>s, <2>1, <2>3 DEF ClientStarts, Sound, audio
<1>8. CASE ConsumeSend
  <2>1. flow'.send = Nil /\ consumed' = flow.send
    BY <1>8, <1>t DEF ConsumeSend, FlowState
  <2> QED
    BY <1>8, <1>s, <2>1 DEF ConsumeSend, Sound, audio
<1>9. CASE SendVoiceFrame
  <2>1. flow'.send = flow.send /\ consumed' = Nil
    BY <1>9, <1>t DEF SendVoiceFrame, FlowState
  <2> DEFINE b == [generation |-> consumed.generation, sound |-> consumed.sound, left |-> Datagrams]
  <2>2. b \in AllowedBatch
    <3>1. consumed \in Allowed /\ consumed \in Frame
      BY <1>9 DEF SendVoiceFrame, Sound, Allowed
    <3>2. endpoint.generation = flow.generation
      BY <1>9 DEF SendVoiceFrame, Locks, Gates, At
    <3>3. b \in Batch /\ b.generation = consumed.generation /\ b.sound = consumed.sound
          /\ b.generation \in Nat
      BY <3>1, MicrophoneAssumption DEF Frame, Batch
    <3> QED
      BY <3>1, <3>2, <3>3 DEF Allowed, AllowedBatch
  <2>3. \/ endpoint' = endpoint
        \/ endpoint' = [endpoint EXCEPT !.batches = EnqueueFresh(endpoint.batches, b)]
    BY <1>9 DEF SendVoiceFrame, SendRealtimeBatch
  <2> HIDE DEF b
  <2>4. EnqueueFresh(endpoint.batches, b) \in Seq(AllowedBatch')
    BY <1>s, <2>2, AllowedGrows, BatchesType
  <2>5. endpoint'.batches \in Seq(AllowedBatch') /\ endpoint'.writing = endpoint.writing
    BY <1>s, <1>t, <2>3, <2>4 DEF EndpointState
  <2> QED
    BY <1>9, <1>s, <2>1, <2>5 DEF SendVoiceFrame, Sound, audio
<1>10. CASE ForwardRoomDatagram
  <2> DEFINE b == [generation |-> 0, sound |-> {}, left |-> Datagrams]
  <2>1. b \in AllowedBatch
    BY <1>t, MicrophoneAssumption DEF Batch, AllowedBatch
  <2>2. \/ endpoint' = endpoint
        \/ endpoint' = [endpoint EXCEPT !.batches = EnqueueFresh(endpoint.batches, b)]
    BY <1>10 DEF ForwardRoomDatagram, SendRealtimeBatch
  <2> HIDE DEF b
  <2>3. EnqueueFresh(endpoint.batches, b) \in Seq(AllowedBatch')
    BY <1>s, <2>1, AllowedGrows, BatchesType
  <2>4. endpoint'.batches \in Seq(AllowedBatch') /\ endpoint'.writing = endpoint.writing
    BY <1>s, <1>t, <2>2, <2>3 DEF EndpointState
  <2> QED
    BY <1>10, <1>s, <2>4 DEF ForwardRoomDatagram, Sound, audio
<1>11. CASE TakeBatch
  <2>1. Head(endpoint.batches) \in AllowedBatch' /\ Tail(endpoint.batches) \in Seq(AllowedBatch')
    BY <1>11, <1>s, QueueFacts DEF TakeBatch
  <2>2. endpoint'.batches \in Seq(AllowedBatch') /\ endpoint'.writing \in AllowedBatch'
    BY <1>11, <1>t, <2>1 DEF TakeBatch, EndpointState
  <2> QED
    BY <1>11, <1>s, <2>2 DEF TakeBatch, Sound, audio
<1>12. CASE Transmit
  <2>1. endpoint.writing \in AllowedBatch
    BY <1>12 DEF Transmit, Sound
  <2>2. RestOf(endpoint.writing) \in AllowedBatch \cup {Nil}
    <3> SUFFICES ASSUME NEW b \in AllowedBatch, b.left # 1
                 PROVE  [b EXCEPT !.left = b.left - 1] \in AllowedBatch
      BY <2>1 DEF RestOf
    <3> DEFINE l == b.left - 1
    <3>1. b \in Batch /\ l \in Nat \ {0}
      BY DEF AllowedBatch, Batch
    <3> HIDE DEF l
    <3>2. [b EXCEPT !.left = l] \in Batch /\ [b EXCEPT !.left = l].generation = b.generation
          /\ [b EXCEPT !.left = l].sound = b.sound
      BY <3>1 DEF Batch
    <3>3. [b EXCEPT !.left = l] \in AllowedBatch
      BY <3>2 DEF AllowedBatch
    <3> QED
      BY <3>3 DEF l
  <2>3. endpoint'.batches = endpoint.batches /\ endpoint'.writing \in AllowedBatch' \cup {Nil}
    BY <1>12, <1>t, <2>2, AllowedGrows DEF Transmit, EndpointState
  <2> QED
    BY <1>12, <1>s, <2>3 DEF Transmit, Sound, audio
<1>13. CASE DropBatch
  <2>1. endpoint'.batches = endpoint.batches /\ endpoint'.writing = Nil
    BY <1>13, <1>t DEF DropBatch, EndpointState
  <2> QED
    BY <1>13, <1>s, <2>1 DEF DropBatch, Sound, audio
<1>14. CASE InvalidateSend
  <2>1. flow'.send = Nil
    BY <1>14, <1>t DEF InvalidateSend, FlowState
  <2> QED
    BY <1>14, <1>s, <2>1 DEF InvalidateSend, Sound, audio
<1>15. CASE SignalGeneration
  <2>1. flow'.send = flow.send
    BY <1>15, <1>t DEF SignalGeneration, FlowState
  <2>2. endpoint' = Retained(flow.generation) \/ endpoint' = endpoint
    BY <1>15 DEF SignalGeneration
  <2>3. endpoint'.batches \in Seq(AllowedBatch') /\ endpoint'.writing = endpoint.writing
    <3>1. CASE endpoint' = Retained(flow.generation)
      BY <1>s, <1>t, <3>1, BatchesType DEF Retained, EndpointState
    <3> QED
      BY <1>s, <2>2, <3>1
  <2> QED
    BY <1>15, <1>s, <2>1, <2>3 DEF SignalGeneration, Sound, audio
<1>16. CASE Launch
  <2>1. capture'.queue = <<>> /\ encoder'.frame = Nil
    BY <1>16 DEF Launch, NoCapture
  <2>2. capture'.queue \in Seq(Allowed')
    BY <2>1
  <2> QED
    BY <1>16, <1>s, <2>1, <2>2 DEF Launch, Sound, network
<1>17. ASSUME UNCHANGED <<capture, encoder, flow, consumed, endpoint>>
       PROVE  Sound'
  BY <1>17, <1>s DEF Sound
<1> QED
  BY <1>1, <1>2, <1>3, <1>4, <1>5, <1>6, <1>7, <1>8, <1>9, <1>10, <1>11, <1>12, <1>13, <1>14,
     <1>15, <1>16, <1>17
     DEF Next, Encoder, Client, Writer, Calls, Operation, Stop, Rebuild, Start, SetCaptureMuted,
         StoreGeneration, OpenCapture, FinishMuted, Cancel, Uninit, WorkersDone, StartFailed,
         DeviceStarts, Activate, DeviceStops, DeviceReroutes, GraceEnds, MonitorChecks,
         network, audio, control

\* A frame that is half written stays one that is of this era or will be silenced.
LEMMA SlotStep ==
    ASSUME TypeOK, TypeOK', Places, Status, Gates, Growth, Slot, Next
    PROVE  Slot'
<1>t. /\ capture \in CaptureState /\ run.generation \in Nat /\ run'.generation \in Nat
      /\ flow.generation \in Nat /\ flow'.generation \in Nat
      /\ capture.slot # Nil => capture.slot \in Frame /\ capture.slot.generation \in Nat
  BY DEF TypeOK, RunState, FlowState, CaptureState, Frame
<1>1. CASE CallbackBegins
  <2>1. /\ capture'.callback.muted = engine.captureMuted /\ capture'.half = capture.half
        /\ capture'.slot = capture.slot /\ UNCHANGED <<engine, run, flow, op, era>>
    BY <1>1, <1>t DEF CallbackBegins, CaptureState, network, control
  <2> QED
    BY <2>1 DEF Slot, Shut, Sealed, Doing
<1>2. CASE CallbackWrites
  <2>1. CASE capture.half = 0
    <3>1. NewSlot \in Frame \cup {Nil} /\ capture.callback # Nil
      BY <1>2 DEF CallbackWrites, NewSlot, TypeOK, RunState, Frame
    <3>2. capture' = [capture EXCEPT !.callback = Nil, !.half = 1, !.slot = AddHalf(NewSlot)]
      BY <1>2, <2>1 DEF CallbackWrites
    <3>3. capture'.callback = Nil /\ capture'.slot = AddHalf(NewSlot)
      <4> DEFINE begun == AddHalf(NewSlot)
      <4> HIDE DEF begun
      <4> QED
        BY <1>t, <3>2 DEF CaptureState, begun
    <3>4. capture'.slot # Nil => /\ capture'.slot.generation = run.generation
                                 /\ capture'.slot.sound = {IF Closed THEN 0 ELSE era}
      <4>1. capture'.slot # Nil => NewSlot # Nil
        BY <3>1, <3>3, HalfType
      <4>2. NewSlot # Nil => NewSlot.generation = run.generation /\ NewSlot.sound = {}
        BY DEF NewSlot
      <4> QED
        BY <3>1, <3>3, <4>1, <4>2, HalfType
    <3>5. UNCHANGED <<engine, run, flow, op, era>> /\ run.generation >= 1
      BY <1>2, <1>t DEF CallbackWrites, network, control, Gates
    <3>6. ~Sealed => ~Closed
      BY ClosedIsSealed
    <3> QED
      BY <1>t, <3>3, <3>4, <3>5, <3>6 DEF Slot, Shut, Sealed, Doing
  <2>2. CASE capture.half # 0
    <3>1. capture'.slot = Nil
      BY <1>2, <1>t, <2>2 DEF CallbackWrites, CaptureState
    <3> QED
      BY <3>1 DEF Slot
  <2> QED
    BY <2>1, <2>2
<1>3. CASE Launch
  <2>1. capture'.slot = Nil
    BY <1>3 DEF Launch, NoCapture
  <2> QED
    BY <2>1 DEF Slot
<1>4. ASSUME capture'.slot = capture.slot, capture'.half = capture.half,
             capture'.callback = capture.callback
      PROVE  Slot'
  BY <1>4, <1>t DEF Slot, Growth
<1>5. CASE EncoderAcquires \/ EncoderEncodes
  <2>1. /\ capture'.slot = capture.slot /\ capture'.half = capture.half
        /\ capture'.callback = capture.callback
    BY <1>5, <1>t DEF EncoderAcquires, EncoderEncodes, CaptureState
  <2> QED
    BY <1>4, <2>1
<1>6. ASSUME UNCHANGED capture
      PROVE  Slot'
  BY <1>4, <1>6
<1> QED
  BY <1>1, <1>2, <1>3, <1>5, <1>6
     DEF Next, Encoder, EncoderChecks, SubmitSend, EncoderEnds, Client, ClientStarts, ConsumeSend,
         SendVoiceFrame, ForwardRoomDatagram, Writer, TakeBatch, Transmit, DropBatch,
         Calls, Operation, Stop, Rebuild, Start, SetCaptureMuted, InvalidateSend, SignalGeneration,
         StoreGeneration, OpenCapture, FinishMuted, Cancel, Uninit, WorkersDone, StartFailed,
         DeviceStarts, Activate, DeviceStops, DeviceReroutes, GraceEnds, MonitorChecks,
         network, audio, control

-----------------------------------------------------------------------------

\* Before anything has happened nothing is under way.
LEMMA InitIInv == Init => IInv
<1> SUFFICES ASSUME Init PROVE IInv
  OBVIOUS
<1>1. TypeOK /\ InHand
  BY InitType
<1>2. Places /\ Status
  BY DEF Init, Places, Status, MuteOp, Closed
<1>3. Locks /\ Gates
  BY DEF Init, Locks, Gates, At, Doing, StopOp, NoCapture
<1>4. Sound /\ Slot
  BY DEF Init, Sound, Slot, NoCapture
<1> QED
  BY <1>1, <1>2, <1>3, <1>4 DEF IInv

\* Every step keeps the invariant.
LEMMA NextIInv == IInv /\ [Next]_vars => IInv'
<1> SUFFICES ASSUME IInv, [Next]_vars PROVE IInv'
  OBVIOUS
<1>i. TypeOK /\ InHand /\ Places /\ Status /\ Locks /\ Gates /\ Sound /\ Slot
  BY DEF IInv
<1>1. CASE Next
  <2>1. TypeOK' /\ InHand'
    BY <1>1, <1>i, AudioType, NetworkType, CallsType, OperationType, MonitorType DEF Next
  <2>2. Places' /\ Status'
    BY <1>1, <1>i, StatusStep
  <2>3. Locks' /\ Gates'
    BY <1>1, <1>i, GatesStep
  <2>4. Growth
    BY <1>1, <1>i, GrowthStep
  <2>5. Sound'
    BY <1>1, <1>i, <2>1, <2>4, SoundStep
  <2>6. Slot'
    BY <1>1, <1>i, <2>1, <2>4, SlotStep
  <2> QED
    BY <2>1, <2>2, <2>3, <2>5, <2>6 DEF IInv
<1>2. CASE UNCHANGED vars
  <2>1. TypeOK' /\ InHand' /\ Places' /\ Status'
    BY <1>2, <1>i DEF vars, TypeOK, InHand, Places, Status, MuteOp, Closed
  <2>2. Locks' /\ Gates'
    BY <1>2, <1>i DEF vars, Locks, Gates, At, Doing, StopOp
  <2>3. Allowed' = Allowed /\ AllowedBatch' = AllowedBatch /\ Slot'
    BY <1>2, <1>i DEF vars, Allowed, AllowedBatch, Slot, Shut, Sealed, Doing
  <2>4. Sound'
    BY <1>2, <1>i, <2>3 DEF vars, Sound
  <2> QED
    BY <2>1, <2>2, <2>3, <2>4 DEF IInv
<1> QED
  BY <1>1, <1>2

\* The queues, slots and places hold what their goroutines expect, whatever order they
\* run in.
THEOREM TypeCorrect == Spec => []TypeOK
<1>1. IInv => TypeOK
  BY DEF IInv
<1> QED
  BY <1>1, InitIInv, NextIInv, PTL DEF Spec

\* Whenever opMu is free, the run, the flow and the endpoint have the same generation: no
\* sequence of muting, stopping, starting, failing and replacing leaves an open microphone
\* cut off (InvalidateSend, captureGeneration, SetRealtimeSendGeneration).
THEOREM GenerationsAgree == Spec => []GatesAgree
<1>1. IInv => GatesAgree
  BY DEF IInv, Gates, GatesAgree, At
<1> QED
  BY <1>1, InitIInv, NextIInv, PTL DEF Spec

\* Nobody is shown as speaking whose microphone is stopped or closed, although
\* setLocalSpeaking runs on the encoder's goroutine, without opMu.
THEOREM SpeakingIsTrue == Spec => []SpeakingIsLive
<1>1. IInv => SpeakingIsLive
  BY DEF IInv, Status, SpeakingIsLive
<1> QED
  BY <1>1, InitIInv, NextIInv, PTL DEF Spec

\* What a call that mutes, stops or replaces the microphone has cut off never reaches the
\* socket, for every length of the queues and any number of datagrams, runs and calls
\* (writeRealtimeDatagram compares generations, not eras).
THEOREM MutedIsSilent == Spec => NothingAfterMute
<1>1. IInv /\ [Next]_vars => [Transmit => endpoint.writing.sound \subseteq {era}]_vars
  <2> SUFFICES ASSUME IInv, Transmit
               PROVE  endpoint.writing.sound \subseteq {era}
    OBVIOUS
  <2>1. endpoint.writing \in AllowedBatch
    BY DEF IInv, Sound, Transmit
  <2> QED
    BY <2>1 DEF AllowedBatch, Transmit, Writable
<1> QED
  BY <1>1, InitIInv, NextIInv, PTL DEF Spec, NothingAfterMute
=============================================================================
