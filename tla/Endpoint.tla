------------------------------ MODULE Endpoint ------------------------------
(***************************************************************************)
(* The UDP endpoint of a room (internal/networking/endpoint/endpoint.go):  *)
(* Run, readLoop, writeLoop with its four lanes, the STUN probes of        *)
(* discoveryLoop, and those who hand it datagrams.                         *)
(*                                                                         *)
(* The write queue of a lane holds requests; a realtime batch is the       *)
(* number of its datagrams.  Deadlines pass when they like.  What a        *)
(* datagram carries, and the send generation (see Microphone), are left    *)
(* out.                                                                    *)
(***************************************************************************)
EXTENDS Integers, Sequences, SequencesExt, FiniteSetsExt

CONSTANTS
    Weight,             \* weights of the lanes: 8, 2, 2 and 1 in the code
    QueueCapacity,      \* of each lane
    InboxCapacity,      \* maxPeerDatagrams
    Setting             \* what may happen, as records of writes (requests and batches),
                        \* batch (datagrams of a batch), packets (received), probes
                        \* (STUN refreshes), leave (WriteControl is called), breaks (the
                        \* socket), stop (the context is cancelled)

Lane == <<"voice", "control", "screen", "low">>
Realtime == {"voice", "screen"}

\* The requests of the other lanes: a datagram nobody waits for, the one WriteControl
\* waits for, and those of the probes, by their numbers from 1.
Plain == 0
Leave == -1

ASSUME EndpointAssumption ==
    /\ Weight \in [ToSet(Lane) -> Nat \ {0}]
    /\ {QueueCapacity, InboxCapacity} \subseteq Nat \ {0}
    /\ Setting \subseteq [writes : Nat, batch : Nat \ {0}, packets : Nat, probes : Nat,
                         leave : BOOLEAN, breaks : BOOLEAN, stop : BOOLEAN]

VARIABLES
    setting,    \* the setting, with what is left of it
    cancelled,  \* the context of Run
    accepting,  \* conn is set and closed is not
    open,       \* the socket is open
    queue,      \* queue[l]: requests, or batches by their number of datagrams
    part,       \* pendingRealtime[l]: datagrams left of a batch
    writer,     \* the goroutine of writeLoop
    reader,     \* the goroutine of readLoop
    run,        \* the goroutine of Run
    inbox,      \* the packets on the channels to the client, and whether they are closed
    probe,      \* the goroutine of discoveryLoop and its probe
    leaver,     \* the goroutine that calls WriteControl
    starved     \* starved[l]: turns of other lanes since lane l has been waiting

vars == <<setting, cancelled, accepting, open, queue, part, writer, reader, run, inbox, probe,
          leaver, starved>>

Init ==
    /\ setting \in Setting
    /\ cancelled = FALSE /\ accepting = TRUE /\ open = TRUE
    /\ queue = [l \in ToSet(Lane) |-> <<>>]
    /\ part = [l \in Realtime |-> 0]
    /\ writer = [pc |-> "check", lane |-> 1, remaining |-> Weight[Lane[1]], checked |-> 0,
                 selected |-> "voice", item |-> 0]
    /\ reader = "read"
    /\ run = "up"
    /\ inbox = [packets |-> 0, closed |-> FALSE]
    /\ probe = [pc |-> "idle", id |-> 0, pending |-> FALSE, result |-> "none", answered |-> FALSE]
    /\ leaver = "off"
    /\ starved = [l \in ToSet(Lane) |-> 0]

-----------------------------------------------------------------------------
(* Handing over datagrams *)

\* enqueuePeerDatagram and SendRealtimeBatch; a full queue refuses, or drops its oldest.
Enqueue(l) ==
    /\ accepting /\ setting.writes > 0
    /\ setting' = [setting EXCEPT !.writes = @ - 1]
    /\ LET item == IF l \in Realtime THEN setting.batch ELSE Plain
       IN  queue' = IF Len(queue[l]) < QueueCapacity THEN [queue EXCEPT ![l] = Append(@, item)]
                    ELSE IF l \in Realtime THEN [queue EXCEPT ![l] = Append(Tail(@), item)]
                    ELSE queue
    /\ UNCHANGED <<cancelled, accepting, open, part, writer, reader, run, inbox, probe, leaver, starved>>

\* WriteControl: the check, and the two waits of queueWrite.
LeaveStarts ==
    /\ leaver = "off" /\ setting.leave
    /\ leaver' = IF accepting THEN "enqueue" ELSE "answered"
    /\ UNCHANGED <<setting, cancelled, accepting, open, queue, part, writer, reader, run, inbox, probe, starved>>

LeaveEnqueues ==
    /\ leaver = "enqueue" /\ Len(queue["control"]) < QueueCapacity
    /\ queue' = [queue EXCEPT !["control"] = Append(@, Leave)]
    /\ leaver' = "result"
    /\ UNCHANGED <<setting, cancelled, accepting, open, part, writer, reader, run, inbox, probe, starved>>

LeaveTimesOut ==
    /\ leaver \in {"enqueue", "result"}
    /\ leaver' = "answered"
    /\ UNCHANGED <<setting, cancelled, accepting, open, queue, part, writer, reader, run, inbox, probe, starved>>

\* reportQueuedWrite.
Report(items, result) ==
    /\ leaver' = IF Leave \in items /\ leaver = "result" THEN "answered" ELSE leaver
    /\ probe' = IF probe.pc = "result" /\ probe.id \in items
                THEN [probe EXCEPT !.result = result] ELSE probe

-----------------------------------------------------------------------------
(* writeLoop *)

\* A slip: a lane whose turn is over starts another.
AdvancedNowhere(w) == [w EXCEPT !.remaining = Weight[Lane[w.lane]]]

\* advance.
Advanced(w) ==
    LET next == (w.lane % Len(Lane)) + 1
    IN  [w EXCEPT !.lane = next, !.remaining = Weight[Lane[next]]]

Used(w) == IF w.remaining = 1 THEN Advanced(w) ELSE [w EXCEPT !.remaining = @ - 1]

Waiting(l) == queue[l] # <<>> \/ (l \in Realtime /\ part[l] > 0)

\* Take what lane l has: the rest of a batch, or the head of its queue.
Take(l, w) ==
    LET rest == l \in Realtime /\ part[l] > 0
    IN  /\ writer' = [w EXCEPT !.pc = "write", !.selected = l,
                               !.item = IF rest THEN part[l] ELSE Head(queue[l])]
        /\ part' = IF rest THEN [part EXCEPT ![l] = 0] ELSE part
        /\ queue' = IF rest THEN queue ELSE [queue EXCEPT ![l] = Tail(@)]
        /\ starved' = [k \in ToSet(Lane) |->
                IF k = l \/ ~Waiting(k) THEN 0 ELSE starved[k] + 1]

WriterChecks ==
    /\ writer.pc = "check"
    /\ writer' = [writer EXCEPT !.pc = IF cancelled THEN "drain" ELSE "scan", !.checked = 0]
    /\ UNCHANGED <<setting, cancelled, accepting, open, queue, part, reader, run, inbox, probe, leaver, starved>>

WriterScans ==
    /\ writer.pc = "scan"
    /\ LET l == Lane[writer.lane]
       IN  IF Waiting(l) THEN Take(l, Used(writer))
           ELSE /\ writer' = [Advanced(writer) EXCEPT
                        !.checked = @ + 1, !.pc = IF writer.checked + 1 = Len(Lane) THEN "idle" ELSE "scan"]
                /\ UNCHANGED <<queue, part, starved>>
    /\ UNCHANGED <<setting, cancelled, accepting, open, reader, run, inbox, probe, leaver>>

\* The blocking select takes any lane, and the turn goes there.
WriterIdle ==
    /\ writer.pc = "idle"
    /\ \/ /\ cancelled
          /\ writer' = [writer EXCEPT !.pc = "drain"]
          /\ UNCHANGED <<queue, part, starved>>
       \/ \E i \in DOMAIN Lane :
            /\ queue[Lane[i]] # <<>>
            /\ Take(Lane[i], Used([writer EXCEPT !.lane = i, !.remaining = Weight[Lane[i]]]))
    /\ UNCHANGED <<setting, cancelled, accepting, open, reader, run, inbox, probe, leaver>>

\* writeRealtimeDatagram: one datagram, or the batch is too old; the rest stays.
WriteRealtime ==
    /\ writer.selected \in Realtime
    /\ \E late \in BOOLEAN :
        /\ writer' = [writer EXCEPT !.pc = IF ~late /\ (cancelled \/ ~open) THEN "drain" ELSE "check"]
        /\ part' = [part EXCEPT ![writer.selected] = IF late THEN 0 ELSE writer.item - 1]
    /\ UNCHANGED <<probe, leaver>>

\* writeQueued: past its deadline, written, or the socket is closed.
WriteQueued ==
    /\ writer.selected \notin Realtime
    /\ \/ Report({writer.item}, "error") /\ writer' = [writer EXCEPT !.pc = "check"]
       \/ open /\ Report({writer.item}, "written") /\ writer' = [writer EXCEPT !.pc = "check"]
       \/ ~open /\ Report({writer.item}, "error") /\ writer' = [writer EXCEPT !.pc = "drain"]
    /\ UNCHANGED part

WriterWrites ==
    /\ writer.pc = "write"
    /\ WriteRealtime \/ WriteQueued
    /\ UNCHANGED <<setting, cancelled, accepting, open, queue, reader, run, inbox, starved>>

\* stopAcceptingWrites and drainQueuedWrites.
WriterDrains ==
    /\ writer.pc = "drain"
    /\ accepting' = FALSE
    /\ Report(ToSet(queue["control"]) \cup ToSet(queue["low"]), "error")
    /\ queue' = [queue EXCEPT !["control"] = <<>>, !["low"] = <<>>]
    /\ writer' = [writer EXCEPT !.pc = "done"]
    /\ UNCHANGED <<setting, cancelled, open, part, reader, run, inbox, starved>>

WriterStep == WriterChecks \/ WriterScans \/ WriterIdle \/ WriterWrites \/ WriterDrains

-----------------------------------------------------------------------------
(* readLoop *)

\* A packet for the room, or the answer to a probe that is pending.
Read ==
    /\ reader = "read" /\ open /\ setting.packets > 0
    /\ setting' = [setting EXCEPT !.packets = @ - 1]
    /\ reader' \in {"deliver"} \cup (IF probe.pending THEN {"answer"} ELSE {})
    /\ UNCHANGED <<cancelled, accepting, open, queue, part, writer, run, inbox, probe, leaver, starved>>

\* The socket is closed, or breaks.
ReadFails ==
    /\ reader = "read" /\ (~open \/ setting.breaks)
    /\ reader' = "done"
    /\ UNCHANGED <<setting, cancelled, accepting, open, queue, part, writer, run, inbox, probe, leaver, starved>>

\* enqueueFresh; a send on a closed channel is a panic.
ReaderHandsOver ==
    /\ \/ /\ reader = "deliver"
          /\ reader' = IF inbox.closed THEN "panic" ELSE "read"
          /\ inbox' = [inbox EXCEPT !.packets = Min({@ + 1, InboxCapacity})]
          /\ UNCHANGED probe
       \/ /\ reader = "answer"
          /\ reader' = IF run = "returned" THEN "panic" ELSE "read"
          /\ probe' = IF probe.pending THEN [probe EXCEPT !.answered = TRUE] ELSE probe
          /\ UNCHANGED inbox
    /\ UNCHANGED <<setting, cancelled, accepting, open, queue, part, writer, run, leaver, starved>>

\* The client takes a packet.
ClientTakes ==
    /\ inbox.packets > 0
    /\ inbox' = [inbox EXCEPT !.packets = @ - 1]
    /\ UNCHANGED <<setting, cancelled, accepting, open, queue, part, writer, reader, run, probe, leaver, starved>>

-----------------------------------------------------------------------------
(* discoveryLoop: refreshSTUN, probeSTUN, addPending, removePending *)

ProbeStarts ==
    /\ probe.pc = "idle" /\ setting.probes > 0
    /\ setting' = [setting EXCEPT !.probes = @ - 1]
    /\ probe' = IF accepting
                THEN [pc |-> "enqueue", id |-> probe.id + 1, pending |-> TRUE, result |-> "none",
                      answered |-> FALSE]
                ELSE probe
    /\ UNCHANGED <<cancelled, accepting, open, queue, part, writer, reader, run, inbox, leaver, starved>>

ProbeEnqueues ==
    /\ probe.pc = "enqueue" /\ Len(queue["control"]) < QueueCapacity
    /\ queue' = [queue EXCEPT !["control"] = Append(@, probe.id)]
    /\ probe' = [probe EXCEPT !.pc = "result"]
    /\ UNCHANGED <<setting, cancelled, accepting, open, part, writer, reader, run, inbox, leaver, starved>>

ProbeGoesOn ==
    /\ probe.pc = "result" /\ probe.result = "written"
    /\ probe' = [probe EXCEPT !.pc = "answer"]
    /\ UNCHANGED <<setting, cancelled, accepting, open, queue, part, writer, reader, run, inbox, leaver, starved>>

\* It has its answer, an error, a timeout, or the endpoint stops.
ProbeEnds ==
    /\ probe.pc \in {"enqueue", "result", "answer"}
    /\ probe' = [probe EXCEPT !.pc = "idle", !.pending = FALSE]
    /\ UNCHANGED <<setting, cancelled, accepting, open, queue, part, writer, reader, run, inbox, leaver, starved>>

DiscoveryEnds ==
    /\ probe.pc = "idle" /\ cancelled
    /\ probe' = [probe EXCEPT !.pc = "done"]
    /\ UNCHANGED <<setting, cancelled, accepting, open, queue, part, writer, reader, run, inbox, leaver, starved>>

-----------------------------------------------------------------------------
(* Run *)

Cancel ==
    /\ setting.stop /\ ~cancelled
    /\ cancelled' = TRUE
    /\ UNCHANGED <<setting, accepting, open, queue, part, writer, reader, run, inbox, probe, leaver, starved>>

\* stopAcceptingWrites, cancel, Close, when the context or a worker ends.
RunStops ==
    /\ run = "up"
    /\ cancelled \/ writer.pc = "done" \/ reader = "done"
    /\ accepting' = FALSE /\ cancelled' = TRUE /\ open' = FALSE
    /\ run' = "wait"
    /\ UNCHANGED <<setting, queue, part, writer, reader, inbox, probe, leaver, starved>>

\* A slip: the channels are closed when one of the workers has ended.
WorkersEndedSome == writer.pc = "done" \/ reader = "done"

WorkersEnded == writer.pc = "done" /\ reader = "done"

\* Both workers and the discovery have ended: everything is closed.
RunReturns ==
    /\ run = "wait" /\ WorkersEnded /\ probe.pc = "done"
    /\ inbox' = [inbox EXCEPT !.closed = TRUE]
    /\ run' = "returned"
    /\ UNCHANGED <<setting, cancelled, accepting, open, queue, part, writer, reader, probe, leaver, starved>>

Next ==
    \/ \E l \in ToSet(Lane) : Enqueue(l)
    \/ LeaveStarts \/ LeaveEnqueues \/ LeaveTimesOut
    \/ WriterStep
    \/ Read \/ ReadFails \/ ReaderHandsOver \/ ClientTakes
    \/ ProbeStarts \/ ProbeEnqueues \/ ProbeGoesOn \/ ProbeEnds \/ DiscoveryEnds
    \/ Cancel \/ RunStops \/ RunReturns

Spec == Init /\ [][Next]_vars

\* Goroutines run, deadlines pass, and a closed socket ends the read.
FairSpec ==
    /\ Spec
    /\ WF_vars(WriterStep) /\ WF_vars(ReadFails \/ ReaderHandsOver)
    /\ WF_vars(ProbeEnds) /\ WF_vars(DiscoveryEnds) /\ WF_vars(LeaveTimesOut)
    /\ WF_vars(RunStops) /\ WF_vars(RunReturns)

-----------------------------------------------------------------------------
(* Properties *)

\* One full turn of each lane but l.
OtherTurns(l) ==
    Weight["voice"] + Weight["control"] + Weight["screen"] + Weight["low"] - Weight[l]

\* A lane that has something to send waits for no more than one full turn of each of
\* the others, even when the writer was idle and its select took another lane
\* (writeLoop).
NoStarvation == \A l \in ToSet(Lane) : starved[l] <= OtherTurns(l)

\* After the context or a worker has ended, Run returns, everyone who waits for a write
\* is answered, the requests that were admitted are gone, and no goroutine has sent on
\* a closed channel (Run, writeLoop, queueWrite).
Stops ==
    <>[](cancelled =>
            /\ run = "returned" /\ writer.pc = "done" /\ reader = "done"
            /\ leaver \in {"off", "answered"}
            /\ Plain \notin ToSet(queue["control"]) \cup ToSet(queue["low"]))
=============================================================================
