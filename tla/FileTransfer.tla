---------------------------- MODULE FileTransfer ----------------------------
(***************************************************************************)
(* File transfers from one member to another (internal/peer/file.go): the  *)
(* records both clients keep, the commands of their users, the control     *)
(* messages and chunks between them, the worker goroutines that touch the  *)
(* disk, and what happens when one of these fails or comes too late.       *)
(*                                                                         *)
(* Both clients run one loop each; a worker runs beside it, and its result *)
(* is handled by the loop at some later time.  Control messages travel on  *)
(* an ordered reliable channel, chunks on the unordered one (see           *)
(* MessageChannel); discarding the data channel may lose the chunks under  *)
(* way or come too late for them.  There are fewer transfers than          *)
(* maxFileTransferRecords, so the limit is not met and nothing is pruned.  *)
(*                                                                         *)
(* A chunk's content is its number k, or -k if the source file changed     *)
(* after it was hashed for the offer.  Chunks are of one size: the         *)
(* receiver cannot tell them apart by their length.                        *)
(***************************************************************************)
EXTENDS Integers, Sequences, FiniteSets

CONSTANTS
    Transfer,       \* transfers, offered in this order: 1 .. n
    Setting,        \* the settings to consider: the files and what may go wrong
    MaxMishaps,     \* bound: how many of them
    NoFile, NoJob   \* stand for nil

AnyMishap == {"reject", "cancel", "stop", "timeout", "outage", "recover",
              "change", "workError", "queueFull"}

\* The worker of a transfer: what it does, to which chunk, and how it ended.
Worker ==
    [kind : {"offer", "create", "read", "write", "finish"}, at : Nat, content : Int,
     state : {"running", "ok", "error"}]

ASSUME FileTransferAssumption ==
    /\ Setting \subseteq [chunks : [Transfer -> Nat], mishap : SUBSET AnyMishap]
    /\ NoJob \notin Worker

End == {"sender", "receiver"}
Peer(e) == CHOOSE f \in End : f # e

VARIABLES
    out,            \* out[i]: the sender's record of transfer i
    inc,            \* inc[i]: the receiver's record of transfer i
    job,            \* job[e][i]: the worker that e runs for transfer i
    control,        \* control[e]: control messages on their way to e
    data,           \* chunks on their way to the receiver
    disk,           \* disk[i]: content of the destination file, or NoFile
    open,           \* open[i]: the destination file is open
    cleanup,        \* cleanup[i]: how closePartialFile has yet to end it
    changed,        \* changed[i]: the source file differs from what was hashed
    available,      \* available[e]: e's session for the transfers is authenticated
    stopped,        \* ends whose client has stopped
    mishaps,        \* how many there were
    setting         \* the setting of this behaviour

vars == <<out, inc, job, control, data, disk, open, cleanup, changed, available, stopped,
          mishaps, setting>>
sides == <<available, stopped>>

\* Chunks[i]: chunks of the file of transfer i.
Chunks == setting.chunks

\* The kinds of mishaps that may happen.
Mishap == setting.mishap

Terminal(status) == status \in {"completed", "rejected", "canceled", "failed"}
Active(status) == status # "none" /\ ~Terminal(status)

Msg(kind, i) == [kind |-> kind, id |-> i]
Job(kind, at, content) ==
    [kind |-> kind, at |-> at, content |-> content, state |-> "running"]

Init ==
    /\ out = [i \in Transfer |-> [status |-> "none", done |-> 0, working |-> FALSE]]
    /\ inc = [i \in Transfer |-> [status |-> "none", hashed |-> <<>>,
                                  working |-> FALSE, file |-> FALSE]]
    /\ job = [e \in End |-> [i \in Transfer |-> NoJob]]
    /\ control = [e \in End |-> <<>>]
    /\ data = {}
    /\ disk = [i \in Transfer |-> NoFile]
    /\ open = [i \in Transfer |-> FALSE]
    /\ cleanup = [i \in Transfer |-> "none"]
    /\ changed = [i \in Transfer |-> FALSE]
    /\ available = [e \in End |-> TRUE]
    /\ stopped = {}
    /\ mishaps = 0
    /\ setting \in Setting

\* A mishap of this kind happens now.
Happens(kind) ==
    /\ kind \in Mishap
    /\ mishaps < MaxMishaps
    /\ mishaps' = mishaps + 1

-----------------------------------------------------------------------------
(* What the handlers share *)

\* queueFilePayload: fails without an authenticated session, or when the
\* transport cannot take the message; ok says which.
Queued(e, ok) ==
    IF ~available[e] THEN ok = FALSE /\ UNCHANGED mishaps
    ELSE IF ok THEN UNCHANGED mishaps ELSE Happens("queueFull")

\* queueFileControl of one message to the other end.
QueueFileControl(e, ok, kind, i) ==
    /\ Queued(e, ok)
    /\ control' = IF ok THEN [control EXCEPT ![Peer(e)] = Append(@, Msg(kind, i))] ELSE control

\* Mutant: the partial file is closed and left where it is.
FinishIncomingKeepsFile(i, status) ==
    /\ inc' = [inc EXCEPT ![i].status = status, ![i].working = FALSE, ![i].file = FALSE]
    /\ cleanup' = IF inc[i].file THEN [cleanup EXCEPT ![i] = "close"] ELSE cleanup
    /\ data' \in SUBSET data

\* finishFileTransfer for an incoming transfer: the partial file goes, and the
\* inbound data channel is discarded.
FinishIncoming(i, status) ==
    /\ inc' = [inc EXCEPT ![i].status = status, ![i].working = FALSE, ![i].file = FALSE]
    /\ cleanup' = IF inc[i].file THEN [cleanup EXCEPT ![i] = "remove"] ELSE cleanup
    /\ data' \in SUBSET data

\* finishFileTransfer for an outgoing transfer; done chunks have arrived.
FinishOutgoing(i, status, done) ==
    /\ out' = [out EXCEPT ![i] = [status |-> status, done |-> done, working |-> FALSE]]
    /\ data' \in SUBSET data

\* finishFileTransfer at either end.
FinishFileTransfer(e, i, status) ==
    IF e = "sender" THEN FinishOutgoing(i, status, out[i].done) /\ UNCHANGED <<inc, cleanup>>
                    ELSE FinishIncoming(i, status) /\ UNCHANGED out

StatusAt(e, i) == IF e = "sender" THEN out[i].status ELSE inc[i].status
WorkingAt(e, i) == IF e = "sender" THEN out[i].working ELSE inc[i].working

StartFileWork(e, i, j) == job' = [job EXCEPT ![e][i] = j]

-----------------------------------------------------------------------------
(* Commands of the users *)

\* startFileOffer: one active outgoing transfer per recipient.
StartFileOffer(i) ==
    /\ "sender" \notin stopped /\ available["sender"]
    /\ out[i].status = "none"
    /\ \A k \in Transfer : IF k < i THEN out[k].status # "none" ELSE TRUE
    /\ \A k \in Transfer : ~Active(out[k].status)
    /\ out' = [out EXCEPT ![i].status = "preparing", ![i].working = TRUE]
    /\ StartFileWork("sender", i, Job("offer", 0, 0))
    /\ UNCHANGED <<inc, control, data, disk, open, cleanup, changed, sides, mishaps>>

\* acceptFile: one accepted incoming transfer per sender.
AcceptFile(i) ==
    /\ "receiver" \notin stopped
    /\ inc[i].status = "offered"
    /\ \A k \in Transfer : Active(inc[k].status) => inc[k].status = "offered"
    /\ inc' = [inc EXCEPT ![i].status = "accepting", ![i].working = TRUE]
    /\ StartFileWork("receiver", i, Job("create", 0, 0))
    /\ UNCHANGED <<out, control, data, disk, open, cleanup, changed, sides, mishaps>>

\* rejectFile; a message that cannot be queued is not sent at all.
RejectFile(i) ==
    /\ "reject" \in Mishap
    /\ "receiver" \notin stopped
    /\ inc[i].status = "offered"
    /\ \E ok \in BOOLEAN : QueueFileControl("receiver", ok, "reject", i)
    /\ FinishFileTransfer("receiver", i, "rejected")
    /\ UNCHANGED <<job, disk, open, changed, sides>>

\* cancelFile with a notification.
CancelFile(e, i) ==
    /\ "cancel" \in Mishap
    /\ e \notin stopped
    /\ Active(StatusAt(e, i))
    /\ \E ok \in BOOLEAN : QueueFileControl(e, ok, "cancel", i)
    /\ FinishFileTransfer(e, i, "canceled")
    /\ UNCHANGED <<job, disk, open, changed, sides>>

-----------------------------------------------------------------------------
(* Workers *)

\* A worker of startFileWork does its work on the disk.
RunFileWork(e, i) ==
    LET j == job[e][i]
        failed == [job EXCEPT ![e][i].state = "error"]
        done == [job EXCEPT ![e][i].state = "ok"]
    IN /\ j # NoJob /\ j.state = "running"
       /\ \/ /\ Happens("workError")
             /\ job' = failed
             /\ UNCHANGED <<disk, open>>
          \/ /\ j.kind = "offer" /\ job' = done
             /\ UNCHANGED <<disk, open, mishaps>>
          \/ /\ j.kind = "create" /\ job' = done
             /\ disk' = [disk EXCEPT ![i] = [k \in 1 .. Chunks[i] |-> 0]]
             /\ open' = [open EXCEPT ![i] = TRUE]
             /\ UNCHANGED mishaps
          \/ /\ j.kind = "read"
             /\ job' = [done EXCEPT ![e][i].content = IF changed[i] THEN -j.at ELSE j.at]
             /\ UNCHANGED <<disk, open, mishaps>>
          \/ /\ j.kind = "write"
             /\ job' = IF open[i] THEN done ELSE failed
             /\ disk' = IF open[i] THEN [disk EXCEPT ![i][j.at] = j.content] ELSE disk
             /\ UNCHANGED <<open, mishaps>>
          \/ /\ j.kind = "finish"
             /\ job' = IF open[i] THEN done ELSE failed
             /\ open' = [open EXCEPT ![i] = FALSE]
             /\ UNCHANGED <<disk, mishaps>>
       /\ UNCHANGED <<out, inc, control, data, cleanup, changed, sides>>

\* The goroutine of closePartialFile.
ClosePartialFile(i) ==
    /\ cleanup[i] # "none"
    /\ open' = [open EXCEPT ![i] = FALSE]
    /\ disk' = IF cleanup[i] = "remove" THEN [disk EXCEPT ![i] = NoFile] ELSE disk
    /\ cleanup' = [cleanup EXCEPT ![i] = "none"]
    /\ UNCHANGED <<out, inc, job, control, data, changed, sides, mishaps>>

-----------------------------------------------------------------------------
(* handleFileWorkResult *)

\* Mutant: a late result discards the data channel as the end of a transfer does.
HandleLateResultDiscards(e, i) ==
    /\ cleanup' = IF job[e][i].kind = "create" /\ job[e][i].state = "ok"
                  THEN [cleanup EXCEPT ![i] = "close"] ELSE cleanup
    /\ StartFileWork(e, i, NoJob)
    /\ data' \in SUBSET data
    /\ UNCHANGED <<out, inc, control, mishaps>>

\* The transfer ended while the worker was running: a file it created is closed.
HandleLateResult(e, i) ==
    /\ cleanup' = IF job[e][i].kind = "create" /\ job[e][i].state = "ok"
                  THEN [cleanup EXCEPT ![i] = "close"] ELSE cleanup
    /\ StartFileWork(e, i, NoJob)
    /\ UNCHANGED <<out, inc, control, data, mishaps>>

\* The worker failed: so does the transfer, and the other end is told.
HandleWorkError(e, i) ==
    /\ \E ok \in BOOLEAN : QueueFileControl(e, ok, "cancel", i)
    /\ FinishFileTransfer(e, i, "failed")
    /\ StartFileWork(e, i, NoJob)

\* fileWorkOffer
HandleOfferResult(i) ==
    /\ \E ok \in BOOLEAN :
          /\ QueueFileControl("sender", ok, "offer", i)
          /\ IF ok
             THEN out' = [out EXCEPT ![i].status = "offered", ![i].working = FALSE] /\ UNCHANGED data
             ELSE FinishOutgoing(i, "failed", 0)
    /\ StartFileWork("sender", i, NoJob)
    /\ UNCHANGED <<inc, cleanup>>

\* fileWorkCreate; an empty file is finished at once.
HandleCreateResult(i) ==
    LET created == [inc EXCEPT ![i].status = "transferring", ![i].file = TRUE,
                               ![i].working = Chunks[i] = 0]
    IN /\ \E ok \in BOOLEAN :
             /\ QueueFileControl("receiver", ok, "accept", i)
             /\ IF ok THEN inc' = created /\ UNCHANGED <<data, cleanup>>
                ELSE /\ inc' = [inc EXCEPT ![i].status = "failed", ![i].working = FALSE]
                     /\ cleanup' = [cleanup EXCEPT ![i] = "remove"]
                     /\ data' \in SUBSET data
             /\ StartFileWork("receiver", i,
                    IF ok /\ Chunks[i] = 0 THEN Job("finish", 0, 0) ELSE NoJob)
       /\ UNCHANGED out

\* Mutant: the next chunk is read at once, without waiting for the receiver.
HandleReadResultEager(i) ==
    /\ Queued("sender", TRUE)
    /\ data' = data \cup {[id |-> i, content |-> job["sender"][i].content]}
    /\ IF out[i].done + 1 < Chunks[i]
       THEN /\ out' = [out EXCEPT ![i].done = @ + 1]
            /\ StartFileWork("sender", i, Job("read", out[i].done + 2, 0))
       ELSE /\ out' = [out EXCEPT ![i].status = "waiting", ![i].working = FALSE]
            /\ StartFileWork("sender", i, NoJob)
    /\ UNCHANGED <<inc, control, cleanup>>

\* fileWorkRead: the chunk is queued, and the sender waits for it to be written.
HandleReadResult(i) ==
    /\ \E ok \in BOOLEAN :
          /\ Queued("sender", ok)
          /\ IF ok
             THEN /\ data' = data \cup {[id |-> i, content |-> job["sender"][i].content]}
                  /\ out' = [out EXCEPT ![i].status = "waiting", ![i].working = FALSE]
             ELSE FinishOutgoing(i, "failed", out[i].done)
    /\ StartFileWork("sender", i, NoJob)
    /\ UNCHANGED <<inc, control, cleanup>>

\* Mutant: the last chunk is acknowledged and the digest never compared.
DigestMatchesAlways(i, hashed) == TRUE

\* The digest of the chunks received is the one in the offer.
DigestMatches(i, hashed) == hashed = [k \in 1 .. Chunks[i] |-> k]

\* fileWorkWrite: hash the chunk; acknowledge it, or finish after the last one.
HandleWriteResult(i) ==
    LET hashed == Append(inc[i].hashed, job["receiver"][i].content)
        written == [inc EXCEPT ![i].hashed = hashed, ![i].working = FALSE]
        ended(status) ==
            /\ inc' = [written EXCEPT ![i].status = status, ![i].file = FALSE]
            /\ cleanup' = [cleanup EXCEPT ![i] = "remove"]
            /\ data' \in SUBSET data
            /\ StartFileWork("receiver", i, NoJob)
    IN /\ \/ /\ Len(hashed) = Chunks[i] /\ DigestMatches(i, hashed)
             /\ inc' = [written EXCEPT ![i].working = TRUE]
             /\ StartFileWork("receiver", i, Job("finish", 0, 0))
             /\ UNCHANGED <<control, data, cleanup, mishaps>>
          \/ /\ Len(hashed) = Chunks[i] /\ ~DigestMatches(i, hashed)
             /\ \E ok \in BOOLEAN : QueueFileControl("receiver", ok, "cancel", i)
             /\ ended("failed")
          \/ /\ Len(hashed) # Chunks[i]
             /\ \E ok \in BOOLEAN :
                   /\ QueueFileControl("receiver", ok, "ack", i)
                   /\ IF ok THEN /\ inc' = written
                                 /\ StartFileWork("receiver", i, NoJob)
                                 /\ UNCHANGED <<data, cleanup>>
                      ELSE ended("failed")
       /\ UNCHANGED out

\* fileWorkFinish: the file is synced and closed; only now is the last chunk
\* acknowledged.
HandleFinishResult(i) ==
    /\ \E ok \in BOOLEAN :
          /\ QueueFileControl("receiver", ok, "ack", i)
          /\ inc' = [inc EXCEPT ![i].status = IF ok THEN "completed" ELSE "failed",
                                ![i].working = FALSE, ![i].file = FALSE]
    /\ data' \in SUBSET data
    /\ StartFileWork("receiver", i, NoJob)
    /\ UNCHANGED <<out, cleanup>>

HandleFileWorkResult(e, i) ==
    LET j == job[e][i]
    IN /\ j # NoJob /\ j.state # "running"
       /\ e \notin stopped
       /\ IF Terminal(StatusAt(e, i)) THEN HandleLateResult(e, i)
          ELSE IF j.state = "error" THEN HandleWorkError(e, i)
          ELSE CASE j.kind = "offer"  -> HandleOfferResult(i)
                 [] j.kind = "create" -> HandleCreateResult(i)
                 [] j.kind = "read"   -> HandleReadResult(i)
                 [] j.kind = "write"  -> HandleWriteResult(i)
                 [] j.kind = "finish" -> HandleFinishResult(i)
       /\ UNCHANGED <<disk, open, changed, sides>>

-----------------------------------------------------------------------------
(* handleFileMessage *)

\* readNextFileChunk for the chunk after the first done ones.
ReadNextFileChunk(i, done) ==
    /\ out' = [out EXCEPT ![i] = [status |-> "transferring", done |-> done, working |-> TRUE]]
    /\ StartFileWork("sender", i, Job("read", done + 1, 0))

\* fileControlAccept; the sender of an empty file waits for its one
\* acknowledgment.
HandleAccept(i) ==
    /\ out[i].status = "offered"
    /\ IF Chunks[i] = 0
       THEN out' = [out EXCEPT ![i].status = "waiting"] /\ UNCHANGED job
       ELSE ReadNextFileChunk(i, 0)
    /\ UNCHANGED <<inc, cleanup, data>>

\* Mutant: an acknowledgment ends the transfer one chunk early.
HandleDataAckEarly(i) ==
    /\ out[i].status = "waiting"
    /\ IF out[i].done + 1 >= Chunks[i] - 1
       THEN FinishOutgoing(i, "completed", Chunks[i]) /\ UNCHANGED job
       ELSE ReadNextFileChunk(i, out[i].done + 1) /\ data' \in SUBSET data
    /\ UNCHANGED <<inc, cleanup>>

\* fileControlDataAck: the chunk under way has been written.
HandleDataAck(i) ==
    LET done == IF Chunks[i] = 0 THEN 0 ELSE out[i].done + 1
    IN /\ out[i].status = "waiting"
       /\ IF done = Chunks[i]
          THEN FinishOutgoing(i, "completed", done) /\ UNCHANGED job
          ELSE ReadNextFileChunk(i, done) /\ data' \in SUBSET data
       /\ UNCHANGED <<inc, cleanup>>

\* What e does with the control message m, if anything.
HandleControl(e, m) ==
    LET i == m.id IN
    \/ /\ m.kind = "offer" /\ inc[i].status = "none"
       /\ inc' = [inc EXCEPT ![i].status = "offered"]
       /\ UNCHANGED <<out, job, data, cleanup>>
    \/ m.kind = "accept" /\ HandleAccept(i)
    \/ /\ m.kind = "reject" /\ out[i].status = "offered"
       /\ FinishFileTransfer(e, i, "rejected")
       /\ UNCHANGED job
    \/ /\ m.kind = "cancel" /\ Active(StatusAt(e, i))
       /\ FinishFileTransfer(e, i, "canceled")
       /\ UNCHANGED job
    \/ m.kind = "ack" /\ HandleDataAck(i)

\* The message meets no record, an ended one, or one in another state.
Ignored(e, m) ==
    CASE m.kind = "offer"  -> inc[m.id].status # "none"
      [] m.kind \in {"accept", "reject"} -> out[m.id].status # "offered"
      [] m.kind = "cancel" -> ~Active(StatusAt(e, m.id))
      [] m.kind = "ack"    -> out[m.id].status # "waiting"

HandleFileControl(e) ==
    /\ e \notin stopped /\ available[e]
    /\ control[e] # <<>>
    /\ control' = [control EXCEPT ![e] = Tail(@)]
    /\ IF Ignored(e, Head(control[e])) THEN UNCHANGED <<out, inc, job, data, cleanup>>
       ELSE HandleControl(e, Head(control[e]))
    /\ UNCHANGED <<disk, open, changed, sides, mishaps>>

\* A chunk arrives; it is dropped unless its transfer is waiting for one.  Its
\* place in the file is the receiver's own count.
HandleFileData ==
    /\ "receiver" \notin stopped /\ available["receiver"]
    /\ \E m \in data :
          /\ data' = data \ {m}
          /\ IF inc[m.id].status = "transferring" /\ ~inc[m.id].working
             THEN /\ inc' = [inc EXCEPT ![m.id].working = TRUE]
                  /\ StartFileWork("receiver", m.id,
                         Job("write", Len(inc[m.id].hashed) + 1, m.content))
             ELSE UNCHANGED <<inc, job>>
    /\ UNCHANGED <<out, control, disk, open, cleanup, changed, sides, mishaps>>

-----------------------------------------------------------------------------
(* Time, stopping, and the surroundings *)

\* Mutant: a lost session is left to the timeout, which needs a session.
ExpireFileTransferAvailable(e, i) ==
    /\ e \notin stopped
    /\ Active(StatusAt(e, i))
    /\ available[e] /\ "timeout" \in Mishap /\ ~WorkingAt(e, i)
    /\ \E ok \in BOOLEAN : QueueFileControl(e, ok, "cancel", i)
    /\ FinishFileTransfer(e, i, "failed")
    /\ UNCHANGED <<job, disk, open, changed, sides>>

\* expireFileTransfers, one transfer: the session ended, or nothing happened
\* for too long while no worker was running.
ExpireFileTransfer(e, i) ==
    /\ e \notin stopped
    /\ Active(StatusAt(e, i))
    /\ \/ ~available[e] /\ UNCHANGED <<control, mishaps>>
       \/ /\ available[e]
          /\ "timeout" \in Mishap
          /\ ~WorkingAt(e, i)
          /\ \E ok \in BOOLEAN : QueueFileControl(e, ok, "cancel", i)
    /\ FinishFileTransfer(e, i, "failed")
    /\ UNCHANGED <<job, disk, open, changed, sides>>

\* stopFileTransfers, when the client's loop ends.
StopFileTransfers(e) ==
    /\ "stop" \in Mishap
    /\ e \notin stopped
    /\ stopped' = stopped \cup {e}
    /\ IF e = "sender"
       THEN /\ out' = [i \in Transfer |-> IF Active(out[i].status)
                        THEN [out[i] EXCEPT !.status = "canceled", !.working = FALSE] ELSE out[i]]
            /\ UNCHANGED <<inc, cleanup>>
       ELSE /\ inc' = [i \in Transfer |-> IF Active(inc[i].status)
                        THEN [inc[i] EXCEPT !.status = "canceled", !.working = FALSE,
                                            !.file = FALSE] ELSE inc[i]]
            /\ cleanup' = [i \in Transfer |-> IF inc[i].file THEN "remove" ELSE cleanup[i]]
            /\ UNCHANGED out
    /\ data' \in SUBSET data
    /\ UNCHANGED <<job, control, disk, open, changed, available, mishaps>>

\* A worker of a stopped client ends: its result is dropped by the worker
\* itself, or by discardFileWorkResults, which removes the file too.
DiscardFileWorkResult(e, i) ==
    LET j == job[e][i]
        created == j.kind = "create" /\ j.state = "ok"
    IN /\ e \in stopped
       /\ j # NoJob /\ j.state # "running"
       /\ StartFileWork(e, i, NoJob)
       /\ open' = IF created THEN [open EXCEPT ![i] = FALSE] ELSE open
       /\ disk' \in IF created THEN {disk, [disk EXCEPT ![i] = NoFile]} ELSE {disk}
       /\ UNCHANGED <<out, inc, control, data, cleanup, changed, sides, mishaps>>

\* e's session loses its authentication or is replaced.
SessionLost(e) ==
    /\ available[e]
    /\ \/ Happens("outage")
       \/ Peer(e) \in stopped /\ UNCHANGED mishaps
    /\ available' = [available EXCEPT ![e] = FALSE]
    /\ UNCHANGED <<out, inc, job, control, data, disk, open, cleanup, changed, stopped>>

\* The session is authenticated again before it was replaced.
SessionRecovers(e) ==
    /\ "recover" \in Mishap
    /\ ~available[e] /\ Peer(e) \notin stopped
    /\ available' = [available EXCEPT ![e] = TRUE]
    /\ UNCHANGED <<out, inc, job, control, data, disk, open, cleanup, changed, stopped, mishaps>>

\* Somebody writes to the source file.
SourceChanges(i) ==
    /\ ~changed[i] /\ out[i].status \in {"offered", "transferring", "waiting"}
    /\ Happens("change")
    /\ changed' = [changed EXCEPT ![i] = TRUE]
    /\ UNCHANGED <<out, inc, job, control, data, disk, open, cleanup, sides>>

Step ==
    \/ \E i \in Transfer :
        \/ StartFileOffer(i) \/ AcceptFile(i) \/ RejectFile(i)
        \/ ClosePartialFile(i) \/ SourceChanges(i)
    \/ \E e \in End, i \in Transfer :
        \/ CancelFile(e, i) \/ RunFileWork(e, i) \/ HandleFileWorkResult(e, i)
        \/ ExpireFileTransfer(e, i) \/ DiscardFileWorkResult(e, i)
    \/ \E e \in End :
        HandleFileControl(e) \/ StopFileTransfers(e) \/ SessionLost(e) \/ SessionRecovers(e)
    \/ HandleFileData

Next == Step /\ UNCHANGED setting

Spec == Init /\ [][Next]_vars

\* What goes on by itself: the loops handle what waits for them, workers end,
\* the transport delivers, timers run, and the session with a client that is
\* gone ends.
Progress ==
    \/ HandleFileData
    \/ \E i \in Transfer : ClosePartialFile(i)
    \/ \E e \in End :
        \/ HandleFileControl(e) \/ (SessionLost(e) /\ Peer(e) \in stopped)
        \/ \E i \in Transfer :
            \/ RunFileWork(e, i) \/ HandleFileWorkResult(e, i)
            \/ DiscardFileWorkResult(e, i) \/ ExpireFileTransfer(e, i)

\* As long as any of it can happen, some of it does.
Fairness == WF_vars(Progress /\ UNCHANGED setting)

FairSpec == Spec /\ Fairness

-----------------------------------------------------------------------------
(* Properties *)

Whole(i) == disk[i] = [k \in 1 .. Chunks[i] |-> k]

OutgoingState ==
    [status : {"none", "preparing", "offered", "transferring", "waiting", "completed",
               "rejected", "canceled", "failed"},
     done : Nat, working : BOOLEAN]
IncomingState ==
    [status : {"none", "offered", "accepting", "transferring", "completed", "rejected",
               "canceled", "failed"},
     hashed : Seq(Int), working : BOOLEAN, file : BOOLEAN]

\* Each end runs its own workers and hears its own kinds of messages.
WorkersOf(e) ==
    {j \in Worker : j.kind \in IF e = "sender" THEN {"offer", "read"}
                               ELSE {"create", "write", "finish"}}
MessagesTo(e) ==
    [kind : IF e = "sender" THEN {"accept", "reject", "cancel", "ack"} ELSE {"offer", "cancel"},
     id : Transfer]

Types ==
    /\ setting \in Setting
    /\ out \in [Transfer -> OutgoingState] /\ inc \in [Transfer -> IncomingState]
    /\ \A e \in End :
          /\ job[e] \in [Transfer -> WorkersOf(e) \cup {NoJob}]
          /\ control[e] \in Seq(MessagesTo(e))
    /\ DOMAIN job = End /\ DOMAIN control = End
    /\ data \subseteq [id : Transfer, content : Int]
    /\ DOMAIN disk = Transfer
    /\ \A i \in Transfer : disk[i] \in [1 .. Chunks[i] -> Int] \cup {NoFile}
    /\ open \in [Transfer -> BOOLEAN] /\ changed \in [Transfer -> BOOLEAN]
    /\ cleanup \in [Transfer -> {"none", "close", "remove"}]
    /\ available \in [End -> BOOLEAN] /\ stopped \subseteq End

\* Records, workers, messages and files are of the kinds the code has, and nobody counts
\* more chunks than the file has.
TypeOK ==
    /\ Types
    /\ \A i \in Transfer : out[i].done <= Chunks[i] /\ Len(inc[i].hashed) <= Chunks[i]

\* A transfer the receiver reports as completed has left a closed file with
\* every chunk in its place, as it was when the sender hashed it, and nothing
\* that is still running will touch it (handleFileWorkResult, closePartialFile).
CompletedIsWhole ==
    \A i \in Transfer : inc[i].status = "completed" =>
        Whole(i) /\ ~open[i] /\ cleanup[i] = "none" /\ job["receiver"][i] = NoJob

\* The sender reports completion only when the receiver has: the last chunk is
\* acknowledged after the file has been synced and closed, never before.
SenderKnows ==
    \A i \in Transfer : out[i].status = "completed" => inc[i].status = "completed"

\* Stop and wait: the sender never counts a chunk the receiver has not written,
\* and at most one chunk of a transfer is on its way.
StopAndWait ==
    \A i \in Transfer :
        /\ out[i].done <= Len(inc[i].hashed) /\ Len(inc[i].hashed) <= out[i].done + 1
        /\ Cardinality({m \in data : m.id = i}) <= 1

\* However a transfer ends, once its workers are done no half-written file is
\* left and no file is open: the destination is absent, empty or whole.
NoPartialFile ==
    \A i \in Transfer :
        Terminal(inc[i].status) /\ job["receiver"][i] = NoJob /\ cleanup[i] = "none" =>
            /\ ~open[i]
            /\ \/ disk[i] = NoFile
               \/ Whole(i)
               \/ \A k \in 1 .. Chunks[i] : disk[i][k] = 0

\* Whatever fails or is given up, no transfer stays active for ever at either
\* end, and an ended one stays so (expireFileTransfers).
EveryTransferEnds ==
    <>[](\A e \in End, i \in Transfer : ~Active(StatusAt(e, i)))

\* A control message of one of these kinds about i is on its way to e.
OnItsWay(e, kinds, i) ==
    \E k \in DOMAIN control[e] : control[e][k].id = i /\ control[e][k].kind \in kinds

\* Users who give up a transfer strand nobody: unless something else went wrong, an
\* active sender has a worker, a user or a message that will move it on, and an
\* active receiver has an active sender or hears that it gave up.  What ends one
\* transfer discards the data channel and must not take the chunk of another
\* (finishFileTransfer).
NobodyStranded ==
    mishaps = 0 /\ stopped = {} /\ (\A e \in End : available[e]) =>
        \A i \in Transfer :
            /\ Active(out[i].status) =>
                \/ job["sender"][i] # NoJob
                \/ OnItsWay("receiver", {"offer"}, i) \/ inc[i].status = "offered"
                \/ Active(inc[i].status) /\ (job["receiver"][i] # NoJob \/ \E m \in data : m.id = i)
                \/ OnItsWay("sender", {"accept", "reject", "cancel", "ack"}, i)
            /\ Active(inc[i].status) =>
                Active(out[i].status) \/ OnItsWay("receiver", {"cancel"}, i)
=============================================================================
