------------------------- MODULE FileTransferProofs -------------------------
(***************************************************************************)
(* For any number of transfers and chunks, and whatever fails, is given up *)
(* or comes too late: sender and receiver stay within one chunk of each    *)
(* other, a completed transfer has left the whole file, the sender knows   *)
(* no more than the receiver has done, and no half-written file stays.     *)
(***************************************************************************)
EXTENDS FileTransfer, SequenceTheorems, FiniteSetTheorems, TLAPS

Failed == {"rejected", "canceled", "failed"}

\* What the worker of a record in use is doing.
Reads(j, status) ==
    j # NoJob => \/ Terminal(status)
                 \/ j.kind = "offer" /\ status = "preparing"
                 \/ j.kind = "read" /\ status = "transferring"
SenderWorks == \A i \in Transfer : Reads(job["sender"][i], out[i].status)

Zeros(c) == [k \in 1 .. c |-> 0]
Numbers(c) == [k \in 1 .. c |-> k]

\* What a worker that creates the file has left so far.
Created(c, j, f, o) == IF j.state = "ok" THEN f = Zeros(c) ELSE f = NoFile /\ ~o

\* The record r of a transfer of c chunks, its worker j, the file f, whether it is open
\* and how it has yet to be closed.
Consistent(c, r, j, f, o, cl) ==
    /\ r.file => r.status = "transferring"
    /\ r.status \in {"none", "offered"} =>
          /\ r.hashed = <<>>
          /\ j = NoJob /\ f = NoFile /\ ~o /\ cl = "none"
    /\ r.status = "accepting" =>
          /\ r.hashed = <<>>
          /\ j # NoJob /\ j.kind = "create" /\ Created(c, j, f, o) /\ cl = "none"
    /\ r.status = "transferring" =>
          /\ r.file /\ cl = "none" /\ f \in [1 .. c -> Int]
          /\ \A k \in 1 .. c : k <= Len(r.hashed) => f[k] = r.hashed[k]
          /\ j # NoJob =>
                \/ /\ j.kind = "write" /\ j.at = Len(r.hashed) + 1
                   /\ j.state = "ok" /\ j.at <= c => f[j.at] = j.content
                \/ /\ j.kind = "finish" /\ r.hashed = Numbers(c)
                   /\ j.state = "ok" => ~o
          /\ j # NoJob => r.working
    /\ r.status = "completed" => f = Numbers(c) /\ ~o /\ cl = "none" /\ j = NoJob
    /\ r.status \in Failed /\ cl = "none" =>
          /\ j = NoJob => ~o /\ f \in {NoFile, Numbers(c), Zeros(c)}
          /\ j # NoJob /\ j.kind = "create" => Created(c, j, f, o)
          /\ j # NoJob /\ j.kind # "create" => f = NoFile /\ ~o
    /\ r.status \in Failed /\ cl = "close" => j = NoJob /\ f = Zeros(c)
    /\ r.status \in Failed /\ cl = "remove" =>
          /\ j # NoJob => j.kind # "create"
          /\ o => f \in [1 .. c -> Int]

Files ==
    /\ \A i \in Transfer :
          Consistent(Chunks[i], inc[i], job["receiver"][i], disk[i], open[i], cleanup[i])
    /\ "receiver" \in stopped => \A i \in Transfer : ~Active(inc[i].status)

\* The receiver's worker writes a chunk, or finishes the file, of a transfer in use.
Live(r, j, kind) == r.status = "transferring" /\ j # NoJob /\ j.kind = kind

\* An acknowledgment for transfer i is on its way.
Ack(i) == \E k \in DOMAIN control["sender"] : control["sender"][k] = Msg("ack", i)

\* The chunk after the first o.done ones is in one place: not read yet, on its way (sent),
\* being written, or written and not yet acknowledged.
InStep(c, o, r, j, sent, ack) ==
    LET n == Len(r.hashed)
        d == o.done
    IN  /\ d <= n /\ n <= d + 1 /\ n <= c
        /\ o.status \in {"none", "preparing", "offered"} =>
              d = 0 /\ n = 0 /\ ~sent /\ ~Live(r, j, "write")
        /\ o.status = "transferring" => n = d /\ d < c /\ ~sent /\ ~Live(r, j, "write")
        /\ sent => n = d /\ d < c /\ ~Live(r, j, "write")
        /\ Live(r, j, "write") => n = d /\ d < c
        /\ Live(r, j, "finish") => n = c /\ (c # 0 => n = d + 1) /\ ~ack
        /\ ack => (c # 0 => n = d + 1) /\ (n = c => r.status = "completed")
        /\ o.status = "completed" => r.status = "completed"

Sent(i) == \E m \in data : m.id = i

\* At most one acknowledgment of a transfer with chunks is on its way.
AckOnce ==
    \A i \in Transfer, k1, k2 \in DOMAIN control["sender"] :
        /\ Chunks[i] # 0
        /\ control["sender"][k1] = Msg("ack", i) /\ control["sender"][k2] = Msg("ack", i)
        => k1 = k2

Steps ==
    /\ \A i \in Transfer :
          InStep(Chunks[i], out[i], inc[i], job["receiver"][i], Sent(i), Ack(i))
    /\ \A m1, m2 \in data : m1.id = m2.id => m1 = m2
    /\ AckOnce

IInv == Types /\ SenderWorks /\ Files /\ Steps

\* What a step leaves alone, for one transfer: the receiver's side of it, and all that
\* InStep is about.
SameFile(i) ==
    /\ inc'[i] = inc[i] /\ job'["receiver"][i] = job["receiver"][i]
    /\ disk'[i] = disk[i] /\ open'[i] = open[i] /\ cleanup'[i] = cleanup[i]
SameStep(i) ==
    /\ out'[i] = out[i] /\ inc'[i] = inc[i] /\ job'["receiver"][i] = job["receiver"][i]
    /\ (Sent(i)' => Sent(i)) /\ (Ack(i)' => Ack(i))

\* No acknowledgment is added.
Quiet == AckOnce' /\ \A i \in Transfer : Ack(i)' => Ack(i)

-----------------------------------------------------------------------------

\* The two ends.
LEMMA EndFacts == /\ "sender" \in End /\ "receiver" \in End
                  /\ Peer("sender") = "receiver" /\ Peer("receiver") = "sender"
                  /\ \A e \in End : e = "sender" \/ e = "receiver"
<1>1. Peer("sender") \in End /\ Peer("sender") # "sender"
  BY DEF Peer, End
<1>2. Peer("receiver") \in End /\ Peer("receiver") # "receiver"
  BY DEF Peer, End
<1> QED
  BY <1>1, <1>2 DEF End

\* What is in a queue to which a message is added, or from which one is taken.
LEMMA QueueFacts ==
    ASSUME NEW S, NEW s \in Seq(S), NEW m \in S
    PROVE  /\ Append(s, m) \in Seq(S)
           /\ \A k \in DOMAIN Append(s, m) :
                 \/ k \in DOMAIN s /\ Append(s, m)[k] = s[k]
                 \/ k = Len(s) + 1 /\ Append(s, m)[k] = m
           /\ \A k \in DOMAIN s : k # Len(s) + 1
           /\ s # <<>> => /\ Tail(s) \in Seq(S) /\ Head(s) \in S /\ Head(s) = s[1]
                          /\ 1 \in DOMAIN s
                          /\ \A k \in DOMAIN Tail(s) : /\ k + 1 \in DOMAIN s /\ k \in Nat \ {0}
                                                       /\ Tail(s)[k] = s[k + 1]
<1>1. Len(s) \in Nat /\ DOMAIN s = 1 .. Len(s)
  BY LenProperties
<1>2. /\ Append(s, m) \in Seq(S) /\ Len(Append(s, m)) = Len(s) + 1
      /\ DOMAIN Append(s, m) = 1 .. Len(s) + 1
      /\ \A k \in 1 .. Len(s) : Append(s, m)[k] = s[k]
      /\ Append(s, m)[Len(s) + 1] = m
  BY AppendProperties
<1>3. ASSUME s # <<>>
      PROVE  /\ Tail(s) \in Seq(S) /\ Head(s) \in S /\ Head(s) = s[1] /\ 1 \in DOMAIN s
             /\ \A k \in DOMAIN Tail(s) : /\ k + 1 \in DOMAIN s /\ k \in Nat \ {0}
                                          /\ Tail(s)[k] = s[k + 1]
  BY <1>1, <1>3
<1> QED
  BY <1>1, <1>2, <1>3

\* The fields of a record and of a worker.
LEMMA RecordFacts ==
    ASSUME Types, NEW i \in Transfer
    PROVE  /\ out[i] \in OutgoingState /\ inc[i] \in IncomingState
           /\ \A e \in End : job[e][i] # NoJob => job[e][i] \in Worker
           /\ job["sender"][i] # NoJob => job["sender"][i].kind \in {"offer", "read"}
           /\ job["receiver"][i] # NoJob => job["receiver"][i].kind \in {"create", "write", "finish"}
           /\ Chunks[i] \in Nat
<1>1. setting \in [chunks : [Transfer -> Nat], mishap : SUBSET AnyMishap]
  BY FileTransferAssumption DEF Types
<1>2. job["sender"][i] \in WorkersOf("sender") \cup {NoJob}
  BY EndFacts DEF Types
<1>3. job["receiver"][i] \in WorkersOf("receiver") \cup {NoJob}
  BY EndFacts DEF Types
<1>4. out[i] \in OutgoingState /\ inc[i] \in IncomingState
  BY DEF Types
<1>5. Chunks[i] \in Nat
  BY <1>1 DEF Chunks
<1> QED
  BY <1>2, <1>3, <1>4, <1>5, EndFacts DEF WorkersOf

\* A message that is no acknowledgment is added to a queue, or the queue stays.
LEMMA QueueQuiet ==
    ASSUME Types, AckOnce, UNCHANGED setting, NEW e \in End, NEW ok \in BOOLEAN, NEW i \in Transfer,
           NEW kind, Msg(kind, i) \in MessagesTo(Peer(e)), kind # "ack",
           QueueFileControl(e, ok, kind, i)
    PROVE  /\ DOMAIN control' = End /\ \A f \in End : control'[f] \in Seq(MessagesTo(f))
           /\ Quiet
<1>1. CASE control' = control
  BY <1>1 DEF Types, Quiet, Ack, AckOnce, Chunks
<1>2. CASE control' = [control EXCEPT ![Peer(e)] = Append(control[Peer(e)], Msg(kind, i))]
  <2> DEFINE s == control[Peer(e)]
             m == Msg(kind, i)
  <2>1. Peer(e) \in End /\ s \in Seq(MessagesTo(Peer(e))) /\ DOMAIN control = End
    BY EndFacts DEF Types
  <2>2. control'[Peer(e)] = Append(s, m) /\ DOMAIN control' = End
        /\ \A f \in End : f # Peer(e) => control'[f] = control[f]
    BY <1>2, <2>1
  <2>3. \A n \in Transfer : m # Msg("ack", n)
    BY DEF Msg
  <2> HIDE DEF m
  <2>4. Append(s, m) \in Seq(MessagesTo(Peer(e)))
    BY <2>1, QueueFacts DEF m
  <2>5. \A k \in DOMAIN control'["sender"] : \A n \in Transfer :
           control'["sender"][k] = Msg("ack", n) =>
               k \in DOMAIN control["sender"] /\ control["sender"][k] = Msg("ack", n)
    <3>1. CASE Peer(e) = "sender"
      BY <2>1, <2>2, <2>3, <3>1, QueueFacts DEF m
    <3>2. CASE Peer(e) # "sender"
      BY <2>2, <3>2, EndFacts
    <3> QED
      BY <3>1, <3>2
  <2>6. DOMAIN control' = End /\ \A f \in End : control'[f] \in Seq(MessagesTo(f))
    BY <2>2, <2>4 DEF Types
  <2>7. \A n \in Transfer : Ack(n)' => Ack(n)
    BY <2>5 DEF Ack
  <2>8. AckOnce'
    BY <2>5 DEF AckOnce, Chunks
  <2> QED
    BY <2>6, <2>7, <2>8 DEF Quiet
<1> QED
  BY <1>1, <1>2 DEF QueueFileControl

\* An acknowledgment is added.
LEMMA QueueAck ==
    ASSUME Types, AckOnce, UNCHANGED setting, NEW i \in Transfer, Chunks[i] # 0 => ~Ack(i),
           control' = [control EXCEPT !["sender"] = Append(control["sender"], Msg("ack", i))]
    PROVE  /\ DOMAIN control' = End /\ \A f \in End : control'[f] \in Seq(MessagesTo(f))
           /\ AckOnce' /\ \A n \in Transfer : n # i => (Ack(n)' => Ack(n))
<1> DEFINE s == control["sender"]
           m == Msg("ack", i)
<1>1. s \in Seq(MessagesTo("sender")) /\ DOMAIN control = End
  BY EndFacts DEF Types
<1>2. /\ control'["sender"] = Append(s, m) /\ DOMAIN control' = End
      /\ control'["receiver"] = control["receiver"]
  BY <1>1, EndFacts
<1>3. m \in MessagesTo("sender") /\ \A n \in Transfer : m = Msg("ack", n) => n = i
  BY DEF Msg, MessagesTo
<1> HIDE DEF m
<1>4. Append(s, m) \in Seq(MessagesTo("sender"))
  BY <1>1, <1>3, QueueFacts
<1>5. \A k \in DOMAIN control'["sender"] : \A n \in Transfer :
         control'["sender"][k] = Msg("ack", n) =>
             \/ k \in DOMAIN control["sender"] /\ control["sender"][k] = Msg("ack", n)
             \/ k = Len(s) + 1 /\ n = i
  BY <1>1, <1>2, <1>3, QueueFacts
<1>6. DOMAIN control' = End /\ \A f \in End : control'[f] \in Seq(MessagesTo(f))
  BY <1>2, <1>4, EndFacts DEF Types
<1>7. \A n \in Transfer : n # i => (Ack(n)' => Ack(n))
  BY <1>5 DEF Ack
<1>8. ASSUME NEW n \in Transfer, NEW k1 \in DOMAIN control'["sender"],
             NEW k2 \in DOMAIN control'["sender"], Chunks[n] # 0,
             control'["sender"][k1] = Msg("ack", n), control'["sender"][k2] = Msg("ack", n)
      PROVE  k1 = k2
  <2>1. CASE n # i
    BY <1>5, <1>8, <2>1 DEF AckOnce
  <2>2. CASE n = i
    BY <1>5, <1>8, <2>2 DEF Ack
  <2> QED
    BY <2>1, <2>2
<1>9. AckOnce'
  BY <1>8 DEF AckOnce, Chunks
<1> QED
  BY <1>6, <1>7, <1>9

\* The first message is taken.
LEMMA TakeQuiet ==
    ASSUME Types, AckOnce, UNCHANGED setting, NEW e \in End, control[e] # <<>>,
           control' = [control EXCEPT ![e] = Tail(control[e])]
    PROVE  /\ DOMAIN control' = End /\ \A f \in End : control'[f] \in Seq(MessagesTo(f))
           /\ Quiet /\ Head(control[e]) \in MessagesTo(e)
           /\ \A i \in Transfer : e = "sender" /\ Head(control[e]) = Msg("ack", i) =>
                 Ack(i) /\ (Chunks[i] # 0 => ~Ack(i)')
<1> DEFINE s == control[e]
<1>1. s \in Seq(MessagesTo(e)) /\ DOMAIN control = End
  BY DEF Types
<1>2. /\ Tail(s) \in Seq(MessagesTo(e)) /\ Head(s) \in MessagesTo(e) /\ Head(s) = s[1]
      /\ 1 \in DOMAIN s
      /\ \A k \in DOMAIN Tail(s) : k + 1 \in DOMAIN s /\ k \in Nat \ {0} /\ Tail(s)[k] = s[k + 1]
  BY <1>1, QueueFacts
<1>3. control'[e] = Tail(s) /\ DOMAIN control' = End /\ \A f \in End : f # e => control'[f] = control[f]
  BY <1>1
<1>4. DOMAIN control' = End /\ \A f \in End : control'[f] \in Seq(MessagesTo(f))
  BY <1>2, <1>3 DEF Types
<1>5. CASE e # "sender"
  <2>1. control'["sender"] = control["sender"]
    BY <1>3, <1>5, EndFacts
  <2> QED
    BY <1>2, <1>4, <1>5, <2>1 DEF Quiet, Ack, AckOnce, Chunks
<1>6. CASE e = "sender"
  <2>1. \A k \in DOMAIN control'["sender"] :
           k + 1 \in DOMAIN s /\ k \in Nat \ {0} /\ control'["sender"][k] = s[k + 1]
    BY <1>2, <1>3, <1>6
  <2>2. \A n \in Transfer : Ack(n)' => Ack(n)
    BY <1>6, <2>1 DEF Ack
  <2>3. AckOnce'
    <3> SUFFICES ASSUME NEW n \in Transfer, NEW k1 \in DOMAIN control'["sender"],
                        NEW k2 \in DOMAIN control'["sender"], Chunks[n] # 0,
                        control'["sender"][k1] = Msg("ack", n),
                        control'["sender"][k2] = Msg("ack", n)
                 PROVE  k1 = k2
      BY DEF AckOnce, Chunks
    <3>1. k1 + 1 = k2 + 1
      BY <1>6, <2>1 DEF AckOnce
    <3> QED
      BY <2>1, <3>1
  <2>4. ASSUME NEW n \in Transfer, Head(s) = Msg("ack", n)
        PROVE  Ack(n) /\ (Chunks[n] # 0 => ~Ack(n)')
    <3>1. Ack(n)
      BY <1>2, <1>6, <2>4 DEF Ack
    <3>2. ASSUME Chunks[n] # 0, NEW k \in DOMAIN control'["sender"],
                 control'["sender"][k] = Msg("ack", n)
          PROVE  FALSE
      <4>1. k + 1 = 1
        BY <1>2, <1>6, <2>1, <2>4, <3>2 DEF AckOnce
      <4> QED
        BY <2>1, <3>2, <4>1
    <3> QED
      BY <3>1, <3>2 DEF Ack
  <2> QED
    BY <1>2, <1>4, <1>6, <2>2, <2>3, <2>4 DEF Quiet
<1> QED
  BY <1>5, <1>6

\* The worker of e for transfer i is now j, and the others are what they were.
Assigned(e, i, j) ==
    /\ DOMAIN job' = End
    /\ \A f \in End : job'[f] \in [Transfer -> WorkersOf(f) \cup {NoJob}]
    /\ job'[e][i] = j
    /\ \A f \in End : \A k \in Transfer : f # e \/ k # i => job'[f][k] = job[f][k]

\* A worker is started, or its result has been handled.
LEMMA WorkFacts ==
    ASSUME Types, NEW e \in End, NEW i \in Transfer, NEW j \in WorkersOf(e) \cup {NoJob},
           StartFileWork(e, i, j)
    PROVE  Assigned(e, i, j)
<1>1. DOMAIN job = End /\ \A f \in End : job[f] \in [Transfer -> WorkersOf(f) \cup {NoJob}]
  BY DEF Types
<1>2. job' = [job EXCEPT ![e] = [job[e] EXCEPT ![i] = j]]
  BY DEF StartFileWork
<1>3. DOMAIN job' = End /\ job'[e] = [job[e] EXCEPT ![i] = j]
      /\ \A f \in End : f # e => job'[f] = job[f]
  BY <1>1, <1>2
<1> HIDE DEF StartFileWork
<1>4. job'[e] \in [Transfer -> WorkersOf(e) \cup {NoJob}]
  BY <1>1, <1>3
<1>5. \A f \in End : job'[f] \in [Transfer -> WorkersOf(f) \cup {NoJob}]
  BY <1>1, <1>3, <1>4
<1>6. job'[e][i] = j /\ \A k \in Transfer : k # i => job'[e][k] = job[e][k]
  BY <1>1, <1>3
<1> QED
  BY <1>3, <1>5, <1>6 DEF Assigned

\* The workers the handlers start.
LEMMA StartedFacts ==
    /\ \A n \in Nat : Job("read", n, 0) \in WorkersOf("sender")
    /\ Job("offer", 0, 0) \in WorkersOf("sender")
    /\ Job("create", 0, 0) \in WorkersOf("receiver")
    /\ Job("finish", 0, 0) \in WorkersOf("receiver")
    /\ \A n \in Nat, c \in Int : Job("write", n, c) \in WorkersOf("receiver")
    /\ \A kind, n, c : /\ Job(kind, n, c).kind = kind /\ Job(kind, n, c).at = n
                       /\ Job(kind, n, c).content = c /\ Job(kind, n, c).state = "running"
    /\ \A e \in End : WorkersOf(e) \subseteq Worker
    /\ NoJob \notin Worker
BY FileTransferAssumption DEF Job, WorkersOf, Worker

-----------------------------------------------------------------------------

\* A step leaves the receiver's side of a transfer alone or keeps it consistent.
LEMMA FilesFrame ==
    ASSUME Files, UNCHANGED setting,
           \A k \in Transfer :
              \/ SameFile(k)
              \/ Consistent(Chunks[k], inc'[k], job'["receiver"][k], disk'[k], open'[k], cleanup'[k]),
           "receiver" \in stopped' => \A k \in Transfer : ~Active(inc'[k].status)
    PROVE  Files'
<1>1. Chunks' = Chunks
  BY DEF Chunks
<1>2. ASSUME NEW k \in Transfer
      PROVE  Consistent(Chunks[k], inc'[k], job'["receiver"][k], disk'[k], open'[k], cleanup'[k])
  BY DEF Files, SameFile
<1> QED
  BY <1>1, <1>2 DEF Files

\* InStep asks less when nothing is on its way.
LEMMA InStepLess ==
    ASSUME NEW c, NEW o, NEW r, NEW j, NEW s1, NEW a1, NEW s2, NEW a2,
           InStep(c, o, r, j, s1, a1), s2 => s1, a2 => a1
    PROVE  InStep(c, o, r, j, s2, a2)
BY DEF InStep

\* A step leaves a transfer alone, or keeps its ends in step.
LEMMA StepsFrame ==
    ASSUME Steps, UNCHANGED setting, AckOnce', \A m1, m2 \in data' : m1.id = m2.id => m1 = m2,
           \A k \in Transfer :
              \/ SameStep(k)
              \/ InStep(Chunks[k], out'[k], inc'[k], job'["receiver"][k], Sent(k)', Ack(k)')
    PROVE  Steps'
<1>1. Chunks' = Chunks
  BY DEF Chunks
<1>2. ASSUME NEW k \in Transfer
      PROVE  InStep(Chunks[k], out'[k], inc'[k], job'["receiver"][k], Sent(k)', Ack(k)')
  <2>1. InStep(Chunks[k], out[k], inc[k], job["receiver"][k], Sent(k), Ack(k))
    BY DEF Steps
  <2>2. CASE SameStep(k)
    <3>1. InStep(Chunks[k], out'[k], inc'[k], job'["receiver"][k], Sent(k), Ack(k))
      BY <2>1, <2>2 DEF SameStep
    <3> QED
      BY <2>2, <3>1, InStepLess DEF SameStep
  <2> QED
    BY <2>2
<1> QED
  BY <1>1, <1>2 DEF Steps

\* One end gives a transfer up, and no acknowledgment is sent.
GiveUp(e, i, status) ==
    /\ Active(StatusAt(e, i)) /\ status \in Failed
    /\ FinishFileTransfer(e, i, status)
    /\ \/ UNCHANGED job
       \/ job[e][i] # NoJob /\ job[e][i].state = "error" /\ StartFileWork(e, i, NoJob)
    /\ DOMAIN control' = End /\ \A f \in End : control'[f] \in Seq(MessagesTo(f))
    /\ Quiet
    /\ UNCHANGED <<disk, open, changed, stopped, setting>>
    /\ available' \in [End -> BOOLEAN]

\* What giving up does to the workers.
LEMMA GiveUpWork ==
    ASSUME Types, NEW e \in End, NEW i \in Transfer,
           \/ UNCHANGED job
           \/ job[e][i] # NoJob /\ job[e][i].state = "error" /\ StartFileWork(e, i, NoJob)
    PROVE  /\ DOMAIN job' = End
           /\ \A f \in End : job'[f] \in [Transfer -> WorkersOf(f) \cup {NoJob}]
           /\ \/ job'[e][i] = job[e][i]
              \/ job'[e][i] = NoJob /\ job[e][i] # NoJob /\ job[e][i].state = "error"
           /\ \A f \in End : \A k \in Transfer : f # e \/ k # i => job'[f][k] = job[f][k]
<1>1. CASE UNCHANGED job
  BY <1>1 DEF Types
<1>2. CASE job[e][i] # NoJob /\ job[e][i].state = "error" /\ StartFileWork(e, i, NoJob)
  BY <1>2, WorkFacts DEF Assigned
<1> QED
  BY <1>1, <1>2

\* The sender may give up at any time.
LEMMA GiveUpSender ==
    ASSUME IInv, NEW i \in Transfer, NEW status, GiveUp("sender", i, status)
    PROVE  IInv'
<1> USE EndFacts
<1>1. /\ out' = [out EXCEPT ![i] = [status |-> status, done |-> out[i].done, working |-> FALSE]]
      /\ data' \subseteq data /\ UNCHANGED <<inc, cleanup, disk, open, changed, stopped, setting>>
      /\ status \in Failed
  BY DEF GiveUp, FinishFileTransfer, FinishOutgoing
<1>2. /\ DOMAIN job' = End
      /\ \A f \in End : job'[f] \in [Transfer -> WorkersOf(f) \cup {NoJob}]
      /\ \A k \in Transfer : job'["receiver"][k] = job["receiver"][k]
                             /\ (k # i => job'["sender"][k] = job["sender"][k])
  BY GiveUpWork DEF GiveUp, IInv
<1>3. out[i] \in OutgoingState /\ out \in [Transfer -> OutgoingState]
  BY DEF IInv, Types
<1>4. [status |-> status, done |-> out[i].done, working |-> FALSE] \in OutgoingState
  BY <1>1, <1>3 DEF OutgoingState, Failed
<1>5. Types'
  BY <1>1, <1>2, <1>3, <1>4 DEF IInv, Types, GiveUp, Chunks
<1>6. SenderWorks'
  BY <1>1, <1>2, <1>3 DEF IInv, SenderWorks, Reads, Terminal, Failed
<1>7. Files'
  <2>1. \A k \in Transfer : SameFile(k)
    BY <1>1, <1>2 DEF SameFile
  <2> QED
    BY <1>1, <2>1, FilesFrame DEF IInv, Files
<1>8. Steps'
  <2>1. \A k \in Transfer : Sent(k)' => Sent(k)
    BY <1>1 DEF Sent
  <2>2. \A k \in Transfer : Ack(k)' => Ack(k)
    BY DEF GiveUp, Quiet
  <2>3. \A k \in Transfer : k # i => SameStep(k)
    BY <1>1, <1>2, <1>3, <2>1, <2>2 DEF SameStep
  <2>4. InStep(Chunks[i], out'[i], inc'[i], job'["receiver"][i], Sent(i), Ack(i))
    <3>1. InStep(Chunks[i], out[i], inc[i], job["receiver"][i], Sent(i), Ack(i))
      BY DEF IInv, Steps
    <3>2. out'[i] = [status |-> status, done |-> out[i].done, working |-> FALSE]
      BY <1>1, <1>3
    <3> QED
      BY <1>1, <1>2, <3>1, <3>2 DEF InStep, Failed
  <2>5. InStep(Chunks[i], out'[i], inc'[i], job'["receiver"][i], Sent(i)', Ack(i)')
    BY <2>1, <2>2, <2>4, InStepLess
  <2> QED
    BY <1>1, <2>3, <2>5, StepsFrame DEF IInv, Steps, GiveUp, Quiet
<1> QED
  BY <1>5, <1>6, <1>7, <1>8 DEF IInv

\* So may the receiver: a file it has opened is removed, one that is still being created
\* is closed when the worker is done.
LEMMA GiveUpReceiver ==
    ASSUME IInv, NEW i \in Transfer, NEW status, GiveUp("receiver", i, status)
    PROVE  IInv'
<1> USE EndFacts
<1>1. /\ inc' = [inc EXCEPT ![i].status = status, ![i].working = FALSE, ![i].file = FALSE]
      /\ cleanup' = IF inc[i].file THEN [cleanup EXCEPT ![i] = "remove"] ELSE cleanup
      /\ data' \subseteq data /\ UNCHANGED <<out, disk, open, changed, stopped, setting>>
      /\ status \in Failed /\ Active(inc[i].status)
  BY DEF GiveUp, FinishFileTransfer, FinishIncoming, StatusAt
<1>2. /\ DOMAIN job' = End
      /\ \A f \in End : job'[f] \in [Transfer -> WorkersOf(f) \cup {NoJob}]
      /\ \A k \in Transfer : job'["sender"][k] = job["sender"][k]
                             /\ (k # i => job'["receiver"][k] = job["receiver"][k])
      /\ \/ job'["receiver"][i] = job["receiver"][i]
         \/ /\ job'["receiver"][i] = NoJob /\ job["receiver"][i] # NoJob
            /\ job["receiver"][i].state = "error"
  BY GiveUpWork DEF GiveUp, IInv
<1>3. inc[i] \in IncomingState /\ inc \in [Transfer -> IncomingState]
      /\ cleanup \in [Transfer -> {"none", "close", "remove"}]
  BY DEF IInv, Types
<1>4. /\ inc'[i] \in IncomingState /\ inc' \in [Transfer -> IncomingState]
      /\ inc'[i].status = status /\ inc'[i].hashed = inc[i].hashed /\ ~inc'[i].file
      /\ \A k \in Transfer : k # i => inc'[k] = inc[k]
  BY <1>1, <1>3 DEF IncomingState, Failed
<1>5. /\ cleanup' \in [Transfer -> {"none", "close", "remove"}]
      /\ cleanup'[i] = IF inc[i].file THEN "remove" ELSE cleanup[i]
      /\ \A k \in Transfer : k # i => cleanup'[k] = cleanup[k]
  BY <1>1, <1>3
<1>6. Types'
  BY <1>1, <1>2, <1>4, <1>5 DEF IInv, Types, GiveUp, Chunks
<1>7. SenderWorks'
  BY <1>1, <1>2 DEF IInv, SenderWorks
<1>8. Files'
  <2>1. \A k \in Transfer : k # i => SameFile(k)
    BY <1>1, <1>2, <1>4, <1>5 DEF SameFile
  <2>2. Consistent(Chunks[i], inc'[i], job'["receiver"][i], disk'[i], open'[i], cleanup'[i])
    <3>1. Consistent(Chunks[i], inc[i], job["receiver"][i], disk[i], open[i], cleanup[i])
      BY DEF IInv, Files
    <3>2. inc[i].status \in {"offered", "accepting", "transferring"}
      BY <1>1, <1>3 DEF Active, Terminal, IncomingState
    <3>3. disk'[i] = disk[i] /\ open'[i] = open[i]
      BY <1>1
    <3> QED
      BY <1>1, <1>2, <1>4, <1>5, <3>1, <3>2, <3>3 DEF Consistent, Created, Failed
  <2>3. "receiver" \in stopped' => \A k \in Transfer : ~Active(inc'[k].status)
    BY <1>1 DEF IInv, Files
  <2> QED
    BY <1>1, <2>1, <2>2, <2>3, FilesFrame DEF IInv
<1>9. Steps'
  <2>1. \A k \in Transfer : Sent(k)' => Sent(k)
    BY <1>1 DEF Sent
  <2>2. \A k \in Transfer : Ack(k)' => Ack(k)
    BY DEF GiveUp, Quiet
  <2>3. \A k \in Transfer : k # i => SameStep(k)
    BY <1>1, <1>2, <1>4, <2>1, <2>2 DEF SameStep
  <2>4. InStep(Chunks[i], out'[i], inc'[i], job'["receiver"][i], Sent(i), Ack(i))
    <3>1. InStep(Chunks[i], out[i], inc[i], job["receiver"][i], Sent(i), Ack(i))
      BY DEF IInv, Steps
    <3>2. out'[i] = out[i] /\ inc[i].status # "completed"
      BY <1>1 DEF Active, Terminal
    <3> QED
      BY <1>1, <1>4, <3>1, <3>2 DEF InStep, Failed, Live
  <2>5. InStep(Chunks[i], out'[i], inc'[i], job'["receiver"][i], Sent(i)', Ack(i)')
    BY <2>1, <2>2, <2>4, InStepLess
  <2> QED
    BY <1>1, <2>3, <2>5, StepsFrame DEF IInv, Steps, GiveUp, Quiet
<1> QED
  BY <1>6, <1>7, <1>8, <1>9 DEF IInv

\* Messages are taken or lost, and nothing else changes that the invariant is about.
LEMMA NothingIInv ==
    ASSUME IInv, UNCHANGED <<out, inc, job, disk, open, cleanup, stopped, setting>>,
           DOMAIN control' = End, \A f \in End : control'[f] \in Seq(MessagesTo(f)), Quiet,
           data' \subseteq data, changed' \in [Transfer -> BOOLEAN], available' \in [End -> BOOLEAN]
    PROVE  IInv'
<1>1. Types'
  BY DEF IInv, Types, Chunks
<1>2. SenderWorks'
  BY DEF IInv, SenderWorks
<1>3. Files'
  <2>1. \A k \in Transfer : SameFile(k)
    BY DEF SameFile
  <2> QED
    BY <2>1, FilesFrame DEF IInv, Files
<1>4. Steps'
  <2>1. \A k \in Transfer : SameStep(k)
    BY DEF SameStep, Sent, Quiet
  <2> QED
    BY <2>1, StepsFrame DEF IInv, Steps, Quiet
<1> QED
  BY <1>1, <1>2, <1>3, <1>4 DEF IInv

\* The queues of control messages stay.
LEMMA QuietStays ==
    ASSUME Types, AckOnce, UNCHANGED <<control, setting>>
    PROVE  /\ DOMAIN control' = End /\ \A f \in End : control'[f] \in Seq(MessagesTo(f))
           /\ Quiet
BY DEF Types, AckOnce, Quiet, Ack, Chunks

\* The sender moves on to another record, with or without another worker, and nothing
\* else happens.
LEMMA SenderIInv ==
    ASSUME IInv, NEW i \in Transfer, NEW o \in OutgoingState, out' = [out EXCEPT ![i] = o],
           UNCHANGED <<inc, disk, open, cleanup, changed, stopped, setting>>,
           available' \in [End -> BOOLEAN],
           DOMAIN control' = End, \A f \in End : control'[f] \in Seq(MessagesTo(f)), Quiet,
           DOMAIN job' = End, \A f \in End : job'[f] \in [Transfer -> WorkersOf(f) \cup {NoJob}],
           \A k \in Transfer : job'["receiver"][k] = job["receiver"][k],
           \A k \in Transfer : k # i => job'["sender"][k] = job["sender"][k],
           Reads(job'["sender"][i], o.status),
           data' \subseteq [id : Transfer, content : Int],
           \A m1, m2 \in data' : m1.id = m2.id => m1 = m2,
           \A k \in Transfer : k # i => (Sent(k)' => Sent(k)),
           InStep(Chunks[i], o, inc[i], job["receiver"][i], Sent(i)', Ack(i)')
    PROVE  IInv'
<1>1. out \in [Transfer -> OutgoingState]
  BY DEF IInv, Types
<1>2. /\ out' \in [Transfer -> OutgoingState] /\ out'[i] = o
      /\ \A k \in Transfer : k # i => out'[k] = out[k]
  BY <1>1
<1>3. Types'
  BY <1>2 DEF IInv, Types, Chunks
<1>4. SenderWorks'
  BY <1>2 DEF IInv, SenderWorks
<1>5. Files'
  <2>1. \A k \in Transfer : SameFile(k)
    BY DEF SameFile
  <2> QED
    BY <2>1, FilesFrame DEF IInv, Files
<1>6. Steps'
  <2>1. \A k \in Transfer : k # i => SameStep(k)
    BY <1>2 DEF SameStep, Quiet
  <2>2. InStep(Chunks[i], out'[i], inc'[i], job'["receiver"][i], Sent(i)', Ack(i)')
    BY <1>2
  <2> QED
    BY <2>1, <2>2, StepsFrame DEF IInv, Quiet
<1> QED
  BY <1>3, <1>4, <1>5, <1>6 DEF IInv

\* startFileOffer
LEMMA StartFileOfferIInv ==
    ASSUME IInv, UNCHANGED setting, NEW i \in Transfer, StartFileOffer(i)
    PROVE  IInv'
<1> USE EndFacts
<1> DEFINE o == [out[i] EXCEPT !.status = "preparing", !.working = TRUE]
<1>1. out[i] \in OutgoingState /\ out[i].status = "none"
  BY DEF IInv, Types, StartFileOffer
<1>2. o \in OutgoingState /\ o.status = "preparing" /\ o.done = out[i].done
  BY <1>1 DEF OutgoingState
<1>3. out' = [out EXCEPT ![i] = o]
  BY DEF StartFileOffer, IInv, Types
<1> HIDE DEF o
<1>4. /\ DOMAIN job' = End
      /\ \A f \in End : job'[f] \in [Transfer -> WorkersOf(f) \cup {NoJob}]
      /\ job'["sender"][i] = Job("offer", 0, 0)
      /\ \A k \in Transfer : job'["receiver"][k] = job["receiver"][k]
                             /\ (k # i => job'["sender"][k] = job["sender"][k])
  BY WorkFacts, StartedFacts DEF IInv, StartFileOffer, Assigned
<1>5. Reads(job'["sender"][i], o.status)
  BY <1>2, <1>4, StartedFacts DEF Reads
<1>6. InStep(Chunks[i], o, inc[i], job["receiver"][i], Sent(i)', Ack(i)')
  <2>1. InStep(Chunks[i], out[i], inc[i], job["receiver"][i], Sent(i), Ack(i))
    BY DEF IInv, Steps
  <2>2. (Sent(i)' <=> Sent(i)) /\ (Ack(i)' <=> Ack(i))
    BY DEF Sent, Ack, StartFileOffer
  <2> QED
    BY <1>1, <1>2, <2>1, <2>2 DEF InStep
<1>7. /\ UNCHANGED <<inc, disk, open, cleanup, changed, stopped, data, control>>
      /\ available' \in [End -> BOOLEAN]
  BY DEF StartFileOffer, sides, IInv, Types
<1>8. \A k \in Transfer : Sent(k)' => Sent(k)
  BY <1>7 DEF Sent
<1>9. /\ DOMAIN control' = End /\ \A f \in End : control'[f] \in Seq(MessagesTo(f))
      /\ Quiet
  BY <1>7, QuietStays DEF IInv, Steps
<1>10. /\ data' \subseteq [id : Transfer, content : Int]
       /\ \A m1, m2 \in data' : m1.id = m2.id => m1 = m2
  BY <1>7 DEF IInv, Types, Steps
<1> QED
  BY <1>2, <1>3, <1>4, <1>5, <1>6, <1>7, <1>8, <1>9, <1>10, SenderIInv

\* fileWorkOffer
LEMMA HandleOfferResultIInv ==
    ASSUME IInv, UNCHANGED <<disk, open, changed, available, stopped, setting>>, NEW i \in Transfer,
           job["sender"][i] # NoJob, ~Terminal(out[i].status),
           job["sender"][i].kind = "offer", HandleOfferResult(i)
    PROVE  IInv'
<1> USE EndFacts
<1>1. out[i] \in OutgoingState /\ out[i].status = "preparing"
  BY DEF IInv, Types, SenderWorks, Reads
<1>2. PICK ok \in BOOLEAN :
         /\ QueueFileControl("sender", ok, "offer", i)
         /\ IF ok
            THEN out' = [out EXCEPT ![i].status = "offered", ![i].working = FALSE] /\ UNCHANGED data
            ELSE FinishOutgoing(i, "failed", 0)
  BY DEF HandleOfferResult
<1>3. /\ DOMAIN control' = End /\ \A f \in End : control'[f] \in Seq(MessagesTo(f))
      /\ Quiet
  <2>1. Msg("offer", i) \in MessagesTo("receiver")
    BY DEF Msg, MessagesTo
  <2> QED
    BY <1>2, <2>1, QueueQuiet DEF IInv, Steps
<1>4. /\ DOMAIN job' = End
      /\ \A f \in End : job'[f] \in [Transfer -> WorkersOf(f) \cup {NoJob}]
      /\ job'["sender"][i] = NoJob
      /\ \A k \in Transfer : job'["receiver"][k] = job["receiver"][k]
                             /\ (k # i => job'["sender"][k] = job["sender"][k])
  BY WorkFacts DEF IInv, HandleOfferResult, Assigned
<1>5. InStep(Chunks[i], out[i], inc[i], job["receiver"][i], Sent(i), Ack(i)) /\ out[i].done = 0
  <2>1. InStep(Chunks[i], out[i], inc[i], job["receiver"][i], Sent(i), Ack(i))
    BY DEF IInv, Steps
  <2> QED
    BY <1>1, <2>1 DEF InStep
<1>6. PICK o \in OutgoingState :
         /\ out' = [out EXCEPT ![i] = o] /\ o.done = 0
         /\ o.status = "failed" \/ o.status = "offered"
  <2>1. CASE ok
    <3> DEFINE o == [out[i] EXCEPT !.status = "offered", !.working = FALSE]
    <3>1. out' = [out EXCEPT ![i] = o]
      BY <1>2, <2>1 DEF IInv, Types
    <3>2. o \in OutgoingState /\ o.status = "offered" /\ o.done = 0
      BY <1>1, <1>5 DEF OutgoingState
    <3> QED
      BY <3>1, <3>2
  <2>2. CASE ~ok
    <3> DEFINE o == [status |-> "failed", done |-> 0, working |-> FALSE]
    <3>1. out' = [out EXCEPT ![i] = o]
      BY <1>2, <2>2 DEF FinishOutgoing
    <3>2. o \in OutgoingState /\ o.status = "failed" /\ o.done = 0
      BY DEF OutgoingState
    <3> QED
      BY <3>1, <3>2
  <2> QED
    BY <2>1, <2>2
<1>7. data' \subseteq data
  BY <1>2 DEF FinishOutgoing
<1>8. \A k \in Transfer : Sent(k)' => Sent(k)
  BY <1>7 DEF Sent
<1>9. InStep(Chunks[i], o, inc[i], job["receiver"][i], Sent(i)', Ack(i)')
  <2>1. Ack(i)' => Ack(i)
    BY <1>3 DEF Quiet
  <2> QED
    BY <1>1, <1>5, <1>6, <1>8, <2>1 DEF InStep
<1>10. UNCHANGED <<inc, cleanup>> /\ Reads(job'["sender"][i], o.status)
  BY <1>4 DEF HandleOfferResult, Reads
<1>11. /\ data' \subseteq [id : Transfer, content : Int]
       /\ \A m1, m2 \in data' : m1.id = m2.id => m1 = m2
       /\ available' \in [End -> BOOLEAN]
  BY <1>7 DEF IInv, Types, Steps
<1> QED
  BY <1>3, <1>4, <1>6, <1>8, <1>9, <1>10, <1>11, SenderIInv

\* fileWorkRead: the chunk that was being read is now on its way.
LEMMA HandleReadResultIInv ==
    ASSUME IInv, UNCHANGED <<disk, open, changed, available, stopped, setting>>, NEW i \in Transfer,
           job["sender"][i] # NoJob, ~Terminal(out[i].status),
           job["sender"][i].kind = "read", HandleReadResult(i)
    PROVE  IInv'
<1> USE EndFacts
<1>1. out[i] \in OutgoingState /\ out[i].status = "transferring"
  BY DEF IInv, Types, SenderWorks, Reads
<1>2. PICK ok \in BOOLEAN :
         IF ok
         THEN /\ data' = data \cup {[id |-> i, content |-> job["sender"][i].content]}
              /\ out' = [out EXCEPT ![i].status = "waiting", ![i].working = FALSE]
         ELSE FinishOutgoing(i, "failed", out[i].done)
  BY DEF HandleReadResult
<1>3. UNCHANGED <<inc, control, cleanup>>
  BY DEF HandleReadResult
<1>4. /\ DOMAIN control' = End /\ \A f \in End : control'[f] \in Seq(MessagesTo(f))
      /\ Quiet
  BY <1>3, QuietStays DEF IInv, Steps
<1>5. /\ DOMAIN job' = End
      /\ \A f \in End : job'[f] \in [Transfer -> WorkersOf(f) \cup {NoJob}]
      /\ job'["sender"][i] = NoJob
      /\ \A k \in Transfer : job'["receiver"][k] = job["receiver"][k]
                             /\ (k # i => job'["sender"][k] = job["sender"][k])
  BY WorkFacts DEF IInv, HandleReadResult, Assigned
<1>6. /\ InStep(Chunks[i], out[i], inc[i], job["receiver"][i], Sent(i), Ack(i))
      /\ ~Sent(i) /\ (Ack(i)' => Ack(i))
  <2>1. InStep(Chunks[i], out[i], inc[i], job["receiver"][i], Sent(i), Ack(i))
    BY DEF IInv, Steps
  <2> QED
    BY <1>1, <1>4, <2>1 DEF InStep, Quiet
<1>7. available' \in [End -> BOOLEAN]
  BY DEF IInv, Types
<1>8. CASE ok
  <2> DEFINE o == [out[i] EXCEPT !.status = "waiting", !.working = FALSE]
             m == [id |-> i, content |-> job["sender"][i].content]
  <2>1. out' = [out EXCEPT ![i] = o]
    BY <1>2, <1>8 DEF IInv, Types
  <2>2. o \in OutgoingState /\ o.status = "waiting" /\ o.done = out[i].done
    BY <1>1 DEF OutgoingState
  <2> HIDE DEF o
  <2>3. m \in [id : Transfer, content : Int] /\ m.id = i
    BY RecordFacts DEF IInv, Worker
  <2>4. data' = data \cup {m}
    BY <1>2, <1>8
  <2> HIDE DEF m
  <2>5. /\ data' \subseteq [id : Transfer, content : Int]
        /\ \A m1, m2 \in data' : m1.id = m2.id => m1 = m2
        /\ \A k \in Transfer : k # i => (Sent(k)' => Sent(k))
    BY <1>6, <2>3, <2>4 DEF IInv, Types, Steps, Sent
  <2>6. InStep(Chunks[i], o, inc[i], job["receiver"][i], Sent(i)', Ack(i)')
    BY <1>1, <1>6, <2>2 DEF InStep
  <2>7. Reads(job'["sender"][i], o.status)
    BY <1>5 DEF Reads
  <2> QED
    BY <1>3, <1>4, <1>5, <1>7, <2>1, <2>2, <2>5, <2>6, <2>7, SenderIInv
<1>9. CASE ~ok
  <2> DEFINE o == [status |-> "failed", done |-> out[i].done, working |-> FALSE]
  <2>1. out' = [out EXCEPT ![i] = o] /\ data' \subseteq data
    BY <1>2, <1>9 DEF FinishOutgoing
  <2>2. o \in OutgoingState /\ o.status = "failed" /\ o.done = out[i].done
    BY <1>1 DEF OutgoingState
  <2> HIDE DEF o
  <2>3. /\ data' \subseteq [id : Transfer, content : Int]
        /\ \A m1, m2 \in data' : m1.id = m2.id => m1 = m2
        /\ \A k \in Transfer : Sent(k)' => Sent(k)
    BY <2>1 DEF IInv, Types, Steps, Sent
  <2>4. InStep(Chunks[i], o, inc[i], job["receiver"][i], Sent(i)', Ack(i)')
    BY <1>1, <1>6, <2>2, <2>3 DEF InStep
  <2>5. Reads(job'["sender"][i], o.status)
    BY <1>5 DEF Reads
  <2> QED
    BY <1>3, <1>4, <1>5, <1>7, <2>1, <2>2, <2>3, <2>4, <2>5, SenderIInv
<1> QED
  BY <1>8, <1>9

\* A control message that the sender takes.
LEMMA TakenBySender ==
    ASSUME IInv, HandleFileControl("sender"), UNCHANGED setting
    PROVE  /\ DOMAIN control' = End /\ \A f \in End : control'[f] \in Seq(MessagesTo(f))
           /\ Quiet /\ Head(control["sender"]) \in MessagesTo("sender")
           /\ \A i \in Transfer : Head(control["sender"]) = Msg("ack", i) =>
                 Ack(i) /\ (Chunks[i] # 0 => ~Ack(i)')
           /\ UNCHANGED <<disk, open, changed, stopped>> /\ available' \in [End -> BOOLEAN]
<1>1. /\ control["sender"] # <<>>
      /\ control' = [control EXCEPT !["sender"] = Tail(control["sender"])]
      /\ UNCHANGED <<disk, open, changed, stopped, available>>
  BY DEF HandleFileControl, sides
<1>2. available' \in [End -> BOOLEAN]
  BY <1>1 DEF IInv, Types
<1> QED
  BY <1>1, <1>2, TakeQuiet, EndFacts DEF IInv, Steps

\* fileControlAccept
LEMMA HandleAcceptIInv ==
    ASSUME IInv, UNCHANGED setting, HandleFileControl("sender"), NEW i \in Transfer, HandleAccept(i)
    PROVE  IInv'
<1> USE EndFacts
<1>1. /\ DOMAIN control' = End /\ \A f \in End : control'[f] \in Seq(MessagesTo(f))
      /\ Quiet /\ UNCHANGED <<disk, open, changed, stopped>> /\ available' \in [End -> BOOLEAN]
  BY TakenBySender
<1>2. out[i] \in OutgoingState /\ out[i].status = "offered" /\ UNCHANGED <<inc, cleanup, data>>
  BY DEF IInv, Types, HandleAccept
<1>3. /\ data' \subseteq [id : Transfer, content : Int]
      /\ \A m1, m2 \in data' : m1.id = m2.id => m1 = m2
      /\ \A k \in Transfer : Sent(k)' => Sent(k)
  BY <1>2 DEF IInv, Types, Steps, Sent
<1>4. /\ InStep(Chunks[i], out[i], inc[i], job["receiver"][i], Sent(i), Ack(i))
      /\ (Ack(i)' => Ack(i)) /\ Chunks[i] \in Nat
  BY <1>1, RecordFacts DEF IInv, Steps, Quiet
<1>5. CASE Chunks[i] = 0
  <2> DEFINE o == [out[i] EXCEPT !.status = "waiting"]
  <2>1. out' = [out EXCEPT ![i] = o] /\ UNCHANGED job
    BY <1>5 DEF HandleAccept, IInv, Types
  <2>2. o \in OutgoingState /\ o.status = "waiting" /\ o.done = out[i].done
    BY <1>2 DEF OutgoingState
  <2> HIDE DEF o
  <2>3. InStep(Chunks[i], o, inc[i], job["receiver"][i], Sent(i)', Ack(i)')
    BY <1>2, <1>3, <1>4, <2>2 DEF InStep
  <2>4. /\ DOMAIN job' = End
        /\ \A f \in End : job'[f] \in [Transfer -> WorkersOf(f) \cup {NoJob}]
        /\ Reads(job'["sender"][i], o.status)
    BY <1>2, <2>1 DEF IInv, Types, SenderWorks, Reads, Terminal
  <2> QED
    BY <1>1, <1>2, <1>3, <2>1, <2>2, <2>3, <2>4, SenderIInv
<1>6. CASE Chunks[i] # 0
  <2> DEFINE o == [status |-> "transferring", done |-> 0, working |-> TRUE]
  <2>1. out' = [out EXCEPT ![i] = o] /\ StartFileWork("sender", i, Job("read", 1, 0))
    BY <1>6 DEF HandleAccept, ReadNextFileChunk
  <2>2. o \in OutgoingState /\ o.status = "transferring" /\ o.done = 0
    BY DEF OutgoingState
  <2> HIDE DEF o
  <2>3. /\ DOMAIN job' = End
        /\ \A f \in End : job'[f] \in [Transfer -> WorkersOf(f) \cup {NoJob}]
        /\ job'["sender"][i] = Job("read", 1, 0)
        /\ \A k \in Transfer : job'["receiver"][k] = job["receiver"][k]
                               /\ (k # i => job'["sender"][k] = job["sender"][k])
    BY <2>1, WorkFacts, StartedFacts DEF IInv, Assigned
  <2>4. Reads(job'["sender"][i], o.status)
    BY <2>2, <2>3, StartedFacts DEF Reads
  <2>5. InStep(Chunks[i], o, inc[i], job["receiver"][i], Sent(i)', Ack(i)')
    BY <1>2, <1>3, <1>4, <1>6, <2>2 DEF InStep
  <2> QED
    BY <1>1, <1>2, <1>3, <2>1, <2>2, <2>3, <2>4, <2>5, SenderIInv
<1> QED
  BY <1>5, <1>6

\* fileControlDataAck: the acknowledgment is of the chunk the sender is waiting for, and
\* the one after the last chunk is of a whole file.
LEMMA HandleDataAckIInv ==
    ASSUME IInv, UNCHANGED setting, HandleFileControl("sender"), NEW i \in Transfer,
           Head(control["sender"]) = Msg("ack", i), HandleDataAck(i)
    PROVE  IInv'
<1> USE EndFacts
<1> DEFINE done == IF Chunks[i] = 0 THEN 0 ELSE out[i].done + 1
<1>1. /\ DOMAIN control' = End /\ \A f \in End : control'[f] \in Seq(MessagesTo(f))
      /\ Quiet /\ UNCHANGED <<disk, open, changed, stopped>> /\ available' \in [End -> BOOLEAN]
      /\ Ack(i) /\ (Chunks[i] # 0 => ~Ack(i)')
  BY TakenBySender
<1>2. /\ out[i] \in OutgoingState /\ out[i].status = "waiting" /\ UNCHANGED <<inc, cleanup>>
      /\ data' \subseteq data
  BY DEF IInv, Types, HandleDataAck, FinishOutgoing
<1>3. /\ data' \subseteq [id : Transfer, content : Int]
      /\ \A m1, m2 \in data' : m1.id = m2.id => m1 = m2
      /\ \A k \in Transfer : Sent(k)' => Sent(k)
  BY <1>2 DEF IInv, Types, Steps, Sent
<1>4. /\ InStep(Chunks[i], out[i], inc[i], job["receiver"][i], Sent(i), Ack(i))
      /\ (Ack(i)' => Ack(i)) /\ Chunks[i] \in Nat /\ inc[i] \in IncomingState
  BY <1>1, RecordFacts DEF IInv, Steps, Quiet
<1>5. /\ done \in Nat /\ done = Len(inc[i].hashed) /\ done <= Chunks[i]
      /\ done = Chunks[i] => inc[i].status = "completed"
      /\ ~Sent(i) \/ Chunks[i] = 0
      /\ Chunks[i] # 0 => ~Live(inc[i], job["receiver"][i], "write")
      /\ ~Live(inc[i], job["receiver"][i], "finish")
  BY <1>1, <1>2, <1>4 DEF InStep, OutgoingState, IncomingState
<1>6. CASE done = Chunks[i]
  <2> DEFINE o == [status |-> "completed", done |-> done, working |-> FALSE]
  <2>1. out' = [out EXCEPT ![i] = o] /\ UNCHANGED job
    BY <1>6 DEF HandleDataAck, FinishOutgoing
  <2>2. o \in OutgoingState /\ o.status = "completed" /\ o.done = done
    BY <1>5 DEF OutgoingState
  <2> HIDE DEF o
  <2>3. InStep(Chunks[i], o, inc[i], job["receiver"][i], Sent(i)', Ack(i)')
    BY <1>1, <1>2, <1>3, <1>4, <1>5, <1>6, <2>2 DEF InStep, Live
  <2>4. /\ DOMAIN job' = End
        /\ \A f \in End : job'[f] \in [Transfer -> WorkersOf(f) \cup {NoJob}]
        /\ Reads(job'["sender"][i], o.status)
    BY <2>1, <2>2 DEF IInv, Types, Reads, Terminal
  <2> QED
    BY <1>1, <1>2, <1>3, <2>1, <2>2, <2>3, <2>4, SenderIInv
<1>7. CASE done # Chunks[i]
  <2> DEFINE o == [status |-> "transferring", done |-> done, working |-> TRUE]
  <2>1. out' = [out EXCEPT ![i] = o] /\ StartFileWork("sender", i, Job("read", done + 1, 0))
    BY <1>7 DEF HandleDataAck, ReadNextFileChunk
  <2>2. o \in OutgoingState /\ o.status = "transferring" /\ o.done = done
    BY <1>5 DEF OutgoingState
  <2> HIDE DEF o
  <2>3. /\ DOMAIN job' = End
        /\ \A f \in End : job'[f] \in [Transfer -> WorkersOf(f) \cup {NoJob}]
        /\ job'["sender"][i] = Job("read", done + 1, 0)
        /\ \A k \in Transfer : job'["receiver"][k] = job["receiver"][k]
                               /\ (k # i => job'["sender"][k] = job["sender"][k])
    BY <1>5, <2>1, WorkFacts, StartedFacts DEF IInv, Assigned
  <2>4. Reads(job'["sender"][i], o.status)
    BY <2>2, <2>3, StartedFacts DEF Reads
  <2>5. InStep(Chunks[i], o, inc[i], job["receiver"][i], Sent(i)', Ack(i)')
    BY <1>1, <1>2, <1>3, <1>4, <1>5, <1>7, <2>2 DEF InStep
  <2> QED
    BY <1>1, <1>2, <1>3, <2>1, <2>2, <2>3, <2>4, <2>5, SenderIInv
<1> QED
  BY <1>6, <1>7

-----------------------------------------------------------------------------

\* The receiver moves on with one transfer, and the disk stays as it is.
LEMMA ReceiverIInv ==
    ASSUME IInv, NEW i \in Transfer, NEW r \in IncomingState, inc' = [inc EXCEPT ![i] = r],
           UNCHANGED <<out, disk, open, changed, stopped, setting>>,
           "receiver" \in stopped => ~Active(r.status),
           available' \in [End -> BOOLEAN],
           NEW c \in {"none", "close", "remove"}, cleanup' = [cleanup EXCEPT ![i] = c],
           DOMAIN control' = End, \A f \in End : control'[f] \in Seq(MessagesTo(f)), AckOnce',
           \A k \in Transfer : k # i => (Ack(k)' => Ack(k)),
           NEW j \in WorkersOf("receiver") \cup {NoJob}, Assigned("receiver", i, j),
           data' \subseteq data,
           Consistent(Chunks[i], r, j, disk[i], open[i], c),
           InStep(Chunks[i], out[i], r, j, Sent(i)', Ack(i)')
    PROVE  IInv'
<1> USE EndFacts
<1>1. /\ DOMAIN job' = End
      /\ \A f \in End : job'[f] \in [Transfer -> WorkersOf(f) \cup {NoJob}]
      /\ job'["receiver"][i] = j
      /\ \A k \in Transfer : job'["sender"][k] = job["sender"][k]
                             /\ (k # i => job'["receiver"][k] = job["receiver"][k])
  BY DEF Assigned
<1>2. inc \in [Transfer -> IncomingState] /\ cleanup \in [Transfer -> {"none", "close", "remove"}]
  BY DEF IInv, Types
<1>3. /\ inc' \in [Transfer -> IncomingState] /\ inc'[i] = r
      /\ \A k \in Transfer : k # i => inc'[k] = inc[k]
  BY <1>2
<1>4. /\ cleanup' \in [Transfer -> {"none", "close", "remove"}] /\ cleanup'[i] = c
      /\ \A k \in Transfer : k # i => cleanup'[k] = cleanup[k]
  BY <1>2
<1>5. Types'
  BY <1>1, <1>3, <1>4 DEF IInv, Types, Chunks
<1>6. SenderWorks'
  BY <1>1 DEF IInv, SenderWorks
<1>7. Files'
  <2>1. \A k \in Transfer : k # i => SameFile(k)
    BY <1>1, <1>3, <1>4 DEF SameFile
  <2>2. Consistent(Chunks[i], inc'[i], job'["receiver"][i], disk'[i], open'[i], cleanup'[i])
    BY <1>1, <1>3, <1>4
  <2>3. "receiver" \in stopped' => \A k \in Transfer : ~Active(inc'[k].status)
    BY <1>3 DEF IInv, Files
  <2> QED
    BY <2>1, <2>2, <2>3, FilesFrame DEF IInv
<1>8. Steps'
  <2>1. \A k \in Transfer : Sent(k)' => Sent(k)
    BY DEF Sent
  <2>2. \A k \in Transfer : k # i => SameStep(k)
    BY <1>1, <1>3, <2>1 DEF SameStep
  <2>3. InStep(Chunks[i], out'[i], inc'[i], job'["receiver"][i], Sent(i)', Ack(i)')
    BY <1>1, <1>3
  <2>4. \A m1, m2 \in data' : m1.id = m2.id => m1 = m2
    BY DEF IInv, Steps
  <2> QED
    BY <2>2, <2>3, <2>4, StepsFrame DEF IInv
<1> QED
  BY <1>5, <1>6, <1>7, <1>8 DEF IInv

\* What is known of transfer i when the receiver handles something of it.
LEMMA ReceiverFacts ==
    ASSUME IInv, NEW i \in Transfer
    PROVE  /\ inc[i] \in IncomingState /\ Chunks[i] \in Nat /\ out[i] \in OutgoingState
           /\ Consistent(Chunks[i], inc[i], job["receiver"][i], disk[i], open[i], cleanup[i])
           /\ InStep(Chunks[i], out[i], inc[i], job["receiver"][i], Sent(i), Ack(i))
           /\ cleanup[i] \in {"none", "close", "remove"} /\ cleanup = [cleanup EXCEPT ![i] = cleanup[i]]
           /\ job["receiver"][i] \in WorkersOf("receiver") \cup {NoJob}
           /\ Len(inc[i].hashed) \in Nat
<1>1. cleanup \in [Transfer -> {"none", "close", "remove"}]
  BY DEF IInv, Types
<1>2. cleanup[i] \in {"none", "close", "remove"} /\ cleanup = [cleanup EXCEPT ![i] = cleanup[i]]
  BY <1>1
<1>3. job["receiver"][i] \in WorkersOf("receiver") \cup {NoJob}
  BY EndFacts DEF IInv, Types
<1>4. inc[i] \in IncomingState /\ Chunks[i] \in Nat /\ out[i] \in OutgoingState
  BY RecordFacts DEF IInv
<1>5. Len(inc[i].hashed) \in Nat
  BY <1>4 DEF IncomingState
<1>6. /\ Consistent(Chunks[i], inc[i], job["receiver"][i], disk[i], open[i], cleanup[i])
      /\ InStep(Chunks[i], out[i], inc[i], job["receiver"][i], Sent(i), Ack(i))
  BY DEF IInv, Files, Steps
<1> QED
  BY <1>2, <1>3, <1>4, <1>5, <1>6

\* acceptFile
LEMMA AcceptFileIInv ==
    ASSUME IInv, UNCHANGED setting, NEW i \in Transfer, AcceptFile(i)
    PROVE  IInv'
<1> DEFINE r == [inc[i] EXCEPT !.status = "accepting", !.working = TRUE]
           j == Job("create", 0, 0)
<1>1. /\ "receiver" \notin stopped /\ inc[i].status = "offered"
      /\ StartFileWork("receiver", i, j)
      /\ UNCHANGED <<out, disk, open, changed, stopped, data, control, cleanup, available>>
  BY DEF AcceptFile, sides
<1>2. inc' = [inc EXCEPT ![i] = r]
  BY DEF AcceptFile, IInv, Types
<1>3. /\ r \in IncomingState /\ r.status = "accepting" /\ r.hashed = inc[i].hashed
      /\ r.file = inc[i].file
  BY ReceiverFacts DEF IncomingState
<1>4. j \in WorkersOf("receiver") /\ j # NoJob /\ j.kind = "create" /\ j.state = "running"
  BY StartedFacts, EndFacts
<1>w. Assigned("receiver", i, j)
  BY <1>1, <1>4, WorkFacts, EndFacts DEF IInv
<1> HIDE DEF r, j
<1>5. Consistent(Chunks[i], r, j, disk[i], open[i], cleanup[i])
  BY <1>1, <1>3, <1>4, ReceiverFacts DEF Consistent, Created, Failed
<1>6. (Sent(i)' <=> Sent(i)) /\ (Ack(i)' <=> Ack(i))
  BY <1>1 DEF Sent, Ack
<1>7. InStep(Chunks[i], out[i], r, j, Sent(i)', Ack(i)')
  BY <1>1, <1>3, <1>4, <1>6, ReceiverFacts DEF InStep, Live
<1>8. /\ DOMAIN control' = End /\ \A f \in End : control'[f] \in Seq(MessagesTo(f))
      /\ AckOnce' /\ \A k \in Transfer : Ack(k)' => Ack(k)
  BY <1>1, QuietStays DEF IInv, Steps, Quiet
<1>9. available' \in [End -> BOOLEAN] /\ data' \subseteq data
  BY <1>1 DEF IInv, Types
<1>10. cleanup' = [cleanup EXCEPT ![i] = cleanup[i]] /\ cleanup[i] \in {"none", "close", "remove"}
  BY <1>1, ReceiverFacts
<1> QED
  BY <1>1, <1>2, <1>3, <1>4, <1>w, <1>5, <1>7, <1>8, <1>9, <1>10, ReceiverIInv

\* fileControlOffer
LEMMA HandleOfferIInv ==
    ASSUME IInv, UNCHANGED setting, HandleFileControl("receiver"), NEW i \in Transfer,
           inc[i].status = "none", inc' = [inc EXCEPT ![i].status = "offered"],
           UNCHANGED <<out, job, data, cleanup>>
    PROVE  IInv'
<1> USE EndFacts
<1> DEFINE r == [inc[i] EXCEPT !.status = "offered"]
           j == job["receiver"][i]
<1>1. /\ "receiver" \notin stopped /\ control["receiver"] # <<>>
      /\ control' = [control EXCEPT !["receiver"] = Tail(control["receiver"])]
      /\ UNCHANGED <<disk, open, changed, stopped, available>>
  BY DEF HandleFileControl, sides
<1>2. inc' = [inc EXCEPT ![i] = r]
  BY DEF IInv, Types
<1>3. /\ r \in IncomingState /\ r.status = "offered" /\ r.hashed = inc[i].hashed
      /\ r.file = inc[i].file
  BY ReceiverFacts DEF IncomingState
<1>4. Assigned("receiver", i, j)
  BY DEF IInv, Types, Assigned
<1>j. j \in WorkersOf("receiver") \cup {NoJob}
  BY ReceiverFacts
<1> HIDE DEF r
<1>5. Consistent(Chunks[i], r, j, disk[i], open[i], cleanup[i])
  BY <1>3, ReceiverFacts DEF Consistent, Failed
<1>6. /\ DOMAIN control' = End /\ \A f \in End : control'[f] \in Seq(MessagesTo(f))
      /\ AckOnce' /\ \A k \in Transfer : Ack(k)' => Ack(k)
  BY <1>1, TakeQuiet DEF IInv, Steps, Quiet
<1>7. InStep(Chunks[i], out[i], r, j, Sent(i)', Ack(i)')
  <2>1. (Sent(i)' <=> Sent(i)) /\ (Ack(i)' => Ack(i))
    BY <1>6 DEF Sent
  <2> QED
    BY <1>3, <2>1, ReceiverFacts DEF InStep, Live
<1>8. available' \in [End -> BOOLEAN] /\ data' \subseteq data
  BY <1>1 DEF IInv, Types
<1>9. cleanup' = [cleanup EXCEPT ![i] = cleanup[i]] /\ cleanup[i] \in {"none", "close", "remove"}
  BY ReceiverFacts
<1> HIDE DEF j
<1> QED
  BY <1>j, <1>1, <1>2, <1>3, <1>4, <1>5, <1>6, <1>7, <1>8, <1>9, ReceiverIInv

\* fileWorkCreate: the transfer starts with an open file of zeros, or the file goes again.
LEMMA HandleCreateResultIInv ==
    ASSUME IInv, UNCHANGED <<disk, open, changed, available, stopped, setting>>, NEW i \in Transfer,
           "receiver" \notin stopped, job["receiver"][i] # NoJob, ~Terminal(inc[i].status),
           job["receiver"][i].state = "ok", job["receiver"][i].kind = "create", HandleCreateResult(i)
    PROVE  IInv'
<1> USE EndFacts
<1>1. PICK ok \in BOOLEAN :
         /\ QueueFileControl("receiver", ok, "accept", i)
         /\ IF ok THEN /\ inc' = [inc EXCEPT ![i].status = "transferring", ![i].file = TRUE,
                                              ![i].working = (Chunks[i] = 0)]
                       /\ UNCHANGED <<data, cleanup>>
            ELSE /\ inc' = [inc EXCEPT ![i].status = "failed", ![i].working = FALSE]
                 /\ cleanup' = [cleanup EXCEPT ![i] = "remove"]
                 /\ data' \in SUBSET data
         /\ StartFileWork("receiver", i, IF ok /\ Chunks[i] = 0 THEN Job("finish", 0, 0) ELSE NoJob)
  BY DEF HandleCreateResult
<1>r. inc[i] \in IncomingState /\ Chunks[i] \in Nat
  BY ReceiverFacts
<1>2. /\ inc[i].status = "accepting" /\ disk[i] = Zeros(Chunks[i]) /\ cleanup[i] = "none"
      /\ ~inc[i].file
  BY ReceiverFacts DEF Consistent, Created, IncomingState, Terminal
<1>3. /\ DOMAIN control' = End /\ \A f \in End : control'[f] \in Seq(MessagesTo(f))
      /\ AckOnce' /\ \A k \in Transfer : Ack(k)' => Ack(k)
  <2>1. Msg("accept", i) \in MessagesTo("sender")
    BY DEF Msg, MessagesTo
  <2> QED
    BY <1>1, <2>1, QueueQuiet DEF IInv, Steps, Quiet
<1>4. data' \subseteq data /\ (Sent(i)' => Sent(i)) /\ UNCHANGED out /\ available' \in [End -> BOOLEAN]
  BY <1>1 DEF Sent, HandleCreateResult, IInv, Types
<1>5. CASE ok
  <2> DEFINE r == [inc[i] EXCEPT !.status = "transferring", !.file = TRUE,
                                 !.working = (Chunks[i] = 0)]
             j == IF Chunks[i] = 0 THEN Job("finish", 0, 0) ELSE NoJob
  <2>1. inc' = [inc EXCEPT ![i] = r]
    BY <1>1, <1>5 DEF IInv, Types
  <2>2. /\ r \in IncomingState /\ r.status = "transferring" /\ r.hashed = inc[i].hashed
        /\ r.file /\ (Chunks[i] = 0 => r.working)
    BY <1>r DEF IncomingState
  <2>3. /\ j \in WorkersOf("receiver") \cup {NoJob}
        /\ j # NoJob => j.kind = "finish" /\ j.state = "running" /\ Chunks[i] = 0
    BY StartedFacts
  <2>4. Assigned("receiver", i, j)
    BY <1>1, <1>5, <2>3, WorkFacts DEF IInv
  <2> HIDE DEF r, j
  <2>5. Len(r.hashed) <= Chunks[i] /\ r.hashed \in Seq(Int) /\ Len(r.hashed) = 0
    <3>1. Len(inc[i].hashed) <= Chunks[i] /\ inc[i].hashed \in Seq(Int)
      BY ReceiverFacts DEF InStep, IncomingState
    <3>2. inc[i].hashed = <<>>
      BY <1>2, ReceiverFacts DEF Consistent
    <3> QED
      BY <2>2, <3>1, <3>2
  <2>6. Consistent(Chunks[i], r, j, disk[i], open[i], "none")
    <3>1. disk[i] \in [1 .. Chunks[i] -> Int]
      BY <1>2, ReceiverFacts DEF Zeros
    <3>2. Chunks[i] = 0 => r.hashed = Numbers(Chunks[i])
      BY <2>5 DEF Numbers
    <3>3. \A k \in 1 .. Chunks[i] : k <= Len(r.hashed) => disk[i][k] = r.hashed[k]
      BY <2>5
    <3> QED
      BY <2>2, <2>3, <3>1, <3>2, <3>3 DEF Consistent, Failed
  <2>7. InStep(Chunks[i], out[i], r, j, Sent(i)', Ack(i)')
    <3>1. Live(r, j, "finish") => Chunks[i] = 0
      BY <2>3 DEF Live
    <3>2. ~Live(r, j, "write")
      BY <2>3 DEF Live
    <3> QED
      BY <1>2, <1>3, <1>4, <2>2, <3>1, <3>2, ReceiverFacts DEF InStep
  <2>8. cleanup' = [cleanup EXCEPT ![i] = "none"]
    BY <1>1, <1>2, <1>5, ReceiverFacts
  <2> QED
    BY <1>3, <1>4, <2>1, <2>2, <2>3, <2>4, <2>6, <2>7, <2>8, ReceiverIInv
<1>6. CASE ~ok
  <2> DEFINE r == [inc[i] EXCEPT !.status = "failed", !.working = FALSE]
  <2>1. inc' = [inc EXCEPT ![i] = r] /\ cleanup' = [cleanup EXCEPT ![i] = "remove"]
    BY <1>1, <1>6 DEF IInv, Types
  <2>2. r \in IncomingState /\ r.status = "failed" /\ r.hashed = inc[i].hashed /\ ~r.file
    BY <1>r, <1>2 DEF IncomingState
  <2>3. Assigned("receiver", i, NoJob)
    BY <1>1, <1>6, WorkFacts DEF IInv
  <2> HIDE DEF r
  <2>4. Consistent(Chunks[i], r, NoJob, disk[i], open[i], "remove")
    BY <1>2, <2>2 DEF Consistent, Failed, Zeros
  <2>5. InStep(Chunks[i], out[i], r, NoJob, Sent(i)', Ack(i)')
    BY <1>2, <1>3, <1>4, <2>2, ReceiverFacts DEF InStep, Live
  <2> QED
    BY <1>3, <1>4, <2>1, <2>2, <2>3, <2>4, <2>5, ReceiverIInv
<1> QED
  BY <1>5, <1>6

\* fileWorkFinish: what is completed is whole, and only now is the last chunk acknowledged.
LEMMA HandleFinishResultIInv ==
    ASSUME IInv, UNCHANGED <<disk, open, changed, available, stopped, setting>>, NEW i \in Transfer,
           "receiver" \notin stopped, job["receiver"][i] # NoJob, ~Terminal(inc[i].status),
           job["receiver"][i].state = "ok", job["receiver"][i].kind = "finish", HandleFinishResult(i)
    PROVE  IInv'
<1> USE EndFacts
<1>1. PICK ok \in BOOLEAN :
         /\ QueueFileControl("receiver", ok, "ack", i)
         /\ inc' = [inc EXCEPT ![i].status = IF ok THEN "completed" ELSE "failed",
                               ![i].working = FALSE, ![i].file = FALSE]
  BY DEF HandleFinishResult
<1>r. inc[i] \in IncomingState /\ Chunks[i] \in Nat
  BY ReceiverFacts
<1>2. /\ inc[i].status = "transferring" /\ inc[i].hashed = Numbers(Chunks[i]) /\ ~open[i]
      /\ cleanup[i] = "none" /\ disk[i] \in [1 .. Chunks[i] -> Int]
      /\ \A k \in 1 .. Chunks[i] : k <= Len(inc[i].hashed) => disk[i][k] = inc[i].hashed[k]
  BY ReceiverFacts DEF Consistent, IncomingState, Terminal
<1>3. /\ Len(inc[i].hashed) = Chunks[i] /\ ~Ack(i)
      /\ Chunks[i] # 0 => Len(inc[i].hashed) = out[i].done + 1
  BY <1>2, ReceiverFacts DEF InStep, Live
<1>4. disk[i] = Numbers(Chunks[i])
  <2>1. \A k \in 1 .. Chunks[i] : inc[i].hashed[k] = k
    BY <1>2 DEF Numbers
  <2>2. \A k \in 1 .. Chunks[i] : disk[i][k] = k
    BY <1>r, <1>2, <1>3, <2>1
  <2> QED
    BY <1>2, <2>2 DEF Numbers
<1>5. /\ data' \subseteq data /\ (Sent(i)' => Sent(i)) /\ UNCHANGED <<out, cleanup>>
      /\ available' \in [End -> BOOLEAN] /\ StartFileWork("receiver", i, NoJob)
  BY DEF Sent, HandleFinishResult, IInv, Types
<1>6. Assigned("receiver", i, NoJob)
  BY <1>5, WorkFacts DEF IInv
<1>7. cleanup' = [cleanup EXCEPT ![i] = "none"]
  BY <1>2, <1>5, ReceiverFacts
<1> DEFINE r == [inc[i] EXCEPT !.status = IF ok THEN "completed" ELSE "failed",
                               !.working = FALSE, !.file = FALSE]
<1>8. inc' = [inc EXCEPT ![i] = r]
  BY <1>1 DEF IInv, Types
<1>9. /\ r \in IncomingState /\ r.status = (IF ok THEN "completed" ELSE "failed")
      /\ r.hashed = inc[i].hashed /\ ~r.file
  BY <1>r DEF IncomingState
<1> HIDE DEF r
<1>10. Consistent(Chunks[i], r, NoJob, disk[i], open[i], "none")
  BY <1>2, <1>4, <1>9 DEF Consistent, Failed
<1>11. ~Active(r.status)
  BY <1>9 DEF Active, Terminal
<1>12. CASE ok
  <2>1. control' = [control EXCEPT !["sender"] = Append(control["sender"], Msg("ack", i))]
    BY <1>1, <1>12 DEF QueueFileControl
  <2>2. /\ DOMAIN control' = End /\ \A f \in End : control'[f] \in Seq(MessagesTo(f))
        /\ AckOnce' /\ \A k \in Transfer : k # i => (Ack(k)' => Ack(k))
    BY <1>3, <2>1, QueueAck DEF IInv, Steps
  <2>3. InStep(Chunks[i], out[i], r, NoJob, Sent(i)', Ack(i)')
    BY <1>2, <1>3, <1>5, <1>9, <1>12, ReceiverFacts DEF InStep, Live
  <2> QED
    BY <1>5, <1>6, <1>7, <1>8, <1>9, <1>10, <1>11, <2>2, <2>3, ReceiverIInv
<1>13. CASE ~ok
  <2>1. UNCHANGED control
    BY <1>1, <1>13 DEF QueueFileControl
  <2>2. /\ DOMAIN control' = End /\ \A f \in End : control'[f] \in Seq(MessagesTo(f))
        /\ AckOnce' /\ \A k \in Transfer : Ack(k)' => Ack(k)
    BY <2>1, QuietStays DEF IInv, Steps, Quiet
  <2>3. InStep(Chunks[i], out[i], r, NoJob, Sent(i)', Ack(i)')
    BY <1>2, <1>3, <1>5, <1>9, <1>13, <2>2, ReceiverFacts DEF InStep, Live
  <2> QED
    BY <1>5, <1>6, <1>7, <1>8, <1>9, <1>10, <1>11, <2>2, <2>3, ReceiverIInv
<1> QED
  BY <1>12, <1>13

\* fileWorkWrite: what is hashed is what is on the disk.
LEMMA HandleWriteResultIInv ==
    ASSUME IInv, UNCHANGED <<disk, open, changed, available, stopped, setting>>, NEW i \in Transfer,
           "receiver" \notin stopped, job["receiver"][i] # NoJob, ~Terminal(inc[i].status),
           job["receiver"][i].state = "ok", job["receiver"][i].kind = "write", HandleWriteResult(i)
    PROVE  IInv'
<1> USE EndFacts
<1> DEFINE x == job["receiver"][i].content
           n == Len(inc[i].hashed)
           h == Append(inc[i].hashed, x)
<1>r. /\ inc[i] \in IncomingState /\ Chunks[i] \in Nat /\ n \in Nat /\ inc[i].hashed \in Seq(Int)
      /\ out[i] \in OutgoingState /\ out[i].done \in Nat
  BY ReceiverFacts DEF IncomingState, OutgoingState
<1>x. x \in Int
  BY RecordFacts DEF IInv, Worker
<1>1. /\ inc[i].status = "transferring" /\ job["receiver"][i].at = n + 1
      /\ cleanup[i] = "none" /\ disk[i] \in [1 .. Chunks[i] -> Int] /\ inc[i].file
      /\ \A k \in 1 .. Chunks[i] : k <= n => disk[i][k] = inc[i].hashed[k]
      /\ n + 1 <= Chunks[i] => disk[i][n + 1] = x
  BY ReceiverFacts DEF Consistent, IncomingState, Terminal
<1>2. /\ n = out[i].done /\ n < Chunks[i] /\ ~Sent(i) /\ ~Ack(i)
      /\ out[i].status \notin {"none", "preparing", "offered", "transferring", "completed"}
  <2>1. Live(inc[i], job["receiver"][i], "write")
    BY <1>1 DEF Live
  <2> QED
    BY <1>r, <1>1, <2>1, ReceiverFacts DEF InStep
<1>3. /\ h \in Seq(Int) /\ Len(h) = n + 1 /\ h[n + 1] = x
      /\ \A k \in 1 .. n : h[k] = inc[i].hashed[k]
  BY <1>r, <1>x, AppendProperties
<1>4. \A k \in 1 .. Chunks[i] : k <= Len(h) => disk[i][k] = h[k]
  <2> HIDE DEF h, n, x
  <2> SUFFICES ASSUME NEW k \in 1 .. Chunks[i], k <= n + 1
               PROVE  disk[i][k] = h[k]
    BY <1>3
  <2>1. CASE k <= n
    BY <1>r, <1>1, <1>3, <2>1
  <2>2. CASE k = n + 1
    BY <1>r, <1>1, <1>3, <2>2
  <2> QED
    BY <1>r, <2>1, <2>2
<1>5. /\ UNCHANGED out /\ available' \in [End -> BOOLEAN]
  BY DEF HandleWriteResult, IInv, Types
<1>6. CASE /\ Len(h) = Chunks[i] /\ DigestMatches(i, h)
           /\ inc' = [[inc EXCEPT ![i].hashed = h, ![i].working = FALSE] EXCEPT ![i].working = TRUE]
           /\ StartFileWork("receiver", i, Job("finish", 0, 0))
           /\ UNCHANGED <<control, data, cleanup>>
  <2> DEFINE r == [inc[i] EXCEPT !.hashed = h, !.working = TRUE]
             j == Job("finish", 0, 0)
  <2>1. inc' = [inc EXCEPT ![i] = r]
    BY <1>6 DEF IInv, Types, IncomingState
  <2>2. /\ r \in IncomingState /\ r.status = "transferring" /\ r.hashed = h /\ r.file /\ r.working
    BY <1>r, <1>1, <1>3 DEF IncomingState
  <2>3. j \in WorkersOf("receiver") /\ j.kind = "finish" /\ j.state = "running"
    BY StartedFacts
  <2>4. Assigned("receiver", i, j)
    BY <1>6, <2>3, WorkFacts DEF IInv
  <2> HIDE DEF r, j, h
  <2>5. Consistent(Chunks[i], r, j, disk[i], open[i], "none")
    <3>1. h = Numbers(Chunks[i])
      BY <1>6 DEF DigestMatches, Numbers
    <3> QED
      BY <1>1, <1>4, <2>2, <2>3, <3>1 DEF Consistent, Failed
  <2>6. /\ DOMAIN control' = End /\ \A f \in End : control'[f] \in Seq(MessagesTo(f))
        /\ AckOnce' /\ \A k \in Transfer : Ack(k)' => Ack(k)
    BY <1>6, QuietStays DEF IInv, Steps, Quiet
  <2>7. ~Sent(i)' /\ ~Ack(i)'
    BY <1>2, <1>6, <2>6 DEF Sent
  <2>8. InStep(Chunks[i], out[i], r, j, Sent(i)', Ack(i)')
    BY <1>r, <1>2, <1>3, <1>6, <2>2, <2>3, <2>7 DEF InStep, Live
  <2>9. cleanup' = [cleanup EXCEPT ![i] = "none"] /\ data' \subseteq data
    BY <1>1, <1>6, ReceiverFacts
  <2> QED
    BY <1>5, <2>1, <2>2, <2>3, <2>4, <2>5, <2>6, <2>8, <2>9, ReceiverIInv
<1>7. ASSUME inc' = [[inc EXCEPT ![i].hashed = h, ![i].working = FALSE]
                       EXCEPT ![i].status = "failed", ![i].file = FALSE],
             cleanup' = [cleanup EXCEPT ![i] = "remove"], data' \in SUBSET data,
             StartFileWork("receiver", i, NoJob),
             DOMAIN control' = End, \A f \in End : control'[f] \in Seq(MessagesTo(f)), Quiet
      PROVE  IInv'
  <2> DEFINE r == [inc[i] EXCEPT !.hashed = h, !.working = FALSE, !.status = "failed", !.file = FALSE]
  <2>1. inc' = [inc EXCEPT ![i] = r]
    BY <1>7 DEF IInv, Types, IncomingState
  <2>2. r \in IncomingState /\ r.status = "failed" /\ r.hashed = h /\ ~r.file
    BY <1>r, <1>3 DEF IncomingState
  <2>3. Assigned("receiver", i, NoJob)
    BY <1>7, WorkFacts DEF IInv
  <2> HIDE DEF r, h
  <2>4. Consistent(Chunks[i], r, NoJob, disk[i], open[i], "remove")
    BY <1>1, <2>2 DEF Consistent, Failed
  <2>5. data' \subseteq data /\ ~Sent(i)' /\ AckOnce' /\ \A k \in Transfer : Ack(k)' => Ack(k)
    BY <1>2, <1>7 DEF Sent, Quiet
  <2>6. InStep(Chunks[i], out[i], r, NoJob, Sent(i)', Ack(i)')
    BY <1>r, <1>2, <1>3, <2>2, <2>5 DEF InStep, Live
  <2> QED
    BY <1>5, <1>7, <2>1, <2>2, <2>3, <2>4, <2>5, <2>6, ReceiverIInv
<1>8. CASE /\ Len(h) # Chunks[i]
           /\ control' = [control EXCEPT !["sender"] = Append(control["sender"], Msg("ack", i))]
           /\ inc' = [inc EXCEPT ![i].hashed = h, ![i].working = FALSE]
           /\ StartFileWork("receiver", i, NoJob)
           /\ UNCHANGED <<data, cleanup>>
  <2> DEFINE r == [inc[i] EXCEPT !.hashed = h, !.working = FALSE]
  <2>1. inc' = [inc EXCEPT ![i] = r]
    BY <1>8 DEF IInv, Types, IncomingState
  <2>2. r \in IncomingState /\ r.status = "transferring" /\ r.hashed = h /\ r.file
    BY <1>r, <1>1, <1>3 DEF IncomingState
  <2>3. Assigned("receiver", i, NoJob)
    BY <1>8, WorkFacts DEF IInv
  <2> HIDE DEF r, h
  <2>4. Consistent(Chunks[i], r, NoJob, disk[i], open[i], "none")
    BY <1>1, <1>4, <2>2 DEF Consistent, Failed
  <2>5. /\ DOMAIN control' = End /\ \A f \in End : control'[f] \in Seq(MessagesTo(f))
        /\ AckOnce' /\ \A k \in Transfer : k # i => (Ack(k)' => Ack(k))
    BY <1>2, <1>8, QueueAck DEF IInv, Steps
  <2>6. ~Sent(i)'
    BY <1>2, <1>8 DEF Sent
  <2>7. InStep(Chunks[i], out[i], r, NoJob, Sent(i)', Ack(i)')
    BY <1>r, <1>2, <1>3, <1>8, <2>2, <2>6 DEF InStep, Live
  <2>8. cleanup' = [cleanup EXCEPT ![i] = "none"] /\ data' \subseteq data
    BY <1>1, <1>8, ReceiverFacts
  <2> QED
    BY <1>5, <2>1, <2>2, <2>3, <2>4, <2>5, <2>7, <2>8, ReceiverIInv
<1>9. ASSUME NEW ok \in BOOLEAN, QueueFileControl("receiver", ok, "cancel", i)
      PROVE  /\ DOMAIN control' = End /\ \A f \in End : control'[f] \in Seq(MessagesTo(f))
             /\ Quiet
  <2>1. Msg("cancel", i) \in MessagesTo("sender")
    BY DEF Msg, MessagesTo
  <2> QED
    BY <1>9, <2>1, QueueQuiet DEF IInv, Steps
<1>10. CASE /\ Len(h) = Chunks[i] /\ ~DigestMatches(i, h)
            /\ \E ok \in BOOLEAN : QueueFileControl("receiver", ok, "cancel", i)
            /\ inc' = [[inc EXCEPT ![i].hashed = h, ![i].working = FALSE]
                         EXCEPT ![i].status = "failed", ![i].file = FALSE]
            /\ cleanup' = [cleanup EXCEPT ![i] = "remove"] /\ data' \in SUBSET data
            /\ StartFileWork("receiver", i, NoJob)
  BY <1>7, <1>9, <1>10
<1>11. CASE /\ QueueFileControl("receiver", FALSE, "ack", i)
            /\ inc' = [[inc EXCEPT ![i].hashed = h, ![i].working = FALSE]
                         EXCEPT ![i].status = "failed", ![i].file = FALSE]
            /\ cleanup' = [cleanup EXCEPT ![i] = "remove"] /\ data' \in SUBSET data
            /\ StartFileWork("receiver", i, NoJob)
  <2>1. UNCHANGED control
    BY <1>11 DEF QueueFileControl
  <2> QED
    BY <1>7, <1>11, <2>1, QuietStays DEF IInv, Steps
<1> QED
  BY <1>6, <1>8, <1>10, <1>11 DEF HandleWriteResult, QueueFileControl

\* The chunk of a transfer that is waiting for one arrives.
LEMMA HandleFileDataIInv ==
    ASSUME IInv, UNCHANGED setting, HandleFileData
    PROVE  IInv'
<1> USE EndFacts
<1>1. PICK m \in data :
         /\ data' = data \ {m}
         /\ IF inc[m.id].status = "transferring" /\ ~inc[m.id].working
            THEN /\ inc' = [inc EXCEPT ![m.id].working = TRUE]
                 /\ StartFileWork("receiver", m.id,
                        Job("write", Len(inc[m.id].hashed) + 1, m.content))
            ELSE UNCHANGED <<inc, job>>
  BY DEF HandleFileData
<1>2. /\ UNCHANGED <<out, control, disk, open, cleanup, changed, available, stopped>>
      /\ "receiver" \notin stopped
  BY DEF HandleFileData, sides
<1>3. /\ DOMAIN control' = End /\ \A f \in End : control'[f] \in Seq(MessagesTo(f))
      /\ Quiet
  BY <1>2, QuietStays DEF IInv, Steps
<1>4. data' \subseteq data /\ changed' \in [Transfer -> BOOLEAN] /\ available' \in [End -> BOOLEAN]
  BY <1>1, <1>2 DEF IInv, Types
<1> DEFINE i == m.id
<1>5. i \in Transfer /\ m.content \in Int
  BY DEF IInv, Types
<1>6. CASE inc[i].status = "transferring" /\ ~inc[i].working
  <2> DEFINE r == [inc[i] EXCEPT !.working = TRUE]
             j == Job("write", Len(inc[i].hashed) + 1, m.content)
  <2>1. Sent(i) /\ ~Sent(i)'
    BY <1>1 DEF Sent, IInv, Steps
  <2> HIDE DEF i
  <2>2. inc[i] \in IncomingState /\ Len(inc[i].hashed) \in Nat /\ Chunks[i] \in Nat
    BY <1>5, ReceiverFacts
  <2>3. inc' = [inc EXCEPT ![i] = r]
    BY <1>1, <1>6 DEF IInv, Types, i
  <2>4. /\ r \in IncomingState /\ r.status = "transferring" /\ r.hashed = inc[i].hashed
        /\ r.file = inc[i].file /\ r.working
    BY <1>6, <2>2 DEF IncomingState
  <2>5. /\ j \in WorkersOf("receiver") /\ j.kind = "write" /\ j.at = Len(inc[i].hashed) + 1
        /\ j.state = "running"
    <3>1. Len(inc[i].hashed) + 1 \in Nat
      BY <2>2
    <3> HIDE DEF i
    <3>2. j \in WorkersOf("receiver")
      BY <1>5, <3>1, StartedFacts
    <3> QED
      BY <3>2, StartedFacts
  <2>6. StartFileWork("receiver", i, j)
    BY <1>1, <1>6 DEF i
  <2>7. Assigned("receiver", i, j)
    BY <1>5, <2>5, <2>6, WorkFacts DEF IInv
  <2> HIDE DEF r, j
  <2>8. Consistent(Chunks[i], r, j, disk[i], open[i], cleanup[i])
    BY <1>5, <1>6, <2>4, <2>5, ReceiverFacts DEF Consistent, Failed
  <2>9. InStep(Chunks[i], out[i], r, j, Sent(i)', Ack(i)')
    <3>1. InStep(Chunks[i], out[i], inc[i], job["receiver"][i], Sent(i), Ack(i))
      BY <1>5, ReceiverFacts
    <3>2. Ack(i)' => Ack(i)
      BY <1>3, <1>5 DEF Quiet
    <3> QED
      BY <1>6, <2>1, <2>2, <2>4, <2>5, <3>1, <3>2 DEF InStep, Live
  <2>10. cleanup' = [cleanup EXCEPT ![i] = cleanup[i]] /\ cleanup[i] \in {"none", "close", "remove"}
    BY <1>2, <1>5, ReceiverFacts
  <2>11. AckOnce' /\ \A k \in Transfer : Ack(k)' => Ack(k)
    BY <1>3 DEF Quiet
  <2> QED
    BY <1>2, <1>3, <1>4, <1>5, <2>3, <2>4, <2>5, <2>7, <2>8, <2>9, <2>10, <2>11, ReceiverIInv
<1>7. CASE ~(inc[i].status = "transferring" /\ ~inc[i].working)
  <2>1. UNCHANGED <<inc, job>>
    BY <1>1, <1>7
  <2> QED
    BY <1>2, <1>3, <1>4, <2>1, NothingIInv
<1> QED
  BY <1>6, <1>7

-----------------------------------------------------------------------------

\* A worker that ended after its transfer did.
LEMMA HandleLateResultIInv ==
    ASSUME IInv, UNCHANGED <<disk, open, changed, available, stopped, setting>>,
           NEW e \in End, NEW i \in Transfer, job[e][i] # NoJob, Terminal(StatusAt(e, i)),
           HandleLateResult(e, i)
    PROVE  IInv'
<1> USE EndFacts
<1>1. UNCHANGED <<out, inc, control, data>> /\ StartFileWork(e, i, NoJob)
  BY DEF HandleLateResult
<1>2. Assigned(e, i, NoJob)
  BY <1>1, WorkFacts DEF IInv
<1>3. /\ DOMAIN control' = End /\ \A f \in End : control'[f] \in Seq(MessagesTo(f))
      /\ Quiet
  BY <1>1, QuietStays DEF IInv, Steps
<1>4. /\ data' \subseteq data /\ available' \in [End -> BOOLEAN]
      /\ \A k \in Transfer : Sent(k)' => Sent(k)
  BY <1>1 DEF IInv, Types, Sent
<1>5. CASE e = "sender"
  <2>1. UNCHANGED cleanup
    <3>1. job["sender"][i].kind # "create"
      BY <1>5, RecordFacts DEF IInv
    <3> QED
      BY <1>5, <3>1 DEF HandleLateResult
  <2>2. /\ DOMAIN job' = End
        /\ \A f \in End : job'[f] \in [Transfer -> WorkersOf(f) \cup {NoJob}]
        /\ job'["sender"][i] = NoJob
        /\ \A k \in Transfer : job'["receiver"][k] = job["receiver"][k]
                               /\ (k # i => job'["sender"][k] = job["sender"][k])
    BY <1>2, <1>5 DEF Assigned
  <2> DEFINE o == out[i]
  <2>3. out' = [out EXCEPT ![i] = o] /\ o \in OutgoingState
    BY <1>1 DEF IInv, Types
  <2>4. Reads(job'["sender"][i], o.status)
    BY <2>2 DEF Reads
  <2>5. InStep(Chunks[i], o, inc[i], job["receiver"][i], Sent(i)', Ack(i)')
    BY <1>3, <1>4, InStepLess DEF IInv, Steps, Quiet
  <2>6. /\ data' \subseteq [id : Transfer, content : Int]
        /\ \A m1, m2 \in data' : m1.id = m2.id => m1 = m2
    BY <1>1 DEF IInv, Types, Steps
  <2>7. UNCHANGED <<inc, disk, open, cleanup, changed, stopped, setting>>
    BY <1>1, <2>1
  <2> HIDE DEF o
  <2> QED
    BY <1>3, <1>4, <2>2, <2>3, <2>4, <2>5, <2>6, <2>7, SenderIInv
<1>6. CASE e = "receiver"
  <2> DEFINE r == inc[i]
  <2>1. r \in IncomingState /\ inc' = [inc EXCEPT ![i] = r]
    BY <1>1 DEF IInv, Types
  <2>2. r.status \in Failed
    <3>1. Terminal(r.status)
      BY <1>6 DEF StatusAt
    <3> QED
      BY <1>6, <3>1, ReceiverFacts DEF Consistent, Terminal, Failed
  <2>3. Assigned("receiver", i, NoJob) /\ job["receiver"][i] # NoJob
    BY <1>2, <1>6
  <2>4. PICK c \in {"none", "close", "remove"} :
           /\ cleanup' = [cleanup EXCEPT ![i] = c]
           /\ c = IF job["receiver"][i].kind = "create" /\ job["receiver"][i].state = "ok"
                  THEN "close" ELSE cleanup[i]
    BY <1>6, ReceiverFacts DEF HandleLateResult
  <2>5. Consistent(Chunks[i], r, NoJob, disk[i], open[i], c)
    <3>1. job["receiver"][i] \in Worker
      BY <2>3, RecordFacts DEF IInv
    <3> QED
      BY <2>2, <2>3, <2>4, <3>1, ReceiverFacts DEF Consistent, Created, Failed
  <2>6. InStep(Chunks[i], out[i], r, NoJob, Sent(i)', Ack(i)')
    <3>1. Ack(i)' => Ack(i)
      BY <1>3 DEF Quiet
    <3> QED
      BY <1>4, <2>2, <3>1, ReceiverFacts DEF InStep, Live, Failed
  <2>7. ~Active(r.status)
    BY <2>2 DEF Active, Terminal, Failed
  <2>8. AckOnce' /\ \A k \in Transfer : Ack(k)' => Ack(k)
    BY <1>3 DEF Quiet
  <2> HIDE DEF r
  <2>9. UNCHANGED <<out, disk, open, changed, stopped, setting>>
    BY <1>1
  <2> QED
    BY <1>3, <1>4, <2>1, <2>3, <2>4, <2>5, <2>6, <2>7, <2>8, <2>9, ReceiverIInv
<1> QED
  BY <1>5, <1>6

\* The destination file of transfer i is now f, and the others are what they were.
Stored(i, f) ==
    /\ DOMAIN disk' = Transfer /\ disk'[i] = f
    /\ \A k \in Transfer : k # i => disk'[k] = disk[k]

\* A worker of the receiver, or what closes its files, touches the disk for one transfer.
LEMMA DiskIInv ==
    ASSUME IInv, NEW i \in Transfer,
           UNCHANGED <<out, inc, control, data, changed, available, stopped, setting>>,
           NEW j \in WorkersOf("receiver") \cup {NoJob}, Assigned("receiver", i, j),
           j # NoJob => job["receiver"][i] # NoJob /\ j.kind = job["receiver"][i].kind,
           NEW f \in [1 .. Chunks[i] -> Int] \cup {NoFile}, Stored(i, f),
           NEW o \in BOOLEAN, open' = [open EXCEPT ![i] = o],
           NEW c \in {"none", "close", "remove"}, cleanup' = [cleanup EXCEPT ![i] = c],
           Consistent(Chunks[i], inc[i], j, f, o, c)
    PROVE  IInv'
<1> USE EndFacts
<1>1. /\ DOMAIN job' = End
      /\ \A e \in End : job'[e] \in [Transfer -> WorkersOf(e) \cup {NoJob}]
      /\ job'["receiver"][i] = j
      /\ \A k \in Transfer : job'["sender"][k] = job["sender"][k]
                             /\ (k # i => job'["receiver"][k] = job["receiver"][k])
  BY DEF Assigned
<1>2. /\ DOMAIN disk' = Transfer /\ disk'[i] = f
      /\ \A k \in Transfer : k # i => disk'[k] = disk[k]
  BY DEF Stored
<1>3. /\ open' \in [Transfer -> BOOLEAN] /\ open'[i] = o
      /\ \A k \in Transfer : k # i => open'[k] = open[k]
  BY DEF IInv, Types
<1>4. /\ cleanup' \in [Transfer -> {"none", "close", "remove"}] /\ cleanup'[i] = c
      /\ \A k \in Transfer : k # i => cleanup'[k] = cleanup[k]
  BY DEF IInv, Types
<1>5. Types'
  <2>1. \A k \in Transfer : disk'[k] \in [1 .. Chunks[k] -> Int] \cup {NoFile}
    BY <1>2 DEF IInv, Types
  <2> QED
    BY <1>1, <1>2, <1>3, <1>4, <2>1 DEF IInv, Types, Chunks
<1>6. SenderWorks'
  BY <1>1 DEF IInv, SenderWorks
<1>7. Files'
  <2>1. \A k \in Transfer : k # i => SameFile(k)
    BY <1>1, <1>2, <1>3, <1>4 DEF SameFile
  <2>2. Consistent(Chunks[i], inc'[i], job'["receiver"][i], disk'[i], open'[i], cleanup'[i])
    BY <1>1, <1>2, <1>3, <1>4
  <2> QED
    BY <2>1, <2>2, FilesFrame DEF IInv, Files
<1>8. Steps'
  <2>1. (\A k \in Transfer : Sent(k)' <=> Sent(k)) /\ Quiet
    BY QuietStays DEF Sent, IInv, Steps
  <2>2. \A k \in Transfer : k # i => SameStep(k)
    BY <1>1, <2>1 DEF SameStep, Quiet
  <2>3. InStep(Chunks[i], out'[i], inc'[i], job'["receiver"][i], Sent(i), Ack(i))
    BY <1>1, ReceiverFacts DEF InStep, Live
  <2>4. InStep(Chunks[i], out'[i], inc'[i], job'["receiver"][i], Sent(i)', Ack(i)')
    BY <2>1, <2>3, InStepLess DEF Quiet
  <2>5. \A m1, m2 \in data' : m1.id = m2.id => m1 = m2
    BY DEF IInv, Steps
  <2> QED
    BY <2>1, <2>2, <2>4, <2>5, StepsFrame DEF IInv, Quiet
<1> QED
  BY <1>5, <1>6, <1>7, <1>8 DEF IInv

\* What a worker leaves behind.
Ran(e, i, j) ==
    /\ Assigned(e, i, j) /\ j \in WorkersOf(e)
    /\ job[e][i] # NoJob /\ j.kind = job[e][i].kind /\ j.at = job[e][i].at
    /\ job[e][i].state = "running"
    /\ \/ j.state = "error" /\ UNCHANGED <<disk, open>>
       \/ j.state = "ok" /\ j.kind \in {"offer", "read"} /\ UNCHANGED <<disk, open>>
       \/ /\ j.state = "ok" /\ j.kind = "create"
          /\ disk' = [disk EXCEPT ![i] = Zeros(Chunks[i])] /\ open' = [open EXCEPT ![i] = TRUE]
       \/ /\ j.state = "ok" /\ j.kind = "write" /\ open[i]
          /\ disk' = [disk EXCEPT ![i] = [disk[i] EXCEPT ![j.at] = j.content]] /\ UNCHANGED open
       \/ /\ j.state = "ok" /\ j.kind = "finish"
          /\ open' = [open EXCEPT ![i] = FALSE] /\ UNCHANGED disk

\* How a worker ended is noted, and what it read.
Ended(w, how) == [w EXCEPT !.state = how]
Found(w, x) == [w EXCEPT !.content = x]

\* It stays a worker of its end, for the same work.
LEMMA WorkerFacts ==
    ASSUME NEW e \in End, NEW w \in WorkersOf(e)
    PROVE  /\ \A how \in {"ok", "error"} :
                 /\ Ended(w, how) \in WorkersOf(e)
                 /\ Ended(w, how).kind = w.kind /\ Ended(w, how).at = w.at
                 /\ Ended(w, how).content = w.content /\ Ended(w, how).state = how
           /\ \A x \in Int :
                 /\ Found(w, x) \in WorkersOf(e)
                 /\ Found(w, x).kind = w.kind /\ Found(w, x).at = w.at
                 /\ Found(w, x).state = w.state
<1>1. w \in Worker
  BY DEF WorkersOf
<1>2. ASSUME NEW how \in {"ok", "error"}
      PROVE  /\ Ended(w, how) \in Worker
             /\ Ended(w, how).kind = w.kind /\ Ended(w, how).at = w.at
             /\ Ended(w, how).content = w.content /\ Ended(w, how).state = how
  BY <1>1 DEF Worker, Ended
<1>3. ASSUME NEW x \in Int
      PROVE  /\ Found(w, x) \in Worker
             /\ Found(w, x).kind = w.kind /\ Found(w, x).at = w.at
             /\ Found(w, x).state = w.state
  BY <1>1 DEF Worker, Found
<1> QED
  BY <1>2, <1>3 DEF WorkersOf

\* A worker runs to its end or fails.
LEMMA RunFacts ==
    ASSUME Types, NEW e \in End, NEW i \in Transfer, RunFileWork(e, i)
    PROVE  \E j : Ran(e, i, j)
<1>1. PICK old \in WorkersOf(e) : old = job[e][i] /\ old # NoJob /\ old.state = "running"
                                 /\ old.at \in Nat
  BY DEF RunFileWork, Types, WorkersOf, Worker
<1> DEFINE bad == Ended(old, "error")
           good == Ended(old, "ok")
           read == Found(good, IF changed[i] THEN -old.at ELSE old.at)
<1>2. bad \in WorkersOf(e) /\ bad.kind = old.kind /\ bad.at = old.at /\ bad.state = "error"
  BY WorkerFacts
<1>3. /\ good \in WorkersOf(e) /\ good.kind = old.kind /\ good.at = old.at /\ good.state = "ok"
      /\ good.content = old.content
  BY WorkerFacts
<1>4. read \in WorkersOf(e) /\ read.kind = old.kind /\ read.at = old.at /\ read.state = "ok"
  <2> DEFINE x == IF changed[i] THEN -old.at ELSE old.at
  <2>1. x \in Int
    BY <1>1
  <2> HIDE DEF good, x
  <2>2. /\ Found(good, x) \in WorkersOf(e) /\ Found(good, x).kind = good.kind
        /\ Found(good, x).at = good.at /\ Found(good, x).state = good.state
    BY <1>3, <2>1, WorkerFacts
  <2> QED
    BY <1>3, <2>2 DEF x
<1>5. [job EXCEPT ![e][i].state = "error"] = [job EXCEPT ![e][i] = bad]
  BY <1>1 DEF Ended
<1>6. [job EXCEPT ![e][i].state = "ok"] = [job EXCEPT ![e][i] = good]
  BY <1>1 DEF Ended
<1>7. [[job EXCEPT ![e][i].state = "ok"] EXCEPT ![e][i].content = IF changed[i] THEN -old.at ELSE old.at]
      = [job EXCEPT ![e][i] = read]
  <2> HIDE DEF good
  <2>1. DOMAIN job = End /\ DOMAIN job[e] = Transfer
    BY DEF Types
  <2>2. [job EXCEPT ![e][i] = good][e][i] = good
    BY <2>1
  <2> QED
    BY <1>6, <2>1, <2>2 DEF Found
<1> HIDE DEF bad, good, read
<1>8. open[i] \in BOOLEAN /\ (~open[i] => [open EXCEPT ![i] = FALSE] = open)
  BY DEF Types
<1>9. ASSUME NEW j \in WorkersOf(e), job' = [job EXCEPT ![e][i] = j]
      PROVE  Assigned(e, i, j)
  BY <1>9, WorkFacts DEF StartFileWork
<1>10. [disk EXCEPT ![i][old.at] = old.content] = [disk EXCEPT ![i] = [disk[i] EXCEPT ![old.at] = old.content]]
  OBVIOUS
<1>11. /\ job' = [job EXCEPT ![e][i] = bad] => Assigned(e, i, bad)
       /\ job' = [job EXCEPT ![e][i] = good] => Assigned(e, i, good)
       /\ job' = [job EXCEPT ![e][i] = read] => Assigned(e, i, read)
  BY <1>2, <1>3, <1>4, <1>9
<1> HIDE DEF Assigned
<1>12. CASE job' = [job EXCEPT ![e][i] = bad] /\ UNCHANGED <<disk, open>>
  BY <1>1, <1>2, <1>11, <1>12 DEF Ran
<1>13. CASE old.kind = "offer" /\ job' = [job EXCEPT ![e][i] = good] /\ UNCHANGED <<disk, open>>
  BY <1>1, <1>3, <1>11, <1>13 DEF Ran
<1>14. CASE old.kind = "read" /\ job' = [job EXCEPT ![e][i] = read] /\ UNCHANGED <<disk, open>>
  BY <1>1, <1>4, <1>11, <1>14 DEF Ran
<1>15. CASE /\ old.kind = "create" /\ job' = [job EXCEPT ![e][i] = good]
            /\ disk' = [disk EXCEPT ![i] = Zeros(Chunks[i])] /\ open' = [open EXCEPT ![i] = TRUE]
  BY <1>1, <1>3, <1>11, <1>15 DEF Ran
<1>16. CASE /\ old.kind = "write" /\ job' = [job EXCEPT ![e][i] = good] /\ open[i]
            /\ disk' = [disk EXCEPT ![i][old.at] = old.content] /\ UNCHANGED open
  BY <1>1, <1>3, <1>10, <1>11, <1>16 DEF Ran
<1>17. CASE /\ old.kind = "finish" /\ job' = [job EXCEPT ![e][i] = good]
            /\ open' = [open EXCEPT ![i] = FALSE] /\ UNCHANGED disk
  BY <1>1, <1>3, <1>11, <1>17 DEF Ran
<1>18. \/ job' = [job EXCEPT ![e][i] = bad] /\ UNCHANGED <<disk, open>>
       \/ old.kind = "offer" /\ job' = [job EXCEPT ![e][i] = good] /\ UNCHANGED <<disk, open>>
       \/ old.kind = "read" /\ job' = [job EXCEPT ![e][i] = read] /\ UNCHANGED <<disk, open>>
       \/ /\ old.kind = "create" /\ job' = [job EXCEPT ![e][i] = good]
          /\ disk' = [disk EXCEPT ![i] = Zeros(Chunks[i])] /\ open' = [open EXCEPT ![i] = TRUE]
       \/ /\ old.kind = "write" /\ job' = [job EXCEPT ![e][i] = good] /\ open[i]
          /\ disk' = [disk EXCEPT ![i][old.at] = old.content] /\ UNCHANGED open
       \/ /\ old.kind = "finish" /\ job' = [job EXCEPT ![e][i] = good]
          /\ open' = [open EXCEPT ![i] = FALSE] /\ UNCHANGED disk
  BY <1>1, <1>5, <1>6, <1>7, <1>8 DEF RunFileWork, Zeros
<1> QED
  BY <1>12, <1>13, <1>14, <1>15, <1>16, <1>17, <1>18

\* A worker reads the source file, or makes the destination file, writes or closes it.
LEMMA RunFileWorkIInv ==
    ASSUME IInv, UNCHANGED setting, NEW e \in End, NEW i \in Transfer, RunFileWork(e, i)
    PROVE  IInv'
<1> USE EndFacts
<1>1. UNCHANGED <<out, inc, control, data, cleanup, changed, available, stopped>>
  BY DEF RunFileWork, sides
<1>2. PICK j : Ran(e, i, j)
  BY RunFacts DEF IInv
<1>3. CASE e = "sender"
  <2> DEFINE o == out[i]
  <2>1. job["sender"][i].kind \in {"offer", "read"} /\ job["sender"][i] # NoJob
    BY <1>2, <1>3, RecordFacts DEF Ran, IInv
  <2>2. UNCHANGED <<disk, open>> /\ j.kind = job["sender"][i].kind
    BY <1>2, <1>3, <2>1 DEF Ran
  <2>3. /\ DOMAIN job' = End
        /\ \A f \in End : job'[f] \in [Transfer -> WorkersOf(f) \cup {NoJob}]
        /\ job'["sender"][i] = j
        /\ \A k \in Transfer : job'["receiver"][k] = job["receiver"][k]
                               /\ (k # i => job'["sender"][k] = job["sender"][k])
    BY <1>2, <1>3 DEF Ran, Assigned
  <2>4. out' = [out EXCEPT ![i] = o] /\ o \in OutgoingState
    BY <1>1 DEF IInv, Types
  <2>5. Reads(job'["sender"][i], o.status)
    BY <2>1, <2>2, <2>3 DEF Reads, IInv, SenderWorks
  <2>6. /\ DOMAIN control' = End /\ \A f \in End : control'[f] \in Seq(MessagesTo(f))
        /\ Quiet
    BY <1>1, QuietStays DEF IInv, Steps
  <2>7. \A k \in Transfer : Sent(k)' => Sent(k)
    BY <1>1 DEF Sent
  <2>8. InStep(Chunks[i], o, inc[i], job["receiver"][i], Sent(i)', Ack(i)')
    BY <2>6, <2>7, InStepLess DEF IInv, Steps, Quiet
  <2>9. /\ data' \subseteq [id : Transfer, content : Int]
        /\ \A m1, m2 \in data' : m1.id = m2.id => m1 = m2
        /\ available' \in [End -> BOOLEAN]
    BY <1>1 DEF IInv, Types, Steps
  <2>10. UNCHANGED <<inc, disk, open, cleanup, changed, stopped, setting>>
    BY <1>1, <2>2
  <2> HIDE DEF o
  <2> QED
    BY <2>3, <2>4, <2>5, <2>6, <2>7, <2>8, <2>9, <2>10, SenderIInv
<1>4. CASE e = "receiver"
  <2>1. /\ Assigned("receiver", i, j) /\ j \in WorkersOf("receiver") /\ job["receiver"][i] # NoJob
        /\ j.kind = job["receiver"][i].kind /\ j.at = job["receiver"][i].at
        /\ job["receiver"][i].state = "running"
    BY <1>2, <1>4 DEF Ran
  <2>2. j \in Worker /\ j # NoJob /\ j.at \in Nat /\ j.content \in Int
        /\ j.kind \in {"create", "write", "finish"}
    BY <2>1, StartedFacts DEF Worker, WorkersOf
  <2>3. /\ Consistent(Chunks[i], inc[i], job["receiver"][i], disk[i], open[i], cleanup[i])
        /\ cleanup[i] \in {"none", "close", "remove"} /\ cleanup' = [cleanup EXCEPT ![i] = cleanup[i]]
        /\ inc[i] \in IncomingState /\ Len(inc[i].hashed) \in Nat /\ Chunks[i] \in Nat
    BY <1>1, ReceiverFacts
  <2>4. /\ (UNCHANGED disk => Stored(i, disk[i])) /\ open = [open EXCEPT ![i] = open[i]]
        /\ disk[i] \in [1 .. Chunks[i] -> Int] \cup {NoFile} /\ open[i] \in BOOLEAN
        /\ \A f : disk' = [disk EXCEPT ![i] = f] => Stored(i, f)
    BY DEF IInv, Types, Stored
  <2>5. ASSUME NEW f \in [1 .. Chunks[i] -> Int] \cup {NoFile}, Stored(i, f),
               NEW o \in BOOLEAN, open' = [open EXCEPT ![i] = o],
               Consistent(Chunks[i], inc[i], j, f, o, cleanup[i])
        PROVE  IInv'
    <3>1. j # NoJob => job["receiver"][i] # NoJob /\ j.kind = job["receiver"][i].kind
      BY <2>1
    <3> DEFINE c == cleanup[i]
    <3>2. c \in {"none", "close", "remove"} /\ cleanup' = [cleanup EXCEPT ![i] = c]
          /\ Consistent(Chunks[i], inc[i], j, f, o, c)
      BY <2>3, <2>5
    <3> HIDE DEF c
    <3>3. UNCHANGED <<out, inc, control, data, changed, available, stopped, setting>>
      BY <1>1
    <3> QED
      BY <2>1, <2>5, <3>1, <3>2, <3>3, DiskIInv, ZenonT(60)
  <2>6. CASE j.state = "error" /\ UNCHANGED <<disk, open>>
    <3>1. Consistent(Chunks[i], inc[i], j, disk[i], open[i], cleanup[i])
      BY <2>1, <2>2, <2>3, <2>6 DEF Consistent, Created, Failed
    <3> QED
      BY <2>4, <2>5, <2>6, <3>1
  <2>7. CASE /\ j.state = "ok" /\ j.kind = "create"
             /\ disk' = [disk EXCEPT ![i] = Zeros(Chunks[i])] /\ open' = [open EXCEPT ![i] = TRUE]
    <3>1. Zeros(Chunks[i]) \in [1 .. Chunks[i] -> Int]
      BY DEF Zeros
    <3>2. Consistent(Chunks[i], inc[i], j, Zeros(Chunks[i]), TRUE, cleanup[i])
      BY <2>1, <2>2, <2>3, <2>7, <3>1 DEF Consistent, Created, Failed
    <3> QED
      BY <2>4, <2>5, <2>7, <3>1, <3>2
  <2>8. CASE /\ j.state = "ok" /\ j.kind = "write" /\ open[i]
             /\ disk' = [disk EXCEPT ![i] = [disk[i] EXCEPT ![j.at] = j.content]] /\ UNCHANGED open
    <3>1. disk[i] \in [1 .. Chunks[i] -> Int]
          /\ (inc[i].status = "transferring" \/ (inc[i].status \in Failed /\ cleanup[i] = "remove"))
      <4>1. /\ inc[i].status \notin {"none", "offered", "accepting", "completed"}
            /\ inc[i].status \in Failed => cleanup[i] \notin {"none", "close"}
        BY <2>1, <2>2, <2>3, <2>8 DEF Consistent
      <4>2. inc[i].status = "transferring" \/ (inc[i].status \in Failed /\ cleanup[i] = "remove")
        BY <2>3, <4>1 DEF IncomingState, Failed
      <4> QED
        BY <2>3, <2>8, <4>2 DEF Consistent
    <3> DEFINE f == [disk[i] EXCEPT ![j.at] = j.content]
    <3>2. /\ f \in [1 .. Chunks[i] -> Int]
          /\ \A k \in 1 .. Chunks[i] : k # j.at => f[k] = disk[i][k]
          /\ j.at \in 1 .. Chunks[i] => f[j.at] = j.content
      BY <2>2, <3>1
    <3> HIDE DEF f
    <3>3. Consistent(Chunks[i], inc[i], j, f, open[i], cleanup[i])
      <4>1. CASE inc[i].status = "transferring"
        <5>1. /\ inc[i].file /\ cleanup[i] = "none" /\ inc[i].working
              /\ \A k \in 1 .. Chunks[i] : k <= Len(inc[i].hashed) => disk[i][k] = inc[i].hashed[k]
              /\ j.at = Len(inc[i].hashed) + 1
          BY <2>1, <2>2, <2>3, <2>8, <4>1 DEF Consistent
        <5>2. \A k \in 1 .. Chunks[i] : k <= Len(inc[i].hashed) => f[k] = inc[i].hashed[k]
          BY <2>3, <3>2, <5>1
        <5>3. j.at <= Chunks[i] => f[j.at] = j.content
          BY <2>3, <3>2, <5>1
        <5> QED
          BY <2>2, <2>8, <3>2, <4>1, <5>1, <5>2, <5>3 DEF Consistent, Failed
      <4>2. CASE inc[i].status \in Failed /\ cleanup[i] = "remove"
        BY <2>2, <2>3, <2>8, <3>2, <4>2 DEF Consistent, Failed
      <4> QED
        BY <3>1, <4>1, <4>2
    <3>4. Stored(i, f) /\ open' = [open EXCEPT ![i] = open[i]]
      BY <2>4, <2>8 DEF f
    <3> QED
      BY <2>4, <2>5, <3>2, <3>3, <3>4
  <2>9. CASE /\ j.state = "ok" /\ j.kind = "finish"
             /\ open' = [open EXCEPT ![i] = FALSE] /\ UNCHANGED disk
    <3>1. Consistent(Chunks[i], inc[i], j, disk[i], FALSE, cleanup[i])
      BY <2>1, <2>2, <2>3, <2>9 DEF Consistent, Failed
    <3> QED
      BY <2>4, <2>5, <2>9, <3>1
  <2> QED
    BY <1>2, <2>2, <2>6, <2>7, <2>8, <2>9 DEF Ran
<1> QED
  BY <1>3, <1>4

\* The goroutine of closePartialFile leaves no file, or the empty one it was to close.
LEMMA ClosePartialFileIInv ==
    ASSUME IInv, UNCHANGED setting, NEW i \in Transfer, ClosePartialFile(i)
    PROVE  IInv'
<1> USE EndFacts
<1> DEFINE j == job["receiver"][i]
           f == IF cleanup[i] = "remove" THEN NoFile ELSE disk[i]
<1>1. /\ cleanup[i] # "none" /\ open' = [open EXCEPT ![i] = FALSE]
      /\ cleanup' = [cleanup EXCEPT ![i] = "none"]
      /\ UNCHANGED <<out, inc, job, control, data, changed, available, stopped>>
  BY DEF ClosePartialFile, sides
<1>2. Stored(i, f) /\ f \in [1 .. Chunks[i] -> Int] \cup {NoFile}
  BY DEF ClosePartialFile, IInv, Types, Stored
<1>3. Assigned("receiver", i, j) /\ j \in WorkersOf("receiver") \cup {NoJob}
  BY <1>1 DEF IInv, Types, Assigned
<1>4. inc[i].status \in Failed
  BY <1>1, ReceiverFacts DEF Consistent, IncomingState, Failed
<1>5. ~inc[i].file
  BY <1>4, ReceiverFacts DEF Consistent, Failed, IncomingState
<1>6. Consistent(Chunks[i], inc[i], j, f, FALSE, "none")
  BY <1>1, <1>4, <1>5, ReceiverFacts DEF Consistent, Failed
<1> HIDE DEF f, j
<1>7. j # NoJob => job["receiver"][i] # NoJob /\ j.kind = job["receiver"][i].kind
  BY DEF j
<1> QED
  BY <1>1, <1>2, <1>3, <1>6, <1>7, DiskIInv

\* A worker of a client that has stopped: nothing of it is in use any more.
LEMMA DiscardFileWorkResultIInv ==
    ASSUME IInv, UNCHANGED setting, NEW e \in End, NEW i \in Transfer, DiscardFileWorkResult(e, i)
    PROVE  IInv'
<1> USE EndFacts
<1> DEFINE made == job[e][i].kind = "create" /\ job[e][i].state = "ok"
<1>1. /\ e \in stopped /\ job[e][i] # NoJob /\ StartFileWork(e, i, NoJob)
      /\ job[e][i].state # "running"
      /\ UNCHANGED <<out, inc, control, data, cleanup, changed, available, stopped>>
      /\ open' = IF made THEN [open EXCEPT ![i] = FALSE] ELSE open
      /\ disk' \in IF made THEN {disk, [disk EXCEPT ![i] = NoFile]} ELSE {disk}
  BY DEF DiscardFileWorkResult, sides
<1>2. Assigned(e, i, NoJob)
  BY <1>1, WorkFacts DEF IInv
<1>3. CASE e = "sender"
  <2> DEFINE o == out[i]
  <2>1. UNCHANGED <<disk, open>>
    <3>1. job["sender"][i].kind # "create"
      BY <1>1, <1>3, RecordFacts DEF IInv
    <3> QED
      BY <1>1, <1>3, <3>1
  <2>2. /\ DOMAIN job' = End
        /\ \A f \in End : job'[f] \in [Transfer -> WorkersOf(f) \cup {NoJob}]
        /\ job'["sender"][i] = NoJob
        /\ \A k \in Transfer : job'["receiver"][k] = job["receiver"][k]
                               /\ (k # i => job'["sender"][k] = job["sender"][k])
    BY <1>2, <1>3 DEF Assigned
  <2>3. out' = [out EXCEPT ![i] = o] /\ o \in OutgoingState
    BY <1>1 DEF IInv, Types
  <2>4. Reads(job'["sender"][i], o.status)
    BY <2>2 DEF Reads
  <2>5. /\ DOMAIN control' = End /\ \A f \in End : control'[f] \in Seq(MessagesTo(f))
        /\ Quiet
    BY <1>1, QuietStays DEF IInv, Steps
  <2>6. \A k \in Transfer : Sent(k)' => Sent(k)
    BY <1>1 DEF Sent
  <2>7. InStep(Chunks[i], o, inc[i], job["receiver"][i], Sent(i)', Ack(i)')
    BY <2>5, <2>6, InStepLess DEF IInv, Steps, Quiet
  <2>8. /\ data' \subseteq [id : Transfer, content : Int]
        /\ \A m1, m2 \in data' : m1.id = m2.id => m1 = m2
        /\ available' \in [End -> BOOLEAN]
    BY <1>1 DEF IInv, Types, Steps
  <2>9. UNCHANGED <<inc, disk, open, cleanup, changed, stopped, setting>>
    BY <1>1, <2>1
  <2> HIDE DEF o
  <2> QED
    BY <2>2, <2>3, <2>4, <2>5, <2>6, <2>7, <2>8, <2>9, SenderIInv
<1>4. CASE e = "receiver"
  <2>1. inc[i].status \in Failed
    <3>1. ~Active(inc[i].status)
      BY <1>1, <1>4 DEF IInv, Files
    <3> QED
      BY <1>1, <1>4, <3>1, ReceiverFacts DEF Consistent, Active, Terminal, Failed
  <2>2. job["receiver"][i] # NoJob /\ job["receiver"][i] \in Worker
    BY <1>1, <1>4, RecordFacts DEF IInv
  <2>3. PICK f \in {disk[i], NoFile} : Stored(i, f) /\ (~made => f = disk[i])
    BY <1>1 DEF IInv, Types, Stored
  <2>4. PICK o \in BOOLEAN : /\ open' = [open EXCEPT ![i] = o]
                             /\ o = IF made THEN FALSE ELSE open[i]
    BY <1>1, ZenonT(60) DEF IInv, Types
  <2>5. Consistent(Chunks[i], inc[i], NoJob, f, o, cleanup[i])
    BY <1>1, <1>4, <2>1, <2>2, <2>3, <2>4, ReceiverFacts DEF Consistent, Created, Failed
  <2>6. f \in [1 .. Chunks[i] -> Int] \cup {NoFile}
    BY <2>3 DEF IInv, Types
  <2> DEFINE c == cleanup[i]
  <2>7. /\ cleanup' = [cleanup EXCEPT ![i] = c] /\ c \in {"none", "close", "remove"}
        /\ Consistent(Chunks[i], inc[i], NoJob, f, o, c)
    BY <1>1, <2>5, ReceiverFacts
  <2>8. Assigned("receiver", i, NoJob)
    BY <1>2, <1>4
  <2> HIDE DEF c
  <2>9. UNCHANGED <<out, inc, control, data, changed, available, stopped, setting>>
    BY <1>1
  <2> DEFINE j == NoJob
  <2>10. /\ j \in WorkersOf("receiver") \cup {NoJob} /\ j = NoJob
         /\ Assigned("receiver", i, j) /\ Consistent(Chunks[i], inc[i], j, f, o, c)
    BY <2>7, <2>8
  <2>11. Stored(i, f) /\ open' = [open EXCEPT ![i] = o] /\ cleanup' = [cleanup EXCEPT ![i] = c]
         /\ c \in {"none", "close", "remove"}
    BY <2>3, <2>4, <2>7
  <2> HIDE DEF j, made
  <2> QED
    BY <2>6, <2>9, <2>10, <2>11, DiskIInv
<1> QED
  BY <1>3, <1>4

\* stopFileTransfers ends all that is in use, and removes the files that are open.
LEMMA StopFileTransfersIInv ==
    ASSUME IInv, UNCHANGED setting, NEW e \in End, StopFileTransfers(e)
    PROVE  IInv'
<1> USE EndFacts
<1>1. /\ stopped' = stopped \cup {e} /\ data' \subseteq data
      /\ UNCHANGED <<job, control, disk, open, changed, available>>
  BY DEF StopFileTransfers
<1>2. /\ DOMAIN control' = End /\ \A f \in End : control'[f] \in Seq(MessagesTo(f))
      /\ AckOnce' /\ \A k \in Transfer : Ack(k)' => Ack(k)
  BY <1>1, QuietStays DEF IInv, Steps, Quiet
<1>3. /\ \A k \in Transfer : Sent(k)' => Sent(k)
      /\ \A m1, m2 \in data' : m1.id = m2.id => m1 = m2
  BY <1>1 DEF Sent, IInv, Steps
<1>4. CASE e = "sender"
  <2>1. /\ UNCHANGED <<inc, cleanup>>
        /\ out' = [k \in Transfer |-> IF Active(out[k].status)
                     THEN [out[k] EXCEPT !.status = "canceled", !.working = FALSE] ELSE out[k]]
    BY <1>4 DEF StopFileTransfers
  <2>2. ASSUME NEW k \in Transfer
        PROVE  /\ out'[k] \in OutgoingState /\ out'[k].done = out[k].done
               /\ out'[k] = out[k] \/ out'[k].status = "canceled"
    <3>1. out[k] \in OutgoingState
      BY DEF IInv, Types
    <3>2. /\ [out[k] EXCEPT !.status = "canceled", !.working = FALSE] \in OutgoingState
          /\ [out[k] EXCEPT !.status = "canceled", !.working = FALSE].done = out[k].done
          /\ [out[k] EXCEPT !.status = "canceled", !.working = FALSE].status = "canceled"
      BY <3>1 DEF OutgoingState
    <3> QED
      BY <2>1, <3>1, <3>2
  <2>3. Types'
    <3>1. out' \in [Transfer -> OutgoingState]
      BY <2>1, <2>2
    <3> QED
      BY <1>1, <1>2, <2>1, <3>1 DEF IInv, Types, Chunks
  <2>4. SenderWorks'
    BY <1>1, <2>2 DEF IInv, SenderWorks, Reads, Terminal
  <2>5. Files'
    <3>1. \A k \in Transfer : SameFile(k)
      BY <1>1, <2>1 DEF SameFile
    <3> QED
      BY <1>1, <1>4, <2>1, <3>1, FilesFrame DEF IInv, Files
  <2>6. Steps'
    <3>1. ASSUME NEW k \in Transfer
          PROVE  InStep(Chunks[k], out'[k], inc'[k], job'["receiver"][k], Sent(k)', Ack(k)')
      <4>1. InStep(Chunks[k], out[k], inc[k], job["receiver"][k], Sent(k)', Ack(k)')
        BY <1>2, <1>3, InStepLess DEF IInv, Steps
      <4> QED
        BY <1>1, <2>1, <2>2, <4>1 DEF InStep
    <3> QED
      BY <1>2, <1>3, <3>1, StepsFrame DEF IInv
  <2> QED
    BY <2>3, <2>4, <2>5, <2>6 DEF IInv
<1>5. CASE e = "receiver"
  <2>1. /\ UNCHANGED out
        /\ inc' = [k \in Transfer |-> IF Active(inc[k].status)
                     THEN [inc[k] EXCEPT !.status = "canceled", !.working = FALSE, !.file = FALSE]
                     ELSE inc[k]]
        /\ cleanup' = [k \in Transfer |-> IF inc[k].file THEN "remove" ELSE cleanup[k]]
    BY <1>5 DEF StopFileTransfers
  <2>2. ASSUME NEW k \in Transfer
        PROVE  /\ inc'[k] \in IncomingState /\ inc'[k].hashed = inc[k].hashed
               /\ \/ inc'[k] = inc[k] /\ ~Active(inc[k].status)
                  \/ inc'[k].status = "canceled" /\ ~inc'[k].file /\ Active(inc[k].status)
    <3>1. inc[k] \in IncomingState
      BY DEF IInv, Types
    <3> DEFINE r == [inc[k] EXCEPT !.status = "canceled", !.working = FALSE, !.file = FALSE]
    <3>2. /\ r \in IncomingState /\ r.hashed = inc[k].hashed /\ r.status = "canceled" /\ ~r.file
      BY <3>1 DEF IncomingState
    <3>3. inc'[k] = IF Active(inc[k].status) THEN r ELSE inc[k]
      BY <2>1
    <3> HIDE DEF r
    <3> QED
      BY <3>1, <3>2, <3>3
  <2>3. Types'
    <3>1. inc' \in [Transfer -> IncomingState]
      BY <2>1, <2>2
    <3>2. cleanup' \in [Transfer -> {"none", "close", "remove"}]
      BY <2>1 DEF IInv, Types
    <3> QED
      BY <1>1, <1>2, <2>1, <3>1, <3>2 DEF IInv, Types, Chunks
  <2>4. SenderWorks'
    BY <1>1, <2>1 DEF IInv, SenderWorks
  <2>5. Files'
    <3>1. ASSUME NEW k \in Transfer
          PROVE  Consistent(Chunks[k], inc'[k], job'["receiver"][k], disk'[k], open'[k], cleanup'[k])
      <4>1. /\ Consistent(Chunks[k], inc[k], job["receiver"][k], disk[k], open[k], cleanup[k])
            /\ inc[k] \in IncomingState
        BY ReceiverFacts
      <4>2. cleanup'[k] = IF inc[k].file THEN "remove" ELSE cleanup[k]
        BY <2>1
      <4>3. CASE inc'[k] = inc[k] /\ ~Active(inc[k].status)
        <5>1. ~inc[k].file
          BY <4>1, <4>3 DEF Consistent, Active, Terminal
        <5> QED
          BY <1>1, <4>1, <4>2, <4>3, <5>1
      <4>4. CASE inc'[k].status = "canceled" /\ ~inc'[k].file /\ Active(inc[k].status)
        <5>1. inc[k].status \in {"offered", "accepting", "transferring"}
          BY <4>1, <4>4 DEF Active, Terminal, IncomingState
        <5> QED
          BY <1>1, <4>1, <4>2, <4>4, <5>1 DEF Consistent, Created, Failed
      <4> QED
        BY <2>2, <4>3, <4>4
    <3>2. \A k \in Transfer : ~Active(inc'[k].status)
      BY <2>2 DEF Active, Terminal
    <3> QED
      BY <3>1, <3>2, FilesFrame DEF IInv
  <2>6. Steps'
    <3>1. ASSUME NEW k \in Transfer
          PROVE  InStep(Chunks[k], out'[k], inc'[k], job'["receiver"][k], Sent(k)', Ack(k)')
      <4>1. InStep(Chunks[k], out[k], inc[k], job["receiver"][k], Sent(k)', Ack(k)')
        BY <1>2, <1>3, InStepLess DEF IInv, Steps
      <4>2. CASE inc'[k] = inc[k]
        BY <1>1, <2>1, <4>1, <4>2
      <4>3. CASE inc'[k].status = "canceled" /\ Active(inc[k].status)
        <5>1. inc[k].status # "completed"
          BY <4>3 DEF Active, Terminal
        <5> QED
          BY <1>1, <2>1, <2>2, <4>1, <4>3, <5>1 DEF InStep, Live
      <4> QED
        BY <2>2, <4>2, <4>3
    <3> QED
      BY <1>2, <1>3, <3>1, StepsFrame DEF IInv
  <2> QED
    BY <2>3, <2>4, <2>5, <2>6 DEF IInv
<1> QED
  BY <1>4, <1>5

-----------------------------------------------------------------------------

\* Either end gives up, having told the other, or without.
LEMMA GiveUpIInv ==
    ASSUME IInv, UNCHANGED <<disk, open, changed, available, stopped, setting>>,
           NEW e \in End, NEW i \in Transfer, NEW status \in Failed,
           Active(StatusAt(e, i)), FinishFileTransfer(e, i, status),
           \/ UNCHANGED job
           \/ job[e][i] # NoJob /\ job[e][i].state = "error" /\ StartFileWork(e, i, NoJob),
           NEW kind \in {"cancel", "reject"}, kind = "reject" => e = "receiver",
           \/ UNCHANGED control
           \/ \E ok \in BOOLEAN : QueueFileControl(e, ok, kind, i)
    PROVE  IInv'
<1> USE EndFacts
<1>1. Msg(kind, i) \in MessagesTo(Peer(e)) /\ kind # "ack"
  BY DEF Msg, MessagesTo
<1>2. /\ DOMAIN control' = End /\ \A f \in End : control'[f] \in Seq(MessagesTo(f))
      /\ Quiet
  <2>1. CASE UNCHANGED control
    BY <2>1, QuietStays DEF IInv, Steps
  <2>2. CASE \E ok \in BOOLEAN : QueueFileControl(e, ok, kind, i)
    BY <1>1, <2>2, QueueQuiet DEF IInv, Steps
  <2> QED
    BY <2>1, <2>2
<1>3. available' \in [End -> BOOLEAN]
  BY DEF IInv, Types
<1>4. GiveUp(e, i, status)
  BY <1>2, <1>3 DEF GiveUp
<1>5. e = "sender" \/ e = "receiver"
  OBVIOUS
<1> QED
  BY <1>4, <1>5, GiveUpSender, GiveUpReceiver

\* rejectFile, cancelFile, expireFileTransfers
LEMMA GivenUpIInv ==
    ASSUME IInv, UNCHANGED setting, NEW i \in Transfer,
           RejectFile(i) \/ \E e \in End : CancelFile(e, i) \/ ExpireFileTransfer(e, i)
    PROVE  IInv'
<1>1. CASE RejectFile(i)
  <2>1. /\ UNCHANGED <<disk, open, changed, available, stopped, setting, job>>
        /\ FinishFileTransfer("receiver", i, "rejected") /\ Active(StatusAt("receiver", i))
        /\ \E ok \in BOOLEAN : QueueFileControl("receiver", ok, "reject", i)
    BY <1>1 DEF RejectFile, sides, StatusAt, Active, Terminal
  <2> QED
    BY <2>1, GiveUpIInv, EndFacts DEF Failed
<1>2. ASSUME NEW e \in End, CancelFile(e, i)
      PROVE  IInv'
  <2>1. /\ UNCHANGED <<disk, open, changed, available, stopped, setting, job>>
        /\ FinishFileTransfer(e, i, "canceled") /\ Active(StatusAt(e, i))
        /\ \E ok \in BOOLEAN : QueueFileControl(e, ok, "cancel", i)
    BY <1>2 DEF CancelFile, sides
  <2> QED
    BY <2>1, GiveUpIInv DEF Failed
<1>3. ASSUME NEW e \in End, ExpireFileTransfer(e, i)
      PROVE  IInv'
  <2>1. /\ UNCHANGED <<disk, open, changed, available, stopped, setting, job>>
        /\ FinishFileTransfer(e, i, "failed") /\ Active(StatusAt(e, i))
        /\ \/ UNCHANGED control
           \/ \E ok \in BOOLEAN : QueueFileControl(e, ok, "cancel", i)
    BY <1>3 DEF ExpireFileTransfer, sides
  <2> QED
    BY <2>1, GiveUpIInv DEF Failed
<1> QED
  BY <1>1, <1>2, <1>3

\* handleFileWorkResult
LEMMA HandleFileWorkResultIInv ==
    ASSUME IInv, UNCHANGED setting, NEW e \in End, NEW i \in Transfer, HandleFileWorkResult(e, i)
    PROVE  IInv'
<1> USE EndFacts
<1>1. /\ job[e][i] # NoJob /\ job[e][i].state # "running" /\ e \notin stopped
      /\ UNCHANGED <<disk, open, changed, available, stopped, setting>>
  BY DEF HandleFileWorkResult, sides
<1>2. CASE Terminal(StatusAt(e, i))
  <2>1. HandleLateResult(e, i)
    BY <1>2 DEF HandleFileWorkResult
  <2> QED
    BY <1>1, <1>2, <2>1, HandleLateResultIInv
<1>3. CASE ~Terminal(StatusAt(e, i)) /\ job[e][i].state = "error"
  <2>1. HandleWorkError(e, i)
    BY <1>3 DEF HandleFileWorkResult
  <2>2. Active(StatusAt(e, i))
    <3>1. CASE e = "sender"
      <4>1. out[i].status # "none"
        BY <1>1, <3>1 DEF IInv, SenderWorks, Reads, Terminal
      <4> QED
        BY <1>3, <3>1, <4>1 DEF StatusAt, Active
    <3>2. CASE e = "receiver"
      <4>1. inc[i].status # "none"
        BY <1>1, <3>2, ReceiverFacts DEF Consistent
      <4> QED
        BY <1>3, <3>2, <4>1 DEF StatusAt, Active
    <3> QED
      BY <3>1, <3>2
  <2>3. /\ FinishFileTransfer(e, i, "failed") /\ StartFileWork(e, i, NoJob)
        /\ \E ok \in BOOLEAN : QueueFileControl(e, ok, "cancel", i)
    BY <2>1 DEF HandleWorkError
  <2> QED
    BY <1>1, <1>3, <2>2, <2>3, GiveUpIInv DEF Failed
<1>4. CASE ~Terminal(StatusAt(e, i)) /\ job[e][i].state # "error" /\ e = "sender"
  <2>1. job["sender"][i] # NoJob /\ job["sender"][i].kind \in {"offer", "read"} /\ ~Terminal(out[i].status)
    BY <1>1, <1>4, RecordFacts DEF IInv, StatusAt
  <2>2. /\ job["sender"][i].kind = "offer" => HandleOfferResult(i)
        /\ job["sender"][i].kind = "read" => HandleReadResult(i)
    BY <1>4 DEF HandleFileWorkResult
  <2> QED
    BY <1>1, <2>1, <2>2, HandleOfferResultIInv, HandleReadResultIInv
<1>5. CASE ~Terminal(StatusAt(e, i)) /\ job[e][i].state # "error" /\ e = "receiver"
  <2>1. /\ job["receiver"][i] # NoJob /\ job["receiver"][i].kind \in {"create", "write", "finish"}
        /\ ~Terminal(inc[i].status) /\ "receiver" \notin stopped
    BY <1>1, <1>5, RecordFacts DEF IInv, StatusAt
  <2>2. job["receiver"][i].state = "ok"
    <3>1. job["receiver"][i] \in Worker
      BY <2>1, RecordFacts DEF IInv
    <3> QED
      BY <1>1, <1>5, <3>1 DEF Worker
  <2>3. /\ job["receiver"][i].kind = "create" => HandleCreateResult(i)
        /\ job["receiver"][i].kind = "write" => HandleWriteResult(i)
        /\ job["receiver"][i].kind = "finish" => HandleFinishResult(i)
    BY <1>5 DEF HandleFileWorkResult
  <2> QED
    BY <1>1, <2>1, <2>2, <2>3, HandleCreateResultIInv, HandleWriteResultIInv, HandleFinishResultIInv
<1> QED
  BY <1>2, <1>3, <1>4, <1>5

\* handleFileControl
LEMMA HandleFileControlIInv ==
    ASSUME IInv, UNCHANGED setting, NEW e \in End, HandleFileControl(e)
    PROVE  IInv'
<1> USE EndFacts
<1> DEFINE m == Head(control[e])
           i == m.id
<1>1. /\ control[e] # <<>> /\ control' = [control EXCEPT ![e] = Tail(control[e])]
      /\ UNCHANGED <<disk, open, changed, available, stopped, setting>>
  BY DEF HandleFileControl, sides
<1>2. /\ DOMAIN control' = End /\ \A f \in End : control'[f] \in Seq(MessagesTo(f))
      /\ Quiet /\ m \in MessagesTo(e)
  BY <1>1, TakeQuiet DEF IInv, Steps
<1>3. /\ i \in Transfer /\ m = Msg(m.kind, i)
      /\ e = "sender" => m.kind \in {"accept", "reject", "cancel", "ack"}
      /\ e = "receiver" => m.kind \in {"offer", "cancel"}
  BY <1>2 DEF MessagesTo, Msg
<1>4. available' \in [End -> BOOLEAN] /\ changed' \in [Transfer -> BOOLEAN]
  BY <1>1 DEF IInv, Types
<1>5. CASE UNCHANGED <<out, inc, job, data, cleanup>>
  BY <1>1, <1>2, <1>4, <1>5, NothingIInv
<1>6. CASE HandleControl(e, m)
  <2> HIDE DEF m
  <2>1. CASE /\ m.kind = "offer" /\ inc[i].status = "none"
             /\ inc' = [inc EXCEPT ![i].status = "offered"]
             /\ UNCHANGED <<out, job, data, cleanup>>
    BY <1>3, <2>1, HandleOfferIInv
  <2>2. CASE m.kind = "accept" /\ HandleAccept(i)
    BY <1>3, <2>2, HandleAcceptIInv
  <2>3. CASE m.kind = "ack" /\ HandleDataAck(i)
    <3>1. e = "sender"
      BY <1>3, <2>3
    <3>2. Head(control["sender"]) = Msg("ack", i)
      BY <1>3, <2>3, <3>1 DEF m
    <3> QED
      BY <1>3, <2>3, <3>1, <3>2, HandleDataAckIInv
  <2>4. ASSUME NEW status \in Failed, Active(StatusAt(e, i)), FinishFileTransfer(e, i, status),
               UNCHANGED job
        PROVE  IInv'
    <3>1. GiveUp(e, i, status)
      BY <1>1, <1>2, <1>4, <2>4 DEF GiveUp
    <3> QED
      BY <1>3, <3>1, GiveUpSender, GiveUpReceiver
  <2>5. CASE /\ m.kind = "reject" /\ out[i].status = "offered"
             /\ FinishFileTransfer(e, i, "rejected")
             /\ UNCHANGED job
    <3>1. Active(StatusAt(e, i))
      BY <1>3, <2>5 DEF StatusAt, Active, Terminal
    <3> QED
      BY <2>4, <2>5, <3>1 DEF Failed
  <2>6. CASE /\ m.kind = "cancel" /\ Active(StatusAt(e, i))
             /\ FinishFileTransfer(e, i, "canceled")
             /\ UNCHANGED job
    BY <2>4, <2>6 DEF Failed
  <2> QED
    BY <1>6, <2>1, <2>2, <2>3, <2>5, <2>6 DEF HandleControl
<1> QED
  BY <1>5, <1>6 DEF HandleFileControl

\* The session is lost or recovers, and the source file changes.
LEMMA SurroundingsIInv ==
    ASSUME IInv, UNCHANGED setting,
           \/ \E e \in End : SessionLost(e) \/ SessionRecovers(e)
           \/ \E i \in Transfer : SourceChanges(i)
    PROVE  IInv'
<1>1. UNCHANGED <<out, inc, job, control, data, disk, open, cleanup, stopped, setting>>
  BY DEF SessionLost, SessionRecovers, SourceChanges, sides
<1>2. available' \in [End -> BOOLEAN] /\ changed' \in [Transfer -> BOOLEAN]
  BY DEF SessionLost, SessionRecovers, SourceChanges, sides, IInv, Types
<1>3. /\ DOMAIN control' = End /\ \A f \in End : control'[f] \in Seq(MessagesTo(f))
      /\ Quiet
  BY <1>1, QuietStays DEF IInv, Steps
<1> QED
  BY <1>1, <1>2, <1>3, NothingIInv

-----------------------------------------------------------------------------

\* Nothing has been offered, and nothing is on its way.
LEMMA InitIInv == Init => IInv
<1> SUFFICES ASSUME Init
             PROVE  IInv
  OBVIOUS
<1> USE EndFacts
<1>1. \A i \in Transfer :
         /\ out[i].status = "none" /\ out[i].done = 0
         /\ inc[i].status = "none" /\ inc[i].hashed = <<>> /\ ~inc[i].file
         /\ disk[i] = NoFile /\ ~open[i] /\ cleanup[i] = "none"
         /\ job["sender"][i] = NoJob /\ job["receiver"][i] = NoJob
  BY DEF Init
<1>2. control["sender"] = <<>> /\ data = {} /\ stopped = {}
  BY DEF Init
<1>3. Types
  <2>1. out \in [Transfer -> OutgoingState] /\ inc \in [Transfer -> IncomingState]
    BY DEF Init, OutgoingState, IncomingState
  <2>2. \A e \in End : job[e] \in [Transfer -> WorkersOf(e) \cup {NoJob}] /\ control[e] \in Seq(MessagesTo(e))
    BY DEF Init
  <2> QED
    BY <2>1, <2>2 DEF Init, Types
<1>4. SenderWorks
  BY <1>1 DEF SenderWorks, Reads
<1>5. Files
  BY <1>1, <1>2 DEF Files, Consistent, Failed
<1>6. Steps
  <2>1. \A i \in Transfer : ~Sent(i) /\ ~Ack(i)
    BY <1>2 DEF Sent, Ack
  <2>2. AckOnce
    BY <1>2 DEF AckOnce
  <2>3. \A i \in Transfer : Chunks[i] \in Nat
    BY <1>3, RecordFacts
  <2>4. \A i \in Transfer : Len(inc[i].hashed) = 0
    BY <1>1
  <2>5. \A i \in Transfer :
           InStep(Chunks[i], out[i], inc[i], job["receiver"][i], Sent(i), Ack(i))
    BY <1>1, <2>1, <2>3, <2>4 DEF InStep, Live
  <2> QED
    BY <1>2, <2>2, <2>5 DEF Steps
<1> QED
  BY <1>3, <1>4, <1>5, <1>6 DEF IInv

\* Every step keeps the invariant.
LEMMA NextIInv == IInv /\ [Next]_vars => IInv'
<1> SUFFICES ASSUME IInv, [Next]_vars
             PROVE  IInv'
  OBVIOUS
<1>1. CASE UNCHANGED vars
  <2>1. /\ UNCHANGED <<out, inc, job, control, data, disk, open, cleanup, stopped, setting>>
        /\ available' \in [End -> BOOLEAN] /\ changed' \in [Transfer -> BOOLEAN]
    BY <1>1 DEF vars, IInv, Types
  <2>2. /\ DOMAIN control' = End /\ \A f \in End : control'[f] \in Seq(MessagesTo(f))
        /\ Quiet
    BY <2>1, QuietStays DEF IInv, Steps
  <2> QED
    BY <2>1, <2>2, NothingIInv
<1>2. CASE Next
  <2>1. Step /\ UNCHANGED setting
    BY <1>2 DEF Next
  <2>2. ASSUME NEW i \in Transfer, StartFileOffer(i) \/ AcceptFile(i) \/ ClosePartialFile(i)
        PROVE  IInv'
    BY <2>1, <2>2, StartFileOfferIInv, AcceptFileIInv, ClosePartialFileIInv
  <2>3. ASSUME NEW i \in Transfer,
               RejectFile(i) \/ \E e \in End : CancelFile(e, i) \/ ExpireFileTransfer(e, i)
        PROVE  IInv'
    BY <2>1, <2>3, GivenUpIInv
  <2>4. ASSUME NEW e \in End, NEW i \in Transfer,
               RunFileWork(e, i) \/ HandleFileWorkResult(e, i) \/ DiscardFileWorkResult(e, i)
        PROVE  IInv'
    BY <2>1, <2>4, RunFileWorkIInv, HandleFileWorkResultIInv, DiscardFileWorkResultIInv
  <2>5. ASSUME NEW e \in End, HandleFileControl(e) \/ StopFileTransfers(e)
        PROVE  IInv'
    BY <2>1, <2>5, HandleFileControlIInv, StopFileTransfersIInv
  <2>6. CASE \/ \E e \in End : SessionLost(e) \/ SessionRecovers(e)
             \/ \E i \in Transfer : SourceChanges(i)
    BY <2>1, <2>6, SurroundingsIInv
  <2>7. CASE HandleFileData
    BY <2>1, <2>7, HandleFileDataIInv
  <2> QED
    BY <2>1, <2>2, <2>3, <2>4, <2>5, <2>6, <2>7 DEF Step
<1> QED
  BY <1>1, <1>2

\* The invariant holds throughout.
LEMMA Invariant == Spec => []IInv
BY InitIInv, NextIInv, PTL DEF Spec

\* Records, workers, messages and files are always of their types, and neither end ever
\* counts more chunks than the file has.
THEOREM TypeCorrect == Spec => []TypeOK
<1>1. IInv => TypeOK
  <2> SUFFICES ASSUME IInv, NEW i \in Transfer
               PROVE  out[i].done <= Chunks[i] /\ Len(inc[i].hashed) <= Chunks[i]
    BY DEF TypeOK, IInv
  <2>1. out[i].done \in Nat
    BY ReceiverFacts DEF OutgoingState
  <2> QED
    BY <2>1, ReceiverFacts DEF InStep
<1> QED
  BY <1>1, Invariant, PTL

\* For any number of transfers and chunks, the sender never counts a chunk the receiver has
\* not hashed, is never more than one behind it, and has at most one chunk of a transfer
\* under way (readNextFileChunk, fileControlDataAck).
THEOREM EndsStayInStep == Spec => []StopAndWait
<1>1. IInv => StopAndWait
  <2> SUFFICES ASSUME IInv, NEW i \in Transfer
               PROVE  /\ out[i].done <= Len(inc[i].hashed) /\ Len(inc[i].hashed) <= out[i].done + 1
                      /\ Cardinality({m \in data : m.id = i}) <= 1
    BY DEF StopAndWait
  <2> DEFINE S == {m \in data : m.id = i}
  <2>1. \A m1, m2 \in S : m1 = m2
    BY DEF IInv, Steps
  <2>2. Cardinality(S) <= 1
    <3>1. CASE S = {}
      <4>1. Cardinality(S) = 0
        BY <3>1, FS_EmptySet
      <4> QED
        BY <4>1
    <3>2. CASE S # {}
      <4>1. PICK m \in S : TRUE
        BY <3>2
      <4>2. S = {m}
        BY <2>1, <4>1
      <4> HIDE DEF S
      <4>3. Cardinality(S) = 1
        BY <4>2, FS_Singleton
      <4> QED
        BY <4>3
    <3> QED
      BY <3>1, <3>2
  <2> QED
    BY <2>2, ReceiverFacts DEF InStep
<1> QED
  BY <1>1, Invariant, PTL

\* Whatever fails, is given up or comes too late: a transfer the receiver reports as completed
\* has left a closed file with every chunk in its place as it was hashed for the offer, and
\* nothing that still runs will touch it (handleFileWorkResult, closePartialFile).
THEOREM WhatIsCompletedIsWhole == Spec => []CompletedIsWhole
<1>1. IInv => CompletedIsWhole
  BY ReceiverFacts DEF CompletedIsWhole, Whole, Consistent, Numbers
<1> QED
  BY <1>1, Invariant, PTL

\* The sender reports completion only of what the receiver has completed, however late an
\* acknowledgment is and whatever was given up in between (fileControlDataAck).
THEOREM SenderIsRight == Spec => []SenderKnows
<1>1. IInv => SenderKnows
  BY ReceiverFacts DEF SenderKnows, InStep
<1> QED
  BY <1>1, Invariant, PTL

\* However a transfer ends, once its workers are done its destination is absent, empty or
\* whole, and no file is open (finishFileTransfer, closePartialFile, discardFileWorkResults).
THEOREM NothingHalfWritten == Spec => []NoPartialFile
<1>1. IInv => NoPartialFile
  <2> SUFFICES ASSUME IInv, NEW i \in Transfer, Terminal(inc[i].status),
                      job["receiver"][i] = NoJob, cleanup[i] = "none"
               PROVE  /\ ~open[i]
                      /\ \/ disk[i] = NoFile
                         \/ Whole(i)
                         \/ \A k \in 1 .. Chunks[i] : disk[i][k] = 0
    BY DEF NoPartialFile
  <2>1. CASE inc[i].status = "completed"
    BY <2>1, ReceiverFacts DEF Consistent, Whole, Numbers
  <2>2. CASE inc[i].status \in Failed
    <3>1. ~open[i] /\ disk[i] \in {NoFile, Numbers(Chunks[i]), Zeros(Chunks[i])}
      BY <2>2, ReceiverFacts DEF Consistent
    <3> QED
      BY <3>1 DEF Whole, Numbers, Zeros
  <2> QED
    BY <2>1, <2>2 DEF Terminal, Failed
<1> QED
  BY <1>1, Invariant, PTL
=============================================================================
