-------------------------- MODULE CallServerOrder --------------------------
(***************************************************************************)
(* More of what TLAPS proves about CallServer for every value of its         *)
(* constants: transcripts go out in the order spoken, the final utterance of *)
(* a call is its last, nothing is left behind the sentinel, and a handler    *)
(* woken by its event has sent what it owes.  The argument is about order:   *)
(* in the queue, among the callbacks on the loop, and between the two.       *)
(***************************************************************************)
EXTENDS CallServerProofs

-----------------------------------------------------------------------------
(* The inductive invariant, part by part; it rests on IInv and Routed.      *)

(* Chunks go through the queue and the worker in the order they were cut:     *)
(* what is past the queue leaves nothing before it unfinished.              *)
InLine ==
    /\ \A i, j \in DOMAIN queue :
          i < j /\ queue[i].kind = "chunk" /\ queue[j].kind = "chunk" => queue[i].n < queue[j].n
    /\ \A x \in Chunks : fate[x] = "queued" =>
          \E i \in DOMAIN queue : queue[i].kind = "chunk" /\ queue[i].n = x
    /\ \A x \in Chunks : fate[x] = "work" => wpc \in {"work", "crashed"} /\ item.n = x
    /\ \A x, y \in Chunks : x < y /\ fate[y] \notin {"none", "counted", "queued"} =>
          fate[x] \notin Unfinished

(* Nothing follows the sentinel, for no handler is left to queue anything.    *)
Stopping ==
    /\ \A i \in DOMAIN queue : queue[i].kind = "stop" => stopping = "done" /\ i = Len(queue)
    /\ stopping = "done" => \A k \in Conns : hpc[k] \in {"new", "closed"}
    /\ wpc = "stopped" => /\ stopping = "done" /\ queue = <<>>
                          /\ \A x \in Chunks : fate[x] \notin Unfinished

(* The sends in q are in the order of their chunks, first those whose task    *)
(* has been made.                                                           *)
Before(d, e) == /\ d.kind = e.kind => d.n < e.n
                /\ d.kind = "send" /\ e.kind = "mksend" => d.n < e.n
                /\ d.kind = "mksend" /\ e.kind = "send" => e.n < d.n
InOrder(q) == \A i, j \in DOMAIN q :
                 i < j /\ Sends(q, i) /\ Sends(q, j) => Before(q[i], q[j])

(* Every scheduled chunk has its send on the loop, and the sends go in order. *)
SendsInLine ==
    /\ InOrder(ready)
    /\ \A x \in Chunks : fate[x] = "scheduled" =>
          \E i \in DOMAIN ready : Sends(ready, i) /\ ready[i].n = x
    /\ \A x, y \in Chunks : x < y /\ fate[y] = "sent" => fate[x] # "scheduled"

(* The chunk a call was ended with is its last.                              *)
LastOfCall ==
    /\ \A x \in final : x \in 1..made /\ EndedIn(owner[x], Ending \cup {"closed"})
    /\ FinalIsLast

(* A handler has a socket and may have a call once it is accepted, and its   *)
(* socket is closed when it returns.                                        *)
Sockets ==
    \A k \in Conns : /\ hpc[k] = "new" <=> sock[k] = "new"
                     /\ hpc[k] = "new" => call[k] = NoCall
                     /\ hpc[k] = "closed" => sock[k] = "closed"

(* A call id that chunks are kept under is not fresh; a send is addressed to   *)
(* the connection of the call's handler; and what was lost, was lost because *)
(* that connection is closed.                                               *)
Addressed ==
    /\ \A x \in Chunks : owner[x] \in Calls => ~Fresh(owner[x])
    /\ \A i \in DOMAIN ready : Sends(ready, i) =>
          /\ ready[i].call = owner[ready[i].n]
          /\ \A k \in Conns : call[k] = ready[i].call => ready[i].conn = k
    /\ \A x \in Chunks, k \in Conns :
          fate[x] = "lost" /\ owner[x] = call[k] => sock[k] = "closed"

(* An event is behind the sends of its call: when it is set no task is left   *)
(* to be made for one, and when it wakes the handler no send is left.       *)
Behind(q) ==
    \A i, j \in DOMAIN q : Sends(q, j) /\ q[j].call = q[i].call =>
        /\ q[i].kind = "set" /\ q[j].kind = "mksend" => j < i
        /\ q[i].kind = "wake" => q[j].kind = "send" /\ j < i

(* The inductive invariant.                                                 *)
OInv == /\ InLine /\ Stopping /\ SendsInLine /\ LastOfCall /\ Sockets /\ Addressed
        /\ Behind(ready) /\ Answered

-----------------------------------------------------------------------------
(* The line through the queue and the worker.                               *)

(* The queue is left alone, chunks past the sink can only be sent or lost,    *)
(* and the worker keeps hold of the chunk it decodes.                       *)
KeepsLine ==
    /\ queue' = queue
    /\ \A x \in Chunks : \/ fate'[x] = fate[x]
                         \/ /\ fate[x] \notin Unfinished \cup {"none"}
                            /\ fate'[x] \in {"sent", "lost"}
    /\ wpc \in {"work", "crashed"} => wpc' \in {"work", "crashed"} /\ item' = item
    /\ wpc' = "stopped" => wpc = "stopped"

(* A step cuts a chunk, appends to the queue, takes its head, finishes what  *)
(* the worker decodes, or keeps the line.                                   *)
LEMMA LineSteps ==
    ASSUME Shape, [Next]_vars
    PROVE  \/ \E k \in Conns : \E pc \in {"put", "putlast"} : Cuts(k, pc)
           \/ \E k \in Conns : Put(k) \/ QueueSpeech(k)
           \/ FinishStop \/ Get \/ Emit \/ KeepsLine
<1> USE DEF Shape
<1>1. ASSUME NEW k \in Conns, AudioCloses(k) \/ WatchIdle(k)
      PROVE  Cuts(k, "put")
    BY <1>1 DEF AudioCloses, WatchIdle, Cuts, Resumes, TypeOK
<1>2. ASSUME NEW k \in Conns, CallEnd(k) \/ EndOfStream(k)
      PROVE  Cuts(k, "putlast") \/ KeepsLine
  <2>1. Resumes(k) /\ EndCall(k)
      BY <1>2 DEF CallEnd, EndOfStream
  <2>2. CASE call[k] = NoCall \/ ~open[k]
      BY <2>1, <2>2 DEF EndCall, KeepsLine, cvars, wvars
  <2>3. CASE call[k] # NoCall /\ open[k]
      BY <2>1, <2>3 DEF EndCall, Cuts, Resumes, TypeOK
  <2> QED
      BY <2>2, <2>3
<1>3. ASSUME NEW k \in Conns,
             \/ Accept(k) \/ CallStart(k) \/ AudioAdopted(k) \/ AudioOpens(k)
             \/ DrainTimeout(k) \/ SocketCloses(k) \/ Check(k) \/ Leave(k) \/ Drop(k)
      PROVE  KeepsLine
    BY <1>3 DEF Accept, CallStart, AudioAdopted, AudioOpens, DrainTimeout, SocketCloses, Check,
       Leave, Drop, KeepsLine, cvars, wvars
<1>4. CASE RunCallback
  <2>1. queue' = queue /\ wpc' = wpc /\ item' = item
      BY <1>4 DEF RunCallback, wvars
  <2> QED
      BY <1>4, <2>1, CallbackFate DEF KeepsLine
<1>5. CASE ChunkDone \/ Notify \/ Speak \/ Crash
    BY <1>5 DEF ChunkDone, Notify, Speak, Crash, KeepsLine, cvars
<1>6. CASE BeginStop \/ Finished \/ UNCHANGED vars
    BY <1>6 DEF BeginStop, Finished, vars, cvars, wvars, KeepsLine
<1> QED
    BY <1>1, <1>2, <1>3, <1>4, <1>5, <1>6 DEF Next, Handler, MidCall, WorkerStep

(* What Put does, element by element.                                       *)
LEMMA PutSteps ==
    ASSUME Shape, NEW k \in Conns, Put(k)
    PROVE  /\ made \in Chunks /\ fate[made] = "counted"
           /\ \A x \in Chunks : fate'[x] = IF x = made THEN "queued" ELSE fate[x]
           /\ DOMAIN queue' = DOMAIN queue \cup {Len(queue) + 1}
           /\ \A i \in DOMAIN queue : queue'[i] = queue[i]
           /\ queue'[Len(queue) + 1].kind = "chunk" /\ queue'[Len(queue) + 1].n = made
           /\ DOMAIN queue = 1..Len(queue) /\ Len(queue) \in Nat
           /\ UNCHANGED <<wpc, item, owner, made, final, stopping, ready>>
<1> USE DEF Shape
<1> DEFINE e == ChunkItem(made, call[k])
<1>1. /\ made \in Chunks /\ fate[made] = "counted" /\ call[k] \in Calls
      /\ e.kind = "chunk" /\ e.n = made
    BY DEF Put, Made, TypeOK, Chunks, ChunkItem, Handlers, Ending
<1>2. e \in Items
    BY <1>1 DEF ChunkItem, Items
<1>3. /\ queue' = Append(queue, e)
      /\ \A x \in Chunks : fate'[x] = IF x = made THEN "queued" ELSE fate[x]
      /\ UNCHANGED <<wpc, item, owner, made, final, stopping, ready>>
    BY <1>1 DEF Put, TypeOK, wvars
<1>4. /\ DOMAIN queue' = DOMAIN queue \cup {Len(queue) + 1}
      /\ \A i \in DOMAIN queue : queue'[i] = queue[i]
      /\ queue'[Len(queue) + 1] = e
      /\ DOMAIN queue = 1..Len(queue) /\ Len(queue) \in Nat
    BY <1>2, <1>3, AppendElements DEF TypeOK
<1> HIDE DEF e
<1> QED
    BY <1>1, <1>3, <1>4

(* What QueueSpeech and FinishStop do to the queue.                         *)
LEMMA AppendSteps ==
    ASSUME Shape, (\E k \in Conns : QueueSpeech(k)) \/ FinishStop
    PROVE  /\ fate' = fate /\ wpc' = wpc /\ item' = item
           /\ DOMAIN queue' = DOMAIN queue \cup {Len(queue) + 1}
           /\ \A i \in DOMAIN queue : queue'[i] = queue[i]
           /\ queue'[Len(queue) + 1].kind = IF FinishStop THEN "stop" ELSE "speak"
           /\ DOMAIN queue = 1..Len(queue) /\ Len(queue) \in Nat
           /\ Len(queue') = Len(queue) + 1
<1> USE DEF Shape
<1>1. \E e \in Items : /\ queue' = Append(queue, e)
                       /\ e.kind = IF FinishStop THEN "stop" ELSE "speak"
  <2>1. CASE FinishStop
      BY <2>1 DEF FinishStop, NoItem, Items
  <2>2. ASSUME NEW k \in Conns, QueueSpeech(k), ~FinishStop
        PROVE  \E e \in Items : queue' = Append(queue, e) /\ e.kind = "speak"
    <3>1. SpeakItem(call[k]) \in Items /\ SpeakItem(call[k]).kind = "speak"
        BY <2>2 DEF QueueSpeech, SpeakItem, Items, TypeOK
    <3> QED
        BY <2>2, <3>1 DEF QueueSpeech
  <2> QED
      BY <2>1, <2>2
<1>2. PICK e \in Items : /\ queue' = Append(queue, e)
                         /\ e.kind = IF FinishStop THEN "stop" ELSE "speak"
    BY <1>1
<1>3. /\ DOMAIN queue' = DOMAIN queue \cup {Len(queue) + 1}
      /\ \A i \in DOMAIN queue : queue'[i] = queue[i]
      /\ queue'[Len(queue) + 1] = e
      /\ DOMAIN queue = 1..Len(queue) /\ Len(queue) \in Nat
    BY <1>2, AppendElements DEF TypeOK
<1>4. Len(queue') = Len(queue) + 1
    BY <1>2 DEF TypeOK
<1>5. UNCHANGED <<fate, wpc, item>>
    BY DEF QueueSpeech, FinishStop, cvars, wvars
<1> QED
    BY <1>2, <1>3, <1>4, <1>5

(* What Get does to the queue and the worker.                               *)
LEMMA GetSteps ==
    ASSUME Shape, Get
    PROVE  /\ wpc = "get" /\ item' = queue[1] /\ queue[1] \in Items
           /\ queue[1].kind = "chunk" => wpc' = "work" /\ queue[1].n \in Chunks
           /\ wpc' = "stopped" => queue[1].kind = "stop"
           /\ DOMAIN queue = 1..Len(queue) /\ Len(queue) \in Nat \ {0}
           /\ DOMAIN queue' = 1..(Len(queue) - 1) /\ Len(queue') = Len(queue) - 1
           /\ \A i \in DOMAIN queue' : i + 1 \in DOMAIN queue /\ queue'[i] = queue[i + 1]
           /\ queue' \in Seq(Items)
<1> USE DEF Shape
<1>1. queue # <<>> /\ queue' = Tail(queue) /\ wpc = "get" /\ item' = Head(queue)
    BY DEF Get
<1>2. /\ Head(queue) = queue[1] /\ queue[1] \in Items
      /\ DOMAIN queue = 1..Len(queue) /\ Len(queue) \in Nat \ {0}
      /\ DOMAIN queue' = 1..(Len(queue) - 1)
      /\ \A i \in DOMAIN queue' : i + 1 \in DOMAIN queue /\ queue'[i] = queue[i + 1]
      /\ queue' \in Seq(Items)
    BY <1>1, TailElements DEF TypeOK
<1>3. Len(queue') = Len(queue) - 1
    BY <1>1, <1>2 DEF TypeOK
<1>4. /\ queue[1].kind = "chunk" => wpc' = "work"
      /\ wpc' = "stopped" => queue[1].kind = "stop"
  <2>1. queue[1].kind \in {"chunk", "speak", "stop"}
      BY <1>2 DEF Items
  <2> QED
      BY <1>2, <2>1 DEF Get
<1>5. queue[1].kind = "chunk" => queue[1].n \in Chunks
    BY <1>2 DEF Queued
<1> QED
    BY <1>1, <1>2, <1>3, <1>4, <1>5

(* What Cuts does to the fates.                                             *)
LEMMA CutFate ==
    ASSUME Shape, NEW k \in Conns, NEW pc \in {"put", "putlast"}, Cuts(k, pc)
    PROVE  /\ made + 1 \in Chunks /\ made \in Nat
           /\ fate[made + 1] = "none" /\ fate'[made + 1] = "counted"
           /\ owner[made + 1] = NoCall /\ owner'[made + 1] = call[k]
           /\ \A x \in Chunks : x # made + 1 => fate'[x] = fate[x] /\ owner'[x] = owner[x]
           /\ \A x \in Chunks : fate[x] # "none" => x < made + 1
           /\ UNCHANGED <<queue, ready, wpc, item, call>>
<1> USE DEF Shape
<1>1. made < MaxChunks /\ made \in Nat /\ MaxChunks \in Nat
    BY BoundsAssumption DEF Cuts, Count, TypeOK
<1>2. made + 1 \in Chunks /\ made + 1 > made
    BY <1>1 DEF Chunks
<1>3. /\ fate' = [fate EXCEPT ![made + 1] = "counted"]
      /\ owner' = [owner EXCEPT ![made + 1] = call[k]]
      /\ UNCHANGED <<queue, ready, wpc, item, call>>
    BY DEF Cuts, Count, wvars
<1>4. \A x \in Chunks : fate[x] # "none" => x < made + 1
    BY <1>1 DEF Made, Chunks
<1> QED
    BY <1>1, <1>2, <1>3, <1>4 DEF Made, TypeOK

(* The line stays in order.                                                 *)
LEMMA InLineStep ==
    ASSUME Shape, InLine, [Next]_vars
    PROVE  InLine'
<1>n. Chunks \subseteq Nat
    BY BoundsAssumption DEF Chunks
<1>1. ASSUME NEW k \in Conns, NEW pc \in {"put", "putlast"}, Cuts(k, pc)
      PROVE  InLine'
  <2>1. /\ UNCHANGED <<queue, wpc, item>>
        /\ \A x \in Chunks :
              \/ fate'[x] = fate[x]
              \/ fate[x] = "none" /\ fate'[x] = "counted"
    <3>1. ASSUME NEW x \in Chunks, x # made + 1
          PROVE  fate'[x] = fate[x]
        BY <1>1, <3>1, CutFate
    <3>2. /\ UNCHANGED <<queue, wpc, item>>
          /\ fate[made + 1] = "none" /\ fate'[made + 1] = "counted"
        BY <1>1, CutFate
    <3> QED
        BY <3>1, <3>2
  <2>2. \A x, y \in Chunks : x < y /\ fate'[y] \notin {"none", "counted", "queued"} =>
          fate'[x] \notin Unfinished
    <3> SUFFICES ASSUME NEW x \in Chunks, NEW y \in Chunks, x < y,
                        fate'[y] \notin {"none", "counted", "queued"}
                 PROVE  fate'[x] \notin Unfinished
        OBVIOUS
    <3>1. fate[y] \notin {"none", "counted", "queued"} /\ y < made + 1 /\ made \in Nat
        BY <1>1, <2>1, CutFate
    <3>2. x # made + 1
        BY <1>n, <3>1
    <3> QED
        BY <1>1, <3>1, <3>2, CutFate DEF InLine
  <2> QED
      BY <2>1, <2>2 DEF InLine
<1>2. ASSUME NEW k \in Conns, Put(k)
      PROVE  InLine'
  <2>1. \A i \in DOMAIN queue : queue[i].kind = "chunk" => queue[i].n < made
    <3> SUFFICES ASSUME NEW i \in DOMAIN queue, queue[i].kind = "chunk"
                 PROVE  queue[i].n < made
        OBVIOUS
    <3>1. queue[i].n \in Chunks /\ fate[queue[i].n] = "queued"
        BY DEF Shape, Queued
    <3>2. ~(queue[i].n > made) /\ queue[i].n # made /\ made \in Chunks
        BY <1>2, <3>1, PutSteps DEF Shape, Made
    <3>3. \A n, m \in Nat : ~(n > m) /\ n # m => n < m
        OBVIOUS
    <3> QED
        BY ONLY <1>n, <3>1, <3>2, <3>3
  <2>2. \A i, j \in DOMAIN queue' :
          i < j /\ queue'[i].kind = "chunk" /\ queue'[j].kind = "chunk" => queue'[i].n < queue'[j].n
    <3>1. \A i, j \in DOMAIN queue' : i < j => i \in DOMAIN queue
        BY <1>2, PutSteps
    <3> QED
        BY <1>2, <2>1, <3>1, PutSteps DEF InLine
  <2>3. \A x \in Chunks : fate'[x] = "queued" =>
          \E i \in DOMAIN queue' : queue'[i].kind = "chunk" /\ queue'[i].n = x
      BY <1>2, PutSteps DEF InLine
  <2>4. \A x \in Chunks : /\ fate'[x] \in Unfinished => fate[x] \in Unfinished
                          /\ fate'[x] = fate[x] \/ fate'[x] = "queued"
      BY <1>2, PutSteps DEF Unfinished
  <2>5. UNCHANGED <<wpc, item>>
      BY <1>2, PutSteps
  <2> QED
      BY <2>2, <2>3, <2>4, <2>5 DEF InLine
<1>3. CASE (\E k \in Conns : QueueSpeech(k)) \/ FinishStop
  <2>1. /\ UNCHANGED <<fate, wpc, item>> /\ DOMAIN queue \subseteq DOMAIN queue'
        /\ \A i \in DOMAIN queue' : queue'[i].kind = "chunk" => i \in DOMAIN queue
        /\ \A i \in DOMAIN queue : queue'[i] = queue[i]
      BY <1>3, AppendSteps
  <2>2. \A i, j \in DOMAIN queue' :
          i < j /\ queue'[i].kind = "chunk" /\ queue'[j].kind = "chunk" => queue'[i].n < queue'[j].n
      BY <2>1 DEF InLine
  <2>3. \A x \in Chunks : fate'[x] = "queued" =>
          \E i \in DOMAIN queue' : queue'[i].kind = "chunk" /\ queue'[i].n = x
      BY <2>1 DEF InLine
  <2> QED
      BY <2>1, <2>2, <2>3 DEF InLine
<1>4. CASE Get
  <2>1. \A i \in DOMAIN queue' : i \in Nat /\ i + 1 \in DOMAIN queue /\ queue'[i] = queue[i + 1]
      BY <1>4, GetSteps
  <2>2. \A i, j \in DOMAIN queue' :
          i < j /\ queue'[i].kind = "chunk" /\ queue'[j].kind = "chunk" => queue'[i].n < queue'[j].n
    <3>1. \A i, j \in Nat : i < j => i + 1 < j + 1
        OBVIOUS
    <3> QED
        BY <2>1, <3>1 DEF InLine
  <2>3. \A x \in Chunks : fate'[x] = "queued" =>
          \E i \in DOMAIN queue' : queue'[i].kind = "chunk" /\ queue'[i].n = x
    <3> SUFFICES ASSUME NEW x \in Chunks, fate'[x] = "queued"
                 PROVE  \E i \in DOMAIN queue' : queue'[i].kind = "chunk" /\ queue'[i].n = x
        OBVIOUS
    <3>1. fate[x] = "queued" /\ ~(queue[1].kind = "chunk" /\ x = queue[1].n)
        BY <1>4, GetFate
    <3>2. PICK j \in DOMAIN queue : queue[j].kind = "chunk" /\ queue[j].n = x
        BY <3>1 DEF InLine
    <3>3. j # 1
        BY <3>1, <3>2
    <3>4. j - 1 \in DOMAIN queue' /\ (j - 1) + 1 = j
        BY <1>4, <3>3, GetSteps
    <3> QED
        BY <2>1, <3>2, <3>4
  <2>4. \A x \in Chunks : fate[x] # "work"
      BY <1>4, GetSteps DEF InLine
  <2>5. \A x \in Chunks : fate'[x] = "work" => wpc' \in {"work", "crashed"} /\ item'.n = x
      BY <1>4, <2>4, GetSteps, GetFate
  <2>6. \A x, y \in Chunks : x < y /\ fate'[y] \notin {"none", "counted", "queued"} =>
          fate'[x] \notin Unfinished
    <3> SUFFICES ASSUME NEW x \in Chunks, NEW y \in Chunks, x < y,
                        fate'[y] \notin {"none", "counted", "queued"}
                 PROVE  fate'[x] \notin Unfinished
        OBVIOUS
    <3>1. CASE queue[1].kind = "chunk" /\ y = queue[1].n
      <4>1. 1 \in DOMAIN queue /\ fate[y] = "queued"
          BY <1>4, <3>1, GetFate
      <4>2. fate[x] # "none" /\ fate[x] # "counted"
        <5>1. y \in 1..made
            BY <1>n, <4>1 DEF Shape, Made, TypeOK, Chunks
        <5>2. x <= made /\ x # made
            BY <1>n, <5>1 DEF Shape, TypeOK
        <5>3. ~(x > made)
            BY <1>n, <5>2 DEF Shape, TypeOK
        <5> QED
            BY <5>2, <5>3 DEF Shape, Made
      <4>3. fate[x] # "queued"
        <5> SUFFICES ASSUME fate[x] = "queued" PROVE FALSE
            OBVIOUS
        <5>1. PICK j \in DOMAIN queue : queue[j].kind = "chunk" /\ queue[j].n = x
            BY DEF InLine
        <5>2. j # 1
            BY <1>n, <3>1, <5>1
        <5>3. 1 < j
            BY <1>4, <5>2, GetSteps
        <5>4. y < x
            BY <3>1, <4>1, <5>1, <5>3 DEF InLine
        <5> QED
            BY <1>n, <5>4
      <4>4. x # y
          BY <1>n
      <4> QED
          BY <1>4, <2>4, <3>1, <4>2, <4>3, <4>4, GetFate DEF Unfinished
    <3>2. CASE ~(queue[1].kind = "chunk" /\ y = queue[1].n)
      <4>1. fate[y] \notin {"none", "counted", "queued"}
          BY <1>4, <3>2, GetFate
      <4>2. fate[x] \notin Unfinished
          BY <4>1 DEF InLine
      <4> QED
          BY <1>4, <4>2, GetFate DEF Unfinished
    <3> QED
        BY <3>1, <3>2
  <2> QED
      BY <2>2, <2>3, <2>5, <2>6 DEF InLine
<1>5. CASE Emit
  <2>1. queue' = queue
      BY <1>5 DEF Emit
  <2>2. \A x \in Chunks : /\ fate'[x] \in Unfinished => fate[x] \in Unfinished /\ fate'[x] = fate[x]
                          /\ fate'[x] # "work"
      BY <1>5, EmitFate DEF InLine, Unfinished
  <2>3. \A x \in Chunks : fate'[x] \notin {"none", "counted", "queued"} =>
                          fate[x] \notin {"none", "counted", "queued"}
      BY <1>5, EmitFate
  <2> QED
      BY <2>1, <2>2, <2>3 DEF InLine, Unfinished
<1>6. CASE KeepsLine
  <2>1. \A x \in Chunks : /\ fate'[x] \in Unfinished => fate[x] \in Unfinished /\ fate'[x] = fate[x]
                          /\ fate'[x] \notin {"none", "counted", "queued"} =>
                                fate[x] \notin {"none", "counted", "queued"}
      BY <1>6 DEF KeepsLine, Unfinished
  <2> QED
      BY <1>6, <2>1 DEF KeepsLine, InLine, Unfinished
<1> QED
    BY <1>1, <1>2, <1>3, <1>4, <1>5, <1>6, LineSteps

-----------------------------------------------------------------------------
(* The sentinel.                                                            *)

(* Once stop() is through no handler moves, and the queue only gets shorter.  *)
LEMMA Halted ==
    ASSUME Shape, [Next]_vars, stopping = "done", \A k \in Conns : hpc[k] \in {"new", "closed"}
    PROVE  /\ UNCHANGED <<hpc, stopping>>
           /\ Get \/ Emit \/ KeepsLine
<1> USE DEF Shape
<1>1. ASSUME NEW k \in Conns
      PROVE  ~Handler(k) \/ SocketCloses(k)
    BY DEF Handler, MidCall, Accept, CallStart, AudioAdopted, AudioOpens, AudioCloses, WatchIdle,
       QueueSpeech, CallEnd, EndOfStream, DrainTimeout, Put, Check, Leave, Drop, Resumes
<1>2. ASSUME NEW k \in Conns, SocketCloses(k)
      PROVE  UNCHANGED <<hpc, stopping>> /\ KeepsLine
    BY <1>2 DEF SocketCloses, hvars, cvars, wvars, KeepsLine
<1>3. ~BeginStop /\ ~FinishStop
    BY DEF BeginStop, FinishStop
<1>4. CASE RunCallback
  <2>1. \A k \in Conns : hpc'[k] = hpc[k]
      BY <1>4 DEF RunCallback
  <2>2. hpc' \in [Conns -> HandlerPC]
      BY TypeStep DEF TypeOK
  <2>3. hpc' = hpc
      BY <2>1, <2>2 DEF TypeOK
  <2>4. UNCHANGED <<queue, wpc, item, stopping>>
      BY <1>4 DEF RunCallback, wvars
  <2> QED
      BY <1>4, <2>3, <2>4, CallbackFate DEF KeepsLine
<1>5. CASE ChunkDone \/ Notify \/ Speak \/ Crash
  <2>1. KeepsLine
      BY <1>5 DEF ChunkDone, Notify, Speak, Crash, KeepsLine, cvars
  <2> QED
      BY <1>5, <2>1 DEF ChunkDone, Notify, Speak, Crash, hvars
<1>6. CASE Get \/ Emit
    BY <1>6 DEF Get, Emit, hvars
<1>7. CASE Finished \/ UNCHANGED vars
    BY <1>7 DEF Finished, vars, KeepsLine
<1> QED
    BY <1>1, <1>2, <1>3, <1>4, <1>5, <1>6, <1>7 DEF Next, WorkerStep

(* stop() gets through only by FinishStop.                                   *)
LEMMA StopSteps ==
    ASSUME [Next]_vars, stopping' = "done"
    PROVE  stopping = "done" \/ FinishStop
<1>1. ASSUME NEW k \in Conns, Handler(k)
      PROVE  stopping' = stopping
  <2>1. CASE \/ Accept(k) \/ CallStart(k) \/ AudioAdopted(k) \/ AudioOpens(k) \/ AudioCloses(k)
             \/ WatchIdle(k) \/ QueueSpeech(k) \/ DrainTimeout(k) \/ SocketCloses(k)
      BY <2>1 DEF Accept, CallStart, AudioAdopted, AudioOpens, AudioCloses, WatchIdle, QueueSpeech,
         DrainTimeout, SocketCloses
  <2>2. CASE CallEnd(k) \/ EndOfStream(k)
      BY <2>2 DEF CallEnd, EndOfStream, EndCall
  <2>3. CASE MidCall(k)
      BY <2>3 DEF MidCall, Put, Check, Leave, Drop
  <2> QED
      BY <1>1, <2>1, <2>2, <2>3 DEF Handler
<1>2. CASE RunCallback \/ WorkerStep \/ Crash \/ Finished \/ UNCHANGED vars
    BY <1>2 DEF RunCallback, WorkerStep, Get, Emit, ChunkDone, Notify, Speak, Crash, Finished, vars
<1>3. CASE BeginStop
    BY <1>3 DEF BeginStop
<1> QED
    BY <1>1, <1>2, <1>3 DEF Next

(* The sentinel stays last.                                                 *)
LEMMA StoppingStep ==
    ASSUME Shape, InLine, Stopping, [Next]_vars
    PROVE  Stopping'
<1>1. CASE stopping = "done"
  <2>1. /\ UNCHANGED <<hpc, stopping>>
        /\ Get \/ Emit \/ KeepsLine
      BY <1>1, Halted DEF Stopping
  <2>2. CASE KeepsLine
    <3>1. \A x \in Chunks : fate'[x] \in Unfinished => fate[x] \in Unfinished
        BY <2>2 DEF KeepsLine, Unfinished
    <3> QED
        BY <2>1, <2>2, <3>1 DEF KeepsLine, Stopping
  <2>3. CASE Emit
    <3>1. queue' = queue /\ wpc' # "stopped"
        BY <2>3 DEF Emit
    <3> QED
        BY <2>1, <3>1 DEF Stopping
  <2>4. CASE Get
    <3>1. \A i \in DOMAIN queue' : queue'[i].kind = "stop" => i = Len(queue')
      <4> SUFFICES ASSUME NEW i \in DOMAIN queue', queue'[i].kind = "stop"
                   PROVE  i = Len(queue')
          OBVIOUS
      <4>1. i + 1 = Len(queue)
          BY <2>4, GetSteps DEF Stopping
      <4>2. Len(queue) \in Nat /\ Len(queue') = Len(queue) - 1 /\ i \in 1..(Len(queue) - 1)
          BY <2>4, GetSteps
      <4> QED
          BY <4>1, <4>2
    <3>2. ASSUME wpc' = "stopped"
          PROVE  queue' = <<>> /\ \A x \in Chunks : fate'[x] \notin Unfinished
      <4>1. queue[1].kind = "stop" /\ 1 \in DOMAIN queue
          BY <2>4, <3>2, GetSteps
      <4>2. Len(queue) = 1
          BY <4>1 DEF Stopping
      <4>3. DOMAIN queue = {1} /\ queue' \in Seq(Items) /\ Len(queue') = 0
          BY <2>4, <4>2, GetSteps
      <4>4. \A x \in Chunks : fate[x] # "queued"
          BY <4>1, <4>3 DEF InLine
      <4>5. \A x \in Chunks : fate[x] # "counted"
          BY <1>1 DEF Stopping, Shape, Made
      <4>6. \A x \in Chunks : fate[x] # "work"
          BY <2>4, GetSteps DEF InLine
      <4>7. \A x \in Chunks : fate'[x] = fate[x]
          BY <2>4, <4>1, GetFate
      <4> QED
          BY <4>3, <4>4, <4>5, <4>6, <4>7 DEF Unfinished
    <3> QED
        BY <1>1, <2>1, <3>1, <3>2 DEF Stopping
  <2> QED
      BY <2>1, <2>2, <2>3, <2>4
<1>2. CASE stopping # "done"
  <2>1. /\ \A i \in DOMAIN queue : queue[i].kind # "stop"
        /\ wpc # "stopped"
      BY <1>2 DEF Stopping
  <2>2. CASE FinishStop
    <3>1. stopping' = "done" /\ hpc' = hpc /\ \A k \in Conns : hpc[k] \in {"new", "closed"}
        BY <2>2 DEF FinishStop, hvars
    <3>2. \A i \in DOMAIN queue' : queue'[i].kind = "stop" => i = Len(queue')
        BY <2>1, <2>2, AppendSteps
    <3>3. wpc' # "stopped"
        BY <2>1, <2>2, AppendSteps
    <3> QED
        BY <3>1, <3>2, <3>3 DEF Stopping
  <2>3. CASE ~FinishStop
    <3>1. stopping' # "done"
        BY <1>2, <2>3, StopSteps
    <3>2. (\A i \in DOMAIN queue' : queue'[i].kind # "stop") /\ wpc' # "stopped"
      <4>1. ASSUME NEW k \in Conns, NEW pc \in {"put", "putlast"}, Cuts(k, pc)
            PROVE  queue' = queue /\ wpc' = wpc
          BY <4>1, CutFate
      <4>2. ASSUME NEW k \in Conns, Put(k)
            PROVE  (\A i \in DOMAIN queue' : queue'[i].kind # "stop") /\ wpc' # "stopped"
          BY <2>1, <4>2, PutSteps
      <4>3. ASSUME NEW k \in Conns, QueueSpeech(k)
            PROVE  (\A i \in DOMAIN queue' : queue'[i].kind # "stop") /\ wpc' # "stopped"
          BY <2>1, <2>3, <4>3, AppendSteps
      <4>4. CASE Get
        <5>1. queue[1].kind # "stop"
            BY <2>1, <4>4, GetFate
        <5> QED
            BY <2>1, <4>4, <5>1, GetSteps
      <4>5. CASE Emit
          BY <2>1, <4>5 DEF Emit
      <4>6. CASE KeepsLine
          BY <2>1, <4>6 DEF KeepsLine
      <4> QED
          BY <2>1, <2>3, <4>1, <4>2, <4>3, <4>4, <4>5, <4>6, LineSteps
    <3> QED
        BY <3>1, <3>2 DEF Stopping
  <2> QED
      BY <2>2, <2>3
<1> QED
    BY <1>1, <1>2

-----------------------------------------------------------------------------
(* The last utterance of a call.                                            *)

(* A handler that has left its loop keeps its call and does not go back.     *)
LEMMA EndingSteps ==
    ASSUME Shape, [Next]_vars, NEW k \in Conns, hpc[k] \in Ending \cup {"closed"}
    PROVE  hpc'[k] \in Ending \cup {"closed"} /\ call'[k] = call[k]
<1> USE DEF Shape
<1>t. hpc \in [Conns -> HandlerPC] /\ call \in [Conns -> Calls \cup {NoCall}]
    BY DEF TypeOK
<1>0. hpc[k] \notin {"new", "recv", "put"}
    BY DEF Ending
<1>1. ASSUME NEW j \in Conns, Accept(j) \/ CallStart(j) \/ AudioAdopted(j) \/ AudioOpens(j)
      PROVE  hpc'[k] = hpc[k] /\ call'[k] = call[k]
    BY <1>t, <1>0, <1>1 DEF Accept, CallStart, AudioAdopted, AudioOpens, Resumes
<1>2. ASSUME NEW j \in Conns,
             AudioCloses(j) \/ WatchIdle(j) \/ CallEnd(j) \/ EndOfStream(j)
      PROVE  hpc'[k] = hpc[k] /\ call'[k] = call[k]
  <2>1. /\ hpc[j] = "recv" /\ call' = call
        /\ \E pc \in HandlerPC : hpc' = [hpc EXCEPT ![j] = pc]
    <3>1. CASE AudioCloses(j) \/ WatchIdle(j)
        BY <3>1 DEF AudioCloses, WatchIdle, Resumes, Count, HandlerPC, MidStep
    <3>2. CASE CallEnd(j) \/ EndOfStream(j)
        BY <3>2 DEF CallEnd, EndOfStream, Resumes, EndCall, Count, HandlerPC, MidStep
    <3> QED
        BY <1>2, <3>1, <3>2
  <2> QED
      BY <1>t, <1>0, <2>1
<1>3. ASSUME NEW j \in Conns,
             \/ QueueSpeech(j) \/ DrainTimeout(j) \/ SocketCloses(j)
             \/ Put(j) \/ Check(j) \/ Leave(j) \/ Drop(j)
      PROVE  hpc'[k] \in Ending \cup {"closed"} /\ call'[k] = call[k]
  <2>1. CASE QueueSpeech(j) \/ SocketCloses(j)
      BY <2>1 DEF QueueSpeech, SocketCloses
  <2>2. CASE DrainTimeout(j) \/ Check(j) \/ Leave(j) \/ Drop(j)
      BY <1>t, <2>2 DEF DrainTimeout, Check, Leave, Drop, Ending
  <2>3. CASE Put(j)
      BY <1>t, <1>0, <2>3 DEF Put, Ending
  <2> QED
      BY <1>3, <2>1, <2>2, <2>3
<1>4. CASE RunCallback
  <2>1. call' = call /\ (hpc'[k] = hpc[k] \/ hpc'[k] = "leave")
      BY <1>4 DEF RunCallback
  <2> QED
      BY <2>1 DEF Ending
<1>5. CASE WorkerStep \/ Crash \/ BeginStop \/ FinishStop \/ Finished \/ UNCHANGED vars
    BY <1>5 DEF WorkerStep, Get, Emit, ChunkDone, Notify, Speak, Crash, BeginStop, FinishStop,
       Finished, vars, hvars
<1> QED
    BY <1>1, <1>2, <1>3, <1>4, <1>5 DEF Next, Handler, MidCall

(* Chunks are made, given a call and marked final only when they are cut.     *)
LEMMA FinalSteps ==
    ASSUME Shape, [Next]_vars
    PROVE  \/ \E k \in Conns : \E pc \in {"put", "putlast"} : Cuts(k, pc)
           \/ UNCHANGED <<owner, made, final>>
<1> USE DEF Shape
<1>1. ASSUME NEW k \in Conns, AudioCloses(k) \/ WatchIdle(k)
      PROVE  Cuts(k, "put")
    BY <1>1 DEF AudioCloses, WatchIdle, Cuts, Resumes, TypeOK
<1>2. ASSUME NEW k \in Conns, CallEnd(k) \/ EndOfStream(k)
      PROVE  Cuts(k, "putlast") \/ UNCHANGED <<owner, made, final>>
  <2>1. Resumes(k) /\ EndCall(k)
      BY <1>2 DEF CallEnd, EndOfStream
  <2>2. CASE call[k] = NoCall \/ ~open[k]
      BY <2>1, <2>2 DEF EndCall, cvars
  <2>3. CASE call[k] # NoCall /\ open[k]
      BY <2>1, <2>3 DEF EndCall, Cuts, Resumes, TypeOK
  <2> QED
      BY <2>2, <2>3
<1>3. ASSUME NEW k \in Conns,
             \/ Accept(k) \/ CallStart(k) \/ AudioAdopted(k) \/ AudioOpens(k) \/ QueueSpeech(k)
             \/ DrainTimeout(k) \/ SocketCloses(k) \/ Put(k) \/ Check(k) \/ Leave(k) \/ Drop(k)
      PROVE  UNCHANGED <<owner, made, final>>
    BY <1>3 DEF Accept, CallStart, AudioAdopted, AudioOpens, QueueSpeech, DrainTimeout,
       SocketCloses, Put, Check, Leave, Drop, cvars
<1>4. CASE RunCallback \/ WorkerStep \/ Crash \/ BeginStop \/ FinishStop \/ Finished
           \/ UNCHANGED vars
    BY <1>4 DEF RunCallback, WorkerStep, Get, Emit, ChunkDone, Notify, Speak, Crash, BeginStop,
       FinishStop, Finished, vars, cvars
<1> QED
    BY <1>1, <1>2, <1>3, <1>4 DEF Next, Handler, MidCall

(* Final chunks stay the last of their calls.                               *)
LEMMA LastOfCallStep ==
    ASSUME Shape, LastOfCall, [Next]_vars
    PROVE  LastOfCall'
<1> DEFINE Over(c) == EndedIn(c, Ending \cup {"closed"})
<1>1. \A c : Over(c) => Over(c)'
  <2> SUFFICES ASSUME NEW c, NEW k \in Conns, call[k] = c, hpc[k] \in Ending \cup {"closed"}
               PROVE  Over(c)'
      BY DEF EndedIn
  <2>1. hpc'[k] \in Ending \cup {"closed"} /\ call'[k] = c
      BY EndingSteps
  <2> QED
      BY <2>1 DEF EndedIn
<1> HIDE DEF Over
<1>2. \A x \in final : x \in 1..made /\ Over(owner[x])
    BY DEF LastOfCall, Over
<1>3. CASE UNCHANGED <<owner, made, final>>
  <2>1. \A x \in final' : x \in 1..made' /\ \A c : c = owner'[x] => Over(c)'
      BY <1>1, <1>2, <1>3
  <2>2. FinalIsLast'
      BY <1>3 DEF LastOfCall, FinalIsLast
  <2>3. \A x \in final' : EndedIn(owner[x], Ending \cup {"closed"})'
      BY <2>1 DEF Over, EndedIn
  <2> QED
      BY <2>1, <2>2, <2>3 DEF LastOfCall
<1>4. ASSUME NEW k \in Conns, NEW pc \in {"put", "putlast"}, Cuts(k, pc)
      PROVE  LastOfCall'
  <2>1. /\ made + 1 \in Chunks /\ made \in Nat /\ made' = made + 1
        /\ owner'[made + 1] = call[k]
        /\ \A x \in Chunks : x # made + 1 => owner'[x] = owner[x]
        /\ call[k] \in Calls /\ hpc[k] = "recv"
        /\ final' = final \/ (final' = final \cup {made + 1} /\ pc = "putlast")
      BY <1>4, CutFate DEF Cuts, Count
  <2>2. final \subseteq Chunks /\ Chunks \subseteq Nat /\ final' \subseteq Chunks
      BY BoundsAssumption, TypeStep DEF Shape, TypeOK, Chunks
  <2>3. ~Over(call[k])
      BY <2>1, OwnHandler DEF Over, Ending
  <2>4. \A x \in final : x < made + 1 /\ owner'[x] = owner[x] /\ owner[x] # call[k]
    <3> SUFFICES ASSUME NEW x \in final
                 PROVE  x < made + 1 /\ owner'[x] = owner[x] /\ owner[x] # call[k]
        OBVIOUS
    <3>1. x \in 1..made /\ Over(owner[x])
        BY <1>2
    <3>2. x < made + 1 /\ x # made + 1
        BY <2>1, <3>1
    <3> QED
        BY <2>1, <2>2, <2>3, <3>1, <3>2
  <2>5. pc = "putlast" => \A c : c = call[k] => Over(c)'
    <3>1. hpc' = [hpc EXCEPT ![k] = pc] /\ call' = call
        BY <1>4 DEF Cuts, Count
    <3>2. pc = "putlast" => hpc'[k] \in Ending \cup {"closed"}
        BY <3>1 DEF Ending, Shape, TypeOK
    <3> QED
        BY <3>1, <3>2 DEF Over, EndedIn
  <2>6. \A x \in final' : x \in 1..made' /\ \A c : c = owner'[x] => Over(c)'
    <3> SUFFICES ASSUME NEW x \in final'
                 PROVE  x \in 1..made' /\ \A c : c = owner'[x] => Over(c)'
        OBVIOUS
    <3>1. CASE x \in final
      <4>1. x \in 1..made /\ Over(owner[x]) /\ owner'[x] = owner[x]
          BY <1>2, <2>4, <3>1
      <4> QED
          BY <1>1, <2>1, <4>1
    <3>2. CASE x \notin final
        BY <2>1, <2>5, <3>2
    <3> QED
        BY <3>1, <3>2
  <2>7. FinalIsLast'
    <3> SUFFICES ASSUME NEW x \in final', NEW y \in Chunks, owner'[y] = owner'[x]
                 PROVE  y <= x
        BY DEF FinalIsLast, Chunks
    <3>1. CASE x \in final
      <4>1. y # made + 1 /\ owner'[y] = owner[y] /\ owner[y] = owner[x]
          BY <2>1, <2>4, <3>1
      <4> QED
          BY <3>1, <4>1 DEF LastOfCall, FinalIsLast
    <3>2. CASE x \notin final
      <4>1. x = made + 1 /\ owner'[y] = call[k]
          BY <2>1, <3>2
      <4>2. CASE y > made + 1
        <5>1. owner[y] = NoCall /\ y # made + 1
            BY <2>1, <2>2, <4>2 DEF Shape, Made
        <5> QED
            BY <2>1, <4>1, <5>1, CallsAssumption
      <4> QED
          BY <2>1, <2>2, <4>1, <4>2
    <3> QED
        BY <3>1, <3>2
  <2>8. \A x \in final' : EndedIn(owner[x], Ending \cup {"closed"})'
      BY <2>6 DEF Over, EndedIn
  <2> QED
      BY <2>6, <2>7, <2>8 DEF LastOfCall
<1> QED
    BY <1>3, <1>4, FinalSteps

-----------------------------------------------------------------------------
(* Sends on the loop.                                                       *)

(* What RunCallback does, by the kind of the oldest callback.                *)
LEMMA CallbackSteps ==
    ASSUME Shape, RunCallback
    PROVE  /\ ready # <<>> /\ Head(ready) = ready[1] /\ ready[1] \in Callbacks
           /\ 1 \in DOMAIN ready /\ Tail(ready) \in Seq(Callbacks)
           /\ UNCHANGED <<call, sock, sockets, owner, made, queue, wpc, item>>
           /\ LET cb == ready[1]
                  task == [cb EXCEPT !.kind = "send"] IN
              \/ /\ cb.kind = "mksend" /\ ready' = Append(Tail(ready), task)
                 /\ task \in Callbacks /\ task.kind = "send" /\ task.n = cb.n
                 /\ task.call = cb.call /\ task.conn = cb.conn
                 /\ fate' = fate
              \/ /\ cb.kind = "send" /\ ready' = Tail(ready)
                 /\ \/ cb.n = 0 /\ fate' = fate
                    \/ /\ cb.n \in Chunks
                       /\ fate'[cb.n] = IF sock[cb.conn] = "open" THEN "sent" ELSE "lost"
                       /\ \A x \in Chunks : x # cb.n => fate'[x] = fate[x]
              \/ /\ cb.kind = "set" /\ fate' = fate
                 /\ \/ ready' = Tail(ready)
                    \/ ready' = Append(Tail(ready), EventOn("wake", cb.call))
              \/ /\ cb.kind = "wake" /\ fate' = fate /\ ready' = Tail(ready)
<1> USE DEF Shape
<1> DEFINE cb == ready[1]
           task == [cb EXCEPT !.kind = "send"]
<1>1. /\ ready # <<>> /\ Head(ready) = ready[1] /\ ready[1] \in Callbacks
      /\ 1 \in DOMAIN ready /\ Tail(ready) \in Seq(Callbacks)
    BY TailElements DEF RunCallback, TypeOK
<1>2. UNCHANGED <<call, sock, sockets, owner, made, queue, wpc, item>>
    BY DEF RunCallback, wvars
<1>3. task \in Callbacks /\ task.kind = "send" /\ task.n = cb.n
      /\ task.call = cb.call /\ task.conn = cb.conn
    BY <1>1 DEF Callbacks
<1>4. \/ cb.kind = "mksend" /\ ready' = Append(Tail(ready), task) /\ fate' = fate
      \/ /\ cb.kind = "send" /\ ready' = Tail(ready)
         /\ fate' = IF cb.n = 0 THEN fate
                    ELSE [fate EXCEPT ![cb.n] = IF sock[cb.conn] = "open" THEN "sent" ELSE "lost"]
      \/ /\ cb.kind = "set" /\ fate' = fate
         /\ \/ ready' = Tail(ready)
            \/ ready' = Append(Tail(ready), EventOn("wake", cb.call))
      \/ cb.kind = "wake" /\ fate' = fate /\ ready' = Tail(ready)
    BY <1>1 DEF RunCallback
<1>5. cb.n \in Chunks \cup {0} /\ fate \in [Chunks -> Fates]
    BY <1>1 DEF Callbacks, TypeOK
<1>6. cb.kind = "send" =>
        \/ cb.n = 0 /\ fate' = fate
        \/ /\ cb.n \in Chunks
           /\ fate'[cb.n] = IF sock[cb.conn] = "open" THEN "sent" ELSE "lost"
           /\ \A x \in Chunks : x # cb.n => fate'[x] = fate[x]
    BY <1>4, <1>5
<1> HIDE DEF task, cb
<1>7. \/ /\ cb.kind = "mksend" /\ ready' = Append(Tail(ready), task)
         /\ task \in Callbacks /\ task.kind = "send" /\ task.n = cb.n
         /\ task.call = cb.call /\ task.conn = cb.conn
         /\ fate' = fate
      \/ /\ cb.kind = "send" /\ ready' = Tail(ready)
         /\ \/ cb.n = 0 /\ fate' = fate
            \/ /\ cb.n \in Chunks
               /\ fate'[cb.n] = IF sock[cb.conn] = "open" THEN "sent" ELSE "lost"
               /\ \A x \in Chunks : x # cb.n => fate'[x] = fate[x]
      \/ /\ cb.kind = "set" /\ fate' = fate
         /\ \/ ready' = Tail(ready)
            \/ ready' = Append(Tail(ready), EventOn("wake", cb.call))
      \/ /\ cb.kind = "wake" /\ fate' = fate /\ ready' = Tail(ready)
    BY <1>3, <1>4, <1>6
<1> QED
    BY <1>1, <1>2, <1>7 DEF task, cb

(* The callbacks change by RunCallback, or the worker posts one, or none do.  *)
LEMMA ReadySteps ==
    ASSUME Shape, [Next]_vars
    PROVE  \/ RunCallback
           \/ /\ Emit /\ fate'[item.n] = "scheduled" /\ sockets[item.call] # NoConn
              /\ ready' = Append(ready, SendOn("mksend", item.call, sockets[item.call], item.n))
           \/ Notify /\ ready' = Append(ready, EventOn("set", item.call)) /\ fate' = fate
           \/ /\ Speak /\ fate' = fate
              /\ ready' = Append(ready, SendOn("mksend", item.call, sockets[item.call], 0))
           \/ /\ ready' = ready
              /\ \A x \in Chunks : \/ fate'[x] = fate[x]
                                   \/ fate'[x] \notin {"scheduled", "sent"}
                                      /\ fate[x] \in Unfinished \cup {"none"}
<1> USE DEF Shape
<1>1. ASSUME NEW k \in Conns, Handler(k)
      PROVE  ready' = ready
    BY <1>1, HandlerQuiet
<1>2. ASSUME NEW k \in Conns, Handler(k)
      PROVE  \A x \in Chunks : \/ fate'[x] = fate[x]
                               \/ /\ fate'[x] \in {"counted", "queued"}
                                  /\ fate[x] \in {"none", "counted"}
  <2>1. ASSUME NEW j \in Conns, NEW pc \in {"put", "putlast"}, Cuts(j, pc)
        PROVE  \A x \in Chunks : fate'[x] = fate[x] \/ (fate[x] = "none" /\ fate'[x] = "counted")
    <3>1. ASSUME NEW x \in Chunks, x # made + 1
          PROVE  fate'[x] = fate[x]
        BY <2>1, <3>1, CutFate
    <3>2. fate[made + 1] = "none" /\ fate'[made + 1] = "counted"
        BY <2>1, CutFate
    <3> QED
        BY <3>1, <3>2
  <2>2. CASE AudioCloses(k) \/ WatchIdle(k)
    <3>1. Cuts(k, "put")
        BY <2>2 DEF AudioCloses, WatchIdle, Cuts, Resumes, TypeOK
    <3> QED
        BY <2>1, <3>1
  <2>3. CASE CallEnd(k) \/ EndOfStream(k)
    <3>1. Resumes(k) /\ EndCall(k)
        BY <2>3 DEF CallEnd, EndOfStream
    <3>2. CASE call[k] = NoCall \/ ~open[k]
        BY <3>1, <3>2 DEF EndCall, cvars
    <3>3. CASE call[k] # NoCall /\ open[k]
      <4>1. Cuts(k, "putlast")
          BY <3>1, <3>3 DEF EndCall, Cuts, Resumes, TypeOK
      <4> QED
          BY <2>1, <4>1
    <3> QED
        BY <3>2, <3>3
  <2>4. CASE Put(k)
      BY <2>4, PutSteps
  <2>5. CASE \/ Accept(k) \/ CallStart(k) \/ AudioAdopted(k) \/ AudioOpens(k) \/ QueueSpeech(k)
             \/ DrainTimeout(k) \/ SocketCloses(k) \/ Check(k) \/ Leave(k) \/ Drop(k)
      BY <2>5 DEF Accept, CallStart, AudioAdopted, AudioOpens, QueueSpeech, DrainTimeout,
         SocketCloses, Check, Leave, Drop, cvars
  <2> QED
      BY <1>2, <2>2, <2>3, <2>4, <2>5 DEF Handler, MidCall
<1>3. CASE Get
  <2>1. ready' = ready
      BY <1>3 DEF Get
  <2>2. \A x \in Chunks : fate'[x] # fate[x] => fate[x] = "queued" /\ fate'[x] = "work"
      BY <1>3, GetFate
  <2> QED
      BY <2>1, <2>2 DEF Unfinished
<1>4. CASE Emit
  <2>1. /\ item.n \in Chunks /\ fate[item.n] = "work"
        /\ \A x \in Chunks : x # item.n => fate'[x] = fate[x]
      BY <1>4, EmitFate
  <2>2. \/ ready' = ready /\ fate'[item.n] \in {"nothing", "lost"}
        \/ /\ fate'[item.n] = "scheduled" /\ sockets[item.call] # NoConn
           /\ ready' = Append(ready, SendOn("mksend", item.call, sockets[item.call], item.n))
      BY <1>4, <2>1 DEF Emit, TypeOK
  <2> QED
      BY <1>4, <2>1, <2>2 DEF Unfinished
<1>5. CASE Notify
    BY <1>5 DEF Notify, cvars
<1>6. CASE Speak
    BY <1>6 DEF Speak, cvars
<1>7. CASE ChunkDone \/ Crash \/ BeginStop \/ FinishStop \/ Finished \/ UNCHANGED vars
    BY <1>7 DEF ChunkDone, Crash, BeginStop, FinishStop, Finished, vars, cvars
<1> QED
    BY <1>1, <1>2, <1>3, <1>4, <1>5, <1>6, <1>7 DEF Next, WorkerStep, Unfinished

(* Taking the first callback leaves the sends in order.                     *)
LEMMA InOrderTail ==
    ASSUME NEW q \in Seq(Callbacks), q # <<>>, InOrder(q)
    PROVE  /\ InOrder(Tail(q))
           /\ \A j \in DOMAIN Tail(q) :
                 Sends(q, 1) /\ Sends(Tail(q), j) => Before(q[1], Tail(q)[j])
<1>1. /\ \A i \in DOMAIN Tail(q) :
            i \in Nat \ {0} /\ i + 1 \in DOMAIN q /\ Tail(q)[i] = q[i + 1]
      /\ 1 \in DOMAIN q
    BY TailElements
<1>2. \A i \in DOMAIN Tail(q) : Sends(Tail(q), i) <=> Sends(q, i + 1)
    BY <1>1 DEF Sends
<1>3. /\ \A i, j \in Nat : i < j => i + 1 < j + 1
      /\ \A j \in Nat \ {0} : 1 < j + 1
    OBVIOUS
<1>4. InOrder(Tail(q))
    BY <1>1, <1>2, <1>3 DEF InOrder
<1>5. \A j \in DOMAIN Tail(q) : Sends(q, 1) /\ Sends(Tail(q), j) => Before(q[1], Tail(q)[j])
    BY <1>1, <1>2, <1>3 DEF InOrder
<1> QED
    BY <1>4, <1>5

(* A callback that is no send, or one that goes in order, may be appended.    *)
LEMMA InOrderAppend ==
    ASSUME NEW q \in Seq(Callbacks), NEW e \in Callbacks, InOrder(q),
           e.kind \in {"mksend", "send"} /\ e.n # 0 =>
             \A i \in DOMAIN q : Sends(q, i) => Before(q[i], e)
    PROVE  InOrder(Append(q, e))
<1> DEFINE p == Append(q, e)
<1>1. /\ DOMAIN p = DOMAIN q \cup {Len(q) + 1}
      /\ \A i \in DOMAIN q : p[i] = q[i]
      /\ p[Len(q) + 1] = e
      /\ DOMAIN q = 1..Len(q) /\ Len(q) \in Nat
    BY AppendElements
<1> HIDE DEF p
<1>2. /\ \A i \in DOMAIN q : Sends(p, i) <=> Sends(q, i)
      /\ Sends(p, Len(q) + 1) <=> e.kind \in {"mksend", "send"} /\ e.n # 0
    BY <1>1 DEF Sends
<1>3. \A i, j \in DOMAIN p : i < j => i \in DOMAIN q
    BY <1>1
<1>4. InOrder(p)
  <2> SUFFICES ASSUME NEW i \in DOMAIN p, NEW j \in DOMAIN p, i < j, Sends(p, i), Sends(p, j)
               PROVE  Before(p[i], p[j])
      BY DEF InOrder
  <2>1. i \in DOMAIN q /\ p[i] = q[i] /\ Sends(q, i)
      BY <1>1, <1>2, <1>3
  <2>2. CASE j \in DOMAIN q
      BY <1>1, <1>2, <2>1, <2>2 DEF InOrder
  <2>3. CASE j = Len(q) + 1
      BY <1>1, <1>2, <2>1, <2>3
  <2> QED
      BY <1>1, <2>2, <2>3
<1> QED
    BY <1>4 DEF p

(* Every scheduled chunk in f has its send in q.                            *)
Posts(q, f) == \A x \in Chunks : f[x] = "scheduled" =>
                  \E i \in DOMAIN q : Sends(q, i) /\ q[i].n = x

(* A chunk scheduled in g is scheduled in f, or it is the one that e sends.   *)
Adds(f, g, e) == \A x \in Chunks : g[x] = "scheduled" =>
                    \/ f[x] = "scheduled"
                    \/ e.kind \in {"mksend", "send"} /\ e.n # 0 /\ e.n = x

(* Appending a callback keeps the sends that are there, and adds its own.     *)
LEMMA PostsAppend ==
    ASSUME NEW q \in Seq(Callbacks), NEW e \in Callbacks, NEW f, NEW g, Posts(q, f),
           Adds(f, g, e)
    PROVE  Posts(Append(q, e), g)
<1> DEFINE p == Append(q, e)
<1>1. /\ DOMAIN p = DOMAIN q \cup {Len(q) + 1}
      /\ \A i \in DOMAIN q : p[i] = q[i]
      /\ p[Len(q) + 1] = e
    BY AppendElements
<1> HIDE DEF p
<1>2. /\ \A i \in DOMAIN q : Sends(p, i) <=> Sends(q, i)
      /\ Sends(p, Len(q) + 1) <=> e.kind \in {"mksend", "send"} /\ e.n # 0
    BY <1>1 DEF Sends
<1>3. Posts(p, g)
    BY <1>1, <1>2 DEF Posts, Adds
<1> QED
    BY <1>3 DEF p

(* Taking the first callback keeps every send but that one.                 *)
LEMMA PostsTail ==
    ASSUME NEW q \in Seq(Callbacks), q # <<>>, NEW f, NEW g, Posts(q, f),
           \A x \in Chunks : g[x] = "scheduled" =>
              f[x] = "scheduled" /\ ~(Sends(q, 1) /\ q[1].n = x)
    PROVE  Posts(Tail(q), g)
<1>1. /\ DOMAIN q = 1..Len(q) /\ Len(q) \in Nat \ {0}
      /\ DOMAIN Tail(q) = 1..(Len(q) - 1)
      /\ \A i \in DOMAIN Tail(q) : Tail(q)[i] = q[i + 1]
    BY TailElements
<1>2. \A i \in DOMAIN Tail(q) : Sends(Tail(q), i) <=> Sends(q, i + 1)
    BY <1>1 DEF Sends
<1> SUFFICES ASSUME NEW x \in Chunks, g[x] = "scheduled"
             PROVE  \E i \in DOMAIN Tail(q) : Sends(Tail(q), i) /\ Tail(q)[i].n = x
    BY DEF Posts
<1>3. PICK j \in DOMAIN q : Sends(q, j) /\ q[j].n = x
    BY DEF Posts
<1>4. j # 1
    BY <1>3
<1>5. j - 1 \in DOMAIN Tail(q) /\ (j - 1) + 1 = j
    BY <1>1, <1>4
<1> QED
    BY <1>1, <1>2, <1>3, <1>5

(* The sends stay in order.                                                 *)
LEMMA SendsInLineStep ==
    ASSUME Shape, InLine, SendsInLine, [Next]_vars
    PROVE  SendsInLine'
<1> USE DEF Shape
<1>n. Chunks \subseteq Nat
    BY BoundsAssumption DEF Chunks
<1>q. ready \in Seq(Callbacks) /\ ready' \in Seq(Callbacks)
    BY TypeStep DEF TypeOK
<1>i. InOrder(ready) /\ Posts(ready, fate)
    BY DEF SendsInLine, Posts
<1>3. \A x, y \in Chunks : x < y /\ fate[y] = "sent" => fate[x] # "scheduled"
    BY DEF SendsInLine
<1> SUFFICES /\ InOrder(ready') /\ Posts(ready', fate')
             /\ \A x, y \in Chunks : x < y /\ fate'[y] = "sent" => fate'[x] # "scheduled"
    BY DEF SendsInLine, Posts, InOrder, Sends
<1>4. CASE RunCallback
  <2> DEFINE cb == ready[1]
             task == [cb EXCEPT !.kind = "send"]
  <2>1. ready # <<>> /\ cb \in Callbacks /\ Tail(ready) \in Seq(Callbacks)
      BY <1>4, CallbackSteps
  <2>2. /\ InOrder(Tail(ready))
        /\ \A j \in DOMAIN Tail(ready) :
              Sends(ready, 1) /\ Sends(Tail(ready), j) => Before(cb, Tail(ready)[j])
      BY <1>q, <1>i, <2>1, InOrderTail
  <2>3. CASE /\ cb.kind = "mksend" /\ ready' = Append(Tail(ready), task)
             /\ task \in Callbacks /\ task.kind = "send" /\ task.n = cb.n
             /\ fate' = fate
    <3> HIDE DEF task
    <3>1. ASSUME task.n # 0, NEW i \in DOMAIN Tail(ready), Sends(Tail(ready), i)
          PROVE  Before(Tail(ready)[i], task)
      <4>1. Before(cb, Tail(ready)[i]) /\ Tail(ready)[i].kind \in {"mksend", "send"}
          BY <2>2, <2>3, <3>1 DEF Sends
      <4> QED
          BY <2>3, <4>1 DEF Before
    <3>2. InOrder(ready')
        BY <2>1, <2>2, <2>3, <3>1, InOrderAppend
    <3>3. DEFINE h == [x \in Chunks |-> IF x = cb.n THEN "none" ELSE fate[x]]
    <3>4. Posts(Tail(ready), h)
        BY <1>q, <1>i, <2>1, PostsTail
    <3>5. Posts(ready', fate')
      <4>1. Adds(h, fate', task)
        <5>1. \A x \in Chunks : x # 0
            BY <1>n DEF Chunks
        <5> QED
            BY <2>3, <5>1 DEF Adds
      <4> HIDE DEF h
      <4>2. Posts(Append(Tail(ready), task), fate')
          BY ONLY <2>1, <2>3, <3>4, <4>1, PostsAppend
      <4> QED
          BY <2>3, <4>2
    <3> QED
        BY <1>3, <2>3, <3>2, <3>5
  <2>4. CASE /\ cb.kind = "send" /\ ready' = Tail(ready)
             /\ \/ cb.n = 0 /\ fate' = fate
                \/ /\ cb.n \in Chunks
                   /\ fate'[cb.n] = IF sock[cb.conn] = "open" THEN "sent" ELSE "lost"
                   /\ \A x \in Chunks : x # cb.n => fate'[x] = fate[x]
    <3>1. CASE cb.n = 0 /\ fate' = fate
      <4>1. ~Sends(ready, 1)
          BY <3>1 DEF Sends
      <4>2. Posts(ready', fate')
          BY <1>q, <1>i, <2>1, <2>4, <3>1, <4>1, PostsTail
      <4> QED
          BY <1>3, <2>2, <2>4, <3>1, <4>2
    <3>2. CASE /\ cb.n \in Chunks
               /\ fate'[cb.n] = IF sock[cb.conn] = "open" THEN "sent" ELSE "lost"
               /\ \A x \in Chunks : x # cb.n => fate'[x] = fate[x]
      <4>1. \A x \in Chunks : fate'[x] = "scheduled" => fate[x] = "scheduled" /\ x # cb.n
          BY <3>2
      <4>2. Posts(ready', fate')
          BY <1>q, <1>i, <2>1, <2>4, <4>1, PostsTail
      <4>3. Sends(ready, 1)
        <5>1. cb.n # 0
            BY <1>n, <3>2 DEF Chunks
        <5> QED
            BY <2>4, <5>1 DEF Sends
      <4>4. ASSUME NEW x \in Chunks, NEW y \in Chunks, x < y, fate'[y] = "sent",
                   fate'[x] = "scheduled"
            PROVE  FALSE
        <5>1. y = cb.n
            BY <1>3, <3>2, <4>1, <4>4
        <5>2. PICK j \in DOMAIN Tail(ready) : Sends(Tail(ready), j) /\ Tail(ready)[j].n = x
            BY <2>4, <4>2, <4>4 DEF Posts
        <5>3. Before(cb, Tail(ready)[j]) /\ Tail(ready)[j].kind \in {"mksend", "send"}
            BY <2>2, <4>3, <5>2 DEF Sends
        <5>4. y < x
            BY <2>4, <5>1, <5>2, <5>3 DEF Before
        <5> QED
            BY <1>n, <4>4, <5>4
      <4> QED
          BY <2>2, <2>4, <4>2, <4>4
    <3> QED
        BY <2>4, <3>1, <3>2
  <2>5. CASE cb.kind \in {"set", "wake"} /\ fate' = fate
             /\ (ready' = Tail(ready) \/ ready' = Append(Tail(ready), EventOn("wake", cb.call)))
    <3>1. ~Sends(ready, 1)
        BY <2>5 DEF Sends
    <3>2. Posts(Tail(ready), fate)
        BY <1>q, <1>i, <2>1, <3>1, PostsTail
    <3>3. EventOn("wake", cb.call) \in Callbacks /\ EventOn("wake", cb.call).kind = "wake"
        BY <2>1 DEF EventOn, Callbacks
    <3>4. InOrder(Append(Tail(ready), EventOn("wake", cb.call)))
        BY <2>1, <2>2, <3>3, InOrderAppend
    <3>5. Posts(Append(Tail(ready), EventOn("wake", cb.call)), fate)
        BY <2>1, <3>2, <3>3, PostsAppend DEF Adds
    <3> QED
        BY <1>3, <2>2, <2>5, <3>2, <3>4, <3>5
  <2> QED
      BY <1>4, <2>3, <2>4, <2>5, CallbackSteps
<1>5. CASE /\ Emit /\ fate'[item.n] = "scheduled" /\ sockets[item.call] # NoConn
           /\ ready' = Append(ready, SendOn("mksend", item.call, sockets[item.call], item.n))
  <2> DEFINE e == SendOn("mksend", item.call, sockets[item.call], item.n)
  <2>1. /\ item.n \in Chunks /\ fate[item.n] = "work"
        /\ \A x \in Chunks : x # item.n => fate'[x] = fate[x]
      BY <1>5, EmitFate
  <2>2. e.kind = "mksend" /\ e.n = item.n
      BY DEF SendOn
  <2>3. e \in Callbacks
    <3>1. item.call \in Calls
        BY <1>5 DEF Emit, Working, Made, Items, Chunks, Unfinished, TypeOK
    <3> QED
        BY <1>5, <2>1, <3>1 DEF SendOn, Callbacks, TypeOK
  <2>4. ready' = Append(ready, e)
      BY <1>5
  <2> HIDE DEF e
  <2>5. ASSUME NEW i \in DOMAIN ready, Sends(ready, i)
        PROVE  Before(ready[i], e)
    <3>1. ready[i].n \in Chunks /\ fate[ready[i].n] \notin Unfinished \cup {"none"}
        BY <2>5, PostedSends
    <3>2. ~(item.n < ready[i].n)
        BY <2>1, <3>1 DEF InLine, Unfinished
    <3>3. item.n # ready[i].n
        BY <2>1, <3>1 DEF Unfinished
    <3>4. ready[i].n < item.n
      <4>1. \A n, m \in Nat : ~(n < m) /\ n # m => m < n
          OBVIOUS
      <4> QED
          BY ONLY <1>n, <2>1, <3>1, <3>2, <3>3, <4>1
    <3> QED
        BY <2>2, <3>4 DEF Before
  <2>6. InOrder(ready')
      BY <1>q, <1>i, <2>3, <2>4, <2>5, InOrderAppend
  <2>7. Posts(ready', fate')
    <3>1. item.n # 0
        BY <1>n, <2>1 DEF Chunks
    <3>2. Adds(fate, fate', e)
        BY <2>1, <2>2, <3>1 DEF Adds
    <3> QED
      <4>1. Posts(Append(ready, e), fate')
          BY ONLY <1>q, <1>i, <2>3, <3>2, PostsAppend
      <4> QED
          BY <2>4, <4>1
  <2>8. ASSUME NEW x \in Chunks, NEW y \in Chunks, x < y, fate'[y] = "sent"
        PROVE  fate'[x] # "scheduled"
    <3>1. y # item.n /\ fate[y] = "sent"
        BY <1>5, <2>1, <2>8
    <3>2. x # item.n
        BY <2>1, <2>8, <3>1 DEF InLine, Unfinished
    <3> QED
        BY <1>3, <2>1, <2>8, <3>1, <3>2
  <2> QED
      BY <2>6, <2>7, <2>8
<1>6. ASSUME NEW e \in Callbacks, ready' = Append(ready, e), fate' = fate,
             ~(e.kind \in {"mksend", "send"} /\ e.n # 0)
      PROVE  InOrder(ready') /\ Posts(ready', fate')
  <2>1. InOrder(ready')
      BY <1>q, <1>i, <1>6, InOrderAppend
  <2>2. Posts(ready', fate')
      BY <1>q, <1>i, <1>6, PostsAppend DEF Adds
  <2> QED
      BY <2>1, <2>2
<1>7. CASE Notify /\ ready' = Append(ready, EventOn("set", item.call)) /\ fate' = fate
  <2>1. EventOn("set", item.call) \in Callbacks /\ EventOn("set", item.call).kind = "set"
      BY <1>7 DEF Notify, Working, EventOn, Callbacks
  <2> QED
      BY <1>3, <1>6, <1>7, <2>1
<1>8. CASE /\ Speak /\ fate' = fate
           /\ ready' = Append(ready, SendOn("mksend", item.call, sockets[item.call], 0))
  <2> DEFINE e == SendOn("mksend", item.call, sockets[item.call], 0)
  <2>1. e.n = 0 /\ e \in Callbacks
    <3>1. Len(ready') = Len(ready) + 1 /\ ready'[Len(ready) + 1] = e
        BY <1>q, <1>8
    <3>2. Len(ready) + 1 \in DOMAIN ready'
        BY <1>q, <3>1
    <3>3. e \in Callbacks
        BY <1>q, <3>1, <3>2
    <3> QED
        BY <3>3 DEF SendOn
  <2> HIDE DEF e
  <2>2. ready' = Append(ready, e)
      BY <1>8 DEF e
  <2> QED
      BY <1>3, <1>6, <1>8, <2>1, <2>2
<1>9. CASE /\ ready' = ready
           /\ \A x \in Chunks : \/ fate'[x] = fate[x]
                                \/ fate'[x] \notin {"scheduled", "sent"}
                                   /\ fate[x] \in Unfinished \cup {"none"}
  <2>1. \A x \in Chunks : /\ fate'[x] = "scheduled" => fate[x] = "scheduled"
                          /\ fate'[x] = "sent" => fate[x] = "sent"
      BY <1>9
  <2> QED
      BY <1>i, <1>3, <1>9, <2>1 DEF Posts
<1> QED
    BY <1>4, <1>5, <1>7, <1>8, <1>9, ReadySteps

-----------------------------------------------------------------------------
(* Sockets and addresses.                                                   *)

(* A closed socket stays closed, and a handler that returns closes its own.   *)
LEMMA SocketSteps ==
    ASSUME Shape, Sockets, [Next]_vars, NEW k \in Conns
    PROVE  /\ hpc'[k] = "new" <=> sock'[k] = "new"
           /\ hpc'[k] = "new" => call'[k] = NoCall
           /\ hpc'[k] = "closed" => sock'[k] = "closed"
           /\ sock[k] = "closed" => sock'[k] = "closed"
<1> USE DEF Shape
<1>t. /\ hpc \in [Conns -> HandlerPC] /\ call \in [Conns -> Calls \cup {NoCall}]
      /\ sock \in [Conns -> {"new", "open", "closed"}]
    BY DEF TypeOK
<1>i. \A j \in Conns : /\ hpc[j] = "new" <=> sock[j] = "new"
                       /\ hpc[j] = "new" => call[j] = NoCall
                       /\ hpc[j] = "closed" => sock[j] = "closed"
    BY DEF Sockets
<1>0. ASSUME UNCHANGED <<sock, call>>, hpc'[k] = "new" <=> hpc[k] = "new",
             hpc'[k] = "closed" => hpc[k] = "closed"
      PROVE  /\ hpc'[k] = "new" <=> sock'[k] = "new"
             /\ hpc'[k] = "new" => call'[k] = NoCall
             /\ hpc'[k] = "closed" => sock'[k] = "closed"
             /\ sock[k] = "closed" => sock'[k] = "closed"
    BY <1>i, <1>0
<1>1. ASSUME NEW j \in Conns, Accept(j) \/ Drop(j) \/ SocketCloses(j)
      PROVE  /\ hpc'[k] = "new" <=> sock'[k] = "new"
             /\ hpc'[k] = "new" => call'[k] = NoCall
             /\ hpc'[k] = "closed" => sock'[k] = "closed"
             /\ sock[k] = "closed" => sock'[k] = "closed"
  <2>1. CASE Accept(j)
      BY <1>t, <1>i, <2>1 DEF Accept
  <2>2. CASE Drop(j)
      BY <1>t, <1>i, <2>2 DEF Drop
  <2>3. CASE SocketCloses(j)
      BY <1>t, <1>i, <2>3 DEF SocketCloses
  <2> QED
      BY <1>1, <2>1, <2>2, <2>3
<1>2. ASSUME NEW j \in Conns, CallStart(j) \/ AudioAdopted(j)
      PROVE  /\ UNCHANGED <<sock, hpc>>
             /\ hpc[k] = "new" => call'[k] = call[k]
    BY <1>t, <1>2 DEF CallStart, AudioAdopted, Resumes
<1>3. ASSUME NEW j \in Conns, CallEnd(j) \/ EndOfStream(j)
      PROVE  /\ hpc'[k] = "new" <=> sock'[k] = "new"
             /\ hpc'[k] = "new" => call'[k] = NoCall
             /\ hpc'[k] = "closed" => sock'[k] = "closed"
             /\ sock[k] = "closed" => sock'[k] = "closed"
  <2>1. Resumes(j) /\ EndCall(j) /\ hpc[j] = "recv"
      BY <1>3 DEF CallEnd, EndOfStream, Resumes
  <2>2. CASE call[j] = NoCall
      BY <1>t, <1>i, <2>1, <2>2 DEF EndCall, Count
  <2>3. CASE call[j] # NoCall
    <3>1. UNCHANGED <<sock, call>> /\ \E pc \in {"check", "putlast"} : hpc' = [hpc EXCEPT ![j] = pc]
        BY <2>1, <2>3 DEF EndCall, Count
    <3> QED
        BY <1>t, <1>0, <2>1, <3>1
  <2> QED
      BY <2>2, <2>3
<1>4. ASSUME NEW j \in Conns,
             \/ AudioOpens(j) \/ AudioCloses(j) \/ WatchIdle(j) \/ QueueSpeech(j)
             \/ DrainTimeout(j) \/ Put(j) \/ Check(j) \/ Leave(j)
      PROVE  /\ UNCHANGED <<sock, call>>
             /\ hpc'[k] = "new" <=> hpc[k] = "new"
             /\ hpc'[k] = "closed" => hpc[k] = "closed"
  <2>1. CASE AudioOpens(j) \/ QueueSpeech(j)
      BY <2>1 DEF AudioOpens, QueueSpeech
  <2>2. CASE AudioCloses(j) \/ WatchIdle(j)
      BY <1>t, <2>2 DEF AudioCloses, WatchIdle, Resumes, Count
  <2>3. CASE DrainTimeout(j) \/ Put(j) \/ Check(j) \/ Leave(j)
      BY <1>t, <2>3 DEF DrainTimeout, Put, Check, Leave
  <2> QED
      BY <1>4, <2>1, <2>2, <2>3
<1>5. CASE RunCallback
  <2>1. UNCHANGED <<sock, call>> /\ (hpc'[k] = hpc[k] \/ (hpc[k] = "wait" /\ hpc'[k] = "leave"))
      BY <1>5 DEF RunCallback
  <2> QED
      BY <1>0, <2>1
<1>6. CASE WorkerStep \/ Crash \/ BeginStop \/ FinishStop \/ Finished \/ UNCHANGED vars
  <2>1. UNCHANGED <<hpc, sock, call>>
      BY <1>6 DEF WorkerStep, Get, Emit, ChunkDone, Notify, Speak, Crash, BeginStop, FinishStop,
         Finished, vars, hvars
  <2> QED
      BY <1>0, <2>1
<1> QED
  <2>1. ASSUME NEW j \in Conns, CallStart(j) \/ AudioAdopted(j)
        PROVE  /\ hpc'[k] = "new" <=> sock'[k] = "new"
               /\ hpc'[k] = "new" => call'[k] = NoCall
               /\ hpc'[k] = "closed" => sock'[k] = "closed"
               /\ sock[k] = "closed" => sock'[k] = "closed"
      BY <1>i, <1>2, <2>1
  <2> QED
      BY <1>0, <1>1, <2>1, <1>3, <1>4, <1>5, <1>6 DEF Next, Handler, MidCall

LEMMA SocketsStep ==
    ASSUME Shape, Sockets, [Next]_vars
    PROVE  Sockets'
BY SocketSteps DEF Sockets

(* A call id that was taken is never fresh again.                           *)
LEMMA FreshSteps ==
    ASSUME Shape, Routed, [Next]_vars, NEW c \in Calls, ~Fresh(c)
    PROVE  ~Fresh(c)'
<1> USE CallsAssumption, ConnsAssumption DEF Shape
<1>t. /\ call \in [Conns -> Calls \cup {NoCall}] /\ sockets \in [Calls -> Conns \cup {NoConn}]
    BY DEF TypeOK
<1>1. sockets[c] # NoConn \/ \E k \in Conns : call[k] = c
    BY DEF Fresh
<1>2. ASSUME NEW k \in Conns, CallStart(k) \/ AudioAdopted(k)
      PROVE  ~Fresh(c)'
  <2>1. PICK d \in Calls : /\ call' = [call EXCEPT ![k] = d]
                           /\ sockets' = [sockets EXCEPT ![d] = k]
      BY <1>2 DEF CallStart, AudioAdopted
  <2>2. hpc[k] # "closed"
      BY <1>2 DEF CallStart, AudioAdopted, Resumes
  <2>3. call[k] = c => sockets[c] # NoConn
      BY <2>2 DEF Routed
  <2> QED
      BY <1>t, <1>1, <2>1, <2>3 DEF Fresh
<1>3. ASSUME NEW k \in Conns, Drop(k)
      PROVE  ~Fresh(c)'
  <2>1. /\ call' = call /\ sockets' = [sockets EXCEPT ![call[k]] = NoConn]
        /\ call[k] \in Calls
      BY <1>t, <1>3 DEF Drop, Handlers, Ending
  <2> QED
      BY <1>t, <1>1, <2>1 DEF Fresh
<1>4. ASSUME UNCHANGED <<call, sockets>>
      PROVE  ~Fresh(c)'
    BY <1>4 DEF Fresh
<1>5. ASSUME NEW k \in Conns, CallEnd(k) \/ EndOfStream(k)
      PROVE  UNCHANGED <<call, sockets>>
    BY <1>5 DEF CallEnd, EndOfStream, EndCall
<1>6. ASSUME NEW k \in Conns,
             \/ Accept(k) \/ AudioOpens(k) \/ AudioCloses(k) \/ WatchIdle(k) \/ QueueSpeech(k)
             \/ DrainTimeout(k) \/ SocketCloses(k) \/ Put(k) \/ Check(k) \/ Leave(k)
      PROVE  UNCHANGED <<call, sockets>>
    BY <1>6 DEF Accept, AudioOpens, AudioCloses, WatchIdle, QueueSpeech, DrainTimeout,
       SocketCloses, Put, Check, Leave
<1>7. CASE RunCallback \/ WorkerStep \/ Crash \/ BeginStop \/ FinishStop \/ Finished
           \/ UNCHANGED vars
  <2>1. UNCHANGED <<call, sockets>>
      BY <1>7 DEF RunCallback, WorkerStep, Get, Emit, ChunkDone, Notify, Speak, Crash, BeginStop,
         FinishStop, Finished, vars, hvars
  <2> QED
      BY <1>4, <2>1
<1> QED
    BY <1>2, <1>3, <1>4, <1>5, <1>6, <1>7 DEF Next, Handler, MidCall

(* Fates change when a chunk is cut, queued, taken, emitted or sent, only.    *)
LEMMA QuietSteps ==
    ASSUME Shape, [Next]_vars
    PROVE  \/ \E k \in Conns : \E pc \in {"put", "putlast"} : Cuts(k, pc)
           \/ \E k \in Conns : Put(k)
           \/ Get \/ Emit \/ RunCallback \/ fate' = fate
<1> USE DEF Shape
<1>1. ASSUME NEW k \in Conns, AudioCloses(k) \/ WatchIdle(k)
      PROVE  Cuts(k, "put")
    BY <1>1 DEF AudioCloses, WatchIdle, Cuts, Resumes, TypeOK
<1>2. ASSUME NEW k \in Conns, CallEnd(k) \/ EndOfStream(k)
      PROVE  Cuts(k, "putlast") \/ fate' = fate
  <2>1. Resumes(k) /\ EndCall(k)
      BY <1>2 DEF CallEnd, EndOfStream
  <2>2. CASE call[k] = NoCall \/ ~open[k]
      BY <2>1, <2>2 DEF EndCall, cvars
  <2>3. CASE call[k] # NoCall /\ open[k]
      BY <2>1, <2>3 DEF EndCall, Cuts, Resumes, TypeOK
  <2> QED
      BY <2>2, <2>3
<1>3. ASSUME NEW k \in Conns,
             \/ Accept(k) \/ CallStart(k) \/ AudioAdopted(k) \/ AudioOpens(k) \/ QueueSpeech(k)
             \/ DrainTimeout(k) \/ SocketCloses(k) \/ Check(k) \/ Leave(k) \/ Drop(k)
      PROVE  fate' = fate
    BY <1>3 DEF Accept, CallStart, AudioAdopted, AudioOpens, QueueSpeech, DrainTimeout,
       SocketCloses, Check, Leave, Drop, cvars
<1>4. CASE ChunkDone \/ Notify \/ Speak \/ Crash \/ BeginStop \/ FinishStop \/ Finished
           \/ UNCHANGED vars
    BY <1>4 DEF ChunkDone, Notify, Speak, Crash, BeginStop, FinishStop, Finished, vars, cvars
<1> QED
    BY <1>1, <1>2, <1>3, <1>4 DEF Next, Handler, MidCall, WorkerStep

(* A handler keeps its call, or takes a fresh one; a chunk keeps its owner.   *)
LEMMA CallSteps ==
    ASSUME Shape, [Next]_vars
    PROVE  /\ \A k \in Conns : call'[k] = call[k] \/ (call'[k] \in Calls /\ Fresh(call'[k]))
           /\ \A x \in Chunks : fate[x] # "none" => owner'[x] = owner[x]
           /\ \A x \in Chunks : \/ owner'[x] = owner[x]
                                \/ \E k \in Conns : owner'[x] = call[k] /\ call' = call
<1>1. ASSUME NEW k \in Conns
      PROVE  call'[k] = call[k] \/ (call'[k] \in Calls /\ Fresh(call'[k]))
  <2>1. ASSUME NEW j \in Conns, NEW c \in Calls, TakesCall(j, c)
        PROVE  call'[k] = call[k] \/ (call'[k] \in Calls /\ Fresh(call'[k]))
      BY <2>1 DEF TakesCall, Shape, TypeOK
  <2> QED
      BY <2>1, HandlerSteps DEF Moves, Woken
<1>2. ASSUME NEW j \in Conns, NEW pc \in {"put", "putlast"}, Cuts(j, pc)
      PROVE  \A x \in Chunks : /\ fate[x] # "none" => owner'[x] = owner[x]
                               /\ owner'[x] = owner[x] \/ (owner'[x] = call[j] /\ call' = call)
  <2> SUFFICES ASSUME NEW x \in Chunks
               PROVE  /\ fate[x] # "none" => owner'[x] = owner[x]
                      /\ owner'[x] = owner[x] \/ (owner'[x] = call[j] /\ call' = call)
      OBVIOUS
  <2>1. CASE x = made + 1
      BY <1>2, <2>1, CutFate
  <2>2. CASE x # made + 1
      BY <1>2, <2>2, CutFate
  <2> QED
      BY <2>1, <2>2
<1> QED
    BY <1>1, <1>2, FinalSteps

(* The sends in q are under their own calls, which are in no handler's hands   *)
(* but that of the connection they are addressed to.                        *)
AddressedIn(q, own, calls) ==
    \A i \in DOMAIN q : Sends(q, i) => /\ q[i].call = own[q[i].n]
                                       /\ \A k \in Conns : calls[k] = q[i].call => q[i].conn = k

LEMMA AddressedTail ==
    ASSUME NEW q \in Seq(Callbacks), q # <<>>, NEW own, NEW calls, AddressedIn(q, own, calls)
    PROVE  AddressedIn(Tail(q), own, calls)
<1>1. \A i \in DOMAIN Tail(q) : i + 1 \in DOMAIN q /\ Tail(q)[i] = q[i + 1]
    BY TailElements
<1>2. \A i \in DOMAIN Tail(q) : Sends(Tail(q), i) <=> Sends(q, i + 1)
    BY <1>1 DEF Sends
<1> QED
    BY <1>1, <1>2 DEF AddressedIn

LEMMA AddressedAppend ==
    ASSUME NEW q \in Seq(Callbacks), NEW own, NEW calls, AddressedIn(q, own, calls),
           NEW e \in Callbacks,
           e.kind \in {"mksend", "send"} /\ e.n # 0 =>
             e.call = own[e.n] /\ \A k \in Conns : calls[k] = e.call => e.conn = k
    PROVE  AddressedIn(Append(q, e), own, calls)
<1> DEFINE p == Append(q, e)
<1>1. /\ DOMAIN p = DOMAIN q \cup {Len(q) + 1}
      /\ \A i \in DOMAIN q : p[i] = q[i]
      /\ p[Len(q) + 1] = e
    BY AppendElements
<1> HIDE DEF p
<1>2. /\ \A i \in DOMAIN q : Sends(p, i) <=> Sends(q, i)
      /\ Sends(p, Len(q) + 1) <=> e.kind \in {"mksend", "send"} /\ e.n # 0
    BY <1>1 DEF Sends
<1>3. AddressedIn(p, own, calls)
    BY <1>1, <1>2 DEF AddressedIn
<1> QED
    BY <1>3 DEF p

(* A callback posted by the worker, for the lemmas above.                    *)
LEMMA PostedElement ==
    ASSUME Shape, [Next]_vars, NEW e, ready' = Append(ready, e)
    PROVE  e \in Callbacks
<1>1. ready \in Seq(Callbacks) /\ ready' \in Seq(Callbacks)
    BY TypeStep DEF Shape, TypeOK
<1>2. ready'[Len(ready) + 1] = e /\ Len(ready) + 1 \in DOMAIN ready'
    BY <1>1
<1> QED
    BY <1>1, <1>2

(* The sends stay addressed to their callers.                               *)
LEMMA AddressedInStep ==
    ASSUME Shape, Routed, Addressed, [Next]_vars
    PROVE  AddressedIn(ready', owner', call')
<1> USE CallsAssumption, ConnsAssumption DEF Shape
<1>q. ready \in Seq(Callbacks)
    BY DEF TypeOK
<1>1. AddressedIn(ready, owner', call')
  <2> SUFFICES ASSUME NEW i \in DOMAIN ready, Sends(ready, i)
               PROVE  /\ ready[i].call = owner'[ready[i].n]
                      /\ \A k \in Conns : call'[k] = ready[i].call => ready[i].conn = k
      BY DEF AddressedIn
  <2>1. /\ ready[i].n \in Chunks /\ fate[ready[i].n] # "none"
        /\ ready[i].call \in Calls
      BY PostedSends DEF Callbacks
  <2>2. ready[i].call = owner[ready[i].n] /\ owner'[ready[i].n] = owner[ready[i].n]
      BY <2>1, CallSteps DEF Addressed
  <2>3. ~Fresh(ready[i].call)
      BY <2>1, <2>2 DEF Addressed
  <2>4. ASSUME NEW k \in Conns, call'[k] = ready[i].call
        PROVE  ready[i].conn = k
    <3>1. call'[k] = call[k]
        BY <2>3, <2>4, CallSteps
    <3>2. \A j \in Conns : call[j] = ready[i].call => ready[i].conn = j
        BY DEF Addressed
    <3> QED
        BY ONLY <2>4, <3>1, <3>2
  <2> QED
      BY <2>2, <2>4
<1>2. CASE RunCallback
  <2> DEFINE cb == ready[1]
             task == [cb EXCEPT !.kind = "send"]
  <2>1. ready # <<>> /\ cb \in Callbacks /\ Tail(ready) \in Seq(Callbacks) /\ 1 \in DOMAIN ready
      BY <1>2, CallbackSteps
  <2>2. AddressedIn(Tail(ready), owner', call')
      BY <1>q, <1>1, <2>1, AddressedTail
  <2>3. CASE /\ cb.kind = "mksend" /\ ready' = Append(Tail(ready), task)
             /\ task \in Callbacks /\ task.kind = "send" /\ task.n = cb.n
             /\ task.call = cb.call /\ task.conn = cb.conn
    <3> HIDE DEF task
    <3>1. task.n # 0 => /\ task.call = owner'[task.n]
                        /\ \A k \in Conns : call'[k] = task.call => task.conn = k
        BY <1>1, <2>1, <2>3 DEF AddressedIn, Sends
    <3> QED
        BY <2>1, <2>2, <2>3, <3>1, AddressedAppend
  <2>4. CASE ready' = Tail(ready)
      BY <2>2, <2>4
  <2>5. CASE ready' = Append(Tail(ready), EventOn("wake", cb.call))
    <3>1. EventOn("wake", cb.call) \in Callbacks /\ EventOn("wake", cb.call).kind = "wake"
        BY <2>1 DEF EventOn, Callbacks
    <3> QED
        BY <2>1, <2>2, <2>5, <3>1, AddressedAppend
  <2> QED
      BY <1>2, <2>3, <2>4, <2>5, CallbackSteps
<1>3. CASE /\ Emit /\ sockets[item.call] # NoConn
           /\ ready' = Append(ready, SendOn("mksend", item.call, sockets[item.call], item.n))
  <2> DEFINE e == SendOn("mksend", item.call, sockets[item.call], item.n)
  <2>1. e \in Callbacks
      BY <1>3, PostedElement
  <2>2. /\ e.call = item.call /\ e.n = item.n /\ e.conn = sockets[item.call]
        /\ item.n \in Chunks /\ item.call = owner[item.n] /\ fate[item.n] = "work"
        /\ call' = call
      BY <1>3 DEF SendOn, Emit, Working, hvars
  <2>3. owner'[item.n] = owner[item.n]
      BY <2>2, CallSteps
  <2>4. ASSUME NEW k \in Conns, call[k] = item.call
        PROVE  sockets[item.call] = k
    <3>1. item.call \in Calls
        BY <2>2 DEF Made, Chunks, TypeOK
    <3> QED
        BY <1>3, <2>4, <3>1 DEF Routed
  <2>5. ready' = Append(ready, e)
      BY <1>3
  <2> HIDE DEF e
  <2> QED
      BY <1>q, <1>1, <2>1, <2>2, <2>3, <2>4, <2>5, AddressedAppend
<1>4. ASSUME NEW e, ready' = Append(ready, e), ~(e.kind \in {"mksend", "send"} /\ e.n # 0)
      PROVE  AddressedIn(ready', owner', call')
  <2>1. e \in Callbacks
      BY <1>4, PostedElement
  <2> QED
      BY <1>q, <1>1, <1>4, <2>1, AddressedAppend
<1>5. CASE ready' = Append(ready, EventOn("set", item.call))
    BY <1>4, <1>5 DEF EventOn
<1>6. CASE ready' = Append(ready, SendOn("mksend", item.call, sockets[item.call], 0))
    BY <1>4, <1>6 DEF SendOn
<1>7. CASE ready' = ready
    BY <1>1, <1>7
<1> QED
    BY <1>2, <1>3, <1>5, <1>6, <1>7, ReadySteps

(* What is addressed stays so, and what gets lost had a closed socket.        *)
LEMMA AddressedStep ==
    ASSUME Shape, Routed, Sockets, Addressed, [Next]_vars
    PROVE  Addressed'
<1> USE CallsAssumption, ConnsAssumption DEF Shape
<1>1. \A x \in Chunks : owner'[x] \in Calls => ~Fresh(owner[x])'
  <2>1. \A x \in Chunks : \A c \in Calls : owner'[x] = c => ~Fresh(c)'
    <3> SUFFICES ASSUME NEW x \in Chunks, NEW c \in Calls, owner'[x] = c
                 PROVE  ~Fresh(c)'
        OBVIOUS
    <3>1. CASE owner'[x] = owner[x]
        BY <3>1, FreshSteps DEF Addressed
    <3>2. ASSUME NEW k \in Conns, owner'[x] = call[k], call' = call
          PROVE  ~Fresh(c)'
        BY <3>2 DEF Fresh
    <3> QED
        BY <3>1, <3>2, CallSteps
  <2> QED
      BY <2>1 DEF Fresh
<1>2. \A i \in DOMAIN ready' : Sends(ready', i) =>
          /\ ready'[i].call = owner'[ready'[i].n]
          /\ \A k \in Conns : call'[k] = ready'[i].call => ready'[i].conn = k
    BY AddressedInStep DEF AddressedIn
<1>3. ASSUME NEW x \in Chunks, NEW k \in Conns, fate'[x] = "lost", owner'[x] = call'[k]
      PROVE  sock'[k] = "closed"
  <2>1. fate[x] # "none"
    <3>1. ASSUME fate[x] = "none"
          PROVE  fate'[x] \in {"none", "counted"}
      <4>1. CASE KeepsMade
          BY <3>1, <4>1 DEF KeepsMade
      <4>2. ASSUME NEW j \in Conns, Put(j)
            PROVE  fate'[x] \in {"none", "counted"}
          BY <3>1, <4>2, PutSteps
      <4>3. ASSUME NEW j \in Conns, NEW pc \in {"put", "putlast"}, Cuts(j, pc)
            PROVE  fate'[x] \in {"none", "counted"}
        <5>1. CASE x = made + 1
            BY <4>3, <5>1, CutFate
        <5>2. CASE x # made + 1
            BY <3>1, <4>3, <5>2, CutFate
        <5> QED
            BY <5>1, <5>2
      <4> QED
          BY <4>1, <4>2, <4>3, ChunkSteps
    <3> QED
        BY <1>3, <3>1
  <2>2. owner'[x] = owner[x] /\ owner[x] \in Calls /\ ~Fresh(owner[x])
    <3>1. owner[x] \in Calls
        BY <2>1 DEF Made, TypeOK
    <3> QED
        BY <2>1, <3>1, CallSteps DEF Addressed
  <2>3. call[k] = owner[x]
      BY <1>3, <2>2, CallSteps
  <2>4. CASE fate[x] = "lost"
    <3>1. sock[k] = "closed"
        BY <2>3, <2>4 DEF Addressed
    <3> QED
        BY <3>1, SocketSteps
  <2>5. CASE fate[x] # "lost" /\ RunCallback
    <3>1. /\ ready[1].kind = "send" /\ x = ready[1].n /\ sock[ready[1].conn] # "open"
          /\ 1 \in DOMAIN ready /\ sock' = sock /\ x # 0
      <4>1. x # 0
          BY BoundsAssumption DEF Chunks
      <4> QED
          BY <1>3, <2>5, <4>1, CallbackSteps
    <3>2. Sends(ready, 1)
        BY <3>1 DEF Sends
    <3>3. ready[1].conn = k
        BY <2>3, <3>1, <3>2 DEF Addressed
    <3>4. sock[k] # "new"
        BY <2>2, <2>3 DEF Sockets
    <3> QED
        BY <3>1, <3>3, <3>4 DEF TypeOK
  <2>6. CASE fate[x] # "lost" /\ Emit
    <3>1. x = item.n /\ item.call = owner[item.n]
        BY <1>3, <2>6, EmitFate DEF Emit, Working
    <3>2. sockets[item.call] = NoConn
        BY <1>3, <2>6, <3>1, EmitFate DEF Emit, TypeOK
    <3>3. hpc[k] = "closed" /\ sock' = sock
        BY <2>2, <2>3, <2>6, <3>1, <3>2 DEF Routed, Emit, hvars
    <3> QED
        BY <3>3 DEF Sockets
  <2>7. CASE fate[x] # "lost" /\ ~RunCallback /\ ~Emit
    <3>1. fate'[x] # "lost"
      <4>1. ASSUME NEW j \in Conns, NEW pc \in {"put", "putlast"}, Cuts(j, pc)
            PROVE  fate'[x] # "lost"
        <5>1. CASE x = made + 1
            BY <4>1, <5>1, CutFate
        <5>2. CASE x # made + 1
            BY <2>7, <4>1, <5>2, CutFate
        <5> QED
            BY <5>1, <5>2
      <4>2. ASSUME NEW j \in Conns, Put(j)
            PROVE  fate'[x] # "lost"
          BY <2>7, <4>2, PutSteps
      <4>3. CASE (\E j \in Conns : QueueSpeech(j)) \/ FinishStop
          BY <2>7, <4>3, AppendSteps
      <4>4. CASE Get
          BY <2>7, <4>4, GetFate
      <4>5. CASE fate' = fate
          BY <2>7, <4>5
      <4> QED
          BY <2>7, <4>1, <4>2, <4>3, <4>4, <4>5, QuietSteps
    <3> QED
        BY <1>3, <3>1
  <2> QED
      BY <2>4, <2>5, <2>6, <2>7
<1> QED
    BY <1>1, <1>2, <1>3 DEF Addressed

-----------------------------------------------------------------------------
(* Events behind the sends of their call.                                   *)

LEMMA BehindTail ==
    ASSUME NEW q \in Seq(Callbacks), q # <<>>, Behind(q)
    PROVE  Behind(Tail(q))
<1>1. \A i \in DOMAIN Tail(q) : i \in Nat /\ i + 1 \in DOMAIN q /\ Tail(q)[i] = q[i + 1]
    BY TailElements
<1>2. \A i \in DOMAIN Tail(q) : Sends(Tail(q), i) <=> Sends(q, i + 1)
    BY <1>1 DEF Sends
<1>3. \A i, j \in Nat : i + 1 < j + 1 => i < j
    OBVIOUS
<1> QED
    BY <1>1, <1>2, <1>3 DEF Behind

(* Appending leaves events behind their sends if a send has no event of its    *)
(* call before it that forbids it, and a wake-up no task to be made.         *)
LEMMA BehindAppend ==
    ASSUME NEW q \in Seq(Callbacks), Behind(q), NEW e \in Callbacks,
           e.kind \in {"mksend", "send"} /\ e.n # 0 =>
             \A i \in DOMAIN q : q[i].call = e.call =>
                q[i].kind # "wake" /\ (q[i].kind = "set" => e.kind = "send"),
           e.kind = "wake" =>
             \A i \in DOMAIN q : Sends(q, i) /\ q[i].call = e.call => q[i].kind = "send"
    PROVE  Behind(Append(q, e))
<1> DEFINE p == Append(q, e)
<1>1. /\ DOMAIN p = DOMAIN q \cup {Len(q) + 1}
      /\ \A i \in DOMAIN q : p[i] = q[i]
      /\ p[Len(q) + 1] = e
      /\ DOMAIN q = 1..Len(q) /\ Len(q) \in Nat
    BY AppendElements
<1> HIDE DEF p
<1>2. /\ \A i \in DOMAIN q : Sends(p, i) <=> Sends(q, i)
      /\ Sends(p, Len(q) + 1) <=> e.kind \in {"mksend", "send"} /\ e.n # 0
    BY <1>1 DEF Sends
<1>3. \A j \in DOMAIN q : j < Len(q) + 1
    BY <1>1
<1>4. ASSUME NEW i \in DOMAIN p, NEW j \in DOMAIN p, Sends(p, j), p[j].call = p[i].call
      PROVE  /\ p[i].kind = "set" /\ p[j].kind = "mksend" => j < i
             /\ p[i].kind = "wake" => p[j].kind = "send" /\ j < i
  <2>1. CASE i \in DOMAIN q /\ j \in DOMAIN q
      BY <1>1, <1>2, <1>4, <2>1 DEF Behind
  <2>2. CASE i \in DOMAIN q /\ j = Len(q) + 1
      BY <1>1, <1>2, <1>4, <2>2
  <2>3. CASE i = Len(q) + 1 /\ j \in DOMAIN q
      BY <1>1, <1>2, <1>3, <1>4, <2>3
  <2>4. CASE i = Len(q) + 1 /\ j = Len(q) + 1
      BY <1>1, <1>2, <1>4, <2>4
  <2> QED
      BY <1>1, <2>1, <2>2, <2>3, <2>4
<1>5. Behind(p)
    BY <1>4 DEF Behind
<1> QED
    BY <1>5 DEF p

(* Events stay behind: what is announced has no chunk left to emit.          *)
LEMMA BehindStep ==
    ASSUME IInv, Shape, Behind(ready), [Next]_vars
    PROVE  Behind(ready')
<1> USE DEF Shape
<1>q. ready \in Seq(Callbacks)
    BY DEF TypeOK
<1>1. CASE RunCallback
  <2> DEFINE cb == ready[1]
             task == [cb EXCEPT !.kind = "send"]
  <2>1. /\ ready # <<>> /\ cb \in Callbacks /\ Tail(ready) \in Seq(Callbacks)
        /\ 1 \in DOMAIN ready
      BY <1>1, CallbackSteps
  <2>2. /\ \A i \in DOMAIN Tail(ready) :
              i \in Nat \ {0} /\ i + 1 \in DOMAIN ready /\ Tail(ready)[i] = ready[i + 1]
        /\ \A i \in DOMAIN Tail(ready) : Sends(Tail(ready), i) <=> Sends(ready, i + 1)
    <3>1. \A i \in DOMAIN Tail(ready) :
              i \in Nat \ {0} /\ i + 1 \in DOMAIN ready /\ Tail(ready)[i] = ready[i + 1]
        BY <1>q, <2>1, TailElements
    <3> QED
        BY <3>1 DEF Sends
  <2>3. Behind(Tail(ready))
      BY <1>q, <2>1, BehindTail
  <2>4. CASE /\ cb.kind = "mksend" /\ ready' = Append(Tail(ready), task)
             /\ task \in Callbacks /\ task.kind = "send" /\ task.n = cb.n
             /\ task.call = cb.call /\ task.conn = cb.conn
    <3> HIDE DEF task
    <3>1. ASSUME task.n # 0, NEW i \in DOMAIN Tail(ready), Tail(ready)[i].call = task.call
          PROVE  Tail(ready)[i].kind # "wake"
      <4>1. Sends(ready, 1)
          BY <2>4, <3>1 DEF Sends
      <4> QED
          BY <2>1, <2>2, <2>4, <3>1, <4>1 DEF Behind
    <3> QED
        BY <2>1, <2>3, <2>4, <3>1, BehindAppend
  <2>5. CASE ready' = Tail(ready)
      BY <2>3, <2>5
  <2>6. CASE cb.kind = "set" /\ ready' = Append(Tail(ready), EventOn("wake", cb.call))
    <3> DEFINE e == EventOn("wake", cb.call)
    <3>1. e \in Callbacks /\ e.kind = "wake" /\ e.call = cb.call
        BY <2>1 DEF EventOn, Callbacks
    <3> HIDE DEF e
    <3>2. ASSUME NEW i \in DOMAIN Tail(ready), Sends(Tail(ready), i), Tail(ready)[i].call = cb.call
          PROVE  Tail(ready)[i].kind = "send"
      <4>1. Sends(ready, i + 1) /\ ready[i + 1].call = ready[1].call /\ ~(i + 1 < 1)
          BY <2>2, <3>2
      <4>2. ready[i + 1].kind # "mksend"
          BY <2>1, <2>2, <2>6, <3>2, <4>1 DEF Behind
      <4> QED
          BY <2>2, <3>2, <4>1, <4>2 DEF Sends
    <3>3. ready' = Append(Tail(ready), e)
        BY <2>6 DEF e
    <3> QED
        BY <2>1, <2>3, <3>1, <3>2, <3>3, BehindAppend
  <2> QED
      BY <1>1, <2>4, <2>5, <2>6, CallbackSteps
<1>2. CASE Emit /\ ready' = Append(ready, SendOn("mksend", item.call, sockets[item.call], item.n))
  <2> DEFINE e == SendOn("mksend", item.call, sockets[item.call], item.n)
  <2>1. e \in Callbacks /\ e.kind = "mksend" /\ e.call = item.call
      BY <1>2, PostedElement DEF SendOn
  <2>2. item.n \in Owed(item.call) /\ item.call \in Calls
    <3>1. item.n \in Chunks /\ fate[item.n] = "work" /\ item.call = owner[item.n]
        BY <1>2 DEF Emit, Working
    <3>2. item.call \in Calls
        BY <3>1 DEF Made, TypeOK
    <3> QED
        BY <3>1, <3>2 DEF Owed, InHand, Unfinished
  <2>3. ASSUME NEW i \in DOMAIN ready, ready[i].call = item.call
        PROVE  ready[i].kind \notin {"wake", "set"}
    <3>1. ~Posted(item.call)
        BY <2>2 DEF IInv, Counting
    <3> QED
        BY <2>3, <3>1 DEF Posted, Announced, IsEvent
  <2>4. ready' = Append(ready, e)
      BY <1>2
  <2> HIDE DEF e
  <2> QED
      BY <1>q, <2>1, <2>3, <2>4, BehindAppend
<1>3. ASSUME NEW e, ready' = Append(ready, e), e.kind # "wake",
             ~(e.kind \in {"mksend", "send"} /\ e.n # 0)
      PROVE  Behind(ready')
  <2>1. e \in Callbacks
      BY <1>3, PostedElement
  <2> QED
      BY <1>q, <1>3, <2>1, BehindAppend
<1>4. CASE ready' = Append(ready, EventOn("set", item.call))
    BY <1>3, <1>4 DEF EventOn
<1>5. CASE ready' = Append(ready, SendOn("mksend", item.call, sockets[item.call], 0))
    BY <1>3, <1>5 DEF SendOn
<1>6. CASE ready' = ready
    BY <1>6
<1> QED
    BY <1>1, <1>2, <1>4, <1>5, <1>6, ReadySteps

-----------------------------------------------------------------------------
(* Answers.                                                                 *)

(* The handler that is woken has no chunk unfinished, none scheduled, and if   *)
(* one was lost its socket is closed; while it leaves, that stays so.        *)
LEMMA AnsweredStep ==
    ASSUME IInv, Shape, Sockets, SendsInLine, Addressed, Behind(ready), Answered, [Next]_vars
    PROVE  Answered'
<1> USE CallsAssumption DEF Shape
<1> SUFFICES ASSUME NEW k \in Conns, hpc'[k] = "leave", call'[k] \notin gaveUp',
                    NEW x \in Chunks, owner'[x] = call'[k]
             PROVE  \/ fate'[x] \in {"sent", "nothing"}
                    \/ fate'[x] = "lost" /\ sock'[k] = "closed"
    BY DEF Answered
<1>1. CASE hpc[k] # "leave"
  <2>1. ~DrainTimeout(k)
      BY DEF DrainTimeout
  <2>2. RunCallback /\ Head(ready).kind = "wake" /\ hpc[k] = "wait" /\ call[k] = Head(ready).call
      BY <1>1, <2>1, LeavesWoken
  <2>3. /\ ready[1].kind = "wake" /\ call[k] = ready[1].call /\ 1 \in DOMAIN ready
        /\ ready[1] \in Callbacks
        /\ UNCHANGED <<call, sock, owner>> /\ fate' = fate
      BY <2>2, CallbackSteps
  <2>4. call[k] \in Calls /\ owner[x] = call[k]
      BY <2>3 DEF Callbacks
  <2>5. fate[x] \notin Unfinished \cup {"none"}
    <3>1. Posted(call[k])
        BY <2>3 DEF Posted, Announced, IsEvent
    <3>2. Owed(call[k]) = {}
        BY <2>4, <3>1 DEF IInv, Counting
    <3> QED
        BY <2>4, <3>2 DEF Owed, InHand, Made
  <2>6. fate[x] # "scheduled"
    <3> SUFFICES ASSUME fate[x] = "scheduled" PROVE FALSE
        OBVIOUS
    <3>1. PICK i \in DOMAIN ready : Sends(ready, i) /\ ready[i].n = x
        BY DEF SendsInLine
    <3>2. ready[i].call = ready[1].call
        BY <2>3, <2>4, <3>1 DEF Addressed
    <3>3. i < 1 /\ i \in 1..Len(ready)
        BY <2>3, <3>1, <3>2 DEF Behind, TypeOK
    <3> QED
        BY <3>3
  <2>7. fate[x] = "lost" => sock[k] = "closed"
      BY <2>4 DEF Addressed
  <2> QED
      BY <2>3, <2>5, <2>6, <2>7 DEF TypeOK, Fates
<1>2. CASE hpc[k] = "leave"
  <2>1. ~LoopFree
      BY <1>2 DEF LoopFree, MidStep
  <2>2. call'[k] = call[k] /\ gaveUp \subseteq gaveUp'
    <3>1. call'[k] = call[k]
        BY <1>2, EndingSteps DEF Ending
    <3>2. gaveUp' = gaveUp
        BY <2>1, TallySteps DEF DrainTimeout
    <3> QED
        BY <3>1, <3>2
  <2>3. ~RunCallback /\ \A j \in Conns, pc \in {"put", "putlast"} : ~Cuts(j, pc)
      BY <2>1 DEF RunCallback, Cuts
  <2>4. owner' = owner
      BY <2>3, FinalSteps
  <2>5. \/ fate[x] \in {"sent", "nothing"}
        \/ fate[x] = "lost" /\ sock[k] = "closed"
      BY <1>2, <2>2, <2>4 DEF Answered
  <2>6. fate'[x] = fate[x]
    <3>1. ASSUME NEW j \in Conns, Put(j)
          PROVE  fate'[x] = fate[x]
        BY <2>5, <3>1, PutSteps
    <3>2. CASE Get
        BY <2>5, <3>2, GetFate
    <3>3. CASE Emit
        BY <2>5, <3>3, EmitFate
    <3> QED
        BY <2>3, <3>1, <3>2, <3>3, QuietSteps
  <2>7. sock[k] = "closed" => sock'[k] = "closed"
      BY SocketSteps
  <2> QED
      BY <2>5, <2>6, <2>7
<1> QED
    BY <1>1, <1>2

-----------------------------------------------------------------------------
(* The theorems.                                                            *)

LEMMA OrderInitially == Init => OInv
<1> SUFFICES ASSUME Init PROVE OInv
    OBVIOUS
<1> USE DEF Init
<1>1. DOMAIN queue = {} /\ DOMAIN ready = {} /\ \A x \in Chunks : fate[x] = "none"
    OBVIOUS
<1>2. InLine /\ SendsInLine /\ Behind(ready)
    BY <1>1 DEF InLine, SendsInLine, InOrder, Behind, Unfinished
<1>3. Stopping
    BY <1>1 DEF Stopping
<1>4. LastOfCall
    BY DEF LastOfCall, FinalIsLast
<1>5. Sockets /\ Answered
    BY DEF Sockets, Answered
<1>6. Addressed
    BY <1>1, CallsAssumption DEF Addressed
<1> QED
    BY <1>2, <1>3, <1>4, <1>5, <1>6 DEF OInv

LEMMA OrderInductive == IInv /\ Routed /\ OInv /\ [Next]_vars => OInv'
<1> SUFFICES ASSUME IInv, Routed, OInv, [Next]_vars PROVE OInv'
    OBVIOUS
<1>1. Shape
    BY DEF IInv, Shape
<1>2. /\ InLine /\ Stopping /\ SendsInLine /\ LastOfCall /\ Sockets /\ Addressed
      /\ Behind(ready) /\ Answered
    BY DEF OInv
<1>3. InLine' /\ Stopping' /\ SendsInLine'
    BY <1>1, <1>2, InLineStep, StoppingStep, SendsInLineStep
<1>4. LastOfCall' /\ Sockets' /\ Addressed'
    BY <1>1, <1>2, LastOfCallStep, SocketsStep, AddressedStep
<1>5. Behind(ready') /\ Answered'
    BY <1>1, <1>2, BehindStep, AnsweredStep
<1>6. Behind(ready)'
    BY <1>5 DEF Behind, Sends
<1> QED
    BY <1>3, <1>4, <1>5, <1>6 DEF OInv

(* The inductive invariant holds in every reachable state.                  *)
THEOREM OrderInvariance == Spec => []OInv
BY OrderInitially, OrderInductive, Invariance, RoutedHolds, PTL DEF Spec

(* server.py:384-390: a handler that waited and was woken by its event has    *)
(* every transcript of its call sent, or lost to a socket closed before.     *)
THEOREM AnsweredHolds == Spec => []Answered
<1>1. OInv => Answered
    BY DEF OInv
<1> QED
    BY <1>1, OrderInvariance, PTL

(* The transcripts of one call go out in the order it was spoken, however     *)
(* the worker, the loop and the other calls interleave.                     *)
THEOREM InSpokenOrderHolds == Spec => []InSpokenOrder
<1>1. OInv => InSpokenOrder
    BY DEF OInv, InLine, SendsInLine, InSpokenOrder
<1> QED
    BY <1>1, OrderInvariance, PTL

(* main.py:387-389, server.py:200-204: nothing is queued behind the sentinel,  *)
(* and a worker that has stopped left no utterance untranscribed.            *)
THEOREM SentinelLastHolds == Spec => []SentinelLast
<1>1. OInv => SentinelLast
    BY DEF OInv, Stopping, SentinelLast
<1> QED
    BY <1>1, OrderInvariance, PTL

(* server.py:459-469: an utterance marked final is the last of its call.      *)
THEOREM FinalIsLastHolds == Spec => []FinalIsLast
<1>1. OInv => FinalIsLast
    BY DEF OInv, LastOfCall
<1> QED
    BY <1>1, OrderInvariance, PTL

-----------------------------------------------------------------------------
(* A send on the loop has its connection, and what was sent is ahead of it: no *)
(* chunk is sent twice.                                                     *)
AheadIn(q, f) ==
    \A i \in DOMAIN q : Sends(q, i) => /\ q[i].conn # NoConn
                                       /\ \A x \in Chunks : f[x] = "sent" => x < q[i].n
SentAhead == AheadIn(ready, fate)

LEMMA AheadTail ==
    ASSUME NEW q \in Seq(Callbacks), q # <<>>, NEW f, AheadIn(q, f)
    PROVE  AheadIn(Tail(q), f)
<1>1. \A i \in DOMAIN Tail(q) : i + 1 \in DOMAIN q /\ Tail(q)[i] = q[i + 1]
    BY TailElements
<1>2. \A i \in DOMAIN Tail(q) : Sends(Tail(q), i) <=> Sends(q, i + 1)
    BY <1>1 DEF Sends
<1> QED
    BY <1>1, <1>2 DEF AheadIn

LEMMA AheadAppend ==
    ASSUME NEW q \in Seq(Callbacks), NEW f, AheadIn(q, f), NEW e \in Callbacks,
           e.kind \in {"mksend", "send"} /\ e.n # 0 =>
             e.conn # NoConn /\ \A x \in Chunks : f[x] = "sent" => x < e.n
    PROVE  AheadIn(Append(q, e), f)
<1> DEFINE p == Append(q, e)
<1>1. /\ DOMAIN p = DOMAIN q \cup {Len(q) + 1}
      /\ \A i \in DOMAIN q : p[i] = q[i]
      /\ p[Len(q) + 1] = e
    BY AppendElements
<1> HIDE DEF p
<1>2. /\ \A i \in DOMAIN q : Sends(p, i) <=> Sends(q, i)
      /\ Sends(p, Len(q) + 1) <=> e.kind \in {"mksend", "send"} /\ e.n # 0
    BY <1>1 DEF Sends
<1>3. AheadIn(p, f)
    BY <1>1, <1>2 DEF AheadIn
<1> QED
    BY <1>3 DEF p

(* A send is done when it is the oldest, so it joins what is ahead.          *)
LEMMA SentAheadStep ==
    ASSUME Shape, InLine, SendsInLine, SentAhead, [Next]_vars
    PROVE  SentAhead'
<1> USE DEF Shape
<1>n. Chunks \subseteq Nat
    BY BoundsAssumption DEF Chunks
<1>q. ready \in Seq(Callbacks)
    BY DEF TypeOK
<1>a. AheadIn(ready, fate) /\ InOrder(ready)
    BY DEF SentAhead, SendsInLine
<1> SUFFICES AheadIn(ready', fate')
    BY DEF SentAhead, AheadIn, Sends
<1>1. CASE RunCallback
  <2> DEFINE cb == ready[1]
             task == [cb EXCEPT !.kind = "send"]
  <2>1. /\ ready # <<>> /\ cb \in Callbacks /\ Tail(ready) \in Seq(Callbacks)
        /\ 1 \in DOMAIN ready
      BY <1>1, CallbackSteps
  <2>2. AheadIn(Tail(ready), fate)
      BY <1>q, <1>a, <2>1, AheadTail
  <2>3. CASE /\ cb.kind = "mksend" /\ ready' = Append(Tail(ready), task)
             /\ task \in Callbacks /\ task.kind = "send" /\ task.n = cb.n
             /\ task.conn = cb.conn /\ fate' = fate
    <3> HIDE DEF task
    <3>1. task.n # 0 => /\ task.conn # NoConn
                        /\ \A x \in Chunks : fate[x] = "sent" => x < task.n
        BY <1>a, <2>1, <2>3 DEF AheadIn, Sends
    <3> QED
        BY <2>1, <2>2, <2>3, <3>1, AheadAppend
  <2>4. CASE /\ cb.kind = "send" /\ ready' = Tail(ready)
             /\ cb.n \in Chunks
             /\ \A x \in Chunks : x # cb.n => fate'[x] = fate[x]
    <3>1. Sends(ready, 1)
      <4>1. cb.n # 0
          BY <1>n, <2>4 DEF Chunks
      <4> QED
          BY <2>4, <4>1 DEF Sends
    <3>2. ASSUME NEW i \in DOMAIN Tail(ready), Sends(Tail(ready), i)
          PROVE  cb.n < Tail(ready)[i].n
      <4>1. Before(cb, Tail(ready)[i]) /\ Tail(ready)[i].kind \in {"mksend", "send"}
          BY <1>q, <1>a, <2>1, <3>1, <3>2, InOrderTail DEF Sends
      <4> QED
          BY <2>4, <4>1 DEF Before
    <3>3. AheadIn(Tail(ready), fate')
        BY <2>2, <2>4, <3>2 DEF AheadIn
    <3> QED
        BY <2>4, <3>3
  <2>5. CASE fate' = fate /\ ready' = Tail(ready)
      BY <2>2, <2>5
  <2>6. CASE fate' = fate /\ ready' = Append(Tail(ready), EventOn("wake", cb.call))
    <3>1. EventOn("wake", cb.call) \in Callbacks /\ EventOn("wake", cb.call).kind = "wake"
        BY <2>1 DEF EventOn, Callbacks
    <3> QED
        BY <2>1, <2>2, <2>6, <3>1, AheadAppend
  <2> QED
      BY <1>1, <2>3, <2>4, <2>5, <2>6, CallbackSteps
<1>2. CASE /\ Emit /\ fate'[item.n] = "scheduled" /\ sockets[item.call] # NoConn
           /\ ready' = Append(ready, SendOn("mksend", item.call, sockets[item.call], item.n))
  <2> DEFINE e == SendOn("mksend", item.call, sockets[item.call], item.n)
  <2>1. /\ item.n \in Chunks /\ fate[item.n] = "work"
        /\ \A x \in Chunks : x # item.n => fate'[x] = fate[x]
      BY <1>2, EmitFate
  <2>2. e.n = item.n /\ e.conn # NoConn
      BY <1>2 DEF SendOn
  <2>3. e \in Callbacks
      BY <1>2, PostedElement
  <2>4. ready' = Append(ready, e)
      BY <1>2
  <2> HIDE DEF e
  <2>5. \A x \in Chunks : fate'[x] = "sent" => fate[x] = "sent"
      BY <1>2, <2>1
  <2>6. ASSUME NEW x \in Chunks, fate'[x] = "sent"
        PROVE  x < item.n
    <3>1. fate[x] = "sent" /\ x # item.n
        BY <2>1, <2>5, <2>6
    <3>2. ~(item.n < x)
        BY <2>1, <3>1 DEF InLine, Unfinished
    <3>3. \A n, m \in Nat : ~(n < m) /\ m # n => m < n
        OBVIOUS
    <3> QED
        BY ONLY <1>n, <2>1, <2>6, <3>1, <3>2, <3>3
  <2>7. AheadIn(ready, fate')
      BY <1>a, <2>5 DEF AheadIn
  <2> QED
      BY <1>q, <2>2, <2>3, <2>4, <2>6, <2>7, AheadAppend
<1>3. ASSUME NEW e, ready' = Append(ready, e), fate' = fate,
             ~(e.kind \in {"mksend", "send"} /\ e.n # 0)
      PROVE  AheadIn(ready', fate')
  <2>1. e \in Callbacks
      BY <1>3, PostedElement
  <2> QED
      BY <1>q, <1>a, <1>3, <2>1, AheadAppend
<1>4. CASE ready' = Append(ready, EventOn("set", item.call)) /\ fate' = fate
    BY <1>3, <1>4 DEF EventOn
<1>5. CASE /\ fate' = fate
           /\ ready' = Append(ready, SendOn("mksend", item.call, sockets[item.call], 0))
    BY <1>3, <1>5 DEF SendOn
<1>6. CASE /\ ready' = ready
           /\ \A x \in Chunks : \/ fate'[x] = fate[x]
                                \/ fate'[x] \notin {"scheduled", "sent"}
                                   /\ fate[x] \in Unfinished \cup {"none"}
  <2>1. \A x \in Chunks : fate'[x] = "sent" => fate[x] = "sent"
      BY <1>6
  <2> QED
      BY <1>a, <1>6, <2>1 DEF AheadIn
<1> QED
    BY <1>1, <1>2, <1>4, <1>5, <1>6, ReadySteps

(* server.py:240-254: every send on the loop has a connection, and no chunk   *)
(* that was sent is on the loop again.                                      *)
THEOREM SentAheadHolds == Spec => []SentAhead
<1>1. Init => SentAhead
    BY DEF Init, SentAhead, AheadIn
<1>2. IInv /\ OInv /\ SentAhead /\ [Next]_vars => SentAhead'
    BY SentAheadStep DEF IInv, OInv, Shape
<1> QED
    BY <1>1, <1>2, Invariance, OrderInvariance, PTL DEF Spec
=============================================================================
