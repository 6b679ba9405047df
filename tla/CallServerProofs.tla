-------------------------- MODULE CallServerProofs --------------------------
(***************************************************************************)
(* What TLAPS proves about CallServer for every value of its constants:      *)
(* the shared counter is exact, no wake-up is lost, and the event of a call *)
(* is set only when all its chunks are finished with.                       *)
(***************************************************************************)
EXTENDS CallServer, FiniteSetTheorems, TLAPS

-----------------------------------------------------------------------------
(* The inductive invariant, part by part.                                   *)

(* One handler at a time is between two awaits; a call has one handler; a    *)
(* handler that queues or ends a call has one.                              *)
Handlers ==
    /\ \A j, k \in Conns : hpc[j] \in MidStep /\ hpc[k] \in MidStep => j = k
    /\ \A j, k \in Conns : call[j] = call[k] /\ call[j] # NoCall => j = k
    /\ \A k \in Conns : hpc[k] \in Ending \cup {"put"} => call[k] # NoCall

(* The chunks made so far are 1..made, each with its call; the one that is   *)
(* counted and not yet queued is the last one made.                         *)
Made ==
    /\ \A x \in Chunks : fate[x] = "none" <=> x > made
    /\ \A x \in Chunks : owner[x] = NoCall <=> x > made
    /\ \A x \in Chunks : fate[x] = "counted" =>
          /\ x = made
          /\ \E k \in Conns : hpc[k] \in {"put", "putlast"}
    /\ \A k \in Conns : hpc[k] \in {"put", "putlast"} =>
          /\ made # 0
          /\ fate[made] = "counted"
          /\ owner[made] = call[k]

(* The queue holds each queued chunk once, under its own call.              *)
Queued ==
    /\ \A i \in DOMAIN queue : queue[i].kind = "chunk" =>
          /\ queue[i].n \in Chunks
          /\ queue[i].call = owner[queue[i].n]
          /\ fate[queue[i].n] = "queued"
    /\ \A i \in DOMAIN queue : queue[i].kind = "speak" => queue[i].call \in Calls
    /\ \A i, j \in DOMAIN queue :
          queue[i].kind = "chunk" /\ queue[j].kind = "chunk" /\ queue[i].n = queue[j].n
             => i = j

(* What the worker holds, and what it has posted for sending.               *)
Working ==
    /\ wpc = "work" => /\ item.n \in Chunks
                       /\ item.call = owner[item.n]
                       /\ fate[item.n] = "work"
    /\ wpc = "done" => /\ item.n \in Chunks
                       /\ item.call = owner[item.n]
                       /\ fate[item.n] \notin Unfinished \cup {"none"}
    /\ wpc \in {"speak", "notify"} => item.call \in Calls
    /\ \A i \in DOMAIN ready : ready[i].kind \in {"mksend", "send"} /\ ready[i].n # 0
          => fate[ready[i].n] \notin Unfinished \cup {"none"}

(* The event of c is about to be set, or its waiter about to be woken.       *)
IsEvent(e, c)   == e.kind \in {"set", "wake"} /\ e.call = c
Announced(q, c) == \E i \in DOMAIN q : IsEvent(q[i], c)
Posted(c)       == (wpc = "notify" /\ item.call = c) \/ Announced(ready, c)

(* c's handler has flushed its last utterance and is in one of these states. *)
EndedIn(c, pcs) == \E k \in Conns : call[k] = c /\ hpc[k] \in pcs

(* The counter of a call is exact, or the handler has thrown it away; and a *)
(* call has given up, registered or fired only if its handler got that far. *)
Counting ==
    \A c \in Calls :
        /\ \/ pending[c] = Cardinality(Owed(c))
           \/ pending[c] = 0 /\ c \in gaveUp /\ c \notin drained
        /\ c \in gaveUp => EndedIn(c, {"leave", "drop", "closed"})
        /\ c \in drained => EndedIn(c, {"wait", "leave"})
        /\ c \in fired \/ Posted(c) =>
              Owed(c) = {} /\ EndedIn(c, {"wait", "leave", "drop", "closed"})

(* Why a waiting handler will be woken, and why one that left was.          *)
Waiting ==
    /\ \A k \in Conns :
          /\ hpc[k] = "wait" => /\ call[k] \in drained
                                /\ Owed(call[k]) # {} \/ Posted(call[k])
          /\ hpc[k] = "leave" => call[k] \in gaveUp \cup fired
    /\ \A i \in DOMAIN ready : ready[i].kind = "wake" => ready[i].call \in fired

(* The inductive invariant.                                                 *)
IInv == TypeOK /\ Handlers /\ Made /\ Queued /\ Working /\ Counting /\ Waiting

-----------------------------------------------------------------------------
(* Sequences: what Append and Tail do to the elements.                      *)

(* Append adds one element at the end and keeps the others where they were.  *)
LEMMA AppendElements ==
    ASSUME NEW S, NEW s \in Seq(S), NEW e \in S
    PROVE  /\ Append(s, e) \in Seq(S)
           /\ DOMAIN Append(s, e) = DOMAIN s \cup {Len(s) + 1}
           /\ \A i \in DOMAIN s : Append(s, e)[i] = s[i]
           /\ Append(s, e)[Len(s) + 1] = e
           /\ DOMAIN s = 1..Len(s) /\ Len(s) \in Nat
    OBVIOUS

(* Tail moves every element but the first one place forward.                *)
LEMMA TailElements ==
    ASSUME NEW S, NEW s \in Seq(S), s # <<>>
    PROVE  /\ Tail(s) \in Seq(S)
           /\ Head(s) = s[1] /\ Head(s) \in S
           /\ DOMAIN Tail(s) = 1..(Len(s) - 1)
           /\ \A i \in DOMAIN Tail(s) : i + 1 \in DOMAIN s /\ Tail(s)[i] = s[i + 1]
           /\ DOMAIN s = 1..Len(s) /\ Len(s) \in Nat \ {0}
    OBVIOUS

-----------------------------------------------------------------------------
(* Every step keeps every variable in its range.                            *)
Shape == TypeOK /\ Handlers /\ Made /\ Queued /\ Working

LEMMA TypeStep == Shape /\ [Next]_vars => TypeOK'
<1> SUFFICES ASSUME Shape, [Next]_vars PROVE TypeOK'
    OBVIOUS
<1> USE CallsAssumption, ConnsAssumption, BoundsAssumption DEF Shape, TypeOK, hvars, svars, cvars, wvars
<1>1. ASSUME NEW k \in Conns,
             Accept(k) \/ CallStart(k) \/ AudioAdopted(k) \/ AudioOpens(k)
      PROVE  TypeOK'
  <2>1. CASE Accept(k)
      BY <2>1 DEF Accept, HandlerPC
  <2>2. CASE CallStart(k)
      BY <2>2 DEF CallStart
  <2>3. CASE AudioAdopted(k)
      BY <2>3 DEF AudioAdopted
  <2>4. CASE AudioOpens(k)
      BY <2>4 DEF AudioOpens
  <2> QED
      BY <1>1, <2>1, <2>2, <2>3, <2>4
<1>2. ASSUME NEW k \in Conns, NEW pc \in {"put", "putlast"}, call[k] \in Calls, Count(k, pc),
             UNCHANGED <<sock, call, sockets, drained, gaveUp, fired, queue, ready,
                         wvars, speaks, stopping>>
      PROVE  TypeOK'
    BY <1>2 DEF Count, HandlerPC, MidStep, Chunks, Fates, Unfinished
<1>3. ASSUME NEW k \in Conns, AudioCloses(k) \/ WatchIdle(k)
      PROVE  TypeOK'
    BY <1>2, <1>3 DEF AudioCloses, WatchIdle
<1>4. ASSUME NEW k \in Conns, CallEnd(k) \/ EndOfStream(k)
      PROVE  TypeOK'
  <2>1. EndCall(k)
      BY <1>4 DEF CallEnd, EndOfStream
  <2>2. CASE call[k] = NoCall \/ ~open[k]
      BY <2>1, <2>2 DEF EndCall, HandlerPC, MidStep
  <2>3. CASE call[k] # NoCall /\ open[k]
      BY <1>2, <2>1, <2>3 DEF EndCall
  <2> QED
      BY <2>2, <2>3
<1>5. ASSUME NEW k \in Conns, QueueSpeech(k)
      PROVE  TypeOK'
  <2>1. SpeakItem(call[k]) \in Items
      BY <1>5 DEF QueueSpeech, SpeakItem, Items
  <2> QED
      BY <1>5, <2>1 DEF QueueSpeech
<1>6. ASSUME NEW k \in Conns, DrainTimeout(k) \/ Check(k)
      PROVE  TypeOK'
  <2>1. call[k] \in Calls
      BY <1>6 DEF DrainTimeout, Check, Handlers, Ending
  <2> QED
      BY <1>6, <2>1 DEF DrainTimeout, Check, HandlerPC, MidStep
<1>7. ASSUME NEW k \in Conns, SocketCloses(k) \/ Leave(k) \/ Drop(k)
      PROVE  TypeOK'
  <2>1. CASE SocketCloses(k)
      BY <2>1 DEF SocketCloses
  <2>2. CASE Leave(k)
      BY <2>2 DEF Leave, HandlerPC, MidStep
  <2>3. CASE Drop(k)
      BY <2>3 DEF Drop, HandlerPC, MidStep
  <2> QED
      BY <1>7, <2>1, <2>2, <2>3
<1>8. ASSUME NEW k \in Conns, Put(k)
      PROVE  TypeOK'
  <2>1. made \in Chunks /\ call[k] \in Calls
      BY <1>8 DEF Put, Made, Handlers, Ending, Chunks
  <2>2. ChunkItem(made, call[k]) \in Items
      BY <2>1 DEF ChunkItem, Items
  <2>3. queue' \in Seq(Items)
      BY <1>8, <2>2 DEF Put
  <2>4. hpc' \in [Conns -> HandlerPC] /\ fate' \in [Chunks -> Fates]
      BY <1>8 DEF Put, HandlerPC, MidStep, Fates, Unfinished
  <2> QED
      BY <1>8, <2>3, <2>4 DEF Put
<1>9. CASE RunCallback
  <2> DEFINE cb == Head(ready)
  <2>1. cb \in Callbacks /\ Tail(ready) \in Seq(Callbacks)
      BY <1>9, TailElements DEF RunCallback
  <2>2. [cb EXCEPT !.kind = "send"] \in Callbacks /\ EventOn("wake", cb.call) \in Callbacks
      BY <2>1 DEF Callbacks, EventOn
  <2>3. ready' \in Seq(Callbacks)
    <3>1. \A e \in Callbacks : Append(Tail(ready), e) \in Seq(Callbacks)
        BY <2>1, AppendElements
    <3> QED
      <4>1. \/ ready' = Tail(ready)
            \/ ready' = Append(Tail(ready), [cb EXCEPT !.kind = "send"])
            \/ ready' = Append(Tail(ready), EventOn("wake", cb.call))
          BY <1>9 DEF RunCallback
      <4> QED
          BY ONLY <2>1, <2>2, <3>1, <4>1, Zenon
  <2>4. hpc' \in [Conns -> HandlerPC] /\ fate' \in [Chunks -> Fates] /\ fired' \subseteq Calls
      BY <1>9, <2>1 DEF RunCallback, Callbacks, HandlerPC, MidStep, Fates
  <2> QED
      BY <1>9, <2>3, <2>4 DEF RunCallback
<1>10. CASE Get
  <2>1. Head(queue) \in Items /\ Tail(queue) \in Seq(Items)
      BY <1>10, TailElements DEF Get
  <2>2. wpc' \in WorkerPC
      BY <1>10, <2>1 DEF Get, Items, WorkerPC
  <2>3. fate' \in [Chunks -> Fates]
      BY <1>10 DEF Get, Fates, Unfinished
  <2> QED
      BY <1>10, <2>1, <2>2, <2>3 DEF Get
<1>11. CASE Emit
  <2>1. item.n \in Chunks /\ item.call \in Calls
      BY <1>11 DEF Emit, Working, Made, Items, Chunks, Unfinished
  <2>2. \A k \in Conns : SendOn("mksend", item.call, k, item.n) \in Callbacks
      BY <2>1 DEF SendOn, Callbacks
  <2>3. ready' \in Seq(Callbacks)
    <3>1. sockets[item.call] \in Conns \cup {NoConn}
        BY <2>1
    <3>2. \A e \in Callbacks : Append(ready, e) \in Seq(Callbacks)
        BY AppendElements
    <3> QED
      <4>1. \/ ready' = ready
            \/ /\ sockets[item.call] # NoConn
               /\ ready' = Append(ready, SendOn("mksend", item.call, sockets[item.call], item.n))
          BY <1>11 DEF Emit
      <4>2. sockets[item.call] # NoConn =>
              SendOn("mksend", item.call, sockets[item.call], item.n) \in Callbacks
          BY <2>2, <3>1
      <4>3. ready \in Seq(Callbacks)
          OBVIOUS
      <4> QED
          BY ONLY <3>2, <4>1, <4>2, <4>3, Zenon
  <2>4. fate' \in [Chunks -> Fates]
      BY <1>11 DEF Emit, Fates
  <2> QED
      BY <1>11, <2>3, <2>4 DEF Emit, WorkerPC
<1>12. NoItem \in Items
    BY DEF NoItem, Items
<1>13. CASE ChunkDone
  <2> DEFINE c == item.call
  <2>1. c \in Calls
      BY <1>13 DEF ChunkDone, Working, Made, Chunks, Unfinished
  <2>2. pending[c] > 1 => pending[c] - 1 \in Nat
      BY <2>1
  <2>3. pending' = [pending EXCEPT ![c] = IF pending[c] > 1 THEN pending[c] - 1 ELSE 0]
      BY <1>13, <2>1 DEF ChunkDone
  <2>4. pending' \in [Calls -> Nat]
      BY <2>2, <2>3
  <2> QED
      BY <1>12, <1>13, <2>4 DEF ChunkDone, WorkerPC
<1>14. CASE Notify
  <2>1. EventOn("set", item.call) \in Callbacks
      BY <1>14 DEF Notify, Working, EventOn, Callbacks
  <2> QED
      BY <1>12, <1>14, <2>1 DEF Notify, WorkerPC
<1>15. CASE Speak
  <2>1. item.call \in Calls
      BY <1>15 DEF Speak, Working
  <2>2. sockets[item.call] # NoConn =>
          SendOn("mksend", item.call, sockets[item.call], 0) \in Callbacks
      BY <2>1 DEF SendOn, Callbacks
  <2>3. ready' \in Seq(Callbacks)
    <3>1. \A e \in Callbacks : Append(ready, e) \in Seq(Callbacks)
        BY AppendElements
    <3> QED
      <4>1. \/ ready' = ready
            \/ /\ sockets[item.call] # NoConn
               /\ ready' = Append(ready, SendOn("mksend", item.call, sockets[item.call], 0))
          BY <1>15 DEF Speak
      <4>2. ready \in Seq(Callbacks)
          OBVIOUS
      <4> QED
          BY ONLY <2>2, <3>1, <4>1, <4>2, Zenon
  <2> QED
      BY <1>12, <1>15, <2>3 DEF Speak, WorkerPC
<1>16. CASE Crash \/ BeginStop \/ FinishStop
  <2>1. CASE Crash
      BY <2>1 DEF Crash, WorkerPC
  <2>2. CASE BeginStop
      BY <2>2 DEF BeginStop
  <2>3. CASE FinishStop
    <3>1. queue' \in Seq(Items)
        BY <1>12, <2>3, AppendElements DEF FinishStop
    <3> QED
        BY <2>3, <3>1 DEF FinishStop
  <2> QED
      BY <1>16, <2>1, <2>2, <2>3
<1>17. CASE UNCHANGED vars
    BY <1>17 DEF vars
<1> QED
    BY <1>1, <1>3, <1>4, <1>5, <1>6, <1>7, <1>8, <1>9, <1>10, <1>11, <1>13, <1>14, <1>15, <1>16,
       <1>17 DEF Next, Handler, MidCall, WorkerStep, Finished

-----------------------------------------------------------------------------
(* What one step can do to the handlers' program counters and calls.        *)
Moves(k, pc) ==
    /\ LoopFree \/ hpc[k] \in MidStep
    /\ pc \in Ending \cup {"put"} => call[k] # NoCall
    /\ hpc[k] # "closed"
    /\ hpc[k] = "wait"  => pc = "leave"
    /\ hpc[k] = "leave" => pc = "drop" /\ Leave(k)
    /\ hpc[k] = "drop"  => pc = "closed"
    /\ pc = "wait"  => Check(k)
    /\ pc = "leave" => DrainTimeout(k)
    /\ hpc' = [hpc EXCEPT ![k] = pc]
    /\ call' = call
TakesCall(k, c) ==
    /\ hpc[k] = "recv"
    /\ Fresh(c) \/ c = call[k]
    /\ hpc' = hpc
    /\ call' = [call EXCEPT ![k] = c]
Woken ==
    /\ RunCallback
    /\ \A k \in Conns : \/ hpc'[k] = hpc[k]
                        \/ hpc[k] = "wait" /\ hpc'[k] = "leave"
    /\ \A j, k \in Conns : hpc'[j] # hpc[j] /\ hpc'[k] # hpc[k] => j = k
    /\ call' = call

(* Each step moves one handler, gives one handler a call, wakes one, or     *)
(* leaves the handlers alone.                                               *)
LEMMA HandlerSteps ==
    ASSUME Shape, [Next]_vars
    PROVE  \/ UNCHANGED <<hpc, call>>
           \/ \E k \in Conns : \E pc \in HandlerPC : Moves(k, pc)
           \/ \E k \in Conns : \E c \in Calls : TakesCall(k, c)
           \/ Woken
<1> USE DEF Shape
<1>1. ASSUME NEW k \in Conns, Accept(k)
      PROVE  Moves(k, "recv")
    BY <1>1 DEF Accept, Moves, Ending
<1>2. ASSUME NEW k \in Conns, CallStart(k) \/ AudioAdopted(k)
      PROVE  \E c \in Calls : TakesCall(k, c)
  <2>1. CASE CallStart(k)
      BY <2>1 DEF CallStart, TakesCall, Resumes
  <2>2. CASE AudioAdopted(k)
      BY <2>2 DEF AudioAdopted, TakesCall, Resumes
  <2> QED
      BY <1>2, <2>1, <2>2
<1>3. ASSUME NEW k \in Conns, AudioCloses(k) \/ WatchIdle(k)
      PROVE  Moves(k, "put")
    BY <1>3 DEF AudioCloses, WatchIdle, Count, Moves, Resumes
<1>4. ASSUME NEW k \in Conns, CallEnd(k) \/ EndOfStream(k)
      PROVE  \E pc \in {"closed", "check", "putlast"} : Moves(k, pc)
  <2>1. LoopFree /\ EndCall(k) /\ hpc[k] = "recv"
      BY <1>4 DEF CallEnd, EndOfStream, Resumes
  <2>2. CASE call[k] = NoCall
      BY <2>1, <2>2 DEF EndCall, Moves, Ending
  <2>3. CASE call[k] # NoCall /\ ~open[k]
      BY <2>1, <2>3 DEF EndCall, Moves
  <2>4. CASE call[k] # NoCall /\ open[k]
      BY <2>1, <2>4 DEF EndCall, Count, Moves
  <2> QED
      BY <2>2, <2>3, <2>4
<1>5. ASSUME NEW k \in Conns, DrainTimeout(k)
      PROVE  Moves(k, "leave")
    BY <1>5 DEF DrainTimeout, Moves, Handlers, Ending
<1>6. ASSUME NEW k \in Conns, Put(k)
      PROVE  \E pc \in {"recv", "check"} : Moves(k, pc)
    BY <1>6 DEF Put, Moves, Handlers, Ending, MidStep, TypeOK
<1>7. ASSUME NEW k \in Conns, Check(k)
      PROVE  \E pc \in {"drop", "wait"} : Moves(k, pc)
    BY <1>7 DEF Check, Moves, Handlers, Ending, MidStep
<1>8. ASSUME NEW k \in Conns, Leave(k)
      PROVE  Moves(k, "drop")
    BY <1>8 DEF Leave, Moves, Handlers, Ending, MidStep
<1>9. ASSUME NEW k \in Conns, Drop(k)
      PROVE  Moves(k, "closed")
    BY <1>9 DEF Drop, Moves, Handlers, Ending, MidStep
<1>10. CASE RunCallback
  <2>1. call' = call
      BY <1>10 DEF RunCallback
  <2>2. ASSUME NEW k \in Conns, hpc'[k] # hpc[k]
        PROVE  hpc[k] = "wait" /\ hpc'[k] = "leave"
      BY <1>10, <2>2 DEF RunCallback
  <2>3. ASSUME NEW k \in Conns, hpc'[k] # hpc[k]
        PROVE  call[k] = Head(ready).call
      BY <1>10, <2>3 DEF RunCallback
  <2>4. ASSUME NEW j \in Conns, NEW k \in Conns, hpc'[j] # hpc[j], hpc'[k] # hpc[k]
        PROVE  j = k
      BY <2>2, <2>3, <2>4 DEF Handlers, Ending
  <2> QED
      BY <1>10, <2>1, <2>2, <2>4 DEF Woken
<1>11. ASSUME NEW k \in Conns, AudioOpens(k) \/ QueueSpeech(k) \/ SocketCloses(k)
       PROVE  UNCHANGED <<hpc, call>>
    BY <1>11 DEF AudioOpens, QueueSpeech, SocketCloses
<1>12. CASE WorkerStep \/ Crash \/ BeginStop \/ FinishStop \/ Finished \/ UNCHANGED vars
    BY <1>12 DEF WorkerStep, Get, Emit, ChunkDone, Notify, Speak, Crash, BeginStop, FinishStop,
       Finished, vars, hvars
<1>13. {"recv", "put", "closed", "check", "putlast", "leave", "drop", "wait"} \subseteq HandlerPC
    BY DEF HandlerPC, MidStep
<1> QED
    BY <1>1, <1>2, <1>3, <1>4, <1>5, <1>6, <1>7, <1>8, <1>9, <1>10, <1>11, <1>12, <1>13
    DEF Next, Handler, MidCall

(* One handler is mid-step at a time, and calls are not shared.             *)
LEMMA HandlersStep == Shape /\ [Next]_vars => Handlers'
<1> SUFFICES ASSUME Shape, [Next]_vars PROVE Handlers'
    OBVIOUS
<1> USE CallsAssumption DEF Shape
<1>1. CASE UNCHANGED <<hpc, call>>
    BY <1>1 DEF Handlers
<1>2. ASSUME NEW k \in Conns, NEW pc \in HandlerPC, Moves(k, pc)
      PROVE  Handlers'
  <2>1. \A j \in Conns : hpc'[j] = IF j = k THEN pc ELSE hpc[j]
      BY <1>2 DEF Moves, TypeOK
  <2> QED
      BY <1>2, <2>1 DEF Moves, Handlers, LoopFree
<1>3. ASSUME NEW k \in Conns, NEW c \in Calls, TakesCall(k, c)
      PROVE  Handlers'
  <2>1. \A j \in Conns : call'[j] = IF j = k THEN c ELSE call[j]
      BY <1>3 DEF TakesCall, TypeOK
  <2> QED
      BY <1>3, <2>1 DEF TakesCall, Handlers, Fresh
<1>4. CASE Woken
  <2>1. \A k \in Conns : hpc'[k] \in MidStep => hpc'[k] # hpc[k]
      BY <1>4 DEF Woken, RunCallback, LoopFree
  <2>2. \A k \in Conns : hpc'[k] \in Ending \cup {"put"} => hpc[k] \in Ending \cup {"put"}
      BY <1>4 DEF Woken, Ending
  <2> QED
      BY <1>4, <2>1, <2>2 DEF Woken, Handlers
<1> QED
    BY <1>1, <1>2, <1>3, <1>4, HandlerSteps

-----------------------------------------------------------------------------
(* How the three steps that move a chunk along change its fate.             *)
LEMMA CallbackFate ==
    ASSUME Shape, RunCallback
    PROVE  \A x \in Chunks :
             \/ fate'[x] = fate[x]
             \/ fate[x] \notin Unfinished \cup {"none"} /\ fate'[x] \in {"sent", "lost"}
<1> DEFINE cb == Head(ready)
<1>1. fate \in [Chunks -> Fates]
    BY DEF Shape, TypeOK
<1>2. CASE fate' # fate
  <2>1. cb.kind = "send" /\ cb.n # 0 /\ ready # <<>>
      BY <1>2 DEF RunCallback
  <2>2. cb = ready[1] /\ 1 \in DOMAIN ready
      BY <2>1, TailElements DEF Shape, TypeOK
  <2>3. fate[cb.n] \notin Unfinished \cup {"none"}
      BY <2>1, <2>2 DEF Shape, Working
  <2>4. \E f \in {"sent", "lost"} : fate' = [fate EXCEPT ![cb.n] = f]
      BY <2>1 DEF RunCallback
  <2> QED
      BY ONLY <1>1, <2>3, <2>4
<1> QED
    BY <1>2

(* Get takes the chunk it dequeues, if it is one, into work.                *)
LEMMA GetFate ==
    ASSUME Shape, Get
    PROVE  /\ Head(queue) = queue[1] /\ 1 \in DOMAIN queue
           /\ queue[1].kind = "chunk" => fate[queue[1].n] = "queued"
           /\ \A x \in Chunks :
                fate'[x] = IF queue[1].kind = "chunk" /\ x = queue[1].n THEN "work" ELSE fate[x]
           /\ \A x \in Chunks : fate'[x] # fate[x] => fate[x] = "queued" /\ fate'[x] = "work"
<1>1. fate \in [Chunks -> Fates]
    BY DEF Shape, TypeOK
<1>2. Head(queue) = queue[1] /\ 1 \in DOMAIN queue
    BY TailElements DEF Get, Shape, TypeOK
<1>3. fate' = IF queue[1].kind = "chunk" THEN [fate EXCEPT ![queue[1].n] = "work"] ELSE fate
    BY <1>2 DEF Get
<1>4. queue[1].kind = "chunk" => fate[queue[1].n] = "queued"
    BY <1>2 DEF Shape, Queued
<1> QED
    BY ONLY <1>1, <1>2, <1>3, <1>4

(* Emit moves the chunk in work past the sink, and no other.                *)
LEMMA EmitFate ==
    ASSUME Shape, Emit
    PROVE  /\ item.n \in Chunks /\ fate[item.n] = "work"
           /\ fate'[item.n] \in {"nothing", "lost", "scheduled"}
           /\ \A x \in Chunks : x # item.n => fate'[x] = fate[x]
<1>1. fate \in [Chunks -> Fates]
    BY DEF Shape, TypeOK
<1>2. item.n \in Chunks /\ fate[item.n] = "work"
    BY DEF Emit, Shape, Working
<1>3. \E f \in {"nothing", "lost", "scheduled"} : fate' = [fate EXCEPT ![item.n] = f]
    BY DEF Emit
<1> QED
    BY ONLY <1>1, <1>2, <1>3

(* A step that cuts an utterance, from a handler that holds the loop.        *)
Cuts(k, pc) ==
    /\ LoopFree /\ hpc[k] = "recv" /\ call[k] \in Calls
    /\ Count(k, pc)
    /\ UNCHANGED <<call, drained, gaveUp, fired, queue, ready, wvars>>

(* Every chunk is none or counted after the step exactly if it was before,   *)
(* and no handler starts or ends queueing one.                              *)
KeepsMade ==
    /\ UNCHANGED <<owner, made>>
    /\ \A x \in Chunks : /\ fate'[x] = "none" <=> fate[x] = "none"
                         /\ fate'[x] = "counted" <=> fate[x] = "counted"
    /\ \A k \in Conns : hpc'[k] \in {"put", "putlast"} <=> hpc[k] \in {"put", "putlast"}
    /\ \A k \in Conns : hpc[k] \in {"put", "putlast"} => call'[k] = call[k]

(* A step cuts a chunk, queues one, or keeps the chunks made.               *)
LEMMA ChunkSteps ==
    ASSUME Shape, [Next]_vars
    PROVE  \/ \E k \in Conns : \E pc \in {"put", "putlast"} : Cuts(k, pc)
           \/ \E k \in Conns : Put(k)
           \/ KeepsMade
<1> USE DEF Shape
<1>1. ASSUME NEW k \in Conns, AudioCloses(k) \/ WatchIdle(k)
      PROVE  Cuts(k, "put")
    BY <1>1 DEF AudioCloses, WatchIdle, Cuts, Resumes, TypeOK
<1>2. ASSUME NEW k \in Conns, CallEnd(k) \/ EndOfStream(k)
      PROVE  Cuts(k, "putlast") \/ KeepsMade
  <2>1. Resumes(k) /\ EndCall(k)
      BY <1>2 DEF CallEnd, EndOfStream
  <2>2. CASE call[k] = NoCall \/ ~open[k]
    <3>1. UNCHANGED <<call, owner, made, fate>> /\ hpc[k] = "recv"
        BY <2>1, <2>2 DEF EndCall, cvars, Resumes
    <3>2. \E pc \in {"closed", "check"} : hpc' = [hpc EXCEPT ![k] = pc]
        BY <2>1, <2>2 DEF EndCall
    <3> QED
        BY <3>1, <3>2 DEF KeepsMade, TypeOK
  <2>3. CASE call[k] # NoCall /\ open[k]
      BY <2>1, <2>3 DEF EndCall, Cuts, Resumes, TypeOK
  <2> QED
      BY <2>2, <2>3
<1>3. ASSUME NEW k \in Conns,
             \/ Accept(k) \/ DrainTimeout(k) \/ Check(k) \/ Leave(k) \/ Drop(k)
      PROVE  KeepsMade
    BY <1>3 DEF Accept, DrainTimeout, Check, Leave, Drop, KeepsMade, cvars, TypeOK
<1>4. ASSUME NEW k \in Conns, CallStart(k) \/ AudioAdopted(k)
      PROVE  KeepsMade
    BY <1>4 DEF CallStart, AudioAdopted, Resumes, KeepsMade, cvars, TypeOK
<1>5. ASSUME NEW k \in Conns, AudioOpens(k) \/ QueueSpeech(k) \/ SocketCloses(k)
      PROVE  KeepsMade
    BY <1>5 DEF AudioOpens, QueueSpeech, SocketCloses, KeepsMade, cvars
<1>6. CASE RunCallback
  <2>1. UNCHANGED <<owner, made, call>>
      BY <1>6 DEF RunCallback
  <2>2. ASSUME NEW k \in Conns, hpc'[k] # hpc[k]
        PROVE  hpc[k] = "wait" /\ hpc'[k] = "leave"
      BY <1>6, <2>2 DEF RunCallback
  <2> QED
      BY <1>6, <2>1, <2>2, CallbackFate DEF KeepsMade, Unfinished
<1>7. CASE Get
  <2>1. UNCHANGED <<owner, made, call, hpc>>
      BY <1>7 DEF Get, hvars
  <2> QED
      BY <1>7, <2>1, GetFate DEF KeepsMade
<1>8. CASE Emit
  <2>1. UNCHANGED <<owner, made, call, hpc>>
      BY <1>8 DEF Emit, hvars
  <2> QED
      BY <1>8, <2>1, EmitFate DEF KeepsMade
<1>9. CASE ChunkDone \/ Notify \/ Speak \/ Crash \/ BeginStop \/ FinishStop \/ Finished
           \/ UNCHANGED vars
    BY <1>9 DEF ChunkDone, Notify, Speak, Crash, BeginStop, FinishStop, Finished, vars, hvars,
       cvars, KeepsMade
<1> QED
    BY <1>1, <1>2, <1>3, <1>4, <1>5, <1>6, <1>7, <1>8, <1>9
    DEF Next, Handler, MidCall, WorkerStep

(* Chunks stay numbered in the order they were cut.                         *)
LEMMA MadeStep == Shape /\ [Next]_vars => Made'
<1> SUFFICES ASSUME Shape, [Next]_vars PROVE Made'
    OBVIOUS
<1> USE CallsAssumption, BoundsAssumption DEF Shape
<1>1. ASSUME NEW k \in Conns, NEW pc \in {"put", "putlast"}, Cuts(k, pc)
      PROVE  Made'
  <2>1. made' = made + 1 /\ made + 1 \in Chunks /\ made \in Nat
      BY <1>1 DEF Cuts, Count, TypeOK, Chunks
  <2>2. \A x \in Chunks : /\ fate'[x] = IF x = made + 1 THEN "counted" ELSE fate[x]
                          /\ owner'[x] = IF x = made + 1 THEN call[k] ELSE owner[x]
      BY <1>1 DEF Cuts, Count, TypeOK
  <2>3. \A j \in Conns : hpc'[j] = IF j = k THEN pc ELSE hpc[j]
      BY <1>1 DEF Cuts, Count, TypeOK
  <2>4. \A x \in Chunks : fate[x] # "counted"
      BY <1>1 DEF Cuts, Made, LoopFree, MidStep
  <2>5. \A x \in Chunks : /\ fate'[x] = "none" <=> x > made'
                          /\ owner'[x] = NoCall <=> x > made'
      BY <1>1, <2>1, <2>2 DEF Made, Cuts, Chunks
  <2>6. \A x \in Chunks : fate'[x] = "counted" => x = made'
      BY <2>1, <2>2, <2>4
  <2>7. \A j \in Conns : hpc'[j] \in {"put", "putlast"} <=> j = k
      BY <1>1, <2>3 DEF Cuts, LoopFree, MidStep
  <2>8. \E j \in Conns : hpc'[j] \in {"put", "putlast"}
      BY <2>7
  <2>9. fate'[made'] = "counted" /\ owner'[made'] = call'[k] /\ made' # 0
      BY <1>1, <2>1, <2>2 DEF Cuts
  <2> QED
      BY ONLY <2>5, <2>6, <2>7, <2>9, <2>8 DEF Made
<1>2. ASSUME NEW k \in Conns, Put(k)
      PROVE  Made'
  <2>1. made \in Chunks /\ fate[made] = "counted"
      BY <1>2 DEF Put, Made, TypeOK, Chunks
  <2>2. \A x \in Chunks : fate'[x] = IF x = made THEN "queued" ELSE fate[x]
      BY <1>2, <2>1 DEF Put, TypeOK
  <2>3. \A j \in Conns : hpc'[j] \notin {"put", "putlast"}
      BY <1>2 DEF Put, Handlers, MidStep, TypeOK
  <2> QED
      BY <1>2, <2>1, <2>2, <2>3 DEF Put, Made
<1>3. CASE KeepsMade
  <2>1. \A k \in Conns : hpc[k] \in {"put", "putlast"} => made \in Chunks
      BY DEF Made, TypeOK, Chunks
  <2> QED
      BY <1>3, <2>1 DEF KeepsMade, Made
<1> QED
    BY <1>1, <1>2, <1>3, ChunkSteps

-----------------------------------------------------------------------------
(* The queue is left alone and so is every chunk on it.                     *)
KeepsQueued ==
    /\ queue' = queue
    /\ \A x \in Chunks : fate[x] = "queued" => fate'[x] = "queued" /\ owner'[x] = owner[x]

(* A step appends to the queue, takes its head, or keeps it.                *)
LEMMA QueueSteps ==
    ASSUME Shape, [Next]_vars
    PROVE  \/ \E k \in Conns : Put(k) \/ QueueSpeech(k)
           \/ Get \/ FinishStop \/ KeepsQueued
<1> USE DEF Shape
<1>1. ASSUME NEW k \in Conns, NEW pc \in {"put", "putlast"}, Cuts(k, pc)
      PROVE  KeepsQueued
  <2>1. made + 1 \in Chunks /\ fate[made + 1] = "none"
    <3>1. made < MaxChunks /\ made \in Nat /\ MaxChunks \in Nat
        BY <1>1, BoundsAssumption DEF Cuts, Count, TypeOK
    <3>2. made + 1 \in Chunks /\ made + 1 > made
        BY <3>1 DEF Chunks
    <3> QED
        BY <3>2 DEF Made
  <2>2. \A x \in Chunks : x # made + 1 => fate'[x] = fate[x] /\ owner'[x] = owner[x]
      BY <1>1 DEF Cuts, Count, TypeOK
  <2> QED
      BY <1>1, <2>1, <2>2 DEF Cuts, KeepsQueued
<1>2. ASSUME NEW k \in Conns, AudioCloses(k) \/ WatchIdle(k)
      PROVE  KeepsQueued
    BY <1>1, <1>2 DEF AudioCloses, WatchIdle, Cuts, Resumes, TypeOK
<1>3. ASSUME NEW k \in Conns, CallEnd(k) \/ EndOfStream(k)
      PROVE  KeepsQueued
  <2>1. Resumes(k) /\ EndCall(k)
      BY <1>3 DEF CallEnd, EndOfStream
  <2>2. CASE call[k] = NoCall \/ ~open[k]
      BY <2>1, <2>2 DEF EndCall, KeepsQueued, cvars
  <2>3. CASE call[k] # NoCall /\ open[k]
      BY <1>1, <2>1, <2>3 DEF EndCall, Cuts, Resumes, TypeOK
  <2> QED
      BY <2>2, <2>3
<1>4. ASSUME NEW k \in Conns,
             \/ Accept(k) \/ CallStart(k) \/ AudioAdopted(k) \/ AudioOpens(k)
             \/ DrainTimeout(k) \/ SocketCloses(k) \/ Check(k) \/ Leave(k) \/ Drop(k)
      PROVE  KeepsQueued
    BY <1>4 DEF Accept, CallStart, AudioAdopted, AudioOpens, DrainTimeout, SocketCloses, Check,
       Leave, Drop, KeepsQueued, cvars
<1>5. CASE RunCallback
  <2>1. queue' = queue /\ owner' = owner
      BY <1>5 DEF RunCallback
  <2> QED
      BY <1>5, <2>1, CallbackFate DEF KeepsQueued, Unfinished
<1>6. CASE Emit
  <2>1. queue' = queue /\ owner' = owner
      BY <1>6 DEF Emit
  <2> QED
      BY <1>6, <2>1, EmitFate DEF KeepsQueued
<1>7. CASE ChunkDone \/ Notify \/ Speak \/ Crash \/ BeginStop \/ Finished \/ UNCHANGED vars
    BY <1>7 DEF ChunkDone, Notify, Speak, Crash, BeginStop, Finished, vars, cvars, KeepsQueued
<1> QED
    BY <1>2, <1>3, <1>4, <1>5, <1>6, <1>7 DEF Next, Handler, MidCall, WorkerStep

(* The queue keeps holding each queued chunk once.                          *)
LEMMA QueuedStep == Shape /\ [Next]_vars => Queued'
<1> SUFFICES ASSUME Shape, [Next]_vars PROVE Queued'
    OBVIOUS
<1> USE DEF Shape
<1>1. CASE KeepsQueued
    BY <1>1 DEF KeepsQueued, Queued
<1>2. ASSUME NEW k \in Conns, Put(k)
      PROVE  Queued'
  <2> DEFINE e == ChunkItem(made, call[k])
  <2>1. /\ made \in Chunks /\ fate[made] = "counted" /\ owner[made] = call[k]
        /\ e.kind = "chunk" /\ e.n = made /\ e.call = call[k]
        /\ call[k] \in Calls
      BY <1>2 DEF Put, Made, TypeOK, Chunks, ChunkItem, Handlers, Ending
  <2>2. e \in Items
      BY <2>1 DEF ChunkItem, Items
  <2>3. /\ queue' = Append(queue, e) /\ owner' = owner
        /\ \A x \in Chunks : fate'[x] = IF x = made THEN "queued" ELSE fate[x]
      BY <1>2, <2>1 DEF Put, TypeOK
  <2>4. /\ DOMAIN queue' = DOMAIN queue \cup {Len(queue) + 1}
        /\ \A i \in DOMAIN queue : queue'[i] = queue[i]
        /\ queue'[Len(queue) + 1] = e
      BY <2>2, <2>3, AppendElements DEF TypeOK
  <2> HIDE DEF e
  <2> QED
      BY <2>1, <2>3, <2>4 DEF Queued
<1>3. ASSUME NEW e \in Items, queue' = Append(queue, e), e.kind # "chunk",
             e.kind = "speak" => e.call \in Calls, UNCHANGED <<fate, owner>>
      PROVE  Queued'
  <2>1. /\ DOMAIN queue' = DOMAIN queue \cup {Len(queue) + 1}
        /\ \A i \in DOMAIN queue : queue'[i] = queue[i]
        /\ queue'[Len(queue) + 1] = e
      BY <1>3, AppendElements DEF TypeOK
  <2> QED
      BY <1>3, <2>1 DEF Queued
<1>4. ASSUME NEW k \in Conns, QueueSpeech(k)
      PROVE  Queued'
  <2>1. /\ SpeakItem(call[k]) \in Items
        /\ SpeakItem(call[k]).kind = "speak" /\ SpeakItem(call[k]).call \in Calls
      BY <1>4 DEF QueueSpeech, SpeakItem, Items, TypeOK
  <2> QED
      BY <1>3, <1>4, <2>1 DEF QueueSpeech, cvars
<1>5. CASE FinishStop
  <2>1. NoItem \in Items /\ NoItem.kind = "stop"
      BY DEF NoItem, Items
  <2> QED
      BY <1>3, <1>5, <2>1 DEF FinishStop, cvars
<1>6. CASE Get
  <2>1. queue' = Tail(queue) /\ queue # <<>> /\ owner' = owner
      BY <1>6 DEF Get
  <2>2. /\ 1 \in DOMAIN queue
        /\ \A i \in DOMAIN queue' : /\ i + 1 \in DOMAIN queue /\ i + 1 # 1 /\ i \in Nat
                                    /\ queue'[i] = queue[i + 1]
      BY <2>1, TailElements DEF TypeOK
  <2>3. ASSUME NEW i \in DOMAIN queue', queue'[i].kind = "chunk"
        PROVE  fate'[queue'[i].n] = fate[queue'[i].n]
      BY <1>6, <2>2, <2>3, GetFate DEF Queued
  <2>4. \A i, j \in Nat : i + 1 = j + 1 => i = j
      OBVIOUS
  <2> QED
      BY <2>1, <2>2, <2>3, <2>4 DEF Queued
<1> QED
    BY <1>1, <1>2, <1>4, <1>5, <1>6, QueueSteps

-----------------------------------------------------------------------------
(* The i-th callback of q sends a chunk.                                    *)
Sends(q, i) == q[i].kind \in {"mksend", "send"} /\ q[i].n # 0

(* The worker is left alone; chunks that are past the queue keep their call  *)
(* and can only be sent or lost; no send appears on the loop.               *)
KeepsWorking ==
    /\ UNCHANGED <<wpc, item>>
    /\ \A x \in Chunks : fate[x] \notin {"none", "counted", "queued"} =>
          /\ owner'[x] = owner[x]
          /\ \/ fate'[x] = fate[x]
             \/ fate[x] \notin Unfinished \cup {"none"} /\ fate'[x] \in {"sent", "lost"}
    /\ \A i \in DOMAIN ready' : Sends(ready', i) =>
          \E j \in DOMAIN ready : Sends(ready, j) /\ ready'[i].n = ready[j].n

(* Only the worker moves what the worker holds.                             *)
LEMMA WorkSteps ==
    ASSUME Shape, [Next]_vars
    PROVE  WorkerStep \/ Crash \/ KeepsWorking
<1> USE DEF Shape
<1>1. ASSUME NEW k \in Conns, NEW pc \in {"put", "putlast"}, Cuts(k, pc)
      PROVE  KeepsWorking
  <2>1. made + 1 \in Chunks /\ fate[made + 1] = "none"
    <3>1. made < MaxChunks /\ made \in Nat /\ MaxChunks \in Nat
        BY <1>1, BoundsAssumption DEF Cuts, Count, TypeOK
    <3>2. made + 1 \in Chunks /\ made + 1 > made
        BY <3>1 DEF Chunks
    <3> QED
        BY <3>2 DEF Made
  <2>2. \A x \in Chunks : x # made + 1 => fate'[x] = fate[x] /\ owner'[x] = owner[x]
      BY <1>1 DEF Cuts, Count, TypeOK
  <2> QED
      BY <1>1, <2>1, <2>2 DEF Cuts, KeepsWorking, wvars
<1>2. ASSUME NEW k \in Conns, AudioCloses(k) \/ WatchIdle(k)
      PROVE  KeepsWorking
    BY <1>1, <1>2 DEF AudioCloses, WatchIdle, Cuts, Resumes, TypeOK
<1>3. ASSUME NEW k \in Conns, CallEnd(k) \/ EndOfStream(k)
      PROVE  KeepsWorking
  <2>1. Resumes(k) /\ EndCall(k)
      BY <1>3 DEF CallEnd, EndOfStream
  <2>2. CASE call[k] = NoCall \/ ~open[k]
      BY <2>1, <2>2 DEF EndCall, KeepsWorking, cvars, wvars
  <2>3. CASE call[k] # NoCall /\ open[k]
      BY <1>1, <2>1, <2>3 DEF EndCall, Cuts, Resumes, TypeOK
  <2> QED
      BY <2>2, <2>3
<1>4. ASSUME NEW k \in Conns,
             \/ Accept(k) \/ CallStart(k) \/ AudioAdopted(k) \/ AudioOpens(k) \/ QueueSpeech(k)
             \/ DrainTimeout(k) \/ SocketCloses(k) \/ Check(k) \/ Leave(k) \/ Drop(k)
      PROVE  UNCHANGED <<wpc, item, owner, fate, ready>>
    BY <1>4 DEF Accept, CallStart, AudioAdopted, AudioOpens, QueueSpeech, DrainTimeout,
       SocketCloses, Check, Leave, Drop, cvars, wvars
<1>5. ASSUME NEW k \in Conns, Put(k)
      PROVE  KeepsWorking
  <2>1. fate[made] = "counted"
      BY <1>5 DEF Put, Made
  <2>2. \A x \in Chunks : x # made => fate'[x] = fate[x]
      BY <1>5 DEF Put, TypeOK
  <2>3. UNCHANGED <<wpc, item, owner, ready>>
      BY <1>5 DEF Put, wvars
  <2> QED
      BY <2>1, <2>2, <2>3 DEF KeepsWorking
<1>6. CASE RunCallback
  <2> DEFINE cb == Head(ready)
  <2>1. UNCHANGED <<wpc, item, owner>> /\ ready # <<>>
      BY <1>6 DEF RunCallback, wvars
  <2>2. /\ Tail(ready) \in Seq(Callbacks) /\ cb = ready[1] /\ cb \in Callbacks
        /\ 1 \in DOMAIN ready
        /\ \A i \in DOMAIN Tail(ready) : i + 1 \in DOMAIN ready /\ Tail(ready)[i] = ready[i + 1]
      BY <2>1, TailElements DEF TypeOK
  <2>3. ASSUME ready' = Tail(ready)
        PROVE  \A i \in DOMAIN ready' : Sends(ready', i) =>
                  \E j \in DOMAIN ready : Sends(ready, j) /\ ready'[i].n = ready[j].n
    <3>1. \A i \in DOMAIN ready' : i + 1 \in DOMAIN ready /\ ready'[i] = ready[i + 1]
        BY <2>2, <2>3
    <3> QED
        BY <3>1 DEF Sends
  <2>4. ASSUME NEW e \in Callbacks, ready' = Append(Tail(ready), e),
               \/ e.n = cb.n /\ cb.kind = "mksend"
               \/ e.kind = "wake"
        PROVE  \A i \in DOMAIN ready' : Sends(ready', i) =>
                  \E j \in DOMAIN ready : Sends(ready, j) /\ ready'[i].n = ready[j].n
    <3>1. /\ DOMAIN ready' = DOMAIN Tail(ready) \cup {Len(Tail(ready)) + 1}
          /\ \A i \in DOMAIN Tail(ready) : ready'[i] = Tail(ready)[i]
          /\ ready'[Len(Tail(ready)) + 1] = e
        BY <2>2, <2>4, AppendElements
    <3> QED
        BY <2>2, <2>4, <3>1 DEF Sends
  <2>5. /\ [cb EXCEPT !.kind = "send"] \in Callbacks /\ [cb EXCEPT !.kind = "send"].n = cb.n
        /\ EventOn("wake", cb.call) \in Callbacks /\ EventOn("wake", cb.call).kind = "wake"
      BY <2>2 DEF Callbacks, EventOn
  <2>6. \/ ready' = Tail(ready)
        \/ cb.kind = "mksend" /\ ready' = Append(Tail(ready), [cb EXCEPT !.kind = "send"])
        \/ ready' = Append(Tail(ready), EventOn("wake", cb.call))
      BY <1>6 DEF RunCallback
  <2>7. \A i \in DOMAIN ready' : Sends(ready', i) =>
           \E j \in DOMAIN ready : Sends(ready, j) /\ ready'[i].n = ready[j].n
    <3>1. CASE cb.kind = "mksend" /\ ready' = Append(Tail(ready), [cb EXCEPT !.kind = "send"])
      <4> DEFINE e == [cb EXCEPT !.kind = "send"]
      <4>1. e \in Callbacks /\ e.n = cb.n
          BY <2>5
      <4> QED
          BY <2>4, <3>1, <4>1
    <3>2. CASE ready' = Append(Tail(ready), EventOn("wake", cb.call))
        BY <2>4, <2>5, <3>2
    <3> QED
        BY <2>3, <2>6, <3>1, <3>2
  <2> QED
      BY <1>6, <2>1, <2>7, CallbackFate DEF KeepsWorking
<1>7. CASE BeginStop \/ FinishStop \/ Finished \/ UNCHANGED vars
    BY <1>7 DEF BeginStop, FinishStop, Finished, vars, cvars, wvars, KeepsWorking
<1>8. UNCHANGED <<wpc, item, owner, fate, ready>> => KeepsWorking
    BY DEF KeepsWorking
<1> QED
    BY <1>2, <1>3, <1>4, <1>5, <1>6, <1>7, <1>8 DEF Next, Handler, MidCall

(* Every callback that sends a chunk sends one the worker has finished.      *)
LEMMA PostedSends ==
    ASSUME Shape
    PROVE  \A i \in DOMAIN ready :
             /\ ready[i] \in Callbacks
             /\ Sends(ready, i) => /\ ready[i].n \in Chunks
                                   /\ fate[ready[i].n] \notin Unfinished \cup {"none"}
<1> SUFFICES ASSUME NEW i \in DOMAIN ready
             PROVE  /\ ready[i] \in Callbacks
                    /\ Sends(ready, i) => /\ ready[i].n \in Chunks
                                          /\ fate[ready[i].n] \notin Unfinished \cup {"none"}
    OBVIOUS
<1>1. ready[i] \in Callbacks
    BY DEF Shape, TypeOK
<1>2. ready[i].n \in Chunks \cup {0}
    BY <1>1 DEF Callbacks
<1> QED
    BY <1>1, <1>2 DEF Shape, Working, Sends

(* What the worker holds and has posted stays consistent with the fates.    *)
LEMMA WorkingStep == Shape /\ [Next]_vars => Working'
<1> SUFFICES ASSUME Shape, [Next]_vars PROVE Working'
    OBVIOUS
<1> USE CallsAssumption DEF Shape
<1>1. CASE KeepsWorking
  <2>1. wpc = "work" \/ wpc = "done" =>
          fate[item.n] \notin {"none", "counted", "queued"} /\ item.n \in Chunks
      BY DEF Working, Unfinished
  <2>2. \A i \in DOMAIN ready : Sends(ready, i) =>
          fate[ready[i].n] \notin Unfinished \cup {"none"} /\ ready[i].n \in Chunks
      BY PostedSends
  <2>3. \A i \in DOMAIN ready' : Sends(ready', i) =>
          fate'[ready'[i].n] \notin Unfinished \cup {"none"}
      BY <1>1, <2>2 DEF KeepsWorking, Unfinished
  <2> QED
      BY <1>1, <2>1, <2>3 DEF KeepsWorking, Working, Sends, Unfinished
<1>2. CASE Get
  <2>1. /\ item' = queue[1] /\ queue[1] \in Items
        /\ UNCHANGED <<owner, ready>>
        /\ wpc' = "work" <=> queue[1].kind = "chunk"
        /\ wpc' = "speak" <=> queue[1].kind = "speak"
        /\ wpc' \notin {"done", "notify"}
    <3>1. Head(queue) = queue[1] /\ queue[1] \in Items
        BY <1>2, TailElements DEF Get, TypeOK
    <3>2. queue[1].kind \in {"chunk", "speak", "stop"}
        BY <3>1 DEF Items
    <3> QED
        BY <1>2, <3>1, <3>2 DEF Get
  <2>2. wpc' = "work" => /\ item'.n \in Chunks
                         /\ item'.call = owner'[item'.n]
                         /\ fate'[item'.n] = "work"
      BY <1>2, <2>1, GetFate DEF Queued
  <2>3. wpc' = "speak" => item'.call \in Calls
      BY <1>2, <2>1, GetFate DEF Queued
  <2>4. \A i \in DOMAIN ready : Sends(ready, i) => fate'[ready[i].n] \notin Unfinished \cup {"none"}
    <3>1. \A i \in DOMAIN ready : Sends(ready, i) =>
            fate[ready[i].n] \notin Unfinished \cup {"none"} /\ ready[i].n \in Chunks
        BY PostedSends
    <3> QED
        BY <1>2, <3>1, GetFate DEF Unfinished
  <2> QED
      BY <2>1, <2>2, <2>3, <2>4 DEF Working, Sends
<1>3. CASE Emit
  <2>1. UNCHANGED <<item, owner>> /\ wpc' = "done" /\ item.call = owner[item.n]
      BY <1>3 DEF Emit, Working
  <2>2. \A x \in Chunks : fate[x] \notin Unfinished \cup {"none"} =>
                          fate'[x] \notin Unfinished \cup {"none"}
      BY <1>3, EmitFate DEF Unfinished
  <2>3. \A i \in DOMAIN ready : Sends(ready, i) =>
          fate'[ready[i].n] \notin Unfinished \cup {"none"}
      BY <2>2, PostedSends
  <2>4. fate'[item.n] \notin Unfinished \cup {"none"}
      BY <1>3, EmitFate DEF Unfinished
  <2>5. \A i \in DOMAIN ready' : Sends(ready', i) =>
          fate'[ready'[i].n] \notin Unfinished \cup {"none"}
    <3> DEFINE e == SendOn("mksend", item.call, sockets[item.call], item.n)
    <3>1. CASE ready' = ready
        BY <2>3, <3>1
    <3>2. CASE ready' = Append(ready, e)
      <4>1. e.n = item.n
          BY DEF SendOn
      <4>2. /\ DOMAIN ready' = DOMAIN ready \cup {Len(ready) + 1}
            /\ \A i \in DOMAIN ready : ready'[i] = ready[i]
            /\ ready'[Len(ready) + 1] = e
        <5>1. ready' \in Seq(Callbacks)
            BY TypeStep DEF TypeOK
        <5> QED
            BY <3>2, <5>1 DEF TypeOK
      <4> QED
          BY <2>3, <2>4, <4>1, <4>2 DEF Sends
    <3> QED
        BY <1>3, <3>1, <3>2 DEF Emit
  <2> QED
      BY <1>3, <2>1, <2>4, <2>5, EmitFate DEF Working, Sends
<1>4. CASE ChunkDone \/ Crash
  <2>1. wpc' = "notify" => wpc = "done" /\ item' = item
      BY <1>4 DEF ChunkDone, Crash
  <2>2. wpc' \in {"notify", "get", "crashed"} /\ UNCHANGED <<ready, fate>>
      BY <1>4 DEF ChunkDone, Crash, cvars
  <2>3. wpc = "done" => item.call \in Calls
      BY DEF Working, Made, TypeOK, Chunks, Unfinished
  <2> QED
      BY <2>1, <2>2, <2>3 DEF Working
<1>5. CASE Notify \/ Speak
  <2> DEFINE e == EventOn("set", item.call)
             f == SendOn("mksend", item.call, sockets[item.call], 0)
  <2>1. ready' = ready \/ ready' = Append(ready, e) \/ ready' = Append(ready, f)
      BY <1>5 DEF Notify, Speak
  <2>2. e.kind = "set" /\ f.n = 0
      BY DEF EventOn, SendOn
  <2>3. ready' # ready => \E g \in {e, f} :
          /\ DOMAIN ready' = DOMAIN ready \cup {Len(ready) + 1}
          /\ \A i \in DOMAIN ready : ready'[i] = ready[i]
          /\ ready'[Len(ready) + 1] = g
    <3>1. ready' \in Seq(Callbacks)
        BY TypeStep DEF TypeOK
    <3>2. ASSUME NEW g, ready' = Append(ready, g)
          PROVE  /\ DOMAIN ready' = DOMAIN ready \cup {Len(ready) + 1}
                 /\ \A i \in DOMAIN ready : ready'[i] = ready[i]
                 /\ ready'[Len(ready) + 1] = g
        BY <3>1, <3>2 DEF TypeOK
    <3> QED
        BY <2>1, <3>2
  <2>4. \A i \in DOMAIN ready' : Sends(ready', i) => i \in DOMAIN ready /\ ready'[i] = ready[i]
      BY <2>2, <2>3 DEF Sends
  <2>5. wpc' = "get" /\ fate' = fate
      BY <1>5 DEF Notify, Speak, cvars
  <2> QED
      BY <2>4, <2>5 DEF Working, Sends
<1> QED
    BY <1>1, <1>2, <1>3, <1>4, <1>5, WorkSteps DEF WorkerStep

-----------------------------------------------------------------------------
(* A step that neither assigns chunks nor finishes one leaves what is owed. *)
LEMMA OwedSame ==
    ASSUME UNCHANGED owner, \A x \in Chunks : InHand(x)' <=> InHand(x)
    PROVE  \A c : Owed(c)' = Owed(c)
BY DEF Owed

(* Cutting an utterance adds one chunk to what its call is owed.            *)
LEMMA OwedCut ==
    ASSUME Shape, NEW k \in Conns, NEW pc \in {"put", "putlast"}, Cuts(k, pc)
    PROVE  \A c \in Calls :
             IF c = call[k]
               THEN made + 1 \notin Owed(c) /\ Owed(c)' = Owed(c) \cup {made + 1}
               ELSE Owed(c)' = Owed(c)
<1> USE DEF Shape
<1>1. made + 1 \in Chunks /\ fate[made + 1] = "none" /\ owner[made + 1] = NoCall
  <2>1. made < MaxChunks /\ made \in Nat /\ MaxChunks \in Nat
      BY BoundsAssumption DEF Cuts, Count, TypeOK
  <2>2. made + 1 \in Chunks /\ made + 1 > made
      BY <2>1 DEF Chunks
  <2> QED
      BY <2>2 DEF Made
<1>2. \A x \in Chunks : /\ fate'[x] = IF x = made + 1 THEN "counted" ELSE fate[x]
                        /\ owner'[x] = IF x = made + 1 THEN call[k] ELSE owner[x]
    BY DEF Cuts, Count, TypeOK
<1>3. UNCHANGED <<wpc, item>> /\ call[k] \in Calls
    BY DEF Cuts, wvars
<1>4. wpc = "done" => item.n # made + 1
    BY <1>1 DEF Working
<1> QED
  <2>1. \A x \in Chunks : InHand(x)' <=> InHand(x) \/ x = made + 1
      BY <1>2, <1>3 DEF InHand, Unfinished
  <2>2. ~InHand(made + 1)
      BY <1>1, <1>4 DEF InHand, Unfinished
  <2> QED
    <3>1. \A c : made + 1 \notin Owed(c)
        BY <2>2 DEF Owed
    <3>2. ASSUME NEW c \in Calls, c = call[k]
          PROVE  Owed(c)' = Owed(c) \cup {made + 1}
        BY ONLY <1>1, <1>2, <2>1, <3>2, CallsAssumption DEF Owed
    <3>3. ASSUME NEW c \in Calls, c # call[k]
          PROVE  Owed(c)' = Owed(c)
        BY ONLY <1>1, <1>2, <2>1, <3>3, CallsAssumption DEF Owed
    <3> QED
        BY <3>1, <3>2, <3>3

(* The chunks owed to a call change in two ways only: a handler counts one  *)
(* in, the worker counts one down.                                          *)
LEMMA OwedSteps ==
    ASSUME Shape, [Next]_vars
    PROVE  \/ \E k \in Conns : \E pc \in {"put", "putlast"} :
                /\ Cuts(k, pc)
                /\ \A c \in Calls :
                     IF c = call[k]
                       THEN made + 1 \notin Owed(c) /\ Owed(c)' = Owed(c) \cup {made + 1}
                       ELSE Owed(c)' = Owed(c)
           \/ /\ ChunkDone /\ item.call \in Calls
              /\ \A c \in Calls :
                   IF c = item.call
                     THEN item.n \in Owed(c) /\ Owed(c)' = Owed(c) \ {item.n}
                     ELSE Owed(c)' = Owed(c)
           \/ /\ ~ChunkDone
              /\ \A c \in Calls : Owed(c)' = Owed(c)
<1> USE DEF Shape
<1>1. ASSUME NEW k \in Conns, NEW pc \in {"put", "putlast"}, Cuts(k, pc)
      PROVE  \A c \in Calls :
                 IF c = call[k]
                   THEN made + 1 \notin Owed(c) /\ Owed(c)' = Owed(c) \cup {made + 1}
                   ELSE Owed(c)' = Owed(c)
    BY <1>1, OwedCut
<1>2. ASSUME ChunkDone
      PROVE  /\ item.call \in Calls
             /\ \A c \in Calls :
                  IF c = item.call
                    THEN item.n \in Owed(c) /\ Owed(c)' = Owed(c) \ {item.n}
                    ELSE Owed(c)' = Owed(c)
  <2>1. item.n \in Chunks /\ item.call = owner[item.n] /\ fate[item.n] \notin Unfinished \cup {"none"}
      BY <1>2 DEF ChunkDone, Working
  <2>2. wpc = "done" /\ wpc' # "done" /\ UNCHANGED <<owner, fate>>
      BY <1>2 DEF ChunkDone, cvars
  <2>3. item.call \in Calls
      BY <2>1 DEF Made, TypeOK, Chunks
  <2> QED
    <3>1. InHand(item.n) /\ \A x \in Chunks : InHand(x)' <=> InHand(x) /\ x # item.n
        BY <2>1, <2>2 DEF InHand
    <3> QED
        BY ONLY <2>1, <2>2, <2>3, <3>1 DEF Owed
<1>3. ASSUME NEW k \in Conns, Put(k)
      PROVE  \A c : Owed(c)' = Owed(c)
  <2>1. fate[made] = "counted"
      BY <1>3 DEF Put, Made
  <2>2. \A x \in Chunks : fate'[x] = IF x = made THEN "queued" ELSE fate[x]
      BY <1>3 DEF Put, TypeOK
  <2>3. UNCHANGED <<wpc, item, owner>>
      BY <1>3 DEF Put, wvars
  <2> QED
    <3>1. \A x \in Chunks : InHand(x)' <=> InHand(x)
        BY <2>1, <2>2, <2>3 DEF InHand, Unfinished
    <3> QED
        BY <2>3, <3>1, OwedSame
<1>4. ASSUME KeepsMade, KeepsWorking, KeepsQueued \/ UNCHANGED fate
      PROVE  \A c : Owed(c)' = Owed(c)
  <2>1. ASSUME NEW x \in Chunks
        PROVE  fate[x] \in Unfinished <=> fate'[x] \in Unfinished
      BY <1>4, <2>1 DEF KeepsMade, KeepsWorking, KeepsQueued, Unfinished
  <2>2. UNCHANGED <<wpc, item, owner>>
      BY <1>4 DEF KeepsMade, KeepsWorking
  <2>3. \A x \in Chunks : InHand(x)' <=> InHand(x)
      BY <2>1, <2>2 DEF InHand
  <2> QED
      BY <2>2, <2>3, OwedSame
<1>5. ASSUME Get
      PROVE  \A c : Owed(c)' = Owed(c)
  <2>1. wpc = "get" /\ wpc' # "done" /\ owner' = owner
    <3>1. Head(queue).kind \in {"chunk", "speak", "stop"}
      <4>1. Head(queue) \in Items
          BY <1>5, TailElements DEF Get, TypeOK
      <4> QED
          BY <4>1 DEF Items
    <3> QED
        BY <1>5, <3>1 DEF Get
  <2>2. \A x \in Chunks : fate[x] \in Unfinished <=> fate'[x] \in Unfinished
      BY <1>5, GetFate DEF Unfinished
  <2>3. \A x \in Chunks : InHand(x)' <=> InHand(x)
      BY <2>1, <2>2 DEF InHand, Unfinished
  <2> QED
      BY <2>1, <2>3, OwedSame
<1>6. ASSUME Emit
      PROVE  \A c : Owed(c)' = Owed(c)
  <2>1. wpc = "work" /\ wpc' = "done" /\ UNCHANGED <<item, owner>>
      BY <1>6 DEF Emit
  <2>2. /\ fate[item.n] \in Unfinished
        /\ \A x \in Chunks : x # item.n => fate'[x] = fate[x]
      BY <1>6, EmitFate DEF Unfinished
  <2>3. \A x \in Chunks : InHand(x)' <=> InHand(x)
      BY <2>1, <2>2 DEF InHand, Unfinished
  <2> QED
      BY <2>1, <2>3, OwedSame
<1>7. ASSUME Notify \/ Speak \/ Crash
      PROVE  \A c : Owed(c)' = Owed(c)
  <2>1. wpc # "done" /\ wpc' # "done" /\ UNCHANGED <<owner, fate>>
      BY <1>7 DEF Notify, Speak, Crash, cvars
  <2>2. \A x \in Chunks : InHand(x)' <=> InHand(x)
      BY <2>1 DEF InHand
  <2> QED
      BY <2>1, <2>2, OwedSame
<1>8. ASSUME NEW k \in Conns, QueueSpeech(k) \/ FinishStop
      PROVE  UNCHANGED fate
    BY <1>8 DEF QueueSpeech, FinishStop, cvars
<1>9. FinishStop => UNCHANGED fate
    BY DEF FinishStop, cvars
<1>10. (\E k \in Conns : \E pc \in {"put", "putlast"} : Cuts(k, pc)) => ~ChunkDone
    BY DEF Cuts, ChunkDone, Count, hvars, TypeOK
<1>11. CASE ~ChunkDone
    BY <1>1, <1>3, <1>4, <1>5, <1>6, <1>7, <1>8, <1>9, <1>11, ChunkSteps, QueueSteps, WorkSteps
    DEF WorkerStep
<1>12. CASE ChunkDone
    BY <1>2, <1>12
<1> QED
    BY <1>11, <1>12

-----------------------------------------------------------------------------
(* Events on the loop.                                                      *)
LEMMA AnnouncedAppend ==
    ASSUME NEW q \in Seq(Callbacks), NEW e \in Callbacks, NEW c
    PROVE  Announced(Append(q, e), c) <=> Announced(q, c) \/ IsEvent(e, c)
<1>1. /\ DOMAIN Append(q, e) = DOMAIN q \cup {Len(q) + 1}
      /\ \A i \in DOMAIN q : Append(q, e)[i] = q[i]
      /\ Append(q, e)[Len(q) + 1] = e
    BY AppendElements
<1> QED
    BY <1>1 DEF Announced

(* Running the oldest callback can only withdraw what that one announced.   *)
LEMMA AnnouncedTail ==
    ASSUME NEW q \in Seq(Callbacks), q # <<>>, NEW c
    PROVE  Announced(q, c) <=> Announced(Tail(q), c) \/ IsEvent(Head(q), c)
<1>1. /\ Head(q) = q[1] /\ Len(q) \in Nat \ {0}
      /\ DOMAIN q = 1..Len(q) /\ DOMAIN Tail(q) = 1..(Len(q) - 1)
      /\ \A i \in DOMAIN Tail(q) : Tail(q)[i] = q[i + 1]
    BY TailElements
<1>2. \A i \in DOMAIN q : i = 1 \/ (i - 1 \in DOMAIN Tail(q) /\ Tail(q)[i - 1] = q[i])
    BY <1>1
<1>3. \A i \in DOMAIN Tail(q) : i + 1 \in DOMAIN q /\ Tail(q)[i] = q[i + 1]
    BY <1>1
<1>4. 1 \in DOMAIN q
    BY <1>1
<1> QED
    BY ONLY <1>1, <1>2, <1>3, <1>4 DEF Announced

(* Only ChunkDone, at zero and with a registered event, makes the worker     *)
(* post; and what is posted stays so until the waiter is woken.             *)
Wakes(c) == ChunkDone /\ c = item.call /\ ~(pending[c] > 1) /\ c \in drained

(* An event gets announced only by ChunkDone, and stays announced for as    *)
(* long as the handler waits for it.                                        *)
LEMMA PostedSteps ==
    ASSUME Shape, [Next]_vars, NEW c \in Calls
    PROVE  /\ Posted(c)' => Posted(c) \/ Wakes(c)
           /\ Wakes(c) => Posted(c)'
           /\ \A k \in Conns :
                call[k] = c /\ Posted(c) /\ hpc[k] = "wait" /\ hpc'[k] = "wait" => Posted(c)'
<1> USE DEF Shape
<1>1. Posted(c)' <=> (wpc' = "notify" /\ item'.call = c) \/ Announced(ready', c)
    BY DEF Posted, Announced
<1>2. wpc # "done" \/ wpc' = "done" => ~Wakes(c)
    BY DEF Wakes, ChunkDone
<1>3. CASE UNCHANGED <<wpc, item, ready>>
    BY <1>3, <1>1, <1>2 DEF Posted
<1>4. CASE RunCallback
  <2> DEFINE cb == Head(ready)
  <2>1. /\ UNCHANGED <<wpc, item>> /\ ready # <<>>
        /\ cb \in Callbacks /\ Tail(ready) \in Seq(Callbacks)
      BY <1>4, TailElements DEF RunCallback, wvars, TypeOK
  <2>2. Announced(ready, c) <=> Announced(Tail(ready), c) \/ IsEvent(cb, c)
      BY <2>1, AnnouncedTail DEF TypeOK
  <2>3. ~Wakes(c)
      BY <2>1, <1>2
  <2>4. CASE cb.kind = "mksend"
    <3> DEFINE e == [cb EXCEPT !.kind = "send"]
    <3>1. e \in Callbacks /\ e.kind = "send"
        BY <2>1 DEF Callbacks
    <3>2. ready' = Append(Tail(ready), e)
        BY <1>4, <2>4 DEF RunCallback
    <3>3. Announced(ready', c) <=> Announced(Tail(ready), c) \/ IsEvent(e, c)
        BY <2>1, <3>1, <3>2, AnnouncedAppend
    <3> QED
        BY <2>1, <2>2, <2>4, <3>1, <3>3, <1>1, <2>3 DEF Posted, IsEvent
  <2>5. CASE cb.kind = "send"
    <3>1. ready' = Tail(ready)
        BY <1>4, <2>5 DEF RunCallback
    <3> QED
        BY <2>1, <2>2, <2>5, <3>1, <1>1, <2>3 DEF Posted, IsEvent
  <2>6. CASE cb.kind = "set"
    <3> DEFINE e == EventOn("wake", cb.call)
    <3>1. e \in Callbacks /\ (IsEvent(e, c) <=> c = cb.call) /\ (IsEvent(cb, c) <=> c = cb.call)
        BY <2>1, <2>6 DEF Callbacks, EventOn, IsEvent
    <3>2. Announced(Append(Tail(ready), e), c) <=> Announced(Tail(ready), c) \/ IsEvent(e, c)
        BY <2>1, <3>1, AnnouncedAppend
    <3>3. \/ ready' = Append(Tail(ready), e)
          \/ /\ ready' = Tail(ready)
             /\ \A k \in Conns : ~(hpc[k] = "wait" /\ call[k] = cb.call)
        BY <1>4, <2>6 DEF RunCallback
    <3> QED
        BY <2>1, <2>2, <3>1, <3>2, <3>3, <1>1, <2>3 DEF Posted
  <2>7. CASE cb.kind = "wake"
    <3>1. ready' = Tail(ready)
        BY <1>4, <2>7 DEF RunCallback
    <3>2. \A k \in Conns : hpc[k] = "wait" /\ call[k] = cb.call => hpc'[k] = "leave"
        BY <1>4, <2>7 DEF RunCallback
    <3> QED
        BY <2>1, <2>2, <3>1, <3>2, <1>1, <2>3 DEF Posted, IsEvent
  <2>8. cb.kind \in {"mksend", "send", "set", "wake"}
      BY <2>1 DEF Callbacks
  <2> QED
      BY <2>4, <2>5, <2>6, <2>7, <2>8
<1>5. CASE Get \/ Crash
  <2>1. wpc # "notify" /\ wpc # "done" /\ wpc' # "notify" /\ ready' = ready
    <3>1. CASE Get
      <4>1. Head(queue) \in Items
          BY <3>1, TailElements DEF Get, TypeOK
      <4>2. Head(queue).kind \in {"chunk", "speak", "stop"}
          BY <4>1 DEF Items
      <4> QED
          BY <3>1, <4>2 DEF Get
    <3>2. CASE Crash
        BY <3>2 DEF Crash
    <3> QED
        BY <1>5, <3>1, <3>2
  <2> QED
      BY <2>1, <1>1, <1>2 DEF Posted
<1>6. CASE Emit \/ Speak
  <2>1. wpc # "notify" /\ wpc # "done" /\ wpc' # "notify"
      BY <1>6 DEF Emit, Speak
  <2>2. \/ ready' = ready
        \/ \E n \in {item.n, 0} : ready' = Append(ready, SendOn("mksend", item.call, sockets[item.call], n))
      BY <1>6 DEF Emit, Speak
  <2>3. item.call \in Calls /\ sockets[item.call] \in Conns \cup {NoConn} /\ item.n \in Chunks \cup {0}
    <3>1. item.call \in Calls
        BY <1>6 DEF Emit, Speak, Working, Made, TypeOK, Chunks
    <3> QED
        BY <3>1 DEF TypeOK, Items
  <2>4. ASSUME NEW n \in {item.n, 0}
        PROVE  LET e == SendOn("mksend", item.call, sockets[item.call], n)
               IN  Announced(Append(ready, e), c) <=> Announced(ready, c)
    <3> DEFINE e == SendOn("mksend", item.call, sockets[item.call], n)
    <3>1. e \in Callbacks /\ ~IsEvent(e, c)
        BY <2>3 DEF SendOn, Callbacks, IsEvent
    <3> QED
        BY <3>1, AnnouncedAppend DEF TypeOK
  <2> QED
      BY <2>1, <2>2, <2>4, <1>1, <1>2 DEF Posted
<1>7. CASE ChunkDone
  <2>1. wpc # "notify" /\ ready' = ready
      BY <1>7 DEF ChunkDone
  <2>2. /\ wpc' = "notify" => ~(pending[item.call] > 1) /\ item.call \in drained
        /\ ~(pending[item.call] > 1) /\ item.call \in drained => wpc' = "notify"
        /\ wpc' = "notify" => item' = item
      BY <1>7 DEF ChunkDone
  <2> QED
      BY <1>7, <2>1, <2>2, <1>1 DEF Posted, Wakes
<1>8. CASE Notify
  <2> DEFINE e == EventOn("set", item.call)
  <2>1. e \in Callbacks /\ (IsEvent(e, c) <=> item.call = c)
      BY <1>8 DEF Notify, Working, EventOn, Callbacks, IsEvent
  <2>2. Announced(ready', c) <=> Announced(ready, c) \/ IsEvent(e, c)
      BY <1>8, <2>1, AnnouncedAppend DEF Notify, TypeOK
  <2> QED
      BY <1>8, <2>1, <2>2, <1>1, <1>2 DEF Notify, Posted
<1>9. ASSUME NEW k \in Conns, Handler(k)
      PROVE  UNCHANGED <<wpc, item, ready>>
    BY <1>9 DEF Handler, MidCall, Accept, CallStart, AudioAdopted, AudioOpens, AudioCloses, WatchIdle,
       QueueSpeech, CallEnd, EndOfStream, EndCall, DrainTimeout, SocketCloses, Put, Check, Leave,
       Drop, wvars
<1>10. BeginStop \/ FinishStop \/ Finished \/ UNCHANGED vars => UNCHANGED <<wpc, item, ready>>
    BY DEF BeginStop, FinishStop, Finished, vars, wvars
<1> QED
    BY <1>3, <1>4, <1>5, <1>6, <1>7, <1>8, <1>9, <1>10 DEF Next, WorkerStep

-----------------------------------------------------------------------------
(* A call that has ended stays so, and leaves the wait only through Leave.   *)
LEMMA OwnHandler ==
    ASSUME Shape, NEW c \in Calls, NEW pcs, EndedIn(c, pcs), NEW k \in Conns, call[k] = c
    PROVE  hpc[k] \in pcs
BY CallsAssumption DEF Shape, Handlers, EndedIn

(* A handler past its loop never returns to it; it stops waiting by Leave.  *)
LEMMA EndedSteps ==
    ASSUME Shape, [Next]_vars, NEW c \in Calls
    PROVE  /\ EndedIn(c, {"leave", "drop", "closed"}) => EndedIn(c, {"leave", "drop", "closed"})'
           /\ EndedIn(c, {"wait", "leave", "drop", "closed"}) =>
                EndedIn(c, {"wait", "leave", "drop", "closed"})'
           /\ EndedIn(c, {"wait", "leave"}) =>
                \/ EndedIn(c, {"wait", "leave"})'
                \/ \E k \in Conns : call[k] = c /\ Leave(k)
<1> USE DEF Shape
<1>1. CASE UNCHANGED <<hpc, call>>
    BY <1>1 DEF EndedIn
<1>2. ASSUME NEW j \in Conns, NEW pc \in HandlerPC, Moves(j, pc)
      PROVE  \A k \in Conns : /\ call'[k] = call[k]
                              /\ hpc[k] = "closed" => hpc'[k] = "closed"
                              /\ hpc[k] = "drop" => hpc'[k] \in {"drop", "closed"}
                              /\ hpc[k] = "leave" => hpc'[k] = "leave" \/ (hpc'[k] = "drop" /\ Leave(k))
                              /\ hpc[k] = "wait" => hpc'[k] \in {"wait", "leave"}
  <2>1. \A k \in Conns : hpc'[k] = IF k = j THEN pc ELSE hpc[k]
      BY <1>2 DEF Moves, TypeOK
  <2> QED
      BY <1>2, <2>1 DEF Moves
<1>3. ASSUME NEW j \in Conns, NEW d \in Calls, TakesCall(j, d)
      PROVE  \A k \in Conns : /\ hpc'[k] = hpc[k]
                              /\ hpc[k] # "recv" => call'[k] = call[k]
    BY <1>3 DEF TakesCall, TypeOK
<1>4. CASE Woken
    BY <1>4 DEF Woken, EndedIn
<1>5. CASE \E j \in Conns : \E pc \in HandlerPC : Moves(j, pc)
    BY <1>2, <1>5 DEF EndedIn
<1>6. CASE \E j \in Conns : \E d \in Calls : TakesCall(j, d)
    BY <1>3, <1>6 DEF EndedIn
<1> QED
    BY <1>1, <1>4, <1>5, <1>6, HandlerSteps

(* Who may change the tallies of a call.                                    *)
LEMMA TallySteps ==
    ASSUME Shape, [Next]_vars
    PROVE  /\ gaveUp' = gaveUp \/ \E k \in Conns : DrainTimeout(k)
           /\ drained' = drained \/ \E k \in Conns : Check(k) \/ Leave(k)
           /\ pending' = pending \/ ChunkDone
                \/ \E k \in Conns : Leave(k) \/ \E pc \in {"put", "putlast"} : Cuts(k, pc)
           /\ \A c \in fired' : c \in fired \/ (RunCallback /\ c = Head(ready).call /\ Posted(c))
<1> USE DEF Shape
<1>1. ASSUME NEW k \in Conns, AudioCloses(k) \/ WatchIdle(k)
      PROVE  Cuts(k, "put") /\ UNCHANGED <<gaveUp, drained, fired>>
    BY <1>1 DEF AudioCloses, WatchIdle, Cuts, Resumes, TypeOK
<1>2. ASSUME NEW k \in Conns, CallEnd(k) \/ EndOfStream(k)
      PROVE  /\ UNCHANGED <<gaveUp, drained, fired>>
             /\ Cuts(k, "putlast") \/ UNCHANGED pending
  <2>1. Resumes(k) /\ EndCall(k)
      BY <1>2 DEF CallEnd, EndOfStream
  <2>2. CASE call[k] = NoCall \/ ~open[k]
      BY <2>1, <2>2 DEF EndCall, svars
  <2>3. CASE call[k] # NoCall /\ open[k]
      BY <2>1, <2>3 DEF EndCall, Cuts, Resumes, TypeOK
  <2> QED
      BY <2>2, <2>3
<1>3. ASSUME NEW k \in Conns,
             \/ Accept(k) \/ CallStart(k) \/ AudioAdopted(k) \/ AudioOpens(k)
             \/ QueueSpeech(k) \/ SocketCloses(k) \/ Put(k) \/ Drop(k)
      PROVE  UNCHANGED <<gaveUp, drained, fired, pending>>
    BY <1>3 DEF Accept, CallStart, AudioAdopted, AudioOpens, QueueSpeech, SocketCloses, Put, Drop,
       svars
<1>4. ASSUME NEW k \in Conns, DrainTimeout(k)
      PROVE  UNCHANGED <<drained, fired, pending>>
    BY <1>4 DEF DrainTimeout
<1>5. ASSUME NEW k \in Conns, Check(k)
      PROVE  UNCHANGED <<gaveUp, fired, pending>>
    BY <1>5 DEF Check
<1>6. ASSUME NEW k \in Conns, Leave(k)
      PROVE  UNCHANGED <<gaveUp, fired>>
    BY <1>6 DEF Leave
<1>7. CASE RunCallback
  <2> DEFINE cb == Head(ready)
  <2>1. /\ UNCHANGED <<gaveUp, drained, pending>>
        /\ ready # <<>>
        /\ fired' = fired \/ (cb.kind = "set" /\ fired' = fired \cup {cb.call})
      BY <1>7 DEF RunCallback, svars
  <2>2. cb.kind = "set" => Posted(cb.call)
    <3>1. Announced(ready, cb.call) <=> Announced(Tail(ready), cb.call) \/ IsEvent(cb, cb.call)
        BY <2>1, AnnouncedTail DEF TypeOK
    <3> QED
        BY <3>1 DEF Posted, IsEvent
  <2> QED
      BY <1>7, <2>1, <2>2
<1>8. CASE Get \/ Emit \/ Notify \/ Speak \/ Crash \/ BeginStop \/ FinishStop \/ Finished \/ UNCHANGED vars
  <2>1. UNCHANGED <<gaveUp, drained, fired, pending>>
      BY <1>8 DEF Get, Emit, Notify, Speak, Crash, BeginStop, FinishStop, Finished, vars, svars
  <2> QED
      BY <2>1
<1>9. CASE ChunkDone
  <2>1. UNCHANGED <<gaveUp, drained, fired>>
      BY <1>9 DEF ChunkDone
  <2> QED
      BY <1>9, <2>1
<1>10. CASE \E k \in Conns : Handler(k)
    BY <1>1, <1>2, <1>3, <1>4, <1>5, <1>6, <1>10 DEF Handler, MidCall
<1> QED
    BY <1>7, <1>8, <1>9, <1>10 DEF Next, WorkerStep

-----------------------------------------------------------------------------
(* The tallies of one call across one step.                                 *)
LEMMA OwedFinite == \A c : IsFiniteSet(Owed(c)) /\ Cardinality(Owed(c)) \in Nat
<1>1. IsFiniteSet(Chunks)
    BY FS_Interval, BoundsAssumption DEF Chunks
<1>2. \A c : Owed(c) \subseteq Chunks
    BY DEF Owed
<1> QED
    BY <1>1, <1>2, FS_Subset, FS_CardinalityType

(* Counting, for one call.                                                  *)
Exact(c)  == pending[c] = Cardinality(Owed(c))
Tallied(c) ==
    /\ Exact(c) \/ (pending[c] = 0 /\ c \in gaveUp /\ c \notin drained)
    /\ c \in gaveUp => EndedIn(c, {"leave", "drop", "closed"})
    /\ c \in drained => EndedIn(c, {"wait", "leave"})
    /\ c \in fired \/ Posted(c) =>
          Owed(c) = {} /\ EndedIn(c, {"wait", "leave", "drop", "closed"})

(* Counting is that, for every call.                                        *)
LEMMA CountingTallied == Counting <=> \A c \in Calls : Tallied(c)
BY DEF Counting, Tallied, Exact

(* A handler that still awaits messages has not given up, nor has it an      *)
(* event, so counting a chunk in keeps its count exact.                     *)
LEMMA TalliedCut ==
    ASSUME IInv, [Next]_vars, NEW k \in Conns, NEW pc \in {"put", "putlast"}, Cuts(k, pc),
           NEW c \in Calls, c = call[k], Owed(c)' = Owed(c) \cup {made + 1}, made + 1 \notin Owed(c)
    PROVE  Exact(c)' /\ c \notin gaveUp' /\ c \notin drained' /\ c \notin fired' /\ ~Posted(c)'
<1>1. Shape /\ Tallied(c)
    BY CountingTallied DEF IInv, Shape
<1>2. \A pcs : "recv" \notin pcs => ~EndedIn(c, pcs)
    BY <1>1, OwnHandler DEF Cuts
<1>3. c \notin gaveUp /\ c \notin drained /\ c \notin fired /\ ~Posted(c) /\ Exact(c)
    BY <1>1, <1>2 DEF Tallied
<1>4. pending'[c] = pending[c] + 1
    BY <1>1 DEF Cuts, Count, Shape, TypeOK
<1>5. Cardinality(Owed(c) \cup {made + 1}) = Cardinality(Owed(c)) + 1
    BY OwedFinite, FS_AddElement
<1>6. ~Posted(c)'
  <2>1. ~ChunkDone
      BY <1>1 DEF Cuts, ChunkDone, Count, hvars, Shape, TypeOK
  <2> QED
      BY <1>1, <1>3, <2>1, PostedSteps DEF Wakes
<1> QED
    BY <1>3, <1>4, <1>5, <1>6 DEF Cuts, Exact

(* Counting down: the last chunk of a call whose count is exact leaves       *)
(* nothing owed, so the event the worker is about to set is right.          *)
LEMMA TalliedDone ==
    ASSUME IInv, [Next]_vars, ChunkDone, NEW c \in Calls, c = item.call,
           item.n \in Owed(c), Owed(c)' = Owed(c) \ {item.n}
    PROVE  /\ Exact(c)' \/ (pending'[c] = 0 /\ c \in gaveUp' /\ c \notin drained')
           /\ Wakes(c) => Owed(c)' = {} /\ EndedIn(c, {"wait", "leave"})
           /\ c \notin fired /\ ~Posted(c)
           /\ c \in drained /\ Owed(c)' = {} => Wakes(c)
<1>1. Shape /\ Tallied(c)
    BY CountingTallied DEF IInv, Shape
<1>2. UNCHANGED <<gaveUp, drained, fired>>
    BY DEF ChunkDone
<1>3. pending'[c] = IF pending[c] > 1 THEN pending[c] - 1 ELSE 0
    BY <1>1 DEF ChunkDone, Shape, TypeOK
<1>4. /\ Cardinality(Owed(c) \ {item.n}) = Cardinality(Owed(c)) - 1
      /\ Cardinality(Owed(c)) \in Nat /\ Cardinality(Owed(c) \ {item.n}) \in Nat
      /\ IsFiniteSet(Owed(c) \ {item.n})
    BY OwedFinite, FS_RemoveElement, FS_CardinalityType
<1>5. c \notin fired /\ ~Posted(c)
    BY <1>1 DEF Tallied
<1>6. CASE Exact(c)
  <2>1. pending'[c] = Cardinality(Owed(c)) - 1
      BY <1>3, <1>4, <1>6 DEF Exact
  <2>2. Exact(c)'
      BY <1>4, <2>1 DEF Exact
  <2>3. ~(pending[c] > 1) <=> Cardinality(Owed(c) \ {item.n}) = 0
      BY <1>4, <1>6 DEF Exact
  <2>4. ~(pending[c] > 1) <=> Owed(c) \ {item.n} = {}
      BY <1>4, <2>3, FS_EmptySet
  <2> QED
      BY <1>1, <1>5, <2>2, <2>4 DEF Wakes, Tallied
<1>7. CASE ~Exact(c)
  <2>1. pending[c] = 0 /\ c \in gaveUp /\ c \notin drained
      BY <1>1, <1>7 DEF Tallied
  <2> QED
      BY <1>2, <1>3, <1>5, <2>1 DEF Wakes
<1> QED
    BY <1>6, <1>7

(* A step that touches neither what a call is owed nor its tallies.         *)
LEMMA TalliedSame ==
    ASSUME IInv, [Next]_vars, NEW c \in Calls,
           Owed(c)' = Owed(c), pending'[c] = pending[c],
           c \in gaveUp => c \in gaveUp',
           c \in gaveUp' => c \in gaveUp \/ EndedIn(c, {"leave", "drop", "closed"})',
           c \in drained' => c \in drained,
           ~Wakes(c),
           \A k \in Conns : Leave(k) => call[k] # c
    PROVE  Tallied(c)'
<1>1. Shape /\ Tallied(c)
    BY CountingTallied DEF IInv, Shape
<1>2. c \in fired' => c \in fired \/ Posted(c)
    BY <1>1, TallySteps
<1>3. Posted(c)' => Posted(c)
    BY <1>1, PostedSteps
<1>4. /\ EndedIn(c, {"leave", "drop", "closed"}) => EndedIn(c, {"leave", "drop", "closed"})'
      /\ EndedIn(c, {"wait", "leave", "drop", "closed"}) =>
           EndedIn(c, {"wait", "leave", "drop", "closed"})'
      /\ EndedIn(c, {"wait", "leave"}) => EndedIn(c, {"wait", "leave"})'
    BY <1>1, EndedSteps
<1> QED
    BY <1>1, <1>2, <1>3, <1>4 DEF Tallied, Exact

(* The counters stay exact.                                                 *)
LEMMA CountingStep == IInv /\ [Next]_vars => Counting'
<1> SUFFICES ASSUME IInv, [Next]_vars, NEW c \in Calls PROVE Tallied(c)'
    BY CountingTallied DEF Counting, Tallied, Exact
<1>1. Shape /\ Tallied(c) /\ Waiting
    BY CountingTallied DEF IInv, Shape
<1>2. /\ EndedIn(c, {"leave", "drop", "closed"}) => EndedIn(c, {"leave", "drop", "closed"})'
      /\ EndedIn(c, {"wait", "leave", "drop", "closed"}) =>
           EndedIn(c, {"wait", "leave", "drop", "closed"})'
    BY <1>1, EndedSteps
<1>3. EndedIn(c, {"wait", "leave"}) =>
           \/ EndedIn(c, {"wait", "leave"})'
           \/ \E k \in Conns : call[k] = c /\ Leave(k)
    BY <1>1, EndedSteps
<1>4. ASSUME NEW k \in Conns, NEW pc \in {"put", "putlast"}, Cuts(k, pc),
             IF c = call[k]
               THEN made + 1 \notin Owed(c) /\ Owed(c)' = Owed(c) \cup {made + 1}
               ELSE Owed(c)' = Owed(c)
      PROVE  Tallied(c)'
  <2>1. CASE c = call[k]
      BY <1>4, <2>1, TalliedCut DEF Tallied
  <2>2. CASE c # call[k]
    <3>1. /\ pending'[c] = pending[c]
          /\ UNCHANGED <<gaveUp, drained, wpc>>
          /\ \A j \in Conns : ~Leave(j)
        BY <1>1, <1>4, <2>2 DEF Cuts, Count, wvars, Shape, TypeOK, LoopFree, MidStep, Leave
    <3>2. ~Wakes(c)
        BY <3>1 DEF Wakes, ChunkDone
    <3> QED
        BY <1>4, <2>2, <3>1, <3>2, TalliedSame
  <2> QED
      BY <2>1, <2>2
<1>5. ASSUME ChunkDone, item.call \in Calls,
             IF c = item.call
               THEN item.n \in Owed(c) /\ Owed(c)' = Owed(c) \ {item.n}
               ELSE Owed(c)' = Owed(c)
      PROVE  Tallied(c)'
  <2>1. UNCHANGED <<hpc, gaveUp, drained, fired>>
      BY <1>5 DEF ChunkDone, hvars
  <2>2. \A j \in Conns : ~Leave(j)
      BY <1>1, <2>1 DEF Leave, Shape, TypeOK
  <2>3. CASE c = item.call
    <3>1. /\ Exact(c)' \/ (pending'[c] = 0 /\ c \in gaveUp' /\ c \notin drained')
          /\ Wakes(c) => Owed(c)' = {} /\ EndedIn(c, {"wait", "leave"})
          /\ c \notin fired /\ ~Posted(c)
        BY <1>5, <2>3, TalliedDone
    <3>2. Posted(c)' => Wakes(c)
        BY <1>1, <3>1, PostedSteps
    <3>3. EndedIn(c, {"wait", "leave"}) => EndedIn(c, {"wait", "leave", "drop", "closed"})
        BY DEF EndedIn
    <3> QED
        BY <1>1, <1>2, <1>3, <2>1, <2>2, <3>1, <3>2, <3>3 DEF Tallied
  <2>4. CASE c # item.call
    <3>1. pending'[c] = pending[c]
        BY <1>1, <1>5, <2>4 DEF ChunkDone, Shape, TypeOK
    <3>2. ~Wakes(c)
        BY <2>4 DEF Wakes
    <3> QED
        BY <1>5, <2>1, <2>2, <2>4, <3>1, <3>2, TalliedSame
  <2> QED
      BY <2>3, <2>4
<1>6. ASSUME ~ChunkDone, \A k \in Conns : \A pc \in {"put", "putlast"} : ~Cuts(k, pc),
             Owed(c)' = Owed(c)
      PROVE  Tallied(c)'
  <2>1. ~Wakes(c)
      BY <1>6 DEF Wakes
  <2>2. /\ Posted(c)' => Posted(c)
        /\ c \in fired' => c \in fired \/ Posted(c)
      BY <1>1, <2>1, PostedSteps, TallySteps
  <2>3. ASSUME NEW k \in Conns, Leave(k), c = call[k]
        PROVE  Tallied(c)'
    <3>1. pending'[c] = 0 /\ c \notin drained' /\ gaveUp' = gaveUp
        BY <1>1, <2>3 DEF Leave, Shape, TypeOK
    <3>2. c \in gaveUp \/ c \in fired
        BY <1>1, <2>3 DEF Leave, Waiting
    <3>3. c \in fired => Exact(c)'
        BY <1>1, <1>6, <3>1, FS_EmptySet DEF Tallied, Exact
    <3> QED
        BY <1>1, <1>6, <1>2, <2>2, <3>1, <3>2, <3>3 DEF Tallied
  <2>4. ASSUME NEW k \in Conns, Check(k), c = call[k]
        PROVE  Tallied(c)'
    <3>1. /\ UNCHANGED <<pending, gaveUp, call>> /\ \A j \in Conns : ~Leave(j)
        BY <1>1, <2>4 DEF Check, Shape, Handlers, MidStep, Leave
    <3>2. CASE drained' = drained
        BY <1>6, <2>1, <3>1, <3>2, TalliedSame
    <3>3. CASE drained' # drained
      <4>1. pending[c] # 0 /\ hpc'[k] = "wait" /\ hpc[k] = "check"
          BY <1>1, <2>4, <3>3 DEF Check, Shape, TypeOK
      <4>2. EndedIn(c, {"wait", "leave"})'
          BY <2>4, <3>1, <4>1 DEF EndedIn
      <4>3. /\ ~EndedIn(c, {"leave", "drop", "closed"})
            /\ ~EndedIn(c, {"wait", "leave", "drop", "closed"})
          BY <1>1, <2>4, <4>1, OwnHandler
      <4> QED
          BY <1>1, <1>6, <2>2, <3>1, <4>1, <4>2, <4>3 DEF Tallied, Exact
    <3> QED
        BY <3>2, <3>3
  <2>5. ASSUME \A k \in Conns : Leave(k) \/ Check(k) => call[k] # c
        PROVE  Tallied(c)'
    <3>1. pending'[c] = pending[c]
        BY <1>1, <1>6, <2>5, TallySteps DEF Leave, Shape, TypeOK
    <3>2. c \in drained' => c \in drained
        BY <1>1, <2>5, TallySteps DEF Leave, Check
    <3>3. /\ c \in gaveUp => c \in gaveUp'
          /\ c \in gaveUp' => c \in gaveUp \/ EndedIn(c, {"leave", "drop", "closed"})'
        BY <1>1, TallySteps DEF DrainTimeout, EndedIn, Shape, TypeOK
    <3> QED
        BY <1>6, <2>1, <2>5, <3>1, <3>2, <3>3, TalliedSame
  <2> QED
      BY <2>3, <2>4, <2>5
<1>7. \/ \E k \in Conns : \E pc \in {"put", "putlast"} :
            /\ Cuts(k, pc)
            /\ IF c = call[k]
                 THEN made + 1 \notin Owed(c) /\ Owed(c)' = Owed(c) \cup {made + 1}
                 ELSE Owed(c)' = Owed(c)
      \/ /\ ChunkDone /\ item.call \in Calls
         /\ IF c = item.call
              THEN item.n \in Owed(c) /\ Owed(c)' = Owed(c) \ {item.n}
              ELSE Owed(c)' = Owed(c)
      \/ ~ChunkDone /\ Owed(c)' = Owed(c)
    BY <1>1, OwedSteps
<1>8. ASSUME NEW k \in Conns, NEW pc \in {"put", "putlast"}, Cuts(k, pc)
      PROVE  IF c = call[k]
               THEN made + 1 \notin Owed(c) /\ Owed(c)' = Owed(c) \cup {made + 1}
               ELSE Owed(c)' = Owed(c)
    BY <1>1, <1>8, OwedCut
<1> QED
    BY <1>4, <1>5, <1>6, <1>7, <1>8

-----------------------------------------------------------------------------
(* A wake-up is on the loop only for an event that has been set.            *)
WakeFired(q, f) == \A i \in DOMAIN q : q[i].kind = "wake" => q[i].call \in f

(* Appending a callback that is no wake-up, or one whose event is set.      *)
LEMMA WakeFiredAppend ==
    ASSUME NEW q \in Seq(Callbacks), NEW f, WakeFired(q, f), NEW e \in Callbacks,
           e.kind = "wake" => e.call \in f
    PROVE  WakeFired(Append(q, e), f)
<1>1. /\ DOMAIN Append(q, e) = DOMAIN q \cup {Len(q) + 1}
      /\ \A i \in DOMAIN q : Append(q, e)[i] = q[i]
      /\ Append(q, e)[Len(q) + 1] = e
    BY AppendElements
<1> QED
    BY <1>1 DEF WakeFired

(* Running a callback, while more events may get set.                       *)
LEMMA WakeFiredTail ==
    ASSUME NEW q \in Seq(Callbacks), q # <<>>, NEW f, NEW g, WakeFired(q, f), f \subseteq g
    PROVE  WakeFired(Tail(q), g)
<1>1. \A i \in DOMAIN Tail(q) : i + 1 \in DOMAIN q /\ Tail(q)[i] = q[i + 1]
    BY TailElements
<1> QED
    BY ONLY <1>1, WakeFired(q, f), f \subseteq g DEF WakeFired

(* No handler posts a callback or sets an event itself.                     *)
LEMMA HandlerQuiet ==
    ASSUME NEW k \in Conns, Handler(k)
    PROVE  UNCHANGED <<ready, fired>>
<1>1. CASE Accept(k) \/ CallStart(k) \/ AudioAdopted(k) \/ AudioOpens(k) \/ AudioCloses(k)
              \/ WatchIdle(k) \/ QueueSpeech(k)
    BY <1>1 DEF Accept, CallStart, AudioAdopted, AudioOpens, AudioCloses, WatchIdle, QueueSpeech
<1>2. CASE CallEnd(k) \/ EndOfStream(k)
    BY <1>2 DEF CallEnd, EndOfStream, EndCall
<1>3. CASE DrainTimeout(k) \/ SocketCloses(k) \/ MidCall(k)
    BY <1>3 DEF DrainTimeout, SocketCloses, MidCall, Put, Check, Leave, Drop
<1> QED
    BY <1>1, <1>2, <1>3 DEF Handler

(* A wake-up is appended only by event.set, which sets the event first.     *)
LEMMA WakeFiredStep ==
    ASSUME Shape, [Next]_vars, WakeFired(ready, fired)
    PROVE  WakeFired(ready', fired')
<1> USE DEF Shape
<1>1. CASE UNCHANGED <<ready, fired>>
    BY <1>1
<1>2. CASE RunCallback
  <2> DEFINE cb == Head(ready)
  <2>1. /\ ready # <<>> /\ fired \subseteq fired'
        /\ cb \in Callbacks /\ Tail(ready) \in Seq(Callbacks)
      BY <1>2, TailElements DEF RunCallback, TypeOK
  <2>2. WakeFired(Tail(ready), fired')
      BY <2>1, WakeFiredTail DEF TypeOK
  <2>3. \/ ready' = Tail(ready)
        \/ ready' = Append(Tail(ready), [cb EXCEPT !.kind = "send"])
        \/ /\ ready' = Append(Tail(ready), EventOn("wake", cb.call))
           /\ cb.call \in fired'
      BY <1>2 DEF RunCallback
  <2>4. /\ [cb EXCEPT !.kind = "send"] \in Callbacks
        /\ [cb EXCEPT !.kind = "send"].kind = "send"
        /\ EventOn("wake", cb.call) \in Callbacks
        /\ EventOn("wake", cb.call).call = cb.call
      BY <2>1 DEF Callbacks, EventOn
  <2>5. CASE ready' = Tail(ready)
      BY <2>2, <2>5
  <2>6. CASE ready' = Append(Tail(ready), [cb EXCEPT !.kind = "send"])
      BY <2>1, <2>2, <2>4, <2>6, WakeFiredAppend
  <2>7. CASE /\ ready' = Append(Tail(ready), EventOn("wake", cb.call))
             /\ cb.call \in fired'
      BY <2>1, <2>2, <2>4, <2>7, WakeFiredAppend
  <2> QED
      BY <2>3, <2>5, <2>6, <2>7
<1>3. CASE Emit \/ Notify \/ Speak
  <2>1. /\ item.call \in Calls /\ sockets[item.call] \in Conns \cup {NoConn}
        /\ wpc = "work" => item.n \in Chunks
      BY <1>3 DEF Emit, Notify, Speak, Working, Made, Unfinished, TypeOK, Items, Chunks
  <2> DEFINE k == sockets[item.call]
  <2>2. /\ fired' = fired
        /\ \/ ready' = ready
           \/ /\ wpc = "work" /\ k # NoConn
              /\ ready' = Append(ready, SendOn("mksend", item.call, k, item.n))
           \/ /\ k # NoConn
              /\ ready' = Append(ready, SendOn("mksend", item.call, k, 0))
           \/ ready' = Append(ready, EventOn("set", item.call))
      BY <1>3 DEF Emit, Notify, Speak
  <2>3. ASSUME NEW e \in Callbacks, e.kind # "wake", ready' = Append(ready, e)
        PROVE  WakeFired(ready', fired')
      BY <2>2, <2>3, WakeFiredAppend DEF TypeOK
  <2>4. /\ wpc = "work" /\ k # NoConn => SendOn("mksend", item.call, k, item.n) \in Callbacks
        /\ k # NoConn => SendOn("mksend", item.call, k, 0) \in Callbacks
        /\ EventOn("set", item.call) \in Callbacks
        /\ \A n : SendOn("mksend", item.call, k, n).kind # "wake"
        /\ EventOn("set", item.call).kind # "wake"
      BY <2>1 DEF SendOn, EventOn, Callbacks
  <2>5. CASE ready' = ready
      BY <2>2, <2>5
  <2> QED
      BY <2>2, <2>3, <2>4, <2>5
<1>4. CASE Get \/ ChunkDone \/ Crash \/ BeginStop \/ FinishStop \/ Finished \/ UNCHANGED vars
  <2>1. UNCHANGED <<ready, fired>>
      BY <1>4 DEF Get, ChunkDone, Crash, BeginStop, FinishStop, Finished, vars
  <2> QED
      BY <1>1, <2>1
<1> QED
    BY <1>1, <1>2, <1>3, <1>4, HandlerQuiet DEF Next, WorkerStep

(* A waiting handler keeps a reason to be woken.                            *)
LEMMA StillWaiting ==
    ASSUME IInv, [Next]_vars, NEW k \in Conns, hpc[k] = "wait", hpc'[k] = "wait",
           NEW c \in Calls, c = call[k]
    PROVE  c \in drained' /\ (Owed(c)' # {} \/ Posted(c)')
<1>1. /\ Shape /\ Tallied(c)
      /\ c \in drained /\ (Owed(c) # {} \/ Posted(c))
    BY CountingTallied DEF IInv, Shape, Waiting
<1>2. \A j \in Conns : Leave(j) => call[j] # c
    BY <1>1, CallsAssumption DEF Leave, Shape, Handlers
<1>3. c \in drained'
    BY <1>1, <1>2, TallySteps DEF Check, Leave
<1>4. Posted(c) => Posted(c)'
    BY <1>1, PostedSteps
<1>5. ASSUME Owed(c) # {}, Owed(c)' = {}
      PROVE  Posted(c)'
  <2>1. /\ ChunkDone /\ item.call = c
        /\ item.n \in Owed(c) /\ Owed(c)' = Owed(c) \ {item.n}
    <3>1. CASE \E j \in Conns : \E pc \in {"put", "putlast"} :
                 IF c = call[j] THEN Owed(c)' = Owed(c) \cup {made + 1} ELSE Owed(c)' = Owed(c)
        BY <1>5, <3>1
    <3> QED
        BY <1>1, <1>5, <3>1, OwedSteps
  <2> QED
      BY <1>1, <1>5, <2>1, TalliedDone, PostedSteps
<1> QED
    BY <1>1, <1>3, <1>4, <1>5

(* A handler starts to wait only with a chunk of its call outstanding.       *)
LEMMA StartsWaiting ==
    ASSUME IInv, [Next]_vars, NEW k \in Conns, Check(k), hpc'[k] = "wait",
           NEW c \in Calls, c = call[k]
    PROVE  c \in drained' /\ Owed(c)' # {}
<1>1. Shape /\ Tallied(c)
    BY CountingTallied DEF IInv, Shape
<1>2. pending[c] # 0 /\ c \in drained'
    BY <1>1 DEF Check, Shape, TypeOK
<1>3. Owed(c) # {}
    BY <1>1, <1>2, FS_EmptySet DEF Tallied, Exact
<1>4. UNCHANGED <<owner, fate, wpc, item>>
    BY DEF Check, cvars, wvars
<1> QED
    BY <1>2, <1>3, <1>4 DEF Owed, InHand

(* An event that has been set stays set.                                    *)
LEMMA FiredGrows == Shape /\ [Next]_vars => fired \subseteq fired'
<1> SUFFICES ASSUME Shape, [Next]_vars PROVE fired \subseteq fired'
    OBVIOUS
<1>1. CASE \E k \in Conns : Handler(k)
    BY <1>1, HandlerQuiet
<1>2. CASE RunCallback
    BY <1>2 DEF RunCallback
<1>3. CASE Get \/ Emit \/ ChunkDone \/ Notify \/ Speak
    BY <1>3 DEF Get, Emit, ChunkDone, Notify, Speak
<1>4. CASE Crash \/ BeginStop \/ FinishStop \/ Finished \/ UNCHANGED vars
    BY <1>4 DEF Crash, BeginStop, FinishStop, Finished, vars
<1> QED
    BY <1>1, <1>2, <1>3, <1>4 DEF Next, WorkerStep

(* A handler stops waiting because its timer fired or because it was woken.  *)
LEMMA LeavesWoken ==
    ASSUME Shape, [Next]_vars, NEW k \in Conns, hpc[k] # "leave", hpc'[k] = "leave",
           ~DrainTimeout(k)
    PROVE  RunCallback /\ Head(ready).kind = "wake" /\ hpc[k] = "wait" /\ call[k] = Head(ready).call
<1>1. ~\E j \in Conns : \E pc \in HandlerPC : Moves(j, pc)
    BY DEF Moves, Shape, TypeOK
<1>2. ~\E j \in Conns : \E c \in Calls : TakesCall(j, c)
    BY DEF TakesCall
<1>3. ~UNCHANGED <<hpc, call>>
    OBVIOUS
<1>4. Woken
    BY <1>1, <1>2, <1>3, HandlerSteps
<1>5. hpc[k] = "wait" /\ RunCallback
    BY <1>4 DEF Woken
<1> QED
    BY <1>5 DEF RunCallback, Shape, TypeOK

(* Who waits keeps waiting for something; who left had a reason.            *)
LEMMA WaitingStep == IInv /\ [Next]_vars => Waiting'
<1> SUFFICES ASSUME IInv, [Next]_vars PROVE Waiting'
    OBVIOUS
<1>1. Shape /\ Waiting /\ Handlers' /\ TypeOK'
    BY TypeStep, HandlersStep DEF IInv, Shape
<1>2. WakeFired(ready', fired')
    BY <1>1, WakeFiredStep DEF WakeFired, Waiting
<1>3. ASSUME NEW k \in Conns, hpc'[k] = "wait"
      PROVE  call'[k] \in drained' /\ (Owed(call[k])' # {} \/ Posted(call[k])')
  <2>1. call'[k] = call[k] /\ (hpc[k] = "wait" \/ Check(k))
    <3>1. ASSUME NEW j \in Conns, NEW pc \in HandlerPC, Moves(j, pc)
          PROVE  call'[k] = call[k] /\ (hpc[k] = "wait" \/ Check(k))
        BY <1>1, <1>3, <3>1 DEF Moves, Shape, TypeOK
    <3>2. ASSUME NEW j \in Conns, NEW c \in Calls, TakesCall(j, c)
          PROVE  call'[k] = call[k] /\ hpc[k] = "wait"
        BY <1>1, <1>3, <3>2 DEF TakesCall, Shape, TypeOK
    <3>3. CASE Woken
        BY <1>3, <3>3 DEF Woken
    <3> QED
        BY <1>1, <1>3, <3>1, <3>2, <3>3, HandlerSteps
  <2>2. call[k] \in Calls
      BY <1>1, <1>3, <2>1 DEF Handlers, Ending, TypeOK
  <2>3. CASE hpc[k] = "wait"
      BY <1>3, <2>1, <2>2, <2>3, StillWaiting
  <2>4. CASE Check(k)
      BY <1>3, <2>1, <2>2, <2>4, StartsWaiting
  <2> QED
      BY <2>1, <2>3, <2>4
<1>4. ASSUME NEW k \in Conns, hpc'[k] = "leave"
      PROVE  call'[k] \in gaveUp' \cup fired'
  <2>1. /\ gaveUp \subseteq gaveUp' /\ fired \subseteq fired'
        /\ hpc[k] \in {"wait", "leave"} => call'[k] = call[k]
    <3>1. gaveUp \subseteq gaveUp'
        BY <1>1, TallySteps DEF DrainTimeout
    <3>2. fired \subseteq fired'
        BY <1>1, FiredGrows
    <3>3. hpc[k] \in {"wait", "leave"} => call'[k] = call[k]
        BY <1>1, HandlerSteps DEF Moves, TakesCall, Woken, Shape, TypeOK
    <3> QED
        BY <3>1, <3>2, <3>3
  <2>2. CASE hpc[k] = "leave"
      BY <1>1, <2>1, <2>2 DEF Waiting
  <2>3. CASE hpc[k] # "leave" /\ DrainTimeout(k)
      BY <1>1, <2>1, <2>3 DEF DrainTimeout
  <2>4. CASE hpc[k] # "leave" /\ ~DrainTimeout(k)
    <3>1. RunCallback /\ Head(ready).kind = "wake" /\ hpc[k] = "wait" /\ call[k] = Head(ready).call
        BY <1>1, <1>4, <2>4, LeavesWoken
    <3>2. Head(ready) = ready[1] /\ 1 \in DOMAIN ready
        BY <1>1, <3>1 DEF RunCallback, Shape, TypeOK
    <3> QED
        BY <1>1, <2>1, <3>1, <3>2 DEF Waiting
  <2> QED
      BY <2>2, <2>3, <2>4
<1> QED
    BY <1>1, <1>2, <1>3, <1>4 DEF Waiting, WakeFired

-----------------------------------------------------------------------------
(* Nothing has been made, queued or promised at the start.                  *)
LEMMA Initially == Init => IInv
<1> SUFFICES ASSUME Init PROVE IInv
    OBVIOUS
<1> USE CallsAssumption, ConnsAssumption, BoundsAssumption
<1>1. TypeOK
  <2>1. queue \in Seq(Items) /\ ready \in Seq(Callbacks) /\ item \in Items
      BY DEF Init, NoItem, Items
  <2>2. /\ hpc \in [Conns -> HandlerPC] /\ fate \in [Chunks -> Fates] /\ wpc \in WorkerPC
        /\ made \in 0..MaxChunks /\ speaks \in 0..MaxSpeaks
      BY DEF Init, HandlerPC, Fates, WorkerPC
  <2> QED
      BY <2>1, <2>2 DEF Init, TypeOK
<1>2. /\ \A k \in Conns : hpc[k] = "new" /\ call[k] = NoCall
      /\ DOMAIN queue = {} /\ DOMAIN ready = {}
      /\ \A x \in Chunks : fate[x] = "none" /\ owner[x] = NoCall /\ x > made
      /\ wpc = "get"
    BY DEF Init, Chunks
<1>3. Handlers
    BY <1>2 DEF Handlers, MidStep, Ending
<1>4. Made /\ Queued /\ Working
    BY <1>2 DEF Made, Queued, Working
<1>5. Counting
  <2> SUFFICES ASSUME NEW c \in Calls PROVE Tallied(c)
      BY CountingTallied
  <2>1. Owed(c) = {}
      BY <1>2 DEF Owed
  <2>2. pending[c] = 0 /\ c \notin gaveUp /\ c \notin drained /\ c \notin fired
      BY DEF Init
  <2>3. ~Posted(c)
      BY <1>2 DEF Posted, Announced
  <2> QED
      BY <2>1, <2>2, <2>3, FS_EmptySet DEF Tallied, Exact
<1>6. Waiting
    BY <1>2 DEF Waiting
<1> QED
    BY <1>1, <1>3, <1>4, <1>5, <1>6 DEF IInv

(* Every step keeps the invariant.                                          *)
LEMMA Inductive == IInv /\ [Next]_vars => IInv'
BY TypeStep, HandlersStep, MadeStep, QueuedStep, WorkingStep, CountingStep, WaitingStep
   DEF IInv, Shape

(* The inductive invariant holds in every reachable state.                  *)
THEOREM Invariance == Spec => []IInv
BY Initially, Inductive, PTL DEF Spec

(* Every variable keeps to its range, under any interleaving of handlers,    *)
(* loop callbacks and the worker: _pending never goes negative, and what the *)
(* worker dequeues or the loop runs is well formed.                         *)
THEOREM TypeCorrect == Spec => []TypeOK
<1>1. IInv => TypeOK
    BY DEF IInv
<1> QED
    BY <1>1, Invariance, PTL

(* server.py:186-189: the counter that handlers raise and the worker lowers,  *)
(* each under the lock, equals the number of the call's chunks not finished  *)
(* with, unless the call's handler ran into the drain timeout.              *)
THEOREM PendingExactHolds == Spec => []PendingExact
<1>1. IInv => PendingExact
    BY DEF IInv, Counting, PendingExact
<1> QED
    BY <1>1, Invariance, PTL

(* server.py:301-324: a handler waiting for its drained event still has a    *)
(* chunk outstanding, or event.set or the wake-up is on its way.            *)
THEOREM NoLostWakeupHolds == Spec => []NoLostWakeup
<1>1. IInv => NoLostWakeup
    BY DEF IInv, Waiting, Posted, Announced, IsEvent, NoLostWakeup
<1> QED
    BY <1>1, Invariance, PTL

(* server.py:301-316: once a call's event is set, none of its chunks is      *)
(* unfinished, and none becomes so later.                                   *)
THEOREM FiredMeansDrainedHolds == Spec => []FiredMeansDrained
<1>1. IInv => FiredMeansDrained
    BY DEF IInv, TypeOK, Counting, FiredMeansDrained
<1> QED
    BY <1>1, Invariance, PTL

-----------------------------------------------------------------------------
(* server.py:361,380,392: while a handler has a call, the call's id leads to *)
(* that handler's connection, and once the handler has returned to none; a   *)
(* transcript is never sent to another caller.                              *)
THEOREM RoutedHolds == Spec => []Routed
<1> USE CallsAssumption, ConnsAssumption
<1>1. Init => Routed
    BY DEF Init, Routed
<1>2. ASSUME IInv, Routed, [Next]_vars
      PROVE  Routed'
  <2>1. Shape
      BY <1>2 DEF IInv, Shape
  <2>2. ASSUME NEW k \in Conns, CallStart(k) \/ AudioAdopted(k)
        PROVE  Routed'
    <3>1. PICK c \in Calls : /\ Fresh(c) \/ c = call[k]
                             /\ call' = [call EXCEPT ![k] = c]
                             /\ sockets' = [sockets EXCEPT ![c] = k]
        BY <2>2 DEF CallStart, AudioAdopted
    <3>2. hpc' = hpc /\ hpc[k] = "recv"
        BY <2>2 DEF CallStart, AudioAdopted, Resumes
    <3> QED
        BY <1>2, <2>1, <3>1, <3>2 DEF Routed, Fresh, Shape, TypeOK, Handlers
  <2>3. ASSUME NEW k \in Conns, Drop(k)
        PROVE  Routed'
    <3>1. call[k] # NoCall
        BY <2>1, <2>3 DEF Drop, Shape, Handlers, Ending
    <3> QED
        BY <1>2, <2>1, <2>3, <3>1 DEF Drop, Routed, Shape, TypeOK, Handlers
  <2>4. ASSUME NEW k \in Conns, CallEnd(k) \/ EndOfStream(k)
        PROVE  Routed'
    <3>1. /\ UNCHANGED <<call, sockets>>
          /\ hpc[k] = "recv"
          /\ \E pc \in {"closed", "check", "putlast"} :
               /\ hpc' = [hpc EXCEPT ![k] = pc]
               /\ pc = "closed" => call[k] = NoCall
        BY <2>4 DEF CallEnd, EndOfStream, Resumes, EndCall, Count
    <3> QED
        BY <1>2, <2>1, <3>1 DEF Routed, Shape, TypeOK
  <2>5. ASSUME UNCHANGED <<call, sockets>>,
               \A k \in Conns : call[k] # NoCall => (hpc'[k] = "closed" <=> hpc[k] = "closed")
        PROVE  Routed'
      BY <1>2, <2>5 DEF Routed
  <2>6. ASSUME NEW k \in Conns,
               \/ Accept(k) \/ AudioOpens(k) \/ AudioCloses(k) \/ WatchIdle(k) \/ QueueSpeech(k)
               \/ DrainTimeout(k) \/ SocketCloses(k) \/ Put(k) \/ Check(k) \/ Leave(k)
        PROVE  Routed'
    <3>1. UNCHANGED <<call, sockets>>
        BY <2>6 DEF Accept, AudioOpens, AudioCloses, WatchIdle, QueueSpeech, DrainTimeout,
           SocketCloses, Put, Check, Leave
    <3>2. \A j \in Conns : hpc'[j] = "closed" <=> hpc[j] = "closed"
      <4>1. CASE Accept(k) \/ AudioOpens(k) \/ QueueSpeech(k) \/ DrainTimeout(k) \/ SocketCloses(k)
          BY <2>1, <4>1 DEF Accept, AudioOpens, QueueSpeech, DrainTimeout, SocketCloses, Shape, TypeOK
      <4>2. CASE AudioCloses(k) \/ WatchIdle(k)
          BY <2>1, <4>2 DEF AudioCloses, WatchIdle, Resumes, Count, Shape, TypeOK
      <4>3. CASE Put(k) \/ Check(k) \/ Leave(k)
          BY <2>1, <4>3 DEF Put, Check, Leave, Shape, TypeOK
      <4> QED
          BY <2>6, <4>1, <4>2, <4>3
    <3> QED
        BY <2>5, <3>1, <3>2
  <2>7. CASE RunCallback
    <3>1. UNCHANGED <<call, sockets>> /\ \A k \in Conns : hpc'[k] = "closed" <=> hpc[k] = "closed"
        BY <2>7 DEF RunCallback
    <3> QED
        BY <2>5, <3>1
  <2>8. CASE WorkerStep \/ Crash \/ BeginStop \/ FinishStop \/ Finished \/ UNCHANGED vars
    <3>1. UNCHANGED <<hpc, call, sockets>>
        BY <2>8 DEF WorkerStep, Get, Emit, ChunkDone, Notify, Speak, Crash, BeginStop, FinishStop,
           Finished, vars, hvars
    <3> QED
        BY <2>5, <3>1
  <2> QED
      BY <1>2, <2>2, <2>3, <2>4, <2>6, <2>7, <2>8 DEF Next, Handler, MidCall
<1> QED
    BY <1>1, <1>2, Invariance, PTL DEF Spec
=============================================================================
