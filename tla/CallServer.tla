----------------------------- MODULE CallServer -----------------------------
(***************************************************************************)
(* The STT server process (stt_port): the asyncio handlers of              *)
(* server.WebSocketSource, one per WebSocket connection, the event loop     *)
(* they share, and the one worker thread running main.consume_chunks.       *)
(*                                                                         *)
(* What is kept: every access to state that both threads touch (_pending,   *)
(* _drained, _sockets, the queue, the loop's ready callbacks), in the order *)
(* of the code, and every point where a handler awaits.  A handler that is  *)
(* between two awaits holds the loop: no other callback runs, while the     *)
(* worker thread may run between any two of its steps.                      *)
(*                                                                         *)
(* What is abstracted: audio is "an utterance is open / a block closed it"  *)
(* (the segmenter has a module of its own), a transcript is "text" or       *)
(* "nothing", a timer may fire at any moment while it is armed, and a call  *)
(* id is fresh, as server.py:404-407 wants it, unless the same connection   *)
(* announces its own call again.                                            *)
(***************************************************************************)
EXTENDS Integers, Sequences, FiniteSets

CONSTANTS
    Conns,      \* WebSocket connections; each one is accepted at most once
    Calls,      \* call ids
    NoCall,     \* a handler's `call is None`
    NoConn,     \* a call id with no entry in _sockets
    MaxChunks,  \* bound: utterances the segmenters close in one behaviour
    MaxSpeaks,  \* bound: speak requests accepted in one behaviour
    Meter       \* --meter: nothing is segmented and final_drain_timeout is 0

ASSUME CallsAssumption  == NoCall \notin Calls
ASSUME ConnsAssumption  == NoConn \notin Conns
ASSUME BoundsAssumption == MaxChunks \in Nat /\ MaxSpeaks \in Nat
ASSUME MeterAssumption  == Meter \in BOOLEAN

Chunks == 1..MaxChunks

VARIABLES
    hpc,      \* where the handler of each connection is (HandlerPC)
    sock,     \* the WebSocket of each connection: "new", "open", "closed"
    call,     \* the handler's local `call` (its call_id, or NoCall)
    open,     \* does that call's segmenter hold an unfinished utterance?
    sockets,  \* _sockets: call id -> connection
    pending,  \* _pending: call id -> chunks not yet finished with; 0 = absent
    drained,  \* the keys of _drained
    fired,    \* call ids whose drained event has been set
    gaveUp,   \* call ids whose handler ran into the drain timeout
    queue,    \* out_queue, shared with the worker
    ready,    \* the event loop's ready callbacks that the worker posted
    wpc,      \* where the worker is (WorkerPC)
    item,     \* the queue item the worker holds
    owner,    \* history: the call each chunk belongs to
    final,    \* history: the chunks queued with final=True
    fate,     \* history: how far each chunk has come (Fates)
    made,     \* number of chunks cut so far
    speaks,   \* number of speak requests queued so far
    stopping  \* WebSocketSource.stop(): "no", "closing", "done"

hvars == <<hpc, sock, call, open>>
svars == <<pending, drained, gaveUp>>
cvars == <<owner, final, fate, made>>
wvars == <<wpc, item>>
vars  == <<hpc, sock, call, open, sockets, pending, drained, fired, gaveUp,
           queue, ready, wpc, item, owner, final, fate, made, speaks, stopping>>

-----------------------------------------------------------------------------
(* The states of a handler.  In MidStep it is between two awaits.           *)
(*   new      not accepted yet          recv   awaiting the next message     *)
(*   put      utterance counted, about to be queued (then back to recv)      *)
(*   putlast  the same for the utterance hangup flushed (then to check)      *)
(*   check    about to test _pending    wait   awaiting the drained event    *)
(*   leave    the wait is over          drop   about to unregister and return*)
MidStep   == {"put", "putlast", "check", "leave", "drop"}
HandlerPC == {"new", "recv", "wait", "closed"} \cup MidStep
Ending    == {"putlast", "check", "wait", "leave", "drop"}

(*   get      in q.get()                work   decoding a chunk              *)
(*   speak    synthesizing a reply      done   emitted, about to count down  *)
(*   notify   counted down to zero, about to post event.set                  *)
WorkerPC == {"get", "work", "speak", "done", "notify", "stopped", "crashed"}

Unfinished == {"counted", "queued", "work"}     \* the sink has not seen it
Fates == {"none", "scheduled", "sent", "nothing", "lost"} \cup Unfinished

Items     == [kind : {"chunk", "speak", "stop"},
              call : Calls \cup {NoCall}, n : Chunks \cup {0}]
Callbacks == [kind : {"mksend", "send", "set", "wake"}, call : Calls,
              conn : Conns \cup {NoConn}, n : Chunks \cup {0}]

NoItem      == [kind |-> "stop", call |-> NoCall, n |-> 0]
ChunkItem(x, c) == [kind |-> "chunk", call |-> c, n |-> x]
SpeakItem(c)    == [kind |-> "speak", call |-> c, n |-> 0]
SendOn(kind, c, k, x) == [kind |-> kind, call |-> c, conn |-> k, n |-> x]
EventOn(kind, c)      == [kind |-> kind, call |-> c, conn |-> NoConn, n |-> 0]

LoopFree == \A k \in Conns : hpc[k] \notin MidStep

(* No live handler uses the id, and no entry is left under it.              *)
Fresh(c) == sockets[c] = NoConn /\ \A k \in Conns : call[k] # c

Init == /\ hpc      = [k \in Conns |-> "new"]
        /\ sock     = [k \in Conns |-> "new"]
        /\ call     = [k \in Conns |-> NoCall]
        /\ open     = [k \in Conns |-> FALSE]
        /\ sockets  = [c \in Calls |-> NoConn]
        /\ pending  = [c \in Calls |-> 0]
        /\ drained  = {}
        /\ fired    = {}
        /\ gaveUp   = {}
        /\ queue    = <<>>
        /\ ready    = <<>>
        /\ wpc      = "get"
        /\ item     = NoItem
        /\ owner    = [x \in Chunks |-> NoCall]
        /\ final    = {}
        /\ fate     = [x \in Chunks |-> "none"]
        /\ made     = 0
        /\ speaks   = 0
        /\ stopping = "no"

-----------------------------------------------------------------------------
(* The handler of connection k is resumed at its `async for`.               *)
Resumes(k) == LoopFree /\ hpc[k] = "recv"

(* An utterance may open only if a chunk is left for closing it.            *)
MayOpen == ~Meter /\ made + Cardinality({k \in Conns : open[k]}) < MaxChunks

Accept(k) ==
    /\ LoopFree /\ hpc[k] = "new" /\ stopping = "no"
    /\ hpc'  = [hpc EXCEPT ![k] = "recv"]
    /\ sock' = [sock EXCEPT ![k] = "open"]
    /\ UNCHANGED <<call, open, sockets, svars, fired, queue, ready, wvars,
                   cvars, speaks, stopping>>

(* `call_start`: a new _Call replaces the handler's own, open utterance and  *)
(* all; the entry of a call it supersedes stays in _sockets.                 *)
CallStart(k) ==
    /\ Resumes(k)
    /\ \E c \in Calls :
         /\ Fresh(c) \/ c = call[k]
         /\ call'    = [call EXCEPT ![k] = c]
         /\ sockets' = [sockets EXCEPT ![c] = k]
    /\ open' = [open EXCEPT ![k] = FALSE]
    /\ UNCHANGED <<hpc, sock, svars, fired, queue, ready, wvars, cvars,
                   speaks, stopping>>

(* Audio before any call_start is adopted under a generated id.             *)
AudioAdopted(k) ==
    /\ Resumes(k) /\ call[k] = NoCall
    /\ \E c \in Calls :
         /\ Fresh(c)
         /\ call'    = [call EXCEPT ![k] = c]
         /\ sockets' = [sockets EXCEPT ![c] = k]
    /\ \E loud \in BOOLEAN : /\ loud => MayOpen
                             /\ open' = [open EXCEPT ![k] = loud]
    /\ UNCHANGED <<hpc, sock, svars, fired, queue, ready, wvars, cvars,
                   speaks, stopping>>

AudioOpens(k) ==
    /\ Resumes(k) /\ call[k] # NoCall /\ ~open[k] /\ MayOpen
    /\ open' = [open EXCEPT ![k] = TRUE]
    /\ UNCHANGED <<hpc, sock, call, sockets, svars, fired, queue, ready, wvars,
                   cvars, speaks, stopping>>

(* Mutant of Count: every utterance is marked final.                        *)
CountAllFinal(k, next) ==
    /\ made < MaxChunks
    /\ made'    = made + 1
    /\ owner'   = [owner EXCEPT ![made + 1] = call[k]]
    /\ fate'    = [fate EXCEPT ![made + 1] = "counted"]
    /\ final'   = final \cup {made + 1}
    /\ pending' = [pending EXCEPT ![call[k]] = @ + 1]
    /\ open'    = [open EXCEPT ![k] = FALSE]
    /\ hpc'     = [hpc EXCEPT ![k] = next]

(* _queue_chunk up to the end of its locked section: the utterance is cut   *)
(* and counted, and not yet on the queue.                                   *)
Count(k, next) ==
    /\ made < MaxChunks
    /\ made'    = made + 1
    /\ owner'   = [owner EXCEPT ![made + 1] = call[k]]
    /\ fate'    = [fate EXCEPT ![made + 1] = "counted"]
    /\ final'   = IF next = "putlast" THEN final \cup {made + 1} ELSE final
    /\ pending' = [pending EXCEPT ![call[k]] = @ + 1]
    /\ open'    = [open EXCEPT ![k] = FALSE]
    /\ hpc'     = [hpc EXCEPT ![k] = next]

AudioCloses(k) ==
    /\ Resumes(k) /\ call[k] # NoCall /\ open[k]
    /\ Count(k, "put")
    /\ UNCHANGED <<sock, call, sockets, drained, gaveUp, fired, queue, ready,
                   wvars, speaks, stopping>>

(* The idle watcher, a task that lives while its handler awaits messages,   *)
(* flushes a stalled call's utterance.  It is not marked final.             *)
WatchIdle(k) ==
    /\ Resumes(k) /\ call[k] # NoCall /\ open[k]
    /\ Count(k, "put")
    /\ UNCHANGED <<sock, call, sockets, drained, gaveUp, fired, queue, ready,
                   wvars, speaks, stopping>>

(* Mutant of Put: the utterance hangup flushed jumps the queue.             *)
PutUrgent(k) ==
    /\ hpc[k] \in {"put", "putlast"}
    /\ queue' = IF hpc[k] = "put" THEN Append(queue, ChunkItem(made, call[k]))
                                 ELSE <<ChunkItem(made, call[k])>> \o queue
    /\ fate'  = [fate EXCEPT ![made] = "queued"]
    /\ hpc'   = [hpc EXCEPT ![k] = IF @ = "put" THEN "recv" ELSE "check"]
    /\ UNCHANGED <<sock, call, open, sockets, svars, fired, ready, wvars, owner,
                   final, made, speaks, stopping>>

(* The second half of _queue_chunk: no other handler can have cut a chunk   *)
(* since, so the one to queue is the last one made.                         *)
Put(k) ==
    /\ hpc[k] \in {"put", "putlast"}
    /\ queue' = Append(queue, ChunkItem(made, call[k]))
    /\ fate'  = [fate EXCEPT ![made] = "queued"]
    /\ hpc'   = [hpc EXCEPT ![k] = IF @ = "put" THEN "recv" ELSE "check"]
    /\ UNCHANGED <<sock, call, open, sockets, svars, fired, ready, wvars, owner,
                   final, made, speaks, stopping>>

(* `speak`: a request for speech joins the same queue and is not counted.   *)
QueueSpeech(k) ==
    /\ Resumes(k) /\ call[k] # NoCall /\ speaks < MaxSpeaks
    /\ queue'  = Append(queue, SpeakItem(call[k]))
    /\ speaks' = speaks + 1
    /\ UNCHANGED <<hpc, sock, call, open, sockets, svars, fired, ready, wvars,
                   cvars, stopping>>

(* The handler leaves its loop: the idle watcher is cancelled and _end_call  *)
(* flushes the open utterance.  A connection that never had a call is done.  *)
EndCall(k) ==
    \/ /\ call[k] = NoCall
       /\ hpc'  = [hpc EXCEPT ![k] = "closed"]
       /\ sock' = [sock EXCEPT ![k] = "closed"]
       /\ UNCHANGED <<call, open, sockets, svars, fired, queue, ready, wvars,
                      cvars, speaks, stopping>>
    \/ /\ call[k] # NoCall /\ ~open[k]
       /\ hpc' = [hpc EXCEPT ![k] = "check"]
       /\ UNCHANGED <<sock, call, open, sockets, svars, fired, queue, ready,
                      wvars, cvars, speaks, stopping>>
    \/ /\ call[k] # NoCall /\ open[k]
       /\ Count(k, "putlast")
       /\ UNCHANGED <<sock, call, sockets, drained, gaveUp, fired, queue, ready,
                      wvars, speaks, stopping>>

CallEnd(k)     == Resumes(k) /\ EndCall(k)
EndOfStream(k) == Resumes(k) /\ sock[k] = "closed" /\ EndCall(k)

(* Mutant of Check: waits without looking whether anything is pending.      *)
CheckBlindly(k) ==
    /\ hpc[k] = "check"
    /\ hpc' = [hpc EXCEPT ![k] = "wait"]
    /\ drained' = drained \cup {call[k]}
    /\ UNCHANGED <<sock, call, open, sockets, pending, gaveUp, fired, queue,
                   ready, wvars, cvars, speaks, stopping>>

(* _wait_for_pending: the test and the registration of the event are one    *)
(* locked section.                                                          *)
Check(k) ==
    /\ hpc[k] = "check"
    /\ IF Meter \/ pending[call[k]] = 0
         THEN /\ hpc' = [hpc EXCEPT ![k] = "drop"]
              /\ UNCHANGED drained
         ELSE /\ hpc' = [hpc EXCEPT ![k] = "wait"]
              /\ drained' = drained \cup {call[k]}
    /\ UNCHANGED <<sock, call, open, sockets, pending, gaveUp, fired, queue,
                   ready, wvars, cvars, speaks, stopping>>

(* Mutant of DrainTimeout: a wait without a timeout.                        *)
DrainForever(k) == LoopFree /\ hpc[k] = "wait" /\ UNCHANGED vars

(* wait_for runs out.  The timer may fire at any moment of the wait.        *)
DrainTimeout(k) ==
    /\ LoopFree /\ hpc[k] = "wait"
    /\ hpc'    = [hpc EXCEPT ![k] = "leave"]
    /\ gaveUp' = gaveUp \cup {call[k]}
    /\ UNCHANGED <<sock, call, open, sockets, pending, drained, fired, queue,
                   ready, wvars, cvars, speaks, stopping>>

(* The locked `finally` of _wait_for_pending.                               *)
Leave(k) ==
    /\ hpc[k] = "leave"
    /\ drained' = drained \ {call[k]}
    /\ pending' = [pending EXCEPT ![call[k]] = 0]
    /\ hpc'     = [hpc EXCEPT ![k] = "drop"]
    /\ UNCHANGED <<sock, call, open, sockets, gaveUp, fired, queue, ready, wvars,
                   cvars, speaks, stopping>>

(* Mutant of Drop: the handler returns and leaves its entry in _sockets.    *)
DropUnpopped(k) ==
    /\ hpc[k] = "drop"
    /\ sock'    = [sock EXCEPT ![k] = "closed"]
    /\ hpc'     = [hpc EXCEPT ![k] = "closed"]
    /\ UNCHANGED <<call, open, sockets, svars, fired, queue, ready, wvars, cvars,
                   speaks, stopping>>

(* The `finally` of _handle; then the handler returns and websockets sends  *)
(* the close frame before any other callback runs.                          *)
Drop(k) ==
    /\ hpc[k] = "drop"
    /\ sockets' = [sockets EXCEPT ![call[k]] = NoConn]
    /\ sock'    = [sock EXCEPT ![k] = "closed"]
    /\ hpc'     = [hpc EXCEPT ![k] = "closed"]
    /\ UNCHANGED <<call, open, svars, fired, queue, ready, wvars, cvars, speaks,
                   stopping>>

(* The peer, the network or Server.close() closes the WebSocket.            *)
SocketCloses(k) ==
    /\ LoopFree /\ sock[k] = "open"
    /\ sock' = [sock EXCEPT ![k] = "closed"]
    /\ UNCHANGED <<hpc, call, open, sockets, svars, fired, queue, ready, wvars,
                   cvars, speaks, stopping>>

-----------------------------------------------------------------------------
(* The loop runs the oldest callback the worker posted.                     *)
(* run_coroutine_threadsafe posts a callback that makes the task; the       *)
(* task's first step is a callback of its own, at the end of the queue, and  *)
(* so is the wake-up of a handler whose event is set.                       *)
RunCallback ==
    /\ LoopFree /\ ready # <<>>
    /\ LET cb == Head(ready) IN
         \/ /\ cb.kind = "mksend"
            /\ ready' = Append(Tail(ready), [cb EXCEPT !.kind = "send"])
            /\ UNCHANGED <<hpc, fate, fired>>
         \/ /\ cb.kind = "send"
            /\ ready' = Tail(ready)
            /\ fate'  = IF cb.n = 0 THEN fate
                        ELSE [fate EXCEPT ![cb.n] =
                                IF sock[cb.conn] = "open" THEN "sent" ELSE "lost"]
            /\ UNCHANGED <<hpc, fired>>
         \/ /\ cb.kind = "set"
            /\ fired' = fired \cup {cb.call}
            /\ ready' = IF \E k \in Conns : hpc[k] = "wait" /\ call[k] = cb.call
                          THEN Append(Tail(ready), EventOn("wake", cb.call))
                          ELSE Tail(ready)
            /\ UNCHANGED <<hpc, fate>>
         \/ /\ cb.kind = "wake"
            /\ ready' = Tail(ready)
            /\ hpc' = [k \in Conns |-> IF hpc[k] = "wait" /\ call[k] = cb.call
                                          THEN "leave" ELSE hpc[k]]
            /\ UNCHANGED <<fate, fired>>
    /\ UNCHANGED <<sock, call, open, sockets, svars, queue, wvars, owner, final,
                   made, speaks, stopping>>

-----------------------------------------------------------------------------
(* The worker thread: consume_chunks.                                       *)
Get ==
    /\ wpc = "get" /\ queue # <<>>
    /\ item'  = Head(queue)
    /\ queue' = Tail(queue)
    /\ wpc'   = CASE Head(queue).kind = "chunk" -> "work"
                  [] Head(queue).kind = "speak" -> "speak"
                  [] Head(queue).kind = "stop"  -> "stopped"
    /\ fate'  = IF Head(queue).kind = "chunk"
                  THEN [fate EXCEPT ![Head(queue).n] = "work"] ELSE fate
    /\ UNCHANGED <<hvars, sockets, svars, fired, ready, owner, final, made,
                   speaks, stopping>>

(* emit, up to its `finally`.  The chunk came to nothing (a gate dropped    *)
(* it, the decode was given up, the transcript is empty), or to a           *)
(* transcript, whose send is posted onto the loop if the call still has a    *)
(* socket.                                                                  *)
Emit ==
    /\ wpc = "work"
    /\ wpc' = "done"
    /\ LET c == item.call
           k == sockets[c] IN
         \/ /\ fate' = [fate EXCEPT ![item.n] = "nothing"]
            /\ UNCHANGED ready
         \/ /\ k = NoConn
            /\ fate' = [fate EXCEPT ![item.n] = "lost"]
            /\ UNCHANGED ready
         \/ /\ k # NoConn
            /\ fate' = [fate EXCEPT ![item.n] = "scheduled"]
            /\ ready' = Append(ready, SendOn("mksend", c, k, item.n))
    /\ UNCHANGED <<hvars, sockets, svars, fired, queue, item, owner, final, made,
                   speaks, stopping>>

(* Mutants of ChunkDone: the entry is popped whatever remains; the early     *)
(* return while chunks remain is missing; the entry is never popped.        *)
ChunkDonePops ==
    /\ wpc = "done"
    /\ pending' = [pending EXCEPT ![item.call] = 0]
    /\ wpc'     = IF item.call \in drained THEN "notify" ELSE "get"
    /\ item'    = IF item.call \in drained THEN item ELSE NoItem
    /\ UNCHANGED <<hvars, sockets, drained, gaveUp, fired, queue, ready, cvars,
                   speaks, stopping>>
ChunkDoneEager ==
    /\ wpc = "done"
    /\ pending' = [pending EXCEPT ![item.call] = IF @ > 1 THEN @ - 1 ELSE 0]
    /\ wpc'     = IF item.call \in drained THEN "notify" ELSE "get"
    /\ item'    = IF item.call \in drained THEN item ELSE NoItem
    /\ UNCHANGED <<hvars, sockets, drained, gaveUp, fired, queue, ready, cvars,
                   speaks, stopping>>
ChunkDoneUnderflows ==
    /\ wpc = "done"
    /\ pending' = [pending EXCEPT ![item.call] = @ - 1]
    /\ wpc'     = IF item.call \in drained THEN "notify" ELSE "get"
    /\ item'    = IF item.call \in drained THEN item ELSE NoItem
    /\ UNCHANGED <<hvars, sockets, drained, gaveUp, fired, queue, ready, cvars,
                   speaks, stopping>>

(* _chunk_done, its locked section.                                         *)
ChunkDone ==
    /\ wpc = "done"
    /\ LET c == item.call
           more == pending[c] > 1
           next == IF ~more /\ c \in drained THEN "notify" ELSE "get" IN
         /\ pending' = [pending EXCEPT ![c] = IF more THEN @ - 1 ELSE 0]
         /\ wpc'     = next
         /\ item'    = IF next = "get" THEN NoItem ELSE item
    /\ UNCHANGED <<hvars, sockets, drained, gaveUp, fired, queue, ready, cvars,
                   speaks, stopping>>

(* Mutant of Notify: the worker sets the event itself, ahead of what it has   *)
(* already posted onto the loop.                                            *)
NotifyDirectly ==
    /\ wpc = "notify"
    /\ fired' = fired \cup {item.call}
    /\ ready' = <<EventOn("wake", item.call)>> \o ready
    /\ wpc'   = "get"
    /\ item'  = NoItem
    /\ UNCHANGED <<hvars, sockets, svars, queue, cvars, speaks, stopping>>

(* ... and after it: call_soon_threadsafe(event.set).                       *)
Notify ==
    /\ wpc = "notify"
    /\ ready' = Append(ready, EventOn("set", item.call))
    /\ wpc'   = "get"
    /\ item'  = NoItem
    /\ UNCHANGED <<hvars, sockets, svars, fired, queue, cvars, speaks, stopping>>

(* Mutant of Speak: with nothing to say it returns from the loop.           *)
SpeakReturns ==
    /\ wpc = "speak"
    /\ \/ UNCHANGED ready /\ wpc' = "stopped"
       \/ /\ sockets[item.call] # NoConn
          /\ ready' = Append(ready, SendOn("mksend", item.call,
                                           sockets[item.call], 0))
          /\ wpc' = "get"
    /\ item' = NoItem
    /\ UNCHANGED <<hvars, sockets, svars, fired, queue, cvars, speaks, stopping>>

(* A speak request: nothing to say (no voice, a sentence it cannot say), no  *)
(* socket left, or audio posted to the call's socket.                       *)
Speak ==
    /\ wpc = "speak"
    /\ \/ UNCHANGED ready
       \/ /\ sockets[item.call] # NoConn
          /\ ready' = Append(ready, SendOn("mksend", item.call,
                                           sockets[item.call], 0))
    /\ wpc'  = "get"
    /\ item' = NoItem
    /\ UNCHANGED <<hvars, sockets, svars, fired, queue, cvars, speaks, stopping>>

(* backend.transcribe raises: nothing in consume_chunks catches it, the sink *)
(* is not called for the chunk and the worker is gone.                      *)
Crash ==
    /\ wpc = "work"
    /\ wpc' = "crashed"
    /\ UNCHANGED <<hvars, sockets, svars, fired, queue, ready, item, cvars,
                   speaks, stopping>>

-----------------------------------------------------------------------------
(* stop(), by Ctrl-C or because the worker is gone: no new connections, and  *)
(* every open one gets closed (SocketCloses).                               *)
BeginStop ==
    /\ LoopFree /\ stopping = "no"
    /\ stopping' = "closing"
    /\ UNCHANGED <<hvars, sockets, svars, fired, queue, ready, wvars, cvars, speaks>>

(* Mutants of FinishStop: without wait_closed(); without the sentinel.       *)
FinishStopEarly ==
    /\ LoopFree /\ stopping = "closing"
    /\ stopping' = "done"
    /\ queue' = Append(queue, NoItem)
    /\ UNCHANGED <<hvars, sockets, svars, fired, ready, wvars, cvars, speaks>>
FinishStopSilent ==
    /\ LoopFree /\ stopping = "closing"
    /\ \A k \in Conns : hpc[k] \in {"new", "closed"}
    /\ stopping' = "done"
    /\ UNCHANGED <<hvars, sockets, svars, fired, queue, ready, wvars, cvars, speaks>>

(* wait_closed() returns when every handler has; then the sentinel.         *)
FinishStop ==
    /\ LoopFree /\ stopping = "closing"
    /\ \A k \in Conns : hpc[k] \in {"new", "closed"}
    /\ stopping' = "done"
    /\ queue' = Append(queue, NoItem)
    /\ UNCHANGED <<hvars, sockets, svars, fired, ready, wvars, cvars, speaks>>

(* Everything has ended.                                                    *)
Finished ==
    /\ stopping = "done" /\ wpc \in {"stopped", "crashed"} /\ ready = <<>>
    /\ UNCHANGED vars

-----------------------------------------------------------------------------
MidCall(k)   == Put(k) \/ Check(k) \/ Leave(k) \/ Drop(k)
Handler(k)   == \/ Accept(k) \/ CallStart(k) \/ AudioAdopted(k) \/ AudioOpens(k)
                \/ AudioCloses(k) \/ WatchIdle(k) \/ QueueSpeech(k)
                \/ CallEnd(k) \/ EndOfStream(k) \/ DrainTimeout(k)
                \/ SocketCloses(k) \/ MidCall(k)
WorkerStep   == Get \/ Emit \/ ChunkDone \/ Notify \/ Speak

Next == \/ \E k \in Conns : Handler(k)
        \/ RunCallback
        \/ WorkerStep \/ Crash
        \/ BeginStop \/ FinishStop \/ Finished

Spec == Init /\ [][Next]_vars

(* The event loop runs what is ready, an armed timer fires, and a closed     *)
(* socket is noticed.  Nothing is assumed of peers or of the worker.        *)
LoopFairness ==
    /\ WF_vars(RunCallback)
    /\ \A k \in Conns : /\ WF_vars(MidCall(k))
                        /\ WF_vars(EndOfStream(k))
                        /\ WF_vars(DrainTimeout(k))
                        /\ WF_vars(SocketCloses(k) /\ stopping # "no")
    /\ WF_vars(FinishStop)
    /\ WF_vars(BeginStop /\ wpc = "crashed")

LoopSpec == Spec /\ LoopFairness

(* No decode or synthesis takes for ever.                                   *)
WorkerProgress == WF_vars(WorkerStep)

-----------------------------------------------------------------------------
TypeOK ==
    /\ hpc     \in [Conns -> HandlerPC]
    /\ sock    \in [Conns -> {"new", "open", "closed"}]
    /\ call    \in [Conns -> Calls \cup {NoCall}]
    /\ open    \in [Conns -> BOOLEAN]
    /\ sockets \in [Calls -> Conns \cup {NoConn}]
    /\ pending \in [Calls -> Nat]
    /\ drained \subseteq Calls /\ fired \subseteq Calls /\ gaveUp \subseteq Calls
    /\ queue   \in Seq(Items)
    /\ ready   \in Seq(Callbacks)
    /\ wpc     \in WorkerPC
    /\ item    \in Items
    /\ owner   \in [Chunks -> Calls \cup {NoCall}]
    /\ final   \subseteq Chunks
    /\ fate    \in [Chunks -> Fates]
    /\ made    \in 0..MaxChunks
    /\ speaks  \in 0..MaxSpeaks
    /\ stopping \in {"no", "closing", "done"}

(* The chunks of a call that are still to be counted down.                  *)
InHand(x) == fate[x] \in Unfinished \/ (wpc = "done" /\ item.n = x)
Owed(c)   == {x \in Chunks : owner[x] = c /\ InHand(x)}

(* server.py:186-189.  The counter that two threads write under one lock is  *)
(* exact: it is the number of the call's chunks not yet finished with,      *)
(* unless its handler gave up waiting and threw the count away.             *)
PendingExact ==
    \A c \in Calls : \/ pending[c] = Cardinality(Owed(c))
                     \/ c \in gaveUp /\ pending[c] = 0

(* server.py:301-324.  No lost wake-up: while a handler waits for its event, *)
(* work that will set the event is left, or the worker is about to post     *)
(* event.set, or the set or the wake-up is already on the loop.             *)
NoLostWakeup ==
    \A k \in Conns : hpc[k] = "wait" =>
        /\ call[k] \in drained
        /\ \/ Owed(call[k]) # {}
           \/ wpc = "notify" /\ item.call = call[k]
           \/ \E i \in DOMAIN ready : /\ ready[i].kind \in {"set", "wake"}
                                      /\ ready[i].call = call[k]

(* server.py:301-316.  The event means what its name says: once a call's     *)
(* event is set, no chunk of that call is unfinished, then or later.        *)
FiredMeansDrained == \A c \in fired : Owed(c) = {}

(* server.py:384-390.  A handler that waited and was woken by the event (not  *)
(* by the timer) unregisters only after every transcript of its call went   *)
(* out, or failed on a socket that was closed already.                      *)
Answered ==
    \A k \in Conns : hpc[k] = "leave" /\ call[k] \notin gaveUp =>
        \A x \in Chunks : owner[x] = call[k] =>
            \/ fate[x] \in {"sent", "nothing"}
            \/ fate[x] = "lost" /\ sock[k] = "closed"

(* The transcripts of one call go out in the order the utterances were       *)
(* spoken: one queue, one worker, and a send is scheduled, not performed.   *)
InSpokenOrder ==
    \A x, y \in Chunks : x < y /\ owner[x] = owner[y] /\ fate[y] = "sent" =>
        fate[x] \notin Unfinished \cup {"scheduled"}

(* main.py:387-389, server.py:200-204.  Nothing is queued behind the         *)
(* sentinel, so a worker that stops leaves no utterance untranscribed.      *)
SentinelLast ==
    /\ \A i \in DOMAIN queue : queue[i].kind = "stop" => i = Len(queue)
    /\ wpc = "stopped" => /\ queue = <<>>
                          /\ \A x \in Chunks : fate[x] \notin Unfinished

(* server.py:459-469.  The filler gate's `final` flag marks the utterance     *)
(* hangup flushed: at most one per call, and the call's last.               *)
FinalIsLast ==
    \A x \in final : \A y \in Chunks : owner[y] = owner[x] => y <= x

(* server.py:361,380,392.  A handler's current call is routed to its own     *)
(* connection from its start until the handler returns, and not after.      *)
Routed ==
    \A k \in Conns : call[k] # NoCall =>
        sockets[call[k]] = IF hpc[k] = "closed" THEN NoConn ELSE k

(* server.py:326-338.  A handler that has left its loop closes its           *)
(* connection, even if the worker is stuck or gone.                         *)
HangupCloses == \A k \in Conns : hpc[k] \in Ending ~> hpc[k] = "closed"

(* main.py:383-393.  Given a worker that progresses, every utterance that    *)
(* was queued is finished with, unless the worker died.                     *)
ChunksFinish == WorkerProgress =>
    \A x \in Chunks : fate[x] = "queued" ~> fate[x] \notin Unfinished \/ wpc = "crashed"

(* server.py:200-204.  Given the same, stop() gets every handler to return   *)
(* and the worker to end.                                                   *)
ShutdownCompletes == WorkerProgress =>
    (stopping = "closing" ~> /\ wpc \in {"stopped", "crashed"}
                             /\ \A k \in Conns : hpc[k] \in {"new", "closed"})

-----------------------------------------------------------------------------
(* What the documentation says and the code does not do.                    *)

(* stt_port/README.md:96-102, "held open after call_end until the call's     *)
(* outstanding chunks have come back": a handler that did not time out       *)
(* closes no open socket while a transcript of its call is still to be sent. *)
HeldUntilReturned ==
    \A k \in Conns : hpc[k] = "drop" /\ call[k] \notin gaveUp /\ sock[k] = "open" =>
        \A x \in Chunks : owner[x] = call[k] => fate[x] \notin Unfinished \cup {"scheduled"}
=============================================================================
