------------------------------ MODULE SttLink ------------------------------
(***************************************************************************)
(* One call on the phone machine: session.SttLink and session.handle_call. *)
(* Four kinds of task share the event loop and one WebSocket:               *)
(*   main     handle_call: connects, reads the AudioSocket, tears down      *)
(*   pump     _drain_outbox: writes the queued audio                        *)
(*   reader   receive_transcripts: transcripts and speech coming back       *)
(*   a speaker per reply: link.speak, scheduled by the reader               *)
(*                                                                         *)
(* An action runs from one await to the next.  The link's own idea of the   *)
(* connection (`_ws is not None`) is kept apart from the connection itself: *)
(* the code drops the first after a failed or late send, and the second     *)
(* lives on until somebody closes it.                                       *)
(*                                                                         *)
(* Abstracted: a frame is its number, a reply is a model value, a timer may *)
(* fire at any moment while it is armed.  Left out: cancellation of the     *)
(* whole call when the process is interrupted.                              *)
(***************************************************************************)
EXTENDS Integers, Sequences, FiniteSets

CONSTANTS
    Capacity,   \* OUTBOUND_QUEUE_FRAMES
    MaxFrames,  \* bound: audio frames the caller sends during one call
    Replies     \* bound: replies the responder makes, one task each

ASSUME CapacityAssumption == Capacity \in Nat \ {0}
ASSUME FramesAssumption   == MaxFrames \in Nat
ASSUME RepliesAssumption  == {"main", "pump"} \cap Replies = {}

VARIABLES
    main,      \* where handle_call is (MainPC)
    ws,        \* `_ws is not None`
    conn,      \* the connection: "none", "open", "closed"
    boxed,     \* `_outbox is not None`
    outbox,    \* the frames in it
    unfinished,\* the unfinished-task count behind outbox.join()
    pump,      \* where the pump task is (PumpPC)
    hand,      \* the frame the pump took last; 0 before the first
    snd,       \* each writer's send: "no", "queued" behind another, "written"
    wire,      \* what has been written to the connection, in order
    offered,   \* frames the read loop handed to send_audio
    dropped,   \* frames_dropped
    sent,      \* frames_sent
    late,      \* the flush of finish() timed out
    reader,    \* where the reader task is (ReaderPC)
    reply      \* each speaker task: "no", "created", "sending", "over"

box  == <<boxed, outbox, unfinished, pump, hand>>
tall == <<offered, dropped, sent>>
back == <<reader, reply>>
vars == <<main, ws, conn, boxed, outbox, unfinished, pump, hand, snd, wire,
          offered, dropped, sent, late, reader, reply>>

Frames   == 1..MaxFrames
Writers  == {"main", "pump"} \cup Replies
Msgs     == [kind : {"start", "audio", "speak", "end"}, n : Frames \cup {0}]
Text(k)  == [kind |-> k, n |-> 0]
Audio(n) == [kind |-> "audio", n |-> n]

(*   dial, start   in connect()         loop      reading the AudioSocket    *)
(*   flush, announce  in finish()       grace     waiting for the reader     *)
(*   closing       in close()           done      returned                   *)
MainPC   == {"dial", "start", "loop", "flush", "announce", "grace", "closing", "done"}
(*   idle   in outbox.get()             hold      a frame in hand, sending   *)
(*   unwind cancelled with a frame in hand        gone     ended             *)
PumpPC   == {"none", "idle", "hold", "unwind", "gone"}
(* The last four tell how receive_transcripts ended.                         *)
ReaderPC == {"none", "created", "recv", "playing",
             "absent", "closed", "raised", "cancelled"}
ReaderOver == {"absent", "closed", "raised", "cancelled"}

Init == /\ main = "dial" /\ ws = FALSE /\ conn = "none"
        /\ boxed = FALSE /\ outbox = <<>> /\ unfinished = 0
        /\ pump = "none" /\ hand = 0
        /\ snd = [w \in Writers |-> "no"] /\ wire = <<>>
        /\ offered = 0 /\ dropped = 0 /\ sent = 0 /\ late = FALSE
        /\ reader = "none" /\ reply = [r \in Replies |-> "no"]

-----------------------------------------------------------------------------
(* The WebSocket library: a send writes the message under the connection's   *)
(* lock, then waits for the buffer to drain; the next sender waits for the   *)
(* lock.  On a closed connection a send raises.                              *)
Unlocked == \A w \in Writers : snd[w] # "written"

Posts(w, msg) ==
    IF conn = "open" /\ \A v \in Writers : snd[v] = "no"
    THEN /\ snd'  = [snd EXCEPT ![w] = "written"]
         /\ wire' = Append(wire, msg)
    ELSE /\ snd'  = [snd EXCEPT ![w] = "queued"]
         /\ UNCHANGED wire

Pending(w) == CASE w = "pump"    -> Audio(hand)
                [] w = "main"    -> Text(IF main = "start" THEN "start" ELSE "end")
                [] w \in Replies -> Text("speak")

GetsLock(w) ==
    /\ snd[w] = "queued" /\ conn = "open" /\ Unlocked
    /\ snd'  = [snd EXCEPT ![w] = "written"]
    /\ wire' = Append(wire, Pending(w))
    /\ UNCHANGED <<main, ws, conn, box, tall, late, back>>

(* The far side, or the network, closes the connection.                      *)
PeerCloses ==
    /\ conn = "open" /\ conn' = "closed"
    /\ UNCHANGED <<main, ws, box, snd, wire, tall, late, back>>

-----------------------------------------------------------------------------
(* The ways a send of writer w ends.                                         *)
Returns(w) == snd[w] = "written" /\ snd' = [snd EXCEPT ![w] = "no"]
Raises(w)  == snd[w] # "no" /\ conn = "closed" /\ snd' = [snd EXCEPT ![w] = "no"]
Expires(w) == snd[w] # "no" /\ snd' = [snd EXCEPT ![w] = "no"]

(* Mutant of TextSent: the send is not bounded.                              *)
TextSentUnbounded(w) == \/ Returns(w) /\ UNCHANGED ws
                        \/ Raises(w) /\ ws' = FALSE

(* _send_text: bounded, and after a failed or a late send the link is gone.  *)
TextSent(w) == \/ Returns(w) /\ UNCHANGED ws
               \/ (Raises(w) \/ Expires(w)) /\ ws' = FALSE

(* connect() has returned: the reader is created, the read loop entered.     *)
EnterLoop == main' = "loop" /\ reader' = "created"

Connected ==
    /\ main = "dial" /\ main' = "start"
    /\ ws' = TRUE /\ conn' = "open"
    /\ snd' = [snd EXCEPT !["main"] = "written"] /\ wire' = <<Text("start")>>
    /\ UNCHANGED <<box, tall, late, back>>

(* Refused, or CONNECT_TIMEOUT_SECONDS ran out.                              *)
DialFails ==
    /\ main = "dial" /\ EnterLoop
    /\ UNCHANGED <<ws, conn, box, snd, wire, tall, late, reply>>

(* call_start is out, or given up: the pump starts in either case.           *)
StartPump ==
    /\ main = "start" /\ TextSent("main") /\ EnterLoop
    /\ boxed' = TRUE /\ pump' = "idle"
    /\ UNCHANGED <<conn, outbox, unfinished, hand, wire, tall, late, reply>>

(* Mutant of SendAudio: the queue has no bound.                              *)
SendAudioUnbounded ==
    /\ main = "loop" /\ offered < MaxFrames
    /\ offered' = offered + 1
    /\ IF ~ws \/ ~boxed
       THEN UNCHANGED <<outbox, unfinished>>
       ELSE outbox' = Append(outbox, offered') /\ unfinished' = unfinished + 1
    /\ UNCHANGED <<main, ws, conn, boxed, pump, hand, snd, wire, dropped, sent,
                   late, back>>

(* send_audio, on every frame that recv() yields.                            *)
SendAudio ==
    /\ main = "loop" /\ offered < MaxFrames
    /\ offered' = offered + 1
    /\ IF ~ws \/ ~boxed
       THEN UNCHANGED <<outbox, unfinished, dropped>>
       ELSE IF Len(outbox) < Capacity
            THEN /\ outbox' = Append(outbox, offered')
                 /\ unfinished' = unfinished + 1
                 /\ UNCHANGED dropped
            ELSE dropped' = dropped + 1 /\ UNCHANGED <<outbox, unfinished>>
    /\ UNCHANGED <<main, ws, conn, boxed, pump, hand, snd, wire, sent, late, back>>

-----------------------------------------------------------------------------
(* _drain_outbox.  With the link gone the frame is only ticked off.          *)
PumpTakes ==
    /\ pump = "idle" /\ outbox # <<>>
    /\ hand' = Head(outbox) /\ outbox' = Tail(outbox)
    /\ IF ws THEN /\ Posts("pump", Audio(hand')) /\ pump' = "hold"
                  /\ UNCHANGED unfinished
             ELSE /\ unfinished' = unfinished - 1
                  /\ UNCHANGED <<pump, snd, wire>>
    /\ UNCHANGED <<main, ws, conn, boxed, tall, late, back>>

(* Mutant of PumpTicksOff: a frame whose send raised is not ticked off.      *)
PumpTicksOffSent ==
    /\ pump = "hold" /\ pump' = "idle"
    /\ \/ /\ Returns("pump") /\ sent' = sent + 1 /\ UNCHANGED ws
          /\ unfinished' = unfinished - 1
       \/ Raises("pump") /\ ws' = FALSE /\ UNCHANGED <<sent, unfinished>>
    /\ UNCHANGED <<main, conn, boxed, outbox, hand, wire, offered, dropped,
                   late, back>>

(* The send returned or raised; `finally` ticks the frame off.               *)
PumpTicksOff ==
    /\ pump = "hold" /\ pump' = "idle"
    /\ \/ Returns("pump") /\ sent' = sent + 1 /\ UNCHANGED ws
       \/ Raises("pump") /\ ws' = FALSE /\ UNCHANGED sent
    /\ unfinished' = unfinished - 1
    /\ UNCHANGED <<main, conn, boxed, outbox, hand, wire, offered, dropped,
                   late, back>>

(* The cancelled pump runs its `finally`; only now does its send let go of   *)
(* the connection's lock.                                                    *)
PumpUnwinds ==
    /\ pump = "unwind" /\ pump' = "gone"
    /\ snd' = [snd EXCEPT !["pump"] = "no"]
    /\ UNCHANGED <<main, ws, conn, boxed, outbox, unfinished, hand, wire, tall,
                   late, back>>

-----------------------------------------------------------------------------
(* Mutant of Announce: the pump is left running.                             *)
AnnounceBesidePump ==
    /\ IF ws THEN main' = "announce" /\ Posts("main", Text("end"))
             ELSE main' = "grace" /\ UNCHANGED <<snd, wire>>
    /\ UNCHANGED <<ws, conn, box, tall, back>>

(* finish(), from the cancellation of the pump on.  The cancelled pump       *)
(* writes nothing more: a send that waits for the lock leaves the line.      *)
Announce ==
    /\ pump' = CASE pump = "hold" -> "unwind" [] pump = "idle" -> "gone"
                 [] OTHER -> pump
    /\ boxed' = FALSE /\ outbox' = <<>> /\ unfinished' = 0
    /\ LET left == [snd EXCEPT !["pump"] = IF @ = "queued" THEN "no" ELSE @]
           free == conn = "open" /\ \A w \in Writers : left[w] = "no"
       IN IF ws
          THEN /\ main' = "announce"
               /\ snd'  = [left EXCEPT !["main"] = IF free THEN "written" ELSE "queued"]
               /\ wire' = IF free THEN Append(wire, Text("end")) ELSE wire
          ELSE main' = "grace" /\ snd' = left /\ UNCHANGED wire
    /\ UNCHANGED <<ws, conn, hand, tall, back>>

(* Mutant of Hangup: the queued audio is not waited for.                     *)
HangupAtOnce == main = "loop" /\ Announce /\ UNCHANGED late

(* recv() gave None or raised: the queued audio goes first.                  *)
Hangup ==
    /\ main = "loop"
    /\ IF pump # "none" /\ ws /\ unfinished > 0
       THEN main' = "flush" /\ UNCHANGED <<ws, conn, box, snd, wire, tall, back>>
       ELSE Announce
    /\ UNCHANGED late

Flushed      == main = "flush" /\ unfinished = 0 /\ Announce /\ UNCHANGED late
FlushTimeout == main = "flush" /\ Announce /\ late' = TRUE

(* Mutant of EndSent: the socket is closed on call_end.                      *)
EndSentAndClosed ==
    /\ main = "announce" /\ Returns("main") /\ main' = "closing" /\ ws' = FALSE
    /\ UNCHANGED <<conn, box, wire, tall, late, back>>

EndSent ==
    /\ main = "announce" /\ TextSent("main") /\ main' = "grace"
    /\ UNCHANGED <<conn, box, wire, tall, late, back>>

(* close(): nothing to close for a link that was given up.                   *)
Close == IF ws THEN main' = "closing" /\ ws' = FALSE
               ELSE main' = "done" /\ UNCHANGED ws

(* Mutant of GraceOver: the reader is not waited for.                        *)
GraceSkipped ==
    /\ main = "grace" /\ Close
    /\ UNCHANGED <<conn, box, snd, wire, tall, late, back>>

GraceOver ==
    /\ main = "grace" /\ reader \in ReaderOver /\ Close
    /\ UNCHANGED <<conn, box, snd, wire, tall, late, back>>

(* Mutant of GraceTimeout: the reader is waited for without a limit.         *)
GraceWithoutLimit ==
    /\ main = "grace" /\ reader = "closed" /\ Close
    /\ UNCHANGED <<conn, box, snd, wire, tall, late, back>>

GraceTimeout ==
    /\ main = "grace" /\ reader \notin ReaderOver /\ Close
    /\ reader' = "cancelled"
    /\ UNCHANGED <<conn, box, snd, wire, tall, late, reply>>

Closed ==
    /\ main = "closing" /\ main' = "done" /\ conn' = "closed"
    /\ UNCHANGED <<ws, box, snd, wire, tall, late, back>>

-----------------------------------------------------------------------------
(* receive_transcripts: `async for` keeps the connection it began with.      *)
ReaderStarts ==
    /\ reader = "created"
    /\ reader' = IF ws THEN "recv" ELSE "absent"
    /\ UNCHANGED <<main, ws, conn, box, snd, wire, tall, late, reply>>

(* Speech: the reader is inside call.send until it has been played.          *)
SpeechArrives ==
    /\ reader = "recv" /\ reader' = "playing"
    /\ UNCHANGED <<main, ws, conn, box, snd, wire, tall, late, reply>>
SpeechPlayed ==
    /\ reader = "playing" /\ reader' = "recv"
    /\ UNCHANGED <<main, ws, conn, box, snd, wire, tall, late, reply>>

(* A transcript the responder answers: the reply is a task of its own.       *)
TranscriptArrives ==
    /\ reader = "recv"
    /\ \E r \in Replies : reply[r] = "no" /\ reply' = [reply EXCEPT ![r] = "created"]
    /\ UNCHANGED <<main, ws, conn, box, snd, wire, tall, late, reader>>

(* The connection closed, or the sink raised: both are swallowed.            *)
ReaderEnds ==
    /\ reader = "recv"
    /\ \/ conn = "closed" /\ reader' = "closed"
       \/ reader' = "raised"
    /\ UNCHANGED <<main, ws, conn, box, snd, wire, tall, late, reply>>

(* speak                                                                     *)
SpeakStarts(r) ==
    /\ reply[r] = "created"
    /\ IF ws THEN Posts(r, Text("speak")) /\ reply' = [reply EXCEPT ![r] = "sending"]
             ELSE reply' = [reply EXCEPT ![r] = "over"] /\ UNCHANGED <<snd, wire>>
    /\ UNCHANGED <<main, ws, conn, box, tall, late, reader>>

SpeakSent(r) ==
    /\ reply[r] = "sending" /\ TextSent(r)
    /\ reply' = [reply EXCEPT ![r] = "over"]
    /\ UNCHANGED <<main, conn, box, wire, tall, late, reader>>

-----------------------------------------------------------------------------
Finished == main = "done" /\ UNCHANGED vars

Main   == Connected \/ DialFails \/ StartPump \/ Hangup \/ Flushed \/ FlushTimeout
          \/ EndSent \/ GraceOver \/ GraceTimeout
Pump   == PumpTakes \/ PumpTicksOff \/ PumpUnwinds
Reader == ReaderStarts \/ SpeechArrives \/ SpeechPlayed \/ TranscriptArrives \/ ReaderEnds
Next   == \/ Main \/ Closed \/ SendAudio \/ Pump \/ Reader \/ PeerCloses \/ Finished
          \/ \E w \in Writers : GetsLock(w)
          \/ \E r \in Replies : SpeakStarts(r) \/ SpeakSent(r)

Spec == Init /\ [][Next]_vars

(* The timers of connect, _send_text, finish and handle_call fire if nothing *)
(* else ends their wait.  The caller need not hang up; nothing is asked of   *)
(* the far side, the lock, the pump or the replies.                          *)
GivesUp(A) == A /\ ~ws'
LinkSpec == /\ Spec
            /\ WF_vars(DialFails) /\ WF_vars(GivesUp(StartPump))
            /\ WF_vars(FlushTimeout) /\ WF_vars(GivesUp(EndSent))
            /\ WF_vars(GraceOver) /\ WF_vars(GraceTimeout)

-----------------------------------------------------------------------------
TypeOK ==
    /\ main \in MainPC /\ pump \in PumpPC /\ reader \in ReaderPC
    /\ ws \in BOOLEAN /\ boxed \in BOOLEAN /\ late \in BOOLEAN
    /\ conn \in {"none", "open", "closed"}
    /\ outbox \in Seq(Frames) /\ Len(outbox) <= Capacity
    /\ unfinished \in Nat /\ hand \in Frames \cup {0}
    /\ snd \in [Writers -> {"no", "queued", "written"}] /\ wire \in Seq(Msgs)
    /\ offered \in 0..MaxFrames /\ dropped \in 0..offered /\ sent \in 0..offered
    /\ reply \in [Replies -> {"no", "created", "sending", "over"}]

(* session.py:155-169, :240.  While there is an outbox its unfinished count  *)
(* is the frames in it and the one in the pump's hand, so the flush neither  *)
(* ends early nor waits for nothing.                                         *)
JoinExact ==
    boxed => unfinished = Len(outbox) + (IF pump = "hold" THEN 1 ELSE 0)

(* session.py:123-129, :235-246.  The far side sees call_start before        *)
(* anything else, and no audio after call_end, even though the pump may be   *)
(* cancelled in the middle of a send.                                        *)
CallFramed ==
    \A i \in 1..Len(wire) :
        /\ wire[i].kind = "start" <=> i = 1
        /\ wire[i].kind = "end" => \A j \in i+1..Len(wire) : wire[j].kind # "audio"

EndWritten == \E i \in 1..Len(wire) : wire[i].kind = "end"
AudioAt    == {i \in 1..Len(wire) : wire[i].kind = "audio"}

(* session.py:236-244.  A call_end that did not give up on the flush follows *)
(* every frame the link accepted, in the order they were spoken: what is     *)
(* missing was dropped and counted.                                          *)
NoTruncation ==
    EndWritten /\ ~late =>
        /\ Cardinality(AudioAt) = sent /\ sent + dropped = offered
        /\ \A i, j \in AudioAt : i < j => wire[i].n < wire[j].n

(* session.py:238-245.  A call_end whose flush gave up has run ahead of no    *)
(* more than a full outbox and the frame in the pump's hand: that much is the *)
(* most a far side that stops reading costs unseen, however long the call.   *)
LossBounded ==
    EndWritten => offered <= Cardinality(AudioAt) + dropped + Capacity + 1

(* session.py:307-314.  The phone closes a live connection only when the     *)
(* grace ran out or its own sink failed; else it waits for the far side.     *)
WaitsForTheAnswer ==
    main = "closing" /\ conn = "open" => reader \in {"cancelled", "raised"}

(* session.py:38, :55.  The caller is attended to whatever the far side does.*)
Attended == main \in {"dial", "start"} ~> main = "loop"

(* session.py:52, :55, :44.  A hangup is dealt with whatever the far side,   *)
(* the pump and the replies do.                                              *)
HangupEnds == main \in {"flush", "announce", "grace"} ~> main \in {"closing", "done"}

(* session.py:88: "The WebSocket to the stt machine, for the duration of one *)
(* call."                                                                    *)
DoneMeansClosed == main = "done" => conn # "open"
=============================================================================
