------------------------------- MODULE Bridge -------------------------------
(***************************************************************************)
(* One call across both machines: SttLink on the phone machine and          *)
(* CallServer on the STT machine, joined by their WebSocket, with time.     *)
(*                                                                         *)
(* Every step of a machine is a step of its own module; this one adds when  *)
(* it may happen.  What SttLink writes (`wire`) is what the handler reads,  *)
(* what the server's loop sends is what the phone's reader reads, and each   *)
(* side learns of the other's close behind everything sent before it.       *)
(*                                                                         *)
(* The drain timer (server.py:104) and the grace timer (session.py:44) run   *)
(* on two machines from two moments.  The unit of time is such that a        *)
(* message, or a close, is at most one tick under way, and whoever need not  *)
(* wait acts within the tick.  A decode takes any time.  So the timers that  *)
(* guard against a stuck connection (connect, _send_text, the flush) do not  *)
(* run out here; SttLink has them.  The network may fail for good            *)
(* (LinkLost), unnoticed at first.                                          *)
(***************************************************************************)
EXTENDS Integers, Sequences, SequencesExt

CONSTANTS
    Capacity, MaxFrames, Replies,               \* as in SttLink
    Conn, CallId, NoCall, NoConn,               \* as in CallServer: one call
    MaxChunks, MaxSpeaks, Meter,
    Drain,      \* FINAL_DRAIN_TIMEOUT, in ticks
    Grace       \* FINAL_TRANSCRIPT_GRACE_SECONDS, in ticks

ASSUME PhoneAssumption  == /\ Capacity \in Nat \ {0} /\ MaxFrames \in Nat
                           /\ {"main", "pump"} \cap Replies = {}
ASSUME ServerAssumption == /\ NoCall # CallId /\ NoConn # Conn
                           /\ MaxChunks \in Nat /\ MaxSpeaks \in Nat /\ Meter \in BOOLEAN
(* server.py:102-104: the grace is longer; by a tick for each way, and more. *)
ASSUME TimersAssumption == Drain \in Nat /\ Grace \in Nat /\ Drain + 2 < Grace

VARIABLES
    main, ws, conn, boxed, outbox, unfinished, pump, hand, snd, wire, offered,
    dropped, sent, late, reader, reply,
    hpc, sock, call, open, sockets, pending, drained, fired, gaveUp, queue,
    ready, wpc, item, owner, final, fate, made, speaks, stopping,
    rd,       \* how many messages of `wire` the handler has read
    down,     \* on the way to the reader: chunk numbers, 0 for speech
    heard,    \* the chunks whose transcripts reached the sink
    lost,     \* the network has failed
    cut,      \* how much of `wire` had arrived when it did
    age,      \* what was under way at the last tick (Ages)
    drainRan, \* ticks the handler has waited for the last transcripts
    graceRan  \* ticks the phone has waited for the server to close

Phone  == INSTANCE SttLink
Server == INSTANCE CallServer WITH Conns <- {Conn}, Calls <- {CallId}

pvars == <<main, ws, conn, boxed, outbox, unfinished, pump, hand, snd, wire,
           offered, dropped, sent, late, reader, reply>>
srvrs == <<hpc, sock, call, open, sockets, pending, drained, fired, gaveUp,
           queue, ready, wpc, item, owner, final, fate, made, speaks, stopping>>
links == <<rd, down, heard, lost, cut>>
clock == <<age, drainRan, graceRan>>
vars  == <<pvars, srvrs, links, clock>>

Speech == 0
At     == hpc[Conn]          \* where the handler is
Open   == sock[Conn]         \* its side of the connection

(*   up, down  messages not read yet     close  a close that is not noticed  *)
Ages == [up : Nat, down : Nat, close : BOOLEAN]
OneLess(n) == IF n > 0 THEN n - 1 ELSE 0

Init == /\ Phone!Init /\ Server!Init
        /\ rd = 0 /\ down = <<>> /\ heard = <<>> /\ lost = FALSE /\ cut = 0
        /\ age = [up |-> 0, down |-> 0, close |-> FALSE]
        /\ drainRan = 0 /\ graceRan = 0

-----------------------------------------------------------------------------
(* The network.                                                             *)
Arrived == IF lost THEN cut ELSE Len(wire)

LinkLost ==
    /\ conn = "open" /\ ~lost
    /\ lost' = TRUE
    /\ cut' \in rd..Len(wire)
    /\ \E n \in 0..Len(down) : down' = SubSeq(down, 1, n)
    /\ UNCHANGED <<pvars, srvrs, rd, heard, clock>>

(* connect(): the handshake is the handler's beginning.                     *)
Connects ==
    /\ Phone!Connected /\ Server!Accept(Conn)
    /\ UNCHANGED <<links, clock>>

(* A side learns that the connection is closed.  The phone's loop takes up    *)
(* the new reader before it looks at the network again.                      *)
PhoneLearns ==
    /\ Phone!PeerCloses /\ reader # "created"
    /\ lost \/ Open = "closed"
    /\ UNCHANGED <<srvrs, links, clock>>
ServerLearns ==
    /\ Server!SocketCloses(Conn)
    /\ lost \/ conn = "closed" \/ stopping = "closing"
    /\ UNCHANGED <<pvars, links, clock>>

-----------------------------------------------------------------------------
(* The phone machine.  A send fails only on a closed connection.            *)
FailsOnClosed == ws' = ws \/ conn = "closed"

Speaking(r) == Phone!SpeakStarts(r) \/ (Phone!SpeakSent(r) /\ FailsOnClosed)

PhoneOwn ==
    /\ \/ (Phone!StartPump \/ Phone!EndSent) /\ FailsOnClosed
       \/ Phone!DialFails \/ Phone!Hangup \/ Phone!Flushed \/ Phone!GraceOver \/ Phone!Closed
       \/ Phone!Pump \/ Phone!ReaderStarts \/ Phone!SpeechPlayed
       \/ \E w \in Phone!Writers : Phone!GetsLock(w)
       \/ \E r \in Replies : Speaking(r)
    /\ UNCHANGED <<srvrs, links, clock>>

CallerSpeaks == Phone!SendAudio /\ UNCHANGED <<srvrs, links, clock>>

(* The reader takes the next message.                                       *)
Takes == /\ reader = "recv" /\ down # <<>> /\ down' = Tail(down)
         /\ age' = [age EXCEPT !.down = OneLess(@)]
         /\ UNCHANGED <<srvrs, rd, lost, cut, drainRan, graceRan>>

HearsSpeech == Takes /\ Head(down) = Speech /\ Phone!SpeechArrives /\ UNCHANGED heard

(* A transcript; the responder may answer it, and the sink may raise.       *)
HearsText ==
    /\ Takes /\ Head(down) # Speech /\ heard' = Append(heard, Head(down))
    /\ \/ Phone!TranscriptArrives
       \/ UNCHANGED pvars
       \/ Phone!ReaderEnds /\ reader' = "raised"

ReaderEnds ==
    /\ down = <<>> /\ Phone!ReaderEnds /\ reader' = "closed"
    /\ UNCHANGED <<srvrs, links, clock>>

(* Mutant of GraceTimeout: the grace is no longer than the drain.            *)
GraceTimeoutEarly ==
    /\ graceRan >= Drain /\ Phone!GraceTimeout
    /\ UNCHANGED <<srvrs, links, clock>>

GraceTimeout ==
    /\ graceRan = Grace /\ Phone!GraceTimeout
    /\ UNCHANGED <<srvrs, links, clock>>

-----------------------------------------------------------------------------
(* The STT machine: the handler reads the next message.                     *)
Message == wire[rd + 1]

Reads ==
    /\ rd < Arrived /\ Server!Resumes(Conn)
    /\ \/ Message.kind = "start" /\ Server!CallStart(Conn)
       \/ /\ Message.kind = "audio"
          /\ \/ Server!AudioOpens(Conn) \/ Server!AudioCloses(Conn)
             \/ UNCHANGED srvrs
       \/ Message.kind = "speak" /\ Server!QueueSpeech(Conn)
       \/ Message.kind = "end" /\ Server!CallEnd(Conn)
    /\ rd' = rd + 1 /\ age' = [age EXCEPT !.up = OneLess(@)]
    /\ UNCHANGED <<pvars, down, heard, lost, cut, drainRan, graceRan>>

(* The loop runs a callback; a send on an open connection is on its way.     *)
RunsCallback ==
    /\ Server!RunCallback
    /\ down' = IF Head(ready).kind = "send" /\ Open = "open" /\ ~lost
               THEN Append(down, Head(ready).n) ELSE down
    /\ UNCHANGED <<pvars, rd, heard, lost, cut, clock>>

ServerOwn ==
    /\ \/ Server!MidCall(Conn) \/ Server!WatchIdle(Conn) \/ Server!EndOfStream(Conn)
       \/ Server!WorkerStep
    /\ UNCHANGED <<pvars, links, clock>>

DrainTimeout ==
    /\ drainRan = Drain /\ Server!DrainTimeout(Conn)
    /\ UNCHANGED <<pvars, links, clock>>

-----------------------------------------------------------------------------
(* Time passes when nobody has anything to do at once.                      *)
PhoneIdle ==
    /\ main \in {"dial", "loop", "grace", "done"}
    /\ main = "grace" => /\ graceRan < Grace
                         /\ reader \in {"recv", "playing"}
    /\ reader # "created"
    /\ main # "loop" => reader # "playing"
    /\ conn = "closed" /\ down = <<>> => reader # "recv"
    /\ reader = "recv" => age.down = 0
    /\ conn = "open" => ~age.close

ServerIdle ==
    /\ At \in {"new", "recv", "wait", "closed"} /\ ready = <<>>
    /\ At = "wait" => drainRan < Drain
    /\ At = "recv" => /\ Open = "open"
                      /\ ~lost => age.up = 0
    /\ Open = "open" => /\ ~age.close /\ stopping # "closing"

Tick ==
    /\ PhoneIdle /\ ServerIdle
    /\ age' = [up |-> Len(wire) - rd, down |-> Len(down),
               close |-> ~lost /\ {Open, conn} = {"open", "closed"}]
    /\ graceRan' = IF main = "grace" THEN graceRan + 1 ELSE graceRan
    /\ drainRan' = IF At = "wait" THEN drainRan + 1 ELSE drainRan
    /\ clock' # clock
    /\ UNCHANGED <<pvars, srvrs, links>>

(* The call is over on both machines: the only place where nothing happens.  *)
Finished ==
    /\ main = "done" /\ conn # "open" /\ At \in {"new", "closed"}
    /\ UNCHANGED vars

Next == \/ LinkLost \/ Connects \/ PhoneLearns \/ ServerLearns
        \/ PhoneOwn \/ CallerSpeaks \/ HearsSpeech \/ HearsText \/ ReaderEnds
        \/ GraceTimeout \/ Reads \/ RunsCallback \/ ServerOwn \/ DrainTimeout
        \/ Tick \/ Finished

Spec == Init /\ [][Next]_vars

-----------------------------------------------------------------------------
TalkingAt == {"dial", "start", "loop"}
HungUpAt  == {"flush", "announce", "grace"}
Over      == main \in {"closing", "done"}

(* server.py:102-104, phone/README.md: "so that side wins the race".  While   *)
(* the network holds, it is the server that closes the connection: the        *)
(* phone's grace does not run out, unless the phone's own sink failed.        *)
ServerClosesFirst == main = "closing" /\ conn = "open" => lost \/ reader = "raised"

(* server.py:98-104, session.py:40-44.  Unless the network or the sink failed *)
(* the phone leaves a call having heard every transcript that was sent, and   *)
(* the server has read all there was to read; what is unfinished was given    *)
(* up by the drain timeout.  (A send scheduled but not done is the race that  *)
(* HeldUntilReturned of CallServer is about.)                                 *)
LastWordsHeard ==
    Over /\ ~lost /\ reader # "raised" =>
        /\ \A i \in rd + 1 .. Len(wire) : wire[i].kind = "speak"
        /\ \A x \in 1..made :
              /\ fate[x] = "sent" => x \in Range(heard)
              /\ fate[x] \in Server!Unfinished => CallId \in gaveUp

(* What the phone sees of it all.                                            *)
Seen == INSTANCE Conversation
            WITH phase <- IF main \in TalkingAt THEN "talking"
                          ELSE IF main \in HungUpAt THEN "hungup" ELSE "over",
                 said <- made

ImplementsConversation == Seen!Spec

=============================================================================
