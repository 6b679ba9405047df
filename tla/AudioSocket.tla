----------------------------- MODULE AudioSocket -----------------------------
(***************************************************************************)
(* audiosocket.Call: one call between Asterisk and the phone gateway.  One   *)
(* task reads (on_connect, then the handler's recv loop), one plays replies  *)
(* (receive_transcripts awaits send for each); they share `_ended` and the   *)
(* connection.                                                              *)
(*                                                                         *)
(* Inbound, a frame is its number and its kind, and may come in two pieces.  *)
(* Outbound, time passes in ticks and a frame is `Frame` ticks of sound; the *)
(* deadlines of send are kept relative to the present, and the loop may be   *)
(* late.  The read timeout may fire at any moment of a read.                *)
(***************************************************************************)
EXTENDS Integers, Sequences

CONSTANTS
    Frame,      \* FRAME_SECONDS in ticks
    MaxFrames,  \* bound: frames Asterisk sends in one call
    MaxReply,   \* bound: frames of one reply
    MaxLate     \* bound: ticks by which the loop or a full socket delays send

ASSUME FrameAssumption == Frame \in Nat \ {0}
ASSUME LimitsAssumption == MaxFrames \in Nat /\ MaxReply \in Nat /\ MaxLate \in Nat

(* "item" is what a handler gets to see, sound or a digit; "other" is a kind *)
(* that is not known here.                                                  *)
Kinds == {"uuid", "item", "hangup", "error", "other"}

VARIABLES
    kinds,   \* the frames Asterisk has sent, the last one perhaps in part
    half,    \* only the header of the last one is here
    peer,    \* Asterisk's end: "up", "eof", "reset"
    taken,   \* frames the reading task has consumed
    rpc,     \* where the reading task is
    pushed,  \* _pushback: a frame's number, or 0
    got,     \* history: the frames recv has returned
    ended,   \* _ended
    spc,     \* where send is
    left,    \* frames of the reply still to be written
    due,     \* send's `deadline`, from now
    lead,    \* _next_frame_at, from now; a time that has passed counts as 0
    backlog, \* ticks of sound Asterisk has been sent and has not played
    lag      \* history: the latest a frame was written after its deadline

inbound  == <<kinds, half, peer>>
reading  == <<taken, rpc, pushed, got>>
playing  == <<spc, left, due, lead, lag>>
vars == <<kinds, half, peer, taken, rpc, pushed, got, ended,
          spc, left, due, lead, backlog, lag>>

(*   ready  reading in ready()      read   reading in recv()                 *)
(*   busy   the handler's own code  over   recv() gave None or raised        *)
ReadPC == {"ready", "read", "busy", "over", "closed"}
(*   idle   no reply to play        sleep  until the frame is due            *)
(*   drain  in drain()              off    the task was cancelled            *)
SendPC == {"idle", "sleep", "drain", "off"}

Later(a, b) == IF a >= b THEN a ELSE b

Init == /\ kinds = <<>> /\ half = FALSE /\ peer = "up"
        /\ taken = 0 /\ rpc = "ready" /\ pushed = 0 /\ got = <<>>
        /\ ended = FALSE
        /\ spc = "idle" /\ left = 0 /\ due = 0 /\ lead = 0
        /\ backlog = 0 /\ lag = 0

-----------------------------------------------------------------------------
(* Asterisk, or the network in front of it.                                 *)
FrameArrives ==
    /\ peer = "up" /\ ~half /\ Len(kinds) < MaxFrames
    /\ \E kind \in Kinds, part \in BOOLEAN :
          kinds' = Append(kinds, kind) /\ half' = part
    /\ UNCHANGED <<peer, reading, ended, playing, backlog>>

RestArrives ==
    /\ peer = "up" /\ half /\ half' = FALSE
    /\ UNCHANGED <<kinds, peer, reading, ended, playing, backlog>>

PeerGoes ==
    /\ peer = "up" /\ peer' \in {"eof", "reset"}
    /\ UNCHANGED <<kinds, half, reading, ended, playing, backlog>>

-----------------------------------------------------------------------------
(* A whole frame is at hand.  After a reset the stream reader raises, even   *)
(* with bytes in its buffer.                                                *)
Complete == Len(kinds) - (IF half THEN 1 ELSE 0)
Readable == peer # "reset" /\ taken < Complete

(* _recv returns item n: recv hands it to the handler, ready keeps it.       *)
Yields(n) ==
    /\ IF rpc = "ready" THEN pushed' = n /\ UNCHANGED got
                        ELSE got' = Append(got, n) /\ UNCHANGED pushed
    /\ rpc' = "busy"

(* ... or nothing: the handler starts all the same, its recv loop ends.      *)
YieldsNone ==
    /\ rpc' = IF rpc = "ready" THEN "busy" ELSE "over"
    /\ UNCHANGED <<pushed, got>>

(* One turn of the loop in _recv: `while not self._ended` comes round only   *)
(* after a frame that is no content.                                        *)
TakeFrame ==
    /\ rpc \in {"ready", "read"} /\ Readable
    /\ taken' = taken + 1
    /\ LET n == taken + 1
           kind == kinds[n]
           again == IF ended THEN YieldsNone ELSE UNCHANGED <<rpc, pushed, got>>
       IN \/ kind = "item"   /\ Yields(n) /\ UNCHANGED ended
          \/ kind = "uuid"   /\ UNCHANGED ended
                             /\ IF rpc = "ready" THEN YieldsNone ELSE again
          \/ kind = "other"  /\ again /\ UNCHANGED ended
          \/ kind = "hangup" /\ YieldsNone /\ ended' = TRUE
          \/ kind = "error"  /\ rpc' = "over" /\ ended' = TRUE /\ UNCHANGED <<pushed, got>>
    /\ UNCHANGED <<inbound, playing, backlog>>

(* IncompleteReadError and ConnectionError.                                 *)
ReadFails ==
    /\ rpc \in {"ready", "read"} /\ peer # "up" /\ ~Readable
    /\ ended' = TRUE /\ YieldsNone
    /\ UNCHANGED <<inbound, taken, playing, backlog>>

(* Mutant of ReadTimeout: the deadline covers the header only.              *)
ReadTimeoutHeader ==
    /\ rpc \in {"ready", "read"} /\ ~(half /\ taken = Complete)
    /\ ended' = TRUE /\ YieldsNone
    /\ UNCHANGED <<inbound, taken, playing, backlog>>

(* READ_TIMEOUT_SECONDS, for the header and its payload together.           *)
ReadTimeout ==
    /\ rpc \in {"ready", "read"}
    /\ ended' = TRUE /\ YieldsNone
    /\ UNCHANGED <<inbound, taken, playing, backlog>>

(* Mutant of Recv: what ready() pushed back is not forgotten.               *)
RecvTwice ==
    /\ rpc = "busy"
    /\ IF pushed # 0
       THEN got' = Append(got, pushed) /\ UNCHANGED <<rpc, pushed>>
       ELSE /\ rpc' = IF ended THEN "over" ELSE "read"
            /\ UNCHANGED <<pushed, got>>
    /\ UNCHANGED <<inbound, taken, ended, playing, backlog>>

(* The handler asks for the next item: first what ready() pushed back.       *)
Recv ==
    /\ rpc = "busy"
    /\ IF pushed # 0
       THEN got' = Append(got, pushed) /\ pushed' = 0 /\ UNCHANGED rpc
       ELSE /\ rpc' = IF ended THEN "over" ELSE "read"
            /\ UNCHANGED <<pushed, got>>
    /\ UNCHANGED <<inbound, taken, ended, playing, backlog>>

(* hangup(), by the handler.                                                *)
Hangup ==
    /\ rpc \in {"busy", "read"} /\ ~ended /\ ended' = TRUE
    /\ UNCHANGED <<inbound, reading, playing, backlog>>

(* The handler has returned (it cancels a reply that is still being played): *)
(* close(), from __aexit__.                                                 *)
Close ==
    /\ rpc = "over" /\ rpc' = "closed"
    /\ ended' = TRUE /\ spc' = "off"
    /\ UNCHANGED <<inbound, taken, pushed, got, left, due, lead,
                   backlog, lag>>

-----------------------------------------------------------------------------
(* Mutant of Turn: `_ended` is looked at only when send begins.             *)
TurnDeaf(d, n) ==
    \/ n = 0 /\ spc' = "idle" /\ lead' = Later(d, 0) /\ UNCHANGED <<left, due, backlog, lag>>
    \/ n > 0 /\ d > 0 /\ spc' = "sleep" /\ due' = d /\ left' = n
       /\ UNCHANGED <<lead, backlog, lag>>
    \/ /\ n > 0 /\ d <= 0
       /\ spc' = "drain" /\ left' = n - 1 /\ due' = d + Frame
       /\ backlog' = backlog + Frame /\ lag' = Later(lag, 0 - d)
       /\ UNCHANGED lead

(* Mutant of Turn: the end of a reply is put off by a frame.                *)
TurnPadded(d, n) ==
    \/ n = 0 /\ spc' = "idle" /\ lead' = Later(d + Frame, 0) /\ UNCHANGED <<left, due, backlog, lag>>
    \/ n > 0 /\ d > 0 /\ spc' = "sleep" /\ due' = d /\ left' = n
       /\ UNCHANGED <<lead, backlog, lag>>
    \/ n > 0 /\ d <= 0 /\ ended' /\ spc' = "idle" /\ UNCHANGED <<left, due, lead, backlog, lag>>
    \/ /\ n > 0 /\ d <= 0 /\ ~ended'
       /\ spc' = "drain" /\ left' = n - 1 /\ due' = d + Frame
       /\ backlog' = backlog + Frame /\ lag' = Later(lag, 0 - d)
       /\ UNCHANGED lead

(* One turn of the loop in send, up to its next await: n frames to go, the   *)
(* next one due in d ticks.                                                 *)
Turn(d, n) ==
    \/ n = 0 /\ spc' = "idle" /\ lead' = Later(d, 0) /\ UNCHANGED <<left, due, backlog, lag>>
    \/ n > 0 /\ d > 0 /\ spc' = "sleep" /\ due' = d /\ left' = n
       /\ UNCHANGED <<lead, backlog, lag>>
    \/ n > 0 /\ d <= 0 /\ ended' /\ spc' = "idle" /\ UNCHANGED <<left, due, lead, backlog, lag>>
    \/ /\ n > 0 /\ d <= 0 /\ ~ended'
       /\ spc' = "drain" /\ left' = n - 1 /\ due' = d + Frame
       /\ backlog' = backlog + Frame /\ lag' = Later(lag, 0 - d)
       /\ UNCHANGED lead

(* Mutant of SendBegins: every reply starts at once.                        *)
SendBeginsNow ==
    /\ spc = "idle" /\ rpc \notin {"ready", "closed"} /\ ~ended
    /\ UNCHANGED <<inbound, reading, ended>>
    /\ \E n \in 1..MaxReply : Turn(0, n)

SendBegins ==
    /\ spc = "idle" /\ rpc \notin {"ready", "closed"} /\ ~ended
    /\ UNCHANGED <<inbound, reading, ended>>
    /\ \E n \in 1..MaxReply : Turn(lead, n)

Wakes ==
    /\ spc = "sleep" /\ due <= 0
    /\ UNCHANGED <<inbound, reading, ended>>
    /\ Turn(due, left)

(* drain() returns, or finds the connection lost.                           *)
Drained ==
    /\ spc = "drain"
    /\ \/ UNCHANGED ended
       \/ peer # "up" /\ ended' = TRUE
    /\ Turn(due, left)
    /\ UNCHANGED <<inbound, reading>>

(* Time passes, Asterisk plays.  A frame that is due is at most MaxLate late.*)
Tick ==
    /\ spc \in {"sleep", "drain"} => due > 0 - MaxLate
    /\ due' = IF spc \in {"sleep", "drain"} THEN due - 1 ELSE due
    /\ lead' = Later(lead - 1, 0)
    /\ backlog' = Later(backlog - 1, 0)
    /\ UNCHANGED <<inbound, reading, ended, spc, left, lag>>

Peer   == FrameArrives \/ RestArrives \/ PeerGoes
Reader == TakeFrame \/ ReadFails \/ ReadTimeout \/ Recv \/ Close
Player == SendBegins \/ Wakes \/ Drained

Next == Peer \/ Reader \/ Hangup \/ Player \/ Tick

Spec == Init /\ [][Next]_vars

(* The handler asks for the next item and returns after the last one, and    *)
(* the read timeout fires.                                                  *)
CallSpec == Spec /\ WF_vars(TakeFrame \/ ReadFails) /\ WF_vars(ReadTimeout)
                 /\ WF_vars(Recv) /\ WF_vars(Close)

-----------------------------------------------------------------------------
TypeOK ==
    /\ kinds \in Seq(Kinds) /\ Len(kinds) <= MaxFrames
    /\ half \in BOOLEAN /\ (half => kinds # <<>>)
    /\ peer \in {"up", "eof", "reset"}
    /\ taken \in 0..Complete /\ rpc \in ReadPC
    /\ pushed \in 0..taken /\ got \in Seq(1..MaxFrames)
    /\ ended \in BOOLEAN
    /\ spc \in SendPC /\ left \in 0..MaxReply
    /\ due \in Int /\ due <= Frame /\ 0 - MaxLate <= due
    /\ lead \in 0..Frame
    /\ backlog \in Nat /\ lag \in 0..MaxLate

(* What is content among the frames consumed.                               *)
Heard == {n \in 1..taken : kinds[n] = "item"}
Returned == {got[i] : i \in DOMAIN got}

(* audiosocket.py:143-160, :195-199.  Between them, ready() and recv() give   *)
(* the handler every piece of content that was read, once and in order,      *)
(* whether or not the UUID came first.                                       *)
EachOnce ==
    /\ \A i, j \in DOMAIN got : i < j => got[i] < got[j]
    /\ Returned \cup (IF pushed = 0 THEN {} ELSE {pushed}) = Heard
    /\ pushed \notin Returned

(* audiosocket.py:229-245.  Asterisk never has to buffer more than one frame *)
(* and what the playback was late by, over any sequence of replies.          *)
BufferBounded == backlog <= Frame + lag

(* audiosocket.py:252.  No sound is written to a call that has ended, even   *)
(* by a reply that was asleep when it did.                                   *)
SilentAfterEnd == [][backlog' > backlog => ~ended]_vars

(* audiosocket.py:168-175.  Every call ends, even when Asterisk falls silent  *)
(* between a header and its payload.                                         *)
CallEnds == <>(rpc = "closed")
=============================================================================
