-------------------------- MODULE AudioSocketProofs --------------------------
(***************************************************************************)
(* What TLAPS proves about AudioSocket for every frame length, every number  *)
(* of frames and every lateness of the loop.                                *)
(***************************************************************************)
EXTENDS AudioSocket, TLAPS

(* When the next frame may be written, from now.                            *)
NextDue == IF spc \in {"sleep", "drain"} THEN due ELSE lead

(* What Asterisk has in hand was due, or is late by no more than lag.       *)
OnSchedule ==
    /\ ~ended => backlog <= Later(0, NextDue + lag)
    /\ spc = "off" => ended

(* ready() comes before any recv(), and leaves at most one item behind.     *)
ReadyFirst ==
    /\ rpc \in {"ready", "read"} => pushed = 0
    /\ rpc = "ready" \/ pushed # 0 => got = <<>>

IInv == TypeOK /\ BufferBounded /\ OnSchedule /\ EachOnce /\ ReadyFirst

-----------------------------------------------------------------------------
(* Sequences: what Append does to the elements.                             *)
LEMMA AppendElements ==
    ASSUME NEW S, NEW s \in Seq(S), NEW e \in S
    PROVE  /\ Append(s, e) \in Seq(S)
           /\ DOMAIN Append(s, e) = DOMAIN s \cup {Len(s) + 1}
           /\ \A i \in DOMAIN s : Append(s, e)[i] = s[i] /\ i \in Nat /\ i < Len(s) + 1
           /\ Append(s, e)[Len(s) + 1] = e
           /\ Len(Append(s, e)) = Len(s) + 1 /\ Len(s) \in Nat
OBVIOUS

-----------------------------------------------------------------------------
(* Playback.                                                                *)
Playback ==
    /\ spc \in SendPC /\ left \in 0..MaxReply
    /\ due \in Int /\ due <= Frame /\ 0 - MaxLate <= due
    /\ lead \in 0..Frame
    /\ backlog \in Nat /\ lag \in 0..MaxLate

(* audiosocket.py:249-259.  A turn of send's loop keeps the schedule.        *)
LEMMA TurnKeeps ==
    ASSUME Playback, BufferBounded, ended' \in BOOLEAN, ended => ended', spc # "off",
           NEW d \in Int, NEW n \in 0..MaxReply, d <= Frame, 0 - MaxLate <= d,
           ~ended => backlog <= Later(0, d + lag),
           Turn(d, n)
    PROVE  Playback' /\ BufferBounded' /\ OnSchedule'
<1> USE FrameAssumption, LimitsAssumption
<1>1. /\ left \in 0..MaxReply /\ due \in Int /\ due <= Frame /\ 0 - MaxLate <= due
      /\ lead \in 0..Frame /\ backlog \in Nat /\ lag \in 0..MaxLate
      /\ backlog <= Frame + lag
    BY DEF Playback, BufferBounded
<1>2. CASE /\ n = 0 /\ spc' = "idle" /\ lead' = Later(d, 0)
           /\ UNCHANGED <<left, due, backlog, lag>>
    BY <1>1, <1>2 DEF Playback, BufferBounded, OnSchedule, NextDue, Later, SendPC
<1>3. CASE /\ n > 0 /\ d > 0 /\ spc' = "sleep" /\ due' = d /\ left' = n
           /\ UNCHANGED <<lead, backlog, lag>>
    BY <1>1, <1>3 DEF Playback, BufferBounded, OnSchedule, NextDue, Later, SendPC
<1>4. CASE /\ n > 0 /\ d <= 0 /\ ended' /\ spc' = "idle"
           /\ UNCHANGED <<left, due, lead, backlog, lag>>
    BY <1>1, <1>4 DEF Playback, BufferBounded, OnSchedule, NextDue, Later, SendPC
<1>5. CASE /\ n > 0 /\ d <= 0 /\ ~ended'
           /\ spc' = "drain" /\ left' = n - 1 /\ due' = d + Frame
           /\ backlog' = backlog + Frame /\ lag' = Later(lag, 0 - d)
           /\ UNCHANGED lead
  <2>1. /\ lag' \in 0..MaxLate /\ lag <= lag' /\ 0 <= d + lag'
        /\ due' \in Int /\ due' <= Frame /\ 0 - MaxLate <= due'
        /\ left' \in 0..MaxReply /\ backlog' \in Nat
      BY <1>1, <1>5 DEF Later
  <2>2. backlog <= d + lag'
      BY <1>1, <1>5, <2>1 DEF Later
  <2>3. backlog' <= due' + lag' /\ backlog' <= Frame + lag'
      BY <1>1, <1>5, <2>1, <2>2
  <2> QED
      BY <1>1, <1>5, <2>1, <2>3 DEF Playback, BufferBounded, OnSchedule, NextDue, Later, SendPC
<1> QED
    BY <1>2, <1>3, <1>4, <1>5 DEF Turn

(* Every step keeps the schedule, and no step of the reading task touches it.*)
LEMMA PlaybackStep ==
    ASSUME IInv, [Next]_vars
    PROVE  Playback' /\ BufferBounded' /\ OnSchedule' /\ ended' \in BOOLEAN /\ (ended => ended')
<1> USE FrameAssumption, LimitsAssumption
<1>1. /\ Playback /\ BufferBounded /\ OnSchedule /\ ended \in BOOLEAN
    BY DEF IInv, TypeOK, Playback
<1>2. /\ left \in 0..MaxReply /\ due \in Int /\ due <= Frame /\ 0 - MaxLate <= due
      /\ lead \in 0..Frame /\ backlog \in Nat /\ lag \in 0..MaxLate /\ spc \in SendPC
      /\ backlog <= Frame + lag
    BY <1>1 DEF Playback, BufferBounded
<1>3. ASSUME UNCHANGED <<playing, backlog>>, ended' \in BOOLEAN, ended => ended'
      PROVE  Playback' /\ BufferBounded' /\ OnSchedule'
    BY <1>1, <1>3 DEF playing, Playback, BufferBounded, OnSchedule, NextDue
<1>4. CASE Peer \/ UNCHANGED vars
  <2>1. UNCHANGED <<playing, backlog, ended>>
      BY <1>4 DEF Peer, FrameArrives, RestArrives, PeerGoes, vars, playing
  <2> QED
      BY <1>1, <1>3, <2>1
<1>5. CASE TakeFrame \/ ReadFails \/ ReadTimeout \/ Recv \/ Hangup
  <2>1. UNCHANGED <<playing, backlog>>
      BY <1>5 DEF TakeFrame, ReadFails, ReadTimeout, Recv, Hangup
  <2>2. ended' \in BOOLEAN /\ (ended => ended')
      BY <1>1, <1>5 DEF TakeFrame, ReadFails, ReadTimeout, Recv, Hangup
  <2> QED
      BY <1>3, <2>1, <2>2
<1>6. CASE Close
    BY <1>1, <1>2, <1>6 DEF Close, Playback, BufferBounded, OnSchedule, NextDue, SendPC
<1>7. CASE SendBegins
  <2>1. PICK n \in 1..MaxReply : Turn(lead, n)
      BY <1>7 DEF SendBegins
  <2>2. spc = "idle" /\ ended' = ended
      BY <1>7 DEF SendBegins
  <2>3. ~ended => backlog <= Later(0, lead + lag)
      BY <1>1, <2>2 DEF OnSchedule, NextDue
  <2>4. n \in 0..MaxReply /\ lead \in Int /\ lead <= Frame /\ 0 - MaxLate <= lead
      BY <1>2
  <2> QED
      BY <1>1, <2>1, <2>2, <2>3, <2>4, TurnKeeps
<1>8. CASE Wakes \/ Drained
  <2>1. Turn(due, left) /\ spc \in {"sleep", "drain"}
      BY <1>8 DEF Wakes, Drained
  <2>2. ended' \in BOOLEAN /\ (ended => ended')
      BY <1>1, <1>8 DEF Wakes, Drained
  <2>3. ~ended => backlog <= Later(0, due + lag)
      BY <1>1, <2>1 DEF OnSchedule, NextDue
  <2>4. spc # "off"
      BY <2>1
  <2> QED
      BY <1>1, <1>2, <2>1, <2>2, <2>3, <2>4, TurnKeeps
<1>9. CASE Tick
  <2>1. /\ spc' = spc /\ left' = left /\ lag' = lag /\ ended' = ended
        /\ lead' = Later(lead - 1, 0) /\ backlog' = Later(backlog - 1, 0)
        /\ due' = IF spc \in {"sleep", "drain"} THEN due - 1 ELSE due
        /\ spc \in {"sleep", "drain"} => due > 0 - MaxLate
      BY <1>9 DEF Tick
  <2>2. Playback' /\ BufferBounded'
      BY <1>2, <2>1 DEF Playback, BufferBounded, Later
  <2>3. CASE spc \in {"sleep", "drain"}
    <3>1. NextDue = due /\ NextDue' = due - 1 /\ spc' # "off"
        BY <2>1, <2>3 DEF NextDue
    <3>2. ~ended => backlog <= Later(0, due + lag)
        BY <1>1, <3>1 DEF OnSchedule
    <3>3. ~ended => Later(backlog - 1, 0) <= Later(0, due - 1 + lag)
        BY <1>2, <3>2 DEF Later
    <3>4. ~ended' => backlog' <= Later(0, NextDue' + lag')
        BY <2>1, <3>1, <3>3
    <3>5. spc' = "off" => ended'
        BY <1>1, <2>1 DEF OnSchedule
    <3> QED
        BY <1>1, <2>1, <2>2, <3>4, <3>5 DEF OnSchedule
  <2>4. CASE spc \notin {"sleep", "drain"}
    <3>1. NextDue = lead /\ NextDue' = Later(lead - 1, 0)
        BY <2>1, <2>4 DEF NextDue
    <3>2. ~ended => backlog <= Later(0, lead + lag)
        BY <1>1, <3>1 DEF OnSchedule
    <3>3. ~ended => Later(backlog - 1, 0) <= Later(0, Later(lead - 1, 0) + lag)
        BY <1>2, <3>2 DEF Later
    <3>4. ~ended' => backlog' <= Later(0, NextDue' + lag')
        BY <2>1, <3>1, <3>3
    <3>5. spc' = "off" => ended'
        BY <1>1, <2>1 DEF OnSchedule
    <3> QED
        BY <1>1, <2>1, <2>2, <3>4, <3>5 DEF OnSchedule
  <2> QED
      BY <1>1, <2>1, <2>2, <2>3, <2>4
<1> QED
    BY <1>4, <1>5, <1>6, <1>7, <1>8, <1>9 DEF Next, Reader, Player

-----------------------------------------------------------------------------
(* What has been read and what has been returned.                           *)
Reading ==
    /\ kinds \in Seq(Kinds) /\ Len(kinds) <= MaxFrames
    /\ half \in BOOLEAN /\ (half => kinds # <<>>)
    /\ peer \in {"up", "eof", "reset"}
    /\ taken \in 0..Complete /\ rpc \in ReadPC
    /\ pushed \in 0..taken /\ got \in Seq(1..MaxFrames)

Kept == Reading /\ EachOnce /\ ReadyFirst

(* Frames that arrive change nothing about those that have been consumed.   *)
LEMMA PeerKeeps ==
    ASSUME Kept, Peer
    PROVE  Kept'
<1> USE LimitsAssumption
<1>1. UNCHANGED <<taken, rpc, pushed, got>>
    BY DEF Peer, FrameArrives, RestArrives, PeerGoes, reading
<1>2. /\ kinds \in Seq(Kinds) /\ Len(kinds) \in Nat /\ Len(kinds) <= MaxFrames
      /\ half \in BOOLEAN /\ taken \in 0..Complete /\ taken \in 0..Len(kinds)
    BY DEF Kept, Reading, Complete
<1>3. /\ kinds' \in Seq(Kinds) /\ Len(kinds') <= MaxFrames
      /\ half' \in BOOLEAN /\ (half' => kinds' # <<>>)
      /\ taken \in 0..Complete'
      /\ \A n \in 1..taken : kinds'[n] = kinds[n]
  <2>1. CASE FrameArrives
    <3>1. PICK kind \in Kinds, part \in BOOLEAN : kinds' = Append(kinds, kind) /\ half' = part
        BY <2>1 DEF FrameArrives
    <3>2. ~half /\ Len(kinds) < MaxFrames
        BY <2>1 DEF FrameArrives
    <3>3. /\ kinds' \in Seq(Kinds) /\ Len(kinds') = Len(kinds) + 1
          /\ \A i \in DOMAIN kinds : kinds'[i] = kinds[i]
        BY <1>2, <3>1, AppendElements
    <3>4. kinds' # <<>>
        BY <1>2, <3>3
    <3> QED
        BY <1>2, <3>1, <3>2, <3>3, <3>4 DEF Complete
  <2>2. CASE RestArrives
    <3>1. kinds' = kinds /\ half' = FALSE /\ Complete' = Len(kinds)
        BY <1>2, <2>2 DEF RestArrives, Complete
    <3> QED
        BY <1>2, <3>1
  <2>3. CASE PeerGoes
    <3>1. kinds' = kinds /\ half' = half /\ Complete' = Complete
        BY <2>3 DEF PeerGoes, Complete
    <3> QED
        BY <1>2, <3>1 DEF Kept, Reading
  <2> QED
      BY <2>1, <2>2, <2>3 DEF Peer
<1>4. Heard' = Heard
    BY <1>1, <1>2, <1>3 DEF Heard
<1>5. peer' \in {"up", "eof", "reset"}
    BY DEF Peer, FrameArrives, RestArrives, PeerGoes, Kept, Reading
<1>6. Reading'
    BY <1>1, <1>3, <1>5 DEF Kept, Reading
<1>7. EachOnce' /\ ReadyFirst'
    BY <1>1, <1>4 DEF Kept, EachOnce, ReadyFirst, Returned
<1> QED
    BY <1>6, <1>7 DEF Kept

(* Returning one more item keeps what is returned in order.                 *)
LEMMA ReturnOne ==
    ASSUME got \in Seq(1..MaxFrames), NEW n \in 1..MaxFrames,
           \A i, j \in DOMAIN got : i < j => got[i] < got[j],
           \A m \in Returned : m < n,
           got' = Append(got, n)
    PROVE  /\ got' \in Seq(1..MaxFrames)
           /\ \A i, j \in DOMAIN got' : i < j => got'[i] < got'[j]
           /\ Returned' = Returned \cup {n}
<1>1. /\ got' \in Seq(1..MaxFrames) /\ Len(got) \in Nat
      /\ DOMAIN got' = DOMAIN got \cup {Len(got) + 1}
      /\ \A i \in DOMAIN got : got'[i] = got[i] /\ i \in Nat /\ i < Len(got) + 1
      /\ got'[Len(got) + 1] = n
    BY AppendElements
<1>2. ASSUME NEW i \in DOMAIN got', NEW j \in DOMAIN got', i < j
      PROVE  got'[i] < got'[j]
  <2>1. CASE i = Len(got) + 1
      BY <1>1, <1>2, <2>1
  <2>2. CASE i \in DOMAIN got /\ j \in DOMAIN got
      BY <1>1, <1>2, <2>2
  <2>3. CASE i \in DOMAIN got /\ j = Len(got) + 1
    <3>1. got[i] \in Returned
        BY <2>3 DEF Returned
    <3> QED
        BY <1>1, <2>3, <3>1
  <2> QED
      BY <1>1, <2>1, <2>2, <2>3
<1>3. Returned' = Returned \cup {n}
    BY <1>1 DEF Returned
<1> QED
    BY <1>1, <1>2, <1>3

(* audiosocket.py:186-217.  A frame is consumed: an item goes to the handler *)
(* or is kept for it, anything else leaves both alone.                      *)
LEMMA TakeKeeps ==
    ASSUME Kept, TakeFrame
    PROVE  Kept'
<1> USE LimitsAssumption
<1> DEFINE n == taken + 1
<1>1. /\ kinds \in Seq(Kinds) /\ Len(kinds) \in Nat /\ Len(kinds) <= MaxFrames
      /\ half \in BOOLEAN /\ taken \in 0..Complete /\ Complete \in Int /\ Complete <= Len(kinds)
      /\ pushed \in 0..taken /\ got \in Seq(1..MaxFrames)
    BY DEF Kept, Reading, Complete
<1>2. /\ rpc \in {"ready", "read"} /\ taken < Complete /\ taken' = n
      /\ UNCHANGED <<kinds, half, peer>>
    BY DEF TakeFrame, Readable, inbound
<1>3. n \in 1..MaxFrames /\ n \in 0..Complete' /\ Complete' = Complete
    BY <1>1, <1>2 DEF Complete
<1>4. /\ \A i, j \in DOMAIN got : i < j => got[i] < got[j]
      /\ Returned \cup (IF pushed = 0 THEN {} ELSE {pushed}) = Heard
      /\ pushed \notin Returned
    BY DEF Kept, EachOnce
<1>5. \A m \in Returned : m \in 1..taken
    BY <1>1, <1>4 DEF Heard
<1>6. Heard' = IF kinds[n] = "item" THEN Heard \cup {n} ELSE Heard
    BY <1>1, <1>2 DEF Heard
<1>7. rpc' \in {"busy", "over"} \/ rpc' = rpc
    BY DEF TakeFrame, Yields, YieldsNone, ReadPC
<1>8. CASE kinds[n] = "item"
  <2>1. Yields(n)
      BY <1>8 DEF TakeFrame
  <2>2. CASE rpc = "ready"
    <3>1. pushed' = n /\ got' = got /\ rpc' = "busy"
        BY <2>1, <2>2 DEF Yields
    <3>2. pushed = 0 /\ got = <<>>
        BY <2>2 DEF Kept, ReadyFirst
    <3>3. Returned' = Returned /\ Returned = {}
        BY <3>1, <3>2 DEF Returned
    <3>4. EachOnce' /\ ReadyFirst'
        BY <1>1, <1>3, <1>4, <1>6, <1>8, <3>1, <3>2, <3>3 DEF EachOnce, ReadyFirst
    <3>5. Reading'
        BY <1>1, <1>2, <1>3, <3>1 DEF Kept, Reading, ReadPC
    <3> QED
        BY <3>4, <3>5 DEF Kept
  <2>3. CASE rpc # "ready"
    <3>1. got' = Append(got, n) /\ pushed' = pushed /\ rpc' = "busy"
        BY <2>1, <2>3 DEF Yields
    <3>2. /\ got' \in Seq(1..MaxFrames)
          /\ \A i, j \in DOMAIN got' : i < j => got'[i] < got'[j]
          /\ Returned' = Returned \cup {n}
      <4>1. \A m \in Returned : m < n
          BY <1>1, <1>5
      <4> QED
          BY <1>1, <1>3, <1>4, <3>1, <4>1, ReturnOne
    <3>3. pushed = 0
      <4>1. rpc = "read"
          BY <1>2, <2>3
      <4> QED
          BY <4>1 DEF Kept, ReadyFirst
    <3>4. EachOnce' /\ ReadyFirst'
        BY <1>1, <1>3, <1>4, <1>6, <1>8, <3>1, <3>2, <3>3 DEF EachOnce, ReadyFirst
    <3>5. Reading'
        BY <1>1, <1>2, <1>3, <3>1, <3>2 DEF Kept, Reading, ReadPC
    <3> QED
        BY <3>4, <3>5 DEF Kept
  <2> QED
      BY <2>2, <2>3
<1>9. CASE kinds[n] # "item"
  <2>1. UNCHANGED <<pushed, got>>
      BY <1>9 DEF TakeFrame, YieldsNone
  <2>2. Returned' = Returned
      BY <2>1 DEF Returned
  <2>3. EachOnce'
      BY <1>4, <1>6, <1>9, <2>1, <2>2 DEF EachOnce
  <2>4. ReadyFirst'
      BY <1>2, <1>7, <2>1 DEF Kept, ReadyFirst
  <2>5. Reading'
      BY <1>1, <1>2, <1>3, <1>7, <2>1 DEF Kept, Reading, ReadPC
  <2> QED
      BY <2>3, <2>4, <2>5 DEF Kept
<1> QED
    BY <1>8, <1>9

(* The rest of the reading task: a read that fails or runs out of time, the  *)
(* pushed-back item, the end.                                               *)
LEMMA ReaderKeeps ==
    ASSUME Kept, ReadFails \/ ReadTimeout \/ Recv \/ Close
    PROVE  Kept'
<1>1. /\ kinds \in Seq(Kinds) /\ Len(kinds) <= MaxFrames /\ Len(kinds) \in Nat
      /\ taken \in 0..Complete /\ Complete <= Len(kinds) /\ Complete \in Int
      /\ pushed \in 0..taken /\ got \in Seq(1..MaxFrames) /\ rpc \in ReadPC
    BY DEF Kept, Reading, Complete
<1>2. UNCHANGED <<kinds, half, peer, taken>> /\ Heard' = Heard /\ Complete' = Complete
    BY DEF ReadFails, ReadTimeout, Recv, Close, inbound, Heard, Complete
<1>3. CASE UNCHANGED <<pushed, got>>
  <2>1. /\ rpc' \in {"busy", "over", "closed", "read"}
        /\ rpc' = "read" => pushed = 0
    <3>1. CASE ReadFails \/ ReadTimeout
        BY <3>1 DEF ReadFails, ReadTimeout, YieldsNone
    <3>2. CASE Recv
        BY <1>3, <3>2, AppendElements, <1>1 DEF Recv
    <3>3. CASE Close
        BY <3>3 DEF Close
    <3> QED
        BY <3>1, <3>2, <3>3
  <2>2. Reading'
      BY <1>1, <1>2, <1>3, <2>1 DEF Kept, Reading, ReadPC
  <2>3. EachOnce'
      BY <1>2, <1>3 DEF Kept, EachOnce, Returned
  <2>4. ReadyFirst'
      BY <1>3, <2>1 DEF Kept, ReadyFirst
  <2> QED
      BY <2>2, <2>3, <2>4 DEF Kept
<1>4. CASE Recv /\ pushed # 0
  <2>1. got' = Append(got, pushed) /\ pushed' = 0 /\ rpc' = "busy"
      BY <1>4 DEF Recv
  <2>2. got = <<>> /\ Returned = {}
      BY <1>4 DEF Kept, ReadyFirst, Returned
  <2>3. pushed \in 1..MaxFrames
      BY <1>1, <1>4, LimitsAssumption
  <2>4. /\ got' \in Seq(1..MaxFrames)
        /\ \A i, j \in DOMAIN got' : i < j => got'[i] < got'[j]
        /\ Returned' = Returned \cup {pushed}
      BY <1>1, <2>1, <2>2, <2>3, ReturnOne DEF Kept, EachOnce
  <2>5. EachOnce'
      BY <1>2, <1>4, <2>1, <2>2, <2>4, <2>3 DEF Kept, EachOnce
  <2>6. Reading'
      BY <1>1, <1>2, <2>1, <2>4 DEF Kept, Reading, ReadPC
  <2>7. ReadyFirst'
      BY <2>1 DEF ReadyFirst
  <2> QED
      BY <2>5, <2>6, <2>7 DEF Kept
<1> QED
    BY <1>3, <1>4 DEF ReadFails, ReadTimeout, Recv, Close, YieldsNone

LEMMA KeptStep ==
    ASSUME Kept, [Next]_vars
    PROVE  Kept'
<1>1. CASE UNCHANGED <<kinds, half, peer, taken, rpc, pushed, got>>
    BY <1>1 DEF Kept, Reading, Complete, EachOnce, Heard, Returned, ReadyFirst
<1>2. CASE Hangup \/ Player \/ Tick \/ UNCHANGED vars
    BY <1>1, <1>2 DEF Hangup, Player, SendBegins, Wakes, Drained, Tick, vars, inbound, reading
<1> QED
    BY <1>2, PeerKeeps, TakeKeeps, ReaderKeeps DEF Next, Reader

-----------------------------------------------------------------------------
LEMMA Initially == Init => IInv
<1> SUFFICES ASSUME Init PROVE IInv
    OBVIOUS
<1> USE FrameAssumption, LimitsAssumption
<1>1. /\ kinds = <<>> /\ half = FALSE /\ taken = 0 /\ got = <<>> /\ pushed = 0
      /\ rpc = "ready" /\ peer = "up" /\ ended = FALSE /\ spc = "idle" /\ left = 0
      /\ due = 0 /\ lead = 0 /\ backlog = 0 /\ lag = 0
    BY DEF Init
<1>2. Complete = 0
    BY <1>1 DEF Complete
<1>3. TypeOK
  <2>1. kinds \in Seq(Kinds) /\ Len(kinds) = 0 /\ got \in Seq(1..MaxFrames)
      BY <1>1
  <2>2. /\ left \in 0..MaxReply /\ due \in Int /\ due <= Frame /\ 0 - MaxLate <= due
        /\ lead \in 0..Frame /\ backlog \in Nat /\ lag \in 0..MaxLate
      BY <1>1
  <2>3. /\ peer \in {"up", "eof", "reset"} /\ taken \in 0..Complete
        /\ rpc \in ReadPC /\ pushed \in 0..taken /\ spc \in SendPC
      BY <1>1, <1>2 DEF ReadPC, SendPC
  <2>4. half \in BOOLEAN /\ ~half /\ ended \in BOOLEAN
      BY <1>1
  <2>5. Len(kinds) <= MaxFrames
      BY <2>1
  <2> QED
      BY <2>1, <2>2, <2>3, <2>4, <2>5 DEF TypeOK
<1>4. Heard = {} /\ Returned = {} /\ DOMAIN got = {}
    BY <1>1 DEF Heard, Returned
<1>5. EachOnce /\ ReadyFirst
    BY <1>1, <1>4 DEF EachOnce, ReadyFirst
<1>6. BufferBounded /\ OnSchedule
    BY <1>1 DEF BufferBounded, OnSchedule, NextDue, Later
<1> QED
    BY <1>3, <1>5, <1>6 DEF IInv

LEMMA Inductive == IInv /\ [Next]_vars => IInv'
<1> SUFFICES ASSUME IInv, [Next]_vars PROVE IInv'
    OBVIOUS
<1>1. Kept'
    BY KeptStep DEF IInv, TypeOK, Kept, Reading
<1>2. Playback' /\ BufferBounded' /\ OnSchedule' /\ ended' \in BOOLEAN
    BY PlaybackStep
<1>3. TypeOK'
    BY <1>1, <1>2 DEF Kept, Reading, Playback, TypeOK
<1> QED
    BY <1>1, <1>2, <1>3 DEF Kept, IInv

(* The inductive invariant holds.                                           *)
THEOREM Invariance == Spec => []IInv
<1> QED
    BY Initially, Inductive, PTL DEF Spec

(* Every variable keeps to its range: in particular no deadline runs ahead   *)
(* of the present by more than a frame.                                     *)
THEOREM TypeCorrect == Spec => []TypeOK
<1>1. IInv => TypeOK
    BY DEF IInv
<1> QED
    BY Invariance, <1>1, PTL

(* audiosocket.py:143-160, :195-199.  Every piece of content read is given   *)
(* to the handler once and in order.                                        *)
THEOREM EachOnceHolds == Spec => []EachOnce
<1>1. IInv => EachOnce
    BY DEF IInv
<1> QED
    BY Invariance, <1>1, PTL

(* audiosocket.py:229-245.  Asterisk buffers at most one frame and what the  *)
(* playback was late by.                                                    *)
THEOREM BufferBoundedHolds == Spec => []BufferBounded
<1>1. IInv => BufferBounded
    BY DEF IInv
<1> QED
    BY Invariance, <1>1, PTL

(* audiosocket.py:252.  No sound is written to a call that has ended.        *)
THEOREM SilentAfterEndHolds == Spec => SilentAfterEnd
<1>1. IInv /\ [Next]_vars => [backlog' > backlog => ~ended]_vars
  <2> SUFFICES ASSUME IInv, [Next]_vars, ended, backlog' > backlog PROVE FALSE
      OBVIOUS
  <2>1. backlog \in Nat /\ ended'
      BY PlaybackStep DEF IInv, TypeOK
  <2>2. CASE UNCHANGED backlog
      BY <2>1, <2>2
  <2>3. CASE Tick
      BY <2>1, <2>3 DEF Tick, Later
  <2>4. CASE SendBegins \/ Wakes \/ Drained
      BY <2>1, <2>2, <2>4 DEF SendBegins, Wakes, Drained, Turn
  <2> QED
      BY <2>2, <2>3, <2>4 DEF Next, Peer, Reader, Player, FrameArrives, RestArrives, PeerGoes,
         TakeFrame, ReadFails, ReadTimeout, Recv, Close, Hangup, vars
<1> QED
    BY Invariance, <1>1, PTL DEF Spec, SilentAfterEnd
=============================================================================
