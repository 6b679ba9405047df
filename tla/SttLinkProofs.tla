---------------------------- MODULE SttLinkProofs ----------------------------
(***************************************************************************)
(* What TLAPS proves about SttLink for every size of the outbox, every       *)
(* number of frames and every set of replies.                               *)
(***************************************************************************)
EXTENDS SttLink, TLAPS, FiniteSetTheorems

Hold == IF pump = "hold" THEN 1 ELSE 0
Mark == IF snd["pump"] = "written" THEN 1 ELSE 0
Gone == main \in {"announce", "grace", "closing", "done"}

(* The outbox lives from connect() to finish(), and the pump with it.       *)
Boxes ==
    /\ boxed <=> pump \in {"idle", "hold"}
    /\ boxed => main \in {"loop", "flush"}
    /\ main \in {"loop", "flush"} /\ ws => boxed
    /\ main \in {"dial", "start"} => pump = "none"
    /\ ~boxed => outbox = <<>> /\ unfinished = 0
    /\ JoinExact

(* Whose send is under way.                                                  *)
Senders ==
    /\ snd["pump"] = "queued" => pump = "hold"
    /\ pump = "hold" => snd["pump"] # "no"
    /\ pump \in {"none", "idle", "gone"} => snd["pump"] = "no"
    /\ main = "start" => snd["main"] = "written"
    /\ main \notin {"start", "announce"} => snd["main"] = "no"

(* The connection, and what the link believes of it.                         *)
Links ==
    /\ ws => conn # "none"
    /\ main = "dial" => conn = "none" /\ reader = "none"
    /\ conn = "none" <=> wire = <<>>
    /\ conn = "none" => \A w \in Writers : snd[w] = "no"
    /\ main = "start" => reader = "none" /\ conn # "none"
    /\ reader = "closed" => conn = "closed"
    /\ reader = "absent" => ~ws
    /\ main = "closing" => conn # "none" /\ reader \in {"closed", "raised", "cancelled"}
    /\ reader = "cancelled" => main \in {"closing", "done"}

(* What is on the wire.                                                      *)
Framed == CallFramed /\ (EndWritten => Gone)

(* The frames go through outbox and hand to the wire in the order spoken.    *)
Ordered ==
    /\ \A i, j \in 1..Len(outbox) : i < j => outbox[i] < outbox[j]
    /\ \A i \in 1..Len(outbox) : hand < outbox[i] /\ outbox[i] <= offered
    /\ hand <= offered
    /\ \A i, j \in AudioAt : i < j => wire[i].n < wire[j].n
    /\ \A i \in AudioAt : wire[i].n <= hand
    /\ snd["pump"] = "queued" => \A i \in AudioAt : wire[i].n < hand

(* Every frame is accounted for while the link is up, and when call_end is   *)
(* written all but those that the flush left behind.                         *)
Counted ==
    /\ sent + dropped + Len(outbox) + Hold <= offered
    /\ main \in {"dial", "start"} => offered = 0 /\ sent = 0 /\ dropped = 0 /\ AudioAt = {}
    /\ ws /\ boxed => /\ offered = sent + dropped + Len(outbox) + Hold
                      /\ Cardinality(AudioAt) = sent + Mark
    /\ (main = "announce" \/ EndWritten) /\ ~late =>
          Cardinality(AudioAt) = sent /\ sent + dropped = offered
    /\ main = "announce" \/ EndWritten =>
          offered <= Cardinality(AudioAt) + dropped + Capacity + 1

IInv == TypeOK /\ Boxes /\ Senders /\ Links /\ Framed /\ Ordered /\ Counted

-----------------------------------------------------------------------------
LEMMA AppendElements ==
    ASSUME NEW S, NEW s \in Seq(S), NEW e \in S
    PROVE  /\ Append(s, e) \in Seq(S)
           /\ Len(Append(s, e)) = Len(s) + 1 /\ Len(s) \in Nat
           /\ \A i \in 1..Len(s) : Append(s, e)[i] = s[i]
           /\ Append(s, e)[Len(s) + 1] = e
           /\ Append(s, e) # <<>>
OBVIOUS

(* A message that is written makes the call one longer, and keeps its frame. *)
LEMMA Written ==
    ASSUME wire \in Seq(Msgs), NEW m \in Msgs, wire' = Append(wire, m)
    PROVE  /\ wire' \in Seq(Msgs) /\ wire' # <<>> /\ Len(wire') = Len(wire) + 1
           /\ \A i \in 1..Len(wire) : wire'[i] = wire[i]
           /\ wire'[Len(wire) + 1] = m
           /\ EndWritten' <=> EndWritten \/ m.kind = "end"
           /\ AudioAt' = IF m.kind = "audio" THEN AudioAt \cup {Len(wire) + 1} ELSE AudioAt
           /\ Len(wire) \in Nat
<1> DEFINE L == Len(wire)
<1>1. /\ wire' \in Seq(Msgs) /\ wire' # <<>> /\ Len(wire') = L + 1 /\ L \in Nat
      /\ \A i \in 1..L : wire'[i] = wire[i]
      /\ wire'[L + 1] = m
    BY AppendElements
<1>2. 1..(L + 1) = 1..L \cup {L + 1}
    BY <1>1
<1>3. EndWritten' <=> EndWritten \/ m.kind = "end"
    BY <1>1, <1>2 DEF EndWritten
<1>4. AudioAt' = IF m.kind = "audio" THEN AudioAt \cup {L + 1} ELSE AudioAt
    BY <1>1, <1>2 DEF AudioAt
<1> QED BY <1>1, <1>3, <1>4

LEMMA Unwritten ==
    ASSUME wire' = wire
    PROVE  (CallFramed' <=> CallFramed) /\ (EndWritten' <=> EndWritten) /\ AudioAt' = AudioAt
BY DEF CallFramed, EndWritten, AudioAt

LEMMA FrameKept ==
    ASSUME wire \in Seq(Msgs), NEW m \in Msgs, wire' = Append(wire, m), wire # <<>>,
           CallFramed, m.kind # "start", m.kind = "audio" => ~EndWritten
    PROVE  CallFramed'
<1>1. /\ Len(wire') = Len(wire) + 1 /\ Len(wire) \in Nat \ {0}
      /\ \A i \in 1..Len(wire) : wire'[i] = wire[i]
      /\ wire'[Len(wire) + 1] = m
    BY Written
<1> QED BY <1>1 DEF CallFramed, EndWritten

LEMMA MessageTypes ==
    ASSUME TypeOK
    PROVE  /\ \A w \in Writers : Pending(w) \in Msgs
           /\ Text("end") \in Msgs /\ Text("speak") \in Msgs /\ Text("start") \in Msgs
           /\ \A n \in Frames : Audio(n) \in Msgs
<1>1. hand \in Frames \cup {0}
    BY DEF TypeOK
<1> QED BY <1>1 DEF Pending, Writers, Msgs, Text, Audio

LEMMA AudioFinite ==
    ASSUME TypeOK
    PROVE  /\ IsFiniteSet(AudioAt) /\ Len(wire) \in Nat /\ Len(wire) + 1 \notin AudioAt
           /\ Cardinality(AudioAt) \in Nat
           /\ Cardinality(AudioAt \cup {Len(wire) + 1}) = Cardinality(AudioAt) + 1
<1>1. Len(wire) \in Nat
    BY DEF TypeOK
<1>2. IsFiniteSet(1..Len(wire)) /\ AudioAt \subseteq 1..Len(wire)
    BY <1>1, FS_Interval DEF AudioAt
<1>3. IsFiniteSet(AudioAt) /\ Len(wire) + 1 \notin AudioAt
    BY <1>1, <1>2, FS_Subset DEF AudioAt
<1> QED BY <1>1, <1>3, FS_AddElement, FS_CardinalityType

LEMMA TailElements ==
    ASSUME NEW S, NEW s \in Seq(S), s # <<>>
    PROVE  /\ Tail(s) \in Seq(S) /\ Head(s) \in S /\ Head(s) = s[1]
           /\ Len(Tail(s)) = Len(s) - 1 /\ Len(s) \in Nat \ {0}
           /\ \A i \in 1..Len(Tail(s)) : Tail(s)[i] = s[i + 1]
OBVIOUS

(* The outbox and its count. *)
LEMMA BoxesStep ==
    ASSUME TypeOK, Boxes, Senders, Links, [Next]_vars
    PROVE  Boxes'
<1> USE CapacityAssumption
    DEF TypeOK, Boxes, Senders, Links, JoinExact, Writers, box, tall, back
<1>1. CASE Connected
    BY <1>1 DEF Connected
<1>2. CASE DialFails
    BY <1>2 DEF DialFails, EnterLoop
<1>3. CASE StartPump
    BY <1>3 DEF StartPump, TextSent, EnterLoop, Returns, Raises, Expires
<1>4. CASE SendAudio
    BY <1>4 DEF SendAudio
<1>5. CASE PumpTakes
    BY <1>5 DEF PumpTakes, Posts, Audio
<1>6. CASE PumpTicksOff
    BY <1>6 DEF PumpTicksOff, Returns, Raises
<1>7. CASE PumpUnwinds
    BY <1>7 DEF PumpUnwinds
<1>8. CASE Hangup
    BY <1>8 DEF Hangup, Announce, Text
<1>9. CASE Flushed
    BY <1>9 DEF Flushed, Announce, Text
<1>10. CASE FlushTimeout
    BY <1>10 DEF FlushTimeout, Announce, Text
<1>11. CASE EndSent
    BY <1>11 DEF EndSent, TextSent, Returns, Raises, Expires
<1>12. CASE GraceOver
    BY <1>12 DEF GraceOver, Close, ReaderOver
<1>13. CASE GraceTimeout
    BY <1>13 DEF GraceTimeout, Close, ReaderOver
<1>14. CASE Closed
    BY <1>14 DEF Closed
<1>15. CASE ReaderStarts
    BY <1>15 DEF ReaderStarts
<1>16. CASE SpeechArrives
    BY <1>16 DEF SpeechArrives
<1>17. CASE SpeechPlayed
    BY <1>17 DEF SpeechPlayed
<1>18. CASE TranscriptArrives
    BY <1>18 DEF TranscriptArrives
<1>19. CASE ReaderEnds
    BY <1>19 DEF ReaderEnds
<1>20. CASE PeerCloses
    BY <1>20 DEF PeerCloses
<1>21. CASE Finished
    BY <1>21 DEF Finished, vars
<1>22. ASSUME NEW w \in Writers, GetsLock(w) PROVE Boxes'
    BY <1>22 DEF GetsLock, Unlocked
<1>23. ASSUME NEW r \in Replies, SpeakStarts(r) PROVE Boxes'
    BY <1>23 DEF SpeakStarts, Posts, Text
<1>24. ASSUME NEW r \in Replies, SpeakSent(r) PROVE Boxes'
    BY <1>24 DEF SpeakSent, TextSent, Returns, Raises, Expires
<1>25. CASE UNCHANGED vars
    BY <1>25 DEF vars
<1> QED BY <1>1, <1>2, <1>3, <1>4, <1>5, <1>6, <1>7, <1>8, <1>9, <1>10, <1>11, <1>12,
          <1>13, <1>14, <1>15, <1>16, <1>17, <1>18, <1>19, <1>20, <1>21, <1>22, <1>23,
          <1>24, <1>25 DEF Next, Main, Pump, Reader

(* Who sends. *)
LEMMA SendersStep ==
    ASSUME TypeOK, Boxes, Senders, Links, [Next]_vars
    PROVE  Senders'
<1> USE RepliesAssumption
    DEF TypeOK, Boxes, Senders, Links, Writers, box, tall, back
<1>1. CASE Connected
    BY <1>1 DEF Connected
<1>2. CASE DialFails
    BY <1>2 DEF DialFails, EnterLoop
<1>3. CASE StartPump
    BY <1>3 DEF StartPump, TextSent, EnterLoop, Returns, Raises, Expires
<1>4. CASE SendAudio
    BY <1>4 DEF SendAudio
<1>5. CASE PumpTakes
    BY <1>5 DEF PumpTakes, Posts, Audio
<1>6. CASE PumpTicksOff
    BY <1>6 DEF PumpTicksOff, Returns, Raises
<1>7. CASE PumpUnwinds
    BY <1>7 DEF PumpUnwinds
<1>8. CASE Hangup
    BY <1>8 DEF Hangup, Announce, Text
<1>9. CASE Flushed
    BY <1>9 DEF Flushed, Announce, Text
<1>10. CASE FlushTimeout
    BY <1>10 DEF FlushTimeout, Announce, Text
<1>11. CASE EndSent
    BY <1>11 DEF EndSent, TextSent, Returns, Raises, Expires
<1>12. CASE GraceOver
    BY <1>12 DEF GraceOver, Close, ReaderOver
<1>13. CASE GraceTimeout
    BY <1>13 DEF GraceTimeout, Close, ReaderOver
<1>14. CASE Closed
    BY <1>14 DEF Closed
<1>15. CASE ReaderStarts
    BY <1>15 DEF ReaderStarts
<1>16. CASE SpeechArrives
    BY <1>16 DEF SpeechArrives
<1>17. CASE SpeechPlayed
    BY <1>17 DEF SpeechPlayed
<1>18. CASE TranscriptArrives
    BY <1>18 DEF TranscriptArrives
<1>19. CASE ReaderEnds
    BY <1>19 DEF ReaderEnds
<1>20. CASE PeerCloses
    BY <1>20 DEF PeerCloses
<1>21. CASE Finished
    BY <1>21 DEF Finished, vars
<1>22. ASSUME NEW w \in Writers, GetsLock(w) PROVE Senders'
    BY <1>22 DEF GetsLock, Unlocked
<1>23. ASSUME NEW r \in Replies, SpeakStarts(r) PROVE Senders'
    BY <1>23 DEF SpeakStarts, Posts, Text
<1>24. ASSUME NEW r \in Replies, SpeakSent(r) PROVE Senders'
    BY <1>24 DEF SpeakSent, TextSent, Returns, Raises, Expires
<1>25. CASE UNCHANGED vars
    BY <1>25 DEF vars
<1> QED BY <1>1, <1>2, <1>3, <1>4, <1>5, <1>6, <1>7, <1>8, <1>9, <1>10, <1>11, <1>12,
          <1>13, <1>14, <1>15, <1>16, <1>17, <1>18, <1>19, <1>20, <1>21, <1>22, <1>23,
          <1>24, <1>25 DEF Next, Main, Pump, Reader

(* The link. *)
LEMMA LinksStep ==
    ASSUME TypeOK, Boxes, Senders, Links, [Next]_vars
    PROVE  Links'
<1> USE RepliesAssumption, Written, MessageTypes
    DEF TypeOK, Boxes, Senders, Links, Writers, box, tall, back
<1>1. CASE Connected
    BY <1>1 DEF Connected
<1>2. CASE DialFails
    BY <1>2 DEF DialFails, EnterLoop
<1>3. CASE StartPump
    BY <1>3 DEF StartPump, TextSent, EnterLoop, Returns, Raises, Expires
<1>4. CASE SendAudio
    BY <1>4 DEF SendAudio
<1>5. CASE PumpTakes
    BY <1>5 DEF PumpTakes, Posts, Audio
<1>6. CASE PumpTicksOff
    BY <1>6 DEF PumpTicksOff, Returns, Raises
<1>7. CASE PumpUnwinds
    BY <1>7 DEF PumpUnwinds
<1>8. CASE Hangup
    BY <1>8 DEF Hangup, Announce, Text
<1>9. CASE Flushed
    BY <1>9 DEF Flushed, Announce, Text
<1>10. CASE FlushTimeout
    BY <1>10 DEF FlushTimeout, Announce, Text
<1>11. CASE EndSent
    BY <1>11 DEF EndSent, TextSent, Returns, Raises, Expires
<1>12. CASE GraceOver
    BY <1>12 DEF GraceOver, Close, ReaderOver
<1>13. CASE GraceTimeout
    BY <1>13 DEF GraceTimeout, Close, ReaderOver
<1>14. CASE Closed
    BY <1>14 DEF Closed
<1>15. CASE ReaderStarts
    BY <1>15 DEF ReaderStarts
<1>16. CASE SpeechArrives
    BY <1>16 DEF SpeechArrives
<1>17. CASE SpeechPlayed
    BY <1>17 DEF SpeechPlayed
<1>18. CASE TranscriptArrives
    BY <1>18 DEF TranscriptArrives
<1>19. CASE ReaderEnds
    BY <1>19 DEF ReaderEnds
<1>20. CASE PeerCloses
    BY <1>20 DEF PeerCloses
<1>21. CASE Finished
    BY <1>21 DEF Finished, vars
<1>22. ASSUME NEW w \in Writers, GetsLock(w) PROVE Links'
    BY <1>22 DEF GetsLock, Unlocked
<1>23. ASSUME NEW r \in Replies, SpeakStarts(r) PROVE Links'
    BY <1>23 DEF SpeakStarts, Posts, Text
<1>24. ASSUME NEW r \in Replies, SpeakSent(r) PROVE Links'
    BY <1>24 DEF SpeakSent, TextSent, Returns, Raises, Expires
<1>25. CASE UNCHANGED vars
    BY <1>25 DEF vars
<1> QED BY <1>1, <1>2, <1>3, <1>4, <1>5, <1>6, <1>7, <1>8, <1>9, <1>10, <1>11, <1>12,
          <1>13, <1>14, <1>15, <1>16, <1>17, <1>18, <1>19, <1>20, <1>21, <1>22, <1>23,
          <1>24, <1>25 DEF Next, Main, Pump, Reader

(* finish() from the cancellation of the pump on: at most the call_end goes  *)
(* out, and the outbox is gone.                                              *)
LEMMA Announced ==
    ASSUME IInv, Announce
    PROVE  /\ wire' = wire \/ (ws /\ conn = "open" /\ wire' = Append(wire, Text("end")))
           /\ main' = IF ws THEN "announce" ELSE "grace"
           /\ outbox' = <<>> /\ unfinished' = 0 /\ pump' \notin {"idle", "hold"} /\ boxed' = FALSE
           /\ pump' \in PumpPC
           /\ snd' \in [Writers -> {"no", "queued", "written"}]
           /\ snd'["pump"] # "queued"
           /\ UNCHANGED <<ws, conn, hand, offered, dropped, sent, reader, reply>>
<1> DEFINE left == [snd EXCEPT !["pump"] = IF @ = "queued" THEN "no" ELSE @]
           open == conn = "open" /\ \A w \in Writers : left[w] = "no"
<1>1. /\ pump \in PumpPC /\ snd \in [Writers -> {"no", "queued", "written"}]
      /\ {"main", "pump"} \subseteq Writers
    BY DEF IInv, TypeOK, Writers
<1>2. left \in [Writers -> {"no", "queued", "written"}] /\ left["pump"] # "queued"
    BY <1>1
<1>3. /\ pump' = CASE pump = "hold" -> "unwind" [] pump = "idle" -> "gone" [] OTHER -> pump
      /\ UNCHANGED <<ws, conn, hand, offered, dropped, sent, reader, reply>>
      /\ outbox' = <<>> /\ unfinished' = 0 /\ boxed' = FALSE
    BY DEF Announce, tall, back
<1>4. pump' \notin {"idle", "hold"} /\ pump' \in PumpPC
    BY <1>1, <1>3 DEF PumpPC
<1>5. CASE ws
  <2>1. /\ main' = "announce"
        /\ snd'  = [left EXCEPT !["main"] = IF open THEN "written" ELSE "queued"]
        /\ wire' = IF open THEN Append(wire, Text("end")) ELSE wire
      BY <1>5 DEF Announce
  <2>2. snd' \in [Writers -> {"no", "queued", "written"}] /\ snd'["pump"] = left["pump"]
      BY <1>1, <1>2, <2>1
  <2> QED BY <1>2, <1>3, <1>4, <1>5, <2>1, <2>2
<1>6. CASE ~ws
    BY <1>2, <1>3, <1>4, <1>6 DEF Announce
<1> QED BY <1>5, <1>6

(* A hangup that waits changes nothing but where main is.                    *)
LEMMA HangupCases ==
    ASSUME Hangup
    PROVE  /\ main = "loop" /\ late' = late
           /\ \/ /\ main' = "flush"
                 /\ UNCHANGED <<ws, conn, box, snd, wire, tall, back>>
              \/ Announce /\ ~(pump # "none" /\ ws /\ unfinished > 0)
BY DEF Hangup

(* Framing. *)
LEMMA FramedStep ==
    ASSUME IInv, [Next]_vars
    PROVE  Framed'
<1> USE RepliesAssumption DEF IInv
<1>0. ASSUME wire' = wire, Gone => Gone'
      PROVE  Framed'
    BY <1>0, Unwritten DEF Framed
<1>1. CASE Connected
  <2>1. wire' = <<Text("start")>>
      BY <1>1 DEF Connected
  <2>2. Len(wire') = 1 /\ wire'[1].kind = "start"
      BY <2>1 DEF Text
  <2> QED BY <2>2 DEF Framed, CallFramed, EndWritten
<1>2. ASSUME Announce PROVE Framed'
  <2>1. Gone'
      BY <1>2, Announced DEF Gone
  <2>2. CASE wire' = wire
      BY <1>0, <2>1, <2>2
  <2>3. CASE ws /\ conn = "open" /\ wire' = Append(wire, Text("end"))
    <3>1. wire # <<>> /\ Text("end") \in Msgs /\ CallFramed /\ wire \in Seq(Msgs)
        BY <2>3, MessageTypes DEF Links, Framed, TypeOK
    <3>2. CallFramed'
        BY <2>3, <3>1, FrameKept DEF Text
    <3> QED BY <2>1, <3>2 DEF Framed
  <2> QED BY <1>2, <2>2, <2>3, Announced
<1>3. CASE Hangup
    BY <1>0, <1>2, <1>3, HangupCases DEF Gone
<1>4. CASE Flushed \/ FlushTimeout
    BY <1>2, <1>4 DEF Flushed, FlushTimeout
<1>5. ASSUME NEW m \in Msgs, wire' = Append(wire, m), conn = "open", m.kind = "audio" => ~EndWritten,
             m.kind # "start", Gone => Gone', m.kind = "end" => Gone'
      PROVE  Framed'
  <2>1. wire \in Seq(Msgs) /\ wire # <<>> /\ CallFramed /\ (EndWritten => Gone)
      BY <1>5 DEF Links, Framed, TypeOK
  <2>2. CallFramed'
      BY <1>5, <2>1, FrameKept
  <2>3. EndWritten' <=> EndWritten \/ m.kind = "end"
      BY <1>5, <2>1, Written
  <2> QED BY <1>5, <2>1, <2>2, <2>3 DEF Framed
<1>6. CASE PumpTakes
  <2>1. outbox \in Seq(Frames) /\ outbox # <<>> /\ pump = "idle" /\ main' = main
      BY <1>6 DEF PumpTakes, TypeOK
  <2>2. Head(outbox) \in Frames
      BY <2>1, TailElements
  <2>3. ~EndWritten /\ (Gone <=> Gone')
      BY <2>1 DEF Framed, Gone, Boxes
  <2>4. wire' = wire \/ (wire' = Append(wire, Audio(Head(outbox))) /\ conn = "open")
      BY <1>6 DEF PumpTakes, Posts
  <2>5. Audio(Head(outbox)) \in Msgs /\ Audio(Head(outbox)).kind = "audio"
      BY <2>2, MessageTypes DEF Audio
  <2> QED BY <1>0, <1>5, <2>3, <2>4, <2>5
<1>7. ASSUME NEW w \in Writers, GetsLock(w) PROVE Framed'
  <2>1. snd[w] = "queued" /\ conn = "open" /\ wire' = Append(wire, Pending(w)) /\ main' = main
      BY <1>7 DEF GetsLock
  <2>2. Pending(w) \in Msgs
      BY MessageTypes
  <2>3. CASE w = "main"
      BY <1>5, <2>1, <2>2, <2>3 DEF Pending, Text, Senders, Gone
  <2>4. CASE w = "pump"
      BY <1>5, <2>1, <2>2, <2>4 DEF Pending, Audio, Senders, Boxes, Framed, Gone
  <2>5. CASE w \in Replies
      BY <1>5, <2>1, <2>2, <2>5 DEF Pending, Text, Gone
  <2> QED BY <2>3, <2>4, <2>5 DEF Writers
<1>8. ASSUME NEW r \in Replies, SpeakStarts(r) PROVE Framed'
  <2>1. wire' = wire \/ (wire' = Append(wire, Text("speak")) /\ conn = "open")
      BY <1>8 DEF SpeakStarts, Posts
  <2>2. Text("speak") \in Msgs /\ Text("speak").kind = "speak" /\ main' = main
      BY <1>8, MessageTypes DEF Text, SpeakStarts
  <2> QED BY <1>0, <1>5, <2>1, <2>2 DEF Gone
<1>9. ASSUME NEW r \in Replies, SpeakSent(r) PROVE Framed'
    BY <1>0, <1>9 DEF SpeakSent, Gone
<1>10. CASE DialFails
    BY <1>0, <1>10 DEF DialFails, EnterLoop, Gone
<1>11. CASE StartPump
    BY <1>0, <1>11 DEF StartPump, EnterLoop, Gone
<1>12. CASE SendAudio
    BY <1>0, <1>12 DEF SendAudio, Gone
<1>13. CASE PumpTicksOff
    BY <1>0, <1>13 DEF PumpTicksOff, Gone
<1>14. CASE PumpUnwinds
    BY <1>0, <1>14 DEF PumpUnwinds, Gone
<1>15. CASE EndSent
    BY <1>0, <1>15 DEF EndSent, Gone
<1>16. CASE GraceOver
    BY <1>0, <1>16 DEF GraceOver, Close, Gone
<1>17. CASE GraceTimeout
    BY <1>0, <1>17 DEF GraceTimeout, Close, Gone
<1>18. CASE Closed
    BY <1>0, <1>18 DEF Closed, Gone
<1>19. CASE ReaderStarts
    BY <1>0, <1>19 DEF ReaderStarts, Gone
<1>20. CASE SpeechArrives
    BY <1>0, <1>20 DEF SpeechArrives, Gone
<1>21. CASE SpeechPlayed
    BY <1>0, <1>21 DEF SpeechPlayed, Gone
<1>22. CASE TranscriptArrives
    BY <1>0, <1>22 DEF TranscriptArrives, Gone
<1>23. CASE ReaderEnds
    BY <1>0, <1>23 DEF ReaderEnds, Gone
<1>24. CASE PeerCloses
    BY <1>0, <1>24 DEF PeerCloses, Gone
<1>25. CASE Finished
    BY <1>0, <1>25 DEF Finished, vars, Gone
<1>26. CASE UNCHANGED vars
    BY <1>0, <1>26 DEF vars, Gone
<1> QED BY <1>1, <1>3, <1>4, <1>6, <1>7, <1>8, <1>9, <1>10, <1>11, <1>12, <1>13, <1>14,
          <1>15, <1>16, <1>17, <1>18, <1>19, <1>20, <1>21, <1>22, <1>23, <1>24, <1>25,
          <1>26 DEF Next, Main, Pump, Reader

(* Only the pump writes audio. *)
LEMMA AudioStep ==
    ASSUME IInv, [Next]_vars, ~PumpTakes, ~GetsLock("pump")
    PROVE  /\ AudioAt' = AudioAt /\ \A i \in AudioAt : wire'[i] = wire[i]
           /\ EndWritten' => EndWritten \/ main' = "announce"
<1> USE RepliesAssumption DEF IInv
<1> DEFINE Kept == /\ AudioAt' = AudioAt /\ \A i \in AudioAt : wire'[i] = wire[i]
                   /\ EndWritten' => EndWritten \/ main' = "announce"
<1>0. wire \in Seq(Msgs) /\ Len(wire) \in Nat /\ AudioAt \subseteq 1..Len(wire)
    BY DEF TypeOK, AudioAt
<1>1. ASSUME wire' = wire PROVE Kept
    BY <1>1, Unwritten
<1>2. ASSUME NEW m \in Msgs, wire' = Append(wire, m), m.kind # "audio",
             m.kind = "end" => main' = "announce"
      PROVE  Kept
    BY <1>0, <1>2, Written
<1>3. CASE Connected
  <2>1. wire' = <<Text("start")>> /\ wire = <<>>
      BY <1>3 DEF Connected, Links
  <2>2. wire' = Append(wire, Text("start"))
      BY <2>1
  <2> QED BY <1>2, <2>2, MessageTypes DEF Text
<1>4. ASSUME Announce PROVE Kept
    BY <1>1, <1>2, <1>4, Announced, MessageTypes DEF Text
<1>5. CASE Hangup
    BY <1>1, <1>4, <1>5, HangupCases
<1>6. CASE Flushed \/ FlushTimeout
    BY <1>4, <1>6 DEF Flushed, FlushTimeout
<1>7. ASSUME NEW w \in Writers, GetsLock(w), w # "pump" PROVE Kept
  <2>1. wire' = Append(wire, Pending(w)) /\ Pending(w) \in Msgs /\ snd[w] = "queued" /\ main' = main
      BY <1>7, MessageTypes DEF GetsLock
  <2>2. Pending(w).kind # "audio" /\ (Pending(w).kind = "end" => main = "announce")
      BY <1>7, <2>1 DEF Pending, Text, Writers, Senders
  <2> QED BY <1>2, <2>1, <2>2
<1>8. ASSUME NEW r \in Replies, SpeakStarts(r) PROVE Kept
  <2>1. wire' = wire \/ wire' = Append(wire, Text("speak"))
      BY <1>8 DEF SpeakStarts, Posts
  <2> QED BY <1>1, <1>2, <2>1, MessageTypes DEF Text
<1>9. ASSUME NEW r \in Replies, SpeakSent(r) PROVE Kept
    BY <1>1, <1>9 DEF SpeakSent
<1>10. CASE DialFails
    BY <1>1, <1>10 DEF DialFails, EnterLoop
<1>11. CASE StartPump
    BY <1>1, <1>11 DEF StartPump, EnterLoop
<1>12. CASE SendAudio
    BY <1>1, <1>12 DEF SendAudio
<1>13. CASE PumpTicksOff
    BY <1>1, <1>13 DEF PumpTicksOff
<1>14. CASE PumpUnwinds
    BY <1>1, <1>14 DEF PumpUnwinds
<1>15. CASE EndSent
    BY <1>1, <1>15 DEF EndSent
<1>16. CASE GraceOver
    BY <1>1, <1>16 DEF GraceOver, Close
<1>17. CASE GraceTimeout
    BY <1>1, <1>17 DEF GraceTimeout, Close
<1>18. CASE Closed
    BY <1>1, <1>18 DEF Closed
<1>19. CASE ReaderStarts
    BY <1>1, <1>19 DEF ReaderStarts
<1>20. CASE SpeechArrives
    BY <1>1, <1>20 DEF SpeechArrives
<1>21. CASE SpeechPlayed
    BY <1>1, <1>21 DEF SpeechPlayed
<1>22. CASE TranscriptArrives
    BY <1>1, <1>22 DEF TranscriptArrives
<1>23. CASE ReaderEnds
    BY <1>1, <1>23 DEF ReaderEnds
<1>24. CASE PeerCloses
    BY <1>1, <1>24 DEF PeerCloses
<1>25. CASE Finished
    BY <1>1, <1>25 DEF Finished, vars
<1>26. CASE UNCHANGED vars
    BY <1>1, <1>26 DEF vars
<1> QED BY <1>3, <1>5, <1>6, <1>7, <1>8, <1>9, <1>10, <1>11, <1>12, <1>13, <1>14, <1>15,
          <1>16, <1>17, <1>18, <1>19, <1>20, <1>21, <1>22, <1>23, <1>24, <1>25, <1>26
          DEF Next, Main, Pump, Reader

(* A frame written behind smaller ones is in order.                          *)
LEMMA AudioExtends ==
    ASSUME NEW n \in Nat, Len(wire) \in Nat,
           AudioAt' = AudioAt \cup {Len(wire) + 1},
           \A i \in AudioAt : wire'[i] = wire[i] /\ i \in Nat /\ i < Len(wire) + 1,
           wire'[Len(wire) + 1].n = n,
           \A i \in AudioAt : wire[i].n \in Nat /\ wire[i].n < n,
           \A i, j \in AudioAt : i < j => wire[i].n < wire[j].n
    PROVE  /\ \A i, j \in AudioAt' : i < j => wire'[i].n < wire'[j].n
           /\ \A i \in AudioAt' : wire'[i].n <= n
<1>1. \A i, j \in AudioAt : i < j => wire'[i].n < wire'[j].n
    OBVIOUS
<1>2. \A i \in AudioAt : wire'[i].n < wire'[Len(wire) + 1].n /\ ~(Len(wire) + 1 < i)
    OBVIOUS
<1>3. ~(Len(wire) + 1 < Len(wire) + 1)
    OBVIOUS
<1>4. \A i \in AudioAt : wire'[i].n <= n
  <2>1. \A m \in Nat : m < n => m <= n
      OBVIOUS
  <2> QED BY <2>1
<1>5. wire'[Len(wire) + 1].n <= n
    OBVIOUS
<1>6. \A i \in AudioAt' : i \in AudioAt \/ i = Len(wire) + 1
    OBVIOUS
<1> QED BY ONLY <1>1, <1>2, <1>3, <1>4, <1>5, <1>6

(* Order. *)
LEMMA OrderedStep ==
    ASSUME IInv, [Next]_vars
    PROVE  Ordered'
<1> USE RepliesAssumption DEF IInv
<1> DEFINE Kept == AudioAt' = AudioAt /\ \A i \in AudioAt : wire'[i] = wire[i]
<1>t. /\ outbox \in Seq(Frames) /\ Len(outbox) \in Nat /\ hand \in Nat
      /\ offered \in Nat /\ wire \in Seq(Msgs) /\ Len(wire) \in Nat
      /\ \A i \in AudioAt : wire[i].n \in Nat /\ i \in Nat /\ i < Len(wire) + 1
      /\ \A i \in 1..Len(outbox) : outbox[i] \in Nat
      /\ snd \in [Writers -> {"no", "queued", "written"}] /\ "pump" \in Writers
  <2>1. /\ outbox \in Seq(Frames) /\ Len(outbox) \in Nat /\ hand \in Frames \cup {0}
        /\ offered \in 0..MaxFrames /\ wire \in Seq(Msgs) /\ Len(wire) \in Nat
        /\ snd \in [Writers -> {"no", "queued", "written"}]
      BY DEF TypeOK
  <2>2. Frames \subseteq Nat /\ offered \in Nat /\ "pump" \in Writers
      BY <2>1, FramesAssumption DEF Frames, Writers
  <2>3. \A i \in AudioAt : wire[i].n \in Frames \cup {0} /\ i \in 1..Len(wire)
    <3>1. \A i \in AudioAt : i \in 1..Len(wire)
        BY DEF AudioAt
    <3>2. \A i \in 1..Len(wire) : wire[i] \in Msgs
        BY <2>1
    <3> QED BY <3>1, <3>2 DEF Msgs
  <2>4. \A i \in 1..Len(outbox) : outbox[i] \in Frames
      BY <2>1
  <2>5. hand \in Nat /\ \A i \in AudioAt : wire[i].n \in Nat /\ i \in Nat /\ i < Len(wire) + 1
    <3>1. \A x \in Frames \cup {0} : x \in Nat
        BY <2>2
    <3>2. \A i \in 1..Len(wire) : i \in Nat /\ i < Len(wire) + 1
        BY <2>1
    <3> QED BY <2>1, <2>3, <3>1, <3>2
  <2> QED BY <2>1, <2>2, <2>4, <2>5
<1>0. ASSUME Kept, outbox' = outbox, hand' = hand, offered' = offered,
             snd'["pump"] = "queued" => snd["pump"] = "queued"
      PROVE  Ordered'
    BY <1>0 DEF Ordered
<1>k. ~PumpTakes /\ ~GetsLock("pump") => Kept
    BY AudioStep
<1>1. CASE PumpTakes
  <2> DEFINE h == Head(outbox)
  <2>1. pump = "idle" /\ outbox # <<>> /\ hand' = h /\ outbox' = Tail(outbox) /\ offered' = offered
      BY <1>1 DEF PumpTakes, tall
  <2>2. /\ h \in Frames /\ h = outbox[1] /\ Len(outbox') = Len(outbox) - 1 /\ Len(outbox) \in Nat \ {0}
        /\ \A i \in 1..Len(outbox') : outbox'[i] = outbox[i + 1]
      BY <1>t, <2>1, TailElements
  <2>3. /\ \A i, j \in 1..Len(outbox') : i < j => outbox'[i] < outbox'[j]
        /\ \A i \in 1..Len(outbox') : hand' < outbox'[i] /\ outbox'[i] <= offered'
        /\ hand' <= offered'
    <3>1. \A i \in 1..Len(outbox') : i + 1 \in 1..Len(outbox) /\ 1 < i + 1
        BY <2>2
    <3>2. 1 \in 1..Len(outbox)
        BY <2>2
    <3> QED BY <1>t, <2>1, <2>2, <3>1, <3>2 DEF Ordered
  <2>9. h \in Nat
      BY <1>t, <2>2
  <2>4. \A i \in AudioAt : wire[i].n < h
    <3>1. hand < h /\ \A i \in AudioAt : wire[i].n <= hand
        BY <1>t, <2>1, <2>2 DEF Ordered
    <3> QED BY <1>t, <2>9, <3>1
  <2>5. CASE wire' = wire
    <3>1. AudioAt' = AudioAt
        BY <2>5, Unwritten
    <3>2. \A i \in AudioAt : wire'[i].n < hand' /\ wire'[i].n <= hand'
        BY <1>t, <2>1, <2>4, <2>5, <2>9
    <3> QED BY <2>3, <2>5, <3>1, <3>2 DEF Ordered
  <2>6. CASE wire' = Append(wire, Audio(h)) /\ snd'["pump"] = "written"
    <3>1. /\ AudioAt' = AudioAt \cup {Len(wire) + 1}
          /\ \A i \in AudioAt : wire'[i] = wire[i] /\ i < Len(wire) + 1
          /\ wire'[Len(wire) + 1].n = h
      <4>1. Audio(h) \in Msgs /\ Audio(h).kind = "audio" /\ Audio(h).n = h
          BY <2>2, MessageTypes DEF Audio
      <4>2. \A i \in AudioAt : i \in 1..Len(wire)
          BY DEF AudioAt
      <4> QED BY <1>t, <2>6, <4>1, <4>2, Written
    <3>2. \A i, j \in AudioAt : i < j => wire[i].n < wire[j].n
        BY DEF Ordered
    <3>3. /\ \A i, j \in AudioAt' : i < j => wire'[i].n < wire'[j].n
          /\ \A i \in AudioAt' : wire'[i].n <= h
        BY <1>t, <2>4, <2>9, <3>1, <3>2, AudioExtends
    <3> QED BY <2>1, <2>3, <2>6, <3>3 DEF Ordered
  <2>7. wire' = wire \/ (wire' = Append(wire, Audio(h)) /\ snd'["pump"] = "written")
      BY <1>1, <1>t, <2>1 DEF PumpTakes, Posts
  <2> QED BY <2>5, <2>6, <2>7
<1>2. CASE GetsLock("pump")
  <2>1. /\ wire' = Append(wire, Audio(hand)) /\ snd["pump"] = "queued" /\ snd'["pump"] = "written"
        /\ outbox' = outbox /\ hand' = hand /\ offered' = offered
      BY <1>2, <1>t DEF GetsLock, Pending, box, tall
  <2>2. Audio(hand) \in Msgs /\ Audio(hand).kind = "audio" /\ Audio(hand).n = hand
      BY DEF Audio, Msgs, TypeOK
  <2>3. /\ AudioAt' = AudioAt \cup {Len(wire) + 1}
        /\ \A i \in AudioAt : wire'[i] = wire[i] /\ i < Len(wire) + 1
        /\ wire'[Len(wire) + 1].n = hand
    <3>1. \A i \in AudioAt : i \in 1..Len(wire)
        BY DEF AudioAt
    <3> QED BY <1>t, <2>1, <2>2, <3>1, Written
  <2>4. \A i \in AudioAt : wire[i].n < hand
      BY <2>1 DEF Ordered
  <2>5. \A i, j \in AudioAt : i < j => wire[i].n < wire[j].n
      BY DEF Ordered
  <2>6. /\ \A i, j \in AudioAt' : i < j => wire'[i].n < wire'[j].n
        /\ \A i \in AudioAt' : wire'[i].n <= hand
      BY <1>t, <2>3, <2>4, <2>5, AudioExtends
  <2> QED BY <2>1, <2>6 DEF Ordered
<1> SUFFICES ASSUME ~PumpTakes, ~GetsLock("pump") PROVE Ordered'
    BY <1>1, <1>2
<1>3. Kept
    BY <1>k
<1>4. CASE SendAudio
  <2>1. /\ hand' = hand /\ snd' = snd /\ offered' = offered + 1
        /\ outbox' = outbox \/ outbox' = Append(outbox, offered')
      BY <1>4 DEF SendAudio
  <2>2. offered' \in Frames
      BY <1>4, <1>t, <2>1, FramesAssumption DEF SendAudio, Frames
  <2>3. \/ outbox' = outbox
        \/ /\ Len(outbox') = Len(outbox) + 1
           /\ \A i \in 1..Len(outbox) : outbox'[i] = outbox[i]
           /\ outbox'[Len(outbox) + 1] = offered'
    <3>1. /\ Len(Append(outbox, offered')) = Len(outbox) + 1
          /\ \A i \in 1..Len(outbox) : Append(outbox, offered')[i] = outbox[i]
          /\ Append(outbox, offered')[Len(outbox) + 1] = offered'
        BY <1>t, <2>2, AppendElements
    <3> QED BY <2>1, <3>1
  <2>4. /\ \A i, j \in 1..Len(outbox) : i < j => outbox[i] < outbox[j]
        /\ \A i \in 1..Len(outbox) : hand < outbox[i] /\ outbox[i] < offered'
        /\ hand < offered'
    <3>1. /\ \A i, j \in 1..Len(outbox) : i < j => outbox[i] < outbox[j]
          /\ \A i \in 1..Len(outbox) : hand < outbox[i] /\ outbox[i] <= offered
          /\ hand <= offered
        BY DEF Ordered
    <3>2. \A n \in Nat : n <= offered => n < offered'
        BY <1>t, <2>1
    <3>3. hand \in Nat /\ \A i \in 1..Len(outbox) : outbox[i] \in Nat
        BY <1>t
    <3> QED BY <3>1, <3>2, <3>3
  <2>5. CASE outbox' = outbox
    <3>1. \A i \in 1..Len(outbox) : outbox[i] <= offered'
      <4>1. \A n, m \in Nat : n < m => n <= m
          OBVIOUS
      <4>2. offered' \in Nat
          BY <1>t, <2>1
      <4> QED BY <1>t, <2>4, <4>1, <4>2
    <3>2. hand' <= offered'
        BY <1>t, <2>1, <2>4
    <3> QED BY <1>3, <2>1, <2>4, <2>5, <3>1, <3>2 DEF Ordered
  <2>6. CASE /\ Len(outbox') = Len(outbox) + 1
             /\ \A i \in 1..Len(outbox) : outbox'[i] = outbox[i]
             /\ outbox'[Len(outbox) + 1] = offered'
    <3>1. \A i \in 1..Len(outbox') : i \in 1..Len(outbox) \/ i = Len(outbox) + 1
        BY <1>t, <2>6
    <3>2. \A i, j \in 1..Len(outbox') : i < j => i \in 1..Len(outbox)
        BY <1>t, <2>6
    <3>3. offered' \in Nat
        BY <1>t, <2>1
    <3>4. \A i, j \in 1..Len(outbox') : i < j => outbox'[i] < outbox'[j]
        BY <2>4, <2>6, <3>1, <3>2
    <3>5. \A i \in 1..Len(outbox') : hand' < outbox'[i] /\ outbox'[i] <= offered'
      <4> SUFFICES ASSUME NEW i \in 1..Len(outbox')
                   PROVE hand' < outbox'[i] /\ outbox'[i] <= offered'
          OBVIOUS
      <4>1. CASE i = Len(outbox) + 1
          BY <2>1, <2>4, <2>6, <3>3, <4>1
      <4>2. CASE i \in 1..Len(outbox)
        <5>1. outbox'[i] = outbox[i] /\ hand < outbox[i] /\ outbox[i] < offered'
            BY <2>4, <2>6, <4>2
        <5>2. outbox[i] \in Nat
            BY <1>t, <4>2
        <5> QED BY <2>1, <3>3, <5>1, <5>2
      <4> QED BY <3>1, <4>1, <4>2
    <3>6. hand' <= offered'
        BY <1>t, <2>1, <2>4, <3>3
    <3> QED BY <1>3, <2>1, <3>4, <3>5, <3>6 DEF Ordered
  <2> QED BY <2>3, <2>5, <2>6
<1>5. ASSUME Announce PROVE Ordered'
  <2>1. Len(outbox') = 0 /\ hand' = hand /\ offered' = offered /\ snd'["pump"] # "queued"
      BY <1>5, Announced
  <2> QED BY <1>3, <2>1 DEF Ordered
<1>6. CASE Hangup
    BY <1>0, <1>3, <1>5, <1>6, HangupCases DEF box, tall
<1>7. CASE Flushed \/ FlushTimeout
    BY <1>5, <1>7 DEF Flushed, FlushTimeout
<1>8. ASSUME NEW w \in Writers, GetsLock(w) PROVE Ordered'
    BY <1>0, <1>3, <1>8, <1>t DEF GetsLock, box, tall
<1>9. ASSUME NEW r \in Replies, SpeakStarts(r) PROVE Ordered'
    BY <1>0, <1>3, <1>9, <1>t DEF SpeakStarts, Posts, box, tall
<1>10. ASSUME NEW r \in Replies, SpeakSent(r) PROVE Ordered'
    BY <1>0, <1>3, <1>10, <1>t DEF SpeakSent, TextSent, Returns, Raises, Expires, box, tall
<1>11. CASE Connected
    BY <1>0, <1>3, <1>11, <1>t DEF Connected, box, tall
<1>12. CASE DialFails
    BY <1>0, <1>3, <1>12, <1>t DEF DialFails, EnterLoop, box, tall
<1>13. CASE StartPump
    BY <1>0, <1>3, <1>13, <1>t DEF StartPump, EnterLoop, TextSent, Returns, Raises, Expires, box, tall
<1>14. CASE PumpTicksOff
    BY <1>0, <1>3, <1>14, <1>t DEF PumpTicksOff, Returns, Raises, box, tall
<1>15. CASE PumpUnwinds
    BY <1>0, <1>3, <1>15, <1>t DEF PumpUnwinds, box, tall
<1>16. CASE EndSent
    BY <1>0, <1>3, <1>16, <1>t DEF EndSent, TextSent, Returns, Raises, Expires, box, tall
<1>17. CASE GraceOver
    BY <1>0, <1>3, <1>17, <1>t DEF GraceOver, Close, box, tall
<1>18. CASE GraceTimeout
    BY <1>0, <1>3, <1>18, <1>t DEF GraceTimeout, Close, box, tall
<1>19. CASE Closed
    BY <1>0, <1>3, <1>19, <1>t DEF Closed, box, tall
<1>20. CASE ReaderStarts
    BY <1>0, <1>3, <1>20, <1>t DEF ReaderStarts, box, tall
<1>21. CASE SpeechArrives
    BY <1>0, <1>3, <1>21, <1>t DEF SpeechArrives, box, tall
<1>22. CASE SpeechPlayed
    BY <1>0, <1>3, <1>22, <1>t DEF SpeechPlayed, box, tall
<1>23. CASE TranscriptArrives
    BY <1>0, <1>3, <1>23, <1>t DEF TranscriptArrives, box, tall
<1>24. CASE ReaderEnds
    BY <1>0, <1>3, <1>24, <1>t DEF ReaderEnds, box, tall
<1>25. CASE PeerCloses
    BY <1>0, <1>3, <1>25, <1>t DEF PeerCloses, box, tall
<1>26. CASE Finished
    BY <1>0, <1>3, <1>26, <1>t DEF Finished, vars, box, tall
<1>27. CASE UNCHANGED vars
    BY <1>0, <1>3, <1>27 DEF vars
<1> QED BY <1>4, <1>6, <1>7, <1>8, <1>9, <1>10, <1>11, <1>12, <1>13, <1>14, <1>15,
          <1>16, <1>17, <1>18, <1>19, <1>20, <1>21, <1>22, <1>23, <1>24, <1>25, <1>26,
          <1>27 DEF Next, Main, Pump, Reader

(* A bounded send, and a message handed to the connection.                   *)
LEMMA TextSentTypes ==
    ASSUME TypeOK, NEW w \in Writers, TextSent(w)
    PROVE  /\ snd' \in [Writers -> {"no", "queued", "written"}] /\ ws' \in BOOLEAN
           /\ ws' => ws
           /\ snd'[w] = "no" /\ \A v \in Writers : v # w => snd'[v] = snd[v]
<1>1. snd \in [Writers -> {"no", "queued", "written"}] /\ ws \in BOOLEAN
    BY DEF TypeOK
<1>2. snd' = [snd EXCEPT ![w] = "no"] /\ (ws' = ws \/ ws' = FALSE)
    BY DEF TextSent, Returns, Raises, Expires
<1>3. snd' \in [Writers -> {"no", "queued", "written"}]
    BY <1>1, <1>2
<1>4. snd'[w] = "no" /\ \A v \in Writers : v # w => snd'[v] = snd[v]
    BY <1>1, <1>2
<1>5. ws' \in BOOLEAN /\ (ws' => ws)
  <2>1. CASE ws' = ws
      BY <1>1, <2>1, Zenon
  <2>2. CASE ws' = FALSE
      BY <2>2
  <2> QED BY <1>2, <2>1, <2>2
<1> QED BY <1>3, <1>4, <1>5

LEMMA PostsTypes ==
    ASSUME TypeOK, NEW w \in Writers, NEW m \in Msgs, Posts(w, m)
    PROVE  /\ snd' \in [Writers -> {"no", "queued", "written"}] /\ wire' \in Seq(Msgs)
           /\ \A v \in Writers : v # w => snd'[v] = snd[v]
<1>1. snd \in [Writers -> {"no", "queued", "written"}] /\ wire \in Seq(Msgs)
    BY DEF TypeOK
<1>2. \E x \in {"queued", "written"} : snd' = [snd EXCEPT ![w] = x]
    BY DEF Posts
<1>3. /\ snd' \in [Writers -> {"no", "queued", "written"}]
      /\ \A v \in Writers : v # w => snd'[v] = snd[v]
    BY <1>1, <1>2
<1>4. wire' \in Seq(Msgs)
    BY <1>1, AppendElements DEF Posts
<1> QED BY <1>3, <1>4

(* Types. *)
LEMMA TypeOKStep ==
    ASSUME IInv, [Next]_vars
    PROVE  TypeOK'
<1> USE DEF IInv
<1>1. ASSUME Announce, late' \in BOOLEAN PROVE TypeOK'
  <2>1. wire' \in Seq(Msgs)
    <3>1. wire \in Seq(Msgs) /\ Text("end") \in Msgs
        BY MessageTypes DEF TypeOK
    <3> QED BY <1>1, <3>1, Announced, AppendElements
  <2>2. Len(outbox') = 0 /\ outbox' \in Seq(Frames) /\ unfinished' = 0
      BY <1>1, Announced
  <2>3. main' \in MainPC /\ boxed' \in BOOLEAN
      BY <1>1, Announced DEF MainPC
  <2>4. Len(outbox') <= Capacity /\ unfinished' \in Nat
      BY <2>2, CapacityAssumption
  <2>5. /\ pump' \in PumpPC /\ snd' \in [Writers -> {"no", "queued", "written"}]
        /\ UNCHANGED <<ws, conn, hand, offered, dropped, sent, reader, reply>>
      BY <1>1, Announced
  <2> QED BY <1>1, <2>1, <2>2, <2>3, <2>4, <2>5 DEF TypeOK
<1>2. CASE Hangup
    BY <1>1, <1>2, HangupCases DEF TypeOK, MainPC, box, tall, back
<1>3. CASE Flushed \/ FlushTimeout
    BY <1>1, <1>3 DEF Flushed, FlushTimeout, TypeOK
<1>4. CASE Connected
  <2>1. wire' = <<Text("start")>> /\ Text("start") \in Msgs
      BY <1>4, MessageTypes DEF Connected
  <2>2. wire' \in Seq(Msgs)
      BY <2>1
  <2>3. snd' \in [Writers -> {"no", "queued", "written"}]
      BY <1>4 DEF Connected, TypeOK
  <2> QED BY <1>4, <2>2, <2>3 DEF Connected, TypeOK, MainPC, box, tall, back
<1>5. CASE DialFails
    BY <1>5 DEF DialFails, EnterLoop, TypeOK, MainPC, PumpPC, ReaderPC, ReaderOver, box, tall, back
<1>6. CASE StartPump
  <2>1. snd' \in [Writers -> {"no", "queued", "written"}] /\ ws' \in BOOLEAN
      BY <1>6, TextSentTypes DEF StartPump, Writers
  <2> QED BY <1>6, <2>1 DEF StartPump, EnterLoop, TypeOK, MainPC, PumpPC, ReaderPC, tall
<1>7. CASE SendAudio
  <2>1. offered' = offered + 1 /\ offered \in Nat /\ dropped \in Nat /\ dropped <= offered
        /\ sent \in Nat /\ sent <= offered /\ offered' \in 0..MaxFrames /\ offered' \in Frames
      BY <1>7, FramesAssumption DEF SendAudio, TypeOK, Frames
  <2>2. sent' \in 0..offered' /\ dropped' \in 0..offered'
      BY <1>7, <2>1 DEF SendAudio
  <2>3. outbox \in Seq(Frames) /\ Len(outbox) <= Capacity /\ Capacity \in Nat
      BY CapacityAssumption DEF TypeOK
  <2>4. /\ Append(outbox, offered') \in Seq(Frames)
        /\ Len(Append(outbox, offered')) = Len(outbox) + 1 /\ Len(outbox) \in Nat
      BY <2>1, <2>3, AppendElements
  <2>5. outbox' \in Seq(Frames) /\ Len(outbox') <= Capacity /\ unfinished' \in Nat
    <3>1. unfinished \in Nat /\ unfinished + 1 \in Nat
        BY DEF TypeOK
    <3>2. \/ outbox' = outbox /\ unfinished' = unfinished
          \/ outbox' = Append(outbox, offered') /\ unfinished' = unfinished + 1 /\ Len(outbox) < Capacity
        BY <1>7 DEF SendAudio
    <3>3. Len(outbox) < Capacity => Len(outbox) + 1 <= Capacity
        BY <2>3, <2>4
    <3> QED BY <2>3, <2>4, <3>1, <3>2, <3>3
  <2> QED BY <1>7, <2>1, <2>2, <2>5 DEF SendAudio, TypeOK, back
<1>8. CASE PumpTakes
  <2>1. outbox \in Seq(Frames) /\ outbox # <<>> /\ boxed /\ JoinExact /\ pump = "idle"
      BY <1>8 DEF PumpTakes, TypeOK, Boxes
  <2>2. /\ Tail(outbox) \in Seq(Frames) /\ Head(outbox) \in Frames
        /\ Len(Tail(outbox)) = Len(outbox) - 1 /\ Len(outbox) \in Nat \ {0}
      BY <2>1, TailElements
  <2>3. unfinished = Len(outbox) /\ Len(outbox) <= Capacity /\ Capacity \in Nat
      BY <2>1, <2>2, CapacityAssumption DEF JoinExact, TypeOK
  <2>4. /\ outbox' \in Seq(Frames) /\ Len(outbox') <= Capacity /\ hand' \in Frames
        /\ unfinished' \in Nat /\ pump' \in PumpPC
      BY <1>8, <2>1, <2>2, <2>3 DEF PumpTakes, PumpPC
  <2>5. snd' \in [Writers -> {"no", "queued", "written"}] /\ wire' \in Seq(Msgs)
    <3>1. Audio(hand') \in Msgs /\ "pump" \in Writers
        BY <2>4, MessageTypes DEF Writers
    <3> QED BY <1>8, <3>1, PostsTypes DEF PumpTakes, TypeOK
  <2> QED BY <1>8, <2>4, <2>5 DEF PumpTakes, TypeOK, tall, back
<1>9. CASE PumpTicksOff
  <2>1. pump = "hold" /\ JoinExact /\ boxed /\ outbox \in Seq(Frames) /\ Len(outbox) \in Nat
      BY <1>9 DEF PumpTicksOff, Boxes, TypeOK
  <2>2. unfinished = Len(outbox) + 1 /\ unfinished' = unfinished - 1
      BY <1>9, <2>1 DEF JoinExact, PumpTicksOff
  <2>3. /\ sent + dropped + Len(outbox) + 1 <= offered /\ sent \in Nat /\ dropped \in Nat
        /\ offered \in Nat
      BY <2>1, FramesAssumption DEF Counted, Hold, TypeOK
  <2>4. unfinished' \in Nat /\ sent' \in 0..offered
      BY <1>9, <2>1, <2>2, <2>3 DEF PumpTicksOff
  <2>5. snd' \in [Writers -> {"no", "queued", "written"}]
      BY <1>9 DEF PumpTicksOff, Returns, Raises, TypeOK
  <2> QED BY <1>9, <2>4, <2>5 DEF PumpTicksOff, TypeOK, PumpPC, back
<1>10. CASE PumpUnwinds
  <2>1. snd' \in [Writers -> {"no", "queued", "written"}]
      BY <1>10 DEF PumpUnwinds, TypeOK
  <2> QED BY <1>10, <2>1 DEF PumpUnwinds, TypeOK, PumpPC, tall, back
<1>11. CASE EndSent
  <2>1. snd' \in [Writers -> {"no", "queued", "written"}] /\ ws' \in BOOLEAN
      BY <1>11, TextSentTypes DEF EndSent, Writers
  <2> QED BY <1>11, <2>1 DEF EndSent, TypeOK, MainPC, box, tall, back
<1>12. CASE GraceOver
  <2>1. /\ main' \in MainPC /\ reader' \in ReaderPC /\ ws' \in BOOLEAN
        /\ UNCHANGED <<conn, box, snd, wire, tall, late, reply>>
      BY <1>12 DEF GraceOver, Close, TypeOK, MainPC, ReaderPC, back
  <2> QED BY <2>1 DEF TypeOK, box, tall
<1>13. CASE GraceTimeout
  <2>1. /\ main' \in MainPC /\ reader' \in ReaderPC /\ ws' \in BOOLEAN
        /\ UNCHANGED <<conn, box, snd, wire, tall, late, reply>>
      BY <1>13 DEF GraceTimeout, Close, TypeOK, MainPC, ReaderPC, back
  <2> QED BY <2>1 DEF TypeOK, box, tall
<1>14. CASE Closed
    BY <1>14 DEF Closed, TypeOK, MainPC, PumpPC, ReaderPC, ReaderOver, box, tall, back
<1>15. CASE ReaderStarts
    BY <1>15 DEF ReaderStarts, TypeOK, MainPC, PumpPC, ReaderPC, ReaderOver, box, tall, back
<1>16. CASE SpeechArrives
    BY <1>16 DEF SpeechArrives, TypeOK, MainPC, PumpPC, ReaderPC, ReaderOver, box, tall, back
<1>17. CASE SpeechPlayed
    BY <1>17 DEF SpeechPlayed, TypeOK, MainPC, PumpPC, ReaderPC, ReaderOver, box, tall, back
<1>18. CASE TranscriptArrives
    BY <1>18 DEF TranscriptArrives, TypeOK, MainPC, PumpPC, ReaderPC, ReaderOver, box, tall, back
<1>19. CASE ReaderEnds
    BY <1>19 DEF ReaderEnds, TypeOK, MainPC, PumpPC, ReaderPC, ReaderOver, box, tall, back
<1>20. CASE PeerCloses
    BY <1>20 DEF PeerCloses, TypeOK, MainPC, PumpPC, ReaderPC, ReaderOver, box, tall, back
<1>21. CASE Finished
    BY <1>21 DEF Finished, vars, TypeOK, MainPC, PumpPC, ReaderPC, ReaderOver, box, tall, back
<1>22. ASSUME NEW w \in Writers, GetsLock(w) PROVE TypeOK'
  <2>1. snd' \in [Writers -> {"no", "queued", "written"}]
      BY <1>22 DEF GetsLock, TypeOK
  <2>2. wire' \in Seq(Msgs)
      BY <1>22, MessageTypes, AppendElements DEF GetsLock, TypeOK
  <2> QED BY <1>22, <2>1, <2>2 DEF GetsLock, TypeOK, box, tall, back
<1>23. ASSUME NEW r \in Replies, SpeakStarts(r) PROVE TypeOK'
  <2>1. snd' \in [Writers -> {"no", "queued", "written"}] /\ wire' \in Seq(Msgs)
      BY <1>23, PostsTypes, MessageTypes DEF SpeakStarts, Writers, TypeOK
  <2>2. reply' \in [Replies -> {"no", "created", "sending", "over"}]
      BY <1>23 DEF SpeakStarts, TypeOK
  <2> QED BY <1>23, <2>1, <2>2 DEF SpeakStarts, TypeOK, box, tall
<1>24. ASSUME NEW r \in Replies, SpeakSent(r) PROVE TypeOK'
  <2>1. snd' \in [Writers -> {"no", "queued", "written"}] /\ ws' \in BOOLEAN
      BY <1>24, TextSentTypes DEF SpeakSent, Writers
  <2>2. reply' \in [Replies -> {"no", "created", "sending", "over"}]
      BY <1>24 DEF SpeakSent, TypeOK
  <2> QED BY <1>24, <2>1, <2>2 DEF SpeakSent, TypeOK, box, tall
<1>25. CASE UNCHANGED vars
    BY <1>25 DEF vars, TypeOK
<1> QED BY <1>2, <1>3, <1>4, <1>5, <1>6, <1>7, <1>8, <1>9, <1>10, <1>11, <1>12, <1>13,
          <1>14, <1>15, <1>16, <1>17, <1>18, <1>19, <1>20, <1>21, <1>22, <1>23, <1>24,
          <1>25 DEF Next, Main, Pump, Reader

(* Counts. *)
LEMMA CountedStep ==
    ASSUME IInv, [Next]_vars
    PROVE  Counted'
<1> USE RepliesAssumption DEF IInv
<1> DEFINE Kept == /\ AudioAt' = AudioAt /\ \A i \in AudioAt : wire'[i] = wire[i]
                   /\ EndWritten' => EndWritten \/ main' = "announce"
           Mains == main' \in {"dial", "start", "announce"} => main' = main
<1>t. /\ outbox \in Seq(Frames) /\ Len(outbox) \in Nat /\ offered \in Nat /\ dropped \in Nat
      /\ sent \in Nat /\ Cardinality(AudioAt) \in Nat /\ Mark \in Nat /\ Hold \in Nat
      /\ snd \in [Writers -> {"no", "queued", "written"}] /\ "pump" \in Writers
      /\ main \in MainPC /\ unfinished \in Nat
    BY AudioFinite, FramesAssumption DEF TypeOK, Mark, Hold, Writers
<1>k. ~PumpTakes /\ ~GetsLock("pump") => Kept
    BY AudioStep
<1>0. ASSUME Kept, Mains, UNCHANGED <<outbox, offered, dropped, sent, late, pump>>,
             ws' => ws, boxed' = boxed, snd'["pump"] = snd["pump"]
      PROVE  Counted'
    BY <1>0 DEF Counted, Hold, Mark
<1>1. CASE PumpTakes
  <2>1. /\ pump = "idle" /\ outbox # <<>> /\ outbox' = Tail(outbox) /\ boxed' = boxed /\ ws' = ws
        /\ UNCHANGED <<offered, dropped, sent, late, main>>
      BY <1>1 DEF PumpTakes, tall
  <2>2. Len(outbox') = Len(outbox) - 1 /\ Len(outbox) \in Nat \ {0}
      BY <1>t, <2>1, TailElements
  <2>3. Hold = 0 /\ Mark = 0 /\ boxed /\ main \in {"loop", "flush"} /\ ~EndWritten
      BY <2>1 DEF Hold, Mark, Senders, Boxes, Framed, Gone
  <2>4. ~EndWritten'
      BY FramedStep, <2>1, <2>3 DEF Framed, Gone
  <2>5. CASE ws
    <3>1. Hold' = 1
        BY <1>1, <2>5 DEF PumpTakes, Hold
    <3>2. Cardinality(AudioAt)' = Cardinality(AudioAt) + Mark'
      <4>1. Posts("pump", Audio(Head(outbox))) /\ Head(outbox) \in Frames
          BY <1>1, <1>t, <2>1, <2>5, TailElements DEF PumpTakes
      <4>2. CASE snd'["pump"] = "written" /\ wire' = Append(wire, Audio(Head(outbox)))
        <5>1. AudioAt' = AudioAt \cup {Len(wire) + 1}
            BY <4>1, <4>2, Written, MessageTypes DEF TypeOK, Audio
        <5> QED BY <4>2, <5>1, AudioFinite DEF Mark
      <4>3. CASE snd'["pump"] = "queued" /\ wire' = wire
          BY <1>t, <4>3, Unwritten DEF Mark
      <4> QED BY <1>t, <4>1, <4>2, <4>3 DEF Posts
    <3> QED BY <1>t, <2>1, <2>2, <2>3, <2>4, <2>5, <3>1, <3>2 DEF Counted
  <2>6. CASE ~ws
    <3>1. Hold' = 0
        BY <1>1, <2>1, <2>6 DEF PumpTakes, Hold
    <3> QED BY <1>t, <2>1, <2>2, <2>3, <2>4, <2>6, <3>1 DEF Counted
  <2> QED BY <2>5, <2>6
<1>2. CASE GetsLock("pump")
  <2>1. /\ snd["pump"] = "queued" /\ snd'["pump"] = "written" /\ wire' = Append(wire, Audio(hand))
        /\ UNCHANGED <<main, ws, boxed, outbox, pump, offered, dropped, sent, late>>
      BY <1>2, <1>t DEF GetsLock, Pending, box, tall
  <2>2. Audio(hand) \in Msgs
      BY DEF Audio, Msgs, TypeOK
  <2>3. AudioAt' = AudioAt \cup {Len(wire) + 1}
      BY <2>1, <2>2, Written DEF TypeOK, Audio
  <2>4. Cardinality(AudioAt)' = Cardinality(AudioAt) + 1 /\ Mark = 0 /\ Mark' = 1 /\ Hold' = Hold
      BY <2>1, <2>3, AudioFinite DEF Mark, Hold
  <2>5. pump = "hold" /\ main \in {"loop", "flush"} /\ ~EndWritten
      BY <2>1 DEF Senders, Boxes, Framed, Gone
  <2>6. ~EndWritten'
      BY FramedStep, <2>1, <2>5 DEF Framed, Gone
  <2> QED BY <1>t, <2>1, <2>4, <2>5, <2>6 DEF Counted
<1> SUFFICES ASSUME ~PumpTakes, ~GetsLock("pump") PROVE Counted'
    BY <1>1, <1>2
<1>3. Kept
    BY <1>k
<1>4. CASE SendAudio
  <2>1. main = "loop" /\ ~EndWritten /\ ~EndWritten' /\ main' = main /\ offered' = offered + 1
      BY <1>3, <1>4 DEF SendAudio, Framed, Gone
  <2>2. /\ ws' = ws /\ boxed' = boxed /\ sent' = sent /\ pump' = pump /\ snd' = snd
        /\ \/ (~ws \/ ~boxed) /\ outbox' = outbox /\ dropped' = dropped
           \/ outbox' = Append(outbox, offered') /\ dropped' = dropped
           \/ outbox' = outbox /\ dropped' = dropped + 1
      BY <1>4 DEF SendAudio
  <2>3. Hold' = Hold /\ Mark' = Mark
      BY <2>2 DEF Hold, Mark
  <2>4. outbox' = Append(outbox, offered') => Len(outbox') = Len(outbox) + 1
      BY <1>t
  <2>5. sent' + dropped' + Len(outbox') + Hold' <= offered'
    <3>1. sent + dropped + Len(outbox) + Hold <= offered
        BY DEF Counted
    <3>2. /\ sent' = sent
          /\ \/ Len(outbox') = Len(outbox) /\ dropped' \in {dropped, dropped + 1}
             \/ Len(outbox') = Len(outbox) + 1 /\ dropped' = dropped
        BY ONLY <2>2, <2>4
    <3>3. Hold \in {0, 1}
        BY DEF Hold
    <3>4. sent \in Nat /\ dropped \in Nat /\ Len(outbox) \in Nat /\ offered \in Nat
        BY <1>t
    <3> QED BY <2>1, <2>3, <3>1, <3>2, <3>3, <3>4
  <2>6. ws' /\ boxed' => offered' = sent' + dropped' + Len(outbox') + Hold'
    <3> SUFFICES ASSUME ws', boxed' PROVE offered' = sent' + dropped' + Len(outbox') + Hold'
        OBVIOUS
    <3>1. offered = sent + dropped + Len(outbox) + Hold
        BY <2>2 DEF Counted
    <3>2. Len(outbox') + dropped' = Len(outbox) + dropped + 1
      <4>1. ws /\ boxed
          BY <2>2
      <4>2. \/ outbox' = Append(outbox, offered') /\ dropped' = dropped
            \/ outbox' = outbox /\ dropped' = dropped + 1
          BY ONLY <2>2, <4>1
      <4> QED BY <1>t, <2>4, <4>2
    <3>3. Hold \in {0, 1} /\ sent \in Nat /\ dropped \in Nat /\ Len(outbox) \in Nat
        BY <1>t DEF Hold
    <3>4. sent' = sent /\ Len(outbox') \in Nat /\ dropped' \in Nat
      <4>1. TypeOK'
          BY TypeOKStep
      <4>2. outbox' \in Seq(Frames) /\ dropped' \in Nat
          BY ONLY <4>1 DEF TypeOK
      <4>3. Len(outbox') \in Nat
          BY ONLY <4>2
      <4> QED BY ONLY <2>2, <4>2, <4>3
    <3>5. offered' = offered + 1 /\ Hold' = Hold
        BY <2>1, <2>3
    <3>6. dropped' \in Nat /\ Len(outbox') \in Nat /\ Hold \in Nat
        BY ONLY <3>3, <3>4
    <3>7. offered + 1 = sent + dropped' + Len(outbox') + Hold
        BY ONLY <3>1, <3>2, <3>3, <3>6, SMTT(40)
    <3> QED BY ONLY <3>4, <3>5, <3>7
  <2>7. ws' /\ boxed' => Cardinality(AudioAt') = sent' + Mark'
      BY <1>3, <2>2, <2>3 DEF Counted
  <2> QED BY <2>1, <2>5, <2>6, <2>7 DEF Counted
<1>5. CASE PumpTicksOff
  <2>1. /\ pump = "hold" /\ main \in {"loop", "flush"} /\ ~EndWritten /\ ~EndWritten'
        /\ UNCHANGED <<main, boxed, outbox, offered, dropped, late>>
      BY <1>3, <1>5 DEF PumpTicksOff, Boxes, Framed, Gone
  <2>2. Hold = 1 /\ Hold' = 0 /\ Mark' = 0
      BY <1>5, <1>t DEF PumpTicksOff, Hold, Mark, Returns, Raises
  <2>3. CASE Returns("pump") /\ sent' = sent + 1 /\ UNCHANGED ws
    <3>1. Mark = 1
        BY <2>3 DEF Returns, Mark
    <3> QED BY <1>3, <1>t, <2>1, <2>2, <2>3, <3>1 DEF Counted
  <2>4. CASE ws' = FALSE /\ UNCHANGED sent
      BY <1>3, <1>t, <2>1, <2>2, <2>4 DEF Counted
  <2> QED BY <1>5, <2>3, <2>4 DEF PumpTicksOff
<1>6. ASSUME Announce, late' \/ ~ws \/ (unfinished = 0 /\ boxed), main \in {"loop", "flush"}
      PROVE  Counted'
  <2>1. Len(outbox') = 0 /\ Hold' = 0
      BY <1>6, Announced DEF Hold
  <2>2. ~boxed' /\ main' \in {"announce", "grace"} /\ (main' = "announce" => ws) /\ ~EndWritten
      BY <1>6, Announced DEF Framed, Gone
  <2>3. offered' = offered /\ sent' = sent /\ dropped' = dropped
      BY <1>6, Announced
  <2>4. sent + dropped <= offered
      BY <1>t DEF Counted
  <2>5. ASSUME ~late', main' = "announce" PROVE Cardinality(AudioAt) = sent /\ sent + dropped = offered
    <3>1. ws /\ boxed /\ unfinished = 0
        BY <1>6, <2>2, <2>5
    <3>2. Len(outbox) = 0 /\ Hold = 0 /\ pump # "hold"
        BY <1>t, <3>1 DEF Boxes, JoinExact, Hold
    <3>3. Mark = 0
        BY <3>1, <3>2 DEF Mark, Boxes, Senders
    <3> QED BY <1>t, <3>1, <3>2, <3>3 DEF Counted
  <2>6. ASSUME main' = "announce"
        PROVE  offered <= Cardinality(AudioAt) + dropped + Capacity + 1
    <3>1. ws /\ boxed
        BY <1>6, <2>2, <2>6 DEF Boxes
    <3>2. offered = sent + dropped + Len(outbox) + Hold /\ Cardinality(AudioAt) = sent + Mark
        BY <3>1 DEF Counted
    <3>3. Len(outbox) <= Capacity /\ Capacity \in Nat /\ Hold <= 1
        BY CapacityAssumption DEF TypeOK, Hold
    <3> QED BY ONLY <1>t, <3>2, <3>3
  <2> QED BY <1>3, <1>t, <2>1, <2>2, <2>3, <2>4, <2>5, <2>6 DEF Counted
<1>7. CASE Hangup
  <2>1. CASE main' = "flush" /\ UNCHANGED <<ws, conn, box, snd, wire, tall, back>>
      BY <1>0, <1>3, <1>7, <2>1, HangupCases DEF box, tall
  <2>2. CASE Announce /\ ~(pump # "none" /\ ws /\ unfinished > 0)
    <3>1. ws => boxed /\ unfinished = 0
        BY <1>7, <1>t, <2>2, HangupCases DEF Boxes
    <3> QED BY <1>6, <1>7, <2>2, <3>1, HangupCases
  <2> QED BY <1>7, <2>1, <2>2, HangupCases
<1>8. CASE Flushed
    BY <1>6, <1>8 DEF Flushed, Boxes
<1>9. CASE FlushTimeout
    BY <1>6, <1>9 DEF FlushTimeout
<1>10. CASE StartPump
  <2>1. /\ main = "start" /\ main' = "loop" /\ pump = "none" /\ pump' = "idle"
        /\ UNCHANGED <<outbox, offered, dropped, sent, late>>
      BY <1>10 DEF StartPump, EnterLoop, tall, Boxes
  <2>2. offered = 0 /\ sent = 0 /\ dropped = 0 /\ AudioAt = {} /\ ~EndWritten /\ Len(outbox) = 0
      BY <2>1 DEF Counted, Boxes, Framed, Gone
  <2>3. snd'["pump"] = "no"
      BY <1>10, <1>t, <2>1 DEF StartPump, TextSent, Returns, Raises, Expires, Senders
  <2>4. Hold' = 0 /\ Mark' = 0 /\ Cardinality(AudioAt') = 0
      BY <1>3, <2>1, <2>2, <2>3, FS_EmptySet DEF Hold, Mark
  <2> QED BY <1>3, <2>1, <2>2, <2>4 DEF Counted
<1>11. CASE Connected
  <2>1. /\ main = "dial" /\ main' = "start" /\ UNCHANGED <<boxed, outbox, pump, offered, dropped, sent, late>>
      BY <1>11 DEF Connected, box, tall
  <2>2. offered = 0 /\ sent = 0 /\ dropped = 0 /\ AudioAt = {} /\ ~EndWritten /\ Hold' = 0 /\ ~boxed
        /\ Len(outbox) = 0
      BY <2>1 DEF Counted, Boxes, Framed, Gone, Hold
  <2> QED BY <1>3, <2>1, <2>2 DEF Counted
<1>12. CASE PumpUnwinds
  <2>1. pump = "unwind" /\ pump' = "gone" /\ ~boxed /\ boxed' = boxed /\ Hold = 0 /\ Hold' = 0
      BY <1>12 DEF PumpUnwinds, Boxes, Hold
  <2> QED BY <1>3, <1>12, <2>1 DEF PumpUnwinds, tall, Counted
<1>13. CASE EndSent
    BY <1>0, <1>3, <1>13, <1>t DEF EndSent, TextSent, Returns, Raises, Expires, Senders, box, tall
<1>14. CASE DialFails
    BY <1>0, <1>3, <1>14, <1>t DEF DialFails, EnterLoop, box, tall
<1>15. CASE GraceOver
    BY <1>0, <1>3, <1>15, <1>t DEF GraceOver, Close, box, tall
<1>16. CASE GraceTimeout
    BY <1>0, <1>3, <1>16, <1>t DEF GraceTimeout, Close, box, tall
<1>17. CASE Closed
    BY <1>0, <1>3, <1>17, <1>t DEF Closed, box, tall
<1>18. CASE ReaderStarts
    BY <1>0, <1>3, <1>18, <1>t DEF ReaderStarts, box, tall
<1>19. CASE SpeechArrives
    BY <1>0, <1>3, <1>19, <1>t DEF SpeechArrives, box, tall
<1>20. CASE SpeechPlayed
    BY <1>0, <1>3, <1>20, <1>t DEF SpeechPlayed, box, tall
<1>21. CASE TranscriptArrives
    BY <1>0, <1>3, <1>21, <1>t DEF TranscriptArrives, box, tall
<1>22. CASE ReaderEnds
    BY <1>0, <1>3, <1>22, <1>t DEF ReaderEnds, box, tall
<1>23. CASE PeerCloses
    BY <1>0, <1>3, <1>23, <1>t DEF PeerCloses, box, tall
<1>24. CASE Finished
    BY <1>0, <1>3, <1>24, <1>t DEF Finished, vars, box, tall
<1>25. ASSUME NEW w \in Writers, GetsLock(w) PROVE Counted'
    BY <1>0, <1>3, <1>25, <1>t DEF GetsLock, box, tall
<1>26. ASSUME NEW r \in Replies, SpeakStarts(r) PROVE Counted'
    BY <1>0, <1>3, <1>26, <1>t DEF SpeakStarts, Posts, box, tall
<1>27. ASSUME NEW r \in Replies, SpeakSent(r) PROVE Counted'
    BY <1>0, <1>3, <1>27, <1>t DEF SpeakSent, TextSent, Returns, Raises, Expires, box, tall
<1>28. CASE UNCHANGED vars
    BY <1>0, <1>3, <1>28 DEF vars
<1> QED BY <1>4, <1>5, <1>7, <1>8, <1>9, <1>10, <1>11, <1>12, <1>13, <1>14, <1>15,
          <1>16, <1>17, <1>18, <1>19, <1>20, <1>21, <1>22, <1>23, <1>24, <1>25, <1>26,
          <1>27, <1>28 DEF Next, Main, Pump, Reader

LEMMA InitIInv == Init => IInv
<1> SUFFICES ASSUME Init PROVE IInv
    OBVIOUS
<1> USE CapacityAssumption, FramesAssumption DEF Init
<1>1. wire = <<>> /\ AudioAt = {} /\ ~EndWritten /\ CallFramed /\ Len(outbox) = 0
    BY DEF AudioAt, EndWritten, CallFramed
<1>2. Cardinality(AudioAt) = 0
    BY <1>1, FS_EmptySet
<1>3. TypeOK
  <2>1. main \in MainPC /\ pump \in PumpPC /\ reader \in ReaderPC /\ conn = "none"
      BY DEF MainPC, PumpPC, ReaderPC
  <2>2. ws \in BOOLEAN /\ boxed \in BOOLEAN /\ late \in BOOLEAN
      OBVIOUS
  <2>3. /\ outbox \in Seq(Frames) /\ wire \in Seq(Msgs) /\ Len(outbox) <= Capacity
        /\ unfinished \in Nat /\ hand \in Frames \cup {0}
      BY <1>1
  <2>4. /\ snd \in [Writers -> {"no", "queued", "written"}]
        /\ reply \in [Replies -> {"no", "created", "sending", "over"}]
      OBVIOUS
  <2>5. offered \in 0..MaxFrames /\ dropped \in 0..offered /\ sent \in 0..offered
      OBVIOUS
  <2> HIDE DEF Init
  <2> QED BY <2>1, <2>2, <2>3, <2>4, <2>5 DEF TypeOK
<1>4. Boxes /\ Senders /\ Links
    BY <1>1 DEF Boxes, JoinExact, Senders, Links, Writers
<1>5. Framed /\ Ordered /\ Counted
    BY <1>1, <1>2 DEF Framed, Ordered, Counted, Hold, Mark, Gone
<1> QED BY <1>3, <1>4, <1>5 DEF IInv

LEMMA Invariance == Spec => []IInv
<1>1. Init => IInv
    BY InitIInv
<1>2. IInv /\ [Next]_vars => IInv'
    BY TypeOKStep, BoxesStep, SendersStep, LinksStep, FramedStep, OrderedStep, CountedStep DEF IInv
<1> QED BY <1>1, <1>2, PTL DEF Spec

-----------------------------------------------------------------------------
(* The outbox never outgrows OUTBOUND_QUEUE_FRAMES, and no counter of the    *)
(* link exceeds the frames that were offered to it (session.py:135-171).     *)
THEOREM TypeCorrect == Spec => []TypeOK
<1>1. IInv => TypeOK
    BY DEF IInv
<1> QED BY <1>1, Invariance, PTL

(* outbox.join() waits for exactly the frames in the outbox and the one in   *)
(* the pump's hand (session.py:155-169).                                     *)
THEOREM JoinExactHolds == Spec => []JoinExact
<1>1. IInv => JoinExact
    BY DEF IInv, Boxes
<1> QED BY <1>1, Invariance, PTL

(* What the far side can receive is call_start, then the rest, and no audio  *)
(* after call_end (session.py:123-129, :235-246).                            *)
THEOREM CallFramedHolds == Spec => []CallFramed
<1>1. IInv => CallFramed
    BY DEF IInv, Framed
<1> QED BY <1>1, Invariance, PTL

(* A call_end whose flush did not time out follows every accepted frame, in  *)
(* order (session.py:236-244).                                               *)
THEOREM NoTruncationHolds == Spec => []NoTruncation
<1>1. IInv => NoTruncation
    BY DEF IInv, Counted, Ordered, NoTruncation
<1> QED BY <1>1, Invariance, PTL

(* Whenever call_end is written, at most a full outbox and one frame are      *)
(* missing without having been counted (session.py:238-245).                 *)
THEOREM LossBoundedHolds == Spec => []LossBounded
<1>1. IInv => LossBounded
    BY DEF IInv, Counted, LossBounded
<1> QED BY <1>1, Invariance, PTL

(* The phone closes a live connection only after its grace, or after its own *)
(* sink failed (session.py:307-314).                                         *)
THEOREM WaitsForTheAnswerHolds == Spec => []WaitsForTheAnswer
<1>1. IInv => WaitsForTheAnswer
    BY DEF IInv, Links, WaitsForTheAnswer
<1> QED BY <1>1, Invariance, PTL
=============================================================================
