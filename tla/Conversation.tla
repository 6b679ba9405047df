---------------------------- MODULE Conversation ----------------------------
(***************************************************************************)
(* What the phone machine and the STT machine together promise about one    *)
(* call, seen from the phone: transcripts reach it in the order in which    *)
(* the utterances were spoken, none twice and none after the call.          *)
(***************************************************************************)
EXTENDS Naturals, Sequences

VARIABLES
    phase,   \* "talking", "hungup", "over"
    said,    \* utterances cut from the caller's audio so far
    heard    \* the utterances whose transcripts reached the sink, in order

vars == <<phase, said, heard>>

Init == phase = "talking" /\ said = 0 /\ heard = <<>>

Latest == IF heard = <<>> THEN 0 ELSE heard[Len(heard)]

(* Also after the hangup, which cuts off an utterance of its own.           *)
Say == said' = said + 1 /\ UNCHANGED <<phase, heard>>

Hear ==
    /\ phase # "over"
    /\ \E n \in Latest + 1 .. said : heard' = Append(heard, n)
    /\ UNCHANGED <<phase, said>>

HangUp == phase = "talking" /\ phase' = "hungup" /\ UNCHANGED <<said, heard>>
End    == phase = "hungup" /\ phase' = "over" /\ UNCHANGED <<said, heard>>

Next == Say \/ Hear \/ HangUp \/ End

Spec == Init /\ [][Next]_vars
=============================================================================
