-------------------------------- MODULE Gates --------------------------------
(***************************************************************************)
(* What consume_chunks does with an utterance before the model sees it: its  *)
(* speech profile (audio.speech_profile) is measured, the filler gates       *)
(* (main.filler_reason) look at the profile, and what passes is trimmed      *)
(* (audio.trim_trailing_silence).                                           *)
(*                                                                         *)
(* A chunk is the levels (RMS) of its whole frames and the number of samples *)
(* behind them.  Durations are counted in frames, lengths in samples.       *)
(***************************************************************************)
EXTENDS Integers, Sequences, FiniteSets, SequencesExt

CONSTANTS
    Hop,        \* samples of a frame
    Keep,       \* samples of silence kept behind the last loud frame
    Floor,      \* SPEECH_FRAME_FLOOR
    ClickMax,   \* B2_MAX_SPEECH_SECONDS, in frames
    RunFloor,   \* min_speech_floor_ms, in frames
    MinSpeech,  \* min_speech_ms, in frames
    MinLevel,   \* min_speech_rms
    MaxFrames,  \* bound: whole frames of a chunk
    MaxLevel    \* bound: levels

ASSUME SizesAssumption == {Hop, Keep} \subseteq Nat \ {0}
ASSUME ThresholdsAssumption ==
    {Floor, ClickMax, RunFloor, MinSpeech, MinLevel, MaxFrames, MaxLevel} \subseteq Nat

VARIABLES chunk, stage, target

vars == <<chunk, stage, target>>

-----------------------------------------------------------------------------
Length(c) == Len(c.levels) * Hop + c.rest

(* The number of frames _frame_rms measures.                                *)
FrameCount(c) ==
    LET frames == 0 - ((Hop - Length(c)) \div Hop)
    IN IF frames < 0 THEN 0 ELSE frames

Voiced(c) == SubSeq(c.levels, 1, FrameCount(c))
Loud(c) == {i \in DOMAIN Voiced(c) : Voiced(c)[i] > Floor}

(* Mutant of LongestRun: quiet frames do not end a run.                     *)
LongestRunUnbroken(c) == Cardinality(Loud(c))

(* The longest run of loud frames, as the loop in speech_profile counts it. *)
CountRun(acc, level) ==
    LET run == IF level > Floor THEN acc.run + 1 ELSE 0
    IN [run |-> run, best |-> IF run > acc.best THEN run ELSE acc.best]

LongestRun(c) == FoldLeft(CountRun, [run |-> 0, best |-> 0], Voiced(c)).best

AddLoud(sum, level) == IF level > Floor THEN sum + level ELSE sum

(* mean_rms is total / speech, and 0 without speech.                        *)
SpeechProfile(c) ==
    [speech |-> Cardinality(Loud(c)),
     total  |-> FoldLeft(AddLoud, 0, Voiced(c)),
     run    |-> LongestRun(c)]

Fainter(p, level) == IF p.speech = 0 THEN 0 < level ELSE p.total < level * p.speech

FillerReason(p, final) ==
    IF final /\ p.speech < ClickMax THEN "click"
    ELSE IF p.run < RunFloor THEN "taps"
    ELSE IF p.speech < MinSpeech /\ Fainter(p, MinLevel) THEN "near-silence"
    ELSE "none"

(* Mutant of TrimmedLength: nothing is kept behind the last loud frame.     *)
TrimmedLengthBare(c) ==
    IF Loud(c) = {} THEN Length(c)
    ELSE Hop * CHOOSE i \in Loud(c) : \A j \in Loud(c) : j <= i

TrimmedLength(c) ==
    LET last == CHOOSE i \in Loud(c) : \A j \in Loud(c) : j <= i
        end == last * Hop + Keep
    IN IF Loud(c) = {} \/ end > Length(c) THEN Length(c) ELSE end

(* The first n samples.                                                     *)
Cut(c, n) == [c EXCEPT !.levels = SubSeq(c.levels, 1, n \div Hop), !.rest = n % Hop]

-----------------------------------------------------------------------------
Chunks == [levels : UNION {[1..n -> 0..MaxLevel] : n \in 0..MaxFrames},
           rest : 0..(Hop - 1), final : BOOLEAN]

Init == /\ chunk \in {c \in Chunks : Length(c) > 0}
        /\ stage = "taken" /\ target = chunk

Drop == /\ stage = "taken"
        /\ FillerReason(SpeechProfile(chunk), chunk.final) # "none"
        /\ stage' = "dropped" /\ UNCHANGED <<chunk, target>>

Trim == /\ stage = "taken"
        /\ FillerReason(SpeechProfile(chunk), chunk.final) = "none"
        /\ target' = Cut(chunk, TrimmedLength(chunk))
        /\ stage' = "decoded" /\ UNCHANGED chunk

Next == Drop \/ Trim

Spec == Init /\ [][Next]_vars

-----------------------------------------------------------------------------
(* audio.py:133-137.  The run is the longest stretch of loud frames with no   *)
(* quiet one between them, wherever in the chunk it lies.                   *)
RunIsLongest ==
    LET IsRun(k) == \E i \in 0..FrameCount(chunk) : (i + 1)..(i + k) \subseteq Loud(chunk)
        k == LongestRun(chunk)
    IN IsRun(k) /\ ~IsRun(k + 1)

(* audio.py:146-166.  Trimming is invisible to the measurement: what the     *)
(* model gets has the profile the gates saw, although it is framed anew and   *)
(* its last frame may now be another one.                                   *)
TrimKeepsProfile == SpeechProfile(target) = SpeechProfile(chunk)

(* test_server.py:571, "test_speech_is_never_truncated": no whole frame of   *)
(* speech is trimmed off.                                                   *)
SpeechNeverTruncated ==
    \A i \in DOMAIN chunk.levels : chunk.levels[i] > Floor => i * Hop <= Length(target)
=============================================================================
