----------------------------- MODULE Utterances -----------------------------
(***************************************************************************)
(* What audio.Segmenter promises, with no buffer in sight: the samples of a *)
(* stream are numbered 1, 2, ... and an utterance is a window of them.  It   *)
(* reaches back `preroll` samples before the loud block that opened it, but  *)
(* never past the end of the one before, and it is cut at `limit` samples.   *)
(***************************************************************************)
EXTENDS Integers, Sequences

CONSTANTS
    Blocks,     \* block_size values
    Prerolls,   \* preroll_samples values
    Limits,     \* max_chunk_samples values
    Hangovers,  \* hangover_blocks values
    MaxHeard    \* bound: samples in one stream

(* The preroll has to fit into a chunk.                                     *)
Parameters == {p \in [block : Blocks, preroll : Prerolls, limit : Limits,
                      hangover : Hangovers] : p.preroll <= p.limit}

VARIABLES
    par,    \* the parameters of this stream
    heard,  \* samples heard so far
    floor,  \* the last sample heard when the latest utterance closed
    from,   \* the first sample of the open utterance, or 0
    quiet,  \* quiet blocks at its end
    out     \* the utterance handed over by the last step, or << >>

vars == <<par, heard, floor, from, quiet, out>>

Larger(a, b)   == IF a >= b THEN a ELSE b
Smaller(a, b)  == IF a <= b THEN a ELSE b
Window(lo, hi) == [i \in 1..hi - lo + 1 |-> lo + i - 1]

Init == /\ par \in Parameters
        /\ heard = 0 /\ floor = 0 /\ from = 0 /\ quiet = 0 /\ out = <<>>

(* The utterance opened at `from` ends with sample `now`.                    *)
Finish(now) ==
    /\ out' = Window(from, Smaller(now, from + par.limit - 1))
    /\ floor' = now /\ from' = 0 /\ quiet' = 0

(* A quiet block between utterances.                                         *)
Wait(now) ==
    /\ from = 0
    /\ out' = <<>> /\ UNCHANGED <<floor, from, quiet>>

(* A loud block opens one.                                                   *)
Open(now) ==
    /\ from = 0
    /\ from' = Larger(floor, heard - par.preroll) + 1
    /\ quiet' = 0 /\ out' = <<>> /\ UNCHANGED floor

(* A block of an open one: long silence or the limit ends it.                *)
Continue(now, loud) ==
    LET run == IF loud THEN 0 ELSE quiet + 1
    IN /\ from # 0
       /\ IF run >= par.hangover \/ now - from + 1 >= par.limit
          THEN Finish(now)
          ELSE quiet' = run /\ out' = <<>> /\ UNCHANGED <<floor, from>>

Hear(loud) ==
    LET now == heard + par.block
    IN /\ now <= MaxHeard
       /\ heard' = now
       /\ \/ ~loud /\ Wait(now)
          \/ loud /\ Open(now)
          \/ Continue(now, loud)
       /\ UNCHANGED par

(* Hangup, or an idle line.                                                  *)
Flush ==
    /\ IF from # 0 THEN Finish(heard)
                   ELSE out' = <<>> /\ UNCHANGED <<floor, from, quiet>>
    /\ UNCHANGED <<par, heard>>

Next == Flush \/ \E loud \in BOOLEAN : Hear(loud)

Spec == Init /\ [][Next]_vars
=============================================================================
