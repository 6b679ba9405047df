----------------------------- MODULE Segmenter -----------------------------
(***************************************************************************)
(* audio.Segmenter: the preroll ring, the chunk buffer and the endpointing   *)
(* of one audio stream.  A sample is its number in the stream (0 is what the *)
(* ring holds at first), and whether a block is loud is left open.  Blocks   *)
(* have the segmenter's own size, as both its callers see to it             *)
(* (server.py:127-140, and the block size of the microphone stream).         *)
(***************************************************************************)
EXTENDS Integers, Sequences

CONSTANTS
    Blocks,     \* block_size values
    Prerolls,   \* preroll_samples values
    Limits,     \* max_chunk_samples values
    Hangovers,  \* hangover_blocks values
    MaxHeard    \* bound: samples in one stream

ASSUME ParametersAssumption ==
    Blocks \cup Prerolls \cup Limits \cup Hangovers \subseteq Nat \ {0}
ASSUME HeardAssumption == MaxHeard \in Nat

VARIABLES
    par,    \* block_size, preroll_samples, max_chunk_samples, hangover_blocks
    heard,  \* history: samples processed so far
    floor,  \* history: the last sample processed when the latest chunk closed
    ring,   \* _preroll
    pos,    \* _preroll_pos
    filled, \* _preroll_filled
    chunk,  \* _chunk up to _chunk_pos
    open,   \* _open
    silence,\* _silence_run
    out     \* what the last call returned; << >> for None

vars == <<par, heard, floor, ring, pos, filled, chunk, open, silence, out>>

U == INSTANCE Utterances WITH from <- IF open THEN chunk[1] ELSE 0, quiet <- silence

Slots     == 0..par.preroll - 1
NextBlock == [i \in 1..par.block |-> heard + i]

Init == /\ par \in U!Parameters
        /\ heard = 0 /\ floor = 0
        /\ ring = [j \in Slots |-> 0] /\ pos = 0 /\ filled = 0
        /\ chunk = <<>> /\ open = FALSE /\ silence = 0
        /\ out = <<>>

-----------------------------------------------------------------------------
(* A block as long as the ring replaces it; a shorter one is written from    *)
(* pos on and wraps around.                                                  *)
WritePreroll(block) ==
    LET P == par.preroll  n == Len(block)
    IN IF n >= P
       THEN /\ ring' = [j \in Slots |-> block[n - P + 1 + j]]
            /\ pos' = 0 /\ filled' = P
       ELSE /\ ring' = [j \in Slots |-> CASE pos <= j /\ j < pos + n -> block[j - pos + 1]
                                          [] j < pos + n - P -> block[P - pos + j + 1]
                                          [] OTHER -> ring[j]]
            /\ pos' = (pos + n) % P
            /\ filled' = U!Smaller(P, filled + n)

(* Mutant of PrerollOrdered: a full ring is read from its first slot.        *)
PrerollUnrotated == [i \in 1..filled |-> ring[i - 1]]

PrerollOrdered ==
    IF filled < par.preroll
    THEN [i \in 1..filled |-> ring[i - 1]]
    ELSE [i \in 1..par.preroll |->
            IF pos + i <= par.preroll THEN ring[pos + i - 1]
                                      ELSE ring[pos + i - par.preroll - 1]]

(* Mutant of Appended: the chunk buffer has no end.                          *)
AppendedUnbounded(c, block) == c \o block

(* What does not fit into the chunk buffer is lost.                          *)
Appended(c, block) ==
    c \o SubSeq(block, 1, U!Smaller(Len(block), par.limit - Len(c)))

(* Mutant of Close: the ring keeps what it held before the utterance.        *)
CloseOverStaleRing(c, now) ==
    /\ out' = c /\ floor' = now
    /\ chunk' = <<>> /\ open' = FALSE /\ silence' = 0
    /\ UNCHANGED <<pos, filled, ring>>

(* _close: hands the chunk over; the ring is emptied by its counters alone.  *)
Close(c, now) ==
    /\ out' = c /\ floor' = now
    /\ chunk' = <<>> /\ open' = FALSE /\ silence' = 0
    /\ pos' = 0 /\ filled' = 0 /\ UNCHANGED ring

(* process, while no utterance is open                                       *)
Wait ==
    /\ ~open /\ WritePreroll(NextBlock)
    /\ out' = <<>> /\ UNCHANGED <<floor, chunk, open, silence>>

(* Mutant of Open: the opening block goes through the preroll as well.       *)
OpenTwice ==
    /\ ~open /\ open' = TRUE /\ silence' = 0
    /\ chunk' = Appended(Appended(PrerollOrdered, NextBlock), NextBlock)
    /\ out' = <<>> /\ UNCHANGED <<floor, ring, pos, filled>>

Open ==
    /\ ~open /\ open' = TRUE /\ silence' = 0
    /\ chunk' = Appended(PrerollOrdered, NextBlock)
    /\ out' = <<>> /\ UNCHANGED <<floor, ring, pos, filled>>

(* Mutant of SilenceRun: quiet blocks add up over the whole utterance.       *)
SilenceTotal(loud) == IF loud THEN silence ELSE silence + 1

SilenceRun(loud) == IF loud THEN 0 ELSE silence + 1

(* process, while one is                                                     *)
Continue(loud) ==
    LET c == Appended(chunk, NextBlock)
    IN /\ open
       /\ IF SilenceRun(loud) >= par.hangover \/ Len(c) >= par.limit
          THEN Close(c, heard + par.block)
          ELSE /\ chunk' = c /\ silence' = SilenceRun(loud) /\ out' = <<>>
               /\ UNCHANGED <<floor, ring, pos, filled, open>>

Process(loud) ==
    /\ heard + par.block <= MaxHeard
    /\ heard' = heard + par.block
    /\ \/ ~loud /\ Wait
       \/ loud /\ Open
       \/ Continue(loud)
    /\ UNCHANGED par

Flush ==
    /\ IF open THEN Close(chunk, heard)
               ELSE out' = <<>> /\ UNCHANGED <<floor, ring, pos, filled, chunk, open, silence>>
    /\ UNCHANGED <<par, heard>>

Next == Flush \/ \E loud \in BOOLEAN : Process(loud)

Spec == Init /\ [][Next]_vars

-----------------------------------------------------------------------------
TypeOK ==
    /\ par \in U!Parameters
    /\ heard \in 0..MaxHeard /\ floor \in 0..heard
    /\ ring \in [Slots -> Nat]
    /\ pos \in Slots /\ filled \in 0..par.preroll
    /\ chunk \in Seq(Nat) /\ Len(chunk) <= par.limit
    /\ open \in BOOLEAN /\ (open <=> chunk # <<>>)
    /\ silence \in Nat
    /\ out \in Seq(Nat)

(* audio.py:222-233.  Between utterances the ring, read in order, is exactly *)
(* the latest audio since the last utterance closed: as much as fits, none   *)
(* of it older, none twice.                                                  *)
PrerollFresh ==
    ~open => /\ PrerollOrdered = U!Window(heard - filled + 1, heard)
             /\ filled = U!Smaller(par.preroll, heard - floor)

(* audio.py:279-287.  An open chunk is one stretch of the stream up to this  *)
(* moment: no sample missing, none twice, unless it is full.                 *)
ChunkUnbroken ==
    open => /\ chunk = U!Window(chunk[1], chunk[1] + Len(chunk) - 1)
            /\ Len(chunk) = U!Smaller(par.limit, heard - chunk[1] + 1)

(* audio.py:197-198.  A chunk is never handed audio that predates the end of *)
(* the previous chunk, so no sample is transcribed twice.                    *)
NoStaleAudio == [][out' # <<>> => out'[1] > floor]_vars

(* audio.py:271-295.  What the ring and the buffer hand over are the windows *)
(* of Utterances: the preroll, the blocks up to the silence, nothing else.   *)
ImplementsUtterances == U!Spec
=============================================================================
