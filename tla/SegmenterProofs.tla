-------------------------- MODULE SegmenterProofs --------------------------
(***************************************************************************)
(* Segmenter keeps its invariants and implements Utterances, for all         *)
(* parameters.                                                              *)
(***************************************************************************)
EXTENDS Segmenter, SequenceTheorems, TLAPS

(* Between utterances every slot of the ring that has been written since the *)
(* last close holds the sample its distance from pos stands for.             *)
RingHolds ==
    ~open => /\ filled = U!Smaller(par.preroll, heard - floor)
             /\ filled < par.preroll => pos = filled
             /\ \A j \in Slots :
                   /\ j < pos => ring[j] = heard - pos + j + 1
                   /\ j >= pos /\ filled = par.preroll
                         => ring[j] = heard - par.preroll - pos + j + 1

OpenAfterFloor == open => chunk[1] \in floor + 1..heard

IInv == TypeOK /\ RingHolds /\ ChunkUnbroken /\ OpenAfterFloor

-----------------------------------------------------------------------------
(* The remainder, as the ring needs it.                                     *)
LEMMA RingIndex ==
    ASSUME NEW p \in Nat \ {0}, NEW a \in Nat, a < p + p
    PROVE  a % p = IF a < p THEN a ELSE a - p
<1>1. a < p => a % p = a
    BY SMT
<1>2. p <= a => a % p = a - p
    BY SMT
<1> QED
    BY <1>1, <1>2

(* A window is a sequence of consecutive numbers.                           *)
LEMMA WindowSeq ==
    ASSUME NEW lo \in Nat, NEW hi \in Int, lo <= hi + 1
    PROVE  /\ U!Window(lo, hi) \in Seq(Nat)
           /\ Len(U!Window(lo, hi)) = hi - lo + 1
           /\ \A i \in 1..hi - lo + 1 : U!Window(lo, hi)[i] = lo + i - 1
BY DEF U!Window

(* Appending the samples that follow a window makes it longer.              *)
LEMMA WindowGrows ==
    ASSUME NEW lo \in Nat, NEW hi \in Int, NEW n \in Nat, NEW m \in 0..n, lo <= hi + 1
    PROVE  U!Window(lo, hi) \o SubSeq(U!Window(hi + 1, hi + n), 1, m) = U!Window(lo, hi + m)
<1> DEFINE w == U!Window(lo, hi)
           b == U!Window(hi + 1, hi + n)
           s == SubSeq(b, 1, m)
           r == U!Window(lo, hi + m)
<1>1. /\ w \in Seq(Nat) /\ Len(w) = hi - lo + 1
      /\ \A i \in 1..hi - lo + 1 : w[i] = lo + i - 1
    BY WindowSeq
<1>2. hi + 1 \in Nat
    OBVIOUS
<1>3. /\ b \in Seq(Nat) /\ Len(b) = n
      /\ \A i \in 1..n : b[i] = hi + i
    BY <1>2, WindowSeq
<1>4. /\ r \in Seq(Nat) /\ Len(r) = hi + m - lo + 1
      /\ \A i \in 1..hi + m - lo + 1 : r[i] = lo + i - 1
  <2>1. hi + m \in Int /\ lo <= hi + m + 1
      OBVIOUS
  <2> QED
      BY <2>1, WindowSeq
<1> HIDE DEF w, b, r
<1>5. \A i \in 1..m : b[i] \in Nat
    BY <1>2, <1>3
<1>6. s \in Seq(Nat) /\ Len(s) = m /\ \A i \in 1..m : s[i] = b[i]
    BY <1>5, SubSeqProperties
<1> HIDE DEF s
<1>7. /\ w \o s \in Seq(Nat) /\ Len(w \o s) = Len(w) + Len(s)
      /\ \A i \in 1..Len(w) + Len(s) :
            (w \o s)[i] = IF i <= Len(w) THEN w[i] ELSE s[i - Len(w)]
    BY <1>1, <1>6, ConcatProperties
<1>8. ASSUME NEW i \in 1..Len(w) + Len(s) PROVE (w \o s)[i] = r[i]
  <2>1. r[i] = lo + i - 1
      BY <1>1, <1>4, <1>6
  <2>2. CASE i <= Len(w)
      BY <1>1, <1>7, <2>1, <2>2
  <2>3. CASE i > Len(w)
    <3>1. i - Len(w) \in 1..m /\ i - Len(w) \in 1..n
        BY <1>1, <1>6, <2>3
    <3>2. s[i - Len(w)] = hi + (i - Len(w))
        BY <1>3, <1>6, <3>1
    <3>3. (w \o s)[i] = s[i - Len(w)]
        BY <1>1, <1>6, <1>7, <2>3
    <3> QED
        BY <1>1, <2>1, <3>2, <3>3
  <2> QED
      BY <1>1, <1>6, <2>2, <2>3
<1>9. w \o s = r
  <2>1. Len(w \o s) = Len(r)
      BY <1>1, <1>4, <1>6, <1>7
  <2>2. \A i \in 1..Len(w \o s) : (w \o s)[i] = r[i]
      BY <1>7, <1>8
  <2> QED
      BY <1>4, <1>7, <2>1, <2>2, SeqEqual
<1> QED
    BY <1>9 DEF w, b, s, r

(* The parameters are positive numbers, and the preroll fits into a chunk.  *)
LEMMA ParTypes ==
    ASSUME par \in U!Parameters
    PROVE  /\ par.block \in Nat \ {0} /\ par.preroll \in Nat \ {0}
           /\ par.limit \in Nat \ {0} /\ par.hangover \in Nat \ {0}
           /\ par.preroll <= par.limit
BY ParametersAssumption DEF U!Parameters

(* The next block added to a chunk that has room for some of it, or none.   *)
LEMMA AppendedWindow ==
    ASSUME par \in U!Parameters, heard \in Nat,
           NEW from \in 1..heard + 1,
           NEW len \in Nat, len = U!Smaller(par.limit, heard - from + 1)
    PROVE  Appended(U!Window(from, from + len - 1), NextBlock)
             = U!Window(from, from + U!Smaller(par.limit, heard + par.block - from + 1) - 1)
<1> DEFINE c == U!Window(from, from + len - 1)
           b == U!Window(heard + 1, heard + par.block)
           m == U!Smaller(par.block, par.limit - len)
<1>0. par.block \in Nat \ {0} /\ par.limit \in Nat \ {0} /\ len <= par.limit
    BY ParTypes DEF U!Smaller
<1>1. NextBlock = b
    BY <1>0 DEF NextBlock, U!Window
<1>2. Len(c) = len /\ c \in Seq(Nat)
  <2>1. from \in Nat /\ from + len - 1 \in Int /\ from <= (from + len - 1) + 1
      OBVIOUS
  <2>2. (from + len - 1) - from + 1 = len
      OBVIOUS
  <2> QED
      BY <2>1, <2>2, WindowSeq
<1>3. Len(b) = par.block
  <2>1. heard + 1 \in Nat /\ heard + par.block \in Int /\ heard + 1 <= (heard + par.block) + 1
      BY <1>0
  <2>2. (heard + par.block) - (heard + 1) + 1 = par.block
      BY <1>0
  <2> QED
      BY <2>1, <2>2, WindowSeq
<1>4. Appended(c, NextBlock) = c \o SubSeq(b, 1, m)
    BY <1>1, <1>2, <1>3 DEF Appended
<1>5. CASE len = par.limit
  <2>1. m = 0
      BY <1>0, <1>5 DEF U!Smaller
  <2>2. c \o SubSeq(b, 1, m) = c
      BY <1>2, <2>1, SubSeqEmpty, ConcatEmptySeq
  <2>3. U!Smaller(par.limit, heard + par.block - from + 1) = len
      BY <1>0, <1>5 DEF U!Smaller
  <2> QED
      BY <1>4, <2>2, <2>3
<1>6. CASE len # par.limit
  <2>1. len = heard - from + 1 /\ from + len - 1 = heard
      BY <1>6 DEF U!Smaller
  <2>2. m \in 0..par.block
      BY <1>0 DEF U!Smaller
  <2>3. c \o SubSeq(b, 1, m) = U!Window(from, heard + m)
    <3>1. from \in Nat /\ heard \in Int /\ par.block \in Nat /\ from <= heard + 1
        BY <1>0
    <3> QED
        BY <2>1, <2>2, <3>1, WindowGrows
  <2>4. heard + m = from + U!Smaller(par.limit, heard + par.block - from + 1) - 1
      BY <1>0, <2>1 DEF U!Smaller
  <2> QED
      BY <1>4, <2>3, <2>4
<1> QED
    BY <1>5, <1>6

-----------------------------------------------------------------------------
(* audio.py:222-233.  The ring read in order is the window before this block.*)
LEMMA PrerollWindow ==
    ASSUME TypeOK, RingHolds, ~open
    PROVE  PrerollOrdered = U!Window(heard - filled + 1, heard)
<1>1. par.preroll \in Nat \ {0}
    BY ParTypes DEF TypeOK
<1>2. heard \in Nat /\ floor \in Nat /\ pos \in 0..par.preroll - 1 /\ filled \in 0..par.preroll
    BY DEF TypeOK, Slots
<1>3. CASE filled < par.preroll
  <2>1. \A i \in 1..filled : ring[i - 1] = heard - filled + i
      BY <1>1, <1>2, <1>3 DEF RingHolds, Slots
  <2>2. PrerollOrdered = [i \in 1..filled |-> ring[i - 1]]
      BY <1>3 DEF PrerollOrdered
  <2>3. heard - (heard - filled + 1) + 1 = filled
      BY <1>2
  <2>4. \A i \in 1..filled : (heard - filled + 1) + i - 1 = heard - filled + i
      BY <1>2
  <2> QED
      BY <2>1, <2>2, <2>3, <2>4 DEF U!Window
<1>4. CASE filled = par.preroll
  <2> DEFINE at(i) == IF pos + i <= par.preroll THEN ring[pos + i - 1]
                                                ELSE ring[pos + i - par.preroll - 1]
  <2>1. ASSUME NEW i \in 1..par.preroll PROVE at(i) = heard - filled + i
    <3>1. CASE pos + i <= par.preroll
      <4>1. pos + i - 1 \in Slots /\ pos + i - 1 >= pos
          BY <1>1, <1>2, <3>1 DEF Slots
      <4> QED
          BY <1>1, <1>2, <1>4, <3>1, <4>1 DEF RingHolds
    <3>2. CASE pos + i > par.preroll
      <4>1. pos + i - par.preroll - 1 \in Slots /\ pos + i - par.preroll - 1 < pos
          BY <1>1, <1>2, <3>2 DEF Slots
      <4> QED
          BY <1>1, <1>2, <1>4, <3>2, <4>1 DEF RingHolds
    <3> QED
        BY <1>1, <1>2, <3>1, <3>2
  <2>2. PrerollOrdered = [i \in 1..filled |-> at(i)]
    <3>1. ~(filled < par.preroll)
        BY <1>1, <1>4
    <3> QED
        BY <1>4, <3>1 DEF PrerollOrdered
  <2>3. heard - (heard - filled + 1) + 1 = filled
      BY <1>2
  <2>4. \A i \in 1..filled : (heard - filled + 1) + i - 1 = heard - filled + i
      BY <1>2
  <2> HIDE DEF at
  <2> QED
      BY <1>4, <2>1, <2>2, <2>3, <2>4 DEF U!Window
<1> QED
    BY <1>1, <1>2, <1>3, <1>4

(* audio.py:205-220.  Writing a quiet block keeps the ring in order.        *)
LEMMA WritePrerollHolds ==
    ASSUME TypeOK, RingHolds, ~open, WritePreroll(NextBlock),
           heard' = heard + par.block, UNCHANGED <<par, floor, open>>
    PROVE  /\ ring' \in [Slots -> Nat] /\ pos' \in Slots /\ filled' \in 0..par.preroll
           /\ RingHolds'
<1> DEFINE P == par.preroll
           n == par.block
<1>1. P \in Nat \ {0} /\ n \in Nat \ {0}
    BY ParTypes DEF TypeOK
<1>2. /\ heard \in Nat /\ floor \in Nat /\ floor <= heard
      /\ pos \in 0..P - 1 /\ filled \in 0..P /\ ring \in [Slots -> Nat]
    BY DEF TypeOK, Slots
<1>3. /\ Len(NextBlock) = n
      /\ \A i \in 1..n : NextBlock[i] = heard + i
    BY <1>1 DEF NextBlock
<1>4. Slots' = Slots /\ Slots = 0..P - 1
    BY DEF Slots
<1>5. /\ filled = U!Smaller(P, heard - floor)
      /\ filled < P => pos = filled
      /\ \A j \in Slots : /\ j < pos => ring[j] = heard - pos + j + 1
                          /\ j >= pos /\ filled = P => ring[j] = heard - P - pos + j + 1
    BY DEF RingHolds
<1>6. heard' = heard + n
    OBVIOUS
<1> HIDE DEF P, n
<1>7. CASE n >= P
  <2>1. /\ ring' = [j \in Slots |-> NextBlock[n - P + 1 + j]]
        /\ pos' = 0 /\ filled' = P
      BY <1>3, <1>7 DEF WritePreroll, P, n
  <2>2. \A j \in Slots : NextBlock[n - P + 1 + j] = heard + n - P + 1 + j
      BY <1>1, <1>2, <1>3, <1>4, <1>7
  <2>3. filled' = U!Smaller(P, heard' - floor)
      BY <1>1, <1>2, <1>7, <1>6, <2>1 DEF U!Smaller
  <2>4. ASSUME NEW j \in Slots PROVE ring'[j] = heard' - P + j + 1 /\ ring'[j] \in Nat
    <3>1. j \in 0..P - 1
        BY <1>4
    <3>2. ring'[j] = heard + n - P + 1 + j
        BY <2>1, <2>2
    <3> QED
        BY <1>1, <1>2, <1>7, <1>6, <3>1, <3>2
  <2>5. RingHolds'
    <3>1. \A j \in Slots : j >= pos' /\ ring'[j] = heard' - P - pos' + j + 1
        BY <1>1, <1>2, <1>4, <1>6, <2>1, <2>4
    <3>2. ~(filled' < P) /\ \A j \in Slots : ~(j < pos')
        BY <1>1, <1>4, <2>1
    <3> QED
        BY <1>4, <2>1, <2>3, <3>1, <3>2 DEF RingHolds, P
  <2>6. ring' \in [Slots -> Nat]
    <3>1. ring' = [j \in Slots |-> ring'[j]]
        BY <2>1
    <3> QED
        BY <2>4, <3>1
  <2>7. pos' \in Slots /\ filled' \in 0..P
      BY <1>1, <1>4, <2>1
  <2> QED
      BY <2>5, <2>6, <2>7 DEF P
<1>8. CASE n < P
  <2>1. /\ ring' = [j \in Slots |-> CASE pos <= j /\ j < pos + n -> NextBlock[j - pos + 1]
                                      [] j < pos + n - P -> NextBlock[P - pos + j + 1]
                                      [] OTHER -> ring[j]]
        /\ pos' = (pos + n) % P
        /\ filled' = U!Smaller(P, filled + n)
      BY <1>1, <1>3, <1>8 DEF WritePreroll, P, n
  <2>2. pos' = IF pos + n < P THEN pos + n ELSE pos + n - P
    <3>1. pos + n \in Nat /\ pos + n < P + P
        BY <1>1, <1>2, <1>8
    <3>2. pos' = IF pos + n < P THEN pos + n ELSE (pos + n) - P
        BY <1>1, <2>1, <3>1, RingIndex
    <3> QED
        BY <1>1, <1>2, <3>2
  <2>3. /\ filled' = U!Smaller(P, heard' - floor) /\ filled' \in 0..P
        /\ filled' < P => pos' = filled'
      BY <1>1, <1>2, <1>5, <1>8, <1>6, <2>1, <2>2 DEF U!Smaller
  <2>4. ASSUME NEW j \in Slots
        PROVE  /\ ring'[j] \in Nat
               /\ j < pos' => ring'[j] = heard' - pos' + j + 1
               /\ j >= pos' /\ filled' = P => ring'[j] = heard' - P - pos' + j + 1
    <3>1. CASE pos <= j /\ j < pos + n
      <4>0. j \in 0..P - 1
          BY <1>4
      <4>1. j - pos + 1 \in 1..n
          BY <1>1, <1>2, <3>1, <4>0
      <4>2. ring'[j] = NextBlock[j - pos + 1]
        <5>1. ~(j < pos + n - P)
            BY <1>1, <1>2, <1>8, <3>1, <4>0
        <5> QED
            BY <2>1, <3>1, <5>1
      <4>3. ring'[j] = heard + (j - pos + 1)
          BY <1>3, <4>1, <4>2
      <4> QED
          BY <1>1, <1>2, <1>8, <1>6, <2>2, <3>1, <4>0, <4>3
    <3>2. CASE j < pos + n - P
      <4>1. j < pos /\ P - pos + j + 1 \in 1..n
          BY <1>1, <1>2, <1>4, <1>8, <3>2
      <4>2. ring'[j] = NextBlock[P - pos + j + 1]
          BY <1>1, <1>2, <1>4, <2>1, <3>2, <4>1
      <4>3. ring'[j] = heard + (P - pos + j + 1)
          BY <1>3, <4>1, <4>2
      <4>4. j \in 0..P - 1 /\ ~(pos + n < P)
          BY <1>1, <1>2, <1>4, <3>2
      <4>5. pos' = pos + n - P
          BY <2>2, <4>4
      <4> QED
          BY <1>1, <1>2, <1>8, <1>6, <3>2, <4>3, <4>4, <4>5
    <3>3. CASE ~(pos <= j /\ j < pos + n) /\ ~(j < pos + n - P)
      <4>1. ring'[j] = ring[j]
          BY <2>1, <3>3
      <4>2. j \in 0..P - 1 /\ ring[j] \in Nat
          BY <1>2, <1>4
      <4>3. filled' = P /\ pos + n < P => filled = P
          BY <1>1, <1>2, <1>5, <1>8, <2>1 DEF U!Smaller
      <4>4. CASE j < pos
          BY <1>1, <1>2, <1>5, <1>8, <1>6, <2>2, <3>3, <4>1, <4>2, <4>4
      <4>5. CASE j >= pos + n
        <5>1. pos + n < P /\ pos' = pos + n
            BY <1>1, <1>2, <2>2, <4>2, <4>5
        <5> QED
            BY <1>1, <1>2, <1>5, <1>6, <4>1, <4>2, <4>3, <4>5, <5>1
      <4> QED
          BY <1>1, <1>2, <3>3, <4>2, <4>4, <4>5
    <3> QED
        BY <3>1, <3>2, <3>3
  <2>5. RingHolds'
      BY <1>4, <2>3, <2>4 DEF RingHolds, P
  <2>6. pos' \in Slots
      BY <1>1, <1>2, <1>4, <1>8, <2>2
  <2>7. ring' \in [Slots -> Nat]
    <3>1. ring' = [j \in Slots |-> ring'[j]]
        BY <2>1
    <3> QED
        BY <2>4, <3>1
  <2> QED
      BY <2>3, <2>5, <2>6, <2>7 DEF P
<1> QED
    BY <1>1, <1>7, <1>8

-----------------------------------------------------------------------------
(* A non-empty window as a chunk.                                           *)
LEMMA WindowChunk ==
    ASSUME NEW from \in Nat, NEW len \in Nat \ {0}
    PROVE  LET c == U!Window(from, from + len - 1)
           IN  c \in Seq(Nat) /\ Len(c) = len /\ c[1] = from /\ c # <<>>
<1> DEFINE c == U!Window(from, from + len - 1)
<1>1. from + len - 1 \in Int /\ from <= (from + len - 1) + 1
    OBVIOUS
<1>2. (from + len - 1) - from + 1 = len
    OBVIOUS
<1>3. /\ c \in Seq(Nat) /\ Len(c) = len
      /\ \A i \in 1..len : c[i] = from + i - 1
    BY <1>1, <1>2, WindowSeq
<1> HIDE DEF c
<1>4. c[1] = from
    BY <1>3
<1>5. c # <<>>
    BY <1>3, EmptySeq
<1> QED
    BY <1>3, <1>4, <1>5 DEF c

(* audio.py:279-287.  What opening a chunk puts into it.                    *)
LEMMA OpenedChunk ==
    ASSUME IInv, ~open,
           NEW from, from = heard - filled + 1,
           NEW len, len = U!Smaller(par.limit, heard + par.block - from + 1)
    PROVE  /\ Appended(PrerollOrdered, NextBlock) = U!Window(from, from + len - 1)
           /\ from \in floor + 1..heard + 1 /\ len \in Nat \ {0}
           /\ from = U!Larger(floor, heard - par.preroll) + 1
<1>1. /\ par \in U!Parameters /\ heard \in Nat /\ floor \in 0..heard
      /\ filled \in 0..par.preroll
    BY DEF IInv, TypeOK
<1>2. /\ par.block \in Nat \ {0} /\ par.preroll \in Nat \ {0}
      /\ par.limit \in Nat \ {0} /\ par.preroll <= par.limit
    BY <1>1, ParTypes
<1>3. filled = U!Smaller(par.preroll, heard - floor)
    BY DEF IInv, RingHolds
<1>4. from \in floor + 1..heard + 1 /\ from = U!Larger(floor, heard - par.preroll) + 1
    BY <1>1, <1>2, <1>3 DEF U!Smaller, U!Larger
<1>5. filled = U!Smaller(par.limit, heard - from + 1) /\ from + filled - 1 = heard
    BY <1>1, <1>2 DEF U!Smaller
<1>6. PrerollOrdered = U!Window(from, from + filled - 1)
    BY <1>5, PrerollWindow DEF IInv
<1>7. from \in 1..heard + 1 /\ filled \in Nat
    BY <1>1, <1>4
<1>8. Appended(PrerollOrdered, NextBlock) = U!Window(from, from + len - 1)
    BY <1>1, <1>5, <1>6, <1>7, AppendedWindow
<1>9. len \in Nat \ {0}
    BY <1>1, <1>2, <1>4 DEF U!Smaller
<1> QED
    BY <1>4, <1>8, <1>9

(* audio.py:290.  What the next block makes of an open chunk.               *)
LEMMA GrownChunk ==
    ASSUME IInv, open,
           NEW len, len = U!Smaller(par.limit, heard + par.block - chunk[1] + 1)
    PROVE  /\ Appended(chunk, NextBlock) = U!Window(chunk[1], chunk[1] + len - 1)
           /\ chunk[1] \in floor + 1..heard /\ chunk[1] \in Nat \ {0}
           /\ len \in Nat \ {0}
<1>1. /\ par \in U!Parameters /\ heard \in Nat /\ floor \in 0..heard
      /\ chunk \in Seq(Nat)
    BY DEF IInv, TypeOK
<1>2. par.block \in Nat \ {0} /\ par.limit \in Nat \ {0}
    BY <1>1, ParTypes
<1>3. chunk[1] \in floor + 1..heard
    BY DEF IInv, OpenAfterFloor
<1>4. /\ chunk = U!Window(chunk[1], chunk[1] + Len(chunk) - 1)
      /\ Len(chunk) = U!Smaller(par.limit, heard - chunk[1] + 1)
    BY DEF IInv, ChunkUnbroken
<1>5. Len(chunk) \in Nat /\ chunk[1] \in 1..heard + 1 /\ chunk[1] \in Nat \ {0}
    BY <1>1, <1>3
<1>6. Appended(chunk, NextBlock) = U!Window(chunk[1], chunk[1] + len - 1)
    BY <1>1, <1>4, <1>5, AppendedWindow
<1>7. len \in Nat \ {0}
    BY <1>1, <1>2, <1>3 DEF U!Smaller
<1> QED
    BY <1>3, <1>5, <1>6, <1>7

(* A chunk that is handed over leaves an empty ring.                        *)
LEMMA CloseHolds ==
    ASSUME NEW c \in Seq(Nat), NEW now \in Nat, Close(c, now),
           IInv, heard' = now, UNCHANGED par, heard <= now, now <= MaxHeard
    PROVE  IInv'
<1>1. /\ par \in U!Parameters
      /\ par.preroll \in Nat \ {0} /\ par.limit \in Nat \ {0}
    BY ParTypes DEF IInv, TypeOK
<1>2. TypeOK'
  <2>1. /\ heard' \in 0..MaxHeard /\ floor' \in 0..heard'
        /\ ring' \in [Slots' -> Nat] /\ pos' \in Slots' /\ filled' \in 0..par.preroll
      BY <1>1, HeardAssumption DEF Close, IInv, TypeOK, Slots
  <2>2. /\ chunk' = <<>> /\ open' = FALSE /\ silence' = 0 /\ out' = c
        /\ <<>> \in Seq(Nat) /\ Len(<<>>) = 0
      BY EmptySeq DEF Close
  <2> QED
    <3>1. Len(chunk') <= par'.limit /\ chunk' \in Seq(Nat) /\ out' \in Seq(Nat)
        BY <1>1, <2>2
    <3>2. par' \in U!Parameters /\ filled' \in 0..par'.preroll /\ silence' \in Nat
        BY <1>1, <2>1, <2>2
    <3> QED
        BY <2>1, <2>2, <3>1, <3>2 DEF TypeOK
<1>3. RingHolds'
    BY <1>1 DEF Close, RingHolds, Slots, U!Smaller
<1>4. ChunkUnbroken' /\ OpenAfterFloor'
    BY DEF Close, ChunkUnbroken, OpenAfterFloor
<1> QED
    BY <1>2, <1>3, <1>4 DEF IInv

(* A block more leaves what was before it before it.                        *)
LEMMA StreamGrows ==
    ASSUME NEW h \in Nat, NEW f \in 0..h, NEW b \in Nat \ {0}, NEW max \in Nat, h + b <= max
    PROVE  /\ h + b \in 0..max /\ f \in 0..h + b
           /\ \A x \in f + 1..h + 1 : x \in f + 1..h + b
OBVIOUS

(* A chunk left open after a block is the window it should be.              *)
LEMMA StaysOpenHolds ==
    ASSUME IInv, heard' = heard + par.block, heard' <= MaxHeard,
           UNCHANGED <<par, floor, ring, pos, filled>>, open' = TRUE, silence' \in Nat, out' = <<>>,
           NEW from \in floor + 1..heard + 1,
           NEW len \in Nat \ {0}, len = U!Smaller(par.limit, heard' - from + 1),
           chunk' = U!Window(from, from + len - 1)
    PROVE  IInv'
<1>1. /\ par \in U!Parameters /\ heard \in Nat /\ floor \in 0..heard /\ MaxHeard \in Nat
      /\ par.block \in Nat \ {0} /\ par.limit \in Nat \ {0}
  <2>1. /\ par \in U!Parameters /\ heard \in 0..MaxHeard /\ floor \in 0..heard
      BY DEF IInv, TypeOK
  <2> QED
      BY <2>1, ParTypes, HeardAssumption
<1>2. chunk' \in Seq(Nat) /\ Len(chunk') = len /\ chunk'[1] = from /\ chunk' # <<>>
  <2>1. from \in Nat
      BY <1>1
  <2>2. LET w == U!Window(from, from + len - 1)
        IN  w \in Seq(Nat) /\ Len(w) = len /\ w[1] = from /\ w # <<>>
      BY <2>1, WindowChunk
  <2> QED
      BY <2>2
<1>3. len <= par.limit
    BY <1>1 DEF U!Smaller
<1>4. open' = TRUE
    OBVIOUS
<1>5. TypeOK'
  <2>1. heard' \in 0..MaxHeard /\ floor' \in 0..heard'
      BY <1>1, StreamGrows
  <2>2. /\ ring' \in [Slots' -> Nat] /\ pos' \in Slots' /\ filled' \in 0..par'.preroll
      BY DEF IInv, TypeOK, Slots
  <2>3. <<>> \in Seq(Nat)
      BY EmptySeq
  <2> QED
      BY <1>1, <1>2, <1>3, <1>4, <2>1, <2>2, <2>3 DEF TypeOK
<1>6. RingHolds'
    BY DEF RingHolds
<1>7. ChunkUnbroken'
    BY <1>2 DEF ChunkUnbroken
<1>8. OpenAfterFloor'
  <2>1. from \in floor' + 1..heard'
      BY <1>1, StreamGrows
  <2> QED
      BY <1>2, <2>1 DEF OpenAfterFloor
<1> QED
    BY <1>5, <1>6, <1>7, <1>8 DEF IInv

-----------------------------------------------------------------------------
(* The invariant holds at first ...                                         *)
LEMMA InitHolds == Init => IInv
<1> SUFFICES ASSUME Init PROVE IInv
    OBVIOUS
<1>1. par \in U!Parameters /\ par.preroll \in Nat \ {0} /\ par.limit \in Nat \ {0}
    BY ParTypes DEF Init
<1>2. TypeOK
  <2>1. <<>> \in Seq(Nat) /\ Len(<<>>) = 0
      BY EmptySeq
  <2> QED
    <3>1. heard \in 0..MaxHeard /\ floor \in 0..heard /\ silence \in Nat
        BY HeardAssumption DEF Init
    <3>2. ring \in [Slots -> Nat] /\ pos \in Slots /\ filled \in 0..par.preroll
        BY <1>1 DEF Init, Slots
    <3>3. /\ chunk \in Seq(Nat) /\ Len(chunk) <= par.limit /\ out \in Seq(Nat)
          /\ open \in BOOLEAN /\ (open <=> chunk # <<>>)
      <4>1. chunk = <<>> /\ out = <<>> /\ open = FALSE
          BY DEF Init
      <4>2. open \in BOOLEAN /\ (open <=> chunk # <<>>)
          BY <4>1
      <4> QED
          BY <1>1, <2>1, <4>1, <4>2
    <3> QED
        BY <1>1, <3>1, <3>2, <3>3 DEF TypeOK
<1>3. RingHolds /\ ChunkUnbroken /\ OpenAfterFloor
    BY <1>1 DEF Init, RingHolds, Slots, ChunkUnbroken, OpenAfterFloor, U!Smaller
<1> QED
    BY <1>2, <1>3 DEF IInv

(* ... and every block keeps it, ...                                        *)
LEMMA ProcessHolds ==
    ASSUME IInv, NEW loud \in BOOLEAN, Process(loud)
    PROVE  IInv'
<1>1. /\ par \in U!Parameters /\ heard \in Nat /\ floor \in 0..heard
      /\ par.block \in Nat \ {0} /\ par.limit \in Nat \ {0} /\ MaxHeard \in Nat
      /\ open \in BOOLEAN /\ silence \in Nat
    BY ParTypes, HeardAssumption DEF IInv, TypeOK
<1>2. heard' = heard + par.block /\ heard' <= MaxHeard /\ par' = par
    BY DEF Process
<1>3. heard' \in 0..MaxHeard /\ heard < heard'
    BY <1>1, <1>2
<1>4. CASE Wait
  <2>1. ~open /\ WritePreroll(NextBlock) /\ UNCHANGED <<floor, chunk, open, silence>> /\ out' = <<>>
      BY <1>4 DEF Wait
  <2>2. /\ ring' \in [Slots -> Nat] /\ pos' \in Slots /\ filled' \in 0..par.preroll
        /\ RingHolds'
    <3>1. UNCHANGED <<par, floor, open>>
        BY <1>2, <2>1
    <3> QED
        BY <1>2, <2>1, <3>1, WritePrerollHolds DEF IInv
  <2>3. TypeOK'
    <3>1. /\ chunk' \in Seq(Nat) /\ Len(chunk') <= par'.limit
          /\ open' \in BOOLEAN /\ (open' <=> chunk' # <<>>) /\ silence' \in Nat
        BY <1>2, <2>1 DEF IInv, TypeOK
    <3>2. out' \in Seq(Nat)
        BY <2>1, EmptySeq
    <3>3. floor' \in 0..heard'
        BY <1>1, <1>3, <2>1
    <3>4. ring' \in [Slots' -> Nat] /\ pos' \in Slots' /\ filled' \in 0..par'.preroll
        BY <1>2, <2>2 DEF Slots
    <3> QED
        BY <1>1, <1>2, <1>3, <3>1, <3>2, <3>3, <3>4 DEF TypeOK
  <2> QED
      BY <2>1, <2>2, <2>3 DEF IInv, ChunkUnbroken, OpenAfterFloor
<1>5. CASE Open
  <2> DEFINE from == heard - filled + 1
             len == U!Smaller(par.limit, heard + par.block - from + 1)
  <2>1. /\ ~open /\ open' = TRUE /\ silence' = 0 /\ out' = <<>>
        /\ chunk' = Appended(PrerollOrdered, NextBlock)
        /\ UNCHANGED <<floor, ring, pos, filled>>
      BY <1>5 DEF Open
  <2>2. /\ Appended(PrerollOrdered, NextBlock) = U!Window(from, from + len - 1)
        /\ from \in floor + 1..heard + 1 /\ len \in Nat \ {0}
      BY <2>1, OpenedChunk
  <2>3. len = U!Smaller(par.limit, heard' - from + 1)
    <3>1. from \in Int
        BY <1>1, <2>2
    <3> HIDE DEF from
    <3>2. heard + par.block - from + 1 = heard' - from + 1
        BY <1>1, <1>2, <3>1
    <3> QED
        BY <3>2
  <2> HIDE DEF from, len
  <2>4. UNCHANGED <<par, floor, ring, pos, filled>> /\ silence' \in Nat
      BY <1>2, <2>1
  <2> QED
      BY <1>2, <2>1, <2>2, <2>3, <2>4, StaysOpenHolds
<1>6. CASE Continue(loud)
  <2> DEFINE from == chunk[1]
             len == U!Smaller(par.limit, heard + par.block - from + 1)
             c == Appended(chunk, NextBlock)
  <2>1. open
      BY <1>6 DEF Continue
  <2>2. /\ c = U!Window(from, from + len - 1)
        /\ from \in floor + 1..heard /\ from \in Nat \ {0} /\ len \in Nat \ {0}
      BY <2>1, GrownChunk
  <2>3. c \in Seq(Nat)
      BY <2>2, WindowChunk
  <2>4. len = U!Smaller(par.limit, heard' - from + 1)
    <3>1. heard + par.block - from + 1 = heard' - from + 1
        BY <1>1, <1>2, <2>2
    <3> QED
        BY <3>1
  <2>5. \/ Close(c, heard + par.block)
        \/ /\ chunk' = c /\ silence' = SilenceRun(loud) /\ out' = <<>>
           /\ UNCHANGED <<floor, ring, pos, filled, open>>
      BY <1>6 DEF Continue
  <2> HIDE DEF from, len, c
  <2>6. CASE Close(c, heard + par.block)
    <3>1. /\ heard + par.block \in Nat /\ heard <= heard + par.block
          /\ heard + par.block <= MaxHeard
        BY <1>1, <1>2
    <3> QED
        BY <1>2, <2>3, <2>6, <3>1, CloseHolds
  <2>7. CASE /\ chunk' = c /\ silence' = SilenceRun(loud) /\ out' = <<>>
             /\ UNCHANGED <<floor, ring, pos, filled, open>>
    <3>1. silence' \in Nat /\ open' = TRUE
        BY <1>1, <2>1, <2>7 DEF SilenceRun
    <3>2. UNCHANGED <<par, floor, ring, pos, filled>>
        BY <1>2, <2>7
    <3>3. from \in floor + 1..heard + 1
        BY <1>1, <2>2
    <3> QED
        BY <1>2, <2>2, <2>4, <2>7, <3>1, <3>2, <3>3, StaysOpenHolds
  <2> QED
      BY <2>5, <2>6, <2>7
<1> QED
    BY <1>4, <1>5, <1>6 DEF Process

(* ... and so does a flush.                                                 *)
LEMMA FlushHolds ==
    ASSUME IInv, Flush
    PROVE  IInv'
<1>1. CASE open
  <2>1. Close(chunk, heard) /\ UNCHANGED <<par, heard>>
      BY <1>1 DEF Flush
  <2>2. chunk \in Seq(Nat) /\ heard \in Nat /\ heard <= MaxHeard
      BY HeardAssumption DEF IInv, TypeOK
  <2> QED
      BY <2>1, <2>2, CloseHolds
<1>2. CASE ~open
  <2>1. UNCHANGED <<par, heard, floor, ring, pos, filled, chunk, open, silence>> /\ out' = <<>>
      BY <1>2 DEF Flush
  <2>2. out' \in Seq(Nat)
      BY <2>1, EmptySeq
  <2> QED
      BY <2>1, <2>2 DEF IInv, TypeOK, RingHolds, ChunkUnbroken, OpenAfterFloor, Slots
<1> QED
    BY <1>1, <1>2

(* The inductive invariant: the ring between utterances, the chunk during    *)
(* one, and neither with a sample from before the last close.               *)
THEOREM Invariance == Spec => []IInv
<1>1. IInv /\ [Next]_vars => IInv'
  <2> SUFFICES ASSUME IInv, [Next]_vars PROVE IInv'
      OBVIOUS
  <2>1. CASE Flush
      BY <2>1, FlushHolds
  <2>2. ASSUME NEW loud \in BOOLEAN, Process(loud) PROVE IInv'
      BY <2>2, ProcessHolds
  <2>3. CASE UNCHANGED vars
      BY <2>3 DEF vars, IInv, TypeOK, RingHolds, ChunkUnbroken, OpenAfterFloor, Slots
  <2> QED
      BY <2>1, <2>2, <2>3 DEF Next
<1> QED
    BY InitHolds, <1>1, PTL DEF Spec

(* Every variable keeps to its range; in particular no chunk outgrows the    *)
(* buffer of __init__ (audio.py:193-203).                                   *)
THEOREM TypeCorrect == Spec => []TypeOK
<1>1. IInv => TypeOK
    BY DEF IInv
<1> QED
    BY Invariance, <1>1, PTL

(* audio.py:222-233.  The ring holds the latest audio, none of it stale.    *)
THEOREM PrerollFreshHolds == Spec => []PrerollFresh
<1>1. IInv => PrerollFresh
    BY PrerollWindow DEF IInv, RingHolds, PrerollFresh
<1> QED
    BY Invariance, <1>1, PTL

(* audio.py:279-287.  An open chunk misses nothing and holds nothing twice. *)
THEOREM ChunkUnbrokenHolds == Spec => []ChunkUnbroken
<1>1. IInv => ChunkUnbroken
    BY DEF IInv
<1> QED
    BY Invariance, <1>1, PTL

-----------------------------------------------------------------------------
(* What a chunk handed over starts with was heard after the previous close. *)
LEMMA StepFresh ==
    ASSUME IInv, [Next]_vars
    PROVE  [out' # <<>> => out'[1] > floor]_vars
<1>1. /\ heard \in Nat /\ floor \in Nat
    BY DEF IInv, TypeOK
<1>2. CASE Flush
  <2>1. CASE open
    <3>1. out' = chunk /\ chunk[1] \in floor + 1..heard
        BY <1>2, <2>1 DEF Flush, Close, IInv, OpenAfterFloor
    <3> QED
        BY <1>1, <3>1
  <2>2. CASE ~open
      BY <1>2, <2>2 DEF Flush
  <2> QED
      BY <2>1, <2>2
<1>3. ASSUME NEW loud \in BOOLEAN, Process(loud)
      PROVE  out' # <<>> => out'[1] > floor
  <2>1. CASE Wait \/ Open
      BY <2>1 DEF Wait, Open
  <2>2. CASE Continue(loud)
    <3> DEFINE len == U!Smaller(par.limit, heard + par.block - chunk[1] + 1)
               c == Appended(chunk, NextBlock)
    <3>1. open /\ (out' = <<>> \/ out' = c)
        BY <2>2 DEF Continue, Close
    <3>2. /\ c = U!Window(chunk[1], chunk[1] + len - 1)
          /\ chunk[1] \in floor + 1..heard /\ chunk[1] \in Nat \ {0} /\ len \in Nat \ {0}
        BY <3>1, GrownChunk
    <3> HIDE DEF len, c
    <3>3. c[1] = chunk[1]
        BY <3>2, WindowChunk
    <3> QED
        BY <1>1, <3>1, <3>2, <3>3
  <2> QED
      BY <1>3, <2>1, <2>2 DEF Process
<1>4. CASE UNCHANGED vars
    BY <1>4
<1> QED
    BY <1>2, <1>3, <1>4 DEF Next

(* audio.py:197-198.  No chunk reaches back behind the end of the previous   *)
(* one.                                                                     *)
THEOREM NoStaleAudioHolds == Spec => NoStaleAudio
<1>1. IInv /\ [Next]_vars => [out' # <<>> => out'[1] > floor]_vars
    BY StepFresh
<1> QED
    BY Invariance, <1>1, PTL DEF Spec, NoStaleAudio

-----------------------------------------------------------------------------
(* The refinement: Utterances' `from` is the first sample of the open chunk. *)
LEMMA InitImplements == Init => U!Init
BY DEF Init, U!Init

LEMMA FlushImplements ==
    ASSUME IInv, Flush PROVE U!Flush
<1>1. /\ par \in U!Parameters /\ heard \in Nat /\ floor \in Nat /\ chunk \in Seq(Nat)
      /\ par.limit \in Nat \ {0}
    BY ParTypes DEF IInv, TypeOK
<1>2. CASE open
  <2>1. chunk[1] \in floor + 1..heard
      BY <1>2 DEF IInv, OpenAfterFloor
  <2>2. /\ chunk = U!Window(chunk[1], chunk[1] + Len(chunk) - 1)
        /\ Len(chunk) = U!Smaller(par.limit, heard - chunk[1] + 1)
      BY <1>2 DEF IInv, ChunkUnbroken
  <2>3. chunk[1] + Len(chunk) - 1 = U!Smaller(heard, chunk[1] + par.limit - 1)
    <3> DEFINE f == chunk[1]
               l == Len(chunk)
    <3>1. f \in Nat /\ f <= heard /\ l = U!Smaller(par.limit, heard - f + 1)
        BY <1>1, <2>1, <2>2
    <3> HIDE DEF f, l
    <3>2. f + l - 1 = U!Smaller(heard, f + par.limit - 1)
        BY <1>1, <3>1 DEF U!Smaller
    <3> QED
        BY <3>2 DEF f, l
  <2>4. /\ out' = chunk /\ floor' = heard /\ open' = FALSE /\ silence' = 0
        /\ UNCHANGED <<par, heard>>
      BY <1>2 DEF Flush, Close
  <2>5. chunk[1] # 0
      BY <1>1, <2>1
  <2> QED
      BY <1>2, <2>2, <2>3, <2>4, <2>5 DEF U!Flush, U!Finish
<1>3. CASE ~open
    BY <1>3 DEF Flush, U!Flush
<1> QED
    BY <1>2, <1>3

LEMMA ProcessImplements ==
    ASSUME IInv, NEW loud \in BOOLEAN, Process(loud) PROVE U!Hear(loud)
<1>1. /\ par \in U!Parameters /\ heard \in Nat /\ floor \in Nat /\ silence \in Nat
      /\ filled \in Nat /\ chunk \in Seq(Nat)
      /\ par.block \in Nat \ {0} /\ par.limit \in Nat \ {0} /\ par.hangover \in Nat \ {0}
    BY ParTypes DEF IInv, TypeOK
<1>2. heard' = heard + par.block /\ heard + par.block <= MaxHeard /\ par' = par
    BY DEF Process
<1> DEFINE now == heard + par.block
<1>3. CASE ~loud /\ Wait
  <2>1. U!Wait(now)
      BY <1>3 DEF Wait, U!Wait
  <2> QED
      BY <1>2, <1>3, <2>1 DEF U!Hear
<1>4. CASE loud /\ Open
  <2> DEFINE from == heard - filled + 1
             len == U!Smaller(par.limit, heard + par.block - from + 1)
  <2>1. /\ ~open /\ open' = TRUE /\ silence' = 0 /\ out' = <<>> /\ floor' = floor
        /\ chunk' = Appended(PrerollOrdered, NextBlock)
      BY <1>4 DEF Open
  <2>2. /\ Appended(PrerollOrdered, NextBlock) = U!Window(from, from + len - 1)
        /\ from \in floor + 1..heard + 1 /\ len \in Nat \ {0}
        /\ from = U!Larger(floor, heard - par.preroll) + 1
      BY <2>1, OpenedChunk
  <2> HIDE DEF from, len
  <2>3. from \in Nat
      BY <1>1, <2>2
  <2>4. chunk'[1] = from
      BY <2>1, <2>2, <2>3, WindowChunk
  <2>5. U!Open(now)
      BY <2>1, <2>2, <2>4 DEF U!Open
  <2> QED
      BY <1>2, <1>4, <2>5 DEF U!Hear
<1>5. CASE Continue(loud)
  <2> DEFINE from == chunk[1]
             len == U!Smaller(par.limit, heard + par.block - from + 1)
             c == Appended(chunk, NextBlock)
             run == SilenceRun(loud)
  <2>1. open
      BY <1>5 DEF Continue
  <2>2. /\ c = U!Window(from, from + len - 1)
        /\ from \in floor + 1..heard /\ from \in Nat \ {0} /\ len \in Nat \ {0}
      BY <2>1, GrownChunk
  <2>3. now \in Nat /\ len = U!Smaller(par.limit, now - from + 1)
    <3>1. now - from + 1 = heard + par.block - from + 1
        BY <1>1, <2>2
    <3> QED
        BY <1>1, <3>1
  <2>4. IF run >= par.hangover \/ Len(c) >= par.limit
        THEN /\ out' = c /\ floor' = now /\ open' = FALSE /\ silence' = 0
        ELSE /\ chunk' = c /\ silence' = run /\ out' = <<>> /\ UNCHANGED <<floor, open>>
      BY <1>5 DEF Continue, Close
  <2>5. /\ run = IF loud THEN 0 ELSE silence + 1
        /\ heard' = now /\ now <= MaxHeard
      BY <1>2 DEF SilenceRun
  <2>6. from <= now
      BY <1>1, <2>2
  <2> HIDE DEF from, len, c, run, now
  <2>7. Len(c) = len /\ c[1] = from
      BY <2>2, WindowChunk
  <2>8. len >= par.limit <=> now - from + 1 >= par.limit
      BY <1>1, <2>2, <2>3, <2>6 DEF U!Smaller
  <2>9. from + len - 1 = U!Smaller(now, from + par.limit - 1)
    <3> DEFINE l == par.limit
    <3>1. l \in Nat \ {0} /\ len = U!Smaller(l, now - from + 1)
        BY <1>1, <2>3
    <3> HIDE DEF l
    <3>2. from + len - 1 = U!Smaller(now, from + l - 1)
        BY <2>2, <2>3, <2>6, <3>1 DEF U!Smaller
    <3> QED
        BY <3>2 DEF l
  <2>10. CASE run >= par.hangover \/ now - from + 1 >= par.limit
    <3>1. out' = U!Window(from, U!Smaller(now, from + par.limit - 1))
          /\ floor' = now /\ open' = FALSE /\ silence' = 0
        BY <2>2, <2>4, <2>7, <2>8, <2>9, <2>10
    <3>2. U!Finish(now)
        BY <2>1, <3>1 DEF U!Finish, from
    <3>3. U!Continue(now, loud)
        BY <2>1, <2>2, <2>5, <2>10, <3>2 DEF U!Continue, from
    <3> QED
        BY <1>2, <3>3 DEF U!Hear, now
  <2>11. CASE ~(run >= par.hangover \/ now - from + 1 >= par.limit)
    <3>1. /\ chunk'[1] = from /\ silence' = run /\ out' = <<>> /\ UNCHANGED <<floor, open>>
        BY <2>4, <2>7, <2>8, <2>11
    <3>2. U!Continue(now, loud)
        BY <2>1, <2>2, <2>5, <2>11, <3>1 DEF U!Continue, from
    <3> QED
        BY <1>2, <3>2 DEF U!Hear, now
  <2> QED
      BY <2>10, <2>11
<1> QED
    BY <1>3, <1>4, <1>5 DEF Process

(* audio.py:271-295.  Every step of the segmenter is a step of Utterances or *)
(* changes nothing that Utterances speaks of.                               *)
THEOREM Implements == Spec => ImplementsUtterances
<1>1. IInv /\ [Next]_vars => [U!Next]_(U!vars)
  <2> SUFFICES ASSUME IInv, [Next]_vars PROVE [U!Next]_(U!vars)
      OBVIOUS
  <2>1. CASE Flush
      BY <2>1, FlushImplements DEF U!Next
  <2>2. ASSUME NEW loud \in BOOLEAN, Process(loud) PROVE [U!Next]_(U!vars)
      BY <2>2, ProcessImplements DEF U!Next
  <2>3. CASE UNCHANGED vars
      BY <2>3 DEF vars, U!vars
  <2> QED
      BY <2>1, <2>2, <2>3 DEF Next
<1> QED
    BY Invariance, InitImplements, <1>1, PTL DEF Spec, ImplementsUtterances, U!Spec
=============================================================================
