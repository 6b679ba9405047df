------------------------------- MODULE Worker -------------------------------
(***************************************************************************)
(* One utterance through main.consume_chunks: past the gates (Gates), through*)
(* the decode, which may return anything or be given up, and, unless that     *)
(* left nothing, through emit_transcript, which settles the text that         *)
(* stdout, the JSONL record and the phone get.                              *)
(*                                                                         *)
(* A text is a sequence of words, each with what stands before it, and what  *)
(* follows the last.  A word that spells a number has its value; of its       *)
(* letters only the case of the text's first one is kept.                    *)
(***************************************************************************)
EXTENDS Gates

CONSTANTS
    Units,      \* values of _UNITS
    Tens,       \* values of _TENS
    MaxWords    \* bound: words of a transcript

ASSUME NumbersAssumption == Units \subseteq 0..19 /\ Tens \subseteq 20..90
ASSUME WordsAssumption   == MaxWords \in Nat

VARIABLES
    raw,        \* what the backend returned, stripped
    numerals,   \* --numerals
    record      \* what emit_transcript made of it

-----------------------------------------------------------------------------
(*   unit, tens, hundred   spelled out     word   any other                   *)
(*   number                in digits, or anything else that has no case       *)
Word(k, v, before) == [kind |-> k, value |-> v, sep |-> before]

(*   one    a single blank      many    several         other   punctuation    *)
Seps  == {"one", "many", "hyphen", "other"}
Words == {Word("unit", v, b) : v \in Units, b \in Seps}
         \cup {Word("tens", v, b) : v \in Tens, b \in Seps}
         \cup {Word(k, 0, b) : k \in {"hundred", "word", "number"}, b \in Seps}

Texts == [words : {w \in UNION {[1..n -> Words] : n \in 0..MaxWords} :
                      w # <<>> => w[1].sep = "other"},
          first : {"lower", "upper"}, comma : BOOLEAN]

NoText   == [words |-> <<>>, first |-> "upper", comma |-> FALSE]
NoRecord == [text |-> NoText, continues |-> FALSE]

Digit(w)   == w.kind = "unit" /\ w.value \in 1..9
Spelled(w) == w.kind \in {"unit", "tens"}
Letters(t) == t.words # <<>> /\ t.words[1].kind # "number"

Compound(v, w) == v.kind = "tens" /\ Digit(w) /\ w.sep \in {"one", "hyphen"}
Hundred(v, w)  == Digit(v) /\ w.kind = "hundred" /\ w.sep \in {"one", "many"}

Matches(rule, v, w) == \/ rule = "compound" /\ Compound(v, w)
                       \/ rule = "hundred" /\ Hundred(v, w)
Number(rule, v, w)  == IF rule = "compound" THEN v.value + w.value ELSE v.value * 100

Joined(rule, v, w)  == Word("number", Number(rule, v, w), v.sep)

(* One substitution, from left to right: w swallows the word before it.       *)
Pass(rule, done, w) ==
    IF done # <<>> /\ Matches(rule, Last(done), w)
    THEN Append(Front(done), Joined(rule, Last(done), w))
    ELSE Append(done, w)

Substitute(rule, words) ==
    FoldLeft(LAMBDA done, w : Pass(rule, done, w), <<>>, words)

Single(w)      == IF Spelled(w) THEN Word("number", w.value, w.sep) ELSE w

(* Mutant of WordsToDigits: hundreds before compounds.                       *)
HundredsFirst(words) ==
    LET passed == Substitute("compound", Substitute("hundred", words))
    IN [i \in DOMAIN passed |-> Single(passed[i])]

(* words_to_digits: compounds, then hundreds, then bare words.               *)
WordsToDigits(words) ==
    LET passed == Substitute("hundred", Substitute("compound", words))
    IN [i \in DOMAIN passed |-> Single(passed[i])]

Capital(t) == IF Letters(t) THEN [t EXCEPT !.first = "upper"] ELSE t

(* Mutant of Normalise: the case is looked at when it is settled.            *)
NormaliseLate(t, style) ==
    LET stripped == [t EXCEPT !.comma = FALSE]
        text == Capital(IF style = "digits"
                        THEN [stripped EXCEPT !.words = WordsToDigits(@)] ELSE stripped)
    IN [text |-> text, continues |-> Letters(text) /\ text.first = "lower"]

(* normalise_transcript.                                                    *)
Normalise(t, style) ==
    LET stripped == [t EXCEPT !.comma = FALSE]
        text == IF style = "digits" THEN [stripped EXCEPT !.words = WordsToDigits(@)]
                                    ELSE stripped
    IN [text |-> Capital(text), continues |-> Letters(t) /\ t.first = "lower"]

-----------------------------------------------------------------------------
Empty(t) == t.words = <<>> /\ ~t.comma

WorkerInit == /\ Init
              /\ raw = NoText /\ record = NoRecord /\ numerals \in {"asis", "digits"}

Gate == (Drop \/ Trim) /\ UNCHANGED <<raw, record, numerals>>

(* The samples go to the backend; nothing here looks at them again.           *)
HandOver ==
    /\ stage = "decoded" /\ stage' = "decoding"
    /\ LET silence == [levels |-> <<>>, rest |-> 0, final |-> FALSE]
       IN chunk' = silence /\ target' = silence
    /\ UNCHANGED <<raw, record, numerals>>

(* The decode ends, or is given up and counts as no text; what text there is  *)
(* goes out.                                                                *)
Transcribe ==
    /\ stage = "decoding" /\ stage' = "emitted"
    /\ \E t \in Texts :
          /\ raw' = t
          /\ record' = IF Empty(t) THEN NoRecord ELSE Normalise(t, numerals)
    /\ UNCHANGED <<chunk, target, numerals>>

WorkerNext == Gate \/ HandOver \/ Transcribe
WorkerSpec == WorkerInit /\ [][WorkerNext]_<<vars, raw, record, numerals>>

-----------------------------------------------------------------------------
(* What the words say, read once: a word belongs to the number before it, or  *)
(* it begins a number of its own or is none.                                *)
Joins(w, i)  == i > 1 /\ Compound(w[i - 1], w[i])
Scales(w, i) == i > 1 /\ Hundred(w[i - 1], w[i]) /\ ~Joins(w, i - 1)
Heads(w)     == {i \in DOMAIN w : ~Joins(w, i) /\ ~Scales(w, i)}

Said(w, i) == CASE i < Len(w) /\ Joins(w, i + 1)  -> w[i].value + w[i + 1].value
                [] i < Len(w) /\ Scales(w, i + 1) -> w[i].value * 100
                [] OTHER                          -> w[i].value
Reading(w, i) == IF Spelled(w[i]) THEN Word("number", Said(w, i), w[i].sep) ELSE w[i]

(* at[n] is where the n-th word of out begins in w.                         *)
ReadsOnce(out, w) ==
    \E at \in [DOMAIN out -> Heads(w)] :
        /\ \A i \in Heads(w) : \E n \in DOMAIN out : at[n] = i
        /\ \A m, n \in DOMAIN out : m < n => at[m] < at[n]
        /\ \A n \in DOMAIN out : out[n] = Reading(w, at[n])

(* main.py:251-261.  Three substitutions, each over what the one before left,  *)
(* amount to reading the words once: no word is counted twice, none is lost, *)
(* no number is half converted, and none is made of what is not one.         *)
NumbersReadOnce ==
    stage = "emitted" =>
        IF numerals = "digits" THEN ReadsOnce(record.text.words, raw.words)
                               ELSE record.text.words = raw.words

(* main.py:272-276, ANALOG-TUNING.md:730, "D returns the continuation hint     *)
(* rather than destroying it": with the hint, a consumer that gets the words  *)
(* as they are can tell how the model began the text, although every text     *)
(* that goes out is capitalised.                                            *)
HintKept ==
    stage = "emitted" /\ ~Empty(raw) =>
        /\ Letters(record.text) => record.text.first = "upper"
        /\ numerals = "asis" /\ Letters(raw) =>
              raw.first = (IF record.continues THEN "lower" ELSE record.text.first)
=============================================================================
