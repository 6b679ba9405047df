---------------------------- MODULE WorkerProofs ----------------------------
(***************************************************************************)
(* What TLAPS proves about one utterance on its way through the worker       *)
(* (Gates and Worker), for every value of the constants: the loops over       *)
(* frames and the substitutions over words compute what they are meant to,   *)
(* however long the chunk and the text.                                     *)
(*                                                                         *)
(* The loops are folds, and a fold is a recursive function over sets of        *)
(* positions.  Induction comes from NatSets, whose parameter is a set.       *)
(***************************************************************************)
EXTENDS Worker, FiniteSetTheorems, TLAPS

-----------------------------------------------------------------------------
(* Induction.                                                               *)

(* Of the intervals 0..m with m in T one has no smaller one in it.            *)
LEMMA NatLeast ==
    ASSUME NEW T \in SUBSET Nat, T # {}
    PROVE  \E x \in T : \A y \in T : x <= y
<1> DEFINE Below == {0..m : m \in T}
<1>1. IsWellFoundedOn(StrictSubsetOrdering(Nat), FiniteSubsetsOf(Nat))
    BY FS_StrictSubsetOrderingWellFounded
<1>2. \A m \in T : IsFiniteSet(0..m)
    BY FS_Interval
<1>3. Below \subseteq FiniteSubsetsOf(Nat)
    BY <1>2, SMT DEF FiniteSubsetsOf
<1>4. Below # {}
    OBVIOUS
<1>5. PICK B \in Below : \A C \in Below : ~(<<C, B>> \in StrictSubsetOrdering(Nat))
  <2> HIDE DEF Below
  <2> QED
      BY <1>1, <1>3, <1>4, WFMin
<1>6. PICK x \in T : B = 0..x
    OBVIOUS
<1>7. ASSUME NEW y \in T, ~(x <= y)
      PROVE  FALSE
  <2>1. /\ 0..y \in Below /\ {0..x, 0..y} \subseteq SUBSET Nat
        /\ 0..y \subseteq 0..x /\ 0..y # 0..x
      BY <1>7
  <2> QED
      BY <2>1, <1>5, <1>6, Zenon DEF StrictSubsetOrdering
<1> QED
    BY <1>7

(* Induction over the naturals, for a set.                                  *)
LEMMA NatSets ==
    ASSUME NEW S \in SUBSET Nat, 0 \in S, \A n \in S : n + 1 \in S
    PROVE  S = Nat
<1> SUFFICES ASSUME S # Nat PROVE FALSE
    OBVIOUS
<1>1. PICK m \in Nat \ S : \A y \in Nat \ S : m <= y
    BY NatLeast
<1>2. m - 1 \in S
    BY <1>1
<1> QED
    BY <1>1, <1>2

-----------------------------------------------------------------------------
(* Folds.                                                                   *)

(* The maximum of a set of positions is one of them.                        *)
LEMMA MaxOfPositions ==
    ASSUME NEW n \in Nat, NEW s \in SUBSET (1..n), s # {}
    PROVE  Max(s) \in s /\ \A y \in s : y <= Max(s)
<1> DEFINE T == {n - y : y \in s}
<1>1. PICK t \in T : \A u \in T : t <= u
  <2>1. \A y \in s : n - y \in Nat
      OBVIOUS
  <2>2. T \in SUBSET Nat
      BY <2>1
  <2>3. T # {}
      OBVIOUS
  <2> QED
    <3> HIDE DEF T
    <3> QED
        BY <2>2, <2>3, NatLeast
<1>2. PICK x \in s : t = n - x
    OBVIOUS
<1>3. \A y \in s : x >= y
  <2> SUFFICES ASSUME NEW y \in s PROVE x >= y
      OBVIOUS
  <2>1. n - y \in T
      OBVIOUS
  <2> QED
      BY <2>1, <1>1, <1>2
<1>4. \E z \in s : \A y \in s : z >= y
    BY <1>3
<1>5. Max(s) \in s /\ \A y \in s : Max(s) >= y
    BY <1>4, Zenon DEF Max
<1> QED
    BY <1>5

(* The last of n + 1 positions is the maximum of every set it is in.        *)
LEMMA MaxOfFirst ==
    ASSUME NEW n \in Nat, NEW s \in SUBSET (1..(n + 1)), n + 1 \in s
    PROVE  Max(s) = n + 1
<1>1. Max(s) \in s /\ \A y \in s : y <= Max(s)
    BY MaxOfPositions, n + 1 \in Nat
<1>2. Max(s) \in 1..(n + 1)
    BY <1>1
<1> QED
    BY <1>1, <1>2

(* f is the recursive function of a fold over n positions.                   *)
IsFold(f, base, op, n) ==
    \A s \in SUBSET (1..n) :
        f[s] = IF s = {} THEN base ELSE op[<<f[s \ {Max(s)}], Max(s)>>]

(* The recursive function of a fold exists: the one for n positions extends   *)
(* to one for n + 1.                                                        *)
LEMMA FoldExists ==
    ASSUME NEW S, NEW base \in S, NEW n \in Nat, NEW op \in [S \X (1..n) -> S]
    PROVE  \E f \in [SUBSET (1..n) -> S] : IsFold(f, base, op, n)
<1> DEFINE Folds(k, f) == f \in [SUBSET (1..k) -> S] /\ IsFold(f, base, op, k)
           K == {k \in Nat : k <= n => \E f : Folds(k, f)}
<1>1. 0 \in K
  <2> DEFINE f == [s \in SUBSET (1..0) |-> base]
  <2>1. 1..0 = {}
      OBVIOUS
  <2>2. Folds(0, f)
      BY <2>1 DEF IsFold
  <2> QED
      BY <2>2
<1>2. ASSUME NEW k \in Nat, k <= n => \E f : Folds(k, f), k + 1 <= n
      PROVE  \E g : Folds(k + 1, g)
  <2>1. k <= n /\ k + 1 \in 1..n
      BY <1>2
  <2>2. PICK f : Folds(k, f)
      BY <1>2, <2>1
  <2> DEFINE g == [s \in SUBSET (1..(k + 1)) |->
                      IF k + 1 \in s THEN op[<<f[s \ {k + 1}], k + 1>>] ELSE f[s]]
  <2>3. \A s \in SUBSET (1..(k + 1)) : /\ s \ {k + 1} \in SUBSET (1..k)
                                       /\ k + 1 \notin s => s \in SUBSET (1..k)
    <3>1. 1..(k + 1) = 1..k \cup {k + 1}
        OBVIOUS
    <3> QED
        BY <3>1
  <2>4. g \in [SUBSET (1..(k + 1)) -> S]
      BY <2>1, <2>2, <2>3
  <2>5. ASSUME NEW s \in SUBSET (1..(k + 1)), k + 1 \in s
        PROVE  g[s] = IF s = {} THEN base ELSE op[<<g[s \ {Max(s)}], Max(s)>>]
    <3>1. Max(s) = k + 1
        BY <2>5, MaxOfFirst
    <3>2. g[s \ {k + 1}] = f[s \ {k + 1}]
        BY <2>3
    <3> QED
        BY <3>1, <3>2, <2>5
  <2>6. ASSUME NEW s \in SUBSET (1..(k + 1)), k + 1 \notin s
        PROVE  g[s] = IF s = {} THEN base ELSE op[<<g[s \ {Max(s)}], Max(s)>>]
    <3>1. s \in SUBSET (1..k)
        BY <2>6, <2>3
    <3>2. g[s] = f[s]
        BY <2>6
    <3>3. \A t : g[s \ {t}] = f[s \ {t}]
        BY <2>6
    <3>4. f[s] = IF s = {} THEN base ELSE op[<<f[s \ {Max(s)}], Max(s)>>]
        BY <2>2, <3>1 DEF IsFold
    <3> QED
        BY <3>2, <3>3, <3>4
  <2>7. Folds(k + 1, g)
    <3> HIDE DEF g
    <3> QED
        BY <2>4, <2>5, <2>6 DEF IsFold
  <2> QED
      BY <2>7
<1>3. K = Nat
  <2> HIDE DEF Folds
  <2>1. \A k \in K : k + 1 \in K
      BY <1>2
  <2> HIDE DEF K
  <2>2. K \in SUBSET Nat
      BY DEF K
  <2> QED
      BY <1>1, <2>1, <2>2, NatSets
<1>4. \E f : Folds(n, f)
  <2> HIDE DEF Folds
  <2> QED
      BY <1>3
<1> QED
    BY <1>4

(* A prefix is the one before and its last position.                        *)
LEMMA MaxOfPrefix ==
    ASSUME NEW k \in Nat \ {0}
    PROVE  1..k # {} /\ Max(1..k) = k /\ (1..k) \ {k} = 1..(k - 1)
<1>1. k - 1 \in Nat /\ k \in 1..k /\ (k - 1) + 1 = k
    OBVIOUS
<1>2. 1..k \in SUBSET (1..((k - 1) + 1)) /\ (k - 1) + 1 \in 1..k
    BY <1>1
<1>3. Max(1..k) = (k - 1) + 1
    BY <1>1, <1>2, MaxOfFirst
<1> QED
    BY <1>1, <1>3

(* What op does to the value for a prefix, if it is an accumulator at all.   *)
Unrolls(iter, base, op, n, S) ==
    /\ iter[{}] = base
    /\ \A k \in 1..n : iter[1..(k - 1)] \in S =>
                           iter[1..k] = op[<<iter[1..(k - 1)], k>>]

(* A fold's accumulator: what it is before the first step and after each.    *)
Accumulates(acc, base, op, n, result) ==
    /\ acc[0] = base
    /\ \A k \in 1..n : acc[k] = op[<<acc[k - 1], k>>]
    /\ acc[n] = result

(* What unrolls so has an accumulator for every step.                       *)
LEMMA FoldRuns ==
    ASSUME NEW S, NEW base \in S, NEW n \in Nat, NEW op \in [S \X (1..n) -> S],
           NEW iter, Unrolls(iter, base, op, n, S)
    PROVE  \E acc \in [0..n -> S] : Accumulates(acc, base, op, n, iter[1..n])
<1> DEFINE acc == [k \in 0..n |-> iter[1..k]]
           K   == {k \in Nat : k <= n => iter[1..k] \in S}
<1>1. 1..0 = {}
    OBVIOUS
<1>2. 0 \in K
    BY <1>1 DEF Unrolls
<1>3. ASSUME NEW k \in K PROVE k + 1 \in K
  <2>1. k \in Nat
      OBVIOUS
  <2>2. CASE k + 1 <= n
    <3>1. k + 1 \in 1..n /\ (k + 1) - 1 = k /\ iter[1..k] \in S
        BY <2>1, <2>2
    <3>2. iter[1..(k + 1)] = op[<<iter[1..k], k + 1>>]
        BY <3>1 DEF Unrolls
    <3> QED
        BY <2>1, <3>1, <3>2
  <2> QED
      BY <2>1, <2>2
<1>4. K = Nat
  <2>1. K \in SUBSET Nat
      OBVIOUS
  <2> HIDE DEF K
  <2> QED
      BY <1>2, <1>3, <2>1, NatSets
<1>5. \A k \in 0..n : iter[1..k] \in S
    BY <1>4
<1>6. acc \in [0..n -> S] /\ acc[n] = iter[1..n]
    BY <1>5
<1>7. Accumulates(acc, base, op, n, iter[1..n])
  <2>1. acc[0] = base
      BY <1>1 DEF Unrolls
  <2>2. ASSUME NEW k \in 1..n PROVE acc[k] = op[<<acc[k - 1], k>>]
    <3>1. k - 1 \in 0..n /\ k \in 0..n
        OBVIOUS
    <3> QED
        BY <3>1, <1>5 DEF Unrolls
  <2> HIDE DEF acc
  <2> QED
      BY <1>6, <2>1, <2>2 DEF Accumulates
<1> QED
    BY <1>6, <1>7

-----------------------------------------------------------------------------
(* The three loops.                                                         *)

(* The counting of runs in speech_profile, level by level.                  *)
LEMMA CountRunSteps ==
    ASSUME NEW v \in Seq(Nat)
    PROVE  \E acc \in [0..Len(v) -> [run : Nat, best : Nat]] :
              /\ acc[0] = [run |-> 0, best |-> 0]
              /\ \A k \in 1..Len(v) : acc[k] = CountRun(acc[k - 1], v[k])
              /\ FoldLeft(CountRun, [run |-> 0, best |-> 0], v) = acc[Len(v)]
<1> DEFINE S    == [run : Nat, best : Nat]
           zero == [run |-> 0, best |-> 0]
           n    == Len(v)
           op   == [p \in S \X (1..n) |-> CountRun(p[1], v[p[2]])]
           Body(f) == [s \in SUBSET DOMAIN v |->
                          IF s = {} THEN zero
                          ELSE CountRun(f[s \ {Max(s)}], v[Max(s)])]
           iter == CHOOSE f : f = Body(f)
<1>1. op \in [S \X (1..n) -> S]
  <2>1. ASSUME NEW p \in S \X (1..n) PROVE CountRun(p[1], v[p[2]]) \in S
    <3>1. p[1] \in S /\ p[2] \in 1..n
        OBVIOUS
    <3>2. v[p[2]] \in Nat
        BY <3>1
    <3>3. Floor \in Nat
        BY ThresholdsAssumption
    <3> QED
        BY <3>1, <3>2, <3>3 DEF CountRun
  <2> QED
      BY <2>1
<1>2. zero \in S /\ n \in Nat /\ DOMAIN v = 1..n
    OBVIOUS
<1>3. PICK f \in [SUBSET (1..n) -> S] : IsFold(f, zero, op, n)
  <2> HIDE DEF S, zero, op
  <2> QED
      BY <1>1, <1>2, FoldExists, Zenon
<1>4. ASSUME NEW s \in SUBSET (1..n)
      PROVE  f[s] = IF s = {} THEN zero ELSE CountRun(f[s \ {Max(s)}], v[Max(s)])
  <2>1. CASE s = {}
      BY <2>1, <1>3 DEF IsFold
  <2>2. CASE s # {}
    <3>1. Max(s) \in 1..n /\ f[s \ {Max(s)}] \in S
        BY <1>2, <2>2, MaxOfPositions
    <3> QED
        BY <3>1, <2>2, <1>3 DEF IsFold
  <2> QED
      BY <2>1, <2>2
<1>5. f = Body(f)
  <2> HIDE DEF S, zero, op
  <2> QED
      BY <1>2, <1>4
<1>6. iter = Body(iter)
  <2> HIDE DEF Body
  <2> QED
      BY <1>5
<1>7. FoldLeft(CountRun, zero, v) = iter[1..n]
    BY <1>2 DEF FoldLeft, MapThenFoldSet
<1> HIDE DEF iter
<1>8. iter[{}] = zero
    BY <1>6
<1>9. ASSUME NEW k \in 1..n
      PROVE  iter[1..k] = CountRun(iter[1..(k - 1)], v[k])
  <2>1. 1..k \in SUBSET DOMAIN v /\ k \in Nat \ {0}
      BY <1>2
  <2>2. 1..k # {} /\ Max(1..k) = k /\ (1..k) \ {k} = 1..(k - 1)
      BY <2>1, MaxOfPrefix
  <2> HIDE DEF zero
  <2> QED
      BY <1>6, <2>1, <2>2
<1>10. PICK acc \in [0..n -> S] : Accumulates(acc, zero, op, n, iter[1..n])
  <2>1. Unrolls(iter, zero, op, n, S)
      BY <1>8, <1>9 DEF Unrolls
  <2> HIDE DEF S, zero, op, n
  <2> QED
      BY <1>1, <1>2, <2>1, FoldRuns, Zenon
<1>11. ASSUME NEW k \in 1..n
       PROVE  acc[k] = CountRun(acc[k - 1], v[k])
  <2> HIDE DEF S, op, zero
  <2>1. k - 1 \in 0..n /\ k \in Nat /\ k <= n
      BY <1>2
  <2>2. acc[k - 1] \in S
      BY <2>1, <1>10
  <2>3. acc[k] = op[<<acc[k - 1], k>>]
      BY <1>10 DEF Accumulates
  <2> QED
      BY <2>1, <2>3, <2>2 DEF op
<1> QED
  <2>1. /\ acc[0] = zero
        /\ \A k \in 1..n : acc[k] = CountRun(acc[k - 1], v[k])
        /\ FoldLeft(CountRun, zero, v) = acc[n]
    <3> HIDE DEF op, S, zero
    <3> QED
        BY <1>7, <1>10, <1>11 DEF Accumulates
  <2> QED
      BY <1>10, <2>1, Zenon
(* The sum of the loud levels, level by level.                              *)
LEMMA AddLoudSteps ==
    ASSUME NEW v \in Seq(Nat)
    PROVE  \E acc \in [0..Len(v) -> Nat] :
              /\ acc[0] = 0
              /\ \A k \in 1..Len(v) : acc[k] = AddLoud(acc[k - 1], v[k])
              /\ FoldLeft(AddLoud, 0, v) = acc[Len(v)]
<1> DEFINE S    == Nat
           zero == 0
           n    == Len(v)
           op   == [p \in S \X (1..n) |-> AddLoud(p[1], v[p[2]])]
           Body(f) == [s \in SUBSET DOMAIN v |->
                          IF s = {} THEN zero
                          ELSE AddLoud(f[s \ {Max(s)}], v[Max(s)])]
           iter == CHOOSE f : f = Body(f)
<1>1. op \in [S \X (1..n) -> S]
  <2>1. ASSUME NEW p \in S \X (1..n) PROVE AddLoud(p[1], v[p[2]]) \in S
    <3>1. p[1] \in S /\ p[2] \in 1..n
        OBVIOUS
    <3>2. v[p[2]] \in Nat
        BY <3>1
    <3>3. Floor \in Nat
        BY ThresholdsAssumption
    <3> QED
        BY <3>1, <3>2, <3>3 DEF AddLoud
  <2> QED
      BY <2>1
<1>2. zero \in S /\ n \in Nat /\ DOMAIN v = 1..n
    OBVIOUS
<1>3. PICK f \in [SUBSET (1..n) -> S] : IsFold(f, zero, op, n)
  <2> HIDE DEF S, zero, op
  <2> QED
      BY <1>1, <1>2, FoldExists, Zenon
<1>4. ASSUME NEW s \in SUBSET (1..n)
      PROVE  f[s] = IF s = {} THEN zero ELSE AddLoud(f[s \ {Max(s)}], v[Max(s)])
  <2>1. CASE s = {}
      BY <2>1, <1>3 DEF IsFold
  <2>2. CASE s # {}
    <3>1. Max(s) \in 1..n /\ f[s \ {Max(s)}] \in S
        BY <1>2, <2>2, MaxOfPositions
    <3> QED
        BY <3>1, <2>2, <1>3 DEF IsFold
  <2> QED
      BY <2>1, <2>2
<1>5. f = Body(f)
  <2> HIDE DEF S, zero, op
  <2> QED
      BY <1>2, <1>4
<1>6. iter = Body(iter)
  <2> HIDE DEF Body
  <2> QED
      BY <1>5
<1>7. FoldLeft(AddLoud, zero, v) = iter[1..n]
    BY <1>2 DEF FoldLeft, MapThenFoldSet
<1> HIDE DEF iter
<1>8. iter[{}] = zero
    BY <1>6
<1>9. ASSUME NEW k \in 1..n
      PROVE  iter[1..k] = AddLoud(iter[1..(k - 1)], v[k])
  <2>1. 1..k \in SUBSET DOMAIN v /\ k \in Nat \ {0}
      BY <1>2
  <2>2. 1..k # {} /\ Max(1..k) = k /\ (1..k) \ {k} = 1..(k - 1)
      BY <2>1, MaxOfPrefix
  <2> HIDE DEF zero
  <2> QED
      BY <1>6, <2>1, <2>2
<1>10. PICK acc \in [0..n -> S] : Accumulates(acc, zero, op, n, iter[1..n])
  <2>1. Unrolls(iter, zero, op, n, S)
      BY <1>8, <1>9 DEF Unrolls
  <2> HIDE DEF S, zero, op, n
  <2> QED
      BY <1>1, <1>2, <2>1, FoldRuns, Zenon
<1>11. ASSUME NEW k \in 1..n
       PROVE  acc[k] = AddLoud(acc[k - 1], v[k])
  <2> HIDE DEF S, op, zero
  <2>1. k - 1 \in 0..n /\ k \in Nat /\ k <= n
      BY <1>2
  <2>2. acc[k - 1] \in S
      BY <2>1, <1>10
  <2>3. acc[k] = op[<<acc[k - 1], k>>]
      BY <1>10 DEF Accumulates
  <2> QED
      BY <2>1, <2>3, <2>2 DEF op
<1> QED
  <2>1. /\ acc[0] = zero
        /\ \A k \in 1..n : acc[k] = AddLoud(acc[k - 1], v[k])
        /\ FoldLeft(AddLoud, zero, v) = acc[n]
    <3> HIDE DEF op, S, zero
    <3> QED
        BY <1>7, <1>10, <1>11 DEF Accumulates
  <2> QED
      BY <1>10, <2>1, Zenon
(* Words as they are on their way through the three substitutions.           *)
W     == [kind : {"unit", "tens", "hundred", "word", "number"}, value : Nat, sep : Seps]
Rules == {"compound", "hundred"}

(* A substitution makes words of words.                                     *)
LEMMA PassType ==
    ASSUME NEW rule \in Rules, NEW done \in Seq(W), NEW w \in W
    PROVE  Pass(rule, done, w) \in Seq(W)
<1>1. CASE done # <<>>
  <2>1. Last(done) \in W /\ Front(done) \in Seq(W)
      BY <1>1 DEF Last, Front
  <2>2. Joined(rule, Last(done), w) \in W
      BY <2>1 DEF W, Joined, Word, Number
  <2> QED
      BY <2>1, <2>2 DEF Pass
<1>2. CASE done = <<>>
    BY <1>2 DEF Pass
<1> QED
    BY <1>1, <1>2

(* A substitution, word by word.                                            *)
LEMMA PassSteps ==
    ASSUME NEW v \in Seq(W), NEW rule \in Rules
    PROVE  \E acc \in [0..Len(v) -> Seq(W)] :
              /\ acc[0] = <<>>
              /\ \A k \in 1..Len(v) : acc[k] = Pass(rule, acc[k - 1], v[k])
              /\ Substitute(rule, v) = acc[Len(v)]
<1> DEFINE S    == Seq(W)
           zero == <<>>
           n    == Len(v)
           op   == [p \in S \X (1..n) |-> Pass(rule, p[1], v[p[2]])]
           Body(f) == [s \in SUBSET DOMAIN v |->
                          IF s = {} THEN zero
                          ELSE Pass(rule, f[s \ {Max(s)}], v[Max(s)])]
           iter == CHOOSE f : f = Body(f)
<1>1. op \in [S \X (1..n) -> S]
  <2>1. \A p \in S \X (1..n) : p[1] \in Seq(W) /\ v[p[2]] \in W
      OBVIOUS
  <2>2. \A p \in S \X (1..n) : Pass(rule, p[1], v[p[2]]) \in S
      BY <2>1, PassType
  <2> QED
      BY <2>2
<1>2. zero \in S /\ n \in Nat /\ DOMAIN v = 1..n
    OBVIOUS
<1>3. PICK f \in [SUBSET (1..n) -> S] : IsFold(f, zero, op, n)
  <2> HIDE DEF S, zero, op
  <2> QED
      BY <1>1, <1>2, FoldExists, Zenon
<1>4. ASSUME NEW s \in SUBSET (1..n)
      PROVE  f[s] = IF s = {} THEN zero ELSE Pass(rule, f[s \ {Max(s)}], v[Max(s)])
  <2>1. CASE s = {}
      BY <2>1, <1>3 DEF IsFold
  <2>2. CASE s # {}
    <3>1. Max(s) \in 1..n /\ f[s \ {Max(s)}] \in S
        BY <1>2, <2>2, MaxOfPositions
    <3> QED
        BY <3>1, <2>2, <1>3 DEF IsFold
  <2> QED
      BY <2>1, <2>2
<1>5. f = Body(f)
  <2> HIDE DEF S, zero, op
  <2> QED
      BY <1>2, <1>4
<1>6. iter = Body(iter)
  <2> HIDE DEF Body
  <2> QED
      BY <1>5
<1>7. Substitute(rule, v) = iter[1..n]
    BY <1>2 DEF Substitute, FoldLeft, MapThenFoldSet
<1> HIDE DEF iter
<1>8. iter[{}] = zero
    BY <1>6
<1>9. ASSUME NEW k \in 1..n
      PROVE  iter[1..k] = Pass(rule, iter[1..(k - 1)], v[k])
  <2>1. 1..k \in SUBSET DOMAIN v /\ k \in Nat \ {0}
      BY <1>2
  <2>2. 1..k # {} /\ Max(1..k) = k /\ (1..k) \ {k} = 1..(k - 1)
      BY <2>1, MaxOfPrefix
  <2> HIDE DEF zero
  <2> QED
      BY <1>6, <2>1, <2>2
<1>10. PICK acc \in [0..n -> S] : Accumulates(acc, zero, op, n, iter[1..n])
  <2>1. Unrolls(iter, zero, op, n, S)
      BY <1>8, <1>9 DEF Unrolls
  <2> HIDE DEF S, zero, op, n
  <2> QED
      BY <1>1, <1>2, <2>1, FoldRuns, Zenon
<1>11. ASSUME NEW k \in 1..n
       PROVE  acc[k] = Pass(rule, acc[k - 1], v[k])
  <2> HIDE DEF S, op, zero
  <2>1. k - 1 \in 0..n /\ k \in Nat /\ k <= n
      BY <1>2
  <2>2. acc[k - 1] \in S
      BY <2>1, <1>10
  <2>3. acc[k] = op[<<acc[k - 1], k>>]
      BY <1>10 DEF Accumulates
  <2> QED
      BY <2>1, <2>3, <2>2 DEF op
<1> QED
  <2>1. /\ acc[0] = zero
        /\ \A k \in 1..n : acc[k] = Pass(rule, acc[k - 1], v[k])
        /\ Substitute(rule, v) = acc[n]
    <3> HIDE DEF op, S, zero
    <3> QED
        BY <1>7, <1>10, <1>11 DEF Accumulates
  <2> QED
      BY <1>10, <2>1, Zenon

-----------------------------------------------------------------------------
(* Frames.                                                                  *)

Frames == [levels : Seq(Nat), rest : 0..(Hop - 1), final : BOOLEAN]

(* Quotient and remainder are what they are written as.                     *)
LEMMA DivIs ==
    ASSUME NEW d \in Nat \ {0}, NEW q \in Int, NEW r \in 0..(d - 1)
    PROVE  (q * d + r) \div d = q /\ (q * d + r) % d = r
<1> DEFINE x == q * d + r
           p == x \div d
           m == x % d
<1>1. p \in Int /\ m \in 0..(d - 1)
    OBVIOUS
<1>2. x \in Int
    OBVIOUS
<1> HIDE DEF p, m, x
<1>3. x = p * d + m
    BY <1>1, <1>2 DEF p, m
<1> USE DEF x
<1>4. (p - q) * d = r - m
    BY <1>1, <1>3
<1>5. CASE p > q
  <2>1. (p - q) * d >= d
      BY <1>1, <1>5
  <2> QED
      BY <1>1, <1>4, <2>1
<1>6. CASE p < q
  <2>1. (q - p) * d >= d
      BY <1>1, <1>6
  <2>2. (q - p) * d = m - r
      BY <1>1, <1>3
  <2> QED
      BY <1>1, <2>1, <2>2
<1>7. CASE p = q
  <2>1. m = r
      BY <1>1, <1>3, <1>7
  <2> QED
      BY <1>7, <2>1 DEF p, m
<1> QED
    BY <1>1, <1>5, <1>6, <1>7

(* A length is whole frames and a rest.                                     *)
LEMMA DivMod ==
    ASSUME NEW d \in Nat \ {0}, NEW x \in Nat
    PROVE  \E p \in Nat, m \in 0..(d - 1) : p = x \div d /\ m = x % d /\ x = p * d + m
<1>1. PICK p \in Int : p = x \div d
    OBVIOUS
<1>2. PICK m \in 0..(d - 1) : m = x % d
    OBVIOUS
<1>3. x = p * d + m
    BY <1>1, <1>2
<1>4. p * d > 0 - d
    BY <1>3
<1>5. p \in Nat
  <2> SUFFICES ASSUME p <= -1 PROVE FALSE
      BY <1>3
  <2>1. (-1 - p) * d >= 0
      BY <1>3
  <2>2. (-1 - p) * d = 0 - d - p * d
      BY <1>3
  <2> QED
      BY <1>3, <1>4, <2>1, <2>2
<1> QED
    BY <1>1, <1>2, <1>3, <1>5

(* Of a chunk without a partial frame the last whole one is not measured.    *)
LEMMA FrameCountIs ==
    ASSUME NEW c \in Frames
    PROVE  FrameCount(c) = IF c.rest # 0 THEN Len(c.levels)
                           ELSE IF c.levels = <<>> THEN 0 ELSE Len(c.levels) - 1
<1> DEFINE n == Len(c.levels)
           r == c.rest
<1>1. Hop \in Nat \ {0} /\ n \in Nat /\ r \in 0..(Hop - 1) /\ (c.levels = <<>> <=> n = 0)
    BY SizesAssumption DEF Frames
<1> HIDE DEF n, r
<1>2. CASE r = 0
  <2>1. Hop - (n * Hop + r) = (1 - n) * Hop + 0
      BY <1>1, <1>2
  <2>2. (Hop - (n * Hop + r)) \div Hop = 1 - n
      BY <1>1, <2>1, DivIs, 1 - n \in Int, 0 \in 0..(Hop - 1)
  <2>3. FrameCount(c) = IF 0 - (1 - n) < 0 THEN 0 ELSE 0 - (1 - n)
      BY <2>2 DEF FrameCount, Length, n, r
  <2>4. FrameCount(c) = IF n = 0 THEN 0 ELSE n - 1
      BY <1>1, <2>3
  <2> QED
      BY <1>1, <1>2, <2>4 DEF n, r
<1>3. CASE r # 0
  <2>1. Hop - (n * Hop + r) = (0 - n) * Hop + (Hop - r)
      BY <1>1
  <2>2. (Hop - (n * Hop + r)) \div Hop = 0 - n
      BY <1>1, <1>3, <2>1, DivIs, 0 - n \in Int, Hop - r \in 0..(Hop - 1)
  <2> QED
      BY <1>1, <1>3, <2>2 DEF FrameCount, Length, n, r
<1> QED
    BY <1>2, <1>3

(* What is measured is a prefix of the levels.                              *)
LEMMA VoicedIs ==
    ASSUME NEW c \in Frames
    PROVE  /\ FrameCount(c) \in 0..Len(c.levels)
           /\ Voiced(c) \in Seq(Nat) /\ Len(Voiced(c)) = FrameCount(c)
           /\ \A i \in 1..FrameCount(c) : Voiced(c)[i] = c.levels[i]
           /\ Loud(c) = {i \in 1..FrameCount(c) : c.levels[i] > Floor}
<1>1. c.levels \in Seq(Nat) /\ Len(c.levels) \in Nat
    BY DEF Frames
<1>2. FrameCount(c) \in 0..Len(c.levels)
    BY <1>1, FrameCountIs
<1>3. /\ Voiced(c) \in Seq(Nat) /\ Len(Voiced(c)) = FrameCount(c)
      /\ \A i \in 1..FrameCount(c) : Voiced(c)[i] = c.levels[i]
    BY <1>1, <1>2 DEF Voiced
<1> QED
    BY <1>2, <1>3 DEF Loud

(* Trimming takes away samples from the end, and of what was measured only    *)
(* quiet frames: the pad is what keeps the last loud one a measured one.      *)
LEMMA CutAll ==
    ASSUME NEW c \in Frames
    PROVE  Cut(c, Length(c)) = c
<1>1. /\ c.levels \in Seq(Nat) /\ Len(c.levels) \in Nat /\ c.rest \in 0..(Hop - 1)
      /\ Hop \in Nat \ {0}
    BY SizesAssumption DEF Frames
<1>2. Length(c) \div Hop = Len(c.levels) /\ Length(c) % Hop = c.rest
  <2> DEFINE n == Len(c.levels)
             r == c.rest
  <2>1. (n * Hop + r) \div Hop = n /\ (n * Hop + r) % Hop = r
    <3>1. n \in Int
        BY <1>1
    <3> HIDE DEF n
    <3> QED
        BY <1>1, <3>1, DivIs
  <2> QED
      BY <2>1 DEF Length
<1>3. SubSeq(c.levels, 1, Len(c.levels)) = c.levels
    BY <1>1
<1> QED
    BY <1>2, <1>3 DEF Cut, Frames

(* Behind `last` frames and a pad there are q frames and m samples, of at     *)
(* most n frames and r samples.                                             *)
Padded(hop, keep, last, n, r, q, m) ==
    /\ {hop, keep} \subseteq Nat \ {0} /\ {last, n, q} \subseteq Nat
    /\ {m, r} \subseteq 0..(hop - 1)
    /\ last * hop + keep = q * hop + m /\ q * hop + m <= n * hop + r

(* No frame counted in is lost, and without a rest a frame stays behind it. *)
LEMMA PadKeeps ==
    ASSUME NEW hop, NEW keep, NEW last, NEW n, NEW r, NEW q, NEW m,
           Padded(hop, keep, last, n, r, q, m)
    PROVE  q <= n /\ (q = n => m <= r) /\ last <= q /\ (m = 0 => last < q)
<1> USE DEF Padded
<1>1. q <= n
  <2> SUFFICES ASSUME q - n >= 1 PROVE FALSE
      OBVIOUS
  <2>1. (q - n) * hop >= hop
      OBVIOUS
  <2>2. (q - n) * hop = q * hop - n * hop
      OBVIOUS
  <2> QED
      BY <2>1, <2>2
<1>2. last <= q
  <2> SUFFICES ASSUME last - q >= 1 PROVE FALSE
      OBVIOUS
  <2>1. (last - q) * hop >= hop
      OBVIOUS
  <2>2. (last - q) * hop = last * hop - q * hop
      OBVIOUS
  <2> QED
      BY <2>1, <2>2
<1>3. m = 0 => last # q
    OBVIOUS
<1> QED
    BY <1>1, <1>2, <1>3

(* The first m of a sequence.                                               *)
LEMMA FrontOf ==
    ASSUME NEW S, NEW s \in Seq(S), NEW m \in Nat, m <= Len(s)
    PROVE  /\ SubSeq(s, 1, m) \in Seq(S) /\ Len(SubSeq(s, 1, m)) = m
           /\ \A n \in 1..m : SubSeq(s, 1, m)[n] = s[n]
OBVIOUS

(* Cut behind its last loud frame and the pad, a chunk keeps that frame.    *)
LEMMA CutTo ==
    ASSUME NEW c \in Frames, NEW last \in 1..FrameCount(c),
           \A i \in (last + 1)..FrameCount(c) : ~(c.levels[i] > Floor),
           last * Hop + Keep <= Length(c)
    PROVE  LET b == Cut(c, last * Hop + Keep)
           IN /\ b \in Frames /\ FrameCount(b) \in last..FrameCount(c)
              /\ \A i \in 1..FrameCount(b) : b.levels[i] = c.levels[i]
<1> DEFINE n == Len(c.levels)
           r == c.rest
           t == last * Hop + Keep
           b == Cut(c, t)
<1>1. /\ c.levels \in Seq(Nat) /\ n \in Nat /\ r \in 0..(Hop - 1)
      /\ Hop \in Nat \ {0} /\ Keep \in Nat \ {0}
    BY SizesAssumption DEF Frames
<1>2. FrameCount(c) \in 0..n /\ FrameCount(c) = IF r # 0 THEN n ELSE IF n = 0 THEN 0 ELSE n - 1
  <2>1. FrameCount(c) \in 0..n
      BY VoicedIs
  <2>2. FrameCount(c) = IF r # 0 THEN n ELSE IF c.levels = <<>> THEN 0 ELSE n - 1
      BY FrameCountIs
  <2>3. c.levels = <<>> <=> n = 0
      BY <1>1
  <2> QED
      BY <2>1, <2>2, <2>3
<1>3. last \in Nat /\ 1 <= last /\ last <= n
    BY <1>2
<1>4. t \in Nat
  <2>1. last \in Nat /\ Hop \in Nat /\ Keep \in Nat
      BY <1>1, <1>3
  <2>2. last * Hop \in Nat
      BY <2>1
  <2> QED
      BY <2>1, <2>2
<1>5. PICK q \in Nat, m \in 0..(Hop - 1) : q = t \div Hop /\ m = t % Hop /\ t = q * Hop + m
  <2> HIDE DEF t
  <2> QED
      BY <1>1, <1>4, DivMod
<1>6. /\ last * Hop + Keep = q * Hop + m
      /\ q * Hop + m <= n * Hop + r
    BY <1>5 DEF Length
<1>7. q <= n /\ (q = n => m <= r) /\ last <= q /\ (m = 0 => last < q)
  <2> HIDE DEF n, r, t, b
  <2>1. Padded(Hop, Keep, last, n, r, q, m)
      BY <1>1, <1>3, <1>5, <1>6 DEF Padded
  <2> QED
      BY <2>1, PadKeeps
<1>8. /\ b = [levels |-> SubSeq(c.levels, 1, q), rest |-> m, final |-> c.final]
       /\ SubSeq(c.levels, 1, q) \in Seq(Nat) /\ Len(SubSeq(c.levels, 1, q)) = q
       /\ \A i \in 1..q : SubSeq(c.levels, 1, q)[i] = c.levels[i]
  <2>1. c = [levels |-> c.levels, rest |-> c.rest, final |-> c.final]
      BY DEF Frames
  <2>2. b = [c EXCEPT !.levels = SubSeq(c.levels, 1, q), !.rest = m]
    <3> HIDE DEF t
    <3> QED
        BY <1>5 DEF Cut
  <2>3. b = [levels |-> SubSeq(c.levels, 1, q), rest |-> m, final |-> c.final]
    <3> HIDE DEF b
    <3> QED
        BY <2>1, <2>2
  <2>4. /\ SubSeq(c.levels, 1, q) \in Seq(Nat) /\ Len(SubSeq(c.levels, 1, q)) = q
        /\ \A i \in 1..q : SubSeq(c.levels, 1, q)[i] = c.levels[i]
    <3>1. c.levels \in Seq(Nat) /\ q \in Nat /\ q <= Len(c.levels)
        BY <1>1, <1>5, <1>7
    <3> QED
        BY <3>1, FrontOf
  <2> QED
      BY <2>3, <2>4
<1> HIDE DEF b
<1>9. b \in Frames
    BY <1>8 DEF Frames
<1>10. FrameCount(b) = IF m # 0 THEN q ELSE q - 1
  <2>1. Len(b.levels) = q /\ b.rest = m /\ (m = 0 => b.levels # <<>>)
      BY <1>3, <1>7, <1>8
  <2> QED
      BY <2>1, <1>9, FrameCountIs
<1>11. FrameCount(b) \in last..FrameCount(c)
  <2> HIDE DEF n, r, t
  <2> QED
      BY <1>1, <1>2, <1>3, <1>7, <1>10
<1>12. \A i \in 1..FrameCount(b) : b.levels[i] = c.levels[i]
    BY <1>8, <1>10
<1> QED
    BY <1>9, <1>11, <1>12 DEF b

(* What trimming takes of the measured frames is quiet.                     *)
LEMMA TrimmedIs ==
    ASSUME NEW c \in Frames
    PROVE  LET b == Cut(c, TrimmedLength(c))
           IN /\ b \in Frames /\ FrameCount(b) \in 0..FrameCount(c)
              /\ \A i \in 1..FrameCount(b) : b.levels[i] = c.levels[i]
              /\ \A i \in (FrameCount(b) + 1)..FrameCount(c) : ~(c.levels[i] > Floor)
<1> DEFINE last == CHOOSE i \in Loud(c) : \A j \in Loud(c) : j <= i
<1>1. FrameCount(c) \in Nat /\ Loud(c) = {i \in 1..FrameCount(c) : c.levels[i] > Floor}
    BY VoicedIs DEF Frames
<1>2. CASE TrimmedLength(c) = Length(c)
    BY <1>1, <1>2, CutAll
<1>3. CASE TrimmedLength(c) # Length(c)
  <2>1. Loud(c) # {} /\ ~(last * Hop + Keep > Length(c)) /\ TrimmedLength(c) = last * Hop + Keep
      BY <1>3 DEF TrimmedLength
  <2>2. \E i \in Loud(c) : \A j \in Loud(c) : j <= i
    <3>1. Loud(c) \in SUBSET (1..FrameCount(c))
        BY <1>1
    <3> QED
        BY <1>1, <2>1, <3>1, MaxOfPositions
  <2>3. last \in Loud(c) /\ \A j \in Loud(c) : j <= last
    <3> HIDE <1>1
    <3> QED
        BY <2>2
  <2> HIDE DEF last
  <2>4. last \in 1..FrameCount(c)
      BY <1>1, <2>3
  <2>5. \A i \in (last + 1)..FrameCount(c) : ~(c.levels[i] > Floor)
      BY <1>1, <2>3, <2>4
  <2>6. last * Hop + Keep <= Length(c)
    <3>1. Len(c.levels) \in Nat /\ c.rest \in Nat /\ Hop \in Nat /\ Keep \in Nat
        BY SizesAssumption DEF Frames
    <3>2. Length(c) \in Nat /\ last * Hop + Keep \in Nat
        BY <3>1, <2>4 DEF Length
    <3> QED
        BY <2>1, <3>2
  <2> QED
      BY <1>1, <2>1, <2>4, <2>5, <2>6, CutTo
<1> QED
    BY <1>2, <1>3

-----------------------------------------------------------------------------
(* The longest run.                                                         *)

Accs == [run : Nat, best : Nat]

(* What the loop of speech_profile has counted after k frames, of which those *)
(* in L are loud.                                                           *)
Counted(k, acc, L) ==
    /\ acc.run <= k /\ (k - acc.run + 1)..k \subseteq L
    /\ acc.run < k => k - acc.run \notin L
    /\ \E i \in Nat : i + acc.best <= k /\ (i + 1)..(i + acc.best) \subseteq L
    /\ \A i, m \in Nat : i + m <= k /\ (i + 1)..(i + m) \subseteq L => m <= acc.best

(* One more frame.                                                          *)
LEMMA CountedStep ==
    ASSUME NEW k \in Nat, NEW acc \in Accs, NEW L, Counted(k, acc, L),
           NEW level \in Nat, k + 1 \in L <=> level > Floor
    PROVE  Counted(k + 1, CountRun(acc, level), L)
<1> DEFINE new == CountRun(acc, level)
<1>1. acc.run \in Nat /\ acc.best \in Nat /\ Floor \in Nat
    BY ThresholdsAssumption DEF Accs
<1>2. CASE k + 1 \in L
  <2>1. /\ new.run = acc.run + 1
        /\ new.best = IF acc.run + 1 > acc.best THEN acc.run + 1 ELSE acc.best
      BY <1>2 DEF CountRun
  <2> HIDE DEF new
  <2>2. /\ new.run <= k + 1 /\ (k + 1) - new.run = k - acc.run
        /\ new.run < k + 1 => acc.run < k
      BY <1>1, <2>1 DEF Counted
  <2>3. (k - acc.run + 1)..(k + 1) \subseteq L
    <3>1. (k - acc.run + 1)..(k + 1) \subseteq ((k - acc.run + 1)..k) \cup {k + 1}
        BY <1>1
    <3> QED
        BY <1>2, <3>1 DEF Counted
  <2>4. \E i \in Nat : i + new.best <= k + 1 /\ (i + 1)..(i + new.best) \subseteq L
    <3>1. CASE acc.run + 1 > acc.best
      <4>1. k - acc.run \in Nat /\ (k - acc.run) + new.best = k + 1
          BY <1>1, <2>1, <3>1 DEF Counted
      <4> QED
          BY <4>1, <2>3
    <3>2. CASE ~(acc.run + 1 > acc.best)
      <4>1. PICK i \in Nat : i + acc.best <= k /\ (i + 1)..(i + acc.best) \subseteq L
          BY DEF Counted
      <4>2. new.best = acc.best /\ i + new.best <= k + 1
          BY <1>1, <2>1, <3>2, <4>1
      <4> QED
          BY <4>1, <4>2
    <3> QED
        BY <3>1, <3>2
  <2>5. ASSUME NEW i \in Nat, NEW m \in Nat, i + m <= k + 1, (i + 1)..(i + m) \subseteq L
        PROVE  m <= new.best
    <3>1. CASE i + m <= k
      <4>1. m <= acc.best
          BY <3>1, <2>5 DEF Counted
      <4> QED
          BY <1>1, <2>1, <4>1
    <3>2. CASE i + m = k + 1 /\ m > acc.run + 1
      <4>1. acc.run < k /\ k - acc.run \in (i + 1)..(i + m)
          BY <1>1, <3>2
      <4> QED
          BY <2>5, <4>1 DEF Counted
    <3> QED
        BY <1>1, <2>1, <2>5, <3>1, <3>2
  <2>6. /\ ((k + 1) - new.run + 1)..(k + 1) \subseteq L
        /\ new.run < k + 1 => (k + 1) - new.run \notin L
    <3>1. (k + 1) - new.run + 1 = k - acc.run + 1
        BY <1>1, <2>1
    <3> QED
        BY <2>2, <2>3, <3>1 DEF Counted
  <2>7. Counted(k + 1, new, L)
      BY <2>2, <2>4, <2>5, <2>6, Zenon DEF Counted
  <2> QED
      BY <2>7 DEF new
<1>3. CASE k + 1 \notin L
  <2>1. new.run = 0 /\ new.best = acc.best
      BY <1>1, <1>3 DEF CountRun
  <2> HIDE DEF new
  <2>2. new.run <= k + 1 /\ ((k + 1) - new.run + 1)..(k + 1) = {} /\ (k + 1) - new.run = k + 1
      BY <2>1
  <2>3. \E i \in Nat : i + new.best <= k + 1 /\ (i + 1)..(i + new.best) \subseteq L
      BY <1>1, <2>1 DEF Counted
  <2>4. ASSUME NEW i \in Nat, NEW m \in Nat, i + m <= k + 1, (i + 1)..(i + m) \subseteq L
        PROVE  m <= new.best
    <3>1. CASE i + m <= k
        BY <2>1, <2>4, <3>1 DEF Counted
    <3>2. CASE m # 0 /\ i + m = k + 1
        BY <1>3, <2>4, <3>2
    <3> QED
        BY <1>1, <2>1, <2>4, <3>1, <3>2
  <2>5. /\ ((k + 1) - new.run + 1)..(k + 1) \subseteq L
        /\ new.run < k + 1 => (k + 1) - new.run \notin L
      BY <1>3, <2>2
  <2>6. Counted(k + 1, new, L)
      BY <2>2, <2>3, <2>4, <2>5, Zenon DEF Counted
  <2> QED
      BY <2>6 DEF new
<1> QED
    BY <1>2, <1>3

(* The loop counts the longest run.                                         *)
LEMMA LongestIs ==
    ASSUME NEW v \in Seq(Nat)
    PROVE  LET acc == FoldLeft(CountRun, [run |-> 0, best |-> 0], v)
           IN acc \in Accs /\ Counted(Len(v), acc, {i \in 1..Len(v) : v[i] > Floor})
<1> DEFINE n == Len(v)
           L == {i \in 1..n : v[i] > Floor}
<1>1. PICK acc \in [0..n -> Accs] :
          /\ acc[0] = [run |-> 0, best |-> 0]
          /\ \A k \in 1..n : acc[k] = CountRun(acc[k - 1], v[k])
          /\ FoldLeft(CountRun, [run |-> 0, best |-> 0], v) = acc[n]
    BY CountRunSteps DEF Accs
<1> DEFINE K == {k \in Nat : k <= n => Counted(k, acc[k], L)}
<1>2. n \in Nat
    OBVIOUS
<1> HIDE DEF n
<1>3. 0 \in K
  <2>1. acc[0].run = 0 /\ acc[0].best = 0
      BY <1>1
  <2>2. \A i, m \in Nat : i + m <= 0 => m <= 0
      OBVIOUS
  <2>3. (0 - 0 + 1)..0 = {} /\ 0 + 0 <= 0 /\ (0 + 1)..(0 + 0) = {}
      OBVIOUS
  <2>4. Counted(0, acc[0], L)
    <3> HIDE DEF L
    <3> QED
        BY <2>1, <2>2, <2>3 DEF Counted
  <2> QED
      BY <2>4
<1>4. ASSUME NEW k \in K PROVE k + 1 \in K
  <2>1. k \in Nat
      OBVIOUS
  <2>2. CASE k + 1 <= n
    <3>1. k + 1 \in 1..n /\ (k + 1) - 1 = k /\ k \in 0..n /\ v[k + 1] \in Nat
        BY <1>2, <2>1, <2>2 DEF n
    <3>2. acc[k] \in Accs /\ acc[k + 1] = CountRun(acc[k], v[k + 1])
        BY <1>1, <3>1
    <3>3. Counted(k, acc[k], L) /\ (k + 1 \in L <=> v[k + 1] > Floor)
        BY <3>1
    <3>4. Counted(k + 1, acc[k + 1], L)
      <4> HIDE DEF L
      <4> QED
          BY <2>1, <3>1, <3>2, <3>3, CountedStep
    <3> QED
        BY <2>1, <3>4
  <2> QED
      BY <2>1, <2>2
<1>5. K = Nat
  <2>1. K \in SUBSET Nat
      OBVIOUS
  <2> HIDE DEF K
  <2> QED
      BY <1>3, <1>4, <2>1, NatSets
<1>6. Counted(n, acc[n], L) /\ acc[n] \in Accs
    BY <1>1, <1>2, <1>5
<1> QED
    BY <1>1, <1>6 DEF n

-----------------------------------------------------------------------------
(* A tail of quiet frames changes nothing of what the loops count.           *)

QuietBehind(u, v) ==
    /\ Len(u) <= Len(v)
    /\ \A i \in 1..Len(u) : u[i] = v[i]
    /\ \A i \in (Len(u) + 1)..Len(v) : ~(v[i] > Floor)

(* Quiet frames at the end do not change the longest run.                   *)
LEMMA QuietTailRun ==
    ASSUME NEW u \in Seq(Nat), NEW v \in Seq(Nat), QuietBehind(u, v)
    PROVE  FoldLeft(CountRun, [run |-> 0, best |-> 0], u).best
              = FoldLeft(CountRun, [run |-> 0, best |-> 0], v).best
<1> DEFINE n == Len(u)
           m == Len(v)
<1>1. n \in Nat /\ m \in Nat /\ n <= m
    BY DEF QuietBehind
<1>2. PICK a \in [0..n -> [run : Nat, best : Nat]] :
          /\ a[0] = [run |-> 0, best |-> 0]
          /\ \A k \in 1..n : a[k] = CountRun(a[k - 1], u[k])
          /\ FoldLeft(CountRun, [run |-> 0, best |-> 0], u) = a[n]
    BY CountRunSteps
<1>3. PICK b \in [0..m -> [run : Nat, best : Nat]] :
          /\ b[0] = [run |-> 0, best |-> 0]
          /\ \A k \in 1..m : b[k] = CountRun(b[k - 1], v[k])
          /\ FoldLeft(CountRun, [run |-> 0, best |-> 0], v) = b[m]
    BY CountRunSteps
<1> HIDE DEF n, m
<1> DEFINE Same  == {k \in Nat : k <= n => a[k] = b[k]}
           Quiet == {k \in Nat : n + k <= m => b[n + k].best = b[n].best}
<1>4. Same = Nat
  <2>1. 0 \in Same
      BY <1>2, <1>3
  <2>2. ASSUME NEW k \in Same PROVE k + 1 \in Same
    <3>1. k \in Nat
        OBVIOUS
    <3>2. CASE k + 1 <= n
      <4>1. k + 1 \in 1..n /\ k + 1 \in 1..m /\ (k + 1) - 1 = k
          BY <1>1, <3>1, <3>2
      <4>2. u[k + 1] = v[k + 1] /\ a[k] = b[k]
          BY <4>1, <1>1, <3>1 DEF QuietBehind, n
      <4>3. a[k + 1] = CountRun(a[k], u[k + 1]) /\ b[k + 1] = CountRun(b[k], v[k + 1])
          BY <1>2, <1>3, <4>1
      <4>4. a[k + 1] = b[k + 1]
          BY <4>2, <4>3, Zenon
      <4> QED
          BY <3>1, <4>4
    <3> QED
        BY <3>1, <3>2
  <2>3. Same \in SUBSET Nat
      OBVIOUS
  <2> HIDE DEF Same
  <2> QED
      BY <2>1, <2>2, <2>3, NatSets
<1>5. Quiet = Nat
  <2>1. 0 \in Quiet
      BY <1>1
  <2>2. ASSUME NEW k \in Quiet PROVE k + 1 \in Quiet
    <3>1. k \in Nat
        OBVIOUS
    <3>2. CASE n + (k + 1) <= m
      <4>1. /\ n + k + 1 \in 1..m /\ n + k \in 0..m /\ (n + k + 1) - 1 = n + k
            /\ n + (k + 1) = n + k + 1 /\ n + k <= m /\ n + k + 1 \in (n + 1)..m
          BY <1>1, <3>1, <3>2
      <4>2. ~(v[n + k + 1] > Floor)
          BY <4>1 DEF QuietBehind, n, m
      <4>3. b[n + k + 1] = CountRun(b[n + k], v[n + k + 1]) /\ b[n + k] \in [run : Nat, best : Nat]
          BY <1>3, <4>1
      <4>4. b[n + k + 1].best = b[n + k].best
          BY <4>2, <4>3 DEF CountRun
      <4> QED
          BY <3>1, <4>1, <4>4
    <3> QED
        BY <3>1, <3>2
  <2>3. Quiet \in SUBSET Nat
      OBVIOUS
  <2> HIDE DEF Quiet
  <2> QED
      BY <2>1, <2>2, <2>3, NatSets
<1>6. a[n] = b[n]
  <2>1. n \in Same
      BY <1>1, <1>4
  <2> QED
      BY <1>1, <2>1
<1>7. b[m].best = b[n].best
  <2>1. n + (m - n) = m /\ m - n \in Nat
      BY <1>1
  <2>2. m - n \in Quiet
      BY <1>5, <2>1
  <2> QED
      BY <1>1, <2>1, <2>2
<1> QED
    BY <1>2, <1>3, <1>6, <1>7

(* Nor the sum.                                                             *)
LEMMA QuietTailTotal ==
    ASSUME NEW u \in Seq(Nat), NEW v \in Seq(Nat), QuietBehind(u, v)
    PROVE  FoldLeft(AddLoud, 0, u)
              = FoldLeft(AddLoud, 0, v)
<1> DEFINE n == Len(u)
           m == Len(v)
<1>1. n \in Nat /\ m \in Nat /\ n <= m
    BY DEF QuietBehind
<1>2. PICK a \in [0..n -> Nat] :
          /\ a[0] = 0
          /\ \A k \in 1..n : a[k] = AddLoud(a[k - 1], u[k])
          /\ FoldLeft(AddLoud, 0, u) = a[n]
    BY AddLoudSteps
<1>3. PICK b \in [0..m -> Nat] :
          /\ b[0] = 0
          /\ \A k \in 1..m : b[k] = AddLoud(b[k - 1], v[k])
          /\ FoldLeft(AddLoud, 0, v) = b[m]
    BY AddLoudSteps
<1> HIDE DEF n, m
<1> DEFINE Same  == {k \in Nat : k <= n => a[k] = b[k]}
           Quiet == {k \in Nat : n + k <= m => b[n + k] = b[n]}
<1>4. Same = Nat
  <2>1. 0 \in Same
      BY <1>2, <1>3
  <2>2. ASSUME NEW k \in Same PROVE k + 1 \in Same
    <3>1. k \in Nat
        OBVIOUS
    <3>2. CASE k + 1 <= n
      <4>1. k + 1 \in 1..n /\ k + 1 \in 1..m /\ (k + 1) - 1 = k
          BY <1>1, <3>1, <3>2
      <4>2. u[k + 1] = v[k + 1] /\ a[k] = b[k]
          BY <4>1, <1>1, <3>1 DEF QuietBehind, n
      <4>3. a[k + 1] = AddLoud(a[k], u[k + 1]) /\ b[k + 1] = AddLoud(b[k], v[k + 1])
          BY <1>2, <1>3, <4>1
      <4>4. a[k + 1] = b[k + 1]
          BY <4>2, <4>3, Zenon
      <4> QED
          BY <3>1, <4>4
    <3> QED
        BY <3>1, <3>2
  <2>3. Same \in SUBSET Nat
      OBVIOUS
  <2> HIDE DEF Same
  <2> QED
      BY <2>1, <2>2, <2>3, NatSets
<1>5. Quiet = Nat
  <2>1. 0 \in Quiet
      BY <1>1
  <2>2. ASSUME NEW k \in Quiet PROVE k + 1 \in Quiet
    <3>1. k \in Nat
        OBVIOUS
    <3>2. CASE n + (k + 1) <= m
      <4>1. /\ n + k + 1 \in 1..m /\ n + k \in 0..m /\ (n + k + 1) - 1 = n + k
            /\ n + (k + 1) = n + k + 1 /\ n + k <= m /\ n + k + 1 \in (n + 1)..m
          BY <1>1, <3>1, <3>2
      <4>2. ~(v[n + k + 1] > Floor)
          BY <4>1 DEF QuietBehind, n, m
      <4>3. b[n + k + 1] = AddLoud(b[n + k], v[n + k + 1]) /\ b[n + k] \in Nat
          BY <1>3, <4>1
      <4>4. b[n + k + 1] = b[n + k]
          BY <4>2, <4>3 DEF AddLoud
      <4> QED
          BY <3>1, <4>1, <4>4
    <3> QED
        BY <3>1, <3>2
  <2>3. Quiet \in SUBSET Nat
      OBVIOUS
  <2> HIDE DEF Quiet
  <2> QED
      BY <2>1, <2>2, <2>3, NatSets
<1>6. a[n] = b[n]
  <2>1. n \in Same
      BY <1>1, <1>4
  <2> QED
      BY <1>1, <2>1
<1>7. b[m] = b[n]
  <2>1. n + (m - n) = m /\ m - n \in Nat
      BY <1>1
  <2>2. m - n \in Quiet
      BY <1>5, <2>1
  <2> QED
      BY <1>1, <2>1, <2>2
<1> QED
    BY <1>2, <1>3, <1>6, <1>7

(* A trimmed chunk has the profile of the whole.                            *)
LEMMA TrimmedProfile ==
    ASSUME NEW c \in Frames
    PROVE  SpeechProfile(Cut(c, TrimmedLength(c))) = SpeechProfile(c)
<1> DEFINE b == Cut(c, TrimmedLength(c))
<1>1. /\ b \in Frames /\ FrameCount(b) \in 0..FrameCount(c)
      /\ \A i \in 1..FrameCount(b) : b.levels[i] = c.levels[i]
      /\ \A i \in (FrameCount(b) + 1)..FrameCount(c) : ~(c.levels[i] > Floor)
    BY TrimmedIs
<1> HIDE DEF b
<1>2. /\ Voiced(c) \in Seq(Nat) /\ Len(Voiced(c)) = FrameCount(c) /\ FrameCount(c) \in Nat
      /\ \A i \in 1..FrameCount(c) : Voiced(c)[i] = c.levels[i]
      /\ Loud(c) = {i \in 1..FrameCount(c) : c.levels[i] > Floor}
    BY VoicedIs DEF Frames
<1>3. /\ Voiced(b) \in Seq(Nat) /\ Len(Voiced(b)) = FrameCount(b) /\ FrameCount(b) \in Nat
      /\ \A i \in 1..FrameCount(b) : Voiced(b)[i] = b.levels[i]
      /\ Loud(b) = {i \in 1..FrameCount(b) : b.levels[i] > Floor}
    BY <1>1, VoicedIs DEF Frames
<1>4. QuietBehind(Voiced(b), Voiced(c))
  <2>1. FrameCount(b) <= FrameCount(c)
      BY <1>1, <1>2
  <2>2. \A i \in 1..FrameCount(b) : Voiced(b)[i] = Voiced(c)[i]
    <3> SUFFICES ASSUME NEW i \in 1..FrameCount(b) PROVE Voiced(b)[i] = Voiced(c)[i]
        OBVIOUS
    <3>1. i \in 1..FrameCount(c)
        BY <1>2, <1>3, <2>1
    <3> QED
        BY <1>1, <1>2, <1>3, <3>1
  <2>3. \A i \in (FrameCount(b) + 1)..FrameCount(c) : ~(Voiced(c)[i] > Floor)
    <3> SUFFICES ASSUME NEW i \in (FrameCount(b) + 1)..FrameCount(c)
                 PROVE  ~(Voiced(c)[i] > Floor)
        OBVIOUS
    <3>1. i \in 1..FrameCount(c)
        BY <1>2, <1>3
    <3> QED
        BY <1>1, <1>2, <3>1
  <2> QED
      BY <1>2, <1>3, <2>1, <2>2, <2>3 DEF QuietBehind
<1>5. Loud(b) = Loud(c)
  <2>1. ASSUME NEW i \in 1..FrameCount(c), c.levels[i] > Floor
        PROVE  i \in 1..FrameCount(b) /\ b.levels[i] > Floor
    <3>1. i \notin (FrameCount(b) + 1)..FrameCount(c)
        BY <1>1, <2>1
    <3>2. i \in 1..FrameCount(b)
        BY <1>2, <1>3, <3>1
    <3> QED
        BY <1>1, <2>1, <3>2
  <2>2. ASSUME NEW i \in 1..FrameCount(b), b.levels[i] > Floor
        PROVE  i \in 1..FrameCount(c) /\ c.levels[i] > Floor
    <3>1. i \in 1..FrameCount(c)
        BY <1>1, <1>2, <1>3
    <3> QED
        BY <1>1, <2>2, <3>1
  <2> QED
      BY <1>2, <1>3, <2>1, <2>2
<1>6. LongestRun(b) = LongestRun(c)
    BY <1>2, <1>3, <1>4, QuietTailRun DEF LongestRun
<1>7. FoldLeft(AddLoud, 0, Voiced(b)) = FoldLeft(AddLoud, 0, Voiced(c))
    BY <1>2, <1>3, <1>4, QuietTailTotal
<1> QED
    BY <1>5, <1>6, <1>7 DEF SpeechProfile, b

-----------------------------------------------------------------------------
(* One substitution.                                                        *)

(* The i-th word is swallowed by the one before it.                          *)
Swallowed(rule, v, i) == i > 1 /\ Matches(rule, v[i - 1], v[i])

(* What became of the i-th of the first k words, if it was not swallowed.    *)
Became(rule, v, k, i) ==
    IF i < k /\ Swallowed(rule, v, i + 1) THEN Joined(rule, v[i], v[i + 1]) ELSE v[i]

(* at[n] is the word of v that the n-th of out comes from, after k words.     *)
Places(rule, v, k, out, at) ==
    /\ at \in [1..Len(out) -> 1..k]
    /\ \A n \in 1..Len(out) : ~Swallowed(rule, v, at[n]) /\ out[n] = Became(rule, v, k, at[n])
    /\ \A i \in 1..k : ~Swallowed(rule, v, i) => \E n \in 1..Len(out) : at[n] = i
    /\ \A m, n \in 1..Len(out) : m < n => at[m] < at[n]

(* No word is both ends of a match, and what a match leaves begins none.       *)
LEMMA NoChain ==
    ASSUME NEW rule \in Rules, NEW v, NEW w, NEW x
    PROVE  /\ Matches(rule, v, w) => ~Matches(rule, w, x)
           /\ ~Matches(rule, Joined(rule, v, w), x)
BY DEF Matches, Compound, Hundred, Digit, Joined, Word, Rules

(* One more word.                                                           *)
LEMMA PlacesStep ==
    ASSUME NEW rule \in Rules, NEW v \in Seq(W), NEW k \in Nat, k + 1 <= Len(v),
           NEW out \in Seq(W), NEW at, Places(rule, v, k, out, at)
    PROVE  \E new : Places(rule, v, k + 1, Pass(rule, out, v[k + 1]), new)
<1> DEFINE len == Len(out)
           M(i) == Swallowed(rule, v, i)
<1>1. len \in Nat /\ k + 1 \in 1..Len(v)
    OBVIOUS
<1>2. \A i \in 1..Len(v) : M(i + 1) => ~M(i)
  <2> SUFFICES ASSUME NEW i \in 1..Len(v), M(i + 1) PROVE ~M(i)
      OBVIOUS
  <2>1. (i + 1) - 1 = i
      OBVIOUS
  <2>2. Matches(rule, v[i], v[i + 1])
      BY <2>1 DEF Swallowed
  <2> QED
      BY <2>2, NoChain DEF Swallowed
<1>3. ASSUME len # 0, k \in 1..k
      PROVE  at[len] = k \/ (at[len] < k /\ M(at[len] + 1))
  <2>1. at[len] \in 1..k
      BY <1>1, <1>3 DEF Places
  <2>2. ASSUME at[len] < k, ~M(at[len] + 1) PROVE FALSE
    <3>1. at[len] + 1 \in 1..k
        BY <2>1, <2>2
    <3>2. PICK n \in 1..len : at[n] = at[len] + 1
        BY <2>2, <3>1 DEF Places
    <3>3. n = len \/ at[n] < at[len]
        BY <1>1, <1>3, <3>2 DEF Places
    <3> QED
        BY <2>1, <3>2, <3>3
  <2> QED
      BY <2>1, <2>2
<1>4. CASE out # <<>> /\ Matches(rule, Last(out), v[k + 1])
  <2>1. len # 0 /\ len \in 1..len /\ Last(out) = out[len]
      BY <1>1, <1>4 DEF Last
  <2>2. at[len] \in 1..k /\ k \in 1..k
      BY <2>1 DEF Places
  <2>3. out[len] = Became(rule, v, k, at[len])
      BY <2>1 DEF Places
  <2>4. ~(at[len] < k /\ M(at[len] + 1))
      BY <1>4, <2>1, <2>3, NoChain DEF Became
  <2>5. at[len] = k /\ out[len] = v[k]
      BY <1>3, <2>1, <2>2, <2>3, <2>4 DEF Became
  <2>6. M(k + 1)
      BY <1>4, <2>1, <2>2, <2>5 DEF Swallowed
  <2> DEFINE new == Pass(rule, out, v[k + 1])
  <2>7. /\ new = Append(SubSeq(out, 1, len - 1), Joined(rule, v[k], v[k + 1]))
      BY <1>4, <2>1, <2>5 DEF Pass, Front
  <2>8. /\ Len(new) = len /\ new[len] = Joined(rule, v[k], v[k + 1])
        /\ \A n \in 1..(len - 1) : new[n] = out[n]
    <3> DEFINE front == SubSeq(out, 1, len - 1)
    <3>1. /\ front \in Seq(W) /\ Len(front) = len - 1
          /\ \A n \in 1..(len - 1) : front[n] = out[n]
      <4>1. len - 1 \in Nat /\ len - 1 <= Len(out)
          BY <1>1, <2>1
      <4> QED
          BY <4>1, FrontOf
    <3>2. (len - 1) + 1 = len /\ new = Append(front, Joined(rule, v[k], v[k + 1]))
        BY <1>1, <2>7
    <3> HIDE DEF front, new
    <3>3. \A n \in 1..(len - 1) : n \in 1..Len(front)
        BY <3>1
    <3> QED
        BY <3>1, <3>2, <3>3
  <2> HIDE DEF new
  <2>9. \A n \in 1..len : at[n] \in 1..(k + 1) /\ ~M(at[n])
      BY DEF Places
  <2>10. ASSUME NEW n \in 1..len PROVE new[n] = Became(rule, v, k + 1, at[n])
    <3>1. CASE n = len
        BY <2>2, <2>5, <2>6, <2>8, <3>1 DEF Became
    <3>2. CASE n # len
      <4>1. n < len /\ n \in 1..(len - 1)
          BY <1>1, <3>2
      <4>2. at[n] < k /\ at[n] \in 1..k
          BY <2>1, <2>5, <4>1 DEF Places
      <4>3. new[n] = Became(rule, v, k, at[n])
          BY <2>8, <4>1 DEF Places
      <4> QED
          BY <4>2, <4>3 DEF Became
    <3> QED
        BY <3>1, <3>2
  <2>11. \A i \in 1..(k + 1) : ~M(i) => \E n \in 1..len : at[n] = i
    <3>1. \A i \in 1..(k + 1) : i \in 1..k \/ i = k + 1
        OBVIOUS
    <3> QED
        BY <2>6, <3>1 DEF Places
  <2>12. Places(rule, v, k + 1, new, at)
    <3>1. at \in [1..len -> 1..(k + 1)]
        BY <2>9 DEF Places
    <3>2. \A m, n \in 1..len : m < n => at[m] < at[n]
        BY DEF Places
    <3> QED
        BY <2>8, <2>9, <2>10, <2>11, <3>1, <3>2 DEF Places
  <2> QED
      BY <2>12 DEF new
<1>5. CASE ~(out # <<>> /\ Matches(rule, Last(out), v[k + 1]))
  <2>1. ~M(k + 1)
    <3> SUFFICES ASSUME M(k + 1) PROVE FALSE
        OBVIOUS
    <3>1. k \in 1..k /\ k \in 1..Len(v) /\ Matches(rule, v[k], v[k + 1])
        BY DEF Swallowed
    <3>2. ~M(k)
        BY <1>2, <3>1
    <3>3. PICK n \in 1..len : at[n] = k
        BY <3>1, <3>2 DEF Places
    <3>4. at[len] = k
      <4>1. len \in 1..len /\ at[len] \in 1..k
          BY <1>1, <3>3 DEF Places
      <4>2. n = len \/ at[n] < at[len]
          BY <1>1, <3>3, <4>1 DEF Places
      <4> QED
          BY <3>3, <4>1, <4>2
    <3>5. out[len] = v[k] /\ len \in 1..len
      <4>1. len \in 1..len
          BY <1>1, <3>3
      <4>2. out[len] = Became(rule, v, k, at[len])
          BY <4>1 DEF Places
      <4> QED
          BY <3>4, <4>1, <4>2 DEF Became
    <3>6. out # <<>> /\ Last(out) = v[k]
      <4>1. len # 0
          BY <1>1, <3>5
      <4>2. out # <<>>
          BY <4>1
      <4>3. Last(out) = out[len]
          BY DEF Last
      <4> QED
          BY <3>5, <4>2, <4>3
    <3> QED
        BY <1>5, <3>1, <3>6
  <2> DEFINE new  == Append(out, v[k + 1])
             more == [n \in 1..(len + 1) |-> IF n = len + 1 THEN k + 1 ELSE at[n]]
  <2>2. Pass(rule, out, v[k + 1]) = new
      BY <1>5 DEF Pass
  <2>3. /\ Len(new) = len + 1 /\ new[len + 1] = v[k + 1]
        /\ \A n \in 1..len : new[n] = out[n]
      BY <1>1
  <2>4. /\ more[len + 1] = k + 1 /\ \A n \in 1..len : more[n] = at[n] /\ at[n] \in 1..k
        /\ \A n \in 1..(len + 1) : n \in 1..len \/ n = len + 1
    <3>1. \A n \in 1..len : n \in 1..(len + 1) /\ n # len + 1
        BY <1>1
    <3>2. \A n \in 1..len : at[n] \in 1..k
        BY DEF Places
    <3>3. len + 1 \in 1..(len + 1) /\ \A n \in 1..(len + 1) : n \in 1..len \/ n = len + 1
        BY <1>1
    <3> HIDE DEF len
    <3> QED
        BY <3>1, <3>2, <3>3
  <2>5. more \in [1..(len + 1) -> 1..(k + 1)]
      BY <1>1 DEF Places
  <2> HIDE DEF new, more
  <2>6. ASSUME NEW n \in 1..(len + 1)
        PROVE  ~M(more[n]) /\ new[n] = Became(rule, v, k + 1, more[n])
    <3>1. CASE n = len + 1
        BY <2>1, <2>3, <2>4, <3>1 DEF Became
    <3>2. CASE n \in 1..len
      <4>1. at[n] \in 1..k /\ ~M(at[n]) /\ out[n] = Became(rule, v, k, at[n])
          BY <3>2 DEF Places
      <4>2. Became(rule, v, k, at[n]) = Became(rule, v, k + 1, at[n])
          BY <2>1, <4>1 DEF Became
      <4> QED
          BY <2>3, <2>4, <3>2, <4>1, <4>2
    <3> QED
        BY <2>4, <3>1, <3>2
  <2>7. ASSUME NEW i \in 1..(k + 1), ~M(i) PROVE \E n \in 1..(len + 1) : more[n] = i
    <3>1. CASE i = k + 1
        BY <1>1, <2>4, <3>1
    <3>2. CASE i \in 1..k
      <4>1. PICK n \in 1..len : at[n] = i
          BY <2>7, <3>2 DEF Places
      <4>2. n \in 1..(len + 1)
          BY <1>1
      <4> QED
          BY <2>4, <4>1, <4>2
    <3> QED
        BY <3>1, <3>2
  <2>8. ASSUME NEW m \in 1..(len + 1), NEW n \in 1..(len + 1), m < n
        PROVE  more[m] < more[n]
    <3>1. m \in 1..len
        BY <1>1, <2>8
    <3>2. CASE n = len + 1
        BY <2>4, <3>1, <3>2
    <3>3. CASE n \in 1..len
        BY <2>4, <2>8, <3>1, <3>3 DEF Places
    <3> QED
        BY <2>4, <3>2, <3>3
  <2>9. Places(rule, v, k + 1, new, more)
    <3> HIDE DEF len
    <3> QED
        BY <2>3, <2>5, <2>6, <2>7, <2>8 DEF Places
  <2> QED
      BY <2>2, <2>9
<1> QED
    BY <1>4, <1>5

(* A substitution keeps every word that is not swallowed, once and in order,  *)
(* and joins to it the one that is.                                          *)
LEMMA SubstituteOnce ==
    ASSUME NEW rule \in Rules, NEW v \in Seq(W)
    PROVE  /\ Substitute(rule, v) \in Seq(W)
           /\ \E at : Places(rule, v, Len(v), Substitute(rule, v), at)
<1>1. PICK acc \in [0..Len(v) -> Seq(W)] :
          /\ acc[0] = <<>>
          /\ \A k \in 1..Len(v) : acc[k] = Pass(rule, acc[k - 1], v[k])
          /\ Substitute(rule, v) = acc[Len(v)]
    BY PassSteps
<1> DEFINE Good == {k \in Nat : k <= Len(v) => \E at : Places(rule, v, k, acc[k], at)}
<1>2. 0 \in Good
  <2>1. Places(rule, v, 0, <<>>, <<>>)
      BY DEF Places
  <2> QED
      BY <1>1, <2>1
<1>3. ASSUME NEW k \in Good PROVE k + 1 \in Good
  <2>1. k \in Nat
      OBVIOUS
  <2>2. CASE k + 1 <= Len(v)
    <3>1. k <= Len(v) /\ k \in 0..Len(v) /\ k + 1 \in 1..Len(v) /\ (k + 1) - 1 = k
        BY <2>1, <2>2
    <3>2. PICK at : Places(rule, v, k, acc[k], at)
        BY <3>1
    <3>3. acc[k] \in Seq(W) /\ acc[k + 1] = Pass(rule, acc[k], v[k + 1])
        BY <1>1, <3>1
    <3> HIDE DEF Good
    <3>4. \E new : Places(rule, v, k + 1, Pass(rule, acc[k], v[k + 1]), new)
        BY <2>1, <2>2, <3>2, <3>3, PlacesStep
    <3>5. \E new : Places(rule, v, k + 1, acc[k + 1], new)
        BY <3>3, <3>4
    <3> QED
        BY <2>1, <3>5 DEF Good
  <2> QED
      BY <2>1, <2>2
<1>4. Good \in SUBSET Nat
    OBVIOUS
<1>5. Len(v) \in Nat
    OBVIOUS
<1> HIDE DEF Good
<1>6. Len(v) \in Good
    BY <1>2, <1>3, <1>4, <1>5, NatSets
<1> QED
    BY <1>1, <1>5, <1>6 DEF Good

-----------------------------------------------------------------------------
(* The two substitutions, and the bare words.                               *)

(* After the compounds: at[m] is the word of w that the m-th of u comes from. *)
Compounded(w, u, at) == Places("compound", w, Len(w), u, at)

(* What Places says of the compounds, in the words of the reading.          *)
LEMMA CompoundedIs ==
    ASSUME NEW w \in Seq(W), NEW u \in Seq(W), NEW at, Compounded(w, u, at)
    PROVE  /\ at \in [1..Len(u) -> 1..Len(w)]
           /\ \A m \in 1..Len(u) :
                 /\ ~Joins(w, at[m])
                 /\ (at[m] < Len(w) /\ Joins(w, at[m] + 1)) =>
                       u[m] = Joined("compound", w[at[m]], w[at[m] + 1])
                 /\ ~(at[m] < Len(w) /\ Joins(w, at[m] + 1)) => u[m] = w[at[m]]
           /\ \A i \in 1..Len(w) : ~Joins(w, i) => \E m \in 1..Len(u) : at[m] = i
           /\ \A m, n \in 1..Len(u) : m < n => at[m] < at[n]
<1>1. \A i : Swallowed("compound", w, i) <=> Joins(w, i)
    BY DEF Swallowed, Joins, Matches
<1>2. Places("compound", w, Len(w), u, at)
    BY DEF Compounded
<1>3. at \in [1..Len(u) -> 1..Len(w)]
    BY <1>2 DEF Places
<1>4. ASSUME NEW m \in 1..Len(u)
      PROVE  /\ ~Joins(w, at[m])
             /\ (at[m] < Len(w) /\ Joins(w, at[m] + 1)) =>
                   u[m] = Joined("compound", w[at[m]], w[at[m] + 1])
             /\ ~(at[m] < Len(w) /\ Joins(w, at[m] + 1)) => u[m] = w[at[m]]
  <2>1. ~Swallowed("compound", w, at[m]) /\ u[m] = Became("compound", w, Len(w), at[m])
      BY <1>2 DEF Places
  <2> QED
      BY <1>1, <2>1 DEF Became
<1>5. \A i \in 1..Len(w) : ~Joins(w, i) => \E m \in 1..Len(u) : at[m] = i
    BY <1>1, <1>2 DEF Places
<1>6. \A m, n \in 1..Len(u) : m < n => at[m] < at[n]
    BY <1>2 DEF Places
<1> QED
    BY <1>3, <1>4, <1>5, <1>6

(* The second substitution swallows the words the reading scales by, though   *)
(* it sees only what the first one left.                                     *)
LEMMA HundredsAre ==
    ASSUME NEW w \in Seq(W), NEW u \in Seq(W), NEW at, Compounded(w, u, at),
           NEW m \in 1..Len(u)
    PROVE  /\ Swallowed("hundred", u, m) <=> Scales(w, at[m])
           /\ Scales(w, at[m]) =>
                 m > 1 /\ at[m - 1] = at[m] - 1 /\ u[m - 1] = w[at[m] - 1]
<1> DEFINE len == Len(u)
           n   == Len(w)
           i   == at[m]
<1>1. len \in Nat /\ n \in Nat /\ m \in 1..len /\ i \in 1..n
  <2>1. at \in [1..len -> 1..n]
      BY CompoundedIs
  <2> QED
      BY <2>1
<1>2. /\ at \in [1..len -> 1..n]
      /\ \A k \in 1..n : ~Joins(w, k) => \E l \in 1..len : at[l] = k
      /\ \A k, l \in 1..len : k < l => at[k] < at[l]
    BY CompoundedIs
<1>3. \A l \in 1..len :
         /\ ~Joins(w, at[l])
         /\ (at[l] < n /\ Joins(w, at[l] + 1)) =>
               u[l] = Joined("compound", w[at[l]], w[at[l] + 1])
         /\ ~(at[l] < n /\ Joins(w, at[l] + 1)) => u[l] = w[at[l]]
    BY CompoundedIs
<1>4. m \in 1..len /\ u[m] \in W
    OBVIOUS
<1> HIDE DEF len, n
<1>5. ASSUME Swallowed("hundred", u, m) PROVE Scales(w, i)
  <2>1. m > 1 /\ m - 1 \in 1..len /\ Hundred(u[m - 1], u[m])
      BY <1>1, <1>4, <1>5 DEF Swallowed, Matches
  <2> DEFINE h == at[m - 1]
  <2>2. h \in 1..n /\ h < i /\ h < n
      BY <1>1, <1>2, <1>4, <2>1
  <2>3. u[m - 1].kind = "unit" /\ u[m].kind = "hundred"
      BY <2>1 DEF Hundred, Digit
  <2>4. ~Joins(w, h + 1) /\ u[m - 1] = w[h]
    <3>1. Joined("compound", w[h], w[h + 1]).kind = "number"
        BY DEF Joined, Word
    <3>2. ~Joins(w, h + 1)
        BY <1>3, <2>1, <2>2, <2>3, <3>1
    <3> QED
        BY <1>3, <2>1, <3>2
  <2>5. u[m] = w[i]
    <3>1. Joined("compound", w[i], w[i + 1]).kind = "number"
        BY DEF Joined, Word
    <3> QED
        BY <1>3, <1>4, <2>3, <3>1
  <2>6. PICK l \in 1..len : at[l] = h + 1
    <3>1. h + 1 \in 1..n
        BY <1>1, <2>2
    <3> HIDE DEF h
    <3> QED
        BY <1>2, <2>4, <3>1
  <2>7. i = h + 1
    <3>1. ~(l <= m - 1)
      <4> SUFFICES ASSUME l <= m - 1 PROVE FALSE
          OBVIOUS
      <4>1. l = m - 1 \/ at[l] < at[m - 1]
          BY <1>1, <1>2, <2>1
      <4> QED
          BY <2>2, <2>6, <4>1
    <3>2. l = m \/ m < l
        BY <1>1, <1>4, <2>1, <3>1
    <3>3. l = m \/ at[m] < at[l]
        BY <1>2, <1>4, <3>2
    <3> QED
        BY <1>1, <2>2, <2>6, <3>3
  <2>8. i > 1 /\ h = i - 1 /\ ~Joins(w, h)
      BY <1>1, <1>3, <2>1, <2>2, <2>7
  <2> QED
      BY <2>1, <2>4, <2>5, <2>8 DEF Scales
<1>6. ASSUME Scales(w, i)
      PROVE  /\ Swallowed("hundred", u, m) /\ m > 1
             /\ at[m - 1] = i - 1 /\ u[m - 1] = w[i - 1]
  <2>1. i > 1 /\ i - 1 \in 1..n /\ Hundred(w[i - 1], w[i]) /\ ~Joins(w, i - 1)
      BY <1>1, <1>6 DEF Scales
  <2>2. PICK l \in 1..len : at[l] = i - 1
      BY <1>2, <2>1
  <2>3. l = m - 1 /\ m > 1
    <3>1. l < m
      <4> SUFFICES ASSUME ~(l < m) PROVE FALSE
          OBVIOUS
      <4>1. l = m \/ at[m] < at[l]
          BY <1>1, <1>2, <1>4
      <4> QED
          BY <1>1, <2>2, <4>1
    <3>2. ~(l < m - 1)
      <4> SUFFICES ASSUME l < m - 1 PROVE FALSE
          OBVIOUS
      <4>1. m - 1 \in 1..len /\ m - 1 < m
          BY <1>1, <1>4
      <4>2. at[l] < at[m - 1] /\ at[m - 1] < at[m] /\ at[m - 1] \in 1..n
          BY <1>2, <1>4, <4>1
      <4> QED
          BY <1>1, <2>2, <4>2
    <3> QED
        BY <1>1, <1>4, <3>1, <3>2
  <2>4. w[i].kind = "hundred" /\ w[i - 1].kind = "unit"
      BY <2>1 DEF Hundred, Digit
  <2>5. u[m] = w[i]
    <3>1. ~Joins(w, i + 1)
      <4>1. (i + 1) - 1 = i
          BY <1>1
      <4> QED
          BY <2>4, <4>1 DEF Joins, Compound
    <3> QED
        BY <1>3, <1>4, <3>1
  <2>6. u[m - 1] = w[i - 1]
    <3>1. (i - 1) + 1 = i /\ ~Joins(w, i)
        BY <1>1, <1>3, <1>4
    <3> QED
        BY <1>3, <2>2, <2>3, <3>1
  <2>7. Swallowed("hundred", u, m)
      BY <2>1, <2>3, <2>5, <2>6 DEF Swallowed, Matches
  <2> QED
      BY <2>2, <2>3, <2>6, <2>7
<1> QED
    BY <1>5, <1>6

(* What the three substitutions make of the word the m-th of u comes from.    *)
LEMMA ReadingIs ==
    ASSUME NEW w \in Seq(W), NEW u \in Seq(W), NEW at, Compounded(w, u, at),
           NEW m \in 1..Len(u), ~Swallowed("hundred", u, m)
    PROVE  /\ at[m] \in Heads(w)
           /\ Single(Became("hundred", u, Len(u), m)) = Reading(w, at[m])
<1> DEFINE len == Len(u)
           n   == Len(w)
           i   == at[m]
<1>1. len \in Nat /\ n \in Nat /\ i \in 1..n /\ m \in 1..len
    BY CompoundedIs
<1>2. /\ at \in [1..len -> 1..n]
      /\ \A k \in 1..n : ~Joins(w, k) => \E l \in 1..len : at[l] = k
      /\ \A k, l \in 1..len : k < l => at[k] < at[l]
    BY CompoundedIs
<1>3. /\ ~Joins(w, i)
      /\ (i < n /\ Joins(w, i + 1)) => u[m] = Joined("compound", w[i], w[i + 1])
      /\ ~(i < n /\ Joins(w, i + 1)) => u[m] = w[i]
    BY CompoundedIs
<1>4. \A l \in 1..len :
         /\ Swallowed("hundred", u, l) <=> Scales(w, at[l])
         /\ Scales(w, at[l]) => l > 1 /\ at[l - 1] = at[l] - 1 /\ u[l - 1] = w[at[l] - 1]
    BY HundredsAre
<1>5. w[i] \in W
    BY <1>1
<1>6. i \in Heads(w)
  <2>1. ~Scales(w, i)
      BY <1>1, <1>4
  <2>2. i \in DOMAIN w
      BY <1>1
  <2> QED
      BY <1>3, <2>1, <2>2 DEF Heads
<1> HIDE DEF len, n
<1>7. CASE i < n /\ Scales(w, i + 1)
  <2>1. (i + 1) - 1 = i /\ i + 1 \in 1..n
      BY <1>1, <1>7
  <2>2. Hundred(w[i], w[i + 1])
      BY <1>7, <2>1 DEF Scales
  <2>3. w[i].kind = "unit" /\ w[i + 1].kind = "hundred"
      BY <2>2 DEF Hundred, Digit
  <2>4. ~Joins(w, i + 1)
      BY <2>1, <2>3 DEF Joins, Compound
  <2>5. PICK l \in 1..len : at[l] = i + 1
      BY <1>2, <2>1, <2>4
  <2>6. l = m + 1
    <3>1. l > 1 /\ at[l - 1] = i /\ l - 1 \in 1..len
        BY <1>1, <1>4, <1>7, <2>1, <2>5
    <3>2. ~(l - 1 < m) /\ ~(m < l - 1)
        BY <1>1, <1>2, <3>1
    <3> QED
        BY <1>1, <3>1, <3>2
  <2>7. m < len /\ Swallowed("hundred", u, m + 1)
      BY <1>1, <1>4, <1>7, <2>5, <2>6
  <2>8. u[m] = w[i]
      BY <1>3, <2>4
  <2>9. Became("hundred", u, len, m) = Joined("hundred", w[i], u[m + 1])
      BY <2>7, <2>8 DEF Became
  <2>10. Single(Became("hundred", u, len, m)) = Word("number", w[i].value * 100, w[i].sep)
      BY <2>9 DEF Single, Spelled, Joined, Number, Word
  <2>11. Said(w, i) = w[i].value * 100
      BY <1>7, <2>4 DEF Said, n
  <2>12. Spelled(w[i])
      BY <2>3 DEF Spelled
  <2>13. Reading(w, i) = Word("number", w[i].value * 100, w[i].sep)
      BY <2>11, <2>12 DEF Reading
  <2> QED
      BY <1>6, <2>10, <2>13 DEF len
<1>8. CASE ~(i < n /\ Scales(w, i + 1))
  <2>1. ~(m < len /\ Swallowed("hundred", u, m + 1))
    <3> SUFFICES ASSUME m < len, Swallowed("hundred", u, m + 1) PROVE FALSE
        OBVIOUS
    <3>1. m + 1 \in 1..len /\ (m + 1) - 1 = m
        BY <1>1
    <3>2. Scales(w, at[m + 1]) /\ at[m] = at[m + 1] - 1 /\ at[m + 1] \in 1..n
        BY <1>2, <1>4, <3>1
    <3>3. at[m + 1] = i + 1 /\ i < n
        BY <1>1, <3>2
    <3> QED
        BY <1>8, <3>2, <3>3
  <2>2. Became("hundred", u, len, m) = u[m]
      BY <2>1 DEF Became
  <2>3. CASE i < n /\ Joins(w, i + 1)
    <3>1. Compound(w[i], w[i + 1])
      <4>1. (i + 1) - 1 = i
          BY <1>1
      <4> QED
          BY <2>3, <4>1 DEF Joins
    <3>2. Spelled(w[i])
        BY <3>1 DEF Compound, Spelled
    <3>3. Said(w, i) = w[i].value + w[i + 1].value
        BY <1>8, <2>3 DEF Said, n
    <3>4. Reading(w, i) = Word("number", w[i].value + w[i + 1].value, w[i].sep)
        BY <3>2, <3>3 DEF Reading
    <3>5. u[m] = Word("number", w[i].value + w[i + 1].value, w[i].sep)
        BY <1>3, <2>3 DEF Joined, Number
    <3>6. Single(u[m]) = u[m]
        BY <3>5 DEF Single, Spelled, Word
    <3> QED
        BY <1>6, <2>2, <3>4, <3>5, <3>6 DEF len
  <2>4. CASE ~(i < n /\ Joins(w, i + 1))
    <3>1. u[m] = w[i]
        BY <1>3, <2>4
    <3>2. Said(w, i) = w[i].value
        BY <1>8, <2>4 DEF Said, n
    <3>3. Single(w[i]) = Reading(w, i)
        BY <3>2 DEF Single, Reading
    <3> QED
        BY <1>6, <2>2, <3>1, <3>3 DEF len
  <2> QED
      BY <2>3, <2>4
<1> QED
    BY <1>7, <1>8

(* words_to_digits reads every number of the text once.                      *)
LEMMA WordsReadOnce ==
    ASSUME NEW w \in Seq(W)
    PROVE  ReadsOnce(WordsToDigits(w), w)
<1> DEFINE u == Substitute("compound", w)
           x == Substitute("hundred", u)
           y == WordsToDigits(w)
<1>1. u \in Seq(W) /\ \E at : Places("compound", w, Len(w), u, at)
    BY SubstituteOnce DEF Rules
<1>2. x \in Seq(W) /\ \E at : Places("hundred", u, Len(u), x, at)
    BY <1>1, SubstituteOnce DEF Rules
<1>3. y = [n \in DOMAIN x |-> Single(x[n])]
    BY DEF WordsToDigits
<1> HIDE DEF u, x, y
<1>4. PICK one : Compounded(w, u, one)
    BY <1>1 DEF Compounded
<1>5. PICK two : Places("hundred", u, Len(u), x, two)
    BY <1>2
<1>6. /\ one \in [1..Len(u) -> 1..Len(w)]
      /\ \A i \in 1..Len(w) : ~Joins(w, i) => \E m \in 1..Len(u) : one[m] = i
      /\ \A m, n \in 1..Len(u) : m < n => one[m] < one[n]
    BY <1>1, <1>4, CompoundedIs
<1>7. /\ two \in [1..Len(x) -> 1..Len(u)]
      /\ \A n \in 1..Len(x) : ~Swallowed("hundred", u, two[n])
                                /\ x[n] = Became("hundred", u, Len(u), two[n])
      /\ \A m \in 1..Len(u) : ~Swallowed("hundred", u, m) => \E n \in 1..Len(x) : two[n] = m
      /\ \A m, n \in 1..Len(x) : m < n => two[m] < two[n]
    BY <1>5 DEF Places
<1>8. DOMAIN x = 1..Len(x) /\ DOMAIN y = 1..Len(x) /\ DOMAIN w = 1..Len(w)
    BY <1>2, <1>3
<1> DEFINE at == [n \in 1..Len(x) |-> one[two[n]]]
<1>9. ASSUME NEW n \in 1..Len(x)
      PROVE  at[n] \in Heads(w) /\ y[n] = Reading(w, at[n])
  <2>1. two[n] \in 1..Len(u) /\ ~Swallowed("hundred", u, two[n])
      BY <1>7
  <2>2. /\ one[two[n]] \in Heads(w)
        /\ Single(Became("hundred", u, Len(u), two[n])) = Reading(w, one[two[n]])
      BY <1>1, <1>4, <2>1, ReadingIs
  <2>3. y[n] = Single(x[n])
      BY <1>3, <1>8
  <2> QED
      BY <1>7, <2>2, <2>3
<1>10. ASSUME NEW i \in Heads(w) PROVE \E n \in 1..Len(x) : at[n] = i
  <2>1. i \in 1..Len(w) /\ ~Joins(w, i) /\ ~Scales(w, i)
      BY <1>8 DEF Heads
  <2>2. PICK m \in 1..Len(u) : one[m] = i
      BY <1>6, <2>1
  <2>3. ~Swallowed("hundred", u, m)
      BY <1>1, <1>4, <2>1, <2>2, HundredsAre
  <2>4. PICK n \in 1..Len(x) : two[n] = m
      BY <1>7, <2>3
  <2> QED
      BY <2>2, <2>4
<1>11. ASSUME NEW m \in 1..Len(x), NEW n \in 1..Len(x), m < n PROVE at[m] < at[n]
  <2>1. two[m] \in 1..Len(u) /\ two[n] \in 1..Len(u) /\ two[m] < two[n]
      BY <1>7, <1>11
  <2> QED
      BY <1>6, <2>1
<1>12. at \in [1..Len(x) -> Heads(w)]
    BY <1>9
<1> HIDE DEF at
<1>13. ReadsOnce(y, w)
    BY <1>8, <1>9, <1>10, <1>11, <1>12 DEF ReadsOnce
<1> QED
    BY <1>13 DEF y

-----------------------------------------------------------------------------
(* What holds all along.                                                    *)

Raws == [words : Seq(W), first : {"lower", "upper"}, comma : BOOLEAN]

(* The chunk is one, its target is it or what trimming leaves of it, and the  *)
(* record is made of the text and the style as they are.                    *)
WorkerInv ==
    /\ chunk \in Frames
    /\ target \in {chunk, Cut(chunk, TrimmedLength(chunk))}
    /\ raw \in Raws /\ numerals \in {"asis", "digits"}
    /\ stage = "emitted" =>
          record = (IF Empty(raw) THEN NoRecord ELSE Normalise(raw, numerals))

allvars == <<vars, raw, record, numerals>>

(* The chunks of a run are chunks.                                          *)
LEMMA ChunksAre == Chunks \subseteq Frames
<1> SUFFICES ASSUME NEW c \in Chunks PROVE c \in Frames
    OBVIOUS
<1>1. PICK n \in 0..MaxFrames : c.levels \in [1..n -> 0..MaxLevel]
    BY DEF Chunks
<1>2. n \in Nat /\ 0..MaxLevel \subseteq Nat
    BY ThresholdsAssumption
<1>3. c.levels \in Seq(Nat)
  <2> DEFINE v == c.levels
  <2>1. v \in [1..n -> Nat]
      BY <1>1, <1>2
  <2> HIDE DEF v
  <2>2. v \in Seq(Nat)
      BY <1>2, <2>1
  <2> QED
      BY <2>2 DEF v
<1>4. c \in [levels : UNION {[1..k -> 0..MaxLevel] : k \in 0..MaxFrames},
             rest : 0..(Hop - 1), final : BOOLEAN]
    BY DEF Chunks
<1>5. c = [levels |-> c.levels, rest |-> c.rest, final |-> c.final]
      /\ c.rest \in 0..(Hop - 1) /\ c.final \in BOOLEAN
    BY <1>4
<1> QED
    BY <1>3, <1>5 DEF Frames

(* Its texts are texts, of words whose values are numbers.                  *)
LEMMA TextsAre == Texts \subseteq Raws
<1> SUFFICES ASSUME NEW t \in Texts PROVE t \in Raws
    OBVIOUS
<1>1. PICK n \in 0..MaxWords : t.words \in [1..n -> Words]
    BY DEF Texts
<1>2. n \in Nat
    BY WordsAssumption
<1>3. Words \subseteq W
    BY NumbersAssumption DEF Words, W, Word
<1>4. t.words \in Seq(W)
  <2> DEFINE v == t.words
  <2>1. v \in [1..n -> W]
      BY <1>1, <1>3
  <2> HIDE DEF v
  <2>2. v \in Seq(W)
      BY <1>2, <2>1
  <2> QED
      BY <2>2 DEF v
<1>5. /\ t = [words |-> t.words, first |-> t.first, comma |-> t.comma]
      /\ t.first \in {"lower", "upper"} /\ t.comma \in BOOLEAN
    BY DEF Texts
<1> QED
    BY <1>4, <1>5 DEF Raws

(* A chunk without samples is one.                                          *)
LEMMA SilenceIs == [levels |-> <<>>, rest |-> 0, final |-> FALSE] \in Frames
<1>1. 0 \in 0..(Hop - 1)
    BY SizesAssumption
<1> QED
    BY <1>1 DEF Frames

(* Everything the worker does to an utterance keeps what holds all along.      *)
THEOREM Invariance == WorkerSpec => []WorkerInv
<1>1. WorkerInit => WorkerInv
  <2> SUFFICES ASSUME WorkerInit PROVE WorkerInv
      OBVIOUS
  <2>1. chunk \in Frames /\ target = chunk /\ stage = "taken"
      BY ChunksAre DEF WorkerInit, Init
  <2>2. raw \in Raws /\ numerals \in {"asis", "digits"}
      BY DEF WorkerInit, NoText, Raws
  <2> QED
      BY <2>1, <2>2 DEF WorkerInv
<1>2. WorkerInv /\ [WorkerNext]_allvars => WorkerInv'
  <2> SUFFICES ASSUME WorkerInv, [WorkerNext]_allvars PROVE WorkerInv'
      OBVIOUS
  <2>1. CASE Gate
    <3>1. CASE Drop
        BY <2>1, <3>1 DEF WorkerInv, Gate, Drop
    <3>2. CASE Trim
        BY <2>1, <3>2 DEF WorkerInv, Gate, Trim
    <3> QED
        BY <2>1, <3>1, <3>2 DEF Gate
  <2>2. CASE HandOver
    <3>1. chunk' \in Frames /\ target' = chunk'
        BY <2>2, SilenceIs DEF HandOver
    <3> QED
        BY <2>2, <3>1 DEF WorkerInv, HandOver
  <2>3. CASE Transcribe
    <3>1. PICK t \in Texts :
              /\ raw' = t
              /\ record' = IF Empty(t) THEN NoRecord ELSE Normalise(t, numerals)
        BY <2>3 DEF Transcribe
    <3>2. t \in Raws
        BY TextsAre
    <3>3. chunk' = chunk /\ target' = target /\ numerals' = numerals
        BY <2>3 DEF Transcribe
    <3> QED
        BY <3>1, <3>2, <3>3 DEF WorkerInv
  <2>4. CASE UNCHANGED allvars
      BY <2>4 DEF WorkerInv, allvars, vars
  <2> QED
      BY <2>1, <2>2, <2>3, <2>4 DEF WorkerNext
<1> QED
    BY <1>1, <1>2, PTL DEF WorkerSpec, allvars

-----------------------------------------------------------------------------
(* The properties.                                                          *)

(* The loop of speech_profile finds the longest stretch of loud frames.        *)
THEOREM RunIsLongestHolds == WorkerSpec => []RunIsLongest
<1>1. WorkerInv => RunIsLongest
  <2> SUFFICES ASSUME WorkerInv PROVE RunIsLongest
      OBVIOUS
  <2> DEFINE k == LongestRun(chunk)
             n == FrameCount(chunk)
             L == Loud(chunk)
             acc == FoldLeft(CountRun, [run |-> 0, best |-> 0], Voiced(chunk))
  <2>1. /\ Voiced(chunk) \in Seq(Nat) /\ Len(Voiced(chunk)) = n
        /\ \A i \in 1..n : Voiced(chunk)[i] = chunk.levels[i]
        /\ L = {i \in 1..n : chunk.levels[i] > Floor}
      BY VoicedIs DEF WorkerInv
  <2>2. L = {i \in 1..n : Voiced(chunk)[i] > Floor}
      BY <2>1
  <2>3. acc \in Accs /\ Counted(n, acc, L)
      BY <2>1, <2>2, LongestIs
  <2>4. k = acc.best
      BY DEF LongestRun
  <2> HIDE DEF k, n, L, acc
  <2>5. n \in Nat /\ k \in Nat
      BY <2>1, <2>3, <2>4 DEF Accs
  <2>6. \E i \in 0..n : (i + 1)..(i + k) \subseteq L
    <3>1. PICK i \in Nat : i + k <= n /\ (i + 1)..(i + k) \subseteq L
        BY <2>3, <2>4 DEF Counted
    <3> QED
        BY <2>5, <3>1
  <2>7. ASSUME NEW i \in 0..n, (i + 1)..(i + (k + 1)) \subseteq L PROVE FALSE
    <3>1. i + (k + 1) \in (i + 1)..(i + (k + 1)) /\ i \in Nat
        BY <2>5
    <3>2. i + (k + 1) <= n
        BY <2>1, <2>5, <2>7, <3>1
    <3>3. \A m \in Nat : i + m <= n /\ (i + 1)..(i + m) \subseteq L => m <= acc.best
        BY <2>3, <3>1 DEF Counted
    <3>4. k + 1 \in Nat
        BY <2>5
    <3>5. k + 1 <= acc.best
        BY <2>7, <3>2, <3>3, <3>4
    <3> QED
        BY <2>4, <2>5, <3>5
  <2> QED
      BY <2>6, <2>7 DEF RunIsLongest, k, n, L
<1> QED
    BY <1>1, Invariance, PTL

(* What trimming leaves measures as the whole did.                          *)
THEOREM TrimKeepsProfileHolds == WorkerSpec => []TrimKeepsProfile
<1>1. WorkerInv => TrimKeepsProfile
    BY TrimmedProfile DEF WorkerInv, TrimKeepsProfile
<1> QED
    BY <1>1, Invariance, PTL

(* A text without words reads as none.                                      *)
LEMMA NoWords == ASSUME NEW w, w = <<>> PROVE ReadsOnce(w, w)
<1>1. DOMAIN w = {} /\ Heads(w) = {}
    BY DEF Heads
<1>2. [n \in DOMAIN w |-> 0] \in [DOMAIN w -> Heads(w)]
    BY <1>1
<1> QED
    BY <1>1, <1>2 DEF ReadsOnce

(* The numbers of the text that goes out are those of what the model wrote,    *)
(* each read once.                                                          *)
THEOREM NumbersReadOnceHolds == WorkerSpec => []NumbersReadOnce
<1>1. WorkerInv => NumbersReadOnce
  <2> SUFFICES ASSUME WorkerInv, stage = "emitted"
               PROVE  IF numerals = "digits" THEN ReadsOnce(record.text.words, raw.words)
                                             ELSE record.text.words = raw.words
      BY DEF NumbersReadOnce
  <2>1. raw \in Raws /\ raw.words \in Seq(W)
      BY DEF WorkerInv, Raws
  <2>2. CASE Empty(raw)
    <3>1. raw.words = <<>> /\ record.text.words = <<>>
        BY <2>2 DEF WorkerInv, Empty, NoRecord, NoText
    <3> QED
        BY <3>1, NoWords
  <2>3. CASE ~Empty(raw)
    <3>1. record = Normalise(raw, numerals)
        BY <2>3 DEF WorkerInv
    <3>2. CASE numerals = "digits"
      <4>1. record.text.words = WordsToDigits(raw.words)
          BY <2>1, <3>1, <3>2 DEF Normalise, Capital, Raws
      <4> QED
          BY <2>1, <3>2, <4>1, WordsReadOnce
    <3>3. CASE numerals # "digits"
        BY <2>1, <3>1, <3>3 DEF Normalise, Capital, Raws
    <3> QED
        BY <3>2, <3>3
  <2> QED
      BY <2>2, <2>3
<1> QED
    BY <1>1, Invariance, PTL

(* The hint tells how the model began the text, though the text that goes out  *)
(* is capitalised.                                                          *)
THEOREM HintKeptHolds == WorkerSpec => []HintKept
<1>1. WorkerInv => HintKept
  <2> SUFFICES ASSUME WorkerInv, stage = "emitted", ~Empty(raw)
               PROVE  /\ Letters(record.text) => record.text.first = "upper"
                      /\ numerals = "asis" /\ Letters(raw) =>
                            raw.first = (IF record.continues THEN "lower"
                                                             ELSE record.text.first)
      BY DEF HintKept
  <2>1. raw \in Raws /\ record = Normalise(raw, numerals)
      BY DEF WorkerInv
  <2> DEFINE stripped == [raw EXCEPT !.comma = FALSE]
             text == IF numerals = "digits"
                     THEN [stripped EXCEPT !.words = WordsToDigits(@)] ELSE stripped
  <2>2. /\ record.text = Capital(text)
        /\ record.continues = (Letters(raw) /\ raw.first = "lower")
      BY <2>1 DEF Normalise
  <2>3. /\ text.first = raw.first
        /\ numerals = "asis" => text.words = raw.words
      BY <2>1 DEF Raws
  <2> HIDE DEF text
  <2>4. Letters(record.text) => record.text.first = "upper"
      BY <2>2 DEF Capital, Letters
  <2>5. ASSUME numerals = "asis", Letters(raw)
        PROVE  raw.first = (IF record.continues THEN "lower" ELSE record.text.first)
    <3>1. text.first = raw.first /\ Letters(text)
        BY <2>3, <2>5 DEF Letters
    <3>2. record.text.first = "upper"
        BY <2>1, <2>2, <3>1 DEF Capital, Raws
    <3>3. raw.first \in {"lower", "upper"}
        BY <2>1 DEF Raws
    <3> QED
        BY <2>2, <2>5, <3>2, <3>3
  <2> QED
      BY <2>4, <2>5
<1> QED
    BY <1>1, Invariance, PTL
=============================================================================
