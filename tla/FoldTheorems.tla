---------------------------- MODULE FoldTheorems ----------------------------
(***************************************************************************)
(* What FoldLeft computes, step by step, for an operator Op on values of   *)
(* any kind.  Op has two more arguments for what a loop reads and leaves   *)
(* alone.                                                                  *)
(***************************************************************************)
EXTENDS Integers, SequencesExt, WellFoundedInduction, TLAPS

CONSTANT Op(_, _, _, _)

FoldOf(c, d, base, seq) == FoldLeft(LAMBDA v, x : Op(c, d, v, x), base, seq)

\* A set of naturals that is not empty has a least element.
LEMMA LeastNatural ==
    ASSUME NEW T \in SUBSET Nat, T # {}
    PROVE  \E x \in T : \A y \in T : x <= y
<1>. DEFINE R == {pair \in Nat \X Nat : pair[1] < pair[2]}
<1>1. IsWellFoundedOn(R, Nat)
  BY NatLessThanWellFounded DEF OpToRel
<1>2. PICK x \in T : \A y \in T : ~ (<<y, x>> \in R)
  <2>. HIDE DEF R
  <2>. QED
    BY <1>1, WFMin
<1>3. \A y \in T : ~ (y < x)
  BY <1>2
<1>. QED
  BY <1>3

\* Induction up to n, over the set of the numbers a statement holds for.
LEMMA UpTo ==
    ASSUME NEW n \in Nat, NEW S, 0 \in S, \A k \in 1 .. n : k - 1 \in S => k \in S
    PROVE  0 .. n \subseteq S
<1>. SUFFICES ASSUME (0 .. n) \ S # {}
              PROVE  FALSE
  OBVIOUS
<1>1. PICK x \in (0 .. n) \ S : \A y \in (0 .. n) \ S : x <= y
  <2>1. (0 .. n) \ S \in SUBSET Nat
    OBVIOUS
  <2>. QED
    BY <2>1, LeastNatural
<1>2. x \in 1 .. n /\ x - 1 \in 0 .. n
  BY <1>1
<1>3. x - 1 \in S
  BY <1>1, <1>2
<1>. QED
  BY <1>1, <1>2, <1>3

LEMMA Maximum ==
    ASSUME NEW n \in Nat, NEW s \in SUBSET (0 .. n), s # {}
    PROVE  Max(s) \in s /\ \A x \in s : x <= Max(s)
<1>. DEFINE Bounds == {m \in Nat : \A x \in s : x <= m}
<1>1. PICK m \in Bounds : \A y \in Bounds : m <= y
  <2>1. n \in Bounds
    OBVIOUS
  <2>. HIDE DEF Bounds
  <2>2. Bounds \in SUBSET Nat
    BY DEF Bounds
  <2>. QED
    BY <2>1, <2>2, LeastNatural
<1>2. m \in s
  <2>. SUFFICES ASSUME m \notin s
                PROVE  FALSE
    OBVIOUS
  <2>1. m - 1 \in Bounds
    <3>1. \A x \in s : x <= m - 1
      BY <1>1
    <3>2. m >= 1
      <4>1. PICK x \in s : TRUE
        OBVIOUS
      <4>2. m \in Nat /\ x \in 1 .. n /\ x <= m
        BY <1>1, <4>1
      <4>. QED
        BY <4>2
    <3>. QED
      BY <1>1, <3>1, <3>2
  <2>. QED
    BY <1>1, <2>1
<1>3. \E x \in s : \A y \in s : x >= y
  BY <1>1, <1>2
<1>. QED
  BY <1>3 DEF Max

LEMMA MaximumOfPrefix ==
    ASSUME NEW k \in Nat \ {0}
    PROVE  Max(1 .. k) = k /\ (1 .. k) \ {Max(1 .. k)} = 1 .. k - 1
<1>1. Max(1 .. k) \in 1 .. k /\ \A x \in 1 .. k : x <= Max(1 .. k)
  <2>1. 1 .. k \in SUBSET (0 .. k) /\ k \in 1 .. k
    OBVIOUS
  <2>. QED
    BY <2>1, Maximum
<1>2. Max(1 .. k) = k
  BY <1>1
<1>. QED
  BY <1>2

LEMMA BelowMaximum ==
    ASSUME NEW k \in Nat \ {0}, NEW s \in SUBSET (1 .. k), s # {}
    PROVE  Max(s) \in 1 .. k /\ s \ {Max(s)} \in SUBSET (1 .. k - 1)
<1>. DEFINE m == Max(s)
<1>1. m \in s /\ \A x \in s : x <= m
  <2>1. s \in SUBSET (0 .. k)
    OBVIOUS
  <2>. QED
    BY <2>1, Maximum
<1>. HIDE DEF m
<1>2. \A x \in s \ {m} : x \in 1 .. k - 1
  BY <1>1
<1>3. m \in 1 .. k /\ s \ {m} \in SUBSET (1 .. k - 1)
  BY <1>1, <1>2
<1>. QED
  BY <1>3 DEF m

\* A function on the sets of places with the value of a fold over each.
Folds(g, c, d, base, seq, S) ==
    \A s \in SUBSET S :
        g[s] = IF s = {} THEN base ELSE Op(c, d, g[s \ {Max(s)}], seq[Max(s)])

LEMMA FoldsExist ==
    ASSUME NEW c, NEW d, NEW V, NEW base \in V, NEW X, NEW seq \in Seq(X),
           \A v \in V, k \in 1 .. Len(seq) : Op(c, d, v, seq[k]) \in V
    PROVE  \E g \in [SUBSET (1 .. Len(seq)) -> V] :
              Folds(g, c, d, base, seq, 1 .. Len(seq))
<1>. DEFINE Exists(k) == \E g \in [SUBSET (1 .. k) -> V] : Folds(g, c, d, base, seq, 1 .. k)
<1>. DEFINE S == {k \in 0 .. Len(seq) : Exists(k)}
<1>1. Exists(0)
  <2>. DEFINE g == [s \in SUBSET (1 .. 0) |-> base]
  <2>1. g \in [SUBSET (1 .. 0) -> V]
    OBVIOUS
  <2>2. ASSUME NEW s \in SUBSET (1 .. 0)
        PROVE  s = {}
    OBVIOUS
  <2>3. Folds(g, c, d, base, seq, 1 .. 0)
    BY <2>2 DEF Folds
  <2>. QED
    BY <2>1, <2>3
<1>2. ASSUME NEW k \in 1 .. Len(seq), Exists(k - 1)
      PROVE  Exists(k)
  <2>1. PICK g \in [SUBSET (1 .. k - 1) -> V] : Folds(g, c, d, base, seq, 1 .. k - 1)
    BY <1>2
  <2>. DEFINE value(s) == IF s = {} THEN base
                          ELSE Op(c, d, g[s \ {Max(s)}], seq[Max(s)])
  <2>. DEFINE h == [s \in SUBSET (1 .. k) |-> value(s)]
  <2>2. ASSUME NEW s \in SUBSET (1 .. k), s # {}
        PROVE  /\ Max(s) \in 1 .. Len(seq)
               /\ s \ {Max(s)} \in SUBSET (1 .. k - 1)
               /\ s \ {Max(s)} \in SUBSET (1 .. k)
    <3>1. Max(s) \in 1 .. k /\ s \ {Max(s)} \in SUBSET (1 .. k - 1)
      BY <2>2, BelowMaximum
    <3>2. 1 .. k \subseteq 1 .. Len(seq) /\ 1 .. k - 1 \subseteq 1 .. k
      OBVIOUS
    <3>. QED
      BY <3>1, <3>2
  <2>3. ASSUME NEW s \in SUBSET (1 .. k)
        PROVE  value(s) \in V
    <3>1. CASE s = {}
      BY <3>1
    <3>2. CASE s # {}
      <4>1. g[s \ {Max(s)}] \in V
        BY <2>2, <3>2
      <4>. QED
        BY <2>2, <3>2, <4>1
    <3>. QED
      BY <3>1, <3>2
  <2>4. ASSUME NEW s \in SUBSET (1 .. k - 1)
        PROVE  h[s] = g[s]
    <3>1. s \in SUBSET (1 .. k)
      OBVIOUS
    <3>. QED
      BY <2>1, <3>1 DEF Folds
  <2>. HIDE DEF value
  <2>5. h \in [SUBSET (1 .. k) -> V]
    BY <2>3
  <2>6. ASSUME NEW s \in SUBSET (1 .. k)
        PROVE  h[s] = IF s = {} THEN base ELSE Op(c, d, h[s \ {Max(s)}], seq[Max(s)])
    <3>1. h[s] = value(s)
      OBVIOUS
    <3>. HIDE DEF h
    <3>2. CASE s = {}
      BY <3>1, <3>2 DEF value
    <3>3. CASE s # {}
      <4>1. h[s \ {Max(s)}] = g[s \ {Max(s)}]
        BY <2>2, <2>4, <3>3
      <4>. QED
        BY <3>1, <3>3, <4>1 DEF value
    <3>. QED
      BY <3>2, <3>3
  <2>. QED
    BY <2>5, <2>6 DEF Folds
<1>. HIDE DEF Exists
<1>3. 0 \in S /\ \A k \in 1 .. Len(seq) : k - 1 \in S => k \in S
  BY <1>1, <1>2
<1>4. Len(seq) \in Nat
  OBVIOUS
<1>. HIDE DEF S
<1>5. Len(seq) \in S
  <2>1. 0 .. Len(seq) \subseteq S
    BY <1>3, <1>4, UpTo
  <2>. QED
    BY <1>4, <2>1
<1>. QED
  BY <1>5 DEF S, Exists

\* FoldLeft is such a function at the set of all places.
LEMMA FoldLeftFolds ==
    ASSUME NEW c, NEW d, NEW V, NEW base \in V, NEW X, NEW seq \in Seq(X),
           \A v \in V, k \in 1 .. Len(seq) : Op(c, d, v, seq[k]) \in V
    PROVE  \E g : /\ Folds(g, c, d, base, seq, 1 .. Len(seq))
                  /\ FoldOf(c, d, base, seq) = g[1 .. Len(seq)]
<1>. DEFINE Is(g) == g = [s \in SUBSET DOMAIN seq |->
                             IF s = {} THEN base
                             ELSE LET x == Max(s)
                                  IN  Op(c, d, g[s \ {x}], seq[x])]
<1>1. DOMAIN seq = 1 .. Len(seq)
  OBVIOUS
<1>2. \E g : Is(g)
  <2>1. PICK g \in [SUBSET (1 .. Len(seq)) -> V] :
             Folds(g, c, d, base, seq, 1 .. Len(seq))
    BY FoldsExist
  <2>2. Is(g)
    BY <1>1, <2>1 DEF Folds
  <2>. QED
    BY <2>2
<1>. DEFINE it == CHOOSE g : Is(g)
<1>3. FoldOf(c, d, base, seq) = it[DOMAIN seq]
  BY Zenon DEF FoldOf, FoldLeft, MapThenFoldSet
<1>4. Is(it)
  BY <1>2, Zenon
<1>. HIDE DEF it
<1>5. Folds(it, c, d, base, seq, 1 .. Len(seq))
  BY <1>1, <1>4 DEF Folds
<1>. QED
  BY <1>1, <1>3, <1>5

\* No step of the fold leaves V.
Closed(c, d, V, seq) == \A v \in V, k \in 1 .. Len(seq) : Op(c, d, v, seq[k]) \in V

\* The values a fold goes through.
IsTrace(trace, c, d, base, seq) ==
    /\ trace[0] = base
    /\ \A k \in 1 .. Len(seq) : trace[k] = Op(c, d, trace[k - 1], seq[k])
    /\ FoldOf(c, d, base, seq) = trace[Len(seq)]

\* A fold is the last of the values it goes through.
THEOREM FoldTrace ==
    ASSUME NEW c, NEW d, NEW V, NEW base \in V, NEW X, NEW seq \in Seq(X),
           Closed(c, d, V, seq)
    PROVE  \E trace \in [0 .. Len(seq) -> V] : IsTrace(trace, c, d, base, seq)
<1>1. PICK g : /\ Folds(g, c, d, base, seq, 1 .. Len(seq))
               /\ FoldOf(c, d, base, seq) = g[1 .. Len(seq)]
  BY FoldLeftFolds DEF Closed
<1>. DEFINE trace == [k \in 0 .. Len(seq) |-> g[1 .. k]]
<1>2. trace[0] = base
  <2>1. 1 .. 0 = {} /\ {} \in SUBSET (1 .. Len(seq)) /\ 0 \in 0 .. Len(seq)
    OBVIOUS
  <2>. QED
    BY <1>1, <2>1 DEF Folds
<1>3. ASSUME NEW k \in 1 .. Len(seq)
      PROVE  trace[k] = Op(c, d, trace[k - 1], seq[k])
  <2>1. 1 .. k \in SUBSET (1 .. Len(seq)) /\ k \in 1 .. k /\ k \in Nat \ {0}
    <3>1. Len(seq) \in Nat
      OBVIOUS
    <3>2. \A x \in 1 .. k : x \in 1 .. Len(seq)
      BY <3>1
    <3>. QED
      BY <3>2
  <2>2. g[1 .. k] = Op(c, d, g[1 .. k - 1], seq[k])
    BY <1>1, <2>1, MaximumOfPrefix DEF Folds
  <2>. QED
    BY <2>2
<1>4. FoldOf(c, d, base, seq) = trace[Len(seq)]
  BY <1>1
<1>5. trace \in [0 .. Len(seq) -> V]
  <2>. DEFINE S == {k \in 0 .. Len(seq) : trace[k] \in V}
  <2>. HIDE DEF trace
  <2>1. 0 \in S /\ \A k \in 1 .. Len(seq) : k - 1 \in S => k \in S
    BY <1>2, <1>3 DEF Closed
  <2>2. Len(seq) \in Nat
    OBVIOUS
  <2>. HIDE DEF S
  <2>3. 0 .. Len(seq) \subseteq S
    BY <2>1, <2>2, UpTo
  <2>4. \A k \in 0 .. Len(seq) : trace[k] \in V
    BY <2>3 DEF S
  <2>. QED
    BY <2>4 DEF trace
<1>. HIDE DEF trace
<1>. QED
  BY <1>2, <1>3, <1>4, <1>5 DEF IsTrace

\* What holds of the base, and of each value after the one before it, holds of
\* the fold: I is what may be said after each place.
THEOREM FoldInduction ==
    ASSUME NEW c, NEW d, NEW V, NEW base, NEW X, NEW seq \in Seq(X),
           Closed(c, d, V, seq),
           NEW I \in [0 .. Len(seq) -> SUBSET V], base \in I[0],
           \A k \in 1 .. Len(seq) : \A v \in I[k - 1] : Op(c, d, v, seq[k]) \in I[k]
    PROVE  FoldOf(c, d, base, seq) \in I[Len(seq)]
<1>0. base \in V /\ Len(seq) \in Nat
  OBVIOUS
<1>1. PICK trace \in [0 .. Len(seq) -> V] : IsTrace(trace, c, d, base, seq)
  BY <1>0, FoldTrace
<1>. DEFINE S == {k \in 0 .. Len(seq) : trace[k] \in I[k]}
<1>2. 0 \in S /\ \A k \in 1 .. Len(seq) : k - 1 \in S => k \in S
  BY <1>1 DEF IsTrace
<1>. HIDE DEF S
<1>3. Len(seq) \in S
  <2>1. 0 .. Len(seq) \subseteq S
    BY <1>0, <1>2, UpTo
  <2>. QED
    BY <1>0, <2>1
<1>. QED
  BY <1>1, <1>3 DEF S, IsTrace

\* A fold over one element more is one step more.
LEMMA FoldAppend ==
    ASSUME NEW c, NEW d, NEW V, NEW base \in V, NEW X, NEW seq \in Seq(X), NEW x \in X,
           Closed(c, d, V, Append(seq, x))
    PROVE  FoldOf(c, d, base, Append(seq, x)) = Op(c, d, FoldOf(c, d, base, seq), x)
<1>. DEFINE n == Len(seq)
            longer == Append(seq, x)
<1>0. /\ n \in Nat /\ longer \in Seq(X) /\ Len(longer) = n + 1 /\ longer[n + 1] = x
      /\ \A k \in 1 .. n : longer[k] = seq[k]
  OBVIOUS
<1>. HIDE DEF longer
<1>1. Closed(c, d, V, seq)
  <2>1. \A k \in 1 .. n : k \in 1 .. n + 1
    BY <1>0
  <2>. QED
    BY <1>0, <2>1 DEF Closed, longer
<1>2. PICK a \in [0 .. n -> V] : IsTrace(a, c, d, base, seq)
  BY <1>1, FoldTrace
<1>3. PICK b \in [0 .. n + 1 -> V] : IsTrace(b, c, d, base, longer)
  <2>1. Closed(c, d, V, longer)
    BY DEF longer
  <2>. QED
    BY <1>0, <2>1, FoldTrace
<1>. DEFINE S == {k \in 0 .. n : a[k] = b[k]}
<1>. HIDE DEF n
<1>4. 0 \in S
  BY <1>0, <1>2, <1>3 DEF IsTrace
<1>5. ASSUME NEW k \in 1 .. n, k - 1 \in S
      PROVE  k \in S
  <2>1. k \in 1 .. n + 1 /\ k \in 0 .. n
    BY <1>0
  <2>2. a[k] = Op(c, d, a[k - 1], seq[k])
    BY <1>2 DEF IsTrace, n
  <2>3. b[k] = Op(c, d, b[k - 1], longer[k])
    BY <1>0, <1>3, <2>1 DEF IsTrace
  <2>. QED
    BY <1>0, <1>5, <2>1, <2>2, <2>3
<1>. HIDE DEF S
<1>6. 0 .. n \subseteq S
  BY <1>0, <1>4, <1>5, UpTo
<1>7. a[n] = b[n]
  <2>1. n \in 0 .. n
    BY <1>0
  <2>. QED
    BY <1>6, <2>1 DEF S
<1>8. FoldOf(c, d, base, seq) = a[n]
  BY <1>2 DEF IsTrace, n
<1>9. FoldOf(c, d, base, longer) = b[n + 1]
  BY <1>0, <1>3 DEF IsTrace
<1>10. b[n + 1] = Op(c, d, b[n], x)
  <2>1. n + 1 \in 1 .. n + 1 /\ (n + 1) - 1 = n
    BY <1>0
  <2>2. b[n + 1] = Op(c, d, b[(n + 1) - 1], longer[n + 1])
    BY <1>0, <1>3, <2>1 DEF IsTrace
  <2>. QED
    BY <1>0, <2>1, <2>2
<1>. QED
  BY <1>7, <1>8, <1>9, <1>10 DEF longer
=============================================================================
