--------------------------- MODULE SequenceFacts ---------------------------
(***************************************************************************)
(* Facts about numbers and sequences that the proofs of several components *)
(* use.  The definitions of the models that go through a sequence element  *)
(* by element (FlattenSeq, FoldLeft) are recursive functions; what they    *)
(* compute is proved by induction.                                         *)
(*                                                                         *)
(* The induction theorems of the library take a predicate as a parameter.  *)
(* The ones here take a set instead, the set of the numbers that have the  *)
(* property, and follow from the fact that < is well-founded.              *)
(***************************************************************************)
EXTENDS Integers, SequencesExt, WellFoundedInduction, TLAPS

-----------------------------------------------------------------------------
(* Induction.                                                               *)

\* A set of naturals that is not empty has a least element.
LEMMA LeastNumber ==
  ASSUME NEW T, T \subseteq Nat, T # {}
  PROVE  \E m \in T : \A k \in T : m <= k
<1>1. PICK x \in T : \A y \in T : ~ (<<y, x>> \in OpToRel(<, Nat))
    BY NatLessThanWellFounded, WFMin
<1>2. \A y \in T : y \in Nat /\ x \in Nat /\ ~(y < x)
    BY <1>1 DEF OpToRel
<1> QED BY <1>2

\* A set with 0 that is closed under the successor holds every natural.
LEMMA NatSetInduction ==
  ASSUME NEW S, 0 \in S, \A n \in Nat : n \in S => n + 1 \in S
  PROVE  \A n \in Nat : n \in S
<1> SUFFICES ASSUME NEW m \in Nat, m \notin S PROVE FALSE
    OBVIOUS
<1> DEFINE T == {n \in Nat : n \notin S}
<1>1. T \subseteq Nat /\ T # {}
    OBVIOUS
<1>2. PICK x \in T : \A y \in T : x <= y
    BY <1>1, LeastNumber
<1>3. x # 0
    OBVIOUS
<1>4. x - 1 \in Nat /\ x = (x - 1) + 1 /\ ~(x <= x - 1)
    BY <1>3
<1>5. x - 1 \notin T
    BY <1>2, <1>4
<1> QED BY <1>4, <1>5

\* The same up to a bound.
LEMMA BoundedInduction ==
  ASSUME NEW n \in Nat, NEW S, 0 \in S,
         \A k \in 0 .. n - 1 : k \in S => k + 1 \in S
  PROVE  \A k \in 0 .. n : k \in S
<1> DEFINE T == {k \in Nat : k <= n => k \in S}
<1>1. 0 \in T
    OBVIOUS
<1>2. ASSUME NEW k \in Nat, k \in T PROVE k + 1 \in T
    BY <1>2
<1> HIDE DEF T
<1>3. \A k \in Nat : k \in T
    BY <1>1, <1>2, NatSetInduction
<1> QED BY <1>3 DEF T

-----------------------------------------------------------------------------
(* Recursion.                                                               *)

\* F[k] makes the k-th value from the one before it, and b is the first.
HasRun(X, b, n, F) ==
  \E g \in [0 .. n -> X] :
     g[0] = b /\ \A k \in 1 .. n : g[k] = F[k][g[k - 1]]

\* Such a run exists, with its values in X, if b is and each F[k] stays there.
LEMMA Iteration ==
  ASSUME NEW X, NEW b \in X, NEW n \in Nat, NEW F \in [1 .. n -> [X -> X]]
  PROVE  HasRun(X, b, n, F)
<1> DEFINE Run(m, g) == g[0] = b /\ \A k \in 1 .. m : g[k] = F[k][g[k - 1]]
           S == {m \in 0 .. n : \E g \in [0 .. m -> X] : Run(m, g)}
<1>1. 0 \in S
  <2>1. [k \in 0 .. 0 |-> b] \in [0 .. 0 -> X] /\ Run(0, [k \in 0 .. 0 |-> b])
      OBVIOUS
  <2>2. \E g \in [0 .. 0 -> X] : Run(0, g)
      BY <2>1
  <2> QED BY <2>2
<1>2. ASSUME NEW m \in 0 .. n - 1, m \in S PROVE m + 1 \in S
  <2>1. PICK g \in [0 .. m -> X] : Run(m, g)
      BY <1>2
  <2> DEFINE h == [k \in 0 .. m + 1 |-> IF k = m + 1 THEN F[m + 1][g[m]] ELSE g[k]]
  <2>2. h \in [0 .. m + 1 -> X]
      OBVIOUS
  <2>3. h[0] = b
      BY <2>1
  <2>4. ASSUME NEW k \in 1 .. m + 1 PROVE h[k] = F[k][h[k - 1]]
    <3>1. k - 1 \in 0 .. m /\ h[k - 1] = g[k - 1]
        OBVIOUS
    <3>2. CASE k = m + 1
      <4>1. h[m + 1] = F[m + 1][g[m]] /\ k - 1 = m
          BY <3>2
      <4> HIDE DEF h
      <4> QED BY <3>1, <3>2, <4>1
    <3>3. CASE k \in 1 .. m
        BY <3>1, <3>3, <2>1
    <3> QED BY <3>2, <3>3
  <2>5. Run(m + 1, h)
      BY <2>3, <2>4
  <2> HIDE DEF h, Run
  <2>6. \E f \in [0 .. m + 1 -> X] : Run(m + 1, f)
      BY <2>2, <2>5
  <2> QED BY <2>6
<1> HIDE DEF S
<1>3. \A m \in 0 .. n - 1 : m \in S => m + 1 \in S
    BY <1>2
<1>4. \A m \in 0 .. n : m \in S
    BY <1>1, <1>3, BoundedInduction, Zenon
<1> QED BY <1>4 DEF S, HasRun

\* FlattenSeq appends one sequence after the other.
LEMMA FlattenUnrolled ==
  ASSUME NEW A, NEW seqs \in Seq(Seq(A))
  PROVE  \E g \in [0 .. Len(seqs) -> Seq(A)] :
            /\ g[0] = <<>>
            /\ \A k \in 1 .. Len(seqs) : g[k] = g[k - 1] \o seqs[k]
            /\ FlattenSeq(seqs) = g[Len(seqs)]
<1>1. PICK n \in Nat : n = Len(seqs)
    OBVIOUS
<1> DEFINE F == [k \in 1 .. n |-> [x \in Seq(A) |-> x \o seqs[k]]]
           Is(f) == f = [i \in 1 .. n |-> IF i = 1 THEN seqs[i] ELSE f[i-1] \o seqs[i]]
           flat == CHOOSE f : Is(f)
<1>2. \A k \in 1 .. n : seqs[k] \in Seq(A)
    BY <1>1
<1>3. F \in [1 .. n -> [Seq(A) -> Seq(A)]]
    BY <1>2
<1>4. PICK g \in [0 .. n -> Seq(A)] :
        g[0] = <<>> /\ \A k \in 1 .. n : g[k] = F[k][g[k - 1]]
  <2>1. <<>> \in Seq(A)
      OBVIOUS
  <2> HIDE DEF F
  <2>2. HasRun(Seq(A), <<>>, n, F)
      BY <1>3, <2>1, Iteration
  <2> QED BY <2>2 DEF HasRun
<1>5. \A k \in 1 .. n : k - 1 \in 0 .. n /\ g[k] = g[k - 1] \o seqs[k]
  <2> SUFFICES ASSUME NEW k \in 1 .. n PROVE k - 1 \in 0 .. n /\ g[k] = g[k - 1] \o seqs[k]
      OBVIOUS
  <2>1. k - 1 \in 0 .. n
      OBVIOUS
  <2>2. g[k - 1] \in Seq(A) /\ F[k] = [x \in Seq(A) |-> x \o seqs[k]]
      BY <2>1
  <2>3. g[k] = F[k][g[k - 1]]
      BY <1>4
  <2> HIDE DEF F
  <2> QED BY <2>1, <2>2, <2>3
<1> HIDE DEF F
<1>6. FlattenSeq(seqs) = g[n]
  <2>1. CASE n = 0
    <3>1. FlattenSeq(seqs) = <<>>
      BY <2>1, <1>1 DEF FlattenSeq
    <3> QED BY <3>1, <2>1, <1>4
  <2>2. CASE n > 0
    <3>1. FlattenSeq(seqs) = flat[n]
       BY <2>2, <1>1 DEF FlattenSeq
    <3>2. g[1] = seqs[1]
      <4>0. 1 \in 1 .. n /\ 1 - 1 = 0
         BY <2>2
      <4>3. g[1] = g[0] \o seqs[1]
         BY <1>5, <4>0
      <4>1. seqs[1] \in Seq(A)
         BY <1>2, <2>2
      <4>2. <<>> \o seqs[1] = seqs[1]
         BY <4>1
      <4> QED BY <1>4, <4>3, <4>2
    <3>3. Is([i \in 1..n |-> g[i]])
      <4>1. ASSUME NEW i \in 1 .. n
            PROVE  g[i] = IF i = 1 THEN seqs[i] ELSE [j \in 1 .. n |-> g[j]][i - 1] \o seqs[i]
        <5>1. i # 1 => i - 1 \in 1 .. n
          OBVIOUS
        <5> QED BY <5>1, <3>2, <1>5
      <4> QED BY <4>1
    <3>4. Is(flat)
       BY <3>3
    <3> HIDE DEF flat
    <3> DEFINE S == {k \in 0 .. n : k = 0 \/ flat[k] = g[k]}
    <3>5. 0 \in S
       OBVIOUS
    <3>6. ASSUME NEW k \in 0 .. n - 1, k \in S PROVE k + 1 \in S
       <4>1. flat[k + 1] = IF k = 0 THEN seqs[k + 1] ELSE flat[k] \o seqs[k + 1]
         <5>1. k + 1 \in 1 .. n /\ (k + 1 = 1 <=> k = 0) /\ (k + 1) - 1 = k
           OBVIOUS
         <5> QED BY <3>4, <5>1
       <4>2. g[k + 1] = g[k] \o seqs[k + 1]
         <5>1. k + 1 \in 1 .. n /\ (k + 1) - 1 = k
           OBVIOUS
         <5> QED BY <1>5, <5>1
       <4>3. k = 0 => flat[k + 1] = g[k + 1]
         BY <4>1, <3>2
       <4>4. k # 0 => flat[k + 1] = g[k + 1]
         BY <4>1, <4>2, <3>6
       <4> QED BY <4>3, <4>4
    <3> HIDE DEF S
    <3>7. \A k \in 0 .. n : k \in S
       BY <3>5, <3>6, BoundedInduction
    <3> QED BY <3>1, <3>7, <2>2 DEF S
  <2> QED BY <2>1, <2>2
<1> QED BY <1>1, <1>4, <1>5, <1>6

\* The elements of a concatenation.
LEMMA ConcatElements ==
  ASSUME NEW A, NEW s \in Seq(A), NEW t \in Seq(A)
  PROVE  /\ s \o t \in Seq(A)
         /\ Len(s) \in Nat /\ Len(t) \in Nat /\ Len(s \o t) = Len(s) + Len(t)
         /\ \A j \in 1 .. Len(s) : (s \o t)[j] = s[j]
         /\ \A j \in 1 .. Len(t) : (s \o t)[Len(s) + j] = t[j]
    OBVIOUS

\* t goes on where s ends.
Extended(s, t) == Len(s) <= Len(t) /\ \A j \in 1 .. Len(s) : t[j] = s[j]

\* A concatenation goes on where its first part ends.
LEMMA ExtendedByConcat ==
  ASSUME NEW A, NEW s \in Seq(A), NEW t \in Seq(A)
  PROVE  Extended(s, s \o t)
    BY DEF Extended

\* To go on is transitive.
LEMMA ExtendedTwice ==
  ASSUME NEW A, NEW s \in Seq(A), NEW t \in Seq(A), NEW u \in Seq(A),
         Extended(s, t), Extended(t, u)
  PROVE  Extended(s, u)
    BY DEF Extended

\* Where each sequence is in the flattening: ends[k] is where the k-th ends.
IsLayout(seqs, flat, ends) ==
  /\ ends \in [0 .. Len(seqs) -> Nat]
  /\ ends[0] = 0 /\ ends[Len(seqs)] = Len(flat)
  /\ \A k \in 0 .. Len(seqs) : ends[k] <= Len(flat)
  /\ \A k \in 1 .. Len(seqs) :
       /\ ends[k] = ends[k - 1] + Len(seqs[k])
       /\ \A j \in 1 .. Len(seqs[k]) : flat[ends[k - 1] + j] = seqs[k][j]

\* Appended one after the other, each sequence is in the whole where it was
\* appended.
LEMMA LayoutOfRun ==
  ASSUME NEW A, NEW n \in Nat, NEW q \in [1 .. n -> Seq(A)], NEW g \in [0 .. n -> Seq(A)],
         g[0] = <<>>, \A k \in 1 .. n : g[k] = g[k - 1] \o q[k]
  PROVE  \E ends : IsLayout(q, g[n], ends)
<1> DEFINE S == {i \in 0 .. n : \A k \in 0 .. i : Extended(g[k], g[i])}
           ends == [k \in 0 .. n |-> Len(g[k])]
<1>1. ASSUME NEW k \in 1 .. n
      PROVE  /\ k - 1 \in 0 .. n /\ k \in 0 .. n
             /\ Len(g[k]) = Len(g[k - 1]) + Len(q[k])
             /\ Extended(g[k - 1], g[k])
             /\ \A j \in 1 .. Len(q[k]) : g[k][Len(g[k - 1]) + j] = q[k][j]
  <2>1. k - 1 \in 0 .. n /\ k \in 0 .. n
      OBVIOUS
  <2>2. g[k - 1] \in Seq(A) /\ q[k] \in Seq(A)
      BY <2>1
  <2>3. /\ Len(g[k - 1] \o q[k]) = Len(g[k - 1]) + Len(q[k])
        /\ \A j \in 1 .. Len(q[k]) : (g[k - 1] \o q[k])[Len(g[k - 1]) + j] = q[k][j]
      BY <2>2, ConcatElements
  <2>4. Extended(g[k - 1], g[k - 1] \o q[k])
      BY <2>2, ExtendedByConcat
  <2>5. g[k] = g[k - 1] \o q[k]
      OBVIOUS
  <2> QED BY <2>1, <2>3, <2>4, <2>5
<1>2. 0 \in S
    BY DEF Extended
<1>3. ASSUME NEW i \in 0 .. n - 1, i \in S PROVE i + 1 \in S
  <2>1. i \in 0 .. n /\ i + 1 \in 1 .. n /\ (i + 1) - 1 = i
      OBVIOUS
  <2>2. Extended(g[i], g[i + 1]) /\ g[i] \in Seq(A) /\ g[i + 1] \in Seq(A)
      BY <2>1, <1>1
  <2> SUFFICES ASSUME NEW k \in 0 .. i + 1 PROVE Extended(g[k], g[i + 1])
      BY <2>1
  <2>3. CASE k = i + 1
      BY <2>2, <2>3 DEF Extended
  <2>4. CASE k \in 0 .. i
    <3>1. Extended(g[k], g[i])
        BY <1>3, <2>4
    <3>2. k \in 0 .. n
        BY <2>1, <2>4
    <3>3. g[k] \in Seq(A)
        BY <3>2
    <3> QED BY <3>1, <3>3, <2>2, ExtendedTwice
  <2> QED BY <2>3, <2>4
<1> HIDE DEF S
<1>4. \A i \in 0 .. n - 1 : i \in S => i + 1 \in S
    BY <1>3
<1>5. \A i \in 0 .. n : i \in S
    BY <1>2, <1>4, BoundedInduction
<1>6. \A k \in 0 .. n : Extended(g[k], g[n])
    BY <1>5 DEF S
<1>7. ASSUME NEW k \in 1 .. n, NEW j \in 1 .. Len(q[k])
      PROVE  g[n][Len(g[k - 1]) + j] = q[k][j]
  <2>1. k - 1 \in 0 .. n /\ k \in 0 .. n
      BY <1>1
  <2>2. g[k][Len(g[k - 1]) + j] = q[k][j] /\ Len(g[k]) = Len(g[k - 1]) + Len(q[k])
      BY <1>1
  <2>3. Len(g[k - 1]) + j \in 1 .. Len(g[k])
      BY <2>1, <2>2
  <2> QED BY <2>1, <2>2, <2>3, <1>6 DEF Extended
<1>8. ends \in [0 .. n -> Nat] /\ ends[0] = 0 /\ ends[n] = Len(g[n])
    OBVIOUS
<1>9. \A k \in 0 .. n : ends[k] <= Len(g[n])
    BY <1>6 DEF Extended
<1>10. \A k \in 1 .. n : /\ ends[k] = ends[k - 1] + Len(q[k])
                         /\ \A j \in 1 .. Len(q[k]) : g[n][ends[k - 1] + j] = q[k][j]
    BY <1>1, <1>7
<1> HIDE DEF ends
<1>11. Len(q) = n
    OBVIOUS
<1>12. IsLayout(q, g[n], ends)
    BY <1>8, <1>9, <1>10, <1>11 DEF IsLayout
<1> QED BY <1>12

\* FlattenSeq puts each sequence behind the one before it.
LEMMA FlattenLayout ==
  ASSUME NEW A, NEW n \in Nat, NEW q \in [1 .. n -> Seq(A)]
  PROVE  FlattenSeq(q) \in Seq(A) /\ \E ends : IsLayout(q, FlattenSeq(q), ends)
<1>1. q \in Seq(Seq(A)) /\ Len(q) = n
    OBVIOUS
<1>2. PICK g \in [0 .. n -> Seq(A)] : /\ g[0] = <<>>
                                      /\ \A k \in 1 .. n : g[k] = g[k - 1] \o q[k]
                                      /\ FlattenSeq(q) = g[n]
    BY <1>1, FlattenUnrolled
<1>3. \E ends : IsLayout(q, g[n], ends)
    BY <1>2, LayoutOfRun
<1>4. g[n] \in Seq(A)
    OBVIOUS
<1> QED BY <1>2, <1>3, <1>4

-----------------------------------------------------------------------------
(* Folds.                                                                   *)

\* A set of numbers that is bounded has a greatest one.
LEMMA GreatestOf ==
  ASSUME NEW n \in Nat, NEW s \in SUBSET (1 .. n), s # {}
  PROVE  Max(s) \in s /\ \A k \in s : k <= Max(s)
<1> DEFINE T == {m \in Nat : \A k \in s : k <= m}
<1>1. n \in T
    OBVIOUS
<1>2. PICK m \in T : \A k \in T : m <= k
  <2>1. T \subseteq Nat /\ T # {}
      BY <1>1
  <2> QED BY <2>1, LeastNumber
<1>3. m \in s
  <2> SUFFICES ASSUME m \notin s PROVE FALSE
      OBVIOUS
  <2>1. PICK k \in s : TRUE
      OBVIOUS
  <2>2. k \in 1 .. n /\ k <= m /\ m \in Nat
      OBVIOUS
  <2>3. m - 1 \in Nat
      BY <2>2
  <2>4. \A j \in s : j <= m - 1
      OBVIOUS
  <2>5. m - 1 \in T
      BY <2>3, <2>4
  <2> QED BY <1>2, <2>2, <2>5
<1>4. m \in s /\ \A k \in s : m >= k
    BY <1>3
<1> HIDE DEF T
<1>5. Max(s) \in s /\ \A k \in s : Max(s) >= k
    BY <1>4 DEF Max
<1> QED BY <1>5

\* That of an interval is its end.
LEMMA MaxOfInterval ==
  ASSUME NEW n \in Nat, NEW k \in 1 .. n
  PROVE  /\ Max(1 .. k) = k /\ (1 .. k) \ {k} = 1 .. (k - 1)
         /\ 1 .. k # {} /\ 1 .. k \in SUBSET (1 .. n)
<1>1. 1 .. k # {} /\ 1 .. k \in SUBSET (1 .. n) /\ k \in 1 .. k
    OBVIOUS
<1>2. Max(1 .. k) \in 1 .. k /\ \A j \in 1 .. k : j <= Max(1 .. k)
    BY <1>1, GreatestOf
<1>3. Max(1 .. k) = k
    BY <1>1, <1>2
<1>4. (1 .. k) \ {k} = 1 .. (k - 1)
    OBVIOUS
<1> QED BY <1>1, <1>3, <1>4

\* The function on the sets of positions by which a fold is defined.
HasFold(X, b, n, F) ==
  \E c \in [SUBSET (1 .. n) -> X] :
     \A s \in SUBSET (1 .. n) :
        c[s] = IF s = {} THEN b ELSE F[Max(s)][c[s \ {Max(s)}]]

\* There is one.
LEMMA FoldExists ==
  ASSUME NEW X, NEW b \in X, NEW n \in Nat, NEW F \in [1 .. n -> [X -> X]]
  PROVE  HasFold(X, b, n, F)
<1> DEFINE Fold(m, c) == \A s \in SUBSET (1 .. m) :
                            c[s] = IF s = {} THEN b ELSE F[Max(s)][c[s \ {Max(s)}]]
           R == {m \in 0 .. n : HasFold(X, b, m, F)}
<1>1. 0 \in R
  <2> DEFINE c == [s \in SUBSET (1 .. 0) |-> b]
  <2>1. c \in [SUBSET (1 .. 0) -> X] /\ \A s \in SUBSET (1 .. 0) : s = {}
      OBVIOUS
  <2>2. Fold(0, c)
      BY <2>1
  <2> HIDE DEF c, Fold
  <2>3. \E d \in [SUBSET (1 .. 0) -> X] : Fold(0, d)
      BY <2>1, <2>2
  <2>4. HasFold(X, b, 0, F)
      BY <2>3 DEF HasFold, Fold
  <2> QED BY <2>4
<1>2. ASSUME NEW m \in 0 .. n - 1, m \in R PROVE m + 1 \in R
  <2>1. PICK c \in [SUBSET (1 .. m) -> X] : Fold(m, c)
      BY <1>2 DEF HasFold
  <2> DEFINE d == [s \in SUBSET (1 .. m + 1) |->
                     IF m + 1 \in s THEN F[m + 1][c[s \ {m + 1}]] ELSE c[s]]
  <2>2. ASSUME NEW s \in SUBSET (1 .. m + 1)
        PROVE  /\ d[s] \in X
               /\ m + 1 \in s => d[s] = F[m + 1][c[s \ {m + 1}]] /\ s \ {m + 1} \in SUBSET (1 .. m)
               /\ m + 1 \notin s => d[s] = c[s] /\ s \in SUBSET (1 .. m)
    <3>1. s \ {m + 1} \in SUBSET (1 .. m) /\ m + 1 \in 1 .. n
        OBVIOUS
    <3>2. F[m + 1] \in [X -> X]
        BY <3>1
    <3>3. c[s \ {m + 1}] \in X /\ F[m + 1][c[s \ {m + 1}]] \in X
        BY <3>1, <3>2
    <3>4. m + 1 \notin s => s \in SUBSET (1 .. m)
        OBVIOUS
    <3> QED BY <3>1, <3>3, <3>4
  <2>3. d \in [SUBSET (1 .. m + 1) -> X]
      BY <2>2
  <2>4. ASSUME NEW s \in SUBSET (1 .. m + 1)
        PROVE  d[s] = IF s = {} THEN b ELSE F[Max(s)][d[s \ {Max(s)}]]
    <3> HIDE DEF d
    <3>1. CASE m + 1 \in s
      <4>1. Max(s) \in s /\ \A k \in s : k <= Max(s)
        <5>1. m + 1 \in Nat /\ s # {}
            BY <3>1
        <5> QED BY <5>1, GreatestOf
      <4>2. Max(s) = m + 1
        <5>1. PICK k \in 1 .. m + 1 : k = Max(s)
            BY <4>1
        <5> QED BY <3>1, <4>1, <5>1
      <4>3. d[s \ {m + 1}] = c[s \ {m + 1}]
        <5>1. s \ {m + 1} \in SUBSET (1 .. m + 1) /\ m + 1 \notin s \ {m + 1}
            OBVIOUS
        <5> QED BY <5>1, <2>2
      <4> QED BY <3>1, <4>2, <4>3, <2>2
    <3>2. CASE m + 1 \notin s /\ s # {}
      <4>1. s \in SUBSET (1 .. m) /\ d[s] = c[s]
          BY <3>2, <2>2
      <4>2. Max(s) \in s
        <5>1. m \in Nat
            OBVIOUS
        <5> QED BY <3>2, <4>1, <5>1, GreatestOf
      <4>3. s \ {Max(s)} \in SUBSET (1 .. m + 1) /\ m + 1 \notin s \ {Max(s)}
          BY <3>2, <4>2
      <4>4. d[s \ {Max(s)}] = c[s \ {Max(s)}]
          BY <4>3, <2>2
      <4>5. c[s] = F[Max(s)][c[s \ {Max(s)}]]
          BY <3>2, <4>1, <2>1
      <4> QED BY <3>2, <4>1, <4>4, <4>5
    <3>3. CASE s = {}
      <4>1. s \in SUBSET (1 .. m) /\ m + 1 \notin s
          BY <3>3
      <4>2. c[s] = b
          BY <3>3, <4>1, <2>1
      <4> QED BY <3>3, <4>1, <4>2, <2>2
    <3> QED BY <3>1, <3>2, <3>3
  <2>5. Fold(m + 1, d)
      BY <2>4
  <2> HIDE DEF d, Fold
  <2>6. \E e \in [SUBSET (1 .. m + 1) -> X] : Fold(m + 1, e)
      BY <2>3, <2>5
  <2>7. HasFold(X, b, m + 1, F)
      BY <2>6 DEF HasFold, Fold
  <2> QED BY <2>7
<1> HIDE DEF R
<1>3. \A m \in 0 .. n - 1 : m \in R => m + 1 \in R
    BY <1>2
<1>4. \A m \in 0 .. n : m \in R
    BY <1>1, <1>3, BoundedInduction
<1> QED BY <1>4 DEF R

\* v is what F makes of b, one position after the other.
Computed(X, b, n, F, v) ==
  \E g \in [0 .. n -> X] :
     g[0] = b /\ (\A k \in 1 .. n : g[k] = F[k][g[k - 1]]) /\ v = g[n]

\* What the function of a fold gives for all positions.
LEMMA FoldComputes ==
  ASSUME NEW X, NEW b \in X, NEW n \in Nat, NEW F \in [1 .. n -> [X -> X]],
         NEW c, c[{}] = b,
         \A k \in 1 .. n : c[1 .. (k - 1)] \in X => c[1 .. k] = F[k][c[1 .. (k - 1)]]
  PROVE  Computed(X, b, n, F, c[1 .. n])
<1> DEFINE g == [k \in 0 .. n |-> c[1 .. k]]
           R == {k \in 0 .. n : c[1 .. k] \in X}
<1>1. c[1 .. 0] = b
  <2>1. 1 .. 0 = {}
      OBVIOUS
  <2> QED BY <2>1
<1>2. 0 \in R
    BY <1>1
<1>3. ASSUME NEW k \in 0 .. n - 1, k \in R PROVE k + 1 \in R
  <2>1. k + 1 \in 1 .. n /\ (k + 1) - 1 = k
      OBVIOUS
  <2>2. c[1 .. (k + 1)] = F[k + 1][c[1 .. k]]
      BY <1>3, <2>1
  <2>3. F[k + 1] \in [X -> X] /\ c[1 .. k] \in X
      BY <1>3, <2>1
  <2>4. F[k + 1][c[1 .. k]] \in X
      BY <2>3
  <2> QED BY <2>1, <2>2, <2>4
<1> HIDE DEF R
<1>4. \A k \in 0 .. n - 1 : k \in R => k + 1 \in R
    BY <1>3
<1>5. \A k \in 0 .. n : k \in R
    BY <1>2, <1>4, BoundedInduction
<1>6. g \in [0 .. n -> X]
    BY <1>5 DEF R
<1>7. g[0] = b /\ g[n] = c[1 .. n]
    BY <1>1
<1>8. ASSUME NEW k \in 1 .. n PROVE g[k] = F[k][g[k - 1]]
  <2>1. k \in 0 .. n /\ k - 1 \in 0 .. n
      OBVIOUS
  <2>2. g[k] = c[1 .. k] /\ g[k - 1] = c[1 .. (k - 1)]
      BY <2>1
  <2>3. c[1 .. (k - 1)] \in X
      BY <1>5, <2>1 DEF R
  <2> HIDE DEF g
  <2> QED BY <2>2, <2>3
<1> HIDE DEF g
<1> QED BY <1>6, <1>7, <1>8 DEF Computed

\* The steps of a fold over s: Op[e] is what the element e does.
StepsOver(Op, s) == [k \in 1 .. Len(s) |-> Op[s[k]]]

\* They are functions on X.
LEMMA StepsTyped ==
  ASSUME NEW X, NEW D, NEW Op \in [D -> [X -> X]], NEW s \in Seq(D)
  PROVE  StepsOver(Op, s) \in [1 .. Len(s) -> [X -> X]]
<1>1. \A k \in 1 .. Len(s) : s[k] \in D
    OBVIOUS
<1>2. \A k \in 1 .. Len(s) : Op[s[k]] \in [X -> X]
    BY <1>1
<1> QED BY <1>2 DEF StepsOver

\* c is the function of a fold over s, and stays in X.
FoldsOver(X, D, b, Op, s, c) ==
  /\ c[{}] = b
  /\ c = [u \in SUBSET DOMAIN s |-> c[u]]
  /\ \A u \in SUBSET DOMAIN s :
       u # {} => /\ s[Max(u)] \in D /\ c[u \ {Max(u)}] \in X
                 /\ c[u] = Op[s[Max(u)]][c[u \ {Max(u)}]]

\* There is one.
LEMMA FoldOver ==
  ASSUME NEW X, NEW D, NEW b \in X, NEW Op \in [D -> [X -> X]], NEW s \in Seq(D)
  PROVE  \E c : FoldsOver(X, D, b, Op, s, c)
<1> DEFINE F == StepsOver(Op, s)
<1>1. PICK n \in Nat : n = Len(s) /\ DOMAIN s = 1 .. n
    OBVIOUS
<1>2. F \in [1 .. n -> [X -> X]] /\ \A k \in 1 .. n : F[k] = Op[s[k]] /\ s[k] \in D
  <2>1. F \in [1 .. n -> [X -> X]]
      BY <1>1, StepsTyped
  <2> QED BY <1>1, <2>1 DEF StepsOver
<1> HIDE DEF F
<1>3. HasFold(X, b, n, F)
    BY <1>2, FoldExists
<1>4. PICK c \in [SUBSET (1 .. n) -> X] :
         \A u \in SUBSET (1 .. n) :
            c[u] = IF u = {} THEN b ELSE F[Max(u)][c[u \ {Max(u)}]]
    BY <1>3 DEF HasFold
<1>5. ASSUME NEW u \in SUBSET (1 .. n), u # {}
      PROVE  Max(u) \in 1 .. n /\ c[u \ {Max(u)}] \in X
  <2>1. Max(u) \in u
      BY <1>5, GreatestOf
  <2> QED BY <2>1
<1>6. FoldsOver(X, D, b, Op, s, c)
  <2>1. c[{}] = b /\ c = [u \in SUBSET DOMAIN s |-> c[u]]
      BY <1>1, <1>4
  <2>2. ASSUME NEW u \in SUBSET DOMAIN s, u # {}
        PROVE  /\ s[Max(u)] \in D /\ c[u \ {Max(u)}] \in X
               /\ c[u] = Op[s[Max(u)]][c[u \ {Max(u)}]]
    <3>1. Max(u) \in 1 .. n /\ c[u \ {Max(u)}] \in X
        BY <1>1, <1>5, <2>2
    <3>2. c[u] = F[Max(u)][c[u \ {Max(u)}]]
        BY <1>1, <1>4, <2>2
    <3> QED BY <3>1, <3>2, <1>2
  <2> QED BY <2>1, <2>2 DEF FoldsOver
<1> QED BY <1>6

\* A function that is one of a fold as long as it is in X gives, at all
\* positions, what the steps compute.
LEMMA FoldOverAll ==
  ASSUME NEW X, NEW D, NEW b \in X, NEW Op \in [D -> [X -> X]], NEW s \in Seq(D),
         NEW c, c[{}] = b,
         \A u \in SUBSET DOMAIN s :
            u # {} /\ s[Max(u)] \in D /\ c[u \ {Max(u)}] \in X
            => c[u] = Op[s[Max(u)]][c[u \ {Max(u)}]]
  PROVE  Computed(X, b, Len(s), StepsOver(Op, s), c[DOMAIN s])
<1> DEFINE F == StepsOver(Op, s)
<1>1. PICK n \in Nat : n = Len(s) /\ DOMAIN s = 1 .. n
    OBVIOUS
<1>2. F \in [1 .. n -> [X -> X]] /\ \A k \in 1 .. n : F[k] = Op[s[k]] /\ s[k] \in D
  <2>1. F \in [1 .. n -> [X -> X]]
      BY <1>1, StepsTyped
  <2> QED BY <1>1, <2>1 DEF StepsOver
<1> HIDE DEF F
<1>3. ASSUME NEW k \in 1 .. n, c[1 .. (k - 1)] \in X
      PROVE  c[1 .. k] = F[k][c[1 .. (k - 1)]]
  <2>1. 1 .. k # {} /\ 1 .. k \in SUBSET (1 .. n)
        /\ Max(1 .. k) = k /\ (1 .. k) \ {k} = 1 .. (k - 1)
      BY MaxOfInterval
  <2>2. PICK u \in SUBSET DOMAIN s : u = 1 .. k
      BY <1>1, <2>1
  <2>3. u # {} /\ Max(u) = k /\ u \ {Max(u)} = 1 .. (k - 1)
      BY <2>1, <2>2
  <2>4. c[u] = Op[s[Max(u)]][c[u \ {Max(u)}]]
      BY <1>2, <1>3, <2>3
  <2> QED BY <1>2, <2>2, <2>3, <2>4
<1>4. Computed(X, b, n, F, c[1 .. n])
    BY <1>2, <1>3, FoldComputes
<1> QED BY <1>1, <1>4 DEF F

\* A computation that goes one position further has one more step.
LEMMA ComputedOnce ==
  ASSUME NEW X, NEW b, NEW n \in Nat, NEW F, NEW H, NEW v, NEW w,
         \A k \in 1 .. n : H[k] = F[k],
         Computed(X, b, n, F, v), Computed(X, b, n + 1, H, w)
  PROVE  v \in X /\ w \in X /\ w = H[n + 1][v]
<1>1. PICK g \in [0 .. n -> X] :
         g[0] = b /\ (\A k \in 1 .. n : g[k] = F[k][g[k - 1]]) /\ v = g[n]
    BY DEF Computed
<1>2. PICK h \in [0 .. n + 1 -> X] :
         h[0] = b /\ (\A k \in 1 .. n + 1 : h[k] = H[k][h[k - 1]]) /\ w = h[n + 1]
    BY DEF Computed
<1> DEFINE R == {k \in 0 .. n : h[k] = g[k]}
<1>3. 0 \in R
    BY <1>1, <1>2
<1>4. ASSUME NEW k \in 0 .. n - 1, k \in R PROVE k + 1 \in R
  <2>1. k + 1 \in 1 .. n /\ k + 1 \in 1 .. n + 1 /\ (k + 1) - 1 = k
      OBVIOUS
  <2>2. g[k + 1] = F[k + 1][g[k]] /\ h[k + 1] = H[k + 1][h[k]]
      BY <1>1, <1>2, <2>1
  <2>3. H[k + 1] = F[k + 1] /\ h[k] = g[k]
      BY <1>4, <2>1
  <2> QED BY <2>1, <2>2, <2>3
<1> HIDE DEF R
<1>5. \A k \in 0 .. n - 1 : k \in R => k + 1 \in R
    BY <1>4
<1>6. \A k \in 0 .. n : k \in R
    BY <1>3, <1>5, BoundedInduction
<1>7. h[n] = v
    BY <1>1, <1>6 DEF R
<1>8. n + 1 \in 1 .. n + 1 /\ (n + 1) - 1 = n
    OBVIOUS
<1>9. h[n + 1] = H[n + 1][h[n]]
    BY <1>2, <1>8
<1> QED BY <1>1, <1>2, <1>7, <1>9

\* fold adds the elements of a sequence to b by Op, from the first to the last.
IsFold(X, D, b, Op, fold) ==
  /\ fold \in [Seq(D) -> X]
  /\ fold[<<>>] = b
  /\ \A s \in Seq(D), e \in D : fold[Append(s, e)] = Op[e][fold[s]]

\* What a fold computes position by position it does element by element.
LEMMA FoldByElement ==
  ASSUME NEW X, NEW D, NEW b \in X, NEW Op \in [D -> [X -> X]], NEW fold,
         fold = [s \in Seq(D) |-> fold[s]],
         \A s \in Seq(D) : Computed(X, b, Len(s), StepsOver(Op, s), fold[s])
  PROVE  IsFold(X, D, b, Op, fold)
<1>1. ASSUME NEW s \in Seq(D) PROVE fold[s] \in X
  <2>1. PICK n \in Nat : n = Len(s)
      OBVIOUS
  <2>2. Computed(X, b, n, StepsOver(Op, s), fold[s])
      BY <2>1
  <2> QED BY <2>2 DEF Computed
<1>2. fold[<<>>] = b
  <2>1. <<>> \in Seq(D) /\ Len(<<>>) = 0
      OBVIOUS
  <2>2. Computed(X, b, 0, StepsOver(Op, <<>>), fold[<<>>])
      BY <2>1
  <2> QED BY <2>2 DEF Computed
<1>3. ASSUME NEW s \in Seq(D), NEW e \in D
      PROVE  fold[Append(s, e)] = Op[e][fold[s]]
  <2>1. PICK n \in Nat : n = Len(s)
      OBVIOUS
  <2>2. /\ Append(s, e) \in Seq(D) /\ Len(Append(s, e)) = n + 1
        /\ Append(s, e)[n + 1] = e /\ \A k \in 1 .. n : Append(s, e)[k] = s[k]
      BY <2>1
  <2> DEFINE F == StepsOver(Op, s)
             H == StepsOver(Op, Append(s, e))
  <2>3. Computed(X, b, n, F, fold[s]) /\ Computed(X, b, n + 1, H, fold[Append(s, e)])
      BY <2>1, <2>2
  <2>4. ASSUME NEW k \in 1 .. n PROVE H[k] = F[k]
    <3>1. k \in 1 .. n + 1
        OBVIOUS
    <3>2. F[k] = Op[s[k]]
        BY <2>1 DEF StepsOver
    <3>3. H[k] = Op[Append(s, e)[k]]
        BY <2>2, <3>1 DEF StepsOver
    <3> HIDE DEF F, H
    <3> QED BY <3>2, <3>3, <2>2
  <2>5. H[n + 1] = Op[e]
    <3>1. n + 1 \in 1 .. n + 1
        OBVIOUS
    <3> QED BY <3>1, <2>2 DEF StepsOver
  <2> HIDE DEF F, H
  <2>6. \A k \in 1 .. n : H[k] = F[k]
      BY <2>4
  <2>7. fold[Append(s, e)] = H[n + 1][fold[s]]
      BY <2>3, <2>6, ComputedOnce
  <2> QED BY <2>5, <2>7
<1> QED BY <1>1, <1>2, <1>3 DEF IsFold

\* Induction over sequences that grow at their end.
LEMMA AppendInduction ==
  ASSUME NEW D, NEW R, <<>> \in R,
         \A s \in Seq(D), e \in D : s \in R => Append(s, e) \in R
  PROVE  \A s \in Seq(D) : s \in R
<1> DEFINE T == {n \in Nat : \A s \in Seq(D) : Len(s) = n => s \in R}
<1>1. 0 \in T
  <2>1. ASSUME NEW s \in Seq(D), Len(s) = 0 PROVE s = <<>>
      BY <2>1
  <2> QED BY <2>1
<1>2. ASSUME NEW n \in Nat, n \in T PROVE n + 1 \in T
  <2> SUFFICES ASSUME NEW s \in Seq(D), Len(s) = n + 1 PROVE s \in R
      OBVIOUS
  <2> DEFINE t == SubSeq(s, 1, n)
  <2>1. t \in Seq(D) /\ Len(t) = n /\ s[n + 1] \in D /\ \A k \in 1 .. n : t[k] = s[k]
      OBVIOUS
  <2> HIDE DEF t
  <2>2. Append(t, s[n + 1]) = s
      BY <2>1
  <2>3. t \in R
      BY <1>2, <2>1
  <2> QED BY <2>1, <2>2, <2>3
<1> HIDE DEF T
<1>3. \A n \in Nat : n \in T
    BY <1>1, <1>2, NatSetInduction
<1>4. \A s \in Seq(D) : Len(s) \in Nat
    OBVIOUS
<1> QED BY <1>3, <1>4 DEF T

-----------------------------------------------------------------------------
(* Sequences at their ends.                                                *)

\* Nothing added.
LEMMA ConcatEmpty ==
  ASSUME NEW D, NEW s \in Seq(D)
  PROVE  s \o <<>> = s
OBVIOUS

\* One element added.
LEMMA ConcatOne ==
  ASSUME NEW D, NEW s \in Seq(D), NEW e \in D
  PROVE  Append(s, e) \in Seq(D) /\ s \o <<e>> = Append(s, e)
OBVIOUS

\* One element added to the second part.
LEMMA ConcatAppend ==
  ASSUME NEW D, NEW s \in Seq(D), NEW t \in Seq(D), NEW e \in D
  PROVE  s \o t \in Seq(D) /\ Append(t, e) \in Seq(D) /\ s \o Append(t, e) = Append(s \o t, e)
OBVIOUS

\* A replacement of the last element.
LEMMA LastReplaced ==
  ASSUME NEW D, NEW A \in Seq(D), NEW q \in D, NEW r \in D
  PROVE  /\ Append(A, q)[Len(Append(A, q))] = q
         /\ [Append(A, q) EXCEPT ![Len(Append(A, q))] = r] = Append(A, r)
<1>1. PICK n \in Nat : n = Len(A)
    OBVIOUS
<1>2. /\ Append(A, q) \in Seq(D) /\ Len(Append(A, q)) = n + 1 /\ Append(A, q)[n + 1] = q
      /\ \A i \in 1 .. n : Append(A, q)[i] = A[i]
    BY <1>1
<1>3. /\ Append(A, r) \in Seq(D) /\ Len(Append(A, r)) = n + 1 /\ Append(A, r)[n + 1] = r
      /\ \A i \in 1 .. n : Append(A, r)[i] = A[i]
    BY <1>1
<1> DEFINE B == Append(A, q)
           C == [B EXCEPT ![n + 1] = r]
<1> HIDE DEF B
<1>4. /\ C \in Seq(D) /\ Len(C) = n + 1 /\ C[n + 1] = r
      /\ \A i \in 1 .. n : C[i] = A[i]
  <2>1. B \in Seq(D) /\ Len(B) = n + 1 /\ n + 1 \in Nat
      BY <1>2 DEF B
  <2>2. C \in Seq(D) /\ Len(C) = n + 1
      BY <2>1
  <2>3. \A i \in 1 .. n + 1 : C[i] = IF i = n + 1 THEN r ELSE B[i]
      BY <2>1
  <2>4. n + 1 \in 1 .. n + 1 /\ \A i \in 1 .. n : i \in 1 .. n + 1 /\ i # n + 1
      OBVIOUS
  <2> HIDE DEF C
  <2>5. \A i \in 1 .. n : C[i] = A[i]
      BY <2>3, <2>4, <1>2 DEF B
  <2> QED BY <2>2, <2>3, <2>4, <2>5
<1> HIDE DEF C
<1>5. C = Append(A, r)
    BY <1>1, <1>3, <1>4
<1> QED BY <1>2, <1>5 DEF B, C

\* The ends of a sequence that has grown.
LEMMA HeadAndTail ==
  ASSUME NEW D, NEW s \in Seq(D) \ {<<>>}, NEW e \in D
  PROVE  /\ Append(s, e) # <<>> /\ Head(Append(s, e)) = Head(s)
         /\ Tail(Append(s, e)) = Append(Tail(s), e)
<1>1. PICK n \in Nat \ {0} : n = Len(s)
    OBVIOUS
<1>2. Append(s, e) # <<>> /\ Head(Append(s, e)) = Head(s)
    BY <1>1
<1>3. /\ Tail(Append(s, e)) \in Seq(D) /\ Len(Tail(Append(s, e))) = n
      /\ \A i \in 1 .. n : Tail(Append(s, e))[i] = Append(s, e)[i + 1]
    BY <1>1
<1>4. /\ Append(Tail(s), e) \in Seq(D) /\ Len(Append(Tail(s), e)) = n
      /\ \A i \in 1 .. n : Append(Tail(s), e)[i] = IF i = n THEN e ELSE s[i + 1]
    BY <1>1
<1>5. \A i \in 1 .. n : Append(s, e)[i + 1] = IF i = n THEN e ELSE s[i + 1]
    BY <1>1
<1> QED BY <1>2, <1>3, <1>4, <1>5
=============================================================================
