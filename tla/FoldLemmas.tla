----------------------------- MODULE FoldLemmas -----------------------------
(***************************************************************************)
(* Facts about the folds of the community modules that the proofs about    *)
(* chunks, bodies and boards rest on.  A fold over a sequence of length n  *)
(* is there a function on the subsets of 1..n that takes a set's largest   *)
(* index off at a time: that such a function exists, and that facts climb  *)
(* from one index to the next, is induction over numbers, here on sets of  *)
(* them.                                                                   *)
(***************************************************************************)
EXTENDS SequencesExt, WellFoundedInduction, TLAPS

\* Every set of numbers has a least one.
LEMMA LeastElement ==
  ASSUME NEW T, T \subseteq Nat, T # {}
  PROVE  \E x \in T : \A y \in T : x <= y
<1> DEFINE R == OpToRel(<, Nat)
<1>1. IsWellFoundedOn(R, Nat)
  BY NatLessThanWellFounded
<1>2. \A x, y \in Nat : <<y, x>> \in R <=> y < x
  BY DEF OpToRel
<1> HIDE DEF R
<1>3. PICK x \in T : \A y \in T : ~ (<<y, x>> \in R)
  BY <1>1, WFMin
<1>4. ASSUME NEW y \in T
      PROVE  x <= y
  <2>1. x \in Nat /\ y \in Nat
    OBVIOUS
  <2>2. ~ (y < x)
    BY <1>2, <1>3, <2>1
  <2>3. QED
    BY <2>1, <2>2
<1>5. QED
  BY <1>4

\* What holds at 0 and passes from each number below n to the next holds up to n.
LEMMA UpTo ==
  ASSUME NEW n \in Nat, NEW T, 0 \in T, \A k \in 0..(n - 1) : k \in T => k + 1 \in T
  PROVE  0..n \subseteq T
<1>1. SUFFICES ASSUME (0..n) \ T # {}
               PROVE  FALSE
  OBVIOUS
<1>2. PICK x \in (0..n) \ T : \A y \in (0..n) \ T : x <= y
  <2>1. (0..n) \ T \subseteq Nat
    OBVIOUS
  <2>2. QED
    BY <1>1, <2>1, LeastElement
<1>3. x - 1 \in 0..(n - 1) /\ x - 1 \in 0..n /\ ~ (x <= x - 1)
  BY <1>2
<1>4. x - 1 \in T
  BY <1>2, <1>3
<1>5. QED
  BY <1>2, <1>3, <1>4

\* A set of indices has a largest one, and Max is it.
LEMMA MaxOfIndices ==
  ASSUME NEW n \in Nat, NEW S \in SUBSET (1..n), S # {}
  PROVE  Max(S) \in S /\ \A y \in S : y <= Max(S)
<1> DEFINE Bounds == {b \in Nat : \A y \in S : y <= b}
<1>1. PICK b \in Bounds : \A d \in Bounds : b <= d
  <2>1. n \in Bounds /\ Bounds \subseteq Nat
    OBVIOUS
  <2> HIDE DEF Bounds
  <2>2. QED
    BY <2>1, LeastElement
<1>2. b \in S
  <2>1. SUFFICES ASSUME b \notin S
                 PROVE  FALSE
    OBVIOUS
  <2>2. PICK z \in S : TRUE
    OBVIOUS
  <2>3. b \in Nat /\ \A y \in S : y \in Nat /\ 1 <= y /\ y <= b /\ y # b
    BY <1>1, <2>1
  <2>4. b - 1 \in Nat /\ \A y \in S : y <= b - 1
    BY <2>2, <2>3
  <2>5. b <= b - 1
    BY <1>1, <2>4
  <2>6. QED
    BY <2>3, <2>5
<1>3. \E x \in S : \A y \in S : x >= y
  BY <1>1, <1>2
<1>4. Max(S) \in S /\ \A y \in S : Max(S) >= y
  BY <1>3 DEF Max
<1>5. QED
  BY <1>4

\* The largest index of a prefix is its length.
LEMMA MaxOfPrefix ==
  ASSUME NEW k \in Nat \ {0}
  PROVE  Max(1..k) = k /\ (1..k) \ {k} = 1..(k - 1)
<1>1. Max(1..k) \in 1..k /\ \A y \in 1..k : y <= Max(1..k)
  <2>1. 1 \in 1..k
    OBVIOUS
  <2>2. QED
    BY <2>1, MaxOfIndices
<1>2. QED
  BY <1>1

\* f is the fold of step, from base, over the sets of indices up to n.
IsFold(f, n, base, step) ==
  \A S \in SUBSET (1..n) :
    f[S] = IF S = {} THEN base ELSE step[<<f[S \ {Max(S)}], Max(S)>>]

\* A step on (what was folded so far, the next index) folds every set of indices.
LEMMA FoldExists ==
  ASSUME NEW X, NEW base \in X, NEW n \in Nat, NEW step \in [X \X (1..n) -> X]
  PROVE  \E f \in [SUBSET (1..n) -> X] : IsFold(f, n, base, step)
<1> DEFINE Folds(k, f) ==
             \A S \in SUBSET (1..k) :
               f[S] = IF S = {} THEN base ELSE step[<<f[S \ {Max(S)}], Max(S)>>]
           Good == {k \in 0..n : \E f \in [SUBSET (1..k) -> X] : Folds(k, f)}
<1>1. 0 \in Good
  <2>1. SUBSET (1..0) = {{}}
    OBVIOUS
  <2>2. [S \in {{}} |-> base] \in [{{}} -> X]
    OBVIOUS
  <2>3. Folds(0, [S \in {{}} |-> base])
    BY <2>1
  <2>4. 0 \in 0..n
    OBVIOUS
  <2> HIDE DEF Folds
  <2>5. QED
    BY <2>1, <2>2, <2>3, <2>4
<1>2. ASSUME NEW k \in 0..(n - 1), k \in Good
      PROVE  k + 1 \in Good
  <2>1. PICK f \in [SUBSET (1..k) -> X] : Folds(k, f)
    BY <1>2
  <2> DEFINE h == [S \in SUBSET (1..(k + 1)) |->
                     IF k + 1 \in S THEN step[<<f[S \ {k + 1}], k + 1>>] ELSE f[S]]
  <2>2. k + 1 \in 1..n /\ k + 1 \in Nat
    OBVIOUS
  <2>3. \A S \in SUBSET (1..(k + 1)) : S \ {k + 1} \in SUBSET (1..k)
    OBVIOUS
  <2>4. h \in [SUBSET (1..(k + 1)) -> X]
    BY <2>2, <2>3
  <2>5. ASSUME NEW S \in SUBSET (1..(k + 1))
        PROVE  h[S] = IF S = {} THEN base ELSE step[<<h[S \ {Max(S)}], Max(S)>>]
    <3>1. CASE k + 1 \in S
      <4>1. Max(S) = k + 1
        <5>1. Max(S) \in S /\ \A y \in S : y <= Max(S)
          BY <2>2, <3>1, MaxOfIndices
        <5>2. k \in Nat /\ k + 1 <= Max(S)
          BY <3>1, <5>1
        <5>3. Max(S) \in 1..(k + 1)
          BY <5>1
        <5>4. QED
          BY <5>2, <5>3
      <4>2. h[S \ {k + 1}] = f[S \ {k + 1}]
        BY <2>3
      <4>3. QED
        BY <3>1, <4>1, <4>2
    <3>2. CASE k + 1 \notin S
      <4>1. S \in SUBSET (1..k)
        BY <3>2
      <4>2. h[S] = f[S]
        BY <3>2
      <4>3. S # {} => h[S \ {Max(S)}] = f[S \ {Max(S)}]
        BY <3>2
      <4>4. QED
        BY <2>1, <4>1, <4>2, <4>3
    <3>3. QED
      BY <3>1, <3>2
  <2>6. Folds(k + 1, h)
    BY <2>5
  <2> HIDE DEF h, Folds
  <2>7. k + 1 \in 0..n
    OBVIOUS
  <2>8. QED
    BY <2>4, <2>6, <2>7
<1>3. n \in Good
  <2> HIDE DEF Good
  <2>1. 0..n \subseteq Good
    BY <1>1, <1>2, UpTo
  <2>2. QED
    BY <2>1
<1>4. QED
  BY <1>3 DEF IsFold

\* f starts at base, and as long as what it has folded is in X it takes step.
FoldsWithin(f, X, n, base, step) ==
  /\ f[{}] = base
  /\ \A S \in SUBSET (1..n) :
       S # {} /\ f[S \ {Max(S)}] \in X => f[S] = step[<<f[S \ {Max(S)}], Max(S)>>]

\* run is what the fold has come to after each index, total in the end.
IsRun(run, n, base, step, total) ==
  /\ run[0] = base
  /\ \A k \in 1..n : run[k] = step[<<run[k - 1], k>>]
  /\ run[n] = total

\* Read along the prefixes, a fold starts at the base and takes one step an index.
LEMMA FoldPrefixes ==
  ASSUME NEW X, NEW base \in X, NEW n \in Nat, NEW step \in [X \X (1..n) -> X],
         NEW f, FoldsWithin(f, X, n, base, step)
  PROVE  \E run \in [0..n -> X] : IsRun(run, n, base, step, f[1..n])
<1> DEFINE run == [k \in 0..n |-> f[1..k]]
<1>1. run[0] = base
  <2>1. 1..0 = {} /\ 0 \in 0..n
    OBVIOUS
  <2>2. QED
    BY <2>1 DEF FoldsWithin
<1>2. ASSUME NEW k \in 1..n, run[k - 1] \in X
      PROVE  run[k] = step[<<run[k - 1], k>>]
  <2>1. Max(1..k) = k /\ (1..k) \ {k} = 1..(k - 1)
    BY MaxOfPrefix
  <2>2. 1..k \in SUBSET (1..n) /\ 1 \in 1..k /\ k - 1 \in 0..n /\ k \in 0..n
    OBVIOUS
  <2>3. f[(1..k) \ {Max(1..k)}] = run[k - 1]
    BY <2>1, <2>2
  <2>4. f[1..k] = step[<<f[(1..k) \ {Max(1..k)}], Max(1..k)>>]
    BY <1>2, <2>2, <2>3 DEF FoldsWithin
  <2>5. QED
    BY <2>1, <2>2, <2>4
<1>3. run \in [0..n -> X]
  <2> DEFINE T == {k \in 0..n : run[k] \in X}
  <2>1. 0 \in T
    BY <1>1
  <2>2. \A k \in 0..(n - 1) : k \in T => k + 1 \in T
    <3>1. SUFFICES ASSUME NEW k \in 0..(n - 1), k \in T
                   PROVE  k + 1 \in T
      OBVIOUS
    <3>2. k + 1 \in 1..n /\ (k + 1) - 1 = k /\ k + 1 \in 0..n
      OBVIOUS
    <3>3. run[k] \in X
      BY <3>1
    <3>4. run[k + 1] = step[<<run[k], k + 1>>]
      BY <1>2, <3>2, <3>3
    <3> HIDE DEF run
    <3>5. QED
      BY <3>2, <3>3, <3>4
  <2>3. 0..n \subseteq T
    <3> HIDE DEF T
    <3>1. QED
      BY <2>1, <2>2, UpTo
  <2>4. QED
    BY <2>3
<1>4. f[1..n] = run[n]
  OBVIOUS
<1>5. \A k \in 1..n : run[k] = step[<<run[k - 1], k>>]
  <2>1. \A k \in 1..n : k - 1 \in 0..n
    OBVIOUS
  <2> HIDE DEF run
  <2>2. QED
    BY <1>2, <1>3, <2>1
<1>6. IsRun(run, n, base, step, f[1..n])
  <2> HIDE DEF run
  <2>1. QED
    BY <1>1, <1>4, <1>5 DEF IsRun
<1> HIDE DEF run
<1>7. QED
  BY <1>3, <1>6

-----------------------------------------------------------------------------
(* Folds whose values grow: what has been folded up to k is in Y[k]. *)

Grows(Y, n, base, step) ==
    /\ base \in Y[0]
    /\ \A k \in 1..n : /\ Y[k - 1] \subseteq Y[k] /\ Y[k] \subseteq Y[n]
                       /\ \A u \in Y[k - 1] : step[<<u, k>>] \in Y[k]

\* The sets grow from one to any later one.
LEMMA GrownSets ==
    ASSUME NEW n \in Nat, NEW Y, NEW base, NEW step, Grows(Y, n, base, step)
    PROVE  /\ \A k \in 0..n : base \in Y[k] /\ Y[k] \subseteq Y[n]
           /\ \A k \in 0..n : \A j \in 0..k : Y[j] \subseteq Y[k]
<1> DEFINE Good == {k \in 0..n : base \in Y[k] /\ \A j \in 0..k : Y[j] \subseteq Y[k]}
<1>1. 0 \in Good
  BY DEF Grows
<1>2. ASSUME NEW k \in 0..(n - 1), k \in Good
      PROVE  k + 1 \in Good
  <2>1. k + 1 \in 1..n /\ (k + 1) - 1 = k
    OBVIOUS
  <2>2. Y[k] \subseteq Y[k + 1]
    BY <2>1 DEF Grows
  <2>3. ASSUME NEW j \in 0..(k + 1)
        PROVE  Y[j] \subseteq Y[k + 1]
    <3>1. j \in 0..k \/ j = k + 1
      OBVIOUS
    <3> QED  BY <1>2, <2>2, <3>1
  <2> QED  BY <1>2, <2>1, <2>2, <2>3
<1>3. 0..n \subseteq Good
  <2> HIDE DEF Good
  <2> QED  BY <1>1, <1>2, UpTo
<1>4. ASSUME NEW k \in 0..n
      PROVE  Y[k] \subseteq Y[n]
  <2>1. n \in 0..n
    OBVIOUS
  <2> QED  BY <1>3, <2>1
<1> QED  BY <1>3, <1>4

\* A fold whose k-th value is in the k-th of growing sets exists.
LEMMA FoldGrows ==
    ASSUME NEW n \in Nat, NEW Y, NEW base, NEW step, Grows(Y, n, base, step)
    PROVE  \E f \in [SUBSET (1..n) -> Y[n]] : IsFold(f, n, base, step)
<1> DEFINE X == Y[n]
           take == [x \in X \X (1..n) |-> IF x[1] \in Y[x[2] - 1] THEN step[x] ELSE base]
<1>1. base \in X /\ \A k \in 0..n : base \in Y[k] /\ Y[k] \subseteq X
  <2>1. n \in 0..n
    OBVIOUS
  <2> QED  BY <2>1, GrownSets
<1>2. ASSUME NEW u \in X, NEW k \in 1..n
      PROVE  /\ take[<<u, k>>] = IF u \in Y[k - 1] THEN step[<<u, k>>] ELSE base
             /\ take[<<u, k>>] \in X
  <2>1. take[<<u, k>>] = IF u \in Y[k - 1] THEN step[<<u, k>>] ELSE base
    OBVIOUS
  <2>2. u \in Y[k - 1] => step[<<u, k>>] \in Y[k]
    BY DEF Grows
  <2>3. k \in 0..n
    OBVIOUS
  <2> HIDE DEF take
  <2> QED  BY <1>1, <2>1, <2>2, <2>3
<1>3. take \in [X \X (1..n) -> X]
  <2>1. ASSUME NEW x \in X \X (1..n)
        PROVE  take[x] \in X
    <3>1. PICK u \in X, k \in 1..n : x = <<u, k>>
      OBVIOUS
    <3> HIDE DEF take
    <3> QED  BY <1>2, <3>1
  <2> QED  BY <2>1
<1> HIDE DEF take, X
<1>4. PICK f \in [SUBSET (1..n) -> X] : IsFold(f, n, base, take)
  BY <1>1, <1>3, FoldExists
<1> DEFINE Good == {k \in 0..n : \A I \in SUBSET (1..k) : f[I] \in Y[k]}
<1>5. 0 \in Good
  <2>1. SUFFICES ASSUME NEW I \in SUBSET (1..0)
                 PROVE  f[I] \in Y[0]
    OBVIOUS
  <2>2. I = {} /\ I \in SUBSET (1..n)
    OBVIOUS
  <2>3. f[I] = base
    BY <1>4, <2>2 DEF IsFold
  <2> QED  BY <2>3 DEF Grows
<1>6. ASSUME NEW k \in 0..(n - 1), k \in Good
      PROVE  k + 1 \in Good
  <2>0. k + 1 \in 0..n /\ k + 1 \in 1..n /\ (k + 1) - 1 = k
    OBVIOUS
  <2>1. ASSUME NEW I \in SUBSET (1..(k + 1))
        PROVE  f[I] \in Y[k + 1]
    <3>1. CASE k + 1 \notin I
      <4>1. I \in SUBSET (1..k)
        BY <3>1
      <4>2. f[I] \in Y[k]
        BY <1>6, <4>1
      <4> QED  BY <2>0, <4>2 DEF Grows
    <3>2. CASE k + 1 \in I
      <4>1. I \in SUBSET (1..n) /\ I # {} /\ k + 1 \in Nat
        BY <3>2
      <4>2. Max(I) \in I /\ \A y \in I : y <= Max(I)
        BY <4>1, MaxOfIndices
      <4>2a. Max(I) \in 1..(k + 1) /\ k + 1 <= Max(I)
        BY <3>2, <4>2
      <4>3. Max(I) = k + 1
        BY <4>2a
      <4>4. I \ {k + 1} \in SUBSET (1..k)
        OBVIOUS
      <4>5. f[I \ {k + 1}] \in Y[k]
        BY <1>6, <4>4
      <4>6. f[I] = take[<<f[I \ {k + 1}], k + 1>>]
        BY <1>4, <4>1, <4>3 DEF IsFold
      <4>7. f[I \ {k + 1}] \in X
        BY <1>1, <4>5
      <4>8. f[I] = step[<<f[I \ {k + 1}], k + 1>>]
        BY <1>2, <2>0, <4>5, <4>6, <4>7
      <4> QED  BY <2>0, <4>5, <4>8 DEF Grows
    <3> QED  BY <3>1, <3>2
  <2> QED  BY <2>0, <2>1
<1>7. 0..n \subseteq Good
  <2> HIDE DEF Good
  <2> QED  BY <1>5, <1>6, UpTo
<1>8. ASSUME NEW I \in SUBSET (1..n), I # {}
      PROVE  f[I] = step[<<f[I \ {Max(I)}], Max(I)>>]
  <2>1. Max(I) \in 1..n /\ \A y \in I : y <= Max(I)
    BY <1>8, MaxOfIndices
  <2>2a. PICK m \in 1..n : m = Max(I)
    BY <2>1
  <2>2b. ASSUME NEW y \in I \ {m}
         PROVE  y \in 1..(m - 1)
    BY <2>1, <2>2a
  <2>2. I \ {Max(I)} \in SUBSET (1..(Max(I) - 1)) /\ Max(I) - 1 \in 0..n
    <3>1. I \ {m} \in SUBSET (1..(m - 1))
      BY <2>2b
    <3>2. m - 1 \in 0..n
      OBVIOUS
    <3> QED  BY <2>2a, <3>1, <3>2
  <2>3. f[I \ {Max(I)}] \in Y[Max(I) - 1]
    BY <1>7, <2>2
  <2>4. f[I] = take[<<f[I \ {Max(I)}], Max(I)>>]
    BY <1>4, <1>8 DEF IsFold
  <2>5. f[I \ {Max(I)}] \in X
    BY <1>1, <2>2, <2>3
  <2> QED  BY <1>2, <2>1, <2>3, <2>4, <2>5
<1>9. f[{}] = base
  BY <1>4 DEF IsFold
<1>10. IsFold(f, n, base, step)
  BY <1>8, <1>9 DEF IsFold
<1> QED  BY <1>4, <1>10 DEF X

\* Read along the prefixes.
LEMMA RunGrows ==
    ASSUME NEW n \in Nat, NEW Y, NEW base, NEW step, Grows(Y, n, base, step),
           NEW g, FoldsWithin(g, Y[n], n, base, step)
    PROVE  \E run : /\ IsRun(run, n, base, step, g[1..n])
                    /\ \A k \in 0..n : run[k] \in Y[k]
<1> DEFINE run == [k \in 0..n |-> g[1..k]]
           Good == {k \in 0..n : run[k] \in Y[k]}
<1>1. run[0] = base
  <2>1. 1..0 = {} /\ 0 \in 0..n
    OBVIOUS
  <2> QED  BY <2>1 DEF FoldsWithin
<1>2. ASSUME NEW k \in 1..n, run[k - 1] \in Y[k - 1]
      PROVE  run[k] = step[<<run[k - 1], k>>] /\ run[k] \in Y[k]
  <2>1. Max(1..k) = k /\ (1..k) \ {k} = 1..(k - 1)
    BY MaxOfPrefix
  <2>2. k - 1 \in 0..n /\ k \in 0..n /\ 1..k \in SUBSET (1..n) /\ 1..k # {}
    OBVIOUS
  <2>3. run[k - 1] = g[1..(k - 1)] /\ run[k] = g[1..k]
    BY <2>2
  <2>4. run[k - 1] \in Y[n]
    BY <1>2, <2>2, GrownSets
  <2> HIDE DEF run
  <2>5. run[k] = step[<<run[k - 1], k>>]
    BY <2>1, <2>2, <2>3, <2>4 DEF FoldsWithin
  <2> QED  BY <1>2, <2>5 DEF Grows
<1>3. 0 \in Good
  BY <1>1 DEF Grows
<1>4. ASSUME NEW k \in 0..(n - 1), k \in Good
      PROVE  k + 1 \in Good
  <2>1. k + 1 \in 1..n /\ k + 1 \in 0..n /\ (k + 1) - 1 = k
    OBVIOUS
  <2> HIDE DEF run
  <2>2. run[k + 1] \in Y[k + 1]
    BY <1>2, <1>4, <2>1
  <2> QED  BY <2>1, <2>2
<1>5. 0..n \subseteq Good
  <2> HIDE DEF Good
  <2> QED  BY <1>3, <1>4, UpTo
<1>6. ASSUME NEW k \in 1..n
      PROVE  run[k] = step[<<run[k - 1], k>>]
  <2>1. k - 1 \in 0..n
    OBVIOUS
  <2>2. run[k - 1] \in Y[k - 1]
    BY <1>5, <2>1
  <2> HIDE DEF run
  <2> QED  BY <1>2, <2>2
<1>7. run[n] = g[1..n]
  OBVIOUS
<1>8. IsRun(run, n, base, step, g[1..n])
  <2> HIDE DEF run
  <2> QED  BY <1>1, <1>6, <1>7 DEF IsRun
<1> QED  BY <1>5, <1>8
=============================================================================
