-------------------------- MODULE CardMovesProofs ---------------------------
(***************************************************************************)
(* Theorems about module CardMoves, for any transactions, columns and      *)
(* cards, and any number of halvings before a rebalance: who holds and has *)
(* written what, when moves can wait for each other in a circle, and the   *)
(* order of a column.                                                      *)
(*                                                                         *)
(* A transaction that places a card holds its column, so until it ends no  *)
(* other writes a row that is, or comes to be, in that column; rows can    *)
(* only leave it.  So what it has read of the column stays true of the     *)
(* cards that are left, and it knows, before it commits, where each will   *)
(* stand: At.  The invariant says that of At what the promises say of the  *)
(* rows once it has committed, and every statement keeps it.               *)
(***************************************************************************)
EXTENDS CardMoves, FoldLemmas, FiniteSetTheorems

-----------------------------------------------------------------------------
(* Finite sets of ranks. *)

(* Among finitely many cards one has the smallest position, and one the largest. *)
LEMMA Extremes ==
    ASSUME NEW f \in [Card -> Int], NEW S \in SUBSET Card, S # {}
    PROVE  (\E d \in S : \A e \in S : f[d] <= f[e]) /\ (\E d \in S : \A e \in S : f[d] >= f[e])
<1> DEFINE Both(T) == /\ \E d \in T : \A e \in T : f[d] <= f[e]
                      /\ \E d \in T : \A e \in T : f[d] >= f[e]
           Good == {n \in Nat : \A T \in SUBSET Card : Cardinality(T) = n + 1 => Both(T)}
<1>1. IsFiniteSet(S) /\ \A T \in SUBSET Card : IsFiniteSet(T)
  BY CardFinite, FS_Subset
<1>2. 0 \in Good
  <2>1. ASSUME NEW T \in SUBSET Card, Cardinality(T) = 1
        PROVE  Both(T)
    <3>1. PICK x : T = {x}
      BY <1>1, <2>1, FS_Singleton
    <3> QED  BY <3>1
  <2> HIDE DEF Both
  <2> QED  BY <2>1
<1>3. ASSUME NEW n \in Nat, n \in Good
      PROVE  n + 1 \in Good
  <2>1. ASSUME NEW T \in SUBSET Card, Cardinality(T) = (n + 1) + 1
        PROVE  Both(T)
    <3>1. IsFiniteSet(T) /\ T # {}
      BY <1>1, <2>1, FS_EmptySet
    <3>2. PICK x \in T : TRUE
      BY <3>1
    <3>3. Cardinality(T \ {x}) = n + 1
      <4>1. Cardinality(T \ {x}) = Cardinality(T) - 1
        BY <3>1, <3>2, FS_RemoveElement
      <4> QED  BY <2>1, <4>1
    <3>4. Both(T \ {x})
      BY <1>3, <3>3
    <3>5. PICK a \in T \ {x} : \A e \in T \ {x} : f[a] <= f[e]
      BY <3>4
    <3>6. PICK b \in T \ {x} : \A e \in T \ {x} : f[b] >= f[e]
      BY <3>4
    <3>7. \A e \in T : f[e] \in Int
      OBVIOUS
    <3>8. \E d \in T : \A e \in T : f[d] <= f[e]
      <4>1. CASE f[a] <= f[x]
        BY <3>5, <4>1
      <4>2. CASE f[x] < f[a]
        BY <3>2, <3>5, <3>7, <4>2
      <4> QED  BY <3>2, <3>5, <3>7, <4>1, <4>2
    <3>9. \E d \in T : \A e \in T : f[d] >= f[e]
      <4>1. CASE f[b] >= f[x]
        BY <3>6, <4>1
      <4>2. CASE f[x] > f[b]
        BY <3>2, <3>6, <3>7, <4>2
      <4> QED  BY <3>2, <3>6, <3>7, <4>1, <4>2
    <3> QED  BY <3>8, <3>9
  <2> HIDE DEF Both
  <2> QED  BY <2>1
<1>4. Cardinality(S) \in Nat /\ Cardinality(S) # 0
  BY <1>1, FS_EmptySet, FS_CardinalityType
<1>5. PICK n \in Nat : Cardinality(S) = n + 1
  <2>1. Cardinality(S) - 1 \in Nat /\ Cardinality(S) = (Cardinality(S) - 1) + 1
    BY <1>4
  <2> QED  BY <2>1
<1> HIDE DEF Good
<1>6. n \in Good
  <2>1. \A k \in 0..(n - 1) : k \in Good => k + 1 \in Good
    BY <1>3
  <2>2. 0..n \subseteq Good
    BY <1>2, <2>1, UpTo
  <2> QED  BY <2>2
<1> QED  BY <1>5, <1>6 DEF Good

\* What a snapshot is.
Snapshot == [Card -> Row]

(* The positions of a snapshot. *)
LEMMA RowIs ==
    ASSUME NEW s \in Snapshot
    PROVE  \A c \in Card : /\ s[c].at \in Int /\ s[c].scale \in Nat
                           /\ s[c].col \in Column \cup {None}
                           /\ s[c] = Gone <=> s[c].col = None
                           /\ s[c].col \in Column <=> s[c] # Gone
BY NoneIsNothing DEF Snapshot, Row, Gone

(* Lowest is a row of the set, and none is below it. *)
LEMMA LowestIs ==
    ASSUME NEW s \in Snapshot, NEW S \in SUBSET Card, S # {}
    PROVE  \E d \in S : Lowest(s, S) = s[d] /\ \A e \in S : s[d].at <= s[e].at
<1> DEFINE f == [c \in Card |-> s[c].at]
<1>1. f \in [Card -> Int]
  BY RowIs
<1> HIDE DEF f
<1>2. \E d \in S : \A e \in S : f[d] <= f[e]
  BY <1>1, Extremes
<1>3. \E d \in S : \A e \in S : s[d].at <= s[e].at
  BY <1>2 DEF f
<1> QED  BY <1>3 DEF Lowest

(* The same of Highest. *)
LEMMA HighestIs ==
    ASSUME NEW s \in Snapshot, NEW S \in SUBSET Card, S # {}
    PROVE  \E d \in S : Highest(s, S) = s[d] /\ \A e \in S : s[d].at >= s[e].at
<1> DEFINE f == [c \in Card |-> s[c].at]
<1>1. f \in [Card -> Int]
  BY RowIs
<1> HIDE DEF f
<1>2. \E d \in S : \A e \in S : f[d] >= f[e]
  BY <1>1, Extremes
<1>3. \E d \in S : \A e \in S : s[d].at >= s[e].at
  BY <1>2 DEF f
<1> QED  BY <1>3 DEF Highest

-----------------------------------------------------------------------------
(* The ranks that halving makes. *)

IsPower(g, k) ==
    /\ g \in [0..k -> Nat \ {0}]
    /\ g = [n \in 0..k |-> IF n = 0 THEN 1 ELSE 2 * g[n - 1]]

(* Power is what its recursion says. *)
LEMMA PowerIs == IsPower(Power, MaxScale + 1)
<1> DEFINE T == {k \in 0..(MaxScale + 1) : \E g : IsPower(g, k)}
<1>1. 0 \in T
  <2>1. IsPower([n \in 0..0 |-> 1], 0)
    BY DEF IsPower
  <2> QED  BY <2>1, MaxScaleNat
<1>2. ASSUME NEW k \in 0..MaxScale, k \in T
      PROVE  k + 1 \in T
  <2>1. PICK g : IsPower(g, k)
    BY <1>2
  <2> DEFINE h == [n \in 0..(k + 1) |-> IF n = k + 1 THEN 2 * g[k] ELSE g[n]]
  <2>2. h \in [0..(k + 1) -> Nat \ {0}]
    BY <2>1, MaxScaleNat DEF IsPower
  <2>3. ASSUME NEW n \in 0..(k + 1)
        PROVE  h[n] = IF n = 0 THEN 1 ELSE 2 * h[n - 1]
    <3>1. CASE n = k + 1
      BY <3>1, MaxScaleNat
    <3>2. CASE n # k + 1
      <4>1. n \in 0..k /\ (n # 0 => n - 1 \in 0..k)
        BY <3>2, MaxScaleNat
      <4>2. g[n] = IF n = 0 THEN 1 ELSE 2 * g[n - 1]
        BY <2>1, <4>1 DEF IsPower
      <4> QED BY <3>2, <4>1, <4>2, MaxScaleNat
    <3> QED  BY <3>1, <3>2
  <2>4. IsPower(h, k + 1)
    BY <2>2, <2>3 DEF IsPower
  <2> QED  BY <2>4, MaxScaleNat
<1>3. MaxScale + 1 \in T
  <2> HIDE DEF T
  <2>1. MaxScale + 1 \in Nat /\ (MaxScale + 1) - 1 = MaxScale
    BY MaxScaleNat
  <2>2. 0..(MaxScale + 1) \subseteq T
    BY <1>1, <1>2, <2>1, UpTo
  <2> QED  BY <2>1, <2>2
<1>4. PICK g : IsPower(g, MaxScale + 1)
  BY <1>3
<1>5. \E f : f = [n \in 0..(MaxScale + 1) |-> IF n = 0 THEN 1 ELSE 2 * f[n - 1]]
  BY <1>4 DEF IsPower
<1>6. Power = [n \in 0..(MaxScale + 1) |-> IF n = 0 THEN 1 ELSE 2 * Power[n - 1]]
  BY <1>5 DEF Power
<1>7. Power \in [0..(MaxScale + 1) -> Nat \ {0}]
  <2> DEFINE U == {n \in 0..(MaxScale + 1) : Power[n] \in Nat \ {0}}
  <2>1. 0 \in U
    BY <1>6, MaxScaleNat
  <2>2. ASSUME NEW n \in 0..MaxScale, n \in U
        PROVE  n + 1 \in U
    <3>1. n + 1 \in 0..(MaxScale + 1) /\ n + 1 # 0 /\ (n + 1) - 1 = n
      BY MaxScaleNat
    <3>2. Power[n + 1] = 2 * Power[n]
      BY <1>6, <3>1
    <3> QED  BY <2>2, <3>1, <3>2
  <2> HIDE DEF U
  <2>3. MaxScale + 1 \in Nat /\ (MaxScale + 1) - 1 = MaxScale
    BY MaxScaleNat
  <2>4. 0..(MaxScale + 1) \subseteq U
    BY <2>1, <2>2, <2>3, UpTo
  <2> QED  BY <1>6, <2>4 DEF U
<1> QED  BY <1>6, <1>7 DEF IsPower

(* What two ranks of a renumbered column are apart. *)
LEMMA UnitIs == Unit \in Nat \ {0}
BY PowerIs, MaxScaleNat DEF Unit, IsPower

\* The ranks of scale s: the multiples of what it can tell apart.
Grain(s) == Power[MaxScale + 1 - s]
Grid(s) == {m * Grain(s) : m \in Int}

(* One digit more halves the step. *)
LEMMA GrainHalves ==
    ASSUME NEW s \in 0..MaxScale
    PROVE  Grain(s) \in Nat /\ Grain(s + 1) \in Nat \ {0} /\ Grain(s) = 2 * Grain(s + 1)
<1>1. PICK n \in 1..(MaxScale + 1) : n = MaxScale + 1 - s
  BY MaxScaleNat
<1>2. MaxScale + 1 - (s + 1) = n - 1 /\ n \in 0..(MaxScale + 1) /\ n - 1 \in 0..(MaxScale + 1)
  BY <1>1, MaxScaleNat
<1>3. Power[n] = 2 * Power[n - 1] /\ Power[n] \in Nat /\ Power[n - 1] \in Nat \ {0}
  BY <1>1, <1>2, PowerIs DEF IsPower
<1> QED  BY <1>1, <1>2, <1>3 DEF Grain

(* A rank of some scale is one of the next, *)
LEMMA GridGrows ==
    ASSUME NEW s \in 0..MaxScale, NEW x \in Grid(s)
    PROVE  x \in Grid(s + 1)
<1>1. PICK m \in Int : x = m * Grain(s)
  BY DEF Grid
<1>2. PICK g \in Nat : Grain(s + 1) = g /\ Grain(s) = 2 * g
  BY GrainHalves
<1>3. x = (2 * m) * g /\ 2 * m \in Int
  BY <1>1, <1>2
<1> QED  BY <1>2, <1>3 DEF Grid

(* and of every larger one. *)
LEMMA GridWithin ==
    ASSUME NEW s \in Nat, NEW u \in Nat, s <= u, u <= MaxScale + 1, NEW x \in Grid(s)
    PROVE  x \in Grid(u)
<1> DEFINE T == {n \in 0..(u - s) : x \in Grid(s + n)}
<1>1. 0 \in T
  OBVIOUS
<1>2. ASSUME NEW n \in 0..(u - s - 1), n \in T
      PROVE  n + 1 \in T
  <2>1. s + n \in 0..MaxScale /\ s + (n + 1) = (s + n) + 1 /\ n + 1 \in 0..(u - s)
    BY MaxScaleNat
  <2>2. x \in Grid((s + n) + 1)
    BY <1>2, <2>1, GridGrows
  <2> QED  BY <2>1, <2>2
<1>3. u - s \in Nat /\ s + (u - s) = u
  OBVIOUS
<1> HIDE DEF T
<1>4. 0..(u - s) \subseteq T
  BY <1>1, <1>2, <1>3, UpTo
<1>5. u - s \in T
  BY <1>3, <1>4
<1> QED  BY <1>3, <1>5 DEF T

(* Ranks of one scale stay so when Unit is added or taken off. *)
LEMMA GridIs ==
    ASSUME NEW s \in 0..(MaxScale + 1)
    PROVE  /\ Grid(s) \subseteq Int
           /\ \A n \in Int : Unit * n \in Grid(s)
           /\ \A x \in Grid(s) : x + Unit \in Grid(s) /\ x - Unit \in Grid(s)
<1>1. Grain(s) \in Nat
  <2>1. MaxScale + 1 - s \in 0..(MaxScale + 1)
    BY MaxScaleNat
  <2> QED  BY <2>1, PowerIs DEF Grain, IsPower
<1>2. ASSUME NEW n \in Int
      PROVE  Unit * n \in Grid(s)
  <2>1. Unit * n = n * Grain(0) /\ n * Grain(0) \in Grid(0)
    BY UnitIs, MaxScaleNat DEF Unit, Grain, Grid
  <2> QED  BY <2>1, GridWithin, MaxScaleNat
<1>3. ASSUME NEW x \in Grid(s)
      PROVE  x + Unit \in Grid(s) /\ x - Unit \in Grid(s)
  <2>1. Unit \in Grid(s)
    BY <1>2, UnitIs
  <2>2. PICK m \in Int : x = m * Grain(s)
    BY DEF Grid
  <2>3. PICK n \in Int : Unit = n * Grain(s)
    BY <2>1 DEF Grid
  <2>4. PICK g \in Int : g = Grain(s)
    BY <1>1
  <2>5. x + Unit = (m + n) * g /\ x - Unit = (m - n) * g /\ m + n \in Int /\ m - n \in Int
    BY <2>2, <2>3, <2>4
  <2> QED  BY <2>4, <2>5 DEF Grid
<1> QED  BY <1>1, <1>2, <1>3 DEF Grid

(* The rank half way between two of one scale lies between them, and takes one digit more. *)
LEMMA Midpoint ==
    ASSUME NEW s \in 0..MaxScale, NEW x \in Grid(s), NEW y \in Grid(s), x < y,
           NEW mid, mid = (x + y) \div 2
    PROVE  mid \in Grid(s + 1) /\ x < mid /\ mid < y
<1>1. PICK m \in Int : x = m * Grain(s)
  BY DEF Grid
<1>2. PICK n \in Int : y = n * Grain(s)
  BY DEF Grid
<1>3. PICK g \in Nat \ {0} : Grain(s + 1) = g /\ Grain(s) = 2 * g
  BY GrainHalves
<1>4. x = m * (2 * g) /\ y = n * (2 * g)
  BY <1>1, <1>2, <1>3
<1>5. x = 2 * (m * g) /\ y = 2 * (n * g) /\ m * g \in Int /\ n * g \in Int
      /\ (m + n) * g = m * g + n * g
  BY <1>4
<1>6. PICK p \in Int, q \in Int : p = m * g /\ q = n * g
  BY <1>5
<1>7. x = 2 * p /\ y = 2 * q /\ (m + n) * g = p + q
  BY <1>5, <1>6
<1>8. mid = p + q /\ x < p + q /\ p + q < y
  BY <1>7
<1>9. (m + n) * g \in Grid(s + 1)
  <2>1. PICK w \in Int : w = m + n
    OBVIOUS
  <2>2. w * Grain(s + 1) \in Grid(s + 1)
    BY DEF Grid
  <2> QED  BY <1>3, <2>1, <2>2
<1>10. p + q \in Grid(s + 1)
  BY <1>7, <1>9
<1> QED  BY <1>8, <1>10

-----------------------------------------------------------------------------
(* Where a card is placed. *)

\* A rank whose position its scale can express.
OnGrid(v) == v.at \in Int /\ v.scale \in Nat /\ v.at \in Grid(v.scale)

\* The other cards of a column have ranks that can be halved, and are apart.
Spaced(s, S) ==
    /\ \A d \in S : s[d].scale <= MaxScale /\ OnGrid(s[d])
    /\ \A d, e \in S : d # e => s[d].at # s[e].at

\* The rank r is where the anchor a asks for: first, or directly behind a.
LandsIn(s, S, a, r) ==
    /\ a = None => \A d \in S : r < s[d].at
    /\ a \in S => /\ s[a].at < r
                  /\ \A d \in S : s[a].at < s[d].at => r < s[d].at

(* MoveCard's CASE places a card where it was asked to be, on nobody's rank. *)
LEMMA PlacedLands ==
    ASSUME NEW s \in Snapshot, NEW c \in Card, NEW k \in Column, NEW a \in Card \cup {None},
           Spaced(s, Siblings(s, k, c)), a = None \/ a \in Siblings(s, k, c),
           NEW r, r = Placed(s, c, k, a)
    PROVE  /\ r \in Rank /\ r.scale <= MaxScale + 1 /\ OnGrid(r)
           /\ LandsIn(s, Siblings(s, k, c), a, r.at)
           /\ \A d \in Siblings(s, k, c) : s[d].at # r.at
<1> DEFINE S == Siblings(s, k, c)
           above == {d \in S : a = None \/ s[d].at > s[a].at}
           upper == Lowest(s, above)
<1>1. S \subseteq Card /\ above \subseteq S /\ None \notin Card /\ above \in SUBSET Card
  BY NoneIsNothing DEF Siblings
<1>2. \A d \in S : s[d].at \in Int /\ s[d].scale \in Nat /\ s[d].scale <= MaxScale
                   /\ s[d].at \in Grid(s[d].scale)
  BY <1>1, RowIs DEF Spaced, OnGrid
<1>3. above # {} => \E d \in above : upper = s[d] /\ \A e \in above : s[d].at <= s[e].at
  BY <1>1, LowestIs
<1>4. r = IF a = None
          THEN IF above = {} THEN [at |-> Unit, scale |-> 0]
               ELSE [at |-> upper.at - Unit, scale |-> upper.scale]
          ELSE IF above = {} THEN [at |-> s[a].at + Unit, scale |-> s[a].scale]
               ELSE [at |-> (s[a].at + upper.at) \div 2,
                     scale |-> Larger(s[a].scale, upper.scale) + 1]
  BY DEF Placed
<1> HIDE DEF S, upper
<1>5. CASE a = None /\ above = {}
  <2>1. r.at = Unit /\ r.scale = 0 /\ r = [at |-> Unit, scale |-> 0]
    BY <1>4, <1>5
  <2>2. Unit * 1 \in Grid(0) /\ Unit * 1 = Unit
    BY GridIs, UnitIs, MaxScaleNat
  <2>3. S = {}
    BY <1>5
  <2> QED  BY <1>1, <2>1, <2>2, <2>3, UnitIs, MaxScaleNat DEF S, Rank, OnGrid, LandsIn
<1>6. CASE a = None /\ above # {}
  <2>1. PICK d \in S : upper = s[d] /\ \A e \in S : s[d].at <= s[e].at
    BY <1>3, <1>6
  <2>2. r = [at |-> s[d].at - Unit, scale |-> s[d].scale]
    BY <1>4, <1>6, <2>1
  <2>3. s[d].at - Unit \in Grid(s[d].scale)
    BY <1>2, GridIs, MaxScaleNat
  <2>4. \A e \in S : s[d].at - Unit < s[e].at
    BY <1>2, <2>1, UnitIs
  <2>5. r.at = s[d].at - Unit /\ r.scale = s[d].scale /\ r \in Rank
    BY <1>2, <2>2, UnitIs DEF Rank
  <2>6. r.at \in Int /\ r.scale \in Nat /\ r.scale <= MaxScale + 1
    BY <1>2, <2>5, UnitIs, MaxScaleNat
  <2>7. \A e \in S : r.at < s[e].at /\ s[e].at # r.at
    BY <1>2, <2>4, <2>5, <2>6
  <2> QED  BY <1>1, <1>6, <2>3, <2>5, <2>6, <2>7 DEF S, OnGrid, LandsIn
<1>7. CASE a # None /\ above = {}
  <2>1. r = [at |-> s[a].at + Unit, scale |-> s[a].scale] /\ a \in S
    BY <1>4, <1>7 DEF S
  <2>2. s[a].at + Unit \in Grid(s[a].scale)
    BY <1>2, <2>1, GridIs, MaxScaleNat
  <2>3. \A e \in S : s[e].at <= s[a].at
    BY <1>2, <1>7, <2>1
  <2>4. r.at = s[a].at + Unit /\ r.scale = s[a].scale /\ r \in Rank
    BY <1>2, <2>1, UnitIs DEF Rank
  <2>5. r.at \in Int /\ r.scale \in Nat /\ r.scale <= MaxScale + 1
    BY <1>2, <2>1, <2>4, UnitIs, MaxScaleNat
  <2>6. s[a].at < r.at /\ \A e \in S : s[e].at < r.at /\ s[e].at # r.at /\ ~ (s[a].at < s[e].at)
    BY <1>2, <2>1, <2>3, <2>4, UnitIs
  <2> QED  BY <1>7, <2>2, <2>4, <2>5, <2>6 DEF S, OnGrid, LandsIn
<1>8. CASE a # None /\ above # {}
  <2>1. PICK d \in above : upper = s[d] /\ \A e \in above : s[d].at <= s[e].at
    BY <1>3, <1>8
  <2>2. a \in S /\ d \in S /\ s[a].at < s[d].at
    BY <1>2, <1>8, <2>1 DEF S
  <2> DEFINE n == Larger(s[a].scale, s[d].scale)
  <2>3. n \in 0..MaxScale /\ n + 1 \in Nat /\ s[a].scale <= n /\ s[d].scale <= n
    BY <1>2, <2>2, MaxScaleNat DEF Larger
  <2>4. r = [at |-> (s[a].at + s[d].at) \div 2, scale |-> n + 1]
    BY <1>4, <1>8, <2>1
  <2> HIDE DEF n
  <2>5. s[a].at \in Grid(n) /\ s[d].at \in Grid(n)
    BY <1>2, <2>2, <2>3, GridWithin, MaxScaleNat
  <2>6. r.at = (s[a].at + s[d].at) \div 2 /\ r.scale = n + 1
    BY <2>4
  <2>7. r.at \in Grid(n + 1) /\ s[a].at < r.at /\ r.at < s[d].at
    BY <2>2, <2>3, <2>5, <2>6, Midpoint
  <2>8. r.at \in Int /\ r \in Rank /\ r.scale \in Nat /\ r.scale <= MaxScale + 1
    <3>1. n + 1 \in 0..(MaxScale + 1)
      BY <2>3, MaxScaleNat
    <3>2. r.at \in Int
      BY <2>7, <3>1, GridIs
    <3> QED  BY <2>3, <2>4, <2>6, <3>1, <3>2 DEF Rank
  <2>9. \A e \in S : /\ s[a].at < s[e].at => r.at < s[e].at
                     /\ s[e].at # r.at
    <3>1. SUFFICES ASSUME NEW e \in S
                   PROVE  (s[a].at < s[e].at => r.at < s[e].at) /\ s[e].at # r.at
      OBVIOUS
    <3>2. s[a].at < s[e].at => s[d].at <= s[e].at
      BY <1>2, <2>1, <2>2, <3>1
    <3> QED  BY <1>2, <2>2, <2>7, <2>8, <3>1, <3>2
  <2> QED  BY <1>8, <2>6, <2>7, <2>8, <2>9 DEF S, OnGrid, LandsIn
<1> QED  BY <1>5, <1>6, <1>7, <1>8

-----------------------------------------------------------------------------
(* The transactions. *)

TxnOK ==
    /\ locked \in [Column -> Txn \cup {None}]
    /\ pc \in [Txn -> Labels]
    /\ job \in [Txn -> Job]
    /\ rank \in [Txn -> Rank]
    /\ DOMAIN pending = Txn /\ DOMAIN renumber = Txn
    /\ \A t \in Txn : /\ DOMAIN pending[t] \subseteq Card
                      /\ pending[t] \in [DOMAIN pending[t] -> Row]
                      /\ DOMAIN renumber[t] \subseteq Card
                      /\ renumber[t] \in [DOMAIN renumber[t] -> Nat]

TypeOK == row \in Snapshot /\ TxnOK

Placing(t) == job[t].op \in {"move", "create"}

\* What each statement is part of, and what has been written by then.
Stage(t) ==
    /\ pc[t] \in {"idle", "ended"} => job[t] = NoJob
    /\ pc[t] \in {"moveRead", "moveWrite", "rebalanceRead", "rebalanceWrite"}
         => job[t].op = "move"
    /\ pc[t] = "insert" => job[t].op = "create"
    /\ pc[t] = "commit" => job[t].op # "none"
    /\ job[t].op # "none" => job[t].card \in Card
    /\ pc[t] \notin {"rebalanceRead", "rebalanceWrite", "commit"} => DOMAIN pending[t] = {}
    /\ pc[t] # "rebalanceWrite" => DOMAIN renumber[t] = {}

\* Who places a card holds its column, from the first statement to the end.
Holds(t) == Placing(t) => job[t].col \in Column /\ locked[job[t].col] = t

Staged == \A t \in Txn : Stage(t) /\ Holds(t)

\* A step of t: what the others have read and written, and their locks, stay.
Alone(t) ==
    /\ \A u \in Txn \ {t} : /\ pending'[u] = pending[u] /\ pc'[u] = pc[u] /\ job'[u] = job[u]
                            /\ rank'[u] = rank[u] /\ renumber'[u] = renumber[u]
    /\ \A k \in Column : locked[k] \in Txn \ {t} => locked'[k] = locked[k]

(* What a step of t leaves to be said is of t. *)
LEMMA AloneStaged ==
    ASSUME Staged, NEW t \in Txn, Alone(t), Stage(t)', Holds(t)'
    PROVE  Staged'
<1>1. ASSUME NEW u \in Txn \ {t}
      PROVE  Stage(u)' /\ Holds(u)'
  <2>1. Stage(u) /\ Holds(u)
    BY DEF Staged
  <2>2. Stage(u)'
    BY <2>1 DEF Stage, Alone
  <2>3. Holds(u)'
    BY <2>1 DEF Holds, Placing, Alone
  <2> QED  BY <2>2, <2>3
<1> QED  BY <1>1 DEF Staged

(* Write adds one version to what t has written. *)
LEMMA WriteIs ==
    ASSUME TypeOK, NEW t \in Txn, NEW c \in Card, NEW v \in Row, Write(t, c, v)
    PROVE  /\ DOMAIN pending' = Txn /\ \A u \in Txn \ {t} : pending'[u] = pending[u]
           /\ DOMAIN pending'[t] = DOMAIN pending[t] \cup {c}
           /\ pending'[t][c] = v
           /\ \A d \in DOMAIN pending[t] \ {c} : pending'[t][d] = pending[t][d]
           /\ \A u \in Txn : /\ DOMAIN pending'[u] \subseteq Card
                             /\ pending'[u] \in [DOMAIN pending'[u] -> Row]
<1> DEFINE w == [d \in DOMAIN pending[t] \cup {c} |-> IF d = c THEN v ELSE pending[t][d]]
<1>1. pending' = [pending EXCEPT ![t] = w]
  BY DEF Write
<1>2. /\ DOMAIN pending = Txn /\ DOMAIN pending[t] \subseteq Card
      /\ \A u \in Txn : /\ DOMAIN pending[u] \subseteq Card
                        /\ pending[u] \in [DOMAIN pending[u] -> Row]
  BY DEF TypeOK, TxnOK
<1>3. /\ DOMAIN w = DOMAIN pending[t] \cup {c} /\ w[c] = v
      /\ \A d \in DOMAIN pending[t] \ {c} : w[d] = pending[t][d]
      /\ w \in [DOMAIN w -> Row] /\ DOMAIN w \subseteq Card
  BY <1>2
<1> HIDE DEF w
<1>4. DOMAIN pending' = Txn /\ pending'[t] = w /\ \A u \in Txn \ {t} : pending'[u] = pending[u]
  BY <1>1, <1>2
<1> QED  BY <1>2, <1>3, <1>4

(* End: nothing of t is left but that it has ended. *)
LEMMA EndIs ==
    ASSUME TypeOK, NEW t \in Txn, End(t)
    PROVE  /\ TxnOK' /\ Alone(t) /\ Stage(t)' /\ Holds(t)'
           /\ job'[t] = NoJob /\ pc'[t] = "ended"
           /\ DOMAIN pending'[t] = {} /\ DOMAIN renumber'[t] = {}
<1>1. /\ pc' = [pc EXCEPT ![t] = "ended"] /\ pending' = [pending EXCEPT ![t] = Nowhere]
      /\ locked' = [k \in Column |-> IF locked[k] = t THEN None ELSE locked[k]]
      /\ renumber' = [renumber EXCEPT ![t] = Nowhere]
      /\ job' = [job EXCEPT ![t] = NoJob] /\ rank' = [rank EXCEPT ![t] = NoRank]
  BY DEF End, Goto
<1>2. DOMAIN Nowhere = {} /\ Nowhere \in [{} -> Row] /\ Nowhere \in [{} -> Nat]
  BY DEF Nowhere
<1>3. /\ NoJob \in Job /\ NoRank \in Rank /\ "ended" \in Labels
      /\ NoJob.op = "none"
  BY DEF NoJob, Job, NoRank, Rank, Labels
<1>4. /\ DOMAIN pending = Txn /\ DOMAIN renumber = Txn /\ pc \in [Txn -> Labels]
      /\ job \in [Txn -> Job] /\ rank \in [Txn -> Rank] /\ locked \in [Column -> Txn \cup {None}]
      /\ \A u \in Txn : /\ DOMAIN pending[u] \subseteq Card
                        /\ pending[u] \in [DOMAIN pending[u] -> Row]
                        /\ DOMAIN renumber[u] \subseteq Card
                        /\ renumber[u] \in [DOMAIN renumber[u] -> Nat]
  BY DEF TypeOK, TxnOK
<1>5. /\ job'[t] = NoJob /\ pc'[t] = "ended" /\ pending'[t] = Nowhere /\ renumber'[t] = Nowhere
      /\ \A u \in Txn \ {t} : /\ pending'[u] = pending[u] /\ pc'[u] = pc[u] /\ job'[u] = job[u]
                              /\ rank'[u] = rank[u] /\ renumber'[u] = renumber[u]
  BY <1>1, <1>4
<1>6. locked' \in [Column -> Txn \cup {None}] /\ pc' \in [Txn -> Labels]
      /\ job' \in [Txn -> Job] /\ rank' \in [Txn -> Rank]
      /\ DOMAIN pending' = Txn /\ DOMAIN renumber' = Txn
  BY <1>1, <1>3, <1>4
<1>7. TxnOK'
  <2>1. ASSUME NEW u \in Txn
        PROVE  /\ DOMAIN pending'[u] \subseteq Card
               /\ pending'[u] \in [DOMAIN pending'[u] -> Row]
               /\ DOMAIN renumber'[u] \subseteq Card
               /\ renumber'[u] \in [DOMAIN renumber'[u] -> Nat]
    <3>1. CASE u = t
      BY <1>2, <1>5, <3>1
    <3>2. CASE u # t
      BY <1>4, <1>5, <3>2
    <3> QED  BY <3>1, <3>2
  <2> QED  BY <1>6, <2>1 DEF TxnOK
<1>8. Alone(t)
  <2>1. \A k \in Column : locked[k] \in Txn \ {t} => locked'[k] = locked[k]
    BY <1>1
  <2> QED  BY <1>5, <2>1 DEF Alone
<1>9. Stage(t)' /\ Holds(t)'
  BY <1>2, <1>3, <1>5 DEF Stage, Holds, Placing
<1> QED  BY <1>2, <1>5, <1>7, <1>8, <1>9

-----------------------------------------------------------------------------
(* What every step keeps, whatever the ranks. *)

Sound == TypeOK /\ Staged

Keeps(t) == TypeOK' /\ Alone(t) /\ Stage(t)' /\ Holds(t)'

(* A snapshot is of rows. *)
LEMMA SeesIs ==
    ASSUME TypeOK, NEW t \in Txn
    PROVE  /\ Sees(t) \in Snapshot
           /\ \A c \in Card : Sees(t)[c] = IF c \in DOMAIN pending[t] THEN pending[t][c] ELSE row[c]
BY DEF Sees, TypeOK, TxnOK, Snapshot

(* MoveCard's CASE gives a rank. *)
LEMMA PlacedIs ==
    ASSUME NEW s \in Snapshot, NEW c \in Card, NEW k \in Column, NEW a \in Card \cup {None}
    PROVE  Placed(s, c, k, a) \in Rank
<1> DEFINE S == Siblings(s, k, c)
           above == {d \in S : a = None \/ s[d].at > s[a].at}
           upper == Lowest(s, above)
           r == Placed(s, c, k, a)
<1>1. above \in SUBSET Card
  BY DEF Siblings
<1>2. above # {} => upper.at \in Int /\ upper.scale \in Nat
  <2>1. above # {} => \E d \in above : upper = s[d]
    BY <1>1, LowestIs
  <2> QED  BY <1>1, <2>1, RowIs
<1>3. a # None => s[a].at \in Int /\ s[a].scale \in Nat
  BY RowIs
<1>4. r = IF a = None
          THEN IF above = {} THEN [at |-> Unit, scale |-> 0]
               ELSE [at |-> upper.at - Unit, scale |-> upper.scale]
          ELSE IF above = {} THEN [at |-> s[a].at + Unit, scale |-> s[a].scale]
               ELSE [at |-> (s[a].at + upper.at) \div 2,
                     scale |-> Larger(s[a].scale, upper.scale) + 1]
  BY DEF Placed
<1> HIDE DEF above, upper, r, S
<1>5. CASE a = None /\ above = {}
  BY <1>4, <1>5, UnitIs DEF Rank, r
<1>6. CASE a = None /\ above # {}
  BY <1>2, <1>4, <1>6, UnitIs DEF Rank, r
<1>7. CASE a # None /\ above = {}
  BY <1>3, <1>4, <1>7, UnitIs DEF Rank, r
<1>8. CASE a # None /\ above # {}
  BY <1>2, <1>3, <1>4, <1>8 DEF Rank, Larger, r
<1> QED  BY <1>5, <1>6, <1>7, <1>8

(* A transaction begins. *)
LEMMA BeginKeeps ==
    ASSUME Sound, NEW t \in Txn, NEW k \in Column, NEW label, NEW j \in Job,
           j.col = k, j.card \in Card,
           \/ label = "moveRead" /\ j.op = "move"
           \/ label = "insert" /\ j.op = "create",
           LockColumn(t, k, label), job' = [job EXCEPT ![t] = j]
    PROVE  Keeps(t) /\ job'[t] = j /\ pc'[t] = label /\ row' = row /\ pending' = pending
<1>1. /\ pc[t] = "idle" /\ locked[k] = None /\ pc' = [pc EXCEPT ![t] = label]
      /\ locked' = [locked EXCEPT ![k] = t]
      /\ row' = row /\ pending' = pending /\ rank' = rank /\ renumber' = renumber
  BY DEF LockColumn, Goto
<1>2. TypeOK /\ TxnOK /\ Stage(t)
  BY DEF Sound, TypeOK, Staged
<1>3. /\ pc \in [Txn -> Labels] /\ job \in [Txn -> Job] /\ locked \in [Column -> Txn \cup {None}]
      /\ label \in Labels
  BY <1>2 DEF TxnOK, Labels
<1>4. /\ pc' \in [Txn -> Labels] /\ job' \in [Txn -> Job]
      /\ locked' \in [Column -> Txn \cup {None}]
      /\ pc'[t] = label /\ job'[t] = j /\ locked'[k] = t
      /\ \A u \in Txn \ {t} : pc'[u] = pc[u] /\ job'[u] = job[u]
      /\ \A l \in Column : locked[l] # None => locked'[l] = locked[l]
  BY <1>1, <1>3
<1>5. TypeOK'
  BY <1>1, <1>2, <1>4 DEF TypeOK, TxnOK
<1>6. Alone(t)
  BY <1>1, <1>4, NoneIsNothing DEF Alone
<1>7. Stage(t)'
  BY <1>1, <1>2, <1>4 DEF Stage
<1>8. Holds(t)'
  BY <1>4 DEF Holds
<1> QED  BY <1>1, <1>4, <1>5, <1>6, <1>7, <1>8 DEF Keeps

(* A statement that writes no row: what t computes, and where it goes. *)
LEMMA ComputeKeeps ==
    ASSUME Sound, NEW t \in Txn, NEW label \in Labels,
           pc' = [pc EXCEPT ![t] = label], UNCHANGED <<row, pending, locked, job>>,
           rank' \in [Txn -> Rank], \A u \in Txn \ {t} : rank'[u] = rank[u],
           DOMAIN renumber' = Txn, \A u \in Txn \ {t} : renumber'[u] = renumber[u],
           DOMAIN renumber'[t] \subseteq Card,
           renumber'[t] \in [DOMAIN renumber'[t] -> Nat],
           \/ label = "moveWrite" /\ job[t].op = "move" /\ DOMAIN pending[t] = {}
           \/ label \in {"rebalanceWrite", "commit"} /\ job[t].op = "move",
           label # "rebalanceWrite" => DOMAIN renumber'[t] = {}
    PROVE  Keeps(t) /\ pc'[t] = label
<1>1. row' = row /\ pending' = pending /\ locked' = locked /\ job' = job
  OBVIOUS
<1>2. TypeOK /\ TxnOK /\ Stage(t) /\ Holds(t)
  BY DEF Sound, TypeOK, Staged
<1>3. pc' \in [Txn -> Labels] /\ pc'[t] = label /\ \A u \in Txn \ {t} : pc'[u] = pc[u]
  BY <1>2 DEF TxnOK
<1>4. TypeOK'
  <2>1. ASSUME NEW u \in Txn
        PROVE  /\ DOMAIN renumber'[u] \subseteq Card
               /\ renumber'[u] \in [DOMAIN renumber'[u] -> Nat]
    BY <1>2 DEF TxnOK
  <2> QED  BY <1>1, <1>2, <1>3, <2>1 DEF TypeOK, TxnOK
<1>5. Alone(t)
  BY <1>1, <1>3 DEF Alone
<1>6. Stage(t)'
  BY <1>1, <1>2, <1>3 DEF Stage
<1>7. Holds(t)'
  BY <1>1, <1>2 DEF Holds, Placing
<1> QED  BY <1>3, <1>4, <1>5, <1>6, <1>7 DEF Keeps

(* A statement that writes one row. *)
LEMMA WriteKeeps ==
    ASSUME Sound, NEW t \in Txn, NEW c \in Card, NEW v \in Row, NEW label \in Labels,
           Write(t, c, v), pc' = [pc EXCEPT ![t] = label],
           UNCHANGED <<row, locked, rank>>,
           job' \in [Txn -> Job], \A u \in Txn \ {t} : job'[u] = job[u],
           DOMAIN renumber' = Txn, \A u \in Txn \ {t} : renumber'[u] = renumber[u],
           DOMAIN renumber'[t] \subseteq Card,
           renumber'[t] \in [DOMAIN renumber'[t] -> Nat],
           \/ /\ label \in {"rebalanceRead", "rebalanceWrite"}
              /\ job'[t] = job[t] /\ job[t].op = "move"
           \/ label = "commit" /\ job'[t] = job[t] /\ job[t].op # "none"
           \/ label = "commit" /\ job'[t].op = "delete" /\ job'[t].card \in Card,
           label # "rebalanceWrite" => DOMAIN renumber'[t] = {}
    PROVE  Keeps(t) /\ pc'[t] = label
<1>1. row' = row /\ locked' = locked /\ rank' = rank
  OBVIOUS
<1>2. TypeOK /\ TxnOK /\ Stage(t) /\ Holds(t)
  BY DEF Sound, TypeOK, Staged
<1>3. pc' \in [Txn -> Labels] /\ pc'[t] = label /\ \A u \in Txn \ {t} : pc'[u] = pc[u]
  BY <1>2 DEF TxnOK
<1>4. /\ DOMAIN pending' = Txn /\ \A u \in Txn \ {t} : pending'[u] = pending[u]
      /\ \A u \in Txn : /\ DOMAIN pending'[u] \subseteq Card
                        /\ pending'[u] \in [DOMAIN pending'[u] -> Row]
  BY <1>2, WriteIs
<1>5. TypeOK'
  <2>1. ASSUME NEW u \in Txn
        PROVE  /\ DOMAIN renumber'[u] \subseteq Card
               /\ renumber'[u] \in [DOMAIN renumber'[u] -> Nat]
    BY <1>2 DEF TxnOK
  <2> QED  BY <1>1, <1>2, <1>3, <1>4, <2>1 DEF TypeOK, TxnOK
<1>6. Alone(t)
  BY <1>1, <1>3, <1>4 DEF Alone
<1>7. Stage(t)'
  BY <1>2, <1>3 DEF Stage
<1>8. Holds(t)'
  BY <1>1, <1>2 DEF Holds, Placing
<1> QED  BY <1>3, <1>5, <1>6, <1>7, <1>8 DEF Keeps

(* Refuse, which every way out but the commit is. *)
LEMMA RefuseKeeps ==
    ASSUME Sound, NEW t \in Txn, Refuse(t)
    PROVE  Keeps(t)
<1>1. TypeOK /\ End(t) /\ row' = row
  BY DEF Sound, Refuse
<1> QED  BY <1>1, EndIs DEF Keeps, TypeOK

(* The statements, one by one. *)
LEMMA RequestKeeps ==
    ASSUME Sound, NEW t \in Txn, Request(t)
    PROVE  Keeps(t) /\ row' = row
<1>1. ASSUME NEW c \in Card, NEW k \in Column, BeginCreate(t, c, k)
      PROVE  Keeps(t) /\ row' = row
  <2> DEFINE j == [op |-> "create", card |-> c, col |-> k, anchor |-> None]
  <2>1. j \in Job /\ j.col = k /\ j.card \in Card /\ j.op = "create"
    BY DEF Job
  <2>2. LockColumn(t, k, "insert") /\ job' = [job EXCEPT ![t] = j]
    BY <1>1 DEF BeginCreate
  <2> HIDE DEF j
  <2> QED  BY <2>1, <2>2, BeginKeeps
<1>2. ASSUME NEW c \in Card, NEW k \in Column, NEW a \in Card \cup {None}, BeginMove(t, c, k, a)
      PROVE  Keeps(t) /\ row' = row
  <2> DEFINE j == [op |-> "move", card |-> c, col |-> k, anchor |-> a]
  <2>1. j \in Job /\ j.col = k /\ j.card \in Card /\ j.op = "move"
    BY DEF Job
  <2>2. LockColumn(t, k, "moveRead") /\ job' = [job EXCEPT ![t] = j]
    BY <1>2 DEF BeginMove
  <2> HIDE DEF j
  <2> QED  BY <2>1, <2>2, BeginKeeps
<1>3. ASSUME NEW c \in Card, DeleteCard(t, c)
      PROVE  Keeps(t) /\ row' = row
  <2> DEFINE j == [op |-> "delete", card |-> c, col |-> None, anchor |-> None]
  <2>1. j \in Job /\ j.card \in Card /\ j.op = "delete"
    BY DEF Job
  <2>2. /\ pc[t] = "idle" /\ job' = [job EXCEPT ![t] = j] /\ Write(t, c, Gone)
        /\ pc' = [pc EXCEPT ![t] = "commit"]
        /\ UNCHANGED <<row, locked, rank>> /\ renumber' = renumber
    BY <1>3 DEF DeleteCard, Goto
  <2> HIDE DEF j
  <2>3. /\ Gone \in Row /\ "commit" \in Labels
        /\ TypeOK /\ TxnOK /\ Stage(t)
    BY DEF Row, Labels, Sound, TypeOK, Staged
  <2>4. job' \in [Txn -> Job] /\ job'[t] = j /\ \A u \in Txn \ {t} : job'[u] = job[u]
    BY <2>1, <2>2, <2>3 DEF TxnOK
  <2>5. /\ DOMAIN renumber' = Txn /\ \A u \in Txn \ {t} : renumber'[u] = renumber[u]
        /\ DOMAIN renumber'[t] \subseteq Card
        /\ renumber'[t] \in [DOMAIN renumber'[t] -> Nat] /\ DOMAIN renumber'[t] = {}
    BY <2>2, <2>3 DEF TxnOK, Stage
  <2>6. row' = row
    BY <2>2
  <2>7. Keeps(t)
    BY <2>1, <2>2, <2>3, <2>4, <2>5, WriteKeeps
  <2> QED  BY <2>6, <2>7
<1> QED  BY <1>1, <1>2, <1>3 DEF Request

(* MoveRead writes no row. *)
LEMMA MoveReadKeeps ==
    ASSUME Sound, NEW t \in Txn, MoveRead(t)
    PROVE  Keeps(t)
<1>1. /\ TypeOK /\ TxnOK /\ Stage(t) /\ Holds(t) /\ pc[t] = "moveRead"
  BY DEF Sound, TypeOK, Staged, MoveRead
<1>2. CASE Refuse(t)
  BY <1>2, RefuseKeeps
<1>3. CASE ~Refuse(t)
  <2> DEFINE r == Placed(row, job[t].card, job[t].col, job[t].anchor)
  <2>1. /\ rank' = [rank EXCEPT ![t] = r] /\ pc' = [pc EXCEPT ![t] = "moveWrite"]
        /\ UNCHANGED <<row, pending, locked, job>> /\ renumber' = renumber
    BY <1>3 DEF MoveRead, Goto
  <2>2. r \in Rank
    <3>1. /\ job[t].op = "move" /\ job[t].card \in Card /\ job[t].col \in Column
          /\ job[t].anchor \in Card \cup {None} /\ row \in Snapshot
      BY <1>1 DEF Stage, Holds, Placing, TypeOK, TxnOK, Job
    <3> QED  BY <3>1, PlacedIs
  <2> HIDE DEF r
  <2>3. rank' \in [Txn -> Rank] /\ \A u \in Txn \ {t} : rank'[u] = rank[u]
    BY <1>1, <2>1, <2>2 DEF TxnOK
  <2>4. /\ DOMAIN renumber' = Txn /\ \A u \in Txn \ {t} : renumber'[u] = renumber[u]
        /\ DOMAIN renumber'[t] \subseteq Card
        /\ renumber'[t] \in [DOMAIN renumber'[t] -> Nat] /\ DOMAIN renumber'[t] = {}
    BY <1>1, <2>1 DEF TxnOK, Stage
  <2>5. job[t].op = "move" /\ DOMAIN pending[t] = {} /\ "moveWrite" \in Labels
    BY <1>1 DEF Stage, Labels
  <2> QED  BY <2>1, <2>3, <2>4, <2>5, ComputeKeeps
<1> QED  BY <1>2, <1>3

(* MoveWrite writes the card's. *)
LEMMA MoveWriteKeeps ==
    ASSUME Sound, NEW t \in Txn, MoveWrite(t)
    PROVE  Keeps(t)
<1>1. /\ TypeOK /\ TxnOK /\ Stage(t) /\ Holds(t) /\ pc[t] = "moveWrite"
  BY DEF Sound, TypeOK, Staged, MoveWrite
<1>2. CASE Refuse(t)
  BY <1>2, RefuseKeeps
<1>3. CASE ~Refuse(t)
  <2> DEFINE v == [col |-> job[t].col, at |-> rank[t].at, scale |-> rank[t].scale]
             label == IF rank[t].scale > MaxScale THEN "rebalanceRead" ELSE "commit"
  <2>1. /\ Write(t, job[t].card, v) /\ pc' = [pc EXCEPT ![t] = label]
        /\ UNCHANGED <<row, locked, rank>> /\ job' = job /\ renumber' = renumber
    BY <1>3 DEF MoveWrite, Goto
  <2>2. job[t].op = "move" /\ job[t].card \in Card /\ job[t].col \in Column /\ rank[t] \in Rank
    BY <1>1 DEF Stage, Holds, Placing, TxnOK
  <2>3. v \in Row
    BY <2>2 DEF Row, Rank
  <2>4. label \in {"rebalanceRead", "commit"} /\ label \in Labels
    BY DEF Labels
  <2> HIDE DEF v, label
  <2>5. job' \in [Txn -> Job] /\ job'[t] = job[t] /\ \A u \in Txn \ {t} : job'[u] = job[u]
    BY <1>1, <2>1 DEF TxnOK
  <2>6. /\ DOMAIN renumber' = Txn /\ \A u \in Txn \ {t} : renumber'[u] = renumber[u]
        /\ DOMAIN renumber'[t] \subseteq Card
        /\ renumber'[t] \in [DOMAIN renumber'[t] -> Nat] /\ DOMAIN renumber'[t] = {}
    BY <1>1, <2>1 DEF TxnOK, Stage
  <2> QED  BY <2>1, <2>2, <2>3, <2>4, <2>5, <2>6, WriteKeeps
<1> QED  BY <1>2, <1>3

(* So does InsertCard. *)
LEMMA InsertKeeps ==
    ASSUME Sound, NEW t \in Txn, InsertCard(t)
    PROVE  Keeps(t)
<1> DEFINE sibs == Siblings(row, job[t].col, job[t].card)
           last == IF sibs = {} THEN [at |-> 0, scale |-> 0] ELSE Highest(row, sibs)
           v == [col |-> job[t].col, at |-> last.at + Unit, scale |-> last.scale]
<1>1. /\ TypeOK /\ TxnOK /\ Stage(t) /\ Holds(t) /\ pc[t] = "insert"
  BY DEF Sound, TypeOK, Staged, InsertCard
<1>2. /\ Write(t, job[t].card, v) /\ pc' = [pc EXCEPT ![t] = "commit"]
      /\ UNCHANGED <<row, locked, rank>> /\ job' = job /\ renumber' = renumber
  BY DEF InsertCard, Goto
<1>3. job[t].op = "create" /\ job[t].card \in Card /\ job[t].col \in Column /\ row \in Snapshot
  BY <1>1 DEF Stage, Holds, Placing, TypeOK
<1>4. last.at \in Int /\ last.scale \in Nat
  <2>1. sibs \in SUBSET Card
    BY DEF Siblings
  <2> HIDE DEF sibs
  <2>2. CASE sibs = {}
    BY <2>2
  <2>3. CASE sibs # {}
    <3>1. \E d \in sibs : Highest(row, sibs) = row[d]
      BY <1>3, <2>1, <2>3, HighestIs
    <3> QED  BY <1>3, <2>1, <2>3, <3>1, RowIs
  <2> QED  BY <2>2, <2>3
<1> HIDE DEF last
<1>5. v \in Row
  BY <1>3, <1>4, UnitIs DEF Row
<1> HIDE DEF v
<1>6. job' \in [Txn -> Job] /\ job'[t] = job[t] /\ \A u \in Txn \ {t} : job'[u] = job[u]
  BY <1>1, <1>2 DEF TxnOK
<1>7. /\ DOMAIN renumber' = Txn /\ \A u \in Txn \ {t} : renumber'[u] = renumber[u]
      /\ DOMAIN renumber'[t] \subseteq Card
      /\ renumber'[t] \in [DOMAIN renumber'[t] -> Nat] /\ DOMAIN renumber'[t] = {}
  BY <1>1, <1>2 DEF TxnOK, Stage
<1>8. "commit" \in Labels
  BY DEF Labels
<1> QED  BY <1>2, <1>3, <1>5, <1>6, <1>7, <1>8, WriteKeeps

(* RebalanceRead numbers the column. *)
LEMMA RebalanceReadKeeps ==
    ASSUME Sound, NEW t \in Txn, RebalanceRead(t)
    PROVE  Keeps(t)
<1>1. /\ TypeOK /\ TxnOK /\ Stage(t) /\ Holds(t) /\ pc[t] = "rebalanceRead"
  BY DEF Sound, TypeOK, Staged, RebalanceRead
<1> DEFINE members == {c \in Card : Sees(t)[c].col = job[t].col}
<1>2. PICK f \in Numberings(Sees(t), members) : renumber' = [renumber EXCEPT ![t] = f]
  BY DEF RebalanceRead
<1>3. /\ pc' = [pc EXCEPT ![t] = "rebalanceWrite"]
      /\ UNCHANGED <<row, pending, locked, job>> /\ rank' = rank
  BY DEF RebalanceRead, Goto
<1>4. f \in [members -> Nat]
  <2>1. Cardinality(members) \in Nat
    BY CardFinite, FS_Subset, FS_CardinalityType
  <2> HIDE DEF members
  <2> QED  BY <2>1 DEF Numberings
<1>5. members \subseteq Card
  OBVIOUS
<1> HIDE DEF members
<1>6. /\ DOMAIN renumber' = Txn /\ \A u \in Txn \ {t} : renumber'[u] = renumber[u]
      /\ DOMAIN renumber'[t] \subseteq Card
      /\ renumber'[t] \in [DOMAIN renumber'[t] -> Nat]
  BY <1>1, <1>2, <1>4, <1>5 DEF TxnOK
<1>7. rank' \in [Txn -> Rank] /\ \A u \in Txn \ {t} : rank'[u] = rank[u]
  BY <1>1, <1>3 DEF TxnOK
<1>8. job[t].op = "move" /\ "rebalanceWrite" \in Labels
  BY <1>1 DEF Stage, Labels
<1> QED  BY <1>3, <1>6, <1>7, <1>8, ComputeKeeps

(* RebalanceWrite writes one of its rows, *)
LEMMA RebalanceWriteKeeps ==
    ASSUME Sound, NEW t \in Txn, NEW c \in Card, RebalanceWrite(t, c)
    PROVE  Keeps(t)
<1>1. /\ TypeOK /\ TxnOK /\ Stage(t) /\ Holds(t) /\ pc[t] = "rebalanceWrite"
      /\ c \in DOMAIN renumber[t]
  BY DEF Sound, TypeOK, Staged, RebalanceWrite
<1> DEFINE rest == [d \in DOMAIN renumber[t] \ {c} |-> renumber[t][d]]
           newest == Sees(t)[c]
           v == [newest EXCEPT !.at = Unit * renumber[t][c], !.scale = 0]
<1>2. renumber' = [renumber EXCEPT ![t] = rest]
  BY DEF RebalanceWrite
<1>3. UNCHANGED <<row, locked, rank, job, pc>>
  BY DEF RebalanceWrite
<1>4. /\ DOMAIN renumber' = Txn /\ \A u \in Txn \ {t} : renumber'[u] = renumber[u]
      /\ DOMAIN renumber'[t] \subseteq Card
      /\ renumber'[t] \in [DOMAIN renumber'[t] -> Nat]
  <2>1. DOMAIN rest \subseteq Card /\ rest \in [DOMAIN rest -> Nat]
    BY <1>1 DEF TxnOK
  <2> HIDE DEF rest
  <2> QED  BY <1>1, <1>2, <2>1 DEF TxnOK
<1> HIDE DEF rest
<1>5. pc' = [pc EXCEPT ![t] = "rebalanceWrite"] /\ "rebalanceWrite" \in Labels
  BY <1>1, <1>3 DEF TxnOK, Labels
<1>6. job[t].op = "move"
  BY <1>1 DEF Stage
<1>7. CASE newest = Gone
  <2>1. pending' = pending
    BY <1>7 DEF RebalanceWrite
  <2>2. rank' \in [Txn -> Rank] /\ \A u \in Txn \ {t} : rank'[u] = rank[u]
    BY <1>1, <1>3 DEF TxnOK
  <2>3. UNCHANGED <<row, pending, locked, job>>
    BY <1>3, <2>1
  <2> QED  BY <1>4, <1>5, <1>6, <2>2, <2>3, ComputeKeeps
<1>8. CASE newest # Gone
  <2>1. Write(t, c, v)
    BY <1>8 DEF RebalanceWrite
  <2>2. v \in Row
    <3>1. newest \in [col : Column, at : Int, scale : Nat]
      BY <1>1, <1>8, SeesIs DEF Snapshot, Row
    <3>2. Unit * renumber[t][c] \in Int
      BY <1>1, UnitIs DEF TxnOK
    <3> HIDE DEF newest
    <3> QED  BY <3>1, <3>2 DEF Row
  <2> HIDE DEF v
  <2>3. job' \in [Txn -> Job] /\ job'[t] = job[t] /\ \A u \in Txn \ {t} : job'[u] = job[u]
    BY <1>1, <1>3 DEF TxnOK
  <2>4. UNCHANGED <<row, locked, rank>>
    BY <1>3
  <2> QED  BY <1>4, <1>5, <1>6, <2>1, <2>2, <2>3, <2>4, WriteKeeps
<1> QED  BY <1>7, <1>8

(* until there is none left. *)
LEMMA RebalancedKeeps ==
    ASSUME Sound, NEW t \in Txn, Rebalanced(t)
    PROVE  Keeps(t)
<1>1. /\ TypeOK /\ TxnOK /\ Stage(t) /\ Holds(t) /\ pc[t] = "rebalanceWrite"
  BY DEF Sound, TypeOK, Staged, Rebalanced
<1>2. /\ pc' = [pc EXCEPT ![t] = "commit"] /\ DOMAIN renumber[t] = {}
      /\ UNCHANGED <<row, pending, locked, job>> /\ rank' = rank /\ renumber' = renumber
  BY DEF Rebalanced, Goto
<1>3. /\ DOMAIN renumber' = Txn /\ \A u \in Txn \ {t} : renumber'[u] = renumber[u]
      /\ DOMAIN renumber'[t] \subseteq Card /\ DOMAIN renumber'[t] = {}
      /\ renumber'[t] \in [DOMAIN renumber'[t] -> Nat]
  BY <1>1, <1>2 DEF TxnOK
<1>4. rank' \in [Txn -> Rank] /\ \A u \in Txn \ {t} : rank'[u] = rank[u]
  BY <1>1, <1>2 DEF TxnOK
<1>5. job[t].op = "move" /\ "commit" \in Labels
  BY <1>1 DEF Stage, Labels
<1> QED  BY <1>2, <1>3, <1>4, <1>5, ComputeKeeps

(* Commit makes rows of what was written. *)
LEMMA CommitKeeps ==
    ASSUME Sound, NEW t \in Txn, Commit(t)
    PROVE  Keeps(t)
<1>1. TypeOK /\ End(t) /\ row' = Sees(t)
  BY DEF Sound, Commit
<1>2. row' \in Snapshot
  BY <1>1, SeesIs
<1> QED  BY <1>1, <1>2, EndIs DEF Keeps, TypeOK

(* Every step is of one transaction and keeps what is said of it. *)
LEMMA NextKeeps ==
    ASSUME Sound, Next
    PROVE  Sound'
<1>1. PICK t \in Txn : Request(t) \/ Step(t) \/ Cancel(t)
  BY DEF Next
<1>2. Keeps(t)
  <2>1. CASE Request(t)
    BY <2>1, RequestKeeps
  <2>2. CASE Step(t)
    BY <2>2, MoveReadKeeps, MoveWriteKeeps, InsertKeeps, CommitKeeps, RebalanceReadKeeps,
       RebalancedKeeps, RebalanceWriteKeeps DEF Step
  <2>3. CASE Cancel(t)
    BY <2>3, RefuseKeeps DEF Cancel
  <2> QED  BY <1>1, <2>1, <2>2, <2>3
<1> QED  BY <1>2, AloneStaged DEF Sound, Keeps

(* No transaction has begun. *)
LEMMA InitSound == Init => Sound
<1> SUFFICES ASSUME Init
             PROVE  Sound
  OBVIOUS
<1>1. DOMAIN Nowhere = {} /\ Nowhere \in [{} -> Row] /\ Nowhere \in [{} -> Nat]
  BY DEF Nowhere
<1>2. NoJob \in Job /\ NoRank \in Rank /\ "idle" \in Labels /\ NoJob.op = "none"
  BY DEF NoJob, Job, NoRank, Rank, Labels
<1>3. row \in Snapshot
  <2>1. [col : Column, at : {Unit * n : n \in 1..Cardinality(Card)}, scale : {0}] \cup {Gone}
            \subseteq Row
    BY UnitIs, CardFinite, FS_CardinalityType DEF Row
  <2> QED  BY <2>1 DEF Init, Snapshot
<1>4. TxnOK
  BY <1>1, <1>2 DEF Init, TxnOK
<1>5. Staged
  BY <1>1, <1>2 DEF Init, Staged, Stage, Holds, Placing
<1> QED  BY <1>3, <1>4, <1>5 DEF Sound, TypeOK

(* Every variable keeps its type, and every transaction its locks. *)
THEOREM CardMovesSound == Spec => []Sound
<1>1. Sound /\ [Next]_vars => Sound'
  <2>1. ASSUME Sound, UNCHANGED vars
        PROVE  Sound'
    BY <2>1 DEF vars, Sound, TypeOK, TxnOK, Staged, Stage, Holds, Placing
  <2> QED  BY <2>1, NextKeeps
<1> QED  BY <1>1, InitSound, PTL DEF Spec

-----------------------------------------------------------------------------
(* Two rebalances, in different columns, each at a row the other has written. *)
Entangled == \E t, u \in Txn :
    /\ pc[t] = "rebalanceWrite" /\ pc[u] = "rebalanceWrite"
    /\ job[t].col # job[u].col /\ Waits(t, u)

(* Moves do not wait on each other in a circle, unless two of them rebalance, in different
   columns, and one has come to a row that the other has written.  A move that has
   no rank to write waits for its card holding no row. *)
THEOREM CardMovesNoDeadlock == Spec => [](NoDeadlock \/ Entangled)
<1>1. ASSUME Sound, ~NoDeadlock
      PROVE  Entangled
  <2>1. PICK S \in (SUBSET Txn) \ {{}} : \A t \in S : \E u \in S : Waits(t, u)
    BY <1>1 DEF NoDeadlock
  <2>2. \A t \in Txn : Stage(t) /\ Holds(t)
    BY <1>1 DEF Sound, Staged
  <2>3. ASSUME NEW t \in S, NEW u \in S, Waits(t, u)
        PROVE  u # t /\ pc[u] = "rebalanceWrite"
    <3>1. u \in Txn \ {t} /\ DOMAIN pending[u] # {}
      BY <2>1, <2>3 DEF Waits, RowHolders
    <3>2. pc[u] \in {"moveWrite", "rebalanceWrite"}
      BY <2>1 DEF Waits
    <3> QED  BY <2>2, <3>1, <3>2 DEF Stage
  <2>4. PICK s \in S : TRUE
    BY <2>1
  <2>5. PICK t \in S : pc[t] = "rebalanceWrite"
    BY <2>1, <2>3, <2>4
  <2>6. PICK u \in S : Waits(t, u)
    BY <2>1
  <2>7. u # t /\ pc[u] = "rebalanceWrite"
    BY <2>3, <2>6
  <2>8. job[t].col # job[u].col
    BY <2>1, <2>2, <2>5, <2>7 DEF Stage, Holds, Placing
  <2> QED  BY <2>1, <2>5, <2>6, <2>7, <2>8 DEF Entangled
<1> QED  BY <1>1, CardMovesSound, PTL


-----------------------------------------------------------------------------
(* What the transactions have written. *)

\* Two transactions never write one row.
Disjoint == \A t, u \in Txn : t # u => DOMAIN pending[t] \cap DOMAIN pending[u] = {}

\* Nobody writes the card another transaction is creating: those who know its id
\* have not found it yet.
Created(t) == job[t].op = "create" =>
    /\ row[job[t].card] = Gone
    /\ \A u \in Txn \ {t} : /\ job[t].card \notin DOMAIN pending[u]
                            /\ job[u].card = job[t].card => pc[u] = "moveRead"

\* What a transaction has written: its card, and cards of its column, which stay there.
Wrote(t) ==
    /\ \A d \in DOMAIN pending[t] \ {job[t].card} :
           Placing(t) /\ row[d].col = job[t].col /\ pending[t][d].col = job[t].col
    /\ pc[t] \in {"rebalanceRead", "rebalanceWrite", "commit"} =>
           /\ job[t].card \in DOMAIN pending[t]
           /\ pending[t][job[t].card].col = job[t].col
    /\ Placing(t) \/ job[t].col = None

-----------------------------------------------------------------------------
(* The order. *)

\* A row whose rank can be halved once more.
Halvable(v) == v.scale <= MaxScale /\ OnGrid(v)

\* Such are the ranks a transaction has written, but for those it is to renumber.
Ranked(t) ==
    /\ pc[t] = "moveWrite" => rank[t].scale <= MaxScale + 1 /\ OnGrid(rank[t])
    /\ \A c \in DOMAIN pending[t] :
        pc[t] = "rebalanceRead" \/ c \in DOMAIN renumber[t] \/ Halvable(pending[t][c])

\* Where t, should it commit, will have put a card.
At(t, d) == IF d \in DOMAIN renumber[t] THEN Unit * renumber[t][d]
            ELSE IF d = job[t].card /\ pc[t] = "moveWrite" THEN rank[t].at
            ELSE Sees(t)[d].at

\* The other cards of the column t places its card in.
Others(t) == {d \in Card \ {job[t].card} : row[d].col = job[t].col}

\* t has chosen a place.
Settled(t) ==
    Placing(t) /\ pc[t] \in {"moveWrite", "rebalanceRead", "rebalanceWrite", "commit"}

\* The others keep their order,
KeepsOrder(t) == \A d, e \in Others(t) : row[d].at < row[e].at => At(t, d) < At(t, e)

\* the card of t stands on none of them,
Apart(t) == \A d \in Others(t) : At(t, d) # At(t, job[t].card)

\* and directly behind its anchor.
Lands(t) ==
    /\ job[t].anchor = None => \A d \in Others(t) : At(t, job[t].card) < At(t, d)
    /\ job[t].anchor \in Others(t) =>
        /\ At(t, job[t].anchor) < At(t, job[t].card)
        /\ \A d \in Others(t) :
              At(t, job[t].anchor) < At(t, d) => At(t, job[t].card) < At(t, d)

Ordered(t) == Settled(t) =>
    KeepsOrder(t) /\ Apart(t) /\ (job[t].op = "move" => Lands(t))

Own(t) == Wrote(t) /\ Ranked(t) /\ Ordered(t)

Inv ==
    /\ Sound /\ Disjoint /\ DistinctRanks
    /\ \A c \in Card : Halvable(row[c])
    /\ \A t \in Txn : Created(t) /\ Own(t)

-----------------------------------------------------------------------------
(* What t newly writes nobody else writes or creates, and the card it names is one it has
   not found if another creates it. *)
Clear(t) == \A u \in Txn \ {t} :
    /\ \A c \in DOMAIN pending'[t] \ DOMAIN pending[t] :
          c \notin DOMAIN pending[u] /\ (job[u].op = "create" => c # job[u].card)
    /\ (job[u].op = "create" /\ job'[t].card = job[u].card) => pc'[t] = "moveRead"

(* A step of t that commits nothing leaves what is said of the others. *)
LEMMA OthersStill ==
    ASSUME Sound, NEW t \in Txn, Alone(t), row' = row, NEW u \in Txn \ {t}, Own(u)
    PROVE  Own(u)'
<1>1. /\ pending'[u] = pending[u] /\ pc'[u] = pc[u] /\ job'[u] = job[u]
      /\ rank'[u] = rank[u] /\ renumber'[u] = renumber[u]
  BY DEF Alone
<1>2. Wrote(u)'
  BY <1>1 DEF Own, Wrote, Placing
<1>3. Ranked(u)'
  BY <1>1 DEF Own, Ranked, Halvable, OnGrid
<1>4. Sees(u)' = Sees(u)
  BY <1>1 DEF Sees
<1>5. Others(u)' = Others(u) /\ \A d : At(u, d)' = At(u, d)
  BY <1>1, <1>4 DEF Others, At
<1>6. Ordered(u)'
  <2>1. Settled(u)' = Settled(u)
    BY <1>1 DEF Settled, Placing
  <2> QED  BY <1>1, <1>5, <2>1 DEF Own, Ordered, KeepsOrder, Apart, Lands
<1> QED  BY <1>2, <1>3, <1>6 DEF Own

(* So it is enough to look at t. *)
LEMMA RestKeeps ==
    ASSUME Inv, NEW t \in Txn, Keeps(t), row' = row, Clear(t), Created(t)', Own(t)'
    PROVE  Inv'
<1>1. Sound /\ Disjoint /\ DistinctRanks /\ Alone(t) /\ \A c \in Card : Halvable(row[c])
  BY DEF Inv, Keeps
<1>2. Sound'
  BY <1>1, AloneStaged DEF Sound, Keeps
<1>3. Disjoint'
  <2>1. \A u \in Txn \ {t} : DOMAIN pending'[t] \cap DOMAIN pending'[u] = {}
    BY <1>1 DEF Disjoint, Clear, Alone
  <2>2. \A u, v \in Txn \ {t} : u # v => DOMAIN pending'[u] \cap DOMAIN pending'[v] = {}
    BY <1>1 DEF Disjoint, Alone
  <2> QED  BY <2>1, <2>2 DEF Disjoint
<1>4. DistinctRanks' /\ \A c \in Card : Halvable(row'[c])
  BY <1>1 DEF DistinctRanks
<1>5. ASSUME NEW u \in Txn \ {t}
      PROVE  Created(u)' /\ Own(u)'
  <2>1. Created(u) /\ Own(u)
    BY DEF Inv
  <2>2. Own(u)'
    BY <1>1, <2>1, OthersStill
  <2>3. Created(u)'
    <3>1. SUFFICES ASSUME job[u].op = "create", NEW v \in Txn \ {u}
                   PROVE  /\ row[job[u].card] = Gone
                          /\ job[u].card \notin DOMAIN pending'[v]
                          /\ job'[v].card = job[u].card => pc'[v] = "moveRead"
      BY <1>1 DEF Created, Alone
    <3>2. CASE v = t
      BY <2>1, <3>1, <3>2 DEF Created, Clear
    <3>3. CASE v # t
      BY <1>1, <2>1, <3>1, <3>3 DEF Created, Alone
    <3> QED  BY <3>2, <3>3
  <2> QED  BY <2>2, <2>3
<1> QED  BY <1>2, <1>3, <1>4, <1>5 DEF Inv

(* A transaction that has ended owes nothing. *)
LEMMA EndedOwes ==
    ASSUME NEW t \in Txn, job'[t] = NoJob, pc'[t] \in {"idle", "ended"}, DOMAIN pending'[t] = {}
    PROVE  Created(t)' /\ Own(t)'
BY DEF Created, Own, Wrote, Ranked, Ordered, Settled, Placing, NoJob

(* Refuse keeps the invariant. *)
LEMMA RefuseOrdered ==
    ASSUME Inv, NEW t \in Txn, Refuse(t)
    PROVE  Inv'
<1>1. Sound /\ TypeOK /\ Staged /\ End(t) /\ row' = row
  BY DEF Inv, Sound, Refuse
<1>2. job'[t] = NoJob /\ pc'[t] = "ended" /\ DOMAIN pending'[t] = {}
  BY <1>1, EndIs
<1>3. Clear(t)
  <2>1. \A u \in Txn : job[u].op = "create" => job[u].card \in Card
    BY <1>1 DEF Staged, Stage
  <2> QED  BY <1>2, <2>1, NoneIsNothing DEF Clear, NoJob
<1> QED  BY <1>1, <1>2, <1>3, RefuseKeeps, EndedOwes, RestKeeps

-----------------------------------------------------------------------------
(* The statements, one by one, once more. *)

(* A request is received. *)
LEMMA RequestOrdered ==
    ASSUME Inv, NEW t \in Txn, Request(t)
    PROVE  Inv'
<1>1. Sound /\ Disjoint /\ TypeOK /\ TxnOK /\ Staged /\ Stage(t) /\ Keeps(t) /\ row' = row
  BY RequestKeeps DEF Inv, Sound, TypeOK, Staged
<1>2. /\ \A u \in Txn : Created(u) /\ Wrote(u) /\ Stage(u) /\ Holds(u)
      /\ job \in [Txn -> Job] /\ pc \in [Txn -> Labels]
  BY <1>1 DEF Inv, Own, Staged, TxnOK
<1>3. ASSUME NEW c \in Card, NEW k \in Column, BeginCreate(t, c, k)
      PROVE  Inv'
  <2>1. /\ pc[t] = "idle" /\ row[c] = Gone /\ \A u \in Txn : job[u].card # c
        /\ pc' = [pc EXCEPT ![t] = "insert"] /\ pending' = pending
        /\ job' = [job EXCEPT ![t] =
                    [op |-> "create", card |-> c, col |-> k, anchor |-> None]]
    BY <1>3 DEF BeginCreate, LockColumn, Goto
  <2>2. /\ pc'[t] = "insert" /\ job'[t].op = "create" /\ job'[t].card = c
        /\ \A u \in Txn \ {t} : job'[u] = job[u]
    BY <1>2, <2>1
  <2>3. DOMAIN pending[t] = {} /\ DOMAIN pending'[t] = {}
    BY <1>1, <2>1 DEF Stage
  <2>4. \A u \in Txn : c \notin DOMAIN pending[u]
    <3>1. SUFFICES ASSUME NEW u \in Txn, c \in DOMAIN pending[u]
                   PROVE  FALSE
      OBVIOUS
    <3>2. Placing(u) /\ row[c].col = job[u].col
      BY <1>2, <2>1, <3>1 DEF Wrote
    <3> QED  BY <1>2, <2>1, <3>2, NoneIsNothing DEF Holds, Gone
  <2>5. Created(t)'
    BY <1>1, <2>1, <2>2, <2>4 DEF Created
  <2>6. Own(t)'
    BY <2>2, <2>3 DEF Own, Wrote, Ranked, Ordered, Settled, Placing
  <2>7. Clear(t)
    BY <2>1, <2>2, <2>3 DEF Clear
  <2> QED  BY <1>1, <2>5, <2>6, <2>7, RestKeeps
<1>4. ASSUME NEW c \in Card, NEW k \in Column, NEW a \in Card \cup {None}, BeginMove(t, c, k, a)
      PROVE  Inv'
  <2>1. /\ pc[t] = "idle" /\ pc' = [pc EXCEPT ![t] = "moveRead"] /\ pending' = pending
        /\ job' = [job EXCEPT ![t] = [op |-> "move", card |-> c, col |-> k, anchor |-> a]]
    BY <1>4 DEF BeginMove, LockColumn, Goto
  <2>2. pc'[t] = "moveRead" /\ job'[t].op = "move" /\ job'[t].card = c
    BY <1>2, <2>1
  <2>3. DOMAIN pending[t] = {} /\ DOMAIN pending'[t] = {}
    BY <1>1, <2>1 DEF Stage
  <2>4. Created(t)' /\ Own(t)'
    BY <2>2, <2>3 DEF Created, Own, Wrote, Ranked, Ordered, Settled, Placing
  <2>5. Clear(t)
    BY <2>2, <2>3 DEF Clear
  <2> QED  BY <1>1, <2>4, <2>5, RestKeeps
<1>5. ASSUME NEW c \in Card, DeleteCard(t, c)
      PROVE  Inv'
  <2>1. /\ pc[t] = "idle" /\ row[c] # Gone /\ RowHolders(t, c) = {} /\ Write(t, c, Gone)
        /\ pc' = [pc EXCEPT ![t] = "commit"]
        /\ job' = [job EXCEPT ![t] =
                    [op |-> "delete", card |-> c, col |-> None, anchor |-> None]]
    BY <1>5 DEF DeleteCard, Goto
  <2>2. /\ pc'[t] = "commit" /\ job'[t].op = "delete" /\ job'[t].card = c
        /\ job'[t].col = None
    BY <1>2, <2>1
  <2>3. DOMAIN pending'[t] = {c} /\ pending'[t][c] = Gone
    <3>1. Gone \in Row /\ DOMAIN pending[t] = {}
      BY <1>1, <2>1 DEF Row, Stage
    <3> QED  BY <1>1, <2>1, <3>1, WriteIs
  <2>4. Created(t)' /\ Wrote(t)' /\ Ordered(t)'
    BY <2>2, <2>3 DEF Created, Wrote, Ordered, Settled, Placing, Gone
  <2>5. Halvable(Gone)
    <3>1. Unit * 0 \in Grid(0) /\ Unit * 0 = 0
      BY GridIs, UnitIs, MaxScaleNat
    <3> QED  BY <3>1, MaxScaleNat DEF Halvable, OnGrid, Gone
  <2>6. Ranked(t)'
    BY <2>2, <2>3, <2>5 DEF Ranked, Halvable, OnGrid
  <2>7. Clear(t)
    BY <1>2, <2>1, <2>2, <2>3 DEF Clear, Created, RowHolders
  <2> QED  BY <1>1, <2>4, <2>6, <2>7, RestKeeps DEF Own
<1> QED  BY <1>3, <1>4, <1>5 DEF Request

(* The other cards of a column are apart, on ranks that can be halved. *)
LEMMA OthersSpaced ==
    ASSUME Inv, NEW k \in Column, NEW c \in Card
    PROVE  Spaced(row, Siblings(row, k, c))
<1>1. row \in Snapshot
  BY DEF Inv, Sound, TypeOK
<1>2. \A d \in Siblings(row, k, c) : d \in Card /\ row[d].col = k /\ row[d] # Gone
  BY <1>1, NoneIsNothing DEF Siblings, Gone
<1> QED  BY <1>2 DEF Spaced, Inv, Halvable, DistinctRanks

(* MoveRead gives the card a place next to its anchor. *)
LEMMA MoveReadOrdered ==
    ASSUME Inv, NEW t \in Txn, MoveRead(t)
    PROVE  Inv'
<1>1. Sound /\ TypeOK /\ TxnOK /\ Stage(t) /\ Holds(t) /\ Keeps(t) /\ pc[t] = "moveRead"
  BY MoveReadKeeps DEF Inv, Sound, TypeOK, Staged, MoveRead
<1>2. CASE Refuse(t)
  BY <1>2, RefuseOrdered
<1>3. CASE ~Refuse(t)
  <2> DEFINE r == Placed(row, job[t].card, job[t].col, job[t].anchor)
  <2>1. /\ rank' = [rank EXCEPT ![t] = r] /\ pc' = [pc EXCEPT ![t] = "moveWrite"]
        /\ row' = row /\ pending' = pending /\ job' = job /\ renumber' = renumber
        /\ row[job[t].card] # Gone
        /\ \/ job[t].anchor = None
           \/ job[t].anchor \in Siblings(row, job[t].col, job[t].card)
    BY <1>3 DEF MoveRead, Goto
  <2>2. /\ job[t].op = "move" /\ job[t].card \in Card /\ job[t].col \in Column
        /\ job[t].anchor \in Card \cup {None} /\ row \in Snapshot
        /\ DOMAIN pending[t] = {} /\ DOMAIN renumber[t] = {}
    BY <1>1 DEF Stage, Holds, Placing, TypeOK, TxnOK, Job
  <2>3. /\ r.scale <= MaxScale + 1 /\ OnGrid(r)
        /\ LandsIn(row, Siblings(row, job[t].col, job[t].card), job[t].anchor, r.at)
        /\ \A d \in Siblings(row, job[t].col, job[t].card) : row[d].at # r.at
    BY <2>1, <2>2, OthersSpaced, PlacedLands
  <2> HIDE DEF r
  <2>4. rank'[t] = r /\ pc'[t] = "moveWrite"
    BY <1>1, <2>1 DEF TxnOK
  <2>5. Wrote(t)'
    BY <2>1, <2>2, <2>4 DEF Wrote, Placing
  <2>6. Ranked(t)'
    BY <2>1, <2>2, <2>3, <2>4 DEF Ranked, OnGrid
  <2>7. Others(t)' = Siblings(row, job[t].col, job[t].card)
    BY <2>1 DEF Others, Siblings
  <2>8. /\ At(t, job[t].card)' = r.at
        /\ \A d \in Card \ {job[t].card} : At(t, d)' = row[d].at
    BY <2>1, <2>2, <2>4 DEF At, Sees
  <2>9. Ordered(t)'
    <3>1. \A d \in Others(t)' : d \in Card \ {job[t].card}
      BY <2>7 DEF Siblings
    <3>2. KeepsOrder(t)'
      BY <2>1, <2>8, <3>1 DEF KeepsOrder
    <3>3. Apart(t)'
      BY <2>1, <2>3, <2>7, <2>8, <3>1 DEF Apart
    <3>4. Lands(t)'
      BY <2>1, <2>3, <2>7, <2>8, <3>1 DEF Lands, LandsIn
    <3> QED  BY <3>2, <3>3, <3>4 DEF Ordered
  <2>10. Created(t)'
    BY <2>1, <2>2 DEF Created
  <2>11. Clear(t)
    BY <2>1 DEF Clear, Inv, Created
  <2> QED  BY <1>1, <2>1, <2>5, <2>6, <2>9, <2>10, <2>11, RestKeeps DEF Own
<1> QED  BY <1>2, <1>3

(* MoveWrite writes the rank chosen. *)
LEMMA MoveWriteOrdered ==
    ASSUME Inv, NEW t \in Txn, MoveWrite(t)
    PROVE  Inv'
<1>1. Sound /\ TypeOK /\ TxnOK /\ Stage(t) /\ Holds(t) /\ Keeps(t) /\ pc[t] = "moveWrite"
  BY MoveWriteKeeps DEF Inv, Sound, TypeOK, Staged, MoveWrite
<1>2. CASE Refuse(t)
  BY <1>2, RefuseOrdered
<1>3. CASE ~Refuse(t)
  <2> DEFINE v == [col |-> job[t].col, at |-> rank[t].at, scale |-> rank[t].scale]
             label == IF rank[t].scale > MaxScale THEN "rebalanceRead" ELSE "commit"
  <2>1. /\ Write(t, job[t].card, v) /\ pc' = [pc EXCEPT ![t] = label]
        /\ row' = row /\ rank' = rank /\ job' = job /\ renumber' = renumber
        /\ RowHolders(t, job[t].card) = {}
    BY <1>3 DEF MoveWrite, Goto
  <2>2. /\ job[t].op = "move" /\ job[t].card \in Card /\ job[t].col \in Column
        /\ rank[t] \in Rank /\ DOMAIN pending[t] = {} /\ DOMAIN renumber[t] = {}
        /\ row \in Snapshot
    BY <1>1 DEF Stage, Holds, Placing, TxnOK, TypeOK
  <2>3. v \in Row /\ v.col = job[t].col /\ v.at = rank[t].at /\ v.scale = rank[t].scale
    BY <2>2 DEF Row, Rank
  <2> HIDE DEF v
  <2>4. DOMAIN pending'[t] = {job[t].card} /\ pending'[t][job[t].card] = v
    BY <1>1, <2>1, <2>2, <2>3, WriteIs
  <2>5. /\ pc'[t] \in {"rebalanceRead", "commit"}
        /\ pc'[t] = "commit" => ~ (rank[t].scale > MaxScale)
    BY <1>1, <2>1 DEF TxnOK
  <2> HIDE DEF label
  <2>6. Wrote(t)'
    BY <2>1, <2>2, <2>3, <2>4 DEF Wrote, Placing
  <2>7. Ranked(t)'
    <3>1. OnGrid(rank[t])
      BY <1>1 DEF Inv, Own, Ranked
    <3>2. pc'[t] = "commit" => Halvable(v)
      BY <2>2, <2>3, <2>5, <3>1, MaxScaleNat DEF Halvable, OnGrid, Rank
    <3> QED  BY <2>4, <2>5, <3>2 DEF Ranked, Halvable, OnGrid
  <2>8. Others(t)' = Others(t)
    BY <2>1 DEF Others
  <2>9. \A d \in Others(t) \cup {job[t].card} : At(t, d)' = At(t, d)
    BY <1>1, <2>1, <2>2, <2>3, <2>4, <2>5 DEF At, Sees, Others
  <2>10. Ordered(t)'
    <3>1. KeepsOrder(t) /\ Apart(t) /\ Lands(t)
      BY <1>1, <2>2 DEF Inv, Own, Ordered, Settled, Placing
    <3>2. KeepsOrder(t)'
      BY <2>1, <2>8, <2>9, <3>1 DEF KeepsOrder
    <3>3. Apart(t)'
      BY <2>1, <2>8, <2>9, <3>1 DEF Apart
    <3>4. Lands(t)'
      BY <2>1, <2>8, <2>9, <3>1 DEF Lands
    <3> QED  BY <3>2, <3>3, <3>4 DEF Ordered
  <2>11. Created(t)'
    BY <2>1, <2>2 DEF Created
  <2>12. Clear(t)
    BY <1>1, <2>1, <2>2, <2>4 DEF Clear, Inv, Created, RowHolders
  <2> QED  BY <1>1, <2>1, <2>6, <2>7, <2>10, <2>11, <2>12, RestKeeps DEF Own
<1> QED  BY <1>2, <1>3

(* A new card comes after every other. *)
LEMMA InsertOrdered ==
    ASSUME Inv, NEW t \in Txn, InsertCard(t)
    PROVE  Inv'
<1> DEFINE sibs == Siblings(row, job[t].col, job[t].card)
           last == IF sibs = {} THEN [at |-> 0, scale |-> 0] ELSE Highest(row, sibs)
           v == [col |-> job[t].col, at |-> last.at + Unit, scale |-> last.scale]
<1>1. Sound /\ TypeOK /\ TxnOK /\ Stage(t) /\ Holds(t) /\ Keeps(t) /\ pc[t] = "insert"
  BY InsertKeeps DEF Inv, Sound, TypeOK, Staged, InsertCard
<1>2. /\ Write(t, job[t].card, v) /\ pc' = [pc EXCEPT ![t] = "commit"]
      /\ row' = row /\ job' = job /\ renumber' = renumber
  BY DEF InsertCard, Goto
<1>3. /\ job[t].op = "create" /\ job[t].card \in Card /\ job[t].col \in Column
      /\ row \in Snapshot /\ DOMAIN pending[t] = {} /\ DOMAIN renumber[t] = {}
  BY <1>1 DEF Stage, Holds, Placing, TypeOK
<1>4. Spaced(row, sibs) /\ sibs \in SUBSET Card /\ sibs = Others(t)
  BY <1>3, OthersSpaced DEF Siblings, Others
<1> HIDE DEF sibs
<1>5. /\ last.at \in Int /\ last.scale \in 0..MaxScale /\ last.at \in Grid(last.scale)
      /\ \A d \in sibs : row[d].at <= last.at
  <2>1. CASE sibs = {}
    <3>1. Unit * 0 \in Grid(0) /\ Unit * 0 = 0
      BY GridIs, UnitIs, MaxScaleNat
    <3> QED  BY <2>1, <3>1, MaxScaleNat
  <2>2. CASE sibs # {}
    <3>1. \E d \in sibs : Highest(row, sibs) = row[d] /\ \A e \in sibs : row[d].at >= row[e].at
      BY <1>3, <1>4, <2>2, HighestIs
    <3>2. PICK d \in sibs : last = row[d] /\ \A e \in sibs : row[d].at >= row[e].at
      BY <2>2, <3>1
    <3>3. \A e \in sibs : row[e].at \in Int /\ row[e].scale \in Nat
      BY <1>3, <1>4, RowIs
    <3> QED  BY <1>4, <3>2, <3>3, MaxScaleNat DEF Spaced, OnGrid
  <2> QED  BY <2>1, <2>2
<1> HIDE DEF last
<1>6. /\ v \in Row /\ v.col = job[t].col
      /\ v.at = last.at + Unit /\ v.scale = last.scale
  BY <1>3, <1>5, UnitIs DEF Row
<1> HIDE DEF v
<1>7. Halvable(v)
  <2>1. last.at + Unit \in Grid(last.scale)
    BY <1>5, GridIs, MaxScaleNat
  <2> QED  BY <1>5, <1>6, <2>1, UnitIs DEF Halvable, OnGrid
<1>8. DOMAIN pending'[t] = {job[t].card} /\ pending'[t][job[t].card] = v
  BY <1>1, <1>2, <1>3, <1>6, WriteIs
<1>9. pc'[t] = "commit"
  BY <1>1, <1>2 DEF TxnOK
<1>10. Wrote(t)' /\ Ranked(t)'
  BY <1>2, <1>3, <1>6, <1>7, <1>8, <1>9 DEF Wrote, Placing, Ranked, Halvable, OnGrid
<1>11. Others(t)' = sibs
  BY <1>2, <1>4 DEF Others
<1>12. /\ At(t, job[t].card)' = v.at
       /\ \A d \in sibs : At(t, d)' = row[d].at /\ row[d].at \in Int
  <2>1. \A d \in sibs : d \in Card \ {job[t].card}
    BY <1>4 DEF Others
  <2> QED  BY <1>2, <1>3, <1>8, <1>9, <2>1, RowIs DEF At, Sees
<1>13. Ordered(t)'
  <2>1. KeepsOrder(t)'
    BY <1>2, <1>11, <1>12 DEF KeepsOrder
  <2>2. Apart(t)'
    BY <1>2, <1>5, <1>6, <1>11, <1>12, UnitIs DEF Apart
  <2> QED  BY <1>2, <1>3, <2>1, <2>2 DEF Ordered
<1>14. Created(t)'
  BY <1>1, <1>2, <1>3 DEF Created, Inv, Keeps, Alone
<1>15. Clear(t)
  BY <1>1, <1>2, <1>3, <1>8 DEF Clear, Inv, Created
<1> QED  BY <1>1, <1>2, <1>10, <1>13, <1>14, <1>15, RestKeeps DEF Own

(* What a placing transaction finds in its column once it has written: its card and the
   others. *)
LEMMA Members ==
    ASSUME Inv, NEW t \in Txn, Placing(t), pc[t] \in {"rebalanceRead", "rebalanceWrite", "commit"}
    PROVE  /\ {c \in Card : Sees(t)[c].col = job[t].col} = Others(t) \cup {job[t].card}
           /\ job[t].card \in Card /\ job[t].col \in Column
<1>1. TypeOK /\ Wrote(t) /\ Stage(t) /\ Holds(t)
  BY DEF Inv, Own, Sound, Staged
<1>2. job[t].card \in Card /\ job[t].col \in Column
  BY <1>1 DEF Stage, Holds, Placing
<1>3. Sees(t)[job[t].card].col = job[t].col
  BY <1>1, <1>2, SeesIs DEF Wrote
<1>4. \A c \in Card \ {job[t].card} : Sees(t)[c].col = job[t].col <=> row[c].col = job[t].col
  BY <1>1, SeesIs DEF Wrote
<1> QED  BY <1>2, <1>3, <1>4 DEF Others

(* Renumbering keeps the order. *)
LEMMA RebalanceReadOrdered ==
    ASSUME Inv, NEW t \in Txn, RebalanceRead(t)
    PROVE  Inv'
<1>1. /\ Sound /\ TypeOK /\ TxnOK /\ Stage(t) /\ Holds(t) /\ Keeps(t)
      /\ pc[t] = "rebalanceRead" /\ Own(t) /\ DistinctRanks
  BY RebalanceReadKeeps DEF Inv, Sound, TypeOK, Staged, RebalanceRead
<1> DEFINE members == {c \in Card : Sees(t)[c].col = job[t].col}
<1>2. PICK f \in Numberings(Sees(t), members) : renumber' = [renumber EXCEPT ![t] = f]
  BY DEF RebalanceRead
<1>3. /\ pc' = [pc EXCEPT ![t] = "rebalanceWrite"]
      /\ row' = row /\ pending' = pending /\ job' = job
  BY DEF RebalanceRead, Goto
<1>4. /\ job[t].op = "move" /\ Placing(t) /\ DOMAIN renumber[t] = {} /\ row \in Snapshot
      /\ Sees(t) \in Snapshot
  BY <1>1, SeesIs DEF Stage, Placing, TypeOK
<1>5. members = Others(t) \cup {job[t].card} /\ job[t].card \in Card /\ job[t].col \in Column
  BY <1>1, <1>4, Members
<1>6. /\ f \in [members -> Nat]
      /\ \A c, d \in members : c # d => /\ f[c] # f[d]
                                        /\ Sees(t)[c].at < Sees(t)[d].at => f[c] < f[d]
  <2>1. Cardinality(members) \in Nat
    BY CardFinite, FS_Subset, FS_CardinalityType
  <2> HIDE DEF members
  <2> QED  BY <2>1 DEF Numberings
<1> HIDE DEF members
<1>7. renumber'[t] = f /\ pc'[t] = "rebalanceWrite"
  BY <1>1, <1>2, <1>3 DEF TxnOK
<1>8. Others(t)' = Others(t) /\ Others(t) \subseteq members
  BY <1>3, <1>5 DEF Others
<1>9. \A d \in members : At(t, d)' = Unit * f[d] /\ At(t, d) = Sees(t)[d].at
  BY <1>1, <1>4, <1>6, <1>7 DEF At
<1>10. \A c, d \in members : c # d => /\ At(t, c)' # At(t, d)'
                                      /\ At(t, c) < At(t, d) => At(t, c)' < At(t, d)'
  <2>1. SUFFICES ASSUME NEW c \in members, NEW d \in members, c # d
                 PROVE  /\ Unit * f[c] # Unit * f[d]
                        /\ Sees(t)[c].at < Sees(t)[d].at => Unit * f[c] < Unit * f[d]
    BY <1>9
  <2>2. f[c] \in Nat /\ f[d] \in Nat
    BY <1>6
  <2>3. PICK m \in Nat, n \in Nat, u \in Nat \ {0} : m = f[c] /\ n = f[d] /\ u = Unit
    BY <2>2, UnitIs
  <2>4. /\ m # n => u * m # u * n
        /\ m < n => u * m < u * n
    OBVIOUS
  <2>5. m # n /\ (Sees(t)[c].at < Sees(t)[d].at => m < n)
    BY <1>6, <2>1, <2>3
  <2>6. u * m # u * n /\ (Sees(t)[c].at < Sees(t)[d].at => u * m < u * n)
    BY <2>4, <2>5
  <2> QED  BY <2>3, <2>6
<1>11. KeepsOrder(t) /\ Apart(t) /\ Lands(t)
  BY <1>1, <1>4 DEF Own, Ordered, Settled
<1>12. \A d \in members : At(t, d) \in Int /\ At(t, d)' \in Int /\ d \in Card
  <2>1. members \subseteq Card
    BY <1>5 DEF Others
  <2>2. ASSUME NEW d \in members
        PROVE  Unit * f[d] \in Int
    BY <1>6, UnitIs
  <2> QED  BY <1>4, <1>9, <2>1, <2>2, RowIs
<1>13. \A d, e \in Others(t) : d # e => At(t, d) # At(t, e)
  <2>1. SUFFICES ASSUME NEW d \in Others(t), NEW e \in Others(t), d # e
                 PROVE  At(t, d) # At(t, e)
    OBVIOUS
  <2>2. /\ d \in Card /\ e \in Card /\ row[d].col = row[e].col /\ row[d] # Gone
        /\ row[d].at \in Int /\ row[e].at \in Int
    BY <1>4, <1>5, RowIs DEF Others
  <2>3. row[d].at < row[e].at \/ row[e].at < row[d].at
    BY <1>1, <2>1, <2>2 DEF DistinctRanks
  <2>4. At(t, d) < At(t, e) \/ At(t, e) < At(t, d)
    BY <1>11, <2>3 DEF KeepsOrder
  <2> QED  BY <1>8, <1>12, <2>4
<1>14. \A c, d \in members : At(t, c) < At(t, d) => At(t, c)' < At(t, d)'
  BY <1>10, <1>12
<1>15. KeepsOrder(t)'
  BY <1>3, <1>8, <1>11, <1>14 DEF KeepsOrder
<1>16. Apart(t)'
  <2>1. \A d \in Others(t) : d # job[t].card
    BY DEF Others
  <2> QED  BY <1>3, <1>5, <1>8, <1>10, <2>1 DEF Apart
<1>17. Lands(t)'
  <2>0. PICK c, a : c = job[t].card /\ a = job[t].anchor /\ c \in members
    BY <1>5
  <2>1. a = None => \A d \in Others(t) : At(t, c)' < At(t, d)'
    BY <2>0, <1>8, <1>11, <1>14 DEF Lands
  <2>2. ASSUME a \in Others(t)
        PROVE  /\ At(t, a)' < At(t, c)'
               /\ \A d \in Others(t) : At(t, a)' < At(t, d)' => At(t, c)' < At(t, d)'
    <3>1. At(t, a)' < At(t, c)'
      BY <2>0, <1>8, <1>11, <1>14, <2>2 DEF Lands
    <3>2. ASSUME NEW d \in Others(t), At(t, a)' < At(t, d)'
          PROVE  At(t, c)' < At(t, d)'
      <4>1. a # d /\ ~ (At(t, d)' < At(t, a)')
        BY <1>8, <1>12, <2>2, <3>2
      <4>2. At(t, a) < At(t, d)
        BY <1>8, <1>12, <1>13, <1>14, <2>2, <4>1
      <4>3. At(t, c) < At(t, d)
        BY <1>11, <2>0, <2>2, <4>2 DEF Lands
      <4> QED  BY <2>0, <1>8, <1>14, <4>3
    <3> QED  BY <3>1, <3>2
  <2> QED  BY <1>3, <1>8, <2>0, <2>1, <2>2 DEF Lands
<1>18. Wrote(t)'
  BY <1>1, <1>3, <1>4, <1>7 DEF Own, Wrote, Placing
<1>19. Ranked(t)'
  <2>1. DOMAIN pending[t] \subseteq members
    BY <1>1, <1>5 DEF Own, Wrote, Others, TxnOK
  <2> QED  BY <1>3, <1>6, <1>7, <2>1 DEF Ranked
<1>20. Created(t)'
  BY <1>3, <1>4 DEF Created
<1>21. Clear(t)
  BY <1>1, <1>3, <1>7 DEF Clear, Inv, Created
<1> QED  BY <1>1, <1>3, <1>15, <1>16, <1>17, <1>18, <1>19, <1>20, <1>21, RestKeeps
     DEF Own, Ordered

\* A rebalance writes a row that has meanwhile come to stand in another column.
Stray == \E t \in Txn, c \in Card :
    /\ RebalanceWrite(t, c)
    /\ Sees(t)[c] # Gone /\ Sees(t)[c].col # job[t].col

(* What a rebalance writes is where it is going to stand. *)
LEMMA RebalanceWriteOrdered ==
    ASSUME Inv, NEW t \in Txn, NEW c \in Card, RebalanceWrite(t, c), ~Stray
    PROVE  Inv'
<1>1. /\ Sound /\ TypeOK /\ TxnOK /\ Stage(t) /\ Holds(t) /\ Keeps(t)
      /\ pc[t] = "rebalanceWrite" /\ c \in DOMAIN renumber[t] /\ Own(t) /\ Wrote(t)
      /\ RowHolders(t, c) = {}
  BY RebalanceWriteKeeps DEF Inv, Own, Sound, TypeOK, Staged, RebalanceWrite
<1> DEFINE rest == [d \in DOMAIN renumber[t] \ {c} |-> renumber[t][d]]
           newest == Sees(t)[c]
           v == [newest EXCEPT !.at = Unit * renumber[t][c], !.scale = 0]
           members == Others(t) \cup {job[t].card}
<1>2. /\ renumber' = [renumber EXCEPT ![t] = rest]
      /\ row' = row /\ job' = job /\ pc' = pc /\ rank' = rank
  BY DEF RebalanceWrite
<1>3. /\ job[t].op = "move" /\ Placing(t) /\ row \in Snapshot /\ Sees(t) \in Snapshot
      /\ newest = Gone \/ newest.col = job[t].col
      /\ job[t].card \in Card /\ job[t].col \in Column
      /\ {d \in Card : Sees(t)[d].col = job[t].col} = members
  BY <1>1, SeesIs, Members DEF Stage, Placing, TypeOK, Stray
<1>4. DOMAIN rest = DOMAIN renumber[t] \ {c} /\ \A d \in DOMAIN rest : rest[d] = renumber[t][d]
  OBVIOUS
<1> HIDE DEF rest
<1>5. /\ renumber'[t] = rest /\ pc'[t] = "rebalanceWrite"
      /\ Others(t)' = Others(t) /\ Settled(t)' /\ Settled(t)
  BY <1>1, <1>2, <1>3 DEF TxnOK, Others, Settled, Placing
<1>6. Created(t)'
  BY <1>2, <1>3 DEF Created
<1>7. ASSUME \A d \in members : At(t, d)' = At(t, d)
      PROVE  Ordered(t)'
  <2>1. KeepsOrder(t) /\ Apart(t) /\ Lands(t)
    BY <1>1, <1>3, <1>5 DEF Own, Ordered
  <2>2. KeepsOrder(t)'
    BY <1>2, <1>5, <1>7, <2>1 DEF KeepsOrder
  <2>3. Apart(t)'
    BY <1>2, <1>5, <1>7, <2>1 DEF Apart
  <2>4. Lands(t)'
    BY <1>2, <1>5, <1>7, <2>1 DEF Lands
  <2> QED  BY <2>2, <2>3, <2>4 DEF Ordered
<1>8. CASE newest = Gone
  <2>1. pending' = pending
    BY <1>8 DEF RebalanceWrite
  <2>2. c \notin members
    BY <1>3, <1>8, NoneIsNothing DEF Gone
  <2>3. \A d \in members : At(t, d)' = At(t, d)
    BY <1>1, <1>2, <1>4, <1>5, <2>1, <2>2 DEF At, Sees
  <2>4. Wrote(t)'
    BY <1>1, <1>2, <2>1 DEF Wrote, Placing
  <2>5. c \notin DOMAIN pending[t]
    BY <1>1, <1>3, <1>8, <2>2, SeesIs, NoneIsNothing DEF Wrote, Gone
  <2>6. Ranked(t)'
    BY <1>1, <1>2, <1>4, <1>5, <2>1, <2>5 DEF Own, Ranked, Halvable, OnGrid
  <2>7. Clear(t)
    BY <1>1, <1>2, <2>1 DEF Clear, Inv, Created
  <2> QED  BY <1>1, <1>2, <1>6, <1>7, <2>3, <2>4, <2>6, <2>7, RestKeeps DEF Own
<1>9. CASE newest # Gone
  <2>1. Write(t, c, v) /\ newest.col = job[t].col /\ c \in members
    BY <1>3, <1>9 DEF RebalanceWrite
  <2>2. v \in Row /\ v.col = job[t].col /\ v.at = Unit * renumber[t][c] /\ v.scale = 0
    <3>1. newest \in [col : Column, at : Int, scale : Nat]
      BY <1>3, <1>9 DEF Snapshot, Row
    <3>2. Unit * renumber[t][c] \in Int
      BY <1>1, UnitIs DEF TxnOK
    <3> HIDE DEF newest
    <3> QED  BY <2>1, <3>1, <3>2 DEF Row
  <2> HIDE DEF v, newest
  <2>3. /\ DOMAIN pending'[t] = DOMAIN pending[t] \cup {c} /\ pending'[t][c] = v
        /\ \A d \in DOMAIN pending[t] \ {c} : pending'[t][d] = pending[t][d]
    BY <1>1, <2>1, <2>2, WriteIs
  <2>4. \A d \in members : At(t, d)' = At(t, d)
    <3>1. ASSUME NEW d \in members, d # c
          PROVE  At(t, d)' = At(t, d)
      <4>1. Sees(t)'[d] = Sees(t)[d] /\ (d \in DOMAIN renumber'[t] <=> d \in DOMAIN renumber[t])
        BY <1>2, <1>3, <1>4, <1>5, <2>3, <3>1 DEF Sees
      <4>2. d \in DOMAIN renumber[t] => renumber'[t][d] = renumber[t][d]
        BY <1>4, <1>5, <3>1
      <4> QED  BY <1>1, <1>5, <4>1, <4>2 DEF At
    <3>2. At(t, c)' = At(t, c)
      BY <1>1, <1>4, <1>5, <2>2, <2>3 DEF At, Sees
    <3> QED  BY <3>1, <3>2
  <2>5. Wrote(t)'
    BY <1>1, <1>2, <1>3, <2>1, <2>2, <2>3 DEF Wrote, Placing, Others
  <2>6. Ranked(t)'
    <3>1. Halvable(v)
      <4>1. renumber[t][c] \in Int
        BY <1>1 DEF TxnOK
      <4>2. Unit * renumber[t][c] \in Grid(0) /\ Unit * renumber[t][c] \in Int
        <5>1. PICK n \in Int : n = renumber[t][c]
          BY <4>1
        <5>2. Unit * n \in Grid(0) /\ Unit * n \in Int
          <6>1. Unit * n \in Int
            BY UnitIs
          <6>2. 0 \in 0..(MaxScale + 1)
            BY MaxScaleNat
          <6> QED  BY <6>1, <6>2, GridIs
        <5> QED  BY <5>1, <5>2
      <4> QED  BY <2>2, <4>2, MaxScaleNat DEF Halvable, OnGrid
    <3>2. \A d \in DOMAIN pending[t] \ {c} : d \in DOMAIN rest \/ Halvable(pending[t][d])
      BY <1>1, <1>4 DEF Own, Ranked
    <3> QED  BY <1>5, <2>3, <3>1, <3>2 DEF Ranked, Halvable, OnGrid
  <2>7. Clear(t)
    <3>1. \A u \in Txn \ {t} : job[u].op = "create" =>
              row[job[u].card] = Gone /\ job[t].card # job[u].card
      BY <1>1 DEF Inv, Created
    <3>2. c # job[t].card => row[c] # Gone
      BY <1>3, <2>1, NoneIsNothing DEF Others, Gone
    <3> QED  BY <1>1, <1>2, <2>3, <3>1, <3>2 DEF Clear, RowHolders
  <2> QED  BY <1>1, <1>2, <1>6, <1>7, <2>4, <2>5, <2>6, <2>7, RestKeeps DEF Own
<1> QED  BY <1>8, <1>9

(* The last row has been renumbered. *)
LEMMA RebalancedOrdered ==
    ASSUME Inv, NEW t \in Txn, Rebalanced(t)
    PROVE  Inv'
<1>1. /\ Sound /\ TypeOK /\ TxnOK /\ Stage(t) /\ Keeps(t)
      /\ pc[t] = "rebalanceWrite" /\ Own(t)
  BY RebalancedKeeps DEF Inv, Sound, TypeOK, Staged, Rebalanced
<1>2. /\ pc' = [pc EXCEPT ![t] = "commit"] /\ DOMAIN renumber[t] = {}
      /\ row' = row /\ pending' = pending /\ job' = job /\ rank' = rank /\ renumber' = renumber
  BY DEF Rebalanced, Goto
<1>3. pc'[t] = "commit" /\ job[t].op = "move"
  BY <1>1, <1>2 DEF TxnOK, Stage
<1>4. Wrote(t)' /\ Ranked(t)'
  BY <1>1, <1>2, <1>3 DEF Own, Wrote, Ranked, Placing, Halvable, OnGrid
<1>5. Sees(t)' = Sees(t) /\ Others(t)' = Others(t)
  BY <1>2 DEF Sees, Others
<1>6. \A d \in Card : At(t, d)' = At(t, d)
  BY <1>1, <1>2, <1>3, <1>5 DEF At
<1>7. Ordered(t)'
  <2>1. KeepsOrder(t) /\ Apart(t) /\ Lands(t) /\ job[t].card \in Card /\ Others(t) \subseteq Card
    BY <1>1, <1>3 DEF Own, Ordered, Settled, Placing, Stage, Others
  <2>2. KeepsOrder(t)'
    BY <1>2, <1>5, <1>6, <2>1 DEF KeepsOrder
  <2>3. Apart(t)'
    BY <1>2, <1>5, <1>6, <2>1 DEF Apart
  <2>4. Lands(t)'
    BY <1>2, <1>5, <1>6, <2>1 DEF Lands
  <2> QED  BY <2>2, <2>3, <2>4 DEF Ordered
<1>8. Created(t)' /\ Clear(t)
  BY <1>1, <1>2, <1>3 DEF Created, Clear, Inv
<1> QED  BY <1>1, <1>2, <1>4, <1>7, <1>8, RestKeeps DEF Own

-----------------------------------------------------------------------------
(* A commit. *)

(* What a commit changes, and what becomes of the column it places a card in. *)
LEMMA CommitIs ==
    ASSUME Inv, NEW t \in Txn, Commit(t)
    PROVE  /\ row' = Sees(t) /\ row' \in Snapshot
           /\ \A c \in Card \ DOMAIN pending[t] : row'[c] = row[c]
           /\ \A c \in DOMAIN pending[t] :
                 /\ row'[c] = pending[t][c] /\ row'[c].col = job[t].col /\ Halvable(row'[c])
                 /\ c # job[t].card => Placing(t) /\ row[c].col = job[t].col
           /\ \A c \in Card : At(t, c) = row'[c].at
           /\ ~Placing(t) => job[t].col = None
           /\ Placing(t) =>
                 /\ job[t].card \in Card /\ job[t].col \in Column
                 /\ {c \in Card : row'[c].col = job[t].col} = Others(t) \cup {job[t].card}
                 /\ KeepsOrder(t) /\ Apart(t) /\ (job[t].op = "move" => Lands(t))
<1>1. TypeOK /\ TxnOK /\ Stage(t) /\ Own(t) /\ pc[t] = "commit" /\ row' = Sees(t)
  BY DEF Inv, Sound, TypeOK, Staged, Commit
<1>2. DOMAIN renumber[t] = {} /\ DOMAIN pending[t] \subseteq Card
  BY <1>1 DEF Stage, TxnOK
<1>3. /\ Sees(t) \in Snapshot
      /\ \A c \in Card : Sees(t)[c] = IF c \in DOMAIN pending[t] THEN pending[t][c] ELSE row[c]
  BY <1>1, SeesIs
<1>4. \A c \in DOMAIN pending[t] :
          /\ pending[t][c].col = job[t].col /\ Halvable(pending[t][c])
          /\ c # job[t].card => Placing(t) /\ row[c].col = job[t].col
  BY <1>1, <1>2 DEF Own, Wrote, Ranked
<1>5. \A c \in Card : At(t, c) = Sees(t)[c].at
  BY <1>1, <1>2 DEF At
<1>6. ~Placing(t) => job[t].col = None
  BY <1>1 DEF Own, Wrote
<1>7. ASSUME Placing(t)
      PROVE  /\ job[t].card \in Card /\ job[t].col \in Column
             /\ {c \in Card : Sees(t)[c].col = job[t].col} = Others(t) \cup {job[t].card}
             /\ KeepsOrder(t) /\ Apart(t) /\ (job[t].op = "move" => Lands(t))
  BY <1>1, <1>7, Members DEF Own, Ordered, Settled
<1>8. \A c \in DOMAIN pending[t] : Halvable(pending[t][c]) /\ Sees(t)[c] = pending[t][c]
                                => Halvable(Sees(t)[c])
  BY DEF Halvable, OnGrid
<1> QED  BY <1>1, <1>2, <1>3, <1>4, <1>5, <1>6, <1>7, <1>8

(* What t commits leaves what another has read and written: it changes no row that the
   other has written, and none that is or comes to be in the other's column. *)
LEMMA Undisturbed ==
    ASSUME Inv, NEW t \in Txn, Commit(t), NEW u \in Txn \ {t}
    PROVE  Own(u)'
<1>1. /\ TypeOK /\ TxnOK /\ Stage(u) /\ Own(u) /\ Holds(u) /\ Holds(t) /\ Disjoint /\ End(t)
      /\ row \in Snapshot
  BY DEF Inv, Sound, TypeOK, Staged, Commit
<1>2. /\ pending'[u] = pending[u] /\ pc'[u] = pc[u] /\ job'[u] = job[u]
      /\ rank'[u] = rank[u] /\ renumber'[u] = renumber[u]
  BY <1>1, EndIs DEF Alone
<1>3. \A d \in Card \cap DOMAIN pending[u] : row'[d] = row[d]
  BY <1>1, CommitIs DEF Disjoint
<1>4. ASSUME Placing(u), NEW d \in Card, row'[d].col = job[u].col
      PROVE  row'[d] = row[d]
  <2>1. job[u].col \in Column /\ job[t].col # job[u].col
    <3>1. job[u].col \in Column /\ locked[job[u].col] = u
      BY <1>1, <1>4 DEF Holds
    <3>2. CASE Placing(t)
      BY <1>1, <3>1, <3>2 DEF Holds
    <3>3. CASE ~Placing(t)
      BY <3>1, <3>3, CommitIs, NoneIsNothing
    <3> QED  BY <3>1, <3>2, <3>3
  <2> QED  BY <1>4, <2>1, CommitIs
<1>5. Wrote(u)'
  <2>1. Placing(u)' = Placing(u) /\ DOMAIN pending[u] \subseteq Card
    BY <1>1, <1>2 DEF Placing, TxnOK
  <2> QED  BY <1>1, <1>2, <1>3, <2>1 DEF Own, Wrote
<1>6. Ranked(u)'
  BY <1>1, <1>2 DEF Own, Ranked, Halvable, OnGrid
<1>7. Ordered(u)'
  <2>1. SUFFICES ASSUME Settled(u)
                 PROVE  KeepsOrder(u)' /\ Apart(u)' /\ (job[u].op = "move" => Lands(u)')
    BY <1>2 DEF Ordered, Settled, Placing
  <2>2. /\ Placing(u) /\ KeepsOrder(u) /\ Apart(u) /\ (job[u].op = "move" => Lands(u))
        /\ job[u].card \in Card
    BY <1>1, <2>1 DEF Own, Ordered, Settled, Placing, Stage
  <2>3. Others(u)' \subseteq Others(u) /\ \A d \in Others(u)' : d \in Card /\ row'[d] = row[d]
    BY <1>2, <1>4, <2>2 DEF Others
  <2>4. \A d \in Others(u)' : At(u, d)' = At(u, d)
    <3>1. \A d \in Others(u)' : Sees(u)'[d] = Sees(u)[d]
      BY <1>2, <2>3 DEF Sees
    <3> QED  BY <1>2, <3>1 DEF At
  <2>5. At(u, job[u].card)' = At(u, job[u].card)
    <3>1. CASE pc[u] = "moveWrite"
      <4>1. DOMAIN renumber[u] = {}
        BY <1>1, <3>1 DEF Stage
      <4> QED  BY <1>2, <3>1, <4>1 DEF At
    <3>2. CASE pc[u] # "moveWrite"
      <4>1. job[u].card \in DOMAIN pending[u]
        BY <1>1, <2>1, <3>2 DEF Own, Wrote, Settled
      <4>2. Sees(u)'[job[u].card] = Sees(u)[job[u].card]
        BY <1>2, <2>2, <4>1 DEF Sees
      <4> QED  BY <1>2, <4>2 DEF At
    <3> QED  BY <3>1, <3>2
  <2>6. KeepsOrder(u)'
    BY <1>2, <2>2, <2>3, <2>4 DEF KeepsOrder
  <2>7. Apart(u)'
    BY <1>2, <2>2, <2>3, <2>4, <2>5 DEF Apart
  <2>8. job[u].op = "move" => Lands(u)'
    BY <1>2, <2>2, <2>3, <2>4, <2>5 DEF Lands
  <2> QED  BY <2>6, <2>7, <2>8
<1> QED  BY <1>5, <1>6, <1>7 DEF Own

(* The column of the card, its others keeping their order and it standing apart, still has
   distinct ranks; the other columns have lost a card at most. *)
LEMMA CommitDistinct ==
    ASSUME Inv, NEW t \in Txn, Commit(t)
    PROVE  DistinctRanks'
<1>0. /\ \A e \in Card : At(t, e) = row'[e].at
      /\ Placing(t) =>
            /\ {e \in Card : row'[e].col = job[t].col} = Others(t) \cup {job[t].card}
            /\ KeepsOrder(t) /\ Apart(t)
  BY CommitIs
<1>1. SUFFICES ASSUME NEW c \in Card, NEW d \in Card, c # d, row'[c] # Gone,
                      row'[c].col = row'[d].col
               PROVE  row'[c].at # row'[d].at
  BY DEF DistinctRanks
<1>2. row \in Snapshot /\ row' \in Snapshot /\ DistinctRanks
  BY CommitIs DEF Inv, Sound, TypeOK
<1>3. row'[c].col \in Column
  BY <1>1, <1>2, RowIs
<1>4. CASE row'[c].col = job[t].col
  <2>1. Placing(t)
    BY <1>3, <1>4, CommitIs, NoneIsNothing
  <2>2. /\ c \in Others(t) \cup {job[t].card} /\ d \in Others(t) \cup {job[t].card}
        /\ KeepsOrder(t) /\ Apart(t)
    BY <1>0, <1>1, <1>4, <2>1
  <2>3. At(t, c) = row'[c].at /\ At(t, d) = row'[d].at
    BY <1>0
  <2>4. row'[c].at \in Int /\ row'[d].at \in Int /\ row[c].at \in Int /\ row[d].at \in Int
    BY <1>1, <1>2, RowIs
  <2>5. CASE c \in Others(t) /\ d \in Others(t)
    <3>1. row[c].col = row[d].col /\ row[c].col \in Column
      BY <1>3, <1>4, <2>5 DEF Others
    <3>2. row[c].at # row[d].at
      BY <1>1, <1>2, <3>1, NoneIsNothing DEF DistinctRanks, Gone
    <3>3. row[c].at < row[d].at \/ row[d].at < row[c].at
      BY <2>4, <3>2
    <3>4. At(t, c) < At(t, d) \/ At(t, d) < At(t, c)
      BY <2>2, <2>5, <3>3 DEF KeepsOrder
    <3> QED  BY <2>3, <2>4, <3>4
  <2>6. CASE c = job[t].card \/ d = job[t].card
    BY <1>1, <2>2, <2>3, <2>6 DEF Apart
  <2> QED  BY <2>2, <2>5, <2>6
<1>5. CASE row'[c].col # job[t].col
  <2>1. row'[c] = row[c] /\ row'[d] = row[d]
    BY <1>1, <1>5, CommitIs
  <2> QED  BY <1>1, <1>2, <2>1 DEF DistinctRanks
<1> QED  BY <1>4, <1>5

(* A commit keeps the invariant. *)
LEMMA CommitOrdered ==
    ASSUME Inv, NEW t \in Txn, Commit(t)
    PROVE  Inv'
<1>1. /\ Sound /\ TypeOK /\ TxnOK /\ Staged /\ Disjoint /\ End(t) /\ Keeps(t) /\ Alone(t)
  BY CommitKeeps DEF Inv, Sound, TypeOK, Commit, Keeps
<1>2. job'[t] = NoJob /\ pc'[t] = "ended" /\ DOMAIN pending'[t] = {}
  BY <1>1, EndIs
<1>3. Sound'
  BY <1>1, AloneStaged DEF Sound, Keeps
<1>4. \A u \in Txn : Own(u)'
  BY <1>2, EndedOwes, Undisturbed
<1>5. Disjoint'
  <2>1. \A u \in Txn : DOMAIN pending'[u] \subseteq DOMAIN pending[u]
    BY <1>1, <1>2 DEF Alone
  <2> QED  BY <1>1, <2>1 DEF Disjoint
<1>6. \A c \in Card : Halvable(row'[c])
  <2>1. \A c \in Card \ DOMAIN pending[t] : row'[c] = row[c] /\ Halvable(row[c])
    BY CommitIs DEF Inv
  <2>2. \A c \in Card \ DOMAIN pending[t] : Halvable(row'[c])
    BY <2>1 DEF Halvable, OnGrid
  <2> QED  BY <2>2, CommitIs
<1>7. ASSUME NEW u \in Txn
      PROVE  Created(u)'
  <2>1. CASE u = t
    BY <1>2, <2>1, EndedOwes
  <2>2. CASE u # t
    <3>1. SUFFICES ASSUME job[u].op = "create", NEW v \in Txn \ {u}
                   PROVE  /\ row'[job[u].card] = Gone
                          /\ job[u].card \notin DOMAIN pending'[v]
                          /\ job'[v].card = job[u].card => pc'[v] = "moveRead"
      BY <1>1, <2>2 DEF Created, Alone
    <3>2. /\ row[job[u].card] = Gone /\ job[u].card \in Card
          /\ \A w \in Txn \ {u} : /\ job[u].card \notin DOMAIN pending[w]
                                  /\ job[w].card = job[u].card => pc[w] = "moveRead"
      BY <1>1, <3>1 DEF Inv, Created, Staged, Stage
    <3>3. row'[job[u].card] = Gone
      BY <2>2, <3>2, CommitIs
    <3>4. CASE v = t
      BY <1>2, <3>2, <3>3, <3>4, NoneIsNothing DEF NoJob
    <3>5. CASE v # t
      BY <1>1, <3>2, <3>3, <3>5 DEF Alone
    <3> QED  BY <3>4, <3>5
  <2> QED  BY <2>1, <2>2
<1> QED  BY <1>3, <1>4, <1>5, <1>6, <1>7, CommitDistinct DEF Inv

(* Every step but a stray write keeps the invariant. *)
LEMMA NextOrdered ==
    ASSUME Inv, Next, ~Stray
    PROVE  Inv'
<1>1. PICK t \in Txn : Request(t) \/ Step(t) \/ Cancel(t)
  BY DEF Next
<1>2. CASE Request(t)
  BY <1>2, RequestOrdered
<1>3. CASE Step(t)
  BY <1>3, MoveReadOrdered, MoveWriteOrdered, InsertOrdered, CommitOrdered,
     RebalanceReadOrdered, RebalancedOrdered, RebalanceWriteOrdered DEF Step
<1>4. CASE Cancel(t)
  BY <1>4, RefuseOrdered DEF Cancel
<1> QED  BY <1>1, <1>2, <1>3, <1>4

(* The board starts with as many ranks in a column as cards. *)
LEMMA InitOrdered == Init => Inv
<1> SUFFICES ASSUME Init
             PROVE  Inv
  OBVIOUS
<1>1. Sound /\ row \in Snapshot
  BY InitSound DEF Sound, TypeOK
<1>2. Disjoint /\ \A t \in Txn : Created(t) /\ Own(t)
  BY DEF Init, Disjoint, Nowhere, Created, Own, Wrote, Ranked, Ordered, Settled, Placing, NoJob
<1>3. \A c \in Card : Halvable(row[c])
  <2>1. SUFFICES ASSUME NEW c \in Card
                 PROVE  Halvable(row[c])
    OBVIOUS
  <2>2. \E n \in Int : row[c].at = Unit * n
    <3>1. CASE row[c] = Gone
      BY <3>1, UnitIs DEF Gone
    <3>2. CASE row[c] # Gone
      <4>1. row[c].at \in {Unit * n : n \in 1..Cardinality(Card)}
        BY <3>2 DEF Init
      <4> QED  BY <4>1
    <3> QED  BY <3>1, <3>2
  <2>3. row[c].scale = 0
    BY DEF Init, Gone
  <2>4. row[c].at \in Grid(0) /\ row[c].at \in Int
    BY <2>2, GridIs, UnitIs, MaxScaleNat
  <2> QED  BY <2>3, <2>4, MaxScaleNat DEF Halvable, OnGrid
<1>4. DistinctRanks
  <2>1. SUFFICES ASSUME NEW c \in Card, NEW d \in Card, c # d, row[c] # Gone,
                        row[c].col = row[d].col
                 PROVE  row[c].at # row[d].at
    BY DEF DistinctRanks
  <2>2. PICK k \in Column : k = row[c].col
    BY <1>1, <2>1, RowIs
  <2> DEFINE members == {e \in Card : row[e].col = k}
             ranks == {Unit * n : n \in 1..Cardinality(members)}
             f == [e \in members |-> row[e].at]
             g == [n \in 1..Cardinality(members) |-> Unit * n]
  <2>3. {row[e].at : e \in members} = ranks
    BY DEF Init
  <2>4. IsFiniteSet(members) /\ Cardinality(members) \in Nat
    BY CardFinite, FS_Subset, FS_CardinalityType
  <2>5. Cardinality(ranks) = Cardinality(members)
    <3>1. PICK m \in Nat : m = Cardinality(members)
      BY <2>4
    <3>2. PICK w \in Nat \ {0} : w = Unit
      BY UnitIs
    <3>3. \A x, y \in 1..m : w * x = w * y => x = y
      OBVIOUS
    <3> DEFINE h == [n \in 1..m |-> w * n]
               image == {w * n : n \in 1..m}
    <3>4. h \in Bijection(1..m, image)
      BY <3>3 DEF Bijection, Injection, Surjection, IsInjective
    <3> HIDE DEF h
    <3>5. ExistsBijection(1..m, image)
      BY <3>4 DEF ExistsBijection
    <3>6. IsFiniteSet(1..m) /\ Cardinality(1..m) = m
      BY FS_Interval
    <3>7. Cardinality(image) = m
      BY <3>5, <3>6, FS_Bijection
    <3> QED  BY <3>1, <3>2, <3>7
  <2>6. f \in Surjection(members, ranks)
    BY <2>3 DEF Surjection
  <2> HIDE DEF members, ranks, f
  <2>7. f \in Injection(members, ranks)
    BY <2>4, <2>5, <2>6, FS_SurjSameCardinalityImpliesInj
  <2>8. f[c] # f[d]
    BY <2>1, <2>2, <2>7 DEF Injection, IsInjective, members
  <2> QED  BY <2>1, <2>2, <2>8 DEF f, members
<1> QED  BY <1>1, <1>2, <1>3, <1>4 DEF Inv

-----------------------------------------------------------------------------
(* What the ordering promises. *)

(* As long as no rebalance writes a row that has left its column, the invariant holds. *)
LEMMA CardMovesInv == Spec /\ [][~Stray]_vars => []Inv
<1>1. Inv /\ [Next]_vars /\ [~Stray]_vars => Inv'
  <2>1. ASSUME Inv, UNCHANGED vars
        PROVE  Inv'
    <3>1. row' = row /\ pending' = pending /\ locked' = locked /\ pc' = pc /\ job' = job
          /\ rank' = rank /\ renumber' = renumber
      BY <2>1 DEF vars
    <3>2. Sound' /\ Disjoint' /\ DistinctRanks'
      BY <2>1, <3>1 DEF Inv, Sound, TypeOK, TxnOK, Staged, Stage, Holds, Placing,
         Disjoint, DistinctRanks
    <3>3. \A c \in Card : Halvable(row'[c])
      BY <2>1, <3>1 DEF Inv
    <3>4. ASSUME NEW t \in Txn
          PROVE  Created(t)' /\ Own(t)'
      <4>1. Created(t)' /\ Wrote(t)'
        BY <2>1, <3>1 DEF Inv, Own, Created, Wrote, Placing
      <4>2. Ranked(t)'
        BY <2>1, <3>1 DEF Inv, Own, Ranked, Halvable, OnGrid
      <4>3. Sees(t)' = Sees(t)
        BY <3>1 DEF Sees
      <4>4. Others(t)' = Others(t) /\ \A d : At(t, d)' = At(t, d)
        BY <3>1, <4>3 DEF Others, At
      <4>5. Ordered(t)'
        BY <2>1, <3>1, <4>4 DEF Inv, Own, Ordered, Settled, Placing, KeepsOrder, Apart, Lands
      <4> QED  BY <4>1, <4>2, <4>5 DEF Own
    <3> QED  BY <3>2, <3>3, <3>4 DEF Inv
  <2>2. ASSUME Inv, Next, ~Stray
        PROVE  Inv'
    BY <2>2, NextOrdered
  <2> QED  BY <2>1, <2>2
<1> QED  BY <1>1, InitOrdered, PTL DEF Spec

(* As long as no rebalance writes a row that has left its column, two committed cards of a
   column never share a rank: RebalanceColumnCards' WHERE, which is the id alone, is
   the one way to break what docs/adr/0004-card-ordering.md promises "by construction". *)
THEOREM CardMovesDistinctRanks == Spec /\ [][~Stray]_vars => []DistinctRanks
<1>1. Inv => DistinctRanks
  BY DEF Inv
<1> QED  BY <1>1, CardMovesInv, PTL

(* Under the same condition a move, when it commits, lands directly behind its anchor, or
   first if it names none, whatever was committed since moveCard read the column. *)
THEOREM CardMovesLand == Spec /\ [][~Stray]_vars => LandsAfterAnchor
<1> DEFINE Landing(t) ==
      LET c == job[t].card
          k == job[t].col
          a == job[t].anchor
          others == {d \in Card \ {c} : row'[d].col = k}
      IN  /\ a = None => \A d \in others : row'[c].at < row'[d].at
          /\ a \in others =>
              /\ row'[a].at < row'[c].at
              /\ \A d \in others : row'[a].at < row'[d].at => row'[c].at < row'[d].at
<1>1. ASSUME Inv, NEW t \in Txn, Commit(t), job[t].op = "move"
      PROVE  Landing(t)
  <2>1. Placing(t)
    BY <1>1 DEF Placing
  <2>2. /\ job[t].card \in Card /\ Lands(t)
        /\ {c \in Card : row'[c].col = job[t].col} = Others(t) \cup {job[t].card}
        /\ \A c \in Card : At(t, c) = row'[c].at
    BY <1>1, <2>1, CommitIs
  <2>3. {d \in Card \ {job[t].card} : row'[d].col = job[t].col} = Others(t)
    BY <2>2 DEF Others
  <2>4. \A d \in Others(t) : d \in Card
    BY DEF Others
  <2> QED  BY <2>2, <2>3, <2>4 DEF Lands
<1>2. Inv => [\A t \in Txn : (Commit(t) /\ job[t].op = "move") => Landing(t)]_vars
  <2> HIDE DEF Landing
  <2> QED  BY <1>1
<1> QED  BY <1>2, CardMovesInv, PTL DEF LandsAfterAnchor

(* Under the same condition a commit, its rebalance included, keeps the order of the cards
   it does not place. *)
THEOREM CardMovesKeepOrder == Spec /\ [][~Stray]_vars => OthersKeepOrder
<1> DEFINE Kept(t) == \A c, d \in Card \ {job[t].card} :
      (row[c] # Gone /\ row[c].col = row[d].col /\ row[c].at < row[d].at)
          => (row'[c].col = row'[d].col => row'[c].at < row'[d].at)
<1>1. ASSUME Inv, NEW t \in Txn, Commit(t)
      PROVE  Kept(t)
  <2>1. SUFFICES ASSUME NEW c \in Card \ {job[t].card}, NEW d \in Card \ {job[t].card},
                        row[c] # Gone, row[c].col = row[d].col, row[c].at < row[d].at
                 PROVE  row'[c].at < row'[d].at
    OBVIOUS
  <2>2. row[c].col \in Column
    BY <1>1, <2>1, RowIs DEF Inv, Sound, TypeOK
  <2>3. CASE row[c].col = job[t].col
    <3>1. Placing(t)
      BY <1>1, <2>2, <2>3, CommitIs, NoneIsNothing
    <3>2. c \in Others(t) /\ d \in Others(t) /\ KeepsOrder(t)
      BY <1>1, <2>1, <2>3, <3>1, CommitIs DEF Others
    <3>3. At(t, c) < At(t, d)
      BY <2>1, <3>2 DEF KeepsOrder
    <3> QED  BY <1>1, <3>3, CommitIs
  <2>4. CASE row[c].col # job[t].col
    <3>1. c \notin DOMAIN pending[t] /\ d \notin DOMAIN pending[t]
      BY <1>1, <2>1, <2>4, CommitIs
    <3>2. row'[c] = row[c] /\ row'[d] = row[d]
      BY <1>1, <3>1, CommitIs
    <3> QED  BY <2>1, <3>2
  <2> QED  BY <2>3, <2>4
<1>2. Inv => [\A t \in Txn : Commit(t) => Kept(t)]_vars
  <2> HIDE DEF Kept
  <2> QED  BY <1>1
<1> QED  BY <1>2, CardMovesInv, PTL DEF OthersKeepOrder

(* On a board of one column no row can leave it: the three hold of every behaviour, and no
   move ends up waiting for itself. *)
THEOREM CardMovesOneColumn ==
    ASSUME NEW k, Column = {k}
    PROVE  Spec => []DistinctRanks /\ LandsAfterAnchor /\ OthersKeepOrder /\ []NoDeadlock
<1>1. Sound /\ [Next]_vars => [~Stray]_vars
  <2>1. ASSUME Sound, Stray
        PROVE  FALSE
    <3>1. PICK t \in Txn, c \in Card :
              RebalanceWrite(t, c) /\ Sees(t)[c] # Gone /\ Sees(t)[c].col # job[t].col
      BY <2>1 DEF Stray
    <3>2. TypeOK /\ Stage(t) /\ Holds(t) /\ pc[t] = "rebalanceWrite"
      BY <2>1, <3>1 DEF Sound, Staged, RebalanceWrite
    <3>3. job[t].col \in Column
      BY <3>2 DEF Stage, Holds, Placing
    <3>4. Sees(t)[c].col \in Column
      BY <3>1, <3>2, SeesIs, RowIs
    <3> QED  BY <3>1, <3>3, <3>4
  <2> QED  BY <2>1
<1>2. Sound => ~Entangled
  <2>1. ASSUME Sound, NEW t \in Txn, pc[t] = "rebalanceWrite"
        PROVE  job[t].col = k
    BY <2>1 DEF Sound, Staged, Stage, Holds, Placing
  <2> QED  BY <2>1 DEF Entangled
<1> QED  BY <1>1, <1>2, CardMovesSound, CardMovesNoDeadlock, CardMovesDistinctRanks, CardMovesLand,
    CardMovesKeepOrder, PTL DEF Spec

=============================================================================
