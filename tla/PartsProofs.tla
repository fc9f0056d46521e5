----------------------------- MODULE PartsProofs -----------------------------
(***************************************************************************)
(* Proofs about two parts of the control cycle: the flow floor, for any     *)
(* circuits, demands and needs, and the resume of a stopped compressor, for *)
(* any bounds of the setpoint, return water and restart differentials.      *)
(*                                                                         *)
(* The sums of the flow floor are folds over finite sets.  The facts about  *)
(* them come first, by induction in the form of sets, which needs no         *)
(* operator to be instantiated.                                             *)
(***************************************************************************)
EXTENDS MC_Source, FiniteSetTheorems, TLAPS

ResumeSpec == ResumeInit /\ [][ResumeNext]_resumeVars
FloorSpec == FloorInit /\ [][FloorNext]_floorVars

----------------------------------------------------------------------------
(* Induction on finite sets, and least and greatest elements *)

LEMMA LeastNat ==
  ASSUME NEW T \in SUBSET Nat, T # {}
  PROVE  \E n \in T : \A m \in T : n <= m
<1>1. PICK n \in T : \A m \in T : ~ (<<m, n>> \in OpToRel(<, Nat))
  BY NatLessThanWellFounded, WFMin
<1>2. ASSUME NEW m \in T, m < n PROVE <<m, n>> \in OpToRel(<, Nat)
  BY <1>2 DEF OpToRel
<1>3. \A m \in T : ~ (m < n)
  BY <1>1, <1>2
<1> QED
  BY <1>3

LEMMA SetInduction ==
  ASSUME NEW D, IsFiniteSet(D), NEW G,
         \A S \in SUBSET D : (\A x \in S : S \ {x} \in G) => S \in G
  PROVE  \A S \in SUBSET D : S \in G
<1> SUFFICES ASSUME NEW S \in SUBSET D, S \notin G PROVE FALSE
  OBVIOUS
<1> DEFINE Bad == {T \in SUBSET D : T \notin G}
           Sizes == {Cardinality(T) : T \in Bad}
<1>1. \A T \in SUBSET D : IsFiniteSet(T) /\ Cardinality(T) \in Nat
  BY FS_Subset, FS_CardinalityType
<1>2. Sizes \in SUBSET Nat /\ Sizes # {}
  BY <1>1
<1>3. PICK n \in Sizes : \A k \in Sizes : n <= k
  <2> HIDE DEF Sizes
  <2> QED
    BY <1>2, LeastNat
<1>4. PICK T \in Bad : n = Cardinality(T)
  BY <1>3
<1>5. ASSUME NEW x \in T PROVE T \ {x} \in G
  <2>1. Cardinality(T \ {x}) = Cardinality(T) - 1
    BY <1>1, <1>4, FS_RemoveElement
  <2>2. T \ {x} \in SUBSET D /\ Cardinality(T) \in Nat
    BY <1>1, <1>4
  <2>3. SUFFICES ASSUME T \ {x} \in Bad PROVE FALSE
    BY <2>2
  <2>4. Cardinality(T \ {x}) \in Sizes
    BY <2>3
  <2>5. n <= Cardinality(T \ {x})
    BY <1>3, <2>4
  <2> QED
    BY <1>4, <2>1, <2>2, <2>5
<1> QED
  BY <1>4, <1>5

----------------------------------------------------------------------------
(* Sums.  Sums(f, S, g) is the equation that the fold of Total solves: g has *)
(* the sum of f over each subset of S.                                        *)

Any(s) == CHOOSE x \in s : TRUE
Sums(f, S, g) ==
  g = [s \in SUBSET S |-> IF s = {} THEN 0 ELSE f[Any(s)] + g[s \ {Any(s)}]]

LEMMA TotalIsFold ==
  ASSUME NEW f, NEW S
  PROVE  Total(f, S) = (CHOOSE g : Sums(f, S, g))[S]
BY DEF Total, MapThenSumSet, MapThenFoldSet, Sums, Any

LEMMA AnyIn == \A s : s # {} => Any(s) \in s
BY DEF Any

LEMMA SumsAt ==
  ASSUME NEW f, NEW S, NEW g, Sums(f, S, g), NEW s \in SUBSET S
  PROVE  g[s] = IF s = {} THEN 0 ELSE f[Any(s)] + g[s \ {Any(s)}]
<1> DEFINE h == [r \in SUBSET S |-> IF r = {} THEN 0 ELSE f[Any(r)] + g[r \ {Any(r)}]]
<1>1. g = h
  BY DEF Sums
<1>2. h[s] = IF s = {} THEN 0 ELSE f[Any(s)] + g[s \ {Any(s)}]
  OBVIOUS
<1> QED
  BY <1>1, <1>2

LEMMA SumsAgree ==
  ASSUME NEW f, NEW S, NEW T, NEW g, NEW h, IsFiniteSet(S),
         Sums(f, S, g), Sums(f, T, h), NEW r \in SUBSET (S \cap T)
  PROVE  g[r] = h[r]
<1> DEFINE G == {s \in SUBSET (S \cap T) : g[s] = h[s]}
<1>1. ASSUME NEW s \in SUBSET (S \cap T), \A x \in s : s \ {x} \in G
      PROVE  s \in G
  <2>1. g[s] = IF s = {} THEN 0 ELSE f[Any(s)] + g[s \ {Any(s)}]
    BY SumsAt
  <2>2. h[s] = IF s = {} THEN 0 ELSE f[Any(s)] + h[s \ {Any(s)}]
    BY SumsAt
  <2>3. s # {} => g[s \ {Any(s)}] = h[s \ {Any(s)}]
    BY <1>1, AnyIn
  <2> QED
    BY <2>1, <2>2, <2>3
<1>2. IsFiniteSet(S \cap T)
  BY FS_Intersection
<1> HIDE DEF G
<1>3. r \in G
  BY <1>1, <1>2, SetInduction
<1> QED
  BY <1>3 DEF G

LEMMA SumsExist ==
  ASSUME NEW f, NEW S, IsFiniteSet(S)
  PROVE  \E g : Sums(f, S, g)
<1> DEFINE G == {T \in SUBSET S : \E g : Sums(f, T, g)}
<1>1. ASSUME NEW T \in SUBSET S, \A x \in T : T \ {x} \in G
      PROVE  T \in G
  <2> DEFINE known(x) == CHOOSE g : Sums(f, T \ {x}, g)
             whole == [s \in SUBSET T |->
                         IF s = {} THEN 0
                         ELSE f[Any(s)] + known(Any(s))[s \ {Any(s)}]]
  <2>1. \A x \in T : Sums(f, T \ {x}, known(x))
    BY <1>1
  <2> HIDE DEF known
  <2>2. \A x \in T : IsFiniteSet(T \ {x})
    BY FS_Subset, FS_RemoveElement
  <2>3. ASSUME NEW s \in SUBSET T, s # {}
        PROVE  known(Any(s))[s \ {Any(s)}] = whole[s \ {Any(s)}]
    <3> DEFINE c == Any(s)
               r == s \ {c}
               d == Any(r)
    <3>1. c \in T /\ r \in SUBSET (T \ {c}) /\ r \in SUBSET T
      BY <2>3, AnyIn
    <3>2. known(c)[r] = IF r = {} THEN 0 ELSE f[d] + known(c)[r \ {d}]
      <4>1. Sums(f, T \ {c}, known(c))
        BY <2>1, <3>1
      <4> HIDE DEF c, r
      <4>2. known(c)[r] = IF r = {} THEN 0 ELSE f[Any(r)] + known(c)[r \ {Any(r)}]
        BY <3>1, <4>1, SumsAt
      <4> QED
        BY <4>2
    <3>3. whole[r] = IF r = {} THEN 0 ELSE f[d] + known(d)[r \ {d}]
      BY <3>1
    <3>4. r # {} => known(c)[r \ {d}] = known(d)[r \ {d}]
      <4> SUFFICES ASSUME r # {} PROVE known(c)[r \ {d}] = known(d)[r \ {d}]
        OBVIOUS
      <4>1. d \in r
        BY AnyIn
      <4>2. d \in T /\ r \ {d} \in SUBSET ((T \ {c}) \cap (T \ {d}))
        BY <3>1, <4>1
      <4>3. /\ Sums(f, T \ {c}, known(c)) /\ Sums(f, T \ {d}, known(d))
            /\ IsFiniteSet(T \ {c})
        BY <2>1, <2>2, <3>1, <4>2
      <4> HIDE DEF c, r, d
      <4> QED
        BY <4>2, <4>3, SumsAgree
    <3> HIDE DEF c, r, d, whole
    <3>5. known(c)[r] = whole[r]
      BY <3>2, <3>3, <3>4
    <3> QED
      BY <3>5 DEF r, c
  <2>4. whole = [s \in SUBSET T |->
                   IF s = {} THEN 0 ELSE f[Any(s)] + whole[s \ {Any(s)}]]
    BY <2>3
  <2>5. Sums(f, T, whole)
    <3> HIDE DEF whole
    <3> QED
      BY <2>4 DEF Sums
  <2> QED
    BY <2>5
<1> HIDE DEF G
<1>2. \A T \in SUBSET S : T \in G
  BY <1>1, SetInduction
<1> QED
  BY <1>2 DEF G

\* The two equations of a sum.
LEMMA TotalEmpty == \A f : Total(f, {}) = 0
<1> SUFFICES ASSUME NEW f PROVE Total(f, {}) = 0
  OBVIOUS
<1> DEFINE g == CHOOSE g : Sums(f, {}, g)
<1>1. Sums(f, {}, g)
  BY SumsExist, FS_EmptySet
<1> HIDE DEF g
<1>2. g[{}] = 0
  BY <1>1, SumsAt
<1> QED
  BY <1>2, TotalIsFold DEF g

LEMMA TotalAny ==
  ASSUME NEW f, NEW S, IsFiniteSet(S), S # {}
  PROVE  Total(f, S) = f[Any(S)] + Total(f, S \ {Any(S)})
<1> DEFINE g == CHOOSE g : Sums(f, S, g)
           R == S \ {Any(S)}
           h == CHOOSE h : Sums(f, R, h)
<1>1. Sums(f, S, g)
  BY SumsExist
<1>2. Sums(f, R, h)
  BY SumsExist, FS_RemoveElement
<1>3. Total(f, S) = g[S] /\ Total(f, R) = h[R]
  BY TotalIsFold
<1>4. R \in SUBSET (S \cap R)
  OBVIOUS
<1> HIDE DEF g, h
<1>5. g[S] = f[Any(S)] + g[R]
  BY <1>1, SumsAt
<1>6. g[R] = h[R]
  <2> HIDE DEF R
  <2> QED
    BY <1>1, <1>2, <1>4, SumsAgree
<1> QED
  BY <1>3, <1>5, <1>6

\* Sums of integers: every element may be taken out, sums are added, scaled and
\* compared element by element, and split into those of two parts.
LEMMA TotalInt ==
  ASSUME NEW f, NEW S, IsFiniteSet(S), \A v \in S : f[v] \in Int
  PROVE  Total(f, S) \in Int
<1> DEFINE G == {T \in SUBSET S : Total(f, T) \in Int}
<1>1. ASSUME NEW T \in SUBSET S, \A x \in T : T \ {x} \in G
      PROVE  T \in G
  <2>1. CASE T = {}
    BY <2>1, TotalEmpty
  <2>2. CASE T # {}
    <3>1. Any(T) \in T
      BY <2>2, AnyIn
    <3>2. Total(f, T) = f[Any(T)] + Total(f, T \ {Any(T)})
      BY <2>2, TotalAny, FS_Subset
    <3> QED
      BY <1>1, <3>1, <3>2
  <2> QED
    BY <2>1, <2>2
<1> HIDE DEF G
<1>2. \A T \in SUBSET S : T \in G
  BY <1>1, SetInduction
<1> QED
  BY <1>2 DEF G

LEMMA TotalRemove ==
  ASSUME NEW f, NEW S, IsFiniteSet(S), \A v \in S : f[v] \in Int, NEW x \in S
  PROVE  Total(f, S) = f[x] + Total(f, S \ {x})
<1> DEFINE G == {T \in SUBSET S :
                   \A y \in T : Total(f, T) = f[y] + Total(f, T \ {y})}
<1>1. ASSUME NEW T \in SUBSET S, \A y \in T : T \ {y} \in G
      PROVE  T \in G
  <2> SUFFICES ASSUME NEW y \in T PROVE Total(f, T) = f[y] + Total(f, T \ {y})
    OBVIOUS
  <2> DEFINE c == Any(T)
  <2>1. c \in T
    BY AnyIn
  <2>2. Total(f, T) = f[c] + Total(f, T \ {c})
    BY TotalAny, FS_Subset
  <2> HIDE DEF c
  <2>3. CASE c = y
    BY <2>2, <2>3
  <2>4. CASE c # y
    <3>1. Total(f, T \ {c}) = f[y] + Total(f, (T \ {c}) \ {y})
      BY <1>1, <2>1, <2>4
    <3>2. Total(f, T \ {y}) = f[c] + Total(f, (T \ {y}) \ {c})
      BY <1>1, <2>1, <2>4
    <3>3. (T \ {c}) \ {y} = (T \ {y}) \ {c}
      OBVIOUS
    <3>4. IsFiniteSet((T \ {c}) \ {y})
      BY FS_Subset, FS_RemoveElement
    <3>5. Total(f, (T \ {c}) \ {y}) \in Int
      BY <3>4, TotalInt
    <3>6. f[c] \in Int /\ f[y] \in Int
      BY <2>1
    <3>7. Total(f, T \ {y}) = f[c] + Total(f, (T \ {c}) \ {y})
      BY <3>2, <3>3
    <3> HIDE DEF G
    <3> QED
      BY <2>2, <3>1, <3>5, <3>6, <3>7
  <2> QED
    BY <2>3, <2>4
<1> HIDE DEF G
<1>2. \A T \in SUBSET S : T \in G
  BY <1>1, SetInduction
<1> QED
  BY <1>2 DEF G

LEMMA TotalSum ==
  ASSUME NEW f, NEW g, NEW h, NEW S, IsFiniteSet(S),
         \A v \in S : f[v] \in Int /\ g[v] \in Int /\ h[v] = f[v] + g[v]
  PROVE  Total(h, S) = Total(f, S) + Total(g, S)
<1> DEFINE G == {T \in SUBSET S : Total(h, T) = Total(f, T) + Total(g, T)}
<1>1. ASSUME NEW T \in SUBSET S, \A x \in T : T \ {x} \in G
      PROVE  T \in G
  <2>1. CASE T = {}
    BY <2>1, TotalEmpty
  <2>2. CASE T # {}
    <3>1. PICK x \in T : TRUE
      BY <2>2
    <3>2. IsFiniteSet(T) /\ IsFiniteSet(T \ {x})
      BY FS_Subset, FS_RemoveElement
    <3>3. /\ Total(f, T) = f[x] + Total(f, T \ {x})
          /\ Total(g, T) = g[x] + Total(g, T \ {x})
          /\ Total(h, T) = h[x] + Total(h, T \ {x})
      BY <3>2, TotalRemove
    <3>4. Total(f, T \ {x}) \in Int /\ Total(g, T \ {x}) \in Int
      BY <3>2, TotalInt
    <3> QED
      BY <1>1, <3>3, <3>4
  <2> QED
    BY <2>1, <2>2
<1> HIDE DEF G
<1>2. \A T \in SUBSET S : T \in G
  BY <1>1, SetInduction
<1> QED
  BY <1>2 DEF G

LEMMA TotalScale ==
  ASSUME NEW f, NEW h, NEW k \in Int, NEW S, IsFiniteSet(S),
         \A v \in S : f[v] \in Int /\ h[v] = f[v] * k
  PROVE  Total(h, S) = Total(f, S) * k
<1> DEFINE G == {T \in SUBSET S : Total(h, T) = Total(f, T) * k}
<1>1. ASSUME NEW T \in SUBSET S, \A x \in T : T \ {x} \in G
      PROVE  T \in G
  <2>1. CASE T = {}
    BY <2>1, TotalEmpty
  <2>2. CASE T # {}
    <3>1. PICK x \in T : TRUE
      BY <2>2
    <3>2. IsFiniteSet(T) /\ IsFiniteSet(T \ {x})
      BY FS_Subset, FS_RemoveElement
    <3>3. /\ Total(f, T) = f[x] + Total(f, T \ {x})
          /\ Total(h, T) = h[x] + Total(h, T \ {x})
      BY <3>2, TotalRemove
    <3>4. Total(f, T \ {x}) \in Int /\ f[x] \in Int
      BY <3>2, TotalInt
    <3>5. (f[x] + Total(f, T \ {x})) * k = f[x] * k + Total(f, T \ {x}) * k
      BY <3>4
    <3> QED
      BY <1>1, <3>3, <3>4, <3>5
  <2> QED
    BY <2>1, <2>2
<1> HIDE DEF G
<1>2. \A T \in SUBSET S : T \in G
  BY <1>1, SetInduction
<1> QED
  BY <1>2 DEF G

LEMMA TotalMonotonic ==
  ASSUME NEW f, NEW g, NEW S, IsFiniteSet(S),
         \A v \in S : f[v] \in Int /\ g[v] \in Int /\ f[v] <= g[v]
  PROVE  Total(f, S) <= Total(g, S)
<1> DEFINE G == {T \in SUBSET S : Total(f, T) <= Total(g, T)}
<1>1. ASSUME NEW T \in SUBSET S, \A x \in T : T \ {x} \in G
      PROVE  T \in G
  <2>1. CASE T = {}
    BY <2>1, TotalEmpty
  <2>2. CASE T # {}
    <3>1. PICK x \in T : TRUE
      BY <2>2
    <3>2. IsFiniteSet(T) /\ IsFiniteSet(T \ {x})
      BY FS_Subset, FS_RemoveElement
    <3>3. /\ Total(f, T) = f[x] + Total(f, T \ {x})
          /\ Total(g, T) = g[x] + Total(g, T \ {x})
      BY <3>2, TotalRemove
    <3>4. Total(f, T \ {x}) \in Int /\ Total(g, T \ {x}) \in Int
      BY <3>2, TotalInt
    <3> QED
      BY <1>1, <3>3, <3>4
  <2> QED
    BY <2>1, <2>2
<1> HIDE DEF G
<1>2. \A T \in SUBSET S : T \in G
  BY <1>1, SetInduction
<1> QED
  BY <1>2 DEF G

LEMMA TotalEqual ==
  ASSUME NEW f, NEW g, NEW S, IsFiniteSet(S),
         \A v \in S : f[v] \in Int /\ g[v] = f[v]
  PROVE  Total(g, S) = Total(f, S)
<1>1. Total(f, S) <= Total(g, S) /\ Total(g, S) <= Total(f, S)
  BY TotalMonotonic
<1>2. Total(f, S) \in Int /\ Total(g, S) \in Int
  BY TotalInt
<1> QED
  BY <1>1, <1>2

LEMMA TotalOnes ==
  ASSUME NEW f, NEW S, IsFiniteSet(S), \A v \in S : f[v] = 1
  PROVE  Total(f, S) = Cardinality(S)
<1> DEFINE G == {T \in SUBSET S : Total(f, T) = Cardinality(T)}
<1>1. ASSUME NEW T \in SUBSET S, \A x \in T : T \ {x} \in G
      PROVE  T \in G
  <2>1. CASE T = {}
    BY <2>1, TotalEmpty, FS_EmptySet
  <2>2. CASE T # {}
    <3>1. PICK x \in T : TRUE
      BY <2>2
    <3>2. IsFiniteSet(T)
      BY FS_Subset
    <3>3. Total(f, T) = 1 + Total(f, T \ {x})
      BY <3>2, TotalRemove
    <3>4. Cardinality(T \ {x}) = Cardinality(T) - 1 /\ Cardinality(T) \in Nat
      BY <3>2, FS_RemoveElement, FS_CardinalityType
    <3> QED
      BY <1>1, <3>3, <3>4
  <2> QED
    BY <2>1, <2>2
<1> HIDE DEF G
<1>2. \A T \in SUBSET S : T \in G
  BY <1>1, SetInduction
<1> QED
  BY <1>2 DEF G

LEMMA TotalConstant ==
  ASSUME NEW f, NEW k \in Int, NEW S, IsFiniteSet(S), \A v \in S : f[v] = k
  PROVE  Total(f, S) = k * Cardinality(S)
<1> DEFINE one == [v \in S |-> 1]
<1>1. Total(one, S) = Cardinality(S)
  BY TotalOnes
<1>2. Total(f, S) = Total(one, S) * k
  <2>1. \A v \in S : one[v] \in Int /\ f[v] = one[v] * k
    OBVIOUS
  <2> HIDE DEF one
  <2> QED
    BY <2>1, TotalScale
<1>3. Cardinality(S) \in Int
  BY FS_CardinalityType
<1> HIDE DEF one
<1>4. Cardinality(S) * k = k * Cardinality(S)
  BY <1>3
<1> QED
  BY <1>1, <1>2, <1>4

LEMMA TotalSplit ==
  ASSUME NEW f, NEW S, IsFiniteSet(S), \A v \in S : f[v] \in Int, NEW R \in SUBSET S
  PROVE  Total(f, S) = Total(f, R) + Total(f, S \ R)
<1> DEFINE G == {T \in SUBSET S : Total(f, S) = Total(f, T) + Total(f, S \ T)}
<1>1. ASSUME NEW T \in SUBSET S, \A x \in T : T \ {x} \in G
      PROVE  T \in G
  <2>0. Total(f, S) \in Int
    BY TotalInt
  <2>1. CASE T = {}
    <3>1. S \ T = S
      BY <2>1
    <3> QED
      BY <2>0, <2>1, <3>1, TotalEmpty
  <2>2. CASE T # {}
    <3>1. PICK x \in T : TRUE
      BY <2>2
    <3>2. IsFiniteSet(T) /\ IsFiniteSet(T \ {x}) /\ IsFiniteSet(S \ (T \ {x}))
          /\ IsFiniteSet(S \ T)
      BY FS_Subset, FS_RemoveElement
    <3>3. Total(f, T) = f[x] + Total(f, T \ {x})
      BY <3>2, TotalRemove
    <3>4. Total(f, S \ (T \ {x})) = f[x] + Total(f, S \ T)
      <4>1. (S \ (T \ {x})) \ {x} = S \ T
        OBVIOUS
      <4>2. x \in S \ (T \ {x})
        OBVIOUS
      <4> QED
        BY <3>2, <4>1, <4>2, TotalRemove
    <3>5. Total(f, T \ {x}) \in Int /\ Total(f, S \ T) \in Int /\ f[x] \in Int
      BY <3>2, TotalInt
    <3>6. Total(f, S) = Total(f, T \ {x}) + Total(f, S \ (T \ {x}))
      BY <1>1
    <3>7. Total(f, S) = Total(f, T) + Total(f, S \ T)
      BY <3>3, <3>4, <3>5, <3>6
    <3> QED
      BY <3>7
  <2> QED
    BY <2>1, <2>2
<1> HIDE DEF G
<1>2. \A T \in SUBSET S : T \in G
  BY <1>1, SetInduction
<1> QED
  BY <1>2 DEF G

\* Raising some of the elements raises the sum by what they are raised by.
LEMMA TotalRaised ==
  ASSUME NEW f, NEW g, NEW h, NEW S, IsFiniteSet(S), NEW R \in SUBSET S,
         \A v \in S : f[v] \in Int,
         \A v \in R : g[v] \in Int /\ h[v] = f[v] + g[v],
         \A v \in S \ R : h[v] = f[v]
  PROVE  Total(h, S) = Total(f, S) + Total(g, R)
<1>1. IsFiniteSet(R) /\ IsFiniteSet(S \ R)
  BY FS_Subset
<1>2. Total(h, R) = Total(f, R) + Total(g, R)
  BY <1>1, TotalSum
<1>3. Total(h, S \ R) = Total(f, S \ R)
  BY <1>1, TotalEqual
<1>4. \A v \in S : h[v] \in Int
  OBVIOUS
<1>5. /\ Total(f, S) = Total(f, R) + Total(f, S \ R)
      /\ Total(h, S) = Total(h, R) + Total(h, S \ R)
  BY <1>4, TotalSplit
<1>6. Total(f, R) \in Int /\ Total(g, R) \in Int /\ Total(f, S \ R) \in Int
  BY <1>1, TotalInt
<1> QED
  BY <1>2, <1>3, <1>5, <1>6

\* Sums of a part are no larger than the whole, if nothing is negative.
LEMMA TotalOfPart ==
  ASSUME NEW f, NEW S, IsFiniteSet(S), NEW R \in SUBSET S, \A v \in S : f[v] \in Nat
  PROVE  /\ Total(f, R) \in Nat /\ Total(f, S) \in Nat
         /\ Total(f, R) <= Total(f, S)
<1>1. \A T \in SUBSET S : Total(f, T) \in Nat
  <2> SUFFICES ASSUME NEW T \in SUBSET S PROVE Total(f, T) \in Nat
    OBVIOUS
  <2> DEFINE zero == [v \in T |-> 0]
  <2>1. IsFiniteSet(T)
    BY FS_Subset
  <2>2. Total(zero, T) = 0
    <3>1. \A v \in T : zero[v] = 0
      OBVIOUS
    <3>2. Cardinality(T) \in Nat
      BY <2>1, FS_CardinalityType
    <3>3. Total(zero, T) = 0 * Cardinality(T)
      <4> HIDE DEF zero
      <4> QED
        BY <2>1, <3>1, TotalConstant
    <3> QED
      BY <3>2, <3>3
  <2>3. Total(zero, T) <= Total(f, T)
    BY <2>1, TotalMonotonic
  <2>4. Total(f, T) \in Int
    BY <2>1, TotalInt
  <2> QED
    BY <2>2, <2>3, <2>4
<1>2. Total(f, S) = Total(f, R) + Total(f, S \ R)
  BY TotalSplit
<1>3. Total(f, R) \in Nat /\ Total(f, S \ R) \in Nat
  BY <1>1
<1> QED
  BY <1>2, <1>3

----------------------------------------------------------------------------
(* Arithmetic of the flow floor *)

LEMMA Divided ==
  ASSUME NEW a \in Int, NEW b \in Nat \ {0}
  PROVE  /\ a \div b \in Int /\ a % b \in 0..(b - 1)
         /\ a = b * (a \div b) + (a % b)
OBVIOUS

LEMMA ProductOrder ==
  /\ \A a, b \in Int, c \in Nat : a <= b => a * c <= b * c /\ c * a <= c * b
  /\ \A a, b \in Int, c \in Nat : a * c < b * c => a < b
  /\ \A a, b \in Int, c \in Nat \ {0} : a * c <= b * c => a <= b
  /\ \A a, b \in Int, c \in Nat : c * a < c * b => a < b
OBVIOUS

LEMMA DividedNat ==
  ASSUME NEW a \in Nat, NEW b \in Nat \ {0}
  PROVE  a \div b \in Nat
OBVIOUS

LEMMA Circuits ==
  /\ IsFiniteSet(Valve) /\ IsFiniteSet(Fitted) /\ IsFiniteSet(Unfitted)
  /\ Cardinality(Valve) \in Nat /\ Cardinality(Fitted) \in Nat
  /\ Cardinality(Unfitted) \in Nat
  /\ Cardinality(Fitted) + Cardinality(Unfitted) = Cardinality(Valve)
  /\ Fitted \subseteq Valve /\ Full \in Nat /\ MinOpen \in 0..Full /\ TieK \in Nat
<1>1. IsFiniteSet(Valve) /\ Unfitted \subseteq Valve
  BY FloorAssumption
<1>2. Fitted \subseteq Valve
  BY DEF Fitted
<1>3. IsFiniteSet(Fitted) /\ IsFiniteSet(Unfitted)
  BY <1>1, <1>2, FS_Subset
<1>4. Cardinality(Fitted) = Cardinality(Valve) - Cardinality(Valve \cap Unfitted)
  BY <1>1, FS_Difference DEF Fitted
<1>5. Valve \cap Unfitted = Unfitted
  BY <1>1
<1>6. Cardinality(Valve) \in Nat /\ Cardinality(Fitted) \in Nat
      /\ Cardinality(Unfitted) \in Nat
  BY <1>1, <1>3, FS_CardinalityType
<1>7. Full \in Nat /\ MinOpen \in 0..Full /\ TieK \in Nat
  BY FloorAssumption
<1>8. Cardinality(Fitted) + Cardinality(Unfitted) = Cardinality(Valve)
  BY <1>4, <1>5, <1>6
<1> QED
  BY <1>1, <1>2, <1>3, <1>6, <1>7, <1>8

LEMMA MinOfNats ==
  ASSUME NEW T \in SUBSET Nat, T # {}
  PROVE  Min(T) \in T /\ \A m \in T : Min(T) <= m
BY LeastNat DEF Min

LEMMA GreatestValue ==
  ASSUME NEW D, IsFiniteSet(D), D # {}, NEW f, \A v \in D : f[v] \in Int
  PROVE  \E v \in D : \A w \in D : f[w] <= f[v]
<1> DEFINE G == {T \in SUBSET D : T = {} \/ \E v \in T : \A w \in T : f[w] <= f[v]}
<1>1. ASSUME NEW T \in SUBSET D, \A x \in T : T \ {x} \in G
      PROVE  T \in G
  <2>1. SUFFICES ASSUME NEW x \in T PROVE \E v \in T : \A w \in T : f[w] <= f[v]
    OBVIOUS
  <2>2. CASE T \ {x} = {}
    <3>1. \A w \in T : f[w] <= f[x]
      BY <2>2
    <3> QED
      BY <3>1
  <2>3. CASE T \ {x} # {}
    <3>1. PICK v \in T \ {x} : \A w \in T \ {x} : f[w] <= f[v]
      BY <1>1, <2>3
    <3>2. f[x] <= f[v] => \A w \in T : f[w] <= f[v]
      BY <3>1
    <3>3. f[v] <= f[x] => \A w \in T : f[w] <= f[x]
      <4>1. f[x] \in Int /\ \A w \in T : f[w] \in Int
        OBVIOUS
      <4> QED
        BY <3>1, <4>1
    <3>4. f[x] <= f[v] \/ f[v] <= f[x]
      OBVIOUS
    <3> QED
      BY <3>2, <3>3, <3>4
  <2> QED
    BY <2>2, <2>3
<1> HIDE DEF G
<1>2. \A T \in SUBSET D : T \in G
  BY <1>1, SetInduction
<1> QED
  BY <1>2 DEF G

LEMMA TwoOf ==
  ASSUME NEW a \in Int, NEW b \in Int
  PROVE  /\ Min({a, b}) = IF a <= b THEN a ELSE b
         /\ Max({a, b}) = IF a >= b THEN a ELSE b
BY DEF Min, Max

\* The distributor: the peak follows demands, and openings stay within bounds.
LEMMA PeakTyped ==
  ASSUME NEW old \in Nat \cup {Unknown}, NEW raw \in [Valve -> Level]
  PROVE  Peak(old, raw) \in Nat
<1> DEFINE new == Max({raw[v] : v \in Valve})
<1>1. \A v \in Valve : raw[v] \in Nat
  BY FloorAssumption
<1>2. PICK v \in Valve : \A w \in Valve : raw[w] <= raw[v]
  BY <1>1, FloorAssumption, GreatestValue
<1>3. new \in Nat
  <2> DEFINE T == {raw[w] : w \in Valve}
  <2>1. raw[v] \in T /\ \A y \in T : raw[v] >= y
    BY <1>1, <1>2
  <2>2. Max(T) \in T
    BY <2>1 DEF Max
  <2> QED
    BY <1>1, <2>2
<1> HIDE DEF new
<1>4. PeakStep \in Nat
  BY FloorAssumption
<1>5. CASE old = Unknown
  BY <1>3, <1>5 DEF Peak, new
<1>6. CASE old # Unknown
  <2>1. old \in Nat /\ old + PeakStep \in Int /\ old - PeakStep \in Int
    BY <1>4, <1>6
  <2>2. /\ Min({new, old + PeakStep}) = IF new <= old + PeakStep THEN new ELSE old + PeakStep
        /\ Max({new, old - PeakStep}) = IF new >= old - PeakStep THEN new ELSE old - PeakStep
    <3> DEFINE up == old + PeakStep
               down == old - PeakStep
    <3>1. up \in Int /\ down \in Int /\ new \in Int
      BY <1>3, <2>1
    <3> HIDE DEF up, down
    <3>2. /\ Min({new, up}) = IF new <= up THEN new ELSE up
          /\ Max({new, down}) = IF new >= down THEN new ELSE down
      BY <3>1, TwoOf
    <3> QED
      BY <3>2 DEF up, down
  <2>3. Peak(old, raw) = IF new > old THEN Min({new, old + PeakStep})
                                      ELSE Max({new, old - PeakStep})
    BY <1>6 DEF Peak, new
  <2> QED
    BY <1>3, <1>4, <2>1, <2>2, <2>3
<1> QED
  BY <1>5, <1>6

LEMMA RoundedTyped ==
  ASSUME NEW a \in Opening
  PROVE  Rounded(a) \in Opening
<1> DEFINE q == a \div Grain
           r == a % Grain
           k == Full \div Grain
<1>1. Grain \in Nat \ {0} /\ Full \in Nat /\ Full % Grain = 0
  BY FloorAssumption
<1>2. a \in Nat /\ a <= Full
  BY <1>1 DEF Opening
<1>3. /\ q \in Nat /\ r \in 0..(Grain - 1) /\ a = Grain * q + r
      /\ k \in Nat /\ Full = Grain * k
  <2>1. q \in Nat /\ k \in Nat
    BY <1>1, <1>2, DividedNat
  <2>2. r \in 0..(Grain - 1) /\ a = Grain * q + r
    BY <1>1, <1>2, Divided
  <2>3. Full = Grain * k + (Full % Grain)
    BY <1>1, Divided
  <2>4. Grain * k \in Int
    BY <1>1, <2>1
  <2>5. Full = Grain * k
    BY <1>1, <2>3, <2>4
  <2> QED
    BY <2>1, <2>2, <2>5
<1>4. Rounded(a) = Grain * (IF 2 * r > Grain \/ (2 * r = Grain /\ q % 2 = 1)
                            THEN q + 1 ELSE q)
  BY DEF Rounded
<1> HIDE DEF q, r, k
<1>5. CASE Rounded(a) = Grain * q
  <2>1. Grain * q \in Nat
    BY <1>1, <1>3
  <2> QED
    BY <1>1, <1>2, <1>3, <1>5, <2>1 DEF Opening
<1>6. CASE Rounded(a) = Grain * (q + 1) /\ r > 0
  <2>1. Grain * q \in Int /\ Grain * k \in Int
    BY <1>1, <1>3
  <2>2. Grain * q < Grain * k
    BY <1>2, <1>3, <1>6, <2>1
  <2>3. q + 1 <= k
    BY <1>1, <1>3, <2>2, ProductOrder
  <2>4. Grain * (q + 1) <= Grain * k /\ Grain * (q + 1) \in Nat
    BY <1>1, <1>3, <2>3, ProductOrder
  <2> QED
    BY <1>1, <1>3, <1>6, <2>4 DEF Opening
<1>7. \/ Rounded(a) = Grain * q
      \/ Rounded(a) = Grain * (q + 1) /\ r > 0
  <2>1. 2 * r > Grain \/ 2 * r = Grain => r > 0
    BY <1>1, <1>3
  <2> QED
    BY <1>4, <2>1
<1> QED
  BY <1>5, <1>6, <1>7

LEMMA DistributeTyped ==
  ASSUME NEW raw \in [Valve -> Level], NEW scale \in Nat
  PROVE  Distribute(raw, scale) \in [Valve -> Opening]
<1> SUFFICES ASSUME NEW v \in Valve
             PROVE  Rounded(Threshold + Min({Full - Threshold,
                      ((raw[v] + Eps) * (Full - Threshold)) \div (scale + Eps)}))
                    \in Opening
  BY DEF Distribute
<1> DEFINE span == Full - Threshold
           share == ((raw[v] + Eps) * span) \div (scale + Eps)
<1>1. /\ raw[v] \in Nat /\ Eps \in Nat \ {0} /\ Threshold \in Nat /\ Full \in Nat
      /\ Threshold <= Full
  <2>1. raw[v] \in Nat
    <3>1. raw[v] \in Level /\ Level \subseteq Nat
      BY FloorAssumption
    <3> QED
      BY <3>1
  <2>2. Eps \in Nat \ {0} /\ Full \in Nat
    BY FloorAssumption
  <2>3. Threshold \in Nat /\ Threshold <= Full
    BY FloorAssumption
  <2> QED
    BY <2>1, <2>2, <2>3
<1>2. span \in Nat /\ scale + Eps \in Nat \ {0}
  BY <1>1
<1>3. (raw[v] + Eps) * span \in Nat
  <2> HIDE DEF span
  <2> QED
    BY <1>1, <1>2
<1>4. share \in Nat
  BY <1>2, <1>3, DividedNat
<1> HIDE DEF share
<1>5. Min({span, share}) \in 0..span
  BY <1>2, <1>4, TwoOf
<1>6. Threshold + Min({span, share}) \in Opening
  BY <1>1, <1>5 DEF Opening
<1>7. Rounded(Threshold + Min({span, share})) \in Opening
  BY <1>6, RoundedTyped
<1> QED
  BY <1>7 DEF share

----------------------------------------------------------------------------
(* Parts of the deficit *)

\* Some weight there is, and a wider circuit has no less of it.
LEMMA WeightTyped ==
  ASSUME NEW out \in [Valve -> Opening], NEW free \in SUBSET Fitted, free # {}
  PROVE  /\ \A v \in free : Weight(out, free)[v] \in Nat
         /\ Total(Weight(out, free), free) \in Nat \ {0}
         /\ \A v, w \in free : out[v] <= out[w]
                                 => Weight(out, free)[v] <= Weight(out, free)[w]
<1> DEFINE flow == [v \in free |-> IF out[v] > Threshold THEN out[v] - Threshold ELSE 0]
           one == [v \in free |-> 1]
<1>1. /\ IsFiniteSet(free) /\ Threshold \in Nat
      /\ \A v \in free : out[v] \in Nat
  <2>1. free \subseteq Valve
    BY Circuits
  <2>2. IsFiniteSet(free)
    BY Circuits, FS_Subset
  <2>3. Threshold \in Nat
    BY FloorAssumption
  <2> QED
    BY <2>1, <2>2, <2>3, Circuits DEF Opening
<1>2. \A v \in free : flow[v] \in Nat
  BY <1>1
<1>3. \A v, w \in free : out[v] <= out[w] => flow[v] <= flow[w]
  BY <1>1
<1>4. Total(flow, free) \in Nat
  <2> HIDE DEF flow
  <2> QED
    BY <1>1, <1>2, TotalOfPart
<1>5. Weight(out, free) = IF Total(flow, free) = 0 THEN one ELSE flow
  BY DEF Weight
<1>6. CASE Total(flow, free) = 0
  <2>1. Weight(out, free) = one
    BY <1>5, <1>6
  <2>2. \A v \in free : one[v] = 1
    OBVIOUS
  <2> HIDE DEF one
  <2>3. Total(one, free) = Cardinality(free)
    BY <1>1, <2>2, TotalOnes
  <2>4. Cardinality(free) \in Nat \ {0}
    BY <1>1, FS_CardinalityType, FS_EmptySet
  <2> QED
    BY <2>1, <2>2, <2>3, <2>4
<1>7. CASE Total(flow, free) # 0
  <2>1. Weight(out, free) = flow
    BY <1>5, <1>7
  <2> HIDE DEF flow
  <2> QED
    BY <1>2, <1>3, <1>4, <1>7, <2>1
<1> QED
  BY <1>6, <1>7

\* Who is clipped is one of the circuits, and all together lack no more than
\* is missing.
LEMMA ClippedFits ==
  ASSUME NEW out \in [Valve -> Opening], NEW free \in SUBSET Fitted, NEW short \in Nat,
         NEW lack, \A v \in Clipped(out, free, short) : lack[v] = Full - out[v]
  PROVE  /\ Clipped(out, free, short) \subseteq free
         /\ Total(lack, Clipped(out, free, short)) \in Nat
         /\ Total(lack, Clipped(out, free, short)) <= short
<1> DEFINE C == Clipped(out, free, short)
           weight == Weight(out, free)
           total == Total(weight, free)
           scaled == [v \in C |-> lack[v] * total]
           parts == [v \in C |-> weight[v] * short]
<1>1. C = {v \in free : weight[v] * short > (Full - out[v]) * total}
  BY DEF Clipped
<1>2. C \subseteq free
  BY <1>1
<1>3. \A v \in free : out[v] \in Nat /\ out[v] <= Full
  <2>1. free \subseteq Valve
    BY Circuits
  <2> QED
    BY <2>1, Circuits DEF Opening
<1>4. \A v \in C : lack[v] = Full - out[v]
  OBVIOUS
<1>5. Full \in Nat /\ IsFiniteSet(free) /\ IsFiniteSet(C)
  BY <1>2, Circuits, FS_Subset
<1>6. \A v \in C : lack[v] \in Nat
  BY <1>2, <1>3, <1>4, <1>5
<1>7. CASE C = {}
  BY <1>7, TotalEmpty
<1>8. CASE C # {}
  <2>1. /\ \A v \in free : weight[v] \in Nat
        /\ total \in Nat \ {0}
    BY <1>2, <1>8, WeightTyped
  <2>2. \A v \in C : lack[v] * total < weight[v] * short
    BY <1>1, <1>4
  <2> HIDE DEF C, weight, total
  <2>3. Total(scaled, C) = Total(lack, C) * total
    <3>1. \A v \in C : lack[v] \in Int /\ scaled[v] = lack[v] * total
      BY <1>6
    <3> HIDE DEF scaled
    <3> QED
      BY <1>5, <2>1, <3>1, TotalScale
  <2>4. Total(parts, C) = Total(weight, C) * short
    <3>1. \A v \in C : weight[v] \in Int /\ parts[v] = weight[v] * short
      BY <1>2, <2>1
    <3> HIDE DEF parts
    <3> QED
      BY <1>5, <3>1, TotalScale
  <2>5. Total(scaled, C) <= Total(parts, C)
    <3>1. ASSUME NEW v \in C
          PROVE scaled[v] \in Int /\ parts[v] \in Int /\ scaled[v] <= parts[v]
      <4>1. lack[v] \in Nat /\ weight[v] \in Nat
        BY <1>2, <1>6, <2>1
      <4>2. lack[v] * total \in Int /\ weight[v] * short \in Int
        BY <2>1, <4>1
      <4>3. scaled[v] = lack[v] * total /\ parts[v] = weight[v] * short
        OBVIOUS
      <4>4. lack[v] * total <= weight[v] * short
        BY <2>2, <4>2
      <4> HIDE DEF scaled, parts
      <4> QED
        BY <4>2, <4>3, <4>4
    <3> HIDE DEF scaled, parts
    <3> QED
      BY <1>5, <3>1, TotalMonotonic
  <2>6. Total(weight, C) \in Nat /\ Total(weight, C) <= total
    BY <1>2, <1>5, <2>1, TotalOfPart DEF total
  <2>7. Total(lack, C) \in Nat
    BY <1>5, <1>6, TotalOfPart
  <2>8. Total(weight, C) * short <= total * short
    BY <2>1, <2>6, ProductOrder
  <2>9. total * short = short * total
    BY <2>1
  <2>10. Total(lack, C) * total <= short * total
    <3>1. /\ Total(lack, C) * total \in Int /\ Total(weight, C) * short \in Int
          /\ short * total \in Int
      BY <2>1, <2>6, <2>7
    <3> QED
      BY <2>3, <2>4, <2>5, <2>8, <2>9, <3>1
  <2>11. Total(lack, C) <= short
    BY <2>1, <2>7, <2>10, ProductOrder
  <2> QED
    BY <1>2, <2>7, <2>11 DEF C
<1> QED
  BY <1>2, <1>7, <1>8

\* A wider circuit is clipped if a narrower one is.
LEMMA ClippedInOrder ==
  ASSUME NEW out \in [Valve -> Opening], NEW free \in SUBSET Fitted, NEW short \in Nat,
         NEW v \in Clipped(out, free, short), NEW w \in free, out[v] <= out[w]
  PROVE  w \in Clipped(out, free, short)
<1> DEFINE weight == Weight(out, free)
           total == Total(weight, free)
<1>1. v \in free /\ weight[v] * short > (Full - out[v]) * total
  BY DEF Clipped
<1>2. /\ weight[v] \in Nat /\ weight[w] \in Nat /\ weight[v] <= weight[w]
      /\ total \in Nat
  BY <1>1, WeightTyped
<1>3. Full - out[v] \in Int /\ Full - out[w] \in Int /\ Full - out[w] <= Full - out[v]
  <2>1. v \in Valve /\ w \in Valve
    BY <1>1, Circuits
  <2> QED
    BY <2>1, Circuits DEF Opening
<1> HIDE DEF total, weight
<1>4. weight[v] * short <= weight[w] * short
  BY <1>2, ProductOrder
<1>5. (Full - out[w]) * total <= (Full - out[v]) * total
  BY <1>2, <1>3, ProductOrder
<1>6. /\ weight[v] * short \in Int /\ weight[w] * short \in Int
      /\ (Full - out[v]) * total \in Int /\ (Full - out[w]) * total \in Int
  BY <1>2, <1>3
<1>7. weight[w] * short > (Full - out[w]) * total
  BY <1>1, <1>4, <1>5, <1>6
<1> QED
  BY <1>7 DEF Clipped, total, weight

\* With nobody clipped and every division exact, the parts are what is missing,
\* nobody's is too much, and a wider circuit gets no less.
LEMMA PartsFit ==
  ASSUME NEW out \in [Valve -> Opening], NEW free \in SUBSET Fitted, free # {},
         NEW short \in Nat, Clipped(out, free, short) = {},
         NEW weight, weight = Weight(out, free), NEW total, total = Total(weight, free),
         \A v \in free : (weight[v] * short) % total = 0,
         NEW gain, \A v \in free : gain[v] = (weight[v] * short) \div total
  PROVE  /\ \A v \in free : gain[v] \in Nat /\ gain[v] <= Full - out[v]
         /\ Total(gain, free) = short
         /\ \A v, w \in free : out[v] <= out[w] => gain[v] <= gain[w]
<1>1. /\ \A v \in free : weight[v] \in Nat
      /\ total \in Nat \ {0}
      /\ \A v, w \in free : out[v] <= out[w] => weight[v] <= weight[w]
  BY WeightTyped
<1>2. \A v \in free : out[v] \in Nat /\ out[v] <= Full
  <2>1. free \subseteq Valve
    BY Circuits
  <2> QED
    BY <2>1, Circuits DEF Opening
<1>3. IsFiniteSet(free) /\ Full \in Nat
  BY Circuits, FS_Subset
<1>4. ASSUME NEW v \in free
      PROVE  gain[v] \in Nat /\ gain[v] * total = weight[v] * short
  <2>1. weight[v] * short \in Nat
    BY <1>1
  <2>2. gain[v] = (weight[v] * short) \div total
    OBVIOUS
  <2>3. gain[v] \in Nat
    BY <1>1, <2>1, <2>2, DividedNat
  <2>4. weight[v] * short = total * gain[v] + ((weight[v] * short) % total)
    <3> DEFINE due == weight[v] * short
    <3>1. due \in Int /\ gain[v] = due \div total
      BY <2>1
    <3> HIDE DEF due
    <3>2. due = total * (due \div total) + (due % total)
      BY <1>1, <3>1, Divided
    <3>3. due = total * gain[v] + (due % total)
      BY <3>1, <3>2
    <3> QED
      BY <3>3 DEF due
  <2>5. total * gain[v] \in Int /\ total * gain[v] = gain[v] * total
    BY <1>1, <2>3
  <2>6. (weight[v] * short) % total = 0
    OBVIOUS
  <2> QED
    BY <2>3, <2>4, <2>5, <2>6
<1>5. ASSUME NEW v \in free PROVE gain[v] <= Full - out[v]
  <2>1. ~ (weight[v] * short > (Full - out[v]) * total)
    BY DEF Clipped
  <2>2. Full - out[v] \in Int /\ gain[v] \in Int
    BY <1>2, <1>3, <1>4
  <2>3. weight[v] * short \in Int /\ (Full - out[v]) * total \in Int
    BY <1>1, <2>2
  <2>4. gain[v] * total <= (Full - out[v]) * total
    BY <1>4, <2>1, <2>3
  <2> QED
    BY <1>1, <2>2, <2>4, ProductOrder
<1>6. Total(gain, free) = short
  <2> DEFINE scaled == [v \in free |-> gain[v] * total]
  <2>1. Total(scaled, free) = Total(gain, free) * total
    <3>1. \A v \in free : gain[v] \in Int /\ scaled[v] = gain[v] * total
      BY <1>4
    <3> HIDE DEF scaled
    <3> QED
      BY <1>1, <1>3, <3>1, TotalScale
  <2>2. Total(scaled, free) = Total(weight, free) * short
    <3>1. \A v \in free : weight[v] \in Int /\ scaled[v] = weight[v] * short
      BY <1>1, <1>4
    <3> HIDE DEF scaled
    <3> QED
      BY <1>3, <3>1, TotalScale
  <2>3. Total(gain, free) \in Int
    BY <1>3, <1>4, TotalInt
  <2>4. Total(gain, free) * total = short * total
    <3>1. total * short = short * total
      BY <1>1
    <3> QED
      BY <2>1, <2>2, <3>1
  <2>5. Total(gain, free) <= short /\ short <= Total(gain, free)
    <3>1. Total(gain, free) * total \in Int
      BY <1>1, <2>3
    <3>2. /\ Total(gain, free) * total <= short * total
          /\ short * total <= Total(gain, free) * total
      BY <2>4, <3>1
    <3> QED
      BY <1>1, <2>3, <3>2, ProductOrder
  <2> QED
    BY <2>3, <2>5
<1>7. ASSUME NEW v \in free, NEW w \in free, out[v] <= out[w]
      PROVE  gain[v] <= gain[w]
  <2>1. weight[v] \in Nat /\ weight[w] \in Nat /\ weight[v] <= weight[w]
    BY <1>1, <1>7
  <2>2. weight[v] * short <= weight[w] * short
    BY <2>1, ProductOrder
  <2>3. gain[v] * total <= gain[w] * total /\ gain[v] \in Int /\ gain[w] \in Int
    BY <1>4, <2>2
  <2> QED
    BY <1>1, <2>3, ProductOrder
<1> QED
  BY <1>4, <1>5, <1>6, <1>7

----------------------------------------------------------------------------
(* The inductive invariant of the flow floor *)

\* What the floor has not looked at yet is as commanded, and it only opens.
Opens ==
  /\ stage = "floor" => driven = commanded
  /\ stage # "idle" => \A v \in Valve : commanded[v] <= driven[v]

\* In the loops, what is there and what is missing add up to the target, which
\* is above what was commanded and within reach.
Accounts ==
  stage \in {"willing", "satisfied"} =>
    /\ Total(driven, Fitted) + deficit = FloorTarget
    /\ Total(commanded, Fitted) < FloorTarget
    /\ FloorTarget < Full * Cardinality(Fitted)

\* Phase 1: while anything is missing, its group are the willing circuits that
\* are not full.
WillingFirst ==
  stage = "willing" =>
    /\ group \subseteq Willing(need)
    /\ \A v \in Satisfied(need) : driven[v] = commanded[v]
    /\ deficit > 0 => \A v \in Willing(need) : IF v \in group THEN driven[v] < Full
                                                             ELSE driven[v] = Full

\* Phase 2: those yet to come are as commanded and no needier than the group
\* by more than TieK; while anything is missing, everyone else is full.
SatisfiedNext ==
  stage = "satisfied" =>
    /\ group \subseteq Satisfied(need) /\ rest \subseteq Satisfied(need)
    /\ group \cap rest = {}
    /\ \A v \in rest : driven[v] = commanded[v]
    /\ \A v \in group, w \in group \cup rest : need[w] <= need[v] + TieK
    /\ deficit > 0 => \A v \in Fitted \ (group \cup rest) : driven[v] = Full

\* SatisfiedComeLast holds at every step on the way.
Allocated ==
  stage # "idle" =>
    \A v, w \in Fitted :
      /\ v \in Satisfied(need) /\ driven[v] > commanded[v]
           => \/ driven[w] = Full
              \/ w \in Satisfied(need) /\ need[w] <= need[v] + TieK
      /\ {v, w} \subseteq Willing(need) /\ commanded[v] <= commanded[w]
           => driven[v] <= driven[w]

FloorInv == Opens /\ Accounts /\ WillingFirst /\ SatisfiedNext /\ Allocated /\ FlowFloorKept

LEMMA Openings ==
  ASSUME FloorTypeOK, stage # "idle"
  PROVE  /\ \A v \in Valve : /\ commanded[v] \in Nat /\ commanded[v] <= Full
                             /\ driven[v] \in Nat /\ driven[v] <= Full
         /\ Total(commanded, Fitted) \in Nat /\ Total(driven, Fitted) \in Nat
<1>1. \A v \in Valve : /\ commanded[v] \in Nat /\ commanded[v] <= Full
                       /\ driven[v] \in Nat /\ driven[v] <= Full
  <2>1. commanded \in [Valve -> Opening] /\ driven \in [Valve -> Opening]
    BY DEF FloorTypeOK
  <2> QED
    BY <2>1, Circuits DEF Opening
<1>2. \A v \in Fitted : commanded[v] \in Nat /\ driven[v] \in Nat
  BY <1>1, Circuits
<1> QED
  BY <1>1, <1>2, Circuits, TotalOfPart

LEMMA Rooms ==
  ASSUME FloorTypeOK, stage # "idle"
  PROVE  /\ Willing(need) \subseteq Fitted /\ Satisfied(need) \subseteq Fitted
         /\ Satisfied(need) = Fitted \ Willing(need)
         /\ \A v \in Satisfied(need) : need[v] \in Int
<1>1. need \in [Fitted -> Int \cup {Unknown}]
  BY DEF FloorTypeOK
<1>2. ASSUME NEW v \in Satisfied(need) PROVE need[v] \in Int
  <2>1. v \in Fitted /\ need[v] # Unknown
    BY DEF Satisfied, Willing
  <2> QED
    BY <1>1, <2>1
<1> QED
  BY <1>2 DEF Satisfied, Willing

\* The floor is kept by what reaches the target, or was above it.
LEMMA TargetKept ==
  ASSUME FloorTypeOK, stage # "idle",
         Total(driven, Fitted) = FloorTarget, Total(commanded, Fitted) <= FloorTarget
  PROVE  PumpFlow(driven) = Max({MinOpen * Cardinality(Valve), PumpFlow(commanded)})
<1> DEFINE a == MinOpen * Cardinality(Valve)
           u == Full * Cardinality(Unfitted)
<1>1. a \in Int /\ u \in Int
  BY Circuits
<1>2. FloorTarget = a - u
  BY DEF FloorTarget
<1> HIDE DEF a, u
<1>3. /\ PumpFlow(driven) = Total(driven, Fitted) + u
      /\ PumpFlow(commanded) = Total(commanded, Fitted) + u
  BY DEF PumpFlow, u
<1>4. PumpFlow(commanded) \in Int
  BY <1>1, <1>3, Openings
<1>5. Max({a, PumpFlow(commanded)}) = IF a >= PumpFlow(commanded) THEN a
                                                               ELSE PumpFlow(commanded)
  BY <1>1, <1>4, TwoOf
<1> QED
  BY <1>1, <1>2, <1>3, <1>5, Openings DEF a

LEMMA NothingToRaise ==
  ASSUME FloorTypeOK, stage # "idle", driven = commanded,
         Fitted = {} \/ FloorTarget <= Total(driven, Fitted)
  PROVE  PumpFlow(driven) = Max({MinOpen * Cardinality(Valve), PumpFlow(commanded)})
<1> DEFINE a == MinOpen * Cardinality(Valve)
           u == Full * Cardinality(Unfitted)
<1>1. a \in Int /\ u \in Int
  BY Circuits
<1>2. FloorTarget = a - u
  BY DEF FloorTarget
<1>3. FloorTarget <= Total(driven, Fitted)
  <2>1. SUFFICES ASSUME Fitted = {} PROVE FloorTarget <= Total(driven, Fitted)
    OBVIOUS
  <2>2. Cardinality(Fitted) = 0
    BY <2>1, FS_EmptySet
  <2>3. Cardinality(Unfitted) = Cardinality(Valve)
    BY <2>2, Circuits
  <2>4. a <= u
    BY <2>3, Circuits, ProductOrder
  <2>5. Total(driven, Fitted) = 0
    BY <2>1, TotalEmpty
  <2> HIDE DEF a, u
  <2> QED
    BY <1>1, <1>2, <2>4, <2>5
<1> HIDE DEF a, u
<1>4. PumpFlow(driven) = Total(driven, Fitted) + u
  BY DEF PumpFlow, u
<1>5. PumpFlow(driven) \in Int /\ a <= PumpFlow(driven)
  BY <1>1, <1>2, <1>3, <1>4, Openings
<1>6. Max({a, PumpFlow(driven)}) = IF a >= PumpFlow(driven) THEN a ELSE PumpFlow(driven)
  BY <1>1, <1>5, TwoOf
<1> QED
  BY <1>1, <1>5, <1>6 DEF a

\* What is wide open carries as much as it can.
LEMMA WideOpen ==
  ASSUME NEW out, \A v \in Fitted : out[v] = Full
  PROVE  Total(out, Fitted) = Full * Cardinality(Fitted)
BY Circuits, TotalConstant

----------------------------------------------------------------------------
(* Every step keeps the invariant *)

FloorIInv == FloorTypeOK /\ FloorInv

LEMMA SharesKeeps ==
  ASSUME FloorIInv, Shares
  PROVE  FloorIInv'
<1>1. PICK raw \in [Valve -> Level], wants \in [Fitted -> Need] :
        /\ need' = wants /\ peak' = Peak(peak, raw)
        /\ commanded' = Distribute(raw, peak') /\ driven' = commanded'
  BY DEF Shares
<1>2. stage' = "floor" /\ UNCHANGED <<group, rest, deficit>>
  BY DEF Shares
<1>3. FloorTypeOK'
  <2>1. peak' \in Nat
    BY <1>1, PeakTyped DEF FloorIInv, FloorTypeOK
  <2>2. commanded' \in [Valve -> Opening]
    BY <1>1, <2>1, DistributeTyped
  <2>3. need' \in [Fitted -> Int \cup {Unknown}]
    <3>1. Need \subseteq Int \cup {Unknown}
      BY FloorAssumption
    <3> QED
      BY <1>1, <3>1
  <2> QED
    BY <1>1, <1>2, <2>1, <2>2, <2>3 DEF FloorIInv, FloorTypeOK
<1>4. \A v \in Valve : commanded'[v] \in Nat
  BY <1>2, <1>3, Circuits DEF FloorTypeOK, Opening
<1>5. Opens'
  BY <1>1, <1>2, <1>4 DEF Opens
<1>6. Allocated'
  <2>1. \A v \in Fitted : commanded'[v] \in Nat
    BY <1>4, Circuits
  <2> QED
    BY <1>1, <1>2, <2>1 DEF Allocated
<1> QED
  BY <1>2, <1>3, <1>5, <1>6
     DEF FloorIInv, FloorInv, Accounts, WillingFirst, SatisfiedNext, FlowFloorKept

LEMMA FloorMetKeeps ==
  ASSUME FloorIInv, FloorMet
  PROVE  FloorIInv'
<1>1. /\ stage = "floor" /\ stage' = "done"
      /\ UNCHANGED <<peak, need, commanded, driven, group, rest, deficit>>
      /\ Fitted = {} \/ FloorTarget <= Total(driven, Fitted)
  BY DEF FloorMet
<1>2. FloorTypeOK /\ driven = commanded
  BY <1>1 DEF FloorIInv, FloorInv, Opens
<1>3. FloorTypeOK'
  BY <1>1, <1>2 DEF FloorTypeOK
<1>4. Opens'
  BY <1>1 DEF FloorIInv, FloorInv, Opens
<1>5. Allocated'
  BY <1>1 DEF FloorIInv, FloorInv, Allocated
<1>6. FlowFloorKept'
  <2>1. PumpFlow(driven) = Max({MinOpen * Cardinality(Valve), PumpFlow(commanded)})
    BY <1>1, <1>2, NothingToRaise
  <2>2. \A v \in Valve : commanded[v] <= driven[v] /\ driven[v] <= Full
    BY <1>1, <1>2, Openings
  <2> QED
    BY <1>1, <2>1, <2>2 DEF FlowFloorKept
<1> QED
  BY <1>1, <1>3, <1>4, <1>5, <1>6
     DEF FloorIInv, FloorInv, Accounts, WillingFirst, SatisfiedNext

LEMMA FloorUnreachableKeeps ==
  ASSUME FloorIInv, FloorUnreachable
  PROVE  FloorIInv'
<1>1. /\ stage = "floor" /\ stage' = "done"
      /\ UNCHANGED <<peak, need, commanded, group, rest, deficit>>
      /\ FloorTarget > Total(driven, Fitted)
      /\ FloorTarget >= Full * Cardinality(Fitted)
      /\ driven' = [v \in Valve |-> IF v \in Fitted THEN Full ELSE driven[v]]
  BY DEF FloorUnreachable
<1>2. FloorTypeOK /\ driven = commanded
  BY <1>1 DEF FloorIInv, FloorInv, Opens
<1>3. /\ \A v \in Fitted : driven'[v] = Full
      /\ \A v \in Valve \ Fitted : driven'[v] = commanded[v]
  BY <1>1, <1>2, Circuits
<1>4. FloorTypeOK'
  <2>1. driven' \in [Valve -> Opening]
    BY <1>1, <1>2, Circuits DEF FloorTypeOK, Opening
  <2> QED
    BY <1>1, <1>2, <2>1 DEF FloorTypeOK
<1>5. \A v \in Valve : commanded[v] <= driven'[v]
  BY <1>1, <1>2, <1>3, Openings
<1>6. Opens'
  BY <1>1, <1>5 DEF Opens
<1>7. Allocated'
  BY <1>1, <1>3, Circuits DEF Allocated, Willing
<1>8. Total(driven', Fitted) = FloorTarget
  <2> DEFINE a == MinOpen * Cardinality(Valve)
             u == Full * Cardinality(Unfitted)
             f == Full * Cardinality(Fitted)
             t == Full * Cardinality(Valve)
  <2>1. Total(driven', Fitted) = f
    BY <1>3, WideOpen
  <2>2. a \in Int /\ u \in Int /\ f \in Int /\ t \in Int
    BY Circuits
  <2>3. FloorTarget = a - u /\ FloorTarget >= f
    BY <1>1 DEF FloorTarget
  <2>4. a <= t
    BY Circuits, ProductOrder
  <2>5. t = f + u
    BY Circuits
  <2> HIDE DEF a, u, f, t
  <2> QED
    BY <2>1, <2>2, <2>3, <2>4, <2>5
<1>9. PumpFlow(driven') = Max({MinOpen * Cardinality(Valve), PumpFlow(commanded')})
  <2>1. Total(commanded', Fitted) <= FloorTarget
    <3>1. FloorTarget \in Int
      BY Circuits DEF FloorTarget
    <3> QED
      BY <1>1, <1>2, <3>1, Openings
  <2>2. stage' # "idle"
    BY <1>1
  <2>3. (FloorTypeOK /\ stage # "idle" /\ Total(driven, Fitted) = FloorTarget
          /\ Total(commanded, Fitted) <= FloorTarget
         => PumpFlow(driven) = Max({MinOpen * Cardinality(Valve), PumpFlow(commanded)}))'
    BY TargetKept, PTL
  <2> QED
    BY <1>4, <1>8, <2>1, <2>2, <2>3
<1>10. FlowFloorKept'
  <2>1. \A v \in Valve : driven'[v] <= Full
    BY <1>4, <1>1, Circuits DEF FloorTypeOK, Opening
  <2> QED
    BY <1>1, <1>5, <1>9, <2>1 DEF FlowFloorKept
<1> QED
  BY <1>1, <1>4, <1>6, <1>7, <1>10
     DEF FloorIInv, FloorInv, Accounts, WillingFirst, SatisfiedNext

LEMMA FloorShortKeeps ==
  ASSUME FloorIInv, FloorShort
  PROVE  FloorIInv'
<1>1. /\ stage = "floor" /\ stage' = "willing"
      /\ UNCHANGED <<peak, need, commanded, driven, rest>>
      /\ FloorTarget > Total(driven, Fitted)
      /\ FloorTarget < Full * Cardinality(Fitted)
      /\ deficit' = FloorTarget - Total(driven, Fitted)
      /\ group' = {v \in Willing(need) : driven[v] < Full}
  BY DEF FloorShort, NotYetFull
<1>2. FloorTypeOK /\ driven = commanded
  BY <1>1 DEF FloorIInv, FloorInv, Opens
<1>3. FloorTarget \in Int /\ Total(driven, Fitted) \in Nat
  <2>1. FloorTarget \in Int
    BY Circuits DEF FloorTarget
  <2> QED
    BY <1>1, <1>2, <2>1, Openings
<1>4. deficit' \in Nat
  BY <1>1, <1>3
<1>5. Willing(need) \subseteq Fitted
  BY <1>1, <1>2, Rooms
<1>6. FloorTypeOK'
  <2>1. group' \subseteq Fitted
    BY <1>1, <1>5
  <2> QED
    BY <1>1, <1>2, <1>4, <2>1 DEF FloorTypeOK
<1>7. Opens'
  BY <1>1 DEF FloorIInv, FloorInv, Opens
<1>8. Accounts'
  <2>1. Total(driven, Fitted) + deficit' = FloorTarget
    BY <1>1, <1>3
  <2> QED
    BY <1>1, <1>2, <2>1 DEF Accounts
<1>9. WillingFirst'
  <2>1. \A v \in Willing(need) : driven[v] \in Nat /\ driven[v] <= Full
    BY <1>1, <1>2, <1>5, Circuits, Openings
  <2>2. \A v \in Willing(need) : IF v \in group' THEN driven[v] < Full
                                                 ELSE driven[v] = Full
    BY <1>1, <2>1, Circuits
  <2> QED
    BY <1>1, <1>2, <2>2 DEF WillingFirst
<1>10. Allocated'
  BY <1>1 DEF FloorIInv, FloorInv, Allocated
<1> QED
  BY <1>1, <1>6, <1>7, <1>8, <1>9, <1>10
     DEF FloorIInv, FloorInv, SatisfiedNext, FlowFloorKept

LEMMA WillingClipKeeps ==
  ASSUME FloorIInv, WillingClip
  PROVE  /\ FloorIInv'
         /\ rest' = rest /\ group' \subseteq group /\ group' # group
<1> DEFINE C == Clipped(driven, group, deficit)
           lack == [v \in C |-> Full - driven[v]]
<1>1. /\ stage = "willing" /\ stage' = "willing" /\ deficit > 0 /\ C # {}
      /\ UNCHANGED <<peak, need, commanded, rest>>
      /\ driven' = [v \in Valve |-> IF v \in C THEN Full ELSE driven[v]]
      /\ group' = group \ C
      /\ deficit' = deficit - Total(lack, C)
  BY DEF WillingClip
<1>2. /\ FloorTypeOK /\ deficit \in Nat /\ group \in SUBSET Fitted
      /\ driven \in [Valve -> Opening]
  BY <1>1 DEF FloorIInv, FloorTypeOK
<1>3. /\ group \subseteq Willing(need)
      /\ \A v \in Satisfied(need) : driven[v] = commanded[v]
      /\ \A v \in Willing(need) : IF v \in group THEN driven[v] < Full
                                                 ELSE driven[v] = Full
  BY <1>1 DEF FloorIInv, FloorInv, WillingFirst
<1>4. /\ C \subseteq group /\ Total(lack, C) \in Nat /\ Total(lack, C) <= deficit
  <2>1. \A v \in C : lack[v] = Full - driven[v]
    OBVIOUS
  <2> HIDE DEF lack
  <2> QED
    BY <1>2, <2>1, ClippedFits
<1>5. /\ Willing(need) \subseteq Fitted /\ Satisfied(need) = Fitted \ Willing(need)
  BY <1>1, <1>2, Rooms
<1>6. \A v \in Valve : /\ driven[v] \in Nat /\ driven[v] <= Full
                       /\ commanded[v] \in Nat /\ commanded[v] <= Full
  BY <1>1, <1>2, Openings
<1>7. ASSUME NEW v \in Valve, NEW w \in Valve,
             v \in C, w \in group, driven[v] <= driven[w]
      PROVE  w \in C
  BY <1>2, <1>7, ClippedInOrder
<1>8. C \subseteq Fitted /\ Fitted \subseteq Valve /\ Full \in Nat /\ IsFiniteSet(Fitted)
  BY <1>2, <1>4, Circuits
<1>9. Total(driven', Fitted) = Total(driven, Fitted) + Total(lack, C)
  <2>1. /\ \A v \in Fitted : driven[v] \in Int
        /\ \A v \in C : lack[v] \in Int /\ driven'[v] = driven[v] + lack[v]
        /\ \A v \in Fitted \ C : driven'[v] = driven[v]
    BY <1>1, <1>6, <1>8
  <2> HIDE DEF lack, C
  <2> QED
    BY <1>8, <2>1, TotalRaised
<1> HIDE DEF C, lack
<1>10. /\ \A v \in C : driven'[v] = Full
       /\ \A v \in Valve \ C : driven'[v] = driven[v]
  BY <1>1, <1>8
<1>11. FloorTypeOK'
  <2>1. driven' \in [Valve -> Opening]
    BY <1>1, <1>2, <1>8 DEF Opening
  <2>2. deficit' \in Nat /\ group' \subseteq Fitted
    BY <1>1, <1>2, <1>4
  <2> QED
    BY <1>1, <1>2, <2>1, <2>2 DEF FloorTypeOK
<1>12. Opens'
  <2>1. \A v \in Valve : commanded[v] <= driven'[v]
    <3>1. \A v \in Valve : commanded[v] <= driven[v]
      BY <1>1 DEF FloorIInv, FloorInv, Opens
    <3> QED
      BY <1>6, <1>10, <3>1
  <2> QED
    BY <1>1, <2>1 DEF Opens
<1>13. Accounts'
  <2>1. /\ Total(driven, Fitted) + deficit = FloorTarget
        /\ Total(commanded, Fitted) < FloorTarget
        /\ FloorTarget < Full * Cardinality(Fitted)
    BY <1>1 DEF FloorIInv, FloorInv, Accounts
  <2>2. Total(driven, Fitted) \in Nat
    BY <1>1, <1>2, Openings
  <2>3. Total(driven', Fitted) + deficit' = FloorTarget
    BY <1>1, <1>2, <1>4, <1>9, <2>1, <2>2
  <2> QED
    BY <1>1, <2>1, <2>3 DEF Accounts
<1>14. WillingFirst'
  <2>1. \A v \in Satisfied(need) : driven'[v] = commanded[v]
    BY <1>3, <1>4, <1>5, <1>8, <1>10
  <2>2. \A v \in Willing(need) : IF v \in group' THEN driven'[v] < Full
                                                 ELSE driven'[v] = Full
    BY <1>1, <1>3, <1>5, <1>8, <1>10
  <2>3. group' \subseteq Willing(need)
    BY <1>1, <1>3
  <2> QED
    BY <1>1, <2>1, <2>2, <2>3 DEF WillingFirst
<1>15. Allocated'
  <2>1. \A v \in Satisfied(need) : /\ driven'[v] = commanded[v]
                                   /\ commanded[v] \in Nat
    BY <1>3, <1>4, <1>5, <1>6, <1>8, <1>10
  <2>2. ASSUME NEW v \in Willing(need), NEW w \in Willing(need),
               commanded[v] <= commanded[w]
        PROVE  driven'[v] <= driven'[w]
    <3>1. v \in Valve /\ w \in Valve
      BY <1>5, <1>8
    <3>2. driven[v] <= driven[w]
      BY <1>1, <1>5, <2>2 DEF FloorIInv, FloorInv, Allocated
    <3>3. CASE w \in C \/ w \notin group
      <4>1. driven'[w] = Full
        BY <1>3, <1>10, <3>1, <3>3
      <4>2. driven'[v] <= Full
        BY <1>6, <1>8, <1>10, <3>1
      <4> QED
        BY <4>1, <4>2
    <3>4. CASE w \in group /\ w \notin C
      <4>1. v \notin C
        BY <1>7, <3>1, <3>2, <3>4
      <4> QED
        BY <1>10, <3>1, <3>2, <3>4, <4>1
    <3> QED
      BY <3>3, <3>4
  <2>3. ASSUME NEW v \in Satisfied(need) PROVE ~ (driven'[v] > commanded[v])
    BY <2>1
  <2> QED
    BY <1>1, <2>2, <2>3 DEF Allocated
<1>16. FloorIInv'
  BY <1>1, <1>11, <1>12, <1>13, <1>14, <1>15
     DEF FloorIInv, FloorInv, SatisfiedNext, FlowFloorKept
<1>17. rest' = rest /\ group' \subseteq group /\ group' # group
  BY <1>1, <1>4
<1> QED
  BY <1>16, <1>17

LEMMA WillingShareKeeps ==
  ASSUME FloorIInv, WillingShare
  PROVE  FloorIInv' /\ deficit' = 0
<1> DEFINE weight == Weight(driven, group)
           total == Total(weight, group)
           gain == [v \in group |-> (weight[v] * deficit) \div total]
<1>1. /\ stage = "willing" /\ stage' = "willing" /\ deficit > 0
      /\ group # {} /\ Clipped(driven, group, deficit) = {}
      /\ UNCHANGED <<peak, need, commanded, group, rest>> /\ deficit' = 0
      /\ \A v \in group : (weight[v] * deficit) % total = 0
      /\ driven' = [v \in Valve |-> IF v \in group
                                    THEN driven[v] + (weight[v] * deficit) \div total
                                    ELSE driven[v]]
  BY DEF WillingShare
<1>2. /\ FloorTypeOK /\ deficit \in Nat /\ group \in SUBSET Fitted
      /\ driven \in [Valve -> Opening]
  BY <1>1 DEF FloorIInv, FloorTypeOK
<1>3. /\ group \subseteq Willing(need)
      /\ \A v \in Satisfied(need) : driven[v] = commanded[v]
      /\ \A v \in Willing(need) : IF v \in group THEN driven[v] < Full
                                                 ELSE driven[v] = Full
  BY <1>1 DEF FloorIInv, FloorInv, WillingFirst
<1>4. /\ Willing(need) \subseteq Fitted /\ Satisfied(need) = Fitted \ Willing(need)
  BY <1>1, <1>2, Rooms
<1>5. \A v \in Valve : /\ driven[v] \in Nat /\ driven[v] <= Full
                       /\ commanded[v] \in Nat /\ commanded[v] <= Full
  BY <1>1, <1>2, Openings
<1>6. Fitted \subseteq Valve /\ Full \in Nat /\ IsFiniteSet(Fitted)
  BY Circuits
<1>7. /\ \A v \in group : driven'[v] = driven[v] + gain[v]
      /\ \A v \in Valve \ group : driven'[v] = driven[v]
  BY <1>1, <1>2, <1>6
<1>8. /\ \A v \in group : gain[v] \in Nat /\ gain[v] <= Full - driven[v]
      /\ Total(gain, group) = deficit
      /\ \A v, w \in group : driven[v] <= driven[w] => gain[v] <= gain[w]
  <2>1. \A v \in group : gain[v] = (weight[v] * deficit) \div total
    OBVIOUS
  <2> HIDE DEF gain
  <2> QED
    BY <1>1, <1>2, <2>1, PartsFit
<1> HIDE DEF weight, total, gain
<1>9. FloorTypeOK'
  <2>1. driven' \in [Valve -> Opening]
    <3>1. \A v \in Valve : driven'[v] \in Opening
      BY <1>2, <1>5, <1>6, <1>7, <1>8 DEF Opening
    <3> QED
      BY <1>1, <3>1
  <2> QED
    BY <1>1, <1>2, <2>1 DEF FloorTypeOK
<1>10. Opens'
  <2>1. \A v \in Valve : commanded[v] <= driven'[v]
    <3>1. \A v \in Valve : commanded[v] <= driven[v]
      BY <1>1 DEF FloorIInv, FloorInv, Opens
    <3> QED
      BY <1>5, <1>7, <1>8, <3>1
  <2> QED
    BY <1>1, <2>1 DEF Opens
<1>11. Accounts'
  <2>1. /\ Total(driven, Fitted) + deficit = FloorTarget
        /\ Total(commanded, Fitted) < FloorTarget
        /\ FloorTarget < Full * Cardinality(Fitted)
    BY <1>1 DEF FloorIInv, FloorInv, Accounts
  <2>2. Total(driven, Fitted) \in Nat
    BY <1>1, <1>2, Openings
  <2>3. Total(driven', Fitted) = Total(driven, Fitted) + Total(gain, group)
    <3>1. /\ \A v \in Fitted : driven[v] \in Int
          /\ \A v \in group : gain[v] \in Int /\ driven'[v] = driven[v] + gain[v]
          /\ \A v \in Fitted \ group : driven'[v] = driven[v]
      BY <1>5, <1>6, <1>7, <1>8
    <3> QED
      BY <1>2, <1>6, <3>1, TotalRaised
  <2>4. Total(driven', Fitted) + deficit' = FloorTarget
    BY <1>1, <1>2, <1>8, <2>1, <2>2, <2>3
  <2> QED
    BY <1>1, <2>1, <2>4 DEF Accounts
<1>12. WillingFirst'
  <2>1. \A v \in Satisfied(need) : driven'[v] = commanded[v]
    BY <1>3, <1>4, <1>6, <1>7
  <2> QED
    BY <1>1, <1>3, <2>1 DEF WillingFirst
<1>13. Allocated'
  <2>1. \A v \in Satisfied(need) : /\ driven'[v] = commanded[v]
                                   /\ commanded[v] \in Nat
    BY <1>3, <1>4, <1>5, <1>6, <1>7
  <2>2. ASSUME NEW v \in Willing(need), NEW w \in Willing(need),
               commanded[v] <= commanded[w]
        PROVE  driven'[v] <= driven'[w]
    <3>1. v \in Valve /\ w \in Valve
      BY <1>4, <1>6
    <3>2. driven[v] <= driven[w]
      BY <1>1, <1>4, <2>2 DEF FloorIInv, FloorInv, Allocated
    <3>3. CASE w \notin group
      <4>1. driven'[w] = Full
        BY <1>3, <1>7, <3>1, <3>3
      <4>2. driven'[v] <= Full
        BY <1>5, <1>6, <1>7, <1>8, <3>1
      <4> QED
        BY <4>1, <4>2
    <3>4. CASE w \in group
      <4>1. v \in group
        <5>1. driven[w] < Full /\ driven[w] \in Nat
          BY <1>3, <1>5, <3>1, <3>4
        <5>2. driven[v] # Full
          BY <1>6, <3>2, <5>1
        <5> QED
          BY <1>3, <5>2
      <4>2. gain[v] <= gain[w] /\ gain[v] \in Nat /\ gain[w] \in Nat
        BY <1>8, <3>2, <3>4, <4>1
      <4>3. driven[v] \in Nat /\ driven[w] \in Nat
        BY <1>5, <3>1
      <4> QED
        BY <1>7, <3>2, <3>4, <4>1, <4>2, <4>3
    <3> QED
      BY <3>3, <3>4
  <2>3. ASSUME NEW v \in Satisfied(need) PROVE ~ (driven'[v] > commanded[v])
    BY <2>1
  <2> QED
    BY <1>1, <2>2, <2>3 DEF Allocated
<1> QED
  BY <1>1, <1>9, <1>10, <1>11, <1>12, <1>13
     DEF FloorIInv, FloorInv, SatisfiedNext, FlowFloorKept

LEMMA WillingEndKeeps ==
  ASSUME FloorIInv, WillingEnd
  PROVE  FloorIInv'
<1>1. /\ stage = "willing" /\ stage' = "satisfied" /\ (group = {} \/ deficit = 0)
      /\ UNCHANGED <<peak, need, commanded, driven, deficit>>
      /\ group' = {} /\ rest' = {v \in Satisfied(need) : driven[v] < Full}
  BY DEF WillingEnd, NotYetFull
<1>2. FloorTypeOK
  BY DEF FloorIInv
<1>3. /\ \A v \in Satisfied(need) : driven[v] = commanded[v]
      /\ deficit > 0 => \A v \in Willing(need) : IF v \in group THEN driven[v] < Full
                                                               ELSE driven[v] = Full
  BY <1>1 DEF FloorIInv, FloorInv, WillingFirst
<1>4. /\ Willing(need) \subseteq Fitted /\ Satisfied(need) \subseteq Fitted
      /\ Satisfied(need) = Fitted \ Willing(need)
  BY <1>1, <1>2, Rooms
<1>5. FloorTypeOK'
  <2>1. group' \subseteq Fitted /\ rest' \subseteq Fitted
    BY <1>1, <1>4
  <2> QED
    BY <1>1, <1>2, <2>1 DEF FloorTypeOK
<1>6. Opens'
  BY <1>1 DEF FloorIInv, FloorInv, Opens
<1>7. Accounts'
  BY <1>1 DEF FloorIInv, FloorInv, Accounts
<1>8. SatisfiedNext'
  <2>1. ASSUME deficit > 0, NEW v \in Fitted, v \notin rest'
        PROVE  driven[v] = Full
    <3>1. CASE v \in Willing(need)
      <4>1. deficit # 0
        BY <2>1
      <4> QED
        BY <1>1, <1>3, <2>1, <3>1, <4>1
    <3>2. CASE v \in Satisfied(need)
      <4>1. driven[v] \in Nat /\ driven[v] <= Full /\ ~ (driven[v] < Full)
        BY <1>1, <1>2, <2>1, <3>2, Circuits, Openings
      <4> QED
        BY <4>1, Circuits
    <3> QED
      BY <1>4, <3>1, <3>2
  <2>2. \A v \in rest' : driven'[v] = commanded'[v]
    BY <1>1, <1>3
  <2>3. /\ group' \subseteq Satisfied(need') /\ rest' \subseteq Satisfied(need')
        /\ group' \cap rest' = {}
    BY <1>1
  <2> QED
    BY <1>1, <2>1, <2>2, <2>3 DEF SatisfiedNext
<1>9. Allocated'
  BY <1>1 DEF FloorIInv, FloorInv, Allocated
<1> QED
  BY <1>1, <1>5, <1>6, <1>7, <1>8, <1>9
     DEF FloorIInv, FloorInv, WillingFirst, FlowFloorKept

LEMMA NextGroupKeeps ==
  ASSUME FloorIInv, NextGroup
  PROVE  FloorIInv' /\ rest' \subseteq rest /\ rest' # rest
<1> DEFINE first == {v \in rest : \A w \in rest : need[w] - need[v] <= TieK}
<1>1. /\ stage = "satisfied" /\ stage' = "satisfied" /\ deficit > 0
      /\ group = {} /\ rest # {} /\ group' = first /\ rest' = rest \ first
      /\ UNCHANGED <<peak, need, commanded, driven, deficit>>
  BY DEF NextGroup, FirstGroup
<1>2. FloorTypeOK /\ rest \subseteq Fitted
  BY DEF FloorIInv, FloorTypeOK
<1>3. /\ rest \subseteq Satisfied(need)
      /\ \A v \in rest : driven[v] = commanded[v]
      /\ \A v \in Fitted \ (group \cup rest) : driven[v] = Full
  BY <1>1 DEF FloorIInv, FloorInv, SatisfiedNext
<1>4. \A v \in rest : need[v] \in Int
  BY <1>1, <1>2, <1>3, Rooms
<1>5. first # {}
  <2>1. IsFiniteSet(rest)
    BY <1>2, Circuits, FS_Subset
  <2>2. PICK v \in rest : \A w \in rest : need[w] <= need[v]
    BY <1>1, <1>4, <2>1, GreatestValue
  <2>3. \A w \in rest : need[w] - need[v] <= TieK
    BY <1>4, <2>2, Circuits
  <2> QED
    BY <2>3
<1>6. \A v \in first, w \in rest : need[w] <= need[v] + TieK
  <2>1. SUFFICES ASSUME NEW v \in first, NEW w \in rest PROVE need[w] <= need[v] + TieK
    OBVIOUS
  <2>2. need[w] - need[v] <= TieK /\ need[w] \in Int /\ need[v] \in Int
    BY <1>4
  <2> QED
    BY <2>2, Circuits
<1>7. first \subseteq rest
  OBVIOUS
<1> HIDE DEF first
<1>8. FloorTypeOK'
  BY <1>1, <1>2, <1>7 DEF FloorTypeOK
<1>9. Opens'
  BY <1>1 DEF FloorIInv, FloorInv, Opens
<1>10. Accounts'
  BY <1>1 DEF FloorIInv, FloorInv, Accounts
<1>11. SatisfiedNext'
  <2>1. \A v \in group', w \in group' \cup rest' : need[w] <= need[v] + TieK
    BY <1>1, <1>6, <1>7
  <2>2. group' \cup rest' = group \cup rest
    BY <1>1, <1>7
  <2> QED
    BY <1>1, <1>3, <1>7, <2>1, <2>2 DEF SatisfiedNext
<1>12. Allocated'
  BY <1>1 DEF FloorIInv, FloorInv, Allocated
<1>13. FloorIInv'
  BY <1>1, <1>8, <1>9, <1>10, <1>11, <1>12
     DEF FloorIInv, FloorInv, WillingFirst, FlowFloorKept
<1> QED
  BY <1>1, <1>5, <1>7, <1>13

\* A group is raised by what every one of its circuits has room for, and by no
\* more than what is missing; either fills one of them or settles the deficit.
LEMMA StepFits ==
  ASSUME NEW short \in Nat, NEW size \in Nat \ {0}, NEW room \in Nat, NEW step,
         step = IF room * size <= short THEN room ELSE short \div size,
         room * size <= short \/ short % size = 0
  PROVE  /\ step \in Nat /\ step <= room
         /\ short - step * size \in Nat
         /\ step = room \/ short - step * size = 0
<1>1. CASE room * size <= short
  <2>1. step = room /\ room * size \in Nat
    BY <1>1
  <2> QED
    BY <1>1, <2>1
<1>2. CASE ~ (room * size <= short)
  <2>1. step = short \div size /\ short % size = 0
    BY <1>2
  <2>2. step \in Nat
    BY <2>1, DividedNat
  <2>3. short = size * (short \div size) + (short % size)
    BY Divided
  <2>4. step * size \in Nat /\ room * size \in Nat /\ step * size = size * step
    BY <2>2
  <2>5. size * step = short
    BY <2>1, <2>2, <2>3
  <2>6. step * size < room * size
    BY <1>2, <2>4, <2>5
  <2>7. step < room
    BY <2>2, <2>6, ProductOrder
  <2> QED
    BY <2>2, <2>4, <2>5, <2>7
<1> QED
  BY <1>1, <1>2

LEMMA RaiseGroupKeeps ==
  ASSUME FloorIInv, RaiseGroup
  PROVE  /\ FloorIInv'
         /\ deficit' = 0 \/ (rest' = rest /\ group' \subseteq group /\ group' # group)
<1> DEFINE size == Cardinality(group)
           rooms == {Full - driven[v] : v \in group}
           room == Min(rooms)
           step == IF room * size <= deficit THEN room ELSE deficit \div size
           gain == [v \in group |-> step]
<1>1. /\ stage = "satisfied" /\ stage' = "satisfied" /\ deficit > 0 /\ group # {}
      /\ room * size <= deficit \/ deficit % size = 0
      /\ driven' = [v \in Valve |-> IF v \in group THEN driven[v] + step ELSE driven[v]]
      /\ deficit' = deficit - step * size
      /\ group' = {v \in group : driven'[v] < Full}
      /\ UNCHANGED <<peak, need, commanded, rest>>
  BY DEF RaiseGroup, NotYetFull
<1>2. /\ FloorTypeOK /\ deficit \in Nat /\ group \subseteq Fitted /\ rest \subseteq Fitted
      /\ driven \in [Valve -> Opening]
  BY <1>1 DEF FloorIInv, FloorTypeOK
<1>3. /\ group \subseteq Satisfied(need) /\ rest \subseteq Satisfied(need)
      /\ group \cap rest = {}
      /\ \A v \in rest : driven[v] = commanded[v]
      /\ \A v \in group, w \in group \cup rest : need[w] <= need[v] + TieK
      /\ \A v \in Fitted \ (group \cup rest) : driven[v] = Full
  BY <1>1 DEF FloorIInv, FloorInv, SatisfiedNext
<1>4. \A v \in Valve : /\ driven[v] \in Nat /\ driven[v] <= Full
                       /\ commanded[v] \in Nat /\ commanded[v] <= Full
  BY <1>1, <1>2, Openings
<1>5. Fitted \subseteq Valve /\ Full \in Nat /\ IsFiniteSet(Fitted)
  BY Circuits
<1>6. IsFiniteSet(group) /\ size \in Nat \ {0}
  <2>1. IsFiniteSet(group)
    BY <1>2, <1>5, FS_Subset
  <2>2. size \in Nat /\ size # 0
    BY <1>1, <2>1, FS_CardinalityType, FS_EmptySet
  <2> QED
    BY <2>1, <2>2
<1>7. room \in rooms /\ room \in Nat /\ \A v \in group : room <= Full - driven[v]
  <2>1. rooms \in SUBSET Nat /\ rooms # {}
    <3>1. \A v \in group : Full - driven[v] \in Nat
      BY <1>2, <1>4, <1>5
    <3> QED
      BY <1>1, <3>1
  <2>2. Min(rooms) \in rooms /\ \A m \in rooms : Min(rooms) <= m
    BY <2>1, MinOfNats
  <2> QED
    BY <2>1, <2>2
<1>8. PICK full \in group : room = Full - driven[full]
  BY <1>7
<1>9. /\ step \in Nat /\ step <= room /\ deficit' \in Nat
      /\ step = room \/ deficit' = 0
  <2>1. step = IF room * size <= deficit THEN room ELSE deficit \div size
    OBVIOUS
  <2> HIDE DEF step, room, size
  <2> QED
    BY <1>1, <1>2, <1>6, <1>7, <2>1, StepFits
<1>10. \A v \in group : gain[v] = step
  OBVIOUS
<1> HIDE DEF gain, step, room, rooms
<1>11. /\ \A v \in group : driven'[v] = driven[v] + step
       /\ \A v \in Valve \ group : driven'[v] = driven[v]
  BY <1>1, <1>2, <1>5
<1>12. \A v \in group : driven'[v] \in Nat /\ driven[v] <= driven'[v] /\ driven'[v] <= Full
  <2>1. SUFFICES ASSUME NEW v \in group
                 PROVE  driven'[v] \in Nat /\ driven[v] <= driven'[v] /\ driven'[v] <= Full
    OBVIOUS
  <2>2. /\ driven'[v] = driven[v] + step /\ driven[v] \in Nat
        /\ room <= Full - driven[v]
    BY <1>2, <1>4, <1>5, <1>7, <1>11
  <2> QED
    BY <1>5, <1>7, <1>9, <2>2
<1>13. \A v \in Valve : driven'[v] \in Nat /\ driven[v] <= driven'[v] /\ driven'[v] <= Full
  BY <1>4, <1>11, <1>12
<1>14. FloorTypeOK'
  <2>1. driven' \in [Valve -> Opening]
    <3>1. \A v \in Valve : driven'[v] \in Opening
      BY <1>5, <1>13 DEF Opening
    <3> QED
      BY <1>1, <3>1
  <2>2. group' \subseteq Fitted
    BY <1>1, <1>2
  <2> QED
    BY <1>1, <1>2, <1>9, <2>1, <2>2 DEF FloorTypeOK
<1>15. Opens'
  <2>1. \A v \in Valve : commanded[v] <= driven'[v]
    <3>1. \A v \in Valve : commanded[v] <= driven[v]
      BY <1>1 DEF FloorIInv, FloorInv, Opens
    <3> QED
      BY <1>4, <1>13, <3>1
  <2> QED
    BY <1>1, <2>1 DEF Opens
<1>16. Accounts'
  <2>1. /\ Total(driven, Fitted) + deficit = FloorTarget
        /\ Total(commanded, Fitted) < FloorTarget
        /\ FloorTarget < Full * Cardinality(Fitted)
    BY <1>1 DEF FloorIInv, FloorInv, Accounts
  <2>2. Total(driven, Fitted) \in Nat
    BY <1>1, <1>2, Openings
  <2>3. Total(gain, group) = step * size
    BY <1>6, <1>9, <1>10, TotalConstant
  <2>4. Total(driven', Fitted) = Total(driven, Fitted) + Total(gain, group)
    <3>1. /\ \A v \in Fitted : driven[v] \in Int
          /\ \A v \in group : gain[v] \in Int /\ driven'[v] = driven[v] + gain[v]
          /\ \A v \in Fitted \ group : driven'[v] = driven[v]
      BY <1>4, <1>5, <1>9, <1>10, <1>11
    <3> QED
      BY <1>2, <1>5, <3>1, TotalRaised
  <2>5. step * size \in Int
    BY <1>6, <1>9
  <2> HIDE DEF size
  <2>6. Total(driven', Fitted) + deficit' = FloorTarget
    BY <1>1, <1>2, <2>1, <2>2, <2>3, <2>4, <2>5
  <2> QED
    BY <1>1, <2>1, <2>6 DEF Accounts
<1> HIDE DEF size
<1>17. SatisfiedNext'
  <2>1. ASSUME NEW v \in Fitted, v \notin group', v \notin rest'
        PROVE  driven'[v] = Full
    <3>1. CASE v \in group
      <4>1. ~ (driven'[v] < Full) /\ driven'[v] \in Nat /\ driven'[v] <= Full
        BY <1>1, <1>12, <2>1, <3>1
      <4> QED
        BY <1>5, <4>1
    <3>2. CASE v \notin group
      BY <1>1, <1>3, <1>5, <1>11, <2>1, <3>2
    <3> QED
      BY <3>1, <3>2
  <2>2. \A v \in rest : driven'[v] = commanded[v]
    BY <1>2, <1>3, <1>5, <1>11
  <2>3. group' \subseteq group
    BY <1>1
  <2>4. \A v \in group', w \in group' \cup rest' : need'[w] <= need'[v] + TieK
    BY <1>1, <1>3, <2>3
  <2> QED
    BY <1>1, <1>3, <2>1, <2>2, <2>3, <2>4 DEF SatisfiedNext
<1>18. Allocated'
  <2>1. Willing(need) \cap group = {} /\ Willing(need) \subseteq Fitted
    BY <1>1, <1>2, <1>3, Rooms
  <2>2. ASSUME NEW v \in Satisfied(need), NEW w \in Fitted, driven'[v] > commanded[v]
        PROVE  driven'[w] = Full \/ (w \in Satisfied(need) /\ need[w] <= need[v] + TieK)
    <3>1. v \in Valve /\ w \in Valve /\ v \in Fitted
      BY <1>1, <1>2, <1>5, Rooms
    <3>2. driven[w] = Full => driven'[w] = Full
      BY <1>5, <1>13, <3>1
    <3>3. CASE v \in group
      BY <1>3, <2>2, <3>1, <3>2, <3>3
    <3>4. CASE v \notin group
      <4>1. driven[v] > commanded[v]
        BY <1>11, <2>2, <3>1, <3>4
      <4>2. driven[w] = Full \/ (w \in Satisfied(need) /\ need[w] <= need[v] + TieK)
        BY <1>1, <2>2, <3>1, <4>1 DEF FloorIInv, FloorInv, Allocated
      <4> QED
        BY <3>2, <4>2
    <3> QED
      BY <3>3, <3>4
  <2>3. ASSUME NEW v \in Willing(need), NEW w \in Willing(need),
               commanded[v] <= commanded[w]
        PROVE  driven'[v] <= driven'[w]
    <3>1. driven[v] <= driven[w]
      BY <1>1, <2>1, <2>3 DEF FloorIInv, FloorInv, Allocated
    <3> QED
      BY <1>5, <1>11, <2>1, <3>1
  <2> QED
    BY <1>1, <2>2, <2>3 DEF Allocated
<1>19. FloorIInv'
  BY <1>1, <1>14, <1>15, <1>16, <1>17, <1>18
     DEF FloorIInv, FloorInv, WillingFirst, FlowFloorKept
<1>20. deficit' = 0 \/ group' # group
  <2>1. SUFFICES ASSUME step = room PROVE full \notin group'
    BY <1>8, <1>9
  <2>2. driven'[full] = driven[full] + (Full - driven[full]) /\ driven[full] \in Nat
    BY <1>2, <1>4, <1>5, <1>8, <1>11, <2>1
  <2>3. driven'[full] = Full
    BY <1>5, <2>2
  <2> QED
    BY <1>1, <1>5, <2>3
<1> QED
  BY <1>1, <1>19, <1>20

LEMMA SatisfiedEndKeeps ==
  ASSUME FloorIInv, SatisfiedEnd
  PROVE  FloorIInv'
<1>1. /\ stage = "satisfied" /\ stage' = "done"
      /\ deficit = 0 \/ (group = {} /\ rest = {})
      /\ UNCHANGED <<peak, need, commanded, driven, group, rest, deficit>>
  BY DEF SatisfiedEnd
<1>2. FloorTypeOK /\ deficit \in Nat
  BY DEF FloorIInv, FloorTypeOK
<1>3. /\ Total(driven, Fitted) + deficit = FloorTarget
      /\ Total(commanded, Fitted) < FloorTarget
      /\ FloorTarget < Full * Cardinality(Fitted)
  BY <1>1 DEF FloorIInv, FloorInv, Accounts
<1>4. Total(driven, Fitted) \in Nat /\ Total(commanded, Fitted) \in Nat
  BY <1>1, <1>2, Openings
<1>5. deficit = 0
  <2>1. SUFFICES ASSUME deficit > 0 PROVE FALSE
    BY <1>2
  <2>2. \A v \in Fitted : driven[v] = Full
    <3>1. group = {} /\ rest = {}
      BY <1>1, <2>1
    <3>2. \A v \in Fitted \ (group \cup rest) : driven[v] = Full
      BY <1>1, <2>1 DEF FloorIInv, FloorInv, SatisfiedNext
    <3> QED
      BY <3>1, <3>2
  <2>3. Total(driven, Fitted) = Full * Cardinality(Fitted)
    BY <2>2, WideOpen
  <2> QED
    BY <1>2, <1>3, <1>4, <2>1, <2>3
<1>6. FloorTypeOK'
  BY <1>1, <1>2 DEF FloorTypeOK
<1>7. Opens'
  BY <1>1 DEF FloorIInv, FloorInv, Opens
<1>8. Allocated'
  BY <1>1 DEF FloorIInv, FloorInv, Allocated
<1>9. FlowFloorKept'
  <2>1. PumpFlow(driven) = Max({MinOpen * Cardinality(Valve), PumpFlow(commanded)})
    <3>1. /\ Total(driven, Fitted) = FloorTarget
          /\ Total(commanded, Fitted) <= FloorTarget
      BY <1>3, <1>4, <1>5
    <3> QED
      BY <1>1, <1>2, <3>1, TargetKept
  <2>2. \A v \in Valve : commanded[v] <= driven[v] /\ driven[v] <= Full
    BY <1>1, <1>2, Openings DEF FloorIInv, FloorInv, Opens
  <2> QED
    BY <1>1, <2>1, <2>2 DEF FlowFloorKept
<1> QED
  BY <1>1, <1>6, <1>7, <1>8, <1>9
     DEF FloorIInv, FloorInv, Accounts, WillingFirst, SatisfiedNext

LEMMA RestsKeeps ==
  ASSUME FloorIInv, Rests
  PROVE  FloorIInv'
BY DEF Rests, FloorIInv, FloorTypeOK, FloorInv, Opens, Accounts, WillingFirst,
       SatisfiedNext, Allocated, FlowFloorKept

LEMMA FloorRestsKeeps ==
  ASSUME FloorIInv, UNCHANGED floorVars
  PROVE  FloorIInv'
<1>1. UNCHANGED <<peak, need, commanded, driven, stage, group, rest, deficit>>
  BY DEF floorVars
<1>2. FloorTypeOK' /\ Opens' /\ Accounts' /\ Allocated'
  BY <1>1 DEF FloorIInv, FloorTypeOK, FloorInv, Opens, Accounts, Allocated
<1>3. WillingFirst' /\ SatisfiedNext' /\ FlowFloorKept'
  BY <1>1 DEF FloorIInv, FloorInv, WillingFirst, SatisfiedNext, FlowFloorKept
<1> QED
  BY <1>2, <1>3 DEF FloorIInv, FloorInv

LEMMA FloorInitKept == FloorInit => FloorIInv
BY DEF FloorInit, FloorIInv, FloorTypeOK, FloorInv, Opens, Accounts, WillingFirst,
       SatisfiedNext, Allocated, FlowFloorKept

----------------------------------------------------------------------------
(* Theorems about the flow floor *)

LEMMA FloorStep == FloorIInv /\ [FloorNext]_floorVars => FloorIInv'
<1> SUFFICES ASSUME FloorIInv, [FloorNext]_floorVars PROVE FloorIInv'
  OBVIOUS
<1>1. CASE Shares
  BY <1>1, SharesKeeps
<1>2. CASE FloorMet
  BY <1>2, FloorMetKeeps
<1>3. CASE FloorUnreachable
  BY <1>3, FloorUnreachableKeeps
<1>4. CASE FloorShort
  BY <1>4, FloorShortKeeps
<1>5. CASE WillingClip
  BY <1>5, WillingClipKeeps
<1>6. CASE WillingShare
  BY <1>6, WillingShareKeeps
<1>7. CASE WillingEnd
  BY <1>7, WillingEndKeeps
<1>8. CASE NextGroup
  BY <1>8, NextGroupKeeps
<1>9. CASE RaiseGroup
  BY <1>9, RaiseGroupKeeps
<1>10. CASE SatisfiedEnd
  BY <1>10, SatisfiedEndKeeps
<1>11. CASE Rests
  BY <1>11, RestsKeeps
<1>12. CASE UNCHANGED floorVars
  BY <1>12, FloorRestsKeeps
<1> QED
  BY <1>1, <1>2, <1>3, <1>4, <1>5, <1>6, <1>7, <1>8, <1>9, <1>10, <1>11, <1>12
     DEF FloorNext, EnforceFlowFloor

LEMMA FloorHolds == FloorSpec => []FloorIInv
BY FloorInitKept, FloorStep, PTL DEF FloorSpec

\* Wherever the floor is, what drives the valves are openings they have
\* (Distributor, enforce_flow_floor).
THEOREM FloorTyped == FloorSpec => []FloorTypeOK
BY FloorHolds, PTL DEF FloorIInv

\* Whatever is demanded and needed, the floor only opens valves, none beyond
\* full, and leaves the pump exactly its minimum flow, or what it had if that
\* was more (enforce_flow_floor).
THEOREM FlowKept == FloorSpec => []FlowFloorKept
<1>1. FloorIInv => FlowFloorKept
  BY DEF FloorIInv, FloorInv
<1> QED
  BY <1>1, FloorHolds, PTL

\* The extra flow goes to the rooms that want the mode, in an order that keeps
\* theirs, and only then to satisfied ones, the neediest first
\* (enforce_flow_floor).
THEOREM ComeLast == FloorSpec => []SatisfiedComeLast
<1>1. FloorIInv => SatisfiedComeLast
  BY DEF FloorIInv, FloorInv, Allocated, SatisfiedComeLast
<1> QED
  BY <1>1, FloorHolds, PTL

\* Every iteration of the loops settles the deficit or leaves fewer circuits to
\* raise, so that with finitely many they end (enforce_flow_floor).
THEOREM LoopsEnd == FloorSpec => FloorProgresses
<1> DEFINE Progress == \/ deficit' = 0
                       \/ rest' = rest /\ group' \subseteq group /\ group' # group
                       \/ rest' \subseteq rest /\ rest' # rest
<1>1. FloorIInv /\ [FloorNext]_floorVars => [stage' = stage => Progress]_floorVars
  <2> SUFFICES ASSUME FloorIInv, FloorNext, stage' = stage PROVE Progress
    OBVIOUS
  <2>1. WillingClip \/ WillingShare \/ NextGroup \/ RaiseGroup
    BY DEF FloorNext, EnforceFlowFloor, Shares, FloorMet, FloorUnreachable,
           FloorShort, WillingEnd, SatisfiedEnd, Rests
  <2> QED
    BY <2>1, WillingClipKeeps, WillingShareKeeps, NextGroupKeeps, RaiseGroupKeeps
<1> QED
  BY <1>1, FloorHolds, PTL DEF FloorSpec, FloorProgresses

----------------------------------------------------------------------------
(* The resume of a stopped compressor *)

LEMMA SetpointBounds ==
  /\ SpMin \in Nat /\ SpMax \in Nat /\ DefaultSp \in SpMin..SpMax
  /\ Coldest \in Nat /\ Warmest \in Nat /\ Coldest <= Warmest
  /\ \A d \in Differential : d \in Nat
BY ResumeAssumption

\* Rounding moves a temperature by half a degree at most.
LEMMA RoundIsNear ==
  ASSUME NEW t \in Int
  PROVE  /\ RoundTenths(t) \in Int
         /\ 10 * RoundTenths(t) <= t + 5 /\ t <= 10 * RoundTenths(t) + 5
<1> DEFINE q == t \div 10
           r == t % 10
<1>1. q \in Int /\ r \in 0..9 /\ t = 10 * q + r
  OBVIOUS
<1>2. RoundTenths(t) = IF r > 5 \/ (r = 5 /\ q % 2 = 1) THEN q + 1 ELSE q
  BY DEF RoundTenths
<1>3. r > 5 => RoundTenths(t) = q + 1
  BY <1>2
<1>4. r < 5 => RoundTenths(t) = q
  BY <1>1, <1>2
<1>5. RoundTenths(t) = q \/ RoundTenths(t) = q + 1
  BY <1>2
<1> HIDE DEF q, r
<1> QED
  BY <1>1, <1>3, <1>4, <1>5

\* A half that is rounded up goes to an even degree.
LEMMA HalfGoesToEven ==
  ASSUME NEW t \in Int, 10 * RoundTenths(t) = t + 5
  PROVE  RoundTenths(t) % 2 = 0
<1> DEFINE q == t \div 10
           r == t % 10
<1>1. q \in Int /\ r \in 0..9 /\ t = 10 * q + r
  OBVIOUS
<1>2. RoundTenths(t) = IF r > 5 \/ (r = 5 /\ q % 2 = 1) THEN q + 1 ELSE q
  BY DEF RoundTenths
<1> HIDE DEF q, r
<1>3. RoundTenths(t) = q + 1
  BY <1>1, <1>2
<1>4. r = 5
  BY <1>1, <1>3
<1>5. q % 2 = 1
  BY <1>1, <1>2, <1>3, <1>4
<1>6. (q + 1) % 2 = 0
  BY <1>1, <1>5
<1> QED
  BY <1>3, <1>6

\* What follows for whole degrees, and for the distance from the water.
LEMMA NoMore == \A a, b, t \in Int : 10 * a <= t + 5 /\ t <= 10 * b => a <= b
OBVIOUS

LEMMA FarEnough ==
  \A a, d, t, w \in Int :
    10 * a <= t + 5 /\ t <= w - 10 * d - 5
      => \/ w - 10 * a > 10 * d
         \/ w - 10 * a = 10 * d /\ 10 * a = t + 5
OBVIOUS

LEMMA WholeDegrees == \A a, d, w \in Int : w - 10 * a = 10 * d => w % 10 = 0
OBVIOUS

\* Clamping brings a setpoint between the bounds, and leaves one that is there.
LEMMA ClampIsWithin ==
  ASSUME NEW t \in Int
  PROVE  /\ ClampedSp(t) \in Int
         /\ 10 * SpMin <= ClampedSp(t) /\ ClampedSp(t) <= 10 * SpMax
         /\ 10 * SpMin <= t /\ t <= 10 * SpMax => ClampedSp(t) = t
BY SetpointBounds DEF ClampedSp

LEMMA ResumeAtTyped == ResumeTypeOK => ResumeAt \in SpMin..SpMax
<1> SUFFICES ASSUME ResumeTypeOK PROVE ResumeAt \in SpMin..SpMax
  OBVIOUS
<1> DEFINE wanted == IF Needed < 10 * keep THEN Needed ELSE 10 * keep
<1>1. wanted \in Int
  BY SetpointBounds DEF ResumeTypeOK, Needed
<1>2. ResumeAt = RoundTenths(ClampedSp(wanted))
  BY DEF ResumeAt
<1> HIDE DEF wanted
<1>3. /\ ClampedSp(wanted) \in Int
      /\ 10 * SpMin <= ClampedSp(wanted) /\ ClampedSp(wanted) <= 10 * SpMax
  BY <1>1, ClampIsWithin
<1>4. /\ ResumeAt \in Int /\ 10 * ResumeAt <= ClampedSp(wanted) + 5
      /\ ClampedSp(wanted) <= 10 * ResumeAt + 5
  BY <1>2, <1>3, RoundIsNear
<1> QED
  BY <1>3, <1>4, SetpointBounds

LEMMA ResumeStep == ResumeTypeOK /\ [ResumeNext]_resumeVars => ResumeTypeOK'
<1> SUFFICES ASSUME ResumeTypeOK, [ResumeNext]_resumeVars PROVE ResumeTypeOK'
  OBVIOUS
<1>1. CASE Resumes
  BY <1>1, ResumeAtTyped DEF Resumes, ResumeTypeOK
<1>2. CASE Stops
  BY <1>2 DEF Stops, ResumeTypeOK
<1>3. CASE WaterMoves
  <2>1. return' \in Coldest..Warmest
    BY <1>3 DEF WaterMoves
  <2> QED
    BY <1>3, <2>1 DEF WaterMoves, ResumeTypeOK
<1>4. CASE \E v \in SpMin..SpMax : Sets(v)
  BY <1>4 DEF Sets, ResumeTypeOK
<1>5. CASE \E d \in Differential : Serviced(d)
  BY <1>5 DEF Serviced, ResumeTypeOK
<1>6. CASE UNCHANGED resumeVars
  BY <1>6 DEF resumeVars, ResumeTypeOK
<1> QED
  BY <1>1, <1>2, <1>3, <1>4, <1>5, <1>6 DEF ResumeNext

LEMMA ResumeInitTyped == ResumeInit => ResumeTypeOK
<1> SUFFICES ASSUME ResumeInit PROVE ResumeTypeOK
  OBVIOUS
<1>1. (CHOOSE d \in Differential : TRUE) \in Differential
  BY ResumeAssumption
<1>2. return \in Coldest..Warmest
  BY SetpointBounds DEF ResumeInit
<1> QED
  BY <1>1, <1>2, SetpointBounds DEF ResumeInit, ResumeTypeOK

\* Setpoints stay within the bounds and whole, whatever is resumed and kept:
\* clamping and rounding in this order never leave them (_trim_capacity).
THEOREM ResumeTyped == ResumeSpec => []ResumeTypeOK
BY ResumeInitTyped, ResumeStep, PTL DEF ResumeSpec

\* With any water for which the bounds allow it, a resume leaves a setpoint past
\* the edge of the dead zone, or on it in the one case that rounding allows, and
\* never one above that kept.
THEOREM Starts == ResumeSpec => ResumeStarts
<1> DEFINE Past == return - 10 * sp' > 10 * differential
           OnTheEdge == return - 10 * sp' = 10 * differential /\ return % 10 = 0
                          /\ sp' % 2 = 0
<1>1. ResumeTypeOK /\ [ResumeNext]_resumeVars =>
        [resting /\ ~resting' /\ return >= 10 * (SpMin + differential) + 5
           => (Past \/ OnTheEdge) /\ sp' <= keep]_resumeVars
  <2> SUFFICES ASSUME ResumeTypeOK, ResumeNext, resting, ~resting',
                      return >= 10 * (SpMin + differential) + 5
               PROVE  (Past \/ OnTheEdge) /\ sp' <= keep
    OBVIOUS
  <2> DEFINE wanted == IF Needed < 10 * keep THEN Needed ELSE 10 * keep
  <2>1. /\ return \in Int /\ differential \in Int /\ keep \in Int
        /\ SpMin \in Int /\ SpMax \in Int /\ SpMin <= keep /\ keep <= SpMax
    BY SetpointBounds DEF ResumeTypeOK
  <2>2. sp' = RoundTenths(ClampedSp(wanted))
    <3>1. Resumes
      BY DEF ResumeNext, Stops, WaterMoves, Sets, Serviced
    <3> QED
      BY <3>1 DEF Resumes, ResumeAt
  <2>3. /\ wanted \in Int /\ 10 * SpMin <= wanted
        /\ wanted <= 10 * keep /\ wanted <= return - 10 * differential - 5
    BY <2>1 DEF Needed
  <2> HIDE DEF wanted
  <2>4. ClampedSp(wanted) = wanted
    BY <2>1, <2>3, ClampIsWithin
  <2>5. sp' \in Int /\ 10 * sp' <= wanted + 5
    BY <2>2, <2>3, <2>4, RoundIsNear
  <2>6. sp' <= keep
    BY <2>1, <2>3, <2>5, NoMore
  <2>7. Past \/ (return - 10 * sp' = 10 * differential /\ 10 * sp' = wanted + 5)
    BY <2>1, <2>3, <2>5, FarEnough
  <2>8. ASSUME return - 10 * sp' = 10 * differential, 10 * sp' = wanted + 5
        PROVE  OnTheEdge
    <3>1. return % 10 = 0
      BY <2>1, <2>5, <2>8, WholeDegrees
    <3>2. sp' % 2 = 0
      BY <2>2, <2>3, <2>4, <2>8, HalfGoesToEven
    <3> QED
      BY <2>8, <3>1, <3>2
  <2> HIDE DEF Past, OnTheEdge
  <2> QED
    BY <2>6, <2>7, <2>8
<1> QED
  BY <1>1, ResumeTyped, PTL DEF ResumeSpec, ResumeStarts

----------------------------------------------------------------------------
(* The parts in one behaviour *)

\* What is proved of each part alone holds of the behaviours that are explored
\* side by side: a step of one part is a stutter of the others.
THEOREM PartsAlone == MCSpec => Spec /\ FloorSpec /\ ResumeSpec
<1>1. MCInit => Init /\ FloorInit /\ ResumeInit
  BY DEF MCInit
<1>2. [MCNext]_mcVars => [Next]_vars /\ [FloorNext]_floorVars /\ [ResumeNext]_resumeVars
  <2> SUFFICES ASSUME [MCNext]_mcVars
               PROVE  [Next]_vars /\ [FloorNext]_floorVars /\ [ResumeNext]_resumeVars
    OBVIOUS
  <2>1. CASE MCNext
    BY <2>1 DEF MCNext
  <2>2. CASE UNCHANGED mcVars
    BY <2>2 DEF mcVars
  <2> QED
    BY <2>1, <2>2
<1> QED
  BY <1>1, <1>2, PTL DEF MCSpec, Spec, FloorSpec, ResumeSpec

\* Openings stay openings and setpoints stay setpoints in every part of the
\* cycle (Distributor, enforce_flow_floor, _trim_capacity).
THEOREM PartsTyped == MCSpec => []PartsTypeOK
BY PartsAlone, FloorTyped, ResumeTyped, PTL DEF PartsTypeOK
=============================================================================
