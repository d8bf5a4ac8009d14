--------------------------- MODULE BmsValues_proofs ---------------------------
(***************************************************************************)
(* What MyBLE2 computes from a packet, for every pack and all numbers that *)
(* a board may send.                                                       *)
(*                                                                         *)
(* The sum and the ranks are over data of any length.  Induction over them *)
(* is by the least counterexample: WFMin and NatLessThanWellFounded say    *)
(* that a set of naturals that is not empty has a least element.           *)
(***************************************************************************)
EXTENDS BmsValues, FiniteSetTheorems, SequenceTheorems, WellFoundedInduction, TLAPS

\* Every set of naturals that is not empty has a least element.
LEMMA LeastNatural ==
    ASSUME NEW T, T \subseteq Nat, T # {}
    PROVE  \E m \in T : \A n \in T : m <= n
<1> DEFINE R == OpToRel(<, Nat)
<1>1. IsWellFoundedOn(R, Nat)
  BY NatLessThanWellFounded
<1>2. \A x, y \in Nat : <<y, x>> \in R <=> y < x
  BY DEF OpToRel
<1> HIDE DEF R
<1>3. PICK m \in T : \A n \in T : ~ (<<n, m>> \in R)
  BY <1>1, WFMin
<1>4. \A n \in T : ~ (n < m)
  BY <1>2, <1>3
<1> QED
  BY <1>4

\* Induction: a set that has 0 and with n also n + 1 has every natural.
LEMMA Induction ==
    ASSUME NEW T, 0 \in T, \A n \in Nat : n \in T => n + 1 \in T
    PROVE  Nat \subseteq T
<1> SUFFICES ASSUME Nat \ T # {} PROVE FALSE
  OBVIOUS
<1>1. PICK m \in Nat \ T : \A n \in Nat \ T : m <= n
  BY LeastNatural
<1>2. m - 1 \in Nat /\ ~ (m <= m - 1)
  BY <1>1
<1>3. m - 1 \in T
  BY <1>1, <1>2
<1>4. (m - 1) + 1 \in T
  BY <1>2, <1>3
<1> QED
  BY <1>1, <1>2, <1>4

-----------------------------------------------------------------------------
(* Sums.                                                                   *)

\* The element a fold takes next.
Pick(s) == CHOOSE x \in s : TRUE

\* The equation that a sum over c satisfies, for the subsets in S.
SumStep(c, g, S) ==
    [s \in S |-> IF s = {} THEN 0 ELSE c[Pick(s)] + g[s \ {Pick(s)}]]

\* What FoldFunction chooses: the sums of c over all parts of its domain.
Sums(c) == CHOOSE g : g = SumStep(c, g, SUBSET DOMAIN c)

\* The parts of up to n elements.
SmallParts(c, n) == {s \in SUBSET DOMAIN c : Cardinality(s) <= n}

\* CellSum is such a sum.
LEMMA SumDef ==
    ASSUME NEW c
    PROVE  CellSum(c) = Sums(c)[DOMAIN c]
  BY DEF CellSum, FoldFunction, FoldFunctionOnSet, MapThenFoldSet, SumStep, Sums, Pick

\* The rest has one element less.
LEMMA Picked ==
    ASSUME NEW s, IsFiniteSet(s), s # {}
    PROVE  /\ Pick(s) \in s /\ IsFiniteSet(s \ {Pick(s)})
           /\ Cardinality(s) \in Nat
           /\ Cardinality(s \ {Pick(s)}) = Cardinality(s) - 1
           /\ Cardinality(s \ {Pick(s)}) \in Nat
<1>1. Pick(s) \in s
  BY Zenon DEF Pick
<1> QED
  BY <1>1, FS_RemoveElement, FS_CardinalityType

\* With the sums over the parts of n elements there are those of n + 1.
LEMMA SumMore ==
    ASSUME NEW c, IsFiniteSet(DOMAIN c), NEW n \in Nat,
           NEW g, g = SumStep(c, g, SmallParts(c, n))
    PROVE  \E h : h = SumStep(c, h, SmallParts(c, n + 1))
<1> DEFINE h == SumStep(c, g, SmallParts(c, n + 1))
<1>1. ASSUME NEW s \in SmallParts(c, n + 1), s # {}
      PROVE  s \ {Pick(s)} \in SmallParts(c, n)
  <2>1. IsFiniteSet(s) /\ s \subseteq DOMAIN c
    BY FS_Subset DEF SmallParts
  <2>2. Cardinality(s) \in Nat /\ Cardinality(s \ {Pick(s)}) = Cardinality(s) - 1
    BY <1>1, <2>1, Picked
  <2> QED
    BY <2>1, <2>2 DEF SmallParts
<1>2. \A s \in SmallParts(c, n) : s \in SmallParts(c, n + 1)
  <2> SUFFICES ASSUME NEW s \in SmallParts(c, n) PROVE s \in SmallParts(c, n + 1)
    OBVIOUS
  <2>1. s \in SUBSET DOMAIN c /\ Cardinality(s) <= n
    BY DEF SmallParts
  <2>2. IsFiniteSet(s)
    BY <2>1, FS_Subset
  <2>3. Cardinality(s) \in Nat
    BY <2>2, FS_CardinalityType
  <2> QED
    BY <2>1, <2>3 DEF SmallParts
<1>3. ASSUME NEW s \in SmallParts(c, n) PROVE h[s] = g[s]
  <2>1. h[s] = IF s = {} THEN 0 ELSE c[Pick(s)] + g[s \ {Pick(s)}]
    BY <1>2, Zenon DEF SumStep
  <2>2. g[s] = IF s = {} THEN 0 ELSE c[Pick(s)] + g[s \ {Pick(s)}]
    BY Zenon DEF SumStep
  <2> QED
    BY <2>1, <2>2
<1>4. SumStep(c, g, SmallParts(c, n + 1)) = SumStep(c, h, SmallParts(c, n + 1))
  <2> HIDE DEF h
  <2>1. \A s \in SmallParts(c, n + 1) : s # {} => g[s \ {Pick(s)}] = h[s \ {Pick(s)}]
    BY <1>1, <1>3
  <2>2. \A s \in SmallParts(c, n + 1) :
           (IF s = {} THEN 0 ELSE c[Pick(s)] + g[s \ {Pick(s)}])
           = (IF s = {} THEN 0 ELSE c[Pick(s)] + h[s \ {Pick(s)}])
    BY <2>1
  <2> QED
    BY <2>2, Zenon DEF SumStep
<1> QED
  BY <1>4, Zenon

\* The sums over a finite domain exist, so the choice satisfies the equation.
LEMMA SumExists ==
    ASSUME NEW c, IsFiniteSet(DOMAIN c)
    PROVE  Sums(c) = SumStep(c, Sums(c), SUBSET DOMAIN c)
<1> DEFINE T == {n \in Nat : \E g : g = SumStep(c, g, SmallParts(c, n))}
           g0 == SumStep(c, <<>>, SmallParts(c, 0))
<1>1. 0 \in T
  <2>1. \A s \in SmallParts(c, 0) : s = {}
    <3> SUFFICES ASSUME NEW s \in SmallParts(c, 0) PROVE s = {}
      OBVIOUS
    <3>1. IsFiniteSet(s) /\ Cardinality(s) <= 0
      BY FS_Subset DEF SmallParts
    <3> QED
      BY <3>1, FS_CardinalityType, FS_EmptySet
  <2>2. g0 = SumStep(c, g0, SmallParts(c, 0))
    <3> HIDE DEF T
    <3>1. \A s \in SmallParts(c, 0) :
            (IF s = {} THEN 0 ELSE c[Pick(s)] + <<>>[s \ {Pick(s)}])
            = (IF s = {} THEN 0 ELSE c[Pick(s)] + g0[s \ {Pick(s)}])
      BY <2>1, Zenon
    <3> QED
      BY <3>1, Zenon DEF SumStep
  <2> QED
    BY <2>2, Zenon
<1>2. ASSUME NEW n \in Nat, n \in T PROVE n + 1 \in T
  <2>1. PICK g : g = SumStep(c, g, SmallParts(c, n))
    BY <1>2
  <2>2. \E h : h = SumStep(c, h, SmallParts(c, n + 1))
    BY <2>1, SumMore
  <2> QED
    BY <2>2
<1>3. Nat \subseteq T
  <2> HIDE DEF T
  <2> QED
    BY <1>1, <1>2, Induction
<1>4. SmallParts(c, Cardinality(DOMAIN c)) = SUBSET DOMAIN c
  BY FS_Subset DEF SmallParts
<1>5. \E g : g = SumStep(c, g, SUBSET DOMAIN c)
  BY <1>3, <1>4, FS_CardinalityType
<1> QED
  BY <1>5, Zenon DEF Sums

\* A sum of k numbers from lo .. hi lies in k * lo .. k * hi.
LEMMA SumBounds ==
    ASSUME NEW c, IsFiniteSet(DOMAIN c), NEW lo \in Int, NEW hi \in Int,
           \A i \in DOMAIN c : c[i] \in Int /\ lo <= c[i] /\ c[i] <= hi
    PROVE  LET k == Cardinality(DOMAIN c)
               s == CellSum(c)
           IN  s \in Int /\ k * lo <= s /\ s <= k * hi
<1> DEFINE Ok(s, n) == /\ Sums(c)[s] \in Int
                       /\ n * lo <= Sums(c)[s] /\ Sums(c)[s] <= n * hi
           T == {n \in Nat : \A s \in SUBSET DOMAIN c : Cardinality(s) = n => Ok(s, n)}
<1>0. \A s \in SUBSET DOMAIN c : 
         Sums(c)[s] = IF s = {} THEN 0 ELSE c[Pick(s)] + Sums(c)[s \ {Pick(s)}]
  BY SumExists, Zenon DEF SumStep
<1>1. 0 \in T
  <2> SUFFICES ASSUME NEW s \in SUBSET DOMAIN c, Cardinality(s) = 0 PROVE Ok(s, 0)
    OBVIOUS
  <2>1. s = {}
    BY FS_Subset, FS_EmptySet
  <2>2. Sums(c)[s] = 0
    BY <1>0, <2>1
  <2> QED
    BY <2>2
<1>2. ASSUME NEW n \in Nat, n \in T PROVE n + 1 \in T
  <2> SUFFICES ASSUME NEW s \in SUBSET DOMAIN c, Cardinality(s) = n + 1
               PROVE  Ok(s, n + 1)
    OBVIOUS
  <2> DEFINE r == s \ {Pick(s)}
             u == c[Pick(s)]
             v == Sums(c)[r]
  <2>1. IsFiniteSet(s) /\ s # {}
    <3>1. IsFiniteSet(s)
      BY FS_Subset
    <3> QED
      BY <3>1, FS_EmptySet
  <2>2. Pick(s) \in s /\ Cardinality(r) = n
    BY <2>1, Picked
  <2>3. r \in SUBSET DOMAIN c
    OBVIOUS
  <2>4. Ok(r, n)
    <3> HIDE DEF Ok, r
    <3> QED
      BY <1>2, <2>2, <2>3
  <2>5. Sums(c)[s] = u + v
    BY <1>0, <2>1
  <2>6. u \in Int /\ lo <= u /\ u <= hi
    BY <2>2
  <2>7. v \in Int /\ n * lo <= v /\ v <= n * hi
    BY <2>4
  <2>8. (n + 1) * lo = n * lo + lo /\ (n + 1) * hi = n * hi + hi
    BY SMT
  <2>9. n * lo \in Int /\ n * hi \in Int
    BY SMT
  <2> HIDE DEF r, u, v
  <2> QED
    BY <2>5, <2>6, <2>7, <2>8, <2>9
<1>3. Nat \subseteq T
  <2> HIDE DEF T
  <2> QED
    BY <1>1, <1>2, Induction
<1>4. Cardinality(DOMAIN c) \in Nat
  BY FS_CardinalityType
<1>5. Ok(DOMAIN c, Cardinality(DOMAIN c))
  <2> HIDE DEF Ok
  <2> QED
    BY <1>3, <1>4
<1>6. CellSum(c) = Sums(c)[DOMAIN c]
  BY SumDef
<1> QED
  BY <1>5, <1>6

-----------------------------------------------------------------------------
(* Ranks.                                                                  *)

\* How many of the values of s are in P.
CountIn(s, P) == Cardinality({i \in DOMAIN s : s[i] \in P})

\* The values below v, and those up to v.
Below(v) == {w \in Nat : w < v}
UpTo(v) == {w \in Nat : w <= v}

\* A count is a natural, at most the length.
LEMMA CountType ==
    ASSUME NEW n \in Nat, NEW s \in [1 .. n -> Nat], NEW P
    PROVE  /\ IsFiniteSet({i \in DOMAIN s : s[i] \in P})
           /\ CountIn(s, P) \in Nat /\ CountIn(s, P) <= n
<1>1. IsFiniteSet(1 .. n) /\ Cardinality(1 .. n) = n
  BY FS_Interval
<1>2. {i \in DOMAIN s : s[i] \in P} \in SUBSET (1 .. n)
  OBVIOUS
<1>3. IsFiniteSet({i \in DOMAIN s : s[i] \in P})
      /\ Cardinality({i \in DOMAIN s : s[i] \in P}) <= n
  BY <1>1, <1>2, FS_Subset
<1> QED
  BY <1>3, FS_CardinalityType DEF CountIn

\* More values, no smaller count.
LEMMA CountMonotonic ==
    ASSUME NEW n \in Nat, NEW s \in [1 .. n -> Nat], NEW P, NEW Q,
           P \cap Nat \subseteq Q
    PROVE  CountIn(s, P) <= CountIn(s, Q)
<1>1. {i \in DOMAIN s : s[i] \in P} \in SUBSET {i \in DOMAIN s : s[i] \in Q}
  OBVIOUS
<1>2. IsFiniteSet({i \in DOMAIN s : s[i] \in Q})
  BY CountType
<1>3. Cardinality({i \in DOMAIN s : s[i] \in P})
      <= Cardinality({i \in DOMAIN s : s[i] \in Q})
  BY <1>1, <1>2, FS_Subset
<1> QED
  BY <1>3 DEF CountIn

\* All values up to a bound.
LEMMA CountAll ==
    ASSUME NEW n \in Nat, NEW s \in [1 .. n -> Nat], NEW k \in Nat,
           \A i \in 1 .. n : s[i] <= k
    PROVE  CountIn(s, UpTo(k)) = n
<1>1. {i \in DOMAIN s : s[i] \in UpTo(k)} = 1 .. n
  BY DEF UpTo
<1>2. Cardinality(1 .. n) = n
  BY FS_Interval
<1> QED
  BY <1>1, <1>2 DEF CountIn

\* What Ranked chooses is there.
LEMMA RankedIs ==
    ASSUME NEW n \in Nat, NEW s \in [1 .. n -> Nat], NEW r \in 1 .. n,
           NEW k \in Nat, \A i \in 1 .. n : s[i] <= k
    PROVE  LET v == Ranked(s, r)
           IN  /\ v \in Nat /\ v \in Range(s)
               /\ CountIn(s, Below(v)) < r /\ r <= CountIn(s, UpTo(v))
<1> DEFINE T == {v \in Nat : r <= CountIn(s, UpTo(v))}
           Is(v) == /\ Cardinality({i \in DOMAIN s : s[i] < v}) < r
                    /\ Cardinality({i \in DOMAIN s : s[i] <= v}) >= r
<1>1. k \in T
  BY CountAll
<1>2. PICK v \in T : \A w \in T : v <= w
  <2> HIDE DEF T
  <2>1. T \subseteq Nat
    BY DEF T
  <2> QED
    BY <1>1, <2>1, LeastNatural
<1>3. CountIn(s, Below(v)) < r
  <2>1. CASE v = 0
    <3>1. {i \in DOMAIN s : s[i] \in Below(v)} = {}
      BY <2>1 DEF Below
    <3>2. CountIn(s, Below(v)) = 0
      BY <3>1, FS_EmptySet DEF CountIn
    <3> QED
      BY <3>2
  <2>2. CASE v # 0
    <3>1. v - 1 \in Nat /\ v - 1 \notin T
      BY <1>2, <2>2
    <3>2. Below(v) = UpTo(v - 1)
      BY <3>1 DEF Below, UpTo
    <3>3. CountIn(s, UpTo(v - 1)) \in Nat
      BY CountType
    <3>4. ~ (r <= CountIn(s, UpTo(v - 1)))
      BY <3>1
    <3> QED
      BY <3>2, <3>3, <3>4
  <2> QED
    BY <2>1, <2>2
<1>4. v \in Range(s)
  <2> SUFFICES ASSUME v \notin Range(s) PROVE FALSE
    OBVIOUS
  <2>1. \A i \in DOMAIN s : s[i] \in UpTo(v) <=> s[i] \in Below(v)
    <3>1. \A i \in DOMAIN s : s[i] # v
      BY DEF Range
    <3> QED
      BY <3>1 DEF UpTo, Below
  <2>2. CountIn(s, UpTo(v)) = CountIn(s, Below(v))
    <3>1. {i \in DOMAIN s : s[i] \in UpTo(v)} = {i \in DOMAIN s : s[i] \in Below(v)}
      BY <2>1
    <3> QED
      BY <3>1 DEF CountIn
  <2>3. r <= CountIn(s, UpTo(v)) /\ CountIn(s, UpTo(v)) \in Nat
    BY CountType
  <2> HIDE DEF T
  <2> QED
    BY <1>3, <2>2, <2>3
<1>5. ASSUME NEW w \in Nat
      PROVE  /\ Cardinality({i \in DOMAIN s : s[i] < w}) = CountIn(s, Below(w))
             /\ Cardinality({i \in DOMAIN s : s[i] <= w}) = CountIn(s, UpTo(w))
  <2>1. {i \in DOMAIN s : s[i] < w} = {i \in DOMAIN s : s[i] \in Below(w)}
    BY DEF Below
  <2>2. {i \in DOMAIN s : s[i] <= w} = {i \in DOMAIN s : s[i] \in UpTo(w)}
    BY DEF UpTo
  <2> QED
    BY <2>1, <2>2 DEF CountIn
<1>6. Is(v)
  BY <1>3, <1>5
<1>7. Ranked(s, r) \in Range(s) /\ Is(Ranked(s, r))
  <2> HIDE DEF Is, T
  <2>1. Ranked(s, r) = CHOOSE w \in Range(s) : Is(w)
    BY DEF Ranked, Is
  <2> QED
    BY <1>4, <1>6, <2>1, Zenon
<1>8. Ranked(s, r) \in Nat
  BY <1>7 DEF Range
<1> QED
  <2> HIDE DEF T
  <2>1. CountIn(s, UpTo(Ranked(s, r))) \in Nat
    BY CountType
  <2> QED
    BY <1>5, <1>7, <1>8, <2>1

\* The cells without the first one, with what lies behind the array.
LEMMA SortedIs ==
    ASSUME NEW n \in Nat \ {0}, NEW c \in [1 .. n -> Nat], NEW left \in Nat
    PROVE  /\ Sorted(c, left) \in [1 .. n -> Nat] /\ Len(Sorted(c, left)) = n
           /\ \A i \in 1 .. n - 1 : Sorted(c, left)[i] = c[i + 1]
           /\ Sorted(c, left)[n] = left
<1> DEFINE t == Tail(c)
           x == Append(t, left)
<1>1. c \in Seq(Nat)
  BY SeqDef
<1>2. Len(c) = n
  <2>1. Len(c) \in Nat /\ DOMAIN c = 1 .. Len(c)
    BY <1>1, LenProperties
  <2> QED
    BY <2>1
<1>3. c # <<>>
  BY <1>1, <1>2, EmptySeq
<1>4. /\ t \in Seq(Nat) /\ Len(t) = n - 1
      /\ \A i \in 1 .. n - 1 : t[i] = c[i + 1]
  BY <1>1, <1>2, <1>3, HeadTailProperties
<1> HIDE DEF t
<1>5. /\ x \in Seq(Nat) /\ Len(x) = n - 1 + 1
      /\ \A i \in 1 .. n - 1 : x[i] = t[i]
      /\ x[n - 1 + 1] = left
  BY <1>4, AppendProperties
<1>6. n - 1 + 1 = n
  OBVIOUS
<1> HIDE DEF x
<1>7. x \in [1 .. n -> Nat]
  BY <1>5, <1>6, LenProperties
<1> QED
  BY <1>4, <1>5, <1>6, <1>7 DEF Sorted, x, t

\* One element more or less.
LEMMA OneMore ==
    ASSUME NEW S, NEW T, NEW x, IsFiniteSet(T), T \subseteq S, S \subseteq T \cup {x}
    PROVE  /\ IsFiniteSet(S) /\ Cardinality(T) \in Nat /\ Cardinality(S) \in Nat
           /\ Cardinality(T) <= Cardinality(S)
           /\ Cardinality(S) <= Cardinality(T) + 1
<1>1. S = T \/ S = T \cup {x}
  OBVIOUS
<1>2. Cardinality(T) \in Nat
  BY FS_CardinalityType
<1>3. CASE S = T
  BY <1>2, <1>3
<1>4. CASE S = T \cup {x} /\ x \notin T
  <2>1. IsFiniteSet(S) /\ Cardinality(S) = Cardinality(T) + 1
    BY <1>4, FS_AddElement
  <2> QED
    BY <1>2, <2>1
<1> QED
  BY <1>1, <1>3, <1>4

\* No value gains or loses more than one place.
LEMMA SortedCounts ==
    ASSUME NEW n \in Nat \ {0}, NEW c \in [1 .. n -> Nat], NEW left \in Nat, NEW P
    PROVE  /\ CountIn(Sorted(c, left), P) <= CountIn(c, P) + 1
           /\ CountIn(c, P) <= CountIn(Sorted(c, left), P) + 1
<1> DEFINE x == Sorted(c, left)
           A == {i \in 2 .. n : c[i] \in P}
           B == {i \in 1 .. n - 1 : x[i] \in P}
           C == {i \in DOMAIN c : c[i] \in P}
           X == {i \in DOMAIN x : x[i] \in P}
           f == [i \in A |-> i - 1]
<1>1. /\ x \in [1 .. n -> Nat]
      /\ \A i \in 1 .. n - 1 : x[i] = c[i + 1]
  <2>1. /\ x \in [1 .. n -> Nat] /\ Len(x) = n
        /\ \A i \in 1 .. n - 1 : x[i] = c[i + 1]
        /\ x[n] = left
    BY SortedIs, Zenon
  <2> QED
    BY <2>1, Zenon
<1> HIDE DEF x
<1>2. IsFiniteSet(A)
  <2>1. IsFiniteSet(2 .. n)
    BY FS_Interval
  <2> QED
    BY <2>1, FS_Subset
<1>3. ExistsBijection(A, B)
  <2>1. \A i \in A : i - 1 \in B
    BY <1>1
  <2>2. \A j \in B : j + 1 \in A /\ (j + 1) - 1 = j
    BY <1>1
  <2>3. \A i, j \in A : i - 1 = j - 1 => i = j
    OBVIOUS
  <2> HIDE DEF A, B
  <2>4. f \in [A -> B] /\ \A i, j \in A : f[i] = f[j] => i = j
    BY <2>1, <2>3
  <2>5. \A j \in B : \E i \in A : f[i] = j
    BY <2>2
  <2>6. f \in Bijection(A, B)
    <3> HIDE DEF f
    <3> QED
      BY <2>4, <2>5, Zenon DEF Bijection, Injection, IsInjective, Surjection
  <2> QED
    BY <2>6 DEF ExistsBijection
<1>4. IsFiniteSet(B) /\ Cardinality(B) = Cardinality(A)
  BY <1>2, <1>3, FS_Bijection
<1>5. A \subseteq C /\ C \subseteq A \cup {1}
  OBVIOUS
<1>6. B \subseteq X /\ X \subseteq B \cup {n}
  <2>1. DOMAIN x = 1 .. n
    BY <1>1
  <2>2. 1 .. n - 1 \subseteq 1 .. n /\ 1 .. n \subseteq 1 .. n - 1 \cup {n}
    OBVIOUS
  <2> QED
    BY <2>1, <2>2
<1>7. CountIn(c, P) = Cardinality(C) /\ CountIn(x, P) = Cardinality(X)
  BY DEF CountIn
<1> HIDE DEF A, B, C, X
<1>8. /\ Cardinality(A) \in Nat /\ Cardinality(C) \in Nat
      /\ Cardinality(A) <= Cardinality(C) /\ Cardinality(C) <= Cardinality(A) + 1
  BY <1>2, <1>5, OneMore
<1>9. /\ Cardinality(X) \in Nat
      /\ Cardinality(B) <= Cardinality(X) /\ Cardinality(X) <= Cardinality(B) + 1
  BY <1>4, <1>6, OneMore
<1> QED
  BY <1>4, <1>7, <1>8, <1>9 DEF x

\* A rank of the one is between the neighbouring ranks of the other.
LEMMA RanksNear ==
    ASSUME NEW n \in Nat, NEW s \in [1 .. n -> Nat], NEW t \in [1 .. n -> Nat],
           NEW k \in Nat, \A i \in 1 .. n : s[i] <= k /\ t[i] <= k,
           \A P : CountIn(s, P) <= CountIn(t, P) + 1,
           NEW r \in 1 .. n - 1
    PROVE  Ranked(t, r) <= Ranked(s, r + 1)
<1> DEFINE u == Ranked(t, r)
           w == Ranked(s, r + 1)
<1>1. u \in Nat /\ CountIn(t, Below(u)) < r
  <2>1. r \in 1 .. n
    OBVIOUS
  <2> QED
    BY <2>1, RankedIs, Zenon
<1>2. w \in Nat /\ r + 1 <= CountIn(s, UpTo(w))
  <2>1. r + 1 \in 1 .. n
    OBVIOUS
  <2> QED
    BY <2>1, RankedIs, Zenon
<1> HIDE DEF u, w
<1> SUFFICES ASSUME w < u PROVE FALSE
  BY <1>1, <1>2 DEF u, w
<1>3. UpTo(w) \cap Nat \subseteq Below(u)
  BY <1>1, <1>2 DEF UpTo, Below
<1>4. CountIn(t, UpTo(w)) <= CountIn(t, Below(u))
  BY <1>3, CountMonotonic
<1>5. CountIn(s, UpTo(w)) <= CountIn(t, UpTo(w)) + 1
  OBVIOUS
<1>6. /\ CountIn(t, UpTo(w)) \in Nat /\ CountIn(t, Below(u)) \in Nat
      /\ CountIn(s, UpTo(w)) \in Nat
  BY CountType
<1> QED
  BY <1>1, <1>2, <1>4, <1>5, <1>6

-----------------------------------------------------------------------------
(* The power.                                                              *)

\* What a quotient and a remainder by a positive number are.
LEMMA Division ==
    ASSUME NEW n \in Int, NEW m \in Nat \ {0}
    PROVE  /\ n \div m \in Int /\ n % m \in Int
           /\ m * (n \div m) <= n /\ n < m * (n \div m) + m
           /\ n = m * (n \div m) + (n % m)
           /\ 0 <= n % m /\ n % m < m
  BY SMT

\* The bounds are naturals.
LEMMA WattType == Watt \in Nat /\ Watt > 0
  BY SMT DEF Watt

\* Words end at a natural.
LEMMA Max16Type == Max16 \in Nat
  BY SMT DEF Max16

\* So does the power that fits.
LEMMA LimitType == Limit \in Nat
  BY SMT DEF Limit

\* Intervals as inequalities.
LEMMA Within ==
    ASSUME NEW m \in Nat, NEW p \in -m .. m
    PROVE  p \in Int /\ -m <= p /\ p <= m
  BY SMT

\* Strict bounds as an interval.
LEMMA LessThan ==
    ASSUME NEW m \in Nat, NEW r \in Int, -m < r, r < m
    PROVE  r \in 1 - m .. m - 1
  BY SMT

\* Within 2147 W the product of MyBLE2::processBasicInfo stays in its 32 bits.
LEMMA ProductFits ==
    ASSUME NEW p \in Int, -Limit <= p, p <= Limit
    PROVE  Product32(p) = 100 * p
<1> DEFINE a == p \div 1048576
           b == p % 1048576
           c == (25 * b) \div 1048576
           w == (25 * a + c + 512) \div 1024
<1>0. -21474836 <= p /\ p <= 21474836
  BY SMT DEF Limit
<1>1. a \in Int /\ b \in Int /\ p = 1048576 * a + b /\ 0 <= b /\ b < 1048576
  BY SMT, <1>0
<1>2. w = Wraps(p)
  BY SMT DEF Wraps
<1> HIDE DEF a, b
<1>3. c \in Int /\ 1048576 * c <= 25 * b /\ 25 * b < 1048576 * c + 1048576
  BY SMT, <1>1
<1> HIDE DEF c
<1>4. 0 <= 25 * a + c + 512 /\ 25 * a + c + 512 < 1024
  BY SMT, <1>0, <1>1, <1>3
<1>5. w = 0
  BY SMT, <1>1, <1>3, <1>4
<1> HIDE DEF w
<1>6. Wraps(p) = 0
  BY SMT, <1>2, <1>5
<1> QED
  BY SMT, <1>6 DEF Product32

\* An int divided as C does it is cut off toward zero.
LEMMA TowardZero ==
    ASSUME NEW p \in Int, NEW q, q = Quotient(100 * p, 1000000)
    PROVE  /\ p - Watt * q \in 1 - Watt .. Watt - 1
           /\ p - Watt * q > 0 => p > 0
           /\ p - Watt * q < 0 => p < 0
<1>1. CASE p >= 0
  <2>1. q = (100 * p) \div 1000000
    BY SMT, <1>1 DEF Quotient
  <2>2. q \in Int /\ 1000000 * q <= 100 * p /\ 100 * p < 1000000 * q + 1000000
    BY SMT, <2>1
  <2>3. p - Watt * q \in Int /\ 0 <= p - Watt * q /\ p - Watt * q < Watt
        /\ (p - Watt * q > 0 => p > 0)
    BY SMT, <1>1, <2>2 DEF Watt
  <2>4. -Watt < p - Watt * q
    BY SMT, <2>3, WattType
  <2>5. p - Watt * q \in 1 - Watt .. Watt - 1
    BY SMT, <2>3, <2>4, WattType, LessThan
  <2> QED
    BY SMT, <1>1, <2>3, <2>5
<1>2. CASE p < 0
  <2> DEFINE n == (-(100 * p)) \div 1000000
  <2>1. q = -n
    BY SMT, <1>2 DEF Quotient
  <2>2. n \in Int /\ 1000000 * n <= -(100 * p) /\ -(100 * p) < 1000000 * n + 1000000
    BY SMT
  <2> HIDE DEF n
  <2>3. p - Watt * q \in Int /\ -Watt < p - Watt * q /\ p - Watt * q <= 0
    BY SMT, <1>2, <2>1, <2>2 DEF Watt
  <2>4. p - Watt * q \in 1 - Watt .. Watt - 1
    BY SMT, <2>3, WattType, LessThan
  <2> QED
    BY SMT, <1>2, <2>3, <2>4
<1> QED
  BY SMT, <1>1, <1>2

\* What the object stores as the power of a packet.
LEMMA WattsOfPacket ==
    ASSUME NEW volts \in Nat, volts <= 6553, NEW s \in Int
    PROVE  WattsOf((volts * 10) % 65536, s * 10) = Quotient(Product32(volts * s), 1000000)
<1>1. (volts * 10) % 65536 = volts * 10
  BY SMT
<1>2. (volts * 10) \div 10 = volts /\ (s * 10) \div 10 = s
  BY SMT
<1> DEFINE v == (volts * 10) % 65536
           u == s * 10
<1>3. v \div 10 = volts /\ u \div 10 = s
  BY SMT, <1>1, <1>2
<1> HIDE DEF v, u
<1>4. (v \div 10) * (u \div 10) = volts * s
  BY <1>3
<1>5. WattsOf(v, u) = Quotient(Product32(volts * s), 1000000)
  BY SMT, <1>4 DEF WattsOf
<1> QED
  BY SMT, <1>5 DEF v, u

\* The power is right after a packet of the pack, and a packet of the cells
\* leaves it as it is.
LEMMA NextWatts == WattsToTheLimit /\ [Next]_vars => WattsToTheLimit'
<1> SUFFICES ASSUME WattsToTheLimit, [Next]_vars PROVE WattsToTheLimit'
  BY SMT
<1>1. ASSUME NEW volts \in VoltLevels, NEW amps \in AmpLevels,
             NEW temp1 \in TempLevels, NEW temp2 \in TempLevels,
             ProcessBasicInfo(volts, amps, temp1, temp2)
      PROVE  WattsToTheLimit'
  <2> DEFINE s == Signed16(amps)
             p == volts * s
             q == packBasicInfo'.Watts
  <2>1. volts \in Nat /\ volts <= 6553 /\ amps \in Nat
    <3>1. VoltLevels \subseteq 0 .. 6553 /\ AmpLevels \subseteq UInt16
      BY SMT, ValuesAssumption
    <3> QED
      BY SMT, <3>1, Max16Type DEF UInt16
  <2>2. received'.volts = volts /\ received'.amps = amps
        /\ q = WattsOf((volts * 10) % 65536, s * 10)
    BY SMT, <1>1 DEF ProcessBasicInfo
  <2>3. s \in Int /\ PowerSent' = p
    BY SMT, <2>1, <2>2 DEF PowerSent, Signed16
  <2> HIDE DEF s
  <2>4. q = Quotient(Product32(p), 1000000) /\ p \in Int
    BY SMT, <2>1, <2>2, <2>3, WattsOfPacket
  <2> HIDE DEF p, q
  <2>5. ASSUME p \in -Limit .. Limit
        PROVE  /\ p - Watt * q \in 1 - Watt .. Watt - 1
               /\ p - Watt * q > 0 => p > 0
               /\ p - Watt * q < 0 => p < 0
    <3>1. q = Quotient(100 * p, 1000000)
      <4>1. -Limit <= p /\ p <= Limit
        BY SMT, <2>5, LimitType, Within
      <4> QED
        BY SMT, <2>4, <4>1, ProductFits
    <3> QED
      BY SMT, <2>4, <3>1, TowardZero
  <2> QED
    BY SMT, <2>3, <2>5 DEF WattsToTheLimit, q
<1>2. ASSUME NEW cells \in Packs, ProcessCellInfo(cells)
      PROVE  WattsToTheLimit'
  <2>1. UNCHANGED <<received, packBasicInfo>>
    BY <1>2 DEF ProcessCellInfo
  <2> QED
    BY SMT, <2>1 DEF WattsToTheLimit, PowerSent
<1>3. CASE UNCHANGED vars
  BY SMT, <1>3 DEF vars, WattsToTheLimit, PowerSent
<1> QED
  BY SMT, <1>1, <1>2, <1>3 DEF Next

\* MyBLE2.cpp:254-258: for every voltage and current a board can send, a power
\* below 2147 W is the one that was sent, charging or discharging.
THEOREM PowerToTheLimit == Spec => []WattsToTheLimit
<1>1. Init => WattsToTheLimit
  <2> SUFFICES ASSUME Init PROVE WattsToTheLimit
    BY SMT
  <2>1. received.volts = 0 /\ received.amps = 0 /\ packBasicInfo.Watts = 0
    BY DEF Init, Fresh
  <2>2. PowerSent = 0
    BY SMT, <2>1 DEF PowerSent
  <2> QED
    BY SMT, <2>1, <2>2 DEF WattsToTheLimit, Watt
<1> QED
  BY <1>1, NextWatts, PTL DEF Spec

-----------------------------------------------------------------------------
(* The cells.                                                              *)

CellTop == Max16

\* It is a natural.
LEMMA CellTopType == CellTop \in Nat
  BY Max16Type DEF CellTop

\* The bounds of the constants.
LEMMA CellBounds ==
    /\ \A n \in CellCounts : n \in Nat \ {0} /\ n <= 15
    /\ \A v \in CellLevels : v \in Nat /\ v <= CellTop
<1>1. CellCounts \subseteq 1 .. 15 /\ CellLevels \subseteq UInt16
  BY SMT, ValuesAssumption
<1>2. CellLevels \subseteq 0 .. CellTop
  <2>1. UInt16 = 0 .. CellTop
    BY DEF UInt16, CellTop
  <2> QED
    BY <1>1, <2>1
<1> QED
  BY SMT, <1>1, <1>2, CellTopType

\* A pack has up to 15 cells, whose voltages are words.
LEMMA PackIs ==
    ASSUME NEW cells \in Packs
    PROVE  \E n \in Nat \ {0} :
              /\ n <= 15 /\ cells \in [1 .. n -> Nat] /\ Len(cells) = n
              /\ \A i \in 1 .. n : cells[i] <= CellTop
<1>1. PICK n \in CellCounts : cells \in PacksOf(n)
  BY Zenon DEF Packs
<1>2. PICK a \in CellLevels, b \in CellLevels, c \in CellLevels, k \in 1 .. n :
        cells = [i \in 1 .. n |-> IF i < k THEN a ELSE IF i = k THEN b ELSE c]
  BY SMT, <1>1 DEF PacksOf
<1>3. n \in Nat \ {0} /\ n <= 15
  BY CellBounds
<1>4. \A v \in {a, b, c} : v \in Nat /\ v <= CellTop
  BY CellBounds
<1>5. DOMAIN cells = 1 .. n /\ \A i \in 1 .. n : cells[i] \in {a, b, c}
  BY <1>2
<1>6. cells \in [1 .. n -> Nat]
  BY <1>2, <1>4, <1>5
<1>7. Len(cells) = n
  <2>1. cells \in Seq(Nat)
    BY <1>3, <1>6, SeqDef
  <2>2. Len(cells) \in Nat /\ DOMAIN cells = 1 .. Len(cells)
    BY <2>1, LenProperties
  <2> QED
    BY <1>3, <1>5, <2>2
<1> QED
  BY <1>3, <1>4, <1>5, <1>6, <1>7

\* The least element of a set of naturals.
LEMMA MinIs ==
    ASSUME NEW S, S \subseteq Nat, S # {}
    PROVE  Min(S) \in S /\ \A y \in S : Min(S) <= y
<1>1. \E x \in S : \A y \in S : x <= y
  BY LeastNatural
<1> QED
  BY <1>1, Zenon DEF Min

\* The greatest element of a finite set of naturals.
LEMMA MaxIs ==
    ASSUME NEW S, S \subseteq Nat, S # {}, NEW k \in Nat, \A y \in S : y <= k
    PROVE  Max(S) \in S /\ \A y \in S : Max(S) >= y
<1> DEFINE T == {d \in Nat : k - d \in S}
<1>1. \A y \in S : k - y \in T
  <2> SUFFICES ASSUME NEW y \in S PROVE k - y \in T
    OBVIOUS
  <2>1. k - y \in Nat /\ k - (k - y) = y
    OBVIOUS
  <2> QED
    BY <2>1
<1>2. T \subseteq Nat /\ \A d \in T : k - d \in S
  OBVIOUS
<1> HIDE DEF T
<1>3. PICK m \in T : \A d \in T : m <= d
  BY <1>1, <1>2, LeastNatural, Zenon
<1>4. k - m \in S /\ \A y \in S : k - m >= y
  <2> SUFFICES ASSUME NEW y \in S PROVE k - m >= y
    BY <1>2, <1>3
  <2>1. m <= k - y
    BY <1>1, <1>3
  <2>2. k \in Nat /\ m \in Nat /\ y \in Nat
    BY <1>2, <1>3
  <2> QED
    BY <2>1, <2>2
<1>5. \E z \in S : \A y \in S : z >= y
  BY <1>4
<1> QED
  BY <1>5, Zenon DEF Max

\* The extremes of cells up to k, where the least starts at m and the greatest
\* at 0.
LEMMA Extremes ==
    ASSUME NEW n \in Nat \ {0}, NEW c \in [1 .. n -> Nat], NEW k \in Nat,
           \A i \in 1 .. n : c[i] <= k, NEW m \in Nat
    PROVE  LET least    == Min(Range(c) \cup {m})
               greatest == Max(Range(c) \cup {0})
           IN  /\ least \in Nat /\ greatest \in Nat
               /\ least <= m /\ greatest <= k /\ least <= greatest
               /\ \A i \in 1 .. n : least <= c[i] /\ c[i] <= greatest
<1> DEFINE S == Range(c) \cup {m}
           T == Range(c) \cup {0}
<1>1. Range(c) \subseteq Nat /\ (\A y \in Range(c) : y <= k)
      /\ \A i \in 1 .. n : c[i] \in Range(c)
  BY DEF Range
<1>2. S \subseteq Nat /\ m \in S
  BY <1>1
<1>3. T \subseteq Nat /\ 0 \in T /\ \A y \in T : y <= k
  BY <1>1
<1>4. \A i \in 1 .. n : c[i] \in S /\ c[i] \in T
  BY <1>1
<1> HIDE DEF S, T
<1>5. Min(S) \in S /\ \A y \in S : Min(S) <= y
  <2>1. S # {}
    BY <1>2
  <2> QED
    BY <1>2, <2>1, MinIs, Zenon
<1>6. Max(T) \in T /\ \A y \in T : Max(T) >= y
  <2>1. T # {}
    BY <1>3
  <2> QED
    BY <1>3, <2>1, MaxIs, Zenon
<1> DEFINE lo == Min(S)
           hi == Max(T)
<1>7. lo \in Nat /\ (\A y \in S : lo <= y) /\ lo <= m
  BY <1>2, <1>5
<1>8. hi \in Nat /\ (\A y \in T : hi >= y) /\ hi <= k
  BY <1>3, <1>6
<1> HIDE DEF lo, hi
<1>9. \A i \in 1 .. n : lo <= c[i] /\ c[i] <= hi
  BY <1>4, <1>7, <1>8
<1>10. lo <= hi
  <2>1. 1 \in 1 .. n /\ c[1] \in Nat
    OBVIOUS
  <2> QED
    BY <1>7, <1>8, <1>9, <2>1
<1> QED
  BY <1>7, <1>8, <1>9, <1>10, Zenon DEF S, T, lo, hi

\* The quotient of a number between n * lo and n * hi by n.
LEMMA QuotientBetween ==
    ASSUME NEW n \in Nat \ {0}, NEW s \in Int, NEW lo \in Int, NEW hi \in Int,
           n * lo <= s, s <= n * hi
    PROVE  s \div n \in Int /\ lo <= s \div n /\ s \div n <= hi
<1> DEFINE q == s \div n
<1>1. q \in Int /\ n * q <= s /\ s < n * q + n
  BY Division
<1> HIDE DEF q
<1>2. ASSUME q < lo PROVE FALSE
  <2>1. n * (q + 1) <= n * lo
    <3>1. q + 1 <= lo /\ q + 1 \in Int
      BY <1>1, <1>2
    <3> QED
      BY SMT, <3>1
  <2>2. n * (q + 1) = n * q + n
    BY SMT, <1>1
  <2>3. n * q \in Int /\ n * lo \in Int
    BY SMT, <1>1
  <2> QED
    BY <1>1, <2>1, <2>2, <2>3
<1>3. ASSUME hi < q PROVE FALSE
  <2>1. n * (hi + 1) <= n * q
    <3>1. hi + 1 <= q /\ hi + 1 \in Int
      BY <1>1, <1>3
    <3> QED
      BY SMT, <1>1, <3>1
  <2>2. n * (hi + 1) = n * hi + n
    BY SMT
  <2>3. n * q \in Int /\ n * hi \in Int
    BY SMT, <1>1
  <2> QED
    BY <1>1, <2>1, <2>2, <2>3
<1> QED
  BY <1>1, <1>2, <1>3 DEF q

\* If the sum of the cells fits in 16 bits, the average is that of the sum.
LEMMA AverageBetween ==
    ASSUME NEW n \in Nat \ {0}, NEW c \in [1 .. n -> Nat], Len(c) = n,
           NEW lo \in Nat, NEW hi \in Nat, CellSum(c) <= Max16,
           \A i \in 1 .. n : lo <= c[i] /\ c[i] <= hi
    PROVE  AverageOf(c) \in Int /\ lo <= AverageOf(c) /\ AverageOf(c) <= hi
<1> DEFINE s == CellSum(c)
<1>1. IsFiniteSet(1 .. n) /\ Cardinality(1 .. n) = n /\ DOMAIN c = 1 .. n
  BY FS_Interval
<1>2. s \in Int /\ n * lo <= s /\ s <= n * hi
  <2>1. \A i \in DOMAIN c : c[i] \in Int /\ lo <= c[i] /\ c[i] <= hi
    BY <1>1
  <2>2. lo \in Int /\ hi \in Int /\ IsFiniteSet(DOMAIN c)
    BY <1>1
  <2>3. LET k == Cardinality(DOMAIN c)
        IN  s \in Int /\ k * lo <= s /\ s <= k * hi
    BY <2>1, <2>2, SumBounds, Zenon
  <2> QED
    BY <1>1, <2>3
<1>3. 0 <= n * lo /\ n * lo \in Int /\ s <= Max16
  BY SMT
<1> HIDE DEF s
<1>5. s % 65536 = s
  <2>1. 0 <= s /\ s <= 65535
    BY SMT, <1>2, <1>3 DEF Max16
  <2> QED
    BY SMT, <1>2, <2>1
<1>6. AverageOf(c) = s \div n
  BY SMT, <1>5 DEF AverageOf, s
<1> QED
  BY <1>2, <1>6, QuotientBetween

\* The average is a word, whatever the sum.
LEMMA AverageType ==
    ASSUME NEW n \in Nat \ {0}, NEW c \in [1 .. n -> Nat], Len(c) = n,
           \A i \in 1 .. n : c[i] <= CellTop
    PROVE  AverageOf(c) \in Nat /\ AverageOf(c) <= Max16
<1> DEFINE s == CellSum(c)
           w == s % 65536
<1>1. IsFiniteSet(1 .. n) /\ DOMAIN c = 1 .. n
  BY FS_Interval
<1>2. s \in Int
  <2>1. \A i \in DOMAIN c : c[i] \in Int /\ 0 <= c[i] /\ c[i] <= CellTop
    BY <1>1
  <2>2. 0 \in Int /\ CellTop \in Int /\ IsFiniteSet(DOMAIN c)
    BY <1>1, CellTopType
  <2> QED
    BY <2>1, <2>2, SumBounds, Zenon
<1> HIDE DEF s
<1>3. w \in Nat /\ w <= Max16
  BY SMT, <1>2 DEF Max16
<1>4. AverageOf(c) = w \div n
  BY DEF AverageOf, s
<1> HIDE DEF w
<1>5. n * 0 <= w /\ w <= n * Max16
  <2>1. Max16 <= n * Max16 /\ n * Max16 \in Int
    BY SMT, Max16Type
  <2> QED
    BY SMT, <1>3, <2>1, Max16Type
<1>6. w \div n \in Int /\ 0 <= w \div n /\ w \div n <= Max16
  BY <1>3, <1>5, Max16Type, QuotientBetween
<1> QED
  BY <1>4, <1>6

\* The start of the search for the least is a natural.
LEMMA NoCellType == NoCell \in Nat
  BY SMT DEF NoCell

\* AverageWithin is kept by both packets.
LEMMA NextAverage == AverageWithin /\ [Next]_vars => AverageWithin'
<1> SUFFICES ASSUME AverageWithin, [Next]_vars PROVE AverageWithin'
  OBVIOUS
<1>1. ASSUME NEW cells \in Packs, ProcessCellInfo(cells)
      PROVE  AverageWithin'
  <2> DEFINE least    == Min(Range(cells) \cup {NoCell})
             greatest == Max(Range(cells) \cup {0})
  <2>1. /\ packCellInfo'.CellMin = least /\ packCellInfo'.CellMax = greatest
        /\ packCellInfo'.CellAvg = AverageOf(cells) /\ Cells' = cells
    BY <1>1 DEF ProcessCellInfo, Cells
  <2>2. PICK n \in Nat \ {0} :
           /\ n <= 15 /\ cells \in [1 .. n -> Nat] /\ Len(cells) = n
           /\ \A i \in 1 .. n : cells[i] <= CellTop
    BY PackIs, Zenon
  <2>3. /\ least \in Nat /\ greatest \in Nat /\ greatest <= CellTop
        /\ \A i \in 1 .. n : least <= cells[i] /\ cells[i] <= greatest
    BY <2>2, NoCellType, CellTopType, Extremes, Zenon
  <2> HIDE DEF least, greatest
  <2>4. CellSum(cells) <= Max16 =>
           least <= AverageOf(cells) /\ AverageOf(cells) <= greatest
    BY <2>2, <2>3, AverageBetween
  <2> QED
    BY <2>1, <2>4 DEF AverageWithin
<1>2. CASE UNCHANGED packCellInfo
  BY <1>2 DEF AverageWithin, Cells
<1>3. ASSUME NEW volts \in VoltLevels, NEW amps \in AmpLevels,
             NEW temp1 \in TempLevels, NEW temp2 \in TempLevels,
             ProcessBasicInfo(volts, amps, temp1, temp2)
      PROVE  AverageWithin'
  BY <1>2, <1>3 DEF ProcessBasicInfo
<1> QED
  BY <1>1, <1>2, <1>3 DEF Next, vars

\* MyBLE2.cpp:295-307: for every pack whose voltages add up to 65535 mV at most,
\* the average lies between the least and the greatest cell.
THEOREM AverageInside == Spec => []AverageWithin
<1>1. Init => AverageWithin
  BY DEF Init, Fresh, AverageWithin
<1> QED
  BY <1>1, NextAverage, PTL DEF Spec

\* A rank is a natural and a value of the cells.
LEMMA RankedType ==
    ASSUME NEW n \in Nat, NEW s \in [1 .. n -> Nat], NEW r \in 1 .. n,
           NEW k \in Nat, \A i \in 1 .. n : s[i] <= k
    PROVE  Ranked(s, r) \in Nat /\ Ranked(s, r) <= k
<1>1. Ranked(s, r) \in Nat /\ Ranked(s, r) \in Range(s)
  BY RankedIs, Zenon
<1>2. \A v \in Range(s) : v <= k
  BY DEF Range
<1> QED
  BY <1>1, <1>2

\* Taking in what lies behind the array and leaving out the first cell moves a
\* rank by one place at most.
LEMMA RankMoves ==
    ASSUME NEW n \in Nat \ {0}, NEW c \in [1 .. n -> Nat], NEW left \in Nat,
           NEW k \in Nat, left <= k, \A i \in 1 .. n : c[i] <= k,
           NEW r \in 1 .. n
    PROVE  /\ Ranked(Sorted(c, left), r) \in Nat
           /\ r > 1 => Ranked(c, r - 1) <= Ranked(Sorted(c, left), r)
           /\ r < n => Ranked(Sorted(c, left), r) <= Ranked(c, r + 1)
<1> DEFINE x == Sorted(c, left)
<1>1. x \in [1 .. n -> Nat] /\ \A i \in 1 .. n : x[i] <= k
  <2>1. /\ x \in [1 .. n -> Nat] /\ Len(x) = n
        /\ \A i \in 1 .. n - 1 : x[i] = c[i + 1]
        /\ x[n] = left
    BY SortedIs, Zenon
  <2> HIDE DEF x
  <2>2. ASSUME NEW i \in 1 .. n PROVE x[i] <= k
    <3>1. CASE i = n
      BY <2>1, <3>1
    <3>2. CASE i # n
      <4>1. i \in 1 .. n - 1 /\ i + 1 \in 1 .. n
        BY <3>2
      <4> QED
        BY <2>1, <4>1
    <3> QED
      BY <3>1, <3>2
  <2> QED
    BY <2>1, <2>2
<1>2. /\ \A P : CountIn(x, P) <= CountIn(c, P) + 1
      /\ \A P : CountIn(c, P) <= CountIn(x, P) + 1
  BY SortedCounts, Zenon
<1> HIDE DEF x
<1>3. Ranked(x, r) \in Nat
  BY <1>1, RankedType, Zenon
<1>4. ASSUME r > 1 PROVE Ranked(c, r - 1) <= Ranked(x, r)
  <2> DEFINE q == r - 1
  <2>1. q \in 1 .. n - 1 /\ q + 1 = r
    BY <1>4
  <2> HIDE DEF q
  <2>2. Ranked(c, q) <= Ranked(x, q + 1)
    BY <1>1, <1>2, <2>1, RanksNear
  <2> QED
    BY <2>1, <2>2 DEF q
<1>5. ASSUME r < n PROVE Ranked(x, r) <= Ranked(c, r + 1)
  <2>1. r \in 1 .. n - 1
    BY <1>5
  <2> QED
    BY <1>1, <1>2, <2>1, RanksNear
<1> QED
  BY <1>3, <1>4, <1>5 DEF x

\* Half of a sum is monotonic.
LEMMA HalfMonotonic ==
    ASSUME NEW a \in Nat, NEW b \in Nat, a <= b
    PROVE  a \div 2 <= b \div 2
  BY SMT

\* The median is between the middle ranks of the cells, one place off.
LEMMA MedianBetween ==
    ASSUME NEW n \in Nat, n > 2, NEW c \in [1 .. n -> Nat], Len(c) = n,
           NEW left \in Nat, NEW k \in Nat, left <= k, \A i \in 1 .. n : c[i] <= k
    PROVE  LET m == Middle(Sorted(c, left))
               h == n \div 2
           IN  IF n % 2 = 0
               THEN /\ m >= (Ranked(c, h - 1) + Ranked(c, h)) \div 2
                    /\ m <= (Ranked(c, h + 1) + Ranked(c, h + 2)) \div 2
               ELSE /\ m >= Ranked(c, h)
                    /\ m <= Ranked(c, h + 2)
<1> DEFINE h == n \div 2
           x == Sorted(c, left)
<1>1. h \in Nat /\ h >= 1 /\ h + 2 <= n
  <2>1. h \in Int /\ 2 * h <= n /\ n < 2 * h + 2
    BY SMT
  <2> QED
    BY SMT, <2>1
<1>2. n % 2 = 0 => h >= 2
  BY SMT
<1>3. Len(x) = n
  <2>1. n \in Nat \ {0}
    OBVIOUS
  <2> QED
    BY <2>1, SortedIs
<1>4. Middle(x) = IF n % 2 = 0 THEN (Ranked(x, h) + Ranked(x, h + 1)) \div 2
                               ELSE Ranked(x, h + 1)
  BY <1>3, Zenon DEF Middle, h
<1> HIDE DEF h, x
<1>5. /\ Ranked(x, h) \in Nat /\ Ranked(x, h + 1) \in Nat
      /\ h > 1 => Ranked(c, h - 1) <= Ranked(x, h)
      /\ Ranked(x, h) <= Ranked(c, h + 1)
      /\ Ranked(c, h) <= Ranked(x, h + 1)
      /\ Ranked(x, h + 1) <= Ranked(c, h + 2)
  <2>1. /\ h \in 1 .. n /\ h < n /\ n \in Nat \ {0}
        /\ h + 1 \in 1 .. n /\ h + 1 > 1 /\ h + 1 < n
        /\ (h + 1) - 1 = h /\ (h + 1) + 1 = h + 2
    BY <1>1
  <2>2. /\ Ranked(x, h) \in Nat
        /\ h > 1 => Ranked(c, h - 1) <= Ranked(x, h)
        /\ h < n => Ranked(x, h) <= Ranked(c, h + 1)
    BY <2>1, RankMoves, Zenon DEF x
  <2>3. /\ Ranked(x, h + 1) \in Nat
        /\ h + 1 > 1 => Ranked(c, (h + 1) - 1) <= Ranked(x, h + 1)
        /\ h + 1 < n => Ranked(x, h + 1) <= Ranked(c, (h + 1) + 1)
    BY <2>1, RankMoves, Zenon DEF x
  <2> QED
    BY <2>1, <2>2, <2>3
<1>6. /\ Ranked(c, h) \in Nat /\ Ranked(c, h + 1) \in Nat /\ Ranked(c, h + 2) \in Nat
      /\ h > 1 => Ranked(c, h - 1) \in Nat
  <2>1. /\ h \in 1 .. n /\ h + 1 \in 1 .. n /\ h + 2 \in 1 .. n
        /\ h > 1 => h - 1 \in 1 .. n
    BY <1>1
  <2>2. \A r \in 1 .. n : Ranked(c, r) \in Nat
    BY RankedType, Zenon
  <2> QED
    BY <2>1, <2>2
<1>7. CASE n % 2 = 0
  <2>1. h > 1 /\ Middle(x) = (Ranked(x, h) + Ranked(x, h + 1)) \div 2
    BY <1>1, <1>2, <1>4, <1>7
  <2>2. (Ranked(c, h - 1) + Ranked(c, h)) \div 2
        <= (Ranked(x, h) + Ranked(x, h + 1)) \div 2
    BY <1>5, <1>6, <2>1, HalfMonotonic
  <2>3. (Ranked(x, h) + Ranked(x, h + 1)) \div 2
        <= (Ranked(c, h + 1) + Ranked(c, h + 2)) \div 2
    BY <1>5, <1>6, <2>1, HalfMonotonic
  <2>4. /\ (Ranked(x, h) + Ranked(x, h + 1)) \div 2 \in Int
        /\ (Ranked(c, h - 1) + Ranked(c, h)) \div 2 \in Int
        /\ (Ranked(c, h + 1) + Ranked(c, h + 2)) \div 2 \in Int
    BY <1>5, <1>6, <2>1
  <2>5. /\ Middle(x) >= (Ranked(c, h - 1) + Ranked(c, h)) \div 2
        /\ Middle(x) <= (Ranked(c, h + 1) + Ranked(c, h + 2)) \div 2
    BY <2>1, <2>2, <2>3, <2>4
  <2> QED
    BY <1>7, <2>5 DEF h, x
<1>8. CASE ~ (n % 2 = 0)
  <2>1. Middle(x) = Ranked(x, h + 1)
    BY <1>4, <1>8
  <2>2. Middle(x) >= Ranked(c, h) /\ Middle(x) <= Ranked(c, h + 2)
    BY <1>5, <1>6, <2>1
  <2> QED
    BY <1>8, <2>2 DEF h, x
<1> QED
  BY <1>7, <1>8

\* A cell's voltage is a word.
LEMMA CellTopInWord == CellTop <= Max16
  BY SMT, Max16Type DEF CellTop

-----------------------------------------------------------------------------
(* The types.                                                              *)

\* The product is in the range of an int for every power.
LEMMA ProductType ==
    ASSUME NEW p \in Int
    PROVE  /\ Product32(p) \in Int
           /\ -2147483648 <= Product32(p) /\ Product32(p) <= 2147483647
<1> DEFINE a == p \div 1048576
           b == p % 1048576
           c == (25 * b) \div 1048576
           d == (25 * b) % 1048576
           w == (25 * a + c + 512) \div 1024
           e == (25 * a + c + 512) % 1024
<1>1. a \in Int /\ b \in Int /\ p = 1048576 * a + b
  BY SMT
<1>2. w = Wraps(p)
  BY SMT DEF Wraps
<1> HIDE DEF a, b
<1>3. c \in Int /\ d \in Int /\ 25 * b = 1048576 * c + d /\ 0 <= d /\ d < 1048576
  BY SMT, <1>1
<1> HIDE DEF c, d
<1>4. w \in Int /\ e \in Int /\ 25 * a + c + 512 = 1024 * w + e /\ 0 <= e /\ e < 1024
  BY SMT, <1>1, <1>3
<1> HIDE DEF w, e
<1>5. 100 * p = 4294967296 * w + 4194304 * e + 4 * d - 2147483648
  BY SMT, <1>1, <1>3, <1>4
<1>6. Product32(p) = 100 * p - 4294967296 * w
  BY SMT, <1>2, <1>4 DEF Product32
<1> QED
  BY SMT, <1>3, <1>4, <1>5, <1>6

\* The bounds are naturals.
LEMMA MaxTypes == MaxAmps \in Nat /\ MaxWatts \in Nat
  BY SMT DEF MaxAmps, MaxWatts

\* A quotient of an int by a million.
LEMMA QuotientType ==
    ASSUME NEW m \in Int, -2147483648 <= m, m <= 2147483647
    PROVE  /\ Quotient(m, 1000000) \in Int
           /\ -MaxWatts <= Quotient(m, 1000000) /\ Quotient(m, 1000000) <= MaxWatts
<1>1. CASE m >= 0
  <2> DEFINE q == m \div 1000000
  <2>1. q \in Int /\ 1000000 * q <= m /\ m < 1000000 * q + 1000000
    BY SMT
  <2>2. Quotient(m, 1000000) = q
    BY SMT, <1>1 DEF Quotient
  <2> HIDE DEF q
  <2> QED
    BY SMT, <1>1, <2>1, <2>2 DEF MaxWatts
<1>2. CASE m < 0
  <2> DEFINE q == (-m) \div 1000000
  <2>1. q \in Int /\ 1000000 * q <= -m /\ -m < 1000000 * q + 1000000
    BY SMT
  <2>2. Quotient(m, 1000000) = -q
    BY SMT, <1>2 DEF Quotient
  <2> HIDE DEF q
  <2> QED
    BY SMT, <1>2, <2>1, <2>2 DEF MaxWatts
<1> QED
  BY SMT, <1>1, <1>2

\* What is stored of a basic packet.
LEMMA BasicTypes ==
    ASSUME NEW volts \in VoltLevels, NEW amps \in AmpLevels
    PROVE  /\ (volts * 10) % 65536 \in UInt16
           /\ Signed16(amps) * 10 \in -MaxAmps .. MaxAmps
           /\ WattsOf((volts * 10) % 65536, Signed16(amps) * 10)
                 \in -MaxWatts .. MaxWatts
<1>1. VoltLevels \subseteq 0 .. 6553 /\ AmpLevels \subseteq UInt16
  BY SMT, ValuesAssumption
<1>2. volts \in Nat /\ volts <= 6553
  BY SMT, <1>1
<1>3. amps \in Nat /\ amps <= Max16
  BY SMT, <1>1, Max16Type DEF UInt16
<1>4. amps <= 65535
  BY SMT, <1>3 DEF Max16
<1> DEFINE s == Signed16(amps)
           v == (volts * 10) % 65536
           u == WattsOf(v, s * 10)
<1>5. s \in Int /\ -32768 <= s /\ s <= 32767
  BY SMT, <1>3, <1>4 DEF Signed16
<1> HIDE DEF s
<1>6. v \in Int /\ 0 <= v /\ v <= Max16
  BY SMT, <1>2 DEF Max16
<1>7. s * 10 \in Int /\ -MaxAmps <= s * 10 /\ s * 10 <= MaxAmps
  BY SMT, <1>5 DEF MaxAmps
<1>8. u \in Int /\ -MaxWatts <= u /\ u <= MaxWatts
  <2> DEFINE p == volts * s
             m == Product32(p)
  <2>1. p \in Int
    BY SMT, <1>2, <1>5
  <2>2. u = Quotient(m, 1000000)
    BY SMT, <1>2, <1>5, WattsOfPacket
  <2> HIDE DEF u, p
  <2>3. m \in Int /\ -2147483648 <= m /\ m <= 2147483647
    BY SMT, <2>1, ProductType
  <2> HIDE DEF m
  <2> QED
    BY SMT, <2>2, <2>3, QuotientType
<1> HIDE DEF v, u
<1>9. v \in UInt16
  BY SMT, <1>6, Max16Type DEF UInt16
<1>10. s * 10 \in -MaxAmps .. MaxAmps /\ u \in -MaxWatts .. MaxWatts
  BY SMT, <1>7, <1>8, MaxTypes
<1> QED
  BY <1>9, <1>10 DEF s, v, u

\* A temperature is stored as a word, whatever its sign.
LEMMA TempType ==
    ASSUME NEW temp \in TempLevels
    PROVE  TempOf(temp) \in UInt16
<1>1. TempLevels \subseteq UInt16
  BY SMT, ValuesAssumption
<1>2. temp \in Int
  BY SMT, <1>1, Max16Type DEF UInt16
<1> DEFINE t == TempOf(temp)
<1>3. t \in Int /\ 0 <= t /\ t <= Max16
  BY SMT, <1>2 DEF TempOf, Freezing, Max16
<1> HIDE DEF t
<1>4. t \in UInt16
  BY SMT, <1>3, Max16Type DEF UInt16
<1> QED
  BY <1>4 DEF t

\* A word is a natural up to Max16.
LEMMA WordIs == \A v : v \in UInt16 <=> v \in Nat /\ v <= Max16
  BY SMT, Max16Type DEF UInt16

\* The middle of up to n words is a word.
LEMMA MiddleType ==
    ASSUME NEW n \in Nat \ {0}, NEW s \in [1 .. n -> Nat], Len(s) = n,
           NEW k \in Nat, \A i \in 1 .. n : s[i] <= k
    PROVE  Middle(s) \in Nat /\ Middle(s) <= k
<1> DEFINE h == n \div 2
<1>1. /\ h \in Nat /\ h + 1 \in 1 .. n
      /\ n % 2 = 0 => h \in 1 .. n
  <2>1. CASE n = 1
    BY <2>1, SMT
  <2>2. CASE n > 1
    BY <2>2, SMT
  <2> QED
    BY <2>1, <2>2
<1>2. Middle(s) = IF n % 2 = 0 THEN (Ranked(s, h) + Ranked(s, h + 1)) \div 2
                               ELSE Ranked(s, h + 1)
  BY Zenon DEF Middle, h
<1> HIDE DEF h
<1>3. \A r \in 1 .. n : Ranked(s, r) \in Nat /\ Ranked(s, r) <= k
  BY RankedType, Zenon
<1>4. CASE n % 2 = 0
  <2>1. /\ Ranked(s, h) \in Nat /\ Ranked(s, h) <= k
        /\ Ranked(s, h + 1) \in Nat /\ Ranked(s, h + 1) <= k
    BY <1>1, <1>3, <1>4
  <2>2. Middle(s) = (Ranked(s, h) + Ranked(s, h + 1)) \div 2
    BY <1>2, <1>4
  <2> QED
    BY <2>1, <2>2
<1>5. CASE ~ (n % 2 = 0)
  BY <1>1, <1>2, <1>3, <1>5
<1> QED
  BY <1>4, <1>5

\* What is sorted are words.
LEMMA SortedBound ==
    ASSUME NEW n \in Nat \ {0}, NEW c \in [1 .. n -> Nat], NEW left \in Nat,
           NEW k \in Nat, left <= k, \A i \in 1 .. n : c[i] <= k
    PROVE  /\ Sorted(c, left) \in [1 .. n -> Nat] /\ Len(Sorted(c, left)) = n
           /\ \A i \in 1 .. n : Sorted(c, left)[i] <= k
<1> DEFINE x == Sorted(c, left)
<1>1. /\ x \in [1 .. n -> Nat] /\ Len(x) = n
      /\ \A i \in 1 .. n - 1 : x[i] = c[i + 1]
      /\ x[n] = left
  BY SortedIs, Zenon
<1> HIDE DEF x
<1>2. ASSUME NEW i \in 1 .. n PROVE x[i] <= k
  <2>1. CASE i = n
    BY <1>1, <2>1
  <2>2. CASE i # n
    <3>1. i \in 1 .. n - 1 /\ i + 1 \in 1 .. n
      BY <2>2
    <3> QED
      BY <1>1, <3>1
  <2> QED
    BY <2>1, <2>2
<1> QED
  BY <1>1, <1>2 DEF x

\* What is stored of a packet of the cells.
LEMMA CellTypes ==
    ASSUME NEW cells \in Packs, NEW left \in UInt16,
           NEW least, least = Min(Range(cells) \cup {NoCell}),
           NEW greatest, greatest = Max(Range(cells) \cup {0})
    PROVE  /\ least \in UInt16 /\ greatest \in UInt16
           /\ greatest - least \in UInt16
           /\ AverageOf(cells) \in UInt16
           /\ Middle(Sorted(cells, left)) \in UInt16
           /\ Ranked(Sorted(cells, left), Len(Sorted(cells, left))) \in UInt16
<1>1. PICK n \in Nat \ {0} :
         /\ n <= 15 /\ cells \in [1 .. n -> Nat] /\ Len(cells) = n
         /\ \A i \in 1 .. n : cells[i] <= CellTop
  BY PackIs, Zenon
<1>2. /\ least \in Nat /\ greatest \in Nat
      /\ greatest <= CellTop
      /\ \A i \in 1 .. n : least <= cells[i] /\ cells[i] <= greatest
  BY <1>1, NoCellType, CellTopType, Extremes, Zenon
<1>3. least <= greatest
  <2>1. 1 \in 1 .. n /\ cells[1] \in Nat
    BY <1>1
  <2> QED
    BY <1>2, <2>1
<1>5. ASSUME NEW x, x = Sorted(cells, left)
      PROVE  /\ Middle(x) \in Nat /\ Middle(x) <= Max16
             /\ Ranked(x, Len(x)) \in Nat /\ Ranked(x, Len(x)) <= Max16
  <2>1. left \in Nat /\ left <= Max16 /\ Max16 \in Nat
        /\ \A i \in 1 .. n : cells[i] <= Max16
    BY <1>1, WordIs, CellTopInWord, CellTopType, Max16Type
  <2>2. /\ x \in [1 .. n -> Nat] /\ Len(x) = n
        /\ \A i \in 1 .. n : x[i] <= Max16
    BY <1>1, <1>5, <2>1, SortedBound, Zenon
  <2>3. Ranked(x, n) \in Nat /\ Ranked(x, n) <= Max16
    <3>1. n \in Nat /\ n \in 1 .. n
      OBVIOUS
    <3> QED
      BY <2>1, <2>2, <3>1, RankedType, Zenon
  <2> QED
    BY <2>1, <2>2, <2>3, MiddleType
<1>6. least <= Max16 /\ greatest <= Max16 /\ greatest - least \in Nat
      /\ greatest - least <= Max16
  BY <1>2, <1>3, CellTopInWord, CellTopType, Max16Type
<1>7. AverageOf(cells) \in Nat /\ AverageOf(cells) <= Max16
  BY <1>1, AverageType
<1> QED
  BY <1>2, <1>5, <1>6, <1>7, WordIs, Zenon

\* TypeOK is kept by both packets.
LEMMA NextTypes == TypeOK /\ [Next]_vars => TypeOK'
<1> SUFFICES ASSUME TypeOK, [Next]_vars PROVE TypeOK'
  OBVIOUS
<1> USE DEF TypeOK
<1>1. ASSUME NEW cells \in Packs, ProcessCellInfo(cells)
      PROVE  TypeOK'
  <2> DEFINE least    == Min(Range(cells) \cup {NoCell})
             greatest == Max(Range(cells) \cup {0})
             average  == AverageOf(cells)
             median   == Middle(Sorted(cells, behind))
             last     == Ranked(Sorted(cells, behind), Len(Sorted(cells, behind)))
  <2>1. /\ least \in UInt16 /\ greatest \in UInt16 /\ greatest - least \in UInt16
        /\ average \in UInt16 /\ median \in UInt16 /\ last \in UInt16
    BY CellTypes, Zenon
  <2>2. /\ packCellInfo' =
              [CellVolt |-> cells, CellMin |-> least, CellMax |-> greatest,
               CellDiff |-> greatest - least, CellAvg |-> average,
               CellMedian |-> median]
        /\ behind' = last
        /\ UNCHANGED <<received, packBasicInfo>>
    BY <1>1 DEF ProcessCellInfo
  <2> HIDE DEF least, greatest, average, median, last
  <2>3. cells \in {<<>>} \cup Packs
    OBVIOUS
  <2>4. packCellInfo' \in CellInfoType
    BY <2>1, <2>2, <2>3 DEF CellInfoType
  <2> QED
    BY <2>1, <2>2, <2>4
<1>2. ASSUME NEW volts \in VoltLevels, NEW amps \in AmpLevels,
             NEW temp1 \in TempLevels, NEW temp2 \in TempLevels,
             ProcessBasicInfo(volts, amps, temp1, temp2)
      PROVE  TypeOK'
  <2> DEFINE v == (volts * 10) % 65536
             c == Signed16(amps) * 10
             w == WattsOf(v, c)
             t == TempOf(temp1)
             u == TempOf(IF numberOfTemperature = 1 THEN temp1 ELSE temp2)
  <2>1. /\ v \in UInt16 /\ c \in -MaxAmps .. MaxAmps /\ w \in -MaxWatts .. MaxWatts
        /\ t \in UInt16 /\ u \in UInt16
    BY BasicTypes, TempType
  <2>2. /\ received' = [volts |-> volts, amps |-> amps,
                        temp1 |-> temp1, temp2 |-> temp2]
        /\ packBasicInfo' = [Volts |-> v, Amps |-> c, Watts |-> w,
                             Temp1 |-> t, Temp2 |-> u]
        /\ UNCHANGED <<packCellInfo, behind>>
    BY <1>2 DEF ProcessBasicInfo
  <2> HIDE DEF v, c, w, t, u
  <2>3. packBasicInfo' \in BasicInfoType
    BY <2>1, <2>2 DEF BasicInfoType
  <2>4. received' \in ReceivedType
    BY <2>2 DEF ReceivedType
  <2> QED
    BY <2>2, <2>3, <2>4
<1>3. CASE UNCHANGED vars
  BY <1>3 DEF vars
<1> QED
  BY <1>1, <1>2, <1>3 DEF Next

\* MyBLE2.cpp:240-348: every value is in the range of its field, whatever wraps.
THEOREM ValuesTypeOK == Spec => []TypeOK
<1>1. Init => TypeOK
  <2> SUFFICES ASSUME Init PROVE TypeOK
    OBVIOUS
  <2>1. received \in ReceivedType
    BY DEF Init, Fresh, ReceivedType
  <2>2. 0 \in UInt16 /\ 0 \in -MaxAmps .. MaxAmps /\ 0 \in -MaxWatts .. MaxWatts
    BY WordIs, Max16Type, MaxTypes
  <2>3. packBasicInfo \in BasicInfoType
    BY <2>2 DEF Init, Fresh, BasicInfoType
  <2>4. packCellInfo \in CellInfoType
    BY <2>2 DEF Init, Fresh, CellInfoType
  <2>5. behind \in UInt16
    <3>1. Leftovers \subseteq UInt16
      BY SMT, ValuesAssumption
    <3> QED
      BY <3>1 DEF Init
  <2> QED
    BY <2>1, <2>3, <2>4, <2>5 DEF TypeOK
<1> QED
  BY <1>1, NextTypes, PTL DEF Spec

-----------------------------------------------------------------------------
(* The median. *)

\* MedianNearMiddle is kept by both packets.
LEMMA NextMedian == TypeOK /\ MedianNearMiddle /\ [Next]_vars => MedianNearMiddle'
<1> SUFFICES ASSUME TypeOK, MedianNearMiddle, [Next]_vars PROVE MedianNearMiddle'
  OBVIOUS
<1>1. ASSUME NEW cells \in Packs, ProcessCellInfo(cells)
      PROVE  MedianNearMiddle'
  <2>1. packCellInfo'.CellVolt = cells
        /\ packCellInfo'.CellMedian = Middle(Sorted(cells, behind))
    BY <1>1 DEF ProcessCellInfo
  <2>2. PICK n \in Nat \ {0} :
           /\ n <= 15 /\ cells \in [1 .. n -> Nat] /\ Len(cells) = n
           /\ \A i \in 1 .. n : cells[i] <= CellTop
    BY PackIs, Zenon
  <2>3. behind \in Nat /\ behind <= Max16 /\ Max16 \in Nat
        /\ \A i \in 1 .. n : cells[i] <= Max16
    BY <2>2, WordIs, CellTopInWord, CellTopType, Max16Type DEF TypeOK
  <2>4. n > 2 =>
          LET m == Middle(Sorted(cells, behind))
              h == n \div 2
          IN  IF n % 2 = 0
              THEN /\ m >= (Ranked(cells, h - 1) + Ranked(cells, h)) \div 2
                   /\ m <= (Ranked(cells, h + 1) + Ranked(cells, h + 2)) \div 2
              ELSE /\ m >= Ranked(cells, h)
                   /\ m <= Ranked(cells, h + 2)
    BY <2>2, <2>3, MedianBetween, Zenon
  <2> QED
    BY <2>1, <2>2, <2>4, Zenon DEF MedianNearMiddle, Cells
<1>2. CASE UNCHANGED packCellInfo
  BY <1>2 DEF MedianNearMiddle, Cells
<1>3. ASSUME NEW volts \in VoltLevels, NEW amps \in AmpLevels,
             NEW temp1 \in TempLevels, NEW temp2 \in TempLevels,
             ProcessBasicInfo(volts, amps, temp1, temp2)
      PROVE  MedianNearMiddle'
  BY <1>2, <1>3 DEF ProcessBasicInfo
<1> QED
  BY <1>1, <1>2, <1>3 DEF Next, vars

\* MyBLE2.cpp:309-340: for every pack and whatever the stack holds behind the
\* array, the median is one place off at most.
THEOREM MedianOnePlaceOff == Spec => []MedianNearMiddle
<1>1. Init => MedianNearMiddle
  <2>1. Init => Len(Cells) = 0
    BY EmptySeq DEF Init, Fresh, Cells
  <2> QED
    BY <2>1 DEF MedianNearMiddle
<1> QED
  BY <1>1, NextMedian, ValuesTypeOK, PTL DEF Spec
=============================================================================
