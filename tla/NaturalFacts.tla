---------------------------- MODULE NaturalFacts ----------------------------
(***************************************************************************)
(* Facts about numbers and sums that the proofs need.  They are by         *)
(* induction, in the form of the least number at which something fails.    *)
(***************************************************************************)
EXTENDS Integers, FiniteSets, FiniteSetsExt, Functions, WellFoundedInduction,
        FiniteSetTheorems, TLAPS

(* A set of numbers that is not empty has a least one: the first index of a *)
(* path in skipPathArray (deposit-flow.js).                                 *)
LEMMA Least ==
    ASSUME NEW S \in SUBSET Nat, S # {}
    PROVE  \E i \in S : \A j \in S : i <= j
<1>1. IsWellFoundedOn(OpToRel(<, Nat), Nat)
  BY NatLessThanWellFounded
<1>2. PICK i \in S : \A j \in S : ~ (<<j, i>> \in OpToRel(<, Nat))
  BY <1>1, WFMin
<1>3. \A j \in S : ~ (j < i)
  BY <1>2 DEF OpToRel
<1>4. \A j \in S : i <= j
  BY <1>3
<1>5. QED BY <1>4

(* Min and Max of the community modules choose what they should.            *)
LEMMA MinIs ==
    ASSUME NEW S \in SUBSET Nat, S # {}
    PROVE  Min(S) \in S /\ \A x \in S : Min(S) <= x
<1>1. PICK c : c = CHOOSE x \in S : \A y \in S : x <= y
  OBVIOUS
<1>2. c \in S /\ \A y \in S : c <= y
  BY <1>1, Least
<1>3. QED BY <1>1, <1>2 DEF Min

LEMMA MaxIs ==
    ASSUME NEW k \in Nat
    PROVE  \A S \in SUBSET (1 .. k) : S # {} => Max(S) \in S /\ \A y \in S : Max(S) >= y
<1>1. ASSUME NEW S \in SUBSET (1 .. k), S # {} PROVE \E x \in S : \A y \in S : x >= y
  <2> DEFINE B == {k - x : x \in S}
  <2>1. B \in SUBSET Nat /\ B # {}
    <3>1. \A x \in S : k - x \in Nat
      OBVIOUS
    <3>2. PICK x : x \in S
      BY <1>1
    <3>3. k - x \in B
      BY <3>2
    <3>4. QED BY <3>1, <3>3
  <2>2. PICK b \in B : \A j \in B : b <= j
    BY <2>1, Least
  <2>3. PICK x \in S : b = k - x
    OBVIOUS
  <2>4. ASSUME NEW y \in S PROVE x >= y
    <3>1. k - y \in B /\ x \in Nat /\ y \in Nat
      OBVIOUS
    <3>2. k - x <= k - y
      BY <2>2, <2>3, <3>1
    <3>3. QED BY <3>1, <3>2
  <2>5. QED BY <2>4
<1>2. ASSUME NEW S \in SUBSET (1 .. k), S # {} PROVE Max(S) \in S /\ \A y \in S : Max(S) >= y
  <2>1. \E x \in S : \A y \in S : x >= y
    BY <1>1, <1>2
  <2>2. PICK m : m = CHOOSE x \in S : \A y \in S : x >= y
    OBVIOUS
  <2>3. m \in S /\ \A y \in S : m >= y
    BY <2>1, <2>2
  <2>4. QED BY <2>2, <2>3 DEF Max
<1>3. QED BY <1>2

LEMMA MaxIsIn ==
    ASSUME NEW k \in Nat
    PROVE  /\ \A S \in SUBSET (1 .. k) : S # {} => Max(S) \in S
           /\ k # 0 => Max(1 .. k) = k
<1>1. \A S \in SUBSET (1 .. k) : S # {} => Max(S) \in S
  BY MaxIs
<1>2. ASSUME k # 0 PROVE Max(1 .. k) = k
  <2>1. k \in 1 .. k /\ 1 .. k \in SUBSET (1 .. k)
    BY <1>2
  <2>2. PICK m : m = Max(1 .. k)
    OBVIOUS
  <2>3. m \in 1 .. k /\ m >= k
    BY MaxIs, <2>1, <2>2
  <2>4. QED BY <2>2, <2>3
<1>3. QED BY <1>1, <1>2

-----------------------------------------------------------------------------

(* The recursive function behind FoldFunctionOnSet(+, 0, g, S): the sums of *)
(* g over the subsets of S.                                                 *)
IsSum(h, g, S) ==
    h = [s \in SUBSET S |-> IF s = {} THEN 0
            ELSE g[CHOOSE x \in s : TRUE] + h[s \ {CHOOSE x \in s : TRUE}]]

(* If every g[x] is 1, counting is such a function ...                      *)
LEMMA CountIsSum ==
    ASSUME NEW S, NEW g, IsFiniteSet(S), \A x \in S : g[x] = 1
    PROVE IsSum([s \in SUBSET S |-> Cardinality(s)], g, S)
<1> DEFINE C == [s \in SUBSET S |-> Cardinality(s)]
<1>1. ASSUME NEW s \in SUBSET S, s # {}
      PROVE  Cardinality(s) = g[CHOOSE x \in s : TRUE] + C[s \ {CHOOSE x \in s : TRUE}]
  <2>1. PICK y : y = CHOOSE x \in s : TRUE
    OBVIOUS
  <2>2. y \in s
    BY <1>1, <2>1
  <2>3. Cardinality(s \ {y}) = Cardinality(s) - 1
    BY <2>2, FS_Subset, FS_RemoveElement
  <2>4. Cardinality(s) \in Nat
    BY FS_Subset, FS_CardinalityType
  <2>5. C[s \ {y}] = Cardinality(s \ {y}) /\ g[y] = 1
    BY <2>2
  <2>6. Cardinality(s) = g[y] + C[s \ {y}]
    BY <2>3, <2>4, <2>5
  <2>7. QED BY <2>6, <2>1
<1>2. Cardinality({}) = 0
  BY FS_EmptySet
<1> HIDE DEF C
<1>3. C = [s \in SUBSET S |-> IF s = {} THEN 0
            ELSE g[CHOOSE x \in s : TRUE] + C[s \ {CHOOSE x \in s : TRUE}]]
  BY <1>1, <1>2 DEF C
<1>4. QED BY <1>3 DEF IsSum, C

(* ... and the only one: the least number of elements at which another one  *)
(* differs would have a smaller one before it.                              *)
LEMMA SumIsCount ==
    ASSUME NEW S, NEW g, IsFiniteSet(S), \A x \in S : g[x] = 1,
           NEW h, IsSum(h, g, S)
    PROVE \A s \in SUBSET S : h[s] = Cardinality(s)
<1> DEFINE Bad == {k \in Nat : \E s \in SUBSET S : Cardinality(s) = k /\ h[s] # k}
<1>1. ASSUME Bad # {} PROVE FALSE
  <2>1. PICK k \in Bad : \A j \in Bad : k <= j
    BY <1>1, Least
  <2>2. PICK s \in SUBSET S : Cardinality(s) = k /\ h[s] # k
    OBVIOUS
  <2>3. s # {}
    BY <2>2, FS_EmptySet DEF IsSum
  <2>4. PICK y : y = CHOOSE x \in s : TRUE
    OBVIOUS
  <2>5. y \in s
    BY <2>3, <2>4
  <2>6. h[s] = g[y] + h[s \ {y}]
    BY <2>3, <2>4 DEF IsSum
  <2>7. Cardinality(s \ {y}) = Cardinality(s) - 1 /\ Cardinality(s) \in Nat /\ Cardinality(s \ {y}) \in Nat
    BY <2>5, FS_Subset, FS_RemoveElement, FS_CardinalityType
  <2>8. h[s \ {y}] # k - 1
    BY <2>2, <2>5, <2>6
  <2>9. k - 1 \in Bad
    BY <2>2, <2>7, <2>8
  <2>10. QED BY <2>1, <2>9
<1>2. ASSUME NEW s \in SUBSET S PROVE h[s] = Cardinality(s)
  <2>1. Cardinality(s) \in Nat
    BY FS_Subset, FS_CardinalityType
  <2>2. QED BY <1>1, <2>1
<1>3. QED BY <1>2

(* Chunks of one body each add up to their number.                          *)
LEMMA FoldOfOnes ==
    ASSUME NEW S, NEW g, IsFiniteSet(S), \A x \in S : g[x] = 1
    PROVE  FoldFunctionOnSet(+, 0, g, S) = Cardinality(S)
<1>1. PICK h : h = CHOOSE e : IsSum(e, g, S)
  OBVIOUS
<1>2. IsSum(h, g, S)
  BY <1>1, CountIsSum
<1>3. h[S] = Cardinality(S)
  BY <1>2, SumIsCount
<1>4. FoldFunctionOnSet(+, 0, g, S) = h[S]
  BY <1>1 DEF FoldFunctionOnSet, MapThenFoldSet, IsSum
<1>5. QED BY <1>3, <1>4

-----------------------------------------------------------------------------

(* It is one for the subsets of at most k elements.                         *)
IsSumUpTo(h, g, S, k) ==
    /\ h = [s \in SUBSET S |-> h[s]]
    /\ \A s \in SUBSET S : Cardinality(s) <= k =>
          h[s] = IF s = {} THEN 0
                 ELSE g[CHOOSE x \in s : TRUE] + h[s \ {CHOOSE x \in s : TRUE}]

(* Any sums are such a function: one for the subsets of at most k elements  *)
(* extends to k + 1.                                                        *)
LEMMA SumExists ==
    ASSUME NEW S, NEW g, IsFiniteSet(S)
    PROVE  \E h : IsSum(h, g, S)
<1> DEFINE c(s) == CHOOSE x \in s : TRUE
           Bad == {k \in Nat : ~ \E h : IsSumUpTo(h, g, S, k)}
<1>0. \A s \in SUBSET S : /\ IsFiniteSet(s) /\ Cardinality(s) \in Nat
                          /\ s # {} => /\ c(s) \in s /\ Cardinality(s) # 0
                                       /\ Cardinality(s \ {c(s)}) = Cardinality(s) - 1
  BY FS_Subset, FS_CardinalityType, FS_RemoveElement, FS_EmptySet
<1>1. ASSUME Bad # {} PROVE FALSE
  <2>1. PICK k \in Bad : \A j \in Bad : k <= j
    BY <1>1, Least
  <2>2. CASE k = 0
    <3> DEFINE h == [s \in SUBSET S |-> 0]
    <3>1. ASSUME NEW s \in SUBSET S, Cardinality(s) <= k PROVE s = {}
      <4>1. Cardinality(s) \in Nat /\ (s # {} => Cardinality(s) # 0)
        BY <1>0
      <4>2. QED BY <2>2, <3>1, <4>1
    <3>2. IsSumUpTo(h, g, S, k)
      BY <3>1 DEF IsSumUpTo
    <3>3. QED BY <2>1, <3>2
  <2>3. CASE k # 0
    <3>1. k - 1 \in Nat /\ ~ (k <= k - 1)
      BY <2>3
    <3>2. PICK h : IsSumUpTo(h, g, S, k - 1)
      BY <2>1, <3>1
    <3> DEFINE v == [s \in SUBSET S |-> IF Cardinality(s) <= k - 1 THEN h[s]
                                        ELSE g[c(s)] + h[s \ {c(s)}]]
    <3>3. ASSUME NEW s \in SUBSET S, Cardinality(s) <= k
          PROVE  v[s] = IF s = {} THEN 0 ELSE g[c(s)] + v[s \ {c(s)}]
      <4>1. CASE s = {}
        <5>1. Cardinality(s) <= k - 1
          BY <4>1, <3>1, FS_EmptySet
        <5>2. QED BY <3>2, <4>1, <5>1 DEF IsSumUpTo
      <4>2. CASE s # {}
        <5>1. Cardinality(s) \in Nat /\ Cardinality(s \ {c(s)}) = Cardinality(s) - 1
          BY <1>0, <4>2
        <5>2. Cardinality(s \ {c(s)}) <= k - 1
          BY <3>3, <5>1
        <5>3. v[s \ {c(s)}] = h[s \ {c(s)}]
          BY <5>2
        <5>4. CASE Cardinality(s) <= k - 1
          BY <3>2, <4>2, <5>3, <5>4 DEF IsSumUpTo
        <5>5. CASE ~ (Cardinality(s) <= k - 1)
          BY <4>2, <5>3, <5>5
        <5>6. QED BY <5>4, <5>5
      <4>3. QED BY <4>1, <4>2
    <3> HIDE DEF v
    <3>4. v = [s \in SUBSET S |-> v[s]]
      BY DEF v
    <3>5. IsSumUpTo(v, g, S, k)
      BY <3>3, <3>4 DEF IsSumUpTo
    <3>6. QED BY <2>1, <3>5
  <2>4. QED BY <2>2, <2>3
<1>2. Cardinality(S) \in Nat
  BY FS_CardinalityType
<1>3. PICK h : IsSumUpTo(h, g, S, Cardinality(S))
  BY <1>1, <1>2
<1>4. \A s \in SUBSET S : Cardinality(s) <= Cardinality(S)
  BY FS_Subset
<1>5. \A s \in SUBSET S : h[s] = IF s = {} THEN 0 ELSE g[c(s)] + h[s \ {c(s)}]
  BY <1>3, <1>4 DEF IsSumUpTo
<1>6. h = [s \in SUBSET S |-> IF s = {} THEN 0 ELSE g[c(s)] + h[s \ {c(s)}]]
  BY <1>3, <1>5 DEF IsSumUpTo
<1>7. QED BY <1>6 DEF IsSum

(* A sum does not depend on the set it was defined for ...                  *)
LEMMA SumsAgree ==
    ASSUME NEW S, NEW g, IsFiniteSet(S), NEW h, IsSum(h, g, S),
           NEW T, NEW f, NEW v, IsSum(v, f, T),
           NEW U, U \subseteq S, U \subseteq T, \A x \in U : g[x] = f[x]
    PROVE  h[U] = v[U]
<1> DEFINE c(s) == CHOOSE x \in s : TRUE
           Bad == {k \in Nat : \E s \in SUBSET U : Cardinality(s) = k /\ h[s] # v[s]}
<1>1. ASSUME Bad # {} PROVE FALSE
  <2>1. PICK k \in Bad : \A j \in Bad : k <= j
    BY <1>1, Least
  <2>2. PICK s \in SUBSET U : Cardinality(s) = k /\ h[s] # v[s]
    BY <2>1
  <2>3. s \in SUBSET S /\ s \in SUBSET T
    OBVIOUS
  <2>4. s # {}
    BY <2>2, <2>3 DEF IsSum
  <2>5. PICK y : y = c(s)
    OBVIOUS
  <2>6. y \in s
    BY <2>4, <2>5
  <2>7. h[s] = g[y] + h[s \ {y}] /\ v[s] = f[y] + v[s \ {y}]
    BY <2>3, <2>4, <2>5 DEF IsSum
  <2>8. h[s \ {y}] # v[s \ {y}]
    BY <2>2, <2>6, <2>7
  <2>9. Cardinality(s \ {y}) = k - 1 /\ k - 1 \in Nat
    <3>1. IsFiniteSet(s) /\ Cardinality(s) \in Nat
      BY <2>3, FS_Subset, FS_CardinalityType
    <3>2. Cardinality(s \ {y}) = Cardinality(s) - 1 /\ Cardinality(s \ {y}) \in Nat
      BY <2>6, <3>1, FS_RemoveElement, FS_CardinalityType
    <3>3. QED BY <2>2, <3>2
  <2>10. k - 1 \in Bad
    BY <2>8, <2>9
  <2>11. QED BY <2>1, <2>9, <2>10
<1>2. IsFiniteSet(U) /\ Cardinality(U) \in Nat
  BY FS_Subset, FS_CardinalityType
<1>3. QED BY <1>1, <1>2

(* ... nor on the order in which it is taken.                               *)
LEMMA SumTakes ==
    ASSUME NEW S, NEW g, IsFiniteSet(S), NEW h, IsSum(h, g, S),
           \A x \in S : g[x] \in Nat,
           NEW s \in SUBSET S
    PROVE  h[s] \in Nat /\ \A x \in s : h[s] = g[x] + h[s \ {x}]
<1> DEFINE c(r) == CHOOSE x \in r : TRUE
           Bad == {k \in Nat : \E r \in SUBSET S : Cardinality(r) = k /\
                      ~ (h[r] \in Nat /\ \A x \in r : h[r] = g[x] + h[r \ {x}])}
<1>1. ASSUME Bad # {} PROVE FALSE
  <2>1. PICK k \in Bad : \A j \in Bad : k <= j
    BY <1>1, Least
  <2>2. PICK r \in SUBSET S : Cardinality(r) = k /\
                      ~ (h[r] \in Nat /\ \A x \in r : h[r] = g[x] + h[r \ {x}])
    BY <2>1
  <2>3. r # {}
    <3>1. h[{}] = 0
      BY DEF IsSum
    <3>2. QED BY <2>2, <3>1
  <2>4. PICK y : y = c(r)
    OBVIOUS
  <2>5. y \in r
    BY <2>3, <2>4
  <2>6. h[r] = g[y] + h[r \ {y}]
    BY <2>3, <2>4 DEF IsSum
  <2>7. IsFiniteSet(r) /\ Cardinality(r) \in Nat
    BY FS_Subset, FS_CardinalityType
  <2>8. ASSUME NEW x \in r
        PROVE  h[r \ {x}] \in Nat /\ \A z \in r \ {x} : h[r \ {x}] = g[z] + h[(r \ {x}) \ {z}]
    <3>1. Cardinality(r \ {x}) = k - 1 /\ k - 1 \in Nat
      <4>1. Cardinality(r \ {x}) = Cardinality(r) - 1 /\ Cardinality(r \ {x}) \in Nat
        BY <2>7, FS_RemoveElement, FS_CardinalityType
      <4>2. QED BY <2>2, <4>1
    <3>2. k - 1 \notin Bad
      BY <2>1, <3>1
    <3>3. r \ {x} \in SUBSET S
      OBVIOUS
    <3>4. QED BY <3>1, <3>2, <3>3
  <2>9. h[r] \in Nat
    <3>1. g[y] \in Nat /\ h[r \ {y}] \in Nat
      BY <2>5, <2>8
    <3>2. QED BY <2>6, <3>1
  <2>10. ASSUME NEW x \in r PROVE h[r] = g[x] + h[r \ {x}]
    <3>1. CASE x = y
      BY <2>6, <3>1
    <3>2. CASE x # y
      <4>1. h[r \ {y}] = g[x] + h[(r \ {y}) \ {x}]
        BY <2>5, <2>8, <3>2
      <4>2. h[r \ {x}] = g[y] + h[(r \ {x}) \ {y}]
        BY <2>5, <2>8, <3>2
      <4>3. (r \ {y}) \ {x} = (r \ {x}) \ {y}
        OBVIOUS
      <4>4. h[(r \ {x}) \ {y}] \in Nat
        <5>1. h[r \ {x}] \in Nat /\ g[y] \in Nat /\ g[x] \in Nat /\ h[r \ {y}] \in Nat
          BY <2>5, <2>8
        <5>2. Cardinality((r \ {x}) \ {y}) = k - 2 /\ k - 2 \in Nat
          <6>1. /\ Cardinality(r \ {x}) = Cardinality(r) - 1
                /\ IsFiniteSet(r \ {x})
            BY <2>7, FS_RemoveElement
          <6>2. /\ Cardinality((r \ {x}) \ {y}) = Cardinality(r \ {x}) - 1
                /\ Cardinality((r \ {x}) \ {y}) \in Nat
            BY <2>5, <3>2, <6>1, FS_RemoveElement, FS_CardinalityType
          <6>3. QED BY <2>2, <6>1, <6>2
        <5>3. k - 2 \notin Bad
          BY <2>1, <5>2
        <5>4. (r \ {x}) \ {y} \in SUBSET S
          OBVIOUS
        <5>5. QED BY <5>2, <5>3, <5>4
      <4>5. g[x] \in Nat /\ g[y] \in Nat
        BY <2>5
      <4>6. \A a, b, d \in Nat : a + (b + d) = b + (a + d)
        OBVIOUS
      <4>7. h[r] = g[y] + (g[x] + h[(r \ {x}) \ {y}])
        BY <2>6, <4>1, <4>3
      <4>8. h[r] = g[x] + (g[y] + h[(r \ {x}) \ {y}])
        BY <4>4, <4>5, <4>6, <4>7
      <4>9. QED BY <4>2, <4>8
    <3>3. QED BY <3>1, <3>2
  <2>11. QED BY <2>2, <2>9, <2>10
<1>2. IsFiniteSet(s) /\ Cardinality(s) \in Nat
  BY FS_Subset, FS_CardinalityType
<1>3. QED BY <1>1, <1>2

(* A fold over D with the step G takes its elements in the order in which c *)
(* chooses them.                                                            *)
IsFold(h, G, b, c, D) ==
    \A S \in SUBSET D : h[S] = IF S = {} THEN b ELSE G[<<h[S \ {c[S]}], c[S]>>]

IsFoldUpTo(h, G, b, c, D, k) ==
    \A S \in SUBSET D : Cardinality(S) <= k =>
        h[S] = IF S = {} THEN b ELSE G[<<h[S \ {c[S]}], c[S]>>]

(* There is one ...                                                         *)
LEMMA FoldExists ==
    ASSUME NEW D, IsFiniteSet(D), NEW X, NEW G \in [X \X D -> X], NEW b \in X,
           NEW c, \A S \in SUBSET D : S # {} => c[S] \in S
    PROVE  \E h \in [SUBSET D -> X] : IsFold(h, G, b, c, D)
<1> DEFINE Bad == {k \in Nat : ~ \E h \in [SUBSET D -> X] : IsFoldUpTo(h, G, b, c, D, k)}
<1>0. \A S \in SUBSET D : /\ IsFiniteSet(S) /\ Cardinality(S) \in Nat
                          /\ S # {} => /\ Cardinality(S) # 0 /\ S \ {c[S]} \in SUBSET D
                                       /\ Cardinality(S \ {c[S]}) = Cardinality(S) - 1
  BY FS_Subset, FS_CardinalityType, FS_RemoveElement, FS_EmptySet
<1>1. ASSUME Bad # {} PROVE FALSE
  <2>1. PICK k \in Bad : \A j \in Bad : k <= j
    BY <1>1, Least
  <2>2. CASE k = 0
    <3> DEFINE h == [S \in SUBSET D |-> b]
    <3>1. ASSUME NEW S \in SUBSET D, Cardinality(S) <= k PROVE S = {}
      <4>1. Cardinality(S) \in Nat /\ (S # {} => Cardinality(S) # 0)
        BY <1>0
      <4>2. QED BY <2>2, <3>1, <4>1
    <3>2. h \in [SUBSET D -> X] /\ IsFoldUpTo(h, G, b, c, D, k)
      BY <3>1 DEF IsFoldUpTo
    <3>3. QED BY <2>1, <3>2
  <2>3. CASE k # 0
    <3>1. k - 1 \in Nat /\ ~ (k <= k - 1)
      BY <2>3
    <3>2. PICK h \in [SUBSET D -> X] : IsFoldUpTo(h, G, b, c, D, k - 1)
      BY <2>1, <3>1
    <3> DEFINE v == [S \in SUBSET D |-> IF Cardinality(S) <= k - 1 THEN h[S]
                                        ELSE G[<<h[S \ {c[S]}], c[S]>>]]
    <3>3. ASSUME NEW S \in SUBSET D, Cardinality(S) <= k
          PROVE  v[S] = IF S = {} THEN b ELSE G[<<v[S \ {c[S]}], c[S]>>]
      <4>1. CASE S = {}
        <5>1. Cardinality(S) <= k - 1
          BY <4>1, <3>1, FS_EmptySet
        <5>2. QED BY <3>2, <4>1, <5>1 DEF IsFoldUpTo
      <4>2. CASE S # {}
        <5>1. /\ Cardinality(S) \in Nat /\ Cardinality(S \ {c[S]}) = Cardinality(S) - 1
              /\ S \ {c[S]} \in SUBSET D
          BY <1>0, <4>2
        <5>2. Cardinality(S \ {c[S]}) <= k - 1
          BY <3>3, <5>1
        <5>3. v[S \ {c[S]}] = h[S \ {c[S]}]
          BY <5>1, <5>2
        <5>4. CASE Cardinality(S) <= k - 1
          BY <3>2, <4>2, <5>3, <5>4 DEF IsFoldUpTo
        <5>5. CASE ~ (Cardinality(S) <= k - 1)
          BY <4>2, <5>3, <5>5
        <5>6. QED BY <5>4, <5>5
      <4>3. QED BY <4>1, <4>2
    <3>4. v \in [SUBSET D -> X]
      <4>1. ASSUME NEW S \in SUBSET D PROVE v[S] \in X
        <5>1. CASE Cardinality(S) <= k - 1
          BY <5>1
        <5>2. CASE ~ (Cardinality(S) <= k - 1)
          <6>1. S # {}
            <7>1. Cardinality({}) = 0 /\ 0 <= k - 1
              BY <3>1, FS_EmptySet
            <7>2. QED BY <5>2, <7>1
          <6>2. h[S \ {c[S]}] \in X /\ c[S] \in D
            BY <1>0, <6>1
          <6>3. QED BY <5>2, <6>2
        <5>3. QED BY <5>1, <5>2
      <4>2. QED BY <4>1
    <3> HIDE DEF v
    <3>5. IsFoldUpTo(v, G, b, c, D, k)
      BY <3>3 DEF IsFoldUpTo
    <3>6. QED BY <2>1, <3>4, <3>5
  <2>4. QED BY <2>2, <2>3
<1>2. Cardinality(D) \in Nat
  BY FS_CardinalityType
<1>3. PICK h \in [SUBSET D -> X] : IsFoldUpTo(h, G, b, c, D, Cardinality(D))
  BY <1>1, <1>2
<1>4. \A S \in SUBSET D : Cardinality(S) <= Cardinality(D)
  BY FS_Subset
<1>5. QED BY <1>3, <1>4 DEF IsFoldUpTo, IsFold

(* ... and what every step keeps holds at the end.                          *)
LEMMA FoldKeeps ==
    ASSUME NEW D, IsFiniteSet(D), NEW X, NEW h, h[{}] \in X,
           NEW c, \A S \in SUBSET D : S # {} => c[S] \in S,
           \A S \in SUBSET D : S # {} /\ h[S \ {c[S]}] \in X => h[S] \in X
    PROVE  h[D] \in X
<1> DEFINE Bad == {k \in Nat : \E S \in SUBSET D : Cardinality(S) = k /\ h[S] \notin X}
<1>1. ASSUME Bad # {} PROVE FALSE
  <2>1. PICK k \in Bad : \A j \in Bad : k <= j
    BY <1>1, Least
  <2>2. PICK S \in SUBSET D : Cardinality(S) = k /\ h[S] \notin X
    BY <2>1
  <2>3. S # {} /\ h[S \ {c[S]}] \notin X /\ c[S] \in S
    BY <2>2
  <2>4. /\ Cardinality(S) \in Nat /\ Cardinality(S \ {c[S]}) \in Nat
        /\ Cardinality(S \ {c[S]}) = Cardinality(S) - 1
    BY <2>3, FS_Subset, FS_CardinalityType, FS_RemoveElement
  <2>5. Cardinality(S \ {c[S]}) \in Bad
    BY <2>3, <2>4
  <2>6. Cardinality(S) <= Cardinality(S \ {c[S]})
    BY <2>1, <2>2, <2>5
  <2>7. QED BY <2>4, <2>6
<1>2. Cardinality(D) \in Nat
  BY FS_CardinalityType
<1>3. QED BY <1>1, <1>2

-----------------------------------------------------------------------------

(* How many elements of S are before x in the order R.                      *)
Ahead(x, S, R) == Cardinality({y \in S : <<y, x>> \in R})

(* The strict total order R gives each element of a finite set its place:   *)
(* how many are before it.                                                  *)
LEMMA Places ==
    ASSUME NEW S, IsFiniteSet(S), NEW R,
           \A x \in S : <<x, x>> \notin R,
           \A x, y, z \in S : <<x, y>> \in R /\ <<y, z>> \in R => <<x, z>> \in R,
           \A x, y \in S : x = y \/ <<x, y>> \in R \/ <<y, x>> \in R
    PROVE  /\ \A x \in S : Ahead(x, S, R) \in 0..(Cardinality(S) - 1)
           /\ \A x, y \in S : <<x, y>> \in R <=> Ahead(x, S, R) < Ahead(y, S, R)
           /\ \A x, y \in S : Ahead(x, S, R) = Ahead(y, S, R) => x = y
           /\ \A k \in 0..(Cardinality(S) - 1) : \E x \in S : Ahead(x, S, R) = k
<1> DEFINE B(x) == {y \in S : <<y, x>> \in R}
<1>0. Cardinality(S) \in Nat
  BY FS_CardinalityType
<1>1. ASSUME NEW x \in S
      PROVE  Ahead(x, S, R) \in Nat /\ Ahead(x, S, R) < Cardinality(S) /\ IsFiniteSet(B(x))
  <2>1. B(x) \in SUBSET S /\ B(x) # S
    OBVIOUS
  <2> HIDE DEF B
  <2>2. /\ IsFiniteSet(B(x)) /\ Cardinality(B(x)) <= Cardinality(S)
        /\ Cardinality(B(x)) # Cardinality(S)
    BY <2>1, FS_Subset
  <2>3. Cardinality(B(x)) \in Nat
    BY <2>2, FS_CardinalityType
  <2>4. QED BY <1>0, <2>2, <2>3 DEF Ahead, B
<1>2. ASSUME NEW x \in S, NEW y \in S, <<x, y>> \in R
      PROVE  Ahead(x, S, R) < Ahead(y, S, R)
  <2>1. B(x) \in SUBSET B(y) /\ B(x) # B(y)
    <3>1. x \in B(y) /\ x \notin B(x)
      BY <1>2
    <3>2. \A z \in B(x) : z \in B(y)
      BY <1>2
    <3>3. QED BY <3>1, <3>2
  <2>2. IsFiniteSet(B(y)) /\ Ahead(x, S, R) \in Nat /\ Ahead(y, S, R) \in Nat
    BY <1>1
  <2>3. Ahead(x, S, R) = Cardinality(B(x)) /\ Ahead(y, S, R) = Cardinality(B(y))
    BY DEF Ahead
  <2> HIDE DEF B
  <2>4. Cardinality(B(x)) <= Cardinality(B(y)) /\ Cardinality(B(x)) # Cardinality(B(y))
    BY <2>1, <2>2, FS_Subset
  <2>5. QED BY <2>2, <2>3, <2>4
<1>3. \A x \in S : Ahead(x, S, R) \in 0..(Cardinality(S) - 1)
  <2>1. \A a, n \in Nat : a < n => a \in 0..(n - 1)
    OBVIOUS
  <2>2. QED BY <1>0, <1>1, <2>1, Zenon
<1>4. \A x, y \in S : Ahead(x, S, R) \in Nat /\ Ahead(y, S, R) \in Nat
  BY <1>1
<1>5. \A x, y \in S : <<x, y>> \in R <=> Ahead(x, S, R) < Ahead(y, S, R)
  <2>1. ASSUME NEW x \in S, NEW y \in S, Ahead(x, S, R) < Ahead(y, S, R), <<x, y>> \notin R
        PROVE  FALSE
    <3>1. x # y
      BY <1>4, <2>1
    <3>2. <<y, x>> \in R
      BY <2>1, <3>1
    <3>3. Ahead(y, S, R) < Ahead(x, S, R)
      BY <1>2, <3>2
    <3>4. QED BY <1>4, <2>1, <3>3
  <2>2. QED BY <1>2, <2>1
<1>6. \A x, y \in S : Ahead(x, S, R) = Ahead(y, S, R) => x = y
  <2>1. \A i \in Nat : ~ (i < i)
    OBVIOUS
  <2>2. QED BY <1>4, <1>5, <2>1
<1>7. \A k \in 0..(Cardinality(S) - 1) : \E x \in S : Ahead(x, S, R) = k
  <2> DEFINE f == [x \in S |-> Ahead(x, S, R)]
             D == 0..(Cardinality(S) - 1)
  <2>1. f \in [S -> D]
    BY <1>3
  <2>2. \A x, y \in S : f[x] = f[y] => x = y
    BY <1>6
  <2>3. IsFiniteSet(D) /\ Cardinality(D) = Cardinality(S)
    <3>1. 0 \in Int /\ Cardinality(S) - 1 \in Int
      BY <1>0
    <3>2. IsFiniteSet(D) /\ Cardinality(D) = IF 0 > Cardinality(S) - 1 THEN 0
                                             ELSE (Cardinality(S) - 1) - 0 + 1
      BY <3>1, FS_Interval
    <3>3. QED BY <1>0, <3>2
  <2>4. \A x \in S : f[x] = Ahead(x, S, R)
    OBVIOUS
  <2> HIDE DEF f, D
  <2>5. f \in Injection(S, D)
    BY <2>1, <2>2 DEF Injection, IsInjective
  <2>6. f \in Surjection(S, D)
    BY <2>3, <2>5, FS_Injection
  <2>7. \A k \in D : \E x \in S : f[x] = k
    BY <2>6 DEF Surjection
  <2>8. QED BY <2>4, <2>7 DEF D
<1>8. QED BY <1>3, <1>5, <1>6, <1>7

(* What holds of 0 and of each number after one of which it holds.          *)
LEMMA Upwards ==
    ASSUME NEW k \in Nat, NEW X, 0 \in X, \A i \in 1 .. k : i - 1 \in X => i \in X
    PROVE  \A i \in 0 .. k : i \in X
<1> DEFINE Bad == {i \in 0 .. k : i \notin X}
<1>1. ASSUME Bad # {} PROVE FALSE
  <2>1. Bad \in SUBSET Nat
    OBVIOUS
  <2> HIDE DEF Bad
  <2>2. PICK i \in Bad : \A j \in Bad : i <= j
    BY <1>1, <2>1, Least
  <2>3. i \in 0 .. k /\ i \notin X
    BY DEF Bad
  <2>4. i \in 1 .. k /\ i - 1 \in 0 .. k /\ ~ (i <= i - 1)
    BY <2>3
  <2>5. i - 1 \notin Bad
    BY <2>2, <2>4
  <2>6. i - 1 \in X
    BY <2>4, <2>5 DEF Bad
  <2>7. QED BY <2>3, <2>4, <2>6
<1>2. QED BY <1>1

(* A fold over 1 .. k takes the largest number off, until none is left.     *)
LEMMA Upto ==
    ASSUME NEW k \in Nat, NEW i \in 1 .. k
    PROVE  /\ 1 .. i \in SUBSET (1 .. k) /\ 1 .. i # {} /\ Max(1 .. i) = i
           /\ (1 .. i) \ {i} = 1 .. (i - 1) /\ i - 1 \in 0 .. k /\ i \in 0 .. k
<1>1. i \in Nat /\ i # 0 /\ i \in 1 .. i
  OBVIOUS
<1>2. Max(1 .. i) = i
  BY <1>1, MaxIsIn
<1>3. \A j \in 1 .. i : j \in 1 .. k
  OBVIOUS
<1>4. (1 .. i) \ {i} = 1 .. (i - 1)
  OBVIOUS
<1>5. i - 1 \in 0 .. k /\ i \in 0 .. k
  OBVIOUS
<1>6. QED BY <1>1, <1>2, <1>3, <1>4, <1>5
=============================================================================
