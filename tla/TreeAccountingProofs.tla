----------------------- MODULE TreeAccountingProofs -----------------------
(***************************************************************************)
(* Proofs about the tree's accounting: what its triggers keep, for every   *)
(* table, number of requests, and number of writes.                        *)
(***************************************************************************)
EXTENDS TreeAccounting, NaturalFacts, SequenceTheorems, TLAPS

-----------------------------------------------------------------------------
(* Sums of sizes.                                                           *)

LEMMA SumIs ==
    ASSUME NEW t, NEW S, NEW h,
           h = CHOOSE e : IsSum(e, [x \in S |-> t[x].size], S)
    PROVE  SumOf(t, S) = h[S]
<1> DEFINE g == [x \in S |-> t[x].size]
           it == CHOOSE iter : iter = [s \in SUBSET S |-> IF s = {} THEN 0
                    ELSE t[CHOOSE x \in s : TRUE].size + iter[s \ {CHOOSE x \in s : TRUE}]]
<1>1. SumOf(t, S) = it[S]
  BY DEF SumOf, MapThenSumSet, MapThenFoldSet
<1>2. ASSUME NEW e
      PROVE  IsSum(e, g, S) <=> e = [s \in SUBSET S |-> IF s = {} THEN 0
                ELSE t[CHOOSE x \in s : TRUE].size + e[s \ {CHOOSE x \in s : TRUE}]]
  <2>1. ASSUME NEW s \in SUBSET S, s # {}
        PROVE  g[CHOOSE x \in s : TRUE] = t[CHOOSE x \in s : TRUE].size
    BY <2>1
  <2> HIDE DEF g
  <2>2. [s \in SUBSET S |-> IF s = {} THEN 0
                ELSE t[CHOOSE x \in s : TRUE].size + e[s \ {CHOOSE x \in s : TRUE}]]
        = [s \in SUBSET S |-> IF s = {} THEN 0
                ELSE g[CHOOSE x \in s : TRUE] + e[s \ {CHOOSE x \in s : TRUE}]]
    BY <2>1
  <2>3. QED BY <2>2 DEF IsSum
<1> HIDE DEF g
<1>3. (CHOOSE e : IsSum(e, g, S)) = it
  BY <1>2
<1>4. QED BY <1>1, <1>3 DEF g

(* The sum of no sizes is 0, that of some is a number, to which each of     *)
(* them adds itself.                                                        *)
LEMMA SumFacts ==
    ASSUME NEW t, NEW S, IsFiniteSet(S), \A x \in S : t[x].size \in Nat
    PROVE  /\ SumOf(t, {}) = 0
           /\ SumOf(t, S) \in Nat
           /\ \A x \in S : SumOf(t, S) = t[x].size + SumOf(t, S \ {x})
<1> DEFINE G(U) == [x \in U |-> t[x].size]
           H(U) == CHOOSE e : IsSum(e, G(U), U)
<1>1. ASSUME NEW U, U \subseteq S
      PROVE  IsSum(H(U), G(U), U) /\ SumOf(t, U) = H(U)[U]
  <2>1. IsFiniteSet(U)
    BY <1>1, FS_Subset
  <2>2. \E e : IsSum(e, G(U), U)
    BY <2>1, SumExists
  <2>3. SumOf(t, U) = H(U)[U]
    BY SumIs
  <2>4. QED BY <2>2, <2>3
<1>2. \A x \in S : G(S)[x] \in Nat
  OBVIOUS
<1>3. SumOf(t, {}) = 0
  <2>1. IsSum(H({}), G({}), {}) /\ SumOf(t, {}) = H({})[{}]
    BY <1>1
  <2>2. QED BY <2>1 DEF IsSum
<1>4. SumOf(t, S) \in Nat
  <2>1. IsSum(H(S), G(S), S) /\ SumOf(t, S) = H(S)[S]
    BY <1>1
  <2> HIDE DEF G, H
  <2>2. QED BY <1>2, <2>1, SumTakes
<1>5. ASSUME NEW x \in S PROVE SumOf(t, S) = t[x].size + SumOf(t, S \ {x})
  <2>1. IsSum(H(S), G(S), S) /\ SumOf(t, S) = H(S)[S]
    BY <1>1
  <2>2. /\ IsSum(H(S \ {x}), G(S \ {x}), S \ {x})
        /\ SumOf(t, S \ {x}) = H(S \ {x})[S \ {x}]
    BY <1>1
  <2>3. \A y \in S \ {x} : G(S)[y] = G(S \ {x})[y]
    OBVIOUS
  <2>4. G(S)[x] = t[x].size
    OBVIOUS
  <2> DEFINE g == G(S)  f == G(S \ {x})  h == H(S)  v == H(S \ {x})  U == S \ {x}
  <2> HIDE DEF G, H
  <2>5. H(S)[S \ {x}] = H(S \ {x})[S \ {x}]
    <3>1. IsSum(h, g, S) /\ IsSum(v, f, U) /\ U \subseteq S /\ \A y \in U : g[y] = f[y]
      BY <2>1, <2>2, <2>3
    <3> HIDE DEF g, f, h, v, U
    <3>2. h[U] = v[U]
      BY <3>1, SumsAgree
    <3>3. QED BY <3>2 DEF h, v, U
  <2>6. H(S)[S] = G(S)[x] + H(S)[S \ {x}]
    BY <1>2, <2>1, SumTakes
  <2>7. QED BY <2>1, <2>2, <2>4, <2>5, <2>6
<1>6. QED BY <1>3, <1>4, <1>5

(* Equal sizes have equal sums.                                             *)
LEMMA SumSame ==
    ASSUME NEW t, NEW u, NEW S, IsFiniteSet(S), \A x \in S : t[x].size = u[x].size
    PROVE  SumOf(t, S) = SumOf(u, S)
<1> DEFINE g == [x \in S |-> t[x].size]
           f == [x \in S |-> u[x].size]
           h == CHOOSE e : IsSum(e, g, S)
<1>1. g = f
  OBVIOUS
<1>2. SumOf(t, S) = h[S]
  BY SumIs
<1>3. SumOf(u, S) = (CHOOSE e : IsSum(e, f, S))[S]
  BY SumIs
<1>4. QED BY <1>1, <1>2, <1>3

(* The sums of two sets that have nothing in common add up.                 *)
LEMMA SumUnion ==
    ASSUME NEW t, NEW S, NEW T, IsFiniteSet(S), IsFiniteSet(T), S \cap T = {},
           \A x \in S \cup T : t[x].size \in Nat
    PROVE  SumOf(t, S \cup T) = SumOf(t, S) + SumOf(t, T)
<1> DEFINE Bad == {k \in Nat : \E R \in SUBSET T : Cardinality(R) = k /\
                      SumOf(t, S \cup R) # SumOf(t, S) + SumOf(t, R)}
<1>1. ASSUME Bad # {} PROVE FALSE
  <2>1. PICK k \in Bad : \A j \in Bad : k <= j
    BY <1>1, Least
  <2>2. PICK R \in SUBSET T : Cardinality(R) = k /\
                      SumOf(t, S \cup R) # SumOf(t, S) + SumOf(t, R)
    BY <2>1
  <2>3. IsFiniteSet(R) /\ IsFiniteSet(S \cup R) /\ Cardinality(R) \in Nat
    BY FS_Subset, FS_Union, FS_CardinalityType
  <2>4. SumOf(t, S) \in Nat /\ SumOf(t, {}) = 0
    BY SumFacts
  <2>5. R # {}
    <3>1. ASSUME R = {} PROVE FALSE
      <4>1. S \cup R = S
        BY <3>1
      <4>2. QED BY <2>2, <2>4, <3>1, <4>1
    <3>2. QED BY <3>1
  <2>6. PICK x : x \in R
    BY <2>5
  <2>7. /\ SumOf(t, R) = t[x].size + SumOf(t, R \ {x})
        /\ SumOf(t, S \cup R) = t[x].size + SumOf(t, (S \cup R) \ {x})
    BY <2>3, <2>6, SumFacts
  <2>8. (S \cup R) \ {x} = S \cup (R \ {x})
    BY <2>6
  <2>9. IsFiniteSet(R \ {x}) /\ Cardinality(R \ {x}) = k - 1 /\ k - 1 \in Nat
    <3>1. Cardinality(R \ {x}) = Cardinality(R) - 1 /\ IsFiniteSet(R \ {x})
      BY <2>3, <2>6, FS_RemoveElement
    <3>2. Cardinality(R \ {x}) \in Nat
      BY <3>1, FS_CardinalityType
    <3>3. QED BY <2>2, <3>1, <3>2
  <2>10. SumOf(t, S \cup (R \ {x})) = SumOf(t, S) + SumOf(t, R \ {x})
    <3>1. k - 1 \notin Bad
      BY <2>1, <2>9
    <3>2. QED BY <2>9, <3>1
  <2>11. SumOf(t, R \ {x}) \in Nat /\ t[x].size \in Nat
    BY <2>6, <2>9, SumFacts
  <2>12. \A a, b, c \in Nat : a + (b + c) = b + (a + c)
    OBVIOUS
  <2>13. SumOf(t, S \cup R) = t[x].size + (SumOf(t, S) + SumOf(t, R \ {x}))
    BY <2>7, <2>8, <2>10
  <2>14. t[x].size + (SumOf(t, S) + SumOf(t, R \ {x}))
           = SumOf(t, S) + (t[x].size + SumOf(t, R \ {x}))
    BY <2>4, <2>11, <2>12
  <2>15. QED BY <2>2, <2>7, <2>13, <2>14
<1>2. Cardinality(T) \in Nat
  BY FS_CardinalityType
<1>3. QED BY <1>1, <1>2

-----------------------------------------------------------------------------
(* Paths.                                                                   *)

(* A path of node n: it ends with n, after containers.                      *)
GoodPath(t, n, p) ==
    /\ p \in Seq(Nodes) /\ p # <<>> /\ p[Len(p)] = n
    /\ \A i \in 1 .. Len(p) : i < Len(p) => p[i] \in Of(t, Containers)

(* The rows of a table are what the model's columns hold, each with a path  *)
(* that ends with its id, and a valid parent, in one organization.          *)
GoodTable(t) ==
    /\ t \in [Nodes -> Row \cup {None}]
    /\ \A n \in Ids(t) : /\ GoodPath(t, n, t[n].path)
                         /\ ValidParent(t, t[n].type, t[n].parent)
                         /\ t[n].type = "FILE" => t[n].count = 1
    /\ \A n, m \in Of(t, {"ORGANIZATION"}) : n = m

LEMMA RowIs ==
    ASSUME NEW t \in [Nodes -> Row \cup {None}], NEW n \in Ids(t)
    PROVE  /\ n \in Nodes /\ t[n] \in Row /\ n \in Nat
           /\ t[n].type \in Containers \cup {"FILE"} /\ t[n].parent \in Nodes \cup {None}
           /\ t[n].path \in Seq(Nodes) /\ t[n].size \in Nat /\ t[n].count \in Nat
           /\ t[n].deleted \in BOOLEAN
  BY NodesAssumption DEF Ids, Row, RowOf

(* One path is a prefix of another if it has the same elements first.       *)
LEMMA PrefixIs ==
    ASSUME NEW T, NEW p \in Seq(T), NEW q \in Seq(T)
    PROVE  IsPrefix(p, q) <=> Len(p) <= Len(q) /\ \A i \in 1 .. Len(p) : p[i] = q[i]
<1>1. CASE Len(p) <= Len(q)
  <2> DEFINE a == SubSeq(p, 1, Len(p))  b == SubSeq(q, 1, Len(p))
  <2>1. Len(p) \in Nat /\ Len(q) \in Nat
    OBVIOUS
  <2>2. /\ a \in Seq(T) /\ Len(a) = Len(p) /\ \A i \in 1 .. Len(p) : a[i] = p[i]
        /\ b \in Seq(T) /\ Len(b) = Len(p) /\ \A i \in 1 .. Len(p) : b[i] = q[i]
    BY <1>1, <2>1
  <2> HIDE DEF a, b
  <2>3. a = b <=> \A i \in 1 .. Len(p) : p[i] = q[i]
    <3>1. ASSUME \A i \in 1 .. Len(p) : p[i] = q[i] PROVE a = b
      <4>1. \A i \in 1 .. Len(a) : a[i] = b[i]
        BY <2>2, <3>1
      <4>2. QED BY <2>2, <4>1, SeqEqual
    <3>2. QED BY <2>2, <3>1
  <2>4. QED BY <1>1, <2>3 DEF IsPrefix, a, b
<1>2. CASE ~ (Len(p) <= Len(q))
  BY <1>2 DEF IsPrefix
<1>3. QED BY <1>1, <1>2

(* In a right table every element of a path is a node whose path is the     *)
(* part up to it: the least number of elements below which that failed      *)
(* would have a parent whose path is right.                                 *)
LEMMA PathParts ==
    ASSUME NEW t, GoodTable(t), PathsRight(t)
    PROVE  \A n \in Ids(t) : \A i \in 1 .. Len(t[n].path) :
              /\ t[n].path[i] \in Ids(t)
              /\ t[t[n].path[i]].path = SubSeq(t[n].path, 1, i)
<1> DEFINE P(n, i) == /\ t[n].path[i] \in Ids(t)
                      /\ t[t[n].path[i]].path = SubSeq(t[n].path, 1, i)
           Bad == {k \in Nat : \E n \in Ids(t) : Len(t[n].path) = k /\
                      \E i \in 1 .. Len(t[n].path) : ~ P(n, i)}
<1>1. ASSUME Bad # {} PROVE FALSE
  <2>1. PICK k \in Bad : \A j \in Bad : k <= j
    BY <1>1, Least
  <2>2. PICK n \in Ids(t) : Len(t[n].path) = k /\
                      \E i \in 1 .. Len(t[n].path) : ~ P(n, i)
    BY <2>1
  <2>3. PICK i \in 1 .. Len(t[n].path) : ~ P(n, i)
    BY <2>2
  <2>4. /\ t \in [Nodes -> Row \cup {None}] /\ GoodPath(t, n, t[n].path)
        /\ ValidParent(t, t[n].type, t[n].parent)
    BY DEF GoodTable
  <2>5. t[n].path \in Seq(Nodes) /\ t[n].path[Len(t[n].path)] = n /\ k \in Nat
    BY <2>1, <2>4 DEF GoodPath
  <2>6. ASSUME i = k PROVE FALSE
    <3>1. SubSeq(t[n].path, 1, k) = t[n].path
      BY <2>2, <2>5
    <3>2. QED BY <2>2, <2>3, <2>5, <2>6, <3>1
  <2>7. t[n].parent # None
    <3>1. ASSUME t[n].parent = None PROVE FALSE
      <4>1. t[n].path = <<n>>
        BY <3>1 DEF PathsRight
      <4>2. k = 1 /\ i = 1
        BY <2>2, <4>1
      <4>3. QED BY <2>6, <4>2
    <3>2. QED BY <3>1
  <2>8. PICK p \in Ids(t) : p = t[n].parent
    BY <2>4, <2>7 DEF ValidParent
  <2> DEFINE q == t[p].path  r == t[n].path
  <2>9. r = Append(q, n) /\ q \in Seq(Nodes) /\ r \in Seq(Nodes) /\ n \in Nodes
    BY <2>4, <2>5, <2>7, <2>8, RowIs DEF PathsRight
  <2>10. Len(q) \in Nat /\ Len(r) = Len(q) + 1
    <3> HIDE DEF q, r
    <3>1. QED BY <2>9
  <2>11. i \in 1 .. Len(q) /\ i <= Len(r)
    <3>1. i \in 1 .. Len(r) /\ i # Len(r)
      BY <2>2, <2>6
    <3> HIDE DEF q, r
    <3>2. QED BY <2>10, <3>1
  <2>12. P(p, i)
    <3>1. Len(q) < k
      <4>1. Len(r) = k
        BY <2>2
      <4> HIDE DEF q, r
      <4>2. QED BY <2>10, <4>1
    <3>2. Len(q) \notin Bad
      BY <2>1, <2>5, <2>10, <3>1
    <3>3. QED BY <2>10, <2>11, <3>2
  <2>13. r[i] = q[i] /\ SubSeq(r, 1, i) = SubSeq(q, 1, i)
    <3> HIDE DEF q, r
    <3>1. \A j \in 1 .. Len(q) : r[j] = q[j]
      BY <2>9
    <3> DEFINE a == SubSeq(r, 1, i)  b == SubSeq(q, 1, i)
    <3>2. a \in Seq(Nodes) /\ Len(a) = i /\ \A j \in 1 .. i : a[j] = r[j]
      BY <2>9, <2>10, <2>11
    <3>3. b \in Seq(Nodes) /\ Len(b) = i /\ \A j \in 1 .. i : b[j] = q[j]
      BY <2>9, <2>10, <2>11
    <3>4. \A j \in 1 .. i : r[j] = q[j]
      BY <2>10, <2>11, <3>1
    <3> HIDE DEF a, b
    <3>5. a = b
      BY <3>2, <3>3, <3>4, SeqEqual
    <3>6. QED BY <2>11, <3>1, <3>5 DEF a, b
  <2>14. QED BY <2>3, <2>12, <2>13
<1>2. ASSUME NEW n \in Ids(t), NEW i \in 1 .. Len(t[n].path)
      PROVE  P(n, i)
  <2>1. t[n].path \in Seq(Nodes)
    BY RowIs DEF GoodTable
  <2>2. Len(t[n].path) \in Nat
    BY <2>1
  <2>3. Len(t[n].path) \notin Bad
    BY <1>1
  <2>4. QED BY <2>2, <2>3
<1>3. QED BY <1>2

(* The nodes on the path of n.                                              *)
On(t, n) == Range(t[n].path)

(* They are n and containers, each of them above the next ...               *)
LEMMA OnPath ==
    ASSUME NEW t, GoodTable(t), NEW n \in Ids(t)
    PROVE  n \in On(t, n) /\ \A m \in On(t, n) : m # n => m \in Of(t, Containers)
<1> DEFINE p == t[n].path
<1>1. GoodPath(t, n, p) /\ p \in Seq(Nodes) /\ p # <<>>
  BY DEF GoodTable, GoodPath
<1> HIDE DEF p
<1>2. Len(p) \in Nat /\ Len(p) \in 1 .. Len(p) /\ DOMAIN p = 1 .. Len(p)
  BY <1>1
<1>3. \A i \in 1 .. Len(p) : i # Len(p) => p[i] \in Of(t, Containers)
  <2>1. \A l \in Nat : \A i \in 1 .. l : i # l => i < l
    OBVIOUS
  <2>2. \A i \in 1 .. Len(p) : i # Len(p) => i < Len(p)
    BY <1>2, <2>1
  <2>3. QED BY <1>1, <2>2 DEF GoodPath
<1>4. n \in Range(p) /\ \A m \in Range(p) : m # n => m \in Of(t, Containers)
  BY <1>1, <1>2, <1>3 DEF GoodPath, Range
<1>5. QED BY <1>4 DEF On, p

LEMMA PathTypes ==
    ASSUME NEW t, GoodTable(t), NEW n \in Ids(t)
    PROVE  /\ t[n].path \in Seq(Nodes) /\ Len(t[n].path) \in Nat /\ Len(t[n].path) > 0
           /\ DOMAIN t[n].path = 1 .. Len(t[n].path)
           /\ t[n].path[Len(t[n].path)] = n
<1> DEFINE p == t[n].path
<1>1. p \in Seq(Nodes) /\ p # <<>> /\ p[Len(p)] = n
  BY DEF GoodTable, GoodPath
<1> HIDE DEF p
<1>2. /\ p \in Seq(Nodes) /\ Len(p) \in Nat /\ Len(p) > 0
      /\ DOMAIN p = 1 .. Len(p) /\ p[Len(p)] = n
  BY <1>1
<1>3. QED BY <1>2 DEF p

(* ... in a right table, those whose paths are a part of it ...             *)
LEMMA PrefixOn ==
    ASSUME NEW t, GoodTable(t), PathsRight(t), NEW n \in Ids(t), NEW m \in Ids(t)
    PROVE  IsPrefix(t[n].path, t[m].path) <=> n \in On(t, m)
<1> DEFINE p == t[n].path  q == t[m].path
<1>1. /\ p \in Seq(Nodes) /\ Len(p) \in Nat /\ Len(p) > 0 /\ p[Len(p)] = n
      /\ q \in Seq(Nodes) /\ Len(q) \in Nat /\ DOMAIN q = 1 .. Len(q)
  BY PathTypes
<1>2. \A i \in 1 .. Len(q) : q[i] = n => p = SubSeq(q, 1, i)
  BY PathParts
<1> HIDE DEF p, q
<1>3. ASSUME IsPrefix(p, q) PROVE n \in Range(q)
  <2>1. Len(p) \in 1 .. Len(q) /\ q[Len(p)] = n
    BY <1>1, <1>3, PrefixIs
  <2>2. QED BY <1>1, <2>1 DEF Range
<1>4. ASSUME n \in Range(q) PROVE IsPrefix(p, q)
  <2>1. PICK i \in 1 .. Len(q) : q[i] = n
    BY <1>1, <1>4 DEF Range
  <2>2. p = SubSeq(q, 1, i)
    BY <1>2, <2>1
  <2>3. Len(p) = i /\ \A j \in 1 .. i : p[j] = q[j]
    BY <1>1, <2>1, <2>2
  <2>4. QED BY <1>1, <2>1, <2>3, PrefixIs
<1>5. QED BY <1>3, <1>4 DEF On, p, q

LEMMA OnIds ==
    ASSUME NEW t, GoodTable(t), PathsRight(t), NEW n \in Ids(t)
    PROVE  On(t, n) \subseteq Ids(t)
<1>1. \A i \in DOMAIN t[n].path : t[n].path[i] \in Ids(t)
  BY PathTypes, PathParts
<1>2. QED BY <1>1 DEF On, Range

(* ... so that being on the path orders the nodes of one path.              *)
LEMMA OnOrders ==
    ASSUME NEW t, GoodTable(t), PathsRight(t), NEW n \in Ids(t)
    PROVE  /\ \A m \in On(t, n) : On(t, m) \subseteq On(t, n)
           /\ \A k, m \in On(t, n) : k \in On(t, m) \/ m \in On(t, k)
           /\ \A m \in On(t, n) : n \in On(t, m) => m = n
<1> DEFINE p(k) == t[k].path
<1>1. \A k \in Ids(t) : /\ p(k) \in Seq(Nodes) /\ Len(p(k)) \in Nat /\ Len(p(k)) > 0
                        /\ p(k)[Len(p(k))] = k
  BY PathTypes
<1>2. \A k, m \in Ids(t) : k \in On(t, m) <=>
         Len(p(k)) <= Len(p(m)) /\ \A i \in 1 .. Len(p(k)) : p(k)[i] = p(m)[i]
  BY <1>1, PrefixOn, PrefixIs
<1>3. \A m \in Ids(t) : On(t, m) \subseteq Ids(t)
  BY OnIds
<1> HIDE DEF p
<1>4. ASSUME NEW m \in On(t, n), NEW k \in On(t, m) PROVE k \in On(t, n)
  <2>1. k \in Ids(t) /\ m \in Ids(t)
    BY <1>3
  <2>2. Len(p(k)) <= Len(p(m)) /\ Len(p(m)) <= Len(p(n))
    BY <1>2, <2>1
  <2>3. \A i \in 1 .. Len(p(k)) : p(k)[i] = p(m)[i] /\ i \in 1 .. Len(p(m))
    BY <1>1, <1>2, <2>1, <2>2
  <2>4. \A i \in 1 .. Len(p(m)) : p(m)[i] = p(n)[i]
    BY <1>2, <2>1
  <2>5. Len(p(k)) <= Len(p(n))
    BY <1>1, <2>1, <2>2
  <2>6. QED BY <1>2, <2>1, <2>3, <2>4, <2>5
<1>5. ASSUME NEW m \in On(t, n), NEW k \in On(t, n), Len(p(k)) <= Len(p(m))
      PROVE  k \in On(t, m)
  <2>1. k \in Ids(t) /\ m \in Ids(t)
    BY <1>3
  <2>2. \A i \in 1 .. Len(p(k)) : p(k)[i] = p(n)[i] /\ i \in 1 .. Len(p(m))
    BY <1>1, <1>2, <1>5, <2>1
  <2>3. \A i \in 1 .. Len(p(m)) : p(m)[i] = p(n)[i]
    BY <1>2, <2>1
  <2>4. QED BY <1>2, <1>5, <2>1, <2>2, <2>3
<1>6. ASSUME NEW m \in On(t, n), n \in On(t, m) PROVE m = n
  <2>1. m \in Ids(t) /\ n \in Ids(t)
    BY <1>3
  <2>2. Len(p(m)) <= Len(p(n)) /\ Len(p(n)) <= Len(p(m))
    BY <1>2, <1>6, <2>1
  <2>3. Len(p(m)) = Len(p(n)) /\ Len(p(m)) \in 1 .. Len(p(m))
    BY <1>1, <2>1, <2>2
  <2>4. p(m)[Len(p(m))] = p(n)[Len(p(n))]
    BY <1>2, <2>1, <2>3
  <2>5. QED BY <1>1, <2>1, <2>4
<1>7. \A k, m \in On(t, n) : Len(p(k)) <= Len(p(m)) \/ Len(p(m)) <= Len(p(k))
  BY <1>1, <1>3
<1>8. QED BY <1>4, <1>5, <1>6, <1>7

(* The nodes on the path of n are those on its parent's and n, which is not *)
(* on its parent's.                                                         *)
LEMMA OnParent ==
    ASSUME NEW t, GoodTable(t), PathsRight(t), NEW n \in Ids(t)
    PROVE  /\ t[n].parent = None => On(t, n) = {n}
           /\ t[n].parent # None =>
                 /\ t[n].parent \in Of(t, Containers)
                 /\ On(t, n) = On(t, t[n].parent) \cup {n}
                 /\ n \notin On(t, t[n].parent)
<1>1. CASE t[n].parent = None
  <2>1. t[n].path = <<n>>
    BY <1>1 DEF PathsRight
  <2>2. QED BY <1>1, <2>1 DEF On, Range
<1>2. CASE t[n].parent # None
  <2>1. ValidParent(t, t[n].type, t[n].parent)
    BY DEF GoodTable
  <2>2. PICK p \in Ids(t) : p = t[n].parent
    BY <1>2, <2>1 DEF ValidParent
  <2>3. p \in Of(t, Containers)
    BY <2>1, <2>2, <1>2 DEF ValidParent, ValidParents, Of, Containers
  <2> DEFINE q == t[p].path  r == t[n].path
  <2>4. r = Append(q, n)
    BY <1>2, <2>2 DEF PathsRight
  <2>5. /\ q \in Seq(Nodes) /\ Len(q) \in Nat /\ DOMAIN q = 1 .. Len(q)
        /\ r \in Seq(Nodes) /\ Len(r) \in Nat /\ DOMAIN r = 1 .. Len(r)
        /\ n \in Nodes
    BY PathTypes, RowIs DEF GoodTable
  <2> HIDE DEF q, r
  <2>6. /\ Len(r) = Len(q) + 1 /\ r[Len(q) + 1] = n
        /\ \A i \in 1 .. Len(q) : r[i] = q[i]
    BY <2>4, <2>5
  <2>7. Range(r) = Range(q) \cup {n}
    <3>1. Range(r) \subseteq Range(q) \cup {n}
      <4>1. \A i \in 1 .. Len(r) : i \in 1 .. Len(q) \/ i = Len(q) + 1
        BY <2>5, <2>6
      <4>2. QED BY <2>5, <2>6, <4>1 DEF Range
    <3>2. Range(q) \cup {n} \subseteq Range(r)
      <4>1. \A i \in 1 .. Len(q) : i \in 1 .. Len(r)
        BY <2>5, <2>6
      <4>2. Len(q) + 1 \in 1 .. Len(r)
        BY <2>5, <2>6
      <4>3. QED BY <2>5, <2>6, <4>1, <4>2 DEF Range
    <3>3. QED BY <3>1, <3>2
  <2>8. ASSUME n \in Range(q) PROVE FALSE
    <3>1. IsPrefix(r, q)
      BY <2>8, PrefixOn DEF On, q, r
    <3>2. Len(r) <= Len(q)
      BY <3>1 DEF IsPrefix
    <3>3. QED BY <2>5, <2>6, <3>2
  <2>9. QED BY <1>2, <2>2, <2>3, <2>7, <2>8 DEF On, q, r
<1>3. QED BY <1>1, <1>2

(* What the triggers call the rows above and below a node.                  *)
LEMMA AboveBelow ==
    ASSUME NEW t, GoodTable(t), PathsRight(t), NEW n \in Ids(t)
    PROVE  /\ Above(t, t[n].path) = On(t, n)
           /\ Under(t, n) = {m \in Ids(t) : n \in On(t, m)} \ {n}
<1>1. On(t, n) \subseteq Ids(t)
  BY OnIds
<1>2. \A m \in Ids(t) : IsPrefix(t[m].path, t[n].path) <=> m \in On(t, n)
  BY PrefixOn
<1>3. \A m \in Ids(t) : IsPrefix(t[n].path, t[m].path) <=> n \in On(t, m)
  BY PrefixOn
<1>4. QED BY <1>1, <1>2, <1>3 DEF Above, Under, Below

-----------------------------------------------------------------------------
(* The walk of the recalculation.                                           *)

(* A state of the walk: undeleted containers are on its stack and in its    *)
(* results.                                                                 *)
Listed == Undeleted(row) \cap Of(row, Containers)
Open == [id : Listed, size : Nat, count : Nat]
Outs == UNION {[D -> [size : Nat, count : Nat]] : D \in SUBSET Listed}
Walks == [stack : Seq(Open), out : Outs, ok : BOOLEAN]

LEMMA EmitTypes ==
    ASSUME NEW s \in Walks, NEW n \in Listed, NEW size \in Nat, NEW count \in Nat
    PROVE  Emit(s, n, size, count) \in Walks
<1> DEFINE D == DOMAIN s.out \cup {n}
           f == [m \in D |-> IF m = n THEN [size |-> size, count |-> count] ELSE s.out[m]]
<1>1. s.stack \in Seq(Open) /\ s.out \in Outs /\ s.ok \in BOOLEAN
  BY DEF Walks
<1>2. PICK C \in SUBSET Listed : s.out \in [C -> [size : Nat, count : Nat]]
  BY <1>1 DEF Outs
<1>3. D \in SUBSET Listed /\ f \in [D -> [size : Nat, count : Nat]]
  BY <1>2
<1>4. f \in Outs
  BY <1>3 DEF Outs
<1>5. Emit(s, n, size, count) = [s EXCEPT !.out = f]
  BY DEF Emit
<1> HIDE DEF f
<1>6. QED BY <1>1, <1>4, <1>5 DEF Walks

LEMMA TallyTypes ==
    ASSUME NEW s \in Walks, s.stack # <<>>, NEW size \in Nat, NEW count \in Nat
    PROVE  Tally(s, size, count) \in Walks
<1>1. s.stack \in Seq(Open) /\ s.out \in Outs /\ s.ok \in BOOLEAN
  BY DEF Walks
<1>2. PICK st \in Seq(Open) : st = s.stack
  BY <1>1
<1>3. Len(st) \in 1 .. Len(st) /\ DOMAIN st = 1 .. Len(st)
  BY <1>2
<1>4. PICK top \in Open : top = st[Len(st)]
  BY <1>2, <1>3
<1> DEFINE new == [id |-> top.id, size |-> top.size + size, count |-> top.count + count]
<1>5. new \in Open
  BY DEF Open
<1>6. [top EXCEPT !.size = @ + size, !.count = @ + count] = new
  <2>1. top = [id |-> top.id, size |-> top.size, count |-> top.count]
    BY DEF Open
  <2>2. [top EXCEPT !.size = @ + size]
          = [id |-> top.id, size |-> top.size + size, count |-> top.count]
    BY <2>1
  <2>3. PICK a : a = [id |-> top.id, size |-> top.size + size, count |-> top.count]
    OBVIOUS
  <2>4. [a EXCEPT !.count = @ + count] = new
    BY <2>3
  <2>5. QED BY <2>2, <2>3, <2>4
<1> HIDE DEF new
<1>7. [st EXCEPT ![Len(st)] = new] \in Seq(Open)
  BY <1>3, <1>5, ExceptSeq
<1>8. Tally(s, size, count) = [s EXCEPT !.stack = [st EXCEPT ![Len(st)] = new]]
  BY <1>1, <1>2, <1>3, <1>4, <1>6 DEF Tally, Walks
<1>9. QED BY <1>1, <1>7, <1>8 DEF Walks

LEMMA TopTypes ==
    ASSUME NEW s \in Walks, s.stack # <<>>
    PROVE  /\ Last(s.stack) \in Open
           /\ [s EXCEPT !.stack = Front(@)] \in Walks
           /\ Front(s.stack) \in Seq(Open)
<1>1. s.stack \in Seq(Open) /\ s.out \in Outs /\ s.ok \in BOOLEAN
  BY DEF Walks
<1>2. PICK st \in Seq(Open) : st = s.stack
  BY <1>1
<1>3. Len(st) \in 1 .. Len(st) /\ st[Len(st)] \in Open /\ SubSeq(st, 1, Len(st) - 1) \in Seq(Open)
  BY <1>2
<1>4. QED BY <1>1, <1>2, <1>3 DEF Last, Front, Walks

LEMMA PopTypes ==
    ASSUME NEW s \in Walks, NEW n
    PROVE  Pop(s, n) \in Walks
<1>1. CASE ~s.ok \/ ~IsOnTop(s, n)
  <2>1. [s EXCEPT !.ok = FALSE] \in Walks
    BY DEF Walks
  <2>2. QED BY <1>1, <2>1 DEF Pop
<1>2. CASE ~ (~s.ok \/ ~IsOnTop(s, n))
  <2>1. s.stack # <<>> /\ Last(s.stack).id = n
    BY <1>2 DEF IsOnTop
  <2> DEFINE top == Last(s.stack)
             under == [s EXCEPT !.stack = Front(@)]
             rest == Emit(under, n, top.size, top.count)
  <2>2. top \in Open /\ under \in Walks
    BY <2>1, TopTypes
  <2>3. top.size \in Nat /\ top.count \in Nat /\ n \in Listed
    BY <2>1, <2>2 DEF Open
  <2> HIDE DEF under
  <2>4. rest \in Walks
    BY <2>2, <2>3, EmitTypes
  <2>5. Pop(s, n) = IF rest.stack = <<>> THEN rest ELSE Tally(rest, top.size, top.count + 1)
    BY <1>2 DEF Pop, under
  <2> HIDE DEF rest, top
  <2>6. CASE rest.stack = <<>>
    BY <2>4, <2>5, <2>6
  <2>7. CASE rest.stack # <<>>
    <3>1. top.count + 1 \in Nat
      BY <2>3
    <3>2. Tally(rest, top.size, top.count + 1) \in Walks
      BY <2>3, <2>4, <2>7, <3>1, TallyTypes
    <3>3. QED BY <2>5, <2>7, <3>2
  <2>8. QED BY <2>6, <2>7
<1>3. QED BY <1>1, <1>2

LEMMA VisitTypes ==
    ASSUME NEW s \in Walks, GoodTable(row), NEW n \in Undeleted(row), NEW q
    PROVE  Visit(s, n, q) \in Walks
<1>1. row[n].type \in Containers \cup {"FILE"} /\ row[n].size \in Nat /\ "FILE" \notin Containers
  BY RowIs DEF GoodTable, Containers, Undeleted
<1>2. CASE row[n].type # "FILE" /\ IsParentOf(row[n].path, q)
  <2>1. n \in Listed
    BY <1>1, <1>2 DEF Listed, Of, Undeleted
  <2>2. [id |-> n, size |-> 0, count |-> 0] \in Open
    BY <2>1 DEF Open
  <2>3. s.stack \in Seq(Open) /\ s.out \in Outs /\ s.ok \in BOOLEAN
    BY DEF Walks
  <2>4. Append(s.stack, [id |-> n, size |-> 0, count |-> 0]) \in Seq(Open)
    BY <2>2, <2>3
  <2>5. QED BY <1>2, <2>3, <2>4 DEF Visit, Walks
<1>3. CASE row[n].type # "FILE" /\ ~IsParentOf(row[n].path, q)
  <2>1. n \in Listed /\ 0 \in Nat
    BY <1>1, <1>3 DEF Listed, Of, Undeleted
  <2>2. Emit(s, n, 0, 0) \in Walks
    BY <2>1, EmitTypes
  <2>3. QED BY <1>3, <2>2 DEF Visit
<1>4. CASE row[n].type = "FILE" /\ IsOnTop(s, row[n].parent)
  <2>1. s.stack # <<>> /\ 1 \in Nat
    BY <1>4 DEF IsOnTop
  <2>2. Tally(s, row[n].size, 1) \in Walks
    BY <1>1, <2>1, TallyTypes
  <2>3. QED BY <1>4, <2>2 DEF Visit
<1>5. CASE row[n].type = "FILE" /\ ~IsOnTop(s, row[n].parent)
  <2>1. [s EXCEPT !.ok = FALSE] \in Walks
    BY DEF Walks
  <2>2. QED BY <1>5, <2>1 DEF Visit
<1>6. QED BY <1>2, <1>3, <1>4, <1>5

(* Popping the containers of z, one after the other.                        *)
IsPops(e, s, z) ==
    e = [S \in SUBSET DOMAIN z |-> IF S = {} THEN s ELSE Pop(e[S \ {Max(S)}], z[Max(S)])]

LEMMA PopsRun ==
    ASSUME NEW s \in Walks, NEW z \in Seq(Nodes)
    PROVE  \E t \in [0 .. Len(z) -> Walks] :
              /\ t[0] = s /\ t[Len(z)] = FoldLeft(Pop, s, z)
              /\ \A i \in 1 .. Len(z) : t[i] = Pop(t[i - 1], z[i])
<1> DEFINE D == DOMAIN z
           c == [S \in SUBSET D |-> Max(S)]
           G == [x \in Walks \X D |-> Pop(x[1], z[x[2]])]
<1>1. D = 1 .. Len(z) /\ Len(z) \in Nat
  OBVIOUS
<1>2. IsFiniteSet(D)
  BY <1>1, FS_Interval
<1>3. \A S \in SUBSET D : c[S] = Max(S)
  OBVIOUS
<1>3a. \A S \in SUBSET D : S # {} => c[S] \in S
  BY <1>1, <1>3, MaxIsIn
<1>4. G \in [Walks \X D -> Walks]
  BY PopTypes
<1>5. \A x \in Walks, i \in D : G[<<x, i>>] = Pop(x, z[i])
  OBVIOUS
<1> HIDE DEF D, c, G
<1>6. PICK h \in [SUBSET D -> Walks] : IsFold(h, G, s, c, D)
  BY <1>2, <1>3a, <1>4, FoldExists
<1>7. ASSUME NEW S \in SUBSET D
      PROVE  h[S] = IF S = {} THEN s ELSE Pop(h[S \ {Max(S)}], z[Max(S)])
  <2>1. CASE S = {}
    BY <1>6, <2>1 DEF IsFold
  <2>2. CASE S # {}
    <3>1. c[S] \in D /\ h[S \ {c[S]}] \in Walks
      BY <1>3a, <1>6, <2>2
    <3>2. h[S] = G[<<h[S \ {c[S]}], c[S]>>]
      BY <1>6, <2>2 DEF IsFold
    <3>3. h[S] = Pop(h[S \ {c[S]}], z[c[S]])
      BY <1>5, <3>1, <3>2
    <3>4. QED BY <1>3, <2>2, <3>3
  <2>3. QED BY <2>1, <2>2
<1>8. IsPops(h, s, z)
  BY <1>6, <1>7 DEF IsPops, D
<1>9. PICK e : e = CHOOSE f : IsPops(f, s, z)
  OBVIOUS
<1>10. IsPops(e, s, z)
  BY <1>8, <1>9
<1>11. FoldLeft(Pop, s, z) = e[D]
  BY <1>9 DEF FoldLeft, MapThenFoldSet, IsPops, D
<1>12. \A S \in SUBSET D :
          e[S] = IF S = {} THEN s ELSE Pop(e[S \ {Max(S)}], z[Max(S)])
  BY <1>10 DEF IsPops, D
<1> DEFINE t == [i \in 0 .. Len(z) |-> e[1 .. i]]
<1>13. t[0] = s
  <2>1. 1 .. 0 = {} /\ {} \in SUBSET D /\ 0 \in 0 .. Len(z)
    BY <1>1
  <2>2. QED BY <1>12, <2>1
<1>14. ASSUME NEW i \in 1 .. Len(z) PROVE t[i] = Pop(t[i - 1], z[i])
  <2>1. /\ 1 .. i \in SUBSET D /\ 1 .. i # {} /\ Max(1 .. i) = i
        /\ (1 .. i) \ {i} = 1 .. (i - 1) /\ i - 1 \in 0 .. Len(z) /\ i \in 0 .. Len(z)
    BY <1>1, Upto
  <2>2. e[1 .. i] = Pop(e[1 .. (i - 1)], z[i])
    BY <1>12, <2>1
  <2>3. QED BY <2>1, <2>2
<1>15. t[Len(z)] = e[D]
  BY <1>1
<1> HIDE DEF t
<1>16. \A i \in 0 .. Len(z) : t[i] \in Walks
  <2> DEFINE X == {i \in 0 .. Len(z) : t[i] \in Walks}
  <2>1. 0 \in X
    BY <1>1, <1>13
  <2>2. \A i \in 1 .. Len(z) : i - 1 \in X => i \in X
    BY <1>14, PopTypes
  <2> HIDE DEF X
  <2>3. \A i \in 0 .. Len(z) : i \in X
    BY <1>1, <2>1, <2>2, Upwards
  <2>4. QED BY <2>3 DEF X
<1>17. t \in [0 .. Len(z) -> Walks]
  <2>1. t = [i \in 0 .. Len(z) |-> t[i]]
    BY DEF t
  <2>2. QED BY <1>16, <2>1
<1>18. QED BY <1>11, <1>13, <1>14, <1>15, <1>17

(* The containers that are left are a sequence of nodes.                    *)
IsLeft(e, p, q, z) ==
    e = [S \in SUBSET DOMAIN z |-> IF S = {} THEN <<>> ELSE
            IF z[Max(S)] <= Len(q) /\ q[z[Max(S)]] = p[z[Max(S)]] THEN e[S \ {Max(S)}]
            ELSE <<p[z[Max(S)]]>> \o e[S \ {Max(S)}]]

LeavesOut(t, p, q) ==
    /\ t[0] = <<>>
    /\ \A i \in 1 .. Len(p) - 1 :
          t[i] = IF i <= Len(q) /\ q[i] = p[i] THEN t[i - 1] ELSE <<p[i]>> \o t[i - 1]

LEMMA ExhaustedRun ==
    ASSUME NEW p \in Seq(Nodes), p # <<>>, NEW q
    PROVE  \E t \in [0 .. Len(p) - 1 -> Seq(Nodes)] :
              LeavesOut(t, p, q) /\ t[Len(p) - 1] = Exhausted(p, q)
<1> DEFINE k == Len(p) - 1
           z == [i \in 1 .. k |-> i]
           D == DOMAIN z
           c == [S \in SUBSET D |-> Max(S)]
           Out(x, i) == IF i <= Len(q) /\ q[i] = p[i] THEN x ELSE <<p[i]>> \o x
           G == [x \in Seq(Nodes) \X D |-> Out(x[1], x[2])]
<1>1. k \in Nat /\ Len(p) \in Nat /\ \A i \in 1 .. k : i \in 1 .. Len(p)
  <2>1. Len(p) \in Nat /\ Len(p) # 0
    OBVIOUS
  <2>2. QED BY <2>1
<1>2. D = 1 .. k /\ \A i \in D : z[i] = i
  OBVIOUS
<1>3. IsFiniteSet(D)
  BY <1>1, <1>2, FS_Interval
<1>4. \A S \in SUBSET D : c[S] = Max(S)
  OBVIOUS
<1> HIDE DEF k
<1>5. \A S \in SUBSET D : S # {} => c[S] \in S
  BY <1>1, <1>2, <1>4, MaxIsIn
<1>6. ASSUME NEW x \in Seq(Nodes), NEW i \in D PROVE Out(x, i) \in Seq(Nodes)
  <2>1. p[i] \in Nodes
    BY <1>1, <1>2
  <2>2. <<p[i]>> \o x \in Seq(Nodes)
    BY <2>1
  <2>3. QED BY <2>2
<1>7. \A x \in Seq(Nodes), i \in D : G[<<x, i>>] = Out(x, i)
  OBVIOUS
<1>8. G \in [Seq(Nodes) \X D -> Seq(Nodes)]
  BY <1>6
<1>9. <<>> \in Seq(Nodes)
  OBVIOUS
<1> HIDE DEF z, D, c, G, Out
<1>10. PICK h \in [SUBSET D -> Seq(Nodes)] : IsFold(h, G, <<>>, c, D)
  BY <1>3, <1>5, <1>8, <1>9, FoldExists
<1>11. ASSUME NEW S \in SUBSET D
       PROVE  h[S] = IF S = {} THEN <<>> ELSE Out(h[S \ {Max(S)}], z[Max(S)])
  <2>1. CASE S = {}
    BY <1>10, <2>1 DEF IsFold
  <2>2. CASE S # {}
    <3>1. c[S] \in D /\ h[S \ {c[S]}] \in Seq(Nodes)
      BY <1>5, <1>10, <2>2
    <3>2. h[S] = G[<<h[S \ {c[S]}], c[S]>>]
      BY <1>10, <2>2 DEF IsFold
    <3>3. h[S] = Out(h[S \ {c[S]}], c[S])
      BY <1>7, <3>1, <3>2
    <3>4. z[c[S]] = c[S]
      BY <1>2, <3>1
    <3>5. QED BY <1>4, <2>2, <3>3, <3>4
  <2>3. QED BY <2>1, <2>2
<1>12. IsLeft(h, p, q, z)
  BY <1>10, <1>11 DEF IsLeft, D, Out
<1>13. PICK e : e = CHOOSE f : IsLeft(f, p, q, z)
  OBVIOUS
<1>14. IsLeft(e, p, q, z)
  BY <1>12, <1>13
<1>15. Exhausted(p, q) = e[D]
  BY <1>13 DEF Exhausted, FoldLeft, MapThenFoldSet, IsLeft, D, z, k
<1>16. \A S \in SUBSET D :
          e[S] = IF S = {} THEN <<>> ELSE Out(e[S \ {Max(S)}], z[Max(S)])
  BY <1>14 DEF IsLeft, D, Out
<1> DEFINE t == [i \in 0 .. k |-> e[1 .. i]]
<1>17. t[0] = <<>>
  <2>1. 1 .. 0 = {} /\ {} \in SUBSET D /\ 0 \in 0 .. k
    BY <1>1
  <2>2. QED BY <1>16, <2>1
<1>18. ASSUME NEW i \in 1 .. k PROVE t[i] = Out(t[i - 1], i)
  <2>1. /\ 1 .. i \in SUBSET D /\ 1 .. i # {} /\ Max(1 .. i) = i
        /\ (1 .. i) \ {i} = 1 .. (i - 1) /\ i - 1 \in 0 .. k /\ i \in 0 .. k
    BY <1>1, <1>2, Upto
  <2>2. i \in D /\ z[i] = i
    BY <1>2
  <2>3. e[1 .. i] = Out(e[(1 .. i) \ {Max(1 .. i)}], z[Max(1 .. i)])
    BY <1>16, <2>1
  <2>4. e[1 .. i] = Out(e[1 .. (i - 1)], i)
    BY <2>1, <2>2, <2>3
  <2>5. QED BY <2>1, <2>4
<1>19. t[k] = e[D]
  BY <1>1, <1>2
<1> HIDE DEF t
<1>20. \A i \in 0 .. k : t[i] \in Seq(Nodes)
  <2> DEFINE X == {i \in 0 .. k : t[i] \in Seq(Nodes)}
  <2>1. 0 \in X
    <3>1. 0 \in 0 .. k
      BY <1>1
    <3>2. QED BY <1>9, <1>17, <3>1
  <2>2. \A i \in 1 .. k : i - 1 \in X => i \in X
    BY <1>2, <1>6, <1>18
  <2> HIDE DEF X
  <2>3. \A i \in 0 .. k : i \in X
    BY <1>1, <2>1, <2>2, Upwards
  <2>4. QED BY <2>3 DEF X
<1>21. t \in [0 .. k -> Seq(Nodes)]
  <2>1. t = [i \in 0 .. k |-> t[i]]
    BY DEF t
  <2>2. QED BY <1>20, <2>1
<1>22. LeavesOut(t, p, q)
  BY <1>17, <1>18 DEF k, Out, LeavesOut
<1>23. QED BY <1>15, <1>19, <1>21, <1>22 DEF k

LEMMA WalkedRowTypes ==
    ASSUME NEW s \in Walks, GoodTable(row), NEW walk, NEW i, walk[i] \in Undeleted(row)
    PROVE  WalkedRow(walk, s, i) \in Walks
<1> DEFINE p == row[walk[i]].path
           q == IF i < Len(walk) THEN row[walk[i + 1]].path ELSE <<>>
<1>1. p \in Seq(Nodes) /\ p # <<>>
  BY DEF GoodTable, GoodPath, Undeleted
<1> HIDE DEF p, q
<1>2. PICK v \in Walks : v = Visit(s, walk[i], q)
  BY VisitTypes
<1>3. PICK z \in Seq(Nodes) : z = Exhausted(p, q)
  <2>1. PICK t \in [0 .. Len(p) - 1 -> Seq(Nodes)] : t[Len(p) - 1] = Exhausted(p, q)
    BY <1>1, ExhaustedRun
  <2>2. Len(p) - 1 \in 0 .. Len(p) - 1
    BY <1>1
  <2>3. Exhausted(p, q) \in Seq(Nodes)
    BY <2>1, <2>2
  <2>4. QED BY <2>3
<1>4. FoldLeft(Pop, v, z) \in Walks
  <2>1. PICK t \in [0 .. Len(z) -> Walks] : t[Len(z)] = FoldLeft(Pop, v, z)
    BY PopsRun
  <2>2. QED BY <2>1
<1>5. WalkedRow(walk, s, i) = IF s.ok THEN FoldLeft(Pop, v, z) ELSE s
  BY <1>2, <1>3 DEF WalkedRow, p, q
<1>6. QED BY <1>4, <1>5

(* The states of the walk along a list of rows.                             *)
IsWalked(e, walk, z) ==
    e = [S \in SUBSET DOMAIN z |-> IF S = {} THEN [stack |-> <<>>, out |-> <<>>, ok |-> TRUE]
            ELSE WalkedRow(walk, e[S \ {Max(S)}], z[Max(S)])]

LEMMA WalkRun ==
    ASSUME GoodTable(row), Len(Walk) \in Nat, \A i \in 1 .. Len(Walk) : Walk[i] \in Undeleted(row)
    PROVE  \E t \in [0 .. Len(Walk) -> Walks] :
              /\ t[0] = [stack |-> <<>>, out |-> <<>>, ok |-> TRUE]
              /\ t[Len(Walk)] = Calculated
              /\ \A i \in 1 .. Len(Walk) : t[i] = WalkedRow(Walk, t[i - 1], i)
<1> DEFINE walk == Walk
           k == Len(walk)
           z == [i \in 1 .. k |-> i]
           D == DOMAIN z
           c == [S \in SUBSET D |-> Max(S)]
           b == [stack |-> <<>>, out |-> <<>>, ok |-> TRUE]
           G == [x \in Walks \X D |-> WalkedRow(walk, x[1], x[2])]
<1>1. D = 1 .. k /\ k \in Nat /\ \A i \in D : z[i] = i
  OBVIOUS
<1>2. IsFiniteSet(D)
  BY <1>1, FS_Interval
<1>3. \A S \in SUBSET D : c[S] = Max(S)
  OBVIOUS
<1>4. \A S \in SUBSET D : S # {} => c[S] \in S
  BY <1>1, <1>3, MaxIsIn
<1>5. \A x \in Walks, i \in D : WalkedRow(walk, x, i) \in Walks
  BY <1>1, WalkedRowTypes
<1>6. \A x \in Walks, i \in D : G[<<x, i>>] = WalkedRow(walk, x, i)
  OBVIOUS
<1>7. G \in [Walks \X D -> Walks]
  BY <1>5
<1>8. b \in Walks
  <2>1. <<>> \in [{} -> [size : Nat, count : Nat]] /\ {} \in SUBSET Listed
    OBVIOUS
  <2>2. <<>> \in Outs
    BY <2>1 DEF Outs
  <2>3. <<>> \in Seq(Open)
    OBVIOUS
  <2>4. QED BY <2>2, <2>3 DEF Walks
<1> HIDE DEF z, D, c, G, k, walk, b
<1>9. PICK h \in [SUBSET D -> Walks] : IsFold(h, G, b, c, D)
  BY <1>2, <1>4, <1>7, <1>8, FoldExists
<1>10. ASSUME NEW S \in SUBSET D
       PROVE  h[S] = IF S = {} THEN b ELSE WalkedRow(walk, h[S \ {Max(S)}], z[Max(S)])
  <2>1. CASE S = {}
    BY <1>9, <2>1 DEF IsFold
  <2>2. CASE S # {}
    <3>1. c[S] \in D /\ h[S \ {c[S]}] \in Walks
      BY <1>4, <1>9, <2>2
    <3>2. h[S] = G[<<h[S \ {c[S]}], c[S]>>]
      BY <1>9, <2>2 DEF IsFold
    <3>3. h[S] = WalkedRow(walk, h[S \ {c[S]}], c[S])
      BY <1>6, <3>1, <3>2
    <3>4. z[c[S]] = c[S]
      BY <1>1, <3>1
    <3>5. QED BY <1>3, <2>2, <3>3, <3>4
  <2>3. QED BY <2>1, <2>2
<1>11. IsWalked(h, walk, z)
  BY <1>9, <1>10 DEF IsWalked, D, b
<1>12. PICK e : e = CHOOSE f : IsWalked(f, walk, z)
  OBVIOUS
<1>13. IsWalked(e, walk, z)
  BY <1>11, <1>12
<1>14. Calculated = e[D]
  BY <1>12 DEF Calculated, FoldLeft, MapThenFoldSet, IsWalked, D, z, k, walk
<1>15. \A S \in SUBSET D :
          e[S] = IF S = {} THEN b ELSE WalkedRow(walk, e[S \ {Max(S)}], z[Max(S)])
  BY <1>13 DEF IsWalked, D, b
<1> DEFINE t == [i \in 0 .. k |-> e[1 .. i]]
<1>16. t[0] = b
  <2>1. 1 .. 0 = {} /\ {} \in SUBSET D /\ 0 \in 0 .. k
    BY <1>1
  <2>2. QED BY <1>15, <2>1
<1>17. ASSUME NEW i \in 1 .. k PROVE t[i] = WalkedRow(walk, t[i - 1], i)
  <2>1. /\ 1 .. i \in SUBSET D /\ 1 .. i # {} /\ Max(1 .. i) = i
        /\ (1 .. i) \ {i} = 1 .. (i - 1) /\ i - 1 \in 0 .. k /\ i \in 0 .. k
    BY <1>1, Upto
  <2>2. i \in D /\ z[i] = i
    BY <1>1
  <2>3. e[1 .. i] = WalkedRow(walk, e[(1 .. i) \ {Max(1 .. i)}], z[Max(1 .. i)])
    BY <1>15, <2>1
  <2>4. e[1 .. i] = WalkedRow(walk, e[1 .. (i - 1)], i)
    BY <2>1, <2>2, <2>3
  <2>5. QED BY <2>1, <2>4
<1>18. t[k] = e[D]
  BY <1>1
<1> HIDE DEF t
<1>19. \A i \in 0 .. k : t[i] \in Walks
  <2> DEFINE X == {i \in 0 .. k : t[i] \in Walks}
  <2>1. 0 \in X
    BY <1>1, <1>8, <1>16
  <2>2. \A i \in 1 .. k : i - 1 \in X => i \in X
    BY <1>1, <1>5, <1>17
  <2> HIDE DEF X
  <2>3. \A i \in 0 .. k : i \in X
    BY <1>1, <2>1, <2>2, Upwards
  <2>4. QED BY <2>3 DEF X
<1>20. t \in [0 .. k -> Walks]
  <2>1. t = [i \in 0 .. k |-> t[i]]
    BY DEF t
  <2>2. QED BY <1>19, <2>1
<1>21. QED BY <1>14, <1>16, <1>17, <1>18, <1>20 DEF k, walk, b

(* ORDER BY path is a strict order of paths ...                             *)
LEMMA BeforeOrders ==
    ASSUME NEW p \in Seq(Nat), NEW q \in Seq(Nat), NEW r \in Seq(Nat)
    PROVE  /\ ~Before(p, p)
           /\ Before(p, q) /\ Before(q, r) => Before(p, r)
           /\ p # q => Before(p, q) \/ Before(q, p)
<1>1. /\ Len(p) \in Nat /\ DOMAIN p = 1 .. Len(p) /\ \A i \in DOMAIN p : p[i] \in Nat
      /\ Len(q) \in Nat /\ DOMAIN q = 1 .. Len(q) /\ \A i \in DOMAIN q : q[i] \in Nat
      /\ Len(r) \in Nat /\ DOMAIN r = 1 .. Len(r) /\ \A i \in DOMAIN r : r[i] \in Nat
  OBVIOUS
<1>2. ~Before(p, p)
  <2>1. ASSUME NEW i \in DOMAIN p, i > Len(p) \/ p[i] < p[i] PROVE FALSE
    BY <1>1, <2>1
  <2>2. QED BY <2>1 DEF Before
<1>3. ASSUME Before(p, q), Before(q, r) PROVE Before(p, r)
  <2>1. PICK i \in DOMAIN q : /\ \A j \in 1 .. i - 1 : j \in DOMAIN p /\ p[j] = q[j]
                              /\ i > Len(p) \/ p[i] < q[i]
    BY <1>3 DEF Before
  <2>2. PICK k \in DOMAIN r : /\ \A j \in 1 .. k - 1 : j \in DOMAIN q /\ q[j] = r[j]
                              /\ k > Len(q) \/ q[k] < r[k]
    BY <1>3 DEF Before
  <2>3. i \in Nat /\ k \in Nat /\ i >= 1 /\ k >= 1 /\ i <= Len(q) /\ k <= Len(r)
    BY <1>1
  <2>4. CASE i < k
    <3>1. i \in 1 .. k - 1 /\ i \in DOMAIN r
      BY <1>1, <2>3, <2>4
    <3>2. q[i] = r[i]
      BY <2>2, <3>1
    <3>3. \A j \in 1 .. i - 1 : j \in 1 .. k - 1
      BY <2>3, <2>4
    <3>4. \A j \in 1 .. i - 1 : j \in DOMAIN p /\ p[j] = r[j]
      BY <2>1, <2>2, <3>3
    <3>5. i > Len(p) \/ p[i] < r[i]
      BY <2>1, <3>2
    <3>6. QED BY <3>1, <3>4, <3>5 DEF Before
  <2>5. CASE i = k
    <3>1. ~ (k > Len(q))
      BY <1>1, <2>3, <2>5
    <3>2. i > Len(p) \/ (i \in DOMAIN p /\ p[i] < q[i])
      BY <1>1, <2>1, <2>3
    <3>3. i > Len(p) \/ p[i] < r[i]
      BY <1>1, <2>2, <2>5, <3>1, <3>2
    <3>4. \A j \in 1 .. i - 1 : j \in DOMAIN p /\ p[j] = r[j]
      BY <2>1, <2>2, <2>5
    <3>5. QED BY <2>5, <3>3, <3>4 DEF Before
  <2>6. CASE k < i
    <3>1. k \in 1 .. i - 1 /\ k \in DOMAIN q /\ ~ (k > Len(q))
      BY <1>1, <2>3, <2>6
    <3>2. p[k] = q[k] /\ q[k] < r[k]
      BY <2>1, <2>2, <3>1
    <3>3. \A j \in 1 .. k - 1 : j \in 1 .. i - 1
      BY <2>3, <2>6
    <3>4. \A j \in 1 .. k - 1 : j \in DOMAIN p /\ p[j] = r[j]
      BY <2>1, <2>2, <3>3
    <3>5. p[k] < r[k]
      BY <3>2
    <3>6. QED BY <3>4, <3>5 DEF Before
  <2>7. QED BY <2>3, <2>4, <2>5, <2>6
<1>4. ASSUME p # q PROVE Before(p, q) \/ Before(q, p)
  <2> DEFINE D == {i \in Nat : i # 0 /\ ~ (i \in DOMAIN p /\ i \in DOMAIN q /\ p[i] = q[i])}
  <2>1. Len(p) + 1 \in D
    <3>1. Len(p) + 1 \in Nat /\ Len(p) + 1 # 0 /\ Len(p) + 1 \notin DOMAIN p
      BY <1>1
    <3>2. QED BY <3>1
  <2>2. PICK i \in D : \A j \in D : i <= j
    BY <2>1, Least
  <2>3. i \in Nat /\ i >= 1
    OBVIOUS
  <2>4. \A j \in 1 .. i - 1 : j \in DOMAIN p /\ j \in DOMAIN q /\ p[j] = q[j]
    <3>1. TAKE j \in 1 .. i - 1
    <3>2. j \in Nat /\ j # 0 /\ ~ (i <= j)
      BY <2>3
    <3>3. j \notin D
      BY <2>2, <3>2
    <3>4. QED BY <3>2, <3>3
  <2>5. CASE i \in DOMAIN p /\ i \in DOMAIN q
    <3>1. p[i] \in Nat /\ q[i] \in Nat /\ p[i] # q[i]
      BY <1>1, <2>5
    <3>2. p[i] < q[i] \/ q[i] < p[i]
      BY <3>1
    <3>3. QED BY <2>4, <2>5, <3>2 DEF Before
  <2>6. CASE i \notin DOMAIN p /\ i \in DOMAIN q
    <3>1. i > Len(p)
      BY <1>1, <2>3, <2>6
    <3>2. QED BY <2>4, <2>6, <3>1 DEF Before
  <2>7. CASE i \in DOMAIN p /\ i \notin DOMAIN q
    <3>1. i > Len(q)
      BY <1>1, <2>3, <2>7
    <3>2. QED BY <2>4, <2>7, <3>1 DEF Before
  <2>8. ASSUME i \notin DOMAIN p, i \notin DOMAIN q PROVE FALSE
    <3>1. Len(p) < i /\ Len(q) < i
      BY <1>1, <2>3, <2>8
    <3>2. i = 1 \/ i - 1 \in 1 .. i - 1
      BY <2>3
    <3>3. i - 1 <= Len(p) /\ i - 1 <= Len(q)
      <4>1. CASE i = 1
        BY <1>1, <4>1
      <4>2. CASE i - 1 \in 1 .. i - 1
        <5>1. i - 1 \in DOMAIN p /\ i - 1 \in DOMAIN q
          BY <2>4, <4>2
        <5>2. QED BY <1>1, <5>1
      <4>3. QED BY <3>2, <4>1, <4>2
    <3>4. Len(p) = i - 1 /\ Len(q) = i - 1
      BY <1>1, <2>3, <3>1, <3>3
    <3>5. Len(p) = Len(q) /\ \A j \in 1 .. Len(p) : p[j] = q[j]
      BY <2>4, <3>4
    <3>6. p = q
      BY <3>5, SeqEqual
    <3>7. QED BY <1>4, <3>6
  <2>9. QED BY <2>5, <2>6, <2>7, <2>8
<1>5. QED BY <1>2, <1>3, <1>4

(* ... so that each row has another number of rows before it, and every     *)
(* number up to the last has one.                                           *)
LEMMA Ranked ==
    ASSUME NEW S, IsFiniteSet(S), NEW R,
           \A x \in S : <<x, x>> \notin R,
           \A x, y, z \in S : <<x, y>> \in R /\ <<y, z>> \in R => <<x, z>> \in R,
           \A x, y \in S : x # y => <<x, y>> \in R \/ <<y, x>> \in R,
           NEW i \in 1 .. Cardinality(S)
    PROVE  \E x \in S : Cardinality({y \in S : <<y, x>> \in R}) = i - 1
<1> DEFINE Less(x) == {y \in S : <<y, x>> \in R}
           rank == [x \in S |-> Cardinality(Less(x))]
           T == 0 .. Cardinality(S) - 1
<1>1. Cardinality(S) \in Nat
  BY FS_CardinalityType
<1>2. IsFiniteSet(T) /\ Cardinality(T) = Cardinality(S)
  <2>1. PICK k \in Nat : k = Cardinality(S)
    BY <1>1
  <2>2. IsFiniteSet(0 .. k - 1) /\ Cardinality(0 .. k - 1) = IF 0 > k - 1 THEN 0 ELSE k - 1 - 0 + 1
    BY FS_Interval
  <2>3. Cardinality(0 .. k - 1) = k
    BY <2>2
  <2>4. QED BY <2>1, <2>2, <2>3
<1>3. \A x \in S : IsFiniteSet(Less(x)) /\ Cardinality(Less(x)) \in Nat
  <2>1. \A x \in S : Less(x) \in SUBSET S
    OBVIOUS
  <2> HIDE DEF Less
  <2>2. QED BY <2>1, FS_Subset, FS_CardinalityType
<1>4. ASSUME NEW x \in S PROVE Cardinality(Less(x)) \in T
  <2>1. Less(x) \in SUBSET (S \ {x})
    OBVIOUS
  <2>2. IsFiniteSet(S \ {x}) /\ Cardinality(S \ {x}) = Cardinality(S) - 1
    BY FS_RemoveElement
  <2> HIDE DEF Less
  <2>3. Cardinality(Less(x)) <= Cardinality(S) - 1
    BY <2>1, <2>2, FS_Subset
  <2>4. QED BY <1>1, <1>3, <2>3
<1>5. ASSUME NEW x \in S, NEW y \in S, <<x, y>> \in R
      PROVE  Cardinality(Less(x)) < Cardinality(Less(y))
  <2>1. Less(x) \cup {x} \in SUBSET Less(y) /\ x \notin Less(x)
    BY <1>5
  <2> HIDE DEF Less
  <2>2. IsFiniteSet(Less(x) \cup {x}) /\ Cardinality(Less(x) \cup {x}) = Cardinality(Less(x)) + 1
    BY <1>3, <2>1, FS_AddElement
  <2>3. Cardinality(Less(x) \cup {x}) <= Cardinality(Less(y))
    BY <1>3, <2>1, FS_Subset
  <2>4. QED BY <1>3, <2>2, <2>3
<1>6. rank \in Injection(S, T)
  <2>1. rank \in [S -> T]
    BY <1>4
  <2>2. \A x, y \in S : x # y => rank[x] # rank[y]
    <3>1. TAKE x, y \in S
    <3>2. HAVE x # y
    <3>3. Cardinality(Less(x)) < Cardinality(Less(y)) \/ Cardinality(Less(y)) < Cardinality(Less(x))
      BY <1>5, <3>2
    <3>4. Cardinality(Less(x)) # Cardinality(Less(y))
      BY <1>3, <3>3
    <3>5. QED BY <3>4
  <2> HIDE DEF rank, T
  <2>3. QED BY <2>1, <2>2 DEF Injection, IsInjective
<1> HIDE DEF rank
<1>7. rank \in Surjection(S, T)
  BY <1>2, <1>6, FS_Injection
<1>8. i - 1 \in T
  BY <1>1
<1>9. PICK x \in S : rank[x] = i - 1
  BY <1>7, <1>8 DEF Surjection
<1>10. QED BY <1>9 DEF rank

(* The walk goes over undeleted rows.                                       *)
LEMMA WalkIs ==
    ASSUME GoodTable(row)
    PROVE  /\ IsFiniteSet(Undeleted(row)) /\ Len(Walk) = Cardinality(Undeleted(row))
           /\ Len(Walk) \in Nat
           /\ \A i \in 1 .. Len(Walk) : Walk[i] \in Undeleted(row)
<1> DEFINE S == Undeleted(row)
           R == {z \in S \X S : Before(row[z[1]].path, row[z[2]].path)}
<1>1. S \subseteq Ids(row) /\ Ids(row) \subseteq Nodes
  BY DEF Undeleted, Ids, GoodTable
<1>2. IsFiniteSet(S)
  BY <1>1, NodesAssumption, FS_Subset
<1>3. Cardinality(S) \in Nat
  BY <1>2, FS_CardinalityType
<1>4. \A x \in S : row[x].path \in Seq(Nat) /\ row[x].path[Len(row[x].path)] = x
  <2>1. \A x \in S : row[x].path \in Seq(Nodes) /\ row[x].path[Len(row[x].path)] = x
    BY <1>1, PathTypes
  <2>2. Seq(Nodes) \subseteq Seq(Nat)
    BY NodesAssumption, SeqMonotonic
  <2>3. QED BY <2>1, <2>2
<1>5. \A x, y \in S : <<x, y>> \in R <=> Before(row[x].path, row[y].path)
  OBVIOUS
<1> HIDE DEF R
<1>6. \A x \in S : <<x, x>> \notin R
  BY <1>4, <1>5, BeforeOrders
<1>7. \A x, y, z \in S : <<x, y>> \in R /\ <<y, z>> \in R => <<x, z>> \in R
  BY <1>4, <1>5, BeforeOrders
<1>8. \A x, y \in S : x # y => <<x, y>> \in R \/ <<y, x>> \in R
  BY <1>4, <1>5, BeforeOrders
<1>9. ASSUME NEW i \in 1 .. Cardinality(S)
      PROVE  \E n \in S : Cardinality({m \in S : Before(row[m].path, row[n].path)}) = i - 1
  <2> HIDE DEF S
  <2>1. PICK n \in S : Cardinality({m \in S : <<m, n>> \in R}) = i - 1
    BY <1>2, <1>6, <1>7, <1>8, Ranked
  <2>2. {m \in S : <<m, n>> \in R} = {m \in S : Before(row[m].path, row[n].path)}
    BY <1>5
  <2>3. QED BY <2>1, <2>2
<1>10. Len(Walk) = Cardinality(S)
  BY <1>3 DEF Walk
<1>11. \A i \in 1 .. Cardinality(S) : Walk[i] \in S
  BY <1>9 DEF Walk
<1>12. QED BY <1>2, <1>3, <1>10, <1>11

(* What it writes are sizes and counts of containers.                       *)
LEMMA CalculatedTypes ==
    ASSUME GoodTable(row)
    PROVE  Calculated \in Walks /\ Calculated.out \in Outs
<1>1. PICK t \in [0 .. Len(Walk) -> Walks] : t[Len(Walk)] = Calculated
  BY WalkIs, WalkRun
<1>2. Calculated \in Walks
  BY <1>1, WalkIs
<1>3. QED BY <1>2 DEF Walks

-----------------------------------------------------------------------------
(* Tables, also between two triggers, when a size or a count may be below 0.*)

SummedRow == RowOf(Int)
Summed(t) == t \in [Nodes -> SummedRow \cup {None}]

(* One is like the other but for sizes and counts.                          *)
Like(t, u) ==
    /\ Ids(u) = Ids(t)
    /\ \A m \in Ids(t) : /\ u[m].type = t[m].type /\ u[m].parent = t[m].parent
                         /\ u[m].path = t[m].path /\ u[m].deleted = t[m].deleted

LEMMA SummedRowIs ==
    ASSUME NEW t, Summed(t), NEW n \in Ids(t)
    PROVE  /\ n \in Nodes /\ t[n] \in SummedRow
           /\ t[n].type \in Containers \cup {"FILE"} /\ t[n].parent \in Nodes \cup {None}
           /\ t[n].path \in Seq(Nodes) /\ t[n].size \in Int /\ t[n].count \in Int
           /\ t[n].deleted \in BOOLEAN
  BY DEF Ids, Summed, SummedRow, RowOf

LEMMA RowsAreSummed ==
    ASSUME NEW t \in [Nodes -> Row \cup {None}]
    PROVE  Summed(t)
<1>1. Row \subseteq SummedRow
  BY DEF Row, SummedRow, RowOf
<1>2. QED BY <1>1 DEF Summed

LEMMA LikeTransitive ==
    ASSUME NEW t, NEW u, NEW v, Like(t, u), Like(u, v)
    PROVE  Like(t, v)
  BY DEF Like

(* What is checked has the types of the columns.                            *)
LEMMA CheckedIsTyped ==
    ASSUME NEW t, Summed(t), Checked(t)
    PROVE  t \in [Nodes -> Row \cup {None}]
<1>1. ASSUME NEW n \in Nodes, t[n] # None PROVE t[n] \in Row
  <2>1. n \in Ids(t)
    BY <1>1 DEF Ids, Summed
  <2>2. t[n] \in SummedRow /\ t[n].size >= 0 /\ t[n].count >= 0
    BY <2>1, SummedRowIs DEF Checked
  <2>3. t[n].size \in Nat /\ t[n].count \in Nat
    BY <2>2 DEF SummedRow, RowOf
  <2>4. QED BY <2>2, <2>3 DEF SummedRow, Row, RowOf
<1>2. QED BY <1>1 DEF Summed

(* Add changes sizes and counts of the rows it is given.                    *)
LEMMA AddIs ==
    ASSUME NEW t, Summed(t), NEW ns \in SUBSET Ids(t), NEW count \in Int, NEW size \in Int
    PROVE  /\ Summed(Add(t, ns, count, size)) /\ Like(t, Add(t, ns, count, size))
           /\ \A m \in Ids(t) \ ns : Add(t, ns, count, size)[m] = t[m]
           /\ \A m \in ns : /\ Add(t, ns, count, size)[m].count = t[m].count + count
                            /\ Add(t, ns, count, size)[m].size = t[m].size + size
<1> DEFINE u == Add(t, ns, count, size)
<1>1. DOMAIN t = Nodes /\ Ids(t) \subseteq Nodes
  BY DEF Summed, Ids
<1>2. \A m \in ns : u[m] = [t[m] EXCEPT !.count = @ + count, !.size = @ + size]
  BY <1>1 DEF Add
<1>3. \A m \in Nodes \ ns : u[m] = t[m]
  BY <1>1 DEF Add
<1>4. DOMAIN u = Nodes /\ u = [m \in Nodes |-> u[m]]
  BY <1>1 DEF Add
<1> HIDE DEF u
<1>5. ASSUME NEW m \in ns
      PROVE  /\ u[m] \in SummedRow /\ u[m].type = t[m].type /\ u[m].parent = t[m].parent
             /\ u[m].path = t[m].path /\ u[m].deleted = t[m].deleted
             /\ u[m].count = t[m].count + count /\ u[m].size = t[m].size + size
  <2>1. t[m] \in SummedRow /\ m \in Ids(t)
    BY SummedRowIs
  <2>2. PICK r \in SummedRow : r = t[m]
    BY <2>1
  <2>3. /\ r.size \in Int /\ r.count \in Int /\ r.type \in Containers \cup {"FILE"}
        /\ r.parent \in Nodes \cup {None} /\ r.path \in Seq(Nodes) /\ r.deleted \in BOOLEAN
        /\ r = [type |-> r.type, parent |-> r.parent, path |-> r.path, size |-> r.size,
                count |-> r.count, deleted |-> r.deleted]
    BY DEF SummedRow, RowOf
  <2>4. PICK s : s = [type |-> r.type, parent |-> r.parent, path |-> r.path,
                      size |-> r.size, count |-> r.count + count, deleted |-> r.deleted]
    OBVIOUS
  <2>5. [r EXCEPT !.count = @ + count] = s
    BY <2>3, <2>4
  <2>6. [s EXCEPT !.size = @ + size] =
          [type |-> r.type, parent |-> r.parent, path |-> r.path, size |-> r.size + size,
           count |-> r.count + count, deleted |-> r.deleted]
    BY <2>4
  <2>7. u[m] = [type |-> r.type, parent |-> r.parent, path |-> r.path,
                size |-> r.size + size, count |-> r.count + count, deleted |-> r.deleted]
    BY <1>2, <2>2, <2>5, <2>6
  <2>8. r.size + size \in Int /\ r.count + count \in Int
    BY <2>3
  <2>9. u[m] \in SummedRow
    BY <2>3, <2>7, <2>8 DEF SummedRow, RowOf
  <2>10. QED BY <2>2, <2>7, <2>9
<1>6. None \notin SummedRow
  BY NoneAssumption DEF SummedRow
<1>7. Summed(u)
  <2>1. \A m \in Nodes : u[m] \in SummedRow \cup {None}
    BY <1>3, <1>5 DEF Summed
  <2>2. QED BY <1>4, <2>1 DEF Summed
<1>8. Ids(u) = Ids(t)
  BY <1>1, <1>3, <1>4, <1>5, <1>6 DEF Ids
<1>9. QED BY <1>1, <1>3, <1>5, <1>7, <1>8 DEF Like, u

(* What is said of paths and parents still holds when rows are added.       *)
LEMMA GrowsKeeps ==
    ASSUME NEW t, NEW u, \A n \in Ids(t) : n \in Ids(u) /\ u[n].type = t[n].type
    PROVE  /\ \A types : Of(t, types) \subseteq Of(u, types)
           /\ \A n, p : GoodPath(t, n, p) => GoodPath(u, n, p)
           /\ \A type, p : ValidParent(t, type, p) => ValidParent(u, type, p)
<1>1. \A types : Of(t, types) \subseteq Of(u, types)
  BY DEF Of
<1>2. \A n, p : GoodPath(t, n, p) => GoodPath(u, n, p)
  BY <1>1 DEF GoodPath
<1>3. \A type, p : ValidParent(t, type, p) => ValidParent(u, type, p)
  BY DEF ValidParent
<1>4. QED BY <1>1, <1>2, <1>3

(* Only containers are above a path, but for the node it is the path of.    *)
LEMMA AboveIsContainers ==
    ASSUME NEW t, \A m \in Ids(t) : GoodPath(t, m, t[m].path), NEW n, NEW p, GoodPath(t, n, p)
    PROVE  Above(t, p) \ {n} \subseteq Of(t, Containers)
<1>1. ASSUME NEW m \in Above(t, p), m # n PROVE m \in Of(t, Containers)
  <2>1. m \in Ids(t) /\ IsPrefix(t[m].path, p)
    BY <1>1 DEF Above
  <2> DEFINE q == t[m].path
  <2>2. /\ q \in Seq(Nodes) /\ q # <<>> /\ q[Len(q)] = m
        /\ p \in Seq(Nodes) /\ p[Len(p)] = n
    BY <2>1 DEF GoodPath
  <2> HIDE DEF q
  <2>3. Len(q) <= Len(p) /\ \A i \in 1 .. Len(q) : q[i] = p[i]
    BY <2>1, <2>2, PrefixIs DEF q
  <2>4. Len(q) \in Nat /\ Len(q) > 0 /\ Len(p) \in Nat
    BY <2>2
  <2>5. PICK l \in Nat : l = Len(q)
    BY <2>4
  <2>6. l \in 1 .. l /\ p[l] = m /\ l # Len(p)
    BY <1>1, <2>2, <2>3, <2>4, <2>5
  <2>7. l \in 1 .. Len(p) /\ l < Len(p)
    BY <2>3, <2>4, <2>5, <2>6
  <2>8. QED BY <2>6, <2>7 DEF GoodPath
<1>2. QED BY <1>1

(* treenode_file_accounting_update_trg changes sizes and counts of          *)
(* containers above the row.                                                *)
LEMMA AccountedIs ==
    ASSUME NEW t, Summed(t), \A m \in Ids(t) : GoodPath(t, m, t[m].path),
           NEW n \in Ids(t), NEW old \in Row, NEW w \in Row, w.type = old.type,
           GoodPath(t, n, w.path), ValidParent(t, old.type, old.parent),
           ValidParent(t, w.type, w.parent)
    PROVE  /\ Summed(Accounted(t, n, old, w)) /\ Like(t, Accounted(t, n, old, w))
           /\ \A m \in Ids(t) : m \notin Of(t, Containers) \ {n}
                                  => Accounted(t, n, old, w)[m] = t[m]
           /\ Summed(OldLess(t, n, old)) \/ w.type \notin Counted
<1> DEFINE a == Accounted(t, n, old, w)
           Fine(u) == /\ Summed(u) /\ Like(t, u)
                      /\ \A m \in Ids(t) : m \notin Of(t, Containers) \ {n} => u[m] = t[m]
<1>1. /\ old.size \in Nat /\ old.count \in Nat /\ w.size \in Nat /\ w.count \in Nat
      /\ w.deleted \in BOOLEAN /\ old.deleted \in BOOLEAN
  BY DEF Row, RowOf
<1>2. ASSUME NEW u, Fine(u), NEW ns \in SUBSET (Of(t, Containers) \ {n}),
             NEW count \in Int, NEW size \in Int
      PROVE  Fine(Add(u, ns, count, size))
  <2>1. ns \in SUBSET Ids(u)
    BY <1>2 DEF Of, Like
  <2>2. /\ Summed(Add(u, ns, count, size)) /\ Like(u, Add(u, ns, count, size))
        /\ \A m \in Ids(u) \ ns : Add(u, ns, count, size)[m] = u[m]
    BY <1>2, <2>1, AddIs
  <2>3. Like(t, Add(u, ns, count, size))
    BY <1>2, <2>2, LikeTransitive
  <2>4. \A m \in Ids(t) : m \notin Of(t, Containers) \ {n}
                            => Add(u, ns, count, size)[m] = t[m]
    BY <1>2, <2>2 DEF Like
  <2>5. QED BY <2>2, <2>3, <2>4
<1>3. Fine(t)
  BY DEF Like
<1>4. ASSUME NEW u, Like(t, u), NEW p PROVE Above(u, p) = Above(t, p)
  BY <1>4 DEF Above, Like
<1>5. Above(t, w.path) \ {n} \in SUBSET (Of(t, Containers) \ {n})
  BY AboveIsContainers
<1>6. CASE w.type \notin Counted
  BY <1>3, <1>6 DEF Accounted
<1>7. CASE w.type \in Counted
  <2>1. /\ old.parent \in Of(t, Containers) /\ w.parent \in Of(t, Containers)
    BY <1>7 DEF ValidParent, ValidParents, Counted, Containers, Of
  <2>2. ASSUME NEW p \in Of(t, Containers)
        PROVE  Above(t, t[p].path) \ {n} \in SUBSET (Of(t, Containers) \ {n})
    <3>1. p \in Ids(t) /\ GoodPath(t, p, t[p].path)
      BY DEF Of
    <3>2. Above(t, t[p].path) \ {p} \subseteq Of(t, Containers)
      BY <3>1, AboveIsContainers
    <3>3. QED BY <3>2
  <2> DEFINE less == OldLess(t, n, old)
  <2>3. MovedCount(old) \in Nat
    BY <1>1 DEF MovedCount
  <2>4. Fine(less)
    <3>1. -MovedCount(old) \in Int /\ -old.size \in Int
      BY <1>1, <2>3
    <3> HIDE DEF Fine
    <3>2. QED BY <1>2, <1>3, <2>1, <2>2, <3>1 DEF OldLess
  <2> HIDE DEF less, Fine
  <2>5. CASE old.deleted # w.deleted
    <3>1. PICK sign \in Int : sign = IF w.deleted THEN -1 ELSE 1
      OBVIOUS
    <3>2. PICK size \in Int : size = IF w.type = "FILE" THEN sign * w.size ELSE 0
      BY <1>1
    <3>3. a = Add(t, Above(t, w.path) \ {n}, sign, size)
      BY <1>7, <2>5, <3>1, <3>2 DEF Accounted
    <3>4. QED BY <1>2, <1>3, <1>5, <2>4, <3>3 DEF Fine, less
  <2>6. CASE old.deleted = w.deleted /\ old.parent # w.parent
    <3>1. a = Add(less, Above(t, t[w.parent].path) \ {n}, MovedCount(old), w.size)
      BY <1>7, <2>6 DEF Accounted, less
    <3>2. MovedCount(old) \in Int /\ w.size \in Int
      BY <1>1, <2>3
    <3>3. Fine(a)
      BY <1>2, <2>1, <2>2, <2>4, <3>1, <3>2
    <3>4. QED BY <2>4, <3>3 DEF Fine, less
  <2>7. CASE old.deleted = w.deleted /\ old.parent = w.parent
    <3>1. a = Add(t, Above(t, w.path) \ {n}, 0, w.size - old.size)
      BY <1>7, <2>7 DEF Accounted
    <3>2. 0 \in Int /\ w.size - old.size \in Int
      BY <1>1
    <3>3. Fine(a)
      BY <1>2, <1>3, <1>5, <3>1, <3>2
    <3>4. QED BY <2>4, <3>3 DEF Fine, less
  <2>8. QED BY <2>5, <2>6, <2>7
<1>8. QED BY <1>6, <1>7

(* A path that is put where the path of a row above was is a good one.      *)
LEMMA GraftIsGood ==
    ASSUME NEW t, NEW n, NEW m, m # n, NEW o, NEW w, NEW p,
           GoodPath(t, n, o), GoodPath(t, n, w), GoodPath(t, m, p), IsPrefix(o, p)
    PROVE  /\ GoodPath(t, m, w \o SubSeq(p, Len(o) + 1, Len(p)))
           /\ n \in Of(t, Containers)
<1>1. /\ o \in Seq(Nodes) /\ w \in Seq(Nodes) /\ p \in Seq(Nodes)
      /\ o # <<>> /\ w # <<>> /\ p # <<>>
      /\ o[Len(o)] = n /\ w[Len(w)] = n /\ p[Len(p)] = m
  BY DEF GoodPath
<1>2. PICK a \in Nat, b \in Nat, l \in Nat : a = Len(o) /\ b = Len(w) /\ l = Len(p)
  BY <1>1
<1>3. a > 0 /\ b > 0 /\ l > 0
  BY <1>1, <1>2
<1>4. a <= l /\ \A i \in 1 .. a : o[i] = p[i]
  BY <1>1, <1>2, PrefixIs
<1>5. p[a] = n
  BY <1>1, <1>2, <1>3, <1>4
<1>6. a < l
  BY <1>1, <1>2, <1>4, <1>5
<1>7. \A i \in 1 .. l : i < l => p[i] \in Of(t, Containers)
  BY <1>2 DEF GoodPath
<1>8. n \in Of(t, Containers)
  BY <1>3, <1>5, <1>6, <1>7
<1>9. \A i \in 1 .. b : w[i] \in Of(t, Containers)
  <2>1. \A i \in 1 .. b : i < b => w[i] \in Of(t, Containers)
    BY <1>2 DEF GoodPath
  <2>2. QED BY <1>1, <1>2, <1>8, <2>1
<1> DEFINE r == SubSeq(p, a + 1, l)
           s == w \o r
<1>10. r \in Seq(Nodes) /\ Len(r) = l - a /\ \A i \in 1 .. l - a : r[i] = p[a + i]
  BY <1>1, <1>2, <1>6
<1> HIDE DEF r
<1>11. /\ s \in Seq(Nodes) /\ Len(s) = b + (l - a)
       /\ \A i \in 1 .. b : s[i] = w[i]
       /\ \A i \in 1 .. l - a : s[b + i] = r[i]
  <2>1. s \in Seq(Nodes) /\ Len(s) = Len(w) + Len(r)
    BY <1>1, <1>10, ConcatProperties
  <2>2. \A i \in 1 .. Len(w) : s[i] = w[i]
    BY <1>1, <1>10
  <2>3. \A i \in 1 .. Len(r) : s[Len(w) + i] = r[i]
    BY <1>1, <1>10, ConcatProperties
  <2>4. QED BY <1>2, <1>10, <2>1, <2>2, <2>3
<1> HIDE DEF s
<1>12. s[Len(s)] = m
  <2>1. l - a \in 1 .. l - a /\ a + (l - a) = l
    BY <1>6
  <2>2. s[b + (l - a)] = p[l]
    BY <1>10, <1>11, <2>1
  <2>3. QED BY <1>1, <1>2, <1>11, <2>2
<1>13. ASSUME NEW i \in 1 .. Len(s), i < Len(s) PROVE s[i] \in Of(t, Containers)
  <2>1. CASE i <= b
    <3>1. i \in 1 .. b
      BY <2>1
    <3>2. QED BY <1>9, <1>11, <3>1
  <2>2. CASE i > b
    <3>1. PICK j \in 1 .. l - a : i = b + j /\ j < l - a
      <4>1. i - b \in 1 .. l - a /\ i = b + (i - b) /\ i - b < l - a
        BY <1>6, <1>11, <1>13, <2>2
      <4>2. QED BY <4>1
    <3>2. s[i] = p[a + j] /\ a + j \in 1 .. l /\ a + j < l
      <4>1. s[i] = p[a + j]
        BY <1>10, <1>11, <3>1
      <4>2. a + j \in 1 .. l /\ a + j < l
        BY <1>6, <3>1
      <4>3. QED BY <4>1, <4>2
    <3>3. QED BY <1>7, <3>2
  <2>3. i \in Int
    OBVIOUS
  <2>4. QED BY <2>1, <2>2, <2>3
<1>14. s # <<>>
  BY <1>6, <1>11
<1>15. GoodPath(t, m, s)
  BY <1>11, <1>12, <1>13, <1>14 DEF GoodPath
<1>16. QED BY <1>2, <1>8, <1>15 DEF s, r

(* treenode_path_after_trg changes the paths of the rows below.             *)
LEMMA RepathedIs ==
    ASSUME NEW t, Summed(t), \A m \in Ids(t) : GoodPath(t, m, t[m].path),
           NEW n \in Ids(t), NEW old, NEW w,
           GoodPath(t, n, old.path), GoodPath(t, n, w.path),
           NEW u, u = Repathed(t, n, old, w)
    PROVE  /\ Summed(u) /\ Ids(u) = Ids(t)
           /\ \A m \in Ids(t) :
                 /\ u[m].type = t[m].type /\ u[m].parent = t[m].parent
                 /\ u[m].deleted = t[m].deleted
                 /\ u[m].size = t[m].size /\ u[m].count = t[m].count
                 /\ GoodPath(u, m, u[m].path)
                 /\ u[m].path = IF m # n /\ IsPrefix(old.path, t[m].path)
                      THEN w.path \o SubSeq(t[m].path, Len(old.path) + 1, Len(t[m].path))
                      ELSE t[m].path
<1>1. DOMAIN t = Nodes /\ Ids(t) \subseteq Nodes
  BY DEF Summed, Ids
<1> DEFINE Graft(m) == w.path \o SubSeq(t[m].path, Len(old.path) + 1, Len(t[m].path))
           Moves(m) == m # n /\ IsPrefix(old.path, t[m].path)
<1>2. ASSUME NEW m \in Ids(t), Moves(m)
      PROVE  GoodPath(t, m, Graft(m)) /\ Graft(m) \in Seq(Nodes)
  <2>1. GoodPath(t, m, t[m].path)
    OBVIOUS
  <2>2. GoodPath(t, m, Graft(m))
    BY <1>2, <2>1, GraftIsGood
  <2>3. QED BY <2>2 DEF GoodPath
<1>3. \A m \in Nodes : u[m] = IF t[m] # None /\ Moves(m)
                                THEN [t[m] EXCEPT !.path = Graft(m)] ELSE t[m]
  BY <1>1 DEF Repathed
<1>4. DOMAIN u = Nodes /\ u = [m \in Nodes |-> u[m]]
  BY <1>1 DEF Repathed
<1> HIDE DEF Graft
<1>5. ASSUME NEW m \in Ids(t)
      PROVE  /\ u[m] \in SummedRow
             /\ u[m].type = t[m].type /\ u[m].parent = t[m].parent
             /\ u[m].deleted = t[m].deleted
             /\ u[m].size = t[m].size /\ u[m].count = t[m].count
             /\ u[m].path = IF Moves(m) THEN Graft(m) ELSE t[m].path
             /\ GoodPath(t, m, u[m].path)
  <2>1. m \in Nodes /\ t[m] # None /\ t[m] \in SummedRow
    BY <1>1, SummedRowIs DEF Ids
  <2>2. CASE Moves(m)
    <3>1. u[m] = [t[m] EXCEPT !.path = Graft(m)]
      BY <1>3, <2>1, <2>2
    <3> HIDE DEF Moves
    <3>2. GoodPath(t, m, Graft(m)) /\ Graft(m) \in Seq(Nodes)
      BY <1>2, <2>2
    <3>3. QED BY <2>1, <2>2, <3>1, <3>2 DEF SummedRow, RowOf
  <2>3. CASE ~Moves(m)
    BY <1>3, <2>1, <2>3
  <2>4. QED BY <2>2, <2>3
<1>6. \A m \in Nodes : t[m] = None => u[m] = None
  BY <1>3
<1>7. None \notin SummedRow
  BY NoneAssumption DEF SummedRow
<1>8. Ids(u) = Ids(t)
  BY <1>1, <1>4, <1>5, <1>6, <1>7 DEF Ids
<1>9. Summed(u)
  <2>1. \A m \in Nodes : u[m] \in SummedRow \cup {None}
    BY <1>1, <1>5, <1>6 DEF Ids
  <2>2. QED BY <1>4, <2>1 DEF Summed
<1>10. \A m \in Ids(t) : GoodPath(u, m, u[m].path)
  BY <1>5, <1>8, GrowsKeeps
<1>11. QED BY <1>5, <1>8, <1>9, <1>10 DEF Graft

(* What Save can be given for row n.                                        *)
Savable(n, new) ==
    /\ n \in Ids(row) /\ new \in Row /\ new.type = row[n].type
    /\ GoodPath(row, n, new.path) /\ ValidParent(row, new.type, new.parent)
    /\ new.type = "FILE" => new.count = 1

LEMMA WithPathIs ==
    ASSUME GoodTable(row), NEW n, NEW new, Savable(n, new),
           NEW w, w = WithPath(n, row[n], new)
    PROVE  /\ w \in Row /\ GoodPath(row, n, w.path)
           /\ w.type = new.type /\ w.parent = new.parent /\ w.size = new.size
           /\ w.count = new.count /\ w.deleted = new.deleted
           /\ row[n].parent = new.parent => w = new
           /\ row[n].parent # new.parent =>
                 /\ w.path = Append(row[new.parent].path, n)
                 /\ new.parent \in Of(row, Containers)
                 /\ row[n].parent \in Of(row, Containers)
                 /\ new.type \notin {"ORGANIZATION", "COLLECTION"}
<1>1. CASE row[n].parent = new.parent
  BY <1>1 DEF WithPath, Savable
<1>2. CASE row[n].parent # new.parent
  <2>1. /\ new.type = row[n].type /\ ValidParent(row, new.type, new.parent)
        /\ ValidParent(row, row[n].type, row[n].parent) /\ n \in Ids(row)
    BY DEF GoodTable, Savable
  <2>2. new.type # "ORGANIZATION"
    BY <1>2, <2>1 DEF ValidParent
  <2>3. /\ new.parent \in Of(row, Containers) /\ row[n].parent \in Of(row, Containers)
        /\ row[new.parent].type \in ValidParents(new.type)
        /\ row[row[n].parent].type \in ValidParents(new.type)
    BY <2>1, <2>2 DEF ValidParent, ValidParents, Containers, Of
  <2>4. new.type # "COLLECTION"
    <3>1. ASSUME new.type = "COLLECTION" PROVE FALSE
      <4>1. row[new.parent].type = "ORGANIZATION" /\ row[row[n].parent].type = "ORGANIZATION"
        BY <2>3, <3>1 DEF ValidParents
      <4>2. QED BY <1>2, <2>3, <4>1 DEF GoodTable, Of
    <3>2. QED BY <3>1
  <2> DEFINE q == row[new.parent].path  r == Append(q, n)
  <2>5. w = [new EXCEPT !.path = r]
    BY <1>2 DEF WithPath
  <2>6. new.parent \in Ids(row) /\ n \in Nodes
    BY <2>1, <2>3, RowIs DEF Of, GoodTable
  <2>7. GoodPath(row, new.parent, q)
    BY <2>6 DEF GoodTable
  <2> HIDE DEF q
  <2>8. /\ r \in Seq(Nodes) /\ Len(q) \in Nat /\ Len(r) = Len(q) + 1
        /\ r[Len(q) + 1] = n /\ \A i \in 1 .. Len(q) : r[i] = q[i]
    BY <2>6, <2>7 DEF GoodPath
  <2>9. \A i \in 1 .. Len(q) : q[i] \in Of(row, Containers)
    <3>1. \A i \in 1 .. Len(q) : i < Len(q) \/ i = Len(q)
      BY <2>8
    <3>2. q[Len(q)] = new.parent /\
          \A i \in 1 .. Len(q) : i < Len(q) => q[i] \in Of(row, Containers)
      BY <2>7 DEF GoodPath
    <3>3. QED BY <2>3, <3>1, <3>2
  <2> HIDE DEF r
  <2>10. GoodPath(row, n, r)
    <3>1. r # <<>> /\ r[Len(r)] = n
      BY <2>8
    <3>2. \A i \in 1 .. Len(r) : i < Len(r) => i \in 1 .. Len(q)
      BY <2>8
    <3>3. \A i \in 1 .. Len(r) : i < Len(r) => r[i] \in Of(row, Containers)
      BY <2>8, <2>9, <3>2
    <3>4. QED BY <2>8, <3>1, <3>3 DEF GoodPath
  <2>11. new \in Row
    BY DEF Savable
  <2>12. QED BY <1>2, <2>2, <2>3, <2>4, <2>5, <2>8, <2>10, <2>11 DEF Row, RowOf, r, q
<1>3. QED BY <1>1, <1>2

(* The row that is written, the table with it, and that with its sums.      *)
NewRow(n, new) == WithPath(n, row[n], new)
Written(n, new) == [row EXCEPT ![n] = NewRow(n, new)]
Resummed(n, new) == Accounted(Written(n, new), n, row[n], NewRow(n, new))

(* What an UPDATE makes of the table, if it does not raise.                 *)
UpdatedTo(n, new, w, t, a, u) ==
    /\ u = Repathed(a, n, row[n], w)
    /\ ~Raises(row[n], w) /\ ~Endless(n, w) /\ Checked(u)
    /\ Ids(t) = Ids(row) /\ t[n] = w /\ \A m \in Ids(row) : m # n => t[m] = row[m]
    /\ Summed(t) /\ \A m \in Ids(t) : GoodPath(t, m, t[m].path)
    /\ Summed(a) /\ Like(t, a)
    /\ Ids(u) = Ids(row) /\ GoodTable(u)
    /\ \A m \in Ids(row) :
          /\ u[m].type = row[m].type /\ u[m].parent = t[m].parent
          /\ u[m].deleted = t[m].deleted
          /\ u[m].size = a[m].size /\ u[m].count = a[m].count
          /\ u[m].path = IF m # n /\ IsPrefix(row[n].path, t[m].path)
               THEN w.path \o SubSeq(t[m].path, Len(row[n].path) + 1, Len(t[m].path))
               ELSE t[m].path

LEMMA UpdatedIs ==
    ASSUME GoodTable(row), NEW n, NEW new, Savable(n, new), Updated(n, new) # row
    PROVE  UpdatedTo(n, new, NewRow(n, new), Written(n, new), Resummed(n, new),
                     Updated(n, new))
<1> DEFINE w == NewRow(n, new)
           t == Written(n, new)
           a == Resummed(n, new)
           u == Updated(n, new)
<1>1. /\ n \in Ids(row) /\ n \in Nodes /\ row \in [Nodes -> Row \cup {None}]
      /\ row[n] \in Row /\ w \in Row /\ GoodPath(row, n, w.path) /\ w.type = row[n].type
      /\ w.parent = new.parent /\ w.count = new.count
      /\ \A m \in Ids(row) : GoodPath(row, m, row[m].path) /\ row[m] \in Row
  BY WithPathIs, RowIs DEF Savable, GoodTable, NewRow
<1>2. /\ u = Repathed(a, n, row[n], w)
      /\ ~Raises(row[n], w) /\ ~Endless(n, w) /\ Checked(u)
  BY DEF Updated, NewRow, Written, Resummed
<1>2a. a = Accounted(t, n, row[n], w)
  BY DEF Resummed
<1>3. None \notin Row
  <2>1. Row \subseteq RowOf(Int)
    BY DEF Row, RowOf
  <2>2. QED BY <2>1, NoneAssumption
<1>4. t \in [Nodes -> Row \cup {None}] /\ t[n] = w /\ \A m \in Nodes : m # n => t[m] = row[m]
  BY <1>1 DEF Written
<1> HIDE DEF w, t, a, u
<1>5. Ids(t) = Ids(row) /\ \A m \in Ids(row) : t[m].type = row[m].type
  BY <1>1, <1>3, <1>4 DEF Ids
<1>6. \A m \in Ids(t) : GoodPath(t, m, t[m].path)
  <2>1. \A m \in Ids(row) : GoodPath(row, m, t[m].path)
    BY <1>1, <1>4 DEF Ids
  <2>2. QED BY <1>5, <2>1, GrowsKeeps
<1>7. Summed(t)
  BY <1>4, RowsAreSummed
<1>8. /\ ValidParent(row, row[n].type, row[n].parent) /\ ValidParent(row, w.type, w.parent)
      /\ GoodPath(t, n, w.path)
  BY <1>1, <1>4, <1>5, <1>6 DEF GoodTable, Savable
<1>9. ValidParent(t, row[n].type, row[n].parent) /\ ValidParent(t, w.type, w.parent)
  BY <1>5, <1>8, GrowsKeeps
<1>10. /\ Summed(a) /\ Like(t, a)
      /\ \A m \in Ids(t) : m \notin Of(t, Containers) \ {n} => a[m] = t[m]
  <2>1. n \in Ids(t) /\ row[n] \in Row /\ w \in Row /\ w.type = row[n].type
    BY <1>1, <1>5
  <2>2. QED BY <1>2a, <1>6, <1>7, <1>8, <1>9, <2>1, AccountedIs
<1>10a. /\ Ids(a) = Ids(row)
       /\ \A m \in Ids(row) :
             /\ a[m].type = t[m].type /\ a[m].parent = t[m].parent
             /\ a[m].path = t[m].path /\ a[m].deleted = t[m].deleted
             /\ m \notin Of(t, Containers) \ {n} => a[m] = t[m]
  BY <1>5, <1>10 DEF Like
<1>11. \A m \in Ids(a) : GoodPath(a, m, a[m].path)
  <2>1. \A m \in Ids(t) : m \in Ids(a) /\ a[m].type = t[m].type
    BY <1>5, <1>10a
  <2>2. \A m, p : GoodPath(t, m, p) => GoodPath(a, m, p)
    BY <2>1, GrowsKeeps
  <2>3. QED BY <1>5, <1>6, <1>10a, <2>2
<1>12. GoodPath(a, n, row[n].path) /\ GoodPath(a, n, w.path) /\ n \in Ids(a)
  <2>1. \A m \in Ids(row) : m \in Ids(a) /\ a[m].type = row[m].type
    BY <1>5, <1>10a
  <2>2. \A m, p : GoodPath(row, m, p) => GoodPath(a, m, p)
    BY <2>1, GrowsKeeps
  <2>3. QED BY <1>1, <1>10a, <2>2
<1>13. /\ Summed(u) /\ Ids(u) = Ids(a)
       /\ \A m \in Ids(a) :
                 /\ u[m].type = a[m].type /\ u[m].parent = a[m].parent
                 /\ u[m].deleted = a[m].deleted
                 /\ u[m].size = a[m].size /\ u[m].count = a[m].count
                 /\ GoodPath(u, m, u[m].path)
                 /\ u[m].path = IF m # n /\ IsPrefix(row[n].path, a[m].path)
                      THEN w.path \o SubSeq(a[m].path, Len(row[n].path) + 1, Len(a[m].path))
                      ELSE a[m].path
  BY <1>2, <1>10, <1>11, <1>12, RepathedIs
<1>14. Ids(u) = Ids(row) /\ \A m \in Ids(row) : u[m].type = row[m].type
  BY <1>5, <1>10a, <1>13
<1>15. \A m \in Ids(row) :
                 /\ u[m].type = row[m].type /\ u[m].parent = t[m].parent
                 /\ u[m].deleted = t[m].deleted
                 /\ u[m].size = a[m].size /\ u[m].count = a[m].count
                 /\ u[m].path = IF m # n /\ IsPrefix(row[n].path, t[m].path)
                      THEN w.path \o SubSeq(t[m].path, Len(row[n].path) + 1, Len(t[m].path))
                      ELSE t[m].path
  BY <1>5, <1>10a, <1>13
<1>16. GoodTable(u)
  <2>1. u \in [Nodes -> Row \cup {None}]
    BY <1>2, <1>13, CheckedIsTyped
  <2>2. \A m \in Ids(u) : GoodPath(u, m, u[m].path)
    BY <1>13
  <2>3. ASSUME NEW m \in Ids(u) PROVE ValidParent(u, u[m].type, u[m].parent)
    <3>1. ValidParent(row, row[m].type, t[m].parent)
      <4>1. CASE m = n
        BY <1>1, <1>4, <1>8, <4>1
      <4>2. CASE m # n
        BY <1>4, <1>14, <2>3, <4>2 DEF GoodTable, Ids
      <4>3. QED BY <4>1, <4>2
    <3>2. ValidParent(u, row[m].type, t[m].parent)
      BY <1>14, <3>1, GrowsKeeps
    <3>3. QED BY <1>14, <1>15, <3>2
  <2>4. ASSUME NEW m \in Ids(u), u[m].type = "FILE" PROVE u[m].count = 1
    <3>1. m \in Ids(t) /\ m \in Ids(row) /\ t[m].type = "FILE" /\ row[m].type = "FILE"
      BY <1>5, <1>14, <2>4
    <3>2. m \notin Of(t, Containers)
      BY <3>1 DEF Of, Containers
    <3>3. u[m].count = t[m].count
      BY <1>10a, <1>15, <3>1, <3>2
    <3>4. t[m].count = 1
      <4>1. CASE m = n
        BY <1>1, <1>4, <3>1, <4>1 DEF Savable
      <4>2. CASE m # n
        BY <1>4, <3>1, <4>2 DEF GoodTable, Ids
      <4>3. QED BY <4>1, <4>2
    <3>5. QED BY <3>3, <3>4
  <2>5. \A i, j \in Of(u, {"ORGANIZATION"}) : i = j
    BY <1>14 DEF GoodTable, Of
  <2>6. QED BY <2>1, <2>2, <2>3, <2>4, <2>5 DEF GoodTable
<1>17. QED BY <1>1, <1>2, <1>4, <1>5, <1>6, <1>7, <1>10, <1>14, <1>15, <1>16 DEF UpdatedTo, Ids, w, t, a, u

(* A table that is like a good one is good, if its columns have their types *)
(* and only sizes and counts of containers are others.                      *)
LEMMA LikeIsGood ==
    ASSUME NEW t, GoodTable(t), NEW u, u \in [Nodes -> Row \cup {None}], Ids(u) = Ids(t),
           \A m \in Ids(t) : /\ u[m].type = t[m].type /\ u[m].parent = t[m].parent
                             /\ u[m].path = t[m].path
                             /\ t[m].type = "FILE" => u[m].count = t[m].count
    PROVE  GoodTable(u)
<1>1. \A m \in Ids(t) : m \in Ids(u) /\ u[m].type = t[m].type
  OBVIOUS
<1>2. /\ \A m, p : GoodPath(t, m, p) => GoodPath(u, m, p)
      /\ \A type, p : ValidParent(t, type, p) => ValidParent(u, type, p)
  BY <1>1, GrowsKeeps
<1>3. \A m \in Ids(u) : /\ GoodPath(u, m, u[m].path)
                        /\ ValidParent(u, u[m].type, u[m].parent)
                        /\ u[m].type = "FILE" => u[m].count = 1
  BY <1>2 DEF GoodTable
<1>4. \A n, m \in Of(u, {"ORGANIZATION"}) : n = m
  BY DEF GoodTable, Of
<1>5. QED BY <1>3, <1>4 DEF GoodTable

LEMMA IdsAreFinite ==
    ASSUME NEW t, GoodTable(t)
    PROVE  IsFiniteSet(Ids(t)) /\ Ids(t) \subseteq Nodes /\ DOMAIN t = Nodes
<1>1. Ids(t) \subseteq Nodes /\ DOMAIN t = Nodes
  BY DEF Ids, GoodTable
<1>2. QED BY <1>1, NodesAssumption, FS_Subset

LEMMA NoneIsNoRow == None \notin Row /\ Row \subseteq SummedRow
<1>1. Row \subseteq RowOf(Int)
  BY DEF Row, RowOf
<1>2. QED BY <1>1, NoneAssumption DEF SummedRow

(* What an INSERT makes of the table.                                       *)
NewNode == Min(Nodes \ Ids(row))
InsertedTo(n, type, p, size, u) ==
    /\ n \in Nodes \ Ids(row) /\ p \in Of(row, Containers) /\ type # "ORGANIZATION"
    /\ Ids(u) = Ids(row) \cup {n} /\ GoodTable(u)
    /\ \A m \in Ids(row) :
          /\ u[m].type = row[m].type /\ u[m].parent = row[m].parent
          /\ u[m].path = row[m].path /\ u[m].deleted = row[m].deleted
          /\ IF type \in Counted /\ m \in Above(row, row[p].path)
               THEN u[m].count = row[m].count + 1 /\ u[m].size = row[m].size + size
               ELSE u[m].count = row[m].count /\ u[m].size = row[m].size
    /\ u[n] = [type |-> type, parent |-> p, path |-> Append(row[p].path, n),
               size |-> size, count |-> FileCount(type), deleted |-> FALSE]

LEMMA InsertedIs ==
    ASSUME GoodTable(row), NEW type \in Containers \cup {"FILE"}, NEW p \in Ids(row),
           NEW size \in Nat, ValidParent(row, type, p), Nodes \ Ids(row) # {}
    PROVE  InsertedTo(NewNode, type, p, size, Inserted(NewNode, type, p, size))
<1> DEFINE n == NewNode
           q == row[p].path
           r == [type |-> type, parent |-> p, path |-> Append(q, n),
                 size |-> size, count |-> FileCount(type), deleted |-> FALSE]
           t == [row EXCEPT ![n] = r]
           u == Inserted(n, type, p, size)
<1>1. n \in Nodes \ Ids(row)
  <2>1. Nodes \ Ids(row) \in SUBSET Nat
    BY NodesAssumption
  <2>2. \E x \in Nodes \ Ids(row) : \A y \in Nodes \ Ids(row) : x <= y
    BY <2>1, Least
  <2>3. PICK m : m = CHOOSE x \in Nodes \ Ids(row) : \A y \in Nodes \ Ids(row) : x <= y
    OBVIOUS
  <2>4. m \in Nodes \ Ids(row)
    BY <2>2, <2>3
  <2>5. QED BY <2>3, <2>4 DEF NewNode, Min
<1>2. type # "ORGANIZATION" /\ p \in Of(row, Containers)
  <2>1. p \in Nodes
    BY RowIs DEF GoodTable
  <2>2. type # "ORGANIZATION"
    BY <2>1, NoneAssumption DEF ValidParent
  <2>3. QED BY <2>2 DEF ValidParent, ValidParents, Containers, Of
<1>3. GoodPath(row, p, q) /\ q \in Seq(Nodes)
  BY DEF GoodTable, GoodPath
<1> HIDE DEF n, q
<1>4. Append(q, n) \in Seq(Nodes) /\ Len(Append(q, n)) = Len(q) + 1 /\ Len(q) \in Nat
  BY <1>1, <1>3
<1>5. FileCount(type) \in Nat
  BY DEF FileCount
<1>6. r \in Row
  BY <1>4, <1>5, RowIs DEF Row, RowOf, GoodTable
<1>7. /\ t \in [Nodes -> Row \cup {None}] /\ t[n] = r
      /\ \A m \in Nodes : m # n => t[m] = row[m]
  BY <1>1, <1>6 DEF GoodTable
<1>8. r.path = Append(q, n) /\ r.type = type /\ r.parent = p /\ r.count = FileCount(type)
  OBVIOUS
<1> HIDE DEF r, t
<1>9. Ids(t) = Ids(row) \cup {n}
  BY <1>1, <1>6, <1>7, IdsAreFinite, NoneIsNoRow DEF Ids
<1>10. \A m \in Ids(row) : m \in Ids(t) /\ t[m] = row[m] /\ m # n
  BY <1>1, <1>7, <1>9, IdsAreFinite
<1>11. /\ \A m, o : GoodPath(row, m, o) => GoodPath(t, m, o)
       /\ \A ty, o : ValidParent(row, ty, o) => ValidParent(t, ty, o)
       /\ \A types : Of(row, types) \subseteq Of(t, types)
  <2>1. \A m \in Ids(row) : m \in Ids(t) /\ t[m].type = row[m].type
    BY <1>10
  <2>2. QED BY <2>1, GrowsKeeps
<1>12. GoodPath(t, n, r.path)
  <2>1. GoodPath(t, p, q) /\ p \in Of(t, Containers)
    BY <1>2, <1>3, <1>11
  <2>2. \A i \in 1 .. Len(q) : q[i] \in Of(t, Containers)
    <3>1. \A i \in 1 .. Len(q) : i < Len(q) \/ i = Len(q)
      BY <1>4
    <3>2. q[Len(q)] = p /\ \A i \in 1 .. Len(q) : i < Len(q) => q[i] \in Of(t, Containers)
      BY <2>1 DEF GoodPath
    <3>3. QED BY <2>1, <3>1, <3>2
  <2> DEFINE s == Append(q, n)
  <2>3. /\ s \in Seq(Nodes) /\ Len(s) = Len(q) + 1 /\ s[Len(s)] = n /\ s # <<>>
        /\ \A i \in 1 .. Len(q) : s[i] = q[i]
    BY <1>1, <1>3, <1>4
  <2> HIDE DEF s
  <2>4. \A i \in 1 .. Len(s) : i < Len(s) => i \in 1 .. Len(q)
    BY <1>4, <2>3
  <2>5. GoodPath(t, n, s)
    BY <2>2, <2>3, <2>4 DEF GoodPath
  <2>6. QED BY <1>8, <2>5 DEF s
<1>13. GoodTable(t)
  <2>1. \A m \in Ids(t) : /\ GoodPath(t, m, t[m].path)
                          /\ ValidParent(t, t[m].type, t[m].parent)
                          /\ t[m].type = "FILE" => t[m].count = 1
    <3>1. TAKE m \in Ids(t)
    <3>2. CASE m = n
      BY <1>7, <1>8, <1>11, <1>12, <3>2 DEF FileCount
    <3>3. CASE m # n
      <4>1. m \in Ids(row) /\ t[m] = row[m]
        BY <1>9, <1>10, <3>3
      <4>2. QED BY <1>11, <4>1 DEF GoodTable
    <3>4. QED BY <3>2, <3>3
  <2>2. \A i, j \in Of(t, {"ORGANIZATION"}) : i = j
    <3>1. \A i \in Of(t, {"ORGANIZATION"}) : i \in Of(row, {"ORGANIZATION"})
      BY <1>2, <1>7, <1>8, <1>9, <1>10 DEF Of
    <3>2. QED BY <3>1 DEF GoodTable
  <2>3. QED BY <1>7, <2>1, <2>2 DEF GoodTable
<1>14. Above(t, q) = Above(row, q) /\ Above(t, q) \subseteq Of(row, Containers)
  <2>1. ~ IsPrefix(r.path, q)
    BY <1>4, <1>8 DEF IsPrefix
  <2>2. Above(t, q) = Above(row, q)
    BY <1>7, <1>9, <1>10, <2>1 DEF Above
  <2>3. Above(row, q) \ {p} \subseteq Of(row, Containers)
    BY <1>3, AboveIsContainers DEF GoodTable
  <2>4. QED BY <1>2, <2>2, <2>3
<1>15. CASE type \notin Counted
  <2>1. u = t
    BY <1>15 DEF Inserted, t, r, q, u
  <2>2. QED BY <1>1, <1>2, <1>7, <1>9, <1>10, <1>13, <1>15, <2>1 DEF InsertedTo, u, r, n, q
<1>16. CASE type \in Counted
  <2> DEFINE A == Above(t, q)
  <2>1. u = Add(t, A, 1, size)
    BY <1>16 DEF Inserted, t, r, q, u
  <2>2. A \in SUBSET Ids(t) /\ Summed(t) /\ 1 \in Int /\ size \in Int
    BY <1>7, RowsAreSummed DEF Above
  <2> HIDE DEF A, u
  <2>3. /\ Summed(u) /\ Like(t, u) /\ \A m \in Ids(t) \ A : u[m] = t[m]
        /\ \A m \in A : u[m].count = t[m].count + 1 /\ u[m].size = t[m].size + size
    <3> DEFINE v == Add(t, A, 1, size)
    <3>1. /\ Summed(v) /\ Like(t, v) /\ \A m \in Ids(t) \ A : v[m] = t[m]
          /\ \A m \in A : v[m].count = t[m].count + 1 /\ v[m].size = t[m].size + size
      BY <2>2, AddIs
    <3>2. u = v
      BY <2>1
    <3> HIDE DEF v
    <3>3. QED BY <3>1, <3>2
  <2>4. Checked(u)
    <3>1. ASSUME NEW m \in Ids(u) PROVE u[m].size >= 0 /\ u[m].count >= 0
      <4>1. m \in Ids(t) /\ t[m].size \in Nat /\ t[m].count \in Nat
        BY <1>7, <2>3, RowIs DEF Like
      <4>2. QED BY <2>3, <4>1
    <3>2. QED BY <3>1 DEF Checked
  <2>5. u \in [Nodes -> Row \cup {None}]
    BY <2>3, <2>4, CheckedIsTyped
  <2>6. \A m \in Ids(t) : t[m].type = "FILE" => m \notin A
    <3>1. \A m \in Of(row, Containers) : t[m].type \in Containers
      BY <1>10 DEF Of
    <3>2. QED BY <1>14, <3>1 DEF Containers, A
  <2>7. GoodTable(u)
    BY <1>13, <2>3, <2>5, <2>6, LikeIsGood DEF Like
  <2>8. n \notin A
    BY <1>1, <1>14 DEF Of, A
  <2>9. u[n] = r /\ Ids(u) = Ids(row) \cup {n}
    BY <1>7, <1>9, <2>3, <2>8 DEF Like
  <2>10. \A m \in Ids(row) :
            /\ u[m].type = row[m].type /\ u[m].parent = row[m].parent
            /\ u[m].path = row[m].path /\ u[m].deleted = row[m].deleted
            /\ IF m \in Above(row, q)
                 THEN u[m].count = row[m].count + 1 /\ u[m].size = row[m].size + size
                 ELSE u[m].count = row[m].count /\ u[m].size = row[m].size
    <3>1. TAKE m \in Ids(row)
    <3>2. m \in Ids(t) /\ t[m] = row[m] /\ (m \in A <=> m \in Above(row, q))
      BY <1>10, <1>14 DEF A
    <3>3. QED BY <2>3, <3>2 DEF Like
  <2>11. QED BY <1>1, <1>2, <1>16, <2>7, <2>9, <2>10 DEF InsertedTo, u, r, n, q
<1>17. QED BY <1>15, <1>16

(* Nothing is below a file.                                                 *)
LEMMA UnderFile ==
    ASSUME NEW t, GoodTable(t), NEW n \in Ids(t), t[n].type = "FILE"
    PROVE  Under(t, n) = {}
<1>1. ASSUME NEW m \in Under(t, n) PROVE FALSE
  <2>1. m \in Ids(t) /\ m # n /\ IsPrefix(t[n].path, t[m].path)
    BY DEF Under, Below
  <2>2. GoodPath(t, n, t[n].path) /\ GoodPath(t, m, t[m].path)
    BY <2>1 DEF GoodTable
  <2>3. n \in Of(t, Containers)
    BY <2>1, <2>2, GraftIsGood
  <2>4. QED BY <2>3 DEF Of, Containers
<1>2. QED BY <1>1

(* What a soft deletion of the rows ds makes of the table.                  *)
Gone(ds, m, types) == Under(row, m) \cap ds \cap Of(row, types)

Dead(ds, m) == IF m \in ds THEN TRUE ELSE row[m].deleted

DeletedTo(ds, u) ==
    /\ Ids(u) = Ids(row) /\ GoodTable(u)
    /\ \A m \in Ids(row) :
          /\ u[m].type = row[m].type /\ u[m].parent = row[m].parent
          /\ u[m].path = row[m].path /\ u[m].deleted = Dead(ds, m)
          /\ u[m].count = row[m].count - Cardinality(Gone(ds, m, Counted))
          /\ u[m].size = row[m].size - SumOf(row, Gone(ds, m, {"FILE"}))

(* The rows with their marks and sums, before they are checked.             *)
Marked(ds) == [n \in DOMAIN row |-> IF n \in ds THEN [row[n] EXCEPT !.deleted = TRUE]
                                                ELSE row[n]]
DeletedRow(ds, m) ==
    [type |-> row[m].type, parent |-> row[m].parent, path |-> row[m].path,
     size |-> row[m].size - SumOf(row, Gone(ds, m, {"FILE"})),
     count |-> row[m].count - Cardinality(Gone(ds, m, Counted)),
     deleted |-> Dead(ds, m)]
DeletedRows(ds) == [m \in DOMAIN row |-> IF row[m] = None THEN None ELSE DeletedRow(ds, m)]

LEMMA MarkRow ==
    ASSUME NEW r \in Row, NEW b \in BOOLEAN
    PROVE  [r EXCEPT !.deleted = b] =
             [type |-> r.type, parent |-> r.parent, path |-> r.path,
              size |-> r.size, count |-> r.count, deleted |-> b]
  BY DEF Row, RowOf

LEMMA MarkedIs ==
    ASSUME GoodTable(row), NEW ds \in SUBSET Ids(row)
    PROVE  /\ DOMAIN Marked(ds) = Nodes /\ Ids(Marked(ds)) = Ids(row)
           /\ \A m \in Nodes : Marked(ds)[m] = None <=> row[m] = None
           /\ \A m \in Ids(row) :
                 Marked(ds)[m] = [type |-> row[m].type, parent |-> row[m].parent,
                                  path |-> row[m].path, size |-> row[m].size,
                                  count |-> row[m].count,
                                  deleted |-> Dead(ds, m)]
<1>1. DOMAIN row = Nodes /\ Ids(row) \subseteq Nodes
  BY IdsAreFinite
<1>2. ASSUME NEW m \in Ids(row)
      PROVE  /\ Marked(ds)[m] = [type |-> row[m].type, parent |-> row[m].parent,
                                 path |-> row[m].path, size |-> row[m].size,
                                 count |-> row[m].count,
                                 deleted |-> Dead(ds, m)]
             /\ Marked(ds)[m] \in Row
  <2>1. row[m] \in Row
    BY RowIs DEF GoodTable
  <2>2. PICK r \in Row : r = row[m]
    BY <2>1
  <2>3. r.deleted \in BOOLEAN /\ r = [type |-> r.type, parent |-> r.parent, path |-> r.path,
             size |-> r.size, count |-> r.count, deleted |-> r.deleted]
    BY DEF Row, RowOf
  <2>4. Marked(ds)[m] = IF m \in ds THEN [r EXCEPT !.deleted = TRUE] ELSE r
    BY <1>1, <2>2 DEF Marked
  <2>5. CASE m \in ds
    <3>1. Dead(ds, m) = TRUE
      BY <2>5 DEF Dead
    <3>2. Marked(ds)[m] = [r EXCEPT !.deleted = Dead(ds, m)]
      BY <2>4, <2>5, <3>1
    <3>3. Dead(ds, m) \in BOOLEAN
      BY <3>1
    <3>4. PICK b \in BOOLEAN : b = Dead(ds, m)
      BY <3>3
    <3>5. [r EXCEPT !.deleted = b] =
             [type |-> r.type, parent |-> r.parent, path |-> r.path,
              size |-> r.size, count |-> r.count, deleted |-> b]
      BY MarkRow
    <3>6. Marked(ds)[m] = [type |-> r.type, parent |-> r.parent, path |-> r.path,
              size |-> r.size, count |-> r.count, deleted |-> Dead(ds, m)]
      BY <3>2, <3>4, <3>5
    <3>7. Marked(ds)[m] \in Row
      BY <3>3, <3>6 DEF Row, RowOf
    <3>8. QED BY <2>2, <3>6, <3>7
  <2>6. CASE m \notin ds
    <3>1. Dead(ds, m) = r.deleted
      BY <2>2, <2>6 DEF Dead
    <3>2. QED BY <2>2, <2>3, <2>4, <2>6, <3>1
  <2>7. QED BY <2>5, <2>6
<1>3. \A m \in Nodes : row[m] = None => Marked(ds)[m] = None
  BY <1>1 DEF Marked, Ids
<1>4. \A m \in Nodes : Marked(ds)[m] = None <=> row[m] = None
  BY <1>1, <1>2, <1>3, NoneIsNoRow DEF Ids
<1>5. DOMAIN Marked(ds) = Nodes
  BY <1>1 DEF Marked
<1>6. QED BY <1>1, <1>2, <1>4, <1>5 DEF Ids

LEMMA DeletedIsRows ==
    ASSUME GoodTable(row), NEW ds \in SUBSET Ids(row)
    PROVE  Deleted(ds) = IF \/ \E n \in ds : row[n].type \in Counted /\ row[n].size > IntMax
                            \/ ~Checked(DeletedRows(ds))
                         THEN row ELSE DeletedRows(ds)
<1> DEFINE t == Marked(ds)
           gone(m) == Under(t, m) \cap ds \cap Of(t, Counted)
           done == [m \in DOMAIN t |-> IF t[m] = None THEN None ELSE
                      [t[m] EXCEPT !.count = @ - Cardinality(gone(m)),
                                   !.size = @ - SumOf(t, gone(m) \cap Of(t, {"FILE"}))]]
<1>1. /\ DOMAIN t = Nodes /\ Ids(t) = Ids(row)
      /\ \A m \in Nodes : t[m] = None <=> row[m] = None
      /\ \A m \in Ids(row) :
            t[m] = [type |-> row[m].type, parent |-> row[m].parent, path |-> row[m].path,
                    size |-> row[m].size, count |-> row[m].count,
                    deleted |-> Dead(ds, m)]
  BY MarkedIs
<1>2. DOMAIN row = Nodes /\ Ids(row) \subseteq Nodes /\ IsFiniteSet(Ids(row))
  BY IdsAreFinite
<1> HIDE DEF t
<1>3. \A m \in Ids(row) : t[m].type = row[m].type /\ t[m].path = row[m].path /\ t[m].size = row[m].size
  <2>1. TAKE m \in Ids(row)
  <2>2. PICK b : b = Dead(ds, m)
    OBVIOUS
  <2>3. t[m] = [type |-> row[m].type, parent |-> row[m].parent, path |-> row[m].path,
                size |-> row[m].size, count |-> row[m].count, deleted |-> b]
    BY <1>1, <2>2
  <2>4. QED BY <2>3
<1>4. \A m \in Ids(row) : Under(t, m) = Under(row, m)
  BY <1>1, <1>3 DEF Under, Below
<1>5. \A types : Of(t, types) = Of(row, types)
  BY <1>1, <1>3 DEF Of
<1>6. ASSUME NEW m \in Ids(row)
      PROVE  done[m] = DeletedRow(ds, m)
  <2>1. gone(m) = Gone(ds, m, Counted)
    BY <1>4, <1>5 DEF Gone
  <2>2. gone(m) \cap Of(t, {"FILE"}) = Gone(ds, m, {"FILE"})
    <3>1. Of(row, {"FILE"}) \subseteq Of(row, Counted)
      BY DEF Of, Counted
    <3>2. QED BY <1>5, <2>1, <3>1 DEF Gone
  <2>3. SumOf(t, Gone(ds, m, {"FILE"})) = SumOf(row, Gone(ds, m, {"FILE"}))
    <3>1. Gone(ds, m, {"FILE"}) \in SUBSET Ids(row)
      BY DEF Gone
    <3>2. IsFiniteSet(Gone(ds, m, {"FILE"}))
      BY <1>2, <3>1, FS_Subset
    <3>3. \A x \in Gone(ds, m, {"FILE"}) : t[x].size = row[x].size
      BY <1>3, <3>1
    <3>4. QED BY <3>2, <3>3, SumSame
  <2>4. t[m] # None /\ m \in DOMAIN t
    BY <1>1, <1>2 DEF Ids
  <2> HIDE DEF gone
  <2>5. done[m] = [t[m] EXCEPT !.count = @ - Cardinality(Gone(ds, m, Counted)),
                               !.size = @ - SumOf(row, Gone(ds, m, {"FILE"}))]
    BY <2>1, <2>2, <2>3, <2>4
  <2>6. PICK c, z : c = Cardinality(Gone(ds, m, Counted)) /\ z = SumOf(row, Gone(ds, m, {"FILE"}))
    OBVIOUS
  <2>7. PICK r : r = row[m]
    OBVIOUS
  <2>8. PICK b : b = Dead(ds, m)
    OBVIOUS
  <2>9. t[m] = [type |-> r.type, parent |-> r.parent, path |-> r.path,
                size |-> r.size, count |-> r.count, deleted |-> b]
    BY <1>1, <2>7, <2>8
  <2>10. PICK s : s = [type |-> r.type, parent |-> r.parent, path |-> r.path,
                       size |-> r.size, count |-> r.count - c, deleted |-> b]
    OBVIOUS
  <2>11. [t[m] EXCEPT !.count = @ - c] = s
    BY <2>9, <2>10
  <2>12. [s EXCEPT !.size = @ - z] =
            [type |-> r.type, parent |-> r.parent, path |-> r.path,
             size |-> r.size - z, count |-> r.count - c, deleted |-> b]
    BY <2>10
  <2>13. done[m] = [type |-> r.type, parent |-> r.parent, path |-> r.path,
                    size |-> r.size - z, count |-> r.count - c, deleted |-> b]
    <3>1. done[m] = [[t[m] EXCEPT !.count = @ - c] EXCEPT !.size = @ - z]
      BY <2>5, <2>6
    <3> HIDE DEF done
    <3>2. QED BY <2>11, <2>12, <3>1
  <2>14. QED BY <2>6, <2>7, <2>8, <2>13 DEF DeletedRow
<1>7. \A m \in Nodes : done[m] = IF row[m] = None THEN None ELSE DeletedRow(ds, m)
  <2>1. \A m \in Nodes : row[m] # None => m \in Ids(row)
    BY <1>2 DEF Ids
  <2>2. QED BY <1>1, <1>6, <2>1
<1>8. done = DeletedRows(ds)
  <2>1. done = [m \in Nodes |-> done[m]]
    BY <1>1
  <2> HIDE DEF done
  <2>2. QED BY <1>2, <1>7, <2>1 DEF DeletedRows
<1>9. Deleted(ds) = IF \/ \E n \in ds : row[n].type \in Counted /\ row[n].size > IntMax
                       \/ ~Checked(done)
                    THEN row ELSE done
  BY DEF Deleted, Marked, t
<1> HIDE DEF done
<1>10. QED BY <1>8, <1>9

LEMMA DeletedIs ==
    ASSUME GoodTable(row), NEW ds \in SUBSET Ids(row), Deleted(ds) # row
    PROVE  DeletedTo(ds, Deleted(ds))
<1> DEFINE u == DeletedRows(ds)
<1>1. Checked(u) /\ Deleted(ds) = u
  BY DeletedIsRows
<1>2. DOMAIN row = Nodes /\ Ids(row) \subseteq Nodes /\ IsFiniteSet(Ids(row))
  BY IdsAreFinite
<1>3. ASSUME NEW m \in Ids(row)
      PROVE  /\ Cardinality(Gone(ds, m, Counted)) \in Nat
             /\ SumOf(row, Gone(ds, m, {"FILE"})) \in Nat
             /\ row[m].type = "FILE" => Cardinality(Gone(ds, m, Counted)) = 0
  <2>1. /\ Gone(ds, m, {"FILE"}) \in SUBSET Ids(row)
        /\ Gone(ds, m, Counted) \in SUBSET Ids(row)
    BY DEF Gone
  <2>2. IsFiniteSet(Gone(ds, m, {"FILE"})) /\ IsFiniteSet(Gone(ds, m, Counted))
    BY <1>2, <2>1, FS_Subset
  <2>3. \A x \in Gone(ds, m, {"FILE"}) : row[x].size \in Nat
    BY <2>1, RowIs DEF GoodTable
  <2>4. row[m].type = "FILE" => Gone(ds, m, Counted) = {}
    BY UnderFile DEF Gone
  <2>5. QED BY <2>2, <2>3, <2>4, SumFacts, FS_CardinalityType, FS_EmptySet
<1>4. \A m \in Nodes : u[m] = IF row[m] = None THEN None ELSE DeletedRow(ds, m)
  BY <1>2 DEF DeletedRows
<1>5. ASSUME NEW m \in Ids(row)
      PROVE  u[m] = DeletedRow(ds, m) /\ u[m] \in SummedRow
  <2>1. u[m] = DeletedRow(ds, m)
    BY <1>2, <1>4 DEF Ids
  <2>2. row[m] \in Row /\ (Dead(ds, m)) \in BOOLEAN
    <3>1. row[m] \in Row /\ row[m].deleted \in BOOLEAN
      BY RowIs DEF GoodTable
    <3>2. QED BY <3>1 DEF Dead
  <2>3. /\ row[m].size - SumOf(row, Gone(ds, m, {"FILE"})) \in Int
        /\ row[m].count - Cardinality(Gone(ds, m, Counted)) \in Int
    BY <1>3, <2>2 DEF Row, RowOf
  <2>4. DeletedRow(ds, m) \in SummedRow
    BY <2>2, <2>3 DEF DeletedRow, SummedRow, Row, RowOf
  <2>5. QED BY <2>1, <2>4
<1>6. Summed(u) /\ Ids(u) = Ids(row)
  <2>1. \A m \in Nodes : row[m] = None => u[m] = None
    BY <1>4
  <2>2. \A m \in Nodes : u[m] \in SummedRow \cup {None}
    BY <1>2, <1>5, <2>1 DEF Ids
  <2>3. u = [m \in Nodes |-> u[m]]
    BY <1>2 DEF DeletedRows
  <2>4. None \notin SummedRow
    BY NoneAssumption DEF SummedRow
  <2> HIDE DEF u
  <2>5. DOMAIN u = Nodes
    BY <2>3
  <2>6. QED BY <1>2, <1>5, <2>1, <2>2, <2>3, <2>4, <2>5 DEF Summed, Ids
<1> HIDE DEF u
<1>7. u \in [Nodes -> Row \cup {None}]
  BY <1>1, <1>6, CheckedIsTyped
<1>8. \A m \in Ids(row) :
          /\ u[m].type = row[m].type /\ u[m].parent = row[m].parent
          /\ u[m].path = row[m].path /\ u[m].deleted = Dead(ds, m)
          /\ u[m].count = row[m].count - Cardinality(Gone(ds, m, Counted))
          /\ u[m].size = row[m].size - SumOf(row, Gone(ds, m, {"FILE"}))
  <2>1. TAKE m \in Ids(row)
  <2>2. PICK b, c, z : /\ b = Dead(ds, m) /\ c = row[m].count - Cardinality(Gone(ds, m, Counted))
                       /\ z = row[m].size - SumOf(row, Gone(ds, m, {"FILE"}))
    OBVIOUS
  <2>3. u[m] = [type |-> row[m].type, parent |-> row[m].parent, path |-> row[m].path,
                size |-> z, count |-> c, deleted |-> b]
    BY <1>5, <2>2 DEF DeletedRow
  <2>4. QED BY <2>2, <2>3
<1>9. \A m \in Ids(row) : row[m].type = "FILE" => u[m].count = row[m].count
  <2>1. \A m \in Ids(row) : row[m].count \in Nat
    BY RowIs DEF GoodTable
  <2>2. QED BY <1>3, <1>8, <2>1
<1>10. GoodTable(u)
  BY <1>6, <1>7, <1>8, <1>9, LikeIsGood
<1>11. QED BY <1>1, <1>6, <1>8, <1>10 DEF DeletedTo

(* What the recalculation makes of it.                                      *)
LEMMA RecalculatedIs ==
    ASSUME GoodTable(row), NEW out \in Outs
    PROVE  /\ GoodTable(Recalculated(out)) /\ Ids(Recalculated(out)) = Ids(row)
           /\ \A m \in Ids(row) :
                 /\ Recalculated(out)[m].type = row[m].type
                 /\ Recalculated(out)[m].parent = row[m].parent
                 /\ Recalculated(out)[m].path = row[m].path
                 /\ Recalculated(out)[m].deleted = row[m].deleted
<1> DEFINE u == Recalculated(out)
<1>1. PICK D \in SUBSET Of(row, Containers) : out \in [D -> [size : Nat, count : Nat]]
  BY DEF Outs, Listed
<1>2. DOMAIN row = Nodes /\ Ids(row) \subseteq Nodes
  BY IdsAreFinite
<1>3. ASSUME NEW m \in Ids(row)
      PROVE  /\ u[m] \in Row
             /\ u[m].type = row[m].type /\ u[m].parent = row[m].parent
             /\ u[m].path = row[m].path /\ u[m].deleted = row[m].deleted
             /\ row[m].type = "FILE" => u[m].count = row[m].count
  <2>1. row[m] \in Row
    BY RowIs DEF GoodTable
  <2>2. CASE m \in D
    <3>1. out[m].size \in Nat /\ out[m].count \in Nat
      BY <1>1, <2>2
    <3>2. u[m] = [row[m] EXCEPT !.size = out[m].size, !.count = out[m].count]
      BY <1>1, <1>2, <2>2 DEF Recalculated
    <3>3. row[m].type # "FILE"
      BY <1>1, <2>2 DEF Of, Containers
    <3>4. QED BY <2>1, <3>1, <3>2, <3>3 DEF Row, RowOf
  <2>3. CASE m \notin D
    <3>1. u[m] = row[m]
      BY <1>1, <1>2, <2>3 DEF Recalculated
    <3>2. QED BY <2>1, <3>1
  <2>4. QED BY <2>2, <2>3
<1>4. \A m \in Nodes : row[m] = None => u[m] = None
  <2>1. \A m \in Nodes : row[m] = None => m \notin D
    BY <1>1 DEF Of, Ids
  <2>2. QED BY <1>1, <1>2, <2>1 DEF Recalculated
<1>5. u = [m \in Nodes |-> u[m]]
  BY <1>2 DEF Recalculated
<1> HIDE DEF u
<1>6. DOMAIN u = Nodes
  BY <1>5
<1>7. u \in [Nodes -> Row \cup {None}] /\ Ids(u) = Ids(row)
  <2>1. \A m \in Nodes : u[m] \in Row \cup {None}
    BY <1>2, <1>3, <1>4 DEF Ids
  <2>2. QED BY <1>2, <1>3, <1>4, <1>5, <1>6, <2>1, NoneIsNoRow DEF Ids
<1>8. GoodTable(u)
  BY <1>3, <1>7, LikeIsGood
<1>9. QED BY <1>3, <1>7, <1>8 DEF u

-----------------------------------------------------------------------------
(* Types.                                                                   *)

(* An instance in memory can be saved, whatever has become of its row.      *)
GoodHeld(a) ==
    held[a] # None =>
        /\ held[a] \in Instance /\ Savable(held[a].id, held[a].was)
        /\ a \in {"chunked", "hashed"} => held[a].was.type = "FILE"

Sound == TypeOK /\ GoodTable(row) /\ \A a \in Actors : GoodHeld(a)

LEMMA FileCounts ==
    ASSUME NEW t, GoodTable(t)
    PROVE  \A n \in Of(t, {"FILE"}) : t[n].count = 1
  BY DEF Of, GoodTable

(* At first.                                                                *)
LEMMA SoundInit == Init => Sound
<1> SUFFICES ASSUME Init PROVE Sound
  OBVIOUS
<1>1. row = Tree /\ Tree \in [Nodes -> Row \cup {None}] /\ PathsRight(Tree)
  BY TreeAssumption DEF Init
<1> DEFINE Bad == {k \in Nat : \E n \in Ids(Tree) : Len(Tree[n].path) = k /\
                                  ~GoodPath(Tree, n, Tree[n].path)}
<1>2. ASSUME Bad # {} PROVE FALSE
  <2>1. PICK k \in Bad : \A j \in Bad : k <= j
    BY <1>2, Least
  <2>2. PICK n \in Ids(Tree) : Len(Tree[n].path) = k /\ ~GoodPath(Tree, n, Tree[n].path)
    BY <2>1
  <2>3. n \in Nodes /\ ValidParent(Tree, Tree[n].type, Tree[n].parent)
    BY <1>1, TreeAssumption, RowIs
  <2>4. CASE Tree[n].parent = None
    <3>1. Tree[n].path = <<n>>
      BY <1>1, <2>4 DEF PathsRight
    <3>2. <<n>> \in Seq(Nodes) /\ Len(<<n>>) = 1 /\ <<n>>[1] = n /\ <<n>> # <<>>
      BY <2>3
    <3>3. \A i \in 1 .. 1 : ~ (i < 1)
      OBVIOUS
    <3>4. GoodPath(Tree, n, <<n>>)
      BY <3>2, <3>3 DEF GoodPath
    <3>5. QED BY <2>2, <3>1, <3>4
  <2>5. CASE Tree[n].parent # None
    <3>1. PICK p \in Ids(Tree) : p = Tree[n].parent
      BY <2>3, <2>5 DEF ValidParent
    <3>2. p \in Of(Tree, Containers)
      BY <2>3, <2>5, <3>1 DEF ValidParent, ValidParents, Of, Containers
    <3> DEFINE q == Tree[p].path  s == Tree[n].path
    <3>3. s = Append(q, n) /\ q \in Seq(Nodes)
      BY <1>1, <2>5, <3>1, RowIs DEF PathsRight
    <3>4. Len(s) = k
      BY <2>2
    <3>5. GoodPath(Tree, p, q) \/ Len(q) \in Bad
      <4>1. Len(q) \in Nat
        BY <3>3
      <4>2. QED BY <4>1
    <3> HIDE DEF q, s
    <3>6. /\ s \in Seq(Nodes) /\ Len(q) \in Nat /\ Len(s) = Len(q) + 1 /\ s[Len(s)] = n
          /\ s # <<>> /\ \A i \in 1 .. Len(q) : s[i] = q[i]
      BY <2>3, <3>3
    <3>7. Len(q) \notin Bad
      BY <2>1, <3>4, <3>6
    <3>8. GoodPath(Tree, p, q)
      BY <3>5, <3>7
    <3>9. \A i \in 1 .. Len(q) : q[i] \in Of(Tree, Containers)
      <4>1. \A i \in 1 .. Len(q) : i < Len(q) \/ i = Len(q)
        BY <3>6
      <4>2. q[Len(q)] = p /\ \A i \in 1 .. Len(q) : i < Len(q) => q[i] \in Of(Tree, Containers)
        BY <3>8 DEF GoodPath
      <4>3. QED BY <3>2, <4>1, <4>2
    <3>10. \A i \in 1 .. Len(s) : i < Len(s) => i \in 1 .. Len(q)
      BY <3>6
    <3>11. GoodPath(Tree, n, s)
      BY <3>6, <3>9, <3>10 DEF GoodPath
    <3>12. QED BY <2>2, <3>11 DEF s
  <2>6. QED BY <2>4, <2>5
<1>3. \A n \in Ids(Tree) : GoodPath(Tree, n, Tree[n].path)
  <2>1. \A n \in Ids(Tree) : Len(Tree[n].path) \in Nat
    BY <1>1, RowIs
  <2>2. QED BY <1>2, <2>1
<1>4. GoodTable(row)
  BY <1>1, <1>3, TreeAssumption DEF GoodTable, Of
<1>5. \A a \in Actors : held[a] = None
  BY DEF Init
<1>6. TypeOK
  <2>1. held \in [Actors -> Instance \cup {None}]
    BY DEF Init
  <2>2. broken \subseteq {"path", "sums", "counts"} /\ writes \in 0 .. MaxWrites
    BY BoundsAssumption DEF Init
  <2>3. QED BY <1>1, <1>4, <2>1, <2>2, FileCounts DEF TypeOK
<1>7. QED BY <1>4, <1>5, <1>6 DEF Sound, GoodHeld

(* Every step creates a node, saves what can be saved, deletes,             *)
(* recalculates, or leaves the table alone.                                 *)
Creates ==
    \E p \in Ids(row), size \in Nat, type \in Containers \cup {"FILE"} :
        /\ type # "FILE" => size = 0
        /\ ValidParent(row, type, p) /\ Nodes \ Ids(row) # {}
        /\ row' = Inserted(NewNode, type, p, size)
        /\ UNCHANGED <<held, broken, writes>>
Saves == \E a \in Actors : \E new : Savable(held[a].id, new) /\ Save(a, new)
Deletes == \E u \in Users : Delete(u)
Recalculates ==
    /\ row' = Recalculated(Calculated.out) /\ UNCHANGED held
    /\ broken' \subseteq {"path", "sums", "counts"} /\ "counts" \in broken'
    /\ ("path" \in broken' <=> "path" \in broken) /\ writes' \in 0 .. MaxWrites
    /\ "sums" \notin broken' =>
          /\ Calculated.ok
          /\ Of(row, Containers) \subseteq Undeleted(row) \/ "sums" \notin broken
Reads ==
    /\ UNCHANGED <<row, broken, writes>>
    /\ \/ \E a \in Actors, n \in Ids(row) : Get(a, n)
       \/ \E a \in Actors : held' = [held EXCEPT ![a] = None]

LEMMA StepIs ==
    ASSUME Sound, Next
    PROVE  Creates \/ Saves \/ Deletes \/ Recalculates \/ Reads
<1>1. ASSUME NEW p \in Ids(row), NEW size \in Sizes \cup {0},
             NEW type \in Containers \cup {"FILE"}, Create(type, p, size)
      PROVE  Creates
  <2>1. size \in Nat
    BY SizesAssumption
  <2>2. QED BY <1>1, <2>1 DEF Create, Creates, NewNode
<1>2. ASSUME NEW a \in Actors, NEW n \in Ids(row), Get(a, n) PROVE Reads
  BY <1>2 DEF Get, Reads
<1>3. ASSUME NEW a \in Actors, Drop(a) PROVE Reads
  BY <1>3 DEF Drop, Reads
<1>4. ASSUME NEW u \in Users, Rename(u) PROVE Saves
  <2>1. u \in Actors /\ Save(u, held[u].was) /\ held[u] # None
    BY <1>4 DEF Rename, Actors
  <2>2. Savable(held[u].id, held[u].was)
    BY <2>1 DEF Sound, GoodHeld
  <2>3. QED BY <2>1, <2>2 DEF Saves
<1>5. ASSUME NEW u \in Users, Delete(u) PROVE Deletes
  BY <1>5 DEF Deletes
<1>6. ASSUME NEW u \in Users, NEW p \in Ids(row), Move(u, p) PROVE Saves
  <2> DEFINE was == held[u].was
             new == [was EXCEPT !.parent = p]
  <2>1. u \in Actors /\ Save(u, new) /\ held[u] # None /\ ValidParent(row, was.type, p)
    BY <1>6 DEF Move, Actors
  <2>2. Savable(held[u].id, was) /\ was \in Row
    BY <2>1 DEF Sound, GoodHeld, Savable
  <2>3. p \in Nodes
    BY RowIs DEF Sound, GoodTable
  <2>4. /\ new \in Row /\ new.type = was.type /\ new.path = was.path /\ new.count = was.count
        /\ new.parent = p
    BY <2>2, <2>3 DEF Row, RowOf
  <2>5. Savable(held[u].id, new)
    BY <2>1, <2>2, <2>4 DEF Savable
  <2>6. QED BY <2>1, <2>5 DEF Saves
<1>7. ASSUME NEW size \in Sizes, Replace(size) PROVE Saves
  <2> DEFINE was == held["chunked"].was
             new == [was EXCEPT !.size = size]
  <2>1. "chunked" \in Actors /\ Save("chunked", new) /\ held["chunked"] # None
    BY <1>7 DEF Replace, Actors
  <2>2. Savable(held["chunked"].id, was) /\ was \in Row
    BY <2>1 DEF Sound, GoodHeld, Savable
  <2>3. /\ new \in Row /\ new.type = was.type /\ new.path = was.path /\ new.count = was.count
        /\ new.parent = was.parent
    BY <2>2, SizesAssumption DEF Row, RowOf
  <2>4. Savable(held["chunked"].id, new)
    BY <2>2, <2>3 DEF Savable
  <2>5. QED BY <2>1, <2>4 DEF Saves
<1>8. ASSUME Stored PROVE Saves
  <2>1. "hashed" \in Actors /\ Save("hashed", held["hashed"].was) /\ held["hashed"] # None
    BY <1>8 DEF Stored, Actors
  <2>2. Savable(held["hashed"].id, held["hashed"].was)
    BY <2>1 DEF Sound, GoodHeld
  <2>3. QED BY <2>1, <2>2 DEF Saves
<1>9. ASSUME writes < MaxWrites, writes' = writes + 1 PROVE writes' \in 0 .. MaxWrites
  BY <1>9, BoundsAssumption DEF Sound, TypeOK
<1>10. broken \subseteq {"path", "sums", "counts"}
  BY DEF Sound, TypeOK
<1>11. ASSUME Recalculate PROVE Recalculates
  BY <1>9, <1>10, <1>11 DEF Recalculate, Recalculates
<1>12. ASSUME DryRun PROVE Recalculates
  BY <1>9, <1>10, <1>12 DEF DryRun, Recalculates
<1>13. QED
  BY <1>1, <1>2, <1>3, <1>4, <1>5, <1>6, <1>7, <1>8, <1>11, <1>12 DEF Next

(* A table that only grows keeps what is in memory fit to be saved.         *)
LEMMA SoundGrows ==
    ASSUME Sound, GoodTable(row'),
           \A n \in Ids(row) : n \in Ids(row') /\ row'[n].type = row[n].type,
           held' \in [Actors -> Instance \cup {None}],
           \A a \in Actors : held'[a] = held[a] \/ held'[a] = None,
           broken' \subseteq {"path", "sums", "counts"}, writes' \in 0 .. MaxWrites
    PROVE  Sound'
<1>1. /\ \A n, p : GoodPath(row, n, p) => GoodPath(row', n, p)
      /\ \A type, p : ValidParent(row, type, p) => ValidParent(row', type, p)
  BY GrowsKeeps
<1>2. ASSUME NEW a \in Actors PROVE GoodHeld(a)'
  <2>1. CASE held'[a] = None
    BY <2>1 DEF GoodHeld
  <2>2. CASE held'[a] = held[a] /\ held[a] # None
    <3>1. GoodHeld(a)
      BY DEF Sound
    <3>2. /\ held[a] \in Instance /\ Savable(held[a].id, held[a].was)
          /\ a \in {"chunked", "hashed"} => held[a].was.type = "FILE"
      BY <2>2, <3>1 DEF GoodHeld
    <3>3. Savable(held[a].id, held[a].was)'
      BY <1>1, <2>2, <3>2 DEF Savable
    <3>4. QED BY <2>2, <3>2, <3>3 DEF GoodHeld
  <2>3. QED BY <2>1, <2>2
<1>3. row' \in [Nodes -> Row \cup {None}] /\ \A n \in Of(row', {"FILE"}) : row'[n].count = 1
  BY FileCounts DEF GoodTable
<1>4. TypeOK'
  BY <1>3 DEF TypeOK
<1>5. QED BY <1>2, <1>4 DEF Sound

LEMMA DoomedIs == \A was : Doomed(was) \subseteq Ids(row)
BY DEF Doomed, Below, Undeleted

LEMMA BreaksIs == \A n, new : Breaks(n, new) \subseteq {"path", "sums", "counts"}
BY DEF Breaks

(* Every step keeps the types, and the table good.                          *)
LEMMA SoundStep == Sound /\ [Next]_vars => Sound'
<1> SUFFICES ASSUME Sound, [Next]_vars PROVE Sound'
  OBVIOUS
<1>1. /\ GoodTable(row) /\ held \in [Actors -> Instance \cup {None}]
      /\ broken \subseteq {"path", "sums", "counts"} /\ writes \in 0 .. MaxWrites
  BY DEF Sound, TypeOK
<1>2. CASE Creates
  <2>1. PICK p \in Ids(row), size \in Nat, type \in Containers \cup {"FILE"} :
            /\ ValidParent(row, type, p) /\ Nodes \ Ids(row) # {}
            /\ row' = Inserted(NewNode, type, p, size)
            /\ UNCHANGED <<held, broken, writes>>
    BY <1>2 DEF Creates
  <2>2. InsertedTo(NewNode, type, p, size, Inserted(NewNode, type, p, size))
    BY <1>1, <2>1, InsertedIs
  <2>3. InsertedTo(NewNode, type, p, size, row')
    BY <2>1, <2>2
  <2>4. GoodTable(row') /\ \A n \in Ids(row) : n \in Ids(row') /\ row'[n].type = row[n].type
    BY <2>3 DEF InsertedTo
  <2>5. QED BY <1>1, <2>1, <2>4, SoundGrows
<1>3. ASSUME NEW a, held' = [held EXCEPT ![a] = None]
      PROVE  /\ held' \in [Actors -> Instance \cup {None}]
             /\ \A b \in Actors : held'[b] = held[b] \/ held'[b] = None
  BY <1>1, <1>3
<1>4. ASSUME writes < MaxWrites, writes' = writes + 1 PROVE writes' \in 0 .. MaxWrites
  BY <1>1, <1>4, BoundsAssumption
<1>5. CASE Saves
  <2>0. PICK a \in Actors : \E new : Savable(held[a].id, new) /\ Save(a, new)
    BY <1>5 DEF Saves
  <2>1. PICK new : Savable(held[a].id, new) /\ Save(a, new)
    BY <2>0
  <2> DEFINE n == held[a].id
             u == Updated(n, new)
  <2>2. /\ row' = u /\ broken' = broken \cup Breaks(n, new)
        /\ held' = [held EXCEPT ![a] = None] /\ writes < MaxWrites /\ writes' = writes + 1
        /\ Savable(n, new)
    BY <2>1 DEF Save
  <2> HIDE DEF n
  <2>3. u # row => UpdatedTo(n, new, NewRow(n, new), Written(n, new), Resummed(n, new), u)
    BY <1>1, <2>2, UpdatedIs
  <2> HIDE DEF u
  <2>4. GoodTable(u) /\ \A m \in Ids(row) : m \in Ids(u) /\ u[m].type = row[m].type
    <3>1. CASE u = row
      BY <1>1, <3>1
    <3>2. CASE u # row
      BY <2>3, <3>2 DEF UpdatedTo
    <3>3. QED BY <3>1, <3>2
  <2>5. GoodTable(row') /\ \A m \in Ids(row) : m \in Ids(row') /\ row'[m].type = row[m].type
    BY <2>2, <2>4
  <2>6. broken' \subseteq {"path", "sums", "counts"}
    BY <1>1, <2>2, BreaksIs
  <2>7. QED BY <1>3, <1>4, <2>2, <2>5, <2>6, SoundGrows
<1>6. CASE Deletes
  <2>1. PICK a \in Users : Delete(a)
    BY <1>6 DEF Deletes
  <2> DEFINE ds == Doomed(held[a].was)
             u == Deleted(ds)
  <2>2. /\ row' = u \/ row' = row
        /\ held' = [held EXCEPT ![a] = None] /\ writes < MaxWrites /\ writes' = writes + 1
        /\ broken' = broken
    BY <2>1 DEF Delete
  <2>3. ds \in SUBSET Ids(row)
    BY DoomedIs
  <2> HIDE DEF ds
  <2>4. u # row => DeletedTo(ds, u)
    BY <1>1, <2>3, DeletedIs
  <2> HIDE DEF u
  <2>5. CASE row' = row
    BY <1>1, <1>3, <1>4, <2>2, <2>5, SoundGrows
  <2>6. CASE row' # row
    <3>1. DeletedTo(ds, row')
      BY <2>2, <2>4, <2>6
    <3>2. GoodTable(row') /\ \A m \in Ids(row) : m \in Ids(row') /\ row'[m].type = row[m].type
      BY <3>1 DEF DeletedTo
    <3>3. QED BY <1>1, <1>3, <1>4, <2>2, <3>2, SoundGrows
  <2>7. QED BY <2>5, <2>6
<1>7. CASE Recalculates
  <2> DEFINE out == Calculated.out
             u == Recalculated(out)
  <2>1. /\ row' = u /\ held' = held /\ broken' \subseteq {"path", "sums", "counts"}
        /\ writes' \in 0 .. MaxWrites
    BY <1>7 DEF Recalculates
  <2>2. out \in Outs
    BY <1>1, CalculatedTypes
  <2> HIDE DEF out
  <2>3. GoodTable(u) /\ \A m \in Ids(row) : m \in Ids(u) /\ u[m].type = row[m].type
    BY <1>1, <2>2, RecalculatedIs
  <2> HIDE DEF u
  <2>4. GoodTable(row') /\ \A m \in Ids(row) : m \in Ids(row') /\ row'[m].type = row[m].type
    BY <2>1, <2>3
  <2>5. QED BY <1>1, <2>1, <2>4, SoundGrows
<1>8. CASE Reads
  <2>1. row' = row /\ broken' = broken /\ writes' = writes
    BY <1>8 DEF Reads
  <2>2. GoodTable(row') /\ \A m \in Ids(row) : m \in Ids(row') /\ row'[m].type = row[m].type
    BY <1>1, <2>1
  <2>3. ASSUME NEW a, held' = [held EXCEPT ![a] = None] PROVE Sound'
    BY <1>1, <1>3, <2>1, <2>2, <2>3, SoundGrows
  <2>4. ASSUME NEW a \in Actors, NEW n \in Ids(row), Get(a, n) PROVE Sound'
    <3> DEFINE it == [id |-> n, was |-> row[n]]
    <3>1. /\ held' = [held EXCEPT ![a] = it]
          /\ a = "chunked" => n \in Of(row, {"FILE"})
          /\ a = "hashed" => n \in Of(row, {"FILE"})
      BY <2>4 DEF Get
    <3>2. it \in Instance /\ row[n] \in Row
      BY <1>1, RowIs DEF Instance, GoodTable
    <3>3. held' \in [Actors -> Instance \cup {None}]
      BY <1>1, <3>1, <3>2
    <3>4. Savable(n, row[n])
      BY <1>1, <3>2 DEF Savable, GoodTable
    <3>5. Savable(n, row[n])'
      <4>1. row' = row
        BY <2>1
      <4>2. QED BY <3>4, <4>1 DEF Savable
    <3>6. ASSUME NEW b \in Actors PROVE GoodHeld(b)'
      <4>1. CASE b = a
        <5>1. held'[b] = it
          BY <1>1, <3>1, <4>1
        <5>2. b \in {"chunked", "hashed"} => row[n].type = "FILE"
          BY <3>1, <4>1 DEF Of
        <5>3. held'[b].id = n /\ held'[b].was = row[n]
          BY <5>1
        <5>4. Savable(held[b].id, held[b].was)'
          BY <2>1, <3>4, <5>3 DEF Savable
        <5> HIDE DEF it
        <5>5. QED BY <3>2, <5>1, <5>2, <5>3, <5>4 DEF GoodHeld
      <4>2. CASE b # a
        <5>1. held'[b] = held[b]
          BY <1>1, <3>1, <4>2
        <5>2. GoodHeld(b)
          BY DEF Sound
        <5>3. QED BY <2>1, <5>1, <5>2 DEF GoodHeld, Savable
      <4>3. QED BY <4>1, <4>2
    <3>7. \A m \in Of(row', {"FILE"}) : row'[m].count = 1
      BY <2>2, FileCounts
    <3>8. TypeOK'
      BY <1>1, <2>1, <3>3, <3>7 DEF TypeOK, GoodTable
    <3>9. QED BY <2>2, <3>6, <3>8 DEF Sound
  <2>5. QED BY <1>8, <2>3, <2>4 DEF Reads
<1>9. CASE UNCHANGED vars
  <2>1. row' = row /\ held' = held /\ broken' = broken /\ writes' = writes
    BY <1>9 DEF vars
  <2>2. GoodTable(row') /\ \A m \in Ids(row) : m \in Ids(row') /\ row'[m].type = row[m].type
    BY <1>1, <2>1
  <2>3. QED BY <1>1, <2>1, <2>2, SoundGrows
<1>10. QED BY <1>2, <1>5, <1>6, <1>7, <1>8, <1>9, StepIs

LEMMA AlwaysSound == Spec => []Sound
BY SoundInit, SoundStep, PTL DEF Spec

(* Whatever the requests, the daemons and the command write over each       *)
(* other, the columns keep their types: no size or count goes below zero,   *)
(* and the file_count of a file stays 1.                                    *)
THEOREM TypeCorrect == Spec => []TypeOK
<1>1. Sound => TypeOK
  BY DEF Sound
<1>2. QED BY <1>1, AlwaysSound, PTL

-----------------------------------------------------------------------------
(* Paths.                                                                   *)

LEMMA PathsKept ==
    ASSUME GoodTable(row), PathsRight(row), NEW u, Ids(u) = Ids(row),
           \A m \in Ids(row) : u[m].parent = row[m].parent /\ u[m].path = row[m].path
    PROVE  PathsRight(u)
<1>1. \A m \in Ids(row) : row[m].parent # None => row[m].parent \in Ids(row)
  BY DEF GoodTable, ValidParent
<1>2. QED BY <1>1 DEF PathsRight

LEMMA PathsInserted ==
    ASSUME GoodTable(row), PathsRight(row), NEW n, NEW type, NEW p, NEW size, NEW u,
           InsertedTo(n, type, p, size, u)
    PROVE  PathsRight(u)
<1>1. \A m \in Ids(row) : row[m].parent # None => row[m].parent \in Ids(row)
  BY DEF GoodTable, ValidParent
<1>2. ASSUME NEW m \in Ids(row)
      PROVE  u[m].path = IF u[m].parent = None THEN <<m>> ELSE Append(u[u[m].parent].path, m)
  BY <1>1 DEF PathsRight, InsertedTo
<1>3. p \in Ids(row) /\ p # None
  BY RowIs, NoneAssumption DEF InsertedTo, Of, GoodTable
<1>4. u[n].parent = p /\ u[n].path = Append(row[p].path, n) /\ u[p].path = row[p].path
  BY <1>3 DEF InsertedTo
<1>5. Ids(u) = Ids(row) \cup {n}
  BY DEF InsertedTo
<1>6. QED BY <1>2, <1>3, <1>4, <1>5 DEF PathsRight

LEMMA GraftAppends ==
    ASSUME NEW w \in Seq(Nodes), NEW q \in Seq(Nodes), NEW m \in Nodes, NEW l \in 0 .. Len(q)
    PROVE  w \o SubSeq(Append(q, m), l + 1, Len(Append(q, m)))
             = Append(w \o SubSeq(q, l + 1, Len(q)), m)
<1> DEFINE a == Append(q, m)
           x == SubSeq(a, l + 1, Len(a))
           y == SubSeq(q, l + 1, Len(q))
<1>1. PICK k \in Nat : k = Len(q)
  OBVIOUS
<1>2. PICK j \in Nat : j = Len(w)
  OBVIOUS
<1>3. /\ a \in Seq(Nodes) /\ Len(a) = k + 1 /\ a[k + 1] = m
      /\ \A i \in 1 .. k : a[i] = q[i]
  BY <1>1
<1> HIDE DEF a
<1>4. /\ x \in Seq(Nodes) /\ Len(x) = k + 1 - l
      /\ \A i \in 1 .. k + 1 - l : x[i] = a[l + i]
  BY <1>1, <1>3
<1>5. /\ y \in Seq(Nodes) /\ Len(y) = k - l
      /\ \A i \in 1 .. k - l : y[i] = q[l + i]
  BY <1>1
<1> HIDE DEF x, y
<1> DEFINE u == w \o x
           v == w \o y
           z == Append(v, m)
<1>6. /\ u \in Seq(Nodes) /\ Len(u) = j + (k + 1 - l)
      /\ \A i \in 1 .. j : u[i] = w[i]
      /\ \A i \in j + 1 .. j + (k + 1 - l) : u[i] = x[i - j]
  BY <1>2, <1>4
<1>7. /\ v \in Seq(Nodes) /\ Len(v) = j + (k - l)
      /\ \A i \in 1 .. j : v[i] = w[i]
      /\ \A i \in j + 1 .. j + (k - l) : v[i] = y[i - j]
  BY <1>2, <1>5, <1>1
<1> HIDE DEF u, v
<1>8. PICK h \in Nat : h = j + (k - l)
  <2>1. j + (k - l) \in Nat
    BY <1>1
  <2>2. QED BY <2>1, Zenon
<1>9. Len(v) = h
  BY <1>7, <1>8
<1>10. /\ z \in Seq(Nodes) /\ Len(z) = h + 1 /\ z[h + 1] = m /\ \A i \in 1 .. h : z[i] = v[i]
  BY <1>7, <1>9
<1>11. /\ z \in Seq(Nodes) /\ Len(z) = j + (k - l) + 1 /\ z[j + (k - l) + 1] = m
      /\ \A i \in 1 .. j + (k - l) : z[i] = v[i]
  BY <1>8, <1>10
<1> HIDE DEF z
<1>12. Len(u) = Len(z) /\ \A i \in 1 .. Len(u) : u[i] = z[i]
  <2>1. Len(u) = j + (k - l) + 1 /\ Len(z) = j + (k - l) + 1
    BY <1>6, <1>11, <1>1
  <2>2. ASSUME NEW i \in 1 .. j + (k - l) + 1 PROVE u[i] = z[i]
    <3>1. CASE i \in 1 .. j
      <4>1. i \in 1 .. j + (k - l)
        BY <1>1, <3>1
      <4>2. u[i] = w[i] /\ v[i] = w[i] /\ z[i] = v[i]
        BY <1>6, <1>7, <1>11, <3>1, <4>1
      <4>3. QED BY <4>2
    <3>2. CASE i \in j + 1 .. j + (k - l)
      <4>1. i - j \in 1 .. k - l /\ l + (i - j) \in 1 .. k
        BY <1>1, <3>2
      <4>2. u[i] = x[i - j] /\ x[i - j] = a[l + (i - j)]
        BY <1>1, <1>4, <1>6, <3>2, <4>1
      <4>3. z[i] = v[i] /\ v[i] = y[i - j] /\ y[i - j] = q[l + (i - j)]
        <5>1. i \in 1 .. j + (k - l)
          BY <1>1, <3>2
        <5>2. z[i] = v[i]
          BY <1>11, <5>1
        <5>3. v[i] = y[i - j]
          BY <1>7, <3>2
        <5>4. QED BY <1>5, <4>1, <5>2, <5>3
      <4>4. QED BY <1>3, <4>1, <4>2, <4>3
    <3>3. CASE i = j + (k - l) + 1
      <4>1. i - j = k + 1 - l /\ k + 1 - l \in 1 .. k + 1 - l /\ l + (k + 1 - l) = k + 1
        BY <1>1, <3>3
      <4>2. u[i] = x[i - j]
        BY <1>1, <1>6, <3>3
      <4>3. u[i] = a[k + 1]
        BY <1>4, <4>1, <4>2
      <4>4. QED BY <1>3, <1>11, <3>3, <4>3
    <3>4. QED BY <1>1, <3>1, <3>2, <3>3
  <2>3. QED BY <2>1, <2>2
<1>13. u = z
  BY <1>6, <1>11, <1>12, SeqEqual
<1>14. QED BY <1>13 DEF a, x, y, u, v, z

(* Nothing is written below itself.                                         *)
LEMMA NotBelowItself ==
    ASSUME NEW q \in Seq(Nodes), NEW n \in Nodes, NEW w, w.path = Append(q, n), ~Endless(n, w)
    PROVE  n \notin Range(q)
<1>1. Append(q, n) \in Seq(Nodes) /\ Append(q, n) # <<>> /\ Front(Append(q, n)) = q
  BY DEF Front
<1>2. Front(w.path) = q
  BY <1>1
<1>3. QED BY <1>2 DEF Endless

LEMMA NonePrefix ==
    ASSUME NEW T, NEW w \in Seq(T), NEW p \in Seq(T), IsPrefix(w, p)
    PROVE  w \o SubSeq(p, Len(w) + 1, Len(p)) = p
<1>1. PICK k \in Nat : k = Len(p)
  OBVIOUS
<1>2. PICK j \in Nat : j = Len(w)
  OBVIOUS
<1>3. j <= k /\ \A i \in 1 .. j : w[i] = p[i]
  BY <1>1, <1>2, PrefixIs
<1> DEFINE x == SubSeq(p, j + 1, k)
           u == w \o x
<1>4. x \in Seq(T) /\ Len(x) = k - j /\ \A i \in 1 .. k - j : x[i] = p[j + i]
  BY <1>1, <1>3
<1> HIDE DEF x
<1>5. /\ u \in Seq(T) /\ Len(u) = j + (k - j) /\ \A i \in 1 .. j : u[i] = w[i]
      /\ \A i \in j + 1 .. j + (k - j) : u[i] = x[i - j]
  BY <1>2, <1>4
<1> HIDE DEF u
<1>6. Len(u) = k
  BY <1>3, <1>5
<1>7. ASSUME NEW i \in 1 .. k PROVE u[i] = p[i]
  <2>1. CASE i <= j
    BY <1>3, <1>5, <2>1
  <2>2. CASE i > j
    <3>1. i - j \in 1 .. k - j /\ j + (i - j) = i /\ i \in j + 1 .. j + (k - j)
      BY <1>3, <2>2
    <3>2. u[i] = x[i - j] /\ x[i - j] = p[j + (i - j)]
      BY <1>4, <1>5, <3>1
    <3>3. QED BY <3>1, <3>2
  <2>3. QED BY <2>1, <2>2
<1>8. u = p
  BY <1>1, <1>5, <1>6, <1>7, SeqEqual
<1>9. QED BY <1>1, <1>2, <1>8 DEF u, x

(* A save under the same parent leaves all paths alone, unless it writes    *)
(* another one.                                                             *)
LEMMA SavedPaths ==
    ASSUME GoodTable(row), NEW n, NEW new, Savable(n, new),
           Updated(n, new) # row, "path" \notin Breaks(n, new), row[n].parent = new.parent
    PROVE  /\ NewRow(n, new) = new /\ new.path = row[n].path
           /\ \A m \in Ids(row) : /\ Updated(n, new)[m].parent = row[m].parent
                                 /\ Updated(n, new)[m].path = row[m].path
<1> DEFINE u == Updated(n, new)
           t == Written(n, new)
           a == Resummed(n, new)
<1>1. UpdatedTo(n, new, NewRow(n, new), t, a, u)
  BY UpdatedIs
<1>2. n \in Ids(row) /\ NewRow(n, new) = new /\ new.path = row[n].path
  BY DEF Savable, NewRow, WithPath, Breaks
<1> HIDE DEF u, t, a
<1>3. /\ t[n] = new /\ \A m \in Ids(row) : m # n => t[m] = row[m]
      /\ \A m \in Ids(row) :
          /\ u[m].parent = t[m].parent
          /\ u[m].path = IF m # n /\ IsPrefix(row[n].path, t[m].path)
               THEN new.path \o SubSeq(t[m].path, Len(row[n].path) + 1, Len(t[m].path))
               ELSE t[m].path
  BY <1>1, <1>2 DEF UpdatedTo
<1>4. \A m \in Ids(row) : row[m].path \in Seq(Nodes)
  BY RowIs DEF GoodTable
<1>5. ASSUME NEW m \in Ids(row)
      PROVE  u[m].parent = row[m].parent /\ u[m].path = row[m].path
  <2>1. CASE m = n
    BY <1>2, <1>3, <2>1
  <2>2. CASE m # n
    <3>1. t[m] = row[m] /\ u[m].parent = row[m].parent
      BY <1>3, <2>2
    <3>2. CASE IsPrefix(row[n].path, row[m].path)
      <4>1. u[m].path = row[n].path \o SubSeq(row[m].path, Len(row[n].path) + 1, Len(row[m].path))
        BY <1>2, <1>3, <2>2, <3>1, <3>2
      <4>2. QED BY <1>2, <1>4, <3>1, <3>2, <4>1, NonePrefix
    <3>3. CASE ~IsPrefix(row[n].path, row[m].path)
      BY <1>3, <2>2, <3>1, <3>3
    <3>4. QED BY <3>2, <3>3
  <2>3. QED BY <2>1, <2>2
<1>6. QED BY <1>2, <1>5 DEF u

(* A save that moves nothing else's path keeps all paths right: what is     *)
(* below the node keeps its way up to it, and gets its new path before.     *)
LEMMA PathsUpdated ==
    ASSUME GoodTable(row), PathsRight(row), NEW n, NEW new, Savable(n, new),
           Updated(n, new) # row, "path" \notin Breaks(n, new)
    PROVE  PathsRight(Updated(n, new))
<1> DEFINE u == Updated(n, new)
           w == NewRow(n, new)
           t == Written(n, new)
           a == Resummed(n, new)
<1>1. UpdatedTo(n, new, w, t, a, u)
  BY UpdatedIs
<1>2. n \in Ids(row) /\ new \in Row /\ ValidParent(row, new.type, new.parent)
  BY DEF Savable
<1>3. /\ w \in Row /\ GoodPath(row, n, w.path)
      /\ w.parent = new.parent
      /\ row[n].parent # new.parent =>
            /\ w.path = Append(row[new.parent].path, n)
            /\ new.parent \in Of(row, Containers)
  <2>1. w = WithPath(n, row[n], new)
    BY DEF NewRow
  <2> HIDE DEF w
  <2>2. QED BY <2>1, WithPathIs
<1> HIDE DEF u, w, t, a
<1>4. /\ t[n] = w /\ Ids(u) = Ids(row) /\ GoodTable(u)
      /\ \A m \in Ids(row) : m # n => t[m] = row[m]
      /\ \A m \in Ids(row) :
          /\ u[m].parent = t[m].parent
          /\ u[m].path = IF m # n /\ IsPrefix(row[n].path, t[m].path)
               THEN w.path \o SubSeq(t[m].path, Len(row[n].path) + 1, Len(t[m].path))
               ELSE t[m].path
  BY <1>1 DEF UpdatedTo
<1>5. \A m \in Ids(row) : row[m].path \in Seq(Nodes)
  BY RowIs DEF GoodTable
<1>6. CASE row[n].parent = new.parent
  <2>1. \A m \in Ids(row) : u[m].parent = row[m].parent /\ u[m].path = row[m].path
    BY <1>6, SavedPaths DEF u
  <2>2. PathsRight(u)
    BY <1>4, <2>1, PathsKept
  <2>3. QED BY <2>2 DEF u
<1>7. CASE row[n].parent # new.parent
  <2> DEFINE p == new.parent
  <2>1. w.path = Append(row[p].path, n) /\ p \in Ids(row) /\ p # None /\ w.parent = p
    BY <1>3, <1>7, RowIs, NoneAssumption DEF Of, GoodTable
  <2> HIDE DEF p
  <2>2. n \notin On(row, p)
    <3>1. ~Endless(n, w)
      BY <1>1 DEF UpdatedTo
    <3>2. n \in Nodes
      BY <1>2, RowIs DEF GoodTable
    <3>3. QED BY <1>5, <2>1, <3>1, <3>2, NotBelowItself DEF On
  <2>3. p # n
    BY <1>2, <2>2, OnPath
  <2>4. \A m \in Ids(row) : IsPrefix(row[n].path, row[m].path) <=> n \in On(row, m)
    BY <1>2, PrefixOn
  <2>5. u[n].path = w.path /\ u[n].parent = p
    BY <1>2, <1>4, <2>1
  <2>6. ASSUME NEW m \in Ids(row), m # n
        PROVE  /\ u[m].parent = row[m].parent
               /\ u[m].path = IF n \in On(row, m)
                    THEN w.path \o SubSeq(row[m].path, Len(row[n].path) + 1, Len(row[m].path))
                    ELSE row[m].path
    BY <1>4, <2>4, <2>6
  <2>7. ASSUME NEW m \in Ids(row)
        PROVE  u[m].path = IF u[m].parent = None THEN <<m>> ELSE Append(u[u[m].parent].path, m)
    <3>1. CASE m = n
      <4>1. u[p].path = row[p].path
        BY <2>1, <2>2, <2>3, <2>6
      <4>2. QED BY <2>1, <2>5, <3>1, <4>1
    <3>2. CASE m # n /\ row[m].parent = None
      <4>1. On(row, m) = {m} /\ row[m].path = <<m>>
        BY <3>2, OnParent DEF PathsRight
      <4>2. QED BY <2>6, <3>2, <4>1
    <3>3. CASE m # n /\ row[m].parent # None
      <4> DEFINE q == row[m].parent
      <4>1. /\ q \in Ids(row) /\ On(row, m) = On(row, q) \cup {m}
            /\ row[m].path = Append(row[q].path, m)
        BY <3>3, OnParent DEF Of, PathsRight
      <4>2. u[m].parent = q /\ q # None
        BY <2>6, <3>3
      <4>3. m \in Nodes /\ row[q].path \in Seq(Nodes) /\ w.path \in Seq(Nodes)
        BY <1>3, <1>5, <4>1, RowIs DEF GoodTable, Row, RowOf
      <4> HIDE DEF q
      <4>4. CASE n \in On(row, q)
        <5> DEFINE l == Len(row[n].path)
        <5>1. IsPrefix(row[n].path, row[q].path)
          BY <2>4, <4>1, <4>4
        <5>2. l \in 0 .. Len(row[q].path)
          BY <1>2, <1>5, <4>3, <5>1, PrefixIs
        <5> HIDE DEF l
        <5>3. w.path \o SubSeq(row[m].path, l + 1, Len(row[m].path))
                = Append(w.path \o SubSeq(row[q].path, l + 1, Len(row[q].path)), m)
          <6> DEFINE r == row[q].path  v == w.path
          <6>1. r \in Seq(Nodes) /\ v \in Seq(Nodes) /\ m \in Nodes /\ l \in 0 .. Len(r)
            BY <4>3, <5>2
          <6> HIDE DEF r, v
          <6>2. v \o SubSeq(Append(r, m), l + 1, Len(Append(r, m)))
                  = Append(v \o SubSeq(r, l + 1, Len(r)), m)
            <7>1. \A x, y \in Seq(Nodes), z \in Nodes : \A k \in 0 .. Len(y) :
                    x \o SubSeq(Append(y, z), k + 1, Len(Append(y, z)))
                      = Append(x \o SubSeq(y, k + 1, Len(y)), z)
              BY GraftAppends
            <7>2. QED BY <6>1, <7>1
          <6>3. QED BY <4>1, <6>2 DEF r, v
        <5>4. u[m].path = w.path \o SubSeq(row[m].path, l + 1, Len(row[m].path))
          BY <2>6, <3>3, <4>1, <4>4 DEF l
        <5>5. u[q].path = w.path \o SubSeq(row[q].path, l + 1, Len(row[q].path))
          <6>1. CASE q # n
            BY <2>6, <4>1, <4>4, <6>1 DEF l
          <6>2. CASE q = n
            <7>1. SubSeq(row[q].path, l + 1, Len(row[q].path)) = <<>>
              <8>1. l = Len(row[q].path)
                BY <6>2 DEF l
              <8>2. QED BY <4>3, <8>1, SubSeqProperties
            <7>2. w.path \o <<>> = w.path
              BY <4>3, ConcatEmptySeq
            <7>3. QED BY <2>5, <6>2, <7>1, <7>2
          <6>3. QED BY <6>1, <6>2
        <5>6. QED BY <4>2, <5>3, <5>4, <5>5
      <4>5. CASE n \notin On(row, q)
        <5>1. q # n /\ n \notin On(row, m)
          BY <3>3, <4>1, <4>5, OnPath
        <5>2. u[m].path = row[m].path /\ u[q].path = row[q].path
          BY <2>6, <3>3, <4>1, <4>5, <5>1
        <5>3. QED BY <4>1, <4>2, <5>2
      <4>6. QED BY <4>4, <4>5
    <3>4. QED BY <3>1, <3>2, <3>3
  <2>8. PathsRight(u)
    BY <1>4, <2>7 DEF PathsRight
  <2>9. QED BY <2>8 DEF u
<1>8. QED BY <1>6, <1>7

LEMMA PathsStep == Sound /\ PathFollowsParent /\ [Next]_vars => PathFollowsParent'
<1> SUFFICES ASSUME Sound, PathFollowsParent, [Next]_vars, "path" \notin broken'
             PROVE  PathsRight(row')
  BY DEF PathFollowsParent
<1>1. GoodTable(row) /\ broken \subseteq {"path", "sums", "counts"}
  BY DEF Sound, TypeOK
<1>2. CASE row' = row /\ broken' = broken
  <2>1. PathsRight(row)
    BY <1>2 DEF PathFollowsParent
  <2>2. QED BY <1>2, <2>1
<1>3. CASE Creates
  <2>1. PICK p \in Ids(row), size \in Nat, type \in Containers \cup {"FILE"} :
            /\ ValidParent(row, type, p) /\ Nodes \ Ids(row) # {}
            /\ row' = Inserted(NewNode, type, p, size)
            /\ UNCHANGED <<held, broken, writes>>
    BY <1>3 DEF Creates
  <2>2. InsertedTo(NewNode, type, p, size, Inserted(NewNode, type, p, size))
    BY <1>1, <2>1, InsertedIs
  <2>3. InsertedTo(NewNode, type, p, size, row')
    BY <2>1, <2>2
  <2>4. PathsRight(row)
    BY <2>1 DEF PathFollowsParent
  <2>5. QED BY <1>1, <2>3, <2>4, PathsInserted
<1>4. CASE Saves
  <2>0. PICK a \in Actors : \E new : Savable(held[a].id, new) /\ Save(a, new)
    BY <1>4 DEF Saves
  <2>1. PICK new : Savable(held[a].id, new) /\ Save(a, new)
    BY <2>0
  <2> DEFINE n == held[a].id
             u == Updated(n, new)
  <2>2. /\ row' = u /\ broken' = broken \cup Breaks(n, new) /\ Savable(n, new)
    BY <2>1 DEF Save
  <2>3. PathsRight(row) /\ "path" \notin Breaks(n, new)
    BY <2>2 DEF PathFollowsParent
  <2> HIDE DEF n
  <2>4. u # row => PathsRight(u)
    BY <1>1, <2>2, <2>3, PathsUpdated
  <2>5. QED BY <2>2, <2>3, <2>4
<1>5. CASE Deletes
  <2>1. PICK a \in Users : Delete(a)
    BY <1>5 DEF Deletes
  <2> DEFINE ds == Doomed(held[a].was)
             u == Deleted(ds)
  <2>2. (row' = u \/ row' = row) /\ broken' = broken
    BY <2>1 DEF Delete
  <2>3. PathsRight(row)
    BY <2>2 DEF PathFollowsParent
  <2>4. ds \in SUBSET Ids(row)
    BY DoomedIs
  <2> HIDE DEF ds
  <2>5. u # row => DeletedTo(ds, u)
    BY <1>1, <2>4, DeletedIs
  <2> HIDE DEF u
  <2>6. u # row => PathsRight(u)
    BY <1>1, <2>3, <2>5, PathsKept DEF DeletedTo
  <2>7. QED BY <2>2, <2>3, <2>6
<1>6. CASE Recalculates
  <2> DEFINE out == Calculated.out
             u == Recalculated(out)
  <2>1. row' = u /\ ("path" \in broken' <=> "path" \in broken)
    BY <1>6 DEF Recalculates
  <2>2. PathsRight(row)
    BY <2>1 DEF PathFollowsParent
  <2>3. out \in Outs
    BY <1>1, CalculatedTypes
  <2> HIDE DEF out
  <2>4. /\ Ids(u) = Ids(row)
        /\ \A m \in Ids(row) : u[m].parent = row[m].parent /\ u[m].path = row[m].path
    BY <1>1, <2>3, RecalculatedIs
  <2> HIDE DEF u
  <2>5. PathsRight(u)
    BY <1>1, <2>2, <2>4, PathsKept
  <2>6. QED BY <2>1, <2>5
<1>7. Reads => row' = row /\ broken' = broken
  BY DEF Reads
<1>8. UNCHANGED vars => row' = row /\ broken' = broken
  BY DEF vars
<1>9. QED BY <1>2, <1>3, <1>4, <1>5, <1>6, <1>7, <1>8, StepIs

(* Moves with everything below them, in whatever order, keep the path of    *)
(* each node that of its parent and itself: only a save by someone who read *)
(* a node before a folder above it moved can leave another path.            *)
THEOREM PathIsFollowed == Spec => []PathFollowsParent
<1>1. Init => PathFollowsParent
  BY TreeAssumption DEF Init, PathFollowsParent
<1>2. QED BY <1>1, AlwaysSound, PathsStep, PTL DEF Spec

-----------------------------------------------------------------------------
(* Totals: sizes and counts alike are sums of weights below a container.    *)

LEMMA SumZero ==
    ASSUME NEW t, NEW S, IsFiniteSet(S), \A x \in S : t[x].size = 0
    PROVE  SumOf(t, S) = 0
<1> DEFINE g == [x \in S |-> t[x].size]
           h == CHOOSE e : IsSum(e, g, S)
           z == [s \in SUBSET S |-> 0]
<1>1. SumOf(t, S) = h[S]
  BY SumIs
<1>2. \A x \in S : g[x] = 0
  OBVIOUS
<1> HIDE DEF g
<1>3. IsSum(h, g, S)
  <2>1. \E e : IsSum(e, g, S)
    BY SumExists
  <2>2. QED BY <2>1, Zenon
<1>4. IsSum(z, g, S)
  <2>1. ASSUME NEW s \in SUBSET S, s # {}
        PROVE  z[s] = g[CHOOSE x \in s : TRUE] + z[s \ {CHOOSE x \in s : TRUE}]
    BY <1>2, <2>1
  <2>2. \A s \in SUBSET S : z[s] = IF s = {} THEN 0
            ELSE g[CHOOSE x \in s : TRUE] + z[s \ {CHOOSE x \in s : TRUE}]
    <3>1. ASSUME NEW s \in SUBSET S
          PROVE  z[s] = IF s = {} THEN 0
                   ELSE g[CHOOSE x \in s : TRUE] + z[s \ {CHOOSE x \in s : TRUE}]
      <4>1. z[s] = 0
        OBVIOUS
      <4> HIDE DEF z
      <4>2. CASE s = {}
        BY <4>1, <4>2
      <4>3. CASE s # {}
        BY <2>1, <4>3
      <4>4. QED BY <4>2, <4>3
    <3>2. QED BY <3>1
  <2>3. z = [s \in SUBSET S |-> z[s]]
    OBVIOUS
  <2> HIDE DEF z
  <2>4. QED BY <2>2, <2>3 DEF IsSum
<1>5. z[S] = 0
  OBVIOUS
<1> HIDE DEF h, z
<1>6. h[S] = z[S]
  BY <1>3, <1>4, SumsAgree
<1>7. QED BY <1>1, <1>5, <1>6

LEMMA SumOnes ==
    ASSUME NEW t, NEW S, IsFiniteSet(S), \A x \in S : t[x].size = 1
    PROVE  SumOf(t, S) = Cardinality(S)
<1> DEFINE g == [x \in S |-> t[x].size]
           h == CHOOSE e : IsSum(e, g, S)
<1>1. SumOf(t, S) = h[S]
  BY SumIs
<1>2. \A x \in S : g[x] = 1
  OBVIOUS
<1> HIDE DEF g
<1>3. IsSum(h, g, S)
  <2>1. \E e : IsSum(e, g, S)
    BY SumExists
  <2>2. QED BY <2>1, Zenon
<1> HIDE DEF h
<1>4. h[S] = Cardinality(S)
  BY <1>2, <1>3, SumIsCount
<1>5. QED BY <1>1, <1>4

LEMMA SumSome ==
    ASSUME NEW t, NEW W, NEW S, NEW R \in SUBSET S, IsFiniteSet(S),
           \A x \in R : t[x].size \in Nat /\ W[x].size = t[x].size,
           \A x \in S : x \notin R => W[x].size = 0
    PROVE  SumOf(W, S) = SumOf(t, R)
<1> DEFINE B == S \ R
<1>1. IsFiniteSet(R) /\ IsFiniteSet(B) /\ R \cap B = {} /\ R \cup B = S
  BY FS_Subset
<1>2. \A x \in B : W[x].size = 0
  OBVIOUS
<1> HIDE DEF B
<1>3. \A x \in R \cup B : W[x].size \in Nat
  BY <1>2
<1>4. SumOf(W, R \cup B) = SumOf(W, R) + SumOf(W, B)
  BY <1>1, <1>3, SumUnion
<1>5. SumOf(W, R) = SumOf(t, R)
  BY <1>1, SumSame
<1>6. SumOf(W, B) = 0
  BY <1>1, <1>2, SumZero
<1>7. SumOf(W, R) \in Nat
  BY <1>1, <1>3, SumFacts
<1>8. SumOf(W, R \cup B) = SumOf(t, R)
  BY <1>4, <1>5, <1>6, <1>7
<1>9. QED BY <1>1, <1>8

(* What a node adds to the containers above it.                             *)
FileSizes(t) ==
    [n \in Nodes |-> [size |-> IF n \in Undeleted(t) \cap Of(t, {"FILE"})
                                 THEN t[n].size ELSE 0]]
Ones(t) ==
    [n \in Nodes |-> [size |-> IF n \in Undeleted(t) \cap Of(t, Counted) THEN 1 ELSE 0]]

Totals(t, W, v) == \A c \in Of(t, Containers) : v[c] = SumOf(W, Under(t, c))
Sized(t) == [n \in Nodes |-> t[n].size]
Numbered(t) == [n \in Nodes |-> t[n].count]

LEMMA UnderIsFinite ==
    ASSUME NEW t, GoodTable(t), NEW n
    PROVE  /\ Under(t, n) \subseteq Ids(t) /\ Under(t, n) \subseteq Nodes
           /\ IsFiniteSet(Under(t, n))
<1>1. Under(t, n) \subseteq Ids(t)
  BY DEF Under, Below
<1>2. QED BY <1>1, IdsAreFinite, FS_Subset

LEMMA WeightsAre ==
    ASSUME NEW t, GoodTable(t)
    PROVE  /\ \A n \in Nodes : FileSizes(t)[n].size \in Nat /\ Ones(t)[n].size \in Nat
           /\ \A n \in Ids(t) :
                 /\ FileSizes(t)[n].size = IF ~t[n].deleted /\ t[n].type = "FILE"
                                             THEN t[n].size ELSE 0
                 /\ Ones(t)[n].size = IF ~t[n].deleted /\ t[n].type \in Counted
                                        THEN 1 ELSE 0
<1>1. \A n \in Undeleted(t) : t[n].size \in Nat
  BY RowIs DEF GoodTable, Undeleted
<1>2. Ids(t) \subseteq Nodes
  BY IdsAreFinite
<1>3. QED BY <1>1, <1>2 DEF FileSizes, Ones, Undeleted, Of

LEMMA FilesWeigh ==
    ASSUME NEW t, GoodTable(t), NEW c
    PROVE  SumOf(FileSizes(t), Under(t, c))
             = SumOf(t, Under(t, c) \cap Undeleted(t) \cap Of(t, {"FILE"}))
<1> DEFINE F == Undeleted(t) \cap Of(t, {"FILE"})
           S == Under(t, c)
           W == FileSizes(t)
           R == S \cap F
<1>1. IsFiniteSet(S) /\ S \subseteq Nodes
  BY UnderIsFinite
<1>2. \A x \in F : t[x].size \in Nat
  BY RowIs DEF GoodTable, Undeleted
<1>3. /\ R \in SUBSET S
      /\ \A x \in R : t[x].size \in Nat /\ W[x].size = t[x].size
      /\ \A x \in S : x \notin R => W[x].size = 0
  BY <1>1, <1>2 DEF FileSizes
<1>4. R = S \cap Undeleted(t) \cap Of(t, {"FILE"})
  OBVIOUS
<1> HIDE DEF S, W, F, R
<1>5. SumOf(W, S) = SumOf(t, R)
  BY <1>1, <1>3, SumSome
<1>6. QED BY <1>4, <1>5 DEF S, W

LEMMA OnesWeigh ==
    ASSUME NEW t, GoodTable(t), NEW c
    PROVE  SumOf(Ones(t), Under(t, c))
             = Cardinality(Under(t, c) \cap Undeleted(t) \cap Of(t, Counted))
<1> DEFINE F == Undeleted(t) \cap Of(t, Counted)
           S == Under(t, c)
           W == Ones(t)
           R == S \cap F
<1>1. IsFiniteSet(S) /\ S \subseteq Nodes
  BY UnderIsFinite
<1>2. /\ R \in SUBSET S /\ \A x \in R : W[x].size = 1
      /\ \A x \in S : x \notin R => W[x].size = 0
  BY <1>1 DEF Ones
<1>3. R = S \cap Undeleted(t) \cap Of(t, Counted)
  OBVIOUS
<1> HIDE DEF S, W, F, R
<1>4. SumOf(W, S) = SumOf(W, R)
  <2>1. \A x \in R : W[x].size \in Nat /\ W[x].size = W[x].size
    BY <1>2
  <2>2. QED BY <1>1, <1>2, <2>1, SumSome
<1>5. IsFiniteSet(R)
  BY <1>1, <1>2, FS_Subset
<1>6. SumOf(W, R) = Cardinality(R)
  BY <1>2, <1>5, SumOnes
<1>7. QED BY <1>3, <1>4, <1>6 DEF S, W

LEMMA SizesAreTotals ==
    ASSUME NEW t, GoodTable(t)
    PROVE  SizesRight(t) <=> Totals(t, FileSizes(t), Sized(t))
<1>1. \A c \in Of(t, Containers) : Sized(t)[c] = t[c].size
  BY IdsAreFinite DEF Sized, Of
<1>2. \A c : SumOf(FileSizes(t), Under(t, c))
               = SumOf(t, Under(t, c) \cap Undeleted(t) \cap Of(t, {"FILE"}))
  BY FilesWeigh
<1>3. QED BY <1>1, <1>2 DEF SizesRight, Totals

LEMMA CountsAreTotals ==
    ASSUME NEW t, GoodTable(t)
    PROVE  CountsRight(t) <=> Totals(t, Ones(t), Numbered(t))
<1>1. \A c \in Of(t, Containers) : Numbered(t)[c] = t[c].count
  BY IdsAreFinite DEF Numbered, Of
<1>2. \A c : SumOf(Ones(t), Under(t, c))
               = Cardinality(Under(t, c) \cap Undeleted(t) \cap Of(t, Counted))
  BY OnesWeigh
<1>3. QED BY <1>1, <1>2 DEF CountsRight, Totals

(* One node weighs more or less.                                            *)
LEMMA TotalsChanged ==
    ASSUME GoodTable(row), NEW u, Of(u, Containers) = Of(row, Containers),
           \A c \in Of(row, Containers) : Under(u, c) = Under(row, c),
           NEW n \in Ids(row), NEW W, NEW X,
           \A m \in Ids(row) : W[m].size \in Nat /\ X[m].size \in Nat,
           \A m \in Ids(row) : m # n => X[m].size = W[m].size,
           NEW v, NEW x, Totals(row, W, v),
           \A c \in Of(row, Containers) :
              x[c] = IF n \in Under(row, c) THEN v[c] + (X[n].size - W[n].size) ELSE v[c]
    PROVE  Totals(u, X, x)
<1> SUFFICES ASSUME NEW c \in Of(row, Containers) PROVE x[c] = SumOf(X, Under(u, c))
  BY DEF Totals
<1> DEFINE S == Under(row, c)
           R == S \ {n}
<1>1. Under(u, c) = S /\ v[c] = SumOf(W, S)
  BY DEF Totals
<1>2. IsFiniteSet(S) /\ S \subseteq Ids(row) /\ IsFiniteSet(R) /\ R \subseteq S /\ n \notin R
  BY UnderIsFinite, FS_Subset
<1>3. x[c] = IF n \in S THEN v[c] + (X[n].size - W[n].size) ELSE v[c]
  OBVIOUS
<1>4. R = S \ {n}
  OBVIOUS
<1> HIDE DEF S, R
<1>5. \A m \in S : W[m].size \in Nat /\ X[m].size \in Nat
  BY <1>2
<1>6. CASE n \in S
  <2>1. SumOf(W, S) = W[n].size + SumOf(W, R)
    BY <1>2, <1>4, <1>5, <1>6, SumFacts
  <2>2. SumOf(X, S) = X[n].size + SumOf(X, R)
    BY <1>2, <1>4, <1>5, <1>6, SumFacts
  <2>3. \A m \in R : X[m].size = W[m].size
    BY <1>2
  <2>4. SumOf(X, R) = SumOf(W, R)
    BY <1>2, <2>3, SumSame
  <2>5. \A m \in R : W[m].size \in Nat
    BY <1>2, <1>5
  <2>6. SumOf(W, R) \in Nat
    BY <1>2, <2>5, SumFacts
  <2>7. \A i, j, k \in Nat : (j + k) + (i - j) = i + k
    OBVIOUS
  <2>8. (W[n].size + SumOf(W, R)) + (X[n].size - W[n].size) = X[n].size + SumOf(W, R)
    BY <1>5, <1>6, <2>6, <2>7
  <2>9. x[c] = (W[n].size + SumOf(W, R)) + (X[n].size - W[n].size)
    BY <1>1, <1>3, <1>6, <2>1
  <2>10. QED BY <1>1, <2>2, <2>4, <2>8, <2>9
<1>7. CASE n \notin S
  <2>1. \A m \in S : X[m].size = W[m].size
    BY <1>2, <1>7
  <2>2. SumOf(X, S) = SumOf(W, S)
    BY <1>2, <2>1, SumSame
  <2>3. QED BY <1>1, <1>3, <1>7, <2>2
<1>8. QED BY <1>6, <1>7

(* There is one node more.                                                  *)
LEMMA TotalsInserted ==
    ASSUME GoodTable(row), NEW u, NEW n, n \notin Ids(row), NEW A,
           Of(u, Containers) \subseteq Of(row, Containers) \cup {n}, Under(u, n) = {},
           \A c \in Of(row, Containers) :
              Under(u, c) = IF c \in A THEN Under(row, c) \cup {n} ELSE Under(row, c),
           NEW W, NEW X, X[n].size \in Nat,
           \A m \in Ids(row) : W[m].size \in Nat /\ X[m].size = W[m].size,
           NEW v, NEW x, Totals(row, W, v),
           n \in Of(u, Containers) => x[n] = 0,
           \A c \in Of(row, Containers) :
              x[c] = IF c \in A THEN v[c] + X[n].size ELSE v[c]
    PROVE  Totals(u, X, x)
<1>1. SumOf(X, {}) = 0
  BY FS_EmptySet, SumFacts
<1>2. ASSUME NEW c \in Of(row, Containers) PROVE x[c] = SumOf(X, Under(u, c))
  <2> DEFINE S == Under(row, c)
             R == S \cup {n}
  <2>1. Under(u, c) = (IF c \in A THEN R ELSE S) /\ v[c] = SumOf(W, S)
    BY DEF Totals
  <2>2. IsFiniteSet(S) /\ S \subseteq Ids(row)
    BY UnderIsFinite
  <2>3. IsFiniteSet(R) /\ R \ {n} = S /\ n \in R
    BY <2>2, FS_AddElement
  <2> HIDE DEF S, R
  <2>4. \A m \in S : X[m].size = W[m].size /\ W[m].size \in Nat
    BY <2>2
  <2>5. SumOf(X, S) = SumOf(W, S) /\ SumOf(W, S) \in Nat
    BY <2>2, <2>4, SumSame, SumFacts
  <2>6. \A m \in R : X[m].size \in Nat
    <3>1. \A m \in R : m = n \/ m \in S
      BY <2>3
    <3>2. QED BY <2>4, <3>1
  <2>7. SumOf(X, R) = X[n].size + SumOf(X, S)
    BY <2>3, <2>6, SumFacts
  <2>8. CASE c \in A
    <3>1. x[c] = v[c] + X[n].size /\ Under(u, c) = R
      BY <2>1, <2>8
    <3>2. \A i, j \in Nat : i + j = j + i
      OBVIOUS
    <3>3. QED BY <2>1, <2>5, <2>7, <3>1, <3>2
  <2>9. CASE c \notin A
    BY <2>1, <2>5, <2>9
  <2>10. QED BY <2>8, <2>9
<1>3. QED BY <1>1, <1>2 DEF Totals

(* Some nodes weigh nothing any more.                                       *)
LEMMA TotalsLost ==
    ASSUME GoodTable(row), NEW u, Of(u, Containers) = Of(row, Containers),
           \A c \in Of(row, Containers) : Under(u, c) = Under(row, c),
           NEW ds, NEW W, NEW X,
           \A m \in Ids(row) : W[m].size \in Nat,
           \A m \in Ids(row) : X[m].size = IF m \in ds THEN 0 ELSE W[m].size,
           NEW v, NEW x, Totals(row, W, v),
           \A c \in Of(row, Containers) : x[c] = v[c] - SumOf(W, Under(row, c) \cap ds)
    PROVE  Totals(u, X, x)
<1> SUFFICES ASSUME NEW c \in Of(row, Containers) PROVE x[c] = SumOf(X, Under(u, c))
  BY DEF Totals
<1> DEFINE S == Under(row, c)
           D == S \cap ds
           R == S \ ds
<1>1. Under(u, c) = S /\ v[c] = SumOf(W, S)
  BY DEF Totals
<1>2. IsFiniteSet(S) /\ S \subseteq Ids(row)
  BY UnderIsFinite
<1>3. /\ IsFiniteSet(D) /\ IsFiniteSet(R) /\ D \cap R = {} /\ D \cup R = S /\ R \in SUBSET S
      /\ \A m \in S : m \in D \/ m \in R
      /\ \A m \in S : m \in R <=> m \notin ds
  BY <1>2, FS_Subset
<1>4. x[c] = v[c] - SumOf(W, D)
  OBVIOUS
<1> HIDE DEF S, D, R
<1>5. \A m \in D \cup R : W[m].size \in Nat
  BY <1>2, <1>3
<1>6. SumOf(W, D \cup R) = SumOf(W, D) + SumOf(W, R)
  BY <1>3, <1>5, SumUnion
<1>7. SumOf(W, D) \in Nat /\ SumOf(W, R) \in Nat
  BY <1>3, <1>5, SumFacts
<1>8. SumOf(X, S) = SumOf(W, R)
  <2>1. \A m \in R : W[m].size \in Nat /\ X[m].size = W[m].size
    BY <1>2, <1>3, <1>5
  <2>2. \A m \in S : m \notin R => X[m].size = 0
    BY <1>2, <1>3
  <2>3. QED BY <1>2, <1>3, <2>1, <2>2, SumSome
<1>9. \A i, j \in Nat : (i + j) - i = j
  OBVIOUS
<1>10. x[c] = (SumOf(W, D) + SumOf(W, R)) - SumOf(W, D)
  BY <1>1, <1>3, <1>4, <1>6
<1>11. QED BY <1>1, <1>7, <1>8, <1>9, <1>10

(* Nodes F are below others than before: those of B, no longer those of A.  *)
LEMMA TotalsMoved ==
    ASSUME GoodTable(row), NEW u, Of(u, Containers) = Of(row, Containers),
           NEW F \in SUBSET Ids(row), NEW A, NEW B,
           \A c \in Of(row, Containers) :
              /\ c \in A => F \subseteq Under(row, c)
              /\ c \in B /\ c \notin A => F \cap Under(row, c) = {}
              /\ Under(u, c) = IF c \in B /\ c \notin A THEN Under(row, c) \cup F
                               ELSE IF c \in A /\ c \notin B THEN Under(row, c) \ F
                               ELSE Under(row, c),
           NEW W, \A m \in Ids(row) : W[m].size \in Nat,
           NEW X, \A m \in Ids(row) : X[m].size = W[m].size,
           NEW v, NEW x, Totals(row, W, v),
           \A c \in Of(row, Containers) :
              x[c] = IF c \in A THEN IF c \in B THEN (v[c] - SumOf(W, F)) + SumOf(W, F)
                                 ELSE v[c] - SumOf(W, F)
                     ELSE IF c \in B THEN v[c] + SumOf(W, F) ELSE v[c]
    PROVE  Totals(u, X, x)
<1> SUFFICES ASSUME NEW c \in Of(row, Containers) PROVE x[c] = SumOf(X, Under(u, c))
  BY DEF Totals
<1> DEFINE S == Under(row, c)
           R == S \ F
           Q == S \cup F
           s == SumOf(W, F)
<1>1. v[c] = SumOf(W, S)
  BY DEF Totals
<1>2. /\ IsFiniteSet(S) /\ S \subseteq Ids(row) /\ IsFiniteSet(F) /\ IsFiniteSet(R)
      /\ R \subseteq S /\ IsFiniteSet(Q) /\ Q \subseteq Ids(row)
  BY UnderIsFinite, IdsAreFinite, FS_Subset, FS_Union
<1>3. /\ c \in A => F \subseteq S /\ R \cap F = {} /\ R \cup F = S
      /\ c \in B /\ c \notin A => S \cap F = {} /\ S \cup F = Q
      /\ Under(u, c) = IF c \in B /\ c \notin A THEN Q
                       ELSE IF c \in A /\ c \notin B THEN R ELSE S
  OBVIOUS
<1>4. x[c] = IF c \in A THEN IF c \in B THEN (v[c] - s) + s ELSE v[c] - s
             ELSE IF c \in B THEN v[c] + s ELSE v[c]
  OBVIOUS
<1> HIDE DEF S, R, Q, s
<1>5. \A m \in Ids(row) : W[m].size \in Nat /\ X[m].size = W[m].size
  OBVIOUS
<1>6. /\ SumOf(X, S) = SumOf(W, S) /\ SumOf(X, R) = SumOf(W, R) /\ SumOf(X, Q) = SumOf(W, Q)
  <2>1. \A m \in S : X[m].size = W[m].size
    BY <1>2, <1>5
  <2>2. \A m \in R : X[m].size = W[m].size
    BY <1>2, <1>5
  <2>3. \A m \in Q : X[m].size = W[m].size
    BY <1>2, <1>5
  <2>4. QED BY <1>2, <2>1, <2>2, <2>3, SumSame
<1>7. SumOf(W, S) \in Nat /\ SumOf(W, R) \in Nat /\ s \in Nat
  <2>1. \A m \in S : W[m].size \in Nat
    BY <1>2, <1>5
  <2>2. \A m \in R : W[m].size \in Nat
    BY <1>2, <1>5
  <2>3. \A m \in F : W[m].size \in Nat
    BY <1>5
  <2>4. QED BY <1>2, <2>1, <2>2, <2>3, SumFacts DEF s
<1>8. CASE c \in A
  <2>1. \A m \in R \cup F : W[m].size \in Nat
    BY <1>2, <1>5
  <2>2. SumOf(W, R \cup F) = SumOf(W, R) + SumOf(W, F)
    BY <1>2, <1>3, <1>8, <2>1, SumUnion
  <2>3. v[c] = SumOf(W, R) + s
    BY <1>1, <1>3, <1>8, <2>2 DEF s
  <2>4. \A i, j \in Nat : (i + j) - j = i /\ ((i + j) - j) + j = i + j
    OBVIOUS
  <2>5. v[c] - s = SumOf(W, R) /\ (v[c] - s) + s = v[c]
    BY <1>7, <2>3, <2>4
  <2>6. QED BY <1>1, <1>3, <1>4, <1>6, <1>8, <2>5
<1>9. CASE c \notin A /\ c \in B
  <2>1. \A m \in S \cup F : W[m].size \in Nat
    BY <1>2, <1>5
  <2>2. SumOf(W, S \cup F) = SumOf(W, S) + SumOf(W, F)
    BY <1>2, <1>3, <1>9, <2>1, SumUnion
  <2>3. SumOf(W, Q) = v[c] + s
    BY <1>1, <1>3, <1>9, <2>2 DEF s
  <2>4. QED BY <1>3, <1>4, <1>6, <1>9, <2>3
<1>10. CASE c \notin A /\ c \notin B
  BY <1>1, <1>3, <1>4, <1>6, <1>10
<1>11. QED BY <1>8, <1>9, <1>10

LEMMA UnderSame ==
    ASSUME NEW t, NEW u, Ids(u) = Ids(t), \A m \in Ids(t) : u[m].path = t[m].path
    PROVE  \A c \in Ids(t) : Under(u, c) = Under(t, c)
BY DEF Under, Below

(* An insertion adds the new node to the totals above it.                   *)
LEMMA InsertedIsRight ==
    ASSUME GoodTable(row), PathsRight(row), NEW n, NEW type, NEW p, NEW size \in Nat, NEW u,
           InsertedTo(n, type, p, size, u), type # "FILE" => size = 0
    PROVE  /\ SizesRight(row) => SizesRight(u)
           /\ CountsRight(row) => CountsRight(u)
<1> DEFINE A == On(row, p)
<1>1. /\ n \in Nodes /\ n \notin Ids(row) /\ p \in Ids(row) /\ type # "ORGANIZATION"
      /\ Ids(u) = Ids(row) \cup {n} /\ GoodTable(u)
  BY DEF InsertedTo, Of
<1>2. PathsRight(u)
  BY PathsInserted
<1>3. A = Above(row, row[p].path) /\ A \subseteq Ids(row)
  BY <1>1, AboveBelow, OnIds
<1>4. /\ \A m \in Ids(row) : u[m].path = row[m].path /\ On(u, m) = On(row, m)
      /\ u[n].parent = p
  BY DEF InsertedTo, On
<1>5. On(u, n) = A \cup {n}
  <2>1. p # None
    BY <1>1, RowIs, NoneAssumption DEF GoodTable
  <2>2. On(u, n) = On(u, p) \cup {n}
    BY <1>1, <1>2, <1>4, <2>1, OnParent
  <2>3. QED BY <1>1, <1>4, <2>2
<1>6. \A c \in Ids(row) : Under(row, c) = {m \in Ids(row) : c \in On(row, m)} \ {c}
  BY AboveBelow
<1>7. \A c \in Ids(u) : Under(u, c) = {m \in Ids(u) : c \in On(u, m)} \ {c}
  BY <1>1, <1>2, AboveBelow
<1>8. \A m \in Ids(row) : n \notin On(row, m)
  BY <1>1, OnIds
<1> HIDE DEF A
<1>9. Under(u, n) = {}
  BY <1>1, <1>4, <1>7, <1>8
<1>10. ASSUME NEW c \in Ids(row)
       PROVE  Under(u, c) = IF c \in A THEN Under(row, c) \cup {n} ELSE Under(row, c)
  <2>1. c # n /\ c \in Ids(u)
    BY <1>1
  <2>2. n \in Under(u, c) <=> c \in A
    BY <1>1, <1>5, <1>7, <2>1
  <2>3. \A m \in Ids(row) : m \in Under(u, c) <=> m \in Under(row, c)
    BY <1>1, <1>4, <1>6, <1>7, <2>1
  <2>4. Under(u, c) \subseteq Ids(row) \cup {n} /\ Under(row, c) \subseteq Ids(row)
    BY <1>1, <1>6, <1>7, <2>1
  <2>5. QED BY <2>2, <2>3, <2>4
<1>11. /\ \A m \in Ids(row) :
            /\ u[m].type = row[m].type /\ u[m].deleted = row[m].deleted
            /\ IF type \in Counted /\ m \in A
                 THEN u[m].count = row[m].count + 1 /\ u[m].size = row[m].size + size
                 ELSE u[m].count = row[m].count /\ u[m].size = row[m].size
       /\ u[n].type = type /\ u[n].size = size /\ u[n].count = FileCount(type)
       /\ ~u[n].deleted
  BY <1>3 DEF InsertedTo
<1>12. \A m \in Ids(row) : /\ row[m].size \in Nat /\ row[m].count \in Nat
                           /\ row[m].type = "FILE" => m \notin A
  <2>1. ASSUME NEW m \in Ids(row), row[m].type = "FILE", m \in A PROVE FALSE
    <3>1. p \in Of(row, Containers)
      BY DEF InsertedTo
    <3>2. m \in Of(row, Containers)
      BY <1>1, <2>1, <3>1, OnPath DEF A
    <3>3. QED BY <2>1, <3>2 DEF Of, Containers
  <2>2. QED BY <2>1, RowIs DEF GoodTable
<1>13. Of(u, Containers) \subseteq Of(row, Containers) \cup {n}
  BY <1>1, <1>11 DEF Of
<1>14. Of(row, Containers) \subseteq Ids(row) /\ Ids(row) \subseteq Nodes
  BY IdsAreFinite DEF Of
<1>15. n \in Of(u, Containers) => type \in Containers
  BY <1>11 DEF Of
<1>16. ASSUME SizesRight(row) PROVE SizesRight(u)
  <2> DEFINE W == FileSizes(row)  X == FileSizes(u)  v == Sized(row)  x == Sized(u)
  <2>1. Totals(row, W, v)
    BY <1>16, SizesAreTotals
  <2>2. X[n].size = (IF type = "FILE" THEN size ELSE 0) /\ X[n].size \in Nat
    BY <1>1, <1>11, WeightsAre
  <2>3. \A m \in Ids(row) : W[m].size \in Nat /\ X[m].size = W[m].size
    BY <1>1, <1>11, <1>12, <1>14, WeightsAre
  <2>4. \A c \in Of(row, Containers) : v[c] = row[c].size /\ x[c] = u[c].size
    BY <1>14 DEF Sized
  <2>5. n \in Of(u, Containers) => x[n] = 0
    BY <1>1, <1>11, <1>15 DEF Sized, Containers
  <2>6. X[n].size = IF type \in Counted THEN size ELSE 0
    BY <2>2 DEF Counted
  <2> HIDE DEF W, X, v, x
  <2>7. ASSUME NEW c \in Of(row, Containers)
        PROVE  x[c] = IF c \in A THEN v[c] + X[n].size ELSE v[c]
    BY <1>11, <1>12, <1>14, <2>2, <2>4, <2>6
  <2>8. Totals(u, X, x)
    BY <1>1, <1>9, <1>10, <1>13, <1>14, <2>1, <2>2, <2>3, <2>5, <2>7, TotalsInserted
  <2>9. QED BY <1>1, <2>8, SizesAreTotals DEF X, x
<1>17. ASSUME CountsRight(row) PROVE CountsRight(u)
  <2> DEFINE W == Ones(row)  X == Ones(u)  v == Numbered(row)  x == Numbered(u)
  <2>1. Totals(row, W, v)
    BY <1>17, CountsAreTotals
  <2>2. X[n].size = (IF type \in Counted THEN 1 ELSE 0) /\ X[n].size \in Nat
    BY <1>1, <1>11, WeightsAre
  <2>3. \A m \in Ids(row) : W[m].size \in Nat /\ X[m].size = W[m].size
    BY <1>1, <1>11, <1>14, WeightsAre
  <2>4. \A c \in Of(row, Containers) : v[c] = row[c].count /\ x[c] = u[c].count
    BY <1>14 DEF Numbered
  <2>5. n \in Of(u, Containers) => x[n] = 0
    BY <1>1, <1>11, <1>15 DEF Numbered, FileCount, Containers
  <2> HIDE DEF W, X, v, x
  <2>6. ASSUME NEW c \in Of(row, Containers)
        PROVE  x[c] = IF c \in A THEN v[c] + X[n].size ELSE v[c]
    BY <1>11, <1>12, <1>14, <2>2, <2>4
  <2>7. Totals(u, X, x)
    BY <1>1, <1>9, <1>10, <1>13, <1>14, <2>1, <2>2, <2>3, <2>5, <2>6, TotalsInserted
  <2>8. QED BY <1>1, <2>7, CountsAreTotals DEF X, x
<1>18. QED BY <1>16, <1>17

(* A soft deletion takes what it marks out of the totals above it.          *)
LEMMA DeletedIsRight ==
    ASSUME GoodTable(row), NEW ds \in SUBSET Undeleted(row), NEW u, DeletedTo(ds, u)
    PROVE  /\ SizesRight(row) => SizesRight(u)
           /\ CountsRight(row) => CountsRight(u)
<1>1. /\ Ids(u) = Ids(row) /\ GoodTable(u) /\ Ids(row) \subseteq Nodes
      /\ \A m \in Ids(row) :
            /\ u[m].type = row[m].type /\ u[m].path = row[m].path /\ u[m].deleted = Dead(ds, m)
            /\ u[m].count = row[m].count - Cardinality(Gone(ds, m, Counted))
            /\ u[m].size = row[m].size - SumOf(row, Gone(ds, m, {"FILE"}))
  BY IdsAreFinite DEF DeletedTo
<1>2. \A c \in Ids(row) : Under(u, c) = Under(row, c)
  BY <1>1, UnderSame
<1>3. /\ Of(u, Containers) = Of(row, Containers) /\ Of(row, Containers) \subseteq Ids(row)
  BY <1>1 DEF Of
<1>4. ASSUME NEW m \in Ids(row) PROVE Dead(ds, m) = TRUE <=> m \in ds \/ row[m].deleted
  BY RowIs DEF Dead, GoodTable
<1>5. ASSUME NEW m \in Ids(row), row[m].type = "FILE" PROVE u[m].size = row[m].size
  <2>1. Gone(ds, m, {"FILE"}) = {}
    BY <1>5, UnderFile DEF Gone
  <2>2. SumOf(row, {}) = 0
    BY FS_EmptySet, SumFacts
  <2>3. row[m].size \in Nat
    BY RowIs DEF GoodTable
  <2>4. u[m].size = row[m].size - SumOf(row, Gone(ds, m, {"FILE"}))
    BY <1>1
  <2>5. SumOf(row, Gone(ds, m, {"FILE"})) = 0
    BY <2>1, <2>2
  <2>6. \A i \in Nat : i - 0 = i
    OBVIOUS
  <2>7. QED BY <2>3, <2>4, <2>5, <2>6
<1>6. \A m \in ds : m \in Ids(row) /\ ~row[m].deleted
  BY DEF Undeleted
<1>7. \A m \in Ids(row) : u[m].deleted \in BOOLEAN /\ row[m].deleted \in BOOLEAN
  BY <1>1, RowIs DEF GoodTable
<1>8. \A c, types : /\ Gone(ds, c, types) \subseteq Under(row, c) \cap ds
                    /\ \A m \in Under(row, c) \cap ds :
                          m \in Gone(ds, c, types) <=> row[m].type \in types
  BY <1>6 DEF Gone, Of
<1>9. \A c : IsFiniteSet(Under(row, c) \cap ds)
  BY UnderIsFinite, FS_Subset
<1>10. ASSUME SizesRight(row) PROVE SizesRight(u)
  <2> DEFINE W == FileSizes(row)  X == FileSizes(u)  v == Sized(row)  x == Sized(u)
  <2>1. Totals(row, W, v)
    BY <1>10, SizesAreTotals
  <2>2. \A m \in Ids(row) : /\ W[m].size = IF ~row[m].deleted /\ row[m].type = "FILE"
                                             THEN row[m].size ELSE 0
                            /\ X[m].size = IF ~u[m].deleted /\ u[m].type = "FILE"
                                             THEN u[m].size ELSE 0
                            /\ W[m].size \in Nat
    BY <1>1, WeightsAre
  <2>3. \A c \in Of(row, Containers) : v[c] = row[c].size /\ x[c] = u[c].size
    BY <1>1, <1>3 DEF Sized
  <2> HIDE DEF W, X, v, x
  <2>4. ASSUME NEW m \in Ids(row) PROVE X[m].size = IF m \in ds THEN 0 ELSE W[m].size
    <3>1. u[m].deleted <=> m \in ds \/ row[m].deleted
      BY <1>1, <1>4, <1>7
    <3>2. QED BY <1>1, <1>5, <2>2, <3>1
  <2>5. ASSUME NEW c \in Of(row, Containers)
        PROVE  x[c] = v[c] - SumOf(W, Under(row, c) \cap ds)
    <3> DEFINE S == Under(row, c) \cap ds  R == Gone(ds, c, {"FILE"})
    <3>1. R \in SUBSET S /\ \A m \in S : m \in R <=> row[m].type = "FILE"
      BY <1>8
    <3>2. IsFiniteSet(S) /\ \A m \in S : m \in Ids(row) /\ ~row[m].deleted
      BY <1>6, <1>9
    <3>3. x[c] = v[c] - SumOf(row, R)
      BY <1>1, <1>3, <2>3
    <3> HIDE DEF S, R
    <3>4. \A m \in R : row[m].size \in Nat /\ W[m].size = row[m].size
      BY <2>2, <3>1, <3>2
    <3>5. \A m \in S : m \notin R => W[m].size = 0
      BY <2>2, <3>1, <3>2
    <3>6. SumOf(W, S) = SumOf(row, R)
      BY <3>1, <3>2, <3>4, <3>5, SumSome
    <3>7. QED BY <3>3, <3>6 DEF S
  <2>6. Totals(u, X, x)
    <3>1. \A c \in Of(row, Containers) : Under(u, c) = Under(row, c)
      BY <1>2, <1>3
    <3>2. \A m \in Ids(row) : W[m].size \in Nat
      BY <2>2
    <3>3. \A m \in Ids(row) : X[m].size = IF m \in ds THEN 0 ELSE W[m].size
      BY <2>4
    <3>4. \A c \in Of(row, Containers) : x[c] = v[c] - SumOf(W, Under(row, c) \cap ds)
      BY <2>5
    <3>5. QED BY <1>3, <2>1, <3>1, <3>2, <3>3, <3>4, TotalsLost
  <2>7. QED BY <1>1, <2>6, SizesAreTotals DEF X, x
<1>11. ASSUME CountsRight(row) PROVE CountsRight(u)
  <2> DEFINE W == Ones(row)  X == Ones(u)  v == Numbered(row)  x == Numbered(u)
  <2>1. Totals(row, W, v)
    BY <1>11, CountsAreTotals
  <2>2. \A m \in Ids(row) : /\ W[m].size = IF ~row[m].deleted /\ row[m].type \in Counted
                                             THEN 1 ELSE 0
                            /\ X[m].size = IF ~u[m].deleted /\ u[m].type \in Counted
                                             THEN 1 ELSE 0
                            /\ W[m].size \in Nat
    BY <1>1, WeightsAre
  <2>3. \A c \in Of(row, Containers) : v[c] = row[c].count /\ x[c] = u[c].count
    BY <1>1, <1>3 DEF Numbered
  <2> HIDE DEF W, X, v, x
  <2>4. ASSUME NEW m \in Ids(row) PROVE X[m].size = IF m \in ds THEN 0 ELSE W[m].size
    <3>1. u[m].deleted <=> m \in ds \/ row[m].deleted
      BY <1>1, <1>4, <1>7
    <3>2. QED BY <1>1, <2>2, <3>1
  <2>5. ASSUME NEW c \in Of(row, Containers)
        PROVE  x[c] = v[c] - SumOf(W, Under(row, c) \cap ds)
    <3> DEFINE S == Under(row, c) \cap ds  R == Gone(ds, c, Counted)
    <3>1. R \in SUBSET S /\ \A m \in S : m \in R <=> row[m].type \in Counted
      BY <1>8
    <3>2. IsFiniteSet(S) /\ \A m \in S : m \in Ids(row) /\ ~row[m].deleted
      BY <1>6, <1>9
    <3>3. x[c] = v[c] - Cardinality(R)
      BY <1>1, <1>3, <2>3
    <3> HIDE DEF S, R
    <3>4. \A m \in R : W[m].size = 1 /\ W[m].size \in Nat /\ W[m].size = W[m].size
      BY <2>2, <3>1, <3>2
    <3>5. \A m \in S : m \notin R => W[m].size = 0
      BY <2>2, <3>1, <3>2
    <3>6. SumOf(W, S) = SumOf(W, R)
      BY <3>1, <3>2, <3>4, <3>5, SumSome
    <3>7. IsFiniteSet(R)
      BY <3>1, <3>2, FS_Subset
    <3>8. SumOf(W, R) = Cardinality(R)
      BY <3>4, <3>7, SumOnes
    <3>9. QED BY <3>3, <3>6, <3>8 DEF S
  <2>6. Totals(u, X, x)
    <3>1. \A c \in Of(row, Containers) : Under(u, c) = Under(row, c)
      BY <1>2, <1>3
    <3>2. \A m \in Ids(row) : W[m].size \in Nat
      BY <2>2
    <3>3. \A m \in Ids(row) : X[m].size = IF m \in ds THEN 0 ELSE W[m].size
      BY <2>4
    <3>4. \A c \in Of(row, Containers) : x[c] = v[c] - SumOf(W, Under(row, c) \cap ds)
      BY <2>5
    <3>5. QED BY <1>3, <2>1, <3>1, <3>2, <3>3, <3>4, TotalsLost
  <2>7. QED BY <1>1, <2>6, CountsAreTotals DEF X, x
<1>12. QED BY <1>10, <1>11

FileSize(r) == IF ~r.deleted /\ r.type = "FILE" THEN r.size ELSE 0
Unit(r) == IF ~r.deleted /\ r.type \in Counted THEN 1 ELSE 0

(* A save under the same parent: the containers above a file get what it    *)
(* weighs more or less now; nothing else has another sum.                   *)
LEMMA SavedAlone ==
    ASSUME GoodTable(row), PathsRight(row), NEW n, NEW new, Savable(n, new),
           Updated(n, new) # row, Breaks(n, new) = {}, row[n].parent = new.parent,
           NEW u, u = Updated(n, new)
    PROVE  /\ Ids(u) = Ids(row) /\ GoodTable(u)
           /\ \A m \in Ids(row) : /\ u[m].type = row[m].type /\ u[m].path = row[m].path
                                  /\ m # n => u[m].deleted = row[m].deleted
           /\ u[n].deleted = new.deleted /\ u[n].size = new.size
           /\ new.type # "FILE" => new.size = row[n].size /\ u[n].count = row[n].count
           /\ \A m \in Ids(row) : m # n =>
                 IF m \in On(row, n)
                   THEN /\ u[m].size = row[m].size + (FileSize(new) - FileSize(row[n]))
                        /\ u[m].count = row[m].count + (Unit(new) - Unit(row[n]))
                   ELSE u[m].size = row[m].size /\ u[m].count = row[m].count
<1> DEFINE t == Written(n, new)
           a == Resummed(n, new)
           ns == On(row, n) \ {n}
           old == row[n]
<1>1. /\ NewRow(n, new) = new /\ new.path = old.path
      /\ \A m \in Ids(row) : u[m].path = row[m].path
  BY SavedPaths
<1>2. UpdatedTo(n, new, new, t, a, u)
  <2>1. UpdatedTo(n, new, NewRow(n, new), t, a, Updated(n, new))
    BY UpdatedIs
  <2> HIDE DEF t, a
  <2>2. QED BY <1>1, <2>1
<1>3. a = Accounted(t, n, old, new)
  BY <1>1 DEF Resummed
<1>4. /\ n \in Ids(row) /\ new \in Row /\ new.type = old.type
      /\ new.type \in Containers \cup {"FILE"} /\ old \in Row
      /\ new.size \in Nat /\ old.size \in Nat /\ new.deleted \in BOOLEAN /\ old.deleted \in BOOLEAN
      /\ new.type # "FILE" => /\ new.size = old.size /\ new.count = old.count
                              /\ new.deleted = old.deleted
      /\ new.deleted /\ old.deleted => new.size = old.size
  <2>1. /\ n \in Ids(row) /\ new \in Row /\ new.type = old.type
    BY DEF Savable
  <2>2. new.type # "FILE" => <<new.size, new.count, new.deleted>>
                               = <<old.size, old.count, old.deleted>>
    BY DEF Breaks
  <2>3. new.deleted /\ old.deleted => <<new.parent, new.size>> = <<old.parent, old.size>>
    BY DEF Breaks
  <2> HIDE DEF old
  <2>4. old \in Row
    BY <2>1, RowIs DEF GoodTable, old
  <2>5. QED BY <2>1, <2>2, <2>3, <2>4 DEF Row, RowOf
<1> HIDE DEF t, a
<1>5. /\ Ids(t) = Ids(row) /\ t[n] = new /\ \A m \in Ids(row) : m # n => t[m] = row[m]
      /\ Summed(t) /\ ~Raises(old, new)
      /\ Ids(u) = Ids(row) /\ GoodTable(u)
      /\ \A m \in Ids(row) :
            /\ u[m].type = row[m].type /\ u[m].deleted = t[m].deleted
            /\ u[m].size = a[m].size /\ u[m].count = a[m].count
  BY <1>2 DEF UpdatedTo
<1>6. Above(t, new.path) \ {n} = ns
  <2>1. Above(row, old.path) = On(row, n)
    BY <1>4, AboveBelow
  <2>2. \A m \in Ids(row) : t[m].path = row[m].path
    BY <1>1, <1>4, <1>5
  <2>3. Above(t, new.path) = Above(row, old.path)
    BY <1>1, <1>5, <2>2 DEF Above
  <2>4. QED BY <2>1, <2>3
<1>7. /\ ns \in SUBSET Ids(t) /\ n \notin ns
      /\ \A m \in Ids(row) : m # n => (m \in ns <=> m \in On(row, n))
  BY <1>4, <1>5, OnIds
<1>8. \A m \in Ids(row) : row[m].size \in Nat /\ row[m].count \in Nat
  BY RowIs DEF GoodTable
<1> DEFINE ds == FileSize(new) - FileSize(old)  dc == Unit(new) - Unit(old)
<1>9. \A m \in Ids(row) : m # n =>
          IF m \in ns THEN a[m].size = row[m].size + ds /\ a[m].count = row[m].count + dc
          ELSE a[m].size = row[m].size /\ a[m].count = row[m].count
  <2>1. new.deleted # old.deleted => new.type = "FILE" /\ new.size = old.size
    BY <1>4, <1>5 DEF Raises, Counted
  <2>2. CASE new.type \notin Counted
    <3>1. a = t
      BY <1>3, <2>2 DEF Accounted
    <3>2. ds = 0 /\ dc = 0
      BY <1>4, <2>2 DEF FileSize, Unit, Counted
    <3> HIDE DEF ds, dc, ns
    <3>3. \A i \in Nat : i + 0 = i
      OBVIOUS
    <3>4. QED BY <1>5, <1>8, <3>1, <3>2, <3>3
  <2>3. CASE new.type \in Counted /\ old.deleted # new.deleted
    <3> DEFINE sign == IF new.deleted THEN -1 ELSE 1
               by == sign * new.size
    <3>1. a = Add(t, ns, sign, by)
      BY <1>3, <1>6, <2>1, <2>3 DEF Accounted
    <3>2. ds = by /\ dc = sign /\ sign \in Int /\ by \in Int
      BY <1>4, <2>1, <2>3 DEF FileSize, Unit
    <3> HIDE DEF sign, by, ds, dc, ns
    <3>3. /\ \A m \in Ids(t) \ ns : a[m] = t[m]
          /\ \A m \in ns : a[m].count = t[m].count + sign /\ a[m].size = t[m].size + by
      <4>1. ns \in SUBSET Ids(t) /\ Summed(t) /\ by \in Int /\ sign \in Int
        BY <1>5, <1>7, <3>2
      <4>2. /\ \A m \in Ids(t) \ ns : Add(t, ns, sign, by)[m] = t[m]
            /\ \A m \in ns : /\ Add(t, ns, sign, by)[m].count = t[m].count + sign
                             /\ Add(t, ns, sign, by)[m].size = t[m].size + by
        BY <4>1, AddIs
      <4>3. QED BY <3>1, <4>2
    <3>4. QED BY <1>5, <3>2, <3>3
  <2>4. CASE new.type \in Counted /\ old.deleted = new.deleted
    <3> DEFINE by == new.size - old.size
    <3>1. a = Add(t, ns, 0, by)
      BY <1>3, <1>6, <2>4 DEF Accounted
    <3>2. ds = by /\ dc = 0 /\ by \in Int
      BY <1>4, <2>4 DEF FileSize, Unit
    <3> HIDE DEF by, ds, dc, ns
    <3>3. /\ \A m \in Ids(t) \ ns : a[m] = t[m]
          /\ \A m \in ns : a[m].count = t[m].count + 0 /\ a[m].size = t[m].size + by
      <4>1. ns \in SUBSET Ids(t) /\ Summed(t) /\ by \in Int /\ 0 \in Int
        BY <1>5, <1>7, <3>2
      <4>2. /\ \A m \in Ids(t) \ ns : Add(t, ns, 0, by)[m] = t[m]
            /\ \A m \in ns : /\ Add(t, ns, 0, by)[m].count = t[m].count + 0
                             /\ Add(t, ns, 0, by)[m].size = t[m].size + by
        BY <4>1, AddIs
      <4>3. QED BY <3>1, <4>2
    <3>4. QED BY <1>5, <3>2, <3>3
  <2>5. QED BY <2>2, <2>3, <2>4
<1>10. u[n].size = new.size /\ (new.type # "FILE" => u[n].count = old.count)
  <2>1. a[n].size = new.size /\ a[n].count = new.count
    <3>1. CASE new.type \notin Counted
      BY <1>3, <1>5, <3>1 DEF Accounted
    <3>2. CASE new.type \in Counted
      <4>1. PICK c, s : c \in Int /\ s \in Int /\ a = Add(t, ns, c, s)
        <5>1. -1 \in Int /\ 1 \in Int /\ 0 \in Int /\ new.size - old.size \in Int
              /\ (-1) * new.size \in Int /\ 1 * new.size \in Int
          BY <1>4
        <5>2. \/ a = Add(t, ns, -1, (-1) * new.size)
              \/ a = Add(t, ns, -1, 0)
              \/ a = Add(t, ns, 1, 1 * new.size)
              \/ a = Add(t, ns, 1, 0)
              \/ a = Add(t, ns, 0, new.size - old.size)
          BY <1>3, <1>6, <3>2 DEF Accounted
        <5> HIDE DEF ns, old
        <5>3. QED BY <5>1, <5>2
      <4> HIDE DEF ns
      <4>2. a[n] = t[n]
        <5>1. ns \in SUBSET Ids(t) /\ Summed(t) /\ c \in Int /\ s \in Int /\ n \in Ids(t) \ ns
          BY <1>4, <1>5, <1>7, <4>1
        <5>2. Add(t, ns, c, s)[n] = t[n]
          BY <5>1, AddIs
        <5>3. QED BY <4>1, <5>2
      <4>3. QED BY <1>5, <4>2
    <3>3. QED BY <3>1, <3>2
  <2>2. QED BY <1>4, <1>5, <2>1
<1>11. /\ u[n].deleted = new.deleted
       /\ \A m \in Ids(row) : m # n => u[m].deleted = row[m].deleted
  BY <1>4, <1>5
<1> HIDE DEF ns, ds, dc
<1>12. \A m \in Ids(row) : m # n =>
          IF m \in On(row, n) THEN u[m].size = row[m].size + ds /\ u[m].count = row[m].count + dc
          ELSE u[m].size = row[m].size /\ u[m].count = row[m].count
  BY <1>5, <1>7, <1>9
<1>13. QED BY <1>1, <1>4, <1>5, <1>10, <1>11, <1>12 DEF ds, dc

LEMMA AloneIsRight ==
    ASSUME GoodTable(row), PathsRight(row), NEW n, NEW new, Savable(n, new),
           Updated(n, new) # row, Breaks(n, new) = {}, row[n].parent = new.parent
    PROVE  /\ SizesRight(row) => SizesRight(Updated(n, new))
           /\ CountsRight(row) => CountsRight(Updated(n, new))
<1> DEFINE u == Updated(n, new)
<1>1. n \in Ids(row) /\ new \in Row /\ new.type = row[n].type /\ Ids(row) \subseteq Nodes
      /\ (new.type = "FILE" \/ new.type # "FILE")
  BY IdsAreFinite DEF Savable
<1>2. /\ Ids(u) = Ids(row) /\ GoodTable(u)
      /\ \A m \in Ids(row) : /\ u[m].type = row[m].type /\ u[m].path = row[m].path
                             /\ m # n => u[m].deleted = row[m].deleted
      /\ u[n].deleted = new.deleted /\ u[n].size = new.size
      /\ new.type # "FILE" => new.size = row[n].size /\ u[n].count = row[n].count
      /\ \A m \in Ids(row) : m # n =>
            IF m \in On(row, n)
              THEN /\ u[m].size = row[m].size + (FileSize(new) - FileSize(row[n]))
                   /\ u[m].count = row[m].count + (Unit(new) - Unit(row[n]))
              ELSE u[m].size = row[m].size /\ u[m].count = row[m].count
  <2> HIDE DEF u
  <2>1. u = Updated(n, new)
    BY DEF u
  <2>2. QED BY <2>1, SavedAlone
<1> HIDE DEF u
<1>3. /\ Of(u, Containers) = Of(row, Containers) /\ Of(row, Containers) \subseteq Ids(row)
      /\ \A c \in Of(row, Containers) : Under(u, c) = Under(row, c)
  <2>1. Of(u, Containers) = Of(row, Containers) /\ Of(row, Containers) \subseteq Ids(row)
    BY <1>2 DEF Of
  <2>2. \A c \in Ids(row) : Under(u, c) = Under(row, c)
    BY <1>2, UnderSame
  <2>3. QED BY <2>1, <2>2
<1>4. ASSUME NEW c \in Of(row, Containers) PROVE n \in Under(row, c) <=> c # n /\ c \in On(row, n)
  BY <1>1, <1>3, AboveBelow
<1>5. n \in Of(row, Containers) => new.type # "FILE"
  BY <1>1 DEF Of, Containers
<1>6. \A m \in Ids(row) : m # n => u[m].size = row[m].size \/ row[m].type # "FILE"
  <2>1. ASSUME NEW m \in Ids(row), m # n, m \in On(row, n) PROVE row[m].type # "FILE"
    BY <1>1, <2>1, OnPath DEF Of, Containers
  <2>2. QED BY <1>2, <2>1
<1>7. ASSUME SizesRight(row) PROVE SizesRight(u)
  <2> DEFINE W == FileSizes(row)  X == FileSizes(u)  v == Sized(row)  x == Sized(u)
  <2>1. Totals(row, W, v)
    BY <1>7, SizesAreTotals
  <2>2. \A m \in Ids(row) : /\ W[m].size = FileSize(row[m]) /\ X[m].size = FileSize(u[m])
                            /\ W[m].size \in Nat /\ X[m].size \in Nat
    <3>1. /\ \A m \in Nodes : W[m].size \in Nat /\ X[m].size \in Nat
          /\ \A m \in Ids(row) : W[m].size = FileSize(row[m])
          /\ \A m \in Ids(u) : X[m].size = FileSize(u[m])
      BY <1>2, WeightsAre DEF FileSize
    <3> HIDE DEF W, X
    <3>2. QED BY <1>1, <1>2, <3>1
  <2>3. \A c \in Of(row, Containers) : v[c] = row[c].size /\ x[c] = u[c].size
    BY <1>1, <1>3 DEF Sized
  <2> HIDE DEF W, X, v, x
  <2>4. \A m \in Ids(row) : m # n => X[m].size = W[m].size
    BY <1>2, <1>6, <2>2 DEF FileSize
  <2>5. FileSize(u[n]) = FileSize(new)
    BY <1>1, <1>2 DEF FileSize
  <2>6. ASSUME NEW c \in Of(row, Containers)
        PROVE  x[c] = IF n \in Under(row, c) THEN v[c] + (X[n].size - W[n].size) ELSE v[c]
    <3>1. X[n].size = FileSize(new) /\ W[n].size = FileSize(row[n])
      BY <1>1, <2>2, <2>5
    <3>2. CASE c = n
      <4>1. u[c].size = row[c].size
        BY <1>2, <1>5, <3>2
      <4>2. QED BY <1>4, <2>3, <3>2, <4>1
    <3>3. CASE c # n /\ c \in On(row, n)
      <4>1. u[c].size = row[c].size + (FileSize(new) - FileSize(row[n]))
        BY <1>2, <1>3, <3>3
      <4>2. QED BY <1>4, <2>3, <3>1, <3>3, <4>1
    <3>4. CASE c # n /\ c \notin On(row, n)
      <4>1. u[c].size = row[c].size
        BY <1>2, <1>3, <3>4
      <4>2. QED BY <1>4, <2>3, <3>4, <4>1
    <3>5. QED BY <3>2, <3>3, <3>4
  <2>7. Totals(u, X, x)
    BY <1>1, <1>3, <2>1, <2>2, <2>4, <2>6, TotalsChanged
  <2>8. QED BY <1>2, <2>7, SizesAreTotals DEF X, x
<1>8. ASSUME CountsRight(row) PROVE CountsRight(u)
  <2> DEFINE W == Ones(row)  X == Ones(u)  v == Numbered(row)  x == Numbered(u)
  <2>1. Totals(row, W, v)
    BY <1>8, CountsAreTotals
  <2>2. \A m \in Ids(row) : /\ W[m].size = Unit(row[m]) /\ X[m].size = Unit(u[m])
                            /\ W[m].size \in Nat /\ X[m].size \in Nat
    <3>1. /\ \A m \in Nodes : W[m].size \in Nat /\ X[m].size \in Nat
          /\ \A m \in Ids(row) : W[m].size = Unit(row[m])
          /\ \A m \in Ids(u) : X[m].size = Unit(u[m])
      BY <1>2, WeightsAre DEF Unit
    <3> HIDE DEF W, X
    <3>2. QED BY <1>1, <1>2, <3>1
  <2>3. \A c \in Of(row, Containers) : v[c] = row[c].count /\ x[c] = u[c].count
    BY <1>1, <1>3 DEF Numbered
  <2> HIDE DEF W, X, v, x
  <2>4. \A m \in Ids(row) : m # n => X[m].size = W[m].size
    BY <1>2, <2>2 DEF Unit
  <2>5. Unit(u[n]) = Unit(new)
    BY <1>1, <1>2 DEF Unit
  <2>6. ASSUME NEW c \in Of(row, Containers)
        PROVE  x[c] = IF n \in Under(row, c) THEN v[c] + (X[n].size - W[n].size) ELSE v[c]
    <3>1. X[n].size = Unit(new) /\ W[n].size = Unit(row[n])
      BY <1>1, <2>2, <2>5
    <3>2. CASE c = n
      <4>1. u[c].count = row[c].count
        BY <1>2, <1>5, <3>2
      <4>2. QED BY <1>4, <2>3, <3>2, <4>1
    <3>3. CASE c # n /\ c \in On(row, n)
      <4>1. u[c].count = row[c].count + (Unit(new) - Unit(row[n]))
        BY <1>2, <1>3, <3>3
      <4>2. QED BY <1>4, <2>3, <3>1, <3>3, <4>1
    <3>4. CASE c # n /\ c \notin On(row, n)
      <4>1. u[c].count = row[c].count
        BY <1>2, <1>3, <3>4
      <4>2. QED BY <1>4, <2>3, <3>4, <4>1
    <3>5. QED BY <3>2, <3>3, <3>4
  <2>7. Totals(u, X, x)
    BY <1>1, <1>3, <2>1, <2>2, <2>4, <2>6, TotalsChanged
  <2>8. QED BY <1>2, <2>7, CountsAreTotals DEF X, x
<1>9. QED BY <1>7, <1>8 DEF u

From(n) == On(row, row[n].parent)
To(new) == On(row, new.parent)

MovedTo(n, new, u) ==
    /\ Ids(u) = Ids(row) /\ GoodTable(u) /\ n \in Ids(row) /\ new.type \in Counted
    /\ row[n].parent \in Ids(row) /\ new.parent \in Ids(row)
    /\ n \notin From(n) /\ n \notin To(new) /\ u[n].parent = new.parent
    /\ ~row[n].deleted
    /\ \A m \in Ids(row) :
          /\ u[m].type = row[m].type /\ u[m].deleted = row[m].deleted
          /\ m # n => u[m].parent = row[m].parent
          /\ n \notin On(row, m) => u[m].path = row[m].path
          /\ m \notin From(n) /\ m \notin To(new) =>
                u[m].size = row[m].size /\ u[m].count = row[m].count
          /\ m \in From(n) /\ m \notin To(new) =>
                /\ u[m].size = row[m].size - row[n].size
                /\ u[m].count = row[m].count - MovedCount(row[n])
          /\ m \notin From(n) /\ m \in To(new) =>
                /\ u[m].size = row[m].size + row[n].size
                /\ u[m].count = row[m].count + MovedCount(row[n])
          /\ m \in From(n) /\ m \in To(new) =>
                /\ u[m].size = (row[m].size - row[n].size) + row[n].size
                /\ u[m].count = (row[m].count - MovedCount(row[n])) + MovedCount(row[n])

(* A move takes the sums of what moves out of the totals above the old      *)
(* parent, and puts them into those above the new one.                      *)
LEMMA SavedMoved ==
    ASSUME GoodTable(row), PathsRight(row), NEW n, NEW new, Savable(n, new),
           Updated(n, new) # row, Breaks(n, new) = {}, row[n].parent # new.parent,
           NEW u, u = Updated(n, new)
    PROVE  MovedTo(n, new, u)
<1> DEFINE w == NewRow(n, new)
           t == Written(n, new)
           a == Resummed(n, new)
           old == row[n]
           o == old.parent
           p == new.parent
           k == MovedCount(old)
           A == From(n)
           B == To(new)
<1>1. UpdatedTo(n, new, w, t, a, u)
  <2>1. UpdatedTo(n, new, w, t, a, Updated(n, new))
    BY UpdatedIs
  <2> HIDE DEF w, t, a
  <2>2. QED BY <2>1
<1>2. a = Accounted(t, n, old, w)
  BY DEF Resummed
<1>3. /\ n \in Ids(row) /\ new \in Row /\ new.type = old.type
      /\ new.type \in Containers \cup {"FILE"} /\ old \in Row
      /\ new.size \in Nat /\ old.size \in Nat /\ new.deleted \in BOOLEAN /\ old.deleted \in BOOLEAN
      /\ new.type # "FILE" => /\ new.size = old.size /\ new.count = old.count
                              /\ new.deleted = old.deleted
      /\ old.count \in Nat /\ new.count \in Nat
      /\ ~(new.deleted /\ old.deleted)
      /\ new.type = "FILE" => new.count = 1 /\ old.count = 1
  <2>1. /\ n \in Ids(row) /\ new \in Row /\ new.type = row[n].type
        /\ new.type = "FILE" => new.count = 1
    BY DEF Savable
  <2>2. new.type # "FILE" => <<new.size, new.count, new.deleted>>
                               = <<old.size, old.count, old.deleted>>
    BY DEF Breaks
  <2>3. new.deleted /\ old.deleted => <<new.parent, new.size>> = <<old.parent, old.size>>
    BY DEF Breaks
  <2>4. old \in Row /\ (row[n].type = "FILE" => row[n].count = 1)
    BY <2>1, RowIs DEF GoodTable
  <2>5. row[n].parent # new.parent
    OBVIOUS
  <2>6. QED BY <2>1, <2>2, <2>3, <2>4, <2>5 DEF Row, RowOf
<1>4. /\ w.type = new.type /\ w.parent = p /\ w.size = new.size /\ w.count = new.count
      /\ w.deleted = new.deleted /\ w.path = Append(row[p].path, n)
      /\ p \in Of(row, Containers) /\ o \in Of(row, Containers)
      /\ new.type \in Counted
  <2>1. w = WithPath(n, row[n], new)
    BY DEF NewRow
  <2> HIDE DEF w
  <2>2. /\ w.type = new.type /\ w.parent = new.parent /\ w.size = new.size
        /\ w.count = new.count /\ w.deleted = new.deleted
        /\ row[n].parent # new.parent =>
                 /\ w.path = Append(row[new.parent].path, n)
                 /\ new.parent \in Of(row, Containers)
                 /\ row[n].parent \in Of(row, Containers)
                 /\ new.type \notin {"ORGANIZATION", "COLLECTION"}
    BY <2>1, WithPathIs
  <2>3. QED BY <1>3, <2>2 DEF Containers, Counted
<1> HIDE DEF w, t, a
<1>5. /\ Ids(t) = Ids(row) /\ t[n] = w /\ \A m \in Ids(row) : m # n => t[m] = row[m]
      /\ Summed(t) /\ ~Raises(old, w) /\ ~Endless(n, w)
      /\ Ids(u) = Ids(row) /\ GoodTable(u)
      /\ \A m \in Ids(row) :
            /\ u[m].type = row[m].type /\ u[m].parent = t[m].parent
            /\ u[m].deleted = t[m].deleted
            /\ u[m].size = a[m].size /\ u[m].count = a[m].count
            /\ u[m].path = IF m # n /\ IsPrefix(row[n].path, t[m].path)
               THEN w.path \o SubSeq(t[m].path, Len(row[n].path) + 1, Len(t[m].path))
               ELSE t[m].path
  BY <1>1 DEF UpdatedTo
<1>6. new.deleted = old.deleted /\ ~old.deleted /\ new.size = old.size
  BY <1>3, <1>4, <1>5 DEF Raises
<1>7. o \in Ids(row) /\ p \in Ids(row) /\ o # None /\ p # None
  BY <1>4, RowIs, NoneAssumption DEF Of, GoodTable
<1>8. /\ n \notin A /\ n \notin B /\ A \subseteq Ids(row) /\ B \subseteq Ids(row)
      /\ o \in A /\ p \in B
  <2>1. n \notin A
    BY <1>3, <1>7, OnParent DEF From
  <2>2. row[p].path \in Seq(Nodes) /\ n \in Nodes
    BY <1>3, <1>7, RowIs DEF GoodTable
  <2>3. n \notin B
    <3>1. n \notin Range(row[p].path)
      BY <1>4, <1>5, <2>2, NotBelowItself
    <3>2. QED BY <3>1 DEF On, To
  <2>4. QED BY <1>7, <2>1, <2>3, OnIds, OnPath DEF From, To
<1>9. Above(t, t[o].path) \ {n} = A /\ Above(t, t[p].path) \ {n} = B
  <2>1. t[o] = row[o] /\ t[p] = row[p]
    BY <1>5, <1>7, <1>8
  <2>2. Above(row, row[o].path) = A /\ Above(row, row[p].path) = B
    BY <1>7, AboveBelow DEF From, To
  <2>3. ASSUME NEW q PROVE Above(t, q) \ {n} = Above(row, q) \ {n}
    BY <1>5 DEF Above
  <2>4. QED BY <1>8, <2>1, <2>2, <2>3
<1>10. k \in Nat /\ k \in Int /\ -k \in Int /\ old.size \in Int /\ -old.size \in Int
  <2>1. k \in Nat
    BY <1>3 DEF MovedCount
  <2>2. QED BY <1>3, <2>1
<1> DEFINE nk == -k
           ns == -old.size
           less == Add(t, A, nk, ns)
<1>11. nk = -k /\ ns = -old.size /\ nk \in Int /\ ns \in Int
  BY <1>10
<1> HIDE DEF A, B, nk, ns
<1>12. a = Add(less, B, k, old.size)
  BY <1>2, <1>4, <1>6, <1>9 DEF Accounted, OldLess, nk, ns
<1>13. /\ Summed(less) /\ Ids(less) = Ids(t)
       /\ \A m \in Ids(t) \ A : less[m] = t[m]
       /\ \A m \in A : less[m].count = t[m].count + nk /\ less[m].size = t[m].size + ns
  <2> HIDE DEF k, old
  <2>1. A \in SUBSET Ids(t) /\ Summed(t) /\ nk \in Int /\ ns \in Int
    BY <1>5, <1>8, <1>11
  <2>2. Summed(less) /\ Like(t, less)
    BY <2>1, AddIs
  <2>3. /\ \A m \in Ids(t) \ A : less[m] = t[m]
        /\ \A m \in A : less[m].count = t[m].count + nk /\ less[m].size = t[m].size + ns
    BY <2>1, AddIs
  <2>4. QED BY <2>2, <2>3 DEF Like
<1> HIDE DEF less
<1>14. /\ \A m \in Ids(t) \ B : a[m] = less[m]
       /\ \A m \in B : a[m].count = less[m].count + k /\ a[m].size = less[m].size + old.size
  <2> HIDE DEF k, old
  <2> DEFINE by == old.size
  <2>1. B \in SUBSET Ids(less) /\ Summed(less) /\ k \in Int /\ by \in Int
    BY <1>5, <1>8, <1>10, <1>13
  <2> HIDE DEF by
  <2>2. /\ \A m \in Ids(less) \ B : Add(less, B, k, by)[m] = less[m]
        /\ \A m \in B : /\ Add(less, B, k, by)[m].count = less[m].count + k
                        /\ Add(less, B, k, by)[m].size = less[m].size + by
    BY <2>1, AddIs
  <2>3. QED BY <1>12, <1>13, <2>2 DEF by
<1> HIDE DEF k
<1>15. ASSUME NEW m \in Ids(row)
       PROVE  /\ t[m].size = row[m].size
              /\ m \in A \/ m \in B => t[m].count = row[m].count
              /\ t[m].count = row[m].count \/ m = n
              /\ row[m].size \in Nat /\ row[m].count \in Nat
  BY <1>4, <1>5, <1>6, <1>8, RowIs DEF GoodTable
<1>16. t[n].count = row[n].count
  BY <1>3, <1>4, <1>5
<1>17. \A i, j \in Nat : i + (-j) = i - j
  OBVIOUS
<1>18. ASSUME NEW m \in Ids(row)
       PROVE  /\ m \notin A /\ m \notin B =>
                       u[m].size = row[m].size /\ u[m].count = row[m].count
              /\ m \in A /\ m \notin B =>
                       /\ u[m].size = row[m].size - row[n].size
                       /\ u[m].count = row[m].count - k
              /\ m \notin A /\ m \in B =>
                       /\ u[m].size = row[m].size + row[n].size
                       /\ u[m].count = row[m].count + k
              /\ m \in A /\ m \in B =>
                       /\ u[m].size = (row[m].size - row[n].size) + row[n].size
                       /\ u[m].count = (row[m].count - k) + k
  <2>1. u[m].size = a[m].size /\ u[m].count = a[m].count
    BY <1>5
  <2>2. t[m].size = row[m].size /\ t[m].count = row[m].count
    BY <1>15, <1>16
  <2>3. m \in A => /\ less[m].size = row[m].size - row[n].size
                   /\ less[m].count = row[m].count - k
    BY <1>3, <1>10, <1>13, <1>15, <1>17, <1>11, <2>2
  <2>4. m \notin A => less[m].size = row[m].size /\ less[m].count = row[m].count
    BY <1>5, <1>13, <2>2
  <2> HIDE DEF old
  <2>5. /\ m \in B => a[m].count = less[m].count + k /\ a[m].size = less[m].size + row[n].size
        /\ m \notin B => a[m].count = less[m].count /\ a[m].size = less[m].size
    BY <1>5, <1>14 DEF old
  <2>6. QED BY <2>1, <2>3, <2>4, <2>5
<1>19. ASSUME NEW m \in Ids(row)
       PROVE  /\ u[m].type = row[m].type /\ u[m].deleted = row[m].deleted
              /\ m # n => u[m].parent = row[m].parent
  BY <1>4, <1>5, <1>6
<1>20. ASSUME NEW m \in Ids(row), n \notin On(row, m) PROVE u[m].path = row[m].path
  <2>1. m # n
    BY <1>3, <1>20, OnPath
  <2>2. ~IsPrefix(row[n].path, row[m].path)
    BY <1>3, <1>20, PrefixOn
  <2>3. QED BY <1>5, <2>1, <2>2
<1>21. u[n].parent = p
  BY <1>3, <1>4, <1>5
<1>22. QED
  BY <1>3, <1>4, <1>5, <1>6, <1>7, <1>8, <1>18, <1>19, <1>20, <1>21 DEF k, A, B, MovedTo

(* What is below the node is below what the new parent is below, no longer  *)
(* below what the old one is below.                                         *)
LEMMA OnMoved ==
    ASSUME GoodTable(row), PathsRight(row), NEW n, NEW new, NEW u,
           MovedTo(n, new, u), PathsRight(u), row[n].parent # new.parent
    PROVE  \A k \in Ids(row) :
              On(u, k) = IF n \in On(row, k) THEN (On(row, k) \ From(n)) \cup To(new)
                         ELSE On(row, k)
<1>1. /\ Ids(u) = Ids(row) /\ GoodTable(u) /\ n \in Ids(row)
      /\ row[n].parent \in Ids(row) /\ new.parent \in Ids(row)
      /\ n \notin From(n) /\ n \notin To(new) /\ u[n].parent = new.parent
      /\ \A m \in Ids(row) : /\ m # n => u[m].parent = row[m].parent
                             /\ n \notin On(row, m) => u[m].path = row[m].path
  BY DEF MovedTo
<1>2. ASSUME NEW k \in Ids(row), n \notin On(row, k) PROVE On(u, k) = On(row, k)
  BY <1>1, <1>2 DEF On
<1>3. None \notin Ids(row)
  BY RowIs, NoneAssumption DEF GoodTable
<1>4. On(u, n) = (On(row, n) \ From(n)) \cup To(new) /\ n \in On(row, n)
  <2>1. On(row, n) = From(n) \cup {n}
    BY <1>1, <1>3, OnParent DEF From
  <2>2. On(u, n) = On(u, new.parent) \cup {n}
    BY <1>1, <1>3, OnParent
  <2>3. On(u, new.parent) = To(new)
    BY <1>1, <1>2 DEF To
  <2>4. QED BY <1>1, <2>1, <2>2, <2>3
<1> DEFINE Right(k) == On(u, k) = (On(row, k) \ From(n)) \cup To(new)
           Bad == {l \in Nat : \E k \in Ids(row) : Len(row[k].path) = l /\
                                    n \in On(row, k) /\ ~Right(k)}
<1>5. ASSUME Bad # {} PROVE FALSE
  <2>1. PICK l \in Bad : \A j \in Bad : l <= j
    BY <1>5, Least
  <2>2. PICK k \in Ids(row) : Len(row[k].path) = l /\ n \in On(row, k) /\ ~Right(k)
    BY <2>1
  <2>3. k # n
    BY <1>4, <2>2
  <2> DEFINE q == row[k].parent
  <2>4. q # None
    BY <2>2, <2>3, OnParent
  <2>5. /\ q \in Ids(row) /\ On(row, k) = On(row, q) \cup {k} /\ k \notin On(row, q)
        /\ row[k].path = Append(row[q].path, k)
    BY <2>4, OnParent DEF Of, PathsRight
  <2>6. u[k].parent = q
    BY <1>1, <2>3
  <2> HIDE DEF q
  <2>7. On(u, k) = On(u, q) \cup {k}
    BY <1>1, <2>4, <2>6, OnParent
  <2>8. n \in On(row, q)
    BY <2>2, <2>3, <2>5
  <2>9. Len(row[q].path) \in Nat /\ Len(row[q].path) < l
    <3>1. row[q].path \in Seq(Nodes) /\ k \in Nodes
      BY <2>5, RowIs DEF GoodTable
    <3> DEFINE r == row[q].path
    <3>2. r \in Seq(Nodes) /\ Len(Append(r, k)) = l
      BY <2>2, <2>5, <3>1
    <3> HIDE DEF r
    <3>3. Len(r) \in Nat /\ Len(Append(r, k)) = Len(r) + 1
      BY <3>1, <3>2
    <3>4. QED BY <3>2, <3>3 DEF r
  <2>10. Right(q)
    <3>1. Len(row[q].path) \notin Bad
      BY <2>1, <2>9
    <3>2. QED BY <2>5, <2>8, <2>9, <3>1
  <2>11. k \notin From(n)
    <3>1. ASSUME k \in From(n) PROVE FALSE
      <4>1. On(row, k) \subseteq From(n)
        BY <1>1, <3>1, OnOrders DEF From
      <4>2. QED BY <1>1, <2>2, <4>1
    <3>2. QED BY <3>1
  <2>12. Right(k)
    BY <2>5, <2>7, <2>10, <2>11
  <2>13. QED BY <2>2, <2>12
<1>6. ASSUME NEW k \in Ids(row), n \in On(row, k) PROVE Right(k)
  <2>1. Len(row[k].path) \in Nat
    BY PathTypes
  <2>2. QED BY <1>5, <1>6, <2>1
<1>7. QED BY <1>2, <1>6

Moving(n) == Under(row, n) \cup {n}

(* What a move carries along.                                               *)
LEMMA UnderMoved ==
    ASSUME GoodTable(row), PathsRight(row), NEW n, NEW new, NEW u,
           MovedTo(n, new, u), PathsRight(u), row[n].parent # new.parent
    PROVE  /\ Moving(n) \in SUBSET Ids(row)
           /\ \A c \in Of(row, Containers) :
              /\ c \in From(n) => Moving(n) \subseteq Under(row, c)
              /\ c \in To(new) /\ c \notin From(n) => Moving(n) \cap Under(row, c) = {}
              /\ Under(u, c) =
                   IF c \in To(new) /\ c \notin From(n) THEN Under(row, c) \cup Moving(n)
                   ELSE IF c \in From(n) /\ c \notin To(new) THEN Under(row, c) \ Moving(n)
                   ELSE Under(row, c)
<1> DEFINE A == From(n)  B == To(new)  F == Moving(n)
<1>1. /\ Ids(u) = Ids(row) /\ GoodTable(u) /\ n \in Ids(row)
      /\ row[n].parent \in Ids(row) /\ new.parent \in Ids(row)
      /\ n \notin A /\ n \notin B
  BY DEF MovedTo
<1>2. F = {m \in Ids(row) : n \in On(row, m)}
  BY <1>1, AboveBelow, OnPath DEF Moving
<1>3. \A c \in Ids(row) :
          /\ Under(row, c) = {m \in Ids(row) : c \in On(row, m)} \ {c}
          /\ Under(u, c) = {m \in Ids(row) : c \in On(u, m)} \ {c}
  BY <1>1, AboveBelow
<1>4. \A k \in Ids(row) :
          On(u, k) = IF n \in On(row, k) THEN (On(row, k) \ A) \cup B ELSE On(row, k)
  BY OnMoved
<1>5. On(row, n) = A \cup {n}
  <2>1. row[n].parent # None
    BY <1>1, RowIs, NoneAssumption DEF GoodTable
  <2>2. QED BY <1>1, <2>1, OnParent DEF From
<1>6. \A c \in A : c \in Ids(row) /\ n \notin On(row, c)
  <2>1. ASSUME NEW c \in A PROVE On(row, c) \subseteq A /\ c \in Ids(row)
    BY <1>1, OnOrders, OnIds DEF From
  <2>2. QED BY <1>1, <2>1
<1>7. \A c \in B : c \in Ids(row) /\ n \notin On(row, c)
  <2>1. ASSUME NEW c \in B PROVE On(row, c) \subseteq B /\ c \in Ids(row)
    BY <1>1, OnOrders, OnIds DEF To
  <2>2. QED BY <1>1, <2>1
<1>8. ASSUME NEW m \in F PROVE m \in Ids(row) /\ n \in On(row, m) /\ A \subseteq On(row, m)
  <2>1. On(row, n) \subseteq On(row, m)
    BY <1>2, OnOrders
  <2>2. QED BY <1>2, <1>5, <2>1
<1>9. ASSUME NEW m \in F, NEW c \in On(row, m), c \notin A PROVE c = n \/ n \in On(row, c)
  <2>1. c \in On(row, n) \/ n \in On(row, c)
    BY <1>8, <1>9, OnOrders
  <2>2. QED BY <1>5, <1>9, <2>1
<1>10. \A m \in Ids(row) \ F : n \notin On(row, m)
  BY <1>2
<1> HIDE DEF A, B, F
<1>11. ASSUME NEW c \in Of(row, Containers)
       PROVE  /\ c \in A => F \subseteq Under(row, c)
              /\ c \in B /\ c \notin A => F \cap Under(row, c) = {}
              /\ Under(u, c) =
                   IF c \in B /\ c \notin A THEN Under(row, c) \cup F
                   ELSE IF c \in A /\ c \notin B THEN Under(row, c) \ F
                   ELSE Under(row, c)
  <2>1. c \in Ids(row)
    BY DEF Of
  <2>2. c \in A \/ c \in B => c \notin F
    BY <1>6, <1>7, <1>8
  <2>3. c \in A => F \subseteq Under(row, c)
    BY <1>3, <1>8, <2>1, <2>2
  <2>4. c \in B /\ c \notin A => F \cap Under(row, c) = {}
    <3>1. ASSUME c \in B, c \notin A, NEW m \in F, m \in Under(row, c) PROVE FALSE
      <4>1. c \in On(row, m)
        BY <1>3, <2>1, <3>1
      <4>2. c = n \/ n \in On(row, c)
        BY <1>9, <3>1, <4>1
      <4>3. QED BY <1>1, <1>7, <3>1, <4>2
    <3>2. QED BY <3>1
  <2>5. ASSUME NEW m \in Ids(row)
        PROVE  m \in Under(u, c) <=>
                 IF c \in B /\ c \notin A THEN m \in Under(row, c) \/ m \in F
                 ELSE IF c \in A /\ c \notin B THEN m \in Under(row, c) /\ m \notin F
                 ELSE m \in Under(row, c)
    <3>1. /\ m \in Under(row, c) <=> c \in On(row, m) /\ m # c
          /\ m \in Under(u, c) <=> c \in On(u, m) /\ m # c
      BY <1>3, <2>1
    <3>2. CASE m \in F
      <4>1. On(u, m) = (On(row, m) \ A) \cup B
        BY <1>4, <1>8, <3>2
      <4>2. QED BY <2>2, <2>3, <3>1, <3>2, <4>1
    <3>3. CASE m \notin F
      <4>1. On(u, m) = On(row, m)
        BY <1>4, <1>10, <3>3
      <4>2. QED BY <3>1, <3>3, <4>1
    <3>4. QED BY <3>2, <3>3
  <2>6. Under(u, c) \subseteq Ids(row) /\ Under(row, c) \subseteq Ids(row) /\ F \subseteq Ids(row)
    BY <1>3, <1>8, <2>1
  <2>7. QED BY <2>3, <2>4, <2>5, <2>6
<1>12. F \in SUBSET Ids(row)
  BY <1>8
<1>13. QED BY <1>11, <1>12 DEF A, B, F

(* What moves weighs what the triggers take it for: a folder its own totals *)
(* and, where nodes are counted, itself.                                    *)
LEMMA MovingWeighs ==
    ASSUME GoodTable(row), NEW n \in Ids(row), row[n].type \in Counted, ~row[n].deleted
    PROVE  /\ SizesRight(row) => SumOf(FileSizes(row), Moving(n)) = row[n].size
           /\ CountsRight(row) => SumOf(Ones(row), Moving(n)) = MovedCount(row[n])
<1> DEFINE S == Under(row, n)  F == Moving(n)
<1>1. /\ IsFiniteSet(S) /\ S \subseteq Ids(row) /\ n \notin S
      /\ IsFiniteSet(F) /\ F \subseteq Ids(row) /\ n \in F /\ F \ {n} = S
  <2>1. IsFiniteSet(S) /\ S \subseteq Ids(row) /\ n \notin S
    BY UnderIsFinite DEF Under
  <2>2. F = S \cup {n}
    BY DEF Moving
  <2>3. IsFiniteSet(F)
    BY <2>1, <2>2, FS_AddElement
  <2>4. QED BY <2>1, <2>2, <2>3
<1>2. Ids(row) \subseteq Nodes /\ row[n].size \in Nat /\ row[n].count \in Nat
  BY IdsAreFinite, RowIs DEF GoodTable
<1>3. row[n].type = "FILE" => S = {} /\ row[n].count = 1
  BY UnderFile DEF GoodTable
<1>4. row[n].type = "FOLDER" => n \in Of(row, Containers)
  BY DEF Of, Containers
<1>5. row[n].type = "FILE" \/ row[n].type = "FOLDER"
  BY DEF Counted
<1>6. \A W : (\A m \in Nodes : W[m].size \in Nat) =>
          SumOf(W, F) = W[n].size + SumOf(W, S) /\ SumOf(W, {}) = 0
  <2>1. ASSUME NEW W, \A m \in Nodes : W[m].size \in Nat
        PROVE  SumOf(W, F) = W[n].size + SumOf(W, S) /\ SumOf(W, {}) = 0
    <3> HIDE DEF S, F
    <3>1. \A m \in F : W[m].size \in Nat
      BY <1>1, <1>2, <2>1
    <3>2. SumOf(W, F) = W[n].size + SumOf(W, F \ {n})
      BY <1>1, <3>1, SumFacts
    <3>3. SumOf(W, {}) = 0
      BY FS_EmptySet, SumFacts
    <3>4. QED BY <1>1, <3>2, <3>3
  <2>2. QED BY <2>1
<1>7. ASSUME SizesRight(row) PROVE SumOf(FileSizes(row), F) = row[n].size
  <2> DEFINE W == FileSizes(row)
  <2>1. /\ \A m \in Nodes : W[m].size \in Nat
        /\ W[n].size = IF row[n].type = "FILE" THEN row[n].size ELSE 0
    BY WeightsAre
  <2>2. n \in Of(row, Containers) => row[n].size = SumOf(W, S)
    BY <1>2, <1>7, SizesAreTotals DEF Totals, Sized, Of
  <2> HIDE DEF W, S, F
  <2>3. SumOf(W, F) = W[n].size + SumOf(W, S) /\ SumOf(W, {}) = 0
    BY <1>6, <2>1
  <2>4. CASE row[n].type = "FILE"
    <3>1. W[n].size = row[n].size /\ SumOf(W, S) = 0
      BY <1>3, <2>1, <2>3, <2>4
    <3>2. SumOf(W, F) = row[n].size
      BY <1>2, <2>3, <3>1
    <3>3. QED BY <3>2 DEF W
  <2>5. CASE row[n].type = "FOLDER"
    BY <1>2, <1>4, <2>1, <2>2, <2>3, <2>5 DEF W
  <2>6. QED BY <1>5, <2>4, <2>5
<1>8. ASSUME CountsRight(row) PROVE SumOf(Ones(row), F) = MovedCount(row[n])
  <2> DEFINE W == Ones(row)
  <2>1. (\A m \in Nodes : W[m].size \in Nat) /\ W[n].size = 1
    BY WeightsAre
  <2>2. n \in Of(row, Containers) => row[n].count = SumOf(W, S)
    BY <1>2, <1>8, CountsAreTotals DEF Totals, Numbered, Of
  <2> HIDE DEF W, S, F
  <2>3. SumOf(W, F) = W[n].size + SumOf(W, S) /\ SumOf(W, {}) = 0
    BY <1>6, <2>1
  <2>4. CASE row[n].type = "FILE"
    BY <1>2, <1>3, <2>1, <2>3, <2>4 DEF W, MovedCount
  <2>5. CASE row[n].type = "FOLDER"
    BY <1>2, <1>4, <2>1, <2>2, <2>3, <2>5 DEF W, MovedCount
  <2>6. QED BY <1>5, <2>4, <2>5
<1>9. QED BY <1>7, <1>8

LEMMA MovedIsRight ==
    ASSUME GoodTable(row), PathsRight(row), NEW n, NEW new, NEW u,
           MovedTo(n, new, u), PathsRight(u), row[n].parent # new.parent,
           row[n].type = new.type
    PROVE  /\ SizesRight(row) => SizesRight(u)
           /\ CountsRight(row) => CountsRight(u)
<1> DEFINE A == From(n)  B == To(new)  F == Moving(n)  k == MovedCount(row[n])
<1>1. /\ Ids(u) = Ids(row) /\ GoodTable(u) /\ n \in Ids(row) /\ row[n].type \in Counted
      /\ row[n].parent \in Ids(row) /\ new.parent \in Ids(row)
      /\ ~row[n].deleted /\ Ids(row) \subseteq Nodes
  BY IdsAreFinite DEF MovedTo
<1>2. \A m \in Ids(row) :
          /\ u[m].type = row[m].type /\ u[m].deleted = row[m].deleted
          /\ m \notin A /\ m \notin B =>
                u[m].size = row[m].size /\ u[m].count = row[m].count
          /\ m \in A /\ m \notin B =>
                /\ u[m].size = row[m].size - row[n].size
                /\ u[m].count = row[m].count - k
          /\ m \notin A /\ m \in B =>
                /\ u[m].size = row[m].size + row[n].size
                /\ u[m].count = row[m].count + k
          /\ m \in A /\ m \in B =>
                /\ u[m].size = (row[m].size - row[n].size) + row[n].size
                /\ u[m].count = (row[m].count - k) + k
  BY DEF MovedTo
<1>3. /\ F \in SUBSET Ids(row)
      /\ \A c \in Of(row, Containers) :
            /\ c \in A => F \subseteq Under(row, c)
            /\ c \in B /\ c \notin A => F \cap Under(row, c) = {}
            /\ Under(u, c) = IF c \in B /\ c \notin A THEN Under(row, c) \cup F
                             ELSE IF c \in A /\ c \notin B THEN Under(row, c) \ F
                             ELSE Under(row, c)
  BY UnderMoved
<1>4. Of(u, Containers) = Of(row, Containers) /\ Of(row, Containers) \subseteq Ids(row)
  BY <1>1, <1>2 DEF Of
<1>5. \A m \in Ids(row) : row[m].type = "FILE" => m \notin A /\ m \notin B
  <2>1. row[n].parent \in Of(row, Containers) /\ new.parent \in Of(row, Containers)
    <3>1. /\ ValidParent(row, row[n].type, row[n].parent)
          /\ ValidParent(u, u[n].type, u[n].parent) /\ u[n].parent = new.parent
      BY <1>1 DEF GoodTable, MovedTo
    <3>2. row[n].parent # None /\ new.parent # None
      BY <1>1, RowIs, NoneAssumption DEF GoodTable
    <3>3. QED BY <1>1, <1>2, <3>1, <3>2 DEF ValidParent, ValidParents, Of, Containers, Counted
  <2>2. \A m \in A \cup B : m \in Of(row, Containers)
    BY <1>1, <2>1, OnPath DEF From, To
  <2>3. QED BY <2>2 DEF Of, Containers
<1> HIDE DEF A, B, F, k
<1>6. ASSUME SizesRight(row) PROVE SizesRight(u)
  <2> DEFINE W == FileSizes(row)  X == FileSizes(u)  v == Sized(row)  x == Sized(u)
             s == row[n].size
  <2>1. Totals(row, W, v)
    BY <1>6, SizesAreTotals
  <2>2. \A m \in Ids(row) : /\ W[m].size = IF ~row[m].deleted /\ row[m].type = "FILE"
                                             THEN row[m].size ELSE 0
                            /\ X[m].size = IF ~u[m].deleted /\ u[m].type = "FILE"
                                             THEN u[m].size ELSE 0
                            /\ W[m].size \in Nat
    BY <1>1, WeightsAre
  <2>3. \A c \in Of(row, Containers) : v[c] = row[c].size /\ x[c] = u[c].size
    BY <1>1, <1>4 DEF Sized
  <2>4. s = SumOf(W, F)
    BY <1>1, <1>6, MovingWeighs DEF F
  <2> HIDE DEF W, X, v, x
  <2>5. \A m \in Ids(row) : X[m].size = W[m].size
    BY <1>2, <1>5, <2>2
  <2>6. ASSUME NEW c \in Of(row, Containers)
        PROVE  x[c] = IF c \in A THEN IF c \in B THEN (v[c] - s) + s ELSE v[c] - s
                      ELSE IF c \in B THEN v[c] + s ELSE v[c]
    BY <1>2, <1>4, <2>3
  <2> HIDE DEF s
  <2>7. Totals(u, X, x)
    <3>1. \A m \in Ids(row) : W[m].size \in Nat
      BY <2>2
    <3>2. \A c \in Of(row, Containers) :
              x[c] = IF c \in A THEN IF c \in B THEN (v[c] - SumOf(W, F)) + SumOf(W, F)
                                 ELSE v[c] - SumOf(W, F)
                     ELSE IF c \in B THEN v[c] + SumOf(W, F) ELSE v[c]
      BY <2>4, <2>6
    <3>3. QED BY <1>3, <1>4, <2>1, <2>5, <3>1, <3>2, TotalsMoved
  <2>8. QED BY <1>1, <2>7, SizesAreTotals DEF X, x
<1>7. ASSUME CountsRight(row) PROVE CountsRight(u)
  <2> DEFINE W == Ones(row)  X == Ones(u)  v == Numbered(row)  x == Numbered(u)
  <2>1. Totals(row, W, v)
    BY <1>7, CountsAreTotals
  <2>2. \A m \in Ids(row) : /\ W[m].size = IF ~row[m].deleted /\ row[m].type \in Counted
                                             THEN 1 ELSE 0
                            /\ X[m].size = IF ~u[m].deleted /\ u[m].type \in Counted
                                             THEN 1 ELSE 0
                            /\ W[m].size \in Nat
    BY <1>1, WeightsAre
  <2>3. \A c \in Of(row, Containers) : v[c] = row[c].count /\ x[c] = u[c].count
    BY <1>1, <1>4 DEF Numbered
  <2>4. k = SumOf(W, F)
    BY <1>1, <1>7, MovingWeighs DEF F, k
  <2> HIDE DEF W, X, v, x
  <2>5. \A m \in Ids(row) : X[m].size = W[m].size
    BY <1>2, <2>2
  <2>6. ASSUME NEW c \in Of(row, Containers)
        PROVE  x[c] = IF c \in A THEN IF c \in B THEN (v[c] - k) + k ELSE v[c] - k
                      ELSE IF c \in B THEN v[c] + k ELSE v[c]
    BY <1>2, <1>4, <2>3
  <2>7. Totals(u, X, x)
    <3>1. \A m \in Ids(row) : W[m].size \in Nat
      BY <2>2
    <3>2. \A c \in Of(row, Containers) :
              x[c] = IF c \in A THEN IF c \in B THEN (v[c] - SumOf(W, F)) + SumOf(W, F)
                                 ELSE v[c] - SumOf(W, F)
                     ELSE IF c \in B THEN v[c] + SumOf(W, F) ELSE v[c]
      BY <2>4, <2>6
    <3>3. QED BY <1>3, <1>4, <2>1, <2>5, <3>1, <3>2, TotalsMoved
  <2>8. QED BY <1>1, <2>7, CountsAreTotals DEF X, x
<1>8. QED BY <1>6, <1>7

-----------------------------------------------------------------------------
(* Sizes and counts.                                                        *)

LEMMA SavedIsRight ==
    ASSUME GoodTable(row), PathsRight(row), NEW n, NEW new, Savable(n, new),
           Updated(n, new) # row, Breaks(n, new) = {}
    PROVE  /\ SizesRight(row) => SizesRight(Updated(n, new))
           /\ CountsRight(row) => CountsRight(Updated(n, new))
<1>1. CASE row[n].parent = new.parent
  BY <1>1, AloneIsRight
<1>2. CASE row[n].parent # new.parent
  <2> DEFINE u == Updated(n, new)
  <2>1. PathsRight(u)
    BY PathsUpdated
  <2>2. MovedTo(n, new, u)
    BY <1>2, SavedMoved
  <2>3. row[n].type = new.type
    BY DEF Savable
  <2> HIDE DEF u
  <2>4. /\ SizesRight(row) => SizesRight(u)
        /\ CountsRight(row) => CountsRight(u)
    BY <1>2, <2>1, <2>2, <2>3, MovedIsRight
  <2>5. QED BY <2>4 DEF u
<1>3. QED BY <1>1, <1>2

(* While nothing is broken, paths, sizes and counts are right together.     *)
Right == broken = {} => PathsRight(row) /\ SizesRight(row) /\ CountsRight(row)

LEMMA RightStep == Sound /\ PathFollowsParent /\ Right /\ [Next]_vars => Right'
<1> SUFFICES ASSUME Sound, PathFollowsParent, Right, [Next]_vars, broken' = {}
             PROVE  PathsRight(row') /\ SizesRight(row') /\ CountsRight(row')
  BY DEF Right
<1>1. GoodTable(row)
  BY DEF Sound
<1>2. PathsRight(row')
  <2>1. PathFollowsParent'
    BY PathsStep
  <2>2. QED BY <2>1 DEF PathFollowsParent
<1>3. CASE row' = row /\ broken' = broken
  BY <1>3 DEF Right
<1>4. CASE Creates
  <2>1. PICK p \in Ids(row), size \in Nat, type \in Containers \cup {"FILE"} :
            /\ type # "FILE" => size = 0
            /\ ValidParent(row, type, p) /\ Nodes \ Ids(row) # {}
            /\ row' = Inserted(NewNode, type, p, size)
            /\ UNCHANGED <<held, broken, writes>>
    BY <1>4 DEF Creates
  <2>2. InsertedTo(NewNode, type, p, size, Inserted(NewNode, type, p, size))
    BY <1>1, <2>1, InsertedIs
  <2>3. InsertedTo(NewNode, type, p, size, row')
    BY <2>1, <2>2
  <2>4. PathsRight(row) /\ SizesRight(row) /\ CountsRight(row)
    BY <2>1 DEF Right
  <2>5. SizesRight(row') /\ CountsRight(row')
    BY <1>1, <2>1, <2>3, <2>4, InsertedIsRight
  <2>6. QED BY <1>2, <2>5
<1>5. CASE Saves
  <2>0. PICK a \in Actors : \E new : Savable(held[a].id, new) /\ Save(a, new)
    BY <1>5 DEF Saves
  <2>1. PICK new : Savable(held[a].id, new) /\ Save(a, new)
    BY <2>0
  <2> DEFINE n == held[a].id
             u == Updated(n, new)
  <2>2. /\ row' = u /\ broken' = broken \cup Breaks(n, new) /\ Savable(n, new)
    BY <2>1 DEF Save
  <2>3. /\ PathsRight(row) /\ SizesRight(row) /\ CountsRight(row) /\ Breaks(n, new) = {}
    BY <2>2 DEF Right
  <2> HIDE DEF n
  <2>4. u # row => SizesRight(u) /\ CountsRight(u)
    BY <1>1, <2>2, <2>3, SavedIsRight
  <2> HIDE DEF u
  <2>5. QED BY <1>2, <2>2, <2>3, <2>4
<1>6. CASE Deletes
  <2>1. PICK a \in Users : Delete(a)
    BY <1>6 DEF Deletes
  <2> DEFINE ds == Doomed(held[a].was)
             u == Deleted(ds)
  <2>2. (row' = u \/ row' = row) /\ broken' = broken
    BY <2>1 DEF Delete
  <2>3. SizesRight(row) /\ CountsRight(row)
    BY <2>2 DEF Right
  <2>4. ds \in SUBSET Undeleted(row) /\ ds \in SUBSET Ids(row)
    BY DEF Doomed, Undeleted
  <2> HIDE DEF ds
  <2>5. u # row => DeletedTo(ds, u)
    BY <1>1, <2>4, DeletedIs
  <2> HIDE DEF u
  <2>6. u # row => SizesRight(u) /\ CountsRight(u)
    BY <1>1, <2>3, <2>4, <2>5, DeletedIsRight
  <2>7. QED BY <1>2, <2>2, <2>3, <2>6
<1>7. ~Recalculates
  BY DEF Recalculates
<1>8. Reads => row' = row /\ broken' = broken
  BY DEF Reads
<1>9. UNCHANGED vars => row' = row /\ broken' = broken
  BY DEF vars
<1>10. QED BY <1>3, <1>4, <1>5, <1>6, <1>7, <1>8, <1>9, StepIs

LEMMA AlwaysRight == Spec => []Right
<1>1. Init => Right
  BY TreeAssumption DEF Init, Right
<1>2. QED BY <1>1, AlwaysSound, PathIsFollowed, RightStep, PTL DEF Spec

(* The file_count that the triggers keep in a container is that of the      *)
(* files and folders below it, whatever is created, moved, replaced,        *)
(* deleted or brought back by a late save, in any number of nodes and       *)
(* requests, as long as no row was written that others had changed, and     *)
(* nothing was recalculated.                                                *)
THEOREM CountsAreExact == Spec => []CountsExact
<1>1. Right => CountsExact
  BY DEF Right, CountsExact
<1>2. QED BY <1>1, AlwaysRight, PTL

-----------------------------------------------------------------------------
(* Deletions.                                                               *)

(* What a function like Lineage satisfies.                                  *)
IsLineage(f) ==
    f = [n \in Ids(row) |-> IF row[n].parent = None THEN {n}
                            ELSE {n} \cup f[row[n].parent]]

(* By parents, a node is below the nodes of its path: there is such a       *)
(* function, and the shortest path at which another one differed would have *)
(* a parent at which it differs, too.                                       *)
LEMMA LineageIs ==
    ASSUME GoodTable(row), PathsRight(row)
    PROVE  \A n \in Ids(row) : Lineage[n] = On(row, n)
<1>1. \A n \in Ids(row) :
         /\ row[n].parent = None => On(row, n) = {n}
         /\ row[n].parent # None =>
               row[n].parent \in Ids(row) /\ On(row, n) = {n} \cup On(row, row[n].parent)
  BY OnParent DEF Of
<1>2. \E f : IsLineage(f)
  <2> DEFINE f == [n \in Ids(row) |-> On(row, n)]
  <2>1. \A n \in Ids(row) : f[n] = On(row, n)
    OBVIOUS
  <2>2. f = [n \in Ids(row) |-> f[n]]
    OBVIOUS
  <2>3. \A n \in Ids(row) : f[n] = IF row[n].parent = None THEN {n}
                                   ELSE {n} \cup f[row[n].parent]
    <3> HIDE DEF f
    <3>1. QED BY <1>1, <2>1
  <2> HIDE DEF f
  <2>4. IsLineage(f)
    BY <2>2, <2>3 DEF IsLineage
  <2>5. QED BY <2>4
<1>3. Lineage = CHOOSE f : IsLineage(f)
  BY DEF Lineage, IsLineage
<1>4. IsLineage(Lineage)
  BY <1>2, <1>3
<1>5. PICK f : f = Lineage
  OBVIOUS
<1>6. \A n \in Ids(row) : f[n] = IF row[n].parent = None THEN {n}
                                 ELSE {n} \cup f[row[n].parent]
  BY <1>4, <1>5 DEF IsLineage
<1> DEFINE Bad == {k \in Nat : \E n \in Ids(row) : Len(row[n].path) = k /\ f[n] # On(row, n)}
<1>7. ASSUME Bad # {} PROVE FALSE
  <2>1. PICK k \in Bad : \A j \in Bad : k <= j
    BY <1>7, Least
  <2>2. PICK n \in Ids(row) : Len(row[n].path) = k /\ f[n] # On(row, n)
    BY <2>1
  <2>3. row[n].parent # None
    BY <1>1, <1>6, <2>2
  <2>4. PICK p \in Ids(row) : p = row[n].parent
    BY <1>1, <2>3
  <2>5. f[p] # On(row, p)
    <3>1. f[n] = {n} \cup f[p] /\ On(row, n) = {n} \cup On(row, p)
      BY <1>1, <1>6, <2>3, <2>4
    <3> HIDE DEF Bad
    <3>2. QED BY <2>2, <3>1
  <2>6. row[n].path = Append(row[p].path, n)
    BY <2>3, <2>4 DEF PathsRight
  <2>7. row[p].path \in Seq(Nodes) /\ Len(row[p].path) \in Nat
    BY PathTypes
  <2>8. Len(Append(row[p].path, n)) = Len(row[p].path) + 1
    BY <2>7
  <2>9. Len(row[p].path) \in Bad
    BY <2>5, <2>7
  <2>10. k <= Len(row[p].path) /\ k = Len(row[p].path) + 1
    BY <2>1, <2>2, <2>6, <2>8, <2>9
  <2>11. QED BY <2>7, <2>10
<1>8. \A n \in Ids(row) : Len(row[n].path) \in Nat
  BY PathTypes
<1>9. QED BY <1>5, <1>7, <1>8

(* The sums of a right table can be lessened by what is undeleted below.    *)
LEMMA DeletedIsChecked ==
    ASSUME GoodTable(row), SizesRight(row), CountsRight(row),
           NEW ds \in SUBSET Undeleted(row)
    PROVE  Checked(DeletedRows(ds)) /\ Ids(DeletedRows(ds)) = Ids(row)
<1> DEFINE u == DeletedRows(ds)
<1>1. DOMAIN row = Nodes /\ Ids(row) \subseteq Nodes /\ IsFiniteSet(Ids(row))
  BY IdsAreFinite
<1>2. \A m \in Nodes : u[m] = IF row[m] = None THEN None ELSE DeletedRow(ds, m)
  BY <1>1 DEF DeletedRows
<1>3. \A m \in Ids(row) : u[m] = DeletedRow(ds, m)
  BY <1>1, <1>2 DEF Ids
<1>4. DOMAIN u = Nodes
  BY <1>1 DEF DeletedRows
<1>5. Ids(u) \subseteq Ids(row)
  <2> HIDE DEF u
  <2>1. QED BY <1>1, <1>2, <1>4 DEF Ids
<1>6. ASSUME NEW m \in Ids(row)
      PROVE  /\ row[m].size - SumOf(row, Gone(ds, m, {"FILE"})) >= 0
             /\ row[m].count - Cardinality(Gone(ds, m, Counted)) >= 0
             /\ row[m].size - SumOf(row, Gone(ds, m, {"FILE"})) \in Int
             /\ row[m].count - Cardinality(Gone(ds, m, Counted)) \in Int
  <2>1. row[m].size \in Nat /\ row[m].count \in Nat /\ row[m].type \in Containers \cup {"FILE"}
    BY RowIs DEF GoodTable
  <2>2. CASE row[m].type = "FILE"
    <3>1. Gone(ds, m, {"FILE"}) = {} /\ Gone(ds, m, Counted) = {}
      BY <2>2, UnderFile DEF Gone
    <3>2. SumOf(row, {}) = 0 /\ Cardinality({}) = 0
      BY SumFacts, FS_EmptySet
    <3>3. QED BY <2>1, <3>1, <3>2
  <2>3. CASE row[m].type \in Containers
    <3> DEFINE F == Under(row, m) \cap Undeleted(row) \cap Of(row, {"FILE"})
               C == Under(row, m) \cap Undeleted(row) \cap Of(row, Counted)
               G == Gone(ds, m, {"FILE"})
               H == Gone(ds, m, Counted)
    <3>1. m \in Of(row, Containers)
      BY <2>3 DEF Of
    <3>2. row[m].size = SumOf(row, F) /\ row[m].count = Cardinality(C)
      BY <3>1 DEF SizesRight, CountsRight
    <3>3. G \subseteq F /\ H \subseteq C
      BY DEF Gone
    <3>4. F \subseteq Ids(row) /\ C \subseteq Ids(row)
      BY DEF Of
    <3>5. IsFiniteSet(F) /\ IsFiniteSet(C)
      BY <1>1, <3>4, FS_Subset
    <3>6. \A x \in F : row[x].size \in Nat
      BY <3>4, RowIs DEF GoodTable
    <3> HIDE DEF F, C, G, H
    <3>7. IsFiniteSet(G) /\ IsFiniteSet(H) /\ IsFiniteSet(F \ G)
      BY <3>3, <3>5, FS_Subset
    <3>8. SumOf(row, G \cup (F \ G)) = SumOf(row, G) + SumOf(row, F \ G)
      BY <3>3, <3>6, <3>7, SumUnion
    <3>9. SumOf(row, G) \in Nat /\ SumOf(row, F \ G) \in Nat
      BY <3>3, <3>6, <3>7, SumFacts
    <3>10. G \cup (F \ G) = F
      BY <3>3
    <3>11. /\ Cardinality(H) <= Cardinality(C) /\ Cardinality(H) \in Nat
           /\ Cardinality(C) \in Nat
      BY <3>3, <3>5, <3>7, FS_Subset, FS_CardinalityType
    <3>12. row[m].size >= SumOf(row, G)
      BY <2>1, <3>2, <3>8, <3>9, <3>10
    <3>13. QED BY <2>1, <3>2, <3>9, <3>11, <3>12 DEF G, H
  <2>4. QED BY <2>1, <2>2, <2>3
<1>7. ASSUME NEW m \in Ids(row) PROVE u[m].size >= 0 /\ u[m].count >= 0 /\ u[m] # None
  <2>1. row[m] \in Row /\ row[m].deleted \in BOOLEAN /\ Dead(ds, m) \in BOOLEAN
    <3>1. row[m] \in Row /\ row[m].deleted \in BOOLEAN
      BY RowIs DEF GoodTable
    <3>2. QED BY <3>1 DEF Dead
  <2>2. PICK c \in Int, z \in Int :
            /\ z = row[m].size - SumOf(row, Gone(ds, m, {"FILE"}))
            /\ c = row[m].count - Cardinality(Gone(ds, m, Counted))
    BY <1>6
  <2>3. PICK b \in BOOLEAN : b = Dead(ds, m)
    BY <2>1
  <2>4. u[m] = [type |-> row[m].type, parent |-> row[m].parent, path |-> row[m].path,
                size |-> z, count |-> c, deleted |-> b]
    BY <1>3, <2>2, <2>3 DEF DeletedRow
  <2>5. u[m] \in SummedRow
    BY <2>1, <2>4 DEF SummedRow, Row, RowOf
  <2>6. None \notin SummedRow
    BY NoneAssumption DEF SummedRow
  <2>7. u[m] \in SummedRow /\ u[m].size = z /\ u[m].count = c
    BY <2>4, <2>5
  <2>8. QED BY <1>6, <2>2, <2>6, <2>7
<1>8. Ids(u) = Ids(row)
  <2> HIDE DEF u
  <2>1. QED BY <1>1, <1>4, <1>5, <1>7 DEF Ids
<1> HIDE DEF u
<1>9. QED BY <1>7, <1>8 DEF Checked, u

(* What a deletion by the path of a node dooms is what is below it by       *)
(* parents.                                                                 *)
Family(n) == {m \in Undeleted(row) : n \in Lineage[m]}

LEMMA FamilyIsDoomed ==
    ASSUME GoodTable(row), PathsRight(row), NEW n \in Ids(row)
    PROVE  Doomed(row[n]) = Family(n)
<1>1. \A m \in Ids(row) : IsPrefix(row[n].path, row[m].path) <=> n \in On(row, m)
  BY PrefixOn
<1>2. \A m \in Ids(row) : Lineage[m] = On(row, m)
  BY LineageIs
<1>3. QED BY <1>1, <1>2 DEF Doomed, Family, Below, Undeleted

(* Deleting it marks that, and nothing else, or is refused for a size.      *)
LEMMA FamilyIsDeleted ==
    ASSUME GoodTable(row), PathsRight(row), SizesRight(row), CountsRight(row),
           NEW n \in Ids(row)
    PROVE  \/ Undeleted(row) \ Undeleted(Deleted(Family(n))) = Family(n)
           \/ Deleted(Family(n)) = row /\ \E m \in Family(n) : row[m].size > IntMax
<1> DEFINE ds == Family(n)
<1>1. ds \in SUBSET Undeleted(row) /\ ds \in SUBSET Ids(row)
  BY DEF Family, Undeleted
<1> HIDE DEF ds
<1>2. Deleted(ds) = IF \/ \E m \in ds : row[m].type \in Counted /\ row[m].size > IntMax
                       \/ ~Checked(DeletedRows(ds))
                    THEN row ELSE DeletedRows(ds)
  BY <1>1, DeletedIsRows
<1>3. Checked(DeletedRows(ds)) /\ Ids(DeletedRows(ds)) = Ids(row)
  BY <1>1, DeletedIsChecked
<1>4. CASE \E m \in ds : row[m].type \in Counted /\ row[m].size > IntMax
  BY <1>2, <1>4 DEF ds
<1>5. CASE ~ \E m \in ds : row[m].type \in Counted /\ row[m].size > IntMax
  <2> DEFINE u == DeletedRows(ds)
  <2>1. Deleted(ds) = u
    BY <1>2, <1>3, <1>5
  <2>2. DOMAIN row = Nodes /\ Ids(row) \subseteq Nodes
    BY IdsAreFinite
  <2>3. \A m \in Ids(row) : u[m] = DeletedRow(ds, m)
    BY <2>2 DEF DeletedRows, Ids
  <2>4. \A m \in Ids(row) : u[m].deleted = Dead(ds, m)
    <3> HIDE DEF u
    <3>1. TAKE m \in Ids(row)
    <3>2. PICK b, c, z : /\ b = Dead(ds, m)
                         /\ c = row[m].count - Cardinality(Gone(ds, m, Counted))
                         /\ z = row[m].size - SumOf(row, Gone(ds, m, {"FILE"}))
      OBVIOUS
    <3>3. u[m] = [type |-> row[m].type, parent |-> row[m].parent, path |-> row[m].path,
                  size |-> z, count |-> c, deleted |-> b]
      BY <2>3, <3>2 DEF DeletedRow
    <3>4. QED BY <3>2, <3>3
  <2>5. Ids(u) = Ids(row)
    BY <1>3
  <2> HIDE DEF u
  <2>6. \A m \in Ids(row) : u[m].deleted <=> (m \in ds \/ row[m].deleted)
    BY <2>4 DEF Dead
  <2>7. Undeleted(u) = Undeleted(row) \ ds
    BY <2>5, <2>6 DEF Undeleted
  <2>8. Undeleted(row) \ Undeleted(u) = ds
    BY <1>1, <2>7
  <2>9. QED BY <2>1, <2>8 DEF ds
<1>6. QED BY <1>4, <1>5

(* A step of the specification that deletes a node found as it was read     *)
(* does that.                                                               *)
DeletionsRight ==
    \A u \in Users :
        LET n == held[u].id
            family == {m \in Undeleted(row) : n \in Lineage[m]}
        IN  broken = {} /\ held[u] # None /\ held'[u] = None
            /\ row[n] = held[u].was /\ Delete(u) =>
              \/ Undeleted(row) \ Undeleted(row') = family
              \/ row' = row /\ \/ row[n].type \notin Counted
                               \/ \E m \in family : row[m].size > IntMax

LEMMA DeletionStep == Sound /\ Right => DeletionsRight
<1> SUFFICES ASSUME Sound, Right, NEW u \in Users,
                    broken = {}, held[u] # None, row[held[u].id] = held[u].was, Delete(u)
             PROVE  \/ Undeleted(row) \ Undeleted(row') = Family(held[u].id)
                    \/ row' = row /\ \/ row[held[u].id].type \notin Counted
                                     \/ \E m \in Family(held[u].id) : row[m].size > IntMax
  BY DEF DeletionsRight, Family
<1> DEFINE n == held[u].id
<1>1. GoodTable(row) /\ PathsRight(row) /\ SizesRight(row) /\ CountsRight(row)
  BY DEF Sound, Right
<1>2. u \in Actors /\ held[u] \in Instance
  BY DEF Actors, Sound, GoodHeld
<1>3. n \in Nodes /\ held[u].was \in Row
  BY <1>2 DEF Instance
<1>4. n \in Ids(row)
  BY <1>1, <1>3, NoneIsNoRow, IdsAreFinite DEF Ids
<1>5. row' = IF row[n].type \in Counted THEN Deleted(Doomed(row[n])) ELSE row
  BY DEF Delete
<1> HIDE DEF n
<1>6. Doomed(row[n]) = Family(n)
  BY <1>1, <1>4, FamilyIsDoomed
<1>7. \/ Undeleted(row) \ Undeleted(Deleted(Family(n))) = Family(n)
      \/ Deleted(Family(n)) = row /\ \E m \in Family(n) : row[m].size > IntMax
  BY <1>1, <1>4, FamilyIsDeleted
<1>8. CASE row[n].type \in Counted
  <2>1. row' = Deleted(Family(n))
    BY <1>5, <1>6, <1>8
  <2>2. QED BY <1>7, <2>1 DEF n
<1>9. CASE row[n].type \notin Counted
  BY <1>5, <1>9 DEF n
<1>10. QED BY <1>8, <1>9

(* A deletion that finds the node as it was read, in a tree where no row    *)
(* was written late, marks exactly the undeleted nodes that are below it by *)
(* their parents (TreeNode.delete goes by paths); only a size above the int *)
(* of the trigger keeps it from that, and then nothing is marked.           *)
THEOREM DeletionsAreAsAsked == Spec => DeletesAsAsked
<1>1. Sound /\ Right /\ [Next]_vars => [DeletionsRight]_vars
  BY DeletionStep
<1>2. Spec => [][DeletionsRight]_vars
  BY <1>1, AlwaysSound, AlwaysRight, PTL DEF Spec
<1>3. QED BY <1>2, PTL DEF DeletesAsAsked, DeletionsRight

-----------------------------------------------------------------------------
(* What the walk of the recalculation computes.                             *)

(* In the order of paths a path comes before those it is a part of, and     *)
(* what has a path as a part is not interrupted by what has not.            *)
LEMMA PartBefore ==
    ASSUME NEW p \in Seq(Nat), NEW q \in Seq(Nat), IsPrefix(p, q), p # q
    PROVE  Before(p, q)
<1>1. /\ Len(p) \in Nat /\ Len(q) \in Nat /\ DOMAIN p = 1 .. Len(p) /\ DOMAIN q = 1 .. Len(q)
      /\ Len(p) <= Len(q) /\ \A i \in 1 .. Len(p) : p[i] = q[i]
  BY PrefixIs
<1>2. Len(p) # Len(q)
  <2>1. ASSUME Len(p) = Len(q) PROVE FALSE
    <3>1. p = q
      BY <1>1, <2>1, SeqEqual
    <3>2. QED BY <3>1
  <2>2. QED BY <2>1
<1>3. PICK k \in Nat, l \in Nat : k = Len(p) /\ l = Len(q)
  BY <1>1
<1>3a. k <= l /\ k # l
  BY <1>1, <1>2, <1>3
<1>4. k + 1 \in 1 .. l /\ k + 1 > k /\ (k + 1) - 1 = k
  BY <1>3a
<1>5. k + 1 \in DOMAIN q /\ k + 1 > Len(p)
  BY <1>1, <1>3, <1>4
<1>6. \A j \in 1 .. (k + 1) - 1 : j \in DOMAIN p /\ p[j] = q[j]
  BY <1>1, <1>3, <1>4
<1>7. QED BY <1>5, <1>6 DEF Before

LEMMA PartBetween ==
    ASSUME NEW a \in Seq(Nat), NEW p \in Seq(Nat), NEW q \in Seq(Nat), NEW r \in Seq(Nat),
           IsPrefix(a, p), IsPrefix(a, r), Before(p, q), Before(q, r)
    PROVE  IsPrefix(a, q)
<1>1. /\ Len(a) \in Nat /\ DOMAIN a = 1 .. Len(a) /\ \A i \in DOMAIN a : a[i] \in Nat
      /\ Len(p) \in Nat /\ DOMAIN p = 1 .. Len(p) /\ \A i \in DOMAIN p : p[i] \in Nat
      /\ Len(q) \in Nat /\ DOMAIN q = 1 .. Len(q) /\ \A i \in DOMAIN q : q[i] \in Nat
      /\ Len(r) \in Nat /\ DOMAIN r = 1 .. Len(r) /\ \A i \in DOMAIN r : r[i] \in Nat
  OBVIOUS
<1>2. /\ Len(a) <= Len(p) /\ \A j \in 1 .. Len(a) : a[j] = p[j]
      /\ Len(a) <= Len(r) /\ \A j \in 1 .. Len(a) : a[j] = r[j]
  BY PrefixIs
<1>3. PICK i \in DOMAIN q : /\ \A j \in 1 .. i - 1 : j \in DOMAIN p /\ p[j] = q[j]
                            /\ i > Len(p) \/ p[i] < q[i]
  BY DEF Before
<1>4. PICK k \in DOMAIN r : /\ \A j \in 1 .. k - 1 : j \in DOMAIN q /\ q[j] = r[j]
                            /\ k > Len(q) \/ q[k] < r[k]
  BY DEF Before
<1>5. i \in Nat /\ k \in Nat /\ i >= 1 /\ k >= 1 /\ i <= Len(q) /\ k <= Len(r)
  BY <1>1
<1>6. CASE i > Len(a)
  <2>1. Len(a) <= Len(q) /\ \A j \in 1 .. Len(a) : j \in 1 .. i - 1
    BY <1>1, <1>5, <1>6
  <2>2. \A j \in 1 .. Len(a) : a[j] = q[j]
    BY <1>2, <1>3, <2>1
  <2>3. QED BY <2>1, <2>2, PrefixIs
<1>7. ASSUME ~ (i > Len(a)) PROVE FALSE
  <2>0. PICK x \in Nat, y \in Nat, z \in Nat : x = Len(a) /\ y = Len(p) /\ z = Len(q)
    BY <1>1
  <2>0a. i <= x /\ x <= y
    BY <1>2, <1>5, <1>7, <2>0
  <2>0b. i \in 1 .. x /\ i \in 1 .. y /\ ~ (i > y)
    BY <1>5, <2>0a
  <2>1. i \in 1 .. Len(a) /\ i \in DOMAIN p /\ i \in DOMAIN q /\ ~ (i > Len(p))
    BY <1>1, <2>0, <2>0b
  <2>2. p[i] < q[i] /\ r[i] = p[i] /\ p[i] \in Nat /\ q[i] \in Nat
    BY <1>1, <1>2, <1>3, <2>1
  <2>3. CASE k < i
    <3>0a. i <= z
      BY <1>5, <2>0
    <3>0. k \in 1 .. x /\ k \in 1 .. i - 1 /\ k \in 1 .. z /\ ~ (k > z)
      BY <1>5, <2>0a, <2>3, <3>0a
    <3>1. k \in 1 .. Len(a) /\ k \in 1 .. i - 1 /\ k \in DOMAIN q /\ ~ (k > Len(q))
      BY <1>1, <2>0, <3>0
    <3>2. q[k] < r[k] /\ r[k] = p[k] /\ p[k] = q[k] /\ q[k] \in Nat
      BY <1>1, <1>2, <1>3, <1>4, <3>1
    <3>3. QED BY <3>2
  <2>4. CASE k = i
    <3>1. ~ (k > Len(q))
      BY <1>5, <2>4
    <3>2. q[i] < r[i]
      BY <1>4, <2>4, <3>1
    <3>3. QED BY <2>2, <3>2
  <2>5. CASE i < k
    <3>1. i \in 1 .. k - 1
      BY <1>5, <2>5
    <3>2. q[i] = r[i]
      BY <1>4, <3>1
    <3>3. QED BY <2>2, <3>2
  <2>6. QED BY <1>5, <2>3, <2>4, <2>5
<1>8. QED BY <1>6, <1>7

(* The rows are visited once each, in the order of their paths.             *)
LEMMA WalkOrder ==
    ASSUME GoodTable(row)
    PROVE  /\ Len(Walk) \in Nat
           /\ \A i \in 1 .. Len(Walk) : Walk[i] \in Undeleted(row)
           /\ \A n \in Undeleted(row) : \E i \in 1 .. Len(Walk) : Walk[i] = n
           /\ \A i, j \in 1 .. Len(Walk) :
                 i < j <=> Before(row[Walk[i]].path, row[Walk[j]].path)
<1> DEFINE S == Undeleted(row)
           R == {z \in S \X S : Before(row[z[1]].path, row[z[2]].path)}
           N == Len(Walk)
<1>1. IsFiniteSet(S) /\ N = Cardinality(S) /\ N \in Nat /\ \A i \in 1 .. N : Walk[i] \in S
  BY WalkIs
<1>2. \A x \in S : row[x].path \in Seq(Nat) /\ row[x].path[Len(row[x].path)] = x
  <2>1. \A x \in S : row[x].path \in Seq(Nodes) /\ row[x].path[Len(row[x].path)] = x
    BY PathTypes DEF Undeleted
  <2>2. Seq(Nodes) \subseteq Seq(Nat)
    BY NodesAssumption, SeqMonotonic
  <2>3. QED BY <2>1, <2>2
<1>3. \A x, y \in S : <<x, y>> \in R <=> Before(row[x].path, row[y].path)
  OBVIOUS
<1> DEFINE before(n) == {m \in S : Before(row[m].path, row[n].path)}
<1>4. ASSUME NEW n \in S PROVE Ahead(n, S, R) = Cardinality(before(n))
  <2>1. {m \in S : <<m, n>> \in R} = before(n)
    BY <1>3
  <2>2. QED BY <2>1 DEF Ahead
<1> HIDE DEF R
<1>5. \A x \in S : <<x, x>> \notin R
  BY <1>2, <1>3, BeforeOrders
<1>6. \A x, y, z \in S : <<x, y>> \in R /\ <<y, z>> \in R => <<x, z>> \in R
  BY <1>2, <1>3, BeforeOrders
<1>7. \A x, y \in S : x = y \/ <<x, y>> \in R \/ <<y, x>> \in R
  BY <1>2, <1>3, BeforeOrders
<1>8. /\ \A x \in S : Ahead(x, S, R) \in 0 .. (Cardinality(S) - 1)
      /\ \A x, y \in S : <<x, y>> \in R <=> Ahead(x, S, R) < Ahead(y, S, R)
      /\ \A x, y \in S : Ahead(x, S, R) = Ahead(y, S, R) => x = y
      /\ \A k \in 0 .. (Cardinality(S) - 1) : \E x \in S : Ahead(x, S, R) = k
  <2> HIDE DEF S
  <2>1. QED BY <1>1, <1>5, <1>6, <1>7, Places
<1>9. ASSUME NEW i \in 1 .. N PROVE Walk[i] \in S /\ Ahead(Walk[i], S, R) = i - 1
  <2>1. Walk[i] = CHOOSE n \in S : Cardinality(before(n)) = i - 1
    BY <1>1 DEF Walk
  <2>2. i - 1 \in 0 .. (Cardinality(S) - 1)
    BY <1>1
  <2>3. PICK x \in S : Ahead(x, S, R) = i - 1
    BY <1>8, <2>2
  <2>4. Cardinality(before(x)) = i - 1
    BY <1>4, <2>3
  <2> HIDE DEF before
  <2>5. Cardinality(before(Walk[i])) = i - 1 /\ Walk[i] \in S
    BY <2>1, <2>4
  <2>6. QED BY <1>4, <2>5
<1>10. ASSUME NEW n \in S PROVE \E i \in 1 .. N : Walk[i] = n
  <2>1. Ahead(n, S, R) \in 0 .. (Cardinality(S) - 1)
    BY <1>8
  <2>2. PICK i \in 1 .. N : i = Ahead(n, S, R) + 1
    <3>1. Ahead(n, S, R) + 1 \in 1 .. N
      BY <1>1, <2>1
    <3>2. QED BY <3>1
  <2>3. Ahead(Walk[i], S, R) = i - 1 /\ Walk[i] \in S
    BY <1>9
  <2>4. Ahead(Walk[i], S, R) = Ahead(n, S, R)
    BY <2>1, <2>2, <2>3
  <2>5. QED BY <1>8, <2>3, <2>4
<1>11. ASSUME NEW i \in 1 .. N, NEW j \in 1 .. N
       PROVE  i < j <=> Before(row[Walk[i]].path, row[Walk[j]].path)
  <2>1. /\ Walk[i] \in S /\ Ahead(Walk[i], S, R) = i - 1
        /\ Walk[j] \in S /\ Ahead(Walk[j], S, R) = j - 1
    BY <1>9
  <2>2. <<Walk[i], Walk[j]>> \in R <=> i - 1 < j - 1
    BY <1>8, <2>1
  <2>3. i - 1 < j - 1 <=> i < j
    BY <1>1
  <2>4. QED BY <1>3, <2>1, <2>2, <2>3
<1>12. QED BY <1>1, <1>10, <1>11

(* So a node is visited after the undeleted ones above it, and what is      *)
(* below a node is visited together.                                        *)
LEMMA WalkGoesDown ==
    ASSUME GoodTable(row), PathsRight(row)
    PROVE  /\ \A i, j \in 1 .. Len(Walk) : Walk[i] \in On(row, Walk[j]) => i <= j
           /\ \A i, j \in 1 .. Len(Walk) : Walk[i] = Walk[j] => i = j
           /\ \A a \in Ids(row) : \A i, j, k \in 1 .. Len(Walk) :
                 i <= j /\ j <= k /\ a \in On(row, Walk[i]) /\ a \in On(row, Walk[k])
                    => a \in On(row, Walk[j])
<1> DEFINE N == Len(Walk)
           p(n) == row[n].path
<1>1. /\ N \in Nat /\ \A i \in 1 .. N : Walk[i] \in Ids(row)
      /\ \A i, j \in 1 .. N : i < j <=> Before(p(Walk[i]), p(Walk[j]))
  BY WalkOrder DEF Undeleted
<1>2. \A n \in Ids(row) : p(n) \in Seq(Nat) /\ p(n)[Len(p(n))] = n
  <2>1. \A x \in Ids(row) : row[x].path \in Seq(Nodes) /\ row[x].path[Len(row[x].path)] = x
    BY PathTypes
  <2>2. Seq(Nodes) \subseteq Seq(Nat)
    BY NodesAssumption, SeqMonotonic
  <2>3. QED BY <2>1, <2>2
<1>3. \A n, m \in Ids(row) : IsPrefix(p(n), p(m)) <=> n \in On(row, m)
  BY PrefixOn
<1> HIDE DEF N, p
<1>4. ASSUME NEW i \in 1 .. N, NEW j \in 1 .. N, Walk[i] \in On(row, Walk[j]) PROVE i <= j
  <2>1. CASE p(Walk[i]) = p(Walk[j])
    <3>1. ~ Before(p(Walk[j]), p(Walk[i]))
      BY <1>1, <1>2, <2>1, BeforeOrders
    <3>2. ~ (j < i)
      BY <1>1, <3>1
    <3>3. QED BY <1>1, <3>2
  <2>2. CASE p(Walk[i]) # p(Walk[j])
    <3>1. IsPrefix(p(Walk[i]), p(Walk[j]))
      BY <1>1, <1>3, <1>4
    <3>2. p(Walk[i]) \in Seq(Nat) /\ p(Walk[j]) \in Seq(Nat)
      BY <1>1, <1>2
    <3>3. Before(p(Walk[i]), p(Walk[j]))
      BY <2>2, <3>1, <3>2, PartBefore
    <3>4. i < j
      BY <1>1, <3>3
    <3>5. QED BY <1>1, <3>4
  <2>3. QED BY <2>1, <2>2
<1>5. ASSUME NEW i \in 1 .. N, NEW j \in 1 .. N, Walk[i] = Walk[j] PROVE i = j
  <2>1. p(Walk[i]) \in Seq(Nat)
    BY <1>1, <1>2
  <2>2. ~ Before(p(Walk[i]), p(Walk[i]))
    BY <2>1, BeforeOrders
  <2>3. ~ (i < j) /\ ~ (j < i)
    BY <1>1, <1>5, <2>2
  <2>4. QED BY <1>1, <2>3
<1>6. ASSUME NEW a \in Ids(row), NEW i \in 1 .. N, NEW j \in 1 .. N, NEW k \in 1 .. N,
             i <= j, j <= k, a \in On(row, Walk[i]), a \in On(row, Walk[k])
      PROVE  a \in On(row, Walk[j])
  <2>1. CASE i = j \/ j = k
    BY <1>6, <2>1
  <2>2. CASE i < j /\ j < k
    <3>1. Before(p(Walk[i]), p(Walk[j])) /\ Before(p(Walk[j]), p(Walk[k]))
      BY <1>1, <2>2
    <3>2. IsPrefix(p(a), p(Walk[i])) /\ IsPrefix(p(a), p(Walk[k]))
      BY <1>1, <1>3, <1>6
    <3>3. /\ p(a) \in Seq(Nat) /\ p(Walk[i]) \in Seq(Nat)
          /\ p(Walk[j]) \in Seq(Nat) /\ p(Walk[k]) \in Seq(Nat)
      BY <1>1, <1>2
    <3>4. IsPrefix(p(a), p(Walk[j]))
      BY <3>1, <3>2, <3>3, PartBetween
    <3>5. QED BY <1>1, <1>3, <3>4
  <2>3. i = j \/ j = k \/ (i < j /\ j < k)
    BY <1>1, <1>6
  <2>4. QED BY <2>1, <2>2, <2>3
<1>7. QED BY <1>4, <1>5, <1>6 DEF N

(* What the walk counts: files, and containers in which something is.       *)
Filled(n) == row[n].type = "FILE" \/ ~Empty(n)
Tallied == [n \in Nodes |-> [size |-> IF n \in Undeleted(row) /\ Filled(n) THEN 1 ELSE 0]]
SizeOf(S) == SumOf(FileSizes(row), S)
CountOf(S) == SumOf(Tallied, S)

LEMMA SumsAre ==
    ASSUME GoodTable(row)
    PROVE  /\ SizeOf({}) = 0 /\ CountOf({}) = 0
           /\ \A S \in SUBSET Nodes : SizeOf(S) \in Nat /\ CountOf(S) \in Nat
           /\ \A S, T \in SUBSET Nodes : S \cap T = {} =>
                 /\ SizeOf(S \cup T) = SizeOf(S) + SizeOf(T)
                 /\ CountOf(S \cup T) = CountOf(S) + CountOf(T)
           /\ \A n \in Undeleted(row) :
                 /\ SizeOf({n}) = IF row[n].type = "FILE" THEN row[n].size ELSE 0
                 /\ CountOf({n}) = IF Filled(n) THEN 1 ELSE 0
           /\ \A S \in SUBSET Nodes :
                 /\ SizeOf(S) = SizeOf(S \cap Undeleted(row))
                 /\ CountOf(S) = CountOf(S \cap Undeleted(row))
<1> DEFINE F == FileSizes(row)
<1>1. \A n \in Nodes : F[n].size \in Nat /\ Tallied[n].size \in Nat
  BY WeightsAre DEF Tallied
<1>2. /\ \A n \in Undeleted(row) : F[n].size = IF row[n].type = "FILE" THEN row[n].size ELSE 0
      /\ \A n \in Undeleted(row) : Tallied[n].size = IF Filled(n) THEN 1 ELSE 0
      /\ \A n \in Nodes \ Undeleted(row) : F[n].size = 0 /\ Tallied[n].size = 0
      /\ Undeleted(row) \subseteq Nodes
  <2>1. Undeleted(row) \subseteq Nodes /\ Undeleted(row) \subseteq Ids(row)
    BY IdsAreFinite DEF Undeleted
  <2>2. \A n \in Undeleted(row) : n \in Of(row, {"FILE"}) <=> row[n].type = "FILE"
    BY <2>1 DEF Of
  <2>3. QED BY <2>1, <2>2 DEF FileSizes, Tallied
<1> HIDE DEF F
<1>3. \A S \in SUBSET Nodes : IsFiniteSet(S)
  BY NodesAssumption, FS_Subset
<1>4. \A S \in SUBSET Nodes : /\ \A x \in S : F[x].size \in Nat
                              /\ \A x \in S : Tallied[x].size \in Nat
  BY <1>1
<1>5. \A S \in SUBSET Nodes : /\ SumOf(F, S) \in Nat /\ SumOf(Tallied, S) \in Nat
                              /\ SumOf(F, {}) = 0 /\ SumOf(Tallied, {}) = 0
  BY <1>3, <1>4, SumFacts
<1>6. ASSUME NEW S \in SUBSET Nodes, NEW T \in SUBSET Nodes, S \cap T = {}
      PROVE  /\ SumOf(F, S \cup T) = SumOf(F, S) + SumOf(F, T)
             /\ SumOf(Tallied, S \cup T) = SumOf(Tallied, S) + SumOf(Tallied, T)
  <2>1. IsFiniteSet(S) /\ IsFiniteSet(T)
    BY <1>3
  <2>2. (\A x \in S \cup T : F[x].size \in Nat) /\ (\A x \in S \cup T : Tallied[x].size \in Nat)
    BY <1>4
  <2>3. QED BY <1>6, <2>1, <2>2, SumUnion
<1>7. ASSUME NEW n \in Nodes
      PROVE  SumOf(F, {n}) = F[n].size /\ SumOf(Tallied, {n}) = Tallied[n].size
  <2>1. IsFiniteSet({n}) /\ {n} \in SUBSET Nodes /\ n \in {n} /\ {n} \ {n} = {}
    BY <1>3
  <2>2. \A x \in {n} : F[x].size \in Nat
    BY <1>1
  <2>3. \A x \in {n} : Tallied[x].size \in Nat
    BY <1>1
  <2>4. SumOf(F, {n}) = F[n].size + SumOf(F, {n} \ {n})
    BY <2>1, <2>2, SumFacts
  <2>5. SumOf(Tallied, {n}) = Tallied[n].size + SumOf(Tallied, {n} \ {n})
    BY <2>1, <2>3, SumFacts
  <2>6. QED BY <1>1, <1>5, <2>1, <2>4, <2>5
<1>8. ASSUME NEW S \in SUBSET Nodes
      PROVE  /\ SumOf(F, S) = SumOf(F, S \cap Undeleted(row))
             /\ SumOf(Tallied, S) = SumOf(Tallied, S \cap Undeleted(row))
  <2> DEFINE R == S \cap Undeleted(row)
  <2>1. R \in SUBSET S /\ IsFiniteSet(S)
    BY <1>3
  <2>2. \A x \in R : F[x].size \in Nat /\ F[x].size = F[x].size
    BY <1>4
  <2>3. \A x \in R : Tallied[x].size \in Nat /\ Tallied[x].size = Tallied[x].size
    BY <1>4
  <2>4. \A x \in S : x \notin R => F[x].size = 0
    BY <1>2
  <2>5. \A x \in S : x \notin R => Tallied[x].size = 0
    BY <1>2
  <2> HIDE DEF R
  <2>6. SumOf(F, S) = SumOf(F, R)
    BY <2>1, <2>2, <2>4, SumSome
  <2>7. SumOf(Tallied, S) = SumOf(Tallied, R)
    BY <2>1, <2>3, <2>5, SumSome
  <2>8. QED BY <2>6, <2>7 DEF R
<1>9. \A n \in Undeleted(row) : SizeOf({n}) = F[n].size /\ CountOf({n}) = Tallied[n].size
  BY <1>2, <1>7 DEF SizeOf, CountOf, F
<1>10. /\ SizeOf({}) = 0 /\ CountOf({}) = 0
       /\ \A S \in SUBSET Nodes : SizeOf(S) \in Nat /\ CountOf(S) \in Nat
  BY <1>5 DEF SizeOf, CountOf, F
<1>11. \A S, T \in SUBSET Nodes : S \cap T = {} =>
                 /\ SizeOf(S \cup T) = SizeOf(S) + SizeOf(T)
                 /\ CountOf(S \cup T) = CountOf(S) + CountOf(T)
  BY <1>6 DEF SizeOf, CountOf, F
<1>12. \A S \in SUBSET Nodes :
                 /\ SizeOf(S) = SizeOf(S \cap Undeleted(row))
                 /\ CountOf(S) = CountOf(S \cap Undeleted(row))
  BY <1>8 DEF SizeOf, CountOf, F
<1>13. QED BY <1>2, <1>9, <1>10, <1>11, <1>12

(* The steps of the walk, as relations of its states.                       *)
TalliedTo(s, z, size, count) ==
    /\ z.ok = s.ok /\ z.out = s.out /\ Len(z.stack) = Len(s.stack)
    /\ \A j \in 1 .. Len(s.stack) :
          z.stack[j] = IF j = Len(s.stack)
                         THEN [id |-> s.stack[j].id, size |-> s.stack[j].size + size,
                               count |-> s.stack[j].count + count]
                         ELSE s.stack[j]

Writes(s, z, n, size, count) ==
    /\ DOMAIN z.out = DOMAIN s.out \cup {n}
    /\ \A m \in DOMAIN z.out :
          z.out[m] = IF m = n THEN [size |-> size, count |-> count] ELSE s.out[m]

PoppedTo(s, z, n) ==
    LET k == Len(s.stack)
        top == s.stack[k]
    IN  /\ z.ok = TRUE /\ Len(z.stack) = k - 1
        /\ \A j \in 1 .. k - 1 :
              z.stack[j] = IF j = k - 1
                             THEN [id |-> s.stack[j].id, size |-> s.stack[j].size + top.size,
                                   count |-> s.stack[j].count + (top.count + 1)]
                             ELSE s.stack[j]
        /\ Writes(s, z, n, top.size, top.count)

LEMMA TallyIs ==
    ASSUME NEW s \in Walks, s.stack # <<>>, NEW size \in Nat, NEW count \in Nat
    PROVE  TalliedTo(s, Tally(s, size, count), size, count)
<1>1. s.stack \in Seq(Open) /\ s.out \in Outs /\ s.ok \in BOOLEAN
  BY DEF Walks
<1>2. PICK st \in Seq(Open) : st = s.stack
  BY <1>1
<1>3. Len(st) \in 1 .. Len(st) /\ DOMAIN st = 1 .. Len(st)
  BY <1>2
<1>4. PICK top \in Open : top = st[Len(st)]
  BY <1>2, <1>3
<1> DEFINE new == [id |-> top.id, size |-> top.size + size, count |-> top.count + count]
<1>5. [top EXCEPT !.size = @ + size, !.count = @ + count] = new
  <2>1. top = [id |-> top.id, size |-> top.size, count |-> top.count]
    BY DEF Open
  <2>2. [top EXCEPT !.size = @ + size]
          = [id |-> top.id, size |-> top.size + size, count |-> top.count]
    BY <2>1
  <2>3. PICK a : a = [id |-> top.id, size |-> top.size + size, count |-> top.count]
    OBVIOUS
  <2>4. [a EXCEPT !.count = @ + count] = new
    BY <2>3
  <2>5. QED BY <2>2, <2>3, <2>4
<1> HIDE DEF new
<1>6. PICK u : u = [st EXCEPT ![Len(st)] = new]
  OBVIOUS
<1>7. /\ DOMAIN u = 1 .. Len(st)
      /\ \A j \in 1 .. Len(st) : u[j] = IF j = Len(st) THEN new ELSE st[j]
  BY <1>3, <1>6
<1>8. u \in Seq(Open \cup {new}) /\ Len(u) = Len(st)
  <2>1. st \in Seq(Open \cup {new}) /\ new \in Open \cup {new}
    BY <1>2, SeqMonotonic
  <2>2. QED BY <1>3, <1>6, <2>1, ExceptSeq
<1>9. Tally(s, size, count) = [s EXCEPT !.stack = u]
  BY <1>1, <1>2, <1>3, <1>4, <1>5, <1>6 DEF Tally, Walks
<1>10. PICK z : z = [s EXCEPT !.stack = u]
  OBVIOUS
<1>11. z.stack = u /\ z.ok = s.ok /\ z.out = s.out
  BY <1>10 DEF Walks
<1>12. TalliedTo(s, z, size, count)
  BY <1>2, <1>4, <1>7, <1>8, <1>11 DEF TalliedTo, new
<1>13. QED BY <1>9, <1>10, <1>12

LEMMA EmitIs ==
    ASSUME NEW s \in Walks, NEW n, NEW size, NEW count
    PROVE  LET z == Emit(s, n, size, count)
           IN  z.stack = s.stack /\ z.ok = s.ok /\ Writes(s, z, n, size, count)
<1>1. PICK f : f = [m \in DOMAIN s.out \cup {n} |->
                      IF m = n THEN [size |-> size, count |-> count] ELSE s.out[m]]
  OBVIOUS
<1>2. /\ DOMAIN f = DOMAIN s.out \cup {n}
      /\ \A m \in DOMAIN f : f[m] = IF m = n THEN [size |-> size, count |-> count] ELSE s.out[m]
  BY <1>1
<1>3. PICK z : z = [s EXCEPT !.out = f]
  OBVIOUS
<1>4. z.stack = s.stack /\ z.ok = s.ok /\ z.out = f
  BY <1>3 DEF Walks
<1>5. Emit(s, n, size, count) = z
  BY <1>1, <1>3 DEF Emit
<1>6. QED BY <1>2, <1>4, <1>5 DEF Writes

LEMMA PopIs ==
    ASSUME NEW s \in Walks, s.ok, NEW n, s.stack # <<>>, s.stack[Len(s.stack)].id = n
    PROVE  PoppedTo(s, Pop(s, n), n)
<1>1. s.stack \in Seq(Open) /\ s.out \in Outs /\ s.ok \in BOOLEAN
  BY DEF Walks
<1>2. PICK st \in Seq(Open) : st = s.stack
  BY <1>1
<1>3. PICK k \in Nat : k = Len(st)
  BY <1>2
<1>4. k # 0 /\ k \in 1 .. k
  BY <1>2, <1>3
<1>5. PICK top \in Open : top = st[k]
  BY <1>2, <1>3, <1>4
<1>6. top.size \in Nat /\ top.count \in Nat /\ top.count + 1 \in Nat /\ top.id = n /\ n \in Listed
  <2>1. top.size \in Nat /\ top.count \in Nat /\ top.id \in Listed
    BY DEF Open
  <2>2. QED BY <1>2, <1>3, <1>5, <2>1
<1>7. PICK f \in Seq(Open) : f = SubSeq(st, 1, k - 1)
  <2>1. SubSeq(st, 1, Len(st) - 1) \in Seq(Open)
    BY <1>3, <1>4
  <2>2. QED BY <1>3, <2>1
<1>8. Len(f) = k - 1 /\ \A j \in 1 .. k - 1 : f[j] = st[j]
  BY <1>2, <1>3, <1>4, <1>7
<1>9. Front(s.stack) = f /\ Last(s.stack) = top
  BY <1>2, <1>3, <1>5, <1>7 DEF Front, Last
<1>10. PICK v \in Walks : v = [s EXCEPT !.stack = Front(@)]
  <2>1. [s EXCEPT !.stack = Front(@)] \in Walks
    BY TopTypes
  <2>2. QED BY <2>1
<1>11. v.stack = f /\ v.out = s.out /\ v.ok = s.ok
  BY <1>9, <1>10 DEF Walks
<1>12. PICK r \in Walks : r = Emit(v, n, top.size, top.count)
  <2>1. Emit(v, n, top.size, top.count) \in Walks
    BY <1>6, EmitTypes
  <2>2. QED BY <2>1
<1>13. r.stack = v.stack /\ r.ok = v.ok /\ Writes(v, r, n, top.size, top.count)
  BY <1>12, EmitIs
<1>14. Writes(s, r, n, top.size, top.count)
  BY <1>11, <1>13 DEF Writes
<1>15. Pop(s, n) = IF r.stack = <<>> THEN r ELSE Tally(r, top.size, top.count + 1)
  <2>1. IsOnTop(s, n)
    BY <1>6, <1>9 DEF IsOnTop
  <2>2. QED BY <1>9, <1>10, <1>12, <2>1 DEF Pop
<1>16. CASE r.stack = <<>>
  <2>1. k - 1 = 0 /\ r.stack = f /\ r.ok = TRUE /\ Pop(s, n) = r
    <3>1. f = <<>>
      BY <1>11, <1>13, <1>16
    <3>2. QED BY <1>8, <1>11, <1>13, <1>15, <1>16, <3>1
  <2>2. Len(f) = k - 1 /\ \A j \in 1 .. k - 1 : FALSE
    BY <1>8, <2>1
  <2>3. QED BY <1>2, <1>3, <1>5, <1>14, <2>1, <2>2 DEF PoppedTo
<1>17. CASE r.stack # <<>>
  <2>1. PICK z : z = Tally(r, top.size, top.count + 1)
    OBVIOUS
  <2>2. TalliedTo(r, z, top.size, top.count + 1)
    BY <1>6, <1>17, <2>1, TallyIs
  <2>3. /\ z.ok = TRUE /\ z.out = r.out /\ Len(z.stack) = k - 1
        /\ \A j \in 1 .. k - 1 :
              z.stack[j] = IF j = k - 1
                             THEN [id |-> f[j].id, size |-> f[j].size + top.size,
                                   count |-> f[j].count + (top.count + 1)]
                             ELSE f[j]
    BY <1>8, <1>11, <1>13, <2>2 DEF TalliedTo
  <2>4. \A j \in 1 .. k - 1 :
              z.stack[j] = IF j = k - 1
                             THEN [id |-> st[j].id, size |-> st[j].size + top.size,
                                   count |-> st[j].count + (top.count + 1)]
                             ELSE st[j]
    BY <1>8, <2>3
  <2>5. Writes(s, z, n, top.size, top.count)
    BY <1>14, <2>3 DEF Writes
  <2>6. PoppedTo(s, z, n)
    BY <1>2, <1>3, <1>5, <2>3, <2>4, <2>5 DEF PoppedTo
  <2>7. QED BY <1>15, <1>17, <2>1, <2>6
<1>18. QED BY <1>16, <1>17

(* The nodes of a path are different, each on the paths of those after it.  *)
LEMMA PathsOn ==
    ASSUME GoodTable(row), PathsRight(row), NEW n \in Ids(row)
    PROVE  \A i, j \in 1 .. Len(row[n].path) :
              /\ row[n].path[j] \in Ids(row)
              /\ row[n].path[i] \in On(row, row[n].path[j]) <=> i <= j
              /\ row[n].path[i] = row[n].path[j] => i = j
<1> DEFINE p == row[n].path
<1>1. p \in Seq(Nodes) /\ Len(p) \in Nat /\ DOMAIN p = 1 .. Len(p)
  BY PathTypes
<1>2. \A j \in 1 .. Len(p) : p[j] \in Ids(row) /\ row[p[j]].path = SubSeq(p, 1, j)
  BY PathParts
<1> HIDE DEF p
<1>3. ASSUME NEW j \in 1 .. Len(p)
      PROVE  /\ Len(row[p[j]].path) = j /\ DOMAIN row[p[j]].path = 1 .. j
             /\ \A i \in 1 .. j : row[p[j]].path[i] = p[i]
  <2>1. j \in Nat /\ j <= Len(p) /\ j >= 1
    BY <1>1
  <2>2. SubSeq(p, 1, j) \in Seq(Nodes) /\ Len(SubSeq(p, 1, j)) = j
        /\ \A i \in 1 .. j : SubSeq(p, 1, j)[i] = p[i]
    BY <1>1, <2>1
  <2>3. DOMAIN SubSeq(p, 1, j) = 1 .. j
    BY <2>1, <2>2
  <2>4. QED BY <1>2, <2>2, <2>3
<1>4. ASSUME NEW i \in 1 .. Len(p), NEW j \in 1 .. Len(p), p[i] = p[j] PROVE i = j
  BY <1>3, <1>4
<1>5. ASSUME NEW i \in 1 .. Len(p), NEW j \in 1 .. Len(p)
      PROVE  p[i] \in On(row, p[j]) <=> i <= j
  <2>1. On(row, p[j]) = {p[x] : x \in 1 .. j}
    BY <1>3 DEF On, Range
  <2>2. ASSUME i <= j PROVE p[i] \in On(row, p[j])
    <3>1. i \in 1 .. j
      BY <1>1, <2>2
    <3>2. QED BY <2>1, <3>1
  <2>3. ASSUME p[i] \in On(row, p[j]) PROVE i <= j
    <3>1. PICK x \in 1 .. j : p[i] = p[x]
      BY <2>1, <2>3
    <3>2. x \in 1 .. Len(p) /\ x <= j
      BY <1>1
    <3>3. x = i
      BY <1>4, <3>1, <3>2
    <3>4. QED BY <3>2, <3>3
  <2>4. QED BY <2>2, <2>3
<1>6. QED BY <1>2, <1>4, <1>5 DEF p

(* The walk is below the first k nodes of the path p, and has visited V:    *)
(* each of the containers on the stack has the sums of what was visited     *)
(* below it and is not below the next, the others have all.                 *)
Loose(p, k, V, j) ==
    {m \in V : p[j] \in On(row, m) /\ m # p[j] /\ (j < k => p[j + 1] \notin On(row, m))}

Stands(s, p, k, V) ==
    /\ s.ok = TRUE /\ Len(s.stack) = k
    /\ \A j \in 1 .. k : s.stack[j] = [id |-> p[j], size |-> SizeOf(Loose(p, k, V, j)),
                                       count |-> CountOf(Loose(p, k, V, j))]
    /\ \A n \in V \cap Listed : (\A j \in 1 .. k : p[j] # n) =>
          /\ n \in DOMAIN s.out
          /\ s.out[n] = [size |-> SizeOf(Under(row, n)), count |-> CountOf(Under(row, n))]

LEMMA StandsSame ==
    ASSUME NEW s, NEW p, NEW q, NEW k \in Nat, NEW V, \A j \in 1 .. k : p[j] = q[j],
           Stands(s, p, k, V)
    PROVE  Stands(s, q, k, V)
<1>1. ASSUME NEW j \in 1 .. k PROVE Loose(q, k, V, j) = Loose(p, k, V, j)
  <2>1. CASE j < k
    <3>1. p[j] = q[j] /\ p[j + 1] = q[j + 1]
      BY <2>1
    <3>2. QED BY <3>1 DEF Loose
  <2>2. CASE ~ (j < k)
    BY <2>2 DEF Loose
  <2>3. QED BY <2>1, <2>2
<1>2. QED BY <1>1 DEF Stands

(* A container is popped when what is below it was visited.                 *)
LEMMA PopStands ==
    ASSUME GoodTable(row), PathsRight(row), NEW n \in Ids(row),
           NEW k \in 1 .. Len(row[n].path), NEW s \in Walks, NEW V \in SUBSET Undeleted(row),
           Stands(s, row[n].path, k, V), row[n].path[k] \in V \cap Listed,
           ~Empty(row[n].path[k]), Under(row, row[n].path[k]) \cap Undeleted(row) \subseteq V
    PROVE  Stands(Pop(s, row[n].path[k]), row[n].path, k - 1, V)
<1>1. PICK p \in Seq(Nodes) : p = row[n].path
  <2>1. row[n].path \in Seq(Nodes)
    BY PathTypes
  <2>2. QED BY <2>1
<1>2. k \in Nat /\ k >= 1 /\ Len(p) \in Nat /\ k <= Len(p) /\ k \in 1 .. k /\ k \in 1 .. Len(p)
  BY <1>1
<1>3. \A i, j \in 1 .. Len(p) :
         p[j] \in Ids(row) /\ (p[i] \in On(row, p[j]) <=> i <= j) /\ (p[i] = p[j] => i = j)
  BY <1>1, PathsOn
<1> DEFINE a == p[k]
           L == Loose(p, k, V, k)
<1>4. /\ a \in V /\ a \in Listed /\ a \in Undeleted(row) /\ a \in Ids(row)
      /\ ~Empty(a) /\ Under(row, a) \cap Undeleted(row) \subseteq V /\ row[a].type # "FILE"
  <2>1. "FILE" \notin Containers
    BY DEF Containers
  <2>2. QED BY <1>1, <1>2, <1>3, <2>1 DEF Listed, Of
<1>5. Stands(s, p, k, V)
  BY <1>1
<1>6. Under(row, a) = {m \in Ids(row) : a \in On(row, m)} \ {a}
  BY <1>4, AboveBelow
<1>7. V \subseteq Ids(row) /\ V \subseteq Nodes /\ Under(row, a) \in SUBSET Nodes
  BY <1>6, IdsAreFinite DEF Undeleted
<1>8. L = Under(row, a) \cap Undeleted(row)
  <2>1. L = {m \in V : a \in On(row, m) /\ m # a}
    BY <1>2 DEF Loose
  <2>2. QED BY <1>4, <1>6, <1>7, <2>1
<1>9. SizeOf(L) = SizeOf(Under(row, a)) /\ CountOf(L) = CountOf(Under(row, a))
  BY <1>7, <1>8, SumsAre
<1>10. s.stack[k] = [id |-> a, size |-> SizeOf(L), count |-> CountOf(L)] /\ Len(s.stack) = k
       /\ s.ok = TRUE
  BY <1>2, <1>5 DEF Stands
<1>11. PICK top : top = s.stack[k]
  OBVIOUS
<1>12. top.id = a /\ top.size = SizeOf(L) /\ top.count = CountOf(L)
  BY <1>10, <1>11
<1>13. PICK z : z = Pop(s, a)
  OBVIOUS
<1>14. PoppedTo(s, z, a)
  <2>1. s.stack # <<>> /\ s.stack[Len(s.stack)].id = a /\ s.ok
    <3>1. Len(<<>>) = 0
      OBVIOUS
    <3>2. QED BY <1>2, <1>10, <1>11, <1>12, <3>1
  <2>2. QED BY <1>13, <2>1, PopIs
<1> HIDE DEF a, L
<1>15. /\ z.ok = TRUE /\ Len(z.stack) = k - 1
       /\ \A j \in 1 .. k - 1 :
              z.stack[j] = IF j = k - 1
                             THEN [id |-> s.stack[j].id, size |-> s.stack[j].size + top.size,
                                   count |-> s.stack[j].count + (top.count + 1)]
                             ELSE s.stack[j]
       /\ Writes(s, z, a, top.size, top.count)
  BY <1>10, <1>11, <1>14 DEF PoppedTo
<1>16. ASSUME NEW j \in 1 .. k - 1, j # k - 1
       PROVE  z.stack[j] = [id |-> p[j], size |-> SizeOf(Loose(p, k - 1, V, j)),
                            count |-> CountOf(Loose(p, k - 1, V, j))]
  <2>1. j \in 1 .. k /\ j < k /\ j < k - 1
    BY <1>2, <1>16
  <2>2. Loose(p, k - 1, V, j) = Loose(p, k, V, j)
    BY <2>1 DEF Loose
  <2>3. z.stack[j] = s.stack[j]
    BY <1>15, <1>16
  <2>4. QED BY <1>5, <2>1, <2>2, <2>3 DEF Stands
<1>17. ASSUME NEW j \in 1 .. k - 1, j = k - 1
       PROVE  z.stack[j] = [id |-> p[j], size |-> SizeOf(Loose(p, k - 1, V, j)),
                            count |-> CountOf(Loose(p, k - 1, V, j))]
  <2> DEFINE R == Loose(p, k, V, j)
             T == Loose(p, k - 1, V, j)
  <2>1. j \in 1 .. k /\ j < k /\ ~ (j < k - 1) /\ j + 1 = k /\ j \in 1 .. Len(p) /\ j # k /\ j <= k
    BY <1>2, <1>17
  <2>2. p[j] # a /\ p[j] \in On(row, a) /\ a \notin On(row, p[j])
    BY <1>2, <1>3, <2>1 DEF a
  <2>3. T = {m \in V : p[j] \in On(row, m) /\ m # p[j]}
    BY <2>1 DEF Loose
  <2>4. R = {m \in V : p[j] \in On(row, m) /\ m # p[j] /\ a \notin On(row, m)}
    BY <2>1 DEF Loose, a
  <2>5. L = {m \in V : a \in On(row, m) /\ m # a}
    BY <1>2 DEF Loose, L, a
  <2>6. \A m \in V : a \in On(row, m) => p[j] \in On(row, m) /\ m # p[j]
    <3>1. \A m \in V : a \in On(row, m) => On(row, a) \subseteq On(row, m)
      BY <1>7, OnOrders
    <3>2. QED BY <2>2, <3>1
  <2>7. a \in On(row, a)
    BY <1>2, <1>3 DEF a
  <2>8. T = (R \cup L) \cup {a} /\ R \cap L = {} /\ (R \cup L) \cap {a} = {}
    BY <1>4, <2>3, <2>4, <2>5, <2>6, <2>7
  <2>9. R \in SUBSET Nodes /\ L \in SUBSET Nodes /\ {a} \in SUBSET Nodes /\ R \cup L \in SUBSET Nodes
    BY <1>4, <1>7, <2>4, <2>5
  <2> HIDE DEF R, T
  <2>10. /\ SizeOf(T) = (SizeOf(R) + SizeOf(L)) + SizeOf({a})
         /\ CountOf(T) = (CountOf(R) + CountOf(L)) + CountOf({a})
    <3>1. PICK B : B = R \cup L
      OBVIOUS
    <3>2. SizeOf(B) = SizeOf(R) + SizeOf(L) /\ CountOf(B) = CountOf(R) + CountOf(L)
      BY <2>8, <2>9, <3>1, SumsAre
    <3>3. B \in SUBSET Nodes /\ B \cap {a} = {} /\ T = B \cup {a}
      BY <2>8, <2>9, <3>1
    <3>4. SizeOf(B \cup {a}) = SizeOf(B) + SizeOf({a})
          /\ CountOf(B \cup {a}) = CountOf(B) + CountOf({a})
      BY <2>9, <3>3, SumsAre
    <3>5. QED BY <3>2, <3>3, <3>4
  <2>11. SizeOf({a}) = 0 /\ CountOf({a}) = 1
    <3>1. Filled(a)
      BY <1>4 DEF Filled
    <3>2. QED BY <1>4, <3>1, SumsAre
  <2>12. SizeOf(R) \in Nat /\ CountOf(R) \in Nat /\ SizeOf(L) \in Nat /\ CountOf(L) \in Nat
    BY <2>9, SumsAre
  <2>13. /\ SizeOf(T) = SizeOf(R) + SizeOf(L)
         /\ CountOf(T) = CountOf(R) + (CountOf(L) + 1)
    BY <2>10, <2>11, <2>12
  <2>14. PICK o : o = s.stack[j]
    OBVIOUS
  <2>15. o = [id |-> p[j], size |-> SizeOf(R), count |-> CountOf(R)]
    BY <1>5, <2>1, <2>14 DEF Stands, R
  <2>16. o.id = p[j] /\ o.size = SizeOf(R) /\ o.count = CountOf(R)
    BY <2>15
  <2>17. z.stack[j] = [id |-> o.id, size |-> o.size + top.size, count |-> o.count + (top.count + 1)]
    BY <1>15, <1>17, <2>14
  <2>18. QED BY <1>12, <2>13, <2>16, <2>17 DEF T
<1>18. ASSUME NEW m \in V \cap Listed, \A j \in 1 .. k - 1 : p[j] # m
       PROVE  /\ m \in DOMAIN z.out
              /\ z.out[m] = [size |-> SizeOf(Under(row, m)), count |-> CountOf(Under(row, m))]
  <2>1. /\ DOMAIN z.out = DOMAIN s.out \cup {a}
        /\ \A x \in DOMAIN z.out :
              z.out[x] = IF x = a THEN [size |-> top.size, count |-> top.count] ELSE s.out[x]
    BY <1>15 DEF Writes
  <2>2. CASE m = a
    BY <1>9, <1>12, <2>1, <2>2
  <2>3. CASE m # a
    <3>1. \A j \in 1 .. k : j = k \/ j \in 1 .. k - 1
      BY <1>2
    <3>2. \A j \in 1 .. k : p[j] # m
      BY <1>18, <2>3, <3>1 DEF a
    <3>3. /\ m \in DOMAIN s.out
          /\ s.out[m] = [size |-> SizeOf(Under(row, m)), count |-> CountOf(Under(row, m))]
      BY <1>5, <3>2 DEF Stands
    <3>4. QED BY <2>1, <2>3, <3>3
  <2>4. QED BY <2>2, <2>3
<1>19. Stands(z, p, k - 1, V)
  BY <1>15, <1>16, <1>17, <1>18 DEF Stands
<1>20. QED BY <1>1, <1>13, <1>19 DEF a


(* Several of them are, one after the other.                                *)
LEMMA PopsStand ==
    ASSUME GoodTable(row), PathsRight(row), NEW n \in Ids(row),
           NEW l \in Nat, NEW k \in Nat, l <= k, k <= Len(row[n].path),
           NEW s \in Walks, NEW V \in SUBSET Undeleted(row), Stands(s, row[n].path, k, V),
           \A i \in l + 1 .. k : /\ row[n].path[i] \in V \cap Listed
                                 /\ ~Empty(row[n].path[i])
                                 /\ Under(row, row[n].path[i]) \cap Undeleted(row) \subseteq V,
           NEW z \in Seq(Nodes), Len(z) = k - l,
           \A x \in 1 .. k - l : z[x] = row[n].path[k + 1 - x]
    PROVE  FoldLeft(Pop, s, z) \in Walks /\ Stands(FoldLeft(Pop, s, z), row[n].path, l, V)
<1>1. PICK t \in [0 .. Len(z) -> Walks] :
              /\ t[0] = s /\ t[Len(z)] = FoldLeft(Pop, s, z)
              /\ \A i \in 1 .. Len(z) : t[i] = Pop(t[i - 1], z[i])
  BY PopsRun
<1>2. PICK h \in Nat : h = k - l
  <2>1. k - l \in Nat
    OBVIOUS
  <2>2. QED BY <2>1
<1>3. /\ t \in [0 .. h -> Walks] /\ t[0] = s /\ t[h] = FoldLeft(Pop, s, z)
      /\ \A i \in 1 .. h : t[i] = Pop(t[i - 1], z[i])
  BY <1>1, <1>2 DEF LeavesOut
<1> DEFINE X == {i \in 0 .. h : Stands(t[i], row[n].path, k - i, V)}
<1>4. 0 \in X
  <2>1. 0 \in 0 .. h /\ k - 0 = k
    BY <1>2
  <2>2. QED BY <1>3, <2>1
<1>5. ASSUME NEW i \in 1 .. h, i - 1 \in X PROVE i \in X
  <2>1. PICK j \in Nat : j = k - (i - 1)
    <3>1. k - (i - 1) \in Nat
      BY <1>2
    <3>2. QED BY <3>1
  <2>2. /\ j \in l + 1 .. k /\ j \in 1 .. Len(row[n].path) /\ j - 1 = k - i /\ k + 1 - i = j
        /\ i \in 1 .. k - l /\ i - 1 \in 0 .. h /\ i \in 0 .. h
    <3>1. PICK y : y = Len(row[n].path)
      OBVIOUS
    <3>2. y \in Nat /\ k <= y
      BY <3>1, PathTypes
    <3>3. j \in 1 .. y
      BY <1>2, <2>1, <3>2
    <3>4. QED BY <1>2, <2>1, <3>1, <3>3
  <2>3. Stands(t[i - 1], row[n].path, j, V)
    BY <1>5, <2>1
  <2>4. t[i - 1] \in Walks
    BY <1>3, <2>2
  <2>5. t[i] = Pop(t[i - 1], row[n].path[j])
    BY <1>3, <2>2
  <2>6. /\ row[n].path[j] \in V \cap Listed /\ ~Empty(row[n].path[j])
        /\ Under(row, row[n].path[j]) \cap Undeleted(row) \subseteq V
    BY <2>2
  <2>7. Stands(Pop(t[i - 1], row[n].path[j]), row[n].path, j - 1, V)
    BY <2>2, <2>3, <2>4, <2>6, PopStands
  <2>8. Stands(t[i], row[n].path, k - i, V)
    BY <2>2, <2>5, <2>7
  <2>9. QED BY <2>2, <2>8
<1> HIDE DEF X
<1>6. \A i \in 0 .. h : i \in X
  BY <1>4, <1>5, Upwards
<1>7. h \in X /\ h \in 0 .. h /\ k - h = l
  BY <1>2, <1>6
<1>8. Stands(t[h], row[n].path, l, V)
  BY <1>7 DEF X
<1>9. t[h] \in Walks
  BY <1>3, <1>7
<1>10. QED BY <1>3, <1>8, <1>9

(* The containers that are left are those below what the paths share.       *)
Shares(p, q, l, y) == \A i \in 1 .. y : (i <= Len(q) /\ q[i] = p[i]) <=> i <= l

LEMMA ExhaustedIs ==
    ASSUME NEW p \in Seq(Nodes), NEW q, NEW y \in Nat, Len(p) = y + 1,
           NEW l \in Nat, l <= y,
           Shares(p, q, l, y)
    PROVE  /\ Exhausted(p, q) \in Seq(Nodes) /\ Len(Exhausted(p, q)) = y - l
           /\ \A x \in 1 .. y - l : Exhausted(p, q)[x] = p[y + 1 - x]
<1>1. p # <<>> /\ Len(p) - 1 = y
  <2>1. Len(<<>>) = 0 /\ y + 1 # 0 /\ (y + 1) - 1 = y
    OBVIOUS
  <2>2. QED BY <2>1
<1>2. PICK t \in [0 .. Len(p) - 1 -> Seq(Nodes)] :
              LeavesOut(t, p, q) /\ t[Len(p) - 1] = Exhausted(p, q)
  BY <1>1, ExhaustedRun
<1>3. /\ t \in [0 .. y -> Seq(Nodes)] /\ t[0] = <<>> /\ t[y] = Exhausted(p, q)
      /\ \A i \in 1 .. y : t[i] = IF i <= l THEN t[i - 1] ELSE << p[i] >> \o t[i - 1]
  BY <1>1, <1>2 DEF LeavesOut, Shares
<1> DEFINE X == {i \in 0 .. y : /\ Len(t[i]) = IF i <= l THEN 0 ELSE i - l
                                /\ \A x \in 1 .. i - l : t[i][x] = p[i + 1 - x]}
<1>4. 0 \in X
  <2>1. 0 \in 0 .. y /\ 0 <= l /\ \A x \in 1 .. 0 - l : FALSE
    OBVIOUS
  <2>2. Len(t[0]) = 0
    BY <1>3
  <2>3. QED BY <2>1, <2>2
<1>5. ASSUME NEW i \in 1 .. y, i - 1 \in X PROVE i \in X
  <2>1. i \in 0 .. y /\ i - 1 \in 0 .. y /\ i \in 1 .. Len(p)
    BY <1>1
  <2>2. PICK u \in Seq(Nodes) : u = t[i - 1]
    BY <1>3, <2>1
  <2>3. /\ Len(u) = IF i - 1 <= l THEN 0 ELSE (i - 1) - l
        /\ \A x \in 1 .. (i - 1) - l : u[x] = p[(i - 1) + 1 - x]
    BY <1>5, <2>2
  <2>4. CASE i <= l
    <3>1. t[i] = u
      BY <1>3, <2>2, <2>4
    <3>2. i - 1 <= l /\ \A x \in 1 .. i - l : FALSE
      BY <2>4
    <3>3. QED BY <2>1, <2>3, <2>4, <3>1, <3>2
  <2>5. CASE ~ (i <= l)
    <3>1. PICK v \in Nodes : v = p[i]
      BY <2>1
    <3>2. t[i] = << v >> \o u
      BY <1>3, <2>2, <2>5, <3>1
    <3>3. PICK d \in Nat : d = (i - 1) - l
      <4>1. (i - 1) - l \in Nat
        BY <2>5
      <4>2. QED BY <4>1
    <3>4. i - l = d + 1 /\ (i - 1 <= l => d = 0)
      BY <2>5, <3>3
    <3>5. Len(u) = d
      BY <2>3, <3>3, <3>4
    <3>6. Len(<< v >> \o u) = d + 1 /\ (<< v >> \o u)[1] = v
          /\ \A x \in 1 .. d : (<< v >> \o u)[x + 1] = u[x]
      BY <3>5
    <3>7. ASSUME NEW x \in 1 .. i - l PROVE t[i][x] = p[i + 1 - x]
      <4>1. CASE x = 1
        <5>1. i + 1 - x = i
          BY <4>1
        <5>2. QED BY <3>1, <3>2, <3>6, <4>1, <5>1
      <4>2. CASE x # 1
        <5>1. x - 1 \in 1 .. d /\ (x - 1) + 1 = x /\ (i - 1) + 1 - (x - 1) = i + 1 - x
          BY <3>4, <4>2
        <5>2. t[i][x] = u[x - 1]
          BY <3>2, <3>6, <5>1
        <5>3. u[x - 1] = p[(i - 1) + 1 - (x - 1)]
          BY <2>3, <3>3, <5>1
        <5>4. QED BY <5>1, <5>2, <5>3
      <4>3. QED BY <4>1, <4>2
    <3>8. QED BY <2>1, <2>5, <3>2, <3>4, <3>6, <3>7
  <2>6. QED BY <2>4, <2>5
<1> HIDE DEF X
<1>6. \A i \in 0 .. y : i \in X
  BY <1>4, <1>5, Upwards
<1>7. y \in X /\ y \in 0 .. y
  BY <1>6
<1>8. /\ Len(t[y]) = IF y <= l THEN 0 ELSE y - l
      /\ \A x \in 1 .. y - l : t[y][x] = p[y + 1 - x]
  BY <1>7 DEF X
<1>9. y <= l => y - l = 0
  OBVIOUS
<1>10. QED BY <1>3, <1>7, <1>8, <1>9

LEMMA ExhaustedHas ==
    ASSUME NEW p \in Seq(Nodes), NEW q, NEW y \in Nat, Len(p) = y + 1,
           NEW j \in 1 .. y, ~ (j <= Len(q) /\ q[j] = p[j])
    PROVE  /\ Exhausted(p, q) \in Seq(Nodes)
           /\ \E x \in 1 .. Len(Exhausted(p, q)) : Exhausted(p, q)[x] = p[j]
<1>1. p # <<>> /\ Len(p) - 1 = y
  <2>1. Len(<<>>) = 0 /\ y + 1 # 0 /\ (y + 1) - 1 = y
    OBVIOUS
  <2>2. QED BY <2>1
<1>2. PICK t \in [0 .. Len(p) - 1 -> Seq(Nodes)] :
              LeavesOut(t, p, q) /\ t[Len(p) - 1] = Exhausted(p, q)
  BY <1>1, ExhaustedRun
<1>3. /\ t \in [0 .. y -> Seq(Nodes)] /\ t[y] = Exhausted(p, q)
      /\ \A i \in 1 .. y : t[i] = t[i - 1] \/ t[i] = << p[i] >> \o t[i - 1]
      /\ t[j] = << p[j] >> \o t[j - 1]
  BY <1>1, <1>2 DEF LeavesOut
<1> DEFINE X == {i \in 0 .. y : i >= j => \E x \in 1 .. Len(t[i]) : t[i][x] = p[j]}
<1>4. 0 \in X
  OBVIOUS
<1>5. ASSUME NEW i \in 1 .. y, i - 1 \in X PROVE i \in X
  <2>1. i \in 0 .. y /\ i - 1 \in 0 .. y /\ i \in 1 .. Len(p) /\ j \in 1 .. Len(p)
    BY <1>1
  <2>2. PICK u \in Seq(Nodes) : u = t[i - 1]
    BY <1>3, <2>1
  <2>3. i - 1 >= j => \E x \in 1 .. Len(u) : u[x] = p[j]
    BY <1>5, <2>2
  <2>4. PICK v \in Nodes : v = p[i]
    BY <2>1
  <2>5. t[i] = u \/ t[i] = << v >> \o u
    BY <1>3, <2>2, <2>4
  <2>6. PICK d \in Nat : d = Len(u)
    BY <2>2
  <2>7. Len(<< v >> \o u) = d + 1 /\ (<< v >> \o u)[1] = v
        /\ \A x \in 1 .. d : (<< v >> \o u)[x + 1] = u[x]
    BY <2>6
  <2>8. CASE i = j
    <3>1. t[i] = << v >> \o u
      BY <1>3, <2>2, <2>4, <2>8
    <3>2. 1 \in 1 .. d + 1
      OBVIOUS
    <3>3. QED BY <2>1, <2>4, <2>7, <2>8, <3>1, <3>2
  <2>9. CASE i > j
    <3>1. i - 1 >= j
      BY <2>9
    <3>2. PICK x \in 1 .. d : u[x] = p[j]
      BY <2>3, <2>6, <3>1
    <3>3. CASE t[i] = u
      BY <2>1, <2>6, <3>2, <3>3
    <3>4. CASE t[i] = << v >> \o u
      <4>1. x + 1 \in 1 .. d + 1
        OBVIOUS
      <4>2. (<< v >> \o u)[x + 1] = p[j]
        BY <2>7, <3>2
      <4>3. QED BY <2>1, <2>7, <3>4, <4>1, <4>2
    <3>5. QED BY <2>5, <3>3, <3>4
  <2>10. CASE i < j
    BY <2>1, <2>10
  <2>11. QED BY <2>8, <2>9, <2>10
<1> HIDE DEF X
<1>6. \A i \in 0 .. y : i \in X
  BY <1>4, <1>5, Upwards
<1>7. y \in X /\ y >= j /\ y \in 0 .. y
  BY <1>6
<1>8. \E x \in 1 .. Len(t[y]) : t[y][x] = p[j]
  BY <1>7 DEF X
<1>9. QED BY <1>3, <1>7, <1>8

(* What visiting n, the last of its path, does to what is loose.            *)
Loosened(p, y, V, n) ==
    /\ n \notin V /\ p[y + 1] = n
    /\ \A j \in 1 .. y : j # y =>
          /\ Loose(p, y, V \cup {n}, j) = Loose(p, y, V, j)
          /\ Loose(p, y + 1, V \cup {n}, j) = Loose(p, y, V, j)
    /\ y # 0 => /\ Loose(p, y, V \cup {n}, y) = Loose(p, y, V, y) \cup {n}
                /\ Loose(p, y + 1, V \cup {n}, y) = Loose(p, y, V, y)
    /\ Loose(p, y + 1, V \cup {n}, y + 1) = {}

LEMMA LooseVisited ==
    ASSUME GoodTable(row), PathsRight(row), NEW n \in Undeleted(row),
           NEW y \in Nat, Len(row[n].path) = y + 1, NEW V \in SUBSET Undeleted(row),
           \A m \in V : n \notin On(row, m)
    PROVE  Loosened(row[n].path, y, V, n)
<1>1. n \in Ids(row) /\ V \subseteq Ids(row)
  BY DEF Undeleted
<1>2. PICK p \in Seq(Nodes) : p = row[n].path
  <2>1. row[n].path \in Seq(Nodes)
    BY <1>1, PathTypes
  <2>2. QED BY <2>1
<1>3. p[y + 1] = n /\ Len(p) = y + 1
  BY <1>1, <1>2, PathTypes
<1>4. \A i, j \in 1 .. y + 1 :
         p[j] \in Ids(row) /\ (p[i] \in On(row, p[j]) <=> i <= j) /\ (p[i] = p[j] => i = j)
  <2>1. \A i, j \in 1 .. Len(row[n].path) :
          /\ row[n].path[j] \in Ids(row)
          /\ row[n].path[i] \in On(row, row[n].path[j]) <=> i <= j
          /\ row[n].path[i] = row[n].path[j] => i = j
    BY <1>1, PathsOn
  <2>2. QED BY <1>2, <1>3, <2>1
<1>5. \A j \in 1 .. y + 1 : p[j] \in On(row, n)
  <2>1. y + 1 \in 1 .. y + 1 /\ \A j \in 1 .. y + 1 : j <= y + 1
    OBVIOUS
  <2>2. QED BY <1>3, <1>4, <2>1
<1>6. \A j \in 1 .. y : p[j] # n
  <2>1. y + 1 \in 1 .. y + 1 /\ \A j \in 1 .. y : j \in 1 .. y + 1 /\ j # y + 1
    OBVIOUS
  <2>2. QED BY <1>3, <1>4, <2>1
<1>7. n \in On(row, n)
  BY <1>1, OnPath
<1>8. n \notin V
  BY <1>7
<1>9. ASSUME NEW j \in 1 .. y, j # y
      PROVE  /\ Loose(p, y, V \cup {n}, j) = Loose(p, y, V, j)
             /\ Loose(p, y + 1, V \cup {n}, j) = Loose(p, y, V, j)
  <2>1. j < y /\ j < y + 1 /\ j + 1 \in 1 .. y + 1
    BY <1>9
  <2>2. p[j + 1] \in On(row, n)
    BY <1>5, <2>1
  <2>3. QED BY <2>1, <2>2 DEF Loose
<1>10. ASSUME y # 0
       PROVE  /\ Loose(p, y, V \cup {n}, y) = Loose(p, y, V, y) \cup {n}
              /\ Loose(p, y + 1, V \cup {n}, y) = Loose(p, y, V, y)
  <2>1. y \in 1 .. y /\ y \in 1 .. y + 1 /\ ~ (y < y) /\ y < y + 1
    BY <1>10
  <2>2. p[y] \in On(row, n) /\ p[y] # n
    BY <1>5, <1>6, <2>1
  <2>3. QED BY <1>3, <1>7, <2>1, <2>2 DEF Loose
<1>11. Loose(p, y + 1, V \cup {n}, y + 1) = {}
  BY <1>3 DEF Loose
<1>12. Loosened(p, y, V, n)
  BY <1>3, <1>8, <1>9, <1>10, <1>11 DEF Loosened
<1>13. QED BY <1>2, <1>12

(* A file is counted by its parent, which is on top ...                     *)
LEMMA FileStands ==
    ASSUME GoodTable(row), PathsRight(row), NEW n \in Undeleted(row),
           NEW y \in Nat, Len(row[n].path) = y + 1, NEW V \in SUBSET Undeleted(row),
           \A m \in V : n \notin On(row, m),
           NEW s \in Walks, Stands(s, row[n].path, y, V), NEW q, row[n].type = "FILE"
    PROVE  Stands(Visit(s, n, q), row[n].path, y, V \cup {n})
<1>1. n \in Ids(row) /\ V \subseteq Nodes /\ n \in Nodes
  BY IdsAreFinite DEF Undeleted
<1>2. PICK p \in Seq(Nodes) : p = row[n].path
  <2>1. row[n].path \in Seq(Nodes)
    BY <1>1, PathTypes
  <2>2. QED BY <2>1
<1>3. y # 0 /\ p[y] = row[n].parent
  <2>1. row[n].parent # None /\ row[n].parent \in Ids(row)
    <3>1. ValidParent(row, row[n].type, row[n].parent)
      BY <1>1 DEF GoodTable
    <3>2. row[n].parent \in Ids(row)
      BY <3>1 DEF ValidParent
    <3>3. None \notin Ids(row)
      BY IdsAreFinite, NoneAssumption
    <3>4. QED BY <3>2, <3>3
  <2>2. PICK c \in Ids(row) : c = row[n].parent
    BY <2>1
  <2>3. PICK r \in Seq(Nodes) : r = row[c].path /\ Len(r) > 0 /\ r[Len(r)] = c
    <3>1. row[c].path \in Seq(Nodes) /\ Len(row[c].path) > 0 /\ row[c].path[Len(row[c].path)] = c
      BY PathTypes
    <3>2. QED BY <3>1
  <2>4. p = Append(r, n)
    BY <1>1, <1>2, <2>1, <2>2, <2>3 DEF PathsRight
  <2>5. Len(r) \in Nat /\ Len(p) = Len(r) + 1 /\ Len(p) = y + 1
    BY <1>1, <1>2, <2>4
  <2>6. PICK l \in Nat : l = Len(r)
    BY <2>5
  <2>7. l = y /\ l > 0
    BY <2>3, <2>5, <2>6
  <2>8. l \in 1 .. l
    BY <2>7
  <2>9. p[l] = r[l]
    BY <1>1, <2>4, <2>6, <2>8
  <2>10. QED BY <2>2, <2>3, <2>6, <2>7, <2>9
<1>4. Stands(s, p, y, V)
  BY <1>2
<1>5. y \in 1 .. y
  BY <1>3
<1>6. /\ s.ok = TRUE /\ Len(s.stack) = y
      /\ s.stack[y] = [id |-> p[y], size |-> SizeOf(Loose(p, y, V, y)),
                       count |-> CountOf(Loose(p, y, V, y))]
  BY <1>4, <1>5 DEF Stands
<1>7. s.stack # <<>>
  <2>1. Len(<<>>) = 0
    OBVIOUS
  <2>2. QED BY <1>3, <1>6, <2>1
<1>8. IsOnTop(s, row[n].parent)
  <2>1. s.stack[y].id = p[y]
    BY <1>6
  <2>2. QED BY <1>3, <1>6, <1>7, <2>1 DEF IsOnTop, Last
<1>9. PICK size \in Nat : size = row[n].size
  <2>1. row[n].size \in Nat
    BY <1>1, RowIs DEF GoodTable
  <2>2. QED BY <2>1
<1>10. PICK z : z = Tally(s, size, 1)
  OBVIOUS
<1>11. Visit(s, n, q) = z
  BY <1>8, <1>9, <1>10 DEF Visit
<1>12. TalliedTo(s, z, size, 1)
  BY <1>7, <1>10, TallyIs
<1>13. /\ z.ok = TRUE /\ z.out = s.out /\ Len(z.stack) = y
       /\ \A j \in 1 .. y : z.stack[j] = IF j = y
                         THEN [id |-> s.stack[j].id, size |-> s.stack[j].size + size,
                               count |-> s.stack[j].count + 1]
                         ELSE s.stack[j]
  BY <1>6, <1>12 DEF TalliedTo
<1>14. /\ \A j \in 1 .. y : j # y => Loose(p, y, V \cup {n}, j) = Loose(p, y, V, j)
       /\ Loose(p, y, V \cup {n}, y) = Loose(p, y, V, y) \cup {n}
       /\ n \notin V
  <2>1. Loosened(row[n].path, y, V, n)
    BY LooseVisited
  <2>2. Loosened(p, y, V, n)
    BY <1>2, <2>1
  <2>3. QED BY <1>3, <2>2 DEF Loosened
<1>15. PICK R : R = Loose(p, y, V, y)
  OBVIOUS
<1>16. R \in SUBSET Nodes /\ {n} \in SUBSET Nodes /\ R \cap {n} = {}
  BY <1>1, <1>14, <1>15 DEF Loose
<1>17. SizeOf(R \cup {n}) = SizeOf(R) + size /\ CountOf(R \cup {n}) = CountOf(R) + 1
  <2>1. SizeOf({n}) = size /\ CountOf({n}) = 1
    <3>1. Filled(n)
      BY DEF Filled
    <3>2. QED BY <1>9, <3>1, SumsAre
  <2>2. SizeOf(R \cup {n}) = SizeOf(R) + SizeOf({n}) /\ CountOf(R \cup {n}) = CountOf(R) + CountOf({n})
    BY <1>16, SumsAre
  <2>3. QED BY <2>1, <2>2
<1>18. ASSUME NEW j \in 1 .. y
       PROVE  z.stack[j] = [id |-> p[j], size |-> SizeOf(Loose(p, y, V \cup {n}, j)),
                            count |-> CountOf(Loose(p, y, V \cup {n}, j))]
  <2>1. CASE j = y
    <3>1. PICK o : o = s.stack[y]
      OBVIOUS
    <3>2. o.id = p[y] /\ o.size = SizeOf(R) /\ o.count = CountOf(R)
      BY <1>6, <1>15, <3>1
    <3>3. z.stack[y] = [id |-> o.id, size |-> o.size + size, count |-> o.count + 1]
      BY <1>5, <1>13, <3>1
    <3>4. Loose(p, y, V \cup {n}, y) = R \cup {n}
      BY <1>14, <1>15
    <3>5. QED BY <1>17, <2>1, <3>2, <3>3, <3>4
  <2>2. CASE j # y
    <3>1. z.stack[j] = s.stack[j]
      BY <1>13, <2>2
    <3>2. Loose(p, y, V \cup {n}, j) = Loose(p, y, V, j)
      BY <1>14, <2>2
    <3>3. QED BY <1>4, <3>1, <3>2 DEF Stands
  <2>3. QED BY <2>1, <2>2
<1>19. n \notin Listed
  BY DEF Listed, Of, Containers
<1>20. \A m \in (V \cup {n}) \cap Listed : (\A j \in 1 .. y : p[j] # m) =>
          /\ m \in DOMAIN z.out
          /\ z.out[m] = [size |-> SizeOf(Under(row, m)), count |-> CountOf(Under(row, m))]
  BY <1>4, <1>13, <1>19 DEF Stands
<1>21. Stands(z, p, y, V \cup {n})
  BY <1>13, <1>18, <1>20 DEF Stands
<1>22. QED BY <1>2, <1>11, <1>21

(* ... a container that the next node is not in is written down as empty ...*)
LEMMA EmptyStands ==
    ASSUME GoodTable(row), PathsRight(row), NEW n \in Undeleted(row),
           NEW y \in Nat, Len(row[n].path) = y + 1, NEW V \in SUBSET Undeleted(row),
           \A m \in V : n \notin On(row, m),
           NEW s \in Walks, Stands(s, row[n].path, y, V), NEW q, row[n].type # "FILE",
           ~IsParentOf(row[n].path, q), Empty(n)
    PROVE  Stands(Visit(s, n, q), row[n].path, y, V \cup {n})
<1>1. n \in Ids(row) /\ V \subseteq Nodes /\ n \in Nodes
  BY IdsAreFinite DEF Undeleted
<1>2. PICK p \in Seq(Nodes) : p = row[n].path
  <2>1. row[n].path \in Seq(Nodes)
    BY <1>1, PathTypes
  <2>2. QED BY <2>1
<1>3. Stands(s, p, y, V)
  BY <1>2
<1>4. PICK z : z = Emit(s, n, 0, 0)
  OBVIOUS
<1>5. Visit(s, n, q) = z
  BY <1>4 DEF Visit
<1>6. z.stack = s.stack /\ z.ok = s.ok /\ Writes(s, z, n, 0, 0)
  BY <1>4, EmitIs
<1>7. /\ \A j \in 1 .. y : j # y => Loose(p, y, V \cup {n}, j) = Loose(p, y, V, j)
      /\ y # 0 => Loose(p, y, V \cup {n}, y) = Loose(p, y, V, y) \cup {n}
      /\ n \notin V
  <2>1. Loosened(row[n].path, y, V, n)
    BY LooseVisited
  <2>2. Loosened(p, y, V, n)
    BY <1>2, <2>1
  <2>3. QED BY <2>2 DEF Loosened
<1>8. SizeOf({n}) = 0 /\ CountOf({n}) = 0
  <2>1. ~Filled(n)
    BY DEF Filled
  <2>2. QED BY <2>1, SumsAre
<1>9. SizeOf(Under(row, n)) = 0 /\ CountOf(Under(row, n)) = 0
  <2>1. Under(row, n) \in SUBSET Nodes /\ Under(row, n) \cap Undeleted(row) = {}
    BY UnderIsFinite DEF Empty
  <2>2. SizeOf(Under(row, n)) = SizeOf(Under(row, n) \cap Undeleted(row))
        /\ CountOf(Under(row, n)) = CountOf(Under(row, n) \cap Undeleted(row))
    BY <2>1, SumsAre
  <2>3. SizeOf({}) = 0 /\ CountOf({}) = 0
    BY SumsAre
  <2>4. QED BY <2>1, <2>2, <2>3
<1>10. ASSUME NEW j \in 1 .. y
       PROVE  /\ SizeOf(Loose(p, y, V \cup {n}, j)) = SizeOf(Loose(p, y, V, j))
              /\ CountOf(Loose(p, y, V \cup {n}, j)) = CountOf(Loose(p, y, V, j))
  <2>1. CASE j # y
    BY <1>7, <2>1
  <2>2. CASE j = y
    <3>1. PICK R : R = Loose(p, y, V, y)
      OBVIOUS
    <3>2. Loose(p, y, V \cup {n}, y) = R \cup {n}
      <4>1. y # 0
        BY <2>2
      <4>2. QED BY <1>7, <3>1, <4>1
    <3>3. R \in SUBSET Nodes /\ {n} \in SUBSET Nodes /\ R \cap {n} = {}
      BY <1>1, <1>7, <3>1 DEF Loose
    <3>4. SizeOf(R \cup {n}) = SizeOf(R) + SizeOf({n})
          /\ CountOf(R \cup {n}) = CountOf(R) + CountOf({n})
      BY <3>3, SumsAre
    <3>5. SizeOf(R) \in Nat /\ CountOf(R) \in Nat
      BY <3>3, SumsAre
    <3>6. SizeOf(R \cup {n}) = SizeOf(R) /\ CountOf(R \cup {n}) = CountOf(R)
      BY <1>8, <3>4, <3>5
    <3>7. QED BY <2>2, <3>1, <3>2, <3>6
  <2>3. QED BY <2>1, <2>2
<1>11. z.ok = TRUE /\ Len(z.stack) = y
       /\ \A j \in 1 .. y : z.stack[j] =
             [id |-> p[j], size |-> SizeOf(Loose(p, y, V \cup {n}, j)),
              count |-> CountOf(Loose(p, y, V \cup {n}, j))]
  BY <1>3, <1>6, <1>10 DEF Stands
<1>12. ASSUME NEW m \in (V \cup {n}) \cap Listed, \A j \in 1 .. y : p[j] # m
       PROVE  /\ m \in DOMAIN z.out
              /\ z.out[m] = [size |-> SizeOf(Under(row, m)), count |-> CountOf(Under(row, m))]
  <2>1. CASE m = n
    BY <1>6, <1>9, <2>1 DEF Writes
  <2>2. CASE m # n
    <3>1. /\ m \in DOMAIN s.out
          /\ s.out[m] = [size |-> SizeOf(Under(row, m)), count |-> CountOf(Under(row, m))]
      BY <1>3, <1>12, <2>2 DEF Stands
    <3>2. QED BY <1>6, <2>2, <3>1 DEF Writes
  <2>3. QED BY <2>1, <2>2
<1>13. Stands(z, p, y, V \cup {n})
  BY <1>11, <1>12 DEF Stands
<1>14. QED BY <1>2, <1>5, <1>13

(* ... and one that it is in is pushed.                                     *)
LEMMA PushStands ==
    ASSUME GoodTable(row), PathsRight(row), NEW n \in Undeleted(row),
           NEW y \in Nat, Len(row[n].path) = y + 1, NEW V \in SUBSET Undeleted(row),
           \A m \in V : n \notin On(row, m),
           NEW s \in Walks, Stands(s, row[n].path, y, V), NEW q, row[n].type # "FILE",
           IsParentOf(row[n].path, q)
    PROVE  Stands(Visit(s, n, q), row[n].path, y + 1, V \cup {n})
<1>1. n \in Ids(row) /\ V \subseteq Nodes /\ n \in Nodes
  BY IdsAreFinite DEF Undeleted
<1>2. PICK p \in Seq(Nodes) : p = row[n].path
  <2>1. row[n].path \in Seq(Nodes)
    BY <1>1, PathTypes
  <2>2. QED BY <2>1
<1>3. Stands(s, p, y, V)
  BY <1>2
<1>4. s.stack \in Seq(Open) /\ s.out \in Outs /\ s.ok \in BOOLEAN
  BY DEF Walks
<1>5. PICK st \in Seq(Open) : st = s.stack
  BY <1>4
<1>6. n \in Listed
  BY <1>1, RowIs DEF Listed, Of, GoodTable
<1>7. PICK o \in Open : o = [id |-> n, size |-> 0, count |-> 0]
  <2>1. [id |-> n, size |-> 0, count |-> 0] \in Open
    BY <1>6 DEF Open
  <2>2. QED BY <2>1
<1>8. Len(st) = y
  BY <1>3, <1>5 DEF Stands
<1>9. PICK u \in Seq(Open) : u = Append(st, o)
  <2>1. Append(st, o) \in Seq(Open)
    OBVIOUS
  <2>2. QED BY <2>1
<1>10. Len(u) = y + 1 /\ u[y + 1] = o /\ \A j \in 1 .. y : u[j] = st[j]
  BY <1>8, <1>9
<1>11. PICK z : z = [s EXCEPT !.stack = u]
  OBVIOUS
<1>12. z.stack = u /\ z.ok = s.ok /\ z.out = s.out
  BY <1>11 DEF Walks
<1>13. Visit(s, n, q) = z
  BY <1>5, <1>7, <1>9, <1>11 DEF Visit
<1>14. /\ \A j \in 1 .. y : j # y => Loose(p, y + 1, V \cup {n}, j) = Loose(p, y, V, j)
       /\ y # 0 => Loose(p, y + 1, V \cup {n}, y) = Loose(p, y, V, y)
       /\ Loose(p, y + 1, V \cup {n}, y + 1) = {}
       /\ p[y + 1] = n
  <2>1. Loosened(row[n].path, y, V, n)
    BY LooseVisited
  <2>2. Loosened(p, y, V, n)
    BY <1>2, <2>1
  <2>3. QED BY <2>2 DEF Loosened
<1>15. ASSUME NEW j \in 1 .. y + 1
       PROVE  u[j] = [id |-> p[j], size |-> SizeOf(Loose(p, y + 1, V \cup {n}, j)),
                      count |-> CountOf(Loose(p, y + 1, V \cup {n}, j))]
  <2>1. CASE j = y + 1
    <3>1. SizeOf({}) = 0 /\ CountOf({}) = 0
      BY SumsAre
    <3>2. QED BY <1>7, <1>10, <1>14, <2>1, <3>1
  <2>2. CASE j # y + 1
    <3>1. j \in 1 .. y /\ (j = y => y # 0)
      BY <2>2
    <3>2. Loose(p, y + 1, V \cup {n}, j) = Loose(p, y, V, j)
      BY <1>14, <3>1
    <3>3. u[j] = s.stack[j]
      BY <1>5, <1>10, <3>1
    <3>4. QED BY <1>3, <3>1, <3>2, <3>3 DEF Stands
  <2>3. QED BY <2>1, <2>2
<1>16. ASSUME NEW m \in (V \cup {n}) \cap Listed, \A j \in 1 .. y + 1 : p[j] # m
       PROVE  /\ m \in DOMAIN s.out
              /\ s.out[m] = [size |-> SizeOf(Under(row, m)), count |-> CountOf(Under(row, m))]
  <2>1. y + 1 \in 1 .. y + 1 /\ \A j \in 1 .. y : j \in 1 .. y + 1
    OBVIOUS
  <2>2. m # n /\ \A j \in 1 .. y : p[j] # m
    BY <1>14, <1>16, <2>1
  <2>3. QED BY <1>3, <2>2 DEF Stands
<1>17. s.ok = TRUE
  BY <1>3 DEF Stands
<1>18. Stands(z, p, y + 1, V \cup {n})
  BY <1>10, <1>12, <1>15, <1>16, <1>17 DEF Stands
<1>19. QED BY <1>2, <1>13, <1>18

(* A node of a path has the part up to it as its path.                      *)
LEMMA PlaceOf ==
    ASSUME GoodTable(row), PathsRight(row), NEW n \in Ids(row), NEW a \in On(row, n)
    PROVE  /\ a \in Ids(row) /\ Len(row[a].path) \in 1 .. Len(row[n].path)
           /\ row[n].path[Len(row[a].path)] = a
           /\ \A j \in 1 .. Len(row[a].path) : row[a].path[j] = row[n].path[j]
<1>1. PICK p \in Seq(Nodes) : p = row[n].path /\ DOMAIN p = 1 .. Len(p)
  <2>1. row[n].path \in Seq(Nodes) /\ DOMAIN row[n].path = 1 .. Len(row[n].path)
    BY PathTypes
  <2>2. QED BY <2>1
<1>2. PICK x \in 1 .. Len(p) : a = p[x]
  BY <1>1 DEF On, Range
<1>3. a \in Ids(row) /\ row[a].path = SubSeq(p, 1, x)
  BY <1>1, <1>2, PathParts
<1>4. x \in Nat /\ x >= 1 /\ x <= Len(p) /\ Len(p) \in Nat
  BY <1>1
<1>5. PICK r \in Seq(Nodes) : r = SubSeq(p, 1, x)
  <2>1. SubSeq(p, 1, x) \in Seq(Nodes)
    BY <1>4
  <2>2. QED BY <2>1
<1>6. Len(r) = x /\ \A j \in 1 .. x : r[j] = p[j]
  BY <1>4, <1>5
<1>7. QED BY <1>1, <1>2, <1>3, <1>5, <1>6

(* If no node is orphaned, what is on the path of an undeleted node is not  *)
(* deleted either, and is visited before it.                                *)
LEMMA OnUndeleted ==
    ASSUME GoodTable(row), PathsRight(row), NoOrphans, NEW n \in Undeleted(row)
    PROVE  On(row, n) \subseteq Undeleted(row)
<1>1. n \in Ids(row)
  BY DEF Undeleted
<1>2. ASSUME NEW a \in On(row, n), a \notin Undeleted(row) PROVE FALSE
  <2>1. a \in Ids(row)
    BY <1>1, PlaceOf
  <2>2. Under(row, a) = {m \in Ids(row) : a \in On(row, m)} \ {a}
    BY <2>1, AboveBelow
  <2>3. n \in Under(row, a)
    BY <1>1, <1>2, <2>2
  <2>4. QED BY <1>2, <2>1, <2>3 DEF NoOrphans
<1>3. QED BY <1>2

Visited(i) == {Walk[j] : j \in 1 .. i}

(* The path of the next node but for the node itself is a part of the path  *)
(* of this one, and no more of it is.                                       *)
LEMMA NextShares ==
    ASSUME GoodTable(row), PathsRight(row),
           NEW i \in 1 .. Len(Walk), i < Len(Walk),
           On(row, Walk[i + 1]) \subseteq Undeleted(row),
           NEW l \in Nat, Len(row[Walk[i + 1]].path) = l + 1
    PROVE  /\ \A j \in 1 .. l : /\ j <= Len(row[Walk[i]].path)
                                /\ row[Walk[i]].path[j] = row[Walk[i + 1]].path[j]
           /\ \A j \in 1 .. Len(row[Walk[i]].path) :
                 j > l => row[Walk[i]].path[j] \notin On(row, Walk[i + 1])
<1>1. PICK N \in Nat : N = Len(Walk)
  BY WalkOrder
<1>2. i \in 1 .. N /\ i + 1 \in 1 .. N
  BY <1>1
<1>3. PICK n, c : n = Walk[i] /\ c = Walk[i + 1]
  OBVIOUS
<1>4. n \in Ids(row) /\ c \in Ids(row)
  BY <1>1, <1>2, <1>3, WalkOrder DEF Undeleted
<1>5. PICK p \in Seq(Nodes) : p = row[n].path
  <2>1. row[n].path \in Seq(Nodes)
    BY <1>4, PathTypes
  <2>2. QED BY <2>1
<1>6. PICK q \in Seq(Nodes) : q = row[c].path
  <2>1. row[c].path \in Seq(Nodes)
    BY <1>4, PathTypes
  <2>2. QED BY <2>1
<1>7. /\ Len(p) \in Nat /\ Len(q) = l + 1 /\ q[l + 1] = c
      /\ DOMAIN p = 1 .. Len(p) /\ DOMAIN q = 1 .. l + 1
  BY <1>3, <1>4, <1>5, <1>6, PathTypes
<1>8. c \notin On(row, n)
  <2>1. ASSUME Walk[i + 1] \in On(row, Walk[i]) PROVE FALSE
    <3>1. i + 1 <= i
      BY <1>1, <1>2, <2>1, WalkGoesDown
    <3>2. QED BY <3>1
  <2>2. QED BY <1>3, <2>1
<1>9. ASSUME NEW a \in On(row, c), a # c PROVE a \in On(row, n)
  <2>1. a \in Undeleted(row)
    BY <1>3, <1>9
  <2>2. PICK j \in 1 .. N : Walk[j] = a
    BY <1>1, <2>1, WalkOrder
  <2>3. j <= i + 1 /\ j # i + 1
    BY <1>1, <1>2, <1>3, <1>9, <2>2, WalkGoesDown
  <2>4. j <= i /\ i <= i + 1
    BY <2>3
  <2>5. a \in Ids(row) /\ a \in On(row, a)
    <3>1. a \in Ids(row)
      BY <2>1 DEF Undeleted
    <3>2. QED BY <3>1, OnPath
  <2>6. a \in On(row, Walk[j]) /\ a \in On(row, Walk[i + 1])
    BY <1>3, <2>2, <2>5
  <2>7. a \in On(row, Walk[i])
    BY <1>1, <1>2, <2>4, <2>5, <2>6, WalkGoesDown
  <2>8. QED BY <1>3, <2>7
<1>10. CASE l = 0
  <2>1. ASSUME NEW j \in 1 .. Len(p) PROVE p[j] \notin On(row, c)
    <3>1. On(row, c) = {c}
      <4>1. 1 .. l + 1 = {1} /\ 1 = l + 1
        BY <1>10
      <4>2. QED BY <1>6, <1>7, <4>1 DEF On, Range
    <3>2. p[j] \in On(row, n)
      BY <1>5, <1>7 DEF On, Range
    <3>3. QED BY <1>8, <3>1, <3>2
  <2>2. QED BY <1>3, <1>5, <1>10, <2>1
<1>11. CASE l # 0
  <2>1. l \in 1 .. l + 1 /\ l + 1 \in 1 .. l + 1 /\ l # l + 1 /\ l \in 1 .. l
    BY <1>11
  <2>2. PICK a : a = q[l]
    OBVIOUS
  <2>3. a \in On(row, c) /\ a # c
    <3>1. a \in On(row, c)
      BY <1>6, <1>7, <2>1, <2>2 DEF On, Range
    <3>2. \A x, y \in 1 .. l + 1 : q[x] = q[y] => x = y
      <4>1. \A x, y \in 1 .. Len(row[c].path) : row[c].path[x] = row[c].path[y] => x = y
        BY <1>4, PathsOn
      <4>2. QED BY <1>6, <1>7, <4>1
    <3>3. QED BY <1>7, <2>1, <2>2, <3>1, <3>2
  <2>4. a \in On(row, n)
    BY <1>9, <2>3
  <2>5. PICK r : r = row[a].path
    OBVIOUS
  <2>6. Len(r) \in 1 .. Len(p) /\ p[Len(r)] = a /\ \A j \in 1 .. Len(r) : r[j] = p[j]
    BY <1>4, <1>5, <2>4, <2>5, PlaceOf
  <2>7. Len(r) \in 1 .. l + 1 /\ q[Len(r)] = a /\ \A j \in 1 .. Len(r) : r[j] = q[j]
    BY <1>4, <1>6, <1>7, <2>3, <2>5, PlaceOf
  <2>8. Len(r) = l
    <3>1. \A x, y \in 1 .. l + 1 : q[x] = q[y] => x = y
      <4>1. \A x, y \in 1 .. Len(row[c].path) : row[c].path[x] = row[c].path[y] => x = y
        BY <1>4, PathsOn
      <4>2. QED BY <1>6, <1>7, <4>1
    <3>2. QED BY <2>1, <2>2, <2>7, <3>1
  <2>9. l <= Len(p)
    BY <2>6, <2>8
  <2>10. ASSUME NEW j \in 1 .. l PROVE j <= Len(p) /\ p[j] = q[j]
    <3>1. j <= Len(p)
      BY <1>7, <2>9
    <3>2. QED BY <2>6, <2>7, <2>8, <3>1
  <2>11. ASSUME NEW j \in 1 .. Len(p), j > l, p[j] \in On(row, c) PROVE FALSE
    <3>1. p[j] \in On(row, n)
      BY <1>5, <1>7 DEF On, Range
    <3>2. PICK x \in 1 .. l + 1 : p[j] = q[x]
      BY <1>6, <1>7, <2>11 DEF On, Range
    <3>3. x # l + 1
      BY <1>7, <1>8, <3>1, <3>2
    <3>4. x \in 1 .. l
      BY <3>3
    <3>5. p[j] = p[x] /\ x <= Len(p)
      BY <2>10, <3>2, <3>4
    <3>6. x \in 1 .. Len(p)
      BY <3>4, <3>5
    <3>7. \A u, v \in 1 .. Len(row[n].path) : row[n].path[u] = row[n].path[v] => u = v
      BY <1>4, PathsOn
    <3>8. x = j
      BY <1>5, <3>5, <3>6, <3>7
    <3>9. QED BY <2>11, <3>4, <3>8
  <2>12. QED BY <1>3, <1>5, <1>6, <2>10, <2>11
<1>12. QED BY <1>10, <1>11

(* When the next node is not below a node, all that is has been visited.    *)
LEMMA AllVisited ==
    ASSUME GoodTable(row), PathsRight(row), NEW i \in 1 .. Len(Walk),
           NEW a \in On(row, Walk[i]), i < Len(Walk) => a \notin On(row, Walk[i + 1])
    PROVE  {m \in Undeleted(row) : a \in On(row, m)} \subseteq Visited(i)
<1>1. PICK N \in Nat : N = Len(Walk)
  BY WalkOrder
<1>2. i \in 1 .. N
  BY <1>1
<1>3. Walk[i] \in Ids(row)
  BY WalkOrder DEF Undeleted
<1>4. a \in Ids(row)
  BY <1>3, PlaceOf
<1>5. ASSUME NEW m \in Undeleted(row), a \in On(row, m) PROVE m \in Visited(i)
  <2>1. PICK x \in 1 .. N : Walk[x] = m
    BY <1>1, WalkOrder
  <2>2. CASE x <= i
    <3>1. x \in 1 .. i
      BY <2>2
    <3>2. QED BY <2>1, <3>1 DEF Visited
  <2>3. CASE ~ (x <= i)
    <3>1. i < N /\ i + 1 \in 1 .. N /\ i <= i + 1 /\ i + 1 <= x
      BY <1>2, <2>3
    <3>2. a \in On(row, Walk[i + 1])
      BY <1>1, <1>2, <1>4, <1>5, <2>1, <3>1, WalkGoesDown
    <3>3. QED BY <1>1, <3>1, <3>2
  <2>4. QED BY <2>2, <2>3
<1>6. QED BY <1>5

(* The containers that are exhausted are popped.                            *)
LEMMA ReturnStands ==
    ASSUME GoodTable(row), PathsRight(row), NEW i \in 1 .. Len(Walk),
           On(row, Walk[i]) \subseteq Undeleted(row),
           NEW y \in Nat, Len(row[Walk[i]].path) = y + 1, NEW l \in Nat, l <= y, NEW q,
           Shares(row[Walk[i]].path, q, l, y),
           \A j \in l + 1 .. y :
               i < Len(Walk) => row[Walk[i]].path[j] \notin On(row, Walk[i + 1]),
           NEW v \in Walks, Stands(v, row[Walk[i]].path, y, Visited(i))
    PROVE  LET z == FoldLeft(Pop, v, Exhausted(row[Walk[i]].path, q))
           IN  z \in Walks /\ Stands(z, row[Walk[i]].path, l, Visited(i))
<1>1. PICK n \in Undeleted(row) : n = Walk[i]
  BY WalkOrder
<1>2. n \in Ids(row)
  BY DEF Undeleted
<1>3. PICK p \in Seq(Nodes) : p = row[n].path
  <2>1. row[n].path \in Seq(Nodes)
    BY <1>2, PathTypes
  <2>2. QED BY <2>1
<1>4. Len(p) = y + 1 /\ DOMAIN p = 1 .. y + 1 /\ p[y + 1] = n
  BY <1>1, <1>2, <1>3, PathTypes
<1>5. Shares(p, q, l, y)
  BY <1>1, <1>3
<1>6. /\ Exhausted(p, q) \in Seq(Nodes) /\ Len(Exhausted(p, q)) = y - l
      /\ \A x \in 1 .. y - l : Exhausted(p, q)[x] = p[y + 1 - x]
  BY <1>4, <1>5, ExhaustedIs
<1>7. PICK V : V = Visited(i)
  OBVIOUS
<1>8. V \in SUBSET Undeleted(row)
  <2>1. \A j \in 1 .. i : j \in 1 .. Len(Walk)
    BY WalkOrder
  <2>2. QED BY <1>7, <2>1, WalkOrder DEF Visited
<1>9. ASSUME NEW j \in l + 1 .. y
      PROVE  /\ p[j] \in V \cap Listed /\ ~Empty(p[j])
             /\ Under(row, p[j]) \cap Undeleted(row) \subseteq V
  <2>1. PICK a : a = p[j]
    OBVIOUS
  <2>2. j \in 1 .. y + 1 /\ j # y + 1 /\ y + 1 \in 1 .. y + 1
    OBVIOUS
  <2>3. a \in On(row, n)
    BY <1>3, <1>4, <2>1, <2>2 DEF On, Range
  <2>4. a # n
    <3>1. \A u, w \in 1 .. Len(row[n].path) : row[n].path[u] = row[n].path[w] => u = w
      BY <1>2, PathsOn
    <3>2. QED BY <1>3, <1>4, <2>1, <2>2, <3>1
  <2>5. a \in Undeleted(row) /\ a \in Of(row, Containers)
    BY <1>1, <1>2, <2>3, <2>4, OnPath
  <2>6. a \in Ids(row) /\ a \in On(row, a)
    <3>1. a \in Ids(row)
      BY <2>5 DEF Undeleted
    <3>2. QED BY <3>1, OnPath
  <2>7. {m \in Undeleted(row) : a \in On(row, m)} \subseteq V
    <3>1. i < Len(Walk) => a \notin On(row, Walk[i + 1])
      BY <1>1, <1>3, <2>1
    <3>2. a \in On(row, Walk[i])
      BY <1>1, <2>3
    <3>3. {m \in Undeleted(row) : a \in On(row, m)} \subseteq Visited(i)
      BY <3>1, <3>2, AllVisited
    <3>4. QED BY <1>7, <3>3
  <2>8. Under(row, a) = {m \in Ids(row) : a \in On(row, m)} \ {a}
    BY <2>6, AboveBelow
  <2>9. n \in Under(row, a) \cap Undeleted(row)
    BY <1>2, <2>3, <2>4, <2>8
  <2>10. QED BY <2>1, <2>5, <2>6, <2>7, <2>8, <2>9 DEF Listed, Empty, Undeleted
<1>10. Stands(v, row[n].path, y, V)
  BY <1>1, <1>7
<1>11. PICK e \in Seq(Nodes) : e = Exhausted(p, q)
  BY <1>6
<1>12. y <= Len(row[n].path)
  BY <1>3, <1>4
<1>13. Len(e) = y - l /\ \A x \in 1 .. y - l : e[x] = row[n].path[y + 1 - x]
  BY <1>3, <1>6, <1>11
<1>14. \A j \in l + 1 .. y : /\ row[n].path[j] \in V \cap Listed
                             /\ ~Empty(row[n].path[j])
                             /\ Under(row, row[n].path[j]) \cap Undeleted(row) \subseteq V
  BY <1>3, <1>9
<1>15. FoldLeft(Pop, v, e) \in Walks /\ Stands(FoldLeft(Pop, v, e), row[n].path, l, V)
  BY <1>2, <1>8, <1>10, <1>12, <1>13, <1>14, PopsStand
<1>16. QED BY <1>1, <1>3, <1>7, <1>11, <1>15

(* One turn of the loop.                                                    *)
StandsAt(s, i) ==
    /\ \A l \in Nat : i < Len(Walk) /\ Len(row[Walk[i + 1]].path) = l + 1 =>
          Stands(s, row[Walk[i + 1]].path, l, Visited(i))
    /\ i = Len(Walk) => Stands(s, <<>>, 0, Visited(i))

LEMMA TurnStands ==
    ASSUME GoodTable(row), PathsRight(row), NoOrphans, NEW i \in 1 .. Len(Walk),
           NEW s \in Walks, StandsAt(s, i - 1)
    PROVE  StandsAt(WalkedRow(Walk, s, i), i)
<1>1. PICK N \in Nat : N = Len(Walk)
  BY WalkOrder
<1>2. i \in 1 .. N /\ i \in Nat /\ (i - 1) + 1 = i /\ i - 1 < N /\ i \in 1 .. i
  BY <1>1
<1>3. PICK n \in Undeleted(row) : n = Walk[i]
  BY WalkOrder
<1>4. n \in Ids(row)
  BY DEF Undeleted
<1>5. PICK p \in Seq(Nodes) : p = row[n].path /\ p # <<>>
  <2>1. row[n].path \in Seq(Nodes) /\ row[n].path # <<>>
    BY <1>4 DEF GoodTable, GoodPath
  <2>2. QED BY <2>1
<1>6. PICK y \in Nat : Len(p) = y + 1
  <2>1. Len(p) \in Nat /\ Len(p) > 0
    BY <1>4, <1>5, PathTypes
  <2>2. Len(p) - 1 \in Nat /\ Len(p) = (Len(p) - 1) + 1
    BY <2>1
  <2>3. QED BY <2>2
<1>7. DOMAIN p = 1 .. y + 1 /\ p[y + 1] = n
  BY <1>4, <1>5, <1>6, PathTypes
<1>8. PICK V : V = Visited(i - 1)
  OBVIOUS
<1>9. V \in SUBSET Undeleted(row) /\ Visited(i) = V \cup {n} /\ \A m \in V : n \notin On(row, m)
  <2>1. \A j \in 1 .. i - 1 : j \in 1 .. N /\ j \in 1 .. i /\ ~ (i <= j)
    BY <1>2
  <2>2. \A j \in 1 .. i : j \in 1 .. i - 1 \/ j = i
    BY <1>2
  <2>3. V \in SUBSET Undeleted(row)
    BY <1>1, <1>8, <2>1, WalkOrder DEF Visited
  <2>4. Visited(i) = V \cup {n}
    BY <1>2, <1>3, <1>8, <2>1, <2>2 DEF Visited
  <2>5. ASSUME NEW m \in V, n \in On(row, m) PROVE FALSE
    <3>1. PICK j \in 1 .. i - 1 : m = Walk[j]
      BY <1>8 DEF Visited
    <3>2. j \in 1 .. N /\ Walk[i] \in On(row, Walk[j])
      BY <1>3, <2>1, <2>5, <3>1
    <3>3. i <= j
      BY <1>1, <1>2, <3>2, WalkGoesDown
    <3>4. QED BY <2>1, <3>3
  <2>6. QED BY <2>3, <2>4, <2>5
<1>10. Stands(s, row[n].path, y, V)
  <2>1. \A l \in Nat : i - 1 < Len(Walk) /\ Len(row[Walk[(i - 1) + 1]].path) = l + 1 =>
          Stands(s, row[Walk[(i - 1) + 1]].path, l, Visited(i - 1))
    BY DEF StandsAt
  <2>2. Walk[(i - 1) + 1] = n /\ i - 1 < Len(Walk) /\ Len(row[n].path) = y + 1
    BY <1>1, <1>2, <1>3, <1>5, <1>6
  <2>3. QED BY <1>8, <2>1, <2>2
<1>11. PICK q : q = IF i < Len(Walk) THEN row[Walk[i + 1]].path ELSE <<>>
  OBVIOUS
<1>12. PICK v \in Walks : v = Visit(s, n, q)
  <2>1. Visit(s, n, q) \in Walks
    BY VisitTypes
  <2>2. QED BY <2>1
<1>13. WalkedRow(Walk, s, i) = FoldLeft(Pop, v, Exhausted(p, q))
  <2>1. s.ok = TRUE
    BY <1>10 DEF Stands
  <2>2. QED BY <1>3, <1>5, <1>11, <1>12, <2>1 DEF WalkedRow
<1>14. On(row, n) \subseteq Undeleted(row)
  BY OnUndeleted
<1>15. PICK t : t = WalkedRow(Walk, s, i)
  OBVIOUS
<1>16. Len(row[Walk[i]].path) = y + 1 /\ On(row, Walk[i]) \subseteq Undeleted(row)
  BY <1>3, <1>5, <1>6, <1>14
<1>17. ASSUME NEW l \in Nat, l <= y,
              Shares(p, q, l, y),
              \A j \in l + 1 .. y : i < N => p[j] \notin On(row, Walk[i + 1]),
              Stands(v, p, y, Visited(i))
       PROVE  Stands(t, p, l, Visited(i))
  <2>1. Shares(row[Walk[i]].path, q, l, y)
    BY <1>3, <1>5, <1>17
  <2>2. \A j \in l + 1 .. y :
               i < Len(Walk) => row[Walk[i]].path[j] \notin On(row, Walk[i + 1])
    BY <1>1, <1>3, <1>5, <1>17
  <2>3. Stands(v, row[Walk[i]].path, y, Visited(i))
    BY <1>3, <1>5, <1>17
  <2>4. Stands(FoldLeft(Pop, v, Exhausted(row[Walk[i]].path, q)), row[Walk[i]].path, l, Visited(i))
    BY <1>16, <1>17, <2>1, <2>2, <2>3, ReturnStands
  <2>5. QED BY <1>3, <1>5, <1>13, <1>15, <2>4
<1>18. CASE i < N
  <2>1. PICK c \in Undeleted(row) : c = Walk[i + 1]
    <3>1. i + 1 \in 1 .. N
      BY <1>2, <1>18
    <3>2. QED BY <1>1, <3>1, WalkOrder
  <2>2. c \in Ids(row) /\ q = row[c].path /\ On(row, c) \subseteq Undeleted(row)
    BY <1>1, <1>11, <1>18, <2>1, OnUndeleted DEF Undeleted
  <2>3. q \in Seq(Nodes) /\ Len(q) \in Nat /\ Len(q) > 0
    BY <2>2, PathTypes
  <2>4. PICK l \in Nat : Len(q) = l + 1
    <3>1. Len(q) - 1 \in Nat /\ Len(q) = (Len(q) - 1) + 1
      BY <2>3
    <3>2. QED BY <3>1
  <2>5. /\ \A j \in 1 .. l : j <= y + 1 /\ p[j] = q[j]
        /\ \A j \in 1 .. y + 1 : j > l => p[j] \notin On(row, c)
    <3>1. i < Len(Walk) /\ On(row, Walk[i + 1]) \subseteq Undeleted(row)
          /\ Len(row[Walk[i + 1]].path) = l + 1
      BY <1>1, <1>18, <2>1, <2>2, <2>4
    <3>2. /\ \A j \in 1 .. l : /\ j <= Len(row[Walk[i]].path)
                               /\ row[Walk[i]].path[j] = row[Walk[i + 1]].path[j]
          /\ \A j \in 1 .. Len(row[Walk[i]].path) :
                 j > l => row[Walk[i]].path[j] \notin On(row, Walk[i + 1])
      BY <3>1, NextShares
    <3>3. QED BY <1>3, <1>5, <1>6, <2>1, <2>2, <3>2
  <2>6. \A j \in 1 .. l + 1 : q[j] \in On(row, c)
    <3>1. DOMAIN q = 1 .. l + 1
      BY <2>2, <2>4, PathTypes
    <3>2. QED BY <2>2, <3>1 DEF On, Range
  <2>7. l <= y + 1
    <3>1. l = 0 \/ l \in 1 .. l
      OBVIOUS
    <3>2. QED BY <2>5, <3>1
  <2>8. Shares(p, q, l, y)
    <3>1. ASSUME NEW j \in 1 .. y, j <= l PROVE j <= Len(q) /\ q[j] = p[j]
      <4>1. j \in 1 .. l /\ j <= l + 1
        BY <3>1
      <4>2. QED BY <2>4, <2>5, <4>1
    <3>2. ASSUME NEW j \in 1 .. y, ~ (j <= l), j <= Len(q), q[j] = p[j] PROVE FALSE
      <4>1. j \in 1 .. y + 1 /\ j > l /\ j \in 1 .. l + 1
        BY <2>4, <3>2
      <4>2. QED BY <2>5, <2>6, <3>2, <4>1
    <3>3. QED BY <3>1, <3>2 DEF Shares
  <2>9. \A j \in l + 1 .. y : p[j] \notin On(row, Walk[i + 1])
    <3>1. \A j \in l + 1 .. y : j \in 1 .. y + 1 /\ j > l
      OBVIOUS
    <3>2. QED BY <2>1, <2>5, <3>1
  <2>10. Stands(t, q, l, Visited(i))
    <3>1. CASE row[n].type # "FILE" /\ IsParentOf(p, q)
      <4>1. l = y + 1
        <5>1. Len(q) = Len(p) + 1
          BY <3>1 DEF IsParentOf
        <5>2. QED BY <1>6, <2>4, <5>1
      <4>2. Stands(Visit(s, n, q), row[n].path, y + 1, V \cup {n})
        BY <1>5, <1>6, <1>9, <1>10, <3>1, PushStands
      <4>3. Stands(v, p, y + 1, Visited(i))
        BY <1>5, <1>9, <1>12, <4>2
      <4>4. Shares(p, q, y, y)
        BY <2>8, <4>1 DEF Shares
      <4>5. PICK e \in Seq(Nodes) : e = Exhausted(p, q) /\ Len(e) = y - y
        <5>1. y <= y
          OBVIOUS
        <5>2. Exhausted(p, q) \in Seq(Nodes) /\ Len(Exhausted(p, q)) = y - y
          BY <1>6, <4>4, <5>1, ExhaustedIs
        <5>3. QED BY <5>2
      <4>6. FoldLeft(Pop, v, e) = v
        <5>1. PICK u \in [0 .. Len(e) -> Walks] :
                u[0] = v /\ u[Len(e)] = FoldLeft(Pop, v, e)
          BY PopsRun
        <5>2. Len(e) = 0
          BY <4>5
        <5>3. QED BY <5>1, <5>2
      <4>7. Stands(t, p, l, Visited(i))
        BY <1>13, <1>15, <4>1, <4>3, <4>5, <4>6
      <4>8. QED BY <2>5, <4>7, StandsSame
    <3>2. CASE ~ (row[n].type # "FILE" /\ IsParentOf(p, q))
      <4>1. l # y + 1
        <5>1. ASSUME l = y + 1 PROVE FALSE
          <6>1. y + 1 \in 1 .. l /\ y + 1 \in 1 .. l + 1
            BY <5>1
          <6>2. n \in On(row, c)
            BY <1>7, <2>5, <2>6, <6>1
          <6>3. IsPrefix(p, q)
            BY <1>4, <1>5, <2>2, <6>2, PrefixOn
          <6>4. IsParentOf(p, q)
            BY <1>6, <2>4, <5>1, <6>3 DEF IsParentOf
          <6>5. n # c
            <7>1. Len(p) # Len(q)
              BY <1>6, <2>4, <5>1
            <7>2. QED BY <1>5, <2>2, <7>1
          <6>6. n \in Of(row, Containers)
            BY <2>2, <6>2, <6>5, OnPath
          <6>7. row[n].type # "FILE"
            BY <6>6 DEF Of, Containers
          <6>8. QED BY <3>2, <6>4, <6>7
        <5>2. QED BY <5>1
      <4>2. l <= y
        BY <2>7, <4>1
      <4>3. n \notin On(row, c)
        <5>1. y + 1 \in 1 .. y + 1 /\ y + 1 > l
          BY <4>2
        <5>2. QED BY <1>7, <2>5, <5>1
      <4>4. Stands(v, p, y, Visited(i))
        <5>1. CASE row[n].type = "FILE"
          <6>1. Stands(Visit(s, n, q), row[n].path, y, V \cup {n})
            BY <1>5, <1>6, <1>9, <1>10, <5>1, FileStands
          <6>2. QED BY <1>5, <1>9, <1>12, <6>1
        <5>2. CASE row[n].type # "FILE"
          <6>1. Empty(n)
            <7>1. n \in On(row, Walk[i]) /\ (i < Len(Walk) => n \notin On(row, Walk[i + 1]))
              BY <1>3, <1>4, <2>1, <4>3, OnPath
            <7>2. {m \in Undeleted(row) : n \in On(row, m)} \subseteq Visited(i)
              BY <7>1, AllVisited
            <7>3. Under(row, n) = {m \in Ids(row) : n \in On(row, m)} \ {n}
              BY <1>4, AboveBelow
            <7>4. QED BY <1>9, <7>2, <7>3 DEF Empty, Undeleted
          <6>2. ~IsParentOf(row[n].path, q)
            BY <1>5, <3>2, <5>2
          <6>3. Stands(Visit(s, n, q), row[n].path, y, V \cup {n})
            BY <1>5, <1>6, <1>9, <1>10, <5>2, <6>1, <6>2, EmptyStands
          <6>4. QED BY <1>5, <1>9, <1>12, <6>3
        <5>3. QED BY <5>1, <5>2
      <4>5. Stands(t, p, l, Visited(i))
        BY <1>17, <2>8, <2>9, <4>2, <4>4
      <4>6. QED BY <2>5, <4>5, StandsSame
    <3>3. QED BY <3>1, <3>2
  <2>11. \A k \in Nat : Len(q) = k + 1 => k = l
    BY <2>4
  <2>12. i # Len(Walk)
    BY <1>1, <1>18
  <2>13. QED BY <1>15, <2>1, <2>2, <2>10, <2>11, <2>12 DEF StandsAt
<1>19. CASE i = N
  <2>1. ~ (i < Len(Walk)) /\ i = Len(Walk) /\ ~ (i < N) /\ q = <<>>
    BY <1>1, <1>2, <1>11, <1>19
  <2>2. Len(q) = 0 /\ \A j \in 1 .. y : ~ (j <= 0)
    BY <2>1
  <2>3. Shares(p, q, 0, y)
    BY <2>2 DEF Shares
  <2>4. ~IsParentOf(row[n].path, q)
    <3>1. Len(q) # Len(p) + 1
      BY <1>6, <2>2
    <3>2. QED BY <1>5, <3>1 DEF IsParentOf
  <2>5. Stands(v, p, y, Visited(i))
    <3>1. CASE row[n].type = "FILE"
      <4>1. Stands(Visit(s, n, q), row[n].path, y, V \cup {n})
        BY <1>5, <1>6, <1>9, <1>10, <3>1, FileStands
      <4>2. QED BY <1>5, <1>9, <1>12, <4>1
    <3>2. CASE row[n].type # "FILE"
      <4>1. Empty(n)
        <5>1. n \in On(row, Walk[i]) /\ (i < Len(Walk) => n \notin On(row, Walk[i + 1]))
          BY <1>3, <1>4, <2>1, OnPath
        <5>2. {m \in Undeleted(row) : n \in On(row, m)} \subseteq Visited(i)
          BY <5>1, AllVisited
        <5>3. Under(row, n) = {m \in Ids(row) : n \in On(row, m)} \ {n}
          BY <1>4, AboveBelow
        <5>4. QED BY <1>9, <5>2, <5>3 DEF Empty, Undeleted
      <4>2. Stands(Visit(s, n, q), row[n].path, y, V \cup {n})
        BY <1>5, <1>6, <1>9, <1>10, <2>4, <3>2, <4>1, EmptyStands
      <4>3. QED BY <1>5, <1>9, <1>12, <4>2
    <3>3. QED BY <3>1, <3>2
  <2>6. Stands(t, p, 0, Visited(i))
    <3>1. 0 \in Nat /\ 0 <= y
      OBVIOUS
    <3>2. \A j \in 0 + 1 .. y : i < N => p[j] \notin On(row, Walk[i + 1])
      BY <2>1
    <3>3. QED BY <1>17, <2>3, <2>5, <3>1, <3>2
  <2>7. Stands(t, <<>>, 0, Visited(i))
    <3>1. 0 \in Nat /\ \A j \in 1 .. 0 : p[j] = <<>>[j]
      OBVIOUS
    <3>2. QED BY <2>6, <3>1, StandsSame
  <2>8. QED BY <1>15, <2>1, <2>7 DEF StandsAt
<1>20. QED BY <1>2, <1>18, <1>19

(* Where no node is orphaned the walk goes through, and what it has written *)
(* of every container are the sums of what is below it.                     *)
LEMMA WalkStands ==
    ASSUME GoodTable(row), PathsRight(row), NoOrphans
    PROVE  Stands(Calculated, <<>>, 0, Undeleted(row))
<1>1. PICK N \in Nat : N = Len(Walk)
  BY WalkOrder
<1>2. \A i \in 1 .. N : Walk[i] \in Undeleted(row)
  BY <1>1, WalkOrder
<1>3. PICK t \in [0 .. Len(Walk) -> Walks] :
              /\ t[0] = [stack |-> <<>>, out |-> <<>>, ok |-> TRUE]
              /\ t[Len(Walk)] = Calculated
              /\ \A i \in 1 .. Len(Walk) : t[i] = WalkedRow(Walk, t[i - 1], i)
  <2>1. Len(Walk) \in Nat /\ \A i \in 1 .. Len(Walk) : Walk[i] \in Undeleted(row)
    BY WalkOrder
  <2>2. QED BY <2>1, WalkRun
<1>4. /\ t \in [0 .. N -> Walks] /\ t[N] = Calculated
      /\ \A i \in 1 .. N : t[i] = WalkedRow(Walk, t[i - 1], i)
  BY <1>1, <1>3
<1> DEFINE X == {i \in 0 .. N : StandsAt(t[i], i)}
<1>5. 0 \in X
  <2>1. 0 \in 0 .. N /\ Visited(0) = {}
    BY DEF Visited
  <2>2. \A p : Stands(t[0], p, 0, {})
    <3>1. Len(<<>>) = 0 /\ \A j \in 1 .. 0 : FALSE
      OBVIOUS
    <3>2. t[0].ok = TRUE /\ t[0].stack = <<>>
      BY <1>3
    <3>3. QED BY <3>1, <3>2 DEF Stands
  <2>3. ASSUME NEW l \in Nat, 0 < N, Len(row[Walk[0 + 1]].path) = l + 1 PROVE l = 0
    <3>1. 0 + 1 = 1 /\ 1 \in 1 .. N
      BY <2>3
    <3>2. PICK c \in Undeleted(row) : c = Walk[1]
      BY <1>2, <3>1
    <3>3. c \in Ids(row)
      BY DEF Undeleted
    <3>4. PICK q : q = row[c].path
      OBVIOUS
    <3>5. Len(q) = l + 1 /\ DOMAIN q = 1 .. l + 1 /\ q[l + 1] = c
      BY <2>3, <3>1, <3>2, <3>3, <3>4, PathTypes
    <3>6. ASSUME l # 0 PROVE FALSE
      <4>1. l \in 1 .. l + 1 /\ l + 1 \in 1 .. l + 1 /\ l # l + 1
        BY <3>6
      <4>2. q[l] \in On(row, c)
        BY <3>4, <3>5, <4>1 DEF On, Range
      <4>3. \A x, y \in 1 .. Len(row[c].path) : row[c].path[x] = row[c].path[y] => x = y
        BY <3>3, PathsOn
      <4>4. q[l] # c
        BY <3>4, <3>5, <4>1, <4>3
      <4>5. q[l] \in Undeleted(row)
        BY <4>2, OnUndeleted
      <4>6. PICK j \in 1 .. N : Walk[j] = q[l]
        BY <1>1, <4>5, WalkOrder
      <4>7. j <= 1
        BY <1>1, <3>1, <3>2, <4>2, <4>6, WalkGoesDown
      <4>8. j = 1
        BY <4>7
      <4>9. QED BY <3>2, <4>4, <4>6, <4>8
    <3>7. QED BY <3>6
  <2>4. QED BY <1>1, <2>1, <2>2, <2>3 DEF StandsAt
<1>6. ASSUME NEW i \in 1 .. N, i - 1 \in X PROVE i \in X
  <2>1. i \in 1 .. Len(Walk) /\ i \in 0 .. N /\ i - 1 \in 0 .. N
    BY <1>1
  <2>2. t[i - 1] \in Walks
    BY <1>4, <2>1
  <2>3. StandsAt(t[i - 1], i - 1)
    BY <1>6
  <2>4. StandsAt(WalkedRow(Walk, t[i - 1], i), i)
    BY <2>1, <2>2, <2>3, TurnStands
  <2>5. StandsAt(t[i], i)
    BY <1>4, <2>4
  <2>6. QED BY <2>1, <2>5
<1> HIDE DEF X
<1>7. \A i \in 0 .. N : i \in X
  BY <1>5, <1>6, Upwards
<1>8. N \in X /\ N \in 0 .. N
  BY <1>7
<1>9. StandsAt(t[N], N)
  BY <1>8 DEF X
<1>10. Stands(Calculated, <<>>, 0, Visited(N))
  BY <1>1, <1>4, <1>9 DEF StandsAt
<1>11. Visited(N) = Undeleted(row)
  BY <1>1, WalkOrder DEF Visited
<1>12. QED BY <1>10, <1>11

(* A walk that goes through has popped listed containers only ...           *)
LEMMA PopsOk ==
    ASSUME NEW s \in Walks, NEW z \in Seq(Nodes), FoldLeft(Pop, s, z).ok = TRUE
    PROVE  s.ok = TRUE /\ \A x \in 1 .. Len(z) : z[x] \in Listed
<1>1. PICK t \in [0 .. Len(z) -> Walks] :
              /\ t[0] = s /\ t[Len(z)] = FoldLeft(Pop, s, z)
              /\ \A i \in 1 .. Len(z) : t[i] = Pop(t[i - 1], z[i])
  BY PopsRun
<1>2. PICK h \in Nat : h = Len(z)
  OBVIOUS
<1>3. /\ t \in [0 .. h -> Walks] /\ t[0] = s /\ t[h].ok = TRUE
      /\ \A i \in 1 .. h : t[i] = Pop(t[i - 1], z[i])
  BY <1>1, <1>2
<1> DEFINE X == {i \in 0 .. h : t[i].ok = TRUE =>
                    s.ok = TRUE /\ \A x \in 1 .. i : z[x] \in Listed}
<1>4. 0 \in X
  <2>1. 0 \in 0 .. h /\ \A x \in 1 .. 0 : FALSE
    OBVIOUS
  <2>2. QED BY <1>3, <2>1
<1>5. ASSUME NEW i \in 1 .. h, i - 1 \in X PROVE i \in X
  <2>1. i \in 0 .. h /\ i - 1 \in 0 .. h /\ \A x \in 1 .. i : x = i \/ x \in 1 .. i - 1
    OBVIOUS
  <2>2. PICK u \in Walks : u = t[i - 1]
    BY <1>3, <2>1
  <2>3. ASSUME t[i].ok = TRUE PROVE u.ok = TRUE /\ z[i] \in Listed
    <3>1. ASSUME ~u.ok \/ ~IsOnTop(u, z[i]) PROVE FALSE
      <4>1. PICK w : w = [u EXCEPT !.ok = FALSE]
        OBVIOUS
      <4>2. w.ok = FALSE
        BY <4>1 DEF Walks
      <4>3. t[i] = w
        BY <1>3, <2>2, <3>1, <4>1 DEF Pop
      <4>4. QED BY <2>3, <4>2, <4>3
    <3>2. u.stack # <<>> /\ Last(u.stack).id = z[i]
      BY <3>1 DEF IsOnTop
    <3>3. Last(u.stack) \in Open
      BY <3>2, TopTypes
    <3>4. z[i] \in Listed
      BY <3>2, <3>3 DEF Open
    <3>5. u.ok \in BOOLEAN
      BY DEF Walks
    <3>6. QED BY <3>1, <3>4, <3>5
  <2>4. u.ok = TRUE => s.ok = TRUE /\ \A x \in 1 .. i - 1 : z[x] \in Listed
    BY <1>5, <2>2
  <2>5. t[i].ok = TRUE => s.ok = TRUE /\ \A x \in 1 .. i : z[x] \in Listed
    BY <2>1, <2>3, <2>4
  <2>6. QED BY <2>1, <2>5
<1> HIDE DEF X
<1>6. \A i \in 0 .. h : i \in X
  BY <1>4, <1>5, Upwards
<1>7. h \in X
  BY <1>6
<1>8. QED BY <1>2, <1>3, <1>7 DEF X

(* ... so that no node is orphaned: a deleted container on the path of a    *)
(* node that was visited is on the path of the next one.                    *)
LEMMA OkMeansNoOrphans ==
    ASSUME GoodTable(row), PathsRight(row), Calculated.ok = TRUE
    PROVE  NoOrphans
<1>1. PICK N \in Nat : N = Len(Walk)
  BY WalkOrder
<1>2. \A i \in 1 .. N : Walk[i] \in Undeleted(row)
  BY <1>1, WalkOrder
<1>3. PICK t \in [0 .. Len(Walk) -> Walks] :
              /\ t[0] = [stack |-> <<>>, out |-> <<>>, ok |-> TRUE]
              /\ t[Len(Walk)] = Calculated
              /\ \A i \in 1 .. Len(Walk) : t[i] = WalkedRow(Walk, t[i - 1], i)
  <2>1. Len(Walk) \in Nat /\ \A i \in 1 .. Len(Walk) : Walk[i] \in Undeleted(row)
    BY WalkOrder
  <2>2. QED BY <2>1, WalkRun
<1>4. /\ t \in [0 .. N -> Walks] /\ t[N].ok = TRUE
      /\ \A i \in 1 .. N : t[i] = WalkedRow(Walk, t[i - 1], i)
  BY <1>1, <1>3
<1> DEFINE OnNext(a, i) == i < N /\ a \in On(row, Walk[i + 1])
           Kept(i) == \A m \in Visited(i) : \A a \in On(row, m) :
                         a \in Undeleted(row) \/ OnNext(a, i)
           X == {i \in 0 .. N : t[i].ok = TRUE => Kept(i)}
<1>5. 0 \in X
  <2>1. 0 \in 0 .. N /\ Visited(0) = {}
    BY DEF Visited
  <2>2. QED BY <2>1
<1>6. ASSUME NEW i \in 1 .. N, i - 1 \in X PROVE i \in X
  <2>1. /\ i \in 0 .. N /\ i - 1 \in 0 .. N /\ (i - 1) + 1 = i
        /\ \A x \in 1 .. i : x = i \/ x \in 1 .. i - 1
    OBVIOUS
  <2>2. PICK u \in Walks : u = t[i - 1]
    BY <1>4, <2>1
  <2>3. PICK n \in Undeleted(row) : n = Walk[i]
    BY <1>2
  <2>4. n \in Ids(row)
    BY DEF Undeleted
  <2>5. PICK p \in Seq(Nodes) : p = row[n].path
    <3>1. row[n].path \in Seq(Nodes)
      BY <2>4, PathTypes
    <3>2. QED BY <3>1
  <2>6. PICK y \in Nat : Len(p) = y + 1
    <3>1. Len(p) \in Nat /\ Len(p) > 0
      BY <2>4, <2>5, PathTypes
    <3>2. Len(p) - 1 \in Nat /\ Len(p) = (Len(p) - 1) + 1
      BY <3>1
    <3>3. QED BY <3>2
  <2>7. DOMAIN p = 1 .. y + 1 /\ p[y + 1] = n
    BY <2>4, <2>5, <2>6, PathTypes
  <2>8. PICK q : q = IF i < Len(Walk) THEN row[Walk[i + 1]].path ELSE <<>>
    OBVIOUS
  <2>9. PICK v \in Walks : v = Visit(u, n, q)
    <3>1. Visit(u, n, q) \in Walks
      BY VisitTypes
    <3>2. QED BY <3>1
  <2>10. t[i] = IF u.ok THEN FoldLeft(Pop, v, Exhausted(p, q)) ELSE u
    BY <1>4, <2>2, <2>3, <2>5, <2>8, <2>9 DEF WalkedRow
  <2>11. ASSUME t[i].ok = TRUE PROVE Kept(i)
    <3>1. u.ok = TRUE
      <4>1. u.ok \in BOOLEAN
        BY DEF Walks
      <4>2. QED BY <2>10, <2>11, <4>1
    <3>2. FoldLeft(Pop, v, Exhausted(p, q)).ok = TRUE
      BY <2>10, <2>11, <3>1
    <3>3. Kept(i - 1)
      BY <1>6, <2>2, <3>1
    <3>4. ASSUME NEW a \in On(row, n), a \notin Undeleted(row), ~OnNext(a, i) PROVE FALSE
      <4>1. PICK j \in 1 .. y + 1 : a = p[j]
        BY <2>5, <2>7 DEF On, Range
      <4>2. j # y + 1
        BY <2>7, <3>4, <4>1
      <4>3. j \in 1 .. y
        BY <4>2
      <4>4. ~ (j <= Len(q) /\ q[j] = p[j])
        <5>1. ASSUME j <= Len(q), q[j] = p[j] PROVE FALSE
          <6>1. CASE i < N
            <7>1. i + 1 \in 1 .. N
              BY <6>1
            <7>2. PICK c \in Ids(row) : c = Walk[i + 1]
              BY <1>2, <7>1 DEF Undeleted
            <7>3. q = row[c].path
              BY <1>1, <2>8, <6>1, <7>2
            <7>4. DOMAIN q = 1 .. Len(q) /\ Len(q) \in Nat
              BY <7>3, PathTypes
            <7>5. j \in DOMAIN q
              BY <5>1, <7>4
            <7>6. a \in On(row, c)
              BY <4>1, <5>1, <7>3, <7>5 DEF On, Range
            <7>7. QED BY <3>4, <6>1, <7>2, <7>6
          <6>2. CASE ~ (i < N)
            <7>1. Len(q) = 0
              <8>1. q = <<>>
                BY <1>1, <2>8, <6>2
              <8>2. QED BY <8>1
            <7>2. QED BY <5>1, <7>1
          <6>3. QED BY <6>1, <6>2
        <5>2. QED BY <5>1
      <4>5. PICK e \in Seq(Nodes) : e = Exhausted(p, q) /\ \E x \in 1 .. Len(e) : e[x] = p[j]
        <5>1. /\ Exhausted(p, q) \in Seq(Nodes)
              /\ \E x \in 1 .. Len(Exhausted(p, q)) : Exhausted(p, q)[x] = p[j]
          BY <2>6, <4>3, <4>4, ExhaustedHas
        <5>2. QED BY <5>1
      <4>6. FoldLeft(Pop, v, e).ok = TRUE
        BY <3>2, <4>5
      <4>7. \A x \in 1 .. Len(e) : e[x] \in Listed
        BY <4>6, PopsOk
      <4>8. a \in Listed
        BY <4>1, <4>5, <4>7
      <4>9. QED BY <3>4, <4>8 DEF Listed
    <3>5. ASSUME NEW m \in Visited(i), NEW a \in On(row, m)
          PROVE  a \in Undeleted(row) \/ OnNext(a, i)
      <4>1. PICK x \in 1 .. i : m = Walk[x]
        BY DEF Visited
      <4>2. CASE x = i
        BY <2>3, <3>4, <3>5, <4>1, <4>2
      <4>3. CASE x # i
        <5>1. m \in Visited(i - 1)
          BY <2>1, <4>1, <4>3 DEF Visited
        <5>2. a \in Undeleted(row) \/ OnNext(a, i - 1)
          BY <3>3, <5>1
        <5>3. OnNext(a, i - 1) => a \in On(row, n)
          BY <2>1, <2>3
        <5>4. QED BY <3>4, <5>2, <5>3
      <4>4. QED BY <4>2, <4>3
    <3>6. QED BY <3>5
  <2>12. QED BY <2>1, <2>11
<1> HIDE DEF X
<1>7. \A i \in 0 .. N : i \in X
  BY <1>5, <1>6, Upwards
<1>8. N \in X /\ ~ (N < N)
  BY <1>7
<1>9. Kept(N)
  BY <1>4, <1>8 DEF X
<1>10. Visited(N) = Undeleted(row)
  BY <1>1, WalkOrder DEF Visited
<1>11. ASSUME NEW n \in Undeleted(row), NEW m \in Ids(row) \ Undeleted(row), n \in Under(row, m)
       PROVE  FALSE
  <2>1. m \in On(row, n)
    BY <1>11, AboveBelow
  <2>2. QED BY <1>8, <1>9, <1>10, <1>11, <2>1
<1>12. QED BY <1>11 DEF NoOrphans

(* What the recalculation calculates.                                       *)
LEMMA CalculatedIs ==
    ASSUME GoodTable(row), PathsRight(row)
    PROVE  /\ Calculated.ok \in BOOLEAN
           /\ NoOrphans => Calculated.ok = TRUE
           /\ Calculated.ok = TRUE => NoOrphans /\ \A n \in Listed :
                 /\ n \in DOMAIN Calculated.out
                 /\ Calculated.out[n] = [size |-> SizeOf(Under(row, n)),
                                         count |-> CountOf(Under(row, n))]
<1>1. Calculated.ok \in BOOLEAN
  BY CalculatedTypes DEF Walks
<1>2. ASSUME NoOrphans PROVE Calculated.ok = TRUE
  BY <1>2, WalkStands DEF Stands
<1>3. ASSUME Calculated.ok = TRUE
      PROVE  NoOrphans /\ \A n \in Listed :
                 /\ n \in DOMAIN Calculated.out
                 /\ Calculated.out[n] = [size |-> SizeOf(Under(row, n)),
                                         count |-> CountOf(Under(row, n))]
  <2>1. NoOrphans
    BY <1>3, OkMeansNoOrphans
  <2>2. Stands(Calculated, <<>>, 0, Undeleted(row))
    BY <2>1, WalkStands
  <2>3. \A n \in Listed : n \in Undeleted(row) \cap Listed
    BY DEF Listed
  <2>4. \A j \in 1 .. 0 : FALSE
    OBVIOUS
  <2>5. QED BY <2>1, <2>2, <2>3, <2>4 DEF Stands
<1>4. QED BY <1>1, <1>2, <1>3

(* Whatever the triggers and late saves have made of the sums, as long as   *)
(* the paths are right, the walk of the command raises no assertion unless  *)
(* a node is orphaned, and where it raises none it writes, for every        *)
(* undeleted container, the sum of the sizes of the files below it.         *)
LEMMA RepairsNow ==
    ASSUME GoodTable(row), PathsRight(row), Calculated.ok = TRUE,
           NEW n \in Undeleted(row) \cap Of(row, Containers)
    PROVE  /\ n \in DOMAIN Calculated.out
           /\ Calculated.out[n].size =
                SumOf(row, Under(row, n) \cap Undeleted(row) \cap Of(row, {"FILE"}))
<1>1. n \in Listed
  BY DEF Listed
<1>2. n \in DOMAIN Calculated.out
      /\ Calculated.out[n] = [size |-> SizeOf(Under(row, n)), count |-> CountOf(Under(row, n))]
  BY <1>1, CalculatedIs
<1>3. SizeOf(Under(row, n))
        = SumOf(row, Under(row, n) \cap Undeleted(row) \cap Of(row, {"FILE"}))
  BY FilesWeigh DEF SizeOf
<1>4. QED BY <1>2, <1>3

THEOREM RecalculationIsRight == Spec => []RecalculationRepairs
<1>1. Sound /\ PathFollowsParent => RecalculationRepairs
  <2> SUFFICES ASSUME Sound, PathFollowsParent, "path" \notin broken
               PROVE  LET calculated == Calculated
                      IN  /\ NoOrphans => calculated.ok
                          /\ calculated.ok =>
                               \A n \in Undeleted(row) \cap Of(row, Containers) :
                                  /\ n \in DOMAIN calculated.out
                                  /\ calculated.out[n].size =
                                       SumOf(row, Under(row, n) \cap Undeleted(row)
                                                    \cap Of(row, {"FILE"}))
    BY DEF RecalculationRepairs
  <2>1. GoodTable(row) /\ PathsRight(row)
    BY DEF Sound, PathFollowsParent
  <2>2. NoOrphans => Calculated.ok = TRUE
    BY <2>1, CalculatedIs
  <2>3. Calculated.ok \in BOOLEAN
    BY <2>1, CalculatedIs
  <2>4. ASSUME Calculated.ok = TRUE
        PROVE  \A n \in Undeleted(row) \cap Of(row, Containers) :
                  /\ n \in DOMAIN Calculated.out
                  /\ Calculated.out[n].size =
                       SumOf(row, Under(row, n) \cap Undeleted(row) \cap Of(row, {"FILE"}))
    BY <2>1, <2>4, RepairsNow
  <2>5. QED BY <2>2, <2>3, <2>4
<1>2. QED BY <1>1, AlwaysSound, PathIsFollowed, PTL

(* An organization is below nothing.                                        *)
LEMMA UnderNoOrganization ==
    ASSUME GoodTable(row), PathsRight(row), NEW n \in Ids(row), NEW m \in Under(row, n)
    PROVE  m \in Ids(row) /\ row[m].type \in {"FILE", "FOLDER", "COLLECTION"}
<1>1. m \in Ids(row) /\ m # n /\ n \in On(row, m)
  BY AboveBelow
<1>2. row[m].type # "ORGANIZATION"
  <2>1. ASSUME row[m].type = "ORGANIZATION" PROVE FALSE
    <3>1. row[m].parent = None
      BY <1>1, <2>1 DEF GoodTable, ValidParent
    <3>2. On(row, m) = {m}
      BY <1>1, <3>1, OnParent
    <3>3. QED BY <1>1, <3>2
  <2>2. QED BY <2>1
<1>3. row[m].type \in Containers \cup {"FILE"}
  BY <1>1, RowIs DEF GoodTable
<1>4. QED BY <1>1, <1>2, <1>3 DEF Containers

(* The counts of the walk and of the triggers differ by empty folders, and  *)
(* collections that are not.                                                *)
LEMMA CountsCompare ==
    ASSUME GoodTable(row), PathsRight(row), CountsRight(row), NEW n \in Of(row, Containers),
           NEW in, in = Under(row, n) \cap Undeleted(row)
    PROVE  CountOf(Under(row, n))
             = row[n].count - Cardinality({m \in in \cap Of(row, {"FOLDER"}) : Empty(m)})
                            + Cardinality({m \in in \cap Of(row, {"COLLECTION"}) : ~Empty(m)})
<1> DEFINE F == in \cap Of(row, {"FILE"})
           D == in \cap Of(row, {"FOLDER"})
           E == {m \in D : Empty(m)}
           H == {m \in D : ~Empty(m)}
           K == {m \in in \cap Of(row, {"COLLECTION"}) : ~Empty(m)}
<1>1. n \in Ids(row) /\ IsFiniteSet(in) /\ in \in SUBSET Nodes /\ in \subseteq Undeleted(row)
  <2>1. n \in Ids(row)
    BY DEF Of
  <2>2. IsFiniteSet(Under(row, n)) /\ Under(row, n) \subseteq Nodes
    BY UnderIsFinite
  <2>3. QED BY <2>1, <2>2, FS_Subset
<1>2. \A m \in in : m \in Ids(row) /\ row[m].type \in {"FILE", "FOLDER", "COLLECTION"}
  BY <1>1, UnderNoOrganization
<1>3. /\ {m \in in : Filled(m)} = (F \cup H) \cup K
      /\ F \cap H = {} /\ (F \cup H) \cap K = {}
      /\ in \cap Of(row, Counted) = F \cup D /\ F \cap D = {}
      /\ D = E \cup H /\ E \cap H = {}
  BY <1>2 DEF Filled, Of, Counted
<1>4. /\ IsFiniteSet(F) /\ IsFiniteSet(D) /\ IsFiniteSet(E) /\ IsFiniteSet(H) /\ IsFiniteSet(K)
      /\ F \in SUBSET in /\ H \in SUBSET in /\ K \in SUBSET in
  <2>1. F \in SUBSET in /\ D \in SUBSET in /\ E \in SUBSET in /\ H \in SUBSET in /\ K \in SUBSET in
    OBVIOUS
  <2> HIDE DEF F, D, E, H, K
  <2>2. QED BY <1>1, <2>1, FS_Subset
<1>5. CountOf(Under(row, n)) = CountOf(in)
  <2>1. Under(row, n) \in SUBSET Nodes
    BY UnderIsFinite
  <2>2. QED BY <2>1, SumsAre
<1>6. CountOf(in) = Cardinality({m \in in : Filled(m)})
  <2> DEFINE R == {m \in in : Filled(m)}
             W == Tallied
  <2>1. R \in SUBSET in /\ \A x \in R : W[x].size = 1
    BY <1>1 DEF Tallied
  <2>2. \A x \in in : x \notin R => W[x].size = 0
    BY <1>1 DEF Tallied
  <2>3. IsFiniteSet(R)
    BY <1>1, <2>1, FS_Subset
  <2> HIDE DEF R, W
  <2>4. SumOf(W, in) = SumOf(W, R)
    <3>1. \A x \in R : W[x].size \in Nat /\ W[x].size = W[x].size
      BY <2>1
    <3>2. QED BY <1>1, <2>1, <2>2, <3>1, SumSome
  <2>5. SumOf(W, R) = Cardinality(R)
    BY <2>1, <2>3, SumOnes
  <2>6. QED BY <2>4, <2>5 DEF CountOf, R, W
<1>7. row[n].count = Cardinality(in \cap Of(row, Counted))
  BY DEF CountsRight
<1> HIDE DEF F, D, E, H, K
<1>8. /\ Cardinality(F \cup H) = Cardinality(F) + Cardinality(H) - Cardinality(F \cap H)
      /\ IsFiniteSet(F \cup H)
  BY <1>4, FS_Union
<1>9. Cardinality((F \cup H) \cup K)
        = Cardinality(F \cup H) + Cardinality(K) - Cardinality((F \cup H) \cap K)
  BY <1>4, <1>8, FS_Union
<1>10. Cardinality(F \cup D) = Cardinality(F) + Cardinality(D) - Cardinality(F \cap D)
  BY <1>4, FS_Union
<1>11. Cardinality(E \cup H) = Cardinality(E) + Cardinality(H) - Cardinality(E \cap H)
  BY <1>4, FS_Union
<1>12. Cardinality({}) = 0
  BY FS_EmptySet
<1>13. /\ Cardinality(F) \in Nat /\ Cardinality(D) \in Nat /\ Cardinality(E) \in Nat
       /\ Cardinality(H) \in Nat /\ Cardinality(K) \in Nat
  BY <1>4, FS_CardinalityType
<1>13a. /\ Cardinality(F \cap H) = 0 /\ Cardinality((F \cup H) \cap K) = 0
        /\ Cardinality(F \cap D) = 0 /\ Cardinality(E \cap H) = 0
  BY <1>3, <1>12
<1>13b. Cardinality(D) = Cardinality(E \cup H)
  BY <1>3
<1>14. Cardinality((F \cup H) \cup K) = Cardinality(F) + Cardinality(H) + Cardinality(K)
  BY <1>8, <1>9, <1>13, <1>13a
<1>15. Cardinality(F \cup D) = Cardinality(F) + Cardinality(E) + Cardinality(H)
  BY <1>10, <1>11, <1>13, <1>13a, <1>13b
<1>16. CountOf(Under(row, n)) = Cardinality(F) + Cardinality(H) + Cardinality(K)
  BY <1>3, <1>5, <1>6, <1>14
<1>17. row[n].count = Cardinality(F) + Cardinality(E) + Cardinality(H)
  BY <1>3, <1>7, <1>15
<1>18. CountOf(Under(row, n)) = row[n].count - Cardinality(E) + Cardinality(K)
  BY <1>13, <1>16, <1>17
<1>19. QED BY <1>18 DEF D, E, K

(* While nothing is broken and no node is orphaned, the command would write *)
(* the counts that the triggers keep, but for the empty folders, which only *)
(* the triggers count, and the collections that are not empty, which only   *)
(* the command counts.                                                      *)
THEOREM RecalculationDiffers == Spec => []RecalculationAgrees
<1>1. Sound /\ Right => RecalculationAgrees
  <2> SUFFICES ASSUME Sound, Right, broken = {}, NoOrphans,
                      NEW n \in Undeleted(row) \cap Of(row, Containers)
               PROVE  LET in == Under(row, n) \cap Undeleted(row)
                      IN  Calculated.out[n].count =
                            row[n].count
                              - Cardinality({m \in in \cap Of(row, {"FOLDER"}) : Empty(m)})
                              + Cardinality({m \in in \cap Of(row, {"COLLECTION"}) : ~Empty(m)})
    BY DEF RecalculationAgrees
  <2>1. GoodTable(row) /\ PathsRight(row) /\ CountsRight(row)
    BY DEF Sound, Right
  <2>2. n \in Listed
    BY DEF Listed
  <2>3. Calculated.out[n] = [size |-> SizeOf(Under(row, n)), count |-> CountOf(Under(row, n))]
    BY <2>1, <2>2, CalculatedIs
  <2>4. PICK in : in = Under(row, n) \cap Undeleted(row)
    OBVIOUS
  <2>5. CountOf(Under(row, n))
             = row[n].count - Cardinality({m \in in \cap Of(row, {"FOLDER"}) : Empty(m)})
                            + Cardinality({m \in in \cap Of(row, {"COLLECTION"}) : ~Empty(m)})
    BY <2>1, <2>4, CountsCompare
  <2>6. QED BY <2>3, <2>4, <2>5
<1>2. QED BY <1>1, AlwaysSound, AlwaysRight, PTL

(* After it the sizes are right if it wrote those of all containers, or if  *)
(* those of the others were right before.                                   *)
LEMMA RecalculatedIsRight ==
    ASSUME GoodTable(row), PathsRight(row), Calculated.ok,
           Of(row, Containers) \subseteq Undeleted(row) \/ SizesRight(row)
    PROVE  SizesRight(Recalculated(Calculated.out))
<1>1. Calculated.ok = TRUE /\ Calculated.out \in Outs
  <2>1. Calculated.ok \in BOOLEAN
    BY CalculatedIs
  <2>2. QED BY <2>1, CalculatedTypes
<1>2. PICK out \in Outs : out = Calculated.out
  BY <1>1
<1>3. PICK u : u = Recalculated(out)
  OBVIOUS
<1>4. /\ GoodTable(u) /\ Ids(u) = Ids(row)
      /\ \A m \in Ids(row) : /\ u[m].type = row[m].type /\ u[m].path = row[m].path
                             /\ u[m].deleted = row[m].deleted
  BY <1>3, RecalculatedIs
<1>5. /\ Of(u, Containers) = Of(row, Containers) /\ Of(u, {"FILE"}) = Of(row, {"FILE"})
      /\ Undeleted(u) = Undeleted(row) /\ \A c \in Ids(row) : Under(u, c) = Under(row, c)
  <2>1. \A c \in Ids(row) : Under(u, c) = Under(row, c)
    BY <1>4, UnderSame
  <2>2. QED BY <1>4, <2>1 DEF Of, Undeleted
<1>6. DOMAIN out \subseteq Listed /\ DOMAIN row = Nodes /\ Ids(row) \subseteq Nodes
  <2>1. DOMAIN out \subseteq Listed
    BY DEF Outs
  <2>2. QED BY <2>1, IdsAreFinite
<1>7. \A m \in Ids(row) : m \in DOMAIN out => u[m].size = out[m].size
  <2>1. ASSUME NEW m \in Ids(row), m \in DOMAIN out PROVE u[m].size = out[m].size
    <3>1. u[m] = [row[m] EXCEPT !.size = out[m].size, !.count = out[m].count]
      BY <1>3, <1>6, <2>1 DEF Recalculated
    <3>2. row[m] \in Row
      BY RowIs DEF GoodTable
    <3>3. QED BY <3>1, <3>2 DEF Row, RowOf
  <2>2. QED BY <2>1
<1>8. \A m \in Ids(row) : m \notin DOMAIN out => u[m] = row[m]
  BY <1>3, <1>6 DEF Recalculated
<1>9. FileSizes(u) = FileSizes(row)
  <2>1. \A m \in Of(row, {"FILE"}) : u[m].size = row[m].size
    <3>1. \A m \in Of(row, {"FILE"}) : m \in Ids(row) /\ m \notin DOMAIN out
      BY <1>6 DEF Of, Listed, Containers
    <3>2. QED BY <1>8, <3>1
  <2>2. QED BY <1>5, <2>1 DEF FileSizes
<1>10. ASSUME NEW c \in Of(row, Containers) PROVE u[c].size = SumOf(FileSizes(row), Under(row, c))
  <2>1. c \in Ids(row)
    BY DEF Of
  <2>2. CASE c \in Undeleted(row)
    <3>1. c \in Listed
      BY <2>2 DEF Listed
    <3>2. c \in DOMAIN out /\ out[c] = [size |-> SizeOf(Under(row, c)),
                                        count |-> CountOf(Under(row, c))]
      BY <1>1, <1>2, <3>1, CalculatedIs
    <3>3. u[c].size = SizeOf(Under(row, c))
      BY <1>7, <2>1, <3>2
    <3>4. QED BY <3>3 DEF SizeOf
  <2>3. CASE c \notin Undeleted(row)
    <3>1. SizesRight(row)
      BY <2>3
    <3>2. c \notin DOMAIN out
      BY <1>6, <2>3 DEF Listed
    <3>3. u[c].size = row[c].size
      BY <1>8, <2>1, <3>2
    <3>4. row[c].size = SumOf(row, Under(row, c) \cap Undeleted(row) \cap Of(row, {"FILE"}))
      BY <3>1 DEF SizesRight
    <3>5. QED BY <3>3, <3>4, FilesWeigh
  <2>4. QED BY <2>2, <2>3
<1>11. Totals(u, FileSizes(u), Sized(u))
  <2>1. \A c \in Of(row, Containers) : c \in Ids(row) /\ Sized(u)[c] = u[c].size
    BY <1>6 DEF Sized, Of
  <2>2. \A c \in Of(row, Containers) : Under(u, c) = Under(row, c)
    BY <1>5, <2>1
  <2>3. QED BY <1>5, <1>9, <1>10, <2>1, <2>2 DEF Totals
<1>12. SizesRight(u)
  BY <1>4, <1>11, SizesAreTotals
<1>13. QED BY <1>2, <1>3, <1>12

LEMMA SizesStep == Sound /\ PathFollowsParent /\ SizesExact /\ [Next]_vars => SizesExact'
<1> SUFFICES ASSUME Sound, PathFollowsParent, SizesExact, [Next]_vars,
                    broken' \cap {"path", "sums"} = {}
             PROVE  SizesRight(row')
  BY DEF SizesExact
<1>1. GoodTable(row)
  BY DEF Sound
<1>2. PathsRight(row')
  <2>1. PathFollowsParent'
    BY PathsStep
  <2>2. QED BY <2>1 DEF PathFollowsParent
<1>3. CASE row' = row /\ broken' = broken
  BY <1>3 DEF SizesExact
<1>4. CASE Creates
  <2>1. PICK p \in Ids(row), size \in Nat, type \in Containers \cup {"FILE"} :
            /\ type # "FILE" => size = 0
            /\ ValidParent(row, type, p) /\ Nodes \ Ids(row) # {}
            /\ row' = Inserted(NewNode, type, p, size)
            /\ UNCHANGED <<held, broken, writes>>
    BY <1>4 DEF Creates
  <2>2. InsertedTo(NewNode, type, p, size, Inserted(NewNode, type, p, size))
    BY <1>1, <2>1, InsertedIs
  <2>3. InsertedTo(NewNode, type, p, size, row')
    BY <2>1, <2>2
  <2>4. PathsRight(row) /\ SizesRight(row)
    BY <2>1 DEF SizesExact, PathFollowsParent
  <2>5. SizesRight(row')
    BY <1>1, <2>1, <2>3, <2>4, InsertedIsRight
  <2>6. QED BY <2>5
<1>5. CASE Saves
  <2>0. PICK a \in Actors : \E new : Savable(held[a].id, new) /\ Save(a, new)
    BY <1>5 DEF Saves
  <2>1. PICK new : Savable(held[a].id, new) /\ Save(a, new)
    BY <2>0
  <2> DEFINE n == held[a].id
             u == Updated(n, new)
  <2>2. /\ row' = u /\ broken' = broken \cup Breaks(n, new) /\ Savable(n, new)
    BY <2>1 DEF Save
  <2>3. PathsRight(row) /\ SizesRight(row)
    BY <2>2 DEF SizesExact, PathFollowsParent
  <2>4. Breaks(n, new) = {}
    <3>1. "path" \notin Breaks(n, new) /\ "sums" \notin Breaks(n, new)
      BY <2>2
    <3> HIDE DEF n
    <3>2. QED BY <3>1 DEF Breaks
  <2> HIDE DEF n
  <2>5. u # row => SizesRight(u)
    BY <1>1, <2>2, <2>3, <2>4, SavedIsRight
  <2> HIDE DEF u
  <2>6. QED BY <2>2, <2>3, <2>5
<1>6. CASE Deletes
  <2>1. PICK a \in Users : Delete(a)
    BY <1>6 DEF Deletes
  <2> DEFINE ds == Doomed(held[a].was)
             u == Deleted(ds)
  <2>2. (row' = u \/ row' = row) /\ broken' = broken
    BY <2>1 DEF Delete
  <2>3. SizesRight(row)
    BY <2>2 DEF SizesExact
  <2>4. ds \in SUBSET Undeleted(row) /\ ds \in SUBSET Ids(row)
    BY DEF Doomed, Undeleted
  <2> HIDE DEF ds
  <2>5. u # row => DeletedTo(ds, u)
    BY <1>1, <2>4, DeletedIs
  <2> HIDE DEF u
  <2>6. u # row => SizesRight(u)
    BY <1>1, <2>3, <2>4, <2>5, DeletedIsRight
  <2>7. QED BY <2>2, <2>3, <2>6
<1>7. CASE Recalculates
  <2>1. /\ row' = Recalculated(Calculated.out) /\ "path" \notin broken
        /\ Calculated.ok
        /\ Of(row, Containers) \subseteq Undeleted(row) \/ "sums" \notin broken
    BY <1>7 DEF Recalculates
  <2>2. PathsRight(row) /\ (Of(row, Containers) \subseteq Undeleted(row) \/ SizesRight(row))
    BY <2>1 DEF SizesExact, PathFollowsParent
  <2>3. QED BY <1>1, <2>1, <2>2, RecalculatedIsRight
<1>8. Reads => row' = row /\ broken' = broken
  BY DEF Reads
<1>9. UNCHANGED vars => row' = row /\ broken' = broken
  BY DEF vars
<1>10. QED BY <1>3, <1>4, <1>5, <1>6, <1>7, <1>8, <1>9, StepIs

(* The size of a container is that of the files below it, whatever is       *)
(* created, moved, replaced, deleted, brought back by a late save or        *)
(* recalculated, in any number of nodes and requests, unless a container    *)
(* was saved by someone who read it before it changed, or a deleted file    *)
(* written again; and a recalculation that goes through, with nothing       *)
(* deleted, makes it right again.                                           *)
THEOREM SizesAreExact == Spec => []SizesExact
<1>1. Init => SizesExact
  BY TreeAssumption DEF Init, SizesExact
<1>2. QED BY <1>1, AlwaysSound, PathIsFollowed, SizesStep, PTL DEF Spec
=============================================================================
