-------------------------- MODULE FilesViewProofs --------------------------
(***************************************************************************)
(* Proofs about the file browser: what its components keep together, for   *)
(* every tree, page size and number of events, in every order of answers.  *)
(***************************************************************************)
EXTENDS FilesView, NaturalFacts, SequenceTheorems, TLAPS

-----------------------------------------------------------------------------
(* What is left of a sequence.                                              *)

(* The recursive function in Kept(s, keep), for the first n elements.       *)
IsKept(f, s, keep, n) ==
    f = [k \in 0..n |-> IF k = 0 THEN <<>>
                        ELSE IF k \in keep THEN Append(f[k - 1], s[k]) ELSE f[k - 1]]

(* That function is there, one element after the other.                     *)
LEMMA KeptExists ==
    ASSUME NEW s, NEW keep, NEW n \in Nat
    PROVE  \E f : IsKept(f, s, keep, n)
<1> DEFINE Bad == {k \in Nat : ~ \E f : IsKept(f, s, keep, k)}
<1>1. ASSUME Bad # {} PROVE FALSE
  <2>1. PICK k \in Bad : \A j \in Bad : k <= j
    BY <1>1, Least
  <2>2. k # 0
    <3> DEFINE f == [j \in 0..0 |-> <<>>]
    <3>1. IsKept(f, s, keep, 0)
      BY DEF IsKept
    <3>2. QED BY <3>1
  <2>3. PICK f : IsKept(f, s, keep, k - 1)
    <3>1. k - 1 \in Nat /\ ~ (k <= k - 1)
      BY <2>2
    <3>2. QED BY <2>1, <3>1
  <2> DEFINE last == IF k \in keep THEN Append(f[k - 1], s[k]) ELSE f[k - 1]
             g == [j \in 0..k |-> IF j = k THEN last ELSE f[j]]
  <2>4. ASSUME NEW j \in 0..k
        PROVE  g[j] = IF j = 0 THEN <<>>
                      ELSE IF j \in keep THEN Append(g[j - 1], s[j]) ELSE g[j - 1]
    <3>1. CASE j = k
      <4>1. k - 1 \in 0..k /\ k - 1 # k
        BY <2>2
      <4>2. g[k - 1] = f[k - 1] /\ g[k] = last
        BY <4>1
      <4> HIDE DEF g
      <4>3. QED BY <3>1, <2>2, <4>2
    <3>2. CASE j # k
      <4>1. j \in 0..(k - 1) /\ (j # 0 => j - 1 \in 0..k /\ j - 1 # k)
        BY <3>2
      <4>2. g[j] = f[j] /\ (j # 0 => g[j - 1] = f[j - 1])
        BY <3>2, <4>1
      <4> HIDE DEF g
      <4>3. f[j] = IF j = 0 THEN <<>>
                   ELSE IF j \in keep THEN Append(f[j - 1], s[j]) ELSE f[j - 1]
        BY <2>3, <4>1 DEF IsKept
      <4>4. QED BY <4>2, <4>3
    <3>3. QED BY <3>1, <3>2
  <2> HIDE DEF g
  <2>5. g = [j \in 0..k |-> IF j = 0 THEN <<>>
                            ELSE IF j \in keep THEN Append(g[j - 1], s[j]) ELSE g[j - 1]]
    BY <2>4 DEF g
  <2>6. QED BY <2>1, <2>5 DEF IsKept
<1>2. QED BY <1>1

(* What is kept of the first elements of s, one by one.                     *)
LEMMA KeptSteps ==
    ASSUME NEW s, Len(s) \in Nat, NEW keep
    PROVE  \E f : /\ f[0] = <<>>
                  /\ \A k \in 1..Len(s) :
                        f[k] = IF k \in keep THEN Append(f[k - 1], s[k]) ELSE f[k - 1]
                  /\ Kept(s, keep) = f[Len(s)]
<1>1. PICK f : f = CHOOSE e : IsKept(e, s, keep, Len(s))
  OBVIOUS
<1>2. IsKept(f, s, keep, Len(s))
  BY <1>1, KeptExists
<1>3. Kept(s, keep) = f[Len(s)]
  BY <1>1 DEF Kept, IsKept
<1>4. f[0] = <<>>
  <2>1. 0 \in 0..Len(s)
    OBVIOUS
  <2>2. QED BY <1>2, <2>1 DEF IsKept
<1>5. ASSUME NEW k \in 1..Len(s)
      PROVE  f[k] = IF k \in keep THEN Append(f[k - 1], s[k]) ELSE f[k - 1]
  <2>1. k \in 0..Len(s) /\ k # 0
    OBVIOUS
  <2>2. QED BY <1>2, <2>1 DEF IsKept
<1>6. QED BY <1>3, <1>4, <1>5

(* r is what the indexes in K leave of s, p says from where.                *)
KeptFrom(r, p, s, K) ==
    /\ p \in [1..Len(r) -> K]
    /\ \A j \in 1..Len(r) : r[j] = s[p[j]]
    /\ \A i, j \in 1..Len(r) : i < j => p[i] < p[j]
    /\ \A i \in K : \E j \in 1..Len(r) : p[j] = i

(* The elements that are kept stay in their order; if all are, that is s.   *)
LEMMA KeptIs ==
    ASSUME NEW T, NEW s \in Seq(T), NEW keep
    PROVE  /\ Kept(s, keep) \in Seq(T)
           /\ \E p : KeptFrom(Kept(s, keep), p, s, DOMAIN s \cap keep)
           /\ DOMAIN s \subseteq keep => Kept(s, keep) = s
<1>0. Len(s) \in Nat /\ DOMAIN s = 1..Len(s) /\ \A i \in 1..Len(s) : s[i] \in T
  OBVIOUS
<1>1. PICK f : /\ f[0] = <<>>
               /\ \A k \in 1..Len(s) :
                     f[k] = IF k \in keep THEN Append(f[k - 1], s[k]) ELSE f[k - 1]
               /\ Kept(s, keep) = f[Len(s)]
  <2>1. Len(s) \in Nat
    BY <1>0
  <2>2. QED BY <2>1, KeptSteps
<1> DEFINE Part(k) ==
        /\ f[k] \in Seq(T)
        /\ \E p : KeptFrom(f[k], p, s, (1..k) \cap keep)
        /\ 1..Len(s) \subseteq keep =>
              Len(f[k]) = k /\ \A j \in 1..k : f[k][j] = s[j]
<1>2. Part(0)
  <2> DEFINE p == [j \in 1..0 |-> 0]
  <2>1. 1..0 = {} /\ Len(f[0]) = 0 /\ f[0] \in Seq(T)
    BY <1>1
  <2>2. p \in [1..Len(f[0]) -> (1..0) \cap keep]
    BY <2>1
  <2>3. /\ \A j \in 1..Len(f[0]) : f[0][j] = s[p[j]]
        /\ \A i, j \in 1..Len(f[0]) : i < j => p[i] < p[j]
        /\ \A i \in (1..0) \cap keep : \E j \in 1..Len(f[0]) : p[j] = i
    BY <2>1
  <2> HIDE DEF p
  <2>4. KeptFrom(f[0], p, s, (1..0) \cap keep)
    BY <2>2, <2>3 DEF KeptFrom
  <2>5. \E e : KeptFrom(f[0], e, s, (1..0) \cap keep)
    BY <2>4
  <2>6. QED BY <2>1, <2>5
<1>3. ASSUME NEW k \in 1..Len(s), Part(k - 1) PROVE Part(k)
  <2>0. k \in Nat /\ k - 1 \in Nat /\ k # 0 /\ k <= Len(s) /\ s[k] \in T
    BY <1>0
  <2>1a. PICK q : KeptFrom(f[k - 1], q, s, (1..(k - 1)) \cap keep)
    BY <1>3
  <2>1. /\ q \in [1..Len(f[k - 1]) -> (1..(k - 1)) \cap keep]
        /\ \A j \in 1..Len(f[k - 1]) : f[k - 1][j] = s[q[j]]
        /\ \A i, j \in 1..Len(f[k - 1]) : i < j => q[i] < q[j]
        /\ \A i \in (1..(k - 1)) \cap keep : \E j \in 1..Len(f[k - 1]) : q[j] = i
    BY <2>1a DEF KeptFrom
  <2>2. f[k - 1] \in Seq(T)
    BY <1>3
  <2>3. CASE k \in keep
    <3>1. f[k] = Append(f[k - 1], s[k])
      BY <1>1, <2>3
    <3>2. PICK n \in Nat : n = Len(f[k - 1])
      BY <2>2
    <3>3. /\ f[k] \in Seq(T) /\ Len(f[k]) = n + 1 /\ f[k][n + 1] = s[k]
          /\ \A j \in 1..n : f[k][j] = f[k - 1][j]
      BY <2>0, <2>2, <3>1, <3>2
    <3> DEFINE p == [j \in 1..(n + 1) |-> IF j = n + 1 THEN k ELSE q[j]]
    <3>4. \A j \in 1..n : /\ p[j] = q[j] /\ q[j] \in (1..(k - 1)) \cap keep
                          /\ q[j] \in 1..k /\ q[j] < k
      <4>1. \A j \in 1..n : j \in 1..(n + 1) /\ j # n + 1
        BY <3>2
      <4>2. \A j \in 1..n : q[j] \in (1..(k - 1)) \cap keep
        BY <2>1, <3>2
      <4>3. \A x \in 1..(k - 1) : x \in 1..k /\ x < k
        BY <2>0
      <4>4. QED BY <4>1, <4>2, <4>3
    <3>5. p[n + 1] = k /\ k \in 1..k
      BY <2>0, <3>2
    <3>6. \A j \in 1..(n + 1) : j \in 1..n \/ j = n + 1
      BY <3>2
    <3>7. DOMAIN p = 1..(n + 1)
      OBVIOUS
    <3>7a. p = [j \in 1..(n + 1) |-> p[j]]
      OBVIOUS
    <3> HIDE DEF p
    <3>8. p \in [1..(n + 1) -> (1..k) \cap keep]
      <4>1. \A j \in 1..(n + 1) : p[j] \in (1..k) \cap keep
        BY <2>3, <3>4, <3>5, <3>6
      <4>2. QED BY <3>7a, <4>1
    <3>9. \A j \in 1..(n + 1) : f[k][j] = s[p[j]]
      BY <2>1, <3>2, <3>3, <3>4, <3>5, <3>6
    <3>10. \A i, j \in 1..(n + 1) : i < j => p[i] < p[j]
      <4>1. ASSUME NEW i \in 1..(n + 1), NEW j \in 1..(n + 1), i < j PROVE p[i] < p[j]
        <5>1. i \in 1..n
          BY <3>2, <4>1
        <5>2. CASE j = n + 1
          BY <3>4, <3>5, <5>1, <5>2
        <5>3. CASE j # n + 1
          <6>1. j \in 1..n
            BY <3>6, <5>3
          <6>2. q[i] < q[j]
            BY <2>1, <3>2, <4>1, <5>1, <6>1
          <6>3. QED BY <3>4, <5>1, <6>1, <6>2
        <5>4. QED BY <5>2, <5>3
      <4>2. QED BY <4>1
    <3>11. \A i \in (1..k) \cap keep : \E j \in 1..(n + 1) : p[j] = i
      <4>1. ASSUME NEW i \in (1..k) \cap keep PROVE \E j \in 1..(n + 1) : p[j] = i
        <5>1. CASE i = k
          <6>1. n + 1 \in 1..(n + 1)
            BY <3>2
          <6>2. QED BY <3>5, <5>1, <6>1
        <5>2. CASE i # k
          <6>1. i \in (1..(k - 1)) \cap keep
            BY <2>0, <5>2
          <6>2. PICK j \in 1..n : q[j] = i
            BY <2>1, <3>2, <6>1
          <6>3. j \in 1..(n + 1)
            BY <3>2
          <6>4. QED BY <3>4, <6>2, <6>3
        <5>3. QED BY <5>1, <5>2
      <4>2. QED BY <4>1
    <3>12. ASSUME 1..Len(s) \subseteq keep
           PROVE  Len(f[k]) = k /\ \A j \in 1..k : f[k][j] = s[j]
      <4>1. n = k - 1 /\ \A j \in 1..(k - 1) : f[k - 1][j] = s[j]
        BY <1>3, <3>2, <3>12
      <4>2. n + 1 = k
        BY <2>0, <4>1
      <4>3. \A j \in 1..k : j \in 1..n \/ j = n + 1
        BY <3>2, <4>2
      <4>4. QED BY <3>3, <4>1, <4>2, <4>3
    <3>13. Len(f[k]) = n + 1 /\ f[k] \in Seq(T)
      BY <3>3
    <3>14. KeptFrom(f[k], p, s, (1..k) \cap keep)
      BY <3>8, <3>9, <3>10, <3>11, <3>13 DEF KeptFrom
    <3>14a. \E e : KeptFrom(f[k], e, s, (1..k) \cap keep)
      BY <3>14
    <3>15. QED BY <3>12, <3>13, <3>14a
  <2>4. CASE k \notin keep
    <3>1. f[k] = f[k - 1]
      BY <1>1, <2>4
    <3>2. (1..k) \cap keep = (1..(k - 1)) \cap keep
      BY <2>0, <2>4
    <3>3. ~ (1..Len(s) \subseteq keep)
      BY <2>4
    <3>4. \E e : KeptFrom(f[k], e, s, (1..k) \cap keep)
      BY <2>1a, <3>1, <3>2
    <3>5. f[k] \in Seq(T)
      BY <2>2, <3>1
    <3>6. QED BY <3>3, <3>4, <3>5
  <2>5. QED BY <2>3, <2>4
<1> HIDE DEF Part
<1>4. \A k \in 0..Len(s) : Part(k)
  <2> DEFINE Bad == {k \in Nat : k <= Len(s) /\ ~ Part(k)}
  <2>1. ASSUME Bad # {} PROVE FALSE
    <3>1. PICK k \in Bad : \A j \in Bad : k <= j
      BY <2>1, Least
    <3>2. k # 0 /\ k \in Nat /\ k <= Len(s)
      BY <1>2, <3>1
    <3>3. k - 1 \in Nat /\ ~ (k <= k - 1) /\ k - 1 <= Len(s) /\ k \in 1..Len(s)
      BY <1>0, <3>2
    <3>4. Part(k - 1)
      BY <3>1, <3>3
    <3>5. QED BY <1>3, <3>1, <3>3, <3>4
  <2>2. QED BY <1>0, <2>1
<1>5. Part(Len(s)) /\ Kept(s, keep) = f[Len(s)]
  BY <1>0, <1>1, <1>4
<1>6. PICK r \in Seq(T) : r = Kept(s, keep)
  BY <1>5 DEF Part
<1>7. \E p : KeptFrom(r, p, s, DOMAIN s \cap keep)
  BY <1>0, <1>5, <1>6 DEF Part
<1>8. ASSUME DOMAIN s \subseteq keep PROVE r = s
  <2>1. Len(r) = Len(s) /\ \A j \in 1..Len(s) : r[j] = s[j]
    BY <1>0, <1>5, <1>6, <1>8 DEF Part
  <2>2. QED BY <2>1, SeqEqual
<1>9. QED BY <1>6, <1>7, <1>8

-----------------------------------------------------------------------------
(* Ids in their order.                                                      *)

(* The listing has an order, whatever the names are.                        *)
LEMMA PrecedesIs ==
    ASSUME ApiTypeOK
    PROVE  \A x, y, z \in Nodes :
              /\ ~ Precedes(x, x)
              /\ Precedes(x, y) /\ Precedes(y, z) => Precedes(x, z)
              /\ x = y \/ Precedes(x, y) \/ Precedes(y, x)
<1>1. /\ TypeRank["ORGANIZATION"] = 0 /\ TypeRank["FOLDER"] = 1
      /\ TypeRank["FILE"] = 2 /\ TypeRank["COLLECTION"] = 3
  BY DEF TypeRank
<1>2. \A x \in Nodes : /\ Kind[x] \in {"ORGANIZATION", "COLLECTION", "FOLDER", "FILE"}
                       /\ name[x] \in Nat /\ x \in Nat
  BY KindAssumption, NodesAssumption, NamesAssumption DEF ApiTypeOK
<1>3. \A x, y \in Nodes : /\ TypeRank[Kind[x]] \in Nat
                          /\ TypeRank[Kind[x]] = TypeRank[Kind[y]] => Kind[x] = Kind[y]
  BY <1>1, <1>2
<1>4. ASSUME NEW x \in Nodes, NEW y \in Nodes, NEW z \in Nodes
      PROVE  /\ ~ Precedes(x, x)
             /\ Precedes(x, y) /\ Precedes(y, z) => Precedes(x, z)
             /\ x = y \/ Precedes(x, y) \/ Precedes(y, x)
  <2> DEFINE r(n) == TypeRank[Kind[n]]
  <2>1. \A m, n \in Nodes : Precedes(m, n) <=>
           r(m) < r(n) \/ (Kind[m] = Kind[n] /\ (name[m] < name[n]
                                                \/ (name[m] = name[n] /\ m < n)))
    BY DEF Precedes
  <2>2. \A m, n \in Nodes : r(m) \in Nat /\ (r(m) = r(n) <=> Kind[m] = Kind[n])
    BY <1>3
  <2> HIDE DEF r
  <2>3. QED BY <1>2, <2>1, <2>2
<1>5. QED BY <1>4

(* Ordered(ids) has each of the ids once: the i-th is that which i - 1      *)
(* others come before.                                                      *)
LEMMA OrderedIs ==
    ASSUME ApiTypeOK, NEW ids \in SUBSET Nodes
    PROVE  /\ Cardinality(ids) \in Nat
           /\ Ordered(ids) \in [1..Cardinality(ids) -> ids]
           /\ Ordered(ids) \in Seq(ids)
           /\ Len(Ordered(ids)) = Cardinality(ids)
           /\ \A i \in 1..Cardinality(ids) :
                 Cardinality({m \in ids : Precedes(m, Ordered(ids)[i])}) = i - 1
           /\ \A n \in ids : \E i \in 1..Cardinality(ids) : Ordered(ids)[i] = n
<1> DEFINE R == {q \in ids \X ids : Precedes(q[1], q[2])}
           c == Cardinality(ids)
           s == Ordered(ids)
<1>0. IsFiniteSet(ids) /\ c \in Nat /\ ids \in SUBSET Nat
  BY NodesAssumption, FS_Subset, FS_CardinalityType
<1>1. \A x, y \in ids : <<x, y>> \in R <=> Precedes(x, y)
  OBVIOUS
<1> HIDE DEF R
<1>3. /\ \A x \in ids : <<x, x>> \notin R
      /\ \A x, y, z \in ids : <<x, y>> \in R /\ <<y, z>> \in R => <<x, z>> \in R
      /\ \A x, y \in ids : x = y \/ <<x, y>> \in R \/ <<y, x>> \in R
  BY <1>1, PrecedesIs, Zenon
<1>4. \A n \in ids : Cardinality({m \in ids : Precedes(m, n)}) = Ahead(n, ids, R)
  <2>1. ASSUME NEW n \in ids
        PROVE  {m \in ids : Precedes(m, n)} = {m \in ids : <<m, n>> \in R}
    BY <1>1
  <2>2. QED BY <2>1 DEF Ahead
<1>5. /\ \A x, y \in ids : Ahead(x, ids, R) = Ahead(y, ids, R) => x = y
      /\ \A x \in ids : Ahead(x, ids, R) \in 0..(c - 1)
      /\ \A k \in 0..(c - 1) : \E x \in ids : Ahead(x, ids, R) = k
  BY <1>0, <1>3, Places
<1>6. ASSUME NEW i \in 1..c
      PROVE  s[i] \in ids /\ Ahead(s[i], ids, R) = i - 1
  <2>1. i - 1 \in 0..(c - 1)
    BY <1>0
  <2>2. PICK x \in ids : Ahead(x, ids, R) = i - 1
    BY <1>5, <2>1
  <2>3. PICK y : y = CHOOSE n \in ids : Cardinality({m \in ids : Precedes(m, n)}) = i - 1
    OBVIOUS
  <2>4. y \in ids /\ Cardinality({m \in ids : Precedes(m, y)}) = i - 1
    BY <1>4, <2>2, <2>3
  <2>5. s[i] = y
    BY <2>3 DEF Ordered
  <2>6. QED BY <1>4, <2>4, <2>5
<1>7. s = [i \in 1..c |-> s[i]]
  <2> DEFINE e(i) == CHOOSE n \in ids : Cardinality({m \in ids : Precedes(m, n)}) = i - 1
  <2>1. s = [i \in 1..c |-> e(i)]
    BY DEF Ordered
  <2> HIDE DEF e, s
  <2>2. QED BY <2>1
<1> HIDE DEF s
<1>8. s \in [1..c -> ids] /\ s \in Seq(ids) /\ Len(s) = c
  <2>1. s \in [1..c -> ids]
    BY <1>6, <1>7
  <2>2. QED BY <1>0, <2>1
<1>9. \A i \in 1..c : Cardinality({m \in ids : Precedes(m, s[i])}) = i - 1
  BY <1>4, <1>6
<1>10. \A n \in ids : \E i \in 1..c : s[i] = n
  <2>1. ASSUME NEW n \in ids PROVE \E i \in 1..c : s[i] = n
    <3>1. PICK a \in 0..(c - 1) : a = Ahead(n, ids, R)
      BY <1>5
    <3>2. a + 1 \in 1..c /\ (a + 1) - 1 = a
      BY <1>0
    <3>3. s[a + 1] = n
      BY <1>5, <1>6, <3>1, <3>2
    <3>4. QED BY <3>2, <3>3
  <2>2. QED BY <2>1
<1>11. QED BY <1>0, <1>8, <1>9, <1>10 DEF s

-----------------------------------------------------------------------------
(* Pages of a listing.                                                      *)

(* A page of the children of d: those after the first `from' of them.       *)
LEMMA PageIs ==
    ASSUME ApiTypeOK, NEW d \in Nodes, NEW from \in Nat
    PROVE  LET ids == Ordered(Children(d))
               pg  == Page(d, from)
           IN  /\ pg.results \in Seq(Object)
               /\ \A j \in DOMAIN pg.results :
                     /\ from + j \in 1..Len(ids)
                     /\ pg.results[j] = [id |-> ids[from + j], name |-> name[ids[from + j]]]
               /\ pg.next.of = d
               /\ \/ /\ pg.next = [of |-> d, from |-> 0]
                     /\ \A i \in 1..Len(ids) : i > from => i - from \in DOMAIN pg.results
                  \/ /\ pg.next = [of |-> d, from |-> from + PageSize]
                     /\ Len(pg.results) = PageSize
<1> DEFINE ids == Ordered(Children(d))
           n == Len(ids)
           all == [i \in DOMAIN ids |-> [id |-> ids[i], name |-> name[ids[i]]]]
           last == Min({from + PageSize, n})
           pg == Page(d, from)
<1>0. PageSize \in Nat /\ PageSize > 0 /\ Children(d) \in SUBSET Nodes
  BY PageAssumption DEF Children
<1>1. n \in Nat /\ DOMAIN ids = 1..n /\ \A i \in 1..n : ids[i] \in Children(d) /\ ids[i] \in Nodes
  BY <1>0, OrderedIs
<1>2. Children(d) = {m \in Nodes \ {Org} : Exists(m) /\ parent[m] = d}
  BY DEF Children
<1>3. pg.results = SubSeq(all, from + 1, Min({from + PageSize, Len(all)}))
  BY <1>2 DEF Page
<1>3a. pg.next = [of |-> d, from |-> IF from + PageSize < Len(all) THEN from + PageSize ELSE 0]
  BY <1>2 DEF Page
<1> HIDE DEF ids
<1>4. /\ all \in Seq(Object) /\ Len(all) = n
      /\ \A i \in 1..n : all[i] = [id |-> ids[i], name |-> name[ids[i]]]
  <2>1. \A i \in 1..n : [id |-> ids[i], name |-> name[ids[i]]] \in Object
    BY <1>1 DEF ApiTypeOK, Object
  <2>2. all = [i \in 1..n |-> [id |-> ids[i], name |-> name[ids[i]]]]
    BY <1>1
  <2>3. QED BY <1>1, <2>1, <2>2
<1> HIDE DEF all, n
<1>5. /\ last \in Nat /\ last <= n /\ last <= from + PageSize
      /\ last = n \/ last = from + PageSize
  <2>1. {from + PageSize, n} \in SUBSET Nat
    BY <1>0, <1>1
  <2>2. last \in {from + PageSize, n} /\ \A x \in {from + PageSize, n} : last <= x
    BY <2>1, MinIs
  <2>3. QED BY <2>1, <2>2
<1> HIDE DEF last
<1>6. pg.results = SubSeq(all, from + 1, last)
  BY <1>3, <1>4 DEF last
<1> HIDE DEF pg
<1>7. /\ pg.results \in Seq(Object)
      /\ Len(pg.results) = IF from + 1 <= last THEN last - from ELSE 0
      /\ DOMAIN pg.results = 1..Len(pg.results)
      /\ \A j \in 1..Len(pg.results) : pg.results[j] = all[from + j]
  <2>1. from + 1 \in 1..(Len(all) + 1) \/ from + 1 > last
    BY <1>1, <1>4, <1>5
  <2>2. CASE from + 1 <= last
    <3>1. SubSeq(all, from + 1, last) \in Seq(Object)
      BY <1>4, <1>5, <1>1, <2>2
    <3>2. Len(SubSeq(all, from + 1, last)) = last - from
      BY <1>4, <1>5, <1>1, <2>2
    <3>3. \A j \in 1..(last - from) : SubSeq(all, from + 1, last)[j] = all[from + j]
      BY <1>4, <1>5, <1>1, <2>2
    <3>4. QED BY <1>5, <1>6, <2>2, <3>1, <3>2, <3>3
  <2>3. CASE from + 1 > last
    <3>1. SubSeq(all, from + 1, last) = <<>>
      BY <1>4, <1>5, <1>1, <2>3
    <3>2. QED BY <1>5, <1>6, <2>3, <3>1
  <2>4. QED BY <1>5, <2>2, <2>3
<1>8. ASSUME NEW j \in DOMAIN pg.results
      PROVE  /\ from + j \in 1..n
             /\ pg.results[j] = [id |-> ids[from + j], name |-> name[ids[from + j]]]
  <2>1. from + 1 <= last /\ j \in Nat /\ 1 <= j /\ j <= last - from
    BY <1>5, <1>7
  <2>2. from + j \in 1..n
    BY <1>1, <1>5, <2>1
  <2>3. QED BY <1>4, <1>7, <2>2
<1>9. CASE from + PageSize < n
  <2>1. last = from + PageSize
    BY <1>0, <1>1, <1>5, <1>9
  <2>2. Len(pg.results) = PageSize
    BY <1>0, <1>7, <2>1
  <2>3. pg.next = [of |-> d, from |-> from + PageSize]
    BY <1>3a, <1>4, <1>9 DEF pg
  <2>4. pg.next.of = d
    BY <2>3
  <2>5. QED BY <1>7, <1>8, <2>2, <2>3, <2>4 DEF pg, ids, n
<1>10. CASE ~ (from + PageSize < n)
  <2>1. last = n
    BY <1>0, <1>1, <1>5, <1>10
  <2>2. \A i \in 1..n : i > from => i - from \in DOMAIN pg.results
    BY <1>1, <1>7, <2>1
  <2>3. pg.next = [of |-> d, from |-> 0]
    BY <1>3a, <1>4, <1>10 DEF pg
  <2>4. pg.next.of = d
    BY <2>3
  <2>5. QED BY <1>7, <1>8, <2>2, <2>3, <2>4 DEF pg, ids, n
<1>11. QED BY <1>9, <1>10

-----------------------------------------------------------------------------
(* Paths in a tree.                                                         *)

(* f has the path of each node of the tree par; the function behind PathOf. *)
PathsIn(f, par) ==
    f = [n \in Nodes |-> IF n = Org \/ par[n] = None THEN <<>> ELSE Append(f[par[n]], n)]

PathsOn(f, par, T) ==
    /\ \A n \in T : n = Org \/ par[n] = None \/ par[n] \in T
    /\ \A n \in T : f[n] = IF n = Org \/ par[n] = None THEN <<>> ELSE Append(f[par[n]], n)

(* There is one, as there are no cycles: where it is defined for all but    *)
(* some nodes, one of them has a parent for which it is.                    *)
LEMMA PathsExist ==
    ASSUME NEW par \in [Nodes -> Nodes \cup {None}], IsTree(par)
    PROVE  \E f : PathsIn(f, par)
<1> DEFINE Left == {k \in Nat : \E T \in SUBSET Nodes : /\ k = Cardinality(Nodes \ T)
                                                        /\ \E f : PathsOn(f, par, T)}
<1>1. \A T \in SUBSET Nodes : IsFiniteSet(Nodes \ T) /\ Cardinality(Nodes \ T) \in Nat
  <2>1. \A T \in SUBSET Nodes : Nodes \ T \in SUBSET Nodes
    OBVIOUS
  <2>2. QED BY <2>1, NodesAssumption, FS_Subset, FS_CardinalityType
<1>2. Left # {}
  <2> DEFINE f == [n \in {} |-> <<>>]
  <2>1. PathsOn(f, par, {})
    BY DEF PathsOn
  <2>2. {} \in SUBSET Nodes /\ Cardinality(Nodes \ {}) \in Nat
    BY <1>1
  <2>3. QED BY <2>1, <2>2
<1>3. PICK k \in Left : \A j \in Left : k <= j
  BY <1>2, Least
<1>4. PICK T \in SUBSET Nodes : k = Cardinality(Nodes \ T) /\ \E f : PathsOn(f, par, T)
  BY <1>3
<1>5. PICK f : PathsOn(f, par, T)
  BY <1>4
<1>6. ASSUME NEW n \in Nodes \ T, n = Org \/ par[n] = None \/ par[n] \in T PROVE FALSE
  <2> DEFINE U == T \cup {n}
             last == IF n = Org \/ par[n] = None THEN <<>> ELSE Append(f[par[n]], n)
             g == [m \in U |-> IF m = n THEN last ELSE f[m]]
  <2>1. \A m \in T : g[m] = f[m] /\ m # n
    OBVIOUS
  <2>2. g[n] = last
    OBVIOUS
  <2> HIDE DEF g
  <2>3. ASSUME NEW m \in U
        PROVE  g[m] = IF m = Org \/ par[m] = None THEN <<>> ELSE Append(g[par[m]], m)
    <3>1. CASE m = n
      BY <1>6, <2>1, <2>2, <3>1
    <3>2. CASE m # n
      <4>1. m \in T
        BY <3>2
      <4>2. f[m] = IF m = Org \/ par[m] = None THEN <<>> ELSE Append(f[par[m]], m)
        BY <1>5, <4>1 DEF PathsOn
      <4>3. m = Org \/ par[m] = None \/ par[m] \in T
        BY <1>5, <4>1 DEF PathsOn
      <4>4. QED BY <2>1, <4>1, <4>2, <4>3
    <3>3. QED BY <3>1, <3>2
  <2>4. \A m \in U : m = Org \/ par[m] = None \/ par[m] \in U
    BY <1>5, <1>6 DEF PathsOn
  <2>5. PathsOn(g, par, U)
    BY <2>3, <2>4 DEF PathsOn
  <2>6. Nodes \ U = (Nodes \ T) \ {n} /\ U \in SUBSET Nodes
    OBVIOUS
  <2>7. Cardinality(Nodes \ U) = k - 1 /\ k # 0 /\ k \in Nat
    <3>1. IsFiniteSet(Nodes \ T) /\ n \in Nodes \ T /\ Nodes \ T # {}
      BY <1>1
    <3>2. Cardinality((Nodes \ T) \ {n}) = Cardinality(Nodes \ T) - 1
      BY <3>1, FS_RemoveElement
    <3>3. Cardinality(Nodes \ T) # 0
      BY <3>1, FS_EmptySet
    <3>4. QED BY <1>1, <1>4, <2>6, <3>2, <3>3
  <2>8. Cardinality(Nodes \ U) \in Left
    BY <1>1, <2>5, <2>6
  <2>9. k <= k - 1
    BY <1>3, <2>7, <2>8
  <2>10. QED BY <2>7, <2>9
<1>7. T = Nodes
  <2>1. ASSUME Nodes \ T # {} PROVE FALSE
    <3>1. Nodes \ (T \cup {Org}) # {}
      BY <1>6, <2>1
    <3>2. Nodes \ (T \cup {Org}) \in SUBSET (Nodes \ {Org})
      OBVIOUS
    <3>3. PICK n \in Nodes \ (T \cup {Org}) : par[n] \notin Nodes \ (T \cup {Org})
      BY <3>1, <3>2 DEF IsTree
    <3>4. Org \in T
      BY <1>6, NodesAssumption
    <3>5. par[n] = None \/ par[n] \in T
      BY <3>3, <3>4
    <3>6. QED BY <1>6, <3>3, <3>5
  <2>2. QED BY <2>1
<1> DEFINE g == [n \in Nodes |-> f[n]]
<1>8. g = [n \in Nodes |-> IF n = Org \/ par[n] = None THEN <<>> ELSE Append(g[par[n]], n)]
  <2>1. \A n \in Nodes : g[n] = f[n] /\ (n = Org \/ par[n] = None \/ par[n] \in Nodes)
    BY <1>5, <1>7 DEF PathsOn
  <2>2. \A n \in Nodes : f[n] = IF n = Org \/ par[n] = None THEN <<>> ELSE Append(f[par[n]], n)
    BY <1>5, <1>7 DEF PathsOn
  <2>3. \A n \in Nodes : g[n] = IF n = Org \/ par[n] = None THEN <<>> ELSE Append(g[par[n]], n)
    BY <2>1, <2>2
  <2>4. QED BY <2>3
<1>9. QED BY <1>8 DEF PathsIn

(* PathOf is that function.                                                 *)
LEMMA PathOfIs ==
    ASSUME parent \in [Nodes -> Nodes \cup {None}], IsTree(parent)
    PROVE  PathsIn(PathOf, parent)
<1>1. PICK f : f = CHOOSE e : PathsIn(e, parent)
  OBVIOUS
<1>2. PathsIn(f, parent)
  BY <1>1, PathsExist
<1>3. PathOf = f
  BY <1>1 DEF PathOf, PathsIn
<1>4. QED BY <1>2, <1>3

(* A path is one of nodes; it has what that of the parent has, and the node *)
(* itself.                                                                  *)
LEMMA PathsAre ==
    ASSUME NEW par \in [Nodes -> Nodes \cup {None}], IsTree(par), NEW f, PathsIn(f, par)
    PROVE  /\ \A n \in Nodes : f[n] \in Seq(Nodes \ {Org})
           /\ \A n \in Nodes \ {Org} : par[n] # None =>
                 par[n] \in Nodes /\ Range(f[n]) = Range(f[par[n]]) \cup {n}
<1>0. \A n \in Nodes : f[n] = IF n = Org \/ par[n] = None THEN <<>> ELSE Append(f[par[n]], n)
  BY DEF PathsIn
<1> DEFINE Bad == {n \in Nodes \ {Org} : f[n] \notin Seq(Nodes \ {Org})}
<1>1. ASSUME Bad # {} PROVE FALSE
  <2>1. Bad \in SUBSET (Nodes \ {Org})
    OBVIOUS
  <2>2. PICK n \in Bad : par[n] \notin Bad
    BY <1>1, <2>1 DEF IsTree
  <2>3. n \in Nodes \ {Org} /\ f[n] \notin Seq(Nodes \ {Org})
    BY <2>2
  <2>4. par[n] # None
    <3>1. <<>> \in Seq(Nodes \ {Org})
      OBVIOUS
    <3>2. QED BY <1>0, <2>3, <3>1
  <2>5. par[n] \in Nodes /\ f[n] = Append(f[par[n]], n)
    BY <1>0, <2>3, <2>4
  <2>6. f[par[n]] \in Seq(Nodes \ {Org})
    <3>1. CASE par[n] = Org
      <4>1. f[par[n]] = <<>>
        BY <1>0, <2>5, <3>1
      <4>2. QED BY <4>1
    <3>2. CASE par[n] # Org
      BY <2>2, <2>5, <3>2
    <3>3. QED BY <3>1, <3>2
  <2>7. Append(f[par[n]], n) \in Seq(Nodes \ {Org})
    BY <2>3, <2>6
  <2>8. QED BY <2>3, <2>5, <2>7
<1>2. \A n \in Nodes : f[n] \in Seq(Nodes \ {Org})
  <2>1. f[Org] = <<>>
    BY <1>0, NodesAssumption
  <2>2. f[Org] \in Seq(Nodes \ {Org})
    BY <2>1
  <2>3. QED BY <1>1, <2>2
<1>3. ASSUME NEW n \in Nodes \ {Org}, par[n] # None
      PROVE  par[n] \in Nodes /\ Range(f[n]) = Range(f[par[n]]) \cup {n}
  <2>1. par[n] \in Nodes /\ f[n] = Append(f[par[n]], n)
    BY <1>0, <1>3
  <2>2. PICK s \in Seq(Nodes \ {Org}) : s = f[par[n]]
    BY <1>2, <2>1
  <2>3. Range(Append(s, n)) = Range(s) \cup {n}
    BY AppendProperties DEF Range
  <2>4. QED BY <2>1, <2>2, <2>3
<1>4. QED BY <1>2, <1>3

(* A new node has no children, so it makes no cycle.                        *)
LEMMA CreateKeepsTree ==
    ASSUME parent \in [Nodes -> Nodes \cup {None}], IsTree(parent),
           NEW n \in Nodes, parent[n] = None, NEW d \in Nodes, parent[d] # None
    PROVE  IsTree([parent EXCEPT ![n] = d])
<1> DEFINE p == [parent EXCEPT ![n] = d]
<1>1. p[n] = d /\ d # None /\ \A m \in Nodes : m # n => p[m] = parent[m]
  BY NodesAssumption
<1>2. n # Org /\ d # n /\ \A m \in Nodes : parent[m] # n
  BY NodesAssumption DEF IsTree
<1> HIDE DEF p
<1>3. p[Org] # None
  BY <1>1, <1>2, NodesAssumption DEF IsTree
<1>4. ASSUME NEW m \in Nodes, p[m] # None PROVE p[p[m]] # None
  <2>1. CASE m = n
    BY <1>1, <1>2, <2>1
  <2>2. CASE m # n
    <3>1. parent[m] \in Nodes /\ parent[parent[m]] # None /\ p[m] = parent[m]
      BY <1>1, <1>4, <2>2 DEF IsTree
    <3>2. QED BY <1>1, <1>2, <3>1
  <2>3. QED BY <2>1, <2>2
<1>5. ASSUME NEW S \in SUBSET (Nodes \ {Org}), S # {} PROVE \E m \in S : p[m] \notin S
  <2>1. CASE S \ {n} = {}
    <3>1. S = {n}
      BY <1>5, <2>1
    <3>2. QED BY <1>1, <1>2, <3>1
  <2>2. CASE S \ {n} # {}
    <3>1. S \ {n} \in SUBSET (Nodes \ {Org})
      OBVIOUS
    <3>2. PICK m \in S \ {n} : parent[m] \notin S \ {n}
      BY <2>2, <3>1 DEF IsTree
    <3>3. p[m] = parent[m] /\ parent[m] # n
      BY <1>1, <1>2, <3>2
    <3>4. QED BY <3>2, <3>3
  <2>3. QED BY <2>1, <2>2
<1>6. QED BY <1>3, <1>4, <1>5 DEF IsTree, p

(* Nor does a move to a node that is not below what is moved.               *)
LEMMA MoveKeepsTree ==
    ASSUME parent \in [Nodes -> Nodes \cup {None}], IsTree(parent),
           NEW ns \in SUBSET (Nodes \ {Org}), NEW d \in Nodes, parent[d] # None,
           \A n \in ns : parent[n] # None /\ d \notin Below(n)
    PROVE  IsTree([n \in Nodes |-> IF n \in ns THEN d ELSE parent[n]])
<1> DEFINE p == [n \in Nodes |-> IF n \in ns THEN d ELSE parent[n]]
           B == UNION {Below(n) : n \in ns}
<1>0. \A n \in Nodes : p[n] = IF n \in ns THEN d ELSE parent[n]
  OBVIOUS
<1>1. /\ \A n \in Nodes \ {Org} : parent[n] # None =>
            parent[n] \in Nodes /\ Range(PathOf[n]) = Range(PathOf[parent[n]]) \cup {n}
  BY PathOfIs, PathsAre
<1>2. ns \subseteq B /\ d \notin B
  BY <1>1 DEF Below
<1>3. ASSUME NEW n \in Nodes \ {Org}, parent[n] # None, n \notin B PROVE parent[n] \notin B
  BY <1>1, <1>3 DEF Below
<1> HIDE DEF p, B
<1>4. p[Org] # None
  BY <1>0, NodesAssumption DEF IsTree
<1>5. ASSUME NEW m \in Nodes, p[m] # None PROVE p[p[m]] # None
  <2>0. d # None /\ \A x \in Nodes : parent[x] # None => p[x] # None
    BY <1>0, NodesAssumption
  <2>1. CASE m \in ns
    BY <1>0, <2>0, <2>1
  <2>2. CASE m \notin ns
    <3>1. p[m] = parent[m] /\ parent[m] \in Nodes /\ parent[parent[m]] # None
      BY <1>0, <1>5, <2>2 DEF IsTree
    <3>2. QED BY <2>0, <3>1
  <2>3. QED BY <2>1, <2>2
<1>6. ASSUME NEW S \in SUBSET (Nodes \ {Org}), S # {} PROVE \E m \in S : p[m] \notin S
  <2>1. CASE S \ B # {}
    <3>1. S \ B \in SUBSET (Nodes \ {Org})
      OBVIOUS
    <3>2. PICK m \in S \ B : parent[m] \notin S \ B
      BY <2>1, <3>1 DEF IsTree
    <3>3. m \in Nodes \ {Org} /\ m \notin B /\ m \notin ns /\ p[m] = parent[m]
      BY <1>0, <1>2, <3>2
    <3>4. parent[m] = None \/ parent[m] \notin B
      BY <1>3, <3>3
    <3>5. None \notin S
      BY NodesAssumption
    <3>6. QED BY <3>2, <3>3, <3>4, <3>5
  <2>2. CASE S \ B = {}
    <3>1. PICK m \in S : parent[m] \notin S
      BY <1>6 DEF IsTree
    <3>2. d \notin S
      BY <1>2, <2>2
    <3>3. QED BY <1>0, <3>1, <3>2
  <2>3. QED BY <2>1, <2>2
<1>7. QED BY <1>4, <1>5, <1>6 DEF IsTree, p

-----------------------------------------------------------------------------
(* The way the navigator grows, and requests that are left.                 *)

Skip(i, j) == IF j < i THEN j ELSE j + 1

(* The requests that are left when the i-th has been answered.              *)
LEMMA AnsweredIs ==
    ASSUME calls \in Seq(Call), NEW i \in DOMAIN calls
    PROVE  /\ Answered(i) \in Seq(Call)
           /\ \A j \in DOMAIN Answered(i) :
                 /\ Skip(i, j) \in DOMAIN calls \ {i}
                 /\ Answered(i)[j] = calls[Skip(i, j)]
           /\ \A j, k \in DOMAIN Answered(i) : Skip(i, j) = Skip(i, k) => j = k
           /\ \A k \in DOMAIN calls \ {i} : \E j \in DOMAIN Answered(i) : Skip(i, j) = k
<1> DEFINE a == SubSeq(calls, 1, i - 1)
           b == SubSeq(calls, i + 1, Len(calls))
           s == Answered(i)
<1>0. /\ Len(calls) \in Nat /\ DOMAIN calls = 1..Len(calls)
      /\ i \in Nat /\ 1 <= i /\ i <= Len(calls)
  OBVIOUS
<1>1. PICK n \in Nat : n = Len(calls)
  BY <1>0
<1>2. a \in Seq(Call) /\ Len(a) = i - 1 /\ \A j \in 1..(i - 1) : a[j] = calls[j]
  BY <1>0
<1>3. b \in Seq(Call) /\ Len(b) = n - i /\ \A j \in 1..(n - i) : b[j] = calls[i + j]
  BY <1>0, <1>1
<1>4. s = a \o b
  BY DEF Answered, RemoveAt
<1> HIDE DEF a, b, s
<1>5. /\ s \in Seq(Call) /\ Len(s) = n - 1 /\ DOMAIN s = 1..(n - 1)
      /\ \A j \in 1..(n - 1) : s[j] = IF j < i THEN a[j] ELSE b[j - (i - 1)]
  <2>1. PICK p \in Nat : p = i - 1
    BY <1>0
  <2>2. PICK q \in Nat : q = n - i
    BY <1>0, <1>1
  <2>2a. Len(a) = p /\ Len(b) = q /\ a \in Seq(Call) /\ b \in Seq(Call)
    BY <1>2, <1>3, <2>1, <2>2
  <2>2b. /\ a \o b \in Seq(Call) /\ Len(a \o b) = Len(a) + Len(b)
         /\ \A j \in 1..(Len(a) + Len(b)) :
               (a \o b)[j] = IF j <= Len(a) THEN a[j] ELSE b[j - Len(a)]
    BY <2>2a, ConcatProperties
  <2>3. /\ s \in Seq(Call) /\ Len(s) = p + q
        /\ \A j \in 1..(p + q) : s[j] = IF j <= p THEN a[j] ELSE b[j - p]
    BY <1>4, <2>2a, <2>2b
  <2>4. p + q = n - 1
    BY <1>0, <1>1, <2>1, <2>2
  <2>5. \A j \in 1..(n - 1) : j <= p <=> j < i
    BY <1>0, <1>1, <2>1
  <2>6. DOMAIN s = 1..(n - 1)
    BY <2>3, <2>4
  <2>7. QED BY <2>1, <2>3, <2>4, <2>5, <2>6
<1>6. ASSUME NEW j \in 1..(n - 1)
      PROVE  Skip(i, j) \in DOMAIN calls \ {i} /\ s[j] = calls[Skip(i, j)]
  <2>1. CASE j < i
    <3>1. j \in 1..(i - 1) /\ j \in 1..n /\ j # i
      BY <1>0, <1>1, <2>1
    <3>2. QED BY <1>0, <1>1, <1>2, <1>5, <2>1, <3>1 DEF Skip
  <2>2. CASE ~ (j < i)
    <3>1. /\ j - (i - 1) \in 1..(n - i) /\ i + (j - (i - 1)) = j + 1
          /\ j + 1 \in 1..n /\ j + 1 # i
      BY <1>0, <1>1, <2>2
    <3>2. QED BY <1>0, <1>1, <1>3, <1>5, <2>2, <3>1 DEF Skip
  <2>3. QED BY <2>1, <2>2
<1>7. \A j, k \in 1..(n - 1) : Skip(i, j) = Skip(i, k) => j = k
  BY <1>0, <1>1 DEF Skip
<1>8. ASSUME NEW k \in 1..n, k # i PROVE \E j \in 1..(n - 1) : Skip(i, j) = k
  <2>1. CASE k < i
    <3>1. k \in 1..(n - 1) /\ Skip(i, k) = k
      BY <1>0, <1>1, <2>1 DEF Skip
    <3>2. QED BY <3>1
  <2>2. CASE ~ (k < i)
    <3>1. k - 1 \in 1..(n - 1) /\ Skip(i, k - 1) = k
      BY <1>0, <1>1, <1>8, <2>2 DEF Skip
    <3>2. QED BY <3>1
  <2>3. QED BY <2>1, <2>2
<1>9. QED BY <1>0, <1>1, <1>5, <1>6, <1>7, <1>8 DEF s

IsGrowing(e, n, objects, z) ==
    e = [S \in SUBSET DOMAIN z |->
            IF S = {} THEN tree ELSE Grown(e[S \ {Max(S)}], z[Max(S)], n, objects)]

(* The navigator with the way z, as TreeShowing makes it.                   *)
WayGrown(n, objects, z) == FoldLeft(LAMBDA t, d : Grown(t, d, n, objects), tree, z)

(* What the growth below one node keeps, the way down to n keeps.           *)
LEMMA GrowingKeeps ==
    ASSUME NEW X, tree \in X, NEW n, NEW objects, NEW z, NEW l \in Nat, DOMAIN z = 1..l,
           \A t \in X, i \in 1..l : Grown(t, z[i], n, objects) \in X
    PROVE  WayGrown(n, objects, z) \in X
<1> DEFINE D == DOMAIN z
           c == [S \in SUBSET D |-> Max(S)]
           G == [x \in X \X D |-> Grown(x[1], z[x[2]], n, objects)]
<1>2. IsFiniteSet(D)
  BY FS_Interval
<1>3. \A S \in SUBSET D : c[S] = Max(S)
  OBVIOUS
<1>3a. \A S \in SUBSET D : S # {} => c[S] \in S
  BY <1>3, MaxIsIn
<1>4. G \in [X \X D -> X]
  OBVIOUS
<1>5. \A x \in X, i \in D : G[<<x, i>>] = Grown(x, z[i], n, objects)
  OBVIOUS
<1>5a. \A x \in X, i \in D : Grown(x, z[i], n, objects) \in X
  OBVIOUS
<1> HIDE DEF D, c, G
<1>6. PICK h \in [SUBSET D -> X] : IsFold(h, G, tree, c, D)
  BY <1>2, <1>3a, <1>4, FoldExists
<1>7. ASSUME NEW S \in SUBSET D
      PROVE  h[S] = IF S = {} THEN tree ELSE Grown(h[S \ {Max(S)}], z[Max(S)], n, objects)
  <2>1. CASE S = {}
    BY <1>6, <2>1 DEF IsFold
  <2>2. CASE S # {}
    <3>1. c[S] \in D /\ h[S \ {c[S]}] \in X
      BY <1>3a, <1>6, <2>2
    <3>2. h[S] = G[<<h[S \ {c[S]}], c[S]>>]
      BY <1>6, <2>2 DEF IsFold
    <3>3. h[S] = Grown(h[S \ {c[S]}], z[c[S]], n, objects)
      BY <1>5, <3>1, <3>2
    <3>4. QED BY <1>3, <2>2, <3>3
  <2>3. QED BY <2>1, <2>2
<1>8. IsGrowing(h, n, objects, z)
  BY <1>6, <1>7 DEF IsGrowing, D
<1>9. PICK e : e = CHOOSE f : IsGrowing(f, n, objects, z)
  OBVIOUS
<1>10. IsGrowing(e, n, objects, z)
  BY <1>8, <1>9
<1>11. WayGrown(n, objects, z) = e[D]
  BY <1>9 DEF WayGrown, FoldLeft, MapThenFoldSet, IsGrowing, D
<1>12. \A S \in SUBSET D :
          e[S] = IF S = {} THEN tree ELSE Grown(e[S \ {Max(S)}], z[Max(S)], n, objects)
  BY <1>10 DEF IsGrowing, D
<1>13. e[{}] \in X
  BY <1>12
<1>14. \A S \in SUBSET D : S # {} /\ e[S \ {c[S]}] \in X => e[S] \in X
  <2>1. TAKE S \in SUBSET D
  <2>2. HAVE S # {} /\ e[S \ {c[S]}] \in X
  <2>3. e[S] = Grown(e[S \ {c[S]}], z[c[S]], n, objects)
    BY <1>3, <1>12, <2>2
  <2>4. c[S] \in D
    BY <1>3a, <2>2
  <2>5. QED BY <2>2, <2>3, <2>4, <1>5a
<1>15. e[D] \in X
  BY <1>2, <1>3a, <1>13, <1>14, FoldKeeps, ZenonT(30)
<1>16. QED BY <1>11, <1>15

-----------------------------------------------------------------------------
(* Outstanding requests: each can be traced to one that was there, or is    *)
(* new.                                                                     *)

(* What a redrawn table leaves of a request.                                *)
Alike(c, d) == [c EXCEPT !.fresh = FALSE, !.same = FALSE] = [d EXCEPT !.fresh = FALSE, !.same = FALSE]

(* f traces the requests cs: to the k-th that was outstanding (but the i-th *)
(* is answered), or to the k-th of the new ones t (as -k).                  *)
Traced(f, cs, t, i) ==
    /\ DOMAIN f = DOMAIN cs
    /\ \A j \in DOMAIN cs :
          \/ f[j] \in DOMAIN calls \ {i} /\ Alike(cs[j], calls[f[j]])
          \/ \E m \in DOMAIN t : f[j] = -m /\ cs[j] = t[m]
    /\ \A j, k \in DOMAIN cs : f[j] = f[k] => j = k
    /\ \A k \in DOMAIN calls \ {i} : \E j \in DOMAIN cs : f[j] = k
    /\ \A m \in DOMAIN t : \E j \in DOMAIN cs : f[j] = -m

Continues(cs, t, i) == cs \in Seq(Call) /\ t \in Seq(Call) /\ \E f : Traced(f, cs, t, i)

(* Nothing is answered or asked for.                                        *)
LEMMA Unanswered ==
    ASSUME calls \in Seq(Call)
    PROVE  Continues(calls, <<>>, 0)
<1> DEFINE f == [j \in DOMAIN calls |-> j]
<1>1. DOMAIN calls = 1..Len(calls) /\ Len(calls) \in Nat
  OBVIOUS
<1>2. /\ DOMAIN f = DOMAIN calls
      /\ \A j \in DOMAIN calls : f[j] = j /\ j # 0
  BY <1>1
<1> HIDE DEF f
<1>2a. DOMAIN <<>> = {} /\ \A c : Alike(c, c)
  BY DEF Alike
<1>2b. \A k \in DOMAIN calls \ {0} : k \in DOMAIN calls /\ f[k] = k
  BY <1>2
<1>3. Traced(f, calls, <<>>, 0)
  BY <1>2, <1>2a, <1>2b DEF Traced
<1>4. QED BY <1>3 DEF Continues

(* One request is answered.                                                 *)
LEMMA OneAnswered ==
    ASSUME calls \in Seq(Call), NEW i \in DOMAIN calls
    PROVE  Continues(Answered(i), <<>>, i)
<1> DEFINE f == [j \in DOMAIN Answered(i) |-> Skip(i, j)]
<1>2. /\ DOMAIN f = DOMAIN Answered(i)
      /\ \A j \in DOMAIN Answered(i) : f[j] = Skip(i, j)
  OBVIOUS
<1> HIDE DEF f
<1>3. Traced(f, Answered(i), <<>>, i)
  <2>1. DOMAIN <<>> = {} /\ \A c : Alike(c, c)
    BY DEF Alike
  <2>2. /\ \A j \in DOMAIN Answered(i) : /\ Skip(i, j) \in DOMAIN calls \ {i}
                                         /\ Answered(i)[j] = calls[Skip(i, j)]
        /\ \A j, k \in DOMAIN Answered(i) : Skip(i, j) = Skip(i, k) => j = k
        /\ \A k \in DOMAIN calls \ {i} : \E j \in DOMAIN Answered(i) : Skip(i, j) = k
    BY AnsweredIs
  <2>3. QED BY <1>2, <2>1, <2>2 DEF Traced
<1>4. Answered(i) \in Seq(Call)
  BY AnsweredIs
<1>5. QED BY <1>3, <1>4 DEF Continues

(* Requests follow.                                                         *)
LEMMA MoreAsked ==
    ASSUME calls \in Seq(Call), NEW cs, NEW t, NEW i, Continues(cs, t, i), NEW u \in Seq(Call)
    PROVE  Continues(cs \o u, t \o u, i)
<1>1. PICK f : Traced(f, cs, t, i)
  BY DEF Continues
<1>2. cs \in Seq(Call) /\ t \in Seq(Call)
  BY DEF Continues
<1>3. PICK n \in Nat : n = Len(cs) /\ DOMAIN cs = 1..n
  BY <1>2
<1>4. PICK l \in Nat : l = Len(t) /\ DOMAIN t = 1..l
  BY <1>2
<1>5. PICK q \in Nat : q = Len(u) /\ DOMAIN u = 1..q
  OBVIOUS
<1> DEFINE d == cs \o u
           v == t \o u
           g == [j \in 1..(n + q) |-> IF j <= n THEN f[j] ELSE -(l + (j - n))]
<1>6. /\ d \in Seq(Call) /\ DOMAIN d = 1..(n + q)
      /\ \A j \in 1..(n + q) : d[j] = IF j <= n THEN cs[j] ELSE u[j - n]
  <2>1. d \in Seq(Call) /\ Len(d) = Len(cs) + Len(u)
    BY <1>2, ConcatProperties
  <2>2. \A j \in 1..(Len(cs) + Len(u)) : d[j] = IF j <= Len(cs) THEN cs[j] ELSE u[j - Len(cs)]
    BY <1>2, ConcatProperties
  <2> HIDE DEF d
  <2>3. QED BY <1>3, <1>5, <2>1, <2>2
<1>7. /\ v \in Seq(Call) /\ DOMAIN v = 1..(l + q)
      /\ \A j \in 1..(l + q) : v[j] = IF j <= l THEN t[j] ELSE u[j - l]
  <2>1. v \in Seq(Call) /\ Len(v) = Len(t) + Len(u)
    BY <1>2, ConcatProperties
  <2>2. \A j \in 1..(Len(t) + Len(u)) : v[j] = IF j <= Len(t) THEN t[j] ELSE u[j - Len(t)]
    BY <1>2, ConcatProperties
  <2> HIDE DEF v
  <2>3. QED BY <1>4, <1>5, <2>1, <2>2
<1>8. DOMAIN g = 1..(n + q) /\ \A j \in 1..(n + q) : g[j] = IF j <= n THEN f[j] ELSE -(l + (j - n))
  OBVIOUS
<1> HIDE DEF d, v, g
<1>9. \A k \in DOMAIN calls : k \in Nat /\ k # 0
  OBVIOUS
<1>10. /\ \A j \in 1..n : \/ f[j] \in DOMAIN calls \ {i} /\ Alike(cs[j], calls[f[j]])
                          \/ \E m \in 1..l : f[j] = -m /\ cs[j] = t[m]
       /\ \A j, k \in 1..n : f[j] = f[k] => j = k
       /\ \A k \in DOMAIN calls \ {i} : \E j \in 1..n : f[j] = k
       /\ \A m \in 1..l : \E j \in 1..n : f[j] = -m
  BY <1>1, <1>3, <1>4 DEF Traced
<1>11. ASSUME NEW j \in 1..(n + q)
       PROVE  \/ g[j] \in DOMAIN calls \ {i} /\ Alike(d[j], calls[g[j]])
              \/ \E m \in 1..(l + q) : g[j] = -m /\ d[j] = v[m]
  <2>1. CASE j <= n
    <3>1. j \in 1..n /\ g[j] = f[j] /\ d[j] = cs[j]
      BY <1>6, <1>8, <2>1
    <3>2. CASE f[j] \in DOMAIN calls \ {i} /\ Alike(cs[j], calls[f[j]])
      BY <3>1, <3>2
    <3>3. CASE \E m \in 1..l : f[j] = -m /\ cs[j] = t[m]
      <4>1. PICK m \in 1..l : f[j] = -m /\ cs[j] = t[m]
        BY <3>3
      <4>2. m \in 1..(l + q) /\ v[m] = t[m]
        BY <1>7
      <4>3. QED BY <3>1, <4>1, <4>2
    <3>4. QED BY <1>10, <3>1, <3>2, <3>3
  <2>2. CASE ~ (j <= n)
    <3>1. PICK m \in 1..(l + q) : m = l + (j - n)
      BY <2>2
    <3>2. ~ (m <= l) /\ m - l = j - n
      BY <2>2, <3>1
    <3>3. d[j] = u[j - n] /\ v[m] = u[m - l]
      BY <1>6, <1>7, <2>2, <3>2
    <3>4. g[j] = -m
      BY <1>8, <2>2, <3>1
    <3>5. QED BY <3>2, <3>3, <3>4
  <2>3. QED BY <2>1, <2>2
<1>12. ASSUME NEW j \in 1..(n + q), NEW k \in 1..(n + q), g[j] = g[k]
       PROVE  j = k
  <2>1. \A x \in 1..n : f[x] \in Nat \/ \E m \in 1..l : f[x] = -m
    BY <1>9, <1>10
  <2>2. CASE j <= n /\ k <= n
    BY <1>8, <1>10, <1>12, <2>2
  <2>3. CASE ~ (j <= n) /\ ~ (k <= n)
    BY <1>8, <1>12, <2>3
  <2>4. CASE j <= n /\ ~ (k <= n)
    BY <1>8, <1>12, <2>1, <2>4
  <2>5. CASE ~ (j <= n) /\ k <= n
    BY <1>8, <1>12, <2>1, <2>5
  <2>6. QED BY <2>2, <2>3, <2>4, <2>5
<1>13. ASSUME NEW k \in DOMAIN calls \ {i} PROVE \E j \in 1..(n + q) : g[j] = k
  <2>1. PICK j \in 1..n : f[j] = k
    BY <1>10
  <2>2. j \in 1..(n + q) /\ g[j] = f[j]
    BY <1>8
  <2>3. QED BY <2>1, <2>2
<1>14. ASSUME NEW m \in 1..(l + q) PROVE \E j \in 1..(n + q) : g[j] = -m
  <2>1. CASE m <= l
    <3>1. PICK j \in 1..n : f[j] = -m
      BY <1>10, <2>1
    <3>2. j \in 1..(n + q) /\ g[j] = f[j]
      BY <1>8
    <3>3. QED BY <3>1, <3>2
  <2>2. CASE ~ (m <= l)
    <3>1. PICK j \in 1..(n + q) : j = n + (m - l)
      BY <2>2
    <3>2. ~ (j <= n) /\ l + (j - n) = m
      BY <2>2, <3>1
    <3>3. g[j] = -(l + (j - n))
      BY <1>8, <3>2
    <3>4. QED BY <3>2, <3>3
  <2>3. QED BY <2>1, <2>2
<1>15. Traced(g, d, v, i)
  BY <1>6, <1>7, <1>8, <1>11, <1>12, <1>13, <1>14 DEF Traced
<1>16. QED BY <1>6, <1>7, <1>15 DEF Continues, d, v

(* The table is drawn anew.                                                 *)
LEMMA TableRedrawn ==
    ASSUME calls \in Seq(Call), NEW cs, NEW i, Continues(cs, <<>>, i)
    PROVE  Continues(Outdated(cs), <<>>, i)
<1> DEFINE d == Outdated(cs)
<1>1. PICK f : Traced(f, cs, <<>>, i)
  BY DEF Continues
<1>2. cs \in Seq(Call) /\ <<>> \in Seq(Call) /\ DOMAIN <<>> = {}
  BY DEF Continues
<1>3. \A c \in Call : /\ [c EXCEPT !.fresh = FALSE, !.same = FALSE] \in Call
                      /\ \A e \in Call : Alike(c, e) =>
                            Alike([c EXCEPT !.fresh = FALSE, !.same = FALSE], e)
  <2>1. ASSUME NEW c \in Call
        PROVE  /\ [c EXCEPT !.fresh = FALSE, !.same = FALSE] \in Call
               /\ [[c EXCEPT !.fresh = FALSE, !.same = FALSE]
                      EXCEPT !.fresh = FALSE, !.same = FALSE]
                  = [c EXCEPT !.fresh = FALSE, !.same = FALSE]
    BY DEF Call
  <2>2. QED BY <2>1 DEF Alike
<1>4. d = [j \in DOMAIN cs |-> [cs[j] EXCEPT !.fresh = FALSE, !.same = FALSE]]
  BY DEF Outdated
<1> HIDE DEF d
<1>5. PICK n \in Nat : DOMAIN cs = 1..n /\ \A j \in 1..n : cs[j] \in Call
  BY <1>2
<1>6. d \in Seq(Call) /\ DOMAIN d = DOMAIN cs
  <2>1. d = [j \in 1..n |-> [cs[j] EXCEPT !.fresh = FALSE, !.same = FALSE]]
    BY <1>4, <1>5
  <2>2. \A j \in 1..n : [cs[j] EXCEPT !.fresh = FALSE, !.same = FALSE] \in Call
    BY <1>3, <1>5
  <2>3. d \in [1..n -> Call]
    BY <2>1, <2>2
  <2>4. DOMAIN d = DOMAIN cs
    BY <1>4
  <2>5. QED BY <2>3, <2>4
<1>7. \A j \in DOMAIN cs : f[j] \in DOMAIN calls \ {i} /\ Alike(cs[j], calls[f[j]])
  BY <1>1, <1>2 DEF Traced
<1>8. \A j \in DOMAIN cs : Alike(d[j], calls[f[j]])
  <2>1. \A k \in DOMAIN calls : calls[k] \in Call
    OBVIOUS
  <2>2. \A j \in DOMAIN cs : d[j] = [cs[j] EXCEPT !.fresh = FALSE, !.same = FALSE]
    BY <1>4
  <2>3. ASSUME NEW j \in DOMAIN cs PROVE Alike(d[j], calls[f[j]])
    <3>1. PICK c \in Call : c = cs[j]
      BY <1>5
    <3>2. PICK e \in Call : e = calls[f[j]]
      BY <1>7, <2>1
    <3>3. Alike(c, e)
      BY <1>7, <3>1, <3>2
    <3>4. Alike([c EXCEPT !.fresh = FALSE, !.same = FALSE], e)
      BY <1>3, <3>3
    <3>5. QED BY <2>2, <3>1, <3>2, <3>4
  <2>4. QED BY <2>3
<1>9. Traced(f, d, <<>>, i)
  BY <1>1, <1>2, <1>6, <1>7, <1>8 DEF Traced
<1>10. QED BY <1>2, <1>6, <1>9 DEF Continues, d

-----------------------------------------------------------------------------
(* Types, and what they rest on: a tree of nodes, entries and rows that     *)
(* have a node, dialogs that know theirs.                                   *)

Trees == UNION {[D -> Path] : D \in SUBSET Nodes}

CallOK(c) ==
    /\ c.op \notin {"collection", "rename", "delete"} => c.node \in Nodes
    /\ c.op = "rename" => c.nodes # {}
    /\ c.op = "move" => Org \notin c.nodes

ApiKnown == ApiTypeOK /\ IsTree(parent)
ListKnown == ListTypeOK /\ \A i \in DOMAIN nodes : nodes[i].id # Org
HeldKnown ==
    /\ DialogsTypeOK
    /\ open \subseteq live
    /\ Handlers("rename") > 0 => held["rename"].nodes # {}
PopKnown == PopTypeOK /\ Org \notin pop.chosen
ViewKnown ==
    /\ here \in Place /\ view \in Place /\ view.node \in Nodes
    /\ past \in [entries : Seq(Place), at : Nat] /\ past.at \in DOMAIN past.entries
    /\ \A i \in DOMAIN past.entries : past.entries[i].node \in Nodes
CallsKnown == calls \in Seq(Call) /\ \A i \in DOMAIN calls : CallOK(calls[i])
CountsKnown ==
    /\ ready \in BOOLEAN
    /\ acts \in 0..MaxEvents /\ backs \in Nat /\ escapes \in Nat /\ failures \in Nat
    /\ backs + escapes + failures <= MaxTroubles
    /\ hurried \in BOOLEAN /\ astray \in BOOLEAN /\ moved \subseteq Nodes
ShiftsKnown == shifted \subseteq Changes /\ torn \subseteq Changes

Typed ==
    /\ ApiKnown /\ ListKnown /\ HeldKnown /\ PopKnown /\ ViewKnown /\ CallsKnown
    /\ CountsKnown /\ tree \in Trees /\ ShiftsKnown

ApiChanges == \E i \in DOMAIN calls :
                 AnswerCreate(i) \/ AnswerRename(i) \/ AnswerDelete(i) \/ AnswerMove(i)
ListChanges ==
    \/ \E i \in DOMAIN rows : AskRename(i) \/ \E rs \in SelectedRows(i) :
                                                AskDelete(i, rs) \/ AskMove(i, rs)
    \/ \E i \in DOMAIN calls : AnswerList(i) \/ AnswerMore(i) \/ AnswerRename(i)
                               \/ AnswerDelete(i) \/ AnswerMove(i)
DialogsChange ==
    \/ \E i \in DOMAIN rows : AskRename(i) \/ \E rs \in SelectedRows(i) : AskDelete(i, rs)
    \/ \E m \in {"collection", "folder"} : AskNew(m)
    \/ \E m \in Modal : CancelDialog(m) \/ EscapeDialog(m)
    \/ \E m \in Modal, text \in Names : SubmitByClick(m, text) \/ SubmitByEnter(m, text)
    \/ \E i \in DOMAIN calls : AnswerCreate(i) \/ AnswerRename(i) \/ AnswerDelete(i)
PopChanges ==
    \/ \E i \in DOMAIN rows : \E rs \in SelectedRows(i) : AskMove(i, rs)
    \/ \E d \in Nodes : PickFolder(d)
    \/ ClosePopover
    \/ \E i \in DOMAIN calls : AnswerList(i) \/ AnswerDelete(i) \/ AnswerListing(i)
                               \/ AnswerMove(i)
TreeChanges ==
    \/ \E n \in DOMAIN tree : TreeExpand(n)
    \/ \E i \in DOMAIN calls : AnswerList(i) \/ AnswerChildren(i) \/ AnswerMove(i)
ShiftsChange == \E i \in DOMAIN calls :
                   AnswerList(i) \/ AnswerMore(i) \/ AnswerRename(i) \/ AnswerDelete(i)

WhoStatement ==
    /\ ApiChanges \/ UNCHANGED api
    /\ ListChanges \/ UNCHANGED list
    /\ DialogsChange \/ UNCHANGED dialogs
    /\ PopChanges \/ UNCHANGED pop
    /\ TreeChanges \/ UNCHANGED tree
    /\ ShiftsChange \/ UNCHANGED shifts

(* Which steps change what.                                                 *)
LEMMA WhoChanges ==
    ASSUME Next
    PROVE  WhoStatement
<1> USE DEF WhoStatement, page, list, dialogs, ghosts
<1>1. CASE ApiReady
  BY <1>1 DEF ApiReady
<1>2. ASSUME NEW i \in DOMAIN rows, OpenRow(i) PROVE WhoStatement
  BY <1>2 DEF OpenRow, Going
<1>3. ASSUME NEW i \in DOMAIN rows, AskRename(i) PROVE WhoStatement
  BY <1>3 DEF AskRename, Opening, ListChanges, DialogsChange
<1>4. ASSUME NEW i \in DOMAIN rows, NEW rs \in SelectedRows(i), AskDelete(i, rs)
      PROVE  WhoStatement
  BY <1>4 DEF AskDelete, Opening, ListChanges, DialogsChange
<1>5. ASSUME NEW i \in DOMAIN rows, NEW rs \in SelectedRows(i), AskMove(i, rs)
      PROVE  WhoStatement
  BY <1>5 DEF AskMove, Opening, ListChanges, PopChanges
<1>6. ASSUME NEW k \in 0..Len(view.path), Crumb(k) PROVE WhoStatement
  BY <1>6 DEF Crumb, Going
<1>7. ASSUME NEW n \in DOMAIN tree, TreeClick(n) PROVE WhoStatement
  BY <1>7 DEF TreeClick, Going
<1>8. ASSUME NEW n \in DOMAIN tree, TreeExpand(n) PROVE WhoStatement
  BY <1>8 DEF TreeExpand, TreeChanges
<1>9. ASSUME NEW j, GoTo(j) PROVE WhoStatement
  BY <1>9 DEF GoTo
<1>10. CASE LoadMore
  BY <1>10 DEF LoadMore
<1>11. CASE MoveHere
  BY <1>11 DEF MoveHere
<1>12. CASE ClosePopover
  BY <1>12 DEF ClosePopover, PopChanges
<1>13. ASSUME NEW m \in {"collection", "folder"}, AskNew(m) PROVE WhoStatement
  BY <1>13 DEF AskNew, Opening, DialogsChange
<1>14. ASSUME NEW m \in Modal, CancelDialog(m) \/ EscapeDialog(m) PROVE WhoStatement
  BY <1>14 DEF CancelDialog, EscapeDialog, DialogsChange
<1>15. ASSUME NEW m \in Modal, NEW text \in Names,
              SubmitByClick(m, text) \/ SubmitByEnter(m, text)
       PROVE  WhoStatement
  <2>1. UNCHANGED <<api, list, pop, tree, shifts>>
    BY <1>15 DEF SubmitByClick, SubmitByEnter, Submitting
  <2>2. DialogsChange
    BY <1>15 DEF DialogsChange
  <2>3. QED BY <2>1, <2>2
<1>16. ASSUME NEW d \in Nodes, PickFolder(d) PROVE WhoStatement
  BY <1>16 DEF PickFolder, PopChanges
<1>17. ASSUME NEW d \in Nodes, ListFolder(d) PROVE WhoStatement
  BY <1>17 DEF ListFolder
<1>18. ASSUME NEW i \in DOMAIN calls, Lose(i) PROVE WhoStatement
  BY <1>18 DEF Lose
<1>19. ASSUME NEW i \in DOMAIN calls, AnswerNode(i) PROVE WhoStatement
  BY <1>19 DEF AnswerNode
<1>20. ASSUME NEW i \in DOMAIN calls, AnswerList(i) PROVE WhoStatement
  BY <1>20 DEF AnswerList, ListChanges, PopChanges, TreeChanges, ShiftsChange
<1>21. ASSUME NEW i \in DOMAIN calls, AnswerChildren(i) PROVE WhoStatement
  BY <1>21 DEF AnswerChildren, TreeChanges
<1>22. ASSUME NEW i \in DOMAIN calls, AnswerMore(i) PROVE WhoStatement
  BY <1>22 DEF AnswerMore, ListChanges, ShiftsChange
<1>23. ASSUME NEW i \in DOMAIN calls, AnswerCreate(i) PROVE WhoStatement
  BY <1>23 DEF AnswerCreate, ApiChanges, DialogsChange
<1>24. ASSUME NEW i \in DOMAIN calls, AnswerRename(i) PROVE WhoStatement
  BY <1>24 DEF AnswerRename, ApiChanges, ListChanges, DialogsChange, ShiftsChange
<1>25. ASSUME NEW i \in DOMAIN calls, AnswerDelete(i) PROVE WhoStatement
  BY <1>25 DEF AnswerDelete, ApiChanges, ListChanges, DialogsChange, PopChanges, ShiftsChange
<1>26. ASSUME NEW i \in DOMAIN calls, AnswerListing(i) PROVE WhoStatement
  BY <1>26 DEF AnswerListing, PopChanges
<1>27. ASSUME NEW i \in DOMAIN calls, AnswerMove(i) PROVE WhoStatement
  BY <1>27 DEF AnswerMove, ApiChanges, ListChanges, PopChanges, TreeChanges
<1> HIDE DEF WhoStatement
<1>28. ASSUME User PROVE WhoStatement
  BY <1>28, <1>2, <1>3, <1>4, <1>5, <1>6, <1>7, <1>8, <1>9, <1>10, <1>11, <1>12, <1>13,
     <1>14, <1>15, <1>16, <1>17 DEF User
<1>29. ASSUME NEW i \in DOMAIN calls, Answer(i) \/ Lose(i) PROVE WhoStatement
  BY <1>29, <1>18, <1>19, <1>20, <1>21, <1>22, <1>23, <1>24, <1>25, <1>26, <1>27 DEF Answer
<1>30. QED BY <1>1, <1>28, <1>29 DEF Next

(* A row for a node that is created is there.                               *)
LEMMA SpareIs ==
    ASSUME NEW kind, Spare(kind) # {}
    PROVE  Min(Spare(kind)) \in Nodes /\ parent[Min(Spare(kind))] = None
<1>1. Spare(kind) \in SUBSET Nodes /\ Spare(kind) \in SUBSET Nat
  BY NodesAssumption DEF Spare
<1>2. Min(Spare(kind)) \in Spare(kind)
  BY <1>1, MinIs
<1>3. QED BY <1>2 DEF Spare

(* The tree stays one.                                                      *)
LEMMA ApiStep ==
    ASSUME Typed, Next
    PROVE  ApiKnown'
<1>0. /\ ApiKnown /\ parent \in [Nodes -> Nodes \cup {None}] /\ name \in [Nodes -> Names]
      /\ deleted \subseteq Nodes /\ IsTree(parent) /\ Org \in Nodes
  BY NodesAssumption DEF Typed, ApiKnown, ApiTypeOK
<1>1. CASE UNCHANGED api
  BY <1>0, <1>1 DEF api, ApiKnown, ApiTypeOK
<1>2. ASSUME NEW i \in DOMAIN calls, AnswerCreate(i) PROVE ApiKnown'
  <2>1. CASE UNCHANGED api
    BY <1>1, <2>1
  <2>2. CASE \E d \in Nodes, kind \in {"FOLDER", "COLLECTION"} : MayCreate(d, kind, calls[i].text)
                                    /\ Create(d, kind, calls[i].text)
    <3>1. PICK d \in Nodes, kind \in {"FOLDER", "COLLECTION"} : MayCreate(d, kind, calls[i].text)
                                   /\ Create(d, kind, calls[i].text)
      BY <2>2
    <3>2. PICK n : n = Min(Spare(kind))
      OBVIOUS
    <3>3. n \in Nodes /\ parent[n] = None
      BY <3>1, <3>2, SpareIs DEF MayCreate
    <3>4. parent[d] # None /\ calls[i].text \in Names
      BY <3>1 DEF MayCreate, Exists
    <3>5. /\ parent' = [parent EXCEPT ![n] = d]
          /\ name' = [name EXCEPT ![n] = calls[i].text] /\ deleted' = deleted
      BY <3>1, <3>2 DEF Create
    <3>6. IsTree(parent')
      BY <1>0, <3>3, <3>4, <3>5, CreateKeepsTree
    <3>7. QED BY <1>0, <3>3, <3>4, <3>5, <3>6 DEF ApiKnown, ApiTypeOK
  <2>3. calls[i].op = "folder" => calls[i].node \in Nodes
    BY DEF Typed, CallsKnown, CallOK
  <2>4. QED BY <1>0, <1>2, <2>1, <2>2, <2>3 DEF AnswerCreate
<1>3. ASSUME NEW i \in DOMAIN calls, AnswerRename(i) PROVE ApiKnown'
  <2>1. PICK n : n = CHOOSE x \in calls[i].nodes : TRUE
    OBVIOUS
  <2>2. CASE MayRename(n, calls[i].text) /\ Rename(n, calls[i].text)
    BY <1>0, <2>2 DEF MayRename, Rename, ApiKnown, ApiTypeOK
  <2>3. CASE UNCHANGED api
    BY <1>1, <2>3
  <2>4. QED BY <1>3, <2>1, <2>2, <2>3 DEF AnswerRename
<1>4. ASSUME NEW i \in DOMAIN calls, AnswerDelete(i) PROVE ApiKnown'
  <2>1. \A n : Below(n) \subseteq Nodes
    BY DEF Below
  <2>2. QED BY <1>0, <1>4, <2>1 DEF AnswerDelete, Delete, ApiKnown, ApiTypeOK
<1>5. ASSUME NEW i \in DOMAIN calls, AnswerMove(i) PROVE ApiKnown'
  <2>1. calls[i].node \in Nodes /\ calls[i].nodes \subseteq Nodes /\ Org \notin calls[i].nodes
    <3>1. calls[i] \in Call /\ CallOK(calls[i]) /\ calls[i].op = "move"
      BY <1>5 DEF Typed, CallsKnown, AnswerMove
    <3>2. QED BY <3>1 DEF CallOK, Call
  <2> DEFINE ok == {n \in calls[i].nodes : MayMove(n, calls[i].node)}
             d == calls[i].node
  <2>2. Move(ok, d)
    BY <1>5 DEF AnswerMove
  <2>3. CASE ok = {}
    <3>1. parent' = parent /\ name' = name /\ deleted' = deleted
      BY <1>0, <2>2, <2>3 DEF Move
    <3>2. QED BY <1>1, <3>1 DEF api
  <2>4. CASE ok # {}
    <3>1. /\ ok \in SUBSET (Nodes \ {Org}) /\ parent[d] # None
          /\ \A n \in ok : parent[n] # None /\ d \notin Below(n)
      BY <2>1, <2>4 DEF MayMove, Exists
    <3> HIDE DEF ok
    <3>2. d \in Nodes
      BY <2>1
    <3> HIDE DEF d
    <3>3. IsTree([n \in Nodes |-> IF n \in ok THEN d ELSE parent[n]])
      BY <1>0, <3>1, <3>2, MoveKeepsTree
    <3>4. /\ parent' = [n \in Nodes |-> IF n \in ok THEN d ELSE parent[n]]
          /\ name' = name /\ deleted' = deleted
      BY <2>2 DEF Move
    <3>5. parent' \in [Nodes -> Nodes \cup {None}]
      BY <1>0, <3>2, <3>4
    <3>6. IsTree(parent')
      BY <3>3, <3>4
    <3>7. QED BY <1>0, <3>4, <3>5, <3>6 DEF ApiKnown, ApiTypeOK
  <2>5. QED BY <2>3, <2>4
<1>6. ApiChanges \/ UNCHANGED api
  BY WhoChanges DEF WhoStatement
<1>7. QED BY <1>1, <1>2, <1>3, <1>4, <1>5, <1>6 DEF ApiChanges

(* The objects of a page are children of the directory, by their names.     *)
LEMMA PageTyped ==
    ASSUME ApiTypeOK, NEW d \in Nodes, NEW from \in Nat
    PROVE  /\ Page(d, from).results \in Seq(Object)
           /\ Page(d, from).next \in [of : Nodes, from : Nat]
           /\ \A j \in DOMAIN Page(d, from).results :
                 /\ Page(d, from).results[j].id \in Children(d)
                 /\ Page(d, from).results[j].name = name[Page(d, from).results[j].id]
<1> DEFINE ids == Ordered(Children(d))
           pg == Page(d, from)
<1>1. /\ pg.results \in Seq(Object)
      /\ \A j \in DOMAIN pg.results :
            /\ from + j \in 1..Len(ids)
            /\ pg.results[j] = [id |-> ids[from + j], name |-> name[ids[from + j]]]
      /\ pg.next = [of |-> d, from |-> 0] \/ pg.next = [of |-> d, from |-> from + PageSize]
  BY PageIs
<1>2. \A i \in 1..Len(ids) : ids[i] \in Children(d)
  <2>1. Children(d) \in SUBSET Nodes
    BY DEF Children
  <2>2. QED BY <2>1, OrderedIs
<1>3. from + PageSize \in Nat
  BY PageAssumption
<1> HIDE DEF ids, pg
<1>4. pg.next \in [of : Nodes, from : Nat]
  <2>1. [of |-> d, from |-> 0] \in [of : Nodes, from : Nat]
    OBVIOUS
  <2>2. [of |-> d, from |-> from + PageSize] \in [of : Nodes, from : Nat]
    BY <1>3
  <2>3. QED BY <1>1, <2>1, <2>2
<1>5. ASSUME NEW j \in DOMAIN pg.results
      PROVE  pg.results[j].id \in Children(d) /\ pg.results[j].name = name[pg.results[j].id]
  <2>1. PICK x \in Children(d) : x = ids[from + j]
    BY <1>1, <1>2
  <2>2. pg.results[j] = [id |-> x, name |-> name[x]]
    BY <1>1, <2>1
  <2>3. QED BY <2>2
<1>6. QED BY <1>1, <1>4, <1>5 DEF pg

(* The rows of objects.                                                     *)
LEMMA RowsTyped ==
    ASSUME NEW objects \in Seq(Object), NEW k \in Nat
    PROVE  /\ RowsOf(objects, k) \in Seq(Row)
           /\ Len(RowsOf(objects, k)) = Len(objects)
           /\ \A i \in 1..Len(objects) :
                 RowsOf(objects, k)[i] = [at |-> k + i, id |-> objects[i].id,
                                          name |-> objects[i].name]
<1>1. PICK n \in Nat : n = Len(objects) /\ DOMAIN objects = 1..n
  OBVIOUS
<1>2. \A i \in 1..n : objects[i] \in Object
  BY <1>1
<1>3. \A i \in 1..n : [at |-> k + i, id |-> objects[i].id, name |-> objects[i].name] \in Row
  BY <1>2 DEF Object, Row
<1>4. RowsOf(objects, k) = [i \in 1..n |-> [at |-> k + i, id |-> objects[i].id,
                                            name |-> objects[i].name]]
  BY <1>1 DEF RowsOf
<1>5. RowsOf(objects, k) \in [1..n -> Row]
  BY <1>3, <1>4
<1>6. RowsOf(objects, k) \in Seq(Row) /\ Len(RowsOf(objects, k)) = n
  BY <1>5
<1>7. QED BY <1>1, <1>4, <1>6

(* What has the focus is a node.                                            *)
LEMMA FocusTyped ==
    ASSUME Typed, NEW i \in DOMAIN rows, Focus(NodeOfRow(i)), NodeOfRow(i) # None
    PROVE  ListKnown'
<1>1. NodeOfRow(i) \in Nodes
  <2>1. rows[i].at \in DOMAIN nodes
    BY DEF NodeOfRow
  <2>2. nodes[rows[i].at] \in Object
    BY <2>1 DEF Typed, ListKnown, ListTypeOK
  <2>3. QED BY <2>1, <2>2 DEF NodeOfRow, Object
<1>2. QED BY <1>1 DEF Typed, ListKnown, ListTypeOK, Focus

(* Objects that are kept are those there were.                              *)
LEMMA KeptObjects ==
    ASSUME ListKnown, NEW keep
    PROVE  /\ Kept(nodes, keep) \in Seq(Object)
           /\ \A j \in DOMAIN Kept(nodes, keep) : Kept(nodes, keep)[j].id # Org
           /\ DOMAIN nodes \subseteq keep => Kept(nodes, keep) = nodes
<1>1. nodes \in Seq(Object)
  BY DEF ListKnown, ListTypeOK
<1>2. Kept(nodes, keep) \in Seq(Object) /\ (DOMAIN nodes \subseteq keep => Kept(nodes, keep) = nodes)
  BY <1>1, KeptIs
<1>3. PICK p : KeptFrom(Kept(nodes, keep), p, nodes, DOMAIN nodes \cap keep)
  BY <1>1, KeptIs
<1>4. PICK r \in Seq(Object) : r = Kept(nodes, keep)
  BY <1>2
<1>5. \A j \in DOMAIN r : r[j] = nodes[p[j]] /\ p[j] \in DOMAIN nodes
  BY <1>3, <1>4 DEF KeptFrom
<1>6. QED BY <1>2, <1>4, <1>5 DEF ListKnown

(* So are rows that are kept.                                               *)
LEMMA KeptRows ==
    ASSUME ListKnown, NEW keep
    PROVE  /\ Kept(rows, keep) \in Seq(Row)
           /\ \A j \in DOMAIN Kept(rows, keep) :
                 \E i \in DOMAIN rows : i \in keep /\ Kept(rows, keep)[j] = rows[i]
<1>1. rows \in Seq(Row)
  BY DEF ListKnown, ListTypeOK
<1>2. Kept(rows, keep) \in Seq(Row)
  BY <1>1, KeptIs
<1>3. PICK p : KeptFrom(Kept(rows, keep), p, rows, DOMAIN rows \cap keep)
  BY <1>1, KeptIs
<1>4. PICK r \in Seq(Row) : r = Kept(rows, keep)
  BY <1>2
<1>5. \A j \in DOMAIN r : r[j] = rows[p[j]] /\ p[j] \in DOMAIN rows \cap keep
  BY <1>3, <1>4 DEF KeptFrom
<1>6. QED BY <1>2, <1>4, <1>5

(* The table keeps its type, and never has the organization.                *)
LEMMA ListStep ==
    ASSUME Typed, Next
    PROVE  ListKnown'
<1>0. /\ ListKnown /\ nodes \in Seq(Object) /\ rows \in Seq(Row) /\ details \in Nodes
      /\ next \in [of : Nodes, from : Nat] /\ ApiTypeOK
      /\ \A i \in DOMAIN nodes : nodes[i].id # Org
  BY DEF Typed, ListKnown, ListTypeOK, ApiKnown
<1>0a. \A i \in DOMAIN calls : calls[i] \in Call /\ CallOK(calls[i])
  BY DEF Typed, CallsKnown
<1>1. CASE UNCHANGED list
  BY <1>0, <1>1 DEF list, ListKnown, ListTypeOK
<1>2. ASSUME NEW i \in DOMAIN rows, AskRename(i) PROVE ListKnown'
  BY <1>2, FocusTyped DEF AskRename, Menu
<1>3. ASSUME NEW i \in DOMAIN rows, NEW rs, AskDelete(i, rs) \/ AskMove(i, rs)
      PROVE  ListKnown'
  BY <1>3, FocusTyped DEF AskDelete, AskMove, Menu
<1>4. ASSUME NEW i \in DOMAIN calls, AnswerList(i) PROVE ListKnown'
  <2>1. calls[i].node \in Nodes
    BY <1>0a, <1>4 DEF CallOK, AnswerList
  <2>2. PICK pg : pg = Page(calls[i].node, 0)
    OBVIOUS
  <2>3. /\ pg.results \in Seq(Object) /\ pg.next \in [of : Nodes, from : Nat]
        /\ \A j \in DOMAIN pg.results : pg.results[j].id # Org
    BY <1>0, <2>1, <2>2, PageTyped DEF Children
  <2>4. RowsOf(pg.results, 0) \in Seq(Row)
    BY <2>3, RowsTyped
  <2>5. ShowDirectory(calls[i].node, pg)
    BY <1>4, <2>2 DEF AnswerList
  <2>6. QED BY <2>1, <2>3, <2>4, <2>5 DEF ShowDirectory, ListKnown, ListTypeOK
<1>5. ASSUME NEW i \in DOMAIN calls, AnswerMore(i) PROVE ListKnown'
  <2>1. calls[i].node \in Nodes /\ calls[i].from \in Nat
    BY <1>0a, <1>5 DEF CallOK, Call, AnswerMore
  <2>2. PICK pg : pg = Page(calls[i].node, calls[i].from)
    OBVIOUS
  <2>3. /\ pg.results \in Seq(Object) /\ pg.next \in [of : Nodes, from : Nat]
        /\ \A j \in DOMAIN pg.results : pg.results[j].id # Org
    BY <1>0, <2>1, <2>2, PageTyped DEF Children
  <2>4. Len(nodes) \in Nat
    BY <1>0
  <2>5. RowsOf(pg.results, Len(nodes)) \in Seq(Row)
    BY <2>3, <2>4, RowsTyped
  <2>6. /\ nodes' = nodes \o pg.results /\ rows' = rows \o RowsOf(pg.results, Len(nodes))
        /\ next' = pg.next /\ details' = details
    BY <1>5, <2>2 DEF AnswerMore, AppendPage
  <2>7. nodes' \in Seq(Object) /\ \A j \in DOMAIN nodes' : nodes'[j].id # Org
    <3>1. PICK r \in Seq(Object) : r = pg.results
      BY <2>3
    <3>2. nodes \o r \in Seq(Object) /\ Len(nodes \o r) = Len(nodes) + Len(r)
      BY <1>0, ConcatProperties
    <3>3. \A j \in 1..(Len(nodes) + Len(r)) :
             (nodes \o r)[j] = IF j <= Len(nodes) THEN nodes[j] ELSE r[j - Len(nodes)]
      BY <1>0, ConcatProperties
    <3>4. ASSUME NEW j \in DOMAIN nodes' PROVE nodes'[j].id # Org
      <4>1. j \in 1..(Len(nodes) + Len(r)) /\ Len(r) \in Nat
        BY <2>6, <3>1, <3>2
      <4>2. CASE j <= Len(nodes)
        BY <1>0, <2>4, <2>6, <3>1, <3>3, <4>1, <4>2
      <4>3. CASE ~ (j <= Len(nodes))
        <5>1. j - Len(nodes) \in DOMAIN r
          BY <2>4, <4>1, <4>3
        <5>2. QED BY <2>3, <2>6, <3>1, <3>3, <4>1, <4>3, <5>1
      <4>4. QED BY <4>2, <4>3
    <3>5. QED BY <2>6, <3>1, <3>2, <3>4
  <2>8. rows' \in Seq(Row)
    BY <1>0, <2>5, <2>6, ConcatProperties
  <2>9. QED BY <1>0, <2>3, <2>6, <2>7, <2>8 DEF ListKnown, ListTypeOK
<1>6. ASSUME NEW i \in DOMAIN calls, AnswerRename(i) PROVE ListKnown'
  <2>1. PICK n : n = CHOOSE x \in calls[i].nodes : TRUE
    OBVIOUS
  <2>2. CASE UNCHANGED list
    BY <1>1, <2>2
  <2>3. CASE MayRename(n, calls[i].text) /\ ShowRenamed(n, calls[i].was, calls[i].text)
    <3>1. PICK t \in Names : t = calls[i].text
      BY <2>3 DEF MayRename
    <3>2. rows' \in Seq(Row)
      <4> DEFINE hits == {j \in DOMAIN rows : rows[j].name = calls[i].was}
      <4>1. CASE hits = {}
        BY <1>0, <2>3, <4>1 DEF ShowRenamed
      <4>2. CASE hits # {}
        <5>1. hits \in SUBSET Nat
          BY <1>0
        <5>2. Min(hits) \in hits
          BY <4>2, <5>1, MinIs
        <5>3. PICK k \in DOMAIN rows : k = Min(hits)
          BY <5>2
        <5>4. rows' = [rows EXCEPT ![k].name = t]
          BY <2>3, <3>1, <4>2, <5>3 DEF ShowRenamed
        <5>5. [rows[k] EXCEPT !.name = t] \in Row
          <6>1. PICK r \in Row : r = rows[k]
            BY <1>0
          <6>2. [r EXCEPT !.name = t] \in Row
            BY DEF Row
          <6>3. QED BY <6>1, <6>2
        <5>6. QED BY <1>0, <5>4, <5>5
      <4>3. QED BY <4>1, <4>2
    <3>3. nodes' \in Seq(Object) /\ \A j \in DOMAIN nodes' : nodes'[j].id # Org
      <4>1. CASE details # n
        BY <1>0, <2>3, <4>1 DEF ShowRenamed
      <4>2. CASE details = n
        <5>1. PICK l \in Nat : DOMAIN nodes = 1..l
          BY <1>0
        <5>2. nodes' = [j \in 1..l |-> IF nodes[j].id = n THEN [nodes[j] EXCEPT !.name = t]
                                       ELSE nodes[j]]
          BY <2>3, <3>1, <4>2, <5>1 DEF ShowRenamed
        <5>3. \A j \in 1..l : /\ nodes[j] \in Object
                              /\ [nodes[j] EXCEPT !.name = t] \in Object
                              /\ [nodes[j] EXCEPT !.name = t].id = nodes[j].id
          <6>1. \A o \in Object : /\ [o EXCEPT !.name = t] \in Object
                                  /\ [o EXCEPT !.name = t].id = o.id
            BY DEF Object
          <6>2. \A j \in 1..l : nodes[j] \in Object
            BY <1>0, <5>1
          <6>3. QED BY <6>1, <6>2
        <5>4. nodes' \in [1..l -> Object]
          BY <5>2, <5>3
        <5>5. \A j \in 1..l : nodes'[j].id # Org
          BY <1>0, <5>1, <5>2, <5>3
        <5>6. QED BY <5>4, <5>5
      <4>3. QED BY <4>1, <4>2
    <3>4. next' = next /\ details' = details
      BY <2>3 DEF ShowRenamed
    <3>5. QED BY <1>0, <3>2, <3>3, <3>4 DEF ListKnown, ListTypeOK
  <2>4. QED BY <1>6, <2>1, <2>2, <2>3 DEF AnswerRename
<1>7. ASSUME NEW i \in DOMAIN calls, AnswerDelete(i) PROVE ListKnown'
  <2>1. PICK ns, e : ShowDeleted(ns, e)
    BY <1>7 DEF AnswerDelete
  <2> DEFINE left == Kept(nodes, {j \in DOMAIN nodes : nodes[j].id \notin ns})
  <2>2. left \in Seq(Object) /\ \A j \in DOMAIN left : left[j].id # Org
    BY <1>0, KeptObjects
  <2>3. nodes' = left /\ rows' = RowsOf(left, 0) /\ next' = next /\ details' = details
    BY <2>1 DEF ShowDeleted
  <2> HIDE DEF left
  <2>4. RowsOf(left, 0) \in Seq(Row)
    BY <2>2, RowsTyped
  <2>5. QED BY <1>0, <2>2, <2>3, <2>4 DEF ListKnown, ListTypeOK
<1>8. ASSUME NEW i \in DOMAIN calls, AnswerMove(i) PROVE ListKnown'
  <2>1. CASE UNCHANGED list
    BY <1>1, <2>1
  <2>2. CASE \E ns, hide : ShowMoved(ns, hide)
    <3>1. PICK ns, hide : ShowMoved(ns, hide)
      BY <2>2
    <3> DEFINE ob == Kept(nodes, {j \in DOMAIN nodes : \/ nodes[j].id \notin ns
                                                       \/ Kind[nodes[j].id] = "FILE"})
               rw == Kept(rows, {j \in DOMAIN rows : rows[j].name \notin hide})
    <3>2. ob \in Seq(Object) /\ \A j \in DOMAIN ob : ob[j].id # Org
      BY <1>0, KeptObjects
    <3>3. rw \in Seq(Row)
      BY <1>0, KeptRows
    <3>4. nodes' = ob /\ rows' = rw /\ next' = next /\ details' = details
      BY <3>1 DEF ShowMoved
    <3> HIDE DEF ob, rw
    <3>5. QED BY <1>0, <3>2, <3>3, <3>4 DEF ListKnown, ListTypeOK
  <2>3. QED BY <1>8, <2>1, <2>2 DEF AnswerMove
<1>9. ListChanges \/ UNCHANGED list
  BY WhoChanges DEF WhoStatement
<1>10. QED BY <1>1, <1>2, <1>3, <1>4, <1>5, <1>6, <1>7, <1>8, <1>9 DEF ListChanges

(* A row stands for a node that is not the organization.                    *)
LEMMA RowIsNode ==
    ASSUME Typed, NEW i \in DOMAIN rows, NodeOfRow(i) # None
    PROVE  /\ rows[i].at \in DOMAIN nodes /\ nodes[rows[i].at] \in Object
           /\ NodeOfRow(i) = nodes[rows[i].at].id
           /\ NodeOfRow(i) \in Nodes \ {Org} /\ rows[i].name \in Names
<1>1. rows[i].at \in DOMAIN nodes /\ NodeOfRow(i) = nodes[rows[i].at].id
  BY DEF NodeOfRow
<1>2. PICK o \in Object : o = nodes[rows[i].at]
  BY <1>1 DEF Typed, ListKnown, ListTypeOK
<1>3. o.id \in Nodes /\ o.id # Org
  BY <1>1, <1>2 DEF Object, Typed, ListKnown
<1>4. PICK r \in Row : r = rows[i]
  BY DEF Typed, ListKnown, ListTypeOK
<1>5. r.name \in Names
  BY DEF Row
<1>6. QED BY <1>1, <1>2, <1>3, <1>4, <1>5

(* A dialog opens.                                                          *)
LEMMA OpenTyped ==
    ASSUME HeldKnown, NEW m \in Modal, NEW what \in Held, OpenDialog(m, what),
           m = "rename" => what.nodes # {}
    PROVE  HeldKnown'
<1>0. /\ open \subseteq Modal /\ busy \subseteq Modal /\ live \subseteq Modal
      /\ stale \in [Modal -> Nat] /\ held \in [Modal -> Held] /\ open \subseteq live
      /\ Handlers("rename") > 0 => held["rename"].nodes # {}
  BY DEF HeldKnown, DialogsTypeOK
<1>1. /\ open' = open \cup {m} /\ live' = live \cup {m} /\ busy' = busy
      /\ stale' = [stale EXCEPT ![m] = IF m \in live THEN stale[m] + 1 ELSE stale[m]]
      /\ held' = [held EXCEPT ![m] = what]
  BY DEF OpenDialog
<1>2. /\ open' \subseteq Modal /\ busy' \subseteq Modal /\ live' \subseteq Modal
      /\ open' \subseteq live' /\ held' \in [Modal -> Held]
  BY <1>0, <1>1
<1>3. stale' \in [Modal -> Nat]
  BY <1>0, <1>1
<1>4. "rename" \in Modal
  BY DEF Modal
<1>5. m # "rename" => /\ stale'["rename"] = stale["rename"] /\ held'["rename"] = held["rename"]
                      /\ "rename" \in live' <=> "rename" \in live
  BY <1>0, <1>1, <1>4
<1>6. m = "rename" => held'["rename"] = what
  BY <1>0, <1>1, <1>4
<1>7. Handlers("rename")' > 0 => held'["rename"].nodes # {}
  <2>1. CASE m = "rename"
    BY <1>6, <2>1
  <2>2. CASE m # "rename"
    <3>1. Handlers("rename")' = Handlers("rename")
      BY <1>5, <2>2 DEF Handlers
    <3>2. QED BY <1>0, <1>5, <2>2, <3>1
  <2>3. QED BY <2>1, <2>2
<1>8. QED BY <1>2, <1>3, <1>7 DEF HeldKnown, DialogsTypeOK

(* A dialog closes: it is off the document, and forgets what it held unless *)
(* a handler is left there.                                                 *)
LEMMA ClosedTyped ==
    ASSUME HeldKnown, NEW ms, NEW bs \in SUBSET Modal,
           busy' = bs, open' = open \ ms, live' = live \ ms, Forget(ms), stale' = stale
    PROVE  HeldKnown'
<1>0. /\ open \subseteq Modal /\ busy \subseteq Modal /\ live \subseteq Modal
      /\ stale \in [Modal -> Nat] /\ held \in [Modal -> Held] /\ open \subseteq live
      /\ Handlers("rename") > 0 => held["rename"].nodes # {}
  BY DEF HeldKnown, DialogsTypeOK
<1>1. Empty \in Held
  BY DEF Empty, Held
<1>2. held' = [x \in Modal |-> IF x \in ms /\ stale[x] = 0 THEN Empty ELSE held[x]]
  BY DEF Forget
<1>3. held' \in [Modal -> Held]
  BY <1>0, <1>1, <1>2
<1>4. "rename" \in Modal
  BY DEF Modal
<1>5. held'["rename"] = IF "rename" \in ms /\ stale["rename"] = 0 THEN Empty ELSE held["rename"]
  BY <1>2, <1>4
<1>6. stale["rename"] \in Nat
  BY <1>0, <1>4
<1>7. ASSUME Handlers("rename")' > 0 PROVE held'["rename"].nodes # {}
  <2>1. ~ ("rename" \in ms /\ stale["rename"] = 0)
    <3>1. ASSUME "rename" \in ms, stale["rename"] = 0 PROVE FALSE
      <4>1. Handlers("rename")' = 0
        BY <3>1 DEF Handlers
      <4>2. QED BY <1>7, <4>1
    <3>2. QED BY <3>1
  <2>2. held'["rename"] = held["rename"]
    BY <1>5, <2>1
  <2>3. Handlers("rename") > 0
    <3>1. stale'["rename"] = stale["rename"] /\ ("rename" \in live' => "rename" \in live)
      OBVIOUS
    <3>2. QED BY <1>6, <1>7, <3>1 DEF Handlers
  <2>4. QED BY <1>0, <2>2, <2>3
<1>8. QED BY <1>0, <1>3, <1>7 DEF HeldKnown, DialogsTypeOK

(* Dialogs are submitted.                                                   *)
LEMMA SubmitTyped ==
    ASSUME HeldKnown, NEW ms \in SUBSET Modal, NEW m \in Modal, NEW text \in Names,
           Submit(ms, m, text)
    PROVE  HeldKnown'
<1>0. /\ open \subseteq Modal /\ busy \subseteq Modal /\ live \subseteq Modal
      /\ stale \in [Modal -> Nat] /\ held \in [Modal -> Held] /\ open \subseteq live
      /\ Handlers("rename") > 0 => held["rename"].nodes # {}
  BY DEF HeldKnown, DialogsTypeOK
<1>1. PICK t \in Names \cup {None} : t = IF m \in WithInput THEN text ELSE None
  OBVIOUS
<1>2. held' = [held EXCEPT ![m].text = t]
  BY <1>1 DEF Submit
<1>3. \A h \in Held : [h EXCEPT !.text = t] \in Held /\ [h EXCEPT !.text = t].nodes = h.nodes
  BY DEF Held
<1>4. held' \in [Modal -> Held] /\ \A x \in Modal : held'[x].nodes = held[x].nodes
  BY <1>0, <1>2, <1>3
<1>5. PICK closing : /\ busy' = busy \cup (ms \ closing) /\ open' = open \ closing
                     /\ live' = live \ closing /\ stale' = stale
  BY DEF Submit
<1>6. "rename" \in Modal
  BY DEF Modal
<1>7. ASSUME Handlers("rename")' > 0 PROVE held'["rename"].nodes # {}
  <2>1. stale'["rename"] = stale["rename"] /\ ("rename" \in live' => "rename" \in live)
    BY <1>5
  <2>2. stale["rename"] \in Nat
    BY <1>0, <1>6
  <2>3. Handlers("rename") > 0
    BY <1>7, <2>1, <2>2 DEF Handlers
  <2>4. QED BY <1>0, <1>4, <1>6, <2>3
<1>8. QED BY <1>0, <1>4, <1>5, <1>7 DEF HeldKnown, DialogsTypeOK

(* A dialog gets its response.                                              *)
LEMMA RespondTyped ==
    ASSUME HeldKnown, NEW m, NEW ok, Respond(m, ok)
    PROVE  HeldKnown'
<1>0. busy \ {m} \in SUBSET Modal
  BY DEF HeldKnown, DialogsTypeOK
<1>1. CASE ok
  <2>1. open' = open \ {m} /\ live' = live \ {m} /\ Forget({m}) /\ stale' = stale
    BY <1>1 DEF Respond
  <2>2. busy' = busy \ {m}
    BY DEF Respond
  <2>3. QED BY <1>0, <2>1, <2>2, ClosedTyped
<1>2. CASE ~ok
  <2>1. open' = open \ {} /\ live' = live \ {} /\ Forget({}) /\ stale' = stale
    BY <1>2 DEF Respond
  <2>2. busy' = busy \ {m}
    BY DEF Respond
  <2>3. QED BY <1>0, <2>1, <2>2, ClosedTyped
<1>3. QED BY <1>1, <1>2

(* The dialogs keep theirs: whoever is open is on the document.             *)
LEMMA HeldStep ==
    ASSUME Typed, Next
    PROVE  HeldKnown'
<1>0. HeldKnown
  BY DEF Typed
<1>1. CASE UNCHANGED dialogs
  BY <1>0, <1>1 DEF dialogs, HeldKnown, DialogsTypeOK, Handlers
<1>2. ASSUME NEW i \in DOMAIN rows, AskRename(i) PROVE HeldKnown'
  <2>1. NodeOfRow(i) # None
    BY <1>2 DEF AskRename, Menu
  <2>2. PICK o \in Object : o = nodes[rows[i].at]
    BY <2>1, RowIsNode
  <2>3. OpenDialog("rename", [nodes |-> {o.id}, was |-> o.name, text |-> o.name])
    BY <1>2, <2>2 DEF AskRename
  <2>4. [nodes |-> {o.id}, was |-> o.name, text |-> o.name] \in Held
    BY DEF Object, Held
  <2>5. "rename" \in Modal /\ [nodes |-> {o.id}, was |-> o.name, text |-> o.name].nodes # {}
    BY DEF Modal
  <2>6. QED BY <1>0, <2>3, <2>4, <2>5, OpenTyped
<1>3. ASSUME NEW i \in DOMAIN rows, NEW rs \in SelectedRows(i), AskDelete(i, rs)
      PROVE  HeldKnown'
  <2>1. \A r \in rs : NodeOfRow(r) \in Nodes
    BY <1>3, RowIsNode DEF AskDelete, Menu, SelectedRows
  <2>2. PICK ns \in SUBSET Nodes : ns = {NodeOfRow(r) : r \in rs}
    BY <2>1
  <2>3. [Empty EXCEPT !.nodes = ns] \in Held
    BY DEF Empty, Held
  <2>4. OpenDialog("delete", [Empty EXCEPT !.nodes = ns])
    BY <1>3, <2>2 DEF AskDelete
  <2>5. "delete" \in Modal /\ "delete" # "rename"
    BY DEF Modal
  <2>6. QED BY <1>0, <2>3, <2>4, <2>5, OpenTyped
<1>4. ASSUME NEW m \in {"collection", "folder"}, AskNew(m) PROVE HeldKnown'
  <2>1. m \in Modal /\ m # "rename" /\ Empty \in Held /\ OpenDialog(m, Empty)
    BY <1>4 DEF AskNew, Modal, Empty, Held
  <2>2. QED BY <1>0, <2>1, OpenTyped
<1>5. ASSUME NEW m \in Modal, CancelDialog(m) PROVE HeldKnown'
  <2>1. /\ open' = open \ {m} /\ live' = live \ {m} /\ Forget({m})
        /\ busy' = busy /\ stale' = stale
    BY <1>5 DEF CancelDialog, Cancel
  <2>2. busy \in SUBSET Modal
    BY <1>0 DEF HeldKnown, DialogsTypeOK
  <2>3. QED BY <1>0, <2>1, <2>2, ClosedTyped
<1>6. ASSUME NEW m \in Modal, EscapeDialog(m) PROVE HeldKnown'
  <2>1. open' = open \ {m} /\ UNCHANGED <<busy, live, stale, held>>
    BY <1>6 DEF EscapeDialog, CloseByEscape
  <2>2. QED BY <1>0, <2>1 DEF HeldKnown, DialogsTypeOK, Handlers
<1>7. ASSUME NEW m \in Modal, NEW text \in Names, SubmitByClick(m, text) \/ SubmitByEnter(m, text)
      PROVE  HeldKnown'
  <2>1. PICK ms : (ms = {m} \/ ms = {x \in Modal : Handlers(x) > 0}) /\ Submit(ms, m, text)
    BY <1>7 DEF SubmitByClick, SubmitByEnter, Submitting
  <2>2. ms \in SUBSET Modal
    BY <2>1
  <2>3. QED BY <1>0, <2>1, <2>2, SubmitTyped
<1>8. ASSUME NEW i \in DOMAIN calls, AnswerCreate(i) \/ AnswerRename(i) \/ AnswerDelete(i)
      PROVE  HeldKnown'
  <2>1. PICK m, ok : Respond(m, ok)
    BY <1>8 DEF AnswerCreate, AnswerRename, AnswerDelete
  <2>2. QED BY <1>0, <2>1, RespondTyped
<1>9. DialogsChange \/ UNCHANGED dialogs
  BY WhoChanges DEF WhoStatement
<1>10. QED BY <1>1, <1>2, <1>3, <1>4, <1>5, <1>6, <1>7, <1>8, <1>9 DEF DialogsChange

Pops == [open : BOOLEAN, home : Nodes \cup {None}, chosen : SUBSET Nodes,
         cells : SUBSET Names, names : SUBSET Names, at : Nodes \cup {None},
         listed : SUBSET Nodes, dest : Nodes \cup {None}, fresh : BOOLEAN,
         same : BOOLEAN]

(* The folders of a page are nodes.                                         *)
LEMMA FoldersTyped ==
    ASSUME NEW objects \in Seq(Object)
    PROVE  Folders(objects) \in SUBSET Nodes
<1>1. \A o \in Range(objects) : o \in Object
  BY DEF Range
<1>2. QED BY <1>1 DEF Folders, Object

(* The popover keeps its type.                                              *)
LEMMA PopStep ==
    ASSUME Typed, Next
    PROVE  PopKnown'
<1>0. pop \in Pops /\ Org \notin pop.chosen
  BY DEF Typed, PopKnown, PopTypeOK, Pops
<1> DEFINE Fine(p) == p \in Pops /\ Org \notin p.chosen
<1>1. SUFFICES Fine(pop')
  BY DEF PopKnown, PopTypeOK, Pops
<1>2. Fine(Closed)
  BY DEF Closed, Pops
<1>3. ASSUME NEW i \in DOMAIN rows, NEW rs \in SelectedRows(i), AskMove(i, rs)
      PROVE  Fine(pop')
  <2>1. \A r \in rs : NodeOfRow(r) \in Nodes \ {Org} /\ rows[r].name \in Names
    BY <1>3, RowIsNode DEF AskMove, Menu, SelectedRows
  <2>2. PICK ns \in SUBSET (Nodes \ {Org}) : ns = {NodeOfRow(r) : r \in rs}
    BY <2>1
  <2>3. PICK nms \in SUBSET Names : nms = {rows[r].name : r \in rs}
    BY <2>1
  <2>4. PICK h \in Nodes \cup {None} : h = parent[NodeOfRow(i)]
    <3>1. i \in rs
      BY DEF SelectedRows
    <3>2. NodeOfRow(i) \in Nodes
      BY <2>1, <3>1
    <3>3. QED BY <3>2 DEF Typed, ApiKnown, ApiTypeOK
  <2>5. PICK l \in SUBSET Nodes : l = Folders(nodes)
    BY FoldersTyped DEF Typed, ListKnown, ListTypeOK
  <2>6. pop' = [open |-> TRUE, home |-> h, chosen |-> ns, cells |-> nms, names |-> nms,
                at |-> h, listed |-> l, dest |-> None, fresh |-> TRUE, same |-> TRUE]
    BY <1>3, <2>2, <2>3, <2>4, <2>5 DEF AskMove, OpenMove
  <2>7. QED BY <2>6 DEF Pops
<1>4. ASSUME NEW d \in Nodes, PickFolder(d) PROVE Fine(pop')
  <2>1. pop' = [pop EXCEPT !.dest = d]
    BY <1>4 DEF PickFolder, Pick
  <2>2. QED BY <1>0, <2>1 DEF Pops
<1>5. CASE ClosePopover
  BY <1>2, <1>5 DEF ClosePopover, CloseMove
<1>6. CASE LoseTable
  BY <1>0, <1>6 DEF LoseTable, Pops
<1>7. ASSUME NEW i \in DOMAIN calls, AnswerListing(i) PROVE Fine(pop')
  <2>1. PICK d \in Nodes : d = calls[i].node
    BY <1>7 DEF Typed, CallsKnown, CallOK, AnswerListing
  <2>2. PICK l \in SUBSET Nodes : l = Folders(Page(d, 0).results)
    <3>1. Page(d, 0).results \in Seq(Object)
      BY PageTyped DEF Typed, ApiKnown
    <3>2. QED BY <3>1, FoldersTyped
  <2>3. \/ pop' = pop
        \/ pop' = [pop EXCEPT !.at = d, !.listed = l, !.dest = None, !.names = pop.cells,
                              !.fresh = TRUE]
    BY <1>7, <2>1, <2>2 DEF AnswerListing, ShowListing
  <2>4. [pop EXCEPT !.at = d, !.listed = l, !.dest = None, !.names = pop.cells,
                    !.fresh = TRUE] \in Pops
    BY <1>0 DEF Pops
  <2>5. Fine([pop EXCEPT !.at = d, !.listed = l, !.dest = None, !.names = pop.cells,
                         !.fresh = TRUE])
    BY <1>0, <2>4 DEF Pops
  <2>6. QED BY <1>0, <2>3, <2>5
<1>8. ASSUME NEW i \in DOMAIN calls, AnswerMove(i) PROVE Fine(pop')
  <2>1. PICK failed : pop' = IF failed = {} THEN Closed
                             ELSE [pop EXCEPT !.chosen = pop.chosen \ failed,
                                              !.names = pop.names \ {name[n] : n \in failed}]
    BY <1>8 DEF AnswerMove, Moved
  <2>2. PICK x : x = {name[n] : n \in failed}
    OBVIOUS
  <2>3. Fine([pop EXCEPT !.chosen = pop.chosen \ failed, !.names = pop.names \ x])
    BY <1>0 DEF Pops
  <2>4. QED BY <1>2, <2>1, <2>2, <2>3
<1>9. PopChanges \/ UNCHANGED pop
  BY WhoChanges DEF WhoStatement
<1>10. ASSUME NEW i \in DOMAIN calls, AnswerList(i) \/ AnswerDelete(i) PROVE LoseTable
  BY <1>10 DEF AnswerList, AnswerDelete
<1> HIDE DEF Fine
<1>11. CASE UNCHANGED pop
  BY <1>0, <1>11 DEF Fine
<1>12. QED BY <1>3, <1>4, <1>5, <1>6, <1>7, <1>8, <1>9, <1>10, <1>11 DEF PopChanges

(* An item gets items below it.                                             *)
LEMMA GrownTyped ==
    ASSUME ApiTypeOK, NEW t \in Trees, NEW d, NEW n, NEW objects \in Seq(Object)
    PROVE  Grown(t, d, n, objects) \in Trees
<1>1. PICK D \in SUBSET Nodes : t \in [D -> Path]
  BY DEF Trees
<1>2. ASSUME NEW ns \in SUBSET Nodes, d \in D PROVE WithItems(t, d, ns) \in Trees
  <2> DEFINE g == [c \in D \cup ns |-> IF c \in D THEN t[c]
                    ELSE IF Kind[c] = "COLLECTION" THEN <<c>> ELSE Append(t[d], c)]
  <2>1. DOMAIN t = D
    BY <1>1
  <2>2. ASSUME NEW c \in D \cup ns PROVE g[c] \in Path
    <3>1. c \in Nodes /\ t[d] \in Path /\ (c \in D => t[c] \in Path)
      BY <1>1, <1>2
    <3>2. <<c>> \in Path /\ Append(t[d], c) \in Path
      BY <3>1 DEF Path
    <3>3. QED BY <3>1, <3>2
  <2>3. g \in [D \cup ns -> Path]
    BY <2>2
  <2>4. D \cup ns \in SUBSET Nodes
    OBVIOUS
  <2>5. g \in Trees
    BY <2>3, <2>4 DEF Trees
  <2>6. WithItems(t, d, ns) = g
    BY <2>1 DEF WithItems
  <2>7. QED BY <2>5, <2>6
<1>3. Folders(objects) \in SUBSET Nodes
  BY FoldersTyped
<1>4. {c \in Nodes \ {Org} : Exists(c) /\ parent[c] = d /\ Kind[c] # "FILE"} \in SUBSET Nodes
  OBVIOUS
<1>5. d \in DOMAIN t <=> d \in D
  BY <1>1
<1>6. CASE d \notin D
  BY <1>5, <1>6 DEF Grown
<1>7. CASE d \in D /\ d = n
  BY <1>2, <1>3, <1>5, <1>7 DEF Grown
<1>8. CASE d \in D /\ d # n
  BY <1>2, <1>4, <1>5, <1>8 DEF Grown
<1>9. QED BY <1>6, <1>7, <1>8

(* Items are removed.                                                       *)
LEMMA WithoutTyped ==
    ASSUME tree \in Trees, NEW ns
    PROVE  Without(ns) \in Trees /\ DOMAIN Without(ns) = DOMAIN tree \ ns
<1>1. PICK D \in SUBSET Nodes : tree \in [D -> Path]
  BY DEF Trees
<1>2. Without(ns) \in [D \ ns -> Path]
  BY <1>1 DEF Without
<1>3. D \ ns \in SUBSET Nodes
  OBVIOUS
<1>4. QED BY <1>1, <1>2, <1>3 DEF Trees, Without

(* The way from the organization down to n, as TreeShowing takes it.        *)
LEMMA WayIs ==
    ASSUME ApiKnown, NEW n \in Nodes
    PROVE  /\ <<Org>> \o PathOf[n] \in Seq(Nodes)
           /\ Len(<<Org>> \o PathOf[n]) \in Nat
           /\ DOMAIN (<<Org>> \o PathOf[n]) = 1..Len(<<Org>> \o PathOf[n])
<1>1. PICK p \in Seq(Nodes \ {Org}) : p = PathOf[n]
  BY PathOfIs, PathsAre DEF ApiKnown, ApiTypeOK
<1>2. p \in Seq(Nodes) /\ <<Org>> \in Seq(Nodes)
  BY NodesAssumption
<1>3. <<Org>> \o p \in Seq(Nodes)
  BY <1>2, ConcatProperties
<1>4. QED BY <1>1, <1>3

(* The navigator keeps its type.                                            *)
LEMMA TreeStep ==
    ASSUME Typed, Next
    PROVE  tree' \in Trees
<1>0. tree \in Trees /\ ApiKnown /\ ApiTypeOK
  BY DEF Typed, ApiKnown
<1>1. ASSUME NEW n \in DOMAIN tree, TreeExpand(n) PROVE tree' \in Trees
  BY <1>0, <1>1, WithoutTyped DEF TreeExpand
<1>2. ASSUME NEW i \in DOMAIN calls, AnswerList(i) PROVE tree' \in Trees
  <2>1. PICK n \in Nodes : n = calls[i].node
    BY <1>2 DEF Typed, CallsKnown, CallOK, AnswerList
  <2>2. PICK objects \in Seq(Object) : objects = Page(n, 0).results
    BY <1>0, PageTyped
  <2>3. tree' = TreeShowing(n, objects)
    BY <1>2, <2>1, <2>2 DEF AnswerList
  <2>4. CASE n \in DOMAIN tree
    BY <1>0, <2>3, <2>4, GrownTyped DEF TreeShowing
  <2>5. CASE n \notin DOMAIN tree
    <3> DEFINE z == <<Org>> \o PathOf[n]
    <3>1. Len(z) \in Nat /\ DOMAIN z = 1..Len(z)
      BY <1>0, WayIs
    <3> HIDE DEF z
    <3>2. PICK l \in Nat : DOMAIN z = 1..l
      BY <3>1
    <3>3. \A t \in Trees, j \in 1..l : Grown(t, z[j], n, objects) \in Trees
      BY <1>0, GrownTyped
    <3>4. tree \in Trees
      BY <1>0
    <3>5. WayGrown(n, objects, z) \in Trees
      BY <3>2, <3>3, <3>4, GrowingKeeps
    <3>6. TreeShowing(n, objects) = WayGrown(n, objects, z)
      BY <2>5 DEF TreeShowing, WayGrown, z
    <3>7. QED BY <2>3, <3>5, <3>6
  <2>6. QED BY <2>4, <2>5
<1>3. ASSUME NEW i \in DOMAIN calls, AnswerChildren(i) PROVE tree' \in Trees
  <2>1. PICK d \in Nodes : d = calls[i].node
    BY <1>3 DEF Typed, CallsKnown, CallOK, AnswerChildren
  <2>2. PICK objects \in Seq(Object) : objects = Page(d, 0).results
    BY <1>0, PageTyped
  <2>3. tree' = TreeListing(d, objects)
    BY <1>3, <2>1, <2>2 DEF AnswerChildren
  <2>4. CASE d \notin DOMAIN tree \/ objects = <<>>
    BY <1>0, <2>3, <2>4 DEF TreeListing
  <2>5. CASE ~ (d \notin DOMAIN tree \/ objects = <<>>)
    <3> DEFINE base == IF d = Org THEN <<None>> ELSE tree[d]
               kept == Without(Below(d) \ {d})
               ns == Folders(objects)
               g == [c \in DOMAIN kept \cup ns |-> IF c \in ns THEN Append(base, c) ELSE kept[c]]
    <3>1. tree' = g
      BY <2>3, <2>5 DEF TreeListing
    <3>2a. tree \in Trees
      BY <1>0
    <3>2b. kept \in Trees
      BY <3>2a, WithoutTyped
    <3> HIDE DEF kept
    <3>2. PICK D \in SUBSET Nodes : kept \in [D -> Path]
      BY <3>2b DEF Trees
    <3>3. base \in Path
      <4>1. tree[d] \in Path
        BY <1>0, <2>5 DEF Trees
      <4>2. <<None>> \in Path
        BY DEF Path
      <4>3. QED BY <4>1, <4>2
    <3>4. ns \in SUBSET Nodes
      BY FoldersTyped
    <3> HIDE DEF base, ns
    <3>5. g \in [D \cup ns -> Path]
      <4>1. \A c \in ns : Append(base, c) \in Path
        BY <3>3, <3>4 DEF Path
      <4>2. QED BY <3>2, <4>1
    <3>6. D \cup ns \in SUBSET Nodes
      BY <3>4
    <3>7. QED BY <3>1, <3>5, <3>6 DEF Trees
  <2>6. QED BY <2>4, <2>5
<1>4. ASSUME NEW i \in DOMAIN calls, AnswerMove(i) PROVE tree' \in Trees
  <2>1. CASE UNCHANGED tree
    BY <1>0, <2>1
  <2>2. CASE \E ns : tree' = TreeMoving(ns \cap DOMAIN tree, calls[i].node)
    <3>1. PICK ns, d : tree' = TreeMoving(ns \cap DOMAIN tree, d)
      BY <2>2
    <3>2. CASE d \notin DOMAIN tree
      BY <1>0, <3>1, <3>2, WithoutTyped DEF TreeMoving
    <3>3. CASE d \in DOMAIN tree
      <4>1. PICK D \in SUBSET Nodes : tree \in [D -> Path] /\ DOMAIN tree = D
        BY <1>0 DEF Trees
      <4>2. tree' = [c \in D |-> IF c \in ns THEN Append(tree[d], c) ELSE tree[c]]
        BY <3>1, <3>3, <4>1 DEF TreeMoving
      <4>3. \A c \in D : Append(tree[d], c) \in Path
        BY <3>3, <4>1 DEF Path
      <4>4. tree' \in [D -> Path]
        BY <4>1, <4>2, <4>3
      <4>5. QED BY <4>4 DEF Trees
    <3>4. QED BY <3>2, <3>3
  <2>3. QED BY <1>4, <2>1, <2>2 DEF AnswerMove
<1>5. TreeChanges \/ UNCHANGED tree
  BY WhoChanges DEF WhoStatement
<1>6. QED BY <1>0, <1>1, <1>2, <1>3, <1>4, <1>5 DEF TreeChanges

-----------------------------------------------------------------------------
(* What the steps of the user and the answers send.                         *)

(* What comes with the requests cs is in order.                             *)
LEMMA AllOK ==
    ASSUME CallsKnown, NEW cs, NEW t, NEW i, Continues(cs, t, i),
           \A m \in DOMAIN t : CallOK(t[m])
    PROVE  cs \in Seq(Call) /\ \A j \in DOMAIN cs : CallOK(cs[j])
<1>1. PICK f : Traced(f, cs, t, i)
  BY DEF Continues
<1>2. cs \in Seq(Call)
  BY DEF Continues
<1>3. ASSUME NEW c \in Call, NEW d \in Call, Alike(c, d), CallOK(d) PROVE CallOK(c)
  <2>1. c.op = d.op /\ c.node = d.node /\ c.nodes = d.nodes
    BY <1>3 DEF Alike, Call
  <2>2. QED BY <1>3, <2>1 DEF CallOK
<1>4. ASSUME NEW j \in DOMAIN cs PROVE CallOK(cs[j])
  <2>1. CASE f[j] \in DOMAIN calls \ {i} /\ Alike(cs[j], calls[f[j]])
    <3>1. cs[j] \in Call /\ calls[f[j]] \in Call /\ CallOK(calls[f[j]])
      BY <1>2, <2>1 DEF CallsKnown
    <3>2. QED BY <1>3, <2>1, <3>1
  <2>2. CASE \E m \in DOMAIN t : f[j] = -m /\ cs[j] = t[m]
    BY <2>2
  <2>3. QED BY <1>1, <2>1, <2>2 DEF Traced
<1>5. QED BY <1>2, <1>4

(* A request is one.                                                        *)
LEMMA AskTyped ==
    ASSUME NEW op \in Op, NEW n \in Nodes \cup {None}
    PROVE  Ask(op, n) \in Call
BY DEF Ask, Call, Path

(* Requests that are sent: none before the page is ready.                   *)
LEMMA Sent ==
    ASSUME calls \in Seq(Call), NEW cs \in Seq(Call), Send(cs)
    PROVE  \/ ~ready /\ calls' = calls /\ Continues(calls', <<>>, 0)
           \/ ready /\ Continues(calls', cs, 0)
<1>1. Continues(calls, <<>>, 0)
  BY Unanswered
<1>2. Continues(calls \o cs, <<>> \o cs, 0)
  BY <1>1, MoreAsked
<1>3. <<>> \o cs = cs
  OBVIOUS
<1>4. QED BY <1>1, <1>2, <1>3 DEF Send

(* The request of a change of directory, but for what comes from others.    *)
Going1(t, id, n, p, push) ==
    \/ /\ t = <<>>
       /\ astray'
    \/ /\ \E c \in Call : /\ t = <<c>>
                          /\ c.op = IF n # None THEN "list" ELSE "node"
                          /\ c.node = (IF n # None THEN n ELSE id) /\ c.node \in Nodes
                          /\ c.path = p /\ c.push = push
       /\ astray' = astray

(* It is one, or none.                                                      *)
LEMMA GoingTyped ==
    ASSUME NEW t, NEW id, NEW n, NEW p, NEW push, Going1(t, id, n, p, push)
    PROVE  t \in Seq(Call) /\ <<>> \o t = t
<1>1. t \in Seq(Call)
  <2>1. CASE t = <<>>
    BY <2>1
  <2>2. CASE \E c \in Call : t = <<c>>
    BY <2>2
  <2>3. QED BY <2>1, <2>2 DEF Going1
<1>2. QED BY <1>1

(* What CHANGE_DIRECTORY_REQUEST sends.                                     *)
LEMMA Changed ==
    ASSUME calls \in Seq(Call), astray \in BOOLEAN, NEW others, NEW u, NEW i,
           Continues(others, u, i),
           NEW up, NEW id \in Nodes \cup {None}, NEW n \in Nodes \cup {None},
           NEW p \in Path, NEW push \in BOOLEAN, ChangeWhen(up, others, id, n, p, push)
    PROVE  /\ \E t : Continues(calls', u \o t, i) /\ Going1(t, id, n, p, push) /\ (up /\ n # None => t # <<>>)
           /\ here' = [node |-> n, path |-> p]
           /\ astray' \in BOOLEAN
<1> DEFINE call == [Ask(IF n # None THEN "list" ELSE "node",
                        IF n # None THEN n ELSE id) EXCEPT !.path = p, !.push = push]
           fails == ~up \/ call.node = None
<1>1. /\ here' = [node |-> n, path |-> p]
      /\ calls' = IF fails THEN others ELSE Append(others, call)
      /\ astray' = (astray \/ fails)
  BY DEF ChangeWhen
<1>2. PICK a \in Call : a = Ask(IF n # None THEN "list" ELSE "node", IF n # None THEN n ELSE id)
  <2>1. (IF n # None THEN "list" ELSE "node") \in Op
    BY DEF Op
  <2>2. QED BY <2>1, AskTyped
<1>3. a.op = (IF n # None THEN "list" ELSE "node") /\ a.node = (IF n # None THEN n ELSE id)
  BY <1>2 DEF Ask
<1>4. /\ call = [a EXCEPT !.path = p, !.push = push]
      /\ call \in Call /\ call.op = a.op /\ call.node = a.node
      /\ call.path = p /\ call.push = push
  BY <1>2 DEF Call
<1> HIDE DEF call
<1>5. u \in Seq(Call) /\ others \in Seq(Call)
  BY DEF Continues
<1>6. CASE fails
  <2>1. u \o <<>> = u
    BY <1>5
  <2>2. calls' = others /\ astray' = TRUE
    BY <1>1, <1>6
  <2>3. ~ (up /\ n # None)
    BY <1>3, <1>4, <1>6
  <2>4. Continues(calls', u \o <<>>, i)
    BY <2>1, <2>2
  <2>5. Going1(<<>>, id, n, p, push)
    BY <2>2 DEF Going1
  <2>6. QED BY <1>1, <2>2, <2>3, <2>4, <2>5
<1>7. CASE ~fails
  <2>1. <<call>> \in Seq(Call) /\ calls' = others \o <<call>>
    BY <1>1, <1>4, <1>5, <1>7
  <2>2. Continues(calls', u \o <<call>>, i)
    BY <2>1, MoreAsked
  <2>3. call.node \in Nodes /\ astray' = astray
    BY <1>1, <1>3, <1>4, <1>7
  <2>4. Going1(<<call>>, id, n, p, push)
    BY <1>3, <1>4, <2>3 DEF Going1
  <2>5. <<call>> # <<>>
    OBVIOUS
  <2>6. QED BY <1>1, <2>2, <2>3, <2>4, <2>5
<1>8. QED BY <1>6, <1>7

NavAsks ==
    \/ ApiReady
    \/ \E i \in DOMAIN rows : OpenRow(i)
    \/ \E k \in 0..Len(view.path) : Crumb(k)
    \/ \E n \in DOMAIN tree : TreeClick(n)
    \/ \E j \in {past.at - 1, past.at + 1} \cap DOMAIN past.entries : j > 1 /\ GoTo(j)

(* A change of directory that is asked for: of what is next in the browser's *)
(* history, or of a place that will be there.                               *)
NavAsking(t, id, n, p, push) ==
    /\ id \in Nodes \cup {None} /\ n \in Nodes \cup {None} /\ p \in Path /\ push \in BOOLEAN
    /\ Continues(calls', t, 0) /\ Going1(t, id, n, p, push)
    /\ here' = [node |-> n, path |-> p] /\ astray' \in BOOLEAN
    /\ \/ push /\ past' = past
       \/ /\ ~push /\ n \in Nodes
          /\ past'.entries = past.entries /\ past'.at \in DOMAIN past.entries /\ past'.at > 1
          /\ past.entries[past'.at] = [node |-> n, path |-> p]

(* What the user, the history and the start of the page ask for.            *)
LEMMA NavAsked ==
    ASSUME Typed, NavAsks
    PROVE  \E t, id, n, p, push : NavAsking(t, id, n, p, push)
<1>1. /\ calls \in Seq(Call) /\ astray \in BOOLEAN /\ here \in Place /\ view \in Place
      /\ past \in [entries : Seq(Place), at : Nat] /\ view.node \in Nodes /\ ApiKnown /\ tree \in Trees
      /\ \A j \in DOMAIN past.entries : past.entries[j].node \in Nodes
  BY DEF Typed, CallsKnown, CountsKnown, ViewKnown
<1>2. Continues(calls, <<>>, 0)
  BY <1>1, Unanswered
<1>3. ASSUME NEW up, NEW id \in Nodes \cup {None}, NEW n \in Nodes \cup {None},
             NEW p \in Path, ChangeWhen(up, calls, id, n, p, TRUE), past' = past
      PROVE  \E t : NavAsking(t, id, n, p, TRUE)
  <2>1. PICK t : Continues(calls', <<>> \o t, 0) /\ Going1(t, id, n, p, TRUE)
    BY <1>1, <1>2, <1>3, Changed
  <2>2. here' = [node |-> n, path |-> p] /\ astray' \in BOOLEAN
    BY <1>1, <1>2, <1>3, Changed
  <2>4. <<>> \o t = t
    BY <2>1, GoingTyped
  <2>5. QED BY <1>3, <2>1, <2>2, <2>4 DEF NavAsking
<1>4. CASE ApiReady
  <2>1. here.node \in Nodes \cup {None} /\ here.path \in Path
    BY <1>1 DEF Place
  <2>2. ChangeWhen(TRUE, calls, None, here.node, here.path, TRUE) /\ past' = past
    BY <1>4 DEF ApiReady
  <2>3. QED BY <1>3, <2>1, <2>2
<1>5. ASSUME NEW i \in DOMAIN rows, OpenRow(i)
      PROVE  \E t, id, n, p, push : NavAsking(t, id, n, p, push)
  <2>1. PICK n \in Nodes : n = NodeOfRow(i)
    BY <1>5, RowIsNode DEF OpenRow
  <2>1a. PICK v \in Seq(Nodes \cup {None}) : v = view.path
    BY <1>1 DEF Place, Path
  <2>1b. Append(v, n) \in Seq(Nodes \cup {None})
    BY <2>1
  <2>2. PICK p \in Path : p = Append(view.path, n)
    BY <2>1a, <2>1b DEF Path
  <2>3. ChangeWhen(ready, calls, None, n, p, TRUE) /\ past' = past
    BY <1>5, <2>1, <2>2 DEF OpenRow, Change, Going
  <2>4. QED BY <1>3, <2>3
<1>6. ASSUME NEW k \in 0..Len(view.path), Crumb(k)
      PROVE  \E t, id, n, p, push : NavAsking(t, id, n, p, push)
  <2> DEFINE ids == <<Org>> \o PathOf[view.node]
  <2>1. ids \in Seq(Nodes)
    BY <1>1, WayIs
  <2>2. PICK x : x = IF k + 1 \in DOMAIN ids THEN ids[k + 1] ELSE Org
    OBVIOUS
  <2>3. PICK p : p = SubSeq(view.path, 1, k)
    OBVIOUS
  <2>4. ChangeWhen(ready, calls, x, None, p, TRUE) /\ past' = past
    BY <1>6, <2>2, <2>3 DEF Crumb, Change, Going
  <2> HIDE DEF ids
  <2>5. x \in Nodes
    BY <2>1, <2>2, NodesAssumption
  <2>6. p \in Path
    <3>1. PICK v \in Path : v = view.path
      BY <1>1 DEF Place
    <3>2. k \in Int /\ k <= Len(v) /\ v \in Seq(Nodes \cup {None})
      BY <3>1 DEF Path
    <3>3. SubSeq(v, 1, k) \in Seq(Nodes \cup {None})
      BY <3>2
    <3>4. QED BY <2>3, <3>1, <3>3 DEF Path
  <2>7. QED BY <1>3, <2>4, <2>5, <2>6
<1>7. ASSUME NEW n \in DOMAIN tree, TreeClick(n)
      PROVE  \E t, id, m, p, push : NavAsking(t, id, m, p, push)
  <2>1. n \in Nodes /\ tree[n] \in Path
    BY <1>1 DEF Trees
  <2>2. ChangeWhen(ready, calls, n, None, tree[n], TRUE) /\ past' = past
    BY <1>7 DEF TreeClick, Change, Going
  <2>3. QED BY <1>3, <2>1, <2>2
<1>8. ASSUME NEW j \in DOMAIN past.entries, j > 1, GoTo(j)
      PROVE  \E t, id, n, p, push : NavAsking(t, id, n, p, push)
  <2>1. PICK e \in Place : e = past.entries[j]
    BY <1>1
  <2>2. e.node \in Nodes /\ e.path \in Path /\ e = [node |-> e.node, path |-> e.path]
    BY <1>1, <2>1 DEF Place
  <2>2a. j # 1
    BY <1>1, <1>8
  <2>3. ChangeWhen(ready, calls, None, e.node, e.path, FALSE)
    BY <1>8, <2>1, <2>2a DEF GoTo, Change
  <2>4. past'.entries = past.entries /\ past'.at = j
    <3>1. past' = [past EXCEPT !.at = j]
      BY <1>8 DEF GoTo
    <3>2. QED BY <1>1, <3>1
  <2>5. PICK t : Continues(calls', <<>> \o t, 0) /\ Going1(t, None, e.node, e.path, FALSE)
    BY <1>1, <1>2, <2>2, <2>3, Changed
  <2>6. here' = [node |-> e.node, path |-> e.path] /\ astray' \in BOOLEAN
    BY <1>1, <1>2, <2>2, <2>3, Changed
  <2>8. <<>> \o t = t
    BY <2>5, GoingTyped
  <2>9. NavAsking(t, None, e.node, e.path, FALSE)
    BY <1>8, <2>1, <2>2, <2>4, <2>5, <2>6, <2>8 DEF NavAsking
  <2>10. QED BY <2>9
<1>9. QED BY <1>4, <1>5, <1>6, <1>7, <1>8 DEF NavAsks

OtherAsks ==
    \/ \E n \in DOMAIN tree : TreeExpand(n)
    \/ LoadMore \/ MoveHere
    \/ \E d \in Nodes : ListFolder(d)

(* What is sent for the table, the navigator and the popover.               *)
OtherAsking(c) ==
    /\ c.op \in {"children", "more", "listing", "move"} /\ CallOK(c)
    /\ c.op \in {"children", "more"} => Free
    /\ c.op = "more" => c.node = next.of /\ c.from = next.from /\ next.from > 0
    /\ c.op = "move" => c.nodes = pop.chosen /\ c.names = pop.names /\ pop.open
    /\ Send(<<c>>)

(* The page has one such request for each of these steps.                   *)
LEMMA OtherAsked ==
    ASSUME Typed, OtherAsks
    PROVE  \E c \in Call : OtherAsking(c)
<1>1. /\ tree \in Trees /\ next \in [of : Nodes, from : Nat]
      /\ pop \in Pops /\ Org \notin pop.chosen
  BY DEF Typed, ListKnown, ListTypeOK, PopKnown, PopTypeOK, Pops
<1>2. {"children", "more", "listing", "move"} \subseteq Op
  BY DEF Op
<1>3. ASSUME NEW op \in {"children", "more", "listing", "move"}, NEW n \in Nodes
      PROVE  /\ Ask(op, n) \in Call /\ Ask(op, n).op = op /\ Ask(op, n).node = n
             /\ Ask(op, n).nodes = {}
  BY <1>2, AskTyped DEF Ask
<1>4. ASSUME NEW n \in DOMAIN tree, TreeExpand(n)
      PROVE  \E c \in Call : OtherAsking(c)
  <2>1. n \in Nodes
    BY <1>1 DEF Trees
  <2>2. PICK c \in Call : c = Ask("children", n) /\ c.op = "children" /\ c.node \in Nodes
    BY <1>3, <2>1
  <2>3. Free /\ Send(<<c>>)
    BY <1>4, <2>2 DEF TreeExpand
  <2>4. OtherAsking(c)
    BY <2>2, <2>3 DEF OtherAsking, CallOK
  <2>5. QED BY <2>4
<1>5. ASSUME NEW d \in Nodes, ListFolder(d)
      PROVE  \E c \in Call : OtherAsking(c)
  <2>1. PICK c \in Call : c = Ask("listing", d) /\ c.op = "listing" /\ c.node \in Nodes
    BY <1>3
  <2>2. Send(<<c>>)
    BY <1>5, <2>1 DEF ListFolder
  <2>3. OtherAsking(c)
    BY <2>1, <2>2 DEF OtherAsking, CallOK
  <2>4. QED BY <2>3
<1>6. CASE LoadMore
  <2>1. PICK a \in Call : a = Ask("more", next.of) /\ a.op = "more" /\ a.node \in Nodes /\ a.node = next.of
    BY <1>1, <1>3
  <2>2. PICK k \in Nat : k = next.from
    BY <1>1
  <2>3. PICK c \in Call : c = [a EXCEPT !.from = k, !.fresh = TRUE]
    BY DEF Call
  <2>4. c.op = "more" /\ c.node \in Nodes /\ c.node = next.of /\ c.from = k
    BY <2>1, <2>3 DEF Call
  <2>5. Send(<<c>>) /\ Free /\ next.from > 0
    BY <1>6, <2>1, <2>2, <2>3 DEF LoadMore
  <2>6. OtherAsking(c)
    BY <2>2, <2>4, <2>5 DEF OtherAsking, CallOK
  <2>7. QED BY <2>6
<1>7. CASE MoveHere
  <2>1. pop.dest \in Nodes /\ pop.open
    BY <1>1, <1>7 DEF MoveHere, MayMoveHere, Pops
  <2>2. PICK a \in Call : a = Ask("move", pop.dest) /\ a.op = "move" /\ a.node \in Nodes
    BY <1>3, <2>1
  <2>3. PICK c : c = [a EXCEPT !.nodes = pop.chosen, !.names = pop.names,
                               !.fresh = pop.fresh, !.same = pop.same]
    OBVIOUS
  <2>4. c \in Call /\ c.op = "move" /\ c.node \in Nodes /\ c.nodes = pop.chosen /\ c.names = pop.names
    BY <1>1, <2>2, <2>3 DEF Call, Pops
  <2>5. Send(<<c>>)
    BY <1>7, <2>2, <2>3 DEF MoveHere
  <2>6. OtherAsking(c)
    BY <1>1, <2>1, <2>4, <2>5 DEF OtherAsking, CallOK
  <2>7. QED BY <2>4, <2>6
<1>8. QED BY <1>4, <1>5, <1>6, <1>7 DEF OtherAsks

-----------------------------------------------------------------------------
(* A new folder goes to the directory that is shown, and what is renamed or *)
(* deleted is what the dialog holds.                                        *)
AskedOK(c) ==
    /\ CallOK(c)
    /\ c.op = "folder" => c.node = view.node
    /\ c.op \in Modal => c.nodes = held[c.op].nodes /\ c.was = held[c.op].was

(* The requests of the dialogs xs: N[x] of each x.                          *)
Made(t, N, xs) ==
    /\ t \in Seq(Call)
    /\ \A k \in DOMAIN t : t[k].op \in xs /\ N[t[k].op] > 0 /\ AskedOK(t[k])
    /\ \A k, l \in DOMAIN t : k # l /\ t[k].op = t[l].op => N[t[k].op] > 1
    /\ \A x \in xs : N[x] > 0 => \E k \in DOMAIN t : t[k].op = x

(* Those of one dialog after those of others.                               *)
LEMMA MadeTogether ==
    ASSUME NEW N, NEW t, NEW xs, Made(t, N, xs), NEW u, NEW ys, Made(u, N, ys),
           xs \cap ys = {}
    PROVE  Made(t \o u, N, xs \cup ys)
<1>1. t \in Seq(Call) /\ u \in Seq(Call)
  BY DEF Made
<1>2. PICK l \in Nat : l = Len(t) /\ DOMAIN t = 1..l
  BY <1>1
<1>3. PICK q \in Nat : q = Len(u) /\ DOMAIN u = 1..q
  BY <1>1
<1> DEFINE v == t \o u
<1>4. v \in Seq(Call) /\ DOMAIN v = 1..(l + q)
      /\ \A j \in 1..(l + q) : v[j] = IF j <= l THEN t[j] ELSE u[j - l]
  <2>1. v \in Seq(Call) /\ Len(v) = Len(t) + Len(u)
    BY <1>1, ConcatProperties
  <2>2. \A j \in 1..(Len(t) + Len(u)) : v[j] = IF j <= Len(t) THEN t[j] ELSE u[j - Len(t)]
    BY <1>1, ConcatProperties
  <2> HIDE DEF v
  <2>3. Len(v) = l + q /\ DOMAIN v = 1..Len(v)
    BY <1>2, <1>3, <2>1
  <2>4. \A j \in 1..(l + q) : v[j] = IF j <= l THEN t[j] ELSE u[j - l]
    BY <1>2, <1>3, <2>2
  <2>5. QED BY <2>1, <2>3, <2>4
<1> HIDE DEF v
<1>5. /\ \A j \in 1..l : j \in 1..(l + q) /\ v[j] = t[j]
      /\ \A j \in 1..q : l + j \in 1..(l + q) /\ v[l + j] = u[j]
  BY <1>4
<1>6. \A j \in 1..(l + q) : j \in 1..l \/ \E i \in 1..q : j = l + i
  <2>1. TAKE j \in 1..(l + q)
  <2>2. j \in 1..l \/ (j - l \in 1..q /\ j = l + (j - l))
    OBVIOUS
  <2>3. QED BY <2>2
<1>7. /\ \A k \in 1..l : t[k].op \in xs /\ N[t[k].op] > 0 /\ AskedOK(t[k])
      /\ \A k \in 1..q : u[k].op \in ys /\ N[u[k].op] > 0 /\ AskedOK(u[k])
  BY <1>2, <1>3 DEF Made
<1>8. \A k \in 1..(l + q) : v[k].op \in xs \cup ys /\ N[v[k].op] > 0 /\ AskedOK(v[k])
  BY <1>5, <1>6, <1>7, Zenon
<1>9. ASSUME NEW j \in 1..(l + q), NEW k \in 1..(l + q), j # k, v[j].op = v[k].op
      PROVE  N[v[j].op] > 1
  <2>1. \A a, b \in 1..l : a # b /\ t[a].op = t[b].op => N[t[a].op] > 1
    BY <1>2 DEF Made
  <2>2. \A a, b \in 1..q : a # b /\ u[a].op = u[b].op => N[u[a].op] > 1
    BY <1>3 DEF Made
  <2>3. CASE j \in 1..l /\ k \in 1..l
    BY <1>5, <1>9, <2>1, <2>3, Zenon
  <2>4. CASE j \in 1..l /\ k \notin 1..l
    <3>1. v[j].op \in xs
      BY <1>5, <1>7, <2>4
    <3>2. v[k].op \in ys
      BY <1>5, <1>6, <1>7, <2>4
    <3>3. QED BY <1>9, <3>1, <3>2
  <2>5. CASE j \notin 1..l /\ k \in 1..l
    <3>1. v[k].op \in xs
      BY <1>5, <1>7, <2>5
    <3>2. v[j].op \in ys
      BY <1>5, <1>6, <1>7, <2>5
    <3>3. QED BY <1>9, <3>1, <3>2
  <2>6. CASE j \notin 1..l /\ k \notin 1..l
    <3>1. PICK a \in 1..q : j = l + a
      BY <1>6, <2>6
    <3>2. PICK b \in 1..q : k = l + b
      BY <1>6, <2>6
    <3>3. a # b /\ v[j] = u[a] /\ v[k] = u[b]
      BY <1>5, <1>9, <3>1, <3>2
    <3>4. QED BY <1>9, <2>2, <3>3
  <2>7. QED BY <2>3, <2>4, <2>5, <2>6
<1>10. ASSUME NEW x \in xs \cup ys, N[x] > 0 PROVE \E k \in 1..(l + q) : v[k].op = x
  <2>1. CASE x \in xs
    <3>1. PICK k \in 1..l : t[k].op = x
      BY <1>2, <1>10, <2>1 DEF Made
    <3>2. QED BY <1>5, <3>1, Zenon
  <2>2. CASE x \in ys
    <3>1. PICK k \in 1..q : u[k].op = x
      BY <1>3, <1>10, <2>2 DEF Made
    <3>2. QED BY <1>5, <3>1, Zenon
  <2>3. QED BY <2>1, <2>2
<1>11. QED BY <1>4, <1>8, <1>9, <1>10 DEF Made, v

(* Those of one dialog.                                                     *)
LEMMA MadeOnce ==
    ASSUME NEW N, NEW x, N[x] \in Nat, NEW c, N[x] > 0 => c \in Call /\ c.op = x /\ AskedOK(c)
    PROVE  Made([j \in 1..N[x] |-> c], N, {x})
<1>1. PICK n \in Nat : n = N[x]
  OBVIOUS
<1>2. [j \in 1..n |-> c] \in Seq(Call)
  <2>1. CASE n = 0
    <3>1. [j \in 1..n |-> c] = <<>>
      BY <2>1
    <3>2. QED BY <3>1
  <2>2. CASE n > 0
    BY <1>1, <2>2
  <2>3. QED BY <2>1, <2>2
<1>3. ASSUME NEW j \in 1..n PROVE c.op = x /\ n > 0 /\ AskedOK(c)
  BY <1>1
<1>4. ASSUME NEW j \in 1..n, NEW k \in 1..n, j # k PROVE n > 1
  BY <1>4
<1>5. n > 0 => 1 \in 1..n
  OBVIOUS
<1>6. QED BY <1>1, <1>2, <1>3, <1>4, <1>5 DEF Made

(* How often each dialog sends when those in ms are submitted.              *)
Sends(x, ms) == x \in ms /\ ~Unchanged(x, held'[x].text) /\ ~WithoutParent(x)
Times(ms, times) == [x \in Modal |-> IF Sends(x, ms) THEN times[x] ELSE 0]

(* What is sent then.                                                       *)
LEMMA Submitted ==
    ASSUME Typed, NEW m \in Modal, NEW text \in Names, NEW ms \in SUBSET Modal,
           NEW times \in [Modal -> Nat], \A x \in ms : Handlers(x) > 0,
           Submitting(ms, times, m, text)
    PROVE  \E t : Made(t, Times(ms, times), Modal) /\ Send(t)
<1>0. /\ held \in [Modal -> Held]
      /\ Handlers("rename") > 0 => held["rename"].nodes # {}
      /\ view.node \in Nodes
  BY DEF Typed, HeldKnown, DialogsTypeOK, ViewKnown
<1>1. PICK a \in Names \cup {None} : a = IF m \in WithInput THEN text ELSE None
  OBVIOUS
<1>2. held' = [held EXCEPT ![m].text = a]
  BY <1>1 DEF Submitting, Submit
<1>3. \A h \in Held : /\ [h EXCEPT !.text = a] \in Held
                      /\ [h EXCEPT !.text = a].nodes = h.nodes /\ [h EXCEPT !.text = a].was = h.was
  BY DEF Held
<1>4. /\ held' \in [Modal -> Held]
      /\ \A x \in Modal : held'[x].nodes = held[x].nodes /\ held'[x].was = held[x].was
  BY <1>0, <1>2, <1>3
<1>5. PICK h \in [Modal -> Held] : h = held'
  BY <1>4
<1>6. PICK N \in [Modal -> Nat] : N = Times(ms, times)
  BY DEF Times
<1>7. \A x \in Modal : N[x] = IF Sends(x, ms) THEN times[x] ELSE 0
  BY <1>6 DEF Times
<1>8. ASSUME NEW x \in Modal, N[x] > 0
      PROVE  Request(x, h) \in Call /\ Request(x, h).op = x /\ AskedOK(Request(x, h))
  <2>1. PICK n \in Nodes \cup {None} : n = IF x = "folder" THEN view.node ELSE None
    BY <1>0
  <2>2. x \in Op
    BY DEF Op
  <2>3. PICK b \in Call : b = Ask(x, n) /\ b.op = x /\ b.node = n
    BY <2>2, AskTyped DEF Ask
  <2>4. PICK g \in Held : g = h[x]
    BY <1>5
  <2>5. Request(x, h) = [b EXCEPT !.nodes = g.nodes, !.was = g.was, !.text = g.text]
    BY <2>1, <2>3, <2>4 DEF Request
  <2>6. PICK c \in Call : c = [b EXCEPT !.nodes = g.nodes, !.was = g.was, !.text = g.text]
    BY DEF Call, Held
  <2>7. c.op = x /\ c.node = n /\ c.nodes = g.nodes /\ c.was = g.was
    BY <2>3, <2>6 DEF Call
  <2>8. x = "rename" => g.nodes # {}
    <3>1. x \in ms
      BY <1>7, <1>8 DEF Sends
    <3>2. QED BY <1>0, <1>4, <1>5, <2>4, <3>1
  <2>9. x = "folder" => n \in Nodes /\ n = view.node
    BY <1>0, <2>1
  <2>10. x \in {"collection", "rename", "delete"} \/ x = "folder"
    BY DEF Modal
  <2>11. AskedOK(c)
    <3>1. c.op \notin {"collection", "rename", "delete"} => c.node \in Nodes
      BY <2>7, <2>9, <2>10
    <3>2. c.op = "rename" => c.nodes # {}
      BY <2>7, <2>8
    <3>3. c.op # "move"
      BY <2>7, <2>10
    <3>4. c.op = "folder" => c.node = view.node
      BY <2>7, <2>9
    <3>5. c.nodes = held[c.op].nodes /\ c.was = held[c.op].was
      BY <1>4, <1>5, <2>4, <2>7
    <3>6. QED BY <3>1, <3>2, <3>3, <3>4, <3>5 DEF AskedOK, CallOK
  <2>12. QED BY <2>5, <2>6, <2>7, <2>11
<1> DEFINE all(x) == [j \in 1..N[x] |-> Request(x, h)]
<1>9. \A x \in Modal : Made(all(x), N, {x})
  <2>1. ASSUME NEW x \in Modal PROVE Made(all(x), N, {x})
    <3>1. PICK c : c = Request(x, h)
      OBVIOUS
    <3>2. N[x] \in Nat
      BY <1>6
    <3>3. N[x] > 0 => c \in Call /\ c.op = x /\ AskedOK(c)
      BY <1>8, <3>1
    <3>4. Made([j \in 1..N[x] |-> c], N, {x})
      BY <3>2, <3>3, MadeOnce
    <3>5. QED BY <3>1, <3>4
  <2>2. QED BY <2>1
<1>10. Send(all("collection") \o all("folder") \o all("rename") \o all("delete"))
  <2>1. \A x \in Modal : all(x) = [j \in 1..(IF x \in ms /\ ~Unchanged(x, (held')[x].text)
                                                /\ ~WithoutParent(x)
                                             THEN times[x] ELSE 0) |-> Request(x, held')]
    BY <1>5, <1>7 DEF Sends
  <2>2. {"collection", "folder", "rename", "delete"} = Modal
    BY DEF Modal
  <2> HIDE DEF all
  <2>3. QED BY <2>1, <2>2 DEF Submitting
<1> HIDE DEF all
<1>11. {"collection", "folder", "rename", "delete"} = Modal
  BY DEF Modal
<1>12. Made(all("collection") \o all("folder"), N, {"collection"} \cup {"folder"})
  <2>1. Made(all("collection"), N, {"collection"}) /\ Made(all("folder"), N, {"folder"})
    BY <1>9, <1>11
  <2>2. QED BY <2>1, MadeTogether
<1>13. Made((all("collection") \o all("folder")) \o all("rename"), N,
            ({"collection"} \cup {"folder"}) \cup {"rename"})
  <2>1. Made(all("rename"), N, {"rename"})
    BY <1>9, <1>11
  <2>2. ({"collection"} \cup {"folder"}) \cap {"rename"} = {}
    OBVIOUS
  <2>3. QED BY <1>12, <2>1, <2>2, MadeTogether
<1>14. Made(((all("collection") \o all("folder")) \o all("rename")) \o all("delete"), N,
            (({"collection"} \cup {"folder"}) \cup {"rename"}) \cup {"delete"})
  <2>1. Made(all("delete"), N, {"delete"})
    BY <1>9, <1>11
  <2>2. (({"collection"} \cup {"folder"}) \cup {"rename"}) \cap {"delete"} = {}
    OBVIOUS
  <2>3. QED BY <1>13, <2>1, <2>2, MadeTogether
<1>15. (({"collection"} \cup {"folder"}) \cup {"rename"}) \cup {"delete"} = Modal
  BY DEF Modal
<1>16. QED BY <1>6, <1>10, <1>14, <1>15

Once == [x \in Modal |-> 1]
AllHandlers == [x \in Modal |-> Handlers(x)]

(* Both ways of submitting, with how often a dialog's handler runs.         *)
Submits(ms, times, m, text) ==
    /\ Submitting(ms, times, m, text)
    /\ m \in open \ busy
    /\ times \in [Modal -> Nat]
    /\ \A x \in ms : Handlers(x) > 0 /\ times[x] > 0
    /\ \/ ms = {m} /\ times = Once
       \/ ms = {x \in Modal : Handlers(x) > 0} /\ times = AllHandlers

(* A click and Enter are such submissions.                                  *)
LEMMA SubmitsIs ==
    ASSUME Typed, NEW m \in Modal, NEW text \in Names,
           SubmitByClick(m, text) \/ SubmitByEnter(m, text)
    PROVE  \E ms \in SUBSET Modal, times \in [Modal -> Nat] : Submits(ms, times, m, text)
<1>0. open \subseteq live /\ stale \in [Modal -> Nat]
  BY DEF Typed, HeldKnown, DialogsTypeOK
<1>1. \A x \in Modal : Handlers(x) \in Nat /\ (x \in open => Handlers(x) > 0)
  BY <1>0 DEF Handlers
<1>2. CASE SubmitByClick(m, text)
  <2>1. Submitting({m}, Once, m, text) /\ m \in open \ busy
    BY <1>2 DEF SubmitByClick, Once
  <2>2. Once \in [Modal -> Nat] /\ Once[m] > 0
    BY DEF Once
  <2>3. Submits({m}, Once, m, text)
    BY <1>1, <2>1, <2>2 DEF Submits
  <2>4. {m} \in SUBSET Modal /\ Once \in [Modal -> Nat]
    BY <2>2
  <2>5. QED BY <2>3, <2>4, Zenon
<1>3. CASE SubmitByEnter(m, text)
  <2>1. PICK ms \in SUBSET Modal : ms = {x \in Modal : Handlers(x) > 0}
    OBVIOUS
  <2>2. Submitting(ms, AllHandlers, m, text) /\ m \in open \ busy
    BY <1>3, <2>1 DEF SubmitByEnter, AllHandlers
  <2>3. /\ AllHandlers \in [Modal -> Nat]
        /\ \A x \in ms : Handlers(x) > 0 /\ AllHandlers[x] > 0
    BY <1>1, <2>1 DEF AllHandlers
  <2>4. Submits(ms, AllHandlers, m, text)
    BY <2>1, <2>2, <2>3 DEF Submits
  <2>5. AllHandlers \in [Modal -> Nat]
    BY <2>3
  <2>6. QED BY <2>4, <2>5, Zenon
<1>4. QED BY <1>2, <1>3

Nav == {"node", "list"}

(* The node that was asked for by id is known: its children are asked for.  *)
LEMMA NodeAnswered ==
    ASSUME Typed, NEW i \in DOMAIN calls, AnswerNode(i)
    PROVE  \/ Continues(calls', <<>>, i) /\ astray' = TRUE
           \/ /\ \E c \in Call : /\ Continues(calls', <<c>>, i) /\ CallOK(c) /\ c.op = "list"
                                 /\ c.node = calls[i].node
                                 /\ c.path = calls[i].path /\ c.push = calls[i].push
              /\ astray' = astray
<1>1. calls \in Seq(Call) /\ astray \in BOOLEAN
  BY DEF Typed, CallsKnown, CountsKnown
<1>2. Continues(Answered(i), <<>>, i)
  BY <1>1, OneAnswered
<1>3. PICK d \in Call : d = calls[i] /\ d.op = "node" /\ d.node \in Nodes
  BY DEF Typed, CallsKnown, CallOK, AnswerNode
<1>4. PICK c \in Call : c = [d EXCEPT !.op = "list"]
  BY DEF Call, Op
<1>5. c.op = "list" /\ c.node = d.node /\ c.path = d.path /\ c.push = d.push
  BY <1>4 DEF Call
<1>6. CASE ~Exists(calls[i].node)
  BY <1>2, <1>6 DEF AnswerNode
<1>7. CASE Exists(calls[i].node)
  <2>1. calls' = Append(Answered(i), c) /\ astray' = astray
    BY <1>1, <1>3, <1>4, <1>7 DEF AnswerNode
  <2>2. Answered(i) \in Seq(Call) /\ <<c>> \in Seq(Call)
    BY <1>2 DEF Continues
  <2>3. calls' = Answered(i) \o <<c>>
    BY <2>1, <2>2
  <2>4. Continues(Answered(i) \o <<c>>, <<>> \o <<c>>, i)
    BY <1>1, <1>2, <2>2, MoreAsked
  <2>5. <<>> \o <<c>> = <<c>>
    OBVIOUS
  <2>6. CallOK(c)
    BY <1>3, <1>5 DEF CallOK
  <2>7. QED BY <1>3, <1>5, <2>1, <2>3, <2>4, <2>5, <2>6
<1>8. QED BY <1>6, <1>7

(* The answer to a creation: the view is asked for anew.                    *)
Reloading(t) ==
    \A m \in DOMAIN t : /\ CallOK(t[m]) /\ t[m].op \in Nav \cup {"children"}
                        /\ t[m].op \in Nav => t[m].path = here'.path /\ t[m].push

(* What is sent then, and what is remembered.                               *)
LEMMA Created ==
    ASSUME Typed, NEW i \in DOMAIN calls, AnswerCreate(i)
    PROVE  /\ \E t : Continues(calls', t, i) /\ Reloading(t)
           /\ here' \in Place /\ here'.path = here.path /\ astray' \in BOOLEAN
<1>1. calls \in Seq(Call) /\ astray \in BOOLEAN /\ here \in Place
  BY DEF Typed, CallsKnown, CountsKnown, ViewKnown
<1>2. Continues(Answered(i), <<>>, i)
  BY <1>1, OneAnswered
<1>3. here.node \in Nodes \cup {None} /\ here.path \in Path
  BY <1>1 DEF Place
<1>4. ASSUME NEW t, NEW n, Going1(t, None, n, here.path, TRUE), here'.path = here.path
      PROVE  Reloading(t)
  <2>1. CASE t = <<>>
    BY <2>1 DEF Reloading
  <2>2. CASE t # <<>>
    <3>1. PICK c \in Call : /\ t = <<c>> /\ c.op = (IF n # None THEN "list" ELSE "node")
                            /\ c.node \in Nodes /\ c.path = here.path /\ c.push = TRUE
      BY <1>4, <2>2 DEF Going1
    <3>2. CallOK(c)
      BY <3>1 DEF CallOK
    <3>3. c.op \in Nav
      BY <3>1 DEF Nav
    <3>4. \A m \in DOMAIN t : t[m] = c
      BY <3>1
    <3>5. QED BY <1>4, <3>1, <3>2, <3>3, <3>4 DEF Reloading
  <2>3. QED BY <2>1, <2>2
<1>5. CASE calls' = Answered(i) /\ UNCHANGED <<here, astray>>
  <2>1. Reloading(<<>>)
    BY DEF Reloading
  <2>2. QED BY <1>1, <1>2, <1>5, <2>1
<1>6. CASE calls[i].op = "folder" /\ Change(Answered(i), None, calls[i].node, here.path, TRUE)
  <2>1. PICK n \in Nodes \cup {None} : n = calls[i].node
    BY <1>6 DEF Typed, CallsKnown, CallOK
  <2>2. ChangeWhen(ready, Answered(i), None, n, here.path, TRUE)
    BY <1>6, <2>1 DEF Change
  <2>3. /\ \E t : Continues(calls', <<>> \o t, i) /\ Going1(t, None, n, here.path, TRUE)
        /\ here' = [node |-> n, path |-> here.path] /\ astray' \in BOOLEAN
    BY <1>1, <1>2, <1>3, <2>2, Changed
  <2>4. here' \in Place /\ here'.path = here.path
    BY <1>3, <2>3 DEF Place
  <2>5. PICK t : Continues(calls', <<>> \o t, i) /\ Going1(t, None, n, here.path, TRUE)
    BY <2>3
  <2>6. Continues(calls', t, i) /\ Reloading(t)
    BY <1>4, <2>4, <2>5, GoingTyped
  <2>7. QED BY <2>3, <2>4, <2>6
<1>7. CASE Change(Append(Answered(i), Ask("children", Org)), None, here.node, here.path, TRUE)
  <2>1. PICK a \in Call : a = Ask("children", Org) /\ a.op = "children" /\ a.node \in Nodes
    <3>1. "children" \in Op
      BY DEF Op
    <3>2. Org \in Nodes
      BY NodesAssumption
    <3>3. Ask("children", Org) \in Call
      BY <3>1, <3>2, AskTyped
    <3>4. QED BY <3>2, <3>3 DEF Ask
  <2>2. PICK n \in Nodes \cup {None} : n = here.node
    BY <1>3
  <2>3. ChangeWhen(ready, Append(Answered(i), a), None, n, here.path, TRUE)
    BY <1>7, <2>1, <2>2 DEF Change
  <2>4. Answered(i) \in Seq(Call) /\ <<a>> \in Seq(Call)
    BY <1>2 DEF Continues
  <2>5. Append(Answered(i), a) = Answered(i) \o <<a>> /\ <<>> \o <<a>> = <<a>>
    BY <2>4
  <2>6. Continues(Answered(i) \o <<a>>, <<>> \o <<a>>, i)
    BY <1>1, <1>2, <2>4, MoreAsked
  <2>7. Continues(Append(Answered(i), a), <<a>>, i)
    BY <2>5, <2>6
  <2>8. /\ \E t : Continues(calls', <<a>> \o t, i) /\ Going1(t, None, n, here.path, TRUE)
        /\ here' = [node |-> n, path |-> here.path] /\ astray' \in BOOLEAN
    BY <1>1, <1>3, <2>3, <2>7, Changed
  <2>9. here' \in Place /\ here'.path = here.path
    BY <1>3, <2>8 DEF Place
  <2>10. PICK t : Continues(calls', <<a>> \o t, i) /\ Going1(t, None, n, here.path, TRUE)
    BY <2>8
  <2>11. Reloading(t)
    BY <1>4, <2>9, <2>10
  <2>12. CallOK(a) /\ a.op \notin Nav
    BY <2>1 DEF CallOK, Nav
  <2>13. t \in Seq(Call)
    BY <2>10, GoingTyped
  <2>14. \A m \in DOMAIN (<<a>> \o t) :
            (<<a>> \o t)[m] = a \/ \E k \in DOMAIN t : (<<a>> \o t)[m] = t[k]
    <3>1. PICK l \in Nat : l = Len(t) /\ DOMAIN t = 1..l
      BY <2>13
    <3>2. Len(<<a>>) = 1
      OBVIOUS
    <3>3. /\ Len(<<a>> \o t) = 1 + l /\ <<a>> \o t \in Seq(Call)
          /\ \A m \in 1..(1 + l) : (<<a>> \o t)[m] = IF m <= 1 THEN (<<a>>)[m] ELSE t[m - 1]
      BY <2>4, <2>13, <3>1, <3>2, ConcatProperties
    <3> DEFINE v == <<a>> \o t
    <3>4. /\ Len(v) = 1 + l /\ v \in Seq(Call)
          /\ \A m \in 1..(1 + l) : v[m] = IF m <= 1 THEN (<<a>>)[m] ELSE t[m - 1]
      BY <3>3
    <3> HIDE DEF v
    <3>5. DOMAIN v = 1..(1 + l)
      BY <3>4
    <3>6. ASSUME NEW m \in DOMAIN v PROVE v[m] = a \/ \E k \in DOMAIN t : v[m] = t[k]
      <4>1. CASE m <= 1
        BY <3>4, <3>5, <4>1
      <4>2. CASE ~ (m <= 1)
        <5>1. m - 1 \in DOMAIN t /\ v[m] = t[m - 1]
          BY <3>1, <3>4, <3>5, <4>2
        <5>2. QED BY <5>1
      <4>3. QED BY <4>1, <4>2
    <3>7. QED BY <3>6 DEF v
  <2>15. Reloading(<<a>> \o t)
    <3> DEFINE v == <<a>> \o t
    <3> HIDE DEF v
    <3>1. \A m \in DOMAIN v : v[m] = a \/ \E k \in DOMAIN t : v[m] = t[k]
      BY <2>14 DEF v
    <3>2. a.op \in Nav \cup {"children"}
      BY <2>1
    <3>3. Reloading(v)
      BY <2>11, <2>12, <3>1, <3>2 DEF Reloading
    <3>4. QED BY <3>3 DEF v
  <2>16. QED BY <2>8, <2>9, <2>10, <2>15
<1>8. QED BY <1>5, <1>6, <1>7 DEF AnswerCreate

(* What sends nothing and is no answer.                                     *)
Aside ==
    \/ \E i \in DOMAIN rows : AskRename(i) \/ \E rs \in SelectedRows(i) :
                                                AskDelete(i, rs) \/ AskMove(i, rs)
    \/ \E m \in {"collection", "folder"} : AskNew(m)
    \/ \E m \in Modal : CancelDialog(m) \/ EscapeDialog(m)
    \/ \E d \in Nodes : PickFolder(d)
    \/ ClosePopover

(* The kinds of steps, by what they send.                                   *)
LEMMA StepKinds ==
    ASSUME Typed, Next
    PROVE  \/ NavAsks \/ OtherAsks \/ GoTo(1) \/ Aside
           \/ \E m \in Modal, text \in Names : SubmitByClick(m, text) \/ SubmitByEnter(m, text)
           \/ \E i \in DOMAIN calls : Answer(i) \/ Lose(i)
<1>1. \A j \in DOMAIN past.entries : j > 1 \/ j = 1
  BY DEF Typed, ViewKnown
<1>2. ASSUME User
      PROVE  \/ NavAsks \/ OtherAsks \/ GoTo(1) \/ Aside
             \/ \E m \in Modal, text \in Names : SubmitByClick(m, text) \/ SubmitByEnter(m, text)
  BY <1>1, <1>2, Zenon DEF User, NavAsks, OtherAsks, Aside
<1>3. QED BY <1>2, Zenon DEF Next, NavAsks

(* They leave the requests, the view and most counters alone.               *)
LEMMA AsideIs ==
    ASSUME Aside
    PROVE  /\ UNCHANGED <<calls, ready, here, view, past, acts, backs, failures, astray, moved>>
           /\ \/ hurried' = hurried \/ hurried' = (hurried \/ Pending \/ ~ready)
           /\ escapes' = escapes \/ (Trouble /\ escapes' = escapes + 1)
BY DEF Aside, AskRename, AskDelete, AskMove, AskNew, Opening, CancelDialog, EscapeDialog,
       PickFolder, ClosePopover, ghosts, bounds

(* What is outstanding stays in order.                                      *)
LEMMA CallsStep ==
    ASSUME Typed, Next
    PROVE  CallsKnown'
<1>0. CallsKnown /\ calls \in Seq(Call)
  BY DEF Typed, CallsKnown
<1>1. SUFFICES \E t, i : Continues(calls', t, i) /\ \A m \in DOMAIN t : CallOK(t[m])
  <2>1. ASSUME NEW t, NEW i, Continues(calls', t, i), \A m \in DOMAIN t : CallOK(t[m])
        PROVE  CallsKnown'
    <3>1. calls' \in Seq(Call) /\ \A j \in DOMAIN calls' : CallOK(calls'[j])
      BY <1>0, <2>1, AllOK
    <3>2. QED BY <3>1 DEF CallsKnown, CallOK
  <2>2. QED BY <1>1, <2>1
<1>2. \A m \in DOMAIN <<>> : CallOK(<<>>[m])
  OBVIOUS
<1>3. Continues(calls, <<>>, 0)
  BY <1>0, Unanswered
<1>4. CASE UNCHANGED calls
  BY <1>2, <1>3, <1>4
<1>5. CASE NavAsks
  <2>1. PICK t, id, n, p, push : NavAsking(t, id, n, p, push)
    BY <1>5, NavAsked
  <2>2. ASSUME NEW m \in DOMAIN t PROVE CallOK(t[m])
    <3>1. Going1(t, id, n, p, push)
      BY <2>1 DEF NavAsking
    <3>2. t # <<>>
      BY <2>2
    <3>3. PICK c \in Call : t = <<c>> /\ c.op \in Nav /\ c.node \in Nodes
      BY <3>1, <3>2 DEF Going1, Nav
    <3>4. t[m] = c
      BY <3>3
    <3>5. QED BY <3>3, <3>4 DEF CallOK, Nav
  <2>3. Continues(calls', t, 0)
    BY <2>1 DEF NavAsking
  <2>4. QED BY <2>2, <2>3
<1>6. CASE OtherAsks
  <2>1. PICK c \in Call : CallOK(c) /\ Send(<<c>>)
    BY <1>6, OtherAsked DEF OtherAsking
  <2>2. <<c>> \in Seq(Call)
    OBVIOUS
  <2>3. Continues(calls', <<>>, 0) \/ Continues(calls', <<c>>, 0)
    BY <1>0, <2>1, <2>2, Sent
  <2>4. \A m \in DOMAIN <<c>> : (<<c>>)[m] = c
    OBVIOUS
  <2>5. QED BY <1>2, <2>1, <2>3, <2>4
<1>7. ASSUME NEW m \in Modal, NEW text \in Names, SubmitByClick(m, text) \/ SubmitByEnter(m, text)
      PROVE  \E t, i : Continues(calls', t, i) /\ \A k \in DOMAIN t : CallOK(t[k])
  <2>1. PICK ms \in SUBSET Modal, times \in [Modal -> Nat] : Submits(ms, times, m, text)
    BY <1>7, SubmitsIs
  <2>2. PICK t : Made(t, Times(ms, times), Modal) /\ Send(t)
    BY <2>1, Submitted DEF Submits
  <2>3. t \in Seq(Call) /\ \A k \in DOMAIN t : CallOK(t[k])
    BY <2>2 DEF Made, AskedOK
  <2>4. Continues(calls', <<>>, 0) \/ Continues(calls', t, 0)
    BY <1>0, <2>2, <2>3, Sent
  <2>5. QED BY <1>2, <2>3, <2>4
<1>8. ASSUME NEW i \in DOMAIN calls, Answer(i) \/ Lose(i)
      PROVE  \E t, k : Continues(calls', t, k) /\ \A m \in DOMAIN t : CallOK(t[m])
  <2>1. Continues(Answered(i), <<>>, i)
    BY <1>0, OneAnswered
  <2>2. Continues(Outdated(Answered(i)), <<>>, i)
    BY <1>0, <2>1, TableRedrawn
  <2>3. CASE calls' = Answered(i) \/ calls' = Outdated(Answered(i))
    BY <1>2, <2>1, <2>2, <2>3
  <2>4. CASE AnswerNode(i)
    <3>1. \/ Continues(calls', <<>>, i)
          \/ \E c \in Call : Continues(calls', <<c>>, i) /\ CallOK(c)
      BY <2>4, NodeAnswered
    <3>2. \A c : \A m \in DOMAIN <<c>> : (<<c>>)[m] = c
      OBVIOUS
    <3>3. QED BY <1>2, <3>1, <3>2
  <2>5. CASE AnswerCreate(i)
    <3>1. PICK t : Continues(calls', t, i) /\ Reloading(t)
      BY <2>5, Created
    <3>2. QED BY <3>1 DEF Reloading
  <2>6. QED BY <1>8, <2>3, <2>4, <2>5 DEF Answer, Lose, AnswerList, AnswerChildren, AnswerMore,
             AnswerRename, AnswerDelete, AnswerListing, AnswerMove
<1>9. CASE GoTo(1) \/ Aside
  <2>1. UNCHANGED calls
    BY <1>9, AsideIs DEF GoTo
  <2>2. QED BY <1>4, <2>1
<1>10. QED BY <1>5, <1>6, <1>7, <1>8, <1>9, StepKinds

(* The directory that is shown, the one asked for and the history keep      *)
(* their types.                                                             *)
LEMMA ViewStep ==
    ASSUME Typed, Next
    PROVE  ViewKnown'
<1>0. /\ here \in Place /\ view \in Place /\ view.node \in Nodes
      /\ past \in [entries : Seq(Place), at : Nat] /\ past.at \in DOMAIN past.entries
      /\ \A i \in DOMAIN past.entries : past.entries[i].node \in Nodes
  BY DEF Typed, ViewKnown
<1>1. ASSUME here' \in Place, view' = view, past' = past PROVE ViewKnown'
  BY <1>0, <1>1 DEF ViewKnown
<1>2. CASE NavAsks
  <2>1. PICK t, id, n, p, push : NavAsking(t, id, n, p, push)
    BY <1>2, NavAsked
  <2>2. here' \in Place
    BY <2>1 DEF NavAsking, Place
  <2>3. view' = view /\ past' \in [entries : Seq(Place), at : Nat]
    <3>1. view' = view /\ (past' = past \/ \E j \in DOMAIN past.entries : past' = [past EXCEPT !.at = j])
      BY <1>2 DEF NavAsks, ApiReady, OpenRow, Crumb, TreeClick, GoTo, Going
    <3>2. \A j \in DOMAIN past.entries : [past EXCEPT !.at = j] \in [entries : Seq(Place), at : Nat]
      BY <1>0
    <3>3. QED BY <1>0, <3>1, <3>2
  <2>4. past'.entries = past.entries /\ past'.at \in DOMAIN past.entries
    BY <1>0, <2>1 DEF NavAsking
  <2>5. QED BY <1>0, <2>2, <2>3, <2>4 DEF ViewKnown
<1>3. CASE OtherAsks
  <2>1. UNCHANGED <<here, view, past>>
    BY <1>3 DEF OtherAsks, TreeExpand, LoadMore, MoveHere, ListFolder
  <2>2. QED BY <1>0, <1>1, <2>1
<1>4. ASSUME NEW m \in Modal, NEW text \in Names, SubmitByClick(m, text) \/ SubmitByEnter(m, text)
      PROVE  ViewKnown'
  <2>1. UNCHANGED <<here, view, past>>
    BY <1>4 DEF SubmitByClick, SubmitByEnter, Submitting
  <2>2. QED BY <1>0, <1>1, <2>1
<1>5. CASE Aside
  BY <1>0, <1>1, <1>5, AsideIs
<1>6. CASE GoTo(1)
  <2>1. past' = [past EXCEPT !.at = 1] /\ UNCHANGED <<here, view>>
    BY <1>6 DEF GoTo
  <2>2. past' \in [entries : Seq(Place), at : Nat] /\ past'.at = 1 /\ past'.entries = past.entries
    BY <1>0, <2>1
  <2>3. 1 \in DOMAIN past.entries
    BY <1>0
  <2>4. QED BY <1>0, <2>1, <2>2, <2>3 DEF ViewKnown
<1>7. ASSUME NEW i \in DOMAIN calls, AnswerCreate(i) PROVE ViewKnown'
  <2>1. here' \in Place
    BY <1>7, Created
  <2>2. UNCHANGED <<view, past>>
    BY <1>7 DEF AnswerCreate
  <2>3. QED BY <1>1, <2>1, <2>2
<1>8. ASSUME NEW i \in DOMAIN calls, AnswerList(i) PROVE ViewKnown'
  <2>1. PICK c \in Call : c = calls[i] /\ c.node \in Nodes
    BY <1>8 DEF Typed, CallsKnown, CallOK, AnswerList
  <2>1a. [node |-> c.node, path |-> c.path] \in Place
    BY <2>1 DEF Call, Place
  <2>2. PICK at \in Place : at = [node |-> c.node, path |-> c.path] /\ at.node \in Nodes
    BY <2>1, <2>1a
  <2>3. view' = at /\ past' = Visited(at, c.push) /\ here' = here
    BY <1>8, <2>1, <2>2 DEF AnswerList
  <2>4. CASE ~c.push
    BY <1>0, <2>2, <2>3, <2>4 DEF ViewKnown, Visited
  <2>5. CASE c.push
    <3>1. PICK e \in Seq(Place) : e = past.entries
      BY <1>0
    <3>2. PICK l \in Nat : l = Len(e) /\ DOMAIN e = 1..l
      OBVIOUS
    <3>3. PICK k \in 1..l : k = past.at
      BY <1>0, <3>1, <3>2
    <3>4. SubSeq(e, 1, k) \in Seq(Place) /\ Len(SubSeq(e, 1, k)) = k
          /\ \A j \in 1..k : SubSeq(e, 1, k)[j] = e[j]
      BY <3>2
    <3>5. PICK s \in Seq(Place) : s = SubSeq(e, 1, k)
      BY <3>4
    <3>5a. Append(s, at) \in Seq(Place)
      OBVIOUS
    <3>6. PICK r \in Seq(Place) : r = Append(s, at)
      BY <3>5a
    <3>7. past' = [entries |-> r, at |-> k + 1]
      BY <2>3, <2>5, <3>1, <3>3, <3>5, <3>6 DEF Visited
    <3>8. DOMAIN r = 1..(k + 1) /\ \A j \in 1..(k + 1) : r[j] = IF j <= k THEN e[j] ELSE at
      <4>1. Len(s) = k /\ \A j \in 1..k : s[j] = e[j]
        BY <3>4, <3>5
      <4>2. QED BY <3>6, <4>1
    <3>9. \A j \in 1..(k + 1) : r[j].node \in Nodes
      <4>1. \A j \in 1..k : e[j].node \in Nodes
        BY <1>0, <3>1, <3>2
      <4>2. QED BY <2>2, <3>8, <4>1
    <3>10. past'.entries = r /\ past'.at = k + 1 /\ past' \in [entries : Seq(Place), at : Nat]
      BY <3>7
    <3>11. k + 1 \in DOMAIN r
      BY <3>8
    <3>12. QED BY <1>0, <2>2, <2>3, <3>8, <3>9, <3>10, <3>11 DEF ViewKnown
  <2>6. QED BY <2>4, <2>5
<1>9. ASSUME NEW i \in DOMAIN calls, Answer(i) \/ Lose(i) PROVE ViewKnown'
  <2>1. AnswerCreate(i) \/ AnswerList(i) \/ UNCHANGED <<here, view, past>>
    BY <1>9 DEF Answer, Lose, AnswerNode, AnswerChildren, AnswerMore,
                AnswerRename, AnswerDelete, AnswerListing, AnswerMove
  <2>2. QED BY <1>0, <1>1, <1>7, <1>8, <2>1
<1>10. QED BY <1>2, <1>3, <1>4, <1>5, <1>6, <1>9, StepKinds

-----------------------------------------------------------------------------
(* The counters, and the type of everything.                                *)

(* What may happen to the counters.                                         *)
Counting ==
    /\ \/ acts' = acts
       \/ Budget /\ acts' = acts + 1
    /\ \/ UNCHANGED <<backs, escapes, failures>>
       \/ Trouble /\ backs' = backs + 1 /\ UNCHANGED <<escapes, failures>>
       \/ Trouble /\ escapes' = escapes + 1 /\ UNCHANGED <<backs, failures>>
       \/ Trouble /\ failures' = failures + 1 /\ UNCHANGED <<backs, escapes>>

(* The counters stay in their bounds.                                       *)
LEMMA CountsStep ==
    ASSUME Typed, Next
    PROVE  CountsKnown'
<1>0. /\ ready \in BOOLEAN
      /\ acts \in 0..MaxEvents /\ backs \in Nat /\ escapes \in Nat /\ failures \in Nat
      /\ backs + escapes + failures <= MaxTroubles
      /\ hurried \in BOOLEAN /\ astray \in BOOLEAN /\ moved \subseteq Nodes
      /\ calls \in Seq(Call)
  BY DEF Typed, CountsKnown, CallsKnown
<1>1. MaxEvents \in Nat /\ MaxTroubles \in Nat
  BY BoundsAssumption
<1>2. ASSUME ready' \in BOOLEAN, moved' \subseteq Nodes,
             astray' \in BOOLEAN, hurried' \in BOOLEAN, Counting
      PROVE  CountsKnown'
  <2>1. acts' \in 0..MaxEvents
    BY <1>0, <1>1, <1>2 DEF Counting, Budget
  <2>2. backs' \in Nat /\ escapes' \in Nat /\ failures' \in Nat
    BY <1>0, <1>2 DEF Counting
  <2>3. backs' + escapes' + failures' <= MaxTroubles
    BY <1>0, <1>1, <1>2 DEF Counting, Trouble
  <2>4. QED BY <1>2, <2>1, <2>2, <2>3 DEF CountsKnown
<1>3. /\ (hurried \/ Pending \/ ~ready) \in BOOLEAN
      /\ (hurried \/ Pending \/ ~ready \/ ~Free) \in BOOLEAN
  OBVIOUS
<1>4. ASSUME Act PROVE hurried' \in BOOLEAN /\ Budget /\ acts' = acts + 1
  BY <1>3, <1>4 DEF Act
<1>5. CASE NavAsks
  <2>1. astray' \in BOOLEAN
    BY <1>5, NavAsked DEF NavAsking
  <2>2. /\ ready' \in BOOLEAN /\ moved' = moved
        /\ hurried' = hurried \/ Act \/ hurried' = (hurried \/ Pending \/ ~ready \/ ~Free)
    BY <1>0, <1>5 DEF NavAsks, ApiReady, OpenRow, Crumb, TreeClick, GoTo, Going
  <2>3. acts' = acts \/ Act
    BY <1>5 DEF NavAsks, ApiReady, OpenRow, Crumb, TreeClick, GoTo, Going
  <2>4. \/ UNCHANGED bounds
        \/ Trouble /\ backs' = backs + 1 /\ UNCHANGED <<escapes, failures>>
    BY <1>5 DEF NavAsks, ApiReady, OpenRow, Crumb, TreeClick, GoTo, Going
  <2>5. hurried' \in BOOLEAN
    BY <1>0, <1>3, <1>4, <2>2
  <2>6. Counting
    BY <1>4, <2>3, <2>4 DEF Counting, bounds
  <2>7. QED BY <1>0, <1>2, <2>1, <2>2, <2>5, <2>6
<1>6. CASE OtherAsks
  <2>1. Act /\ UNCHANGED <<ready, bounds, ghosts>>
    BY <1>6 DEF OtherAsks, TreeExpand, LoadMore, MoveHere, ListFolder
  <2>2. Counting /\ hurried' \in BOOLEAN
    BY <1>4, <2>1 DEF Counting, bounds
  <2>3. ready' = ready /\ moved' = moved /\ astray' = astray
    BY <2>1 DEF ghosts
  <2>4. QED BY <1>0, <1>2, <2>2, <2>3
<1>7. ASSUME NEW m \in Modal, NEW text \in Names, SubmitByClick(m, text) \/ SubmitByEnter(m, text)
      PROVE  CountsKnown'
  <2>1. Act /\ UNCHANGED <<ready, bounds, ghosts>>
    BY <1>7 DEF SubmitByClick, SubmitByEnter, Submitting
  <2>2. Counting /\ hurried' \in BOOLEAN
    BY <1>4, <2>1 DEF Counting, bounds
  <2>3. ready' = ready /\ moved' = moved /\ astray' = astray
    BY <2>1 DEF ghosts
  <2>4. QED BY <1>0, <1>2, <2>2, <2>3
<1>8. CASE Aside
  <2>1. hurried' \in BOOLEAN
    BY <1>0, <1>3, <1>8, AsideIs
  <2>2. UNCHANGED <<ready, acts, backs, failures, astray, moved>>
    BY <1>8, AsideIs
  <2>3. escapes' = escapes \/ (Trouble /\ escapes' = escapes + 1)
    BY <1>8, AsideIs
  <2>4. Counting
    BY <2>2, <2>3 DEF Counting
  <2>5. QED BY <1>0, <1>2, <2>1, <2>2, <2>4
<1>9. CASE GoTo(1)
  <2>1. /\ Trouble /\ backs' = backs + 1 /\ UNCHANGED <<escapes, failures>>
        /\ hurried' = (hurried \/ Pending \/ ~ready \/ ~Free)
        /\ UNCHANGED <<ready, acts, moved, astray>>
    BY <1>9 DEF GoTo
  <2>2. Counting
    BY <2>1 DEF Counting
  <2>3. hurried' \in BOOLEAN
    BY <1>3, <2>1
  <2>4. QED BY <1>0, <1>2, <2>1, <2>2, <2>3
<1>10. ASSUME NEW i \in DOMAIN calls, AnswerMove(i) PROVE CountsKnown'
  <2>1. calls[i] \in Call
    BY <1>0
  <2>2. calls[i].nodes \subseteq Nodes
    BY <2>1 DEF Call
  <2>3. \E ok \in SUBSET calls[i].nodes : moved' = moved \cup ok
    BY <1>10 DEF AnswerMove
  <2>4. UNCHANGED <<ready, acts, bounds, hurried, astray>>
    BY <1>10 DEF AnswerMove
  <2>5. Counting
    BY <2>4 DEF Counting, bounds
  <2>6. moved' \subseteq Nodes
    BY <1>0, <2>2, <2>3
  <2>7. QED BY <1>0, <1>2, <2>4, <2>5, <2>6
<1>11. ASSUME NEW i \in DOMAIN calls, AnswerNode(i) \/ AnswerCreate(i) PROVE CountsKnown'
  <2>1. astray' \in BOOLEAN
    BY <1>0, <1>11, NodeAnswered, Created
  <2>2. UNCHANGED <<ready, acts, bounds, hurried, moved>>
    BY <1>11 DEF AnswerNode, AnswerCreate
  <2>3. Counting
    BY <2>2 DEF Counting, bounds
  <2>4. QED BY <1>0, <1>2, <2>1, <2>2, <2>3
<1>12. ASSUME NEW i \in DOMAIN calls, Lose(i) PROVE CountsKnown'
  <2>1. /\ Trouble /\ failures' = failures + 1 /\ UNCHANGED <<backs, escapes>>
        /\ astray' = (astray \/ calls[i].op \in {"node", "list"})
        /\ UNCHANGED <<ready, acts, moved, hurried>>
    BY <1>12 DEF Lose
  <2>2. astray' \in BOOLEAN
    BY <1>0, <2>1
  <2>3. Counting
    BY <2>1 DEF Counting
  <2>4. QED BY <1>0, <1>2, <2>1, <2>2, <2>3
<1>13. ASSUME NEW i \in DOMAIN calls,
              \/ AnswerList(i) \/ AnswerChildren(i) \/ AnswerMore(i) \/ AnswerRename(i)
              \/ AnswerDelete(i) \/ AnswerListing(i)
       PROVE  CountsKnown'
  <2>1. UNCHANGED <<ready, acts, bounds, hurried, astray, moved>>
    BY <1>13 DEF ghosts, AnswerList, AnswerChildren, AnswerMore, AnswerRename, AnswerDelete, AnswerListing
  <2>2. Counting
    BY <2>1 DEF Counting, bounds
  <2>3. ready' = ready /\ moved' = moved /\ astray' = astray /\ hurried' = hurried
    BY <2>1
  <2>4. QED BY <1>0, <1>2, <2>2, <2>3
<1>14. ASSUME NEW i \in DOMAIN calls, Answer(i) \/ Lose(i) PROVE CountsKnown'
  BY <1>10, <1>11, <1>12, <1>13, <1>14 DEF Answer
<1>15. QED BY <1>5, <1>6, <1>7, <1>8, <1>9, <1>14, StepKinds

(* What happened to the rows is one of the changes.                         *)
LEMMA ShiftsStep ==
    ASSUME Typed, Next
    PROVE  ShiftsKnown'
<1>0. shifted \subseteq Changes /\ torn \subseteq Changes
  BY DEF Typed, ShiftsKnown
<1>1. \/ UNCHANGED shifts
      \/ shifted' = {} /\ torn' = {}
      \/ UNCHANGED shifted /\ torn' = torn \cup shifted
      \/ UNCHANGED torn /\ \E change \in Changes : shifted' \in {shifted, shifted \cup {change}}
  <2>1. ShiftsChange \/ UNCHANGED shifts
    BY WhoChanges DEF WhoStatement
  <2>2. \A change \in Changes : Shifting(change) =>
           UNCHANGED torn /\ shifted' \in {shifted, shifted \cup {change}}
    BY DEF Shifting
  <2>3. "rename" \in Changes /\ "delete" \in Changes
    BY DEF Changes
  <2>4. QED BY <2>1, <2>2, <2>3 DEF ShiftsChange, AnswerList, AnswerMore, AnswerRename, AnswerDelete
<1>2. QED BY <1>0, <1>1 DEF shifts, ShiftsKnown

(* The page starts with its types.                                          *)
LEMMA InitTyped ==
    ASSUME Init
    PROVE  Typed
<1>1. parent = ParentAtFirst /\ name = NameAtFirst /\ deleted = {}
  BY DEF Init, ApiInit
<1>2. ApiKnown
  BY <1>1, TreeAssumption DEF ApiKnown, ApiTypeOK
<1>3. Start \in Nodes /\ Org \in Nodes
  BY StartAssumption, NodesAssumption
<1>4. ListKnown
  BY <1>3 DEF Init, ListInit, ListKnown, ListTypeOK
<1>5. Empty \in Held
  BY DEF Empty, Held
<1>6. HeldKnown
  <2>1. \A m \in Modal : stale[m] = 0 /\ held[m] = Empty
    BY DEF Init, DialogsInit
  <2>2. "rename" \in Modal
    BY DEF Modal
  <2>3. Handlers("rename") = 0
    BY <2>1, <2>2 DEF Init, DialogsInit, Handlers
  <2>4. QED BY <1>5, <2>3 DEF Init, DialogsInit, HeldKnown, DialogsTypeOK
<1>7. PopKnown
  BY DEF Init, Closed, PopKnown, PopTypeOK
<1>8. PICK p \in Path : p = PathOf[Start]
  <2>1. PathOf[Start] \in Seq(Nodes \ {Org})
    BY <1>2, <1>3, PathOfIs, PathsAre DEF ApiKnown, ApiTypeOK
  <2>2. PathOf[Start] \in Path
    BY <2>1 DEF Path
  <2>3. QED BY <2>2
<1>9. PICK s \in Place : s = AtStart /\ s.node \in Nodes
  <2>1. AtStart \in Place /\ AtStart.node \in Nodes
    BY <1>3, <1>8 DEF AtStart, Place
  <2>2. QED BY <2>1
<1>10. ViewKnown
  <2>1. here = s /\ view = s /\ past = [entries |-> <<s>>, at |-> 1]
    BY <1>9 DEF Init
  <2>2. <<s>> \in Seq(Place) /\ 1 \in DOMAIN <<s>> /\ \A i \in DOMAIN <<s>> : (<<s>>)[i] = s
    OBVIOUS
  <2>3. past.entries = <<s>> /\ past.at = 1 /\ past \in [entries : Seq(Place), at : Nat]
    BY <2>1, <2>2
  <2>4. QED BY <1>9, <2>1, <2>2, <2>3 DEF ViewKnown
<1>11. CallsKnown
  BY DEF Init, CallsKnown
<1>12. CountsKnown
  <2>1. MaxEvents \in Nat /\ MaxTroubles \in Nat
    BY BoundsAssumption
  <2>2. /\ acts = 0 /\ backs = 0 /\ escapes = 0 /\ failures = 0
        /\ ready = FALSE /\ hurried = FALSE /\ astray = FALSE /\ moved = {}
    BY DEF Init
  <2>3. ready \in BOOLEAN /\ hurried \in BOOLEAN /\ astray \in BOOLEAN
    BY <2>2
  <2>4. acts \in 0..MaxEvents /\ backs \in Nat /\ escapes \in Nat /\ failures \in Nat
    BY <2>1, <2>2
  <2>5. backs + escapes + failures <= MaxTroubles
    BY <2>1, <2>2
  <2>6. moved \subseteq Nodes
    BY <2>2
  <2>7. QED BY <2>3, <2>4, <2>5, <2>6 DEF CountsKnown
<1>13. tree \in Trees
  <2>1. <<>> \in Path
    BY DEF Path
  <2>2. tree \in [{Org} -> Path]
    BY <2>1 DEF Init
  <2>3. QED BY <1>3, <2>2 DEF Trees
<1>14. ShiftsKnown
  BY DEF Init, ShiftsKnown
<1>15. QED BY <1>2, <1>4, <1>6, <1>7, <1>10, <1>11, <1>12, <1>13, <1>14 DEF Typed

(* Every step keeps them.                                                   *)
LEMMA TypedStep ==
    ASSUME Typed, [Next]_vars
    PROVE  Typed'
<1>1. CASE Next
  BY <1>1, ApiStep, ListStep, HeldStep, PopStep, ViewStep, CallsStep, CountsStep, TreeStep,
     ShiftsStep DEF Typed
<1>2. CASE UNCHANGED vars
  BY <1>2 DEF vars, Typed, ApiKnown, ListKnown, HeldKnown, PopKnown, ViewKnown, CallsKnown,
              CountsKnown, ShiftsKnown, ApiTypeOK, ListTypeOK, DialogsTypeOK, PopTypeOK, Handlers
<1>3. QED BY <1>1, <1>2

(* So they are kept always.                                                 *)
LEMMA TypedAlways == Spec => []Typed
<1>1. Init => Typed
  BY InitTyped
<1>2. Typed /\ [Next]_vars => Typed'
  BY TypedStep
<1>3. QED BY <1>1, <1>2, PTL DEF Spec

(* Every variable has its type, whatever the tree, the page and the bounds. *)
THEOREM TypeCorrect == Spec => []TypeOK
<1>1. Typed => TypeOK
  <2>1. SUFFICES ASSUME Typed PROVE TypeOK
    OBVIOUS
  <2>2. DOMAIN tree \subseteq Nodes /\ \A n \in DOMAIN tree : tree[n] \in Path
    BY <2>1 DEF Typed, Trees
  <2>3. past.at \in DOMAIN past.entries /\ past.entries \in Seq(Place)
    BY <2>1 DEF Typed, ViewKnown
  <2>4. QED BY <2>1, <2>2, <2>3 DEF Typed, ApiKnown, ListKnown, HeldKnown, PopKnown, ViewKnown,
                                    CallsKnown, CountsKnown, ShiftsKnown, TypeOK
<1>2. QED BY <1>1, TypedAlways, PTL

-----------------------------------------------------------------------------
(* Rows and their nodes.                                                    *)

(* Each of the rows rs leads to its node among the objects ns.              *)
Leads(rs, ns) == \A i \in DOMAIN rs : rs[i].at \in DOMAIN ns /\ ns[rs[i].at].id = rs[i].id

(* Rows that are drawn anew lead to their nodes.                            *)
LEMMA LeadsAnew ==
    ASSUME NEW objects \in Seq(Object)
    PROVE  Leads(RowsOf(objects, 0), objects)
<1>1. PICK n \in Nat : n = Len(objects) /\ DOMAIN objects = 1..n
  OBVIOUS
<1>2. PICK r \in Seq(Row) : r = RowsOf(objects, 0)
  BY RowsTyped
<1>3. Len(r) = n /\ \A i \in 1..n : r[i] = [at |-> 0 + i, id |-> objects[i].id,
                                            name |-> objects[i].name]
  BY <1>1, <1>2, RowsTyped
<1>4. DOMAIN r = 1..n /\ \A i \in 1..n : r[i].at = i /\ r[i].id = objects[i].id
  BY <1>3
<1>5. QED BY <1>1, <1>2, <1>4 DEF Leads

(* So do those of a further page.                                           *)
LEMMA LeadsFurther ==
    ASSUME NEW ns \in Seq(Object), NEW rs \in Seq(Row), Leads(rs, ns), NEW objects \in Seq(Object)
    PROVE  Leads(rs \o RowsOf(objects, Len(ns)), ns \o objects)
<1>1. PICK n \in Nat : n = Len(ns) /\ DOMAIN ns = 1..n
  OBVIOUS
<1>2. PICK q \in Nat : q = Len(objects) /\ DOMAIN objects = 1..q
  OBVIOUS
<1>3. PICK l \in Nat : l = Len(rs) /\ DOMAIN rs = 1..l
  OBVIOUS
<1>4. PICK r \in Seq(Row) : r = RowsOf(objects, n)
  BY RowsTyped
<1>5. Len(r) = q /\ \A i \in 1..q : r[i].at = n + i /\ r[i].id = objects[i].id
  <2>1. Len(r) = q /\ \A i \in 1..q : r[i] = [at |-> n + i, id |-> objects[i].id,
                                              name |-> objects[i].name]
    BY <1>2, <1>4, RowsTyped
  <2>2. QED BY <2>1
<1> DEFINE a == ns \o objects
           b == rs \o r
<1>6. /\ a \in Seq(Object) /\ Len(a) = n + q
      /\ \A j \in 1..(n + q) : a[j] = IF j <= n THEN ns[j] ELSE objects[j - n]
  BY <1>1, <1>2, ConcatProperties
<1>7. /\ b \in Seq(Row) /\ Len(b) = l + q
      /\ \A j \in 1..(l + q) : b[j] = IF j <= l THEN rs[j] ELSE r[j - l]
  BY <1>3, <1>5, ConcatProperties
<1> HIDE DEF a, b
<1>8. DOMAIN a = 1..(n + q) /\ DOMAIN b = 1..(l + q)
  BY <1>6, <1>7
<1>9. ASSUME NEW j \in 1..(l + q) PROVE b[j].at \in DOMAIN a /\ a[b[j].at].id = b[j].id
  <2>1. CASE j <= l
    <3>1. j \in DOMAIN rs /\ b[j] = rs[j]
      BY <1>3, <1>7, <2>1
    <3>2. PICK k \in 1..n : k = rs[j].at /\ ns[k].id = rs[j].id
      BY <1>1, <3>1 DEF Leads
    <3>3. k \in 1..(n + q) /\ a[k] = ns[k]
      BY <1>6
    <3>4. QED BY <1>8, <3>1, <3>2, <3>3
  <2>2. CASE ~ (j <= l)
    <3>1. PICK k \in 1..q : k = j - l
      BY <2>2
    <3>2. b[j] = r[k] /\ r[k].at = n + k /\ r[k].id = objects[k].id
      BY <1>5, <1>7, <2>2, <3>1
    <3>3. n + k \in 1..(n + q) /\ ~ (n + k <= n) /\ (n + k) - n = k
      OBVIOUS
    <3>4. a[n + k] = objects[k]
      BY <1>6, <3>3
    <3>5. QED BY <1>8, <3>2, <3>3, <3>4
  <2>3. QED BY <2>1, <2>2
<1>10. Leads(b, a)
  BY <1>8, <1>9 DEF Leads
<1>11. QED BY <1>1, <1>4, <1>10 DEF a, b

OnlyFilesMoved == \A n \in moved : Kind[n] = "FILE"

(* No step but a move of a folder makes a row lead elsewhere.               *)
LEMMA LeadsStep ==
    ASSUME Typed, Next, Leads(rows, nodes), OnlyFilesMoved'
    PROVE  Leads(rows', nodes')
<1>0. /\ ListKnown /\ nodes \in Seq(Object) /\ rows \in Seq(Row) /\ ApiTypeOK
  BY DEF Typed, ListKnown, ListTypeOK, ApiKnown
<1>0a. \A i \in DOMAIN calls : calls[i] \in Call /\ CallOK(calls[i])
  BY DEF Typed, CallsKnown
<1>1. CASE UNCHANGED <<nodes, rows>>
  BY <1>1
<1>2. ASSUME NEW i, NEW rs, AskRename(i) \/ AskDelete(i, rs) \/ AskMove(i, rs)
      PROVE  UNCHANGED <<nodes, rows>>
  BY <1>2 DEF AskRename, AskDelete, AskMove, Menu, Focus
<1>3. ASSUME NEW i \in DOMAIN calls, AnswerList(i) PROVE Leads(rows', nodes')
  <2>1. calls[i].node \in Nodes
    BY <1>0a, <1>3 DEF CallOK, AnswerList
  <2>2. PICK objects \in Seq(Object) : objects = Page(calls[i].node, 0).results
    BY <1>0, <2>1, PageTyped
  <2>3. nodes' = objects /\ rows' = RowsOf(objects, 0)
    BY <1>3, <2>2 DEF AnswerList, ShowDirectory
  <2>4. QED BY <2>3, LeadsAnew
<1>4. ASSUME NEW i \in DOMAIN calls, AnswerMore(i) PROVE Leads(rows', nodes')
  <2>1. calls[i].node \in Nodes /\ calls[i].from \in Nat
    BY <1>0a, <1>4 DEF CallOK, Call, AnswerMore
  <2>2. PICK objects \in Seq(Object) : objects = Page(calls[i].node, calls[i].from).results
    BY <1>0, <2>1, PageTyped
  <2>3. nodes' = nodes \o objects /\ rows' = rows \o RowsOf(objects, Len(nodes))
    BY <1>4, <2>2 DEF AnswerMore, AppendPage
  <2>4. QED BY <1>0, <2>3, LeadsFurther
<1>5. ASSUME NEW i \in DOMAIN calls, AnswerRename(i) PROVE Leads(rows', nodes')
  <2>1. CASE UNCHANGED list
    BY <1>1, <2>1 DEF list
  <2>2. CASE \E n, old, new : ShowRenamed(n, old, new)
    <3>1. PICK n, old, new : ShowRenamed(n, old, new)
      BY <2>2
    <3>2. DOMAIN rows' = DOMAIN rows
          /\ \A j \in DOMAIN rows : rows'[j].at = rows[j].at /\ rows'[j].id = rows[j].id
      <4> DEFINE hits == {j \in DOMAIN rows : rows[j].name = old}
      <4>1. CASE hits = {}
        BY <3>1, <4>1 DEF ShowRenamed
      <4>2. CASE hits # {}
        <5>1. rows' = [rows EXCEPT ![Min(hits)].name = new]
          BY <3>1, <4>2 DEF ShowRenamed
        <5>2. \A r \in Row : [r EXCEPT !.name = new].at = r.at /\ [r EXCEPT !.name = new].id = r.id
          BY DEF Row
        <5>3. \A j \in DOMAIN rows : rows[j] \in Row
          BY <1>0
        <5> HIDE DEF hits
        <5>4. DOMAIN rows' = DOMAIN rows
              /\ \A j \in DOMAIN rows : \/ rows'[j] = rows[j]
                                        \/ rows'[j] = [rows[j] EXCEPT !.name = new]
          BY <5>1
        <5>5. QED BY <5>2, <5>3, <5>4
      <4>3. QED BY <4>1, <4>2
    <3>3. DOMAIN nodes' = DOMAIN nodes /\ \A k \in DOMAIN nodes : nodes'[k].id = nodes[k].id
      <4>1. CASE nodes' = nodes
        BY <4>1
      <4>2. CASE nodes' = [k \in DOMAIN nodes |->
                              IF nodes[k].id = n THEN [nodes[k] EXCEPT !.name = new] ELSE nodes[k]]
        <5>1. \A o \in Object : [o EXCEPT !.name = new].id = o.id
          BY DEF Object
        <5>2. \A k \in DOMAIN nodes : nodes[k] \in Object
          BY <1>0
        <5>3. QED BY <4>2, <5>1, <5>2
      <4>3. QED BY <3>1, <4>1, <4>2 DEF ShowRenamed
    <3>4. QED BY <3>2, <3>3 DEF Leads
  <2>3. QED BY <1>5, <2>1, <2>2 DEF AnswerRename
<1>6. ASSUME NEW i \in DOMAIN calls, AnswerDelete(i) PROVE Leads(rows', nodes')
  <2>1. PICK ns, e : ShowDeleted(ns, e)
    BY <1>6 DEF AnswerDelete
  <2>2. PICK left \in Seq(Object) :
           left = Kept(nodes, {j \in DOMAIN nodes : nodes[j].id \notin ns})
    BY <1>0, KeptObjects
  <2>3. nodes' = left /\ rows' = RowsOf(left, 0)
    BY <2>1, <2>2 DEF ShowDeleted
  <2>4. QED BY <2>3, LeadsAnew
<1>7. ASSUME NEW i \in DOMAIN calls, AnswerMove(i) PROVE Leads(rows', nodes')
  <2> DEFINE c == calls[i]
             ok == {n \in c.nodes : MayMove(n, c.node)}
             folders == {n \in ok : Kind[n] # "FILE"}
  <2>1. folders = {}
    <3>1. moved' = moved \cup ok
      BY <1>7 DEF AnswerMove
    <3>2. QED BY <3>1 DEF OnlyFilesMoved
  <2>2. CASE UNCHANGED list
    BY <1>1, <2>2 DEF list
  <2>3. CASE \E ns, hide : ns \subseteq folders /\ ShowMoved(ns, hide)
    <3>1. PICK hide : ShowMoved({}, hide)
      BY <2>1, <2>3
    <3>2. nodes' = nodes
      <4> DEFINE keep == {j \in DOMAIN nodes : \/ nodes[j].id \notin {}
                                               \/ Kind[nodes[j].id] = "FILE"}
      <4>1. nodes' = Kept(nodes, keep)
        BY <3>1 DEF ShowMoved
      <4>2. DOMAIN nodes \subseteq keep
        OBVIOUS
      <4> HIDE DEF keep
      <4>3. QED BY <1>0, <4>1, <4>2, KeptObjects
    <3>3. \A j \in DOMAIN rows' : \E k \in DOMAIN rows : rows'[j] = rows[k]
      <4>1. rows' = Kept(rows, {j \in DOMAIN rows : rows[j].name \notin hide})
        BY <3>1 DEF ShowMoved
      <4>2. QED BY <1>0, <4>1, KeptRows
    <3>4. QED BY <3>2, <3>3 DEF Leads
  <2>4. QED
    <3> DEFINE reached == IF folders \cup {c.node} \subseteq DOMAIN tree THEN folders
                          ELSE {n \in folders : \A x \in folders : ~Precedes(x, n)}
    <3>1. UNCHANGED list \/ \E hide : ShowMoved(IF c.same THEN reached ELSE {}, hide)
      BY <1>7 DEF AnswerMove
    <3>2. (IF c.same THEN reached ELSE {}) \subseteq folders
      BY <2>1
    <3> HIDE DEF reached, folders
    <3>3. QED BY <2>2, <2>3, <3>1, <3>2
<1>8. ListChanges \/ UNCHANGED list
  BY WhoChanges DEF WhoStatement
<1>9. QED BY <1>1, <1>2, <1>3, <1>4, <1>5, <1>6, <1>7, <1>8 DEF ListChanges, list

RowsKnown == OnlyFilesMoved => Leads(rows, nodes)

(* What was moved stays so.                                                 *)
LEMMA MovedGrows ==
    ASSUME Next
    PROVE  moved \subseteq moved'
BY DEF Next, User, Answer, ApiReady, OpenRow, Crumb, TreeClick, TreeExpand, GoTo, Going, AnswerNode,
         AnswerList, AnswerChildren, LoadMore, AnswerMore, AskRename, AskDelete, AskMove, AskNew,
         Opening, SubmitByClick, SubmitByEnter, Submitting, CancelDialog, EscapeDialog,
         AnswerCreate, AnswerRename, AnswerDelete, PickFolder, ListFolder, AnswerListing,
         MoveHere, AnswerMove, ClosePopover, Lose, ghosts

(* A row acts on the node it shows, in every interleaving of what is        *)
(* appended, renamed, filtered and drawn anew, unless a folder was moved.   *)
THEOREM RowsActOnTheirNodes == Spec => []RowsNameTheirNodesUnlessMoved
<1>1. Init => RowsKnown
  BY DEF Init, ListInit, RowsKnown, Leads
<1>2. Typed /\ RowsKnown /\ [Next]_vars => RowsKnown'
  <2>1. SUFFICES ASSUME Typed, RowsKnown, [Next]_vars PROVE RowsKnown'
    OBVIOUS
  <2>2. CASE Next
    <3>1. OnlyFilesMoved' => OnlyFilesMoved
      BY <2>2, MovedGrows DEF OnlyFilesMoved
    <3>2. QED BY <2>1, <2>2, <3>1, LeadsStep DEF RowsKnown
  <2>3. CASE UNCHANGED vars
    BY <2>1, <2>3 DEF vars, RowsKnown, OnlyFilesMoved
  <2>4. QED BY <2>1, <2>2, <2>3
<1>3. RowsKnown => RowsNameTheirNodesUnlessMoved
  BY DEF RowsKnown, OnlyFilesMoved, Leads, RowsNameTheirNodesUnlessMoved, RowsNameTheirNodes, NodeOfRow
<1>4. QED BY <1>1, <1>2, <1>3, TypedAlways, PTL DEF Spec

-----------------------------------------------------------------------------
(* Before the page is ready, and after an answer was waited for.            *)

(* A request that stays outstanding is still there, as it was.              *)
LEMMA StaysThere ==
    ASSUME Typed, NEW t, NEW i, Continues(calls', t, i), NEW k \in DOMAIN calls \ {i}
    PROVE  \E j \in DOMAIN calls' : /\ calls'[j].op = calls[k].op
                                    /\ calls'[j].path = calls[k].path
                                    /\ calls'[j].push = calls[k].push
<1>1. PICK f : Traced(f, calls', t, i)
  BY DEF Continues
<1>2. calls \in Seq(Call) /\ calls' \in Seq(Call)
  BY DEF Typed, CallsKnown, Continues
<1>3. PICK j \in DOMAIN calls' : f[j] = k
  BY <1>1 DEF Traced
<1>4. DOMAIN calls \subseteq Nat \ {0}
  BY <1>2
<1>5. \A m \in DOMAIN t : m \in Nat /\ m > 0
  BY DEF Continues
<1>6. k \in Nat /\ k > 0
  BY <1>4
<1>7. ~ \E m \in DOMAIN t : f[j] = -m
  BY <1>3, <1>5, <1>6
<1>8. Alike(calls'[j], calls[k])
  BY <1>1, <1>3, <1>7 DEF Traced
<1>9. \A c, d \in Call : Alike(c, d) => c.op = d.op /\ c.path = d.path /\ c.push = d.push
  BY DEF Alike, Call
<1>10. calls'[j] \in Call /\ calls[k] \in Call
  BY <1>2
<1>11. QED BY <1>8, <1>9, <1>10

(* Where a request comes from.                                              *)
LEMMA ComesFrom ==
    ASSUME Typed, NEW t, NEW i, Continues(calls', t, i), NEW j \in DOMAIN calls'
    PROVE  \/ \E k \in DOMAIN calls \ {i} : /\ calls'[j].op = calls[k].op
                                            /\ calls'[j].node = calls[k].node
                                            /\ calls'[j].path = calls[k].path
                                            /\ calls'[j].push = calls[k].push
           \/ \E m \in DOMAIN t : calls'[j] = t[m]
<1>1. PICK f : Traced(f, calls', t, i)
  BY DEF Continues
<1>2. calls \in Seq(Call) /\ calls' \in Seq(Call)
  BY DEF Typed, CallsKnown, Continues
<1>3. \A c, d \in Call : Alike(c, d) => /\ c.op = d.op /\ c.node = d.node
                                        /\ c.path = d.path /\ c.push = d.push
  BY DEF Alike, Call
<1>4. \/ f[j] \in DOMAIN calls \ {i} /\ Alike(calls'[j], calls[f[j]])
      \/ \E m \in DOMAIN t : f[j] = -m /\ calls'[j] = t[m]
  BY <1>1 DEF Traced
<1>5. calls'[j] \in Call /\ \A k \in DOMAIN calls : calls[k] \in Call
  BY <1>2
<1>6. QED BY <1>3, <1>4, <1>5

(* Before the page is ready nothing is asked for, and who does not wait is  *)
(* known to.                                                                *)
ReadyKnown == ~ready => calls = <<>> /\ (hurried \/ here = AtStart)

(* That stays so.                                                           *)
LEMMA ReadyStep ==
    ASSUME Typed, Next, ReadyKnown
    PROVE  ReadyKnown'
<1>0. calls \in Seq(Call)
  BY DEF Typed, CallsKnown
<1>1. SUFFICES ASSUME ~ready' PROVE calls' = <<>> /\ (hurried' \/ here' = AtStart')
  BY DEF ReadyKnown
<1>1a. AtStart' = [node |-> Start, path |-> PathOf[Start]']
  BY DEF AtStart
<1>2. ~ready
  <2>1. ready' = TRUE \/ ready' = ready
    BY DEF Next, User, Answer, ApiReady, OpenRow, Crumb, TreeClick, TreeExpand, GoTo, Going,
           AnswerNode, AnswerList, AnswerChildren, LoadMore, AnswerMore, AskRename, AskDelete,
           AskMove, AskNew, Opening, SubmitByClick, SubmitByEnter, Submitting, CancelDialog,
           EscapeDialog, AnswerCreate, AnswerRename, AnswerDelete, PickFolder, ListFolder,
           AnswerListing, MoveHere, AnswerMove, ClosePopover, Lose
  <2>2. QED BY <1>1, <2>1
<1>3. calls = <<>> /\ (hurried \/ here = AtStart) /\ DOMAIN calls = {}
  BY <1>2 DEF ReadyKnown
<1>4. AtStart' = AtStart
  <2>1. UNCHANGED api
    BY <1>3, WhoChanges DEF WhoStatement, ApiChanges
  <2>2. PathOf' = PathOf
    BY <2>1 DEF api, PathOf
  <2>3. QED BY <1>1a, <2>2 DEF AtStart
<1>5. CASE NavAsks
  <2>1. ~ApiReady
    BY <1>1 DEF ApiReady
  <2>2. calls' = calls
    BY <1>2, <1>5, <2>1 DEF NavAsks, OpenRow, Crumb, TreeClick, GoTo, Change, ChangeWhen
  <2>3. hurried'
    BY <1>2, <1>5, <2>1 DEF NavAsks, OpenRow, Crumb, TreeClick, GoTo, Act
  <2>4. QED BY <1>3, <2>2, <2>3
<1>6. CASE OtherAsks
  <2>1. calls' = calls /\ hurried'
    BY <1>2, <1>6 DEF OtherAsks, TreeExpand, LoadMore, MoveHere, ListFolder, Send, Act
  <2>2. QED BY <1>3, <2>1
<1>7. ASSUME NEW m \in Modal, NEW text \in Names, SubmitByClick(m, text) \/ SubmitByEnter(m, text)
      PROVE  calls' = calls /\ hurried'
  BY <1>2, <1>7 DEF SubmitByClick, SubmitByEnter, Submitting, Send, Act
<1>8. CASE GoTo(1)
  <2>1. /\ hurried' = (hurried \/ Pending \/ ~ready \/ ~Free)
        /\ UNCHANGED <<here, calls>>
    BY <1>8 DEF GoTo
  <2>2. hurried'
    BY <1>2, <2>1, Zenon
  <2>3. QED BY <1>3, <2>1, <2>2
<1>9. CASE Aside
  <2>0. UNCHANGED <<calls, here>> /\ (hurried' = hurried \/ hurried' = (hurried \/ Pending \/ ~ready))
    BY <1>9, AsideIs
  <2>1. hurried => hurried'
    BY <2>0, Zenon
  <2>2. QED BY <1>3, <1>4, <2>0, <2>1, Zenon
<1>10. QED BY <1>3, <1>5, <1>6, <1>7, <1>8, <1>9, StepKinds

(* ReadyKnown is an invariant.                                              *)
LEMMA ReadyAlways == Spec => []ReadyKnown
<1>1. Init => ReadyKnown
  BY DEF Init, ReadyKnown
<1>2. Typed /\ ReadyKnown /\ [Next]_vars => ReadyKnown'
  <2>1. SUFFICES ASSUME Typed, ReadyKnown, [Next]_vars PROVE ReadyKnown'
    OBVIOUS
  <2>2. CASE Next
    BY <2>1, <2>2, ReadyStep
  <2>3. CASE UNCHANGED vars
    <3>1. PathOf' = PathOf
      BY <2>3 DEF vars, PathOf
    <3>2. AtStart' = AtStart
      BY <3>1 DEF AtStart
    <3>3. QED BY <2>1, <2>3, <3>2 DEF vars, ReadyKnown
  <2>4. QED BY <2>1, <2>2, <2>3
<1>3. QED BY <1>1, <1>2, TypedAlways, PTL DEF Spec

(* The user waited: only the popover's listing may be outstanding.          *)
LEMMA Waited ==
    ASSUME Typed, ReadyKnown, ~hurried',
           \/ NavAsks \/ OtherAsks \/ GoTo(1)
           \/ \E m \in Modal, text \in Names : SubmitByClick(m, text) \/ SubmitByEnter(m, text)
    PROVE  ~hurried /\ \A i \in DOMAIN calls : calls[i].op = "listing"
<1>1. CASE ApiReady
  BY <1>1 DEF ApiReady, ReadyKnown
<1>2. CASE ~ApiReady
  <2>1. hurried' = (hurried \/ Pending \/ ~ready)
        \/ hurried' = (hurried \/ Pending \/ ~ready \/ ~Free)
    BY <1>2 DEF NavAsks, OpenRow, Crumb, TreeClick, GoTo, OtherAsks, TreeExpand, LoadMore, MoveHere,
                ListFolder, SubmitByClick, SubmitByEnter, Submitting, Act
  <2>2. ~hurried /\ ~Pending
    BY <2>1
  <2>3. QED BY <2>2 DEF Pending
<1>3. QED BY <1>1, <1>2

-----------------------------------------------------------------------------
(* The first directory, and the dialogs that wait for an answer.            *)

Excused == hurried \/ failures > 0

(* What excuses a dialog that waits is not forgotten.                       *)
LEMMA ExcusedStays ==
    ASSUME Typed, Next, Excused
    PROVE  Excused'
<1>1. \/ hurried' = hurried
      \/ hurried' = (hurried \/ Pending \/ ~ready)
      \/ hurried' = (hurried \/ Pending \/ ~ready \/ ~Free)
  BY DEF Next, User, Answer, ApiReady, OpenRow, Crumb, TreeClick, TreeExpand, GoTo, Going,
         AnswerNode, AnswerList, AnswerChildren, LoadMore, AnswerMore, AskRename, AskDelete,
         AskMove, AskNew, Opening, SubmitByClick, SubmitByEnter, Submitting, CancelDialog,
         EscapeDialog, AnswerCreate, AnswerRename, AnswerDelete, PickFolder, ListFolder,
         AnswerListing, MoveHere, AnswerMove, ClosePopover, Lose, Act
<1>2. hurried => hurried'
  BY <1>1, Zenon
<1>3. failures' = failures \/ failures' = failures + 1
  BY DEF Next, User, Answer, ApiReady, OpenRow, Crumb, TreeClick, TreeExpand, GoTo, Going,
         AnswerNode, AnswerList, AnswerChildren, LoadMore, AnswerMore, AskRename, AskDelete,
         AskMove, AskNew, Opening, SubmitByClick, SubmitByEnter, Submitting, CancelDialog,
         EscapeDialog, AnswerCreate, AnswerRename, AnswerDelete, PickFolder, ListFolder,
         AnswerListing, MoveHere, AnswerMove, ClosePopover, Lose, Act, bounds
<1>4. failures > 0 => failures' > 0
  <2>1. failures \in Nat
    BY DEF Typed, CountsKnown
  <2>2. QED BY <1>3, <2>1
<1>5. QED BY <1>2, <1>4 DEF Excused

(* A directory is shown and becomes the last entry of the history.          *)
LEMMA EntryIsAdded ==
    ASSUME Typed, NEW i \in DOMAIN calls, AnswerList(i), calls[i].push
    PROVE  LET at == [node |-> calls[i].node, path |-> calls[i].path]
           IN  /\ view' = at
               /\ past'.at > 1 /\ Len(past'.entries) = past'.at
               /\ past'.entries[past'.at] = at
<1>1. PICK e \in Seq(Place) : e = past.entries
  BY DEF Typed, ViewKnown
<1>2. PICK l \in Nat : l = Len(e) /\ DOMAIN e = 1..l
  OBVIOUS
<1>3. PICK k \in 1..l : k = past.at
  BY <1>1, <1>2 DEF Typed, ViewKnown
<1>4. SubSeq(e, 1, k) \in Seq(Place) /\ Len(SubSeq(e, 1, k)) = k
  BY <1>2
<1>5. PICK s \in Seq(Place) : s = SubSeq(e, 1, k) /\ Len(s) = k
  BY <1>4
<1>6. PICK at : at = [node |-> calls[i].node, path |-> calls[i].path]
  OBVIOUS
<1>7. view' = at /\ past' = [entries |-> Append(s, at), at |-> k + 1]
  BY <1>1, <1>3, <1>5, <1>6 DEF AnswerList, Visited
<1>8. Len(Append(s, at)) = k + 1 /\ Append(s, at)[k + 1] = at
  BY <1>5
<1>9. QED BY <1>6, <1>7, <1>8

Listing == \E i \in DOMAIN calls : calls[i].op = "list" /\ calls[i].push

(* Before the first directory is shown it is on its way.                    *)
FirstListing == Len(past.entries) = 1 => Excused \/ ~ready \/ Listing

(* That stays so, as the first request is answered or lost.                 *)
LEMMA FirstListingStep ==
    ASSUME Typed, ReadyKnown, Next, FirstListing
    PROVE  FirstListing'
<1>0. calls \in Seq(Call) /\ past \in [entries : Seq(Place), at : Nat]
      /\ past.at \in DOMAIN past.entries
  BY DEF Typed, CallsKnown, ViewKnown
<1>1. SUFFICES ASSUME Len(past'.entries) = 1, ~Excused', ready'
               PROVE  Listing'
  BY DEF FirstListing
<1>2. ~Excused
  BY <1>1, ExcusedStays
<1>3. past'.entries = past.entries
      \/ \E i \in DOMAIN calls : AnswerList(i) /\ calls[i].push
  <2>1. CASE NavAsks
    BY <2>1, NavAsked DEF NavAsking
  <2>2. CASE GoTo(1)
    <3>1. past' = [past EXCEPT !.at = 1]
      BY <2>2 DEF GoTo
    <3>2. QED BY <1>0, <3>1
  <2>3. CASE OtherAsks
    BY <2>3 DEF OtherAsks, TreeExpand, LoadMore, MoveHere, ListFolder
  <2>4. CASE Aside
    BY <2>4, AsideIs
  <2>5. ASSUME NEW m \in Modal, NEW text \in Names, SubmitByClick(m, text) \/ SubmitByEnter(m, text)
        PROVE  past' = past
    BY <2>5 DEF SubmitByClick, SubmitByEnter, Submitting
  <2>6. ASSUME NEW i \in DOMAIN calls, Answer(i) \/ Lose(i)
        PROVE  past' = past \/ (AnswerList(i) /\ calls[i].push)
    BY <2>6 DEF Answer, Lose, AnswerNode, AnswerList, Visited, AnswerChildren, AnswerMore, AnswerCreate,
                AnswerRename, AnswerDelete, AnswerListing, AnswerMove
  <2>7. QED BY <2>1, <2>2, <2>3, <2>4, <2>5, <2>6, StepKinds
<1>4. past'.entries = past.entries
  <2>1. ASSUME NEW i \in DOMAIN calls, AnswerList(i), calls[i].push PROVE FALSE
    <3>1. Len(past'.entries) > 1
      BY <2>1, EntryIsAdded
    <3>2. QED BY <1>1, <3>1
  <2>2. QED BY <1>3, <2>1
<1>5. ~ready \/ Listing
  BY <1>1, <1>2, <1>4 DEF FirstListing
<1>6. CASE ApiReady
  <2>1. PICK n \in Nodes : n = here.node
    <3>1. here = AtStart
      BY <1>2, <1>6 DEF ApiReady, ReadyKnown, Excused
    <3>2. QED BY <3>1, StartAssumption DEF AtStart
  <2>2. here.path \in Path
    BY DEF Typed, ViewKnown, Place
  <2>3. ChangeWhen(TRUE, calls, None, n, here.path, TRUE)
    BY <1>6, <2>1 DEF ApiReady
  <2>4. Continues(calls, <<>>, 0) /\ astray \in BOOLEAN
    BY <1>0, Unanswered DEF Typed, CountsKnown
  <2>5. PICK t : /\ Continues(calls', <<>> \o t, 0)
                 /\ Going1(t, None, n, here.path, TRUE) /\ t # <<>>
    <3>1. n # None
      BY NodesAssumption
    <3>2. QED BY <1>0, <2>2, <2>3, <2>4, <3>1, Changed
  <2>6. PICK c \in Call : t = <<c>> /\ c.op = "list" /\ c.push = TRUE
    <3>1. n # None
      BY NodesAssumption
    <3>2. QED BY <2>5, <3>1 DEF Going1
  <2>7. Continues(calls', t, 0)
    BY <2>5, GoingTyped
  <2>8. PICK f : Traced(f, calls', t, 0)
    BY <2>7 DEF Continues
  <2>9. 1 \in DOMAIN t /\ t[1] = c /\ DOMAIN t = {1}
    BY <2>6
  <2>10. PICK j \in DOMAIN calls' : f[j] = -1
    BY <2>8, <2>9 DEF Traced
  <2>11. DOMAIN calls \subseteq Nat
    BY <1>0
  <2>12. calls'[j] = t[1]
    <3>1. f[j] \notin DOMAIN calls
      BY <2>10, <2>11
    <3>2. QED BY <2>8, <2>9, <3>1 DEF Traced
  <2>13. QED BY <2>6, <2>9, <2>12 DEF Listing
<1>7. CASE Listing /\ ~ApiReady
  <2>1. PICK k \in DOMAIN calls : calls[k].op = "list" /\ calls[k].push
    BY <1>7 DEF Listing
  <2>2. ASSUME NEW t, NEW i, Continues(calls', t, i), i # k PROVE Listing'
    <3>1. k \in DOMAIN calls \ {i}
      BY <2>2
    <3>2. QED BY <2>1, <2>2, <3>1, StaysThere DEF Listing
  <2>3. k # 0
    BY <1>0
  <2>4. CASE UNCHANGED calls
    BY <1>7, <2>4 DEF Listing
  <2>5. CASE NavAsks
    <3>1. PICK t : Continues(calls', t, 0)
      BY <2>5, NavAsked DEF NavAsking
    <3>2. QED BY <2>2, <2>3, <3>1
  <2>6. CASE OtherAsks
    <3>1. PICK c \in Call : Send(<<c>>)
      BY <2>6, OtherAsked DEF OtherAsking
    <3>2. <<c>> \in Seq(Call)
      OBVIOUS
    <3>3. \E t : Continues(calls', t, 0)
      BY <1>0, <3>1, <3>2, Sent
    <3>4. QED BY <2>2, <2>3, <3>3
  <2>7. ASSUME NEW m \in Modal, NEW text \in Names, SubmitByClick(m, text) \/ SubmitByEnter(m, text)
        PROVE  Listing'
    <3>1. PICK ms \in SUBSET Modal, times \in [Modal -> Nat] : Submits(ms, times, m, text)
      BY <2>7, SubmitsIs
    <3>2. PICK t : Made(t, Times(ms, times), Modal) /\ Send(t)
      BY <3>1, Submitted DEF Submits
    <3>3. t \in Seq(Call)
      BY <3>2 DEF Made
    <3>4. \E u : Continues(calls', u, 0)
      BY <1>0, <3>2, <3>3, Sent
    <3>5. QED BY <2>2, <2>3, <3>4
  <2>8. CASE GoTo(1) \/ Aside
    <3>1. UNCHANGED calls
      BY <2>8, AsideIs DEF GoTo
    <3>2. QED BY <2>4, <3>1
  <2>9. ASSUME NEW i \in DOMAIN calls, Lose(i) PROVE FALSE
    <3>1. failures' = failures + 1 /\ failures \in Nat
      BY <2>9 DEF Lose, Typed, CountsKnown
    <3>2. QED BY <1>1, <3>1 DEF Excused
  <2>10. ASSUME NEW i \in DOMAIN calls, Answer(i) PROVE Listing'
    <3>1. i # k
      <4>1. CASE i = k
        <5>1. AnswerList(i)
          BY <2>1, <2>10, <4>1 DEF Answer, AnswerNode, AnswerChildren, AnswerMore, AnswerCreate,
                                   AnswerRename, AnswerDelete, AnswerListing, AnswerMove
        <5>2. calls[i].push
          BY <2>1, <4>1
        <5>3. Len(past'.entries) > 1
          BY <5>1, <5>2, EntryIsAdded
        <5>4. QED BY <1>1, <5>3
      <4>2. QED BY <4>1
    <3>2. Continues(Answered(i), <<>>, i)
      BY <1>0, OneAnswered
    <3>3. Continues(Outdated(Answered(i)), <<>>, i)
      BY <1>0, <3>2, TableRedrawn
    <3>4. CASE calls' = Answered(i) \/ calls' = Outdated(Answered(i))
      BY <2>2, <3>1, <3>2, <3>3, <3>4
    <3>5. CASE AnswerNode(i)
      BY <2>2, <3>1, <3>5, NodeAnswered
    <3>6. CASE AnswerCreate(i)
      BY <2>2, <3>1, <3>6, Created
    <3>7. QED BY <2>10, <3>4, <3>5, <3>6 DEF Answer, AnswerList, AnswerChildren, AnswerMore,
               AnswerRename, AnswerDelete, AnswerListing, AnswerMove
  <2>11. QED BY <2>5, <2>6, <2>7, <2>8, <2>9, <2>10, StepKinds
<1>8. CASE ~ready /\ ~ApiReady
  <2>1. ready' = ready
    BY <1>8 DEF Next, User, Answer, ApiReady, OpenRow, Crumb, TreeClick, TreeExpand, GoTo, Going,
           AnswerNode, AnswerList, AnswerChildren, LoadMore, AnswerMore, AskRename, AskDelete,
           AskMove, AskNew, Opening, SubmitByClick, SubmitByEnter, Submitting, CancelDialog,
           EscapeDialog, AnswerCreate, AnswerRename, AnswerDelete, PickFolder, ListFolder,
           AnswerListing, MoveHere, AnswerMove, ClosePopover, Lose
  <2>2. QED BY <1>1, <1>8, <2>1
<1>9. QED BY <1>5, <1>6, <1>7, <1>8

NotOfDialogs(t) == \A m \in DOMAIN t : t[m].op \notin Modal

(* Only submissions send requests of dialogs.                               *)
LEMMA OtherRequests ==
    ASSUME Typed, Next
    PROVE  \/ \E m \in Modal, text \in Names : SubmitByClick(m, text) \/ SubmitByEnter(m, text)
           \/ /\ NavAsks \/ OtherAsks \/ GoTo(1) \/ Aside
              /\ \E t : Continues(calls', t, 0) /\ NotOfDialogs(t)
           \/ \E i \in DOMAIN calls : /\ Answer(i) \/ Lose(i)
                                      /\ \E t : Continues(calls', t, i) /\ NotOfDialogs(t)
<1>0. calls \in Seq(Call)
  BY DEF Typed, CallsKnown
<1>1. NotOfDialogs(<<>>)
  BY DEF NotOfDialogs
<1>2. \A c : c.op \notin Modal => NotOfDialogs(<<c>>)
  <2>1. TAKE c
  <2>2. \A m \in DOMAIN <<c>> : (<<c>>)[m] = c
    OBVIOUS
  <2>3. QED BY <2>2 DEF NotOfDialogs
<1>3. CASE NavAsks
  <2>1. PICK t, id, n, p, push : NavAsking(t, id, n, p, push)
    BY <1>3, NavAsked
  <2>2. Going1(t, id, n, p, push)
    BY <2>1 DEF NavAsking
  <2>3. CASE t = <<>>
    BY <1>1, <1>3, <2>1, <2>3 DEF NavAsking
  <2>4. CASE t # <<>>
    <3>1. PICK c : t = <<c>> /\ c.op \in {"node", "list"}
      BY <2>2, <2>4 DEF Going1
    <3>2. c.op \notin Modal
      BY <3>1 DEF Modal
    <3>3. QED BY <1>2, <1>3, <2>1, <3>1, <3>2 DEF NavAsking
  <2>5. QED BY <2>3, <2>4
<1>4. CASE OtherAsks
  <2>1. PICK c \in Call : c.op \in {"children", "more", "listing", "move"} /\ Send(<<c>>)
    BY <1>4, OtherAsked DEF OtherAsking
  <2>2. <<c>> \in Seq(Call) /\ c.op \notin Modal
    BY <2>1 DEF Modal
  <2>3. Continues(calls', <<>>, 0) \/ Continues(calls', <<c>>, 0)
    BY <1>0, <2>1, <2>2, Sent
  <2>4. QED BY <1>1, <1>2, <1>4, <2>2, <2>3
<1>5. CASE GoTo(1) \/ Aside
  <2>1. UNCHANGED calls
    BY <1>5, AsideIs DEF GoTo
  <2>2. Continues(calls, <<>>, 0)
    BY <1>0, Unanswered
  <2>3. QED BY <1>1, <1>5, <2>1, <2>2
<1>6. ASSUME NEW i \in DOMAIN calls, Answer(i) \/ Lose(i)
      PROVE  \E t : Continues(calls', t, i) /\ NotOfDialogs(t)
  <2>1. Continues(Answered(i), <<>>, i)
    BY <1>0, OneAnswered
  <2>2. Continues(Outdated(Answered(i)), <<>>, i)
    BY <1>0, <2>1, TableRedrawn
  <2>3. CASE calls' = Answered(i) \/ calls' = Outdated(Answered(i))
    BY <1>1, <2>1, <2>2, <2>3
  <2>4. CASE AnswerNode(i)
    <3>1. Continues(calls', <<>>, i) \/ \E c : Continues(calls', <<c>>, i) /\ c.op = "list"
      BY <2>4, NodeAnswered
    <3>2. "list" \notin Modal
      BY DEF Modal
    <3>3. QED BY <1>1, <1>2, <3>1, <3>2
  <2>5. CASE AnswerCreate(i)
    <3>1. PICK t : Continues(calls', t, i) /\ Reloading(t)
      BY <2>5, Created
    <3>2. NotOfDialogs(t)
      BY <3>1 DEF Reloading, NotOfDialogs, Nav, Modal
    <3>3. QED BY <3>1, <3>2
  <2>6. QED BY <1>6, <2>3, <2>4, <2>5 DEF Answer, Lose, AnswerList, AnswerChildren, AnswerMore,
             AnswerRename, AnswerDelete, AnswerListing, AnswerMove
<1>7. QED BY <1>3, <1>4, <1>5, <1>6, StepKinds

-----------------------------------------------------------------------------
(* A busy dialog waits for a request that is outstanding.                   *)
Awaited(m) == \E i \in DOMAIN calls : calls[i].op = m

(* That stays so: who becomes busy sends, who is answered is busy no more.  *)
LEMMA BusyStep ==
    ASSUME Typed, ReadyKnown, FirstListing, Next, BusyIsAwaited
    PROVE  BusyIsAwaited'
<1>0. calls \in Seq(Call) /\ busy \subseteq Modal
  BY DEF Typed, CallsKnown, HeldKnown, DialogsTypeOK
<1>1. SUFFICES ASSUME ~Excused', NEW m \in busy' PROVE Awaited(m)'
  BY DEF BusyIsAwaited, Excused, Awaited
<1>2. ~Excused
  BY <1>1, ExcusedStays
<1>3. ASSUME NEW t, NEW i, Continues(calls', t, i), m \in busy, i \in DOMAIN calls => calls[i].op # m
      PROVE  Awaited(m)'
  <2>1. PICK k \in DOMAIN calls : calls[k].op = m
    BY <1>2, <1>3 DEF BusyIsAwaited, Excused
  <2>2. k \in DOMAIN calls \ {i}
    BY <1>3, <2>1
  <2>3. QED BY <1>3, <2>1, <2>2, StaysThere DEF Awaited
<1>4. 0 \notin DOMAIN calls
  BY <1>0
<1>5. ASSUME NEW x \in Modal, NEW text \in Names, SubmitByClick(x, text) \/ SubmitByEnter(x, text)
      PROVE  Awaited(m)'
  <2>1. PICK ms \in SUBSET Modal, times \in [Modal -> Nat] : Submits(ms, times, x, text)
    BY <1>5, SubmitsIs
  <2>2. PICK t : Made(t, Times(ms, times), Modal) /\ Send(t)
    BY <2>1, Submitted DEF Submits
  <2>3. t \in Seq(Call)
    BY <2>2 DEF Made
  <2>4. ready /\ ~Pending
    <3>1. hurried' = (hurried \/ Pending \/ ~ready)
      BY <2>1 DEF Submits, Submitting, Act
    <3>2. ~hurried'
      BY <1>1 DEF Excused
    <3>3. QED BY <3>1, <3>2, Zenon
  <2>5. Continues(calls', t, 0)
    BY <1>0, <2>2, <2>3, <2>4, Sent
  <2>6. CASE m \in busy
    BY <1>3, <1>4, <2>5, <2>6
  <2>7. CASE m \notin busy
    <3>1. /\ m \in ms /\ ~Unchanged(m, held'[m].text)
      <4>1. PICK typed : /\ held' = typed
                         /\ busy' = busy \cup (ms \ {k \in ms : Unchanged(k, typed[k].text)})
        BY <2>1 DEF Submits, Submitting, Submit
      <4>2. QED BY <2>7, <4>1
    <3>2. ~WithoutParent(m)
      <4>1. ~Listing
        BY <2>4 DEF Listing, Pending
      <4>2. Len(past.entries) # 1
        BY <1>2, <2>4, <4>1 DEF FirstListing
      <4>3. QED BY <4>2 DEF WithoutParent
    <3>3. m \in Modal /\ Times(ms, times)[m] > 0
      BY <2>1, <3>1, <3>2 DEF Times, Sends, Submits
    <3>4. PICK k \in DOMAIN t : t[k].op = m
      BY <2>2, <3>3 DEF Made
    <3>5. PICK f : Traced(f, calls', t, 0)
      BY <2>5 DEF Continues
    <3>6. PICK j \in DOMAIN calls' : f[j] = -k
      BY <3>4, <3>5 DEF Traced
    <3>7. \A q \in DOMAIN t : q \in Nat /\ q > 0
      BY <2>3
    <3>8. f[j] \notin DOMAIN calls
      <4>1. DOMAIN calls \subseteq Nat
        BY <1>0
      <4>2. k \in Nat /\ k > 0
        BY <3>7
      <4>3. QED BY <3>6, <4>1, <4>2
    <3>9. PICK q \in DOMAIN t : f[j] = -q /\ calls'[j] = t[q]
      BY <3>5, <3>8 DEF Traced
    <3>10. q = k
      BY <3>6, <3>7, <3>9
    <3>11. QED BY <3>4, <3>9, <3>10 DEF Awaited
  <2>8. QED BY <2>6, <2>7
<1>6. ASSUME NEW t, Continues(calls', t, 0), NavAsks \/ OtherAsks \/ GoTo(1) \/ Aside
      PROVE  Awaited(m)'
  <2>1. busy' = busy
    BY <1>6 DEF NavAsks, ApiReady, OpenRow, Crumb, TreeClick, GoTo, Going, OtherAsks, TreeExpand,
                LoadMore, MoveHere, ListFolder, Aside, AskRename, AskDelete, AskMove, AskNew,
                OpenDialog, CancelDialog, Cancel, EscapeDialog, CloseByEscape, PickFolder,
                ClosePopover, page, dialogs
  <2>2. QED BY <1>3, <1>4, <1>6, <2>1
<1>7. ASSUME NEW i \in DOMAIN calls, NEW t, Continues(calls', t, i), Answer(i) \/ Lose(i)
      PROVE  Awaited(m)'
  <2>1. CASE Lose(i)
    <3>1. failures' = failures + 1 /\ failures \in Nat
      BY <2>1 DEF Lose, Typed, CountsKnown
    <3>2. QED BY <1>1, <3>1 DEF Excused
  <2>2. CASE Answer(i)
    <3>1. \/ busy' = busy \ {calls[i].op}
          \/ busy' = busy /\ calls[i].op \notin Modal
      BY <2>2 DEF Answer, AnswerNode, AnswerList, AnswerChildren, AnswerMore, AnswerCreate,
                  AnswerRename, AnswerDelete, AnswerListing, AnswerMove, Respond, page, dialogs, Modal
    <3>2. m \in busy /\ calls[i].op # m
      BY <1>0, <3>1
    <3>3. QED BY <1>3, <1>7, <3>2
  <2>3. QED BY <1>7, <2>1, <2>2
<1>8. QED BY <1>5, <1>6, <1>7, OtherRequests

(* FirstListing is an invariant.                                            *)
LEMMA FirstListingAlways == Spec => []FirstListing
<1>1. Init => FirstListing
  BY DEF Init, FirstListing
<1>2. Typed /\ ReadyKnown /\ FirstListing /\ [Next]_vars => FirstListing'
  <2>1. SUFFICES ASSUME Typed, ReadyKnown, FirstListing, [Next]_vars PROVE FirstListing'
    OBVIOUS
  <2>2. CASE Next
    BY <2>1, <2>2, FirstListingStep
  <2>3. CASE UNCHANGED vars
    BY <2>1, <2>3 DEF vars, FirstListing, Excused, Listing
  <2>4. QED BY <2>1, <2>2, <2>3
<1>3. QED BY <1>1, <1>2, TypedAlways, ReadyAlways, PTL DEF Spec

(* Nothing but its response ends the state in which a dialog cannot even be *)
(* closed, and that is under way: unless one was lost, or the user did not  *)
(* wait.                                                                    *)
THEOREM NoDialogHangs == Spec => []BusyIsAwaited
<1>1. Init => BusyIsAwaited
  BY DEF Init, DialogsInit, BusyIsAwaited
<1>2. Typed /\ ReadyKnown /\ FirstListing /\ BusyIsAwaited /\ [Next]_vars => BusyIsAwaited'
  <2>1. SUFFICES ASSUME Typed, ReadyKnown, FirstListing, BusyIsAwaited, [Next]_vars
                 PROVE  BusyIsAwaited'
    OBVIOUS
  <2>2. CASE Next
    BY <2>1, <2>2, BusyStep
  <2>3. CASE UNCHANGED vars
    BY <2>1, <2>3 DEF vars, BusyIsAwaited
  <2>4. QED BY <2>1, <2>2, <2>3
<1>3. QED BY <1>1, <1>2, TypedAlways, ReadyAlways, FirstListingAlways, PTL DEF Spec

-----------------------------------------------------------------------------
(* The requests of the dialogs.                                             *)

(* Without Escape, a dialog's handler is on the document exactly while it   *)
(* is shown, one dialog is shown at a time, and requests are its own.       *)
OneDialog ==
    /\ live = open /\ busy \subseteq open
    /\ \A m \in Modal : stale[m] = 0
    /\ \A m, k \in open : m = k

DialogsKnown == escapes = 0 => OneDialog /\ OwnRequests

(* No request of a dialog is left.                                          *)
LEMMA NoneOfDialogs ==
    ASSUME Typed, NEW t, NEW i, Continues(calls', t, i), NotOfDialogs(t),
           \A k \in DOMAIN calls \ {i} : calls[k].op \notin Modal
    PROVE  OwnRequests'
<1>1. ASSUME NEW j \in DOMAIN calls' PROVE calls'[j].op \notin Modal
  BY <1>1, ComesFrom DEF NotOfDialogs
<1>2. QED BY <1>1 DEF OwnRequests

(* The dialogs are left alone, and what is sent or answered is not theirs.  *)
LEMMA OwnKept ==
    ASSUME Typed, OwnRequests, NEW t, NEW i, Continues(calls', t, i), NotOfDialogs(t),
           UNCHANGED <<open, busy>>
    PROVE  OwnRequests'
<1>1. PICK f : Traced(f, calls', t, i)
  BY DEF Continues
<1>2. calls \in Seq(Call) /\ calls' \in Seq(Call)
  BY DEF Typed, CallsKnown, Continues
<1>3. \A c, d \in Call : Alike(c, d) => c.op = d.op
  BY DEF Alike, Call
<1>4. ASSUME NEW j \in DOMAIN calls', calls'[j].op \in Modal
      PROVE  f[j] \in DOMAIN calls \ {i} /\ calls'[j].op = calls[f[j]].op
  <2>1. ~ \E m \in DOMAIN t : calls'[j] = t[m]
    BY <1>4 DEF NotOfDialogs
  <2>2. f[j] \in DOMAIN calls \ {i} /\ Alike(calls'[j], calls[f[j]])
    BY <1>1, <2>1 DEF Traced
  <2>3. calls'[j] \in Call /\ calls[f[j]] \in Call
    BY <1>2, <2>2
  <2>4. QED BY <1>3, <2>2, <2>3
<1>5. ASSUME NEW j \in DOMAIN calls', calls'[j].op \in Modal
      PROVE  /\ calls'[j].op \in open \cap busy
             /\ \A k \in DOMAIN calls' \ {j} : calls'[k].op # calls'[j].op
  <2>1. calls[f[j]].op \in open \cap busy
        /\ \A k \in DOMAIN calls \ {f[j]} : calls[k].op # calls[f[j]].op
    BY <1>4, <1>5 DEF OwnRequests
  <2>2. ASSUME NEW k \in DOMAIN calls' \ {j}, calls'[k].op = calls'[j].op PROVE FALSE
    <3>1. f[k] \in DOMAIN calls /\ calls[f[k]].op = calls[f[j]].op
      BY <1>4, <1>5, <2>2
    <3>2. f[k] = f[j]
      BY <2>1, <3>1
    <3>3. QED BY <1>1, <1>5, <2>2, <3>2 DEF Traced
  <2>3. QED BY <1>4, <1>5, <2>1, <2>2
<1>6. QED BY <1>5 DEF OwnRequests

(* That stays so, as long as no dialog is closed with Escape.               *)
LEMMA DialogsStep ==
    ASSUME Typed, Next, DialogsKnown, escapes' = 0
    PROVE  OneDialog' /\ OwnRequests'
<1>0. /\ calls \in Seq(Call) /\ escapes \in Nat
      /\ open \subseteq Modal /\ busy \subseteq Modal /\ live \subseteq Modal
      /\ stale \in [Modal -> Nat]
  BY DEF Typed, CallsKnown, CountsKnown, HeldKnown, DialogsTypeOK
<1>1. escapes = 0
  <2>1. escapes' = escapes \/ escapes' = escapes + 1
    BY DEF Next, User, Answer, ApiReady, OpenRow, Crumb, TreeClick, TreeExpand, GoTo, Going,
         AnswerNode, AnswerList, AnswerChildren, LoadMore, AnswerMore, AskRename, AskDelete,
         AskMove, AskNew, Opening, SubmitByClick, SubmitByEnter, Submitting, CancelDialog,
         EscapeDialog, AnswerCreate, AnswerRename, AnswerDelete, PickFolder, ListFolder,
         AnswerListing, MoveHere, AnswerMove, ClosePopover, Lose, Act, bounds
  <2>2. QED BY <1>0, <2>1
<1>2. OneDialog /\ OwnRequests
  BY <1>1 DEF DialogsKnown
<1>3. CASE UNCHANGED dialogs /\ \E t, i : Continues(calls', t, i) /\ NotOfDialogs(t)
  <2>1. OneDialog'
    BY <1>2, <1>3 DEF dialogs, OneDialog
  <2>2. OwnRequests'
    BY <1>2, <1>3, OwnKept DEF dialogs
  <2>3. QED BY <2>1, <2>2
<1>4. ASSUME NEW m \in Modal, NEW text \in Names, SubmitByClick(m, text) \/ SubmitByEnter(m, text)
      PROVE  OneDialog' /\ OwnRequests'
  <2>1. PICK ms \in SUBSET Modal, times \in [Modal -> Nat] : Submits(ms, times, m, text)
    BY <1>4, SubmitsIs
  <2>2. PICK t : Made(t, Times(ms, times), Modal) /\ Send(t)
    BY <2>1, Submitted DEF Submits
  <2>3. m \in open \ busy
    BY <2>1 DEF Submits
  <2>4. open = {m} /\ live = {m} /\ busy = {}
    BY <1>2, <2>3 DEF OneDialog
  <2>5. ms = {m} /\ times[m] = 1
    <3>1. \A x \in Modal : Handlers(x) = IF x = m THEN 1 ELSE 0
      BY <1>2, <2>4 DEF OneDialog, Handlers
    <3>2. CASE ms = {m} /\ times = Once
      BY <3>2 DEF Once
    <3>3. CASE ms = {x \in Modal : Handlers(x) > 0} /\ times = AllHandlers
      <4>1. ms = {m}
        BY <3>1, <3>3
      <4>2. QED BY <3>1, <3>3, <4>1 DEF AllHandlers
    <3>4. QED BY <2>1, <3>2, <3>3 DEF Submits
  <2>6. PICK typed, closing : /\ held' = typed
                              /\ closing = {k \in ms : Unchanged(k, typed[k].text)}
                              /\ busy' = busy \cup (ms \ closing) /\ open' = open \ closing
                              /\ live' = live \ closing /\ stale' = stale
    BY <2>1 DEF Submits, Submitting, Submit
  <2>7. OneDialog'
    BY <1>2, <2>4, <2>5, <2>6 DEF OneDialog
  <2>8. \A x \in Modal : Times(ms, times)[x] > 0 => x = m /\ Times(ms, times)[x] = 1 /\ x \notin closing
    BY <2>5, <2>6 DEF Times, Sends
  <2>9. \A k \in DOMAIN t : t[k].op = m /\ m \notin closing
    BY <2>2, <2>8 DEF Made
  <2>10. \A k, l \in DOMAIN t : k = l
    <3>1. ASSUME NEW k \in DOMAIN t, NEW l \in DOMAIN t, k # l PROVE FALSE
      <4>1. Times(ms, times)[t[k].op] > 1
        BY <2>2, <2>9, <3>1 DEF Made
      <4>2. Times(ms, times)[t[k].op] = 1
        BY <2>2, <2>8, <3>1 DEF Made
      <4>3. QED BY <4>1, <4>2
    <3>2. QED BY <3>1
  <2>11. \A k \in DOMAIN calls : calls[k].op \notin Modal
    BY <1>2, <2>4 DEF OwnRequests
  <2>12. t \in Seq(Call)
    BY <2>2 DEF Made
  <2>13. CASE Continues(calls', <<>>, 0)
    <3>1. NotOfDialogs(<<>>)
      BY DEF NotOfDialogs
    <3>2. QED BY <2>7, <2>11, <2>13, <3>1, NoneOfDialogs
  <2>14. CASE Continues(calls', t, 0)
    <3>1. PICK f : Traced(f, calls', t, 0)
      BY <2>14 DEF Continues
    <3>2. \A c, d \in Call : Alike(c, d) => c.op = d.op
      BY DEF Alike, Call
    <3>3. calls' \in Seq(Call)
      BY <2>14 DEF Continues
    <3>4. ASSUME NEW j \in DOMAIN calls', calls'[j].op \in Modal
          PROVE  \E k \in DOMAIN t : f[j] = -k /\ calls'[j].op = m
      <4>1. CASE f[j] \in DOMAIN calls \ {0} /\ Alike(calls'[j], calls[f[j]])
        <5>1. calls'[j] \in Call /\ calls[f[j]] \in Call
          BY <1>0, <3>3, <4>1
        <5>2. QED BY <2>11, <3>2, <3>4, <4>1, <5>1
      <4>2. CASE \E k \in DOMAIN t : f[j] = -k /\ calls'[j] = t[k]
        BY <2>9, <4>2
      <4>3. QED BY <3>1, <4>1, <4>2 DEF Traced
    <3>5. ASSUME NEW j \in DOMAIN calls', calls'[j].op \in Modal
          PROVE  /\ calls'[j].op \in open' \cap busy'
                 /\ \A k \in DOMAIN calls' \ {j} : calls'[k].op # calls'[j].op
      <4>1. PICK k \in DOMAIN t : f[j] = -k /\ calls'[j].op = m
        BY <3>4, <3>5
      <4>2. m \in open' \cap busy'
        BY <2>4, <2>5, <2>6, <2>9, <4>1
      <4>3. ASSUME NEW l \in DOMAIN calls' \ {j}, calls'[l].op = calls'[j].op PROVE FALSE
        <5>1. PICK q \in DOMAIN t : f[l] = -q
          BY <3>4, <3>5, <4>3
        <5>2. q = k
          BY <2>10
        <5>3. QED BY <3>1, <4>1, <4>3, <5>1, <5>2 DEF Traced
      <4>4. QED BY <4>1, <4>2, <4>3
    <3>6. QED BY <2>7, <3>5 DEF OwnRequests
  <2>15. QED BY <1>0, <2>2, <2>12, <2>13, <2>14, Sent
<1>5. ASSUME NEW m \in Modal, NEW what, OpenDialog(m, what), Free,
             NEW t, Continues(calls', t, 0), NotOfDialogs(t)
      PROVE  OneDialog' /\ OwnRequests'
  <2>1. open = {} /\ live = {} /\ busy = {}
    BY <1>2, <1>5 DEF OneDialog, Free
  <2>2. /\ open' = {m} /\ live' = {m} /\ busy' = busy
        /\ stale' = [stale EXCEPT ![m] = IF m \in live THEN stale[m] + 1 ELSE stale[m]]
    BY <1>5, <2>1 DEF OpenDialog
  <2>3. \A x \in Modal : stale'[x] = stale[x]
    BY <1>0, <2>1, <2>2
  <2>4. OneDialog'
    BY <1>2, <2>1, <2>2, <2>3 DEF OneDialog
  <2>5. \A k \in DOMAIN calls : calls[k].op \notin Modal
    BY <1>2, <2>1 DEF OwnRequests
  <2>6. QED BY <1>5, <2>4, <2>5, NoneOfDialogs
<1>6. ASSUME NEW m \in Modal, CancelDialog(m) PROVE OneDialog' /\ OwnRequests'
  <2>1. /\ m \in open \ busy /\ open' = open \ {m} /\ live' = live \ {m}
        /\ busy' = busy /\ stale' = stale /\ calls' = calls
    BY <1>6 DEF CancelDialog, Cancel
  <2>2. OneDialog'
    BY <1>2, <2>1 DEF OneDialog
  <2>3. OwnRequests'
    BY <1>2, <2>1 DEF OwnRequests
  <2>4. QED BY <2>2, <2>3
<1>7. ASSUME NEW m \in Modal, EscapeDialog(m) PROVE FALSE
  <2>1. escapes' = escapes + 1
    BY <1>7 DEF EscapeDialog
  <2>2. QED BY <1>0, <2>1
<1>8. ASSUME NEW i \in DOMAIN calls, AnswerCreate(i) \/ AnswerRename(i) \/ AnswerDelete(i),
             NEW t, Continues(calls', t, i), NotOfDialogs(t)
      PROVE  OneDialog' /\ OwnRequests'
  <2>1. PICK m, ok : m = calls[i].op /\ m \in Modal /\ Respond(m, ok)
    BY <1>8 DEF AnswerCreate, AnswerRename, AnswerDelete, Modal
  <2>2. /\ m \in open \cap busy
        /\ \A j \in DOMAIN calls \ {i} : calls[j].op # m
    BY <1>2, <2>1 DEF OwnRequests
  <2>3. /\ busy' = busy \ {m} /\ stale' = stale
        /\ \/ open' = open \ {m} /\ live' = live \ {m}
           \/ open' = open /\ live' = live
    BY <2>1 DEF Respond
  <2>4. OneDialog'
    BY <1>2, <2>2, <2>3 DEF OneDialog
  <2>5. \A k \in DOMAIN calls \ {i} : calls[k].op \notin Modal
    BY <1>2, <2>2 DEF OwnRequests, OneDialog
  <2>6. QED BY <1>8, <2>4, <2>5, NoneOfDialogs
<1>9. ASSUME NEW t, Continues(calls', t, 0), NotOfDialogs(t), NavAsks \/ OtherAsks \/ GoTo(1) \/ Aside
      PROVE  OneDialog' /\ OwnRequests'
  <2>1. CASE UNCHANGED dialogs
    BY <1>3, <1>9, <2>1
  <2>2. CASE NavAsks \/ OtherAsks \/ GoTo(1)
    <3>1. UNCHANGED dialogs
      BY <2>2 DEF NavAsks, ApiReady, OpenRow, Crumb, TreeClick, GoTo, Going, OtherAsks, TreeExpand,
                  LoadMore, MoveHere, ListFolder, page, dialogs
    <3>2. QED BY <2>1, <3>1
  <2>3. CASE Aside
    <3>1. \/ UNCHANGED dialogs
          \/ \E m \in Modal : \E what : OpenDialog(m, what) /\ Free
          \/ \E m \in Modal : CancelDialog(m) \/ EscapeDialog(m)
      <4>1. "rename" \in Modal /\ "delete" \in Modal /\ {"collection", "folder"} \subseteq Modal
        BY DEF Modal
      <4>2. QED BY <2>3, <4>1 DEF Aside, AskRename, AskDelete, AskMove, AskNew, Menu, PickFolder,
                                  ClosePopover, dialogs
    <3>2. QED BY <1>5, <1>6, <1>7, <1>9, <2>1, <3>1
  <2>4. QED BY <1>9, <2>2, <2>3
<1>10. ASSUME NEW i \in DOMAIN calls, Answer(i) \/ Lose(i),
              NEW t, Continues(calls', t, i), NotOfDialogs(t)
       PROVE  OneDialog' /\ OwnRequests'
  <2>1. \/ UNCHANGED dialogs
        \/ AnswerCreate(i) \/ AnswerRename(i) \/ AnswerDelete(i)
    BY <1>10 DEF Answer, Lose, AnswerNode, AnswerList, AnswerChildren, AnswerMore,
                 AnswerListing, AnswerMove, page, dialogs
  <2>2. QED BY <1>3, <1>8, <1>10, <2>1
<1>11. QED BY <1>4, <1>9, <1>10, OtherRequests

(* That is an invariant.                                                    *)
LEMMA DialogsAlways == Spec => []DialogsKnown
<1>1. Init => DialogsKnown
  BY DEF Init, DialogsInit, DialogsKnown, OneDialog, OwnRequests
<1>2. Typed /\ DialogsKnown /\ [Next]_vars => DialogsKnown'
  <2>1. SUFFICES ASSUME Typed, DialogsKnown, [Next]_vars PROVE DialogsKnown'
    OBVIOUS
  <2>2. CASE Next
    BY <2>1, <2>2, DialogsStep DEF DialogsKnown
  <2>3. CASE UNCHANGED vars
    BY <2>1, <2>3 DEF vars, DialogsKnown, OneDialog, OwnRequests
  <2>4. QED BY <2>1, <2>2, <2>3
<1>3. QED BY <1>1, <1>2, TypedAlways, PTL DEF Spec

(* Every request of a dialog is sent by the one dialog that is shown, once, *)
(* and that dialog waits for it - unless one was ever closed with Escape.   *)
THEOREM RequestsAreOwn == Spec => []OwnRequestsUnlessEscaped
<1>1. DialogsKnown => OwnRequestsUnlessEscaped
  BY DEF DialogsKnown, OwnRequestsUnlessEscaped
<1>2. QED BY <1>1, DialogsAlways, PTL

-----------------------------------------------------------------------------
(* Changes of directory.                                                    *)

(* A new request is outstanding.                                            *)
LEMMA IsThere ==
    ASSUME Typed, NEW t, NEW i, Continues(calls', t, i), NEW m \in DOMAIN t
    PROVE  \E j \in DOMAIN calls' : calls'[j] = t[m]
<1>1. PICK f : Traced(f, calls', t, i)
  BY DEF Continues
<1>2. DOMAIN calls \subseteq Nat
  BY DEF Typed, CallsKnown
<1>3. \A q \in DOMAIN t : q \in Nat /\ q > 0
  BY DEF Continues
<1>4. PICK j \in DOMAIN calls' : f[j] = -m
  BY <1>1 DEF Traced
<1>5. f[j] \notin DOMAIN calls
  BY <1>2, <1>3, <1>4
<1>6. PICK q \in DOMAIN t : f[j] = -q /\ calls'[j] = t[q]
  BY <1>1, <1>5 DEF Traced
<1>7. q = m
  BY <1>3, <1>4, <1>6
<1>8. QED BY <1>6, <1>7

(* Of one request that the view waits for, no second one comes.             *)
LEMMA StaysAlone ==
    ASSUME Typed, NEW i, Continues(calls', <<>>, i),
           NEW k, \A q \in DOMAIN calls : calls[q].op # "listing" => q = k
    PROVE  \A j, l \in DOMAIN calls' :
              calls'[j].op # "listing" /\ calls'[l].op # "listing" => j = l
<1>1. PICK f : Traced(f, calls', <<>>, i)
  BY DEF Continues
<1>2. calls \in Seq(Call) /\ calls' \in Seq(Call)
  BY DEF Typed, CallsKnown, Continues
<1>3. \A c, d \in Call : Alike(c, d) => c.op = d.op
  BY DEF Alike, Call
<1>4. ASSUME NEW j \in DOMAIN calls', calls'[j].op # "listing" PROVE f[j] = k
  <2>1. f[j] \in DOMAIN calls /\ Alike(calls'[j], calls[f[j]])
    BY <1>1 DEF Traced
  <2>2. calls'[j] \in Call /\ calls[f[j]] \in Call
    BY <1>2, <2>1
  <2>3. QED BY <1>3, <1>4, <2>1, <2>2
<1>5. QED BY <1>1, <1>4 DEF Traced

(* One that comes while there is none is alone.                             *)
LEMMA ComesAlone ==
    ASSUME Typed, NEW c, Continues(calls', <<c>>, 0),
           \A q \in DOMAIN calls : calls[q].op = "listing"
    PROVE  \A j, l \in DOMAIN calls' :
              calls'[j].op # "listing" /\ calls'[l].op # "listing" => j = l
<1>1. PICK f : Traced(f, calls', <<c>>, 0)
  BY DEF Continues
<1>2. calls \in Seq(Call) /\ calls' \in Seq(Call)
  BY DEF Typed, CallsKnown, Continues
<1>3. \A d, e \in Call : Alike(d, e) => d.op = e.op
  BY DEF Alike, Call
<1>4. ASSUME NEW j \in DOMAIN calls', calls'[j].op # "listing" PROVE f[j] = -1
  <2>1. CASE f[j] \in DOMAIN calls \ {0} /\ Alike(calls'[j], calls[f[j]])
    <3>1. calls'[j] \in Call /\ calls[f[j]] \in Call
      BY <1>2, <2>1
    <3>2. QED BY <1>3, <1>4, <2>1, <3>1
  <2>2. CASE \E m \in DOMAIN <<c>> : f[j] = -m
    <3>1. \A m \in DOMAIN <<c>> : m = 1
      OBVIOUS
    <3>2. QED BY <2>2, <3>1
  <2>3. QED BY <1>1, <2>1, <2>2 DEF Traced
<1>5. QED BY <1>1, <1>4 DEF Traced

-----------------------------------------------------------------------------
IsNav(c) == c.op \in Nav
NoNav == \A i \in DOMAIN calls : ~IsNav(calls[i])

(* The changes of directory that are under way all lead to the path the     *)
(* Conductor remembers; one that goes through the browser's history is      *)
(* alone, and leads to the current entry.  If there is none, all agree.     *)
NavOK ==
    /\ \A i \in DOMAIN calls : IsNav(calls[i]) => calls[i].path = here.path
    /\ \A i \in DOMAIN calls : IsNav(calls[i]) /\ ~calls[i].push =>
          /\ calls[i].op = "list" /\ past.at > 1
          /\ past.entries[past.at] = [node |-> calls[i].node, path |-> calls[i].path]
          /\ \A j \in DOMAIN calls : calls[j].op # "listing" => j = i
    /\ NoNav => /\ here.path = view.path
                /\ past.at > 1 => past.entries[past.at] = view

NavKnown == ~hurried /\ ~astray => NavOK

(* What went astray is not forgotten.                                       *)
LEMMA AstrayStays ==
    ASSUME Typed, Next, ~astray'
    PROVE  ~astray
<1>1. CASE NavAsks
  <2>1. astray' = astray
    BY <1>1, NavAsked DEF NavAsking, Going1
  <2>2. QED BY <2>1
<1>2. CASE OtherAsks
  BY <1>2 DEF OtherAsks, TreeExpand, LoadMore, MoveHere, ListFolder, ghosts
<1>3. ASSUME NEW m \in Modal, NEW text \in Names, SubmitByClick(m, text) \/ SubmitByEnter(m, text)
      PROVE  ~astray
  BY <1>3 DEF SubmitByClick, SubmitByEnter, Submitting, ghosts
<1>4. CASE GoTo(1)
  BY <1>4 DEF GoTo
<1>5. CASE Aside
  BY <1>5, AsideIs
<1>6. ASSUME NEW i \in DOMAIN calls, Answer(i) \/ Lose(i) PROVE ~astray
  <2>1. astray' = astray \/ \E x : astray' = (astray \/ x)
    BY <1>6 DEF Answer, Lose, AnswerNode, AnswerList, AnswerChildren, AnswerMore, AnswerCreate, Change,
                ChangeWhen, AnswerRename, AnswerDelete, AnswerListing, AnswerMove, ghosts
  <2>2. QED BY <2>1, Zenon
<1>7. QED BY <1>1, <1>2, <1>3, <1>4, <1>5, <1>6, StepKinds

(* Nor is who did not wait.                                                 *)
LEMMA HurriedStays ==
    ASSUME Typed, Next, ~hurried'
    PROVE  ~hurried
<1>1. \/ hurried' = hurried
      \/ hurried' = (hurried \/ Pending \/ ~ready)
      \/ hurried' = (hurried \/ Pending \/ ~ready \/ ~Free)
  BY DEF Next, User, Answer, ApiReady, OpenRow, Crumb, TreeClick, TreeExpand, GoTo, Going,
         AnswerNode, AnswerList, AnswerChildren, LoadMore, AnswerMore, AskRename, AskDelete,
         AskMove, AskNew, Opening, SubmitByClick, SubmitByEnter, Submitting, CancelDialog,
         EscapeDialog, AnswerCreate, AnswerRename, AnswerDelete, PickFolder, ListFolder,
         AnswerListing, MoveHere, AnswerMove, ClosePopover, Lose, Act
<1>2. QED BY <1>1, Zenon

(* Nothing that the view waits for is outstanding, and no directory is      *)
(* asked for.                                                               *)
LEMMA NoneAsked ==
    ASSUME Typed, NavOK, NEW t, Continues(calls', t, 0), \A m \in DOMAIN t : ~IsNav(t[m]),
           \A i \in DOMAIN calls : calls[i].op = "listing",
           here' = here, view' = view,
           past' = past \/ past' = [past EXCEPT !.at = 1]
    PROVE  NavOK'
<1>1. past \in [entries : Seq(Place), at : Nat]
  BY DEF Typed, ViewKnown
<1>2. ASSUME NEW j \in DOMAIN calls' PROVE ~IsNav(calls'[j])
  <2>1. CASE \E k \in DOMAIN calls : calls'[j].op = calls[k].op
    BY <2>1 DEF IsNav, Nav
  <2>2. CASE \E m \in DOMAIN t : calls'[j] = t[m]
    BY <2>2
  <2>3. QED BY <2>1, <2>2, ComesFrom
<1>3. NoNav
  BY DEF NoNav, IsNav, Nav
<1>4. here'.path = view'.path
  BY <1>3 DEF NavOK
<1>5. past'.at > 1 => past'.entries[past'.at] = view'
  <2>1. CASE past' = past
    BY <1>3, <2>1 DEF NavOK
  <2>2. CASE past' = [past EXCEPT !.at = 1]
    <3>1. past'.at = 1
      BY <1>1, <2>2
    <3>2. QED BY <3>1
  <2>3. QED BY <2>1, <2>2
<1>6. QED BY <1>2, <1>4, <1>5 DEF NavOK

(* What is answered is no change of directory.                              *)
LEMMA OtherAnswered ==
    ASSUME Typed, NavOK, NEW i \in DOMAIN calls, ~IsNav(calls[i]), Continues(calls', <<>>, i),
           UNCHANGED <<here, view, past>>
    PROVE  NavOK'
<1>1. ASSUME NEW j \in DOMAIN calls'
      PROVE  \E k \in DOMAIN calls : /\ calls'[j].op = calls[k].op
                                     /\ calls'[j].node = calls[k].node
                                     /\ calls'[j].path = calls[k].path
                                     /\ calls'[j].push = calls[k].push
  BY <1>1, ComesFrom
<1>2. \A j \in DOMAIN calls' : IsNav(calls'[j]) => calls'[j].path = here.path
  BY <1>1 DEF NavOK, IsNav
<1>3. ASSUME NEW j \in DOMAIN calls', IsNav(calls'[j]), ~calls'[j].push
      PROVE  /\ calls'[j].op = "list" /\ past.at > 1
             /\ past.entries[past.at] = [node |-> calls'[j].node, path |-> calls'[j].path]
             /\ \A l \in DOMAIN calls' : calls'[l].op # "listing" => l = j
  <2>1. PICK k \in DOMAIN calls : /\ calls'[j].op = calls[k].op
                                  /\ calls'[j].node = calls[k].node
                                  /\ calls'[j].path = calls[k].path
                                  /\ calls'[j].push = calls[k].push
    BY <1>1
  <2>2. IsNav(calls[k]) /\ ~calls[k].push
    BY <1>3, <2>1 DEF IsNav
  <2>3. /\ calls[k].op = "list" /\ past.at > 1
        /\ past.entries[past.at] = [node |-> calls[k].node, path |-> calls[k].path]
        /\ \A q \in DOMAIN calls : calls[q].op # "listing" => q = k
    BY <2>2 DEF NavOK
  <2>4. \A l \in DOMAIN calls' : calls'[l].op # "listing" => l = j
    <3>1. calls'[j].op # "listing"
      BY <2>1, <2>3
    <3>2. QED BY <2>3, <3>1, StaysAlone
  <2>5. QED BY <2>1, <2>3, <2>4
<1>4. NoNav' => NoNav
  <2>1. ASSUME NEW k \in DOMAIN calls, IsNav(calls[k]) PROVE \E j \in DOMAIN calls' : IsNav(calls'[j])
    <3>1. k \in DOMAIN calls \ {i}
      BY <2>1
    <3>2. QED BY <2>1, <3>1, StaysThere DEF IsNav
  <2>2. QED BY <2>1 DEF NoNav
<1>5. QED BY <1>2, <1>3, <1>4 DEF NavOK

(* An answer that the view waited for: what is left of the changes of       *)
(* directory, and what comes of it, adds to the history.                    *)
LEMMA NoneBack ==
    ASSUME Typed, NavOK, NEW i \in DOMAIN calls, calls[i].op # "listing",
           NEW t, Continues(calls', t, i),
           \A m \in DOMAIN t : IsNav(t[m]) => t[m].push /\ t[m].path = here.path
    PROVE  \A j \in DOMAIN calls' : IsNav(calls'[j]) =>
              calls'[j].push /\ calls'[j].path = here.path
<1>1. SUFFICES ASSUME NEW j \in DOMAIN calls', IsNav(calls'[j])
               PROVE  calls'[j].push /\ calls'[j].path = here.path
  OBVIOUS
<1>2. ASSUME NEW k \in DOMAIN calls \ {i}, IsNav(calls[k])
      PROVE  calls[k].push /\ calls[k].path = here.path
  <2>1. calls[k].path = here.path
    BY <1>2 DEF NavOK
  <2>2. ASSUME ~calls[k].push PROVE FALSE
    <3>1. \A q \in DOMAIN calls : calls[q].op # "listing" => q = k
      BY <1>2, <2>2 DEF NavOK
    <3>2. QED BY <1>2, <3>1
  <2>3. QED BY <2>1, <2>2
<1>3. CASE \E k \in DOMAIN calls \ {i} : /\ calls'[j].op = calls[k].op
                                         /\ calls'[j].path = calls[k].path
                                         /\ calls'[j].push = calls[k].push
  <2>1. PICK k \in DOMAIN calls \ {i} : /\ calls'[j].op = calls[k].op
                                        /\ calls'[j].path = calls[k].path
                                        /\ calls'[j].push = calls[k].push
    BY <1>3
  <2>2. IsNav(calls[k])
    BY <1>1, <2>1 DEF IsNav
  <2>3. QED BY <1>2, <2>1, <2>2
<1>4. CASE \E m \in DOMAIN t : calls'[j] = t[m]
  <2>1. PICK m \in DOMAIN t : calls'[j] = t[m]
    BY <1>4
  <2>2. t[m].push /\ t[m].path = here.path
    BY <1>1, <2>1
  <2>3. QED BY <2>1, <2>2
<1>5. QED BY <1>3, <1>4, ComesFrom

(* Asking for a directory.                                                  *)
LEMMA NavAskedOK ==
    ASSUME Typed, NavOK, NavAsks, ~astray', view' = view,
           \A i \in DOMAIN calls : calls[i].op = "listing"
    PROVE  NavOK'
<1>1. PICK t, id, n, p, push : NavAsking(t, id, n, p, push)
  BY NavAsked
<1>2. Continues(calls', t, 0) /\ Going1(t, id, n, p, push) /\ push \in BOOLEAN
  BY <1>1 DEF NavAsking
<1>3. here'.path = p
  BY <1>1 DEF NavAsking
<1>4. PICK c \in Call : /\ t = <<c>>
                        /\ c.op = (IF n # None THEN "list" ELSE "node")
                        /\ c.node = (IF n # None THEN n ELSE id)
                        /\ c.path = p /\ c.push = push
  BY <1>2 DEF Going1
<1>5. Continues(calls', <<c>>, 0)
  BY <1>2, <1>4
<1>6. ASSUME NEW j \in DOMAIN calls', IsNav(calls'[j]) PROVE calls'[j] = c
  <2>1. \A k \in DOMAIN calls : calls[k].op \notin Nav
    BY DEF Nav
  <2>2. \E m \in DOMAIN <<c>> : calls'[j] = (<<c>>)[m]
    BY <1>5, <1>6, <2>1, ComesFrom DEF IsNav
  <2>3. \A m \in DOMAIN <<c>> : (<<c>>)[m] = c
    OBVIOUS
  <2>4. QED BY <2>2, <2>3
<1>7. \A j, l \in DOMAIN calls' :
         calls'[j].op # "listing" /\ calls'[l].op # "listing" => j = l
  BY <1>5, ComesAlone
<1>8. ASSUME NEW j \in DOMAIN calls', IsNav(calls'[j])
      PROVE  calls'[j].path = here'.path
  BY <1>3, <1>4, <1>6, <1>8
<1>9. ASSUME NEW j \in DOMAIN calls', IsNav(calls'[j]), ~calls'[j].push
      PROVE  /\ calls'[j].op = "list" /\ past'.at > 1
             /\ past'.entries[past'.at] = [node |-> calls'[j].node, path |-> calls'[j].path]
             /\ \A l \in DOMAIN calls' : calls'[l].op # "listing" => l = j
  <2>1. calls'[j] = c
    BY <1>6, <1>9
  <2>2. ~push
    BY <1>4, <1>9, <2>1
  <2>3. /\ n \in Nodes /\ past'.at > 1 /\ past'.entries = past.entries
        /\ past.entries[past'.at] = [node |-> n, path |-> p]
    BY <1>1, <2>2 DEF NavAsking
  <2>4. n # None
    BY <2>3, NodesAssumption
  <2>5. c.op = "list" /\ c.node = n /\ c.path = p
    BY <1>4, <2>4
  <2>6. calls'[j].op # "listing"
    BY <2>1, <2>5
  <2>7. QED BY <1>7, <2>1, <2>3, <2>5, <2>6
<1>10. ~ NoNav'
  <2>1. \E j \in DOMAIN calls' : calls'[j] = c
    <3>1. 1 \in DOMAIN <<c>> /\ (<<c>>)[1] = c
      OBVIOUS
    <3>2. QED BY <1>5, <3>1, IsThere
  <2>2. IsNav(c)
    BY <1>4 DEF IsNav, Nav
  <2>3. QED BY <2>1, <2>2 DEF NoNav
<1>11. QED BY <1>8, <1>9, <1>10 DEF NavOK

(* The children of a directory that was asked for: it is shown.             *)
LEMMA ListedOK ==
    ASSUME Typed, NavOK, NEW i \in DOMAIN calls, AnswerList(i)
    PROVE  NavOK'
<1>1. calls \in Seq(Call) /\ calls[i] \in Call
  BY DEF Typed, CallsKnown
<1>2. calls[i].op = "list" /\ here' = here /\ calls' = Outdated(Answered(i))
  BY DEF AnswerList
<1>3. Continues(calls', <<>>, i)
  BY <1>1, <1>2, OneAnswered, TableRedrawn
<1>4. IsNav(calls[i])
  BY <1>2 DEF IsNav, Nav
<1>5. calls[i].path = here.path
  BY <1>4 DEF NavOK
<1>6. view' = [node |-> calls[i].node, path |-> calls[i].path]
  BY DEF AnswerList
<1>7. \A j \in DOMAIN calls' : IsNav(calls'[j]) => calls'[j].push /\ calls'[j].path = here.path
  BY <1>2, <1>3, NoneBack
<1>8. past'.at > 1 => past'.entries[past'.at] = view'
  <2>1. CASE calls[i].push
    BY <1>6, <2>1, EntryIsAdded
  <2>2. CASE ~calls[i].push
    <3>1. past' = past
      BY <2>2 DEF AnswerList, Visited
    <3>2. past.entries[past.at] = [node |-> calls[i].node, path |-> calls[i].path]
      BY <1>4, <2>2 DEF NavOK
    <3>3. QED BY <1>6, <3>1, <3>2
  <2>3. QED BY <2>1, <2>2
<1>9. here'.path = view'.path
  BY <1>2, <1>5, <1>6
<1>10. \A j \in DOMAIN calls' : IsNav(calls'[j]) => calls'[j].path = here'.path
  BY <1>2, <1>7
<1>11. \A j \in DOMAIN calls' : IsNav(calls'[j]) => calls'[j].push
  BY <1>7
<1>12. QED BY <1>8, <1>9, <1>10, <1>11 DEF NavOK

(* The node of a directory that was asked for.                              *)
LEMMA NodeOK ==
    ASSUME Typed, NavOK, NEW i \in DOMAIN calls, AnswerNode(i), ~astray'
    PROVE  NavOK'
<1>1. calls[i].op = "node" /\ UNCHANGED <<here, view, past>>
  BY DEF AnswerNode
<1>2. IsNav(calls[i])
  BY <1>1 DEF IsNav, Nav
<1>3. calls[i].path = here.path
  BY <1>2 DEF NavOK
<1>4. calls[i].push
  BY <1>1, <1>2 DEF NavOK
<1>5. PICK c \in Call : /\ Continues(calls', <<c>>, i) /\ c.op = "list"
                        /\ c.path = calls[i].path /\ c.push = calls[i].push
  BY NodeAnswered
<1>6. \A m \in DOMAIN <<c>> : (<<c>>)[m] = c
  OBVIOUS
<1>7. \A m \in DOMAIN <<c>> : IsNav((<<c>>)[m]) => (<<c>>)[m].push /\ (<<c>>)[m].path = here.path
  BY <1>3, <1>4, <1>5, <1>6
<1>8. \A j \in DOMAIN calls' : IsNav(calls'[j]) => calls'[j].push /\ calls'[j].path = here.path
  BY <1>1, <1>5, <1>7, NoneBack
<1>9. ~ NoNav'
  <2>1. \E j \in DOMAIN calls' : calls'[j] = c
    <3>1. 1 \in DOMAIN <<c>> /\ (<<c>>)[1] = c
      OBVIOUS
    <3>2. QED BY <1>5, <3>1, IsThere
  <2>2. IsNav(c)
    BY <1>5 DEF IsNav, Nav
  <2>3. QED BY <2>1, <2>2 DEF NoNav
<1>10. QED BY <1>1, <1>8, <1>9 DEF NavOK

(* The answer to a creation: the view is asked for anew.                    *)
LEMMA CreatedOK ==
    ASSUME Typed, NavOK, NEW i \in DOMAIN calls, AnswerCreate(i)
    PROVE  NavOK'
<1>1. calls[i].op \in {"folder", "collection"} /\ UNCHANGED <<view, past>>
  BY DEF AnswerCreate
<1>2. here'.path = here.path
  BY Created
<1>3. PICK t : Continues(calls', t, i) /\ Reloading(t)
  BY Created
<1>4. \A m \in DOMAIN t : IsNav(t[m]) => t[m].push /\ t[m].path = here.path
  BY <1>2, <1>3 DEF Reloading, IsNav
<1>5. calls[i].op # "listing"
  BY <1>1
<1>6. \A j \in DOMAIN calls' : IsNav(calls'[j]) => calls'[j].push /\ calls'[j].path = here.path
  BY <1>3, <1>4, <1>5, NoneBack
<1>7. NoNav' => NoNav
  <2>1. ASSUME NEW k \in DOMAIN calls, IsNav(calls[k]) PROVE \E j \in DOMAIN calls' : IsNav(calls'[j])
    <3>1. k \in DOMAIN calls \ {i}
      BY <1>1, <2>1 DEF IsNav, Nav
    <3>2. QED BY <1>3, <2>1, <3>1, StaysThere DEF IsNav
  <2>2. QED BY <2>1 DEF NoNav
<1>8. QED BY <1>1, <1>2, <1>6, <1>7 DEF NavOK

(* That stays so.                                                           *)
LEMMA NavStep ==
    ASSUME Typed, ReadyKnown, Next, NavKnown
    PROVE  NavKnown'
<1>0. calls \in Seq(Call)
  BY DEF Typed, CallsKnown
<1>1. SUFFICES ASSUME ~hurried', ~astray' PROVE NavOK'
  BY DEF NavKnown
<1>2. NavOK
  BY <1>1, HurriedStays, AstrayStays DEF NavKnown
<1>3. CASE NavAsks
  <2>1. view' = view
    BY <1>3 DEF NavAsks, ApiReady, OpenRow, Crumb, TreeClick, GoTo, Going
  <2>2. \A i \in DOMAIN calls : calls[i].op = "listing"
    BY <1>1, <1>3, Waited
  <2>3. QED BY <1>1, <1>2, <1>3, <2>1, <2>2, NavAskedOK
<1>4. CASE OtherAsks
  <2>1. PICK c \in Call : c.op \in {"children", "more", "listing", "move"} /\ Send(<<c>>)
    BY <1>4, OtherAsked DEF OtherAsking
  <2>2. <<c>> \in Seq(Call) /\ ~IsNav(c)
    BY <2>1 DEF IsNav, Nav
  <2>3. \A m \in DOMAIN <<c>> : ~IsNav((<<c>>)[m])
    <3>1. \A m \in DOMAIN <<c>> : (<<c>>)[m] = c
      OBVIOUS
    <3>2. QED BY <2>2, <3>1
  <2>4. \A m \in DOMAIN <<>> : ~IsNav((<<>>)[m])
    OBVIOUS
  <2>5. UNCHANGED <<here, view, past>>
    BY <1>4 DEF OtherAsks, TreeExpand, LoadMore, MoveHere, ListFolder
  <2>6. \A i \in DOMAIN calls : calls[i].op = "listing"
    BY <1>1, <1>4, Waited
  <2>7. PICK t : Continues(calls', t, 0) /\ \A m \in DOMAIN t : ~IsNav(t[m])
    BY <1>0, <2>1, <2>2, <2>3, <2>4, Sent
  <2>8. QED BY <1>2, <2>5, <2>6, <2>7, NoneAsked
<1>5. ASSUME NEW m \in Modal, NEW text \in Names, SubmitByClick(m, text) \/ SubmitByEnter(m, text)
      PROVE  NavOK'
  <2>1. PICK ms \in SUBSET Modal, times \in [Modal -> Nat] : Submits(ms, times, m, text)
    BY <1>5, SubmitsIs
  <2>2. PICK t : Made(t, Times(ms, times), Modal) /\ Send(t)
    BY <2>1, Submitted DEF Submits
  <2>3. t \in Seq(Call) /\ \A k \in DOMAIN t : ~IsNav(t[k])
    BY <2>2 DEF Made, IsNav, Nav, Modal
  <2>4. \A k \in DOMAIN <<>> : ~IsNav((<<>>)[k])
    OBVIOUS
  <2>5. UNCHANGED <<here, view, past>>
    BY <2>1 DEF Submits, Submitting
  <2>6. \A i \in DOMAIN calls : calls[i].op = "listing"
    BY <1>1, <1>5, Waited
  <2>7. PICK u : Continues(calls', u, 0) /\ \A k \in DOMAIN u : ~IsNav(u[k])
    BY <1>0, <2>2, <2>3, <2>4, Sent
  <2>8. QED BY <1>2, <2>5, <2>6, <2>7, NoneAsked
<1>6. CASE GoTo(1)
  <2>1. UNCHANGED <<here, view, calls>> /\ past' = [past EXCEPT !.at = 1]
    BY <1>6 DEF GoTo
  <2>2. Continues(calls', <<>>, 0)
    BY <1>0, <2>1, Unanswered
  <2>3. \A i \in DOMAIN calls : calls[i].op = "listing"
    BY <1>1, <1>6, Waited
  <2>4. \A k \in DOMAIN <<>> : ~IsNav((<<>>)[k])
    OBVIOUS
  <2>5. QED BY <1>2, <2>1, <2>2, <2>3, <2>4, NoneAsked
<1>7. CASE Aside
  BY <1>2, <1>7, AsideIs DEF NavOK, NoNav
<1>8. ASSUME NEW i \in DOMAIN calls, Answer(i) \/ Lose(i) PROVE NavOK'
  <2>1. CASE AnswerNode(i)
    BY <1>1, <1>2, <2>1, NodeOK
  <2>2. CASE AnswerList(i)
    BY <1>2, <2>2, ListedOK
  <2>3. CASE AnswerCreate(i)
    BY <1>2, <2>3, CreatedOK
  <2>4. Continues(Answered(i), <<>>, i)
    BY <1>0, OneAnswered
  <2>5. Continues(Outdated(Answered(i)), <<>>, i)
    BY <1>0, <2>4, TableRedrawn
  <2>6. CASE Lose(i)
    <3>1. ~IsNav(calls[i])
      <4>1. astray' = (astray \/ calls[i].op \in {"node", "list"})
        BY <2>6 DEF Lose
      <4>2. calls[i].op \notin {"node", "list"}
        BY <1>1, <4>1, Zenon
      <4>3. QED BY <4>2 DEF IsNav, Nav
    <3>2. calls' = Answered(i) /\ UNCHANGED <<here, view, past>>
      BY <2>6 DEF Lose
    <3>3. QED BY <1>2, <2>4, <3>1, <3>2, OtherAnswered
  <2>7. CASE Answer(i) /\ ~AnswerNode(i) /\ ~AnswerList(i) /\ ~AnswerCreate(i)
    <3>1. /\ UNCHANGED <<here, view, past>>
          /\ calls' = Answered(i) \/ calls' = Outdated(Answered(i))
          /\ calls[i].op \notin {"node", "list"}
      BY <2>7 DEF Answer, AnswerChildren, AnswerMore, AnswerRename, AnswerDelete,
                  AnswerListing, AnswerMove
    <3>2. ~IsNav(calls[i])
      BY <3>1 DEF IsNav, Nav
    <3>3. Continues(calls', <<>>, i)
      BY <2>4, <2>5, <3>1
    <3>4. QED BY <1>2, <3>1, <3>2, <3>3, OtherAnswered
  <2>8. QED BY <1>8, <2>1, <2>2, <2>3, <2>6, <2>7
<1>9. QED BY <1>3, <1>4, <1>5, <1>6, <1>7, <1>8, StepKinds

(* NavKnown is an invariant.                                                *)
LEMMA NavAlways == Spec => []NavKnown
<1>1. Init => NavKnown
  BY DEF Init, NavKnown, NavOK, NoNav
<1>2. Typed /\ ReadyKnown /\ NavKnown /\ [Next]_vars => NavKnown'
  <2>1. SUFFICES ASSUME Typed, ReadyKnown, NavKnown, [Next]_vars PROVE NavKnown'
    OBVIOUS
  <2>2. CASE Next
    BY <2>1, <2>2, NavStep
  <2>3. CASE UNCHANGED vars
    BY <2>1, <2>3 DEF vars, NavKnown, NavOK, NoNav
  <2>4. QED BY <2>1, <2>2, <2>3
<1>3. QED BY <1>1, <1>2, TypedAlways, ReadyAlways, PTL DEF Spec

(* Six components keep the directory that is shown, the Conductor the one   *)
(* asked for last, the browser its own: when nothing is outstanding and     *)
(* every answer was waited for, all agree, unless a request went astray.    *)
THEOREM AllAgreeAtRest == Spec => []InStep
<1>1. NavKnown => InStep
  <2>1. Quiet /\ ~astray /\ NavKnown => NoNav
    BY DEF Quiet, Pending, NoNav, IsNav, Nav
  <2>2. QED BY <2>1 DEF NavKnown, NavOK, Quiet, InStep
<1>2. QED BY <1>1, NavAlways, PTL

-----------------------------------------------------------------------------
(* Places and their paths.                                                  *)

(* The path of a node that is there has those of the nodes above it.        *)
LEMMA PathParts ==
    ASSUME NEW par \in [Nodes -> Nodes \cup {None}], IsTree(par), NEW f, PathsIn(f, par)
    PROVE  \A n \in Nodes : par[n] # None => \A k \in 1..Len(f[n]) :
              /\ f[n][k] \in Nodes /\ par[f[n][k]] # None
              /\ f[f[n][k]] = SubSeq(f[n], 1, k)
<1> DEFINE Parted(n) == \A k \in 1..Len(f[n]) :
                           /\ f[n][k] \in Nodes /\ par[f[n][k]] # None
                           /\ f[f[n][k]] = SubSeq(f[n], 1, k)
           Bad == {n \in Nodes \ {Org} : par[n] # None /\ ~ Parted(n)}
<1>0. \A n \in Nodes : f[n] = IF n = Org \/ par[n] = None THEN <<>> ELSE Append(f[par[n]], n)
  BY DEF PathsIn
<1>0a. \A n \in Nodes : f[n] \in Seq(Nodes \ {Org})
  BY PathsAre
<1>1. Parted(Org)
  <2>1. f[Org] = <<>>
    BY <1>0, NodesAssumption
  <2>2. QED BY <2>1
<1> HIDE DEF Parted
<1>2. ASSUME Bad # {} PROVE FALSE
  <2>1. Bad \in SUBSET (Nodes \ {Org})
    OBVIOUS
  <2>2. PICK n \in Bad : par[n] \notin Bad
    BY <1>2, <2>1 DEF IsTree
  <2>3. n \in Nodes \ {Org} /\ par[n] # None /\ ~ Parted(n)
    BY <2>2
  <2>4. PICK m \in Nodes : m = par[n]
    BY <2>3
  <2>5. par[m] # None
    BY <2>3, <2>4 DEF IsTree
  <2>6. Parted(m)
    BY <1>1, <2>2, <2>4, <2>5
  <2>7. PICK s \in Seq(Nodes \ {Org}) : s = f[m]
    BY <1>0a
  <2>8. f[n] = Append(s, n)
    BY <1>0, <2>3, <2>4, <2>7
  <2>9. PICK l \in Nat : l = Len(s)
    BY <2>7
  <2>10. PICK r \in Seq(Nodes \ {Org}) : r = f[n]
    BY <1>0a, <2>3
  <2>11. Len(r) = l + 1 /\ r[l + 1] = n /\ \A k \in 1..l : r[k] = s[k]
    BY <2>7, <2>8, <2>9, <2>10
  <2>12. ASSUME NEW k \in 1..(l + 1)
         PROVE  /\ r[k] \in Nodes /\ par[r[k]] # None
                /\ f[r[k]] = SubSeq(r, 1, k)
    <3>1. CASE k = l + 1
      <4>1. SubSeq(r, 1, l + 1) = r
        BY <2>11, SubSeqFull
      <4>2. QED BY <2>3, <2>10, <2>11, <3>1, <4>1
    <3>2. CASE k # l + 1
      <4>1. k \in 1..l
        BY <3>2
      <4>2. s[k] \in Nodes /\ par[s[k]] # None /\ f[s[k]] = SubSeq(s, 1, k)
        BY <2>6, <2>7, <2>9, <4>1 DEF Parted
      <4>3. SubSeq(r, 1, k) = SubSeq(s, 1, k)
        <5>1. r = Append(s, n)
          BY <2>8, <2>10
        <5>2. n \in Nodes \ {Org}
          BY <2>3
        <5>3. /\ SubSeq(r, 1, k) \in Seq(Nodes \ {Org}) /\ SubSeq(s, 1, k) \in Seq(Nodes \ {Org})
              /\ Len(SubSeq(r, 1, k)) = k /\ Len(SubSeq(s, 1, k)) = k
          BY <2>9, <2>11, <4>1
        <5>4. \A j \in 1..k : SubSeq(r, 1, k)[j] = SubSeq(s, 1, k)[j]
          <6>1. \A j \in 1..k : SubSeq(r, 1, k)[j] = r[j] /\ SubSeq(s, 1, k)[j] = s[j]
            BY <2>9, <2>11, <4>1
          <6>2. \A j \in 1..k : j \in 1..l
            BY <4>1
          <6>3. QED BY <2>11, <6>1, <6>2
        <5>5. QED BY <5>3, <5>4, SeqEqual
      <4>4. QED BY <2>11, <4>1, <4>2, <4>3
    <3>3. QED BY <3>1, <3>2
  <2>13. Parted(n)
    BY <2>10, <2>11, <2>12 DEF Parted
  <2>14. QED BY <2>3, <2>13
<1>3. QED BY <1>1, <1>2 DEF Parted

(* A node that keeps its place, as do those above it, keeps its path.       *)
LEMMA PathsStay ==
    ASSUME NEW par \in [Nodes -> Nodes \cup {None}], IsTree(par), NEW f, PathsIn(f, par),
           NEW q \in [Nodes -> Nodes \cup {None}], NEW g, PathsIn(g, q),
           \A n \in Nodes : par[n] # None => q[n] = par[n]
    PROVE  \A n \in Nodes : par[n] # None => g[n] = f[n]
<1>1. \A n \in Nodes : f[n] = IF n = Org \/ par[n] = None THEN <<>> ELSE Append(f[par[n]], n)
  BY DEF PathsIn
<1>2. \A n \in Nodes : g[n] = IF n = Org \/ q[n] = None THEN <<>> ELSE Append(g[q[n]], n)
  BY DEF PathsIn
<1> DEFINE Bad == {n \in Nodes \ {Org} : par[n] # None /\ g[n] # f[n]}
<1>3. ASSUME Bad # {} PROVE FALSE
  <2>1. Bad \in SUBSET (Nodes \ {Org})
    OBVIOUS
  <2>2. PICK n \in Bad : par[n] \notin Bad
    BY <1>3, <2>1 DEF IsTree
  <2>3. n \in Nodes \ {Org} /\ par[n] # None /\ g[n] # f[n]
    BY <2>2
  <2>4. PICK m \in Nodes : m = par[n] /\ q[n] = m
    BY <2>3
  <2>5. m # None /\ par[m] # None
    BY <2>3, <2>4 DEF IsTree
  <2>6. g[m] = f[m]
    <3>1. CASE m = Org
      BY <1>1, <1>2, <3>1, NodesAssumption
    <3>2. CASE m # Org
      BY <2>2, <2>4, <2>5, <3>2
    <3>3. QED BY <3>1, <3>2
  <2>7. f[n] = Append(f[m], n) /\ g[n] = Append(g[m], n)
    BY <1>1, <1>2, <2>3, <2>4, <2>5
  <2>8. QED BY <2>3, <2>6, <2>7
<1>4. g[Org] = f[Org]
  BY <1>1, <1>2, NodesAssumption
<1>5. QED BY <1>3, <1>4

(* p is the path of the node n, or has the word "undefined".                *)
Shows(p, n, par, f) == n \in Nodes /\ par[n] # None /\ (p = f[n] \/ (p # <<>> /\ p[1] = None))

(* The same of a child: the names after that of the parent.                 *)
LEMMA ShowsChild ==
    ASSUME NEW par \in [Nodes -> Nodes \cup {None}], NEW f, PathsIn(f, par),
           NEW d, NEW p \in Path, Shows(p, d, par, f), NEW n \in Nodes \ {Org}, par[n] = d
    PROVE  Shows(Append(p, n), n, par, f)
<1>1. d \in Nodes /\ par[n] # None
  BY NodesAssumption DEF Shows
<1>2. f[n] = Append(f[d], n)
  BY <1>1 DEF PathsIn
<1>3. CASE p = f[d]
  BY <1>1, <1>2, <1>3 DEF Shows
<1>4. CASE p # <<>> /\ p[1] = None
  <2>1. PICK l \in Nat : l = Len(p) /\ p \in Seq(Nodes \cup {None})
    BY DEF Path
  <2>2. l # 0
    BY <1>4, <2>1
  <2>3. Append(p, n)[1] = p[1] /\ Append(p, n) # <<>>
    BY <2>1, <2>2
  <2>4. QED BY <1>1, <1>4, <2>3 DEF Shows
<1>5. QED BY <1>3, <1>4 DEF Shows

CallShows(c, p, d, par, f) ==
    /\ c.op \in Nav => Shows(c.path, c.node, par, f)
    /\ c.op = "folder" => Shows(p, c.node, par, f)
    /\ c.op = "more" => c.node = d

CollectionsOK == \A n \in Nodes : Kind[n] = "COLLECTION" => parent[n] \in {Org, None}
HereShows ==
    /\ Shows(view.path, view.node, parent, PathOf)
    /\ here.node # None => Shows(here.path, here.node, parent, PathOf)
PastShows ==
    \A j \in DOMAIN past.entries :
        Shows(past.entries[j].path, past.entries[j].node, parent, PathOf)
TreeShows(t) == \A n \in DOMAIN t : Shows(t[n], n, parent, PathOf)
TableOK == next.of = view.node /\ \A i \in DOMAIN nodes : parent[nodes[i].id] = view.node
CallsShow ==
    /\ \A i \in DOMAIN calls : CallShows(calls[i], here.path, view.node, parent, PathOf)
    /\ \A i, j \in DOMAIN calls : calls[i].op = "more" /\ calls[j].op # "listing" => j = i

(* Wherever a path is kept with a node, it is that of the node.  The table  *)
(* has the children of the directory that is shown, and so has the page it  *)
(* waits for, as nothing else is outstanding then.                          *)
PlacesOK == CollectionsOK /\ HereShows /\ PastShows /\ TreeShows(tree) /\ TableOK /\ CallsShow

PlacesKnown == ~hurried /\ ~astray /\ moved = {} => PlacesOK

(* While nothing moves, nodes keep their places, and new ones find theirs.  *)
LEMMA PlacesStay ==
    ASSUME Typed, Next, moved' = {}
    PROVE  /\ \A n \in Nodes : parent[n] # None => parent'[n] = parent[n]
           /\ \A p, n : Shows(p, n, parent, PathOf) => Shows(p, n, parent', PathOf')
           /\ CollectionsOK => CollectionsOK'
<1>0. /\ parent \in [Nodes -> Nodes \cup {None}] /\ IsTree(parent)
      /\ parent' \in [Nodes -> Nodes \cup {None}] /\ IsTree(parent')
  BY ApiStep DEF Typed, ApiKnown, ApiTypeOK
<1>1. /\ \A n \in Nodes : parent[n] # None => parent'[n] = parent[n]
      /\ CollectionsOK => CollectionsOK'
  <2>1. CASE parent' = parent
    BY <2>1 DEF CollectionsOK
  <2>2. ASSUME NEW i \in DOMAIN calls, AnswerCreate(i)
        PROVE  /\ \A n \in Nodes : parent[n] # None => parent'[n] = parent[n]
               /\ CollectionsOK => CollectionsOK'
    <3>1. CASE UNCHANGED api
      BY <2>1, <3>1 DEF api
    <3>2. CASE ~ UNCHANGED api
      <4>1. PICK d, kind : /\ Create(d, kind, calls[i].text) /\ MayCreate(d, kind, calls[i].text)
                           /\ kind = "COLLECTION" => d = Org
        <5> DEFINE k == IF calls[i].op = "folder" THEN "FOLDER" ELSE "COLLECTION"
                   e == IF calls[i].op = "folder" THEN calls[i].node ELSE Org
        <5>1. Create(e, k, calls[i].text) /\ MayCreate(e, k, calls[i].text)
          BY <2>2, <3>2 DEF AnswerCreate
        <5>2. k = "COLLECTION" => e = Org
          OBVIOUS
        <5>3. QED BY <5>1, <5>2
      <4>2. PICK n : n = Min(Spare(kind))
        OBVIOUS
      <4>3. n \in Spare(kind)
        <5>1. Spare(kind) \in SUBSET Nat /\ Spare(kind) # {}
          BY <4>1, NodesAssumption DEF Spare, MayCreate
        <5>2. QED BY <4>2, <5>1, MinIs
      <4>4. n \in Nodes /\ parent[n] = None /\ Kind[n] = kind
        BY <4>3 DEF Spare
      <4>5. parent' = [parent EXCEPT ![n] = d]
        BY <4>1, <4>2 DEF Create
      <4>6. parent'[n] = d /\ \A m \in Nodes : m # n => parent'[m] = parent[m]
        BY <1>0, <4>4, <4>5
      <4>7. CollectionsOK => CollectionsOK'
        BY <4>1, <4>4, <4>6 DEF CollectionsOK
      <4>8. QED BY <4>4, <4>6, <4>7
    <3>3. QED BY <3>1, <3>2
  <2>3. ASSUME NEW i \in DOMAIN calls, AnswerRename(i) \/ AnswerDelete(i) PROVE parent' = parent
    BY <2>3 DEF AnswerRename, AnswerDelete, Rename, Delete, api
  <2>4. ASSUME NEW i \in DOMAIN calls, AnswerMove(i) PROVE parent' = parent
    <3> DEFINE ok == {n \in calls[i].nodes : MayMove(n, calls[i].node)}
    <3>1. moved' = moved \cup ok /\ Move(ok, calls[i].node)
      BY <2>4 DEF AnswerMove
    <3> HIDE DEF ok
    <3>2. ok = {}
      BY <3>1
    <3>3. QED BY <1>0, <3>1, <3>2 DEF Move
  <2>5. UNCHANGED api => parent' = parent
    BY DEF api
  <2>6. QED BY <2>1, <2>2, <2>3, <2>4, <2>5, WhoChanges DEF WhoStatement, ApiChanges
<1>2. PathsIn(PathOf, parent)
  BY <1>0, PathOfIs
<1>3. PathsIn(PathOf', parent')
  <2>1. PICK f : f = CHOOSE e : PathsIn(e, parent')
    OBVIOUS
  <2>2. PathsIn(f, parent')
    BY <1>0, <2>1, PathsExist
  <2>3. PathOf' = f
    BY <2>1 DEF PathOf, PathsIn
  <2>4. QED BY <2>2, <2>3
<1>4. PICK f : f = PathOf
  OBVIOUS
<1>5. PICK g : g = PathOf'
  OBVIOUS
<1>6. \A n \in Nodes : parent[n] # None => g[n] = f[n]
  BY <1>0, <1>1, <1>2, <1>3, <1>4, <1>5, PathsStay
<1>7. ASSUME NEW p, NEW n, Shows(p, n, parent, f) PROVE Shows(p, n, parent', g)
  BY <1>1, <1>6, <1>7 DEF Shows
<1>8. QED BY <1>1, <1>4, <1>5, <1>7

(* The objects are children of d.                                           *)
ChildrenOf(objects, d) ==
    \A j \in DOMAIN objects : objects[j].id \in Nodes \ {Org} /\ parent[objects[j].id] = d

(* So are those of a page.                                                  *)
LEMMA PageOfChildren ==
    ASSUME ApiTypeOK, NEW d \in Nodes, NEW from \in Nat
    PROVE  ChildrenOf(Page(d, from).results, d)
BY PageTyped DEF ChildrenOf, Children

(* And the folders among them.                                              *)
LEMMA FoldersOf ==
    ASSUME NEW objects \in Seq(Object), NEW d, ChildrenOf(objects, d), NEW c \in Folders(objects)
    PROVE  c \in Nodes \ {Org} /\ parent[c] = d
<1>1. PICK o \in Range(objects) : c = o.id
  BY DEF Folders
<1>2. PICK j \in DOMAIN objects : o = objects[j]
  BY <1>1 DEF Range
<1>3. QED BY <1>1, <1>2 DEF ChildrenOf

(* Navigators in which every item has its path.                             *)
Showing == {t \in Trees : TreeShows(t)}

(* An item gets items below it: they have theirs.                           *)
LEMMA GrownShows ==
    ASSUME ApiKnown, CollectionsOK, NEW t \in Showing, NEW d, NEW n,
           NEW objects \in Seq(Object), ChildrenOf(objects, n)
    PROVE  Grown(t, d, n, objects) \in Showing
<1>0. /\ parent \in [Nodes -> Nodes \cup {None}] /\ ApiTypeOK /\ PathsIn(PathOf, parent)
      /\ t \in Trees /\ TreeShows(t)
  BY PathOfIs DEF ApiKnown, ApiTypeOK, Showing
<1>1. PICK D \in SUBSET Nodes : t \in [D -> Path]
  BY <1>0 DEF Trees
<1>2. ASSUME NEW ns, \A c \in ns : c \in Nodes \ {Org} /\ parent[c] = d, d \in D
      PROVE  TreeShows(WithItems(t, d, ns))
  <2> DEFINE g == WithItems(t, d, ns)
  <2>1. /\ DOMAIN g = D \cup ns
        /\ \A c \in D \cup ns : g[c] = IF c \in D THEN t[c]
                                       ELSE IF Kind[c] = "COLLECTION" THEN <<c>> ELSE Append(t[d], c)
    BY <1>1 DEF WithItems
  <2> HIDE DEF g
  <2>2. ASSUME NEW c \in D \cup ns PROVE Shows(g[c], c, parent, PathOf)
    <3>1. CASE c \in D
      BY <1>0, <1>1, <2>1, <3>1 DEF TreeShows
    <3>2. CASE c \notin D /\ Kind[c] = "COLLECTION"
      <4>1. c \in Nodes \ {Org} /\ parent[c] = d /\ d \in Nodes /\ d # None
        BY <1>2, <3>2, NodesAssumption
      <4>2. d = Org
        BY <3>2, <4>1 DEF CollectionsOK
      <4>3. PathOf[Org] = <<>> /\ PathOf[c] = Append(PathOf[Org], c)
        BY <1>0, <4>1, <4>2, NodesAssumption DEF PathsIn
      <4>3a. Append(<<>>, c) = <<c>>
        OBVIOUS
      <4>3b. PathOf[c] = <<c>>
        BY <4>3, <4>3a
      <4>3c. g[c] = <<c>>
        BY <2>1, <3>2
      <4>4. g[c] = <<c>> /\ PathOf[c] = <<c>>
        BY <4>3b, <4>3c
      <4>5. QED BY <4>1, <4>4 DEF Shows
    <3>3. CASE c \notin D /\ Kind[c] # "COLLECTION"
      <4>1. c \in Nodes \ {Org} /\ parent[c] = d
        BY <1>2, <3>3
      <4>2. Shows(t[d], d, parent, PathOf) /\ t[d] \in Path
        BY <1>0, <1>1, <1>2 DEF TreeShows
      <4>3. Shows(Append(t[d], c), c, parent, PathOf)
        BY <1>0, <4>1, <4>2, ShowsChild
      <4>4. g[c] = Append(t[d], c)
        BY <2>1, <3>3
      <4>5. QED BY <4>3, <4>4
    <3>4. QED BY <3>1, <3>2, <3>3
  <2>3. QED BY <2>1, <2>2 DEF TreeShows, g
<1>3. Grown(t, d, n, objects) \in Trees
  BY <1>0, GrownTyped
<1>4. d \in DOMAIN t <=> d \in D
  BY <1>1
<1>5. CASE d \notin D
  BY <1>0, <1>3, <1>4, <1>5 DEF Grown, Showing
<1>6. CASE d \in D /\ d = n
  <2>1. \A c \in Folders(objects) : c \in Nodes \ {Org} /\ parent[c] = d
    BY <1>6, FoldersOf
  <2>2. Grown(t, d, n, objects) = WithItems(t, d, Folders(objects))
    BY <1>4, <1>6 DEF Grown
  <2>3. QED BY <1>2, <1>3, <1>6, <2>1, <2>2 DEF Showing
<1>7. CASE d \in D /\ d # n
  <2> DEFINE ns == {c \in Nodes \ {Org} : Exists(c) /\ parent[c] = d /\ Kind[c] # "FILE"}
  <2>1. Grown(t, d, n, objects) = WithItems(t, d, ns)
    BY <1>4, <1>7 DEF Grown
  <2>2. \A c \in ns : c \in Nodes \ {Org} /\ parent[c] = d
    OBVIOUS
  <2> HIDE DEF ns
  <2>3. QED BY <1>2, <1>3, <1>7, <2>1, <2>2 DEF Showing
<1>8. QED BY <1>5, <1>6, <1>7

(* Every item of the navigator keeps its path.                              *)
LEMMA TreeShowsStep ==
    ASSUME Typed, Next, CollectionsOK, TreeShows(tree), moved' = {}
    PROVE  TreeShows(tree')
<1>0. tree \in Trees /\ ApiKnown /\ ApiTypeOK /\ tree \in Showing
  BY DEF Typed, ApiKnown, Showing
<1>0a. parent \in [Nodes -> Nodes \cup {None}] /\ PathsIn(PathOf, parent) /\ IsTree(parent)
  BY <1>0, PathOfIs DEF ApiKnown, ApiTypeOK
<1>1. ASSUME NEW ns PROVE TreeShows(Without(ns))
  <2>1. PICK D \in SUBSET Nodes : tree \in [D -> Path] /\ DOMAIN tree = D
    BY <1>0 DEF Trees
  <2>2. Without(ns) = [n \in D \ ns |-> tree[n]]
    BY <2>1 DEF Without
  <2>3. QED BY <2>1, <2>2 DEF TreeShows
<1>2. ASSUME NEW n \in DOMAIN tree, TreeExpand(n) PROVE TreeShows(tree')
  BY <1>1, <1>2 DEF TreeExpand
<1>3. ASSUME NEW i \in DOMAIN calls, AnswerList(i) PROVE TreeShows(tree')
  <2>1. PICK n \in Nodes : n = calls[i].node
    BY <1>3 DEF Typed, CallsKnown, CallOK, AnswerList
  <2>2. PICK objects \in Seq(Object) : objects = Page(n, 0).results
    BY <1>0, PageTyped
  <2>2a. ChildrenOf(objects, n)
    BY <1>0, <2>2, PageOfChildren
  <2>3. tree' = TreeShowing(n, objects)
    BY <1>3, <2>1, <2>2 DEF AnswerList
  <2>4. CASE n \in DOMAIN tree
    <3>1. Grown(tree, n, n, objects) \in Showing
      BY <1>0, <2>2a, GrownShows
    <3>2. QED BY <2>3, <2>4, <3>1 DEF TreeShowing, Showing
  <2>5. CASE n \notin DOMAIN tree
    <3> DEFINE z == <<Org>> \o PathOf[n]
    <3>1. Len(z) \in Nat /\ DOMAIN z = 1..Len(z)
      BY <1>0, WayIs
    <3> HIDE DEF z
    <3>2. PICK l \in Nat : DOMAIN z = 1..l
      BY <3>1
    <3>3. \A t \in Showing, j \in 1..l : Grown(t, z[j], n, objects) \in Showing
      BY <1>0, <2>2a, GrownShows
    <3>4. tree \in Showing
      BY <1>0
    <3>5. WayGrown(n, objects, z) \in Showing
      BY <3>2, <3>3, <3>4, GrowingKeeps
    <3>6. TreeShowing(n, objects) = WayGrown(n, objects, z)
      BY <2>5 DEF TreeShowing, WayGrown, z
    <3>7. QED BY <2>3, <3>5, <3>6 DEF Showing
  <2>6. QED BY <2>4, <2>5
<1>4. ASSUME NEW i \in DOMAIN calls, AnswerChildren(i) PROVE TreeShows(tree')
  <2>1. PICK d \in Nodes : d = calls[i].node
    BY <1>4 DEF Typed, CallsKnown, CallOK, AnswerChildren
  <2>2. PICK objects \in Seq(Object) : objects = Page(d, 0).results
    BY <1>0, PageTyped
  <2>2a. ChildrenOf(objects, d)
    BY <1>0, <2>2, PageOfChildren
  <2>3. tree' = TreeListing(d, objects)
    BY <1>4, <2>1, <2>2 DEF AnswerChildren
  <2>4. CASE d \notin DOMAIN tree \/ objects = <<>>
    BY <1>0, <2>3, <2>4 DEF TreeListing
  <2>5. CASE ~ (d \notin DOMAIN tree \/ objects = <<>>)
    <3> DEFINE base == IF d = Org THEN <<None>> ELSE tree[d]
               kept == Without(Below(d) \ {d})
               ns == Folders(objects)
               g == [c \in DOMAIN kept \cup ns |-> IF c \in ns THEN Append(base, c) ELSE kept[c]]
    <3>1. tree' = g
      BY <2>3, <2>5 DEF TreeListing
    <3>2. TreeShows(kept)
      BY <1>1
    <3>3. base \in Path /\ Shows(base, d, parent, PathOf)
      <4>1. tree[d] \in Path /\ Shows(tree[d], d, parent, PathOf)
        BY <1>0, <2>5 DEF Trees, TreeShows
      <4>2. <<None>> \in Path /\ <<None>> # <<>> /\ (<<None>>)[1] = None
        BY DEF Path
      <4>3. Shows(<<None>>, Org, parent, PathOf)
        BY <1>0a, <4>2, NodesAssumption DEF Shows, IsTree
      <4>4. QED BY <4>1, <4>2, <4>3
    <3>4. \A c \in ns : c \in Nodes \ {Org} /\ parent[c] = d
      BY <2>2a, FoldersOf
    <3> HIDE DEF base, kept, ns
    <3>5. ASSUME NEW c \in DOMAIN kept \cup ns PROVE Shows(g[c], c, parent, PathOf)
      <4>1. CASE c \in ns
        <5>1. Shows(Append(base, c), c, parent, PathOf)
          BY <1>0a, <3>3, <3>4, <4>1, ShowsChild
        <5>2. QED BY <4>1, <5>1
      <4>2. CASE c \notin ns
        BY <3>2, <4>2 DEF TreeShows
      <4>3. QED BY <4>1, <4>2
    <3>6. QED BY <3>1, <3>5 DEF TreeShows
  <2>6. QED BY <2>4, <2>5
<1>5. ASSUME NEW i \in DOMAIN calls, AnswerMove(i) PROVE TreeShows(tree')
  <2> DEFINE ok == {n \in calls[i].nodes : MayMove(n, calls[i].node)}
             folders == {n \in ok : Kind[n] # "FILE"}
             reached == IF folders \cup {calls[i].node} \subseteq DOMAIN tree THEN folders
                        ELSE {n \in folders : \A x \in folders : ~Precedes(x, n)}
  <2>1. moved' = moved \cup ok
    BY <1>5 DEF AnswerMove
  <2>2. tree' = tree \/ tree' = TreeMoving(reached \cap DOMAIN tree, calls[i].node)
    BY <1>5 DEF AnswerMove
  <2> HIDE DEF ok
  <2>3. ok = {}
    BY <2>1
  <2>4. reached \cap DOMAIN tree = {}
    BY <2>3
  <2>5. TreeShows(TreeMoving({}, calls[i].node))
    <3>1. PICK D \in SUBSET Nodes : tree \in [D -> Path] /\ DOMAIN tree = D
      BY <1>0 DEF Trees
    <3>2. calls[i].node \in D => TreeMoving({}, calls[i].node) = [c \in D |-> tree[c]]
      BY <3>1 DEF TreeMoving
    <3>3. [c \in D |-> tree[c]] = tree
      BY <3>1
    <3>4. calls[i].node \notin D => \E ns : TreeMoving({}, calls[i].node) = Without(ns)
      BY <3>1 DEF TreeMoving
    <3>5. QED BY <1>1, <3>2, <3>3, <3>4
  <2>6. QED BY <2>2, <2>4, <2>5
<1>6. TreeChanges \/ UNCHANGED tree
  BY WhoChanges DEF WhoStatement
<1>7. QED BY <1>2, <1>3, <1>4, <1>5, <1>6 DEF TreeChanges

(* The requests cs are the others, and changes of directory to m under p.   *)
Added(cs, others, p, m) ==
    \A j \in DOMAIN cs :
        \/ \E k \in DOMAIN others : cs[j] = others[k]
        \/ cs[j].op \in Nav /\ cs[j].path = p /\ cs[j].node = m /\ m # None

(* What CHANGE_DIRECTORY_REQUEST sends asks for the node under the path.    *)
LEMMA ChangeAdds ==
    ASSUME NEW others \in Seq(Call), NEW up, NEW id \in Nodes \cup {None},
           NEW n \in Nodes \cup {None}, NEW p \in Path, NEW push \in BOOLEAN,
           ChangeWhen(up, others, id, n, p, push)
    PROVE  /\ here' = [node |-> n, path |-> p]
           /\ Added(calls', others, p, IF n # None THEN n ELSE id)
<1> DEFINE call == [Ask(IF n # None THEN "list" ELSE "node",
                        IF n # None THEN n ELSE id) EXCEPT !.path = p, !.push = push]
           fails == ~up \/ call.node = None
<1>1. /\ here' = [node |-> n, path |-> p]
      /\ calls' = IF fails THEN others ELSE Append(others, call)
  BY DEF ChangeWhen
<1>2. PICK a \in Call : a = Ask(IF n # None THEN "list" ELSE "node", IF n # None THEN n ELSE id)
  <2>1. (IF n # None THEN "list" ELSE "node") \in Op
    BY DEF Op
  <2>2. QED BY <2>1, AskTyped
<1>3. a.op = (IF n # None THEN "list" ELSE "node") /\ a.node = (IF n # None THEN n ELSE id)
  BY <1>2 DEF Ask
<1>4. /\ call = [a EXCEPT !.path = p, !.push = push]
      /\ call.op = a.op /\ call.node = a.node /\ call.path = p
  BY <1>2 DEF Call
<1> HIDE DEF call
<1>5. /\ call.op \in Nav /\ call.path = p
      /\ call.node = IF n # None THEN n ELSE id
  BY <1>3, <1>4 DEF Nav
<1>6. CASE fails
  <2>1. calls' = others
    BY <1>1, <1>6
  <2>2. QED BY <1>1, <2>1 DEF Added
<1>7. ASSUME ~fails PROVE Added(calls', others, p, IF n # None THEN n ELSE id)
  <2>0. call.node # None /\ calls' = Append(others, call)
    BY <1>1, <1>7
  <2> HIDE DEF fails
  <2>1. PICK l \in Nat : l = Len(others) /\ DOMAIN others = 1..l
    OBVIOUS
  <2>2. /\ DOMAIN Append(others, call) = 1..(l + 1)
        /\ \A j \in 1..(l + 1) : Append(others, call)[j] = IF j <= l THEN others[j] ELSE call
    BY <2>1
  <2>3. ASSUME NEW j \in 1..(l + 1)
        PROVE  (\E k \in 1..l : calls'[j] = others[k]) \/ calls'[j] = call
    <3>1. CASE j <= l
      <4>1. j \in 1..l
        BY <3>1
      <4>2. calls'[j] = others[j]
        BY <2>0, <2>2, <3>1
      <4>3. QED BY <4>1, <4>2
    <3>2. CASE ~ (j <= l)
      BY <2>0, <2>2, <3>2
    <3>3. QED BY <3>1, <3>2
  <2>4. DOMAIN calls' = 1..(l + 1)
    BY <2>0, <2>2
  <2>5. QED BY <1>5, <2>0, <2>1, <2>3, <2>4 DEF Added
<1>8. QED BY <1>1, <1>6, <1>7

(* The requests cs are those there were, and changes of directory to where  *)
(* they should lead.                                                        *)
Leading(cs) ==
    \A j \in DOMAIN cs :
        \/ \E k \in DOMAIN calls : cs[j] = calls[k]
        \/ cs[j].op \in Nav /\ Shows(cs[j].path, cs[j].node, parent, PathOf)

(* Whatever part of the page asks for a directory, it is the node under     *)
(* its path.                                                                *)
LEMMA NavShows ==
    ASSUME Typed, ReadyKnown, ~hurried, PlacesOK, NavAsks
    PROVE  /\ here'.node # None => Shows(here'.path, here'.node, parent, PathOf)
           /\ Leading(calls')
<1> DEFINE Goal == /\ here'.node # None => Shows(here'.path, here'.node, parent, PathOf)
                   /\ Leading(calls')
<1>1. /\ calls \in Seq(Call) /\ here \in Place /\ view \in Place /\ tree \in Trees
      /\ past \in [entries : Seq(Place), at : Nat] /\ view.node \in Nodes /\ ApiKnown
      /\ parent \in [Nodes -> Nodes \cup {None}] /\ IsTree(parent) /\ PathsIn(PathOf, parent)
  BY PathOfIs DEF Typed, CallsKnown, ViewKnown, ApiKnown, ApiTypeOK
<1>2. Org \in Nodes /\ None \notin Nodes /\ parent[Org] # None
  BY <1>1, NodesAssumption DEF IsTree
<1>3. ASSUME NEW up, NEW id \in Nodes \cup {None}, NEW n \in Nodes \cup {None},
             NEW p \in Path, NEW push \in BOOLEAN, ChangeWhen(up, calls, id, n, p, push),
             Shows(p, IF n # None THEN n ELSE id, parent, PathOf)
      PROVE  Goal
  <2>1. here' = [node |-> n, path |-> p]
    BY <1>1, <1>3, ChangeAdds
  <2>2. here'.node = n /\ here'.path = p
    BY <2>1
  <2>3. PICK m : m = IF n # None THEN n ELSE id
    OBVIOUS
  <2>4. Added(calls', calls, p, m)
    BY <1>1, <1>3, <2>3, ChangeAdds
  <2>5. Shows(p, m, parent, PathOf)
    BY <1>3, <2>3
  <2>6. Leading(calls')
    BY <2>4, <2>5 DEF Added, Leading
  <2>7. n # None => m = n
    BY <2>3
  <2>8. QED BY <2>2, <2>5, <2>6, <2>7
<1> HIDE DEF Goal
<1>4. ASSUME ApiReady PROVE Goal
  <2>1. here = AtStart
    BY <1>4 DEF ApiReady, ReadyKnown
  <2>2. here.node = Start /\ here.node # None
    BY <1>2, <2>1, StartAssumption DEF AtStart
  <2>3. here.node \in Nodes \cup {None} /\ here.path \in Path
    BY <1>1 DEF Place
  <2>4. ChangeWhen(TRUE, calls, None, here.node, here.path, TRUE)
    BY <1>4 DEF ApiReady
  <2>5. Shows(here.path, here.node, parent, PathOf)
    BY <2>2 DEF PlacesOK, HereShows
  <2>6. QED BY <1>3, <2>2, <2>3, <2>4, <2>5
<1>5. ASSUME NEW i \in DOMAIN rows, OpenRow(i) PROVE Goal
  <2>1. PICK n \in Nodes : n = NodeOfRow(i)
    BY <1>5, RowIsNode DEF OpenRow
  <2>2. rows[i].at \in DOMAIN nodes /\ n = nodes[rows[i].at].id
    BY <1>2, <2>1 DEF NodeOfRow
  <2>3. n # Org /\ parent[n] = view.node
    BY <2>2 DEF PlacesOK, TableOK, Typed, ListKnown
  <2>4. view.path \in Path /\ Shows(view.path, view.node, parent, PathOf)
    BY <1>1 DEF Place, PlacesOK, HereShows
  <2>5. Shows(Append(view.path, n), n, parent, PathOf)
    BY <1>1, <2>1, <2>3, <2>4, ShowsChild
  <2>6. Append(view.path, n) \in Path
    BY <2>1, <2>4 DEF Path
  <2>7. ChangeWhen(ready, calls, None, n, Append(view.path, n), TRUE)
    BY <1>5, <2>1 DEF OpenRow, Change
  <2>8. n # None
    BY <1>2, <2>1
  <2>9. QED BY <1>3, <2>1, <2>5, <2>6, <2>7, <2>8
<1>6. ASSUME NEW k \in 0..Len(view.path), Crumb(k) PROVE Goal
  <2>0. PICK v \in Seq(Nodes \cup {None}) : v = view.path
    BY <1>1 DEF Place, Path
  <2>1. PICK s \in Seq(Nodes \ {Org}) : s = PathOf[view.node]
    BY <1>1, PathsAre
  <2>2. PICK l \in Nat : l = Len(s)
    BY <2>1
  <2> DEFINE ids == <<Org>> \o s
  <2>3. DOMAIN ids = 1..(l + 1) /\ ids[1] = Org /\ \A j \in 1..l : ids[j + 1] = s[j]
    <3>1. <<Org>> \in Seq(Nodes) /\ s \in Seq(Nodes) /\ Len(<<Org>>) = 1 /\ (<<Org>>)[1] = Org
      BY <1>2, <2>1
    <3>2. /\ Len(ids) = Len(<<Org>>) + Len(s) /\ ids \in Seq(Nodes)
          /\ \A j \in 1..(Len(<<Org>>) + Len(s)) :
                ids[j] = IF j <= Len(<<Org>>) THEN (<<Org>>)[j] ELSE s[j - Len(<<Org>>)]
      BY <3>1, ConcatProperties
    <3> HIDE DEF ids
    <3>3. Len(ids) = 1 + l /\ \A j \in 1..(1 + l) : ids[j] = IF j <= 1 THEN (<<Org>>)[j] ELSE s[j - 1]
      BY <2>2, <3>1, <3>2
    <3>4. DOMAIN ids = 1..(l + 1)
      BY <3>2, <3>3
    <3>5. \A j \in 1..l : j + 1 \in 1..(1 + l) /\ ~ (j + 1 <= 1) /\ (j + 1) - 1 = j
      OBVIOUS
    <3>6. QED BY <3>1, <3>3, <3>4, <3>5
  <2>4. PICK x : x = IF k + 1 \in DOMAIN ids THEN ids[k + 1] ELSE Org
    OBVIOUS
  <2>5. PICK p : p = SubSeq(v, 1, k)
    OBVIOUS
  <2>6. ChangeWhen(ready, calls, x, None, p, TRUE)
    BY <1>6, <2>0, <2>1, <2>4, <2>5 DEF Crumb, Change
  <2> HIDE DEF ids
  <2>7. PICK q \in Nat : q = Len(v) /\ k \in 0..q
    BY <1>6, <2>0
  <2>8. p \in Seq(Nodes \cup {None}) /\ Len(p) = k /\ \A j \in 1..k : p[j] = v[j]
    BY <2>0, <2>5, <2>7
  <2>9. k = 0 => p = <<>> /\ x = Org
    BY <2>3, <2>4, <2>8
  <2>10. \A j \in 1..l : s[j] \in Nodes /\ parent[s[j]] # None /\ PathOf[s[j]] = SubSeq(s, 1, j)
    <3>1. parent[view.node] # None
      BY DEF PlacesOK, HereShows, Shows
    <3>2. PICK f : f = PathOf
      OBVIOUS
    <3>3. f[view.node] = s /\ PathsIn(f, parent)
      BY <1>1, <2>1, <3>2
    <3>4. \A j \in 1..Len(f[view.node]) :
             /\ f[view.node][j] \in Nodes /\ parent[f[view.node][j]] # None
             /\ f[f[view.node][j]] = SubSeq(f[view.node], 1, j)
      BY <1>1, <3>1, <3>3, PathParts
    <3>5. QED BY <2>2, <3>2, <3>3, <3>4
  <2>11. x \in Nodes /\ parent[x] # None
    <3>1. CASE k \in 1..l
      BY <2>3, <2>4, <2>10, <3>1
    <3>2. CASE k \notin 1..l
      <4>1. k = 0 \/ k + 1 \notin 1..(l + 1)
        BY <2>2, <3>2, <2>7
      <4>2. QED BY <1>2, <2>3, <2>4, <2>9, <4>1
    <3>3. QED BY <3>1, <3>2
  <2>12. Shows(p, x, parent, PathOf)
    <3>1. CASE k = 0
      <4>1. PathOf[Org] = <<>>
        BY <1>1, <1>2 DEF PathsIn
      <4>2. QED BY <2>9, <2>11, <3>1, <4>1 DEF Shows
    <3>2. CASE k # 0 /\ v = s
      <4>1. k \in 1..l /\ k + 1 \in 1..(l + 1)
        BY <2>2, <2>7, <3>2
      <4>2. x = s[k]
        BY <2>3, <2>4, <4>1
      <4>3. QED BY <2>5, <2>10, <2>11, <3>2, <4>1, <4>2 DEF Shows
    <3>3. CASE k # 0 /\ v[1] = None
      <4>1. 1 \in 1..k /\ p # <<>>
        BY <2>7, <2>8, <3>3
      <4>2. p[1] = None
        BY <2>8, <3>3, <4>1
      <4>3. QED BY <2>11, <4>1, <4>2 DEF Shows
    <3>4. v = s \/ v[1] = None
      BY <2>0, <2>1 DEF PlacesOK, HereShows, Shows
    <3>5. QED BY <3>1, <3>2, <3>3, <3>4
  <2>13. p \in Path
    BY <2>8 DEF Path
  <2>14. QED BY <1>3, <2>6, <2>11, <2>12, <2>13
<1>7. ASSUME NEW n \in DOMAIN tree, TreeClick(n) PROVE Goal
  <2>1. n \in Nodes /\ tree[n] \in Path
    BY <1>1 DEF Trees
  <2>2. ChangeWhen(ready, calls, n, None, tree[n], TRUE)
    BY <1>7 DEF TreeClick, Change
  <2>3. Shows(tree[n], n, parent, PathOf)
    BY DEF PlacesOK, TreeShows
  <2>4. QED BY <1>3, <2>1, <2>2, <2>3
<1>8. ASSUME NEW j \in DOMAIN past.entries, j > 1, GoTo(j) PROVE Goal
  <2>1. PICK e \in Place : e = past.entries[j]
    BY <1>1
  <2>2. Shows(e.path, e.node, parent, PathOf) /\ e.path \in Path
    BY <2>1 DEF PlacesOK, PastShows, Place
  <2>3. e.node \in Nodes /\ e.node # None
    BY <1>2, <2>2 DEF Shows
  <2>4. j # 1
    BY <1>1, <1>8
  <2>5. ChangeWhen(ready, calls, None, e.node, e.path, FALSE)
    BY <1>8, <2>1, <2>4 DEF GoTo, Change
  <2>6. QED BY <1>3, <2>2, <2>3, <2>5
<1>9. QED BY <1>4, <1>5, <1>6, <1>7, <1>8 DEF NavAsks, Goal

(* Only an answer with the children of a directory has it shown.            *)
LEMMA ViewStays ==
    ASSUME Typed, Next, \A i \in DOMAIN calls : ~AnswerList(i)
    PROVE  view' = view /\ past'.entries = past.entries
<1>0. past \in [entries : Seq(Place), at : Nat]
  BY DEF Typed, ViewKnown
<1>1. ASSUME NEW j, past' = [past EXCEPT !.at = j] PROVE past'.entries = past.entries
  BY <1>0, <1>1
<1>2. CASE NavAsks
  <2>1. view' = view /\ (past' = past \/ \E j : past' = [past EXCEPT !.at = j])
    BY <1>2 DEF NavAsks, ApiReady, OpenRow, Crumb, TreeClick, GoTo, Going
  <2>2. QED BY <1>1, <2>1
<1>3. CASE OtherAsks
  BY <1>3 DEF OtherAsks, TreeExpand, LoadMore, MoveHere, ListFolder
<1>4. ASSUME NEW m \in Modal, NEW text \in Names, SubmitByClick(m, text) \/ SubmitByEnter(m, text)
      PROVE  view' = view /\ past'.entries = past.entries
  BY <1>4 DEF SubmitByClick, SubmitByEnter, Submitting
<1>5. CASE Aside
  BY <1>5, AsideIs
<1>6. CASE GoTo(1)
  BY <1>1, <1>6 DEF GoTo
<1>7. ASSUME NEW i \in DOMAIN calls, Answer(i) \/ Lose(i)
      PROVE  view' = view /\ past'.entries = past.entries
  BY <1>7 DEF Answer, Lose, AnswerNode, AnswerChildren, AnswerMore, AnswerCreate,
              AnswerRename, AnswerDelete, AnswerListing, AnswerMove
<1>8. QED BY <1>2, <1>3, <1>4, <1>5, <1>6, <1>7, StepKinds

(* The table ns with the next page nx is that of the directory d.           *)
TableOf(d, nx, ns) == nx.of = d /\ \A i \in DOMAIN ns : parent[ns[i].id] = d

(* The table keeps showing children of the directory that is shown.         *)
LEMMA TableStep ==
    ASSUME Typed, Next, TableOK, CallsShow
    PROVE  TableOf(view'.node, next', nodes')
<1>0. /\ ListKnown /\ nodes \in Seq(Object) /\ next \in [of : Nodes, from : Nat] /\ ApiTypeOK
      /\ TableOf(view.node, next, nodes) /\ view.node \in Nodes
  BY DEF Typed, ListKnown, ListTypeOK, ApiKnown, TableOK, TableOf, ViewKnown
<1>0a. \A i \in DOMAIN calls : calls[i] \in Call /\ CallOK(calls[i])
  BY DEF Typed, CallsKnown
<1>1. ASSUME NEW i \in DOMAIN calls, AnswerList(i) PROVE TableOf(view'.node, next', nodes')
  <2>1. PICK d \in Nodes : d = calls[i].node
    BY <1>0a, <1>1 DEF CallOK, AnswerList
  <2>2. view' = [node |-> d, path |-> calls[i].path] /\ ShowDirectory(d, Page(d, 0))
    BY <1>1, <2>1 DEF AnswerList
  <2>3. view'.node = d /\ nodes' = Page(d, 0).results /\ next' = Page(d, 0).next
    BY <2>2 DEF ShowDirectory
  <2>4. ChildrenOf(Page(d, 0).results, d)
    BY <1>0, PageOfChildren
  <2>5. Page(d, 0).next.of = d
    BY <1>0, PageIs
  <2>6. QED BY <2>3, <2>4, <2>5 DEF TableOf, ChildrenOf
<1>2. ASSUME view' = view, next' = next,
             \A j \in DOMAIN nodes' : \E k \in DOMAIN nodes : nodes'[j].id = nodes[k].id
      PROVE  TableOf(view'.node, next', nodes')
  BY <1>0, <1>2 DEF TableOf
<1>3. ASSUME NEW i \in DOMAIN calls, AnswerMore(i), view' = view
      PROVE  TableOf(view'.node, next', nodes')
  <2>1. PICK d \in Nodes : d = view.node
    BY <1>0
  <2>2. PICK k \in Nat : k = calls[i].from
    BY <1>0a DEF Call
  <2>3. calls[i].node = d
    BY <1>3, <2>1 DEF AnswerMore, CallsShow, CallShows
  <2>4. AppendPage(Page(d, k))
    BY <1>3, <2>2, <2>3 DEF AnswerMore
  <2>5. PICK r \in Seq(Object) : r = Page(d, k).results
    BY <1>0, PageTyped
  <2>6. nodes' = nodes \o r /\ next' = Page(d, k).next
    BY <2>4, <2>5 DEF AppendPage
  <2>7. ChildrenOf(r, d) /\ Page(d, k).next.of = d
    BY <1>0, <2>5, PageOfChildren, PageIs
  <2>8. PICK l \in Nat, q \in Nat : l = Len(nodes) /\ q = Len(r)
    BY <1>0
  <2>9. DOMAIN nodes = 1..l /\ DOMAIN r = 1..q
    BY <1>0, <2>8
  <2>10. /\ DOMAIN nodes' = 1..(l + q)
         /\ \A j \in 1..(l + q) : nodes'[j] = IF j <= l THEN nodes[j] ELSE r[j - l]
    <3>1. /\ Len(nodes \o r) = Len(nodes) + Len(r) /\ nodes \o r \in Seq(Object)
          /\ \A j \in 1..(Len(nodes) + Len(r)) :
                (nodes \o r)[j] = IF j <= Len(nodes) THEN nodes[j] ELSE r[j - Len(nodes)]
      BY <1>0, ConcatProperties
    <3>2. Len(nodes') = l + q /\ nodes' \in Seq(Object)
      BY <2>6, <2>8, <3>1
    <3>3. QED BY <2>6, <2>8, <3>1, <3>2
  <2>11. ASSUME NEW j \in 1..(l + q) PROVE parent[nodes'[j].id] = d
    <3>1. CASE j <= l
      <4>1. j \in DOMAIN nodes
        BY <2>9, <3>1
      <4>2. QED BY <1>0, <2>1, <2>10, <3>1, <4>1 DEF TableOf
    <3>2. CASE ~ (j <= l)
      <4>1. j - l \in DOMAIN r
        BY <2>9, <3>2
      <4>2. QED BY <2>7, <2>10, <3>2, <4>1 DEF ChildrenOf
    <3>3. QED BY <3>1, <3>2
  <2>12. QED BY <1>3, <2>1, <2>6, <2>7, <2>10, <2>11 DEF TableOf
<1>4. ASSUME NEW keep, nodes' = Kept(nodes, keep)
      PROVE  \A j \in DOMAIN nodes' : \E k \in DOMAIN nodes : nodes'[j].id = nodes[k].id
  <2>1. PICK p : KeptFrom(Kept(nodes, keep), p, nodes, DOMAIN nodes \cap keep)
    BY <1>0, KeptIs
  <2>2. PICK r \in Seq(Object) : r = Kept(nodes, keep)
    BY <1>0, KeptIs
  <2>3. \A j \in DOMAIN r : r[j] = nodes[p[j]] /\ p[j] \in DOMAIN nodes
    BY <2>1, <2>2 DEF KeptFrom
  <2>4. QED BY <1>4, <2>2, <2>3
<1>5. ASSUME NEW i \in DOMAIN calls, AnswerRename(i)
      PROVE  next' = next /\ DOMAIN nodes' = DOMAIN nodes
             /\ \A j \in DOMAIN nodes : nodes'[j].id = nodes[j].id
  <2>1. PICK n : n = CHOOSE x \in calls[i].nodes : TRUE
    OBVIOUS
  <2>2. UNCHANGED list \/ ShowRenamed(n, calls[i].was, calls[i].text)
    BY <1>5, <2>1 DEF AnswerRename
  <2>3. CASE UNCHANGED list
    BY <2>3 DEF list
  <2>4. CASE ShowRenamed(n, calls[i].was, calls[i].text)
    <3>1. next' = next
      BY <2>4 DEF ShowRenamed
    <3>2. CASE nodes' = nodes
      BY <3>1, <3>2
    <3>3. CASE nodes' # nodes
      <4>1. PICK t : t = calls[i].text
        OBVIOUS
      <4>2. nodes' = [j \in DOMAIN nodes |-> IF nodes[j].id = n THEN [nodes[j] EXCEPT !.name = t]
                                             ELSE nodes[j]]
        BY <2>4, <3>3, <4>1 DEF ShowRenamed
      <4>3. \A o \in Object : [o EXCEPT !.name = t].id = o.id
        BY DEF Object
      <4>4. \A j \in DOMAIN nodes : nodes[j] \in Object
        BY <1>0
      <4>5. \A j \in DOMAIN nodes : [nodes[j] EXCEPT !.name = t].id = nodes[j].id
        BY <4>3, <4>4
      <4>6. QED BY <3>1, <4>2, <4>5
    <3>4. QED BY <3>2, <3>3
  <2>5. QED BY <2>2, <2>3, <2>4
<1>6. ASSUME NEW i \in DOMAIN calls, AnswerDelete(i) \/ AnswerMove(i)
      PROVE  next' = next /\ (nodes' = nodes \/ \E keep : nodes' = Kept(nodes, keep))
  <2>1. UNCHANGED list \/ (\E ns, e : ShowDeleted(ns, e)) \/ (\E ns, hide : ShowMoved(ns, hide))
    BY <1>6 DEF AnswerDelete, AnswerMove
  <2>2. CASE UNCHANGED list
    BY <2>2 DEF list
  <2>3. ASSUME NEW ns, NEW e, ShowDeleted(ns, e)
        PROVE  next' = next /\ \E keep : nodes' = Kept(nodes, keep)
    BY <2>3 DEF ShowDeleted
  <2>4. ASSUME NEW ns, NEW hide, ShowMoved(ns, hide)
        PROVE  next' = next /\ \E keep : nodes' = Kept(nodes, keep)
    BY <2>4 DEF ShowMoved
  <2>5. QED BY <2>1, <2>2, <2>3, <2>4
<1>7. ASSUME NEW i \in DOMAIN rows, Focus(NodeOfRow(i)) PROVE next' = next /\ nodes' = nodes
  BY <1>7 DEF Focus
<1>8. CASE \A i \in DOMAIN calls : ~AnswerList(i)
  <2>1. view' = view
    BY <1>8, ViewStays
  <2>2. CASE next' = next /\ nodes' = nodes
    BY <1>0, <2>1, <2>2
  <2>3. CASE \E i \in DOMAIN calls : AnswerMore(i)
    BY <1>3, <2>1, <2>3
  <2>4. CASE \E i \in DOMAIN calls : AnswerRename(i)
    BY <1>2, <1>5, <2>1, <2>4
  <2>5. CASE \E i \in DOMAIN calls : AnswerDelete(i) \/ AnswerMove(i)
    BY <1>2, <1>4, <1>6, <2>1, <2>2, <2>5
  <2>6. CASE UNCHANGED list
    BY <2>2, <2>6 DEF list
  <2>7. CASE \E i \in DOMAIN rows : \/ AskRename(i)
                                   \/ \E rs \in SelectedRows(i) : AskDelete(i, rs) \/ AskMove(i, rs)
    <3>1. PICK i \in DOMAIN rows : Focus(NodeOfRow(i))
      BY <2>7 DEF AskRename, AskDelete, AskMove, Menu
    <3>2. QED BY <1>7, <2>2, <3>1
  <2>8. ListChanges \/ UNCHANGED list
    BY WhoChanges DEF WhoStatement
  <2>9. QED BY <1>8, <2>3, <2>4, <2>5, <2>6, <2>7, <2>8 DEF ListChanges
<1>9. QED BY <1>1, <1>8

(* The directory that is shown is under its path, and so is what the        *)
(* history has.                                                             *)
LEMMA ViewShows ==
    ASSUME Typed, Next, PlacesOK
    PROVE  /\ Shows(view'.path, view'.node, parent, PathOf)
           /\ \A j \in DOMAIN past'.entries :
                 Shows(past'.entries[j].path, past'.entries[j].node, parent, PathOf)
<1>0. /\ past \in [entries : Seq(Place), at : Nat] /\ past.at \in DOMAIN past.entries
      /\ calls \in Seq(Call)
      /\ Shows(view.path, view.node, parent, PathOf)
      /\ \A j \in DOMAIN past.entries :
            Shows(past.entries[j].path, past.entries[j].node, parent, PathOf)
  BY DEF Typed, ViewKnown, CallsKnown, PlacesOK, HereShows, PastShows
<1>1. CASE \A i \in DOMAIN calls : ~AnswerList(i)
  BY <1>0, <1>1, ViewStays
<1>2. ASSUME NEW i \in DOMAIN calls, AnswerList(i)
      PROVE  /\ Shows(view'.path, view'.node, parent, PathOf)
             /\ \A j \in DOMAIN past'.entries :
                   Shows(past'.entries[j].path, past'.entries[j].node, parent, PathOf)
  <2>1. PICK c \in Call : c = calls[i]
    BY <1>0
  <2>2. c.op = "list" /\ Shows(c.path, c.node, parent, PathOf)
    BY <1>2, <2>1 DEF AnswerList, PlacesOK, CallsShow, CallShows, Nav
  <2>3. c.node \in Nodes /\ c.path \in Path
    BY <2>2 DEF Shows, Call
  <2>4. [node |-> c.node, path |-> c.path] \in Place
    BY <2>3 DEF Place
  <2>5. PICK at \in Place : at = [node |-> c.node, path |-> c.path]
    BY <2>4
  <2>6. Shows(at.path, at.node, parent, PathOf)
    BY <2>2, <2>5
  <2>7. view' = at /\ past' = Visited(at, c.push)
    BY <1>2, <2>1, <2>5 DEF AnswerList
  <2>8. CASE ~c.push
    BY <1>0, <2>6, <2>7, <2>8 DEF Visited
  <2>9. CASE c.push
    <3>1. PICK e \in Seq(Place) : e = past.entries
      BY <1>0
    <3>2. PICK l \in Nat : l = Len(e) /\ DOMAIN e = 1..l
      OBVIOUS
    <3>3. PICK k \in 1..l : k = past.at
      BY <1>0, <3>1, <3>2
    <3>4. SubSeq(e, 1, k) \in Seq(Place) /\ Len(SubSeq(e, 1, k)) = k
          /\ \A j \in 1..k : SubSeq(e, 1, k)[j] = e[j]
      BY <3>2
    <3>5. PICK s \in Seq(Place) : s = SubSeq(e, 1, k)
      BY <3>4
    <3>6. past'.entries = Append(s, at)
      BY <2>7, <2>9, <3>1, <3>3, <3>5 DEF Visited
    <3>7. /\ DOMAIN Append(s, at) = 1..(k + 1)
          /\ \A j \in 1..(k + 1) : Append(s, at)[j] = IF j <= k THEN e[j] ELSE at
      <4>1. Len(s) = k /\ \A j \in 1..k : s[j] = e[j]
        BY <3>4, <3>5
      <4>2. QED BY <4>1
    <3>8. PICK r : r = Append(s, at)
      OBVIOUS
    <3>9. ASSUME NEW j \in DOMAIN r PROVE Shows(r[j].path, r[j].node, parent, PathOf)
      <4>1. j \in 1..(k + 1)
        BY <3>7, <3>8
      <4>2. CASE j <= k
        <5>1. j \in DOMAIN e /\ r[j] = e[j]
          BY <3>2, <3>7, <3>8, <4>1, <4>2
        <5>2. QED BY <1>0, <3>1, <5>1
      <4>3. CASE ~ (j <= k)
        <5>1. r[j] = at
          BY <3>7, <3>8, <4>1, <4>3
        <5>2. QED BY <2>6, <5>1
      <4>4. QED BY <4>2, <4>3
    <3>10. QED BY <2>6, <2>7, <3>6, <3>8, <3>9
  <2>10. QED BY <2>8, <2>9
<1>3. QED BY <1>1, <1>2

(* The requests cs are those there were but the i-th, and others that have  *)
(* the node under the path.                                                 *)
Reloaded(cs, i) ==
    \A j \in DOMAIN cs :
        \/ \E k \in DOMAIN calls \ {i} : cs[j] = calls[k]
        \/ /\ cs[j].op \in Nav \cup {"children"}
           /\ cs[j].op \in Nav => Shows(cs[j].path, cs[j].node, parent, PathOf)

(* After a creation the directory that is asked for is the one the path     *)
(* leads to.                                                                *)
LEMMA CreatedShows ==
    ASSUME Typed, PlacesOK, NEW i \in DOMAIN calls, AnswerCreate(i)
    PROVE  /\ here'.node # None => Shows(here'.path, here'.node, parent, PathOf)
           /\ here'.path = here.path
           /\ Reloaded(calls', i)
<1>0. calls \in Seq(Call) /\ here \in Place /\ Org \in Nodes
  BY NodesAssumption DEF Typed, CallsKnown, ViewKnown
<1>1. /\ Answered(i) \in Seq(Call)
      /\ \A j \in DOMAIN Answered(i) : \E k \in DOMAIN calls \ {i} : Answered(i)[j] = calls[k]
  BY <1>0, AnsweredIs
<1>2. PICK p \in Path : p = here.path
  BY <1>0 DEF Place
<1>3. PICK c \in Call : c = calls[i]
  BY <1>0
<1> DEFINE Goal == /\ here'.node # None => Shows(here'.path, here'.node, parent, PathOf)
                   /\ here'.path = here.path
                   /\ Reloaded(calls', i)
<1>4. ASSUME NEW others \in Seq(Call), Reloaded(others, i), NEW n \in Nodes \cup {None},
             n # None => Shows(p, n, parent, PathOf), Change(others, None, n, p, TRUE)
      PROVE  Goal
  <2>1. PICK id \in Nodes \cup {None} : id = None
    OBVIOUS
  <2>2. ChangeWhen(ready, others, id, n, p, TRUE)
    BY <1>4, <2>1 DEF Change
  <2>3. PICK m : m = IF n # None THEN n ELSE id
    OBVIOUS
  <2>4. here' = [node |-> n, path |-> p] /\ Added(calls', others, p, m)
    BY <2>2, <2>3, ChangeAdds
  <2>5. m = n
    BY <2>1, <2>3
  <2>6. ASSUME NEW j \in DOMAIN calls'
        PROVE  \/ \E k \in DOMAIN calls \ {i} : calls'[j] = calls[k]
               \/ /\ calls'[j].op \in Nav \cup {"children"}
                  /\ calls'[j].op \in Nav => Shows(calls'[j].path, calls'[j].node, parent, PathOf)
    <3>1. CASE \E k \in DOMAIN others : calls'[j] = others[k]
      BY <1>4, <3>1 DEF Reloaded
    <3>2. CASE calls'[j].op \in Nav /\ calls'[j].path = p /\ calls'[j].node = m /\ m # None
      BY <1>4, <2>5, <3>2
    <3>3. QED BY <2>4, <3>1, <3>2 DEF Added
  <2>7. Reloaded(calls', i)
    BY <2>6 DEF Reloaded
  <2>8. here'.node = n /\ here'.path = p
    BY <2>4
  <2>9. QED BY <1>2, <1>4, <2>7, <2>8
<1>5. Reloaded(Answered(i), i)
  BY <1>1 DEF Reloaded
<1>6. CASE UNCHANGED here /\ calls' = Answered(i)
  BY <1>5, <1>6 DEF PlacesOK, HereShows
<1>7. CASE c.op = "folder" /\ Change(Answered(i), None, c.node, here.path, TRUE)
  <2>1. Shows(p, c.node, parent, PathOf)
    BY <1>2, <1>3, <1>7 DEF PlacesOK, CallsShow, CallShows
  <2>2. PICK n : n = c.node
    OBVIOUS
  <2>3. n \in Nodes \cup {None} /\ Change(Answered(i), None, n, p, TRUE)
    BY <1>2, <1>7, <2>2 DEF Call
  <2>4. Shows(p, n, parent, PathOf)
    BY <2>1, <2>2
  <2>5. QED BY <1>1, <1>4, <1>5, <2>3, <2>4
<1>8. CASE Change(Append(Answered(i), Ask("children", Org)), None, here.node, here.path, TRUE)
  <2>1. PICK a \in Call : a = Ask("children", Org) /\ a.op = "children"
    <3>1. "children" \in Op
      BY DEF Op
    <3>2. Ask("children", Org) \in Call
      BY <1>0, <3>1, AskTyped
    <3>3. QED BY <3>2 DEF Ask
  <2>2. PICK s \in Seq(Call) : s = Answered(i)
    BY <1>1
  <2>3. PICK l \in Nat : l = Len(s) /\ DOMAIN s = 1..l
    OBVIOUS
  <2>4. /\ DOMAIN Append(s, a) = 1..(l + 1) /\ Append(s, a) \in Seq(Call)
        /\ \A j \in 1..(l + 1) : Append(s, a)[j] = IF j <= l THEN s[j] ELSE a
    BY <2>3
  <2>5. PICK o \in Seq(Call) : o = Append(s, a)
    BY <2>4
  <2>6. ASSUME NEW j \in DOMAIN o
        PROVE  (\E k \in DOMAIN calls \ {i} : o[j] = calls[k]) \/ o[j].op = "children"
    <3>1. CASE j <= l
      <4>1. j \in DOMAIN s /\ o[j] = s[j]
        BY <2>3, <2>4, <2>5, <2>6, <3>1
      <4>2. QED BY <1>1, <2>2, <4>1
    <3>2. CASE ~ (j <= l)
      BY <2>1, <2>4, <2>5, <2>6, <3>2
    <3>3. QED BY <3>1, <3>2
  <2>7. Reloaded(o, i)
    BY <2>6 DEF Reloaded, Nav
  <2>8. PICK n : n = here.node
    OBVIOUS
  <2>9. n \in Nodes \cup {None} /\ Change(o, None, n, p, TRUE)
    BY <1>0, <1>2, <1>8, <2>1, <2>2, <2>5, <2>8 DEF Place
  <2>10. n # None => Shows(p, n, parent, PathOf)
    BY <1>2, <2>8 DEF PlacesOK, HereShows
  <2>11. QED BY <1>4, <2>7, <2>9, <2>10
<1>9. \/ UNCHANGED here /\ calls' = Answered(i)
      \/ c.op = "folder" /\ Change(Answered(i), None, c.node, here.path, TRUE)
      \/ Change(Append(Answered(i), Ask("children", Org)), None, here.node, here.path, TRUE)
  BY <1>3 DEF AnswerCreate
<1>10. QED BY <1>6, <1>7, <1>8, <1>9

(* So is what the Conductor remembers.                                      *)
LEMMA HereStep ==
    ASSUME Typed, ReadyKnown, Next, ~hurried, PlacesOK
    PROVE  here'.node # None => Shows(here'.path, here'.node, parent, PathOf)
<1>1. CASE NavAsks
  BY <1>1, NavShows
<1>2. CASE UNCHANGED here
  BY <1>2 DEF PlacesOK, HereShows
<1>3. CASE OtherAsks
  BY <1>2, <1>3 DEF OtherAsks, TreeExpand, LoadMore, MoveHere, ListFolder
<1>4. ASSUME NEW m \in Modal, NEW text \in Names, SubmitByClick(m, text) \/ SubmitByEnter(m, text)
      PROVE  UNCHANGED here
  BY <1>4 DEF SubmitByClick, SubmitByEnter, Submitting
<1>5. CASE Aside
  BY <1>2, <1>5, AsideIs
<1>6. CASE GoTo(1)
  BY <1>2, <1>6 DEF GoTo
<1>7. ASSUME NEW i \in DOMAIN calls, Answer(i) \/ Lose(i)
      PROVE  here'.node # None => Shows(here'.path, here'.node, parent, PathOf)
  <2>1. CASE AnswerCreate(i)
    BY <2>1, CreatedShows
  <2>2. CASE ~AnswerCreate(i)
    <3>1. UNCHANGED here
      BY <1>7, <2>2 DEF Answer, Lose, AnswerNode, AnswerList, AnswerChildren, AnswerMore,
                        AnswerRename, AnswerDelete, AnswerListing, AnswerMove
    <3>2. QED BY <1>2, <3>1
  <2>3. QED BY <2>1, <2>2
<1>8. QED BY <1>1, <1>2, <1>3, <1>4, <1>5, <1>6, <1>7, StepKinds

(* The requests cs have the node under the path p, or of the directory d.   *)
CallsShowing(cs, p, d) ==
    /\ \A j \in DOMAIN cs : CallShows(cs[j], p, d, parent, PathOf)
    /\ \A j, k \in DOMAIN cs : cs[j].op = "more" /\ cs[k].op # "listing" => k = j

(* What comes of the requests that are outstanding.                         *)
LEMMA CallsShowStep ==
    ASSUME Typed, ReadyKnown, NavOK, PlacesOK, Next, ~hurried', ~astray'
    PROVE  CallsShowing(calls', here'.path, view'.node)
<1>0. calls \in Seq(Call) /\ CallsShowing(calls, here.path, view.node)
  BY DEF Typed, CallsKnown, PlacesOK, CallsShow, CallsShowing
<1>1. ASSUME NEW i, Continues(calls', <<>>, i), here'.path = here.path,
             view' = view \/ \A k \in DOMAIN calls \ {i} : calls[k].op # "more"
      PROVE  CallsShowing(calls', here'.path, view'.node)
  <2>1. ASSUME NEW j \in DOMAIN calls'
        PROVE  /\ CallShows(calls'[j], here.path, view'.node, parent, PathOf)
               /\ calls'[j].op = "more" =>
                     \A k \in DOMAIN calls' : calls'[k].op # "listing" => k = j
    <3>0. ~ \E m \in DOMAIN <<>> : calls'[j] = <<>>[m]
      OBVIOUS
    <3>1. PICK k \in DOMAIN calls \ {i} : /\ calls'[j].op = calls[k].op
                                          /\ calls'[j].node = calls[k].node
                                          /\ calls'[j].path = calls[k].path
      BY <1>1, <3>0, ComesFrom
    <3>2. CallShows(calls[k], here.path, view.node, parent, PathOf)
      BY <1>0 DEF CallsShowing
    <3>3. CallShows(calls'[j], here.path, view'.node, parent, PathOf)
      BY <1>1, <3>1, <3>2 DEF CallShows
    <3>4. ASSUME calls'[j].op = "more", NEW l \in DOMAIN calls', calls'[l].op # "listing" PROVE l = j
      <4>1. \A q \in DOMAIN calls : calls[q].op # "listing" => q = k
        BY <1>0, <3>1, <3>4 DEF CallsShowing
      <4>2. QED BY <1>1, <3>4, <4>1, StaysAlone
    <3>5. QED BY <3>3, <3>4
  <2>2. QED BY <1>1, <2>1 DEF CallsShowing
<1>2. CASE UNCHANGED <<calls, here, view>>
  <2>1. Continues(calls', <<>>, 0)
    BY <1>0, <1>2, Unanswered
  <2>2. QED BY <1>1, <1>2, <2>1
<1>4. CASE NavAsks
  <2>1. ~hurried /\ \A i \in DOMAIN calls : calls[i].op = "listing"
    BY <1>4, Waited
  <2>2. Leading(calls')
    BY <1>4, <2>1, NavShows
  <2>3. ASSUME NEW j \in DOMAIN calls'
        PROVE  calls'[j].op # "more" /\ CallShows(calls'[j], here'.path, view'.node, parent, PathOf)
    <3>1. CASE \E k \in DOMAIN calls : calls'[j] = calls[k]
      BY <2>1, <3>1 DEF CallShows, Nav
    <3>2. CASE calls'[j].op \in Nav /\ Shows(calls'[j].path, calls'[j].node, parent, PathOf)
      BY <3>2 DEF CallShows, Nav
    <3>3. QED BY <2>2, <3>1, <3>2 DEF Leading
  <2>4. QED BY <2>3 DEF CallsShowing
<1>5. CASE OtherAsks
  <2>0. UNCHANGED <<here, view>>
    BY <1>5 DEF OtherAsks, TreeExpand, LoadMore, MoveHere, ListFolder
  <2>1. PICK c \in Call : /\ c.op \in {"children", "more", "listing", "move"}
                          /\ c.op = "more" => c.node = next.of
                          /\ Send(<<c>>)
    BY <1>5, OtherAsked DEF OtherAsking
  <2>2. <<c>> \in Seq(Call) /\ \A m \in DOMAIN <<c>> : (<<c>>)[m] = c
    OBVIOUS
  <2>3. CASE calls' = calls
    BY <1>2, <2>0, <2>3
  <2>4. CASE Continues(calls', <<c>>, 0)
    <3>1. \A i \in DOMAIN calls : calls[i].op = "listing"
      BY <1>5, Waited
    <3>2. CallShows(c, here'.path, view'.node, parent, PathOf)
      <4>1. c.op \notin Nav /\ c.op # "folder"
        BY <2>1 DEF Nav
      <4>2. c.op = "more" => c.node = view'.node
        BY <2>0, <2>1 DEF PlacesOK, TableOK
      <4>3. QED BY <4>1, <4>2 DEF CallShows
    <3>3. ASSUME NEW j \in DOMAIN calls'
          PROVE  CallShows(calls'[j], here'.path, view'.node, parent, PathOf)
      <4>1. CASE \E k \in DOMAIN calls : calls'[j].op = calls[k].op
        BY <3>1, <4>1 DEF CallShows, Nav
      <4>2. CASE \E m \in DOMAIN <<c>> : calls'[j] = (<<c>>)[m]
        BY <2>2, <3>2, <4>2
      <4>3. QED BY <2>4, <4>1, <4>2, ComesFrom
    <3>4. \A j, l \in DOMAIN calls' :
             calls'[j].op # "listing" /\ calls'[l].op # "listing" => j = l
      BY <2>4, <3>1, ComesAlone
    <3>5. QED BY <3>3, <3>4 DEF CallsShowing
  <2>5. QED BY <1>0, <2>1, <2>2, <2>3, <2>4, Sent
<1>6. ASSUME NEW m \in Modal, NEW text \in Names, SubmitByClick(m, text) \/ SubmitByEnter(m, text)
      PROVE  CallsShowing(calls', here'.path, view'.node)
  <2>1. PICK ms \in SUBSET Modal, times \in [Modal -> Nat] : Submits(ms, times, m, text)
    BY <1>6, SubmitsIs
  <2>2. PICK t : Made(t, Times(ms, times), Modal) /\ Send(t)
    BY <2>1, Submitted DEF Submits
  <2>3. t \in Seq(Call) /\ \A k \in DOMAIN t : t[k].op \in Modal /\ AskedOK(t[k])
    BY <2>2 DEF Made
  <2>4. UNCHANGED <<here, view>>
    BY <2>1 DEF Submits, Submitting
  <2>5. \A i \in DOMAIN calls : calls[i].op = "listing"
    BY <1>6, Waited
  <2>6. CASE calls' = calls
    BY <1>2, <2>4, <2>6
  <2>7. CASE Continues(calls', t, 0)
    <3>1. Shows(here.path, view.node, parent, PathOf)
      <4>1. NoNav
        BY <2>5 DEF NoNav, IsNav, Nav
      <4>2. here.path = view.path
        BY <4>1 DEF NavOK
      <4>3. QED BY <4>2 DEF PlacesOK, HereShows
    <3>2. ASSUME NEW k \in DOMAIN t
          PROVE  t[k].op # "more" /\ CallShows(t[k], here'.path, view'.node, parent, PathOf)
      <4>1. t[k].op \notin Nav /\ t[k].op # "more"
        BY <2>3 DEF Modal, Nav
      <4>2. t[k].op = "folder" => t[k].node = view.node
        BY <2>3 DEF AskedOK
      <4>3. QED BY <2>4, <3>1, <4>1, <4>2 DEF CallShows
    <3>3. ASSUME NEW j \in DOMAIN calls'
          PROVE  calls'[j].op # "more" /\ CallShows(calls'[j], here'.path, view'.node, parent, PathOf)
      <4>1. CASE \E k \in DOMAIN calls : calls'[j].op = calls[k].op
        BY <2>5, <4>1 DEF CallShows, Nav
      <4>2. CASE \E k \in DOMAIN t : calls'[j] = t[k]
        BY <3>2, <4>2
      <4>3. QED BY <2>7, <4>1, <4>2, ComesFrom
    <3>4. QED BY <3>3 DEF CallsShowing
  <2>8. QED BY <1>0, <2>2, <2>3, <2>6, <2>7, Sent
<1>7. CASE Aside
  BY <1>2, <1>7, AsideIs
<1>8. CASE GoTo(1)
  BY <1>2, <1>8 DEF GoTo
<1>9. ASSUME NEW i \in DOMAIN calls, calls[i].op # "listing", NEW k \in DOMAIN calls \ {i}
      PROVE  calls[k].op # "more"
  BY <1>0, <1>9 DEF CallsShowing
<1>10. ASSUME NEW i \in DOMAIN calls, AnswerNode(i)
       PROVE  CallsShowing(calls', here'.path, view'.node)
  <2>1. calls[i].op = "node" /\ UNCHANGED <<here, view>>
    BY <1>10 DEF AnswerNode
  <2>2. PICK c \in Call : /\ Continues(calls', <<c>>, i) /\ c.op = "list"
                          /\ c.node = calls[i].node /\ c.path = calls[i].path
    BY <1>10, NodeAnswered
  <2>3. \A k \in DOMAIN calls \ {i} : calls[k].op # "more"
    BY <1>9, <2>1
  <2>4. \A m \in DOMAIN <<c>> : (<<c>>)[m] = c
    OBVIOUS
  <2>5. Shows(calls[i].path, calls[i].node, parent, PathOf)
    BY <1>0, <2>1 DEF CallsShowing, CallShows, Nav
  <2>6. CallShows(c, here'.path, view'.node, parent, PathOf) /\ c.op # "more"
    BY <2>2, <2>5 DEF CallShows
  <2>7. ASSUME NEW j \in DOMAIN calls'
        PROVE  calls'[j].op # "more" /\ CallShows(calls'[j], here'.path, view'.node, parent, PathOf)
    <3>1. CASE \E k \in DOMAIN calls \ {i} : /\ calls'[j].op = calls[k].op
                                             /\ calls'[j].node = calls[k].node
                                             /\ calls'[j].path = calls[k].path
      <4>1. PICK k \in DOMAIN calls \ {i} : /\ calls'[j].op = calls[k].op
                                            /\ calls'[j].node = calls[k].node
                                            /\ calls'[j].path = calls[k].path
        BY <3>1
      <4>2. CallShows(calls[k], here.path, view.node, parent, PathOf)
        BY <1>0 DEF CallsShowing
      <4>3. QED BY <2>1, <2>3, <4>1, <4>2 DEF CallShows
    <3>2. CASE \E m \in DOMAIN <<c>> : calls'[j] = (<<c>>)[m]
      BY <2>4, <2>6, <3>2
    <3>3. QED BY <2>2, <3>1, <3>2, ComesFrom
  <2>8. QED BY <2>7 DEF CallsShowing
<1>11. ASSUME NEW i \in DOMAIN calls, AnswerCreate(i)
       PROVE  CallsShowing(calls', here'.path, view'.node)
  <2>1. calls[i].op # "listing" /\ view' = view
    BY <1>11 DEF AnswerCreate
  <2>2. here'.path = here.path /\ Reloaded(calls', i)
    BY <1>11, CreatedShows
  <2>3. \A k \in DOMAIN calls \ {i} : calls[k].op # "more"
    BY <1>9, <2>1
  <2>4. ASSUME NEW j \in DOMAIN calls'
        PROVE  calls'[j].op # "more" /\ CallShows(calls'[j], here'.path, view'.node, parent, PathOf)
    <3>1. CASE \E k \in DOMAIN calls \ {i} : calls'[j] = calls[k]
      BY <1>0, <2>1, <2>2, <2>3, <3>1 DEF CallsShowing
    <3>2. CASE /\ calls'[j].op \in Nav \cup {"children"}
               /\ calls'[j].op \in Nav => Shows(calls'[j].path, calls'[j].node, parent, PathOf)
      BY <3>2 DEF CallShows, Nav
    <3>3. QED BY <2>2, <3>1, <3>2 DEF Reloaded
  <2>5. QED BY <2>4 DEF CallsShowing
<1>12. ASSUME NEW i \in DOMAIN calls, Answer(i) \/ Lose(i)
       PROVE  CallsShowing(calls', here'.path, view'.node)
  <2>1. CASE AnswerNode(i)
    BY <1>10, <2>1
  <2>2. CASE AnswerCreate(i)
    BY <1>11, <2>2
  <2>3. CASE ~AnswerNode(i) /\ ~AnswerCreate(i)
    <3>1. calls' = Answered(i) \/ calls' = Outdated(Answered(i))
      BY <1>12, <2>3 DEF Answer, Lose, AnswerList, AnswerChildren, AnswerMore, AnswerRename,
                         AnswerDelete, AnswerListing, AnswerMove
    <3>2. here' = here
      BY <1>12, <2>3 DEF Answer, Lose, AnswerList, AnswerChildren, AnswerMore, AnswerRename,
                         AnswerDelete, AnswerListing, AnswerMove
    <3>3. view' = view \/ calls[i].op = "list"
      BY <1>12, <2>3 DEF Answer, Lose, AnswerList, AnswerChildren, AnswerMore, AnswerRename,
                         AnswerDelete, AnswerListing, AnswerMove
    <3>4. Continues(Answered(i), <<>>, i)
      BY <1>0, OneAnswered
    <3>5. Continues(calls', <<>>, i)
      BY <1>0, <3>1, <3>4, TableRedrawn
    <3>6. view' = view \/ \A k \in DOMAIN calls \ {i} : calls[k].op # "more"
      BY <1>9, <3>3
    <3>7. QED BY <1>1, <3>2, <3>5, <3>6
  <2>4. QED BY <2>1, <2>2, <2>3
<1>13. QED BY <1>4, <1>5, <1>6, <1>7, <1>8, <1>12, StepKinds

(* The page shows what it should with the tree it has, and with the tree    *)
(* there is after the step.                                                 *)
LEMMA PlacesStep ==
    ASSUME Typed, ReadyKnown, NavKnown, PlacesKnown, Next
    PROVE  PlacesKnown'
<1>1. SUFFICES ASSUME ~hurried', ~astray', moved' = {} PROVE PlacesOK'
  BY DEF PlacesKnown
<1>2. ~hurried /\ ~astray /\ moved = {}
  BY <1>1, HurriedStays, AstrayStays, MovedGrows
<1>3. PlacesOK /\ NavOK
  BY <1>2 DEF PlacesKnown, NavKnown
<1>4. /\ \A n \in Nodes : parent[n] # None => parent'[n] = parent[n]
      /\ \A p, n : Shows(p, n, parent, PathOf) => Shows(p, n, parent', PathOf')
      /\ CollectionsOK'
  BY <1>1, <1>3, PlacesStay DEF PlacesOK
<1>5. HereShows' /\ PastShows'
  <2>1. /\ Shows(view'.path, view'.node, parent, PathOf)
        /\ \A j \in DOMAIN past'.entries :
              Shows(past'.entries[j].path, past'.entries[j].node, parent, PathOf)
    BY <1>3, ViewShows
  <2>2. here'.node # None => Shows(here'.path, here'.node, parent, PathOf)
    BY <1>2, <1>3, HereStep
  <2>3. QED BY <1>4, <2>1, <2>2 DEF HereShows, PastShows
<1>6. TreeShows(tree)'
  <2>1. TreeShows(tree')
    BY <1>1, <1>3, TreeShowsStep DEF PlacesOK
  <2>2. QED BY <1>4, <2>1 DEF TreeShows
<1>7. TableOK'
  <2>1. TableOf(view'.node, next', nodes')
    BY <1>3, TableStep DEF PlacesOK
  <2>2. view'.node \in Nodes /\ ListKnown'
    BY ViewStep, ListStep DEF ViewKnown
  <2>3. view'.node # None
    BY <2>2, NodesAssumption
  <2>4. \A i \in DOMAIN nodes' : nodes'[i].id \in Nodes
    <3>1. nodes' \in Seq(Object)
      BY <2>2 DEF ListKnown, ListTypeOK
    <3>2. \A i \in DOMAIN nodes' : nodes'[i] \in Object
      BY <3>1
    <3>3. QED BY <3>2 DEF Object
  <2>5. QED BY <1>4, <2>1, <2>3, <2>4 DEF TableOf, TableOK
<1>8. CallsShow'
  <2>1. CallsShowing(calls', here'.path, view'.node)
    BY <1>1, <1>3, CallsShowStep
  <2>2. \A c, p, d : CallShows(c, p, d, parent, PathOf) => CallShows(c, p, d, parent', PathOf')
    BY <1>4 DEF CallShows
  <2>3. QED BY <2>1, <2>2 DEF CallsShowing, CallsShow
<1>9. QED BY <1>4, <1>5, <1>6, <1>7, <1>8 DEF PlacesOK

(* The page that is opened shows it.                                        *)
LEMMA PlacesInit ==
    ASSUME Init
    PROVE  PlacesOK
<1>1. /\ parent = ParentAtFirst /\ view = AtStart /\ here = AtStart
      /\ past = [entries |-> <<AtStart>>, at |-> 1] /\ tree = [n \in {Org} |-> <<>>]
      /\ nodes = <<>> /\ next = [of |-> Start, from |-> 0] /\ calls = <<>>
  BY DEF Init, ApiInit, ListInit
<1>2. parent \in [Nodes -> Nodes \cup {None}] /\ IsTree(parent) /\ PathsIn(PathOf, parent)
  BY <1>1, TreeAssumption, PathOfIs
<1>3. AtStart.node = Start /\ AtStart.path = PathOf[Start]
  BY DEF AtStart
<1>4. Shows(AtStart.path, AtStart.node, parent, PathOf)
  BY <1>1, <1>3, StartAssumption DEF Shows
<1>5. HereShows
  BY <1>1, <1>4 DEF HereShows
<1>6. PastShows
  <2>1. PICK s : s = AtStart
    OBVIOUS
  <2>2. past.entries = <<s>>
    BY <1>1, <2>1
  <2>3. \A j \in DOMAIN <<s>> : (<<s>>)[j] = s
    OBVIOUS
  <2>4. QED BY <1>4, <2>1, <2>2, <2>3 DEF PastShows
<1>7. TreeShows(tree)
  <2>1. PathOf[Org] = <<>> /\ Org \in Nodes /\ parent[Org] # None
    BY <1>2, NodesAssumption DEF PathsIn, IsTree
  <2>2. QED BY <1>1, <2>1 DEF TreeShows, Shows
<1>8. CollectionsOK
  BY <1>1, CollectionsAssumption DEF CollectionsOK
<1>9. TableOK
  <2>1. view.node = Start /\ next.of = Start /\ DOMAIN nodes = {}
    BY <1>1, <1>3
  <2>2. QED BY <2>1 DEF TableOK
<1>10. CallsShow
  BY <1>1 DEF CallsShow
<1>11. QED BY <1>5, <1>6, <1>7, <1>8, <1>9, <1>10 DEF PlacesOK

(* That is an invariant.                                                    *)
LEMMA PlacesAlways == Spec => []PlacesKnown
<1>1. Init => PlacesKnown
  BY PlacesInit DEF PlacesKnown
<1>2. Typed /\ ReadyKnown /\ NavKnown /\ PlacesKnown /\ [Next]_vars => PlacesKnown'
  <2>1. SUFFICES ASSUME Typed, ReadyKnown, NavKnown, PlacesKnown, [Next]_vars PROVE PlacesKnown'
    OBVIOUS
  <2>2. CASE Next
    BY <2>1, <2>2, PlacesStep
  <2>3. CASE UNCHANGED vars
    <3>1. PathOf' = PathOf
      BY <2>3 DEF vars, PathOf
    <3>2. PICK f : f = PathOf
      OBVIOUS
    <3>3. PathOf' = f
      BY <3>1, <3>2
    <3>4. QED BY <2>1, <2>3, <3>2, <3>3
          DEF vars, PlacesKnown, PlacesOK, CollectionsOK, HereShows, PastShows, TreeShows, TableOK,
              CallsShow, CallShows, Shows
  <2>4. QED BY <2>1, <2>2, <2>3
<1>3. QED BY <1>1, <1>2, TypedAlways, ReadyAlways, NavAlways, PTL DEF Spec

(* The path that is shown is that of the node that is shown, wherever it    *)
(* came from - the list appends a name to its path, the breadcrumbs cut     *)
(* theirs and count ids, the navigator has an attribute, the history an     *)
(* object - unless it has the word "undefined".                             *)
THEOREM PathsAreShown == Spec => []PathOfNode
<1>1. Typed /\ PlacesKnown => PathOfNode
  <2>1. SUFFICES ASSUME Typed, PlacesKnown, Quiet, ~astray, moved = {}, None \notin Range(view.path)
                 PROVE  view.path = PathOf[view.node]
    BY DEF PathOfNode
  <2>2. Shows(view.path, view.node, parent, PathOf)
    BY <2>1 DEF PlacesKnown, PlacesOK, HereShows, Quiet
  <2>3. PICK p \in Seq(Nodes \cup {None}) : p = view.path
    BY <2>1 DEF Typed, ViewKnown, Place, Path
  <2>4. ~ (p # <<>> /\ p[1] = None)
    <3>1. p # <<>> => 1 \in DOMAIN p
      OBVIOUS
    <3>2. \A k \in DOMAIN p : p[k] \in Range(p)
      BY DEF Range
    <3>3. QED BY <2>1, <2>3, <3>1, <3>2
  <2>5. QED BY <2>2, <2>3, <2>4 DEF Shows
<1>2. QED BY <1>1, TypedAlways, PlacesAlways, PTL

-----------------------------------------------------------------------------
(* What the table has of a listing.                                         *)

(* How many children of d the listing has before n.                         *)
Position(n, d) == Cardinality({m \in Children(d) : Precedes(m, n)})

(* The objects s: n is one of them, all are children of d with their names, *)
(* each is there once, all come before position k, all that come before k   *)
(* are there, all children are there.                                       *)
Has(s, n) == \E j \in DOMAIN s : s[j].id = n
Truthful(s, d) == \A j \in DOMAIN s : s[j].id \in Children(d) /\ s[j].name = name[s[j].id]
Distinct(s) == \A j, k \in DOMAIN s : s[j].id = s[k].id => j = k
Before(s, d, k) == \A j \in DOMAIN s : Position(s[j].id, d) < k
UpTo(s, d, k) == \A n \in Children(d) : Position(n, d) < k => Has(s, n)
Whole(s, d) == \A n \in Children(d) : Has(s, n)

(* The objects s are the listing of d up to the next page, if they were the *)
(* listing before, and rightly so.                                          *)
ReadOn(s, d, k, before) ==
    /\ Truthful(s, d) /\ Distinct(s)
    /\ k > 0 => Before(s, d, k)
    /\ before => /\ k = 0 => Whole(s, d)
                 /\ k > 0 => UpTo(s, d, k)

(* The next page of an unchanged listing goes on where the table ends.      *)
LEMMA PageAdded ==
    ASSUME ApiTypeOK, NEW d \in Nodes, NEW from \in Nat, NEW s \in Seq(Object),
           Truthful(s, d), Distinct(s), Before(s, d, from)
    PROVE  ReadOn(s \o Page(d, from).results, d, Page(d, from).next.from, UpTo(s, d, from))
<1>1. PICK ids : ids = Ordered(Children(d))
  OBVIOUS
<1>2. Children(d) \in SUBSET Nodes
  BY DEF Children
<1>3. PICK n \in Nat : /\ n = Len(ids)
                       /\ \A i \in 1..n : ids[i] \in Children(d) /\ Position(ids[i], d) = i - 1
                       /\ \A m \in Children(d) : \E i \in 1..n : ids[i] = m
  <2>1. PICK n \in Nat : n = Cardinality(Children(d))
    BY <1>2, OrderedIs
  <2>2. /\ Len(ids) = n /\ \A i \in 1..n : ids[i] \in Children(d)
        /\ \A i \in 1..n : Cardinality({m \in Children(d) : Precedes(m, ids[i])}) = i - 1
        /\ \A m \in Children(d) : \E i \in 1..n : ids[i] = m
    <3>1. /\ Ordered(Children(d)) \in [1..n -> Children(d)] /\ Len(Ordered(Children(d))) = n
          /\ \A i \in 1..n :
                Cardinality({m \in Children(d) : Precedes(m, Ordered(Children(d))[i])}) = i - 1
          /\ \A m \in Children(d) : \E i \in 1..n : Ordered(Children(d))[i] = m
      BY <1>2, <2>1, OrderedIs
    <3>2. QED BY <1>1, <3>1
  <2>3. QED BY <2>2 DEF Position
<1>4. PICK p \in Seq(Object) : p = Page(d, from).results
  BY PageTyped
<1>5. PICK nx \in Nat : nx = Page(d, from).next.from
  BY PageTyped
<1>6. /\ \A j \in DOMAIN p : /\ from + j \in 1..n
                             /\ p[j] = [id |-> ids[from + j], name |-> name[ids[from + j]]]
      /\ \/ nx = 0 /\ \A i \in 1..n : i > from => i - from \in DOMAIN p
         \/ nx = from + PageSize /\ Len(p) = PageSize
  <2> DEFINE pg == Page(d, from)
             o == Ordered(Children(d))
  <2>2. /\ \A j \in DOMAIN pg.results :
              /\ from + j \in 1..Len(o)
              /\ pg.results[j] = [id |-> o[from + j], name |-> name[o[from + j]]]
        /\ \/ /\ pg.next = [of |-> d, from |-> 0]
              /\ \A i \in 1..Len(o) : i > from => i - from \in DOMAIN pg.results
           \/ /\ pg.next = [of |-> d, from |-> from + PageSize]
              /\ Len(pg.results) = PageSize
    BY PageIs
  <2>3. p = pg.results /\ nx = pg.next.from /\ o = ids
    BY <1>1, <1>4, <1>5
  <2> HIDE DEF pg, o
  <2>4. QED BY <1>3, <2>2, <2>3
<1>7. PICK l \in Nat : l = Len(s) /\ DOMAIN s = 1..l
  OBVIOUS
<1>8. PICK q \in Nat : q = Len(p) /\ DOMAIN p = 1..q
  OBVIOUS
<1>9. PICK r : r = s \o p
  OBVIOUS
<1>10. /\ DOMAIN r = 1..(l + q)
       /\ \A j \in 1..(l + q) : r[j] = IF j <= l THEN s[j] ELSE p[j - l]
  <2>1. /\ s \o p \in Seq(Object) /\ Len(s \o p) = Len(s) + Len(p)
        /\ \A j \in 1..(Len(s) + Len(p)) : (s \o p)[j] = IF j <= Len(s) THEN s[j] ELSE p[j - Len(s)]
    BY ConcatProperties
  <2>2. r \in Seq(Object) /\ Len(r) = l + q
    BY <1>7, <1>8, <1>9, <2>1
  <2>3. QED BY <1>7, <1>8, <1>9, <2>1, <2>2
<1>11. /\ \A j \in 1..l : j \in 1..(l + q) /\ r[j] = s[j]
       /\ \A j \in 1..q : l + j \in 1..(l + q) /\ r[l + j] = p[j]
  <2>1. \A j \in 1..l : j \in 1..(l + q) /\ j <= l
    OBVIOUS
  <2>2. \A j \in 1..q : l + j \in 1..(l + q) /\ ~ (l + j <= l) /\ l + j - l = j
    OBVIOUS
  <2>3. ASSUME NEW j \in 1..q PROVE r[l + j] = p[j]
    <3>1. r[l + j] = p[l + j - l]
      BY <1>10, <2>2
    <3>2. QED BY <2>2, <3>1
  <2>4. QED BY <1>10, <2>1, <2>2, <2>3
<1>12. \A j \in 1..(l + q) : j \in 1..l \/ \E i \in 1..q : j = l + i
  <2>1. TAKE j \in 1..(l + q)
  <2>2. j \in 1..l \/ (j - l \in 1..q /\ j = l + (j - l))
    OBVIOUS
  <2>3. QED BY <2>2
<1>13. \A j \in 1..q : /\ p[j].id \in Children(d) /\ p[j].name = name[p[j].id]
                       /\ Position(p[j].id, d) = from + j - 1
  <2>1. TAKE j \in 1..q
  <2>2. from + j \in 1..n /\ p[j] = [id |-> ids[from + j], name |-> name[ids[from + j]]]
    BY <1>6, <1>8
  <2>3. PICK x \in Children(d) : x = ids[from + j] /\ Position(x, d) = from + j - 1
    BY <1>3, <2>2
  <2>4. p[j] = [id |-> x, name |-> name[x]]
    BY <2>2, <2>3
  <2>5. QED BY <2>3, <2>4
<1>14. \A j \in 1..l : /\ s[j].id \in Children(d) /\ s[j].name = name[s[j].id]
                       /\ Position(s[j].id, d) < from
  BY <1>7 DEF Truthful, Before
<1>15. Truthful(r, d)
  <2>1. ASSUME NEW j \in 1..(l + q) PROVE r[j].id \in Children(d) /\ r[j].name = name[r[j].id]
    <3>1. CASE j \in 1..l
      BY <1>11, <1>14, <3>1
    <3>2. CASE \E i \in 1..q : j = l + i
      <4>1. PICK i \in 1..q : j = l + i
        BY <3>2
      <4>2. r[j] = p[i]
        BY <1>11, <4>1
      <4>3. QED BY <1>13, <4>2
    <3>3. QED BY <1>12, <3>1, <3>2
  <2>2. QED BY <1>10, <2>1 DEF Truthful
<1>16. \A m \in Children(d) : Position(m, d) \in Nat
  <2>1. TAKE m \in Children(d)
  <2>2. PICK i \in 1..n : ids[i] = m
    BY <1>3
  <2>3. Position(m, d) = i - 1
    BY <1>3, <2>2
  <2>4. QED BY <2>3
<1>17. Distinct(r)
  <2>1. ASSUME NEW j \in 1..(l + q), NEW k \in 1..(l + q), r[j].id = r[k].id PROVE j = k
    <3>1. CASE j \in 1..l /\ k \in 1..l
      <4>1. s[j].id = s[k].id
        BY <1>11, <2>1, <3>1
      <4>2. QED BY <1>7, <3>1, <4>1 DEF Distinct
    <3>2. ASSUME NEW a \in 1..l, NEW b \in 1..q, s[a].id = p[b].id PROVE FALSE
      <4>1. PICK x \in Children(d) : x = s[a].id
        BY <1>14
      <4>2. Position(x, d) < from /\ Position(x, d) = from + b - 1
        BY <1>13, <1>14, <3>2, <4>1
      <4>3. PICK z \in Nat : z = Position(x, d)
        BY <1>16
      <4>4. z < from /\ z = from + b - 1
        BY <4>2, <4>3
      <4>5. QED BY <4>4
    <3>3. CASE j \in 1..l /\ k \notin 1..l
      <4>1. PICK b \in 1..q : k = l + b
        BY <1>12, <3>3
      <4>2. s[j].id = p[b].id
        BY <1>11, <2>1, <3>3, <4>1
      <4>3. QED BY <3>2, <3>3, <4>2
    <3>4. CASE k \in 1..l /\ j \notin 1..l
      <4>1. PICK b \in 1..q : j = l + b
        BY <1>12, <3>4
      <4>2. s[k].id = p[b].id
        BY <1>11, <2>1, <3>4, <4>1
      <4>3. QED BY <3>2, <3>4, <4>2
    <3>5. CASE j \notin 1..l /\ k \notin 1..l
      <4>1. PICK a \in 1..q : j = l + a
        BY <1>12, <3>5
      <4>2. PICK b \in 1..q : k = l + b
        BY <1>12, <3>5
      <4>3. p[a].id = p[b].id
        BY <1>11, <2>1, <4>1, <4>2
      <4>4. from + a - 1 = from + b - 1
        BY <1>13, <4>3
      <4>5. a = b
        BY <4>4
      <4>6. QED BY <4>1, <4>2, <4>5
    <3>6. QED BY <3>1, <3>3, <3>4, <3>5
  <2>2. QED BY <1>10, <2>1 DEF Distinct
<1>18. PageSize \in Nat /\ PageSize > 0
  BY PageAssumption
<1>19. ASSUME nx > 0 PROVE Before(r, d, nx)
  <2>1. nx = from + PageSize /\ q = PageSize
    BY <1>6, <1>8, <1>19
  <2>2. ASSUME NEW j \in 1..(l + q) PROVE Position(r[j].id, d) < nx
    <3>1. CASE j \in 1..l
      <4>1. PICK x \in Children(d) : x = s[j].id
        BY <1>14, <3>1
      <4>2. PICK z \in Nat : z = Position(x, d)
        BY <1>16
      <4>3. z < from /\ r[j].id = x
        BY <1>11, <1>14, <3>1, <4>1, <4>2
      <4>4. z < nx
        BY <1>18, <2>1, <4>3
      <4>5. QED BY <4>2, <4>3, <4>4
    <3>2. CASE j \notin 1..l
      <4>1. PICK b \in 1..q : j = l + b
        BY <1>12, <3>2
      <4>2. Position(r[j].id, d) = from + b - 1
        BY <1>11, <1>13, <4>1
      <4>3. from + b - 1 < nx
        BY <1>18, <2>1
      <4>4. QED BY <4>2, <4>3
    <3>3. QED BY <3>1, <3>2
  <2>3. QED BY <1>10, <2>2 DEF Before
<1>20. ASSUME UpTo(s, d, from), NEW m \in Children(d), nx = 0 \/ Position(m, d) < nx
       PROVE  Has(r, m)
  <2>1. CASE Position(m, d) < from
    <3>1. PICK j \in 1..l : s[j].id = m
      BY <1>7, <1>20, <2>1 DEF UpTo, Has
    <3>2. j \in DOMAIN r /\ r[j].id = m
      BY <1>10, <1>11, <3>1
    <3>3. QED BY <3>2 DEF Has
  <2>2. CASE ~ (Position(m, d) < from)
    <3>1. PICK i \in 1..n : ids[i] = m /\ Position(m, d) = i - 1
      BY <1>3
    <3>2. ~ (i - 1 < from)
      BY <2>2, <3>1
    <3>3. i > from
      BY <3>2
    <3>4. nx = 0 => i - from \in 1..q
      BY <1>6, <1>8, <1>18, <3>3
    <3>5. nx # 0 => i - from \in 1..q
      <4>1. ASSUME nx # 0 PROVE i - from \in 1..q
        <5>1. nx = from + PageSize /\ q = PageSize
          BY <1>6, <1>8, <4>1
        <5>2. i - 1 < nx
          BY <1>20, <3>1, <4>1
        <5>3. QED BY <1>18, <3>3, <5>1, <5>2
      <4>2. QED BY <4>1
    <3>6. PICK j \in 1..q : j = i - from
      BY <3>4, <3>5
    <3>7. p[j].id = ids[from + j]
      <4>1. PICK x : x = ids[from + j]
        OBVIOUS
      <4>2. p[j] = [id |-> x, name |-> name[x]]
        BY <1>6, <1>8, <4>1
      <4>3. QED BY <4>1, <4>2
    <3>8. from + j = i
      BY <3>6
    <3>9. p[j].id = m
      BY <3>1, <3>7, <3>8
    <3>10. l + j \in DOMAIN r /\ r[l + j].id = m
      BY <1>10, <1>11, <3>9
    <3>11. QED BY <3>10 DEF Has
  <2>3. QED BY <2>1, <2>2
<1>21. ReadOn(r, d, nx, UpTo(s, d, from))
  BY <1>15, <1>17, <1>19, <1>20 DEF ReadOn, Whole, UpTo
<1>22. QED BY <1>4, <1>5, <1>9, <1>21

-----------------------------------------------------------------------------
(* While the user waits for answers and moves nothing.                      *)
Plain == ~hurried /\ ~astray /\ escapes = 0 /\ moved = {}

(* Whoever does so now always did.                                          *)
LEMMA PlainStays ==
    ASSUME Typed, Next, Plain'
    PROVE  Plain
<1>1. escapes \in Nat
  BY DEF Typed, CountsKnown
<1>2. escapes' = escapes \/ escapes' = escapes + 1
  BY DEF Next, User, Answer, ApiReady, OpenRow, Crumb, TreeClick, TreeExpand, GoTo, Going,
         AnswerNode, AnswerList, AnswerChildren, LoadMore, AnswerMore, AskRename, AskDelete,
         AskMove, AskNew, Opening, SubmitByClick, SubmitByEnter, Submitting, CancelDialog,
         EscapeDialog, AnswerCreate, AnswerRename, AnswerDelete, PickFolder, ListFolder,
         AnswerListing, MoveHere, AnswerMove, ClosePopover, Lose, Act, bounds
<1>3. escapes = 0
  BY <1>1, <1>2 DEF Plain
<1>4. QED BY <1>3, HurriedStays, AstrayStays, MovedGrows DEF Plain

(* What a request is about.                                                 *)
Same(c, d) == /\ c.op = d.op /\ c.node = d.node /\ c.nodes = d.nodes /\ c.from = d.from
              /\ c.was = d.was /\ c.names = d.names

(* A request that stays is about the same.                                  *)
LEMMA ComesWhole ==
    ASSUME Typed, NEW t, NEW i, Continues(calls', t, i), NEW j \in DOMAIN calls'
    PROVE  \/ \E k \in DOMAIN calls \ {i} : Same(calls'[j], calls[k])
           \/ \E m \in DOMAIN t : calls'[j] = t[m]
<1>1. PICK f : Traced(f, calls', t, i)
  BY DEF Continues
<1>2. calls \in Seq(Call) /\ calls' \in Seq(Call)
  BY DEF Typed, CallsKnown, Continues
<1>3. \A c, d \in Call : Alike(c, d) => Same(c, d)
  BY DEF Alike, Call, Same
<1>4. \/ f[j] \in DOMAIN calls \ {i} /\ Alike(calls'[j], calls[f[j]])
      \/ \E m \in DOMAIN t : f[j] = -m /\ calls'[j] = t[m]
  BY <1>1 DEF Traced
<1>5. calls'[j] \in Call /\ \A k \in DOMAIN calls : calls[k] \in Call
  BY <1>2
<1>6. QED BY <1>3, <1>4, <1>5

(* Every step answers one request at most, and leaves the others.           *)
LEMMA StepContinues ==
    ASSUME Typed, Next
    PROVE  \/ \E t : Continues(calls', t, 0)
           \/ \E i \in DOMAIN calls : (Answer(i) \/ Lose(i)) /\ \E t : Continues(calls', t, i)
<1>0. calls \in Seq(Call)
  BY DEF Typed, CallsKnown
<1>1. ASSUME NEW m \in Modal, NEW text \in Names, SubmitByClick(m, text) \/ SubmitByEnter(m, text)
      PROVE  \E t : Continues(calls', t, 0)
  <2>1. PICK ms \in SUBSET Modal, times \in [Modal -> Nat] : Submits(ms, times, m, text)
    BY <1>1, SubmitsIs
  <2>2. PICK t : t \in Seq(Call) /\ Send(t)
    BY <2>1, Submitted DEF Submits, Made
  <2>3. QED BY <1>0, <2>2, Sent
<1>2. QED BY <1>1, OtherRequests

(* Changes of directory that are under way end when they are shown.         *)
LEMMA NavLeft ==
    ASSUME Typed, Next, ~astray', \A i \in DOMAIN calls : ~AnswerList(i), NoNav'
    PROVE  NoNav
<1>1. SUFFICES ASSUME NEW k \in DOMAIN calls, IsNav(calls[k])
               PROVE  \E j \in DOMAIN calls' : IsNav(calls'[j])
  BY DEF NoNav
<1>2. ASSUME NEW t, NEW i, Continues(calls', t, i), k # i
      PROVE  \E j \in DOMAIN calls' : IsNav(calls'[j])
  <2>1. k \in DOMAIN calls \ {i}
    BY <1>2
  <2>2. QED BY <1>1, <1>2, <2>1, StaysThere DEF IsNav
<1>3. k # 0
  BY DEF Typed, CallsKnown
<1>4. CASE Answer(k) \/ Lose(k)
  <2>1. CASE AnswerNode(k)
    <3>1. PICK c \in Call : Continues(calls', <<c>>, k) /\ c.op = "list"
      <4>1. ~ (astray' = TRUE)
        OBVIOUS
      <4>2. QED BY <2>1, <4>1, NodeAnswered
    <3>2. 1 \in DOMAIN <<c>> /\ (<<c>>)[1] = c
      OBVIOUS
    <3>3. \E j \in DOMAIN calls' : calls'[j] = c
      BY <3>1, <3>2, IsThere
    <3>4. QED BY <3>1, <3>3 DEF IsNav, Nav
  <2>2. CASE Lose(k)
    <3>1. astray' = (astray \/ calls[k].op \in {"node", "list"})
      BY <2>2 DEF Lose
    <3>2. calls[k].op \in {"node", "list"}
      BY <1>1 DEF IsNav, Nav
    <3>3. QED BY <3>1, <3>2, Zenon
  <2>3. CASE Answer(k) /\ ~AnswerNode(k)
    BY <1>1, <2>3 DEF Answer, AnswerChildren, AnswerMore, AnswerCreate, AnswerRename, AnswerDelete,
                      AnswerListing, AnswerMove, IsNav, Nav
  <2>4. QED BY <1>4, <2>1, <2>2, <2>3
<1>5. QED BY <1>2, <1>3, <1>4, StepContinues

(* No answer opens the popover or a dialog.                                 *)
LEMMA AnswersShut ==
    ASSUME Typed, NEW i \in DOMAIN calls, Answer(i) \/ Lose(i)
    PROVE  /\ pop'.open => pop.open
           /\ open' \subseteq open
<1>0. pop \in Pops
  BY DEF Typed, PopKnown, PopTypeOK, Pops
<1>1. UNCHANGED pop => (pop'.open => pop.open)
  OBVIOUS
<1>2. LoseTable => (pop'.open => pop.open)
  BY <1>0 DEF LoseTable, Pops
<1>3. ASSUME NEW d, ShowListing(d) PROVE pop'.open => pop.open
  BY <1>0, <1>3 DEF ShowListing, Pops
<1>4. ASSUME NEW ns, NEW failed, Moved(ns, failed) PROVE pop'.open => pop.open
  <2>1. CASE failed = {}
    BY <1>4, <2>1 DEF Moved, Closed
  <2>2. CASE failed # {}
    <3>1. pop' = [pop EXCEPT !.chosen = @ \ failed, !.names = @ \ {name[n] : n \in failed}]
      BY <1>4, <2>2 DEF Moved
    <3>2. QED BY <1>0, <3>1 DEF Pops
  <2>3. QED BY <2>1, <2>2
<1>5. UNCHANGED open => open' \subseteq open
  OBVIOUS
<1>6. ASSUME NEW m, NEW ok, Respond(m, ok) PROVE open' \subseteq open
  BY <1>6 DEF Respond
<1>7. CASE AnswerNode(i) \/ AnswerMore(i) \/ AnswerChildren(i) \/ Lose(i)
  BY <1>1, <1>5, <1>7 DEF AnswerNode, AnswerMore, AnswerChildren, Lose, page, dialogs
<1>8. CASE AnswerList(i)
  BY <1>2, <1>5, <1>8 DEF AnswerList, dialogs
<1>9. CASE AnswerCreate(i) \/ AnswerRename(i)
  BY <1>1, <1>6, <1>9 DEF AnswerCreate, AnswerRename
<1>10. CASE AnswerDelete(i)
  BY <1>2, <1>6, <1>10 DEF AnswerDelete
<1>11. CASE AnswerListing(i)
  BY <1>3, <1>5, <1>11 DEF AnswerListing, dialogs
<1>12. CASE AnswerMove(i)
  BY <1>4, <1>5, <1>12 DEF AnswerMove, dialogs
<1>13. QED BY <1>7, <1>8, <1>9, <1>10, <1>11, <1>12 DEF Answer

(* The popover opens with the menu.                                         *)
LEMMA PopShuts ==
    ASSUME Typed, Next, pop'.open
    PROVE  pop.open \/ \E i \in DOMAIN rows : \E rs \in SelectedRows(i) : AskMove(i, rs)
<1>1. CASE UNCHANGED pop
  BY <1>1
<1>2. ASSUME NEW d \in Nodes, PickFolder(d) PROVE pop.open
  BY <1>2 DEF PickFolder, Pick
<1>3. CASE ClosePopover
  BY <1>3 DEF ClosePopover, CloseMove, Closed
<1>4. ASSUME NEW i \in DOMAIN calls, Answer(i) PROVE pop.open
  BY <1>4, AnswersShut
<1>5. QED BY <1>1, <1>2, <1>3, <1>4, WhoChanges DEF WhoStatement, PopChanges, Answer

(* Dialogs open with the menu or the New button.                            *)
Opens ==
    \/ \E i \in DOMAIN rows : AskRename(i) \/ \E rs \in SelectedRows(i) : AskDelete(i, rs)
    \/ \E m \in {"collection", "folder"} : AskNew(m)

(* Otherwise they close, if anything.                                       *)
LEMMA DialogsShut ==
    ASSUME Typed, Next, ~Opens
    PROVE  open' \subseteq open
<1>1. CASE UNCHANGED dialogs
  BY <1>1 DEF dialogs
<1>2. ASSUME NEW m \in Modal, CancelDialog(m) \/ EscapeDialog(m) PROVE open' \subseteq open
  BY <1>2 DEF CancelDialog, EscapeDialog, Cancel, CloseByEscape
<1>3. ASSUME NEW m \in Modal, NEW text \in Names, SubmitByClick(m, text) \/ SubmitByEnter(m, text)
      PROVE  open' \subseteq open
  BY <1>3 DEF SubmitByClick, SubmitByEnter, Submitting, Submit
<1>4. ASSUME NEW i \in DOMAIN calls, Answer(i) PROVE open' \subseteq open
  BY <1>4, AnswersShut
<1>5. QED BY <1>1, <1>2, <1>3, <1>4, WhoChanges DEF WhoStatement, DialogsChange, Opens, Answer

-----------------------------------------------------------------------------
(* What is open, and what is under way.                                     *)

(* A dialog and the popover are not open at once; under an open dialog only *)
(* dialogs have requests, under the popover only it; a move is alone.       *)
Shut ==
    /\ open # {} => ~pop.open /\ \A i \in DOMAIN calls : calls[i].op \in Modal \cup {"listing"}
    /\ pop.open => \A i \in DOMAIN calls : calls[i].op \in {"move", "listing"}
    /\ ~ready => open = {} /\ ~pop.open
    /\ \A i, j \in DOMAIN calls : calls[i].op = "move" /\ calls[j].op # "listing" => j = i

(* Nothing opens, nothing is sent.                                          *)
LEMMA ShutStays ==
    ASSUME Typed, Shut, NEW i, Continues(calls', <<>>, i), open' \subseteq open,
           pop'.open => pop.open, ready' = ready
    PROVE  Shut'
<1>1. ASSUME NEW j \in DOMAIN calls' PROVE \E k \in DOMAIN calls : calls'[j].op = calls[k].op
  <2>1. ~ \E m \in DOMAIN <<>> : calls'[j] = <<>>[m]
    OBVIOUS
  <2>2. QED BY <2>1, ComesFrom
<1>2. open' # {} => ~pop'.open /\ \A j \in DOMAIN calls' : calls'[j].op \in Modal \cup {"listing"}
  BY <1>1 DEF Shut
<1>3. pop'.open => \A j \in DOMAIN calls' : calls'[j].op \in {"move", "listing"}
  BY <1>1 DEF Shut
<1>4. ~ready' => open' = {} /\ ~pop'.open
  BY DEF Shut
<1>5. ASSUME NEW j \in DOMAIN calls', calls'[j].op = "move", NEW l \in DOMAIN calls', calls'[l].op # "listing"
      PROVE  l = j
  <2>1. PICK k \in DOMAIN calls : calls[k].op = "move"
    BY <1>1, <1>5
  <2>2. \A q \in DOMAIN calls : calls[q].op # "listing" => q = k
    BY <2>1 DEF Shut
  <2>3. calls'[j].op # "listing"
    BY <1>5
  <2>4. QED BY <1>5, <2>2, <2>3, StaysAlone
<1>6. QED BY <1>2, <1>3, <1>4, <1>5 DEF Shut

(* Nothing is open, and no move is under way.                               *)
LEMMA AllShut ==
    ASSUME Typed, NEW t, NEW i, Continues(calls', t, i), open' = {}, ~pop'.open,
           \A k \in DOMAIN calls \ {i} : calls[k].op # "move",
           \A m \in DOMAIN t : t[m].op # "move"
    PROVE  Shut'
<1>1. ASSUME NEW j \in DOMAIN calls' PROVE calls'[j].op # "move"
  BY ComesFrom
<1>2. QED BY <1>1 DEF Shut

(* That stays so, if the user waits.                                        *)
LEMMA ShutStep ==
    ASSUME Typed, ReadyKnown, Next, Shut, OneDialog, OwnRequests, ~hurried'
    PROVE  Shut'
<1>0. calls \in Seq(Call) /\ pop \in Pops
  BY DEF Typed, CallsKnown, PopKnown, PopTypeOK, Pops
<1>1. Continues(calls, <<>>, 0)
  BY <1>0, Unanswered
<1>2. CASE NavAsks
  <2>1. \A k \in DOMAIN calls : calls[k].op = "listing"
    BY <1>2, Waited
  <2>2. Free
    <3>1. CASE ApiReady
      BY <3>1 DEF ApiReady, Shut, Free
    <3>2. ASSUME NEW j, GoTo(j) PROVE Free
      <4>1. hurried' = (hurried \/ Pending \/ ~ready \/ ~Free)
        BY <3>2 DEF GoTo
      <4>2. QED BY <4>1, Zenon
    <3>3. QED BY <1>2, <3>1, <3>2 DEF NavAsks, OpenRow, Crumb, TreeClick
  <2>3. UNCHANGED <<open, pop>>
    BY <1>2 DEF NavAsks, ApiReady, OpenRow, Crumb, TreeClick, GoTo, Going, page
  <2>4. PICK t, id, n, p, push : NavAsking(t, id, n, p, push)
    BY <1>2, NavAsked
  <2>5. Continues(calls', t, 0) /\ Going1(t, id, n, p, push)
    BY <2>4 DEF NavAsking
  <2>6. \A m \in DOMAIN t : t[m].op # "move"
    <3>1. CASE t = <<>>
      BY <3>1
    <3>2. CASE t # <<>>
      <4>1. PICK c : t = <<c>> /\ c.op # "move"
        BY <2>5, <3>2 DEF Going1
      <4>2. \A m \in DOMAIN <<c>> : (<<c>>)[m] = c
        OBVIOUS
      <4>3. QED BY <4>1, <4>2
    <3>3. QED BY <3>1, <3>2
  <2>7. open' = {} /\ ~pop'.open
    BY <2>2, <2>3 DEF Free
  <2>8. QED BY <2>1, <2>5, <2>6, <2>7, AllShut
<1>3. CASE OtherAsks
  <2>1. PICK c \in Call : OtherAsking(c)
    BY <1>3, OtherAsked
  <2>2. \A k \in DOMAIN calls : calls[k].op = "listing"
    BY <1>3, Waited
  <2>3. UNCHANGED <<open, pop, ready>>
    BY <1>3 DEF OtherAsks, TreeExpand, LoadMore, MoveHere, ListFolder, page, dialogs
  <2>4. CASE Continues(calls', <<>>, 0)
    BY <2>3, <2>4, ShutStays
  <2>5. CASE Continues(calls', <<c>>, 0)
    <3>1. \A m \in DOMAIN <<c>> : (<<c>>)[m] = c
      OBVIOUS
    <3>2. ASSUME NEW j \in DOMAIN calls' PROVE calls'[j].op = "listing" \/ calls'[j].op = c.op
      BY <2>2, <2>5, <3>1, ComesFrom
    <3>3. \A j, l \in DOMAIN calls' :
             calls'[j].op # "listing" /\ calls'[l].op # "listing" => j = l
      BY <2>2, <2>5, ComesAlone
    <3>4. \/ c.op \in {"children", "more"} /\ Free
          \/ c.op = "move" /\ pop.open
          \/ c.op = "listing"
      BY <2>1 DEF OtherAsking
    <3>5. open # {} => ~pop.open /\ c.op = "listing"
      BY <3>4 DEF Free, Shut
    <3>6. pop.open => c.op \in {"move", "listing"}
      BY <3>4 DEF Free
    <3>7. QED BY <2>3, <3>2, <3>3, <3>5, <3>6 DEF Shut
  <2>6. Send(<<c>>) /\ <<c>> \in Seq(Call)
    BY <2>1 DEF OtherAsking
  <2>7. QED BY <1>0, <2>4, <2>5, <2>6, Sent
<1>4. ASSUME NEW m \in Modal, NEW text \in Names, SubmitByClick(m, text) \/ SubmitByEnter(m, text)
      PROVE  Shut'
  <2>1. PICK ms \in SUBSET Modal, times \in [Modal -> Nat] : Submits(ms, times, m, text)
    BY <1>4, SubmitsIs
  <2>2. PICK t : Made(t, Times(ms, times), Modal) /\ Send(t)
    BY <2>1, Submitted DEF Submits
  <2>3. t \in Seq(Call) /\ \A k \in DOMAIN t : t[k].op \in Modal
    BY <2>2 DEF Made
  <2>4. \A k \in DOMAIN calls : calls[k].op = "listing"
    BY <1>4, Waited
  <2>5. m \in open /\ open' \subseteq open /\ UNCHANGED <<pop, ready>>
    BY <2>1 DEF Submits, Submitting, Submit
  <2>6. ~pop.open
    BY <2>5 DEF Shut
  <2>7. CASE Continues(calls', <<>>, 0)
    BY <2>5, <2>7, ShutStays
  <2>8. CASE ready /\ Continues(calls', t, 0)
    <3>1. ASSUME NEW j \in DOMAIN calls' PROVE calls'[j].op \in Modal \cup {"listing"}
      BY <2>3, <2>4, <2>8, ComesFrom
    <3>2. \A j \in DOMAIN calls' : calls'[j].op # "move"
      BY <3>1 DEF Modal
    <3>3. QED BY <2>5, <2>6, <2>8, <3>1, <3>2 DEF Shut
  <2>9. QED BY <1>0, <2>2, <2>3, <2>7, <2>8, Sent
<1>5. CASE GoTo(1)
  <2>1. UNCHANGED <<open, pop, ready, calls>>
    BY <1>5 DEF GoTo, page
  <2>2. QED BY <1>1, <2>1, ShutStays
<1>6. CASE Aside
  <2>1. UNCHANGED <<calls, ready>>
    BY <1>6, AsideIs
  <2>2. ASSUME hurried' = (hurried \/ Pending \/ ~ready)
        PROVE  ready /\ \A k \in DOMAIN calls : calls[k].op = "listing"
    <3>1. ready /\ ~Pending
      BY <2>2, Zenon
    <3>2. QED BY <3>1 DEF Pending
  <2>3. CASE Opens
    <3>1. ~pop.open /\ pop' = pop /\ hurried' = (hurried \/ Pending \/ ~ready)
      BY <2>3 DEF Opens, AskRename, AskDelete, AskNew, Menu, Opening, Free
    <3>2. QED BY <2>1, <2>2, <3>1 DEF Shut
  <2>4. ASSUME NEW i \in DOMAIN rows, NEW rs \in SelectedRows(i), AskMove(i, rs) PROVE Shut'
    <3>1. open' = {} /\ hurried' = (hurried \/ Pending \/ ~ready)
      BY <2>4 DEF AskMove, Menu, Opening, Free, dialogs
    <3>2. QED BY <2>1, <2>2, <3>1 DEF Shut
  <2>5. CASE ~Opens /\ ~ \E i \in DOMAIN rows : \E rs \in SelectedRows(i) : AskMove(i, rs)
    <3>1. open' \subseteq open /\ (pop'.open => pop.open)
      BY <2>5, DialogsShut, PopShuts
    <3>2. QED BY <1>1, <2>1, <3>1, ShutStays
  <2>6. QED BY <2>3, <2>4, <2>5
<1>7. ASSUME NEW i \in DOMAIN calls, Answer(i) \/ Lose(i) PROVE Shut'
  <2>1. \A k \in DOMAIN calls \ {i} : calls[i].op # "listing" => calls[k].op # "move"
    BY DEF Shut
  <2>2. Continues(Answered(i), <<>>, i)
    BY <1>0, <1>7, OneAnswered
  <2>3. CASE AnswerNode(i)
    <3>1. calls[i].op = "node" /\ UNCHANGED <<open, pop, ready>>
      BY <2>3 DEF AnswerNode, page
    <3>2. open = {} /\ ~pop.open
      BY <3>1 DEF Shut, Modal
    <3>3. CASE Continues(calls', <<>>, i)
      BY <3>1, <3>3, ShutStays
    <3>4. ASSUME NEW c, Continues(calls', <<c>>, i), c.op = "list" PROVE Shut'
      <4>1. \A m \in DOMAIN <<c>> : (<<c>>)[m].op # "move"
        <5>1. \A m \in DOMAIN <<c>> : (<<c>>)[m] = c
          OBVIOUS
        <5>2. QED BY <3>4, <5>1
      <4>2. \A k \in DOMAIN calls \ {i} : calls[k].op # "move"
        BY <2>1, <3>1
      <4>3. QED BY <3>1, <3>2, <3>4, <4>1, <4>2, AllShut
    <3>5. QED BY <1>7, <2>3, <3>3, <3>4, NodeAnswered
  <2>4. CASE AnswerCreate(i)
    <3>1. calls[i].op \in {"folder", "collection"} /\ UNCHANGED <<pop, ready>>
      BY <2>4 DEF AnswerCreate
    <3>2. open = {calls[i].op}
      BY <3>1 DEF OwnRequests, OneDialog, Modal
    <3>3. ~pop.open
      BY <3>2 DEF Shut
    <3>4. CASE Respond(calls[i].op, TRUE)
      <4>1. open' = {}
        BY <3>2, <3>4 DEF Respond
      <4>2. PICK t : Continues(calls', t, i) /\ Reloading(t)
        BY <2>4, Created
      <4>3. \A m \in DOMAIN t : t[m].op # "move"
        BY <4>2 DEF Reloading, Nav
      <4>4. \A k \in DOMAIN calls \ {i} : calls[k].op # "move"
        BY <2>1, <3>1
      <4>5. QED BY <3>1, <3>3, <4>1, <4>2, <4>3, <4>4, AllShut
    <3>5. CASE calls' = Answered(i)
      <4>1. open' \subseteq open
        BY <2>4 DEF AnswerCreate, Respond
      <4>2. QED BY <2>2, <3>1, <3>5, <4>1, ShutStays
    <3>6. QED BY <2>4, <3>4, <3>5 DEF AnswerCreate
  <2>5. CASE ~AnswerNode(i) /\ ~AnswerCreate(i)
    <3>1. (calls' = Answered(i) \/ calls' = Outdated(Answered(i))) /\ ready' = ready
      BY <1>7, <2>5 DEF Answer, Lose, AnswerList, AnswerChildren, AnswerMore, AnswerRename,
                        AnswerDelete, AnswerListing, AnswerMove
    <3>2. Continues(calls', <<>>, i)
      BY <1>0, <2>2, <3>1, TableRedrawn
    <3>3. open' \subseteq open /\ (pop'.open => pop.open)
      BY <1>7, AnswersShut
    <3>4. QED BY <3>1, <3>2, <3>3, ShutStays
  <2>6. QED BY <2>3, <2>4, <2>5
<1>8. QED BY <1>2, <1>3, <1>4, <1>5, <1>6, <1>7, StepKinds

-----------------------------------------------------------------------------
(* What dialogs and requests hold.                                          *)

(* Names stay unique, as a name that is taken is not given.                 *)
LEMMA NamesStay ==
    ASSUME Typed, Next, moved' = {}, UniqueNames(parent, name)
    PROVE  UniqueNames(parent', name')
<1>0. /\ parent \in [Nodes -> Nodes \cup {None}] /\ IsTree(parent) /\ name \in [Nodes -> Names]
  BY DEF Typed, ApiKnown, ApiTypeOK
<1>1. CASE parent' = parent /\ name' = name
  BY <1>1
<1>2. ASSUME NEW i \in DOMAIN calls, AnswerCreate(i) PROVE UniqueNames(parent', name')
  <2>1. CASE UNCHANGED api
    BY <1>1, <2>1 DEF api
  <2>2. CASE ~ UNCHANGED api
    <3>1. PICK d, kind, nm : Create(d, kind, nm) /\ MayCreate(d, kind, nm)
      BY <1>2, <2>2 DEF AnswerCreate
    <3>2. PICK n : n = Min(Spare(kind))
      OBVIOUS
    <3>3. n \in Spare(kind)
      <4>1. Spare(kind) \in SUBSET Nat /\ Spare(kind) # {}
        BY <3>1, NodesAssumption DEF Spare, MayCreate
      <4>2. QED BY <3>2, <4>1, MinIs
    <3>4. n \in Nodes /\ parent[n] = None
      BY <3>3 DEF Spare
    <3>5. /\ parent'[n] = d /\ name'[n] = nm
          /\ \A m \in Nodes \ {n} : parent'[m] = parent[m] /\ name'[m] = name[m]
      BY <1>0, <3>1, <3>2, <3>4 DEF Create
    <3>6. \A m \in Nodes \ {Org} : parent[m] = d => name[m] # nm
      BY <3>1 DEF MayCreate, Taken
    <3>7. QED BY <3>4, <3>5, <3>6 DEF UniqueNames
  <2>3. QED BY <2>1, <2>2
<1>3. ASSUME NEW i \in DOMAIN calls, AnswerRename(i) PROVE UniqueNames(parent', name')
  <2>1. CASE UNCHANGED api
    BY <1>1, <2>1 DEF api
  <2>2. CASE ~ UNCHANGED api
    <3>1. PICK n, nm : Rename(n, nm) /\ MayRename(n, nm)
      BY <1>3, <2>2 DEF AnswerRename
    <3>2. parent' = parent /\ \A m \in Nodes : name'[m] = IF m = n THEN nm ELSE name[m]
      BY <1>0, <3>1 DEF Rename
    <3>3. name[n] # nm => \A m \in Nodes \ {Org} : parent[m] = parent[n] => name[m] # nm
      BY <3>1 DEF MayRename, Taken
    <3>4. QED BY <3>2, <3>3 DEF UniqueNames
  <2>3. QED BY <2>1, <2>2
<1>4. ASSUME NEW i \in DOMAIN calls, AnswerDelete(i) PROVE parent' = parent /\ name' = name
  BY <1>4 DEF AnswerDelete, Delete
<1>5. ASSUME NEW i \in DOMAIN calls, AnswerMove(i) PROVE parent' = parent /\ name' = name
  <2> DEFINE ok == {n \in calls[i].nodes : MayMove(n, calls[i].node)}
  <2>1. moved' = moved \cup ok /\ Move(ok, calls[i].node)
    BY <1>5 DEF AnswerMove
  <2> HIDE DEF ok
  <2>2. ok = {}
    BY <2>1
  <2>3. QED BY <1>0, <2>1, <2>2 DEF Move
<1>6. QED BY <1>1, <1>2, <1>3, <1>4, <1>5, WhoChanges DEF WhoStatement, ApiChanges, api

(* A dialog still holds what it asked for.                                  *)
Held1(c, h) == c.op \in Modal => c.nodes = h[c.op].nodes /\ c.was = h[c.op].was
CallsHeld == \A i \in DOMAIN calls : Held1(calls[i], held)

(* It does so if the requests are those there were, about the same.         *)
LEMMA HeldStays ==
    ASSUME Typed, NEW t, NEW i, Continues(calls', t, i),
           \A m \in DOMAIN t : Held1(t[m], held'),
           \A k \in DOMAIN calls \ {i} : Held1(calls[k], held')
    PROVE  CallsHeld'
<1>1. SUFFICES ASSUME NEW j \in DOMAIN calls' PROVE Held1(calls'[j], held')
  BY DEF CallsHeld
<1>2. CASE \E k \in DOMAIN calls \ {i} : Same(calls'[j], calls[k])
  BY <1>2 DEF Held1, Same
<1>3. QED BY <1>2, ComesWhole

(* Every step keeps that, as a dialog that is open is asked anew only when  *)
(* nothing of it is under way.                                              *)
LEMMA CallsHeldStep ==
    ASSUME Typed, ReadyKnown, Next, OneDialog, OwnRequests, CallsHeld, ~hurried'
    PROVE  CallsHeld'
<1>0. calls \in Seq(Call) /\ held \in [Modal -> Held]
  BY DEF Typed, CallsKnown, HeldKnown, DialogsTypeOK
<1>1. ASSUME NEW t, NotOfDialogs(t) PROVE \A m \in DOMAIN t : Held1(t[m], held')
  BY <1>1 DEF NotOfDialogs, Held1
<1>2. ASSUME NEW m \in Modal, NEW text \in Names, SubmitByClick(m, text) \/ SubmitByEnter(m, text)
      PROVE  CallsHeld'
  <2>1. PICK ms \in SUBSET Modal, times \in [Modal -> Nat] : Submits(ms, times, m, text)
    BY <1>2, SubmitsIs
  <2>2. PICK t : Made(t, Times(ms, times), Modal) /\ Send(t)
    BY <2>1, Submitted DEF Submits
  <2>3. t \in Seq(Call) /\ \A k \in DOMAIN t : AskedOK(t[k])
    BY <2>2 DEF Made
  <2>4. \A k \in DOMAIN calls : calls[k].op = "listing"
    BY <1>2, Waited
  <2>5. \A x \in Modal : held'[x].nodes = held[x].nodes /\ held'[x].was = held[x].was
    <3>1. PICK a : held' = [held EXCEPT ![m].text = a]
      BY <2>1 DEF Submits, Submitting, Submit
    <3>2. QED BY <1>0, <3>1 DEF Held
  <2>6. \A k \in DOMAIN t : Held1(t[k], held')
    BY <2>3, <2>5 DEF AskedOK, Held1
  <2>7. \A k \in DOMAIN calls : Held1(calls[k], held')
    BY <2>4 DEF Held1, Modal
  <2>8. \A k \in DOMAIN <<>> : Held1((<<>>)[k], held')
    OBVIOUS
  <2>9. QED BY <1>0, <2>2, <2>3, <2>6, <2>7, <2>8, Sent, HeldStays
<1>3. ASSUME NEW t, Continues(calls', t, 0), NotOfDialogs(t), NavAsks \/ OtherAsks \/ GoTo(1) \/ Aside
      PROVE  CallsHeld'
  <2>1. CASE UNCHANGED dialogs
    BY <1>1, <1>3, <2>1, HeldStays DEF CallsHeld, dialogs
  <2>2. CASE Opens
    <3>1. open = {}
      BY <2>2 DEF Opens, AskRename, AskDelete, AskNew, Menu, Free
    <3>2. \A k \in DOMAIN calls : calls[k].op \notin Modal
      BY <3>1 DEF OwnRequests
    <3>3. \A k \in DOMAIN calls : Held1(calls[k], held')
      BY <3>2 DEF Held1
    <3>4. QED BY <1>1, <1>3, <3>3, HeldStays
  <2>3. ASSUME NEW m \in Modal, CancelDialog(m) \/ EscapeDialog(m) PROVE CallsHeld'
    <3>1. m \notin busy /\ (held' = held \/ Forget({m}))
      BY <2>3 DEF CancelDialog, EscapeDialog, Cancel, CloseByEscape
    <3>2. \A x \in busy \cap Modal : held'[x] = held[x]
      BY <3>1 DEF Forget
    <3>3. \A k \in DOMAIN calls : calls[k].op \in Modal => calls[k].op \in busy
      BY DEF OwnRequests
    <3>4. \A k \in DOMAIN calls : Held1(calls[k], held')
      BY <3>2, <3>3 DEF Held1, CallsHeld
    <3>5. QED BY <1>1, <1>3, <3>4, HeldStays
  <2>4. QED
    <3>1. CASE Aside
      BY <2>1, <2>2, <2>3, <3>1 DEF Aside, Opens, AskMove, PickFolder, ClosePopover, dialogs
    <3>2. CASE NavAsks \/ OtherAsks \/ GoTo(1)
      BY <2>1, <3>2 DEF NavAsks, OtherAsks, ApiReady, OpenRow, Crumb, TreeClick, GoTo, Going,
                        TreeExpand, LoadMore, MoveHere, ListFolder, page, dialogs
    <3>3. QED BY <1>3, <3>1, <3>2
<1>4. ASSUME NEW i \in DOMAIN calls, Answer(i) \/ Lose(i),
             NEW t, Continues(calls', t, i), NotOfDialogs(t)
      PROVE  CallsHeld'
  <2>1. CASE UNCHANGED dialogs
    BY <1>1, <1>4, <2>1, HeldStays DEF CallsHeld, dialogs
  <2>2. ASSUME NEW ok, Respond(calls[i].op, ok), calls[i].op \in Modal PROVE CallsHeld'
    <3>1. \A x \in Modal \ {calls[i].op} : held'[x] = held[x]
      BY <2>2 DEF Respond, Forget
    <3>2. \A k \in DOMAIN calls \ {i} : calls[k].op # calls[i].op
      BY <2>2 DEF OwnRequests
    <3>3. \A k \in DOMAIN calls \ {i} : Held1(calls[k], held')
      BY <3>1, <3>2 DEF Held1, CallsHeld
    <3>4. QED BY <1>1, <1>4, <3>3, HeldStays
  <2>3. CASE AnswerCreate(i)
    BY <2>2, <2>3 DEF AnswerCreate, Modal
  <2>4. CASE AnswerRename(i) \/ AnswerDelete(i)
    BY <2>2, <2>4 DEF AnswerRename, AnswerDelete, Modal
  <2>5. CASE ~AnswerCreate(i) /\ ~AnswerRename(i) /\ ~AnswerDelete(i)
    BY <1>4, <2>1, <2>5 DEF Answer, Lose, AnswerNode, AnswerList, AnswerChildren, AnswerMore,
                            AnswerListing, AnswerMove, page, dialogs
  <2>6. QED BY <2>3, <2>4, <2>5
<1>5. QED BY <1>2, <1>3, <1>4, OtherRequests

-----------------------------------------------------------------------------
(* The requests t are sent while the i-th is answered, or none (0): those   *)
(* of the table and the popover by these alone.                             *)
Sending(t, i) ==
    /\ Continues(calls', t, i)
    /\ i = 0 \/ (i \in DOMAIN calls /\ (Answer(i) \/ Lose(i)))
    /\ \A m \in DOMAIN t : t[m].op \in {"more", "move"} => OtherAsks /\ OtherAsking(t[m])

(* Every step is like that.                                                 *)
LEMMA StepSends ==
    ASSUME Typed, Next
    PROVE  \E t, i : Sending(t, i)
<1>0. calls \in Seq(Call)
  BY DEF Typed, CallsKnown
<1>1. ASSUME NEW t, Continues(calls', t, 0), \A m \in DOMAIN t : t[m].op \notin {"more", "move"}
      PROVE  \E u, i : Sending(u, i)
  <2>1. Sending(t, 0)
    BY <1>1 DEF Sending
  <2>2. QED BY <2>1
<1>2. ASSUME NEW m \in Modal, NEW text \in Names, SubmitByClick(m, text) \/ SubmitByEnter(m, text)
      PROVE  \E t, i : Sending(t, i)
  <2>1. PICK ms \in SUBSET Modal, times \in [Modal -> Nat] : Submits(ms, times, m, text)
    BY <1>2, SubmitsIs
  <2>2. PICK t : Made(t, Times(ms, times), Modal) /\ Send(t)
    BY <2>1, Submitted DEF Submits
  <2>3. t \in Seq(Call) /\ \A k \in DOMAIN t : t[k].op \notin {"more", "move"}
    BY <2>2 DEF Made, Modal
  <2>4. \A k \in DOMAIN <<>> : (<<>>)[k].op \notin {"more", "move"}
    OBVIOUS
  <2>5. QED BY <1>0, <1>1, <2>2, <2>3, <2>4, Sent
<1>3. CASE NavAsks
  <2>1. PICK t, id, n, p, push : NavAsking(t, id, n, p, push)
    BY <1>3, NavAsked
  <2>2. Continues(calls', t, 0) /\ Going1(t, id, n, p, push)
    BY <2>1 DEF NavAsking
  <2>3. \A m \in DOMAIN t : t[m].op \notin {"more", "move"}
    <3>1. CASE t = <<>>
      BY <3>1
    <3>2. CASE t # <<>>
      <4>1. PICK c : t = <<c>> /\ c.op \notin {"more", "move"}
        BY <2>2, <3>2 DEF Going1
      <4>2. \A m \in DOMAIN <<c>> : (<<c>>)[m] = c
        OBVIOUS
      <4>3. QED BY <4>1, <4>2
    <3>3. QED BY <3>1, <3>2
  <2>4. QED BY <1>1, <2>2, <2>3
<1>4. CASE OtherAsks
  <2>1. PICK c \in Call : OtherAsking(c)
    BY <1>4, OtherAsked
  <2>2. Send(<<c>>) /\ <<c>> \in Seq(Call)
    BY <2>1 DEF OtherAsking
  <2>3. \A m \in DOMAIN <<c>> : (<<c>>)[m] = c
    OBVIOUS
  <2>4. CASE Continues(calls', <<c>>, 0)
    <3>1. \A m \in DOMAIN <<c>> : OtherAsking((<<c>>)[m])
      BY <2>1, <2>3
    <3>2. Sending(<<c>>, 0)
      BY <1>4, <2>4, <3>1 DEF Sending
    <3>3. QED BY <3>2
  <2>5. CASE Continues(calls', <<>>, 0)
    <3>1. \A m \in DOMAIN <<>> : (<<>>)[m].op \notin {"more", "move"}
      OBVIOUS
    <3>2. QED BY <1>1, <2>5, <3>1
  <2>6. QED BY <1>0, <2>2, <2>4, <2>5, Sent
<1>5. CASE GoTo(1) \/ Aside
  <2>1. calls' = calls
    BY <1>5, AsideIs DEF GoTo
  <2>2. Continues(calls', <<>>, 0)
    BY <1>0, <2>1, Unanswered
  <2>3. \A m \in DOMAIN <<>> : (<<>>)[m].op \notin {"more", "move"}
    OBVIOUS
  <2>4. QED BY <1>1, <2>2, <2>3
<1>6. ASSUME NEW i \in DOMAIN calls, Answer(i) \/ Lose(i) PROVE \E t, j : Sending(t, j)
  <2>1. Continues(Answered(i), <<>>, i)
    BY <1>0, <1>6, OneAnswered
  <2>2. \A m \in DOMAIN <<>> : (<<>>)[m].op \notin {"more", "move"}
    OBVIOUS
  <2>3. CASE AnswerNode(i)
    <3>1. CASE Continues(calls', <<>>, i)
      BY <1>6, <2>2, <3>1 DEF Sending
    <3>2. ASSUME NEW c, Continues(calls', <<c>>, i), c.op = "list" PROVE Sending(<<c>>, i)
      <4>1. \A m \in DOMAIN <<c>> : (<<c>>)[m] = c
        OBVIOUS
      <4>2. QED BY <1>6, <3>2, <4>1 DEF Sending
    <3>3. QED BY <2>3, <3>1, <3>2, NodeAnswered
  <2>4. CASE AnswerCreate(i)
    <3>1. PICK t : Continues(calls', t, i) /\ Reloading(t)
      BY <2>4, Created
    <3>2. QED BY <1>6, <3>1 DEF Sending, Reloading, Nav
  <2>5. CASE ~AnswerNode(i) /\ ~AnswerCreate(i)
    <3>1. calls' = Answered(i) \/ calls' = Outdated(Answered(i))
      BY <1>6, <2>5 DEF Answer, Lose, AnswerList, AnswerChildren, AnswerMore, AnswerRename,
                        AnswerDelete, AnswerListing, AnswerMove
    <3>2. Continues(calls', <<>>, i)
      BY <1>0, <2>1, <3>1, TableRedrawn
    <3>3. QED BY <1>6, <2>2, <3>2 DEF Sending
  <2>6. QED BY <2>3, <2>4, <2>5
<1>7. QED BY <1>2, <1>3, <1>4, <1>5, <1>6, StepKinds

(* A page that is asked for is the one the table has the link of.           *)
MoreOK == \A i \in DOMAIN calls : calls[i].op = "more" =>
              calls[i].from = next.from /\ next.from > 0

(* It is so until the page is there.                                        *)
LEMMA MoreStep ==
    ASSUME Typed, Next, MoreOK, CallsShow
    PROVE  MoreOK'
<1>1. PICK t, i : Sending(t, i)
  BY StepSends
<1>2. SUFFICES ASSUME NEW j \in DOMAIN calls', calls'[j].op = "more"
               PROVE  calls'[j].from = next'.from /\ next'.from > 0
  BY DEF MoreOK
<1>3. CASE \E m \in DOMAIN t : calls'[j] = t[m]
  <2>1. OtherAsks /\ OtherAsking(calls'[j])
    BY <1>1, <1>2, <1>3 DEF Sending
  <2>2. next' = next
    BY <2>1 DEF OtherAsks, TreeExpand, LoadMore, MoveHere, ListFolder, page
  <2>3. QED BY <1>2, <2>1, <2>2 DEF OtherAsking
<1>4. ASSUME NEW k \in DOMAIN calls \ {i}, Same(calls'[j], calls[k])
      PROVE  calls'[j].from = next'.from /\ next'.from > 0
  <2>1. calls[k].op = "more" /\ calls'[j].from = calls[k].from
    BY <1>2, <1>4 DEF Same
  <2>2. \A q \in DOMAIN calls : calls[q].op # "listing" => q = k
    BY <2>1 DEF CallsShow
  <2>3. CASE next' = next
    BY <2>1, <2>3 DEF MoreOK
  <2>4. ASSUME NEW q \in DOMAIN calls, AnswerList(q) \/ AnswerMore(q) PROVE FALSE
    <3>1. q = k
      BY <2>2, <2>4 DEF AnswerList, AnswerMore
    <3>2. calls' = Answered(k)
      BY <2>1, <2>4, <3>1 DEF AnswerList, AnswerMore
    <3>3. calls \in Seq(Call)
      BY DEF Typed, CallsKnown
    <3>4. Continues(calls', <<>>, k)
      BY <3>2, <3>3, OneAnswered
    <3>5. ~ \E m \in DOMAIN <<>> : calls'[j] = <<>>[m]
      OBVIOUS
    <3>6. \E p \in DOMAIN calls \ {k} : calls'[j].op = calls[p].op
      BY <3>4, <3>5, ComesFrom
    <3>7. QED BY <1>2, <2>2, <3>6
  <2>5. QED BY <2>3, <2>4, WhoChanges DEF WhoStatement, ListChanges, AskRename, AskDelete, AskMove,
             Menu, Focus, AnswerRename, ShowRenamed, AnswerDelete, ShowDeleted, AnswerMove,
             ShowMoved, list
<1>5. QED BY <1>1, <1>3, <1>4, ComesWhole DEF Sending

-----------------------------------------------------------------------------
(* The table has children of the directory, each once.  A page that is left *)
(* goes on behind it unless a rename came since, and it is whole up to      *)
(* there if nothing was deleted or renamed between two pages.               *)
ListOK == rows = RowsOf(nodes, 0) /\ Truthful(nodes, view.node) /\ Distinct(nodes)
PageOK ==
    /\ next.from > 0 /\ "rename" \notin shifted => Before(nodes, view.node, next.from)
    /\ Len(past.entries) > 1 =>
          /\ next.from = 0 /\ torn = {} => Whole(nodes, view.node)
          /\ next.from > 0 /\ shifted = {} => UpTo(nodes, view.node, next.from)

(* A position is a number.                                                  *)
LEMMA PositionIs ==
    ASSUME NEW n, NEW d
    PROVE  Position(n, d) \in Nat
<1>1. IsFiniteSet({m \in Children(d) : Precedes(m, n)})
  BY NodesAssumption, FS_Subset DEF Children
<1>2. QED BY <1>1, FS_CardinalityType DEF Position

(* The listing is as it was, as long as the nodes are.                      *)
LEMMA ListOKIs ==
    ASSUME UNCHANGED api, NEW s, s = nodes', NEW d, d = view'.node, Truthful(s, d), Distinct(s),
           rows' = RowsOf(s, 0)
    PROVE  ListOK'
<1>1. Truthful(nodes, view.node)'
  BY DEF Truthful, Children, Exists, api
<1>2. Distinct(nodes)'
  BY DEF Distinct
<1>3. QED BY <1>1, <1>2 DEF ListOK

(* What holds of the table that is there next, in a tree that stays, holds  *)
(* of it then.                                                              *)
LEMMA BeforeIs ==
    ASSUME UNCHANGED api, NEW s, s = nodes', NEW d, d = view'.node, NEW k, k = next'.from
    PROVE  /\ Before(s, d, k) => Before(nodes, view.node, next.from)'
           /\ UpTo(s, d, k) => UpTo(nodes, view.node, next.from)'
           /\ Whole(s, d) => Whole(nodes, view.node)'
<1>1. PICK C : C = Children(d)
  OBVIOUS
<1>2. Children(view.node)' = C
  BY <1>1 DEF Children, Exists, api
<1>3. \A n : Cardinality({m \in C : Precedes(m, n)'}) = Position(n, d)
  BY <1>1 DEF Position, Precedes, api
<1>4. Before(s, d, k) => Before(nodes, view.node, next.from)'
  BY <1>2, <1>3 DEF Before, Position
<1>5. UpTo(s, d, k) => UpTo(nodes, view.node, next.from)'
  BY <1>1, <1>2, <1>3 DEF UpTo, Position, Has
<1>6. Whole(s, d) => Whole(nodes, view.node)'
  BY <1>1, <1>2 DEF Whole, Has
<1>7. QED BY <1>4, <1>5, <1>6

(* What is read on of an unchanged listing is right.                        *)
LEMMA ReadOnIs ==
    ASSUME UNCHANGED api, NEW s, s = nodes', NEW d, d = view'.node, NEW k, k = next'.from,
           NEW before, ReadOn(s, d, k, before), rows' = RowsOf(s, 0), k \in Nat,
           Len(past'.entries) > 1 /\ torn' = {} => before,
           Len(past'.entries) > 1 /\ shifted' = {} => before
    PROVE  ListOK' /\ PageOK'
<1>1. /\ Truthful(s, d) /\ Distinct(s) /\ (k > 0 => Before(s, d, k))
      /\ before => (k = 0 => Whole(s, d)) /\ (k > 0 => UpTo(s, d, k))
  BY DEF ReadOn
<1>2. ListOK'
  BY <1>1, ListOKIs
<1>3. /\ Before(s, d, k) => Before(nodes, view.node, next.from)'
      /\ UpTo(s, d, k) => UpTo(nodes, view.node, next.from)'
      /\ Whole(s, d) => Whole(nodes, view.node)'
  BY BeforeIs
<1>4. PageOK'
  BY <1>1, <1>3 DEF PageOK
<1>5. QED BY <1>2, <1>4

(* The first page.                                                          *)
LEMMA ListedTrue ==
    ASSUME Typed, NEW i \in DOMAIN calls, AnswerList(i)
    PROVE  ListOK' /\ PageOK'
<1>1. ApiTypeOK /\ calls[i] \in Call /\ CallOK(calls[i])
  BY DEF Typed, ApiKnown, CallsKnown
<1>2. PICK d \in Nodes : d = calls[i].node
  BY <1>1 DEF CallOK, AnswerList
<1>3. PICK z \in Nat : z = 0
  OBVIOUS
<1>4. PICK s \in Seq(Object) : s = Page(d, z).results
  BY <1>1, PageTyped
<1>5. PICK k \in Nat : k = Page(d, z).next.from
  BY <1>1, PageTyped
<1>6. /\ view' = [node |-> d, path |-> calls[i].path] /\ nodes' = s /\ rows' = RowsOf(s, 0)
      /\ next'.from = k /\ UNCHANGED api
  BY <1>2, <1>3, <1>4, <1>5 DEF AnswerList, ShowDirectory
<1>7. PICK e \in Seq(Object) : e = <<>>
  <2>1. <<>> \in Seq(Object)
    OBVIOUS
  <2>2. QED BY <2>1
<1>8. DOMAIN e = {} /\ e \o s = s
  BY <1>7
<1>9. Truthful(e, d) /\ Distinct(e) /\ Before(e, d, z)
  BY <1>8 DEF Truthful, Distinct, Before
<1>10. UpTo(e, d, z)
  <2>1. \A n : ~ (Position(n, d) < z)
    BY <1>3, PositionIs
  <2>2. QED BY <2>1 DEF UpTo
<1>11. ReadOn(e \o Page(d, z).results, d, Page(d, z).next.from, UpTo(e, d, z))
  BY <1>1, <1>9, PageAdded
<1>12. ReadOn(s, d, k, UpTo(e, d, z))
  BY <1>4, <1>5, <1>8, <1>11
<1>13. QED BY <1>6, <1>10, <1>12, ReadOnIs

(* Its rows come after those there are.                                     *)
LEMMA RowsTogether ==
    ASSUME NEW s \in Seq(Object), NEW p \in Seq(Object)
    PROVE  RowsOf(s, 0) \o RowsOf(p, Len(s)) = RowsOf(s \o p, 0)
<1>1. PICK l \in Nat, q \in Nat : l = Len(s) /\ q = Len(p)
  OBVIOUS
<1>2. PICK a \in Seq(Row) : a = RowsOf(s, 0)
  BY RowsTyped
<1>3. PICK b \in Seq(Row) : b = RowsOf(p, l)
  BY RowsTyped
<1>4. PICK r \in Seq(Object) : r = s \o p
  <2>1. s \o p \in Seq(Object)
    OBVIOUS
  <2>2. QED BY <2>1
<1>5. Len(r) = l + q /\ \A j \in 1..(l + q) : r[j] = IF j <= l THEN s[j] ELSE p[j - l]
  <2>1. /\ Len(s \o p) = Len(s) + Len(p)
        /\ \A j \in 1..(Len(s) + Len(p)) : (s \o p)[j] = IF j <= Len(s) THEN s[j] ELSE p[j - Len(s)]
    BY ConcatProperties
  <2>2. QED BY <1>1, <1>4, <2>1
<1>6. Len(a) = l /\ \A j \in 1..l : a[j] = [at |-> j, id |-> s[j].id, name |-> s[j].name]
  BY <1>1, <1>2, RowsTyped
<1>7. Len(b) = q /\ \A j \in 1..q : b[j] = [at |-> l + j, id |-> p[j].id, name |-> p[j].name]
  BY <1>1, <1>3, RowsTyped
<1>8. PICK c \in Seq(Row) : c = a \o b
  <2>1. a \o b \in Seq(Row)
    OBVIOUS
  <2>2. QED BY <2>1
<1>9. Len(c) = l + q /\ \A j \in 1..(l + q) : c[j] = IF j <= l THEN a[j] ELSE b[j - l]
  <2>1. /\ Len(a \o b) = Len(a) + Len(b)
        /\ \A j \in 1..(Len(a) + Len(b)) : (a \o b)[j] = IF j <= Len(a) THEN a[j] ELSE b[j - Len(a)]
    BY ConcatProperties
  <2>2. QED BY <1>6, <1>7, <1>8, <2>1
<1>10. PICK d \in Seq(Row) : d = RowsOf(r, 0)
  BY RowsTyped
<1>11. Len(d) = l + q /\ \A j \in 1..(l + q) : d[j] = [at |-> j, id |-> r[j].id, name |-> r[j].name]
  BY <1>5, <1>10, RowsTyped
<1>12. ASSUME NEW j \in 1..(l + q) PROVE c[j] = d[j]
  <2>1. CASE j <= l
    <3>1. j \in 1..l
      BY <2>1
    <3>2. a[j] = [at |-> j, id |-> s[j].id, name |-> s[j].name]
      BY <1>6, <3>1
    <3>3. c[j] = a[j] /\ r[j] = s[j]
      BY <1>5, <1>9, <2>1
    <3>4. QED BY <1>11, <3>2, <3>3
  <2>2. CASE ~ (j <= l)
    <3>1. j - l \in 1..q /\ l + (j - l) = j
      BY <2>2
    <3>2. b[j - l] = [at |-> j, id |-> p[j - l].id, name |-> p[j - l].name]
      BY <1>7, <3>1
    <3>3. c[j] = b[j - l] /\ r[j] = p[j - l]
      BY <1>5, <1>9, <2>2
    <3>4. QED BY <1>11, <3>2, <3>3
  <2>3. QED BY <2>1, <2>2
<1>13. c = d
  BY <1>9, <1>11, <1>12
<1>14. QED BY <1>1, <1>2, <1>3, <1>4, <1>8, <1>10, <1>13

(* A further page.                                                          *)
LEMMA MoreTrue ==
    ASSUME Typed, NEW i \in DOMAIN calls, AnswerMore(i), CallsShow, MoreOK, ListOK, NoNav => PageOK,
           past'.entries = past.entries, "rename" \notin torn'
    PROVE  ListOK' /\ PageOK'
<1>1. ApiTypeOK /\ view.node \in Nodes /\ nodes \in Seq(Object) /\ next.from \in Nat
  BY DEF Typed, ApiKnown, ViewKnown, ListKnown, ListTypeOK
<1>2. /\ calls[i].op = "more" /\ calls[i].node = view.node
      /\ calls[i].from = next.from /\ next.from > 0
      /\ \A j \in DOMAIN calls : calls[j].op # "listing" => j = i
  BY DEF AnswerMore, CallsShow, CallShows, MoreOK
<1>3. NoNav
  BY <1>2 DEF NoNav, IsNav, Nav
<1>4. PICK d \in Nodes : d = view.node
  BY <1>1
<1>5. PICK z \in Nat : z = next.from
  BY <1>1
<1>6. PICK p \in Seq(Object) : p = Page(d, z).results
  BY <1>1, PageTyped
<1>7. PICK k \in Nat : k = Page(d, z).next.from
  BY <1>1, PageTyped
<1>8. AppendPage(Page(d, z)) /\ UNCHANGED <<api, view, shifted>> /\ torn' = torn \cup shifted
  BY <1>2, <1>4, <1>5 DEF AnswerMore
<1>9. PICK s \in Seq(Object) : s = nodes \o p
  <2>1. nodes \o p \in Seq(Object)
    BY <1>1
  <2>2. QED BY <2>1
<1>10. nodes' = s /\ next'.from = k /\ view'.node = d
  BY <1>4, <1>6, <1>7, <1>8, <1>9 DEF AppendPage
<1>11. "rename" \notin shifted
  BY <1>8
<1>12. Truthful(nodes, d) /\ Distinct(nodes) /\ Before(nodes, d, z)
  BY <1>2, <1>3, <1>4, <1>5, <1>11 DEF ListOK, PageOK
<1>13. ReadOn(nodes \o Page(d, z).results, d, Page(d, z).next.from, UpTo(nodes, d, z))
  BY <1>1, <1>12, PageAdded
<1>14. ReadOn(s, d, k, UpTo(nodes, d, z))
  BY <1>6, <1>7, <1>9, <1>13
<1>15. Len(past'.entries) > 1 /\ (torn' = {} \/ shifted' = {}) => UpTo(nodes, d, z)
  <2>1. Len(past'.entries) > 1 /\ shifted = {} => UpTo(nodes, d, z)
    BY <1>2, <1>3, <1>4, <1>5 DEF PageOK
  <2>2. (torn' = {} \/ shifted' = {}) => shifted = {}
    BY <1>8
  <2>3. QED BY <2>1, <2>2
<1>16. rows' = RowsOf(s, 0)
  <2>1. rows' = RowsOf(nodes, 0) \o RowsOf(p, Len(nodes))
    BY <1>6, <1>8 DEF AppendPage, ListOK
  <2>2. QED BY <1>1, <1>9, <2>1, RowsTogether
<1>17. QED BY <1>8, <1>10, <1>14, <1>15, <1>16, ReadOnIs

(* Nothing is to be said anew if neither the table nor the nodes change.    *)
LEMMA SameTrue ==
    ASSUME UNCHANGED <<api, nodes, rows, next, shifted, torn>>, view' = view,
           past'.entries = past.entries, ListOK, NoNav => PageOK, NoNav' => NoNav
    PROVE  ListOK' /\ (NoNav' => PageOK')
<1>1. PICK s : s = nodes'
  OBVIOUS
<1>2. PICK d : d = view'.node
  OBVIOUS
<1>3. PICK k : k = next'.from
  OBVIOUS
<1>4. ListOK'
  BY <1>1, <1>2, ListOKIs DEF ListOK
<1>5. /\ Before(s, d, k) => Before(nodes, view.node, next.from)'
      /\ UpTo(s, d, k) => UpTo(nodes, view.node, next.from)'
      /\ Whole(s, d) => Whole(nodes, view.node)'
  BY <1>1, <1>2, <1>3, BeforeIs
<1>6. PageOK => PageOK'
  BY <1>1, <1>2, <1>3, <1>5 DEF PageOK
<1>7. QED BY <1>4, <1>6

(* What the dialogs that act on rows hold is in the table.                  *)
HoldsOK ==
    /\ "rename" \in open =>
          \E k \in DOMAIN nodes : /\ held["rename"].nodes = {nodes[k].id}
                                  /\ held["rename"].was = nodes[k].name
                                  /\ details = nodes[k].id
    /\ "delete" \in open => \A n \in held["delete"].nodes : Has(nodes, n)

(* The row that is found by the old name is that of the node.               *)
LEMMA RenamedTrue ==
    ASSUME Typed, ListKnown', UniqueNames(parent, name), NEW i \in DOMAIN calls, AnswerRename(i),
           OwnRequests, CallsHeld, HoldsOK, ListOK, NoNav => PageOK, NoNav' => NoNav,
           view' = view, past'.entries = past.entries
    PROVE  ListOK' /\ (NoNav' => PageOK')
<1>0. /\ ApiTypeOK /\ nodes \in Seq(Object) /\ nodes' \in Seq(Object) /\ next.from \in Nat
      /\ calls[i] \in Call
  BY DEF Typed, ApiKnown, ListKnown, ListTypeOK, CallsKnown
<1>1. PICK c \in Call : c = calls[i]
  BY <1>0
<1>2. CASE UNCHANGED <<api, list, shifts>>
  BY <1>2, SameTrue DEF list, shifts
<1>3. ASSUME NEW n, n = CHOOSE x \in c.nodes : TRUE,
             NEW t, t = c.text, MayRename(n, t), Rename(n, t),
             ShowRenamed(n, c.was, t), Shifting("rename")
      PROVE  ListOK' /\ (NoNav' => PageOK')
  <2>1. c.op = "rename" /\ "rename" \in open /\ "rename" \in Modal
    BY <1>1 DEF AnswerRename, OwnRequests, Modal
  <2>2. PICK k \in DOMAIN nodes : /\ c.nodes = {nodes[k].id} /\ c.was = nodes[k].name
                                  /\ details = nodes[k].id
    BY <1>1, <2>1 DEF CallsHeld, Held1, HoldsOK
  <2>3. n = nodes[k].id /\ t \in Names
    BY <1>3, <2>2 DEF MayRename
  <2>4. PICK d : d = view.node
    OBVIOUS
  <2>5. \A j \in DOMAIN nodes : /\ nodes[j] \in Object /\ nodes[j].id \in Nodes \ {Org}
                                /\ parent[nodes[j].id] = d /\ d # None
                                /\ nodes[j].name = name[nodes[j].id]
    BY <1>0, <2>4 DEF ListOK, Truthful, Children, Exists
  <2>6. \A j \in DOMAIN nodes : nodes[j].name = nodes[k].name => j = k
    <3>1. \A j \in DOMAIN nodes : nodes[j].name = nodes[k].name => nodes[j].id = nodes[k].id
      BY <2>5 DEF UniqueNames
    <3>2. QED BY <3>1 DEF ListOK, Distinct
  <2>7. \A j \in DOMAIN nodes : nodes[j].id = n => j = k
    BY <2>3 DEF ListOK, Distinct
  <2>8. /\ nodes' = [j \in DOMAIN nodes |->
                        IF nodes[j].id = n THEN [nodes[j] EXCEPT !.name = t] ELSE nodes[j]]
        /\ next' = next
    BY <1>3, <2>2, <2>3 DEF ShowRenamed
  <2>9. \A o \in Object : [o EXCEPT !.name = t] = [id |-> o.id, name |-> t]
    BY DEF Object
  <2>10. /\ DOMAIN nodes' = DOMAIN nodes
         /\ nodes'[k] = [id |-> n, name |-> t]
         /\ \A j \in DOMAIN nodes : j # k => nodes'[j] = nodes[j]
    BY <2>3, <2>5, <2>7, <2>8, <2>9
  <2>11. PICK f : f = rows
    OBVIOUS
  <2>12. /\ DOMAIN f = DOMAIN nodes
         /\ \A j \in DOMAIN nodes : f[j] = [at |-> 0 + j, id |-> nodes[j].id, name |-> nodes[j].name]
    BY <2>11 DEF ListOK, RowsOf
  <2>13. {j \in DOMAIN rows : rows[j].name = c.was} = {k}
    BY <2>2, <2>6, <2>11, <2>12
  <2>14. rows' = [rows EXCEPT ![k].name = t]
    <3>1. k \in Nat
      BY <1>0
    <3>2. Min({k}) = k
      BY <3>1, MinIs
    <3>3. QED BY <1>3, <2>13, <3>2 DEF ShowRenamed
  <2>15. rows' = RowsOf(nodes', 0)
    <3>1. PICK g : g = rows'
      OBVIOUS
    <3>2. g = [f EXCEPT ![k].name = t]
      BY <2>11, <2>14, <3>1
    <3>3. /\ DOMAIN g = DOMAIN nodes
          /\ g[k] = [at |-> 0 + k, id |-> n, name |-> t]
          /\ \A j \in DOMAIN nodes : j # k => g[j] = f[j]
      BY <2>2, <2>3, <2>12, <3>2
    <3>4. g = [j \in DOMAIN nodes |-> g[j]]
      BY <2>12, <3>2
    <3>5. \A j \in DOMAIN nodes : g[j] = [at |-> 0 + j, id |-> nodes'[j].id, name |-> nodes'[j].name]
      BY <2>10, <2>12, <3>3
    <3>6. QED BY <2>10, <3>1, <3>4, <3>5 DEF RowsOf
  <2>16. /\ parent' = parent /\ deleted' = deleted
         /\ \A m \in Nodes : name'[m] = IF m = n THEN t ELSE name[m]
    BY <1>0, <1>3 DEF Rename, ApiTypeOK
  <2>17. \A m : m \in Children(view.node)' <=> m \in Children(d)
    BY <2>4, <2>16 DEF Children, Exists
  <2>18. \A j \in DOMAIN nodes : /\ nodes'[j].id = nodes[j].id
                                 /\ nodes'[j].name = name'[nodes[j].id]
    BY <2>3, <2>5, <2>7, <2>10, <2>16
  <2>19. ListOK'
    <3>1. Truthful(nodes, view.node)'
      BY <2>4, <2>10, <2>17, <2>18 DEF ListOK, Truthful
    <3>2. Distinct(nodes)'
      BY <2>10, <2>18 DEF ListOK, Distinct
    <3>3. QED BY <2>15, <3>1, <3>2 DEF ListOK
  <2>20. NoNav' => PageOK'
    <3>1. CASE next.from > 0
      BY <1>3, <2>8, <3>1, <1>0 DEF PageOK, Shifting
    <3>2. CASE ~ (next.from > 0)
      <4>1. torn' = torn /\ next'.from = next.from /\ ~ (next'.from > 0)
        BY <1>3, <2>8, <3>2 DEF Shifting
      <4>2. Whole(nodes, view.node) => Whole(nodes, view.node)'
        BY <2>4, <2>10, <2>17, <2>18 DEF Whole, Has
      <4>3. PageOK => PageOK'
        BY <4>1, <4>2 DEF PageOK
      <4>4. QED BY <4>3
    <3>3. QED BY <3>1, <3>2
  <2>21. QED BY <2>19, <2>20
<1>4. PICK n : n = CHOOSE x \in c.nodes : TRUE
  OBVIOUS
<1>5. PICK t : t = c.text
  OBVIOUS
<1>6. \/ UNCHANGED <<api, list, shifts>>
      \/ /\ MayRename(n, t) /\ Rename(n, t) /\ ShowRenamed(n, c.was, t) /\ Shifting("rename")
  BY <1>1, <1>4, <1>5 DEF AnswerRename
<1>7. QED BY <1>2, <1>3, <1>4, <1>5, <1>6

(* Of the children of a directory none is below another.                    *)
LEMMA BelowChildren ==
    ASSUME ApiTypeOK, IsTree(parent), NEW d \in Nodes, NEW n \in Children(d), NEW m \in Children(d)
    PROVE  m \in Below(n) <=> m = n
<1>1. PICK f : f = PathOf
  OBVIOUS
<1>2. PathsIn(f, parent) /\ parent \in [Nodes -> Nodes \cup {None}]
  BY <1>1, PathOfIs DEF ApiTypeOK
<1>3. /\ m \in Nodes \ {Org} /\ parent[m] = d /\ parent[m] # None
      /\ n \in Nodes \ {Org} /\ parent[n] = d /\ parent[n] # None /\ parent[d] # None
  BY DEF Children, Exists, IsTree
<1>4. PICK s \in Seq(Nodes \ {Org}) : s = f[d]
  BY <1>2, PathsAre
<1>5. PICK l \in Nat : l = Len(s) /\ DOMAIN s = 1..l
  OBVIOUS
<1>6. f[m] = Append(s, m) /\ f[n] = Append(s, n)
  BY <1>2, <1>3, <1>4 DEF PathsIn
<1>7. PICK t \in Seq(Nodes \ {Org}) : t = Append(s, m)
  <2>1. Append(s, m) \in Seq(Nodes \ {Org})
    BY <1>3
  <2>2. QED BY <2>1
<1>8. Len(t) = l + 1 /\ t[l + 1] = m /\ \A k \in 1..l : t[k] = s[k]
  BY <1>3, <1>5, <1>7
<1>9. DOMAIN t = 1..(l + 1)
  BY <1>8
<1>10. m \in Below(n) <=> \E k \in 1..(l + 1) : t[k] = n
  BY <1>1, <1>3, <1>6, <1>7, <1>9 DEF Below, Range
<1>11. l + 1 \in 1..(l + 1)
  OBVIOUS
<1>12. ASSUME NEW k \in 1..l, s[k] = n PROVE FALSE
  <2>1. f[n] = SubSeq(s, 1, k)
    BY <1>2, <1>3, <1>4, <1>5, <1>12, PathParts
  <2>2. Len(SubSeq(s, 1, k)) = k
    BY <1>5
  <2>3. Len(Append(s, n)) = l + 1
    BY <1>3, <1>5
  <2>4. QED BY <1>6, <2>1, <2>2, <2>3
<1>13. \A k \in 1..(l + 1) : k \in 1..l \/ k = l + 1
  OBVIOUS
<1>14. QED BY <1>8, <1>10, <1>11, <1>12, <1>13

(* What is to be deleted is there.                                          *)
LEMMA AllThere ==
    ASSUME Typed, NEW i \in DOMAIN calls, calls[i].op = "delete", OwnRequests, CallsHeld, HoldsOK,
           ListOK
    PROVE  /\ calls[i].nodes \subseteq Children(view.node)
           /\ {n \in calls[i].nodes : ~Exists(n)} = {}
<1>1. "delete" \in open /\ calls[i].nodes = held["delete"].nodes
  BY DEF OwnRequests, CallsHeld, Held1, Modal
<1>2. \A n \in calls[i].nodes : n \in Children(view.node)
  BY <1>1 DEF HoldsOK, Has, ListOK, Truthful
<1>3. QED BY <1>2 DEF Children

(* What is deleted leaves the listing and the table alike.                  *)
LEMMA DeletedTrue ==
    ASSUME Typed, NEW i \in DOMAIN calls, AnswerDelete(i),
           OwnRequests, CallsHeld, HoldsOK, ListOK, NoNav => PageOK, NoNav' => NoNav,
           view' = view, past'.entries = past.entries
    PROVE  ListOK' /\ (NoNav' => PageOK')
<1>0. /\ ApiTypeOK /\ IsTree(parent) /\ nodes \in Seq(Object) /\ next.from \in Nat
      /\ view.node \in Nodes
  BY DEF Typed, ApiKnown, ListKnown, ListTypeOK, ViewKnown
<1>1. PICK ns : ns = calls[i].nodes
  OBVIOUS
<1>2. PICK d \in Nodes : d = view.node
  BY <1>0
<1>3. calls[i].op = "delete"
  BY DEF AnswerDelete
<1>4. ns \subseteq Children(d) /\ {n \in ns : ~Exists(n)} = {}
  BY <1>1, <1>2, <1>3, AllThere
<1>5. ns \ {n \in ns : ~Exists(n)} = ns
  BY <1>4
<1>6. /\ Delete(ns) /\ (\E e : ShowDeleted(ns, e)) /\ Shifting("delete")
  <2> DEFINE wrong == {n \in calls[i].nodes : ~Exists(n)}
  <2>1. Delete(calls[i].nodes \ wrong) /\ ShowDeleted(calls[i].nodes \ wrong, wrong)
        /\ Shifting("delete")
    BY DEF AnswerDelete
  <2>2. calls[i].nodes \ wrong = ns
    BY <1>1, <1>5
  <2> HIDE DEF wrong
  <2>3. QED BY <2>1, <2>2
<1>7. PICK keep : keep = {j \in DOMAIN nodes : nodes[j].id \notin ns}
  OBVIOUS
<1>8. PICK r \in Seq(Object) : r = Kept(nodes, keep)
  BY <1>0, KeptIs
<1>9. PICK p : KeptFrom(r, p, nodes, DOMAIN nodes \cap keep)
  BY <1>0, <1>8, KeptIs
<1>10. PICK l \in Nat : l = Len(r) /\ DOMAIN r = 1..l
  OBVIOUS
<1>11. /\ \A j \in 1..l : p[j] \in DOMAIN nodes /\ nodes[p[j]].id \notin ns /\ r[j] = nodes[p[j]]
       /\ \A j \in DOMAIN nodes : nodes[j].id \notin ns => \E q \in 1..l : p[q] = j
  BY <1>7, <1>9, <1>10 DEF KeptFrom
<1>12. \A j, q \in 1..l : p[j] = p[q] => j = q
  <2>1. \A j, q \in 1..l : j < q => p[j] < p[q]
    BY <1>9, <1>10 DEF KeptFrom
  <2>2. \A j \in 1..l : p[j] \in Nat
    BY <1>0, <1>11
  <2>3. QED BY <2>1, <2>2
<1>13. nodes' = r /\ rows' = RowsOf(r, 0) /\ next' = next
  BY <1>6, <1>7, <1>8 DEF ShowDeleted
<1>14. PICK C : C = Children(d)
  OBVIOUS
<1>15. \A m : m \in Children(view.node)' <=> m \in C \ ns
  <2>1. /\ parent' = parent /\ name' = name
        /\ \A m : m \in deleted' <=> m \in deleted \/ \E n \in ns : m \in Below(n)
    BY <1>6 DEF Delete
  <2>2. \A m \in C : (\E n \in ns : m \in Below(n)) <=> m \in ns
    BY <1>0, <1>4, <1>14, BelowChildren
  <2>3. \A m : m \in Children(view.node)' <=> m \in C /\ m \notin deleted'
    BY <1>2, <1>14, <2>1 DEF Children, Exists
  <2>4. \A m \in C : m \notin deleted
    BY <1>14 DEF Children, Exists
  <2>5. QED BY <2>1, <2>2, <2>3, <2>4
<1>16. name' = name
  BY <1>6 DEF Delete
<1>17. Truthful(nodes, d) /\ Distinct(nodes)
  BY <1>2 DEF ListOK
<1>18. ListOK'
  <2>1. Truthful(nodes, view.node)'
    BY <1>10, <1>11, <1>13, <1>14, <1>15, <1>16, <1>17 DEF Truthful
  <2>2. Distinct(nodes)'
    BY <1>10, <1>11, <1>12, <1>13, <1>17 DEF Distinct
  <2>3. QED BY <1>13, <2>1, <2>2 DEF ListOK
<1>19. NoNav' => PageOK'
  <2>1. Before(nodes, d, next.from) => Before(nodes, view.node, next.from)'
    <3>1. PICK D : D = Children(view.node)'
      OBVIOUS
    <3>2. ASSUME NEW n PROVE Cardinality({m \in D : Precedes(m, n)'}) <= Position(n, d)
      <4>1. {m \in D : Precedes(m, n)'} \subseteq {m \in C : Precedes(m, n)}
        BY <1>15, <1>16, <3>1 DEF Precedes
      <4>2. IsFiniteSet({m \in C : Precedes(m, n)})
        BY <1>14, NodesAssumption, FS_Subset DEF Children
      <4>3. QED BY <1>14, <4>1, <4>2, FS_Subset DEF Position
    <3>3. \A n : Cardinality({m \in D : Precedes(m, n)'}) \in Nat /\ Position(n, d) \in Nat
      <4>1. IsFiniteSet(D)
        BY <1>14, <1>15, <3>1, NodesAssumption, FS_Subset DEF Children
      <4>2. \A n : IsFiniteSet({m \in D : Precedes(m, n)'})
        BY <4>1, FS_Subset
      <4>3. QED BY <4>2, FS_CardinalityType, PositionIs
    <3>4. ASSUME Before(nodes, d, next.from), NEW j \in 1..l
          PROVE  Cardinality({m \in D : Precedes(m, r[j].id)'}) < next.from
      <4>1. Position(r[j].id, d) < next.from
        BY <1>11, <3>4 DEF Before
      <4>2. PICK x \in Nat : x = Cardinality({m \in D : Precedes(m, r[j].id)'})
        BY <3>3
      <4>3. PICK y \in Nat : y = Position(r[j].id, d)
        BY <3>3
      <4>4. x <= y
        BY <3>2, <4>2, <4>3
      <4>5. QED BY <1>0, <4>1, <4>2, <4>3, <4>4
    <3>5. QED BY <1>10, <1>13, <3>1, <3>4 DEF Before, Position
  <2>2. Whole(nodes, d) => Whole(nodes, view.node)'
    BY <1>10, <1>11, <1>13, <1>14, <1>15 DEF Whole, Has
  <2>3. CASE next.from > 0
    <3>1. "delete" \in shifted' /\ ("rename" \in shifted => "rename" \in shifted') /\ next'.from > 0
      BY <1>6, <1>13, <2>3 DEF Shifting
    <3>2. next'.from = next.from
      BY <1>13
    <3>3. PageOK => PageOK'
      BY <1>0, <1>2, <2>1, <2>3, <3>1, <3>2 DEF PageOK
    <3>4. QED BY <3>3
  <2>4. CASE ~ (next.from > 0)
    <3>1. torn' = torn /\ next'.from = next.from /\ ~ (next'.from > 0)
      BY <1>6, <1>13, <2>4 DEF Shifting
    <3>2. PageOK => PageOK'
      BY <1>2, <2>2, <3>1 DEF PageOK
    <3>3. QED BY <3>2
  <2>5. QED BY <2>3, <2>4
<1>20. QED BY <1>18, <1>19

(* A change of directory that does not go astray is under way.              *)
LEMMA ChangeGoes ==
    ASSUME NEW others \in Seq(Call), NEW up, NEW id \in Nodes \cup {None},
           NEW n \in Nodes \cup {None}, NEW p \in Path, NEW push \in BOOLEAN,
           ChangeWhen(up, others, id, n, p, push), ~astray'
    PROVE  ~NoNav'
<1> DEFINE call == [Ask(IF n # None THEN "list" ELSE "node",
                        IF n # None THEN n ELSE id) EXCEPT !.path = p, !.push = push]
           fails == ~up \/ call.node = None
<1>1. ~fails /\ calls' = Append(others, call)
  <2>1. /\ astray' = (astray \/ fails)
        /\ calls' = IF fails THEN others ELSE Append(others, call)
    BY DEF ChangeWhen
  <2> HIDE DEF fails, call
  <2>2. ~fails
    BY <2>1, Zenon
  <2>3. QED BY <2>1, <2>2
<1>2. PICK a \in Call : a = Ask(IF n # None THEN "list" ELSE "node", IF n # None THEN n ELSE id)
  <2>1. (IF n # None THEN "list" ELSE "node") \in Op
    BY DEF Op
  <2>2. QED BY <2>1, AskTyped
<1>3. a.op \in Nav
  BY <1>2 DEF Ask, Nav
<1>4. call = [a EXCEPT !.path = p, !.push = push] /\ call.op = a.op /\ call \in Call
  BY <1>2 DEF Call
<1> HIDE DEF call, fails
<1>5. PICK l \in Nat : l = Len(others)
  OBVIOUS
<1>6. l + 1 \in DOMAIN Append(others, call) /\ Append(others, call)[l + 1] = call
  BY <1>4, <1>5
<1>7. IsNav(call)
  BY <1>3, <1>4 DEF IsNav
<1>8. \E j \in DOMAIN calls' : IsNav(calls'[j])
  BY <1>1, <1>6, <1>7
<1>9. QED BY <1>8 DEF NoNav, IsNav

(* A creation that did not go astray has the directory asked for.           *)
LEMMA CreationGoes ==
    ASSUME Typed, NEW i \in DOMAIN calls, AnswerCreate(i), ~astray'
    PROVE  \/ UNCHANGED api /\ calls' = Answered(i) /\ Respond(calls[i].op, FALSE)
           \/ /\ \E d, kind, nm : Create(d, kind, nm) /\ MayCreate(d, kind, nm)
              /\ ~NoNav' /\ Respond(calls[i].op, TRUE)
<1>0. calls \in Seq(Call) /\ here \in Place /\ Org \in Nodes /\ Answered(i) \in Seq(Call)
  <2>1. calls \in Seq(Call) /\ here \in Place
    BY DEF Typed, CallsKnown, ViewKnown
  <2>2. QED BY <2>1, AnsweredIs, NodesAssumption
<1>1. PICK c \in Call : c = calls[i]
  BY <1>0
<1>2. PICK p \in Path : p = here.path
  BY <1>0 DEF Place
<1>3. PICK o \in Seq(Call) : o = Append(Answered(i), Ask("children", Org))
  <2>1. "children" \in Op
    BY DEF Op
  <2>2. Ask("children", Org) \in Call
    BY <1>0, <2>1, AskTyped
  <2>3. Append(Answered(i), Ask("children", Org)) \in Seq(Call)
    BY <1>0, <2>2
  <2>4. QED BY <2>3
<1>4. ASSUME NEW others \in Seq(Call), NEW n \in Nodes \cup {None}, Change(others, None, n, p, TRUE)
      PROVE  ~NoNav'
  <2>1. PICK id \in Nodes \cup {None} : id = None
    OBVIOUS
  <2>2. ChangeWhen(ready, others, id, n, p, TRUE)
    BY <1>4, <2>1 DEF Change
  <2>3. QED BY <2>2, ChangeGoes
<1>5. ASSUME Change(Answered(i), None, c.node, here.path, TRUE) PROVE ~NoNav'
  <2>1. PICK n \in Nodes \cup {None} : n = c.node
    BY DEF Call
  <2>2. PICK s \in Seq(Call) : s = Answered(i)
    BY <1>0
  <2>3. Change(s, None, n, p, TRUE)
    BY <1>2, <1>5, <2>1, <2>2
  <2>4. QED BY <1>4, <2>3
<1>6. ASSUME Change(Append(Answered(i), Ask("children", Org)), None, here.node, here.path, TRUE)
      PROVE  ~NoNav'
  <2>1. PICK n \in Nodes \cup {None} : n = here.node
    BY <1>0 DEF Place
  <2>2. Change(o, None, n, p, TRUE)
    BY <1>2, <1>3, <1>6, <2>1
  <2>3. QED BY <1>4, <2>2
<1>7. \/ UNCHANGED api /\ calls' = Answered(i) /\ Respond(c.op, FALSE)
      \/ /\ \E d, kind, nm : Create(d, kind, nm) /\ MayCreate(d, kind, nm)
         /\ Respond(c.op, TRUE)
         /\ \/ Change(Answered(i), None, c.node, here.path, TRUE)
            \/ Change(Append(Answered(i), Ask("children", Org)), None, here.node, here.path, TRUE)
  BY <1>1 DEF AnswerCreate
<1>8. QED BY <1>1, <1>5, <1>6, <1>7

(* A new node changes nothing in the table, as it is not in it.             *)
LEMMA CreatedTrue ==
    ASSUME Typed, NEW i \in DOMAIN calls, AnswerCreate(i), ~astray',
           ListOK, NoNav => PageOK, NoNav' => NoNav, past'.entries = past.entries
    PROVE  ListOK' /\ (NoNav' => PageOK')
<1>0. ApiTypeOK /\ Org \in Nodes
  BY NodesAssumption DEF Typed, ApiKnown
<1>1. UNCHANGED <<nodes, rows, next, shifted, torn, view>>
  BY DEF AnswerCreate, list, shifts
<1>2. CASE UNCHANGED api
  BY <1>1, <1>2, SameTrue
<1>3. ASSUME NEW d, NEW kind, NEW nm, Create(d, kind, nm), MayCreate(d, kind, nm) PROVE ListOK'
  <2>1. PICK n : n = Min(Spare(kind))
    OBVIOUS
  <2>2. n \in Nodes /\ parent[n] = None
    <3>1. Spare(kind) \in SUBSET Nat /\ Spare(kind) # {}
      BY <1>3, NodesAssumption DEF Spare, MayCreate
    <3>2. n \in Spare(kind)
      BY <2>1, <3>1, MinIs
    <3>3. QED BY <3>2 DEF Spare
  <2>3. /\ deleted' = deleted
        /\ \A m \in Nodes : parent[m] # None => parent'[m] = parent[m] /\ name'[m] = name[m]
    BY <1>0, <1>3, <2>1, <2>2 DEF Create, ApiTypeOK
  <2>4. PICK e : e = view.node
    OBVIOUS
  <2>5. \A m \in Children(e) : m \in Children(view.node)' /\ name'[m] = name[m]
    BY <1>1, <2>3, <2>4 DEF Children, Exists
  <2>6. Truthful(nodes, view.node)'
    BY <1>1, <2>4, <2>5 DEF ListOK, Truthful
  <2>7. QED BY <1>1, <2>6 DEF ListOK, Distinct
<1>4. QED BY <1>2, <1>3, CreationGoes

(* The names that are hidden are those of what is moved.                    *)
Named(ns) == {name[n] : n \in ns}
PopOK ==
    /\ pop.open => /\ pop.names \subseteq Named(pop.chosen)
                   /\ pop.chosen # {} => pop.cells \subseteq Named(pop.chosen)
    /\ \A i \in DOMAIN calls : calls[i].op = "move" =>
          /\ calls[i].names \subseteq Named(calls[i].nodes)
          /\ pop.open => pop.chosen \subseteq calls[i].nodes

(* If nothing could be moved, nothing leaves the table.                     *)
LEMMA MovedNothing ==
    ASSUME Typed, NEW i \in DOMAIN calls, AnswerMove(i), moved' = {}, PopOK
    PROVE  /\ UNCHANGED <<parent, name, deleted, nodes, rows, next, details, shifts>>
           /\ Moved(calls[i].nodes, calls[i].nodes)
<1>0. /\ ApiTypeOK /\ ListKnown /\ nodes \in Seq(Object) /\ rows \in Seq(Row)
  BY DEF Typed, ApiKnown, ListKnown, ListTypeOK
<1>1. PICK c : c = calls[i]
  OBVIOUS
<1>2. c.op = "move" /\ c.names \subseteq Named(c.nodes)
  BY <1>1 DEF AnswerMove, PopOK
<1> DEFINE ok == {n \in c.nodes : MayMove(n, c.node)}
           hide == c.names \ {name[n] : n \in c.nodes \ ok}
           folders == {n \in ok : Kind[n] # "FILE"}
           reached == IF folders \cup {c.node} \subseteq DOMAIN tree THEN folders
                      ELSE {n \in folders : \A x \in folders : ~Precedes(x, n)}
<1>3. /\ Move(ok, c.node) /\ Moved(c.nodes, c.nodes \ ok) /\ moved' = moved \cup ok
      /\ UNCHANGED shifts
      /\ UNCHANGED list \/ ShowMoved(IF c.same THEN reached ELSE {}, hide)
  BY <1>1 DEF AnswerMove
<1>4. ok = {}
  <2> HIDE DEF ok
  <2>1. QED BY <1>3
<1>5. c.nodes \ ok = c.nodes
  BY <1>4
<1>6. hide = {}
  BY <1>2, <1>5 DEF Named
<1>7. (IF c.same THEN reached ELSE {}) = {}
  <2>1. folders = {}
    BY <1>4
  <2> HIDE DEF folders
  <2>2. reached = {}
    BY <2>1
  <2> HIDE DEF reached
  <2>3. QED BY <2>2
<1> HIDE DEF ok, hide, reached, folders
<1>8. parent' = parent /\ name' = name /\ deleted' = deleted
  BY <1>0, <1>3, <1>4 DEF Move, ApiTypeOK
<1>9. CASE UNCHANGED list
  BY <1>1, <1>3, <1>5, <1>8, <1>9 DEF list
<1>10. ASSUME ShowMoved({}, {}) PROVE UNCHANGED list
  <2>1. PICK a : a = {j \in DOMAIN rows : rows[j].name \notin {}}
    OBVIOUS
  <2>2. PICK b : b = {j \in DOMAIN nodes : nodes[j].id \notin {} \/ Kind[nodes[j].id] = "FILE"}
    OBVIOUS
  <2>3. DOMAIN rows \subseteq a /\ DOMAIN nodes \subseteq b
    BY <2>1, <2>2
  <2>4. rows' = Kept(rows, a) /\ nodes' = Kept(nodes, b) /\ UNCHANGED <<next, details>>
    BY <1>10, <2>1, <2>2 DEF ShowMoved
  <2>5. QED BY <1>0, <2>3, <2>4, KeptIs DEF list
<1>11. QED BY <1>3, <1>6, <1>7, <1>9, <1>10

(* Nothing is forgotten of a page before the directory is shown anew.       *)
LEMMA TornGrows ==
    ASSUME Next, \A i \in DOMAIN calls : ~AnswerList(i)
    PROVE  torn \subseteq torn'
<1>1. CASE UNCHANGED shifts
  BY <1>1 DEF shifts
<1>2. ASSUME NEW i \in DOMAIN calls, AnswerMore(i) \/ AnswerRename(i) \/ AnswerDelete(i)
      PROVE  torn \subseteq torn'
  BY <1>2 DEF AnswerMore, AnswerRename, AnswerDelete, Shifting, shifts
<1>3. QED BY <1>1, <1>2, WhoChanges DEF WhoStatement, ShiftsChange

(* The table stays true in every step.                                      *)
LEMMA TrueStep ==
    ASSUME Typed, Next, ~astray', moved' = {}, "rename" \notin torn', OwnRequests, CallsShow,
           CallsHeld, MoreOK, UniqueNames(parent, name),
           "rename" \notin torn => ListOK /\ (NoNav => PageOK) /\ HoldsOK /\ PopOK
    PROVE  ListOK' /\ (NoNav' => PageOK')
<1>1. CASE \E i \in DOMAIN calls : AnswerList(i)
  BY <1>1, ListedTrue
<1>2. CASE \A i \in DOMAIN calls : ~AnswerList(i)
  <2>1. view' = view /\ past'.entries = past.entries /\ (NoNav' => NoNav)
    BY <1>2, ViewStays, NavLeft
  <2>2. "rename" \notin torn
    BY <1>2, TornGrows
  <2>3. ListOK /\ (NoNav => PageOK) /\ HoldsOK /\ PopOK
    BY <2>2
  <2>4. ListKnown'
    BY ListStep
  <2>5. ASSUME NEW i \in DOMAIN calls, AnswerMore(i) PROVE ListOK' /\ (NoNav' => PageOK')
    BY <2>1, <2>3, <2>5, MoreTrue
  <2>6. ASSUME NEW i \in DOMAIN calls, AnswerRename(i) PROVE ListOK' /\ (NoNav' => PageOK')
    BY <2>1, <2>3, <2>4, <2>6, RenamedTrue
  <2>7. ASSUME NEW i \in DOMAIN calls, AnswerDelete(i) PROVE ListOK' /\ (NoNav' => PageOK')
    BY <2>1, <2>3, <2>7, DeletedTrue
  <2>8. ASSUME NEW i \in DOMAIN calls, AnswerCreate(i) PROVE ListOK' /\ (NoNav' => PageOK')
    BY <2>1, <2>3, <2>8, CreatedTrue
  <2>9. ASSUME NEW i \in DOMAIN calls, AnswerMove(i) PROVE ListOK' /\ (NoNav' => PageOK')
    <3>1. UNCHANGED <<parent, name, deleted, nodes, rows, next, shifts>>
      BY <2>3, <2>9, MovedNothing
    <3>2. UNCHANGED <<api, nodes, rows, next, shifted, torn>>
      BY <3>1 DEF api, shifts
    <3>3. QED BY <2>1, <2>3, <3>2, SameTrue
  <2>10. CASE \A i \in DOMAIN calls : /\ ~AnswerMore(i) /\ ~AnswerRename(i) /\ ~AnswerDelete(i)
                                      /\ ~AnswerCreate(i) /\ ~AnswerMove(i)
    <3>1. UNCHANGED api /\ UNCHANGED shifts
      BY <1>2, <2>10, WhoChanges DEF WhoStatement, ApiChanges, ShiftsChange
    <3>2. UNCHANGED list \/ \E i \in DOMAIN rows : Focus(NodeOfRow(i))
      BY <1>2, <2>10, WhoChanges DEF WhoStatement, ListChanges, AskRename, AskDelete, AskMove, Menu
    <3>3. UNCHANGED <<api, nodes, rows, next, shifted, torn>>
      BY <3>1, <3>2 DEF list, Focus, shifts
    <3>4. QED BY <2>1, <2>3, <3>3, SameTrue
  <2>11. QED BY <2>5, <2>6, <2>7, <2>8, <2>9, <2>10
<1>3. QED BY <1>1, <1>2

(* In a table that is true a row stands for the object at its place.        *)
LEMMA RowLeads ==
    ASSUME Typed, ListOK, NEW i \in DOMAIN rows
    PROVE  /\ i \in DOMAIN nodes /\ nodes[i].id # None /\ nodes[i].id \in Nodes
           /\ rows[i].at = i /\ NodeOfRow(i) = nodes[i].id
           /\ rows[i].name = nodes[i].name /\ nodes[i].name = name[nodes[i].id]
<1>1. nodes \in Seq(Object)
  BY DEF Typed, ListKnown, ListTypeOK
<1>2. i \in DOMAIN nodes /\ rows[i] = [at |-> 0 + i, id |-> nodes[i].id, name |-> nodes[i].name]
  BY DEF ListOK, RowsOf
<1>3. i \in Nat /\ 0 + i = i
  BY <1>1, <1>2
<1>4. rows[i].at = i /\ rows[i].name = nodes[i].name
  BY <1>2, <1>3
<1>5. nodes[i] \in Object
  BY <1>1, <1>2
<1>6. nodes[i].id \in Nodes /\ nodes[i].id # None
  BY <1>5, NodesAssumption DEF Object
<1>7. nodes[i].name = name[nodes[i].id]
  BY <1>2 DEF ListOK, Truthful
<1>8. QED BY <1>2, <1>4, <1>6, <1>7 DEF NodeOfRow

(* What the dialogs hold stays in the table.                                *)
LEMMA HoldsStep ==
    ASSUME Typed, Next, \A i \in DOMAIN calls : ~AnswerList(i),
           Shut, OneDialog, OwnRequests, CallsHeld, ListOK, HoldsOK
    PROVE  HoldsOK'
<1>0. held \in [Modal -> Held]
  BY DEF Typed, HeldKnown, DialogsTypeOK
<1>1. ASSUME NEW i \in DOMAIN rows, AskRename(i) PROVE HoldsOK'
  <2>1. PICK o : o = nodes[rows[i].at]
    OBVIOUS
  <2>2. open = {} /\ nodes' = nodes /\ details' = NodeOfRow(i)
        /\ OpenDialog("rename", [nodes |-> {o.id}, was |-> o.name, text |-> o.name])
    BY <1>1, <2>1 DEF AskRename, Menu, Free, Focus
  <2>3. i \in DOMAIN nodes /\ o = nodes[i] /\ NodeOfRow(i) = nodes[i].id
    BY <2>1, RowLeads
  <2>4. open' = {"rename"} /\ held'["rename"] = [nodes |-> {o.id}, was |-> o.name, text |-> o.name]
    BY <1>0, <2>2 DEF OpenDialog, Modal
  <2>5. QED BY <2>2, <2>3, <2>4 DEF HoldsOK
<1>2. ASSUME NEW i \in DOMAIN rows, NEW rs \in SelectedRows(i), AskDelete(i, rs) PROVE HoldsOK'
  <2>1. PICK ns : ns = {NodeOfRow(r) : r \in rs}
    OBVIOUS
  <2>2. open = {} /\ nodes' = nodes /\ OpenDialog("delete", [Empty EXCEPT !.nodes = ns])
    BY <1>2, <2>1 DEF AskDelete, Menu, Free, Focus
  <2>3. open' = {"delete"} /\ held'["delete"].nodes = ns
    BY <1>0, <2>2 DEF OpenDialog, Modal, Empty
  <2>4. \A r \in rs : r \in DOMAIN nodes /\ NodeOfRow(r) = nodes[r].id
    BY RowLeads DEF SelectedRows
  <2>5. \A n \in ns : Has(nodes, n)
    BY <2>1, <2>4 DEF Has
  <2>6. QED BY <2>2, <2>3, <2>5 DEF HoldsOK, Has
<1>3. ASSUME open' = {} PROVE HoldsOK'
  BY <1>3 DEF HoldsOK
<1>4. ASSUME NEW i \in DOMAIN rows, NEW rs \in SelectedRows(i), AskMove(i, rs) PROVE HoldsOK'
  BY <1>3, <1>4 DEF AskMove, Menu, Free, dialogs
<1>5. ASSUME NEW m \in {"collection", "folder"}, AskNew(m) PROVE HoldsOK'
  <2>1. open' = {m}
    BY <1>5 DEF AskNew, Free, OpenDialog
  <2>2. QED BY <2>1 DEF HoldsOK
<1>6. ASSUME UNCHANGED list, open' \subseteq open,
             \A x \in open' \cap Modal : held'[x].nodes = held[x].nodes /\ held'[x].was = held[x].was
      PROVE  HoldsOK'
  BY <1>6 DEF HoldsOK, Has, list, Modal
<1>7. ASSUME NEW m \in Modal, CancelDialog(m) \/ EscapeDialog(m) PROVE HoldsOK'
  <2>1. UNCHANGED list /\ open' = open \ {m} /\ (held' = held \/ Forget({m}))
    BY <1>7 DEF CancelDialog, EscapeDialog, Cancel, CloseByEscape
  <2>2. \A x \in Modal \ {m} : held'[x] = held[x]
    BY <2>1 DEF Forget
  <2>3. QED BY <1>6, <2>1, <2>2
<1>8. ASSUME NEW m \in Modal, NEW text \in Names, SubmitByClick(m, text) \/ SubmitByEnter(m, text)
      PROVE  HoldsOK'
  <2>1. UNCHANGED list /\ open' \subseteq open /\ \E a : held' = [held EXCEPT ![m].text = a]
    BY <1>8 DEF SubmitByClick, SubmitByEnter, Submitting, Submit
  <2>2. \A x \in Modal : held'[x].nodes = held[x].nodes /\ held'[x].was = held[x].was
    BY <1>0, <2>1 DEF Held
  <2>3. QED BY <1>6, <2>1, <2>2
<1>9. ASSUME NEW i \in DOMAIN calls, calls[i].op \in Modal, Respond(calls[i].op, TRUE) PROVE HoldsOK'
  <2>1. open = {calls[i].op}
    BY <1>9 DEF OwnRequests, OneDialog
  <2>2. open' = {}
    BY <1>9, <2>1 DEF Respond
  <2>3. QED BY <1>3, <2>2
<1>10. ASSUME NEW m, Respond(m, FALSE), UNCHANGED list PROVE HoldsOK'
  <2>1. open' = open /\ \A x \in Modal : held'[x] = held[x]
    BY <1>10 DEF Respond, Forget
  <2>2. QED BY <1>6, <1>10, <2>1
<1>11. ASSUME NEW i \in DOMAIN calls, AnswerCreate(i) PROVE HoldsOK'
  BY <1>9, <1>10, <1>11 DEF AnswerCreate, Modal
<1>12. ASSUME NEW i \in DOMAIN calls, AnswerRename(i) PROVE HoldsOK'
  BY <1>9, <1>10, <1>12 DEF AnswerRename, Modal
<1>13. ASSUME NEW i \in DOMAIN calls, AnswerDelete(i) PROVE HoldsOK'
  <2> DEFINE wrong == {n \in calls[i].nodes : ~Exists(n)}
  <2>1. calls[i].op = "delete" /\ Respond("delete", wrong = {})
    BY <1>13 DEF AnswerDelete
  <2>2. wrong = {}
    BY <2>1, AllThere
  <2> HIDE DEF wrong
  <2>3. calls[i].op \in Modal /\ Respond(calls[i].op, TRUE)
    BY <2>1, <2>2 DEF Modal
  <2>4. QED BY <1>9, <2>3
<1>14. ASSUME NEW i \in DOMAIN calls, AnswerMore(i) \/ AnswerMove(i) PROVE HoldsOK'
  <2>1. open = {} /\ UNCHANGED dialogs
    BY <1>14 DEF AnswerMore, AnswerMove, Shut, Modal
  <2>2. QED BY <1>3, <2>1 DEF dialogs
<1>15. CASE UNCHANGED dialogs /\ UNCHANGED list
  BY <1>6, <1>15 DEF dialogs
<1>16. QED BY <1>1, <1>2, <1>4, <1>5, <1>7, <1>8, <1>11, <1>12, <1>13, <1>14, <1>15, WhoChanges
       DEF WhoStatement, ListChanges, DialogsChange

(* Neither a dialog nor another request is there beside a move.             *)
LEMMA MoveIsAlone ==
    ASSUME Typed, Shut, NEW k \in DOMAIN calls, calls[k].op = "move"
    PROVE  /\ open = {}
           /\ \A q \in DOMAIN calls : calls[q].op # "listing" => q = k
BY DEF Shut, Modal

(* Names stay as they are while something is to be moved.                   *)
LEMMA NamesKept ==
    ASSUME Typed, Next, Shut, pop.open \/ \E k \in DOMAIN calls : calls[k].op = "move"
    PROVE  name' = name
<1>1. ASSUME NEW i \in DOMAIN calls, AnswerCreate(i) \/ AnswerRename(i) PROVE FALSE
  <2>1. calls[i].op \in {"collection", "folder", "rename"}
    BY <1>1 DEF AnswerCreate, AnswerRename
  <2>2. CASE pop.open
    BY <2>1, <2>2 DEF Shut
  <2>3. ASSUME NEW k \in DOMAIN calls, calls[k].op = "move" PROVE FALSE
    BY <2>1, <2>3, MoveIsAlone
  <2>4. QED BY <2>2, <2>3
<1>2. ASSUME NEW i \in DOMAIN calls, AnswerDelete(i) \/ AnswerMove(i) PROVE name' = name
  BY <1>2 DEF AnswerDelete, AnswerMove, Delete, Move
<1>3. QED BY <1>1, <1>2, WhoChanges DEF WhoStatement, ApiChanges, api

(* The part of that which is about the popover.                             *)
PopHolds == pop.open => /\ pop.names \subseteq Named(pop.chosen)
                        /\ pop.chosen # {} => pop.cells \subseteq Named(pop.chosen)

(* The popover keeps the names of what it has.                              *)
LEMMA PopStays ==
    ASSUME Typed, Next, \A i \in DOMAIN calls : ~AnswerList(i), moved' = {},
           Shut, OwnRequests, ListOK, PopOK
    PROVE  PopHolds'
<1>0. pop \in Pops
  BY DEF Typed, PopKnown, PopTypeOK, Pops
<1>1. ASSUME ~pop'.open PROVE PopHolds'
  BY <1>1 DEF PopHolds
<1>2. ASSUME NEW i \in DOMAIN rows, NEW rs \in SelectedRows(i), AskMove(i, rs) PROVE PopHolds'
  <2>1. name' = name /\ OpenMove(i, rs)
    BY <1>2 DEF AskMove, Opening, api
  <2>2. \A r \in rs : rows[r].name = name[NodeOfRow(r)]
    BY RowLeads DEF SelectedRows
  <2>3. PICK ns : ns = {NodeOfRow(r) : r \in rs}
    OBVIOUS
  <2>4. PICK nm : nm = {rows[r].name : r \in rs}
    OBVIOUS
  <2>5. nm \subseteq Named(ns)
    BY <2>2, <2>3, <2>4 DEF Named
  <2>6. pop'.chosen = ns /\ pop'.names = nm /\ pop'.cells = nm
    BY <2>1, <2>3, <2>4 DEF OpenMove
  <2>7. QED BY <2>1, <2>5, <2>6 DEF PopHolds, Named
<1>3. ASSUME pop.open, pop'.chosen = pop.chosen, pop'.cells = pop.cells,
             \/ pop'.names = pop.names
             \/ pop'.names = pop.cells /\ pop.chosen # {}
      PROVE  PopHolds'
  <2>1. name' = name
    BY <1>3, NamesKept
  <2>2. QED BY <1>3, <2>1 DEF PopHolds, PopOK, Named
<1>4. ASSUME NEW d, Pick(d) PROVE PopHolds'
  <2>1. pop.open /\ pop' = [pop EXCEPT !.dest = d]
    BY <1>4 DEF Pick
  <2>2. pop'.chosen = pop.chosen /\ pop'.cells = pop.cells /\ pop'.names = pop.names
    BY <1>0, <2>1 DEF Pops
  <2>3. QED BY <1>3, <2>1, <2>2
<1>5. CASE CloseMove
  BY <1>1, <1>5 DEF CloseMove, Closed
<1>6. ASSUME NEW d, ShowListing(d), ~UNCHANGED pop PROVE PopHolds'
  <2>1. /\ pop.open /\ pop.chosen # {}
        /\ pop' = [pop EXCEPT !.at = d, !.listed = Folders(Page(d, 0).results),
                              !.dest = None, !.names = pop.cells, !.fresh = TRUE]
    BY <1>6 DEF ShowListing
  <2>2. pop'.chosen = pop.chosen /\ pop'.cells = pop.cells /\ pop'.names = pop.cells
    BY <1>0, <2>1 DEF Pops
  <2>3. QED BY <1>3, <2>1, <2>2
<1>7. ASSUME NEW i \in DOMAIN calls, AnswerDelete(i) PROVE PopHolds'
  <2>1. calls[i].op = "delete"
    BY <1>7 DEF AnswerDelete
  <2>2. ~pop.open
    BY <2>1 DEF Shut
  <2>3. ~pop'.open
    BY <1>7, <2>2, AnswersShut DEF Answer
  <2>4. QED BY <1>1, <2>3
<1>8. ASSUME NEW i \in DOMAIN calls, AnswerMove(i) PROVE PopHolds'
  <2>1. PICK ns : ns = calls[i].nodes
    OBVIOUS
  <2>2. Moved(ns, ns) /\ name' = name
    BY <1>8, <2>1, MovedNothing
  <2>3. CASE pop.open /\ ns # {}
    <3>1. pop.names \subseteq Named(pop.chosen) /\ pop.chosen \subseteq ns
      BY <1>8, <2>1, <2>3 DEF PopOK, AnswerMove
    <3>2. pop' = [pop EXCEPT !.chosen = @ \ ns, !.names = @ \ {name[n] : n \in ns}]
      BY <2>2, <2>3 DEF Moved
    <3>3. pop'.chosen = pop.chosen \ ns /\ pop'.names = pop.names \ {name[n] : n \in ns}
      BY <1>0, <3>2 DEF Pops
    <3>4. pop'.chosen = {} /\ pop'.names = {}
      BY <3>1, <3>3 DEF Named
    <3>5. QED BY <3>4 DEF PopHolds
  <2>4. CASE ~pop.open \/ ns = {}
    <3>1. ~pop'.open
      <4>1. CASE ~pop.open
        BY <1>8, <4>1, AnswersShut DEF Answer
      <4>2. CASE ns = {}
        BY <2>2, <4>2 DEF Moved, Closed
      <4>3. QED BY <2>4, <4>1, <4>2
    <3>2. QED BY <1>1, <3>1
  <2>5. QED BY <2>3, <2>4
<1>9. CASE UNCHANGED pop
  <2>1. CASE pop.open
    BY <1>3, <1>9, <2>1
  <2>2. QED BY <1>1, <1>9, <2>1
<1>10. QED BY <1>2, <1>4, <1>5, <1>6, <1>7, <1>8, <1>9, WhoChanges
       DEF WhoStatement, PopChanges, PickFolder, ClosePopover, AnswerListing

(* So does the request to move it.                                          *)
LEMMA MovesStay ==
    ASSUME Typed, ReadyKnown, Next, ~hurried', Shut, PopOK
    PROVE  \A j \in DOMAIN calls' : calls'[j].op = "move" =>
              /\ calls'[j].names \subseteq {name'[n] : n \in calls'[j].nodes}
              /\ pop'.open => pop'.chosen \subseteq calls'[j].nodes
<1>0. pop \in Pops
  BY DEF Typed, PopKnown, PopTypeOK, Pops
<1>1. PICK t, i : Sending(t, i)
  BY StepSends
<1>2. SUFFICES ASSUME NEW j \in DOMAIN calls', calls'[j].op = "move"
               PROVE  /\ calls'[j].names \subseteq {name'[n] : n \in calls'[j].nodes}
                      /\ pop'.open => pop'.chosen \subseteq calls'[j].nodes
  OBVIOUS
<1>3. CASE \E m \in DOMAIN t : calls'[j] = t[m]
  <2>1. OtherAsks /\ OtherAsking(calls'[j])
    BY <1>1, <1>2, <1>3 DEF Sending
  <2>2. pop' = pop /\ name' = name
    BY <2>1 DEF OtherAsks, TreeExpand, LoadMore, MoveHere, ListFolder, page, api
  <2>3. calls'[j].nodes = pop.chosen /\ calls'[j].names = pop.names /\ pop.open
    BY <1>2, <2>1 DEF OtherAsking
  <2>4. QED BY <2>2, <2>3 DEF PopOK, Named
<1>4. ASSUME NEW k \in DOMAIN calls \ {i}, Same(calls'[j], calls[k])
      PROVE  /\ calls'[j].names \subseteq {name'[n] : n \in calls'[j].nodes}
             /\ pop'.open => pop'.chosen \subseteq calls'[j].nodes
  <2>1. calls[k].op = "move" /\ calls'[j].names = calls[k].names /\ calls'[j].nodes = calls[k].nodes
    BY <1>2, <1>4 DEF Same
  <2>2. /\ calls[k].names \subseteq Named(calls[k].nodes)
        /\ pop.open => pop.chosen \subseteq calls[k].nodes
    BY <2>1 DEF PopOK
  <2>3. name' = name
    BY <2>1, NamesKept
  <2>4. pop'.open => pop.open /\ pop'.chosen = pop.chosen
    <3>1. CASE UNCHANGED pop
      BY <3>1
    <3>2. ASSUME NEW d, Pick(d) PROVE pop.open /\ pop'.chosen = pop.chosen
      BY <1>0, <3>2 DEF Pick, Pops
    <3>3. ASSUME CloseMove PROVE ~pop'.open
      BY <3>3 DEF CloseMove, Closed
    <3>4. ASSUME NEW d, ShowListing(d), ~UNCHANGED pop PROVE pop.open /\ pop'.chosen = pop.chosen
      BY <1>0, <3>4 DEF ShowListing, Pops
    <3>5. ASSUME NEW q \in DOMAIN calls, AnswerList(q) \/ AnswerDelete(q) PROVE FALSE
      BY <2>1, <3>5, MoveIsAlone DEF AnswerList, AnswerDelete
    <3>6. ASSUME NEW q \in DOMAIN calls, AnswerMove(q) PROVE FALSE
      <4>1. \A p \in DOMAIN calls : calls[p].op # "listing" => p = k
        BY <2>1, MoveIsAlone
      <4>2. q = k /\ calls' = Answered(k)
        BY <3>6, <4>1 DEF AnswerMove
      <4>3. calls \in Seq(Call)
        BY DEF Typed, CallsKnown
      <4>4. Continues(calls', <<>>, k)
        BY <4>2, <4>3, OneAnswered
      <4>5. ~ \E m \in DOMAIN <<>> : calls'[j] = <<>>[m]
        OBVIOUS
      <4>6. \E p \in DOMAIN calls \ {k} : calls'[j].op = calls[p].op
        BY <4>4, <4>5, ComesFrom
      <4>7. QED BY <1>2, <4>1, <4>6
    <3>7. ASSUME NEW x \in DOMAIN rows, NEW rs \in SelectedRows(x), AskMove(x, rs) PROVE FALSE
      <4>1. hurried' = (hurried \/ Pending \/ ~ready)
        BY <3>7 DEF AskMove, Opening
      <4>2. ~Pending
        BY <4>1, Zenon
      <4>3. QED BY <2>1, <4>2 DEF Pending
    <3>8. QED BY <3>1, <3>2, <3>3, <3>4, <3>5, <3>6, <3>7, WhoChanges
          DEF WhoStatement, PopChanges, PickFolder, ClosePopover, AnswerListing
  <2>5. QED BY <2>1, <2>2, <2>3, <2>4 DEF Named
<1>5. QED BY <1>1, <1>3, <1>4, ComesWhole DEF Sending

(* Together.                                                                *)
LEMMA PopOKStep ==
    ASSUME Typed, ReadyKnown, Next, \A i \in DOMAIN calls : ~AnswerList(i), moved' = {}, ~hurried',
           Shut, OwnRequests, ListOK, PopOK
    PROVE  PopOK'
<1>1. PopHolds'
  BY PopStays
<1>2. \A j \in DOMAIN calls' : calls'[j].op = "move" =>
              /\ calls'[j].names \subseteq {name'[n] : n \in calls'[j].nodes}
              /\ pop'.open => pop'.chosen \subseteq calls'[j].nodes
  BY MovesStay
<1>3. QED BY <1>1, <1>2 DEF PopOK, PopHolds, Named

(* A directory that is shown anew is not in a dialog or popover yet.        *)
LEMMA ListedRest ==
    ASSUME Typed, Next, NEW i \in DOMAIN calls, AnswerList(i), Shut
    PROVE  HoldsOK' /\ PopOK'
<1>1. calls[i].op = "list" /\ UNCHANGED dialogs
  BY DEF AnswerList
<1>2. open' = {} /\ ~pop.open
  BY <1>1 DEF Shut, Modal, dialogs
<1>3. ~pop'.open
  BY <1>2, AnswersShut DEF Answer
<1>4. \A k \in DOMAIN calls : calls[k].op # "move"
  BY <1>1, MoveIsAlone
<1>5. calls \in Seq(Call)
  BY DEF Typed, CallsKnown
<1>6. Continues(Answered(i), <<>>, i)
  BY <1>5, OneAnswered
<1>7. Continues(calls', <<>>, i)
  BY <1>5, <1>6, TableRedrawn DEF AnswerList
<1>8. ASSUME NEW j \in DOMAIN calls' PROVE calls'[j].op # "move"
  <2>1. ~ \E m \in DOMAIN <<>> : calls'[j] = <<>>[m]
    OBVIOUS
  <2>2. QED BY <1>4, <1>7, <2>1, ComesFrom
<1>9. QED BY <1>2, <1>3, <1>8 DEF HoldsOK, PopOK

-----------------------------------------------------------------------------
(* What is known of the table, and of what dialogs have from it, as long as *)
(* no page was read after a rename.                                         *)
RowsOK == "rename" \notin torn => ListOK /\ (NoNav => PageOK) /\ HoldsOK /\ PopOK

(* The invariant: names are unique in a directory while nothing is moved;   *)
(* for who waits and does not use Escape the requests are those of what is  *)
(* open, they are about what it holds, and the table is true.               *)
RowsTrue ==
    /\ moved = {} => UniqueNames(parent, name)
    /\ Plain => Shut /\ CallsHeld /\ MoreOK /\ RowsOK

(* Every step keeps it.                                                     *)
LEMMA RowsStep ==
    ASSUME Typed, ReadyKnown, DialogsKnown, PlacesKnown, RowsTrue, Next
    PROVE  RowsTrue'
<1>1. ASSUME moved' = {} PROVE moved = {} /\ UniqueNames(parent, name) /\ UniqueNames(parent', name')
  <2>1. moved = {}
    BY <1>1, MovedGrows
  <2>2. UniqueNames(parent, name)
    BY <2>1 DEF RowsTrue
  <2>3. QED BY <1>1, <2>1, <2>2, NamesStay
<1>2. ASSUME Plain'
      PROVE  Shut' /\ CallsHeld' /\ MoreOK' /\ RowsOK'
  <2>1. ~hurried' /\ ~astray' /\ moved' = {}
    BY <1>2 DEF Plain
  <2>2. Plain
    BY <1>2, PlainStays
  <2>3. Shut /\ CallsHeld /\ MoreOK /\ RowsOK
    BY <2>2 DEF RowsTrue
  <2>4. OneDialog /\ OwnRequests /\ CallsShow
    BY <2>2 DEF Plain, DialogsKnown, PlacesKnown, PlacesOK
  <2>5. Shut'
    BY <2>1, <2>3, <2>4, ShutStep
  <2>6. CallsHeld'
    BY <2>1, <2>3, <2>4, CallsHeldStep
  <2>7. MoreOK'
    BY <2>3, <2>4, MoreStep
  <2>8. ASSUME "rename" \notin torn'
        PROVE  ListOK' /\ (NoNav' => PageOK') /\ HoldsOK' /\ PopOK'
    <3>1. ListOK' /\ (NoNav' => PageOK')
      <4>1. UniqueNames(parent, name)
        BY <1>1, <2>1
      <4>2. "rename" \notin torn => ListOK /\ (NoNav => PageOK) /\ HoldsOK /\ PopOK
        BY <2>3 DEF RowsOK
      <4>3. QED BY <2>1, <2>3, <2>4, <2>8, <4>1, <4>2, TrueStep
    <3>2. ASSUME NEW i \in DOMAIN calls, AnswerList(i) PROVE HoldsOK' /\ PopOK'
      BY <2>3, <3>2, ListedRest
    <3>3. CASE \A i \in DOMAIN calls : ~AnswerList(i)
      <4>1. "rename" \notin torn
        BY <2>8, <3>3, TornGrows
      <4>2. ListOK /\ HoldsOK /\ PopOK
        BY <2>3, <4>1 DEF RowsOK
      <4>3. HoldsOK'
        BY <2>3, <2>4, <3>3, <4>2, HoldsStep
      <4>4. PopOK'
        BY <2>1, <2>3, <2>4, <3>3, <4>2, PopOKStep
      <4>5. QED BY <3>1, <4>3, <4>4
    <3>4. QED BY <3>1, <3>2, <3>3
  <2>9. RowsOK'
    BY <2>8 DEF RowsOK
  <2>10. QED BY <2>5, <2>6, <2>7, <2>9
<1>3. (moved = {} => UniqueNames(parent, name))'
  BY <1>1
<1>4. QED BY <1>2, <1>3 DEF RowsTrue

(* It holds of the page that is not loaded yet: it has no rows.             *)
LEMMA RowsInit == Init => RowsTrue
<1>1. SUFFICES ASSUME Init PROVE RowsTrue
  OBVIOUS
<1>2. nodes = <<>> /\ rows = <<>> /\ next.from = 0 /\ open = {} /\ ~pop.open
  BY <1>1 DEF Init, ListInit, DialogsInit, Closed
<1>3. calls = <<>> /\ DOMAIN calls = {}
  BY <1>1 DEF Init
<1>4. Len(past.entries) = 1
  <2>1. PICK e : e = <<AtStart>> /\ past.entries = e
    BY <1>1 DEF Init
  <2>2. Len(e) = 1
    BY <2>1
  <2>3. QED BY <2>1, <2>2
<1>5. UniqueNames(parent, name)
  BY <1>1, UniqueAssumption DEF Init, ApiInit
<1>6. Shut
  BY <1>2, <1>3 DEF Shut
<1>7. CallsHeld /\ MoreOK
  BY <1>3 DEF CallsHeld, MoreOK
<1>8. ListOK
  <2>1. RowsOf(<<>>, 0) = <<>>
    BY DEF RowsOf
  <2>2. DOMAIN nodes = {}
    BY <1>2
  <2>3. QED BY <1>2, <2>1, <2>2 DEF ListOK, Truthful, Distinct
<1>9. PageOK
  BY <1>2, <1>4 DEF PageOK
<1>10. HoldsOK /\ PopOK
  BY <1>2, <1>3 DEF HoldsOK, PopOK
<1>11. QED BY <1>5, <1>6, <1>7, <1>8, <1>9, <1>10 DEF RowsTrue, RowsOK

(* Where nothing changes, nothing is lost.                                  *)
LEMMA RowsStay == RowsTrue /\ UNCHANGED vars => RowsTrue'
<1>1. SUFFICES ASSUME RowsTrue, UNCHANGED vars PROVE RowsTrue'
  OBVIOUS
<1>2. /\ UNCHANGED <<api, nodes, rows, next, details, open, held, pop, ready, view, calls, past>>
      /\ UNCHANGED <<escapes, hurried, astray, moved, shifted, torn>>
  BY <1>1 DEF vars, api
<1>3. (moved = {} => UniqueNames(parent, name))'
  BY <1>1, <1>2 DEF RowsTrue, api, UniqueNames
<1>4. ASSUME Plain' PROVE Shut' /\ CallsHeld' /\ MoreOK' /\ RowsOK'
  <2>1. Plain
    BY <1>2, <1>4 DEF Plain
  <2>2. Shut /\ CallsHeld /\ MoreOK /\ RowsOK
    BY <1>1, <2>1 DEF RowsTrue
  <2>3. Shut'
    BY <1>2, <2>2 DEF Shut
  <2>4. CallsHeld'
    BY <1>2, <2>2 DEF CallsHeld, Held1
  <2>5. MoreOK'
    BY <1>2, <2>2 DEF MoreOK
  <2>6. ASSUME "rename" \notin torn' PROVE ListOK' /\ (NoNav' => PageOK') /\ HoldsOK' /\ PopOK'
    <3>1. ListOK /\ (NoNav => PageOK) /\ HoldsOK /\ PopOK
      BY <1>2, <2>2, <2>6 DEF RowsOK
    <3>2. NoNav' => NoNav
      BY <1>2 DEF NoNav, IsNav
    <3>3. ListOK' /\ (NoNav' => PageOK')
      BY <1>2, <3>1, <3>2, SameTrue
    <3>4. HoldsOK'
      BY <1>2, <3>1 DEF HoldsOK, Has
    <3>5. PopOK'
      BY <1>2, <3>1 DEF PopOK, Named, api
    <3>6. QED BY <3>3, <3>4, <3>5
  <2>7. QED BY <2>3, <2>4, <2>5, <2>6 DEF RowsOK
<1>5. QED BY <1>3, <1>4 DEF RowsTrue

(* It is an invariant.                                                      *)
LEMMA RowsAlways == Spec => []RowsTrue
<1>1. Typed /\ ReadyKnown /\ DialogsKnown /\ PlacesKnown /\ RowsTrue /\ [Next]_vars => RowsTrue'
  BY RowsStep, RowsStay
<1>2. QED BY <1>1, RowsInit, TypedAlways, ReadyAlways, DialogsAlways, PlacesAlways, PTL DEF Spec

(* Who waits for every answer and does not use Escape sees the children of  *)
(* the directory, each once and under its name - all of them where no page  *)
(* is left and none was deleted or renamed between two pages - unless a     *)
(* request went astray, a node was moved, or a page came after a rename.    *)
THEOREM RowsAreTrue == Spec => []RowsTruthful
<1>1. Typed /\ RowsTrue => RowsTruthful
  <2>1. SUFFICES ASSUME Typed, RowsTrue, Quiet, ~astray, escapes = 0, moved = {},
                        Len(past.entries) > 1, "rename" \notin torn
                 PROVE  /\ \A i \in DOMAIN rows :
                              /\ rows[i].id \in Children(view.node)
                              /\ rows[i].name = name[rows[i].id]
                        /\ Cardinality({rows[i].id : i \in DOMAIN rows}) = Len(rows)
                        /\ next.from = 0 /\ torn = {} =>
                              \A n \in Children(view.node) : \E i \in DOMAIN rows : rows[i].id = n
    BY DEF RowsTruthful
  <2>2. ListOK /\ PageOK
    <3>1. Plain /\ NoNav
      BY <2>1 DEF Quiet, Pending, Plain, NoNav, IsNav, Nav
    <3>2. QED BY <2>1, <3>1 DEF RowsTrue, RowsOK
  <2>3. PICK q \in Nat : Len(nodes) = q /\ DOMAIN nodes = 1..q
    BY <2>1 DEF Typed, ListKnown, ListTypeOK
  <2>4. rows \in Seq(Row)
    BY <2>1 DEF Typed, ListKnown, ListTypeOK
  <2>5. DOMAIN rows = 1..q /\ \A i \in 1..q : rows[i].id = nodes[i].id /\ rows[i].name = nodes[i].name
    BY <2>2, <2>3 DEF ListOK, RowsOf
  <2>6. Len(rows) = q
    BY <2>3, <2>4, <2>5
  <2>7. \A i \in DOMAIN rows : /\ rows[i].id \in Children(view.node)
                               /\ rows[i].name = name[rows[i].id]
    BY <2>2, <2>3, <2>5 DEF ListOK, Truthful
  <2>8. Cardinality({rows[i].id : i \in DOMAIN rows}) = q
    <3>1. PICK S : S = {rows[i].id : i \in 1..q}
      OBVIOUS
    <3>2. PICK f : f = [i \in 1..q |-> rows[i].id]
      OBVIOUS
    <3>3. \A i, j \in 1..q : rows[i].id = rows[j].id => i = j
      BY <2>2, <2>3, <2>5 DEF ListOK, Distinct
    <3>4. f \in Bijection(1..q, S)
      BY <3>1, <3>2, <3>3 DEF Bijection, Injection, Surjection, IsInjective
    <3>5. IsFiniteSet(1..q) /\ Cardinality(1..q) = q
      <4>1. 1 \in Int /\ q \in Int /\ q - 1 + 1 = q
        BY <2>3
      <4>2. QED BY <2>3, <4>1, FS_Interval
    <3>6. Cardinality(1..q) = Cardinality(S)
      BY <3>4, <3>5, FS_Bijection DEF ExistsBijection
    <3>7. QED BY <2>5, <3>1, <3>5, <3>6
  <2>9. ASSUME next.from = 0, torn = {}, NEW n \in Children(view.node)
        PROVE  \E i \in DOMAIN rows : rows[i].id = n
    BY <2>1, <2>2, <2>3, <2>5, <2>9 DEF PageOK, Whole, Has
  <2>10. QED BY <2>6, <2>7, <2>8, <2>9
<1>2. QED BY <1>1, TypedAlways, RowsAlways, PTL
=============================================================================
