------------------------ MODULE WarningDepositProofs ------------------------
(***************************************************************************)
(* What holds of the answer of WarningDeposit for any paths and any tree:  *)
(* under which conditions it names the files that exist, and no others.    *)
(***************************************************************************)
EXTENDS WarningDeposit, FiniteSetTheorems, NaturalFacts, TLAPS

Folders == Seq(Int) \ {<<>>}

-----------------------------------------------------------------------------
(* Prefixes and the order of strings.                                       *)

(* What it means to be a prefix, element by element.                        *)
LEMMA PrefixIs ==
    ASSUME NEW d \in Seq(Int), NEW e \in Seq(Int)
    PROVE  IsPrefix(d, e) <=> Len(d) <= Len(e) /\ \A i \in 1..Len(d) : d[i] = e[i]
<1>1. CASE Len(d) <= Len(e)
  <2>1. /\ SubSeq(d, 1, Len(d)) = [i \in 1..Len(d) |-> d[i]]
        /\ SubSeq(e, 1, Len(d)) = [i \in 1..Len(d) |-> e[i]]
    BY <1>1
  <2>2. SubSeq(d, 1, Len(d)) = SubSeq(e, 1, Len(d)) <=> \A i \in 1..Len(d) : d[i] = e[i]
    BY <2>1
  <2>3. QED BY <1>1, <2>2 DEF IsPrefix
<1>2. QED BY <1>1 DEF IsPrefix

(* d and e agree up to i, where d comes first.                              *)
Differ(d, e, i) ==
    /\ i \in 1..Len(d) /\ i \in 1..Len(e)
    /\ \A j \in 1..(i - 1) : d[j] = e[j]
    /\ d[i] < e[i]

(* ... and to come before in the order of strings,                          *)
LEMMA BeforeIs ==
    ASSUME NEW d \in Seq(Int), NEW e \in Seq(Int)
    PROVE  Before(d, e) <=> (IsPrefix(d, e) /\ d # e) \/ (\E i \in Nat : Differ(d, e, i))
<1>1. ASSUME NEW i \in DOMAIN d \cap DOMAIN e
      PROVE  SubSeq(d, 1, i - 1) = SubSeq(e, 1, i - 1) <=> \A j \in 1..(i - 1) : d[j] = e[j]
  <2>1. i \in 1..Len(d) /\ i \in 1..Len(e)
    OBVIOUS
  <2>2. /\ SubSeq(d, 1, i - 1) = [j \in 1..(i - 1) |-> d[j]]
        /\ SubSeq(e, 1, i - 1) = [j \in 1..(i - 1) |-> e[j]]
    BY <2>1
  <2>3. QED BY <2>2
<1>2. ASSUME NEW i \in DOMAIN d \cap DOMAIN e,
             SubSeq(d, 1, i - 1) = SubSeq(e, 1, i - 1), d[i] < e[i]
      PROVE  i \in Nat /\ Differ(d, e, i)
  BY <1>1, <1>2 DEF Differ
<1>3. ASSUME NEW i \in Nat, Differ(d, e, i)
      PROVE  /\ i \in DOMAIN d \cap DOMAIN e
             /\ SubSeq(d, 1, i - 1) = SubSeq(e, 1, i - 1)
             /\ d[i] < e[i]
  <2>1. i \in DOMAIN d \cap DOMAIN e
    BY <1>3 DEF Differ
  <2>2. QED BY <1>1, <1>3, <2>1 DEF Differ
<1>4. (\E i \in DOMAIN d \cap DOMAIN e :
           SubSeq(d, 1, i - 1) = SubSeq(e, 1, i - 1) /\ d[i] < e[i])
      <=> \E i \in Nat : Differ(d, e, i)
  <2>1. ASSUME NEW i \in DOMAIN d \cap DOMAIN e,
               SubSeq(d, 1, i - 1) = SubSeq(e, 1, i - 1), d[i] < e[i]
        PROVE  \E j \in Nat : Differ(d, e, j)
    BY <1>2, <2>1
  <2>2. QED BY <1>3, <2>1
<1>5. QED BY <1>4, Zenon DEF Before, IsStrictPrefix

(* which is irreflexive,                                                    *)
LEMMA NotBeforeItself ==
    ASSUME NEW d \in Seq(Int) PROVE ~Before(d, d)
  BY BeforeIs DEF Differ

(* transitive                                                               *)
LEMMA BeforeIsTransitive ==
    ASSUME NEW d \in Seq(Int), NEW e \in Seq(Int), NEW f \in Seq(Int),
           Before(d, e), Before(e, f)
    PROVE  Before(d, f)
<1>1. /\ (IsPrefix(d, e) /\ d # e) \/ (\E i \in Nat : Differ(d, e, i))
      /\ (IsPrefix(e, f) /\ e # f) \/ (\E i \in Nat : Differ(e, f, i))
  BY BeforeIs
<1>2. CASE (IsPrefix(d, e) /\ d # e) /\ (IsPrefix(e, f) /\ e # f)
  <2>1. IsPrefix(d, f)
    <3>1. /\ Len(d) \in Nat /\ Len(e) \in Nat /\ Len(f) \in Nat
          /\ Len(d) <= Len(e) /\ Len(e) <= Len(f)
          /\ \A i \in 1..Len(d) : d[i] = e[i]
          /\ \A i \in 1..Len(e) : e[i] = f[i]
      BY <1>2, PrefixIs
    <3>2. Len(d) <= Len(f) /\ \A i \in 1..Len(d) : d[i] = f[i]
      BY <3>1
    <3>3. QED BY <3>2, PrefixIs
  <2>2. d # f
    BY <1>2, PrefixIs
  <2>3. QED BY <2>1, <2>2, BeforeIs
<1>3. ASSUME IsPrefix(d, e), d # e, NEW i \in Nat, Differ(e, f, i) PROVE Before(d, f)
  <2>1. CASE i <= Len(d)
    <3>1. Differ(d, f, i)
      BY <1>3, <2>1, PrefixIs DEF Differ
    <3>2. QED BY <3>1, BeforeIs
  <2>2. CASE ~(i <= Len(d))
    <3>1. IsPrefix(d, f)
      <4>1. /\ Len(d) \in Nat /\ Len(f) \in Nat /\ i <= Len(f)
            /\ \A j \in 1..Len(d) : d[j] = e[j]
            /\ \A j \in 1..(i - 1) : e[j] = f[j]
        BY <1>3, PrefixIs DEF Differ
      <4>2. Len(d) <= Len(f) /\ \A j \in 1..Len(d) : d[j] = f[j]
        BY <2>2, <4>1
      <4>3. QED BY <4>2, PrefixIs
    <3>2. d # f
      BY <1>3, <2>2 DEF Differ
    <3>3. QED BY <3>1, <3>2, BeforeIs
  <2>3. QED BY <2>1, <2>2
<1>4. ASSUME NEW i \in Nat, Differ(d, e, i), IsPrefix(e, f) PROVE Before(d, f)
  <2>1. Differ(d, f, i)
    BY <1>4, PrefixIs DEF Differ
  <2>2. QED BY <2>1, BeforeIs
<1>5. ASSUME NEW i \in Nat, Differ(d, e, i), NEW j \in Nat, Differ(e, f, j)
      PROVE  Before(d, f)
  <2>1. CASE i <= j
    <3>1. Differ(d, f, i)
      <4>1. /\ i \in 1..Len(f) /\ \A k \in 1..(i - 1) : d[k] = f[k]
        BY <1>5, <2>1 DEF Differ
      <4>2. d[i] < f[i]
        <5>1. /\ i \in 1..Len(d) /\ i \in 1..Len(e) /\ d[i] < e[i]
              /\ \A k \in 1..(j - 1) : e[k] = f[k]
              /\ e[j] < f[j]
          BY <1>5 DEF Differ
        <5>2. d[i] \in Int /\ e[i] \in Int /\ f[i] \in Int
          <6>1. i \in 1..Len(d) /\ i \in 1..Len(e) /\ i \in 1..Len(f)
            BY <4>1, <5>1
          <6>2. ASSUME NEW s \in Seq(Int), NEW k \in 1..Len(s) PROVE s[k] \in Int
            OBVIOUS
          <6>3. QED BY <6>1, <6>2
        <5>3. CASE i = j
          BY <5>1, <5>2, <5>3
        <5>4. CASE i < j
          <6>1. i \in 1..(j - 1)
            BY <4>1, <5>4
          <6>2. QED BY <5>1, <6>1
        <5>5. QED BY <2>1, <5>3, <5>4
      <4>3. QED BY <1>5, <4>1, <4>2 DEF Differ
    <3>2. QED BY <3>1, BeforeIs
  <2>2. CASE j < i
    <3>1. Differ(d, f, j)
      BY <1>5, <2>2 DEF Differ
    <3>2. QED BY <3>1, BeforeIs
  <2>3. QED BY <2>1, <2>2
<1>6. QED BY <1>1, <1>2, <1>3, <1>4, <1>5

(* and total.                                                               *)
LEMMA BeforeIsTotal ==
    ASSUME NEW d \in Seq(Int), NEW e \in Seq(Int), d # e
    PROVE  Before(d, e) \/ Before(e, d)
<1> DEFINE B == {i \in Nat : i \in 1..Len(d) /\ i \in 1..Len(e) /\ d[i] # e[i]}
<1>1. CASE B = {}
  <2>1. \A i \in 1..Len(d) : i \in 1..Len(e) => d[i] = e[i]
    BY <1>1
  <2>2. CASE Len(d) <= Len(e)
    <3>1. IsPrefix(d, e)
      BY <2>1, <2>2, PrefixIs
    <3>2. QED BY <3>1, BeforeIs
  <2>3. CASE Len(e) <= Len(d)
    <3>1. IsPrefix(e, d)
      BY <2>1, <2>3, PrefixIs
    <3>2. QED BY <3>1, BeforeIs
  <2>4. QED BY <2>2, <2>3
<1>2. CASE B # {}
  <2>1. PICK i \in B : \A j \in B : i <= j
    <3> HIDE DEF B
    <3>1. B \in SUBSET Nat
      BY DEF B
    <3>2. QED BY <1>2, <3>1, Least
  <2>2. /\ i \in Nat /\ i \in 1..Len(d) /\ i \in 1..Len(e) /\ d[i] # e[i]
    OBVIOUS
  <2>3. \A j \in 1..(i - 1) : d[j] = e[j]
    <3>1. TAKE j \in 1..(i - 1)
    <3>2. j \in Nat /\ j \in 1..Len(d) /\ j \in 1..Len(e) /\ ~(i <= j)
      BY <2>2
    <3>3. j \notin B
      BY <2>1, <3>2
    <3>4. QED BY <3>2, <3>3
  <2>4. Differ(d, e, i) \/ Differ(e, d, i)
    BY <2>2, <2>3 DEF Differ
  <2>5. QED BY <2>2, <2>4, BeforeIs
<1>3. QED BY <1>1, <1>2

(* What is before d but not before a folder around d is in that folder.     *)
LEMMA Between ==
    ASSUME NEW f \in Seq(Int), NEW x \in Seq(Int), NEW d \in Seq(Int),
           IsPrefix(f, d), ~Before(x, f), Before(x, d)
    PROVE  IsPrefix(f, x)
<1>1. CASE f = x
  BY <1>1, PrefixIs
<1>2. CASE f # x
  <2>1. Before(f, x)
    BY <1>2, BeforeIsTotal
  <2>2. ASSUME NEW i \in Nat, Differ(f, x, i) PROVE FALSE
    <3>1. Differ(d, x, i)
      BY <2>2, PrefixIs DEF Differ
    <3>2. Before(d, x)
      BY <3>1, BeforeIs
    <3>3. QED BY <3>2, BeforeIsTransitive, NotBeforeItself
  <2>3. QED BY <2>1, <2>2, BeforeIs
<1>3. QED BY <1>1, <1>2

(* A folder comes before those in it.                                       *)
LEMMA PrefixBefore ==
    ASSUME NEW f \in Seq(Int), NEW d \in Seq(Int), IsPrefix(f, d), f # d
    PROVE  Before(f, d) /\ ~Before(d, f)
  BY BeforeIs, BeforeIsTransitive, NotBeforeItself

-----------------------------------------------------------------------------
(* The sorted folders.                                                      *)

(* The sorted folders are all of them, each at its place.                   *)
LEMMA Sorting ==
    ASSUME NEW S \in SUBSET Seq(Int), IsFiniteSet(S), NEW n \in Nat, n = Cardinality(S)
    PROVE  /\ Sorted(S) \in [1..n -> S]
           /\ \A i, j \in 1..n : i < j <=> Before(Sorted(S)[i], Sorted(S)[j])
           /\ \A d \in S : \E i \in 1..n : Sorted(S)[i] = d
<1> DEFINE R == {r \in S \X S : Before(r[1], r[2])}
<1>1. \A d, e \in S : <<d, e>> \in R <=> Before(d, e)
  OBVIOUS
<1> HIDE DEF R
<1>2. /\ \A x \in S : <<x, x>> \notin R
      /\ \A x, y, z \in S : <<x, y>> \in R /\ <<y, z>> \in R => <<x, z>> \in R
      /\ \A x, y \in S : x = y \/ <<x, y>> \in R \/ <<y, x>> \in R
  <2>1. \A x \in S : <<x, x>> \notin R
    BY <1>1, NotBeforeItself
  <2>2. \A x, y, z \in S : <<x, y>> \in R /\ <<y, z>> \in R => <<x, z>> \in R
    BY <1>1, BeforeIsTransitive
  <2>3. \A x, y \in S : x = y \/ <<x, y>> \in R \/ <<y, x>> \in R
    BY <1>1, BeforeIsTotal
  <2>4. QED BY <2>1, <2>2, <2>3
<1>3. /\ \A x \in S : Ahead(x, S, R) \in 0..(Cardinality(S) - 1)
      /\ \A x, y \in S : <<x, y>> \in R <=> Ahead(x, S, R) < Ahead(y, S, R)
      /\ \A x, y \in S : Ahead(x, S, R) = Ahead(y, S, R) => x = y
      /\ \A k \in 0..(Cardinality(S) - 1) : \E x \in S : Ahead(x, S, R) = k
  BY <1>2, Places
<1>4. \A d \in S : Cardinality({e \in S : Before(e, d)}) = Ahead(d, S, R)
  <2>1. TAKE d \in S
  <2>2. {e \in S : Before(e, d)} = {e \in S : <<e, d>> \in R}
    BY <1>1
  <2>3. QED BY <2>2 DEF Ahead
<1> DEFINE s == Sorted(S)
<1>5. DOMAIN s = 1..n
  BY DEF Sorted
<1>6. ASSUME NEW i \in 1..n PROVE s[i] \in S /\ Ahead(s[i], S, R) = i - 1
  <2>1. s[i] = CHOOSE d \in S : Cardinality({e \in S : Before(e, d)}) = i - 1
    BY DEF Sorted
  <2>2. \E d \in S : Cardinality({e \in S : Before(e, d)}) = i - 1
    <3>1. i - 1 \in 0..(Cardinality(S) - 1)
      OBVIOUS
    <3>2. QED BY <1>3, <1>4, <3>1
  <2>3. s[i] \in S /\ Cardinality({e \in S : Before(e, s[i])}) = i - 1
    BY <2>1, <2>2
  <2>4. QED BY <1>4, <2>3
<1>7. s \in [1..n -> S]
  <2> DEFINE v(i) == CHOOSE d \in S : Cardinality({e \in S : Before(e, d)}) = i - 1
  <2>1. s = [i \in 1..n |-> v(i)]
    BY DEF Sorted
  <2>2. \A i \in 1..n : s[i] = v(i)
    BY <2>1
  <2>3. \A i \in 1..n : v(i) \in S
    BY <1>6, <2>2
  <2> HIDE DEF s, v
  <2>4. QED BY <2>1, <2>3
<1> HIDE DEF s
<1>8. \A i, j \in 1..n : i < j <=> Before(s[i], s[j])
  <2>1. TAKE i, j \in 1..n
  <2>2. /\ s[i] \in S /\ Ahead(s[i], S, R) = i - 1
        /\ s[j] \in S /\ Ahead(s[j], S, R) = j - 1
    BY <1>6
  <2>3. Before(s[i], s[j]) <=> Ahead(s[i], S, R) < Ahead(s[j], S, R)
    BY <1>1, <1>3, <2>2
  <2>4. QED BY <2>2, <2>3
<1>9. ASSUME NEW d \in S PROVE \E i \in 1..n : s[i] = d
  <2>1. PICK k \in 0..(n - 1) : k = Ahead(d, S, R)
    BY <1>3
  <2>2. k + 1 \in 1..n /\ (k + 1) - 1 = k
    OBVIOUS
  <2>3. s[k + 1] \in S /\ Ahead(s[k + 1], S, R) = k
    BY <1>6, <2>2
  <2>4. s[k + 1] = d
    BY <1>3, <2>1, <2>3
  <2>5. QED BY <2>2, <2>4
<1>10. QED BY <1>7, <1>8, <1>9 DEF s

(* A function of finitely many arguments has finitely many values.          *)
LEMMA ImageIsFinite ==
    ASSUME NEW S, IsFiniteSet(S), NEW f, DOMAIN f = S
    PROVE  IsFiniteSet({f[x] : x \in S})
<1> DEFINE T == {f[x] : x \in S}
           g == [x \in S |-> f[x]]
<1>1. g \in Surjection(S, T)
  BY DEF Surjection
<1>2. QED BY <1>1, FS_Surjection

(* A folder of a path has a name at least.                                  *)
LEMMA FolderType == ASSUME NEW p \in Paths PROVE FolderOf(p) \in Folders
<1>1. Folder[p] \in Seq(Int \ {0})
  BY NamesAssumption
<1>2. Folder[p] \in Seq(Int) /\ <<0>> \in Seq(Int) /\ <<0>> # <<>>
  BY <1>1
<1>3. QED BY <1>2 DEF FolderOf, Folders

(* The prefixes of a folder.                                                *)
LEMMA PrefixesAre ==
    ASSUME NEW d \in Seq(Int)
    PROVE  /\ Prefixes(d) \in SUBSET Seq(Int)
           /\ \A f \in Seq(Int) : f \in Prefixes(d) <=> IsPrefix(f, d)
           /\ IsFiniteSet(Prefixes(d))
<1>1. ASSUME NEW l \in 0..Len(d)
      PROVE  /\ SubSeq(d, 1, l) \in Seq(Int) /\ Len(SubSeq(d, 1, l)) = l
             /\ \A i \in 1..l : SubSeq(d, 1, l)[i] = d[i]
  OBVIOUS
<1>2. Prefixes(d) = {SubSeq(d, 1, l) : l \in 0..Len(d)}
  BY DEF Prefixes
<1>3. ASSUME NEW f \in Seq(Int), f \in Prefixes(d) PROVE IsPrefix(f, d)
  <2>1. PICK l \in 0..Len(d) : f = SubSeq(d, 1, l)
    BY <1>2, <1>3
  <2>2. Len(f) = l /\ \A i \in 1..l : f[i] = d[i]
    BY <1>1, <2>1
  <2>3. Len(f) <= Len(d) /\ \A i \in 1..Len(f) : f[i] = d[i]
    BY <2>2
  <2>4. QED BY <2>3, PrefixIs
<1>4. ASSUME NEW f \in Seq(Int), IsPrefix(f, d) PROVE f \in Prefixes(d)
  <2>1. PICK l \in 0..Len(d) : l = Len(f)
    BY <1>4, PrefixIs
  <2>2. f = SubSeq(d, 1, l)
    <3>1. \A i \in 1..Len(f) : f[i] = d[i]
      BY <1>4, PrefixIs
    <3>2. f = [i \in 1..l |-> f[i]]
      BY <2>1
    <3>3. SubSeq(d, 1, l) = [i \in 1..l |-> d[i]]
      BY <1>1
    <3>4. QED BY <2>1, <3>1, <3>2, <3>3
  <2>3. QED BY <1>2, <2>2
<1>5. IsFiniteSet(Prefixes(d))
  <2> DEFINE g == [l \in 0..Len(d) |-> SubSeq(d, 1, l)]
  <2>1. IsFiniteSet(0..Len(d))
    <3>1. 0 \in Int /\ Len(d) \in Int
      OBVIOUS
    <3>2. QED BY <3>1, FS_Interval
  <2>2. IsFiniteSet({g[l] : l \in 0..Len(d)})
    BY <2>1, ImageIsFinite
  <2>3. {g[l] : l \in 0..Len(d)} = {SubSeq(d, 1, l) : l \in 0..Len(d)}
    OBVIOUS
  <2>4. QED BY <1>2, <2>2, <2>3
<1>6. QED BY <1>1, <1>2, <1>3, <1>4, <1>5

(* The folders of finitely many paths: with each the folders around it.     *)
LEMMA AskedFolders ==
    ASSUME NEW ps \in SUBSET Paths
    PROVE  /\ FoldersOf(ps) \in SUBSET Folders
           /\ IsFiniteSet(FoldersOf(ps))
           /\ \A p \in ps : FolderOf(p) \in FoldersOf(ps)
           /\ \A d \in FoldersOf(ps), f \in Folders : IsPrefix(f, d) => f \in FoldersOf(ps)
<1> DEFINE g == [p \in ps |-> Prefixes(FolderOf(p))]
           U == {Prefixes(FolderOf(p)) : p \in ps}
<1>1. FoldersOf(ps) = (UNION U) \ {<<>>}
  BY DEF FoldersOf
<1>2. \A p \in ps : FolderOf(p) \in Folders /\ FolderOf(p) \in Seq(Int)
  BY FolderType DEF Folders
<1>3. FoldersOf(ps) \in SUBSET Folders
  <2>1. \A T \in U : T \in SUBSET Seq(Int)
    BY <1>2, PrefixesAre
  <2>2. QED BY <1>1, <2>1 DEF Folders
<1>4. IsFiniteSet(FoldersOf(ps))
  <2>1. IsFiniteSet(ps)
    BY PathsAssumption, FS_Subset
  <2>2. IsFiniteSet({g[p] : p \in ps})
    BY <2>1, ImageIsFinite
  <2>3. {g[p] : p \in ps} = U
    OBVIOUS
  <2>4. \A T \in U : IsFiniteSet(T)
    BY <1>2, PrefixesAre
  <2> HIDE DEF U
  <2>5. IsFiniteSet(UNION U)
    BY <2>2, <2>3, <2>4, FS_UNION
  <2>6. FoldersOf(ps) \in SUBSET (UNION U)
    BY <1>1
  <2>7. QED BY <2>5, <2>6, FS_Subset
<1>5. ASSUME NEW p \in ps PROVE FolderOf(p) \in FoldersOf(ps)
  <2>1. IsPrefix(FolderOf(p), FolderOf(p))
    BY <1>2, PrefixIs
  <2>2. FolderOf(p) \in Prefixes(FolderOf(p)) /\ FolderOf(p) # <<>>
    BY <1>2, <2>1, PrefixesAre DEF Folders
  <2>3. QED BY <1>1, <2>2
<1>6. ASSUME NEW d \in FoldersOf(ps), NEW f \in Folders, IsPrefix(f, d)
      PROVE  f \in FoldersOf(ps)
  <2>1. PICK p \in ps : d \in Prefixes(FolderOf(p))
    BY <1>1
  <2>2. /\ d \in Seq(Int) /\ f \in Seq(Int) /\ f # <<>>
    BY <1>3 DEF Folders
  <2>3. IsPrefix(d, FolderOf(p))
    BY <1>2, <2>1, <2>2, PrefixesAre
  <2>4. IsPrefix(f, FolderOf(p))
    <3>1. FolderOf(p) \in Seq(Int)
      BY <1>2
    <3>2. PICK o \in Seq(Int) : o = FolderOf(p)
      BY <3>1
    <3>3. /\ Len(f) <= Len(d) /\ \A i \in 1..Len(f) : f[i] = d[i]
          /\ Len(d) <= Len(o) /\ \A i \in 1..Len(d) : d[i] = o[i]
          /\ Len(f) \in Nat /\ Len(d) \in Nat /\ Len(o) \in Nat
      BY <1>6, <2>2, <2>3, <3>2, PrefixIs
    <3>4. Len(f) <= Len(o) /\ \A i \in 1..Len(f) : f[i] = o[i]
      BY <3>3
    <3>5. QED BY <2>2, <3>2, <3>4, PrefixIs
  <2>5. f \in Prefixes(FolderOf(p))
    BY <1>2, <2>2, <2>4, PrefixesAre
  <2>6. QED BY <1>1, <2>2, <2>5
<1>7. QED BY <1>3, <1>4, <1>5, <1>6

-----------------------------------------------------------------------------
(* The stack.                                                               *)

Entry == [folder : Folders, node : Seq(Int)]
Walker == [stack : Seq(Entry), found : SUBSET Paths]
Start == [stack |-> <<>>, found |-> {}]

(* The folders in the stack enclose x, each one the next.                   *)
Chain(stack, x) ==
    /\ \A k \in DOMAIN stack : IsPrefix(stack[k].folder, x)
    /\ \A k, l \in DOMAIN stack : k < l => Len(stack[k].folder) < Len(stack[l].folder)

(* The popped stack is a stack.                                             *)
LEMMA PoppedType ==
    ASSUME NEW stack \in Seq(Entry), NEW d \in Folders
    PROVE  Popped(stack, d) \in Seq(Entry)
<1> DEFINE E == {k \in DOMAIN stack : IsPrefix(stack[k].folder, d)}
<1>1. CASE E = {}
  BY <1>1 DEF Popped
<1>2. CASE E # {}
  <2>1. PICK n \in Nat : n = Len(stack)
    OBVIOUS
  <2>2. E \in SUBSET (1..n)
    BY <2>1
  <2> HIDE DEF E
  <2>3. Max(E) \in E
    BY <1>2, <2>2, MaxIs
  <2>4. PICK m \in 1..n : m = Max(E)
    BY <2>2, <2>3
  <2>5. Popped(stack, d) = SubSeq(stack, 1, m)
    BY <1>2, <2>4 DEF Popped, E
  <2>6. QED BY <2>1, <2>5
<1>3. QED BY <1>1, <1>2

(* The popped stack is its lower part, the folders around d.                *)
LEMMA PoppedIs ==
    ASSUME NEW stack \in Seq(Entry), NEW x \in Folders, NEW d \in Folders, Chain(stack, x)
    PROVE  \E m \in Nat :
             /\ m <= Len(stack)
             /\ Len(Popped(stack, d)) = m
             /\ \A k \in 1..m : Popped(stack, d)[k] = stack[k]
             /\ \A k \in 1..Len(stack) : k <= m <=> IsPrefix(stack[k].folder, d)
<1> DEFINE E == {k \in DOMAIN stack : IsPrefix(stack[k].folder, d)}
<1>0. PICK n \in Nat : n = Len(stack)
  OBVIOUS
<1>0a. DOMAIN stack = 1..n
  BY <1>0
<1>1. CASE E = {}
  <2>1. Popped(stack, d) = <<>>
    BY <1>1 DEF Popped
  <2>2. \A k \in 1..n : ~IsPrefix(stack[k].folder, d)
    BY <1>0a, <1>1
  <2>3. WITNESS 0 \in Nat
  <2>4. QED BY <1>0, <2>1, <2>2
<1>2. CASE E # {}
  <2>2. E \in SUBSET (1..n)
    BY <1>0a
  <2>2a. \A k \in 1..n : k \in E <=> IsPrefix(stack[k].folder, d)
    BY <1>0a
  <2>2b. Popped(stack, d) = SubSeq(stack, 1, Max(E))
    BY <1>2 DEF Popped
  <2> HIDE DEF E
  <2>3. Max(E) \in E /\ \A k \in E : Max(E) >= k
    BY <1>2, <2>2, MaxIs
  <2>4. PICK m \in 1..n : m = Max(E)
    BY <2>2, <2>3
  <2>5. m \in E /\ \A k \in E : m >= k
    BY <2>3, <2>4
  <2>6. Popped(stack, d) = SubSeq(stack, 1, m)
    BY <2>2b, <2>4
  <2>7. ASSUME NEW k \in 1..n, k <= m PROVE IsPrefix(stack[k].folder, d)
    <3>0. stack[k] \in Entry /\ stack[m] \in Entry
      BY <1>0
    <3>0a. stack[k].folder \in Seq(Int) /\ stack[m].folder \in Seq(Int)
      BY <3>0 DEF Entry, Folders
    <3>1. PICK f \in Seq(Int) : f = stack[k].folder
      BY <3>0a
    <3>2. PICK e \in Seq(Int) : e = stack[m].folder
      BY <3>0a
    <3>3. Len(f) <= Len(e) /\ Len(f) \in Nat /\ Len(e) \in Nat
      <4>1. k < m => Len(f) < Len(e)
        BY <1>0a, <3>1, <3>2 DEF Chain
      <4>2. k = m => f = e
        BY <3>1, <3>2
      <4>3. QED BY <2>7, <4>1, <4>2
    <3>4. IsPrefix(f, x) /\ IsPrefix(e, x) /\ IsPrefix(e, d) /\ x \in Seq(Int) /\ d \in Seq(Int)
      BY <1>0a, <2>2a, <2>5, <3>1, <3>2 DEF Chain, Folders
    <3>5. /\ \A i \in 1..Len(f) : f[i] = x[i]
          /\ \A i \in 1..Len(e) : e[i] = x[i] /\ e[i] = d[i]
          /\ Len(e) <= Len(d) /\ Len(d) \in Nat
      BY <3>4, PrefixIs
    <3>6. Len(f) <= Len(d) /\ \A i \in 1..Len(f) : f[i] = d[i]
      BY <3>3, <3>5
    <3>7. QED BY <3>1, <3>4, <3>6, PrefixIs
  <2>8. \A k \in 1..n : k <= m <=> IsPrefix(stack[k].folder, d)
    <3>1. TAKE k \in 1..n
    <3>2. ASSUME IsPrefix(stack[k].folder, d) PROVE k <= m
      BY <2>2a, <2>5, <3>2
    <3>3. QED BY <2>7, <3>2
  <2>9. Len(Popped(stack, d)) = m /\ \A k \in 1..m : Popped(stack, d)[k] = stack[k]
    BY <1>0, <2>6
  <2>10. m \in Nat /\ m <= Len(stack)
    BY <1>0
  <2>11. QED BY <1>0, <2>8, <2>9, <2>10
<1>3. QED BY <1>1, <1>2

(* A look-up leaves a stack and a set of files.                             *)
LEMMA LookUpType ==
    ASSUME NEW ps \in SUBSET Paths, NEW nodes, NEW stack \in Seq(Entry),
           NEW found \in SUBSET Paths, NEW d \in Folders, NEW node \in Seq(Int)
    PROVE  LookUp(ps, nodes, stack, found, d, node) \in Walker
<1>1. [folder |-> d, node |-> node] \in Entry
  BY DEF Entry
<1>2. QED BY <1>1 DEF LookUp, Walker

(* ... and so does a turn.                                                  *)
LEMMA VisitType ==
    ASSUME NEW ps \in SUBSET Paths, NEW nodes, NEW w \in Walker, NEW d \in Folders
    PROVE  Visit(ps, nodes, w, d) \in Walker
<1>1. PICK kept \in Seq(Entry) : kept = Popped(w.stack, d)
  BY PoppedType DEF Walker
<1>2. <<d[1]>> \in Seq(Int) /\ d[Len(d)] \in Int
  <2>1. d \in Seq(Int) /\ Len(d) # 0
    BY DEF Folders
  <2>2. 1 \in 1..Len(d) /\ Len(d) \in 1..Len(d)
    BY <2>1
  <2>3. d[1] \in Int /\ d[Len(d)] \in Int
    BY <2>1, <2>2
  <2>4. QED BY <2>3
<1>3. w.stack \in Seq(Entry) /\ w.found \in SUBSET Paths /\ <<>> \in Seq(Entry)
  BY DEF Walker
<1>4. CASE w.stack = <<>>
  BY <1>2, <1>3, <1>4, LookUpType DEF Visit
<1>5. CASE w.stack # <<>> /\ kept = <<>>
  <2>1. Visit(ps, nodes, w, d) = [w EXCEPT !.stack = <<>>]
    BY <1>1, <1>5 DEF Visit
  <2>2. QED BY <1>3, <2>1 DEF Walker
<1>6. CASE w.stack # <<>> /\ kept # <<>>
  <2>1. Last(kept).node \in Seq(Int)
    <3>1. Len(kept) \in 1..Len(kept)
      BY <1>6
    <3>2. kept[Len(kept)] \in Entry
      BY <3>1
    <3>3. QED BY <3>2 DEF Last, Entry
  <2>2. Append(Last(kept).node, Last(d)) \in Seq(Int)
    BY <1>2, <2>1 DEF Last
  <2>3. Visit(ps, nodes, w, d)
          = LookUp(ps, nodes, kept, w.found, d, Append(Last(kept).node, Last(d)))
    BY <1>1, <1>6 DEF Visit
  <2>4. QED BY <1>3, <2>2, <2>3, LookUpType
<1>7. QED BY <1>4, <1>5, <1>6

-----------------------------------------------------------------------------
(* The walk, turn by turn.                                                  *)

IsWalk(e, ps, nodes, z) ==
    e = [S \in SUBSET DOMAIN z |->
            IF S = {} THEN Start ELSE Visit(ps, nodes, e[S \ {Max(S)}], z[Max(S)])]

(* What the loop has after each of n turns over the folders z.              *)
IsTurns(h, ps, nodes, z, n) ==
    /\ h \in [0..n -> Walker]
    /\ h[0] = Start /\ h[n] = Walk(ps, nodes)
    /\ \A i \in 1..n : h[i] = Visit(ps, nodes, h[i - 1], z[i])

(* The walk is a sequence of turns.                                         *)
LEMMA Turns ==
    ASSUME NEW ps \in SUBSET Paths, NEW nodes, NEW n \in Nat,
           Sorted(FoldersOf(ps)) \in [1..n -> Folders]
    PROVE  \E h : IsTurns(h, ps, nodes, Sorted(FoldersOf(ps)), n)
<1>0. PICK z \in [1..n -> Folders] : z = Sorted(FoldersOf(ps))
  OBVIOUS
<1> DEFINE D == DOMAIN z
           c == [S \in SUBSET D |-> Max(S)]
           G == [y \in Walker \X D |-> Visit(ps, nodes, y[1], z[y[2]])]
<1>1. D = 1..n
  OBVIOUS
<1>2. IsFiniteSet(D)
  <2>1. 1 \in Int /\ n \in Int
    OBVIOUS
  <2>2. QED BY <1>1, <2>1, FS_Interval
<1>3. \A S \in SUBSET D : c[S] = Max(S)
  OBVIOUS
<1>3a. \A S \in SUBSET D : S # {} => c[S] \in S
  BY <1>1, <1>3, MaxIsIn
<1>4. G \in [Walker \X D -> Walker]
  BY VisitType
<1>5. \A y \in Walker, i \in D : G[<<y, i>>] = Visit(ps, nodes, y, z[i])
  OBVIOUS
<1>b. Start \in Walker
  BY DEF Start, Walker
<1> HIDE DEF D, c, G
<1>6. PICK h \in [SUBSET D -> Walker] : IsFold(h, G, Start, c, D)
  BY <1>2, <1>3a, <1>4, <1>b, FoldExists
<1>7. ASSUME NEW S \in SUBSET D
      PROVE  h[S] = IF S = {} THEN Start ELSE Visit(ps, nodes, h[S \ {Max(S)}], z[Max(S)])
  <2>1. CASE S = {}
    BY <1>6, <2>1 DEF IsFold
  <2>2. CASE S # {}
    <3>1. c[S] \in D /\ h[S \ {c[S]}] \in Walker
      BY <1>3a, <1>6, <2>2
    <3>2. h[S] = G[<<h[S \ {c[S]}], c[S]>>]
      BY <1>6, <2>2 DEF IsFold
    <3>3. h[S] = Visit(ps, nodes, h[S \ {c[S]}], z[c[S]])
      BY <1>5, <3>1, <3>2
    <3>4. QED BY <1>3, <2>2, <3>3
  <2>3. QED BY <2>1, <2>2
<1>8. IsWalk(h, ps, nodes, z)
  BY <1>6, <1>7 DEF IsWalk, D
<1>9. PICK e : e = CHOOSE f : IsWalk(f, ps, nodes, z)
  OBVIOUS
<1>10. IsWalk(e, ps, nodes, z)
  BY <1>8, <1>9
<1>11. Walk(ps, nodes) = e[D]
  BY <1>0, <1>9 DEF Walk, FoldLeft, MapThenFoldSet, IsWalk, D, Start
<1>12. \A S \in SUBSET D :
          e[S] = IF S = {} THEN Start ELSE Visit(ps, nodes, e[S \ {Max(S)}], z[Max(S)])
  BY <1>10 DEF IsWalk, D
<1> DEFINE t == [i \in 0..n |-> e[1..i]]
<1>13. t[0] = Start
  <2>1. 1..0 = {} /\ {} \in SUBSET D /\ 0 \in 0..n
    OBVIOUS
  <2>2. QED BY <1>12, <2>1
<1>14. ASSUME NEW i \in 1..n PROVE t[i] = Visit(ps, nodes, t[i - 1], z[i])
  <2>1. 1..i \in SUBSET D /\ 1..i # {}
    <3>1. i \in 1..i
      OBVIOUS
    <3>2. \A j \in 1..i : j \in 1..n
      OBVIOUS
    <3>3. QED BY <1>1, <3>1, <3>2
  <2>1a. (1..i) \ {i} = 1..(i - 1)
    OBVIOUS
  <2>2. Max(1..i) = i
    <3>1. i \in Nat /\ i # 0
      OBVIOUS
    <3>2. QED BY <3>1, MaxIsIn
  <2>3. i \in 0..n /\ i - 1 \in 0..n
    OBVIOUS
  <2>4. QED BY <1>12, <2>1, <2>1a, <2>2, <2>3
<1>15. t[n] = Walk(ps, nodes)
  <2>1. n \in 0..n /\ 1..n = D
    BY <1>1
  <2>2. QED BY <1>11, <2>1
<1>16. \A i \in 0..n : t[i] \in Walker
  <2> DEFINE Bad == {i \in 0..n : t[i] \notin Walker}
  <2>1. ASSUME Bad # {} PROVE FALSE
    <3>0. Bad \in SUBSET Nat
      OBVIOUS
    <3> HIDE DEF Bad
    <3>1. PICK i \in Bad : \A j \in Bad : i <= j
      BY <2>1, <3>0, Least
    <3>2. i \in 0..n /\ t[i] \notin Walker
      BY DEF Bad
    <3>3. i # 0
      BY <1>13, <1>b, <3>2
    <3>4. i \in 1..n /\ i - 1 \in 0..n /\ ~(i <= i - 1)
      BY <3>2, <3>3
    <3>5. t[i - 1] \in Walker
      BY <3>1, <3>4 DEF Bad
    <3>6. t[i] = Visit(ps, nodes, t[i - 1], z[i]) /\ z[i] \in Folders
      BY <1>14, <3>4
    <3>7. QED BY <3>2, <3>5, <3>6, VisitType
  <2>2. QED BY <2>1
<1>17. t \in [0..n -> Walker]
  <2>1. t = [i \in 0..n |-> t[i]]
    OBVIOUS
  <2>2. QED BY <1>16, <2>1
<1> HIDE DEF t
<1>18. /\ t[0] = Start /\ t[n] = Walk(ps, nodes)
       /\ \A i \in 1..n : t[i] = Visit(ps, nodes, t[i - 1], Sorted(FoldersOf(ps))[i])
  BY <1>0, <1>13, <1>14, <1>15
<1>19. QED BY <1>17, <1>18 DEF IsTurns

(* nodes are the ones of a tree: with each those above it.                  *)
IsTree(nodes) ==
    /\ nodes \subseteq Seq(Int \ {0}) \ {<<>>}
    /\ \A m \in nodes : Prefixes(m) \ {<<>>} \subseteq nodes

Same(f) == [folder |-> f, node |-> f]

TopIn(nodes, d) == <<d[1]>> \in nodes

(* After the turn for x.                                                    *)
WalkedTo(ps, nodes, w, x) ==
    /\ Chain(w.stack, x)
    /\ OneTopFolder(ps, nodes) =>
          /\ ~TopIn(nodes, x) => w.stack = <<>>
          /\ TopIn(nodes, x) =>
                \A f \in FoldersOf(ps) : IsPrefix(f, x) /\ f \in nodes =>
                    \E k \in DOMAIN w.stack : w.stack[k] = Same(f)
          /\ \A p \in ps : /\ FolderOf(p) = x \/ Before(FolderOf(p), x)
                           /\ FolderOf(p) \in nodes
                           /\ Append(FolderOf(p), Name[p]) \in nodes
                           => p \in w.found
    /\ \A p \in w.found : FolderOf(p) # <<0>>
    /\ OneTopFolder(ps, nodes) /\ NoGap(ps, nodes) =>
          /\ \A k \in DOMAIN w.stack : w.stack[k].node = w.stack[k].folder
          /\ w.found \subseteq InTree(ps, nodes)

(* Before the turn for d, when kept is what will be left of the stack.      *)
ReadyFor(ps, nodes, w, kept, d) ==
    /\ Chain(kept, d)
    /\ \A k \in DOMAIN kept : Len(kept[k].folder) < Len(d)
    /\ w.stack = <<>> => kept = <<>>
    /\ OneTopFolder(ps, nodes) =>
          /\ TopIn(nodes, d) /\ Len(d) = 1 => w.stack = <<>>
          /\ ~TopIn(nodes, d) => kept = <<>>
          /\ TopIn(nodes, d) =>
                \A f \in FoldersOf(ps) : IsPrefix(f, d) /\ f # d /\ f \in nodes =>
                    \E k \in DOMAIN kept : kept[k] = Same(f)
          /\ \A p \in ps : /\ Before(FolderOf(p), d)
                           /\ FolderOf(p) \in nodes
                           /\ Append(FolderOf(p), Name[p]) \in nodes
                           => p \in w.found
    /\ \A p \in w.found : FolderOf(p) # <<0>>
    /\ OneTopFolder(ps, nodes) /\ NoGap(ps, nodes) =>
          /\ \A k \in DOMAIN kept : kept[k].node = kept[k].folder
          /\ w.found \subseteq InTree(ps, nodes)

(* Every folder around a node is a node, and no name is empty.              *)
LEMMA TreeIs ==
    ASSUME NEW nodes, IsTree(nodes)
    PROVE  /\ \A m \in nodes : m \in Folders /\ \A i \in DOMAIN m : m[i] # 0
           /\ \A m \in nodes, f \in Folders : IsPrefix(f, m) => f \in nodes
           /\ <<0>> \notin nodes
<1>1. \A m \in nodes : m \in Seq(Int \ {0}) /\ m # <<>>
  BY DEF IsTree
<1>2. \A m \in Seq(Int \ {0}) : m \in Seq(Int) /\ \A i \in DOMAIN m : m[i] # 0
  OBVIOUS
<1>3. \A m \in nodes, f \in Folders : IsPrefix(f, m) => f \in nodes
  <2>1. TAKE m \in nodes, f \in Folders
  <2>2. HAVE IsPrefix(f, m)
  <2>3. m \in Seq(Int) /\ f \in Seq(Int) /\ f # <<>>
    BY <1>1, <1>2 DEF Folders
  <2>4. f \in Prefixes(m) \ {<<>>}
    BY <2>2, <2>3, PrefixesAre
  <2>5. QED BY <2>4 DEF IsTree
<1>4. 1 \in DOMAIN <<0>> /\ <<0>>[1] = 0
  OBVIOUS
<1>5. QED BY <1>1, <1>2, <1>3, <1>4 DEF Folders

(* Sequences with the same elements are the same.                           *)
LEMMA SameSequence ==
    ASSUME NEW f \in Seq(Int), NEW g \in Seq(Int), Len(f) = Len(g),
           \A i \in 1..Len(f) : f[i] = g[i]
    PROVE  f = g
<1>1. PICK n \in Nat : n = Len(f)
  OBVIOUS
<1>2. f \in [1..n -> Int] /\ g \in [1..n -> Int]
  BY <1>1
<1>3. \A i \in 1..n : f[i] = g[i]
  BY <1>1
<1>4. QED BY <1>2, <1>3

(* The folder at the top.                                                   *)
LEMMA TopIs ==
    ASSUME NEW d \in Folders
    PROVE  /\ <<d[1]>> \in Folders /\ IsPrefix(<<d[1]>>, d)
           /\ Len(d) \in Nat /\ Len(d) >= 1
           /\ <<d[1]>> = d <=> Len(d) = 1
<1>1. d \in Seq(Int) /\ Len(d) \in Nat /\ Len(d) >= 1 /\ d[1] \in Int
  BY DEF Folders
<1>1a. <<d[1]>> \in Seq(Int)
  <2>1. \A a \in Int : <<a>> \in Seq(Int)
    OBVIOUS
  <2>2. QED BY <1>1, <2>1
<1>2. PICK t \in Seq(Int) : t = <<d[1]>>
  BY <1>1a
<1>3. Len(t) = 1 /\ t[1] = d[1]
  BY <1>2
<1>4. IsPrefix(t, d)
  BY <1>1, <1>3, PrefixIs
<1>5. t = d <=> Len(d) = 1
  <2>1. CASE Len(d) = 1
    <3>1. d = <<d[1]>>
      BY <1>1, <2>1
    <3>2. QED BY <1>2, <2>1, <3>1
  <2>2. QED BY <1>3, <2>1
<1>6. t # <<>>
  BY <1>3
<1>7. QED BY <1>1, <1>2, <1>4, <1>5, <1>6 DEF Folders

(* The folder around one that is not at the top.                            *)
LEMMA FrontIs ==
    ASSUME NEW d \in Folders, Len(d) > 1
    PROVE  /\ Front(d) \in Folders /\ IsPrefix(Front(d), d)
           /\ Len(Front(d)) = Len(d) - 1 /\ Front(d) # d
           /\ Append(Front(d), Last(d)) = d
           /\ Len(d) = 2 => Front(d) = <<d[1]>>
<1>1. d \in Seq(Int) /\ Len(d) \in Nat
  BY DEF Folders
<1>0. PICK n \in Nat : n = Len(d)
  BY <1>1
<1>1a. /\ SubSeq(d, 1, n - 1) \in Seq(Int) /\ Len(SubSeq(d, 1, n - 1)) = n - 1
       /\ \A i \in 1..(n - 1) : SubSeq(d, 1, n - 1)[i] = d[i]
  BY <1>0, <1>1
<1>1b. Front(d) = SubSeq(d, 1, n - 1) /\ Last(d) = d[n] /\ d[n] \in Int
  BY <1>0, <1>1 DEF Front, Last
<1>2. PICK f \in Seq(Int) : f = Front(d)
  BY <1>1a, <1>1b
<1>3. Len(f) = Len(d) - 1 /\ Len(f) = n - 1 /\ \A i \in 1..Len(f) : f[i] = d[i]
  BY <1>0, <1>1a, <1>1b, <1>2
<1>4. IsPrefix(f, d)
  BY <1>0, <1>1, <1>3, PrefixIs
<1>5. Append(f, Last(d)) = d
  <2>1. PICK g \in Seq(Int) : g = Append(f, Last(d))
    <3>1. Append(f, Last(d)) \in Seq(Int)
      BY <1>1b
    <3>2. QED BY <3>1
  <2>2. Len(g) = n /\ (\A i \in 1..(n - 1) : g[i] = d[i]) /\ g[n] = d[n]
    BY <1>1b, <1>3, <2>1
  <2>3. \A i \in 1..n : g[i] = d[i]
    <3>1. TAKE i \in 1..n
    <3>2. i = n \/ i \in 1..(n - 1)
      OBVIOUS
    <3>3. QED BY <2>2, <3>2
  <2>4. Len(g) = Len(d) /\ \A i \in 1..Len(g) : g[i] = d[i]
    BY <1>0, <2>2, <2>3
  <2>5. g = d
    BY <1>1, <2>4, SameSequence
  <2>6. QED BY <2>1, <2>5
<1>6. Len(d) = 2 => f = <<d[1]>>
  BY <1>1, <1>3
<1>7. QED BY <1>1, <1>2, <1>3, <1>4, <1>5, <1>6 DEF Folders

(* The first folder is looked up with an empty stack.                       *)
LEMMA ReadyFirst ==
    ASSUME NEW ps \in SUBSET Paths, NEW nodes, IsTree(nodes), NEW d \in FoldersOf(ps),
           \A e \in FoldersOf(ps) : ~Before(e, d)
    PROVE  ReadyFor(ps, nodes, Start, <<>>, d)
<1>1. d \in Folders
  BY AskedFolders
<1>2. ASSUME NEW f \in FoldersOf(ps), IsPrefix(f, d), f # d PROVE FALSE
  <2>1. f \in Seq(Int) /\ d \in Seq(Int)
    BY AskedFolders DEF Folders
  <2>2. QED BY <1>2, <2>1, PrefixBefore
<1>3. \A p \in ps : ~Before(FolderOf(p), d)
  BY AskedFolders
<1>4. /\ Start.stack = <<>> /\ Start.found = {} /\ DOMAIN <<>> = {}
  BY DEF Start
<1>5. QED BY <1>2, <1>3, <1>4 DEF ReadyFor, Chain

(* A folder has the top of those in it.                                     *)
LEMMA TopsOrdered ==
    ASSUME NEW x \in Folders, NEW d \in Folders
    PROVE  /\ IsPrefix(<<d[1]>>, x) => x[1] = d[1]
           /\ \A f \in Folders : IsPrefix(f, x) => f[1] = x[1]
<1>1. x \in Seq(Int) /\ d \in Seq(Int) /\ Len(x) >= 1 /\ Len(x) \in Nat
  BY TopIs DEF Folders
<1>2. ASSUME NEW f \in Folders, IsPrefix(f, x) PROVE f[1] = x[1]
  <2>1. f \in Seq(Int) /\ Len(f) \in Nat /\ Len(f) >= 1
    BY TopIs DEF Folders
  <2>2. QED BY <1>1, <1>2, <2>1, PrefixIs
<1>3. ASSUME IsPrefix(<<d[1]>>, x) PROVE x[1] = d[1]
  <2>1. PICK t \in Folders : t = <<d[1]>>
    BY TopIs
  <2>2. t[1] = x[1] /\ t[1] = d[1]
    BY <1>2, <1>3, <2>1
  <2>3. QED BY <2>2
<1>4. QED BY <1>2, <1>3

(* Two folders at the top that exist are the same one.                      *)
LEMMA OneTop ==
    ASSUME NEW ps \in SUBSET Paths, NEW nodes, OneTopFolder(ps, nodes),
           NEW d \in FoldersOf(ps), NEW e \in FoldersOf(ps),
           TopIn(nodes, d), TopIn(nodes, e)
    PROVE  d[1] = e[1]
<1> DEFINE g == [f \in FoldersOf(ps) |-> <<f[1]>>]
           T == {<<f[1]>> : f \in FoldersOf(ps)} \cap nodes
<1>1. IsFiniteSet(T)
  <2>1. IsFiniteSet({g[f] : f \in FoldersOf(ps)})
    BY AskedFolders, ImageIsFinite
  <2>2. T \in SUBSET {g[f] : f \in FoldersOf(ps)}
    OBVIOUS
  <2> HIDE DEF T
  <2>3. QED BY <2>1, <2>2, FS_Subset
<1>2. <<d[1]>> \in T /\ <<e[1]>> \in T
  BY DEF TopIn
<1>3. Cardinality(T) <= 1
  BY DEF OneTopFolder
<1> HIDE DEF T
<1>4. <<d[1]>> = <<e[1]>>
  <2>1. ASSUME NEW u \in T, NEW v \in T, u # v PROVE FALSE
    <3>1. {u, v} \in SUBSET T
      OBVIOUS
    <3>2. Cardinality({u, v}) <= Cardinality(T)
      BY <1>1, <3>1, FS_Subset
    <3>3. Cardinality({u}) = 1 /\ IsFiniteSet({u})
      BY FS_Singleton
    <3>4. Cardinality({u} \cup {v}) = Cardinality({u}) + 1
      BY <2>1, <3>3, FS_AddElement
    <3>5. {u} \cup {v} = {u, v}
      OBVIOUS
    <3>6. Cardinality(T) \in Nat
      BY <1>1, FS_CardinalityType
    <3>7. QED BY <1>3, <3>2, <3>3, <3>4, <3>5, <3>6
  <2>2. QED BY <1>2, <2>1
<1>5. QED BY <1>4

(* After the turn for x, d comes next.                                      *)
LEMMA ReadyNext ==
    ASSUME NEW ps \in SUBSET Paths, NEW nodes, IsTree(nodes), NEW w \in Walker,
           NEW d \in FoldersOf(ps), NEW x \in FoldersOf(ps), Before(x, d),
           \A e \in FoldersOf(ps) : Before(e, d) => e = x \/ Before(e, x),
           WalkedTo(ps, nodes, w, x)
    PROVE  ReadyFor(ps, nodes, w, Popped(w.stack, d), d)
<1> DEFINE stack == w.stack
           S == FoldersOf(ps)
<1>0. /\ d \in Folders /\ x \in Folders /\ d \in Seq(Int) /\ x \in Seq(Int)
      /\ w.stack \in Seq(Entry)
  BY AskedFolders DEF Folders, Walker
<1>1. PICK kept : kept = Popped(w.stack, d)
  OBVIOUS
<1>2. PICK m \in Nat :
             /\ m <= Len(w.stack)
             /\ Len(kept) = m
             /\ \A k \in 1..m : kept[k] = w.stack[k]
             /\ \A k \in 1..Len(w.stack) : k <= m <=> IsPrefix(w.stack[k].folder, d)
  BY <1>0, <1>1, PoppedIs DEF WalkedTo
<1>3. kept \in Seq(Entry) /\ DOMAIN kept = 1..m
  BY <1>0, <1>1, <1>2, PoppedType
<1>4. DOMAIN w.stack = 1..Len(w.stack) /\ Len(w.stack) \in Nat
  BY <1>0
<1>5. ASSUME NEW k \in 1..m
      PROVE  /\ k \in DOMAIN w.stack /\ kept[k] = w.stack[k] /\ w.stack[k] \in Entry
             /\ IsPrefix(kept[k].folder, d) /\ IsPrefix(kept[k].folder, x)
             /\ kept[k].folder \in Folders /\ kept[k].folder # d
             /\ Len(kept[k].folder) < Len(d)
  <2>1. k \in 1..Len(w.stack) /\ kept[k] = w.stack[k] /\ IsPrefix(kept[k].folder, d)
    BY <1>2, <1>4
  <2>2. w.stack[k] \in Entry
    BY <1>0, <2>1
  <2>3. PICK f \in Folders : f = kept[k].folder
    BY <2>1, <2>2 DEF Entry
  <2>4. IsPrefix(f, x)
    BY <1>4, <2>1, <2>3 DEF WalkedTo, Chain
  <2>5. f # d
    <3>1. f \in Seq(Int)
      BY DEF Folders
    <3>2. f = x \/ Before(f, x)
      BY <1>0, <2>4, <3>1, PrefixBefore
    <3>3. QED BY <1>0, <3>1, <3>2, BeforeIsTransitive, NotBeforeItself
  <2>6. Len(f) < Len(d)
    <3>1. f \in Seq(Int) /\ IsPrefix(f, d)
      BY <2>1, <2>3 DEF Folders
    <3>2. Len(f) <= Len(d) /\ (\A i \in 1..Len(f) : f[i] = d[i])
      BY <1>0, <3>1, PrefixIs
    <3>3. Len(f) # Len(d)
      <4>1. Len(f) = Len(d) => f = d
        BY <1>0, <3>1, <3>2, SameSequence
      <4>2. QED BY <2>5, <4>1
    <3>4. QED BY <1>0, <3>1, <3>2, <3>3
  <2>7. QED BY <1>4, <2>1, <2>2, <2>3, <2>4, <2>5, <2>6
<1>6. Chain(kept, d)
  <2>1. \A k, l \in DOMAIN kept : k < l => Len(kept[k].folder) < Len(kept[l].folder)
    BY <1>3, <1>5 DEF WalkedTo, Chain
  <2>2. QED BY <1>3, <1>5, <2>1 DEF Chain
<1>7. \A k \in DOMAIN kept : Len(kept[k].folder) < Len(d)
  BY <1>3, <1>5
<1>8. w.stack = <<>> => kept = <<>>
  BY <1>2, <1>3
<1>9. ASSUME OneTopFolder(ps, nodes), TopIn(nodes, d), Len(d) = 1 PROVE w.stack = <<>>
  <2>1. ~TopIn(nodes, x)
    <3>1. ASSUME TopIn(nodes, x) PROVE FALSE
      <4>1. x[1] = d[1]
        BY <1>9, <3>1, OneTop
      <4>2. d = <<x[1]>>
        BY <1>0, <1>9, <4>1, TopIs
      <4>3. IsPrefix(d, x)
        BY <1>0, <4>2, TopIs
      <4>4. d = x \/ Before(d, x)
        BY <1>0, <4>3, PrefixBefore
      <4>5. QED BY <1>0, <4>4, BeforeIsTransitive, NotBeforeItself
    <3>2. QED BY <3>1
  <2>2. QED BY <1>9, <2>1 DEF WalkedTo
<1>10. ASSUME OneTopFolder(ps, nodes), ~TopIn(nodes, d) PROVE kept = <<>>
  <2>1. CASE ~TopIn(nodes, x)
    BY <1>8, <1>10, <2>1 DEF WalkedTo
  <2>2. CASE TopIn(nodes, x)
    <3>1. ASSUME m # 0 PROVE FALSE
      <4>1. 1 \in 1..m
        BY <3>1
      <4>2. kept[1].folder[1] = x[1] /\ kept[1].folder[1] = d[1]
        BY <1>0, <1>5, <4>1, TopsOrdered
      <4>3. QED BY <1>10, <2>2, <4>2 DEF TopIn
    <3>2. QED BY <1>2, <1>3, <3>1
  <2>3. QED BY <2>1, <2>2
<1>11. ASSUME OneTopFolder(ps, nodes), TopIn(nodes, d),
              NEW f \in FoldersOf(ps), IsPrefix(f, d), f # d, f \in nodes
       PROVE  \E k \in DOMAIN kept : kept[k] = Same(f)
  <2>0. f \in Folders /\ f \in Seq(Int)
    BY AskedFolders DEF Folders
  <2>1. Before(f, d)
    BY <1>0, <1>11, <2>0, PrefixBefore
  <2>2. f = x \/ Before(f, x)
    BY <2>1
  <2>3. ~Before(x, f)
    BY <1>0, <2>0, <2>2, BeforeIsTransitive, NotBeforeItself
  <2>4. IsPrefix(f, x)
    BY <1>0, <1>11, <2>0, <2>3, Between
  <2>5. TopIn(nodes, x)
    <3>1. f[1] = x[1] /\ f[1] = d[1]
      BY <1>0, <1>11, <2>0, <2>4, TopsOrdered
    <3>2. QED BY <1>11, <3>1 DEF TopIn
  <2>6. PICK k \in DOMAIN w.stack : w.stack[k] = Same(f)
    BY <1>11, <2>4, <2>5 DEF WalkedTo
  <2>7. k \in 1..Len(w.stack) /\ w.stack[k].folder = f
    BY <1>4, <2>6 DEF Same
  <2>8. k <= m
    BY <1>2, <1>11, <2>7
  <2>9. k \in 1..m
    BY <2>7, <2>8
  <2>10. QED BY <1>3, <1>5, <2>6, <2>9
<1>12. ASSUME OneTopFolder(ps, nodes), NEW p \in ps, Before(FolderOf(p), d),
              FolderOf(p) \in nodes, Append(FolderOf(p), Name[p]) \in nodes
       PROVE  p \in w.found
  <2>1. FolderOf(p) = x \/ Before(FolderOf(p), x)
    BY <1>12, AskedFolders
  <2>2. QED BY <1>12, <2>1 DEF WalkedTo
<1>13. \A p \in w.found : FolderOf(p) # <<0>>
  BY DEF WalkedTo
<1>14. ASSUME OneTopFolder(ps, nodes), NoGap(ps, nodes)
       PROVE  /\ \A k \in DOMAIN kept : kept[k].node = kept[k].folder
              /\ w.found \subseteq InTree(ps, nodes)
  BY <1>3, <1>5, <1>14 DEF WalkedTo
<1>15. ReadyFor(ps, nodes, w, kept, d)
  BY <1>6, <1>7, <1>8, <1>9, <1>10, <1>11, <1>12, <1>13, <1>14 DEF ReadyFor
<1>16. QED BY <1>1, <1>15

(* What is found in d under its own name is in the tree.                    *)
LEMMA FoundIn ==
    ASSUME NEW ps \in SUBSET Paths, NEW nodes, IsTree(nodes), NEW p \in ps,
           FolderOf(p) # << 0 >>
    PROVE  NodeOf(p) = Append(FolderOf(p), Name[p])
  BY DEF NodeOf, FolderOf

(* The turn for d with an empty stack.                                      *)
LEMMA TurnAtTop ==
    ASSUME NEW ps \in SUBSET Paths, NEW nodes, IsTree(nodes), NEW w \in Walker,
           NEW d \in FoldersOf(ps), w.stack = <<>>,
           ReadyFor(ps, nodes, w, <<>>, d)
    PROVE  WalkedTo(ps, nodes, Visit(ps, nodes, w, d), d)
<1>0. d \in Folders /\ d \in Seq(Int)
  BY AskedFolders DEF Folders
<1>1. PICK v : v = Visit(ps, nodes, w, d)
  OBVIOUS
<1>2. v = LookUp(ps, nodes, <<>>, w.found, d, <<d[1]>>)
  BY <1>1 DEF Visit
<1>3. ASSUME OneTopFolder(ps, nodes), TopIn(nodes, d) PROVE d = <<d[1]>>
  <2>1. ASSUME <<d[1]>> # d PROVE FALSE
    <3>1. <<d[1]>> \in FoldersOf(ps) /\ IsPrefix(<<d[1]>>, d) /\ <<d[1]>> \in nodes
      BY <1>0, <1>3, TopIs, AskedFolders DEF TopIn
    <3>2. \E k \in DOMAIN <<>> : <<>>[k] = Same(<<d[1]>>)
      BY <1>3, <2>1, <3>1 DEF ReadyFor
    <3>3. QED BY <3>2
  <2>2. QED BY <2>1
<1>4. ASSUME OneTopFolder(ps, nodes), NEW p \in ps,
             FolderOf(p) = d \/ Before(FolderOf(p), d),
             FolderOf(p) \in nodes, Append(FolderOf(p), Name[p]) \in nodes
      PROVE  p \in v.found
  <2>1. CASE Before(FolderOf(p), d)
    <3>1. p \in w.found
      BY <1>4, <2>1 DEF ReadyFor
    <3>2. QED BY <1>2, <3>1 DEF LookUp
  <2>2. CASE FolderOf(p) = d
    <3>1. TopIn(nodes, d)
      BY <1>0, <1>4, <2>2, TopIs, TreeIs DEF TopIn
    <3>2. d = <<d[1]>>
      BY <1>3, <1>4, <3>1
    <3>3. <<d[1]>> \in nodes /\ Append(<<d[1]>>, Name[p]) \in nodes
      BY <1>4, <2>2, <3>2
    <3>4. QED BY <1>2, <2>2, <3>3 DEF LookUp
  <2>3. QED BY <1>4, <2>1, <2>2
<1>5. CASE ~TopIn(nodes, d)
  <2>1. v.stack = <<>> /\ v.found = w.found
    BY <1>2, <1>5 DEF LookUp, TopIn
  <2>2. \A p \in v.found : FolderOf(p) # <<0>>
    BY <2>1 DEF ReadyFor
  <2>3. OneTopFolder(ps, nodes) /\ NoGap(ps, nodes) => v.found \subseteq InTree(ps, nodes)
    BY <2>1 DEF ReadyFor
  <2>4. WalkedTo(ps, nodes, v, d)
    BY <1>4, <1>5, <2>1, <2>2, <2>3 DEF WalkedTo, Chain
  <2>5. QED BY <1>1, <2>4
<1>6. CASE TopIn(nodes, d)
  <2>1. /\ v.stack = <<[folder |-> d, node |-> <<d[1]>>]>>
        /\ v.found = w.found \cup {p \in ps : /\ FolderOf(p) = d
                                              /\ Append(<<d[1]>>, Name[p]) \in nodes}
    BY <1>2, <1>6 DEF LookUp, TopIn
  <2>2. /\ DOMAIN v.stack = {1} /\ v.stack[1].folder = d /\ v.stack[1].node = <<d[1]>>
        /\ v.stack[1] = [folder |-> d, node |-> <<d[1]>>]
    BY <2>1
  <2>3. Chain(v.stack, d)
    <3>1. IsPrefix(d, d)
      BY <1>0, PrefixIs
    <3>2. QED BY <2>2, <3>1 DEF Chain
  <2>4. ASSUME OneTopFolder(ps, nodes), NEW f \in FoldersOf(ps), IsPrefix(f, d)
        PROVE  \E k \in DOMAIN v.stack : v.stack[k] = Same(f)
    <3>1. d = <<d[1]>>
      BY <1>3, <1>6, <2>4
    <3>2. f = d
      <4>1. /\ f \in Folders /\ f \in Seq(Int)
        BY AskedFolders DEF Folders
      <4>2. Len(f) >= 1 /\ Len(f) \in Nat /\ Len(d) = 1
        BY <1>0, <3>1, <4>1, TopIs
      <4>3. Len(f) <= Len(d) /\ \A i \in 1..Len(f) : f[i] = d[i]
        BY <1>0, <2>4, <4>1, PrefixIs
      <4>3a. Len(f) <= Len(d)
        BY <4>3
      <4>4. Len(f) = Len(d)
        <5>1. PICK l \in Nat : l = Len(f)
          BY <4>2
        <5>2. l >= 1 /\ l <= 1
          BY <4>2, <4>3a, <5>1
        <5>3. QED BY <4>2, <5>1, <5>2
      <4>5. QED BY <1>0, <4>1, <4>3, <4>4, SameSequence
    <3>3. v.stack[1] = Same(f)
      BY <2>2, <3>1, <3>2 DEF Same
    <3>4. 1 \in DOMAIN v.stack
      BY <2>2
    <3>5. QED BY <3>3, <3>4
  <2>5. ASSUME NEW p \in v.found PROVE FolderOf(p) # <<0>>
    <3>1. CASE p \in w.found
      BY <3>1 DEF ReadyFor
    <3>2. CASE FolderOf(p) = d
      <4>1. ASSUME d = << 0 >> PROVE FALSE
        <5>1. <<d[1]>> = <<0>>
          BY <4>1
        <5>2. QED BY <1>6, <5>1, TreeIs DEF TopIn
      <4>2. QED BY <3>2, <4>1
    <3>3. QED BY <2>1, <3>1, <3>2
  <2>6. ASSUME OneTopFolder(ps, nodes), NoGap(ps, nodes)
        PROVE  /\ \A k \in DOMAIN v.stack : v.stack[k].node = v.stack[k].folder
               /\ v.found \subseteq InTree(ps, nodes)
    <3>1. d = <<d[1]>>
      BY <1>3, <1>6, <2>6
    <3>2. \A k \in DOMAIN v.stack : v.stack[k].node = v.stack[k].folder
      BY <2>2, <3>1
    <3>3. ASSUME NEW p \in v.found PROVE p \in InTree(ps, nodes)
      <4>1. CASE p \in w.found
        BY <2>6, <4>1 DEF ReadyFor
      <4>2. CASE p \in ps /\ FolderOf(p) = d /\ Append(<<d[1]>>, Name[p]) \in nodes
        <5>1. Append(FolderOf(p), Name[p]) \in nodes
          BY <3>1, <4>2
        <5>2. NodeOf(p) \in nodes
          BY <2>5, <3>3, <4>2, <5>1, FoundIn
        <5>3. QED BY <4>2, <5>2 DEF InTree
      <4>3. QED BY <2>1, <4>1, <4>2
    <3>4. QED BY <3>2, <3>3
  <2>7. WalkedTo(ps, nodes, v, d)
    BY <1>4, <1>6, <2>3, <2>4, <2>5, <2>6 DEF WalkedTo
  <2>8. QED BY <1>1, <2>7
<1>7. QED BY <1>5, <1>6

(* The turn for d in which the stack is emptied.                            *)
LEMMA TurnEmptying ==
    ASSUME NEW ps \in SUBSET Paths, NEW nodes, IsTree(nodes), NEW w \in Walker,
           NEW d \in FoldersOf(ps), w.stack # <<>>, Popped(w.stack, d) = <<>>,
           ReadyFor(ps, nodes, w, <<>>, d)
    PROVE  WalkedTo(ps, nodes, Visit(ps, nodes, w, d), d)
<1>0. d \in Folders /\ d \in Seq(Int)
  BY AskedFolders DEF Folders
<1>1. PICK v : v = Visit(ps, nodes, w, d)
  OBVIOUS
<1>2. v = [w EXCEPT !.stack = <<>>]
  BY <1>1 DEF Visit
<1>2a. v.stack = <<>> /\ v.found = w.found
  BY <1>2 DEF Walker
<1>3. ASSUME OneTopFolder(ps, nodes), TopIn(nodes, d) PROVE FALSE
  <2>1. Len(d) # 1
    BY <1>3 DEF ReadyFor
  <2>2. <<d[1]>> \in FoldersOf(ps) /\ IsPrefix(<<d[1]>>, d) /\ <<d[1]>> \in nodes
    BY <1>0, <1>3, TopIs, AskedFolders DEF TopIn
  <2>3. <<d[1]>> # d
    BY <1>0, <2>1, TopIs
  <2>4. \E k \in DOMAIN <<>> : <<>>[k] = Same(<<d[1]>>)
    BY <1>3, <2>2, <2>3 DEF ReadyFor
  <2>5. QED BY <2>4
<1>4. ASSUME OneTopFolder(ps, nodes), NEW p \in ps,
             FolderOf(p) = d \/ Before(FolderOf(p), d),
             FolderOf(p) \in nodes, Append(FolderOf(p), Name[p]) \in nodes
      PROVE  p \in v.found
  <2>1. CASE Before(FolderOf(p), d)
    BY <1>2a, <1>4, <2>1 DEF ReadyFor
  <2>2. CASE FolderOf(p) = d
    <3>1. TopIn(nodes, d)
      BY <1>0, <1>4, <2>2, TopIs, TreeIs DEF TopIn
    <3>2. QED BY <1>3, <1>4, <3>1
  <2>3. QED BY <1>4, <2>1, <2>2
<1>5. \A p \in v.found : FolderOf(p) # <<0>>
  BY <1>2a DEF ReadyFor
<1>6. OneTopFolder(ps, nodes) /\ NoGap(ps, nodes) => v.found \subseteq InTree(ps, nodes)
  BY <1>2a DEF ReadyFor
<1>7. WalkedTo(ps, nodes, v, d)
  BY <1>2a, <1>3, <1>4, <1>5, <1>6 DEF WalkedTo, Chain
<1>8. QED BY <1>1, <1>7

(* The folder at hand is looked up where it is, if the one around it is     *)
(* there.                                                                   *)
LEMMA LooksInside ==
    ASSUME NEW ps \in SUBSET Paths, NEW nodes, IsTree(nodes), NEW w,
           NEW d \in FoldersOf(ps), NEW kept \in Seq(Entry), kept # <<>>,
           ReadyFor(ps, nodes, w, kept, d), OneTopFolder(ps, nodes),
           Front(d) \in nodes
    PROVE  Len(d) > 1 /\ Append(Last(kept).node, Last(d)) = d
<1>0. d \in Folders /\ d \in Seq(Int) /\ Len(d) \in Nat
  BY AskedFolders DEF Folders
<1>1. PICK m \in Nat : m = Len(kept)
  OBVIOUS
<1>2. m >= 1 /\ DOMAIN kept = 1..m
  BY <1>1
<1>3. m \in DOMAIN kept
  BY <1>2
<1>3a. kept[m] \in Entry
  BY <1>3
<1>4. kept[m].folder \in Folders
  BY <1>3a DEF Entry
<1>5. Len(kept[m].folder) \in Nat /\ Len(kept[m].folder) >= 1
  BY <1>4, TopIs
<1>6. Len(kept[m].folder) < Len(d)
  BY <1>3 DEF ReadyFor
<1>7. Len(d) > 1
  BY <1>0, <1>5, <1>6
<1>8. TopIn(nodes, d)
  BY <1>2 DEF ReadyFor
<1>9. PICK f \in Folders : f = Front(d)
  BY <1>0, <1>7, FrontIs
<1>10. /\ f \in FoldersOf(ps) /\ IsPrefix(f, d) /\ f # d /\ Len(f) = Len(d) - 1
       /\ Append(f, Last(d)) = d
  BY <1>0, <1>7, <1>9, FrontIs, AskedFolders
<1>11. PICK k \in DOMAIN kept : kept[k] = Same(f)
  BY <1>8, <1>9, <1>10 DEF ReadyFor
<1>12. k = m
  <2>1. ASSUME k < m PROVE FALSE
    <3>1. Len(kept[k].folder) < Len(kept[m].folder)
      BY <1>3, <2>1 DEF ReadyFor, Chain
    <3>2. kept[k].folder = f
      BY <1>11 DEF Same
    <3>3. QED BY <1>0, <1>5, <1>6, <1>10, <3>1, <3>2
  <2>2. k \in 1..m
    BY <1>2
  <2>3. QED BY <2>1, <2>2
<1>13. Last(kept).node = f
  BY <1>1, <1>11, <1>12 DEF Last, Same
<1>14. QED BY <1>7, <1>10, <1>13

(* The turn for d inside of a folder of the stack.                          *)
LEMMA TurnInside ==
    ASSUME NEW ps \in SUBSET Paths, NEW nodes, IsTree(nodes), NEW w \in Walker,
           NEW d \in FoldersOf(ps), w.stack # <<>>,
           NEW kept \in Seq(Entry), kept = Popped(w.stack, d), kept # <<>>,
           ReadyFor(ps, nodes, w, kept, d)
    PROVE  WalkedTo(ps, nodes, Visit(ps, nodes, w, d), d)
<1>0. d \in Folders /\ d \in Seq(Int) /\ Len(d) \in Nat
  BY AskedFolders DEF Folders
<1>1. PICK v : v = Visit(ps, nodes, w, d)
  OBVIOUS
<1>2. PICK node : node = Append(Last(kept).node, Last(d))
  OBVIOUS
<1>3. v = LookUp(ps, nodes, kept, w.found, d, node)
  BY <1>1, <1>2 DEF Visit
<1>4. PICK m \in Nat : m = Len(kept)
  OBVIOUS
<1>5. m >= 1 /\ DOMAIN kept = 1..m /\ m \in DOMAIN kept
  BY <1>4
<1>6. Len(d) > 1
  <2>0. kept[m] \in Entry
    BY <1>5
  <2>1. kept[m].folder \in Folders
    BY <2>0 DEF Entry
  <2>2. Len(kept[m].folder) \in Nat /\ Len(kept[m].folder) >= 1
    BY <2>1, TopIs
  <2>3. Len(kept[m].folder) < Len(d)
    BY <1>5 DEF ReadyFor
  <2>4. QED BY <1>0, <2>2, <2>3
<1>7. OneTopFolder(ps, nodes) => TopIn(nodes, d)
  BY <1>5 DEF ReadyFor
<1>8. ASSUME OneTopFolder(ps, nodes), d \in nodes PROVE node = d
  <2>1. Front(d) \in nodes
    BY <1>0, <1>6, <1>8, FrontIs, TreeIs
  <2>2. QED BY <1>2, <1>8, <2>1, LooksInside
<1>9. d # <<0>>
  <2>1. \A e \in Seq(Int) : e = <<0>> => Len(e) = 1
    OBVIOUS
  <2>2. PICK l \in Nat : l = Len(d)
    BY <1>0
  <2>3. l # 1
    BY <1>6, <2>2
  <2>4. QED BY <1>0, <2>1, <2>2, <2>3
<1>10. ASSUME OneTopFolder(ps, nodes), NEW p \in ps,
              FolderOf(p) = d \/ Before(FolderOf(p), d),
              FolderOf(p) \in nodes, Append(FolderOf(p), Name[p]) \in nodes
       PROVE  p \in v.found
  <2>1. CASE Before(FolderOf(p), d)
    <3>1. p \in w.found
      BY <1>10, <2>1 DEF ReadyFor
    <3>2. QED BY <1>3, <3>1 DEF LookUp
  <2>2. CASE FolderOf(p) = d
    <3>1. node = d
      BY <1>8, <1>10, <2>2
    <3>2. node \in nodes /\ Append(node, Name[p]) \in nodes
      BY <1>10, <2>2, <3>1
    <3>3. QED BY <1>3, <2>2, <3>2 DEF LookUp
  <2>3. QED BY <1>10, <2>1, <2>2
<1>11. ASSUME OneTopFolder(ps, nodes), NEW f \in FoldersOf(ps), IsPrefix(f, d),
              f # d, f \in nodes
       PROVE  \E k \in DOMAIN kept : kept[k] = Same(f)
  BY <1>7, <1>11 DEF ReadyFor
<1>12. CASE node \notin nodes
  <2>1. v.stack = kept /\ v.found = w.found
    BY <1>3, <1>12 DEF LookUp
  <2>2. Chain(v.stack, d)
    BY <2>1 DEF ReadyFor
  <2>3. ASSUME OneTopFolder(ps, nodes), NEW f \in FoldersOf(ps), IsPrefix(f, d),
               f \in nodes
        PROVE  \E k \in DOMAIN v.stack : v.stack[k] = Same(f)
    <3>1. f # d
      BY <1>8, <1>12, <2>3
    <3>2. QED BY <1>11, <2>1, <2>3, <3>1
  <2>4. \A p \in v.found : FolderOf(p) # <<0>>
    BY <2>1 DEF ReadyFor
  <2>5. OneTopFolder(ps, nodes) /\ NoGap(ps, nodes) =>
          /\ \A k \in DOMAIN v.stack : v.stack[k].node = v.stack[k].folder
          /\ v.found \subseteq InTree(ps, nodes)
    BY <2>1 DEF ReadyFor
  <2>6. WalkedTo(ps, nodes, v, d)
    BY <1>7, <1>10, <2>2, <2>3, <2>4, <2>5 DEF WalkedTo
  <2>7. QED BY <1>1, <2>6
<1>13. CASE node \in nodes
  <2>0. PICK r : r = [folder |-> d, node |-> node]
    OBVIOUS
  <2>1. /\ v.stack = Append(kept, r)
        /\ v.found = w.found \cup {p \in ps : /\ FolderOf(p) = d
                                              /\ Append(node, Name[p]) \in nodes}
    BY <1>3, <1>13, <2>0 DEF LookUp
  <2>1a. r.folder = d /\ r.node = node
    BY <2>0
  <2>2. /\ DOMAIN v.stack = 1..(m + 1) /\ v.stack[m + 1] = r
        /\ \A k \in 1..m : v.stack[k] = kept[k]
    BY <1>4, <2>1
  <2>2a. \A k \in DOMAIN v.stack : k = m + 1 \/ k \in 1..m
    BY <2>2
  <2>3. Chain(v.stack, d)
    <3>1. IsPrefix(d, d)
      BY <1>0, PrefixIs
    <3>2. \A k \in DOMAIN v.stack : IsPrefix(v.stack[k].folder, d)
      BY <1>5, <2>1a, <2>2, <2>2a, <3>1 DEF ReadyFor, Chain
    <3>3. ASSUME NEW k \in DOMAIN v.stack, NEW l \in DOMAIN v.stack, k < l
          PROVE  Len(v.stack[k].folder) < Len(v.stack[l].folder)
      <4>1. k \in 1..m
        BY <2>2, <3>3
      <4>2. CASE l \in 1..m
        BY <1>5, <2>2, <3>3, <4>1, <4>2 DEF ReadyFor, Chain
      <4>3. CASE l = m + 1
        BY <1>5, <2>1a, <2>2, <4>1, <4>3 DEF ReadyFor
      <4>4. QED BY <2>2a, <4>2, <4>3
    <3>4. QED BY <3>2, <3>3 DEF Chain
  <2>4. ASSUME OneTopFolder(ps, nodes), NEW f \in FoldersOf(ps), IsPrefix(f, d),
               f \in nodes
        PROVE  \E k \in DOMAIN v.stack : v.stack[k] = Same(f)
    <3>1. CASE f # d
      <4>1. PICK k \in DOMAIN kept : kept[k] = Same(f)
        BY <1>11, <2>4, <3>1
      <4>2. k \in DOMAIN v.stack /\ v.stack[k] = Same(f)
        BY <1>5, <2>2, <4>1
      <4>3. QED BY <4>2
    <3>2. CASE f = d
      <4>1. node = d
        BY <1>8, <2>4, <3>2
      <4>2. v.stack[m + 1] = Same(f)
        BY <2>0, <2>2, <3>2, <4>1 DEF Same
      <4>3. m + 1 \in DOMAIN v.stack
        BY <2>2
      <4>4. QED BY <4>2, <4>3
    <3>3. QED BY <3>1, <3>2
  <2>5. ASSUME NEW p \in v.found PROVE FolderOf(p) # <<0>>
    <3>1. CASE p \in w.found
      BY <3>1 DEF ReadyFor
    <3>2. CASE FolderOf(p) = d
      BY <1>9, <3>2
    <3>3. QED BY <2>1, <3>1, <3>2
  <2>6. ASSUME OneTopFolder(ps, nodes), NoGap(ps, nodes)
        PROVE  /\ \A k \in DOMAIN v.stack : v.stack[k].node = v.stack[k].folder
               /\ v.found \subseteq InTree(ps, nodes)
    <3>1. node = d
      <4>1. TopIn(nodes, d)
        BY <1>7, <2>6
      <4>2. Front(d) \in nodes
        <5>1. CASE Len(d) = 2
          BY <1>0, <1>6, <4>1, <5>1, FrontIs DEF TopIn
        <5>2. CASE Len(d) > 2
          BY <2>6, <4>1, <5>2 DEF NoGap, TopIn
        <5>3. Len(d) = 2 \/ Len(d) > 2
          <6>1. PICK l \in Nat : l = Len(d)
            BY <1>0
          <6>2. l > 1
            BY <1>6, <6>1
          <6>3. QED BY <6>1, <6>2
        <5>4. QED BY <5>1, <5>2, <5>3
      <4>3. QED BY <1>2, <2>6, <4>2, LooksInside
    <3>2. \A k \in DOMAIN v.stack : v.stack[k].node = v.stack[k].folder
      <4>1. \A k \in 1..m : kept[k].node = kept[k].folder
        BY <1>5, <2>6 DEF ReadyFor
      <4>2. QED BY <2>1a, <2>2, <2>2a, <3>1, <4>1
    <3>3. ASSUME NEW p \in v.found PROVE p \in InTree(ps, nodes)
      <4>1. CASE p \in w.found
        BY <2>6, <4>1 DEF ReadyFor
      <4>2. CASE p \in ps /\ FolderOf(p) = d /\ Append(node, Name[p]) \in nodes
        <5>1. Append(FolderOf(p), Name[p]) \in nodes
          BY <3>1, <4>2
        <5>2. NodeOf(p) \in nodes
          BY <2>5, <3>3, <4>2, <5>1, FoundIn
        <5>3. QED BY <4>2, <5>2 DEF InTree
      <4>3. QED BY <2>1, <4>1, <4>2
    <3>4. QED BY <3>2, <3>3
  <2>7. WalkedTo(ps, nodes, v, d)
    BY <1>7, <1>10, <2>3, <2>4, <2>5, <2>6 DEF WalkedTo
  <2>8. QED BY <1>1, <2>7
<1>14. QED BY <1>12, <1>13

(* One turn, whatever the stack.                                            *)
LEMMA Turn ==
    ASSUME NEW ps \in SUBSET Paths, NEW nodes, IsTree(nodes), NEW w \in Walker,
           NEW d \in FoldersOf(ps), ReadyFor(ps, nodes, w, Popped(w.stack, d), d)
    PROVE  WalkedTo(ps, nodes, Visit(ps, nodes, w, d), d)
<1>1. PICK kept \in Seq(Entry) : kept = Popped(w.stack, d)
  BY AskedFolders, PoppedType DEF Walker
<1>2. ReadyFor(ps, nodes, w, kept, d)
  BY <1>1
<1>3. CASE w.stack = <<>>
  <2>1. kept = <<>>
    BY <1>2, <1>3 DEF ReadyFor
  <2>2. QED BY <1>2, <1>3, <2>1, TurnAtTop
<1>4. CASE w.stack # <<>> /\ kept = <<>>
  BY <1>1, <1>2, <1>4, TurnEmptying
<1>5. CASE w.stack # <<>> /\ kept # <<>>
  BY <1>1, <1>2, <1>5, TurnInside
<1>6. QED BY <1>3, <1>4, <1>5

(* All turns.                                                               *)
LEMMA WalkIs ==
    ASSUME NEW ps \in SUBSET Paths, NEW nodes, IsTree(nodes)
    PROVE  \/ FoldersOf(ps) = {} /\ Walk(ps, nodes) = Start
           \/ \E x \in FoldersOf(ps) :
                 /\ \A e \in FoldersOf(ps) : e = x \/ Before(e, x)
                 /\ WalkedTo(ps, nodes, Walk(ps, nodes), x)
<1> DEFINE S == FoldersOf(ps)
           s == Sorted(S)
<1>0. S \in SUBSET Folders /\ S \in SUBSET Seq(Int) /\ IsFiniteSet(S)
  BY AskedFolders DEF Folders
<1>1. PICK n \in Nat : n = Cardinality(S)
  BY <1>0, FS_CardinalityType
<1>2. /\ s \in [1..n -> S]
      /\ \A i, j \in 1..n : i < j <=> Before(s[i], s[j])
      /\ \A d \in S : \E i \in 1..n : s[i] = d
  BY <1>0, <1>1, Sorting
<1>3. PICK h : IsTurns(h, ps, nodes, s, n)
  <2>1. s \in [1..n -> Folders]
    BY <1>0, <1>2
  <2>2. QED BY <2>1, Turns
<1>3a. /\ h \in [0..n -> Walker] /\ h[0] = Start /\ h[n] = Walk(ps, nodes)
       /\ \A i \in 1..n : h[i] = Visit(ps, nodes, h[i - 1], s[i])
  BY <1>3 DEF IsTurns
<1> HIDE DEF s, S
<1>4. ASSUME NEW i \in 1..n, i = 1 \/ WalkedTo(ps, nodes, h[i - 1], s[i - 1])
      PROVE  WalkedTo(ps, nodes, h[i], s[i])
  <2>1. /\ s[i] \in S /\ h[i - 1] \in Walker /\ h[i] = Visit(ps, nodes, h[i - 1], s[i])
    BY <1>2, <1>3a
  <2>2. ReadyFor(ps, nodes, h[i - 1], Popped(h[i - 1].stack, s[i]), s[i])
    <3>1. CASE i = 1
      <4>1. \A e \in S : ~Before(e, s[i])
        <5>1. TAKE e \in S
        <5>2. PICK j \in 1..n : s[j] = e
          BY <1>2
        <5>3. ~(j < i)
          BY <3>1
        <5>4. QED BY <1>2, <5>2, <5>3
      <4>2. h[i - 1] = Start
        BY <1>3a, <3>1
      <4>3. Popped(Start.stack, s[i]) = <<>>
        BY DEF Popped, Start
      <4>4. ReadyFor(ps, nodes, Start, <<>>, s[i])
        BY <2>1, <4>1, ReadyFirst DEF S
      <4>5. QED BY <4>2, <4>3, <4>4
    <3>2. CASE i # 1
      <4>1. i - 1 \in 1..n
        BY <3>2
      <4>2. s[i - 1] \in S /\ Before(s[i - 1], s[i])
        BY <1>2, <4>1
      <4>3. \A e \in S : Before(e, s[i]) => e = s[i - 1] \/ Before(e, s[i - 1])
        <5>1. TAKE e \in S
        <5>2. HAVE Before(e, s[i])
        <5>3. PICK j \in 1..n : s[j] = e
          BY <1>2
        <5>4. j < i
          BY <1>2, <5>2, <5>3
        <5>5. j = i - 1 \/ j < i - 1
          BY <5>4
        <5>6. QED BY <1>2, <4>1, <5>3, <5>5
      <4>4. WalkedTo(ps, nodes, h[i - 1], s[i - 1])
        BY <1>4, <3>2
      <4>5. QED BY <2>1, <4>2, <4>3, <4>4, ReadyNext DEF S
    <3>3. QED BY <3>1, <3>2
  <2>3. QED BY <2>1, <2>2, Turn DEF S
<1>5. \A i \in 1..n : WalkedTo(ps, nodes, h[i], s[i])
  <2> DEFINE Bad == {i \in 1..n : ~WalkedTo(ps, nodes, h[i], s[i])}
  <2>1. ASSUME Bad # {} PROVE FALSE
    <3>1. Bad \in SUBSET Nat
      OBVIOUS
    <3> HIDE DEF Bad
    <3>2. PICK i \in Bad : \A j \in Bad : i <= j
      BY <2>1, <3>1, Least
    <3>3. i \in 1..n /\ ~WalkedTo(ps, nodes, h[i], s[i])
      BY DEF Bad
    <3>4. i # 1
      BY <1>4, <3>3
    <3>5. i - 1 \in 1..n /\ ~(i <= i - 1)
      BY <3>3, <3>4
    <3>6. WalkedTo(ps, nodes, h[i - 1], s[i - 1])
      BY <3>2, <3>5 DEF Bad
    <3>7. QED BY <1>4, <3>3, <3>6
  <2>2. QED BY <2>1
<1>6. CASE n = 0
  <2>1. S = {}
    BY <1>0, <1>1, <1>6, FS_EmptySet
  <2>2. QED BY <1>3a, <1>6, <2>1 DEF S
<1>7. CASE n # 0
  <2>1. n \in 1..n
    BY <1>7
  <2>2. s[n] \in S /\ WalkedTo(ps, nodes, Walk(ps, nodes), s[n])
    BY <1>2, <1>3a, <1>5, <2>1
  <2>3. \A e \in S : e = s[n] \/ Before(e, s[n])
    <3>1. TAKE e \in S
    <3>2. PICK j \in 1..n : s[j] = e
      BY <1>2
    <3>3. j = n \/ j < n
      OBVIOUS
    <3>4. QED BY <1>2, <2>1, <3>2, <3>3
  <2>4. QED BY <2>2, <2>3 DEF S
<1>8. QED BY <1>6, <1>7

-----------------------------------------------------------------------------

(* With one existing folder at the top no file is missing in the answer.    *)
LEMMA AllNamed ==
    ASSUME NEW ps \in SUBSET Paths, NEW nodes, IsTree(nodes), OneTopFolder(ps, nodes)
    PROVE  InTree(ps, nodes) \subseteq Warned(ps, nodes)
<1>1. ASSUME NEW p \in InTree(ps, nodes) PROVE p \in Warned(ps, nodes)
  <2>1. p \in ps /\ NodeOf(p) \in nodes
    BY DEF InTree
  <2>2. CASE Folder[p] = <<>>
    BY <2>1, <2>2 DEF Warned, TopPaths
  <2>3. CASE Folder[p] # <<>>
    <3>1. FolderOf(p) = Folder[p] /\ NodeOf(p) = Append(FolderOf(p), Name[p])
      BY <2>3 DEF FolderOf, NodeOf
    <3>2. FolderOf(p) \in Folders /\ FolderOf(p) \in FoldersOf(ps)
      BY <2>1, FolderType, AskedFolders
    <3>3. FolderOf(p) \in nodes
      <4>1. PICK f \in Folders : f = FolderOf(p)
        BY <3>2
      <4>2. PICK a \in Int : a = Name[p]
        BY <2>1, NamesAssumption
      <4>2a. Append(f, a) \in Seq(Int)
        <5>1. f \in Seq(Int)
          BY DEF Folders
        <5>2. QED BY <5>1
      <4>3. PICK g \in Seq(Int) : g = Append(f, a)
        BY <4>2a
      <4>4. g \in nodes
        BY <2>1, <3>1, <4>1, <4>2, <4>3
      <4>5. f \in Seq(Int) /\ Len(f) <= Len(g) /\ \A i \in 1..Len(f) : f[i] = g[i]
        BY <4>3 DEF Folders
      <4>6. IsPrefix(f, g)
        BY <4>5, PrefixIs
      <4>7. QED BY <4>1, <4>4, <4>6, TreeIs
    <3>4. PICK x \in FoldersOf(ps) :
                 /\ \A e \in FoldersOf(ps) : e = x \/ Before(e, x)
                 /\ WalkedTo(ps, nodes, Walk(ps, nodes), x)
      BY <3>2, WalkIs
    <3>5. p \in Walk(ps, nodes).found
      BY <2>1, <3>1, <3>2, <3>3, <3>4 DEF WalkedTo
    <3>6. QED BY <2>1, <3>5 DEF Warned
  <2>4. QED BY <2>2, <2>3
<1>2. QED BY <1>1

(* A file without a folder is in the answer only if there is a node for it. *)
LEMMA TopNamed ==
    ASSUME NEW ps \in SUBSET Paths, NEW nodes, IsTree(nodes)
    PROVE  Warned(ps, nodes) \cap TopPaths \subseteq InTree(ps, nodes)
<1>1. ASSUME NEW p \in Walk(ps, nodes).found, Folder[p] = <<>> PROVE FALSE
  <2>1. FolderOf(p) = <<0>>
    BY <1>1 DEF FolderOf
  <2>2. Walk(ps, nodes) # Start
    BY DEF Start
  <2>3. PICK x \in FoldersOf(ps) : WalkedTo(ps, nodes, Walk(ps, nodes), x)
    BY <2>2, WalkIs
  <2>4. QED BY <2>1, <2>3 DEF WalkedTo
<1>2. QED BY <1>1 DEF Warned, TopPaths, InTree

(* Without a gap the answer names no other file.                            *)
LEMMA OnlyNamed ==
    ASSUME NEW ps \in SUBSET Paths, NEW nodes, IsTree(nodes),
           OneTopFolder(ps, nodes), NoGap(ps, nodes)
    PROVE  Warned(ps, nodes) \subseteq InTree(ps, nodes)
<1>1. Walk(ps, nodes).found \subseteq InTree(ps, nodes)
  <2>1. CASE Walk(ps, nodes) = Start
    BY <2>1 DEF Start
  <2>2. ASSUME NEW x \in FoldersOf(ps), WalkedTo(ps, nodes, Walk(ps, nodes), x)
        PROVE  Walk(ps, nodes).found \subseteq InTree(ps, nodes)
    BY <2>2 DEF WalkedTo
  <2>3. QED BY <2>1, <2>2, WalkIs
<1>2. QED BY <1>1 DEF Warned, InTree

(* The request names files, and the tree is one.                            *)
Request == asking \in SUBSET Paths /\ IsTree(tree)

(* Whatever the page asks for and whatever is in the collection: if at most *)
(* one folder at the top exists, every file with a node is in the answer.   *)
THEOREM NoneIsMissed == Request => AllAreNamed
  BY AllNamed DEF Request, AllAreNamed

(* ... and if no missing folder encloses one that is asked for, no file     *)
(* without a node is, whatever equal names there are in different places.   *)
THEOREM NoneIsInvented == Request => OnlyThoseAreNamed
  BY OnlyNamed DEF Request, OnlyThoseAreNamed

=============================================================================
