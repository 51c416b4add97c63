------------------------- MODULE PreserveFormProofs -------------------------
(***************************************************************************)
(* Theorems about PreserveForm: one upload at a time, which the button     *)
(* cancels, and which sends what is listed.                                *)
(***************************************************************************)
EXTENDS PreserveForm, NaturalFacts, SequenceTheorems, TLAPS

-----------------------------------------------------------------------------
(* Handlers of a button.                                                    *)

Distinct(s) == \A i, j \in DOMAIN s : i # j => s[i] # s[j]

(* removeEventListener takes one handler off, if it is there, and leaves    *)
(* the others.                                                              *)
LEMMA Removed ==
    ASSUME NEW s \in Seq(Nat), Distinct(s), NEW e
    PROVE  /\ RemoveFirst(s, e) \in Seq(Nat)
           /\ Distinct(RemoveFirst(s, e))
           /\ \A x : Contains(RemoveFirst(s, e), x) <=> Contains(s, x) /\ x # e
<1> DEFINE r == RemoveFirst(s, e)
<1>1. CASE ~ Contains(s, e)
  <2>1. r = s
    BY <1>1 DEF RemoveFirst, Contains
  <2>2. QED BY <1>1, <2>1 DEF Contains
<1>2. CASE Contains(s, e)
  <2>1. PICK k \in 1..Len(s) : s[k] = e
    BY <1>2 DEF Contains
  <2>2. {i \in 1..Len(s) : s[i] = e} = {k}
    BY <2>1 DEF Distinct
  <2>3. SelectInSeq(s, LAMBDA v : v = e) = k
    BY <2>1, <2>2 DEF SelectInSeq, Min
  <2>4. r = SubSeq(s, 1, k - 1) \o SubSeq(s, k + 1, Len(s))
    BY <2>1, <2>3 DEF RemoveFirst, RemoveAt
  <2> DEFINE a == SubSeq(s, 1, k - 1)
             b == SubSeq(s, k + 1, Len(s))
  <2> HIDE DEF r
  <2>0. PICK l \in Nat : l = Len(s)
    OBVIOUS
  <2>a. /\ a \in Seq(Nat) /\ Len(a) = k - 1
        /\ \A i \in 1..(k - 1) : a[i] = s[i]
    BY <2>1
  <2>b. /\ b \in Seq(Nat) /\ Len(b) = Len(s) - k
        /\ \A i \in 1..(Len(s) - k) : b[i] = s[i + k]
    BY <2>1
  <2> HIDE DEF a, b
  <2>c. r = a \o b
    BY <2>4 DEF a, b
  <2>d. r \in Seq(Nat) /\ Len(r) = l - 1 /\ k \in 1..l /\ DOMAIN r = 1..(l - 1)
    <3>1. r \in Seq(Nat) /\ Len(r) = Len(a) + Len(b)
      BY <2>a, <2>b, <2>c, ConcatProperties
    <3>2. k \in 1..l /\ (k - 1) + (l - k) = l - 1
      BY <2>0, <2>1
    <3>3. Len(a) + Len(b) = (k - 1) + (l - k)
      BY <2>0, <2>a, <2>b
    <3>4. Len(r) = l - 1
      BY <3>1, <3>2, <3>3
    <3>5. DOMAIN r = 1..Len(r)
      BY <3>1
    <3>6. QED BY <3>1, <3>2, <3>4, <3>5
  <2>e. ASSUME NEW i \in 1..(l - 1) PROVE r[i] = IF i < k THEN a[i] ELSE b[i - (k - 1)]
    <3>1. i \in 1..((k - 1) + (l - k)) /\ ((i <= k - 1) <=> (i < k))
      BY <2>d
    <3>2. (a \o b)[i] = IF i <= Len(a) THEN a[i] ELSE b[i - Len(a)]
      BY <2>0, <2>a, <2>b, <3>1, ConcatProperties
    <3>3. QED BY <2>a, <2>c, <3>1, <3>2
  <2>5. ASSUME NEW i \in 1..(l - 1) PROVE r[i] = IF i < k THEN s[i] ELSE s[i + 1]
    <3>1. CASE i < k
      <4>1. i \in 1..(k - 1)
        BY <2>d, <3>1
      <4>2. QED BY <2>a, <2>e, <3>1, <4>1
    <3>2. CASE ~ (i < k)
      <4>1. i - (k - 1) \in 1..(l - k) /\ (i - (k - 1)) + k = i + 1
        BY <2>d, <3>2
      <4>2. b[i - (k - 1)] = s[(i - (k - 1)) + k]
        BY <2>0, <2>b, <4>1
      <4>3. QED BY <2>e, <3>2, <4>1, <4>2
    <3>3. QED BY <3>1, <3>2
  <2>6. DOMAIN s = 1..l
    BY <2>0
  <2>7. ASSUME NEW i \in DOMAIN r, NEW j \in DOMAIN r, i # j PROVE r[i] # r[j]
    <3>0. i \in 1..(l - 1) /\ j \in 1..(l - 1)
      BY <2>7, <2>d
    <3>1. PICK x \in 1..l : x = (IF i < k THEN i ELSE i + 1) /\ r[i] = s[x]
      <4>1. i \in 1..l /\ i + 1 \in 1..l
        BY <3>0
      <4>2. QED BY <2>5, <3>0, <4>1
    <3>2. PICK y \in 1..l : y = (IF j < k THEN j ELSE j + 1) /\ r[j] = s[y]
      <4>1. j \in 1..l /\ j + 1 \in 1..l
        BY <3>0
      <4>2. QED BY <2>5, <3>0, <4>1
    <3>3. x # y
      <4>1. \A v, w \in Int : v # w => (IF v < k THEN v ELSE v + 1) # (IF w < k THEN w ELSE w + 1)
        BY <2>d
      <4>2. QED BY <2>7, <3>0, <3>1, <3>2, <4>1
    <3>4. QED BY <2>6, <3>1, <3>2, <3>3 DEF Distinct
  <2>8. ASSUME NEW x, Contains(s, x), x # e PROVE Contains(r, x)
    <3>1. PICK i \in 1..l : s[i] = x
      BY <2>0, <2>8 DEF Contains
    <3>2. i # k
      BY <2>1, <2>8, <3>1
    <3>3. PICK j \in 1..(l - 1) : r[j] = s[i]
      <4>1. CASE i < k
        <5>1. i \in 1..(l - 1)
          BY <2>d, <4>1
        <5>2. QED BY <2>5, <4>1, <5>1
      <4>2. CASE ~ (i < k)
        <5>1. i - 1 \in 1..(l - 1) /\ ~ (i - 1 < k) /\ (i - 1) + 1 = i
          BY <2>d, <3>2, <4>2
        <5>2. r[i - 1] = s[(i - 1) + 1]
          BY <2>5, <5>1
        <5>3. QED BY <5>1, <5>2
      <4>3. QED BY <4>1, <4>2
    <3>4. QED BY <2>d, <3>1, <3>3 DEF Contains
  <2>9. ASSUME NEW x, Contains(r, x) PROVE Contains(s, x) /\ x # e
    <3>1. PICK i \in 1..(l - 1) : r[i] = x
      BY <2>9, <2>d DEF Contains
    <3>2. PICK j \in 1..l : j # k /\ s[j] = x
      <4>1. CASE i < k
        <5>1. i \in 1..l /\ i # k
          BY <2>d, <4>1
        <5>2. QED BY <2>5, <3>1, <4>1, <5>1
      <4>2. CASE ~ (i < k)
        <5>1. i + 1 \in 1..l /\ i + 1 # k
          BY <2>d, <4>2
        <5>2. QED BY <2>5, <3>1, <4>2, <5>1
      <4>3. QED BY <4>1, <4>2
    <3>3. Contains(s, x)
      BY <2>0, <3>2 DEF Contains
    <3>4. s[j] # s[k]
      BY <2>6, <2>d, <3>2 DEF Distinct
    <3>5. QED BY <2>1, <3>2, <3>3, <3>4
  <2>10. Distinct(r)
    BY <2>7 DEF Distinct
  <2>11. QED BY <2>d, <2>8, <2>9, <2>10 DEF r
<1>3. QED BY <1>1, <1>2

(* addEventListener of one that is not there adds it at the end.            *)
LEMMA Added ==
    ASSUME NEW s \in Seq(Nat), Distinct(s), NEW e \in Nat, ~ Contains(s, e)
    PROVE  /\ Append(s, e) \in Seq(Nat)
           /\ Distinct(Append(s, e))
           /\ \A x : Contains(Append(s, e), x) <=> Contains(s, x) \/ x = e
<1> DEFINE r == Append(s, e)
<1>1. /\ r \in Seq(Nat) /\ Len(r) = Len(s) + 1 /\ Len(s) \in Nat
      /\ DOMAIN r = 1..Len(s) + 1 /\ DOMAIN s = 1..Len(s)
      /\ \A i \in 1..Len(s) : r[i] = s[i]
      /\ r[Len(s) + 1] = e
  OBVIOUS
<1> HIDE DEF r
<1>2. Distinct(r)
  BY <1>1 DEF Distinct, Contains
<1>3. \A x : Contains(r, x) <=> Contains(s, x) \/ x = e
  BY <1>1 DEF Contains
<1>4. QED BY <1>1, <1>2, <1>3 DEF r

(* A single handler that is taken off leaves none, another stays.           *)
LEMMA RemovedOfOne ==
    ASSUME NEW n \in Nat, NEW e
    PROVE  RemoveFirst(<<n>>, e) = IF n = e THEN <<>> ELSE <<n>>
<1>1. CASE n # e
  <2>1. ~ \E i \in 1..Len(<<n>>) : <<n>>[i] = e
    BY <1>1
  <2>2. QED BY <1>1, <2>1 DEF RemoveFirst
<1>2. CASE n = e
  <2>1. {i \in 1..Len(<<n>>) : <<n>>[i] = e} = {1}
    BY <1>2
  <2>2. SelectInSeq(<<n>>, LAMBDA v : v = e) = 1
    BY <2>1 DEF SelectInSeq, Min
  <2>3. \E i \in 1..Len(<<n>>) : <<n>>[i] = e
    BY <1>2
  <2>5. RemoveFirst(<<n>>, e) = RemoveAt(<<n>>, 1)
    BY <2>2, <2>3 DEF RemoveFirst
  <2>6. RemoveAt(<<n>>, 1) = SubSeq(<<n>>, 1, 0) \o SubSeq(<<n>>, 2, 1)
    BY DEF RemoveAt
  <2>4. QED BY <1>2, <2>5, <2>6
<1>3. QED BY <1>1, <1>2

-----------------------------------------------------------------------------
(* The handlers of one click run one after the other.                       *)

(* The recursive function behind the FoldLeft of Click.                     *)
IsClick(f, p, s, D) ==
    f = [S \in SUBSET D |-> IF S = {} THEN p
                            ELSE Handle(f[S \ {Max(S)}], s[Max(S)])]

(* The handler with the largest number of a set.                            *)
LEMMA LargestIs ==
    ASSUME NEW S \in SUBSET Nat, NEW m \in S, \A x \in S : m >= x
    PROVE  Max(S) = m
<1>1. PICK c : c = CHOOSE x \in S : \A y \in S : x >= y
  OBVIOUS
<1>2. c \in S /\ c >= m
  BY <1>1
<1>3. m >= c /\ c \in Nat /\ m \in Nat
  BY <1>2
<1>4. c = m
  BY <1>2, <1>3
<1>5. QED BY <1>1, <1>4 DEF Max

(* There is such a function: that of the first k handlers extends to k + 1. *)
LEMMA ClickExists ==
    ASSUME NEW p, NEW s, NEW n \in Nat
    PROVE  \E f : IsClick(f, p, s, 1..n)
<1> DEFINE Bad == {k \in Nat : ~ \E f : IsClick(f, p, s, 1..k)}
<1>1. ASSUME Bad # {} PROVE FALSE
  <2>1. PICK k \in Bad : \A j \in Bad : k <= j
    BY <1>1, Least
  <2>2. k # 0
    <3>1. ASSUME k = 0 PROVE FALSE
      <4>1. SUBSET (1..0) = {{}}
        OBVIOUS
      <4> DEFINE f == [S \in SUBSET (1..0) |-> p]
      <4>2. IsClick(f, p, s, 1..0)
        BY <4>1 DEF IsClick
      <4>3. QED BY <3>1, <4>2
    <3>2. QED BY <3>1
  <2>3. PICK f : IsClick(f, p, s, 1..(k - 1))
    <3>1. k - 1 \in Nat /\ ~ (k <= k - 1)
      BY <2>2
    <3>2. QED BY <2>1, <3>1
  <2> DEFINE g == [S \in SUBSET (1..k) |-> IF k \in S THEN Handle(f[S \ {k}], s[k]) ELSE f[S]]
  <2>4. ASSUME NEW S \in SUBSET (1..k)
        PROVE  g[S] = IF S = {} THEN p ELSE Handle(g[S \ {Max(S)}], s[Max(S)])
    <3>1. CASE k \in S
      <4>1. Max(S) = k
        <5>1. S \in SUBSET Nat /\ \A x \in S : k >= x
          OBVIOUS
        <5>2. QED BY <3>1, <5>1, LargestIs
      <4>2. g[S \ {k}] = f[S \ {k}]
        OBVIOUS
      <4>3. QED BY <3>1, <4>1, <4>2
    <3>2. CASE k \notin S
      <4>1. S \in SUBSET (1..(k - 1))
        BY <3>2
      <4>2. f[S] = IF S = {} THEN p ELSE Handle(f[S \ {Max(S)}], s[Max(S)])
        BY <2>3, <4>1 DEF IsClick
      <4>3. g[S] = f[S]
        BY <3>2
      <4>4. PICK m : m = Max(S)
        OBVIOUS
      <4>5. g[S \ {m}] = f[S \ {m}]
        BY <3>2
      <4>6. QED BY <4>2, <4>3, <4>4, <4>5
    <3>3. QED BY <3>1, <3>2
  <2> HIDE DEF g
  <2>5. g = [S \in SUBSET (1..k) |-> IF S = {} THEN p ELSE Handle(g[S \ {Max(S)}], s[Max(S)])]
    BY <2>4 DEF g
  <2>6. IsClick(g, p, s, 1..k)
    BY <2>5 DEF IsClick
  <2>7. QED BY <2>1, <2>6
<1>2. QED BY <1>1

(* The pages between the handlers of a click.                               *)
LEMMA ClickSteps ==
    ASSUME NEW p, NEW s \in Seq(Nat)
    PROVE  \E f : /\ f[0] = p
                  /\ \A k \in 1..Len(s) : f[k] = Handle(f[k - 1], s[k])
                  /\ FoldLeft(Handle, p, s) = f[Len(s)]
<1>0. Len(s) \in Nat /\ DOMAIN s = 1..Len(s)
  OBVIOUS
<1>1. PICK h : h = CHOOSE e : IsClick(e, p, s, 1..Len(s))
  OBVIOUS
<1>2. IsClick(h, p, s, 1..Len(s))
  BY <1>0, <1>1, ClickExists
<1>3. FoldLeft(Handle, p, s) = h[1..Len(s)]
  BY <1>0, <1>1 DEF FoldLeft, MapThenFoldSet, IsClick
<1> DEFINE f == [k \in 0..Len(s) |-> h[1..k]]
<1>4. f[0] = p
  <2>1. 1..0 = {}
    OBVIOUS
  <2>2. h[{}] = p
    BY <1>2 DEF IsClick
  <2>3. QED BY <1>0, <2>1, <2>2
<1>5. ASSUME NEW k \in 1..Len(s) PROVE f[k] = Handle(f[k - 1], s[k])
  <2>0. k \in Nat /\ 1 <= k /\ k <= Len(s) /\ k \in 1..k
    BY <1>0
  <2>1. 1..k \in SUBSET (1..Len(s)) /\ 1..k # {}
    <3>1. \A x \in 1..k : x \in 1..Len(s)
      BY <1>0, <2>0
    <3>2. QED BY <2>0, <3>1
  <2>2. Max(1..k) = k
    <3>1. 1..k \in SUBSET Nat /\ \A x \in 1..k : k >= x
      BY <1>0
    <3>2. QED BY <2>0, <3>1, LargestIs
  <2>3. (1..k) \ {k} = 1..(k - 1)
    BY <2>0
  <2>4. h[1..k] = Handle(h[1..(k - 1)], s[k])
    BY <1>2, <2>1, <2>2, <2>3 DEF IsClick
  <2>5. QED BY <1>0, <2>1, <2>4
<1>6. f[Len(s)] = h[1..Len(s)]
  BY <1>0
<1> HIDE DEF f
<1>7. QED BY <1>3, <1>4, <1>5, <1>6

(* A click runs no handler of none, and one of one.                         *)
LEMMA NoneOrOne ==
    ASSUME NEW p
    PROVE  /\ FoldLeft(Handle, p, <<>>) = p
           /\ \A n \in Nat : FoldLeft(Handle, p, <<n>>) = Handle(p, n)
<1>1. ASSUME NEW z \in Seq(Nat), Len(z) = 0 PROVE FoldLeft(Handle, p, z) = p
  <2>1. PICK f : /\ f[0] = p
                 /\ \A k \in 1..Len(z) : f[k] = Handle(f[k - 1], z[k])
                 /\ FoldLeft(Handle, p, z) = f[Len(z)]
    BY ClickSteps
  <2>2. QED BY <1>1, <2>1
<1>2. ASSUME NEW z \in Seq(Nat), Len(z) = 1 PROVE FoldLeft(Handle, p, z) = Handle(p, z[1])
  <2>1. PICK f : /\ f[0] = p
                 /\ \A k \in 1..Len(z) : f[k] = Handle(f[k - 1], z[k])
                 /\ FoldLeft(Handle, p, z) = f[Len(z)]
    BY ClickSteps
  <2>2. 1 \in 1..Len(z) /\ 1 - 1 = 0
    BY <1>2
  <2>3. f[1] = Handle(f[0], z[1])
    BY <2>1, <2>2
  <2>4. QED BY <1>2, <2>1, <2>3
<1>3. FoldLeft(Handle, p, <<>>) = p
  <2>1. <<>> \in Seq(Nat) /\ Len(<<>>) = 0
    OBVIOUS
  <2>2. QED BY <1>1, <2>1
<1>4. ASSUME NEW n \in Nat PROVE FoldLeft(Handle, p, <<n>>) = Handle(p, n)
  <2>1. <<n>> \in Seq(Nat) /\ Len(<<n>>) = 1 /\ <<n>>[1] = n
    OBVIOUS
  <2>2. FoldLeft(Handle, p, <<n>>) = Handle(p, <<n>>[1])
    BY <1>2, <2>1
  <2>3. QED BY <2>1, <2>2
<1>5. QED BY <1>3, <1>4

-----------------------------------------------------------------------------
(* Whatever is clicked and answered: the types, what is on the form, and    *)
(* the requests there were.                                                 *)

Sound(p) ==
    /\ p \in Page
    /\ p.timers \subseteq DOMAIN p.sent
    /\ Distinct(p.handlers)
    /\ \A n : Contains(p.handlers, n) => n \in 0..Len(p.sent)
    /\ ~ (p.fileOff /\ p.dirOff)
    /\ p.fields.listed = IF p.fileOff THEN p.fields.dir ELSE p.fields.file
    /\ \A n \in DOMAIN p.sent : p.sent[n].files = p.sent[n].listed

(* resetForm keeps it, whatever was on the form.                            *)
LEMMA ResetSound ==
    ASSUME NEW p, Sound(p)
    PROVE  Sound(Reset(p))
<1> DEFINE h == RemoveFirst(p.handlers, ResetHandler)
           g == Append(h, ResetHandler)
           q == Reset(p)
<1>1. p \in Page /\ p.handlers \in Seq(Nat) /\ ResetHandler \in Nat
  BY DEF Sound, Page, ResetHandler
<1>2. /\ h \in Seq(Nat) /\ Distinct(h)
      /\ \A x : Contains(h, x) <=> Contains(p.handlers, x) /\ x # ResetHandler
  BY <1>1, Removed DEF Sound
<1> HIDE DEF h
<1>3. /\ g \in Seq(Nat) /\ Distinct(g)
      /\ \A x : Contains(g, x) <=> Contains(h, x) \/ x = ResetHandler
  BY <1>1, <1>2, Added
<1> HIDE DEF g
<1>4. q = [p EXCEPT !.fields = NoFields, !.dirOff = FALSE, !.fileOff = FALSE,
                    !.submitOff = FALSE, !.cancelOff = FALSE, !.aborting = FALSE,
                    !.handlers = g]
  BY DEF Reset, g, h
<1>5. NoFields \in Fields
  BY DEF NoFields, Fields
<1> HIDE DEF q
<1>6. q \in Page /\ q.handlers = g /\ q.sent = p.sent /\ q.timers = p.timers
      /\ q.fields = NoFields /\ ~ q.fileOff
  BY <1>1, <1>3, <1>4, <1>5 DEF Page
<1>7. \A n : Contains(q.handlers, n) => n \in 0..Len(q.sent)
  <2>1. Len(p.sent) \in Nat
    BY <1>1 DEF Page
  <2>2. QED BY <1>2, <1>3, <1>6, <2>1 DEF Sound, ResetHandler
<1>8. Sound(q)
  BY <1>3, <1>6, <1>7 DEF Sound, NoFields
<1>9. QED BY <1>8 DEF q

(* XHRuploadFiles keeps it, and adds one request.                           *)
LEMMA StartSound ==
    ASSUME NEW p, Sound(p), NEW by \in {"submit", "retry", "cancel"}
    PROVE  /\ Sound(Start(p, by))
           /\ DOMAIN Start(p, by).sent = DOMAIN p.sent \cup {Len(p.sent) + 1}
<1> DEFINE h == RemoveFirst(p.handlers, ResetHandler)
           n == Len(p.sent) + 1
           g == Append(h, n)
           f == IF p.fileOff THEN p.fields.dir ELSE p.fields.file
           r == [by |-> by, files |-> f, listed |-> p.fields.listed, open |-> TRUE]
           t == Append(p.sent, r)
           q == Start(p, by)
<1>1. /\ p \in Page /\ p.handlers \in Seq(Nat) /\ p.sent \in Seq(Request)
      /\ Len(p.sent) \in Nat /\ p.fields \in Fields
  BY DEF Sound, Page
<1>2. /\ h \in Seq(Nat) /\ Distinct(h)
      /\ \A x : Contains(h, x) <=> Contains(p.handlers, x) /\ x # ResetHandler
  BY <1>1, Removed DEF Sound
<1>3. n \in Nat /\ ~ Contains(h, n)
  BY <1>1, <1>2 DEF Sound
<1> HIDE DEF h
<1>4. /\ g \in Seq(Nat) /\ Distinct(g)
      /\ \A x : Contains(g, x) <=> Contains(h, x) \/ x = n
  BY <1>2, <1>3, Added
<1>5. r \in Request /\ r.files = r.listed
  BY <1>1 DEF Sound, Request, Fields
<1>6. /\ t \in Seq(Request) /\ Len(t) = n /\ DOMAIN t = 1..n /\ DOMAIN p.sent = 1..Len(p.sent)
      /\ \A i \in 1..Len(p.sent) : t[i] = p.sent[i]
      /\ t[n] = r
  BY <1>1, <1>5, AppendProperties
<1>7. q = [p EXCEPT !.aborting = p.retrying /\ @, !.handlers = g, !.sent = t]
  BY DEF Start, g, h
<1> HIDE DEF g, r, t, q
<1>8. q \in Page /\ q.handlers = g /\ q.sent = t /\ q.timers = p.timers
      /\ q.fields = p.fields /\ q.fileOff = p.fileOff /\ q.dirOff = p.dirOff
  BY <1>1, <1>4, <1>6, <1>7 DEF Page
<1>9. \A x : Contains(q.handlers, x) => x \in 0..Len(q.sent)
  BY <1>1, <1>2, <1>4, <1>6, <1>8 DEF Sound
<1>10. \A i \in DOMAIN q.sent : q.sent[i].files = q.sent[i].listed
  <2>1. \A i \in 1..n : i \in 1..Len(p.sent) \/ i = n
    BY <1>1
  <2>2. QED BY <1>5, <1>6, <1>8, <2>1 DEF Sound
<1>11. q.timers \subseteq DOMAIN q.sent
  BY <1>1, <1>6, <1>8 DEF Sound
<1>12. Sound(q)
  BY <1>4, <1>8, <1>9, <1>10, <1>11 DEF Sound
<1>13. DOMAIN q.sent = DOMAIN p.sent \cup {n}
  BY <1>1, <1>6, <1>8
<1>14. QED BY <1>12, <1>13 DEF q

(* The n-th request has ended, and its handler is taken off.                *)
Left(p, n) ==
    [[p EXCEPT !.sent[n].open = FALSE] EXCEPT !.handlers = RemoveFirst(p.handlers, n)]

LEMMA EndedSound ==
    ASSUME NEW p, Sound(p), NEW n \in DOMAIN p.sent, NEW status
    PROVE  Sound(Left(p, n)) /\ Sound(Ended(p, n, status))
<1> DEFINE q == [p EXCEPT !.sent[n].open = FALSE]
           w == [q EXCEPT !.retrying = TRUE, !.timers = @ \cup {n}, !.last = n]
           h == RemoveFirst(p.handlers, n)
           u == [q EXCEPT !.handlers = h]
<1>1. /\ p \in Page /\ p.handlers \in Seq(Nat) /\ p.sent \in Seq(Request)
      /\ Len(p.sent) \in Nat /\ DOMAIN p.sent = 1..Len(p.sent)
  BY DEF Sound, Page
<1>2. /\ [p.sent EXCEPT ![n].open = FALSE] \in Seq(Request)
      /\ Len([p.sent EXCEPT ![n].open = FALSE]) = Len(p.sent)
      /\ \A i \in 1..Len(p.sent) :
            [p.sent EXCEPT ![n].open = FALSE][i]
               = IF i = n THEN [p.sent[n] EXCEPT !.open = FALSE] ELSE p.sent[i]
  <2>1. p.sent[n] \in Request
    BY <1>1
  <2>2. [p.sent[n] EXCEPT !.open = FALSE] \in Request
    BY <2>1 DEF Request
  <2>3. [p.sent EXCEPT ![n].open = FALSE] = [p.sent EXCEPT ![n] = [p.sent[n] EXCEPT !.open = FALSE]]
    BY <1>1
  <2>4. QED BY <1>1, <2>2, <2>3, ExceptSeq
<1>3. /\ q \in Page /\ q.sent = [p.sent EXCEPT ![n].open = FALSE]
      /\ q.handlers = p.handlers /\ q.timers = p.timers
      /\ q.fields = p.fields /\ q.fileOff = p.fileOff /\ q.dirOff = p.dirOff
  BY <1>1, <1>2 DEF Page
<1> HIDE DEF q
<1>4. DOMAIN q.sent = DOMAIN p.sent /\ Len(q.sent) = Len(p.sent)
  BY <1>1, <1>2, <1>3
<1>5. \A i \in DOMAIN q.sent : q.sent[i].files = q.sent[i].listed
  <2>1. ASSUME NEW i \in DOMAIN p.sent PROVE q.sent[i].files = q.sent[i].listed
    <3>1. p.sent[i] \in Request
      BY <1>1
    <3>2. p.sent[i].files = p.sent[i].listed
      BY DEF Sound
    <3>3. CASE i = n
      <4>1. q.sent[i] = [p.sent[i] EXCEPT !.open = FALSE]
        BY <1>1, <1>2, <1>3, <3>3
      <4>2. QED BY <3>1, <3>2, <4>1 DEF Request
    <3>4. CASE i # n
      BY <1>1, <1>2, <1>3, <3>2, <3>4
    <3>5. QED BY <3>3, <3>4
  <2>2. QED BY <1>4, <2>1
<1>6. Sound(w)
  <2>1. /\ w \in Page /\ w.sent = q.sent /\ w.handlers = q.handlers
        /\ w.timers = q.timers \cup {n}
        /\ w.fields = p.fields /\ w.fileOff = p.fileOff /\ w.dirOff = p.dirOff
    <3>1. n \in Nat
      BY <1>1
    <3>2. w.timers = q.timers \cup {n} /\ w.timers \in SUBSET Nat
      BY <1>3, <3>1 DEF Page
    <3>3. QED BY <1>3, <3>1, <3>2 DEF Page
  <2> HIDE DEF w
  <2>2. QED BY <1>3, <1>4, <1>5, <2>1 DEF Sound
<1>7. Sound(u)
  <2>1. /\ h \in Seq(Nat) /\ Distinct(h)
        /\ \A x : Contains(h, x) <=> Contains(p.handlers, x) /\ x # n
    BY <1>1, Removed DEF Sound
  <2> HIDE DEF h
  <2>2. /\ u \in Page /\ u.sent = q.sent /\ u.handlers = h /\ u.timers = q.timers
        /\ u.fields = p.fields /\ u.fileOff = p.fileOff /\ u.dirOff = p.dirOff
    BY <1>3, <2>1 DEF Page
  <2> HIDE DEF u
  <2>3. QED BY <1>3, <1>4, <1>5, <2>1, <2>2 DEF Sound
<1>8. Ended(p, n, status) \in {w, Reset(u)}
  <2>1. u = [q EXCEPT !.handlers = RemoveFirst(@, n)]
    BY <1>3
  <2>2. QED BY <2>1 DEF Ended, q
<1>9. Sound(Left(p, n))
  BY <1>7 DEF Left, q
<1>10. QED BY <1>6, <1>7, <1>8, <1>9, ResetSound

(* So do abortXHR ...                                                       *)
LEMMA AbortSound ==
    ASSUME NEW p, Sound(p), NEW n \in DOMAIN p.sent
    PROVE  Sound(AbortXHR(p, n))
<1> DEFINE q == [p EXCEPT !.cancelOff = TRUE, !.aborting = TRUE]
           w == [q EXCEPT !.retrying = FALSE, !.timers = @ \ {p.last}]
<1>1. p \in Page
  BY DEF Sound
<1>2. Sound(q) /\ q.sent = p.sent
  <2>1. /\ q \in Page /\ q.sent = p.sent /\ q.handlers = p.handlers /\ q.timers = p.timers
        /\ q.fields = p.fields /\ q.fileOff = p.fileOff /\ q.dirOff = p.dirOff
    BY <1>1 DEF Page
  <2> HIDE DEF q
  <2>2. QED BY <2>1 DEF Sound
<1> HIDE DEF q
<1>3. Sound(w)
  <2>1. q \in Page
    BY <1>2 DEF Sound
  <2>2. /\ w \in Page /\ w.sent = q.sent /\ w.handlers = q.handlers
        /\ w.timers = q.timers \ {p.last}
        /\ w.fields = q.fields /\ w.fileOff = q.fileOff /\ w.dirOff = q.dirOff
    BY <2>1 DEF Page
  <2> HIDE DEF w
  <2>3. QED BY <1>2, <2>2 DEF Sound
<1>4. Sound(Start(w, "cancel"))
  BY <1>3, StartSound
<1>5. Sound(Ended(q, n, 0))
  BY <1>2, EndedSound
<1>6. AbortXHR(p, n) \in {Start(w, "cancel"), Ended(q, n, 0), q}
  BY DEF AbortXHR, q
<1>7. QED BY <1>2, <1>4, <1>5, <1>6

(* ... a click, however many handlers the button has ...                    *)
LEMMA ClickSound ==
    ASSUME NEW p, Sound(p)
    PROVE  Sound(Click(p))
<1> DEFINE s == RemoveFirst(p.handlers, ResetHandler)
           q == FoldLeft(Handle, p, s)
<1>1. /\ s \in Seq(Nat)
      /\ \A x : Contains(s, x) <=> Contains(p.handlers, x) /\ x # ResetHandler
  BY Removed DEF Sound, Page
<1> HIDE DEF s
<1>2. PICK f : /\ f[0] = p
               /\ \A k \in 1..Len(s) : f[k] = Handle(f[k - 1], s[k])
               /\ FoldLeft(Handle, p, s) = f[Len(s)]
  BY <1>1, ClickSteps
<1> DEFINE Bad == {k \in 0..Len(s) : ~ Sound(f[k])}
<1>3. Bad = {}
  <2>1. SUFFICES ASSUME Bad # {} PROVE FALSE
    OBVIOUS
  <2>2. Len(s) \in Nat
    BY <1>1
  <2>3. PICK k \in Bad : \A j \in Bad : k <= j
    <3>1. Bad \in SUBSET Nat
      BY <2>2
    <3>2. QED BY <2>1, <3>1, Least
  <2>4. k # 0
    BY <1>2
  <2>5. k \in 1..Len(s) /\ k - 1 \in 0..Len(s) /\ ~ (k <= k - 1)
    BY <2>2, <2>4
  <2>6. Sound(f[k - 1])
    BY <2>3, <2>5
  <2>7. f[k] = Handle(f[k - 1], s[k])
    BY <1>2, <2>5
  <2>8. s[k] # ResetHandler /\ s[k] \in Nat
    <3>1. Contains(s, s[k])
      BY <2>5 DEF Contains
    <3>2. QED BY <1>1, <2>5, <3>1
  <2>9. Sound(Handle(f[k - 1], s[k]))
    <3>1. CASE Contains(f[k - 1].handlers, s[k])
      <4>1. s[k] \in 0..Len(f[k - 1].sent) /\ f[k - 1].sent \in Seq(Request)
        BY <2>6, <3>1 DEF Sound, Page
      <4>2. s[k] \in DOMAIN f[k - 1].sent
        BY <2>8, <4>1 DEF ResetHandler
      <4>3. QED BY <2>6, <3>1, <4>2, AbortSound DEF Handle
    <3>2. CASE ~ Contains(f[k - 1].handlers, s[k])
      BY <2>6, <3>2 DEF Handle
    <3>3. QED BY <3>1, <3>2
  <2>10. QED BY <2>7, <2>9
<1>4. Sound(q)
  <2>1. Len(s) \in 0..Len(s)
    BY <1>1
  <2>2. QED BY <1>2, <1>3, <2>1
<1>5. Click(p) \in {Reset(q), q}
  BY DEF Click, s
<1>6. QED BY <1>4, <1>5, ResetSound

(* ... and a selection, which changes nothing that is sent.                 *)
LEMMA SelectedSound ==
    ASSUME NEW p, Sound(p), NEW input \in {"dir", "file"}, NEW pick \in Picks \cup {None},
           input = "dir" => ~ p.dirOff, input = "file" => ~ p.fileOff
    PROVE  /\ Sound(Selected(p, input, pick))
           /\ \A x \in {"handlers", "sent", "timers", "starting", "submitOff", "cancelOff",
                        "retrying"} : Selected(p, input, pick)[x] = p[x]
<1> DEFINE f == [p.fields EXCEPT ![input] = pick, !.listed = pick]
           q == [p EXCEPT !.fields = NoFields, !.dirOff = FALSE, !.fileOff = FALSE,
                          !.waited = 0]
           r == [p EXCEPT !.fields = f, !.waited = 0,
                          !.dirOff = p.dirOff \/ input = "file",
                          !.fileOff = p.fileOff \/ input = "dir"]
<1>1. p \in Page /\ p.fields \in Fields
  BY DEF Sound, Page
<1>2. 0 \in 0..RetryLimit
  BY BoundsAssumption
<1>3. NoFields \in Fields /\ NoFields.listed = NoFields.file
  BY DEF NoFields, Fields
<1>4. f \in Fields
  BY <1>1 DEF Fields
<1>5. f.listed = pick /\ f[input] = pick
  BY <1>1 DEF Fields
<1>6. Sound(q)
  <2>1. /\ q \in Page /\ q.sent = p.sent /\ q.handlers = p.handlers /\ q.timers = p.timers
        /\ q.fields = NoFields /\ ~ q.fileOff /\ ~ q.dirOff
    BY <1>1, <1>2, <1>3 DEF Page
  <2> HIDE DEF q
  <2>2. QED BY <1>3, <2>1 DEF Sound
<1>7. Sound(r)
  <2> HIDE DEF f
  <2>1. /\ r \in Page /\ r.sent = p.sent /\ r.handlers = p.handlers /\ r.timers = p.timers
        /\ r.fields = f /\ r.fileOff = (p.fileOff \/ input = "dir")
        /\ r.dirOff = (p.dirOff \/ input = "file")
    BY <1>1, <1>2, <1>4 DEF Page
  <2> HIDE DEF r
  <2>2. r.fields.listed = IF r.fileOff THEN r.fields.dir ELSE r.fields.file
    BY <1>5, <2>1
  <2>3. ~ (r.fileOff /\ r.dirOff)
    BY <2>1 DEF Sound
  <2>4. QED BY <2>1, <2>2, <2>3 DEF Sound
<1>8. Selected(p, input, pick) \in {q, r}
  BY DEF Selected
<1>9. \A x \in {"handlers", "sent", "timers", "starting", "submitOff", "cancelOff", "retrying"} :
         q[x] = p[x] /\ r[x] = p[x]
  BY <1>1 DEF Page
<1>10. QED BY <1>6, <1>7, <1>8, <1>9

(* Every variable has its type, whatever is clicked, answered and retried   *)
(* (preserve-directory-info.js), and what is on the form agrees.            *)
SoundPage ==
    /\ Sound(page)
    /\ picks \in 0..MaxPicks /\ submits \in 0..MaxSubmits /\ cancels \in 0..MaxCancels
    /\ unguarded \in BOOLEAN

(* The form is so at first (window.onload) ...                              *)
LEMMA SoundInit == Init => SoundPage
<1>1. SUFFICES ASSUME Init PROVE SoundPage
  OBVIOUS
<1>2. NoFields \in Fields /\ NoFields.listed = NoFields.file
  BY DEF NoFields, Fields
<1>3. /\ <<ResetHandler>> \in Seq(Nat) /\ Distinct(<<ResetHandler>>)
      /\ \A n : Contains(<<ResetHandler>>, n) => n = 0
  BY DEF ResetHandler, Distinct, Contains
<1>4. 0 \in 0..RetryLimit /\ 0 \in 0..MaxPicks /\ 0 \in 0..MaxSubmits /\ 0 \in 0..MaxCancels
  BY BoundsAssumption
<1>5. page \in Page
  BY <1>1, <1>2, <1>3, <1>4 DEF Init, Page
<1>6. Sound(page)
  BY <1>1, <1>2, <1>3, <1>5 DEF Init, Sound
<1>7. QED BY <1>1, <1>4, <1>6 DEF Init, SoundPage

(* ... and after each click, answer and retry ...                           *)
LEMMA SoundNext == SoundPage /\ [Next]_vars => SoundPage'
<1> SUFFICES ASSUME SoundPage, [Next]_vars PROVE SoundPage'
  OBVIOUS
<1>0. Sound(page) /\ page \in Page
  BY DEF SoundPage, Sound
<1>1. ASSUME NEW input \in {"dir", "file"}, NEW pick \in Picks \cup {None}, Pick(input, pick)
      PROVE  SoundPage'
  <2>1. Sound(page')
    BY <1>0, <1>1, SelectedSound DEF Pick
  <2>2. picks' \in 0..MaxPicks
    BY <1>1, BoundsAssumption DEF Pick, SoundPage
  <2>3. QED BY <1>1, <2>1, <2>2 DEF Pick, SoundPage, Sound
<1>2. CASE Submit
  <2>1. /\ page' \in Page /\ page'.sent = page.sent /\ page'.handlers = page.handlers
        /\ page'.timers = page.timers /\ page'.fields = page.fields
        /\ page'.fileOff = page.fileOff /\ page'.dirOff = page.dirOff
    <3>1. page.starting + 1 \in Nat
      BY <1>0 DEF Page
    <3>2. page' = [page EXCEPT !.submitOff = TRUE, !.starting = page.starting + 1]
      BY <1>2 DEF Submit
    <3>3. QED BY <1>0, <3>1, <3>2 DEF Page
  <2>2. Sound(page')
    BY <1>0, <2>1 DEF Sound
  <2>3. submits' \in 0..MaxSubmits
    BY <1>2, BoundsAssumption DEF Submit, SoundPage
  <2>4. QED BY <1>2, <2>2, <2>3 DEF Submit, SoundPage, Sound
<1>3. CASE Send
  <2> DEFINE q == [page EXCEPT !.starting = @ - 1]
  <2>1. /\ q \in Page /\ q.sent = page.sent /\ q.handlers = page.handlers
        /\ q.timers = page.timers /\ q.fields = page.fields
        /\ q.fileOff = page.fileOff /\ q.dirOff = page.dirOff
    <3>1. page.starting \in Nat
      BY <1>0 DEF Page
    <3>2. page.starting > 0
      BY <1>3 DEF Send
    <3>3. page.starting - 1 \in Nat
      BY <3>1, <3>2
    <3>4. QED BY <1>0, <3>3 DEF Page
  <2> HIDE DEF q
  <2>2. Sound(q)
    BY <1>0, <2>1 DEF Sound
  <2>3. Sound(page')
    BY <1>3, <2>2, StartSound DEF Send, q
  <2>4. QED BY <1>3, <2>3 DEF Send, SoundPage, Sound
<1>4. CASE Cancel
  <2>1. Sound(page')
    BY <1>0, <1>4, ClickSound DEF Cancel
  <2>2. cancels' \in 0..MaxCancels
    BY <1>4, BoundsAssumption DEF Cancel, SoundPage
  <2>3. unguarded' \in BOOLEAN
    BY <1>4 DEF Cancel, SoundPage
  <2>4. QED BY <1>4, <2>1, <2>2, <2>3 DEF Cancel, SoundPage, Sound
<1>5. ASSUME NEW n \in DOMAIN page.sent, NEW status, Answer(n, status)
      PROVE  SoundPage'
  <2>1. Sound(page')
    BY <1>0, <1>5, EndedSound DEF Answer
  <2>2. QED BY <1>5, <2>1 DEF Answer, SoundPage, Sound
<1>6. ASSUME NEW n \in DOMAIN page.sent, Retry(n)
      PROVE  SoundPage'
  <2> DEFINE q == [page EXCEPT !.timers = @ \ {n},
                               !.waited = IF @ < RetryLimit THEN @ + 1 ELSE @]
  <2>0. (IF page.waited < RetryLimit THEN page.waited + 1 ELSE page.waited) \in 0..RetryLimit
    BY <1>0, BoundsAssumption DEF Page
  <2>1. /\ q \in Page /\ q.sent = page.sent /\ q.handlers = page.handlers
        /\ q.timers = page.timers \ {n} /\ q.fields = page.fields
        /\ q.fileOff = page.fileOff /\ q.dirOff = page.dirOff
    BY <1>0, <2>0 DEF Page
  <2> HIDE DEF q
  <2>2. Sound(q)
    BY <1>0, <2>1 DEF Sound
  <2>3. Sound(page')
    BY <1>6, <2>2, StartSound DEF Retry, q
  <2>4. QED BY <1>6, <2>3 DEF Retry, SoundPage, Sound
<1>7. CASE UNCHANGED vars
  BY <1>7 DEF vars, SoundPage, Sound
<1>8. QED BY <1>1, <1>2, <1>3, <1>4, <1>5, <1>6, <1>7 DEF Next

(* ... and so always.                                                       *)
LEMMA SoundInvariant == Spec => []SoundPage
<1>1. QED BY SoundInit, SoundNext, PTL DEF Spec

(* Every variable has its type, and no handler is on the button twice, for  *)
(* any number of selections, submissions and retries.                       *)
THEOREM TypeCorrect == Spec => []TypeOK
<1>1. SoundPage => TypeOK
  BY DEF SoundPage, Sound, TypeOK, Distinct
<1>2. QED BY <1>1, SoundInvariant, PTL

(* The names that are listed are those of the files that are sent, also     *)
(* when a retry or a cancelled retry reads the selection again.             *)
THEOREM ListedAreSent == Spec => []SentAsListed
<1>1. SoundPage => SentAsListed
  BY DEF SoundPage, Sound, SentAsListed
<1>2. QED BY <1>1, SoundInvariant, PTL

-----------------------------------------------------------------------------
(* One upload at a time.  A submission is idle, about to be sent, under way *)
(* or waiting for its retry; as long as no request timed out, the button    *)
(* has one handler, that of the state.                                      *)

OpenOf(p) == {n \in DOMAIN p.sent : p.sent[n].open}

Idle(p) ==
    /\ p.starting = 0 /\ p.timers = {} /\ OpenOf(p) = {}
    /\ Contains(p.handlers, ResetHandler)
    /\ ~ p.retrying => p.handlers = <<ResetHandler>>

Starting(p) ==
    /\ p.starting = 1 /\ p.timers = {} /\ OpenOf(p) = {}
    /\ p.submitOff
    /\ Contains(p.handlers, ResetHandler)
    /\ ~ p.retrying => p.handlers = <<ResetHandler>>

Uploading(p, n) ==
    /\ p.starting = 0 /\ p.timers = {} /\ OpenOf(p) = {n}
    /\ p.submitOff
    /\ Contains(p.handlers, n) /\ ~ Contains(p.handlers, ResetHandler)
    /\ ~ p.retrying => p.handlers = <<n>>

Waiting(p, n) ==
    /\ p.starting = 0 /\ p.timers = {n} /\ OpenOf(p) = {}
    /\ p.submitOff /\ p.retrying
    /\ ~ Contains(p.handlers, ResetHandler)

InOrder(p) ==
    /\ ~ p.cancelOff
    /\ Idle(p) \/ Starting(p) \/ \E n \in DOMAIN p.sent : Uploading(p, n) \/ Waiting(p, n)

(* resetForm leaves one handler where there was none or its own.            *)
LEMMA ResetEffect ==
    ASSUME NEW p, Sound(p)
    PROVE  /\ Reset(p).starting = p.starting /\ Reset(p).timers = p.timers
           /\ Reset(p).retrying = p.retrying /\ Reset(p).sent = p.sent
           /\ ~ Reset(p).cancelOff
           /\ Contains(Reset(p).handlers, ResetHandler)
           /\ p.handlers \in {<<>>, <<ResetHandler>>} => Reset(p).handlers = <<ResetHandler>>
<1> DEFINE h == RemoveFirst(p.handlers, ResetHandler)
           g == Append(h, ResetHandler)
<1>1. p \in Page /\ p.handlers \in Seq(Nat) /\ ResetHandler \in Nat /\ Distinct(p.handlers)
  BY DEF Sound, Page, ResetHandler
<1>2. /\ h \in Seq(Nat) /\ Distinct(h)
      /\ \A x : Contains(h, x) <=> Contains(p.handlers, x) /\ x # ResetHandler
  BY <1>1, Removed
<1>3. Contains(g, ResetHandler)
  BY <1>1, <1>2, Added
<1>4. p.handlers = <<ResetHandler>> => h = <<>>
  BY <1>1, RemovedOfOne
<1>5. p.handlers = <<>> => h = <<>>
  BY DEF RemoveFirst
<1>6. h = <<>> => g = <<ResetHandler>>
  OBVIOUS
<1> HIDE DEF h, g
<1>7. Reset(p) = [p EXCEPT !.fields = NoFields, !.dirOff = FALSE, !.fileOff = FALSE,
                           !.submitOff = FALSE, !.cancelOff = FALSE, !.aborting = FALSE,
                           !.handlers = g]
  BY DEF Reset, g, h
<1>8. QED BY <1>1, <1>3, <1>4, <1>5, <1>6, <1>7 DEF Page

(* XHRuploadFiles starts the only upload, with the only handler.            *)
LEMMA StartEffect ==
    ASSUME NEW p, Sound(p), NEW by \in {"submit", "retry", "cancel"},
           p.starting = 0, p.timers = {}, OpenOf(p) = {}, p.submitOff, ~ p.cancelOff,
           ~ p.retrying => p.handlers = <<ResetHandler>>
    PROVE  InOrder(Start(p, by))
<1> DEFINE h == RemoveFirst(p.handlers, ResetHandler)
           n == Len(p.sent) + 1
           g == Append(h, n)
           f == IF p.fileOff THEN p.fields.dir ELSE p.fields.file
           r == [by |-> by, files |-> f, listed |-> p.fields.listed, open |-> TRUE]
           t == Append(p.sent, r)
           q == Start(p, by)
<1>1. /\ p \in Page /\ p.handlers \in Seq(Nat) /\ p.sent \in Seq(Request)
      /\ Len(p.sent) \in Nat /\ p.fields \in Fields /\ ResetHandler \in Nat
  BY DEF Sound, Page, ResetHandler
<1>2. /\ h \in Seq(Nat) /\ Distinct(h)
      /\ \A x : Contains(h, x) <=> Contains(p.handlers, x) /\ x # ResetHandler
  BY <1>1, Removed DEF Sound
<1>3. n \in Nat /\ ~ Contains(h, n) /\ n # ResetHandler
  BY <1>1, <1>2 DEF Sound, ResetHandler
<1>4. \A x : Contains(g, x) <=> Contains(h, x) \/ x = n
  BY <1>2, <1>3, Added
<1>5. p.handlers = <<ResetHandler>> => h = <<>>
  BY <1>1, RemovedOfOne
<1>6. h = <<>> => g = <<n>>
  OBVIOUS
<1>7. r \in Request /\ r.open
  BY <1>1 DEF Sound, Request, Fields
<1>8. /\ t \in Seq(Request) /\ Len(t) = n /\ DOMAIN t = 1..n /\ DOMAIN p.sent = 1..Len(p.sent)
      /\ \A i \in 1..Len(p.sent) : t[i] = p.sent[i]
      /\ t[n] = r
  BY <1>1, <1>7, AppendProperties
<1>9. q = [p EXCEPT !.aborting = p.retrying /\ @, !.handlers = g, !.sent = t]
  BY DEF Start, g, h
<1> HIDE DEF g, r, t, q, h
<1>10. /\ q.handlers = g /\ q.sent = t /\ q.timers = {} /\ q.starting = 0
       /\ q.submitOff /\ ~ q.cancelOff /\ q.retrying = p.retrying
  BY <1>1, <1>9 DEF Page
<1>11. OpenOf(q) = {n}
  <2>1. \A i \in 1..n : i \in 1..Len(p.sent) \/ i = n
    BY <1>1
  <2>2. n \in 1..n
    BY <1>1
  <2>3. QED BY <1>7, <1>8, <1>10, <2>1, <2>2 DEF OpenOf
<1>12. Uploading(q, n)
  BY <1>2, <1>3, <1>4, <1>5, <1>6, <1>10, <1>11 DEF Uploading
<1>13. n \in DOMAIN q.sent
  BY <1>1, <1>8, <1>10
<1>14. QED BY <1>10, <1>12, <1>13 DEF InOrder, q

(* The end of the upload (onloadend) leaves a form that waits or is idle.   *)
LEMMA EndedEffect ==
    ASSUME NEW p, Sound(p), NEW n \in DOMAIN p.sent, NEW status, Uploading(p, n)
    PROVE  /\ ~ p.cancelOff => InOrder(Ended(p, n, status))
           /\ status = 0 => /\ InOrder(Ended(p, n, status))
                            /\ Idle(Ended(p, n, status))
                            /\ Ended(p, n, status).retrying = p.retrying
                            /\ ~ Ended(p, n, status).sent[n].open
<1> DEFINE q == [p EXCEPT !.sent[n].open = FALSE]
           w == [q EXCEPT !.retrying = TRUE, !.timers = @ \cup {n}, !.last = n]
           h == RemoveFirst(p.handlers, n)
           u == [q EXCEPT !.handlers = h]
<1>1. /\ p \in Page /\ p.handlers \in Seq(Nat) /\ p.sent \in Seq(Request)
      /\ Len(p.sent) \in Nat /\ DOMAIN p.sent = 1..Len(p.sent) /\ n \in Nat
  BY DEF Sound, Page
<1>2. /\ DOMAIN [p.sent EXCEPT ![n].open = FALSE] = DOMAIN p.sent
      /\ \A i \in DOMAIN p.sent :
            [p.sent EXCEPT ![n].open = FALSE][i].open = (i # n /\ p.sent[i].open)
  <2>1. \A i \in DOMAIN p.sent : p.sent[i] \in Request
    BY <1>1
  <2>2. DOMAIN [p.sent EXCEPT ![n].open = FALSE] = DOMAIN p.sent
    OBVIOUS
  <2>3. ASSUME NEW i \in DOMAIN p.sent
        PROVE  [p.sent EXCEPT ![n].open = FALSE][i].open = (i # n /\ p.sent[i].open)
    <3>1. CASE i = n
      <4>1. [p.sent EXCEPT ![n].open = FALSE][i] = [p.sent[n] EXCEPT !.open = FALSE]
        BY <3>1
      <4>2. QED BY <2>1, <3>1, <4>1 DEF Request
    <3>2. CASE i # n
      <4>1. [p.sent EXCEPT ![n].open = FALSE][i] = p.sent[i]
        BY <3>2
      <4>2. p.sent[i].open \in BOOLEAN
        BY <2>1 DEF Request
      <4>3. QED BY <3>2, <4>1, <4>2
    <3>3. QED BY <3>1, <3>2
  <2>4. QED BY <2>2, <2>3
<1>3. /\ q.sent = [p.sent EXCEPT ![n].open = FALSE]
      /\ q.starting = p.starting /\ q.timers = p.timers /\ q.handlers = p.handlers
      /\ q.retrying = p.retrying /\ q.submitOff = p.submitOff /\ q.cancelOff = p.cancelOff
  BY <1>1 DEF Page
<1>4. OpenOf(q) = {}
  BY <1>2, <1>3 DEF OpenOf, Uploading
<1>5. w.sent = q.sent /\ w.handlers = p.handlers /\ w.starting = 0 /\ w.timers = {n}
      /\ w.retrying /\ w.submitOff = p.submitOff /\ w.cancelOff = p.cancelOff
  BY <1>1, <1>3 DEF Page, Uploading
<1>6. u.sent = q.sent /\ u.handlers = h /\ u.starting = 0 /\ u.timers = {}
      /\ u.retrying = p.retrying
  BY <1>1, <1>3 DEF Page, Uploading
<1>7. Sound(u) /\ u = Left(p, n)
  BY EndedSound DEF Left
<1>8. h = <<>> \/ p.retrying
  BY <1>1, RemovedOfOne DEF Uploading
<1>9. OpenOf(Reset(u)) = {}
  BY <1>4, <1>6, <1>7, ResetEffect DEF OpenOf
<1> HIDE DEF h, q, u, w
<1>10. Idle(Reset(u)) /\ InOrder(Reset(u)) /\ Reset(u).retrying = p.retrying
  BY <1>6, <1>7, <1>8, <1>9, ResetEffect DEF Idle, InOrder
<1>11. ~ Reset(u).sent[n].open
  <2>1. Reset(u).sent = q.sent
    BY <1>6, <1>7, ResetEffect
  <2>2. QED BY <1>2, <1>3, <2>1
<1>12. ASSUME ~ p.cancelOff PROVE InOrder(w)
  <2>1. OpenOf(w) = {} /\ DOMAIN w.sent = DOMAIN p.sent
    BY <1>2, <1>3, <1>4, <1>5 DEF OpenOf
  <2>2. Waiting(w, n)
    BY <1>5, <2>1 DEF Waiting, Uploading
  <2>3. QED BY <1>5, <1>12, <2>1, <2>2 DEF InOrder
<1>13. /\ Ended(p, n, status) \in {w, Reset(u)}
       /\ status = 0 => Ended(p, n, status) = Reset(u)
  <2>1. u = [q EXCEPT !.handlers = RemoveFirst(@, n)]
    BY <1>3 DEF u, h
  <2>2. QED BY <2>1 DEF Ended, q, w
<1>14. QED BY <1>10, <1>11, <1>12, <1>13

(* A click cancels the only upload, or resets a form that is idle.          *)
LEMMA ClickEffect ==
    ASSUME NEW p, Sound(p), InOrder(p), ~ p.retrying, p.starting = 0
    PROVE  InOrder(Click(p))
<1> DEFINE s == RemoveFirst(p.handlers, ResetHandler)
<1>0. p \in Page /\ ResetHandler \in Nat
  BY DEF Sound, Page, ResetHandler
<1>1. CASE Idle(p)
  <2>1. p.handlers = <<ResetHandler>>
    BY <1>1 DEF Idle
  <2>2. s = <<>>
    BY <1>0, <2>1, RemovedOfOne
  <2>3. FoldLeft(Handle, p, <<>>) = p
    BY NoneOrOne
  <2>4. Click(p) \in {Reset(p), p}
    BY <2>2, <2>3 DEF Click
  <2>5. Idle(Reset(p)) /\ ~ Reset(p).cancelOff
    BY <1>1, <2>1, ResetEffect DEF Idle, OpenOf
  <2>6. QED BY <2>4, <2>5 DEF InOrder
<1>2. ASSUME NEW n \in DOMAIN p.sent, Uploading(p, n)
      PROVE  InOrder(Click(p))
  <2> DEFINE q == [p EXCEPT !.cancelOff = TRUE, !.aborting = TRUE]
             e == Ended(q, n, 0)
  <2>1. p.handlers = <<n>> /\ n # ResetHandler /\ n \in Nat
    BY <1>0, <1>2 DEF Uploading, Contains, ResetHandler, Page
  <2>2. s = <<n>>
    BY <1>0, <2>1, RemovedOfOne
  <2>3. FoldLeft(Handle, p, <<n>>) = Handle(p, n)
    BY <2>1, NoneOrOne
  <2>4. Handle(p, n) = AbortXHR(p, n)
    BY <1>2 DEF Handle, Uploading
  <2>5. p.sent[n].open
    BY <1>2 DEF Uploading, OpenOf
  <2>6. AbortXHR(p, n) = e
    BY <2>5 DEF AbortXHR
  <2>7. Sound(q) /\ Uploading(q, n) /\ n \in DOMAIN q.sent /\ ~ q.retrying
    <3>1. /\ q \in Page /\ q.sent = p.sent /\ q.handlers = p.handlers /\ q.timers = p.timers
          /\ q.fields = p.fields /\ q.fileOff = p.fileOff /\ q.dirOff = p.dirOff
          /\ q.starting = p.starting /\ q.submitOff = p.submitOff /\ q.retrying = p.retrying
      BY <1>0 DEF Page
    <3> HIDE DEF q
    <3>2. Sound(q)
      BY <3>1 DEF Sound
    <3>3. Uploading(q, n)
      BY <1>2, <3>1 DEF Uploading, OpenOf
    <3>4. QED BY <3>1, <3>2, <3>3
  <2> HIDE DEF q
  <2>8. InOrder(e) /\ Idle(e)
    BY <2>7, EndedEffect
  <2>9. Click(p) \in {Reset(e), e}
    BY <2>2, <2>3, <2>4, <2>6 DEF Click
  <2>10. Sound(e)
    BY <2>7, EndedSound
  <2>11. Idle(Reset(e)) /\ ~ Reset(e).cancelOff
    <3>1. e.handlers = <<ResetHandler>>
      <4>1. ~ e.retrying
        BY <2>7, EndedEffect
      <4>2. QED BY <2>8, <4>1 DEF Idle
    <3> HIDE DEF e
    <3>2. QED BY <2>8, <2>10, <3>1, ResetEffect DEF Idle, OpenOf
  <2>12. QED BY <2>8, <2>9, <2>11 DEF InOrder
<1>3. QED BY <1>1, <1>2 DEF InOrder, Starting, Waiting

(* The state of the form, unless the button was clicked between the         *)
(* submission and its request, or after a request had timed out.            *)
Orderly == SoundPage /\ (~ unguarded => InOrder(page))

(* The form is in order at first (window.onload) ...                        *)
LEMMA OrderlyInit == Init => Orderly
<1>1. SUFFICES ASSUME Init PROVE Orderly
  OBVIOUS
<1>2. OpenOf(page) = {}
  BY <1>1 DEF Init, OpenOf
<1>3. Contains(<<ResetHandler>>, ResetHandler)
  BY DEF Contains
<1>4. Idle(page)
  BY <1>1, <1>2, <1>3 DEF Init, Idle
<1>5. QED BY <1>1, <1>4, SoundInit DEF Init, InOrder, Orderly

(* ... after each step ...                                                  *)
LEMMA OrderlyNext == Orderly /\ [Next]_vars => Orderly'
<1> SUFFICES ASSUME Orderly, [Next]_vars PROVE Orderly'
  OBVIOUS
<1>0. SoundPage' /\ Sound(page) /\ page \in Page /\ (~ unguarded => InOrder(page))
  BY SoundNext DEF Orderly, SoundPage, Sound
<1> SUFFICES ASSUME ~ unguarded' PROVE InOrder(page')
  BY <1>0 DEF Orderly, InOrder, Idle, Starting, Uploading, Waiting, OpenOf
<1>1. ASSUME NEW input \in {"dir", "file"}, NEW pick \in Picks \cup {None}, Pick(input, pick)
      PROVE  InOrder(page')
  <2>1. \A x \in {"handlers", "sent", "timers", "starting", "submitOff", "cancelOff",
                  "retrying"} : page'[x] = page[x]
    BY <1>0, <1>1, SelectedSound DEF Pick
  <2>2. /\ page'.handlers = page.handlers /\ page'.sent = page.sent
        /\ page'.timers = page.timers /\ page'.starting = page.starting
        /\ page'.submitOff = page.submitOff /\ page'.cancelOff = page.cancelOff
        /\ page'.retrying = page.retrying
    BY <2>1
  <2>3. InOrder(page)
    BY <1>0, <1>1 DEF Pick
  <2>4. QED BY <2>2, <2>3 DEF InOrder, Idle, Starting, Uploading, Waiting, OpenOf
<1>2. CASE Submit
  <2>1. Idle(page) /\ ~ page.cancelOff
    BY <1>0, <1>2 DEF Submit, InOrder, Starting, Uploading, Waiting
  <2>2. page' = [page EXCEPT !.submitOff = TRUE, !.starting = 1]
    BY <1>2, <2>1 DEF Submit, Idle
  <2>3. /\ page'.sent = page.sent /\ page'.handlers = page.handlers
        /\ page'.timers = page.timers /\ page'.retrying = page.retrying
        /\ page'.submitOff /\ page'.starting = 1 /\ page'.cancelOff = page.cancelOff
    BY <1>0, <2>2 DEF Page
  <2>4. Starting(page')
    BY <2>1, <2>3 DEF Idle, Starting, OpenOf
  <2>5. QED BY <2>1, <2>3, <2>4 DEF InOrder
<1>3. CASE Send
  <2> DEFINE q == [page EXCEPT !.starting = 0]
  <2>1. Starting(page) /\ ~ page.cancelOff
    BY <1>0, <1>3 DEF Send, InOrder, Idle, Uploading, Waiting
  <2>a. page.starting - 1 = 0
    BY <2>1 DEF Starting
  <2>2. /\ q \in Page /\ q.sent = page.sent /\ q.handlers = page.handlers
        /\ q.timers = page.timers /\ q.fields = page.fields
        /\ q.fileOff = page.fileOff /\ q.dirOff = page.dirOff
        /\ q.starting = 0 /\ q.submitOff = page.submitOff
        /\ q.cancelOff = page.cancelOff /\ q.retrying = page.retrying
    BY <1>0, <2>1 DEF Starting, Page
  <2> HIDE DEF q
  <2>3. Sound(q)
    BY <1>0, <2>2 DEF Sound
  <2>4. OpenOf(q) = {}
    BY <2>1, <2>2 DEF OpenOf, Starting
  <2>5. InOrder(Start(q, "submit"))
    BY <2>1, <2>2, <2>3, <2>4, StartEffect DEF Starting
  <2>6. QED BY <1>3, <2>a, <2>5 DEF Send, q
<1>4. CASE Cancel
  <2>1. InOrder(page) /\ ~ page.retrying /\ page.starting = 0
    <3>1. ~ unguarded /\ ~ page.retrying /\ ~ (page.starting > 0)
      BY <1>4 DEF Cancel
    <3>2. page.starting \in Nat
      BY <1>0 DEF Page
    <3>3. QED BY <1>0, <3>1, <3>2
  <2>2. QED BY <1>0, <1>4, <2>1, ClickEffect DEF Cancel
<1>5. ASSUME NEW n \in DOMAIN page.sent, NEW status, Answer(n, status)
      PROVE  InOrder(page')
  <2>1. n \in OpenOf(page)
    BY <1>5 DEF Answer, OpenOf
  <2>2. InOrder(page)
    BY <1>0, <1>5 DEF Answer
  <2>3. Uploading(page, n) /\ ~ page.cancelOff
    BY <2>1, <2>2 DEF InOrder, Idle, Starting, Uploading, Waiting
  <2>4. InOrder(Ended(page, n, status))
    BY <1>0, <2>3, EndedEffect
  <2>5. QED BY <1>5, <2>4 DEF Answer
<1>6. ASSUME NEW n \in DOMAIN page.sent, Retry(n)
      PROVE  InOrder(page')
  <2> DEFINE v == IF page.waited < RetryLimit THEN page.waited + 1 ELSE page.waited
             q == [page EXCEPT !.timers = @ \ {n}, !.waited = v]
  <2>0. v \in 0..RetryLimit
    BY <1>0, BoundsAssumption DEF Page
  <2>1. InOrder(page)
    BY <1>0, <1>6 DEF Retry
  <2>2. Waiting(page, n) /\ ~ page.cancelOff
    BY <1>6, <2>1 DEF Retry, InOrder, Idle, Starting, Uploading, Waiting
  <2>3. page' = Start(q, "retry")
    BY <1>6 DEF Retry
  <2> HIDE DEF v
  <2>4. /\ q \in Page /\ q.sent = page.sent /\ q.handlers = page.handlers
        /\ q.timers = page.timers \ {n} /\ q.fields = page.fields
        /\ q.fileOff = page.fileOff /\ q.dirOff = page.dirOff
        /\ q.starting = page.starting /\ q.submitOff = page.submitOff
        /\ q.cancelOff = page.cancelOff /\ q.retrying = page.retrying
    BY <1>0, <2>0 DEF Page
  <2> HIDE DEF q
  <2>5. Sound(q)
    BY <1>0, <2>4 DEF Sound
  <2>6. OpenOf(q) = {} /\ q.timers = {}
    BY <2>2, <2>4 DEF OpenOf, Waiting
  <2>7. InOrder(Start(q, "retry"))
    BY <2>2, <2>4, <2>5, <2>6, StartEffect DEF Waiting
  <2>8. QED BY <2>3, <2>7
<1>7. CASE UNCHANGED vars
  BY <1>0, <1>7 DEF vars
<1>8. QED BY <1>1, <1>2, <1>3, <1>4, <1>5, <1>6, <1>7 DEF Next

(* ... and so always.                                                       *)
LEMMA OrderlyInvariant == Spec => []Orderly
<1>1. QED BY OrderlyInit, OrderlyNext, PTL DEF Spec

(* There is one upload at a time, and the form cannot be submitted again    *)
(* before it is over, unless the button was clicked before the request or   *)
(* after a time-out (preserve-directory-info.js).                           *)
THEOREM OneAtATime == Spec => []OneUpload
<1>1. Orderly => OneUpload
  <2> SUFFICES ASSUME Orderly, ~ unguarded
               PROVE  UnderWay <= 1 /\ (UnderWay = 1 => page.submitOff)
    BY DEF OneUpload
  <2>1. InOrder(page) /\ Open = OpenOf(page)
    BY DEF Orderly, Open, OpenOf
  <2>2. Cardinality({}) = 0 /\ \A n : Cardinality({n}) = 1
    BY FS_EmptySet, FS_Singleton
  <2>3. UnderWay = page.starting + Cardinality(page.timers) + Cardinality(Open)
    BY DEF UnderWay
  <2>4. CASE Idle(page)
    BY <2>1, <2>2, <2>3, <2>4 DEF Idle
  <2>5. CASE Starting(page)
    BY <2>1, <2>2, <2>3, <2>5 DEF Starting
  <2>6. ASSUME NEW n, Uploading(page, n)
        PROVE  UnderWay = 1 /\ page.submitOff
    <3>1. page.starting = 0 /\ Cardinality(page.timers) = 0 /\ Cardinality(Open) = 1
      BY <2>1, <2>2, <2>6 DEF Uploading
    <3>2. QED BY <2>3, <2>6, <3>1 DEF Uploading
  <2>7. ASSUME NEW n, Waiting(page, n)
        PROVE  UnderWay = 1 /\ page.submitOff
    <3>1. page.starting = 0 /\ Cardinality(page.timers) = 1 /\ Cardinality(Open) = 0
      BY <2>1, <2>2, <2>7 DEF Waiting
    <3>2. QED BY <2>3, <2>7, <3>1 DEF Waiting
  <2>8. QED BY <2>1, <2>4, <2>5, <2>6, <2>7 DEF InOrder
<1>2. QED BY <1>1, OrderlyInvariant, PTL

(* While a request is under way the button cancels it and does not reset    *)
(* the form, with the same exceptions (preserve-directory-info.js).         *)
THEOREM CanCancel == Spec => []CanBeCancelled
<1>1. Orderly => CanBeCancelled
  <2> SUFFICES ASSUME Orderly, ~ unguarded, NEW n \in Open
               PROVE  /\ ~ page.cancelOff /\ Contains(page.handlers, n)
                      /\ ~ Contains(page.handlers, ResetHandler)
    BY DEF CanBeCancelled
  <2>1. InOrder(page) /\ n \in OpenOf(page)
    BY DEF Orderly, Open, OpenOf
  <2>2. QED BY <2>1 DEF InOrder, Idle, Starting, Uploading, Waiting
<1>2. QED BY <1>1, OrderlyInvariant, PTL
=============================================================================
