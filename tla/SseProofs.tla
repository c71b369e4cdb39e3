------------------------------- MODULE SseProofs -------------------------------
(***************************************************************************)
(* Proofs about Sse, for any streams, placeholders and bounds.              *)
(***************************************************************************)
EXTENDS Sse, Lemmas

-----------------------------------------------------------------------------
(* Parts of byte sequences                                                 *)

\* c is s from behind byte a up to byte b.
IsCut(c, s, a, b) ==
    /\ c \in Seq(Bytes)
    /\ Len(c) = b - a
    /\ \A i \in 1..b - a : c[i] = s[a + i]

LEMMA CutIs ==
    ASSUME NEW s \in Seq(Bytes), NEW a \in Nat, NEW b \in Nat, a <= b, b <= Len(s)
    PROVE  IsCut(SubSeq(s, a + 1, b), s, a, b)
<1> DEFINE c == SubSeq(s, a + 1, b)
<1>1. \A i \in a + 1..b : s[i] \in Bytes
  BY LenProperties, ElementOfSeq
<1>2. /\ c \in Seq(Bytes)
      /\ Len(c) = IF a + 1 <= b THEN b - (a + 1) + 1 ELSE 0
      /\ \A i \in 1..b - (a + 1) + 1 : c[i] = s[a + 1 + i - 1]
  BY <1>1, SubSeqProperties
<1> HIDE DEF c
<1>3. Len(c) = b - a
  BY <1>2
<1>4. \A i \in 1..b - a : c[i] = s[a + i]
  <2>1. b - (a + 1) + 1 = b - a /\ \A i \in Int : a + 1 + i - 1 = a + i
    OBVIOUS
  <2> QED
    BY <1>2, <2>1
<1>5. IsCut(c, s, a, b)
  BY <1>2, <1>3, <1>4 DEF IsCut
<1> QED
  BY <1>5 DEF c

LEMMA SameCut ==
    ASSUME NEW s, NEW a \in Nat, NEW b \in Nat, NEW c, NEW d, IsCut(c, s, a, b), IsCut(d, s, a, b)
    PROVE  c = d
<1>1. c \in Seq(Bytes) /\ d \in Seq(Bytes) /\ Len(c) = Len(d)
      /\ \A i \in 1..Len(c) : c[i] = d[i]
  BY DEF IsCut
<1> QED
  BY <1>1, SeqEqual

\* A part of a part.
LEMMA CutOfCut ==
    ASSUME NEW s, NEW a \in Nat, NEW b \in Nat, NEW c, IsCut(c, s, a, b),
           NEW x \in Nat, NEW y \in Nat, x <= y, y <= b - a, NEW d, IsCut(d, c, x, y)
    PROVE  IsCut(d, s, a + x, a + y)
<1>1. \A i \in 1..y - x : x + i \in 1..b - a /\ (a + x) + i = a + (x + i)
  OBVIOUS
<1> QED
  BY <1>1 DEF IsCut

\* What is read behind a part, read behind the whole.
LEMMA JoinedCut ==
    ASSUME NEW s \in Seq(Bytes), NEW k \in Nat, k <= Len(s), NEW c, IsCut(c, s, k, Len(s)),
           NEW t \in Seq(Bytes)
    PROVE  IsCut(c \o t, s \o t, k, Len(s \o t))
<1> DEFINE n == Len(s)
           m == Len(t)
<1>1. n \in Nat /\ m \in Nat /\ c \in Seq(Bytes) /\ Len(c) = n - k
      /\ \A i \in 1..n - k : c[i] = s[k + i]
  BY LenProperties DEF IsCut
<1>2. /\ s \o t \in Seq(Bytes) /\ Len(s \o t) = n + m
      /\ \A i \in 1..n + m : (s \o t)[i] = IF i <= n THEN s[i] ELSE t[i - n]
  BY ConcatProperties
<1>3. /\ c \o t \in Seq(Bytes) /\ Len(c \o t) = Len(c) + m
      /\ \A i \in 1..Len(c) + m : (c \o t)[i] = IF i <= Len(c) THEN c[i] ELSE t[i - Len(c)]
  BY <1>1, ConcatProperties
<1> HIDE DEF n, m
<1>4. ASSUME NEW i \in 1..(n + m) - k PROVE (c \o t)[i] = (s \o t)[k + i]
  <2>1. i \in 1..Len(c) + m /\ k + i \in 1..n + m /\ k <= n
    BY <1>1 DEF n
  <2>2. CASE i <= n - k
    <3>1. i \in 1..n - k /\ k + i <= n /\ i <= Len(c)
      BY <1>1, <2>2
    <3>2. (c \o t)[i] = c[i] /\ (s \o t)[k + i] = s[k + i]
      BY <1>2, <1>3, <2>1, <3>1
    <3> QED
      BY <1>1, <3>1, <3>2
  <2>3. CASE i > n - k
    <3>1. ~ (k + i <= n) /\ ~ (i <= Len(c)) /\ k + i - n = i - Len(c)
      BY <1>1, <2>3
    <3>2. (c \o t)[i] = t[i - Len(c)]
      BY <1>3, <2>1, <3>1
    <3>3. PICK j \in 1..n + m : j = k + i
      BY <2>1
    <3>4. (s \o t)[j] = t[j - n]
      BY <1>2, <3>1, <3>3
    <3>5. j - n = i - Len(c)
      BY <1>1, <3>1, <3>3
    <3>6. (s \o t)[j] = (c \o t)[i]
      BY <3>2, <3>4, <3>5, Zenon
    <3> QED
      BY <3>3, <3>6
  <2>4. i <= n - k \/ i > n - k
    BY <1>1
  <2> QED
    BY <2>2, <2>3, <2>4
<1>5. Len(c \o t) = Len(s \o t) - k
  BY <1>1, <1>2, <1>3
<1>6. Len(s \o t) - k = (n + m) - k
  BY <1>2
<1> QED
  BY <1>3, <1>4, <1>5, <1>6 DEF IsCut

-----------------------------------------------------------------------------
(* Cutting a text in two                                                   *)

\* The placeholder p is in s from byte i on.
At(s, i, p) ==
    /\ i + Len(p) - 1 <= Len(s)
    /\ \A x \in 1..Len(p) : s[i + x - 1] = p[x]

LEMMA PlaceholderFacts ==
    ASSUME NEW p \in DOMAIN Originals
    PROVE  /\ p \in Seq(Bytes) /\ Len(p) \in Nat /\ Len(p) > 2 /\ Len(p) <= MaxHold
           /\ p[1] = "["
           /\ \A x \in 2..Len(p) : p[x] \in Letters \cup {"]"}
           /\ \A x \in 2..Len(p) - 1 : p[x] \in Letters
           /\ Originals[p] \in Seq(Bytes)
<1>1. IsPlaceholder(p) /\ Originals[p] \in Seq(Bytes) /\ Len(p) <= MaxHold
  BY BytesAssumption, BoundsAssumption
<1>2. p \in Seq(Bytes) /\ Len(p) \in Nat
  BY <1>1, LenProperties DEF IsPlaceholder
<1>3. \A x \in 2..Len(p) : x = Len(p) \/ x \in 2..Len(p) - 1
  BY <1>2
<1> QED
  BY <1>1, <1>2, <1>3 DEF IsPlaceholder

LEMMA PlaceholderAtIs ==
    ASSUME NEW s \in Seq(Bytes), NEW i \in 1..Len(s)
    PROVE  PlaceholderAt(s, i) = {p \in DOMAIN Originals : At(s, i, p)}
<1>1. ASSUME NEW p \in DOMAIN Originals, i + Len(p) - 1 <= Len(s)
      PROVE  SubSeq(s, i, i + Len(p) - 1) = p <=> \A x \in 1..Len(p) : s[i + x - 1] = p[x]
  <2> DEFINE m == Len(p)
             c == SubSeq(s, (i - 1) + 1, i + m - 1)
  <2>1. p \in Seq(Bytes) /\ m \in Nat /\ m > 2 /\ i - 1 \in Nat /\ i + m - 1 \in Nat
    BY PlaceholderFacts
  <2>2. Len(s) \in Nat /\ i - 1 <= i + m - 1 /\ i + m - 1 <= Len(s)
    BY <1>1, <2>1, LenProperties
  <2>3. IsCut(c, s, i - 1, i + m - 1)
    BY <2>1, <2>2, CutIs
  <2>4. (i - 1) + 1 = i /\ (i + m - 1) - (i - 1) = m /\ \A x \in Int : i - 1 + x = i + x - 1
    BY <2>1
  <2>5. c = SubSeq(s, i, i + Len(p) - 1)
    BY <2>4
  <2> HIDE DEF c
  <2>6. c \in Seq(Bytes) /\ Len(c) = m /\ \A x \in 1..m : c[x] = s[i + x - 1]
    BY <2>3, <2>4 DEF IsCut
  <2>7. c = p <=> \A x \in 1..m : c[x] = p[x]
    BY <2>1, <2>6, SeqEqual
  <2> QED
    BY <2>5, <2>6, <2>7
<1> QED
  BY <1>1 DEF PlaceholderAt, At

\* What byte i of s is turned into.
Shown(s, i) ==
    IF PlaceholderAt(s, i) # {}
    THEN Originals[CHOOSE p \in PlaceholderAt(s, i) : TRUE]
    ELSE IF InPlaceholder(s, i) THEN <<>>
    ELSE IF InCharacter(s, i) THEN <<s[i]>> ELSE <<"?">>

LEMMA ShownType ==
    ASSUME NEW s \in Seq(Bytes), NEW i \in 1..Len(s)
    PROVE  Shown(s, i) \in Seq(Bytes)
<1>1. s[i] \in Bytes
  BY ElementOfSeq
<1>2. <<>> \in Seq(Bytes) /\ <<s[i]>> \in Seq(Bytes) /\ <<"?">> \in Seq(Bytes)
  BY <1>1, BytesAssumption
<1>3. ASSUME PlaceholderAt(s, i) # {}
      PROVE  Originals[CHOOSE p \in PlaceholderAt(s, i) : TRUE] \in Seq(Bytes)
  <2>1. (CHOOSE p \in PlaceholderAt(s, i) : TRUE) \in PlaceholderAt(s, i)
    BY <1>3
  <2>2. (CHOOSE p \in PlaceholderAt(s, i) : TRUE) \in DOMAIN Originals
    BY <2>1 DEF PlaceholderAt
  <2> QED
    BY <2>2, BytesAssumption
<1> QED
  BY <1>2, <1>3 DEF Shown

LEMMA RehydratedIs ==
    ASSUME NEW s \in Seq(Bytes)
    PROVE  /\ Rehydrated(s) = FlattenSeq([i \in 1..Len(s) |-> Shown(s, i)])
           /\ [i \in 1..Len(s) |-> Shown(s, i)] \in Seq(Seq(Bytes))
<1>1. DOMAIN s = 1..Len(s) /\ Len(s) \in Nat
  BY LenProperties
<1>2. \A i \in 1..Len(s) : Shown(s, i) \in Seq(Bytes)
  BY ShownType
<1>3. [i \in 1..Len(s) |-> Shown(s, i)] \in Seq(Seq(Bytes))
  BY <1>1, <1>2
<1> QED
  BY <1>1, <1>3 DEF Rehydrated, Shown

\* No character and no placeholder lies on both sides of the cut behind byte k.
Separate(s, k) ==
    /\ ~ (k \in 1..Len(s) - 1 /\ s[k] = "L" /\ s[k + 1] = "C")
    /\ \A j \in 1..k : \A p \in PlaceholderAt(s, j) : j + Len(p) - 1 <= k

\* The bytes before the cut are turned into the same without what follows.
LEMMA CutLeft ==
    ASSUME NEW s \in Seq(Bytes), NEW k \in 0..Len(s), Separate(s, k),
           NEW l, IsCut(l, s, 0, k), NEW i \in 1..k
    PROVE  Shown(l, i) = Shown(s, i)
<1>1. Len(s) \in Nat /\ k \in Nat /\ l \in Seq(Bytes) /\ Len(l) = k
      /\ \A x \in 1..k : l[x] = s[x]
  BY LenProperties DEF IsCut
<1>2. ASSUME NEW j \in 1..k PROVE PlaceholderAt(l, j) = PlaceholderAt(s, j)
  <2>1. j \in 1..Len(s) /\ j \in 1..Len(l)
    BY <1>1
  <2>2. ASSUME NEW p \in DOMAIN Originals PROVE At(l, j, p) <=> At(s, j, p)
    <3>1. Len(p) \in Nat
      BY PlaceholderFacts
    <3>2. ASSUME At(s, j, p) PROVE j + Len(p) - 1 <= k
      <4>1. p \in PlaceholderAt(s, j)
        BY <2>1, <3>2, PlaceholderAtIs
      <4> QED
        BY <4>1 DEF Separate
    <3>3. ASSUME j + Len(p) - 1 <= k, NEW x \in 1..Len(p) PROVE l[j + x - 1] = s[j + x - 1]
      <4>1. j + x - 1 \in 1..k
        BY <1>1, <3>1, <3>3
      <4> QED
        BY <1>1, <4>1
    <3> QED
      BY <1>1, <3>1, <3>2, <3>3 DEF At
  <2> QED
    BY <1>1, <2>1, <2>2, PlaceholderAtIs
<1>3. InPlaceholder(l, i) <=> InPlaceholder(s, i)
  <2>1. \A j \in 1..i - 1 : j \in 1..k
    BY <1>1
  <2> QED
    BY <1>2, <2>1 DEF InPlaceholder
<1>4. InCharacter(l, i) <=> InCharacter(s, i)
  <2>1. l[i] = s[i] /\ i \in Nat /\ i <= k
    BY <1>1
  <2>2. i < k => l[i + 1] = s[i + 1]
    BY <1>1
  <2>3. i > 1 => l[i - 1] = s[i - 1]
    BY <1>1
  <2>4. i = k /\ i < Len(s) => ~ (s[i] = "L" /\ s[i + 1] = "C")
    BY <1>1 DEF Separate
  <2> QED
    BY <1>1, <2>1, <2>2, <2>3, <2>4 DEF InCharacter, Paired
<1>5. l[i] = s[i]
  BY <1>1
<1>6. PlaceholderAt(l, i) = PlaceholderAt(s, i)
  BY <1>2
<1>7. (CHOOSE p \in PlaceholderAt(l, i) : TRUE) = (CHOOSE p \in PlaceholderAt(s, i) : TRUE)
  BY <1>6
<1> QED
  BY <1>3, <1>4, <1>5, <1>6, <1>7, Zenon DEF Shown

\* The bytes behind the cut are turned into the same without what precedes.
LEMMA CutRight ==
    ASSUME NEW s \in Seq(Bytes), NEW k \in 0..Len(s), Separate(s, k),
           NEW r, IsCut(r, s, k, Len(s)), NEW i \in 1..Len(s) - k
    PROVE  Shown(r, i) = Shown(s, k + i)
<1> DEFINE n == Len(s)
<1>1. n \in Nat /\ k \in Nat /\ r \in Seq(Bytes) /\ Len(r) = n - k
      /\ \A x \in 1..n - k : r[x] = s[k + x]
  BY LenProperties DEF IsCut
<1> HIDE DEF n
<1>2. ASSUME NEW j \in 1..n - k PROVE PlaceholderAt(r, j) = PlaceholderAt(s, k + j)
  <2>1. k + j \in 1..Len(s) /\ j \in 1..Len(r)
    BY <1>1 DEF n
  <2>2. ASSUME NEW p \in DOMAIN Originals PROVE At(r, j, p) <=> At(s, k + j, p)
    <3>1. Len(p) \in Nat
      BY PlaceholderFacts
    <3>2. j + Len(p) - 1 <= n - k <=> k + j + Len(p) - 1 <= n
      BY <1>1, <3>1
    <3>3. ASSUME j + Len(p) - 1 <= n - k, NEW x \in 1..Len(p)
          PROVE  r[j + x - 1] = s[k + j + x - 1]
      <4>1. j + x - 1 \in 1..n - k /\ k + (j + x - 1) = k + j + x - 1
        BY <1>1, <3>1, <3>3
      <4> QED
        BY <1>1, <4>1
    <3> QED
      BY <1>1, <3>1, <3>2, <3>3 DEF At, n
  <2> QED
    BY <1>1, <2>1, <2>2, PlaceholderAtIs
<1>3. InPlaceholder(r, i) <=> InPlaceholder(s, k + i)
  <2>1. ASSUME NEW j \in 1..i - 1, NEW p \in PlaceholderAt(r, j), i < j + Len(p)
        PROVE  InPlaceholder(s, k + i)
    <3>1. p \in DOMAIN Originals
      BY DEF PlaceholderAt
    <3>2. Len(p) \in Nat
      BY <3>1, PlaceholderFacts
    <3>3. j \in 1..n - k /\ k + j \in 1..k + i - 1 /\ k + i < k + j + Len(p)
      BY <1>1, <2>1, <3>2 DEF n
    <3>4. p \in PlaceholderAt(s, k + j)
      BY <1>2, <3>3
    <3> QED
      BY <3>3, <3>4 DEF InPlaceholder
  <2>2. ASSUME NEW j \in 1..k + i - 1, NEW p \in PlaceholderAt(s, j), k + i < j + Len(p)
        PROVE  InPlaceholder(r, i)
    <3>1. p \in DOMAIN Originals
      BY DEF PlaceholderAt
    <3>2. Len(p) \in Nat
      BY <3>1, PlaceholderFacts
    <3>3. ~ j \in 1..k
      BY <1>1, <2>2, <3>2 DEF Separate
    <3>4. j - k \in 1..i - 1 /\ j - k \in 1..n - k /\ k + (j - k) = j /\ i < j - k + Len(p)
      BY <1>1, <2>2, <3>2, <3>3 DEF n
    <3>5. p \in PlaceholderAt(r, j - k)
      BY <1>2, <3>4
    <3> QED
      BY <3>4, <3>5 DEF InPlaceholder
  <2> QED
    BY <2>1, <2>2 DEF InPlaceholder
<1>4. InCharacter(r, i) <=> InCharacter(s, k + i)
  <2>1. r[i] = s[k + i] /\ i \in Nat /\ i <= n - k /\ k + i <= n /\ i >= 1
    BY <1>1 DEF n
  <2>2. i < n - k => r[i + 1] = s[k + i + 1]
    <3>1. i < n - k => i + 1 \in 1..n - k /\ k + (i + 1) = k + i + 1
      BY <1>1, <2>1
    <3> QED
      BY <1>1, <3>1
  <2>3. i > 1 => r[i - 1] = s[k + i - 1]
    <3>1. i > 1 => i - 1 \in 1..n - k /\ k + (i - 1) = k + i - 1
      BY <1>1, <2>1
    <3> QED
      BY <1>1, <3>1
  <2>4. i = 1 /\ k > 0 => ~ (s[k + i - 1] = "L" /\ s[k + i] = "C")
    <3>1. i = 1 /\ k > 0 => k \in 1..Len(s) - 1 /\ k + i - 1 = k /\ k + i = k + 1
      BY <1>1, <2>1 DEF n
    <3> QED
      BY <3>1 DEF Separate
  <2>5. (i < n - k <=> k + i < n) /\ (k + i > 1 <=> i > 1 \/ (i = 1 /\ k > 0))
    BY <1>1, <2>1
  <2> QED
    BY <1>1, <2>1, <2>2, <2>3, <2>4, <2>5 DEF InCharacter, Paired, n
<1>5. r[i] = s[k + i] /\ i \in 1..n - k
  BY <1>1 DEF n
<1>6. PlaceholderAt(r, i) = PlaceholderAt(s, k + i)
  BY <1>2, <1>5
<1>7. (CHOOSE p \in PlaceholderAt(r, i) : TRUE) = (CHOOSE p \in PlaceholderAt(s, k + i) : TRUE)
  BY <1>6
<1> QED
  BY <1>3, <1>4, <1>5, <1>6, <1>7, Zenon DEF Shown

\* A text cut where nothing is cut in two is turned into what its parts are.
LEMMA RehydratedCut ==
    ASSUME NEW s \in Seq(Bytes), NEW k \in 0..Len(s), Separate(s, k),
           NEW l, IsCut(l, s, 0, k), NEW r, IsCut(r, s, k, Len(s))
    PROVE  Rehydrated(s) = Rehydrated(l) \o Rehydrated(r)
<1> DEFINE n == Len(s)
           whole == [i \in 1..n |-> Shown(s, i)]
           left == [i \in 1..k |-> Shown(l, i)]
           right == [i \in 1..n - k |-> Shown(r, i)]
<1>1. n \in Nat /\ k \in Nat /\ k <= n /\ n - k \in Nat
  BY LenProperties
<1>2. l \in Seq(Bytes) /\ Len(l) = k /\ r \in Seq(Bytes) /\ Len(r) = n - k
  BY <1>1 DEF IsCut
<1>3. Rehydrated(s) = FlattenSeq(whole) /\ whole \in Seq(Seq(Bytes))
  BY RehydratedIs
<1>4. Rehydrated(l) = FlattenSeq(left) /\ left \in Seq(Seq(Bytes))
  BY <1>2, RehydratedIs
<1>5. Rehydrated(r) = FlattenSeq(right) /\ right \in Seq(Seq(Bytes))
  BY <1>2, RehydratedIs
<1>6. \A i \in 1..k : left[i] = Shown(s, i)
  BY CutLeft
<1>7. \A i \in 1..n - k : right[i] = Shown(s, k + i)
  BY CutRight
<1>8. Len(whole) = n /\ Len(left) = k /\ Len(right) = n - k /\ \A i \in 1..n : whole[i] = Shown(s, i)
  BY <1>1
<1> HIDE DEF whole, left, right, n
<1>9. /\ left \o right \in Seq(Seq(Bytes))
      /\ Len(left \o right) = Len(left) + Len(right)
      /\ \A i \in 1..Len(left) + Len(right) :
           (left \o right)[i] = IF i <= Len(left) THEN left[i] ELSE right[i - Len(left)]
  BY <1>4, <1>5, ConcatProperties
<1>10. ASSUME NEW i \in 1..n PROVE (left \o right)[i] = whole[i]
  <2>1. i \in 1..Len(left) + Len(right)
    BY <1>1, <1>8
  <2>2. CASE i <= k
    <3>1. (left \o right)[i] = left[i] /\ i \in 1..k
      BY <1>1, <1>8, <1>9, <2>1, <2>2
    <3> QED
      BY <1>6, <1>8, <3>1
  <2>3. CASE i > k
    <3>1. ~ (i <= Len(left)) /\ i - Len(left) = i - k /\ i - k \in 1..n - k /\ k + (i - k) = i
      BY <1>1, <1>8, <2>3
    <3>2. (left \o right)[i] = right[i - k]
      BY <1>9, <2>1, <3>1
    <3> QED
      BY <1>7, <1>8, <3>1, <3>2
  <2>4. i <= k \/ i > k
    BY <1>1
  <2> QED
    BY <2>2, <2>3, <2>4, Zenon
<1>11. left \o right = whole
  <2>1. Len(left \o right) = Len(whole)
    BY <1>1, <1>8, <1>9
  <2> QED
    BY <1>3, <1>8, <1>9, <1>10, <2>1, SeqEqual
<1>12. FlattenSeq(left \o right) = FlattenSeq(left) \o FlattenSeq(right)
  BY <1>4, <1>5, FlattenConcat
<1> QED
  BY <1>3, <1>4, <1>5, <1>11, <1>12

-----------------------------------------------------------------------------
(* Where a text may be cut                                                 *)

\* From byte j on, s may be the beginning of a placeholder.
Opens(s, j) == s[j] = "[" /\ \A i \in j + 1..Len(s) : s[i] \in Letters

NoneOpen(s) == \A j \in 1..Len(s) : Len(s) - j + 1 <= MaxHold => ~ Opens(s, j)

\* What has been passed on of s, its first k bytes, is whole whatever follows s.
Settled(s, k) ==
    /\ k \in 0..Len(s)
    /\ k > 0 => s[k] # "L"
    /\ k < Len(s) => s[k + 1] = "[" \/ (s[k + 1] = "L" /\ k + 1 = Len(s))
    /\ k = Len(s) => NoneOpen(s)

\* All of s is characters, but for one that may be unfinished at its end.
Whole(s) ==
    \A i \in 1..Len(s) : InCharacter(s, i) \/ (i = Len(s) /\ s[i] = "L")

Passed == Len(received) - Len(pending)

Held ==
    \/ pending = <<>>
    \/ pending = <<"L">>
    \/ pending[1] = "[" /\ Len(pending) <= MaxHold

Typed ==
    /\ received \in Seq(Bytes) /\ rest \in Seq(Bytes) /\ out \in Seq(Bytes)
    /\ received \o rest \in Streams
    /\ final = <<>>

PendingIsTail ==
    /\ Len(pending) <= MaxPending
    /\ Passed \in Nat
    /\ IsCut(pending, received, Passed, Len(received))

OutIsRest ==
    Intact(received) =>
        /\ Settled(received, Passed)
        /\ out = Rehydrated(SubSeq(received, 1, Passed))
        /\ Held

Inv == Typed /\ PendingIsTail /\ OutIsRest

\* What is cut off a settled text is whole in whatever the text goes on with.
LEMMA SettledSeparates ==
    ASSUME NEW s \in Seq(Bytes), NEW k, Settled(s, k), NEW t \in Seq(Bytes),
           Len(s) <= Len(t), IsCut(s, t, 0, Len(s))
    PROVE  Separate(t, k)
<1> DEFINE n == Len(s)
<1>1. n \in Nat /\ Len(t) \in Nat /\ k \in 0..n /\ \A i \in 1..n : s[i] = t[i]
  <2>1. \A i \in 1..n - 0 : s[i] = t[0 + i]
    BY DEF IsCut
  <2>2. n - 0 = n /\ (\A i \in 1..n : 0 + i = i) /\ n \in Nat /\ Len(t) \in Nat
    BY LenProperties
  <2> QED
    BY <2>1, <2>2 DEF Settled
<1>2. ~ (k \in 1..Len(t) - 1 /\ t[k] = "L" /\ t[k + 1] = "C")
  <2>1. k > 0 => t[k] = s[k] /\ s[k] # "L"
    BY <1>1 DEF Settled
  <2> QED
    BY <1>1, <2>1
<1>3. ASSUME NEW j \in 1..k, NEW p \in PlaceholderAt(t, j), ~ (j + Len(p) - 1 <= k)
      PROVE  FALSE
  <2>1. j \in 1..Len(t)
    BY <1>1
  <2>2. p \in DOMAIN Originals /\ At(t, j, p)
    BY <2>1, PlaceholderAtIs
  <2>3. /\ Len(p) \in Nat /\ Len(p) <= MaxHold /\ MaxHold \in Nat /\ p[1] = "["
        /\ \A x \in 2..Len(p) : p[x] \in Letters \cup {"]"}
        /\ \A x \in 2..Len(p) - 1 : p[x] \in Letters
    BY <2>2, PlaceholderFacts, BoundsAssumption
  <2>4. \A i \in j..j + Len(p) - 1 : t[i] = p[i - j + 1]
    <3>1. ASSUME NEW i \in j..j + Len(p) - 1 PROVE t[i] = p[i - j + 1]
      <4>1. PICK x \in 1..Len(p) : x = i - j + 1
        BY <1>1, <2>3
      <4>2. t[j + x - 1] = p[x] /\ j + x - 1 = i
        BY <1>1, <2>2, <4>1 DEF At
      <4> QED
        BY <4>1, <4>2
    <3> QED
      BY <3>1
  <2>5. CASE k < n
    <3>1. k + 1 \in j..j + Len(p) - 1 /\ (k + 1) - j + 1 \in 2..Len(p)
      BY <1>1, <1>3, <2>3, <2>5
    <3>2. t[k + 1] \in Letters \cup {"]"}
      BY <2>3, <2>4, <3>1
    <3>3. t[k + 1] = s[k + 1]
      BY <1>1, <2>5
    <3>4. s[k + 1] = "[" \/ s[k + 1] = "L"
      BY <1>1, <2>5 DEF Settled
    <3> QED
      BY <3>2, <3>3, <3>4, BytesAssumption
  <2>6. CASE k = n
    <3>1. \A i \in j..n : i - j + 1 \in 1..Len(p) - 1 /\ i \in j..j + Len(p) - 1 /\ i \in 1..n
      BY <1>1, <1>3, <2>3, <2>6
    <3>2. s[j] = "["
      <4>1. j \in j..n /\ j - j + 1 = 1
        BY <1>1, <2>6
      <4> QED
        BY <1>1, <2>3, <2>4, <3>1, <4>1
    <3>3. ASSUME NEW i \in j + 1..n PROVE s[i] \in Letters
      <4>1. i \in j..n /\ i - j + 1 \in 2..Len(p) - 1
        BY <1>1, <1>3, <2>3, <2>6
      <4> QED
        BY <1>1, <2>3, <2>4, <3>1, <4>1
    <3>4. n - j + 1 <= MaxHold /\ j \in 1..n
      BY <1>1, <1>3, <2>3, <2>6
    <3>5. NoneOpen(s)
      BY <2>6 DEF Settled
    <3> QED
      BY <3>2, <3>3, <3>4, <3>5 DEF NoneOpen, Opens
  <2> QED
    BY <1>1, <2>5, <2>6
<1> QED
  BY <1>2, <1>3 DEF Separate

\* What is whole in a text is whole in the part of it that has come.
LEMMA SeparateBefore ==
    ASSUME NEW t \in Seq(Bytes), NEW k \in Nat, Separate(t, k), NEW m \in k..Len(t),
           NEW u, IsCut(u, t, 0, m)
    PROVE  Separate(u, k)
<1>1. Len(t) \in Nat /\ m \in Nat /\ m <= Len(t) /\ k <= m
      /\ u \in Seq(Bytes) /\ Len(u) = m /\ \A i \in 1..m : u[i] = t[i]
  BY LenProperties DEF IsCut
<1>2. ~ (k \in 1..Len(u) - 1 /\ u[k] = "L" /\ u[k + 1] = "C")
  <2>1. SUFFICES ASSUME k \in 1..m - 1, u[k] = "L", u[k + 1] = "C" PROVE FALSE
    BY <1>1
  <2>2. k \in 1..m /\ k + 1 \in 1..m /\ k \in 1..Len(t) - 1
    BY <1>1, <2>1
  <2> QED
    BY <1>1, <2>1, <2>2 DEF Separate
<1>3. ASSUME NEW j \in 1..k, NEW p \in PlaceholderAt(u, j) PROVE j + Len(p) - 1 <= k
  <2>1. j \in 1..Len(u) /\ j \in 1..Len(t) /\ j \in Nat
    BY <1>1
  <2>2. p \in DOMAIN Originals /\ At(u, j, p)
    BY <1>1, <2>1, PlaceholderAtIs
  <2>3. Len(p) \in Nat
    BY <2>2, PlaceholderFacts
  <2>4. \A x \in 1..Len(p) : j + x - 1 \in 1..m
    BY <1>1, <2>1, <2>2, <2>3 DEF At
  <2>5. At(t, j, p)
    BY <1>1, <2>1, <2>2, <2>3, <2>4 DEF At
  <2>6. p \in PlaceholderAt(t, j)
    BY <2>1, <2>2, <2>5, PlaceholderAtIs
  <2> QED
    BY <2>6 DEF Separate
<1> QED
  BY <1>2, <1>3 DEF Separate

-----------------------------------------------------------------------------
(* How far push may pass on                                                *)

\* The greatest of some numbers is the one that is no less than the others.
LEMMA MaxIs ==
    ASSUME NEW n \in Nat, NEW T \in SUBSET (0..n), NEW x \in T, \A y \in T : y <= x
    PROVE  Max(T) = x
<1>1. Max(T) \in T /\ Max(T) >= x
  BY MaxOfBounded
<1>2. \A y \in T : y \in Int
  OBVIOUS
<1> DEFINE m == Max(T)
<1>3. m \in T /\ m >= x
  BY <1>1
<1> HIDE DEF m
<1>4. m = x
  BY <1>2, <1>3
<1> QED
  BY <1>4 DEF m

LEMMA MaxOfTwo ==
    ASSUME NEW a \in Nat, NEW b \in Int
    PROVE  Max({a, b}) = IF a >= b THEN a ELSE b
<1> DEFINE m == IF a >= b THEN a ELSE b
<1>1. m \in {a, b} /\ \A y \in {a, b} : m >= y
  OBVIOUS
<1>2. \A x \in {a, b} : (\A y \in {a, b} : x >= y) => x = m
  OBVIOUS
<1>3. m = CHOOSE x \in {a, b} : \A y \in {a, b} : x >= y
  <2> HIDE DEF m
  <2> QED
    BY <1>1, <1>2
<1> QED
  BY <1>3 DEF Max

\* An end of a whole character lies in the text.
LEMMA CharEndType ==
    ASSUME NEW s \in Seq(Bytes)
    PROVE  CharEnd(s) \in 0..Len(s)
<1> DEFINE T == {n \in 0..Len(s) : IsUtf8(SubSeq(s, 1, n))}
<1>1. Len(s) \in Nat
  BY LenProperties
<1>2. IsCut(SubSeq(s, 0 + 1, 0), s, 0, 0)
  BY <1>1, CutIs
<1>3. SubSeq(s, 1, 0) \in Seq(Bytes) /\ Len(SubSeq(s, 1, 0)) = 0
  BY <1>2 DEF IsCut
<1>4. DOMAIN SubSeq(s, 1, 0) = 1..0
  BY <1>3, LenProperties
<1>5. 0 \in T
  BY <1>1, <1>4 DEF IsUtf8
<1>6. T \in SUBSET (0..Len(s))
  OBVIOUS
<1>7. Max(T) \in T
  <2> HIDE DEF T
  <2> QED
    BY <1>1, <1>5, <1>6, MaxOfBounded
<1> QED
  BY <1>6, <1>7 DEF CharEnd

Holds(s) ==
    {k \in Max({0, CharEnd(s) - MaxHold})..CharEnd(s) - 1 : IsPlaceholderPrefix(Tail0(s, k))}

LEMMA EmitLenIs ==
    ASSUME NEW s \in Seq(Bytes)
    PROVE  /\ EmitLen(s) = IF Holds(s) = {} THEN CharEnd(s) ELSE Min(Holds(s))
           /\ Holds(s) # {} => EmitLen(s) \in Holds(s)
           /\ Holds(s) \in SUBSET (0..Len(s))
           /\ EmitLen(s) \in 0..Len(s)
<1>1. EmitLen(s) = IF Holds(s) = {} THEN CharEnd(s) ELSE Min(Holds(s))
  BY DEF EmitLen, Holds
<1>2. CharEnd(s) \in 0..Len(s) /\ Len(s) \in Nat /\ CharEnd(s) - MaxHold \in Int
  BY CharEndType, LenProperties, BoundsAssumption
<1>3. Max({0, CharEnd(s) - MaxHold}) \in Nat
  BY <1>2, MaxOfTwo
<1>4. Holds(s) \in SUBSET (0..Len(s))
  BY <1>2, <1>3 DEF Holds
<1>5. Holds(s) # {} => Min(Holds(s)) \in Holds(s)
  BY <1>2, <1>4, MinOfBounded
<1> QED
  BY <1>1, <1>2, <1>4, <1>5

LEMMA CappedIs ==
    ASSUME NEW s \in Seq(Bytes)
    PROVE  /\ CappedEmitLen(s) \in 0..Len(s)
           /\ Len(s) - CappedEmitLen(s) <= MaxPending
           /\ Len(s) - EmitLen(s) <= MaxPending => CappedEmitLen(s) = EmitLen(s)
<1>1. Len(s) \in Nat /\ EmitLen(s) \in 0..Len(s) /\ MaxPending \in Nat
  BY LenProperties, EmitLenIs, BoundsAssumption
<1>2. CappedEmitLen(s) = IF EmitLen(s) >= Len(s) - MaxPending THEN EmitLen(s)
                         ELSE Len(s) - MaxPending
  BY <1>1, MaxOfTwo DEF CappedEmitLen
<1> QED
  BY <1>1, <1>2

LEMMA PrefixIs ==
    ASSUME NEW s \in Seq(Bytes), NEW k \in 0..Len(s) - 1
    PROVE  IsPlaceholderPrefix(Tail0(s, k)) <=> Opens(s, k + 1)
<1> DEFINE n == Len(s)
           c == Tail0(s, k)
<1>1. n \in Nat /\ k \in Nat /\ k < n
  BY LenProperties
<1>2. IsCut(c, s, k, n)
  BY <1>1, CutIs DEF Tail0
<1> HIDE DEF n, c
<1>3. c \in Seq(Bytes) /\ Len(c) = n - k /\ \A i \in 1..n - k : c[i] = s[k + i]
  BY <1>2 DEF IsCut
<1>4. c # <<>> /\ c[1] = s[k + 1]
  BY <1>1, <1>3, EmptySeq
<1>5. (\A i \in 2..n - k : c[i] \in Letters) <=> \A i \in k + 2..n : s[i] \in Letters
  <2>1. ASSUME \A i \in 2..n - k : c[i] \in Letters, NEW i \in k + 2..n PROVE s[i] \in Letters
    <3>1. i - k \in 2..n - k /\ i - k \in 1..n - k /\ k + (i - k) = i
      BY <1>1
    <3> QED
      BY <1>3, <2>1, <3>1
  <2>2. ASSUME \A i \in k + 2..n : s[i] \in Letters, NEW i \in 2..n - k PROVE c[i] \in Letters
    <3>1. k + i \in k + 2..n /\ i \in 1..n - k
      BY <1>1
    <3> QED
      BY <1>3, <2>2, <3>1
  <2> QED
    BY <2>1, <2>2
<1>6. (k + 1) + 1 = k + 2
  BY <1>1
<1>7. IsPlaceholderPrefix(c) <=> Opens(s, k + 1)
  BY <1>3, <1>4, <1>5, <1>6 DEF IsPlaceholderPrefix, Opens, n
<1> QED
  BY <1>7 DEF c

\* The end of the last whole character is the end, but for an unfinished one.
LEMMA CharEndIs ==
    ASSUME NEW s \in Seq(Bytes), s # <<>>, Whole(s)
    PROVE  CharEnd(s) = IF s[Len(s)] = "L" THEN Len(s) - 1 ELSE Len(s)
<1> DEFINE n == Len(s)
           e == IF s[n] = "L" THEN n - 1 ELSE n
           T == {m \in 0..n : IsUtf8(SubSeq(s, 1, m))}
<1>1. n \in Nat /\ n > 0
  BY LenProperties, EmptySeq
<1>2. e \in 0..n
  BY <1>1
<1>3. ASSUME NEW m \in 0..n
      PROVE  IsUtf8(SubSeq(s, 1, m)) <=> \A i \in 1..m : InCharacter(SubSeq(s, 1, m), i)
  <2>1. IsCut(SubSeq(s, 0 + 1, m), s, 0, m)
    BY <1>1, CutIs
  <2>2. SubSeq(s, 1, m) \in Seq(Bytes) /\ Len(SubSeq(s, 1, m)) = m
    BY <2>1 DEF IsCut
  <2>3. DOMAIN SubSeq(s, 1, m) = 1..m
    BY <2>2, LenProperties
  <2> QED
    BY <2>3 DEF IsUtf8
<1>4. e \in T
  <2> DEFINE c == SubSeq(s, 0 + 1, e)
  <2>1. IsCut(c, s, 0, e)
    BY <1>1, <1>2, CutIs
  <2> HIDE DEF c
  <2>2. Len(c) = e /\ \A i \in 1..e : c[i] = s[i]
    BY <1>2, <2>1 DEF IsCut
  <2>3. ASSUME NEW i \in 1..e PROVE InCharacter(c, i)
    <3>1. i \in 1..n /\ i <= e /\ c[i] = s[i]
      BY <1>1, <1>2, <2>2
    <3>2. InCharacter(s, i)
      BY <1>1, <3>1 DEF Whole
    <3>3. s[i] = "L" => i + 1 \in 1..e
      <4>1. s[i] = "L" => i < n /\ s[i + 1] = "C"
        BY <3>2 DEF InCharacter, Paired
      <4>2. i < n /\ s[i + 1] = "C" => i + 1 # n \/ s[n] # "L"
        BY <1>1
      <4> QED
        BY <1>1, <3>1, <4>1, <4>2
    <3>4. i > 1 => i - 1 \in 1..e
      BY <1>2, <3>1
    <3>5. s[i] = "L" => c[i + 1] = s[i + 1] /\ i < e
      BY <2>2, <3>1, <3>3, <1>2
    <3>6. i > 1 => c[i - 1] = s[i - 1]
      BY <2>2, <3>4
    <3> QED
      BY <2>2, <3>1, <3>2, <3>5, <3>6 DEF InCharacter, Paired
  <2>4. c = SubSeq(s, 1, e)
    BY DEF c
  <2> QED
    BY <1>2, <1>3, <2>3, <2>4
<1>5. ASSUME NEW y \in T PROVE y <= e
  <2>1. y \in 0..n /\ \A i \in 1..y : InCharacter(SubSeq(s, 1, y), i)
    BY <1>3
  <2>2. ASSUME s[n] = "L", y = n PROVE FALSE
    <3>1. IsCut(SubSeq(s, 0 + 1, n), s, 0, n)
      BY <1>1, CutIs
    <3>2. Len(SubSeq(s, 1, n)) = n /\ SubSeq(s, 1, n)[n] = s[n]
      BY <1>1, <3>1 DEF IsCut
    <3>3. InCharacter(SubSeq(s, 1, n), n)
      BY <1>1, <2>1, <2>2
    <3> QED
      BY <2>2, <3>2, <3>3 DEF InCharacter, Paired
  <2> QED
    BY <1>1, <2>1, <2>2
<1>6. T \in SUBSET (0..n)
  OBVIOUS
<1>7. Max(T) = e
  <2> HIDE DEF T, e
  <2> QED
    BY <1>1, <1>4, <1>5, <1>6, MaxIs
<1> QED
  BY <1>7 DEF CharEnd

\* Of a text in which all is whole, push passes on everything; everything but
\* the beginning of a character; or everything but what may be the beginning of
\* a placeholder.
EmitsAll(s) == EmitLen(s) = Len(s) /\ s[Len(s)] # "L" /\ NoneOpen(s)
EmitsToCharacter(s) == EmitLen(s) = Len(s) - 1 /\ s[Len(s)] = "L"
EmitsToOpening(s) ==
    EmitLen(s) < Len(s) /\ Opens(s, EmitLen(s) + 1) /\ Len(s) - EmitLen(s) <= MaxHold

LEMMA EmitLenOfWhole ==
    ASSUME NEW s \in Seq(Bytes), s # <<>>, Whole(s)
    PROVE  EmitsAll(s) \/ EmitsToCharacter(s) \/ EmitsToOpening(s)
<1> DEFINE n == Len(s)
           from == Max({0, CharEnd(s) - MaxHold})
<1>1. n \in Nat /\ n > 0 /\ MaxHold \in Nat
  BY LenProperties, EmptySeq, BoundsAssumption
<1>2. /\ EmitLen(s) = IF Holds(s) = {} THEN CharEnd(s) ELSE Min(Holds(s))
      /\ Holds(s) # {} => EmitLen(s) \in Holds(s)
  BY EmitLenIs
<1>3. CASE s[n] = "L"
  <2>1. CharEnd(s) = n - 1
    BY <1>3, CharEndIs
  <2>2. from \in Nat
    BY <1>1, <2>1, MaxOfTwo
  <2>3. ASSUME NEW k \in Holds(s) PROVE FALSE
    <3>1. k \in from..n - 1 - 1 /\ IsPlaceholderPrefix(Tail0(s, k))
      BY <2>1 DEF Holds
    <3>2. k \in 0..n - 1 /\ n \in (k + 1) + 1..n
      BY <1>1, <2>2, <3>1
    <3>3. Opens(s, k + 1)
      BY <3>1, <3>2, PrefixIs
    <3>4. s[n] \in Letters
      BY <3>2, <3>3 DEF Opens
    <3> QED
      BY <1>3, <3>4, BytesAssumption
  <2> QED
    BY <1>2, <1>3, <2>1, <2>3 DEF EmitsToCharacter
<1>4. CASE s[n] # "L"
  <2>1. CharEnd(s) = n
    BY <1>4, CharEndIs
  <2>2. from = IF 0 >= n - MaxHold THEN 0 ELSE n - MaxHold
    BY <1>1, <2>1, MaxOfTwo
  <2>3. Holds(s) = {k \in from..n - 1 : IsPlaceholderPrefix(Tail0(s, k))}
    BY <2>1 DEF Holds
  <2> HIDE DEF from
  <2>4. CASE Holds(s) = {}
    <3>1. ASSUME NEW j \in 1..n, n - j + 1 <= MaxHold, Opens(s, j) PROVE FALSE
      <4>1. j - 1 \in 0..n - 1 /\ (j - 1) + 1 = j /\ j - 1 \in from..n - 1
        BY <1>1, <2>2, <3>1
      <4>2. IsPlaceholderPrefix(Tail0(s, j - 1))
        BY <3>1, <4>1, PrefixIs
      <4> QED
        BY <2>3, <2>4, <4>1, <4>2
    <3>2. NoneOpen(s)
      BY <3>1 DEF NoneOpen
    <3> QED
      BY <1>2, <1>4, <2>1, <2>4, <3>2 DEF EmitsAll
  <2>5. CASE Holds(s) # {}
    <3> DEFINE e == EmitLen(s)
    <3>1. e \in from..n - 1 /\ IsPlaceholderPrefix(Tail0(s, e))
      BY <1>2, <2>3, <2>5
    <3> HIDE DEF e
    <3>2. e \in 0..n - 1 /\ e < n /\ n - e <= MaxHold
      BY <1>1, <2>2, <3>1
    <3>3. Opens(s, e + 1)
      BY <3>1, <3>2, PrefixIs
    <3> QED
      BY <3>2, <3>3 DEF EmitsToOpening, e
  <2> QED
    BY <2>4, <2>5
<1> QED
  BY <1>3, <1>4

\* Behind what push passes on, the text is settled.
LEMMA EmitsSettled ==
    ASSUME NEW s \in Seq(Bytes), NEW k, Settled(s, k), NEW t \in Seq(Bytes), t # <<>>,
           NEW b, IsCut(b, s \o t, k, Len(s \o t)), Whole(b)
    PROVE  Settled(s \o t, k + EmitLen(b))
<1> DEFINE n == Len(s \o t)
           e == EmitLen(b)
<1>1. /\ Len(s) \in Nat /\ Len(t) \in Nat /\ Len(t) > 0
      /\ s \o t \in Seq(Bytes) /\ n = Len(s) + Len(t)
      /\ \A i \in 1..Len(s) : (s \o t)[i] = s[i]
      /\ k \in 0..Len(s)
  <2>1. Len(s) \in Nat /\ Len(t) \in Nat /\ Len(t) > 0
    BY LenProperties, EmptySeq
  <2>2. /\ s \o t \in Seq(Bytes) /\ n = Len(s) + Len(t)
        /\ \A i \in 1..Len(s) + Len(t) :
             (s \o t)[i] = IF i <= Len(s) THEN s[i] ELSE t[i - Len(s)]
    BY ConcatProperties
  <2>3. \A i \in 1..Len(s) : i \in 1..Len(s) + Len(t) /\ i <= Len(s)
    BY <2>1
  <2>4. \A i \in 1..Len(s) : (s \o t)[i] = s[i]
    BY <2>2, <2>3
  <2> QED
    BY <2>1, <2>2, <2>4 DEF Settled
<1>2. b \in Seq(Bytes) /\ Len(b) = n - k /\ \A i \in 1..n - k : b[i] = (s \o t)[k + i]
  BY DEF IsCut
<1>3. b # <<>>
  BY <1>1, <1>2, EmptySeq
<1>4. e \in 0..Len(b)
  BY <1>2, EmitLenIs
<1>5. EmitsAll(b) \/ EmitsToCharacter(b) \/ EmitsToOpening(b)
  BY <1>2, <1>3, EmitLenOfWhole
<1> DEFINE u == s \o t
<1> HIDE DEF u, n, e
<1>6. e < Len(b) => b[e + 1] = "[" \/ (b[e + 1] = "L" /\ e + 1 = Len(b))
  BY <1>1, <1>2, <1>4, <1>5 DEF EmitsAll, EmitsToCharacter, EmitsToOpening, Opens, e
<1>7. e > 0 => b[e] # "L"
  <2>1. SUFFICES ASSUME e > 0, b[e] = "L" PROVE FALSE
    OBVIOUS
  <2>2. e < Len(b)
    BY <1>4, <1>5, <2>1, <1>1, <1>2 DEF EmitsAll, EmitsToCharacter, EmitsToOpening, e
  <2>3. e \in 1..Len(b) /\ e # Len(b)
    BY <1>1, <1>2, <1>4, <2>1, <2>2
  <2>4. b[e + 1] = "C"
    BY <2>1, <2>3 DEF Whole, InCharacter, Paired
  <2> QED
    BY <1>6, <2>2, <2>4
<1>8. k + e \in 0..n
  BY <1>1, <1>2, <1>4
<1>9. k + e > 0 => u[k + e] # "L"
  <2>1. CASE e > 0
    <3>1. e \in 1..n - k
      BY <1>1, <1>2, <1>4, <2>1
    <3>2. b[e] = u[k + e]
      BY <1>2, <3>1 DEF u
    <3> QED
      BY <1>7, <2>1, <3>2
  <2>2. CASE e = 0
    <3>1. k + e = k
      BY <1>1, <2>2
    <3>2. k > 0 => k \in 1..Len(s) /\ s[k] # "L"
      BY <1>1 DEF Settled
    <3>3. k > 0 => u[k] # "L"
      BY <1>1, <3>2 DEF u
    <3> QED
      BY <3>1, <3>3
  <2> QED
    BY <1>4, <2>1, <2>2
<1>10. k + e < n => u[k + e + 1] = "[" \/ (u[k + e + 1] = "L" /\ k + e + 1 = n)
  <2>1. SUFFICES ASSUME k + e < n
                 PROVE  u[k + e + 1] = "[" \/ (u[k + e + 1] = "L" /\ k + e + 1 = n)
    OBVIOUS
  <2>2. e + 1 \in 1..n - k /\ k + (e + 1) = k + e + 1 /\ e < Len(b)
    BY <1>1, <1>2, <1>4, <2>1
  <2>3. b[e + 1] = u[k + e + 1]
    <3>1. PICK i \in 1..n - k : i = e + 1
      BY <2>2
    <3>2. b[i] = u[k + i]
      BY <1>2 DEF u
    <3>3. k + i = k + e + 1
      BY <2>2, <3>1
    <3> QED
      BY <3>1, <3>2, <3>3, Zenon
  <2>4. e + 1 = Len(b) <=> k + e + 1 = n
    BY <1>1, <1>2, <1>4
  <2> QED
    BY <1>6, <2>2, <2>3, <2>4
<1>11. ASSUME k + e = n, NEW j \in 1..n, n - j + 1 <= MaxHold, Opens(u, j) PROVE FALSE
  <2>1. Len(u) = n
    BY DEF u, n
  <2>2. u[j] = "[" /\ \A i \in j + 1..n : u[i] \in Letters
    BY <1>11, <2>1 DEF Opens
  <2>3. CASE j > k
    <3>1. e = Len(b) /\ ~ (e < Len(b))
      BY <1>1, <1>2, <1>4, <1>11
    <3>2. NoneOpen(b)
      BY <1>1, <1>2, <1>4, <1>5, <3>1 DEF EmitsAll, EmitsToCharacter, EmitsToOpening, e
    <3>3. j - k \in 1..n - k /\ k + (j - k) = j /\ (n - k) - (j - k) + 1 = n - j + 1
      BY <1>1, <2>3
    <3>4. b[j - k] = "["
      BY <1>2, <2>2, <3>3 DEF u
    <3>5. ASSUME NEW i \in (j - k) + 1..n - k PROVE b[i] \in Letters
      <4>1. i \in 1..n - k /\ k + i \in j + 1..n
        BY <1>1, <3>3
      <4>2. b[i] = u[k + i]
        BY <1>2, <4>1 DEF u
      <4> QED
        BY <2>2, <4>1, <4>2
    <3>6. Opens(b, j - k)
      BY <1>2, <3>4, <3>5 DEF Opens
    <3>7. j - k \in 1..Len(b) /\ Len(b) - (j - k) + 1 <= MaxHold
      BY <1>2, <1>11, <3>3
    <3> QED
      BY <3>2, <3>6, <3>7 DEF NoneOpen
  <2>4. CASE j <= k /\ k < Len(s)
    <3>1. k + 1 \in j + 1..n /\ k + 1 \in 1..Len(s)
      BY <1>1, <2>4
    <3>2. u[k + 1] = s[k + 1] /\ u[k + 1] \in Letters
      BY <1>1, <2>2, <3>1 DEF u
    <3>3. s[k + 1] = "[" \/ s[k + 1] = "L"
      BY <2>4 DEF Settled
    <3> QED
      BY <3>2, <3>3, BytesAssumption
  <2>5. CASE j <= k /\ k = Len(s)
    <3>1. NoneOpen(s)
      BY <2>5 DEF Settled
    <3>2. j \in 1..Len(s) /\ \A i \in j + 1..Len(s) : i \in 1..Len(s) /\ i \in j + 1..n
      BY <1>1, <2>5
    <3>3. s[j] = "[" /\ \A i \in j + 1..Len(s) : s[i] \in Letters
      BY <1>1, <2>2, <3>2 DEF u
    <3>4. Len(s) - j + 1 <= MaxHold
      BY <1>1, <1>11, BoundsAssumption
    <3> QED
      BY <3>1, <3>2, <3>3, <3>4 DEF NoneOpen, Opens
  <2>6. j > k \/ (j <= k /\ k < Len(s)) \/ (j <= k /\ k = Len(s))
    BY <1>1
  <2> QED
    BY <2>3, <2>4, <2>5, <2>6
<1>12. k + e = n => NoneOpen(u)
  BY <1>11 DEF NoneOpen, u, n
<1>13. Settled(u, k + e)
  <2>1. Len(u) = n
    BY DEF u, n
  <2> QED
    BY <1>8, <1>9, <1>10, <1>12, <2>1 DEF Settled
<1> QED
  BY <1>13 DEF u, e

\* A part of a text is a part of any that is the same so far.
LEMMA CutAlike ==
    ASSUME NEW s, NEW u, NEW a \in Nat, NEW b \in Nat, \A i \in 1..b : s[i] = u[i],
           NEW c, IsCut(c, s, a, b)
    PROVE  IsCut(c, u, a, b)
<1>1. \A i \in 1..b - a : a + i \in 1..b
  OBVIOUS
<1> QED
  BY <1>1 DEF IsCut

LEMMA CutBefore ==
    ASSUME NEW s \in Seq(Bytes), NEW t \in Seq(Bytes)
    PROVE  /\ IsCut(s, s \o t, 0, Len(s))
           /\ \A i \in 1..Len(s) : (s \o t)[i] = s[i]
           /\ s \o t \in Seq(Bytes) /\ Len(s \o t) = Len(s) + Len(t)
           /\ Len(s) \in Nat /\ Len(t) \in Nat
<1>1. Len(s) \in Nat /\ Len(t) \in Nat
  BY LenProperties
<1>2. /\ s \o t \in Seq(Bytes) /\ Len(s \o t) = Len(s) + Len(t)
      /\ \A i \in 1..Len(s) + Len(t) :
           (s \o t)[i] = IF i <= Len(s) THEN s[i] ELSE t[i - Len(s)]
  BY ConcatProperties
<1>3. \A i \in 1..Len(s) : (s \o t)[i] = s[i]
  BY <1>1, <1>2
<1>4. Len(s) - 0 = Len(s) /\ \A i \in 1..Len(s) : 0 + i = i
  BY <1>1
<1> QED
  BY <1>1, <1>2, <1>3, <1>4 DEF IsCut

\* What has come of a stream without bad bytes is characters, but for one that may
\* be unfinished.
LEMMA ReceivedWhole ==
    ASSUME NEW u \in Seq(Bytes), NEW v \in Seq(Bytes), u \o v \in Streams, Intact(u)
    PROVE  Whole(u)
<1> DEFINE n == Len(u)
           w == u \o v
<1>1. n \in Nat /\ Len(v) \in Nat /\ w \in Seq(Bytes) /\ Len(w) = n + Len(v)
      /\ \A i \in 1..n : w[i] = u[i]
  BY CutBefore
<1>2. \A i \in DOMAIN w : w[i] = "bad" \/ InCharacter(w, i)
  BY StreamsAssumption
<1>3. DOMAIN w = 1..n + Len(v) /\ DOMAIN u = 1..n
  BY <1>1, LenProperties
<1> HIDE DEF w
<1>4. ASSUME NEW i \in 1..n PROVE InCharacter(u, i) \/ (i = n /\ u[i] = "L")
  <2>1. i \in DOMAIN w /\ i \in DOMAIN u /\ w[i] = u[i]
    BY <1>1, <1>3
  <2>2. InCharacter(w, i)
    BY <1>2, <2>1 DEF Intact
  <2>3. i < n => w[i + 1] = u[i + 1]
    BY <1>1
  <2>4. i > 1 => w[i - 1] = u[i - 1]
    BY <1>1
  <2>5. i < n \/ i = n
    BY <1>1
  <2> QED
    BY <1>1, <2>1, <2>2, <2>3, <2>4, <2>5 DEF InCharacter, Paired
<1> QED
  BY <1>4 DEF Whole

LEMMA CutWhole ==
    ASSUME NEW u \in Seq(Bytes), Whole(u), NEW k \in 0..Len(u), k > 0 => u[k] # "L",
           NEW b, IsCut(b, u, k, Len(u))
    PROVE  Whole(b)
<1> DEFINE n == Len(u)
<1>1. n \in Nat /\ k \in Nat /\ k <= n /\ b \in Seq(Bytes) /\ Len(b) = n - k
      /\ \A i \in 1..n - k : b[i] = u[k + i]
  BY LenProperties DEF IsCut
<1> HIDE DEF n
<1>2. ASSUME NEW i \in 1..n - k PROVE InCharacter(b, i) \/ (i = n - k /\ b[i] = "L")
  <2>1. PICK j \in 1..n : j = k + i
    BY <1>1
  <2>2. b[i] = u[j]
    BY <1>1, <2>1
  <2>3. InCharacter(u, j) \/ (j = n /\ u[j] = "L")
    BY DEF Whole, n
  <2>4. j = n => i = n - k
    BY <1>1, <2>1
  <2>5. j < n => i < n - k /\ b[i + 1] = u[j + 1]
    <3>1. SUFFICES ASSUME j < n PROVE i < n - k /\ b[i + 1] = u[j + 1]
      OBVIOUS
    <3>2. PICK x \in 1..n - k : x = i + 1
      BY <1>1, <2>1, <3>1
    <3>3. b[x] = u[k + x] /\ k + x = j + 1
      BY <1>1, <2>1, <3>2
    <3>4. i < n - k
      BY <1>1, <2>1, <3>1
    <3> QED
      BY <3>2, <3>3, <3>4
  <2>6. i > 1 => b[i - 1] = u[j - 1]
    <3>1. SUFFICES ASSUME i > 1 PROVE b[i - 1] = u[j - 1]
      OBVIOUS
    <3>2. PICK x \in 1..n - k : x = i - 1
      BY <1>1, <3>1
    <3>3. b[x] = u[k + x] /\ k + x = j - 1
      BY <1>1, <2>1, <3>2
    <3> QED
      BY <3>2, <3>3
  <2>7. j > 1 /\ ~ (i > 1) => u[j - 1] # "L"
    <3>1. j > 1 /\ ~ (i > 1) => k > 0 /\ j - 1 = k
      BY <1>1, <2>1
    <3> QED
      BY <3>1
  <2> QED
    BY <1>1, <2>2, <2>3, <2>4, <2>5, <2>6, <2>7 DEF InCharacter, Paired, n
<1> QED
  BY <1>1, <1>2 DEF Whole

\* What is passed on of the bytes behind a settled place comes out as it does when
\* all that has come is rehydrated at once.
LEMMA PassedOn ==
    ASSUME NEW s \in Seq(Bytes), NEW k, Settled(s, k), NEW t \in Seq(Bytes),
           NEW b, IsCut(b, s \o t, k, Len(s \o t)), NEW e \in 0..Len(b)
    PROVE  Rehydrated(SubSeq(s \o t, 1, k + e))
             = Rehydrated(SubSeq(s, 1, k)) \o Rehydrated(SubSeq(b, 1, e))
<1> DEFINE u == s \o t
           n == Len(u)
           w == SubSeq(u, 0 + 1, k + e)
           l == SubSeq(s, 0 + 1, k)
           r == SubSeq(b, 0 + 1, e)
<1>1. /\ Len(s) \in Nat /\ Len(t) \in Nat /\ u \in Seq(Bytes) /\ n = Len(s) + Len(t)
      /\ IsCut(s, u, 0, Len(s)) /\ \A i \in 1..Len(s) : u[i] = s[i]
  BY CutBefore
<1>2. k \in 0..Len(s)
  BY DEF Settled
<1> HIDE DEF u
<1>3. b \in Seq(Bytes) /\ Len(b) = n - k /\ IsCut(b, u, k, n)
  BY DEF IsCut, u
<1>4. n \in Nat /\ k \in Nat /\ e \in Nat /\ k <= Len(s) /\ e <= n - k /\ k + e \in Nat
      /\ k + e <= n /\ Len(s) <= n
  BY <1>1, <1>2, <1>3
<1>5. Separate(u, k)
  BY <1>1, <1>4, SettledSeparates
<1>6. IsCut(w, u, 0, k + e)
  BY <1>1, <1>4, CutIs
<1>7. IsCut(l, s, 0, k)
  BY <1>2, <1>4, CutIs
<1>8. IsCut(r, b, 0, e)
  BY <1>3, <1>4, CutIs
<1> HIDE DEF w, l, r
<1>9. w \in Seq(Bytes) /\ Len(w) = k + e /\ \A i \in 1..k + e : w[i] = u[i]
  <2>1. w \in Seq(Bytes) /\ Len(w) = (k + e) - 0 /\ \A i \in 1..(k + e) - 0 : w[i] = u[0 + i]
    BY <1>6 DEF IsCut
  <2>2. (k + e) - 0 = k + e /\ \A i \in 1..k + e : 0 + i = i
    BY <1>4
  <2> QED
    BY <2>1, <2>2
<1>10. Separate(w, k)
  <2>1. k + e \in k..Len(u)
    BY <1>4 DEF n
  <2> QED
    BY <1>1, <1>4, <1>5, <1>6, <2>1, SeparateBefore
<1>11. IsCut(l, w, 0, k)
  <2>1. \A i \in 1..k : s[i] = w[i]
    BY <1>1, <1>4, <1>9, SMTT(30)
  <2> QED
    BY <1>4, <1>7, <2>1, CutAlike
<1>12. IsCut(r, w, k, Len(w))
  <2>1. IsCut(r, u, k + 0, k + e)
    <3>1. 0 \in Nat /\ 0 <= e /\ e <= n - k
      BY <1>4
    <3> HIDE DEF n
    <3> QED
      BY <1>3, <1>4, <1>8, <3>1, CutOfCut
  <2>2. k + 0 = k
    BY <1>4
  <2>3. \A i \in 1..k + e : u[i] = w[i]
    BY <1>9
  <2> QED
    BY <1>4, <1>9, <2>1, <2>2, <2>3, CutAlike
<1>13. Rehydrated(w) = Rehydrated(l) \o Rehydrated(r)
  <2>1. k \in 0..Len(w)
    BY <1>4, <1>9
  <2>2. w \in Seq(Bytes)
    BY <1>9
  <2> QED
    BY <1>10, <1>11, <1>12, <2>1, <2>2, RehydratedCut
<1> QED
  BY <1>13 DEF w, l, r, u

-----------------------------------------------------------------------------
(* The invariant                                                           *)

LEMMA RehydratedNothing == Rehydrated(<<>>) = <<>>
<1> DEFINE parts == [i \in 1..Len(<<>>) |-> Shown(<<>>, i)]
<1>1. <<>> \in Seq(Bytes) /\ Len(<<>>) = 0
  BY EmptySeq
<1>2. Rehydrated(<<>>) = FlattenSeq(parts) /\ parts \in Seq(Seq(Bytes))
  BY <1>1, RehydratedIs
<1>3. DOMAIN parts = 1..0
  BY <1>1
<1> HIDE DEF parts
<1>4. Len(parts) \in Nat /\ DOMAIN parts = 1..Len(parts)
  BY <1>2, LenProperties
<1>5. Len(parts) = 0
  BY <1>3, <1>4
<1>6. parts = <<>>
  BY <1>2, <1>5, EmptySeq
<1> QED
  BY <1>2, <1>6, FlattenEmpty

LEMMA NothingOf ==
    ASSUME NEW s \in Seq(Bytes)
    PROVE  SubSeq(s, 1, 0) = <<>>
<1>1. 0 \in Nat /\ Len(s) \in Nat /\ 0 <= Len(s)
  BY LenProperties
<1>2. IsCut(SubSeq(s, 0 + 1, 0), s, 0, 0)
  BY <1>1, CutIs
<1>3. SubSeq(s, 1, 0) \in Seq(Bytes) /\ Len(SubSeq(s, 1, 0)) = 0
  BY <1>2 DEF IsCut
<1> QED
  BY <1>3, EmptySeq

LEMMA SettledNothing == Settled(<<>>, 0)
<1>1. Len(<<>>) = 0
  BY EmptySeq
<1> QED
  BY <1>1 DEF Settled, NoneOpen

LEMMA InitInv == Init => Inv
<1> SUFFICES ASSUME Init PROVE Inv
  OBVIOUS
<1>1. /\ rest \in Streams /\ received = <<>> /\ pending = <<>> /\ out = <<>>
      /\ final = Rehydrated(<<>>)
  BY DEF Init
<1>2. <<>> \in Seq(Bytes) /\ Len(<<>>) = 0
  BY EmptySeq
<1>3. Typed
  <2>1. rest \in Seq(Bytes)
    BY <1>1, StreamsAssumption
  <2>2. <<>> \o rest = rest
    BY <2>1, ConcatEmptySeq
  <2> QED
    BY <1>1, <1>2, <2>1, <2>2, RehydratedNothing DEF Typed
<1>4. Passed = 0
  BY <1>1, <1>2 DEF Passed
<1>5. PendingIsTail
  <2>1. IsCut(<<>>, <<>>, 0, 0)
    BY <1>2 DEF IsCut
  <2>2. Len(pending) <= MaxPending
    BY <1>1, <1>2, BoundsAssumption
  <2> QED
    BY <1>1, <1>2, <1>4, <2>1, <2>2 DEF PendingIsTail
<1>6. OutIsRest
  <2>3. SubSeq(<<>>, 1, 0) = <<>>
    BY <1>2, NothingOf
  <2>4. Held
    BY <1>1 DEF Held
  <2>5. out = Rehydrated(SubSeq(received, 1, Passed))
    BY <1>1, <1>4, <2>3, RehydratedNothing
  <2>6. Settled(received, Passed)
    BY <1>1, <1>4, SettledNothing
  <2> QED
    BY <2>4, <2>5, <2>6 DEF OutIsRest
<1> QED
  BY <1>3, <1>5, <1>6 DEF Inv

\* What comes next is taken off what is still to come.
LEMMA SplitAt ==
    ASSUME NEW s \in Seq(Bytes), NEW n \in 1..Len(s)
    PROVE  /\ SubSeq(s, 1, n) \in Seq(Bytes) /\ SubSeq(s, 1, n) # <<>>
           /\ Tail0(s, n) \in Seq(Bytes)
           /\ SubSeq(s, 1, n) \o Tail0(s, n) = s
<1> DEFINE l == SubSeq(s, 0 + 1, n)
           r == SubSeq(s, n + 1, Len(s))
<1>1. Len(s) \in Nat /\ n \in Nat /\ n <= Len(s) /\ 0 <= n /\ n > 0
  BY LenProperties
<1>2. IsCut(l, s, 0, n) /\ IsCut(r, s, n, Len(s))
  BY <1>1, CutIs
<1> HIDE DEF l, r
<1>3. l \in Seq(Bytes) /\ Len(l) = n /\ \A i \in 1..n : l[i] = s[i]
  <2>1. l \in Seq(Bytes) /\ Len(l) = n - 0 /\ \A i \in 1..n - 0 : l[i] = s[0 + i]
    BY <1>2 DEF IsCut
  <2>2. n - 0 = n /\ \A i \in 1..n : 0 + i = i
    BY <1>1
  <2> QED
    BY <2>1, <2>2
<1>4. r \in Seq(Bytes) /\ Len(r) = Len(s) - n /\ \A i \in 1..Len(s) - n : r[i] = s[n + i]
  BY <1>2 DEF IsCut
<1>5. /\ l \o r \in Seq(Bytes) /\ Len(l \o r) = Len(l) + Len(r)
      /\ \A i \in 1..Len(l) + Len(r) : (l \o r)[i] = IF i <= Len(l) THEN l[i] ELSE r[i - Len(l)]
  BY <1>3, <1>4, ConcatProperties
<1>6. ASSUME NEW i \in 1..Len(s) PROVE (l \o r)[i] = s[i]
  <2>1. i \in 1..Len(l) + Len(r)
    BY <1>1, <1>3, <1>4
  <2>2. CASE i <= n
    BY <1>3, <1>5, <2>1, <2>2
  <2>3. CASE ~ (i <= n)
    <3>1. PICK x \in 1..Len(s) - n : x = i - n
      BY <1>1, <2>3
    <3>2. (l \o r)[i] = r[i - Len(l)] /\ i - Len(l) = x
      BY <1>3, <1>5, <2>1, <2>3, <3>1
    <3>3. r[x] = s[n + x] /\ n + x = i
      BY <1>1, <1>4, <3>1
    <3> QED
      BY <3>2, <3>3
  <2> QED
    BY <2>2, <2>3
<1>7. l \o r = s
  <2>1. Len(l \o r) = Len(s)
    BY <1>1, <1>3, <1>4, <1>5
  <2> QED
    BY <1>5, <1>6, <2>1, SeqEqual
<1>8. l # <<>>
  BY <1>1, <1>3, EmptySeq
<1> QED
  BY <1>3, <1>4, <1>7, <1>8 DEF l, r, Tail0

\* A chunk: the bytes held back and it are the end of what has come.
LEMMA ChunkInv ==
    ASSUME Inv, NEW n \in 1..Len(rest), Chunk(n)
    PROVE  Inv'
<1> DEFINE t == SubSeq(rest, 1, n)
           u == received \o t
           b == pending \o t
           e == CappedEmitLen(b)
           k == Passed
           left == Tail0(rest, n)
<1>1. /\ received' = u /\ rest' = left /\ final' = final
      /\ out' = out \o Rehydrated(SubSeq(b, 1, e)) /\ pending' = Tail0(b, e)
  BY DEF Chunk
<1>2. /\ received \in Seq(Bytes) /\ rest \in Seq(Bytes) /\ out \in Seq(Bytes)
      /\ received \o rest \in Streams /\ final = <<>>
  BY DEF Inv, Typed
<1>3. /\ k \in Nat /\ k <= Len(received) /\ Len(received) \in Nat /\ pending \in Seq(Bytes)
      /\ IsCut(pending, received, k, Len(received))
  <2>1. k \in Nat /\ IsCut(pending, received, k, Len(received)) /\ Len(received) \in Nat
    BY <1>2, LenProperties DEF Inv, PendingIsTail
  <2>2. pending \in Seq(Bytes) /\ Len(pending) = Len(received) - k /\ Len(pending) \in Nat
    BY <2>1, LenProperties DEF IsCut
  <2> QED
    BY <2>1, <2>2
<1>4. t \in Seq(Bytes) /\ t # <<>> /\ left \in Seq(Bytes) /\ t \o left = rest
  BY <1>2, SplitAt
<1> HIDE DEF t, left, k
<1>5. u \in Seq(Bytes) /\ b \in Seq(Bytes) /\ Len(u) \in Nat /\ Len(b) \in Nat
  BY <1>2, <1>3, <1>4, ConcatProperties, LenProperties
<1>6. IsCut(b, u, k, Len(u))
  BY <1>2, <1>3, <1>4, JoinedCut
<1>7. u \o left \in Streams
  <2>1. (received \o t) \o left = received \o (t \o left)
    <3>1. received \in Seq(Bytes) /\ t \in Seq(Bytes) /\ left \in Seq(Bytes)
      BY <1>2, <1>4
    <3> QED
      BY <3>1, ConcatAssociative
  <2>2. received \o (t \o left) = received \o rest
    BY <1>4
  <2> QED
    BY <1>2, <2>1, <2>2
<1>8. e \in 0..Len(b) /\ Len(b) - e <= MaxPending
      /\ (Len(b) - EmitLen(b) <= MaxPending => e = EmitLen(b))
  BY <1>5, CappedIs
<1> HIDE DEF b, u, e
<1>9. Len(b) = Len(u) - k
  BY <1>6 DEF IsCut
<1> DEFINE held == Tail0(b, e)
           shown == SubSeq(b, 1, e)
<1>10. IsCut(held, b, e, Len(b)) /\ Len(held) = Len(b) - e
  <2>1. IsCut(held, b, e, Len(b))
    BY <1>5, <1>8, CutIs DEF Tail0
  <2> QED
    BY <2>1 DEF IsCut
<1>11. shown \in Seq(Bytes)
  <2>1. IsCut(SubSeq(b, 0 + 1, e), b, 0, e)
    BY <1>5, <1>8, CutIs
  <2> QED
    BY <2>1 DEF IsCut
<1> HIDE DEF held, shown
<1>12. Rehydrated(shown) \in Seq(Bytes)
  BY <1>11, RehydratedIs, FlattenType
<1>13. Typed'
  <2>1. out \o Rehydrated(shown) \in Seq(Bytes)
    BY <1>2, <1>12, ConcatProperties
  <2> QED
    BY <1>1, <1>2, <1>4, <1>5, <1>7, <2>1 DEF Typed, shown
<1>14. Passed' = k + e
  <2>1. Passed' = Len(u) - Len(held)
    BY <1>1 DEF Passed, held
  <2> QED
    BY <1>3, <1>5, <1>8, <1>9, <1>10, <2>1
<1>15. PendingIsTail'
  <2>1. IsCut(held, u, k + e, k + Len(b))
    <3>1. e \in Nat /\ Len(b) \in Nat /\ e <= Len(b) /\ Len(b) <= Len(u) - k
      BY <1>5, <1>8, <1>9, <1>3
    <3> QED
      BY <1>3, <1>5, <1>6, <1>10, <3>1, CutOfCut
  <2>2. k + Len(b) = Len(u)
    BY <1>3, <1>5, <1>9
  <2>3. k + e \in Nat /\ Len(held) <= MaxPending
    BY <1>3, <1>8, <1>10
  <2> QED
    BY <1>1, <1>14, <2>1, <2>2, <2>3 DEF PendingIsTail, held
<1>16. ASSUME Intact(u)
       PROVE  /\ Settled(u, k + e)
              /\ out \o Rehydrated(shown) = Rehydrated(SubSeq(u, 1, k + e))
              /\ held = <<>> \/ held = <<"L">> \/ (held[1] = "[" /\ Len(held) <= MaxHold)
  <2>1. Intact(received)
    <3>1. Len(u) = Len(received) + Len(t) /\ Len(t) \in Nat
          /\ \A i \in 1..Len(received) : u[i] = received[i]
      BY <1>2, <1>4, CutBefore DEF u
    <3>2. DOMAIN u = 1..Len(u) /\ DOMAIN received = 1..Len(received)
      BY <1>2, <1>5, LenProperties
    <3> QED
      BY <1>3, <1>16, <3>1, <3>2 DEF Intact
  <2>2. Settled(received, k) /\ out = Rehydrated(SubSeq(received, 1, k))
    BY <2>1 DEF Inv, OutIsRest, k
  <2>3. Whole(u)
    BY <1>4, <1>5, <1>7, <1>16, ReceivedWhole
  <2>4. k \in 0..Len(u) /\ (k > 0 => u[k] # "L")
    <3>1. k \in 0..Len(received) /\ (k > 0 => received[k] # "L")
      BY <2>2 DEF Settled
    <3>2. Len(u) = Len(received) + Len(t) /\ Len(t) \in Nat
          /\ \A i \in 1..Len(received) : u[i] = received[i]
      BY <1>2, <1>4, CutBefore DEF u
    <3> QED
      BY <1>3, <3>1, <3>2
  <2>5. Whole(b)
    BY <1>5, <1>6, <2>3, <2>4, CutWhole
  <2>6. b # <<>>
    <3>1. Len(t) \in Nat \ {0} /\ Len(b) = Len(pending) + Len(t) /\ Len(pending) \in Nat
      BY <1>3, <1>4, EmptySeq, LenProperties, ConcatProperties DEF b
    <3> QED
      BY <3>1, EmptySeq
  <2>7. EmitsAll(b) \/ EmitsToCharacter(b) \/ EmitsToOpening(b)
    BY <1>5, <2>5, <2>6, EmitLenOfWhole
  <2>8. e = EmitLen(b)
    <3>1. Len(b) - EmitLen(b) <= MaxHold \/ Len(b) - EmitLen(b) <= 1
      BY <1>5, <2>7, EmitLenIs, BoundsAssumption DEF EmitsAll, EmitsToCharacter, EmitsToOpening
    <3>2. EmitLen(b) \in 0..Len(b)
      BY <1>5, EmitLenIs
    <3> QED
      BY <1>5, <1>8, <3>1, <3>2, BoundsAssumption
  <2>9. Settled(u, k + e)
    <3>1. Settled(received \o t, k + EmitLen(b))
      BY <1>2, <1>4, <1>6, <2>2, <2>5, EmitsSettled DEF u
    <3> QED
      BY <2>8, <3>1 DEF u
  <2>10. out \o Rehydrated(shown) = Rehydrated(SubSeq(u, 1, k + e))
    <3>1. Rehydrated(SubSeq(received \o t, 1, k + e))
            = Rehydrated(SubSeq(received, 1, k)) \o Rehydrated(SubSeq(b, 1, e))
      <4>1. received \in Seq(Bytes) /\ t \in Seq(Bytes) /\ Settled(received, k) /\ e \in 0..Len(b)
        BY <1>2, <1>4, <1>8, <2>2
      <4>2. IsCut(b, received \o t, k, Len(received \o t))
        BY <1>6 DEF u
      <4> QED
        BY <4>1, <4>2, PassedOn
    <3> QED
      BY <2>2, <3>1 DEF u, shown
  <2>11. held = <<>> \/ held = <<"L">> \/ (held[1] = "[" /\ Len(held) <= MaxHold)
    <3>1. held \in Seq(Bytes) /\ Len(held) = Len(b) - e
          /\ \A i \in 1..Len(b) - e : held[i] = b[e + i]
      BY <1>10 DEF IsCut
    <3>2. CASE EmitsAll(b)
      <4>1. Len(held) = 0
        BY <1>5, <2>8, <3>1, <3>2 DEF EmitsAll
      <4> QED
        BY <3>1, <4>1, EmptySeq
    <3>3. CASE EmitsToCharacter(b)
      <4>1. e = Len(b) - 1 /\ b[Len(b)] = "L"
        BY <2>8, <3>3 DEF EmitsToCharacter
      <4>2. Len(b) - e = 1 /\ e + 1 = Len(b)
        BY <1>5, <4>1
      <4>3. Len(held) = 1 /\ held[1] = "L"
        BY <3>1, <4>1, <4>2
      <4>4. "L" \in Bytes
        <5>1. 1 \in 1..Len(held)
          BY <4>3
        <5>2. held[1] \in Bytes
          BY <3>1, <5>1, ElementOfSeq
        <5> QED
          BY <4>3, <5>2
      <4>5. <<"L">> \in Seq(Bytes) /\ Len(<<"L">>) = 1 /\ <<"L">>[1] = "L"
        BY <4>4
      <4>6. held = <<"L">>
        <5> DEFINE one == <<"L">>
        <5>1. one \in Seq(Bytes) /\ Len(held) = Len(one) /\ \A i \in 1..Len(held) : held[i] = one[i]
          BY <4>3, <4>5
        <5> HIDE DEF one
        <5>2. held = one
          BY <3>1, <5>1, SeqEqual
        <5> QED
          BY <5>2 DEF one
      <4> QED
        BY <4>6
    <3>4. CASE EmitsToOpening(b)
      <4>1. e < Len(b) /\ b[e + 1] = "[" /\ Len(b) - e <= MaxHold
        BY <2>8, <3>4 DEF EmitsToOpening, Opens
      <4>2. 1 \in 1..Len(b) - e
        BY <1>5, <1>8, <4>1
      <4> QED
        BY <3>1, <4>1, <4>2
    <3> QED
      BY <2>7, <3>2, <3>3, <3>4
  <2> QED
    BY <2>9, <2>10, <2>11
<1>17. OutIsRest'
  BY <1>1, <1>14, <1>16 DEF OutIsRest, Held, held, shown, Intact
<1> QED
  BY <1>13, <1>15, <1>17 DEF Inv

\* No other action touches the bytes.
LEMMA SameBytesInv ==
    ASSUME Inv, UNCHANGED <<rest, received, pending, final, out>>
    PROVE  Inv'
<1>1. /\ rest' = rest /\ received' = received /\ pending' = pending
      /\ final' = final /\ out' = out
  OBVIOUS
<1>2. Passed' = Passed
  BY <1>1 DEF Passed
<1>3. Typed'
  BY <1>1 DEF Inv, Typed
<1>4. PendingIsTail'
  BY <1>1, <1>2 DEF Inv, PendingIsTail
<1>5. OutIsRest'
  <2>1. Held' = Held
    BY <1>1 DEF Held
  <2> QED
    BY <1>1, <1>2, <2>1 DEF Inv, OutIsRest
<1> QED
  BY <1>3, <1>4, <1>5 DEF Inv

LEMMA StepInv == Inv /\ [Next]_vars => Inv'
<1> SUFFICES ASSUME Inv, [Next]_vars PROVE Inv'
  OBVIOUS
<1>1. ASSUME End PROVE Inv'
  <2>1. UNCHANGED <<rest, received, pending, final>> /\ out' = out \o final
    BY <1>1 DEF End
  <2>2. out \in Seq(Bytes) /\ final = <<>>
    BY DEF Inv, Typed
  <2>3. out' = out
    BY <2>1, <2>2, ConcatEmptySeq
  <2> QED
    BY <2>1, <2>3, SameBytesInv
<1>2. ASSUME Break \/ UNCHANGED vars PROVE Inv'
  <2>1. UNCHANGED <<rest, received, pending, final, out>>
    BY <1>2 DEF Break, vars
  <2> QED
    BY <2>1, SameBytesInv
<1> QED
  BY <1>1, <1>2, ChunkInv DEF Next

THEOREM Invariance == Spec => []Inv
<1> QED
  BY InitInv, StepInv, PTL DEF Spec

\* However the upstream's bytes are cut into chunks, a stream of UTF-8 comes out as
\* SseRehydrator::push would pass it on in one piece: no placeholder and no character is
\* broken at a cut, and none that is whole is held or changed.
THEOREM CutsMakeNoDifference == Spec => []Seamless
<1>1. Inv => Seamless
  <2> SUFFICES ASSUME Inv, Intact(received)
               PROVE  out \o Rehydrated(pending) = Rehydrated(received)
    BY DEF Seamless
  <2> DEFINE k == Passed
             l == SubSeq(received, 0 + 1, k)
  <2>1. received \in Seq(Bytes) /\ Len(received) \in Nat
    BY LenProperties DEF Inv, Typed
  <2>2. IsCut(pending, received, k, Len(received))
    BY DEF Inv, PendingIsTail
  <2>3. Settled(received, k) /\ out = Rehydrated(l)
    BY DEF Inv, OutIsRest
  <2> HIDE DEF k
  <2>4. k \in 0..Len(received) /\ k \in Nat
    BY <2>1, <2>3 DEF Settled
  <2>5. IsCut(received, received, 0, Len(received))
    <3>1. Len(received) - 0 = Len(received) /\ \A i \in 1..Len(received) : 0 + i = i
      BY <2>1
    <3> QED
      BY <2>1, <3>1 DEF IsCut
  <2>6. Separate(received, k)
    BY <2>1, <2>3, <2>5, SettledSeparates
  <2>7. IsCut(l, received, 0, k)
    BY <2>1, <2>4, CutIs
  <2> HIDE DEF l
  <2>8. Rehydrated(received) = Rehydrated(l) \o Rehydrated(pending)
    BY <2>1, <2>2, <2>4, <2>6, <2>7, RehydratedCut
  <2> QED
    BY <2>3, <2>8
<1> QED
  BY <1>1, Invariance, PTL

\* SseRehydrator holds back an unfinished character or what may become a placeholder,
\* and nothing else, of a stream of UTF-8.
THEOREM HoldsForAReason == Spec => []HeldForAReason
<1>1. Inv => HeldForAReason
  BY DEF Inv, OutIsRest, Held, HeldForAReason
<1> QED
  BY <1>1, Invariance, PTL

\* Whatever the upstream sends, UTF-8 or not, SseRehydrator holds no more than
\* MAX_PENDING bytes of it.
THEOREM PendingIsBounded == Spec => []PendingBounded
<1>1. Inv => PendingBounded
  BY DEF Inv, PendingIsTail, PendingBounded
<1> QED
  BY <1>1, Invariance, PTL
=============================================================================
