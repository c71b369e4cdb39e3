-------------------------------- MODULE Lemmas --------------------------------
(***************************************************************************)
(* What the proofs of several components rest on: induction over the        *)
(* naturals, over finite sets and over sequences, each said of a set so     *)
(* that it can be cited; the greatest and the smallest of some numbers; the *)
(* function a fold goes by; joining and spreading sequences; rehydration,   *)
(* which puts back the original of every placeholder of a book in whichever *)
(* of its orders it goes through them.                                      *)
(***************************************************************************)
EXTENDS Rehydration, FiniteSetsExt, FiniteSetTheorems, SequenceTheorems,
        WellFoundedInduction, TLAPS

\* A set that has 0, and the successor of whatever number it has, has them all.
LEMMA NatSetInduction ==
    ASSUME NEW S, 0 \in S, \A n \in Nat : n \in S => n + 1 \in S
    PROVE  Nat \subseteq S
<1>1. SUFFICES ASSUME Nat \ S # {} PROVE FALSE
  OBVIOUS
<1> DEFINE R == OpToRel(<, Nat)
<1>2. IsWellFoundedOn(R, Nat)
  BY NatLessThanWellFounded, Zenon
<1>3. \A a, b \in Nat : a < b => <<a, b>> \in R
  BY Zenon DEF OpToRel
<1> HIDE DEF R
<1>4. PICK x \in Nat \ S : \A y \in Nat \ S : ~ (<<y, x>> \in R)
  BY <1>1, <1>2, WFMin
<1>5. x # 0 /\ x - 1 \in Nat /\ x - 1 < x
  BY <1>4
<1>6. x - 1 \in S
  BY <1>3, <1>4, <1>5
<1>7. (x - 1) + 1 \in S
  BY <1>5, <1>6
<1> QED
  BY <1>4, <1>7

\* Numbers that go no further than n have a greatest one, if there are any.
LEMMA MaxOfBounded ==
    ASSUME NEW n \in Nat, NEW T \in SUBSET (0..n), T # {}
    PROVE  Max(T) \in T /\ \A y \in T : Max(T) >= y
<1> DEFINE HasMax(U) == \E x \in U : \A y \in U : x >= y
           Good == {k \in Nat : \A U \in SUBSET (0..k) : U # {} => HasMax(U)}
<1>1. 0 \in Good
  <2>1. ASSUME NEW U \in SUBSET (0..0), U # {} PROVE 0 \in U /\ \A y \in U : 0 >= y
    <3>1. \A y \in U : y = 0
      OBVIOUS
    <3>2. 0 \in U
      BY <2>1, <3>1, Zenon
    <3> QED
      BY <3>1, <3>2
  <2> QED
    BY <2>1
<1>2. ASSUME NEW k \in Nat, k \in Good PROVE k + 1 \in Good
  <2>1. SUFFICES ASSUME NEW U \in SUBSET (0..(k + 1)), U # {} PROVE HasMax(U)
    OBVIOUS
  <2>2. CASE k + 1 \in U
    BY <2>1, <2>2
  <2>3. CASE k + 1 \notin U
    <3>1. U \in SUBSET (0..k)
      BY <2>3
    <3> QED
      BY <1>2, <2>1, <3>1
  <2> QED
    BY <2>2, <2>3
<1> HIDE DEF Good
<1>3. Nat \subseteq Good
  BY <1>1, <1>2, NatSetInduction
<1>4. HasMax(T)
  <2>1. n \in Good
    BY <1>3
  <2> QED
    BY <2>1 DEF Good
<1> QED
  BY <1>4 DEF Max

\* The same of the smallest.
LEMMA MinOfBounded ==
    ASSUME NEW n \in Nat, NEW T \in SUBSET (0..n), T # {}
    PROVE  Min(T) \in T /\ \A y \in T : Min(T) <= y
<1> DEFINE Mirror == {n - y : y \in T}
<1>1. Mirror \in SUBSET (0..n) /\ Mirror # {}
  <2>1. \A y \in T : y \in 0..n
    OBVIOUS
  <2>2. \A y \in 0..n : n - y \in 0..n
    OBVIOUS
  <2>3. \A z \in Mirror : z \in 0..n
    BY <2>1, <2>2
  <2>4. PICK y \in T : TRUE
    OBVIOUS
  <2>5. n - y \in Mirror
    BY <2>4
  <2> QED
    BY <2>3, <2>5
<1>2. PICK y \in T : \A z \in Mirror : n - y >= z
  <2>1. Max(Mirror) \in Mirror /\ \A z \in Mirror : Max(Mirror) >= z
    <3> HIDE DEF Mirror
    <3> QED
      BY <1>1, MaxOfBounded
  <2> QED
    BY <2>1
<1>3. \A z \in T : y <= z
  <2>1. TAKE z \in T
  <2>2. n - z \in Mirror
    OBVIOUS
  <2>3. n - y >= n - z
    BY <1>2, <2>2
  <2>4. y \in Int /\ z \in Int
    OBVIOUS
  <2> QED
    BY <2>3, <2>4
<1> QED
  BY <1>3 DEF Min

\* At most one element, and any two are the same.
LEMMA AtMostOne ==
    ASSUME NEW n \in Nat, NEW T \in SUBSET (0..n)
    PROVE  Cardinality(T) <= 1 <=> \A x, y \in T : x = y
<1>1. IsFiniteSet(T) /\ Cardinality(T) \in Nat
  <2>1. IsFiniteSet(0..n)
    BY FS_Interval
  <2>2. IsFiniteSet(T)
    BY <2>1, FS_Subset
  <2> QED
    BY <2>2, FS_CardinalityType
<1>2. Cardinality(T) = 0 <=> T = {}
  BY <1>1, FS_EmptySet
<1>3. Cardinality(T) = 1 <=> \E x : T = {x}
  BY <1>1, FS_Singleton
<1>4. (\A x, y \in T : x = y) <=> T = {} \/ \E x : T = {x}
  <2>1. ASSUME \A x, y \in T : x = y, T # {} PROVE \E x : T = {x}
    <3>1. PICK x \in T : TRUE
      BY <2>1
    <3>2. T = {x}
      BY <2>1, <3>1
    <3> QED
      BY <3>2
  <2> QED
    BY <2>1
<1>5. Cardinality(T) <= 1 <=> Cardinality(T) = 0 \/ Cardinality(T) = 1
  BY <1>1
<1> QED
  BY <1>2, <1>3, <1>4, <1>5

\* A property that a finite set's subsets inherit from the subsets with one element
\* less is a property of them all.
LEMMA SubsetInduction ==
    ASSUME NEW S, IsFiniteSet(S), NEW G, {} \in G,
           \A s \in SUBSET S : s # {} /\ (\A x \in s : s \ {x} \in G) => s \in G
    PROVE  SUBSET S \subseteq G
<1> DEFINE Good == {n \in Nat : \A s \in SUBSET S : Cardinality(s) <= n => s \in G}
<1>1. \A s \in SUBSET S : IsFiniteSet(s) /\ Cardinality(s) \in Nat
  BY FS_Subset, FS_CardinalityType
<1>2. \A s \in SUBSET S : Cardinality(s) = 0 => s = {}
  BY <1>1, FS_EmptySet
<1>3. 0 \in Good
  BY <1>1, <1>2
<1>4. ASSUME NEW n \in Nat, n \in Good PROVE n + 1 \in Good
  <2>1. SUFFICES ASSUME NEW s \in SUBSET S, Cardinality(s) <= n + 1 PROVE s \in G
    BY <1>4
  <2>2. ASSUME NEW x \in s PROVE s \ {x} \in G
    <3>1. s \ {x} \in SUBSET S
      OBVIOUS
    <3>2. Cardinality(s \ {x}) = Cardinality(s) - 1
      BY <1>1, FS_RemoveElement
    <3>3. Cardinality(s \ {x}) <= n
      BY <1>1, <2>1, <3>2
    <3> QED
      BY <1>4, <3>1, <3>3
  <2> QED
    BY <2>2
<1> HIDE DEF Good
<1>5. Nat \subseteq Good
  BY <1>3, <1>4, NatSetInduction
<1>6. ASSUME NEW s \in SUBSET S PROVE s \in G
  BY <1>1, <1>5 DEF Good
<1> QED
  BY <1>6

\* A set that has the empty sequence, and whatever sequence it has with any element
\* appended, has them all.
LEMMA SeqInduction ==
    ASSUME NEW A, NEW G, <<>> \in G,
           \A s \in Seq(A), a \in A : s \in G => Append(s, a) \in G
    PROVE  Seq(A) \subseteq G
<1> DEFINE Good == {n \in Nat : \A s \in Seq(A) : Len(s) = n => s \in G}
<1>1. 0 \in Good
  BY EmptySeq
<1>2. ASSUME NEW n \in Nat, n \in Good PROVE n + 1 \in Good
  <2>1. SUFFICES ASSUME NEW s \in Seq(A), Len(s) = n + 1 PROVE s \in G
    OBVIOUS
  <2>2. s # <<>>
    BY <2>1
  <2>3. PICK r \in Seq(A), a \in A : s = Append(r, a)
    BY <2>2, SequenceEmptyOrAppend
  <2>4. Len(r) = n
    BY <2>1, <2>3, AppendProperties, LenProperties
  <2> QED
    BY <1>2, <2>3, <2>4
<1> HIDE DEF Good
<1>3. Nat \subseteq Good
  BY <1>1, <1>2, NatSetInduction
<1> QED
  BY <1>3, LenProperties DEF Good

-----------------------------------------------------------------------------
(* The function that a fold from the left goes by, when each step is a      *)
(* function: what is chosen in the definition of the fold exists.           *)

Folds(f, k, step, base, values) ==
    \A s \in SUBSET (1..k) :
        f[s] = IF s = {} THEN base ELSE step[f[s \ {Max(s)}], values[Max(s)]]

LEMMA MaxOfInterval ==
    ASSUME NEW k \in Nat, NEW s \in SUBSET (1..(k + 1)), k + 1 \in s
    PROVE  Max(s) = k + 1 /\ s \ {Max(s)} \in SUBSET (1..k)
<1>1. k + 1 \in Nat /\ s # {} /\ s \in SUBSET (0..(k + 1))
  OBVIOUS
<1>2. Max(s) \in s /\ \A y \in s : Max(s) >= y
  BY <1>1, MaxOfBounded
<1>3. Max(s) \in 1..(k + 1) /\ Max(s) >= k + 1
  BY <1>2
<1>4. Max(s) = k + 1
  BY <1>3
<1>5. s \ {k + 1} \in SUBSET (1..k)
  OBVIOUS
<1> QED
  BY <1>4, <1>5

HasFold(A, k, step, base, values) ==
    \E f \in [SUBSET (1..k) -> A] : Folds(f, k, step, base, values)

LEMMA FoldExists ==
    ASSUME NEW A, NEW B, NEW step \in [A \X B -> A], NEW base \in A,
           NEW n \in Nat, NEW values \in [1..n -> B]
    PROVE  HasFold(A, n, step, base, values)
<1> DEFINE Has(k) == \E f \in [SUBSET (1..k) -> A] : Folds(f, k, step, base, values)
           Good == {k \in Nat : k <= n => Has(k)}
<1>1. Has(0)
  <2> DEFINE f == [s \in SUBSET (1..0) |-> base]
  <2>1. 1..0 = {}
    OBVIOUS
  <2>2. Folds(f, 0, step, base, values)
    BY <2>1 DEF Folds
  <2>3. f \in [SUBSET (1..0) -> A]
    OBVIOUS
  <2> QED
    BY <2>2, <2>3
<1>2. ASSUME NEW k \in Nat, Has(k), k + 1 <= n PROVE Has(k + 1)
  <2>2. PICK f \in [SUBSET (1..k) -> A] : Folds(f, k, step, base, values)
    BY <1>2, Zenon
  <2> DEFINE g == [s \in SUBSET (1..(k + 1)) |->
                      IF k + 1 \in s THEN step[f[s \ {k + 1}], values[k + 1]] ELSE f[s]]
  <2>3. ASSUME NEW s \in SUBSET (1..(k + 1)) PROVE g[s] \in A
    <3>1. CASE k + 1 \in s
      <4>1. s \ {k + 1} \in SUBSET (1..k)
        BY <3>1, MaxOfInterval
      <4>2. values[k + 1] \in B
        BY <1>2
      <4>3. <<f[s \ {k + 1}], values[k + 1]>> \in A \X B
        BY <4>1, <4>2
      <4>4. step[f[s \ {k + 1}], values[k + 1]] \in A
        BY <4>3
      <4> QED
        BY <3>1, <4>4
    <3>2. CASE k + 1 \notin s
      <4>1. s \in SUBSET (1..k)
        BY <3>2
      <4> QED
        BY <3>2, <4>1
    <3> QED
      BY <3>1, <3>2
  <2>4. ASSUME NEW s \in SUBSET (1..(k + 1))
        PROVE  g[s] = IF s = {} THEN base ELSE step[g[s \ {Max(s)}], values[Max(s)]]
    <3>1. CASE k + 1 \in s
      <4>1. Max(s) = k + 1 /\ s \ {Max(s)} \in SUBSET (1..k)
        BY <3>1, MaxOfInterval
      <4>2. g[s \ {Max(s)}] = f[s \ {Max(s)}]
        BY <4>1
      <4>3. g[s] = step[f[s \ {k + 1}], values[k + 1]]
        BY <3>1
      <4> QED
        BY <3>1, <4>1, <4>2, <4>3
    <3>2. CASE k + 1 \notin s
      <4>1. s \in SUBSET (1..k)
        BY <3>2
      <4>2. g[s] = f[s]
        BY <3>2
      <4>3. f[s] = IF s = {} THEN base ELSE step[f[s \ {Max(s)}], values[Max(s)]]
        BY <2>2, <4>1 DEF Folds
      <4>4. CASE s # {}
        <5>1. g[s \ {Max(s)}] = f[s \ {Max(s)}]
          BY <3>2
        <5> QED
          BY <4>2, <4>3, <4>4, <5>1
      <4> QED
        BY <4>2, <4>3, <4>4
    <3> QED
      BY <3>1, <3>2
  <2>5. g \in [SUBSET (1..(k + 1)) -> A]
    BY <2>3
  <2> HIDE DEF g
  <2>6. Folds(g, k + 1, step, base, values)
    BY <2>4 DEF Folds
  <2> QED
    BY <2>5, <2>6
<1> HIDE DEF Has
<1>3. 0 \in Good /\ \A k \in Nat : k \in Good => k + 1 \in Good
  BY <1>1, <1>2
<1> HIDE DEF Good
<1>4. Nat \subseteq Good
  BY <1>3, NatSetInduction
<1>5. Has(n)
  BY <1>4 DEF Good
<1> QED
  BY <1>5, Zenon DEF Has, HasFold

-----------------------------------------------------------------------------
(* Orders of a finite set                                                  *)

\* Some of the numbers up to n can be counted.
LEMMA CountType ==
    ASSUME NEW n \in Nat, NEW T \in SUBSET (1..n)
    PROVE  Cardinality(T) \in Nat
<1>1. IsFiniteSet(1..n)
  BY FS_Interval
<1> QED
  BY <1>1, FS_Subset, FS_CardinalityType

\* A one-to-one function from 1..Cardinality(S) into S meets all of S.
LEMMA OrderIsOnto ==
    ASSUME NEW S, IsFiniteSet(S), NEW f \in [1..Cardinality(S) -> S],
           \A i, j \in 1..Cardinality(S) : f[i] = f[j] => i = j
    PROVE  \A x \in S : \E i \in 1..Cardinality(S) : f[i] = x
<1> DEFINE D == 1..Cardinality(S)
<1>1. Cardinality(S) \in Nat
  BY FS_CardinalityType
<1>2. IsFiniteSet(D) /\ Cardinality(D) = Cardinality(S)
  BY <1>1, FS_Interval
<1>3. f \in Injection(D, S)
  BY DEF Injection, IsInjective
<1>4. f \in Surjection(D, S)
  BY <1>2, <1>3, FS_Injection
<1> QED
  BY <1>4 DEF Surjection

\* An order of S that goes down in weight.
Descends(f, S, weight) ==
    /\ f \in [1..Cardinality(S) -> S]
    /\ \A i, j \in 1..Cardinality(S) : f[i] = f[j] => i = j
    /\ \A i, j \in 1..Cardinality(S) : i < j => weight[f[i]] >= weight[f[j]]

LEMMA LightestExists ==
    ASSUME NEW S, S # {}, NEW weight, \A x \in S : weight[x] \in Nat
    PROVE  \E x \in S : \A y \in S : weight[y] >= weight[x]
<1>1. PICK z \in S : TRUE
  OBVIOUS
<1> DEFINE T == {weight[y] : y \in {x \in S : weight[x] <= weight[z]}}
<1>2. T \in SUBSET (0..weight[z]) /\ T # {}
  BY <1>1
<1>3. Min(T) \in T /\ \A n \in T : Min(T) <= n
  <2>1. weight[z] \in Nat
    BY <1>1
  <2> HIDE DEF T
  <2> QED
    BY <1>2, <2>1, MinOfBounded
<1>4. PICK x \in S : weight[x] <= weight[z] /\ weight[x] = Min(T)
  BY <1>3
<1>5. ASSUME NEW y \in S PROVE weight[y] >= weight[x]
  <2>1. CASE weight[y] <= weight[z]
    <3>1. weight[y] \in T
      BY <2>1
    <3> HIDE DEF T
    <3> QED
      BY <1>3, <1>4, <3>1
  <2>2. CASE ~ (weight[y] <= weight[z])
    BY <1>1, <1>4, <2>2
  <2> QED
    BY <2>1, <2>2
<1> QED
  BY <1>5

LEMMA DescendingExists ==
    ASSUME NEW S, IsFiniteSet(S), NEW weight, \A x \in S : weight[x] \in Nat
    PROVE  \E f : Descends(f, S, weight)
<1> DEFINE Has(T) == \E f : Descends(f, T, weight)
           Good == {T \in SUBSET S : Has(T)}
<1>1. Has({})
  <2>1. Cardinality({}) = 0 /\ 1..0 = {}
    BY FS_EmptySet
  <2> DEFINE f == [i \in {} |-> i]
  <2>2. Descends(f, {}, weight)
    BY <2>1 DEF Descends
  <2> QED
    BY <2>2
<1>2. ASSUME NEW T \in SUBSET S, T # {}, \A x \in T : Has(T \ {x}) PROVE Has(T)
  <2>1. PICK x \in T : \A y \in T : weight[y] >= weight[x]
    BY <1>2, LightestExists
  <2>2. PICK f : Descends(f, T \ {x}, weight)
    BY <1>2, Zenon
  <2> DEFINE n == Cardinality(T \ {x})
             g == [i \in 1..n + 1 |-> IF i = n + 1 THEN x ELSE f[i]]
  <2>3. n \in Nat /\ Cardinality(T) = n + 1
    <3>1. IsFiniteSet(T) /\ IsFiniteSet(T \ {x})
      BY FS_Subset
    <3>2. Cardinality(T \ {x}) = Cardinality(T) - 1
      BY <3>1, FS_RemoveElement
    <3> QED
      BY <3>1, <3>2, FS_CardinalityType
  <2>4. \A i \in 1..n + 1 : i = n + 1 \/ i \in 1..n
    BY <2>3
  <2>5. /\ \A i \in 1..n : f[i] \in T /\ f[i] # x
        /\ \A i, j \in 1..n : f[i] = f[j] => i = j
        /\ \A i, j \in 1..n : i < j => weight[f[i]] >= weight[f[j]]
    BY <2>2 DEF Descends
  <2>6. n + 1 \in 1..n + 1 /\ \A i \in 1..n : i \in 1..n + 1 /\ i # n + 1 /\ i < n + 1
    BY <2>3
  <2> HIDE DEF n
  <2>7. g[n + 1] = x /\ \A i \in 1..n : g[i] = f[i]
    BY <2>6
  <2>8. g \in [1..n + 1 -> T]
    BY <2>4, <2>5
  <2> HIDE DEF g
  <2>9. \A i, j \in 1..n + 1 : g[i] = g[j] => i = j
    BY <2>4, <2>5, <2>7
  <2>10. ASSUME NEW i \in 1..n + 1, NEW j \in 1..n + 1, i < j
         PROVE  weight[g[i]] >= weight[g[j]]
    <3>1. i \in 1..n
      BY <2>3, <2>10
    <3>2. g[i] = f[i] /\ g[i] \in T
      BY <2>7, <2>8, <3>1
    <3>3. CASE j = n + 1
      BY <2>1, <2>7, <3>2, <3>3
    <3>4. CASE j \in 1..n
      BY <2>5, <2>7, <2>10, <3>1, <3>4
    <3> QED
      BY <2>4, <3>3, <3>4
  <2>11. Descends(g, T, weight)
    BY <2>3, <2>8, <2>9, <2>10 DEF Descends
  <2> QED
    BY <2>11
<1> HIDE DEF Has
<1>3. {} \in Good /\ \A T \in SUBSET S : T # {} /\ (\A x \in T : T \ {x} \in Good) => T \in Good
  BY <1>1, <1>2
<1> HIDE DEF Good
<1>4. SUBSET S \subseteq Good
  BY <1>3, SubsetInduction
<1>5. Has(S)
  BY <1>4 DEF Good
<1> QED
  BY <1>5 DEF Has

-----------------------------------------------------------------------------
(* FlattenSeq                                                              *)

\* The function FlattenSeq goes by, over the first n sequences.
Flats(f, n, seqs) ==
    f = [i \in 1..n |-> IF i = 1 THEN seqs[i] ELSE f[i - 1] \o seqs[i]]

LEMMA FlatsAt ==
    ASSUME NEW f, NEW n, NEW seqs, Flats(f, n, seqs), NEW i \in 1..n
    PROVE  f[i] = IF i = 1 THEN seqs[i] ELSE f[i - 1] \o seqs[i]
<1> DEFINE body(j) == IF j = 1 THEN seqs[j] ELSE f[j - 1] \o seqs[j]
<1>1. f = [j \in 1..n |-> body(j)]
  BY Zenon DEF Flats
<1> HIDE DEF body
<1>2. f[i] = body(i)
  BY <1>1
<1> QED
  BY <1>2 DEF body

LEMMA FlatsNext ==
    ASSUME NEW f, NEW n \in Nat \ {0}, NEW seqs, Flats(f, n + 1, seqs)
    PROVE  f[n + 1] = f[n] \o seqs[n + 1]
<1>1. n + 1 \in 1..n + 1 /\ (n + 1) - 1 = n /\ n + 1 # 1
  OBVIOUS
<1>2. \A i \in 1..n + 1 : f[i] = IF i = 1 THEN seqs[i] ELSE f[i - 1] \o seqs[i]
  BY FlatsAt
<1>3. f[n + 1] = IF n + 1 = 1 THEN seqs[n + 1] ELSE f[(n + 1) - 1] \o seqs[n + 1]
  BY <1>1, <1>2
<1> QED
  BY <1>1, <1>3

LEMMA FlatsExists ==
    ASSUME NEW seqs, NEW n \in Nat
    PROVE  \E f : Flats(f, n, seqs)
<1> DEFINE Has(k) == \E f : Flats(f, k, seqs)
           Good == {k \in Nat : Has(k)}
<1>1. Has(0)
  <2>1. Flats([i \in 1..0 |-> 0], 0, seqs)
    BY DEF Flats
  <2> QED
    BY <2>1
<1>2. ASSUME NEW k \in Nat, Has(k) PROVE Has(k + 1)
  <2>1. PICK f : Flats(f, k, seqs)
    BY <1>2, Zenon
  <2> DEFINE g == [i \in 1..k + 1 |-> IF i = 1 THEN seqs[i] ELSE f[i - 1] \o seqs[i]]
  <2>2. ASSUME NEW i \in 1..k PROVE g[i] = f[i]
    <3>1. f[i] = IF i = 1 THEN seqs[i] ELSE f[i - 1] \o seqs[i]
      BY <2>1, FlatsAt
    <3> QED
      BY <3>1
  <2>3. ASSUME NEW i \in 1..k + 1
        PROVE  g[i] = IF i = 1 THEN seqs[i] ELSE g[i - 1] \o seqs[i]
    <3>1. CASE i = 1
      BY <3>1
    <3>2. CASE i # 1
      <4>1. i - 1 \in 1..k
        BY <3>2
      <4> QED
        BY <2>2, <3>2, <4>1
    <3> QED
      BY <3>1, <3>2
  <2>4. g = [i \in 1..k + 1 |-> g[i]]
    OBVIOUS
  <2> HIDE DEF g
  <2>5. Flats(g, k + 1, seqs)
    BY <2>3, <2>4 DEF Flats
  <2> QED
    BY <2>5
<1> HIDE DEF Has
<1>3. 0 \in Good /\ \A k \in Nat : k \in Good => k + 1 \in Good
  BY <1>1, <1>2
<1> HIDE DEF Good
<1>4. Nat \subseteq Good
  BY <1>3, NatSetInduction
<1>5. Has(n)
  BY <1>4 DEF Good
<1> QED
  BY <1>5, Zenon DEF Has

LEMMA FlattenIsFlats ==
    ASSUME NEW seqs, NEW n \in Nat \ {0}, Len(seqs) = n
    PROVE  \E f : Flats(f, n, seqs) /\ FlattenSeq(seqs) = f[n]
<1> DEFINE Chosen == CHOOSE f : Flats(f, n, seqs)
<1>1. Flats(Chosen, n, seqs)
  BY FlatsExists
<1>2. FlattenSeq(seqs) = Chosen[n]
  BY DEF FlattenSeq, Flats
<1> QED
  BY <1>1, <1>2

LEMMA FlattenEmpty == FlattenSeq(<<>>) = <<>>
BY EmptySeq DEF FlattenSeq

LEMMA FlattenAppend ==
    ASSUME NEW A, NEW seqs \in Seq(Seq(A)), NEW s \in Seq(A)
    PROVE  FlattenSeq(Append(seqs, s)) = FlattenSeq(seqs) \o s
<1> DEFINE n == Len(seqs)
           more == Append(seqs, s)
<1>1. n \in Nat /\ Len(more) = n + 1 /\ more[n + 1] = s /\ \A i \in 1..n : more[i] = seqs[i]
  BY AppendProperties, LenProperties
<1> HIDE DEF more
<1>2. PICK f : Flats(f, n + 1, more) /\ FlattenSeq(more) = f[n + 1]
  BY <1>1, FlattenIsFlats
<1>3. CASE n = 0
  <2>1. seqs = <<>>
    BY <1>3, EmptySeq
  <2>2. f[1] = s
    BY <1>1, <1>2, <1>3 DEF Flats
  <2> QED
    BY <1>2, <1>3, <2>1, <2>2, FlattenEmpty, ConcatEmptySeq DEF more
<1>4. CASE n # 0
  <2>1. PICK g : Flats(g, n, seqs) /\ FlattenSeq(seqs) = g[n]
    BY <1>1, <1>4, FlattenIsFlats
  <2> DEFINE Good == {i \in Nat : i \in 1..n => f[i] = g[i]}
  <2>2. 0 \in Good
    OBVIOUS
  <2>3. ASSUME NEW i \in Nat, i \in Good PROVE i + 1 \in Good
    <3>1. SUFFICES ASSUME i + 1 \in 1..n PROVE f[i + 1] = g[i + 1]
      OBVIOUS
    <3>2. /\ f[i + 1] = IF i + 1 = 1 THEN more[i + 1] ELSE f[i] \o more[i + 1]
          /\ g[i + 1] = IF i + 1 = 1 THEN seqs[i + 1] ELSE g[i] \o seqs[i + 1]
      <4>1. i + 1 \in 1..n + 1 /\ (i + 1) - 1 = i
        BY <1>1, <3>1
      <4> HIDE DEF n
      <4> QED
        BY <1>2, <2>1, <3>1, <4>1, FlatsAt
    <3>3. i + 1 # 1 => i \in 1..n
      BY <3>1
    <3> QED
      BY <1>1, <2>3, <3>1, <3>2, <3>3
  <2> HIDE DEF Good
  <2>4. Nat \subseteq Good
    BY <2>2, <2>3, NatSetInduction
  <2>5. f[n] = g[n]
    BY <1>1, <1>4, <2>4 DEF Good
  <2>6. f[n + 1] = f[n] \o s
    <3> HIDE DEF n
    <3>1. f[n + 1] = f[n] \o more[n + 1]
      BY <1>1, <1>2, <1>4, FlatsNext
    <3> QED
      BY <1>1, <3>1
  <2> QED
    BY <1>2, <2>1, <2>5, <2>6 DEF more
<1> QED
  BY <1>3, <1>4

LEMMA FlattenType ==
    ASSUME NEW A, NEW seqs \in Seq(Seq(A))
    PROVE  FlattenSeq(seqs) \in Seq(A)
<1> DEFINE Good == {ss \in Seq(Seq(A)) : FlattenSeq(ss) \in Seq(A)}
<1>1. <<>> \in Good
  BY FlattenEmpty, EmptySeq
<1>2. ASSUME NEW ss \in Seq(Seq(A)), NEW s \in Seq(A), ss \in Good
      PROVE  Append(ss, s) \in Good
  BY <1>2, FlattenAppend, ConcatProperties, AppendProperties
<1> HIDE DEF Good
<1>3. Seq(Seq(A)) \subseteq Good
  BY <1>1, <1>2, SeqInduction
<1> QED
  BY <1>3 DEF Good

LEMMA ConcatAppend ==
    ASSUME NEW A, NEW r \in Seq(A), NEW s \in Seq(A), NEW a \in A
    PROVE  r \o Append(s, a) = Append(r \o s, a)
<1>1. <<a>> \in Seq(A)
  OBVIOUS
<1>2. Append(s, a) = s \o <<a>>
  BY AppendIsConcat
<1>3. Append(r \o s, a) = (r \o s) \o <<a>>
  BY ConcatProperties, AppendIsConcat
<1>4. \A x, y, z \in Seq(A) : (x \o y) \o z = x \o (y \o z)
  BY ConcatAssociative
<1> QED
  BY <1>1, <1>2, <1>3, <1>4

LEMMA FlattenConcat ==
    ASSUME NEW A, NEW rs \in Seq(Seq(A)), NEW ss \in Seq(Seq(A))
    PROVE  FlattenSeq(rs \o ss) = FlattenSeq(rs) \o FlattenSeq(ss)
<1> DEFINE Good == {ts \in Seq(Seq(A)) :
                        FlattenSeq(rs \o ts) = FlattenSeq(rs) \o FlattenSeq(ts)}
<1>1. <<>> \in Good
  BY FlattenEmpty, FlattenType, EmptySeq, ConcatEmptySeq
<1>2. ASSUME NEW ts \in Seq(Seq(A)), NEW t \in Seq(A), ts \in Good
      PROVE  Append(ts, t) \in Good
  <2>1. rs \o Append(ts, t) = Append(rs \o ts, t) /\ rs \o ts \in Seq(Seq(A))
    BY ConcatAppend, ConcatProperties
  <2>2. FlattenSeq(rs \o Append(ts, t)) = (FlattenSeq(rs) \o FlattenSeq(ts)) \o t
    BY <1>2, <2>1, FlattenAppend
  <2>3. FlattenSeq(rs \o Append(ts, t)) = FlattenSeq(rs) \o (FlattenSeq(ts) \o t)
    BY <2>2, FlattenType, ConcatAssociative
  <2> QED
    BY <2>3, FlattenAppend, AppendProperties
<1> HIDE DEF Good
<1>3. Seq(Seq(A)) \subseteq Good
  BY <1>1, <1>2, SeqInduction
<1> QED
  BY <1>3 DEF Good

\* Which part an element of a flattened sequence is from, and where in it it was.
Origins(parts, flat, part, place) ==
    /\ \A k \in DOMAIN flat :
        /\ part[k] \in DOMAIN parts /\ place[k] \in DOMAIN parts[part[k]]
        /\ flat[k] = parts[part[k]][place[k]]
    /\ \A k, l \in DOMAIN flat :
        k < l => part[k] < part[l] \/ (part[k] = part[l] /\ place[k] < place[l])
    /\ \A i \in DOMAIN parts : \A j \in DOMAIN parts[i] :
        \E k \in DOMAIN flat : part[k] = i /\ place[k] = j

LEMMA OriginsExist ==
    ASSUME NEW A, NEW parts \in Seq(Seq(A))
    PROVE  \E part, place : Origins(parts, FlattenSeq(parts), part, place)
<1> DEFINE Traced(ps) == \E part, place : Origins(ps, FlattenSeq(ps), part, place)
           Good == {ps \in Seq(Seq(A)) : Traced(ps)}
<1>1. <<>> \in Good
  <2>1. <<>> \in Seq(Seq(A)) /\ DOMAIN <<>> = {}
    BY EmptySeq
  <2>2. Origins(<<>>, <<>>, <<>>, <<>>)
    BY <2>1 DEF Origins
  <2> QED
    BY <2>1, <2>2, FlattenEmpty
<1>2. ASSUME NEW ps \in Seq(Seq(A)), NEW s \in Seq(A), ps \in Good PROVE Append(ps, s) \in Good
  <2> DEFINE old == FlattenSeq(ps)
             more == Append(ps, s)
             new == FlattenSeq(more)
             n == Len(ps)
             m == Len(old)
  <2>1. PICK part, place : Origins(ps, old, part, place)
    BY <1>2
  <2>2. old \in Seq(A) /\ new = old \o s
    BY FlattenType, FlattenAppend
  <2>3. /\ n \in Nat /\ more \in Seq(Seq(A)) /\ DOMAIN ps = 1..n /\ DOMAIN more = 1..n + 1
        /\ more[n + 1] = s /\ \A i \in 1..n : more[i] = ps[i]
    BY AppendProperties, LenProperties
  <2>4. /\ m \in Nat /\ DOMAIN old = 1..m /\ Len(s) \in Nat /\ DOMAIN s = 1..Len(s)
    BY <2>2, LenProperties
  <2>5. /\ DOMAIN new = 1..m + Len(s)
        /\ \A k \in 1..m + Len(s) : new[k] = IF k <= m THEN old[k] ELSE s[k - m]
    <3> HIDE DEF old, new
    <3>1. old \o s \in Seq(A) /\ Len(old \o s) = m + Len(s)
      BY <2>2, ConcatProperties
    <3> QED
      BY <2>2, <3>1, ConcatProperties, LenProperties
  <2> DEFINE part1 == [k \in 1..m + Len(s) |-> IF k <= m THEN part[k] ELSE n + 1]
             place1 == [k \in 1..m + Len(s) |-> IF k <= m THEN place[k] ELSE k - m]
  <2> HIDE DEF old, more, new, n, m
  <2>6. \A k \in 1..m + Len(s) :
          \/ k \in 1..m /\ k <= m /\ part1[k] = part[k] /\ place1[k] = place[k] /\ new[k] = old[k]
          \/ /\ ~ k <= m /\ k - m \in 1..Len(s) /\ part1[k] = n + 1 /\ place1[k] = k - m
             /\ new[k] = s[k - m]
    BY <2>4, <2>5
  <2>7. \A k \in 1..m : part[k] \in 1..n
    BY <2>1, <2>3, <2>4 DEF Origins
  <2>8. \A k \in 1..m : k \in 1..m + Len(s) /\ k <= m
    BY <2>4
  <2>9. \A i \in 1..n : i \in 1..n + 1 /\ i < n + 1
    BY <2>3
  <2> HIDE DEF part1, place1
  <2>10. Origins(more, new, part1, place1)
    <3>1. ASSUME NEW k \in DOMAIN new
          PROVE  /\ part1[k] \in DOMAIN more /\ place1[k] \in DOMAIN more[part1[k]]
                 /\ new[k] = more[part1[k]][place1[k]]
      <4>1. CASE k \in 1..m /\ part1[k] = part[k] /\ place1[k] = place[k] /\ new[k] = old[k]
        <5>1. /\ part[k] \in 1..n /\ place[k] \in DOMAIN ps[part[k]]
              /\ old[k] = ps[part[k]][place[k]]
          BY <2>1, <2>3, <2>4, <4>1 DEF Origins
        <5> QED
          BY <2>3, <2>9, <4>1, <5>1
      <4>2. CASE /\ k - m \in 1..Len(s) /\ part1[k] = n + 1 /\ place1[k] = k - m
                 /\ new[k] = s[k - m]
        <5>1. n + 1 \in 1..n + 1
          BY <2>3
        <5> QED
          BY <2>3, <2>4, <4>2, <5>1
      <4> QED
        BY <2>5, <2>6, <4>1, <4>2
    <3>2. ASSUME NEW k \in DOMAIN new, NEW l \in DOMAIN new, k < l
          PROVE  part1[k] < part1[l] \/ (part1[k] = part1[l] /\ place1[k] < place1[l])
      <4>1. CASE l <= m
        <5>1. k \in 1..m /\ l \in 1..m
          BY <2>4, <2>5, <3>2, <4>1
        <5>2. part[k] < part[l] \/ (part[k] = part[l] /\ place[k] < place[l])
          BY <2>1, <2>4, <3>2, <5>1 DEF Origins
        <5> QED
          BY <2>5, <2>6, <5>1, <5>2
      <4>2. CASE k <= m /\ ~ l <= m
        <5>1. k \in 1..m /\ part1[k] = part[k] /\ part1[l] = n + 1
          BY <2>4, <2>5, <2>6, <4>2
        <5>2. part[k] \in 1..n
          BY <2>7, <5>1
        <5>3. part[k] < n + 1
          BY <2>9, <5>2
        <5>4. part1[k] < part1[l]
          BY <5>1, <5>3
        <5> QED
          BY <5>4
      <4>3. CASE ~ k <= m /\ ~ l <= m
        <5>1. part1[k] = n + 1 /\ part1[l] = n + 1 /\ place1[k] = k - m /\ place1[l] = l - m
          BY <2>5, <2>6, <4>3
        <5>2. k - m < l - m
          BY <2>4, <2>5, <3>2
        <5> QED
          BY <5>1, <5>2
      <4> QED
        BY <2>4, <2>5, <3>2, <4>1, <4>2, <4>3
    <3>3. ASSUME NEW i \in DOMAIN more, NEW j \in DOMAIN more[i]
          PROVE  \E k \in DOMAIN new : part1[k] = i /\ place1[k] = j
      <4>1. CASE i \in 1..n
        <5>1. j \in DOMAIN ps[i]
          BY <2>3, <4>1
        <5>2. PICK k \in DOMAIN old : part[k] = i /\ place[k] = j
          <6>1. i \in DOMAIN ps
            BY <2>3, <4>1
          <6> QED
            BY <2>1, <5>1, <6>1, Zenon DEF Origins
        <5>3. k \in 1..m
          BY <2>4, <5>2
        <5> QED
          BY <2>5, <2>6, <2>8, <5>2, <5>3
      <4>2. CASE i = n + 1
        <5>1. j \in 1..Len(s)
          BY <2>3, <2>4, <4>2
        <5>2. m + j \in 1..m + Len(s) /\ ~ m + j <= m /\ (m + j) - m = j
          BY <2>4, <5>1
        <5> QED
          BY <2>5, <2>6, <4>2, <5>2
      <4> QED
        BY <2>3, <4>1, <4>2
    <3> QED
      BY <3>1, <3>2, <3>3 DEF Origins
  <2> QED
    BY <2>3, <2>10 DEF more, new
<1> HIDE DEF Good
<1>3. Seq(Seq(A)) \subseteq Good
  BY <1>1, <1>2, SeqInduction
<1>4. parts \in Good
  BY <1>3
<1> QED
  BY <1>4 DEF Good

\* Every element of every part is there.
LEMMA FromPart ==
    ASSUME NEW parts, NEW flat, NEW part, NEW place, Origins(parts, flat, part, place),
           NEW i \in DOMAIN parts, NEW j \in DOMAIN parts[i]
    PROVE  \E k \in DOMAIN flat : part[k] = i /\ place[k] = j /\ flat[k] = parts[i][j]
<1>1. PICK k \in DOMAIN flat : part[k] = i /\ place[k] = j
  BY Zenon DEF Origins
<1>2. flat[k] = parts[part[k]][place[k]]
  BY Zenon DEF Origins
<1> QED
  BY <1>1, <1>2

LEMMA MapType ==
    ASSUME NEW A, NEW B, NEW h, NEW s \in Seq(A), \A x \in A : h[x] \in B
    PROVE  [i \in DOMAIN s |-> h[s[i]]] \in Seq(B)
BY LenProperties, ElementOfSeq

\* Append to a sequence that is made element by element.
LEMMA MapAppend ==
    ASSUME NEW A, NEW B, NEW h, NEW s \in Seq(A), NEW a \in A, \A x \in A : h[x] \in B
    PROVE  [i \in DOMAIN Append(s, a) |-> h[Append(s, a)[i]]]
             = Append([i \in DOMAIN s |-> h[s[i]]], h[a])
<1> DEFINE n == Len(s)
           more == Append(s, a)
           map == [i \in DOMAIN s |-> h[s[i]]]
           mapMore == [i \in DOMAIN more |-> h[more[i]]]
<1>1. /\ n \in Nat /\ DOMAIN s = 1..n /\ DOMAIN more = 1..n + 1
      /\ more[n + 1] = a /\ \A i \in 1..n : more[i] = s[i] /\ s[i] \in A
  <2>1. more \in Seq(A) /\ Len(more) = n + 1 /\ more[n + 1] = a /\ \A i \in 1..n : more[i] = s[i]
    BY AppendProperties
  <2> HIDE DEF more
  <2> QED
    BY <2>1, LenProperties, ElementOfSeq
<1> HIDE DEF n, more
<1>2. map \in Seq(B) /\ Len(map) = n /\ \A i \in 1..n : map[i] = h[s[i]]
  BY <1>1
<1>3. mapMore \in Seq(B) /\ Len(mapMore) = n + 1 /\ \A i \in 1..n + 1 : mapMore[i] = h[more[i]]
  BY <1>1
<1> HIDE DEF map, mapMore
<1>4. h[a] \in B
  OBVIOUS
<1>5. /\ Append(map, h[a]) \in Seq(B) /\ Len(Append(map, h[a])) = n + 1
      /\ \A i \in 1..n : Append(map, h[a])[i] = map[i]
      /\ Append(map, h[a])[n + 1] = h[a]
  BY <1>2, <1>4, AppendProperties
<1>6. \A i \in 1..n + 1 : i \in 1..n \/ i = n + 1
  BY <1>1
<1>7. \A i \in 1..n + 1 : mapMore[i] = Append(map, h[a])[i]
  BY <1>1, <1>2, <1>3, <1>5, <1>6
<1>8. mapMore = Append(map, h[a])
  BY <1>3, <1>5, <1>7, SeqEqual
<1> QED
  BY <1>8 DEF map, mapMore, more

-----------------------------------------------------------------------------
(* Putting a text in the place of each atom                                *)

Spread(h, t) == FlattenSeq([i \in DOMAIN t |-> h[t[i]]])

\* h has a text for each atom.
Puts(h, A, B) == \A x \in A : h[x] \in Seq(B)

LEMMA SpreadEmpty == \A h : Spread(h, <<>>) = <<>>
<1>1. TAKE h
<1>2. [i \in DOMAIN <<>> |-> h[<<>>[i]]] = <<>>
  OBVIOUS
<1> QED
  BY <1>2, FlattenEmpty DEF Spread

LEMMA SpreadType ==
    ASSUME NEW A, NEW B, NEW h, Puts(h, A, B), NEW t \in Seq(A)
    PROVE  Spread(h, t) \in Seq(B)
<1>1. [i \in DOMAIN t |-> h[t[i]]] \in Seq(Seq(B))
  BY MapType DEF Puts
<1> QED
  BY <1>1, FlattenType DEF Spread

LEMMA SpreadAppend ==
    ASSUME NEW A, NEW B, NEW h, Puts(h, A, B), NEW t \in Seq(A), NEW a \in A
    PROVE  Spread(h, Append(t, a)) = Spread(h, t) \o h[a]
<1> DEFINE map == [i \in DOMAIN t |-> h[t[i]]]
<1>1. \A x \in A : h[x] \in Seq(B)
  BY DEF Puts
<1>2. map \in Seq(Seq(B))
  BY <1>1, MapType
<1>3. [i \in DOMAIN Append(t, a) |-> h[Append(t, a)[i]]] = Append(map, h[a])
  BY <1>1, MapAppend
<1> HIDE DEF map
<1>4. FlattenSeq(Append(map, h[a])) = FlattenSeq(map) \o h[a]
  BY <1>1, <1>2, FlattenAppend
<1> QED
  BY <1>3, <1>4 DEF Spread, map

LEMMA SpreadOne ==
    ASSUME NEW A, NEW B, NEW h, Puts(h, A, B), NEW a \in A
    PROVE  Spread(h, <<a>>) = h[a]
<1>1. <<a>> = Append(<<>>, a) /\ <<>> \in Seq(A) /\ h[a] \in Seq(B)
  BY DEF Puts
<1> QED
  <2>1. Spread(h, Append(<<>>, a)) = Spread(h, <<>>) \o h[a]
    BY <1>1, SpreadAppend
  <2>2. Spread(h, <<>>) = <<>>
    BY SpreadEmpty
  <2>3. <<>> \o h[a] = h[a]
    BY <1>1, ConcatEmptySeq
  <2> QED
    BY <1>1, <2>1, <2>2, <2>3

LEMMA SpreadConcat ==
    ASSUME NEW A, NEW B, NEW h, Puts(h, A, B), NEW s \in Seq(A), NEW t \in Seq(A)
    PROVE  Spread(h, s \o t) = Spread(h, s) \o Spread(h, t)
<1> DEFINE Good == {u \in Seq(A) : Spread(h, s \o u) = Spread(h, s) \o Spread(h, u)}
<1>1. <<>> \in Good
  BY SpreadEmpty, SpreadType, EmptySeq, ConcatEmptySeq
<1>2. ASSUME NEW u \in Seq(A), NEW a \in A, u \in Good PROVE Append(u, a) \in Good
  <2>1. s \o Append(u, a) = Append(s \o u, a) /\ s \o u \in Seq(A)
    BY ConcatAppend, ConcatProperties
  <2>2. Spread(h, s \o Append(u, a)) = (Spread(h, s) \o Spread(h, u)) \o h[a]
    <3>1. Spread(h, Append(s \o u, a)) = Spread(h, s \o u) \o h[a]
      BY <2>1, SpreadAppend, ZenonT(60)
    <3>2. Spread(h, s \o u) = Spread(h, s) \o Spread(h, u)
      BY <1>2
    <3> QED
      BY <2>1, <3>1, <3>2
  <2>3. Spread(h, s) \in Seq(B) /\ Spread(h, u) \in Seq(B) /\ h[a] \in Seq(B)
    BY SpreadType DEF Puts
  <2>4. Spread(h, s \o Append(u, a)) = Spread(h, s) \o (Spread(h, u) \o h[a])
    <3>1. (Spread(h, s) \o Spread(h, u)) \o h[a] = Spread(h, s) \o (Spread(h, u) \o h[a])
      <4>1. \A x, y, z \in Seq(B) : (x \o y) \o z = x \o (y \o z)
        BY ConcatAssociative
      <4> QED
        BY <2>3, <4>1
    <3> QED
      BY <2>2, <3>1
  <2> QED
    <3>1. Spread(h, Append(u, a)) = Spread(h, u) \o h[a]
      BY SpreadAppend
    <3> QED
      BY <2>4, <3>1, AppendProperties
<1> HIDE DEF Good
<1>3. Seq(A) \subseteq Good
  BY <1>1, <1>2, SeqInduction
<1> QED
  BY <1>3 DEF Good

\* Spreading what was spread is spreading once.
LEMMA SpreadSpread ==
    ASSUME NEW A, NEW B, NEW C, NEW g, NEW h, NEW k, Puts(g, A, B), Puts(h, B, C),
           \A a \in A : k[a] = Spread(h, g[a]),
           NEW t \in Seq(A)
    PROVE  Spread(h, Spread(g, t)) = Spread(k, t)
<1> DEFINE Good == {u \in Seq(A) : Spread(h, Spread(g, u)) = Spread(k, u)}
<1>1. <<>> \in Good
  BY SpreadEmpty, EmptySeq
<1>2. Puts(k, A, C)
  BY SpreadType DEF Puts
<1>3. ASSUME NEW u \in Seq(A), NEW a \in A, u \in Good PROVE Append(u, a) \in Good
  <2>1. Spread(g, u) \in Seq(B) /\ g[a] \in Seq(B)
    BY SpreadType DEF Puts
  <2>2. Spread(h, Spread(g, Append(u, a))) = Spread(h, Spread(g, u)) \o Spread(h, g[a])
    <3>1. Spread(g, Append(u, a)) = Spread(g, u) \o g[a]
      BY SpreadAppend
    <3>2. Spread(h, Spread(g, u) \o g[a]) = Spread(h, Spread(g, u)) \o Spread(h, g[a])
      BY <2>1, SpreadConcat
    <3> QED
      BY <3>1, <3>2
  <2>3. Spread(h, Spread(g, Append(u, a))) = Spread(k, u) \o k[a]
    BY <1>3, <2>2
  <2> QED
    <3>1. Spread(k, Append(u, a)) = Spread(k, u) \o k[a]
      BY <1>2, SpreadAppend
    <3> QED
      BY <2>3, <3>1, AppendProperties
<1> HIDE DEF Good
<1>4. Seq(A) \subseteq Good
  BY <1>1, <1>3, SeqInduction
<1> QED
  BY <1>4 DEF Good

\* What is put for an atom is all that matters of h.
LEMMA SpreadSame ==
    ASSUME NEW A, NEW g, NEW h, \A a \in A : g[a] = h[a], NEW t \in Seq(A)
    PROVE  Spread(g, t) = Spread(h, t)
<1>1. \A i \in DOMAIN t : t[i] \in A
  BY LenProperties, ElementOfSeq
<1>2. [i \in DOMAIN t |-> g[t[i]]] = [i \in DOMAIN t |-> h[t[i]]]
  BY <1>1
<1> QED
  BY <1>2 DEF Spread

LEMMA SpreadNothing ==
    ASSUME NEW A, NEW h, \A a \in A : h[a] = <<a>>, NEW t \in Seq(A)
    PROVE  Spread(h, t) = t
<1> DEFINE Good == {u \in Seq(A) : Spread(h, u) = u}
<1>1. Puts(h, A, A)
  <2>1. ASSUME NEW a \in A PROVE h[a] \in Seq(A)
    <3>1. h[a] = <<a>> /\ <<a>> \in Seq(A)
      OBVIOUS
    <3> QED
      BY <3>1
  <2> QED
    BY <2>1 DEF Puts
<1>2. <<>> \in Good
  BY SpreadEmpty, EmptySeq
<1>3. ASSUME NEW u \in Seq(A), NEW a \in A, u \in Good PROVE Append(u, a) \in Good
  <2>1. Spread(h, Append(u, a)) = Spread(h, u) \o h[a]
    BY <1>1, SpreadAppend
  <2>2. Append(u, a) = u \o <<a>>
    BY AppendIsConcat
  <2> QED
    BY <1>3, <2>1, <2>2, AppendProperties
<1> HIDE DEF Good
<1>4. Seq(A) \subseteq Good
  BY <1>2, <1>3, SeqInduction
<1> QED
  BY <1>4 DEF Good

\* Each of the texts spread.
EachSpread(h, parts) == [i \in DOMAIN parts |-> Spread(h, parts[i])]

\* Spreading a text that was joined from parts is joining the spread parts.
LEMMA SpreadFlatten ==
    ASSUME NEW A, NEW B, NEW h, Puts(h, A, B), NEW parts \in Seq(Seq(A))
    PROVE  Spread(h, FlattenSeq(parts)) = FlattenSeq(EachSpread(h, parts))
<1> DEFINE f == [p \in Seq(A) |-> Spread(h, p)]
           Good == {ps \in Seq(Seq(A)) : Spread(h, FlattenSeq(ps)) = Spread(f, ps)}
<1>1. Puts(f, Seq(A), B)
  BY SpreadType DEF Puts
<1>2. <<>> \in Good
  BY FlattenEmpty, SpreadEmpty, EmptySeq
<1>3. ASSUME NEW ps \in Seq(Seq(A)), NEW p \in Seq(A), ps \in Good PROVE Append(ps, p) \in Good
  <2>1. FlattenSeq(Append(ps, p)) = FlattenSeq(ps) \o p /\ FlattenSeq(ps) \in Seq(A)
    BY FlattenAppend, FlattenType
  <2>2. Spread(h, FlattenSeq(Append(ps, p))) = Spread(f, ps) \o f[p]
    <3>1. Spread(h, FlattenSeq(ps) \o p) = Spread(h, FlattenSeq(ps)) \o Spread(h, p)
      BY <2>1, SpreadConcat
    <3> QED
      BY <1>3, <2>1, <3>1
  <2> HIDE DEF f
  <2> QED
    <3>1. Spread(f, Append(ps, p)) = Spread(f, ps) \o f[p]
      BY <1>1, SpreadAppend
    <3> QED
      BY <2>2, <3>1, AppendProperties
<1> HIDE DEF Good
<1>4. Seq(Seq(A)) \subseteq Good
  BY <1>2, <1>3, SeqInduction
<1>5. Spread(h, FlattenSeq(parts)) = Spread(f, parts)
  BY <1>4 DEF Good
<1>6. \A i \in DOMAIN parts : parts[i] \in Seq(A)
  BY LenProperties, ElementOfSeq
<1>7. [i \in DOMAIN parts |-> f[parts[i]]] = EachSpread(h, parts)
  BY <1>6 DEF EachSpread
<1> HIDE DEF f
<1> QED
  BY <1>5, <1>7 DEF Spread

Renamed(h, t) == [i \in DOMAIN t |-> h[t[i]]]
Singles(g, h, A, B) == \A a \in A : g[a] = <<h[a]>> /\ h[a] \in B

\* Renaming each atom is putting one for each.
LEMMA SpreadSingles ==
    ASSUME NEW A, NEW B, NEW g, NEW h, Singles(g, h, A, B), NEW t \in Seq(A)
    PROVE  Renamed(h, t) = Spread(g, t)
<1> DEFINE Map(u) == [i \in DOMAIN u |-> h[u[i]]]
           Good == {u \in Seq(A) : Map(u) = Spread(g, u)}
<1>1. Puts(g, A, B)
  <2>1. ASSUME NEW a \in A PROVE g[a] \in Seq(B)
    <3>1. g[a] = <<h[a]>> /\ <<h[a]>> \in Seq(B)
      BY DEF Singles
    <3> QED
      BY <3>1
  <2> QED
    BY <2>1 DEF Puts
<1>2. <<>> \in Good
  <2>1. Map(<<>>) = <<>>
    OBVIOUS
  <2> QED
    BY <2>1, SpreadEmpty, EmptySeq
<1>3. ASSUME NEW u \in Seq(A), NEW a \in A, u \in Good PROVE Append(u, a) \in Good
  <2>1. Map(Append(u, a)) = Append(Map(u), h[a])
    BY MapAppend DEF Singles
  <2>2. Spread(g, Append(u, a)) = Spread(g, u) \o g[a]
    BY <1>1, SpreadAppend
  <2>3. Map(u) \in Seq(B)
    BY MapType DEF Singles
  <2> HIDE DEF Map
  <2>4. Append(Map(u), h[a]) = Map(u) \o <<h[a]>>
    BY <2>3, AppendIsConcat
  <2> QED
    BY <1>3, <2>1, <2>2, <2>4, AppendProperties DEF Singles
<1> HIDE DEF Good
<1>4. Seq(A) \subseteq Good
  BY <1>2, <1>3, SeqInduction
<1> QED
  BY <1>4 DEF Good, Renamed

-----------------------------------------------------------------------------
(* Rehydration                                                             *)

\* A session's map of originals: finite, no placeholder twice, and no original has
\* an atom that is a placeholder.
GoodBook(book, W, P) ==
    /\ IsFiniteSet(DOMAIN book)
    /\ DOMAIN book \subseteq Seq(W)
    /\ \A o \in DOMAIN book : book[o] \in P
    /\ \A o1, o2 \in DOMAIN book : book[o1] = book[o2] => o1 = o2
    /\ \A w \in W : w \notin P

\* What each atom turns into when the originals of T are put back.
Back(book, T, A) ==
    [a \in A |-> IF \E o \in T : book[o] = a THEN CHOOSE o \in T : book[o] = a
                                             ELSE <<a>>]

LEMMA BackOfPlaceholder ==
    ASSUME NEW book, NEW W, NEW P, NEW A, NEW T, GoodBook(book, W, P), T \subseteq DOMAIN book,
           NEW o \in T, book[o] \in A
    PROVE  Back(book, T, A)[book[o]] = o
<1>1. \A o1 \in T : book[o1] = book[o] => o1 = o
  BY DEF GoodBook
<1>2. (CHOOSE o1 \in T : book[o1] = book[o]) = o
  BY <1>1
<1> QED
  BY <1>2 DEF Back

LEMMA BackOfOther ==
    ASSUME NEW book, NEW A, NEW T, NEW a \in A, ~ \E o \in T : book[o] = a
    PROVE  Back(book, T, A)[a] = <<a>>
BY DEF Back

LEMMA BackPuts ==
    ASSUME NEW book, NEW W, NEW P, NEW A, NEW T, GoodBook(book, W, P), T \subseteq DOMAIN book,
           W \subseteq A
    PROVE  Puts(Back(book, T, A), A, A)
<1>1. ASSUME NEW a \in A PROVE Back(book, T, A)[a] \in Seq(A)
  <2>1. CASE \E o \in T : book[o] = a
    <3>1. PICK o \in T : book[o] = a
      BY <2>1
    <3>2. Back(book, T, A)[a] = o
      BY <3>1, BackOfPlaceholder
    <3>3. o \in Seq(W)
      BY DEF GoodBook
    <3> QED
      BY <3>2, <3>3, SeqMonotonic
  <2>2. CASE ~ \E o \in T : book[o] = a
    <3>1. Back(book, T, A)[a] = <<a>>
      BY <2>2, BackOfOther
    <3>2. <<a>> \in Seq(A)
      OBVIOUS
    <3> QED
      BY <3>1, <3>2
  <2> QED
    BY <2>1, <2>2
<1> QED
  BY <1>1 DEF Puts

\* One replacement, as what it puts for each atom.
Swapped(ph, o, A) == [a \in A |-> IF a = ph THEN o ELSE <<a>>]

LEMMA SwapIsSpread ==
    ASSUME NEW A, NEW t \in Seq(A), NEW ph, NEW o
    PROVE  Swap(t, ph, o) = Spread(Swapped(ph, o, A), t)
<1>1. \A i \in DOMAIN t : t[i] \in A
  BY LenProperties, ElementOfSeq
<1>2. [i \in DOMAIN t |-> IF t[i] = ph THEN o ELSE <<t[i]>>]
        = [i \in DOMAIN t |-> Swapped(ph, o, A)[t[i]]]
  BY <1>1 DEF Swapped
<1> QED
  BY <1>2 DEF Swap, Spread

LEMMA SwappedPuts ==
    ASSUME NEW A, NEW ph, NEW o \in Seq(A)
    PROVE  Puts(Swapped(ph, o, A), A, A)
<1>1. \A a \in A : <<a>> \in Seq(A)
  OBVIOUS
<1> QED
  BY <1>1 DEF Puts, Swapped

\* Putting back one more original.
LEMMA BackOneMore ==
    ASSUME NEW book, NEW W, NEW P, NEW A, NEW T, GoodBook(book, W, P), T \subseteq DOMAIN book,
           W \subseteq A, P \subseteq A, NEW o \in DOMAIN book, NEW t \in Seq(A)
    PROVE  Swap(Spread(Back(book, T, A), t), book[o], o)
             = Spread(Back(book, T \cup {o}, A), t)
<1> DEFINE g == Back(book, T, A)
           h == Swapped(book[o], o, A)
           k == Back(book, T \cup {o}, A)
           ph == book[o]
<1>1. o \in Seq(W) /\ o \in Seq(A) /\ ph \in A /\ ph \in P
  <2>1. o \in Seq(W) /\ ph \in P
    BY DEF GoodBook
  <2> QED
    BY <2>1, SeqMonotonic
<1>2. Puts(g, A, A) /\ Puts(h, A, A)
  BY <1>1, BackPuts, SwappedPuts
<1>3. \A w \in W : h[w] = <<w>>
  BY <1>1 DEF GoodBook, Swapped
<1>4. ASSUME NEW a \in A PROVE k[a] = Spread(h, g[a])
  <2>1. CASE \E x \in T : book[x] = a
    <3>1. PICK x \in T : book[x] = a
      BY <2>1
    <3>2. g[a] = x
      BY <3>1, BackOfPlaceholder
    <3>3. x \in T \cup {o} /\ T \cup {o} \subseteq DOMAIN book
      OBVIOUS
    <3>4. k[a] = x
      BY <3>1, <3>3, BackOfPlaceholder
    <3>5. x \in Seq(W)
      BY DEF GoodBook
    <3>6. Spread(h, x) = x
      BY <1>3, <3>5, SpreadNothing
    <3> QED
      BY <3>2, <3>4, <3>6
  <2>2. CASE ~ \E x \in T : book[x] = a
    <3>1. g[a] = <<a>>
      BY <2>2, BackOfOther
    <3>2. Spread(h, <<a>>) = h[a]
      BY <1>2, SpreadOne
    <3>3. CASE a = ph
      <4>1. o \in T \cup {o} /\ T \cup {o} \subseteq DOMAIN book
        OBVIOUS
      <4>2. k[a] = o
        BY <3>3, <4>1, BackOfPlaceholder
      <4>3. h[a] = o
        BY <3>3 DEF Swapped
      <4> QED
        BY <3>1, <3>2, <4>2, <4>3
    <3>4. CASE a # ph
      <4>1. ~ \E x \in T \cup {o} : book[x] = a
        BY <2>2, <3>4
      <4>2. k[a] = <<a>>
        BY <4>1, BackOfOther
      <4>3. h[a] = <<a>>
        BY <3>4 DEF Swapped
      <4> QED
        BY <3>1, <3>2, <4>2, <4>3
    <3> QED
      BY <3>3, <3>4
  <2> QED
    BY <2>1, <2>2
<1> HIDE DEF g, h, k
<1>5. Spread(h, Spread(g, t)) = Spread(k, t)
  BY <1>2, <1>4, SpreadSpread
<1>6. Spread(g, t) \in Seq(A)
  BY <1>2, SpreadType
<1>7. Swap(Spread(g, t), ph, o) = Spread(h, Spread(g, t))
  BY <1>6, SwapIsSpread DEF h
<1> QED
  BY <1>5, <1>7 DEF g, k

\* The function a rehydration goes by.
SwapFolds(f, n, book, text, order) ==
    f = [s \in SUBSET (1..n) |->
            IF s = {} THEN text
            ELSE Swap(f[s \ {Max(s)}], book[order[Max(s)]], order[Max(s)])]

LEMMA SwapFoldsExists ==
    ASSUME NEW book, NEW W, NEW P, NEW A, GoodBook(book, W, P), W \subseteq A,
           NEW text \in Seq(A), NEW n \in Nat, NEW order \in [1..n -> DOMAIN book]
    PROVE  \E f : SwapFolds(f, n, book, text, order)
<1> DEFINE step == [p \in Seq(A) \X DOMAIN book |-> Swap(p[1], book[p[2]], p[2])]
<1>1. ASSUME NEW t \in Seq(A), NEW o \in DOMAIN book PROVE Swap(t, book[o], o) \in Seq(A)
  <2>1. o \in Seq(A)
    BY SeqMonotonic DEF GoodBook
  <2>2. Puts(Swapped(book[o], o, A), A, A)
    BY <2>1, SwappedPuts
  <2>3. Spread(Swapped(book[o], o, A), t) \in Seq(A)
    BY <2>2, SpreadType
  <2> QED
    BY <2>3, SwapIsSpread
<1>2. step \in [Seq(A) \X DOMAIN book -> Seq(A)]
  BY <1>1
<1>3. \A i \in 1..n : order[i] \in DOMAIN book
  OBVIOUS
<1>4. \A t \in Seq(A), o \in DOMAIN book : step[t, o] = Swap(t, book[o], o)
  OBVIOUS
<1> HIDE DEF step
<1>5. PICK f \in [SUBSET (1..n) -> Seq(A)] : Folds(f, n, step, text, order)
  <2>1. HasFold(Seq(A), n, step, text, order)
    BY <1>2, FoldExists
  <2> QED
    BY <2>1, Zenon DEF HasFold
<1>6. ASSUME NEW s \in SUBSET (1..n)
      PROVE  f[s] = IF s = {} THEN text
                    ELSE Swap(f[s \ {Max(s)}], book[order[Max(s)]], order[Max(s)])
  <2>1. CASE s = {}
    BY <1>5, <2>1 DEF Folds
  <2>2. CASE s # {}
    <3>1. f[s] = step[f[s \ {Max(s)}], order[Max(s)]]
      BY <1>5, <2>2 DEF Folds
    <3>2. Max(s) \in s
      <4>1. s \in SUBSET (0..n)
        OBVIOUS
      <4> QED
        BY <2>2, <4>1, MaxOfBounded
    <3>3. Max(s) \in 1..n /\ s \ {Max(s)} \in SUBSET (1..n)
      BY <3>2
    <3>4. order[Max(s)] \in DOMAIN book /\ f[s \ {Max(s)}] \in Seq(A)
      BY <1>3, <3>3
    <3>5. step[f[s \ {Max(s)}], order[Max(s)]]
            = Swap(f[s \ {Max(s)}], book[order[Max(s)]], order[Max(s)])
      BY <1>4, <3>4
    <3> QED
      BY <2>2, <3>1, <3>5
  <2> QED
    BY <2>1, <2>2
<1>7. f = [s \in SUBSET (1..n) |-> f[s]]
  OBVIOUS
<1>8. SwapFolds(f, n, book, text, order)
  BY <1>6, <1>7 DEF SwapFolds
<1> QED
  BY <1>8

\* After k replacements, the originals of the first k are back.
LEMMA SwapFoldsAre ==
    ASSUME NEW book, NEW W, NEW P, NEW A, GoodBook(book, W, P), W \subseteq A, P \subseteq A,
           NEW text \in Seq(A), NEW n \in Nat, NEW order \in [1..n -> DOMAIN book],
           NEW f, SwapFolds(f, n, book, text, order)
    PROVE  f[1..n] = Spread(Back(book, {order[i] : i \in 1..n}, A), text)
<1> DEFINE First(k) == {order[i] : i \in 1..k}
           Good == {k \in Nat : k <= n => f[1..k] = Spread(Back(book, First(k), A), text)}
<1>1. 0 \in Good
  <2>1. 1..0 = {} /\ 1..0 \in SUBSET (1..n) /\ First(0) = {}
    OBVIOUS
  <2>2. f[1..0] = text
    BY <2>1 DEF SwapFolds
  <2>3. \A a \in A : Back(book, {}, A)[a] = <<a>>
    BY BackOfOther
  <2>4. Spread(Back(book, {}, A), text) = text
    BY <2>3, SpreadNothing
  <2> QED
    BY <2>1, <2>2, <2>4
<1>2. ASSUME NEW k \in Nat, k \in Good PROVE k + 1 \in Good
  <2>1. SUFFICES ASSUME k + 1 <= n
                 PROVE  f[1..(k + 1)] = Spread(Back(book, First(k + 1), A), text)
    OBVIOUS
  <2> DEFINE s == 1..(k + 1)
  <2>2. s \in SUBSET (1..n) /\ s # {} /\ k + 1 \in s /\ k + 1 \in 1..n
    <3>1. \A i \in 1..(k + 1) : i \in 1..n
      BY <2>1
    <3>2. k + 1 \in 1..(k + 1)
      OBVIOUS
    <3> QED
      BY <3>1, <3>2
  <2>3. Max(s) = k + 1
    BY <2>2, MaxOfInterval
  <2>4. s \ {k + 1} = 1..k
    OBVIOUS
  <2>5. First(k + 1) = First(k) \cup {order[k + 1]}
    <3>1. \A i \in 1..k + 1 : i \in 1..k \/ i = k + 1
      OBVIOUS
    <3>2. k + 1 \in 1..k + 1 /\ \A i \in 1..k : i \in 1..k + 1
      OBVIOUS
    <3> QED
      BY <3>1, <3>2
  <2>6. First(k) \subseteq DOMAIN book /\ order[k + 1] \in DOMAIN book
    <3>1. \A i \in 1..k : i \in 1..n
      BY <2>1
    <3> QED
      BY <2>2, <3>1
  <2>7. f[1..k] = Spread(Back(book, First(k), A), text)
    <3>1. k <= n
      BY <2>1
    <3> HIDE DEF First
    <3> QED
      BY <1>2, <3>1
  <2> HIDE DEF s, First
  <2>8. f[s] = Swap(f[1..k], book[order[k + 1]], order[k + 1])
    BY <2>2, <2>3, <2>4 DEF SwapFolds
  <2>9. Swap(Spread(Back(book, First(k), A), text), book[order[k + 1]], order[k + 1])
          = Spread(Back(book, First(k) \cup {order[k + 1]}, A), text)
    BY <2>6, BackOneMore
  <2> QED
    BY <2>5, <2>7, <2>8, <2>9 DEF s
<1> HIDE DEF Good
<1>3. Nat \subseteq Good
  BY <1>1, <1>2, NatSetInduction
<1> QED
  BY <1>3 DEF Good

\* The orders rehydrate may take: there is one, and each meets every original.
LEMMA OrdersAre ==
    ASSUME NEW book, NEW W, NEW P, GoodBook(book, W, P),
           NEW width, NEW order \in OrdersBy(width, book)
    PROVE  /\ order \in [1..Cardinality(DOMAIN book) -> DOMAIN book]
           /\ {order[i] : i \in 1..Cardinality(DOMAIN book)} = DOMAIN book
<1> DEFINE n == Cardinality(DOMAIN book)
<1>1. order \in [1..n -> DOMAIN book] /\ \A i, j \in 1..n : order[i] = order[j] => i = j
  BY DEF OrdersBy, SetToSeqs
<1>2. IsFiniteSet(DOMAIN book)
  BY DEF GoodBook
<1>3. \A o \in DOMAIN book : \E i \in 1..n : order[i] = o
  BY <1>1, <1>2, OrderIsOnto
<1>4. {order[i] : i \in 1..n} = DOMAIN book
  <2>1. \A i \in 1..n : order[i] \in DOMAIN book
    BY <1>1
  <2> HIDE DEF n
  <2> QED
    BY <1>3, <2>1
<1> QED
  BY <1>1, <1>4

LEMMA OrderExists ==
    ASSUME NEW book, NEW W, NEW P, GoodBook(book, W, P),
           NEW width, \A o \in DOMAIN book : width[o] \in Nat
    PROVE  OrdersBy(width, book) # {}
<1> DEFINE n == Cardinality(DOMAIN book)
<1>1. PICK f : Descends(f, DOMAIN book, width)
  BY DescendingExists DEF GoodBook
<1>2. f \in SetToSeqs(DOMAIN book) /\ DOMAIN f = 1..n
  BY <1>1 DEF Descends, SetToSeqs
<1>3. \A i, j \in 1..n : i < j => width[f[i]] >= width[f[j]]
  BY <1>1 DEF Descends
<1>4. f \in OrdersBy(width, book)
  BY <1>2, <1>3 DEF OrdersBy
<1> QED
  BY <1>4

\* rehydrate puts back the original of every placeholder of the book, and gives one
\* text whatever the order it takes the pairs in.
LEMMA RehydrationsAre ==
    ASSUME NEW book, NEW W, NEW P, NEW A, GoodBook(book, W, P), W \subseteq A, P \subseteq A,
           NEW width, \A o \in DOMAIN book : width[o] \in Nat, NEW text \in Seq(A)
    PROVE  RehydrationsBy(width, book, text) = {Spread(Back(book, DOMAIN book, A), text)}
<1> DEFINE n == Cardinality(DOMAIN book)
           result == Spread(Back(book, DOMAIN book, A), text)
           Folded(order) == FoldLeft(LAMBDA out, o : Swap(out, book[o], o), text, order)
<1>1. n \in Nat
  BY FS_CardinalityType DEF GoodBook
<1>2. ASSUME NEW order \in OrdersBy(width, book) PROVE Folded(order) = result
  <2>1. order \in [1..n -> DOMAIN book] /\ {order[i] : i \in 1..n} = DOMAIN book
    BY OrdersAre
  <2>2. DOMAIN order = 1..n
    BY <2>1
  <2> HIDE DEF n
  <2> DEFINE Iter == CHOOSE f : SwapFolds(f, n, book, text, order)
  <2>3. SwapFolds(Iter, n, book, text, order)
    <3>1. \E f : SwapFolds(f, n, book, text, order)
      BY <1>1, <2>1, SwapFoldsExists
    <3> QED
      BY <3>1
  <2>4. Folded(order) = Iter[1..n]
    BY <2>2 DEF FoldLeft, MapThenFoldSet, SwapFolds
  <2> HIDE DEF Iter
  <2>5. Iter[1..n] = Spread(Back(book, {order[i] : i \in 1..n}, A), text)
    BY <1>1, <2>1, <2>3, SwapFoldsAre
  <2> QED
    BY <2>1, <2>4, <2>5
<1> HIDE DEF result
<1>3. PICK order \in OrdersBy(width, book) : TRUE
  BY OrderExists
<1>4. RehydrationsBy(width, book, text) = {Folded(order1) : order1 \in OrdersBy(width, book)}
  BY DEF RehydrationsBy
<1> HIDE DEF Folded
<1>5. RehydrationsBy(width, book, text) = {result}
  BY <1>2, <1>3, <1>4
<1> QED
  BY <1>5 DEF result

-----------------------------------------------------------------------------
(* Filling gaps                                                            *)

LEMMA SeqIs ==
    ASSUME NEW A, NEW k \in Nat, NEW f, f = [i \in 1..k |-> f[i]],
           \A i \in 1..k : f[i] \in A
    PROVE  f \in Seq(A) /\ Len(f) = k
<1>1. f \in [1..k -> A]
  OBVIOUS
<1> QED
  BY <1>1

LEMMA JoinAssociates ==
    ASSUME NEW A, NEW r \in Seq(A), NEW s \in Seq(A), NEW t \in Seq(A)
    PROVE  r \o (s \o t) = (r \o s) \o t
<1>1. (r \o s) \o t = r \o (s \o t)
  BY ConcatAssociative
<1> QED
  BY <1>1

LEMMA FillAppend ==
    ASSUME NEW A, NEW gaps \in Seq(Seq(A)), NEW pieces \in Seq(Seq(A)), NEW t \in Seq(A),
           Len(gaps) = Len(pieces) + 1
    PROVE  Fill(Append(gaps, <<>>), Append(pieces, t)) = Fill(gaps, pieces) \o t
<1> DEFINE n == Len(pieces)
           wide == Append(gaps, <<>>)
           more == Append(pieces, t)
           old == [i \in DOMAIN pieces |-> pieces[i] \o gaps[i + 1]]
           new == [i \in DOMAIN more |-> more[i] \o wide[i + 1]]
<1>1. n \in Nat /\ DOMAIN pieces = 1..n /\ Len(gaps) = n + 1
  BY LenProperties
<1>2. /\ \A i \in 1..n : pieces[i] \in Seq(A)
      /\ \A i \in 1..(n + 1) : gaps[i] \in Seq(A)
  BY <1>1, ElementOfSeq
<1>3. /\ DOMAIN more = 1..(n + 1)
      /\ \A i \in 1..n : more[i] = pieces[i]
      /\ more[n + 1] = t
  BY <1>1, AppendProperties
<1>4. <<>> \in Seq(A)
  OBVIOUS
<1>5. /\ \A i \in 1..(n + 1) : wide[i] = gaps[i]
      /\ wide[n + 2] = <<>>
  <2>1. /\ \A i \in 1..Len(gaps) : wide[i] = gaps[i]
        /\ wide[Len(gaps) + 1] = <<>>
    BY <1>4, AppendProperties
  <2>2. Len(gaps) = n + 1 /\ Len(gaps) + 1 = n + 2
    BY <1>1
  <2> QED
    BY <2>1, <2>2
<1>6. old \in Seq(Seq(A)) /\ Len(old) = n
  <2>1. \A i \in 1..n : pieces[i] \o gaps[i + 1] \in Seq(A)
    BY <1>1, <1>2, ConcatProperties
  <2> QED
    BY <1>1, <2>1
<1>7. new = Append(old, t)
  <2>1. t \o <<>> = t
    OBVIOUS
  <2>2. ASSUME NEW i \in 1..n PROVE new[i] = old[i]
    <3>1. i \in DOMAIN more /\ i \in DOMAIN pieces /\ i + 1 \in 1..(n + 1)
      BY <1>1, <1>3
    <3>2. new[i] = more[i] \o wide[i + 1] /\ old[i] = pieces[i] \o gaps[i + 1]
      BY <3>1
    <3> HIDE DEF new, old, more, wide
    <3> QED
      BY <1>3, <1>5, <3>1, <3>2
  <2>3. new[n + 1] = t
    <3>1. n + 1 \in DOMAIN more /\ (n + 1) + 1 = n + 2
      BY <1>1, <1>3
    <3>2. new[n + 1] = more[n + 1] \o wide[n + 2]
      BY <3>1
    <3> HIDE DEF new, more, wide
    <3> QED
      BY <1>3, <1>5, <2>1, <3>2
  <2>4. new = [i \in 1..(n + 1) |-> new[i]]
    BY <1>3
  <2> HIDE DEF new, old
  <2>5. \A i \in 1..(n + 1) : i \in 1..n \/ i = n + 1
    BY <1>1
  <2>6. \A i \in 1..(n + 1) : new[i] \in Seq(A)
    BY <1>2, <1>1, <1>6, <2>2, <2>3, <2>5, ElementOfSeq
  <2>7. n + 1 \in Nat
    BY <1>1
  <2> HIDE DEF n
  <2>8. new \in Seq(Seq(A)) /\ Len(new) = n + 1
    <3> DEFINE k == n + 1
    <3>1. k \in Nat /\ new = [i \in 1..k |-> new[i]] /\ \A i \in 1..k : new[i] \in Seq(A)
      BY <2>4, <2>6, <2>7
    <3> HIDE DEF k
    <3>2. new \in Seq(Seq(A)) /\ Len(new) = k
      BY <3>1, SeqIs
    <3> QED
      BY <3>2 DEF k
  <2>9. /\ Append(old, t) \in Seq(Seq(A)) /\ Len(Append(old, t)) = n + 1
        /\ \A i \in 1..n : Append(old, t)[i] = old[i]
        /\ Append(old, t)[n + 1] = t
    BY <1>6, AppendProperties
  <2>10. \A i \in 1..Len(new) : new[i] = Append(old, t)[i]
    BY <2>2, <2>3, <2>5, <2>8, <2>9
  <2> QED
    BY <2>8, <2>9, <2>10, SeqEqual
<1>8. FlattenSeq(new) = FlattenSeq(old) \o t
  BY <1>6, <1>7, FlattenAppend
<1>9. FlattenSeq(old) \in Seq(A)
  BY <1>6, FlattenType
<1>10. Fill(wide, more) = gaps[1] \o FlattenSeq(new)
  <2>1. wide[1] = gaps[1]
    BY <1>1, <1>5
  <2> QED
    BY <2>1 DEF Fill
<1>11. Fill(gaps, pieces) = gaps[1] \o FlattenSeq(old)
  BY DEF Fill
<1>12. gaps[1] \in Seq(A)
  BY <1>1, <1>2
<1> HIDE DEF new, old, wide, more
<1>13. gaps[1] \o (FlattenSeq(old) \o t) = (gaps[1] \o FlattenSeq(old)) \o t
  <2>1. \A r, s, u \in Seq(A) : r \o (s \o u) = (r \o s) \o u
    BY JoinAssociates, SMTT(30)
  <2> QED
    BY <1>9, <1>12, <2>1
<1>14. Fill(wide, more) = Fill(gaps, pieces) \o t
  BY <1>8, <1>10, <1>11, <1>13
<1> QED
  BY <1>14 DEF wide, more

\* The last gap goes on.
Longer(gaps, t) == [gaps EXCEPT ![Len(gaps)] = @ \o t]

LEMMA FillLonger ==
    ASSUME NEW A, NEW gaps \in Seq(Seq(A)), NEW pieces \in Seq(Seq(A)), NEW t \in Seq(A),
           Len(gaps) = Len(pieces) + 1
    PROVE  Fill(Longer(gaps, t), pieces) = Fill(gaps, pieces) \o t
<1> DEFINE n == Len(pieces)
           long == [gaps EXCEPT ![n + 1] = @ \o t]
           old == [i \in DOMAIN pieces |-> pieces[i] \o gaps[i + 1]]
           new == [i \in DOMAIN pieces |-> pieces[i] \o long[i + 1]]
<1>1. n \in Nat /\ DOMAIN pieces = 1..n /\ Len(gaps) = n + 1 /\ DOMAIN gaps = 1..(n + 1)
  BY LenProperties
<1>2. /\ \A i \in 1..n : pieces[i] \in Seq(A)
      /\ \A i \in 1..(n + 1) : gaps[i] \in Seq(A)
  BY <1>1, ElementOfSeq
<1>3. /\ \A i \in 1..n : long[i] = gaps[i]
      /\ long[n + 1] = gaps[n + 1] \o t
  BY <1>1, SMTT(30)
<1>4. Fill(gaps, pieces) = gaps[1] \o FlattenSeq(old)
      /\ Fill(long, pieces) = long[1] \o FlattenSeq(new)
  BY DEF Fill
<1>5. gaps[1] \in Seq(A)
  BY <1>1, <1>2
<1>6. CASE n = 0
  <2>1. old = <<>> /\ new = <<>>
    BY <1>1, <1>6
  <2>2. long[1] = gaps[1] \o t
    BY <1>3, <1>6
  <2> HIDE DEF old, new, long
  <2>3. Fill(gaps, pieces) = gaps[1]
    BY <1>4, <1>5, <2>1, FlattenEmpty, ConcatEmptySeq
  <2>4. Fill(long, pieces) = gaps[1] \o t
    <3>1. Fill(long, pieces) = (gaps[1] \o t) \o <<>>
      BY <1>4, <2>1, <2>2, FlattenEmpty
    <3>2. gaps[1] \o t \in Seq(A)
      BY <1>5, ConcatProperties
    <3> QED
      BY <3>1, <3>2, ConcatEmptySeq
  <2> QED
    BY <1>1, <2>3, <2>4 DEF long, Longer
<1>7. CASE n # 0
  <2> DEFINE m == n - 1
             front == [i \in 1..m |-> old[i]]
  <2>1. m \in Nat /\ n = m + 1
    BY <1>1, <1>7
  <2>2. \A i \in 1..n : old[i] \in Seq(A)
    BY <1>1, <1>2, ConcatProperties
  <2>3. front \in Seq(Seq(A)) /\ Len(front) = m
    BY <2>1, <2>2
  <2>4. old[n] \in Seq(A) /\ new[n] = old[n] \o t
    <3>1. n \in 1..n /\ n \in DOMAIN pieces /\ n + 1 \in 1..(n + 1)
      BY <1>1, <1>7
    <3>2. new[n] = pieces[n] \o (gaps[n + 1] \o t)
      BY <1>3, <3>1
    <3>3. old[n] = pieces[n] \o gaps[n + 1]
      BY <3>1
    <3>4. pieces[n] \in Seq(A) /\ gaps[n + 1] \in Seq(A)
      BY <1>2, <3>1
    <3> HIDE DEF new, old, long, front
    <3>5. old[n] \in Seq(A)
      BY <2>2, <3>1
    <3>6. pieces[n] \o (gaps[n + 1] \o t) = (pieces[n] \o gaps[n + 1]) \o t
      <4>1. \A r, s, u \in Seq(A) : r \o (s \o u) = (r \o s) \o u
        BY JoinAssociates, SMTT(30)
      <4> QED
        BY <3>4, <4>1
    <3> QED
      BY <3>2, <3>3, <3>5, <3>6
  <2>5. \A i \in 1..m : new[i] = old[i]
    <3>1. \A i \in 1..m : i + 1 \in 1..n /\ i \in DOMAIN pieces
      BY <1>1, <2>1
    <3> QED
      BY <1>3, <3>1
  <2>6. DOMAIN pieces = 1..(m + 1) /\ m + 1 \in Nat
    BY <1>1, <2>1
  <2>7. old[n] \o t \in Seq(A)
    BY <2>4, ConcatProperties
  <2> HIDE DEF m
  <2>8. \A i \in 1..(m + 1) : i \in 1..m \/ i = m + 1
    BY <2>1
  <2>9. /\ old \in Seq(Seq(A)) /\ Len(old) = m + 1
        /\ new \in Seq(Seq(A)) /\ Len(new) = m + 1
    <3>1. \A i \in 1..(m + 1) : old[i] \in Seq(A)
      BY <2>1, <2>2
    <3>2. \A i \in 1..m : i \in 1..(m + 1)
      BY <2>1
    <3>3. \A i \in 1..(m + 1) : new[i] \in Seq(A)
      BY <2>1, <2>4, <2>5, <2>7, <2>8, <3>1, <3>2
    <3> DEFINE k == m + 1
    <3> HIDE DEF k
    <3>4. /\ DOMAIN pieces = 1..k /\ k \in Nat
          /\ \A i \in 1..k : old[i] \in Seq(A) /\ new[i] \in Seq(A)
      BY <2>6, <3>1, <3>3 DEF k
    <3> HIDE DEF long, Longer
    <3>5. old = [i \in 1..k |-> old[i]] /\ new = [i \in 1..k |-> new[i]]
      BY <3>4
    <3> HIDE DEF old, new
    <3>6. old \in Seq(Seq(A)) /\ Len(old) = k /\ new \in Seq(Seq(A)) /\ Len(new) = k
      BY <3>4, <3>5, SeqIs
    <3> QED
      BY <3>6 DEF k
  <2> HIDE DEF old, new
  <2>10. ASSUME NEW s \in Seq(Seq(A)), NEW last \in Seq(A), Len(s) = m + 1,
                \A i \in 1..m : s[i] = old[i], s[m + 1] = last
         PROVE  s = Append(front, last)
    <3>2. \A i \in 1..m : front[i] = old[i]
      OBVIOUS
    <3> HIDE DEF front
    <3>1. /\ Append(front, last) \in Seq(Seq(A)) /\ Len(Append(front, last)) = m + 1
          /\ \A i \in 1..m : Append(front, last)[i] = front[i]
          /\ Append(front, last)[m + 1] = last
      BY <2>3, AppendProperties
    <3>3. \A i \in 1..Len(s) : s[i] = Append(front, last)[i]
      BY <2>8, <2>10, <3>1, <3>2
    <3> QED
      BY <2>10, <3>1, <3>3, SeqEqual
  <2> HIDE DEF front
  <2>11. old = Append(front, old[n]) /\ new = Append(front, old[n] \o t)
    BY <2>1, <2>4, <2>5, <2>7, <2>9, <2>10
  <2>12. /\ FlattenSeq(old) = FlattenSeq(front) \o old[n]
         /\ FlattenSeq(new) = FlattenSeq(front) \o (old[n] \o t)
         /\ FlattenSeq(front) \in Seq(A)
    BY <2>3, <2>4, <2>7, <2>11, FlattenAppend, FlattenType, Zenon
  <2>13. long[1] = gaps[1]
    BY <1>1, <1>3, <1>7
  <2> HIDE DEF long, Longer
  <2>14. Fill(long, pieces) = gaps[1] \o (FlattenSeq(front) \o (old[n] \o t))
    BY <1>4, <2>12, <2>13
  <2>15. Fill(gaps, pieces) = gaps[1] \o (FlattenSeq(front) \o old[n])
    BY <1>4, <2>12
  <2>16. Fill(long, pieces) = Fill(gaps, pieces) \o t
    <3>0. \A r, s, u \in Seq(A) : r \o (s \o u) = (r \o s) \o u
      BY JoinAssociates
    <3>1. FlattenSeq(front) \o (old[n] \o t) = (FlattenSeq(front) \o old[n]) \o t
      BY <2>4, <2>12, <3>0
    <3>2. FlattenSeq(front) \o old[n] \in Seq(A)
      BY <2>4, <2>12, ConcatProperties
    <3>3. gaps[1] \o ((FlattenSeq(front) \o old[n]) \o t)
            = (gaps[1] \o (FlattenSeq(front) \o old[n])) \o t
      BY <1>5, <3>0, <3>2
    <3> QED
      BY <2>14, <2>15, <3>1, <3>3
  <2> QED
    BY <1>1, <2>16 DEF long, Longer
<1> QED
  BY <1>6, <1>7
===============================================================================
