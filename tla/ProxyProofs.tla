------------------------------ MODULE ProxyProofs ------------------------------
(***************************************************************************)
(* Proofs about Proxy, for any requests, dashboards, packs and bodies.      *)
(***************************************************************************)
EXTENDS Proxy, Lemmas

-----------------------------------------------------------------------------
(* Books                                                                   *)

Labelled(book, l) == {o \in DOMAIN book : book[o].label = l}

\* No number is greater than how many texts have its label: the next is free.
Numbered(book) ==
    \A o \in DOMAIN book : book[o].n <= Cardinality(Labelled(book, book[o].label))

Books == {book \in UNION {[T -> Placeholder] : T \in SUBSET Seq(Words)} :
              GoodBook(book, Words, Placeholder) /\ Numbered(book)}

LEMMA BooksAre ==
    ASSUME NEW book, book = [o \in DOMAIN book |-> book[o]],
           GoodBook(book, Words, Placeholder), Numbered(book)
    PROVE  book \in Books
<1>1. DOMAIN book \in SUBSET Seq(Words) /\ book \in [DOMAIN book -> Placeholder]
  BY DEF GoodBook
<1> QED
  BY <1>1 DEF Books

LEMMA BookFacts ==
    ASSUME NEW book \in Books
    PROVE  /\ book = [o \in DOMAIN book |-> book[o]]
           /\ GoodBook(book, Words, Placeholder)
           /\ Numbered(book)
BY DEF Books

LEMMA NoBookIsBook == NoBook \in Books
<1>1. DOMAIN NoBook = {} /\ NoBook = [o \in DOMAIN NoBook |-> NoBook[o]]
  BY DEF NoBook
<1>2. GoodBook(NoBook, Words, Placeholder)
  BY <1>1, FS_EmptySet, WordsAssumption DEF GoodBook
<1>3. Numbered(NoBook)
  BY <1>1 DEF Numbered
<1> QED
  BY <1>1, <1>2, <1>3, BooksAre

\* One book continues another.
Continues(new, book) ==
    /\ DOMAIN book \subseteq DOMAIN new
    /\ \A o \in DOMAIN book : new[o] = book[o]

Remembers(new, book, f) ==
    /\ new \in Books
    /\ Continues(new, book)
    /\ f.action = "mask" => f.text \in DOMAIN new
    /\ \A o \in DOMAIN new : o \in DOMAIN book \/ (f.action = "mask" /\ o = f.text)

LEMMA RememberOne ==
    ASSUME NEW book \in Books, NEW f \in Finding
    PROVE  Remembers(Remember(book, f), book, f)
<1>1. /\ book = [o \in DOMAIN book |-> book[o]]
      /\ GoodBook(book, Words, Placeholder)
      /\ Numbered(book)
  BY BookFacts
<1>2. f.text \in Seq(Words) /\ f.label \in Labels /\ f.action \in {"mask", "redact"}
  BY DEF Finding
<1>3. CASE f.action = "redact" \/ f.text \in DOMAIN book
  BY <1>2, <1>3 DEF Remember, Remembers, Continues
<1>4. CASE ~ (f.action = "redact" \/ f.text \in DOMAIN book)
  <2> DEFINE l == f.label
             n == Cardinality(Labelled(book, l))
             ph == [label |-> l, n |-> n + 1]
             new == With(book, f.text, ph)
  <2>1. \A k \in Labels : IsFiniteSet(Labelled(book, k)) /\ Cardinality(Labelled(book, k)) \in Nat
    <3>1. \A k \in Labels : Labelled(book, k) \in SUBSET DOMAIN book
      BY DEF Labelled
    <3>2. \A k \in Labels : IsFiniteSet(Labelled(book, k))
      BY <1>1, <3>1, FS_Subset DEF GoodBook
    <3> QED
      BY <3>2, FS_CardinalityType
  <2>2. n \in Nat /\ ph \in Placeholder
    BY <1>2, <2>1 DEF Placeholder
  <2>3. Remember(book, f) = new
    BY <1>4, <2>2 DEF Remember, NumberUnder, Labelled
  <2>4. /\ DOMAIN new = DOMAIN book \cup {f.text}
        /\ new = [o \in DOMAIN new |-> new[o]]
        /\ new[f.text] = ph
        /\ \A o \in DOMAIN book : new[o] = book[o]
    BY <1>4 DEF With
  <2> HIDE DEF new
  <2>5. \A o \in DOMAIN book : book[o] \in Placeholder
    BY <1>1 DEF GoodBook
  <2>6. \A o \in DOMAIN book : book[o] # ph
    <3>1. SUFFICES ASSUME NEW o \in DOMAIN book, book[o] = ph PROVE FALSE
      OBVIOUS
    <3>2. book[o].n <= Cardinality(Labelled(book, book[o].label))
      BY <1>1 DEF Numbered
    <3>3. n + 1 <= n
      BY <3>1, <3>2
    <3> QED
      BY <2>2, <3>3
  <2> HIDE DEF n, ph
  <2>7. GoodBook(new, Words, Placeholder)
    <3>1. IsFiniteSet(DOMAIN new)
      BY <1>1, <2>4, FS_AddElement DEF GoodBook
    <3>2. DOMAIN new \subseteq Seq(Words)
      BY <1>1, <1>2, <2>4 DEF GoodBook
    <3>3. \A o \in DOMAIN new : new[o] \in Placeholder
      BY <2>2, <2>4, <2>5
    <3>4. \A o1, o2 \in DOMAIN new : new[o1] = new[o2] => o1 = o2
      BY <1>1, <2>4, <2>6 DEF GoodBook
    <3> QED
      BY <3>1, <3>2, <3>3, <3>4, WordsAssumption DEF GoodBook
  <2>8. \A k \in Labels : Cardinality(Labelled(book, k)) <= Cardinality(Labelled(new, k))
    <3>1. SUFFICES ASSUME NEW k \in Labels
                   PROVE  Cardinality(Labelled(book, k)) <= Cardinality(Labelled(new, k))
      OBVIOUS
    <3>2. Labelled(book, k) \in SUBSET Labelled(new, k)
      BY <2>4 DEF Labelled
    <3>3. IsFiniteSet(Labelled(new, k))
      <4>1. Labelled(new, k) \in SUBSET DOMAIN new
        BY DEF Labelled
      <4> QED
        BY <2>7, <4>1, FS_Subset DEF GoodBook
    <3> QED
      BY <3>2, <3>3, FS_Subset
  <2>9. Cardinality(Labelled(new, l)) = n + 1
    <3>1. Labelled(new, l) = Labelled(book, l) \cup {f.text}
      <4>1. new[f.text].label = l
        BY <2>4 DEF ph
      <4> QED
        BY <2>4, <4>1 DEF Labelled
    <3>2. f.text \notin Labelled(book, l)
      BY <1>4 DEF Labelled
    <3> QED
      BY <1>2, <2>1, <3>1, <3>2, FS_AddElement DEF n
  <2>10. Numbered(new)
    <3>1. ASSUME NEW o \in DOMAIN book
          PROVE  new[o].n <= Cardinality(Labelled(new, new[o].label))
      <4>1. book[o].label \in Labels /\ book[o].n \in Nat
        BY <2>5 DEF Placeholder
      <4>2. book[o].n <= Cardinality(Labelled(book, book[o].label))
        BY <1>1 DEF Numbered
      <4>3. Cardinality(Labelled(new, book[o].label)) \in Nat
        <5>1. Labelled(new, book[o].label) \in SUBSET DOMAIN new
          BY DEF Labelled
        <5> QED
          BY <2>7, <5>1, FS_Subset, FS_CardinalityType DEF GoodBook
      <4>4. Cardinality(Labelled(book, book[o].label))
              <= Cardinality(Labelled(new, book[o].label))
        BY <2>8, <4>1
      <4>5. Cardinality(Labelled(book, book[o].label)) \in Nat
        BY <2>1, <4>1
      <4> QED
        BY <2>4, <4>1, <4>2, <4>3, <4>4, <4>5
    <3>2. new[f.text].n <= Cardinality(Labelled(new, new[f.text].label))
      <4>1. new[f.text].n = n + 1 /\ new[f.text].label = l
        BY <2>4 DEF ph
      <4> QED
        BY <2>2, <2>9, <4>1
    <3> QED
      BY <2>4, <3>1, <3>2 DEF Numbered
  <2>11. new \in Books
    BY <2>4, <2>7, <2>10, BooksAre
  <2>12. Remembers(new, book, f)
    BY <1>2, <1>4, <2>4, <2>11 DEF Remembers, Continues
  <2> QED
    BY <2>3, <2>12
<1> QED
  BY <1>3, <1>4

-----------------------------------------------------------------------------
(* Remembering the findings of a string                                    *)

\* The function RememberAll goes by.
Rounds(f, n, book, findings) ==
    f = [s \in SUBSET (1..n) |->
            IF s = {} THEN book ELSE Remember(f[s \ {Max(s)}], findings[Max(s)])]

LEMMA RoundsExist ==
    ASSUME NEW book \in Books, NEW n \in Nat, NEW findings \in [1..n -> Finding]
    PROVE  \E f \in [SUBSET (1..n) -> Books] : Rounds(f, n, book, findings)
<1> DEFINE step == [p \in Books \X Finding |-> Remember(p[1], p[2])]
<1>1. ASSUME NEW b \in Books, NEW f \in Finding PROVE Remember(b, f) \in Books
  BY RememberOne DEF Remembers
<1>2. step \in [Books \X Finding -> Books]
  BY <1>1
<1>3. \A i \in 1..n : findings[i] \in Finding
  OBVIOUS
<1>4. \A b \in Books, f \in Finding : step[b, f] = Remember(b, f)
  OBVIOUS
<1> HIDE DEF step
<1>5. PICK f \in [SUBSET (1..n) -> Books] : Folds(f, n, step, book, findings)
  <2>1. HasFold(Books, n, step, book, findings)
    BY <1>2, FoldExists
  <2> QED
    BY <2>1, Zenon DEF HasFold
<1>6. ASSUME NEW s \in SUBSET (1..n)
      PROVE  f[s] = IF s = {} THEN book ELSE Remember(f[s \ {Max(s)}], findings[Max(s)])
  <2>1. CASE s = {}
    BY <1>5, <2>1 DEF Folds
  <2>2. CASE s # {}
    <3>1. f[s] = step[f[s \ {Max(s)}], findings[Max(s)]]
      BY <1>5, <2>2 DEF Folds
    <3>2. Max(s) \in s
      <4>1. s \in SUBSET (0..n)
        OBVIOUS
      <4> QED
        BY <2>2, <4>1, MaxOfBounded
    <3>3. Max(s) \in 1..n /\ s \ {Max(s)} \in SUBSET (1..n)
      BY <3>2
    <3>4. findings[Max(s)] \in Finding /\ f[s \ {Max(s)}] \in Books
      BY <1>3, <3>3
    <3>5. step[f[s \ {Max(s)}], findings[Max(s)]]
            = Remember(f[s \ {Max(s)}], findings[Max(s)])
      BY <1>4, <3>4
    <3> QED
      BY <2>2, <3>1, <3>5
  <2> QED
    BY <2>1, <2>2
<1>7. f = [s \in SUBSET (1..n) |-> f[s]]
  OBVIOUS
<1>8. Rounds(f, n, book, findings)
  BY <1>6, <1>7 DEF Rounds
<1> QED
  BY <1>8

\* What masking a string leaves in the book.
RemembersAll(new, book, findings) ==
    /\ new \in Books
    /\ Continues(new, book)
    /\ \A i \in DOMAIN findings :
          findings[i].action = "mask" => findings[i].text \in DOMAIN new
    /\ \A o \in DOMAIN new :
          o \in DOMAIN book
          \/ \E i \in DOMAIN findings : findings[i].action = "mask" /\ o = findings[i].text

LEMMA RememberedAll ==
    ASSUME NEW book \in Books, NEW findings \in Seq(Finding)
    PROVE  RemembersAll(RememberAll(book, findings), book, findings)
<1>1. PICK n \in Nat : DOMAIN findings = 1..n /\ findings \in [1..n -> Finding]
  BY LenProperties
<1> DEFINE f == CHOOSE g : Rounds(g, n, book, findings)
<1>2. PICK g \in [SUBSET (1..n) -> Books] : Rounds(g, n, book, findings)
  BY <1>1, RoundsExist
<1>3. Rounds(f, n, book, findings)
  BY <1>2
<1>4. RememberAll(book, findings) = f[1..n]
  BY <1>1 DEF RememberAll, FoldLeft, MapThenFoldSet, Rounds
<1> HIDE DEF f
<1> DEFINE First(k) == /\ f[1..k] \in Books
                       /\ Continues(f[1..k], book)
                       /\ \A i \in 1..k : findings[i].action = "mask"
                                            => findings[i].text \in DOMAIN f[1..k]
                       /\ \A o \in DOMAIN f[1..k] :
                            o \in DOMAIN book
                            \/ \E i \in 1..k : findings[i].action = "mask"
                                               /\ o = findings[i].text
           Good == {k \in Nat : k <= n => First(k)}
<1>5. 0 \in Good
  <2>1. 1..0 = {} /\ 1..0 \in SUBSET (1..n)
    OBVIOUS
  <2>2. f[1..0] = book
    BY <1>3, <2>1 DEF Rounds
  <2>3. First(0)
    BY <2>1, <2>2 DEF Continues
  <2> QED
    BY <2>3
<1>6. ASSUME NEW k \in Nat, k \in Good PROVE k + 1 \in Good
  <2>1. SUFFICES ASSUME k + 1 <= n PROVE First(k + 1)
    OBVIOUS
  <2>2. First(k)
    BY <1>6, <2>1
  <2>3. Max(1..(k + 1)) = k + 1
    <3>1. 1..(k + 1) \in SUBSET (1..(k + 1)) /\ k + 1 \in 1..(k + 1)
      OBVIOUS
    <3> QED
      BY <3>1, MaxOfInterval
  <2>4. (1..(k + 1)) \ {k + 1} = 1..k /\ 1..(k + 1) \in SUBSET (1..n) /\ 1..(k + 1) # {}
    BY <2>1
  <2>5. f[1..(k + 1)] = Remember(f[1..k], findings[k + 1])
    <3>1. \A s \in SUBSET (1..n) :
            f[s] = IF s = {} THEN book ELSE Remember(f[s \ {Max(s)}], findings[Max(s)])
      BY <1>3, Zenon DEF Rounds
    <3>2. f[1..(k + 1)] = Remember(f[(1..(k + 1)) \ {Max(1..(k + 1))}],
                                   findings[Max(1..(k + 1))])
      BY <2>4, <3>1, Zenon
    <3> QED
      BY <2>3, <2>4, <3>2
  <2>6. Remembers(f[1..(k + 1)], f[1..k], findings[k + 1])
    <3>1. findings[k + 1] \in Finding
      BY <1>1, <2>1
    <3> QED
      BY <2>2, <2>5, <3>1, RememberOne
  <2>7. \A i \in 1..(k + 1) : i \in 1..k \/ i = k + 1
    OBVIOUS
  <2>8. 1..k \subseteq 1..(k + 1) /\ k + 1 \in 1..(k + 1)
    OBVIOUS
  <2>9. \A o \in DOMAIN f[1..(k + 1)] :
          o \in DOMAIN book
          \/ \E i \in 1..(k + 1) : findings[i].action = "mask" /\ o = findings[i].text
    <3>1. \A o \in DOMAIN f[1..(k + 1)] :
            \/ o \in DOMAIN f[1..k]
            \/ findings[k + 1].action = "mask" /\ o = findings[k + 1].text
      BY <2>6 DEF Remembers
    <3>2. \A o \in DOMAIN f[1..k] :
            o \in DOMAIN book
            \/ \E i \in 1..k : findings[i].action = "mask" /\ o = findings[i].text
      BY <2>2
    <3> QED
      BY <2>8, <3>1, <3>2
  <2> QED
    BY <2>2, <2>6, <2>7, <2>9 DEF Remembers, Continues
<1> HIDE DEF Good
<1>7. Nat \subseteq Good
  BY <1>5, <1>6, NatSetInduction
<1>8. First(n)
  BY <1>7 DEF Good
<1> QED
  BY <1>1, <1>4, <1>8 DEF RemembersAll

-----------------------------------------------------------------------------
(* Masked strings and the replacements in them                             *)

Atoms == Words \cup {Redacted} \cup Placeholder
Texts == Seq(Seq(Seq(Atoms)))

\* What counts as a replacement of an atom: itself, or nothing.
Only == [a \in Atoms |-> IF a = Redacted \/ a \in Placeholder THEN <<a>> ELSE <<>>]

LEMMA OnlyPuts == Puts(Only, Atoms, Atoms)
<1>1. ASSUME NEW a \in Atoms PROVE Only[a] \in Seq(Atoms)
  <2>1. <<a>> \in Seq(Atoms) /\ <<>> \in Seq(Atoms)
    OBVIOUS
  <2> QED
    BY <2>1 DEF Only
<1> QED
  BY <1>1 DEF Puts

LEMMA ReplacementsAre ==
    ASSUME NEW sent \in Texts
    PROVE  Replacements(sent) = Spread(Only, FlattenSeq(FlattenSeq(sent)))
<1> DEFINE atoms == FlattenSeq(FlattenSeq(sent))
<1>1. atoms \in Seq(Atoms)
  <2>1. FlattenSeq(sent) \in Seq(Seq(Atoms))
    BY FlattenType DEF Texts
  <2> QED
    BY <2>1, FlattenType
<1> HIDE DEF atoms
<1>2. \A i \in DOMAIN atoms : atoms[i] \in Atoms
  BY <1>1, LenProperties, ElementOfSeq
<1>3. [i \in DOMAIN atoms |-> IF atoms[i] = Redacted \/ atoms[i] \in Placeholder
                              THEN <<atoms[i]>> ELSE <<>>]
        = [i \in DOMAIN atoms |-> Only[atoms[i]]]
  BY <1>2 DEF Only
<1> QED
  BY <1>3 DEF Replacements, Spread, atoms

LEMMA NoReplacements == Replacements(<<>>) = <<>>
<1>1. FlattenSeq(FlattenSeq(<<>>)) = <<>>
  BY FlattenEmpty
<1>2. Spread(Only, <<>>) = <<>>
  BY SpreadEmpty
<1>3. <<>> \in Texts
  BY DEF Texts
<1> QED
  BY <1>1, <1>2, <1>3, ReplacementsAre

LEMMA ReplacementsAppend ==
    ASSUME NEW sent \in Texts, NEW string \in Seq(Seq(Atoms))
    PROVE  Replacements(Append(sent, string))
             = Replacements(sent) \o Spread(Only, FlattenSeq(string))
<1>1. Append(sent, string) \in Texts
  BY AppendProperties DEF Texts
<1>2. FlattenSeq(Append(sent, string)) = FlattenSeq(sent) \o string
  BY FlattenAppend DEF Texts
<1>3. FlattenSeq(sent) \in Seq(Seq(Atoms))
  BY FlattenType DEF Texts
<1>4. FlattenSeq(FlattenSeq(sent) \o string)
        = FlattenSeq(FlattenSeq(sent)) \o FlattenSeq(string)
  BY <1>3, FlattenConcat
<1>5. FlattenSeq(FlattenSeq(sent)) \in Seq(Atoms) /\ FlattenSeq(string) \in Seq(Atoms)
  BY <1>3, FlattenType
<1>6. Spread(Only, FlattenSeq(FlattenSeq(sent)) \o FlattenSeq(string))
        = Spread(Only, FlattenSeq(FlattenSeq(sent))) \o Spread(Only, FlattenSeq(string))
  BY <1>5, OnlyPuts, SpreadConcat
<1> QED
  BY <1>1, <1>2, <1>4, <1>6, ReplacementsAre

LEMMA WordsVanish ==
    ASSUME NEW t \in Seq(Words)
    PROVE  Spread(Only, t) = <<>>
<1> DEFINE Good == {u \in Seq(Words) : Spread(Only, u) = <<>>}
<1>1. <<>> \in Good
  BY SpreadEmpty, EmptySeq
<1>2. ASSUME NEW u \in Seq(Words), NEW w \in Words, u \in Good PROVE Append(u, w) \in Good
  <2>1. w \in Atoms /\ Only[w] = <<>>
    BY WordsAssumption DEF Only, Atoms
  <2>2. u \in Seq(Atoms)
    <3>1. Words \subseteq Atoms
      BY DEF Atoms
    <3> QED
      BY <3>1, SeqMonotonic
  <2>3. Spread(Only, Append(u, w)) = Spread(Only, u) \o Only[w]
    BY <2>1, <2>2, OnlyPuts, SpreadAppend, ZenonT(60)
  <2>4. <<>> \o <<>> = <<>>
    OBVIOUS
  <2>5. Append(u, w) \in Seq(Words)
    BY AppendProperties
  <2> QED
    BY <1>2, <2>1, <2>3, <2>4, <2>5
<1> HIDE DEF Good
<1>3. Seq(Words) \subseteq Good
  BY <1>1, <1>2, SeqInduction
<1> QED
  BY <1>3 DEF Good

LEMMA BodyFacts ==
    ASSUME NEW body \in Bodies
    PROVE  /\ body.strings \in Seq(Seq(Finding))
           /\ body.session \in Sessions
           /\ body.kind \in {"completion", "count_tokens"}
           /\ body.parses \in BOOLEAN
BY BodiesAssumption DEF Body

LEMMA ClearType ==
    ASSUME NEW string \in Seq(Finding)
    PROVE  Clear(string) \in Seq(Seq(Words))
<1>1. \A f \in Finding : f.slice \in Seq(Words)
  BY DEF Finding
<1>2. \A i \in DOMAIN string : string[i] \in Finding
  BY LenProperties, ElementOfSeq
<1>3. PICK n \in Nat : DOMAIN string = 1..n
  BY LenProperties
<1> QED
  BY <1>1, <1>2, <1>3 DEF Clear

LEMMA ClearBodyType ==
    ASSUME NEW body \in Bodies
    PROVE  ClearBody(body) \in Seq(Seq(Seq(Words)))
<1>1. PICK n \in Nat : DOMAIN body.strings = 1..n
  BY BodyFacts, LenProperties
<1>2. \A i \in DOMAIN body.strings : Clear(body.strings[i]) \in Seq(Seq(Words))
  <2>1. \A i \in DOMAIN body.strings : body.strings[i] \in Seq(Finding)
    BY BodyFacts, LenProperties, ElementOfSeq
  <2> QED
    BY <2>1, ClearType
<1> QED
  BY <1>1, <1>2 DEF ClearBody

LEMMA SeqsGrow == Seq(Seq(Seq(Words))) \subseteq Texts
<1>1. Words \subseteq Atoms
  BY DEF Atoms
<1>2. Seq(Words) \subseteq Seq(Atoms)
  BY <1>1, SeqMonotonic
<1>3. Seq(Seq(Words)) \subseteq Seq(Seq(Atoms))
  BY <1>2, SeqMonotonic
<1>4. Seq(Seq(Seq(Words))) \subseteq Seq(Seq(Seq(Atoms)))
  BY <1>3, SeqMonotonic
<1> QED
  BY <1>4 DEF Texts

LEMMA NothingReplacedInTheClear ==
    ASSUME NEW body \in Bodies
    PROVE  Replacements(ClearBody(body)) = <<>>
<1>1. ClearBody(body) \in Seq(Seq(Seq(Words)))
  BY ClearBodyType
<1>2. FlattenSeq(ClearBody(body)) \in Seq(Seq(Words))
  BY <1>1, FlattenType
<1>3. FlattenSeq(FlattenSeq(ClearBody(body))) \in Seq(Words)
  BY <1>2, FlattenType
<1>4. ClearBody(body) \in Texts
  BY <1>1, SeqsGrow
<1> QED
  BY <1>3, <1>4, WordsVanish, ReplacementsAre

\* The findings a book can replace.
Replaceable(book) == {f \in Finding : f.action = "redact" \/ f.text \in DOMAIN book}

LEMMA StandsType ==
    ASSUME NEW book \in Books, NEW f \in Replaceable(book)
    PROVE  Stands(book, f) \in Atoms
<1>1. f.action # "redact" => book[f.text] \in Placeholder
  BY BookFacts DEF Replaceable, GoodBook
<1> QED
  BY <1>1 DEF Stands, Atoms

\* The findings among which the detected ones can be replaced.
Handled(rt, book) == {f \in Finding : Detected(rt, f) => f \in Replaceable(book)}

\* What is found at a finding.
Pick(rt, book) == [f \in Handled(rt, book) |-> IF Detected(rt, f) THEN <<f>> ELSE <<>>]

LEMMA PickPuts ==
    ASSUME NEW rt, NEW book
    PROVE  Puts(Pick(rt, book), Handled(rt, book), Replaceable(book))
<1>1. ASSUME NEW f \in Handled(rt, book) PROVE Pick(rt, book)[f] \in Seq(Replaceable(book))
  <2>1. CASE Detected(rt, f)
    <3>1. f \in Replaceable(book) /\ Pick(rt, book)[f] = <<f>>
      BY <2>1 DEF Handled, Pick
    <3>2. <<f>> \in Seq(Replaceable(book))
      BY <3>1
    <3> QED
      BY <3>1, <3>2
  <2>2. CASE ~ Detected(rt, f)
    <3>1. Pick(rt, book)[f] = <<>>
      BY <2>2 DEF Pick
    <3> QED
      BY <3>1, EmptySeq
  <2> QED
    BY <2>1, <2>2
<1> QED
  BY <1>1 DEF Puts

LEMMA FoundIsSpread ==
    ASSUME NEW rt, NEW book, NEW string \in Seq(Handled(rt, book))
    PROVE  Found(rt, string) = Spread(Pick(rt, book), string)
<1>1. \A i \in DOMAIN string : string[i] \in Handled(rt, book)
  BY LenProperties, ElementOfSeq
<1>2. [i \in DOMAIN string |-> IF Detected(rt, string[i]) THEN <<string[i]>> ELSE <<>>]
        = [i \in DOMAIN string |-> Pick(rt, book)[string[i]]]
  BY <1>1 DEF Pick
<1> QED
  BY <1>2 DEF Found, Spread

\* Found gives findings of the string, all of them detected.
LEMMA FoundType ==
    ASSUME NEW rt, NEW string \in Seq(Finding)
    PROVE  Found(rt, string) \in Seq(Finding)
<1> DEFINE pick == [f \in Finding |-> IF Detected(rt, f) THEN <<f>> ELSE <<>>]
<1>1. ASSUME NEW f \in Finding PROVE pick[f] \in Seq(Finding)
  <2>1. <<f>> \in Seq(Finding) /\ <<>> \in Seq(Finding)
    OBVIOUS
  <2> QED
    BY <2>1
<1>2. Puts(pick, Finding, Finding)
  BY <1>1 DEF Puts
<1>3. \A i \in DOMAIN string : string[i] \in Finding
  BY LenProperties, ElementOfSeq
<1>4. [i \in DOMAIN string |-> IF Detected(rt, string[i]) THEN <<string[i]>> ELSE <<>>]
        = [i \in DOMAIN string |-> pick[string[i]]]
  BY <1>3
<1>5. Found(rt, string) = Spread(pick, string)
  BY <1>4 DEF Found, Spread
<1> HIDE DEF pick
<1> QED
  BY <1>2, <1>5, SpreadType

\* Every detected finding of a string is found.
LEMMA FoundAll ==
    ASSUME NEW rt, NEW string \in Seq(Finding)
    PROVE  \A i \in DOMAIN string : Detected(rt, string[i])
             => \E k \in DOMAIN Found(rt, string) : Found(rt, string)[k] = string[i]
<1> DEFINE Has(t, u) == \A i \in DOMAIN t : Detected(rt, t[i])
                           => \E k \in DOMAIN u : u[k] = t[i]
           Good == {t \in Seq(Finding) : Has(t, Found(rt, t))}
           pick == [f \in Finding |-> IF Detected(rt, f) THEN <<f>> ELSE <<>>]
<1>1. ASSUME NEW f \in Finding PROVE pick[f] \in Seq(Finding)
  <2>1. <<f>> \in Seq(Finding) /\ <<>> \in Seq(Finding)
    OBVIOUS
  <2> QED
    BY <2>1
<1>2. Puts(pick, Finding, Finding)
  BY <1>1 DEF Puts
<1>3. ASSUME NEW t \in Seq(Finding) PROVE Found(rt, t) = Spread(pick, t)
  <2>1. \A i \in DOMAIN t : t[i] \in Finding
    BY LenProperties, ElementOfSeq
  <2>2. [i \in DOMAIN t |-> IF Detected(rt, t[i]) THEN <<t[i]>> ELSE <<>>]
          = [i \in DOMAIN t |-> pick[t[i]]]
    BY <2>1
  <2> QED
    BY <2>2 DEF Found, Spread
<1>4. \A f \in Finding : Detected(rt, f) => pick[f] = <<f>>
  OBVIOUS
<1>5. \A f \in Finding : ~ Detected(rt, f) => pick[f] = <<>>
  OBVIOUS
<1> HIDE DEF pick
<1>6. <<>> \in Good
  OBVIOUS
<1>7. ASSUME NEW t \in Seq(Finding), NEW f \in Finding, t \in Good PROVE Append(t, f) \in Good
  <2> DEFINE u == Found(rt, t)
             v == Found(rt, Append(t, f))
             n == Len(t)
  <2>1. /\ n \in Nat /\ DOMAIN t = 1..n /\ DOMAIN Append(t, f) = 1..n + 1
        /\ Append(t, f)[n + 1] = f /\ \A i \in 1..n : Append(t, f)[i] = t[i]
        /\ Append(t, f) \in Seq(Finding)
    BY AppendProperties, LenProperties
  <2>2. v = u \o pick[f]
    <3>1. Spread(pick, Append(t, f)) = Spread(pick, t) \o pick[f]
      BY <1>2, SpreadAppend
    <3> QED
      BY <1>3, <2>1, <3>1
  <2>3. u \in Seq(Finding)
    BY FoundType
  <2> HIDE DEF u, v, n
  <2>4. Has(t, u)
    BY <1>7 DEF u
  <2>5. CASE Detected(rt, f)
    <3>1. v = u \o <<f>>
      BY <1>4, <2>2, <2>5
    <3>2. v = Append(u, f)
      BY <2>3, <3>1, AppendIsConcat
    <3>3. /\ DOMAIN u = 1..Len(u) /\ DOMAIN v = 1..Len(u) + 1 /\ Len(u) \in Nat
          /\ v[Len(u) + 1] = f /\ \A k \in 1..Len(u) : v[k] = u[k]
      BY <2>3, <3>2, AppendProperties, LenProperties
    <3>4. ASSUME NEW i \in 1..n + 1, Detected(rt, Append(t, f)[i])
          PROVE  \E k \in DOMAIN v : v[k] = Append(t, f)[i]
      <4>1. CASE i = n + 1
        BY <2>1, <3>3, <4>1
      <4>2. CASE i # n + 1
        <5>1. i \in 1..n /\ Append(t, f)[i] = t[i]
          BY <2>1, <4>2
        <5>2. PICK k \in DOMAIN u : u[k] = t[i]
          BY <2>1, <2>4, <3>4, <5>1
        <5> QED
          BY <3>3, <5>1, <5>2
      <4> QED
        BY <4>1, <4>2
    <3>5. Has(Append(t, f), v)
      BY <2>1, <3>4
    <3> QED
      BY <2>1, <3>5 DEF v
  <2>6. CASE ~ Detected(rt, f)
    <3>1. v = u
      <4>1. v = u \o <<>>
        BY <1>5, <2>2, <2>6
      <4> QED
        BY <2>3, <4>1, ConcatEmptySeq
    <3>2. ASSUME NEW i \in 1..n + 1, Detected(rt, Append(t, f)[i])
          PROVE  i \in 1..n /\ Append(t, f)[i] = t[i]
      BY <2>1, <2>6, <3>2
    <3>3. Has(Append(t, f), v)
      BY <2>1, <2>4, <3>1, <3>2
    <3> QED
      BY <2>1, <3>3 DEF v
  <2> QED
    BY <2>5, <2>6
<1> HIDE DEF Good
<1>8. Seq(Finding) \subseteq Good
  BY <1>6, <1>7, SeqInduction
<1> QED
  BY <1>8 DEF Good

\* Once its findings are remembered, a string can be masked.
LEMMA StringHandled ==
    ASSUME NEW rt, NEW book \in Books, NEW string \in Seq(Finding)
    PROVE  string \in Seq(Handled(rt, RememberAll(book, Found(rt, string))))
<1> DEFINE found == Found(rt, string)
           new == RememberAll(book, found)
<1>1. found \in Seq(Finding)
  BY FoundType
<1>2. RemembersAll(new, book, found)
  BY <1>1, RememberedAll
<1>3. \A i \in DOMAIN string : Detected(rt, string[i])
        => \E k \in DOMAIN found : found[k] = string[i]
  BY FoundAll
<1> HIDE DEF found, new
<1>4. \A f \in Finding : f.action \in {"mask", "redact"}
  BY DEF Finding
<1>5. PICK n \in Nat : string \in [1..n -> Finding]
  BY LenProperties
<1>6. ASSUME NEW i \in 1..n PROVE string[i] \in Handled(rt, new)
  <2>1. string[i] \in Finding
    BY <1>5
  <2>2. ASSUME Detected(rt, string[i]) PROVE string[i] \in Replaceable(new)
    <3>1. PICK k \in DOMAIN found : found[k] = string[i]
      BY <1>3, <1>5, <2>2
    <3> QED
      BY <1>2, <1>4, <2>1, <3>1 DEF RemembersAll, Replaceable
  <2> QED
    BY <2>1, <2>2 DEF Handled
<1>7. string \in [1..n -> Handled(rt, new)]
  BY <1>5, <1>6
<1> QED
  BY <1>7 DEF new, found

\* What a finding shows as: what stands for it, or its own slice.
Shown(rt, book, f) == IF Detected(rt, f) THEN <<Stands(book, f)>> ELSE f.slice

LEMMA ShownType ==
    ASSUME NEW rt, NEW book \in Books, NEW f \in Handled(rt, book)
    PROVE  Shown(rt, book, f) \in Seq(Atoms)
<1>1. CASE Detected(rt, f)
  <2>1. f \in Replaceable(book)
    BY <1>1 DEF Handled
  <2>2. Stands(book, f) \in Atoms
    BY <2>1, StandsType
  <2>3. <<Stands(book, f)>> \in Seq(Atoms)
    BY <2>2
  <2> QED
    BY <1>1, <2>3 DEF Shown
<1>2. CASE ~ Detected(rt, f)
  <2>1. f.slice \in Seq(Words)
    BY DEF Handled, Finding
  <2>2. Words \subseteq Atoms
    BY DEF Atoms
  <2>3. f.slice \in Seq(Atoms)
    BY <2>1, <2>2, SeqMonotonic
  <2> QED
    BY <1>2, <2>3 DEF Shown
<1> QED
  BY <1>1, <1>2

LEMMA MaskedStringType ==
    ASSUME NEW rt, NEW book \in Books, NEW string \in Seq(Handled(rt, book))
    PROVE  MaskedString(rt, book, string) \in Seq(Seq(Atoms))
<1>1. \A i \in DOMAIN string : string[i] \in Handled(rt, book)
  BY LenProperties, ElementOfSeq
<1>2. PICK n \in Nat : DOMAIN string = 1..n
  BY LenProperties
<1>3. \A i \in 1..n : Shown(rt, book, string[i]) \in Seq(Atoms)
  BY <1>1, <1>2, ShownType
<1>4. MaskedString(rt, book, string) = [i \in 1..n |-> Shown(rt, book, string[i])]
  BY <1>2 DEF MaskedString, Shown
<1> QED
  BY <1>3, <1>4

LEMMA OnlyOfShown ==
    ASSUME NEW rt, NEW book \in Books, NEW f \in Handled(rt, book)
    PROVE  Spread(Only, Shown(rt, book, f))
             = IF Detected(rt, f) THEN <<Stands(book, f)>> ELSE <<>>
<1>1. CASE Detected(rt, f)
  <2>1. f \in Replaceable(book)
    BY <1>1 DEF Handled
  <2>2. Stands(book, f) \in Atoms
    BY <2>1, StandsType
  <2>3. Stands(book, f) = Redacted \/ Stands(book, f) \in Placeholder
    BY <2>1, BookFacts DEF Stands, Replaceable, GoodBook
  <2>4. Only[Stands(book, f)] = <<Stands(book, f)>>
    BY <2>2, <2>3 DEF Only
  <2>5. Spread(Only, <<Stands(book, f)>>) = Only[Stands(book, f)]
    BY <2>2, OnlyPuts, SpreadOne
  <2> QED
    BY <1>1, <2>4, <2>5 DEF Shown
<1>2. CASE ~ Detected(rt, f)
  <2>1. f.slice \in Seq(Words)
    BY DEF Handled, Finding
  <2>2. Spread(Only, f.slice) = <<>>
    BY <2>1, WordsVanish
  <2> QED
    BY <1>2, <2>2 DEF Shown
<1> QED
  BY <1>1, <1>2

\* What is put for each finding when its string is masked.
EventOf(rt, book) ==
    [f \in Handled(rt, book) |-> IF Detected(rt, f) THEN <<Stands(book, f)>> ELSE <<>>]

\* The events of a string are the replacements in the masked string, in order.
LEMMA EventsAreReplacements ==
    ASSUME NEW rt, NEW book \in Books, NEW string \in Seq(Handled(rt, book))
    PROVE  Events(rt, book, string)
             = Spread(Only, FlattenSeq(MaskedString(rt, book, string)))
<1> DEFINE H == Handled(rt, book)
           R == Replaceable(book)
           masked == MaskedString(rt, book, string)
           found == Found(rt, string)
           stands == [f \in R |-> Stands(book, f)]
           puts == [f \in R |-> <<Stands(book, f)>>]
<1>1. Spread(Only, FlattenSeq(masked)) = Spread(EventOf(rt, book), string)
  <2>1. Spread(Only, FlattenSeq(masked))
          = FlattenSeq([i \in DOMAIN masked |-> Spread(Only, masked[i])])
    BY OnlyPuts, MaskedStringType, SpreadFlatten DEF EachSpread
  <2>2. \A i \in DOMAIN string : string[i] \in H
    BY LenProperties, ElementOfSeq
  <2>3. DOMAIN masked = DOMAIN string
        /\ \A i \in DOMAIN string : masked[i] = Shown(rt, book, string[i])
    BY DEF MaskedString, Shown
  <2> HIDE DEF masked
  <2>4. \A i \in DOMAIN string : Spread(Only, masked[i]) = EventOf(rt, book)[string[i]]
    <3>1. \A f \in H : Spread(Only, Shown(rt, book, f)) = EventOf(rt, book)[f]
      BY OnlyOfShown DEF EventOf
    <3> QED
      BY <2>2, <2>3, <3>1
  <2>5. [i \in DOMAIN masked |-> Spread(Only, masked[i])]
          = [i \in DOMAIN string |-> EventOf(rt, book)[string[i]]]
    BY <2>3, <2>4
  <2> QED
    BY <2>1, <2>5 DEF Spread
<1>2. Puts(puts, R, Atoms)
  <2>1. ASSUME NEW f \in R PROVE puts[f] \in Seq(Atoms)
    <3>1. Stands(book, f) \in Atoms
      BY StandsType
    <3>2. <<Stands(book, f)>> \in Seq(Atoms)
      BY <3>1
    <3> QED
      BY <3>2
  <2> QED
    BY <2>1 DEF Puts
<1>3. found = Spread(Pick(rt, book), string)
  BY FoundIsSpread
<1>4. found \in Seq(R)
  <2>1. Spread(Pick(rt, book), string) \in Seq(R)
    BY PickPuts, SpreadType
  <2> QED
    BY <1>3, <2>1
<1>5. Singles(puts, stands, R, Atoms)
  BY StandsType DEF Singles
<1>6. \A i \in DOMAIN found : stands[found[i]] = Stands(book, found[i])
  <2>1. \A i \in DOMAIN found : found[i] \in R
    BY <1>4, LenProperties, ElementOfSeq
  <2> QED
    BY <2>1
<1> HIDE DEF puts, stands
<1>7. Renamed(stands, found) = Spread(puts, found)
  <2> HIDE DEF R, found
  <2> QED
    BY <1>4, <1>5, SpreadSingles
<1>8. Events(rt, book, string) = Spread(puts, found)
  BY <1>6, <1>7 DEF Events, Renamed
<1>9. \A f \in H : EventOf(rt, book)[f] = Spread(puts, Pick(rt, book)[f])
  <2>1. ASSUME NEW f \in H, Detected(rt, f)
        PROVE  EventOf(rt, book)[f] = Spread(puts, Pick(rt, book)[f])
    <3>1. f \in R
      BY <2>1 DEF Handled
    <3>2. Pick(rt, book)[f] = <<f>> /\ EventOf(rt, book)[f] = <<Stands(book, f)>>
      BY <2>1 DEF Pick, EventOf
    <3>3. Spread(puts, <<f>>) = puts[f]
      BY <1>2, <3>1, SpreadOne
    <3> QED
      BY <3>1, <3>2, <3>3 DEF puts
  <2>2. ASSUME NEW f \in H, ~ Detected(rt, f)
        PROVE  EventOf(rt, book)[f] = Spread(puts, Pick(rt, book)[f])
    <3>1. Pick(rt, book)[f] = <<>> /\ EventOf(rt, book)[f] = <<>>
      BY <2>2 DEF Pick, EventOf
    <3> QED
      BY <3>1, SpreadEmpty
  <2> QED
    BY <2>1, <2>2
<1>10. Spread(puts, Spread(Pick(rt, book), string)) = Spread(EventOf(rt, book), string)
  BY <1>2, <1>9, PickPuts, SpreadSpread
<1> QED
  BY <1>1, <1>3, <1>8, <1>10

\* What a place in a body that was masked may hold: what the client wrote, or what
\* stands for it.
Reads(book, piece, f) ==
    \/ piece = f.slice
    \/ piece = <<Redacted>>
    \/ f.text \in DOMAIN book /\ piece = <<book[f.text]>>

Follows(book, masked, string) ==
    /\ DOMAIN masked = DOMAIN string
    /\ \A j \in DOMAIN string : Reads(book, masked[j], string[j])

Faithful(book, out, strings) ==
    /\ Len(out) <= Len(strings)
    /\ \A i \in DOMAIN out : Follows(book, out[i], strings[i])

LEMMA MaskedStringFollows ==
    ASSUME NEW rt, NEW book, NEW string \in Seq(Handled(rt, book))
    PROVE  Follows(book, MaskedString(rt, book, string), string)
<1>1. \A j \in DOMAIN string : string[j] \in Handled(rt, book)
  BY LenProperties, ElementOfSeq
<1>2. ASSUME NEW j \in DOMAIN string
      PROVE  Reads(book, MaskedString(rt, book, string)[j], string[j])
  BY <1>1 DEF MaskedString, Reads, Stands, Handled, Replaceable
<1> QED
  BY <1>2 DEF Follows, MaskedString

LEMMA FaithfulContinues ==
    ASSUME NEW new, NEW book, Continues(new, book), NEW out, NEW strings,
           Faithful(book, out, strings)
    PROVE  Faithful(new, out, strings)
BY DEF Faithful, Follows, Reads, Continues

LEMMA FaithfulAppend ==
    ASSUME NEW book, NEW out \in Texts, NEW strings \in Seq(Seq(Finding)),
           Faithful(book, out, strings), Len(out) < Len(strings),
           NEW masked \in Seq(Seq(Atoms)),
           Follows(book, masked, strings[Len(out) + 1])
    PROVE  Faithful(book, Append(out, masked), strings)
<1>1. /\ Len(out) \in Nat /\ Len(strings) \in Nat
      /\ Len(Append(out, masked)) = Len(out) + 1
      /\ DOMAIN Append(out, masked) = 1..Len(out) + 1
      /\ DOMAIN out = 1..Len(out)
      /\ Append(out, masked)[Len(out) + 1] = masked
      /\ \A i \in 1..Len(out) : Append(out, masked)[i] = out[i]
  BY AppendProperties, LenProperties DEF Texts
<1>2. \A i \in 1..Len(out) + 1 : i \in 1..Len(out) \/ i = Len(out) + 1
  BY <1>1
<1>3. ASSUME NEW i \in 1..Len(out) + 1
      PROVE  Follows(book, Append(out, masked)[i], strings[i])
  <2>1. CASE i = Len(out) + 1
    BY <1>1, <2>1
  <2>2. CASE i \in 1..Len(out)
    BY <1>1, <2>2 DEF Faithful
  <2> QED
    BY <1>2, <2>1, <2>2
<1> QED
  BY <1>1, <1>3 DEF Faithful

LEMMA ClearIsFaithful ==
    ASSUME NEW book, NEW body \in Bodies
    PROVE  Faithful(book, ClearBody(body), body.strings)
<1>1. body.strings \in Seq(Seq(Finding))
  BY BodyFacts
<1>2. Len(ClearBody(body)) = Len(body.strings)
      /\ DOMAIN ClearBody(body) = DOMAIN body.strings
  BY <1>1, LenProperties DEF ClearBody
<1>3. Len(body.strings) \in Nat
  BY <1>1, LenProperties
<1>4. \A i \in DOMAIN ClearBody(body) : Follows(book, ClearBody(body)[i], body.strings[i])
  BY <1>2 DEF ClearBody, Clear, Follows, Reads
<1> QED
  BY <1>2, <1>3, <1>4 DEF Faithful

-----------------------------------------------------------------------------
(* What the tool reads back                                                *)

LEMMA TextsFacts ==
    ASSUME NEW sent \in Texts, NEW i \in DOMAIN sent
    PROVE  /\ sent[i] \in Seq(Seq(Atoms))
           /\ \A j \in DOMAIN sent[i] : sent[i][j] \in Seq(Atoms)
<1>1. sent[i] \in Seq(Seq(Atoms))
  BY LenProperties, ElementOfSeq DEF Texts
<1>2. \A j \in DOMAIN sent[i] : sent[i][j] \in Seq(Atoms)
  BY <1>1, LenProperties, ElementOfSeq
<1> QED
  BY <1>1, <1>2

\* The one text rehydrate gives for a piece of a body.
Restored(book, piece) == Spread(Back(book, DOMAIN book, Atoms), piece)

LEMMA BackFacts ==
    ASSUME NEW book \in Books
    PROVE  Puts(Back(book, DOMAIN book, Atoms), Atoms, Atoms)
<1>1. GoodBook(book, Words, Placeholder) /\ Words \subseteq Atoms
  BY BookFacts DEF Atoms
<1> QED
  BY <1>1, BackPuts

\* rehydrate gives one text, whatever the order it takes the pairs in.
LEMMA RehydratesTo ==
    ASSUME NEW book, GoodBook(book, Words, Placeholder), NEW text \in Seq(Atoms)
    PROVE  Rehydrations(book, text) = {Spread(Back(book, DOMAIN book, Atoms), text)}
<1> DEFINE width == [o \in DOMAIN book |-> Width(book[o])]
<1>1. ASSUME NEW ph \in Placeholder PROVE Width(ph) \in Nat
  <2> DEFINE T == {d \in 1..ph.n : 10^(d - 1) <= ph.n}
  <2>1. ph.label \in Labels /\ ph.n \in Nat
    BY DEF Placeholder
  <2>2. LabelWidth[ph.label] \in Nat
    BY <2>1, WidthAssumption
  <2>3. T \in SUBSET (1..ph.n)
    OBVIOUS
  <2> HIDE DEF T
  <2>4. Cardinality(T) \in Nat
    BY <2>1, <2>3, CountType
  <2>5. Digits(ph.n) \in Nat
    BY <2>4 DEF Digits, T
  <2> QED
    BY <2>2, <2>5 DEF Width
<1>2. \A o \in DOMAIN book : width[o] \in Nat
  BY <1>1 DEF GoodBook
<1> HIDE DEF width
<1>3. Words \subseteq Atoms /\ Placeholder \subseteq Atoms
  BY DEF Atoms
<1>4. RehydrationsBy(width, book, text) = {Spread(Back(book, DOMAIN book, Atoms), text)}
  BY <1>2, <1>3, RehydrationsAre
<1> QED
  BY <1>4 DEF Rehydrations, width

LEMMA RestoredIs ==
    ASSUME NEW book \in Books, NEW piece \in Seq(Atoms)
    PROVE  (CHOOSE t \in Rehydrations(book, piece) : TRUE) = Restored(book, piece)
<1>1. GoodBook(book, Words, Placeholder) /\ Words \subseteq Atoms /\ Placeholder \subseteq Atoms
  BY BookFacts DEF Atoms
<1>2. Rehydrations(book, piece) = {Restored(book, piece)}
  <2>1. Rehydrations(book, piece) = {Spread(Back(book, DOMAIN book, Atoms), piece)}
    BY <1>1, RehydratesTo
  <2> QED
    BY <2>1 DEF Restored
<1> QED
  BY <1>2

LEMMA RehydratedType ==
    ASSUME NEW book \in Books, NEW sent \in Texts
    PROVE  Rehydrated(book, sent) \in Texts
<1>1. PICK n \in Nat : DOMAIN sent = 1..n
  BY LenProperties DEF Texts
<1>2. ASSUME NEW i \in DOMAIN sent
      PROVE  [j \in DOMAIN sent[i] |-> CHOOSE t \in Rehydrations(book, sent[i][j]) : TRUE]
               \in Seq(Seq(Atoms))
  <2>1. sent[i] \in Seq(Seq(Atoms)) /\ \A j \in DOMAIN sent[i] : sent[i][j] \in Seq(Atoms)
    BY TextsFacts
  <2>2. \A j \in DOMAIN sent[i] :
          (CHOOSE t \in Rehydrations(book, sent[i][j]) : TRUE) \in Seq(Atoms)
    <3>1. ASSUME NEW j \in DOMAIN sent[i]
          PROVE  (CHOOSE t \in Rehydrations(book, sent[i][j]) : TRUE) \in Seq(Atoms)
      <4>1. sent[i][j] \in Seq(Atoms)
        BY <2>1
      <4>2. Restored(book, sent[i][j]) \in Seq(Atoms)
        BY <4>1, BackFacts, SpreadType DEF Restored
      <4>3. (CHOOSE t \in Rehydrations(book, sent[i][j]) : TRUE)
              = Restored(book, sent[i][j])
        BY <4>1, RestoredIs
      <4> QED
        BY <4>2, <4>3
    <3> QED
      BY <3>1
  <2>3. PICK m \in Nat : DOMAIN sent[i] = 1..m
    BY <2>1, LenProperties
  <2> QED
    BY <2>2, <2>3
<1> DEFINE row(i) == [j \in DOMAIN sent[i] |-> CHOOSE t \in Rehydrations(book, sent[i][j]) : TRUE]
<1>3. Rehydrated(book, sent) = [i \in 1..n |-> row(i)]
  BY <1>1 DEF Rehydrated
<1>4. \A i \in 1..n : row(i) \in Seq(Seq(Atoms))
  BY <1>1, <1>2
<1> HIDE DEF row
<1>5. [i \in 1..n |-> row(i)] \in Seq(Seq(Seq(Atoms)))
  BY <1>4
<1> QED
  BY <1>3, <1>5 DEF Texts

LEMMA RestoredReads ==
    ASSUME NEW book \in Books, NEW f \in Finding, NEW piece, Reads(book, piece, f)
    PROVE  Restored(book, piece) = Legible(piece, f)
<1> DEFINE back == Back(book, DOMAIN book, Atoms)
<1>1. GoodBook(book, Words, Placeholder) /\ Words \subseteq Atoms /\ Puts(back, Atoms, Atoms)
  BY BookFacts, BackFacts DEF Atoms
<1>2. \A o \in DOMAIN book : book[o] \in Placeholder
  BY <1>1 DEF GoodBook
<1>3. CASE piece = <<Redacted>>
  <2>1. Redacted \in Atoms /\ ~ \E o \in DOMAIN book : book[o] = Redacted
    BY <1>2, RedactedAssumption DEF Atoms
  <2>2. back[Redacted] = <<Redacted>>
    BY <2>1, BackOfOther
  <2>3. Spread(back, <<Redacted>>) = back[Redacted]
    BY <1>1, <2>1, SpreadOne
  <2> QED
    BY <1>3, <2>2, <2>3 DEF Restored, Legible
<1>4. CASE piece # <<Redacted>> /\ piece = f.slice
  <2>1. f.slice \in Seq(Words)
    BY DEF Finding
  <2>2. ASSUME NEW w \in Words PROVE back[w] = <<w>>
    <3>1. w \in Atoms /\ ~ \E o \in DOMAIN book : book[o] = w
      BY <1>2, WordsAssumption DEF Atoms
    <3> QED
      BY <3>1, BackOfOther
  <2> HIDE DEF back
  <2>3. Spread(back, f.slice) = f.slice
    BY <2>1, <2>2, SpreadNothing
  <2> QED
    BY <1>4, <2>3 DEF Restored, back, Legible
<1>5. CASE piece # <<Redacted>> /\ piece # f.slice /\ f.text \in DOMAIN book /\ piece = <<book[f.text]>>
  <2>1. book[f.text] \in Atoms
    BY <1>2, <1>5 DEF Atoms
  <2>2. back[book[f.text]] = f.text
    BY <1>1, <1>5, <2>1, BackOfPlaceholder
  <2>3. Spread(back, <<book[f.text]>>) = back[book[f.text]]
    BY <1>1, <2>1, SpreadOne
  <2>4. f.text = DetectedText(f)
    BY DEF Finding
  <2> QED
    BY <1>5, <2>2, <2>3, <2>4 DEF Restored, Legible
<1> QED
  BY <1>3, <1>4, <1>5 DEF Reads

\* What AnswerReadable says an answer to sent is.
ReadBack(sent, strings) ==
    [i \in DOMAIN sent |-> [j \in DOMAIN sent[i] |->
        Legible(sent[i][j], strings[i][j])]]

\* A body that is faithful to what the client wrote is rehydrated to it.
LEMMA RehydratedReads ==
    ASSUME NEW book \in Books, NEW sent \in Texts, NEW strings \in Seq(Seq(Finding)),
           Faithful(book, sent, strings)
    PROVE  Rehydrated(book, sent) = ReadBack(sent, strings)
<1>1. ASSUME NEW i \in DOMAIN sent, NEW j \in DOMAIN sent[i]
      PROVE  (CHOOSE t \in Rehydrations(book, sent[i][j]) : TRUE)
               = Legible(sent[i][j], strings[i][j])
  <2>1. sent[i][j] \in Seq(Atoms)
    BY TextsFacts
  <2>2. /\ i \in DOMAIN strings
        /\ Follows(book, sent[i], strings[i])
    BY LenProperties DEF Texts, Faithful
  <2>3. strings[i] \in Seq(Finding)
    BY <2>2, LenProperties, ElementOfSeq
  <2>4. j \in DOMAIN strings[i] /\ Reads(book, sent[i][j], strings[i][j])
    BY <2>2 DEF Follows
  <2>5. strings[i][j] \in Finding
    BY <2>3, <2>4, LenProperties, ElementOfSeq
  <2>6. Restored(book, sent[i][j])
          = Legible(sent[i][j], strings[i][j])
    BY <2>4, <2>5, RestoredReads
  <2>7. (CHOOSE t \in Rehydrations(book, sent[i][j]) : TRUE) = Restored(book, sent[i][j])
    BY <2>1, RestoredIs
  <2> QED
    BY <2>6, <2>7
<1> QED
  BY <1>1 DEF Rehydrated, ReadBack

\* A body that was not masked reads as it is.
LEMMA ClearReads ==
    ASSUME NEW body \in Bodies
    PROVE  ClearBody(body) = ReadBack(ClearBody(body), body.strings)
BY DEF ReadBack, ClearBody, Clear, Legible

-----------------------------------------------------------------------------
(* The invariant                                                           *)

\* What a request's status may show: 503 is the gate's.
Shows == Statuses \cup {0, 503}

Request ==
    [at : {"new", "gate", "mask", "record", "forward", "await", "done", "gone"},
     body : Bodies \cup {NoBody}, out : Texts, events : Seq(Atoms),
     serialized : BOOLEAN, sent : Seq(Texts), status : Shows,
     answer : Texts]

Masked(q) == q.serialized /\ (q.out # ClearBody(q.body) \/ ~ q.body.canonical)

Active == {"gate", "mask", "record", "forward", "await"}

\* A request that is being handled: what it holds is faithful to what the client
\* wrote, and its events are the replacements in it.
InHand(q, book) ==
    /\ Faithful(book, q.out, q.body.strings)
    /\ q.events = Replacements(q.out)
    /\ ~ q.body.parses => q.at # "mask" /\ q.out = ClearBody(q.body)
    /\ q.at = "gate" => q.out = ClearBody(q.body)
    /\ q.at # "record" => q.status = 0

\* What was sent of a request that is being handled.  Only a serialised body is
\* retried, and the retry is not.
Sent(q) ==
    /\ q.at \in {"gate", "mask"} => q.sent = <<>>
    /\ q.at = "forward" => q.sent = <<>> \/ (Len(q.sent) = 1 /\ ~ q.serialized)
    /\ q.at = "await" => /\ Len(q.sent) = 1 \/ (Len(q.sent) = 2 /\ ~ q.serialized)
                         /\ Last(q.sent) = q.out
    /\ q.at = "record" => IF q.body.kind = "completion"
                          THEN Len(q.sent) \in {1, 2} /\ Last(q.sent) = q.out
                          ELSE q.sent = <<>> /\ q.status = 0

\* What holds of a request at any time.
Answered(q) ==
    /\ Len(q.sent) \in {0, 1, 2}
    /\ q.status = 200 /\ q.body.kind = "completion"
          => q.answer = ReadBack(Last(q.sent), q.body.strings)

Sound(q, bks) ==
    /\ q.at = "new" => q = NoRequest
    /\ q.at # "new" => q.body \in Bodies /\ Answered(q)
    /\ q.at \in Active => InHand(q, bks[q.body.session]) /\ Sent(q)

Entry == [request : Requests, kind : {"completion", "count_tokens"},
          events : Seq(Atoms), packs : SUBSET Packs]

\* An entry of a completion is about a request that is done, and tells what the
\* upstream had last.
Told(entry, rq) ==
    entry.kind = "completion" =>
        /\ rq[entry.request].at = "done"
        /\ entry.events = Replacements(Last(rq[entry.request].sent))

AdminState == [at : {"idle", "cleared"}] \cup [at : {"saved"}, packs : SUBSET Toggleable]
Runtime == [packs : SUBSET Packs, ner : {"none", "absent", "ready", "poisoned"}]
Counters == [{"requests", "masked", "redacted", "errors"} -> Nat]

RunInv ==
    /\ runtime \in Runtime
    /\ config \in {StartPacks} \cup SUBSET Toggleable
    /\ admin \in [Admins -> AdminState]
    /\ stats \in Counters

RequestInv ==
    /\ books \in [Sessions -> Books]
    /\ req \in [Requests -> Request]
    /\ \A r \in Requests : Sound(req[r], books)

LedgerInv ==
    /\ ledger \in Seq(Entry)
    /\ \A i \in DOMAIN ledger : Told(ledger[i], req)

Inv == RunInv /\ RequestInv /\ LedgerInv

-----------------------------------------------------------------------------
(* Steps                                                                   *)

LEMMA ContinuesItself == \A book : Continues(book, book)
BY DEF Continues

LEMMA SoundContinues ==
    ASSUME NEW q, NEW bks, NEW bks2, Sound(q, bks),
           \A s \in Sessions : Continues(bks2[s], bks[s])
    PROVE  Sound(q, bks2)
<1>1. CASE q.at \in Active
  <2>1. q.body \in Bodies
    BY <1>1 DEF Sound, Active
  <2>2. Continues(bks2[q.body.session], bks[q.body.session])
    BY <2>1, BodyFacts
  <2>3. InHand(q, bks2[q.body.session])
    BY <1>1, <2>2, FaithfulContinues DEF Sound, InHand
  <2> QED
    BY <1>1, <2>3 DEF Sound
<1>2. CASE q.at \notin Active
  BY <1>2 DEF Sound
<1> QED
  BY <1>1, <1>2

\* A step of one request.
LEMMA RequestStep ==
    ASSUME RequestInv, NEW r \in Requests, NEW q \in Request,
           req' = [req EXCEPT ![r] = q],
           books' \in [Sessions -> Books],
           \A s \in Sessions : Continues(books'[s], books[s]),
           Sound(q, books')
    PROVE  RequestInv'
<1>1. req' \in [Requests -> Request]
  BY DEF RequestInv
<1>2. ASSUME NEW p \in Requests PROVE Sound(req'[p], books')
  <2>1. CASE p = r
    BY <2>1 DEF RequestInv
  <2>2. CASE p # r
    <3>1. req'[p] = req[p] /\ Sound(req[p], books)
      BY <2>2 DEF RequestInv
    <3> QED
      BY <3>1, SoundContinues
  <2> QED
    BY <2>1, <2>2
<1> QED
  BY <1>1, <1>2 DEF RequestInv

LEMMA RequestStepSameBooks ==
    ASSUME RequestInv, NEW r \in Requests, NEW q \in Request,
           req' = [req EXCEPT ![r] = q], books' = books, Sound(q, books)
    PROVE  RequestInv'
<1>1. books' \in [Sessions -> Books] /\ \A s \in Sessions : Continues(books'[s], books[s])
  BY ContinuesItself DEF RequestInv
<1>2. Sound(q, books')
  OBVIOUS
<1> QED
  BY <1>1, <1>2, RequestStep

\* What the ledger tells stays true when a request that is not done takes a step.
LEMMA ToldStays ==
    ASSUME LedgerInv, NEW r \in Requests, req[r].at # "done",
           \A p \in Requests : p # r => req'[p] = req[p], NEW i \in DOMAIN ledger
    PROVE  Told(ledger[i], req')
<1>1. Told(ledger[i], req) /\ ledger[i] \in Entry
  BY LenProperties, ElementOfSeq DEF LedgerInv
<1>2. ledger[i].request \in Requests
  BY <1>1 DEF Entry
<1>3. CASE ledger[i].kind = "completion"
  <2>1. ledger[i].request # r
    BY <1>1, <1>3 DEF Told
  <2>2. req'[ledger[i].request] = req[ledger[i].request]
    BY <1>2, <2>1
  <2> QED
    BY <1>1, <2>2 DEF Told
<1>4. CASE ledger[i].kind # "completion"
  BY <1>4 DEF Told
<1> QED
  BY <1>3, <1>4

LEMMA LedgerStays ==
    ASSUME LedgerInv, NEW r \in Requests, req[r].at # "done",
           \A p \in Requests : p # r => req'[p] = req[p], ledger' = ledger
    PROVE  LedgerInv'
<1>1. \A i \in DOMAIN ledger : Told(ledger[i], req')
  BY ToldStays
<1> QED
  BY <1>1 DEF LedgerInv

LEMMA Counting ==
    ASSUME stats \in Counters, NEW fields, \A f \in DOMAIN fields : fields[f] \in Nat,
           Count(fields)
    PROVE  stats' \in Counters
BY DEF Counters, Count

LEMMA CountedType ==
    ASSUME NEW found \in Seq(Finding), NEW action
    PROVE  Counted(found, action) \in Nat
<1>1. PICK n \in Nat : DOMAIN found = 1..n
  BY LenProperties
<1>2. {i \in DOMAIN found : found[i].action = action} \in SUBSET (1..n)
  BY <1>1
<1>3. IsFiniteSet({i \in DOMAIN found : found[i].action = action})
  BY <1>1, <1>2, FS_Interval, FS_Subset
<1> QED
  BY <1>3, FS_CardinalityType DEF Counted

LEMMA RequestFacts ==
    ASSUME RequestInv, NEW r \in Requests
    PROVE  req[r] \in Request /\ Sound(req[r], books)
BY DEF RequestInv

LEMMA SessionBook ==
    ASSUME RequestInv, NEW s \in Sessions
    PROVE  books[s] \in Books
BY DEF RequestInv

LEMMA BuildType ==
    ASSUME NEW active
    PROVE  BuildRuntime(active) \in Runtime
<1>1. LoadActive(active) \in SUBSET Packs
  BY DEF LoadActive, Packs
<1>2. NerDetector(LoadActive(active)) \in {"none", "absent", "ready", "poisoned"}
  BY DEF NerDetector
<1> QED
  BY <1>1, <1>2 DEF BuildRuntime, Runtime

LEMMA NoRequestSound == NoRequest \in Request /\ \A bks : Sound(NoRequest, bks)
<1>1. <<>> \in Texts /\ <<>> \in Seq(Atoms) /\ <<>> \in Seq(Texts)
  BY DEF Texts
<1> QED
  BY <1>1 DEF NoRequest, Request, Shows, Sound, Active

LEMMA InitInv == Init => Inv
<1> SUFFICES ASSUME Init PROVE Inv
  OBVIOUS
<1>1. RunInv
  BY BuildType DEF Init, RunInv, AdminState, Counters
<1>2. RequestInv
  BY NoBookIsBook, NoRequestSound DEF Init, RequestInv
<1>3. LedgerInv
  BY DEF Init, LedgerInv
<1> QED
  BY <1>1, <1>2, <1>3 DEF Inv

\* A request with one field set anew.
LEMMA SetAt ==
    ASSUME NEW q \in Request,
           NEW x \in {"new", "gate", "mask", "record", "forward", "await", "done", "gone"}
    PROVE  [q EXCEPT !.at = x] \in Request
BY DEF Request

LEMMA SetBody ==
    ASSUME NEW q \in Request, NEW x \in Bodies
    PROVE  [q EXCEPT !.body = x] \in Request
BY DEF Request

LEMMA SetOut ==
    ASSUME NEW q \in Request, NEW x \in Texts
    PROVE  [q EXCEPT !.out = x] \in Request
BY DEF Request

LEMMA SetEvents ==
    ASSUME NEW q \in Request, NEW x \in Seq(Atoms)
    PROVE  [q EXCEPT !.events = x] \in Request
BY DEF Request

LEMMA SetSerialized ==
    ASSUME NEW q \in Request, NEW x \in BOOLEAN
    PROVE  [q EXCEPT !.serialized = x] \in Request
BY DEF Request

LEMMA SetSent ==
    ASSUME NEW q \in Request, NEW x \in Seq(Texts)
    PROVE  [q EXCEPT !.sent = x] \in Request
BY DEF Request

LEMMA SetStatus ==
    ASSUME NEW q \in Request, NEW x \in Shows
    PROVE  [q EXCEPT !.status = x] \in Request
BY DEF Request

LEMMA SetAnswer ==
    ASSUME NEW q \in Request, NEW x \in Texts
    PROVE  [q EXCEPT !.answer = x] \in Request
BY DEF Request

\* The parts a step leaves alone.
LEMMA RunStays ==
    ASSUME RunInv, UNCHANGED <<runtime, config, admin, stats>>
    PROVE  RunInv'
BY DEF RunInv

LEMMA ArriveInv ==
    ASSUME Inv, NEW r \in Requests, Arrive(r)
    PROVE  Inv'
<1> USE DEF Inv
<1>1. req[r] = NoRequest
  BY RequestFacts DEF Arrive, At, Sound
<1>2. PICK body \in Bodies :
        req' = [req EXCEPT ![r].body = body,
                           ![r].out = ClearBody(body),
                           ![r].at = IF body.kind = "completion" /\ ~ body.parses
                                     THEN "forward" ELSE "gate"]
  BY DEF Arrive
<1> DEFINE q == [req[r] EXCEPT !.body = body, !.out = ClearBody(body),
                               !.at = IF body.kind = "completion" /\ ~ body.parses
                                      THEN "forward" ELSE "gate"]
<1>3. req' = [req EXCEPT ![r] = q]
  BY <1>2 DEF RequestInv
<1>4. ClearBody(body) \in Texts
  BY ClearBodyType, SeqsGrow
<1>5. q \in Request
  <2>1. [req[r] EXCEPT !.body = body] \in Request
    BY RequestFacts, SetBody
  <2>2. [req[r] EXCEPT !.body = body, !.out = ClearBody(body)] \in Request
    BY <1>4, <2>1, SetOut
  <2> QED
    BY <2>2, SetAt
<1>6. /\ q.body = body /\ q.out = ClearBody(body) /\ q.events = <<>> /\ q.sent = <<>>
      /\ q.status = 0 /\ q.serialized = FALSE /\ q.at \in {"forward", "gate"}
  BY <1>1 DEF NoRequest
<1> HIDE DEF q
<1>7. Sound(q, books)
  <2>1. Faithful(books[q.body.session], q.out, q.body.strings)
    BY <1>6, ClearIsFaithful
  <2>2. Replacements(q.out) = <<>>
    BY <1>6, NothingReplacedInTheClear
  <2>3. InHand(q, books[q.body.session])
    BY <1>6, <2>1, <2>2 DEF InHand
  <2>4. Sent(q) /\ Answered(q)
    BY <1>6 DEF Sent, Answered
  <2> QED
    BY <1>6, <2>3, <2>4 DEF Sound
<1>8. RequestInv'
  BY <1>3, <1>5, <1>7, RequestStepSameBooks DEF Arrive
<1>9. LedgerInv'
  <2>1. req[r].at # "done" /\ \A p \in Requests : p # r => req'[p] = req[p]
    BY <1>1, <1>3 DEF NoRequest, RequestInv
  <2> QED
    BY <2>1, LedgerStays DEF Arrive
<1>10. RunInv'
  <2>1. stats' \in Counters
    <3>1. DOMAIN [requests |-> 1] = {"requests"} /\ [requests |-> 1].requests = 1
      OBVIOUS
    <3> QED
      BY <3>1, Counting DEF Arrive, RunInv
  <2> QED
    BY <2>1 DEF Arrive, Others, RunInv
<1> QED
  BY <1>8, <1>9, <1>10

LEMMA GateInv ==
    ASSUME Inv, NEW r \in Requests, Gate(r)
    PROVE  Inv'
<1> USE DEF Inv
<1> DEFINE old == req[r]
<1>1. /\ old \in Request /\ old.at = "gate" /\ old.body \in Bodies /\ old.sent = <<>>
      /\ InHand(old, books[old.body.session]) /\ Answered(old) /\ old.status = 0
  BY RequestFacts DEF Gate, At, Sound, Active, Sent, InHand
<1>2. old.events = <<>>
  BY <1>1, NothingReplacedInTheClear DEF InHand
<1>3. /\ ledger' = ledger /\ books' = books
      /\ UNCHANGED <<runtime, config, admin, stats>>
  BY DEF Gate, Others
<1>4. ASSUME NEW q \in Request, req' = [req EXCEPT ![r] = q], Sound(q, books)
      PROVE  Inv'
  <2>1. RequestInv'
    BY <1>3, <1>4, RequestStepSameBooks
  <2>2. old.at # "done" /\ \A p \in Requests : p # r => req'[p] = req[p]
    BY <1>1, <1>4 DEF RequestInv
  <2>3. LedgerInv'
    BY <1>3, <2>2, LedgerStays
  <2> QED
    BY <1>3, <2>1, <2>3, RunStays
<1>5. CASE Blocked(runtime)
  <2> DEFINE q == [old EXCEPT !.at = "done", !.status = 503]
  <2>1. req' = [req EXCEPT ![r] = q]
    BY <1>5, ZenonT(60) DEF Gate, RequestInv
  <2>2. q \in Request
    <3>1. [old EXCEPT !.at = "done"] \in Request
      BY <1>1, SetAt
    <3>2. 503 \in Shows
      BY DEF Shows
    <3> QED
      BY <3>1, <3>2, SetStatus
  <2>3. Sound(q, books)
    BY <1>1 DEF Sound, Active, Answered, Request
  <2> QED
    BY <1>4, <2>1, <2>2, <2>3
<1>6. CASE ~ Blocked(runtime) /\ BodyOf(r).parses
  <2> DEFINE q == [old EXCEPT !.at = "mask", !.out = <<>>]
  <2>1. req' = [req EXCEPT ![r] = q]
    BY <1>6 DEF Gate, RequestInv
  <2>2. q \in Request
    <3>1. [old EXCEPT !.at = "mask"] \in Request
      BY <1>1, SetAt
    <3>2. <<>> \in Texts
      BY DEF Texts
    <3> QED
      BY <3>1, <3>2, SetOut
  <2>3. /\ q.body = old.body /\ q.out = <<>> /\ q.events = <<>> /\ q.sent = <<>>
        /\ q.status = 0 /\ q.at = "mask" /\ q.body.parses
    BY <1>1, <1>2, <1>6 DEF Request, BodyOf
  <2> HIDE DEF q
  <2>4. Faithful(books[q.body.session], q.out, q.body.strings)
    <3>1. Len(q.body.strings) \in Nat
      BY <1>1, <2>3, BodyFacts, LenProperties
    <3> QED
      BY <2>3, <3>1 DEF Faithful
  <2>5. Sound(q, books)
    BY <1>1, <2>3, <2>4, NoReplacements DEF Sound, Active, Answered, InHand, Sent
  <2> QED
    BY <1>4, <2>1, <2>2, <2>5
<1>7. CASE ~ Blocked(runtime) /\ ~ BodyOf(r).parses
  <2> DEFINE q == [old EXCEPT !.at = "forward"]
  <2>1. req' = [req EXCEPT ![r] = q]
    BY <1>7 DEF Gate, RequestInv
  <2>2. q \in Request
    BY <1>1 DEF Request
  <2>3. /\ q.body = old.body /\ q.out = old.out /\ q.events = old.events /\ q.sent = <<>>
        /\ q.status = 0 /\ q.at = "forward"
    BY <1>1 DEF Request
  <2> HIDE DEF q
  <2>4. Sound(q, books)
    BY <1>1, <2>3 DEF Sound, Active, Answered, InHand, Sent
  <2> QED
    BY <1>4, <2>1, <2>2, <2>4
<1> QED
  BY <1>5, <1>6, <1>7

\* A step of one request that leaves the ledger alone.
LEMMA HandlerStep ==
    ASSUME Inv, RunInv', NEW r \in Requests, req[r].at # "done", NEW q \in Request,
           req' = [req EXCEPT ![r] = q], ledger' = ledger,
           books' \in [Sessions -> Books],
           \A s \in Sessions : Continues(books'[s], books[s]),
           Sound(q, books')
    PROVE  Inv'
<1>1. RequestInv'
  BY RequestStep DEF Inv
<1>2. \A p \in Requests : p # r => req'[p] = req[p]
  BY DEF Inv, RequestInv
<1>3. LedgerInv'
  BY <1>2, LedgerStays DEF Inv
<1> QED
  BY <1>1, <1>3 DEF Inv

LEMMA QuietStep ==
    ASSUME Inv, RunInv', NEW r \in Requests, req[r].at # "done", NEW q \in Request,
           req' = [req EXCEPT ![r] = q], ledger' = ledger, books' = books, Sound(q, books)
    PROVE  Inv'
<1>1. books' \in [Sessions -> Books] /\ \A s \in Sessions : Continues(books'[s], books[s])
  BY ContinuesItself DEF Inv, RequestInv
<1>2. Sound(q, books')
  OBVIOUS
<1> QED
  BY <1>1, <1>2, HandlerStep

\* A request whose strings are masked one by one.
LEMMA AtMask ==
    ASSUME Inv, NEW r \in Requests, req[r].at = "mask"
    PROVE  /\ req[r] \in Request
           /\ req[r].body \in Bodies
           /\ req[r].body.parses
           /\ req[r].sent = <<>>
           /\ req[r].status = 0
           /\ InHand(req[r], books[req[r].body.session])
           /\ Answered(req[r])
<1>1. req[r] \in Request /\ Sound(req[r], books)
  BY RequestFacts DEF Inv
<1> QED
  BY <1>1 DEF Sound, Active, Sent, InHand

LEMMA StringFacts ==
    ASSUME Inv, NEW r \in Requests, MoreStrings(r)
    PROVE  NextString(r) \in Seq(Finding)
<1>1. req[r].at = "mask" /\ Len(req[r].out) < Len(req[r].body.strings)
  BY DEF MoreStrings, At, BodyOf
<1>2. req[r].body \in Bodies /\ req[r].out \in Texts
  BY <1>1, AtMask DEF Request
<1>3. req[r].body.strings \in Seq(Seq(Finding))
  BY <1>2, BodyFacts
<1>4. Len(req[r].out) \in Nat
  BY <1>2, LenProperties DEF Texts
<1> QED
  BY <1>1, <1>3, <1>4, LenProperties, ElementOfSeq DEF NextString, BodyOf

LEMMA MaskContentInv ==
    ASSUME Inv, NEW r \in Requests, MaskContent(r)
    PROVE  Inv'
<1> DEFINE old == req[r]
           s == old.body.session
           string == NextString(r)
           found == Found(runtime, string)
           book == RememberAll(books[s], found)
           masked == MaskedString(runtime, book, string)
           events == Events(runtime, book, string)
           q == [old EXCEPT !.out = Append(@, masked), !.events = @ \o events]
<1>1. /\ old \in Request /\ old.body \in Bodies /\ old.body.parses /\ old.sent = <<>>
      /\ old.status = 0 /\ InHand(old, books[s]) /\ Answered(old) /\ old.at = "mask"
  BY AtMask DEF MaskContent, MoreStrings, At
<1>2. s \in Sessions
  BY <1>1, BodyFacts
<1>3. books[s] \in Books
  BY <1>2, SessionBook DEF Inv
<1>4. string \in Seq(Finding) /\ found \in Seq(Finding)
  <2>1. string \in Seq(Finding)
    BY StringFacts DEF MaskContent
  <2> QED
    BY <2>1, FoundType
<1>5. string \in Seq(Handled(runtime, book)) /\ RemembersAll(book, books[s], found)
  BY <1>3, <1>4, StringHandled, RememberedAll
<1>6. book \in Books /\ Continues(book, books[s])
  BY <1>5 DEF RemembersAll
<1>7. /\ books' = [books EXCEPT ![s] = book]
      /\ req' = [req EXCEPT ![r].out = Append(@, masked), ![r].events = @ \o events]
      /\ ledger' = ledger /\ UNCHANGED <<runtime, config, admin>>
      /\ Count([masked |-> Counted(found, "mask"), redacted |-> Counted(found, "redact")])
  BY SMTT(30) DEF MaskContent, BodyOf, Others
<1>8. Len(old.out) < Len(old.body.strings)
      /\ string = old.body.strings[Len(old.out) + 1]
  BY DEF MaskContent, MoreStrings, NextString, BodyOf
<1> HIDE DEF string, found, book
<1>9. masked \in Seq(Seq(Atoms)) /\ Follows(book, masked, string)
  BY <1>5, <1>6, MaskedStringType, MaskedStringFollows
<1>10. events = Spread(Only, FlattenSeq(masked)) /\ events \in Seq(Atoms)
  <2>1. events = Spread(Only, FlattenSeq(masked))
    BY <1>5, <1>6, EventsAreReplacements
  <2>2. FlattenSeq(masked) \in Seq(Atoms)
    BY <1>9, FlattenType
  <2>3. Spread(Only, FlattenSeq(masked)) \in Seq(Atoms)
    BY <2>2, OnlyPuts, SpreadType
  <2> QED
    BY <2>1, <2>3
<1> HIDE DEF masked, events
<1>11. req' = [req EXCEPT ![r] = q]
  BY <1>7 DEF Inv, RequestInv
<1>12. Append(old.out, masked) \in Texts /\ old.events \o events \in Seq(Atoms)
       /\ old.out \in Texts /\ old.events \in Seq(Atoms)
  BY <1>1, <1>9, <1>10, AppendProperties, ConcatProperties DEF Request, Texts
<1>13. q \in Request
  <2>1. [old EXCEPT !.out = Append(@, masked)] \in Request
    BY <1>1, <1>12, SetOut
  <2>2. q = [[old EXCEPT !.out = Append(@, masked)] EXCEPT !.events = old.events \o events]
    BY <1>1 DEF Request
  <2> QED
    BY <1>12, <2>1, <2>2, SetEvents
<1>14. /\ q.body = old.body /\ q.out = Append(old.out, masked)
       /\ q.events = old.events \o events /\ q.sent = <<>> /\ q.status = 0
       /\ q.at = "mask"
  BY <1>1 DEF Request
<1> HIDE DEF q
<1>15. /\ books' \in [Sessions -> Books]
       /\ books'[s] = book
       /\ \A x \in Sessions : Continues(books'[x], books[x])
  BY <1>2, <1>6, <1>7, ContinuesItself DEF Inv, RequestInv
<1>16. InHand(q, book)
  <2>1. Faithful(book, old.out, old.body.strings)
    BY <1>1, <1>6, FaithfulContinues DEF InHand
  <2>2. old.body.strings \in Seq(Seq(Finding))
    BY <1>1, BodyFacts
  <2>3. Faithful(book, Append(old.out, masked), old.body.strings)
    BY <1>8, <1>9, <1>12, <2>1, <2>2, FaithfulAppend
  <2>4. Replacements(Append(old.out, masked)) = Replacements(old.out) \o events
    BY <1>9, <1>10, <1>12, ReplacementsAppend
  <2> QED
    BY <1>1, <1>14, <2>3, <2>4 DEF InHand
<1>17. Sound(q, books')
  <2>1. InHand(q, books'[q.body.session])
    <3>1. books'[q.body.session] = book
      BY <1>14, <1>15
    <3> QED
      BY <1>16, <3>1, Zenon
  <2>2. Sent(q) /\ Answered(q)
    BY <1>14 DEF Sent, Answered
  <2> QED
    BY <1>1, <1>14, <2>1, <2>2 DEF Sound
<1>18. RunInv'
  <2>1. Counted(found, "mask") \in Nat /\ Counted(found, "redact") \in Nat
    BY <1>4, CountedType
  <2> DEFINE fields == [masked |-> Counted(found, "mask"), redacted |-> Counted(found, "redact")]
  <2>2. \A f \in DOMAIN fields : fields[f] \in Nat
    BY <2>1
  <2>3. Count(fields) /\ stats \in Counters
    BY <1>7 DEF Inv, RunInv
  <2> HIDE DEF fields
  <2>4. stats' \in Counters
    BY <2>2, <2>3, Counting
  <2> QED
    BY <1>7, <2>4 DEF Inv, RunInv
<1> QED
  BY <1>1, <1>7, <1>11, <1>13, <1>15, <1>17, <1>18, HandlerStep

LEMMA MaskPanicsInv ==
    ASSUME Inv, NEW r \in Requests, MaskPanics(r)
    PROVE  Inv'
<1> DEFINE old == req[r]
           s == old.body.session
           found == Found(runtime, NextString(r))
           clear == ClearBody(old.body)
           place == IF IsCompletion(r) THEN "forward" ELSE "record"
           q == [old EXCEPT !.out = clear, !.events = <<>>, !.at = place]
<1>1. /\ old \in Request /\ old.body \in Bodies /\ old.body.parses /\ old.sent = <<>>
      /\ old.status = 0 /\ Answered(old) /\ old.at = "mask"
  BY AtMask DEF MaskPanics, MoreStrings, At
<1>2. /\ s \in Sessions
      /\ books[s] \in Books
  BY <1>1, BodyFacts, SessionBook DEF Inv
<1>3. found \in Seq(Finding)
  <2>1. NextString(r) \in Seq(Finding)
    BY StringFacts DEF MaskPanics
  <2> QED
    BY <2>1, FoundType
<1>4. RememberAll(books[s], found) \in Books
      /\ Continues(RememberAll(books[s], found), books[s])
  BY <1>2, <1>3, RememberedAll DEF RemembersAll
<1>5. /\ req' = [req EXCEPT ![r].out = clear, ![r].events = <<>>, ![r].at = place]
      /\ ledger' = ledger /\ UNCHANGED <<config, admin>>
      /\ Count([errors |-> 1])
  BY DEF MaskPanics, BodyOf, Others
<1>6. /\ runtime' = runtime \/ runtime' = [runtime EXCEPT !.ner = "poisoned"]
      /\ books' = books \/ books' = [books EXCEPT ![s] = RememberAll(@, found)]
  BY DEF MaskPanics, BodyOf
<1> HIDE DEF found
<1>7. /\ books' \in [Sessions -> Books]
      /\ \A x \in Sessions : Continues(books'[x], books[x])
  BY <1>2, <1>4, <1>6, ContinuesItself DEF Inv, RequestInv
<1>8. req' = [req EXCEPT ![r] = q]
  BY <1>5 DEF Inv, RequestInv
<1>9. q \in Request
  <2>1. clear \in Texts
    BY <1>1, ClearBodyType, SeqsGrow
  <2>2. [old EXCEPT !.out = clear] \in Request
    BY <1>1, <2>1, SetOut
  <2>3. <<>> \in Seq(Atoms)
    OBVIOUS
  <2>4. [old EXCEPT !.out = clear, !.events = <<>>] \in Request
    BY <2>2, <2>3, SetEvents
  <2>5. place \in {"forward", "record"}
    OBVIOUS
  <2> HIDE DEF place
  <2> QED
    BY <2>4, <2>5, SetAt
<1>10. /\ q.body = old.body /\ q.out = clear /\ q.events = <<>> /\ q.sent = <<>>
       /\ q.status = 0 /\ q.at = place
  BY <1>1 DEF Request
<1> HIDE DEF q
<1>11. Sound(q, books')
  <2>1. Faithful(books'[q.body.session], q.out, q.body.strings)
    BY <1>1, <1>10, ClearIsFaithful
  <2>2. Replacements(q.out) = <<>>
    BY <1>1, <1>10, NothingReplacedInTheClear
  <2>3. InHand(q, books'[q.body.session])
    BY <1>10, <2>1, <2>2 DEF InHand
  <2>4. Sent(q) /\ Answered(q)
    BY <1>10 DEF Sent, Answered, IsCompletion, BodyOf
  <2> QED
    BY <1>1, <1>10, <2>3, <2>4 DEF Sound
<1>12. RunInv'
  <2>1. stats' \in Counters
    <3>1. DOMAIN [errors |-> 1] = {"errors"} /\ [errors |-> 1].errors = 1
      OBVIOUS
    <3> QED
      BY <1>5, <3>1, Counting DEF Inv, RunInv
  <2>2. runtime' \in Runtime
    BY <1>6 DEF Inv, RunInv, Runtime
  <2> QED
    BY <1>5, <2>1, <2>2 DEF Inv, RunInv
<1> QED
  BY <1>1, <1>5, <1>7, <1>8, <1>9, <1>11, <1>12, HandlerStep

LEMMA SerializeInv ==
    ASSUME Inv, NEW r \in Requests, Serialize(r)
    PROVE  Inv'
<1> DEFINE old == req[r]
           place == IF IsCompletion(r) THEN "forward" ELSE "record"
           q == [old EXCEPT !.at = place, !.serialized = TRUE]
<1>1. /\ old \in Request /\ old.body \in Bodies /\ old.body.parses /\ old.sent = <<>>
      /\ old.status = 0 /\ InHand(old, books[old.body.session]) /\ old.at = "mask"
  BY AtMask DEF Serialize, At
<1>2. req' = [req EXCEPT ![r] = q]
  BY DEF Serialize, Inv, RequestInv
<1>3. q \in Request
  <2>1. place \in {"forward", "record"}
    OBVIOUS
  <2> HIDE DEF place
  <2>2. [old EXCEPT !.at = place] \in Request
    BY <1>1, <2>1, SetAt
  <2> QED
    BY <2>2, SetSerialized
<1>4. /\ q.body = old.body /\ q.out = old.out /\ q.events = old.events /\ q.sent = <<>>
      /\ q.status = 0 /\ q.at = place
  BY <1>1 DEF Request
<1> HIDE DEF q
<1>5. Sound(q, books)
  <2>1. InHand(q, books[q.body.session])
    BY <1>1, <1>4 DEF InHand
  <2>2. Sent(q) /\ Answered(q)
    BY <1>4 DEF Sent, Answered, IsCompletion, BodyOf
  <2> QED
    BY <1>1, <1>4, <2>1, <2>2 DEF Sound
<1>6. RunInv'
  BY RunStays DEF Serialize, Others, Inv
<1> QED
  BY <1>1, <1>2, <1>3, <1>5, <1>6, QuietStep DEF Serialize

LEMMA MaskedIs ==
    ASSUME NEW r \in Requests
    PROVE  WasMasked(r) = Masked(req[r])
BY DEF WasMasked, Masked, BodyOf

LEMMA ForwardInv ==
    ASSUME Inv, NEW r \in Requests, Forward(r)
    PROVE  Inv'
<1> DEFINE old == req[r]
           q == [old EXCEPT !.at = "await", !.sent = Append(@, old.out)]
<1>1. /\ old \in Request /\ old.body \in Bodies /\ Sent(old)
      /\ old.status = 0 /\ InHand(old, books[old.body.session]) /\ old.at = "forward"
  BY RequestFacts DEF Forward, At, Inv, Sound, Active, InHand
<1>2. req' = [req EXCEPT ![r] = q]
  BY DEF Forward, Inv, RequestInv
<1>3. old.out \in Texts /\ old.sent \in Seq(Texts)
  BY <1>1 DEF Request
<1>4. /\ Append(old.sent, old.out) \in Seq(Texts)
      /\ Len(Append(old.sent, old.out)) = Len(old.sent) + 1
      /\ Append(old.sent, old.out)[Len(old.sent) + 1] = old.out
  BY <1>3, AppendProperties
<1>5. Last(Append(old.sent, old.out)) = old.out
  BY <1>4 DEF Last
<1>6. q \in Request
  <2>1. [old EXCEPT !.at = "await"] \in Request
    BY <1>1, SetAt
  <2>2. q = [[old EXCEPT !.at = "await"] EXCEPT !.sent = Append(old.sent, old.out)]
    BY <1>1 DEF Request
  <2> QED
    BY <1>4, <2>1, <2>2, SetSent
<1>7. /\ q.body = old.body /\ q.out = old.out /\ q.events = old.events
      /\ q.sent = Append(old.sent, old.out) /\ q.serialized = old.serialized
      /\ q.status = 0 /\ q.at = "await"
  BY <1>1 DEF Request
<1> HIDE DEF q
<1>8. Len(old.sent) = 0 \/ (Len(old.sent) = 1 /\ ~ old.serialized)
  BY <1>1 DEF Sent
<1>9. Sound(q, books)
  <2>1. InHand(q, books[q.body.session])
    BY <1>1, <1>7 DEF InHand
  <2>2. Sent(q)
    BY <1>4, <1>5, <1>7, <1>8 DEF Sent
  <2>3. Answered(q)
    BY <1>4, <1>7, <1>8 DEF Answered
  <2> QED
    BY <1>1, <1>7, <2>1, <2>2, <2>3 DEF Sound
<1>10. RunInv'
  BY RunStays DEF Forward, Others, Inv
<1> QED
  BY <1>1, <1>2, <1>6, <1>9, <1>10, QuietStep DEF Forward

\* A request the upstream has.
LEMMA AtAwait ==
    ASSUME Inv, NEW r \in Requests, req[r].at = "await"
    PROVE  /\ req[r] \in Request
           /\ req[r].body \in Bodies
           /\ req[r].status = 0
           /\ Len(req[r].sent) = 1 \/ (Len(req[r].sent) = 2 /\ ~ req[r].serialized)
           /\ Last(req[r].sent) = req[r].out
           /\ InHand(req[r], books[req[r].body.session])
<1>1. req[r] \in Request /\ Sound(req[r], books)
  BY RequestFacts DEF Inv
<1> QED
  BY <1>1 DEF Sound, Active, Sent, InHand

LEMMA RetryUnmaskedInv ==
    ASSUME Inv, NEW r \in Requests, RetryUnmasked(r)
    PROVE  Inv'
<1> DEFINE old == req[r]
           clear == ClearBody(old.body)
           q == [old EXCEPT !.at = "forward", !.out = clear, !.serialized = FALSE,
                            !.events = <<>>]
<1>1. /\ old \in Request /\ old.body \in Bodies /\ old.status = 0 /\ old.at = "await"
      /\ Len(old.sent) = 1 \/ (Len(old.sent) = 2 /\ ~ old.serialized)
      /\ old.serialized
  BY AtAwait DEF RetryUnmasked, At, Retries, WasMasked
<1>2. req' = [req EXCEPT ![r] = q]
  BY DEF RetryUnmasked, BodyOf, Inv, RequestInv
<1>3. q \in Request
  <2>1. clear \in Texts
    BY <1>1, ClearBodyType, SeqsGrow
  <2>2. [old EXCEPT !.at = "forward"] \in Request
    BY <1>1, SetAt
  <2>3. [old EXCEPT !.at = "forward", !.out = clear] \in Request
    BY <2>1, <2>2, SetOut
  <2>4. [old EXCEPT !.at = "forward", !.out = clear, !.serialized = FALSE] \in Request
    BY <2>3, SetSerialized
  <2>5. <<>> \in Seq(Atoms)
    OBVIOUS
  <2> QED
    BY <2>4, <2>5, SetEvents
<1>4. /\ q.body = old.body /\ q.out = clear /\ q.events = <<>> /\ q.sent = old.sent
      /\ q.serialized = FALSE /\ q.status = 0 /\ q.at = "forward"
  BY <1>1 DEF Request
<1> HIDE DEF q
<1>5. Sound(q, books)
  <2>1. Faithful(books[q.body.session], q.out, q.body.strings)
    BY <1>1, <1>4, ClearIsFaithful
  <2>2. Replacements(q.out) = <<>>
    BY <1>1, <1>4, NothingReplacedInTheClear
  <2>3. InHand(q, books[q.body.session])
    BY <1>4, <2>1, <2>2 DEF InHand
  <2>4. Len(q.sent) = 1 /\ ~ q.serialized
    BY <1>1, <1>4
  <2>5. Sent(q)
    BY <1>4, <2>4 DEF Sent
  <2>6. Answered(q)
    BY <1>4, <2>4 DEF Answered
  <2> QED
    BY <1>1, <1>4, <2>3, <2>5, <2>6 DEF Sound
<1>6. RunInv'
  <2>1. stats' \in Counters
    <3>1. DOMAIN [errors |-> 1] = {"errors"} /\ [errors |-> 1].errors = 1
      OBVIOUS
    <3> QED
      BY <3>1, Counting DEF RetryUnmasked, Inv, RunInv
  <2> QED
    BY <2>1 DEF RetryUnmasked, Others, Inv, RunInv
<1> QED
  BY <1>1, <1>2, <1>3, <1>5, <1>6, QuietStep DEF RetryUnmasked

LEMMA AnswerInv ==
    ASSUME Inv, NEW r \in Requests, Answer(r)
    PROVE  Inv'
<1> DEFINE old == req[r]
           session == IsCompletion(r) /\ BodyOf(r).parses
           last == Last(req[r].sent)
           book == books[BodyOf(r).session]
           place == IF session THEN "record" ELSE "done"
           back == IF session THEN Rehydrated(book, last) ELSE last
<1>1. /\ old \in Request /\ old.body \in Bodies /\ old.at = "await"
      /\ Len(old.sent) = 1 \/ (Len(old.sent) = 2 /\ ~ old.serialized)
      /\ last = old.out
      /\ InHand(old, book)
  BY AtAwait DEF Answer, At, BodyOf
<1> DEFINE Answers(status) ==
              /\ ~ Retries(r, status)
              /\ req' = [req EXCEPT ![r].at = place, ![r].status = status,
                                    ![r].answer = IF status # 200 THEN <<>>
                                                  ELSE IF session
                                                  THEN Rehydrated(book, last) ELSE last]
<1>a. \E status \in Statuses : Answers(status)
  BY Zenon DEF Answer
<1> HIDE DEF Answers
<1>2. PICK status : status \in Statuses /\ Answers(status)
  BY <1>a
<1> DEFINE answer == IF status # 200 THEN <<>> ELSE back
           q == [old EXCEPT !.at = place, !.status = status, !.answer = answer]
<1>3. req' = [req EXCEPT ![r] = q]
  <2>1. req' = [req EXCEPT ![r].at = place, ![r].status = status, ![r].answer = answer]
    BY <1>2, Zenon DEF Answers
  <2> HIDE DEF place, answer
  <2> QED
    BY <2>1 DEF Inv, RequestInv
<1>4. book \in Books /\ last \in Texts
  <2>1. old.body.session \in Sessions
    BY <1>1, BodyFacts
  <2> QED
    BY <1>1, <2>1, SessionBook DEF Inv, Request, BodyOf
<1>5. answer \in Texts
  <2>1. Rehydrated(book, last) \in Texts
    BY <1>4, RehydratedType
  <2>2. <<>> \in Texts
    BY DEF Texts
  <2> QED
    BY <1>4, <2>1, <2>2
<1>6. old.body.kind = "completion" => back = ReadBack(last, old.body.strings)
  <2>1. Rehydrated(book, last) = ReadBack(last, old.body.strings)
    <3>1. old.body.strings \in Seq(Seq(Finding)) /\ Faithful(book, last, old.body.strings)
      BY <1>1, BodyFacts DEF InHand
    <3> QED
      BY <1>4, <3>1, RehydratedReads
  <2>2. ~ old.body.parses => last = ReadBack(last, old.body.strings)
    <3>1. ~ old.body.parses => last = ClearBody(old.body)
      BY <1>1 DEF InHand
    <3> QED
      BY <1>1, <3>1, ClearReads
  <2> QED
    BY <2>1, <2>2 DEF IsCompletion, BodyOf
<1>7. place \in {"record", "done"}
      /\ (place = "record" => old.body.kind = "completion")
  BY DEF IsCompletion, BodyOf
<1> HIDE DEF place, session, back
<1>8. status = 200 /\ old.body.kind = "completion"
        => answer = ReadBack(last, old.body.strings)
  BY <1>6
<1> HIDE DEF answer
<1>9. q \in Request
  <2>1. [old EXCEPT !.at = place] \in Request
    BY <1>1, <1>7, SetAt
  <2>2. status \in Shows
    BY <1>2 DEF Shows
  <2>3. [[old EXCEPT !.at = place] EXCEPT !.status = status] \in Request
    BY <2>1, <2>2, SetStatus, Zenon
  <2>4. [[[old EXCEPT !.at = place] EXCEPT !.status = status] EXCEPT !.answer = answer]
          \in Request
    BY <1>5, <2>3, SetAnswer, Zenon
  <2> QED
    BY <2>4
<1>10. /\ q.body = old.body /\ q.out = old.out /\ q.events = old.events /\ q.sent = old.sent
       /\ q.status = status /\ q.at = place /\ q.answer = answer
  BY <1>1 DEF Request
<1> HIDE DEF q
<1>11. Sound(q, books)
  <2>1. Answered(q)
    <3>1. Len(q.sent) \in {1, 2}
      BY <1>1, <1>10
    <3> QED
      BY <1>8, <1>10, <3>1 DEF Answered
  <2>2. q.at = "record" => InHand(q, books[q.body.session]) /\ Sent(q)
    BY <1>1, <1>7, <1>10 DEF InHand, Sent, BodyOf
  <2> QED
    BY <1>1, <1>7, <1>10, <2>1, <2>2 DEF Sound, Active
<1>12. RunInv'
  BY RunStays DEF Answer, Others, Inv
<1> QED
  BY <1>1, <1>3, <1>9, <1>11, <1>12, QuietStep DEF Answer

LEMMA HangUpInv ==
    ASSUME Inv, NEW r \in Requests, HangUp(r)
    PROVE  Inv'
<1> DEFINE old == req[r]
           q == [old EXCEPT !.at = "gone"]
<1>1. /\ old \in Request /\ old.body \in Bodies /\ old.at = "await" /\ old.status = 0
      /\ Len(old.sent) \in {1, 2}
  BY AtAwait DEF HangUp, At
<1>2. req' = [req EXCEPT ![r] = q]
  BY DEF HangUp, Inv, RequestInv
<1>3. q \in Request
  BY <1>1, SetAt
<1>4. q.body = old.body /\ q.sent = old.sent /\ q.status = 0 /\ q.at = "gone"
  BY <1>1 DEF Request
<1> HIDE DEF q
<1>5. Sound(q, books)
  <2>1. Len(q.sent) \in {1, 2}
    BY <1>1, <1>4
  <2>2. Answered(q)
    BY <1>4, <2>1 DEF Answered
  <2> QED
    BY <1>1, <1>4, <2>2 DEF Sound, Active
<1>6. RunInv'
  BY RunStays DEF HangUp, Others, Inv
<1> QED
  BY <1>1, <1>2, <1>3, <1>5, <1>6, QuietStep DEF HangUp

LEMMA RecordInv ==
    ASSUME Inv, NEW r \in Requests, Record(r)
    PROVE  Inv'
<1> DEFINE old == req[r]
           place == IF IsCompletion(r) THEN "done" ELSE "forward"
           q == [old EXCEPT !.at = place]
           entry == [request |-> r, kind |-> BodyOf(r).kind,
                     events |-> req[r].events, packs |-> runtime.packs]
<1>1. /\ old \in Request /\ old.body \in Bodies /\ old.at = "record"
      /\ InHand(old, books[old.body.session]) /\ Sent(old) /\ Answered(old)
  BY RequestFacts DEF Record, At, Inv, Sound, Active
<1>2. req' = [req EXCEPT ![r] = q]
  BY DEF Record, Inv, RequestInv
<1>3. place \in {"done", "forward"} /\ (place = "done" <=> old.body.kind = "completion")
  BY DEF IsCompletion, BodyOf
<1> HIDE DEF place
<1>4. q \in Request
  BY <1>1, <1>3, SetAt
<1>5. /\ q.body = old.body /\ q.out = old.out /\ q.events = old.events /\ q.sent = old.sent
      /\ q.serialized = old.serialized /\ q.status = old.status /\ q.at = place
      /\ q.answer = old.answer
  BY <1>1 DEF Request
<1> HIDE DEF q
<1>6. Sound(q, books)
  <2>1. Answered(q)
    BY <1>1, <1>5 DEF Answered
  <2>2. CASE place = "done"
    BY <1>1, <1>5, <2>1, <2>2 DEF Sound, Active
  <2>3. CASE place = "forward"
    <3>1. old.sent = <<>> /\ old.status = 0
      BY <1>1, <1>3, <2>3 DEF Sent
    <3>2. InHand(q, books[q.body.session])
      BY <1>1, <1>5, <2>3, <3>1 DEF InHand
    <3>3. Sent(q)
      BY <1>5, <2>3, <3>1 DEF Sent
    <3> QED
      BY <1>1, <1>5, <2>1, <2>3, <3>2, <3>3 DEF Sound
  <2> QED
    BY <1>3, <2>2, <2>3
<1>7. RequestInv'
  BY <1>2, <1>4, <1>6, RequestStepSameBooks DEF Record, Inv
<1>8. RunInv'
  BY RunStays DEF Record, Others, Inv
<1>9. LedgerInv'
  <2>1. \A p \in Requests : p # r => req'[p] = req[p]
    BY <1>2 DEF Inv, RequestInv
  <2>2. LedgerInv /\ old.at # "done"
    BY <1>1 DEF Inv
  <2>3. ASSUME NEW i \in DOMAIN ledger PROVE Told(ledger[i], req')
    BY <2>1, <2>2, ToldStays
  <2>4. ledger \in Seq(Entry)
    BY <2>2 DEF LedgerInv
  <2>5. CASE ledger' = ledger
    BY <2>3, <2>4, <2>5 DEF LedgerInv
  <2>6. CASE ledger' = Append(ledger, entry)
    <3>1. entry \in Entry
      <4>1. BodyOf(r).kind \in {"completion", "count_tokens"}
        BY <1>1, BodyFacts DEF BodyOf
      <4>2. old.events \in Seq(Atoms)
        BY <1>1 DEF Request
      <4>3. runtime.packs \in SUBSET Packs
        BY DEF Inv, RunInv, Runtime
      <4> QED
        BY <4>1, <4>2, <4>3 DEF Entry
    <3>2. Told(entry, req')
      <4>1. SUFFICES ASSUME entry.kind = "completion"
                     PROVE  /\ req'[entry.request].at = "done"
                            /\ entry.events
                                 = Replacements(Last(req'[entry.request].sent))
        BY DEF Told
      <4>2. req'[entry.request] = q /\ old.body.kind = "completion"
        BY <1>2, <4>1 DEF BodyOf, Inv, RequestInv
      <4>3. Last(old.sent) = old.out
        BY <1>1, <4>2 DEF Sent
      <4> QED
        BY <1>1, <1>3, <1>5, <4>2, <4>3 DEF InHand
    <3> HIDE DEF entry
    <3>3. /\ ledger' \in Seq(Entry) /\ Len(ledger) \in Nat
          /\ DOMAIN ledger = 1..Len(ledger) /\ DOMAIN ledger' = 1..Len(ledger) + 1
          /\ ledger'[Len(ledger) + 1] = entry
          /\ \A i \in 1..Len(ledger) : ledger'[i] = ledger[i]
      BY <2>4, <2>6, <3>1, AppendProperties, LenProperties
    <3>4. ASSUME NEW i \in 1..Len(ledger) + 1 PROVE Told(ledger'[i], req')
      <4>1. CASE i = Len(ledger) + 1
        BY <3>2, <3>3, <4>1
      <4>2. CASE i # Len(ledger) + 1
        <5>1. i \in DOMAIN ledger /\ ledger'[i] = ledger[i]
          BY <3>3, <4>2
        <5> QED
          BY <2>3, <5>1
      <4> QED
        BY <4>1, <4>2
    <3> QED
      BY <3>3, <3>4 DEF LedgerInv
  <2> QED
    BY <2>5, <2>6 DEF Record
<1> QED
  BY <1>7, <1>8, <1>9 DEF Inv

LEMMA DashboardInv ==
    ASSUME Inv, NEW a \in Admins, Dashboard(a)
    PROVE  Inv'
<1>1. books' = books /\ req' = req
  BY DEF Dashboard, SavePacks, SaveFails, SwapRuntime, ClearLedger, ResetStats, Preview
<1>2. RequestInv'
  BY <1>1 DEF Inv, RequestInv
<1>3. LedgerInv'
  <2>1. ledger' = ledger \/ ledger' = <<>>
    BY DEF Dashboard, SavePacks, SaveFails, SwapRuntime, ClearLedger, ResetStats, Preview
  <2>2. LedgerInv
    BY DEF Inv
  <2>3. CASE ledger' = ledger
    BY <1>1, <2>2, <2>3 DEF LedgerInv
  <2>4. CASE ledger' = <<>>
    BY <2>4 DEF LedgerInv
  <2> QED
    BY <2>1, <2>3, <2>4
<1>4. /\ runtime \in Runtime /\ config \in {StartPacks} \cup SUBSET Toggleable
      /\ admin \in [Admins -> AdminState] /\ stats \in Counters
  BY DEF Inv, RunInv
<1>5. [at |-> "idle"] \in AdminState /\ [at |-> "cleared"] \in AdminState
  BY DEF AdminState
<1>6. RunInv'
  <2>1. CASE SavePacks(a)
    <3>1. PICK names \in Posted :
            /\ config' = names \cap Toggleable
            /\ admin' = [admin EXCEPT ![a] = [at |-> "saved", packs |-> names \cap Toggleable]]
      BY <2>1 DEF SavePacks
    <3>2. [at |-> "saved", packs |-> names \cap Toggleable] \in AdminState
      BY DEF AdminState
    <3>3. admin' \in [Admins -> AdminState] /\ config' \in {StartPacks} \cup SUBSET Toggleable
      BY <1>4, <3>1, <3>2
    <3> QED
      BY <1>4, <2>1, <3>3 DEF SavePacks, RunInv
  <2>2. CASE SaveFails(a)
    BY <2>2, RunStays DEF SaveFails, Inv
  <2>3. CASE SwapRuntime(a)
    <3>1. runtime' \in Runtime
      BY <2>3, BuildType DEF SwapRuntime
    <3>2. admin' \in [Admins -> AdminState]
      BY <1>4, <1>5, <2>3 DEF SwapRuntime
    <3> QED
      BY <1>4, <2>3, <3>1, <3>2 DEF SwapRuntime, RunInv
  <2>4. CASE ClearLedger(a)
    <3>1. admin' \in [Admins -> AdminState]
      BY <1>4, <1>5, <2>4 DEF ClearLedger
    <3> QED
      BY <1>4, <2>4, <3>1 DEF ClearLedger, RunInv
  <2>5. CASE ResetStats(a)
    <3>1. admin' \in [Admins -> AdminState]
      BY <1>4, <1>5, <2>5 DEF ResetStats
    <3>2. stats' \in Counters
      BY <1>4, <2>5 DEF ResetStats, Counters
    <3> QED
      BY <1>4, <2>5, <3>1, <3>2 DEF ResetStats, RunInv
  <2>6. CASE Preview(a)
    <3>1. runtime' \in Runtime
      BY <1>4, <2>6 DEF Preview, Runtime
    <3> QED
      BY <1>4, <2>6, <3>1 DEF Preview, Others, RunInv
  <2> QED
    BY <2>1, <2>2, <2>3, <2>4, <2>5, <2>6 DEF Dashboard
<1> QED
  BY <1>2, <1>3, <1>6 DEF Inv

LEMMA RestartInv ==
    ASSUME Inv, Restart
    PROVE  Inv'
<1>1. RunInv'
  <2>1. runtime' \in Runtime
    BY BuildType DEF Restart
  <2>2. stats' \in Counters
    BY DEF Restart, Inv, RunInv, Counters
  <2>3. admin' \in [Admins -> AdminState]
    BY DEF Restart, AdminState
  <2> QED
    BY <2>1, <2>2, <2>3 DEF Restart, Inv, RunInv
<1>2. ASSUME NEW r \in Requests
      PROVE  /\ req'[r] \in Request
             /\ Sound(req'[r], books')
             /\ req[r].at = "done" => req'[r] = req[r]
  <2>1. req[r] \in Request /\ Sound(req[r], books)
    BY RequestFacts DEF Inv
  <2>2. CASE At(r, "new") \/ At(r, "done")
    <3>1. req'[r] = req[r]
      BY <2>2 DEF Restart
    <3>2. Sound(req[r], books')
      BY <2>1, <2>2 DEF Sound, Active, At
    <3> QED
      BY <2>1, <3>1, <3>2
  <2>3. CASE ~ (At(r, "new") \/ At(r, "done"))
    <3> DEFINE q == [req[r] EXCEPT !.at = "gone"]
    <3>1. req'[r] = q
      BY <2>3 DEF Restart
    <3>2. q \in Request
      BY <2>1, SetAt
    <3>3. /\ q.body = req[r].body /\ q.sent = req[r].sent /\ q.status = req[r].status
          /\ q.at = "gone" /\ q.answer = req[r].answer
      BY <2>1 DEF Request
    <3> HIDE DEF q
    <3>4. q.body \in Bodies /\ Answered(req[r])
      BY <2>1, <2>3, <3>3 DEF Sound, At
    <3>5. Answered(q)
      BY <3>3, <3>4 DEF Answered
    <3>6. Sound(q, books')
      BY <3>3, <3>4, <3>5 DEF Sound, Active
    <3> QED
      BY <2>3, <3>1, <3>2, <3>6 DEF At
  <2> QED
    BY <2>2, <2>3
<1>3. RequestInv'
  <2>1. books' \in [Sessions -> Books]
    BY NoBookIsBook DEF Restart
  <2>2. req' = [r \in Requests |-> req'[r]]
    BY DEF Restart
  <2> QED
    BY <1>2, <2>1, <2>2 DEF RequestInv
<1>4. LedgerInv'
  <2>1. LedgerInv /\ ledger' = ledger
    BY DEF Restart, Inv
  <2>2. ASSUME NEW i \in DOMAIN ledger PROVE Told(ledger[i], req')
    <3>1. Told(ledger[i], req) /\ ledger[i] \in Entry
      BY <2>1, LenProperties, ElementOfSeq DEF LedgerInv
    <3>2. ledger[i].request \in Requests
      BY <3>1 DEF Entry
    <3> QED
      BY <1>2, <3>1, <3>2 DEF Told
  <2> QED
    BY <2>1, <2>2 DEF LedgerInv
<1> QED
  BY <1>1, <1>3, <1>4 DEF Inv

LEMMA NextInv == Inv /\ [Next]_vars => Inv'
<1> SUFFICES ASSUME Inv, [Next]_vars PROVE Inv'
  OBVIOUS
<1>1. ASSUME NEW r \in Requests, Arrive(r) \/ Handle(r) \/ HangUp(r)
      PROVE  Inv'
  BY <1>1, ArriveInv, GateInv, MaskContentInv, MaskPanicsInv, SerializeInv, ForwardInv,
     RetryUnmaskedInv, AnswerInv, RecordInv, HangUpInv DEF Handle
<1>2. ASSUME NEW a \in Admins, Dashboard(a) PROVE Inv'
  BY <1>2, DashboardInv
<1>3. CASE UNCHANGED vars
  BY <1>3 DEF vars, Inv, RunInv, RequestInv, LedgerInv
<1> QED
  BY <1>1, <1>2, <1>3, RestartInv DEF Next

\* The inductive invariant: what a request holds while it is handled is faithful to
\* what its client wrote, and its events are the replacements in it.
THEOREM Invariance == Spec => []Inv
<1> QED
  BY InitInv, NextInv, PTL DEF Spec

LEMMA TypeFollows == Inv => TypeOK
<1> SUFFICES ASSUME Inv PROVE TypeOK
  OBVIOUS
<1>1. runtime \in [packs : SUBSET Packs, ner : {"none", "absent", "ready", "poisoned"}]
  BY DEF Inv, RunInv, Runtime
<1>2. config \in {StartPacks} \cup SUBSET Toggleable
  BY DEF Inv, RunInv
<1>3. \A a \in Admins : admin[a].at \in {"idle", "saved", "cleared"}
  <2>1. \A x \in AdminState : x.at \in {"idle", "saved", "cleared"}
    BY DEF AdminState
  <2> QED
    BY <2>1 DEF Inv, RunInv
<1>4. stats \in [{"requests", "masked", "redacted", "errors"} -> Nat]
  BY DEF Inv, RunInv, Counters
<1>5. ASSUME NEW r \in Requests
      PROVE  /\ req[r].at \in {"new", "gate", "mask", "record", "forward", "await",
                               "done", "gone"}
             /\ req[r].body \in Bodies \cup {NoBody}
             /\ req[r].status \in Statuses \cup {0, 503}
             /\ Len(req[r].sent) <= 2
  <2>1. req[r] \in Request /\ Sound(req[r], books)
    BY RequestFacts DEF Inv
  <2>2. Len(req[r].sent) \in {0, 1, 2}
    <3>1. req[r].at = "new" => req[r].sent = <<>>
      BY <2>1 DEF Sound, NoRequest
    <3> QED
      BY <2>1, <3>1 DEF Sound, Answered
  <2>3. Len(req[r].sent) <= 2
    <3>1. \A n \in {0, 1, 2} : n <= 2
      OBVIOUS
    <3> QED
      BY <2>2, <3>1
  <2> QED
    BY <2>1, <2>3 DEF Request, Shows
<1> QED
  BY <1>1, <1>2, <1>3, <1>4, <1>5 DEF TypeOK

\* The types of the proxy's state: packs, counters, and what becomes of a request, which
\* is sent upstream at most twice.
THEOREM TypeCorrect == Spec => []TypeOK
<1> QED
  BY Invariance, TypeFollows, PTL

LEMMA ReadableFollows == Inv => AnswerReadable
<1> SUFFICES ASSUME Inv, NEW r \in Requests, req[r].status = 200, IsCompletion(r)
             PROVE  req[r].answer = ReadBack(Last(req[r].sent), BodyOf(r).strings)
  BY ZenonT(60) DEF AnswerReadable, ReadBack
<1>1. Sound(req[r], books)
  BY RequestFacts DEF Inv
<1>2. req[r].at # "new"
  BY <1>1 DEF Sound, NoRequest
<1> QED
  BY <1>1, <1>2 DEF Sound, Answered, IsCompletion, BodyOf

\* A tool reads back what its user wrote, secrets redacted and the white space in names
\* that NER found made single spaces, whatever happens between the strings of its request,
\* before the answer, and in the other requests of its session.
THEOREM AnswersReadable == Spec => []AnswerReadable
<1> QED
  BY Invariance, ReadableFollows, PTL

LEMMA TruthFollows == Inv => LedgerTruth
<1> SUFFICES ASSUME Inv, NEW i \in DOMAIN ledger, ledger[i].kind = "completion"
             PROVE  ledger[i].events
                      = Replacements(Last(req[ledger[i].request].sent))
  BY DEF LedgerTruth
<1> QED
  BY DEF Inv, LedgerInv, Told

\* The events a completion leaves in the ledger are the replacements in the body the
\* upstream had last: none after a panic or a rejection.
THEOREM LedgerTruthful == Spec => []LedgerTruth
<1> QED
  BY Invariance, TruthFollows, PTL

-----------------------------------------------------------------------------
(* The packs                                                               *)

OneDashboard == \A a, b \in Admins : a = b

\* A dashboard that has saved packs is about to swap in those of config.toml.
PacksInv ==
    /\ admin \in [Admins -> AdminState]
    /\ PacksSurviveRestart
    /\ \A a \in Admins : admin[a].at = "saved" => admin[a].packs = config

LEMMA BuiltPacks == \A active : BuildRuntime(active).packs = LoadActive(active)
BY DEF BuildRuntime

LEMMA PacksInit == Init => PacksInv
BY BuiltPacks DEF Init, PacksInv, PacksSurviveRestart, AdminState

LEMMA PacksNext ==
    ASSUME OneDashboard, Inv, PacksInv, [Next]_vars, Inv'
    PROVE  PacksInv'
<1>1. admin' \in [Admins -> AdminState]
  BY DEF Inv, RunInv
<1>2. runtime \in Runtime
  BY DEF Inv, RunInv
<1>3. ASSUME UNCHANGED <<config, admin>>, runtime'.packs = runtime.packs
      PROVE  PacksInv'
  BY <1>1, <1>3 DEF PacksInv, PacksSurviveRestart
<1>4. ASSUME NEW r \in Requests, Arrive(r) \/ Handle(r) \/ HangUp(r) PROVE PacksInv'
  <2>1. UNCHANGED <<config, admin>>
    BY <1>4, ZenonT(60) DEF Handle, Arrive, Gate, MaskContent, MaskPanics, Serialize, Forward,
                RetryUnmasked, Answer, Record, HangUp, Others
  <2>2. runtime' = runtime \/ runtime' = [runtime EXCEPT !.ner = "poisoned"]
    BY <1>4 DEF Handle, Arrive, Gate, MaskContent, MaskPanics, Serialize, Forward,
                RetryUnmasked, Answer, Record, HangUp
  <2>3. runtime'.packs = runtime.packs
    BY <1>2, <2>2 DEF Runtime
  <2> QED
    BY <1>3, <2>1, <2>3
<1>5. ASSUME NEW a \in Admins, Dashboard(a) PROVE PacksInv'
  <2>1. \A b \in Admins : b = a
    BY DEF OneDashboard
  <2>2. CASE SavePacks(a)
    <3>1. PICK names \in Posted :
            /\ config' = names \cap Toggleable
            /\ admin' = [admin EXCEPT ![a] = [at |-> "saved", packs |-> names \cap Toggleable]]
      BY <2>2 DEF SavePacks
    <3>2. admin'[a].at = "saved" /\ admin'[a].packs = config'
      BY <3>1 DEF PacksInv
    <3> QED
      BY <1>1, <2>1, <3>2 DEF PacksInv, PacksSurviveRestart
  <2>3. CASE SaveFails(a)
    BY <1>3, <2>3 DEF SaveFails
  <2>4. CASE SwapRuntime(a)
    <3>1. runtime'.packs = LoadActive(config) /\ config' = config
      BY <2>4, BuiltPacks DEF SwapRuntime, PacksInv
    <3>2. admin'[a].at = "idle"
      BY <2>4 DEF SwapRuntime, PacksInv
    <3> QED
      BY <1>1, <2>1, <3>1, <3>2 DEF PacksInv, PacksSurviveRestart
  <2>5. CASE ClearLedger(a) \/ ResetStats(a)
    <3>1. /\ admin[a].at # "saved" /\ admin'[a].at # "saved"
          /\ runtime' = runtime /\ config' = config
      BY <2>5 DEF ClearLedger, ResetStats, PacksInv
    <3> QED
      BY <1>1, <2>1, <3>1 DEF PacksInv, PacksSurviveRestart
  <2>6. CASE Preview(a)
    <3>1. runtime'.packs = runtime.packs
      BY <1>2, <2>6 DEF Preview, Runtime
    <3> QED
      BY <1>3, <2>6, <3>1 DEF Preview, Others
  <2> QED
    BY <1>5, <2>2, <2>3, <2>4, <2>5, <2>6 DEF Dashboard
<1>6. CASE Restart
  BY <1>1, <1>6, BuiltPacks DEF Restart, PacksInv, PacksSurviveRestart
<1>7. CASE UNCHANGED vars
  BY <1>3, <1>7 DEF vars
<1> QED
  BY <1>4, <1>5, <1>6, <1>7 DEF Next

\* With one dashboard, the process runs the packs a restart would load, except between
\* the two steps of POST /packs.
THEOREM PacksSurvive == ASSUME OneDashboard PROVE Spec => []PacksSurviveRestart
<1>1. Inv /\ PacksInv /\ [Next]_vars /\ Inv' => PacksInv'
  BY PacksNext
<1>2. PacksInv => PacksSurviveRestart
  BY DEF PacksInv
<1> QED
  BY <1>1, <1>2, Invariance, PacksInit, PTL DEF Spec

-----------------------------------------------------------------------------
(* Masking is what the Masker promises                                     *)

\* What g puts for the findings found.
Each(g, found) == [i \in DOMAIN found |-> g[found[i]]]

\* What a finding of a string becomes when g puts something for those detected.
Between(rt, g) == [f \in Finding |-> IF Detected(rt, f) THEN g[f] ELSE f.slice]

\* The gaps of a string between what is found in it: filled with what g puts for the
\* findings, they give the string in which g has put it.
Cuts(rt, string, gaps) ==
    /\ gaps \in Seq(Seq(Words))
    /\ Len(gaps) = Len(Found(rt, string)) + 1
    /\ \A g \in [Finding -> Seq(Atoms)] :
          Fill(gaps, Each(g, Found(rt, string))) = Spread(Between(rt, g), string)

LEMMA FoundNext ==
    ASSUME NEW rt, NEW string \in Seq(Finding), NEW f \in Finding
    PROVE  Found(rt, Append(string, f))
             = IF Detected(rt, f) THEN Append(Found(rt, string), f) ELSE Found(rt, string)
<1> DEFINE pick == [x \in Finding |-> IF Detected(rt, x) THEN <<x>> ELSE <<>>]
           more == Append(string, f)
<1>1. Puts(pick, Finding, Finding)
  <2>1. ASSUME NEW x \in Finding PROVE pick[x] \in Seq(Finding)
    <3>1. <<x>> \in Seq(Finding) /\ <<>> \in Seq(Finding)
      OBVIOUS
    <3> QED
      BY <3>1
  <2> QED
    BY <2>1 DEF Puts
<1>2. ASSUME NEW s \in Seq(Finding) PROVE Found(rt, s) = Spread(pick, s)
  <2>1. \A i \in DOMAIN s : s[i] \in Finding
    BY LenProperties, ElementOfSeq
  <2>2. [i \in DOMAIN s |-> IF Detected(rt, s[i]) THEN <<s[i]>> ELSE <<>>]
          = [i \in DOMAIN s |-> pick[s[i]]]
    BY <2>1
  <2> QED
    BY <2>2 DEF Found, Spread
<1>3. more \in Seq(Finding)
  BY AppendProperties
<1>4. pick[f] = IF Detected(rt, f) THEN <<f>> ELSE <<>>
  OBVIOUS
<1> HIDE DEF pick
<1>5. Spread(pick, more) = Spread(pick, string) \o pick[f]
  BY <1>1, SpreadAppend
<1>6. Found(rt, more) = Found(rt, string) \o pick[f]
  BY <1>2, <1>3, <1>5
<1>7. Found(rt, string) \in Seq(Finding)
  BY FoundType
<1> HIDE DEF more
<1>8. CASE Detected(rt, f)
  <2>1. Append(Found(rt, string), f) = Found(rt, string) \o <<f>>
    BY <1>7, AppendIsConcat
  <2> QED
    BY <1>4, <1>6, <1>8, <2>1 DEF more
<1>9. CASE ~ Detected(rt, f)
  <2>1. Found(rt, string) \o <<>> = Found(rt, string)
    BY <1>7, ConcatEmptySeq
  <2> QED
    BY <1>4, <1>6, <1>9, <2>1 DEF more
<1> QED
  BY <1>8, <1>9

LEMMA BetweenPuts ==
    ASSUME NEW rt, NEW g \in [Finding -> Seq(Atoms)]
    PROVE  Puts(Between(rt, g), Finding, Atoms)
<1>1. Words \subseteq Atoms
  BY DEF Atoms
<1>2. Seq(Words) \subseteq Seq(Atoms)
  BY <1>1, SeqMonotonic
<1>3. \A f \in Finding : f.slice \in Seq(Words)
  BY DEF Finding
<1> QED
  BY <1>2, <1>3 DEF Puts, Between

LEMMA EachType ==
    ASSUME NEW g \in [Finding -> Seq(Atoms)], NEW found \in Seq(Finding)
    PROVE  Each(g, found) \in Seq(Seq(Atoms)) /\ Len(Each(g, found)) = Len(found)
<1>1. \A i \in DOMAIN found : found[i] \in Finding
  BY LenProperties, ElementOfSeq
<1>2. DOMAIN found = 1..Len(found) /\ Len(found) \in Nat
  BY LenProperties
<1>3. \A i \in 1..Len(found) : Each(g, found)[i] \in Seq(Atoms)
  BY <1>1, <1>2 DEF Each
<1>4. Each(g, found) = [i \in 1..Len(found) |-> Each(g, found)[i]]
  BY <1>2 DEF Each
<1> QED
  BY <1>2, <1>3, <1>4, SeqIs

LEMMA CutsExist ==
    ASSUME NEW rt, NEW string \in Seq(Finding)
    PROVE  \E gaps : Cuts(rt, string, gaps)
<1> DEFINE Good == {s \in Seq(Finding) : \E gaps : Cuts(rt, s, gaps)}
<1>0. Seq(Seq(Words)) \subseteq Seq(Seq(Atoms)) /\ Seq(Words) \subseteq Seq(Atoms)
  <2>1. Words \subseteq Atoms
    BY DEF Atoms
  <2>2. Seq(Words) \subseteq Seq(Atoms)
    BY <2>1, SeqMonotonic
  <2> QED
    BY <2>2, SeqMonotonic
<1>1. <<>> \in Good
  <2> DEFINE gaps == << <<>> >>
  <2>1. Found(rt, <<>>) = <<>>
    BY FlattenEmpty DEF Found
  <2>2. <<>> \in Seq(Words) /\ gaps \in Seq(Seq(Words)) /\ Len(gaps) = 1 /\ gaps[1] = <<>>
    OBVIOUS
  <2>3. ASSUME NEW g \in [Finding -> Seq(Atoms)]
        PROVE  Fill(gaps, Each(g, <<>>)) = Spread(Between(rt, g), <<>>)
    <3>1. [i \in DOMAIN Each(g, <<>>) |-> Each(g, <<>>)[i] \o gaps[i + 1]] = <<>>
      BY DEF Each
    <3>2. Fill(gaps, Each(g, <<>>)) = <<>> \o <<>>
      BY <2>2, <3>1, FlattenEmpty DEF Fill
    <3>3. <<>> \o <<>> = <<>>
      OBVIOUS
    <3> QED
      BY <3>2, <3>3, SpreadEmpty
  <2>4. Len(Found(rt, <<>>)) = 0
    BY <2>1
  <2> HIDE DEF gaps
  <2>5. Cuts(rt, <<>>, gaps)
    BY <2>1, <2>2, <2>3, <2>4 DEF Cuts
  <2>6. <<>> \in Seq(Finding)
    OBVIOUS
  <2> QED
    BY <2>5, <2>6
<1>2. ASSUME NEW s \in Seq(Finding), NEW f \in Finding, s \in Good
      PROVE  Append(s, f) \in Good
  <2> DEFINE more == Append(s, f)
             found == Found(rt, s)
  <2>1. PICK gaps : Cuts(rt, s, gaps)
    BY <1>2
  <2>2. found \in Seq(Finding) /\ Len(found) \in Nat
    BY FoundType, LenProperties
  <2>3. gaps \in Seq(Seq(Words)) /\ Len(gaps) = Len(found) + 1 /\ f.slice \in Seq(Words)
    BY <2>1 DEF Cuts, Finding
  <2>4. gaps \in Seq(Seq(Atoms)) /\ f.slice \in Seq(Atoms)
    BY <1>0, <2>3
  <2>5. ASSUME NEW g \in [Finding -> Seq(Atoms)]
        PROVE  /\ Fill(gaps, Each(g, found)) = Spread(Between(rt, g), s)
               /\ Spread(Between(rt, g), more)
                    = Spread(Between(rt, g), s) \o Between(rt, g)[f]
               /\ Each(g, found) \in Seq(Seq(Atoms))
               /\ Len(gaps) = Len(Each(g, found)) + 1
               /\ g[f] \in Seq(Atoms)
    <3>1. Fill(gaps, Each(g, found)) = Spread(Between(rt, g), s)
      BY <2>1 DEF Cuts
    <3>2. Spread(Between(rt, g), more) = Spread(Between(rt, g), s) \o Between(rt, g)[f]
      <4>1. Puts(Between(rt, g), Finding, Atoms)
        BY BetweenPuts
      <4>2. s \in Seq(Finding) /\ f \in Finding
        BY <1>2
      <4> QED
        BY <4>1, <4>2, SpreadAppend DEF more
    <3>3. g[f] \in Seq(Atoms)
      OBVIOUS
    <3> HIDE DEF found, more
    <3> QED
      BY <2>2, <2>3, <3>1, <3>2, <3>3, EachType
  <2>6. more \in Seq(Finding)
    BY AppendProperties
  <2>7. CASE Detected(rt, f)
    <3> DEFINE wide == Append(gaps, <<>>)
    <3>1. Found(rt, more) = Append(found, f)
      BY <2>7, FoundNext
    <3>2. wide \in Seq(Seq(Words)) /\ Len(wide) = Len(gaps) + 1
      <4>1. <<>> \in Seq(Words)
        OBVIOUS
      <4> QED
        BY <2>3, <4>1, AppendProperties
    <3>3. Len(Append(found, f)) = Len(found) + 1
      BY <2>2, AppendProperties
    <3>4. ASSUME NEW g \in [Finding -> Seq(Atoms)]
          PROVE  Fill(wide, Each(g, Found(rt, more))) = Spread(Between(rt, g), more)
      <4>1. Each(g, Append(found, f)) = Append(Each(g, found), g[f])
        <5>1. \A x \in Finding : g[x] \in Seq(Atoms)
          OBVIOUS
        <5> HIDE DEF found
        <5> QED
          BY <2>2, <5>1, MapAppend DEF Each
      <4>2. Between(rt, g)[f] = g[f]
        BY <2>7 DEF Between
      <4>3. Fill(wide, Append(Each(g, found), g[f])) = Fill(gaps, Each(g, found)) \o g[f]
        <5> DEFINE e == Each(g, found)
                   t == g[f]
        <5>1. e \in Seq(Seq(Atoms)) /\ Len(gaps) = Len(e) + 1 /\ t \in Seq(Atoms)
          BY <2>5
        <5> HIDE DEF e, t, found
        <5>2. Fill(Append(gaps, <<>>), Append(e, t)) = Fill(gaps, e) \o t
          BY <2>4, <5>1, FillAppend
        <5> QED
          BY <5>2 DEF e, t
      <4> HIDE DEF wide, found, more
      <4> QED
        BY <2>5, <3>1, <4>1, <4>2, <4>3
    <3> HIDE DEF wide, found, more
    <3>5. Cuts(rt, more, wide)
      BY <2>3, <3>1, <3>2, <3>3, <3>4 DEF Cuts
    <3> QED
      BY <2>6, <3>5 DEF more
  <2>8. CASE ~ Detected(rt, f)
    <3> DEFINE long == Longer(gaps, f.slice)
    <3>1. Found(rt, more) = found
      BY <2>8, FoundNext
    <3>2. long \in Seq(Seq(Words)) /\ Len(long) = Len(gaps)
      <4>1. Len(gaps) \in 1..Len(gaps)
        BY <2>2, <2>3
      <4>2. gaps[Len(gaps)] \in Seq(Words)
        BY <2>3, <4>1, ElementOfSeq
      <4>3. gaps[Len(gaps)] \o f.slice \in Seq(Words)
        BY <2>3, <4>2, ConcatProperties
      <4> QED
        BY <2>3, <4>1, <4>3, ExceptSeq DEF Longer
    <3>3. ASSUME NEW g \in [Finding -> Seq(Atoms)]
          PROVE  Fill(long, Each(g, Found(rt, more))) = Spread(Between(rt, g), more)
      <4>1. Between(rt, g)[f] = f.slice
        BY <2>8 DEF Between
      <4>2. Fill(long, Each(g, found)) = Fill(gaps, Each(g, found)) \o f.slice
        <5> DEFINE e == Each(g, found)
                   t == f.slice
        <5>1. e \in Seq(Seq(Atoms)) /\ Len(gaps) = Len(e) + 1 /\ t \in Seq(Atoms)
          BY <2>4, <2>5
        <5> HIDE DEF e, t, found
        <5>2. Fill(Longer(gaps, t), e) = Fill(gaps, e) \o t
          BY <2>4, <5>1, FillLonger
        <5> QED
          BY <5>2 DEF e, t
      <4> HIDE DEF long, found, more
      <4> QED
        BY <2>5, <3>1, <4>1, <4>2
    <3> HIDE DEF long, found, more
    <3>4. Cuts(rt, more, long)
      BY <2>3, <3>1, <3>2, <3>3 DEF Cuts
    <3> QED
      BY <2>6, <3>4 DEF more
  <2> QED
    BY <2>7, <2>8
<1> HIDE DEF Good
<1>3. Seq(Finding) \subseteq Good
  BY <1>1, <1>2, SeqInduction
<1> QED
  BY <1>3 DEF Good

\* A call of mask_text: a string and what is found in it.
MaskInput == [gaps : Seq(Seq(Words)), spans : Seq(Finding)]

\* What the Masker promises of these books.  What its calls return goes into the
\* requests, and is compared with the promise below.
Promise == INSTANCE PlaceholderBook WITH
    Threads <- Requests, Texts <- Seq(Words), Inputs <- MaskInput,
    book <- books, answer <- [r \in Requests |-> [op |-> "none"]]

\* The call that masks the string a request has come to.
Calls(r, input) ==
    /\ input \in MaskInput
    /\ input.spans = Found(runtime, NextString(r))
    /\ Fill(input.gaps, [i \in DOMAIN input.spans |-> input.spans[i].slice])
         = FlattenSeq(Clear(NextString(r)))

GrowsBy(r, input) ==
    Promise!Grow(BodyOf(r).session, books'[BodyOf(r).session], input)

\* The string handed on is what the call returned.
Returned(r, input) ==
    FlattenSeq(Last(req'[r].out)) = Promise!Masked(books'[BodyOf(r).session], input)

\* What g puts when it masks.
Putting(book) == [f \in Finding |-> IF f \in Replaceable(book) THEN <<Stands(book, f)>> ELSE <<>>]

LEMMA MaskingPuts ==
    ASSUME NEW book \in Books
    PROVE  Putting(book) \in [Finding -> Seq(Atoms)]
<1>1. ASSUME NEW f \in Replaceable(book) PROVE <<Stands(book, f)>> \in Seq(Atoms)
  <2>1. Stands(book, f) \in Atoms
    BY StandsType
  <2> QED
    BY <2>1
<1>2. <<>> \in Seq(Atoms)
  OBVIOUS
<1> QED
  BY <1>1, <1>2 DEF Putting

LEMMA MaskedStringIs ==
    ASSUME NEW rt, NEW book \in Books, NEW string \in Seq(Handled(rt, book))
    PROVE  FlattenSeq(MaskedString(rt, book, string))
             = Spread(Between(rt, Putting(book)), string)
<1>1. \A i \in DOMAIN string : string[i] \in Handled(rt, book)
  BY LenProperties, ElementOfSeq
<1>2. ASSUME NEW f \in Handled(rt, book)
      PROVE  Between(rt, Putting(book))[f]
               = IF Detected(rt, f) THEN <<Stands(book, f)>> ELSE f.slice
  <2>1. f \in Finding /\ (Detected(rt, f) => f \in Replaceable(book))
    BY DEF Handled
  <2> QED
    BY <2>1 DEF Between, Putting
<1>3. MaskedString(rt, book, string)
        = [i \in DOMAIN string |-> Between(rt, Putting(book))[string[i]]]
  BY <1>1, <1>2 DEF MaskedString
<1> QED
  BY <1>3 DEF Spread

LEMMA ClearIs ==
    ASSUME NEW rt, NEW string \in Seq(Finding), NEW text,
           text = [f \in Finding |-> f.slice]
    PROVE  FlattenSeq(Clear(string)) = Spread(Between(rt, text), string)
<1>1. \A i \in DOMAIN string : string[i] \in Finding
  BY LenProperties, ElementOfSeq
<1>2. \A f \in Finding : Between(rt, text)[f] = f.slice
  BY DEF Between
<1>3. Clear(string) = [i \in DOMAIN string |-> Between(rt, text)[string[i]]]
  BY <1>1, <1>2 DEF Clear
<1> QED
  BY <1>3 DEF Spread

\* Any string can be masked by one call, and what that returns is MaskedString.
LEMMA CallExists ==
    ASSUME NEW rt, NEW book \in Books, NEW string \in Seq(Finding)
    PROVE  \E input \in MaskInput :
             /\ input.spans = Found(rt, string)
             /\ Fill(input.gaps, [i \in DOMAIN input.spans |-> input.spans[i].slice])
                  = FlattenSeq(Clear(string))
             /\ string \in Seq(Handled(rt, book)) =>
                  FlattenSeq(MaskedString(rt, book, string)) = Promise!Masked(book, input)
<1> DEFINE found == Found(rt, string)
           text == [f \in Finding |-> f.slice]
<1>1. PICK gaps : Cuts(rt, string, gaps)
  BY CutsExist
<1>2. found \in Seq(Finding)
  BY FoundType
<1>3. text \in [Finding -> Seq(Atoms)]
  <2>1. Words \subseteq Atoms
    BY DEF Atoms
  <2>2. Seq(Words) \subseteq Seq(Atoms)
    BY <2>1, SeqMonotonic
  <2>3. \A f \in Finding : f.slice \in Seq(Words)
    BY DEF Finding
  <2> QED
    BY <2>2, <2>3
<1> DEFINE input == [gaps |-> gaps, spans |-> found]
<1>4. input \in MaskInput /\ input.gaps = gaps /\ input.spans = found
  BY <1>1, <1>2 DEF Cuts, MaskInput
<1>5. \A i \in DOMAIN found : found[i] \in Finding
  BY <1>2, LenProperties, ElementOfSeq
<1>6. Fill(gaps, [i \in DOMAIN found |-> found[i].slice]) = FlattenSeq(Clear(string))
  <2>1. [i \in DOMAIN found |-> found[i].slice] = Each(text, found)
    BY <1>5 DEF Each
  <2> HIDE DEF text
  <2>2. Fill(gaps, Each(text, found)) = Spread(Between(rt, text), string)
    BY <1>1, <1>3 DEF Cuts
  <2>3. FlattenSeq(Clear(string)) = Spread(Between(rt, text), string)
    BY ClearIs DEF text
  <2> QED
    BY <2>1, <2>2, <2>3
<1>7. ASSUME string \in Seq(Handled(rt, book))
      PROVE  FlattenSeq(MaskedString(rt, book, string)) = Promise!Masked(book, input)
  <2>1. \A i \in DOMAIN found : found[i] \in Replaceable(book)
    <3>1. found = Spread(Pick(rt, book), string)
      BY <1>7, FoundIsSpread
    <3>2. Puts(Pick(rt, book), Handled(rt, book), Replaceable(book))
      BY PickPuts
    <3>3. found \in Seq(Replaceable(book))
      BY <1>7, <3>1, <3>2, SpreadType
    <3> HIDE DEF found
    <3> QED
      BY <3>3, LenProperties, ElementOfSeq
  <2>2. \A f \in Finding : f.action \in {"mask", "redact"}
    BY DEF Finding
  <2>3. \A i \in DOMAIN found :
          (IF found[i].action = "mask" THEN <<book[found[i].text]>> ELSE <<Redacted>>)
            = Putting(book)[found[i]]
    BY <1>5, <2>1, <2>2 DEF Putting, Stands
  <2>4. [i \in DOMAIN found |-> IF found[i].action = "mask"
                                 THEN <<book[found[i].text]>> ELSE <<Redacted>>]
          = Each(Putting(book), found)
    BY <2>3 DEF Each
  <2>5. Promise!Masked(book, input) = Fill(gaps, Each(Putting(book), found))
    BY <1>4, <2>4 DEF Promise!Masked
  <2>6. Fill(gaps, Each(Putting(book), found)) = Spread(Between(rt, Putting(book)), string)
    BY <1>1, MaskingPuts DEF Cuts
  <2>7. FlattenSeq(MaskedString(rt, book, string)) = Spread(Between(rt, Putting(book)), string)
    BY <1>7, MaskedStringIs
  <2> QED
    BY <2>5, <2>6, <2>7
<1>8. Fill(input.gaps, [i \in DOMAIN input.spans |-> input.spans[i].slice])
        = FlattenSeq(Clear(string))
  BY <1>4, <1>6
<1> HIDE DEF input
<1> QED
  BY <1>4, <1>7, <1>8

\* Remembering what a call found is the growth the Masker promises.
LEMMA RememberedAsPromised ==
    ASSUME NEW s \in Sessions, books \in [Sessions -> Books],
           NEW input \in MaskInput,
           books' = [books EXCEPT ![s] = RememberAll(books[s], input.spans)]
    PROVE  Promise!Grow(s, books'[s], input)
<1> DEFINE new == RememberAll(books[s], input.spans)
<1>1. books[s] \in Books /\ input.spans \in Seq(Finding)
  BY DEF MaskInput
<1>2. RemembersAll(new, books[s], input.spans)
  BY <1>1, RememberedAll
<1>3. books'[s] = new /\ books' = [books EXCEPT ![s] = new]
  OBVIOUS
<1> HIDE DEF new
<1>4. DOMAIN new = DOMAIN books[s] \cup Promise!ToMask(input)
  BY <1>2 DEF RemembersAll, Continues, Promise!ToMask
<1>5. \A o \in DOMAIN books[s] : new[o] = books[s][o]
  BY <1>2 DEF RemembersAll, Continues
<1>6. (\A o \in DOMAIN new : new[o] \in Placeholder) /\ Promise!OneToOne(new)
  BY <1>2, BookFacts DEF RemembersAll, GoodBook, Promise!OneToOne
<1> QED
  BY <1>3, <1>4, <1>5, <1>6 DEF Promise!Grow

\* A step that masks a string.
LEMMA ContentAsPromised ==
    ASSUME Inv, NEW r \in Requests, MaskContent(r)
    PROVE  \E input \in MaskInput :
             Calls(r, input) /\ GrowsBy(r, input) /\ Returned(r, input)
<1> DEFINE s == BodyOf(r).session
           string == NextString(r)
           book == RememberAll(books[s], Found(runtime, string))
           masked == MaskedString(runtime, book, string)
<1>1. req[r] \in Request /\ BodyOf(r) \in Bodies /\ MoreStrings(r)
  BY AtMask DEF MaskContent, MoreStrings, At, BodyOf
<1>2. s \in Sessions /\ books[s] \in Books /\ books \in [Sessions -> Books]
  BY <1>1, BodyFacts DEF Inv, RequestInv
<1>3. string \in Seq(Finding) /\ Found(runtime, string) \in Seq(Finding)
  <2>1. string \in Seq(Finding)
    BY <1>1, StringFacts
  <2> QED
    BY <2>1, FoundType
<1>4. book \in Books /\ string \in Seq(Handled(runtime, book))
  BY <1>2, <1>3, RememberedAll, StringHandled DEF RemembersAll
<1>5. books' = [books EXCEPT ![s] = book] /\ books'[s] = book
  BY <1>2 DEF MaskContent
<1>6. Last(req'[r].out) = masked
  <2>1. req' = [req EXCEPT ![r].out = Append(@, masked),
                           ![r].events = @ \o Events(runtime, book, string)]
    BY DEF MaskContent
  <2>2. req'[r].out = Append(req[r].out, masked)
    <3> HIDE DEF masked, book, string
    <3> QED
      BY <1>1, <2>1 DEF Inv, RequestInv, Request
  <2>3. req[r].out \in Seq(Seq(Seq(Atoms))) /\ masked \in Seq(Seq(Atoms))
    BY <1>1, <1>4, MaskedStringType DEF Request, Texts
  <2> HIDE DEF masked
  <2>4. /\ Len(Append(req[r].out, masked)) = Len(req[r].out) + 1
        /\ Append(req[r].out, masked)[Len(req[r].out) + 1] = masked
    BY <2>3, AppendProperties
  <2> QED
    BY <2>2, <2>4 DEF Last
<1>7. PICK input \in MaskInput :
        /\ input.spans = Found(runtime, string)
        /\ Fill(input.gaps, [i \in DOMAIN input.spans |-> input.spans[i].slice])
             = FlattenSeq(Clear(string))
        /\ FlattenSeq(masked) = Promise!Masked(book, input)
  BY <1>3, <1>4, CallExists
<1>8. Calls(r, input)
  BY <1>7 DEF Calls
<1>9. GrowsBy(r, input)
  BY <1>2, <1>5, <1>7, RememberedAsPromised DEF GrowsBy
<1>10. Returned(r, input)
  BY <1>5, <1>6, <1>7 DEF Returned
<1> QED
  BY <1>8, <1>9, <1>10

\* A panic leaves the books as they were or as the call it ends made them.
LEMMA PanicAsPromised ==
    ASSUME Inv, NEW r \in Requests, MaskPanics(r), books' # books
    PROVE  \E input \in MaskInput : Calls(r, input) /\ GrowsBy(r, input)
<1> DEFINE s == BodyOf(r).session
           string == NextString(r)
<1>1. req[r] \in Request /\ BodyOf(r) \in Bodies /\ MoreStrings(r)
  BY AtMask DEF MaskPanics, MoreStrings, At, BodyOf
<1>2. s \in Sessions /\ books[s] \in Books /\ books \in [Sessions -> Books]
  BY <1>1, BodyFacts DEF Inv, RequestInv
<1>3. string \in Seq(Finding)
  BY <1>1, StringFacts
<1>4. books' = [books EXCEPT ![s] = RememberAll(books[s], Found(runtime, string))]
  BY <1>2 DEF MaskPanics
<1>5. PICK input \in MaskInput :
        /\ input.spans = Found(runtime, string)
        /\ Fill(input.gaps, [i \in DOMAIN input.spans |-> input.spans[i].slice])
             = FlattenSeq(Clear(string))
  BY <1>2, <1>3, CallExists
<1>6. Calls(r, input)
  BY <1>5 DEF Calls
<1>7. GrowsBy(r, input)
  BY <1>2, <1>4, <1>5, RememberedAsPromised DEF GrowsBy
<1> QED
  BY <1>6, <1>7

\* Putting the originals back piece by piece gives what rehydrate returns for the whole
\* string.
LEMMA RehydratedWhole ==
    ASSUME NEW book \in Books, NEW sent \in Texts, NEW i \in DOMAIN sent
    PROVE  FlattenSeq(Rehydrated(book, sent)[i]) \in Rehydrations(book, FlattenSeq(sent[i]))
<1> DEFINE h == Back(book, DOMAIN book, Atoms)
<1>1. sent[i] \in Seq(Seq(Atoms)) /\ \A j \in DOMAIN sent[i] : sent[i][j] \in Seq(Atoms)
  BY TextsFacts
<1>2. FlattenSeq(sent[i]) \in Seq(Atoms)
  BY <1>1, FlattenType
<1>3. \A j \in DOMAIN sent[i] :
        (CHOOSE t \in Rehydrations(book, sent[i][j]) : TRUE) = Spread(h, sent[i][j])
  BY <1>1, RestoredIs DEF Restored
<1> HIDE DEF h
<1>4. Rehydrated(book, sent)[i] = EachSpread(h, sent[i])
  BY <1>3 DEF Rehydrated, EachSpread
<1>5. FlattenSeq(EachSpread(h, sent[i])) = Spread(h, FlattenSeq(sent[i]))
  BY <1>1, BackFacts, SpreadFlatten DEF h
<1>6. Rehydrations(book, FlattenSeq(sent[i])) = {Spread(h, FlattenSeq(sent[i]))}
  BY <1>2, BookFacts, RehydratesTo DEF h
<1> QED
  BY <1>4, <1>5, <1>6

\* Each string of the answer is one rehydrate may return for what was sent.
ReturnsRehydrated(r) ==
    LET sent == Last(req[r].sent)
    IN \A i \in DOMAIN sent :
          FlattenSeq(req'[r].answer[i])
            \in Rehydrations(books[BodyOf(r).session], FlattenSeq(sent[i]))

LEMMA AnswerAsPromised ==
    ASSUME Inv, NEW r \in Requests, Answer(r), req'[r].status = 200,
           IsCompletion(r), BodyOf(r).parses
    PROVE  ReturnsRehydrated(r)
<1> DEFINE last == Last(req[r].sent)
           book == books[BodyOf(r).session]
           session == IsCompletion(r) /\ BodyOf(r).parses
           Answers(status) ==
              /\ ~ Retries(r, status)
              /\ req' = [req EXCEPT ![r].at = IF session THEN "record" ELSE "done",
                                    ![r].status = status,
                                    ![r].answer = IF status # 200 THEN <<>>
                                                  ELSE IF session
                                                  THEN Rehydrated(book, last) ELSE last]
<1>1. req[r] \in Request /\ req[r].body \in Bodies /\ last = req[r].out
  BY AtAwait DEF Answer, At
<1>2. book \in Books /\ last \in Texts
  <2>1. BodyOf(r).session \in Sessions
    BY <1>1, BodyFacts DEF BodyOf
  <2> QED
    BY <1>1, <2>1, SessionBook DEF Inv, Request
<1> HIDE DEF Answers
<1>3. PICK status \in Statuses : Answers(status)
  <2>1. \E status \in Statuses : Answers(status)
    BY Zenon DEF Answer, Answers
  <2> QED
    BY <2>1
<1>4. req'[r].status = status /\ (status = 200 => req'[r].answer = Rehydrated(book, last))
  <2> HIDE DEF book, last
  <2> QED
    BY <1>1, <1>3 DEF Answers, Inv, RequestInv, Request
<1>5. req'[r].answer = Rehydrated(book, last)
  BY <1>4
<1>6. \A i \in DOMAIN last :
        FlattenSeq(req'[r].answer[i]) \in Rehydrations(book, FlattenSeq(last[i]))
  <2> HIDE DEF book, last
  <2> QED
    BY <1>2, <1>5, RehydratedWhole
<1> QED
  BY <1>6 DEF ReturnsRehydrated

AsPromised ==
    /\ \/ Restart
       \/ books' = books
       \/ \E r \in Requests, input \in MaskInput :
             MoreStrings(r) /\ Calls(r, input) /\ GrowsBy(r, input)
    /\ \A r \in Requests :
          MaskContent(r) =>
              \E input \in MaskInput :
                  Calls(r, input) /\ GrowsBy(r, input) /\ Returned(r, input)
    /\ \A r \in Requests :
          Answer(r) /\ req'[r].status = 200 /\ IsCompletion(r) /\ BodyOf(r).parses
              => ReturnsRehydrated(r)

LEMMA NextAsPromised == Inv /\ [Next]_vars => [AsPromised]_vars
<1> SUFFICES ASSUME Inv, Next PROVE AsPromised
  OBVIOUS
<1>1. \A r \in Requests :
        MaskContent(r) =>
            \E input \in MaskInput :
                Calls(r, input) /\ GrowsBy(r, input) /\ Returned(r, input)
  BY ContentAsPromised
<1>2. ASSUME NEW r \in Requests, Arrive(r) \/ Handle(r) \/ HangUp(r), books' # books
      PROVE  \E input \in MaskInput :
                MoreStrings(r) /\ Calls(r, input) /\ GrowsBy(r, input)
  <2>1. MaskContent(r) \/ MaskPanics(r)
    BY <1>2 DEF Handle, Arrive, HangUp, Gate, Serialize, Forward, RetryUnmasked,
                Answer, Record
  <2>2. MoreStrings(r)
    BY <2>1 DEF MaskContent, MaskPanics
  <2> QED
    BY <1>1, <1>2, <2>1, <2>2, PanicAsPromised
<1>3. ASSUME NEW a \in Admins, Dashboard(a) PROVE books' = books
  BY <1>3 DEF Dashboard, SavePacks, SaveFails, SwapRuntime, ClearLedger, ResetStats, Preview
<1> QED
  BY <1>1, <1>2, <1>3, AnswerAsPromised DEF Next, AsPromised

\* Proxy uses the Masker as PlaceholderBook promises it: whatever requests,
\* panics and the dashboard do, a step changes the books by one call of mask_text or not
\* at all - the book of one session gets a placeholder for each text that call was to mask
\* and for no other, never gives one twice and never changes one - and the string a
\* request goes on with is the one that call returns.  Only a restart empties the books.
\* And each string of an answer is what rehydrate returns for the string sent.
THEOREM MaskerAsPromised == Spec => [][AsPromised]_vars
<1> QED
  BY Invariance, NextAsPromised, PTL DEF Spec

-----------------------------------------------------------------------------
(* Requests come to an end                                                 *)

\* The most steps a request can still take, the retry of one that was masked included.
StepsLeft(q) ==
    CASE q.at = "gate"    -> 8 + Len(q.body.strings)
      [] q.at = "mask"    -> 7 + Len(q.body.strings) - Len(q.out)
      [] q.at = "forward" -> IF Masked(q) THEN 5 ELSE 3
      [] q.at = "await"   -> IF Masked(q) THEN 4 ELSE 2
      [] q.at = "record"  -> IF q.body.kind = "completion" THEN 1 ELSE 6
      [] OTHER            -> 0

Nearer(q, old) == StepsLeft(q) < StepsLeft(old)

Ending ==
    \A r \in Requests :
        /\ StepsLeft(req[r]) \in Nat
        /\ Handle(r) \/ (~ At(r, "new") /\ req'[r] # req[r]) => Nearer(req'[r], req[r])

LEMMA LeftAtGate ==
    ASSUME NEW q, NEW n \in Nat, q.at = "gate", Len(q.body.strings) = n
    PROVE  StepsLeft(q) = 8 + n
BY DEF StepsLeft

LEMMA LeftAtMask ==
    ASSUME NEW q, NEW n \in Nat, NEW m \in Nat, q.at = "mask",
           Len(q.body.strings) = n, Len(q.out) = m
    PROVE  StepsLeft(q) = 7 + n - m
BY DEF StepsLeft

LEMMA LeftAtForward ==
    ASSUME NEW q, q.at = "forward"
    PROVE  StepsLeft(q) = IF Masked(q) THEN 5 ELSE 3
BY DEF StepsLeft

LEMMA LeftAtAwait ==
    ASSUME NEW q, q.at = "await"
    PROVE  StepsLeft(q) = IF Masked(q) THEN 4 ELSE 2
BY DEF StepsLeft

LEMMA LeftAtRecord ==
    ASSUME NEW q, q.at = "record"
    PROVE  StepsLeft(q) = IF q.body.kind = "completion" THEN 1 ELSE 6
BY DEF StepsLeft

LEMMA LeftAtRest ==
    ASSUME NEW q, q.at \notin Active
    PROVE  StepsLeft(q) = 0
BY DEF StepsLeft, Active

LEMMA StepsLeftNat ==
    ASSUME RequestInv, NEW r \in Requests
    PROVE  /\ StepsLeft(req[r]) \in Nat
           /\ req[r].at \in Active
                => StepsLeft(req[r]) > 0
<1>1. req[r] \in Request /\ Sound(req[r], books)
  BY RequestFacts
<1>2. CASE req[r].at \in {"gate", "mask"}
  <2>1. req[r].body \in Bodies /\ InHand(req[r], books[req[r].body.session])
    BY <1>1, <1>2 DEF Sound, Active
  <2>2. Len(req[r].body.strings) \in Nat /\ Len(req[r].out) \in Nat
    BY <1>1, <2>1, BodyFacts, LenProperties DEF Request, Texts
  <2>3. Len(req[r].out) <= Len(req[r].body.strings)
    BY <2>1 DEF InHand, Faithful
  <2> QED
    BY <1>2, <2>2, <2>3, LeftAtGate, LeftAtMask
<1>3. CASE req[r].at \notin {"gate", "mask"}
  BY <1>3, LeftAtForward, LeftAtAwait, LeftAtRecord, LeftAtRest DEF Active
<1> QED
  BY <1>2, <1>3

LEMMA AnswerPlace ==
    ASSUME req \in [Requests -> Request], NEW r \in Requests, Answer(r)
    PROVE  /\ req' = [req EXCEPT ![r] = req'[r]]
           /\ req'[r].body = req[r].body
           /\ req'[r].out = req[r].out /\ req'[r].sent = req[r].sent
           /\ req'[r].serialized = req[r].serialized
           /\ \/ req'[r].at = "done"
              \/ req'[r].at = "record" /\ req[r].body.kind = "completion"
<1> DEFINE session == IsCompletion(r) /\ BodyOf(r).parses
           last == Last(req[r].sent)
           place == IF session THEN "record" ELSE "done"
           returned(status) == IF status # 200 THEN <<>>
                               ELSE IF session
                               THEN Rehydrated(books[BodyOf(r).session], last)
                               ELSE last
           Answers(status) ==
             /\ ~ Retries(r, status)
             /\ req' = [req EXCEPT ![r].at = place, ![r].status = status,
                                   ![r].answer = returned(status)]
<1>1. \E status \in Statuses : Answers(status)
  BY Zenon DEF Answer, Answers
<1> HIDE DEF Answers
<1>2. PICK status : Answers(status)
  BY <1>1
<1>3. req[r] \in Request
  OBVIOUS
<1>4. place \in {"record", "done"} /\ (place = "record" => session)
  OBVIOUS
<1> HIDE DEF place, returned, session
<1>5. req' = [req EXCEPT ![r] = [req[r] EXCEPT !.at = place, !.status = status,
                                               !.answer = returned(status)]]
  <2> DEFINE answer == returned(status)
  <2>1. req' = [req EXCEPT ![r].at = place, ![r].status = status, ![r].answer = answer]
    BY <1>2, Zenon DEF Answers
  <2> HIDE DEF answer
  <2>2. req' = [req EXCEPT ![r] = [req[r] EXCEPT !.at = place, !.status = status,
                                                 !.answer = answer]]
    BY <2>1
  <2> QED
    BY <2>2 DEF answer
<1>6. /\ req' = [req EXCEPT ![r] = req'[r]]
      /\ req'[r] = [req[r] EXCEPT !.at = place, !.status = status,
                                  !.answer = returned(status)]
  <2> DEFINE q == [req[r] EXCEPT !.at = place, !.status = status, !.answer = returned(status)]
  <2>1. req' = [req EXCEPT ![r] = q]
    BY <1>5
  <2> HIDE DEF q
  <2>2. req'[r] = q
    BY <2>1
  <2> QED
    BY <2>1, <2>2 DEF q
<1>7. /\ req'[r].at = place /\ req'[r].body = req[r].body
      /\ req'[r].out = req[r].out /\ req'[r].sent = req[r].sent
      /\ req'[r].serialized = req[r].serialized
  BY <1>3, <1>6 DEF Request
<1> QED
  BY <1>4, <1>6, <1>7 DEF IsCompletion, BodyOf, session

LEMMA HandleNearer ==
    ASSUME Inv, NEW r \in Requests, Handle(r)
    PROVE  Nearer(req'[r], req[r])
<1> DEFINE old == req[r]
           new == req'[r]
<1>1. RequestInv /\ req \in [Requests -> Request] /\ old \in Request
  BY DEF Inv, RequestInv
<1>2. CASE Gate(r)
  <2>1. /\ old.at = "gate" /\ Len(old.body.strings) \in Nat
    <3>1. old.at = "gate" /\ old.body \in Bodies
      BY <1>1, <1>2, RequestFacts DEF Gate, At, Sound
    <3> QED
      BY <3>1, BodyFacts, LenProperties
  <2>2. \/ new.at = "done"
        \/ new.at = "mask" /\ new.body = old.body /\ new.out = <<>>
        \/ new.at = "forward"
    BY <1>1, <1>2 DEF Gate, Request
  <2>3. PICK n \in Nat : n = Len(old.body.strings)
    BY <2>1
  <2>4. StepsLeft(old) = 8 + n
    BY <2>1, <2>3, LeftAtGate
  <2>5. CASE new.at = "done"
    BY <2>4, <2>5, LeftAtRest DEF Nearer, Active
  <2>6. CASE new.at = "mask" /\ new.body = old.body /\ new.out = <<>>
    <3>1. Len(new.body.strings) = n /\ Len(new.out) = 0 /\ new.at = "mask"
      BY <2>3, <2>6
    <3> HIDE DEF new
    <3>2. StepsLeft(new) = 7 + n - 0
      BY <3>1, LeftAtMask
    <3> QED
      BY <2>4, <3>2 DEF Nearer, new
  <2>7. CASE new.at = "forward"
    BY <2>4, <2>7, LeftAtForward DEF Nearer
  <2> QED
    BY <2>2, <2>5, <2>6, <2>7
<1>3. CASE MaskContent(r)
  <2> DEFINE masked == MaskedString(runtime, RememberAll(books[BodyOf(r).session],
                                       Found(runtime, NextString(r))), NextString(r))
  <2>1. old.at = "mask" /\ old.body \in Bodies /\ Len(old.out) < Len(old.body.strings)
    BY <1>3, AtMask DEF MaskContent, MoreStrings, At, BodyOf
  <2>2. new.at = "mask" /\ new.body = old.body /\ new.out = Append(old.out, masked)
    <3> DEFINE more == Events(runtime, RememberAll(books[BodyOf(r).session],
                                Found(runtime, NextString(r))), NextString(r))
    <3>1. req' = [req EXCEPT ![r].out = Append(@, masked), ![r].events = @ \o more]
      BY <1>3 DEF MaskContent
    <3> HIDE DEF masked, more
    <3> QED
      BY <1>1, <2>1, <3>1 DEF Request
  <2> HIDE DEF masked
  <2>3. Len(new.out) = Len(old.out) + 1 /\ Len(old.out) \in Nat
    BY <1>1, <2>2, AppendProperties DEF Request, Texts
  <2>4. Len(old.body.strings) \in Nat
    BY <2>1, BodyFacts, LenProperties
  <2> QED
    <3>1. StepsLeft(old) = 7 + Len(old.body.strings) - Len(old.out)
      BY <2>1, <2>3, <2>4, LeftAtMask
    <3>2. StepsLeft(new) = 7 + Len(old.body.strings) - (Len(old.out) + 1)
      <4>1. Len(new.out) \in Nat /\ Len(new.body.strings) = Len(old.body.strings)
        BY <2>2, <2>3
      <4>2. StepsLeft(new) = 7 + Len(old.body.strings) - Len(new.out)
        BY <2>2, <2>4, <4>1, LeftAtMask
      <4> QED
        BY <2>3, <4>2
    <3> DEFINE n == Len(old.body.strings)
               m == Len(old.out)
    <3>3. n \in Nat /\ m \in Nat /\ StepsLeft(old) = 7 + n - m
          /\ StepsLeft(new) = 7 + n - (m + 1)
      BY <2>3, <2>4, <3>1, <3>2
    <3> HIDE DEF old, new, n, m
    <3>4. StepsLeft(new) < StepsLeft(old)
      BY <3>3
    <3> QED
      BY <3>4 DEF Nearer, old, new
<1>4. CASE MaskPanics(r) \/ Serialize(r)
  <2>1. /\ old.at = "mask" /\ old.body \in Bodies
        /\ InHand(old, books[old.body.session])
    BY <1>4, AtMask DEF MaskPanics, MoreStrings, Serialize, At
  <2>2. Len(old.body.strings) \in Nat /\ Len(old.out) \in Nat
        /\ Len(old.out) <= Len(old.body.strings)
    BY <1>1, <2>1, BodyFacts, LenProperties DEF Request, Texts, InHand, Faithful
  <2>3. new.at \in {"forward", "record"}
    <3>1. CASE MaskPanics(r)
      BY <1>1, <3>1 DEF MaskPanics, Request
    <3>2. CASE Serialize(r)
      BY <1>1, <3>2 DEF Serialize, Request
    <3> QED
      BY <1>4, <3>1, <3>2
  <2> QED
    BY <2>1, <2>2, <2>3, LeftAtMask, LeftAtForward, LeftAtRecord DEF Nearer
<1>5. CASE Forward(r)
  <2>1. /\ old.at = "forward" /\ new.at = "await" /\ new.body = old.body
        /\ new.out = old.out /\ new.serialized = old.serialized
    BY <1>1, <1>5 DEF Forward, At, Request
  <2> QED
    BY <2>1, LeftAtForward, LeftAtAwait DEF Nearer, Masked
<1>6. CASE RetryUnmasked(r)
  <2>1. old.at = "await" /\ Masked(old)
    BY <1>6, MaskedIs DEF RetryUnmasked, Retries, At
  <2>2. new.at = "forward" /\ new.serialized = FALSE
    BY <1>1, <1>6 DEF RetryUnmasked, Request
  <2> QED
    BY <2>1, <2>2, LeftAtForward, LeftAtAwait DEF Nearer, Masked
<1>7. CASE Answer(r)
  <2>1. old.at = "await"
    BY <1>7 DEF Answer, At
  <2>2. new.at = "done" \/ (new.at = "record" /\ new.body = old.body
                            /\ old.body.kind = "completion")
    BY <1>1, <1>7, AnswerPlace DEF Request
  <2> QED
    BY <2>1, <2>2, LeftAtAwait, LeftAtRecord, LeftAtRest DEF Nearer, Active
<1>8. CASE Record(r)
  <2>1. /\ old.at = "record"
        /\ IF old.body.kind = "completion" THEN new.at = "done" ELSE new.at = "forward"
    BY <1>1, <1>8 DEF Record, At, IsCompletion, BodyOf, Request
  <2> QED
    BY <2>1, LeftAtForward, LeftAtRecord, LeftAtRest DEF Nearer, Active
<1> QED
  BY <1>2, <1>3, <1>4, <1>5, <1>6, <1>7, <1>8 DEF Handle

\* What a client or a handler does changes its own request only.
LEMMA OwnRequest ==
    ASSUME req \in [Requests -> Request], NEW p \in Requests,
           Arrive(p) \/ Handle(p) \/ HangUp(p)
    PROVE  req' = [req EXCEPT ![p] = req'[p]]
<1>1. CASE Arrive(p)
  BY <1>1 DEF Arrive
<1>2. CASE Gate(p)
  BY <1>2 DEF Gate
<1>3. CASE MaskContent(p)
  BY <1>3 DEF MaskContent
<1>4. CASE MaskPanics(p)
  BY <1>4 DEF MaskPanics
<1>5. CASE Serialize(p) \/ Forward(p)
  BY <1>5 DEF Serialize, Forward
<1>6. CASE RetryUnmasked(p) \/ Record(p) \/ HangUp(p)
  BY <1>6 DEF RetryUnmasked, Record, HangUp
<1>7. CASE Answer(p)
  BY <1>7, AnswerPlace
<1> QED
  BY <1>1, <1>2, <1>3, <1>4, <1>5, <1>6, <1>7 DEF Handle

LEMMA NextEnding == Inv /\ [Next]_vars => [Ending]_vars
<1> SUFFICES ASSUME Inv, Next PROVE Ending
  OBVIOUS
<1>1. RequestInv /\ req \in [Requests -> Request]
  BY DEF Inv, RequestInv
<1>2. ASSUME NEW r \in Requests, req'[r] # req[r], ~ At(r, "new")
      PROVE  Handle(r) \/ (req'[r].at = "gone"
                           /\ req[r].at \in Active)
  <2>1. CASE \E p \in Requests : Arrive(p) \/ Handle(p) \/ HangUp(p)
    <3>1. PICK p \in Requests : Arrive(p) \/ Handle(p) \/ HangUp(p)
      BY <2>1
    <3>2. p = r
      <4>1. req' = [req EXCEPT ![p] = req'[p]]
        BY <1>1, <3>1, OwnRequest
      <4>2. p # r => req'[r] = req[r]
        BY <1>1, <4>1
      <4> QED
        BY <1>2, <4>2
    <3>3. ~ Arrive(r)
      BY <1>2 DEF Arrive
    <3>4. ASSUME HangUp(r) PROVE req'[r].at = "gone" /\ req[r].at = "await"
      BY <1>1, <3>4 DEF HangUp, At, Request
    <3> QED
      BY <3>1, <3>2, <3>3, <3>4 DEF Active
  <2>2. CASE \E a \in Admins : Dashboard(a)
    BY <1>2, <2>2 DEF Dashboard, SavePacks, SaveFails, SwapRuntime, ClearLedger,
                      ResetStats, Preview
  <2>3. CASE Restart
    <3>1. req' = [p \in Requests |-> IF At(p, "new") \/ At(p, "done") THEN req[p]
                                     ELSE [req[p] EXCEPT !.at = "gone"]]
      BY <2>3 DEF Restart
    <3>2. ~ At(r, "done") /\ req'[r] = [req[r] EXCEPT !.at = "gone"]
      BY <1>2, <3>1
    <3>3. req[r].at # "gone"
      BY <1>1, <1>2, <3>2 DEF Request
    <3> QED
      BY <1>1, <1>2, <3>2, <3>3 DEF Request, At, Active
  <2> QED
    BY <2>1, <2>2, <2>3 DEF Next
<1>3. ASSUME NEW r \in Requests, Handle(r) \/ (~ At(r, "new") /\ req'[r] # req[r])
      PROVE  Nearer(req'[r], req[r])
  <2>1. CASE Handle(r)
    BY <2>1, HandleNearer
  <2>2. CASE req'[r].at = "gone"
              /\ req[r].at \in Active
    <3>1. StepsLeft(req[r]) > 0
      BY <1>1, <2>2, StepsLeftNat
    <3>2. StepsLeft(req'[r]) = 0
      BY <2>2, LeftAtRest DEF Active
    <3> QED
      BY <3>1, <3>2 DEF Nearer
  <2> QED
    BY <1>2, <1>3, <2>1, <2>2
<1> QED
  BY <1>1, <1>3, StepsLeftNat DEF Ending

\* No request goes round for ever: every step of its handler, the restart and the client
\* that hangs up bring it nearer to its end, and nothing that happens to other requests
\* or at the dashboard takes it back.  The one way back, a rejected request that is sent
\* again, is taken once (proxy.rs:266, 627).  This is the part of
\* EveryRequestEnds that is not about fairness.
THEOREM RequestsComeToAnEnd == Spec => [][Ending]_vars
<1> QED
  BY Invariance, NextEnding, PTL DEF Spec
-----------------------------------------------------------------------------
(* Never half masked                                                       *)

\* What the default pack finds in a string is replaced in what it became.
Covered(masked, string) ==
    \A j \in DOMAIN string : AlwaysFound(string[j]) => masked[j] # string[j].slice

Whole(body, out) ==
    /\ DOMAIN out = DOMAIN body.strings
    /\ \A i \in DOMAIN body.strings : Covered(out[i], body.strings[i])

Handed == {"forward", "record", "await"}

\* Of a request: the strings masked so far, what is to be sent, and what was.
Unbroken(q) ==
    /\ q.at = "mask" => \A i \in DOMAIN q.out : Covered(q.out[i], q.body.strings[i])
    /\ q.at \in Handed => \/ q.out = ClearBody(q.body)
                          \/ q.serialized /\ Whole(q.body, q.out)
    /\ \A k \in DOMAIN q.sent : \/ q.sent[k] = ClearBody(q.body)
                                \/ k = 1 /\ Whole(q.body, q.sent[k])

HalfInv ==
    /\ "default" \in runtime.packs
    /\ \A r \in Requests : Unbroken(req[r])

LEMMA UnbrokenStays ==
    ASSUME NEW old, NEW q, Unbroken(old),
           q.body = old.body, q.out = old.out, q.sent = old.sent,
           q.serialized = old.serialized,
           q.at # "mask", q.at \in Handed => old.at \in Handed
    PROVE  Unbroken(q)
BY DEF Unbroken

\* What stands for a finding is not the slice it was cut out for.
LEMMA MaskedStringCovered ==
    ASSUME NEW rt, "default" \in rt.packs, NEW book \in Books,
           NEW string \in Seq(Handled(rt, book))
    PROVE  Covered(MaskedString(rt, book, string), string)
<1> SUFFICES ASSUME NEW j \in DOMAIN string, AlwaysFound(string[j])
             PROVE  MaskedString(rt, book, string)[j] # string[j].slice
  BY DEF Covered
<1> DEFINE f == string[j]
           atom == Stands(book, f)
<1>1. f \in Handled(rt, book) /\ Detected(rt, f)
  BY LenProperties, ElementOfSeq DEF AlwaysFound, Detected
<1>2. f \in Replaceable(book) /\ f.slice \in Seq(Words)
  BY <1>1 DEF Handled, Replaceable, Finding
<1>3. MaskedString(rt, book, string)[j] = <<atom>>
  BY <1>1 DEF MaskedString
<1> HIDE DEF f
<1>4. atom \notin Words
  <2>1. atom = Redacted \/ atom \in Placeholder
    BY <1>2, BookFacts DEF Stands, Replaceable, GoodBook
  <2> QED
    BY <2>1, WordsAssumption
<1> HIDE DEF atom
<1>5. <<atom>> # f.slice
  <2>1. SUFFICES ASSUME <<atom>> = f.slice PROVE FALSE
    OBVIOUS
  <2>2. Len(f.slice) = 1 /\ f.slice[1] = atom
    <3>1. Len(<<atom>>) = 1 /\ <<atom>>[1] = atom
      OBVIOUS
    <3> QED
      BY <2>1, <3>1, Zenon
  <2>3. 1 \in 1..Len(f.slice)
    BY <2>2
  <2>4. f.slice[1] \in Words
    BY <1>2, <2>3, ElementOfSeq
  <2> QED
    BY <1>4, <2>2, <2>4
<1> QED
  BY <1>3, <1>5 DEF f

\* A step of one request, under packs with the default one.
LEMMA HalfStep ==
    ASSUME Inv, HalfInv, NEW r \in Requests, NEW q,
           req' = [req EXCEPT ![r] = q], Unbroken(q), "default" \in runtime'.packs
    PROVE  HalfInv'
<1>1. req \in [Requests -> Request]
  BY DEF Inv, RequestInv
<1>2. ASSUME NEW s \in Requests PROVE Unbroken(req'[s])
  <2>1. req'[s] = IF s = r THEN q ELSE req[s]
    BY <1>1
  <2> QED
    BY <2>1 DEF HalfInv
<1>3. HalfInv' = ("default" \in runtime'.packs /\ \A s \in Requests : Unbroken(req'[s]))
  BY DEF HalfInv, Unbroken, Whole, Covered, ClearBody, Clear, AlwaysFound
<1> QED
  BY <1>2, <1>3

LEMMA HalfArrive ==
    ASSUME Inv, HalfInv, NEW r \in Requests, Arrive(r)
    PROVE  HalfInv'
<1> DEFINE place(body) == IF body.kind = "completion" /\ ~ body.parses
                          THEN "forward" ELSE "gate"
           old == req[r]
<1>1. PICK body \in Bodies :
        req' = [req EXCEPT ![r].body = body, ![r].out = ClearBody(body), ![r].at = place(body)]
  BY DEF Arrive
<1>2. old = NoRequest /\ old \in Request
  BY RequestFacts DEF Arrive, At, Inv, Sound
<1> DEFINE q == [old EXCEPT !.body = body, !.out = ClearBody(body), !.at = place(body)]
<1>3. req' = [req EXCEPT ![r] = q]
  <2> HIDE DEF place
  <2> QED
    BY <1>1 DEF Inv, RequestInv
<1>4. place(body) \in {"forward", "gate"}
  OBVIOUS
<1> HIDE DEF place
<1>5. q.body = body /\ q.out = ClearBody(body) /\ q.sent = <<>> /\ q.at = place(body)
  BY <1>2 DEF NoRequest
<1> HIDE DEF q
<1>6. Unbroken(q)
  BY <1>4, <1>5 DEF Unbroken
<1> QED
  BY <1>3, <1>6, HalfStep DEF Arrive, HalfInv

LEMMA HalfGate ==
    ASSUME Inv, HalfInv, NEW r \in Requests, Gate(r)
    PROVE  HalfInv'
<1> DEFINE old == req[r]
           q == req'[r]
<1>1. /\ old \in Request /\ old.at = "gate" /\ old.sent = <<>>
      /\ old.out = ClearBody(old.body)
  BY RequestFacts DEF Gate, At, Inv, Sound, Active, InHand, Sent
<1>2. req \in [Requests -> Request]
  BY DEF Inv, RequestInv
<1>3. req' = [req EXCEPT ![r] = q]
  BY <1>2, SMTT(30) DEF Gate
<1>4. /\ q.body = old.body /\ q.sent = <<>>
      /\ \/ q.at = "done"
         \/ q.at = "mask" /\ q.out = <<>>
         \/ q.at = "forward" /\ q.out = old.out
  BY <1>1, <1>2, SMTT(30) DEF Gate, Request
<1> HIDE DEF q
<1>5. Unbroken(q)
  BY <1>1, <1>4 DEF Unbroken, Handed
<1> QED
  BY <1>3, <1>5, HalfStep DEF Gate, HalfInv

LEMMA HalfMaskContent ==
    ASSUME Inv, HalfInv, NEW r \in Requests, MaskContent(r)
    PROVE  HalfInv'
<1> DEFINE old == req[r]
           string == NextString(r)
           book == RememberAll(books[old.body.session], Found(runtime, string))
           masked == MaskedString(runtime, book, string)
           events == Events(runtime, book, string)
           q == [old EXCEPT !.out = Append(@, masked), !.events = @ \o events]
<1>1. old \in Request /\ old.body \in Bodies /\ old.at = "mask" /\ old.sent = <<>>
  BY AtMask DEF MaskContent, MoreStrings, At
<1>2. books[old.body.session] \in Books
  BY <1>1, BodyFacts, SessionBook DEF Inv
<1>3. string \in Seq(Finding) /\ Found(runtime, string) \in Seq(Finding)
  <2>1. string \in Seq(Finding)
    BY StringFacts DEF MaskContent
  <2> QED
    BY <2>1, FoundType
<1>4. book \in Books /\ string \in Seq(Handled(runtime, book))
  BY <1>2, <1>3, StringHandled, RememberedAll DEF RemembersAll
<1>5. string = old.body.strings[Len(old.out) + 1]
  BY DEF NextString, BodyOf
<1>6. req' = [req EXCEPT ![r] = q]
  <2>1. req' = [req EXCEPT ![r].out = Append(@, masked), ![r].events = @ \o events]
    BY SMTT(30) DEF MaskContent, BodyOf
  <2> HIDE DEF masked, events
  <2> QED
    BY <2>1 DEF Inv, RequestInv
<1> HIDE DEF string, book, events
<1>7. masked \in Seq(Seq(Atoms)) /\ Covered(masked, string)
  BY <1>4, MaskedStringType, MaskedStringCovered DEF HalfInv
<1> HIDE DEF masked
<1>8. /\ Len(old.out) \in Nat /\ DOMAIN old.out = 1..Len(old.out)
      /\ DOMAIN Append(old.out, masked) = 1..Len(old.out) + 1
      /\ Append(old.out, masked)[Len(old.out) + 1] = masked
      /\ \A i \in 1..Len(old.out) : Append(old.out, masked)[i] = old.out[i]
  BY <1>1, <1>7, AppendProperties, LenProperties DEF Request, Texts
<1>9. /\ q.body = old.body /\ q.out = Append(old.out, masked) /\ q.at = "mask"
      /\ q.sent = <<>>
  BY <1>1 DEF Request
<1> HIDE DEF q
<1>10. ASSUME NEW i \in 1..Len(old.out) + 1
       PROVE  Covered(q.out[i], q.body.strings[i])
  <2>1. CASE i = Len(old.out) + 1
    BY <1>5, <1>7, <1>8, <1>9, <2>1
  <2>2. CASE i # Len(old.out) + 1
    <3>1. i \in 1..Len(old.out) /\ q.out[i] = old.out[i]
      BY <1>8, <1>9, <2>2
    <3> QED
      BY <1>1, <1>8, <1>9, <3>1 DEF HalfInv, Unbroken
  <2> QED
    BY <2>1, <2>2
<1>11. Unbroken(q)
  BY <1>8, <1>9, <1>10 DEF Unbroken, Handed
<1> QED
  BY <1>6, <1>11, HalfStep DEF MaskContent, HalfInv

LEMMA HalfMaskPanics ==
    ASSUME Inv, HalfInv, NEW r \in Requests, MaskPanics(r)
    PROVE  HalfInv'
<1> DEFINE old == req[r]
           place == IF IsCompletion(r) THEN "forward" ELSE "record"
           q == [old EXCEPT !.out = ClearBody(old.body), !.events = <<>>, !.at = place]
<1>1. old \in Request /\ old.sent = <<>>
  BY AtMask DEF MaskPanics, MoreStrings, At
<1>2. req' = [req EXCEPT ![r] = q]
  <2>1. req' = [req EXCEPT ![r].out = ClearBody(old.body), ![r].events = <<>>, ![r].at = place]
    BY DEF MaskPanics, BodyOf
  <2> HIDE DEF place
  <2> QED
    BY <2>1 DEF Inv, RequestInv
<1>3. place # "mask"
  OBVIOUS
<1> HIDE DEF place
<1>4. q.body = old.body /\ q.out = ClearBody(old.body) /\ q.sent = <<>> /\ q.at = place
  BY <1>1 DEF Request
<1> HIDE DEF q
<1>5. Unbroken(q)
  BY <1>3, <1>4 DEF Unbroken
<1>6. runtime \in Runtime
  BY DEF Inv, RunInv
<1>7. "default" \in runtime'.packs
  BY <1>6 DEF MaskPanics, HalfInv, Runtime
<1> QED
  BY <1>2, <1>5, <1>7, HalfStep

LEMMA HalfSerialize ==
    ASSUME Inv, HalfInv, NEW r \in Requests, Serialize(r)
    PROVE  HalfInv'
<1> DEFINE old == req[r]
           place == IF IsCompletion(r) THEN "forward" ELSE "record"
           q == [old EXCEPT !.at = place, !.serialized = TRUE]
<1>1. /\ old \in Request /\ old.body \in Bodies /\ old.sent = <<>> /\ old.at = "mask"
      /\ Len(old.out) = Len(old.body.strings)
  BY AtMask DEF Serialize, At, BodyOf
<1>2. req' = [req EXCEPT ![r] = q]
  BY DEF Serialize, Inv, RequestInv
<1>3. place # "mask"
  OBVIOUS
<1> HIDE DEF place
<1>4. /\ q.body = old.body /\ q.out = old.out /\ q.sent = <<>> /\ q.at = place
      /\ q.serialized = TRUE
  BY <1>1 DEF Request
<1> HIDE DEF q
<1>5. DOMAIN old.out = DOMAIN old.body.strings
  BY <1>1, BodyFacts, LenProperties DEF Request, Texts
<1>6. \A i \in DOMAIN old.out : Covered(old.out[i], old.body.strings[i])
  BY <1>1 DEF HalfInv, Unbroken
<1>7. Whole(q.body, q.out)
  BY <1>4, <1>5, <1>6 DEF Whole
<1>8. Unbroken(q)
  BY <1>3, <1>4, <1>7 DEF Unbroken
<1> QED
  BY <1>2, <1>8, HalfStep DEF Serialize, HalfInv

LEMMA HalfForward ==
    ASSUME Inv, HalfInv, NEW r \in Requests, Forward(r)
    PROVE  HalfInv'
<1> DEFINE old == req[r]
           q == [old EXCEPT !.at = "await", !.sent = Append(@, old.out)]
           sent == Append(old.sent, old.out)
<1>1. /\ old \in Request /\ old.at = "forward" /\ Unbroken(old)
      /\ old.sent = <<>> \/ (Len(old.sent) = 1 /\ ~ old.serialized)
  BY RequestFacts DEF Forward, At, Inv, Sound, Active, Sent, HalfInv
<1>2. req' = [req EXCEPT ![r] = q]
  BY DEF Forward, Inv, RequestInv
<1>3. /\ q.body = old.body /\ q.out = old.out /\ q.sent = sent /\ q.at = "await"
      /\ q.serialized = old.serialized
  BY <1>1 DEF Request
<1> HIDE DEF q
<1>4. /\ Len(old.sent) \in {0, 1} /\ DOMAIN old.sent = 1..Len(old.sent)
      /\ DOMAIN sent = 1..Len(old.sent) + 1 /\ sent[Len(old.sent) + 1] = old.out
      /\ \A k \in 1..Len(old.sent) : sent[k] = old.sent[k]
  <2>1. old.sent \in Seq(Texts) /\ old.out \in Texts
    BY <1>1 DEF Request
  <2> QED
    BY <1>1, <2>1, AppendProperties, LenProperties
<1> HIDE DEF sent
<1>5. \/ old.out = ClearBody(old.body)
      \/ Len(old.sent) = 0 /\ old.serialized /\ Whole(old.body, old.out)
  BY <1>1, <1>4 DEF Unbroken, Handed
<1>6. ASSUME NEW k \in 1..Len(old.sent) + 1
      PROVE  sent[k] = ClearBody(old.body) \/ (k = 1 /\ Whole(old.body, sent[k]))
  <2>1. CASE k = Len(old.sent) + 1
    BY <1>4, <1>5, <2>1
  <2>2. CASE k # Len(old.sent) + 1
    <3>1. k \in 1..Len(old.sent) /\ sent[k] = old.sent[k]
      BY <1>4, <2>2
    <3> QED
      BY <1>1, <1>4, <3>1 DEF Unbroken
  <2> QED
    BY <2>1, <2>2
<1>7. Unbroken(q)
  BY <1>3, <1>4, <1>5, <1>6 DEF Unbroken
<1> QED
  BY <1>2, <1>7, HalfStep DEF Forward, HalfInv

LEMMA HalfRetry ==
    ASSUME Inv, HalfInv, NEW r \in Requests, RetryUnmasked(r)
    PROVE  HalfInv'
<1> DEFINE old == req[r]
           q == [old EXCEPT !.at = "forward", !.out = ClearBody(old.body),
                            !.serialized = FALSE, !.events = <<>>]
<1>1. old \in Request /\ Unbroken(old)
  BY RequestFacts DEF Inv, HalfInv
<1>2. req' = [req EXCEPT ![r] = q]
  BY DEF RetryUnmasked, BodyOf, Inv, RequestInv
<1>3. /\ q.body = old.body /\ q.out = ClearBody(old.body) /\ q.sent = old.sent
      /\ q.at = "forward"
  BY <1>1 DEF Request
<1> HIDE DEF q
<1>4. Unbroken(q)
  BY <1>1, <1>3 DEF Unbroken
<1> QED
  BY <1>2, <1>4, HalfStep DEF RetryUnmasked, HalfInv

\* An answer, an entry in the ledger and a client that hangs up change neither what
\* was sent nor what is to be.
LEMMA HalfRest ==
    ASSUME Inv, HalfInv, NEW r \in Requests, Answer(r) \/ Record(r) \/ HangUp(r)
    PROVE  HalfInv'
<1> DEFINE old == req[r]
           q == req'[r]
<1>1. old \in Request /\ Unbroken(old) /\ req \in [Requests -> Request]
  BY RequestFacts DEF Inv, HalfInv, RequestInv
<1>2. /\ req' = [req EXCEPT ![r] = q]
      /\ q.body = old.body /\ q.out = old.out /\ q.sent = old.sent
      /\ q.serialized = old.serialized
      /\ old.at \in Handed /\ q.at # "mask"
  <2>1. CASE Answer(r)
    BY <1>1, <2>1, AnswerPlace DEF Answer, At, Handed
  <2>2. CASE Record(r)
    <3> DEFINE place == IF IsCompletion(r) THEN "done" ELSE "forward"
    <3>1. req' = [req EXCEPT ![r].at = place] /\ old.at = "record" /\ place # "mask"
      BY <2>2 DEF Record, At
    <3> HIDE DEF place
    <3> QED
      BY <1>1, <3>1 DEF Handed, Request
  <2>3. CASE HangUp(r)
    BY <1>1, <2>3 DEF HangUp, At, Handed, Request
  <2> QED
    BY <2>1, <2>2, <2>3
<1> HIDE DEF q, old
<1>3. Unbroken(q)
  BY <1>1, <1>2, UnbrokenStays
<1>4. runtime' = runtime
  BY DEF Answer, Record, HangUp
<1> QED
  BY <1>2, <1>3, <1>4, HalfStep DEF HalfInv

LEMMA HalfDashboard ==
    ASSUME Inv, HalfInv, NEW a \in Admins, Dashboard(a)
    PROVE  HalfInv'
<1>1. req' = req
  BY DEF Dashboard, SavePacks, SaveFails, SwapRuntime, ClearLedger, ResetStats, Preview
<1>2. "default" \in runtime'.packs
  <2>1. CASE SwapRuntime(a)
    BY <2>1 DEF SwapRuntime, BuildRuntime, LoadActive
  <2>2. CASE Preview(a)
    <3>1. runtime \in Runtime
      BY DEF Inv, RunInv
    <3> QED
      BY <2>2, <3>1 DEF Preview, HalfInv, Runtime
  <2>3. CASE SavePacks(a) \/ SaveFails(a) \/ ClearLedger(a) \/ ResetStats(a)
    BY <2>3, SMTT(30) DEF SavePacks, SaveFails, ClearLedger, ResetStats, HalfInv
  <2> QED
    BY <2>1, <2>2, <2>3 DEF Dashboard
<1>3. HalfInv' = ("default" \in runtime'.packs /\ \A r \in Requests : Unbroken(req'[r]))
  BY DEF HalfInv, Unbroken, Whole, Covered, ClearBody, Clear, AlwaysFound
<1>4. \A r \in Requests : Unbroken(req'[r])
  BY <1>1 DEF HalfInv
<1> QED
  BY <1>2, <1>3, <1>4

LEMMA HalfRestart ==
    ASSUME Inv, HalfInv, Restart
    PROVE  HalfInv'
<1>1. "default" \in runtime'.packs
  BY DEF Restart, BuildRuntime, LoadActive
<1>2. ASSUME NEW r \in Requests PROVE Unbroken(req'[r])
  <2>1. req[r] \in Request /\ Unbroken(req[r])
    BY RequestFacts DEF Inv, HalfInv
  <2>2. CASE At(r, "new") \/ At(r, "done")
    BY <2>1, <2>2 DEF Restart
  <2>3. CASE ~ (At(r, "new") \/ At(r, "done"))
    <3> DEFINE q == [req[r] EXCEPT !.at = "gone"]
    <3>1. req'[r] = q
      BY <2>3 DEF Restart
    <3>2. /\ q.body = req[r].body /\ q.out = req[r].out /\ q.sent = req[r].sent
          /\ q.serialized = req[r].serialized /\ q.at = "gone"
      BY <2>1 DEF Request
    <3> HIDE DEF q
    <3>3. Unbroken(q)
      BY <2>1, <3>2, UnbrokenStays, SMTT(30) DEF Handed
    <3> QED
      BY <3>1, <3>3
  <2> QED
    BY <2>2, <2>3
<1>3. HalfInv' = ("default" \in runtime'.packs /\ \A s \in Requests : Unbroken(req'[s]))
  BY DEF HalfInv, Unbroken, Whole, Covered, ClearBody, Clear, AlwaysFound
<1> QED
  BY <1>1, <1>2, <1>3

LEMMA HalfInit == Init => HalfInv
<1> SUFFICES ASSUME Init PROVE HalfInv
  OBVIOUS
<1>1. "default" \in runtime.packs
  BY DEF Init, BuildRuntime, LoadActive
<1>2. NoRequest.at = "new" /\ NoRequest.sent = <<>>
  BY DEF NoRequest
<1>3. Unbroken(NoRequest)
  BY <1>2 DEF Unbroken, Handed
<1> QED
  BY <1>1, <1>3 DEF Init, HalfInv

LEMMA HalfNext == Inv /\ HalfInv /\ [Next]_vars => HalfInv'
<1> SUFFICES ASSUME Inv, HalfInv, [Next]_vars PROVE HalfInv'
  OBVIOUS
<1>1. ASSUME NEW r \in Requests, Arrive(r) \/ Handle(r) \/ HangUp(r) PROVE HalfInv'
  BY SMTT(30), <1>1, HalfArrive, HalfGate, HalfMaskContent, HalfMaskPanics, HalfSerialize,
     HalfForward, HalfRetry, HalfRest DEF Handle
<1>2. ASSUME UNCHANGED vars PROVE HalfInv'
  BY <1>2 DEF vars, HalfInv, Unbroken, Whole, Covered, ClearBody, Clear, AlwaysFound
<1> QED
  BY <1>1, <1>2, HalfDashboard, HalfRestart DEF Next

\* No body goes out half masked: it is the client's own or, when it is sent first, one
\* in all of whose strings what the default pack finds is replaced - whatever packs the
\* strings of the request saw, and wherever masking panicked.
THEOREM NeverSentHalfMasked == Spec => []NeverHalfMasked
<1>1. HalfInv => NeverHalfMasked
  BY DEF HalfInv, Unbroken, Whole, Covered, NeverHalfMasked, BodyOf
<1> QED
  BY <1>1, Invariance, HalfInit, HalfNext, PTL DEF Spec
===============================================================================
