---------------------------- MODULE DetectionProofs ----------------------------
(***************************************************************************)
(* Proofs about Detection, for any texts, sizes, findings and allowlists.   *)
(***************************************************************************)
EXTENDS Detection, Lemmas

-----------------------------------------------------------------------------
(* Boundaries of characters                                                *)

LEMMA TextFacts ==
    ASSUME text \in Texts
    PROVE  text \in Seq(Bytes) /\ WellFormed(text) /\ len \in Nat /\ DOMAIN text = 1..len
<1>1. text \in Seq(Bytes) /\ WellFormed(text)
  BY TextsAssumption
<1> QED
  BY <1>1, LenProperties DEF len

\* Of two neighbouring bytes one is where a character begins.
LEMMA BoundaryNear ==
    ASSUME text \in Texts, NEW i \in 1..len, ~ Boundary(i)
    PROVE  Boundary(i - 1) /\ text[i] = "lead"
<1>1. len \in Nat /\ DOMAIN text = 1..len
  BY TextFacts
<1>2. i + 1 \in DOMAIN text /\ i \in DOMAIN text /\ text[i + 1] = "cont"
  BY <1>1 DEF Boundary
<1>3. text[(i + 1) - 1] = "lead"
  BY <1>2, TextFacts DEF WellFormed
<1>4. text[i] = "lead" /\ (i - 1) + 1 = i
  BY <1>1, <1>3
<1> QED
  BY <1>4 DEF Boundary

LEMMA BoundaryBeforeFacts ==
    ASSUME text \in Texts, NEW i \in 0..len
    PROVE  /\ BoundaryBefore(i) \in 0..i
           /\ Boundary(BoundaryBefore(i))
           /\ Boundary(i) => BoundaryBefore(i) = i
           /\ ~ Boundary(i) => BoundaryBefore(i) = i - 1 /\ text[i] = "lead" /\ i > 0
<1>1. len \in Nat /\ i \in Nat
  BY TextFacts
<1> DEFINE T == {j \in 0..i : Boundary(j)}
<1>2. 0 \in T
  BY <1>1 DEF Boundary
<1>3. Max(T) \in T /\ \A j \in T : Max(T) >= j
  <2>1. T \in SUBSET (0..i) /\ T # {}
    BY <1>2
  <2> HIDE DEF T
  <2> QED
    BY <1>1, <2>1, MaxOfBounded
<1>4. BoundaryBefore(i) = Max(T)
  BY DEF BoundaryBefore
<1>5. CASE Boundary(i)
  <2>1. i \in T
    BY <1>1, <1>5
  <2> QED
    BY <1>1, <1>3, <1>4, <1>5, <2>1
<1>6. CASE ~ Boundary(i)
  <2>1. i \in 1..len
    BY <1>1, <1>6 DEF Boundary
  <2>2. Boundary(i - 1) /\ text[i] = "lead"
    BY <1>6, <2>1, BoundaryNear
  <2>3. i - 1 \in T
    BY <1>1, <2>1, <2>2
  <2>4. Max(T) # i
    BY <1>3, <1>6
  <2>5. Max(T) \in 0..i /\ Max(T) >= i - 1
    BY <1>3, <2>3
  <2>6. Max(T) = i - 1
    BY <1>1, <2>4, <2>5
  <2> QED
    BY <1>3, <1>4, <1>6, <2>1, <2>2, <2>6
<1> QED
  BY <1>5, <1>6

-----------------------------------------------------------------------------
(* One chunk                                                               *)

\* The chunk is full, but for half a character, or goes to the end.
LEMMA HardEndFacts ==
    ASSUME text \in Texts, start \in 0..len, start < len
    PROVE  /\ HardEnd \in start + 1 .. len
           /\ HardEnd <= start + MaxChars
           /\ Boundary(HardEnd)
           /\ \/ HardEnd = len
              \/ HardEnd = start + MaxChars
              \/ /\ HardEnd = start + MaxChars - 1
                 /\ HardEnd < len /\ text[HardEnd + 1] = "lead"
<1>1. len \in Nat /\ start \in Nat /\ MaxChars \in Nat /\ MaxChars > 2
  BY TextFacts, SizesAssumption
<1> DEFINE full == AtMost(start + MaxChars, len)
<1>2. full \in 0..len /\ full > start /\ full <= start + MaxChars
      /\ (full = len \/ full = start + MaxChars)
  BY <1>1 DEF AtMost
<1>3. HardEnd = BoundaryBefore(full)
  BY DEF HardEnd
<1> HIDE DEF full
<1>4. CASE Boundary(full)
  <2>1. HardEnd = full
    BY <1>2, <1>3, <1>4, BoundaryBeforeFacts
  <2> QED
    BY <1>1, <1>2, <1>4, <2>1
<1>5. CASE ~ Boundary(full)
  <2>1. HardEnd = full - 1 /\ text[full] = "lead" /\ Boundary(HardEnd)
    BY <1>2, <1>3, <1>5, BoundaryBeforeFacts
  <2>2. full # len
    BY <1>5 DEF Boundary
  <2>3. full = start + MaxChars /\ full < len
    BY <1>1, <1>2, <2>2
  <2>4. HardEnd + 1 = full
    BY <1>2, <2>1
  <2> QED
    BY <1>1, <2>1, <2>3, <2>4
<1> QED
  BY <1>4, <1>5

\* The chunk ends where it is full, or at the last white space before that.
LEMMA ChunkEndFacts ==
    ASSUME text \in Texts, start \in 0..len, start < len
    PROVE  /\ ChunkEnd \in start + 1 .. HardEnd
           /\ Boundary(ChunkEnd)
           /\ \/ ChunkEnd = HardEnd
              \/ /\ HardEnd < len /\ text[ChunkEnd + 1] = "space"
                 /\ \A j \in ChunkEnd + 1 .. HardEnd - 1 : text[j + 1] # "space"
<1>1. len \in Nat /\ start \in Nat /\ HardEnd \in start + 1 .. len /\ Boundary(HardEnd)
  BY TextFacts, HardEndFacts
<1> DEFINE spaces == {i \in start + 1 .. HardEnd - 1 : text[i + 1] = "space"}
<1>2. CASE HardEnd < len /\ spaces # {}
  <2>1. Max(spaces) \in spaces /\ \A j \in spaces : Max(spaces) >= j
    <3>1. spaces \in SUBSET (0..len)
      BY <1>1
    <3> HIDE DEF spaces
    <3> QED
      BY <1>1, <1>2, <3>1, MaxOfBounded
  <2>2. ChunkEnd = Max(spaces)
    BY <1>2 DEF ChunkEnd
  <2>3. ChunkEnd \in start + 1 .. HardEnd - 1 /\ text[ChunkEnd + 1] = "space"
    BY <2>1, <2>2
  <2>4. ASSUME NEW j \in ChunkEnd + 1 .. HardEnd - 1 PROVE text[j + 1] # "space"
    <3>1. j \in start + 1 .. HardEnd - 1 /\ j > ChunkEnd
      BY <1>1, <2>3
    <3>2. j \notin spaces
      BY <1>1, <2>1, <2>2, <2>3, <3>1
    <3> QED
      BY <3>1, <3>2
  <2>5. Boundary(ChunkEnd)
    BY <2>3 DEF Boundary
  <2> QED
    BY <1>1, <1>2, <2>3, <2>4, <2>5
<1>3. CASE ~ (HardEnd < len /\ spaces # {})
  <2>1. ChunkEnd = HardEnd
    BY <1>3 DEF ChunkEnd
  <2> QED
    BY <1>1, <2>1
<1> QED
  BY <1>2, <1>3

\* The next chunk begins later than this one, and inside it; it goes back by the
\* overlap unless this one is too short for that.
LEMMA NextStartFacts ==
    ASSUME text \in Texts, start \in 0..len, start < len
    PROVE  /\ NextStart(ChunkEnd) \in start + 1 .. ChunkEnd
           /\ Boundary(NextStart(ChunkEnd))
           /\ \/ NextStart(ChunkEnd) <= ChunkEnd - Overlap
              \/ NextStart(ChunkEnd) = ChunkEnd /\ ChunkEnd <= start + Overlap + 1
<1> DEFINE end == ChunkEnd
           back == IF end < Overlap THEN 0 ELSE end - Overlap
           next == BoundaryBefore(back)
<1>1. /\ len \in Nat /\ start \in Nat /\ Overlap \in Nat
      /\ end \in start + 1 .. len /\ Boundary(end)
  BY TextFacts, HardEndFacts, ChunkEndFacts, SizesAssumption
<1>2. NextStart(end) = IF next > start THEN next ELSE end
  BY DEF NextStart
<1> HIDE DEF end
<1>3. back \in 0..len /\ back <= end
  BY <1>1
<1> HIDE DEF back
<1>4. next \in 0..back /\ Boundary(next) /\ next >= back - 1
  BY <1>1, <1>3, BoundaryBeforeFacts
<1> HIDE DEF next
<1>5. CASE next > start
  <2>1. back = end - Overlap
    BY <1>1, <1>4, <1>5 DEF back
  <2> QED
    BY <1>1, <1>2, <1>3, <1>4, <1>5, <2>1 DEF end
<1>6. CASE ~ (next > start)
  <2>1. back <= start + 1
    BY <1>1, <1>3, <1>4, <1>6
  <2>2. end <= start + Overlap + 1
    BY <1>1, <2>1 DEF back
  <2> QED
    BY <1>1, <1>2, <1>6, <2>2 DEF end
<1> QED
  BY <1>5, <1>6

-----------------------------------------------------------------------------
(* The inductive invariant                                                 *)

Edges == [start : 0..len, end : 0..len]

\* Each chunk is well cut, and follows from the one before.
Chain ==
    \A i \in DOMAIN chunks :
        /\ Boundary(chunks[i].start) /\ Boundary(chunks[i].end)
        /\ chunks[i].end - chunks[i].start <= MaxChars
        /\ i > 1 => /\ chunks[i - 1].start < chunks[i].start
                    /\ chunks[i].start <= chunks[i - 1].end

\* Every short name that begins before a place lies whole in some chunk.
WholeBefore(place) ==
    2 * Overlap < MaxChars =>
        \A a \in 0..len : \A b \in a + 1 .. AtMost(a + Overlap, len) :
            a < place /\ Words(a, b) =>
                \E i \in DOMAIN chunks : Inside([start |-> a, end |-> b], chunks[i])

\* The next chunk begins in the last, and not at the end of the text.
Cutting ==
    at = "chunk" =>
        /\ IF chunks = <<>> THEN start = 0
           ELSE /\ start < len
                /\ Last(chunks).start < start /\ start <= Last(chunks).end
        /\ WholeBefore(start)

Cut ==
    at = "infer" /\ chunks # <<>> =>
        /\ Last(chunks).end = len
        /\ chunks[1].start = 0 => WholeBefore(len)

TextInv ==
    /\ text \in Texts /\ names \in NamesIn(text)
    /\ at \in {"match", "chunk", "infer", "merge", "done"}

ChunksInv ==
    /\ start \in 0..len /\ Boundary(start)
    /\ chunks \in Seq(Edges)
    /\ at = "match" => start = 0 /\ chunks = <<>>
    /\ Chain /\ Cutting /\ Cut

\* Spans are merged from the left: what is kept is in order and apart, and what is
\* left begins no earlier than the last that was kept.
MergeInv ==
    /\ \A s \in seen : s.start \in 0..len /\ s.end \in s.start..len
    /\ found \subseteq seen /\ kept \in Seq(seen)
    /\ at \in {"match", "chunk", "infer"} => kept = <<>> /\ found = seen
    /\ \A i, j \in DOMAIN kept : i < j => kept[i].end <= kept[j].start
    /\ kept # <<>> => \A t \in found : Last(kept).start <= t.start
    /\ \A s \in seen \ found : \E i \in DOMAIN kept :
        s = kept[i] \/ (kept[i].start <= s.start /\ s.start < kept[i].end)
    /\ IF at = "done" THEN found = {} /\ masked = {s \in ToSet(kept) : ~ Allowed(s)}
       ELSE masked = {}

IInv == TextInv /\ ChunksInv /\ MergeInv

-----------------------------------------------------------------------------
(* Steps of the chunker                                                    *)

\* A short name that begins in a chunk, before the next one does, ends in it too.
LEMMA NameEndsInChunk ==
    ASSUME text \in Texts, start \in 0..len, start < len, 2 * Overlap < MaxChars,
           NEW a \in 0..len, NEW b \in a + 1 .. AtMost(a + Overlap, len),
           Words(a, b), start <= a,
           ChunkEnd >= len \/ a < NextStart(ChunkEnd)
    PROVE  b <= ChunkEnd
<1> DEFINE end == ChunkEnd
           next == NextStart(ChunkEnd)
<1>1. /\ len \in Nat /\ start \in Nat /\ Overlap \in Nat /\ MaxChars \in Nat
      /\ MaxChars > 2 /\ a \in Nat
  BY TextFacts, SizesAssumption
<1>2. b \in Nat /\ a < b /\ b <= a + Overlap /\ b <= len
  BY <1>1 DEF AtMost
<1>3. /\ HardEnd \in start + 1 .. len
      /\ \/ HardEnd = len
         \/ HardEnd = start + MaxChars
         \/ /\ HardEnd = start + MaxChars - 1
            /\ HardEnd < len /\ text[HardEnd + 1] = "lead"
  BY HardEndFacts
<1>4. /\ end \in start + 1 .. HardEnd
      /\ \/ end = HardEnd
         \/ /\ HardEnd < len
            /\ \A j \in end + 1 .. HardEnd - 1 : text[j + 1] # "space"
  BY ChunkEndFacts
<1>5. \/ next <= end - Overlap
      \/ next = end /\ end <= start + Overlap + 1
  BY NextStartFacts
<1>6. next \in start + 1 .. end
  BY NextStartFacts
<1> HIDE DEF end, next
<1>7. CASE end >= len
  BY <1>1, <1>2, <1>3, <1>4, <1>7 DEF end
<1>8. CASE a < next /\ next <= end - Overlap
  BY <1>1, <1>2, <1>4, <1>6, <1>8 DEF end
<1>9. CASE a < next /\ end < len /\ next = end /\ end <= start + Overlap + 1
  <2>1. SUFFICES ASSUME b > end PROVE FALSE
    BY <1>1, <1>2, <1>4 DEF end
  <2>2. b < len => text[b + 1] = "space"
    BY DEF Words
  <2>3. b >= HardEnd
    <3>1. CASE end = HardEnd
      BY <1>1, <1>2, <1>3, <2>1, <3>1
    <3>2. CASE /\ HardEnd < len
               /\ \A j \in end + 1 .. HardEnd - 1 : text[j + 1] # "space"
      BY <1>1, <1>2, <1>3, <1>4, <2>1, <2>2, <3>2
    <3> QED
      BY <1>4, <3>1, <3>2
  <2>4. HardEnd < len
    BY <1>1, <1>3, <1>4, <1>9
  <2>5. HardEnd >= start + 2 * Overlap
    BY <1>1, <1>3, <2>4
  <2>6. a <= start + Overlap
    BY <1>1, <1>4, <1>9
  <2>7. b = HardEnd /\ HardEnd = start + 2 * Overlap
    BY <1>1, <1>2, <1>3, <2>3, <2>5, <2>6
  <2>8. text[HardEnd + 1] = "lead"
    BY <1>1, <1>3, <2>4, <2>7
  <2> QED
    BY <2>2, <2>4, <2>7, <2>8
<1> QED
  BY <1>1, <1>3, <1>4, <1>5, <1>7, <1>8, <1>9 DEF end, next

LEMMA SameText ==
    ASSUME UNCHANGED text
    PROVE  /\ len' = len
           /\ \A i : Boundary(i)' <=> Boundary(i)
           /\ \A a, b : Words(a, b)' <=> Words(a, b)
BY DEF len, Boundary, Words

LEMMA ChunkNextChunks ==
    ASSUME TextInv, ChunksInv, ChunkNext PROVE ChunksInv'
<1>1. /\ at = "chunk" /\ UNCHANGED <<text, names>> /\ len' = len
      /\ text \in Texts /\ start \in 0..len /\ Boundary(start) /\ len \in Nat
  BY SameText, TextFacts DEF TextInv, ChunksInv, ChunkNext, given
<1>2. /\ chunks \in Seq(Edges) /\ Edges' = Edges
      /\ Len(chunks) \in Nat /\ DOMAIN chunks = 1..Len(chunks)
  BY <1>1, LenProperties DEF ChunksInv, Edges
<1>3. Chain /\ WholeBefore(start)
      /\ IF chunks = <<>> THEN start = 0
         ELSE start < len /\ Last(chunks).start < start /\ start <= Last(chunks).end
  BY <1>1 DEF ChunksInv, Cutting
<1>4. CASE len = 0
  <2> DEFINE c == [start |-> 0, end |-> 0]
  <2>1. at' = "infer" /\ chunks' = <<c>> /\ start' = start
    BY <1>4 DEF ChunkNext
  <2>2. c \in Edges
    BY <1>1 DEF Edges
  <2>3. chunks' \in Seq(Edges) /\ DOMAIN chunks' = 1..1 /\ Len(chunks') = 1 /\ chunks'[1] = c
    BY <2>1, <2>2
  <2>4. Chain'
    <3>1. Boundary(0)' /\ MaxChars >= 0
      BY SizesAssumption DEF Boundary
    <3> QED
      BY <2>3, <3>1 DEF Chain
  <2>5. Cut'
    <3>1. Last(chunks').end = len'
      BY <1>1, <1>4, <2>3 DEF Last
    <3>2. WholeBefore(len)'
      BY <1>1, <1>4 DEF WholeBefore
    <3> QED
      BY <3>1, <3>2 DEF Cut
  <2>6. start' \in 0..len' /\ Boundary(start)'
    BY <1>1, <2>1 DEF Boundary, len
  <2> QED
    BY <2>1, <2>3, <2>4, <2>5, <2>6, <1>2 DEF ChunksInv, Cutting
<1>5. CASE len # 0
  <2> DEFINE c == [start |-> start, end |-> ChunkEnd]
             n == Len(chunks)
  <2>1. start < len
    BY <1>1, <1>3, <1>5
  <2>2. /\ ChunkEnd \in start + 1 .. len /\ ChunkEnd <= start + MaxChars
        /\ Boundary(ChunkEnd)
    <3>1. HardEnd \in start + 1 .. len /\ HardEnd <= start + MaxChars
      BY <1>1, <2>1, HardEndFacts
    <3>2. ChunkEnd \in start + 1 .. HardEnd /\ Boundary(ChunkEnd)
      BY <1>1, <2>1, ChunkEndFacts
    <3> QED
      BY <1>1, <3>1, <3>2, SizesAssumption
  <2>3. /\ NextStart(ChunkEnd) \in start + 1 .. ChunkEnd
        /\ Boundary(NextStart(ChunkEnd))
    BY <1>1, <2>1, NextStartFacts
  <2>4. c \in Edges
    BY <1>1, <2>2 DEF Edges
  <2>5. /\ chunks' \in Seq(Edges) /\ Len(chunks') = n + 1 /\ chunks'[n + 1] = c
        /\ \A i \in 1..n : chunks'[i] = chunks[i]
    <3>1. chunks' = Append(chunks, c)
      BY <1>5 DEF ChunkNext
    <3> HIDE DEF c
    <3> QED
      BY <1>2, <2>4, <3>1, AppendProperties
  <2>6. DOMAIN chunks' = 1..(n + 1)
    BY <2>5, LenProperties
  <2> HIDE DEF n
  <2>7. n \in Nat /\ DOMAIN chunks = 1..n
    BY <1>2 DEF n
  <2>8. Chain'
    <3>1. SUFFICES ASSUME NEW i \in DOMAIN chunks'
                   PROVE  /\ Boundary(chunks'[i].start) /\ Boundary(chunks'[i].end)
                          /\ chunks'[i].end - chunks'[i].start <= MaxChars
                          /\ i > 1 => /\ chunks'[i - 1].start < chunks'[i].start
                                      /\ chunks'[i].start <= chunks'[i - 1].end
      BY <1>1, SameText DEF Chain
    <3>2. CASE i \in 1..n
      <4>1. i > 1 => i - 1 \in 1..n
        BY <2>7, <3>2
      <4> QED
        BY <1>3, <2>5, <2>7, <3>2, <4>1 DEF Chain
    <3>3. CASE i = n + 1
      <4>1. chunks'[i] = c /\ c.start = start /\ c.end = ChunkEnd
        BY <2>5, <3>3
      <4>2. ASSUME i > 1
            PROVE  chunks'[i - 1].start < start /\ start <= chunks'[i - 1].end
        <5>1. i - 1 = n /\ n \in 1..n
          BY <2>7, <3>3, <4>2
        <5>2. chunks # <<>> /\ chunks'[n] = Last(chunks)
          BY <2>5, <2>7, <5>1 DEF Last, n
        <5> QED
          BY <1>3, <5>1, <5>2
      <4> HIDE DEF c
      <4>3. ChunkEnd - start <= MaxChars
        BY <1>1, <2>2, SizesAssumption
      <4> QED
        BY <1>1, <2>2, <4>1, <4>2, <4>3
    <3> QED
      BY <2>6, <2>7, <3>2, <3>3
  \* What was whole stays so, and the new chunk has what begins in it.
  <2>9. ASSUME NEW place \in Nat, ChunkEnd >= len \/ place = NextStart(ChunkEnd)
        PROVE  WholeBefore(place)'
    <3>1. SUFFICES ASSUME 2 * Overlap < MaxChars, NEW a \in 0..len,
                          NEW b \in a + 1 .. AtMost(a + Overlap, len), a < place, Words(a, b)
                   PROVE  \E i \in DOMAIN chunks' :
                              Inside([start |-> a, end |-> b], chunks'[i])
      BY <1>1, SameText DEF WholeBefore
    <3>2. CASE a < start
      <4>1. PICK i \in DOMAIN chunks : Inside([start |-> a, end |-> b], chunks[i])
        BY <1>3, <3>1, <3>2 DEF WholeBefore
      <4>2. i \in DOMAIN chunks' /\ chunks'[i] = chunks[i]
        BY <2>5, <2>6, <2>7
      <4> QED
        BY <4>1, <4>2
    <3>3. CASE start <= a
      <4>1. b <= ChunkEnd
        BY <1>1, <2>1, <2>9, <3>1, <3>3, NameEndsInChunk
      <4>2. Inside([start |-> a, end |-> b], c)
        BY <3>3, <4>1 DEF Inside
      <4>3. n + 1 \in DOMAIN chunks'
        BY <2>6, <2>7
      <4> QED
        BY <2>5, <4>2, <4>3
    <3> QED
      BY <1>1, <3>2, <3>3
  <2>10. chunks' # <<>> /\ Last(chunks') = c
    BY <2>5, <2>6, <2>7 DEF Last
  <2>11. CASE ChunkEnd >= len
    <3>1. at' = "infer" /\ start' = start
      BY <1>5, <2>11 DEF ChunkNext
    <3>2. ChunkEnd = len /\ Last(chunks').end = len'
      BY <1>1, <2>2, <2>10, <2>11
    <3>3. WholeBefore(len)'
      <4>1. WholeBefore(len') <=> WholeBefore(len)
        BY <1>1
      <4>2. \A place \in Nat : WholeBefore(place)'
        BY <2>9, <2>11
      <4> QED
        BY <1>1, <4>2 DEF WholeBefore
    <3>4. Cut'
      BY <3>2, <3>3 DEF Cut
    <3>5. start' \in 0..len' /\ Boundary(start)'
      BY <1>1, <3>1 DEF Boundary, len
    <3> QED
      BY <1>2, <2>5, <2>8, <3>1, <3>4, <3>5 DEF ChunksInv, Cutting
  <2>12. CASE ~ (ChunkEnd >= len)
    <3>1. at' = "chunk" /\ start' = NextStart(ChunkEnd)
      BY <1>1, <1>5, <2>12 DEF ChunkNext
    <3>2. start' \in 0..len' /\ Boundary(start)'
      <4>1. start' \in 0..len'
        BY <1>1, <2>2, <2>3, <3>1
      <4>2. Boundary(start')
        BY <2>3, <3>1
      <4> QED
        BY <1>1, <4>1, <4>2 DEF Boundary, len
    <3>3. start' < len' /\ Last(chunks').start < start' /\ start' <= Last(chunks').end
      BY <1>1, <2>2, <2>3, <2>10, <2>12, <3>1
    <3>4. WholeBefore(start)'
      <4>1. start' \in Nat /\ start' = NextStart(ChunkEnd)
        BY <1>1, <2>3, <3>1
      <4> QED
        BY <2>9, <4>1 DEF WholeBefore
    <3>5. Cutting'
      BY <2>10, <3>3, <3>4 DEF Cutting
    <3> QED
      BY <1>2, <2>5, <2>8, <3>1, <3>2, <3>5 DEF ChunksInv, Cut
  <2> QED
    BY <2>11, <2>12
<1> QED
  BY <1>4, <1>5

\* Where nothing is cut, the chunks stay as they are.
LEMMA ChunksKept ==
    ASSUME TextInv, ChunksInv, UNCHANGED <<text, names, start, chunks>>,
           at' = "match" => at = "match",
           at' = "chunk" => at \in {"match", "chunk"},
           at' = "infer" => at = "infer"
    PROVE  ChunksInv'
<1>1. len' = len /\ Edges' = Edges /\ len \in Nat
  BY SameText, TextFacts DEF Edges, TextInv
<1>2. start' \in 0..len' /\ Boundary(start)'
  BY <1>1 DEF ChunksInv, Boundary, len
<1>3. Chain'
  BY DEF ChunksInv, Chain, Boundary, len
<1>4. \A place : WholeBefore(place)' <=> WholeBefore(place)
  BY <1>1, SameText DEF WholeBefore
<1>5. Cutting'
  <2>1. CASE at = "match"
    <3>1. start = 0 /\ chunks = <<>>
      BY <2>1 DEF ChunksInv
    <3>2. WholeBefore(0)'
      BY <1>1 DEF WholeBefore
    <3>3. WholeBefore(start)'
      BY <3>1, <3>2 DEF WholeBefore
    <3> QED
      BY <3>1, <3>3 DEF Cutting
  <2>2. CASE at = "chunk"
    <3>1. WholeBefore(start)' <=> WholeBefore(start)
      BY <1>1, SameText DEF WholeBefore
    <3> QED
      BY <1>1, <2>2, <3>1 DEF ChunksInv, Cutting
  <2>3. CASE at' # "chunk"
    BY <2>3 DEF Cutting
  <2> QED
    BY <2>1, <2>2, <2>3
<1>6. Cut'
  <2>1. WholeBefore(len)' <=> WholeBefore(len)
    BY <1>1, SameText DEF WholeBefore
  <2> QED
    BY <1>1, <2>1 DEF ChunksInv, Cut
<1> QED
  BY <1>1, <1>2, <1>3, <1>5, <1>6 DEF ChunksInv

\* A chunk is taken from the front.
LEMMA InferChunks ==
    ASSUME TextInv, ChunksInv, Infer PROVE ChunksInv'
<1>1. /\ at = "infer" /\ at' = at /\ chunks # <<>> /\ chunks' = Tail(chunks)
      /\ UNCHANGED <<text, names, start>>
  BY DEF Infer, given
<1>2. len' = len /\ Edges' = Edges /\ len \in Nat
  BY <1>1, SameText, TextFacts DEF Edges, TextInv
<1>3. /\ chunks' \in Seq(Edges) /\ Len(chunks') = Len(chunks) - 1
      /\ \A i \in 1..Len(chunks') : chunks'[i] = chunks[i + 1]
      /\ Len(chunks) \in Nat /\ DOMAIN chunks = 1..Len(chunks)
      /\ DOMAIN chunks' = 1..Len(chunks')
  BY <1>1, HeadTailProperties, LenProperties DEF ChunksInv
<1>4. Chain'
  <2>1. SUFFICES ASSUME NEW i \in DOMAIN chunks'
                 PROVE  /\ Boundary(chunks'[i].start) /\ Boundary(chunks'[i].end)
                        /\ chunks'[i].end - chunks'[i].start <= MaxChars
                        /\ i > 1 => /\ chunks'[i - 1].start < chunks'[i].start
                                    /\ chunks'[i].start <= chunks'[i - 1].end
    BY <1>1, SameText DEF Chain
  <2>2. i + 1 \in DOMAIN chunks /\ i + 1 > 1 /\ chunks'[i] = chunks[i + 1]
    BY <1>3
  <2>3. i > 1 => chunks'[i - 1] = chunks[(i + 1) - 1]
    <3>1. i > 1 => i - 1 \in 1..Len(chunks') /\ (i - 1) + 1 = (i + 1) - 1
      BY <1>3
    <3> QED
      BY <1>3, <3>1
  <2>4. Chain
    BY DEF ChunksInv
  <2> QED
    BY <2>2, <2>3, <2>4 DEF Chain
<1>5. Cut'
  <2>1. SUFFICES ASSUME chunks' # <<>>
                 PROVE  Last(chunks').end = len /\ chunks'[1].start # 0
    BY <1>2 DEF Cut
  <2>2. Len(chunks') \in Nat \ {0}
    BY <1>3, <2>1, EmptySeq
  <2>3. Last(chunks').end = len
    BY <1>1, <1>3, <2>2 DEF ChunksInv, Cut, Last
  <2>4. chunks[1].start < chunks[2].start /\ 1 \in DOMAIN chunks /\ 2 \in DOMAIN chunks
    <3>1. 1 \in DOMAIN chunks /\ 2 \in DOMAIN chunks
      BY <1>3, <2>2
    <3>2. \A i \in DOMAIN chunks : i > 1 => chunks[i - 1].start < chunks[i].start
      BY DEF ChunksInv, Chain
    <3>3. 2 > 1 /\ 2 - 1 = 1
      OBVIOUS
    <3> QED
      BY <3>1, <3>2, <3>3
  <2>5. chunks'[1] = chunks[2]
    BY <1>3, <2>2
  <2>6. chunks[1] \in Edges /\ chunks[2] \in Edges
    BY <1>3, <2>4, ElementOfSeq DEF ChunksInv
  <2>7. chunks[1].start \in Nat /\ chunks[2].start \in Nat
    BY <1>2, <2>6 DEF Edges
  <2> QED
    BY <2>3, <2>4, <2>5, <2>7
<1>6. start' \in 0..len' /\ Boundary(start)'
  BY <1>1, <1>2 DEF ChunksInv, Boundary, len
<1> QED
  BY <1>1, <1>2, <1>3, <1>4, <1>5, <1>6 DEF ChunksInv, Cutting

-----------------------------------------------------------------------------
(* Steps of the detectors and of the merge                                 *)

LEMMA FoundInText ==
    ASSUME text \in Texts, names \in NamesIn(text)
    PROVE  /\ \A hits \in HitsIn(text) : \A h \in hits :
                HitSpan(h).start \in 0..len /\ HitSpan(h).end \in HitSpan(h).start..len
           /\ \A n \in names :
                NameSpan(n).start \in 0..len /\ NameSpan(n).end \in NameSpan(n).start..len
<1>1. len \in Nat /\ len = Len(text)
  BY TextFacts DEF len
<1>2. ASSUME NEW hits \in HitsIn(text), NEW h \in hits
      PROVE  HitSpan(h).start \in 0..len /\ HitSpan(h).end \in HitSpan(h).start..len
  <2>1. h \in Hit /\ h.start <= h.end /\ h.end <= Len(text)
    BY FindingsAssumption
  <2>2. h.start \in Nat /\ h.end \in Nat
    BY <2>1 DEF Hit
  <2>3. HitSpan(h).start = h.start /\ HitSpan(h).end = h.end
    BY DEF HitSpan
  <2> QED
    BY <1>1, <2>1, <2>2, <2>3
<1>3. ASSUME NEW n \in names
      PROVE  NameSpan(n).start \in 0..len /\ NameSpan(n).end \in NameSpan(n).start..len
  <2>1. n \in Name /\ n.start <= n.end /\ n.end <= Len(text)
    BY FindingsAssumption
  <2>2. n.start \in Nat /\ n.end \in Nat
    BY <2>1 DEF Name
  <2>3. NameSpan(n).start = n.start /\ NameSpan(n).end = n.end
    BY DEF NameSpan
  <2> QED
    BY <1>1, <2>1, <2>2, <2>3
<1> QED
  BY <1>2, <1>3

\* More is found, and nothing is merged yet.
LEMMA MoreFound ==
    ASSUME TextInv, MergeInv, UNCHANGED <<text, names, allow, kept, masked>>,
           at \in {"match", "chunk", "infer"}, at' # "done",
           seen' = found',
           \A s \in found' : s \in seen \/ (s.start \in 0..len /\ s.end \in s.start..len)
    PROVE  MergeInv'
<1>1. len' = len
  BY SameText
<1>2. kept' = <<>> /\ masked' = {}
  BY DEF MergeInv
<1>3. kept' \in Seq(seen') /\ DOMAIN kept' = {}
  BY <1>2, EmptySeq
<1>4. \A s \in seen' : s.start \in 0..len /\ s.end \in s.start..len
  BY DEF MergeInv
<1>5. seen' \ found' = {}
  OBVIOUS
<1> QED
  BY <1>1, <1>2, <1>3, <1>4, <1>5 DEF MergeInv

LEMMA InferMerge ==
    ASSUME TextInv, MergeInv, Infer PROVE MergeInv'
<1>1. /\ at = "infer" /\ at' = at /\ UNCHANGED <<text, names, allow, kept, masked>>
      /\ seen' = seen \cup found'
  BY DEF Infer, given
<1>2. found = seen
  BY <1>1 DEF MergeInv
<1>3. ASSUME NEW s \in found' PROVE s \in seen \/ \E n \in names : s = NameSpan(n)
  <2> DEFINE c == Head(chunks)
             labels == {id \in Labels : Best(id, c) # {}}
  <2>1. CASE UNCHANGED found
    BY <1>2, <1>3, <2>1
  <2>2. CASE \E pick \in [labels -> names] :
                /\ \A id \in labels : pick[id] \in Best(id, c)
                /\ found' = found \cup {NameSpan(pick[id]) : id \in labels}
    <3> HIDE DEF labels
    <3>1. PICK pick \in [labels -> names] :
                found' = found \cup {NameSpan(pick[id]) : id \in labels}
      BY <2>2
    <3>2. CASE s \in found
      BY <1>2, <3>2
    <3>3. CASE s \notin found
      <4>1. PICK id \in labels : s = NameSpan(pick[id])
        BY <1>3, <3>1, <3>3
      <4>2. pick[id] \in names
        BY <3>1
      <4> QED
        BY <4>1, <4>2
    <3> QED
      BY <3>2, <3>3
  <2> QED
    BY <2>1, <2>2 DEF Infer
<1>4. found \subseteq found'
  BY DEF Infer
<1>5. seen' = found'
  BY <1>1, <1>2, <1>4
<1>6. \A s \in found' : s \in seen \/ (s.start \in 0..len /\ s.end \in s.start..len)
  BY <1>3, FoundInText DEF TextInv
<1> QED
  BY <1>1, <1>5, <1>6, MoreFound

LEMMA MatchMerge ==
    ASSUME TextInv, MergeInv, Match PROVE MergeInv'
<1>1. /\ at = "match" /\ at' \in {"chunk", "merge"}
      /\ UNCHANGED <<text, names, allow, kept, masked>> /\ seen' = found'
  BY DEF Match, given
<1>2. PICK hits \in HitsIn(text) : found' = {HitSpan(h) : h \in {g \in hits : Matches(g)}}
  BY DEF Match
<1>3. \A s \in found' : s.start \in 0..len /\ s.end \in s.start..len
  BY <1>2, FoundInText DEF TextInv
<1> QED
  BY <1>1, <1>3, MoreFound

\* The sort and the pass over the spans, one at a time.
LEMMA MergeNextMerge ==
    ASSUME TextInv, MergeInv, MergeNext PROVE MergeInv'
<1>1. /\ at = "merge" /\ at' = at /\ UNCHANGED <<text, names, allow, seen, masked>>
      /\ len' = len /\ masked = {} /\ len \in Nat
  BY SameText, TextFacts DEF MergeNext, given, MergeInv, TextInv
<1>2. PICK s \in found :
        /\ \A t \in found : ~ Before(t, s)
        /\ found' = found \ {s}
        /\ kept' = IF Keeps(s) THEN Append(kept, s) ELSE kept
  BY DEF MergeNext
<1>3. /\ \A t \in seen : t.start \in 0..len /\ t.end \in t.start..len
      /\ found \subseteq seen /\ kept \in Seq(seen)
      /\ Len(kept) \in Nat /\ DOMAIN kept = 1..Len(kept)
      /\ \A i \in DOMAIN kept : kept[i] \in seen
  BY LenProperties, ElementOfSeq DEF MergeInv
<1>4. \A t \in found : s.start <= t.start
  BY <1>1, <1>2, <1>3 DEF Before
<1>5. kept # <<>> =>
        /\ Len(kept) \in DOMAIN kept /\ Last(kept) = kept[Len(kept)] /\ Last(kept) \in seen
        /\ Last(kept).start <= s.start
  <2>1. kept # <<>> => Len(kept) \in Nat \ {0}
    BY <1>3, EmptySeq
  <2> QED
    BY <1>2, <1>3, <2>1 DEF Last, MergeInv
<1>6. CASE Keeps(s)
  <2> DEFINE n == Len(kept)
  <2>1. /\ kept' \in Seq(seen) /\ Len(kept') = n + 1 /\ kept'[n + 1] = s
        /\ \A i \in 1..n : kept'[i] = kept[i]
    <3>1. kept' = Append(kept, s) /\ s \in seen
      BY <1>2, <1>3, <1>6
    <3> QED
      BY <1>3, <3>1, AppendProperties
  <2>2. DOMAIN kept' = 1..(n + 1) /\ n \in Nat /\ DOMAIN kept = 1..n
    BY <1>3, <2>1, LenProperties
  <2>3. Last(kept') = s
    BY <2>1 DEF Last
  <2>4. kept # <<>> => n \in DOMAIN kept /\ Last(kept) = kept[n] /\ kept[n].end <= s.start
    BY <1>5, <1>6 DEF Keeps
  <2>5. kept = <<>> => n = 0
    BY EmptySeq
  <2> HIDE DEF n
  <2>6. \A i \in 1..n : kept[i].end <= s.start
    <3>1. SUFFICES ASSUME NEW i \in 1..n PROVE kept[i].end <= s.start
      OBVIOUS
    <3>2. kept # <<>> /\ kept[i] \in seen /\ kept[n] \in seen /\ kept[n].end <= s.start
      BY <1>3, <2>2, <2>4, <2>5
    <3>3. CASE i = n
      BY <3>2, <3>3
    <3>4. CASE i # n
      <4>1. kept[i].end <= kept[n].start
        <5>1. i \in DOMAIN kept /\ n \in DOMAIN kept /\ i < n
          BY <2>2, <3>4
        <5> QED
          BY <5>1 DEF MergeInv
      <4>2. s \in seen
        BY <1>2, <1>3
      <4> QED
        BY <1>1, <1>3, <3>2, <4>1, <4>2
    <3> QED
      BY <3>3, <3>4
  <2>7. ASSUME NEW i \in DOMAIN kept', NEW j \in DOMAIN kept', i < j
        PROVE  kept'[i].end <= kept'[j].start
    <3>1. i \in 1..n
      BY <2>2, <2>7
    <3>2. CASE j = n + 1
      BY <2>1, <2>6, <3>1, <3>2
    <3>3. CASE j # n + 1
      <4>1. j \in 1..n
        BY <2>2, <3>3
      <4> QED
        BY <2>1, <2>2, <2>7, <3>1, <4>1 DEF MergeInv
    <3> QED
      BY <3>2, <3>3
  <2>8. ASSUME NEW t \in seen \ found'
        PROVE  \E i \in DOMAIN kept' :
                  t = kept'[i] \/ (kept'[i].start <= t.start /\ t.start < kept'[i].end)
    <3>1. CASE t = s
      BY <2>1, <2>2, <3>1
    <3>2. CASE t # s
      <4>1. PICK i \in DOMAIN kept :
                t = kept[i] \/ (kept[i].start <= t.start /\ t.start < kept[i].end)
        BY <1>2, <2>8, <3>2 DEF MergeInv
      <4>2. i \in DOMAIN kept' /\ kept'[i] = kept[i]
        BY <2>1, <2>2
      <4> QED
        BY <4>1, <4>2
    <3> QED
      BY <3>1, <3>2
  <2>9. \A t \in found' : Last(kept').start <= t.start
    BY <1>2, <1>4, <2>3
  <2> QED
    BY <1>1, <1>2, <1>3, <2>1, <2>7, <2>8, <2>9 DEF MergeInv
<1>7. CASE ~ Keeps(s)
  <2>1. kept' = kept /\ kept # <<>> /\ s.start < Last(kept).end
    BY <1>1, <1>2, <1>3, <1>5, <1>7 DEF Keeps
  <2>2. ASSUME NEW t \in seen \ found'
        PROVE  \E i \in DOMAIN kept :
                  t = kept[i] \/ (kept[i].start <= t.start /\ t.start < kept[i].end)
    <3>1. CASE t = s
      BY <1>5, <2>1, <3>1
    <3>2. CASE t # s
      BY <1>2, <2>2, <3>2 DEF MergeInv
    <3> QED
      BY <3>1, <3>2
  <2>3. \A t \in found' : Last(kept).start <= t.start
    BY <1>2, <2>1 DEF MergeInv
  <2> QED
    BY <1>1, <1>2, <1>3, <2>1, <2>2, <2>3 DEF MergeInv
<1> QED
  BY <1>6, <1>7

LEMMA FilterMerge ==
    ASSUME TextInv, MergeInv, Filter PROVE MergeInv'
<1>1. /\ at = "merge" /\ at' = "done" /\ UNCHANGED <<text, names, allow, found, seen, kept>>
      /\ found = {} /\ masked' = {s \in ToSet(kept) : ~ Allowed(s)}
      /\ len' = len
  BY SameText DEF Filter, given
<1>2. masked' = {s \in ToSet(kept)' : ~ Allowed(s)'}
  BY <1>1 DEF Allowed, ToSet
<1> QED
  BY <1>1, <1>2 DEF MergeInv

LEMMA MergeKept ==
    ASSUME MergeInv, UNCHANGED <<text, allow, found, seen, kept, masked>>,
           at' = "done" <=> at = "done",
           at' \in {"match", "chunk", "infer"} => at \in {"match", "chunk", "infer"}
    PROVE  MergeInv'
<1>1. len' = len
  BY SameText
<1>2. {s \in ToSet(kept) : ~ Allowed(s)}' = {s \in ToSet(kept) : ~ Allowed(s)}
  BY DEF Allowed, ToSet
<1> QED
  BY <1>1, <1>2 DEF MergeInv

-----------------------------------------------------------------------------
(* The theorems                                                            *)

LEMMA InitIInv == Init => IInv
<1> SUFFICES ASSUME Init PROVE IInv
  OBVIOUS
<1>1. TextInv /\ len \in Nat
  BY TextFacts DEF Init, TextInv
<1>2. chunks = <<>> /\ chunks \in Seq(Edges) /\ DOMAIN chunks = {}
  BY EmptySeq DEF Init
<1>3. ChunksInv
  BY <1>1, <1>2 DEF Init, ChunksInv, Boundary, Chain, Cutting, Cut
<1>4. kept \in Seq(seen) /\ DOMAIN kept = {}
  BY EmptySeq DEF Init
<1>5. MergeInv
  BY <1>4 DEF Init, MergeInv
<1> QED
  BY <1>1, <1>3, <1>5 DEF IInv

LEMMA NextIInv == IInv /\ [Next]_vars => IInv'
<1> SUFFICES ASSUME IInv, [Next]_vars PROVE IInv'
  OBVIOUS
<1> USE DEF IInv
<1>1. CASE Match
  <2>1. TextInv' /\ ChunksInv'
    BY <1>1, ChunksKept DEF Match, given, TextInv
  <2> QED
    BY <1>1, <2>1, MatchMerge
<1>2. CASE ChunkNext
  <2>1. TextInv'
    BY <1>2 DEF ChunkNext, given, TextInv
  <2>2. /\ at = "chunk" /\ at' \in {"chunk", "infer"}
        /\ UNCHANGED <<text, allow, found, seen, kept, masked>>
    BY <1>2 DEF ChunkNext, given
  <2>3. MergeInv'
    BY <2>2, MergeKept
  <2> QED
    BY <1>2, <2>1, <2>3, ChunkNextChunks
<1>3. CASE Infer
  <2>1. TextInv'
    BY <1>3 DEF Infer, given, TextInv
  <2> QED
    BY <1>3, <2>1, InferChunks, InferMerge
<1>4. CASE EndInfer
  <2>1. TextInv' /\ ChunksInv'
    BY <1>4, ChunksKept DEF EndInfer, given, TextInv
  <2>2. MergeInv'
    BY <1>4, MergeKept DEF EndInfer, given
  <2> QED
    BY <2>1, <2>2
<1>5. CASE MergeNext
  <2>1. TextInv' /\ ChunksInv'
    BY <1>5, ChunksKept DEF MergeNext, given, TextInv
  <2> QED
    BY <1>5, <2>1, MergeNextMerge
<1>6. CASE Filter
  <2>1. TextInv' /\ ChunksInv'
    BY <1>6, ChunksKept DEF Filter, given, TextInv
  <2> QED
    BY <1>6, <2>1, FilterMerge
<1>7. CASE UNCHANGED vars
  <2>1. TextInv' /\ ChunksInv'
    BY <1>7, ChunksKept DEF vars, TextInv
  <2>2. MergeInv'
    BY <1>7, MergeKept DEF vars
  <2> QED
    BY <2>1, <2>2
<1> QED
  BY <1>1, <1>2, <1>3, <1>4, <1>5, <1>6, <1>7 DEF Next

LEMMA Invariance == Spec => []IInv
BY InitIInv, NextIInv, PTL DEF Spec

\* Every chunk, span and finding lies in the text, and a chunk begins where a
\* character does, for every well-formed text: no slice of the text panics.
THEOREM TypeCorrect == Spec => []TypeOK
<1>1. IInv => TypeOK
  <2> SUFFICES ASSUME IInv PROVE TypeOK
    OBVIOUS
  <2>1. text \in Seq(Bytes)
    BY TextFacts DEF IInv, TextInv
  <2>2. \A i \in DOMAIN chunks : 0 <= chunks[i].start /\ chunks[i].end <= len
    <3>1. \A i \in DOMAIN chunks : chunks[i] \in Edges
      BY LenProperties, ElementOfSeq DEF IInv, ChunksInv
    <3>2. len \in Nat
      BY TextFacts DEF IInv, TextInv
    <3> QED
      BY <3>1, <3>2 DEF Edges
  <2>3. \A s \in seen : 0 <= s.start /\ s.start <= s.end /\ s.end <= len
    <3>1. len \in Nat
      BY TextFacts DEF IInv, TextInv
    <3> QED
      BY <3>1 DEF IInv, MergeInv
  <2>4. masked \subseteq ToSet(kept)
    BY DEF IInv, MergeInv
  <2>5. ToSet(kept) \subseteq seen
    BY LenProperties, ElementOfSeq DEF ToSet, IInv, MergeInv
  <2> QED
    BY <2>1, <2>2, <2>3, <2>4, <2>5 DEF IInv, TextInv, ChunksInv, MergeInv, TypeOK
<1> QED
  BY <1>1, Invariance, PTL

\* chunk_text covers every text with chunks that the model can take, whatever the
\* sizes, and each begins after the one before, so that its loop ends.
THEOREM ChunksCoverText == Spec => []ChunksCover
<1>1. IInv => ChunksCover
  BY DEF IInv, ChunksInv, Chain, Cut, ChunksCover, AllChunked
<1> QED
  BY <1>1, Invariance, PTL

\* A name that is no longer than the overlap is whole in some chunk, for every text
\* and every chunk that is longer than two overlaps.
THEOREM ShortNamesWhole == Spec => []NamesWhole
<1>1. IInv => NamesWhole
  <2> SUFFICES ASSUME IInv, AllChunked, 2 * Overlap < MaxChars,
                      NEW a \in 0..len, NEW b \in a + 1 .. AtMost(a + Overlap, len), Words(a, b)
               PROVE  \E i \in DOMAIN chunks : Inside([start |-> a, end |-> b], chunks[i])
    BY DEF NamesWhole
  <2>1. WholeBefore(len)
    BY DEF AllChunked, IInv, ChunksInv, Cut
  <2>2. a < len
    <3>1. len \in Nat /\ Overlap \in Nat
      BY TextFacts, SizesAssumption DEF IInv, TextInv
    <3> QED
      BY <3>1 DEF AtMost
  <2> QED
    BY <2>1, <2>2 DEF WholeBefore
<1> QED
  BY <1>1, Invariance, PTL

\* What DetectorChain::detect and Allowlist::filter leave is in order and apart,
\* and nothing a detector found begins outside of it, but for what is allowed.
THEOREM SpansMerged == Spec => []Merged
<1>1. IInv => Merged
  <2> SUFFICES ASSUME IInv, at = "done" PROVE
        /\ \A i, j \in DOMAIN kept : i < j => kept[i].end <= kept[j].start
        /\ \A s \in seen : \E i \in DOMAIN kept :
            /\ s = kept[i] \/ (kept[i].start <= s.start /\ s.start < kept[i].end)
            /\ kept[i] \in masked \/ Allowed(kept[i])
    BY DEF Merged
  <2>1. found = {} /\ masked = {s \in ToSet(kept) : ~ Allowed(s)}
    BY DEF IInv, MergeInv
  <2>2. \A i \in DOMAIN kept : kept[i] \in masked \/ Allowed(kept[i])
    BY <2>1 DEF ToSet
  <2> QED
    BY <2>1, <2>2 DEF IInv, MergeInv
<1> QED
  BY <1>1, Invariance, PTL


-----------------------------------------------------------------------------
(* Sums and remainders, one number or character at a time                  *)

TotalFolds(f, n, terms) ==
    f = [s \in SUBSET (1..n) |-> IF s = {} THEN 0 ELSE f[s \ {Max(s)}] + terms[Max(s)]]

\* The numbers a sum goes through.
Sums(r, n, terms) ==
    /\ r \in [0..n -> Int] /\ r[0] = 0
    /\ \A k \in 1..n : r[k] = r[k - 1] + terms[k]

LEMMA MaxOfNonEmpty ==
    ASSUME NEW n \in Nat, NEW s \in SUBSET (1..n), s # {}
    PROVE  Max(s) \in 1..n /\ Max(s) \in s
<1>1. s \in SUBSET (0..n)
  OBVIOUS
<1>2. Max(s) \in s
  BY <1>1, MaxOfBounded
<1> QED
  BY <1>2

LEMMA TotalSums ==
    ASSUME NEW n \in Nat, NEW terms \in [1..n -> Int]
    PROVE  \E r : Sums(r, n, terms) /\ Total(terms) = r[n]
<1> DEFINE step == [p \in Int \X Int |-> p[1] + p[2]]
<1>1. step \in [Int \X Int -> Int]
  <2>1. \A p \in Int \X Int : p[1] \in Int /\ p[2] \in Int
    OBVIOUS
  <2>2. \A p \in Int \X Int : p[1] + p[2] \in Int
    BY <2>1
  <2> QED
    BY <2>2, Zenon
<1>1a. \A a, b \in Int : step[a, b] = a + b
  OBVIOUS
<1> HIDE DEF step
<1>2. HasFold(Int, n, step, 0, terms)
  <2>1. 0 \in Int
    OBVIOUS
  <2> QED
    BY <1>1, <2>1, FoldExists, Zenon
<1>3. ASSUME NEW g \in [SUBSET (1..n) -> Int], Folds(g, n, step, 0, terms)
      PROVE  TotalFolds(g, n, terms)
  <2>1. ASSUME NEW s \in SUBSET (1..n)
        PROVE  g[s] = IF s = {} THEN 0 ELSE g[s \ {Max(s)}] + terms[Max(s)]
    <3>1. CASE s = {}
      BY <1>3, <3>1 DEF Folds
    <3>2. CASE s # {}
      <4>1. g[s] = step[g[s \ {Max(s)}], terms[Max(s)]]
        BY <1>3, <3>2, Zenon DEF Folds
      <4>2. Max(s) \in 1..n
        BY <3>2, MaxOfNonEmpty
      <4>3. g[s \ {Max(s)}] \in Int /\ terms[Max(s)] \in Int
        BY <4>2
      <4> QED
        BY <1>1a, <3>2, <4>1, <4>3
    <3> QED
      BY <3>1, <3>2
  <2>2. g = [s \in SUBSET (1..n) |-> g[s]]
    OBVIOUS
  <2> QED
    BY <2>1, <2>2 DEF TotalFolds
<1> DEFINE Iter == CHOOSE f : TotalFolds(f, n, terms)
<1>4. TotalFolds(Iter, n, terms)
  <2>1. \E f : TotalFolds(f, n, terms)
    BY <1>2, <1>3, Zenon DEF HasFold
  <2> QED
    BY <2>1, Zenon
<1>5. Total(terms) = Iter[1..n]
  BY DEF Total, FoldLeft, MapThenFoldSet, TotalFolds
<1> HIDE DEF Iter
<1> DEFINE r == [k \in 0..n |-> Iter[1..k]]
<1>6. ASSUME NEW k \in 1..n PROVE Iter[1..k] = Iter[1..(k - 1)] + terms[k]
  <2>1. k - 1 \in Nat /\ (k - 1) + 1 = k
    OBVIOUS
  <2>2. 1..k \in SUBSET (1..(k - 1) + 1) /\ k \in 1..k /\ 1..k # {} /\ 1..k \in SUBSET (1..n)
    OBVIOUS
  <2>3. Max(1..k) = k
    BY <2>1, <2>2, MaxOfInterval
  <2>4. (1..k) \ {k} = 1..(k - 1)
    OBVIOUS
  <2>5. Iter[1..k] = Iter[(1..k) \ {Max(1..k)}] + terms[Max(1..k)]
    BY <1>4, <2>2 DEF TotalFolds
  <2> QED
    BY <2>3, <2>4, <2>5
<1>7. Iter[1..0] = 0
  <2>1. 1..0 = {} /\ {} \in SUBSET (1..n)
    OBVIOUS
  <2> QED
    BY <1>4, <2>1 DEF TotalFolds
<1>8. r[0] = 0 /\ \A k \in 1..n : r[k] = r[k - 1] + terms[k]
  <2>1. \A k \in 1..n : k \in 0..n /\ k - 1 \in 0..n
    OBVIOUS
  <2>2. 0 \in 0..n
    OBVIOUS
  <2> QED
    BY <1>6, <1>7, <2>1, <2>2
<1>9. r \in [0..n -> Int]
  <2> DEFINE Good == {k \in Nat : k <= n => Iter[1..k] \in Int}
  <2>1. 0 \in Good
    BY <1>7
  <2>2. ASSUME NEW k \in Nat, k \in Good PROVE k + 1 \in Good
    <3>1. SUFFICES ASSUME k + 1 <= n PROVE Iter[1..(k + 1)] \in Int
      OBVIOUS
    <3>2. k + 1 \in 1..n /\ (k + 1) - 1 = k
      BY <3>1
    <3>3. Iter[1..(k + 1)] = Iter[1..k] + terms[k + 1]
      BY <1>6, <3>2
    <3>4. Iter[1..k] \in Int
      BY <2>2, <3>1
    <3> QED
      BY <3>2, <3>3, <3>4
  <2> HIDE DEF Good
  <2>3. Nat \subseteq Good
    BY <2>1, <2>2, NatSetInduction
  <2>4. \A k \in 0..n : Iter[1..k] \in Int
    BY <2>3 DEF Good
  <2> QED
    BY <2>4
<1>10. r[n] = Iter[1..n]
  OBVIOUS
<1> HIDE DEF r
<1> QED
  BY <1>5, <1>8, <1>9, <1>10 DEF Sums

\* Sums of terms that differ in one place differ by as much.
LEMMA TotalsApart ==
    ASSUME NEW n \in Nat, NEW i \in 1..n, NEW s \in [1..n -> Int], NEW t \in [1..n -> Int],
           \A k \in 1..n : k # i => s[k] = t[k]
    PROVE  /\ Total(s) \in Int /\ Total(t) \in Int
           /\ Total(t) - Total(s) = t[i] - s[i]
<1>1. PICK r : Sums(r, n, s) /\ Total(s) = r[n]
  BY TotalSums
<1>2. PICK q : Sums(q, n, t) /\ Total(t) = q[n]
  BY TotalSums
<1>3. \A k \in 0..n : r[k] \in Int /\ q[k] \in Int
  BY <1>1, <1>2 DEF Sums
<1> DEFINE Good == {k \in Nat : k <= n => q[k] - r[k] = IF k < i THEN 0 ELSE t[i] - s[i]}
<1>4. 0 \in Good
  BY <1>1, <1>2 DEF Sums
<1>5. ASSUME NEW k \in Nat, k \in Good PROVE k + 1 \in Good
  <2>1. SUFFICES ASSUME k + 1 <= n
                 PROVE  q[k + 1] - r[k + 1] = IF k + 1 < i THEN 0 ELSE t[i] - s[i]
    OBVIOUS
  <2>2. k + 1 \in 1..n /\ (k + 1) - 1 = k /\ k \in 0..n
    BY <2>1
  <2>3. r[k + 1] = r[k] + s[k + 1] /\ q[k + 1] = q[k] + t[k + 1]
    BY <1>1, <1>2, <2>2 DEF Sums
  <2>4. q[k] - r[k] = IF k < i THEN 0 ELSE t[i] - s[i]
    BY <1>5, <2>1
  <2>5. s[k + 1] \in Int /\ t[k + 1] \in Int /\ s[i] \in Int /\ t[i] \in Int
    BY <2>2
  <2>6. r[k] \in Int /\ q[k] \in Int
    BY <1>3, <2>2
  <2>7. CASE k + 1 = i
    <3>1. k < i /\ ~ (k + 1 < i)
      BY <2>7
    <3>2. q[k] = r[k]
      BY <2>4, <2>6, <3>1
    <3>3. q[k + 1] - r[k + 1] = t[k + 1] - s[k + 1]
      BY <2>3, <2>5, <2>6, <3>2
    <3> QED
      BY <2>7, <3>1, <3>3
  <2>8. CASE k + 1 # i
    <3>1. s[k + 1] = t[k + 1]
      BY <2>2, <2>8
    <3>2. q[k + 1] - r[k + 1] = q[k] - r[k]
      BY <2>3, <2>5, <2>6, <3>1
    <3>3. k + 1 < i <=> k < i
      BY <2>2, <2>8
    <3> QED
      BY <2>4, <3>2, <3>3
  <2> QED
    BY <2>7, <2>8
<1> HIDE DEF Good
<1>6. Nat \subseteq Good
  BY <1>4, <1>5, NatSetInduction
<1>7. q[n] - r[n] = t[i] - s[i]
  <2>1. n \in Good /\ n <= n /\ ~ (n < i)
    BY <1>6
  <2> QED
    BY <2>1 DEF Good
<1>8. n \in 0..n
  OBVIOUS
<1> QED
  BY <1>1, <1>2, <1>3, <1>7, <1>8

\* And in two neighbouring places.
LEMMA TotalsApartTwice ==
    ASSUME NEW n \in Nat, NEW i \in 1..n, i + 1 \in 1..n,
           NEW s \in [1..n -> Int], NEW t \in [1..n -> Int],
           \A k \in 1..n : k \notin {i, i + 1} => s[k] = t[k]
    PROVE  /\ Total(s) \in Int /\ Total(t) \in Int
           /\ Total(t) - Total(s) = (t[i] - s[i]) + (t[i + 1] - s[i + 1])
<1> DEFINE m == [s EXCEPT ![i] = t[i]]
<1>1. m \in [1..n -> Int] /\ m[i] = t[i] /\ m[i + 1] = s[i + 1]
  OBVIOUS
<1>2. \A k \in 1..n : k # i => s[k] = m[k]
  OBVIOUS
<1>3. \A k \in 1..n : k # i + 1 => m[k] = t[k]
  OBVIOUS
<1> HIDE DEF m
<1>4. Total(s) \in Int /\ Total(m) \in Int /\ Total(m) - Total(s) = m[i] - s[i]
  BY <1>1, <1>2, TotalsApart
<1>5. Total(t) \in Int /\ Total(t) - Total(m) = t[i + 1] - m[i + 1]
  BY <1>1, <1>3, TotalsApart
<1>6. t[i] \in Int /\ s[i] \in Int /\ t[i + 1] \in Int /\ s[i + 1] \in Int
  <2>1. \A k \in 1..n : s[k] \in Int /\ t[k] \in Int
    OBVIOUS
  <2> QED
    BY <2>1, Zenon
<1> QED
  BY <1>1, <1>4, <1>5, <1>6

-----------------------------------------------------------------------------
(* Digits and their places                                                 *)

\* What a sequence of characters is as a function.
LEMMA ReadFacts ==
    ASSUME NEW read \in Seq(Chars)
    PROVE  /\ Len(read) \in Nat /\ DOMAIN read = 1..Len(read)
           /\ read \in [1..Len(read) -> 0..36]
           /\ Digits(read) \in SUBSET (1..Len(read))
           /\ \A i \in Digits(read) : read[i] \in 0..9
<1>1. Len(read) \in Nat /\ DOMAIN read = 1..Len(read) /\ read \in [1..Len(read) -> 0..36]
  BY LenProperties DEF Chars
<1>2. \A i \in 1..Len(read) : read[i] \in 0..36
  BY <1>1
<1>3. Digits(read) \in SUBSET (1..Len(read))
  BY <1>1 DEF Digits
<1>4. ASSUME NEW i \in Digits(read) PROVE read[i] \in 0..9
  <2>1. read[i] < 10 /\ i \in 1..Len(read)
    BY <1>1 DEF Digits
  <2>2. read[i] \in 0..36
    BY <1>2, <2>1
  <2>3. \A x \in 0..36 : x < 10 => x \in 0..9
    OBVIOUS
  <2> QED
    BY <2>1, <2>2, <2>3, Zenon
<1> QED
  BY <1>1, <1>3, <1>4

LEMMA PlaceFacts ==
    ASSUME NEW read \in Seq(Chars), NEW i \in Digits(read)
    PROVE  /\ Place(read, i) \in Nat
           /\ Cardinality(Digits(read)) \in Nat
           /\ Place(read, i) < Cardinality(Digits(read))
           /\ i + 1 \in Digits(read) => Place(read, i) = Place(read, i + 1) + 1
<1> DEFINE D == Digits(read)
           After(k) == {j \in D : j > k}
<1>1. Len(read) \in Nat /\ D \in SUBSET (1..Len(read)) /\ i \in Int
  BY ReadFacts
<1>2. IsFiniteSet(D) /\ Cardinality(D) \in Nat
  <2>1. IsFiniteSet(1..Len(read))
    BY <1>1, FS_Interval
  <2> QED
    BY <1>1, <2>1, FS_Subset, FS_CardinalityType
<1>3. \A k \in Int : IsFiniteSet(After(k)) /\ Cardinality(After(k)) \in Nat
  <2>1. \A k \in Int : After(k) \subseteq D
    OBVIOUS
  <2> HIDE DEF After, D
  <2> QED
    BY <1>2, <2>1, FS_Subset, FS_CardinalityType
<1>4. Cardinality(After(i)) < Cardinality(D)
  <2>1. After(i) \subseteq D \ {i} /\ i \in D
    BY <1>1
  <2> HIDE DEF After, D
  <2>2. IsFiniteSet(D \ {i}) /\ Cardinality(D \ {i}) = Cardinality(D) - 1
    BY <1>2, <2>1, FS_RemoveElement
  <2>3. Cardinality(After(i)) <= Cardinality(D \ {i}) /\ Cardinality(After(i)) \in Nat
    BY <1>1, <1>3, <2>1, <2>2, FS_Subset
  <2> QED
    BY <1>2, <2>2, <2>3
<1>5. ASSUME i + 1 \in D PROVE Cardinality(After(i)) = Cardinality(After(i + 1)) + 1
  <2>1. After(i) = After(i + 1) \cup {i + 1} /\ i + 1 \notin After(i + 1)
    BY <1>1, <1>5
  <2>2. IsFiniteSet(After(i + 1))
    BY <1>1, <1>3
  <2> HIDE DEF After, D
  <2> QED
    BY <2>1, <2>2, FS_AddElement
<1> QED
  BY <1>1, <1>2, <1>3, <1>4, <1>5 DEF Place

\* A digit for a digit leaves all digits where they are.
LEMMA SamePlaces ==
    ASSUME NEW read \in Seq(Chars), NEW t \in Seq(Chars), Len(t) = Len(read),
           \A k \in 1..Len(read) : t[k] < 10 <=> read[k] < 10
    PROVE  Digits(t) = Digits(read) /\ \A k : Place(t, k) = Place(read, k)
<1>1. Digits(t) = Digits(read)
  BY ReadFacts DEF Digits
<1> QED
  BY <1>1 DEF Place

-----------------------------------------------------------------------------
(* Luhn's sum and the tax office's                                         *)

\* The two mistakes.
Changed(s, t, i) ==
    /\ Len(t) = Len(s) /\ i \in 1..Len(s) /\ s[i] # t[i] /\ Alike(s[i], t[i])
    /\ \A k \in 1..Len(s) : k # i => s[k] = t[k]

Exchanged(s, t, i) ==
    /\ Len(t) = Len(s) /\ i \in 1..Len(s) /\ i + 1 \in 1..Len(s)
    /\ s[i] # s[i + 1] /\ Alike(s[i], s[i + 1])
    /\ t[i] = s[i + 1] /\ t[i + 1] = s[i]
    /\ \A k \in 1..Len(s) : k \notin {i, i + 1} => s[k] = t[k]

LEMMA DoubledFacts ==
    /\ \A d \in 0..9 : Doubled(d) \in 0..9
    /\ \A d, e \in 0..9 : d # e => /\ (e - d) % 10 # 0
                                   /\ (Doubled(e) - Doubled(d)) % 10 # 0
    /\ \A d, e \in 0..9 : d # e /\ {d, e} # {0, 9}
            => /\ ((Doubled(e) - Doubled(d)) + (d - e)) % 10 # 0
               /\ ((e - d) + (Doubled(d) - Doubled(e))) % 10 # 0
BY DEF Doubled

LEMMA LuhnTermsType ==
    ASSUME NEW read \in Seq(Chars)
    PROVE  LuhnTerms(read) \in [1..Len(read) -> Int]
<1>1. DOMAIN read = 1..Len(read)
  BY ReadFacts
<1>2. \A d \in 0..9 : d \in Int /\ Doubled(d) \in Int
  BY DEF Doubled
<1>3. \A i \in Digits(read) : read[i] \in Int /\ Doubled(read[i]) \in Int
  BY <1>2, ReadFacts, Zenon
<1> QED
  BY <1>1, <1>3 DEF LuhnTerms

\* Adding x to a multiple of m that is no longer one.
LEMMA OffMultiple ==
    ASSUME NEW a \in Int, NEW b \in Int, NEW x \in Int, b - a = x
    PROVE  /\ a % 10 = 0 /\ x % 10 # 0 => b % 10 # 0
           /\ a % 11 = 0 /\ x % 11 # 0 => b % 11 # 0
OBVIOUS

LEMMA ExceptType ==
    ASSUME NEW read \in Seq(Chars), NEW i \in 1..Len(read), NEW c \in Chars
    PROVE  LET t == [read EXCEPT ![i] = c]
           IN /\ t \in Seq(Chars) /\ Len(t) = Len(read) /\ t[i] = c
              /\ \A k \in 1..Len(read) : k # i => t[k] = read[k]
BY LenProperties, ExceptSeq

LEMMA LuhnSeesDigit ==
    ASSUME NEW read \in Seq(Chars), NEW i \in Digits(read), NEW c \in 0..9, c # read[i],
           LuhnValid(read)
    PROVE  ~ LuhnValid([read EXCEPT ![i] = c])
<1> DEFINE t == [read EXCEPT ![i] = c]
           n == Len(read)
<1>1. n \in Nat /\ DOMAIN read = 1..n /\ i \in 1..n /\ read[i] \in 0..9
  BY ReadFacts
<1>2. c \in Chars
  BY DEF Chars
<1>3. /\ t \in Seq(Chars) /\ Len(t) = n /\ t[i] = c
      /\ \A k \in 1..n : k # i => t[k] = read[k]
  BY <1>1, <1>2, ExceptType
<1>4. DOMAIN t = 1..n
  BY <1>3, ReadFacts
<1> HIDE DEF t, n
<1>5. Digits(t) = Digits(read) /\ \A k : Place(t, k) = Place(read, k)
  <2>1. \A k \in 1..n : t[k] < 10 <=> read[k] < 10
    BY <1>1, <1>3
  <2> QED
    BY <1>3, <2>1, SamePlaces DEF n
<1> DEFINE a == LuhnTerms(read)
           b == LuhnTerms(t)
<1>6. a \in [1..n -> Int] /\ b \in [1..n -> Int]
  BY <1>3, LuhnTermsType DEF n
<1>7. \A k \in 1..n : k # i => a[k] = b[k]
  BY <1>1, <1>3, <1>4, <1>5 DEF LuhnTerms
<1>8. IF Place(read, i) % 2 = 1 THEN a[i] = Doubled(read[i]) /\ b[i] = Doubled(c)
      ELSE a[i] = read[i] /\ b[i] = c
  BY <1>1, <1>3, <1>4, <1>5 DEF LuhnTerms
<1>9. (b[i] - a[i]) % 10 # 0
  BY <1>1, <1>8, DoubledFacts
<1>10. Total(a) \in Int /\ Total(b) \in Int /\ Total(b) - Total(a) = b[i] - a[i]
  <2> HIDE DEF a, b
  <2> QED
    BY <1>1, <1>6, <1>7, TotalsApart
<1>11. a[i] \in Int /\ b[i] \in Int
  BY <1>1, <1>6
<1>12. Total(a) % 10 = 0
  BY DEF LuhnValid
<1>13. Total(b) % 10 # 0
  <2> HIDE DEF a, b
  <2>1. b[i] - a[i] \in Int
    BY <1>11
  <2> QED
    BY <1>9, <1>10, <1>12, <2>1, OffMultiple
<1> QED
  BY <1>13 DEF LuhnValid, t

LEMMA LuhnSeesSwap ==
    ASSUME NEW read \in Seq(Chars), NEW t \in Seq(Chars), NEW i, Exchanged(read, t, i),
           i \in Digits(read), i + 1 \in Digits(read), {read[i], read[i + 1]} # {0, 9},
           LuhnValid(read)
    PROVE  ~ LuhnValid(t)
<1> USE DEF Exchanged
<1> DEFINE n == Len(read)
<1>1. /\ n \in Nat /\ DOMAIN read = 1..n /\ i \in 1..n /\ i + 1 \in 1..n
      /\ read[i] \in 0..9 /\ read[i + 1] \in 0..9
  BY ReadFacts
<1>2. DOMAIN t = 1..n
  BY ReadFacts
<1>3. Digits(t) = Digits(read) /\ \A k : Place(t, k) = Place(read, k)
  <2>1. \A k \in 1..n : t[k] < 10 <=> read[k] < 10
    BY <1>1
  <2> QED
    BY <2>1, SamePlaces
<1>4. Place(read, i) = Place(read, i + 1) + 1 /\ Place(read, i + 1) \in Nat
  BY PlaceFacts
<1> DEFINE a == LuhnTerms(read)
           b == LuhnTerms(t)
<1>5. a \in [1..n -> Int] /\ b \in [1..n -> Int]
  BY LuhnTermsType
<1> HIDE DEF n
<1>6. \A k \in 1..n : k \notin {i, i + 1} => a[k] = b[k]
  BY <1>1, <1>2, <1>3 DEF LuhnTerms, n
<1>7. IF Place(read, i) % 2 = 1
      THEN /\ a[i] = Doubled(read[i]) /\ a[i + 1] = read[i + 1]
           /\ b[i] = Doubled(read[i + 1]) /\ b[i + 1] = read[i]
      ELSE /\ a[i] = read[i] /\ a[i + 1] = Doubled(read[i + 1])
           /\ b[i] = read[i + 1] /\ b[i + 1] = Doubled(read[i])
  <2>1. Place(read, i) % 2 = 1 <=> Place(read, i + 1) % 2 # 1
    BY <1>4, SMTT(30)
  <2> QED
    BY <1>1, <1>2, <1>3, <2>1 DEF LuhnTerms
<1>8. ((b[i] - a[i]) + (b[i + 1] - a[i + 1])) % 10 # 0
  BY <1>1, <1>7, DoubledFacts
<1>9. /\ Total(a) \in Int /\ Total(b) \in Int
      /\ Total(b) - Total(a) = (b[i] - a[i]) + (b[i + 1] - a[i + 1])
  <2> HIDE DEF a, b
  <2> QED
    BY <1>1, <1>5, <1>6, TotalsApartTwice
<1>10. (b[i] - a[i]) + (b[i + 1] - a[i + 1]) \in Int
  BY <1>1, <1>5
<1>11. Total(a) % 10 = 0
  BY DEF LuhnValid
<1>12. Total(b) % 10 # 0
  <2> HIDE DEF a, b
  <2> QED
    BY <1>8, <1>9, <1>10, <1>11, OffMultiple
<1> QED
  BY <1>12 DEF LuhnValid

LEMMA WeightFacts ==
    /\ \A p \in 0..8 : TfnWeights[p + 1] \in 1..10
    /\ \A p \in 0..8, d, e \in 0..9 :
          d # e => (e * TfnWeights[p + 1] - d * TfnWeights[p + 1]) % 11 # 0
    /\ \A p \in 0..7, d, e \in 0..9 :
          d # e => ((e * TfnWeights[p + 2] - d * TfnWeights[p + 2])
                      + (d * TfnWeights[p + 1] - e * TfnWeights[p + 1])) % 11 # 0
<1>1. /\ TfnWeights[1] = 1 /\ TfnWeights[2] = 4 /\ TfnWeights[3] = 3
      /\ TfnWeights[4] = 7 /\ TfnWeights[5] = 5 /\ TfnWeights[6] = 8
      /\ TfnWeights[7] = 6 /\ TfnWeights[8] = 9 /\ TfnWeights[9] = 10
  BY DEF TfnWeights
<1>2. \A p \in 0..8 : TfnWeights[p + 1] \in 1..10
  BY <1>1
<1>3. \A w \in 1..10, d, e \in 0..9 : d # e => (e * w - d * w) % 11 # 0
  <2>1. \A x \in (-9)..9 : x # 0 =>
            /\ (x * 1) % 11 # 0 /\ (x * 2) % 11 # 0 /\ (x * 3) % 11 # 0 /\ (x * 4) % 11 # 0
            /\ (x * 5) % 11 # 0 /\ (x * 6) % 11 # 0 /\ (x * 7) % 11 # 0 /\ (x * 8) % 11 # 0
            /\ (x * 9) % 11 # 0 /\ (x * 10) % 11 # 0
    OBVIOUS
  <2>2. TAKE w \in 1..10, d, e \in 0..9
  <2>3. \/ w = 1 \/ w = 2 \/ w = 3 \/ w = 4 \/ w = 5
        \/ w = 6 \/ w = 7 \/ w = 8 \/ w = 9 \/ w = 10
    OBVIOUS
  <2>4. e * w - d * w = (e - d) * w
    BY <2>3
  <2>5. d # e => e - d \in (-9)..9 /\ e - d # 0
    OBVIOUS
  <2> QED
    BY <2>1, <2>3, <2>4, <2>5
<1>4. \A p \in 0..8, d, e \in 0..9 :
          d # e => (e * TfnWeights[p + 1] - d * TfnWeights[p + 1]) % 11 # 0
  BY <1>2, <1>3
<1>5. \A p \in 0..7, d, e \in 0..9 :
          d # e => ((e * TfnWeights[p + 2] - d * TfnWeights[p + 2])
                      + (d * TfnWeights[p + 1] - e * TfnWeights[p + 1])) % 11 # 0
  <2>1. \A p \in 0..7 : /\ TfnWeights[p + 1] \in 1..10 /\ TfnWeights[p + 2] \in 1..10
                        /\ TfnWeights[p + 2] - TfnWeights[p + 1] \in {-2, -1, 1, 3, 4}
    BY <1>1
  <2>2. \A x \in (-9)..9 : x # 0 =>
            /\ (x * (-2)) % 11 # 0 /\ (x * (-1)) % 11 # 0 /\ (x * 1) % 11 # 0
            /\ (x * 3) % 11 # 0 /\ (x * 4) % 11 # 0
    OBVIOUS
  <2>3. ASSUME NEW v \in 1..10, NEW w \in 1..10, w - v \in {-2, -1, 1, 3, 4},
               NEW d \in 0..9, NEW e \in 0..9, d # e
        PROVE  ((e * w - d * w) + (d * v - e * v)) % 11 # 0
    <3>1. (e * w - d * w) + (d * v - e * v) = (e - d) * (w - v)
      OBVIOUS
    <3>2. e - d \in (-9)..9 /\ e - d # 0
      BY <2>3
    <3> QED
      BY <2>2, <2>3, <3>1, <3>2
  <2> QED
    BY <2>1, <2>3
<1> QED
  BY <1>2, <1>4, <1>5

LEMMA TfnTermsType ==
    ASSUME NEW read \in Seq(Chars), Cardinality(Digits(read)) \in {8, 9}
    PROVE  /\ TfnTerms(read) \in [1..Len(read) -> Int]
           /\ \A i \in Digits(read) : Place(read, i) \in 0..8
<1>1. DOMAIN read = 1..Len(read)
  BY ReadFacts
<1>2. \A i \in Digits(read) : Place(read, i) \in 0..8
  BY PlaceFacts
<1>3. \A d \in 0..9, p \in 0..8 : d * TfnWeights[p + 1] \in Int
  <2>1. \A d \in 0..9, w \in 1..10 : d * w \in Int
    OBVIOUS
  <2> QED
    BY <2>1, WeightFacts
<1>4. \A i \in Digits(read) : read[i] * TfnWeights[Place(read, i) + 1] \in Int
  BY <1>2, <1>3, ReadFacts, Zenon
<1> QED
  BY <1>1, <1>2, <1>4 DEF TfnTerms

LEMMA TfnSeesDigit ==
    ASSUME NEW read \in Seq(Chars), NEW i \in Digits(read), NEW c \in 0..9, c # read[i],
           AtoTfnValid(read)
    PROVE  ~ AtoTfnValid([read EXCEPT ![i] = c])
<1> DEFINE t == [read EXCEPT ![i] = c]
           n == Len(read)
<1>1. n \in Nat /\ DOMAIN read = 1..n /\ i \in 1..n /\ read[i] \in 0..9
  BY ReadFacts
<1>2. c \in Chars
  BY DEF Chars
<1>3. /\ t \in Seq(Chars) /\ Len(t) = n /\ t[i] = c
      /\ \A k \in 1..n : k # i => t[k] = read[k]
  BY <1>1, <1>2, ExceptType
<1>4. DOMAIN t = 1..n
  BY <1>3, ReadFacts
<1> HIDE DEF t, n
<1>5. Digits(t) = Digits(read) /\ \A k : Place(t, k) = Place(read, k)
  <2>1. \A k \in 1..n : t[k] < 10 <=> read[k] < 10
    BY <1>1, <1>3
  <2> QED
    BY <1>3, <2>1, SamePlaces DEF n
<1> DEFINE a == TfnTerms(read)
           b == TfnTerms(t)
<1>6. /\ a \in [1..n -> Int] /\ b \in [1..n -> Int] /\ Place(read, i) \in 0..8
  BY <1>3, <1>5, TfnTermsType DEF n, AtoTfnValid
<1>7. \A k \in 1..n : k # i => a[k] = b[k]
  BY <1>1, <1>3, <1>4, <1>5 DEF TfnTerms
<1>8. /\ a[i] = read[i] * TfnWeights[Place(read, i) + 1]
      /\ b[i] = c * TfnWeights[Place(read, i) + 1]
  BY <1>1, <1>3, <1>4, <1>5 DEF TfnTerms
<1>9. (b[i] - a[i]) % 11 # 0
  <2> HIDE DEF a, b
  <2> QED
    BY <1>1, <1>6, <1>8, WeightFacts
<1>10. Total(a) \in Int /\ Total(b) \in Int /\ Total(b) - Total(a) = b[i] - a[i]
  <2> HIDE DEF a, b
  <2> QED
    BY <1>1, <1>6, <1>7, TotalsApart
<1>11. a[i] \in Int /\ b[i] \in Int
  BY <1>1, <1>6
<1>12. Total(a) % 11 = 0
  BY DEF AtoTfnValid
<1>13. Total(b) % 11 # 0
  <2> HIDE DEF a, b
  <2>1. b[i] - a[i] \in Int
    BY <1>11
  <2> QED
    BY <1>9, <1>10, <1>12, <2>1, OffMultiple
<1> QED
  BY <1>13 DEF AtoTfnValid, t

LEMMA TfnSeesSwap ==
    ASSUME NEW read \in Seq(Chars), NEW t \in Seq(Chars), NEW i, Exchanged(read, t, i),
           i \in Digits(read), i + 1 \in Digits(read),
           AtoTfnValid(read)
    PROVE  ~ AtoTfnValid(t)
<1> USE DEF Exchanged
<1> DEFINE n == Len(read)
<1>1. /\ n \in Nat /\ DOMAIN read = 1..n /\ i \in 1..n /\ i + 1 \in 1..n
      /\ read[i] \in 0..9 /\ read[i + 1] \in 0..9
  BY ReadFacts
<1>2. DOMAIN t = 1..n
  BY ReadFacts
<1>3. Digits(t) = Digits(read) /\ \A k : Place(t, k) = Place(read, k)
  <2>1. \A k \in 1..n : t[k] < 10 <=> read[k] < 10
    BY <1>1
  <2> QED
    BY <2>1, SamePlaces
<1> DEFINE a == TfnTerms(read)
           b == TfnTerms(t)
           p == Place(read, i + 1)
<1>4. a \in [1..n -> Int] /\ b \in [1..n -> Int]
  BY <1>3, TfnTermsType DEF AtoTfnValid
<1>5. Place(read, i) = p + 1 /\ p \in 0..7
  <2>1. Place(read, i) = p + 1 /\ p \in Nat
    BY PlaceFacts
  <2>2. Place(read, i) \in 0..8
    BY TfnTermsType DEF AtoTfnValid
  <2> QED
    BY <2>1, <2>2
<1> HIDE DEF n, p
<1>6. \A k \in 1..n : k \notin {i, i + 1} => a[k] = b[k]
  BY <1>1, <1>2, <1>3 DEF TfnTerms, n
<1>7. /\ a[i] = read[i] * TfnWeights[p + 2]
      /\ b[i] = read[i + 1] * TfnWeights[p + 2]
      /\ a[i + 1] = read[i + 1] * TfnWeights[p + 1]
      /\ b[i + 1] = read[i] * TfnWeights[p + 1]
  <2>1. (p + 1) + 1 = p + 2
    BY <1>5
  <2> QED
    BY <1>1, <1>2, <1>3, <1>5, <2>1 DEF TfnTerms, p
<1>8. ((b[i] - a[i]) + (b[i + 1] - a[i + 1])) % 11 # 0
  <2> HIDE DEF a, b
  <2> QED
    BY <1>1, <1>5, <1>7, WeightFacts
<1>9. /\ Total(a) \in Int /\ Total(b) \in Int
      /\ Total(b) - Total(a) = (b[i] - a[i]) + (b[i + 1] - a[i + 1])
  <2> HIDE DEF a, b
  <2> QED
    BY <1>1, <1>4, <1>6, TotalsApartTwice
<1>10. (b[i] - a[i]) + (b[i + 1] - a[i + 1]) \in Int
  BY <1>1, <1>4
<1>11. Total(a) % 11 = 0
  BY DEF AtoTfnValid
<1>12. Total(b) % 11 # 0
  <2> HIDE DEF a, b
  <2> QED
    BY <1>8, <1>9, <1>10, <1>11, OffMultiple
<1> QED
  BY <1>12 DEF AtoTfnValid

-----------------------------------------------------------------------------
(* Remainders                                                              *)

LEMMA FurtherType ==
    \A rem \in 0..96, c \in 0..36 : Further(rem, c) \in 0..96
BY DEF Further, Separator

\* Reading on, two remainders stay two: 97 divides neither 10 nor 100.
LEMMA FurtherApart ==
    ASSUME NEW a \in 0..96, NEW b \in 0..96, a # b, NEW c \in 0..36
    PROVE  Further(a, c) # Further(b, c)
<1>1. CASE c < 10
  <2>1. Further(a, c) = (a * 10 + c) % 97 /\ Further(b, c) = (b * 10 + c) % 97
    BY <1>1 DEF Further, Separator
  <2> QED
    BY <2>1
<1>2. CASE c \in 10..35
  <2>1. Further(a, c) = (a * 100 + c) % 97 /\ Further(b, c) = (b * 100 + c) % 97
    BY <1>2 DEF Further, Separator
  <2> QED
    BY <2>1
<1>3. CASE c = 36
  BY <1>3 DEF Further, Separator
<1> QED
  BY <1>1, <1>2, <1>3

LEMMA FurtherSees ==
    ASSUME NEW a \in 0..96, NEW c \in 0..36, NEW d \in 0..36, Alike(c, d), c # d
    PROVE  /\ Further(a, c) # Further(a, d)
           /\ Further(Further(a, c), d) # Further(Further(a, d), c)
<1>1. CASE c < 10 /\ d < 10
  <2>1. /\ Further(a, c) = (a * 10 + c) % 97
        /\ Further(a, d) = (a * 10 + d) % 97
    BY <1>1 DEF Further, Separator
  <2>2. Further(a, c) \in 0..96 /\ Further(a, d) \in 0..96
    BY FurtherType
  <2>3. /\ Further(Further(a, c), d) = (Further(a, c) * 10 + d) % 97
        /\ Further(Further(a, d), c) = (Further(a, d) * 10 + c) % 97
    BY <1>1, <2>2 DEF Further, Separator
  <2> QED
    BY <1>1, <2>1, <2>2, <2>3, SMTT(30)
<1>2. CASE c \in 10..35 /\ d \in 10..35
  <2>1. /\ Further(a, c) = (a * 100 + c) % 97
        /\ Further(a, d) = (a * 100 + d) % 97
    BY <1>2 DEF Further, Separator
  <2>2. Further(a, c) \in 0..96 /\ Further(a, d) \in 0..96
    BY FurtherType
  <2>3. /\ Further(Further(a, c), d) = (Further(a, c) * 100 + d) % 97
        /\ Further(Further(a, d), c) = (Further(a, d) * 100 + c) % 97
    BY <1>2, <2>2 DEF Further, Separator
  <2> QED
    BY <1>2, <2>1, <2>2, <2>3
<1> QED
  BY <1>1, <1>2 DEF Alike

RemainderFolds(f, n, rem, chars) ==
    f = [s \in SUBSET (1..n) |-> IF s = {} THEN rem ELSE Further(f[s \ {Max(s)}], chars[Max(s)])]

\* The remainders that reading goes through.
Remainders(r, n, rem, chars) ==
    /\ r \in [0..n -> 0..96] /\ r[0] = rem
    /\ \A k \in 1..n : r[k] = Further(r[k - 1], chars[k])

LEMMA RemainderIsLast ==
    ASSUME NEW rem \in 0..96, NEW chars \in Seq(Chars)
    PROVE  \E r : /\ Remainders(r, Len(chars), rem, chars)
                  /\ Remainder(rem, chars) = r[Len(chars)]
<1> DEFINE n == Len(chars)
           step == [p \in (0..96) \X (0..36) |-> Further(p[1], p[2])]
<1>1. n \in Nat /\ DOMAIN chars = 1..n /\ chars \in [1..n -> 0..36]
  BY ReadFacts
<1>2. step \in [(0..96) \X (0..36) -> 0..96]
  <2>1. \A p \in (0..96) \X (0..36) : p[1] \in 0..96 /\ p[2] \in 0..36
    OBVIOUS
  <2>2. \A p \in (0..96) \X (0..36) : Further(p[1], p[2]) \in 0..96
    BY <2>1, FurtherType, Zenon
  <2> QED
    BY <2>2, Zenon
<1>3. ASSUME NEW a \in 0..96, NEW c \in 0..36 PROVE step[a, c] = Further(a, c)
  <2>1. <<a, c>> \in (0..96) \X (0..36) /\ <<a, c>>[1] = a /\ <<a, c>>[2] = c
    OBVIOUS
  <2>2. step[<<a, c>>] = Further(<<a, c>>[1], <<a, c>>[2])
    BY <2>1, Zenon
  <2> QED
    BY <2>1, <2>2, Zenon
<1> HIDE DEF step, n
<1>4. HasFold(0..96, n, step, rem, chars)
  BY <1>1, <1>2, FoldExists, Zenon
<1>5. ASSUME NEW g \in [SUBSET (1..n) -> 0..96], Folds(g, n, step, rem, chars)
      PROVE  RemainderFolds(g, n, rem, chars)
  <2>1. ASSUME NEW s \in SUBSET (1..n)
        PROVE  g[s] = IF s = {} THEN rem ELSE Further(g[s \ {Max(s)}], chars[Max(s)])
    <3>1. CASE s = {}
      BY <1>5, <3>1 DEF Folds
    <3>2. CASE s # {}
      <4>1. g[s] = step[g[s \ {Max(s)}], chars[Max(s)]]
        BY <1>5, <3>2, Zenon DEF Folds
      <4>2. Max(s) \in 1..n
        BY <1>1, <3>2, MaxOfNonEmpty
      <4>3. s \ {Max(s)} \in SUBSET (1..n)
        OBVIOUS
      <4>4. g[s \ {Max(s)}] \in 0..96 /\ chars[Max(s)] \in 0..36
        BY <1>1, <4>2, <4>3
      <4> QED
        BY <1>3, <3>2, <4>1, <4>4
    <3> QED
      BY <3>1, <3>2
  <2>2. g = [s \in SUBSET (1..n) |-> g[s]]
    OBVIOUS
  <2> QED
    BY <2>1, <2>2 DEF RemainderFolds
<1> DEFINE Iter == CHOOSE f : RemainderFolds(f, n, rem, chars)
<1>6. RemainderFolds(Iter, n, rem, chars)
  <2>1. \E f : RemainderFolds(f, n, rem, chars)
    BY <1>4, <1>5, Zenon DEF HasFold
  <2> QED
    BY <2>1, Zenon
<1>7. Remainder(rem, chars) = Iter[1..n]
  BY <1>1 DEF Remainder, FoldLeft, MapThenFoldSet, RemainderFolds
<1> HIDE DEF Iter
<1> DEFINE r == [k \in 0..n |-> Iter[1..k]]
<1>8. ASSUME NEW k \in 1..n PROVE Iter[1..k] = Further(Iter[1..(k - 1)], chars[k])
  <2>1. k - 1 \in Nat /\ (k - 1) + 1 = k
    BY <1>1
  <2>2. 1..k \in SUBSET (1..(k - 1) + 1) /\ k \in 1..k /\ 1..k # {} /\ 1..k \in SUBSET (1..n)
    <3>1. n \in Int /\ k \in Int /\ 1 <= k /\ k <= n
      BY <1>1
    <3>2. \A j \in 1..k : j \in 1..n /\ j \in 1..(k - 1) + 1
      BY <3>1
    <3>3. k \in 1..k
      BY <3>1
    <3> QED
      BY <3>2, <3>3, Zenon
  <2>3. Max(1..k) = k
    BY <2>1, <2>2, MaxOfInterval
  <2>4. (1..k) \ {k} = 1..(k - 1)
    BY <1>1
  <2>5. Iter[1..k] = Further(Iter[(1..k) \ {Max(1..k)}], chars[Max(1..k)])
    BY <1>6, <2>2 DEF RemainderFolds
  <2> QED
    BY <2>3, <2>4, <2>5
<1>9. Iter[1..0] = rem
  <2>1. 1..0 = {} /\ {} \in SUBSET (1..n)
    OBVIOUS
  <2> QED
    BY <1>6, <2>1 DEF RemainderFolds
<1>10. r[0] = rem /\ \A k \in 1..n : r[k] = Further(r[k - 1], chars[k])
  <2>1. \A k \in 1..n : k \in 0..n /\ k - 1 \in 0..n
    BY <1>1
  <2>2. 0 \in 0..n
    BY <1>1
  <2> QED
    BY <1>8, <1>9, <2>1, <2>2
<1>11. r \in [0..n -> 0..96]
  <2> DEFINE Good == {k \in Nat : k <= n => Iter[1..k] \in 0..96}
  <2>1. 0 \in Good
    BY <1>9
  <2>2. ASSUME NEW k \in Nat, k \in Good PROVE k + 1 \in Good
    <3>1. SUFFICES ASSUME k + 1 <= n PROVE Iter[1..(k + 1)] \in 0..96
      OBVIOUS
    <3>2. k + 1 \in 1..n /\ (k + 1) - 1 = k
      BY <1>1, <3>1
    <3>3. Iter[1..(k + 1)] = Further(Iter[1..k], chars[k + 1])
      BY <1>8, <3>2
    <3>4. Iter[1..k] \in 0..96
      BY <1>1, <2>2, <3>1
    <3>5. chars[k + 1] \in 0..36
      BY <1>1, <3>2
    <3> QED
      BY <3>3, <3>4, <3>5, FurtherType
  <2> HIDE DEF Good
  <2>3. Nat \subseteq Good
    BY <2>1, <2>2, NatSetInduction
  <2>4. \A k \in 0..n : Iter[1..k] \in 0..96
    BY <1>1, <2>3 DEF Good
  <2> QED
    BY <2>4
<1>12. r[n] = Iter[1..n]
  BY <1>1
<1> HIDE DEF r
<1> QED
  BY <1>7, <1>10, <1>11, <1>12 DEF Remainders, n

\* Two texts of n characters that are the same before i, or after.
BothRead(n, s, t) == n \in Nat /\ s \in [1..n -> 0..36] /\ t \in [1..n -> 0..36]
SameUpTo(s, t, i) == \A k \in 1..i : s[k] = t[k]
SameAfter(s, t, i, n) == \A k \in (i + 1)..n : s[k] = t[k]
Apart(r, q, k) == r[k] # q[k]

\* Two readings whose remainders differ after i characters, and that read the same
\* from there on, differ to the end.
LEMMA RemaindersStayApart ==
    ASSUME NEW n, NEW s, NEW t, BothRead(n, s, t),
           NEW a, NEW b, NEW r, NEW q, Remainders(r, n, a, s), Remainders(q, n, b, t),
           NEW i \in 0..n, Apart(r, q, i), SameAfter(s, t, i, n)
    PROVE  Apart(r, q, n)
<1> USE DEF BothRead, SameAfter, Apart
<1> DEFINE Good == {k \in Nat : i <= k /\ k <= n => r[k] # q[k]}
<1>1. 0 \in Good
  OBVIOUS
<1>2. ASSUME NEW k \in Nat, k \in Good PROVE k + 1 \in Good
  <2>1. SUFFICES ASSUME i <= k + 1, k + 1 <= n PROVE r[k + 1] # q[k + 1]
    OBVIOUS
  <2>2. CASE i = k + 1
    BY <2>2
  <2>3. CASE i # k + 1
    <3>1. i <= k /\ k <= n /\ k + 1 \in 1..n /\ (k + 1) - 1 = k /\ k + 1 \in (i + 1)..n
      BY <2>1, <2>3
    <3>2. r[k] # q[k]
      BY <1>2, <3>1
    <3>3. r[k] \in 0..96 /\ q[k] \in 0..96 /\ s[k + 1] \in 0..36
      BY <2>1, <3>1 DEF Remainders
    <3>4. r[k + 1] = Further(r[k], s[k + 1]) /\ q[k + 1] = Further(q[k], s[k + 1])
      BY <3>1 DEF Remainders
    <3> QED
      BY <3>2, <3>3, <3>4, FurtherApart
  <2> QED
    BY <2>2, <2>3
<1> HIDE DEF Good
<1>3. Nat \subseteq Good
  BY <1>1, <1>2, NatSetInduction
<1>4. n \in Good /\ i <= n /\ n <= n
  BY <1>3
<1> QED
  BY <1>4 DEF Good

\* And those that read the same up to i characters, from the same, are one.
LEMMA RemaindersAgree ==
    ASSUME NEW n, NEW s, NEW t, BothRead(n, s, t),
           NEW a, NEW r, NEW q, Remainders(r, n, a, s), Remainders(q, n, a, t),
           NEW i \in 0..n, SameUpTo(s, t, i)
    PROVE  ~ Apart(r, q, i)
<1> USE DEF BothRead, SameUpTo, Apart
<1> DEFINE Good == {k \in Nat : k <= i => r[k] = q[k]}
<1>1. 0 \in Good
  BY DEF Remainders
<1>2. ASSUME NEW k \in Nat, k \in Good PROVE k + 1 \in Good
  <2>1. SUFFICES ASSUME k + 1 <= i PROVE r[k + 1] = q[k + 1]
    OBVIOUS
  <2>2. k <= i /\ k + 1 \in 1..n /\ k + 1 \in 1..i /\ (k + 1) - 1 = k
    BY <2>1
  <2>3. r[k + 1] = Further(r[k], s[k + 1]) /\ q[k + 1] = Further(q[k], t[k + 1])
    BY <2>2 DEF Remainders
  <2> QED
    BY <1>2, <2>2, <2>3
<1> HIDE DEF Good
<1>3. Nat \subseteq Good
  BY <1>1, <1>2, NatSetInduction
<1>4. i \in Good
  BY <1>3
<1> QED
  BY <1>4 DEF Good

LEMMA RemainderFacts ==
    ASSUME NEW s \in Seq(Chars), NEW a \in 0..96, NEW b \in 0..96
    PROVE  /\ Remainder(a, s) \in 0..96
           /\ a # b => Remainder(a, s) # Remainder(b, s)
<1> DEFINE n == Len(s)
<1>1. n \in Nat /\ s \in [1..n -> 0..36]
  BY ReadFacts
<1>2. PICK r : Remainders(r, n, a, s) /\ Remainder(a, s) = r[n]
  BY RemainderIsLast
<1>3. PICK q : Remainders(q, n, b, s) /\ Remainder(b, s) = q[n]
  BY RemainderIsLast
<1> HIDE DEF n
<1>4. r[n] \in 0..96
  BY <1>1, <1>2 DEF Remainders
<1>5. ASSUME a # b PROVE r[n] # q[n]
  <2>1. Apart(r, q, 0) /\ 0 \in 0..n
    BY <1>1, <1>2, <1>3, <1>5 DEF Remainders, Apart
  <2>2. BothRead(n, s, s) /\ SameAfter(s, s, 0, n)
    BY <1>1 DEF BothRead, SameAfter
  <2>3. Apart(r, q, n)
    BY <1>2, <1>3, <2>1, <2>2, RemaindersStayApart
  <2> QED
    BY <2>3 DEF Apart
<1> QED
  BY <1>2, <1>3, <1>4, <1>5

LEMMA RemainderSeesOne ==
    ASSUME NEW s \in Seq(Chars), NEW t \in Seq(Chars), NEW a \in 0..96,
           NEW i, Changed(s, t, i)
    PROVE  Remainder(a, s) # Remainder(a, t)
<1> USE DEF Changed
<1> DEFINE n == Len(s)
<1>1. n \in Nat /\ s \in [1..n -> 0..36] /\ t \in [1..n -> 0..36]
  BY ReadFacts
<1>2. PICK r : Remainders(r, n, a, s) /\ Remainder(a, s) = r[n]
  BY RemainderIsLast
<1>3. PICK q : Remainders(q, n, a, t) /\ Remainder(a, t) = q[n]
  BY RemainderIsLast
<1>4. \A k \in 1..n : k # i => s[k] = t[k]
  OBVIOUS
<1>5. i \in 1..n
  OBVIOUS
<1> HIDE DEF n
<1>6. r[i - 1] = q[i - 1]
  <2>1. i - 1 \in 0..n /\ SameUpTo(s, t, i - 1)
    BY <1>1, <1>4, <1>5 DEF SameUpTo
  <2>2. BothRead(n, s, t)
    BY <1>1 DEF BothRead
  <2>3. ~ Apart(r, q, i - 1)
    BY <1>2, <1>3, <2>1, <2>2, RemaindersAgree
  <2> QED
    BY <2>3 DEF Apart
<1>7. r[i] # q[i]
  <2>1. r[i] = Further(r[i - 1], s[i]) /\ q[i] = Further(q[i - 1], t[i])
    BY <1>2, <1>3, <1>5 DEF Remainders
  <2>2. r[i - 1] \in 0..96 /\ s[i] \in 0..36 /\ t[i] \in 0..36
    BY <1>1, <1>2, <1>5 DEF Remainders
  <2> QED
    BY <1>6, <2>1, <2>2, FurtherSees
<1>8. i \in 0..n /\ SameAfter(s, t, i, n) /\ Apart(r, q, i)
  BY <1>1, <1>4, <1>5, <1>7 DEF SameAfter, Apart
<1>9. r[n] # q[n]
  <2>1. BothRead(n, s, t)
    BY <1>1 DEF BothRead
  <2>2. Apart(r, q, n)
    BY <1>2, <1>3, <1>8, <2>1, RemaindersStayApart
  <2> QED
    BY <2>2 DEF Apart
<1> QED
  BY <1>2, <1>3, <1>9

LEMMA RemainderSeesSwap ==
    ASSUME NEW s \in Seq(Chars), NEW t \in Seq(Chars), NEW a \in 0..96,
           NEW i, Exchanged(s, t, i)
    PROVE  Remainder(a, s) # Remainder(a, t)
<1> USE DEF Exchanged
<1> DEFINE n == Len(s)
<1>1. n \in Nat /\ s \in [1..n -> 0..36] /\ t \in [1..n -> 0..36]
  BY ReadFacts
<1>2. PICK r : Remainders(r, n, a, s) /\ Remainder(a, s) = r[n]
  BY RemainderIsLast
<1>3. PICK q : Remainders(q, n, a, t) /\ Remainder(a, t) = q[n]
  BY RemainderIsLast
<1>4. \A k \in 1..n : k \notin {i, i + 1} => s[k] = t[k]
  OBVIOUS
<1>5. i \in 1..n /\ i + 1 \in 1..n /\ (i + 1) - 1 = i
  OBVIOUS
<1> HIDE DEF n
<1>6. r[i - 1] = q[i - 1]
  <2>1. i - 1 \in 0..n /\ SameUpTo(s, t, i - 1)
    BY <1>1, <1>4, <1>5 DEF SameUpTo
  <2>2. BothRead(n, s, t)
    BY <1>1 DEF BothRead
  <2>3. ~ Apart(r, q, i - 1)
    BY <1>2, <1>3, <2>1, <2>2, RemaindersAgree
  <2> QED
    BY <2>3 DEF Apart
<1>7. r[i + 1] # q[i + 1]
  <2>1. r[i] = Further(r[i - 1], s[i]) /\ q[i] = Further(q[i - 1], t[i])
    BY <1>2, <1>3, <1>5 DEF Remainders
  <2>2. r[i + 1] = Further(r[i], s[i + 1]) /\ q[i + 1] = Further(q[i], t[i + 1])
    BY <1>2, <1>3, <1>5 DEF Remainders
  <2>3. r[i - 1] \in 0..96 /\ s[i] \in 0..36 /\ s[i + 1] \in 0..36
    BY <1>1, <1>2, <1>5 DEF Remainders
  <2>4. Further(Further(r[i - 1], s[i]), s[i + 1]) # Further(Further(r[i - 1], s[i + 1]), s[i])
    BY <2>3, FurtherSees
  <2> QED
    BY <1>6, <2>1, <2>2, <2>4
<1>8. i + 1 \in 0..n /\ SameAfter(s, t, i + 1, n) /\ Apart(r, q, i + 1)
  BY <1>1, <1>4, <1>5, <1>7 DEF SameAfter, Apart
<1>9. r[n] # q[n]
  <2>1. BothRead(n, s, t)
    BY <1>1 DEF BothRead
  <2>2. Apart(r, q, n)
    BY <1>2, <1>3, <1>8, <2>1, RemaindersStayApart
  <2> QED
    BY <2>2 DEF Apart
<1> QED
  BY <1>2, <1>3, <1>9

-----------------------------------------------------------------------------
(* Powers of ten modulo 97                                                 *)

Powers(p) ==
    /\ p \in [0..84 -> 0..96] /\ p[0] = 1
    /\ \A k \in 0..83 : p[k + 1] = (10 * p[k]) % 97

\* They are what remains of a one with noughts after it.
LEMMA PowersExist == \E p : Powers(p)
<1> DEFINE noughts == [k \in 1..84 |-> 0]
<1>1. noughts \in Seq(Chars) /\ Len(noughts) = 84
  BY DEF Chars
<1>2. \A k \in 1..84 : noughts[k] = 0
  OBVIOUS
<1> HIDE DEF noughts
<1>3. PICK p : Remainders(p, 84, 1, noughts)
  <2>1. 1 \in 0..96
    OBVIOUS
  <2> QED
    BY <1>1, <2>1, RemainderIsLast
<1>4. ASSUME NEW k \in 0..83 PROVE p[k + 1] = (10 * p[k]) % 97
  <2>1. k + 1 \in 1..84 /\ (k + 1) - 1 = k /\ k \in 0..84
    OBVIOUS
  <2>2. p[k + 1] = Further(p[k], 0) /\ p[k] \in 0..96
    BY <1>2, <1>3, <2>1 DEF Remainders
  <2> QED
    BY <2>2 DEF Further, Separator
<1> QED
  BY <1>3, <1>4 DEF Powers, Remainders

\* Ten to the 96th is the first that is 1 again.
LEMMA NoPowerIsOne ==
    ASSUME NEW p, Powers(p)
    PROVE  \A k \in 1..84 : p[k] # 1
<1>0. p[0] = 1 /\ \A k \in 0..83 : p[k + 1] = (10 * p[k]) % 97
  BY DEF Powers
<1>1. p[1] = 10 /\ p[2] = 3 /\ p[3] = 30 /\ p[4] = 9
     /\ p[5] = 90 /\ p[6] = 27 /\ p[7] = 76
  BY <1>0
<1>2. p[8] = 81 /\ p[9] = 34 /\ p[10] = 49 /\ p[11] = 5
     /\ p[12] = 50 /\ p[13] = 15 /\ p[14] = 53
  BY <1>0, <1>1
<1>3. p[15] = 45 /\ p[16] = 62 /\ p[17] = 38 /\ p[18] = 89
     /\ p[19] = 17 /\ p[20] = 73 /\ p[21] = 51
  BY <1>0, <1>2
<1>4. p[22] = 25 /\ p[23] = 56 /\ p[24] = 75 /\ p[25] = 71
     /\ p[26] = 31 /\ p[27] = 19 /\ p[28] = 93
  BY <1>0, <1>3
<1>5. p[29] = 57 /\ p[30] = 85 /\ p[31] = 74 /\ p[32] = 61
     /\ p[33] = 28 /\ p[34] = 86 /\ p[35] = 84
  BY <1>0, <1>4
<1>6. p[36] = 64 /\ p[37] = 58 /\ p[38] = 95 /\ p[39] = 77
     /\ p[40] = 91 /\ p[41] = 37 /\ p[42] = 79
  BY <1>0, <1>5
<1>7. p[43] = 14 /\ p[44] = 43 /\ p[45] = 42 /\ p[46] = 32
     /\ p[47] = 29 /\ p[48] = 96 /\ p[49] = 87
  BY <1>0, <1>6
<1>8. p[50] = 94 /\ p[51] = 67 /\ p[52] = 88 /\ p[53] = 7
     /\ p[54] = 70 /\ p[55] = 21 /\ p[56] = 16
  BY <1>0, <1>7
<1>9. p[57] = 63 /\ p[58] = 48 /\ p[59] = 92 /\ p[60] = 47
     /\ p[61] = 82 /\ p[62] = 44 /\ p[63] = 52
  BY <1>0, <1>8
<1>10. p[64] = 35 /\ p[65] = 59 /\ p[66] = 8 /\ p[67] = 80
      /\ p[68] = 24 /\ p[69] = 46 /\ p[70] = 72
  BY <1>0, <1>9
<1>11. p[71] = 41 /\ p[72] = 22 /\ p[73] = 26 /\ p[74] = 66
      /\ p[75] = 78 /\ p[76] = 4 /\ p[77] = 40
  BY <1>0, <1>10
<1>12. p[78] = 12 /\ p[79] = 23 /\ p[80] = 36 /\ p[81] = 69
      /\ p[82] = 11 /\ p[83] = 13 /\ p[84] = 33
  BY <1>0, <1>11
<1> QED
  BY <1>1, <1>2, <1>3, <1>4, <1>5, <1>6, <1>7, <1>8, <1>9, <1>10, <1>11, <1>12

\* Modulo 97, x is d times u; d times a power of ten, up to the m-th.
Times(x, d, u) == \E z \in Int : x = d * u + 97 * z
Scaled(x, d, p, m) == \E e \in 0..m : Times(x, d, p[e])

LEMMA Tenfold ==
    ASSUME NEW p, Powers(p), NEW e \in 0..83, NEW d \in Int, NEW x \in Int,
           Times(x, d, p[e])
    PROVE  Times(10 * x, d, p[e + 1])
<1>0. PICK z \in Int : x = d * p[e] + 97 * z
  BY DEF Times
<1>1. e \in 0..84 /\ e + 1 \in 0..84
  OBVIOUS
<1>2. p[e] \in Int /\ p[e + 1] \in Int /\ p[e + 1] = (10 * p[e]) % 97
  BY <1>1 DEF Powers
<1> DEFINE w == (10 * p[e]) \div 97
<1>3. w \in Int /\ 10 * p[e] = 97 * w + p[e + 1]
  BY <1>2
<1> HIDE DEF w
<1>4. d * p[e] \in Int /\ d * w \in Int /\ d * p[e + 1] \in Int
  BY <1>2, <1>3
<1>5. 10 * (d * p[e]) = d * (10 * p[e])
  BY <1>2
<1>6. d * (97 * w + p[e + 1]) = 97 * (d * w) + d * p[e + 1]
  BY <1>2, <1>3
<1>7. 10 * (d * p[e] + 97 * z) = d * p[e + 1] + 97 * (d * w + 10 * z)
  BY <1>3, <1>4, <1>5, <1>6
<1>8. d * w + 10 * z \in Int
  BY <1>4
<1> QED
  BY <1>0, <1>7, <1>8 DEF Times

\* What the characters between do to the difference of two remainders.
LEMMA ScaledFurther ==
    ASSUME NEW p, Powers(p), NEW d \in Int, NEW m \in Nat, m + 2 <= 84,
           NEW a \in 0..96, NEW b \in 0..96, NEW c \in 0..36, Scaled(a - b, d, p, m)
    PROVE  Scaled(Further(a, c) - Further(b, c), d, p, m + 2)
<1>1. PICK e \in 0..m : Times(a - b, d, p[e])
  BY DEF Scaled
<1>2. e \in 0..83 /\ e + 1 \in 0..83 /\ e \in 0..m + 2 /\ e + 1 \in 0..m + 2 /\ e + 2 \in 0..m + 2
      /\ (e + 1) + 1 = e + 2 /\ a - b \in Int /\ 10 * (a - b) \in Int
  OBVIOUS
<1>10. Times(10 * (a - b), d, p[e + 1])
  BY <1>1, <1>2, Tenfold
<1>11. Times(10 * (10 * (a - b)), d, p[(e + 1) + 1])
  BY <1>2, <1>10, Tenfold
<1>3. PICK y \in Int : 10 * (a - b) = d * p[e + 1] + 97 * y
  BY <1>10 DEF Times
<1>4. PICK x \in Int : 10 * (10 * (a - b)) = d * p[e + 2] + 97 * x
  BY <1>2, <1>11 DEF Times
<1>5. d * p[e + 1] \in Int /\ d * p[e + 2] \in Int
  <2>1. p[e + 1] \in Int /\ p[e + 2] \in Int
    BY <1>2 DEF Powers
  <2> QED
    BY <2>1
<1>6. CASE c = 36
  <2>1. Further(a, c) - Further(b, c) = a - b
    BY <1>6 DEF Further, Separator
  <2> QED
    BY <1>1, <1>2, <2>1 DEF Scaled
<1>7. CASE c < 10
  <2>1. Further(a, c) = (a * 10 + c) % 97 /\ Further(b, c) = (b * 10 + c) % 97
    BY <1>7 DEF Further, Separator
  <2> DEFINE u == (a * 10 + c) \div 97
             v == (b * 10 + c) \div 97
  <2>2. /\ u \in Int /\ a * 10 + c = 97 * u + Further(a, c)
        /\ v \in Int /\ b * 10 + c = 97 * v + Further(b, c)
    BY <2>1
  <2>3. Further(a, c) \in Int /\ Further(b, c) \in Int
    BY <2>1
  <2> HIDE DEF u, v
  <2>4. Further(a, c) - Further(b, c) = d * p[e + 1] + 97 * (y - u + v)
    BY <1>3, <1>5, <2>2, <2>3
  <2>5. y - u + v \in Int
    BY <2>2
  <2>6. Times(Further(a, c) - Further(b, c), d, p[e + 1])
    BY <2>4, <2>5 DEF Times
  <2> QED
    BY <1>2, <2>6 DEF Scaled
<1>8. CASE c \in 10..35
  <2>1. Further(a, c) = (a * 100 + c) % 97 /\ Further(b, c) = (b * 100 + c) % 97
    BY <1>8 DEF Further, Separator
  <2> DEFINE u == (a * 100 + c) \div 97
             v == (b * 100 + c) \div 97
  <2>2. /\ u \in Int /\ a * 100 + c = 97 * u + Further(a, c)
        /\ v \in Int /\ b * 100 + c = 97 * v + Further(b, c)
    BY <2>1
  <2>3. Further(a, c) \in Int /\ Further(b, c) \in Int
    BY <2>1
  <2> HIDE DEF u, v
  <2>4. Further(a, c) - Further(b, c) = d * p[e + 2] + 97 * (x - u + v)
    BY <1>4, <1>5, <2>2, <2>3
  <2>5. x - u + v \in Int
    BY <2>2
  <2>6. Times(Further(a, c) - Further(b, c), d, p[e + 2])
    BY <2>4, <2>5 DEF Times
  <2> QED
    BY <1>2, <2>6 DEF Scaled
<1> QED
  BY <1>6, <1>7, <1>8

\* From the i-th character to the m-th.
SameBetween(s, t, i, m) == \A k \in (i + 1)..m : s[k] = t[k]

LEMMA RemaindersScaled ==
    ASSUME NEW n, NEW s, NEW t, BothRead(n, s, t),
           NEW a, NEW b, NEW r, NEW q, Remainders(r, n, a, s), Remainders(q, n, b, t),
           NEW i \in 0..n, NEW m \in i..n, SameBetween(s, t, i, m),
           NEW p, Powers(p), NEW d \in Int, NEW l \in Nat, l + 2 * (m - i) <= 84,
           Scaled(r[i] - q[i], d, p, l)
    PROVE  Scaled(r[m] - q[m], d, p, l + 2 * (m - i))
<1>1. n \in Nat /\ s \in [1..n -> 0..36]
  BY DEF BothRead
<1> DEFINE Good == {k \in Nat : i <= k /\ k <= m => Scaled(r[k] - q[k], d, p, l + 2 * (k - i))}
<1>2. ASSUME NEW k \in Nat, k = i PROVE k \in Good
  <2>1. l + 2 * (k - i) = l
    BY <1>1, <1>2
  <2> QED
    BY <1>2, <2>1
<1>3. 0 \in Good
  <2>1. CASE i = 0
    BY <1>2, <2>1
  <2>2. CASE i # 0
    BY <1>1, <2>2
  <2> QED
    BY <2>1, <2>2
<1>4. ASSUME NEW k \in Nat, k \in Good PROVE k + 1 \in Good
  <2>1. SUFFICES ASSUME i <= k + 1, k + 1 <= m, i # k + 1
                 PROVE  Scaled(r[k + 1] - q[k + 1], d, p, l + 2 * ((k + 1) - i))
    BY <1>2, <1>4
  <2>2. /\ i <= k /\ k <= m /\ k + 1 \in 1..n /\ (k + 1) - 1 = k
        /\ k + 1 \in (i + 1)..m /\ k \in 0..n
    BY <1>1, <2>1
  <2>3. Scaled(r[k] - q[k], d, p, l + 2 * (k - i))
    BY <1>4, <2>2
  <2>4. r[k] \in 0..96 /\ q[k] \in 0..96 /\ s[k + 1] \in 0..36
    BY <1>1, <2>2 DEF Remainders
  <2>5. r[k + 1] = Further(r[k], s[k + 1]) /\ q[k + 1] = Further(q[k], s[k + 1])
    BY <2>2 DEF Remainders, SameBetween
  <2>6. /\ l + 2 * (k - i) \in Nat /\ (l + 2 * (k - i)) + 2 <= 84
        /\ (l + 2 * (k - i)) + 2 = l + 2 * ((k + 1) - i)
    BY <1>1, <2>2
  <2>7. Scaled(Further(r[k], s[k + 1]) - Further(q[k], s[k + 1]), d, p, (l + 2 * (k - i)) + 2)
    BY <2>3, <2>4, <2>6, ScaledFurther
  <2> QED
    BY <2>5, <2>6, <2>7
<1> HIDE DEF Good
<1>5. Nat \subseteq Good
  BY <1>3, <1>4, NatSetInduction
<1>6. m \in Good /\ i <= m /\ m <= m
  BY <1>1, <1>5
<1> QED
  BY <1>6 DEF Good

\* 97 is a prime number.
LEMMA NoDivisors ==
    ASSUME NEW d \in (-25)..25, d # 0, NEW u \in 0..96, u # 1, NEW z \in Int
    PROVE  d * u - d # 97 * z
<1> DEFINE x == u - 1
<1>1. x \in (-1)..95 /\ x # 0
  OBVIOUS
<1>2. d * u - d = d * x
  OBVIOUS
<1> HIDE DEF x
<1>3. /\ (1 * x) % 97 # 0 /\ (2 * x) % 97 # 0 /\ (3 * x) % 97 # 0
      /\ (4 * x) % 97 # 0 /\ (5 * x) % 97 # 0
  BY <1>1
<1>4. /\ (6 * x) % 97 # 0 /\ (7 * x) % 97 # 0 /\ (8 * x) % 97 # 0
      /\ (9 * x) % 97 # 0 /\ (10 * x) % 97 # 0
  BY <1>1
<1>5. /\ (11 * x) % 97 # 0 /\ (12 * x) % 97 # 0 /\ (13 * x) % 97 # 0
      /\ (14 * x) % 97 # 0 /\ (15 * x) % 97 # 0
  BY <1>1
<1>6. /\ (16 * x) % 97 # 0 /\ (17 * x) % 97 # 0 /\ (18 * x) % 97 # 0
      /\ (19 * x) % 97 # 0 /\ (20 * x) % 97 # 0
  BY <1>1
<1>7. /\ (21 * x) % 97 # 0 /\ (22 * x) % 97 # 0 /\ (23 * x) % 97 # 0
      /\ (24 * x) % 97 # 0 /\ (25 * x) % 97 # 0
  BY <1>1
<1>8. ASSUME d * x = 97 * z PROVE FALSE
  <2>1. CASE d > 0
    <3>1. (d * x) % 97 = 0
      BY <1>8
    <3>2. \/ d = 1 \/ d = 2 \/ d = 3 \/ d = 4 \/ d = 5 \/ d = 6 \/ d = 7 \/ d = 8 \/ d = 9
          \/ d = 10 \/ d = 11 \/ d = 12 \/ d = 13 \/ d = 14 \/ d = 15 \/ d = 16 \/ d = 17 \/ d = 18
          \/ d = 19 \/ d = 20 \/ d = 21 \/ d = 22 \/ d = 23 \/ d = 24 \/ d = 25
      BY <2>1
    <3> QED
      BY <1>1, <1>3, <1>4, <1>5, <1>6, <1>7, <3>1, <3>2
  <2>2. CASE d < 0
    <3>1. ((-d) * x) % 97 = 0
      <4>1. (-d) * x = 97 * (-z)
        BY <1>1, <1>8
      <4> QED
        BY <4>1
    <3>2. \/ -d = 1 \/ -d = 2 \/ -d = 3 \/ -d = 4 \/ -d = 5 \/ -d = 6 \/ -d = 7 \/ -d = 8 \/ -d = 9
          \/ -d = 10 \/ -d = 11 \/ -d = 12 \/ -d = 13 \/ -d = 14 \/ -d = 15 \/ -d = 16 \/ -d = 17 \/ -d = 18
          \/ -d = 19 \/ -d = 20 \/ -d = 21 \/ -d = 22 \/ -d = 23 \/ -d = 24 \/ -d = 25
      BY <2>2
    <3> QED
      BY <1>1, <1>3, <1>4, <1>5, <1>6, <1>7, <3>1, <3>2
  <2> QED
    BY <2>1, <2>2
<1> QED
  BY <1>2, <1>8

-----------------------------------------------------------------------------
(* The account number's check                                              *)

\* Some character is the fourth.
LEMMA FourthFacts ==
    ASSUME NEW read \in Seq(Chars), Cardinality(Characters(read)) >= 5
    PROVE  Fourth(read) \in 1..Len(read)
<1> DEFINE C == Characters(read)
           UpTo(i) == {j \in C : j <= i}
           n == Len(read)
<1>1. n \in Nat /\ C \in SUBSET (1..n)
  BY ReadFacts DEF Characters
<1>1a. \A j \in C : j \in Int /\ 1 <= j /\ j <= n
  BY <1>1
<1>2. IsFiniteSet(C)
  <2>1. IsFiniteSet(1..n)
    BY <1>1, FS_Interval
  <2> HIDE DEF C
  <2> QED
    BY <1>1, <2>1, FS_Subset
<1> HIDE DEF C, n
<1>3. \A i \in Int : IsFiniteSet(UpTo(i)) /\ Cardinality(UpTo(i)) \in Nat
  <2>1. \A i \in Int : UpTo(i) \subseteq C
    OBVIOUS
  <2> HIDE DEF UpTo
  <2> QED
    BY <1>2, <2>1, FS_Subset, FS_CardinalityType
<1>4. SUFFICES ASSUME \A i \in C : Cardinality(UpTo(i)) # 4 PROVE FALSE
  BY <1>1 DEF Fourth, C, n
<1> DEFINE Good == {k \in Nat : k <= n => Cardinality(UpTo(k)) < 4}
<1>5. 0 \in Good
  <2>1. UpTo(0) = {}
    BY <1>1a
  <2> QED
    BY <2>1, FS_EmptySet
<1>6. ASSUME NEW k \in Nat, k \in Good PROVE k + 1 \in Good
  <2>1. SUFFICES ASSUME k + 1 <= n PROVE Cardinality(UpTo(k + 1)) < 4
    OBVIOUS
  <2>2. Cardinality(UpTo(k)) < 4 /\ Cardinality(UpTo(k)) \in Nat /\ IsFiniteSet(UpTo(k))
    <3>1. k <= n
      BY <1>1, <2>1
    <3> QED
      BY <1>3, <1>6, <3>1
  <2>3. CASE k + 1 \in C
    <3>1. UpTo(k + 1) = UpTo(k) \cup {k + 1} /\ k + 1 \notin UpTo(k)
      BY <1>1a, <2>3
    <3>2. Cardinality(UpTo(k + 1)) = Cardinality(UpTo(k)) + 1
      <4> HIDE DEF UpTo
      <4> QED
        BY <2>2, <3>1, FS_AddElement
    <3>3. Cardinality(UpTo(k + 1)) # 4
      BY <1>4, <2>3
    <3> HIDE DEF UpTo
    <3> QED
      BY <2>2, <3>2, <3>3
  <2>4. CASE k + 1 \notin C
    <3>1. UpTo(k + 1) = UpTo(k)
      BY <1>1a, <2>4
    <3> HIDE DEF UpTo
    <3> QED
      BY <2>2, <3>1
  <2> QED
    BY <2>3, <2>4
<1> HIDE DEF Good
<1>7. Nat \subseteq Good
  BY <1>5, <1>6, NatSetInduction
<1>8. Cardinality(UpTo(n)) < 4
  BY <1>1, <1>7 DEF Good
<1>9. UpTo(n) = C
  BY <1>1a
<1> HIDE DEF UpTo
<1> QED
  <2>1. Cardinality(C) >= 5 /\ Cardinality(C) \in Nat
    BY <1>2, FS_CardinalityType DEF C
  <2> QED
    BY <1>8, <1>9, <2>1

LEMMA PartFacts ==
    ASSUME NEW read \in Seq(Chars), NEW f \in 1..Len(read)
    PROVE  LET n == Len(read)
               first == SubSeq(read, 1, f)
               rest == SubSeq(read, f + 1, n)
           IN /\ first \in Seq(Chars) /\ Len(first) = f
              /\ \A k \in 1..f : first[k] = read[k]
              /\ rest \in Seq(Chars) /\ Len(rest) = n - f
              /\ \A k \in 1..(n - f) : rest[k] = read[f + k]
<1> DEFINE n == Len(read)
           first == SubSeq(read, 1, f)
           rest == SubSeq(read, f + 1, n)
<1>1. n \in Nat /\ f \in 1..n /\ \A i \in 1..n : read[i] \in Chars
  BY LenProperties, ElementOfSeq
<1>2. /\ first \in Seq(Chars) /\ Len(first) = IF 1 <= f THEN f - 1 + 1 ELSE 0
      /\ \A i \in 1..f - 1 + 1 : first[i] = read[1 + i - 1]
  <2>1. \A i \in 1..f : read[i] \in Chars
    BY <1>1
  <2> QED
    BY <1>1, <2>1, SubSeqProperties
<1>3. /\ rest \in Seq(Chars) /\ Len(rest) = IF f + 1 <= n THEN n - (f + 1) + 1 ELSE 0
      /\ \A i \in 1..n - (f + 1) + 1 : rest[i] = read[f + 1 + i - 1]
  <2>1. \A i \in (f + 1)..n : read[i] \in Chars
    BY <1>1
  <2> QED
    BY <1>1, <2>1, SubSeqProperties
<1> HIDE DEF n, first, rest
<1>4. f - 1 + 1 = f /\ n - (f + 1) + 1 = n - f /\ 1 <= f
  BY <1>1
<1>5. Len(first) = f /\ \A k \in 1..f : first[k] = read[k]
  <2>1. \A k \in 1..f : 1 + k - 1 = k
    BY <1>1
  <2> QED
    BY <1>2, <1>4, <2>1
<1>6. Len(rest) = n - f /\ \A k \in 1..(n - f) : rest[k] = read[f + k]
  <2>1. \A k \in 1..(n - f) : f + 1 + k - 1 = f + k
    BY <1>1
  <2>2. Len(rest) = n - f
    BY <1>1, <1>3
  <2> QED
    BY <1>3, <1>4, <2>1, <2>2
<1> QED
  BY <1>2, <1>3, <1>5, <1>6 DEF n, first, rest

\* Two sequences of characters with the same elements are one.
LEMMA SameRead ==
    ASSUME NEW s \in Seq(Chars), NEW t \in Seq(Chars), Len(t) = Len(s),
           \A k \in 1..Len(s) : s[k] = t[k]
    PROVE  s = t
BY SeqEqual

\* Two texts of one length, with separators in the same places.
LEMMA SameFourth ==
    ASSUME NEW read \in Seq(Chars), NEW t \in Seq(Chars), Len(t) = Len(read),
           \A k \in 1..Len(read) : t[k] = Separator <=> read[k] = Separator
    PROVE  Characters(t) = Characters(read) /\ Fourth(t) = Fourth(read)
<1>1. Characters(t) = Characters(read)
  BY ReadFacts DEF Characters
<1> QED
  BY <1>1 DEF Fourth

LEMMA AlikeFacts ==
    ASSUME NEW c \in 0..36, NEW d \in 0..36, Alike(c, d)
    PROVE  /\ c # Separator /\ d # Separator /\ Alike(d, c)
           /\ c < 10 <=> d < 10
           /\ c - d \in (-25)..25
<1>1. CASE c < 10 /\ d < 10
  BY <1>1 DEF Alike, Separator
<1>2. CASE c \in 10..35 /\ d \in 10..35
  BY <1>2 DEF Alike, Separator
<1> QED
  BY <1>1, <1>2 DEF Alike

LEMMA Mod97SeesOne ==
    ASSUME NEW read \in Seq(Chars), NEW i \in 1..Len(read), NEW c \in 0..36, c # read[i],
           Alike(read[i], c), Mod97Valid(read)
    PROVE  ~ Mod97Valid([read EXCEPT ![i] = c])
<1> DEFINE n == Len(read)
           t == [read EXCEPT ![i] = c]
           f == Fourth(read)
<1>1. n \in Nat /\ i \in 1..n /\ \A k \in 1..n : read[k] \in 0..36
  BY ReadFacts
<1>2. c \in Chars
  BY DEF Chars
<1>3. t \in Seq(Chars) /\ Len(t) = n /\ t[i] = c /\ \A k \in 1..n : k # i => t[k] = read[k]
  BY <1>2, ExceptType
<1>4. f \in 1..n
  BY FourthFacts DEF Mod97Valid
<1> HIDE DEF n, t, f
<1>5. Fourth(t) = f
  <2>1. \A k \in 1..n : t[k] = Separator <=> read[k] = Separator
    BY <1>1, <1>3, AlikeFacts
  <2> QED
    BY <1>3, <2>1, SameFourth DEF f, n
<1> DEFINE first == SubSeq(read, 1, f)
           rest == SubSeq(read, f + 1, n)
           firstT == SubSeq(t, 1, f)
           restT == SubSeq(t, f + 1, n)
<1>6. /\ first \in Seq(Chars) /\ Len(first) = f /\ rest \in Seq(Chars) /\ Len(rest) = n - f
      /\ \A k \in 1..f : first[k] = read[k]
      /\ \A k \in 1..(n - f) : rest[k] = read[f + k]
  BY <1>4, PartFacts DEF n
<1>7. /\ firstT \in Seq(Chars) /\ Len(firstT) = f /\ restT \in Seq(Chars) /\ Len(restT) = n - f
      /\ \A k \in 1..f : firstT[k] = t[k]
      /\ \A k \in 1..(n - f) : restT[k] = t[f + k]
  BY <1>3, <1>4, PartFacts
<1>8. Remainder(Remainder(0, rest), first) = 1
  BY DEF Mod97Valid, n, f
<1>9. SUFFICES ASSUME Remainder(Remainder(0, restT), firstT) = 1 PROVE FALSE
  BY <1>3, <1>5 DEF Mod97Valid, t
<1> HIDE DEF first, rest, firstT, restT
<1>10. 0 \in 0..96 /\ f \in Int /\ n \in Int
  BY <1>1, <1>4
<1>11. Remainder(0, rest) \in 0..96 /\ Remainder(0, restT) \in 0..96
  BY <1>6, <1>7, <1>10, RemainderFacts
<1>12. CASE i <= f
  <2>1. rest = restT
    <3>1. \A k \in 1..(n - f) : f + k \in 1..n /\ f + k # i
      BY <1>4, <1>10, <1>12
    <3>2. \A k \in 1..(n - f) : rest[k] = restT[k]
      BY <1>3, <1>6, <1>7, <3>1
    <3> QED
      BY <1>6, <1>7, <3>2, SameRead
  <2>2. i \in 1..f /\ first[i] # firstT[i] /\ Alike(first[i], firstT[i])
    BY <1>1, <1>3, <1>6, <1>7, <1>10, <1>12
  <2>3. \A k \in 1..f : k # i => first[k] = firstT[k]
    <3>1. \A k \in 1..f : k \in 1..n
      BY <1>4, <1>10
    <3> QED
      BY <1>3, <1>6, <1>7, <3>1
  <2>4. Changed(first, firstT, i)
    BY <1>6, <1>7, <2>2, <2>3 DEF Changed
  <2>5. Remainder(Remainder(0, rest), first) # Remainder(Remainder(0, rest), firstT)
    BY <1>6, <1>7, <1>11, <2>4, RemainderSeesOne
  <2> QED
    BY <1>8, <1>9, <2>1, <2>5
<1>13. CASE i > f
  <2>1. first = firstT
    <3>1. \A k \in 1..f : k \in 1..n /\ k # i
      BY <1>4, <1>10, <1>13
    <3>2. \A k \in 1..f : first[k] = firstT[k]
      BY <1>3, <1>6, <1>7, <3>1
    <3> QED
      BY <1>6, <1>7, <3>2, SameRead
  <2> DEFINE j == i - f
  <2>2. j \in 1..(n - f) /\ f + j = i
    BY <1>1, <1>4, <1>10, <1>13
  <2> HIDE DEF j
  <2>3. rest[j] # restT[j] /\ Alike(rest[j], restT[j])
    BY <1>3, <1>6, <1>7, <2>2
  <2>4. \A k \in 1..(n - f) : k # j => rest[k] = restT[k]
    <3>1. \A k \in 1..(n - f) : f + k \in 1..n /\ (k # j => f + k # i)
      BY <1>4, <1>10, <2>2
    <3> QED
      BY <1>3, <1>6, <1>7, <3>1
  <2>5. Changed(rest, restT, j)
    BY <1>6, <1>7, <2>2, <2>3, <2>4 DEF Changed
  <2>7. Remainder(0, rest) # Remainder(0, restT)
    BY <1>6, <1>7, <1>10, <2>5, RemainderSeesOne
  <2>6. Remainder(Remainder(0, rest), first) # Remainder(Remainder(0, restT), first)
    BY <1>6, <1>11, <2>7, RemainderFacts
  <2> QED
    BY <1>8, <1>9, <2>1, <2>6
<1> QED
  BY <1>1, <1>10, <1>12, <1>13

\* The last of the characters that were exchanged does not make up for the first.
LEMMA LastApart ==
    ASSUME NEW p, Powers(p), NEW a \in 0..36, NEW b \in 0..36, Alike(a, b), a # b,
           NEW x \in 0..96, NEW y \in 0..96, NEW m \in 0..82, Scaled(x - y, b - a, p, m)
    PROVE  Further(x, a) # Further(y, b)
<1> DEFINE d == b - a
<1>1. d \in (-25)..25 /\ d # 0 /\ d \in Int /\ a - b = -d
  BY AlikeFacts
<1> HIDE DEF d
<1>2. PICK e \in 0..m : Times(x - y, d, p[e])
  BY DEF Scaled, d
<1>3. /\ e \in 0..83 /\ e + 1 \in 0..83 /\ e + 1 \in 1..84 /\ e + 2 \in 1..84
      /\ (e + 1) + 1 = e + 2 /\ x - y \in Int /\ 10 * (x - y) \in Int
  OBVIOUS
<1>4. Times(10 * (x - y), d, p[e + 1])
  BY <1>1, <1>2, <1>3, Tenfold
<1>5. Times(10 * (10 * (x - y)), d, p[(e + 1) + 1])
  BY <1>1, <1>3, <1>4, Tenfold
<1>6. /\ p[e + 1] \in 0..96 /\ p[e + 1] # 1
      /\ p[e + 2] \in 0..96 /\ p[e + 2] # 1
  <2>1. p[e + 1] # 1 /\ p[e + 2] # 1
    BY <1>3, NoPowerIsOne
  <2>2. \A k \in 1..84 : p[k] \in 0..96
    BY DEF Powers
  <2> QED
    BY <1>3, <2>1, <2>2
<1>7. SUFFICES ASSUME Further(x, a) = Further(y, b) PROVE FALSE
  OBVIOUS
<1>8. CASE a < 10 /\ b < 10
  <2>1. Further(x, a) = (x * 10 + a) % 97 /\ Further(y, b) = (y * 10 + b) % 97
    BY <1>8 DEF Further, Separator
  <2>2. PICK w \in Int : (x * 10 + a) - (y * 10 + b) = 97 * w
    <3> DEFINE i == (x * 10 + a) \div 97
               j == (y * 10 + b) \div 97
    <3>1. /\ i \in Int /\ x * 10 + a = 97 * i + Further(x, a)
          /\ j \in Int /\ y * 10 + b = 97 * j + Further(y, b)
      BY <2>1
    <3>2. Further(x, a) \in Int
      BY <2>1
    <3> HIDE DEF i, j
    <3>3. (x * 10 + a) - (y * 10 + b) = 97 * (i - j)
      BY <1>7, <3>1, <3>2
    <3>4. i - j \in Int
      BY <3>1
    <3> QED
      BY <3>3, <3>4
  <2>3. PICK z \in Int : 10 * (x - y) = d * p[e + 1] + 97 * z
    BY <1>4 DEF Times
  <2>4. d * p[e + 1] \in Int
    BY <1>1, <1>6
  <2>5. d * p[e + 1] - d = 97 * (w - z)
    BY <1>1, <2>2, <2>3, <2>4
  <2>6. w - z \in Int
    OBVIOUS
  <2> QED
    BY <1>1, <1>6, <2>5, <2>6, NoDivisors, Zenon
<1>9. CASE a \in 10..35 /\ b \in 10..35
  <2>1. Further(x, a) = (x * 100 + a) % 97 /\ Further(y, b) = (y * 100 + b) % 97
    BY <1>9 DEF Further, Separator
  <2>2. PICK w \in Int : (x * 100 + a) - (y * 100 + b) = 97 * w
    <3> DEFINE i == (x * 100 + a) \div 97
               j == (y * 100 + b) \div 97
    <3>1. /\ i \in Int /\ x * 100 + a = 97 * i + Further(x, a)
          /\ j \in Int /\ y * 100 + b = 97 * j + Further(y, b)
      BY <2>1
    <3>2. Further(x, a) \in Int
      BY <2>1
    <3> HIDE DEF i, j
    <3>3. (x * 100 + a) - (y * 100 + b) = 97 * (i - j)
      BY <1>7, <3>1, <3>2
    <3>4. i - j \in Int
      BY <3>1
    <3> QED
      BY <3>3, <3>4
  <2>3. PICK z \in Int : 10 * (10 * (x - y)) = d * p[e + 2] + 97 * z
    BY <1>3, <1>5 DEF Times
  <2>4. d * p[e + 2] \in Int
    BY <1>1, <1>6
  <2>5. d * p[e + 2] - d = 97 * (w - z)
    BY <1>1, <2>2, <2>3, <2>4
  <2>6. w - z \in Int
    OBVIOUS
  <2> QED
    BY <1>1, <1>6, <2>5, <2>6, NoDivisors, Zenon
<1> QED
  BY <1>8, <1>9 DEF Alike

\* The fourth and the fifth character, of which one is read first and one last.
Across(first, firstT, rest, restT, a, b) ==
    /\ Len(firstT) = Len(first) /\ Len(restT) = Len(rest)
    /\ Len(first) >= 1 /\ Len(rest) >= 1 /\ Len(first) + Len(rest) <= 43
    /\ first[Len(first)] = a /\ firstT[Len(first)] = b /\ rest[1] = b /\ restT[1] = a
    /\ SameBetween(first, firstT, 0, Len(first) - 1)
    /\ SameBetween(rest, restT, 1, Len(rest))

LEMMA SwapAcross ==
    ASSUME NEW first \in Seq(Chars), NEW firstT \in Seq(Chars),
           NEW rest \in Seq(Chars), NEW restT \in Seq(Chars),
           NEW a \in 0..36, NEW b \in 0..36, Alike(a, b), a # b,
           Across(first, firstT, rest, restT, a, b)
    PROVE  Remainder(Remainder(0, rest), first) # Remainder(Remainder(0, restT), firstT)
<1> USE DEF Across
<1> DEFINE f == Len(first)
           l == Len(rest)
           d == b - a
<1>1. f \in Nat /\ l \in Nat /\ BothRead(f, first, firstT) /\ BothRead(l, rest, restT)
  BY ReadFacts, SMTT(30) DEF BothRead
<1>2. 0 \in 0..96
  OBVIOUS
<1>3. Remainder(0, rest) \in 0..96 /\ Remainder(0, restT) \in 0..96
  BY <1>2, RemainderFacts
<1>4. PICK r : Remainders(r, l, 0, rest) /\ Remainder(0, rest) = r[l]
  BY <1>2, RemainderIsLast
<1>5. PICK q : Remainders(q, l, 0, restT) /\ Remainder(0, restT) = q[l]
  BY <1>2, RemainderIsLast
<1>6. PICK u : /\ Remainders(u, f, Remainder(0, rest), first)
               /\ Remainder(Remainder(0, rest), first) = u[f]
  BY <1>3, RemainderIsLast
<1>7. PICK v : /\ Remainders(v, f, Remainder(0, restT), firstT)
               /\ Remainder(Remainder(0, restT), firstT) = v[f]
  BY <1>3, RemainderIsLast
<1>8. /\ f >= 1 /\ l >= 1 /\ f + l <= 43 /\ first[f] = a /\ firstT[f] = b
      /\ SameBetween(first, firstT, 0, f - 1) /\ SameBetween(rest, restT, 1, l)
  OBVIOUS
<1>9. d \in Int
  OBVIOUS
<1> HIDE DEF f, l
<1>10. PICK p : Powers(p)
  BY PowersExist
<1>11. Scaled(r[1] - q[1], d, p, 0)
  <2>1. 1 \in 1..l /\ 1 - 1 = 0
    BY <1>1, <1>8
  <2>2. r[1] = Further(r[0], rest[1]) /\ q[1] = Further(q[0], restT[1]) /\ r[0] = 0 /\ q[0] = 0
    BY <1>4, <1>5, <2>1 DEF Remainders
  <2>3. r[1] = Further(0, b) /\ q[1] = Further(0, a)
    BY <2>2
  <2>4. Further(0, a) = a /\ Further(0, b) = b
    <3>1. a # Separator /\ b # Separator
      BY AlikeFacts, Zenon
    <3>2. ASSUME NEW c \in 0..36, c # Separator PROVE Further(0, c) = c
      <4>1. CASE c < 10
        <5>1. Further(0, c) = (0 * 10 + c) % 97
          BY <4>1, <3>2 DEF Further
        <5> QED
          BY <5>1
      <4>2. CASE c > 9
        <5>1. Further(0, c) = (0 * 100 + c) % 97
          BY <4>2, <3>2 DEF Further
        <5> QED
          BY <5>1, SMTT(30)
      <4> QED
        BY <4>1, <4>2
    <3> QED
      BY <3>1, <3>2
  <2>5. r[1] - q[1] = d * 1 + 97 * 0
    BY <2>3, <2>4
  <2>6. p[0] = 1
    BY <1>10 DEF Powers
  <2>7. Times(r[1] - q[1], d, p[0])
    BY <2>5, <2>6 DEF Times
  <2> QED
    BY <2>7 DEF Scaled
<1> HIDE DEF d
<1>12. Scaled(r[l] - q[l], d, p, 0 + 2 * (l - 1))
  <2>1. 1 \in 0..l /\ l \in 1..l /\ 0 \in Nat /\ 0 + 2 * (l - 1) <= 84
    BY <1>1, <1>8
  <2> QED
    BY <1>1, <1>4, <1>5, <1>8, <1>9, <1>10, <1>11, <2>1, RemaindersScaled
<1>13. Scaled(u[0] - v[0], d, p, 2 * (l - 1))
  <2>1. u[0] = r[l] /\ v[0] = q[l]
    BY <1>4, <1>5, <1>6, <1>7 DEF Remainders
  <2>2. 0 + 2 * (l - 1) = 2 * (l - 1)
    BY <1>1
  <2> QED
    BY <1>12, <2>1, <2>2
<1>14. Scaled(u[f - 1] - v[f - 1], d, p, 2 * (l - 1) + 2 * ((f - 1) - 0))
  <2>1. /\ 0 \in 0..f /\ f - 1 \in 0..f /\ 2 * (l - 1) \in Nat
        /\ 2 * (l - 1) + 2 * ((f - 1) - 0) <= 84
    BY <1>1, <1>8
  <2> QED
    BY <1>1, <1>6, <1>7, <1>8, <1>9, <1>10, <1>13, <2>1, RemaindersScaled
<1>15. 2 * (l - 1) + 2 * ((f - 1) - 0) \in 0..82
  BY <1>1, <1>8
<1>16. u[f - 1] \in 0..96 /\ v[f - 1] \in 0..96
  <2>1. f - 1 \in 0..f
    BY <1>1, <1>8
  <2> QED
    BY <1>6, <1>7, <2>1 DEF Remainders
<1>17. u[f] = Further(u[f - 1], a) /\ v[f] = Further(v[f - 1], b)
  <2>1. f \in 1..f
    BY <1>1, <1>8
  <2> QED
    BY <1>6, <1>7, <1>8, <2>1 DEF Remainders
<1>18. Further(u[f - 1], a) # Further(v[f - 1], b)
  <2> DEFINE m == 2 * (l - 1) + 2 * ((f - 1) - 0)
             x == u[f - 1]
             y == v[f - 1]
  <2>1. m \in 0..82 /\ x \in 0..96 /\ y \in 0..96 /\ Scaled(x - y, b - a, p, m)
    BY <1>14, <1>15, <1>16 DEF d
  <2> HIDE DEF m, x, y
  <2>2. Further(x, a) # Further(y, b)
    BY <1>10, <2>1, LastApart, ZenonT(60)
  <2> QED
    BY <2>2 DEF x, y
<1> QED
  BY <1>6, <1>7, <1>17, <1>18

LEMMA Mod97SeesSwap ==
    ASSUME NEW read \in Seq(Chars), NEW t \in Seq(Chars), NEW i, Exchanged(read, t, i),
           Len(read) <= 43, Mod97Valid(read)
    PROVE  ~ Mod97Valid(t)
<1> DEFINE n == Len(read)
           f == Fourth(read)
<1>1. /\ n \in Nat /\ Len(t) = n /\ i \in 1..n /\ i + 1 \in 1..n /\ n <= 43
      /\ \A k \in 1..n : read[k] \in 0..36
  BY ReadFacts DEF Exchanged
<1>2. /\ read[i] # read[i + 1] /\ Alike(read[i], read[i + 1])
      /\ t[i] = read[i + 1] /\ t[i + 1] = read[i]
      /\ \A k \in 1..n : k \notin {i, i + 1} => read[k] = t[k]
  BY DEF Exchanged
<1>3. f \in 1..n
  BY FourthFacts DEF Mod97Valid
<1> HIDE DEF n, f
<1>4. Fourth(t) = f
  <2>1. read[i] # Separator /\ read[i + 1] # Separator
    BY <1>1, <1>2, AlikeFacts
  <2>2. \A k \in 1..n : t[k] = Separator <=> read[k] = Separator
    BY <1>2, <2>1
  <2> QED
    BY <1>1, <2>2, SameFourth DEF f, n
<1> DEFINE first == SubSeq(read, 1, f)
           rest == SubSeq(read, f + 1, n)
           firstT == SubSeq(t, 1, f)
           restT == SubSeq(t, f + 1, n)
<1>6. /\ first \in Seq(Chars) /\ Len(first) = f /\ rest \in Seq(Chars) /\ Len(rest) = n - f
      /\ \A k \in 1..f : first[k] = read[k]
      /\ \A k \in 1..(n - f) : rest[k] = read[f + k]
  BY <1>3, PartFacts DEF n
<1>7. /\ firstT \in Seq(Chars) /\ Len(firstT) = f /\ restT \in Seq(Chars) /\ Len(restT) = n - f
      /\ \A k \in 1..f : firstT[k] = t[k]
      /\ \A k \in 1..(n - f) : restT[k] = t[f + k]
  BY <1>1, <1>3, PartFacts
<1>8. Remainder(Remainder(0, rest), first) = 1
  BY DEF Mod97Valid, n, f
<1>9. SUFFICES ASSUME Remainder(Remainder(0, restT), firstT) = 1 PROVE FALSE
  BY <1>1, <1>4 DEF Mod97Valid
<1> HIDE DEF first, rest, firstT, restT
<1>10. 0 \in 0..96 /\ f \in Int /\ n \in Int /\ i \in Int
  BY <1>1, <1>3
<1>11. Remainder(0, rest) \in 0..96 /\ Remainder(0, restT) \in 0..96
  BY <1>6, <1>7, <1>10, RemainderFacts
<1>12. CASE i + 1 <= f
  <2>1. rest = restT
    <3>1. \A k \in 1..(n - f) : f + k \in 1..n /\ f + k \notin {i, i + 1}
      BY <1>3, <1>10, <1>12
    <3>2. \A k \in 1..(n - f) : rest[k] = restT[k]
      BY <1>2, <1>6, <1>7, <3>1
    <3> QED
      BY <1>6, <1>7, <3>2, SameRead
  <2>2. i \in 1..f /\ i + 1 \in 1..f
    BY <1>1, <1>10, <1>12
  <2>3. \A k \in 1..f : k \notin {i, i + 1} => first[k] = firstT[k]
    <3>1. \A k \in 1..f : k \in 1..n
      BY <1>3, <1>10
    <3> QED
      BY <1>2, <1>6, <1>7, <3>1
  <2>4. Exchanged(first, firstT, i)
    BY <1>2, <1>6, <1>7, <2>2, <2>3 DEF Exchanged
  <2>5. Remainder(Remainder(0, rest), first) # Remainder(Remainder(0, rest), firstT)
    BY <1>6, <1>7, <1>11, <2>4, RemainderSeesSwap
  <2> QED
    BY <1>8, <1>9, <2>1, <2>5
<1>13. CASE i > f
  <2>1. first = firstT
    <3>1. \A k \in 1..f : k \in 1..n /\ k \notin {i, i + 1}
      BY <1>3, <1>10, <1>13
    <3>2. \A k \in 1..f : first[k] = firstT[k]
      BY <1>2, <1>6, <1>7, <3>1
    <3> QED
      BY <1>6, <1>7, <3>2, SameRead
  <2> DEFINE j == i - f
  <2>2. /\ j \in 1..(n - f) /\ j + 1 \in 1..(n - f) /\ f + j = i /\ f + (j + 1) = i + 1
        /\ j \in Int
    BY <1>1, <1>3, <1>10, <1>13
  <2> HIDE DEF j
  <2>3. /\ rest[j] = read[i] /\ rest[j + 1] = read[i + 1]
        /\ restT[j] = t[i] /\ restT[j + 1] = t[i + 1]
    BY <1>6, <1>7, <2>2
  <2>4. \A k \in 1..(n - f) : k \notin {j, j + 1} => rest[k] = restT[k]
    <3>1. \A k \in 1..(n - f) : f + k \in 1..n /\ (k \notin {j, j + 1} => f + k \notin {i, i + 1})
      BY <1>3, <1>10, <2>2
    <3> QED
      BY <1>2, <1>6, <1>7, <3>1
  <2>5. Exchanged(rest, restT, j)
    BY <1>2, <1>6, <1>7, <2>2, <2>3, <2>4 DEF Exchanged
  <2>6. Remainder(0, rest) # Remainder(0, restT)
    BY <1>6, <1>7, <1>10, <2>5, RemainderSeesSwap
  <2>7. Remainder(Remainder(0, rest), first) # Remainder(Remainder(0, restT), first)
    BY <1>6, <1>11, <2>6, RemainderFacts
  <2> QED
    BY <1>8, <1>9, <2>1, <2>7
<1>14. CASE i = f
  <2> DEFINE a == read[i]
             b == read[i + 1]
  <2>1. a \in 0..36 /\ b \in 0..36 /\ Alike(a, b) /\ a # b
    BY <1>1, <1>2
  <2>2. /\ f \in 1..f /\ 1 \in 1..(n - f) /\ f >= 1 /\ n - f >= 1 /\ f + (n - f) <= 43
        /\ f + 1 = i + 1
    BY <1>1, <1>3, <1>10, <1>14
  <2>3. first[f] = a /\ firstT[f] = b /\ rest[1] = b /\ restT[1] = a
    BY <1>2, <1>6, <1>7, <1>14, <2>2
  <2>4. SameBetween(first, firstT, 0, f - 1)
    <3>1. \A k \in (0 + 1)..(f - 1) : k \in 1..f /\ k \in 1..n /\ k \notin {i, i + 1}
      BY <1>3, <1>10, <1>14
    <3> QED
      BY <1>2, <1>6, <1>7, <3>1 DEF SameBetween
  <2>5. SameBetween(rest, restT, 1, n - f)
    <3>1. \A k \in (1 + 1)..(n - f) :
             k \in 1..(n - f) /\ f + k \in 1..n /\ f + k \notin {i, i + 1}
      BY <1>3, <1>10, <1>14
    <3> QED
      BY <1>2, <1>6, <1>7, <3>1 DEF SameBetween
  <2> HIDE DEF a, b
  <2>6. Remainder(Remainder(0, rest), first) # Remainder(Remainder(0, restT), firstT)
    <3>1. Across(first, firstT, rest, restT, a, b)
      BY <1>6, <1>7, <2>2, <2>3, <2>4, <2>5 DEF Across
    <3> QED
      BY <1>6, <1>7, <2>1, <3>1, SwapAcross
  <2> QED
    BY <1>8, <1>9, <2>6
<1> QED
  BY <1>1, <1>10, <1>12, <1>13, <1>14

-----------------------------------------------------------------------------
(* All three                                                               *)

SamplesValid == \A sample \in Samples : Valid(sample.checksum, sample.read)

LEMMA TypoShows ==
    ASSUME NEW sample \in Samples, Valid(sample.checksum, sample.read),
           NEW t \in Typos(sample)
    PROVE  ~ Valid(sample.checksum, t)
<1> DEFINE read == sample.read
<1>1. /\ read \in Seq(Chars) /\ sample.checksum \in {"luhn", "mod97", "ato_tfn"}
      /\ sample.checksum = "mod97" => Len(read) <= 43
      /\ sample.checksum # "mod97" => \A k \in 1..Len(read) : read[k] \in 0..9 \cup {Separator}
  <2>1. sample \in [checksum : {"luhn", "mod97", "ato_tfn"}, read : Seq(Chars)]
    BY SamplesAssumption
  <2>2. read \in Seq(Chars) /\ sample.checksum \in {"luhn", "mod97", "ato_tfn"}
    BY <2>1
  <2>3. sample.checksum = "mod97" => Len(read) <= 43
    BY SamplesAssumption
  <2>4. ASSUME sample.checksum # "mod97", NEW k \in 1..Len(read)
        PROVE  read[k] \in 0..9 \cup {Separator}
    <3>1. ToSet(read) \subseteq 0..9 \cup {Separator}
      BY <2>4, SamplesAssumption
    <3>2. read[k] \in ToSet(read)
      BY <2>2, LenProperties DEF ToSet
    <3> QED
      BY <3>1, <3>2
  <2> QED
    BY <2>2, <2>3, <2>4
<1>2. DOMAIN read = 1..Len(read) /\ Len(read) \in Nat /\ \A k \in 1..Len(read) : read[k] \in 0..36
  BY <1>1, ReadFacts
<1>3. \A k \in 1..Len(read), c \in 0..36 :
         sample.checksum # "mod97" /\ Alike(read[k], c) => k \in Digits(read) /\ c \in 0..9
  <2>1. ASSUME NEW d \in 0..9 \cup {Separator}, NEW c \in 0..36, Alike(d, c)
        PROVE  d < 10 /\ c \in 0..9
    BY <2>1 DEF Alike, Separator
  <2> QED
    BY <1>1, <1>2, <2>1 DEF Digits
<1>4. ASSUME NEW i \in 1..Len(read), NEW c \in 0..36, t = [read EXCEPT ![i] = c],
             c # read[i], Alike(read[i], c)
      PROVE  ~ Valid(sample.checksum, t)
  <2>1. CASE sample.checksum = "luhn"
    <3>1. i \in Digits(read) /\ c \in 0..9 /\ LuhnValid(read)
      BY <1>3, <1>4, <2>1 DEF Valid
    <3>2. ~ LuhnValid(t)
      BY <1>1, <1>4, <3>1, LuhnSeesDigit
    <3> QED
      BY <2>1, <3>2 DEF Valid
  <2>2. CASE sample.checksum = "mod97"
    <3>1. Mod97Valid(read)
      BY <2>2 DEF Valid
    <3>2. ~ Mod97Valid(t)
      BY <1>1, <1>4, <3>1, Mod97SeesOne
    <3> QED
      BY <2>2, <3>2 DEF Valid
  <2>3. CASE sample.checksum = "ato_tfn"
    <3>1. i \in Digits(read) /\ c \in 0..9 /\ AtoTfnValid(read)
      BY <1>3, <1>4, <2>3 DEF Valid
    <3>2. ~ AtoTfnValid(t)
      BY <1>1, <1>4, <3>1, TfnSeesDigit
    <3> QED
      BY <2>3, <3>2 DEF Valid
  <2> QED
    BY <1>1, <2>1, <2>2, <2>3
<1>5. ASSUME NEW i \in 1..Len(read) - 1, t = [read EXCEPT ![i] = read[i + 1], ![i + 1] = read[i]],
             read[i] # read[i + 1], Alike(read[i], read[i + 1]),
             sample.checksum = "luhn" => {read[i], read[i + 1]} # {0, 9}
      PROVE  ~ Valid(sample.checksum, t)
  <2>1. i \in 1..Len(read) /\ i + 1 \in 1..Len(read) /\ i # i + 1
    BY <1>2
  <2>2. read[i] \in Chars /\ read[i + 1] \in Chars
    BY <1>2, <2>1 DEF Chars
  <2> DEFINE m == [read EXCEPT ![i] = read[i + 1]]
  <2>3. /\ m \in Seq(Chars) /\ Len(m) = Len(read) /\ m[i] = read[i + 1]
        /\ \A k \in 1..Len(read) : k # i => m[k] = read[k]
    BY <1>1, <2>1, <2>2, ExceptType
  <2>4. t = [m EXCEPT ![i + 1] = read[i]]
    BY <1>5
  <2> HIDE DEF m
  <2>5. /\ t \in Seq(Chars) /\ Len(t) = Len(m) /\ t[i + 1] = read[i]
        /\ \A k \in 1..Len(m) : k # i + 1 => t[k] = m[k]
    <3>1. i + 1 \in 1..Len(m)
      BY <2>1, <2>3
    <3> QED
      BY <2>2, <2>3, <2>4, <3>1, ExceptType
  <2>6. /\ t \in Seq(Chars) /\ Len(t) = Len(read) /\ t[i] = read[i + 1] /\ t[i + 1] = read[i]
        /\ \A k \in 1..Len(read) : k \notin {i, i + 1} => read[k] = t[k]
    BY <2>1, <2>3, <2>5
  <2>7. Exchanged(read, t, i)
    BY <1>5, <2>1, <2>6 DEF Exchanged
  <2>8. CASE sample.checksum = "luhn"
    <3>1. i \in Digits(read) /\ i + 1 \in Digits(read) /\ LuhnValid(read)
      <4>1. Alike(read[i + 1], read[i])
        BY <1>5 DEF Alike
      <4> QED
        BY <1>2, <1>3, <1>5, <2>1, <2>8, <4>1 DEF Valid
    <3>2. {read[i], read[i + 1]} # {0, 9}
      BY <1>5, <2>8
    <3>3. ~ LuhnValid(t)
      BY <1>1, <2>6, <2>7, <3>1, <3>2, LuhnSeesSwap
    <3> QED
      BY <2>8, <3>3 DEF Valid
  <2>9. CASE sample.checksum = "mod97"
    <3>1. Mod97Valid(read) /\ Len(read) <= 43
      BY <1>1, <2>9 DEF Valid
    <3>2. ~ Mod97Valid(t)
      BY <1>1, <2>6, <2>7, <3>1, Mod97SeesSwap
    <3> QED
      BY <2>9, <3>2 DEF Valid
  <2>10. CASE sample.checksum = "ato_tfn"
    <3>1. i \in Digits(read) /\ i + 1 \in Digits(read) /\ AtoTfnValid(read)
      <4>1. Alike(read[i + 1], read[i])
        BY <1>5 DEF Alike
      <4> QED
        BY <1>2, <1>3, <1>5, <2>1, <2>10, <4>1 DEF Valid
    <3>2. ~ AtoTfnValid(t)
      BY <1>1, <2>6, <2>7, <3>1, TfnSeesSwap
    <3> QED
      BY <2>10, <3>2 DEF Valid
  <2> QED
    BY <1>1, <2>8, <2>9, <2>10
<1>6. CASE t \in Mistyped(read)
  <2>1. PICK i \in 1..Len(read), c \in 0..36 :
           t = [read EXCEPT ![i] = c] /\ c # read[i] /\ Alike(read[i], c)
    BY <1>2, <1>6 DEF Mistyped, Chars
  <2> QED
    BY <1>4, <2>1
<1>7. CASE t \in Transposed(sample.checksum, read)
  <2>1. PICK i \in 1..Len(read) - 1 :
           /\ t = [read EXCEPT ![i] = read[i + 1], ![i + 1] = read[i]]
           /\ read[i] # read[i + 1] /\ Alike(read[i], read[i + 1])
           /\ sample.checksum = "luhn" => {read[i], read[i + 1]} # {0, 9}
    BY <1>7 DEF Transposed
  <2> QED
    BY <1>5, <2>1
<1> QED
  BY <1>6, <1>7 DEF Typos

\* Of a number that is right, none of the three checksums of regex.rs passes one with
\* one character mistaken or two neighbours exchanged (but Luhn's 0 and 9), whatever
\* the numbers that the patterns match.
THEOREM TyposAreShown ==
    ASSUME SamplesValid
    PROVE  Spec => []TyposShow
<1>1. ASSUME at = "match", text = <<>> PROVE TyposShow
  BY TypoShows DEF TyposShow, SamplesValid
<1>2. TyposShow
  BY <1>1 DEF TyposShow
<1> QED
  BY <1>2, PTL
=============================================================================
