------------------------------- MODULE Detection -------------------------------
(***************************************************************************)
(* detect/, chunk.rs, allowlist.rs and build_chain: what is found in one    *)
(* text.  The packs' entities make a chain of detectors; patterns are       *)
(* matched over the whole text, the NER model over overlapping chunks; the  *)
(* findings are sorted and merged, and those on the allowlist dropped.      *)
(*                                                                         *)
(* A text is a sequence of bytes: letters, white space, and characters of   *)
(* two bytes.  The loops take a step per iteration.                         *)
(***************************************************************************)
EXTENDS Checksums, FiniteSets

CONSTANTS MaxChars,     \* CHUNK_CHARS
          Overlap,      \* CHUNK_OVERLAP
          Entities,     \* the entities of the active packs, in their order
          NerLoaded,    \* cfg.ner, and the model is there
          Texts,
          Samples,      \* numbers of each checksum, as the tests have them
          HitsIn(_),    \* for a text, the sets of hits there may be
          NamesIn(_),   \* for a text, the sets of names the model may see
          AllowFor(_)   \* for a text, the allowlists there may be

Bytes == {"letter", "space", "lead", "cont"}

\* An entity of a pack.  compiles: it has a pattern that is a valid regex (none at
\* all is one that matches the empty string, for the regex detector); entropy: it
\* has an entropy_min; checksum: the one it names, or any other word.
Entity == [id : STRING, detector : STRING, compiles : BOOLEAN, entropy : BOOLEAN,
           checksum : STRING]

\* Where a pattern matches, and what a checksum reads there, or a text is random
\* enough; where the model, external to the code, would see something.
Hit == [id : STRING, start : Nat, end : Nat, entropic : BOOLEAN, read : Seq(Chars)]
Name == [id : STRING, start : Nat, end : Nat]

ASSUME SizesAssumption ==
    /\ MaxChars \in Nat /\ Overlap \in Nat
    /\ Overlap < MaxChars /\ MaxChars > 2

\* The patterns that have a checksum match digits (and separators) only, or at most 35
\* letters and digits with 8 spaces (default.yaml:10, cdr-au.yaml:6, gdpr.yaml:57).
ASSUME SamplesAssumption ==
    /\ Samples \subseteq [checksum : {"luhn", "mod97", "ato_tfn"}, read : Seq(Chars)]
    /\ \A sample \in Samples :
        IF sample.checksum = "mod97" THEN Len(sample.read) <= 43
        ELSE ToSet(sample.read) \subseteq 0..9 \cup {Separator}

\* A &str: a character of two bytes is never torn.
WellFormed(t) ==
    \A i \in DOMAIN t :
        /\ t[i] = "cont" <=> i > 1 /\ t[i - 1] = "lead"
        /\ t[i] = "lead" => i < Len(t)

ASSUME TextsAssumption ==
    /\ Entities \in Seq(Entity)
    /\ \A t \in Texts : t \in Seq(Bytes) /\ WellFormed(t)

\* What is found lies in the text.
ASSUME FindingsAssumption ==
    \A t \in Texts :
        /\ \A hits \in HitsIn(t) : \A h \in hits :
            h \in Hit /\ h.start <= h.end /\ h.end <= Len(t)
        /\ \A sights \in NamesIn(t) : \A n \in sights :
            n \in Name /\ n.start <= n.end /\ n.end <= Len(t)

VARIABLES text,
          names,    \* what the model sees in it
          allow,    \* the allowlist, as the texts it takes for its entries
          at,
          start,    \* chunk_text: where the next chunk starts
          chunks,   \* the chunks so far, as [start, end]
          found,    \* the findings of all detectors that are not merged yet
          seen,     \* history: all of them
          kept,     \* the merged ones
          masked    \* what the allowlist leaves of them, in their order

vars == <<text, names, allow, at, start, chunks, found, seen, kept, masked>>

given == <<text, names, allow>>
len == Len(text)

-----------------------------------------------------------------------------
(* build_chain                                                             *)

Of(detector) == {i \in DOMAIN Entities : Entities[i].detector = detector}
Ids(entities) == {Entities[i].id : i \in entities}

\* regex_entities: an invalid pattern is skipped.
RegexChain == {i \in Of("regex") : Entities[i].compiles}
SecretPatterns == {i \in Of("secrets") : Entities[i].compiles}

\* There is one place for an entropy check: the last entity that has one gets it.
EntropyChain ==
    LET entropies == {i \in Of("secrets") : Entities[i].entropy}
    IN IF entropies = {} THEN {} ELSE {Max(entropies)}

Labels == Ids(Of("ner"))

-----------------------------------------------------------------------------
(* Spans                                                                   *)

\* A name's text is its words with one space between them.
Joined(a, b) ==
    LET part == SubSeq(text, a + 1, b)
    IN FlattenSeq([i \in DOMAIN part |->
            IF i > 1 /\ part[i] = "space" /\ part[i - 1] = "space" THEN <<>> ELSE <<part[i]>>])

HitSpan(h) ==
    [id |-> h.id, start |-> h.start, end |-> h.end, text |-> SubSeq(text, h.start + 1, h.end)]
NameSpan(n) ==
    [id |-> n.id, start |-> n.start, end |-> n.end, text |-> Joined(n.start, n.end)]

Checks(entities, h) ==
    \E i \in entities : Entities[i].id = h.id /\ Valid(Entities[i].checksum, h.read)

Matches(h) ==
    \/ ~ h.entropic /\ Checks(RegexChain, h)
    \/ ~ h.entropic /\ h.id \in Ids(SecretPatterns)
    \/ h.entropic /\ h.id \in Ids(EntropyChain)

Init ==
    /\ text \in Texts
    /\ names \in NamesIn(text) /\ allow \in AllowFor(text)
    /\ at = "match"
    /\ start = 0
    /\ chunks = <<>>
    /\ found = {} /\ seen = {}
    /\ kept = <<>> /\ masked = {}

\* RegexDetector and SecretsDetector.
Match ==
    /\ at = "match"
    /\ \E hits \in HitsIn(text) :
        found' = {HitSpan(h) : h \in {g \in hits : Matches(g)}}
    /\ seen' = found'
    /\ at' = IF NerLoaded /\ Labels # {} THEN "chunk" ELSE "merge"
    /\ UNCHANGED <<given, start, chunks, kept, masked>>

-----------------------------------------------------------------------------
(* chunk_text                                                              *)

Boundary(i) == i \in {0, len} \/ text[i + 1] # "cont"

\* Mistaken: any byte will do.
BoundaryBefore_Any(i) == i

\* char_boundary_before
BoundaryBefore(i) == Max({j \in 0..i : Boundary(j)})

AtMost(a, b) == IF a < b THEN a ELSE b

HardEnd == BoundaryBefore(AtMost(start + MaxChars, len))

\* Mistaken: the chunk is cut wherever it is full.
ChunkEnd_Hard == HardEnd

\* Back to the last white space, unless that is where the chunk starts.
ChunkEnd ==
    LET spaces == {i \in start + 1 .. HardEnd - 1 : text[i + 1] = "space"}
    IN IF HardEnd < len /\ spaces # {} THEN Max(spaces) ELSE HardEnd

\* Mistaken: back by the overlap, whatever was gained.
NextStart_Back(end) == BoundaryBefore(IF end < Overlap THEN 0 ELSE end - Overlap)

\* Mistaken: no chunk begins inside the one before.
NextStart_Apart(end) == end

\* Back by the overlap, but never to where this chunk started or before.
NextStart(end) ==
    LET next == BoundaryBefore(IF end < Overlap THEN 0 ELSE end - Overlap)
    IN IF next > start THEN next ELSE end

ChunkNext ==
    /\ at = "chunk"
    /\ IF len = 0 THEN at' = "infer" /\ chunks' = <<[start |-> 0, end |-> 0]>> /\ UNCHANGED start
       ELSE /\ chunks' = Append(chunks, [start |-> start, end |-> ChunkEnd])
            /\ IF ChunkEnd >= len THEN at' = "infer" /\ UNCHANGED start
               ELSE start' = NextStart(ChunkEnd) /\ UNCHANGED at
    /\ UNCHANGED <<given, found, seen, kept, masked>>

-----------------------------------------------------------------------------
(* NerDetector                                                             *)

Inside(n, c) == c.start <= n.start /\ n.end <= c.end

\* decode_spans: of what the model sees of a label in a chunk, the likeliest.
Best(id, c) == {n \in names : n.id = id /\ Inside(n, c)}

\* A chunk is run; failing, it has no findings.
Infer ==
    /\ at = "infer"
    /\ chunks # <<>>
    /\ LET c == Head(chunks)
           labels == {id \in Labels : Best(id, c) # {}}
       IN \/ \E pick \in [labels -> names] :
                /\ \A id \in labels : pick[id] \in Best(id, c)
                /\ found' = found \cup {NameSpan(pick[id]) : id \in labels}
          \/ UNCHANGED found
    /\ seen' = seen \cup found'
    /\ chunks' = Tail(chunks)
    /\ UNCHANGED <<given, at, start, kept, masked>>

EndInfer ==
    /\ at = "infer"
    /\ chunks = <<>>
    /\ at' = "merge"
    /\ UNCHANGED <<given, start, chunks, found, seen, kept, masked>>

-----------------------------------------------------------------------------
(* DetectorChain::detect and Allowlist::filter                             *)

\* The order of the sort; it leaves equal spans as the detectors gave them, which
\* is any order here.
Before(s, t) ==
    s.start < t.start \/ (s.start = t.start /\ s.end - s.start > t.end - t.start)

\* Mistaken: a span that overlaps goes unless it is longer than the last one.
Keeps_Longer(s) ==
    \/ kept = <<>> \/ s.start >= Last(kept).end
    \/ s.end - s.start > Last(kept).end - Last(kept).start

Keeps(s) == kept = <<>> \/ s.start >= Last(kept).end

MergeNext ==
    /\ at = "merge"
    /\ \E s \in found :
        /\ \A t \in found : ~ Before(t, s)
        /\ found' = found \ {s}
        /\ kept' = IF Keeps(s) THEN Append(kept, s) ELSE kept
    /\ UNCHANGED <<given, at, start, chunks, seen, masked>>

Allowed(s) == s.text \in allow

Filter ==
    /\ at = "merge"
    /\ found = {}
    /\ masked' = {s \in ToSet(kept) : ~ Allowed(s)}
    /\ at' = "done"
    /\ UNCHANGED <<given, start, chunks, found, seen, kept>>

Next == Match \/ ChunkNext \/ Infer \/ EndInfer \/ MergeNext \/ Filter

Spec == Init /\ [][Next]_vars

-----------------------------------------------------------------------------
(***************************************************************************)
(* Properties                                                              *)
(***************************************************************************)

\* The type invariant.
TypeOK ==
    /\ at \in {"match", "chunk", "infer", "merge", "done"}
    /\ start \in 0..len /\ Boundary(start)
    /\ text \in Seq(Bytes)
    /\ \A i \in DOMAIN chunks : 0 <= chunks[i].start /\ chunks[i].end <= len
    /\ found \subseteq seen
    /\ \A s \in seen : 0 <= s.start /\ s.start <= s.end /\ s.end <= len
    /\ masked \subseteq ToSet(kept) /\ ToSet(kept) \subseteq seen

AllChunked == at = "infer" /\ chunks # <<>> /\ chunks[1].start = 0

\* The chunks cover the text without a gap and hold whole characters, none is longer
\* than the model takes, and each begins after the one before: the loop never walks
\* on the spot, and ends.
ChunksCover ==
    /\ at \in {"chunk", "infer"} =>
        \A i \in DOMAIN chunks :
            /\ Boundary(chunks[i].start) /\ Boundary(chunks[i].end)
            /\ chunks[i].end - chunks[i].start <= MaxChars
            /\ i > 1 => /\ chunks[i - 1].start < chunks[i].start
                        /\ chunks[i].start <= chunks[i - 1].end
    /\ AllChunked => Last(chunks).end = len

\* Whole words: no letter before or after.
Words(a, b) ==
    /\ \A i \in {a, b - 1} : text[i + 1] # "space"
    /\ a > 0 => text[a] = "space"
    /\ b < len => text[b + 1] = "space"

\* A name no longer than the overlap lies whole in some chunk, wherever the cuts
\* fall, provided that a chunk is longer than two overlaps (as 512 is than twice 50):
\* with less, a cut soon after the start leaves no overlap (chunk.rs:39-43).
NamesWhole ==
    AllChunked /\ 2 * Overlap < MaxChars =>
        \A a \in 0..len : \A b \in a + 1 .. AtMost(a + Overlap, len) :
            Words(a, b) => \E i \in DOMAIN chunks : Inside([start |-> a, end |-> b], chunks[i])

\* The spans that are masked are in order and apart, as mask_text needs them, and
\* everything a detector found starts in one of them - or in one the allowlist
\* took out.  (What is longer than the span that swallowed it shows its tail.)
Merged ==
    at = "done" =>
        /\ \A i, j \in DOMAIN kept : i < j => kept[i].end <= kept[j].start
        /\ \A s \in seen : \E i \in DOMAIN kept :
            /\ s = kept[i] \/ (kept[i].start <= s.start /\ s.start < kept[i].end)
            /\ kept[i] \in masked \/ Allowed(kept[i])

Alike(c, d) == (c < 10 /\ d < 10) \/ (c \in 10..35 /\ d \in 10..35)

\* One character is another of its kind.
Mistyped(read) ==
    UNION {{[read EXCEPT ![i] = c] : c \in {d \in Chars : d # read[i] /\ Alike(read[i], d)}} :
           i \in DOMAIN read}

\* Two neighbours are swapped - but 0 and 9, which Luhn's sum does not tell apart.
Transposed(checksum, read) ==
    {[read EXCEPT ![i] = read[i + 1], ![i + 1] = read[i]] :
        i \in {j \in 1 .. Len(read) - 1 :
                /\ read[j] # read[j + 1] /\ Alike(read[j], read[j + 1])
                /\ checksum = "luhn" => {read[j], read[j + 1]} # {0, 9}}}

Typos(sample) == Mistyped(sample.read) \cup Transposed(sample.checksum, sample.read)

\* A number that is right is found, and with one mistake in it is not taken for
\* one (regex.rs:58-122).  It needs no state, and is looked at in one.
TyposShow ==
    at = "match" /\ text = <<>> =>
        \A sample \in Samples :
            /\ Valid(sample.checksum, sample.read)
            /\ \A t \in Typos(sample) : ~ Valid(sample.checksum, t)
=============================================================================
