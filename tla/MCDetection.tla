------------------------------ MODULE MCDetection ------------------------------
(***************************************************************************)
(* Small instances of Detection: long texts that are only cut, and shorter  *)
(* ones with findings of every kind in every place.                         *)
(***************************************************************************)
EXTENDS Detection

CONSTANTS LongTexts,    \* characters of the longest texts
          RichBytes     \* bytes of those that have findings

\* Texts of n characters, of which a chosen set has two bytes.
Spelt(n) ==
    {FlattenSeq([i \in 1..n |->
        CASE c[i] = "wide" -> <<"lead", "cont">> [] OTHER -> <<c[i]>>]) :
        c \in [1..n -> {"letter", "space", "wide"}]}

Pattern(id, detector, entropy, checksum) ==
    [id |-> id, detector |-> detector, compiles |-> TRUE, entropy |-> entropy, checksum |-> checksum]

MCEntities ==
    <<Pattern("card", "regex", FALSE, "luhn"), Pattern("key", "secrets", FALSE, "none"),
      [Pattern("token", "secrets", TRUE, "none") EXCEPT !.compiles = FALSE],
      [Pattern("blob", "secrets", TRUE, "none") EXCEPT !.compiles = FALSE],
      Pattern("person", "ner", FALSE, "none")>>

Card == <<4, 1, 1, 1, 36, 1, 1, 1, 1, 36, 1, 1, 1, 1, 36, 1, 1, 1, 1>>

\* The numbers of the tests; and the mirror image of a tax file number.
MCSamples ==
    {[checksum |-> "luhn", read |-> Card],
     [checksum |-> "luhn", read |-> <<4, 9, 0, 1, 2, 3, 4, 5, 6, 7, 8, 9, 4>>],
     [checksum |-> "mod97", read |-> <<13, 14, 8, 9, 3, 7, 0, 4, 0, 0, 4, 4, 0, 5, 3, 2, 0, 1, 3, 0, 0, 0>>],
     [checksum |-> "ato_tfn", read |-> <<1, 2, 3, 4, 5, 6, 7, 8>>],
     [checksum |-> "ato_tfn", read |-> <<2, 8, 7, 6, 5, 4, 3, 2, 1>>]}

\* Between characters.
Edges(t) == {i \in 0..Len(t) : i \in {0, Len(t)} \/ t[i + 1] # "cont"}

Places(t) == {p \in Edges(t) \X Edges(t) : p[1] <= p[2]}

\* Several words with a space between, of one length.
Rich(t) ==
    /\ Len(t) = RichBytes
    /\ Quantify(DOMAIN t, LAMBDA i : t[i] = "lead") = 1
    /\ Quantify(DOMAIN t, LAMBDA i : t[i] = "space") = 3
    /\ \A i \in 2..Len(t) : t[i] = "space" => t[i - 1] # "space"

MCHitsIn(t) ==
    {{}} \cup
    {{[id |-> h[1], start |-> p[1], end |-> p[2], entropic |-> h[2], read |-> h[3]]} :
        h \in {<<"card", FALSE, Card>>, <<"card", FALSE, <<>>>>, <<"blob", TRUE, <<>>>>,
               <<"token", TRUE, <<>>>>},
        p \in IF Rich(t) THEN Places(t) ELSE {}}

\* One or more words.
Runs(t) ==
    {p \in Places(t) :
        /\ p[1] < p[2]
        /\ t[p[1] + 1] # "space" /\ t[p[2]] # "space"
        /\ p[1] > 0 => t[p[1]] = "space"
        /\ p[2] < Len(t) => t[p[2] + 1] = "space"}

\* Up to two names.
MCNamesIn(t) ==
    {{}} \cup
    {{[id |-> "person", start |-> p[1], end |-> p[2]], [id |-> "person", start |-> q[1], end |-> q[2]]} :
        p \in IF Rich(t) THEN Runs(t) ELSE {}, q \in Runs(t)}

MCAllowFor(t) == {IF Rich(t) THEN {<<"letter">>} ELSE {}}

MCTexts == UNION {Spelt(n) : n \in 0..LongTexts}
=============================================================================
