-------------------------- MODULE PlaceholderText --------------------------
(***************************************************************************)
(* The texts the masking proxy handles.  A text is a sequence of atoms: a   *)
(* word or white space the user wrote, a placeholder "[LABEL_n]" or         *)
(* "[REDACTED_SECRET]".  A text to mask comes with the spans a detector     *)
(* chain found in it; in the order of their starts, and disjoint, they cut  *)
(* it into gaps and slices:                                                 *)
(*   gaps[1] spans[1].slice gaps[2] spans[2].slice ... gaps[Len(spans) + 1] *)
(* A span's slice is the text[start..end] that is replaced.  Its text is    *)
(* what the placeholder is given for and is put back: the same, unless NER  *)
(* found it.                                                                *)
(*                                                                         *)
(* "[LABEL_n]" is the record [label, n]: n has no "_", so that the last "_" *)
(* of the text separates the two and distinct records are distinct texts.   *)
(***************************************************************************)
EXTENDS Rehydration, FiniteSets

CONSTANTS Labels,       \* entity names in upper case, as placeholders show them
          LabelWidth,   \* the number of bytes of each label
          Redacted,     \* the atom "[REDACTED_SECRET]"
          Blanks,       \* the atoms that are white space
          Space         \* the one of them that is a single space

Placeholder == [label : Labels, n : Nat \ {0}]

ASSUME WidthAssumption == LabelWidth \in [Labels -> Nat]
ASSUME RedactedAssumption == Redacted \notin Placeholder
ASSUME SpaceAssumption == Space \in Blanks

\* A number has a d-th digit when it is at least 10^(d - 1).
Digits(n) == Cardinality({d \in 1..n : 10^(d - 1) <= n})

\* The length in bytes of "[LABEL_n]".
Width(ph) == LabelWidth[ph.label] + 3 + Digits(ph.n)

\* What rehydrate may return: wide placeholders are put back first.
Rehydrations(book, text) ==
    RehydrationsBy([o \in DOMAIN book |-> Width(book[o])], book, text)

\* The words of a slice joined by single spaces.
Joined(slice) ==
    FlattenSeq([i \in DOMAIN slice |->
        IF slice[i] \notin Blanks THEN <<slice[i]>>
        ELSE IF i > 1 /\ slice[i - 1] \in Blanks THEN <<>> ELSE <<Space>>])

\* A detector's text for what it found: NER joins the words (decode_spans), the
\* patterns take the slice itself.
DetectedText(span) == IF span.ner THEN Joined(span.slice) ELSE span.slice

\* What the user reads back: the text, its secrets redacted, and in a name that
\* NER found any white space a single space.
Readable(input) ==
    Fill(input.gaps,
         [i \in DOMAIN input.spans |->
            IF input.spans[i].action = "mask" THEN DetectedText(input.spans[i])
                                              ELSE <<Redacted>>])
=============================================================================
