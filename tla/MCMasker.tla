------------------------------ MODULE MCMasker ------------------------------
(***************************************************************************)
(* Small instances of Masker.  Two entities, "email" and "Email", share the *)
(* label "EMAIL"; "phone" has its own, and is as wide.                      *)
(***************************************************************************)
EXTENDS Masker

CONSTANTS ann, bob, hi,    \* words
          space, newline,  \* white space
          t1, t2           \* threads

MCLabels == {"EMAIL", "PHONE"}
MCLabelWidth == [l \in MCLabels |-> 5]
MCEntities == {"email", "Email", "phone"}
MCLabelOf == [e \in MCEntities |-> IF e = "phone" THEN "PHONE" ELSE "EMAIL"]

MCThreads == {t1, t2}

MCBlanks == {space, newline}
MCWords == {ann, bob, hi} \cup MCBlanks
A == <<ann>>
B == <<bob, space, hi>>
BLines == <<bob, newline, space, hi>>
MCTexts == {A, B}

Of(text, entity, action) ==
    [slice |-> text, ner |-> FALSE, text |-> text, entity |-> entity, action |-> action]
Name(slice, entity) ==
    [slice |-> slice, ner |-> TRUE, text |-> B, entity |-> entity, action |-> "mask"]
Text(spans, aligned) ==
    [gaps |-> [i \in 1..Len(spans) + 1 |-> IF i = 1 THEN <<hi>> ELSE <<>>],
     spans |-> spans, aligned |-> aligned]

\* Two entities of one label, one text twice and under two entities, a name over
\* two lines that NER takes for the one a pattern finds, a secret that another
\* call masks, a call that panics.
MCInputs ==
    {Text(<<Of(A, "email", "mask"), Of(B, "Email", "mask"), Of(A, "phone", "mask")>>, TRUE),
     Text(<<Of(A, "email", "redact"), Name(BLines, "phone")>>, TRUE),
     Text(<<Of(B, "email", "mask")>>, FALSE)}
=============================================================================
