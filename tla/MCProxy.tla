------------------------------- MODULE MCProxy -------------------------------
(***************************************************************************)
(* Small instances of Proxy: a company pack "corp" in packs_dir fails closed *)
(* and finds patients with NER, "gdpr" is the dashboard's to switch.        *)
(***************************************************************************)
EXTENDS Proxy

CONSTANTS ann, lee, space, newline, iban, key, r1, r2

MCBlanks == {space, newline}
MCWords == {ann, lee, iban, key} \cup MCBlanks
MCLabels == {"IBAN", "PATIENT", "API_KEY"}
MCLabelWidth == [l \in MCLabels |-> 5]
MCRequests == {r1, r2}

Key == [slice |-> <<key>>, text |-> <<key>>, label |-> "API_KEY", action |-> "redact",
        pack |-> "default", ner |-> FALSE]
Iban == [slice |-> <<iban>>, text |-> <<iban>>, label |-> "IBAN", action |-> "mask",
         pack |-> "gdpr", ner |-> FALSE]
\* A name over two lines.
Patient == [slice |-> <<ann, newline, lee>>, text |-> <<ann, space, lee>>,
            label |-> "PATIENT", action |-> "mask", pack |-> "corp", ner |-> TRUE]

BodyWith(kind, parses, canonical, strings) ==
    [kind |-> kind, session |-> "s1", parses |-> parses,
     canonical |-> canonical, strings |-> strings]

\* A request of two strings whose packs may change in between, with a secret in
\* each, and which serialises differently; one that does not parse; a token count.
MCBodies ==
    {BodyWith("completion", TRUE, FALSE, << <<Key, Iban>>, <<Patient, Key>> >>),
     BodyWith("completion", FALSE, TRUE, <<>>),
     BodyWith("count_tokens", TRUE, TRUE, << <<Patient>> >>)}
=============================================================================
