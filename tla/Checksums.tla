------------------------------- MODULE Checksums -------------------------------
(***************************************************************************)
(* detect/regex.rs: the checksums that tell a card number, an IBAN or a tax *)
(* file number from any other digits.  A character is its digit to the base *)
(* 36; every other one, a space or a dash, is Separator.                    *)
(***************************************************************************)
EXTENDS Integers, Sequences, SequencesExt, FiniteSetsExt

Separator == 36
Chars == 0..36

\* Where the digits are, and how many are right of one.
Digits(read) == {i \in DOMAIN read : read[i] < 10}
Place(read, i) == Cardinality({j \in Digits(read) : j > i})

Total(terms) == FoldLeft(LAMBDA sum, term : sum + term, 0, terms)

\* Mistaken: a number that has two digits when doubled is not reduced to one.
Doubled_Plain(d) == 2 * d

Doubled(d) == IF 2 * d > 9 THEN 2 * d - 9 ELSE 2 * d

\* Every second digit from the right is doubled.
LuhnTerms(read) ==
    [i \in DOMAIN read |-> IF i \notin Digits(read) THEN 0
                           ELSE IF Place(read, i) % 2 = 1 THEN Doubled(read[i]) ELSE read[i]]

LuhnValid(read) ==
    /\ Cardinality(Digits(read)) \in 13..19
    /\ Total(LuhnTerms(read)) % 10 = 0

\* Modulo 97, what a number becomes when one more character is read; a letter stands
\* for two digits.
Further(rem, c) ==
    IF c = Separator THEN rem ELSE (rem * (IF c > 9 THEN 100 ELSE 10) + c) % 97

Remainder(rem, chars) == FoldLeft(Further, rem, chars)

Characters(read) == {i \in DOMAIN read : read[i] # Separator}

Fourth(read) ==
    CHOOSE i \in Characters(read) : Cardinality({j \in Characters(read) : j <= i}) = 4

\* The first four characters are read last.
Mod97Valid(read) ==
    /\ Cardinality(Characters(read)) >= 5
    /\ LET rest == Remainder(0, SubSeq(read, Fourth(read) + 1, Len(read)))
       IN Remainder(rest, SubSeq(read, 1, Fourth(read))) = 1

\* From the rightmost digit.  (The tax office counts them from the leftmost.)
TfnWeights == <<1, 4, 3, 7, 5, 8, 6, 9, 10>>

TfnTerms(read) ==
    [i \in DOMAIN read |-> IF i \notin Digits(read) THEN 0
                           ELSE read[i] * TfnWeights[Place(read, i) + 1]]

AtoTfnValid(read) ==
    /\ Cardinality(Digits(read)) \in {8, 9}
    /\ Total(TfnTerms(read)) % 11 = 0

Valid(checksum, read) ==
    CASE checksum = "luhn" -> LuhnValid(read)
      [] checksum = "mod97" -> Mod97Valid(read)
      [] checksum = "ato_tfn" -> AtoTfnValid(read)
      [] OTHER -> TRUE
=============================================================================
