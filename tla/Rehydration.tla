----------------------------- MODULE Rehydration -----------------------------
(***************************************************************************)
(* Masker::rehydrate and the replacement of spans, on sequences of atoms of *)
(* any kind; PlaceholderText says which atoms there are.                    *)
(***************************************************************************)
EXTENDS Integers, Sequences, SequencesExt

\* A session's map of originals: to each text its placeholder.
NoBook == [o \in {} |-> o]

\* Mistaken: the newest entry displaces the others.
With_Displacing(book, o, ph) == [x \in {o} |-> ph]

With(book, o, ph) ==
    [x \in DOMAIN book \cup {o} |-> IF x = o THEN ph ELSE book[x]]

\* Mistaken: only the first occurrence is replaced.
Swap_First(text, ph, original) ==
    IF \E i \in DOMAIN text : text[i] = ph
    THEN LET k == CHOOSE i \in DOMAIN text :
                    text[i] = ph /\ \A j \in 1..i - 1 : text[j] # ph
         IN SubSeq(text, 1, k - 1) \o original \o SubSeq(text, k + 1, Len(text))
    ELSE text

(***************************************************************************)
(* str::replace: every occurrence of a placeholder becomes the original.    *)
(***************************************************************************)
Swap(text, ph, original) ==
    FlattenSeq([i \in DOMAIN text |->
                  IF text[i] = ph THEN original ELSE <<text[i]>>])

(***************************************************************************)
(* rehydrate sorts the pairs of a HashMap by descending width: pairs of one *)
(* width come in any order.                                                 *)
(***************************************************************************)
OrdersBy(width, book) ==
    {order \in SetToSeqs(DOMAIN book) :
        \A i, j \in DOMAIN order : i < j => width[order[i]] >= width[order[j]]}

\* The texts rehydrate may return for one session's map of originals.
RehydrationsBy(width, book, text) ==
    {FoldLeft(LAMBDA out, o : Swap(out, book[o], o), text, order) :
        order \in OrdersBy(width, book)}

\* The text whose spans are replaced by the given pieces.
Fill(gaps, pieces) ==
    gaps[1] \o FlattenSeq([i \in DOMAIN pieces |-> pieces[i] \o gaps[i + 1]])
=============================================================================
