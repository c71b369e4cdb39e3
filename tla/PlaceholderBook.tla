-------------------------- MODULE PlaceholderBook --------------------------
(***************************************************************************)
(* What the Masker promises its callers: for each session a book in which   *)
(* texts have placeholders, and three operations on it that take effect at  *)
(* once.  A book only grows, gives each text a placeholder of its own, and  *)
(* masking adds exactly the texts it was asked to mask.  Which numbers are  *)
(* given out is left open.                                                  *)
(***************************************************************************)
CONSTANTS Threads, Sessions, Texts, Inputs,
          Placeholder, Redacted,
          Fill(_, _),           \* a text's gaps and the pieces between them
          Rehydrations(_, _)    \* a book, a text with placeholders

VARIABLES book,     \* for each session, the placeholder of each text
          answer    \* what each thread's last operation returned

NoAnswer == [op |-> "none"]

Init ==
    /\ book = [s \in Sessions |-> [o \in {} |-> o]]
    /\ answer = [t \in Threads |-> NoAnswer]

ToMask(input) ==
    {input.spans[i].text :
        i \in {j \in DOMAIN input.spans : input.spans[j].action = "mask"}}

OneToOne(b) == \A o1, o2 \in DOMAIN b : b[o1] = b[o2] => o1 = o2

\* The session's new book b is its old one and the texts now masked.
Grow(s, b, input) ==
    /\ DOMAIN b = DOMAIN book[s] \cup ToMask(input)
    /\ \A o \in DOMAIN book[s] : b[o] = book[s][o]
    /\ \A o \in DOMAIN b : b[o] \in Placeholder
    /\ OneToOne(b)
    /\ book' = [book EXCEPT ![s] = b]

Masked(b, input) ==
    Fill(input.gaps,
         [i \in DOMAIN input.spans |->
            IF input.spans[i].action = "mask"
            THEN <<b[input.spans[i].text]>> ELSE <<Redacted>>])

MaskText(t, s, input) ==
    /\ Grow(s, book'[s], input)
    /\ answer' = [answer EXCEPT ![t] =
                    [op |-> "mask", session |-> s, input |-> input,
                     out |-> Masked(book'[s], input)]]

\* A call that fails may have given its texts placeholders.
MaskFails(t, s, input) ==
    /\ Grow(s, book'[s], input)
    /\ answer' = [answer EXCEPT ![t] = NoAnswer]

Lookup(t, s, o) ==
    /\ answer' = [answer EXCEPT ![t] =
                    [op |-> "lookup", session |-> s, original |-> o,
                     found |-> {book[s][x] : x \in DOMAIN book[s] \cap {o}}]]
    /\ UNCHANGED book

Rehydrate(t, s) ==
    /\ answer'[t].op = "rehydrate"
    /\ answer'[t].out \in Rehydrations(book[s], answer'[t].text)
    /\ answer' = [answer EXCEPT ![t] =
                    [op |-> "rehydrate", session |-> s,
                     text |-> answer'[t].text, out |-> answer'[t].out]]
    /\ UNCHANGED book

Next ==
    \E t \in Threads, s \in Sessions :
        \/ \E input \in Inputs : MaskText(t, s, input) \/ MaskFails(t, s, input)
        \/ \E o \in Texts : Lookup(t, s, o)
        \/ Rehydrate(t, s)

vars == <<book, answer>>

Spec == Init /\ [][Next]_vars
=============================================================================
