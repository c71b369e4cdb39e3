---------------------------- MODULE MaskerProofs ----------------------------
(***************************************************************************)
(* Proofs about Masker, for any threads, sessions, entities and texts.      *)
(***************************************************************************)
EXTENDS Masker, Lemmas

\* Exactly the thread that holds the mutex is in the critical section, and it
\* is there with a call.
MutexInv ==
    \A t \in Threads :
        /\ pc[t] = "locked" <=> holder = t
        /\ pc[t] # "idle" => call[t].op # "none"

\* CountersExact cut in two: no number above the counter, none left out.
NumbersBelow ==
    \A s \in Sessions : \A o \in DOMAIN byOriginal[s] :
        byOriginal[s][o].n \in 1..counters[s][byOriginal[s][o].label]

NumbersUsed ==
    \A s \in Sessions, l \in Labels : \A n \in 1..counters[s][l] :
        \E o \in DOMAIN byOriginal[s] :
            byOriginal[s][o].label = l /\ byOriginal[s][o].n = n

IInv == TypeOK /\ MutexInv /\ PlaceholdersDistinct /\ NumbersBelow /\ NumbersUsed

-----------------------------------------------------------------------------
\* A record of a session of Calls.
LEMMA CallSession ==
    ASSUME TypeOK, NEW t \in Threads, call[t].op # "none"
    PROVE  call[t].session \in Sessions
BY DEF TypeOK, IsCall, Calls

\* The next span of a call of mask_text is a span.
LEMMA NextSpanType ==
    ASSUME TypeOK, NEW t \in Threads, MoreSpans(t)
    PROVE  /\ call[t].session \in Sessions
           /\ NextSpan(t) \in Span
           /\ LabelOf[NextSpan(t).entity] \in Labels
<1>1. call[t] \in [op : {"mask"}, session : Sessions, input : Inputs]
  BY DEF TypeOK, IsCall, Calls, MoreSpans, Inside
<1>2. call[t].input.spans \in Seq(Span)
  BY <1>1, InputsAssumption DEF InputType
<1>3. Len(marked[t]) \in Nat
  BY DEF TypeOK
<1>4. Len(marked[t]) + 1 \in 1..Len(call[t].input.spans)
  BY <1>2, <1>3 DEF MoreSpans, Spans
<1>5. NextSpan(t) \in Span
  BY <1>2, <1>4 DEF NextSpan, Spans
<1> QED
  BY <1>1, <1>5, LabelOfAssumption DEF Span

LEMMA InitIInv == Init => IInv
<1> SUFFICES ASSUME Init PROVE IInv
  OBVIOUS
<1> USE DEF Init, NoBook, NoCall
<1>1. TypeOK
  BY DEF TypeOK, IsBook, IsCall
<1>2. MutexInv
  BY NoThreadAssumption DEF MutexInv
<1>3. PlaceholdersDistinct /\ NumbersBelow /\ NumbersUsed
  BY DEF PlaceholdersDistinct, NumbersBelow, NumbersUsed
<1> QED
  BY <1>1, <1>2, <1>3 DEF IInv

-----------------------------------------------------------------------------
\* The conjuncts about the maps: steps that leave the maps alone keep them.
BookInv == PlaceholdersDistinct /\ NumbersBelow /\ NumbersUsed

LEMMA BooksUnchanged ==
    ASSUME BookInv, UNCHANGED <<byOriginal, counters>>
    PROVE  BookInv'
BY DEF BookInv, PlaceholdersDistinct, NumbersBelow, NumbersUsed

LEMMA BeginStep ==
    ASSUME IInv, NEW t \in Threads, BeginCall(t) \/ BeginRehydrate(t)
    PROVE  IInv'
<1>1. PICK c : IsCall(c) /\ c.op # "none" /\ Begin(t, c)
  <2>1. CASE BeginCall(t)
    BY <2>1 DEF BeginCall, IsCall, Calls
  <2>2. CASE BeginRehydrate(t)
    BY <2>2 DEF BeginRehydrate, IsCall
  <2> QED
    BY <2>1, <2>2
<1>2. TypeOK'
  BY <1>1 DEF IInv, TypeOK, Begin
<1>3. MutexInv'
  BY <1>1 DEF IInv, TypeOK, MutexInv, Begin
<1> QED
  BY <1>1, <1>2, <1>3, BooksUnchanged DEF IInv, BookInv, Begin

LEMMA AcquireStep ==
    ASSUME IInv, NEW t \in Threads, Acquire(t)
    PROVE  IInv'
<1>1. call[t].session \in Sessions
  BY CallSession DEF IInv, MutexInv, Acquire
<1>2. TypeOK'
  BY <1>1 DEF IInv, TypeOK, Acquire
<1>3. MutexInv'
  BY NoThreadAssumption DEF IInv, TypeOK, MutexInv, Acquire
<1> QED
  BY <1>2, <1>3, BooksUnchanged DEF IInv, BookInv, Acquire

LEMMA ReleaseStep ==
    ASSUME IInv, NEW t \in Threads, pc[t] = "locked", NEW result, Release(t, result)
    PROVE  IInv'
<1>1. TypeOK'
  BY DEF IInv, TypeOK, Release
<1>2. MutexInv'
  BY NoThreadAssumption DEF IInv, TypeOK, MutexInv, Release
<1> QED
  BY <1>1, <1>2, BooksUnchanged DEF IInv, BookInv, Release

LEMMA MarkStep ==
    ASSUME IInv, NEW t \in Threads, NEW atom \in Placeholder \cup {Redacted},
           Mark(t, atom),
           UNCHANGED <<byOriginal, counters, holder, pc, call, ret, before>>
    PROVE  IInv'
<1>1. TypeOK'
  BY DEF IInv, TypeOK, Mark
<1>2. MutexInv'
  BY DEF IInv, MutexInv
<1> QED
  BY <1>1, <1>2, BooksUnchanged DEF IInv, BookInv

\* The new number is the successor of all the numbers under its label, so it is
\* no other text's, and the numbers stay without a hole.
LEMMA NewPlaceholderStep ==
    ASSUME IInv, NEW t \in Threads, NewPlaceholder(t)
    PROVE  IInv'
<1> DEFINE s == call[t].session
           o == NextSpan(t).text
           l == LabelOf[NextSpan(t).entity]
           n == counters[s][l] + 1
           ph == [label |-> l, n |-> n]
<1>1. s \in Sessions /\ o \in Texts /\ l \in Labels
  BY NextSpanType DEF IInv, NewPlaceholder, Span
<1>2. n \in Nat \ {0} /\ ph \in Placeholder
  BY <1>1 DEF IInv, TypeOK, Placeholder
<1>3. /\ o \notin DOMAIN byOriginal[s]
      /\ byOriginal' = [byOriginal EXCEPT ![s] = With(byOriginal[s], o, ph)]
      /\ counters' = [counters EXCEPT ![s][l] = n]
      /\ Mark(t, ph)
      /\ UNCHANGED <<holder, pc, call, ret, before>>
  BY DEF NewPlaceholder
<1>4. \A r \in Sessions : r # s => /\ byOriginal'[r] = byOriginal[r]
                                  /\ counters'[r] = counters[r]
  BY <1>1, <1>3, SMTT(30) DEF IInv, TypeOK
<1>5. /\ DOMAIN byOriginal'[s] = DOMAIN byOriginal[s] \cup {o}
      /\ byOriginal'[s][o] = ph
      /\ \A x \in DOMAIN byOriginal[s] : byOriginal'[s][x] = byOriginal[s][x]
  BY <1>1, <1>3 DEF IInv, TypeOK, With
<1>6. /\ counters'[s][l] = n
      /\ \A k \in Labels : k # l => counters'[s][k] = counters[s][k]
  BY <1>1, <1>3, SMTT(30) DEF IInv, TypeOK
<1>7. TypeOK'
  <2>1. IsBook(byOriginal'[s])
    BY <1>1, <1>2, <1>3, <1>5 DEF IInv, TypeOK, IsBook, With
  <2>2. \A r \in Sessions : IsBook(byOriginal'[r])
    BY <2>1, <1>4 DEF IInv, TypeOK
  <2>3. marked' \in [Threads -> Seq(Placeholder \cup {Redacted})]
    BY <1>2, <1>3 DEF IInv, TypeOK, Mark
  <2>4. byOriginal' = [r \in Sessions |-> byOriginal'[r]]
    BY <1>3 DEF IInv, TypeOK
  <2>5. counters' \in [Sessions -> [Labels -> Nat]]
    BY <1>2, <1>3 DEF IInv, TypeOK
  <2> QED
    BY <2>2, <2>3, <2>4, <2>5, <1>3, SMTT(30) DEF IInv, TypeOK
<1>8. MutexInv'
  BY <1>3 DEF IInv, MutexInv
<1>9. \A x \in DOMAIN byOriginal[s] : byOriginal[s][x] # ph
  BY <1>1, <1>2 DEF IInv, NumbersBelow, TypeOK
<1>10. PlaceholdersDistinct'
  BY <1>4, <1>5, <1>9 DEF IInv, PlaceholdersDistinct
<1>11. \A x \in DOMAIN byOriginal[s] : byOriginal[s][x] \in Placeholder
  BY <1>1 DEF IInv, TypeOK, IsBook
<1>12. NumbersBelow'
  <2> SUFFICES ASSUME NEW r \in Sessions, NEW x \in DOMAIN byOriginal'[r]
               PROVE  byOriginal'[r][x].n
                        \in 1..counters'[r][byOriginal'[r][x].label]
    BY DEF NumbersBelow
  <2>1. CASE r # s
    BY <2>1, <1>4 DEF IInv, NumbersBelow
  <2>2. CASE r = s /\ x = o
    BY <2>2, <1>2, <1>5, <1>6
  <2>3. CASE r = s /\ x # o
    <3>1. x \in DOMAIN byOriginal[s] /\ byOriginal'[s][x] = byOriginal[s][x]
      BY <2>3, <1>5
    <3>2. byOriginal[s][x].n \in 1..counters[s][byOriginal[s][x].label]
      BY <1>1, <3>1 DEF IInv, NumbersBelow
    <3>3. byOriginal[s][x].label \in Labels
      BY <3>1, <1>11 DEF Placeholder
    <3>4. counters[s][byOriginal[s][x].label] \in Nat
      BY <1>1, <3>3 DEF IInv, TypeOK
    <3> QED
      BY <2>3, <3>1, <3>2, <3>3, <3>4, <1>6
  <2> QED
    BY <2>1, <2>2, <2>3
<1>13. NumbersUsed'
  <2> SUFFICES ASSUME NEW r \in Sessions, NEW k \in Labels,
                      NEW m \in 1..counters'[r][k]
               PROVE  \E x \in DOMAIN byOriginal'[r] :
                        byOriginal'[r][x].label = k /\ byOriginal'[r][x].n = m
    BY DEF NumbersUsed
  <2>1. CASE r # s
    BY <2>1, <1>4 DEF IInv, NumbersUsed
  <2>2. CASE r = s /\ k = l /\ m = n
    BY <2>2, <1>5
  <2>3. CASE r = s /\ ~ (k = l /\ m = n)
    <3>1. m \in 1..counters[s][k]
      BY <2>3, <1>1, <1>2, <1>6 DEF IInv, TypeOK
    <3> QED
      BY <2>3, <3>1, <1>1, <1>5 DEF IInv, NumbersUsed
  <2> QED
    BY <2>1, <2>2, <2>3
<1> QED
  BY <1>7, <1>8, <1>10, <1>12, <1>13 DEF IInv

LEMMA NextIInv == IInv /\ [Next]_vars => IInv'
<1> SUFFICES ASSUME IInv, [Next]_vars PROVE IInv'
  OBVIOUS
<1>1. ASSUME NEW t \in Threads, BeginCall(t) \/ BeginRehydrate(t) PROVE IInv'
  BY <1>1, BeginStep
<1>2. ASSUME NEW t \in Threads, Acquire(t) PROVE IInv'
  BY <1>2, AcquireStep
<1>3. ASSUME NEW t \in Threads, RedactSpan(t) PROVE IInv'
  BY <1>3, MarkStep DEF RedactSpan
<1>4. ASSUME NEW t \in Threads, ReusePlaceholder(t) PROVE IInv'
  <2>1. call[t].session \in Sessions
    BY <1>4, NextSpanType DEF IInv, ReusePlaceholder
  <2>2. byOriginal[call[t].session][NextSpan(t).text] \in Placeholder
    BY <1>4, <2>1 DEF IInv, TypeOK, IsBook, ReusePlaceholder
  <2> QED
    BY <1>4, <2>2, MarkStep DEF ReusePlaceholder
<1>5. ASSUME NEW t \in Threads, NewPlaceholder(t) PROVE IInv'
  BY <1>5, NewPlaceholderStep
<1>6. ASSUME NEW t \in Threads, ReplaceSpans(t) \/ ReplacePanics(t) PROVE IInv'
  BY <1>6, ReleaseStep DEF ReplaceSpans, ReplacePanics, AllMarked, Inside
<1>7. ASSUME NEW t \in Threads, PlaceholderFor(t) \/ Rehydrate(t) PROVE IInv'
  BY <1>7, ReleaseStep DEF PlaceholderFor, Rehydrate, Inside
<1>8. CASE UNCHANGED vars
  BY <1>8, BooksUnchanged
     DEF IInv, TypeOK, IsBook, MutexInv, BookInv, vars
<1> QED
  BY <1>1, <1>2, <1>3, <1>4, <1>5, <1>6, <1>7, <1>8 DEF Next, Inner

THEOREM Invariance == Spec => []IInv
  BY InitIInv, NextIInv, PTL DEF Spec

-----------------------------------------------------------------------------
\* The types, for every instance (masker.rs keeps usize counters; here they
\* are natural numbers).
THEOREM TypeCorrect == Spec => []TypeOK
<1>1. IInv => TypeOK
  BY DEF IInv
<1> QED
  BY <1>1, Invariance, PTL

\* mask_text never gives two texts of a session one placeholder.
THEOREM DistinctPlaceholders == Spec => []PlaceholdersDistinct
<1>1. IInv => PlaceholdersDistinct
  BY DEF IInv
<1> QED
  BY <1>1, Invariance, PTL

\* The numbers under a label are those up to its counter.
THEOREM ExactCounters == Spec => []CountersExact
<1>1. IInv => CountersExact
  <2> SUFFICES ASSUME IInv, NEW s \in Sessions, NEW l \in Labels
               PROVE  {byOriginal[s][o].n :
                         o \in {x \in DOMAIN byOriginal[s] :
                                   byOriginal[s][x].label = l}}
                        = 1..counters[s][l]
    BY DEF CountersExact
  <2>1. \A o \in DOMAIN byOriginal[s] :
          byOriginal[s][o].label = l => byOriginal[s][o].n \in 1..counters[s][l]
    BY DEF IInv, NumbersBelow
  <2>2. \A n \in 1..counters[s][l] : \E o \in DOMAIN byOriginal[s] :
          byOriginal[s][o].label = l /\ byOriginal[s][o].n = n
    BY DEF IInv, NumbersUsed
  <2> QED
    BY <2>1, <2>2
<1> QED
  BY <1>1, Invariance, PTL

\* The second map has all the first has.
Kept(book, later) == \A o \in DOMAIN book : o \in DOMAIN later /\ later[o] = book[o]

LEMMA NextKept ==
    ASSUME IInv, [Next]_vars, NEW s \in Sessions
    PROVE  Kept(byOriginal[s], byOriginal'[s])
<1>1. ASSUME NEW t \in Threads, NewPlaceholder(t) PROVE Kept(byOriginal[s], byOriginal'[s])
  <2>1. call[t].session \in Sessions
    BY <1>1, NextSpanType DEF IInv, NewPlaceholder
  <2> QED
    BY <1>1, <2>1 DEF IInv, TypeOK, NewPlaceholder, With, Kept
<1>2. CASE UNCHANGED byOriginal
  BY <1>2 DEF Kept
<1> QED
  BY <1>1, <1>2 DEF Next, Inner, BeginCall, BeginRehydrate, Begin, Acquire, RedactSpan,
     ReusePlaceholder, ReplaceSpans, ReplacePanics, PlaceholderFor, Rehydrate, Release, vars

\* No step of any thread changes or removes a placeholder.
THEOREM StableAssignments == Spec => AssignmentsStable
<1>1. ASSUME IInv, [Next]_vars
      PROVE  \A s \in Sessions : \A o \in DOMAIN byOriginal[s] :
                /\ o \in DOMAIN byOriginal'[s]
                /\ byOriginal'[s][o] = byOriginal[s][o]
  BY <1>1, NextKept DEF Kept
<1> QED
  BY <1>1, Invariance, PTL DEF Spec, AssignmentsStable

-----------------------------------------------------------------------------
(* Masker implements PlaceholderBook: every operation of the three takes    *)
(* effect at once, when its thread gives the mutex back.                    *)

\* The texts of the first n spans that are masked.
MaskedUpTo(spans, n) ==
    {spans[i].text : i \in {j \in 1..n : spans[j].action = "mask"}}

\* How far the call of mask_text that holds the mutex has come: the session's
\* map is the one it found and the texts it has passed, and what it collected
\* is what the map says of them.
LoopInv ==
    \A t \in Threads : Inside(t, "mask") =>
        LET book == byOriginal[call[t].session]
        IN /\ Len(marked[t]) <= Len(Spans(t))
           /\ DOMAIN book = DOMAIN before \cup MaskedUpTo(Spans(t), Len(marked[t]))
           /\ \A o \in DOMAIN before : book[o] = before[o]
           /\ \A i \in 1..Len(marked[t]) :
                marked[t][i] = IF Spans(t)[i].action = "mask"
                               THEN book[Spans(t)[i].text] ELSE Redacted

\* The calls that only read find the map as it was when they took the mutex.
ReadInv ==
    \A t \in Threads :
        pc[t] = "locked" /\ call[t].op # "mask" =>
            byOriginal[call[t].session] = before

RetInv == ret = [t \in Threads |-> ret[t]]

RInv == IInv /\ LoopInv /\ ReadInv /\ RetInv

-----------------------------------------------------------------------------
LEMMA SpansType ==
    ASSUME TypeOK, NEW t \in Threads, Inside(t, "mask")
    PROVE  /\ call[t].session \in Sessions
           /\ call[t].input \in Inputs
           /\ Spans(t) \in Seq(Span)
           /\ marked[t] \in Seq(Placeholder \cup {Redacted})
<1>1. call[t] \in [op : {"mask"}, session : Sessions, input : Inputs]
  BY DEF TypeOK, IsCall, Calls, Inside
<1>2. call[t].input.spans \in Seq(Span)
  BY <1>1, InputsAssumption DEF InputType
<1> QED
  BY <1>1, <1>2 DEF Spans, TypeOK

LEMMA InitRInv == Init => RInv
BY InitIInv DEF Init, RInv, LoopInv, ReadInv, RetInv, Inside

\* A step of another thread, or of this one before it holds the mutex, leaves
\* what the invariant speaks about alone.
LEMMA MarkLoop ==
    ASSUME RInv, NEW t \in Threads, NEW atom, MoreSpans(t), Mark(t, atom),
           TypeOK',
           UNCHANGED <<holder, pc, call, ret, before>>,
           NextSpan(t).action = "redact" =>
               atom = Redacted /\ UNCHANGED byOriginal,
           NextSpan(t).action = "mask" =>
               /\ DOMAIN byOriginal'[call[t].session]
                    = DOMAIN byOriginal[call[t].session] \cup {NextSpan(t).text}
               /\ byOriginal'[call[t].session][NextSpan(t).text] = atom,
           \A o \in DOMAIN byOriginal[call[t].session] :
               byOriginal'[call[t].session][o] = byOriginal[call[t].session][o]
    PROVE  LoopInv' /\ ReadInv' /\ RetInv'
<1> DEFINE s == call[t].session
           m == Len(marked[t])
<1>1. Inside(t, "mask") /\ pc[t] = "locked" /\ holder = t /\ m < Len(Spans(t))
  BY DEF MoreSpans, Inside, RInv, IInv, MutexInv
<1>2. /\ s \in Sessions
      /\ Spans(t) \in Seq(Span)
      /\ marked[t] \in Seq(Placeholder \cup {Redacted})
  BY <1>1, SpansType DEF RInv, IInv
<1>3. m \in Nat /\ Len(Spans(t)) \in Nat
  BY <1>2
<1>4. marked' = [marked EXCEPT ![t] = Append(marked[t], atom)] /\ t \in DOMAIN marked
  BY DEF Mark, RInv, IInv, TypeOK
<1>5. /\ Len(marked'[t]) = m + 1
      /\ marked'[t][m + 1] = atom
      /\ \A i \in 1..m : marked'[t][i] = marked[t][i]
  BY <1>2, <1>3, <1>4
<1>6. Spans(t)' = Spans(t)
  BY DEF Spans
<1>7. NextSpan(t) = Spans(t)[m + 1] /\ NextSpan(t) \in Span
  BY NextSpanType DEF NextSpan, RInv, IInv
<1>8. \A u \in Threads : u # t => pc'[u] # "locked"
  BY <1>1 DEF RInv, IInv, MutexInv
<1>9. LoopInv'
  <2>1. m + 1 <= Len(Spans(t))
    BY <1>1, <1>3
  <2>2. /\ DOMAIN byOriginal[s] = DOMAIN before \cup MaskedUpTo(Spans(t), m)
        /\ \A o \in DOMAIN before : byOriginal[s][o] = before[o]
        /\ \A i \in 1..m :
             marked[t][i] = IF Spans(t)[i].action = "mask"
                            THEN byOriginal[s][Spans(t)[i].text] ELSE Redacted
    BY <1>1 DEF RInv, LoopInv
  <2>3. DOMAIN byOriginal'[s] = DOMAIN before \cup MaskedUpTo(Spans(t), m + 1)
    <3>1. MaskedUpTo(Spans(t), m + 1) =
            IF NextSpan(t).action = "mask"
            THEN MaskedUpTo(Spans(t), m) \cup {NextSpan(t).text} ELSE MaskedUpTo(Spans(t), m)
      BY <1>3, <1>6, <1>7 DEF MaskedUpTo
    <3>2. CASE NextSpan(t).action = "mask"
      BY <2>2, <3>1, <3>2
    <3>3. CASE NextSpan(t).action # "mask"
      BY <1>7, <2>2, <3>1, <3>3 DEF Span
    <3> QED
      BY <3>2, <3>3
  <2>4. \A o \in DOMAIN before : byOriginal'[s][o] = before[o]
    BY <2>2
  <2>5. ASSUME NEW i \in 1..m + 1
        PROVE  marked'[t][i] = IF Spans(t)[i].action = "mask"
                               THEN byOriginal'[s][Spans(t)[i].text] ELSE Redacted
    <3>1. CASE i \in 1..m
      <4>1. Spans(t)[i].action = "mask" => Spans(t)[i].text \in DOMAIN byOriginal[s]
        BY <2>2, <3>1 DEF MaskedUpTo
      <4> QED
        BY <1>5, <2>2, <3>1, <4>1
    <3>2. CASE i = m + 1
      BY <1>5, <1>7, <3>2 DEF Span
    <3> QED
      BY <1>3, <3>1, <3>2
  <2>6. ASSUME NEW u \in Threads, Inside(u, "mask")' PROVE u = t
    BY <1>8, <2>6 DEF Inside
  <2>7. /\ Len(marked'[t]) <= Len(Spans(t)')
        /\ DOMAIN byOriginal'[call'[t].session]
             = DOMAIN before' \cup MaskedUpTo(Spans(t)', Len(marked'[t]))
        /\ \A o \in DOMAIN before' : byOriginal'[call'[t].session][o] = before'[o]
        /\ \A i \in 1..Len(marked'[t]) :
             marked'[t][i] = IF Spans(t)'[i].action = "mask"
                             THEN byOriginal'[call'[t].session][Spans(t)'[i].text]
                             ELSE Redacted
    BY <1>5, <1>6, <2>1, <2>3, <2>4, <2>5
  <2> QED
    BY <2>6, <2>7 DEF LoopInv
<1>10. ReadInv'
  BY <1>1, <1>8 DEF ReadInv, Inside
<1>11. RetInv'
  BY DEF RInv, RetInv
<1> QED
  BY <1>9, <1>10, <1>11

LEMMA NextRInv == RInv /\ [Next]_vars => RInv'
<1> SUFFICES ASSUME RInv, [Next]_vars PROVE RInv'
  OBVIOUS
<1> USE DEF RInv
<1>0. IInv'
  BY NextIInv
<1>a. TypeOK /\ TypeOK' /\ MutexInv /\ MutexInv'
  BY <1>0 DEF IInv
<1>1. ASSUME NEW t \in Threads, BeginCall(t) \/ BeginRehydrate(t) PROVE RInv'
  <2>1. PICK c : Begin(t, c)
    BY <1>1 DEF BeginCall, BeginRehydrate
  <2>2. \A u \in Threads : pc'[u] = "locked" =>
            u # t /\ pc[u] = "locked" /\ call'[u] = call[u]
    BY <2>1, <1>a DEF Begin, TypeOK
  <2>3. LoopInv'
    BY <2>1, <2>2 DEF LoopInv, Inside, Spans, Begin
  <2>4. ReadInv' /\ RetInv'
    BY <2>1, <2>2 DEF ReadInv, RetInv, Begin
  <2> QED
    BY <1>0, <2>3, <2>4
<1>2. ASSUME NEW t \in Threads, Acquire(t) PROVE RInv'
  <2>1. \A u \in Threads : pc'[u] = "locked" => u = t
    BY <1>2, <1>a DEF Acquire, MutexInv, TypeOK
  <2>2. /\ before' = byOriginal[call[t].session]
        /\ marked'[t] = <<>>
        /\ UNCHANGED <<byOriginal, call, ret>>
    BY <1>2, <1>a DEF Acquire, TypeOK
  <2>3. LoopInv'
    <3>1. MaskedUpTo(Spans(t)', 0) = {}
      BY DEF MaskedUpTo
    <3>2. SUFFICES ASSUME Inside(t, "mask")'
                   PROVE  0 <= Len(Spans(t))
      BY <2>1, <2>2, <3>1 DEF LoopInv, Inside, Spans
    <3>3. call[t] \in [op : {"mask"}, session : Sessions, input : Inputs]
      BY <3>2, <2>2, <1>a DEF TypeOK, IsCall, Calls, Inside
    <3> QED
      BY <3>3, InputsAssumption DEF InputType, Spans
  <2>4. ReadInv' /\ RetInv'
    BY <2>1, <2>2 DEF ReadInv, RetInv
  <2> QED
    BY <1>0, <2>3, <2>4
<1>3. ASSUME NEW t \in Threads, RedactSpan(t) PROVE RInv'
  BY <1>0, <1>3, <1>a, MarkLoop DEF RedactSpan
<1>4. ASSUME NEW t \in Threads, ReusePlaceholder(t) PROVE RInv'
  BY <1>0, <1>4, <1>a, MarkLoop, SMTT(30) DEF ReusePlaceholder
<1>5. ASSUME NEW t \in Threads, NewPlaceholder(t) PROVE RInv'
  <2>1. call[t].session \in Sessions
    BY <1>5, <1>a, NextSpanType DEF NewPlaceholder
  <2> QED
    BY <1>0, <1>5, <1>a, <2>1, MarkLoop DEF NewPlaceholder, With, TypeOK
<1>6. ASSUME NEW t \in Threads, NEW result, Release(t, result), pc[t] = "locked"
      PROVE RInv'
  <2>1. \A u \in Threads : pc'[u] # "locked"
    BY <1>6, <1>a, NoThreadAssumption DEF Release, MutexInv, TypeOK
  <2>2. RetInv'
    BY <1>6 DEF RetInv, Release
  <2> QED
    BY <1>0, <2>1, <2>2 DEF LoopInv, ReadInv, Inside
<1>7. ASSUME NEW t \in Threads,
             \/ ReplaceSpans(t) \/ ReplacePanics(t)
             \/ PlaceholderFor(t) \/ Rehydrate(t)
      PROVE RInv'
  BY <1>6, <1>7 DEF ReplaceSpans, ReplacePanics, AllMarked, PlaceholderFor,
     Rehydrate, Inside
<1>8. CASE UNCHANGED vars
  BY <1>0, <1>8 DEF vars, LoopInv, ReadInv, RetInv, Inside, Spans, MaskedUpTo
<1> QED
  BY <1>1, <1>2, <1>3, <1>4, <1>5, <1>7, <1>8 DEF Next, Inner

-----------------------------------------------------------------------------
LEMMA InitBook == Init => Atomic!Init
BY NoThreadAssumption DEF Init, Atomic!Init, SeenBook, NoBook, NoResult, Atomic!NoAnswer

\* While a thread marks its spans nobody sees the session's map change.
LEMMA HiddenStep ==
    ASSUME RInv, NEW t \in Threads, pc[t] = "locked",
           UNCHANGED <<holder, call, ret, before>>,
           \A s \in Sessions : s # call[t].session => byOriginal'[s] = byOriginal[s]
    PROVE  UNCHANGED <<SeenBook, ret>>
BY NoThreadAssumption DEF RInv, IInv, MutexInv, SeenBook

\* Giving the mutex back shows what the call did.
LEMMA ShownStep ==
    ASSUME RInv, NEW t \in Threads, pc[t] = "locked", NEW result, Release(t, result)
    PROVE  /\ holder = t
           /\ SeenBook[call[t].session] = before
           /\ SeenBook' = [SeenBook EXCEPT ![call[t].session] =
                             byOriginal[call[t].session]]
           /\ SeenBook'[call[t].session] = byOriginal[call[t].session]
           /\ ret' = [ret EXCEPT ![t] = result]
           /\ ret'[t] = result
<1>1. holder = t /\ call[t].session \in Sessions /\ t # NoThread
  BY CallSession, NoThreadAssumption DEF RInv, IInv, MutexInv
<1>2. SeenBook[call[t].session] = before
  BY <1>1 DEF SeenBook
<1>3. SeenBook' = byOriginal'
  BY DEF SeenBook, Release, RInv, IInv, TypeOK
<1>4. SeenBook' = [SeenBook EXCEPT ![call[t].session] = byOriginal[call[t].session]]
  BY <1>1, <1>3 DEF SeenBook, Release, RInv, IInv, TypeOK
<1>5. ret' = [ret EXCEPT ![t] = result] /\ ret'[t] = result
  BY DEF Release, RInv, RetInv
<1> QED
  BY <1>1, <1>2, <1>3, <1>4, <1>5 DEF Release

\* A call of mask_text that has passed all its spans has grown the book.
LEMMA GrownBook ==
    ASSUME RInv, NEW t \in Threads, AllMarked(t),
           NEW result, Release(t, result)
    PROVE  Atomic!Grow(call[t].session, SeenBook'[call[t].session], call[t].input)
<1> DEFINE s == call[t].session
           b == byOriginal[s]
<1>1. pc[t] = "locked" /\ Inside(t, "mask") /\ Len(marked[t]) = Len(Spans(t))
  BY DEF AllMarked, Inside
<1>2. /\ s \in Sessions
      /\ Spans(t) \in Seq(Span)
  BY <1>1, SpansType DEF RInv, IInv
<1>3. /\ SeenBook[s] = before
      /\ SeenBook'[s] = b
      /\ SeenBook' = [SeenBook EXCEPT ![s] = b]
  BY <1>1, ShownStep
<1>4. MaskedUpTo(Spans(t), Len(marked[t])) = Atomic!ToMask(call[t].input)
  BY <1>1, <1>2 DEF MaskedUpTo, Atomic!ToMask, Spans
<1>5. /\ DOMAIN b = DOMAIN before \cup Atomic!ToMask(call[t].input)
      /\ \A o \in DOMAIN before : b[o] = before[o]
  BY <1>1, <1>4 DEF RInv, LoopInv
<1>6. \A o \in DOMAIN b : b[o] \in Placeholder
  BY <1>2 DEF RInv, IInv, TypeOK, IsBook
<1>7. Atomic!OneToOne(b)
  BY <1>2 DEF RInv, IInv, PlaceholdersDistinct, Atomic!OneToOne
<1> QED
  BY <1>3, <1>5, <1>6, <1>7 DEF Atomic!Grow

LEMMA NextBook == RInv /\ [Next]_vars => [Atomic!Next]_(Atomic!vars)
<1> SUFFICES ASSUME RInv, [Next]_vars
             PROVE  Atomic!Next \/ UNCHANGED <<SeenBook, ret>>
  BY DEF Atomic!vars
<1>1. ASSUME NEW t \in Threads, BeginCall(t) \/ BeginRehydrate(t)
      PROVE  UNCHANGED <<SeenBook, ret>>
  <2>1. PICK c : Begin(t, c)
    BY <1>1 DEF BeginCall, BeginRehydrate
  <2>2. holder # NoThread => call'[holder] = call[holder]
    BY <2>1 DEF Begin, RInv, IInv, TypeOK, MutexInv
  <2> QED
    BY <2>1, <2>2 DEF Begin, SeenBook
<1>2. ASSUME NEW t \in Threads, Acquire(t)
      PROVE  UNCHANGED <<SeenBook, ret>>
  <2>1. holder = NoThread /\ holder' = t /\ t # NoThread
    BY <1>2, NoThreadAssumption DEF Acquire
  <2>2. UNCHANGED <<byOriginal, call, ret>> /\ before' = byOriginal[call[t].session]
    BY <1>2 DEF Acquire
  <2> QED
    BY <2>1, <2>2 DEF SeenBook
<1>3. ASSUME NEW t \in Threads, RedactSpan(t) \/ ReusePlaceholder(t)
      PROVE  UNCHANGED <<SeenBook, ret>>
  BY <1>3, HiddenStep DEF RedactSpan, ReusePlaceholder, MoreSpans, Inside
<1>4. ASSUME NEW t \in Threads, NewPlaceholder(t)
      PROVE  UNCHANGED <<SeenBook, ret>>
  BY <1>4, HiddenStep DEF NewPlaceholder, MoreSpans, Inside, RInv, IInv, TypeOK
<1>5. ASSUME NEW t \in Threads, ReplaceSpans(t)
      PROVE  Atomic!Next
  <2> DEFINE s == call[t].session
             input == call[t].input
             pieces == [i \in DOMAIN marked[t] |-> <<marked[t][i]>>]
             result == [op |-> "mask", session |-> s, input |-> input,
                        out |-> Fill(input.gaps, pieces)]
  <2>1. AllMarked(t) /\ pc[t] = "locked" /\ Release(t, result)
    BY <1>5 DEF ReplaceSpans, AllMarked, Inside
  <2>2. s \in Sessions /\ input \in Inputs /\ Spans(t) \in Seq(Span)
        /\ marked[t] \in Seq(Placeholder \cup {Redacted})
    BY <2>1, SpansType DEF RInv, IInv, AllMarked
  <2>3. SeenBook'[s] = byOriginal[s] /\ ret' = [ret EXCEPT ![t] = result]
    BY <2>1, ShownStep
  <2>4. pieces = [i \in DOMAIN input.spans |->
                    IF input.spans[i].action = "mask"
                    THEN <<byOriginal[s][input.spans[i].text]>> ELSE <<Redacted>>]
    <3>1. DOMAIN marked[t] = 1..Len(marked[t]) /\ DOMAIN marked[t] = DOMAIN input.spans
      BY <2>1, <2>2 DEF AllMarked, Spans
    <3>2. \A i \in 1..Len(marked[t]) :
            marked[t][i] = IF input.spans[i].action = "mask"
                           THEN byOriginal[s][input.spans[i].text] ELSE Redacted
      BY <2>1, SMTT(30) DEF RInv, LoopInv, AllMarked, Spans
    <3> QED
      BY <3>1, <3>2
  <2>5. Fill(input.gaps, pieces) = Atomic!Masked(SeenBook'[s], input)
    BY <2>3, <2>4 DEF Atomic!Masked
  <2>6. Atomic!MaskText(t, s, input)
    BY <2>1, <2>3, <2>5, GrownBook DEF Atomic!MaskText
  <2> QED
    BY <2>2, <2>6 DEF Atomic!Next
<1>6. ASSUME NEW t \in Threads, ReplacePanics(t)
      PROVE  Atomic!Next
  <2>1. AllMarked(t) /\ pc[t] = "locked" /\ Release(t, NoResult)
    BY <1>6 DEF ReplacePanics, AllMarked, Inside
  <2>2. call[t].session \in Sessions /\ call[t].input \in Inputs
    BY <2>1, SpansType DEF RInv, IInv, AllMarked
  <2>3. Atomic!MaskFails(t, call[t].session, call[t].input)
    BY <2>1, GrownBook, ShownStep DEF Atomic!MaskFails, NoResult, Atomic!NoAnswer
  <2> QED
    BY <2>2, <2>3 DEF Atomic!Next
<1>7. ASSUME NEW t \in Threads, PlaceholderFor(t)
      PROVE  Atomic!Next
  <2> DEFINE s == call[t].session
             o == call[t].original
             book == byOriginal[s]
             result == [op |-> "lookup", session |-> s, original |-> o,
                        found |-> IF o \in DOMAIN book THEN {book[o]} ELSE {}]
  <2>1. /\ pc[t] = "locked" /\ call[t].op = "lookup"
        /\ Release(t, result)
    BY <1>7 DEF PlaceholderFor, Inside
  <2>2. s \in Sessions /\ o \in Texts
    BY <2>1 DEF RInv, IInv, TypeOK, IsCall, Calls
  <2>3. SeenBook[s] = book /\ SeenBook' = SeenBook
    BY <2>1, <2>2, ShownStep, ZenonT(60) DEF RInv, ReadInv, SeenBook
  <2>4. result.found = {SeenBook[s][x] : x \in DOMAIN SeenBook[s] \cap {o}}
    BY <2>3
  <2>5. Atomic!Lookup(t, s, o)
    BY <2>1, <2>3, <2>4, ShownStep DEF Atomic!Lookup
  <2> QED
    BY <2>2, <2>5 DEF Atomic!Next
<1>8. ASSUME NEW t \in Threads, Rehydrate(t)
      PROVE  Atomic!Next
  <2> DEFINE s == call[t].session
  <2>1. PICK text \in Rehydrations(byOriginal[s], call[t].text) :
            /\ pc[t] = "locked" /\ call[t].op = "rehydrate"
            /\ Release(t, [op |-> "rehydrate", session |-> s,
                           text |-> call[t].text, out |-> text])
    BY <1>8 DEF Rehydrate, Inside
  <2>2. s \in Sessions
    BY <2>1, CallSession DEF RInv, IInv
  <2>3. SeenBook[s] = byOriginal[s] /\ SeenBook' = SeenBook
    BY <2>1, <2>2, ShownStep, ZenonT(60) DEF RInv, ReadInv, SeenBook
  <2>4. Atomic!Rehydrate(t, s)
    BY <2>1, <2>3, ShownStep DEF Atomic!Rehydrate
  <2> QED
    BY <2>2, <2>4 DEF Atomic!Next
<1>9. CASE UNCHANGED vars
  BY <1>9 DEF vars, SeenBook
<1> QED
  BY <1>1, <1>2, <1>3, <1>4, <1>5, <1>6, <1>7, <1>8, <1>9 DEF Next, Inner

\* Masker, with its mutex and its loop over the spans, implements the book
\* whose operations are atomic.
THEOREM MaskerImplementsBook == Spec => ImplementsBook
<1>1. RInv /\ [Next]_vars => RInv' /\ [Atomic!Next]_(Atomic!vars)
  BY NextRInv, NextBook
<1> QED
  BY <1>1, InitRInv, InitBook, PTL DEF Spec, ImplementsBook, Atomic!Spec

-----------------------------------------------------------------------------
(* What is masked reads back                                               *)

Atoms == Words \cup {Redacted} \cup Placeholder

FiniteBooks == \A s \in Sessions : IsFiniteSet(DOMAIN byOriginal[s])

\* What the spans of a text are replaced by.
Pieces(book, spans) ==
    [i \in DOMAIN spans |-> IF spans[i].action = "mask" THEN <<book[spans[i].text]>>
                                                        ELSE <<Redacted>>]

\* What a text was masked to is what the session's map would mask it to now.
MaskedAs(book, result) ==
    /\ result.input \in Inputs
    /\ \A i \in DOMAIN result.input.spans :
          result.input.spans[i].action = "mask"
            => result.input.spans[i].text \in DOMAIN book
    /\ result.out = Fill(result.input.gaps, Pieces(book, result.input.spans))

MaskedInv ==
    \A t \in Threads :
        ret[t].op = "mask" =>
            /\ ret[t].session \in Sessions
            /\ MaskedAs(byOriginal[ret[t].session], ret[t])

TInv == RInv /\ FiniteBooks /\ MaskedInv

LEMMA BookIsGood ==
    ASSUME IInv, FiniteBooks, NEW s \in Sessions
    PROVE  GoodBook(byOriginal[s], Words, Placeholder)
<1>1. DOMAIN byOriginal[s] \subseteq Seq(Words)
  BY TextsAssumption DEF IInv, TypeOK, IsBook
<1>2. \A o \in DOMAIN byOriginal[s] : byOriginal[s][o] \in Placeholder
  BY DEF IInv, TypeOK, IsBook
<1> QED
  BY <1>1, <1>2, WordsAssumption DEF IInv, FiniteBooks, PlaceholdersDistinct, GoodBook

\* A function on 1..n with values in S is a sequence.
LEMMA IsSeq ==
    ASSUME NEW S, NEW n \in Nat, NEW f, f = [i \in 1..n |-> f[i]], \A i \in 1..n : f[i] \in S
    PROVE  f \in Seq(S)
  OBVIOUS

Keeps(h, gaps) == \A i \in DOMAIN gaps : Spread(h, gaps[i]) = gaps[i]
Turns(h, pieces, back) ==
    /\ DOMAIN back = DOMAIN pieces
    /\ \A i \in DOMAIN pieces : Spread(h, pieces[i]) = back[i]

\* The pieces, each with the gap that follows it.
Parts(gaps, pieces) == [i \in DOMAIN pieces |-> pieces[i] \o gaps[i + 1]]

LEMMA PartsType ==
    ASSUME NEW A, NEW gaps \in Seq(Seq(A)), NEW pieces \in Seq(Seq(A)),
           Len(gaps) = Len(pieces) + 1
    PROVE  Parts(gaps, pieces) \in Seq(Seq(A))
<1> DEFINE n == Len(pieces)
           f == Parts(gaps, pieces)
<1>1. n \in Nat /\ DOMAIN pieces = 1..n
  BY LenProperties
<1>2. DOMAIN gaps = 1..n + 1
  BY LenProperties
<1> HIDE DEF n
<1>3. ASSUME NEW i \in 1..n PROVE pieces[i] \o gaps[i + 1] \in Seq(A)
  <2>1. pieces[i] \in Seq(A)
    BY <1>1, ElementOfSeq
  <2>2. gaps[i + 1] \in Seq(A)
    BY <1>1, <1>2, ElementOfSeq
  <2> QED
    BY <2>1, <2>2, ConcatProperties
<1>4. f = [i \in 1..n |-> f[i]] /\ \A i \in 1..n : f[i] \in Seq(A)
  BY <1>1, <1>3 DEF Parts
<1> HIDE DEF f
<1>5. f \in Seq(Seq(A))
  BY <1>1, <1>4, IsSeq
<1> QED
  BY <1>5 DEF f

LEMMA FillType ==
    ASSUME NEW A, NEW gaps \in Seq(Seq(A)), NEW pieces \in Seq(Seq(A)),
           Len(gaps) = Len(pieces) + 1
    PROVE  Fill(gaps, pieces) \in Seq(A)
<1>1. FlattenSeq(Parts(gaps, pieces)) \in Seq(A)
  BY PartsType, FlattenType
<1>2. 1 \in DOMAIN gaps
  BY LenProperties
<1>3. gaps[1] \in Seq(A)
  BY <1>2, ElementOfSeq
<1>4. gaps[1] \o FlattenSeq(Parts(gaps, pieces)) \in Seq(A)
  BY <1>1, <1>3, ConcatProperties
<1> QED
  BY <1>4 DEF Fill, Parts

\* What a text whose gaps and pieces are given one by one turns into.
LEMMA SpreadFill ==
    ASSUME NEW A, NEW h, Puts(h, A, A), NEW gaps \in Seq(Seq(A)), NEW pieces \in Seq(Seq(A)),
           NEW back, Len(gaps) = Len(pieces) + 1, Keeps(h, gaps), Turns(h, pieces, back)
    PROVE  Spread(h, Fill(gaps, pieces)) = Fill(gaps, back)
<1> DEFINE parts == Parts(gaps, pieces)
<1>c. ASSUME NEW s \in Seq(A), NEW t \in Seq(A)
      PROVE  Spread(h, s \o t) = Spread(h, s) \o Spread(h, t)
  BY SpreadConcat, SMTT(30)
<1>1. parts \in Seq(Seq(A))
  BY PartsType
<1>2. DOMAIN parts = DOMAIN pieces /\ \A i \in DOMAIN pieces : parts[i] = pieces[i] \o gaps[i + 1]
  BY DEF Parts
<1> HIDE DEF parts
<1>3. ASSUME NEW i \in DOMAIN pieces PROVE Spread(h, parts[i]) = back[i] \o gaps[i + 1]
  <2>1. i + 1 \in DOMAIN gaps
    BY LenProperties
  <2>2. gaps[i + 1] \in Seq(A)
    BY <2>1, ElementOfSeq
  <2>3. pieces[i] \in Seq(A)
    BY ElementOfSeq, LenProperties
  <2>4. Spread(h, pieces[i] \o gaps[i + 1]) = Spread(h, pieces[i]) \o Spread(h, gaps[i + 1])
    BY <2>2, <2>3, <1>c, Zenon
  <2> QED
    BY <1>2, <2>1, <2>4 DEF Keeps, Turns
<1>4. EachSpread(h, parts) = Parts(gaps, back)
  BY <1>2, <1>3 DEF EachSpread, Parts, Turns
<1>5. Spread(h, FlattenSeq(parts)) = FlattenSeq(Parts(gaps, back))
  BY <1>1, <1>4, SpreadFlatten
<1>6. FlattenSeq(parts) \in Seq(A)
  BY <1>1, FlattenType
<1>7. 1 \in DOMAIN gaps
  BY LenProperties
<1>8. gaps[1] \in Seq(A)
  BY <1>7, ElementOfSeq
<1>9. Spread(h, gaps[1] \o FlattenSeq(parts)) = Spread(h, gaps[1]) \o Spread(h, FlattenSeq(parts))
  BY <1>6, <1>8, <1>c, Zenon
<1>10. Spread(h, gaps[1] \o FlattenSeq(parts)) = gaps[1] \o FlattenSeq(Parts(gaps, back))
  BY <1>5, <1>7, <1>9 DEF Keeps
<1> QED
  BY <1>10 DEF Fill, Parts, parts

\* rehydrate gives one text, whatever the order it takes the pairs in.
LEMMA RehydratesTo ==
    ASSUME NEW book, GoodBook(book, Words, Placeholder), NEW text \in Seq(Atoms)
    PROVE  Rehydrations(book, text) = {Spread(Back(book, DOMAIN book, Atoms), text)}
<1> DEFINE width == [o \in DOMAIN book |-> Width(book[o])]
<1>1. ASSUME NEW ph \in Placeholder PROVE Width(ph) \in Nat
  <2> DEFINE T == {d \in 1..ph.n : 10^(d - 1) <= ph.n}
  <2>1. ph.label \in Labels /\ ph.n \in Nat
    BY DEF Placeholder
  <2>2. LabelWidth[ph.label] \in Nat
    BY <2>1, WidthAssumption
  <2>3. T \in SUBSET (1..ph.n)
    OBVIOUS
  <2> HIDE DEF T
  <2>4. Cardinality(T) \in Nat
    BY <2>1, <2>3, CountType
  <2>5. Digits(ph.n) \in Nat
    BY <2>4 DEF Digits, T
  <2> QED
    BY <2>2, <2>5 DEF Width
<1>2. \A o \in DOMAIN book : width[o] \in Nat
  BY <1>1 DEF GoodBook
<1> HIDE DEF width
<1>3. Words \subseteq Atoms /\ Placeholder \subseteq Atoms
  BY DEF Atoms
<1>4. RehydrationsBy(width, book, text) = {Spread(Back(book, DOMAIN book, Atoms), text)}
  BY <1>2, <1>3, RehydrationsAre
<1> QED
  BY <1>4 DEF Rehydrations, width

\* What a text is masked to is rehydrated to what its user reads back: a span's
\* text is what its detector made of the slice.
LEMMA ReadsBack ==
    ASSUME NEW book, GoodBook(book, Words, Placeholder), NEW result, MaskedAs(book, result)
    PROVE  Rehydrations(book, result.out) = {Readable(result.input)}
<1> DEFINE gaps == result.input.gaps
           spans == result.input.spans
           pieces == Pieces(book, spans)
           back == [i \in DOMAIN spans |-> IF spans[i].action = "mask" THEN spans[i].text
                                                                      ELSE <<Redacted>>]
           h == Back(book, DOMAIN book, Atoms)
<1>1. /\ gaps \in Seq(Seq(Words)) /\ spans \in Seq(Span) /\ Len(gaps) = Len(spans) + 1
      /\ result.out = Fill(gaps, pieces)
      /\ \A i \in DOMAIN spans : spans[i].action = "mask" => spans[i].text \in DOMAIN book
  BY InputsAssumption DEF MaskedAs, InputType
<1>2. Words \subseteq Atoms /\ Placeholder \subseteq Atoms /\ Redacted \in Atoms
  BY DEF Atoms
<1>3. Puts(h, Atoms, Atoms)
  BY <1>2, BackPuts
<1>4. \A o \in DOMAIN book : book[o] \in Placeholder
  BY DEF GoodBook
<1>5. \A i \in DOMAIN spans : /\ spans[i].text \in Seq(Words)
                             /\ spans[i].text = DetectedText(spans[i])
  <2>1. \A i \in DOMAIN spans : spans[i] \in Span
    BY <1>1, LenProperties, ElementOfSeq
  <2> QED
    BY <2>1, TextsAssumption DEF Span
<1>6. \A i \in DOMAIN spans : spans[i].text \in Seq(Atoms)
  BY <1>2, <1>5, SeqMonotonic
<1>7. ASSUME NEW t \in Seq(Words) PROVE Spread(h, t) = t
  <2>1. ASSUME NEW w \in Words PROVE h[w] = <<w>>
    <3>1. w \in Atoms /\ ~ \E o \in DOMAIN book : book[o] = w
      BY <1>2, <1>4, WordsAssumption
    <3> QED
      BY <3>1, BackOfOther
  <2> HIDE DEF h
  <2> QED
    BY <2>1, SpreadNothing
<1>8. gaps \in Seq(Seq(Atoms)) /\ \A i \in DOMAIN gaps : Spread(h, gaps[i]) = gaps[i]
  <2>1. Seq(Words) \subseteq Seq(Atoms)
    BY <1>2, SeqMonotonic
  <2>2. gaps \in Seq(Seq(Atoms))
    BY <1>1, <2>1, SeqMonotonic
  <2>3. \A i \in DOMAIN gaps : gaps[i] \in Seq(Words)
    BY <1>1, LenProperties, ElementOfSeq
  <2> QED
    BY <1>7, <2>2, <2>3
<1>9. PICK n \in Nat : DOMAIN spans = 1..n /\ Len(spans) = n
  BY <1>1, LenProperties
<1>10. ASSUME NEW i \in DOMAIN spans
       PROVE  /\ pieces[i] \in Seq(Atoms)
              /\ back[i] \in Seq(Atoms)
              /\ Spread(h, pieces[i]) = back[i]
  <2>1. CASE spans[i].action = "mask"
    <3>1. pieces[i] = <<book[spans[i].text]>> /\ back[i] = spans[i].text
      BY <2>1 DEF Pieces
    <3>2. spans[i].text \in DOMAIN book /\ book[spans[i].text] \in Atoms
      BY <1>1, <1>2, <1>4, <2>1
    <3>3. h[book[spans[i].text]] = spans[i].text
      BY <3>2, BackOfPlaceholder
    <3>4. Spread(h, <<book[spans[i].text]>>) = h[book[spans[i].text]]
      BY <1>3, <3>2, SpreadOne
    <3>5. <<book[spans[i].text]>> \in Seq(Atoms)
      BY <3>2
    <3> QED
      BY <1>6, <3>1, <3>3, <3>4, <3>5
  <2>2. CASE spans[i].action # "mask"
    <3>1. pieces[i] = <<Redacted>> /\ back[i] = <<Redacted>>
      BY <2>2 DEF Pieces
    <3>2. ~ \E o \in DOMAIN book : book[o] = Redacted
      BY <1>4, RedactedAssumption
    <3>3. h[Redacted] = <<Redacted>>
      BY <1>2, <3>2, BackOfOther
    <3>4. Spread(h, <<Redacted>>) = h[Redacted]
      BY <1>2, <1>3, SpreadOne
    <3>5. <<Redacted>> \in Seq(Atoms)
      BY <1>2
    <3> QED
      BY <3>1, <3>3, <3>4, <3>5
  <2> QED
    BY <2>1, <2>2
<1>11. /\ pieces \in Seq(Seq(Atoms)) /\ Len(pieces) = n /\ DOMAIN pieces = DOMAIN spans
       /\ back \in Seq(Seq(Atoms)) /\ Len(back) = n
  <2>1. DOMAIN pieces = 1..n /\ pieces = [i \in 1..n |-> pieces[i]]
    BY <1>9 DEF Pieces
  <2>2. DOMAIN back = 1..n /\ back = [i \in 1..n |-> back[i]]
    BY <1>9
  <2> HIDE DEF pieces, back
  <2>3. \A i \in 1..n : pieces[i] \in Seq(Atoms)
    BY <1>9, <1>10
  <2>4. \A i \in 1..n : back[i] \in Seq(Atoms)
    BY <1>9, <1>10
  <2>5. pieces \in Seq(Seq(Atoms))
    BY <2>1, <2>3, IsSeq
  <2>6. back \in Seq(Seq(Atoms))
    BY <2>2, <2>4, IsSeq
  <2> QED
    BY <1>9, <2>1, <2>2, <2>5, <2>6, LenProperties
<1>12. Readable(result.input) = Fill(gaps, back)
  BY <1>5 DEF Readable
<1> HIDE DEF pieces, back, h, spans, gaps
<1>13. Spread(h, Fill(gaps, pieces)) = Fill(gaps, back)
  <2>1. Keeps(h, gaps) /\ Len(gaps) = Len(pieces) + 1
    BY <1>1, <1>8, <1>9, <1>11 DEF Keeps
  <2>2. DOMAIN back = DOMAIN pieces
    BY <1>9, <1>11, LenProperties
  <2>3. Turns(h, pieces, back)
    BY <1>10, <1>11, <2>2 DEF Turns
  <2> QED
    BY <1>3, <1>8, <1>11, <2>1, <2>3, SpreadFill
<1>14. Fill(gaps, pieces) \in Seq(Atoms)
  BY <1>1, <1>8, <1>9, <1>11, FillType
<1>15. Rehydrations(book, Fill(gaps, pieces))
         = {Spread(Back(book, DOMAIN book, Atoms), Fill(gaps, pieces))}
  BY <1>14, RehydratesTo
<1> QED
  BY <1>1, <1>12, <1>13, <1>15 DEF h

LEMMA NextFinite ==
    ASSUME IInv, FiniteBooks, [Next]_vars
    PROVE  FiniteBooks'
<1>1. ASSUME NEW t \in Threads, NewPlaceholder(t), NEW s \in Sessions
      PROVE  IsFiniteSet(DOMAIN byOriginal'[s])
  <2>1. DOMAIN byOriginal = Sessions /\ call[t].session \in Sessions
    BY <1>1, NextSpanType DEF IInv, TypeOK, NewPlaceholder
  <2>2. IsFiniteSet(DOMAIN byOriginal[s])
    BY DEF FiniteBooks
  <2>3. CASE s = call[t].session
    <3>1. DOMAIN byOriginal'[s] = DOMAIN byOriginal[s] \cup {NextSpan(t).text}
      BY <1>1, <2>1, <2>3 DEF NewPlaceholder, With
    <3>2. IsFiniteSet(DOMAIN byOriginal[s] \cup {NextSpan(t).text})
      BY <2>2, FS_AddElement
    <3> QED
      BY <3>1, <3>2
  <2>4. CASE s # call[t].session
    BY <1>1, <2>1, <2>2, <2>4 DEF NewPlaceholder
  <2> QED
    BY <2>3, <2>4
<1>2. CASE \E t \in Threads : NewPlaceholder(t)
  BY <1>1, <1>2 DEF FiniteBooks
<1>3. CASE UNCHANGED byOriginal
  BY <1>3 DEF FiniteBooks
<1> QED
  BY <1>2, <1>3 DEF Next, Inner, BeginCall, BeginRehydrate, Begin, Acquire, RedactSpan,
     ReusePlaceholder, ReplaceSpans, ReplacePanics, PlaceholderFor, Rehydrate, Release, vars

LEMMA StillMaskedAs ==
    ASSUME NEW book, NEW later, Kept(book, later), NEW result, MaskedAs(book, result)
    PROVE  MaskedAs(later, result)
<1>1. Pieces(book, result.input.spans) = Pieces(later, result.input.spans)
  BY DEF MaskedAs, Pieces, Kept
<1> QED
  BY <1>1 DEF MaskedAs, Kept

\* What mask_text returns is what the map it leaves says.
LEMMA ReplacedAs ==
    ASSUME RInv, NEW t \in Threads, AllMarked(t), NEW result,
           result.input = call[t].input,
           result.out = Fill(call[t].input.gaps, [i \in DOMAIN marked[t] |-> <<marked[t][i]>>])
    PROVE  MaskedAs(byOriginal[call[t].session], result)
<1> DEFINE s == call[t].session
           spans == call[t].input.spans
           pieces == [i \in DOMAIN marked[t] |-> <<marked[t][i]>>]
<1>1. Inside(t, "mask") /\ Len(marked[t]) = Len(spans)
  BY DEF AllMarked, Spans
<1>2. /\ call[t].input \in Inputs
      /\ spans \in Seq(Span)
      /\ marked[t] \in Seq(Placeholder \cup {Redacted})
  BY <1>1, SpansType DEF RInv, IInv, Spans
<1>3. DOMAIN marked[t] = 1..Len(spans) /\ DOMAIN spans = 1..Len(spans)
  BY <1>1, <1>2
<1>4. /\ DOMAIN byOriginal[s] = DOMAIN before \cup MaskedUpTo(spans, Len(spans))
      /\ \A i \in 1..Len(spans) :
           marked[t][i] = IF spans[i].action = "mask"
                          THEN byOriginal[s][spans[i].text] ELSE Redacted
  BY <1>1 DEF RInv, LoopInv, Spans
<1>5. pieces = Pieces(byOriginal[s], spans)
  BY <1>3, <1>4 DEF Pieces
<1>6. \A i \in DOMAIN spans : spans[i].action = "mask" => spans[i].text \in DOMAIN byOriginal[s]
  BY <1>3, <1>4 DEF MaskedUpTo
<1> QED
  BY <1>2, <1>5, <1>6 DEF MaskedAs

LEMMA NextMaskedInv ==
    ASSUME RInv, MaskedInv, [Next]_vars
    PROVE  MaskedInv'
<1> DEFINE Right(r) == r.op = "mask" => /\ r.session \in Sessions
                                        /\ MaskedAs(byOriginal'[r.session], r)
<1>1. ASSUME NEW t \in Threads PROVE Right(ret[t])
  <2>1. CASE ret[t].op = "mask"
    <3>1. ret[t].session \in Sessions /\ MaskedAs(byOriginal[ret[t].session], ret[t])
      BY <2>1 DEF MaskedInv
    <3>2. Kept(byOriginal[ret[t].session], byOriginal'[ret[t].session])
      BY <3>1, NextKept DEF RInv
    <3> QED
      BY <3>1, <3>2, StillMaskedAs
  <2> QED
    BY <2>1
<1> HIDE DEF Right
<1>2. ASSUME NEW t \in Threads, NEW result, Release(t, result), Right(result)
      PROVE  \A u \in Threads : Right(ret'[u])
  BY <1>1, <1>2 DEF Release, RInv, RetInv
<1>3. ASSUME NEW t \in Threads, ReplaceSpans(t) PROVE \A u \in Threads : Right(ret'[u])
  <2> DEFINE result == [op |-> "mask", session |-> call[t].session, input |-> call[t].input,
                        out |-> Fill(call[t].input.gaps,
                                     [i \in DOMAIN marked[t] |-> <<marked[t][i]>>])]
  <2>1. AllMarked(t) /\ Release(t, result) /\ byOriginal' = byOriginal
    BY <1>3 DEF ReplaceSpans, Release
  <2>2. call[t].session \in Sessions
    BY <2>1, SpansType DEF RInv, IInv, AllMarked
  <2>3. MaskedAs(byOriginal[call[t].session], result)
    BY <2>1, ReplacedAs
  <2>4. Right(result)
    BY <2>1, <2>2, <2>3 DEF Right
  <2> QED
    BY <1>2, <2>1, <2>4
<1>4. ASSUME NEW t \in Threads, ReplacePanics(t) \/ PlaceholderFor(t) \/ Rehydrate(t)
      PROVE  \A u \in Threads : Right(ret'[u])
  <2>1. \E result : Release(t, result) /\ result.op # "mask"
    <3>1. CASE ReplacePanics(t)
      <4>1. Release(t, NoResult) /\ NoResult.op # "mask"
        BY <3>1 DEF ReplacePanics, NoResult
      <4> QED
        BY <4>1
    <3>2. CASE PlaceholderFor(t)
      <4>1. PICK found : Release(t, [op |-> "lookup", session |-> call[t].session,
                                     original |-> call[t].original, found |-> found])
        BY <3>2 DEF PlaceholderFor
      <4> DEFINE r == [op |-> "lookup", session |-> call[t].session,
                       original |-> call[t].original, found |-> found]
      <4>2. Release(t, r) /\ r.op # "mask"
        BY <4>1
      <4> QED
        BY <4>2
    <3>3. CASE Rehydrate(t)
      <4>1. PICK text : Release(t, [op |-> "rehydrate", session |-> call[t].session,
                                    text |-> call[t].text, out |-> text])
        BY <3>3 DEF Rehydrate
      <4> DEFINE r == [op |-> "rehydrate", session |-> call[t].session,
                       text |-> call[t].text, out |-> text]
      <4>2. Release(t, r) /\ r.op # "mask"
        BY <4>1
      <4> QED
        BY <4>2
    <3> QED
      BY <1>4, <3>1, <3>2, <3>3
  <2>2. PICK result : Release(t, result) /\ result.op # "mask"
    BY <2>1
  <2>3. Right(result)
    BY <2>2 DEF Right
  <2> QED
    BY <1>2, <2>2, <2>3
<1> DEFINE AllRight == \A u \in Threads : Right(ret'[u])
<1>5. ASSUME UNCHANGED ret PROVE AllRight
  BY <1>1, <1>5 DEF Right
<1>a. \A t \in Threads : ReplaceSpans(t) => AllRight
  BY <1>3
<1>b. \A t \in Threads : ReplacePanics(t) \/ PlaceholderFor(t) \/ Rehydrate(t) => AllRight
  BY <1>4
<1> HIDE DEF AllRight
<1>6. AllRight
  BY <1>a, <1>b, <1>5 DEF Next, Inner, BeginCall, BeginRehydrate, Begin, Acquire, RedactSpan,
     ReusePlaceholder, NewPlaceholder, vars
<1> QED
  BY <1>6 DEF MaskedInv, Right, AllRight

LEMMA InitTInv == Init => TInv
<1> SUFFICES ASSUME Init PROVE TInv
  OBVIOUS
<1>1. RInv
  BY InitRInv
<1>2. \A s \in Sessions : DOMAIN byOriginal[s] = {}
  BY DEF Init, NoBook
<1>3. FiniteBooks
  BY <1>2, FS_EmptySet DEF FiniteBooks
<1>4. MaskedInv
  BY DEF Init, NoResult, MaskedInv
<1> QED
  BY <1>1, <1>3, <1>4 DEF TInv

\* What any request was masked to reads back, from every later map of its
\* conversation, as what the user wrote with the secrets redacted and the words
\* of a name that NER found a single space apart.
THEOREM MaskedReadsBack == Spec => []RoundTrip
<1>1. TInv /\ [Next]_vars => TInv'
  <2> SUFFICES ASSUME TInv, [Next]_vars PROVE TInv'
    OBVIOUS
  <2>1. RInv /\ FiniteBooks /\ MaskedInv /\ IInv
    BY DEF TInv, RInv
  <2>2. RInv'
    BY <2>1, NextRInv
  <2>3. FiniteBooks'
    BY <2>1, NextFinite
  <2>4. MaskedInv'
    BY <2>1, NextMaskedInv
  <2> QED
    BY <2>2, <2>3, <2>4 DEF TInv
<1>2. TInv => RoundTrip
  <2> SUFFICES ASSUME TInv, NEW t \in Threads, ret[t].op = "mask"
               PROVE  Rehydrations(byOriginal[ret[t].session], ret[t].out)
                        = {Readable(ret[t].input)}
    BY DEF RoundTrip
  <2>1. ret[t].session \in Sessions /\ MaskedAs(byOriginal[ret[t].session], ret[t])
    BY DEF TInv, MaskedInv
  <2>2. IInv /\ FiniteBooks
    BY DEF TInv, RInv
  <2>3. GoodBook(byOriginal[ret[t].session], Words, Placeholder)
    BY <2>1, <2>2, BookIsGood
  <2> QED
    BY <2>1, <2>3, ReadsBack
<1> QED
  BY <1>1, <1>2, InitTInv, PTL DEF Spec

-----------------------------------------------------------------------------
(* The mutex is not kept for ever                                          *)

\* The steps the thread that holds the mutex takes before it gives it back, at most.
StepsLeft(t) ==
    IF call[t].op = "mask" THEN 1 + Len(Spans(t)) - Len(marked[t]) ELSE 1

Releasing ==
    \A t \in Threads :
        holder = t =>
            /\ StepsLeft(t) \in Nat \ {0}
            /\ IF Inner(t)
               THEN holder' = NoThread \/ (holder' = t /\ StepsLeft(t)' < StepsLeft(t))
               ELSE UNCHANGED <<byOriginal, counters, holder, pc[t], call[t], marked[t]>>

LEMMA NextReleasing == RInv /\ [Next]_vars => [Releasing]_vars
<1> SUFFICES ASSUME RInv, Next PROVE Releasing
  OBVIOUS
<1> SUFFICES ASSUME NEW t \in Threads, holder = t
             PROVE  /\ StepsLeft(t) \in Nat \ {0}
                    /\ IF Inner(t)
                       THEN holder' = NoThread \/ (holder' = t /\ StepsLeft(t)' < StepsLeft(t))
                       ELSE UNCHANGED <<byOriginal, counters, holder, pc[t], call[t], marked[t]>>
  BY DEF Releasing
<1>1. TypeOK /\ MutexInv /\ pc[t] = "locked" /\ t # NoThread
  BY NoThreadAssumption DEF RInv, IInv, MutexInv
<1>2. ASSUME call[t].op = "mask"
      PROVE  /\ Len(Spans(t)) \in Nat /\ Len(marked[t]) \in Nat
             /\ Len(marked[t]) <= Len(Spans(t))
  <2>1. Inside(t, "mask")
    BY <1>1, <1>2 DEF Inside
  <2> QED
    BY <1>1, <2>1, SpansType, LenProperties DEF RInv, LoopInv
<1>3. StepsLeft(t) \in Nat \ {0}
  BY <1>2 DEF StepsLeft
<1>4. ASSUME Inner(t)
      PROVE  holder' = NoThread \/ (holder' = t /\ StepsLeft(t)' < StepsLeft(t))
  <2>1. CASE RedactSpan(t) \/ ReusePlaceholder(t) \/ NewPlaceholder(t)
    <3>1. PICK atom : Mark(t, atom)
      BY <2>1 DEF RedactSpan, ReusePlaceholder, NewPlaceholder
    <3>2. /\ MoreSpans(t) /\ UNCHANGED <<holder, call>>
      BY <2>1 DEF RedactSpan, ReusePlaceholder, NewPlaceholder
    <3>3. marked \in [Threads -> Seq(Placeholder \cup {Redacted})]
      BY <1>1 DEF TypeOK
    <3>4. marked'[t] = Append(marked[t], atom)
      BY <3>1, <3>3 DEF Mark
    <3>5. Len(marked'[t]) = Len(marked[t]) + 1
      BY <3>3, <3>4
    <3>6. call[t].op = "mask"
      BY <3>2 DEF MoreSpans, Inside
    <3>7. Spans(t)' = Spans(t) /\ holder' = t /\ call'[t].op = "mask"
      BY <3>2, <3>6 DEF Spans
    <3>8. /\ StepsLeft(t) = 1 + Len(Spans(t)) - Len(marked[t])
          /\ StepsLeft(t)' = 1 + Len(Spans(t)) - (Len(marked[t]) + 1)
      BY <3>5, <3>6, <3>7 DEF StepsLeft
    <3>9. Len(Spans(t)) \in Nat /\ Len(marked[t]) \in Nat
      BY <1>2, <3>6
    <3> DEFINE n == Len(Spans(t))
               m == Len(marked[t])
               now == StepsLeft(t)
               then == StepsLeft(t)'
    <3>10. n \in Nat /\ m \in Nat /\ now = 1 + n - m /\ then = 1 + n - (m + 1)
      BY <3>8, <3>9
    <3> HIDE DEF n, m, now, then
    <3>11. then < now
      BY <3>10
    <3> QED
      BY <3>7, <3>11 DEF now, then
  <2>2. CASE ReplaceSpans(t) \/ ReplacePanics(t) \/ PlaceholderFor(t) \/ Rehydrate(t)
    BY <2>2 DEF ReplaceSpans, ReplacePanics, PlaceholderFor, Rehydrate, Release
  <2> QED
    BY <1>4, <2>1, <2>2 DEF Inner
<1>5. ASSUME ~ Inner(t)
      PROVE  UNCHANGED <<byOriginal, counters, holder, pc[t], call[t], marked[t]>>
  <2>1. PICK u \in Threads : BeginCall(u) \/ BeginRehydrate(u) \/ Acquire(u) \/ Inner(u)
    BY DEF Next
  <2>2. ~ Acquire(u)
    BY <1>1 DEF Acquire
  <2>3. ~ Inner(u)
    <3>1. Inner(u) => pc[u] = "locked"
      BY DEF Inner, RedactSpan, ReusePlaceholder, NewPlaceholder, ReplaceSpans, ReplacePanics,
             PlaceholderFor, Rehydrate, MoreSpans, AllMarked, Inside
    <3>2. pc[u] = "locked" => u = t
      BY <1>1 DEF MutexInv
    <3> QED
      BY <1>5, <3>1, <3>2
  <2>4. \E c : Begin(u, c)
    BY <2>1, <2>2, <2>3 DEF BeginCall, BeginRehydrate
  <2>5. PICK c : Begin(u, c)
    BY <2>4
  <2>6. u # t
    BY <1>1, <2>5 DEF Begin
  <2> QED
    BY <1>1, <2>5, <2>6 DEF Begin, TypeOK
<1> QED
  BY <1>3, <1>4, <1>5

\* A thread that has the mutex gives it back after as many steps as its call has spans, and
\* one, panic or not; meanwhile nothing other threads do touches the maps or keeps it from
\* going on.  This is the part of MutexReleased that is not about fairness.
THEOREM MutexIsReleased == Spec => [][Releasing]_vars
<1>1. RInv /\ [Next]_vars => RInv' /\ [Releasing]_vars
  BY NextRInv, NextReleasing
<1> QED
  BY <1>1, InitRInv, PTL DEF Spec
=============================================================================
