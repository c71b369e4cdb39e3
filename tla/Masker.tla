------------------------------- MODULE Masker -------------------------------
(***************************************************************************)
(* masker.rs: the session-scoped placeholder maps of the proxy.  Requests   *)
(* run on the threads of a multi-threaded runtime and share one Masker;     *)
(* every operation takes its mutex, and mask_text gives out placeholders    *)
(* one span at a time while it holds it.                                    *)
(*                                                                         *)
(* A session that is absent from the HashMap is one with an empty map: the  *)
(* code creates it on its first mask_text and reads both the same way.      *)
(***************************************************************************)
EXTENDS PlaceholderText

CONSTANTS Threads, NoThread,
          Sessions,
          Entities,     \* entity names as packs and detectors spell them
          LabelOf,      \* str::to_uppercase, from Entities to Labels
          Words,        \* the atoms users write, white space among them
          Texts,        \* the texts spans and lookups are about
          Inputs        \* the calls of mask_text: a text, its spans

Span ==
    {span \in [slice : Seq(Words), ner : BOOLEAN, text : Texts,
               entity : Entities, action : {"mask", "redact"}] :
        span.text = DetectedText(span)}

\* aligned is FALSE when a span's offsets do not lie on character boundaries
\* of the text: String::replace_range panics on it.
InputType == [gaps : Seq(Seq(Words)),
              spans : Seq(Span),
              aligned : BOOLEAN]

ASSUME LabelOfAssumption == LabelOf \in [Entities -> Labels]
ASSUME NoThreadAssumption == NoThread \notin Threads
ASSUME WordsAssumption == \A w \in Words : w # Redacted /\ w \notin Placeholder
ASSUME TextsAssumption == Texts \subseteq Seq(Words)
ASSUME InputsAssumption ==
    /\ Inputs \subseteq InputType
    /\ \A input \in Inputs : Len(input.gaps) = Len(input.spans) + 1

VARIABLES byOriginal,   \* by_original of each session
          counters,     \* counters of each session
          holder,       \* the thread in the critical section of the mutex
          pc,           \* where each thread is
          call,         \* the call a thread is in, or was in last
          marked,       \* the replacements mask_text has collected
          ret,          \* what the thread's last call returned
          before        \* history: the session's map when the mutex was taken

vars == <<byOriginal, counters, holder, pc, call, marked, ret, before>>

IsBook(b) == DOMAIN b \subseteq Texts /\ b \in [DOMAIN b -> Placeholder]
NoCall == [op |-> "none"]
NoResult == [op |-> "none"]

Init ==
    /\ byOriginal = [s \in Sessions |-> NoBook]
    /\ counters = [s \in Sessions |-> [l \in Labels |-> 0]]
    /\ holder = NoThread
    /\ pc = [t \in Threads |-> "idle"]
    /\ call = [t \in Threads |-> NoCall]
    /\ marked = [t \in Threads |-> <<>>]
    /\ ret = [t \in Threads |-> NoResult]
    /\ before = NoBook

-----------------------------------------------------------------------------
(* A request calls one of the three operations.                            *)

Calls == [op : {"mask"}, session : Sessions, input : Inputs]
    \cup [op : {"lookup"}, session : Sessions, original : Texts]

\* A rehydrate call carries any text.
IsCall(c) ==
    \/ c.op = "none"
    \/ c.op = "rehydrate" /\ c.session \in Sessions
    \/ c \in Calls

Begin(t, c) ==
    /\ pc[t] = "idle"
    /\ call' = [call EXCEPT ![t] = c]
    /\ pc' = [pc EXCEPT ![t] = "lock"]
    /\ UNCHANGED <<byOriginal, counters, holder, marked, ret, before>>

BeginCall(t) == \E c \in Calls : Begin(t, c)

\* The upstream's answer repeats what some request sent it.
BeginRehydrate(t) ==
    \E s \in Sessions, r \in Threads :
        /\ ret[r].op = "mask"
        /\ Begin(t, [op |-> "rehydrate", session |-> s, text |-> ret[r].out])

-----------------------------------------------------------------------------
(* lock().unwrap_or_else(|p| p.into_inner()): a thread that panicked with   *)
(* the mutex taken leaves it poisoned, and it is taken all the same.        *)

\* Mistaken: the mutex is taken although another thread holds it.
Acquire_NoMutex(t) ==
    /\ pc[t] = "lock"
    /\ holder' = t
    /\ pc' = [pc EXCEPT ![t] = "locked"]
    /\ marked' = [marked EXCEPT ![t] = <<>>]
    /\ before' = byOriginal[call[t].session]
    /\ UNCHANGED <<byOriginal, counters, call, ret>>

Acquire(t) ==
    /\ pc[t] = "lock"
    /\ holder = NoThread
    /\ holder' = t
    /\ pc' = [pc EXCEPT ![t] = "locked"]
    /\ marked' = [marked EXCEPT ![t] = <<>>]
    /\ before' = byOriginal[call[t].session]
    /\ UNCHANGED <<byOriginal, counters, call, ret>>

Release(t, result) ==
    /\ ret' = [ret EXCEPT ![t] = result]
    /\ holder' = NoThread
    /\ pc' = [pc EXCEPT ![t] = "idle"]
    /\ UNCHANGED <<byOriginal, counters, call, marked, before>>

Inside(t, op) == pc[t] = "locked" /\ call[t].op = op

-----------------------------------------------------------------------------
(* mask_text                                                                *)

Spans(t) == call[t].input.spans
NextSpan(t) == Spans(t)[Len(marked[t]) + 1]
MoreSpans(t) == Inside(t, "mask") /\ Len(marked[t]) < Len(Spans(t))
Mark(t, atom) == marked' = [marked EXCEPT ![t] = Append(@, atom)]

RedactSpan(t) ==
    /\ MoreSpans(t)
    /\ NextSpan(t).action = "redact"
    /\ Mark(t, Redacted)
    /\ UNCHANGED <<byOriginal, counters, holder, pc, call, ret, before>>

\* Mistaken: the counter is advanced before the map is looked up.
ReusePlaceholder_Counted(t) ==
    LET s == call[t].session
        l == LabelOf[NextSpan(t).entity]
    IN /\ MoreSpans(t)
       /\ NextSpan(t).action = "mask"
       /\ NextSpan(t).text \in DOMAIN byOriginal[s]
       /\ counters' = [counters EXCEPT ![s][l] = @ + 1]
       /\ Mark(t, byOriginal[s][NextSpan(t).text])
       /\ UNCHANGED <<byOriginal, holder, pc, call, ret, before>>

\* The text has a placeholder in this session: keyed by text, not by entity.
ReusePlaceholder(t) ==
    LET s == call[t].session
    IN /\ MoreSpans(t)
       /\ NextSpan(t).action = "mask"
       /\ NextSpan(t).text \in DOMAIN byOriginal[s]
       /\ Mark(t, byOriginal[s][NextSpan(t).text])
       /\ UNCHANGED <<byOriginal, counters, holder, pc, call, ret, before>>

\* Mistaken: the placeholder is formatted before the counter is advanced.
NewPlaceholder_FromZero(t) ==
    LET s == call[t].session
        o == NextSpan(t).text
        l == LabelOf[NextSpan(t).entity]
        ph == [label |-> l, n |-> counters[s][l]]
    IN /\ MoreSpans(t)
       /\ NextSpan(t).action = "mask"
       /\ o \notin DOMAIN byOriginal[s]
       /\ counters' = [counters EXCEPT ![s][l] = @ + 1]
       /\ byOriginal' = [byOriginal EXCEPT ![s] = With(@, o, ph)]
       /\ Mark(t, ph)
       /\ UNCHANGED <<holder, pc, call, ret, before>>

\* Mistaken: one counter per call instead of one per session.
NewPlaceholder_PerCall(t) ==
    LET s == call[t].session
        o == NextSpan(t).text
        l == LabelOf[NextSpan(t).entity]
        ph == [label |-> l, n |-> Len(marked[t]) + 1]
    IN /\ MoreSpans(t)
       /\ NextSpan(t).action = "mask"
       /\ o \notin DOMAIN byOriginal[s]
       /\ counters' = [counters EXCEPT ![s][l] = @ + 1]
       /\ byOriginal' = [byOriginal EXCEPT ![s] = With(@, o, ph)]
       /\ Mark(t, ph)
       /\ UNCHANGED <<holder, pc, call, ret, before>>

NewPlaceholder(t) ==
    LET s == call[t].session
        o == NextSpan(t).text
        l == LabelOf[NextSpan(t).entity]
        ph == [label |-> l, n |-> counters[s][l] + 1]
    IN /\ MoreSpans(t)
       /\ NextSpan(t).action = "mask"
       /\ o \notin DOMAIN byOriginal[s]
       /\ counters' = [counters EXCEPT ![s][l] = @ + 1]
       /\ byOriginal' = [byOriginal EXCEPT ![s] = With(@, o, ph)]
       /\ Mark(t, ph)
       /\ UNCHANGED <<holder, pc, call, ret, before>>

AllMarked(t) == Inside(t, "mask") /\ Len(marked[t]) = Len(Spans(t))

\* The second pass, right to left, and the return.
ReplaceSpans(t) ==
    LET pieces == [i \in DOMAIN marked[t] |-> <<marked[t][i]>>]
    IN /\ AllMarked(t)
       /\ call[t].input.aligned
       /\ Release(t, [op |-> "mask", session |-> call[t].session,
                      input |-> call[t].input,
                      out |-> Fill(call[t].input.gaps, pieces)])

\* Mistaken: the thread that panics keeps the mutex.
ReplacePanics_Held(t) ==
    /\ AllMarked(t)
    /\ ~ call[t].input.aligned
    /\ pc' = [pc EXCEPT ![t] = "idle"]
    /\ ret' = [ret EXCEPT ![t] = NoResult]
    /\ UNCHANGED <<byOriginal, counters, holder, call, marked, before>>

\* replace_range panics; the first pass has already filled the map.
ReplacePanics(t) ==
    /\ AllMarked(t)
    /\ ~ call[t].input.aligned
    /\ Release(t, NoResult)

-----------------------------------------------------------------------------
(* placeholder_for and rehydrate only read                                 *)

PlaceholderFor(t) ==
    LET book == byOriginal[call[t].session]
        o == call[t].original
    IN /\ Inside(t, "lookup")
       /\ Release(t, [op |-> "lookup", session |-> call[t].session,
                      original |-> o,
                      found |-> IF o \in DOMAIN book THEN {book[o]} ELSE {}])

Rehydrate(t) ==
    /\ Inside(t, "rehydrate")
    /\ \E text \in Rehydrations(byOriginal[call[t].session], call[t].text) :
          Release(t, [op |-> "rehydrate", session |-> call[t].session,
                      text |-> call[t].text, out |-> text])

-----------------------------------------------------------------------------
Inner(t) ==
    \/ RedactSpan(t)
    \/ ReusePlaceholder(t)
    \/ NewPlaceholder(t)
    \/ ReplaceSpans(t)
    \/ ReplacePanics(t)
    \/ PlaceholderFor(t)
    \/ Rehydrate(t)

Next == \E t \in Threads : BeginCall(t) \/ BeginRehydrate(t) \/ Acquire(t) \/ Inner(t)

Spec == Init /\ [][Next]_vars

(***************************************************************************)
(* The runtime keeps running the thread that holds the mutex.  It promises  *)
(* nothing about which waiting thread gets it: std's Mutex is not fair.     *)
(***************************************************************************)
FairSpec == Spec /\ \A t \in Threads : WF_vars(Inner(t)) /\ WF_vars(Acquire(t))
-----------------------------------------------------------------------------
(***************************************************************************)
(* Properties                                                              *)
(***************************************************************************)

\* The type invariant.
TypeOK ==
    /\ byOriginal = [s \in Sessions |-> byOriginal[s]]
    /\ \A s \in Sessions : IsBook(byOriginal[s])
    /\ counters \in [Sessions -> [Labels -> Nat]]
    /\ holder \in Threads \cup {NoThread}
    /\ pc \in [Threads -> {"idle", "lock", "locked"}]
    /\ call = [t \in Threads |-> call[t]]
    /\ \A t \in Threads : IsCall(call[t])
    /\ marked \in [Threads -> Seq(Placeholder \cup {Redacted})]
    /\ IsBook(before)

\* Two texts of one session never share a placeholder, whatever the entities
\* they were detected as and however many threads mask at once: rehydrate
\* could not tell which of them to put back.
PlaceholdersDistinct ==
    \A s \in Sessions : \A o1, o2 \in DOMAIN byOriginal[s] :
        byOriginal[s][o1] = byOriginal[s][o2] => o1 = o2

\* The numbers given out under a label are 1..counter without a hole, also
\* when a call panicked half way or two entities share the label.
CountersExact ==
    \A s \in Sessions, l \in Labels :
        {byOriginal[s][o].n :
            o \in {x \in DOMAIN byOriginal[s] : byOriginal[s][x].label = l}}
          = 1..counters[s][l]

\* A placeholder, once given out, stands for its text for ever: the upstream
\* may repeat it in an answer to any later request of the conversation.
AssignmentsStable ==
    [][\A s \in Sessions : \A o \in DOMAIN byOriginal[s] :
          /\ o \in DOMAIN byOriginal'[s]
          /\ byOriginal'[s][o] = byOriginal[s][o]]_vars

\* What a request was masked to reads back as what the user wrote, the secrets
\* redacted and the words of a name NER found a single space apart, whenever the
\* answer comes and whatever other requests have masked meanwhile.  (For texts
\* that hold no placeholder themselves.)
RoundTrip ==
    \A t \in Threads :
        ret[t].op = "mask" =>
            Rehydrations(byOriginal[ret[t].session], ret[t].out)
                = {Readable(ret[t].input)}

\* The mutex is given back again and again, also by a call that panics.
MutexReleased == []<>(holder = NoThread)

-----------------------------------------------------------------------------
(* Each call takes effect at once, when it gives the mutex back: until then *)
(* nobody sees the placeholders it has given out.                          *)

SeenBook ==
    [s \in Sessions |->
        IF holder # NoThread /\ call[holder].session = s
        THEN before ELSE byOriginal[s]]

Atomic == INSTANCE PlaceholderBook WITH book <- SeenBook, answer <- ret
ImplementsBook == Atomic!Spec
=============================================================================
