--------------------------------- MODULE Sse ---------------------------------
(***************************************************************************)
(* sse.rs and the streaming half of proxy.rs::forward: an upstream's stream *)
(* arrives in chunks cut anywhere, and placeholders in it are put back as   *)
(* it passes.  The rehydrator holds back a tail that may be the beginning   *)
(* of a placeholder or of a UTF-8 character.                                *)
(*                                                                         *)
(* Bytes are "[", "]", letters that placeholders are made of, others, "L"   *)
(* and "C" for the two bytes of a character, and "bad" for a byte that is   *)
(* not UTF-8.                                                               *)
(***************************************************************************)
EXTENDS Integers, Sequences, SequencesExt, FiniteSetsExt

CONSTANTS Bytes,          \* the bytes of this instance
          Letters,        \* those of them that are A-Z, 0-9 or _
          Originals,      \* the session's map: placeholder bytes to original
          Streams,        \* what the upstream may send
          MaxHold,        \* SseRehydrator::new(64)
          MaxPending      \* MAX_PENDING, 64 KiB

ASSUME BoundsAssumption ==
    /\ MaxHold \in Nat /\ MaxPending \in Nat
    /\ MaxHold + 1 < MaxPending
    /\ \A p \in DOMAIN Originals : Len(p) <= MaxHold

\* "[LABEL_1]", with labels of the bytes that is_placeholder_prefix knows.
IsPlaceholder(p) ==
    /\ p \in Seq(Bytes) /\ Len(p) > 2
    /\ p[1] = "[" /\ p[Len(p)] = "]"
    /\ \A i \in 2..Len(p) - 1 : p[i] \in Letters

ASSUME BytesAssumption ==
    /\ Letters \subseteq Bytes \ {"[", "]", "L", "C", "bad"}
    /\ "?" \in Bytes
    /\ \A p \in DOMAIN Originals : IsPlaceholder(p) /\ Originals[p] \in Seq(Bytes)

VARIABLES rest,       \* what the upstream has still to send
          received,   \* what it has sent
          pending,    \* the bytes held back
          final,      \* what is to be appended when the stream ends
          out,        \* what the tool has got
          phase       \* "open", "ended" or "failed"

vars == <<rest, received, pending, final, out, phase>>

-----------------------------------------------------------------------------
(* Bytes                                                                   *)

Paired(s, i) ==
    \/ s[i] = "L" /\ i < Len(s) /\ s[i + 1] = "C"
    \/ s[i] = "C" /\ i > 1 /\ s[i - 1] = "L"

InCharacter(s, i) == s[i] \notin {"L", "C", "bad"} \/ Paired(s, i)

\* A byte that belongs to no character is called bad.
ASSUME StreamsAssumption ==
    \A s \in Streams :
        s \in Seq(Bytes) /\ \A i \in DOMAIN s : s[i] = "bad" \/ InCharacter(s, i)

\* std::str::from_utf8
IsUtf8(s) == \A i \in DOMAIN s : InCharacter(s, i)

\* The placeholder that starts at byte i, as a set.
PlaceholderAt(s, i) ==
    {p \in DOMAIN Originals :
        i + Len(p) - 1 <= Len(s) /\ SubSeq(s, i, i + Len(p) - 1) = p}

InPlaceholder(s, i) ==
    \E j \in 1..i - 1 : \E p \in PlaceholderAt(s, j) : i < j + Len(p)

\* rehydrate_bytes: from_utf8_lossy, then Masker::rehydrate.  A placeholder has
\* one "[", at its start: no two overlap.
Rehydrated(s) ==
    FlattenSeq([i \in DOMAIN s |->
        IF PlaceholderAt(s, i) # {}
        THEN Originals[CHOOSE p \in PlaceholderAt(s, i) : TRUE]
        ELSE IF InPlaceholder(s, i) THEN <<>>
        ELSE IF InCharacter(s, i) THEN <<s[i]>> ELSE <<"?">>])

-----------------------------------------------------------------------------
(* SseRehydrator                                                           *)

Tail0(s, k) == SubSeq(s, k + 1, Len(s))

IsPlaceholderPrefix(s) ==
    s # <<>> /\ s[1] = "[" /\ \A i \in 2..Len(s) : s[i] \in Letters

\* The end of the last whole character.
CharEnd(s) == Max({n \in 0..Len(s) : IsUtf8(SubSeq(s, 1, n))})

\* Mistaken: the window of held bytes is one too short.
EmitLen_Short(s) ==
    LET end == CharEnd(s)
        holdFrom == Max({0, end - MaxHold + 2})
        holds == {k \in holdFrom..end - 1 : IsPlaceholderPrefix(Tail0(s, k))}
    IN IF holds = {} THEN end ELSE Min(holds)

\* Mistaken: everything from the first "[" is held.
EmitLen_FirstBracket(s) ==
    LET end == CharEnd(s)
        holds == {k \in 0..end - 1 : s[k + 1] = "["}
    IN IF holds = {} THEN end ELSE Min(holds)

\* emit_len: up to the last whole character, less a tail of at most MaxHold bytes
\* that may be the beginning of a placeholder.
EmitLen(s) ==
    LET end == CharEnd(s)
        holdFrom == Max({0, end - MaxHold})
        holds == {k \in holdFrom..end - 1 : IsPlaceholderPrefix(Tail0(s, k))}
    IN IF holds = {} THEN end ELSE Min(holds)

\* Mistaken: no cap on what is held.
CappedEmitLen_NoCap(s) == EmitLen(s)

CappedEmitLen(s) == Max({EmitLen(s), Len(s) - MaxPending})

-----------------------------------------------------------------------------
\* SseRehydrator::new; proxy.rs chains the value of finish() to the stream while
\* it builds the response, when nothing is pending yet.
Init ==
    /\ rest \in Streams
    /\ received = <<>>
    /\ pending = <<>>
    /\ final = Rehydrated(pending)
    /\ out = <<>>
    /\ phase = "open"

\* push
Chunk(n) ==
    LET bytes == pending \o SubSeq(rest, 1, n)
        e == CappedEmitLen(bytes)
    IN /\ phase = "open"
       /\ n \in 1..Len(rest)
       /\ received' = received \o SubSeq(rest, 1, n)
       /\ rest' = Tail0(rest, n)
       /\ out' = out \o Rehydrated(SubSeq(bytes, 1, e))
       /\ pending' = Tail0(bytes, e)
       /\ UNCHANGED <<final, phase>>

End ==
    /\ phase = "open"
    /\ rest = <<>>
    /\ out' = out \o final
    /\ phase' = "ended"
    /\ UNCHANGED <<rest, received, pending, final>>

\* The connection to the upstream breaks: the error is passed on.
Break ==
    /\ phase = "open"
    /\ phase' = "failed"
    /\ UNCHANGED <<rest, received, pending, final, out>>

Next == End \/ Break \/ \E n \in 1..Len(rest) : Chunk(n)

Spec == Init /\ [][Next]_vars

-----------------------------------------------------------------------------
(***************************************************************************)
(* Properties                                                              *)
(***************************************************************************)

Intact(s) == \A i \in DOMAIN s : s[i] # "bad"

\* Wherever the chunks were cut, what has been passed on and what is held give
\* together what rehydrating all of it at once would: no placeholder and no
\* character is cut in two, for a stream of UTF-8.
Seamless ==
    Intact(received) => out \o Rehydrated(pending) = Rehydrated(received)

\* Nothing is held back without need: only an unfinished character, or what may
\* become a placeholder.
HeldForAReason ==
    Intact(received) /\ pending # <<>> =>
        \/ pending = <<"L">>
        \/ pending[1] = "[" /\ Len(pending) <= MaxHold

\* A stream that is not text is not buffered without limit.
PendingBounded == Len(pending) <= MaxPending

\* When the stream ends, the tool has all of it.
NothingLost == phase = "ended" /\ Intact(received) => out = Rehydrated(received)
=============================================================================
