-------------------------------- MODULE MCSse --------------------------------
(***************************************************************************)
(* Streams of up to N pieces; two placeholders, one the other's beginning   *)
(* but for the "]".                                                         *)
(***************************************************************************)
EXTENDS Sse

CONSTANT N

MCBytes == {"[", "]", "A", "1", "x", "L", "C", "bad", "o", "p", "?"}
MCLetters == {"A", "1"}
MCOriginals ==
    [p \in {<<"[", "A", "]">>, <<"[", "A", "1", "]">>} |->
        IF Len(p) = 3 THEN <<"o">> ELSE <<"p", "[">>]

Pieces == {<<"[">>, <<"A">>, <<"]">>, <<"x">>, <<"L", "C">>, <<"bad">>,
           <<"[", "A", "1", "]">>}

MCStreams == {FlattenSeq(s) : s \in UNION {[1..n -> Pieces] : n \in 1..N}}
=============================================================================
