----------------------------- MODULE MCWsSession -----------------------------
(***************************************************************************)
(* A small instance of WsSession.                                          *)
(***************************************************************************)
EXTENDS WsSession

CONSTANTS v1, v2

Text(parses, values) == [kind |-> "text", parses |-> parses, values |-> values]
Mark(kind) == [kind |-> kind, parses |-> FALSE, values |-> <<>>]

MCClientFrames ==
    {Text(TRUE, <<v1>>), Text(TRUE, <<v2, v1>>), Text(FALSE, <<v1>>),
     Mark("other"), Mark("close")}

MCUpstreamFrames ==
    {[kind |-> "text", numbers |-> <<1, 2>>],
     [kind |-> "other", numbers |-> <<>>], [kind |-> "close", numbers |-> <<>>]}
=============================================================================
