-------------------------------- MODULE MCSetup --------------------------------
(***************************************************************************)
(* A small instance of Setup.                                              *)
(***************************************************************************)
EXTENDS Setup, TLC

CONSTANTS codex, opencode, w1, w2

MCToolOrder == <<codex, opencode>>
MCWirers == {w1, w2}
WirerSymmetry == Permutations(MCWirers)

MCUserTexts ==
    (codex :> {<<"provider", "mention">>, <<"otherProvider", "section", "otherProvider">>,
               <<"key", "table", "name", "foreign">>,
               <<"section", "provider", "table", "base">>,
               <<"otherProvider", "tableCommented", "base">>})
    @@ (opencode :> {<<"foreign">>, <<"broken">>, <<"locked">>})
=============================================================================
