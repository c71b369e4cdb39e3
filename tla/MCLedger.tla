------------------------------ MODULE MCLedger ------------------------------
(***************************************************************************)
(* Small instances of Ledger.                                              *)
(***************************************************************************)
EXTENDS Ledger, TLC

CONSTANTS e1, e2, e3

MCEntries == {e1, e2, e3}
EntrySymmetry == Permutations(MCEntries)
=============================================================================
