------------------------------ MODULE MCLifecycle ------------------------------
(***************************************************************************)
(* A small instance of Lifecycle.                                          *)
(***************************************************************************)
EXTENDS Lifecycle

MCSystems == {"linux", "macos", "windows"}
=============================================================================
