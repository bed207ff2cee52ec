------------------------------ MODULE MCTwoSided ------------------------------
(***************************************************************************)
(* Client and server thread, for TLC.                                      *)
(***************************************************************************)
EXTENDS TwoSided
===============================================================================
