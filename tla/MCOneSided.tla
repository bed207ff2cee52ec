------------------------------ MODULE MCOneSided ------------------------------
(***************************************************************************)
(* The one-sided store with its end points, for TLC.                       *)
(***************************************************************************)
EXTENDS OneSided, TLC

Symmetry == Permutations(Keys)
===============================================================================
