------------------------------- MODULE MC_Hsd -------------------------------
(***************************************************************************)
(* Hsd.tla for TLC.  Clients are interchangeable: no definition of Hsd     *)
(* tells them apart.                                                       *)
(***************************************************************************)
EXTENDS Hsd, TLC

CONSTANTS c1, c2

Symmetry == Permutations(Clients)
=============================================================================
