----------------------------- MODULE MCDiscovery -----------------------------
(***************************************************************************)
(* Discovery for TLC.  Only safety is checked, and things are alike.       *)
(***************************************************************************)
EXTENDS Discovery, TLC

Symmetry == Permutations(Things)
=============================================================================
