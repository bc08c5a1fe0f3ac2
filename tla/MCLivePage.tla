------------------------------ MODULE MCLivePage ------------------------------
(***************************************************************************)
(* LivePage for TLC: any three clicks of the six that the constants name.  *)
(* The two links are interchangeable and are taken in order.  (A symmetry  *)
(* set is not sound for what must eventually happen.)                      *)
(***************************************************************************)
EXTENDS LivePage, FiniteSets

CONSTANTS c1, c2

ThreeClicks ==
  /\ Cardinality(clicked) <= 3
  /\ c2 \in clicked => c1 \in clicked
=============================================================================
