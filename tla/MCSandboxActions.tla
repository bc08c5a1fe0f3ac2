--------------------------- MODULE MCSandboxActions ---------------------------
(***************************************************************************)
(* SandboxActions for TLC: any two of the handlers at once.  The custom    *)
(* resources are interchangeable, and only safety is checked.              *)
(***************************************************************************)
EXTENDS SandboxActions, TLC

Symmetry == Permutations(Resources)

TwoHandlers == Cardinality({r \in Handlers : step[r] # "list"}) <= 2
=============================================================================
