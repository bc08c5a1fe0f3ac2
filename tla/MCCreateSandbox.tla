---------------------------- MODULE MCCreateSandbox ----------------------------
(***************************************************************************)
(* CreateSandbox for TLC, with two requests, of which one has a browser    *)
(* that stays.  (They are not interchangeable, and a symmetry set would    *)
(* not be sound for what must eventually happen.)                          *)
(***************************************************************************)
EXTENDS CreateSandbox

CONSTANTS p1, p2

OneBrowserStays == connected[p2]
=============================================================================
