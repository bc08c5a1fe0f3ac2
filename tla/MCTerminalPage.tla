---------------------------- MODULE MCTerminalPage ----------------------------
(***************************************************************************)
(* TerminalPage for TLC, with three attempts.  They are interchangeable:   *)
(* their names are taken in order.  (A symmetry set is not sound for       *)
(* ConnectingEnds.)  Of a refresh, a panel and an action, two at most are  *)
(* under way at a time.                                                    *)
(***************************************************************************)
EXTENDS TerminalPage

CONSTANTS a1, a2, a3

InOrder ==
  /\ stage[a2] # "unused" => stage[a1] # "unused"
  /\ stage[a3] # "unused" => stage[a2] # "unused"

TwoRequests == requests # Requests
=============================================================================
