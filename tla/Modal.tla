------------------------------- MODULE Modal -------------------------------
(***************************************************************************)
(* A modal dialog of web/assets/app.js: how it is shown, and how           *)
(* dismissModal closes it.                                                 *)
(*                                                                         *)
(* A dialog that is dismissed stays open, with the class is-closing, until *)
(* its exit animation has ended or 180 ms have passed; finishClose then    *)
(* closes it.  The browser may be faster: the first Escape is a cancel     *)
(* event, which dismissModal takes over, but a second one closes the       *)
(* dialog whatever the page says.  The finishClose of that dismissal is    *)
(* still to come, and by then the dialog may have been shown again.        *)
(*                                                                         *)
(* What the page does when the dialog closes is left to the modules that   *)
(* extend this one.                                                        *)
(***************************************************************************)
EXTENDS Naturals

VARIABLES
  open,         \* the dialog is shown, and what is behind it is inert
  closing,      \* its class is-closing
  returnValue,  \* its returnValue
  finishers     \* how many finishClose are still to run

modal == <<open, closing, returnValue, finishers>>

Values == {"", "confirm", "cancel", "accepted", "view"}

ModalTypeOK ==
  /\ open \in BOOLEAN
  /\ closing \in BOOLEAN
  /\ returnValue \in Values
  /\ finishers \in Nat

ModalInit ==
  /\ open = FALSE
  /\ closing = FALSE
  /\ returnValue = ""
  /\ finishers = 0

\* Mutant: the answer to the dialog before is left standing.
ShowModalAsItWas ==
  /\ ~open
  /\ open' = TRUE
  /\ closing' = FALSE
  /\ UNCHANGED <<returnValue, finishers>>

ShowModal ==
  /\ ~open
  /\ open' = TRUE
  /\ closing' = FALSE
  /\ returnValue' = ""
  /\ UNCHANGED finishers

\* Mutants: the animation, which need not run, is the only one to end a dismissal;
\* a later answer replaces the first.
DismissAnimated(value) ==
  /\ open /\ ~closing
  /\ closing' = TRUE
  /\ returnValue' = value
  /\ UNCHANGED <<open, finishers>>

DismissAgain(value) ==
  /\ open
  /\ closing' = TRUE
  /\ returnValue' = value
  /\ finishers' = finishers + 1
  /\ UNCHANGED open

\* dismissModal, when it does not return early.
Dismiss(value) ==
  /\ open /\ ~closing
  /\ closing' = TRUE
  /\ returnValue' = value
  /\ finishers' = finishers + 1
  /\ UNCHANGED open

\* finishClose, of this dismissal or of an earlier one.
FinishClose ==
  /\ finishers > 0
  /\ finishers' = finishers - 1
  /\ closing' = FALSE
  /\ open' = FALSE
  /\ UNCHANGED returnValue

\* The second Escape.
CloseAtOnce ==
  /\ open /\ closing
  /\ open' = FALSE
  /\ UNCHANGED <<closing, returnValue, finishers>>

\* The dialog's close event.
Closes == open /\ ~open'

ModalGone ==
  /\ open' = FALSE
  /\ closing' = FALSE
  /\ returnValue' = ""
  /\ finishers' = 0
=============================================================================
