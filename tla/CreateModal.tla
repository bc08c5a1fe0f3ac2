----------------------------- MODULE CreateModal -----------------------------
(***************************************************************************)
(* The dialog of web/assets/app.js in which sandboxes are made: from an    *)
(* image, or, as a deployment, from a snapshot or a pool.  There is one    *)
(* dialog with one form, one place for results, one icon and one line for  *)
(* errors, and it is opened again and again.  What was asked in an earlier *)
(* opening is answered in whatever the dialog has become.                  *)
(*                                                                         *)
(* The answer to a deployment is a result that asks for its own            *)
(* replacement every two seconds until the sandbox runs or has failed.     *)
(* While anything is under way htmx disables the inputs and the buttons of *)
(* the form, those that are not disabled yet, and afterwards enables the   *)
(* ones that it had disabled: Escape and the backdrop remain to leave.     *)
(*                                                                         *)
(* What the answers do to the content of the page is in LivePage, what the *)
(* server does with a creation in CreateSandbox.                           *)
(* The button "View sandbox" of a result is left out: it dismisses the     *)
(* dialog, as Leave does, and goes to another page.                        *)
(***************************************************************************)
EXTENDS Naturals, Modal

CONSTANT MaxOpenings   \* bound of the model: how often the dialog is opened

ASSUME CreateModalAssumption == MaxOpenings \in Nat

VARIABLES
  opening,        \* how often the dialog has been opened
  mode,           \* what the form is set up for
  imageDisabled,  \* the image input is disabled
  imageMarked,    \* htmx has disabled it
  request,        \* the form's request that is under way
  place,          \* the element that takes results is in the document
  result,         \* the result shown, and whether it has asked for the next one
  icon,           \* the dialog's icon
  error,          \* the opening whose error is shown, or 0
  polls,          \* the status requests under way, and what the server has read for them
  sandbox,        \* what the list says of the sandbox that an opening has made
  crossed,        \* the dialog was opened while something was under way (history)
  abandoned,      \* it was closed while a deployment was being asked for (history)
  lost            \* the openings of which a status answer was lost (history)

vars == <<modal, opening, mode, imageDisabled, imageMarked, request, place, result, icon,
          error, polls, sandbox, crossed, abandoned, lost>>

form    == <<mode, imageDisabled, imageMarked>>
answers == <<place, result, icon, error>>
history == <<crossed, abandoned, lost>>

Openings == 1 .. MaxOpenings
Modes    == {"image", "deploy"}
Says     == {"waiting", "ready", "failed"}

Requests == [of : Openings, mode : Modes, image : BOOLEAN]
NoRequest == [of |-> 0, mode |-> "image", image |-> FALSE]
NoResult  == [of |-> 0, says |-> "waiting", asked |-> FALSE]
ModeIcon  == [of |-> 0, says |-> "waiting"]

-----------------------------------------------------------------------------
(* The form.                                                               *)

\* Mutant: the image input is left as it is.
SetModeKeepsInput(m) ==
  /\ mode' = m
  /\ icon' = ModeIcon
  /\ UNCHANGED imageDisabled

\* setCreateSandboxMode.
SetMode(m) ==
  /\ mode' = m
  /\ imageDisabled' = (m = "deploy")
  /\ icon' = ModeIcon

\* Mutant: the form replaces the place for results, and not what is in it.
SwapReplaces(m) == "outerHTML"

\* hx-swap, which htmx reads when the answer is there; hx-target it reads before.
SwapStyle(m) == IF m = "deploy" THEN "innerHTML" ELSE "outerHTML"

\* hx-disabled-elt, of the form and of the results in it.
Disable ==
  /\ imageDisabled' = TRUE
  /\ imageMarked' = (imageMarked \/ ~imageDisabled)

Enable(nothingLeft) ==
  /\ imageDisabled' = (imageDisabled /\ ~(nothingLeft /\ imageMarked))
  /\ imageMarked' = (imageMarked /\ ~nothingLeft)

-----------------------------------------------------------------------------
(* The user.                                                               *)

\* Mutant: what the closed dialog was told is left standing.
OpenAsItWas(m) ==
  /\ opening < MaxOpenings
  /\ place
  /\ ShowModal
  /\ opening' = opening + 1
  /\ SetMode(m)
  /\ crossed' = (request # NoRequest \/ polls # {})
  /\ UNCHANGED <<imageMarked, request, place, result, error, polls, sandbox, abandoned, lost>>

\* openCreateSandboxModal, which fails when there is no place for results.
Open(m) ==
  /\ opening < MaxOpenings
  /\ place
  /\ ShowModal
  /\ opening' = opening + 1
  /\ SetMode(m)
  /\ result' = NoResult
  /\ error' = 0
  /\ crossed' = (request # NoRequest \/ polls # {})
  /\ UNCHANGED <<imageMarked, request, place, polls, sandbox, abandoned, lost>>

\* The fields and the button are hidden while there is a result in its place, and the
\* button is disabled while anything is under way.
Submit ==
  /\ open
  /\ request = NoRequest /\ polls = {}
  /\ result = NoResult \/ ~place
  /\ request' = [of |-> opening, mode |-> mode, image |-> ~imageDisabled]
  /\ error' = 0
  /\ Disable
  /\ UNCHANGED <<modal, opening, mode, place, result, icon, polls, sandbox, history>>

Leave ==
  /\ Dismiss("cancel")
  /\ UNCHANGED <<opening, form, request, answers, polls, sandbox, history>>

\* The close event.  Without a place for results its listener fails half-way.
Close(by) ==
  /\ by
  /\ IF Closes /\ place
       THEN SetMode("image") /\ result' = NoResult /\ error' = 0
       ELSE UNCHANGED <<mode, imageDisabled, icon, result, error>>
  /\ abandoned' = (abandoned \/ (Closes /\ request.mode = "deploy"))
  /\ UNCHANGED <<opening, imageMarked, request, place, polls, sandbox, crossed, lost>>

-----------------------------------------------------------------------------
(* Answers to the form.                                                    *)

Answered ==
  /\ request # NoRequest
  /\ request' = NoRequest
  /\ Enable(polls = {})

\* The event sandboxCreateAccepted: dismissModal(createSandboxModal, 'accepted').
Accepted ==
  /\ Answered
  /\ request.mode = "image"
  /\ \/ Dismiss("accepted")
     \/ ~(open /\ ~closing) /\ UNCHANGED modal
  /\ UNCHANGED <<opening, mode, answers, polls, sandbox, history>>

Deployed(says) ==
  /\ Answered
  /\ request.mode = "deploy" /\ ~request.image
  /\ result' = [of |-> request.of, says |-> says, asked |-> FALSE]
  /\ icon' = [of |-> request.of, says |-> says]
  /\ place' = (SwapStyle(mode) = "innerHTML")
  /\ sandbox' = [sandbox EXCEPT ![request.of] = says]
  /\ UNCHANGED <<modal, opening, mode, error, polls, history>>

\* htmx:responseError.  The server refuses a deployment that names an image.
Refused ==
  /\ Answered
  /\ error' = request.of
  /\ UNCHANGED <<modal, opening, mode, place, result, icon, polls, sandbox, history>>

\* htmx:sendError, to which nobody listens.
AnswerLost ==
  /\ Answered
  /\ UNCHANGED <<modal, opening, mode, answers, polls, sandbox, history>>

-----------------------------------------------------------------------------
(* The status of a deployment.                                             *)

\* The trigger of a result, load delay:2s.
Poll ==
  /\ result.of # 0 /\ result.says = "waiting" /\ ~result.asked
  /\ result' = [result EXCEPT !.asked = TRUE]
  /\ polls' = polls \cup {[of |-> result.of, says |-> "asked"]}
  /\ Disable
  /\ UNCHANGED <<modal, opening, mode, request, place, icon, error, sandbox, history>>

Reads(o, says) ==
  /\ [of |-> o, says |-> "asked"] \in polls
  /\ polls' = (polls \ {[of |-> o, says |-> "asked"]}) \cup {[of |-> o, says |-> says]}
  /\ UNCHANGED <<modal, opening, form, request, answers, sandbox, history>>

\* sandboxDeploymentStatus, when the list has the sandbox and when it has not, because it
\* could not be read or because the sandbox has been deleted.
StatusRead(o) == Reads(o, sandbox[o])
StatusUnknown(o) == Reads(o, "waiting")

PollEnds(p) ==
  /\ p \in polls
  /\ polls' = polls \ {p}
  /\ Enable(polls = {p} /\ request = NoRequest)
  /\ UNCHANGED <<modal, opening, mode, request, place, error, sandbox, crossed, abandoned>>

\* Mutant: the result that replaces one that was waiting does not ask again.
StatusToldOnce(p) ==
  /\ p.says # "asked"
  /\ PollEnds(p)
  /\ icon' = p
  /\ result' = IF result.of = p.of THEN [of |-> p.of, says |-> p.says, asked |-> TRUE]
                                   ELSE result
  /\ UNCHANGED lost

\* A result that has been cleared away is not replaced, but the icon is.
StatusTold(p) ==
  /\ p.says # "asked"
  /\ PollEnds(p)
  /\ icon' = p
  /\ result' = IF result.of = p.of THEN [of |-> p.of, says |-> p.says, asked |-> FALSE]
                                   ELSE result
  /\ UNCHANGED lost

\* No answer, or one that is an error: nothing is swapped, and nobody asks again.
StatusLost(p) ==
  /\ PollEnds(p)
  /\ lost' = lost \cup {p.of}
  /\ UNCHANGED <<icon, result>>

\* A sandbox that runs may be paused, terminated or deleted: waiting, for its result.
SandboxMoves(o) ==
  /\ sandbox[o] # "failed"
  /\ \E says \in Says \ {sandbox[o]} : sandbox' = [sandbox EXCEPT ![o] = says]
  /\ UNCHANGED <<modal, opening, form, request, answers, polls, history>>

-----------------------------------------------------------------------------
Init ==
  /\ ModalInit
  /\ opening = 0
  /\ mode = "image"
  /\ imageDisabled = FALSE /\ imageMarked = FALSE
  /\ request = NoRequest
  /\ place = TRUE
  /\ result = NoResult
  /\ icon = ModeIcon
  /\ error = 0
  /\ polls = {}
  /\ sandbox = [o \in Openings |-> "waiting"]
  /\ crossed = FALSE /\ abandoned = FALSE
  /\ lost = {}

User ==
  \/ \E m \in Modes : Open(m)
  \/ Submit
  \/ Leave
  \/ Close(CloseAtOnce)

Answer ==
  \/ Accepted
  \/ \E says \in Says : Deployed(says)
  \/ Refused
  \/ AnswerLost

Status ==
  \/ \E o \in Openings : StatusRead(o) \/ StatusUnknown(o)
  \/ \E p \in polls : StatusTold(p) \/ StatusLost(p)

Next ==
  \/ User
  \/ Close(FinishClose)
  \/ Answer
  \/ Poll
  \/ Status
  \/ \E o \in Openings : SandboxMoves(o)

Spec == Init /\ [][Next]_vars

\* Timers fire, the server answers what it was asked unless the answer is lost, and the
\* list is not for ever one that it cannot read.
Fairness ==
  /\ WF_vars(Close(FinishClose))
  /\ WF_vars(Poll)
  /\ \A o \in Openings :
       /\ SF_vars(StatusRead(o))
       /\ WF_vars(\E p \in polls : p.of = o /\ StatusTold(p))

FairSpec == Spec /\ Fairness

-----------------------------------------------------------------------------
TypeOK ==
  /\ ModalTypeOK
  /\ opening \in 0 .. MaxOpenings
  /\ mode \in Modes
  /\ imageDisabled \in BOOLEAN /\ imageMarked \in BOOLEAN
  /\ request \in Requests \cup {NoRequest}
  /\ place \in BOOLEAN
  /\ result \in [of : 0 .. MaxOpenings, says : Says, asked : BOOLEAN]
  /\ icon \in [of : 0 .. MaxOpenings, says : Says]
  /\ error \in 0 .. MaxOpenings
  /\ polls \subseteq [of : Openings, says : Says \cup {"asked"}]
  /\ sandbox \in [Openings -> Says]
  /\ crossed \in BOOLEAN /\ abandoned \in BOOLEAN
  /\ lost \subseteq Openings

\* An opening of the dialog shows the results, the errors and the icon of what was asked
\* in it, and the icon says what the result says, unless the dialog was opened while an
\* answer to an earlier opening was still to come.
ShowsItsOwn ==
  open /\ ~crossed =>
    /\ {result.of, icon.of, error} \subseteq {0, opening}
    /\ result.of # 0 => icon = [of |-> result.of, says |-> result.says]

\* The dialog can be opened again, unless it was closed while it was asking for a
\* deployment: closing sets the form up for an image, the answer then replaces the place
\* for results, and opening and closing fail on its absence until the page is loaded anew.
DialogStaysUsable == ~place => abandoned

\* What is enabled at the end of a request, and what is not, is what the mode says.
InputFitsMode ==
  open /\ ~crossed =>
    imageDisabled = (mode = "deploy" \/ request # NoRequest \/ polls # {})

\* A result that waits is not forgotten: until a status answer is lost, it has still to
\* ask, or its question is under way.
WaitingResultAsks ==
  result.of # 0 /\ result.says = "waiting" /\ result.asked =>
    result.of \in lost \/ \E p \in polls : p.of = result.of

ModalInv ==
  /\ TypeOK
  /\ ShowsItsOwn
  /\ DialogStaysUsable
  /\ InputFitsMode
  /\ WaitingResultAsks

\* No deployment is sent with an image beside its snapshot or pool, which the server would
\* refuse (dashboard.go:1830), unless the dialog was opened while something was under way.
DeploymentSendsNoImage ==
  [][request = NoRequest /\ request'.mode = "deploy" /\ ~crossed => ~request'.image]_vars

\* A result that waits is told when its sandbox is ready or has failed, unless it is
\* cleared away, the sandbox goes on to another state, or one status answer has been lost.
DeploymentIsTold ==
  \A o \in Openings :
    (result.of = o /\ result.says = "waiting" /\ sandbox[o] # "waiting")
      ~> \/ result.of # o \/ result.says # "waiting"
         \/ sandbox[o] = "waiting"
         \/ o \in lost
=============================================================================
