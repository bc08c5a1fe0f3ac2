---------------------------- MODULE TerminalPage ----------------------------
(***************************************************************************)
(* The browser terminal of web/assets/app.js: initializeSandboxTerminal,   *)
(* the events of its WebSockets, and what the rest of the page does to it. *)
(*                                                                         *)
(* A click on the overlay's button starts an attempt: it loads the         *)
(* terminal code across two awaits, and only then opens a WebSocket, whose *)
(* handlers keep the variables of the attempt alive in their closure.      *)
(* Meanwhile htmx goes on replacing parts of the page.  When it replaces   *)
(* the dashboard's content the terminal's element is a new one, and the    *)
(* page disconnects the socket it knows of; when it replaces any other     *)
(* fragment the terminal stays.  The live refresh replaces the content     *)
(* every five seconds, unless osbTerminalActive says that a terminal is in *)
(* use.                                                                    *)
(*                                                                         *)
(* One sandbox's page and one other page stand for all, so an error that   *)
(* is kept is always of the sandbox in the page.  What the overlay says is *)
(* left out, its button is kept.  Live updates that are off, a hidden tab  *)
(* and a navigation that is under way only keep ticks from happening, and  *)
(* ticks need not happen here.  The browser's Back is left out: it swaps   *)
(* in a copy of an earlier page, overlay included.                         *)
(***************************************************************************)
CONSTANTS
  Attempts,   \* calls of initializeSandboxTerminal(true) that get past its guards
  None   \* no socket

ASSUME AttemptsAssumption == None \notin Attempts

VARIABLES
  page,       \* "sandbox" has a terminal element, "other" has none
  panel,      \* osbSandboxInfoPanel; "stats" stands for the events panel too
  overlay,    \* the overlay's button: enabled, busy (disabled), hidden, or none
  here,       \* the attempts whose terminal element is the one in the page
  stage,      \* stage[a]: where attempt a and its socket are
  timer,      \* the attempts whose connectionTimer is running
  failed,     \* the attempts whose terminalFailure is true
  current,    \* osbTerminalSocket, as the attempt that opened it
  active,     \* osbTerminalActive
  error,      \* osbTerminalError, as the attempt it was said of
  muddled,    \* the error of an earlier attempt was shown over one that works (history)
  changing,   \* osbLifecycleActionActive
  requests    \* htmx requests under way in the content: refresh, panel, action

vars == <<page, panel, overlay, here, stage, timer, failed, current, active,
          error, muddled, changing, requests>>

socket == <<stage, timer, failed>>
htmx   == <<page, panel, changing, requests>>
rest   == <<muddled, htmx>>

Requests == {"refresh", "panel", "action"}

\* WebSocket.CONNECTING or OPEN; "refused" has told of an error and is still open.
Live == {"opening", "ready", "refused"}

IsLive(a) == a # None /\ stage[a] \in Live

Closed(a) == IF IsLive(a) THEN [stage EXCEPT ![a] = "closing"] ELSE stage

Goes(a, froms, to) ==
  /\ stage[a] \in froms
  /\ stage' = [stage EXCEPT ![a] = to]

\* showOverlay writes to the overlay that was there when a began.
ShowButton(a, button) == overlay' = IF a \in here THEN button ELSE overlay

-----------------------------------------------------------------------------
(* initializeSandboxTerminal(true)                                         *)

Clickable == page = "sandbox" /\ overlay = "enabled"

\* A click while the page's socket is live forgets the error, and returns early.
ConnectIgnored ==
  /\ Clickable /\ IsLive(current)
  /\ error # None
  /\ error' = None
  /\ UNCHANGED <<overlay, here, socket, current, active, rest>>

Connect(a) ==
  /\ Clickable /\ ~IsLive(current)
  /\ Goes(a, {"unused"}, "loading")
  /\ active' = TRUE
  /\ error' = None
  /\ here' = here \cup {a}
  /\ overlay' = "busy"
  /\ UNCHANGED <<timer, failed, current, rest>>

\* The awaits are over.  Nothing is asked about what has happened meanwhile.
OpenSocket(a) ==
  /\ Goes(a, {"loading"}, "opening")
  /\ timer' = timer \cup {a}
  /\ current' = a
  /\ UNCHANGED <<overlay, here, failed, active, error, rest>>

\* Mutant: a failure to load is logged and nothing is shown.
LoadFailsSilently(a) ==
  /\ Goes(a, {"loading"}, "gone")
  /\ active' = FALSE
  /\ error' = a
  /\ UNCHANGED <<overlay, here, timer, failed, current, rest>>

LoadFails(a) ==
  /\ Goes(a, {"loading"}, "gone")
  /\ active' = FALSE
  /\ error' = a
  /\ ShowButton(a, "enabled")
  /\ UNCHANGED <<here, timer, failed, current, rest>>

-----------------------------------------------------------------------------
(* The socket's events.                                                    *)

\* {"type":"connected"}
Connected(a) ==
  /\ Goes(a, {"opening", "ready"}, "ready")
  /\ timer' = timer \ {a}
  /\ error' = None
  /\ ShowButton(a, "hidden")
  /\ UNCHANGED <<here, failed, current, active, rest>>

FailTerminal(a) ==
  /\ failed' = failed \cup {a}
  /\ timer' = timer \ {a}
  /\ active' = FALSE
  /\ error' = a
  /\ ShowButton(a, "enabled")

\* {"type":"error"}: the socket stays open until the server closes it.
Refused(a) ==
  /\ Goes(a, {"opening", "ready"}, "refused")
  /\ FailTerminal(a)
  /\ UNCHANGED <<here, current, rest>>

\* connectionTimer, 15 s after the socket was made.  A socket that somebody else
\* has closed by then still has its timer.
TimerFires(a) ==
  /\ a \in timer
  /\ FailTerminal(a)
  /\ stage' = Closed(a)
  /\ UNCHANGED <<here, current, rest>>

\* What the events of a socket's end have in common.  One that breaks tells of an error
\* first, in the same task, which counts unless the failure has been shown before.
Breaks(a, broken) ==
  /\ Goes(a, Live \cup {"closing"}, "gone")
  /\ timer' = timer \ {a}
  /\ failed' = IF broken THEN failed \cup {a} ELSE failed
  /\ error' = IF broken /\ a \notin failed THEN a ELSE error
  /\ UNCHANGED <<here, current, rest>>

\* Mutants: the page is not told that the terminal is gone; the overlay is shown
\* again for a terminal whose failure has been shown before.
CloseEventKeepsActive(a, broken) ==
  /\ Breaks(a, broken)
  /\ ShowButton(a, IF a \in failed THEN overlay ELSE "enabled")
  /\ UNCHANGED active

CloseEventAlwaysShown(a, broken) ==
  /\ Breaks(a, broken)
  /\ active' = FALSE
  /\ ShowButton(a, "enabled")

\* The error and the close event: the server or the network has closed the socket, or
\* the closing handshake that this page began is over.
CloseEvent(a, broken) ==
  /\ Breaks(a, broken)
  /\ active' = FALSE
  /\ ShowButton(a, IF a \in failed THEN overlay ELSE "enabled")

-----------------------------------------------------------------------------
(* What the page does to the terminal.                                     *)

\* An attempt that may still write to the overlay of its element.
Working(a) == stage[a] \in {"loading", "opening", "ready"}
Leaving(a) == stage[a] = "closing" /\ a \notin failed
Holds(a)   == Working(a) \/ Leaving(a)

\* restoreSandboxTerminalError, at the end of every htmx:afterSwap: what is shown of
\* button when to is the page.
Restored(to, button) ==
  IF error # None /\ to = "sandbox" /\ button # "none" THEN "enabled" ELSE button

\* htmx:afterSwap of the content.  The terminal's element is new or there is none;
\* a stats panel that is still selected loads its fragment again.
ReplaceContent(to, button) ==
  /\ page' = to
  /\ overlay' = Restored(to, button)
  /\ (button = "enabled" => to = "sandbox")
  /\ here' = {}
  /\ stage' = Closed(current)
  /\ current' = None
  /\ active' = FALSE
  /\ muddled' = FALSE
  /\ changing' = FALSE
  /\ requests' = IF to = "sandbox" /\ panel = "stats" THEN {"panel"} ELSE {}
  /\ UNCHANGED <<panel, timer, failed, error>>

Buttons == {"enabled", "none"}   \* a sandbox that runs, and one that does not

Navigate(to, button) == ReplaceContent(to, button)

RefreshSwap(button) ==
  /\ "refresh" \in requests
  /\ ReplaceContent(page, button)

ActionSwap(button) ==
  /\ "action" \in requests
  /\ ReplaceContent("sandbox", button)

\* htmx:afterSwap of anything else: the terminal's element is still the same.
KeepContent ==
  /\ stage' = IF page = "sandbox" THEN stage ELSE Closed(current)
  /\ current' = IF page = "sandbox" THEN current ELSE None
  /\ active' = (page = "sandbox" /\ IsLive(current))
  /\ overlay' = Restored(page, overlay)
  /\ muddled' = (muddled \/ (error # None /\ \E a \in here : Holds(a)))
  /\ changing' = FALSE
  /\ UNCHANGED <<page, panel, here, timer, failed, error>>

PanelSwap ==
  /\ "panel" \in requests
  /\ requests' = requests \ {"panel"}
  /\ KeepContent

\* The result, or the polled status, of a snapshot or a deployment in its modal.
ModalSwap ==
  /\ KeepContent
  /\ UNCHANGED requests

\* A response that is not swapped, or none at all.
RequestFails(what) ==
  /\ what \in requests
  /\ requests' = requests \ {what}
  /\ UNCHANGED <<page, panel, overlay, here, socket, current, active, error, muddled, changing>>

\* window.refreshDashboard
Refresh ==
  /\ ~changing
  /\ \/ page = "sandbox" /\ panel = "stats" /\ requests' = requests \cup {"panel"}
     \/ /\ ~(page = "sandbox" /\ panel = "stats")
        /\ ~active
        /\ requests' = requests \cup {"refresh"}
  /\ UNCHANGED <<page, panel, overlay, here, socket, current, active, error, muddled, changing>>

SelectPanel(to) ==
  /\ page = "sandbox"
  /\ panel' = to
  /\ requests' = requests \cup (IF to = "stats" THEN {"panel"} ELSE {})
  /\ UNCHANGED <<page, overlay, here, socket, current, active, error, muddled, changing>>

\* htmx:beforeRequest of the pause or the resume button, which is disabled while
\* its request is under way.
ChangeSandbox ==
  /\ page = "sandbox" /\ "action" \notin requests
  /\ panel' = "details"
  /\ changing' = TRUE
  /\ active' = FALSE
  /\ stage' = Closed(current)
  /\ current' = None
  /\ error' = None
  /\ requests' = requests \cup {"action"}
  /\ UNCHANGED <<page, overlay, here, timer, failed, muddled>>

-----------------------------------------------------------------------------
Init ==
  /\ page \in {"sandbox", "other"}
  /\ panel = "details"
  /\ overlay = "none"
  /\ here = {}
  /\ stage = [a \in Attempts |-> "unused"]
  /\ timer = {}
  /\ failed = {}
  /\ current = None
  /\ active = FALSE
  /\ error = None
  /\ muddled = FALSE
  /\ changing = FALSE
  /\ requests = {"refresh"}   \* the page is a frame whose content loads first

Load(a)   == OpenSocket(a) \/ LoadFails(a)
Ends(a)   == \E broken \in BOOLEAN : CloseEvent(a, broken)
Socket(a) == Connected(a) \/ Refused(a) \/ TimerFires(a) \/ Ends(a)

Swap ==
  \/ \E button \in Buttons :
       \/ Navigate("sandbox", button)
       \/ page = "sandbox" /\ RefreshSwap(button)
       \/ ActionSwap(button)
  \/ Navigate("other", "none")
  \/ page = "other" /\ RefreshSwap("none")
  \/ PanelSwap
  \/ ModalSwap

User ==
  \/ ConnectIgnored
  \/ \E to \in {"details", "stats"} : SelectPanel(to)
  \/ ChangeSandbox

Next ==
  \/ \E a \in Attempts : Connect(a) \/ Load(a) \/ Socket(a)
  \/ Swap
  \/ User
  \/ Refresh
  \/ \E what \in Requests : RequestFails(what)

\* Loading ends, timers fire, and a browser gives up waiting for the other side
\* of a closing handshake.  Nobody else need do anything.
Fairness ==
  \A a \in Attempts :
    /\ WF_vars(Load(a))
    /\ WF_vars(TimerFires(a))
    /\ WF_vars(stage[a] = "closing" /\ Ends(a))

Spec == Init /\ [][Next]_vars

FairSpec == Spec /\ Fairness

-----------------------------------------------------------------------------
TypeOK ==
  /\ page \in {"sandbox", "other"}
  /\ panel \in {"details", "stats"}
  /\ overlay \in {"enabled", "busy", "hidden", "none"}
  /\ here \subseteq Attempts
  /\ stage \in [Attempts -> Live \cup {"unused", "loading", "closing", "gone"}]
  /\ timer \subseteq Attempts
  /\ failed \subseteq Attempts
  /\ current \in Attempts \cup {None}
  /\ active \in BOOLEAN
  /\ error \in Attempts \cup {None}
  /\ muddled \in BOOLEAN
  /\ changing \in BOOLEAN
  /\ requests \subseteq Requests

\* The overlay tells the truth about the terminal under it, whatever late timers,
\* close events and replaced elements of earlier attempts write to it: it offers
\* to connect only when nothing is working there, is busy only while something is
\* sure to come of it (the end of the loading, the timer, a close event), and
\* uncovers only a terminal that is connected or whose close event is still to come.
\* The exception is an error that an attempt of an earlier element has left, and that a
\* swapped fragment shows over the attempt that works here.
OverlayTellsTruth ==
  muddled \/
    /\ overlay = "enabled" => \A a \in here : ~Working(a)
    /\ overlay = "busy" =>
         \E a \in here :
           \/ stage[a] = "loading"
           \/ stage[a] = "opening" /\ a \in timer
           \/ Leaving(a)
    /\ overlay = "hidden" => \E a \in here : stage[a] = "ready" \/ Leaving(a)

\* Why OverlayTellsTruth holds: one attempt at most may still write to the overlay
\* of an element, and none while its button is enabled or its error is kept.
OneHoldsTheOverlay ==
  muddled \/
    /\ overlay = "enabled" \/ error \in here => \A a \in here : ~Holds(a)
    /\ \A a, b \in here : Holds(a) /\ Holds(b) => a = b

\* An attempt that has failed has had its say, and its timer has been stopped; one
\* that is opening has its timer.
TimersAreRight ==
  /\ overlay = "none" => here = {}
  /\ \A a \in timer : stage[a] \in {"opening", "closing"}
  /\ \A a \in Attempts : stage[a] = "opening" => a \in timer
  /\ \A a \in failed : stage[a] \in {"refused", "closing", "gone"} /\ a \notin timer
  /\ \A a \in Attempts : stage[a] = "refused" => a \in failed
  /\ \A a \in here : stage[a] # "unused"

\* osbTerminalActive, which suspends the live refresh, never outlives what it was set
\* for: a page that is not refreshed has an attempt that is loading, or the socket that
\* it knows of is connecting or open.
ActiveMeansBusy ==
  active => IsLive(current) \/ \E a \in Attempts : stage[a] = "loading"

TerminalInv ==
  TypeOK /\ OverlayTellsTruth /\ OneHoldsTheOverlay /\ TimersAreRight /\ ActiveMeansBusy

\* The button that says "Connecting" and cannot be clicked does not stay.
ConnectingEnds == (overlay = "busy") ~> (overlay # "busy")

=============================================================================
