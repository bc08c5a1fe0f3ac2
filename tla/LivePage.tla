------------------------------ MODULE LivePage ------------------------------
(***************************************************************************)
(* The live page of web/assets/app.js: the refresh of the content every    *)
(* five seconds against the links that navigate without leaving the        *)
(* document.                                                               *)
(*                                                                         *)
(* A link and the content itself both ask the server for new content, and  *)
(* both responses replace the content element.  A request's target is the  *)
(* element that was there when it was made, so the response that comes     *)
(* second finds its target detached: htmx then swaps nothing into the      *)
(* content, but still pushes the link's address and swaps the parts of the *)
(* response that go elsewhere in the page.  Two flags, each with a timer   *)
(* of ten seconds that is running as long as the flag is up, are to keep   *)
(* links and refreshes out of each other's way.                            *)
(*                                                                         *)
(* A button that deletes asks first, in a modal dialog, and its request is *)
(* made when the dialog has closed.  Neither the dialog nor a deletion     *)
(* that is under way holds the refresh back.  A delete button in a row of  *)
(* a list is part of a link, and what goes for links goes for it: a click  *)
(* on it raises the flag of navigation, or leaves the document for the     *)
(* link's address, and its request inherits that address to be pushed.     *)
(*                                                                         *)
(* Pausing, resuming and creating a sandbox replace the content as well,   *)
(* without a place in the history.  The request that the content makes as  *)
(* the document loads raises no flag: htmx makes it before app.js listens. *)
(*                                                                         *)
(* htmx keeps a copy of the body for each address that it leaves, and Back *)
(* swaps it in.  The dialogs that app.js knows of are out of the document  *)
(* from then on.  Left out are Back to an earlier document, and copies     *)
(* that htmx has dropped or has made of a page that was still loading.     *)
(*                                                                         *)
(* The terminal and the panels are in TerminalPage.                        *)
(***************************************************************************)
EXTENDS Naturals, Modal

CONSTANTS
  Clicks,       \* the clicks on navigation links, each on a link of its own
  ListDeletes,  \* the clicks on delete buttons in the rows of a list
  PageDeletes,  \* the clicks on the delete button of a sandbox's own page
  Actions,      \* the clicks that pause or resume the sandbox of the page
  Creations,    \* the forms sent that create a sandbox
  None,      \* no click: what the document came with, and who makes a refresh
  MaxSwaps   \* bound of the model: replacements of the content element

ASSUME LivePageAssumption ==
  /\ None \notin Clicks \cup ListDeletes \cup PageDeletes \cup Actions \cup Creations
  /\ Clicks \cap (ListDeletes \cup PageDeletes) = {}
  /\ Actions \cap (Clicks \cup ListDeletes \cup PageDeletes) = {}
  /\ Creations \cap (Clicks \cup ListDeletes \cup PageDeletes \cup Actions) = {}
  /\ MaxSwaps \in Nat

VARIABLES
  page,        \* the click whose content is shown
  address,     \* the click whose address was pushed last
  content,     \* the content element: how often it has been replaced
  copies,      \* what the copies kept for Back show, each under its address
  flying,      \* the requests under way
  document,    \* whether the content that it loads first has come
  queued,      \* the content element has a refresh waiting for the one under way
  refreshing,  \* osbDashboardRefreshActive and its timer
  navigating,  \* osbDashboardNavigationActive and its timer
  acting,      \* osbLifecycleActionActive
  lost,        \* the dialogs that app.js knows of are out of the document
  asking,      \* the request that the open dialog is about
  answer,      \* what the user answered first in the open dialog (history)
  clicked,     \* the clicks made so far
  disturbed    \* something has got in the way, in this document (history)

vars == <<page, address, content, copies, flying, document, queued, refreshing, navigating,
          acting, lost, modal, asking, answer, clicked, disturbed>>

shown  == <<page, address, content, copies>>
dialog == <<lost, modal, asking, answer>>

Deletes == ListDeletes \cup PageDeletes

\* dashboardNavigationElement: a link, or a button inside one.
Links == Clicks \cup ListDeletes

Pages == Links \cup PageDeletes \cup Creations \cup {None}

Requests == [click : Pages \cup Actions, target : 0 .. MaxSwaps]
Copies   == [of : Pages, shows : Pages]

Attached(q) == q.target = content

\* The content's request that is under way is the one that no flag stands for.
loading == document = "loading"

\* The content that the document comes with has no links and no buttons.
HasButton(c) == c \in Clicks \/ document = "filled"

Refresh == [click |-> None, target |-> content]
Nothing == [click |-> None, target |-> 0]

\* What would be swapped in if it came now, and the links that were clicked for it.
Expected == {q \in flying : Attached(q)}
Awaited  == {q \in Expected : q.click \in Links}

Disturb(when) == disturbed' = (disturbed \/ when)

NoDialog == ModalGone /\ asking' = Nothing /\ answer' = "none"

-----------------------------------------------------------------------------
(* The user.                                                               *)

\* Mutant: every click goes on with htmx.
ClickDuringRefresh(c) ==
  /\ ~open
  /\ c \notin clicked
  /\ clicked' = clicked \cup {c}
  /\ navigating' = TRUE
  /\ flying' = flying \cup {[click |-> c, target |-> content]}
  /\ Disturb(loading \/ Expected \ {Refresh} # {})
  /\ UNCHANGED <<shown, document, queued, refreshing, acting, dialog>>

Click(c) ==
  /\ ~open
  /\ c \notin clicked
  /\ ~refreshing
  /\ clicked' = clicked \cup {c}
  /\ navigating' = TRUE
  /\ flying' = flying \cup {[click |-> c, target |-> content]}
  /\ Disturb(loading \/ Expected \ {Refresh} # {})
  /\ UNCHANGED <<shown, document, queued, refreshing, acting, dialog>>

\* window.location.assign: another document, whose content loads first.
LeaveDocument(c) ==
  /\ ~open
  /\ c \notin clicked
  /\ HasButton(c)
  /\ refreshing
  /\ content < MaxSwaps
  /\ clicked' = clicked \cup {c}
  /\ page' = c
  /\ address' = c
  /\ content' = content + 1
  /\ copies' = {}
  /\ flying' = {[click |-> None, target |-> content + 1]}
  /\ document' = "loading"
  /\ queued' = FALSE
  /\ refreshing' = FALSE /\ navigating' = FALSE /\ acting' = FALSE
  /\ NoDialog
  /\ lost' = FALSE
  /\ disturbed' = FALSE

\* The button that pauses or resumes, and its htmx:beforeRequest.
Act(x) ==
  /\ ~open
  /\ x \notin clicked
  /\ HasButton(x)
  /\ clicked' = clicked \cup {x}
  /\ acting' = TRUE
  /\ flying' = flying \cup {[click |-> x, target |-> content]}
  /\ Disturb(Awaited # {})
  /\ UNCHANGED <<shown, document, queued, refreshing, navigating, dialog>>

\* The form of the create dialog, whatever page is behind it by now.
Create(n) ==
  /\ ~open /\ ~lost
  /\ n \notin clicked
  /\ clicked' = clicked \cup {n}
  /\ flying' = flying \cup {[click |-> n, target |-> content]}
  /\ Disturb(TRUE)
  /\ UNCHANGED <<shown, document, queued, refreshing, navigating, acting, dialog>>

\* The copy of the page that is left, under the address that it has then.
Keep ==
  copies' = {k \in copies : k.of # address}
              \cup IF document = "filled" THEN {[of |-> address, shows |-> page]} ELSE {}

\* Back or Forward to an address whose copy is kept: popstate, and htmx:afterSwap.
GoBack(k) ==
  /\ k \in copies /\ k.of # address
  /\ content < MaxSwaps
  /\ Keep
  /\ page' = k.shows
  /\ address' = k.of
  /\ content' = content + 1
  /\ document' = "filled"
  /\ queued' = FALSE
  /\ refreshing' = FALSE /\ acting' = FALSE
  /\ NoDialog
  /\ lost' = TRUE
  /\ Disturb(Awaited # {})
  /\ UNCHANGED <<flying, navigating, clicked>>

\* The click on a delete button, htmx:confirm and osbModal.confirm, whose showModal
\* fails when its dialog is out of the document.
ClickDelete(c) ==
  /\ ~open
  /\ c \notin clicked
  /\ HasButton(c)
  /\ c \in ListDeletes => ~refreshing
  /\ clicked' = clicked \cup {c}
  /\ navigating' = (navigating \/ c \in ListDeletes)
  /\ \/ lost /\ UNCHANGED dialog
     \/ /\ ~lost
        /\ ShowModal
        /\ asking' = [click |-> c, target |-> content]
        /\ answer' = "none"
        /\ UNCHANGED lost
  /\ UNCHANGED <<shown, flying, document, queued, refreshing, acting, disturbed>>

\* A button of the dialog, its backdrop or Escape.
Answer(value) ==
  /\ Dismiss(value)
  /\ answer' = IF answer = "none" THEN value ELSE answer
  /\ UNCHANGED <<shown, flying, document, queued, refreshing, navigating, acting, lost, asking,
                 clicked, disturbed>>

\* The promise of osbModal.confirm.  issueRequest gives up, without a word, when
\* its button is not in the document any more.
IssueRequest ==
  IF Closes /\ returnValue = "confirm" /\ Attached(asking)
    THEN /\ flying' = flying \cup {asking}
         /\ Disturb(TRUE)
    ELSE UNCHANGED <<flying, disturbed>>

CloseDialog(by) ==
  /\ by
  /\ IssueRequest
  /\ IF Closes THEN asking' = Nothing /\ answer' = "none"
               ELSE UNCHANGED <<asking, answer>>
  /\ UNCHANGED <<shown, document, queued, refreshing, navigating, acting, lost, clicked>>

-----------------------------------------------------------------------------
(* The refresh.                                                            *)

StartRefresh(others) ==
  /\ flying' = others \cup {Refresh}
  /\ refreshing' = TRUE

\* Mutant: a navigation that is under way does not hold the refresh back.
RefreshAnyway ==
  /\ ~acting
  /\ \/ Refresh \notin flying /\ StartRefresh(flying) /\ UNCHANGED queued
     \/ Refresh \in flying /\ queued' = TRUE /\ UNCHANGED <<flying, refreshing>>
  /\ UNCHANGED <<shown, document, navigating, acting, dialog, clicked, disturbed>>

\* window.refreshDashboard.  htmx queues a request of an element that has one.
RefreshDashboard ==
  /\ ~navigating /\ ~acting
  /\ \/ Refresh \notin flying /\ StartRefresh(flying) /\ UNCHANGED queued
     \/ Refresh \in flying /\ queued' = TRUE /\ UNCHANGED <<flying, refreshing>>
  /\ UNCHANGED <<shown, document, navigating, acting, dialog, clicked, disturbed>>

-----------------------------------------------------------------------------
(* Responses.                                                              *)

\* htmx:beforeSwap is fired at the target, and reaches the body only from there.
BeforeSwap(q) ==
  navigating' = IF Attached(q) /\ q.click \in Links THEN FALSE ELSE navigating

\* An address that is pushed leaves a copy of what was there.
Pushes(q) == q.click \in Links \cup PageDeletes

Push(q) ==
  IF Pushes(q) THEN address' = q.click /\ Keep
               ELSE UNCHANGED <<address, copies>>

\* A refresh shows the same page again, and so do the others.
Shows(q) == q.click \in Clicks \cup PageDeletes \cup Creations

\* The element that had a refresh waiting is gone, and the refresh with it.
SwapContent(q) ==
  /\ q \in flying /\ Attached(q)
  /\ content < MaxSwaps
  /\ page' = IF Shows(q) THEN q.click ELSE page
  /\ Push(q)
  /\ content' = content + 1
  /\ flying' = flying \ {q}
  /\ document' = "filled"
  /\ queued' = FALSE
  /\ refreshing' = FALSE /\ acting' = FALSE
  /\ BeforeSwap(q)
  /\ UNCHANGED <<dialog, clicked, disturbed>>

\* The target is detached: the title, the toolbar and the counters of the page
\* are swapped all the same, which ends in htmx:afterSwap.
SwapTheRest(q) ==
  /\ q \in flying /\ ~Attached(q)
  /\ Push(q)
  /\ flying' = flying \ {q}
  /\ refreshing' = FALSE /\ acting' = FALSE
  /\ Disturb(refreshing /\ Refresh \in flying)
  /\ UNCHANGED <<page, content, document, queued, navigating, dialog, clicked>>

\* No swap: the response is an error (told TRUE) or the connection was lost.
\* Only an element that is attached tells the body of htmx:afterRequest, and a
\* refresh that was waiting starts whatever the flags say.
Fail(q, told) ==
  /\ q \in flying
  /\ IF q = Refresh
       THEN /\ queued' = FALSE
            /\ document' = IF loading THEN "empty" ELSE document
            /\ IF queued THEN StartRefresh(flying \ {q})
                         ELSE flying' = flying \ {q} /\ refreshing' = FALSE
       ELSE flying' = flying \ {q} /\ UNCHANGED <<document, queued, refreshing>>
  /\ IF told THEN BeforeSwap(q) ELSE UNCHANGED navigating
  /\ UNCHANGED <<shown, acting, dialog, clicked, disturbed>>

\* htmx:afterSwap of a panel or of a modal.
SwapFragment ==
  /\ refreshing \/ acting
  /\ refreshing' = FALSE /\ acting' = FALSE
  /\ Disturb(refreshing /\ Refresh \in flying)
  /\ UNCHANGED <<shown, flying, document, queued, navigating, dialog, clicked>>

-----------------------------------------------------------------------------
(* The timers.                                                             *)

RefreshTimer ==
  /\ refreshing
  /\ refreshing' = FALSE
  /\ Disturb(Refresh \in flying)
  /\ UNCHANGED <<shown, flying, document, queued, navigating, acting, dialog, clicked>>

\* Mutant: a link that was clicked is remembered until its response comes.
NavigationTimerNever ==
  /\ FALSE
  /\ UNCHANGED vars

NavigationTimer ==
  /\ navigating
  /\ navigating' = FALSE
  /\ Disturb(Awaited # {})
  /\ UNCHANGED <<shown, flying, document, queued, refreshing, acting, dialog, clicked>>

-----------------------------------------------------------------------------
Init ==
  /\ page = None
  /\ address = None
  /\ content = 0
  /\ copies = {}
  /\ flying = {[click |-> None, target |-> 0]}
  /\ document = "loading"
  /\ queued = FALSE
  /\ refreshing = FALSE /\ navigating = FALSE /\ acting = FALSE
  /\ lost = FALSE
  /\ ModalInit
  /\ asking = Nothing
  /\ answer = "none"
  /\ clicked = {}
  /\ disturbed = FALSE

User ==
  \/ \E c \in Clicks : Click(c)
  \/ \E c \in Links : LeaveDocument(c)
  \/ \E c \in Deletes : ClickDelete(c)
  \/ \E x \in Actions : Act(x)
  \/ \E n \in Creations : Create(n)
  \/ \E k \in Copies : GoBack(k)
  \/ \E value \in {"confirm", "cancel"} : Answer(value)
  \/ CloseDialog(CloseAtOnce)

Response ==
  \E q \in Requests :
    \/ SwapContent(q)
    \/ SwapTheRest(q)
    \/ \E told \in BOOLEAN : Fail(q, told)

Next ==
  \/ User
  \/ CloseDialog(FinishClose)
  \/ RefreshDashboard
  \/ Response
  \/ SwapFragment
  \/ RefreshTimer
  \/ NavigationTimer

Spec == Init /\ [][Next]_vars

\* Timers fire.  Users and servers need do nothing.
Fairness ==
  /\ WF_vars(RefreshTimer)
  /\ WF_vars(NavigationTimer)
  /\ WF_vars(CloseDialog(FinishClose))

FairSpec == Spec /\ Fairness

-----------------------------------------------------------------------------
TypeOK ==
  /\ ModalTypeOK
  /\ page \in Pages
  /\ address \in Pages
  /\ content \in 0 .. MaxSwaps
  /\ copies \subseteq Copies
  /\ flying \subseteq Requests
  /\ document \in {"loading", "empty", "filled"}
  /\ queued \in BOOLEAN
  /\ refreshing \in BOOLEAN
  /\ navigating \in BOOLEAN
  /\ acting \in BOOLEAN
  /\ lost \in BOOLEAN
  /\ asking \in Requests
  /\ answer \in {"none", "confirm", "cancel"}
  /\ clicked \subseteq Pages \cup Actions
  /\ disturbed \in BOOLEAN

\* The page shows what its address says, unless one of these has happened in the
\* document: a timer that gave up on a request still under way, or a fragment that
\* lowered the flag of a refresh still under way; a click while something else was under
\* way for the same content (the loading of the document, a pause, another click), or a
\* pause or a Back while a click was; a creation, which shows the list of sandboxes under
\* any address; or a deletion, which no flag protects, and which pushes the address of the
\* sandbox that it has deleted when its button is in a list.  Without them a refresh and a
\* click are never under way for the same content.
AddressTellsPage == page # address => disturbed

\* Why AddressTellsPage holds: while nothing has got in the way, the flags are up
\* for as long as the requests that they stand for, those exclude each other, and the
\* copies for Back are of what their addresses say.
FlagsStandForRequests ==
  ~disturbed =>
    /\ Refresh \in flying => refreshing \/ loading
    /\ \A q \in Awaited : navigating /\ Expected = {q}
    /\ \A q \in flying : Pushes(q) => Attached(q) /\ q.click \notin Deletes
    /\ \A q \in flying : q.click \notin Creations
    /\ \A k \in copies : k.shows = k.of

NothingFromTheFuture ==
  /\ \A q \in flying : q.target <= content
  /\ \A q \in flying \cup {asking} : q.click # None => q.click \in clicked

\* Why OnlyConfirmedAsked holds: what the dialog would return when it closes is what
\* its user has answered, and a dialog that is on its way out has someone to close it.
DialogTellsAnswer ==
  /\ open /\ returnValue = "confirm" => answer = "confirm"
  /\ open /\ ~closing => answer = "none"
  /\ closing => finishers > 0

LiveInv ==
  /\ TypeOK
  /\ AddressTellsPage
  /\ FlagsStandForRequests
  /\ NothingFromTheFuture
  /\ DialogTellsAnswer

\* A link holds the refresh back for a while only, whatever becomes of its response:
\* a response whose target is detached does not lower the flag.
RefreshComesBack == []<>(~navigating)

\* Nothing is deleted that the user has not confirmed, in the dialog that was shown for
\* it and before anything else was answered there: neither a second answer during the
\* exit animation nor the late end of an earlier dialog's animation can confirm.
OnlyConfirmedAsked ==
  [][\A q \in flying' \ flying : q.click \in Deletes =>
       /\ answer = "confirm"
       /\ q = asking]_vars

\* A dialog that has been answered does close.
AnsweredDialogCloses == (open /\ closing) ~> ~open

\* The comment on the click (app.js:352) says of a live refresh that is in flight that
\* leaving the document "cancels that refresh without allowing it to detach and discard
\* the click".  The flag of navigation holds back refreshes that are not yet in flight.
RefreshDiscardsNoClick ==
  [][SwapContent(Refresh) /\ document = "filled" /\ navigating => Awaited = {}]_vars

\* The end-to-end suite takes a deletion that was confirmed for one that is carried out
\* (e2e/tests/08-sandbox-delete.js:35 to :37), with live updates on.
ConfirmedIsAsked == [][Closes /\ answer = "confirm" /\ ~lost' => asking \in flying']_vars
=============================================================================
