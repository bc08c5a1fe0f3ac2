--------------------------- MODULE LivePageProofs ---------------------------
(***************************************************************************)
(* LiveInv is an inductive invariant of LivePage, for any sets of clicks   *)
(* and any number of swaps.  What has to be argued is the quiet document,  *)
(* in which nothing has got in the way: one lemma for each kind of step    *)
(* keeps it quiet, after lemmas on types and on targets.                   *)
(***************************************************************************)
EXTENDS LivePage, TLAPS

LEMMA RequestsHaveTypes ==
  /\ \A c \in Pages \cup Actions, t \in 0 .. MaxSwaps :
       [click |-> c, target |-> t] \in Requests
  /\ \A q \in Requests : q.click \in Pages \cup Actions /\ q.target \in 0 .. MaxSwaps
  /\ Clicks \subseteq Links /\ Links \subseteq Pages /\ Deletes \subseteq Pages
  /\ Creations \subseteq Pages /\ None \in Pages
  /\ \A c \in Pages : c = None <=> c \notin Links \cup PageDeletes \cup Creations
  BY LivePageAssumption DEF Requests, Links, Deletes, Pages

\* The kinds of clicks exclude each other.
LEMMA KindsAreApart ==
  /\ None \notin Links \cup Deletes \cup Actions \cup Creations
  /\ \A c \in Clicks : c \notin Deletes \cup Actions \cup Creations
  /\ \A c \in Deletes : c \notin Actions \cup Creations
  /\ \A c \in Actions : c \notin Links \cup Deletes \cup Creations
  /\ \A c \in Creations : c \notin Links \cup Deletes
  BY LivePageAssumption DEF Links, Deletes

LEMMA SwapsCount ==
  \A n \in 0 .. MaxSwaps : n < MaxSwaps => n + 1 \in 0 .. MaxSwaps
  BY LivePageAssumption

LEMMA RefreshHasType == TypeOK => Refresh \in Requests
  BY RequestsHaveTypes DEF TypeOK, Refresh

LEMMA InitEstablishesInv == Init => LiveInv
<1> SUFFICES ASSUME Init PROVE LiveInv
  OBVIOUS
<1>1. TypeOK
  <2>1. 0 \in 0 .. MaxSwaps
    BY LivePageAssumption
  <2>2. flying \subseteq Requests
    BY <2>1, RequestsHaveTypes DEF Init
  <2>3. asking \in Requests
    BY <2>1, RequestsHaveTypes DEF Init, Nothing
  <2>4. ModalTypeOK
    BY DEF Init, ModalInit, ModalTypeOK, Values
  <2>5. QED
    BY <2>1, <2>2, <2>3, <2>4, RequestsHaveTypes DEF Init, TypeOK
<1>2. \A q \in flying : q.click = None /\ q.target = content
  BY DEF Init
<1>3. Awaited = {}
  BY <1>2, KindsAreApart DEF Awaited, Expected
<1>4. FlagsStandForRequests
  BY <1>2, <1>3, KindsAreApart DEF Init, FlagsStandForRequests, Pushes, loading, Deletes
<1>5. NothingFromTheFuture
  BY <1>1, <1>2 DEF NothingFromTheFuture, TypeOK, Init, Nothing
<1>6. DialogTellsAnswer
  BY DEF Init, ModalInit, DialogTellsAnswer
<1>7. QED
  BY <1>1, <1>4, <1>5, <1>6 DEF Init, LiveInv, AddressTellsPage

(***************************************************************************)
(* The dialog: its types, and that it returns what its user answered       *)
(* first.  Only three actions touch it, and leaving the document.          *)
(***************************************************************************)
LEMMA CountDown == \A n \in Nat : n > 0 => n - 1 \in Nat
  OBVIOUS

LEMMA CountUp == \A n \in Nat : n + 1 \in Nat /\ n + 1 > 0
  OBVIOUS

LEMMA DialogSteps ==
  ASSUME [Next]_vars
  PROVE  \/ UNCHANGED dialog
         \/ \E c \in Links : LeaveDocument(c)
         \/ \E k \in Copies : GoBack(k)
         \/ \E c \in Deletes : ClickDelete(c)
         \/ \E value \in {"confirm", "cancel"} : Answer(value)
         \/ CloseDialog(FinishClose) \/ CloseDialog(CloseAtOnce)
  BY DEF Next, vars, User, Response, Click, Act, Create, RefreshDashboard, SwapContent, SwapTheRest, Fail,
         SwapFragment, RefreshTimer, NavigationTimer, dialog

LEMMA DialogPreserved ==
  ASSUME TypeOK, DialogTellsAnswer, [Next]_vars
  PROVE  ModalTypeOK' /\ DialogTellsAnswer' /\ answer' \in {"none", "confirm", "cancel"}
<1> USE DEF TypeOK, ModalTypeOK, DialogTellsAnswer, Values
<1>1. CASE UNCHANGED dialog
  BY <1>1 DEF dialog, modal
<1>2. ASSUME NEW c \in Links, LeaveDocument(c)
      PROVE  ModalTypeOK' /\ DialogTellsAnswer' /\ answer' \in {"none", "confirm", "cancel"}
  BY <1>2 DEF LeaveDocument, NoDialog, ModalGone
<1>3. ASSUME NEW c \in Deletes, ClickDelete(c)
      PROVE  ModalTypeOK' /\ DialogTellsAnswer' /\ answer' \in {"none", "confirm", "cancel"}
  <2>1. CASE UNCHANGED dialog
    BY <2>1 DEF dialog, modal
  <2>2. CASE ShowModal /\ answer' = "none"
    BY <2>2 DEF ShowModal
  <2>3. QED
    BY <1>3, <2>1, <2>2 DEF ClickDelete
<1>4. ASSUME NEW value \in {"confirm", "cancel"}, Answer(value)
      PROVE  ModalTypeOK' /\ DialogTellsAnswer' /\ answer' \in {"none", "confirm", "cancel"}
  <2>1. finishers' \in Nat /\ finishers' > 0
    BY <1>4, CountUp DEF Answer, Dismiss
  <2>2. answer = "none"
    BY <1>4 DEF Answer, Dismiss
  <2>3. QED
    BY <1>4, <2>1, <2>2 DEF Answer, Dismiss
<1>5. CASE CloseDialog(FinishClose)
  <2>1. finishers' \in Nat
    BY <1>5, CountDown DEF CloseDialog, FinishClose
  <2>2. QED
    BY <1>5, <2>1 DEF CloseDialog, FinishClose, Closes
<1>6. CASE CloseDialog(CloseAtOnce)
  BY <1>6 DEF CloseDialog, CloseAtOnce, Closes
<1>7. ASSUME NEW k \in Copies, GoBack(k)
      PROVE  ModalTypeOK' /\ DialogTellsAnswer' /\ answer' \in {"none", "confirm", "cancel"}
  BY <1>7 DEF GoBack, NoDialog, ModalGone
<1>8. QED
  BY <1>1, <1>2, <1>3, <1>4, <1>5, <1>6, <1>7, DialogSteps

PageTypeOK ==
  /\ page \in Pages /\ address \in Pages
  /\ content \in 0 .. MaxSwaps
  /\ copies \subseteq Copies
  /\ flying \subseteq Requests
  /\ document \in {"loading", "empty", "filled"}
  /\ queued \in BOOLEAN /\ refreshing \in BOOLEAN /\ navigating \in BOOLEAN
  /\ acting \in BOOLEAN /\ lost \in BOOLEAN
  /\ asking \in Requests
  /\ clicked \subseteq Pages \cup Actions
  /\ disturbed \in BOOLEAN

LEMMA NothingHasType == Nothing \in Requests
<1>1. 0 \in 0 .. MaxSwaps
  BY LivePageAssumption
<1>2. QED
  BY <1>1, RequestsHaveTypes DEF Nothing

LEMMA KeepHasType ==
  ASSUME TypeOK, Keep
  PROVE  copies' \subseteq Copies
  BY DEF TypeOK, Keep, Copies

LEMMA PushHasType ==
  ASSUME TypeOK, NEW q \in Requests, Push(q)
  PROVE  address' \in Pages /\ copies' \subseteq Copies
  BY KeepHasType, RequestsHaveTypes DEF TypeOK, Push, Pushes, Deletes, Pages

LEMMA PageTypesPreserved ==
  ASSUME TypeOK, [Next]_vars
  PROVE  PageTypeOK'
<1> USE RequestsHaveTypes, NothingHasType
        DEF TypeOK, PageTypeOK, Disturb, shown, dialog, NoDialog
<1>1. ASSUME NEW c \in Clicks, Click(c) PROVE PageTypeOK'
  BY <1>1 DEF Click
<1>2. ASSUME NEW c \in Links, LeaveDocument(c) PROVE PageTypeOK'
  <2>1. content + 1 \in 0 .. MaxSwaps
    BY <1>2, SwapsCount DEF LeaveDocument
  <2>2. flying' \subseteq Requests
    BY <1>2, <2>1 DEF LeaveDocument
  <2>3. QED
    BY <1>2, <2>1, <2>2 DEF LeaveDocument
<1>3. ASSUME NEW c \in Deletes, ClickDelete(c) PROVE PageTypeOK'
  <2>1. asking' \in Requests /\ lost' \in BOOLEAN
    BY <1>3 DEF ClickDelete
  <2>2. clicked' \subseteq Pages \cup Actions
    BY <1>3 DEF ClickDelete
  <2>3. QED
    BY <1>3, <2>1, <2>2 DEF ClickDelete
<1>4. ASSUME NEW value \in {"confirm", "cancel"}, Answer(value) PROVE PageTypeOK'
  BY <1>4 DEF Answer
<1>5. ASSUME NEW by, CloseDialog(by) PROVE PageTypeOK'
  <2>1. flying' \subseteq Requests /\ disturbed' \in BOOLEAN
    BY <1>5 DEF CloseDialog, IssueRequest
  <2>2. asking' \in Requests
    BY <1>5 DEF CloseDialog
  <2>3. QED
    BY <1>5, <2>1, <2>2 DEF CloseDialog
<1>6. CASE RefreshDashboard
  <2>1. flying' \subseteq Requests
    BY <1>6, RefreshHasType DEF RefreshDashboard, StartRefresh
  <2>2. queued' \in BOOLEAN /\ refreshing' \in BOOLEAN
    BY <1>6 DEF RefreshDashboard, StartRefresh
  <2>3. QED
    BY <1>6, <2>1, <2>2 DEF RefreshDashboard
<1>7. ASSUME NEW q \in Requests, SwapContent(q) PROVE PageTypeOK'
  <2>1. content' \in 0 .. MaxSwaps
    BY <1>7, SwapsCount DEF SwapContent
  <2>2. navigating' \in BOOLEAN
    BY <1>7 DEF SwapContent, BeforeSwap
  <2>3. page' \in Pages
    BY <1>7 DEF SwapContent, Shows, Pages, Links
  <2>4. address' \in Pages /\ copies' \subseteq Copies
    BY <1>7, PushHasType DEF SwapContent
  <2>5. QED
    BY <1>7, <2>1, <2>2, <2>3, <2>4 DEF SwapContent
<1>8. ASSUME NEW q \in Requests, SwapTheRest(q) PROVE PageTypeOK'
  <2>1. address' \in Pages /\ copies' \subseteq Copies
    BY <1>8, PushHasType DEF SwapTheRest
  <2>2. QED
    BY <1>8, <2>1 DEF SwapTheRest
<1>9. ASSUME NEW q \in Requests, NEW told \in BOOLEAN, Fail(q, told) PROVE PageTypeOK'
  <2>1. flying' \subseteq Requests /\ queued' \in BOOLEAN /\ refreshing' \in BOOLEAN
    BY <1>9 DEF Fail, StartRefresh, Refresh
  <2>2. navigating' \in BOOLEAN /\ document' \in {"loading", "empty", "filled"}
    BY <1>9 DEF Fail, BeforeSwap
  <2>3. QED
    BY <1>9, <2>1, <2>2 DEF Fail
<1>10. CASE SwapFragment
  BY <1>10 DEF SwapFragment
<1>11. CASE RefreshTimer
  BY <1>11 DEF RefreshTimer
<1>12. CASE NavigationTimer
  BY <1>12 DEF NavigationTimer
<1>13. CASE UNCHANGED vars
  BY <1>13 DEF vars
<1>14. ASSUME NEW x \in Actions, Act(x) PROVE PageTypeOK'
  BY <1>14 DEF Act
<1>15. ASSUME NEW n \in Creations, Create(n) PROVE PageTypeOK'
  BY <1>15 DEF Create
<1>16. ASSUME NEW k \in Copies, GoBack(k) PROVE PageTypeOK'
  <2>1. content' \in 0 .. MaxSwaps
    BY <1>16, SwapsCount DEF GoBack
  <2>2. copies' \subseteq Copies /\ page' \in Pages /\ address' \in Pages
    BY <1>16, KeepHasType DEF GoBack, Copies
  <2>3. QED
    BY <1>16, <2>1, <2>2 DEF GoBack
<1>17. QED
  BY <1>1, <1>2, <1>3, <1>4, <1>5, <1>6, <1>7, <1>8, <1>9, <1>10, <1>11, <1>12, <1>13,
     <1>14, <1>15, <1>16
     DEF Next, User, Response

LEMMA TypesPreserved ==
  ASSUME TypeOK, DialogTellsAnswer, [Next]_vars
  PROVE  TypeOK'
<1>1. PageTypeOK'
  BY PageTypesPreserved
<1>2. ModalTypeOK' /\ answer' \in {"none", "confirm", "cancel"}
  BY DialogPreserved
<1>3. QED
  BY <1>1, <1>2 DEF TypeOK, PageTypeOK

(***************************************************************************)
(* A request is for the content that is there or for one that was there,   *)
(* so no request is under way for content that has just been swapped in.   *)
(***************************************************************************)
LEMMA TargetsPreserved ==
  ASSUME TypeOK, NothingFromTheFuture, [Next]_vars
  PROVE  NothingFromTheFuture'
<1> USE LivePageAssumption, RequestsHaveTypes
        DEF TypeOK, NothingFromTheFuture, Nothing, shown, dialog, NoDialog
<1>1. ASSUME NEW c \in Clicks, Click(c) PROVE NothingFromTheFuture'
  BY <1>1 DEF Click
<1>2. ASSUME NEW c \in Links, LeaveDocument(c) PROVE NothingFromTheFuture'
  BY <1>2 DEF LeaveDocument
<1>3. ASSUME NEW c \in Deletes, ClickDelete(c) PROVE NothingFromTheFuture'
  BY <1>3 DEF ClickDelete
<1>4. ASSUME NEW value \in {"confirm", "cancel"}, Answer(value) PROVE NothingFromTheFuture'
  BY <1>4 DEF Answer
<1>5. ASSUME NEW by, CloseDialog(by) PROVE NothingFromTheFuture'
  <2>1. flying' \subseteq flying \cup {asking} /\ UNCHANGED <<content, clicked>>
    BY <1>5 DEF CloseDialog, IssueRequest
  <2>2. \A q \in flying' \ flying : q.target = content
    BY <1>5 DEF CloseDialog, IssueRequest, Attached
  <2>3. asking' \in {asking, Nothing}
    BY <1>5 DEF CloseDialog
  <2>4. \A q \in flying' : q.target <= content
    BY <2>1, <2>2
  <2>5. QED
    BY <2>1, <2>3, <2>4
<1>6. CASE RefreshDashboard
  BY <1>6 DEF RefreshDashboard, StartRefresh, Refresh
<1>7. ASSUME NEW q \in Requests, SwapContent(q) PROVE NothingFromTheFuture'
  BY <1>7 DEF SwapContent
<1>8. ASSUME NEW q \in Requests, SwapTheRest(q) PROVE NothingFromTheFuture'
  BY <1>8 DEF SwapTheRest
<1>9. ASSUME NEW q \in Requests, NEW told \in BOOLEAN, Fail(q, told)
      PROVE  NothingFromTheFuture'
  BY <1>9 DEF Fail, StartRefresh, Refresh
<1>10. CASE SwapFragment \/ RefreshTimer \/ NavigationTimer
  BY <1>10 DEF SwapFragment, RefreshTimer, NavigationTimer
<1>11. CASE UNCHANGED vars
  BY <1>11 DEF vars
<1>12. ASSUME NEW x \in Actions, Act(x) PROVE NothingFromTheFuture'
  BY <1>12 DEF Act
<1>13. ASSUME NEW n \in Creations, Create(n) PROVE NothingFromTheFuture'
  BY <1>13 DEF Create
<1>14. ASSUME NEW k \in Copies, GoBack(k) PROVE NothingFromTheFuture'
  BY <1>14 DEF GoBack
<1>15. QED
  BY <1>1, <1>2, <1>3, <1>4, <1>5, <1>6, <1>7, <1>8, <1>9, <1>10, <1>11, <1>12, <1>13, <1>14
     DEF Next, User, Response

(***************************************************************************)
(* A quiet document: what AddressTellsPage and FlagsStandForRequests say   *)
(* while nothing has got in the way.                                       *)
(***************************************************************************)
Quiet ==
  /\ page = address
  /\ Refresh \in flying => refreshing \/ loading
  /\ \A q \in Awaited : navigating /\ Expected = {q}
  /\ \A q \in flying : Pushes(q) => Attached(q) /\ q.click \notin Deletes
  /\ \A q \in flying : q.click \notin Creations
  /\ \A k \in copies : k.shows = k.of

LEMMA QuietMeansInv ==
  (~disturbed => Quiet) <=> (AddressTellsPage /\ FlagsStandForRequests)
  BY DEF Quiet, AddressTellsPage, FlagsStandForRequests

\* Whatever pushes an address is a link that is awaited.
LEMMA PushersAreAwaited ==
  ASSUME Quiet, NEW q \in flying, Pushes(q)
  PROVE  q \in Awaited /\ q.click \in Clicks
  BY DEF Quiet, Awaited, Expected, Pushes, Links, Deletes

\* New content has nobody asking for it yet.
LEMMA NewContentIsUnasked ==
  ASSUME TypeOK, NothingFromTheFuture, content' = content + 1
  PROVE  \A q \in flying : q.target # content'
<1>1. content \in Nat
  BY DEF TypeOK
<1>2. \A q \in flying : q.target <= content /\ q.target \in Nat
  BY RequestsHaveTypes DEF NothingFromTheFuture, TypeOK
<1>3. QED
  BY <1>1, <1>2

LEMMA LeavingIsQuiet ==
  ASSUME NEW c \in Links, LeaveDocument(c)
  PROVE  Quiet'
<1>1. \A q \in flying' : q.click = None
  BY DEF LeaveDocument
<1>2. Awaited' = {}
  BY <1>1, KindsAreApart DEF Awaited, Expected
<1>3. \A q \in flying' : ~Pushes(q)
  BY <1>1, KindsAreApart DEF Pushes, Deletes
<1>4. QED
  BY <1>1, <1>2, <1>3, KindsAreApart DEF LeaveDocument, Quiet, loading, Pushes

(***************************************************************************)
(* A link that is clicked finds nothing under way, and a pause finds no    *)
(* link.                                                                   *)
(***************************************************************************)
LEMMA UserKeepsQuiet ==
  ASSUME TypeOK, Quiet, ~disturbed',
         \/ \E c \in Clicks : Click(c)
         \/ \E x \in Actions : Act(x)
         \/ \E n \in Creations : Create(n)
  PROVE  Quiet'
<1>1. ASSUME NEW c \in Clicks, Click(c) PROVE Quiet'
  <2> DEFINE new == [click |-> c, target |-> content]
  <2>1. ~loading /\ Expected \subseteq {Refresh} /\ ~refreshing
    BY <1>1 DEF Click, Disturb
  <2>2. Refresh \notin flying
    BY <2>1 DEF Quiet
  <2>3. Expected = {}
    BY <2>1, <2>2 DEF Expected
  <2>4. UNCHANGED <<page, address, content, copies>> /\ flying' = flying \cup {new} /\ navigating'
    BY <1>1 DEF Click, shown
  <2>5. Refresh' \notin flying'
    BY <2>2, <2>4, KindsAreApart DEF Refresh, Links
  <2>6. Expected' = {new}
    BY <2>3, <2>4 DEF Expected, Attached
  <2>7. \A q \in Awaited' : navigating' /\ Expected' = {q}
    BY <2>4, <2>6 DEF Awaited
  <2>8. new.click = c /\ Attached(new)
    BY DEF Attached
  <2>9. \A q \in flying' : Pushes(q) => Attached(q)' /\ q.click \notin Deletes
    BY <2>4, <2>8, KindsAreApart DEF Quiet, Attached
  <2>10. \A q \in flying' : q.click \notin Creations
    BY <2>4, <2>8, KindsAreApart DEF Quiet
  <2>11. QED
    BY <2>4, <2>5, <2>7, <2>9, <2>10 DEF Quiet, Pushes
<1>2. ASSUME NEW x \in Actions, Act(x) PROVE Quiet'
  <2> DEFINE new == [click |-> x, target |-> content]
  <2>1. Awaited = {}
    BY <1>2 DEF Act, Disturb
  <2>2. /\ UNCHANGED <<page, address, content, copies, document, refreshing>>
        /\ flying' = flying \cup {new}
    BY <1>2 DEF Act, shown
  <2>3. new.click = x /\ x \notin Links \cup Deletes \cup Creations /\ x # None
    BY KindsAreApart
  <2>4. Refresh' = Refresh /\ Refresh # new
    BY <2>2, <2>3 DEF Refresh
  <2>5. Awaited' = {}
    BY <2>1, <2>2, <2>3 DEF Awaited, Expected, Attached
  <2>6. \A q \in flying' : Pushes(q) => Attached(q)' /\ q.click \notin Deletes
    BY <2>2, <2>3 DEF Quiet, Attached, Pushes, Deletes
  <2>7. QED
    BY <2>2, <2>3, <2>4, <2>5, <2>6 DEF Quiet, Pushes, loading
<1>3. ASSUME NEW n \in Creations, Create(n) PROVE Quiet'
  BY <1>3 DEF Create, Disturb
<1>4. QED
  BY <1>1, <1>2, <1>3

\* A step back that leaves the document quiet found no link that was awaited.
LEMMA BackKeepsQuiet ==
  ASSUME TypeOK, NothingFromTheFuture, Quiet, ~disturbed', NEW k \in Copies, GoBack(k)
  PROVE  Quiet'
<1>1. Awaited = {}
  BY DEF GoBack, Disturb
<1>2. \A q \in flying : ~Pushes(q)
  BY <1>1, PushersAreAwaited
<1>3. \A q \in flying : q.target # content'
  BY NewContentIsUnasked DEF GoBack
<1>4. Expected' = {} /\ Refresh' \notin flying' /\ flying' = flying
  BY <1>3 DEF GoBack, Expected, Attached, Refresh
<1>5. \A c \in copies' : c.shows = c.of
  BY DEF GoBack, Keep, Quiet
<1>6. page' = address'
  BY DEF GoBack, Quiet
<1>7. QED
  BY <1>2, <1>4, <1>5, <1>6 DEF Quiet, Awaited, Pushes

(***************************************************************************)
(* The dialog alone changes nothing, and when it makes a request the       *)
(* document is not quiet any more.                                         *)
(***************************************************************************)
LEMMA DialogKeepsQuiet ==
  ASSUME TypeOK, Quiet, ~disturbed',
         \/ \E c \in Deletes : ClickDelete(c)
         \/ \E value \in {"confirm", "cancel"} : Answer(value)
         \/ CloseDialog(FinishClose) \/ CloseDialog(CloseAtOnce)
  PROVE  Quiet'
<1>1. UNCHANGED <<shown, flying, document, refreshing>> /\ (navigating => navigating')
  <2>1. ASSUME NEW c \in Deletes, ClickDelete(c)
        PROVE  UNCHANGED <<shown, flying, document, refreshing>> /\ (navigating => navigating')
    BY <2>1 DEF ClickDelete
  <2>2. ASSUME NEW by, CloseDialog(by)
        PROVE  UNCHANGED <<shown, flying, document, refreshing, navigating>>
    BY <2>2 DEF CloseDialog, IssueRequest, Disturb
  <2>3. QED
    BY <2>1, <2>2 DEF Answer
<1>2. Refresh' = Refresh /\ Awaited' = Awaited /\ Expected' = Expected
  BY <1>1 DEF shown, Refresh, Awaited, Expected, Attached
<1>3. QED
  BY <1>1, <1>2 DEF shown, Quiet, Attached, Pushes, loading

LEMMA RefreshKeepsQuiet ==
  ASSUME TypeOK, Quiet, RefreshDashboard
  PROVE  Quiet'
<1>1. Awaited = {}
  BY DEF RefreshDashboard, Quiet
<1>2. /\ Refresh' = Refresh /\ Refresh.click = None
      /\ UNCHANGED <<page, address, content, copies, document>>
  BY DEF RefreshDashboard, shown, Refresh
<1>3. flying' \subseteq flying \cup {Refresh}
  BY DEF RefreshDashboard, StartRefresh
<1>4. Refresh' \in flying' => (refreshing \/ loading)'
  BY <1>2 DEF RefreshDashboard, StartRefresh, Quiet, loading
<1>5. Awaited' = {}
  BY <1>1, <1>2, <1>3, KindsAreApart DEF Awaited, Expected, Attached
<1>6. ~Pushes(Refresh) /\ Refresh.click \notin Creations
  BY <1>2, KindsAreApart DEF Pushes, Deletes
<1>7. QED
  BY <1>2, <1>3, <1>4, <1>5, <1>6 DEF Quiet, Pushes, Attached

(***************************************************************************)
(* The content that is swapped in is a link's, which nothing else was      *)
(* under way with, or shows the page that was there.                       *)
(***************************************************************************)
LEMMA SwapKeepsQuiet ==
  ASSUME TypeOK, NothingFromTheFuture, Quiet, NEW p \in Requests, SwapContent(p)
  PROVE  Quiet'
<1>1. p \in Expected
  BY DEF SwapContent, Expected
<1>2. \A q \in flying : q.target # content'
  BY NewContentIsUnasked DEF SwapContent
<1>3. flying' \subseteq flying /\ Refresh' \notin flying' /\ Expected' = {}
  BY <1>2 DEF SwapContent, Expected, Attached, Refresh
<1>4. \A q \in flying' : ~Pushes(q)
  <2>1. ASSUME NEW q \in flying', Pushes(q) PROVE FALSE
    <3>1. q \in flying /\ q # p
      BY <2>1 DEF SwapContent
    <3>2. q \in Awaited
      BY <2>1, <3>1, PushersAreAwaited
    <3>3. QED
      BY <1>1, <3>1, <3>2 DEF Quiet
  <2>2. QED
    BY <2>1
<1>5. page' = address' /\ (\A c \in copies' : c.shows = c.of)
  <2>1. CASE Pushes(p)
    <3>1. p.click \in Clicks
      BY <2>1, PushersAreAwaited DEF SwapContent
    <3>2. QED
      BY <2>1, <3>1 DEF SwapContent, Shows, Push, Keep, Quiet
  <2>2. CASE ~Pushes(p)
    <3>1. p.click \notin Clicks \cup PageDeletes \cup Creations
      BY <2>2 DEF SwapContent, Quiet, Pushes, Links
    <3>2. QED
      BY <2>2, <3>1 DEF SwapContent, Shows, Push, Quiet
  <2>3. QED
    BY <2>1, <2>2
<1>6. QED
  BY <1>3, <1>4, <1>5 DEF Quiet, Awaited, Pushes

LEMMA RestKeepsQuiet ==
  ASSUME TypeOK, Quiet, NEW p \in Requests, SwapTheRest(p), ~disturbed'
  PROVE  Quiet'
<1>1. ~Pushes(p)
  BY DEF SwapTheRest, Quiet
<1>2. /\ UNCHANGED <<page, address, content, copies, document, navigating>>
      /\ flying' = flying \ {p}
  BY <1>1 DEF SwapTheRest, Push
<1>3. Refresh' = Refresh /\ (Refresh \in flying => loading)
  BY <1>2 DEF SwapTheRest, Disturb, Quiet, Refresh
<1>4. Expected' = Expected /\ Awaited' = Awaited
  BY <1>2 DEF SwapTheRest, Expected, Awaited, Attached
<1>5. QED
  BY <1>2, <1>3, <1>4 DEF Quiet, Pushes, Attached, loading

\* A refresh that fails was under way with no link, and a link with nothing else.
LEMMA FailKeepsQuiet ==
  ASSUME TypeOK, Quiet, NEW p \in Requests, NEW told \in BOOLEAN, Fail(p, told)
  PROVE  Quiet'
<1>1. Refresh' = Refresh /\ UNCHANGED <<page, address, content, copies>> /\ p \in flying
  BY DEF Fail, shown, Refresh
<1>2. CASE p = Refresh
  <2>1. Refresh \in Expected /\ Refresh.click = None
    BY <1>1, <1>2 DEF Expected, Attached, Refresh
  <2>2. Awaited = {}
    BY <2>1, KindsAreApart DEF Quiet, Awaited
  <2>3. flying' \subseteq flying /\ (Refresh \in flying' => refreshing')
    BY <1>1, <1>2 DEF Fail, StartRefresh
  <2>4. Awaited' = {}
    BY <1>1, <2>2, <2>3 DEF Awaited, Expected, Attached
  <2>5. QED
    BY <1>1, <2>3, <2>4 DEF Quiet, Attached, Pushes
<1>3. CASE p # Refresh
  <2>1. flying' = flying \ {p} /\ UNCHANGED <<refreshing, document>>
    BY <1>3 DEF Fail
  <2>2. Expected' = Expected \ {p} /\ Awaited' = Awaited \ {p}
    BY <1>1, <2>1 DEF Expected, Awaited, Attached
  <2>3. ASSUME NEW q \in Awaited' PROVE navigating' /\ Expected' = {q}
    <3>1. navigating /\ Expected = {q} /\ q # p
      BY <2>2, <2>3 DEF Quiet
    <3>2. ~Attached(p)
      BY <1>1, <3>1 DEF Expected
    <3>3. QED
      BY <2>2, <3>1, <3>2 DEF Fail, BeforeSwap
  <2>4. QED
    BY <1>1, <2>1, <2>3 DEF Quiet, Attached, Pushes, loading
<1>4. QED
  BY <1>2, <1>3

(***************************************************************************)
(* A timer or a fragment that leaves the document quiet found no request   *)
(* for its flag to stand for.                                              *)
(***************************************************************************)
LEMMA LoweredFlagKeepsQuiet ==
  ASSUME TypeOK, Quiet, SwapFragment \/ RefreshTimer \/ NavigationTimer, ~disturbed'
  PROVE  Quiet'
<1>1. UNCHANGED <<page, address, content, copies, flying, document>>
  BY DEF SwapFragment, RefreshTimer, NavigationTimer, shown
<1>2. Refresh' = Refresh /\ Awaited' = Awaited /\ Expected' = Expected
  BY <1>1 DEF Refresh, Awaited, Expected, Attached
<1>3. CASE SwapFragment \/ RefreshTimer
  <2>1. (Refresh \in flying => loading) /\ navigating' = navigating
    BY <1>3 DEF SwapFragment, RefreshTimer, Disturb, Quiet
  <2>2. QED
    BY <1>1, <1>2, <2>1 DEF Quiet, Attached, Pushes, loading
<1>4. CASE NavigationTimer
  <2>1. Awaited = {} /\ refreshing' = refreshing
    BY <1>4 DEF NavigationTimer, Disturb
  <2>2. QED
    BY <1>1, <1>2, <2>1 DEF Quiet, Attached, Pushes, loading
<1>5. QED
  BY <1>3, <1>4

LEMMA NothingIsForgotten ==
  ASSUME [Next]_vars, ~disturbed'
  PROVE  ~disturbed \/ \E c \in Links : LeaveDocument(c)
  BY DEF Next, vars, User, Response, Click, Act, Create, GoBack, ClickDelete, Answer, CloseDialog,
         IssueRequest, RefreshDashboard, SwapContent, SwapTheRest, Fail, SwapFragment,
         RefreshTimer, NavigationTimer, Disturb

LEMMA StepPreservesInv == LiveInv /\ [Next]_vars => LiveInv'
<1> SUFFICES ASSUME LiveInv, [Next]_vars PROVE LiveInv'
  OBVIOUS
<1>1. TypeOK' /\ NothingFromTheFuture'
  BY TypesPreserved, TargetsPreserved DEF LiveInv
<1>2. ~disturbed => Quiet
  BY QuietMeansInv DEF LiveInv
<1>3. ASSUME ~disturbed' PROVE Quiet'
  <2>1. CASE \E c \in Links : LeaveDocument(c)
    BY <2>1, LeavingIsQuiet
  <2>2. CASE ~ \E c \in Links : LeaveDocument(c)
    <3>1. Quiet
      BY <1>2, <1>3, <2>2, NothingIsForgotten
    <3>2. CASE \/ \E c \in Clicks : Click(c)
               \/ \E x \in Actions : Act(x)
               \/ \E n \in Creations : Create(n)
      BY <1>3, <3>1, <3>2, UserKeepsQuiet DEF LiveInv
    <3>3. ASSUME NEW k \in Copies, GoBack(k) PROVE Quiet'
      BY <1>3, <3>1, <3>3, BackKeepsQuiet DEF LiveInv
    <3>4. CASE \/ \E c \in Deletes : ClickDelete(c)
               \/ \E value \in {"confirm", "cancel"} : Answer(value)
               \/ CloseDialog(FinishClose) \/ CloseDialog(CloseAtOnce)
      BY <1>3, <3>1, <3>4, DialogKeepsQuiet DEF LiveInv
    <3>5. CASE RefreshDashboard
      BY <3>1, <3>5, RefreshKeepsQuiet DEF LiveInv
    <3>6. ASSUME NEW q \in Requests, SwapContent(q) PROVE Quiet'
      BY <3>1, <3>6, SwapKeepsQuiet DEF LiveInv
    <3>7. ASSUME NEW q \in Requests, SwapTheRest(q) PROVE Quiet'
      BY <1>3, <3>1, <3>7, RestKeepsQuiet DEF LiveInv
    <3>8. ASSUME NEW q \in Requests, NEW told \in BOOLEAN, Fail(q, told) PROVE Quiet'
      BY <3>1, <3>8, FailKeepsQuiet DEF LiveInv
    <3>9. CASE SwapFragment \/ RefreshTimer \/ NavigationTimer
      BY <1>3, <3>1, <3>9, LoweredFlagKeepsQuiet DEF LiveInv
    <3>10. CASE UNCHANGED vars
      BY <3>1, <3>10 DEF vars, Quiet, Refresh, Awaited, Expected, Attached, Pushes, loading
    <3>11. QED
      BY <2>2, <3>2, <3>3, <3>4, <3>5, <3>6, <3>7, <3>8, <3>9, <3>10 DEF Next, User, Response
  <2>3. QED
    BY <2>1, <2>2
<1>4. AddressTellsPage' /\ FlagsStandForRequests'
  <2>1. (~disturbed => Quiet)'
    BY <1>3
  <2>2. QED
    BY <2>1, QuietMeansInv, PTL
<1>5. DialogTellsAnswer'
  BY DialogPreserved DEF LiveInv
<1>6. QED
  BY <1>1, <1>4, <1>5 DEF LiveInv

\* The flags stand for the requests under way, and these exclude each other, in every
\* document in which nothing that AddressTellsPage names has got in the way.
THEOREM InvariantHolds == Spec => []LiveInv
  BY InitEstablishesInv, StepPreservesInv, PTL DEF Spec

\* In such a document, whatever the number of clicks, of pauses and resumes, of swaps and
\* of steps back and forth, the content is the one that the address bar names.
THEOREM AddressIsTrue == Spec => []AddressTellsPage
<1>1. LiveInv => AddressTellsPage
  BY DEF LiveInv
<1>2. QED
  BY <1>1, InvariantHolds, PTL

\* Whatever the number of dialogs, of answers given to each and of animations that end
\* late, a deletion that is asked of the server is the one that the open dialog was shown
\* for, and it has been confirmed there.
THEOREM DeletionsAreConfirmed == Spec => OnlyConfirmedAsked
<1>1. ASSUME LiveInv, [Next]_vars, NEW q \in flying' \ flying, q.click \in Deletes
      PROVE  answer = "confirm" /\ q = asking
  <2> USE <1>1, LivePageAssumption, RequestsHaveTypes, KindsAreApart DEF Deletes
  <2>1. CASE CloseDialog(FinishClose) \/ CloseDialog(CloseAtOnce)
    BY <2>1 DEF CloseDialog, IssueRequest, Closes, LiveInv, DialogTellsAnswer
  <2>2. \A c \in Clicks : ~Click(c)
    BY DEF Click
  <2>3. \A c \in Links : ~LeaveDocument(c)
    BY DEF LeaveDocument
  <2>4. ~RefreshDashboard
    BY DEF RefreshDashboard, StartRefresh, Refresh
  <2>5. \A r \in Requests, told \in BOOLEAN : ~Fail(r, told)
    BY DEF Fail, StartRefresh, Refresh
  <2>6. (\A x \in Actions : ~Act(x)) /\ (\A n \in Creations : ~Create(n))
    <3>1. ASSUME NEW x \in Actions, Act(x) PROVE FALSE
      <4>1. q.click = x
        BY <3>1 DEF Act
      <4>2. QED
        BY <3>1, <4>1
    <3>2. ASSUME NEW n \in Creations, Create(n) PROVE FALSE
      <4>1. q.click = n
        BY <3>2 DEF Create
      <4>2. QED
        BY <3>2, <4>1
    <3>3. QED
      BY <3>1, <3>2
  <2>7. (\A c \in Deletes : ~ClickDelete(c)) /\ (\A k \in Copies : ~GoBack(k))
    BY DEF ClickDelete, GoBack
  <2>8. \A value \in {"confirm", "cancel"} : ~Answer(value)
    BY DEF Answer
  <2>9. \A r \in Requests : ~SwapContent(r) /\ ~SwapTheRest(r)
    BY DEF SwapContent, SwapTheRest
  <2>10. ~SwapFragment /\ ~RefreshTimer /\ ~NavigationTimer /\ ~UNCHANGED vars
    BY DEF SwapFragment, RefreshTimer, NavigationTimer, vars
  <2>11. QED
    BY <2>1, <2>2, <2>3, <2>4, <2>5, <2>6, <2>7, <2>8, <2>9, <2>10 DEF Next, User, Response
<1>2. LiveInv /\ [Next]_vars =>
        [\A q \in flying' \ flying : q.click \in Deletes =>
           /\ answer = "confirm"
           /\ q = asking]_vars
  BY <1>1
<1>3. QED
  BY <1>2, InvariantHolds, PTL DEF Spec, OnlyConfirmedAsked
=============================================================================
