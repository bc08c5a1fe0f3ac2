------------------------- MODULE TerminalPageProofs -------------------------
(***************************************************************************)
(* TerminalInv is an inductive invariant of TerminalPage, for any number   *)
(* of attempts.  The actions fall into three groups: an attempt goes on    *)
(* (one lemma for each kind of step), somebody replaces a part of the page *)
(* and may close the current socket, and what does not touch the terminal. *)
(***************************************************************************)
EXTENDS TerminalPage, TLAPS

Others(c) == \A a \in Attempts \ {c} : stage'[a] = stage[a]

LEMMA NoneIsNobody == TypeOK => None \notin here
  BY AttemptsAssumption DEF TypeOK

LEMMA InitEstablishesInv == Init => TerminalInv
  BY AttemptsAssumption
  DEF Init, TerminalInv, TypeOK, OverlayTellsTruth, OneHoldsTheOverlay, TimersAreRight,
      ActiveMeansBusy, Holds, Requests

(***************************************************************************)
(* Closing the current socket keeps every attempt that held the overlay of *)
(* its element, because it has not failed: it is leaving now.              *)
(***************************************************************************)
LEMMA ClosingKeepsTypes ==
  ASSUME TypeOK, NEW s, s = Closed(current)
  PROVE  /\ s \in [Attempts -> Live \cup {"unused", "loading", "closing", "gone"}]
         /\ \A a \in Attempts :
              \/ s[a] = stage[a]
              \/ stage[a] \in Live /\ s[a] = "closing"
  BY DEF TypeOK, Closed, IsLive, Live

(***************************************************************************)
(* The end of an attempt that held its overlay, or the beginning of one    *)
(* where none did: what the others show stays as it was.                   *)
(***************************************************************************)
LEMMA HolderGivesUp ==
  ASSUME TypeOK, TypeOK', OverlayTellsTruth, OneHoldsTheOverlay, NEW c \in Attempts,
         Others(c), here' = here, muddled' = muddled, timer' \in {timer, timer \ {c}},
         \A a \in Attempts \ {c} : a \in failed' <=> a \in failed,
         Holds(c), ~Holds(c)',
         overlay' = IF c \in here THEN "enabled" ELSE overlay,
         error' \in {error, c}
  PROVE  OverlayTellsTruth' /\ OneHoldsTheOverlay'
<1>1. CASE muddled
  BY <1>1 DEF OverlayTellsTruth, OneHoldsTheOverlay
<1>2. CASE ~muddled
  <2>1. \A a \in here \ {c} : Holds(a)' <=> Holds(a)
    BY DEF TypeOK, Others, Holds, Working, Leaving
  <2>2. CASE c \in here
    <3>1. \A a \in here' : ~Holds(a)'
      BY <1>2, <2>1, <2>2 DEF OneHoldsTheOverlay
    <3>2. overlay' = "enabled"
      BY <2>2
    <3>3. QED
      BY <3>1, <3>2 DEF OverlayTellsTruth, OneHoldsTheOverlay, Holds
  <2>3. CASE c \notin here
    <3>1. overlay' = overlay /\ (error' \in here => error \in here)
      BY <2>3
    <3>2. OneHoldsTheOverlay'
      BY <1>2, <2>1, <2>3, <3>1 DEF OneHoldsTheOverlay
    <3>3. \A a \in here : stage'[a] = stage[a] /\ (a \in timer' <=> a \in timer)
                          /\ (a \in failed' <=> a \in failed)
      BY <2>3 DEF TypeOK, Others
    <3>4. OverlayTellsTruth'
      BY <1>2, <3>1, <3>3 DEF OverlayTellsTruth, Working, Leaving
    <3>5. QED
      BY <3>2, <3>4
  <2>4. QED
    BY <2>2, <2>3
<1>3. QED
  BY <1>1, <1>2

LEMMA ConnectPreservesInv ==
  ASSUME TerminalInv, NEW c \in Attempts, Connect(c)
  PROVE  TerminalInv'
<1>1. TypeOK'
  BY DEF TerminalInv, TypeOK, Connect, Goes, rest, htmx, Live
<1>2. /\ stage[c] = "unused" /\ stage'[c] = "loading" /\ c \notin here /\ Others(c)
      /\ here' = here \cup {c} /\ timer' = timer /\ failed' = failed
      /\ overlay = "enabled" /\ overlay' = "busy" /\ error' = None /\ muddled' = muddled
  BY DEF TerminalInv, TypeOK, TimersAreRight, Connect, Clickable, Goes, Others, rest
<1>3. TimersAreRight'
  BY <1>1, <1>2 DEF TerminalInv, TypeOK, TimersAreRight, Others
<1>4. OverlayTellsTruth'
  BY <1>2 DEF OverlayTellsTruth
<1>5. OneHoldsTheOverlay'
  <2>1. CASE muddled
    BY <1>2, <2>1 DEF OneHoldsTheOverlay
  <2>2. CASE ~muddled
    <3>1. \A a \in here : ~Holds(a)'
      BY <1>2, <2>2
      DEF TerminalInv, TypeOK, OneHoldsTheOverlay, Others, Holds, Working, Leaving
    <3>2. error' \notin here'
      BY <1>1, <1>2, NoneIsNobody, AttemptsAssumption DEF TerminalInv
    <3>3. QED
      BY <1>2, <3>1, <3>2 DEF OneHoldsTheOverlay
  <2>3. QED
    BY <2>1, <2>2
<1>6. ActiveMeansBusy'
  BY <1>2 DEF ActiveMeansBusy
<1>7. QED
  BY <1>1, <1>3, <1>4, <1>5, <1>6 DEF TerminalInv

LEMMA LoadPreservesInv ==
  ASSUME TerminalInv, NEW c \in Attempts, Load(c)
  PROVE  TerminalInv'
<1>1. TypeOK'
  BY DEF TerminalInv, TypeOK, Load, OpenSocket, LoadFails, ShowButton, Goes, rest, htmx, Live
<1>2. /\ stage[c] = "loading" /\ c \notin timer /\ c \notin failed /\ Others(c)
      /\ here' = here /\ failed' = failed /\ muddled' = muddled
  BY DEF TerminalInv, TypeOK, TimersAreRight, Load, OpenSocket, LoadFails, Goes, Others, rest
<1>3. CASE OpenSocket(c)
  <2>1. /\ stage'[c] = "opening" /\ timer' = timer \cup {c} /\ current' = c
        /\ overlay' = overlay /\ error' = error
    BY <1>3 DEF TerminalInv, TypeOK, OpenSocket, Goes
  <2>2. TimersAreRight'
    BY <1>1, <1>2, <2>1 DEF TerminalInv, TypeOK, TimersAreRight, Others
  <2>3. OneHoldsTheOverlay'
    <3>1. \A a \in Attempts : Holds(a)' <=> Holds(a)
      BY <1>2, <2>1 DEF TypeOK, Others, Holds, Working, Leaving
    <3>2. here \subseteq Attempts
      BY DEF TerminalInv, TypeOK
    <3>3. QED
      BY <1>2, <2>1, <3>1, <3>2 DEF TerminalInv, OneHoldsTheOverlay
  <2>4. OverlayTellsTruth'
    BY <1>1, <1>2, <2>1 DEF TerminalInv, TypeOK, OverlayTellsTruth, Others, Working, Leaving
  <2>5. ActiveMeansBusy'
    BY <2>1, AttemptsAssumption DEF ActiveMeansBusy, IsLive, Live
  <2>6. QED
    BY <1>1, <2>2, <2>3, <2>4, <2>5 DEF TerminalInv
<1>4. CASE LoadFails(c)
  <2>1. /\ stage'[c] = "gone" /\ timer' = timer /\ ~active' /\ error' = c
        /\ overlay' = IF c \in here THEN "enabled" ELSE overlay
    BY <1>4 DEF TerminalInv, TypeOK, LoadFails, ShowButton, Goes
  <2>2. TimersAreRight'
    BY <1>1, <1>2, <2>1 DEF TerminalInv, TypeOK, TimersAreRight, Others
  <2>3. Holds(c) /\ ~Holds(c)'
    BY <1>2, <2>1 DEF Holds, Working, Leaving
  <2>4. OverlayTellsTruth' /\ OneHoldsTheOverlay'
    BY <1>1, <1>2, <2>1, <2>3, HolderGivesUp DEF TerminalInv
  <2>5. QED
    BY <1>1, <2>1, <2>2, <2>4 DEF TerminalInv, ActiveMeansBusy
<1>5. QED
  BY <1>3, <1>4 DEF Load

LEMMA ConnectedPreservesInv ==
  ASSUME TerminalInv, NEW c \in Attempts, Connected(c)
  PROVE  TerminalInv'
<1>1. TypeOK'
  BY DEF TerminalInv, TypeOK, Connected, ShowButton, Goes, rest, htmx, Live
<1>2. /\ stage[c] \in {"opening", "ready"} /\ stage'[c] = "ready" /\ c \notin failed
      /\ Others(c)
      /\ here' = here /\ failed' = failed /\ timer' = timer \ {c}
      /\ overlay' = IF c \in here THEN "hidden" ELSE overlay
      /\ active' = active /\ current' = current /\ error' = None /\ muddled' = muddled
  BY DEF TerminalInv, TypeOK, TimersAreRight, Connected, ShowButton, Goes, Others, rest
<1>3. TimersAreRight'
  BY <1>1, <1>2 DEF TerminalInv, TypeOK, TimersAreRight, Others
<1>4. \A a \in Attempts : Holds(a)' <=> Holds(a)
  BY <1>2 DEF TypeOK, Others, Holds, Working, Leaving
<1>5. OneHoldsTheOverlay'
  <2>1. error' \notin here'
    BY <1>1, <1>2, NoneIsNobody DEF TerminalInv
  <2>2. overlay' = "enabled" => overlay = "enabled"
    BY <1>2
  <2>3. here \subseteq Attempts
    BY DEF TerminalInv, TypeOK
  <2>4. QED
    BY <1>2, <1>4, <2>1, <2>2, <2>3 DEF TerminalInv, OneHoldsTheOverlay
<1>6. OverlayTellsTruth'
  <2>1. CASE c \in here
    BY <1>2, <2>1 DEF OverlayTellsTruth
  <2>2. CASE c \notin here
    BY <1>2, <2>2 DEF TerminalInv, TypeOK, OverlayTellsTruth, Others, Working, Leaving
  <2>3. QED
    BY <2>1, <2>2
<1>7. ActiveMeansBusy'
  <2>1. IsLive(current) => IsLive(current)'
    BY <1>2 DEF TerminalInv, TypeOK, IsLive, Others, Live
  <2>2. \A a \in Attempts : stage[a] = "loading" => stage'[a] = "loading"
    BY <1>2 DEF Others
  <2>3. QED
    BY <1>2, <2>1, <2>2 DEF TerminalInv, ActiveMeansBusy
<1>8. QED
  BY <1>1, <1>3, <1>5, <1>6, <1>7 DEF TerminalInv

(***************************************************************************)
(* The steps that end an attempt set active to FALSE, and show the button  *)
(* on the attempt's own element unless it has been shown for it before.    *)
(***************************************************************************)
LEMMA FailurePreservesInv ==
  ASSUME TerminalInv, NEW c \in Attempts, Refused(c) \/ TimerFires(c)
  PROVE  TerminalInv'
<1>1. TypeOK'
  BY DEF TerminalInv, TypeOK, Refused, TimerFires, FailTerminal, ShowButton, Closed, IsLive,
         Goes, rest, htmx, Live
<1>2. /\ failed' = failed \cup {c} /\ timer' = timer \ {c} /\ ~active' /\ error' = c
      /\ overlay' = IF c \in here THEN "enabled" ELSE overlay
      /\ here' = here /\ muddled' = muddled
  BY DEF Refused, TimerFires, FailTerminal, ShowButton, rest
<1>3. /\ c \notin failed /\ Others(c)
      /\ stage[c] \in {"opening", "ready", "closing"} /\ stage'[c] \in {"refused", "closing"}
  <2>1. CASE Refused(c)
    BY <2>1 DEF TerminalInv, TypeOK, TimersAreRight, Refused, Goes, Others
  <2>2. CASE TimerFires(c)
    <3>1. stage[c] \in {"opening", "closing"} /\ c \notin failed
      BY <2>2 DEF TerminalInv, TimersAreRight, TimerFires
    <3>2. stage'[c] = "closing" /\ Others(c)
      BY <2>2, <3>1, AttemptsAssumption
      DEF TerminalInv, TypeOK, TimerFires, Closed, IsLive, Live, Others
    <3>3. QED
      BY <3>1, <3>2
  <2>3. QED
    BY <2>1, <2>2
<1>4. TimersAreRight'
  BY <1>1, <1>2, <1>3 DEF TerminalInv, TypeOK, TimersAreRight, Others
<1>5. Holds(c) /\ ~Holds(c)'
  BY <1>2, <1>3 DEF Holds, Working, Leaving
<1>6. OverlayTellsTruth' /\ OneHoldsTheOverlay'
  BY <1>1, <1>2, <1>3, <1>5, HolderGivesUp DEF TerminalInv
<1>7. QED
  BY <1>1, <1>2, <1>4, <1>6 DEF TerminalInv, ActiveMeansBusy

LEMMA EndPreservesInv ==
  ASSUME TerminalInv, NEW c \in Attempts, Ends(c)
  PROVE  TerminalInv'
<1>1. PICK broken \in BOOLEAN : CloseEvent(c, broken)
  BY DEF Ends
<1>2. TypeOK'
  BY <1>1 DEF TerminalInv, TypeOK, CloseEvent, Breaks, ShowButton, Goes, rest, htmx, Live
<1>3. /\ stage[c] \in Live \cup {"closing"} /\ stage'[c] = "gone" /\ Others(c)
      /\ failed' \in {failed, failed \cup {c}} /\ timer' = timer \ {c} /\ ~active'
      /\ here' = here /\ muddled' = muddled
  BY <1>1 DEF TerminalInv, TypeOK, CloseEvent, Breaks, Goes, Others, rest
<1>4. TimersAreRight'
  <2>1. overlay' = "none" => here' = {}
    BY <1>1, <1>3 DEF TerminalInv, TimersAreRight, CloseEvent, ShowButton
  <2>2. QED
    BY <1>2, <1>3, <2>1 DEF TerminalInv, TypeOK, TimersAreRight, Others
<1>5. CASE c \notin failed
  <2>1. Holds(c) /\ ~Holds(c)'
    BY <1>3, <1>5 DEF TerminalInv, TimersAreRight, Holds, Working, Leaving, Live
  <2>2. /\ overlay' = IF c \in here THEN "enabled" ELSE overlay
        /\ error' \in {error, c}
    BY <1>1, <1>5 DEF CloseEvent, Breaks, ShowButton
  <2>3. OverlayTellsTruth' /\ OneHoldsTheOverlay'
    BY <1>2, <1>3, <2>1, <2>2, HolderGivesUp DEF TerminalInv
  <2>4. QED
    BY <1>2, <1>3, <1>4, <2>3 DEF TerminalInv, ActiveMeansBusy
<1>6. CASE c \in failed
  <2>1. overlay' = overlay /\ error' = error /\ failed' = failed
    BY <1>1, <1>3, <1>6 DEF CloseEvent, Breaks, ShowButton
  <2>2. stage[c] \in {"refused", "closing"}
    BY <1>3, <1>6 DEF TerminalInv, TimersAreRight, Live
  <2>3. \A a \in Attempts : Holds(a)' <=> Holds(a)
    BY <1>3, <1>6, <2>1, <2>2 DEF Others, Holds, Working, Leaving
  <2>4. here \subseteq Attempts
    BY DEF TerminalInv, TypeOK
  <2>5. OneHoldsTheOverlay'
    BY <1>3, <2>1, <2>3, <2>4 DEF TerminalInv, OneHoldsTheOverlay
  <2>6. OverlayTellsTruth'
    BY <1>3, <1>6, <2>1, <2>2, <2>4
    DEF TerminalInv, OverlayTellsTruth, Others, Working, Leaving
  <2>7. QED
    BY <1>2, <1>3, <1>4, <2>5, <2>6 DEF TerminalInv, ActiveMeansBusy
<1>7. QED
  BY <1>5, <1>6

(***************************************************************************)
(* The page.                                                               *)
(***************************************************************************)
LEMMA ReplacePreservesInv ==
  ASSUME TerminalInv, NEW to \in {"sandbox", "other"}, NEW button \in {"enabled", "none"},
         ReplaceContent(to, button)
  PROVE  TerminalInv'
<1>1. stage' \in [Attempts -> Live \cup {"unused", "loading", "closing", "gone"}]
      /\ \A a \in Attempts :
           \/ stage'[a] = stage[a]
           \/ stage[a] \in Live /\ stage'[a] = "closing"
  BY ClosingKeepsTypes DEF TerminalInv, ReplaceContent
<1>2. TypeOK'
  BY <1>1 DEF TerminalInv, TypeOK, ReplaceContent, Restored, Requests
<1>3. /\ here' = {} /\ ~active' /\ timer' = timer /\ failed' = failed
      /\ overlay' \in {"enabled", "none"}
  BY DEF ReplaceContent, Restored
<1>4. TimersAreRight'
  BY <1>1, <1>2, <1>3 DEF TerminalInv, TypeOK, TimersAreRight, Live
<1>5. OverlayTellsTruth' /\ OneHoldsTheOverlay'
  BY <1>3 DEF OverlayTellsTruth, OneHoldsTheOverlay
<1>6. QED
  BY <1>2, <1>3, <1>4, <1>5 DEF TerminalInv, ActiveMeansBusy

\* Closing a socket leaves every overlay as it was, and its holder holding it.
LEMMA ClosingKeepsShown ==
  ASSUME TerminalInv, TypeOK', stage' \in {stage, Closed(current)},
         UNCHANGED <<overlay, here, timer, failed, muddled>>,
         error' \in here => error \in here
  PROVE  OverlayTellsTruth' /\ OneHoldsTheOverlay' /\ TimersAreRight'
<1>1. \A a \in Attempts :
        \/ stage'[a] = stage[a]
        \/ stage[a] \in Live /\ stage'[a] = "closing"
  BY ClosingKeepsTypes DEF TerminalInv
<1>2. TimersAreRight'
  BY <1>1 DEF TerminalInv, TypeOK, TimersAreRight, Live
<1>3. \A a \in Attempts : Holds(a)' <=> Holds(a)
  BY <1>1 DEF TerminalInv, TimersAreRight, Holds, Working, Leaving, Live
<1>4. here \subseteq Attempts
  BY DEF TerminalInv, TypeOK
<1>5. OneHoldsTheOverlay'
  BY <1>3, <1>4 DEF TerminalInv, OneHoldsTheOverlay
<1>6. OverlayTellsTruth'
  <2>1. \A a \in here : Working(a)' => Working(a)
    BY <1>1, <1>4 DEF Working
  <2>2. \A a \in here : Leaving(a) => Leaving(a)'
    BY <1>1, <1>4 DEF Leaving, Live
  <2>3. \A a \in here : stage[a] \in {"opening", "ready"} =>
                          stage'[a] = stage[a] \/ Leaving(a)'
    BY <1>1, <1>4 DEF TerminalInv, TimersAreRight, Leaving
  <2>4. \A a \in here : stage[a] = "loading" => stage'[a] = "loading"
    BY <1>1, <1>4 DEF Live
  <2>5. QED
    BY <2>1, <2>2, <2>3, <2>4 DEF TerminalInv, OverlayTellsTruth
<1>7. QED
  BY <1>2, <1>5, <1>6

LEMMA KeepPreservesInv ==
  ASSUME TerminalInv, requests' \subseteq Requests, KeepContent
  PROVE  TerminalInv'
<1>1. /\ stage' \in [Attempts -> Live \cup {"unused", "loading", "closing", "gone"}]
      /\ \A a \in Attempts :
           \/ stage'[a] = stage[a]
           \/ stage[a] \in Live /\ stage'[a] = "closing"
  BY ClosingKeepsTypes DEF TerminalInv, TypeOK, KeepContent
<1>2. TypeOK'
  BY <1>1 DEF TerminalInv, TypeOK, KeepContent, IsLive, Restored
<1>3. ActiveMeansBusy'
  <2>1. active' => IsLive(current) /\ stage' = stage /\ current' = current
    BY DEF KeepContent
  <2>2. QED
    BY <2>1 DEF ActiveMeansBusy, IsLive
<1>4. TimersAreRight'
  <2>1. overlay' = "none" => overlay = "none"
    BY DEF KeepContent, Restored
  <2>2. QED
    BY <1>1, <2>1 DEF TerminalInv, TypeOK, KeepContent, TimersAreRight, Live
<1>5. CASE muddled \/ (error # None /\ \E a \in here : Holds(a))
  <2>1. muddled'
    BY <1>5 DEF KeepContent
  <2>2. QED
    BY <1>2, <1>3, <1>4, <2>1 DEF TerminalInv, OverlayTellsTruth, OneHoldsTheOverlay
<1>6. CASE ~muddled /\ error = None
  <2>1. /\ stage' \in {stage, Closed(current)}
        /\ UNCHANGED <<overlay, here, timer, failed, muddled, error>>
    BY <1>6 DEF KeepContent, Restored, TerminalInv, TypeOK
  <2>2. QED
    BY <1>2, <1>3, <2>1, ClosingKeepsShown DEF TerminalInv
<1>7. CASE ~muddled /\ ~(\E a \in here : Holds(a))
  <2>1. here' = here /\ here \subseteq Attempts /\ failed' = failed
    BY DEF KeepContent, TerminalInv, TypeOK
  <2>2. \A a \in here : ~Holds(a)'
    BY <1>1, <1>7, <2>1 DEF TerminalInv, TimersAreRight, Holds, Working, Leaving, Live
  <2>3. OneHoldsTheOverlay'
    BY <2>1, <2>2 DEF OneHoldsTheOverlay
  <2>4. overlay \in {"enabled", "none"}
    BY <1>7 DEF TerminalInv, TypeOK, OverlayTellsTruth, Holds, Working
  <2>5. overlay' \in {"enabled", "none"}
    BY <2>4 DEF KeepContent, Restored
  <2>6. OverlayTellsTruth'
    BY <2>1, <2>2, <2>5 DEF OverlayTellsTruth, Holds
  <2>7. QED
    BY <1>2, <1>3, <1>4, <2>3, <2>6 DEF TerminalInv
<1>8. QED
  BY <1>5, <1>6, <1>7

LEMMA UserPreservesInv ==
  ASSUME TerminalInv, ChangeSandbox \/ ConnectIgnored
  PROVE  TerminalInv'
<1>1. error' \notin here
  BY NoneIsNobody DEF TerminalInv, ChangeSandbox, ConnectIgnored
<1>2. CASE ChangeSandbox
  <2>1. stage' = Closed(current) /\ UNCHANGED <<overlay, here, timer, failed, muddled>> /\ ~active'
    BY <1>2 DEF ChangeSandbox
  <2>2. TypeOK'
    BY <1>2, <2>1, ClosingKeepsTypes DEF TerminalInv, TypeOK, ChangeSandbox, Requests
  <2>3. QED
    BY <1>1, <2>1, <2>2, ClosingKeepsShown DEF TerminalInv, ActiveMeansBusy
<1>3. CASE ConnectIgnored
  <2>1. UNCHANGED <<overlay, here, socket, current, active, rest>> /\ error' = None
    BY <1>3 DEF ConnectIgnored
  <2>2. TypeOK' /\ ActiveMeansBusy'
    BY <2>1 DEF TerminalInv, TypeOK, ActiveMeansBusy, IsLive, socket, rest, htmx
  <2>3. QED
    BY <1>1, <2>1, <2>2, ClosingKeepsShown DEF TerminalInv, socket, rest
<1>4. QED
  BY <1>2, <1>3

LEMMA RequestPreservesInv ==
  ASSUME TerminalInv,
         \/ \E to \in {"details", "stats"} : SelectPanel(to)
         \/ Refresh
         \/ \E what \in Requests : RequestFails(what)
         \/ UNCHANGED vars
  PROVE  TerminalInv'
<1>1. UNCHANGED <<overlay, here, socket, active, current, error, muddled>>
  BY DEF SelectPanel, Refresh, RequestFails, vars, socket
<1>2. TypeOK'
  BY <1>1 DEF TerminalInv, TypeOK, SelectPanel, Refresh, RequestFails, vars, socket, Requests
<1>3. ActiveMeansBusy'
  BY <1>1 DEF TerminalInv, ActiveMeansBusy, IsLive, socket
<1>4. QED
  BY <1>1, <1>2, <1>3, ClosingKeepsShown DEF TerminalInv, socket

LEMMA NextPreservesInv == TerminalInv /\ [Next]_vars => TerminalInv'
<1> SUFFICES ASSUME TerminalInv, [Next]_vars
             PROVE  TerminalInv'
  OBVIOUS
<1>1. ASSUME NEW c \in Attempts, Connect(c) \/ Load(c) \/ Socket(c)
      PROVE  TerminalInv'
  BY <1>1, ConnectPreservesInv, LoadPreservesInv, ConnectedPreservesInv, FailurePreservesInv,
     EndPreservesInv
  DEF Socket
<1>2. CASE Swap
  <2>1. ASSUME \E to \in {"sandbox", "other"}, button \in {"enabled", "none"} :
                 ReplaceContent(to, button)
        PROVE  TerminalInv'
    BY <2>1, ReplacePreservesInv
  <2>2. page \in {"sandbox", "other"}
    BY DEF TerminalInv, TypeOK
  <2>3. CASE PanelSwap \/ ModalSwap
    BY <2>3, KeepPreservesInv DEF PanelSwap, ModalSwap, TerminalInv, TypeOK
  <2>4. QED
    BY <1>2, <2>1, <2>2, <2>3 DEF Swap, Navigate, RefreshSwap, ActionSwap, Buttons
<1>3. CASE ChangeSandbox \/ ConnectIgnored
  BY <1>3, UserPreservesInv
<1>4. QED
  BY <1>1, <1>2, <1>3, RequestPreservesInv DEF Next, User

(***************************************************************************)
(* Whatever order the events of any number of attempts come in, the        *)
(* overlay tells the truth about the terminal in the page, unless a        *)
(* fragment was swapped in while the error of an attempt on an earlier     *)
(* element was kept, and the live refresh is suspended only while an       *)
(* attempt is loading or the page's socket is live.                        *)
(***************************************************************************)
THEOREM InvariantHolds == Spec => []TerminalInv
  BY InitEstablishesInv, NextPreservesInv, PTL DEF Spec

(***************************************************************************)
(* The live refresh is never suspended for a terminal that is gone: while  *)
(* osbTerminalActive is set, some attempt is loading or the current socket *)
(* is connecting or open.                                                  *)
(***************************************************************************)
THEOREM SuspendedOnlyWhileBusy == Spec => []ActiveMeansBusy
<1>1. TerminalInv => ActiveMeansBusy
  BY DEF TerminalInv
<1>2. QED
  BY <1>1, InvariantHolds, PTL
=============================================================================
