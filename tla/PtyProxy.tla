------------------------------ MODULE PtyProxy ------------------------------
(***************************************************************************)
(* The server's side of a browser terminal: sandboxPTY of dashboard.go     *)
(* with OpenPTY of opensandbox/terminal.go.  The handler probes the        *)
(* sandbox, creates a session, attaches to it and then copies messages     *)
(* both ways until one of the two copies ends.                             *)
(*                                                                         *)
(* The connection to the browser has been hijacked, so the context of the  *)
(* request does not end when the browser leaves: only a copy that reads or *)
(* writes finds out.  Neither side is pinged.  A peer that vanishes        *)
(* without closing its connection is never found out by reading, and a     *)
(* write to it waits once the buffers in between are full.                 *)
(*                                                                         *)
(* The browser's side is in TerminalPage; what the messages say is left    *)
(* out.                                                                    *)
(***************************************************************************)
EXTENDS Naturals

VARIABLES
  pc,         \* where the handler is
  conn,       \* the connection to each side
  peer,       \* what has become of each side
  copy,       \* the copies, named for the side that they read
  results,    \* how many results wait in the channel proxyErrors
  cancelled   \* proxyContext

vars == <<pc, conn, peer, copy, results, cancelled>>

Sides == {"browser", "sandbox"}
Other(s) == IF s = "browser" THEN "sandbox" ELSE "browser"

Goes(from, to) == pc = from /\ pc' = to

-----------------------------------------------------------------------------
(* Before there is something to copy.                                      *)

\* sendTerminalError, and the return that follows it.
SendTerminalError(from) ==
  /\ Goes(from, "returned")
  /\ conn' = [conn EXCEPT !["browser"] = "closed"]
  /\ UNCHANGED <<peer, copy, results, cancelled>>

\* A probe that does not tell, because it failed otherwise, counts as passed.
ProbePasses ==
  /\ Goes("probe", "create")
  /\ UNCHANGED <<conn, peer, copy, results, cancelled>>

\* The session stays in the sandbox whatever follows: nothing in the code deletes one.
CreateSession ==
  /\ Goes("create", "dial")
  /\ UNCHANGED <<conn, peer, copy, results, cancelled>>

\* The copies are started as soon as the session is attached.
Attach ==
  /\ Goes("dial", "proxy")
  /\ conn' = [conn EXCEPT !["sandbox"] = "open"]
  /\ copy' = [s \in Sides |-> "read"]
  /\ UNCHANGED <<peer, results, cancelled>>

-----------------------------------------------------------------------------
(* copyWebSocket, reading from side s.                                     *)

Copies(s, from, to) == copy[s] = from /\ copy' = [copy EXCEPT ![s] = to]

Read(s) ==
  /\ Copies(s, "read", "write")
  /\ conn[s] = "open" /\ peer[s] = "there"
  /\ UNCHANGED <<pc, conn, peer, results, cancelled>>

Write(s) ==
  /\ Copies(s, "write", "read")
  /\ conn[Other(s)] = "open" /\ peer[Other(s)] # "vanished"
  /\ UNCHANGED <<pc, conn, peer, results, cancelled>>

\* A connection whose read or write ends by the context is closed.
FindsOut(s, t) == conn[t] = "closed" \/ peer[t] = "left" \/ cancelled

\* Mutant: a read that fails is tried again.
CopyEndsByWriting(s) ==
  /\ Copies(s, "write", "ended")
  /\ FindsOut(s, Other(s))
  /\ conn' = [conn EXCEPT ![Other(s)] = "closed"]
  /\ UNCHANGED <<pc, peer, results, cancelled>>

CopyEnds(s) ==
  \E t \in Sides :
    /\ Copies(s, IF t = s THEN "read" ELSE "write", "ended")
    /\ FindsOut(s, t)
    /\ conn' = [conn EXCEPT ![t] = "closed"]
    /\ UNCHANGED <<pc, peer, results, cancelled>>

\* A message larger than the limit of SetReadLimit ends the copy, and its connection.
TooLarge(s) ==
  /\ Copies(s, "read", "ended")
  /\ conn[s] = "open" /\ peer[s] = "there"
  /\ conn' = [conn EXCEPT ![s] = "closed"]
  /\ UNCHANGED <<pc, peer, results, cancelled>>

\* Mutant: a channel without room, from which the handler takes one result.
RoomForNone == pc = "proxy" /\ results = 0

\* make(chan error, 2).
Room == results < 2

Send(s) ==
  /\ Room
  /\ Copies(s, "ended", "sent")
  /\ results' = results + 1
  /\ UNCHANGED <<pc, conn, peer, cancelled>>

-----------------------------------------------------------------------------
(* The end: the deferred calls, the last one first.                        *)

Receive ==
  /\ results > 0
  /\ Goes("proxy", "cancel")
  /\ results' = results - 1
  /\ UNCHANGED <<conn, peer, copy, cancelled>>

Cancel ==
  /\ Goes("cancel", "close sandbox")
  /\ cancelled' = TRUE
  /\ UNCHANGED <<conn, peer, copy, results>>

\* Mutant: nobody closes the connection to the sandbox.
ReturnWithoutClosing ==
  /\ Goes("close sandbox", "close browser")
  /\ UNCHANGED <<conn, peer, copy, results, cancelled>>

CloseSandbox ==
  /\ Goes("close sandbox", "close browser")
  /\ conn' = [conn EXCEPT !["sandbox"] = "closed"]
  /\ UNCHANGED <<peer, copy, results, cancelled>>

CloseBrowser ==
  /\ Goes("close browser", "returned")
  /\ conn' = [conn EXCEPT !["browser"] = "closed"]
  /\ UNCHANGED <<peer, copy, results, cancelled>>

-----------------------------------------------------------------------------
PeerGoes(s) ==
  /\ peer[s] = "there" /\ conn[s] # "none"
  /\ \E how \in {"left", "vanished"} : peer' = [peer EXCEPT ![s] = how]
  /\ UNCHANGED <<pc, conn, copy, results, cancelled>>

Init ==
  /\ pc = "probe"
  /\ conn = [s \in Sides |-> IF s = "browser" THEN "open" ELSE "none"]
  /\ peer = [s \in Sides |-> "there"]
  /\ copy = [s \in Sides |-> "none"]
  /\ results = 0
  /\ cancelled = FALSE

Opening ==
  \/ \E from \in {"probe", "create", "dial"} : SendTerminalError(from)
  \/ ProbePasses
  \/ CreateSession
  \/ Attach

Copy(s) == Read(s) \/ Write(s) \/ CopyEnds(s) \/ TooLarge(s) \/ Send(s)

Ending == Receive \/ Cancel \/ CloseSandbox \/ CloseBrowser

Next ==
  \/ Opening
  \/ \E s \in Sides : Copy(s)
  \/ Ending
  \/ \E s \in Sides : PeerGoes(s)

Spec == Init /\ [][Next]_vars

\* The calls of the probe and of OpenPTY end, by their timeouts if not otherwise, and the
\* Go scheduler runs what can run.  No peer need send anything.
Fairness ==
  /\ WF_vars(Opening)
  /\ WF_vars(Ending)
  /\ \A s \in Sides : WF_vars(Write(s)) /\ WF_vars(CopyEnds(s)) /\ WF_vars(Send(s))

FairSpec == Spec /\ Fairness

-----------------------------------------------------------------------------
TypeOK ==
  /\ pc \in {"probe", "create", "dial", "proxy", "cancel", "close sandbox", "close browser",
             "returned"}
  /\ conn \in [Sides -> {"none", "open", "closed"}]
  /\ peer \in [Sides -> {"there", "left", "vanished"}]
  /\ copy \in [Sides -> {"none", "read", "write", "ended", "sent"}]
  /\ results \in 0 .. 2
  /\ cancelled \in BOOLEAN

\* The handler does not return with a connection open, and it ends the copies only when
\* one of them has ended by itself.
ReturnsClean ==
  /\ pc = "returned" => \A s \in Sides : conn[s] # "open"
  /\ pc \notin {"proxy", "returned"} /\ copy["browser"] # "none" =>
       \E s \in Sides : copy[s] = "sent"
  /\ cancelled => \E s \in Sides : copy[s] = "sent"

\* Nothing waits for what cannot come: a copy that has ended finds room for its result,
\* the handler that waits finds the result of a copy that has sent one, and a copy that
\* still waits for its sides when the handler goes on has had its context cancelled.
NothingIsStuck ==
  /\ \A s \in Sides : copy[s] = "ended" => Room
  /\ pc = "proxy" /\ (\E s \in Sides : copy[s] = "sent") => results > 0
  /\ pc \in {"close sandbox", "close browser", "returned"} /\ copy["browser"] # "none" =>
       cancelled

ProxyInv == TypeOK /\ ReturnsClean /\ NothingIsStuck

\* Once one copy has ended the other ends too, whatever it waits for, its goroutine is
\* rid of its result, and the handler returns.
OneEndsBoth ==
  (\E s \in Sides : copy[s] \in {"ended", "sent"})
    ~> (pc = "returned" /\ \A s \in Sides : copy[s] = "sent")

\* A browser or a sandbox that closes its connection, at whatever moment, ends the handler,
\* unless the other side has vanished: the copy may then be waiting for it in a write.
LeavingIsNoticed ==
  \A s \in Sides :
    peer[s] = "left" ~> (pc = "returned" \/ peer[Other(s)] = "vanished")
=============================================================================
