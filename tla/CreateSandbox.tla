--------------------------- MODULE CreateSandbox ---------------------------
(***************************************************************************)
(* POST /dashboard/sandboxes: the handler createSandbox, the background    *)
(* goroutine that it starts for the upstream call, the browser that may    *)
(* leave, and Dashboard.Close.                                             *)
(*                                                                         *)
(* The goroutine outlives the handler: its context is the application's    *)
(* and not the request's, and it leaves its result in a channel of         *)
(* capacity one.  The handler waits for that result, and every half second *)
(* lists the sandboxes to see whether one that carries its request         *)
(* identifier has been accepted meanwhile.  It gives up when the browser   *)
(* leaves or when the application's context is cancelled.                  *)
(*                                                                         *)
(* A list of the sandboxes is atomic here, as ListPromise allows: what a   *)
(* fresh list shows is the upstream at some moment of the call.            *)
(***************************************************************************)
EXTENDS Naturals, FiniteSets

CONSTANT Posts   \* the POST requests; each makes its own request identifier

ASSUME PostsAssumption == IsFiniteSet(Posts)

VARIABLES
  handler,    \* handler[p]: where createSandbox is
  connected,  \* connected[p]: the browser is there; r.Context() ends with it
  reply,      \* reply[p]: what the handler wrote
  worker,     \* worker[p]: where the goroutine is
  outcome,    \* outcome[p]: what CreateSandbox returned to the goroutine
  result,     \* result[p]: the channel, of capacity one
  background, \* app.background, the WaitGroup's counter
  sandbox,    \* sandbox[p]: the upstream's sandbox with p's request identifier; "unsent"
              \* when the call that would ask for it could not be made (history)
  app         \* app.context and Dashboard.Close

vars == <<handler, connected, reply, worker, outcome, result,
          background, sandbox, app>>

\* "accepted" is the list of sandboxes with the new one in it or, for a sandbox from
\* a snapshot or a pool, the fragment that follows its deployment.
Replies == {"badRequest", "accepted", "badGateway"}
Created == {"live", "stopped", "deleted"}

TypeOK ==
  /\ handler \in [Posts -> {"new", "parsing", "waiting", "polling", "confirming", "returned"}]
  /\ connected \in [Posts -> BOOLEAN]
  /\ reply \in [Posts -> Replies \cup {"none"}]
  /\ worker \in [Posts -> {"none", "starting", "calling", "sending", "sent", "done"}]
  /\ outcome \in [Posts -> {"none", "ok", "error"}]
  /\ result \in [Posts -> {"none", "ok", "error"}]
  /\ background \in Nat
  /\ sandbox \in [Posts -> Created \cup {"unasked", "unsent", "asked", "refused"}]
  /\ app \in {"open", "cancelled", "closed"}

Moves(f, p, froms, to) ==
  /\ f[p] \in froms
  /\ f' = [f EXCEPT ![p] = to]

Return(p, froms, what) ==
  /\ Moves(handler, p, froms, "returned")
  /\ reply' = [reply EXCEPT ![p] = what]

handling == <<handler, reply>>
working  == <<worker, outcome, background>>

-----------------------------------------------------------------------------
(* The upstream, which acts on a request that it was sent even when nobody *)
(* waits for its answer any more.                                          *)

UpstreamDecides(p) ==
  /\ \E to \in {"live", "refused"} : Moves(sandbox, p, {"asked"}, to)
  /\ UNCHANGED <<connected, handling, working, result, app>>

\* "live" is pending or running, "stopped" any other state that is listed.
SandboxMoves(p) ==
  /\ \/ Moves(sandbox, p, {"live"}, "stopped")
     \/ Moves(sandbox, p, {"stopped"}, "live")
     \/ Moves(sandbox, p, {"live", "stopped"}, "deleted")
  /\ UNCHANGED <<connected, handling, working, result, app>>

-----------------------------------------------------------------------------
(* The goroutine.                                                          *)

\* Mutant: the goroutine's context is the request's.
ContextDoneWithClient(p) == ~connected[p]

\* The context that the upstream call is made with.
ContextDone(p) == app # "open"

StartCall(p) ==
  /\ ~ContextDone(p)
  /\ Moves(worker, p, {"starting"}, "calling")
  /\ Moves(sandbox, p, {"unasked"}, "asked")
  /\ UNCHANGED <<connected, handling, outcome, background, result, app>>

\* CreateSandbox fails before it sends anything: the request is not one it takes (two
\* sources for the sandbox, or no entrypoint), or cannot be made because the API key
\* cannot be read.
CannotCall(p) ==
  /\ Moves(worker, p, {"starting"}, "sending")
  /\ Moves(sandbox, p, {"unasked"}, "unsent")
  /\ outcome' = [outcome EXCEPT ![p] = "error"]
  /\ UNCHANGED <<connected, handling, background, result, app>>

\* An HTTP request whose context is done is not sent.
SkipCall(p) ==
  /\ ContextDone(p)
  /\ Moves(worker, p, {"starting"}, "sending")
  /\ outcome' = [outcome EXCEPT ![p] = "error"]
  /\ UNCHANGED <<connected, handling, background, result, sandbox, app>>

CallSucceeds(p) ==
  /\ Moves(worker, p, {"calling"}, "sending")
  /\ sandbox[p] \in Created
  /\ outcome' = [outcome EXCEPT ![p] = "ok"]
  /\ UNCHANGED <<connected, handling, background, result, sandbox, app>>

\* Mutant: the goroutine returns on an error before it has sent its result.
CallFailsSilently(p) ==
  /\ Moves(worker, p, {"calling"}, "sent")
  /\ outcome' = [outcome EXCEPT ![p] = "error"]
  /\ UNCHANGED <<connected, handling, background, result, sandbox, app>>

\* Refused; or the answer is lost; or the call ends at the HTTP client's 90 s,
\* at the six minutes of createContext or with the application's context,
\* whatever the upstream has done or goes on to do.
CallFails(p) ==
  /\ Moves(worker, p, {"calling"}, "sending")
  /\ outcome' = [outcome EXCEPT ![p] = "error"]
  /\ UNCHANGED <<connected, handling, background, result, sandbox, app>>

\* Mutant: a channel without a buffer; the handler has to be there to receive.
SendUnbuffered(p) ==
  /\ handler[p] = "waiting"
  /\ Moves(worker, p, {"sending"}, "sent")
  /\ result' = [result EXCEPT ![p] = outcome[p]]
  /\ UNCHANGED <<connected, handling, outcome, background, sandbox, app>>

Send(p) ==
  /\ Moves(worker, p, {"sending"}, "sent")
  /\ result' = [result EXCEPT ![p] = outcome[p]]
  /\ UNCHANGED <<connected, handling, outcome, background, sandbox, app>>

\* Mutant: only a call that succeeded reaches Done.
WorkerDoneIfOk(p) ==
  /\ Moves(worker, p, {"sent"}, "done")
  /\ background' = IF outcome[p] = "ok" THEN background - 1 ELSE background
  /\ UNCHANGED <<connected, handling, outcome, result, sandbox, app>>

\* The deferred background.Done().
WorkerDone(p) ==
  /\ Moves(worker, p, {"sent"}, "done")
  /\ background' = background - 1
  /\ UNCHANGED <<connected, handling, outcome, result, sandbox, app>>

-----------------------------------------------------------------------------
(* The handler.                                                            *)

Arrive(p) ==
  /\ Moves(handler, p, {"new"}, "parsing")
  /\ UNCHANGED <<connected, reply, working, result, sandbox, app>>

Reject(p) ==
  /\ Return(p, {"parsing"}, "badRequest")
  /\ UNCHANGED <<connected, working, result, sandbox, app>>

\* Mutant: the goroutine counts itself, when it gets to run.
BeginUncounted(p) ==
  /\ Moves(handler, p, {"parsing"}, "waiting")
  /\ Moves(worker, p, {"none"}, "starting")
  /\ UNCHANGED <<connected, reply, outcome, background, result, sandbox, app>>

\* app.background.Add(1), the go statement, and on to the select.
Begin(p) ==
  /\ Moves(handler, p, {"parsing"}, "waiting")
  /\ Moves(worker, p, {"none"}, "starting")
  /\ background' = background + 1
  /\ UNCHANGED <<connected, reply, outcome, result, sandbox, app>>

\* case createResult := <-result
ReceiveError(p) ==
  /\ result[p] = "error"
  /\ Return(p, {"waiting"}, "badGateway")
  /\ result' = [result EXCEPT ![p] = "none"]
  /\ UNCHANGED <<connected, working, sandbox, app>>

ReceiveOk(p) ==
  /\ result[p] = "ok"
  /\ Moves(handler, p, {"waiting"}, "confirming")
  /\ result' = [result EXCEPT ![p] = "none"]
  /\ UNCHANGED <<connected, reply, working, sandbox, app>>

\* Both answers to a result list the sandboxes, and show the created one even
\* when the list fails or does not have it.
Confirm(p) ==
  /\ Return(p, {"confirming"}, "accepted")
  /\ UNCHANGED <<connected, working, result, sandbox, app>>

\* case <-poll.C: the handler is in listSandboxes, and sees none of the other
\* cases until it comes back.
PollTick(p) ==
  /\ Moves(handler, p, {"waiting"}, "polling")
  /\ UNCHANGED <<connected, reply, working, result, sandbox, app>>

\* Mutant: any sandbox that is pending or running will do.
AcceptedAny(p) == \E q \in Posts : sandbox[q] = "live"

\* The list has a pending or running sandbox with p's request identifier.
AcceptedSandbox(p) == sandbox[p] = "live"

PollFinds(p) ==
  /\ AcceptedSandbox(p)
  /\ Return(p, {"polling"}, "accepted")
  /\ UNCHANGED <<connected, working, result, sandbox, app>>

\* It is not there, or the list failed.
PollMisses(p) ==
  /\ Moves(handler, p, {"polling"}, "waiting")
  /\ UNCHANGED <<connected, reply, working, result, sandbox, app>>

\* case <-r.Context().Done() and case <-app.context.Done(): no answer.
GiveUp(p) ==
  /\ ~connected[p] \/ app # "open"
  /\ Return(p, {"waiting"}, "none")
  /\ UNCHANGED <<connected, working, result, sandbox, app>>

ClientLeaves(p) ==
  /\ handler[p] \in {"parsing", "waiting", "polling", "confirming"}
  /\ connected[p]
  /\ connected' = [connected EXCEPT ![p] = FALSE]
  /\ UNCHANGED <<handling, working, result, sandbox, app>>

-----------------------------------------------------------------------------
(* Dashboard.Close.  It does not stop the requests, neither those that are *)
(* being handled nor new ones: the handler belongs to the caller's server. *)

CancelApp ==
  /\ app = "open"
  /\ app' = "cancelled"
  /\ UNCHANGED <<connected, handling, working, result, sandbox>>

\* background.Wait() returns.
CloseReturns ==
  /\ app = "cancelled"
  /\ background = 0
  /\ app' = "closed"
  /\ UNCHANGED <<connected, handling, working, result, sandbox>>

-----------------------------------------------------------------------------
Init ==
  /\ handler = [p \in Posts |-> "new"]
  /\ connected = [p \in Posts |-> TRUE]
  /\ reply = [p \in Posts |-> "none"]
  /\ worker = [p \in Posts |-> "none"]
  /\ outcome = [p \in Posts |-> "none"]
  /\ result = [p \in Posts |-> "none"]
  /\ background = 0
  /\ sandbox = [p \in Posts |-> "unasked"]
  /\ app = "open"

Upstream(p) == UpstreamDecides(p) \/ SandboxMoves(p)

Worker(p) ==
  \/ StartCall(p)
  \/ CannotCall(p)
  \/ SkipCall(p)
  \/ CallSucceeds(p)
  \/ CallFails(p)
  \/ Send(p)
  \/ WorkerDone(p)

Receive(p) == ReceiveError(p) \/ ReceiveOk(p)

Answer(p) == Confirm(p) \/ PollFinds(p) \/ PollMisses(p)

Handler(p) ==
  \/ Arrive(p)
  \/ Reject(p)
  \/ Begin(p)
  \/ Receive(p)
  \/ PollTick(p)
  \/ Answer(p)
  \/ GiveUp(p)
  \/ ClientLeaves(p)

Next ==
  \/ \E p \in Posts : Upstream(p) \/ Worker(p) \/ Handler(p)
  \/ CancelApp
  \/ CloseReturns

\* The goroutine and the handler run, and their upstream calls end, because the
\* HTTP client and createContext have timeouts.  A select with several cases
\* ready picks one at random, so a case that is ready again and again is taken:
\* strong fairness.  The browser, the upstream and the caller of Close need do
\* nothing.
Fairness ==
  /\ WF_vars(CloseReturns)
  /\ \A p \in Posts :
       /\ WF_vars(Worker(p))
       /\ WF_vars(Reject(p) \/ Begin(p))
       /\ WF_vars(Answer(p))
       /\ SF_vars(Receive(p))
       /\ SF_vars(GiveUp(p))

Spec == Init /\ [][Next]_vars

FairSpec == Spec /\ Fairness

-----------------------------------------------------------------------------
Running(p) == worker[p] \notin {"none", "done"}

\* The WaitGroup counts the goroutines that have been started and are not done.
\* The handler adds to it before the go statement, and every goroutine ends with
\* Done however its call ended.
BackgroundCountsWorkers ==
  background = Cardinality({p \in Posts : Running(p)})

\* Close returns only when no goroutine is running, whatever the order in which
\* they were started and in which their calls end.
CloseWaits ==
  [][app # "closed" /\ app' = "closed" => \A p \in Posts : ~Running(p)]_vars

\* What a browser is told has been accepted is there: the upstream has made the
\* sandbox that this very request asked for.  Two requests at the same time are
\* told apart by the identifier in the metadata, and the result of the call can
\* overtake the list that would have shown the sandbox, and the other way round.
AcceptedMeansCreated ==
  \A p \in Posts : reply[p] = "accepted" => sandbox[p] \in Created

\* Why AcceptedMeansCreated holds: an answer that says so, and all that can still
\* become one, goes back to an upstream that has made the sandbox.
OkMeansCreated ==
  \A p \in Posts :
    \/ outcome[p] = "ok"
    \/ result[p] = "ok"
    \/ handler[p] = "confirming"
    \/ reply[p] = "accepted"
    => sandbox[p] \in Created

\* Nobody waits in vain: a handler that waits has a result before it, or a goroutine
\* that has yet to send one.  And no goroutine is blocked by a handler that has left:
\* until it sends, the one place of its channel is free, and what it sends is set.
WaitersAreWoken ==
  \A p \in Posts :
    /\ handler[p] \in {"waiting", "polling"} =>
         worker[p] \in {"starting", "calling", "sending"} \/ result[p] # "none"
    /\ worker[p] \in {"none", "starting", "calling", "sending"} => result[p] = "none"
    /\ worker[p] = "sending" => outcome[p] # "none"

\* A call that has ended without being sent could not be made, or was prevented by Close:
\* nothing that the browser and the handler did meanwhile keeps it from being tried.
CallsAreTried ==
  \A p \in Posts :
    worker[p] \in {"calling", "sending", "sent", "done"} =>
      sandbox[p] # "unasked" \/ app # "open"

CreateInv ==
  /\ TypeOK
  /\ BackgroundCountsWorkers
  /\ OkMeansCreated
  /\ WaitersAreWoken
  /\ CallsAreTried

\* Nothing is asked of the upstream any more once Close has returned, not by the
\* handlers that go on running, nor by goroutines that they start after that.
NothingAskedAfterClose ==
  [][app = "closed" =>
       \A p \in Posts : sandbox'[p] = "asked" => sandbox[p] = "asked"]_vars

\* The goroutine, its channel and the select loop are a way to keep CreatePromise, in
\* which a request is new, taken, started and told, and is worked for or is not.
Stage(p) ==
  CASE handler[p] = "new" -> "new"
    [] handler[p] = "parsing" -> "taken"
    [] handler[p] \in {"waiting", "polling", "confirming"} -> "started"
    [] handler[p] = "returned" -> "told"

Promise == INSTANCE CreatePromise
             WITH stage <- [p \in Posts |-> Stage(p)],
                  working <- {p \in Posts : Running(p)}

KeepsCreatePromise == Promise!Spec

\* Close returns, whatever its goroutines are waiting for.
CloseEnds == (app = "cancelled") ~> (app = "closed")

\* Every request comes to rest: it is answered, unless its browser leaves or the
\* dashboard closes, and whoever is there to receive the result, the goroutine that
\* worked for it ends.
EveryPostSettles ==
  \A p \in Posts :
    (handler[p] = "parsing") ~>
      /\ handler[p] = "returned"
      /\ worker[p] \in {"none", "done"}
      /\ reply[p] = "none" => ~connected[p] \/ app # "open"

\* The comment on Close (dashboard.go:486): "Close cancels dashboard background
\* work and waits for it to finish".  A handler that was still parsing its form
\* when Close found the counter at zero starts its goroutine after Close has
\* returned.
ClosedMeansQuiet ==
  app = "closed" => \A p \in Posts : ~Running(p)
=============================================================================
