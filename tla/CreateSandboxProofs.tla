------------------------ MODULE CreateSandboxProofs ------------------------
(***************************************************************************)
(* CreateSandbox for every number of concurrent POST requests: the counter *)
(* that Close waits on, what Close may therefore conclude, and that a      *)
(* request reported as accepted has made its own sandbox.                  *)
(***************************************************************************)
EXTENDS CreateSandbox, FiniteSetTheorems, TLAPS

(***************************************************************************)
(* The set the counter counts, and how one goroutine's start and end       *)
(* change it.                                                              *)
(***************************************************************************)
Workers == {p \in Posts : Running(p)}

LEMMA WorkersAreFinite == IsFiniteSet(Workers)
  BY PostsAssumption, FS_Subset DEF Workers

LEMMA StartCounted ==
  ASSUME BackgroundCountsWorkers, NEW p \in Posts, p \notin Workers,
         Workers' = Workers \cup {p}, background' = background + 1
  PROVE  BackgroundCountsWorkers'
  BY WorkersAreFinite, FS_AddElement DEF BackgroundCountsWorkers, Workers

LEMMA EndCounted ==
  ASSUME BackgroundCountsWorkers, NEW p \in Posts, p \in Workers,
         Workers' = Workers \ {p}, background' = background - 1
  PROVE  BackgroundCountsWorkers' /\ background' \in Nat
<1>1. Cardinality(Workers \ {p}) = Cardinality(Workers) - 1 /\ IsFiniteSet(Workers \ {p})
  BY WorkersAreFinite, FS_RemoveElement
<1>2. Cardinality(Workers \ {p}) \in Nat
  BY <1>1, FS_CardinalityType
<1>3. QED
  BY <1>1, <1>2 DEF BackgroundCountsWorkers, Workers

LEMMA CountKept ==
  ASSUME BackgroundCountsWorkers, Workers' = Workers, UNCHANGED background
  PROVE  BackgroundCountsWorkers'
  BY DEF BackgroundCountsWorkers, Workers

(***************************************************************************)
(* The initial state.                                                      *)
(***************************************************************************)
LEMMA InitEstablishesInv == Init => CreateInv
<1> SUFFICES ASSUME Init PROVE CreateInv
  OBVIOUS
<1>1. TypeOK /\ OkMeansCreated /\ WaitersAreWoken /\ CallsAreTried
  BY DEF Init, TypeOK, OkMeansCreated, WaitersAreWoken, CallsAreTried, Replies, Created
<1>2. {p \in Posts : Running(p)} = {}
  BY DEF Init, Running
<1>3. QED
  BY <1>1, <1>2, FS_EmptySet DEF Init, CreateInv, BackgroundCountsWorkers

(***************************************************************************)
(* The upstream.  A sandbox that has been created stays created.           *)
(***************************************************************************)
LEMMA UpstreamPreservesInv ==
  ASSUME CreateInv, NEW p \in Posts, Upstream(p)
  PROVE  CreateInv'
<1>1. TypeOK'
  BY DEF CreateInv, TypeOK, Upstream, UpstreamDecides, SandboxMoves, Moves,
         handling, working, Created
<1>2. BackgroundCountsWorkers'
  BY CountKept
  DEF CreateInv, Upstream, UpstreamDecides, SandboxMoves, working, Workers, Running
<1>3. OkMeansCreated'
  BY DEF CreateInv, TypeOK, Upstream, UpstreamDecides, SandboxMoves, Moves, handling,
         working, OkMeansCreated, Created
<1>4. WaitersAreWoken' /\ CallsAreTried'
  BY DEF CreateInv, TypeOK, Upstream, UpstreamDecides, SandboxMoves, Moves, handling,
         working, WaitersAreWoken, CallsAreTried
<1>5. QED
  BY <1>1, <1>2, <1>3, <1>4 DEF CreateInv

(***************************************************************************)
(* The goroutine.                                                          *)
(***************************************************************************)
LEMMA CallPreservesInv ==
  ASSUME CreateInv, NEW p \in Posts,
         StartCall(p) \/ CannotCall(p) \/ SkipCall(p) \/ CallSucceeds(p) \/ CallFails(p) \/ Send(p)
  PROVE  CreateInv'
<1>1. TypeOK'
  BY DEF CreateInv, TypeOK, StartCall, CannotCall, SkipCall, CallSucceeds, CallFails, Send, Moves,
         handling
<1>2. Workers' = Workers
  BY DEF CreateInv, TypeOK, StartCall, CannotCall, SkipCall, CallSucceeds, CallFails, Send, Moves,
         Workers, Running
<1>3. BackgroundCountsWorkers'
  BY <1>2, CountKept
  DEF CreateInv, StartCall, CannotCall, SkipCall, CallSucceeds, CallFails, Send
<1>4. OkMeansCreated'
  BY DEF CreateInv, TypeOK, StartCall, CannotCall, SkipCall, CallSucceeds, CallFails, Send, Moves,
         handling, OkMeansCreated, Created
<1>5. WaitersAreWoken'
  BY DEF CreateInv, TypeOK, StartCall, CannotCall, SkipCall, CallSucceeds, CallFails, Send, Moves,
         handling, WaitersAreWoken
<1>6. CallsAreTried'
  BY DEF CreateInv, TypeOK, StartCall, CannotCall, SkipCall, CallSucceeds, CallFails, Send, Moves,
         ContextDone, CallsAreTried
<1>7. QED
  BY <1>1, <1>3, <1>4, <1>5, <1>6 DEF CreateInv

LEMMA WorkerDonePreservesInv ==
  ASSUME CreateInv, NEW p \in Posts, WorkerDone(p)
  PROVE  CreateInv'
<1>1. p \in Workers /\ Workers' = Workers \ {p}
  BY DEF CreateInv, TypeOK, WorkerDone, Moves, Workers, Running
<1>2. BackgroundCountsWorkers' /\ background' \in Nat
  BY <1>1, EndCounted DEF CreateInv, WorkerDone
<1>3. TypeOK'
  BY <1>2 DEF CreateInv, TypeOK, WorkerDone, Moves, handling
<1>4. OkMeansCreated'
  BY DEF CreateInv, WorkerDone, handling, OkMeansCreated
<1>5. WaitersAreWoken' /\ CallsAreTried'
  BY DEF CreateInv, TypeOK, WorkerDone, Moves, handling, WaitersAreWoken, CallsAreTried
<1>6. QED
  BY <1>2, <1>3, <1>4, <1>5 DEF CreateInv

(***************************************************************************)
(* The handler.                                                            *)
(***************************************************************************)
LEMMA BeginPreservesInv ==
  ASSUME CreateInv, NEW p \in Posts, Begin(p)
  PROVE  CreateInv'
<1>1. p \notin Workers /\ Workers' = Workers \cup {p}
  BY DEF CreateInv, TypeOK, Begin, Moves, Workers, Running
<1>2. BackgroundCountsWorkers'
  BY <1>1, StartCounted DEF CreateInv, Begin
<1>3. TypeOK'
  BY DEF CreateInv, TypeOK, Begin, Moves
<1>4. OkMeansCreated'
  BY DEF CreateInv, TypeOK, Begin, Moves, OkMeansCreated
<1>5. WaitersAreWoken' /\ CallsAreTried'
  BY DEF CreateInv, TypeOK, Begin, Moves, WaitersAreWoken, CallsAreTried
<1>6. QED
  BY <1>2, <1>3, <1>4, <1>5 DEF CreateInv

LEMMA HandlerPreservesInv ==
  ASSUME CreateInv, NEW p \in Posts, Handler(p), ~Begin(p)
  PROVE  CreateInv'
<1>1. UNCHANGED <<working, sandbox>>
  BY DEF Handler, Arrive, Reject, Receive, ReceiveError, ReceiveOk, PollTick, Answer,
         Confirm, PollFinds, PollMisses, GiveUp, ClientLeaves
<1>2. TypeOK'
  <2>1. background' \in Nat /\ worker' = worker /\ outcome' = outcome /\ sandbox' = sandbox
    BY <1>1 DEF CreateInv, TypeOK, working
  <2>2. CASE Arrive(p) \/ ClientLeaves(p)
    BY <2>1, <2>2 DEF CreateInv, TypeOK, Arrive, ClientLeaves, Moves, handling
  <2>3. CASE Receive(p)
    BY <2>1, <2>3
    DEF CreateInv, TypeOK, Receive, ReceiveError, ReceiveOk, Return, Moves, Replies
  <2>4. CASE Reject(p) \/ PollTick(p) \/ Answer(p) \/ GiveUp(p)
    <3>1. UNCHANGED <<connected, result, app>>
      BY <2>4 DEF Reject, PollTick, Answer, Confirm, PollFinds, PollMisses, GiveUp
    <3>2. reply' \in [Posts -> Replies \cup {"none"}]
      BY <2>4
      DEF CreateInv, TypeOK, Reject, PollTick, Answer, Confirm, PollFinds, PollMisses,
          GiveUp, Return, Replies
    <3>3. handler' \in [Posts -> {"new", "parsing", "waiting", "polling", "confirming",
                                  "returned"}]
      BY <2>4
      DEF CreateInv, TypeOK, Reject, PollTick, Answer, Confirm, PollFinds, PollMisses,
          GiveUp, Return, Moves
    <3>4. QED
      BY <2>1, <3>1, <3>2, <3>3 DEF CreateInv, TypeOK
  <2>5. QED
    BY <2>2, <2>3, <2>4 DEF Handler
<1>3. BackgroundCountsWorkers'
  BY <1>1, CountKept DEF CreateInv, working, Workers, Running
<1>4. OkMeansCreated'
  <2>1. outcome' = outcome /\ sandbox' = sandbox
    BY <1>1 DEF working
  <2>2. QED
    BY <2>1
    DEF CreateInv, TypeOK, Handler, Arrive, Reject, Receive, ReceiveError, ReceiveOk,
        PollTick, Answer, Confirm, PollFinds, PollMisses, GiveUp, ClientLeaves, Return,
        AcceptedSandbox, Moves, handling, OkMeansCreated, Created
<1>5. WaitersAreWoken'
  <2>1. worker' = worker /\ outcome' = outcome
    BY <1>1 DEF working
  <2>2. QED
    BY <2>1
    DEF CreateInv, TypeOK, Handler, Arrive, Reject, Receive, ReceiveError, ReceiveOk,
        PollTick, Answer, Confirm, PollFinds, PollMisses, GiveUp, ClientLeaves, Return,
        Moves, handling, WaitersAreWoken
<1>6. CallsAreTried'
  <2>1. worker' = worker /\ sandbox' = sandbox /\ app' = app
    BY <1>1
    DEF working, Handler, Arrive, Reject, Receive, ReceiveError, ReceiveOk, PollTick,
        Answer, Confirm, PollFinds, PollMisses, GiveUp, ClientLeaves
  <2>2. QED
    BY <2>1 DEF CreateInv, CallsAreTried
<1>7. QED
  BY <1>2, <1>3, <1>4, <1>5, <1>6 DEF CreateInv

(***************************************************************************)
(* Close, which changes none of what the invariant is about.               *)
(***************************************************************************)
LEMMA ClosePreservesInv ==
  ASSUME CreateInv, CancelApp \/ CloseReturns
  PROVE  CreateInv'
<1>1. TypeOK' /\ OkMeansCreated' /\ WaitersAreWoken' /\ CallsAreTried'
  BY DEF CreateInv, TypeOK, CancelApp, CloseReturns, handling, working,
         OkMeansCreated, WaitersAreWoken, CallsAreTried
<1>2. BackgroundCountsWorkers'
  BY CountKept DEF CreateInv, CancelApp, CloseReturns, working, Workers, Running
<1>3. QED
  BY <1>1, <1>2 DEF CreateInv

LEMMA NextPreservesInv == CreateInv /\ [Next]_vars => CreateInv'
<1> SUFFICES ASSUME CreateInv, [Next]_vars
             PROVE  CreateInv'
  OBVIOUS
<1>1. ASSUME NEW p \in Posts, Upstream(p) \/ Worker(p) \/ Handler(p)
      PROVE  CreateInv'
  BY <1>1, UpstreamPreservesInv, CallPreservesInv, WorkerDonePreservesInv,
     BeginPreservesInv, HandlerPreservesInv
  DEF Worker
<1>2. CASE CancelApp \/ CloseReturns
  BY <1>2, ClosePreservesInv
<1>3. CASE UNCHANGED vars
  <2>1. TypeOK' /\ OkMeansCreated' /\ WaitersAreWoken' /\ CallsAreTried'
    BY <1>3
    DEF CreateInv, TypeOK, OkMeansCreated, WaitersAreWoken, CallsAreTried, vars
  <2>2. BackgroundCountsWorkers'
    BY <1>3, CountKept DEF CreateInv, vars, Workers, Running
  <2>3. QED
    BY <2>1, <2>2 DEF CreateInv
<1>4. QED
  BY <1>1, <1>2, <1>3 DEF Next

(***************************************************************************)
(* The state is well formed, app.background counts the goroutines that     *)
(* run, and whatever can still become a positive answer has its sandbox.   *)
(***************************************************************************)
THEOREM InvariantHolds == Spec => []CreateInv
  BY InitEstablishesInv, NextPreservesInv, PTL DEF Spec

(***************************************************************************)
(* No browser is told that its sandbox has been accepted before the        *)
(* upstream has made the sandbox of that very request.                     *)
(***************************************************************************)
THEOREM AcceptedIsCreated == Spec => []AcceptedMeansCreated
<1>1. CreateInv => AcceptedMeansCreated
  BY DEF CreateInv, OkMeansCreated, AcceptedMeansCreated
<1>2. QED
  BY <1>1, InvariantHolds, PTL

(***************************************************************************)
(* A handler that waits has a result before it or a goroutine that has yet *)
(* to send one, and a goroutine that sends finds room in its channel.      *)
(***************************************************************************)
THEOREM NobodyWaitsInVain == Spec => []WaitersAreWoken
<1>1. CreateInv => WaitersAreWoken
  BY DEF CreateInv
<1>2. QED
  BY <1>1, InvariantHolds, PTL

(***************************************************************************)
(* When Close returns, no goroutine is running.                            *)
(***************************************************************************)
THEOREM CloseWaitsForWork == Spec => CloseWaits
<1>1. ASSUME CreateInv, [Next]_vars, app # "closed", app' = "closed"
      PROVE  \A p \in Posts : ~Running(p)
  <2>1. background = 0
    BY <1>1
    DEF Next, vars, CloseReturns, CancelApp, Upstream, UpstreamDecides, SandboxMoves,
        Worker, StartCall, CannotCall, SkipCall, CallSucceeds, CallFails, Send, WorkerDone, Handler,
        Arrive, Reject, Begin, Receive, ReceiveError, ReceiveOk, PollTick, Answer,
        Confirm, PollFinds, PollMisses, GiveUp, ClientLeaves
  <2>2. Workers = {}
    BY <1>1, <2>1, WorkersAreFinite, FS_EmptySet
    DEF CreateInv, BackgroundCountsWorkers, Workers
  <2>3. QED
    BY <2>2 DEF Workers
<1>2. CreateInv /\ [Next]_vars
        => [app # "closed" /\ app' = "closed" => \A p \in Posts : ~Running(p)]_vars
  BY <1>1
<1>3. QED
  BY <1>2, InvariantHolds, PTL DEF Spec, CloseWaits

(***************************************************************************)
(* Once Close has returned, no sandbox is asked for any more: only         *)
(* StartCall asks, and only while the application's context is open.       *)
(***************************************************************************)
THEOREM ClosedAsksNothing == Spec => NothingAskedAfterClose
<1>1. ASSUME CreateInv, [Next]_vars, app = "closed", NEW q \in Posts, sandbox'[q] = "asked"
      PROVE  sandbox[q] = "asked"
  <2>1. ASSUME NEW p \in Posts, Upstream(p) PROVE sandbox[q] = "asked"
    BY <1>1, <2>1 DEF CreateInv, TypeOK, Upstream, UpstreamDecides, SandboxMoves, Moves
  <2>2. ASSUME NEW p \in Posts, Worker(p) PROVE sandbox[q] = "asked"
    BY <1>1, <2>2
    DEF CreateInv, TypeOK, Worker, StartCall, ContextDone, CannotCall, SkipCall, CallSucceeds,
        CallFails, Send, WorkerDone, Moves
  <2>3. ASSUME NEW p \in Posts, Handler(p) PROVE sandbox[q] = "asked"
    BY <1>1, <2>3
    DEF Handler, Arrive, Reject, Begin, Receive, ReceiveError, ReceiveOk, PollTick,
        Answer, Confirm, PollFinds, PollMisses, GiveUp, ClientLeaves
  <2>4. QED
    BY <1>1, <2>1, <2>2, <2>3 DEF Next, CancelApp, CloseReturns, vars
<1>2. CreateInv /\ [Next]_vars
        => [app = "closed" =>
              \A p \in Posts : sandbox'[p] = "asked" => sandbox[p] = "asked"]_vars
  BY <1>1
<1>3. QED
  BY <1>2, InvariantHolds, PTL DEF Spec, NothingAskedAfterClose

(***************************************************************************)
(* The refinement of CreatePromise.  The goroutine's own steps, the poll   *)
(* and the channel are not seen in it: what is seen is when a request is   *)
(* taken, started and told, and when its work begins and ends.             *)
(***************************************************************************)
Stages == [q \in Posts |-> Stage(q)]

LEMMA StagesKept ==
  ASSUME UNCHANGED handler
  PROVE  UNCHANGED Stages
  BY DEF Stages, Stage

LEMMA StageMoves ==
  ASSUME TypeOK, NEW p \in Posts, NEW froms, NEW to, Moves(handler, p, froms, to),
         NEW old, NEW new, Stage(p) = old, Stage(p)' = new
  PROVE  Stages[p] = old /\ Stages' = [Stages EXCEPT ![p] = new]
<1>1. ASSUME NEW q \in Posts, q # p
      PROVE  Stage(q)' = Stage(q)
  <2>1. handler'[q] = handler[q]
    BY <1>1 DEF TypeOK, Moves
  <2>2. QED
    BY <2>1 DEF Stage
<1>2. QED
  BY <1>1 DEF Stages

LEMMA InitRefines == Init => Promise!Init
<1> SUFFICES ASSUME Init PROVE Promise!Init
  OBVIOUS
<1>1. {q \in Posts : Running(q)} = {}
  BY DEF Init, Running
<1>2. [q \in Posts |-> Stage(q)] = [q \in Posts |-> "new"]
  BY DEF Init, Stage
<1>3. QED
  BY <1>1, <1>2 DEF Init, Promise!Init

LEMMA UpstreamRefines ==
  ASSUME CreateInv, NEW p \in Posts, Upstream(p)
  PROVE  Promise!Next
<1>1. UNCHANGED <<connected, reply, handler, worker, app>>
  BY DEF Upstream, UpstreamDecides, SandboxMoves, handling, working
<1>2. UNCHANGED <<Stages, Workers>>
  BY <1>1, StagesKept DEF Workers, Running
<1>3. Promise!Upstream(p)
  BY <1>1, <1>2
  DEF Stages, Workers, Upstream, UpstreamDecides, SandboxMoves, Moves, Promise!Upstream,
      Promise!Becomes
<1>4. QED
  BY <1>3 DEF Promise!Next

LEMMA WorkerRefines ==
  ASSUME CreateInv, NEW p \in Posts, Worker(p)
  PROVE  [Promise!Next]_Promise!vars
<1>1. UNCHANGED <<connected, reply, handler, app>>
  BY DEF Worker, StartCall, CannotCall, SkipCall, CallSucceeds, CallFails, Send, WorkerDone,
         handling
<1>2. UNCHANGED Stages
  BY <1>1, StagesKept
<1>3. CASE StartCall(p)
  <2>1. UNCHANGED Workers /\ p \in Workers
    BY <1>3 DEF CreateInv, TypeOK, StartCall, Moves, Workers, Running
  <2>2. Promise!Ask(p)
    BY <1>1, <1>2, <1>3, <2>1
    DEF StartCall, ContextDone, Moves, Stages, Workers, Promise!Ask
  <2>3. QED
    BY <2>2 DEF Promise!Next
<1>4. CASE CannotCall(p)
  <2>1. UNCHANGED Workers /\ p \in Workers
    BY <1>4 DEF CreateInv, TypeOK, CannotCall, Moves, Workers, Running
  <2>2. Promise!Abandon(p)
    BY <1>1, <1>2, <1>4, <2>1
    DEF CannotCall, Moves, Stages, Workers, Promise!Abandon
  <2>3. QED
    BY <2>2 DEF Promise!Next
<1>5. CASE SkipCall(p) \/ CallSucceeds(p) \/ CallFails(p) \/ Send(p)
  <2>1. UNCHANGED <<Workers, sandbox>>
    BY <1>5
    DEF CreateInv, TypeOK, SkipCall, CallSucceeds, CallFails, Send, Moves, Workers, Running
  <2>2. QED
    BY <1>1, <1>2, <2>1 DEF Stages, Workers, Promise!vars
<1>6. CASE WorkerDone(p)
  <2>1. p \in Workers /\ Workers' = Workers \ {p}
    BY <1>6 DEF CreateInv, TypeOK, WorkerDone, Moves, Workers, Running
  <2>2. Promise!Finish(p)
    BY <1>1, <1>2, <1>6, <2>1
    DEF CreateInv, CallsAreTried, WorkerDone, Moves, Stages, Workers, Promise!Finish,
        Promise!Tried
  <2>3. QED
    BY <2>2 DEF Promise!Next
<1>7. QED
  BY <1>3, <1>4, <1>5, <1>6 DEF Worker

LEMMA BeginRefines ==
  ASSUME CreateInv, CreateInv', NEW p \in Posts, Begin(p)
  PROVE  Promise!Next
<1>1. Stages[p] = "taken" /\ Stages' = [Stages EXCEPT ![p] = "started"]
  <2>1. Stage(p) = "taken" /\ Stage(p)' = "started"
    BY DEF CreateInv, TypeOK, Begin, Moves, Stage
  <2>2. QED
    BY <2>1, StageMoves DEF CreateInv, Begin
<1>2. Workers' = Workers \cup {p}
  BY DEF CreateInv, TypeOK, Begin, Moves, Workers, Running
<1>3. Promise!Start(p)
  BY <1>1, <1>2 DEF Begin, Stages, Workers, Promise!Start
<1>4. QED
  BY <1>3 DEF Promise!Next

\* What may be told, action by action.
LEMMA ReturnRefines ==
  ASSUME CreateInv, CreateInv', NEW p \in Posts,
         Reject(p) \/ ReceiveError(p) \/ Confirm(p) \/ PollFinds(p) \/ GiveUp(p)
  PROVE  Promise!Next
<1>1. UNCHANGED <<connected, worker, sandbox, app>>
  BY DEF Reject, ReceiveError, Confirm, PollFinds, GiveUp, working
<1>2. UNCHANGED Workers
  BY <1>1 DEF Workers, Running
<1>3. PICK what \in Replies \cup {"none"} : reply' = [reply EXCEPT ![p] = what]
  BY DEF Reject, ReceiveError, Confirm, PollFinds, GiveUp, Return, Replies
<1>4. Stages' = [Stages EXCEPT ![p] = "told"]
  <2>1. Moves(handler, p, {handler[p]}, "returned")
    BY DEF Reject, ReceiveError, Confirm, PollFinds, GiveUp, Return, Moves
  <2>2. Stage(p)' = "told"
    BY <2>1 DEF CreateInv, TypeOK, Moves, Stage
  <2>3. QED
    BY <2>1, <2>2, StageMoves DEF CreateInv
<1>5. Stages[p] = IF Reject(p) THEN "taken" ELSE "started"
  BY DEF Stages, Stage, Reject, ReceiveError, Confirm, PollFinds, GiveUp, Return, Moves
<1>6. reply'[p] = what
  BY <1>3 DEF CreateInv, TypeOK
<1>7. Promise!MayTell(p, what)
  <2>1. CASE Reject(p)
    BY <1>5, <1>6, <2>1
    DEF CreateInv, TypeOK, Reject, Return, Stages, Promise!MayTell
  <2>2. CASE ReceiveError(p)
    BY <1>5, <1>6, <2>2
    DEF CreateInv, TypeOK, WaitersAreWoken, CallsAreTried, Reject, ReceiveError, Return,
        Moves, Stages, Promise!MayTell, Promise!Tried
  <2>3. CASE Confirm(p) \/ PollFinds(p)
    BY <1>5, <1>6, <2>3
    DEF CreateInv, TypeOK, OkMeansCreated, Created, Reject, Confirm, PollFinds,
        AcceptedSandbox, Return, Moves, Stages, Promise!MayTell
  <2>4. CASE GiveUp(p)
    BY <1>5, <1>6, <2>4
    DEF CreateInv, TypeOK, Reject, GiveUp, Return, Moves, Stages, Promise!MayTell
  <2>5. QED
    BY <2>1, <2>2, <2>3, <2>4
<1>8. Promise!Tell(p, what)
  BY <1>1, <1>2, <1>3, <1>4, <1>7 DEF Stages, Workers, Promise!Tell
<1>9. QED
  BY <1>8 DEF Replies, Promise!Next

LEMMA HandlerRefines ==
  ASSUME CreateInv, CreateInv', NEW p \in Posts, Handler(p)
  PROVE  [Promise!Next]_Promise!vars
<1>1. CASE Arrive(p)
  <2>1. Stages[p] = "new" /\ Stages' = [Stages EXCEPT ![p] = "taken"]
    <3>1. Stage(p) = "new" /\ Stage(p)' = "taken"
      BY <1>1 DEF CreateInv, TypeOK, Arrive, Moves, Stage
    <3>2. QED
      BY <1>1, <3>1, StageMoves DEF CreateInv, Arrive
  <2>2. UNCHANGED Workers
    BY <1>1 DEF Arrive, working, Workers, Running
  <2>3. Promise!Take(p)
    BY <1>1, <2>1, <2>2 DEF Arrive, Stages, Workers, Promise!Take
  <2>4. QED
    BY <2>3 DEF Promise!Next
<1>2. CASE ReceiveOk(p) \/ PollTick(p) \/ PollMisses(p)
  <2>1. UNCHANGED <<connected, reply, worker, sandbox, app>>
    BY <1>2 DEF ReceiveOk, PollTick, PollMisses, working
  <2>2. UNCHANGED Workers
    BY <2>1 DEF Workers, Running
  <2>3. UNCHANGED Stages
    BY <1>2 DEF CreateInv, TypeOK, ReceiveOk, PollTick, PollMisses, Moves, Stages, Stage
  <2>4. QED
    BY <2>1, <2>2, <2>3 DEF Stages, Workers, Promise!vars
<1>3. CASE ClientLeaves(p)
  <2>1. UNCHANGED <<handler, reply, worker, sandbox, app>>
    BY <1>3 DEF ClientLeaves, handling, working
  <2>2. UNCHANGED <<Stages, Workers>>
    BY <2>1, StagesKept DEF Workers, Running
  <2>3. Stages[p] \in {"taken", "started"}
    BY <1>3 DEF ClientLeaves, Stages, Stage
  <2>4. Promise!Leave(p)
    BY <1>3, <2>1, <2>2, <2>3 DEF ClientLeaves, Stages, Workers, Promise!Leave
  <2>5. QED
    BY <2>4 DEF Promise!Next
<1>4. QED
  BY <1>1, <1>2, <1>3, BeginRefines, ReturnRefines DEF Handler, Receive, Answer

LEMMA CloseRefines ==
  ASSUME CreateInv, CancelApp \/ CloseReturns
  PROVE  Promise!Next
<1>1. UNCHANGED <<connected, handler, reply, worker, sandbox>>
  BY DEF CancelApp, CloseReturns, handling, working
<1>2. UNCHANGED <<Stages, Workers>>
  BY <1>1, StagesKept DEF Workers, Running
<1>3. CASE CancelApp
  BY <1>1, <1>2, <1>3 DEF CancelApp, Stages, Workers, Promise!Cancel, Promise!Next
<1>4. CASE CloseReturns
  <2>1. Workers = {}
    BY <1>4, WorkersAreFinite, FS_EmptySet
    DEF CreateInv, BackgroundCountsWorkers, CloseReturns, Workers
  <2>2. QED
    BY <1>1, <1>2, <1>4, <2>1
    DEF CloseReturns, Stages, Workers, Promise!Close, Promise!Next
<1>5. QED
  BY <1>3, <1>4

LEMMA NextRefines ==
  ASSUME CreateInv, CreateInv', [Next]_vars
  PROVE  [Promise!Next]_Promise!vars
<1>1. CASE UNCHANGED vars
  <2>1. UNCHANGED <<Stages, Workers>>
    BY <1>1, StagesKept DEF vars, Workers, Running
  <2>2. QED
    BY <1>1, <2>1 DEF vars, Stages, Workers, Promise!vars
<1>2. QED
  BY <1>1, UpstreamRefines, WorkerRefines, HandlerRefines, CloseRefines DEF Next

(***************************************************************************)
(* The handler, its goroutine and the channel between them keep            *)
(* CreatePromise: the work for a POST ends only when its sandbox was asked *)
(* for, could not be, or may be no more because Close has begun; nobody is *)
(* told what is not so; and Close waits for the work, whatever leaves and  *)
(* fails meanwhile.                                                        *)
(***************************************************************************)
THEOREM CreateKeepsPromise == Spec => KeepsCreatePromise
  BY InitRefines, NextRefines, InvariantHolds, PTL
  DEF Spec, KeepsCreatePromise, Promise!Spec
=============================================================================
