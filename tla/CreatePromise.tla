--------------------------- MODULE CreatePromise ---------------------------
(***************************************************************************)
(* What POST /dashboard/sandboxes and Dashboard.Close promise, said without*)
(* a goroutine, a channel, a counter or a poll.                            *)
(*                                                                         *)
(* A request is taken and either refused as malformed or worked for.  The  *)
(* work asks the upstream for one sandbox, unless it finds that it cannot  *)
(* (the request is not valid, the API key cannot be read) or the           *)
(* application has been cancelled; the browser leaving does not stop it.   *)
(* The browser may be told at any moment from then on, before the work is  *)
(* over or after, but only what is so: that its sandbox has been accepted  *)
(* when the upstream has made it, that it has failed when it has been      *)
(* asked for, cannot be, or may be no more.  It is told nothing only when  *)
(* it has left or the application is closing.  Close returns when nothing  *)
(* is worked on.                                                           *)
(***************************************************************************)
CONSTANT Posts   \* the POST requests

VARIABLES
  stage,      \* stage[p]: "new", "taken", "started" or "told"
  reply,      \* reply[p]: what the browser was told
  connected,  \* connected[p]: the browser is there
  working,    \* the requests that are worked for
  sandbox,    \* sandbox[p]: what has become of p's sandbox at the upstream
  app         \* "open", "cancelled" or "closed"

vars == <<stage, reply, connected, working, sandbox, app>>

Init ==
  /\ stage = [p \in Posts |-> "new"]
  /\ reply = [p \in Posts |-> "none"]
  /\ connected = [p \in Posts |-> TRUE]
  /\ working = {}
  /\ sandbox = [p \in Posts |-> "unasked"]
  /\ app = "open"

Tried(p) == sandbox[p] # "unasked" \/ app # "open"

Take(p) ==
  /\ stage[p] = "new"
  /\ stage' = [stage EXCEPT ![p] = "taken"]
  /\ UNCHANGED <<reply, connected, working, sandbox, app>>

Start(p) ==
  /\ stage[p] = "taken"
  /\ stage' = [stage EXCEPT ![p] = "started"]
  /\ working' = working \cup {p}
  /\ UNCHANGED <<reply, connected, sandbox, app>>

Ask(p) ==
  /\ p \in working
  /\ app = "open"
  /\ sandbox[p] = "unasked"
  /\ sandbox' = [sandbox EXCEPT ![p] = "asked"]
  /\ UNCHANGED <<stage, reply, connected, working, app>>

Abandon(p) ==
  /\ p \in working
  /\ sandbox[p] = "unasked"
  /\ sandbox' = [sandbox EXCEPT ![p] = "unsent"]
  /\ UNCHANGED <<stage, reply, connected, working, app>>

Finish(p) ==
  /\ p \in working
  /\ Tried(p)
  /\ working' = working \ {p}
  /\ UNCHANGED <<stage, reply, connected, sandbox, app>>

MayTell(p, what) ==
  \/ what = "badRequest" /\ stage[p] = "taken"
  \/ /\ what = "accepted"
     /\ stage[p] = "started"
     /\ sandbox[p] \in {"live", "stopped", "deleted"}
  \/ what = "badGateway" /\ stage[p] = "started" /\ Tried(p)
  \/ what = "none" /\ stage[p] = "started" /\ (~connected[p] \/ app # "open")

Tell(p, what) ==
  /\ MayTell(p, what)
  /\ stage' = [stage EXCEPT ![p] = "told"]
  /\ reply' = [reply EXCEPT ![p] = what]
  /\ UNCHANGED <<connected, working, sandbox, app>>

Leave(p) ==
  /\ stage[p] \in {"taken", "started"}
  /\ connected' = [connected EXCEPT ![p] = FALSE]
  /\ UNCHANGED <<stage, reply, working, sandbox, app>>

-----------------------------------------------------------------------------
(* The upstream makes what it was asked for or refuses it; what it has     *)
(* made may stop, run again and be deleted.                                *)

Becomes(p, from, to) ==
  /\ sandbox[p] = from
  /\ sandbox' = [sandbox EXCEPT ![p] = to]
  /\ UNCHANGED <<stage, reply, connected, working, app>>

Upstream(p) ==
  \/ \E to \in {"live", "refused"} : Becomes(p, "asked", to)
  \/ \E to \in {"stopped", "deleted"} : Becomes(p, "live", to)
  \/ \E to \in {"live", "deleted"} : Becomes(p, "stopped", to)

-----------------------------------------------------------------------------
Cancel ==
  /\ app = "open"
  /\ app' = "cancelled"
  /\ UNCHANGED <<stage, reply, connected, working, sandbox>>

Close ==
  /\ app = "cancelled"
  /\ working = {}
  /\ app' = "closed"
  /\ UNCHANGED <<stage, reply, connected, working, sandbox>>

Next ==
  \/ \E p \in Posts :
       \/ Take(p) \/ Start(p) \/ Ask(p) \/ Abandon(p) \/ Finish(p)
       \/ \E what \in {"badRequest", "accepted", "badGateway", "none"} : Tell(p, what)
       \/ Leave(p) \/ Upstream(p)
  \/ Cancel
  \/ Close

Spec == Init /\ [][Next]_vars
=============================================================================
