---------------------------- MODULE ListPromise ----------------------------
(***************************************************************************)
(* What the dashboard's cached lists (sandboxes, snapshots) promise to the *)
(* handlers that read them, said without a cache, a lock or a clock.       *)
(*                                                                         *)
(* The cluster's content is a version number that only grows.  A handler   *)
(* that changes the cluster has its change acknowledged once it returns    *)
(* from the invalidation that follows the change.  A request that asks for *)
(* the list is owed at least every acknowledged change, and a request that *)
(* asks for a fresh list is owed everything that is there when it asks.    *)
(***************************************************************************)
EXTENDS Naturals

CONSTANT Requests   \* the HTTP requests the dashboard is serving

VARIABLES
  version,      \* the cluster's content, as the number of changes made to it
  acked,        \* the last change whose handler has invalidated the cache
  asked,        \* the requests that wait for a list
  owed,         \* owed[r]: the oldest content r may be shown
  shown         \* shown[r]: the content r was last shown

vars == <<version, acked, asked, owed, shown>>

Init ==
  /\ version = 0
  /\ acked = 0
  /\ asked = {}
  /\ owed = [r \in Requests |-> 0]
  /\ shown = [r \in Requests |-> 0]

Change ==
  /\ version' = version + 1
  /\ UNCHANGED <<acked, asked, owed, shown>>

Acknowledge ==
  /\ acked' \in acked .. version
  /\ UNCHANGED <<version, asked, owed, shown>>

Ask(r) ==
  /\ r \notin asked
  /\ asked' = asked \cup {r}
  /\ owed' \in {[owed EXCEPT ![r] = v] : v \in {acked, version}}
  /\ UNCHANGED <<version, acked, shown>>

Answer(r) ==
  /\ r \in asked
  /\ asked' = asked \ {r}
  /\ shown' \in {[shown EXCEPT ![r] = v] : v \in owed[r] .. version}
  /\ UNCHANGED <<version, acked, owed>>

Next ==
  \/ Change
  \/ Acknowledge
  \/ \E r \in Requests : Ask(r) \/ Answer(r)

Spec == Init /\ [][Next]_vars
=============================================================================
