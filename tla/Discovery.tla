------------------------------ MODULE Discovery ------------------------------
(***************************************************************************)
(* How the client reads lists that are more than one answer:               *)
(* ListSandboxes of opensandbox/reader.go, which puts together the first   *)
(* page of the lifecycle API and two kinds of custom resources, and        *)
(* ListSnapshots of opensandbox/snapshots.go, which reads page after page. *)
(* What is read changes between one answer and the next.                   *)
(*                                                                         *)
(* Both are calls of one client for lists of things, and one is made after *)
(* the other.  A list is in the order of the server, where what is new     *)
(* comes first or last.  The fields that mergeSandboxes completes from one *)
(* source after another are left out, and so are what the pods are for and *)
(* a kind of resource that the cluster does not know: it has none.         *)
(***************************************************************************)
EXTENDS Naturals, Sequences, FiniteSets, SequencesExt

CONSTANTS
  Things,     \* the sandboxes, or the snapshots
  PageSize,   \* 200 for snapshots, 100 for sandboxes
  MaxMoves    \* bound of the model: how often what is read changes

VARIABLES
  list,       \* what the lifecycle API has, in its order
  resources,  \* the custom resources that there are
  moves,      \* how often these two have changed
  call,       \* which call is made
  at,         \* the answer that it waits for
  page,       \* the page it has asked for
  got,        \* what it has from the pages
  found,      \* the custom resources it has
  failed,     \* one of its requests has failed
  stayed,     \* what has been there ever since the call began (history)
  been,       \* what has been there at some moment since (history)
  added,      \* the list has grown since (history)
  removed     \* something was removed from the list since (history)

vars == <<list, resources, moves, call, at, page, got, found, failed, stayed, been, added, removed>>

world   == <<list, resources, moves>>
answers == <<page, got, found, failed>>
history == <<stayed, been, added, removed>>

Kinds     == {"batch", "agent"}
Resources == [kind : Kinds, of : Things]

ASSUME DiscoveryAssumption ==
  /\ IsFiniteSet(Things)
  /\ Things \cap Resources = {}
  /\ PageSize \in Nat \ {0}
  /\ MaxMoves \in Nat

Everything(l, rs) == ToSet(l) \cup rs

-----------------------------------------------------------------------------
(* The server.                                                             *)

HasNextPage(p) == p * PageSize < Len(list)

Page(p) ==
  SubSeq(list, (p - 1) * PageSize + 1, IF HasNextPage(p) THEN p * PageSize ELSE Len(list))

Moves(l, rs) ==
  /\ moves < MaxMoves
  /\ list' = l
  /\ resources' = rs
  /\ moves' = moves + 1
  /\ stayed' = stayed \cap Everything(l, rs)
  /\ been' = been \cup Everything(l, rs)
  /\ added' = (added \/ Len(l) > Len(list))
  /\ removed' = (removed \/ Len(l) < Len(list))
  /\ UNCHANGED <<call, at, answers>>

Appear    == \E t \in Things \ ToSet(list) :
               Moves(<<t>> \o list, resources) \/ Moves(Append(list, t), resources)
Disappear == \E i \in DOMAIN list : Moves(RemoveAt(list, i), resources)
Exchange  == \E r \in Resources :
               Moves(list, IF r \in resources THEN resources \ {r} ELSE resources \cup {r})

-----------------------------------------------------------------------------
(* The client.                                                             *)

Goes(from, to) == at = from /\ at' = to

Forgets(kept, keptFound) ==
  /\ page' = 1
  /\ got' = kept
  /\ found' = keptFound
  /\ failed' = FALSE

\* Mutant: the result is appended to what the call before has returned.
BeginWithTheRest(c) ==
  /\ Goes("idle", IF c = "sandboxes" THEN "pods" ELSE "page")
  /\ call' = c
  /\ Forgets(got, found)
  /\ stayed' = Everything(list, resources) /\ been' = Everything(list, resources)
  /\ added' = FALSE /\ removed' = FALSE
  /\ UNCHANGED world

Begin(c) ==
  /\ Goes("idle", IF c = "sandboxes" THEN "pods" ELSE "page")
  /\ call' = c
  /\ Forgets(<<>>, {})
  /\ stayed' = Everything(list, resources) /\ been' = Everything(list, resources)
  /\ added' = FALSE /\ removed' = FALSE
  /\ UNCHANGED world

\* listPods.
ReadPods ==
  /\ Goes("pods", "page")
  /\ failed' \in BOOLEAN
  /\ UNCHANGED <<world, call, page, got, found, history>>

\* One turn of the loop of ListSnapshots, which is left without a next page.
ReadSnapshots ==
  /\ call = "snapshots" /\ at = "page"
  /\ got' = got \o Page(page)
  /\ IF HasNextPage(page) THEN page' = page + 1 /\ UNCHANGED at
                          ELSE at' = "done" /\ UNCHANGED page
  /\ UNCHANGED <<world, call, found, failed, history>>

SnapshotsFail ==
  /\ call = "snapshots"
  /\ Goes("page", "done")
  /\ failed' = TRUE
  /\ UNCHANGED <<world, call, page, got, found, history>>

\* listLifecycleSandboxes.
ReadRecords ==
  /\ call = "sandboxes"
  /\ Goes("page", "batch")
  /\ got' = Page(1)
  /\ UNCHANGED <<world, call, page, found, failed, history>>

\* Mutant: the resources of a sandbox are those of the kind that was read last.
ReadResourcesAnew(kind) ==
  /\ Goes(kind, IF kind = "batch" THEN "agent" ELSE "done")
  /\ found' = {r \in resources : r.kind = kind}
  /\ UNCHANGED <<world, call, page, got, failed, history>>

\* listCustomResourceSandboxes, of one kind after the other.
ReadResources(kind) ==
  /\ Goes(kind, IF kind = "batch" THEN "agent" ELSE "done")
  /\ found' = found \cup {r \in resources : r.kind = kind}
  /\ UNCHANGED <<world, call, page, got, failed, history>>

SourceFails ==
  /\ call = "sandboxes"
  /\ \/ Goes("page", "batch")
     \/ Goes("batch", "agent")
     \/ Goes("agent", "done")
  /\ failed' = TRUE
  /\ UNCHANGED <<world, call, page, got, found, history>>

Return ==
  /\ Goes("done", "idle")
  /\ UNCHANGED <<world, call, answers, history>>

Init ==
  /\ list \in SetToAllKPermutations(Things)
  /\ resources \in SUBSET Resources
  /\ moves = 0
  /\ call = "sandboxes" /\ at = "idle"
  /\ page = 1 /\ got = <<>> /\ found = {} /\ failed = FALSE
  /\ stayed = {} /\ been = {}
  /\ added = FALSE /\ removed = FALSE

Server == Appear \/ Disappear \/ Exchange

Client ==
  \/ \E c \in {"sandboxes", "snapshots"} : Begin(c)
  \/ ReadPods
  \/ ReadSnapshots \/ SnapshotsFail
  \/ ReadRecords
  \/ \E kind \in Kinds : ReadResources(kind)
  \/ SourceFails
  \/ Return

Next == Server \/ Client

Spec == Init /\ [][Next]_vars

-----------------------------------------------------------------------------
TypeOK ==
  /\ list \in Seq(Things) /\ IsInjective(list)
  /\ resources \subseteq Resources
  /\ moves \in 0 .. MaxMoves
  /\ call \in {"sandboxes", "snapshots"}
  /\ at \in {"idle", "pods", "page", "done"} \cup Kinds
  /\ page \in Nat \ {0}
  /\ got \in Seq(Things)
  /\ found \subseteq Resources
  /\ failed \in BOOLEAN
  /\ stayed \subseteq been /\ been \subseteq Things \cup Resources
  /\ added \in BOOLEAN /\ removed \in BOOLEAN

\* Nothing is returned that was not there at some moment of the call, and a snapshot
\* is returned twice only if another was made meanwhile.
NothingMadeUp ==
  at # "idle" =>
    /\ Everything(got, found) \subseteq been
    /\ call = "snapshots" /\ ~added => IsInjective(got)

DiscoveryInv == TypeOK /\ NothingMadeUp

\* A call that returns no error has missed nothing that was there all the time, with two
\* exceptions: snapshots when one was removed between two pages, and the records of
\* sandboxes that were not on the first page.
NothingMissed ==
  at = "done" /\ ~failed =>
    IF call = "snapshots"
      THEN removed \/ stayed \cap Things \subseteq ToSet(got)
      ELSE /\ stayed \cap Resources \subseteq found
           /\ stayed \cap Things \subseteq ToSet(got) \/ Len(got) = PageSize
=============================================================================
