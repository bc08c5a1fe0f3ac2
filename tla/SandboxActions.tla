--------------------------- MODULE SandboxActions ---------------------------
(***************************************************************************)
(* What can be done to one sandbox: pausing and resuming it                *)
(* (dashboard.go, changeSandboxState), deleting it (deleteSandbox, and     *)
(* DeleteSandbox of opensandbox/writer.go) and looking at its usage        *)
(* (sandboxStats and its cache).                                           *)
(*                                                                         *)
(* A sandbox is up to two things: a record of the lifecycle API, which can *)
(* be paused and resumed, and custom resources of Kubernetes.  A handler   *)
(* lists, looks at what it has listed, and calls the upstream about it,    *)
(* which may have moved on.  An answer without an error says that the      *)
(* upstream has accepted the call, and what was accepted is carried out    *)
(* later: until then the same may be asked of it again, and accepted       *)
(* again.  A call that fails may have been accepted.                       *)
(*                                                                         *)
(* The list and its cache are in ListCache, as any list that is read for   *)
(* the call.  Time is left out: an entry of the stats cache may expire at  *)
(* any moment.                                                             *)
(***************************************************************************)
EXTENDS Naturals, FiniteSets

CONSTANTS
  Pauses, Resumes, Deletions,   \* the requests that pause, resume and delete
  Viewers,     \* the requests for stats
  Resources,   \* the custom resources of the sandbox
  None,        \* no entry
  MaxEpoch     \* bound of the model: how many calls the upstream accepts

ASSUME ActionsAssumption ==
  /\ Pauses \cap (Resumes \cup Deletions) = {} /\ Resumes \cap Deletions = {}
  /\ Viewers \cap (Pauses \cup Resumes \cup Deletions) = {}
  /\ MaxEpoch \in Nat

VARIABLES
  life,     \* what the lifecycle API says of the sandbox
  objects,  \* the custom resources that exist
  doomed,   \* those of them whose deletion has been accepted and not yet carried out
  epoch,    \* how many of the calls of these requests the upstream has accepted
  step,     \* where each request is
  listed,   \* what each deletion has listed
  todo,     \* the resources that a deletion still has to try
  some,     \* a deletion has deleted a resource
  errors,   \* a call of a deletion has failed
  changed,  \* the epoch of each request's last call that was accepted, or 0 (history)
  entry,    \* the entry of the sandbox in the stats cache
  usage,    \* what a command that runs has measured, and whether an entry was dropped meanwhile
  settled   \* the last epoch whose handler has dropped the entry (history)

vars == <<life, objects, doomed, epoch, step, listed, todo, some, errors, changed, entry, usage, settled>>

world    == <<life, objects, doomed, epoch>>
deletion == <<todo, some, errors>>
stats    == <<entry, usage, settled>>

Changes  == Pauses \cup Resumes
Handlers == Changes \cup Deletions
Lives    == {"running", "pausing", "paused", "resuming", "deleting", "gone"}

\* The states of a record, and the resources, that a deletion has still to be asked for.
Leaving  == {"deleting", "gone"}
Standing == objects \ doomed

Nothing == [life |-> "gone", objects |-> {}]

\* The upstream accepts a call: it will carry out what it says.
Accept(r, l, ds) ==
  /\ epoch < MaxEpoch
  /\ life' = l
  /\ doomed' = ds
  /\ epoch' = epoch + 1
  /\ changed' = [changed EXCEPT ![r] = epoch + 1]
  /\ UNCHANGED objects

Step(r, from, to) == step[r] = from /\ step' = [step EXCEPT ![r] = to]

-----------------------------------------------------------------------------
(* The list.  When one of its sources fails it is a part of what there is. *)

Requires(c) == IF c \in Pauses THEN "running" ELSE "paused"
Meanwhile(c) == IF c \in Pauses THEN "pausing" ELSE "resuming"
Expected(c) == IF c \in Pauses THEN "paused" ELSE "running"

\* The first call that follows, if one does: "refused" are the answers without a call.
FirstCall(r, seen) ==
  CASE r \in Changes /\ seen.life = Requires(r) -> "call"
    [] r \in Deletions /\ seen.life # "gone" -> "lifecycle"
    [] r \in Deletions /\ seen.life = "gone" /\ seen.objects # {} -> "resources"
    [] OTHER -> "refused"

List(r) ==
  \E l \in {life, "gone"}, os \in SUBSET objects :
    LET seen == [life |-> l, objects |-> os]
    IN  /\ Step(r, "list", FirstCall(r, seen))
        /\ listed' = [d \in Deletions |-> IF d = r THEN seen ELSE listed[d]]
        /\ todo' = [d \in Deletions |-> IF d = r THEN os ELSE todo[d]]
        /\ UNCHANGED <<world, some, errors, changed, stats>>

-----------------------------------------------------------------------------
(* Pausing and resuming.                                                   *)

\* The lifecycle API accepts a change of a sandbox that is in the state it is from; one
\* that is under way or done already it may accept again, to no effect.  The answer may
\* get lost.
ChangeAccepted(c, answered) ==
  /\ life \in {Requires(c), Meanwhile(c), Expected(c)}
  /\ Accept(c, IF life = Requires(c) THEN Meanwhile(c) ELSE life, doomed)
  /\ Step(c, "call", IF answered THEN "forget" ELSE "failed")
  /\ UNCHANGED <<listed, deletion, stats>>

\* Refused, given up, or never sent.
ChangeFails(c) ==
  /\ Step(c, "call", "failed")
  /\ UNCHANGED <<world, listed, deletion, changed, stats>>

-----------------------------------------------------------------------------
(* Deleting.                                                               *)

\* Mutant: what is not found counts as deleted.
NotFoundIsDeleted(d) ==
  /\ life \in Leaving
  /\ Step(d, "lifecycle", "forget")
  /\ UNCHANGED <<world, listed, deletion, changed, stats>>

\* deleteLifecycleSandbox: the answer 204, or its loss.
DeleteRecord(d, answered) ==
  /\ life # "gone"
  /\ Accept(d, "deleting", doomed)
  /\ Step(d, "lifecycle", IF answered THEN "forget" ELSE "resources")
  /\ errors' = IF answered THEN errors ELSE errors \cup {d}
  /\ UNCHANGED <<listed, todo, some, stats>>

\* The answer 404: the record is not there any more, or will not be.
RecordNotFound(d) ==
  /\ life \in Leaving
  /\ Step(d, "lifecycle", "resources")
  /\ UNCHANGED <<world, listed, deletion, changed, stats>>

DeleteRecordFails(d) ==
  /\ Step(d, "lifecycle", "resources")
  /\ errors' = errors \cup {d}
  /\ UNCHANGED <<world, listed, todo, some, changed, stats>>

\* deleteCustomResource: the answers 200 and 202, or their loss.
DeleteResource(d, r, answered) ==
  /\ step[d] = "resources" /\ r \in todo[d]
  /\ r \in objects
  /\ Accept(d, life, doomed \cup {r})
  /\ todo' = [todo EXCEPT ![d] = @ \ {r}]
  /\ some' = IF answered THEN some \cup {d} ELSE some
  /\ errors' = IF answered THEN errors ELSE errors \cup {d}
  /\ UNCHANGED <<step, listed, stats>>

ResourceNotFound(d, r) ==
  /\ step[d] = "resources" /\ r \in todo[d]
  /\ r \notin objects
  /\ todo' = [todo EXCEPT ![d] = @ \ {r}]
  /\ UNCHANGED <<world, step, listed, some, errors, changed, stats>>

DeleteResourceFails(d, r) ==
  /\ step[d] = "resources" /\ r \in todo[d]
  /\ todo' = [todo EXCEPT ![d] = @ \ {r}]
  /\ errors' = errors \cup {d}
  /\ UNCHANGED <<world, step, listed, some, changed, stats>>

\* Mutant: the errors of the calls are collected, and then forgotten.
OutcomeDropsErrors(d) == "forget"

\* The end of DeleteSandbox.
Outcome(d) == IF d \in some THEN "forget" ELSE "failed"

ResourcesTried(d) ==
  /\ todo[d] = {}
  /\ Step(d, "resources", Outcome(d))
  /\ UNCHANGED <<world, listed, deletion, changed, stats>>

-----------------------------------------------------------------------------
(* The stats cache.                                                        *)

\* Mutant: the entry stays until it expires.
DropNothing == UNCHANGED <<entry, usage>>

\* delete(app.statsCache, sandboxID).  A command that runs meanwhile will store its
\* result afterwards.
Drop ==
  /\ entry' = None
  /\ usage' = [v \in Viewers |->
                 IF step[v] = "command" THEN [usage[v] EXCEPT !.late = TRUE] ELSE usage[v]]

Forget(r) ==
  /\ Step(r, "forget", "done")
  /\ Drop
  /\ settled' = IF changed[r] > settled THEN changed[r] ELSE settled
  /\ UNCHANGED <<world, listed, deletion, changed>>

Idle == [of |-> 0, late |-> FALSE]

\* cachedSandboxStats finds no entry, and RunCommand is called.  An entry that is there is
\* what the request is answered with.
Miss(v) ==
  /\ entry = None
  /\ Step(v, "list", "command")
  /\ usage' = [usage EXCEPT ![v].of = epoch]
  /\ UNCHANGED <<world, listed, deletion, changed, entry, settled>>

\* The command runs in the sandbox at some moment of the call.
Measure(v) ==
  /\ step[v] = "command" /\ usage[v].of < epoch
  /\ usage' = [usage EXCEPT ![v].of = epoch]
  /\ UNCHANGED <<world, step, listed, deletion, changed, entry, settled>>

\* cacheSandboxStats, for what was measured or for the error.
Store(v) ==
  /\ Step(v, "command", "list")
  /\ entry' = usage[v]
  /\ usage' = [usage EXCEPT ![v] = Idle]
  /\ UNCHANGED <<world, listed, deletion, changed, settled>>

Expire ==
  /\ entry # None
  /\ entry' = None
  /\ UNCHANGED <<world, step, listed, deletion, changed, usage, settled>>

-----------------------------------------------------------------------------
\* The upstream carries out what it has accepted.
CarryOut ==
  /\ \/ /\ life' = CASE life = "pausing" -> "paused"
                      [] life = "resuming" -> "running"
                      [] life = "deleting" -> "gone"
                      [] OTHER -> life
        /\ UNCHANGED <<objects, doomed>>
     \/ /\ \E r \in doomed : objects' = objects \ {r} /\ doomed' = doomed \ {r}
        /\ UNCHANGED life
  /\ UNCHANGED <<epoch, step, listed, deletion, changed, stats>>

\* Other users of the cluster, and the lifecycle server, which removes resources of its
\* own and may give up a transition.  A deletion is not taken back.
WorldMoves ==
  /\ \/ life \notin Leaving /\ life' \in Lives /\ UNCHANGED <<objects, doomed>>
     \/ \E r \in Standing : doomed' = doomed \cup {r} /\ UNCHANGED <<life, objects>>
  /\ UNCHANGED <<epoch, step, listed, deletion, changed, stats>>

Init ==
  /\ life \in Lives
  /\ objects \in SUBSET Resources
  /\ doomed \in SUBSET objects
  /\ epoch = 0
  /\ step = [r \in Handlers \cup Viewers |-> "list"]
  /\ listed = [d \in Deletions |-> Nothing]
  /\ todo = [d \in Deletions |-> {}]
  /\ some = {} /\ errors = {}
  /\ changed = [r \in Handlers |-> 0]
  /\ entry = None
  /\ usage = [v \in Viewers |-> Idle]
  /\ settled = 0

Change(c) ==
  \/ \E answered \in BOOLEAN : ChangeAccepted(c, answered)
  \/ ChangeFails(c)

Delete(d) ==
  \/ \E answered \in BOOLEAN : DeleteRecord(d, answered)
  \/ RecordNotFound(d)
  \/ DeleteRecordFails(d)
  \/ \E r \in Resources :
       \/ \E answered \in BOOLEAN : DeleteResource(d, r, answered)
       \/ ResourceNotFound(d, r)
       \/ DeleteResourceFails(d, r)
  \/ ResourcesTried(d)

View(v) == Miss(v) \/ Measure(v) \/ Store(v)

Next ==
  \/ \E r \in Handlers : List(r) \/ Forget(r)
  \/ \E c \in Changes : Change(c)
  \/ \E d \in Deletions : Delete(d)
  \/ \E v \in Viewers : View(v)
  \/ Expire
  \/ CarryOut
  \/ WorldMoves

Spec == Init /\ [][Next]_vars

-----------------------------------------------------------------------------
Steps == {"list", "refused", "call", "lifecycle", "resources", "command", "forget", "failed", "done"}

TypeOK ==
  /\ life \in Lives
  /\ objects \subseteq Resources
  /\ doomed \subseteq objects
  /\ epoch \in 0 .. MaxEpoch
  /\ step \in [Handlers \cup Viewers -> Steps]
  /\ listed \in [Deletions -> [life : Lives, objects : SUBSET Resources]]
  /\ todo \in [Deletions -> SUBSET Resources]
  /\ some \subseteq Deletions /\ errors \subseteq Deletions
  /\ changed \in [Handlers -> 0 .. MaxEpoch]
  /\ entry \in [of : 0 .. MaxEpoch, late : BOOLEAN] \cup {None}
  /\ usage \in [Viewers -> [of : 0 .. MaxEpoch, late : BOOLEAN]]
  /\ settled \in 0 .. MaxEpoch

\* What a request is told goes by its own calls, although it began with a list that may
\* have been old and others ask for the same: success is told only to one that has had a
\* call accepted, and one that has is told of failure only if an answer has been lost.
\* (Two may have had the same change accepted, and both are told of success.)
TellsOfOwnCalls ==
  \A r \in Handlers :
    /\ step[r] \in {"forget", "done"} => changed[r] > 0
    /\ step[r] = "refused" => changed[r] = 0
    /\ step[r] = "failed" /\ changed[r] > 0 /\ r \in Deletions => r \in errors

ActionsInv == TypeOK /\ TellsOfOwnCalls

\* What a deletion tells, whoever else deletes or moves the sandbox meanwhile.  Success:
\* some part of what was listed is gone or will be, and unless a call has failed its
\* record is or will be, and so are all of its resources if they were tried.  Failure
\* without a call that failed: nothing of it is to stay.
DeletionTellsTruth ==
  \A d \in Deletions :
    LET recordLeaves == listed[d].life # "gone" => life \in Leaving
        objectsLeave == listed[d].objects \cap Standing = {}
    IN  /\ step[d] \in {"forget", "done"} =>
             /\ \/ listed[d].life # "gone" /\ recordLeaves
                \/ \E r \in listed[d].objects : r \notin Standing
             /\ d \notin errors => recordLeaves /\ (d \in some => objectsLeave)
        /\ step[d] = "failed" /\ d \notin errors => recordLeaves /\ objectsLeave

\* The stats that a request is answered with from the cache were measured after every
\* change whose handler has finished had been accepted, unless they were being measured
\* just when a handler dropped the entry: they are stored after that, and live as long as
\* any.
StatsShowWhatIsOwed == entry # None /\ entry.of < settled => entry.late
=============================================================================
