----------------------------- MODULE ListCache -----------------------------
(***************************************************************************)
(* One of the dashboard's list caches: listSandboxes with                  *)
(* invalidateSandboxCache.  listSnapshots and invalidateSnapshotCache are  *)
(* the same code over other fields, and listPools is the same code with no *)
(* invalidation.                                                           *)
(*                                                                         *)
(* A request that calls list takes the cache's mutex.  It is answered from *)
(* the cache while the entry is live and it did not ask for a fresh list;  *)
(* otherwise it reads the upstream with the mutex still held, stores what  *)
(* it got (an error and the partial list that came with it included) and   *)
(* answers with that.  A handler that changes the upstream calls           *)
(* invalidate, under the same mutex, only when the change succeeded.       *)
(*                                                                         *)
(* The upstream's content is abstracted to a version.  A list is put       *)
(* together from several upstream calls, one after the other: four for     *)
(* sandboxes, one for each page of the snapshots.  So what it shows is     *)
(* some version between the one at its start and the one at its end: the   *)
(* oldest version that any part of it comes from.  The client's timeout is *)
(* for one call, and nothing limits the read as a whole.                   *)
(***************************************************************************)
EXTENDS Naturals

CONSTANTS
  Requests,     \* the HTTP requests being served, one goroutine each
  Nobody,       \* the mutex's owner when it is free
  OkTTL,        \* how long a good list is kept: 4 s in the code
  ErrTTL,       \* how long a failed one is kept: 1 s in the code
  CallTimeout,  \* the upstream HTTP client's timeout, for each call: 90 s in the code
  MaxCalls,     \* bound of the model: upstream calls of one read
  MaxVersion,   \* bound of the model: changes made to the upstream
  MaxTime       \* bound of the model: ticks of the clock

ASSUME CacheAssumption ==
  /\ Nobody \notin Requests
  /\ OkTTL \in Nat \ {0}
  /\ ErrTTL \in Nat \ {0}
  /\ CallTimeout \in Nat
  /\ MaxCalls \in Nat
  /\ MaxVersion \in Nat
  /\ MaxTime \in Nat

VARIABLES
  version,  \* the upstream's content, as the number of changes made to it
  born,     \* born[v]: when the change that made version v was applied (history)
  now,      \* time.Now()
  mutex,    \* the owner of sandboxCacheMutex
  cache,    \* sandboxCache (the version it shows), sandboxCacheErr, and the number of
            \* calls of the read that it comes from (history)
  until,    \* sandboxCacheUntil; the zero time is 0
  pc,       \* pc[r]: where r is
  fresh,    \* fresh[r]: the parameter of r's call of list
  from,     \* from[r]: the version at the start of r's upstream read
  began,    \* began[r]: the time at the start of r's upstream read (history)
  calls,    \* calls[r]: the calls of that read so far, the one under way included (history)
  due,      \* due[r]: when the client gives up the call that is under way
  made,     \* made[r]: the version r's change of the upstream made, 0 before it is applied
  shown,    \* shown[r]: the version in the answer r got last
  acked,    \* the last change whose handler has returned from invalidate (history)
  owed      \* owed[r]: the oldest version r's call may be answered with (history)

vars == <<version, born, now, mutex, cache, until, pc, fresh, from, began, calls,
          due, made, shown, acked, owed>>

upstream == <<version, born>>
entry    == <<cache, until>>
call     == <<fresh, owed>>
read     == <<from, began, calls, due>>

Versions == 0 .. MaxVersion
Places   == {"idle", "list", "read", "change", "changed", "answered"}

Transition(r, places, to) ==
  /\ pc[r] \in places
  /\ pc' = [pc EXCEPT ![r] = to]

Latest(v, w) == IF v > w THEN v ELSE w

-----------------------------------------------------------------------------
(* The upstream: the lifecycle API and the custom resources.               *)

Apply ==
  /\ version < MaxVersion
  /\ version' = version + 1
  /\ born' = [born EXCEPT ![version + 1] = now]

\* Something other than this dashboard changes the upstream.
WorldChanges ==
  /\ Apply
  /\ UNCHANGED <<now, mutex, entry, pc, call, read, made, shown, acked>>

\* The clock.  It cannot pass the deadline of a call that is in flight.
Tick ==
  /\ now < MaxTime
  /\ \A r \in Requests : pc[r] = "read" => now < due[r]
  /\ now' = now + 1
  /\ UNCHANGED <<upstream, mutex, entry, pc, call, read, made, shown, acked>>

-----------------------------------------------------------------------------
(* list(ctx, fresh)                                                        *)

CallList(r, isFresh) ==
  /\ Transition(r, {"idle", "answered"}, "list")
  /\ fresh' = [fresh EXCEPT ![r] = isFresh]
  /\ owed' = [owed EXCEPT ![r] = IF isFresh THEN version ELSE acked]
  /\ UNCHANGED <<upstream, now, mutex, entry, read, made, shown, acked>>

\* Mutant: the parameter fresh is ignored.
MayHitFresh(r) == now < until

\* The entry answers the call: the test at the top of list.
MayHit(r) == ~fresh[r] /\ now < until

\* The mutex is taken, the copy made and the mutex released with nothing in
\* between that another request could see.
Hit(r) ==
  /\ Transition(r, {"list"}, "answered")
  /\ mutex = Nobody
  /\ MayHit(r)
  /\ shown' = [shown EXCEPT ![r] = cache.version]
  /\ UNCHANGED <<upstream, now, mutex, entry, call, read, made, acked>>

\* Mutant: the mutex guards the fields and is released across the read.
BeginReadUnlocked(r) ==
  /\ Transition(r, {"list"}, "read")
  /\ mutex = Nobody
  /\ ~MayHit(r)
  /\ from' = [from EXCEPT ![r] = version]
  /\ began' = [began EXCEPT ![r] = now]
  /\ calls' = [calls EXCEPT ![r] = 1]
  /\ due' = [due EXCEPT ![r] = now + CallTimeout]
  /\ UNCHANGED <<upstream, now, mutex, entry, call, made, shown, acked>>

BeginRead(r) ==
  /\ Transition(r, {"list"}, "read")
  /\ mutex = Nobody
  /\ ~MayHit(r)
  /\ mutex' = r
  /\ from' = [from EXCEPT ![r] = version]
  /\ began' = [began EXCEPT ![r] = now]
  /\ calls' = [calls EXCEPT ![r] = 1]
  /\ due' = [due EXCEPT ![r] = now + CallTimeout]
  /\ UNCHANGED <<upstream, now, entry, call, made, shown, acked>>

\* A call of the read ends, in time or because it has timed out, and the next one
\* begins: another source, another page, or the Secret with the API key.  The call
\* may be another request's, that reads the key while this one waits for it.
NextCall(r) ==
  /\ pc[r] = "read"
  /\ calls[r] < MaxCalls
  /\ calls' = [calls EXCEPT ![r] = calls[r] + 1]
  /\ due' = [due EXCEPT ![r] = now + CallTimeout]
  /\ UNCHANGED <<upstream, now, mutex, entry, pc, call, from, began, made, shown, acked>>

\* Mutant: a failed list is kept as long as a good one.
LifetimeOfAnyEntry(failed) == OkTTL

Lifetime(failed) == IF failed THEN ErrTTL ELSE OkTTL

\* Mutant: the failing path returns without unlocking.
EndReadKeepsMutex(r, v, failed) ==
  /\ Transition(r, {"read"}, "answered")
  /\ v \in from[r] .. version
  /\ cache' = [version |-> v, failed |-> failed, calls |-> calls[r]]
  /\ until' = now + Lifetime(failed)
  /\ shown' = [shown EXCEPT ![r] = v]
  /\ mutex' = IF failed THEN mutex ELSE Nobody
  /\ from' = [from EXCEPT ![r] = 0]
  /\ began' = [began EXCEPT ![r] = 0]
  /\ calls' = [calls EXCEPT ![r] = 0]
  /\ due' = [due EXCEPT ![r] = 0]
  /\ UNCHANGED <<upstream, now, call, made, acked>>

\* The read ends with its last call, in time or because a timeout or the caller's
\* context ended it.  Either way what it returned replaces the entry.
EndRead(r, v, failed) ==
  /\ Transition(r, {"read"}, "answered")
  /\ v \in from[r] .. version
  /\ cache' = [version |-> v, failed |-> failed, calls |-> calls[r]]
  /\ until' = now + Lifetime(failed)
  /\ shown' = [shown EXCEPT ![r] = v]
  /\ mutex' = Nobody
  /\ from' = [from EXCEPT ![r] = 0]
  /\ began' = [began EXCEPT ![r] = 0]
  /\ calls' = [calls EXCEPT ![r] = 0]
  /\ due' = [due EXCEPT ![r] = 0]
  /\ UNCHANGED <<upstream, now, call, made, acked>>

-----------------------------------------------------------------------------
(* A handler that changes the upstream and then invalidates: the delete,   *)
(* the pause and the resume of a sandbox, a creation that is tracked, and  *)
(* the creation and the deletion of a snapshot.  A creation that is not    *)
(* tracked asks for a fresh list instead, and one whose browser has left   *)
(* does neither: the cache takes it for a change of the world's.           *)

BeginChange(r) ==
  /\ Transition(r, {"idle", "answered"}, "change")
  /\ UNCHANGED <<upstream, now, mutex, entry, call, read, made, shown, acked>>

\* The upstream acts on the call, before the caller knows.
ChangeApplied(r) ==
  /\ pc[r] = "change"
  /\ made[r] = 0
  /\ Apply
  /\ made' = [made EXCEPT ![r] = version + 1]
  /\ UNCHANGED <<now, mutex, entry, pc, call, read, shown, acked>>

\* The call returns without an error: what it asked for has been accepted, which a
\* list that is read from then on shows.
ChangeReturns(r) ==
  /\ Transition(r, {"change"}, "changed")
  /\ made[r] # 0
  /\ UNCHANGED <<upstream, now, mutex, entry, call, read, made, shown, acked>>

\* The call returns an error, and may have been carried out all the same.
\* The handler renders the error and leaves the cache as it is.
ChangeFails(r) ==
  /\ Transition(r, {"change"}, "idle")
  /\ made' = [made EXCEPT ![r] = 0]
  /\ UNCHANGED <<upstream, now, mutex, entry, call, read, shown, acked>>

\* Mutant: the handler does not invalidate after its change.
InvalidateForgotten(r) ==
  /\ Transition(r, {"changed"}, "idle")
  /\ mutex = Nobody
  /\ acked' = Latest(acked, made[r])
  /\ made' = [made EXCEPT ![r] = 0]
  /\ UNCHANGED <<upstream, now, mutex, entry, call, read, shown>>

Invalidate(r) ==
  /\ Transition(r, {"changed"}, "idle")
  /\ mutex = Nobody
  /\ until' = 0
  /\ acked' = Latest(acked, made[r])
  /\ made' = [made EXCEPT ![r] = 0]
  /\ UNCHANGED <<upstream, now, mutex, cache, call, read, shown>>

-----------------------------------------------------------------------------
Init ==
  /\ version = 0
  /\ born = [v \in Versions |-> 0]
  /\ now = 1
  /\ mutex = Nobody
  /\ cache = [version |-> 0, failed |-> FALSE, calls |-> 0]
  /\ until = 0
  /\ pc = [r \in Requests |-> "idle"]
  /\ fresh = [r \in Requests |-> FALSE]
  /\ from = [r \in Requests |-> 0]
  /\ began = [r \in Requests |-> 0]
  /\ calls = [r \in Requests |-> 0]
  /\ due = [r \in Requests |-> 0]
  /\ made = [r \in Requests |-> 0]
  /\ shown = [r \in Requests |-> 0]
  /\ acked = 0
  /\ owed = [r \in Requests |-> 0]

List(r) ==
  \/ \E isFresh \in BOOLEAN : CallList(r, isFresh)
  \/ Hit(r)
  \/ BeginRead(r)
  \/ NextCall(r)
  \/ \E v \in Versions, failed \in BOOLEAN : EndRead(r, v, failed)

Handle(r) ==
  \/ BeginChange(r)
  \/ ChangeApplied(r)
  \/ ChangeReturns(r)
  \/ ChangeFails(r)
  \/ Invalidate(r)

Next ==
  \/ WorldChanges
  \/ Tick
  \/ \E r \in Requests : List(r) \/ Handle(r)

\* A read ends: each of its calls does, because the HTTP client has a timeout, and
\* it makes only so many.  Nobody is
\* starved of the mutex: a waiter that sync.Mutex has passed over for a
\* millisecond is handed the mutex next, which is strong fairness.  Requests
\* and changes need not come.
Fairness ==
  \A r \in Requests :
    /\ SF_vars(Hit(r) \/ BeginRead(r))
    /\ SF_vars(Invalidate(r))
    /\ WF_vars(\E v \in Versions, failed \in BOOLEAN : EndRead(r, v, failed))

Spec == Init /\ [][Next]_vars

FairSpec == Spec /\ Fairness

-----------------------------------------------------------------------------
TypeOK ==
  /\ version \in Versions
  /\ born \in [Versions -> Nat]
  /\ now \in Nat \ {0}
  /\ mutex \in Requests \cup {Nobody}
  /\ cache \in [version : Versions, failed : BOOLEAN, calls : Nat]
  /\ until \in Nat
  /\ pc \in [Requests -> Places]
  /\ fresh \in [Requests -> BOOLEAN]
  /\ from \in [Requests -> Versions]
  /\ began \in [Requests -> Nat]
  /\ calls \in [Requests -> Nat]
  /\ due \in [Requests -> Nat]
  /\ made \in [Requests -> Versions]
  /\ shown \in [Requests -> Versions]
  /\ acked \in Versions
  /\ owed \in [Requests -> Versions]

\* Read your writes, across requests.  An answer shows every change whose
\* handler had invalidated the cache before the request called list, and an
\* answer to a fresh call everything that was there when it called.  It rests
\* on listSandboxes keeping its mutex across the upstream read: an invalidation
\* waits for a read that began before the change, so the entry that such a read
\* stores cannot outlive it.
AnswersShowWhatIsOwed ==
  \A r \in Requests : pc[r] = "answered" => shown[r] >= owed[r]

\* Why AnswersShowWhatIsOwed holds: the one reader is the owner of the mutex, and
\* what it will store, like what a live entry shows, is no older than the last
\* acknowledged change.
MutexHeldAcrossRead ==
  \A r \in Requests : (pc[r] = "read") <=> (mutex = r)

ReadsShowAcked ==
  \A r \in Requests : pc[r] = "read" => acked <= from[r] /\ owed[r] <= from[r]

LiveEntryShowsAcked ==
  (mutex = Nobody /\ now < until) => acked <= cache.version

NothingFromTheFuture ==
  /\ acked <= version
  /\ cache.version <= version
  /\ \A r \in Requests :
       /\ made[r] <= version
       /\ owed[r] <= version
       /\ from[r] <= version
       /\ pc[r] = "list" /\ ~fresh[r] => owed[r] <= acked

\* Why the staleness of an answer is bounded: what a read may miss was made while it
\* ran, which is no longer than its calls together may take, and an entry is dead by the
\* time that the oldest change it misses is older than that and the entry's lifetime.
MissesOnlyTheRecent ==
  /\ \A r \in Requests : pc[r] = "read" =>
       /\ began[r] <= now /\ now <= due[r]
       /\ due[r] <= began[r] + calls[r] * CallTimeout
       /\ \A v \in 1 .. version : v > from[r] => began[r] <= born[v]
  /\ LET lifetime == IF cache.failed THEN ErrTTL ELSE OkTTL
         taken    == cache.calls * CallTimeout
     IN  /\ until <= now + lifetime
         /\ \A v \in 1 .. version : v > cache.version => until <= born[v] + taken + lifetime

CacheInv ==
  /\ TypeOK
  /\ MutexHeldAcrossRead
  /\ ReadsShowAcked
  /\ LiveEntryShowsAcked
  /\ NothingFromTheFuture
  /\ MissesOnlyTheRecent
  /\ AnswersShowWhatIsOwed

\* A change reaches every viewer in bounded time even when nobody invalidates:
\* an answer shows each change that is older than the timeouts of all the calls of the
\* read it comes from and the lifetime of the entry together; one that carries an error
\* is kept for the shorter lifetime of a failed entry.
Answers(r) == pc[r] \in {"list", "read"} /\ pc'[r] = "answered"

StalenessBounded ==
  [][\A r \in Requests : Answers(r) =>
       \A v \in 1 .. version :
         born[v] + cache'.calls * CallTimeout + (IF cache'.failed THEN ErrTTL ELSE OkTTL) <= now
           => shown'[r] >= v]_vars

\* Nobody waits for ever behind the mutex, neither a request for the list nor a
\* handler that invalidates, although each reader keeps the mutex for the whole
\* of its upstream read.
EveryCallEnds ==
  \A r \in Requests :
    /\ (pc[r] = "list") ~> (pc[r] = "answered")
    /\ (pc[r] = "changed") ~> (pc[r] = "idle")

\* The cache keeps the promise of ListPromise: seen from the handlers it is not
\* there, but for the changes it may not show yet.
Promise == INSTANCE ListPromise WITH
             asked <- {r \in Requests : pc[r] \in {"list", "read"}}

KeepsPromise == Promise!Spec
=============================================================================
