-------------------------- MODULE ListCacheProofs --------------------------
(***************************************************************************)
(* ListCache for every number of requests, every lifetime, every timeout   *)
(* and every bound: its invariant, the promise it makes to the handlers    *)
(* that read the list, and that it implements ListPromise.                 *)
(***************************************************************************)
EXTENDS ListCache, TLAPS

(***************************************************************************)
(* Versions are natural numbers, with 0 and each change within the bound.  *)
(***************************************************************************)
LEMMA VersionsAreNaturals ==
  /\ 0 \in Versions
  /\ \A v \in Versions : v \in Nat /\ v <= MaxVersion
  /\ \A v \in Versions : v < MaxVersion => v + 1 \in Versions
  BY CacheAssumption DEF Versions

LEMMA LatestIsAVersion ==
  ASSUME NEW v \in Versions, NEW w \in Versions
  PROVE  Latest(v, w) \in Versions /\ v <= Latest(v, w)
  BY VersionsAreNaturals DEF Latest

(***************************************************************************)
(* The initial state.                                                      *)
(***************************************************************************)
LEMMA InitEstablishesInv == Init => CacheInv
  BY CacheAssumption
  DEF Init, CacheInv, TypeOK, Versions, Places, MutexHeldAcrossRead,
      ReadsShowAcked, LiveEntryShowsAcked, NothingFromTheFuture, MissesOnlyTheRecent,
      AnswersShowWhatIsOwed

LEMMA ChangesHaveBirths ==
  ASSUME TypeOK
  PROVE  \A v \in 1 .. version : v \in Versions /\ v \in Nat /\ born[v] \in Nat
<1>1. version \in Nat /\ version <= MaxVersion /\ MaxVersion \in Nat
  BY VersionsAreNaturals, CacheAssumption DEF TypeOK
<1>2. \A v \in 1 .. version : v \in Versions /\ v \in Nat
  BY <1>1 DEF Versions
<1>3. QED
  BY <1>2 DEF TypeOK

\* A change is made at the time of the clock, which no read in flight began after, and
\* which no entry outlives by more than its lifetime.
LEMMA NewChangeIsRecent ==
  ASSUME TypeOK, MissesOnlyTheRecent, Apply,
         UNCHANGED <<now, cache, until, pc, from, began, calls, due>>
  PROVE  MissesOnlyTheRecent'
<1>1. /\ version \in Nat /\ version + 1 \in Versions /\ version' = version + 1
      /\ now \in Nat /\ until \in Nat
      /\ cache.version \in Nat /\ from \in [Requests -> Nat] /\ began \in [Requests -> Nat]
      /\ CallTimeout \in Nat /\ OkTTL \in Nat /\ ErrTTL \in Nat /\ cache.calls \in Nat
  BY VersionsAreNaturals, CacheAssumption DEF TypeOK, Apply
<1>2. \A v \in 1 .. version' : \/ v = version' /\ born'[v] = now
                               \/ v \in 1 .. version /\ born[v] \in Nat /\ born'[v] = born[v]
  <2>1. \A v \in 1 .. version' : v = version + 1 \/ v \in 1 .. version
    BY <1>1
  <2>2. born' = [born EXCEPT ![version + 1] = now] /\ DOMAIN born = Versions
    BY DEF Apply, TypeOK
  <2>3. \A v \in 1 .. version : v # version + 1
    BY <1>1
  <2>4. QED
    BY <2>1, <2>2, <2>3, <1>1, ChangesHaveBirths
<1>3. ASSUME NEW r \in Requests, pc[r] = "read", NEW v \in 1 .. version', v > from[r]
      PROVE  began[r] <= born'[v]
  BY <1>1, <1>2, <1>3 DEF MissesOnlyTheRecent
<1>4. ASSUME NEW lifetime \in Nat, NEW taken \in Nat, NEW v \in 1 .. version',
             v > cache.version, until <= now + lifetime,
             \A w \in 1 .. version : w > cache.version => until <= born[w] + taken + lifetime
      PROVE  until <= born'[v] + taken + lifetime
  BY <1>1, <1>2, <1>4
<1>5. cache.calls * CallTimeout \in Nat
  BY <1>1
<1>6. QED
  BY <1>1, <1>3, <1>4, <1>5 DEF MissesOnlyTheRecent

(***************************************************************************)
(* The world and the clock.  A change leaves every request where it was;   *)
(* the clock can only make a live entry die.                               *)
(***************************************************************************)
LEMMA WorldPreservesInv ==
  ASSUME CacheInv, WorldChanges \/ Tick
  PROVE  CacheInv'
<1>1. CASE WorldChanges
  <2>1. TypeOK'
    BY <1>1, VersionsAreNaturals
    DEF CacheInv, TypeOK, WorldChanges, Apply, entry, call, read
  <2>2. (MutexHeldAcrossRead /\ ReadsShowAcked /\ LiveEntryShowsAcked
          /\ AnswersShowWhatIsOwed)'
    BY <1>1
    DEF CacheInv, WorldChanges, entry, call, read, MutexHeldAcrossRead,
        ReadsShowAcked, LiveEntryShowsAcked, AnswersShowWhatIsOwed
  <2>3. NothingFromTheFuture'
    BY <1>1, VersionsAreNaturals
    DEF CacheInv, TypeOK, entry, WorldChanges, Apply, call, read, NothingFromTheFuture
  <2>4. MissesOnlyTheRecent'
    BY <1>1, NewChangeIsRecent DEF CacheInv, WorldChanges, entry, read
  <2>5. QED
    BY <2>1, <2>2, <2>3, <2>4 DEF CacheInv
<1>2. CASE Tick
  <2>1. TypeOK'
    BY <1>2 DEF CacheInv, TypeOK, Tick, upstream, entry, call, read
  <2>2. LiveEntryShowsAcked'
    BY <1>2 DEF CacheInv, TypeOK, Tick, entry, LiveEntryShowsAcked
  <2>3. (MutexHeldAcrossRead /\ ReadsShowAcked /\ NothingFromTheFuture
          /\ AnswersShowWhatIsOwed)'
    BY <1>2
    DEF CacheInv, Tick, upstream, entry, call, read, MutexHeldAcrossRead, ReadsShowAcked,
        NothingFromTheFuture, AnswersShowWhatIsOwed
  \* The clock stops at the deadline of a call that is in flight.
  <2>4. MissesOnlyTheRecent'
    <3>1. now' = now + 1 /\ UNCHANGED <<version, born, cache, until, pc, from, began, calls, due>>
      BY <1>2 DEF Tick, upstream, entry, read
    <3>2. now \in Nat /\ until \in Nat /\ OkTTL \in Nat /\ ErrTTL \in Nat
          /\ began \in [Requests -> Nat] /\ due \in [Requests -> Nat]
      BY CacheAssumption DEF CacheInv, TypeOK
    <3>3. ASSUME NEW r \in Requests, pc[r] = "read"
          PROVE  began[r] <= now + 1 /\ now + 1 <= due[r]
      BY <1>2, <3>2, <3>3 DEF CacheInv, Tick, MissesOnlyTheRecent
    <3>4. until <= now + 1 + (IF cache.failed THEN ErrTTL ELSE OkTTL)
      BY <3>2 DEF CacheInv, MissesOnlyTheRecent
    <3>5. QED
      BY <3>1, <3>3, <3>4 DEF CacheInv, MissesOnlyTheRecent
  <2>5. QED
    BY <2>1, <2>2, <2>3, <2>4 DEF CacheInv
<1>3. QED
  BY <1>1, <1>2

(***************************************************************************)
(* list: the call, the answer from the cache, and the two ends of a read.  *)
(***************************************************************************)
LEMMA CallListPreservesInv ==
  ASSUME CacheInv, NEW r \in Requests, NEW isFresh \in BOOLEAN, CallList(r, isFresh)
  PROVE  CacheInv'
<1>1. TypeOK'
  BY DEF CacheInv, TypeOK, CallList, Transition, upstream, entry, read, Versions, Places
<1>2. MutexHeldAcrossRead' /\ ReadsShowAcked' /\ LiveEntryShowsAcked'
  BY CacheAssumption
  DEF CacheInv, TypeOK, CallList, Transition, upstream, entry, read, MutexHeldAcrossRead,
      ReadsShowAcked, LiveEntryShowsAcked
<1>3. NothingFromTheFuture' /\ AnswersShowWhatIsOwed'
  BY VersionsAreNaturals
  DEF CacheInv, TypeOK, entry, CallList, Transition, upstream, read, NothingFromTheFuture,
      AnswersShowWhatIsOwed
<1>4. MissesOnlyTheRecent'
  BY DEF CacheInv, TypeOK, CallList, Transition, upstream, entry, read, MissesOnlyTheRecent
<1>5. QED
  BY <1>1, <1>2, <1>3, <1>4 DEF CacheInv

LEMMA HitPreservesInv ==
  ASSUME CacheInv, NEW r \in Requests, Hit(r)
  PROVE  CacheInv'
<1>1. TypeOK'
  BY DEF CacheInv, TypeOK, Hit, Transition, upstream, entry, call, read, Versions, Places
<1>2. MutexHeldAcrossRead' /\ ReadsShowAcked' /\ LiveEntryShowsAcked' /\ NothingFromTheFuture'
  BY CacheAssumption
  DEF CacheInv, TypeOK, Hit, Transition, upstream, entry, call, read, MutexHeldAcrossRead,
      ReadsShowAcked, LiveEntryShowsAcked, NothingFromTheFuture
<1>3. owed[r] <= cache.version
  BY DEF CacheInv, TypeOK, Hit, Transition, MayHit, LiveEntryShowsAcked,
         NothingFromTheFuture, Versions
<1>4. AnswersShowWhatIsOwed'
  BY <1>3 DEF CacheInv, TypeOK, Hit, Transition, call, AnswersShowWhatIsOwed, Versions
<1>5. MissesOnlyTheRecent'
  BY DEF CacheInv, TypeOK, Hit, Transition, upstream, entry, read, MissesOnlyTheRecent
<1>6. QED
  BY <1>1, <1>2, <1>4, <1>5 DEF CacheInv

LEMMA BeginReadPreservesInv ==
  ASSUME CacheInv, NEW r \in Requests, BeginRead(r)
  PROVE  CacheInv'
<1>1. TypeOK'
  <2>1. now \in Nat /\ now + CallTimeout \in Nat /\ 1 \in Nat
    BY CacheAssumption DEF CacheInv, TypeOK
  <2>2. /\ began' \in [Requests -> Nat] /\ calls' \in [Requests -> Nat]
        /\ due' \in [Requests -> Nat]
    BY <2>1 DEF CacheInv, TypeOK, BeginRead
  <2>3. pc' \in [Requests -> Places] /\ from' \in [Requests -> Versions]
    BY DEF CacheInv, TypeOK, BeginRead, Transition, Places
  <2>4. QED
    BY <2>2, <2>3 DEF CacheInv, TypeOK, BeginRead, upstream, entry, call
<1>2. MutexHeldAcrossRead' /\ LiveEntryShowsAcked'
  BY CacheAssumption
  DEF CacheInv, TypeOK, BeginRead, Transition, MutexHeldAcrossRead, LiveEntryShowsAcked
<1>3. ReadsShowAcked' /\ NothingFromTheFuture' /\ AnswersShowWhatIsOwed'
  BY DEF CacheInv, TypeOK, entry, BeginRead, Transition, upstream, call, ReadsShowAcked,
         NothingFromTheFuture, AnswersShowWhatIsOwed, Versions
<1>4. MissesOnlyTheRecent'
  <2>1. ASSUME NEW q \in Requests, pc'[q] = "read"
        PROVE  \/ q = r /\ from'[q] = version /\ began'[q] = now
                  /\ calls'[q] = 1 /\ due'[q] = now + CallTimeout
               \/ pc[q] = "read" /\ from'[q] = from[q] /\ began'[q] = began[q]
                  /\ calls'[q] = calls[q] /\ due'[q] = due[q]
    BY <2>1 DEF CacheInv, TypeOK, BeginRead, Transition
  <2>2. \A v \in 1 .. version : ~(v > version)
    BY VersionsAreNaturals DEF CacheInv, TypeOK
  <2>3. /\ now <= now + CallTimeout /\ now <= now
        /\ now + CallTimeout <= now + 1 * CallTimeout
    BY CacheAssumption DEF CacheInv, TypeOK
  <2>4. UNCHANGED <<version, born, now, cache, until>>
    BY DEF BeginRead, upstream, entry
  <2>5. QED
    BY <2>1, <2>2, <2>3, <2>4 DEF CacheInv, MissesOnlyTheRecent
<1>5. QED
  BY <1>1, <1>2, <1>3, <1>4 DEF CacheInv

\* Another call gives the read one more timeout, from a moment at which it has not used
\* up those it had.
LEMMA NextCallPreservesInv ==
  ASSUME CacheInv, NEW r \in Requests, NextCall(r)
  PROVE  CacheInv'
<1>1. TypeOK'
  BY CacheAssumption DEF CacheInv, TypeOK, NextCall, upstream, entry, call
<1>2. MutexHeldAcrossRead' /\ ReadsShowAcked' /\ LiveEntryShowsAcked' /\ NothingFromTheFuture'
      /\ AnswersShowWhatIsOwed'
  BY DEF CacheInv, NextCall, upstream, entry, call, MutexHeldAcrossRead, ReadsShowAcked,
         LiveEntryShowsAcked, NothingFromTheFuture, AnswersShowWhatIsOwed
<1>3. MissesOnlyTheRecent'
  <2>1. /\ now \in Nat /\ CallTimeout \in Nat /\ began[r] \in Nat /\ due[r] \in Nat
        /\ calls[r] \in Nat /\ now <= due[r] /\ due[r] <= began[r] + calls[r] * CallTimeout
    BY CacheAssumption DEF CacheInv, TypeOK, NextCall, MissesOnlyTheRecent
  <2>2. (calls[r] + 1) * CallTimeout = calls[r] * CallTimeout + CallTimeout
        /\ calls[r] * CallTimeout \in Nat
    BY <2>1
  <2>3. now <= now + CallTimeout
        /\ now + CallTimeout <= began[r] + (calls[r] + 1) * CallTimeout
    <3> DEFINE spent == calls[r] * CallTimeout
    <3>1. now <= began[r] + spent /\ spent \in Nat
      BY <2>1, <2>2
    <3>2. now + CallTimeout <= began[r] + (spent + CallTimeout)
      <4> HIDE DEF spent
      <4>1. QED
        BY <2>1, <3>1
    <3>3. QED
      BY <2>1, <2>2, <3>2
  <2>4. ASSUME NEW q \in Requests
        PROVE  \/ q = r /\ calls'[q] = calls[r] + 1 /\ due'[q] = now + CallTimeout
               \/ q # r /\ calls'[q] = calls[q] /\ due'[q] = due[q]
    BY DEF CacheInv, TypeOK, NextCall
  <2>5. UNCHANGED <<version, born, now, cache, until, pc, from, began>>
    BY DEF NextCall, upstream, entry
  <2>6. QED
    BY <2>3, <2>4, <2>5 DEF CacheInv, MissesOnlyTheRecent
<1>4. QED
  BY <1>1, <1>2, <1>3 DEF CacheInv

\* What a read has missed was made while it ran.
LEMMA ReadMissesOnlyTheRecent ==
  ASSUME CacheInv, NEW r \in Requests, pc[r] = "read", NEW v \in Nat, from[r] <= v,
         NEW w \in 1 .. version, w > v
  PROVE  /\ calls[r] * CallTimeout \in Nat
         /\ now <= born[w] + calls[r] * CallTimeout
<1>1. w \in Versions /\ born[w] \in Nat /\ from[r] \in Nat /\ began[r] \in Nat /\ now \in Nat
      /\ due[r] \in Nat /\ calls[r] * CallTimeout \in Nat
  BY ChangesHaveBirths, VersionsAreNaturals, CacheAssumption DEF CacheInv, TypeOK
<1>2. began[r] <= born[w] /\ now <= due[r] /\ due[r] <= began[r] + calls[r] * CallTimeout
  BY <1>1 DEF CacheInv, MissesOnlyTheRecent
<1> DEFINE taken == calls[r] * CallTimeout
<1>3. ASSUME taken \in Nat, due[r] <= began[r] + taken
      PROVE  now <= born[w] + taken
  <2> HIDE DEF taken
  <2>1. QED
    BY <1>1, <1>2, <1>3
<1>4. QED
  BY <1>1, <1>2, <1>3

LEMMA EndReadPreservesInv ==
  ASSUME CacheInv, NEW r \in Requests, NEW v \in Versions, NEW failed \in BOOLEAN,
         EndRead(r, v, failed)
  PROVE  CacheInv'
<1>1. TypeOK'
  BY CacheAssumption, VersionsAreNaturals
  DEF CacheInv, TypeOK, EndRead, Lifetime, Transition, upstream, call, Places
<1>2. MutexHeldAcrossRead'
  BY CacheAssumption DEF CacheInv, TypeOK, EndRead, Transition, MutexHeldAcrossRead
<1>3. acked <= v /\ owed[r] <= v
  <2>1. acked <= from[r] /\ owed[r] <= from[r]
    BY DEF CacheInv, EndRead, Transition, ReadsShowAcked
  <2>2. from[r] <= v
    BY VersionsAreNaturals DEF CacheInv, TypeOK, EndRead
  <2>3. from[r] \in Nat /\ v \in Nat /\ acked \in Nat /\ owed[r] \in Nat
    BY VersionsAreNaturals DEF CacheInv, TypeOK
  <2>4. QED
    BY <2>1, <2>2, <2>3
<1>4. LiveEntryShowsAcked' /\ AnswersShowWhatIsOwed'
  BY <1>3
  DEF CacheInv, TypeOK, EndRead, Transition, call, LiveEntryShowsAcked,
      AnswersShowWhatIsOwed, Versions
<1>5. ReadsShowAcked' /\ NothingFromTheFuture'
  BY VersionsAreNaturals
  DEF CacheInv, TypeOK, EndRead, Transition, upstream, call, ReadsShowAcked,
      NothingFromTheFuture
<1>6. MissesOnlyTheRecent'
  <2>1. pc[r] = "read" /\ from[r] <= v /\ v \in Nat
    BY VersionsAreNaturals DEF CacheInv, TypeOK, EndRead, Transition
  <2>2. ASSUME NEW q \in Requests, pc'[q] = "read"
        PROVE  pc[q] = "read" /\ from'[q] = from[q] /\ began'[q] = began[q]
               /\ calls'[q] = calls[q] /\ due'[q] = due[q]
    BY <2>2 DEF CacheInv, TypeOK, EndRead, Transition
  <2>3. /\ cache'.version = v /\ cache'.failed = failed /\ cache'.calls = calls[r]
        /\ until' = now + (IF failed THEN ErrTTL ELSE OkTTL)
        /\ UNCHANGED <<version, born, now>>
    BY DEF EndRead, Lifetime, upstream
  <2> DEFINE taken == calls[r] * CallTimeout
  <2>4. ASSUME NEW w \in 1 .. version, w > v, NEW lifetime \in Nat
        PROVE  now + lifetime <= born[w] + taken + lifetime
    <3>1. now <= born[w] + taken /\ now \in Nat /\ born[w] \in Nat /\ taken \in Nat
      BY <2>1, <2>4, ReadMissesOnlyTheRecent, ChangesHaveBirths DEF CacheInv, TypeOK
    <3>2. QED
      <4> HIDE DEF taken
      <4>1. QED
        BY <3>1
  <2>5. now \in Nat /\ OkTTL \in Nat /\ ErrTTL \in Nat
    BY CacheAssumption DEF CacheInv, TypeOK
  <2>6. QED
    BY <2>2, <2>3, <2>4, <2>5 DEF CacheInv, MissesOnlyTheRecent
<1>7. QED
  BY <1>1, <1>2, <1>4, <1>5, <1>6 DEF CacheInv

(***************************************************************************)
(* The handler that changes the upstream.                                  *)
(***************************************************************************)
LEMMA ChangePreservesInv ==
  ASSUME CacheInv, NEW r \in Requests,
         BeginChange(r) \/ ChangeReturns(r) \/ ChangeFails(r)
  PROVE  CacheInv'
<1>1. TypeOK'
  BY VersionsAreNaturals
  DEF CacheInv, TypeOK, BeginChange, ChangeReturns, ChangeFails, Transition, upstream,
      entry, call, read, Places
<1>2. MutexHeldAcrossRead' /\ ReadsShowAcked' /\ LiveEntryShowsAcked'
  BY CacheAssumption
  DEF CacheInv, TypeOK, BeginChange, ChangeReturns, ChangeFails, Transition, upstream,
      entry, call, read, MutexHeldAcrossRead, ReadsShowAcked, LiveEntryShowsAcked
<1>3. NothingFromTheFuture' /\ AnswersShowWhatIsOwed'
  <2>1. /\ UNCHANGED <<version, cache, fresh, from, shown, acked, owed>>
        /\ \A q \in Requests : pc'[q] \in {"list", "answered"} => pc'[q] = pc[q]
    BY DEF CacheInv, TypeOK, BeginChange, ChangeReturns, ChangeFails, Transition, upstream,
           entry, call, read
  <2>2. \A q \in Requests : made'[q] = made[q] \/ made'[q] = 0
    BY DEF CacheInv, TypeOK, BeginChange, ChangeReturns, ChangeFails
  <2>3. version \in Nat /\ 0 <= version
    BY VersionsAreNaturals DEF CacheInv, TypeOK
  <2>4. QED
    BY <2>1, <2>2, <2>3 DEF CacheInv, NothingFromTheFuture, AnswersShowWhatIsOwed
<1>4. MissesOnlyTheRecent'
  BY DEF CacheInv, TypeOK, BeginChange, ChangeReturns, ChangeFails, Transition, upstream,
         entry, read, MissesOnlyTheRecent
<1>5. QED
  BY <1>1, <1>2, <1>3, <1>4 DEF CacheInv

LEMMA ChangeAppliedPreservesInv ==
  ASSUME CacheInv, NEW r \in Requests, ChangeApplied(r)
  PROVE  CacheInv'
<1>1. TypeOK'
  BY VersionsAreNaturals
  DEF CacheInv, TypeOK, ChangeApplied, Apply, entry, call, read
<1>2. MutexHeldAcrossRead' /\ ReadsShowAcked' /\ LiveEntryShowsAcked' /\ AnswersShowWhatIsOwed'
  BY DEF CacheInv, ChangeApplied, entry, call, read, MutexHeldAcrossRead,
         ReadsShowAcked, LiveEntryShowsAcked, AnswersShowWhatIsOwed
<1>3. NothingFromTheFuture'
  BY VersionsAreNaturals
  DEF CacheInv, TypeOK, entry, ChangeApplied, Apply, call, read, NothingFromTheFuture
<1>4. MissesOnlyTheRecent'
  BY NewChangeIsRecent DEF CacheInv, ChangeApplied, entry, read
<1>5. QED
  BY <1>1, <1>2, <1>3, <1>4 DEF CacheInv

\* Acknowledging a change is safe because nobody is reading, so nothing older can
\* still be stored, and because the entry dies with it.
LEMMA InvalidatePreservesInv ==
  ASSUME CacheInv, NEW r \in Requests, Invalidate(r)
  PROVE  CacheInv'
<1>1. TypeOK'
  BY VersionsAreNaturals, LatestIsAVersion
  DEF CacheInv, TypeOK, Invalidate, Transition, upstream, call, read, Places
<1>2. MutexHeldAcrossRead' /\ ReadsShowAcked'
  BY CacheAssumption
  DEF CacheInv, TypeOK, Invalidate, Transition, MutexHeldAcrossRead, ReadsShowAcked
<1>3. LiveEntryShowsAcked'
  BY DEF CacheInv, TypeOK, Invalidate, LiveEntryShowsAcked
<1>4. NothingFromTheFuture' /\ AnswersShowWhatIsOwed'
  BY VersionsAreNaturals
  DEF CacheInv, TypeOK, Invalidate, Latest, Transition, upstream, call, read,
      NothingFromTheFuture, AnswersShowWhatIsOwed
\* An entry of the zero time has outlived nothing.
<1>5. MissesOnlyTheRecent'
  <2>1. ASSUME NEW q \in Requests, pc'[q] = "read"
        PROVE  pc[q] = "read"
    BY <2>1 DEF CacheInv, TypeOK, Invalidate, Transition
  <2>2. until' = 0 /\ UNCHANGED <<version, born, now, cache, from, began, calls, due>>
    BY DEF Invalidate, upstream, read
  <2>3. 0 <= now + ErrTTL /\ 0 <= now + OkTTL
    BY CacheAssumption DEF CacheInv, TypeOK
  <2>4. \A v \in 1 .. version : /\ 0 <= born[v] + cache.calls * CallTimeout + ErrTTL
                               /\ 0 <= born[v] + cache.calls * CallTimeout + OkTTL
    <3>1. cache.calls * CallTimeout \in Nat
      BY CacheAssumption DEF CacheInv, TypeOK
    <3>2. ASSUME NEW taken \in Nat, NEW v \in 1 .. version
          PROVE  0 <= born[v] + taken + ErrTTL /\ 0 <= born[v] + taken + OkTTL
      BY CacheAssumption, ChangesHaveBirths DEF CacheInv
    <3>3. QED
      BY <3>1, <3>2
  <2>5. QED
    BY <2>1, <2>2, <2>3, <2>4 DEF CacheInv, MissesOnlyTheRecent
<1>6. QED
  BY <1>1, <1>2, <1>3, <1>4, <1>5 DEF CacheInv

LEMMA NextPreservesInv == CacheInv /\ [Next]_vars => CacheInv'
<1> SUFFICES ASSUME CacheInv, [Next]_vars
             PROVE  CacheInv'
  OBVIOUS
<1>1. CASE WorldChanges \/ Tick
  BY <1>1, WorldPreservesInv
<1>2. ASSUME NEW r \in Requests, List(r)
      PROVE  CacheInv'
  BY <1>2, CallListPreservesInv, HitPreservesInv, BeginReadPreservesInv, NextCallPreservesInv,
     EndReadPreservesInv
  DEF List
<1>3. ASSUME NEW r \in Requests, Handle(r)
      PROVE  CacheInv'
  BY <1>3, ChangePreservesInv, ChangeAppliedPreservesInv, InvalidatePreservesInv
  DEF Handle
<1>4. CASE UNCHANGED vars
  BY <1>4
  DEF CacheInv, TypeOK, vars, MutexHeldAcrossRead, ReadsShowAcked, LiveEntryShowsAcked,
      NothingFromTheFuture, MissesOnlyTheRecent, AnswersShowWhatIsOwed
<1>5. QED
  BY <1>1, <1>2, <1>3, <1>4 DEF Next

(***************************************************************************)
(* The cache's state is always well formed, only the owner of the mutex    *)
(* reads the upstream, and a live entry shows every acknowledged change.   *)
(***************************************************************************)
THEOREM InvariantHolds == Spec => []CacheInv
  BY InitEstablishesInv, NextPreservesInv, PTL DEF Spec

(***************************************************************************)
(* Read your writes: no request is answered with a list that is older than *)
(* a change whose handler had invalidated the cache when the request       *)
(* called list, nor a fresh one with a list older than its call.           *)
(***************************************************************************)
THEOREM ReadYourWrites == Spec => []AnswersShowWhatIsOwed
<1>1. CacheInv => AnswersShowWhatIsOwed
  BY DEF CacheInv
<1>2. QED
  BY <1>1, InvariantHolds, PTL

(***************************************************************************)
(* Without anybody's invalidation, too, a change reaches every viewer: an  *)
(* answer shows what is older than the timeouts of all the calls of the    *)
(* read that it comes from, however many, and the lifetime of the entry    *)
(* together.  A read that has just ended is the case in which the          *)
(* lifetimes must not be zero.                                             *)
(***************************************************************************)
THEOREM StalenessIsBounded == Spec => StalenessBounded
<1> DEFINE lifetime == IF cache'.failed THEN ErrTTL ELSE OkTTL
           taken == cache'.calls * CallTimeout
           Bounded == \A r \in Requests : Answers(r) =>
                        \A v \in 1 .. version :
                          born[v] + taken + lifetime <= now => shown'[r] >= v
<1>1. ASSUME CacheInv, [Next]_vars, NEW r \in Requests, Answers(r)
      PROVE  \/ Hit(r)
             \/ \E v \in Versions, failed \in BOOLEAN : EndRead(r, v, failed)
  <2>1. pc[r] \in {"list", "read"} /\ pc'[r] = "answered"
    BY <1>1 DEF Answers
  <2>2. QED
    BY <1>1, <2>1
    DEF CacheInv, TypeOK, Next, vars, WorldChanges, Tick, List, CallList, Hit, BeginRead, NextCall,
        EndRead, Handle, BeginChange, ChangeApplied, ChangeReturns, ChangeFails, Invalidate, Transition
<1>2. ASSUME CacheInv, NEW r \in Requests, Hit(r), NEW v \in 1 .. version,
             born[v] + taken + lifetime <= now
      PROVE  shown'[r] >= v
  <2>1. now < until /\ cache' = cache /\ shown'[r] = cache.version
    BY <1>2 DEF CacheInv, TypeOK, Hit, MayHit, entry
  <2>2. v > cache.version => until <= born[v] + taken + lifetime
    BY <2>1, <1>2 DEF CacheInv, MissesOnlyTheRecent
  <2>3. /\ now \in Nat /\ until \in Nat /\ cache.version \in Nat /\ born[v] \in Nat
        /\ taken \in Nat /\ lifetime \in Nat
    BY <2>1, <1>2, ChangesHaveBirths, VersionsAreNaturals, CacheAssumption DEF CacheInv, TypeOK
  <2>4. QED
    <3> HIDE DEF taken, lifetime
    <3>1. QED
      BY <2>1, <2>2, <2>3, <1>2
<1>3. ASSUME CacheInv, NEW r \in Requests, NEW w \in Versions, NEW failed \in BOOLEAN,
             EndRead(r, w, failed), NEW v \in 1 .. version,
             born[v] + taken + lifetime <= now
      PROVE  shown'[r] >= v
  <2>1. /\ pc[r] = "read" /\ w \in Nat /\ from[r] <= w /\ shown'[r] = w
        /\ cache'.calls = calls[r]
    BY <1>3, VersionsAreNaturals DEF CacheInv, TypeOK, EndRead, Transition
  <2>2. v > w => taken \in Nat /\ now <= born[v] + taken
    BY <1>3, <2>1, ReadMissesOnlyTheRecent
  <2>3. now \in Nat /\ born[v] \in Nat /\ lifetime \in Nat \ {0}
    BY <1>3, ChangesHaveBirths, CacheAssumption DEF CacheInv, TypeOK
  <2>4. QED
    <3> HIDE DEF taken, lifetime
    <3>1. QED
      BY <2>1, <2>2, <2>3, <1>3
<1>4. CacheInv /\ [Next]_vars => [Bounded]_vars
  BY <1>1, <1>2, <1>3
<1>5. QED
  BY <1>4, InvariantHolds, PTL DEF Spec, StalenessBounded

(***************************************************************************)
(* The refinement of ListPromise.  The requests that wait for the mutex or *)
(* read the upstream are the ones that have asked.                         *)
(***************************************************************************)
Asked == {r \in Requests : pc[r] \in {"list", "read"}}

LEMMA InitRefines == Init => Promise!Init
  BY DEF Init, Promise!Init

LEMMA WorldRefines ==
  ASSUME CacheInv, WorldChanges \/ Tick
  PROVE  [Promise!Next]_Promise!vars
  BY DEF WorldChanges, Tick, Apply, upstream, entry, call, read,
         Promise!Next, Promise!Change, Promise!vars

LEMMA CallListRefines ==
  ASSUME CacheInv, NEW r \in Requests, NEW isFresh \in BOOLEAN, CallList(r, isFresh)
  PROVE  Promise!Ask(r)
<1>1. r \notin Asked /\ Asked' = Asked \cup {r}
  BY DEF CacheInv, TypeOK, CallList, Transition, Asked
<1>2. owed' \in {[owed EXCEPT ![r] = v] : v \in {acked, version}}
  BY DEF CallList
<1>3. QED
  BY <1>1, <1>2 DEF CallList, upstream, Asked, Promise!Ask

LEMMA AnswerRefines ==
  ASSUME CacheInv, NEW r \in Requests, NEW v \in Versions, Transition(r, {"list", "read"}, "answered"),
         shown' = [shown EXCEPT ![r] = v], owed[r] <= v, v <= version,
         UNCHANGED <<version, acked, owed>>
  PROVE  Promise!Answer(r)
<1>1. r \in Asked /\ Asked' = Asked \ {r}
  BY DEF CacheInv, TypeOK, Transition, Asked
<1>2. v \in owed[r] .. version
  BY VersionsAreNaturals DEF CacheInv, TypeOK
<1>3. QED
  BY <1>1, <1>2 DEF Asked, Promise!Answer

LEMMA ListRefines ==
  ASSUME CacheInv, CacheInv', NEW r \in Requests, List(r)
  PROVE  [Promise!Next]_Promise!vars
<1>1. ASSUME NEW isFresh \in BOOLEAN, CallList(r, isFresh)
      PROVE  Promise!Next
  BY <1>1, CallListRefines DEF Promise!Next
<1>2. CASE Hit(r)
  <2>1. owed[r] <= cache.version /\ cache.version <= version
    BY <1>2, VersionsAreNaturals
    DEF CacheInv, TypeOK, Hit, Transition, MayHit, LiveEntryShowsAcked, NothingFromTheFuture
  <2>2. Promise!Answer(r)
    BY <1>2, <2>1, AnswerRefines
    DEF CacheInv, TypeOK, Hit, Transition, upstream, call
  <2>3. QED
    BY <2>2 DEF Promise!Next
<1>3. CASE BeginRead(r) \/ NextCall(r)
  <2>1. Asked' = Asked
    BY <1>3 DEF CacheInv, TypeOK, BeginRead, NextCall, Transition, Asked
  <2>2. UNCHANGED Promise!vars
    BY <1>3, <2>1 DEF BeginRead, NextCall, upstream, call, Asked, Promise!vars
  <2>3. QED
    BY <2>2
<1>4. ASSUME NEW v \in Versions, NEW failed \in BOOLEAN, EndRead(r, v, failed)
      PROVE  Promise!Next
  <2>1. owed[r] <= from[r] /\ from[r] <= v /\ v <= version
    BY <1>4, VersionsAreNaturals DEF CacheInv, TypeOK, EndRead, Transition, ReadsShowAcked
  <2>2. owed[r] <= v
    BY <2>1, VersionsAreNaturals DEF CacheInv, TypeOK
  <2>3. Promise!Answer(r)
    BY <1>4, <2>1, <2>2, AnswerRefines DEF EndRead, Transition, upstream, call
  <2>4. QED
    BY <2>3 DEF Promise!Next
<1>5. QED
  BY <1>1, <1>2, <1>3, <1>4 DEF List

LEMMA HandleRefines ==
  ASSUME CacheInv, NEW r \in Requests, Handle(r)
  PROVE  [Promise!Next]_Promise!vars
<1>1. CASE BeginChange(r) \/ ChangeReturns(r) \/ ChangeFails(r)
  <2>1. Asked' = Asked
    BY <1>1 DEF CacheInv, TypeOK, BeginChange, ChangeReturns, ChangeFails, Transition, Asked
  <2>2. UNCHANGED Promise!vars
    BY <1>1, <2>1
    DEF BeginChange, ChangeReturns, ChangeFails, upstream, call, Asked, Promise!vars
  <2>3. QED
    BY <2>2
<1>2. CASE ChangeApplied(r)
  BY <1>2 DEF ChangeApplied, Apply, call, Promise!Next, Promise!Change
<1>3. CASE Invalidate(r)
  <2>1. Asked' = Asked
    BY <1>3 DEF CacheInv, TypeOK, Invalidate, Transition, Asked
  <2>2. acked' \in acked .. version
    BY <1>3, VersionsAreNaturals DEF CacheInv, TypeOK, Invalidate, Latest, NothingFromTheFuture
  <2>3. Promise!Acknowledge
    BY <1>3, <2>1, <2>2 DEF Invalidate, upstream, call, Asked, Promise!Acknowledge
  <2>4. QED
    BY <2>3 DEF Promise!Next
<1>4. QED
  BY <1>1, <1>2, <1>3 DEF Handle

LEMMA NextRefines ==
  ASSUME CacheInv, CacheInv', [Next]_vars
  PROVE  [Promise!Next]_Promise!vars
<1>1. CASE UNCHANGED vars
  BY <1>1 DEF vars, Promise!vars
<1>2. QED
  BY <1>1, WorldRefines, ListRefines, HandleRefines DEF Next

(***************************************************************************)
(* The cache is invisible to the handlers, but for the changes that no     *)
(* handler has acknowledged: every behaviour of ListCache is one of        *)
(* ListPromise, whatever the timing of the readers and the writers.        *)
(***************************************************************************)
THEOREM CacheKeepsPromise == Spec => KeepsPromise
  BY InitRefines, NextRefines, InvariantHolds, PTL DEF Spec, KeepsPromise, Promise!Spec
=============================================================================
