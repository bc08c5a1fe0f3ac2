------------------------ MODULE SandboxActionsProofs ------------------------
(***************************************************************************)
(* For any number of requests, of custom resources and of accepted calls:  *)
(* success is told to those whose calls have been accepted and to nobody   *)
(* else, what a deletion tells is true, and cached stats are as new as is  *)
(* owed.                                                                   *)
(***************************************************************************)
EXTENDS SandboxActions, TLAPS

\* The marks of the history: none is made before its call is accepted.
Marks ==
  /\ \A r \in Handlers : changed[r] <= epoch
  /\ settled <= epoch

\* What a request has got from its calls so far, and what it remembers of it.
ToldOf(r) ==
  /\ step[r] \in {"forget", "done"} \/ r \in some => changed[r] > 0
  /\ step[r] \in {"list", "refused", "lifecycle"} => changed[r] = 0
  /\ r \in Deletions /\ step[r] \in {"resources", "failed"} /\ changed[r] > 0 =>
       r \in some \/ r \in errors
  /\ step[r] = "failed" => r \notin some

Told == \A r \in Handlers : ToldOf(r)

\* What a command will store, if it has missed what is owed, is marked as late.
Owed ==
  /\ StatsShowWhatIsOwed
  /\ \A v \in Viewers : step[v] = "command" /\ usage[v].of < settled => usage[v].late

RecordLeaves(d) == listed[d].life # "gone" => life \in Leaving
ObjectsLeave(d) == listed[d].objects \cap Standing = {}

\* What a deletion knows on its way.  It rests on this: what has been told to go, goes.
Knows(d) ==
  /\ step[d] \in {"list", "refused", "lifecycle"} => d \notin some /\ d \notin errors
  /\ step[d] = "lifecycle" => listed[d].life # "gone" /\ todo[d] = listed[d].objects
  /\ d \in some => \E r \in listed[d].objects : r \notin Standing
  /\ step[d] \in {"resources", "forget", "done", "failed"} /\ d \notin errors => RecordLeaves(d)
  /\ step[d] = "resources" /\ d \notin errors =>
       \A r \in listed[d].objects : r \in todo[d] \/ r \notin Standing
  /\ step[d] = "resources" => todo[d] \subseteq listed[d].objects
  /\ step[d] \in {"forget", "done"} =>
       d \in some \/ (listed[d].life # "gone" /\ RecordLeaves(d))
  /\ step[d] \in {"forget", "done"} /\ d \notin errors /\ d \in some => ObjectsLeave(d)
  /\ step[d] = "failed" /\ d \notin errors => ObjectsLeave(d)

Knowledge == \A d \in Deletions : Knows(d)

IInv == TypeOK /\ Marks /\ Told /\ Owed /\ Knowledge

-----------------------------------------------------------------------------
(* The marks and the epoch.                                                *)

LEMMA OneUp ==
  ASSUME MaxEpoch \in Nat, NEW n \in 0 .. MaxEpoch, n < MaxEpoch
  PROVE  n + 1 \in 0 .. MaxEpoch /\ n + 1 > 0
  OBVIOUS

LEMMA BelowIsNotAbove ==
  ASSUME NEW m \in Nat, NEW n \in Nat, m <= n
  PROVE  m <= n + 1 /\ m # n + 1
  OBVIOUS

LEMMA InRange ==
  ASSUME MaxEpoch \in Nat, NEW n \in 0 .. MaxEpoch
  PROVE  n \in Nat
  OBVIOUS

\* What a step can do to the epoch and to the marks.
Still      == UNCHANGED <<epoch, changed, settled>>
Moves      == epoch < MaxEpoch /\ epoch' = epoch + 1 /\ UNCHANGED settled
Marked(r)  == Moves /\ changed' = [changed EXCEPT ![r] = epoch + 1]
Settles(r) == UNCHANGED <<epoch, changed>> /\ settled' \in {settled, changed[r]}

LEMMA StepKinds ==
  ASSUME [Next]_vars
  PROVE  \/ Still
         \/ \E r \in Handlers : Marked(r) \/ Settles(r)
<1>1. ASSUME NEW r \in Handlers, List(r) \/ Forget(r)
      PROVE  Still \/ Settles(r)
  BY <1>1 DEF List, Forget, Still, Settles, world, stats, deletion
<1>2. ASSUME NEW c \in Changes, Change(c)
      PROVE  Still \/ Marked(c)
  BY <1>2 DEF Change, ChangeAccepted, ChangeFails, Accept, Still, Moves, Marked, world, stats
<1>3. ASSUME NEW d \in Deletions, Delete(d)
      PROVE  Still \/ Marked(d)
  BY <1>3 DEF Delete, DeleteRecord, RecordNotFound, DeleteRecordFails, DeleteResource,
     ResourceNotFound, DeleteResourceFails, ResourcesTried, Accept, Still, Moves, Marked, world,
     stats
<1>4. ASSUME NEW v \in Viewers, View(v)
      PROVE  Still
  BY <1>4 DEF View, Miss, Measure, Store, Still, world
<1>5. CASE Expire \/ UNCHANGED vars
  BY <1>5 DEF Expire, Still, world, vars
<1>6. CASE CarryOut \/ WorldMoves
  BY <1>6 DEF CarryOut, WorldMoves, Still, stats
<1>7. QED
  BY <1>1, <1>2, <1>3, <1>4, <1>5, <1>6 DEF Next, Handlers

CountsInRange ==
  /\ epoch \in 0 .. MaxEpoch
  /\ changed \in [Handlers -> 0 .. MaxEpoch]
  /\ settled \in 0 .. MaxEpoch

LEMMA MarksArePreserved ==
  CountsInRange /\ Marks /\ [Next]_vars => CountsInRange' /\ Marks'
<1> SUFFICES ASSUME CountsInRange, Marks, [Next]_vars
             PROVE  CountsInRange' /\ Marks'
  OBVIOUS
<1> USE ActionsAssumption DEF ActionsAssumption
<1>1. epoch \in Nat /\ settled \in Nat /\ \A r \in Handlers : changed[r] \in Nat
  BY InRange DEF CountsInRange
<1>2. CASE Still
  BY <1>2 DEF Still, CountsInRange, Marks
<1>3. ASSUME Moves
      PROVE  /\ epoch' \in 0 .. MaxEpoch /\ epoch' > 0
             /\ settled' \in 0 .. MaxEpoch /\ settled' <= epoch'
             /\ \A r \in Handlers : changed[r] <= epoch' /\ changed[r] # epoch'
             /\ epoch' <= epoch'
  BY <1>1, <1>3, OneUp, BelowIsNotAbove DEF Moves, CountsInRange, Marks
<1>4. ASSUME NEW r \in Handlers, Marked(r)
      PROVE  CountsInRange' /\ Marks'
  <2>1. Moves /\ changed' = [changed EXCEPT ![r] = epoch']
    BY <1>4 DEF Marked, Moves
  <2>2. CountsInRange'
    BY <1>3, <2>1 DEF CountsInRange
  <2>3. changed'[r] = epoch' /\ \A q \in Handlers \ {r} : changed'[q] = changed[q]
    BY <2>1 DEF CountsInRange
  <2>4. \A q \in Handlers : changed'[q] <= epoch'
    BY <1>3, <2>1, <2>3
  <2>5. QED
    BY <1>3, <2>1, <2>2, <2>4 DEF Marks
<1>5. ASSUME NEW r \in Handlers, Settles(r)
      PROVE  CountsInRange' /\ Marks'
  BY <1>5 DEF Settles, CountsInRange, Marks
<1>6. QED
  BY <1>2, <1>4, <1>5, StepKinds

-----------------------------------------------------------------------------
(* Types.                                                                  *)

Listing == [life : Lives, objects : SUBSET Resources]
Measured == [of : 0 .. MaxEpoch, late : BOOLEAN]

LEMMA ListPreservesType ==
  ASSUME TypeOK, CountsInRange', NEW r \in Handlers, List(r)
  PROVE  TypeOK'
<1>1. PICK l \in {life, "gone"}, os \in SUBSET objects :
        /\ step' = [step EXCEPT ![r] = FirstCall(r, [life |-> l, objects |-> os])]
        /\ listed' = [d \in Deletions |->
                        IF d = r THEN [life |-> l, objects |-> os] ELSE listed[d]]
        /\ todo' = [d \in Deletions |-> IF d = r THEN os ELSE todo[d]]
        /\ UNCHANGED <<world, some, errors, changed, stats>>
  BY DEF List, Step
<1>2. [life |-> l, objects |-> os] \in Listing
  BY DEF TypeOK, Lives, Listing
<1>3. listed' \in [Deletions -> Listing] /\ todo' \in [Deletions -> SUBSET Resources]
  BY <1>1, <1>2 DEF TypeOK, Listing
<1>4. FirstCall(r, [life |-> l, objects |-> os]) \in Steps
  BY DEF FirstCall, Handlers, Steps
<1>5. step' \in [Handlers \cup Viewers -> Steps]
  BY <1>1, <1>4 DEF TypeOK
<1>6. QED
  BY <1>1, <1>3, <1>5 DEF TypeOK, CountsInRange, Listing, world, stats

LEMMA ChangePreservesType ==
  ASSUME TypeOK, CountsInRange', NEW c \in Changes, Change(c)
  PROVE  TypeOK'
<1>1. /\ life' \in Lives
      /\ step' \in [Handlers \cup Viewers -> Steps]
      /\ UNCHANGED <<objects, doomed, listed, deletion, entry, usage>>
  BY DEF Change, ChangeAccepted, ChangeFails, Accept, Meanwhile, Step, TypeOK, Steps, Lives,
     Handlers, world, stats
<1>2. QED
  BY <1>1 DEF TypeOK, CountsInRange, deletion

LEMMA DeletePreservesType ==
  ASSUME TypeOK, CountsInRange', NEW d \in Deletions, Delete(d)
  PROVE  TypeOK'
<1>1. UNCHANGED <<listed, entry, usage>>
  BY DEF Delete, DeleteRecord, RecordNotFound, DeleteRecordFails, DeleteResource,
     ResourceNotFound, DeleteResourceFails, ResourcesTried, stats
<1>2. life' \in Lives /\ objects' \subseteq Resources /\ doomed' \subseteq objects'
  BY DEF Delete, DeleteRecord, RecordNotFound, DeleteRecordFails, DeleteResource,
     ResourceNotFound, DeleteResourceFails, ResourcesTried, Accept, TypeOK, Lives, world
<1>3. step' \in [Handlers \cup Viewers -> Steps]
  BY DEF Delete, DeleteRecord, RecordNotFound, DeleteRecordFails, DeleteResource,
     ResourceNotFound, DeleteResourceFails, ResourcesTried, Outcome, Step, TypeOK, Steps,
     Handlers
<1>4. todo' \in [Deletions -> SUBSET Resources]
  BY DEF Delete, DeleteRecord, RecordNotFound, DeleteRecordFails, DeleteResource,
     ResourceNotFound, DeleteResourceFails, ResourcesTried, TypeOK, deletion
<1>5. some' \subseteq Deletions /\ errors' \subseteq Deletions
  BY DEF Delete, DeleteRecord, RecordNotFound, DeleteRecordFails, DeleteResource,
     ResourceNotFound, DeleteResourceFails, ResourcesTried, TypeOK, deletion
<1>6. QED
  BY <1>1, <1>2, <1>3, <1>4, <1>5 DEF TypeOK, CountsInRange

LEMMA ForgetPreservesType ==
  ASSUME TypeOK, CountsInRange', NEW r \in Handlers, Forget(r)
  PROVE  TypeOK'
<1>1. \A v \in Viewers : usage[v] \in Measured /\ [usage[v] EXCEPT !.late = TRUE] \in Measured
  BY DEF TypeOK, Measured
<1>2. usage' \in [Viewers -> Measured] /\ entry' = None
  BY <1>1 DEF Forget, Drop
<1>3. step' \in [Handlers \cup Viewers -> Steps]
  BY DEF Forget, Step, TypeOK, Steps
<1>4. QED
  BY <1>2, <1>3 DEF TypeOK, CountsInRange, Measured, Forget, world, deletion

LEMMA ViewPreservesType ==
  ASSUME TypeOK, CountsInRange, CountsInRange', NEW v \in Viewers, View(v)
  PROVE  TypeOK'
<1>1. usage[v] \in Measured /\ [usage[v] EXCEPT !.of = epoch] \in Measured
  BY DEF TypeOK, Measured, CountsInRange
<1>2. Idle \in Measured
  BY ActionsAssumption DEF ActionsAssumption, Idle, Measured
<1>3. usage' \in [Viewers -> Measured]
  BY <1>1, <1>2 DEF View, Miss, Measure, Store, TypeOK, Measured
<1>4. entry' \in Measured \cup {None}
  BY <1>1 DEF View, Miss, Measure, Store, TypeOK, Measured
<1>5. step' \in [Handlers \cup Viewers -> Steps]
  BY DEF View, Miss, Measure, Store, Step, TypeOK, Steps
<1>6. UNCHANGED <<life, objects, doomed, listed, todo, some, errors>>
  BY DEF View, Miss, Measure, Store, world, deletion
<1>7. QED
  BY <1>3, <1>4, <1>5, <1>6 DEF TypeOK, CountsInRange, Measured

LEMMA NextPreservesType ==
  ASSUME TypeOK, Marks, [Next]_vars
  PROVE  TypeOK' /\ Marks'
<1>1. CountsInRange
  BY DEF TypeOK, CountsInRange
<1>2. CountsInRange' /\ Marks'
  BY <1>1, MarksArePreserved
<1>3. CASE Expire
  BY <1>2, <1>3 DEF Expire, TypeOK, CountsInRange, world, deletion
<1>4. CASE CarryOut \/ WorldMoves
  <2>1. life' \in Lives /\ objects' \subseteq Resources /\ doomed' \subseteq objects'
    BY <1>4 DEF CarryOut, WorldMoves, TypeOK, Lives, Standing
  <2>2. QED
    BY <1>2, <1>4, <2>1 DEF CarryOut, WorldMoves, TypeOK, CountsInRange, deletion, stats
<1>5. CASE UNCHANGED vars
  BY <1>2, <1>5 DEF vars, TypeOK, CountsInRange
<1>6. QED
  BY <1>1, <1>2, <1>3, <1>4, <1>5, ListPreservesType, ForgetPreservesType, ChangePreservesType,
     DeletePreservesType, ViewPreservesType DEF Next

-----------------------------------------------------------------------------
(* Who is told of success.                                                 *)

\* The steps of others.
Unmoved(r) ==
  /\ step'[r] = step[r] /\ changed'[r] = changed[r]
  /\ r \in some' <=> r \in some
  /\ r \in errors' <=> r \in errors

LEMMA UnmovedIsTold ==
  ASSUME NEW r \in Handlers, ToldOf(r), Unmoved(r)
  PROVE  ToldOf(r)'
  BY DEF ToldOf, Unmoved

LEMMA NewMark ==
  ASSUME TypeOK, NEW r \in Handlers, epoch < MaxEpoch,
         changed' = [changed EXCEPT ![r] = epoch + 1]
  PROVE  changed'[r] > 0
<1>1. epoch + 1 > 0
  BY ActionsAssumption, OneUp DEF ActionsAssumption, TypeOK
<1>2. QED
  BY <1>1 DEF TypeOK

LEMMA ListerIsTold ==
  ASSUME TypeOK, NEW r \in Handlers, ToldOf(r), List(r) \/ Forget(r)
  PROVE  ToldOf(r)'
<1>1. UNCHANGED <<some, errors, changed>>
  BY DEF List, Forget, deletion
<1>2. CASE List(r)
  <2>1. step[r] = "list" /\ step'[r] \in {"call", "lifecycle", "resources", "refused"}
    BY <1>2 DEF List, FirstCall, Step, TypeOK
  <2>2. changed[r] = 0 /\ ~(0 > 0)
    BY <2>1 DEF ToldOf
  <2>3. QED
    BY <1>1, <2>1, <2>2 DEF ToldOf
<1>3. CASE Forget(r)
  <2>1. step[r] = "forget" /\ step'[r] = "done"
    BY <1>3 DEF Forget, Step, TypeOK
  <2>2. QED
    BY <1>1, <2>1 DEF ToldOf
<1>4. QED
  BY <1>2, <1>3

LEMMA ChangerIsTold ==
  ASSUME TypeOK, NEW c \in Changes, ToldOf(c), Change(c)
  PROVE  ToldOf(c)'
<1>1. c \in Handlers /\ c \notin Deletions /\ c \notin some /\ UNCHANGED some
  BY ActionsAssumption DEF ActionsAssumption, TypeOK, Changes, Handlers, Change,
     ChangeAccepted, ChangeFails, deletion
<1>2. CASE \E answered \in BOOLEAN : ChangeAccepted(c, answered)
  <2>1. changed'[c] > 0
    BY <1>1, <1>2, NewMark DEF ChangeAccepted, Accept
  <2>2. step'[c] \in {"forget", "failed"}
    BY <1>1, <1>2 DEF ChangeAccepted, Step, TypeOK
  <2>3. QED
    BY <1>1, <2>1, <2>2 DEF ToldOf
<1>3. CASE ChangeFails(c)
  <2>1. step'[c] = "failed"
    BY <1>1, <1>3 DEF ChangeFails, Step, TypeOK
  <2>2. QED
    BY <1>1, <2>1 DEF ToldOf
<1>4. QED
  BY <1>2, <1>3 DEF Change

LEMMA DeleterIsTold ==
  ASSUME TypeOK, NEW d \in Deletions, ToldOf(d), Delete(d)
  PROVE  ToldOf(d)'
<1>1. d \in Handlers
  BY DEF Handlers
<1>2. CASE \E answered \in BOOLEAN : DeleteRecord(d, answered)
  <2>1. PICK answered \in BOOLEAN : DeleteRecord(d, answered)
    BY <1>2
  <2>2. changed'[d] > 0 /\ d \notin some
    <3>1. step[d] = "lifecycle" /\ epoch < MaxEpoch /\ changed' = [changed EXCEPT ![d] = epoch + 1]
      BY <2>1 DEF DeleteRecord, Accept, Step
    <3>2. changed'[d] > 0
      BY <1>1, <3>1, NewMark
    <3>3. changed[d] = 0 /\ ~(0 > 0)
      BY <3>1 DEF ToldOf
    <3>4. QED
      BY <3>2, <3>3 DEF ToldOf
  <2>3. /\ step'[d] = IF answered THEN "forget" ELSE "resources"
        /\ ~answered => d \in errors'
        /\ UNCHANGED some
    BY <1>1, <2>1 DEF DeleteRecord, Step, TypeOK
  <2>4. QED
    BY <1>1, <2>2, <2>3 DEF ToldOf
<1>3. CASE RecordNotFound(d) \/ DeleteRecordFails(d)
  <2>1. /\ step[d] = "lifecycle" /\ step'[d] = "resources"
        /\ UNCHANGED <<some, changed>>
    BY <1>1, <1>3 DEF RecordNotFound, DeleteRecordFails, Step, TypeOK, deletion
  <2>2. changed[d] = 0 /\ ~(0 > 0)
    BY <2>1 DEF ToldOf
  <2>3. QED
    BY <1>1, <2>1, <2>2 DEF ToldOf
<1>4. CASE \E o \in Resources, answered \in BOOLEAN : DeleteResource(d, o, answered)
  <2>1. PICK o \in Resources, answered \in BOOLEAN : DeleteResource(d, o, answered)
    BY <1>4
  <2>2. changed'[d] > 0
    BY <1>1, <2>1, NewMark DEF DeleteResource, Accept
  <2>3. /\ step'[d] = "resources"
        /\ IF answered THEN d \in some' ELSE d \in errors'
    BY <2>1 DEF DeleteResource
  <2>4. QED
    BY <2>2, <2>3 DEF ToldOf
<1>5. CASE \E o \in Resources : ResourceNotFound(d, o) \/ DeleteResourceFails(d, o)
  <2>1. /\ step[d] = "resources" /\ UNCHANGED <<step, some, changed>>
        /\ errors \subseteq errors'
    BY <1>5 DEF ResourceNotFound, DeleteResourceFails
  <2>2. QED
    BY <2>1 DEF ToldOf
<1>6. CASE ResourcesTried(d)
  <2>1. /\ step[d] = "resources" /\ UNCHANGED <<some, errors, changed>>
        /\ step'[d] = IF d \in some THEN "forget" ELSE "failed"
    BY <1>1, <1>6 DEF ResourcesTried, Outcome, Step, TypeOK, deletion
  <2>2. QED
    BY <2>1 DEF ToldOf
<1>7. QED
  BY <1>2, <1>3, <1>4, <1>5, <1>6 DEF Delete

LEMMA NextPreservesTold ==
  ASSUME TypeOK, Told, [Next]_vars
  PROVE  Told'
<1> SUFFICES ASSUME NEW r \in Handlers
             PROVE  ToldOf(r)'
  BY DEF Told
<1>1. ToldOf(r)
  BY DEF Told
<1>2. ASSUME NEW q \in Handlers, List(q) \/ Forget(q)
      PROVE  ToldOf(r)'
  <2>1. q # r => Unmoved(r)
    BY <1>2 DEF List, Forget, Step, TypeOK, Unmoved, deletion
  <2>2. QED
    BY <1>1, <1>2, <2>1, UnmovedIsTold, ListerIsTold
<1>3. ASSUME NEW c \in Changes, Change(c)
      PROVE  ToldOf(r)'
  <2>1. c # r => Unmoved(r)
    BY <1>3 DEF Change, ChangeAccepted, ChangeFails, Accept, Step, TypeOK, Unmoved, deletion,
       Handlers
  <2>2. QED
    BY <1>1, <1>3, <2>1, UnmovedIsTold, ChangerIsTold
<1>4. ASSUME NEW d \in Deletions, Delete(d)
      PROVE  ToldOf(r)'
  <2>1. ASSUME d # r
        PROVE  Unmoved(r)
    <3>1. step'[r] = step[r] /\ changed'[r] = changed[r]
      BY <1>4, <2>1 DEF Delete, DeleteRecord, RecordNotFound, DeleteRecordFails, DeleteResource,
         ResourceNotFound, DeleteResourceFails, ResourcesTried, Accept, Step, TypeOK, Handlers
    <3>2. (r \in some' <=> r \in some) /\ (r \in errors' <=> r \in errors)
      BY <1>4, <2>1 DEF Delete, DeleteRecord, RecordNotFound, DeleteRecordFails, DeleteResource,
         ResourceNotFound, DeleteResourceFails, ResourcesTried, deletion
    <3>3. QED
      BY <3>1, <3>2 DEF Unmoved
  <2>2. QED
    BY <1>1, <1>4, <2>1, UnmovedIsTold, DeleterIsTold
<1>5. ASSUME NEW v \in Viewers, View(v)
      PROVE  ToldOf(r)'
  <2>1. v # r
    BY ActionsAssumption DEF ActionsAssumption, Handlers, Changes
  <2>2. Unmoved(r)
    BY <1>5, <2>1 DEF View, Miss, Measure, Store, Step, TypeOK, Unmoved, deletion
  <2>3. QED
    BY <1>1, <2>2, UnmovedIsTold
<1>6. CASE Expire \/ CarryOut \/ WorldMoves \/ UNCHANGED vars
  <2>1. Unmoved(r)
    BY <1>6 DEF Expire, CarryOut, WorldMoves, vars, Unmoved, deletion
  <2>2. QED
    BY <1>1, <2>1, UnmovedIsTold
<1>7. QED
  BY <1>2, <1>3, <1>4, <1>5, <1>6 DEF Next

-----------------------------------------------------------------------------
(* The stats cache.                                                        *)

LEMMA SettlingKeepsOwed ==
  ASSUME TypeOK, Owed, NEW r \in Handlers, Forget(r)
  PROVE  Owed'
<1>1. entry' = None
  BY DEF Forget, Drop
<1>2. ASSUME NEW v \in Viewers, step'[v] = "command"
      PROVE  usage'[v].late
  <2>1. step[v] = "command"
    BY <1>2 DEF Forget, Step, TypeOK
  <2>2. usage'[v] = [usage[v] EXCEPT !.late = TRUE] /\ usage[v] \in Measured
    BY <2>1 DEF Forget, Drop, TypeOK, Measured
  <2>3. QED
    BY <2>2 DEF Measured
<1>3. QED
  BY <1>1, <1>2 DEF Owed, StatsShowWhatIsOwed

LEMMA ViewKeepsOwed ==
  ASSUME TypeOK, Marks, Owed, NEW v \in Viewers, View(v)
  PROVE  Owed'
<1>1. UNCHANGED settled
  BY DEF View, Miss, Measure, Store
<1>2. ~(epoch < settled)
  <2>1. settled <= epoch /\ settled \in Nat /\ epoch \in Nat
    BY ActionsAssumption, InRange DEF ActionsAssumption, TypeOK, Marks
  <2>2. QED
    BY <2>1
<1>3. CASE Miss(v) \/ Measure(v)
  <2>1. usage' = [usage EXCEPT ![v].of = epoch] /\ UNCHANGED entry
    BY <1>3 DEF Miss, Measure
  <2>2. usage'[v].of = epoch
    BY <2>1 DEF TypeOK
  <2>3. \A w \in Viewers \ {v} : usage'[w] = usage[w] /\ step'[w] = step[w]
    BY <1>3, <2>1 DEF TypeOK, Miss, Measure, Step
  <2>4. QED
    BY <1>1, <1>2, <2>1, <2>2, <2>3 DEF Owed, StatsShowWhatIsOwed
<1>4. CASE Store(v)
  <2>1. step[v] = "command" /\ step'[v] = "list" /\ entry' = usage[v]
    BY <1>4 DEF Store, Step, TypeOK
  <2>2. \A w \in Viewers \ {v} : usage'[w] = usage[w] /\ step'[w] = step[w]
    BY <1>4 DEF TypeOK, Store, Step
  <2>3. QED
    BY <1>1, <2>1, <2>2 DEF Owed, StatsShowWhatIsOwed
<1>5. QED
  BY <1>3, <1>4 DEF View

LEMMA OtherStepsKeepOwed ==
  ASSUME Owed, UNCHANGED <<settled, usage>>, entry' \in {entry, None},
         \A v \in Viewers : step'[v] = "command" => step[v] = "command"
  PROVE  Owed'
  BY DEF Owed, StatsShowWhatIsOwed

LEMMA NextPreservesOwed ==
  ASSUME TypeOK, Marks, Owed, [Next]_vars
  PROVE  Owed'
<1>1. ASSUME NEW r \in Handlers, List(r)
      PROVE  Owed'
  BY <1>1, OtherStepsKeepOwed DEF List, FirstCall, Step, TypeOK, stats
<1>2. ASSUME NEW c \in Changes, Change(c)
      PROVE  Owed'
  BY <1>2, OtherStepsKeepOwed DEF Change, ChangeAccepted, ChangeFails, Step, TypeOK, stats
<1>3. ASSUME NEW d \in Deletions, Delete(d)
      PROVE  Owed'
  <2>1. UNCHANGED stats
    BY <1>3 DEF Delete, DeleteRecord, RecordNotFound, DeleteRecordFails, DeleteResource,
       ResourceNotFound, DeleteResourceFails, ResourcesTried
  <2>2. \A v \in Viewers : step'[v] = "command" => step[v] = "command"
    BY <1>3 DEF Delete, DeleteRecord, RecordNotFound, DeleteRecordFails, DeleteResource,
       ResourceNotFound, DeleteResourceFails, ResourcesTried, Outcome, Step, TypeOK
  <2>3. QED
    BY <2>1, <2>2, OtherStepsKeepOwed DEF stats
<1>4. CASE Expire \/ CarryOut \/ WorldMoves \/ UNCHANGED vars
  BY <1>4, OtherStepsKeepOwed DEF Expire, CarryOut, WorldMoves, vars, stats
<1>5. QED
  BY <1>1, <1>2, <1>3, <1>4, SettlingKeepsOwed, ViewKeepsOwed DEF Next

-----------------------------------------------------------------------------
(* What a deletion knows.                                                  *)

Same(d) ==
  /\ step'[d] = step[d] /\ listed'[d] = listed[d] /\ todo'[d] = todo[d]
  /\ d \in some' <=> d \in some
  /\ d \in errors' <=> d \in errors

GoneStays == (life \in Leaving => life' \in Leaving) /\ Standing' \subseteq Standing

LEMMA WhatIsGoneStaysGone ==
  ASSUME [Next]_vars
  PROVE  GoneStays
<1>1. ASSUME NEW r \in Handlers, List(r) \/ Forget(r)
      PROVE  GoneStays
  BY <1>1 DEF List, Forget, world, GoneStays, Leaving, Standing
<1>2. ASSUME NEW c \in Changes, Change(c)
      PROVE  GoneStays
  BY <1>2 DEF Change, ChangeAccepted, ChangeFails, Requires, Meanwhile, Expected, Accept, world, GoneStays,
     Leaving, Standing
<1>3. ASSUME NEW d \in Deletions, Delete(d)
      PROVE  GoneStays
  BY <1>3 DEF Delete, DeleteRecord, RecordNotFound, DeleteRecordFails, DeleteResource,
     ResourceNotFound, DeleteResourceFails, ResourcesTried, Accept, world, GoneStays, Leaving, Standing
<1>4. ASSUME NEW v \in Viewers, View(v)
      PROVE  GoneStays
  BY <1>4 DEF View, Miss, Measure, Store, world, GoneStays, Leaving, Standing
<1>5. CASE Expire \/ CarryOut \/ WorldMoves \/ UNCHANGED vars
  BY <1>5 DEF Expire, CarryOut, WorldMoves, Accept, vars, world, GoneStays, Leaving, Standing
<1>6. QED
  BY <1>1, <1>2, <1>3, <1>4, <1>5 DEF Next

\* The steps of others take nothing from what a deletion knows.
LEMMA BystanderKnows ==
  ASSUME NEW d \in Deletions, Knows(d), GoneStays, Same(d)
  PROVE  Knows(d)'
  BY DEF Knows, GoneStays, Same, RecordLeaves, ObjectsLeave, Leaving, Standing

LEMMA ListKnows ==
  ASSUME TypeOK, NEW d \in Deletions, Knows(d), List(d)
  PROVE  Knows(d)'
<1>1. PICK l \in {life, "gone"}, os \in SUBSET objects :
        /\ step[d] = "list"
        /\ step' = [step EXCEPT ![d] = FirstCall(d, [life |-> l, objects |-> os])]
        /\ listed' = [e \in Deletions |->
                        IF e = d THEN [life |-> l, objects |-> os] ELSE listed[e]]
        /\ todo' = [e \in Deletions |-> IF e = d THEN os ELSE todo[e]]
        /\ UNCHANGED <<world, some, errors, changed, stats>>
  BY DEF List, Step
<1>2. d \notin some' /\ d \notin errors'
  BY <1>1 DEF Knows
<1>3. listed'[d].life = l /\ listed'[d].objects = os /\ todo'[d] = os
  BY <1>1
<1>4. step'[d] \in {"refused", "lifecycle", "resources"}
  BY <1>1, ActionsAssumption DEF ActionsAssumption, FirstCall, TypeOK, Handlers, Changes
<1>5. step'[d] = "lifecycle" => l # "gone"
  BY <1>1, ActionsAssumption DEF ActionsAssumption, FirstCall, TypeOK, Handlers, Changes
<1>6. step'[d] = "resources" => l = "gone"
  BY <1>1, ActionsAssumption DEF ActionsAssumption, FirstCall, TypeOK, Handlers, Changes
<1>7. QED
  BY <1>2, <1>3, <1>4, <1>5, <1>6 DEF Knows, RecordLeaves, ObjectsLeave, Leaving, Standing

\* deleteLifecycleSandbox.
LEMMA RecordKnows ==
  ASSUME TypeOK, NEW d \in Deletions, Knows(d), GoneStays,
         \/ \E answered \in BOOLEAN : DeleteRecord(d, answered)
         \/ RecordNotFound(d)
         \/ DeleteRecordFails(d)
  PROVE  Knows(d)'
<1>1. /\ step[d] = "lifecycle" /\ step'[d] \in {"forget", "resources"}
      /\ UNCHANGED <<listed, todo, some>>
  BY DEF DeleteRecord, RecordNotFound, DeleteRecordFails, Step, TypeOK, Handlers, deletion
<1>2. /\ d \notin errors' => life' \in Leaving
      /\ step'[d] = "forget" => life' \in Leaving
  BY DEF DeleteRecord, RecordNotFound, DeleteRecordFails, Accept, Step, TypeOK, Handlers,
     Leaving, deletion, world
<1>3. d \notin some /\ listed[d].life # "gone" /\ todo[d] = listed[d].objects
  BY <1>1 DEF Knows
<1>4. QED
  BY <1>1, <1>2, <1>3 DEF Knows, RecordLeaves, ObjectsLeave, Leaving, Standing

\* deleteCustomResource.
LEMMA ResourceKnows ==
  ASSUME TypeOK, NEW d \in Deletions, Knows(d), GoneStays, NEW r \in Resources,
         \/ \E answered \in BOOLEAN : DeleteResource(d, r, answered)
         \/ ResourceNotFound(d, r)
         \/ DeleteResourceFails(d, r)
  PROVE  Knows(d)'
<1>1. /\ step[d] = "resources" /\ r \in todo[d]
      /\ UNCHANGED <<step, listed>>
      /\ todo' = [todo EXCEPT ![d] = @ \ {r}]
  BY DEF DeleteResource, ResourceNotFound, DeleteResourceFails
<1>2. todo'[d] = todo[d] \ {r}
  BY <1>1 DEF TypeOK
<1>3. d \notin errors' => d \notin errors /\ r \notin Standing'
  BY DEF DeleteResource, ResourceNotFound, DeleteResourceFails, Accept, Standing, world
<1>4. d \in some' => d \in some \/ r \notin Standing'
  BY DEF DeleteResource, ResourceNotFound, DeleteResourceFails, Accept, Standing, world
<1>5. r \in listed[d].objects
  BY <1>1 DEF Knows
<1>6. d \in some' => \E o \in listed'[d].objects : o \notin Standing'
  BY <1>1, <1>4, <1>5 DEF Knows, GoneStays
<1>7. step'[d] = "resources" /\ listed'[d] = listed[d]
  BY <1>1
<1>8. d \notin errors' =>
        \A o \in listed'[d].objects : o \in todo'[d] \/ o \notin Standing'
  BY <1>1, <1>2, <1>3 DEF Knows, GoneStays
<1>9. d \notin errors' => RecordLeaves(d)'
  BY <1>1, <1>3 DEF Knows, GoneStays, RecordLeaves
<1>10. todo'[d] \subseteq listed'[d].objects
  BY <1>1, <1>2 DEF Knows
<1>11. QED
  BY <1>6, <1>7, <1>8, <1>9, <1>10 DEF Knows

\* The end of DeleteSandbox, and of the handler.
LEMMA EndKnows ==
  ASSUME TypeOK, NEW d \in Deletions, Knows(d), ResourcesTried(d) \/ Forget(d)
  PROVE  Knows(d)'
<1>1. UNCHANGED <<life, objects, doomed, listed, todo, some, errors>>
  BY DEF ResourcesTried, Forget, world, deletion
<1>2. CASE ResourcesTried(d)
  <2>1. /\ step[d] = "resources" /\ todo[d] = {}
        /\ step'[d] = IF d \in some THEN "forget" ELSE "failed"
    BY <1>2 DEF ResourcesTried, Outcome, Step, TypeOK, Handlers
  <2>2. d \notin errors => RecordLeaves(d) /\ ObjectsLeave(d)
    BY <2>1 DEF Knows, ObjectsLeave
  <2>3. QED
    BY <1>1, <2>1, <2>2 DEF Knows, RecordLeaves, ObjectsLeave, Leaving, Standing
<1>3. CASE Forget(d)
  <2>1. step[d] = "forget" /\ step'[d] = "done"
    BY <1>3 DEF Forget, Step, TypeOK, Handlers
  <2>2. QED
    BY <1>1, <2>1 DEF Knows, RecordLeaves, ObjectsLeave, Leaving, Standing
<1>4. QED
  BY <1>2, <1>3

LEMMA NextPreservesKnowledge ==
  ASSUME TypeOK, Knowledge, [Next]_vars
  PROVE  Knowledge'
<1> SUFFICES ASSUME NEW d \in Deletions
             PROVE  Knows(d)'
  BY DEF Knowledge
<1>1. Knows(d) /\ GoneStays
  BY WhatIsGoneStaysGone DEF Knowledge
<1>2. ASSUME NEW r \in Handlers, List(r) \/ Forget(r)
      PROVE  Knows(d)'
  <2>1. CASE r = d
    BY <1>1, <1>2, <2>1, ListKnows, EndKnows
  <2>2. CASE r # d
    <3>1. Same(d)
      BY <1>2, <2>2 DEF List, Forget, Step, TypeOK, Handlers, Same, deletion
    <3>2. QED
      BY <1>1, <3>1, BystanderKnows
  <2>3. QED
    BY <2>1, <2>2
<1>3. ASSUME NEW c \in Changes, Change(c)
      PROVE  Knows(d)'
  <2>1. c # d
    BY ActionsAssumption DEF ActionsAssumption, Changes
  <2>2. Same(d)
    BY <1>3, <2>1 DEF Change, ChangeAccepted, ChangeFails, Step, TypeOK, Handlers, Same, deletion
  <2>3. QED
    BY <1>1, <2>2, BystanderKnows
<1>4. ASSUME NEW e \in Deletions, Delete(e)
      PROVE  Knows(d)'
  <2>1. CASE e = d
    BY <1>1, <1>4, <2>1, RecordKnows, ResourceKnows, EndKnows DEF Delete
  <2>2. CASE e # d
    <3>1. step'[d] = step[d] /\ listed'[d] = listed[d] /\ todo'[d] = todo[d]
      BY <1>4, <2>2 DEF Delete, DeleteRecord, RecordNotFound, DeleteRecordFails, DeleteResource,
         ResourceNotFound, DeleteResourceFails, ResourcesTried, Step, TypeOK, Handlers, deletion
    <3>2. (d \in some' <=> d \in some) /\ (d \in errors' <=> d \in errors)
      BY <1>4, <2>2 DEF Delete, DeleteRecord, RecordNotFound, DeleteRecordFails, DeleteResource,
         ResourceNotFound, DeleteResourceFails, ResourcesTried, deletion
    <3>3. QED
      BY <1>1, <3>1, <3>2, BystanderKnows DEF Same
  <2>3. QED
    BY <2>1, <2>2
<1>5. ASSUME NEW v \in Viewers, View(v)
      PROVE  Knows(d)'
  <2>1. v # d
    BY ActionsAssumption DEF ActionsAssumption
  <2>2. Same(d)
    BY <1>5, <2>1 DEF View, Miss, Measure, Store, Step, TypeOK, Handlers, Same, deletion
  <2>3. QED
    BY <1>1, <2>2, BystanderKnows
<1>6. CASE Expire \/ CarryOut \/ WorldMoves \/ UNCHANGED vars
  <2>1. Same(d)
    BY <1>6 DEF Expire, CarryOut, WorldMoves, vars, Same, deletion
  <2>2. QED
    BY <1>1, <2>1, BystanderKnows
<1>7. QED
  BY <1>2, <1>3, <1>4, <1>5, <1>6 DEF Next

-----------------------------------------------------------------------------
LEMMA InitEstablishesInv == Init => IInv
<1> SUFFICES ASSUME Init
             PROVE  IInv
  OBVIOUS
<1>1. 0 \in 0 .. MaxEpoch /\ 0 <= 0 /\ ~(0 > 0) /\ ~(0 < 0)
  BY ActionsAssumption DEF ActionsAssumption
<1>2. Nothing \in Listing /\ Idle \in Measured
  BY <1>1 DEF Nothing, Idle, Listing, Measured, Lives
<1>3. TypeOK
  BY <1>1, <1>2 DEF Init, TypeOK, Steps, Listing, Measured
<1>4. Marks /\ Told /\ Owed
  BY <1>1 DEF Init, Marks, Told, ToldOf, Owed, StatsShowWhatIsOwed, Handlers
<1>5. Knowledge
  BY DEF Init, Knowledge, Knows, Handlers
<1>6. QED
  BY <1>3, <1>4, <1>5 DEF IInv

LEMMA NextPreservesInv == IInv /\ [Next]_vars => IInv'
  BY NextPreservesType, NextPreservesTold, NextPreservesOwed, NextPreservesKnowledge DEF IInv

LEMMA InvIsInvariant == Spec => []IInv
  BY InitEstablishesInv, NextPreservesInv, PTL DEF Spec

(***************************************************************************)
(* However many requests pause, resume and delete a sandbox at once, the   *)
(* ones that are told of success have each had a call of their own         *)
(* accepted, and a deletion that has had one is told of failure only if an *)
(* answer was lost.                                                        *)
(***************************************************************************)
THEOREM SuccessIsEarned == Spec => []ActionsInv
<1>1. IInv => ActionsInv
  <2> SUFFICES ASSUME IInv, NEW r \in Handlers
               PROVE  /\ step[r] \in {"forget", "done"} => changed[r] > 0
                      /\ step[r] = "refused" => changed[r] = 0
                      /\ step[r] = "failed" /\ changed[r] > 0 /\ r \in Deletions => r \in errors
    BY DEF IInv, ActionsInv, TellsOfOwnCalls
  <2>1. ToldOf(r)
    BY DEF IInv, Told
  <2>2. QED
    BY <2>1 DEF ToldOf
<1>2. QED
  BY <1>1, InvIsInvariant, PTL

(***************************************************************************)
(* Whoever else deletes the sandbox or moves it, and whichever calls fail  *)
(* after or before they were carried out, what a deletion tells its user   *)
(* of the record and of the custom resources it has listed is true.        *)
(***************************************************************************)
THEOREM DeletionIsHonest == Spec => []DeletionTellsTruth
<1>1. IInv => DeletionTellsTruth
  <2> SUFFICES ASSUME IInv, NEW d \in Deletions
               PROVE  LET recordLeaves == listed[d].life # "gone" => life \in Leaving
                          objectsLeave == listed[d].objects \cap Standing = {}
                      IN  /\ step[d] \in {"forget", "done"} =>
                               /\ \/ listed[d].life # "gone" /\ recordLeaves
                                  \/ \E r \in listed[d].objects : r \notin Standing
                               /\ d \notin errors => recordLeaves /\ (d \in some => objectsLeave)
                          /\ step[d] = "failed" /\ d \notin errors => recordLeaves /\ objectsLeave
    BY DEF DeletionTellsTruth
  <2>1. Knows(d)
    BY DEF IInv, Knowledge
  <2>2. QED
    BY <2>1 DEF Knows, RecordLeaves, ObjectsLeave
<1>2. QED
  BY <1>1, InvIsInvariant, PTL

(***************************************************************************)
(* Cached stats that are older than the last change a handler has finished *)
(* are the work of a command that was running when the handler dropped the *)
(* entry, and of nothing else.                                             *)
(***************************************************************************)
THEOREM OldStatsAreLate == Spec => []StatsShowWhatIsOwed
<1>1. IInv => StatsShowWhatIsOwed
  BY DEF IInv, Owed
<1>2. QED
  BY <1>1, InvIsInvariant, PTL
=============================================================================
