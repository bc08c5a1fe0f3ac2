--------------------------- MODULE DiscoveryProofs ---------------------------
(***************************************************************************)
(* Theorems about Discovery, for lists of any things, in pages of any      *)
(* size, that change any number of times while they are read.              *)
(***************************************************************************)
EXTENDS Discovery, SequenceTheorems, FiniteSetTheorems, TLAPS

-----------------------------------------------------------------------------
(* Sequences.                                                              *)

\* What a list is after something has been put at its front.
LEMMA Prepended ==
  ASSUME NEW l \in Seq(Things), IsInjective(l), NEW t \in Things \ ToSet(l)
  PROVE  LET m == <<t>> \o l
         IN  /\ m \in Seq(Things) /\ IsInjective(m) /\ Len(m) = Len(l) + 1
             /\ ToSet(m) = ToSet(l) \cup {t}
             /\ m[1] = t
             /\ \A i \in 2 .. Len(m) : i - 1 \in 1 .. Len(l) /\ m[i] = l[i - 1]
<1> DEFINE m == <<t>> \o l
<1>1. <<t>> \in Seq(Things) /\ Len(<<t>>) = 1 /\ <<t>>[1] = t
  OBVIOUS
<1>2. Len(l) \in Nat /\ DOMAIN l = 1 .. Len(l)
  BY LenProperties
<1>3. /\ m \in Seq(Things) /\ Len(m) = 1 + Len(l)
      /\ \A i \in 1 .. 1 + Len(l) : m[i] = IF i <= 1 THEN <<t>>[i] ELSE l[i - 1]
  BY <1>1, ConcatProperties
<1>4. Len(m) = Len(l) + 1 /\ DOMAIN m = 1 .. Len(l) + 1
  BY <1>2, <1>3, LenProperties
<1>5. m[1] = t /\ \A i \in 2 .. Len(m) : i - 1 \in 1 .. Len(l) /\ m[i] = l[i - 1]
  BY <1>1, <1>2, <1>3
<1> HIDE DEF m
<1>6. ToSet(m) = ToSet(l) \cup {t}
  <2>1. ASSUME NEW x \in ToSet(m) PROVE x \in ToSet(l) \cup {t}
    <3>1. PICK i \in 1 .. Len(l) + 1 : x = m[i]
      BY <1>4 DEF ToSet
    <3>2. QED
      BY <3>1, <1>2, <1>4, <1>5 DEF ToSet
  <2>2. ASSUME NEW x \in ToSet(l) PROVE x \in ToSet(m)
    <3>1. PICK i \in 1 .. Len(l) : x = l[i]
      BY <1>2 DEF ToSet
    <3>2. i + 1 \in 2 .. Len(m) /\ (i + 1) - 1 = i
      BY <1>2, <1>4
    <3>3. x = m[i + 1] /\ i + 1 \in DOMAIN m
      BY <3>1, <3>2, <1>2, <1>4, <1>5
    <3>4. QED
      BY <3>3 DEF ToSet
  <2>3. t \in ToSet(m)
    BY <1>2, <1>4, <1>5 DEF ToSet
  <2>4. QED
    BY <2>1, <2>2, <2>3
<1>7. IsInjective(m)
  <2> SUFFICES ASSUME NEW i \in 1 .. Len(l) + 1, NEW j \in 1 .. Len(l) + 1, m[i] = m[j]
               PROVE  i = j
    BY <1>4 DEF IsInjective
  <2>1. \A n \in 2 .. Len(m) : m[n] # t
    BY <1>2, <1>5 DEF ToSet
  <2>2. CASE i = 1 \/ j = 1
    BY <2>1, <2>2, <1>2, <1>4, <1>5
  <2>3. CASE i # 1 /\ j # 1
    <3>1. i \in 2 .. Len(m) /\ j \in 2 .. Len(m)
      BY <2>3, <1>2, <1>4
    <3>2. i - 1 = j - 1
      BY <3>1, <1>2, <1>5 DEF IsInjective
    <3>3. QED
      BY <3>1, <3>2
  <2>4. QED
    BY <2>2, <2>3
<1>8. QED
  BY <1>3, <1>4, <1>5, <1>6, <1>7 DEF m

\* And at its end.
LEMMA Appended ==
  ASSUME NEW l \in Seq(Things), IsInjective(l), NEW t \in Things \ ToSet(l)
  PROVE  LET m == Append(l, t)
         IN  /\ m \in Seq(Things) /\ IsInjective(m) /\ Len(m) = Len(l) + 1
             /\ ToSet(m) = ToSet(l) \cup {t}
             /\ m[Len(m)] = t
             /\ \A i \in 1 .. Len(l) : m[i] = l[i]
<1> DEFINE m == Append(l, t)
<1>1. Len(l) \in Nat /\ DOMAIN l = 1 .. Len(l)
  BY LenProperties
<1>2. m \in Seq(Things) /\ Len(m) = Len(l) + 1
  BY AppendProperties
<1>3. (\A i \in 1 .. Len(l) : m[i] = l[i]) /\ m[Len(l) + 1] = t
  BY AppendProperties
<1>4. DOMAIN m = 1 .. Len(l) + 1
  BY <1>2, LenProperties
<1> HIDE DEF m
<1>5. ToSet(m) = ToSet(l) \cup {t}
  <2>1. \A i \in 1 .. Len(l) + 1 : i \in 1 .. Len(l) \/ i = Len(l) + 1
    BY <1>1
  <2>2. \A i \in 1 .. Len(l) : i \in 1 .. Len(l) + 1
    BY <1>1
  <2>3. Len(l) + 1 \in 1 .. Len(l) + 1
    BY <1>1
  <2>4. QED
    BY <2>1, <2>2, <2>3, <1>1, <1>3, <1>4 DEF ToSet
<1>6. IsInjective(m)
  <2> SUFFICES ASSUME NEW i \in 1 .. Len(l) + 1, NEW j \in 1 .. Len(l) + 1, m[i] = m[j]
               PROVE  i = j
    BY <1>4 DEF IsInjective
  <2>1. \A n \in 1 .. Len(l) : m[n] # t
    BY <1>1, <1>3 DEF ToSet
  <2>2. QED
    BY <2>1, <1>1, <1>3 DEF IsInjective
<1>7. QED
  BY <1>2, <1>3, <1>5, <1>6 DEF m

\* What it is after something has been taken out.
LEMMA Removed ==
  ASSUME NEW l \in Seq(Things), IsInjective(l), NEW n \in 1 .. Len(l)
  PROVE  LET m == RemoveAt(l, n)
         IN  /\ m \in Seq(Things) /\ IsInjective(m) /\ Len(m) = Len(l) - 1
             /\ ToSet(m) \subseteq ToSet(l)
             /\ \A i \in 1 .. Len(m) :
                  \E j \in 1 .. Len(l) : (j = i \/ j = i + 1) /\ m[i] = l[j]
<1> DEFINE m == RemoveAt(l, n)
           a == SubSeq(l, 1, n - 1)
           b == SubSeq(l, n + 1, Len(l))
           old(i) == IF i < n THEN i ELSE i + 1
<1>1. Len(l) \in Nat /\ DOMAIN l = 1 .. Len(l) /\ n \in Int /\ 1 <= n /\ n <= Len(l)
  BY LenProperties
<1>1a. \A i \in 1 .. Len(l) : l[i] \in Things
  BY ElementOfSeq
<1>2. /\ a \in Seq(Things) /\ Len(a) = n - 1
      /\ \A i \in 1 .. n - 1 : a[i] = l[i]
  <2>1. \A i \in 1 .. n - 1 : l[i] \in Things
    BY <1>1, <1>1a
  <2>2. /\ a \in Seq(Things)
        /\ Len(a) = IF 1 <= n - 1 THEN (n - 1) - 1 + 1 ELSE 0
        /\ \A i \in 1 .. (n - 1) - 1 + 1 : a[i] = l[1 + i - 1]
    BY <2>1, <1>1, SubSeqProperties
  <2>3. QED
    BY <2>2, <1>1
<1>3. /\ b \in Seq(Things) /\ Len(b) = Len(l) - n
      /\ \A i \in 1 .. Len(l) - n : b[i] = l[n + i]
  <2>1. \A i \in n + 1 .. Len(l) : l[i] \in Things
    BY <1>1, <1>1a
  <2>2. n + 1 \in Int /\ Len(l) \in Int
    BY <1>1
  <2>3. /\ b \in Seq(Things)
        /\ Len(b) = IF n + 1 <= Len(l) THEN Len(l) - (n + 1) + 1 ELSE 0
        /\ \A i \in 1 .. Len(l) - (n + 1) + 1 : b[i] = l[(n + 1) + i - 1]
    BY <2>1, <2>2, SubSeqProperties
  <2> HIDE DEF b
  <2>4. Len(b) = Len(l) - n
    <3>1. CASE n + 1 <= Len(l)
      BY <3>1, <2>3, <1>1
    <3>2. CASE n = Len(l)
      BY <3>2, <2>3, <1>1
    <3>3. n + 1 <= Len(l) \/ n = Len(l)
      <4>1. \A x, y \in Int : x <= y => x + 1 <= y \/ x = y
        OBVIOUS
      <4>2. n \in Int /\ Len(l) \in Int /\ n <= Len(l)
        BY <1>1
      <4>3. QED
        BY <4>1, <4>2
    <3>4. QED
      BY <3>1, <3>2, <3>3
  <2>5. Len(l) - (n + 1) + 1 = Len(l) - n
    BY <1>1
  <2>6. ASSUME NEW i \in 1 .. Len(l) - n PROVE b[i] = l[n + i]
    <3>1. (n + 1) + i - 1 = n + i
      BY <1>1
    <3>2. QED
      BY <2>3, <2>5, <3>1
  <2>7. QED
    BY <2>3, <2>4, <2>6
<1>4. /\ m \in Seq(Things) /\ Len(m) = Len(a) + Len(b)
      /\ \A i \in 1 .. Len(a) + Len(b) : m[i] = IF i <= Len(a) THEN a[i] ELSE b[i - Len(a)]
  BY <1>2, <1>3, ConcatProperties DEF RemoveAt
<1> HIDE DEF m, a, b
<1>5. Len(m) = Len(l) - 1 /\ DOMAIN m = 1 .. Len(l) - 1
  <2>1. Len(m) = Len(l) - 1
    BY <1>1, <1>2, <1>3, <1>4
  <2>2. QED
    BY <2>1, <1>4, LenProperties
<1>6. \A i \in 1 .. Len(m) : old(i) \in 1 .. Len(l) /\ m[i] = l[old(i)]
  <2> TAKE i \in 1 .. Len(m)
  <2>1. CASE i < n
    BY <2>1, <1>1, <1>2, <1>3, <1>4, <1>5
  <2>2. CASE n <= i
    <3>1. i - Len(a) \in 1 .. Len(l) - n /\ n + (i - Len(a)) = i + 1 /\ ~(i <= Len(a))
      BY <2>2, <1>1, <1>2, <1>5
    <3>2. m[i] = b[i - Len(a)]
      BY <3>1, <1>1, <1>2, <1>3, <1>4, <1>5
    <3>3. b[i - Len(a)] = l[i + 1]
      BY <3>1, <1>3
    <3>4. QED
      BY <3>2, <3>3, <2>2, <1>1, <1>5
  <2>3. QED
    BY <2>1, <2>2, <1>1, <1>5
<1>7. IsInjective(m)
  <2> SUFFICES ASSUME NEW i \in 1 .. Len(m), NEW j \in 1 .. Len(m), m[i] = m[j]
               PROVE  i = j
    BY <1>5 DEF IsInjective
  <2>1. old(i) = old(j)
    BY <1>1, <1>6 DEF IsInjective
  <2>2. QED
    BY <2>1, <1>1, <1>5
<1>8. ToSet(m) \subseteq ToSet(l)
  BY <1>1, <1>5, <1>6 DEF ToSet
<1>9. \A i \in 1 .. Len(m) :
        \E j \in 1 .. Len(l) : (j = i \/ j = i + 1) /\ m[i] = l[j]
  BY <1>6
<1>10. QED
  BY <1>4, <1>5, <1>7, <1>8, <1>9 DEF m

\* A page is the part of the list that begins behind the pages before it, and the last
\* page leaves nothing over.
LEMMA PageProperties ==
  ASSUME NEW p \in Nat \ {0}, NEW k, k = (p - 1) * PageSize, list \in Seq(Things)
  PROVE  /\ k \in Nat /\ p * PageSize = k + PageSize /\ ((p + 1) - 1) * PageSize = k + PageSize
         /\ Page(p) \in Seq(Things)
         /\ HasNextPage(p) => Len(Page(p)) = PageSize
         /\ \A i \in 1 .. Len(Page(p)) :
              k + i \in 1 .. Len(list) /\ Page(p)[i] = list[k + i]
         /\ \A j \in 1 .. Len(list) :
              k < j /\ (j <= k + PageSize \/ ~HasNextPage(p)) =>
                j - k \in 1 .. Len(Page(p)) /\ Page(p)[j - k] = list[j]
<1>1. PageSize \in Nat \ {0}
  BY DiscoveryAssumption
<1>2. k \in Nat /\ p * PageSize = k + PageSize /\ ((p + 1) - 1) * PageSize = k + PageSize
  <2>1. p - 1 \in Nat /\ (p + 1) - 1 = p
    OBVIOUS
  <2>2. (p - 1) * PageSize \in Nat
    BY <2>1, <1>1
  <2>3. p * PageSize = (p - 1) * PageSize + PageSize
    BY <1>1
  <2>4. QED
    BY <2>1, <2>2, <2>3
<1> DEFINE end == IF HasNextPage(p) THEN k + PageSize ELSE Len(list)
<1>3. Len(list) \in Nat /\ \A i \in 1 .. Len(list) : list[i] \in Things
  BY LenProperties, ElementOfSeq
<1>4. end \in Nat /\ end <= Len(list) /\ (HasNextPage(p) => end = k + PageSize)
  BY <1>1, <1>2, <1>3 DEF HasNextPage
<1>5. \A j \in Nat : j <= Len(list) /\ (j <= k + PageSize \/ ~HasNextPage(p)) => j <= end
  BY <1>1, <1>2, <1>3
<1>6. Page(p) = SubSeq(list, k + 1, end)
  BY <1>2 DEF Page
<1> HIDE DEF end
<1>7. /\ Page(p) \in Seq(Things)
      /\ Len(Page(p)) = IF k + 1 <= end THEN end - (k + 1) + 1 ELSE 0
      /\ \A i \in 1 .. end - (k + 1) + 1 : Page(p)[i] = list[(k + 1) + i - 1]
  <2>1. \A i \in k + 1 .. end : list[i] \in Things
    BY <1>2, <1>3, <1>4
  <2>2. k + 1 \in Int /\ end \in Int
    BY <1>2, <1>4
  <2> DEFINE a == k + 1
  <2>3. /\ SubSeq(list, a, end) \in Seq(Things)
        /\ Len(SubSeq(list, a, end)) = IF a <= end THEN end - a + 1 ELSE 0
        /\ \A i \in 1 .. end - a + 1 : SubSeq(list, a, end)[i] = list[a + i - 1]
    <3> HIDE DEF a
    <3>1. a \in Int /\ end \in Int /\ \A i \in a .. end : list[i] \in Things
      BY <2>1, <2>2 DEF a
    <3>2. QED
      BY <3>1, SubSeqProperties
  <2>4. QED
    BY <1>6, <2>3
<1> DEFINE n == Len(Page(p))
<1>8. n = IF k < end THEN end - k ELSE 0
  BY <1>2, <1>4, <1>7
<1>9. ASSUME NEW i \in 1 .. n PROVE k + i <= end /\ Page(p)[i] = list[k + i]
  <2> HIDE DEF n
  <2>1. i \in 1 .. end - (k + 1) + 1 /\ (k + 1) + i - 1 = k + i /\ k + i <= end
    BY <1>2, <1>4, <1>8
  <2>2. QED
    BY <2>1, <1>7
<1> HIDE DEF n
<1>10. \A i \in 1 .. n : k + i \in 1 .. Len(list) /\ Page(p)[i] = list[k + i]
  <2> TAKE i \in 1 .. n
  <2>1. k + i <= end /\ Page(p)[i] = list[k + i]
    BY <1>9
  <2>2. QED
    BY <2>1, <1>2, <1>3, <1>4, <1>8
<1>11. ASSUME NEW j \in 1 .. Len(list), k < j, j <= k + PageSize \/ ~HasNextPage(p)
       PROVE  j - k \in 1 .. n /\ Page(p)[j - k] = list[j]
  <2>1. j <= end
    BY <1>5, <1>11, <1>3
  <2>2. j - k \in 1 .. n /\ k + (j - k) = j
    BY <2>1, <1>2, <1>3, <1>4, <1>8, <1>11
  <2>3. QED
    BY <2>2, <1>10
<1>12. HasNextPage(p) => n = PageSize
  BY <1>1, <1>2, <1>4, <1>8
<1>13. QED
  BY <1>2, <1>7, <1>10, <1>11, <1>12 DEF n

-----------------------------------------------------------------------------
(* The inductive invariant.                                                *)

\* Only a call for sandboxes reads anything but pages.
CallsKnowTheirSources == at \in {"pods"} \cup Kinds => call = "sandboxes"

Witnessed ==
  at # "idle" =>
    /\ stayed \subseteq Everything(list, resources)
    /\ Everything(list, resources) \subseteq been
    /\ Everything(got, found) \subseteq been

\* How far the pages have come: without additions, nothing that has been read is to be
\* read again, and without removals nothing that stayed has been passed by.
PagesFollowTheList ==
  call = "snapshots" /\ at = "page" =>
    LET k == (page - 1) * PageSize
    IN  /\ ~added => \A i \in 1 .. Len(list) : k < i => list[i] \notin ToSet(got)
        /\ ~removed => \A i \in 1 .. Len(list) :
                         i <= k /\ list[i] \in stayed => list[i] \in ToSet(got)

NoneTwice == at # "idle" /\ call = "snapshots" /\ ~added => IsInjective(got)

SnapshotsComplete ==
  at = "done" /\ call = "snapshots" /\ ~failed =>
    removed \/ stayed \cap Things \subseteq ToSet(got)

RecordsComplete ==
  at \in Kinds \cup {"done"} /\ call = "sandboxes" /\ ~failed =>
    stayed \cap Things \subseteq ToSet(got) \/ Len(got) = PageSize

ResourcesComplete ==
  call = "sandboxes" /\ ~failed =>
    \A r \in stayed \cap Resources :
      (at = "agent" /\ r.kind = "batch") \/ at = "done" => r \in found

IInv ==
  /\ TypeOK
  /\ CallsKnowTheirSources
  /\ Witnessed
  /\ PagesFollowTheList
  /\ NoneTwice
  /\ SnapshotsComplete
  /\ RecordsComplete
  /\ ResourcesComplete

LEMMA InvariantImplies == IInv => DiscoveryInv /\ NothingMissed
  BY DEF IInv, TypeOK, Witnessed, NoneTwice, SnapshotsComplete, RecordsComplete,
         ResourcesComplete, DiscoveryInv, NothingMadeUp, NothingMissed, Kinds

LEMMA ToSetIs ==
  ASSUME NEW s \in Seq(Things)
  PROVE  /\ DOMAIN s = 1 .. Len(s) /\ Len(s) \in Nat
         /\ ToSet(s) = {s[i] : i \in 1 .. Len(s)}
         /\ ToSet(s) \subseteq Things
  BY LenProperties, ElementOfSeq DEF ToSet

\* Any list of things, each once, is one that the lifecycle API may have.
LEMMA ListsAreLists ==
  ASSUME NEW l \in SetToAllKPermutations(Things)
  PROVE  l \in Seq(Things) /\ IsInjective(l)
<1>1. PICK s \in SUBSET Things : l \in SetToSeqs(s)
  BY DEF SetToAllKPermutations
<1>2. IsFiniteSet(s)
  BY DiscoveryAssumption, FS_Subset
<1>3. Cardinality(s) \in Nat
  BY <1>2, FS_CardinalityType
<1> DEFINE n == Cardinality(s)
<1>4. l \in [1 .. n -> s] /\ \A i, j \in 1 .. n : i # j => l[i] # l[j]
  BY <1>1 DEF SetToSeqs
<1> HIDE DEF n
<1>5. n \in Nat
  BY <1>3 DEF n
<1>6. l \in [1 .. n -> Things]
  BY <1>4
<1>7. l \in Seq(Things)
  BY <1>5, <1>6, SeqDef
<1>8. IsInjective(l)
  BY <1>4 DEF IsInjective
<1>9. QED
  BY <1>7, <1>8

LEMMA InitEstablishesInv == Init => IInv
<1> SUFFICES ASSUME Init PROVE IInv
  OBVIOUS
<1>1. list \in Seq(Things) /\ IsInjective(list)
  BY ListsAreLists DEF Init
<1>2. TypeOK
  <2>1. resources \subseteq Resources /\ moves \in 0 .. MaxMoves /\ page \in Nat \ {0}
    BY DiscoveryAssumption DEF Init
  <2>2. got \in Seq(Things)
    BY EmptySeq DEF Init
  <2>3. /\ call \in {"sandboxes", "snapshots"}
        /\ at \in {"idle", "pods", "page", "done"} \cup Kinds
        /\ found \subseteq Resources
        /\ stayed \subseteq been /\ been \subseteq Things \cup Resources
    BY DEF Init
  <2>4. failed \in BOOLEAN /\ added \in BOOLEAN /\ removed \in BOOLEAN
    BY DEF Init
  <2>5. QED
    BY <1>1, <2>1, <2>2, <2>3, <2>4 DEF TypeOK
<1>3. QED
  BY <1>2 DEF Init, IInv, CallsKnowTheirSources, Witnessed, PagesFollowTheList, NoneTwice,
              SnapshotsComplete, RecordsComplete, ResourcesComplete, Kinds

-----------------------------------------------------------------------------
(* The server.                                                             *)

\* What every change of the server preserves, given where the pages then stand.
LEMMA MovesKeepInv ==
  ASSUME IInv, NEW l \in Seq(Things), IsInjective(l), NEW rs \in SUBSET Resources,
         Moves(l, rs),
         stayed' \subseteq stayed => PagesFollowTheList'
  PROVE  IInv'
<1> USE DEF IInv
<1>1. /\ list' = l /\ resources' = rs
      /\ stayed' = stayed \cap Everything(l, rs) /\ been' = been \cup Everything(l, rs)
      /\ (added => added') /\ (removed => removed')
      /\ UNCHANGED <<call, at, page, got, found, failed>>
  BY DEF Moves, answers
<1>2. Everything(l, rs) \subseteq Things \cup Resources
  BY ToSetIs DEF Everything
<1>3. TypeOK'
  <2>1. moves' \in 0 .. MaxMoves
    BY DiscoveryAssumption DEF TypeOK, Moves
  <2>2. added' \in BOOLEAN /\ removed' \in BOOLEAN
    BY DEF TypeOK, Moves
  <2>3. QED
    BY <2>1, <2>2, <1>1, <1>2 DEF TypeOK
<1>4. CallsKnowTheirSources'
  BY <1>1 DEF CallsKnowTheirSources
<1>5. Witnessed'
  BY <1>1 DEF Witnessed, Everything
<1>6. NoneTwice' /\ SnapshotsComplete' /\ RecordsComplete' /\ ResourcesComplete'
  BY <1>1 DEF NoneTwice, SnapshotsComplete, RecordsComplete, ResourcesComplete
<1>7. PagesFollowTheList'
  BY <1>1
<1>8. QED
  BY <1>3, <1>4, <1>5, <1>6, <1>7

\* What appears was not there, and so has not stayed.
LEMMA NewIsNotOld ==
  ASSUME IInv, NEW t \in Things \ ToSet(list), at # "idle"
  PROVE  t \notin stayed
  BY DiscoveryAssumption DEF IInv, TypeOK, Witnessed, Everything

LEMMA ServerKeepsInv == IInv /\ Server => IInv'
<1> SUFFICES ASSUME IInv, Server PROVE IInv'
  OBVIOUS
<1>0. list \in Seq(Things) /\ IsInjective(list) /\ resources \in SUBSET Resources
  BY DEF IInv, TypeOK
<1> DEFINE k == (page - 1) * PageSize
<1>k. k \in Nat
  <2>1. page - 1 \in Nat /\ PageSize \in Nat
    BY DiscoveryAssumption DEF IInv, TypeOK
  <2>2. QED
    BY <2>1
<1>n. Len(list) \in Nat
  BY <1>0, ToSetIs
<1>1. ASSUME NEW t \in Things \ ToSet(list), Moves(<<t>> \o list, resources)
      PROVE  IInv'
  <2> DEFINE m == <<t>> \o list
  <2>1. /\ m \in Seq(Things) /\ IsInjective(m) /\ Len(m) = Len(list) + 1
        /\ m[1] = t
        /\ \A i \in 2 .. Len(m) : i - 1 \in 1 .. Len(list) /\ m[i] = list[i - 1]
    BY <1>0, Prepended
  <2> HIDE DEF m
  <2>2. list' = m /\ added' /\ UNCHANGED <<call, at, page, got, failed>> /\ (removed => removed')
    <3>1. Len(m) > Len(list)
      BY <2>1, <1>n
    <3>2. QED
      BY <3>1, <1>1 DEF m, Moves, answers
  <2>3. ASSUME stayed' \subseteq stayed PROVE PagesFollowTheList'
    <3> SUFFICES ASSUME call = "snapshots", at = "page", ~removed,
                        NEW i \in 1 .. Len(m), i <= k, m[i] \in stayed
                 PROVE  m[i] \in ToSet(got)
      BY <2>2, <2>3 DEF PagesFollowTheList
    <3>1. i # 1
      BY <2>1, NewIsNotOld
    <3>2. i \in 2 .. Len(m) /\ i - 1 <= k
      BY <3>1, <1>k, <1>n, <2>1
    <3>3. i - 1 \in 1 .. Len(list) /\ m[i] = list[i - 1]
      BY <3>2, <2>1
    <3>4. QED
      BY <3>2, <3>3 DEF IInv, PagesFollowTheList
  <2>4. Moves(m, resources)
    BY <1>1 DEF m
  <2>5. QED
    BY <2>1, <2>3, <2>4, <1>0, MovesKeepInv
<1>2. ASSUME NEW t \in Things \ ToSet(list), Moves(Append(list, t), resources)
      PROVE  IInv'
  <2> DEFINE m == Append(list, t)
  <2>1. /\ m \in Seq(Things) /\ IsInjective(m) /\ Len(m) = Len(list) + 1
        /\ m[Len(m)] = t
        /\ \A i \in 1 .. Len(list) : m[i] = list[i]
    BY <1>0, Appended
  <2> HIDE DEF m
  <2>2. list' = m /\ added' /\ UNCHANGED <<call, at, page, got, failed>> /\ (removed => removed')
    <3>1. Len(m) > Len(list)
      BY <2>1, <1>n
    <3>2. QED
      BY <3>1, <1>2 DEF m, Moves, answers
  <2>3. ASSUME stayed' \subseteq stayed PROVE PagesFollowTheList'
    <3> SUFFICES ASSUME call = "snapshots", at = "page", ~removed,
                        NEW i \in 1 .. Len(m), i <= k, m[i] \in stayed
                 PROVE  m[i] \in ToSet(got)
      BY <2>2, <2>3 DEF PagesFollowTheList
    <3>1. i # Len(m)
      BY <2>1, NewIsNotOld
    <3>2. i \in 1 .. Len(list)
      BY <3>1, <1>n, <2>1
    <3>3. QED
      BY <3>2, <2>1 DEF IInv, PagesFollowTheList
  <2>4. Moves(m, resources)
    BY <1>2 DEF m
  <2>5. QED
    BY <2>1, <2>3, <2>4, <1>0, MovesKeepInv
<1>3. ASSUME NEW n \in DOMAIN list, Moves(RemoveAt(list, n), resources)
      PROVE  IInv'
  <2> DEFINE m == RemoveAt(list, n)
  <2>1. /\ m \in Seq(Things) /\ IsInjective(m) /\ Len(m) = Len(list) - 1
        /\ \A i \in 1 .. Len(m) :
             \E j \in 1 .. Len(list) : (j = i \/ j = i + 1) /\ m[i] = list[j]
    <3>1. n \in 1 .. Len(list)
      BY <1>0, ToSetIs
    <3>2. QED
      BY <3>1, <1>0, Removed
  <2> HIDE DEF m
  <2>2. list' = m /\ removed' /\ UNCHANGED <<call, at, page, got, failed>> /\ (added => added')
    <3>1. Len(m) < Len(list)
      BY <2>1, <1>n
    <3>2. QED
      BY <3>1, <1>3 DEF m, Moves, answers
  <2>3. PagesFollowTheList'
    <3> SUFFICES ASSUME call = "snapshots", at = "page", ~added,
                        NEW i \in 1 .. Len(m), k < i
                 PROVE  m[i] \notin ToSet(got)
      BY <2>2 DEF PagesFollowTheList
    <3>1. PICK j \in 1 .. Len(list) : (j = i \/ j = i + 1) /\ m[i] = list[j]
      BY <2>1
    <3>2. k < j
      BY <3>1, <1>k, <1>n, <2>1
    <3>3. QED
      BY <3>1, <3>2 DEF IInv, PagesFollowTheList
  <2>4. Moves(m, resources)
    BY <1>3 DEF m
  <2>5. QED
    BY <2>1, <2>3, <2>4, <1>0, MovesKeepInv
<1>4. ASSUME NEW r \in Resources, NEW rs \in SUBSET Resources, Moves(list, rs)
      PROVE  IInv'
  <2>1. UNCHANGED <<list, call, at, page, got>> /\ (added => added') /\ (removed => removed')
    BY <1>4 DEF Moves, answers
  <2>2. ASSUME stayed' \subseteq stayed PROVE PagesFollowTheList'
    BY <2>1, <2>2 DEF IInv, PagesFollowTheList
  <2>3. QED
    BY <2>2, <1>0, <1>4, MovesKeepInv
<1>5. CASE Appear
  BY <1>5, <1>1, <1>2 DEF Appear
<1>6. CASE Disappear
  BY <1>6, <1>3 DEF Disappear
<1>7. CASE Exchange
  <2>1. PICK r \in Resources :
          Moves(list, IF r \in resources THEN resources \ {r} ELSE resources \cup {r})
    BY <1>7 DEF Exchange
  <2>2. (IF r \in resources THEN resources \ {r} ELSE resources \cup {r}) \in SUBSET Resources
    BY <1>0
  <2>3. QED
    BY <2>1, <2>2, <1>4
<1>8. QED
  BY <1>5, <1>6, <1>7 DEF Server

-----------------------------------------------------------------------------
(* The client.                                                             *)

LEMMA BeginKeepsInv == ASSUME IInv, NEW c \in {"sandboxes", "snapshots"}, Begin(c) PROVE IInv'
<1> USE DEF IInv
<1>1. /\ at' = IF c = "sandboxes" THEN "pods" ELSE "page"
      /\ call' = c /\ page' = 1 /\ got' = <<>> /\ found' = {} /\ failed' = FALSE
      /\ stayed' = Everything(list, resources) /\ been' = Everything(list, resources)
      /\ added' = FALSE /\ removed' = FALSE
      /\ UNCHANGED <<list, resources, moves>>
  BY DEF Begin, Goes, Forgets, world
<1>2. <<>> \in Seq(Things) /\ ToSet(<<>>) = {} /\ IsInjective(<<>>)
  BY EmptySeq DEF ToSet, IsInjective
<1>3. Everything(list, resources) \subseteq Things \cup Resources
  BY ToSetIs DEF TypeOK, Everything
<1>4. TypeOK'
  <2>1. at' \in {"idle", "pods", "page", "done"} \cup Kinds /\ call' \in {"sandboxes", "snapshots"}
    BY <1>1
  <2>2. page' \in Nat \ {0} /\ got' \in Seq(Things) /\ found' \subseteq Resources
    BY <1>1, <1>2
  <2>3. stayed' \subseteq been' /\ been' \subseteq Things \cup Resources
    BY <1>1, <1>3
  <2>4. /\ list' \in Seq(Things) /\ IsInjective(list')
        /\ resources' \subseteq Resources /\ moves' \in 0 .. MaxMoves
    BY <1>1 DEF TypeOK
  <2>5. QED
    BY <2>1, <2>2, <2>3, <2>4, <1>1 DEF TypeOK
<1>5. CallsKnowTheirSources' /\ Witnessed'
  BY <1>1, <1>2 DEF CallsKnowTheirSources, Witnessed, Everything, Kinds
<1>6. PagesFollowTheList'
  <2>1. (1 - 1) * PageSize = 0
    BY DiscoveryAssumption
  <2>2. \A i \in 1 .. Len(list) : ~(i <= 0)
    BY ToSetIs DEF TypeOK
  <2>3. QED
    BY <1>1, <1>2, <2>1, <2>2 DEF PagesFollowTheList
<1>7. NoneTwice' /\ SnapshotsComplete' /\ RecordsComplete' /\ ResourcesComplete'
  BY <1>1, <1>2 DEF NoneTwice, SnapshotsComplete, RecordsComplete, ResourcesComplete, Kinds
<1>8. QED
  BY <1>4, <1>5, <1>6, <1>7

LEMMA ReadPodsKeepsInv == IInv /\ ReadPods => IInv'
<1> SUFFICES ASSUME IInv, ReadPods PROVE IInv'
  OBVIOUS
<1>1. /\ at = "pods" /\ at' = "page" /\ failed' \in BOOLEAN
      /\ UNCHANGED <<list, resources, moves, call, page, got, found, stayed, been, added, removed>>
  BY DEF ReadPods, Goes, world, history
<1>2. call = "sandboxes"
  BY <1>1 DEF IInv, CallsKnowTheirSources
<1>3. TypeOK'
  BY <1>1 DEF IInv, TypeOK
<1>4. QED
  BY <1>1, <1>2, <1>3 DEF IInv, CallsKnowTheirSources, Witnessed, PagesFollowTheList, NoneTwice,
     SnapshotsComplete, RecordsComplete, ResourcesComplete, Kinds

\* A turn of the loop: the page is the next part of the list, so that what was read before
\* is not in it, and nothing lies between the two.
LEMMA ReadSnapshotsKeepsInv == IInv /\ ReadSnapshots => IInv'
<1> SUFFICES ASSUME IInv, ReadSnapshots PROVE IInv'
  OBVIOUS
<1> USE DEF IInv
<1> DEFINE k == (page - 1) * PageSize
           new == Page(page)
<1>0. list \in Seq(Things) /\ IsInjective(list) /\ got \in Seq(Things) /\ page \in Nat \ {0}
  BY DEF TypeOK
<1>1. /\ call = "snapshots" /\ at = "page" /\ got' = got \o new
      /\ HasNextPage(page) => page' = page + 1 /\ at' = at
      /\ ~HasNextPage(page) => at' = "done" /\ page' = page
      /\ UNCHANGED <<list, resources, moves, call, found, failed, stayed, been, added, removed>>
  BY DEF ReadSnapshots, world, history
<1>2. /\ k \in Nat /\ ((page + 1) - 1) * PageSize = k + PageSize
      /\ new \in Seq(Things)
      /\ \A i \in 1 .. Len(new) : k + i \in 1 .. Len(list) /\ new[i] = list[k + i]
      /\ \A j \in 1 .. Len(list) :
           k < j /\ (j <= k + PageSize \/ ~HasNextPage(page)) =>
             j - k \in 1 .. Len(new) /\ new[j - k] = list[j]
      /\ HasNextPage(page) => Len(new) = PageSize
  BY <1>0, PageProperties
<1> HIDE DEF new
<1>3. /\ Len(list) \in Nat /\ Len(got) \in Nat /\ Len(new) \in Nat
      /\ ToSet(list) = {list[i] : i \in 1 .. Len(list)}
      /\ ToSet(got) = {got[i] : i \in 1 .. Len(got)}
      /\ ToSet(new) = {new[i] : i \in 1 .. Len(new)}
      /\ DOMAIN list = 1 .. Len(list)
  BY <1>0, <1>2, ToSetIs
<1>4. /\ got' \in Seq(Things) /\ Len(got') = Len(got) + Len(new)
      /\ \A i \in 1 .. Len(got) + Len(new) :
           got'[i] = IF i <= Len(got) THEN got[i] ELSE new[i - Len(got)]
  BY <1>0, <1>1, <1>2, ConcatProperties
<1>5. ToSet(got') = ToSet(got) \cup ToSet(new)
  <2>1. Range(got') = Range(got) \cup Range(new)
    BY <1>0, <1>1, <1>2, RangeConcatenation
  <2>2. \A s : Range(s) = ToSet(s)
    BY DEF Range, ToSet
  <2>3. QED
    BY <2>1, <2>2
<1>6. ToSet(new) \subseteq ToSet(list)
  BY <1>2, <1>3
<1>7. TypeOK'
  <2>1. page' \in Nat \ {0} /\ at' \in {"idle", "pods", "page", "done"} \cup Kinds
    BY <1>0, <1>1
  <2>2. QED
    BY <2>1, <1>1, <1>4 DEF TypeOK
<1>8. CallsKnowTheirSources' /\ RecordsComplete' /\ ResourcesComplete'
  BY <1>1 DEF CallsKnowTheirSources, RecordsComplete, ResourcesComplete, Kinds
<1>9. Witnessed'
  BY <1>1, <1>5, <1>6 DEF Witnessed, Everything
<1>10. ~added => \A i \in 1 .. Len(new) : new[i] \notin ToSet(got)
  <2> SUFFICES ASSUME ~added, NEW i \in 1 .. Len(new) PROVE new[i] \notin ToSet(got)
    OBVIOUS
  <2>1. k + i \in 1 .. Len(list) /\ k < k + i /\ new[i] = list[k + i]
    BY <1>2, <1>3
  <2>2. QED
    BY <2>1, <1>1 DEF PagesFollowTheList
<1>11. ~added => IsInjective(got')
  <2> SUFFICES ASSUME ~added, NEW i \in 1 .. Len(got'), NEW j \in 1 .. Len(got'), got'[i] = got'[j]
               PROVE  i = j
    BY <1>4, ToSetIs DEF IsInjective
  <2>1. IsInjective(got) /\ DOMAIN got = 1 .. Len(got)
    BY <1>0, <1>1, ToSetIs DEF NoneTwice
  <2>2. \A n \in 1 .. Len(got') :
          \/ n <= Len(got) /\ n \in 1 .. Len(got) /\ got'[n] = got[n]
          \/ ~(n <= Len(got)) /\ n - Len(got) \in 1 .. Len(new) /\ got'[n] = new[n - Len(got)]
    BY <1>3, <1>4
  <2>3. CASE i <= Len(got) /\ j <= Len(got)
    BY <2>1, <2>2, <2>3 DEF IsInjective
  <2>4. CASE ~(i <= Len(got)) /\ ~(j <= Len(got))
    <3>1. PICK a \in 1 .. Len(new) : a = i - Len(got) /\ got'[i] = new[a]
      BY <2>2, <2>4
    <3>2. PICK b \in 1 .. Len(new) : b = j - Len(got) /\ got'[j] = new[b]
      BY <2>2, <2>4
    <3>3. list[k + a] = list[k + b] /\ k + a \in 1 .. Len(list) /\ k + b \in 1 .. Len(list)
      BY <3>1, <3>2, <1>2
    <3>4. k + a = k + b
      BY <3>3, <1>0, <1>3 DEF IsInjective
    <3>5. QED
      BY <3>1, <3>2, <3>4, <1>2, <1>3, <1>4
  <2>5. CASE (i <= Len(got)) # (j <= Len(got))
    <3>1. \A n \in 1 .. Len(got) : got[n] \in ToSet(got)
      BY <1>3
    <3>2. \A m \in 1 .. Len(new) : \A n \in 1 .. Len(got) : new[m] # got[n]
      BY <3>1, <1>10
    <3>3. CASE i <= Len(got) /\ ~(j <= Len(got))
      <4>1. i \in 1 .. Len(got) /\ got'[i] = got[i]
        BY <2>2, <3>3
      <4>2. PICK b \in 1 .. Len(new) : got'[j] = new[b]
        BY <2>2, <3>3
      <4>3. QED
        BY <4>1, <4>2, <3>2
    <3>4. CASE ~(i <= Len(got)) /\ j <= Len(got)
      <4>1. j \in 1 .. Len(got) /\ got'[j] = got[j]
        BY <2>2, <3>4
      <4>2. PICK a \in 1 .. Len(new) : got'[i] = new[a]
        BY <2>2, <3>4
      <4>3. QED
        BY <4>1, <4>2, <3>2
    <3>5. QED
      BY <2>5, <3>3, <3>4
  <2>6. QED
    BY <2>3, <2>4, <2>5
<1>12. NoneTwice'
  BY <1>1, <1>11 DEF NoneTwice
<1>13. ASSUME ~removed, NEW j \in 1 .. Len(list), list[j] \in stayed,
              j <= k + PageSize \/ ~HasNextPage(page)
       PROVE  list[j] \in ToSet(got')
  <2>1. CASE j <= k
    BY <2>1, <1>1, <1>5, <1>13 DEF PagesFollowTheList
  <2>2. CASE k < j
    <3>1. j - k \in 1 .. Len(new) /\ new[j - k] = list[j]
      BY <2>2, <1>2, <1>13
    <3>2. list[j] \in ToSet(new)
      BY <3>1, <1>3
    <3>3. QED
      BY <3>2, <1>5
  <2>3. QED
    BY <2>1, <2>2, <1>2, <1>3
<1>14. SnapshotsComplete'
  <2> SUFFICES ASSUME ~HasNextPage(page), ~removed, NEW t \in stayed \cap Things
               PROVE  t \in ToSet(got')
    BY <1>1 DEF SnapshotsComplete
  <2>1. t \in ToSet(list)
    BY <1>1, DiscoveryAssumption DEF Witnessed, Everything, TypeOK
  <2>2. QED
    BY <2>1, <1>3, <1>13
<1>15. PagesFollowTheList'
  <2> SUFFICES ASSUME HasNextPage(page)
               PROVE  /\ ~added => \A i \in 1 .. Len(list) :
                                     k + PageSize < i => list[i] \notin ToSet(got')
                      /\ ~removed => \A i \in 1 .. Len(list) :
                           i <= k + PageSize /\ list[i] \in stayed => list[i] \in ToSet(got')
    BY <1>1, <1>2 DEF PagesFollowTheList
  <2>1. PageSize \in Nat \ {0}
    BY DiscoveryAssumption
  <2>2. ASSUME ~added, NEW i \in 1 .. Len(list), k + PageSize < i
        PROVE  list[i] \notin ToSet(got')
    <3>1. k < i
      BY <2>1, <2>2, <1>2, <1>3
    <3>2. list[i] \notin ToSet(got)
      BY <3>1, <2>2, <1>1 DEF PagesFollowTheList
    <3>3. ASSUME NEW n \in 1 .. Len(new) PROVE new[n] # list[i]
      <4>1. k + n \in 1 .. Len(list) /\ new[n] = list[k + n] /\ Len(new) = PageSize
        BY <1>2
      <4>2. k + n # i
        BY <4>1, <2>1, <2>2, <1>2, <1>3
      <4>3. QED
        BY <4>1, <4>2, <1>0, <1>3 DEF IsInjective
    <3>4. QED
      BY <3>2, <3>3, <1>3, <1>5
  <2>3. QED
    BY <2>2, <1>13
<1>16. QED
  BY <1>7, <1>8, <1>9, <1>12, <1>14, <1>15

LEMMA SnapshotsFailKeepsInv == IInv /\ SnapshotsFail => IInv'
<1> SUFFICES ASSUME IInv, SnapshotsFail PROVE IInv'
  OBVIOUS
<1>1. /\ call = "snapshots" /\ at = "page" /\ at' = "done" /\ failed' = TRUE
      /\ UNCHANGED <<list, resources, moves, call, page, got, found, stayed, been, added, removed>>
  BY DEF SnapshotsFail, Goes, world, history
<1>2. TypeOK'
  BY <1>1 DEF IInv, TypeOK
<1>3. QED
  BY <1>1, <1>2 DEF IInv, CallsKnowTheirSources, Witnessed, PagesFollowTheList, NoneTwice,
     SnapshotsComplete, RecordsComplete, ResourcesComplete, Kinds

LEMMA FirstPageProperties ==
  ASSUME list \in Seq(Things)
  PROVE  /\ Page(1) \in Seq(Things)
         /\ HasNextPage(1) => Len(Page(1)) = PageSize
         /\ \A i \in 1 .. Len(Page(1)) : 0 + i \in 1 .. Len(list) /\ Page(1)[i] = list[0 + i]
         /\ \A j \in 1 .. Len(list) :
              0 < j /\ (j <= 0 + PageSize \/ ~HasNextPage(1)) =>
                j - 0 \in 1 .. Len(Page(1)) /\ Page(1)[j - 0] = list[j]
<1> SUFFICES ASSUME NEW p, p = 1
             PROVE  /\ Page(p) \in Seq(Things)
                    /\ HasNextPage(p) => Len(Page(p)) = PageSize
                    /\ \A i \in 1 .. Len(Page(p)) :
                         0 + i \in 1 .. Len(list) /\ Page(p)[i] = list[0 + i]
                    /\ \A j \in 1 .. Len(list) :
                         0 < j /\ (j <= 0 + PageSize \/ ~HasNextPage(p)) =>
                           j - 0 \in 1 .. Len(Page(p)) /\ Page(p)[j - 0] = list[j]
  BY Zenon
<1>1. p \in Nat \ {0} /\ 0 = (p - 1) * PageSize
  BY DiscoveryAssumption
<1>2. QED
  BY <1>1, PageProperties, Zenon

LEMMA ReadRecordsKeepsInv == IInv /\ ReadRecords => IInv'
<1> SUFFICES ASSUME IInv, ReadRecords PROVE IInv'
  OBVIOUS
<1> USE DEF IInv
<1>0. list \in Seq(Things)
  BY DEF TypeOK
<1>1. /\ call = "sandboxes" /\ at = "page" /\ at' = "batch" /\ got' = Page(1)
      /\ UNCHANGED <<list, resources, moves, call, page, found, failed, stayed, been, added, removed>>
  BY DEF ReadRecords, Goes, world, history
<1>2. /\ Page(1) \in Seq(Things)
      /\ HasNextPage(1) => Len(Page(1)) = PageSize
      /\ \A i \in 1 .. Len(Page(1)) : 0 + i \in 1 .. Len(list) /\ Page(1)[i] = list[0 + i]
      /\ \A j \in 1 .. Len(list) :
           0 < j /\ (j <= 0 + PageSize \/ ~HasNextPage(1)) =>
             j - 0 \in 1 .. Len(Page(1)) /\ Page(1)[j - 0] = list[j]
  BY <1>0, FirstPageProperties
<1> DEFINE new == Page(1)
<1> HIDE DEF new
<1>4. /\ Len(list) \in Nat /\ Len(new) \in Nat
      /\ ToSet(list) = {list[i] : i \in 1 .. Len(list)}
      /\ ToSet(new) = {new[i] : i \in 1 .. Len(new)}
  BY <1>0, <1>2, ToSetIs DEF new
<1>5. ToSet(new) \subseteq ToSet(list)
  <2>1. \A i \in 1 .. Len(new) : i \in 1 .. Len(list) /\ new[i] = list[i]
    BY <1>2, <1>4 DEF new
  <2>2. QED
    BY <2>1, <1>4
<1>6. ~HasNextPage(1) => ToSet(list) \subseteq ToSet(new)
  <2> SUFFICES ASSUME ~HasNextPage(1), NEW j \in 1 .. Len(list) PROVE list[j] \in ToSet(new)
    BY <1>4
  <2>1. j \in 1 .. Len(new) /\ new[j] = list[j]
    BY <1>2, <1>4 DEF new
  <2>2. QED
    BY <2>1, <1>4
<1>7. TypeOK'
  BY <1>1, <1>2 DEF TypeOK, Kinds
<1>8. Witnessed'
  BY <1>1, <1>5 DEF Witnessed, Everything, new
<1>9. RecordsComplete'
  <2>1. stayed \cap Things \subseteq ToSet(list)
    BY <1>1, DiscoveryAssumption DEF Witnessed, Everything, TypeOK
  <2>2. QED
    BY <2>1, <1>1, <1>2, <1>6 DEF RecordsComplete, new
<1>10. QED
  BY <1>1, <1>7, <1>8, <1>9 DEF CallsKnowTheirSources, PagesFollowTheList, NoneTwice,
     SnapshotsComplete, ResourcesComplete, Kinds

LEMMA ReadResourcesKeepsInv == ASSUME IInv, NEW kind \in Kinds, ReadResources(kind) PROVE IInv'
<1> USE DEF IInv
<1>1. /\ at = kind /\ at' = IF kind = "batch" THEN "agent" ELSE "done"
      /\ found' = found \cup {r \in resources : r.kind = kind}
      /\ UNCHANGED <<list, resources, moves, call, page, got, failed, stayed, been, added, removed>>
  BY DEF ReadResources, Goes, world, history
<1>2. call = "sandboxes"
  BY <1>1 DEF CallsKnowTheirSources
<1>3. TypeOK'
  <2>1. found' \subseteq Resources /\ at' \in {"idle", "pods", "page", "done"} \cup Kinds
    BY <1>1 DEF TypeOK, Kinds
  <2>2. QED
    BY <2>1, <1>1 DEF TypeOK
<1>4. at # "idle" /\ at \in Kinds
  BY <1>1 DEF Kinds
<1>5. Witnessed'
  BY <1>1, <1>4 DEF Witnessed, Everything
<1>6. RecordsComplete'
  BY <1>1, <1>4 DEF RecordsComplete
<1>7. ResourcesComplete'
  <2> SUFFICES ASSUME ~failed, NEW r \in stayed \cap Resources,
                      (at' = "agent" /\ r.kind = "batch") \/ at' = "done"
               PROVE  r \in found'
    BY <1>1, <1>2 DEF ResourcesComplete
  <2>1. r \in resources
    BY <1>4, DiscoveryAssumption, ToSetIs DEF TypeOK, Witnessed, Everything
  <2>2. r.kind \in Kinds
    BY DEF Resources
  <2>3. CASE kind = "batch"
    BY <2>1, <2>3, <1>1
  <2>4. CASE kind = "agent"
    BY <2>1, <2>2, <2>4, <1>1, <1>2 DEF ResourcesComplete, Kinds
  <2>5. QED
    BY <2>3, <2>4 DEF Kinds
<1>8. QED
  BY <1>1, <1>2, <1>3, <1>5, <1>6, <1>7 DEF CallsKnowTheirSources, PagesFollowTheList, NoneTwice,
     SnapshotsComplete, Kinds

LEMMA SourceFailsKeepsInv == IInv /\ SourceFails => IInv'
<1> SUFFICES ASSUME IInv, SourceFails PROVE IInv'
  OBVIOUS
<1>1. /\ call = "sandboxes" /\ at # "idle" /\ at' \in {"batch", "agent", "done"} /\ failed' = TRUE
      /\ UNCHANGED <<list, resources, moves, call, page, got, found, stayed, been, added, removed>>
  BY DEF SourceFails, Goes, world, history
<1>2. TypeOK'
  BY <1>1 DEF IInv, TypeOK, Kinds
<1>3. QED
  BY <1>1, <1>2 DEF IInv, CallsKnowTheirSources, Witnessed, PagesFollowTheList, NoneTwice,
     SnapshotsComplete, RecordsComplete, ResourcesComplete

LEMMA ReturnKeepsInv == IInv /\ Return => IInv'
<1> SUFFICES ASSUME IInv, Return PROVE IInv'
  OBVIOUS
<1>1. /\ at' = "idle"
      /\ UNCHANGED <<list, resources, moves, call, page, got, found, failed, stayed, been, added, removed>>
  BY DEF Return, Goes, world, answers, history
<1>2. TypeOK'
  BY <1>1 DEF IInv, TypeOK
<1>3. QED
  BY <1>1, <1>2 DEF IInv, CallsKnowTheirSources, Witnessed, PagesFollowTheList, NoneTwice,
     SnapshotsComplete, RecordsComplete, ResourcesComplete, Kinds

LEMMA StepPreservesInv == IInv /\ [Next]_vars => IInv'
<1> SUFFICES ASSUME IInv, [Next]_vars PROVE IInv'
  OBVIOUS
<1>1. CASE Server
  BY <1>1, ServerKeepsInv
<1>2. CASE Client
  BY <1>2, BeginKeepsInv, ReadPodsKeepsInv, ReadSnapshotsKeepsInv, SnapshotsFailKeepsInv,
     ReadRecordsKeepsInv, ReadResourcesKeepsInv, SourceFailsKeepsInv, ReturnKeepsInv DEF Client
<1>3. CASE UNCHANGED vars
  BY <1>3 DEF vars, IInv, TypeOK, CallsKnowTheirSources, Witnessed, PagesFollowTheList, NoneTwice,
     SnapshotsComplete, RecordsComplete, ResourcesComplete
<1>4. QED
  BY <1>1, <1>2, <1>3 DEF Next

LEMMA InvIsInvariant == Spec => []IInv
  BY InitEstablishesInv, StepPreservesInv, PTL DEF Spec

(***************************************************************************)
(* However long the list, whatever the size of a page and however often    *)
(* what is read changes: nothing is returned that was not there during the *)
(* call, and no snapshot twice unless another was made meanwhile.          *)
(***************************************************************************)
THEOREM NothingIsMadeUp == Spec => []DiscoveryInv
<1>1. IInv => DiscoveryInv
  BY InvariantImplies
<1>2. QED
  BY <1>1, InvIsInvariant, PTL

(***************************************************************************)
(* And a call without an error has missed nothing that was there all the   *)
(* time, but for snapshots when one was removed between two pages and for  *)
(* records behind the first page.                                          *)
(***************************************************************************)
THEOREM NothingThatStayedIsMissed == Spec => []NothingMissed
<1>1. IInv => NothingMissed
  BY InvariantImplies
<1>2. QED
  BY <1>1, InvIsInvariant, PTL
=============================================================================
