--------------------------- MODULE PtyProxyProofs ---------------------------
(***************************************************************************)
(* The server's side of a terminal returns with no connection open, ends   *)
(* its copies only when one of them has ended by itself, and is not stuck  *)
(* on its channel.                                                         *)
(***************************************************************************)
EXTENDS PtyProxy, TLAPS

SomeSent == \E s \in Sides : copy[s] = "sent"

\* Why ReturnsClean holds: nothing is attached before there is something to copy, a result
\* in the channel, or taken from it, comes from a copy that has sent it, and the connection
\* to the sandbox is closed before the handler comes to the browser's.
ClosesInOrder ==
  /\ pc \in {"probe", "create", "dial"} =>
       conn["sandbox"] = "none" /\ \A s \in Sides : copy[s] = "none"
  /\ results > 0 => SomeSent
  /\ cancelled => SomeSent
  /\ pc \in {"cancel", "close sandbox", "close browser"} => SomeSent
  /\ pc \in {"close browser", "returned"} => conn["sandbox"] # "open"
  /\ pc = "returned" => conn["browser"] # "open"

\* Why NothingIsStuck holds: a copy sends once, so that the results in the channel and the
\* one that the handler has taken are those of the copies that have sent theirs.
One(condition) == IF condition THEN 1 ELSE 0

Attached == copy["browser"] # "none"

Taken == pc \in {"cancel", "close sandbox", "close browser"} \/ (pc = "returned" /\ Attached)

ResultsAreCounted ==
  /\ results + One(Taken) = One(copy["browser"] = "sent") + One(copy["sandbox"] = "sent")
  /\ copy["sandbox"] # "none" <=> Attached
  /\ pc \in {"close sandbox", "close browser", "returned"} /\ Attached => cancelled

IInv == TypeOK /\ ClosesInOrder /\ ResultsAreCounted

LEMMA OneMore == ASSUME NEW n \in 0 .. 2, n < 2 PROVE n + 1 \in 0 .. 2
  OBVIOUS

LEMMA OneLess == ASSUME NEW n \in 0 .. 2, n > 0 PROVE n - 1 \in 0 .. 2
  OBVIOUS

LEMMA Balance ==
  ASSUME NEW n \in 0 .. 2, NEW taken \in {0, 1}, NEW a \in {0, 1}, NEW b \in {0, 1},
         n + taken = a + b
  PROVE  /\ a = 0 \/ b = 0 => n < 2
         /\ taken = 0 /\ (a = 1 \/ b = 1) => n > 0
         /\ taken = 0 => (n - 1) + 1 = a + b
         /\ a = 0 => (n + 1) + taken = 1 + b
         /\ b = 0 => (n + 1) + taken = a + 1
  OBVIOUS

LEMMA OneCounts == ASSUME NEW condition PROVE One(condition) \in {0, 1}
  BY DEF One

LEMMA InitEstablishesInv == Init => IInv
<1> SUFFICES ASSUME Init
             PROVE  IInv
  OBVIOUS
<1>1. results \in 0 .. 2 /\ ~(results > 0)
  BY DEF Init
<1>2. TypeOK
  BY <1>1 DEF Init, TypeOK, Sides
<1>3. ClosesInOrder
  BY <1>1 DEF Init, ClosesInOrder, Sides
<1>4. ResultsAreCounted
  BY DEF Init, ResultsAreCounted, One, Attached, Taken, Sides
<1>5. QED
  BY <1>2, <1>3, <1>4 DEF IInv

LEMMA InvImpliesNothingIsStuck == IInv => NothingIsStuck
<1> SUFFICES ASSUME IInv
             PROVE  NothingIsStuck
  OBVIOUS
<1>1. /\ results \in 0 .. 2
      /\ results + One(Taken) = One(copy["browser"] = "sent") + One(copy["sandbox"] = "sent")
  BY DEF IInv, TypeOK, ResultsAreCounted
<1>2. ASSUME NEW s \in Sides, copy[s] = "ended"
      PROVE  Room
  <2>1. One(copy["browser"] = "sent") = 0 \/ One(copy["sandbox"] = "sent") = 0
    BY <1>2 DEF One, Sides
  <2>2. QED
    BY <1>1, <2>1, OneCounts, Balance DEF Room
<1>3. ASSUME pc = "proxy", SomeSent
      PROVE  results > 0
  <2>1. One(copy["browser"] = "sent") = 1 \/ One(copy["sandbox"] = "sent") = 1
    BY <1>3 DEF One, SomeSent, Sides
  <2>2. One(Taken) = 0
    BY <1>3 DEF One, Taken
  <2>3. QED
    BY <1>1, <2>1, <2>2, OneCounts, Balance
<1>4. QED
  BY <1>2, <1>3 DEF IInv, ResultsAreCounted, Attached, SomeSent, NothingIsStuck

LEMMA InvImpliesProxyInv == IInv => ProxyInv
<1> SUFFICES ASSUME IInv
             PROVE  ReturnsClean
  BY InvImpliesNothingIsStuck DEF IInv, ProxyInv
<1>1. pc = "returned" => \A s \in Sides : conn[s] # "open"
  BY DEF IInv, ClosesInOrder, Sides
<1>2. pc \notin {"proxy", "returned"} /\ copy["browser"] # "none" => SomeSent
  <2>1. pc \in {"probe", "create", "dial"} => copy["browser"] = "none"
    BY DEF IInv, ClosesInOrder, Sides
  <2>2. pc \in {"cancel", "close sandbox", "close browser"} => SomeSent
    BY DEF IInv, ClosesInOrder
  <2>3. pc \in {"probe", "create", "dial", "proxy", "cancel", "close sandbox", "close browser",
                "returned"}
    BY DEF IInv, TypeOK
  <2>4. QED
    BY <2>1, <2>2, <2>3
<1>3. QED
  BY <1>1, <1>2 DEF IInv, ClosesInOrder, SomeSent, ReturnsClean

LEMMA OpeningPreservesInv == IInv /\ Opening => IInv'
<1> SUFFICES ASSUME IInv, Opening
             PROVE  IInv'
  OBVIOUS
<1>1. CASE \E from \in {"probe", "create", "dial"} : SendTerminalError(from)
  <2>1. pc \in {"probe", "create", "dial"} /\ pc' = "returned"
    BY <1>1 DEF SendTerminalError, Goes
  <2>2. conn' = [conn EXCEPT !["browser"] = "closed"]
    BY <1>1 DEF SendTerminalError
  <2>3. UNCHANGED <<peer, copy, results, cancelled>>
    BY <1>1 DEF SendTerminalError
  <2>4. TypeOK'
    BY <2>1, <2>2, <2>3 DEF IInv, TypeOK
  <2>5. ClosesInOrder'
    BY <2>1, <2>2, <2>3 DEF IInv, TypeOK, ClosesInOrder, SomeSent, Sides
  <2>6. ResultsAreCounted'
    BY <2>1, <2>2, <2>3
    DEF IInv, ClosesInOrder, ResultsAreCounted, One, Attached, Taken, Sides
  <2>7. QED
    BY <2>4, <2>5, <2>6 DEF IInv
<1>2. CASE ProbePasses \/ CreateSession
  <2>1. pc' \in {"create", "dial"} /\ pc \in {"probe", "create"}
    BY <1>2 DEF ProbePasses, CreateSession, Goes
  <2>2. UNCHANGED <<conn, peer, copy, results, cancelled>>
    BY <1>2 DEF ProbePasses, CreateSession
  <2>3. TypeOK'
    BY <2>1, <2>2 DEF IInv, TypeOK
  <2>4. ClosesInOrder'
    BY <2>1, <2>2 DEF IInv, ClosesInOrder, SomeSent
  <2>5. ResultsAreCounted'
    BY <2>1, <2>2 DEF IInv, ResultsAreCounted, One, Attached, Taken
  <2>6. QED
    BY <2>3, <2>4, <2>5 DEF IInv
<1>3. CASE Attach
  <2>1. TypeOK' /\ ClosesInOrder'
    BY <1>3 DEF IInv, TypeOK, ClosesInOrder, SomeSent, Sides, Attach, Goes
  <2>2. ResultsAreCounted'
    BY <1>3
    DEF IInv, TypeOK, ClosesInOrder, ResultsAreCounted, One, Attached, Taken, Sides, Attach,
        Goes
  <2>3. QED
    BY <2>1, <2>2 DEF IInv
<1>4. QED
  BY <1>1, <1>2, <1>3 DEF Opening

LEMMA CopyPreservesInv == ASSUME NEW s \in Sides PROVE IInv /\ Copy(s) => IInv'
<1> SUFFICES ASSUME IInv, Copy(s)
             PROVE  IInv'
  OBVIOUS
<1>1. CASE Read(s) \/ Write(s)
  <2>1. copy[s] \in {"read", "write"} /\ UNCHANGED <<pc, conn, peer, results, cancelled>>
    BY <1>1 DEF Read, Write, Copies
  <2>2. \E to \in {"read", "write"} : copy' = [copy EXCEPT ![s] = to]
    BY <1>1 DEF Read, Write, Copies
  <2>3. TypeOK'
    BY <2>1, <2>2 DEF IInv, TypeOK
  <2>4. SomeSent => SomeSent'
    BY <2>1, <2>2 DEF IInv, TypeOK, SomeSent
  <2>5. pc \notin {"probe", "create", "dial"}
    BY <2>1 DEF IInv, ClosesInOrder
  <2>6. ClosesInOrder'
    BY <2>1, <2>4, <2>5 DEF IInv, ClosesInOrder
  <2>7. ResultsAreCounted'
    BY <2>1, <2>2 DEF IInv, TypeOK, ResultsAreCounted, One, Attached, Taken, Sides
  <2>8. QED
    BY <2>3, <2>6, <2>7 DEF IInv
<1>2. CASE CopyEnds(s)
  <2>1. PICK t \in Sides :
          /\ copy[s] \in {"read", "write"}
          /\ copy' = [copy EXCEPT ![s] = "ended"]
          /\ conn' = [conn EXCEPT ![t] = "closed"]
          /\ UNCHANGED <<pc, peer, results, cancelled>>
    BY <1>2 DEF CopyEnds, Copies
  <2>2. TypeOK' /\ ClosesInOrder'
    BY <2>1 DEF IInv, TypeOK, ClosesInOrder, SomeSent, Sides
  <2>3. ResultsAreCounted'
    BY <2>1 DEF IInv, TypeOK, ResultsAreCounted, One, Attached, Taken, Sides
  <2>4. QED
    BY <2>2, <2>3 DEF IInv
<1>3. CASE TooLarge(s)
  <2>1. TypeOK' /\ ClosesInOrder'
    BY <1>3 DEF IInv, TypeOK, ClosesInOrder, SomeSent, Sides, TooLarge, Copies
  <2>2. ResultsAreCounted'
    BY <1>3
    DEF IInv, TypeOK, ResultsAreCounted, One, Attached, Taken, Sides, TooLarge, Copies
  <2>3. QED
    BY <2>1, <2>2 DEF IInv
<1>4. CASE Send(s)
  <2>1. results' \in 0 .. 2
    BY <1>4, OneMore DEF IInv, TypeOK, Send, Room
  <2>2. copy'[s] = "sent"
    BY <1>4 DEF IInv, TypeOK, Send, Copies
  <2>3. copy[s] = "ended" /\ UNCHANGED <<pc, conn, peer, cancelled>>
    BY <1>4 DEF Send, Copies
  <2>4. TypeOK'
    BY <1>4, <2>1, <2>3 DEF IInv, TypeOK, Send, Copies
  <2>5. ClosesInOrder'
    BY <2>2, <2>3 DEF IInv, ClosesInOrder, SomeSent
  <2>6. ResultsAreCounted'
    <3>1. copy' = [copy EXCEPT ![s] = "sent"] /\ results' = results + 1
      BY <1>4 DEF Send, Copies
    <3>2. One(Taken)' = One(Taken) /\ Attached /\ Attached' /\ copy'["sandbox"] # "none"
      BY <2>3, <3>1 DEF IInv, TypeOK, ResultsAreCounted, Taken, Attached, Sides
    <3>3. /\ results \in 0 .. 2
          /\ results + One(Taken) = One(copy["browser"] = "sent") + One(copy["sandbox"] = "sent")
      BY DEF IInv, TypeOK, ResultsAreCounted
    <3>4. CASE s = "browser"
      <4>1. /\ One(copy["browser"] = "sent") = 0 /\ One(copy["browser"] = "sent")' = 1
            /\ UNCHANGED One(copy["sandbox"] = "sent")
        BY <2>3, <3>1, <3>4 DEF IInv, TypeOK, One, Sides
      <4>2. (results + 1) + One(Taken) = 1 + One(copy["sandbox"] = "sent")
        BY <3>3, <4>1, OneCounts, Balance
      <4>3. QED
        BY <2>3, <3>1, <3>2, <4>1, <4>2 DEF IInv, ResultsAreCounted
    <3>5. CASE s = "sandbox"
      <4>1. /\ One(copy["sandbox"] = "sent") = 0 /\ One(copy["sandbox"] = "sent")' = 1
            /\ UNCHANGED One(copy["browser"] = "sent")
        BY <2>3, <3>1, <3>5 DEF IInv, TypeOK, One, Sides
      <4>2. (results + 1) + One(Taken) = One(copy["browser"] = "sent") + 1
        BY <3>3, <4>1, OneCounts, Balance
      <4>3. QED
        BY <2>3, <3>1, <3>2, <4>1, <4>2 DEF IInv, ResultsAreCounted
    <3>6. QED
      BY <3>4, <3>5 DEF Sides
  <2>7. QED
    BY <2>4, <2>5, <2>6 DEF IInv
<1>5. QED
  BY <1>1, <1>2, <1>3, <1>4 DEF Copy

LEMMA EndingPreservesInv == IInv /\ Ending => IInv'
<1> SUFFICES ASSUME IInv, Ending
             PROVE  IInv'
  OBVIOUS
<1>1. CASE Receive
  <2>1. results' \in 0 .. 2 /\ SomeSent
    BY <1>1, OneLess DEF IInv, TypeOK, ClosesInOrder, Receive
  <2>2. pc' = "cancel" /\ UNCHANGED <<conn, peer, copy, cancelled>>
    BY <1>1 DEF Receive, Goes
  <2>3. TypeOK' /\ ClosesInOrder'
    BY <2>1, <2>2 DEF IInv, TypeOK, ClosesInOrder, SomeSent
  <2>4. ResultsAreCounted'
    <3>1. pc = "proxy" /\ results' = results - 1
      BY <1>1 DEF Receive, Goes
    <3>2. One(Taken) = 0 /\ One(Taken)' = 1
      BY <2>2, <3>1 DEF One, Taken
    <3>3. UNCHANGED <<One(copy["browser"] = "sent"), One(copy["sandbox"] = "sent"), Attached>>
      BY <2>2 DEF Attached
    <3>4. /\ results \in 0 .. 2
          /\ results + One(Taken) = One(copy["browser"] = "sent") + One(copy["sandbox"] = "sent")
      BY DEF IInv, TypeOK, ResultsAreCounted
    <3>5. (results - 1) + 1 = One(copy["browser"] = "sent") + One(copy["sandbox"] = "sent")
      BY <3>2, <3>4, OneCounts, Balance
    <3>6. QED
      BY <2>2, <3>1, <3>2, <3>3, <3>5 DEF IInv, ResultsAreCounted
  <2>5. QED
    BY <2>3, <2>4 DEF IInv
<1>2. CASE Cancel
  <2>1. TypeOK' /\ ClosesInOrder'
    BY <1>2 DEF IInv, TypeOK, ClosesInOrder, SomeSent, Cancel, Goes
  <2>2. ResultsAreCounted'
    BY <1>2 DEF IInv, ResultsAreCounted, One, Attached, Taken, Cancel, Goes
  <2>3. QED
    BY <2>1, <2>2 DEF IInv
<1>3. CASE CloseSandbox
  <2>1. TypeOK' /\ ClosesInOrder'
    BY <1>3 DEF IInv, TypeOK, ClosesInOrder, SomeSent, Sides, CloseSandbox, Goes
  <2>2. ResultsAreCounted'
    BY <1>3 DEF IInv, ResultsAreCounted, One, Attached, Taken, CloseSandbox, Goes
  <2>3. QED
    BY <2>1, <2>2 DEF IInv
<1>4. CASE CloseBrowser
  <2>1. TypeOK' /\ ClosesInOrder'
    BY <1>4 DEF IInv, TypeOK, ClosesInOrder, SomeSent, Sides, CloseBrowser, Goes
  <2>2. Attached
    BY <1>4 DEF IInv, ClosesInOrder, ResultsAreCounted, SomeSent, Attached, Sides,
       CloseBrowser, Goes
  <2>3. ResultsAreCounted'
    BY <1>4, <2>2 DEF IInv, ResultsAreCounted, One, Attached, Taken, CloseBrowser, Goes
  <2>4. QED
    BY <2>1, <2>3 DEF IInv
<1>5. QED
  BY <1>1, <1>2, <1>3, <1>4 DEF Ending

LEMMA NextPreservesInv == IInv /\ [Next]_vars => IInv'
<1> SUFFICES ASSUME IInv, [Next]_vars
             PROVE  IInv'
  OBVIOUS
<1>1. ASSUME NEW s \in Sides, PeerGoes(s)
      PROVE  IInv'
  <2>1. TypeOK' /\ ClosesInOrder'
    BY <1>1 DEF IInv, TypeOK, ClosesInOrder, SomeSent, Sides, PeerGoes
  <2>2. ResultsAreCounted'
    BY <1>1 DEF IInv, ResultsAreCounted, One, Attached, Taken, PeerGoes
  <2>3. QED
    BY <2>1, <2>2 DEF IInv
<1>2. CASE UNCHANGED vars
  BY <1>2
  DEF IInv, TypeOK, ClosesInOrder, ResultsAreCounted, One, Attached, Taken, SomeSent, Sides,
      vars
<1>3. QED
  BY <1>1, <1>2, OpeningPreservesInv, CopyPreservesInv, EndingPreservesInv DEF Next

(***************************************************************************)
(* Whenever either side leaves or vanishes, the handler returns with both  *)
(* connections closed, and has cancelled the copies only after one of them *)
(* had ended by itself.  Neither it nor a copy that has ended ever waits   *)
(* for the channel in vain.                                                *)
(***************************************************************************)
THEOREM ReturnsWithNothingOpen == Spec => []ProxyInv
  BY InitEstablishesInv, NextPreservesInv, InvImpliesProxyInv, PTL DEF Spec
=============================================================================
