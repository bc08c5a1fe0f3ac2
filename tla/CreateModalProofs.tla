-------------------------- MODULE CreateModalProofs --------------------------
(***************************************************************************)
(* However often the dialog is opened: what it shows belongs to the        *)
(* opening it is shown for, it can be opened again, and a deployment is    *)
(* sent without an image, each but for what the properties name.           *)
(***************************************************************************)
EXTENDS CreateModal, TLAPS

Busy == request # NoRequest \/ polls # {}

\* Why DialogStaysUsable holds: a deployment that is under way when the form is set up for
\* an image, or when there is no dialog, was abandoned.
OnlyAbandonedIsMisplaced ==
  /\ ~place => abandoned
  /\ request.mode = "deploy" /\ (mode = "image" \/ ~open) => abandoned

\* Why ShowsItsOwn and InputFitsMode hold: all that is under way belongs to this opening,
\* and what htmx has disabled for it is what the mode had not disabled already.
AllIsItsOwn ==
  /\ open => opening \in Openings
  /\ imageMarked => Busy
  /\ open /\ ~crossed =>
       /\ request # NoRequest => request.of = opening
       /\ \A p \in polls : p.of = opening
       /\ imageMarked <=> mode = "image" /\ Busy

IInv ==
  /\ TypeOK
  /\ ShowsItsOwn
  /\ InputFitsMode
  /\ WaitingResultAsks
  /\ OnlyAbandonedIsMisplaced
  /\ AllIsItsOwn

-----------------------------------------------------------------------------
(* Types.                                                                  *)

LEMMA CountUp == ASSUME NEW n \in Nat PROVE n + 1 \in Nat
  OBVIOUS

LEMMA CountDown == ASSUME NEW n \in Nat, n > 0 PROVE n - 1 \in Nat
  OBVIOUS

LEMMA OneMoreOpening ==
  ASSUME MaxOpenings \in Nat, NEW n \in 0 .. MaxOpenings, n < MaxOpenings
  PROVE  n + 1 \in 1 .. MaxOpenings
  OBVIOUS

LEMMA OpeningsAreCounts ==
  ASSUME MaxOpenings \in Nat
  PROVE  /\ 0 \in 0 .. MaxOpenings /\ 0 \notin Openings
         /\ Openings \subseteq 0 .. MaxOpenings
         /\ \A n \in 0 .. MaxOpenings : n # 0 => n \in Openings
  BY DEF Openings

ResultsOf == [of : 0 .. MaxOpenings, says : Says, asked : BOOLEAN]
Icons     == [of : 0 .. MaxOpenings, says : Says]
Polls     == [of : Openings, says : Says \cup {"asked"}]

LEMMA NothingYet == NoResult \in ResultsOf /\ ModeIcon \in Icons
  BY CreateModalAssumption, OpeningsAreCounts
  DEF CreateModalAssumption, NoResult, ModeIcon, ResultsOf, Icons, Says

LEMMA RequestIsOfAnOpening ==
  ASSUME TypeOK, request # NoRequest
  PROVE  request \in Requests /\ request.of \in Openings /\ request.of \in 0 .. MaxOpenings
  BY CreateModalAssumption, OpeningsAreCounts DEF CreateModalAssumption, TypeOK, Requests

LEMMA OpenPreservesType ==
  ASSUME TypeOK, NEW m \in Modes, Open(m)
  PROVE  TypeOK' /\ opening' \in Openings
<1>1. ModalTypeOK'
  BY DEF Open, ShowModal, TypeOK, ModalTypeOK, Values
<1>2. opening' \in 0 .. MaxOpenings /\ opening' \in Openings
  BY CreateModalAssumption, OneMoreOpening, OpeningsAreCounts
  DEF CreateModalAssumption, Open, TypeOK, Openings
<1>3. mode' \in Modes /\ imageDisabled' \in BOOLEAN /\ icon' \in Icons /\ result' \in ResultsOf
  BY NothingYet DEF Open, SetMode
<1>4. error' \in 0 .. MaxOpenings /\ crossed' \in BOOLEAN
  BY CreateModalAssumption, OpeningsAreCounts DEF CreateModalAssumption, Open
<1>5. UNCHANGED <<imageMarked, request, place, polls, sandbox, abandoned, lost>>
  BY DEF Open
<1>6. QED
  BY <1>1, <1>2, <1>3, <1>4, <1>5 DEF TypeOK, Icons, ResultsOf

LEMMA SubmitPreservesType ==
  ASSUME TypeOK, open => opening \in Openings, Submit
  PROVE  TypeOK'
<1>1. request' \in Requests
  BY DEF Submit, TypeOK, Requests, Modes
<1>2. error' \in 0 .. MaxOpenings
  BY CreateModalAssumption, OpeningsAreCounts DEF CreateModalAssumption, Submit
<1>3. imageDisabled' \in BOOLEAN /\ imageMarked' \in BOOLEAN
  BY DEF Submit, Disable, TypeOK
<1>4. UNCHANGED <<modal, opening, mode, place, result, icon, polls, sandbox, history>>
  BY DEF Submit
<1>5. QED
  BY <1>1, <1>2, <1>3, <1>4 DEF TypeOK, ModalTypeOK, modal, history

LEMMA ModalPreservesType ==
  ASSUME TypeOK,
         \/ Leave
         \/ Close(CloseAtOnce)
         \/ Close(FinishClose)
  PROVE  TypeOK'
<1>1. CASE Leave
  <2>1. ModalTypeOK'
    BY <1>1, CountUp DEF Leave, Dismiss, TypeOK, ModalTypeOK, Values
  <2>2. QED
    BY <1>1, <2>1 DEF Leave, TypeOK, form, answers, history
<1>2. ASSUME Close(CloseAtOnce) \/ Close(FinishClose)
      PROVE  TypeOK'
  <2>1. ModalTypeOK'
    BY <1>2, CountDown DEF Close, CloseAtOnce, FinishClose, TypeOK, ModalTypeOK
  <2>2. /\ mode' \in Modes /\ imageDisabled' \in BOOLEAN
        /\ icon' \in Icons /\ result' \in ResultsOf
    BY <1>2, NothingYet DEF Close, SetMode, TypeOK, Modes, Icons, ResultsOf
  <2>3. error' \in 0 .. MaxOpenings
    BY <1>2, CreateModalAssumption, OpeningsAreCounts DEF CreateModalAssumption, Close, TypeOK
  <2>4. abandoned' \in BOOLEAN
    BY <1>2 DEF Close, TypeOK
  <2>5. UNCHANGED <<opening, imageMarked, request, place, polls, sandbox, crossed, lost>>
    BY <1>2 DEF Close
  <2>6. QED
    BY <2>1, <2>2, <2>3, <2>4, <2>5 DEF TypeOK, Icons, ResultsOf
<1>3. QED
  BY <1>1, <1>2

LEMMA AnswerPreservesType ==
  ASSUME TypeOK, Answer
  PROVE  TypeOK'
<1>1. /\ request' = NoRequest
      /\ imageDisabled' \in BOOLEAN /\ imageMarked' \in BOOLEAN
  BY DEF Answer, Accepted, Deployed, Refused, AnswerLost, Answered, Enable, TypeOK
<1>2. request # NoRequest
  BY DEF Answer, Accepted, Deployed, Refused, AnswerLost, Answered
<1>3. CASE Accepted
  <2>1. ModalTypeOK'
    BY <1>3, CountUp DEF Accepted, Dismiss, TypeOK, ModalTypeOK, Values, modal
  <2>2. QED
    BY <1>1, <1>3, <2>1 DEF Accepted, TypeOK, answers, history
<1>4. ASSUME NEW says \in Says, Deployed(says)
      PROVE  TypeOK'
  <2>1. result' \in ResultsOf /\ icon' \in Icons
    BY <1>2, <1>4, RequestIsOfAnOpening DEF Deployed, ResultsOf, Icons
  <2>2. place' \in BOOLEAN /\ sandbox' \in [Openings -> Says]
    BY <1>4 DEF Deployed, TypeOK
  <2>3. UNCHANGED <<modal, opening, mode, error, polls, history>>
    BY <1>4 DEF Deployed
  <2>4. QED
    BY <1>1, <2>1, <2>2, <2>3 DEF TypeOK, ModalTypeOK, Icons, ResultsOf, modal, history
<1>5. CASE Refused
  <2>1. error' \in 0 .. MaxOpenings
    BY <1>2, <1>5, RequestIsOfAnOpening DEF Refused
  <2>2. UNCHANGED <<modal, opening, mode, place, result, icon, polls, sandbox, history>>
    BY <1>5 DEF Refused
  <2>3. QED
    BY <1>1, <2>1, <2>2 DEF TypeOK, ModalTypeOK, modal, history
<1>6. CASE AnswerLost
  BY <1>1, <1>6 DEF AnswerLost, TypeOK, ModalTypeOK, modal, answers, history
<1>7. QED
  BY <1>3, <1>4, <1>5, <1>6 DEF Answer

LEMMA StatusPreservesType ==
  ASSUME TypeOK, Poll \/ Status \/ \E o \in Openings : SandboxMoves(o)
  PROVE  TypeOK'
<1>1. CASE Poll
  <2>1. result.of \in Openings /\ result' \in ResultsOf
    <3>1. result \in ResultsOf /\ result.of # 0
      BY <1>1 DEF Poll, TypeOK, ResultsOf
    <3>2. result.of \in 0 .. MaxOpenings
      BY <3>1 DEF ResultsOf
    <3>3. result.of \in Openings
      BY <3>1, <3>2, CreateModalAssumption, OpeningsAreCounts DEF CreateModalAssumption
    <3>4. [result EXCEPT !.asked = TRUE] \in ResultsOf
      BY <3>1 DEF ResultsOf
    <3>5. QED
      BY <1>1, <3>3, <3>4 DEF Poll
  <2>2. polls' \subseteq Polls
    BY <1>1, <2>1 DEF Poll, TypeOK, Polls
  <2>3. imageDisabled' \in BOOLEAN /\ imageMarked' \in BOOLEAN
    BY <1>1 DEF Poll, Disable, TypeOK
  <2>4. UNCHANGED <<modal, opening, mode, request, place, icon, error, sandbox, history>>
    BY <1>1 DEF Poll
  <2>5. QED
    BY <2>1, <2>2, <2>3, <2>4 DEF TypeOK, ModalTypeOK, ResultsOf, Polls, modal, history
<1>2. ASSUME NEW o \in Openings, StatusRead(o) \/ StatusUnknown(o)
      PROVE  TypeOK'
  <2>1. sandbox[o] \in Says /\ "waiting" \in Says
    BY DEF TypeOK, Says
  <2>2. polls' \subseteq Polls
    BY <1>2, <2>1 DEF StatusRead, StatusUnknown, Reads, TypeOK, Polls
  <2>3. QED
    BY <1>2, <2>2
    DEF StatusRead, StatusUnknown, Reads, TypeOK, ModalTypeOK, Polls, modal, form, answers, history
<1>3. ASSUME NEW p \in polls, StatusTold(p) \/ StatusLost(p)
      PROVE  TypeOK'
  <2>1. p \in Polls /\ p.of \in 0 .. MaxOpenings
    BY CreateModalAssumption, OpeningsAreCounts DEF CreateModalAssumption, TypeOK, Polls
  <2>2. p.says # "asked" => p \in Icons /\ [of |-> p.of, says |-> p.says, asked |-> FALSE] \in ResultsOf
    BY <2>1 DEF Polls, Icons, ResultsOf
  <2>3. icon' \in Icons /\ result' \in ResultsOf
    BY <1>3, <2>2 DEF StatusTold, StatusLost, TypeOK, Icons, ResultsOf
  <2>4. imageDisabled' \in BOOLEAN /\ imageMarked' \in BOOLEAN
    BY <1>3 DEF StatusTold, StatusLost, PollEnds, Enable, TypeOK
  <2>5. lost' \subseteq Openings /\ polls' \subseteq Polls
    BY <1>3, <2>1 DEF StatusTold, StatusLost, PollEnds, TypeOK, Polls
  <2>6. UNCHANGED <<modal, opening, mode, request, place, error, sandbox, crossed, abandoned>>
    BY <1>3 DEF StatusTold, StatusLost, PollEnds
  <2>7. QED
    BY <2>3, <2>4, <2>5, <2>6 DEF TypeOK, ModalTypeOK, Icons, ResultsOf, Polls, modal
<1>4. ASSUME NEW o \in Openings, SandboxMoves(o)
      PROVE  TypeOK'
  BY <1>4 DEF SandboxMoves, TypeOK, ModalTypeOK, modal, form, answers, history
<1>5. QED
  BY <1>1, <1>2, <1>3, <1>4 DEF Status

LEMMA NextPreservesType ==
  ASSUME TypeOK, open => opening \in Openings, [Next]_vars
  PROVE  TypeOK'
<1>1. CASE UNCHANGED vars
  BY <1>1 DEF vars, TypeOK, ModalTypeOK, modal
<1>2. QED
  BY <1>1, OpenPreservesType, SubmitPreservesType, ModalPreservesType, AnswerPreservesType,
     StatusPreservesType DEF Next, User

-----------------------------------------------------------------------------
(* The dialog that can be opened again.                                    *)

LEMMA NextPreservesMisplaced ==
  ASSUME OnlyAbandonedIsMisplaced, TypeOK, [Next]_vars
  PROVE  OnlyAbandonedIsMisplaced'
<1>0. NoRequest.mode = "image"
  BY DEF NoRequest
<1>1. ASSUME NEW m \in Modes, Open(m)
      PROVE  OnlyAbandonedIsMisplaced'
  BY <1>1 DEF Open, ShowModal, OnlyAbandonedIsMisplaced
<1>2. CASE Submit
  BY <1>2 DEF Submit, OnlyAbandonedIsMisplaced, modal, history
<1>3. CASE Leave
  BY <1>3 DEF Leave, Dismiss, OnlyAbandonedIsMisplaced, form, answers, history
<1>4. CASE Close(CloseAtOnce) \/ Close(FinishClose)
  <2>1. open' = FALSE /\ UNCHANGED <<place, request>>
    BY <1>4 DEF Close, CloseAtOnce, FinishClose
  <2>2. abandoned' = (abandoned \/ (open /\ request.mode = "deploy"))
    BY <1>4, <2>1 DEF Close, Closes
  <2>3. QED
    BY <2>1, <2>2 DEF OnlyAbandonedIsMisplaced
<1>5. CASE Accepted
  BY <1>0, <1>5 DEF Accepted, Answered, OnlyAbandonedIsMisplaced, answers, history
<1>6. ASSUME NEW says \in Says, Deployed(says)
      PROVE  OnlyAbandonedIsMisplaced'
  <2>1. request.mode = "deploy" /\ request' = NoRequest /\ UNCHANGED <<mode, abandoned>>
    BY <1>6 DEF Deployed, Answered, history
  <2>2. place' = (mode = "deploy")
    BY <1>6 DEF Deployed, SwapStyle
  <2>3. mode = "image" \/ mode = "deploy"
    BY DEF TypeOK, Modes
  <2>4. QED
    BY <1>0, <2>1, <2>2, <2>3 DEF OnlyAbandonedIsMisplaced
<1>7. CASE Refused \/ AnswerLost
  BY <1>0, <1>7 DEF Refused, AnswerLost, Answered, OnlyAbandonedIsMisplaced, answers, history
<1>8. CASE Poll \/ Status
  BY <1>8 DEF Poll, Status, StatusRead, StatusUnknown, Reads, StatusTold, StatusLost, PollEnds,
     OnlyAbandonedIsMisplaced, modal, form, answers, history
<1>9. CASE (\E o \in Openings : SandboxMoves(o)) \/ UNCHANGED vars
  BY <1>9 DEF SandboxMoves, vars, OnlyAbandonedIsMisplaced, modal, form, answers, history
<1>10. QED
  BY <1>1, <1>2, <1>3, <1>4, <1>5, <1>6, <1>7, <1>8, <1>9 DEF Next, User, Answer

-----------------------------------------------------------------------------
(* The form and what is under way.                                         *)

Own == InputFitsMode /\ AllIsItsOwn

LEMMA OpenPreservesOwn ==
  ASSUME TypeOK, Own, NEW m \in Modes, Open(m)
  PROVE  Own'
<1>1. opening' \in Openings
  BY OpenPreservesType
<1>2. crossed' = Busy /\ UNCHANGED <<imageMarked, request, polls>>
  BY DEF Open, Busy
<1>3. mode' = m /\ imageDisabled' = (m = "deploy")
  BY DEF Open, SetMode
<1>4. ~crossed' => request' = NoRequest /\ polls' = {} /\ ~Busy' /\ ~imageMarked'
  <2>1. ~Busy => request = NoRequest /\ polls = {} /\ ~imageMarked
    BY DEF Busy, Own, AllIsItsOwn
  <2>2. QED
    BY <1>2, <2>1 DEF Busy
<1>5. imageMarked' => Busy'
  BY <1>2 DEF Own, AllIsItsOwn, Busy
<1>6. AllIsItsOwn'
  BY <1>1, <1>4, <1>5 DEF AllIsItsOwn
<1>7. InputFitsMode'
  BY <1>3, <1>4 DEF InputFitsMode
<1>8. QED
  BY <1>6, <1>7 DEF Own

\* Whatever goes out disables the form.
LEMMA DisablePreservesOwn ==
  ASSUME TypeOK, Own, Disable, Busy', UNCHANGED <<open, opening, mode, crossed>>,
         open /\ ~crossed => /\ request' # NoRequest => request'.of = opening
                             /\ \A p \in polls' : p.of = opening
  PROVE  Own'
<1>1. imageDisabled' = TRUE /\ imageMarked' = (imageMarked \/ ~imageDisabled)
  BY DEF Disable
<1>2. InputFitsMode'
  BY <1>1 DEF InputFitsMode, Busy
<1>3. open /\ ~crossed => (imageMarked' <=> mode = "image")
  BY <1>1 DEF TypeOK, Modes, Own, InputFitsMode, AllIsItsOwn, Busy
<1>4. AllIsItsOwn'
  BY <1>3 DEF Own, AllIsItsOwn
<1>5. QED
  BY <1>2, <1>4 DEF Own

\* Whatever comes back enables it, if nothing else is under way.
LEMMA EnablePreservesOwn ==
  ASSUME TypeOK, Own, Busy, Enable(~Busy'), UNCHANGED <<opening, mode, crossed>>,
         open' => open,
         open /\ ~crossed => /\ request' # NoRequest => request'.of = opening
                             /\ \A p \in polls' : p.of = opening
  PROVE  Own'
<1>1. /\ imageDisabled' = (imageDisabled /\ ~(~Busy' /\ imageMarked))
      /\ imageMarked' = (imageMarked /\ Busy')
  BY DEF Enable, TypeOK
<1>2. open /\ ~crossed => imageDisabled /\ (imageMarked <=> mode = "image")
  BY DEF Own, InputFitsMode, AllIsItsOwn, Busy
<1>3. open' /\ ~crossed => imageDisabled' = (mode = "deploy" \/ Busy')
  BY <1>1, <1>2 DEF TypeOK, Modes
<1>4. InputFitsMode'
  BY <1>3 DEF InputFitsMode, Busy
<1>5. AllIsItsOwn'
  BY <1>1, <1>2 DEF Own, AllIsItsOwn
<1>6. QED
  BY <1>4, <1>5 DEF Own

\* And what changes nothing of all this.
LEMMA IdlePreservesOwn ==
  ASSUME Own, UNCHANGED <<opening, mode, imageDisabled, imageMarked, request, crossed>>,
         Busy' <=> Busy, open' => open,
         open /\ ~crossed => \A p \in polls' : p.of = opening
  PROVE  Own'
<1>1. open' /\ ~crossed => imageDisabled' = (mode = "deploy" \/ Busy')
  BY DEF Own, InputFitsMode, Busy
<1>2. InputFitsMode'
  BY <1>1 DEF InputFitsMode, Busy
<1>3. AllIsItsOwn'
  BY DEF Own, AllIsItsOwn
<1>4. QED
  BY <1>2, <1>3 DEF Own

LEMMA NextPreservesOwn ==
  ASSUME TypeOK, ShowsItsOwn, Own, [Next]_vars
  PROVE  Own'
<1>0. open /\ ~crossed => /\ request # NoRequest => request.of = opening
                          /\ \A p \in polls : p.of = opening
  BY DEF Own, AllIsItsOwn
<1>1. ASSUME Submit
      PROVE  Own'
  <2>1. request'.of = opening /\ opening \in Openings /\ UNCHANGED polls /\ Disable
    BY <1>1 DEF Submit, Own, AllIsItsOwn
  <2>2. request' # NoRequest
    BY <2>1, CreateModalAssumption, OpeningsAreCounts DEF CreateModalAssumption, NoRequest
  <2>3. UNCHANGED <<open, opening, mode, crossed>>
    BY <1>1 DEF Submit, modal, history
  <2>4. QED
    BY <1>0, <2>1, <2>2, <2>3, DisablePreservesOwn DEF Busy
<1>2. ASSUME Poll
      PROVE  Own'
  <2>1. polls' = polls \cup {[of |-> result.of, says |-> "asked"]} /\ Disable
    BY <1>2 DEF Poll
  <2>2. UNCHANGED <<open, opening, mode, crossed, request>>
    BY <1>2 DEF Poll, modal, history
  <2>3. open /\ ~crossed => result.of = opening
    BY <1>2 DEF Poll, ShowsItsOwn
  <2>4. open /\ ~crossed => \A p \in polls' : p.of = opening
    BY <1>0, <2>1, <2>3
  <2>5. QED
    BY <1>0, <2>1, <2>2, <2>4, DisablePreservesOwn DEF Busy
<1>3. CASE Answer
  <2>1. request' = NoRequest /\ UNCHANGED polls /\ Busy
    BY <1>3 DEF Answer, Accepted, Deployed, Refused, AnswerLost, Answered, Busy
  <2>2. Enable(~Busy')
    BY <1>3, <2>1 DEF Answer, Accepted, Deployed, Refused, AnswerLost, Answered, Busy
  <2>3. UNCHANGED <<open, opening, mode, crossed>>
    BY <1>3
    DEF Answer, Accepted, Deployed, Refused, AnswerLost, Dismiss, modal, answers, history
  <2>4. QED
    BY <1>0, <2>1, <2>2, <2>3, EnablePreservesOwn
<1>4. ASSUME NEW p \in polls, StatusTold(p) \/ StatusLost(p)
      PROVE  Own'
  <2>1. polls' = polls \ {p} /\ UNCHANGED request
    BY <1>4 DEF StatusTold, StatusLost, PollEnds
  <2>2. Busy /\ (polls = {p} /\ request = NoRequest <=> ~Busy')
    BY <2>1 DEF Busy
  <2>3. Enable(~Busy')
    BY <1>4, <2>2 DEF StatusTold, StatusLost, PollEnds, Enable
  <2>4. UNCHANGED <<open, opening, mode, crossed>>
    BY <1>4 DEF StatusTold, StatusLost, PollEnds, modal
  <2>5. QED
    BY <1>0, <2>1, <2>2, <2>3, <2>4, EnablePreservesOwn
<1>5. ASSUME NEW o \in Openings, NEW says \in Says, Reads(o, says)
      PROVE  Own'
  <2>1. /\ [of |-> o, says |-> "asked"] \in polls
        /\ polls' = (polls \ {[of |-> o, says |-> "asked"]}) \cup {[of |-> o, says |-> says]}
        /\ UNCHANGED <<open, opening, mode, imageDisabled, imageMarked, request, crossed>>
    BY <1>5 DEF Reads, modal, form, history
  <2>2. Busy /\ Busy'
    BY <2>1 DEF Busy
  <2>3. open /\ ~crossed => \A p \in polls' : p.of = opening
    BY <1>0, <2>1
  <2>4. QED
    BY <2>1, <2>2, <2>3, IdlePreservesOwn
<1>6. CASE Close(CloseAtOnce) \/ Close(FinishClose)
  <2>1. open' = FALSE /\ UNCHANGED <<imageMarked, request, polls>>
    BY <1>6 DEF Close, CloseAtOnce, FinishClose
  <2>2. QED
    BY <2>1 DEF Own, InputFitsMode, AllIsItsOwn, Busy
<1>7. CASE Leave \/ (\E o \in Openings : SandboxMoves(o)) \/ UNCHANGED vars
  <2>1. UNCHANGED <<open, opening, mode, imageDisabled, imageMarked, request, crossed, polls>>
    BY <1>7 DEF Leave, Dismiss, SandboxMoves, vars, modal, form, history
  <2>2. QED
    BY <1>0, <2>1, IdlePreservesOwn DEF Busy
<1>8. ASSUME NEW o \in Openings, StatusRead(o) \/ StatusUnknown(o)
      PROVE  Own'
  <2>1. sandbox[o] \in Says /\ "waiting" \in Says
    BY DEF TypeOK, Says
  <2>2. QED
    BY <1>5, <1>8, <2>1 DEF StatusRead, StatusUnknown
<1>9. QED
  BY <1>1, <1>2, <1>3, <1>4, <1>6, <1>7, <1>8, OpenPreservesOwn DEF Next, User, Status

-----------------------------------------------------------------------------
(* What the dialog shows.                                                  *)

LEMMA NextPreservesShown ==
  ASSUME TypeOK, ShowsItsOwn, Own, [Next]_vars
  PROVE  ShowsItsOwn'
<1>1. ASSUME NEW m \in Modes, Open(m)
      PROVE  ShowsItsOwn'
  BY <1>1 DEF Open, SetMode, ShowsItsOwn, NoResult, ModeIcon
<1>2. CASE Submit
  BY <1>2 DEF Submit, ShowsItsOwn, modal, history
<1>3. CASE Close(CloseAtOnce) \/ Close(FinishClose)
  BY <1>3 DEF Close, CloseAtOnce, FinishClose, ShowsItsOwn
<1>4. CASE Leave \/ (\E o \in Openings : SandboxMoves(o)) \/ UNCHANGED vars
  BY <1>4 DEF Leave, Dismiss, SandboxMoves, vars, ShowsItsOwn, modal, answers, history
<1>5. CASE Accepted \/ AnswerLost
  BY <1>5 DEF Accepted, AnswerLost, Dismiss, ShowsItsOwn, modal, answers, history
<1>6. ASSUME NEW says \in Says, Deployed(says)
      PROVE  ShowsItsOwn'
  <2>1. request # NoRequest /\ UNCHANGED <<open, opening, crossed, error>>
    BY <1>6 DEF Deployed, Answered, modal, history
  <2>2. open /\ ~crossed => request.of = opening
    BY <2>1 DEF Own, AllIsItsOwn
  <2>3. result' = [of |-> request.of, says |-> says, asked |-> FALSE]
        /\ icon' = [of |-> request.of, says |-> says]
    BY <1>6 DEF Deployed
  <2>4. QED
    BY <2>1, <2>2, <2>3 DEF ShowsItsOwn
<1>7. CASE Refused
  <2>1. request # NoRequest /\ error' = request.of
        /\ UNCHANGED <<open, opening, crossed, result, icon>>
    BY <1>7 DEF Refused, Answered, modal, history
  <2>2. open /\ ~crossed => request.of = opening
    BY <2>1 DEF Own, AllIsItsOwn
  <2>3. QED
    BY <2>1, <2>2 DEF ShowsItsOwn
<1>8. CASE Poll
  <2>1. result'.of = result.of /\ result'.says = result.says
    BY <1>8 DEF Poll, TypeOK
  <2>2. UNCHANGED <<open, opening, crossed, icon, error>>
    BY <1>8 DEF Poll, modal, history
  <2>3. QED
    BY <2>1, <2>2 DEF ShowsItsOwn
<1>9. ASSUME NEW o \in Openings, StatusRead(o) \/ StatusUnknown(o)
      PROVE  ShowsItsOwn'
  BY <1>9 DEF StatusRead, StatusUnknown, Reads, ShowsItsOwn, modal, answers, history
<1>10. ASSUME NEW p \in polls, StatusTold(p)
       PROVE  ShowsItsOwn'
  <2>1. UNCHANGED <<open, opening, crossed, error>>
    BY <1>10 DEF StatusTold, PollEnds, modal
  <2>2. open /\ ~crossed => p.of = opening
    BY DEF Own, AllIsItsOwn
  <2>3. icon' = [of |-> p.of, says |-> p.says]
    BY <1>10 DEF StatusTold, TypeOK
  <2>4. result' = IF result.of = p.of THEN [of |-> p.of, says |-> p.says, asked |-> FALSE]
                                      ELSE result
    BY <1>10 DEF StatusTold
  <2>5. icon'.of = p.of /\ (result'.of = result.of)
    BY <2>3, <2>4
  <2>6. result.of = p.of => icon' = [of |-> result'.of, says |-> result'.says]
    BY <2>3, <2>4
  <2>7. open /\ ~crossed => result.of = 0 \/ result.of = p.of
    BY <2>2 DEF ShowsItsOwn
  <2>8. QED
    BY <2>1, <2>2, <2>5, <2>6, <2>7 DEF ShowsItsOwn
<1>11. ASSUME NEW p \in polls, StatusLost(p)
       PROVE  ShowsItsOwn'
  BY <1>11 DEF StatusLost, PollEnds, ShowsItsOwn, modal
<1>12. QED
  BY <1>1, <1>2, <1>3, <1>4, <1>5, <1>6, <1>7, <1>8, <1>9, <1>10, <1>11
  DEF Next, User, Answer, Status

-----------------------------------------------------------------------------
(* The result that waits.                                                  *)

LEMMA NextPreservesAsks ==
  ASSUME TypeOK, WaitingResultAsks, [Next]_vars
  PROVE  WaitingResultAsks'
<1>1. ASSUME NEW m \in Modes, Open(m)
      PROVE  WaitingResultAsks'
  BY <1>1 DEF Open, NoResult, WaitingResultAsks
<1>2. CASE Close(CloseAtOnce) \/ Close(FinishClose)
  BY <1>2 DEF Close, NoResult, WaitingResultAsks
<1>3. CASE Submit \/ Leave \/ (\E o \in Openings : SandboxMoves(o)) \/ UNCHANGED vars
  BY <1>3 DEF Submit, Leave, SandboxMoves, vars, answers, history, WaitingResultAsks
<1>4. CASE Accepted \/ Refused \/ AnswerLost
  BY <1>4 DEF Accepted, Refused, AnswerLost, answers, history, WaitingResultAsks
<1>5. ASSUME NEW says \in Says, Deployed(says)
      PROVE  WaitingResultAsks'
  BY <1>5 DEF Deployed, WaitingResultAsks
<1>6. CASE Poll
  <2>1. result'.of = result.of
    BY <1>6 DEF Poll, TypeOK
  <2>2. [of |-> result.of, says |-> "asked"] \in polls'
    BY <1>6 DEF Poll
  <2>3. \E p \in polls' : p.of = result.of
    BY <2>2
  <2>4. QED
    BY <2>1, <2>3 DEF WaitingResultAsks
<1>7. ASSUME NEW o \in Openings, StatusRead(o) \/ StatusUnknown(o)
      PROVE  WaitingResultAsks'
  <2>1. PICK says \in Says : Reads(o, says)
    BY <1>7 DEF StatusRead, StatusUnknown, TypeOK, Says
  <2>2. UNCHANGED <<result, lost>>
        /\ polls' = (polls \ {[of |-> o, says |-> "asked"]}) \cup {[of |-> o, says |-> says]}
    BY <2>1 DEF Reads, answers, history
  <2>3. ASSUME NEW p \in polls
        PROVE  \E q \in polls' : q.of = p.of
    <3>1. CASE p = [of |-> o, says |-> "asked"]
      <4>1. [of |-> o, says |-> says] \in polls' /\ p.of = o
        BY <2>2, <3>1
      <4>2. [of |-> o, says |-> says].of = o
        OBVIOUS
      <4>3. QED
        BY <4>1, <4>2
    <3>2. CASE p # [of |-> o, says |-> "asked"]
      BY <2>2, <3>2
    <3>3. QED
      BY <3>1, <3>2
  <2>4. QED
    BY <2>2, <2>3 DEF WaitingResultAsks
<1>8. ASSUME NEW p \in polls, StatusTold(p) \/ StatusLost(p)
      PROVE  WaitingResultAsks'
  <2>1. polls' = polls \ {p}
    BY <1>8 DEF StatusTold, StatusLost, PollEnds
  <2>2. CASE result.of = p.of
    BY <1>8, <2>2 DEF StatusTold, StatusLost, WaitingResultAsks
  <2>3. CASE result.of # p.of
    BY <1>8, <2>1, <2>3 DEF StatusTold, StatusLost, WaitingResultAsks
  <2>4. QED
    BY <2>2, <2>3
<1>9. QED
  BY <1>1, <1>2, <1>3, <1>4, <1>5, <1>6, <1>7, <1>8 DEF Next, User, Answer, Status

-----------------------------------------------------------------------------
LEMMA InitEstablishesInv == Init => IInv
<1> SUFFICES ASSUME Init
             PROVE  IInv
  OBVIOUS
<1>1. 0 \in 0 .. MaxOpenings /\ 0 \in Nat
  BY CreateModalAssumption, OpeningsAreCounts DEF CreateModalAssumption
<1>2. TypeOK
  BY <1>1, NothingYet
  DEF Init, ModalInit, TypeOK, ModalTypeOK, Values, Modes, Says, ResultsOf, Icons
<1>3. ShowsItsOwn /\ InputFitsMode /\ AllIsItsOwn
  BY DEF Init, ModalInit, ShowsItsOwn, InputFitsMode, AllIsItsOwn, Busy
<1>4. OnlyAbandonedIsMisplaced /\ WaitingResultAsks
  BY DEF Init, NoRequest, NoResult, OnlyAbandonedIsMisplaced, WaitingResultAsks
<1>5. QED
  BY <1>2, <1>3, <1>4 DEF IInv

LEMMA NextPreservesInv == IInv /\ [Next]_vars => IInv'
<1> SUFFICES ASSUME IInv, [Next]_vars
             PROVE  IInv'
  OBVIOUS
<1>1. Own /\ (open => opening \in Openings)
  BY DEF IInv, Own, AllIsItsOwn
<1>2. TypeOK' /\ OnlyAbandonedIsMisplaced'
  BY <1>1, NextPreservesType, NextPreservesMisplaced DEF IInv
<1>3. Own' /\ ShowsItsOwn' /\ WaitingResultAsks'
  BY <1>1, NextPreservesOwn, NextPreservesShown, NextPreservesAsks DEF IInv
<1>4. QED
  BY <1>2, <1>3 DEF IInv, Own

LEMMA InvIsInvariant == Spec => []IInv
  BY InitEstablishesInv, NextPreservesInv, PTL DEF Spec

(***************************************************************************)
(* In every opening that was not crossed by an answer to an earlier one,   *)
(* the results, the icon and the error are its own, the image input is     *)
(* what the mode and the requests make it, and the dialog is lost only by  *)
(* closing it while a deployment is asked for.  A result that waits goes on*)
(* asking until an answer to it is lost.                                   *)
(***************************************************************************)
THEOREM InvariantHolds == Spec => []ModalInv
<1>1. IInv => ModalInv
  BY DEF IInv, OnlyAbandonedIsMisplaced, ModalInv, DialogStaysUsable
<1>2. QED
  BY <1>1, InvIsInvariant, PTL

\* The dialog can be opened again unless it was closed while it was asking for a
\* deployment: the answer replaces the place for results (app.js:185, :214).
THEOREM UsableUnlessAbandoned == Spec => []DialogStaysUsable
<1>1. IInv => DialogStaysUsable
  BY DEF IInv, OnlyAbandonedIsMisplaced, DialogStaysUsable
<1>2. QED
  BY <1>1, InvIsInvariant, PTL

(***************************************************************************)
(* No deployment is sent with an image, unless the dialog was opened while *)
(* something was under way.                                                *)
(***************************************************************************)
THEOREM NoImageIsSent == Spec => DeploymentSendsNoImage
<1>1. IInv /\ [Next]_vars =>
        [request = NoRequest /\ request'.mode = "deploy" /\ ~crossed => ~request'.image]_vars
  <2> SUFFICES ASSUME IInv, [Next]_vars, request = NoRequest, request'.mode = "deploy", ~crossed
               PROVE  ~request'.image
    OBVIOUS
  <2>0. NoRequest.mode = "image"
    BY DEF NoRequest
  <2>1. CASE Submit
    <3>1. open /\ request' = [of |-> opening, mode |-> mode, image |-> ~imageDisabled]
      BY <2>1 DEF Submit
    <3>2. mode = "deploy" /\ request'.image = ~imageDisabled
      BY <3>1
    <3>3. imageDisabled
      BY <3>1, <3>2 DEF IInv, InputFitsMode
    <3>4. QED
      BY <3>2, <3>3
  <2>2. CASE ~Submit
    <3>1. request' = request
      BY <2>2 DEF Next, User, Open, Leave, Close, Answer, Accepted, Deployed, Refused, AnswerLost,
         Answered, Poll, Status, StatusRead, StatusUnknown, Reads, StatusTold, StatusLost, PollEnds,
         SandboxMoves, vars
    <3>2. QED
      BY <2>0, <3>1
  <2>3. QED
    BY <2>1, <2>2
<1>2. QED
  BY <1>1, InvIsInvariant, PTL DEF Spec, DeploymentSendsNoImage
=============================================================================
