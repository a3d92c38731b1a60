--------------------------- MODULE CasePage_proofs ---------------------------
(***************************************************************************)
(* What the page of a case tells, for any number of polls in flight, of    *)
(* clicks and of lost calls.                                               *)
(***************************************************************************)
EXTENDS CasePage, TLAPS

-----------------------------------------------------------------------------
(* The inductive invariant *)

Calls == Clicks \cup {Other}

\* A row of a case with this history: the case has been in its status, and it
\* was decided only after it asked.
Witnessed(case, history) ==
  /\ case.status \in history
  /\ case.decision # NoneYet => "waiting_human" \in history

\* Such are all rows that a call or a poll carries to the page; and a call is made
\* for a case that has asked.
RequestOK(q, history) ==
  /\ q.pc # "none" => "waiting_human" \in history
  /\ q.pc \in {"sent", "accepted"} => q.decision \in Decisions
  /\ q.pc \in {"accepted", "answered"} => q.answer \in Case /\ Witnessed(q.answer, history)
PollOK(p, history) == p.pc = "answered" => p.row \in Case /\ Witnessed(p.row, history)

ServerKnows ==
  /\ Witnessed(row, been)
  /\ \A c \in Calls : RequestOK(req[c], been)
  /\ \A i \in Slots : PollOK(poll[i], been)

PageKnows == data # NoData => Witnessed(data, been)

PageInv == TypeOK /\ ServerKnows /\ PageKnows /\ StepperTellsTruth

-----------------------------------------------------------------------------
(* Types *)

Request == [pc : ReqPc, decision : Decisions \cup {NoneYet}, answer : Case \cup {NoData}]
Polled  == [pc : {"free", "sent", "answered"}, row : Case \cup {NoData}]

LEMMA Records ==
  /\ NoPoll \in Polled /\ NoPoll.pc = "free"
  /\ NoReq \in Request /\ NoReq.pc = "none"
  /\ Done \in Request /\ Done.pc = "done"
  /\ Refused \in Request /\ Refused.pc = "refused"
  /\ NoData \notin Case /\ NoData.decision = NoneYet /\ NoData.status # "waiting_human"
BY DEF NoPoll, Polled, NoReq, Request, ReqPc, Done, Refused, NoData, Case, Statuses

LEMMA TypeInit == Init => TypeOK
<1> SUFFICES ASSUME Init PROVE TypeOK
  OBVIOUS
<1>1. row \in Case /\ been \subseteq Statuses
  BY DEF Init, Case, Statuses
<1>2. poll \in [Slots -> Polled] /\ req \in [Clicks \cup {Other} -> Request]
  BY Records DEF Init
<1>3. ceiling \in 0..3 /\ faults \in 0..MaxFaults
  BY BoundAssumption DEF Init
<1> QED
  BY <1>1, <1>2, <1>3 DEF Init, TypeOK, Polled, Request

LEMMA FaultType ==
  ASSUME TypeOK, Fault
  PROVE  faults' \in 0..MaxFaults
BY BoundAssumption DEF TypeOK, Fault

LEMMA StepIndexType ==
  ASSUME NEW case \in Case
  PROVE  StepIndex(case) \in 1..3
BY DEF StepIndex, Case, Statuses

LEMMA ShowType ==
  ASSUME TypeOK, NEW case \in Case, Show(case)
  PROVE  data' = case /\ ceiling' \in 0..3 /\ ceiling' >= ceiling
<1>1. StepIndex(case) \in 1..3 /\ ceiling \in 0..3
  BY StepIndexType DEF TypeOK
<1> QED
  BY <1>1 DEF Show, Ceiling

LEMMA MergeType ==
  ASSUME TypeOK, NEW case \in Case
  PROVE  Merge(case) \in Case
<1>1. data.decision \in Decisions \cup {NoneYet}
  BY DEF TypeOK, Case, NoData
<1> QED
  BY <1>1 DEF Merge, Case

\* What the server does, by what it makes of the row and of one call.
LEMMA ServerType ==
  ASSUME TypeOK, NEW c \in Calls, NEW q \in Request,
         req' = [req EXCEPT ![c] = q], row' \in Case, been' \subseteq Statuses,
         UNCHANGED <<pageVars, faults>>
  PROVE  TypeOK'
BY DEF TypeOK, Request, Calls, pageVars

LEMMA RowType ==
  ASSUME TypeOK, NEW new \in Case, RowBecomes(new)
  PROVE  row' \in Case /\ been' \subseteq Statuses
BY DEF TypeOK, RowBecomes, Case

LEMMA TypeServer ==
  ASSUME TypeOK, NEW c \in Calls, Endpoint(c)
  PROVE  TypeOK'
<1>1. req[c] \in Request /\ row \in Case /\ been \subseteq Statuses
  BY DEF TypeOK, Request, Calls
<1>2. CASE Accept(c)
  <2> DEFINE new == [row EXCEPT !.decision = req[c].decision]
             q   == [req[c] EXCEPT !.pc = "accepted", !.answer = new]
  <2>1. new \in Case
    BY <1>1 DEF Case, Request
  <2>2. q \in Request
    BY <1>1, <2>1 DEF Request, ReqPc
  <2>3. RowBecomes(new) /\ req' = [req EXCEPT ![c].pc = "accepted", ![c].answer = row']
    BY <1>2 DEF Accept
  <2>4. req' = [req EXCEPT ![c] = q]
    BY <2>3 DEF RowBecomes
  <2> HIDE DEF new, q
  <2> QED
    BY <1>2, <2>1, <2>2, <2>3, <2>4, RowType, ServerType DEF Accept
<1>3. CASE Refuse(c)
  BY <1>1, <1>3, Records, ServerType DEF Refuse
<1>4. CASE Complete(c)
  <2> DEFINE q == IF c \in current THEN [req[c] EXCEPT !.pc = "answered"] ELSE Done
  <2>1. q \in Request
    BY <1>1, Records DEF Request, ReqPc
  <2>2. req' = [req EXCEPT ![c] = q]
    BY <1>4 DEF Complete
  <2>3. row' \in Case /\ been' \subseteq Statuses
    BY <1>1, <1>4, RowType DEF Complete, Request, Case, Statuses, Final
  <2> HIDE DEF q
  <2> QED
    BY <1>4, <2>1, <2>2, <2>3, ServerType DEF Complete
<1>5. CASE Fail(c)
  <2>1. row' \in Case /\ been' \subseteq Statuses
    BY <1>1, <1>5, RowType DEF Fail, Case, Statuses
  <2> QED
    BY <1>5, <2>1, Records, ServerType DEF Fail
<1> QED
  BY <1>2, <1>3, <1>4, <1>5 DEF Endpoint

LEMMA TypePoll ==
  ASSUME TypeOK, NEW i \in Slots, PollOK(poll[i], been), Poll(i) \/ PollFails(i)
  PROVE  TypeOK'
<1>1. poll \in [Slots -> Polled] /\ row \in Case
  BY DEF TypeOK, Polled
<1>2. ASSUME NEW p \in Polled, poll' = [poll EXCEPT ![i] = p],
             UNCHANGED <<row, req, current, busy, been>>,
             data' \in Case \cup {NoData}, ceiling' \in 0..3, faults' \in 0..MaxFaults
      PROVE  TypeOK'
  BY <1>1, <1>2 DEF TypeOK, Polled
<1>3. CASE SendPoll(i)
  <2>1. [poll[i] EXCEPT !.pc = "sent"] \in Polled
    BY <1>1 DEF Polled
  <2> QED
    BY <1>2, <1>3, <2>1 DEF SendPoll, shownVars, TypeOK
<1>4. CASE ServePoll(i)
  <2>1. [pc |-> "answered", row |-> row] \in Polled
    BY <1>1 DEF Polled
  <2> QED
    BY <1>2, <1>4, <2>1 DEF ServePoll, shownVars, TypeOK
<1>5. CASE PollArrives(i)
  <2>0. poll[i].row \in Case
    BY <1>5 DEF PollArrives, PollOK
  <2>1. data' \in Case /\ ceiling' \in 0..3
    BY <1>5, <2>0, MergeType, ShowType DEF PollArrives
  <2> QED
    BY <1>2, <1>5, <2>1, Records DEF PollArrives, TypeOK
<1>6. CASE PollFails(i)
  BY <1>2, <1>6, Records, FaultType DEF PollFails, shownVars, TypeOK
<1> QED
  BY <1>3, <1>4, <1>5, <1>6 DEF Poll

\* What the page does with one of its calls.
LEMMA PageType ==
  ASSUME TypeOK, req' \in [Calls -> Request], data' \in Case \cup {NoData}, ceiling' \in 0..3,
         current' \subseteq Clicks, busy' \in BOOLEAN, faults' \in 0..MaxFaults,
         UNCHANGED <<row, poll, been>>
  PROVE  TypeOK'
BY DEF TypeOK, Request, Calls

LEMMA TypePage ==
  ASSUME TypeOK, NEW c \in Clicks, RequestOK(req[c], been),
         \/ Answer(c) \/ CallFails(c)
         \/ \E d \in Decisions : OnDecide(c, d)
  PROVE  TypeOK'
<1>1. /\ req \in [Calls -> Request] /\ c \in Calls /\ data \in Case \cup {NoData}
      /\ ceiling \in 0..3 /\ faults \in 0..MaxFaults
  BY DEF TypeOK, Request, Calls
<1>2. CASE AnswerArrives(c)
  <2>1. data' \in Case /\ ceiling' \in 0..3
    BY <1>2, ShowType DEF AnswerArrives, RequestOK
  <2>2. req' \in [Calls -> Request]
    BY <1>1, <1>2, Records DEF AnswerArrives
  <2> QED
    BY <1>1, <1>2, <2>1, <2>2, PageType DEF AnswerArrives
<1>3. CASE ErrorArrives(c)
  BY <1>1, <1>3, PageType DEF ErrorArrives, ErrorShown, BusyAfter, shownVars
<1>4. CASE CallFails(c)
  <2>1. req' \in [Calls -> Request]
    BY <1>1, <1>4, Records DEF CallFails
  <2> QED
    BY <1>1, <1>4, <2>1, FaultType, PageType DEF CallFails, ErrorShown, BusyAfter, shownVars
<1>5. ASSUME NEW d \in Decisions, OnDecide(c, d) PROVE TypeOK'
  <2> DEFINE new == [data EXCEPT !.decision = d]
             q   == [NoReq EXCEPT !.pc = "sent", !.decision = d]
  <2>0. data \in Case
    <3>1. data.status = "waiting_human"
      BY <1>5 DEF OnDecide, ShowsButtons
    <3> QED
      BY <1>1, <3>1, Records
  <2>1. new \in Case
    BY <2>0 DEF Case
  <2>2. q \in Request
    BY Records DEF Request, ReqPc
  <2>3. Show(new) /\ req' = [req EXCEPT ![c] = q]
    BY <1>5 DEF OnDecide
  <2> HIDE DEF new, q
  <2>4. data' \in Case /\ ceiling' \in 0..3
    BY <2>1, <2>3, ShowType
  <2> QED
    BY <1>1, <1>5, <2>2, <2>3, <2>4, PageType DEF OnDecide
<1> QED
  BY <1>2, <1>3, <1>4, <1>5 DEF Answer

LEMMA TypeStep ==
  ASSUME TypeOK, ServerKnows, [Next]_vars
  PROVE  TypeOK'
<1>1. CASE RunEnds
  <2>1. PICK s \in {"waiting_human", "completed", "failed"} : RowBecomes([row EXCEPT !.status = s])
    BY <1>1 DEF RunEnds
  <2>2. [row EXCEPT !.status = s] \in Case
    BY DEF TypeOK, Case, Statuses
  <2>3. row' \in Case /\ been' \subseteq Statuses
    BY <2>1, <2>2, RowType
  <2> QED
    BY <1>1, <2>3 DEF RunEnds, TypeOK, pageVars
<1>2. ASSUME NEW d \in Decisions, OtherDecides(d) PROVE TypeOK'
  <2> DEFINE q == [NoReq EXCEPT !.pc = "sent", !.decision = d]
  <2>1. q \in Request
    BY Records DEF Request, ReqPc
  <2>2. req' = [req EXCEPT ![Other] = q]
    BY <1>2 DEF OtherDecides
  <2> HIDE DEF q
  <2> QED
    BY <1>2, <2>1, <2>2, ServerType DEF OtherDecides, TypeOK, Calls
<1>3. ASSUME NEW c \in Calls, Endpoint(c) PROVE TypeOK'
  BY <1>3, TypeServer
<1>4. ASSUME NEW c \in Clicks, Answer(c) \/ CallFails(c) \/ \E d \in Decisions : OnDecide(c, d)
      PROVE  TypeOK'
  BY <1>4, TypePage DEF ServerKnows, Calls
<1>5. ASSUME NEW i \in Slots, Poll(i) \/ PollFails(i) PROVE TypeOK'
  BY <1>5, TypePoll DEF ServerKnows
<1>6. CASE UNCHANGED vars
  BY <1>6 DEF vars, TypeOK
<1> QED
  BY <1>1, <1>2, <1>3, <1>4, <1>5, <1>6 DEF Next, Calls

-----------------------------------------------------------------------------
(* What the server, the calls and the polls know *)

LEMMA StillWitnessed ==
  ASSUME NEW case, Witnessed(case, been), been \subseteq been'
  PROVE  Witnessed(case, been')
BY DEF Witnessed

LEMMA RequestKept ==
  ASSUME NEW c, RequestOK(req[c], been), been \subseteq been', req'[c] = req[c]
  PROVE  RequestOK(req'[c], been')
BY DEF RequestOK, Witnessed

LEMMA PollKept ==
  ASSUME NEW i, PollOK(poll[i], been), been \subseteq been', poll'[i] = poll[i]
  PROVE  PollOK(poll'[i], been')
BY DEF PollOK, Witnessed

\* It is enough to look at the call that changed.
LEMMA CallSuffices ==
  ASSUME TypeOK, ServerKnows, been \subseteq been', NEW c \in Calls, NEW q,
         req' = [req EXCEPT ![c] = q], RequestOK(q, been'), Witnessed(row', been'), poll' = poll
  PROVE  ServerKnows'
<1>1. req'[c] = q /\ \A d \in Calls : d # c => req'[d] = req[d]
  BY DEF TypeOK, Calls
<1>2. ASSUME NEW d \in Calls PROVE RequestOK(req'[d], been')
  <2>1. CASE d = c
    BY <1>1, <2>1 DEF RequestOK, Witnessed
  <2>2. CASE d # c
    BY <1>1, <2>2, RequestKept DEF ServerKnows
  <2> QED
    BY <2>1, <2>2
<1>3. ASSUME NEW i \in Slots PROVE PollOK(poll'[i], been')
  BY <1>3, PollKept DEF ServerKnows
<1> QED
  BY <1>2, <1>3 DEF ServerKnows

LEMMA PollSuffices ==
  ASSUME TypeOK, ServerKnows, NEW i \in Slots, NEW p, poll' = [poll EXCEPT ![i] = p],
         PollOK(p, been'), UNCHANGED <<row, req, been>>
  PROVE  ServerKnows'
<1>1. poll'[i] = p /\ \A j \in Slots : j # i => poll'[j] = poll[j]
  BY DEF TypeOK
<1>2. ASSUME NEW j \in Slots PROVE PollOK(poll'[j], been')
  <2>1. CASE j = i
    BY <1>1, <2>1 DEF PollOK, Witnessed
  <2>2. CASE j # i
    BY <1>1, <2>2, PollKept DEF ServerKnows
  <2> QED
    BY <2>1, <2>2
<1>3. Witnessed(row', been') /\ \A d \in Calls : RequestOK(req'[d], been')
  BY DEF ServerKnows, RequestOK, Witnessed
<1> QED
  BY <1>2, <1>3 DEF ServerKnows

LEMMA BeenGrows ==
  ASSUME [Next]_vars
  PROVE  been \subseteq been'
BY DEF Next, RunEnds, OtherDecides, Endpoint, Accept, Refuse, Complete, Fail, RowBecomes,
       Answer, AnswerArrives, ErrorArrives, ErrorShown, CallFails, OnDecide, Poll, SendPoll,
       ServePoll, PollArrives, PollFails, pageVars, vars

\* What a step of one call leaves: a call that is over knows nothing any more.
LEMMA OverKnows ==
  ASSUME NEW c \in Calls, TypeOK, RequestOK(req[c], been), req[c].pc # "none", been \subseteq been'
  PROVE  RequestOK(Done, been') /\ RequestOK(Refused, been')
BY DEF RequestOK, Done, Refused, NoReq

LEMMA KnowsServer ==
  ASSUME TypeOK, ServerKnows, NEW c \in Calls, Endpoint(c), been \subseteq been'
  PROVE  ServerKnows'
<1>1. /\ req[c] \in Request /\ row \in Case /\ poll' = poll
      /\ RequestOK(req[c], been) /\ Witnessed(row, been) /\ req[c].pc # "none"
  BY DEF TypeOK, Request, Calls, ServerKnows, Endpoint, Accept, Refuse, Complete, Fail, pageVars
<1>2. CASE Accept(c)
  <2> DEFINE new == [row EXCEPT !.decision = req[c].decision]
             q   == [req[c] EXCEPT !.pc = "accepted", !.answer = new]
  <2>1. row' = new /\ been' = been \cup {new.status}
    BY <1>2 DEF Accept, RowBecomes
  <2>2. new \in Case /\ new.status = row.status /\ new.decision = req[c].decision
    BY <1>1 DEF Case, Request
  <2>3. Witnessed(new, been')
    BY <1>1, <2>1, <2>2 DEF Witnessed, RequestOK
  <2>4. q.pc = "accepted" /\ q.answer = new /\ q.decision = req[c].decision
    BY <1>1 DEF Request
  <2>5. req[c].decision \in Decisions
    BY <1>1, <1>2 DEF Accept, RequestOK
  <2>6. RequestOK(q, been')
    BY <1>1, <2>2, <2>3, <2>4, <2>5 DEF RequestOK
  <2>7. req' = [req EXCEPT ![c] = q]
    BY <1>2, <2>1 DEF Accept
  <2> HIDE DEF new, q
  <2> QED
    BY <1>1, <2>1, <2>3, <2>6, <2>7, CallSuffices DEF Witnessed
<1>3. CASE Refuse(c)
  <2>1. Witnessed(row', been')
    BY <1>1, <1>3 DEF Refuse, Witnessed
  <2> QED
    BY <1>1, <1>3, <2>1, OverKnows, CallSuffices DEF Refuse
<1>4. CASE Complete(c)
  <2> DEFINE q == IF c \in current THEN [req[c] EXCEPT !.pc = "answered"] ELSE Done
  <2>1. Witnessed(row', been')
    BY <1>1, <1>4 DEF Complete, RowBecomes, Witnessed, RequestOK
  <2>2. RequestOK([req[c] EXCEPT !.pc = "answered"], been')
    BY <1>1, <1>4, StillWitnessed DEF Complete, RequestOK, Request
  <2>3. RequestOK(q, been')
    BY <1>1, <2>2, OverKnows
  <2>4. req' = [req EXCEPT ![c] = q]
    BY <1>4 DEF Complete
  <2> HIDE DEF q
  <2> QED
    BY <1>1, <2>1, <2>3, <2>4, CallSuffices
<1>5. CASE Fail(c)
  <2>1. Witnessed(row', been')
    BY <1>1, <1>5 DEF Fail, RowBecomes, Witnessed, Case
  <2> QED
    BY <1>1, <1>5, <2>1, OverKnows, CallSuffices DEF Fail
<1> QED
  BY <1>2, <1>3, <1>4, <1>5 DEF Endpoint

LEMMA KnowsPage ==
  ASSUME PageInv, NEW c \in Clicks, Answer(c) \/ CallFails(c) \/ \E d \in Decisions : OnDecide(c, d)
  PROVE  ServerKnows'
<1>1. /\ c \in Calls /\ RequestOK(req[c], been) /\ Witnessed(row, been)
      /\ UNCHANGED <<row, poll, been>> /\ TypeOK /\ ServerKnows
  BY DEF PageInv, ServerKnows, Calls, Answer, AnswerArrives, ErrorArrives, ErrorShown, CallFails,
         OnDecide
<1>2. Witnessed(row', been')
  BY <1>1 DEF Witnessed
<1>3. ASSUME req[c].pc # "none", req' = [req EXCEPT ![c] = Done] PROVE ServerKnows'
  BY <1>1, <1>2, <1>3, OverKnows, CallSuffices
<1>4. ASSUME req' = req PROVE ServerKnows'
  BY <1>1, <1>2, <1>4, RequestKept, PollKept DEF ServerKnows
<1>5. ASSUME NEW d \in Decisions, OnDecide(c, d) PROVE ServerKnows'
  <2> DEFINE q == [NoReq EXCEPT !.pc = "sent", !.decision = d]
  <2>1. q.pc = "sent" /\ q.decision = d
    BY DEF NoReq
  <2>2. "waiting_human" \in been
    <3>1. data.status = "waiting_human"
      BY <1>5 DEF OnDecide, ShowsButtons
    <3> QED
      BY <3>1, Records DEF PageInv, PageKnows, Witnessed
  <2>3. RequestOK(q, been')
    BY <1>1, <2>1, <2>2 DEF RequestOK
  <2>4. req' = [req EXCEPT ![c] = q]
    BY <1>5 DEF OnDecide
  <2> HIDE DEF q
  <2> QED
    BY <1>1, <1>2, <2>3, <2>4, CallSuffices
<1> QED
  BY <1>3, <1>4, <1>5 DEF Answer, AnswerArrives, ErrorArrives, CallFails

LEMMA KnowsPoll ==
  ASSUME TypeOK, ServerKnows, NEW i \in Slots, Poll(i) \/ PollFails(i)
  PROVE  ServerKnows'
<1>1. row \in Case /\ Witnessed(row, been) /\ UNCHANGED <<row, req, been>>
  BY DEF TypeOK, ServerKnows, Poll, SendPoll, ServePoll, PollArrives, PollFails
<1>2. CASE SendPoll(i)
  <2>1. poll[i] \in Polled
    BY DEF TypeOK, Polled
  <2>2. PollOK([poll[i] EXCEPT !.pc = "sent"], been')
    BY <2>1 DEF PollOK, Polled
  <2> QED
    BY <1>1, <1>2, <2>2, PollSuffices DEF SendPoll
<1>3. CASE ServePoll(i)
  <2>1. PollOK([pc |-> "answered", row |-> row], been')
    BY <1>1 DEF PollOK, Witnessed
  <2> QED
    BY <1>1, <1>3, <2>1, PollSuffices DEF ServePoll
<1>4. CASE PollArrives(i) \/ PollFails(i)
  <2>1. PollOK(NoPoll, been')
    BY DEF PollOK, NoPoll
  <2> QED
    BY <1>1, <1>4, <2>1, PollSuffices DEF PollArrives, PollFails
<1> QED
  BY <1>2, <1>3, <1>4 DEF Poll

LEMMA KnowsStep ==
  ASSUME PageInv, [Next]_vars
  PROVE  ServerKnows'
<1>types. TypeOK /\ ServerKnows /\ been \subseteq been'
  BY BeenGrows DEF PageInv
<1>1. ASSUME Witnessed(row', been'), req' = req, poll' = poll PROVE ServerKnows'
  BY <1>types, <1>1, RequestKept, PollKept DEF ServerKnows
<1>2. CASE RunEnds
  <2>1. PICK s \in {"waiting_human", "completed", "failed"} : RowBecomes([row EXCEPT !.status = s])
    BY <1>2 DEF RunEnds
  <2>2. row \in Case /\ Witnessed(row, been)
    BY <1>types DEF TypeOK, ServerKnows
  <2>3. Witnessed(row', been')
    BY <2>1, <2>2 DEF RowBecomes, Witnessed, Case
  <2> QED
    BY <1>1, <1>2, <2>3 DEF RunEnds, pageVars
<1>3. ASSUME NEW d \in Decisions, OtherDecides(d) PROVE ServerKnows'
  <2> DEFINE q == [NoReq EXCEPT !.pc = "sent", !.decision = d]
  <2>1. q.pc = "sent" /\ q.decision = d
    BY DEF NoReq
  <2>2. "waiting_human" \in been /\ Witnessed(row, been)
    BY <1>types, <1>3 DEF OtherDecides, ServerKnows, Witnessed
  <2>3. RequestOK(q, been') /\ Witnessed(row', been')
    BY <1>3, <2>1, <2>2 DEF RequestOK, OtherDecides, Witnessed
  <2>4. req' = [req EXCEPT ![Other] = q]
    BY <1>3 DEF OtherDecides
  <2> HIDE DEF q
  <2> QED
    BY <1>types, <1>3, <2>3, <2>4, CallSuffices DEF OtherDecides, Calls, pageVars
<1>4. ASSUME NEW c \in Calls, Endpoint(c) PROVE ServerKnows'
  BY <1>types, <1>4, KnowsServer
<1>5. ASSUME NEW c \in Clicks, Answer(c) \/ CallFails(c) \/ \E d \in Decisions : OnDecide(c, d)
      PROVE  ServerKnows'
  BY <1>5, KnowsPage
<1>6. ASSUME NEW i \in Slots, Poll(i) \/ PollFails(i) PROVE ServerKnows'
  BY <1>types, <1>6, KnowsPoll
<1>7. CASE UNCHANGED vars
  BY <1>1, <1>7, <1>types DEF vars, ServerKnows, Witnessed
<1> QED
  BY <1>2, <1>3, <1>4, <1>5, <1>6, <1>7 DEF Next, Calls

-----------------------------------------------------------------------------
(* What the page shows *)

\* A row the page shows lights a step the case has reached.
LEMMA StepIsTrue ==
  ASSUME NEW case \in Case, Witnessed(case, been), data' = case, been' = been,
         ceiling' = StepIndex(case)
  PROVE  StepperTellsTruth'
<1>1. data' # NoData
  BY Records
<1>2. CASE case.status = "failed"
  BY <1>1, <1>2 DEF StepIndex, StepperTellsTruth, Reached
<1>3. CASE case.status = "completed"
  BY <1>3 DEF StepIndex, StepperTellsTruth, Reached, Witnessed
<1>4. CASE case.status = "waiting_human"
  BY <1>4 DEF StepIndex, StepperTellsTruth, Reached, Witnessed
<1>5. CASE case.status = "running"
  BY <1>1, <1>5 DEF StepIndex, StepperTellsTruth, Reached, Witnessed
<1> QED
  BY <1>2, <1>3, <1>4, <1>5 DEF Case, Statuses

LEMMA Showing ==
  ASSUME PageInv, NEW case \in Case, Witnessed(case, been), Show(case), been' = been
  PROVE  PageKnows' /\ StepperTellsTruth'
<1>1. data' = case /\ ceiling' \in {ceiling, StepIndex(case)}
  BY DEF Show, Ceiling
<1>2. PageKnows'
  BY <1>1 DEF PageKnows
<1>3. CASE ceiling' = ceiling
  <2>1. StepperTellsTruth /\ data' # NoData
    BY <1>1, Records DEF PageInv
  <2> QED
    BY <1>2, <1>3, <2>1 DEF StepperTellsTruth, Reached
<1>4. CASE ceiling' = StepIndex(case)
  BY <1>1, <1>2, <1>4, StepIsTrue
<1> QED
  BY <1>1, <1>2, <1>3, <1>4

\* What the page shows stays true as the case goes on.
LEMMA NotShowing ==
  ASSUME PageInv, UNCHANGED shownVars, been \subseteq been'
  PROVE  PageKnows' /\ StepperTellsTruth'
BY DEF PageInv, PageKnows, StepperTellsTruth, Reached, Witnessed, shownVars

\* The rows the page is given to show.
LEMMA WhatIsShown ==
  ASSUME PageInv, Next
  PROVE  \/ UNCHANGED shownVars
         \/ \E case \in Case : Witnessed(case, been) /\ Show(case) /\ been' = been
<1>types. TypeOK /\ ServerKnows /\ PageKnows
  BY DEF PageInv
<1>1. ASSUME NEW i \in Slots, PollArrives(i)
      PROVE  \E case \in Case : Witnessed(case, been) /\ Show(case) /\ been' = been
  <2>1. poll[i].row \in Case /\ Witnessed(poll[i].row, been)
    BY <1>types, <1>1 DEF ServerKnows, PollOK, PollArrives
  <2>2. Merge(poll[i].row) \in Case
    BY <1>types, <2>1, MergeType
  <2>3. data.decision # NoneYet => "waiting_human" \in been
    BY <1>types, Records DEF PageKnows, Witnessed
  <2>4. Witnessed(Merge(poll[i].row), been)
    BY <2>1, <2>3 DEF Merge, Witnessed, Case
  <2> QED
    BY <1>1, <2>2, <2>4 DEF PollArrives
<1>2. ASSUME NEW c \in Clicks, AnswerArrives(c)
      PROVE  \E case \in Case : Witnessed(case, been) /\ Show(case) /\ been' = been
  <2>1. req[c].answer \in Case /\ Witnessed(req[c].answer, been)
    BY <1>types, <1>2 DEF ServerKnows, RequestOK, AnswerArrives, Calls
  <2> QED
    BY <1>2, <2>1 DEF AnswerArrives
<1>3. ASSUME NEW c \in Clicks, NEW d \in Decisions, OnDecide(c, d)
      PROVE  \E case \in Case : Witnessed(case, been) /\ Show(case) /\ been' = been
  <2> DEFINE new == [data EXCEPT !.decision = d]
  <2>1. data.status = "waiting_human"
    BY <1>3 DEF OnDecide, ShowsButtons
  <2>2. data \in Case /\ Witnessed(data, been)
    BY <1>types, <2>1, Records DEF TypeOK, PageKnows
  <2>3. new \in Case /\ new.status = data.status
    BY <2>2 DEF Case
  <2>4. Witnessed(new, been)
    BY <2>1, <2>2, <2>3 DEF Witnessed
  <2>5. Show(new) /\ been' = been
    BY <1>3 DEF OnDecide
  <2> HIDE DEF new
  <2> QED
    BY <2>3, <2>4, <2>5
<1> QED
  BY <1>1, <1>2, <1>3
     DEF Next, RunEnds, OtherDecides, Endpoint, Accept, Refuse, Complete, Fail, Answer,
         ErrorArrives, ErrorShown, CallFails, Poll, SendPoll, ServePoll, PollFails,
         pageVars, shownVars

LEMMA PageInvInit == Init => PageInv
<1> SUFFICES ASSUME Init PROVE PageInv
  OBVIOUS
<1>1. Witnessed(row, been)
  BY DEF Init, Witnessed
<1>2. ServerKnows
  BY <1>1, Records DEF Init, ServerKnows, RequestOK, PollOK, Calls
<1>3. PageKnows /\ StepperTellsTruth
  BY DEF Init, PageKnows, StepperTellsTruth, Reached
<1> QED
  BY <1>2, <1>3, TypeInit DEF PageInv

LEMMA PageInvStep == PageInv /\ [Next]_vars => PageInv'
<1> SUFFICES ASSUME PageInv, [Next]_vars PROVE PageInv'
  OBVIOUS
<1>1. TypeOK' /\ ServerKnows'
  BY TypeStep, KnowsStep DEF PageInv
<1>2. UNCHANGED shownVars => PageKnows' /\ StepperTellsTruth'
  BY BeenGrows, NotShowing
<1>3. PageKnows' /\ StepperTellsTruth'
  <2>1. CASE Next
    BY <1>2, <2>1, WhatIsShown, Showing
  <2>2. CASE UNCHANGED vars
    BY <1>2, <2>2 DEF vars, shownVars
  <2> QED
    BY <2>1, <2>2
<1> QED
  BY <1>1, <1>3 DEF PageInv

LEMMA PageInvAlways == Spec => []PageInv
BY PageInvInit, PageInvStep, PTL DEF Spec

-----------------------------------------------------------------------------
(* Theorems *)

\* Every variable keeps its type.
THEOREM TypeCorrect == Spec => []TypeOK
<1>1. PageInv => TypeOK
  BY DEF PageInv
<1> QED
  BY <1>1, PageInvAlways, PTL

\* The stepper runs ahead of nothing, however many polls are answered in whatever
\* order, and whatever decision is shown before the server has it.
THEOREM StepperIsTrue == Spec => []StepperTellsTruth
<1>1. PageInv => StepperTellsTruth
  BY DEF PageInv
<1> QED
  BY <1>1, PageInvAlways, PTL

\* The page sends a decision only for a case that has asked for one.
THEOREM DecidesWhenAsked == Spec => []AskedBeforeDecided
<1>1. PageInv => AskedBeforeDecided
  BY DEF PageInv, ServerKnows, RequestOK, AskedBeforeDecided, Calls
<1> QED
  BY <1>1, PageInvAlways, PTL

\* The stepper never moves back (ceilingRef).
THEOREM StepperForward == Spec => StepperMovesForward
<1>1. PageInv /\ [Next]_vars => [ceiling' >= ceiling]_vars
  <2> SUFFICES ASSUME PageInv, Next PROVE ceiling' >= ceiling
    BY DEF PageInv
  <2>1. TypeOK
    BY DEF PageInv
  <2>2. CASE UNCHANGED shownVars
    BY <2>1, <2>2 DEF TypeOK, shownVars
  <2>3. ASSUME NEW case \in Case, Show(case) PROVE ceiling' >= ceiling
    BY <2>1, <2>3, ShowType
  <2> QED
    BY <2>2, <2>3, WhatIsShown
<1> QED
  BY <1>1, PageInvAlways, PTL DEF Spec, StepperMovesForward

=============================================================================
