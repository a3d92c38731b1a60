------------------------------ MODULE CasePage ------------------------------
(***************************************************************************)
(* The console's page of one case: it polls the row every second, whether  *)
(* or not earlier polls were answered, shows a decision before the server  *)
(* has it, takes the answer of the approval call as the newest row, and    *)
(* draws the case's progress with a stepper that only moves forward.       *)
(*                                                                         *)
(* The server side is the row and what may happen to it: the pipeline, and *)
(* the approval endpoint called by this page or by another reviewer.  A    *)
(* crash of the backend, which may run a case again, is left out.          *)
(*                                                                         *)
(* Definitions commented as a Variant are plausible mistakes in the one    *)
(* they precede; no behaviour uses them.                                   *)
(***************************************************************************)
EXTENDS Naturals

CONSTANTS
  Slots,       \* polls that may be in flight at a time
  Clicks,      \* approval calls of this page, each made at most once
  Other,       \* the approval call of another reviewer
  MaxFaults    \* bound: calls of the page that are lost

ASSUME ClicksAssumption == Other \notin Clicks
ASSUME BoundAssumption  == MaxFaults \in Nat

VARIABLES
  row,      \* the row on the server
  poll,     \* poll[i]: nothing, sent, or answered with the row it read
  data,     \* what the page shows
  req,      \* req[c]: an approval call on the server
  current,  \* the calls whose answer the page waits for: none or one
  busy,     \* the buttons are disabled
  ceiling,  \* the step of the stepper (its animation is left out)
  been,     \* history: what the case has been
  faults

vars == <<row, poll, data, req, current, busy, ceiling, been, faults>>

Statuses  == {"running", "waiting_human", "completed", "failed"}
Final     == {"completed", "failed"}
Decisions == {"approved", "rejected"}
NoneYet   == "none"

Case   == [status : Statuses, decision : Decisions \cup {NoneYet}]
NoData == [status |-> "not_loaded", decision |-> NoneYet]
NoPoll == [pc |-> "free", row |-> NoData]
NoReq  == [pc |-> "none", decision |-> NoneYet, answer |-> NoData]
Done    == [NoReq EXCEPT !.pc = "done"]
Refused == [NoReq EXCEPT !.pc = "refused"]
ReqPc  == {"none", "sent", "accepted", "answered", "refused", "done"}

shownVars == <<data, ceiling>>
pageVars  == <<poll, data, current, busy, ceiling>>

Fault == faults < MaxFaults /\ faults' = faults + 1

-----------------------------------------------------------------------------
(* The server *)

\* The row takes this value; been remembers it.
RowBecomes(new) ==
  /\ row' = new
  /\ been' = been \cup {new.status}

\* The pipeline stores its outcome.
RunEnds ==
  /\ row.status = "running"
  /\ \E s \in {"waiting_human", "completed", "failed"} : RowBecomes([row EXCEPT !.status = s])
  /\ UNCHANGED <<pageVars, req, faults>>

OtherDecides(d) ==
  /\ row.status = "waiting_human"
  /\ req[Other].pc = "none"
  /\ req' = [req EXCEPT ![Other] = [NoReq EXCEPT !.pc = "sent", !.decision = d]]
  /\ UNCHANGED <<pageVars, row, been, faults>>

\* human_decision records the decision of a case that waits, or whose graph was
\* left at the review by a resume that failed (which the row does not tell).
Accept(c) ==
  /\ req[c].pc = "sent"
  /\ row.status \in {"waiting_human", "failed"}
  /\ RowBecomes([row EXCEPT !.decision = req[c].decision])
  /\ req' = [req EXCEPT ![c].pc = "accepted", ![c].answer = row']
  /\ UNCHANGED <<pageVars, faults>>

Refuse(c) ==
  /\ req[c].pc = "sent"
  /\ row.status # "waiting_human"
  /\ req' = [req EXCEPT ![c] = Refused]
  /\ UNCHANGED <<pageVars, row, been, faults>>

\* The resumed graph closes the case, with or without an error.  The endpoint's
\* session answers with the row as it read it first, waiting and with the decision.
Complete(c) ==
  /\ req[c].pc = "accepted"
  /\ \E s \in Final : RowBecomes([status |-> s, decision |-> req[c].decision])
  /\ req' = [req EXCEPT ![c] = IF c \in current THEN [@ EXCEPT !.pc = "answered"] ELSE Done]
  /\ UNCHANGED <<pageVars, faults>>

\* The resume fails: the case is failed, and the call answers with an error.
Fail(c) ==
  /\ req[c].pc = "accepted"
  /\ RowBecomes([row EXCEPT !.status = "failed"])
  /\ req' = [req EXCEPT ![c] = Refused]
  /\ UNCHANGED <<pageVars, faults>>

-----------------------------------------------------------------------------
(* The stepper *)

\* Variant: a decision lights the last step at once.
DecisionCompletes(case) ==
  IF case.status = "completed" \/ case.decision # NoneYet THEN 3
  ELSE IF case.status = "waiting_human" THEN 2 ELSE 1

\* stepIndex, of the steps pending, running, waiting_human, completed: a failed
\* case shows the second step, and the page passes pending as running.  The
\* evidence it also looks at is in no row that still runs.
StepIndex(case) ==
  CASE case.status = "failed"        -> 1
    [] case.status = "completed"     -> 3
    [] case.status = "waiting_human" -> 2
    [] case.status = "running"       -> IF case.decision # NoneYet THEN 2 ELSE 1

\* Variants: the stepper follows the case back; it shows the number of steps
\* taken, not the index of the last.
Follows(idx) == idx
OneTooFar(idx) == IF idx > ceiling THEN idx + 1 ELSE ceiling

\* The furthest step so far.
Ceiling(idx) == IF idx > ceiling THEN idx ELSE ceiling

-----------------------------------------------------------------------------
(* The page *)

Show(case) ==
  /\ data' = case
  /\ ceiling' = Ceiling(StepIndex(case))

\* The timer fires.
SendPoll(i) ==
  /\ poll[i].pc = "free"
  /\ poll' = [poll EXCEPT ![i].pc = "sent"]
  /\ UNCHANGED <<row, shownVars, req, current, busy, been, faults>>

\* get_execution reads the row.
ServePoll(i) ==
  /\ poll[i].pc = "sent"
  /\ poll' = [poll EXCEPT ![i] = [pc |-> "answered", row |-> row]]
  /\ UNCHANGED <<row, shownVars, req, current, busy, been, faults>>

\* Variant: the decision shown is kept whatever the row says.
KeepsAlways(case) ==
  IF data.decision # NoneYet THEN [case EXCEPT !.decision = data.decision] ELSE case

\* A decision shown is kept over a row that has none and is not final.
Merge(case) ==
  IF data.decision # NoneYet /\ case.decision = NoneYet /\ case.status \notin Final
    THEN [case EXCEPT !.decision = data.decision]
    ELSE case

\* Answers arrive in any order.
PollArrives(i) ==
  /\ poll[i].pc = "answered"
  /\ Show(Merge(poll[i].row))
  /\ poll' = [poll EXCEPT ![i] = NoPoll]
  /\ UNCHANGED <<row, req, current, busy, been, faults>>

PollFails(i) ==
  /\ poll[i].pc # "free"
  /\ Fault
  /\ poll' = [poll EXCEPT ![i] = NoPoll]
  /\ UNCHANGED <<row, shownVars, req, current, busy, been>>

\* Variant: the buttons show for every case that is not closed.
ShowsUntilClosed == data.status \in Statuses \ Final
ShowsButtons    == data.status = "waiting_human"

\* The reviewer clicks: the decision is shown at once and sent.
OnDecide(c, d) ==
  /\ ShowsButtons /\ ~busy
  /\ req[c].pc = "none"
  /\ busy' = TRUE /\ current' = {c}
  /\ Show([data EXCEPT !.decision = d])
  /\ req' = [req EXCEPT ![c] = [NoReq EXCEPT !.pc = "sent", !.decision = d]]
  /\ UNCHANGED <<row, poll, been, faults>>

\* Variant: the buttons come back after an answer, not after an error.
BusyAfterError == TRUE
BusyAfter      == FALSE

\* The answer replaces what is shown, as the row it is taken for.
AnswerArrives(c) ==
  /\ c \in current /\ req[c].pc = "answered"
  /\ Show(req[c].answer)
  /\ req' = [req EXCEPT ![c] = Done]
  /\ busy' = FALSE /\ current' = {}
  /\ UNCHANGED <<row, poll, been, faults>>

\* An error leaves what is shown, the decision included.
ErrorShown ==
  /\ busy' = BusyAfter /\ current' = {}
  /\ UNCHANGED <<row, poll, shownVars, been>>

ErrorArrives(c) ==
  /\ c \in current /\ req[c].pc = "refused"
  /\ ErrorShown
  /\ UNCHANGED <<req, faults>>

\* The call is lost, before the server saw it or later; the server goes on with
\* what it accepted.
CallFails(c) ==
  /\ c \in current
  /\ Fault
  /\ req' = IF req[c].pc \in {"sent", "answered"} THEN [req EXCEPT ![c] = Done] ELSE req
  /\ ErrorShown

-----------------------------------------------------------------------------
(* The specification *)

Init ==
  /\ row = [status |-> "running", decision |-> NoneYet]
  /\ poll = [i \in Slots |-> NoPoll]
  /\ data = NoData
  /\ req = [c \in Clicks \cup {Other} |-> NoReq]
  /\ current = {} /\ busy = FALSE
  /\ ceiling = 0
  /\ been = {"running"}
  /\ faults = 0

Poll(i) == SendPoll(i) \/ ServePoll(i) \/ PollArrives(i)

Endpoint(c) == Accept(c) \/ Refuse(c) \/ Complete(c) \/ Fail(c)

Answer(c) == AnswerArrives(c) \/ ErrorArrives(c)

Next ==
  \/ RunEnds
  \/ \E d \in Decisions : OtherDecides(d)
  \/ \E c \in Clicks \cup {Other} : Endpoint(c)
  \/ \E c \in Clicks : Answer(c) \/ CallFails(c)
  \/ \E c \in Clicks, d \in Decisions : OnDecide(c, d)
  \/ \E i \in Slots : Poll(i) \/ PollFails(i)

Spec == Init /\ [][Next]_vars

\* The page's timer keeps firing, calls are answered or fail.
\* Nothing obliges the pipeline, a reviewer or the environment.
FairSpec ==
  /\ Spec
  /\ \A i \in Slots : WF_vars(Poll(i))
  /\ \A c \in Clicks \cup {Other} : WF_vars(Endpoint(c))
  /\ \A c \in Clicks : WF_vars(Answer(c))

-----------------------------------------------------------------------------
(* Properties *)

\* Every variable has its type.
TypeOK ==
  /\ row \in Case /\ data \in Case \cup {NoData}
  /\ poll \in [Slots -> [pc : {"free", "sent", "answered"}, row : Case \cup {NoData}]]
  /\ req \in [Clicks \cup {Other} ->
                [pc : ReqPc, decision : Decisions \cup {NoneYet}, answer : Case \cup {NoData}]]
  /\ current \subseteq Clicks /\ busy \in BOOLEAN
  /\ ceiling \in 0..3
  /\ been \subseteq Statuses
  /\ faults \in 0..MaxFaults

\* The stepper shows no step the case has not reached, whatever the order of
\* answers and the decisions shown ahead of the server.
Reached(step) ==
  \/ step = 0
  \/ step = 1 /\ data # NoData
  \/ step = 2 /\ been \cap ({"waiting_human"} \cup Final) # {}
  \/ step = 3 /\ "completed" \in been
StepperTellsTruth == Reached(ceiling)

\* The stepper never moves back, although older rows may be shown after newer
\* ones, and a failed case counts as an earlier step (ceilingRef).
StepperMovesForward == [][ceiling' >= ceiling]_vars

\* A decision is sent only for a case that has asked for one.
AskedBeforeDecided == \A c \in Clicks : req[c].pc # "none" => "waiting_human" \in been

\* Once the case rests, the page shows its row in the end, decision included: the
\* stale answer of the approval call and late polls are overtaken, a decision
\* that was refused or lost is no longer shown.
PageCatchesUp ==
  \A s \in Final, d \in Decisions \cup {NoneYet} :
    <>[](row.status = s /\ row.decision = d) => <>[](data.status = s /\ data.decision = d)

\* The buttons are not disabled for ever.
ButtonsComeBack == busy ~> ~busy

=============================================================================
