----------------------------- MODULE CaseReport -----------------------------
(***************************************************************************)
(* What a case says about itself: the data one case carries from the       *)
(* agents' findings to the decision, the ERP write, the report and the     *)
(* e-mails, when agents fail, the order changes under it, a decision is    *)
(* tried again, or the process dies.                                       *)
(*                                                                         *)
(* Investigation has the concurrency of cases and decisions and reduces    *)
(* integration_result to a recommendation; here one task at a time works   *)
(* on one case, and the statuses the dictionaries carry are kept.  A key   *)
(* that is missing, and a value None, are None.                            *)
(***************************************************************************)
EXTENDS DecisionRules

CONSTANTS
  Events,        \* payloads: [severity, page], page being what the portal shows
  ErpStates,     \* what the ERP may hold of the order: statuses, "missing"
  MaxFaults,     \* bound: exceptions raised by a node or a service
  MaxCrashes,    \* bound: crashes followed by a restart
  MaxChanges,    \* bound: changes of the order by others
  MaxDecisions   \* bound: calls of the approval endpoint

ASSUME EventsType == Events \subseteq [severity : Severity, page : PortalStatus]
ASSUME ErpStatesType == ErpStates \subseteq OrderStatus \cup {"missing"}
ASSUME BoundsType ==
  MaxFaults \in Nat /\ MaxCrashes \in Nat /\ MaxChanges \in Nat /\ MaxDecisions \in Nat

VARIABLES
  event,    \* the payload of the case
  order,    \* status of its ERP order, or "missing"
  state,    \* the channels of its checkpoint
  next,     \* the node its checkpoint has pending
  task,     \* the task that works on it
  row,      \* its agent_executions row
  mails,    \* the e-mails sent for it
  writes,   \* history: what it wrote to its ERP order, on what row or state
  used      \* how much of each bound was used; broken: tasks that did not end well

vars == <<event, order, state, next, task, row, mails, writes, used>>

-----------------------------------------------------------------------------
(* Data *)

Decision == {"approved", "rejected", "modified"}
Known    == OrderStatus \cup {None}
Seen     == Known \cup {"missing"}
Evidence == PortalStatus \cup {None}

\* integration_result and the decision in it.
Integ   == [rec : Known, human : BOOLEAN, old : Known, new : Known, before : Known]
NoInteg == [rec |-> None, human |-> FALSE, old |-> None, new |-> None, before |-> None]

\* A report by the branch that wrote it and the statuses it names; "reason" is
\* the policy's reason, stored in place of a missing report.
Report   == [verdict : {None, "approved", "rejected", "changed", "unchanged", "reason"},
             from : Known, to : Known]
NoReport == [verdict |-> None, from |-> None, to |-> None]

\* An e-mail: the alert names the recommendation, the final one the outcome.
Mail == [kind : {"alert", "final"}, verdict : {None, "approved", "rejected", "auto"},
         rec : Known, from : Known, to : Known, sent : BOOLEAN]

State == [seen : Seen, portal : Evidence, confidence : Confidence, integ : Integ,
          decision : Decision \cup {None}, error : BOOLEAN, report : Report]
InitialState == [seen |-> None, portal |-> None, confidence |-> 0, integ |-> NoInteg,
                 decision |-> None, error |-> FALSE, report |-> NoReport]

Row == [status : {"running", "waiting_human", "completed", "failed"},
        decision : Decision \cup {None}, seen : Seen, portal : Evidence,
        integ : Integ, report : Report]

Node == {"planner", "research", "browser", "integration", "human_review",
         "reporting", "notification"}

\* by is the consumer's handler or an approval request.
Task == [by : {"handler", "request"}, decision : Decision \cup {None}, integ : Integ,
         pc : {"start", "graph", "persist", "commit", "idle", "apply", "push"}]

Write == [by : {"auto", "human"}, from : OrderStatus, to : Known, seen : Seen,
          portal : Evidence]

Readable(portal) == portal \notin {None, "error_collecting_data"}

\* Python's x or y.
Or(x, y) == IF x # None THEN x ELSE y

TaskTo(pc) == task' = [task EXCEPT !.pc = pc]
Fault      == used.faults < MaxFaults /\ used' = [used EXCEPT !.faults = @ + 1]
Breaks     == /\ used.faults < MaxFaults
              /\ used' = [used EXCEPT !.faults = @ + 1, !.broken = @ + 1]

-----------------------------------------------------------------------------
(* E-mails *)

\* Variant: the alert shows the status of the order.
AlertOfStatus(s) == [kind |-> "alert", verdict |-> None, rec |-> s.integ.new,
                     from |-> None, to |-> None, sent |-> TRUE]

BuildHitlEmail(s) == [kind |-> "alert", verdict |-> None, rec |-> s.integ.rec,
                      from |-> None, to |-> None, sent |-> TRUE]

\* Every decision but an approval or a rejection reads as auto-completed.
Outcome(decision) == IF decision \in {"approved", "rejected"} THEN decision ELSE "auto"

BuildFinalEmail(s) ==
  [kind |-> "final", verdict |-> Outcome(s.decision), rec |-> s.integ.rec,
   from |-> s.integ.old, to |-> s.integ.new, sent |-> TRUE]

\* send_email answers with a status and never raises.
SendEmail(m) ==
  \/ mails' = mails \cup {m} /\ UNCHANGED used
  \/ Fault /\ mails' = mails \cup {[m EXCEPT !.sent = FALSE]}

-----------------------------------------------------------------------------
(* The agents *)

\* A run stops before human_review unless a decision resumed it.
Stopped == next = "human_review" /\ task.by = "handler"
RunDone == task.pc = "graph" /\ (next = "end" \/ Stopped)
At(n)   == task.pc = "graph" /\ next = n /\ ~Stopped

\* A node's success clears the error an earlier one left.
Succeeds(s) == state' = [s EXCEPT !.error = FALSE]
Fails(s)    == state' = [s EXCEPT !.error = TRUE] /\ Fault

\* Every node catches its exceptions, and lets the graph go on.
Tries(s)    == (Succeeds(s) /\ UNCHANGED used) \/ Fails(state)

PlannerNode ==
  /\ At("planner")
  /\ next' = "research"
  /\ Tries(state)
  /\ UNCHANGED <<event, order, task, row, mails, writes>>

ResearchNode ==
  /\ At("research")
  /\ next' = "browser"
  /\ Tries([state EXCEPT !.seen = order])
  /\ UNCHANGED <<event, order, task, row, mails, writes>>

Found == state.seen # "missing"

WithEvidence(portal) ==
  [state EXCEPT !.portal = portal,
                !.confidence = ComputeConfidence(Found, Readable(portal), FALSE, portal)]

\* The page is read; or it could not be read, and the evidence says so; or the
\* node raises, and only lowers the confidence.
BrowserNode ==
  /\ At("browser")
  /\ next' = "integration"
  /\ \/ Succeeds(WithEvidence(event.page)) /\ UNCHANGED used
     \/ Succeeds(WithEvidence("error_collecting_data")) /\ Fault
     \/ Fails([state EXCEPT !.confidence = 35])
  /\ UNCHANGED <<event, order, task, row, mails, writes>>

SeenStatus == IF state.seen \in OrderStatus THEN state.seen ELSE None

\* Variant: the policy is not told that the evidence could not be collected.
PolicyTrusting ==
  EvaluateMismatch(SeenStatus, state.portal, TRUE, event.severity, TRUE, 84)

Policy ==
  EvaluateMismatch(SeenStatus, state.portal, Readable(state.portal), event.severity,
                   TRUE, state.confidence)

Gate == ShouldGoToHuman(state.confidence, event.severity)

\* What the case writes, and the evidence it writes it on.
SetOrder(author, new, seen, portal) ==
  /\ order' = new
  /\ writes' = writes \cup {[by |-> author, from |-> order, to |-> new,
                             seen |-> seen, portal |-> portal]}

Evaluated(old, new) ==
  [rec |-> Policy.recommended, human |-> Policy.requires_human, old |-> old, new |-> new,
   before |-> SeenStatus]

\* Pending approval: old and new status are what research saw.
IntegrationPending ==
  /\ At("integration")
  /\ Policy.requires_human
  /\ next' = Gate
  /\ Succeeds([state EXCEPT !.integ = Evaluated(SeenStatus, SeenStatus)])
  /\ UNCHANGED <<event, order, task, row, mails, writes, used>>

\* Auto path: update_order_status with the recommended status, or else with the
\* one research saw.  It refuses None; for a missing order it returns neither an
\* old nor a new status.
IntegrationAuto ==
  /\ At("integration")
  /\ ~Policy.requires_human
  /\ next' = Gate
  /\ LET new == Or(Policy.recommended, SeenStatus)
     IN  \/ /\ new = None
            /\ state' = [state EXCEPT !.error = TRUE]
            /\ UNCHANGED <<order, writes>>
         \/ /\ new # None /\ order = "missing"
            /\ Succeeds([state EXCEPT !.integ = Evaluated(None, None)])
            /\ UNCHANGED <<order, writes>>
         \/ /\ new # None /\ order # "missing"
            /\ Succeeds([state EXCEPT !.integ = Evaluated(order, new)])
            /\ SetOrder("auto", new, state.seen, state.portal)
  /\ UNCHANGED <<event, task, row, mails, used>>

IntegrationFails ==
  /\ At("integration")
  /\ next' = Gate
  /\ Fails(state)
  /\ UNCHANGED <<event, order, task, row, mails, writes>>

HumanReviewNode ==
  /\ At("human_review")
  /\ next' = "reporting"
  /\ Succeeds(state)
  /\ UNCHANGED <<event, order, task, row, mails, writes, used>>

\* Variant: without a decision the recommendation is reported as done.
TellRecommended(s) ==
  IF s.decision \in {"approved", "rejected"}
    THEN [verdict |-> s.decision, from |-> s.integ.old, to |-> s.integ.new]
    ELSE [verdict |-> "changed", from |-> s.integ.before, to |-> s.integ.rec]

\* reporting_node: the branches of root cause, recommendation and conclusion.
Tell(s) ==
  LET kept == Or(s.integ.old, Or(s.integ.before, SeenStatus))
  IN  IF s.decision = "approved"
        THEN [verdict |-> "approved", from |-> s.integ.old, to |-> s.integ.new]
      ELSE IF s.decision = "rejected"
        THEN [verdict |-> "rejected", from |-> kept, to |-> kept]
      ELSE IF s.integ.old # None /\ s.integ.new # None /\ s.integ.old # s.integ.new
        THEN [verdict |-> "changed", from |-> s.integ.old, to |-> s.integ.new]
        ELSE [verdict |-> "unchanged", from |-> kept, to |-> kept]

ReportingNode ==
  /\ At("reporting")
  /\ next' = "notification"
  /\ Tries([state EXCEPT !.report = Tell(state)])
  /\ UNCHANGED <<event, order, task, row, mails, writes>>

NotificationNode ==
  /\ At("notification")
  /\ next' = "end"
  /\ \/ SendEmail(BuildFinalEmail(state)) /\ Succeeds(state)
     \/ Fails(state) /\ UNCHANGED mails
  /\ UNCHANGED <<event, order, task, row, writes>>

-----------------------------------------------------------------------------
(* handle_exception_event *)

\* The row is marked RUNNING and the graph starts on a fresh state.
Start ==
  /\ task.pc = "start"
  /\ TaskTo("graph")
  /\ row' = [row EXCEPT !.status = "running"]
  /\ state' = InitialState
  /\ next' = "planner"
  /\ UNCHANGED <<event, order, mails, writes, used>>

\* The alert goes out inside the transaction that stores the outcome.
ReadOutcome ==
  /\ RunDone /\ task.by = "handler"
  /\ TaskTo("persist")
  /\ IF Stopped THEN SendEmail(BuildHitlEmail(state)) ELSE UNCHANGED <<mails, used>>
  /\ UNCHANGED <<event, order, state, next, row, writes>>

\* A completed case without a report is given the policy's reason.
StoredReport ==
  IF next = "end" /\ ~state.error /\ state.report = NoReport
    THEN [NoReport EXCEPT !.verdict = "reason"] ELSE state.report

PersistOutcome ==
  /\ task.pc = "persist"
  /\ TaskTo("commit")
  /\ row' = [row EXCEPT !.status = IF next # "end" THEN "waiting_human"
                                   ELSE IF state.error THEN "failed" ELSE "completed",
                        !.seen = state.seen, !.portal = state.portal,
                        !.integ = state.integ, !.report = StoredReport]
  /\ UNCHANGED <<event, order, state, next, mails, writes, used>>

\* A database or checkpointer exception: the row is marked FAILED and the message
\* dead-lettered.  A handler that fails before its graph starts leaves nothing to
\* tell, and is in Investigation.
HandlerFails ==
  /\ task.by = "handler" /\ task.pc \in {"graph", "persist"}
  /\ Breaks
  /\ TaskTo("commit")
  /\ row' = [row EXCEPT !.status = "failed"]
  /\ UNCHANGED <<event, order, state, next, mails, writes>>

CommitOffset ==
  /\ task.pc = "commit"
  /\ task' = [task EXCEPT !.pc = "idle", !.by = "request"]
  /\ UNCHANGED <<event, order, state, next, row, mails, writes, used>>

-----------------------------------------------------------------------------
(* The approval endpoint and resume_graph_after_human *)

\* Variant: an approval is applied without a recommendation.
AppliesUnrecommended(d, integ) == d = "approved"
MustApply(d, integ) == d = "approved" /\ integ.rec # None

\* What a rejection makes of the integration result it read.
Rejected(integ) ==
  LET old == Or(integ.old, integ.before)
  IN  [integ EXCEPT !.old = old, !.new = old, !.human = FALSE]

\* A decision is taken for a waiting row, and for any row whose graph has a node
\* pending: also for a failed one.  It is written to the row, and the
\* recommendation is read from it.
AcceptDecision(d) ==
  /\ task.pc = "idle"
  /\ used.decisions < MaxDecisions
  /\ used' = [used EXCEPT !.decisions = @ + 1]
  /\ row.status = "waiting_human" \/ next \in Node
  /\ row' = [row EXCEPT !.decision = d]
  /\ task' = [task EXCEPT !.pc = IF MustApply(d, row.integ) THEN "apply" ELSE "push",
                          !.decision = d,
                          !.integ = IF d = "rejected" THEN Rejected(row.integ)
                                                      ELSE row.integ]
  /\ UNCHANGED <<event, order, state, next, mails, writes>>

\* Variant: the merge keeps the statuses of the pending result.
MergeKeepsOld(integ, found, old, new) == [integ EXCEPT !.human = FALSE]

\* {**integ, **upd}: without the order the answer has no statuses, and those of
\* the pending result stay.
Merged(integ, found, old, new) ==
  IF found THEN [integ EXCEPT !.human = FALSE, !.old = old, !.new = new,
                              !.before = Or(integ.before, integ.old)]
           ELSE [integ EXCEPT !.human = FALSE, !.before = Or(integ.before, integ.old)]

ApplyErp ==
  /\ task.pc = "apply"
  /\ LET found == order # "missing"
         rec   == task.integ.rec
     IN  /\ task' = [task EXCEPT !.pc = "push",
                                 !.integ = Merged(@, found, order, rec)]
         /\ IF found THEN SetOrder("human", rec, row.seen, row.portal)
                     ELSE UNCHANGED <<order, writes>>
  /\ UNCHANGED <<event, state, next, row, mails, used>>

\* aupdate_state, then ainvoke(None): the graph goes on from the pending node.
ResumeGraph ==
  /\ task.pc = "push"
  /\ TaskTo("graph")
  /\ state' = [state EXCEPT !.decision = task.decision, !.integ = task.integ]
  /\ UNCHANGED <<event, order, next, row, mails, writes, used>>

\* What the request settled wins over what the graph returned, unless it is empty:
\* a rejection never is.
FinishDecision ==
  /\ RunDone /\ task.by = "request"
  /\ TaskTo("idle")
  /\ row' = [row EXCEPT !.status = IF state.error THEN "failed" ELSE "completed",
                        !.decision = task.decision,
                        !.seen = state.seen, !.portal = state.portal,
                        !.integ = IF task.integ = NoInteg /\ task.decision # "rejected"
                                    THEN state.integ ELSE task.integ,
                        !.report = state.report]
  /\ UNCHANGED <<event, order, state, next, mails, writes, used>>

\* An exception of the resume: the endpoint marks the row FAILED.  The checkpoint
\* keeps its pending node, so the decision can be sent again.
RequestFails ==
  /\ task.by = "request" /\ task.pc \in {"apply", "push", "graph"}
  /\ Breaks
  /\ TaskTo("idle")
  /\ row' = [row EXCEPT !.status = "failed"]
  /\ UNCHANGED <<event, order, state, next, mails, writes>>

-----------------------------------------------------------------------------
(* The environment *)

\* Somebody else changes the order: a reset deletes it, a feed creates it if it is
\* not there, another case updates it if it is.
OrderDeleted == order' = "missing"
OrderFed     == order = "missing" /\ order' \in ErpStates \ {"missing"}
OrderUpdated == order # "missing" /\ order' \in ErpStates \ {"missing"}

OrderChanges ==
  /\ used.changes < MaxChanges
  /\ used' = [used EXCEPT !.changes = @ + 1]
  /\ OrderDeleted \/ OrderFed \/ OrderUpdated
  /\ UNCHANGED <<event, state, next, task, row, mails, writes>>

\* The process dies: the handler's message is delivered again, a request is lost.
Crash ==
  /\ used.crashes < MaxCrashes
  /\ used' = [used EXCEPT !.crashes = @ + 1, !.broken = @ + 1]
  /\ TaskTo(IF task.by = "handler" THEN "start" ELSE "idle")
  /\ UNCHANGED <<event, order, state, next, row, mails, writes>>

-----------------------------------------------------------------------------
(* The specification *)

Init ==
  /\ event \in Events
  /\ order \in ErpStates
  /\ state = InitialState
  /\ next = "planner"
  /\ task = [by |-> "handler", decision |-> None, integ |-> NoInteg, pc |-> "start"]
  /\ row = [status |-> "running", decision |-> None, seen |-> None, portal |-> None,
            integ |-> NoInteg, report |-> NoReport]
  /\ mails = {}
  /\ writes = {}
  /\ used = [faults |-> 0, crashes |-> 0, changes |-> 0, decisions |-> 0, broken |-> 0]

GraphStep ==
  \/ PlannerNode
  \/ ResearchNode
  \/ BrowserNode
  \/ IntegrationPending
  \/ IntegrationAuto
  \/ IntegrationFails
  \/ HumanReviewNode
  \/ ReportingNode
  \/ NotificationNode

HandlerStep ==
  \/ Start
  \/ ReadOutcome
  \/ PersistOutcome
  \/ HandlerFails
  \/ CommitOffset

DecisionStep ==
  \/ \E d \in Decision : AcceptDecision(d)
  \/ ApplyErp
  \/ ResumeGraph
  \/ FinishDecision
  \/ RequestFails

Next == GraphStep \/ HandlerStep \/ DecisionStep \/ OrderChanges \/ Crash

Spec == Init /\ [][Next]_vars

-----------------------------------------------------------------------------
(* Properties *)

\* Every variable holds what the code could store in it.
TypeOK ==
  /\ event \in Events
  /\ order \in OrderStatus \cup {"missing"}
  /\ state \in State
  /\ next \in Node \cup {"end"}
  /\ task \in Task
  /\ row \in Row
  /\ mails \subseteq Mail
  /\ writes \subseteq Write
  /\ used \in [faults : Nat, crashes : Nat, changes : Nat, decisions : Nat, broken : Nat]

Unsafe ==
  \/ event.severity \in {"high", "critical"}
  \/ ~Readable(state.portal)
  \/ state.seen = "missing"

\* README.md:361-367: whatever agents failed on the way, the graph stops for a
\* human exactly when the severity is high or critical, the evidence is unusable
\* or the ERP order was not found; and the policy's own flag says the same, so no
\* write of the automatic path is followed by a stop, and no stop is skipped.
AskedExactlyWhenUnsafe ==
  next \in {"human_review", "reporting", "notification", "end"} /\ state.decision = None
    => /\ (next = "human_review") <=> Unsafe
       /\ state.integ # NoInteg => (state.integ.human <=> Unsafe)

\* nodes.py:282 clears the error of an agent that failed, and the case may still
\* end COMPLETED; yet nothing is written to the ERP unless research found the
\* order and the portal was read, and then what this evidence calls for.
EvidenceBeforeWrite ==
  \A w \in writes :
    /\ w.seen \in OrderStatus /\ Readable(w.portal)
    /\ w.to = Recommendation(w.portal) \/ (w.by = "auto" /\ w.to = w.seen)

\* execution_handler.py:200-229: what an approval writes is what an alert told the
\* approvers, however often a high or critical case was run, failed and decided.
\* A case of a lower severity may have ended without a human and without finding
\* its order, and be approved when it was lost, run again and failed: then a task
\* of it did not end well.
ApprovedIsWhatWasShown ==
  event.severity \in {"high", "critical"} \/ used.broken = 0 =>
    \A w \in writes : w.by = "human" => \E m \in mails : m.kind = "alert" /\ m.rec = w.to

\* A change from one status to another that a text or a record names.
Names(x, from, to) == x.from = from /\ x.to = to
Changed(from, to)  == from # to /\ from # None /\ to # None
Made(from, to)     == \E w \in writes : Names(w, from, to)

\* nodes.py:309 and execution_handler.py:194: no report, no e-mail and no
\* integration_result names a change of the ERP status that the case did not make
\* -- not even when the order was deleted or changed while the case waited.
ClaimedChangesAreReal ==
  /\ Changed(row.report.from, row.report.to) => Made(row.report.from, row.report.to)
  /\ Changed(row.integ.old, row.integ.new) => Made(row.integ.old, row.integ.new)
  /\ \A m \in mails : Changed(m.from, m.to) => Made(m.from, m.to)

\* The converse: the final e-mail, the report and the row of a completed case tell
\* every change the case made, unless a task of it failed or was lost on the way
\* (a reporting node that failed leaves no report).
EveryChangeIsTold ==
  row.status = "completed" /\ used.broken = 0 =>
    \A w \in writes : w.from # w.to =>
      /\ \E m \in mails : m.kind = "final" /\ Names(m, w.from, w.to)
      /\ row.report.verdict \in {None, "reason"} \/ Names(row.report, w.from, w.to)
      /\ row.integ.old = w.from /\ row.integ.new = w.to

=============================================================================
