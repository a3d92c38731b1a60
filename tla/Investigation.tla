--------------------------- MODULE Investigation ---------------------------
(***************************************************************************)
(* The life of an investigation in the OpsForge backend: the simulate      *)
(* endpoint, the Kafka topic and its consumer, the handler that runs the   *)
(* LangGraph pipeline, its checkpoints, the approval endpoint that resumes *)
(* the graph, the ERP orders it changes, the e-mails, and the resets.      *)
(*                                                                         *)
(* One process runs everything as asyncio tasks, so a task keeps control   *)
(* between two awaits: an action is what a task does in one database       *)
(* transaction, one graph node or one call to another service.  Rows,      *)
(* checkpoints, topic and offsets survive a crash; tasks do not.           *)
(*                                                                         *)
(* A definition commented as a Variant is a plausible mistake in the one   *)
(* it precedes.  No behaviour uses it: it stands in for that definition    *)
(* when a property's power to notice the mistake is tried.                 *)
(***************************************************************************)
EXTENDS DecisionRules, Sequences, FiniteSets

CONSTANTS
  Threads,          \* thread ids; each is one call of the simulate endpoint
  Requests,         \* calls of the approval endpoint
  Orders,           \* order numbers
  Events,           \* payloads: [order, severity, portal]
  InitialErp,       \* statuses an order is fed with
  Consumer,         \* the consumer task, as an actor that runs the graph
  NoThread,
  MaxFaults,        \* bound: exceptions raised by a node or a service
  MaxCrashes,       \* bound: crashes followed by a restart
  MaxResets,        \* bound: administrative resets and feeds
  SerialSimulate,   \* TRUE: the console sends one simulate call at a time
  FollowUi          \* TRUE: decisions are sent only for cases shown as waiting

ASSUME EventsAssumption ==
  Events \subseteq [order : Orders, severity : Severity, portal : PortalStatus]
ASSUME InitialErpAssumption == InitialErp \subseteq OrderStatus
ASSUME ActorAssumption ==
  Consumer \notin Requests /\ NoThread \notin Threads /\ "auto" \notin Requests
ASSUME BoundAssumption ==
  MaxFaults \in Nat /\ MaxCrashes \in Nat /\ MaxResets \in Nat

VARIABLES
  event,       \* event[t]: the payload of simulate call t
  sim,         \* sim[t]: how far simulate call t got
  row,         \* row[t]: the agent_executions row
  topic,       \* topic[o]: messages keyed by order o, in order
  committed,   \* committed[o]: committed offset of the consumer group
  dlq,         \* threads whose message was sent to the dead letter queue
  handler,     \* the consumer task: where it is and what it works on
  req,         \* req[r]: where approval request r is
  run,         \* run[a]: the graph run of actor a
  cp,          \* cp[t]: the latest checkpoint of thread t
  erp,         \* erp[o]: status of the ERP order, or "missing"
  audit,       \* integration_logs rows
  mail,        \* mail[t]: e-mails sent for thread t
  writes,      \* history: which cases changed the ERP, and on whose word
  used         \* how much of each bound was used

vars == <<event, sim, row, topic, committed, dlq, handler, req, run, cp, erp,
          audit, mail, writes, used>>

-----------------------------------------------------------------------------
(* Data *)

Decision == {"approved", "rejected", "modified"}
Status   == {"running", "waiting_human", "completed", "failed"}
Active   == {"running", "waiting_human"}
Node     == {"planner", "research", "browser", "integration", "human_review",
             "reporting", "notification"}
Actors   == Requests \cup {Consumer}

\* integration_result, reduced to the recommendation, who the decision's reason
\* says settled it, and the success flag of the ERP call.  NoInteg is {}.
Integ   == [rec : OrderStatus \cup {None},
            claim : {None, "pending", "auto", "approved", "rejected"}, ok : BOOLEAN]
NoInteg == [rec |-> None, claim |-> None, ok |-> FALSE]

\* AgentState, reduced to the channels the control flow reads.  erp is the
\* status research saw: None before research, "missing" if it found no order.
Values == [erp : OrderStatus \cup {None, "missing"}, portal : PortalStatus \cup {None},
           confidence : Confidence, integ : Integ, decision : Decision \cup {None},
           error : BOOLEAN]
InitialState == [erp |-> None, portal |-> None, confidence |-> 0, integ |-> NoInteg,
                 decision |-> None, error |-> FALSE]

Row   == [status : Status \cup {None}, decision : Decision \cup {None}, integ : Integ]
NoRow == [status |-> None, decision |-> None, integ |-> NoInteg]

Checkpoint   == [next : Node \cup {None, "end"}, values : Values]
NoCheckpoint == [next |-> None, values |-> InitialState]

\* A run executes node next on values; dirty while the checkpoint of the node
\* it executed last is not written; resumed until it has executed a node.
Run   == [thread : Threads \cup {NoThread}, next : Node \cup {None, "end"},
          values : Values, dirty : BOOLEAN, resumed : BOOLEAN]
NoRun == [thread |-> NoThread, next |-> None, values |-> InitialState,
          dirty |-> FALSE, resumed |-> FALSE]

HandlerPc == {"idle", "mark", "start", "graph", "persist", "fail", "commit",
              "dlq", "commit_dlq", "dead"}
Handler   == [pc : HandlerPc, thread : Threads \cup {NoThread}, interrupted : BOOLEAN]
Idle      == [pc |-> "idle", thread |-> NoThread, interrupted |-> FALSE]

RequestPc == {"idle", "accepted", "load", "apply", "push", "resume", "graph",
              "fail", "done"}
Request   == [pc : RequestPc, thread : Threads \cup {NoThread},
              decision : Decision \cup {None}, integ : Integ]
Unsent    == [pc |-> "idle", thread |-> NoThread, decision |-> None, integ |-> NoInteg]

HasRow(t)     == row[t].status # None
IsActive(t)   == row[t].status \in Active
HasPending(t) == cp[t].next \in Node        \* bool(snapshot.next)
Order(t)      == event[t].order

intakeVars == <<event, sim>>
kafkaVars  == <<topic, committed, dlq>>
erpVars    == <<erp, audit, writes>>

Fault == used.faults < MaxFaults /\ used' = [used EXCEPT !.faults = @ + 1]

-----------------------------------------------------------------------------
(* The simulate endpoint *)

InProgress(t) == sim[t] \in {"checked", "inserted"}

\* Variant: a waiting case is not seen as active.
FindRunning(t) == {u \in Threads : row[u].status = "running" /\ Order(u) = Order(t)}

\* find_active_execution_for_order.
FindActive(t)  == {u \in Threads : IsActive(u) /\ Order(u) = Order(t)}

\* A row it finds is answered with a 409.
CheckActive(t) ==
  /\ sim[t] = "idle"
  /\ SerialSimulate => \A u \in Threads : ~InProgress(u)
  /\ sim' = [sim EXCEPT ![t] =
               IF FindActive(t) # {} THEN "refused" ELSE "checked"]
  /\ UNCHANGED <<event, row, kafkaVars, handler, req, run, cp, erpVars, mail, used>>

InsertExecution(t) ==
  /\ sim[t] = "checked"
  /\ sim' = [sim EXCEPT ![t] = "inserted"]
  /\ row' = [row EXCEPT ![t] = [NoRow EXCEPT !.status = "running"]]
  /\ UNCHANGED <<event, kafkaVars, handler, req, run, cp, erpVars, mail, used>>

Deliver(t) == topic' = [topic EXCEPT ![Order(t)] = Append(@, t)]

\* Variant: the event is published before the row is committed.
MayPublishEarly(t) == sim[t] \in {"checked", "inserted"}
MayPublish(t)      == sim[t] = "inserted"

PublishEvent(t) ==
  /\ MayPublish(t)
  /\ sim' = [sim EXCEPT ![t] = "published"]
  /\ Deliver(t)
  /\ UNCHANGED <<event, row, committed, dlq, handler, req, run, cp, erpVars, mail, used>>

\* The producer raises.  async_error_handler turns the KafkaError into an
\* HTTPException before async_retry sees it, so there is no second attempt; the
\* broker may or may not have stored the message.
PublishFails(t) ==
  /\ sim[t] = "inserted"
  /\ Fault
  /\ sim' = [sim EXCEPT ![t] = "failed"]
  /\ Deliver(t) \/ UNCHANGED topic
  /\ UNCHANGED <<event, row, committed, dlq, handler, req, run, cp, erpVars, mail>>

-----------------------------------------------------------------------------
(* The consumer loop and handle_exception_event *)

handlerThread == handler.thread
HandlerTo(pc) == handler' = [handler EXCEPT !.pc = pc]

\* The next message of a partition.  One message is in flight at a time, so the
\* position of the consumer is the committed offset.
Poll(o) ==
  /\ handler.pc = "idle"
  /\ committed[o] < Len(topic[o])
  /\ handler' = [Idle EXCEPT !.pc = "mark", !.thread = topic[o][committed[o] + 1]]
  /\ UNCHANGED <<intakeVars, row, kafkaVars, req, run, cp, erpVars, mail, used>>

\* get_graph is called outside the try: its exception skips the except branch.
GetGraphFails ==
  /\ handler.pc = "mark"
  /\ Fault
  /\ HandlerTo("dlq")
  /\ UNCHANGED <<intakeVars, row, kafkaVars, req, run, cp, erpVars, mail>>

\* First transaction: the row becomes RUNNING whatever it was; a missing row is
\* only logged.
MarkRunning ==
  /\ handler.pc = "mark"
  /\ HandlerTo("start")
  /\ row' = [row EXCEPT ![handlerThread] =
               IF HasRow(handlerThread) THEN [@ EXCEPT !.status = "running"] ELSE @]
  /\ UNCHANGED <<intakeVars, kafkaVars, req, run, cp, erpVars, mail, used>>

\* ainvoke with a fresh state: the input is checkpointed over whatever the
\* thread held, and the graph starts at the planner.
StartGraph ==
  /\ handler.pc = "start"
  /\ HandlerTo("graph")
  /\ cp'  = [cp EXCEPT ![handlerThread] = [next |-> "planner", values |-> InitialState]]
  /\ run' = [run EXCEPT ![Consumer] =
               [NoRun EXCEPT !.thread = handlerThread, !.next = "planner"]]
  /\ UNCHANGED <<intakeVars, row, kafkaVars, req, erpVars, mail, used>>

\* A run returns at END, or before human_review unless it was resumed there.
RunDone(a) ==
  /\ ~run[a].dirty
  /\ \/ run[a].next = "end"
     \/ run[a].next = "human_review" /\ ~run[a].resumed

SendHitlAlert(t) == mail' = [mail EXCEPT ![t].hitl = @ + 1]

\* aget_state, the select that opens the second transaction and the alert that
\* is sent inside it.  Without a row the handler returns normally.
ReadOutcome ==
  /\ handler.pc = "graph" /\ RunDone(Consumer)
  /\ LET t == handlerThread
     IN  IF HasRow(t)
           THEN /\ handler' = [handler EXCEPT !.pc = "persist",
                                              !.interrupted = HasPending(t)]
                /\ IF HasPending(t) THEN SendHitlAlert(t) ELSE UNCHANGED mail
           ELSE HandlerTo("commit") /\ UNCHANGED mail
  /\ UNCHANGED <<intakeVars, row, kafkaVars, req, run, cp, erpVars, used>>

\* Variant: the error branch forgets the status.
ErrorLeftRunning(final, interrupted) ==
  IF interrupted THEN "waiting_human" ELSE IF final.error THEN "running" ELSE "completed"
OutcomeStatus(final, interrupted) ==
  IF interrupted THEN "waiting_human" ELSE IF final.error THEN "failed" ELSE "completed"

\* The commit of the second transaction: only a row that still exists can be
\* updated, StaleDataError otherwise.
PersistOutcome ==
  /\ handler.pc = "persist"
  /\ LET t == handlerThread
         final == run[Consumer].values
     IN  IF HasRow(t)
           THEN /\ row' = [row EXCEPT ![t].integ = final.integ,
                                      ![t].status = OutcomeStatus(final, handler.interrupted)]
                /\ HandlerTo("commit")
           ELSE HandlerTo("fail") /\ UNCHANGED row
  /\ UNCHANGED <<intakeVars, kafkaVars, req, run, cp, erpVars, mail, used>>

\* A database or checkpointer exception inside the try.
HandlerFails ==
  /\ handler.pc \in {"mark", "start", "graph", "persist"}
  /\ Fault
  /\ HandlerTo("fail")
  /\ run' = [run EXCEPT ![Consumer] = NoRun]
  /\ UNCHANGED <<intakeVars, row, kafkaVars, req, cp, erpVars, mail>>

\* The except branch marks the row FAILED and re-raises.
MarkFailed ==
  /\ handler.pc = "fail"
  /\ HandlerTo("dlq")
  /\ row' = [row EXCEPT ![handlerThread] =
               IF HasRow(handlerThread) THEN [@ EXCEPT !.status = "failed"] ELSE @]
  /\ UNCHANGED <<intakeVars, kafkaVars, req, run, cp, erpVars, mail, used>>

MarkFailedFails ==
  /\ handler.pc = "fail"
  /\ Fault
  /\ HandlerTo("dlq")
  /\ UNCHANGED <<intakeVars, row, kafkaVars, req, run, cp, erpVars, mail>>

Advance(t) == committed' = [committed EXCEPT ![Order(t)] = @ + 1]

\* Variant: the offset may be committed before the outcome is.
CommitsBeforePersist == handler.pc \in {"persist", "commit", "commit_dlq"}
MayCommit            == handler.pc \in {"commit", "commit_dlq"}

CommitOffset ==
  /\ MayCommit
  /\ handler' = Idle
  /\ run' = [run EXCEPT ![Consumer] = NoRun]
  /\ Advance(handlerThread)
  /\ UNCHANGED <<intakeVars, row, topic, dlq, req, cp, erpVars, mail, used>>

PublishToDlq ==
  /\ handler.pc = "dlq"
  /\ HandlerTo("commit_dlq")
  /\ dlq' = dlq \cup {handlerThread}
  /\ UNCHANGED <<intakeVars, row, topic, committed, req, run, cp, erpVars, mail, used>>

\* A failing commit sends a handled message to the dead letter queue; a failure
\* there ends the loop, which nothing restarts.
LoopFails ==
  /\ handler.pc \in {"commit", "dlq", "commit_dlq"}
  /\ Fault
  /\ HandlerTo(IF handler.pc = "commit" THEN "dlq" ELSE "dead")
  /\ UNCHANGED <<intakeVars, row, kafkaVars, req, run, cp, erpVars, mail>>

-----------------------------------------------------------------------------
(* The graph, run by actor a *)

AtNode(a, n) == run[a].next = n /\ ~run[a].dirty /\ ~RunDone(a)

\* The node finished with these channel values and its successor is next.  Its
\* checkpoint is written later: a crash, or another run of the thread, may come
\* between the node's effect and its checkpoint.
NodeDone(a, values, next) ==
  /\ run' = [run EXCEPT ![a] = [@ EXCEPT !.values = values, !.next = next,
                                         !.dirty = TRUE, !.resumed = FALSE]]
  /\ UNCHANGED cp

\* The same for a node that neither reads nor changes anything another task
\* shares: node and checkpoint are one step.
NodeSaved(a, values, next) ==
  /\ run' = [run EXCEPT ![a] = [@ EXCEPT !.values = values, !.next = next,
                                         !.resumed = FALSE]]
  /\ cp' = [cp EXCEPT ![run[a].thread] = [next |-> next, values |-> values]]

Succeeded(values) == [values EXCEPT !.error = FALSE]
Failed(values)    == [values EXCEPT !.error = TRUE]

\* The edges of the graph but the conditional one.  An order_number is always in
\* the event: the planner's plan never matters.
Edges == [planner |-> "research", research |-> "browser", browser |-> "integration",
          human_review |-> "reporting", reporting |-> "notification",
          notification |-> "end"]

\* Variant: the edge to the notification node is missing.
NoNotification(n) == [Edges EXCEPT !.reporting = "end"][n]
Successor(n)      == Edges[n]

graphUnchanged == <<intakeVars, row, kafkaVars, handler, req>>

PlannerNode(a) ==
  /\ AtNode(a, "planner")
  /\ NodeSaved(a, Succeeded(run[a].values), Successor("planner"))
  /\ UNCHANGED <<graphUnchanged, erpVars, mail, used>>

OrderDetails(t) == erp[Order(t)]

\* What the ERP holds now.
ResearchNode(a) ==
  /\ AtNode(a, "research")
  /\ NodeDone(a, Succeeded([run[a].values EXCEPT !.erp = OrderDetails(run[a].thread)]),
              Successor("research"))
  /\ UNCHANGED <<graphUnchanged, erpVars, mail, used>>

Readable(portal) == portal \notin {None, "error_collecting_data"}

\* The portal page is read, or the agent returns evidence without success.
BrowserNode(a) ==
  /\ AtNode(a, "browser")
  /\ LET Evidence(portal) ==
           LET v == run[a].values
           IN  Succeeded([v EXCEPT !.portal = portal,
                          !.confidence = ComputeConfidence(v.erp # "missing",
                                                           Readable(portal), FALSE, portal)])
     IN  \/ /\ NodeSaved(a, Evidence(event[run[a].thread].portal), Successor("browser"))
            /\ UNCHANGED used
         \/ /\ Fault
            /\ NodeSaved(a, Evidence("error_collecting_data"), Successor("browser"))
  /\ UNCHANGED <<graphUnchanged, erpVars, mail>>

\* research_data.order.status: None if research failed or found no order.
SeenStatus(a) == IF run[a].values.erp \in OrderStatus THEN run[a].values.erp ELSE None

\* The policy's answer, from the channel values and the event.
PolicyOf(a) ==
  LET v == run[a].values
  IN  EvaluateMismatch(SeenStatus(a), v.portal, Readable(v.portal),
                       event[run[a].thread].severity, TRUE, v.confidence)

AfterIntegration(a) ==
  ShouldGoToHuman(run[a].values.confidence, event[run[a].thread].severity)

WithInteg(values, rec, claim, ok) ==
  Succeeded([values EXCEPT !.integ = [rec |-> rec, claim |-> claim, ok |-> ok]])

\* The order is there: its status changes, with by as the author of the change
\* and seen as the status the case was decided on.
SetOrder(t, by, seen, new) ==
  /\ erp' = [erp EXCEPT ![Order(t)] = new]
  /\ writes' = writes \cup {[thread |-> t, by |-> by, seen |-> seen,
                             from |-> erp[Order(t)], to |-> new]}

InErp(t) == erp[Order(t)] # "missing"

\* update_order_status: without the order nothing changes and success is False.
UpdateOrderStatus(t, seen, new) ==
  IF InErp(t) THEN SetOrder(t, "auto", seen, new) ELSE UNCHANGED <<erp, writes>>

\* Pending approval: the ERP stays as it is.
IntegrationPending(a) ==
  /\ AtNode(a, "integration")
  /\ PolicyOf(a).requires_human
  /\ NodeSaved(a, WithInteg(run[a].values, PolicyOf(a).recommended, "pending", TRUE),
              AfterIntegration(a))
  /\ UNCHANGED <<graphUnchanged, erpVars, mail, used>>

\* Auto path: the recommended status, or else the status research saw, is
\* written to the order.  No audit row is written.
IntegrationAuto(a) ==
  /\ AtNode(a, "integration")
  /\ ~PolicyOf(a).requires_human
  /\ LET t   == run[a].thread
         rec == PolicyOf(a).recommended
         new == IF rec # None THEN rec ELSE SeenStatus(a)
     IN  \/ /\ new = None          \* the tool refuses the argument
            /\ NodeDone(a, Failed(run[a].values), AfterIntegration(a))
            /\ UNCHANGED erpVars
         \/ /\ new # None
            /\ NodeDone(a, WithInteg(run[a].values, rec, "auto", InErp(t)), AfterIntegration(a))
            /\ UpdateOrderStatus(t, SeenStatus(a), new)
            /\ UNCHANGED audit
  /\ UNCHANGED <<graphUnchanged, mail, used>>

\* human_review and reporting change no channel this model keeps but error.
HumanReviewNode(a) ==
  /\ AtNode(a, "human_review")
  /\ NodeSaved(a, Succeeded(run[a].values), Successor("human_review"))
  /\ UNCHANGED <<graphUnchanged, erpVars, mail, used>>

ReportingNode(a) ==
  /\ AtNode(a, "reporting")
  /\ NodeSaved(a, Succeeded(run[a].values), Successor("reporting"))
  /\ UNCHANGED <<graphUnchanged, erpVars, mail, used>>

\* send_email never raises: a message it could not send is only reported so.
SendFinalNotification(t) == mail' = [mail EXCEPT ![t].final = @ + 1]

NotificationNode(a) ==
  /\ AtNode(a, "notification")
  /\ SendFinalNotification(run[a].thread)
  /\ NodeDone(a, Succeeded(run[a].values), Successor("notification"))
  /\ UNCHANGED <<graphUnchanged, erpVars, used>>

\* Every node catches its exceptions, records the error and lets the graph go on;
\* the browser node also lowers the confidence.
NodeFails(a) ==
  /\ \E n \in Node \ {"human_review", "integration"} :
       /\ AtNode(a, n)
       /\ NodeSaved(a, IF n = "browser" THEN [Failed(run[a].values) EXCEPT !.confidence = 35]
                                       ELSE Failed(run[a].values), Successor(n))
  /\ Fault
  /\ UNCHANGED <<graphUnchanged, erpVars, mail>>

IntegrationFails(a) ==
  /\ AtNode(a, "integration")
  /\ NodeSaved(a, Failed(run[a].values), AfterIntegration(a))
  /\ Fault
  /\ UNCHANGED <<graphUnchanged, erpVars, mail>>

SaveCheckpoint(a) ==
  /\ run[a].dirty
  /\ run' = [run EXCEPT ![a].dirty = FALSE]
  /\ cp' = [cp EXCEPT ![run[a].thread] = [next |-> run[a].next, values |-> run[a].values]]
  /\ UNCHANGED <<intakeVars, row, kafkaVars, handler, req, erpVars, mail, used>>

-----------------------------------------------------------------------------
(* The approval endpoint and resume_graph_after_human *)

RequestTo(r, pc) == req' = [req EXCEPT ![r].pc = pc]

\* The console offers the decision buttons for a waiting case only, and offers
\* approval and rejection only.
OfferedByUi(t, d)        == row[t].status = "waiting_human" /\ d # "modified"

\* The row is read, then the snapshot: a decision is accepted for a row shown
\* as waiting, and also whenever the graph has a pending node.
AcceptDecision(r, t, d) ==
  /\ req[r].pc = "idle"
  /\ HasRow(t)
  /\ row[t].status = "waiting_human" \/ HasPending(t)
  /\ FollowUi => OfferedByUi(t, d)
  /\ req' = [req EXCEPT ![r] = [Unsent EXCEPT !.pc = "accepted", !.thread = t,
                                              !.decision = d]]
  /\ UNCHANGED <<intakeVars, row, kafkaVars, handler, run, cp, erpVars, mail, used>>

\* Variant: the endpoint sets RUNNING again.
DecidedAndRunning(case, d) == [case EXCEPT !.decision = d, !.status = "running"]

\* The endpoint leaves the status alone: the assignment of RUNNING is commented out.
Decided(case, d)           == [case EXCEPT !.decision = d]

\* The endpoint writes the decision on the row it read; if the row was deleted
\* meanwhile the commit raises and the request ends.
RecordDecision(r) ==
  /\ req[r].pc = "accepted"
  /\ LET t == req[r].thread
     IN  IF HasRow(t)
           THEN /\ row' = [row EXCEPT ![t] = Decided(@, req[r].decision)]
                /\ RequestTo(r, "load")
           ELSE UNCHANGED row /\ RequestTo(r, "done")
  /\ UNCHANGED <<intakeVars, kafkaVars, handler, run, cp, erpVars, mail, used>>

\* Variants: without the recommendation; on any decision; on everything but a
\* rejection.
AppliesUnrecommended(d, integ) == d = "approved"
AppliesAnyDecision(d, integ)   == integ.rec # None
AppliesUnlessRejected(d, integ) == d # "rejected" /\ integ.rec # None

\* The ERP is updated before the graph is resumed only for an approval of a
\* recommended status.
MustApply(d, integ) == d = "approved" /\ integ.rec # None

\* First transaction of the resume: read the recommendation, write the decision
\* again.  A rejection is settled on the copy read here.
LoadCase(r) ==
  /\ req[r].pc = "load"
  /\ LET t     == req[r].thread
         d     == req[r].decision
         integ == row[t].integ
     IN  IF HasRow(t)
           THEN /\ row' = [row EXCEPT ![t].decision = d]
                /\ req' = [req EXCEPT ![r].pc = IF MustApply(d, integ) THEN "apply" ELSE "push",
                                      ![r].integ = IF d = "rejected"
                                                     THEN [integ EXCEPT !.claim = "rejected"]
                                                     ELSE integ]
           ELSE UNCHANGED row /\ RequestTo(r, "fail")
  /\ UNCHANGED <<intakeVars, kafkaVars, handler, run, cp, erpVars, mail, used>>

LogRow(r, success) == [request |-> r, thread |-> req[r].thread, success |-> success]

\* Variant: the success branch writes no log row.
LogFailureOnly(r, found) == IF found THEN audit ELSE audit \cup {LogRow(r, found)}
Logged(r, found)         == audit \cup {LogRow(r, found)}

\* update_order_in_erp: order and integration_logs row in one transaction.  The
\* reason names the update whether or not the order was there.
ApplyErp(r) ==
  /\ req[r].pc = "apply"
  /\ LET t     == req[r].thread
     IN  /\ IF InErp(t) THEN SetOrder(t, r, cp[t].values.erp, req[r].integ.rec)
                        ELSE UNCHANGED <<erp, writes>>
         /\ audit' = Logged(r, InErp(t))
         /\ req' = [req EXCEPT ![r].pc = "push",
                               ![r].integ = [@ EXCEPT !.claim = "approved", !.ok = InErp(t)]]
  /\ UNCHANGED <<intakeVars, row, kafkaVars, handler, run, cp, mail, used>>

\* aupdate_state: a new checkpoint with the same pending node.
PushState(r) ==
  /\ req[r].pc = "push"
  /\ cp' = [cp EXCEPT ![req[r].thread].values =
              [@ EXCEPT !.decision = req[r].decision, !.integ = req[r].integ]]
  /\ RequestTo(r, "resume")
  /\ UNCHANGED <<intakeVars, row, kafkaVars, handler, run, erpVars, mail, used>>

\* ainvoke(None): continue from the latest checkpoint.
ResumeGraph(r) ==
  /\ req[r].pc = "resume"
  /\ LET t == req[r].thread
     IN  run' = [run EXCEPT ![r] = [NoRun EXCEPT !.thread = t, !.next = cp[t].next,
                                                 !.values = cp[t].values, !.resumed = TRUE]]
  /\ RequestTo(r, "graph")
  /\ UNCHANGED <<intakeVars, row, kafkaVars, handler, cp, erpVars, mail, used>>

\* Variant: after an error the row keeps waiting.
ErrorLeftWaiting(final) == IF final.error THEN "waiting_human" ELSE "completed"
FinalStatus(final)      == IF final.error THEN "failed" ELSE "completed"

\* The last transaction.  What the request settled wins over what the graph
\* returns; without a row nothing is written.
FinishDecision(r) ==
  /\ req[r].pc = "graph" /\ RunDone(r)
  /\ LET t     == req[r].thread
         final == run[r].values
     IN  row' = [row EXCEPT ![t] =
                   IF HasRow(t)
                     THEN [status   |-> FinalStatus(final),
                           decision |-> req[r].decision,
                           integ    |-> IF req[r].integ = NoInteg THEN final.integ
                                                                  ELSE req[r].integ]
                     ELSE @]
  /\ RequestTo(r, "done")
  /\ run' = [run EXCEPT ![r] = NoRun]
  /\ UNCHANGED <<intakeVars, kafkaVars, handler, cp, erpVars, mail, used>>

RequestFails(r) ==
  /\ req[r].pc \in {"load", "apply", "push", "resume", "graph"}
  /\ Fault
  /\ RequestTo(r, "fail")
  /\ run' = [run EXCEPT ![r] = NoRun]
  /\ UNCHANGED <<intakeVars, row, kafkaVars, handler, cp, erpVars, mail>>

\* The endpoint's except branch.
FailCase(r) ==
  /\ req[r].pc = "fail"
  /\ LET t == req[r].thread
     IN  row' = [row EXCEPT ![t] = IF HasRow(t) THEN [@ EXCEPT !.status = "failed"] ELSE @]
  /\ RequestTo(r, "done")
  /\ UNCHANGED <<intakeVars, kafkaVars, handler, run, cp, erpVars, mail, used>>

-----------------------------------------------------------------------------
(* Administration, crashes *)

UseReset == used.resets < MaxResets /\ used' = [used EXCEPT !.resets = @ + 1]

\* Rows and their audit rows go; checkpoints, messages and orders stay.
DeleteCases(S) ==
  /\ row' = [t \in Threads |-> IF t \in S THEN NoRow ELSE row[t]]
  /\ audit' = {l \in audit : l.thread \notin S}
  /\ UNCHANGED <<intakeVars, kafkaVars, handler, req, run, cp, erp, mail, writes>>

ResetInvestigations ==
  /\ UseReset
  /\ \/ DeleteCases(Threads)
     \/ \E o \in Orders : DeleteCases({t \in Threads : HasRow(t) /\ Order(t) = o})

ResetErpOrders ==
  /\ UseReset
  /\ erp' = [o \in Orders |-> "missing"]
  /\ UNCHANGED <<intakeVars, row, kafkaVars, handler, req, run, cp, audit, mail, writes>>

FeedErpOrder(o) ==
  /\ UseReset
  /\ erp[o] = "missing"
  /\ \E s \in InitialErp : erp' = [erp EXCEPT ![o] = s]
  /\ UNCHANGED <<intakeVars, row, kafkaVars, handler, req, run, cp, audit, mail, writes>>

\* The process dies and is started again: every task is lost, and the consumer
\* resumes from the committed offsets.
Crash ==
  /\ used.crashes < MaxCrashes
  /\ used' = [used EXCEPT !.crashes = @ + 1]
  /\ handler' = Idle
  /\ run' = [a \in Actors |-> NoRun]
  /\ req' = [r \in Requests |-> IF req[r].pc = "idle" THEN req[r]
                                ELSE [req[r] EXCEPT !.pc = "done"]]
  /\ sim' = [t \in Threads |-> IF InProgress(t) THEN "failed" ELSE sim[t]]
  /\ UNCHANGED <<event, row, kafkaVars, cp, erpVars, mail>>

-----------------------------------------------------------------------------
(* The specification *)

Init ==
  /\ event \in [Threads -> Events]
  /\ sim = [t \in Threads |-> "idle"]
  /\ row = [t \in Threads |-> NoRow]
  /\ topic = [o \in Orders |-> <<>>]
  /\ committed = [o \in Orders |-> 0]
  /\ dlq = {}
  /\ handler = Idle
  /\ req = [r \in Requests |-> Unsent]
  /\ run = [a \in Actors |-> NoRun]
  /\ cp = [t \in Threads |-> NoCheckpoint]
  /\ erp \in [Orders -> InitialErp \cup {"missing"}]
  /\ audit = {}
  /\ mail = [t \in Threads |-> [hitl |-> 0, final |-> 0]]
  /\ writes = {}
  /\ used = [faults |-> 0, crashes |-> 0, resets |-> 0]

Simulate(t) == CheckActive(t) \/ InsertExecution(t) \/ PublishEvent(t) \/ PublishFails(t)

ConsumerStep ==
  \/ \E o \in Orders : Poll(o)
  \/ GetGraphFails
  \/ MarkRunning
  \/ StartGraph
  \/ ReadOutcome
  \/ PersistOutcome
  \/ HandlerFails
  \/ MarkFailed
  \/ MarkFailedFails
  \/ PublishToDlq
  \/ CommitOffset
  \/ LoopFails

GraphStep(a) ==
  \/ PlannerNode(a)
  \/ ResearchNode(a)
  \/ BrowserNode(a)
  \/ IntegrationPending(a)
  \/ IntegrationAuto(a)
  \/ HumanReviewNode(a)
  \/ ReportingNode(a)
  \/ NotificationNode(a)
  \/ NodeFails(a)
  \/ IntegrationFails(a)
  \/ SaveCheckpoint(a)

ResumeStep(r) ==
  \/ RecordDecision(r)
  \/ LoadCase(r)
  \/ ApplyErp(r)
  \/ PushState(r)
  \/ ResumeGraph(r)
  \/ FinishDecision(r)
  \/ RequestFails(r)
  \/ FailCase(r)

Administration ==
  \/ ResetInvestigations
  \/ ResetErpOrders
  \/ \E o \in Orders : FeedErpOrder(o)

Next ==
  \/ \E t \in Threads : Simulate(t)
  \/ ConsumerStep
  \/ \E a \in Actors : GraphStep(a)
  \/ \E r \in Requests, t \in Threads, d \in Decision : AcceptDecision(r, t, d)
  \/ \E r \in Requests : ResumeStep(r)
  \/ Administration
  \/ Crash

Spec == Init /\ [][Next]_vars

\* The event loop runs every task that can go on.  Nothing obliges a person to
\* send an event or a decision, or the environment to fail.
Fairness ==
  /\ \A t \in Threads : WF_vars(InsertExecution(t) \/ PublishEvent(t))
  /\ WF_vars(ConsumerStep)
  /\ \A a \in Actors : WF_vars(GraphStep(a))
  /\ \A r \in Requests : WF_vars(ResumeStep(r))

FairSpec == Spec /\ Fairness

-----------------------------------------------------------------------------
(* Type invariant *)

\* Every variable holds what the code could store in it.
TypeOK ==
  /\ event \in [Threads -> Events]
  /\ sim \in [Threads -> {"idle", "checked", "inserted", "published", "refused", "failed"}]
  /\ row \in [Threads -> Row]
  /\ topic \in [Orders -> Seq(Threads)]
  /\ committed \in [Orders -> Nat]
  /\ dlq \subseteq Threads
  /\ handler \in Handler
  /\ req \in [Requests -> Request]
  /\ run \in [Actors -> Run]
  /\ cp \in [Threads -> Checkpoint]
  /\ erp \in [Orders -> OrderStatus \cup {"missing"}]
  /\ audit \subseteq [request : Requests, thread : Threads, success : BOOLEAN]
  /\ mail \in [Threads -> [hitl : Nat, final : Nat]]
  /\ writes \subseteq [thread : Threads, by : Requests \cup {"auto"},
                       seen : OrderStatus \cup {None, "missing"},
                       from : OrderStatus, to : OrderStatus]
  /\ used \in [faults : Nat, crashes : Nat, resets : Nat]

-----------------------------------------------------------------------------
(* Safety *)

Gated(t) == event[t].severity \in {"high", "critical"}

\* kafka_client.py:140 and :178, "commit manually after successful processing":
\* once the offset of a message is committed its case is settled -- the row is
\* not RUNNING, or was reset, or the message is in the dead letter queue.  A
\* crash at any point may repeat work but never loses a case silently.
Settled(t) == row[t].status # "running" \/ t \in dlq
ConsumedCaseSettled ==
  \A o \in Orders : \A i \in 1..committed[o] : Settled(topic[o][i])

\* api.py:405, "Publish after commit so consumer always finds the row": unless
\* investigations are reset, every message in the topic has its row.
EnqueuedCaseHasRow ==
  used.resets = 0 => \A o \in Orders : \A i \in DOMAIN topic[o] : HasRow(topic[o][i])

\* The ERP changes only on the policy's word: without a human only for a case
\* that is not gated, to the status its portal evidence maps to or the one it
\* read; and through a decision only if that decision is an approval of the
\* status its portal evidence maps to.
WritesFollowPolicy ==
  \A w \in writes :
    LET recommended == Recommendation(event[w.thread].portal)
    IN  IF w.by = "auto"
          THEN ~Gated(w.thread) /\ w.to \in {recommended, w.seen}
          ELSE req[w.by].decision = "approved" /\ w.to = recommended

\* mulesoft.py:42, "Also writes an audit record": what an approval changed in
\* the ERP is in integration_logs for as long as the case is in agent_executions.
ApprovedWriteAudited ==
  \A w \in writes :
    w.by # "auto" /\ HasRow(w.thread)
      => [request |-> w.by, thread |-> w.thread, success |-> TRUE] \in audit

\* execution_handler.py:263, "Human rejected. ERP left unchanged": a case closed
\* by a rejection changed nothing in the ERP.
RejectionLeavesErp ==
  \A t \in Threads :
    row[t].status = "completed" /\ row[t].decision = "rejected"
      => \A w \in writes : w.thread = t => w.from = w.to

\* api.py:365, "Blocks duplicate active investigations for the same order_number".
OneActivePerOrder ==
  \A t, u \in Threads :
    IsActive(t) /\ IsActive(u) /\ Order(t) = Order(u) => t = u

\* README.md:384-385: a completed case sent one final e-mail, after one alert if
\* a human decided it and none otherwise.  A message redelivered after a crash
\* may have either sent again, once at most; and a decision taken while the case
\* is run again may complete it without the final e-mail.
MailMatchesPath ==
  \A t \in Threads :
    LET asked == IF row[t].decision = None THEN 0 ELSE 1
        told  == IF used.crashes = 0 THEN 1 ELSE 1 - asked
    IN  row[t].status = "completed"
          => /\ mail[t].hitl \in asked..(asked + used.crashes)
             /\ mail[t].final \in told..(1 + used.crashes)

\* What is written was decided against the status the order still has.
WritesAreCurrent == \A w \in writes : w.from = w.seen

-----------------------------------------------------------------------------
(* Liveness *)

\* A case whose event was published is settled in the end, as long as the
\* consumer loop did not end.
PublishedCaseSettles ==
  \A t \in Threads : sim[t] = "published" ~> (Settled(t) \/ handler.pc = "dead")

\* README.md:59-60, "pending/running -> completed" and "pending/running ->
\* waiting_human": a case does not stay RUNNING for ever.
RunningCaseGoesOn ==
  \A t \in Threads : row[t].status = "running" ~> row[t].status # "running"

\* A decision that was accepted closes its case.
DecisionClosesCase ==
  \A r \in Requests, t \in Threads :
    req[r].pc = "accepted" /\ req[r].thread = t
      ~> row[t].status \in {"completed", "failed", None}

=============================================================================
