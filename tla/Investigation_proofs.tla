----------------------- MODULE Investigation_proofs -----------------------
(***************************************************************************)
(* Theorems about Investigation, for every value of its constants.         *)
(***************************************************************************)
EXTENDS Investigation, TLAPS

-----------------------------------------------------------------------------
(* What the operators of DecisionRules return *)

\* The table of decision_rules.py:6-15 maps to a status an ERP order can hold,
\* or to nothing.
LEMMA RecommendationType ==
  ASSUME NEW portal
  PROVE  Recommendation(portal) \in OrderStatus \cup {None}
BY DEF Recommendation, PORTAL_TO_ERP_STATUS, OrderStatus, PortalStatus, None

\* Every confidence is one of the constants of decision_rules.py:33-49.
LEMMA ComputeConfidenceType ==
  ASSUME NEW found \in BOOLEAN, NEW success \in BOOLEAN, NEW mismatch \in BOOLEAN, NEW portal
  PROVE  ComputeConfidence(found, success, mismatch, portal) \in Confidence
BY DEF ComputeConfidence, Confidence

\* What integration_node reads of a decision (nodes.py:218-228).
LEMMA EvaluateMismatchType ==
  ASSUME NEW status, NEW portal, NEW success \in BOOLEAN, NEW severity, NEW found \in BOOLEAN,
         NEW confidence \in Int
  PROVE  /\ EvaluateMismatch(status, portal, success, severity, found, confidence).recommended
              \in OrderStatus \cup {None}
         /\ EvaluateMismatch(status, portal, success, severity, found, confidence).requires_human
              \in BOOLEAN
<1>1. Recommendation(portal) \in OrderStatus \cup {None}
  BY RecommendationType
<1> QED
  BY <1>1 DEF EvaluateMismatch, RequiresHuman, Mismatch

-----------------------------------------------------------------------------
(* Type correctness: the inductive invariant *)

\* A task that is somewhere has a thread to work on, and an approval that
\* updates the ERP has a status to write.
HandlerBusy    == handler.pc # "idle" => handler.thread \in Threads
RunsBusy       == \A a \in Actors : /\ run[a].next # None => run[a].thread \in Threads
                                    /\ run[a].dirty => run[a].next # None
RequestsBusy   == \A r \in Requests : req[r].pc # "idle" => req[r].thread \in Threads
ApplyHasStatus == \A r \in Requests : req[r].pc = "apply" => req[r].integ.rec # None

TypeInv == TypeOK /\ HandlerBusy /\ RunsBusy /\ RequestsBusy /\ ApplyHasStatus

LEMMA EventFields ==
  ASSUME TypeOK, NEW t \in Threads
  PROVE  /\ Order(t) \in Orders
         /\ event[t].severity \in Severity
         /\ event[t].portal \in PortalStatus
<1>1. event \in [Threads -> Events]
  BY DEF TypeOK
<1> QED
  BY <1>1, EventsAssumption DEF Order

LEMMA FaultType ==
  ASSUME TypeOK, Fault
  PROVE  used' \in [faults : Nat, crashes : Nat, resets : Nat] /\ used'.resets = used.resets
<1>1. used \in [faults : Nat, crashes : Nat, resets : Nat]
  BY DEF TypeOK
<1> QED
  BY <1>1 DEF Fault

-----------------------------------------------------------------------------
(* Type correctness: the constants of the model *)

LEMMA NoIntegType == NoInteg \in Integ
BY DEF NoInteg, Integ, None

LEMMA InitialStateType == InitialState \in Values
BY NoIntegType DEF InitialState, Values, Confidence, None

LEMMA NoRowType == NoRow \in Row
BY NoIntegType DEF NoRow, Row

LEMMA NoRunType == NoRun \in Run /\ NoRun.next = None /\ ~NoRun.dirty
BY InitialStateType DEF NoRun, Run

LEMMA IdleType == Idle \in Handler /\ Idle.pc = "idle"
BY DEF Idle, Handler, HandlerPc

LEMMA UnsentType == Unsent \in Request /\ Unsent.pc = "idle"
BY NoIntegType DEF Unsent, Request, RequestPc

LEMMA NoCheckpointType == NoCheckpoint \in Checkpoint
BY InitialStateType DEF NoCheckpoint, Checkpoint

LEMMA TypeInit == Init => TypeInv
<1> SUFFICES ASSUME Init PROVE TypeInv
  OBVIOUS
<1>1. /\ row \in [Threads -> Row]
      /\ handler \in Handler
      /\ req \in [Requests -> Request]
      /\ run \in [Actors -> Run]
      /\ cp \in [Threads -> Checkpoint]
  BY NoRowType, IdleType, UnsentType, NoRunType, NoCheckpointType DEF Init
<1>2. erp \in [Orders -> OrderStatus \cup {"missing"}]
  BY InitialErpAssumption DEF Init
<1>3. /\ topic \in [Orders -> Seq(Threads)]
      /\ committed \in [Orders -> Nat]
      /\ mail \in [Threads -> [hitl : Nat, final : Nat]]
      /\ used \in [faults : Nat, crashes : Nat, resets : Nat]
  BY DEF Init
<1>4. HandlerBusy /\ RunsBusy /\ RequestsBusy /\ ApplyHasStatus
  BY IdleType, UnsentType, NoRunType
     DEF Init, HandlerBusy, RunsBusy, RequestsBusy, ApplyHasStatus
<1> QED
  BY <1>1, <1>2, <1>3, <1>4 DEF Init, TypeInv, TypeOK

-----------------------------------------------------------------------------
(* Type correctness: the steps of the simulate endpoint *)

LEMMA TypeSimulate ==
  ASSUME TypeInv, NEW t \in Threads, Simulate(t)
  PROVE  TypeInv'
<1> USE DEF TypeInv, HandlerBusy, RunsBusy, RequestsBusy, ApplyHasStatus
<1>order. Order(t) \in Orders
  BY EventFields
<1>1. CASE CheckActive(t)
  BY <1>1 DEF CheckActive, TypeOK, kafkaVars, erpVars
<1>2. CASE InsertExecution(t)
  <2>1. [NoRow EXCEPT !.status = "running"] \in Row
    BY NoRowType DEF Row, Status
  <2> QED
    BY <1>2, <2>1 DEF InsertExecution, TypeOK, kafkaVars, erpVars
<1>deliver. ASSUME Deliver(t) PROVE topic' \in [Orders -> Seq(Threads)]
  <2>1. topic \in [Orders -> Seq(Threads)]
    BY DEF TypeOK
  <2> QED
    BY <2>1, <1>order, <1>deliver DEF Deliver
<1>3. CASE PublishEvent(t)
  BY <1>3, <1>deliver DEF PublishEvent, TypeOK, kafkaVars, erpVars
<1>4. CASE PublishFails(t)
  BY <1>4, <1>deliver, FaultType DEF PublishFails, TypeOK, kafkaVars, erpVars
<1> QED
  BY <1>1, <1>2, <1>3, <1>4 DEF Simulate

-----------------------------------------------------------------------------
(* Type correctness: the steps of the consumer *)

LEMMA HandlerToType ==
  ASSUME TypeInv, NEW pc \in HandlerPc \ {"idle"}, handler.pc # "idle", HandlerTo(pc)
  PROVE  /\ handler' \in Handler
         /\ handler'.pc = pc
         /\ handler'.thread = handler.thread
         /\ HandlerBusy'
<1>1. handler \in Handler /\ handler.thread \in Threads
  BY DEF TypeInv, TypeOK, HandlerBusy
<1> QED
  BY <1>1 DEF HandlerTo, Handler, HandlerBusy

LEMMA SetStatusType ==
  ASSUME TypeOK, NEW t \in Threads, NEW s \in Status,
         row' = [row EXCEPT ![t] = IF HasRow(t) THEN [@ EXCEPT !.status = s] ELSE @]
  PROVE  row' \in [Threads -> Row]
<1>1. row \in [Threads -> Row]
  BY DEF TypeOK
<1> QED
  BY <1>1 DEF Row

LEMMA RunClearedType ==
  ASSUME TypeInv, NEW a \in Actors, run' = [run EXCEPT ![a] = NoRun]
  PROVE  run' \in [Actors -> Run] /\ RunsBusy'
<1>1. run \in [Actors -> Run]
  BY DEF TypeInv, TypeOK
<1> QED
  BY <1>1, NoRunType DEF RunsBusy, TypeInv

LEMMA TypeConsumer ==
  ASSUME TypeInv, ConsumerStep
  PROVE  TypeInv'
<1> USE DEF TypeInv, RequestsBusy, ApplyHasStatus
<1>actor. Consumer \in Actors
  BY DEF Actors
<1>thread. handler.pc # "idle" => handlerThread \in Threads
  BY DEF HandlerBusy, handlerThread
<1>1. ASSUME NEW o \in Orders, Poll(o) PROVE TypeInv'
  <2>1. topic[o][committed[o] + 1] \in Threads
    <3>1. topic[o] \in Seq(Threads) /\ committed[o] \in Nat
      BY DEF TypeOK
    <3> QED
      BY <1>1, <3>1 DEF Poll
  <2>2. handler' \in Handler /\ HandlerBusy'
    BY <1>1, <2>1, IdleType DEF Poll, Handler, HandlerPc, HandlerBusy
  <2> QED
    BY <1>1, <2>2 DEF Poll, TypeOK, RunsBusy, intakeVars, kafkaVars, erpVars
<1>2. CASE GetGraphFails
  <2>1. handler' \in Handler /\ HandlerBusy'
    BY <1>2, HandlerToType DEF GetGraphFails, HandlerPc
  <2> QED
    BY <1>2, <2>1, FaultType
       DEF GetGraphFails, TypeOK, RunsBusy, intakeVars, kafkaVars, erpVars
<1>3. CASE MarkRunning
  <2>1. handler' \in Handler /\ HandlerBusy'
    BY <1>3, HandlerToType DEF MarkRunning, HandlerPc
  <2>2. row' \in [Threads -> Row]
    BY <1>3, <1>thread, SetStatusType DEF MarkRunning, Status
  <2> QED
    BY <1>3, <2>1, <2>2 DEF MarkRunning, TypeOK, RunsBusy, intakeVars, kafkaVars, erpVars
<1>4. CASE StartGraph
  <2>1. handler' \in Handler /\ HandlerBusy'
    BY <1>4, HandlerToType DEF StartGraph, HandlerPc
  <2>2. cp' \in [Threads -> Checkpoint]
    <3>1. cp \in [Threads -> Checkpoint]
      BY DEF TypeOK
    <3>2. [next |-> "planner", values |-> InitialState] \in Checkpoint
      BY InitialStateType DEF Checkpoint, Node
    <3> QED
      BY <1>4, <3>1, <3>2 DEF StartGraph
  <2>3. run' \in [Actors -> Run] /\ RunsBusy'
    <3> DEFINE new == [NoRun EXCEPT !.thread = handlerThread, !.next = "planner"]
    <3>1. run \in [Actors -> Run]
      BY DEF TypeOK
    <3>2. new \in Run /\ new.thread \in Threads /\ ~new.dirty
      BY <1>4, <1>thread, NoRunType DEF StartGraph, Run, Node
    <3>3. run' = [run EXCEPT ![Consumer] = new]
      BY <1>4 DEF StartGraph
    <3> HIDE DEF new
    <3> QED
      BY <1>actor, <3>1, <3>2, <3>3 DEF RunsBusy
  <2> QED
    BY <1>4, <2>1, <2>2, <2>3 DEF StartGraph, TypeOK, intakeVars, kafkaVars, erpVars
<1>mail. mail \in [Threads -> [hitl : Nat, final : Nat]]
  BY DEF TypeOK
<1>5. CASE ReadOutcome
  <2>1. mail' \in [Threads -> [hitl : Nat, final : Nat]]
    BY <1>5, <1>mail, <1>thread DEF ReadOutcome, SendHitlAlert
  <2>2. handler' \in Handler /\ HandlerBusy'
    <3>1. CASE HasRow(handlerThread)
      <4>1. handler \in Handler
        BY DEF TypeOK
      <4>2. HasPending(handlerThread) \in BOOLEAN
        BY DEF HasPending
      <4> QED
        BY <1>5, <1>thread, <3>1, <4>1, <4>2
           DEF ReadOutcome, Handler, HandlerPc, HandlerBusy, handlerThread
    <3>2. CASE ~HasRow(handlerThread)
      BY <1>5, <3>2, HandlerToType DEF ReadOutcome, HandlerPc
    <3> QED
      BY <3>1, <3>2
  <2> QED
    BY <1>5, <2>1, <2>2 DEF ReadOutcome, TypeOK, RunsBusy, intakeVars, kafkaVars, erpVars
<1>6. CASE PersistOutcome
  <2>1. handler' \in Handler /\ HandlerBusy'
    BY <1>6, HandlerToType DEF PersistOutcome, HandlerPc
  <2>2. row' \in [Threads -> Row]
    <3> DEFINE final == run[Consumer].values
               outcome == OutcomeStatus(final, handler.interrupted)
    <3>1. row \in [Threads -> Row]
      BY DEF TypeOK
    <3>2. final.integ \in Integ
      <4>1. run[Consumer] \in Run
        BY <1>actor DEF TypeOK
      <4> QED
        BY <4>1 DEF Run, Values
    <3>3. outcome \in Status
      BY DEF OutcomeStatus, Status
    <3>4. CASE HasRow(handlerThread)
      <4>1. row' = [row EXCEPT ![handlerThread].integ = final.integ,
                               ![handlerThread].status = outcome]
        BY <1>6, <3>4 DEF PersistOutcome
      <4> HIDE DEF final, outcome
      <4> QED
        BY <3>1, <3>2, <3>3, <4>1 DEF Row
    <3>5. CASE ~HasRow(handlerThread)
      BY <1>6, <3>1, <3>5 DEF PersistOutcome
    <3> QED
      BY <3>4, <3>5
  <2> QED
    BY <1>6, <2>1, <2>2 DEF PersistOutcome, TypeOK, RunsBusy, intakeVars, kafkaVars, erpVars
<1>7. CASE HandlerFails
  <2>1. handler' \in Handler /\ HandlerBusy'
    BY <1>7, HandlerToType DEF HandlerFails, HandlerPc
  <2>2. run' \in [Actors -> Run] /\ RunsBusy'
    BY <1>7, <1>actor, RunClearedType DEF HandlerFails
  <2> QED
    BY <1>7, <2>1, <2>2, FaultType DEF HandlerFails, TypeOK, intakeVars, kafkaVars, erpVars
<1>8. CASE MarkFailed
  <2>1. handler' \in Handler /\ HandlerBusy'
    BY <1>8, HandlerToType DEF MarkFailed, HandlerPc
  <2>2. row' \in [Threads -> Row]
    BY <1>8, <1>thread, SetStatusType DEF MarkFailed, Status
  <2> QED
    BY <1>8, <2>1, <2>2 DEF MarkFailed, TypeOK, RunsBusy, intakeVars, kafkaVars, erpVars
<1>9. CASE MarkFailedFails
  <2>1. handler' \in Handler /\ HandlerBusy'
    BY <1>9, HandlerToType DEF MarkFailedFails, HandlerPc
  <2> QED
    BY <1>9, <2>1, FaultType
       DEF MarkFailedFails, TypeOK, RunsBusy, intakeVars, kafkaVars, erpVars
<1>10. CASE PublishToDlq
  <2>1. handler' \in Handler /\ HandlerBusy'
    BY <1>10, HandlerToType DEF PublishToDlq, HandlerPc
  <2>2. dlq' \subseteq Threads
    BY <1>10, <1>thread DEF PublishToDlq, TypeOK
  <2> QED
    BY <1>10, <2>1, <2>2 DEF PublishToDlq, TypeOK, RunsBusy, intakeVars, erpVars
<1>11. CASE CommitOffset
  <2>1. committed' \in [Orders -> Nat]
    <3>1. committed \in [Orders -> Nat] /\ Order(handlerThread) \in Orders
      BY <1>11, <1>thread, EventFields DEF CommitOffset, MayCommit, TypeOK
    <3> QED
      BY <1>11, <3>1 DEF CommitOffset, Advance
  <2>2. run' \in [Actors -> Run] /\ RunsBusy'
    BY <1>11, <1>actor, RunClearedType DEF CommitOffset
  <2>3. handler' \in Handler /\ HandlerBusy'
    BY <1>11, IdleType DEF CommitOffset, HandlerBusy
  <2> QED
    BY <1>11, <2>1, <2>2, <2>3 DEF CommitOffset, TypeOK, intakeVars, erpVars
<1>12. CASE LoopFails
  <2>1. handler' \in Handler /\ HandlerBusy'
    <3>1. (IF handler.pc = "commit" THEN "dlq" ELSE "dead") \in HandlerPc \ {"idle"}
      BY DEF HandlerPc
    <3> QED
      BY <1>12, <3>1, HandlerToType DEF LoopFails
  <2> QED
    BY <1>12, <2>1, FaultType DEF LoopFails, TypeOK, RunsBusy, intakeVars, kafkaVars, erpVars
<1> QED
  BY <1>1, <1>2, <1>3, <1>4, <1>5, <1>6, <1>7, <1>8, <1>9, <1>10, <1>11, <1>12
     DEF ConsumerStep

-----------------------------------------------------------------------------
(* Type correctness: the steps of the graph *)

LEMMA AtNodeType ==
  ASSUME TypeInv, NEW a \in Actors, NEW n \in Node, AtNode(a, n)
  PROVE  run[a] \in Run /\ run[a].thread \in Threads /\ run[a].values \in Values
<1>1. run[a] \in Run
  BY DEF TypeInv, TypeOK
<1>2. run[a].next # None
  BY DEF AtNode, Node, None
<1> QED
  BY <1>1, <1>2 DEF TypeInv, RunsBusy, Run

LEMMA NodeDoneType ==
  ASSUME TypeInv, NEW a \in Actors, NEW n \in Node, AtNode(a, n),
         NEW values \in Values, NEW next \in Node \cup {"end"}, NodeDone(a, values, next)
  PROVE  run' \in [Actors -> Run] /\ RunsBusy' /\ cp' \in [Threads -> Checkpoint]
<1> DEFINE new == [run[a] EXCEPT !.values = values, !.next = next, !.dirty = TRUE,
                                 !.resumed = FALSE]
<1>1. run \in [Actors -> Run] /\ cp \in [Threads -> Checkpoint] /\ RunsBusy
  BY DEF TypeInv, TypeOK
<1>2. new \in Run /\ new.thread \in Threads /\ new.next # None
  BY AtNodeType DEF Run, Node, None
<1>3. run' = [run EXCEPT ![a] = new] /\ cp' = cp
  BY DEF NodeDone
<1> HIDE DEF new
<1> QED
  BY <1>1, <1>2, <1>3 DEF RunsBusy

LEMMA NodeSavedType ==
  ASSUME TypeInv, NEW a \in Actors, NEW n \in Node, AtNode(a, n),
         NEW values \in Values, NEW next \in Node \cup {"end"}, NodeSaved(a, values, next)
  PROVE  run' \in [Actors -> Run] /\ RunsBusy' /\ cp' \in [Threads -> Checkpoint]
<1> DEFINE new == [run[a] EXCEPT !.values = values, !.next = next, !.resumed = FALSE]
           point == [next |-> next, values |-> values]
<1>1. run \in [Actors -> Run] /\ cp \in [Threads -> Checkpoint] /\ RunsBusy
  BY DEF TypeInv, TypeOK
<1>2. new \in Run /\ new.thread \in Threads /\ new.next # None
  BY AtNodeType DEF Run, Node, None
<1>3. point \in Checkpoint
  BY DEF Checkpoint
<1>4. run' = [run EXCEPT ![a] = new] /\ cp' = [cp EXCEPT ![run[a].thread] = point]
  BY DEF NodeSaved
<1> HIDE DEF new, point
<1> QED
  BY <1>1, <1>2, <1>3, <1>4 DEF RunsBusy

LEMMA ErrorType ==
  ASSUME NEW values \in Values
  PROVE  Succeeded(values) \in Values /\ Failed(values) \in Values
BY DEF Values, Succeeded, Failed

LEMMA WithIntegType ==
  ASSUME NEW values \in Values, NEW rec \in OrderStatus \cup {None},
         NEW claim \in {"pending", "auto"}, NEW ok \in BOOLEAN
  PROVE  WithInteg(values, rec, claim, ok) \in Values
<1>1. [rec |-> rec, claim |-> claim, ok |-> ok] \in Integ
  BY DEF Integ
<1>2. [values EXCEPT !.integ = [rec |-> rec, claim |-> claim, ok |-> ok]] \in Values
  BY <1>1 DEF Values
<1> QED
  BY <1>2, ErrorType DEF WithInteg

LEMMA EdgesType ==
  /\ \A n \in Node \ {"integration"} : Successor(n) \in Node \cup {"end"}
  /\ \A a : AfterIntegration(a) \in Node \cup {"end"}
BY DEF Successor, Edges, Node, AfterIntegration, ShouldGoToHuman

LEMMA PolicyType ==
  ASSUME NEW a \in Actors, run[a].values \in Values
  PROVE  /\ PolicyOf(a).recommended \in OrderStatus \cup {None}
         /\ SeenStatus(a) \in OrderStatus \cup {None}
<1>1. Readable(run[a].values.portal) \in BOOLEAN
  BY DEF Readable
<1>2. run[a].values.confidence \in Int
  BY DEF Values, Confidence
<1>3. PolicyOf(a).recommended \in OrderStatus \cup {None}
  BY <1>1, <1>2, EvaluateMismatchType DEF PolicyOf
<1> QED
  BY <1>3 DEF SeenStatus

LEMMA SetOrderType ==
  ASSUME TypeOK, NEW t \in Threads, InErp(t), NEW by \in Requests \cup {"auto"},
         NEW seen \in OrderStatus \cup {None, "missing"}, NEW new \in OrderStatus,
         SetOrder(t, by, seen, new)
  PROVE  /\ erp' \in [Orders -> OrderStatus \cup {"missing"}]
         /\ writes' \subseteq [thread : Threads, by : Requests \cup {"auto"},
                               seen : OrderStatus \cup {None, "missing"},
                               from : OrderStatus, to : OrderStatus]
<1>1. erp \in [Orders -> OrderStatus \cup {"missing"}] /\ Order(t) \in Orders
  BY EventFields DEF TypeOK
<1>2. erp[Order(t)] \in OrderStatus
  BY <1>1 DEF InErp
<1>3. writes \subseteq [thread : Threads, by : Requests \cup {"auto"},
                        seen : OrderStatus \cup {None, "missing"},
                        from : OrderStatus, to : OrderStatus]
  BY DEF TypeOK
<1> QED
  BY <1>1, <1>2, <1>3 DEF SetOrder

\* A graph step preserves the types if what it changes is well typed.
LEMMA GraphFrame ==
  ASSUME TypeInv, UNCHANGED graphUnchanged,
         run' \in [Actors -> Run] /\ RunsBusy' /\ cp' \in [Threads -> Checkpoint],
         mail' \in [Threads -> [hitl : Nat, final : Nat]],
         used' \in [faults : Nat, crashes : Nat, resets : Nat],
         erp' \in [Orders -> OrderStatus \cup {"missing"}],
         audit' = audit,
         writes' \subseteq [thread : Threads, by : Requests \cup {"auto"},
                            seen : OrderStatus \cup {None, "missing"},
                            from : OrderStatus, to : OrderStatus]
  PROVE  TypeInv'
BY DEF TypeInv, TypeOK, HandlerBusy, RequestsBusy, ApplyHasStatus,
       graphUnchanged, intakeVars, kafkaVars

LEMMA TypeGraph ==
  ASSUME TypeInv, NEW a \in Actors, GraphStep(a)
  PROVE  TypeInv'
<1>types. /\ mail \in [Threads -> [hitl : Nat, final : Nat]]
          /\ used \in [faults : Nat, crashes : Nat, resets : Nat]
          /\ erp \in [Orders -> OrderStatus \cup {"missing"}]
          /\ writes \subseteq [thread : Threads, by : Requests \cup {"auto"},
                               seen : OrderStatus \cup {None, "missing"},
                               from : OrderStatus, to : OrderStatus]
  BY DEF TypeInv, TypeOK
<1>fault. Fault => used' \in [faults : Nat, crashes : Nat, resets : Nat]
  BY FaultType DEF TypeInv
<1>node. {"planner", "research", "browser", "integration", "human_review",
          "reporting", "notification"} \subseteq Node
  BY DEF Node
<1>1. CASE PlannerNode(a)
  <2>1. Succeeded(run[a].values) \in Values
    BY <1>1, <1>node, AtNodeType, ErrorType DEF PlannerNode
  <2>2. run' \in [Actors -> Run] /\ RunsBusy' /\ cp' \in [Threads -> Checkpoint]
    BY <1>1, <1>node, <2>1, EdgesType, NodeSavedType DEF PlannerNode
  <2> QED
    BY <1>1, <1>types, <2>2, GraphFrame DEF PlannerNode, erpVars
<1>2. CASE ResearchNode(a)
  <2> DEFINE seen == OrderDetails(run[a].thread)
  <2>1. run[a].values \in Values /\ run[a].thread \in Threads
    BY <1>2, <1>node, AtNodeType DEF ResearchNode
  <2>2. seen \in OrderStatus \cup {"missing"}
    BY <1>types, <2>1, EventFields DEF OrderDetails, TypeInv
  <2>3. [run[a].values EXCEPT !.erp = seen] \in Values
    <3> HIDE DEF seen
    <3> QED
      BY <2>1, <2>2 DEF Values
  <2>4. Succeeded([run[a].values EXCEPT !.erp = seen]) \in Values
    BY <2>3, ErrorType
  <2>5. run' \in [Actors -> Run] /\ RunsBusy' /\ cp' \in [Threads -> Checkpoint]
    BY <1>2, <1>node, <2>4, EdgesType, NodeDoneType DEF ResearchNode
  <2> QED
    BY <1>2, <1>types, <2>5, GraphFrame DEF ResearchNode, erpVars
<1>3. CASE BrowserNode(a)
  <2> DEFINE Evidence(portal) ==
               Succeeded([run[a].values EXCEPT
                            !.portal = portal,
                            !.confidence = ComputeConfidence(run[a].values.erp # "missing",
                                                             Readable(portal), FALSE, portal)])
  <2>1. run[a].values \in Values /\ run[a].thread \in Threads
    BY <1>3, <1>node, AtNodeType DEF BrowserNode
  <2>2. ASSUME NEW portal \in PortalStatus PROVE Evidence(portal) \in Values
    <3> DEFINE conf == ComputeConfidence(run[a].values.erp # "missing",
                                         Readable(portal), FALSE, portal)
    <3>1. conf \in Confidence
      <4>1. (run[a].values.erp # "missing") \in BOOLEAN /\ Readable(portal) \in BOOLEAN
        BY DEF Readable
      <4> QED
        BY <4>1, ComputeConfidenceType
    <3>2. [run[a].values EXCEPT !.portal = portal, !.confidence = conf] \in Values
      <4> HIDE DEF conf
      <4> QED
        BY <2>1, <3>1 DEF Values
    <3> QED
      BY <3>2, ErrorType
  <2>3. event[run[a].thread].portal \in PortalStatus /\ "error_collecting_data" \in PortalStatus
    BY <2>1, EventFields DEF TypeInv, PortalStatus
  <2>4. \/ NodeSaved(a, Evidence(event[run[a].thread].portal), Successor("browser"))
           /\ UNCHANGED used
        \/ NodeSaved(a, Evidence("error_collecting_data"), Successor("browser")) /\ Fault
    BY <1>3 DEF BrowserNode
  <2> HIDE DEF Evidence
  <2>5. run' \in [Actors -> Run] /\ RunsBusy' /\ cp' \in [Threads -> Checkpoint]
    BY <1>3, <1>node, <2>2, <2>3, <2>4, EdgesType, NodeSavedType DEF BrowserNode
  <2>6. used' \in [faults : Nat, crashes : Nat, resets : Nat]
    BY <1>types, <1>fault, <2>4
  <2> QED
    BY <1>3, <1>types, <2>5, <2>6, GraphFrame DEF BrowserNode, erpVars
<1>4. CASE IntegrationPending(a)
  <2>1. run[a].values \in Values
    BY <1>4, <1>node, AtNodeType DEF IntegrationPending
  <2>2. WithInteg(run[a].values, PolicyOf(a).recommended, "pending", TRUE) \in Values
    BY <2>1, PolicyType, WithIntegType
  <2>3. run' \in [Actors -> Run] /\ RunsBusy' /\ cp' \in [Threads -> Checkpoint]
    BY <1>4, <1>node, <2>2, EdgesType, NodeSavedType DEF IntegrationPending
  <2> QED
    BY <1>4, <1>types, <2>3, GraphFrame DEF IntegrationPending, erpVars
<1>5. CASE IntegrationAuto(a)
  <2> DEFINE t   == run[a].thread
             rec == PolicyOf(a).recommended
             new == IF rec # None THEN rec ELSE SeenStatus(a)
  <2>1. run[a].values \in Values /\ t \in Threads
    BY <1>5, <1>node, AtNodeType DEF IntegrationAuto
  <2>2. rec \in OrderStatus \cup {None} /\ SeenStatus(a) \in OrderStatus \cup {None}
    BY <2>1, PolicyType
  <2>3. CASE new = None
    <3>1. Failed(run[a].values) \in Values
      BY <2>1, ErrorType
    <3>2. NodeDone(a, Failed(run[a].values), AfterIntegration(a)) /\ UNCHANGED erpVars
      BY <1>5, <2>3 DEF IntegrationAuto
    <3>3. run' \in [Actors -> Run] /\ RunsBusy' /\ cp' \in [Threads -> Checkpoint]
      BY <1>5, <1>node, <3>1, <3>2, EdgesType, NodeDoneType DEF IntegrationAuto
    <3> QED
      BY <1>5, <1>types, <3>2, <3>3, GraphFrame DEF IntegrationAuto, erpVars
  <2>4. CASE new # None
    <3>1. WithInteg(run[a].values, rec, "auto", InErp(t)) \in Values
      <4>1. InErp(t) \in BOOLEAN
        BY DEF InErp
      <4> QED
        BY <2>1, <2>2, <4>1, WithIntegType
    <3>2. /\ NodeDone(a, WithInteg(run[a].values, rec, "auto", InErp(t)), AfterIntegration(a))
          /\ UpdateOrderStatus(t, SeenStatus(a), new)
          /\ audit' = audit
      BY <1>5, <2>4 DEF IntegrationAuto
    <3>3. run' \in [Actors -> Run] /\ RunsBusy' /\ cp' \in [Threads -> Checkpoint]
      BY <1>5, <1>node, <3>1, <3>2, EdgesType, NodeDoneType DEF IntegrationAuto
    <3>4. /\ erp' \in [Orders -> OrderStatus \cup {"missing"}]
          /\ writes' \subseteq [thread : Threads, by : Requests \cup {"auto"},
                                seen : OrderStatus \cup {None, "missing"},
                                from : OrderStatus, to : OrderStatus]
      <4>1. new \in OrderStatus
        BY <2>2, <2>4
      <4> HIDE DEF new, t, rec
      <4> QED
        BY <1>types, <2>1, <2>2, <3>2, <4>1, SetOrderType DEF UpdateOrderStatus, TypeInv
    <3> QED
      BY <1>5, <1>types, <3>2, <3>3, <3>4, GraphFrame DEF IntegrationAuto
  <2> QED
    BY <2>3, <2>4
<1>6. CASE HumanReviewNode(a)
  <2>1. Succeeded(run[a].values) \in Values
    BY <1>6, <1>node, AtNodeType, ErrorType DEF HumanReviewNode
  <2>2. run' \in [Actors -> Run] /\ RunsBusy' /\ cp' \in [Threads -> Checkpoint]
    BY <1>6, <1>node, <2>1, EdgesType, NodeSavedType DEF HumanReviewNode
  <2> QED
    BY <1>6, <1>types, <2>2, GraphFrame DEF HumanReviewNode, erpVars
<1>7. CASE ReportingNode(a)
  <2>1. Succeeded(run[a].values) \in Values
    BY <1>7, <1>node, AtNodeType, ErrorType DEF ReportingNode
  <2>2. run' \in [Actors -> Run] /\ RunsBusy' /\ cp' \in [Threads -> Checkpoint]
    BY <1>7, <1>node, <2>1, EdgesType, NodeSavedType DEF ReportingNode
  <2> QED
    BY <1>7, <1>types, <2>2, GraphFrame DEF ReportingNode, erpVars
<1>8. CASE NotificationNode(a)
  <2>1. Succeeded(run[a].values) \in Values /\ run[a].thread \in Threads
    BY <1>8, <1>node, AtNodeType, ErrorType DEF NotificationNode
  <2>2. run' \in [Actors -> Run] /\ RunsBusy' /\ cp' \in [Threads -> Checkpoint]
    BY <1>8, <1>node, <2>1, EdgesType, NodeDoneType DEF NotificationNode
  <2>3. mail' \in [Threads -> [hitl : Nat, final : Nat]]
    BY <1>8, <1>types, <2>1 DEF NotificationNode, SendFinalNotification
  <2> QED
    BY <1>8, <1>types, <2>2, <2>3, GraphFrame DEF NotificationNode, erpVars
<1>9. CASE NodeFails(a)
  <2>1. PICK n \in Node \ {"human_review", "integration"} :
          /\ AtNode(a, n)
          /\ NodeSaved(a, IF n = "browser" THEN [Failed(run[a].values) EXCEPT !.confidence = 35]
                                          ELSE Failed(run[a].values), Successor(n))
    BY <1>9 DEF NodeFails
  <2>2. Failed(run[a].values) \in Values
    BY <2>1, AtNodeType, ErrorType
  <2>3. [Failed(run[a].values) EXCEPT !.confidence = 35] \in Values
    BY <2>2 DEF Values, Confidence
  <2>4. run' \in [Actors -> Run] /\ RunsBusy' /\ cp' \in [Threads -> Checkpoint]
    BY <2>1, <2>2, <2>3, EdgesType, NodeSavedType
  <2> QED
    BY <1>9, <1>types, <1>fault, <2>4, GraphFrame DEF NodeFails, erpVars
<1>10. CASE IntegrationFails(a)
  <2>1. Failed(run[a].values) \in Values
    BY <1>10, <1>node, AtNodeType, ErrorType DEF IntegrationFails
  <2>2. run' \in [Actors -> Run] /\ RunsBusy' /\ cp' \in [Threads -> Checkpoint]
    BY <1>10, <1>node, <2>1, EdgesType, NodeSavedType DEF IntegrationFails
  <2> QED
    BY <1>10, <1>types, <1>fault, <2>2, GraphFrame DEF IntegrationFails, erpVars
<1>11. CASE SaveCheckpoint(a)
  <2> DEFINE point == [next |-> run[a].next, values |-> run[a].values]
  <2>1. /\ run \in [Actors -> Run]
        /\ cp \in [Threads -> Checkpoint]
        /\ run[a].thread \in Threads
    BY <1>11 DEF SaveCheckpoint, TypeInv, TypeOK, RunsBusy
  <2>2. point \in Checkpoint
    BY <2>1 DEF Run, Checkpoint
  <2>3. cp' \in [Threads -> Checkpoint]
    <3>1. cp' = [cp EXCEPT ![run[a].thread] = point]
      BY <1>11 DEF SaveCheckpoint
    <3> HIDE DEF point
    <3> QED
      BY <2>1, <2>2, <3>1
  <2>4. run' \in [Actors -> Run] /\ RunsBusy'
    BY <1>11, <2>1 DEF SaveCheckpoint, RunsBusy, TypeInv, Run
  <2> QED
    BY <1>11, <1>types, <2>3, <2>4, GraphFrame DEF SaveCheckpoint, graphUnchanged, erpVars
<1> QED
  BY <1>1, <1>2, <1>3, <1>4, <1>5, <1>6, <1>7, <1>8, <1>9, <1>10, <1>11 DEF GraphStep

-----------------------------------------------------------------------------
(* Type correctness: the steps of an approval request *)

LEMMA RequestToType ==
  ASSUME TypeInv, NEW r \in Requests, NEW pc \in RequestPc \ {"idle", "apply"},
         req[r].pc # "idle", RequestTo(r, pc)
  PROVE  req' \in [Requests -> Request] /\ RequestsBusy' /\ ApplyHasStatus'
<1>1. req \in [Requests -> Request] /\ RequestsBusy /\ ApplyHasStatus
  BY DEF TypeInv, TypeOK
<1>2. [req[r] EXCEPT !.pc = pc] \in Request
  BY <1>1 DEF Request
<1> QED
  BY <1>1, <1>2 DEF RequestTo, RequestsBusy, ApplyHasStatus, Request

\* A request's step preserves the types if what it changes is well typed.
LEMMA RequestFrame ==
  ASSUME TypeInv,
         UNCHANGED <<intakeVars, kafkaVars, handler>>,
         row' \in [Threads -> Row],
         req' \in [Requests -> Request] /\ RequestsBusy' /\ ApplyHasStatus',
         run' \in [Actors -> Run] /\ RunsBusy' /\ cp' \in [Threads -> Checkpoint],
         mail' = mail,
         used' \in [faults : Nat, crashes : Nat, resets : Nat],
         erp' \in [Orders -> OrderStatus \cup {"missing"}],
         audit' \subseteq [request : Requests, thread : Threads, success : BOOLEAN],
         writes' \subseteq [thread : Threads, by : Requests \cup {"auto"},
                            seen : OrderStatus \cup {None, "missing"},
                            from : OrderStatus, to : OrderStatus]
  PROVE  TypeInv'
BY DEF TypeInv, TypeOK, HandlerBusy, intakeVars, kafkaVars

LEMMA TypeAccept ==
  ASSUME TypeInv, NEW r \in Requests, NEW t \in Threads, NEW d \in Decision,
         AcceptDecision(r, t, d)
  PROVE  TypeInv'
<1> DEFINE new == [Unsent EXCEPT !.pc = "accepted", !.thread = t, !.decision = d]
<1>1. new \in Request /\ new.pc = "accepted" /\ new.thread \in Threads
  BY UnsentType DEF Request, RequestPc
<1>2. req' = [req EXCEPT ![r] = new]
  BY DEF AcceptDecision
<1>3. req' \in [Requests -> Request] /\ RequestsBusy' /\ ApplyHasStatus'
  <2>1. req \in [Requests -> Request] /\ RequestsBusy /\ ApplyHasStatus
    BY DEF TypeInv, TypeOK
  <2> HIDE DEF new
  <2> QED
    BY <1>1, <1>2, <2>1 DEF RequestsBusy, ApplyHasStatus
<1> QED
  BY <1>3, RequestFrame DEF AcceptDecision, TypeInv, TypeOK, RunsBusy, erpVars

LEMMA TypeResume ==
  ASSUME TypeInv, NEW r \in Requests, ResumeStep(r)
  PROVE  TypeInv'
<1> DEFINE t == req[r].thread
           d == req[r].decision
<1>types. /\ row \in [Threads -> Row]
          /\ req \in [Requests -> Request] /\ RequestsBusy /\ ApplyHasStatus
          /\ run \in [Actors -> Run] /\ RunsBusy
          /\ cp \in [Threads -> Checkpoint]
          /\ used \in [faults : Nat, crashes : Nat, resets : Nat]
          /\ erp \in [Orders -> OrderStatus \cup {"missing"}]
          /\ audit \subseteq [request : Requests, thread : Threads, success : BOOLEAN]
          /\ writes \subseteq [thread : Threads, by : Requests \cup {"auto"},
                               seen : OrderStatus \cup {None, "missing"},
                               from : OrderStatus, to : OrderStatus]
  BY DEF TypeInv, TypeOK
<1>fault. Fault => used' \in [faults : Nat, crashes : Nat, resets : Nat]
  BY FaultType DEF TypeInv
<1>actor. r \in Actors
  BY DEF Actors
<1>busy. /\ req[r] \in Request
         /\ req[r].pc # "idle" => t \in Threads
         /\ d \in Decision \cup {None}
         /\ req[r].integ \in Integ
  BY <1>types DEF RequestsBusy, Request
<1>pcs. {"load", "push", "resume", "graph", "fail", "done"}
          \subseteq RequestPc \ {"idle", "apply"}
  BY DEF RequestPc
<1>1. CASE RecordDecision(r)
  <2>1. req[r].pc # "idle"
    BY <1>1 DEF RecordDecision
  <2>2. req' \in [Requests -> Request] /\ RequestsBusy' /\ ApplyHasStatus'
    BY <1>1, <1>pcs, <2>1, RequestToType DEF RecordDecision
  <2>3. row' \in [Threads -> Row]
    BY <1>1, <1>types, <1>busy, <2>1 DEF RecordDecision, Decided, Row
  <2> QED
    BY <1>1, <1>types, <2>2, <2>3, RequestFrame DEF RecordDecision, RunsBusy, erpVars
<1>2. CASE LoadCase(r)
  <2> DEFINE integ == row[t].integ
             settled == IF d = "rejected" THEN [integ EXCEPT !.claim = "rejected"] ELSE integ
             pc == IF MustApply(d, integ) THEN "apply" ELSE "push"
             new == [req[r] EXCEPT !.pc = pc, !.integ = settled]
  <2>1. req[r].pc # "idle" /\ t \in Threads
    BY <1>2, <1>busy DEF LoadCase
  <2>2. CASE HasRow(t)
    <3>1. integ \in Integ
      BY <1>types, <2>1 DEF Row
    <3>2. settled \in Integ /\ settled.rec = integ.rec
      BY <3>1 DEF Integ
    <3>3. /\ new \in Request
          /\ new.thread \in Threads
          /\ new.pc = "apply" => new.integ.rec # None
      <4>1. pc \in RequestPc /\ (pc = "apply" => integ.rec # None)
        BY DEF RequestPc, MustApply
      <4> HIDE DEF pc, settled, integ
      <4> QED
        BY <1>busy, <2>1, <3>2, <4>1 DEF Request
    <3>4. req' = [req EXCEPT ![r] = new] /\ row' = [row EXCEPT ![t].decision = d]
      <4>1. req' = [req EXCEPT ![r].pc = pc, ![r].integ = settled]
        BY <1>2, <2>2 DEF LoadCase
      <4> HIDE DEF pc, settled
      <4>2. req' = [req EXCEPT ![r] = new]
        BY <1>types, <4>1
      <4> QED
        BY <1>2, <2>2, <4>2 DEF LoadCase
    <3>5. req' \in [Requests -> Request] /\ RequestsBusy' /\ ApplyHasStatus'
      <4> HIDE DEF new
      <4> QED
        BY <1>types, <3>3, <3>4 DEF RequestsBusy, ApplyHasStatus
    <3>6. row' \in [Threads -> Row]
      BY <1>types, <1>busy, <2>1, <3>4 DEF Row
    <3> QED
      BY <1>2, <1>types, <3>5, <3>6, RequestFrame DEF LoadCase, RunsBusy, erpVars
  <2>3. CASE ~HasRow(t)
    <3>1. req' \in [Requests -> Request] /\ RequestsBusy' /\ ApplyHasStatus'
      BY <1>2, <1>pcs, <2>1, <2>3, RequestToType DEF LoadCase
    <3> QED
      BY <1>2, <1>types, <2>3, <3>1, RequestFrame DEF LoadCase, RunsBusy, erpVars
  <2> QED
    BY <2>2, <2>3
<1>3. CASE ApplyErp(r)
  <2> DEFINE integ == [req[r].integ EXCEPT !.claim = "approved", !.ok = InErp(t)]
             new == [req[r] EXCEPT !.pc = "push", !.integ = integ]
  <2>1. t \in Threads /\ req[r].integ.rec \in OrderStatus
    BY <1>3, <1>types, <1>busy DEF ApplyErp, ApplyHasStatus, Integ
  <2>2. InErp(t) \in BOOLEAN
    BY DEF InErp
  <2>3. integ \in Integ
    <3> HIDE DEF t
    <3> QED
      BY <1>busy, <2>2 DEF Integ
  <2>4. new \in Request /\ new.pc = "push" /\ new.thread \in Threads
    <3> HIDE DEF integ
    <3> QED
      BY <1>busy, <2>1, <2>3 DEF Request, RequestPc
  <2>5. req' \in [Requests -> Request] /\ RequestsBusy' /\ ApplyHasStatus'
    <3>1. req' = [req EXCEPT ![r].pc = "push", ![r].integ = integ]
      BY <1>3 DEF ApplyErp
    <3>2. req' = [req EXCEPT ![r] = new]
      <4> HIDE DEF integ
      <4> QED
        BY <1>types, <3>1
    <3> HIDE DEF new
    <3> QED
      BY <1>types, <2>4, <3>2 DEF RequestsBusy, ApplyHasStatus
  <2>6. audit' \subseteq [request : Requests, thread : Threads, success : BOOLEAN]
    BY <1>3, <1>types, <2>1, <2>2 DEF ApplyErp, Logged, LogRow
  <2>7. /\ erp' \in [Orders -> OrderStatus \cup {"missing"}]
        /\ writes' \subseteq [thread : Threads, by : Requests \cup {"auto"},
                              seen : OrderStatus \cup {None, "missing"},
                              from : OrderStatus, to : OrderStatus]
    <3>1. CASE InErp(t)
      <4>1. cp[t].values.erp \in OrderStatus \cup {None, "missing"}
        BY <1>types, <2>1 DEF Checkpoint, Values
      <4>2. SetOrder(t, r, cp[t].values.erp, req[r].integ.rec)
        BY <1>3, <3>1 DEF ApplyErp
      <4> HIDE DEF t
      <4> QED
        BY <2>1, <3>1, <4>1, <4>2, SetOrderType DEF TypeInv
    <3>2. CASE ~InErp(t)
      BY <1>3, <1>types, <3>2 DEF ApplyErp
    <3> QED
      BY <3>1, <3>2
  <2> QED
    BY <1>3, <1>types, <2>5, <2>6, <2>7, RequestFrame DEF ApplyErp, RunsBusy
<1>4. CASE PushState(r)
  <2> DEFINE values == [cp[t].values EXCEPT !.decision = d, !.integ = req[r].integ]
  <2>1. req[r].pc # "idle" /\ t \in Threads
    BY <1>4, <1>busy DEF PushState
  <2>2. req' \in [Requests -> Request] /\ RequestsBusy' /\ ApplyHasStatus'
    BY <1>4, <1>pcs, <2>1, RequestToType DEF PushState
  <2>3. values \in Values
    <3>1. cp[t].values \in Values
      BY <1>types, <2>1 DEF Checkpoint
    <3>2. req[r].integ \in Integ /\ d \in Decision \cup {None}
      BY <1>busy
    <3> HIDE DEF t, d
    <3> QED
      BY <3>1, <3>2 DEF Values
  <2>4. cp' \in [Threads -> Checkpoint]
    <3>1. cp' = [cp EXCEPT ![t].values = values]
      BY <1>4 DEF PushState
    <3> HIDE DEF values
    <3> QED
      BY <1>types, <2>1, <2>3, <3>1 DEF Checkpoint
  <2> QED
    BY <1>4, <1>types, <2>2, <2>4, RequestFrame DEF PushState, RunsBusy, erpVars
<1>5. CASE ResumeGraph(r)
  <2> DEFINE new == [NoRun EXCEPT !.thread = t, !.next = cp[t].next,
                                  !.values = cp[t].values, !.resumed = TRUE]
  <2>1. req[r].pc # "idle" /\ t \in Threads
    BY <1>5, <1>busy DEF ResumeGraph
  <2>2. req' \in [Requests -> Request] /\ RequestsBusy' /\ ApplyHasStatus'
    BY <1>5, <1>pcs, <2>1, RequestToType DEF ResumeGraph
  <2>3. new \in Run /\ new.thread \in Threads /\ ~new.dirty
    <3>1. cp[t] \in Checkpoint
      BY <1>types, <2>1
    <3> QED
      BY <2>1, <3>1, NoRunType DEF Checkpoint, Run
  <2>4. run' \in [Actors -> Run] /\ RunsBusy'
    <3>1. run' = [run EXCEPT ![r] = new]
      BY <1>5 DEF ResumeGraph
    <3> HIDE DEF new
    <3> QED
      BY <1>types, <1>actor, <2>3, <3>1 DEF RunsBusy
  <2> QED
    BY <1>5, <1>types, <2>2, <2>4, RequestFrame DEF ResumeGraph, erpVars
<1>clear. ASSUME run' = [run EXCEPT ![r] = NoRun]
          PROVE  run' \in [Actors -> Run] /\ RunsBusy'
  BY <1>actor, <1>clear, RunClearedType
<1>6. CASE FinishDecision(r)
  <2> DEFINE final == run[r].values
             new == [status |-> FinalStatus(final), decision |-> d,
                     integ  |-> IF req[r].integ = NoInteg THEN final.integ ELSE req[r].integ]
  <2>1. req[r].pc # "idle" /\ t \in Threads
    BY <1>6, <1>busy DEF FinishDecision
  <2>2. req' \in [Requests -> Request] /\ RequestsBusy' /\ ApplyHasStatus'
    BY <1>6, <1>pcs, <2>1, RequestToType DEF FinishDecision
  <2>3. new \in Row
    <3>1. final.integ \in Integ
      BY <1>types, <1>actor DEF Run, Values
    <3>2. FinalStatus(final) \in Status
      BY DEF FinalStatus, Status
    <3> HIDE DEF final
    <3> QED
      BY <1>busy, <3>1, <3>2 DEF Row
  <2>4. row' \in [Threads -> Row]
    <3>1. row' = [row EXCEPT ![t] = IF HasRow(t) THEN new ELSE @]
      BY <1>6 DEF FinishDecision
    <3> HIDE DEF new
    <3> QED
      BY <1>types, <2>1, <2>3, <3>1
  <2> QED
    BY <1>6, <1>types, <1>clear, <2>2, <2>4, RequestFrame DEF FinishDecision, erpVars
<1>7. CASE RequestFails(r)
  <2>1. req[r].pc # "idle"
    BY <1>7 DEF RequestFails
  <2>2. req' \in [Requests -> Request] /\ RequestsBusy' /\ ApplyHasStatus'
    BY <1>7, <1>pcs, <2>1, RequestToType DEF RequestFails
  <2> QED
    BY <1>7, <1>types, <1>fault, <1>clear, <2>2, RequestFrame DEF RequestFails, erpVars
<1>8. CASE FailCase(r)
  <2>1. req[r].pc # "idle" /\ t \in Threads
    BY <1>8, <1>busy DEF FailCase
  <2>2. req' \in [Requests -> Request] /\ RequestsBusy' /\ ApplyHasStatus'
    BY <1>8, <1>pcs, <2>1, RequestToType DEF FailCase
  <2>3. row' \in [Threads -> Row]
    BY <1>8, <2>1, SetStatusType DEF FailCase, Status, TypeInv
  <2> QED
    BY <1>8, <1>types, <2>2, <2>3, RequestFrame DEF FailCase, RunsBusy, erpVars
<1> QED
  BY <1>1, <1>2, <1>3, <1>4, <1>5, <1>6, <1>7, <1>8 DEF ResumeStep

-----------------------------------------------------------------------------
(* Type correctness: administration, crashes, and the theorem *)

LEMMA UseResetType ==
  ASSUME TypeOK, UseReset
  PROVE  used' \in [faults : Nat, crashes : Nat, resets : Nat] /\ used'.resets # 0
<1>1. used \in [faults : Nat, crashes : Nat, resets : Nat]
  BY DEF TypeOK
<1> QED
  BY <1>1 DEF UseReset

LEMMA TypeAdministration ==
  ASSUME TypeInv, Administration
  PROVE  TypeInv'
<1> USE DEF TypeInv, HandlerBusy, RunsBusy, RequestsBusy, ApplyHasStatus
<1>1. CASE ResetInvestigations
  <2>1. PICK S \in SUBSET Threads : DeleteCases(S)
    <3>1. \A o \in Orders : {t \in Threads : HasRow(t) /\ Order(t) = o} \in SUBSET Threads
      OBVIOUS
    <3> QED
      BY <1>1, <3>1 DEF ResetInvestigations
  <2>2. row' \in [Threads -> Row]
    BY <2>1, NoRowType DEF DeleteCases, TypeOK
  <2>3. audit' \subseteq audit
    BY <2>1 DEF DeleteCases
  <2> QED
    BY <1>1, <2>1, <2>2, <2>3, UseResetType
       DEF ResetInvestigations, DeleteCases, TypeOK, intakeVars, kafkaVars
<1>2. CASE ResetErpOrders
  BY <1>2, UseResetType DEF ResetErpOrders, TypeOK, intakeVars, kafkaVars
<1>3. ASSUME NEW o \in Orders, FeedErpOrder(o) PROVE TypeInv'
  <2>1. erp' \in [Orders -> OrderStatus \cup {"missing"}]
    BY <1>3, InitialErpAssumption DEF FeedErpOrder, TypeOK
  <2> QED
    BY <1>3, <2>1, UseResetType DEF FeedErpOrder, TypeOK, intakeVars, kafkaVars
<1> QED
  BY <1>1, <1>2, <1>3 DEF Administration

LEMMA TypeCrash ==
  ASSUME TypeInv, Crash
  PROVE  TypeInv'
<1>1. used' \in [faults : Nat, crashes : Nat, resets : Nat]
  <2>1. used \in [faults : Nat, crashes : Nat, resets : Nat]
    BY DEF TypeInv, TypeOK
  <2> QED
    BY <2>1 DEF Crash
<1>2. handler' \in Handler /\ HandlerBusy'
  BY IdleType DEF Crash, HandlerBusy
<1>3. run' \in [Actors -> Run] /\ RunsBusy'
  BY NoRunType DEF Crash, RunsBusy
<1>4. req' \in [Requests -> Request] /\ RequestsBusy' /\ ApplyHasStatus'
  <2>1. req \in [Requests -> Request] /\ RequestsBusy
    BY DEF TypeInv, TypeOK
  <2>2. \A r \in Requests : [req[r] EXCEPT !.pc = "done"] \in Request
    BY <2>1 DEF Request, RequestPc
  <2> QED
    BY <2>1, <2>2 DEF Crash, RequestsBusy, ApplyHasStatus, Request
<1>5. sim' \in [Threads -> {"idle", "checked", "inserted", "published", "refused", "failed"}]
  BY DEF Crash, TypeInv, TypeOK
<1> QED
  BY <1>1, <1>2, <1>3, <1>4, <1>5 DEF Crash, TypeInv, TypeOK, kafkaVars, erpVars

LEMMA TypeStutter ==
  ASSUME TypeInv, UNCHANGED vars
  PROVE  TypeInv'
BY DEF TypeInv, TypeOK, HandlerBusy, RunsBusy, RequestsBusy, ApplyHasStatus, vars

LEMMA TypeInvariant == Spec => []TypeInv
<1>1. TypeInv /\ [Next]_vars => TypeInv'
  BY TypeSimulate, TypeConsumer, TypeGraph, TypeAccept, TypeResume, TypeAdministration,
     TypeCrash, TypeStutter DEF Next
<1> QED
  BY TypeInit, <1>1, PTL DEF Spec

\* Every variable always holds what the code could store in it, whatever fails
\* and crashes: in particular only a status of the enumeration of models.py:28
\* is ever written to an ERP order.
THEOREM TypeCorrect == Spec => []TypeOK
BY TypeInvariant, PTL DEF TypeInv

-----------------------------------------------------------------------------
(* What the steps of each task leave alone *)

LEMMA GraphFrameVars ==
  ASSUME NEW a \in Actors, GraphStep(a)
  PROVE  UNCHANGED graphUnchanged
BY DEF GraphStep, PlannerNode, ResearchNode, BrowserNode, IntegrationPending, IntegrationAuto,
       HumanReviewNode, ReportingNode, NotificationNode, NodeFails, IntegrationFails,
       SaveCheckpoint, graphUnchanged

LEMMA RequestFrameVars ==
  ASSUME NEW r \in Requests,
         ResumeStep(r) \/ \E t \in Threads, d \in Decision : AcceptDecision(r, t, d)
  PROVE  UNCHANGED <<event, sim, topic, committed, dlq, handler>>
BY DEF ResumeStep, RecordDecision, LoadCase, ApplyErp, PushState, ResumeGraph, FinishDecision,
       RequestFails, FailCase, AcceptDecision, intakeVars, kafkaVars

LEMMA AdministrationFrameVars ==
  ASSUME Administration
  PROVE  UNCHANGED <<event, sim, topic, committed, dlq, handler>>
BY DEF Administration, ResetInvestigations, DeleteCases, ResetErpOrders, FeedErpOrder,
       intakeVars, kafkaVars

\* A step of the handler stays on its message.
LEMMA HandlerFrameVars ==
  ASSUME TypeInv, ConsumerStep, ~CommitOffset, ~\E o \in Orders : Poll(o)
  PROVE  /\ UNCHANGED <<event, sim, topic, committed>>
         /\ handler.pc # "idle" /\ handler'.pc # "idle"
         /\ handler'.thread = handler.thread
<1>1. handler \in Handler
  BY DEF TypeInv, TypeOK
<1> QED
  BY <1>1 DEF ConsumerStep, GetGraphFails, MarkRunning, StartGraph, ReadOutcome, PersistOutcome,
       HandlerFails, MarkFailed, MarkFailedFails, PublishToDlq, LoopFails, HandlerTo, Handler,
       intakeVars, kafkaVars

-----------------------------------------------------------------------------
(* The queue: the messages of the topic and the one in flight *)

InTopic(o) == 1..Len(topic[o])

\* A message is keyed by its order, comes from one finished simulate call, and
\* is stored once.
MessagesKeyed ==
  \A o \in Orders : \A i \in InTopic(o) :
    Order(topic[o][i]) = o /\ sim[topic[o][i]] \in {"published", "failed"}
MessagesOnce ==
  \A o \in Orders : \A i, j \in InTopic(o) : topic[o][i] = topic[o][j] => i = j
OffsetInTopic == \A o \in Orders : committed[o] <= Len(topic[o])

\* The consumer works on the first message that is not committed.
NextOffset == committed[Order(handler.thread)] + 1
InFlightIsNext ==
  handler.pc # "idle" =>
    /\ NextOffset \in InTopic(Order(handler.thread))
    /\ topic[Order(handler.thread)][NextOffset] = handler.thread

QueueInv == MessagesKeyed /\ MessagesOnce /\ OffsetInTopic /\ InFlightIsNext

LEMMA QueueInit == Init => QueueInv
BY IdleType DEF Init, QueueInv, MessagesKeyed, MessagesOnce, OffsetInTopic, InFlightIsNext,
                InTopic

\* What most steps leave alone.
LEMMA QueueFrame ==
  ASSUME QueueInv, UNCHANGED <<event, topic, committed>>,
         \A t \in Threads : sim[t] \in {"published", "failed"} => sim'[t] = sim[t],
         handler'.pc # "idle" => handler.pc # "idle" /\ handler'.thread = handler.thread,
         TypeOK
  PROVE  QueueInv'
<1>1. \A o \in Orders : \A i \in InTopic(o) : topic[o][i] \in Threads
  BY DEF TypeOK, InTopic
<1> QED
  BY <1>1 DEF QueueInv, MessagesKeyed, MessagesOnce, OffsetInTopic, InFlightIsNext, NextOffset,
              InTopic, Order

LEMMA QueueDeliver ==
  ASSUME TypeInv, QueueInv, NEW t \in Threads, sim[t] = "inserted", Deliver(t),
         NEW s \in {"published", "failed"}, sim' = [sim EXCEPT ![t] = s],
         UNCHANGED <<event, committed, handler>>
  PROVE  QueueInv'
<1>types. /\ topic \in [Orders -> Seq(Threads)]
          /\ sim \in [Threads -> {"idle", "checked", "inserted", "published",
                                  "refused", "failed"}]
          /\ committed \in [Orders -> Nat]
          /\ Order(t) \in Orders
          /\ handler.pc # "idle" => Order(handler.thread) \in Orders
  BY EventFields DEF TypeInv, TypeOK, HandlerBusy
<1>1. topic' = [topic EXCEPT ![Order(t)] = Append(@, t)] /\ \A u : Order(u)' = Order(u)
  BY DEF Deliver, Order
<1>2. \A o \in Orders :
        /\ o # Order(t) => topic'[o] = topic[o]
        /\ o = Order(t) => /\ Len(topic'[o]) = Len(topic[o]) + 1
                           /\ topic'[o][Len(topic[o]) + 1] = t
                           /\ \A i \in InTopic(o) : topic'[o][i] = topic[o][i]
  BY <1>types, <1>1 DEF InTopic
<1>3. \A o \in Orders : \A i \in InTopic(o) : topic[o][i] \in Threads /\ topic[o][i] # t
  <2> SUFFICES ASSUME NEW o \in Orders, NEW i \in InTopic(o)
               PROVE  topic[o][i] \in Threads /\ topic[o][i] # t
    OBVIOUS
  <2>1. topic[o] \in Seq(Threads)
    BY <1>types
  <2>2. topic[o][i] \in Threads
    BY <2>1 DEF InTopic
  <2>3. sim[topic[o][i]] \in {"published", "failed"}
    BY DEF QueueInv, MessagesKeyed
  <2> QED
    BY <2>2, <2>3
<1>4. MessagesKeyed'
  <2> SUFFICES ASSUME NEW o \in Orders, NEW i \in InTopic(o)'
               PROVE  Order(topic'[o][i]) = o /\ sim'[topic'[o][i]] \in {"published", "failed"}
    BY <1>1 DEF MessagesKeyed
  <2>1. CASE i \in InTopic(o)
    <3>1. topic'[o][i] = topic[o][i]
      BY <2>1, <1>2
    <3>2. Order(topic[o][i]) = o /\ sim[topic[o][i]] \in {"published", "failed"}
      BY <2>1 DEF QueueInv, MessagesKeyed
    <3>3. sim'[topic[o][i]] = sim[topic[o][i]]
      BY <2>1, <1>types, <1>3
    <3> QED
      BY <3>1, <3>2, <3>3
  <2>2. CASE i \notin InTopic(o)
    <3>1. o = Order(t) /\ i = Len(topic[o]) + 1
      BY <2>2, <1>types, <1>2 DEF InTopic
    <3> QED
      BY <3>1, <1>types, <1>2
  <2> QED
    BY <2>1, <2>2
<1>5. MessagesOnce'
  <2> SUFFICES ASSUME NEW o \in Orders, NEW i \in InTopic(o)', NEW j \in InTopic(o)',
                      topic'[o][i] = topic'[o][j]
               PROVE  i = j
    BY DEF MessagesOnce
  <2>1. \A k \in InTopic(o)' : k \in InTopic(o) \/ (o = Order(t) /\ k = Len(topic[o]) + 1)
    BY <1>types, <1>2 DEF InTopic
  <2>2. CASE i \in InTopic(o) /\ j \in InTopic(o)
    BY <2>2, <1>2 DEF QueueInv, MessagesOnce
  <2>3. CASE i \in InTopic(o) /\ j \notin InTopic(o)
    BY <2>1, <2>3, <1>2, <1>3
  <2>4. CASE i \notin InTopic(o) /\ j \in InTopic(o)
    BY <2>1, <2>4, <1>2, <1>3
  <2>5. CASE i \notin InTopic(o) /\ j \notin InTopic(o)
    BY <2>1, <2>5
  <2> QED
    BY <2>2, <2>3, <2>4, <2>5
<1>6. OffsetInTopic'
  <2> SUFFICES ASSUME NEW o \in Orders
               PROVE  committed[o] <= Len(topic'[o])
    BY DEF OffsetInTopic
  <2>1. committed[o] \in Nat /\ Len(topic[o]) \in Nat /\ committed[o] <= Len(topic[o])
    BY <1>types DEF QueueInv, OffsetInTopic
  <2>2. Len(topic'[o]) = Len(topic[o]) \/ Len(topic'[o]) = Len(topic[o]) + 1
    BY <1>2
  <2> QED
    BY <2>1, <2>2
<1>7. InFlightIsNext'
  <2> SUFFICES ASSUME handler.pc # "idle"
               PROVE  /\ NextOffset \in InTopic(Order(handler.thread))'
                      /\ topic'[Order(handler.thread)][NextOffset] = handler.thread
    BY <1>1 DEF InFlightIsNext, NextOffset, InTopic
  <2> QED
    <3> DEFINE o == Order(handler.thread)
    <3>1. o \in Orders /\ NextOffset \in InTopic(o) /\ topic[o][NextOffset] = handler.thread
      BY <1>types DEF QueueInv, InFlightIsNext
    <3>2. topic'[o][NextOffset] = topic[o][NextOffset]
      BY <3>1, <1>2
    <3>3. NextOffset \in 1..Len(topic'[o])
      <4>1. Len(topic[o]) \in Nat
        BY <3>1, <1>types
      <4>2. Len(topic'[o]) = Len(topic[o]) \/ Len(topic'[o]) = Len(topic[o]) + 1
        BY <3>1, <1>2
      <4> HIDE DEF o
      <4> QED
        BY <3>1, <4>1, <4>2 DEF InTopic
    <3>4. NextOffset \in InTopic(o)'
      BY <1>1, <3>3 DEF InTopic, NextOffset
    <3> QED
      BY <3>1, <3>2, <3>4
<1> QED
  BY <1>4, <1>5, <1>6, <1>7 DEF QueueInv

LEMMA QueuePoll ==
  ASSUME TypeInv, QueueInv, NEW o \in Orders, Poll(o)
  PROVE  QueueInv'
<1>types. topic[o] \in Seq(Threads) /\ committed[o] \in Nat
  BY DEF TypeInv, TypeOK
<1>1. /\ handler'.pc = "mark"
      /\ handler'.thread = topic[o][committed[o] + 1]
      /\ committed[o] + 1 \in InTopic(o)
      /\ UNCHANGED <<event, sim, topic, committed>>
  BY <1>types, IdleType DEF Poll, InTopic, intakeVars, kafkaVars, Handler
<1>2. Order(handler'.thread) = o
  BY <1>1 DEF QueueInv, MessagesKeyed
<1>3. InFlightIsNext'
  BY <1>1, <1>2 DEF InFlightIsNext, NextOffset, InTopic, Order
<1> QED
  BY <1>1, <1>3 DEF QueueInv, MessagesKeyed, MessagesOnce, OffsetInTopic, InTopic, Order

LEMMA QueueCommit ==
  ASSUME TypeInv, QueueInv, CommitOffset
  PROVE  QueueInv'
<1> DEFINE u == Order(handler.thread)
<1>1. /\ committed' = [committed EXCEPT ![u] = @ + 1]
      /\ handler' = Idle
      /\ UNCHANGED <<event, sim, topic>>
  BY DEF CommitOffset, Advance, handlerThread, intakeVars
<1>2. committed \in [Orders -> Nat] /\ u \in Orders /\ committed[u] + 1 \in InTopic(u)
  BY EventFields
     DEF TypeInv, TypeOK, HandlerBusy, CommitOffset, MayCommit, QueueInv, InFlightIsNext, NextOffset
<1>3. OffsetInTopic'
  <2> HIDE DEF u
  <2> QED
    BY <1>1, <1>2 DEF QueueInv, OffsetInTopic, InTopic
<1> QED
  BY <1>1, <1>3, IdleType
     DEF QueueInv, MessagesKeyed, MessagesOnce, InFlightIsNext, InTopic, Order

LEMMA QueueInvariant == Spec => []QueueInv
<1>1. ASSUME TypeInv, QueueInv, [Next]_vars
      PROVE  QueueInv'
  <2>type. TypeOK
    BY <1>1 DEF TypeInv
  <2>1. ASSUME NEW t \in Threads, Simulate(t) PROVE QueueInv'
    <3>1. CASE CheckActive(t) \/ InsertExecution(t)
      <4>1. \A u \in Threads : sim[u] \in {"published", "failed"} => sim'[u] = sim[u]
        BY <3>1, <2>type DEF CheckActive, InsertExecution, TypeOK
      <4> QED
        BY <1>1, <2>type, <3>1, <4>1, QueueFrame DEF CheckActive, InsertExecution, kafkaVars
    <3>2. CASE PublishEvent(t)
      BY <1>1, <3>2, QueueDeliver DEF PublishEvent, MayPublish
    <3>3. CASE PublishFails(t)
      <4>1. CASE Deliver(t)
        BY <1>1, <3>3, <4>1, QueueDeliver DEF PublishFails
      <4>2. CASE UNCHANGED topic
        <5>1. \A u \in Threads : sim[u] \in {"published", "failed"} => sim'[u] = sim[u]
          BY <3>3, <2>type DEF PublishFails, TypeOK
        <5> QED
          BY <1>1, <2>type, <3>3, <4>2, <5>1, QueueFrame DEF PublishFails
      <4> QED
        BY <3>3, <4>1, <4>2 DEF PublishFails
    <3> QED
      BY <2>1, <3>1, <3>2, <3>3 DEF Simulate
  <2>2. CASE ConsumerStep
    <3>1. CASE CommitOffset
      BY <1>1, <3>1, QueueCommit
    <3>2. CASE \E o \in Orders : Poll(o)
      BY <1>1, <3>2, QueuePoll
    <3>3. CASE ~CommitOffset /\ ~\E o \in Orders : Poll(o)
      BY <1>1, <2>type, <2>2, <3>3, HandlerFrameVars, QueueFrame
    <3> QED
      BY <3>1, <3>2, <3>3
  <2>3. ASSUME NEW a \in Actors, GraphStep(a) PROVE QueueInv'
    BY <1>1, <2>type, <2>3, GraphFrameVars, QueueFrame DEF graphUnchanged, intakeVars, kafkaVars
  <2>4. ASSUME NEW r \in Requests, NEW t \in Threads, NEW d \in Decision, AcceptDecision(r, t, d)
        PROVE  QueueInv'
    BY <1>1, <2>type, <2>4, RequestFrameVars, QueueFrame
  <2>5. ASSUME NEW r \in Requests, ResumeStep(r) PROVE QueueInv'
    BY <1>1, <2>type, <2>5, RequestFrameVars, QueueFrame
  <2>6. CASE Administration
    BY <1>1, <2>type, <2>6, AdministrationFrameVars, QueueFrame
  <2>7. CASE Crash
    <3>1. \A u \in Threads : sim[u] \in {"published", "failed"} => sim'[u] = sim[u]
      BY <2>7 DEF Crash, InProgress
    <3> QED
      BY <1>1, <2>type, <2>7, <3>1, IdleType, QueueFrame DEF Crash, kafkaVars
  <2>8. CASE UNCHANGED vars
    BY <1>1, <2>type, <2>8, QueueFrame DEF vars
  <2> QED
    BY <1>1, <2>1, <2>2, <2>3, <2>4, <2>5, <2>6, <2>7, <2>8 DEF Next
<1> QED
  BY QueueInit, TypeInvariant, <1>1, PTL DEF Spec

-----------------------------------------------------------------------------
(* A case whose message was consumed is settled *)

\* When the loop is about to commit the offset, the outcome is known.
OutcomeKnown ==
  /\ handler.pc = "commit"     => row[handler.thread].status # "running"
  /\ handler.pc = "commit_dlq" => handler.thread \in dlq

SettledInv == OutcomeKnown /\ ConsumedCaseSettled

\* No case starts running.
NoneStarts == \A t \in Threads : row'[t].status = "running" => row[t].status = "running"

\* A message behind the committed offset is not the one in flight, and its
\* simulate call is over.
LEMMA ConsumedIsOld ==
  ASSUME TypeInv, QueueInv, NEW o \in Orders, NEW i \in 1..committed[o]
  PROVE  /\ topic[o][i] \in Threads
         /\ sim[topic[o][i]] \in {"published", "failed"}
         /\ handler.pc # "idle" => topic[o][i] # handler.thread
<1>1. topic[o] \in Seq(Threads) /\ committed[o] \in Nat /\ committed[o] <= Len(topic[o])
  BY DEF TypeInv, TypeOK, QueueInv, OffsetInTopic
<1>2. i \in InTopic(o) /\ topic[o][i] \in Threads
  BY <1>1 DEF InTopic
<1>3. Order(topic[o][i]) = o /\ sim[topic[o][i]] \in {"published", "failed"}
  BY <1>2 DEF QueueInv, MessagesKeyed
<1>4. ASSUME handler.pc # "idle", topic[o][i] = handler.thread PROVE FALSE
  <2>1. committed[o] + 1 \in InTopic(o) /\ topic[o][committed[o] + 1] = handler.thread
    BY <1>3, <1>4 DEF QueueInv, InFlightIsNext, NextOffset
  <2>2. i = committed[o] + 1
    BY <1>2, <1>4, <2>1 DEF QueueInv, MessagesOnce
  <2> QED
    BY <1>1, <2>2
<1> QED
  BY <1>2, <1>3, <1>4

LEMMA InFlightIsOld ==
  ASSUME TypeInv, QueueInv, handler.pc # "idle"
  PROVE  sim[handler.thread] \in {"published", "failed"}
<1>1. Order(handler.thread) \in Orders
  BY EventFields DEF TypeInv, HandlerBusy
<1> QED
  BY <1>1 DEF QueueInv, InFlightIsNext, MessagesKeyed

\* A step that commits no offset keeps every consumed case settled if it makes
\* none of them run.
LEMMA SettledFrame ==
  ASSUME TypeInv, QueueInv, SettledInv, UNCHANGED <<topic, committed>>, dlq \subseteq dlq',
         \A t \in Threads :
           \/ row'[t].status = "running" => row[t].status = "running"
           \/ sim[t] \notin {"published", "failed"}
           \/ handler.pc # "idle" /\ t = handler.thread
  PROVE  ConsumedCaseSettled'
<1> SUFFICES ASSUME NEW o \in Orders, NEW i \in 1..committed[o]
             PROVE  row'[topic[o][i]].status # "running" \/ topic[o][i] \in dlq'
  BY DEF ConsumedCaseSettled, Settled
<1>1. row[topic[o][i]].status # "running" \/ topic[o][i] \in dlq
  BY DEF SettledInv, ConsumedCaseSettled, Settled
<1> QED
  BY <1>1, ConsumedIsOld

LEMMA SettledQuiet ==
  ASSUME TypeInv, QueueInv, SettledInv, NoneStarts,
         UNCHANGED <<topic, committed, dlq>>,
         handler' = handler \/ handler'.pc \notin {"commit", "commit_dlq"}
  PROVE  SettledInv'
<1>1. ConsumedCaseSettled'
  BY SettledFrame DEF NoneStarts
<1>2. OutcomeKnown'
  <2>1. handler'.pc \in {"commit", "commit_dlq"} => handler' = handler /\ handler.thread \in Threads
    BY DEF TypeInv, HandlerBusy
  <2> QED
    BY <2>1 DEF OutcomeKnown, SettledInv, NoneStarts
<1> QED
  BY <1>1, <1>2 DEF SettledInv

LEMMA ResumeStartsNone ==
  ASSUME TypeInv, NEW r \in Requests, ResumeStep(r)
  PROVE  NoneStarts
<1>types. row \in [Threads -> Row] /\ (req[r].pc # "idle" => req[r].thread \in Threads)
  BY DEF TypeInv, TypeOK, RequestsBusy
<1>1. CASE RecordDecision(r)
  BY <1>1, <1>types DEF RecordDecision, NoneStarts, Decided, Row
<1>2. CASE LoadCase(r)
  BY <1>2, <1>types DEF LoadCase, NoneStarts, Row
<1>3. CASE FinishDecision(r)
  BY <1>3, <1>types DEF FinishDecision, NoneStarts, FinalStatus
<1>4. CASE FailCase(r)
  BY <1>4, <1>types DEF FailCase, NoneStarts, Row
<1>5. CASE ApplyErp(r) \/ PushState(r) \/ ResumeGraph(r) \/ RequestFails(r)
  BY <1>5 DEF ApplyErp, PushState, ResumeGraph, RequestFails, NoneStarts
<1> QED
  BY <1>1, <1>2, <1>3, <1>4, <1>5 DEF ResumeStep

LEMMA SettledConsumer ==
  ASSUME TypeInv, QueueInv, SettledInv, ConsumerStep
  PROVE  SettledInv'
<1>types. /\ row \in [Threads -> Row]
          /\ handler \in Handler
          /\ handler.pc # "idle" => handler.thread \in Threads
  BY DEF TypeInv, TypeOK, HandlerBusy
<1>1. ASSUME NEW o \in Orders, Poll(o) PROVE SettledInv'
  BY <1>1, IdleType, SettledQuiet DEF Poll, NoneStarts, kafkaVars, Handler
<1>2. CASE GetGraphFails \/ StartGraph \/ HandlerFails \/ MarkFailedFails
  <2>1. handler'.pc \notin {"commit", "commit_dlq"} /\ NoneStarts
    BY <1>2, <1>types DEF GetGraphFails, StartGraph, HandlerFails, MarkFailedFails, HandlerTo,
                          Handler, NoneStarts
  <2> QED
    BY <1>2, <2>1, SettledQuiet
       DEF GetGraphFails, StartGraph, HandlerFails, MarkFailedFails, kafkaVars
<1>3. CASE MarkRunning
  <2>1. \A t \in Threads : t # handler.thread => row'[t] = row[t]
    BY <1>3, <1>types DEF MarkRunning, handlerThread
  <2>2. handler'.pc = "start" /\ handler.pc # "idle" /\ UNCHANGED <<topic, committed, dlq>>
    BY <1>3, <1>types DEF MarkRunning, HandlerTo, Handler, kafkaVars
  <2>3. ConsumedCaseSettled'
    BY <2>1, <2>2, SettledFrame
  <2> QED
    BY <2>2, <2>3 DEF SettledInv, OutcomeKnown
<1>4. CASE ReadOutcome
  <2>1. NoneStarts /\ UNCHANGED <<topic, committed, dlq, row>>
    BY <1>4 DEF ReadOutcome, NoneStarts, kafkaVars
  <2>2. CASE HasRow(handlerThread)
    <3>1. handler'.pc = "persist"
      BY <1>4, <1>types, <2>2 DEF ReadOutcome, Handler
    <3> QED
      BY <2>1, <3>1, SettledQuiet
  <2>3. CASE ~HasRow(handlerThread)
    <3>1. handler'.pc = "commit" /\ handler'.thread = handler.thread
      BY <1>4, <1>types, <2>3 DEF ReadOutcome, HandlerTo, Handler
    <3>2. OutcomeKnown'
      BY <2>1, <2>3, <3>1 DEF OutcomeKnown, HasRow, handlerThread, None
    <3>3. ConsumedCaseSettled'
      BY <2>1, SettledFrame
    <3> QED
      BY <3>2, <3>3 DEF SettledInv
  <2> QED
    BY <2>2, <2>3
<1>5. CASE PersistOutcome
  <2>1. UNCHANGED <<topic, committed, dlq>> /\ handler.pc # "idle"
    BY <1>5 DEF PersistOutcome, kafkaVars
  <2>2. CASE HasRow(handlerThread)
    <3> DEFINE outcome == OutcomeStatus(run[Consumer].values, handler.interrupted)
               integ == run[Consumer].values.integ
    <3>1. outcome # "running"
      BY DEF OutcomeStatus
    <3>2. row' = [row EXCEPT ![handlerThread].integ = integ, ![handlerThread].status = outcome]
      BY <1>5, <2>2 DEF PersistOutcome
    <3>3. NoneStarts /\ row'[handler.thread].status # "running"
      <4> HIDE DEF outcome, integ
      <4> QED
        BY <1>types, <2>1, <3>1, <3>2 DEF NoneStarts, handlerThread, Row
    <3>4. handler'.pc = "commit" /\ handler'.thread = handler.thread
      BY <1>5, <1>types, <2>2 DEF PersistOutcome, HandlerTo, Handler
    <3>5. ConsumedCaseSettled'
      BY <2>1, <3>3, SettledFrame DEF NoneStarts
    <3> QED
      BY <3>3, <3>4, <3>5 DEF SettledInv, OutcomeKnown
  <2>3. CASE ~HasRow(handlerThread)
    <3>1. handler'.pc = "fail" /\ NoneStarts
      BY <1>5, <1>types, <2>3 DEF PersistOutcome, HandlerTo, Handler, NoneStarts
    <3> QED
      BY <2>1, <3>1, SettledQuiet
  <2> QED
    BY <2>2, <2>3
<1>6. CASE MarkFailed
  <2>1. handler'.pc = "dlq" /\ NoneStarts /\ UNCHANGED <<topic, committed, dlq>>
    BY <1>6, <1>types DEF MarkFailed, HandlerTo, Handler, NoneStarts, Row, kafkaVars, handlerThread
  <2> QED
    BY <2>1, SettledQuiet
<1>7. CASE PublishToDlq
  <2>1. /\ handler'.pc = "commit_dlq" /\ handler'.thread = handler.thread
        /\ dlq' = dlq \cup {handler.thread}
        /\ UNCHANGED <<topic, committed, row>>
    BY <1>7, <1>types DEF PublishToDlq, HandlerTo, Handler, handlerThread
  <2>2. ConsumedCaseSettled'
    BY <2>1, SettledFrame
  <2> QED
    BY <2>1, <2>2 DEF SettledInv, OutcomeKnown
<1>8. CASE CommitOffset
  <2> DEFINE u == Order(handler.thread)
  <2>1. /\ committed' = [committed EXCEPT ![u] = @ + 1]
        /\ handler'.pc = "idle"
        /\ UNCHANGED <<topic, row, dlq>>
    BY <1>8, IdleType DEF CommitOffset, Advance, handlerThread
  <2>2. Settled(handler.thread)
    BY <1>8 DEF CommitOffset, MayCommit, SettledInv, OutcomeKnown, Settled
  <2>3. /\ u \in Orders
        /\ topic[u][committed[u] + 1] = handler.thread
        /\ committed \in [Orders -> Nat]
    BY <1>8, EventFields DEF CommitOffset, MayCommit, TypeInv, TypeOK, HandlerBusy, QueueInv,
                             InFlightIsNext, NextOffset
  <2>4. ConsumedCaseSettled'
    <3> SUFFICES ASSUME NEW o \in Orders, NEW i \in 1..committed'[o]
                 PROVE  Settled(topic[o][i])
      BY <2>1 DEF ConsumedCaseSettled, Settled
    <3>1. i \in 1..committed[o] \/ (o = u /\ i = committed[u] + 1)
      <4> HIDE DEF u
      <4> QED
        BY <2>1, <2>3
    <3> QED
      BY <2>2, <2>3, <3>1 DEF SettledInv, ConsumedCaseSettled
  <2> QED
    BY <2>1, <2>4 DEF SettledInv, OutcomeKnown
<1>9. CASE LoopFails
  <2>1. /\ handler'.pc \in {"dlq", "dead"}
        /\ NoneStarts /\ UNCHANGED <<topic, committed, dlq>>
    BY <1>9, <1>types DEF LoopFails, HandlerTo, Handler, NoneStarts, kafkaVars
  <2> QED
    BY <2>1, SettledQuiet
<1> QED
  BY <1>1, <1>2, <1>3, <1>4, <1>5, <1>6, <1>7, <1>8, <1>9 DEF ConsumerStep

LEMMA SettledInit == Init => SettledInv
BY IdleType DEF Init, SettledInv, OutcomeKnown, ConsumedCaseSettled

LEMMA SettledInvariant == Spec => []SettledInv
<1>1. ASSUME TypeInv, QueueInv, SettledInv, [Next]_vars
      PROVE  SettledInv'
  <2>row. row \in [Threads -> Row]
    BY <1>1 DEF TypeInv, TypeOK
  <2>1. ASSUME NEW t \in Threads, Simulate(t) PROVE SettledInv'
    <3>1. CASE InsertExecution(t)
      <4>1. /\ \A u \in Threads : u # t => row'[u] = row[u]
            /\ sim[t] = "checked"
            /\ UNCHANGED <<topic, committed, dlq, handler>>
        BY <3>1, <2>row DEF InsertExecution, kafkaVars
      <4>2. ConsumedCaseSettled'
        BY <1>1, <4>1, SettledFrame
      <4>3. handler.pc # "idle" => handler.thread \in Threads /\ handler.thread # t
        BY <1>1, <4>1, InFlightIsOld DEF TypeInv, HandlerBusy
      <4> QED
        BY <1>1, <4>1, <4>2, <4>3 DEF SettledInv, OutcomeKnown
    <3>2. CASE CheckActive(t)
      BY <1>1, <3>2, SettledQuiet DEF CheckActive, NoneStarts, kafkaVars
    <3>3. CASE PublishEvent(t) \/ PublishFails(t)
      <4>1. UNCHANGED <<committed, row, dlq, handler>> /\ (Deliver(t) \/ UNCHANGED topic)
        BY <3>3 DEF PublishEvent, PublishFails
      <4>2. ASSUME NEW o \in Orders, NEW i \in 1..committed[o]
            PROVE  topic'[o][i] = topic[o][i]
        <5>1. /\ topic \in [Orders -> Seq(Threads)]
              /\ Order(t) \in Orders
              /\ committed[o] \in Nat /\ committed[o] <= Len(topic[o])
          BY <1>1, EventFields DEF TypeInv, TypeOK, QueueInv, OffsetInTopic
        <5>2. topic[o] \in Seq(Threads) /\ i \in 1..Len(topic[o])
          BY <5>1
        <5>3. topic'[o] = topic[o] \/ topic'[o] = Append(topic[o], t)
          BY <4>1, <5>1 DEF Deliver
        <5> QED
          BY <5>2, <5>3
      <4> QED
        BY <1>1, <4>1, <4>2 DEF SettledInv, OutcomeKnown, ConsumedCaseSettled, Settled
    <3> QED
      BY <2>1, <3>1, <3>2, <3>3 DEF Simulate
  <2>2. CASE ConsumerStep
    BY <1>1, <2>2, SettledConsumer
  <2>3. ASSUME NEW a \in Actors, GraphStep(a) PROVE SettledInv'
    BY <1>1, <2>3, GraphFrameVars, SettledQuiet DEF graphUnchanged, kafkaVars, NoneStarts
  <2>4. ASSUME NEW r \in Requests, NEW t \in Threads, NEW d \in Decision, AcceptDecision(r, t, d)
        PROVE  SettledInv'
    BY <1>1, <2>4, RequestFrameVars, SettledQuiet DEF AcceptDecision, NoneStarts
  <2>5. ASSUME NEW r \in Requests, ResumeStep(r) PROVE SettledInv'
    BY <1>1, <2>5, RequestFrameVars, ResumeStartsNone, SettledQuiet
  <2>6. CASE Administration
    <3>1. NoneStarts
      BY <2>6 DEF Administration, ResetInvestigations, DeleteCases, ResetErpOrders, FeedErpOrder,
                  NoneStarts, NoRow, None
    <3> QED
      BY <1>1, <2>6, <3>1, AdministrationFrameVars, SettledQuiet
  <2>7. CASE Crash
    BY <1>1, <2>7, IdleType, SettledQuiet DEF Crash, NoneStarts, kafkaVars
  <2>8. CASE UNCHANGED vars
    BY <1>1, <2>8, SettledQuiet DEF vars, NoneStarts
  <2> QED
    BY <1>1, <2>1, <2>2, <2>3, <2>4, <2>5, <2>6, <2>7, <2>8 DEF Next
<1> QED
  BY SettledInit, TypeInvariant, QueueInvariant, <1>1, PTL DEF Spec

\* kafka_client.py:140 and :178: whatever fails, whoever calls what and however
\* often the process crashes, a message whose offset is committed belongs to a
\* case that is not RUNNING, or it is in the dead letter queue.
THEOREM ConsumedSettled == Spec => []ConsumedCaseSettled
BY SettledInvariant, PTL DEF SettledInv

-----------------------------------------------------------------------------
(* A case in the topic has its row *)

\* The row is there before the message.
RowFirst == \A t \in Threads : sim[t] = "inserted" => HasRow(t)

EnqueuedInv == (used.resets = 0 => RowFirst) /\ EnqueuedCaseHasRow

RowsKept == \A t \in Threads : HasRow(t) => row'[t].status # None

LEMMA ResetsOnlyGrow ==
  ASSUME TypeOK, Fault \/ UNCHANGED used
  PROVE  used'.resets = used.resets
BY FaultType

LEMMA EnqueuedFrame ==
  ASSUME TypeInv, EnqueuedInv, UNCHANGED topic,
         used'.resets = 0 => used.resets = 0 /\ RowsKept,
         \A t \in Threads :
           sim'[t] = "inserted" => sim[t] = "inserted" \/ row'[t].status # None
  PROVE  EnqueuedInv'
<1> SUFFICES ASSUME used'.resets = 0
             PROVE  RowFirst' /\ \A o \in Orders : \A i \in DOMAIN topic[o] :
                                   row'[topic[o][i]].status # None
  BY DEF EnqueuedInv, EnqueuedCaseHasRow, HasRow
<1>1. RowFirst'
  BY DEF EnqueuedInv, RowFirst, RowsKept, HasRow
<1>2. ASSUME NEW o \in Orders, NEW i \in DOMAIN topic[o] PROVE row'[topic[o][i]].status # None
  <2>1. topic[o] \in Seq(Threads)
    BY DEF TypeInv, TypeOK
  <2>2. topic[o][i] \in Threads
    BY <2>1
  <2> QED
    BY <2>2 DEF EnqueuedInv, EnqueuedCaseHasRow, RowsKept
<1> QED
  BY <1>1, <1>2

LEMMA EnqueuedDeliver ==
  ASSUME TypeInv, EnqueuedInv, NEW t \in Threads, sim[t] = "inserted",
         Deliver(t) \/ UNCHANGED topic, UNCHANGED row,
         NEW s \in {"published", "failed"}, sim' = [sim EXCEPT ![t] = s],
         used'.resets = used.resets
  PROVE  EnqueuedInv'
<1>types. /\ topic \in [Orders -> Seq(Threads)]
          /\ sim \in [Threads -> {"idle", "checked", "inserted", "published",
                                  "refused", "failed"}]
          /\ Order(t) \in Orders
  BY EventFields DEF TypeInv, TypeOK
<1> SUFFICES ASSUME used.resets = 0
             PROVE  RowFirst' /\ EnqueuedCaseHasRow'
  BY DEF EnqueuedInv, EnqueuedCaseHasRow
<1>1. RowFirst'
  BY <1>types DEF EnqueuedInv, RowFirst, HasRow
<1>2. ASSUME NEW o \in Orders, NEW i \in DOMAIN topic'[o] PROVE HasRow(topic'[o][i])
  <2>1. topic'[o] = topic[o] \/ topic'[o] = Append(topic[o], t)
    BY <1>types DEF Deliver
  <2>2. topic[o] \in Seq(Threads)
    BY <1>types
  <2>3. topic'[o][i] = t \/ (i \in DOMAIN topic[o] /\ topic'[o][i] = topic[o][i])
    BY <1>2, <2>1, <2>2
  <2> QED
    BY <2>3 DEF EnqueuedInv, EnqueuedCaseHasRow, RowFirst
<1>3. EnqueuedCaseHasRow'
  BY <1>2 DEF EnqueuedCaseHasRow, HasRow
<1> QED
  BY <1>1, <1>3

LEMMA ConsumerKeepsRows ==
  ASSUME TypeInv, ConsumerStep
  PROVE  RowsKept /\ used'.resets = used.resets /\ UNCHANGED <<sim, topic>>
<1>types. row \in [Threads -> Row] /\ TypeOK
  BY DEF TypeInv, TypeOK
<1>1. CASE MarkRunning \/ MarkFailed
  BY <1>1, <1>types
     DEF MarkRunning, MarkFailed, RowsKept, HasRow, Row, None, intakeVars, kafkaVars
<1>2. CASE PersistOutcome
  <2> DEFINE outcome == OutcomeStatus(run[Consumer].values, handler.interrupted)
             integ == run[Consumer].values.integ
  <2>1. outcome # None
    BY DEF OutcomeStatus, None
  <2>2. \/ row' = row
        \/ row' = [row EXCEPT ![handlerThread].integ = integ, ![handlerThread].status = outcome]
    BY <1>2 DEF PersistOutcome
  <2>3. RowsKept
    <3> HIDE DEF outcome, integ
    <3> QED
      BY <1>types, <2>1, <2>2 DEF RowsKept, HasRow, Row
  <2> QED
    BY <1>2, <2>3 DEF PersistOutcome, intakeVars, kafkaVars
<1>3. CASE ~(MarkRunning \/ MarkFailed \/ PersistOutcome)
  <2>1. UNCHANGED <<row, sim, topic>> /\ (Fault \/ UNCHANGED used)
    BY <1>3 DEF ConsumerStep, Poll, GetGraphFails, StartGraph, ReadOutcome, HandlerFails,
                MarkFailedFails, PublishToDlq, CommitOffset, LoopFails, intakeVars, kafkaVars
  <2> QED
    BY <1>types, <2>1, ResetsOnlyGrow DEF RowsKept, HasRow
<1> QED
  BY <1>1, <1>2, <1>3

LEMMA ResumeKeepsRows ==
  ASSUME TypeInv, NEW r \in Requests, ResumeStep(r)
  PROVE  RowsKept /\ used'.resets = used.resets
<1>types. row \in [Threads -> Row] /\ TypeOK
  BY DEF TypeInv, TypeOK
<1>1. CASE RecordDecision(r)
  BY <1>1, <1>types DEF RecordDecision, Decided, RowsKept, HasRow, Row
<1>2. CASE LoadCase(r)
  BY <1>2, <1>types DEF LoadCase, RowsKept, HasRow, Row
<1>3. CASE FinishDecision(r)
  BY <1>3, <1>types DEF FinishDecision, FinalStatus, RowsKept, HasRow, None
<1>4. CASE FailCase(r)
  BY <1>4, <1>types DEF FailCase, RowsKept, HasRow, Row, None
<1>5. CASE ApplyErp(r) \/ PushState(r) \/ ResumeGraph(r) \/ RequestFails(r)
  <2>1. UNCHANGED row /\ (Fault \/ UNCHANGED used)
    BY <1>5 DEF ApplyErp, PushState, ResumeGraph, RequestFails
  <2> QED
    BY <1>types, <2>1, ResetsOnlyGrow DEF RowsKept, HasRow
<1> QED
  BY <1>1, <1>2, <1>3, <1>4, <1>5 DEF ResumeStep

LEMMA GraphKeepsResets ==
  ASSUME TypeInv, NEW a \in Actors, GraphStep(a)
  PROVE  used'.resets = used.resets
<1>1. Fault \/ UNCHANGED used
  BY DEF GraphStep, PlannerNode, ResearchNode, BrowserNode, IntegrationPending,
         IntegrationAuto, HumanReviewNode, ReportingNode, NotificationNode, NodeFails,
         IntegrationFails, SaveCheckpoint
<1> QED
  BY <1>1, ResetsOnlyGrow DEF TypeInv

LEMMA EnqueuedInvariant == Spec => []EnqueuedInv
<1>1. ASSUME Init PROVE EnqueuedInv
  BY <1>1 DEF Init, EnqueuedInv, RowFirst, EnqueuedCaseHasRow
<1>2. ASSUME TypeInv, EnqueuedInv, [Next]_vars
      PROVE  EnqueuedInv'
  <2>type. TypeOK /\ row \in [Threads -> Row]
    BY <1>2 DEF TypeInv, TypeOK
  <2>1. ASSUME NEW t \in Threads, Simulate(t) PROVE EnqueuedInv'
    <3>1. CASE CheckActive(t)
      <4>1. \A u \in Threads : sim'[u] = "inserted" => sim[u] = "inserted"
        BY <3>1, <2>type DEF CheckActive, TypeOK
      <4> QED
        BY <1>2, <3>1, <4>1, EnqueuedFrame DEF CheckActive, RowsKept, HasRow, kafkaVars
    <3>2. CASE InsertExecution(t)
      <4>1. row'[t].status # None /\ \A u \in Threads : u # t => row'[u] = row[u]
        BY <3>2, <2>type DEF InsertExecution, NoRow, None
      <4>2. \A u \in Threads : u # t => sim'[u] = sim[u]
        BY <3>2, <2>type DEF InsertExecution, TypeOK
      <4>3. UNCHANGED <<topic, used>>
        BY <3>2 DEF InsertExecution, kafkaVars
      <4> QED
        BY <1>2, <4>1, <4>2, <4>3, EnqueuedFrame DEF RowsKept, HasRow
    <3>3. CASE PublishEvent(t)
      BY <1>2, <3>3, EnqueuedDeliver DEF PublishEvent, MayPublish
    <3>4. CASE PublishFails(t)
      BY <1>2, <2>type, <3>4, FaultType, EnqueuedDeliver DEF PublishFails
    <3> QED
      BY <2>1, <3>1, <3>2, <3>3, <3>4 DEF Simulate
  <2>2. CASE ConsumerStep
    BY <1>2, <2>2, ConsumerKeepsRows, EnqueuedFrame
  <2>3. ASSUME NEW a \in Actors, GraphStep(a) PROVE EnqueuedInv'
    <3>1. UNCHANGED <<topic, sim, row>> /\ used'.resets = used.resets
      BY <1>2, <2>3, GraphFrameVars, GraphKeepsResets DEF graphUnchanged, intakeVars, kafkaVars
    <3> QED
      BY <1>2, <3>1, EnqueuedFrame DEF RowsKept, HasRow
  <2>4. ASSUME NEW r \in Requests, NEW t \in Threads, NEW d \in Decision, AcceptDecision(r, t, d)
        PROVE  EnqueuedInv'
    BY <1>2, <2>4, EnqueuedFrame
       DEF AcceptDecision, RowsKept, HasRow, intakeVars, kafkaVars
  <2>5. ASSUME NEW r \in Requests, ResumeStep(r) PROVE EnqueuedInv'
    BY <1>2, <2>5, RequestFrameVars, ResumeKeepsRows, EnqueuedFrame
  <2>6. CASE Administration
    <3>1. used'.resets # 0
      BY <2>type, <2>6, UseResetType
         DEF Administration, ResetInvestigations, ResetErpOrders, FeedErpOrder
    <3> QED
      BY <3>1 DEF EnqueuedInv, EnqueuedCaseHasRow
  <2>7. CASE Crash
    <3>1. used'.resets = used.resets
      BY <2>type, <2>7 DEF Crash, TypeOK
    <3> QED
      BY <1>2, <2>7, <3>1, EnqueuedFrame DEF Crash, InProgress, RowsKept, HasRow, kafkaVars
  <2>8. CASE UNCHANGED vars
    BY <1>2, <2>8, EnqueuedFrame DEF vars, RowsKept, HasRow
  <2> QED
    BY <1>2, <2>1, <2>2, <2>3, <2>4, <2>5, <2>6, <2>7, <2>8 DEF Next
<1> QED
  BY <1>1, <1>2, TypeInvariant, PTL DEF Spec

\* api.py:405, "Publish after commit so consumer always finds the row": with any
\* number of calls, failed publishes and crashes, as long as nobody reset the
\* investigations.
THEOREM EnqueuedHasRow == Spec => []EnqueuedCaseHasRow
BY EnqueuedInvariant, PTL DEF EnqueuedInv

=============================================================================
