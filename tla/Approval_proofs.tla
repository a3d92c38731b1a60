-------------------------- MODULE Approval_proofs --------------------------
(***************************************************************************)
(* What a decision does to the ERP, for every value of the constants.      *)
(***************************************************************************)
EXTENDS Investigation_proofs

-----------------------------------------------------------------------------
(* What an approval changed in the ERP is in the audit log *)

\* The simulate call got past its insert, or will never make it: from here on the
\* row can go, in a reset, but never come back.
PastInsert(t) == sim[t] \notin {"idle", "checked"}

RowsPastInsert     == \A t \in Threads : HasRow(t) => PastInsert(t)
RequestsPastInsert == \A r \in Requests : req[r].pc # "idle" => PastInsert(req[r].thread)
ApprovedPastInsert == \A w \in writes : w.by # "auto" => PastInsert(w.thread)

AuditInv == /\ RowsPastInsert /\ RequestsPastInsert /\ ApprovedPastInsert
            /\ ApprovedWriteAudited

\* No step takes a call back before its insert, and only the insert makes a row.
RowsNeverReturn ==
  \A t \in Threads :
    /\ PastInsert(t) => sim'[t] \notin {"idle", "checked"}
    /\ row'[t].status # None => HasRow(t) \/ (~PastInsert(t) /\ sim'[t] = "inserted")

LEMMA ConsumerRows ==
  ASSUME TypeInv, ConsumerStep
  PROVE  RowsNeverReturn
<1>types. row \in [Threads -> Row]
  BY DEF TypeInv, TypeOK
<1>sim. UNCHANGED sim
  BY ConsumerKeepsRows
<1>1. CASE MarkRunning \/ MarkFailed
  BY <1>1, <1>sim, <1>types DEF MarkRunning, MarkFailed, RowsNeverReturn, HasRow, PastInsert
<1>2. CASE PersistOutcome
  <2>1. \A t \in Threads : row'[t] = row[t] \/ HasRow(t)
    BY <1>2, <1>types DEF PersistOutcome
  <2> QED
    BY <1>sim, <2>1 DEF RowsNeverReturn, HasRow, PastInsert
<1>3. CASE ~(MarkRunning \/ MarkFailed \/ PersistOutcome)
  <2>1. UNCHANGED row
    BY <1>3 DEF ConsumerStep, Poll, GetGraphFails, StartGraph, ReadOutcome, HandlerFails,
                MarkFailedFails, PublishToDlq, CommitOffset, LoopFails
  <2> QED
    BY <1>sim, <2>1 DEF RowsNeverReturn, HasRow, PastInsert
<1> QED
  BY <1>1, <1>2, <1>3

LEMMA ResumeRows ==
  ASSUME TypeInv, NEW r \in Requests, ResumeStep(r)
  PROVE  RowsNeverReturn
<1>types. row \in [Threads -> Row]
  BY DEF TypeInv, TypeOK
<1>1. \A t \in Threads : row'[t] = row[t] \/ HasRow(t)
  BY <1>types DEF ResumeStep, RecordDecision, LoadCase, ApplyErp, PushState, ResumeGraph,
                  FinishDecision, RequestFails, FailCase
<1> QED
  BY <1>1, RequestFrameVars DEF RowsNeverReturn, HasRow, PastInsert

LEMMA StepRows ==
  ASSUME TypeInv, [Next]_vars
  PROVE  RowsNeverReturn
<1>types. row \in [Threads -> Row] /\ TypeOK
  BY DEF TypeInv, TypeOK
<1>same. ASSUME UNCHANGED <<sim, row>> PROVE RowsNeverReturn
  BY <1>same DEF RowsNeverReturn, HasRow, PastInsert
<1>1. ASSUME NEW t \in Threads, Simulate(t) PROVE RowsNeverReturn
  <2>1. CASE InsertExecution(t)
    BY <2>1, <1>types DEF InsertExecution, RowsNeverReturn, HasRow, PastInsert, TypeOK
  <2>2. CASE ~InsertExecution(t)
    BY <1>1, <2>2, <1>types
       DEF Simulate, CheckActive, PublishEvent, PublishFails, MayPublish, RowsNeverReturn,
           HasRow, PastInsert, TypeOK
  <2> QED
    BY <2>1, <2>2
<1>2. CASE ConsumerStep
  BY <1>2, ConsumerRows
<1>3. ASSUME NEW a \in Actors, GraphStep(a) PROVE RowsNeverReturn
  BY <1>3, <1>same, GraphFrameVars DEF graphUnchanged, intakeVars
<1>4. ASSUME NEW r \in Requests, NEW t \in Threads, NEW d \in Decision, AcceptDecision(r, t, d)
      PROVE  RowsNeverReturn
  BY <1>4, <1>same DEF AcceptDecision, intakeVars
<1>5. ASSUME NEW r \in Requests, ResumeStep(r) PROVE RowsNeverReturn
  BY <1>5, ResumeRows
<1>6. CASE Administration
  <2>1. \A t \in Threads : row'[t] = row[t] \/ row'[t] = NoRow
    BY <1>6, <1>types
       DEF Administration, ResetInvestigations, DeleteCases, ResetErpOrders, FeedErpOrder
  <2> QED
    BY <1>6, <2>1, AdministrationFrameVars DEF RowsNeverReturn, HasRow, PastInsert, NoRow
<1>7. CASE Crash
  BY <1>7, <1>types DEF Crash, InProgress, RowsNeverReturn, HasRow, PastInsert, TypeOK
<1>8. CASE UNCHANGED vars
  BY <1>8, <1>same DEF vars
<1> QED
  BY <1>1, <1>2, <1>3, <1>4, <1>5, <1>6, <1>7, <1>8 DEF Next

\* A request is past its case's insert once it found the row.
LEMMA RequestsStayPast ==
  ASSUME TypeInv, RowsPastInsert, RequestsPastInsert, RowsNeverReturn, [Next]_vars
  PROVE  RequestsPastInsert'
<1>types. TypeOK /\ req \in [Requests -> Request]
  BY DEF TypeInv, TypeOK
<1> DEFINE Stays(q) == req[q].pc # "idle" /\ req'[q].thread = req[q].thread
           Finds(q) == req'[q].thread \in Threads /\ HasRow(req'[q].thread)
           Known    == \A q \in Requests : req'[q].pc # "idle" => Stays(q) \/ Finds(q)
<1>1. Known
  <2>same. ASSUME UNCHANGED req PROVE Known
    BY <2>same
  <2>1. ASSUME NEW t \in Threads, Simulate(t) PROVE Known
    BY <2>1, <2>same DEF Simulate, CheckActive, InsertExecution, PublishEvent, PublishFails
  <2>2. CASE ConsumerStep
    BY <2>2, <2>same
       DEF ConsumerStep, Poll, GetGraphFails, MarkRunning, StartGraph, ReadOutcome,
           PersistOutcome, HandlerFails, MarkFailed, MarkFailedFails, PublishToDlq,
           CommitOffset, LoopFails
  <2>3. ASSUME NEW a \in Actors, GraphStep(a) PROVE Known
    BY <2>3, <2>same, GraphFrameVars DEF graphUnchanged
  <2>4. ASSUME NEW r \in Requests, NEW t \in Threads, NEW d \in Decision, AcceptDecision(r, t, d)
        PROVE  Known
    BY <2>4, <1>types DEF AcceptDecision, Unsent
  <2>5. ASSUME NEW r \in Requests, ResumeStep(r) PROVE Known
    BY <2>5, <1>types
       DEF ResumeStep, RecordDecision, LoadCase, ApplyErp, PushState, ResumeGraph,
           FinishDecision, RequestFails, FailCase, RequestTo, Request
  <2>6. CASE Administration
    BY <2>6, <2>same
       DEF Administration, ResetInvestigations, DeleteCases, ResetErpOrders, FeedErpOrder
  <2>7. CASE Crash
    BY <2>7, <1>types DEF Crash, Request
  <2>8. CASE UNCHANGED vars
    BY <2>8, <2>same DEF vars
  <2> QED
    BY <2>1, <2>2, <2>3, <2>4, <2>5, <2>6, <2>7, <2>8 DEF Next
<1>2. ASSUME NEW q \in Requests, req'[q].pc # "idle"
      PROVE  sim'[req'[q].thread] \notin {"idle", "checked"}
  BY <1>1, <1>2 DEF TypeInv, RequestsBusy, RowsPastInsert, RequestsPastInsert, RowsNeverReturn
<1> QED
  BY <1>2 DEF RequestsPastInsert, PastInsert

\* A step that loses no log row of a case it keeps, and adds no write but an
\* automatic one or one that is logged.
LEMMA AuditedFrame ==
  ASSUME TypeInv, AuditInv, RowsNeverReturn, RequestsPastInsert',
         \A l \in audit : row'[l.thread].status # None => l \in audit',
         \A w \in writes' :
           \/ w \in writes
           \/ w.by = "auto"
           \/ /\ w.thread \in Threads /\ PastInsert(w.thread)
              /\ [request |-> w.by, thread |-> w.thread, success |-> TRUE] \in audit'
  PROVE  AuditInv'
<1>1. \A w \in writes : w.thread \in Threads
  BY DEF TypeInv, TypeOK
<1>2. RowsPastInsert'
  BY DEF AuditInv, RowsPastInsert, RowsNeverReturn, PastInsert, HasRow
<1>3. ApprovedPastInsert'
  BY <1>1 DEF AuditInv, ApprovedPastInsert, RowsNeverReturn, PastInsert
<1>4. ASSUME NEW w \in writes', w.by # "auto", row'[w.thread].status # None
      PROVE  [request |-> w.by, thread |-> w.thread, success |-> TRUE] \in audit'
  <2> DEFINE l == [request |-> w.by, thread |-> w.thread, success |-> TRUE]
  <2>1. ASSUME w \in writes PROVE l \in audit'
    <3>1. PastInsert(w.thread)
      BY <1>4, <2>1 DEF AuditInv, ApprovedPastInsert
    <3>2. HasRow(w.thread)
      BY <1>1, <1>4, <2>1, <3>1 DEF RowsNeverReturn
    <3>3. l \in audit
      BY <1>4, <2>1, <3>2 DEF AuditInv, ApprovedWriteAudited
    <3>4. l.thread = w.thread
      OBVIOUS
    <3> HIDE DEF l
    <3> QED
      BY <1>4, <3>3, <3>4
  <2> QED
    BY <1>4, <2>1
<1> QED
  BY <1>2, <1>3, <1>4 DEF AuditInv, ApprovedWriteAudited, HasRow

LEMMA AuditedResume ==
  ASSUME TypeInv, AuditInv, RowsNeverReturn, RequestsPastInsert',
         NEW r \in Requests, ResumeStep(r)
  PROVE  AuditInv'
<1>1. CASE ApplyErp(r)
  <2> DEFINE t == req[r].thread
  <2>0. t \in Threads /\ PastInsert(t)
    BY <1>1 DEF ApplyErp, TypeInv, RequestsBusy, AuditInv, RequestsPastInsert
  <2>1. CASE InErp(t)
    <3>1. /\ writes' = writes \cup {[thread |-> t, by |-> r, seen |-> cp[t].values.erp,
                                     from |-> erp[Order(t)], to |-> req[r].integ.rec]}
          /\ audit' = audit \cup {[request |-> r, thread |-> t, success |-> InErp(t)]}
      BY <1>1, <2>1 DEF ApplyErp, SetOrder, Logged, LogRow
    <3>2. InErp(t) = TRUE
      BY <2>1 DEF InErp
    <3>3. ASSUME NEW w \in writes', w \notin writes
          PROVE  /\ w.thread \in Threads /\ PastInsert(w.thread)
                 /\ [request |-> w.by, thread |-> w.thread, success |-> TRUE] \in audit'
      <4>1. w.by = r /\ w.thread = t
        BY <3>1, <3>3
      <4>2. [request |-> r, thread |-> t, success |-> TRUE] \in audit'
        BY <3>1, <3>2
      <4> QED
        BY <2>0, <4>1, <4>2
    <3> QED
      BY <3>1, <3>3, AuditedFrame
  <2>2. CASE ~InErp(t)
    <3>1. writes' = writes /\ audit \subseteq audit'
      BY <1>1, <2>2 DEF ApplyErp, Logged
    <3> QED
      BY <3>1, AuditedFrame
  <2> QED
    BY <2>1, <2>2
<1>2. CASE ~ApplyErp(r)
  <2>1. UNCHANGED <<audit, writes>>
    BY <1>2 DEF ResumeStep, RecordDecision, LoadCase, PushState, ResumeGraph, FinishDecision,
                RequestFails, FailCase, erpVars
  <2> QED
    BY <2>1, AuditedFrame
<1> QED
  BY <1>1, <1>2

\* mulesoft.py:42, "Also writes an audit record": whatever fails, races, crashes or
\* is reset, an ERP change made by an approval has its successful log row in the
\* database for as long as its case has its row.
THEOREM WriteAudited == Spec => []ApprovedWriteAudited
<1>1. ASSUME Init PROVE AuditInv
  BY <1>1, UnsentType
     DEF Init, AuditInv, RowsPastInsert, RequestsPastInsert, ApprovedPastInsert,
         ApprovedWriteAudited, HasRow, NoRow
<1>2. ASSUME TypeInv, AuditInv, [Next]_vars
      PROVE  AuditInv'
  <2>rows. RowsNeverReturn /\ RequestsPastInsert'
    BY <1>2, StepRows, RequestsStayPast DEF AuditInv
  <2>quiet. ASSUME UNCHANGED <<audit, writes>> PROVE AuditInv'
    BY <1>2, <2>rows, <2>quiet, AuditedFrame
  <2>1. ASSUME NEW t \in Threads, Simulate(t) PROVE AuditInv'
    BY <2>1, <2>quiet
       DEF Simulate, CheckActive, InsertExecution, PublishEvent, PublishFails, erpVars
  <2>2. CASE ConsumerStep
    BY <2>2, <2>quiet
       DEF ConsumerStep, Poll, GetGraphFails, MarkRunning, StartGraph, ReadOutcome,
           PersistOutcome, HandlerFails, MarkFailed, MarkFailedFails, PublishToDlq,
           CommitOffset, LoopFails, erpVars
  <2>3. ASSUME NEW a \in Actors, GraphStep(a) PROVE AuditInv'
    <3>1. CASE IntegrationAuto(a)
      <4>1. audit' = audit
        BY <3>1 DEF IntegrationAuto, erpVars
      <4>2. \A w \in writes' : w \in writes \/ w.by = "auto"
        BY <3>1 DEF IntegrationAuto, UpdateOrderStatus, SetOrder, erpVars
      <4> QED
        BY <1>2, <2>rows, <4>1, <4>2, AuditedFrame
    <3>2. CASE ~IntegrationAuto(a)
      BY <2>3, <2>quiet, <3>2
         DEF GraphStep, PlannerNode, ResearchNode, BrowserNode, IntegrationPending,
             HumanReviewNode, ReportingNode, NotificationNode, NodeFails, IntegrationFails,
             SaveCheckpoint, erpVars
    <3> QED
      BY <3>1, <3>2
  <2>4. ASSUME NEW r \in Requests, NEW t \in Threads, NEW d \in Decision, AcceptDecision(r, t, d)
        PROVE  AuditInv'
    BY <2>4, <2>quiet DEF AcceptDecision, erpVars
  <2>5. ASSUME NEW r \in Requests, ResumeStep(r) PROVE AuditInv'
    BY <1>2, <2>rows, <2>5, AuditedResume
  <2>6. CASE Administration
    <3>1. CASE \E S \in SUBSET Threads : DeleteCases(S)
      <4>1. PICK S \in SUBSET Threads : DeleteCases(S)
        BY <3>1
      <4>2. \A l \in audit : row'[l.thread].status # None => l \in audit'
        BY <1>2, <4>1 DEF DeleteCases, NoRow, TypeInv, TypeOK
      <4>3. writes' = writes
        BY <4>1 DEF DeleteCases
      <4> QED
        BY <1>2, <2>rows, <4>2, <4>3, AuditedFrame
    <3>2. CASE ResetErpOrders \/ \E o \in Orders : FeedErpOrder(o)
      BY <2>quiet, <3>2 DEF ResetErpOrders, FeedErpOrder
    <3>3. \A o \in Orders : {t \in Threads : HasRow(t) /\ Order(t) = o} \in SUBSET Threads
      OBVIOUS
    <3> QED
      BY <2>6, <3>1, <3>2, <3>3 DEF Administration, ResetInvestigations
  <2>7. CASE Crash
    BY <2>7, <2>quiet DEF Crash, erpVars
  <2>8. CASE UNCHANGED vars
    BY <2>8, <2>quiet DEF vars, erpVars
  <2> QED
    BY <1>2, <2>1, <2>2, <2>3, <2>4, <2>5, <2>6, <2>7, <2>8 DEF Next
<1>3. AuditInv => ApprovedWriteAudited
  BY DEF AuditInv
<1> QED
  BY <1>1, <1>2, <1>3, TypeInvariant, PTL DEF Spec

-----------------------------------------------------------------------------
(* Where a recommendation comes from *)

\* Of the case's own portal page, or none.
Sound(integ, t) == integ.rec \in {None, Recommendation(event[t].portal)}
Evidenced(values, t) ==
  /\ values.portal \in {None, "error_collecting_data", event[t].portal}
  /\ Sound(values.integ, t)

RowsSound        == \A t \in Threads : Sound(row[t].integ, t)
CheckpointsSound == \A t \in Threads : Evidenced(cp[t].values, t)
RunsSound ==
  \A a \in Actors : run[a].thread \in Threads => Evidenced(run[a].values, run[a].thread)
RequestsSound ==
  \A r \in Requests :
    /\ req[r].pc # "idle"  => Sound(req[r].integ, req[r].thread)
    /\ req[r].pc = "apply" => req[r].decision = "approved"

\* The run of a task is a run of the case it works on.
RunsOwn ==
  /\ handler.pc \in {"graph", "persist"} => run[Consumer].thread = handler.thread
  /\ \A r \in Requests : req[r].pc = "graph" => run[r].thread = req[r].thread

EvidenceInv == RowsSound /\ CheckpointsSound /\ RunsSound /\ RequestsSound /\ RunsOwn

LEMMA InitialSound ==
  ASSUME NEW t
  PROVE  Evidenced(InitialState, t) /\ Sound(NoInteg, t)
BY DEF Evidenced, Sound, InitialState, NoInteg

LEMMA EvidenceInit == Init => EvidenceInv
<1>1. ActorAssumption
  BY ActorAssumption
<1> QED
  BY InitialSound, <1>1, IdleType, UnsentType
     DEF Init, EvidenceInv, RowsSound, CheckpointsSound, RunsSound, RequestsSound, RunsOwn,
         NoRow, NoCheckpoint, NoRun, Idle, Unsent, ActorAssumption

\* A finished node keeps the evidence sound if its values are.
LEMMA NodeSound ==
  ASSUME TypeInv, EvidenceInv, NEW a \in Actors, NEW n \in Node, AtNode(a, n),
         NEW values \in Values, NEW next,
         Evidenced(values, run[a].thread),
         NodeDone(a, values, next) \/ NodeSaved(a, values, next),
         UNCHANGED graphUnchanged
  PROVE  EvidenceInv'
<1>1. /\ run \in [Actors -> Run] /\ cp \in [Threads -> Checkpoint]
      /\ run[a] \in Run /\ run[a].thread \in Threads
      /\ UNCHANGED <<event, row, handler, req>>
  BY AtNodeType DEF TypeInv, TypeOK, graphUnchanged, intakeVars
<1>2. \E new : /\ run' = [run EXCEPT ![a] = new]
               /\ new.thread = run[a].thread /\ new.values = values
  <2>1. CASE NodeDone(a, values, next)
    <3> DEFINE new == [run[a] EXCEPT !.values = values, !.next = next, !.dirty = TRUE,
                                     !.resumed = FALSE]
    <3>1. run' = [run EXCEPT ![a] = new]
      BY <2>1 DEF NodeDone
    <3>2. new.thread = run[a].thread /\ new.values = values
      BY <1>1 DEF Run
    <3> QED
      BY <3>1, <3>2
  <2>2. CASE NodeSaved(a, values, next)
    <3> DEFINE new == [run[a] EXCEPT !.values = values, !.next = next, !.resumed = FALSE]
    <3>1. run' = [run EXCEPT ![a] = new]
      BY <2>2 DEF NodeSaved
    <3>2. new.thread = run[a].thread /\ new.values = values
      BY <1>1 DEF Run
    <3> QED
      BY <3>1, <3>2
  <2> QED
    BY <2>1, <2>2
<1>3. \A t \in Threads : cp'[t].values = cp[t].values \/ (t = run[a].thread /\ cp'[t].values = values)
  BY <1>1 DEF NodeDone, NodeSaved
<1>4. \A v, t : Evidenced(v, t)' = Evidenced(v, t) /\ Sound(v, t)' = Sound(v, t)
  BY <1>1 DEF Evidenced, Sound
<1> QED
  BY <1>1, <1>2, <1>3, <1>4
     DEF EvidenceInv, RowsSound, CheckpointsSound, RunsSound, RequestsSound, RunsOwn, Actors

\* A policy answer that recommends, or needs no human, rests on the case's page.
LEMMA PolicySound ==
  ASSUME TypeInv, EvidenceInv, NEW a \in Actors, NEW n \in Node, AtNode(a, n)
  PROVE  /\ PolicyOf(a).recommended \in {None, Recommendation(event[run[a].thread].portal)}
         /\ ~PolicyOf(a).requires_human => ~Gated(run[a].thread)
<1> DEFINE v == run[a].values
<1>1. v \in Values /\ run[a].thread \in Threads
  BY AtNodeType
<1>2. v.portal \in {None, "error_collecting_data", event[run[a].thread].portal}
  BY <1>1 DEF EvidenceInv, RunsSound, Evidenced
<1>3. Readable(v.portal) \in BOOLEAN /\ v.confidence \in Int
  BY <1>1 DEF Readable, Values, Confidence
<1>4. /\ PolicyOf(a).recommended # None
           => Readable(v.portal) /\ PolicyOf(a).recommended = Recommendation(v.portal)
      /\ ~PolicyOf(a).requires_human
           => event[run[a].thread].severity \notin {"high", "critical"}
  BY <1>3 DEF PolicyOf, EvaluateMismatch, RequiresHuman, Mismatch
<1>5. PolicyOf(a).recommended # None => v.portal = event[run[a].thread].portal
  BY <1>2, <1>4 DEF Readable
<1> QED
  BY <1>4, <1>5 DEF Gated

LEMMA ErrorSound ==
  ASSUME NEW values \in Values, NEW t, Evidenced(values, t)
  PROVE  Evidenced(Succeeded(values), t) /\ Evidenced(Failed(values), t)
BY DEF Evidenced, Succeeded, Failed, Values

LEMMA EvidenceGraph ==
  ASSUME TypeInv, EvidenceInv, NEW a \in Actors, GraphStep(a)
  PROVE  EvidenceInv'
<1> DEFINE v == run[a].values
           t == run[a].thread
<1>node. {"planner", "research", "browser", "integration", "human_review",
          "reporting", "notification"} \subseteq Node
  BY DEF Node
<1>frame. UNCHANGED graphUnchanged
  BY GraphFrameVars
<1>at. ASSUME NEW n \in Node, AtNode(a, n)
       PROVE  v \in Values /\ t \in Threads /\ Evidenced(v, t)
  BY <1>at, AtNodeType DEF EvidenceInv, RunsSound
<1>saved. ASSUME NEW n \in Node, AtNode(a, n), NEW values \in Values, Evidenced(values, t),
                 NEW next, NodeDone(a, values, next) \/ NodeSaved(a, values, next)
          PROVE  EvidenceInv'
  BY <1>saved, <1>frame, NodeSound
<1>same. ASSUME NEW n \in Node, AtNode(a, n), NEW next,
                \/ NodeDone(a, Succeeded(v), next)
                \/ NodeSaved(a, Succeeded(v), next)
                \/ NodeDone(a, Failed(v), next)
                \/ NodeSaved(a, Failed(v), next)
         PROVE  EvidenceInv'
  <2>1. /\ Succeeded(v) \in Values /\ Evidenced(Succeeded(v), t)
        /\ Failed(v) \in Values /\ Evidenced(Failed(v), t)
    BY <1>same, <1>at, ErrorType, ErrorSound
  <2> QED
    BY <1>same, <1>saved, <2>1
<1>1. CASE PlannerNode(a)
  BY <1>1, <1>node, <1>same DEF PlannerNode
<1>2. CASE ResearchNode(a)
  <2> DEFINE values == [v EXCEPT !.erp = OrderDetails(t)]
  <2>1. v \in Values /\ t \in Threads /\ Evidenced(v, t)
    BY <1>2, <1>node, <1>at DEF ResearchNode
  <2>2. OrderDetails(t) \in OrderStatus \cup {"missing"}
    BY <2>1, EventFields DEF OrderDetails, TypeInv, TypeOK
  <2>3. values \in Values /\ Evidenced(values, t)
    <3> HIDE DEF t, v
    <3> QED
      BY <2>1, <2>2 DEF Values, Evidenced
  <2>4. Succeeded(values) \in Values /\ Evidenced(Succeeded(values), t)
    BY <2>3, ErrorType, ErrorSound
  <2> QED
    BY <1>2, <1>node, <1>saved, <2>4 DEF ResearchNode
<1>3. CASE BrowserNode(a)
  <2> DEFINE conf(portal) == ComputeConfidence(v.erp # "missing", Readable(portal), FALSE, portal)
             values(portal) == [v EXCEPT !.portal = portal, !.confidence = conf(portal)]
  <2>1. v \in Values /\ t \in Threads /\ Evidenced(v, t)
    BY <1>3, <1>node, <1>at DEF BrowserNode
  <2>2. ASSUME NEW portal \in PortalStatus,
               portal \in {"error_collecting_data", event[t].portal}
        PROVE  Succeeded(values(portal)) \in Values /\ Evidenced(Succeeded(values(portal)), t)
    <3>1. conf(portal) \in Confidence
      <4>1. (v.erp # "missing") \in BOOLEAN /\ Readable(portal) \in BOOLEAN
        BY DEF Readable
      <4> QED
        BY <4>1, ComputeConfidenceType
    <3>2. values(portal) \in Values /\ Evidenced(values(portal), t)
      <4> HIDE DEF conf, t, v
      <4> QED
        BY <2>1, <2>2, <3>1 DEF Values, Evidenced
    <3> QED
      BY <3>2, ErrorType, ErrorSound
  <2>3. event[t].portal \in PortalStatus /\ "error_collecting_data" \in PortalStatus
    BY <2>1, EventFields DEF TypeInv, PortalStatus
  <2>4. /\ AtNode(a, "browser")
        /\ \/ NodeSaved(a, Succeeded(values(event[t].portal)), Successor("browser"))
           \/ NodeSaved(a, Succeeded(values("error_collecting_data")), Successor("browser"))
    BY <1>3 DEF BrowserNode
  <2> HIDE DEF values
  <2> QED
    BY <1>node, <1>saved, <2>2, <2>3, <2>4
<1>with. ASSUME AtNode(a, "integration"), NEW claim \in {"pending", "auto"}, NEW ok \in BOOLEAN,
                NEW next,
                \/ NodeDone(a, WithInteg(v, PolicyOf(a).recommended, claim, ok), next)
                \/ NodeSaved(a, WithInteg(v, PolicyOf(a).recommended, claim, ok), next)
         PROVE  EvidenceInv'
  <2> DEFINE rec == PolicyOf(a).recommended
             integ == [rec |-> rec, claim |-> claim, ok |-> ok]
             values == [v EXCEPT !.integ = integ]
  <2>1. v \in Values /\ t \in Threads /\ Evidenced(v, t)
    BY <1>with, <1>node, <1>at
  <2>2. /\ rec \in OrderStatus \cup {None}
        /\ rec \in {None, Recommendation(event[t].portal)}
    BY <1>with, <1>node, <2>1, PolicyType, PolicySound
  <2>3. integ \in Integ /\ Sound(integ, t)
    <3> HIDE DEF t, rec
    <3> QED
      BY <1>with, <2>2 DEF Integ, Sound
  <2>4. values \in Values /\ Evidenced(values, t)
    <3> HIDE DEF t, v, integ
    <3> QED
      BY <2>1, <2>3 DEF Values, Evidenced
  <2>5. Succeeded(values) \in Values /\ Evidenced(Succeeded(values), t)
    BY <2>4, ErrorType, ErrorSound
  <2>6. Succeeded(values) = WithInteg(v, rec, claim, ok)
    BY DEF WithInteg
  <2> QED
    BY <1>with, <1>node, <1>saved, <2>5, <2>6
<1>4. CASE IntegrationPending(a)
  BY <1>4, <1>with DEF IntegrationPending
<1>5. CASE IntegrationAuto(a)
  <2>1. InErp(t) \in BOOLEAN
    BY DEF InErp
  <2>2. /\ AtNode(a, "integration")
        /\ \/ NodeDone(a, Failed(v), AfterIntegration(a))
           \/ NodeDone(a, WithInteg(v, PolicyOf(a).recommended, "auto", InErp(t)),
                       AfterIntegration(a))
    BY <1>5 DEF IntegrationAuto
  <2> QED
    BY <1>node, <1>same, <1>with, <2>1, <2>2
<1>6. CASE HumanReviewNode(a)
  BY <1>6, <1>node, <1>same DEF HumanReviewNode
<1>7. CASE ReportingNode(a)
  BY <1>7, <1>node, <1>same DEF ReportingNode
<1>8. CASE NotificationNode(a)
  BY <1>8, <1>node, <1>same DEF NotificationNode
<1>9. CASE NodeFails(a)
  <2>1. PICK n \in Node \ {"human_review", "integration"} :
          /\ AtNode(a, n)
          /\ NodeSaved(a, IF n = "browser" THEN [Failed(v) EXCEPT !.confidence = 35]
                                          ELSE Failed(v), Successor(n))
    BY <1>9 DEF NodeFails
  <2>2. Failed(v) \in Values /\ Evidenced(Failed(v), t)
    BY <2>1, <1>at, ErrorType, ErrorSound
  <2>3. /\ [Failed(v) EXCEPT !.confidence = 35] \in Values
        /\ Evidenced([Failed(v) EXCEPT !.confidence = 35], t)
    <3> DEFINE failed == Failed(v)
    <3> HIDE DEF failed, t
    <3> QED
      BY <2>2 DEF Values, Confidence, Evidenced
  <2> QED
    BY <1>saved, <2>1, <2>2, <2>3
<1>10. CASE IntegrationFails(a)
  BY <1>10, <1>node, <1>same DEF IntegrationFails
<1>11. CASE SaveCheckpoint(a)
  <2>1. /\ run \in [Actors -> Run] /\ cp \in [Threads -> Checkpoint] /\ t \in Threads
        /\ Evidenced(v, t)
    BY <1>11 DEF SaveCheckpoint, TypeInv, TypeOK, RunsBusy, EvidenceInv, RunsSound
  <2>2. \A u \in Threads : cp'[u].values = cp[u].values \/ (u = t /\ cp'[u].values = v)
    BY <1>11, <2>1 DEF SaveCheckpoint
  <2>3. \A b \in Actors : run'[b].thread = run[b].thread /\ run'[b].values = run[b].values
    BY <1>11, <2>1 DEF SaveCheckpoint, Run
  <2>4. UNCHANGED <<event, row, handler, req>>
    BY <1>frame DEF graphUnchanged, intakeVars
  <2>5. \A w, u : Evidenced(w, u)' = Evidenced(w, u) /\ Sound(w, u)' = Sound(w, u)
    BY <2>4 DEF Evidenced, Sound
  <2> HIDE DEF t, v
  <2> QED
    BY <2>1, <2>2, <2>3, <2>4, <2>5
       DEF EvidenceInv, RowsSound, CheckpointsSound, RunsSound, RequestsSound, RunsOwn, Actors
<1> QED
  BY <1>1, <1>2, <1>3, <1>4, <1>5, <1>6, <1>7, <1>8, <1>9, <1>10, <1>11 DEF GraphStep

\* What changes is sound, and the rest is as it was.
LEMMA EvidenceFrame ==
  ASSUME EvidenceInv, UNCHANGED event,
         \A t \in Threads : row'[t].integ = row[t].integ \/ Sound(row'[t].integ, t),
         \A t \in Threads : cp'[t].values = cp[t].values \/ Evidenced(cp'[t].values, t),
         \A a \in Actors :
           \/ run'[a] = run[a]
           \/ run'[a].thread \in Threads => Evidenced(run'[a].values, run'[a].thread),
         \A r \in Requests :
           \/ req'[r] = req[r]
           \/ /\ req'[r].pc # "idle"  => Sound(req'[r].integ, req'[r].thread)
              /\ req'[r].pc = "apply" => req'[r].decision = "approved",
         RunsOwn'
  PROVE  EvidenceInv'
<1>1. \A v, t : Evidenced(v, t)' = Evidenced(v, t) /\ Sound(v, t)' = Sound(v, t)
  BY DEF Evidenced, Sound
<1> QED
  BY <1>1 DEF EvidenceInv, RowsSound, CheckpointsSound, RunsSound, RequestsSound

LEMMA EvidenceConsumer ==
  ASSUME TypeInv, EvidenceInv, ConsumerStep
  PROVE  EvidenceInv'
<1>types. /\ row \in [Threads -> Row]
          /\ handler \in Handler
          /\ run \in [Actors -> Run]
          /\ cp \in [Threads -> Checkpoint]
          /\ handler.pc # "idle" => handler.thread \in Threads
          /\ Consumer \in Actors /\ Consumer \notin Requests
  BY ActorAssumption DEF TypeInv, TypeOK, HandlerBusy, Actors
<1>cleared. /\ NoRun.thread \notin Threads
            /\ \A t \in Threads : Sound(NoInteg, t) /\ Evidenced(InitialState, t)
  BY ActorAssumption, InitialSound DEF NoRun
<1>own. RunsOwn
  BY DEF EvidenceInv
<1>1. CASE \/ \E o \in Orders : Poll(o)
           \/ GetGraphFails \/ MarkFailedFails \/ PublishToDlq \/ LoopFails
  <2>1. UNCHANGED <<event, row, cp, run, req>> /\ handler'.pc \notin {"graph", "persist"}
    BY <1>1, <1>types, IdleType
       DEF Poll, GetGraphFails, MarkFailedFails, PublishToDlq, LoopFails, HandlerTo, Handler,
           intakeVars
  <2>2. RunsOwn'
    BY <1>own, <2>1 DEF RunsOwn
  <2> QED
    BY <2>1, <2>2, EvidenceFrame
<1>2. CASE MarkRunning \/ MarkFailed
  <2>1. UNCHANGED <<event, cp, run, req>> /\ handler'.pc \notin {"graph", "persist"}
    BY <1>2, <1>types DEF MarkRunning, MarkFailed, HandlerTo, Handler, intakeVars
  <2>2. \A t \in Threads : row'[t].integ = row[t].integ
    BY <1>2, <1>types DEF MarkRunning, MarkFailed, Row
  <2>3. RunsOwn'
    BY <1>own, <2>1 DEF RunsOwn
  <2> QED
    BY <2>1, <2>2, <2>3, EvidenceFrame
<1>3. CASE StartGraph
  <2> DEFINE new == [NoRun EXCEPT !.thread = handlerThread, !.next = "planner"]
  <2>1. new.thread = handler.thread /\ new.values = InitialState
    BY NoRunType DEF NoRun, handlerThread
  <2>2. run' = [run EXCEPT ![Consumer] = new] /\ UNCHANGED <<event, row, req>>
    BY <1>3 DEF StartGraph, intakeVars
  <2>3. \A t \in Threads : cp'[t].values = cp[t].values \/ Evidenced(cp'[t].values, t)
    BY <1>3, <1>types, <1>cleared DEF StartGraph
  <2>4. handler'.thread = handler.thread
    BY <1>3, <1>types DEF StartGraph, HandlerTo, Handler
  <2> HIDE DEF new
  <2>5. RunsOwn'
    BY <1>types, <1>own, <2>1, <2>2, <2>4 DEF RunsOwn, Actors
  <2>6. \A a \in Actors :
          \/ run'[a] = run[a]
          \/ run'[a].thread \in Threads => Evidenced(run'[a].values, run'[a].thread)
    BY <1>types, <1>cleared, <2>1, <2>2
  <2> QED
    BY <2>2, <2>3, <2>5, <2>6, EvidenceFrame
<1>4. CASE ReadOutcome
  <2>1. UNCHANGED <<event, row, cp, run, req>>
    BY <1>4 DEF ReadOutcome, intakeVars
  <2>2. handler'.thread = handler.thread /\ handler.pc = "graph"
    BY <1>4, <1>types DEF ReadOutcome, HandlerTo, Handler
  <2>3. RunsOwn'
    BY <1>own, <2>1, <2>2 DEF RunsOwn
  <2> QED
    BY <2>1, <2>3, EvidenceFrame
<1>5. CASE PersistOutcome
  <2> DEFINE final == run[Consumer].values
             outcome == OutcomeStatus(final, handler.interrupted)
             integ == final.integ
  <2>1. UNCHANGED <<event, cp, run, req>> /\ handler'.pc \notin {"graph", "persist"}
    BY <1>5, <1>types DEF PersistOutcome, HandlerTo, Handler, intakeVars
  <2>2. Sound(integ, handler.thread)
    <3>1. run[Consumer].thread = handler.thread /\ handler.thread \in Threads
      BY <1>5, <1>types, <1>own DEF PersistOutcome, RunsOwn
    <3> QED
      BY <1>types, <3>1 DEF EvidenceInv, RunsSound, Evidenced
  <2>3. \/ row' = row
        \/ row' = [row EXCEPT ![handler.thread].integ = integ, ![handler.thread].status = outcome]
    BY <1>5 DEF PersistOutcome, handlerThread
  <2>4. \A t \in Threads : row'[t].integ = row[t].integ \/ Sound(row'[t].integ, t)
    <3> HIDE DEF integ, outcome
    <3> QED
      BY <1>types, <2>2, <2>3 DEF Row
  <2>5. RunsOwn'
    BY <1>own, <2>1 DEF RunsOwn
  <2> QED
    BY <2>1, <2>4, <2>5, EvidenceFrame
<1>6. CASE HandlerFails \/ CommitOffset
  <2>1. /\ UNCHANGED <<event, row, cp, req>>
        /\ run' = [run EXCEPT ![Consumer] = NoRun]
        /\ handler'.pc \notin {"graph", "persist"}
    BY <1>6, <1>types, IdleType DEF HandlerFails, CommitOffset, HandlerTo, Handler, intakeVars
  <2>2. RunsOwn'
    BY <1>types, <1>own, <2>1 DEF RunsOwn, Actors
  <2>3. \A a \in Actors : run'[a] = run[a] \/ run'[a].thread \notin Threads
    BY <1>types, <1>cleared, <2>1
  <2> QED
    BY <2>1, <2>2, <2>3, EvidenceFrame
<1> QED
  BY <1>1, <1>2, <1>3, <1>4, <1>5, <1>6 DEF ConsumerStep

LEMMA EvidenceResume ==
  ASSUME TypeInv, EvidenceInv, NEW r \in Requests, ResumeStep(r)
  PROVE  EvidenceInv'
<1> DEFINE t == req[r].thread
           d == req[r].decision
<1>types. /\ row \in [Threads -> Row]
          /\ req \in [Requests -> Request]
          /\ run \in [Actors -> Run]
          /\ cp \in [Threads -> Checkpoint]
          /\ req[r].pc # "idle" => t \in Threads
          /\ r \in Actors /\ r # Consumer
  BY ActorAssumption DEF TypeInv, TypeOK, RequestsBusy, Actors
<1>cleared. NoRun.thread \notin Threads
  BY ActorAssumption DEF NoRun
<1>sound. RunsOwn /\ (req[r].pc # "idle" => Sound(req[r].integ, t))
  BY DEF EvidenceInv, RequestsSound
<1>frame. UNCHANGED <<event, handler>>
  BY RequestFrameVars
\* The request only moves on, to a step that neither runs nor applies.
<1>moved. ASSUME NEW pc \in RequestPc \ {"idle", "apply", "graph"}, req[r].pc # "idle",
                 RequestTo(r, pc)
          PROVE  \A q \in Requests :
                   \/ req'[q] = req[q]
                   \/ /\ req'[q].pc = pc /\ q = r
                      /\ req'[q].thread = t /\ req'[q].decision = d
                      /\ Sound(req'[q].integ, req'[q].thread)
  BY <1>moved, <1>types, <1>sound DEF RequestTo, Request
<1>pcs. {"load", "push", "resume", "fail", "done"} \subseteq RequestPc \ {"idle", "apply", "graph"}
  BY DEF RequestPc
<1>1. CASE RecordDecision(r) \/ FailCase(r)
  <2>1. \E pc \in RequestPc \ {"idle", "apply", "graph"} : RequestTo(r, pc)
    BY <1>1, <1>pcs DEF RecordDecision, FailCase
  <2>2. req[r].pc # "idle" /\ UNCHANGED <<cp, run>>
    BY <1>1 DEF RecordDecision, FailCase
  <2>3. \A u \in Threads : row'[u].integ = row[u].integ
    BY <1>1, <1>types DEF RecordDecision, Decided, FailCase, Row
  <2>4. RunsOwn'
    BY <1>moved, <1>sound, <1>frame, <2>1, <2>2 DEF RunsOwn
  <2> QED
    BY <1>moved, <1>frame, <2>1, <2>2, <2>3, <2>4, EvidenceFrame
<1>2. CASE LoadCase(r)
  <2> DEFINE integ == row[t].integ
             settled == IF d = "rejected" THEN [integ EXCEPT !.claim = "rejected"] ELSE integ
             pc == IF MustApply(d, integ) THEN "apply" ELSE "push"
  <2>1. req[r].pc # "idle" /\ t \in Threads /\ UNCHANGED <<cp, run>>
    BY <1>2, <1>types DEF LoadCase
  <2>2. CASE HasRow(t)
    <3>1. Sound(settled, t)
      <4>1. integ \in Integ /\ Sound(integ, t)
        BY <1>types, <2>1 DEF Row, EvidenceInv, RowsSound
      <4>2. settled.rec = integ.rec
        BY <4>1 DEF Integ
      <4> QED
        BY <4>1, <4>2 DEF Sound
    <3>2. pc = "push" \/ (pc = "apply" /\ d = "approved")
      BY DEF MustApply
    <3>3. /\ req' = [req EXCEPT ![r].pc = pc, ![r].integ = settled]
          /\ row' = [row EXCEPT ![t].decision = d]
      BY <1>2, <2>2 DEF LoadCase
    <3>4. /\ req'[r].pc = pc /\ req'[r].integ = settled
          /\ req'[r].thread = t /\ req'[r].decision = d
          /\ \A q \in Requests : q # r => req'[q] = req[q]
      <4> HIDE DEF pc, settled
      <4> QED
        BY <1>types, <3>3 DEF Request
    <3>5. \A u \in Threads : row'[u].integ = row[u].integ
      BY <1>types, <3>3 DEF Row
    <3>6. RunsOwn'
      BY <1>sound, <1>frame, <2>1, <3>2, <3>4 DEF RunsOwn
    <3>7. \A q \in Requests :
            \/ req'[q] = req[q]
            \/ /\ req'[q].pc # "idle"  => Sound(req'[q].integ, req'[q].thread)
               /\ req'[q].pc = "apply" => req'[q].decision = "approved"
      <4> HIDE DEF pc, settled, t, d
      <4> QED
        BY <3>1, <3>2, <3>4
    <3> QED
      BY <1>frame, <2>1, <3>5, <3>6, <3>7, EvidenceFrame
  <2>3. CASE ~HasRow(t)
    <3>1. RequestTo(r, "fail") /\ UNCHANGED row
      BY <1>2, <2>3 DEF LoadCase
    <3>2. RunsOwn'
      BY <1>moved, <1>pcs, <1>sound, <1>frame, <2>1, <3>1 DEF RunsOwn
    <3> QED
      BY <1>moved, <1>pcs, <1>frame, <2>1, <3>1, <3>2, EvidenceFrame
  <2> QED
    BY <2>2, <2>3
<1>3. CASE ApplyErp(r)
  <2> DEFINE integ == [req[r].integ EXCEPT !.claim = "approved", !.ok = InErp(t)]
  <2>1. /\ req[r].pc # "idle" /\ UNCHANGED <<row, cp, run>>
        /\ req' = [req EXCEPT ![r].pc = "push", ![r].integ = integ]
    BY <1>3 DEF ApplyErp
  <2>2. Sound(integ, t)
    <3>1. req[r].integ \in Integ
      BY <1>types DEF Request
    <3>2. integ.rec = req[r].integ.rec
      BY <3>1 DEF Integ
    <3> QED
      BY <1>sound, <2>1, <3>2 DEF Sound
  <2>3. /\ req'[r].pc = "push" /\ req'[r].integ = integ /\ req'[r].thread = t
        /\ \A q \in Requests : q # r => req'[q] = req[q]
    <3> HIDE DEF integ
    <3> QED
      BY <1>types, <2>1 DEF Request
  <2>4. RunsOwn'
    BY <1>sound, <1>frame, <2>1, <2>3 DEF RunsOwn
  <2> QED
    BY <1>frame, <2>1, <2>2, <2>3, <2>4, EvidenceFrame
<1>4. CASE PushState(r)
  <2> DEFINE values == [cp[t].values EXCEPT !.decision = d, !.integ = req[r].integ]
  <2>1. /\ req[r].pc # "idle" /\ t \in Threads /\ UNCHANGED <<row, run>>
        /\ RequestTo(r, "resume")
        /\ cp' = [cp EXCEPT ![t].values = values]
    BY <1>4, <1>types DEF PushState
  <2>2. Evidenced(values, t)
    <3>1. cp[t].values \in Values /\ Evidenced(cp[t].values, t)
      BY <1>types, <2>1 DEF Checkpoint, EvidenceInv, CheckpointsSound
    <3>2. Sound(req[r].integ, t)
      BY <1>sound, <2>1
    <3> HIDE DEF t
    <3> QED
      BY <3>1, <3>2 DEF Values, Evidenced
  <2>3. \A u \in Threads : cp'[u].values = cp[u].values \/ Evidenced(cp'[u].values, u)
    <3> HIDE DEF values
    <3> QED
      BY <1>types, <2>1, <2>2 DEF Checkpoint
  <2>4. RunsOwn'
    BY <1>moved, <1>pcs, <1>sound, <1>frame, <2>1 DEF RunsOwn
  <2> QED
    BY <1>moved, <1>pcs, <1>frame, <2>1, <2>3, <2>4, EvidenceFrame
<1>5. CASE ResumeGraph(r)
  <2> DEFINE new == [NoRun EXCEPT !.thread = t, !.next = cp[t].next,
                                  !.values = cp[t].values, !.resumed = TRUE]
  <2>1. /\ req[r].pc # "idle" /\ t \in Threads /\ UNCHANGED <<row, cp>>
        /\ req' = [req EXCEPT ![r].pc = "graph"]
        /\ run' = [run EXCEPT ![r] = new]
    BY <1>5, <1>types DEF ResumeGraph, RequestTo
  <2>2. /\ new.thread = t /\ new.values = cp[t].values
        /\ Evidenced(cp[t].values, t)
    BY <2>1, NoRunType DEF NoRun, EvidenceInv, CheckpointsSound
  <2>3. /\ req'[r].pc = "graph" /\ req'[r].thread = t /\ req'[r].integ = req[r].integ
        /\ \A q \in Requests : q # r => req'[q] = req[q]
    BY <1>types, <2>1 DEF Request
  <2> HIDE DEF new
  <2>4. RunsOwn'
    <3>1. run'[r] = new /\ \A a \in Actors : a # r => run'[a] = run[a]
      BY <1>types, <2>1
    <3> QED
      BY <1>types, <1>sound, <1>frame, <2>2, <2>3, <3>1 DEF RunsOwn, Actors
  <2>5. \A a \in Actors :
          \/ run'[a] = run[a]
          \/ run'[a].thread \in Threads => Evidenced(run'[a].values, run'[a].thread)
    BY <1>types, <2>1, <2>2
  <2> QED
    BY <1>frame, <1>sound, <2>1, <2>3, <2>4, <2>5, EvidenceFrame
<1>6. CASE FinishDecision(r)
  <2> DEFINE final == run[r].values
             integ == IF req[r].integ = NoInteg THEN final.integ ELSE req[r].integ
             new == [status |-> FinalStatus(final), decision |-> d, integ |-> integ]
  <2>1. /\ req[r].pc = "graph" /\ t \in Threads /\ UNCHANGED cp
        /\ RequestTo(r, "done")
        /\ run' = [run EXCEPT ![r] = NoRun]
        /\ row' = [row EXCEPT ![t] = IF HasRow(t) THEN new ELSE @]
    BY <1>6, <1>types DEF FinishDecision
  <2>2. Sound(integ, t)
    <3>1. run[r].thread = t
      BY <1>sound, <2>1 DEF RunsOwn
    <3>2. Sound(final.integ, t)
      BY <1>types, <2>1, <3>1 DEF EvidenceInv, RunsSound, Evidenced
    <3> QED
      BY <1>sound, <2>1, <3>2
  <2>3. new.integ = integ
    OBVIOUS
  <2>4. \A u \in Threads : row'[u].integ = row[u].integ \/ Sound(row'[u].integ, u)
    <3> HIDE DEF new, integ
    <3> QED
      BY <1>types, <2>1, <2>2, <2>3
  <2>5. RunsOwn'
    <3>1. \A q \in Requests : req'[q].pc = "graph" => q # r /\ req'[q] = req[q]
      BY <1>types, <2>1 DEF RequestTo, Request
    <3>2. run'[Consumer] = run[Consumer] /\ \A q \in Requests : q # r => run'[q] = run[q]
      BY <1>types, <2>1 DEF Actors
    <3> QED
      BY <1>sound, <1>frame, <3>1, <3>2 DEF RunsOwn
  <2>6. \A a \in Actors : run'[a] = run[a] \/ run'[a].thread \notin Threads
    BY <1>types, <1>cleared, <2>1
  <2> QED
    BY <1>moved, <1>pcs, <1>frame, <2>1, <2>4, <2>5, <2>6, EvidenceFrame
<1>7. CASE RequestFails(r)
  <2>1. /\ req[r].pc # "idle" /\ UNCHANGED <<row, cp>>
        /\ RequestTo(r, "fail")
        /\ run' = [run EXCEPT ![r] = NoRun]
    BY <1>7 DEF RequestFails
  <2>2. RunsOwn'
    <3>1. \A q \in Requests : req'[q].pc = "graph" => q # r /\ req'[q] = req[q]
      BY <1>types, <2>1 DEF RequestTo, Request
    <3>2. run'[Consumer] = run[Consumer] /\ \A q \in Requests : q # r => run'[q] = run[q]
      BY <1>types, <2>1 DEF Actors
    <3> QED
      BY <1>sound, <1>frame, <3>1, <3>2 DEF RunsOwn
  <2>3. \A a \in Actors : run'[a] = run[a] \/ run'[a].thread \notin Threads
    BY <1>types, <1>cleared, <2>1
  <2> QED
    BY <1>moved, <1>pcs, <1>frame, <2>1, <2>2, <2>3, EvidenceFrame
<1> QED
  BY <1>1, <1>2, <1>3, <1>4, <1>5, <1>6, <1>7 DEF ResumeStep

LEMMA EvidenceInvariant == Spec => []EvidenceInv
<1>1. ASSUME TypeInv, EvidenceInv, [Next]_vars
      PROVE  EvidenceInv'
  <2>own. RunsOwn
    BY <1>1 DEF EvidenceInv
  <2>same. ASSUME UNCHANGED <<event, cp, run, req, handler>>,
                  \A t \in Threads : row'[t].integ = row[t].integ \/ Sound(row'[t].integ, t)
           PROVE  EvidenceInv'
    <3>1. RunsOwn'
      BY <2>own, <2>same DEF RunsOwn
    <3> QED
      BY <1>1, <2>same, <3>1, EvidenceFrame
  <2>none. NoRow.integ = NoInteg /\ \A t \in Threads : Sound(NoInteg, t)
    BY InitialSound DEF NoRow
  <2>1. ASSUME NEW t \in Threads, Simulate(t) PROVE EvidenceInv'
    <3>1. CASE InsertExecution(t)
      <4>1. \A u \in Threads : row'[u] = row[u] \/ row'[u].integ = NoInteg
        BY <1>1, <3>1 DEF InsertExecution, TypeInv, TypeOK, NoRow
      <4> QED
        BY <3>1, <4>1, <2>same, <2>none DEF InsertExecution
    <3>2. CASE CheckActive(t) \/ PublishEvent(t) \/ PublishFails(t)
      BY <3>2, <2>same DEF CheckActive, PublishEvent, PublishFails
    <3> QED
      BY <2>1, <3>1, <3>2 DEF Simulate
  <2>2. CASE ConsumerStep
    BY <1>1, <2>2, EvidenceConsumer
  <2>3. ASSUME NEW a \in Actors, GraphStep(a) PROVE EvidenceInv'
    BY <1>1, <2>3, EvidenceGraph
  <2>4. ASSUME NEW r \in Requests, NEW t \in Threads, NEW d \in Decision, AcceptDecision(r, t, d)
        PROVE  EvidenceInv'
    <3> DEFINE new == [Unsent EXCEPT !.pc = "accepted", !.thread = t, !.decision = d]
    <3>1. new.pc = "accepted" /\ new.thread = t /\ new.integ = NoInteg
      BY DEF Unsent
    <3>2. req' = [req EXCEPT ![r] = new] /\ UNCHANGED <<event, row, cp, run, handler>>
      BY <2>4 DEF AcceptDecision, intakeVars
    <3>3. req \in [Requests -> Request]
      BY <1>1 DEF TypeInv, TypeOK
    <3> HIDE DEF new
    <3>4. RunsOwn'
      BY <2>own, <3>1, <3>2, <3>3 DEF RunsOwn
    <3> QED
      BY <1>1, <2>none, <3>1, <3>2, <3>3, <3>4, EvidenceFrame
  <2>5. ASSUME NEW r \in Requests, ResumeStep(r) PROVE EvidenceInv'
    BY <1>1, <2>5, EvidenceResume
  <2>6. CASE Administration
    <3>1. \A t \in Threads : row'[t] = row[t] \/ row'[t] = NoRow
      BY <2>6 DEF Administration, ResetInvestigations, DeleteCases, ResetErpOrders, FeedErpOrder
    <3>2. UNCHANGED <<event, cp, run, req, handler>>
      BY <2>6 DEF Administration, ResetInvestigations, DeleteCases, ResetErpOrders, FeedErpOrder,
                  intakeVars
    <3> QED
      BY <3>1, <3>2, <2>same, <2>none
  <2>7. CASE Crash
    <3>1. /\ UNCHANGED <<event, row, cp>>
          /\ handler'.pc = "idle"
          /\ \A a \in Actors : run'[a].thread \notin Threads
          /\ \A r \in Requests : req'[r] = req[r] \/ req'[r] = [req[r] EXCEPT !.pc = "done"]
      BY <2>7, IdleType, ActorAssumption DEF Crash, NoRun
    <3>2. \A r \in Requests :
            \/ req'[r] = req[r] /\ req[r].pc = "idle"
            \/ req'[r].pc = "done" /\ Sound(req'[r].integ, req'[r].thread)
      <4>1. \A r \in Requests : req[r] \in Request
        BY <1>1 DEF TypeInv, TypeOK
      <4>2. \A r \in Requests : req[r].pc # "idle" => Sound(req[r].integ, req[r].thread)
        BY <1>1 DEF EvidenceInv, RequestsSound
      <4> QED
        BY <2>7, <4>1, <4>2 DEF Crash, Request
    <3>3. RunsOwn'
      BY <3>1, <3>2 DEF RunsOwn
    <3> QED
      BY <1>1, <3>1, <3>2, <3>3, EvidenceFrame
  <2>8. CASE UNCHANGED vars
    BY <2>8, <2>same DEF vars
  <2> QED
    BY <1>1, <2>1, <2>2, <2>3, <2>4, <2>5, <2>6, <2>7, <2>8 DEF Next
<1> QED
  BY EvidenceInit, TypeInvariant, <1>1, PTL DEF Spec

-----------------------------------------------------------------------------
(* The ERP changes only on the policy's word *)

\* A write by a request comes from a request that was sent.
WritersBusy == \A w \in writes : w.by # "auto" => w.by \in Requests /\ req[w.by].pc # "idle"

WritesInv == WritersBusy /\ WritesFollowPolicy

\* A write is right when it is made, and what made it right stays.
Rightful(w) ==
  IF w.by = "auto"
    THEN /\ ~Gated(w.thread)
         /\ w.to \in {Recommendation(event[w.thread].portal), w.seen}
    ELSE /\ w.by \in Requests /\ req[w.by].pc # "idle"
         /\ req[w.by].decision = "approved"
         /\ w.to = Recommendation(event[w.thread].portal)

LEMMA WritesFrame ==
  ASSUME WritesInv, UNCHANGED event,
         \A r \in Requests :
           req[r].pc # "idle" => req'[r].pc # "idle" /\ req'[r].decision = req[r].decision,
         \A w \in writes' : w \in writes \/ Rightful(w)'
  PROVE  WritesInv'
<1>1. \A w \in writes : Rightful(w)
  BY DEF WritesInv, WritersBusy, WritesFollowPolicy, Rightful
<1>2. \A w : Rightful(w) => Rightful(w)'
  BY DEF Rightful, Gated
<1>3. \A w \in writes' : Rightful(w)'
  BY <1>1, <1>2
<1> QED
  BY <1>3 DEF WritesInv, WritersBusy, WritesFollowPolicy, Rightful

LEMMA DecisionStays ==
  ASSUME TypeInv, [Next]_vars
  PROVE  \A r \in Requests :
           req[r].pc # "idle" => req'[r].pc # "idle" /\ req'[r].decision = req[r].decision
<1>types. req \in [Requests -> Request]
  BY DEF TypeInv, TypeOK
<1>1. ASSUME NEW r \in Requests, ResumeStep(r)
      PROVE  /\ \A q \in Requests : q # r => req'[q] = req[q]
             /\ req'[r].pc # "idle" /\ req'[r].decision = req[r].decision
  BY <1>1, <1>types DEF ResumeStep, RecordDecision, LoadCase, ApplyErp, PushState, ResumeGraph,
                        FinishDecision, RequestFails, FailCase, RequestTo, Request
<1>2. ASSUME NEW r \in Requests, NEW t \in Threads, NEW d \in Decision, AcceptDecision(r, t, d)
      PROVE  req[r].pc = "idle" /\ \A q \in Requests : q # r => req'[q] = req[q]
  BY <1>2, <1>types DEF AcceptDecision
<1>3. CASE Crash
  BY <1>3, <1>types DEF Crash, Request
<1>4. CASE \/ \E t \in Threads : Simulate(t)
           \/ ConsumerStep
           \/ \E a \in Actors : GraphStep(a)
           \/ Administration
           \/ UNCHANGED vars
  <2>1. UNCHANGED req
    <3>1. ASSUME NEW t \in Threads, Simulate(t) PROVE UNCHANGED req
      BY <3>1 DEF Simulate, CheckActive, InsertExecution, PublishEvent, PublishFails
    <3>2. CASE ConsumerStep
      BY <3>2 DEF ConsumerStep, Poll, GetGraphFails, MarkRunning, StartGraph, ReadOutcome,
                  PersistOutcome, HandlerFails, MarkFailed, MarkFailedFails, PublishToDlq,
                  CommitOffset, LoopFails
    <3>3. ASSUME NEW a \in Actors, GraphStep(a) PROVE UNCHANGED req
      BY <3>3, GraphFrameVars DEF graphUnchanged
    <3>4. CASE Administration
      BY <3>4 DEF Administration, ResetInvestigations, DeleteCases, ResetErpOrders, FeedErpOrder
    <3> QED
      BY <1>4, <3>1, <3>2, <3>3, <3>4 DEF vars
  <2> QED
    BY <2>1
<1> QED
  BY <1>1, <1>2, <1>3, <1>4 DEF Next

LEMMA WritesAuto ==
  ASSUME TypeInv, EvidenceInv, NEW a \in Actors, GraphStep(a)
  PROVE  \A w \in writes' : w \in writes \/ Rightful(w)'
<1> DEFINE t == run[a].thread
           rec == PolicyOf(a).recommended
           seen == SeenStatus(a)
           new == IF rec # None THEN rec ELSE seen
           write == [thread |-> t, by |-> "auto", seen |-> seen, from |-> erp[Order(t)], to |-> new]
<1>1. CASE IntegrationAuto(a) /\ new # None /\ InErp(t)
  <2>1. writes' = writes \cup {write} /\ UNCHANGED event
    BY <1>1 DEF IntegrationAuto, UpdateOrderStatus, SetOrder, graphUnchanged, intakeVars
  <2>2. ~Gated(t) /\ rec \in {None, Recommendation(event[t].portal)}
    BY <1>1, PolicySound DEF IntegrationAuto, Node
  <2>3. new \in {Recommendation(event[t].portal), seen}
    BY <2>2
  <2>4. write.thread = t /\ write.by = "auto" /\ write.seen = seen /\ write.to = new
    OBVIOUS
  <2> HIDE DEF write, new, t, seen
  <2> QED
    BY <2>1, <2>2, <2>3, <2>4 DEF Rightful, Gated
<1>2. CASE ~(IntegrationAuto(a) /\ new # None /\ InErp(t))
  <2>1. CASE IntegrationAuto(a)
    BY <1>2, <2>1 DEF IntegrationAuto, UpdateOrderStatus, erpVars
  <2>2. CASE ~IntegrationAuto(a)
    BY <2>2 DEF GraphStep, PlannerNode, ResearchNode, BrowserNode, IntegrationPending,
                HumanReviewNode, ReportingNode, NotificationNode, NodeFails, IntegrationFails,
                SaveCheckpoint, erpVars
  <2> QED
    BY <2>1, <2>2
<1> QED
  BY <1>1, <1>2

LEMMA WritesApproved ==
  ASSUME TypeInv, EvidenceInv, NEW r \in Requests, ResumeStep(r)
  PROVE  \A w \in writes' : w \in writes \/ Rightful(w)'
<1> DEFINE t == req[r].thread
           rec == req[r].integ.rec
           write == [thread |-> t, by |-> r, seen |-> cp[t].values.erp, from |-> erp[Order(t)],
                     to |-> rec]
<1>1. CASE ApplyErp(r) /\ InErp(t)
  <2>1. writes' = writes \cup {write} /\ UNCHANGED event
    BY <1>1 DEF ApplyErp, SetOrder, intakeVars
  <2>2. req[r].decision = "approved" /\ rec = Recommendation(event[t].portal)
    BY <1>1 DEF ApplyErp, EvidenceInv, RequestsSound, Sound, TypeInv, ApplyHasStatus
  <2>3. req'[r].pc # "idle" /\ req'[r].decision = "approved"
    BY <1>1, <2>2, DecisionStays DEF ApplyErp, Next
  <2>4. write.thread = t /\ write.by = r /\ write.to = rec /\ r # "auto"
    BY ActorAssumption
  <2> HIDE DEF write, rec, t
  <2> QED
    BY <2>1, <2>2, <2>3, <2>4 DEF Rightful
<1>2. CASE ~(ApplyErp(r) /\ InErp(t))
  BY <1>2 DEF ResumeStep, RecordDecision, LoadCase, ApplyErp, PushState, ResumeGraph,
              FinishDecision, RequestFails, FailCase, erpVars
<1> QED
  BY <1>1, <1>2

\* The ERP changes only as the policy allows, for any evidence, failure, race,
\* reset or crash: without a human only for a case whose severity needs none, to
\* the recommended status or the one the case read; through a request only if
\* its decision is an approval, to the status its portal page maps to.
THEOREM WritesRightful == Spec => []WritesFollowPolicy
<1>1. Init => WritesInv
  BY DEF Init, WritesInv, WritersBusy, WritesFollowPolicy
<1>2. ASSUME TypeInv, EvidenceInv, WritesInv, [Next]_vars
      PROVE  WritesInv'
  <2>1. \A r \in Requests :
          req[r].pc # "idle" => req'[r].pc # "idle" /\ req'[r].decision = req[r].decision
    BY <1>2, DecisionStays
  <2>2. ASSUME NEW a \in Actors, GraphStep(a) PROVE WritesInv'
    <3>1. UNCHANGED event
      BY <2>2, GraphFrameVars DEF graphUnchanged, intakeVars
    <3> QED
      BY <1>2, <2>1, <2>2, <3>1, WritesAuto, WritesFrame
  <2>3. ASSUME NEW r \in Requests, ResumeStep(r) PROVE WritesInv'
    BY <1>2, <2>1, <2>3, RequestFrameVars, WritesApproved, WritesFrame
  <2>4. ASSUME UNCHANGED <<event, writes>> PROVE WritesInv'
    BY <1>2, <2>1, <2>4, WritesFrame
  <2>5. ASSUME NEW t \in Threads, Simulate(t) PROVE WritesInv'
    BY <2>4, <2>5 DEF Simulate, CheckActive, InsertExecution, PublishEvent, PublishFails, erpVars
  <2>6. CASE ConsumerStep
    BY <2>4, <2>6 DEF ConsumerStep, Poll, GetGraphFails, MarkRunning, StartGraph, ReadOutcome,
                      PersistOutcome, HandlerFails, MarkFailed, MarkFailedFails, PublishToDlq,
                      CommitOffset, LoopFails, intakeVars, erpVars
  <2>7. ASSUME NEW r \in Requests, NEW t \in Threads, NEW d \in Decision, AcceptDecision(r, t, d)
        PROVE  WritesInv'
    BY <2>4, <2>7 DEF AcceptDecision, intakeVars, erpVars
  <2>8. CASE Administration
    BY <2>4, <2>8 DEF Administration, ResetInvestigations, DeleteCases, ResetErpOrders,
                      FeedErpOrder, intakeVars
  <2>9. CASE Crash
    BY <2>4, <2>9 DEF Crash, erpVars
  <2>10. CASE UNCHANGED vars
    BY <2>4, <2>10 DEF vars
  <2> QED
    BY <1>2, <2>2, <2>3, <2>5, <2>6, <2>7, <2>8, <2>9, <2>10 DEF Next
<1>3. WritesInv => WritesFollowPolicy
  BY DEF WritesInv
<1> QED
  BY <1>1, <1>2, <1>3, TypeInvariant, EvidenceInvariant, PTL DEF Spec

=============================================================================
