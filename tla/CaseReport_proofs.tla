------------------------- MODULE CaseReport_proofs --------------------------
(***************************************************************************)
(* What holds of one case for any payload, order, failures, crashes,       *)
(* changes of the order by others, and decisions.                          *)
(***************************************************************************)
EXTENDS CaseReport, TLAPS

-----------------------------------------------------------------------------
(* What the operators of DecisionRules return *)

\* The table of decision_rules.py:6-15 maps to a status an ERP order can hold,
\* or to nothing.
LEMMA RecommendationType ==
  ASSUME NEW portal
  PROVE  Recommendation(portal) \in OrderStatus \cup {None}
BY DEF Recommendation, PORTAL_TO_ERP_STATUS, OrderStatus, PortalStatus, None

\* Every confidence is one of the constants of decision_rules.py:33-49.
LEMMA ComputeConfidenceType ==
  ASSUME NEW found \in BOOLEAN, NEW success \in BOOLEAN, NEW mismatch \in BOOLEAN, NEW portal
  PROVE  ComputeConfidence(found, success, mismatch, portal) \in Confidence
BY DEF ComputeConfidence, Confidence

\* What integration_node reads of a decision (nodes.py:218-228).
LEMMA EvaluateMismatchType ==
  ASSUME NEW status, NEW portal, NEW success \in BOOLEAN, NEW severity, NEW found \in BOOLEAN,
         NEW confidence \in Int
  PROVE  /\ EvaluateMismatch(status, portal, success, severity, found, confidence).recommended
              \in OrderStatus \cup {None}
         /\ EvaluateMismatch(status, portal, success, severity, found, confidence).requires_human
              \in BOOLEAN
<1>1. Recommendation(portal) \in OrderStatus \cup {None}
  BY RecommendationType
<1> QED
  BY <1>1 DEF EvaluateMismatch, RequiresHuman, Mismatch

-----------------------------------------------------------------------------
(* Types *)

\* Two states that differ in their error and their report at most.
Agrees(t, s) ==
  /\ t.seen = s.seen /\ t.portal = s.portal /\ t.confidence = s.confidence
  /\ t.integ = s.integ /\ t.decision = s.decision

LEMMA ErrorSet ==
  ASSUME NEW s \in State, NEW e \in BOOLEAN
  PROVE  /\ [s EXCEPT !.error = e] \in State /\ Agrees([s EXCEPT !.error = e], s)
         /\ [s EXCEPT !.error = e].report = s.report /\ [s EXCEPT !.error = e].error = e
BY DEF State, Agrees

LEMMA SucceedsType ==
  ASSUME NEW s \in State, Succeeds(s)
  PROVE  state' \in State /\ Agrees(state', s) /\ state'.report = s.report
BY ErrorSet DEF Succeeds

LEMMA FailsType ==
  ASSUME NEW s \in State, Fails(s)
  PROVE  state' \in State /\ Agrees(state', s) /\ state'.report = s.report /\ state'.error
BY ErrorSet DEF Fails

LEMMA TriesType ==
  ASSUME TypeOK, NEW s \in State, Tries(s)
  PROVE  /\ state' \in State
         /\ \/ Agrees(state', s) /\ state'.report = s.report
            \/ Agrees(state', state) /\ state'.report = state.report
<1>1. state \in State
  BY DEF TypeOK
<1> QED
  BY <1>1, SucceedsType, FailsType DEF Tries

UsedType == [faults : Nat, crashes : Nat, changes : Nat, decisions : Nat, broken : Nat]

LEMMA FaultType ==
  ASSUME used \in UsedType
  PROVE  /\ Fault => used' \in UsedType /\ used'.broken = used.broken
         /\ Breaks => used' \in UsedType /\ used'.broken = used.broken + 1
<1>1. ASSUME Fault PROVE used' \in UsedType /\ used'.broken = used.broken
  BY <1>1 DEF Fault, UsedType
<1>2. ASSUME Breaks PROVE used' \in UsedType /\ used'.broken = used.broken + 1
  <2> DEFINE u == [used EXCEPT !.faults = @ + 1]
  <2>1. u \in UsedType /\ u.broken = used.broken
    BY DEF UsedType
  <2>2. used' = [u EXCEPT !.broken = @ + 1]
    BY <1>2 DEF Breaks
  <2> HIDE DEF u
  <2> QED
    BY <2>1, <2>2 DEF UsedType
<1> QED
  BY <1>1, <1>2

LEMMA TriesUsed ==
  ASSUME used \in UsedType, NEW s, Tries(s)
  PROVE  used' \in UsedType /\ used'.broken = used.broken
BY FaultType DEF Tries, Fails

LEMMA TellType ==
  ASSUME NEW s \in State
  PROVE  Tell(s) \in Report
<1>1. s.integ.old \in Known /\ s.integ.new \in Known /\ s.integ.before \in Known
  BY DEF State, Integ
<1>2. SeenStatus \in Known
  BY DEF SeenStatus, Known
<1>3. Or(s.integ.old, Or(s.integ.before, SeenStatus)) \in Known
  BY <1>1, <1>2 DEF Or
<1> QED
  BY <1>1, <1>3 DEF Tell, Report

LEMMA MailType ==
  ASSUME NEW s \in State
  PROVE  /\ BuildHitlEmail(s) \in Mail /\ BuildHitlEmail(s).kind = "alert"
         /\ BuildHitlEmail(s).rec = s.integ.rec
         /\ BuildHitlEmail(s).from = None
         /\ BuildFinalEmail(s) \in Mail /\ BuildFinalEmail(s).kind = "final"
         /\ BuildFinalEmail(s).from = s.integ.old /\ BuildFinalEmail(s).to = s.integ.new
<1>1. /\ s.integ.rec \in Known /\ s.integ.old \in Known /\ s.integ.new \in Known
      /\ s.integ \in Integ
  BY DEF State, Integ
<1>2. None \in Known
  BY DEF Known
<1>3. BuildHitlEmail(s) \in Mail
  BY <1>1, <1>2 DEF BuildHitlEmail, Mail
<1>4. Outcome(s.decision) \in {None, "approved", "rejected", "auto"}
  BY DEF Outcome
<1>5. BuildFinalEmail(s) \in Mail
  BY <1>1, <1>4 DEF BuildFinalEmail, Mail
<1> QED
  BY <1>3, <1>5 DEF BuildHitlEmail, BuildFinalEmail

LEMMA SendType ==
  ASSUME NEW m \in Mail, SendEmail(m), mails \subseteq Mail, used \in UsedType
  PROVE  /\ mails' \subseteq Mail /\ mails \subseteq mails'
         /\ \E n \in mails' : n.kind = m.kind /\ n.rec = m.rec /\ Names(n, m.from, m.to)
         /\ \A n \in mails' : n \in mails \/ Names(n, m.from, m.to)
         /\ used' \in UsedType /\ used'.broken = used.broken
<1> DEFINE n == [m EXCEPT !.sent = FALSE]
<1>1. n \in Mail /\ n.kind = m.kind /\ n.rec = m.rec /\ Names(n, m.from, m.to)
  BY DEF Mail, Names
<1> HIDE DEF n
<1>2. CASE mails' = mails \cup {m} /\ UNCHANGED used
  BY <1>2 DEF Names
<1>3. CASE Fault /\ mails' = mails \cup {n}
  BY <1>1, <1>3, FaultType
<1> QED
  BY <1>2, <1>3 DEF SendEmail, n

LEMMA PolicyType ==
  ASSUME TypeOK
  PROVE  Policy.recommended \in Known /\ Policy.requires_human \in BOOLEAN
<1>1. Readable(state.portal) \in BOOLEAN /\ state.confidence \in Int
  BY DEF Readable, TypeOK, State, Confidence
<1> QED
  BY <1>1, EvaluateMismatchType DEF Policy, Known

-----------------------------------------------------------------------------
(* Every step keeps the types *)

\* Only the reporting node writes the report, and only the notification node
\* sends e-mails, or notes that it could not.
ReportStep ==
  \/ state'.report = state.report
  \/ ReportingNode /\ state'.report = Tell(state)

MailStep ==
  \/ mails' = mails /\ (NotificationNode => state'.error)
  \/ /\ NotificationNode
     /\ \E n \in mails' : n.kind = "final" /\ Names(n, state.integ.old, state.integ.new)
     /\ \A n \in mails' : n \in mails \/ Names(n, state.integ.old, state.integ.new)

LEMMA QuietNodeType ==
  ASSUME TypeOK,
         PlannerNode \/ HumanReviewNode \/ ReportingNode \/ NotificationNode
           \/ IntegrationFails
  PROVE  /\ TypeOK' /\ Agrees(state', state) /\ mails \subseteq mails'
         /\ used'.broken = used.broken
         /\ ReportStep /\ MailStep
<1>1. /\ state \in State /\ used \in UsedType /\ mails \subseteq Mail /\ next \in Node \cup {"end"}
  BY DEF TypeOK, UsedType
<1>2. Agrees(state, state)
  BY DEF Agrees
<1>3. next' \in Node \cup {"end"}
  BY DEF PlannerNode, HumanReviewNode, ReportingNode, NotificationNode, IntegrationFails, Gate,
         ShouldGoToHuman, Node
<1>4. UNCHANGED <<event, order, task, row, writes>>
  BY DEF PlannerNode, HumanReviewNode, ReportingNode, NotificationNode, IntegrationFails
<1>5. /\ state' \in State /\ Agrees(state', state)
      /\ used' \in UsedType /\ used'.broken = used.broken
      /\ mails' \subseteq Mail /\ mails \subseteq mails'
      /\ ReportStep /\ MailStep
  <2>0. NotificationNode => At("notification")
    BY DEF NotificationNode
  <2>1. CASE PlannerNode
    BY <1>1, <1>2, <2>0, <2>1, TriesType, TriesUsed
       DEF PlannerNode, At, ReportStep, MailStep
  <2>2. CASE HumanReviewNode
    BY <1>1, <2>0, <2>2, SucceedsType DEF HumanReviewNode, At, ReportStep, MailStep
  <2>3. CASE ReportingNode
    <3> DEFINE s == [state EXCEPT !.report = Tell(state)]
    <3>1. s \in State /\ Agrees(s, state) /\ s.report = Tell(state)
      BY <1>1, TellType DEF State, Agrees
    <3> HIDE DEF s
    <3>2. Tries(s) /\ UNCHANGED mails /\ ~NotificationNode
      BY <2>0, <2>3 DEF ReportingNode, At, s
    <3>3. /\ state' \in State
          /\ \/ Agrees(state', s) /\ state'.report = s.report
             \/ Agrees(state', state) /\ state'.report = state.report
      BY <3>1, <3>2, TriesType
    <3> QED
      BY <1>1, <2>3, <3>1, <3>2, <3>3, TriesUsed DEF Agrees, ReportStep, MailStep
  <2>4. CASE NotificationNode
    <3>1. /\ BuildFinalEmail(state) \in Mail /\ BuildFinalEmail(state).kind = "final"
          /\ BuildFinalEmail(state).from = state.integ.old
          /\ BuildFinalEmail(state).to = state.integ.new
      BY <1>1, MailType
    <3>2. CASE SendEmail(BuildFinalEmail(state)) /\ Succeeds(state)
      BY <1>1, <2>4, <3>1, <3>2, SucceedsType, SendType DEF ReportStep, MailStep
    <3>3. CASE Fails(state) /\ UNCHANGED mails
      BY <1>1, <3>3, FailsType, FaultType DEF Fails, ReportStep, MailStep
    <3> QED
      BY <2>4, <3>2, <3>3 DEF NotificationNode
  <2>5. CASE IntegrationFails
    BY <1>1, <2>0, <2>5, FailsType, FaultType
       DEF IntegrationFails, Fails, At, ReportStep, MailStep
  <2> QED
    BY <2>1, <2>2, <2>3, <2>4, <2>5
<1> QED
  BY <1>3, <1>4, <1>5 DEF TypeOK, UsedType

LEMMA ResearchType ==
  ASSUME TypeOK, ResearchNode
  PROVE  /\ TypeOK' /\ used'.broken = used.broken
         /\ state'.portal = state.portal /\ state'.confidence = state.confidence
         /\ state'.integ = state.integ /\ state'.decision = state.decision
         /\ state'.report = state.report
<1> DEFINE s == [state EXCEPT !.seen = order]
<1>1. state \in State /\ used \in UsedType
  BY DEF TypeOK, UsedType
<1>2. /\ s \in State /\ s.portal = state.portal /\ s.confidence = state.confidence
      /\ s.integ = state.integ /\ s.decision = state.decision /\ s.report = state.report
  BY <1>1 DEF State, TypeOK, Seen, Known
<1>3. Tries(s) /\ UNCHANGED <<event, order, task, row, mails, writes>> /\ next' = "browser"
  BY DEF ResearchNode
<1> HIDE DEF s
<1>4. /\ state' \in State
      /\ \/ Agrees(state', s) /\ state'.report = s.report
         \/ Agrees(state', state) /\ state'.report = state.report
  BY <1>2, <1>3, TriesType
<1>5. used' \in UsedType /\ used'.broken = used.broken
  BY <1>1, <1>3, TriesUsed
<1>6. TypeOK'
  BY <1>3, <1>4, <1>5 DEF TypeOK, UsedType, Node
<1> QED
  BY <1>2, <1>4, <1>5, <1>6 DEF Agrees

\* The page, or that it could not be read, with the confidence in it; or only a
\* low confidence.
LEMMA BrowserType ==
  ASSUME TypeOK, BrowserNode
  PROVE  /\ TypeOK' /\ used'.broken = used.broken
         /\ state'.seen = state.seen /\ state'.report = state.report
         /\ state'.integ = state.integ /\ state'.decision = state.decision
         /\ \/ /\ state'.portal \in PortalStatus
               /\ state'.confidence = ComputeConfidence(Found, Readable(state'.portal), FALSE,
                                                         state'.portal)
            \/ state'.portal = state.portal /\ state'.confidence = 35
<1>1. state \in State /\ used \in UsedType /\ Found \in BOOLEAN
  BY DEF TypeOK, UsedType, Found
<1>2. UNCHANGED <<event, order, task, row, mails, writes>> /\ next' = "integration"
  BY DEF BrowserNode
<1>3. used' \in UsedType /\ used'.broken = used.broken
  BY <1>1, FaultType DEF BrowserNode, Fails
<1>4. ASSUME NEW portal \in PortalStatus, Succeeds(WithEvidence(portal))
      PROVE  /\ state' \in State /\ state'.seen = state.seen /\ state'.integ = state.integ
             /\ state'.decision = state.decision /\ state'.portal = portal
             /\ state'.report = state.report
             /\ state'.confidence = ComputeConfidence(Found, Readable(portal), FALSE, portal)
  <2> DEFINE c == ComputeConfidence(Found, Readable(portal), FALSE, portal)
             s == [state EXCEPT !.portal = portal, !.confidence = c]
  <2>1. c \in Confidence
    BY <1>1, ComputeConfidenceType DEF Readable
  <2> HIDE DEF c
  <2>2. /\ s \in State /\ s.seen = state.seen /\ s.integ = state.integ
        /\ s.decision = state.decision /\ s.portal = portal /\ s.confidence = c
        /\ s.report = state.report
    BY <1>1, <2>1 DEF State, Evidence
  <2>3. Succeeds(s)
    BY <1>4 DEF WithEvidence, c
  <2> HIDE DEF s
  <2>4. state' \in State /\ Agrees(state', s) /\ state'.report = s.report
    BY <2>2, <2>3, SucceedsType
  <2> QED
    BY <2>2, <2>4 DEF Agrees, c
<1>5. CASE Succeeds(WithEvidence(event.page))
  <2>1. event.page \in PortalStatus
    BY EventsType DEF TypeOK
  <2>2. /\ state' \in State /\ state'.seen = state.seen /\ state'.integ = state.integ
        /\ state'.decision = state.decision /\ state'.portal = event.page
        /\ state'.report = state.report
        /\ state'.confidence = ComputeConfidence(Found, Readable(event.page), FALSE, event.page)
    BY <1>4, <1>5, <2>1
  <2> QED
    BY <1>2, <1>3, <2>1, <2>2 DEF TypeOK, UsedType, Node
<1>6. CASE Succeeds(WithEvidence("error_collecting_data"))
  <2>1. "error_collecting_data" \in PortalStatus
    BY DEF PortalStatus
  <2>2. /\ state' \in State /\ state'.seen = state.seen /\ state'.integ = state.integ
        /\ state'.decision = state.decision /\ state'.portal = "error_collecting_data"
        /\ state'.report = state.report
        /\ state'.confidence = ComputeConfidence(Found, Readable("error_collecting_data"), FALSE,
                                                  "error_collecting_data")
    BY <1>4, <1>6, <2>1
  <2> QED
    BY <1>2, <1>3, <2>1, <2>2 DEF TypeOK, UsedType, Node
<1>7. CASE Fails([state EXCEPT !.confidence = 35])
  <2> DEFINE s == [state EXCEPT !.confidence = 35]
  <2>1. /\ s \in State /\ s.seen = state.seen /\ s.integ = state.integ
        /\ s.decision = state.decision /\ s.portal = state.portal /\ s.confidence = 35
        /\ s.report = state.report
    BY <1>1 DEF State, Confidence
  <2> HIDE DEF s
  <2>2. state' \in State /\ Agrees(state', s) /\ state'.report = s.report
    BY <1>7, <2>1, FailsType DEF s
  <2> QED
    BY <1>2, <1>3, <2>1, <2>2 DEF TypeOK, UsedType, Node, Agrees
<1> QED
  BY <1>5, <1>6, <1>7 DEF BrowserNode

LEMMA EvaluatedType ==
  ASSUME TypeOK, NEW old \in Known, NEW new \in Known
  PROVE  /\ Evaluated(old, new) \in Integ
         /\ Evaluated(old, new).rec = Policy.recommended
         /\ Evaluated(old, new).human = Policy.requires_human
         /\ Evaluated(old, new).old = old /\ Evaluated(old, new).new = new
<1>1. Policy.recommended \in Known /\ Policy.requires_human \in BOOLEAN
  BY PolicyType
<1>2. SeenStatus \in Known
  BY DEF SeenStatus, Known
<1> QED
  BY <1>1, <1>2 DEF Evaluated, Integ

LEMMA SetInteg ==
  ASSUME NEW s \in State, NEW i \in Integ, Succeeds([s EXCEPT !.integ = i])
  PROVE  /\ state' \in State /\ state'.seen = s.seen /\ state'.portal = s.portal
         /\ state'.confidence = s.confidence /\ state'.decision = s.decision /\ state'.integ = i
         /\ state'.report = s.report
<1> DEFINE t == [s EXCEPT !.integ = i]
<1>1. /\ t \in State /\ t.seen = s.seen /\ t.portal = s.portal
      /\ t.confidence = s.confidence /\ t.decision = s.decision /\ t.integ = i
      /\ t.report = s.report
  BY DEF State
<1> HIDE DEF t
<1>2. state' \in State /\ Agrees(state', t) /\ state'.report = t.report
  BY <1>1, SucceedsType DEF t
<1> QED
  BY <1>1, <1>2 DEF Agrees

\* What both branches of integration_node that succeed leave.
Integrated(human) ==
  /\ next' = Gate
  /\ state'.seen = state.seen /\ state'.portal = state.portal
  /\ state'.confidence = state.confidence /\ state'.decision = state.decision
  /\ state'.report = state.report
  /\ \/ state'.integ = state.integ
     \/ state'.integ.rec = Policy.recommended /\ state'.integ.human = human

LEMMA PendingType ==
  ASSUME TypeOK, IntegrationPending
  PROVE  TypeOK' /\ Integrated(TRUE) /\ state'.integ.old = state'.integ.new
<1>1. state \in State /\ SeenStatus \in Known
  BY DEF TypeOK, SeenStatus, Known
<1> DEFINE i == Evaluated(SeenStatus, SeenStatus)
<1>2. /\ i \in Integ /\ i.rec = Policy.recommended /\ i.human = Policy.requires_human
      /\ i.old = i.new
  BY <1>1, EvaluatedType
<1>human. i.human = TRUE
  <2>1. Policy.requires_human /\ Policy.requires_human \in BOOLEAN
    BY PolicyType DEF IntegrationPending
  <2> QED
    BY <1>2, <2>1
<1> HIDE DEF i
<1>3. Succeeds([state EXCEPT !.integ = i]) /\ next' = Gate
      /\ UNCHANGED <<event, order, task, row, mails, writes, used>>
  BY DEF IntegrationPending, i
<1>4. /\ state' \in State /\ state'.seen = state.seen /\ state'.portal = state.portal
      /\ state'.confidence = state.confidence /\ state'.decision = state.decision
      /\ state'.integ = i /\ state'.report = state.report
  BY <1>1, <1>2, <1>3, SetInteg
<1>5. next' \in Node \cup {"end"}
  BY <1>3 DEF Gate, ShouldGoToHuman, Node
<1>6. TypeOK'
  BY <1>3, <1>4, <1>5 DEF TypeOK
<1> QED
  BY <1>2, <1>human, <1>3, <1>4, <1>6 DEF Integrated

AutoWrite == [by |-> "auto", from |-> order, to |-> Or(Policy.recommended, SeenStatus),
              seen |-> state.seen, portal |-> state.portal]

LEMMA AutoType ==
  ASSUME TypeOK, IntegrationAuto
  PROVE  /\ TypeOK' /\ Integrated(FALSE)
         /\ \/ /\ writes' = writes
               /\ state'.integ = state.integ \/ state'.integ.old = state'.integ.new
            \/ /\ Or(Policy.recommended, SeenStatus) # None
               /\ writes' = writes \cup {AutoWrite}
               /\ state'.integ.old = AutoWrite.from /\ state'.integ.new = AutoWrite.to
<1> DEFINE new == Or(Policy.recommended, SeenStatus)
<1>1. /\ state \in State /\ SeenStatus \in Known /\ Policy.recommended \in Known
      /\ order \in OrderStatus \cup {"missing"} /\ writes \subseteq Write /\ None \in Known
  BY PolicyType DEF TypeOK, SeenStatus, Known
<1>2. new \in Known
  BY <1>1 DEF Or
<1>3. Policy.requires_human = FALSE
  <2>1. ~Policy.requires_human /\ Policy.requires_human \in BOOLEAN
    BY PolicyType DEF IntegrationAuto
  <2> QED
    BY <2>1
<1>4. /\ next' = Gate /\ next' \in Node \cup {"end"}
      /\ UNCHANGED <<event, task, row, mails, used>>
  BY DEF IntegrationAuto, Gate, ShouldGoToHuman, Node
<1>5. CASE /\ new = None
           /\ state' = [state EXCEPT !.error = TRUE]
           /\ UNCHANGED <<order, writes>>
  <2>1. state' \in State /\ Agrees(state', state) /\ state'.report = state.report
    BY <1>1, <1>5, ErrorSet
  <2> QED
    BY <1>4, <1>5, <2>1 DEF TypeOK, Agrees, Integrated
<1>6. CASE /\ new # None /\ order = "missing"
           /\ Succeeds([state EXCEPT !.integ = Evaluated(None, None)])
           /\ UNCHANGED <<order, writes>>
  <2> DEFINE i == Evaluated(None, None)
  <2>1. /\ i \in Integ /\ i.rec = Policy.recommended /\ i.human = Policy.requires_human
        /\ i.old = i.new
    BY <1>1, EvaluatedType
  <2> HIDE DEF i
  <2>2. /\ state' \in State /\ state'.seen = state.seen /\ state'.portal = state.portal
        /\ state'.confidence = state.confidence /\ state'.decision = state.decision
        /\ state'.integ = i /\ state'.report = state.report
    BY <1>1, <1>6, <2>1, SetInteg DEF i
  <2> QED
    BY <1>3, <1>4, <1>6, <2>1, <2>2 DEF TypeOK, Integrated
<1>7. CASE /\ new # None /\ order # "missing"
           /\ Succeeds([state EXCEPT !.integ = Evaluated(order, new)])
           /\ SetOrder("auto", new, state.seen, state.portal)
  <2> DEFINE i == Evaluated(order, new)
  <2>1. order \in OrderStatus /\ order \in Known /\ new \in OrderStatus
    BY <1>1, <1>2, <1>7 DEF Known
  <2>2. /\ i \in Integ /\ i.rec = Policy.recommended /\ i.human = Policy.requires_human
        /\ i.old = order /\ i.new = new
    BY <1>2, <2>1, EvaluatedType
  <2> HIDE DEF i
  <2>3. /\ state' \in State /\ state'.seen = state.seen /\ state'.portal = state.portal
        /\ state'.confidence = state.confidence /\ state'.decision = state.decision
        /\ state'.integ = i /\ state'.report = state.report
    BY <1>1, <1>7, <2>2, SetInteg DEF i
  <2>4. order' = new /\ writes' = writes \cup {AutoWrite}
    BY <1>7 DEF SetOrder, AutoWrite
  <2>from. AutoWrite.from = order /\ AutoWrite.to = new
    BY DEF AutoWrite
  <2>5. AutoWrite \in Write
    BY <1>1, <1>2, <2>1 DEF AutoWrite, Write, State
  <2> QED
    BY <1>1, <1>3, <1>4, <1>7, <2>1, <2>2, <2>3, <2>4, <2>5, <2>from DEF TypeOK, Integrated
<1> QED
  BY <1>5, <1>6, <1>7 DEF IntegrationAuto

LEMMA InitialType == InitialState \in State /\ NoInteg \in Integ /\ NoReport \in Report
<1>1. None \in Known /\ None \in Seen /\ None \in Evidence
  BY DEF Known, Seen, Evidence
<1>2. NoInteg \in Integ
  BY <1>1 DEF NoInteg, Integ
<1>3. NoReport \in Report
  BY <1>1 DEF NoReport, Report
<1> QED
  BY <1>1, <1>2, <1>3 DEF InitialState, State, Confidence

LEMMA TypeInit == Init => TypeOK
<1> SUFFICES ASSUME Init PROVE TypeOK
  OBVIOUS
<1>1. /\ event \in Events /\ order \in OrderStatus \cup {"missing"}
      /\ state \in State /\ next \in Node \cup {"end"} /\ mails \subseteq Mail
      /\ writes \subseteq Write
  BY InitialType, ErpStatesType DEF Init, Node
<1>2. task \in Task
  BY InitialType DEF Init, Task
<1>3. row \in Row
  BY InitialType DEF Init, Row, Seen, Known, Evidence
<1>4. used \in UsedType
  BY DEF Init, UsedType
<1> QED
  BY <1>1, <1>2, <1>3, <1>4 DEF TypeOK, UsedType

\* A task that moves its program counter.
LEMMA TaskMoves ==
  ASSUME task \in Task, NEW pc \in {"start", "graph", "persist", "commit", "idle", "apply", "push"},
         TaskTo(pc)
  PROVE  task' \in Task /\ task'.pc = pc /\ task'.by = task.by
         /\ task'.decision = task.decision /\ task'.integ = task.integ
BY DEF TaskTo, Task

LEMMA StatusSet ==
  ASSUME row \in Row, NEW status \in {"running", "waiting_human", "completed", "failed"},
         row' = [row EXCEPT !.status = status]
  PROVE  row' \in Row /\ row'.status = status /\ row'.seen = row.seen
         /\ row'.portal = row.portal /\ row'.integ = row.integ /\ row'.decision = row.decision
         /\ row'.report = row.report
BY DEF Row

\* What the case knows of its decision: the row's and the task's own data.
SameRow == /\ row'.seen = row.seen /\ row'.portal = row.portal
           /\ row'.integ = row.integ /\ row'.report = row.report

LEMMA StartType ==
  ASSUME TypeOK, Start
  PROVE  /\ TypeOK' /\ SameRow /\ row'.status = "running" /\ task'.by = task.by
         /\ task'.pc = "graph"
<1>1. task' \in Task /\ task'.pc = "graph" /\ task'.by = task.by
  BY TaskMoves DEF Start, TypeOK
<1>2. row' \in Row /\ SameRow /\ row'.status = "running"
  BY StatusSet DEF Start, TypeOK, SameRow
<1> QED
  BY <1>1, <1>2, InitialType DEF Start, TypeOK, Node

LEMMA ReadOutcomeType ==
  ASSUME TypeOK, ReadOutcome
  PROVE  /\ TypeOK' /\ task'.by = task.by /\ task'.pc = "persist" /\ mails \subseteq mails'
         /\ used'.broken = used.broken
         /\ Stopped => \E m \in mails' : m.kind = "alert" /\ m.rec = state.integ.rec
         /\ \A m \in mails' : m \in mails \/ m.from = None
<1>1. task' \in Task /\ task'.pc = "persist" /\ task'.by = task.by
  BY TaskMoves DEF ReadOutcome, TypeOK
<1>2. state \in State /\ used \in UsedType /\ mails \subseteq Mail
  BY DEF TypeOK, UsedType
<1>3. /\ mails' \subseteq Mail /\ mails \subseteq mails'
      /\ used' \in UsedType /\ used'.broken = used.broken
      /\ Stopped => \E m \in mails' : m.kind = "alert" /\ m.rec = state.integ.rec
      /\ \A m \in mails' : m \in mails \/ m.from = None
  <2>1. CASE Stopped
    <3>1. SendEmail(BuildHitlEmail(state))
      BY <2>1 DEF ReadOutcome
    <3>2. /\ BuildHitlEmail(state) \in Mail /\ BuildHitlEmail(state).kind = "alert"
          /\ BuildHitlEmail(state).rec = state.integ.rec /\ BuildHitlEmail(state).from = None
      BY <1>2, MailType
    <3> QED
      BY <1>2, <3>1, <3>2, SendType DEF Names
  <2>2. CASE ~Stopped
    BY <1>2, <2>2 DEF ReadOutcome
  <2> QED
    BY <2>1, <2>2
<1> QED
  BY <1>1, <1>3 DEF ReadOutcome, TypeOK, UsedType

LEMMA PersistType ==
  ASSUME TypeOK, PersistOutcome
  PROVE  /\ TypeOK' /\ task'.by = task.by /\ task'.pc = "commit"
         /\ row'.seen = state.seen /\ row'.portal = state.portal /\ row'.integ = state.integ
         /\ row'.status = (IF next # "end" THEN "waiting_human"
                           ELSE IF state.error THEN "failed" ELSE "completed")
         /\ row'.report = StoredReport
<1>1. task' \in Task /\ task'.pc = "commit" /\ task'.by = task.by
  BY TaskMoves DEF PersistOutcome, TypeOK
<1>2. StoredReport \in Report
  BY InitialType DEF StoredReport, TypeOK, State, NoReport, Report
<1> DEFINE status == IF next # "end" THEN "waiting_human"
                     ELSE IF state.error THEN "failed" ELSE "completed"
<1>3. status \in {"running", "waiting_human", "completed", "failed"}
  OBVIOUS
<1>4. row' = [row EXCEPT !.status = status, !.seen = state.seen, !.portal = state.portal,
                        !.integ = state.integ, !.report = StoredReport]
  BY DEF PersistOutcome
<1>5. /\ row \in Row /\ state.seen \in Seen /\ state.portal \in Evidence
      /\ state.integ \in Integ
  BY DEF TypeOK, State
<1> HIDE DEF status
<1>6. /\ row' \in Row /\ row'.seen = state.seen /\ row'.portal = state.portal
      /\ row'.integ = state.integ /\ row'.status = status /\ row'.report = StoredReport
  BY <1>2, <1>3, <1>4, <1>5 DEF Row
<1> QED
  BY <1>1, <1>6 DEF PersistOutcome, TypeOK, status

LEMMA HandlerFailsType ==
  ASSUME TypeOK, HandlerFails
  PROVE  /\ TypeOK' /\ SameRow /\ row'.status = "failed" /\ task'.by = task.by
         /\ task'.pc = "commit" /\ used'.broken = used.broken + 1
<1>1. task' \in Task /\ task'.pc = "commit" /\ task'.by = task.by
  BY TaskMoves DEF HandlerFails, TypeOK
<1>2. row' \in Row /\ SameRow /\ row'.status = "failed"
  BY StatusSet DEF HandlerFails, TypeOK, SameRow
<1>3. used' \in UsedType /\ used'.broken = used.broken + 1
  BY FaultType DEF HandlerFails, TypeOK, UsedType
<1> QED
  BY <1>1, <1>2, <1>3 DEF HandlerFails, TypeOK, UsedType

LEMMA CommitType ==
  ASSUME TypeOK, CommitOffset
  PROVE  TypeOK' /\ task'.by = "request" /\ task'.pc = "idle"
<1> DEFINE t == [task EXCEPT !.pc = "idle"]
<1>1. t \in Task /\ t.pc = "idle"
  BY DEF TypeOK, Task
<1>2. task' = [t EXCEPT !.by = "request"]
  BY DEF CommitOffset
<1> HIDE DEF t
<1>3. task' \in Task /\ task'.by = "request" /\ task'.pc = "idle"
  BY <1>1, <1>2 DEF Task
<1> QED
  BY <1>3 DEF CommitOffset, TypeOK

LEMMA RejectedType ==
  ASSUME NEW i \in Integ
  PROVE  Rejected(i) \in Integ /\ Rejected(i).old = Rejected(i).new
<1> DEFINE old == Or(i.old, i.before)
<1>1. old \in Known
  BY DEF Or, Integ
<1> HIDE DEF old
<1> DEFINE j == [i EXCEPT !.old = old, !.new = old, !.human = FALSE]
<1>2. j \in Integ /\ j.old = j.new
  BY <1>1 DEF Integ
<1> QED
  BY <1>2 DEF Rejected, old

LEMMA AcceptType ==
  ASSUME TypeOK, NEW d \in Decision, AcceptDecision(d)
  PROVE  /\ TypeOK' /\ SameRow /\ row'.status = row.status /\ task'.by = task.by
         /\ task'.decision = d /\ task'.pc \in {"apply", "push"} /\ used'.broken = used.broken
         /\ task'.pc = "apply" =>
              task'.integ = row.integ /\ row.integ.rec # None /\ d = "approved"
         /\ task'.integ = row.integ \/ task'.integ.old = task'.integ.new
<1> DEFINE pc == IF MustApply(d, row.integ) THEN "apply" ELSE "push"
           i  == IF d = "rejected" THEN Rejected(row.integ) ELSE row.integ
           t  == [task EXCEPT !.pc = pc]
           u  == [t EXCEPT !.decision = d]
<1>1. /\ row \in Row /\ row.integ \in Integ /\ task \in Task /\ used \in UsedType
  BY DEF TypeOK, Row, UsedType
<1>2. i \in Integ /\ (i = row.integ \/ i.old = i.new) /\ (d # "rejected" => i = row.integ)
  BY <1>1, RejectedType
<1>3. pc \in {"apply", "push"} /\ (pc = "apply" => d = "approved" /\ row.integ.rec # None)
  BY DEF MustApply
<1>4. task' = [task EXCEPT !.pc = pc, !.decision = d, !.integ = i]
  BY DEF AcceptDecision
<1> HIDE DEF pc, i
<1>5. /\ task' \in Task /\ task'.by = task.by /\ task'.decision = d /\ task'.pc = pc
      /\ task'.integ = i
  BY <1>1, <1>2, <1>3, <1>4 DEF Task
<1>6. row' = [row EXCEPT !.decision = d]
  BY DEF AcceptDecision
<1>7. row' \in Row /\ SameRow /\ row'.status = row.status
  BY <1>1, <1>6 DEF Row, SameRow
<1>8. used' \in UsedType /\ used'.broken = used.broken
  BY <1>1 DEF AcceptDecision, UsedType
<1> QED
  BY <1>2, <1>3, <1>5, <1>7, <1>8 DEF AcceptDecision, TypeOK, UsedType

HumanWrite == [by |-> "human", from |-> order, to |-> task.integ.rec,
               seen |-> row.seen, portal |-> row.portal]

LEMMA ApplyType ==
  ASSUME TypeOK, ApplyErp, task.integ.rec # None
  PROVE  /\ TypeOK' /\ task'.by = task.by /\ task'.pc = "push" /\ task'.decision = task.decision
         /\ \/ /\ writes' = writes
               /\ task'.integ.old = task.integ.old /\ task'.integ.new = task.integ.new
            \/ /\ writes' = writes \cup {HumanWrite}
               /\ task'.integ.old = HumanWrite.from /\ task'.integ.new = HumanWrite.to
<1>1. /\ task \in Task /\ task.integ \in Integ /\ task.integ.rec \in OrderStatus
      /\ order \in OrderStatus \cup {"missing"} /\ writes \subseteq Write /\ row \in Row
  BY DEF TypeOK, Task, Integ, Known
<1> DEFINE i == Merged(task.integ, order # "missing", order, task.integ.rec)
<1>2. /\ i \in Integ
      /\ IF order # "missing" THEN i.old = order /\ i.new = task.integ.rec
                              ELSE i.old = task.integ.old /\ i.new = task.integ.new
  <2> DEFINE before == Or(task.integ.before, task.integ.old)
  <2>0. /\ task.integ \in Integ /\ task.integ.rec \in Known /\ None \in Known
        /\ before \in Known
    BY <1>1 DEF Known, Or, Integ
  <2>1. CASE order = "missing"
    <3>1. i = [task.integ EXCEPT !.human = FALSE, !.before = before]
      BY <2>1 DEF Merged
    <3> HIDE DEF i, before
    <3> QED
      BY <2>0, <2>1, <3>1 DEF Integ
  <2>2. CASE order # "missing"
    <3>1. /\ order \in Known
          /\ i = [task.integ EXCEPT !.human = FALSE, !.old = order,
                                    !.new = task.integ.rec, !.before = before]
      BY <1>1, <2>2 DEF Merged, Known
    <3> HIDE DEF i, before
    <3> QED
      BY <2>0, <2>2, <3>1 DEF Integ
  <2> QED
    BY <2>1, <2>2
<1>3. task' = [task EXCEPT !.pc = "push", !.integ = i]
  BY DEF ApplyErp
<1> HIDE DEF i
<1>4. /\ task' \in Task /\ task'.by = task.by /\ task'.pc = "push"
      /\ task'.decision = task.decision /\ task'.integ = i
  BY <1>1, <1>2, <1>3 DEF Task
<1>5. /\ order' \in OrderStatus \cup {"missing"} /\ writes' \subseteq Write
      /\ \/ /\ writes' = writes
            /\ task'.integ.old = task.integ.old /\ task'.integ.new = task.integ.new
         \/ /\ writes' = writes \cup {HumanWrite}
            /\ task'.integ.old = HumanWrite.from /\ task'.integ.new = HumanWrite.to
  <2>1. CASE order # "missing"
    <3>1. SetOrder("human", task.integ.rec, row.seen, row.portal)
      BY <2>1 DEF ApplyErp
    <3>2. order' = task.integ.rec /\ writes' = writes \cup {HumanWrite}
      BY <3>1 DEF SetOrder, HumanWrite
    <3>3. HumanWrite \in Write
      BY <1>1, <2>1 DEF HumanWrite, Write, Row, Known
    <3>4. HumanWrite.from = order /\ HumanWrite.to = task.integ.rec
      BY DEF HumanWrite
    <3> QED
      BY <1>1, <1>2, <1>4, <2>1, <3>2, <3>3, <3>4
  <2>2. CASE order = "missing"
    BY <1>1, <1>2, <1>4, <2>2 DEF ApplyErp
  <2> QED
    BY <2>1, <2>2
<1> QED
  BY <1>4, <1>5 DEF ApplyErp, TypeOK

LEMMA ResumeType ==
  ASSUME TypeOK, ResumeGraph
  PROVE  /\ TypeOK' /\ task'.by = task.by /\ task'.pc = "graph"
         /\ state'.decision = task.decision /\ state'.seen = state.seen
         /\ state'.portal = state.portal /\ state'.confidence = state.confidence
         /\ state'.report = state.report /\ state'.integ = task.integ
         /\ task'.integ = task.integ /\ task'.decision = task.decision
<1>1. /\ task' \in Task /\ task'.pc = "graph" /\ task'.by = task.by
      /\ task'.integ = task.integ /\ task'.decision = task.decision
  BY TaskMoves DEF ResumeGraph, TypeOK
<1>2. state \in State /\ task.integ \in Integ /\ task.decision \in Decision \cup {None}
  BY DEF TypeOK, Task
<1>3. state' = [state EXCEPT !.decision = task.decision, !.integ = task.integ]
  BY DEF ResumeGraph
<1>4. /\ state' \in State /\ state'.decision = task.decision /\ state'.seen = state.seen
      /\ state'.portal = state.portal /\ state'.confidence = state.confidence
      /\ state'.report = state.report /\ state'.integ = task.integ
  BY <1>2, <1>3 DEF State
<1> QED
  BY <1>1, <1>4 DEF ResumeGraph, TypeOK

LEMMA FinishType ==
  ASSUME TypeOK, FinishDecision
  PROVE  /\ TypeOK' /\ task'.by = task.by /\ task'.pc = "idle"
         /\ row'.status = (IF state.error THEN "failed" ELSE "completed")
         /\ row'.report = state.report
         /\ row'.integ = task.integ \/ row'.integ = state.integ
<1>1. task' \in Task /\ task'.pc = "idle" /\ task'.by = task.by
  BY TaskMoves DEF FinishDecision, TypeOK
<1> DEFINE status == IF state.error THEN "failed" ELSE "completed"
           i == IF task.integ = NoInteg /\ task.decision # "rejected"
                  THEN state.integ ELSE task.integ
<1>2. /\ row \in Row /\ state.seen \in Seen /\ state.portal \in Evidence /\ i \in Integ
      /\ task.decision \in Decision \cup {None} /\ state.report \in Report
      /\ status \in {"failed", "completed"}
  BY DEF TypeOK, State, Task
<1>3. row' = [row EXCEPT !.status = status, !.decision = task.decision, !.seen = state.seen,
                        !.portal = state.portal, !.integ = i, !.report = state.report]
  BY DEF FinishDecision
<1> HIDE DEF status, i
<1>4. /\ row' \in Row /\ row'.status = status /\ row'.integ = i
      /\ row'.report = state.report
  BY <1>2, <1>3 DEF Row
<1> QED
  BY <1>1, <1>2, <1>4 DEF FinishDecision, TypeOK, status, i

LEMMA RequestFailsType ==
  ASSUME TypeOK, RequestFails
  PROVE  /\ TypeOK' /\ SameRow /\ row'.status = "failed" /\ task'.by = task.by
         /\ task'.pc = "idle" /\ used'.broken = used.broken + 1
<1>1. task' \in Task /\ task'.pc = "idle" /\ task'.by = task.by
  BY TaskMoves DEF RequestFails, TypeOK
<1>2. row' \in Row /\ SameRow /\ row'.status = "failed"
  BY StatusSet DEF RequestFails, TypeOK, SameRow
<1>3. used' \in UsedType /\ used'.broken = used.broken + 1
  BY FaultType DEF RequestFails, TypeOK, UsedType
<1> QED
  BY <1>1, <1>2, <1>3 DEF RequestFails, TypeOK, UsedType

LEMMA ChangesType ==
  ASSUME TypeOK, OrderChanges
  PROVE  TypeOK' /\ used'.broken = used.broken
<1>1. used' \in UsedType /\ used'.broken = used.broken
  BY DEF OrderChanges, TypeOK, UsedType
<1> QED
  BY <1>1, ErpStatesType
     DEF OrderChanges, OrderDeleted, OrderFed, OrderUpdated, TypeOK, UsedType

LEMMA CrashType ==
  ASSUME TypeOK, Crash
  PROVE  /\ TypeOK' /\ task'.by = task.by /\ used'.broken = used.broken + 1
         /\ task'.pc = IF task.by = "handler" THEN "start" ELSE "idle"
<1> DEFINE pc == IF task.by = "handler" THEN "start" ELSE "idle"
<1>1. task' \in Task /\ task'.pc = pc /\ task'.by = task.by
  BY TaskMoves DEF Crash, TypeOK
<1> DEFINE u == [used EXCEPT !.crashes = @ + 1]
<1>2. u \in UsedType /\ u.broken = used.broken
  BY DEF TypeOK, UsedType
<1>3. used' = [u EXCEPT !.broken = @ + 1]
  BY DEF Crash
<1> HIDE DEF u
<1>4. used' \in UsedType /\ used'.broken = used.broken + 1
  BY <1>2, <1>3 DEF UsedType
<1> QED
  BY <1>1, <1>4 DEF Crash, TypeOK, UsedType

-----------------------------------------------------------------------------
(* What the state of a case knows *)

Early == {"planner", "research", "browser"}

Supported(integ, seen, portal) ==
  integ.rec # None => /\ seen \in OrderStatus /\ Readable(portal)
                      /\ integ.rec = Recommendation(portal)

\* Before the browser has run there is no evidence; then the confidence tells
\* whether it can be used.
Fresh  == next \in Early => state.portal = None /\ state.confidence = 0
Judged == next \notin Early =>
            (state.confidence >= Threshold <=> Readable(state.portal) /\ state.seen # "missing")

\* Until a decision is pushed, the integration result is the policy's.
ByPolicy ==
  state.decision = None =>
    /\ next \in Early \cup {"integration"} => state.integ = NoInteg
    /\ Supported(state.integ, state.seen, state.portal)
    /\ state.integ # NoInteg => (state.integ.human <=> Unsafe)
    /\ next \notin Early \cup {"integration"} => (next = "human_review" <=> Unsafe)

StateInv == Fresh /\ Judged /\ ByPolicy

TaskInv ==
  /\ task.pc \in {"start", "persist", "commit"} => task.by = "handler"
  /\ task.pc \in {"idle", "apply", "push"} => task.by = "request"
  /\ task.by = "handler" /\ task.pc # "start" => state.decision = None
  /\ task.by = "request" /\ task.pc = "graph" => state.decision # None
  /\ task.pc \in {"apply", "push"} => task.decision # None
  /\ task.pc = "apply" => task.integ.rec # None /\ task.integ.rec = row.integ.rec
  /\ task.pc = "persist" => next \in {"human_review", "end"}

\* The policy asks a human exactly in the cases Unsafe names, and recommends only
\* what the evidence it was given supports.
LEMMA PolicyFacts ==
  ASSUME TypeOK, Judged, next = "integration"
  PROVE  /\ Policy.requires_human <=> Unsafe
         /\ Policy.recommended # None =>
              /\ state.seen \in OrderStatus /\ Readable(state.portal)
              /\ Policy.recommended = Recommendation(state.portal)
         /\ Gate = "human_review" <=> Unsafe
         /\ Gate \in {"human_review", "reporting"}
<1>1. state.confidence >= Threshold <=> Readable(state.portal) /\ state.seen # "missing"
  BY DEF Judged, Early
<1>2. state.confidence \in Confidence /\ state.confidence \in Int
      /\ state.confidence # NoConfidence
  BY DEF TypeOK, State, Confidence, NoConfidence
<1>3. state.confidence < Threshold <=> ~(Readable(state.portal) /\ state.seen # "missing")
  BY <1>1, <1>2 DEF Threshold
<1>4. Gate = "human_review" <=> Unsafe
  BY <1>3 DEF Gate, ShouldGoToHuman, Unsafe
<1>5. Gate \in {"human_review", "reporting"}
  BY DEF Gate, ShouldGoToHuman
<1> DEFINE b == Readable(state.portal)
           human == RequiresHuman(b, event.severity, state.confidence)
           mismatch == Mismatch(TRUE, SeenStatus, Recommendation(state.portal))
<1>6. human <=> Unsafe
  BY <1>3 DEF RequiresHuman, Unsafe
<1>7. mismatch => SeenStatus # None
  BY DEF Mismatch
<1>8. SeenStatus # None => state.seen \in OrderStatus
  BY DEF SeenStatus
<1>9. CASE ~b
  <2>1. Policy.requires_human = TRUE /\ Policy.recommended = None
    BY <1>2, <1>9 DEF Policy, EvaluateMismatch
  <2> QED
    BY <1>4, <1>5, <1>9, <2>1 DEF Unsafe
<1>10. CASE b /\ ~mismatch
  <2>1. Policy.requires_human = human /\ Policy.recommended = None
    BY <1>2, <1>10 DEF Policy, EvaluateMismatch
  <2> QED
    BY <1>4, <1>5, <1>6, <2>1
<1>11. CASE b /\ mismatch
  <2>1. Policy.requires_human = human /\ Policy.recommended = Recommendation(state.portal)
    BY <1>2, <1>11 DEF Policy, EvaluateMismatch
  <2> QED
    BY <1>4, <1>5, <1>6, <1>7, <1>8, <1>11, <2>1
<1> QED
  BY <1>9, <1>10, <1>11

LEMMA NoIntegSupported ==
  ASSUME NEW seen, NEW portal
  PROVE  Supported(NoInteg, seen, portal)
BY DEF Supported, NoInteg

LEMMA StateInvSame ==
  ASSUME StateInv, UNCHANGED <<event, state, next>>
  PROVE  StateInv'
BY DEF StateInv, Fresh, Judged, ByPolicy, Supported, Unsafe, Readable

LEMMA IntegratedState ==
  ASSUME TypeOK, TypeOK', StateInv, next = "integration", NEW human \in BOOLEAN, Integrated(human),
         human <=> Policy.requires_human, UNCHANGED event
  PROVE  StateInv'
<1>1. /\ Judged /\ ByPolicy
      /\ Policy.requires_human <=> Unsafe
      /\ Policy.recommended # None =>
              /\ state.seen \in OrderStatus /\ Readable(state.portal)
              /\ Policy.recommended = Recommendation(state.portal)
      /\ Gate = "human_review" <=> Unsafe
      /\ Gate \in {"human_review", "reporting"}
  BY PolicyFacts DEF StateInv
<1>2. Unsafe' <=> Unsafe
  BY DEF Integrated, Unsafe, Readable
<1>3. next' = Gate /\ next' \notin Early /\ next' # "integration"
  BY <1>1 DEF Integrated, Early
<1>4. Fresh' /\ Judged'
  BY <1>1, <1>3 DEF Fresh, Judged, Integrated, Readable, Early
<1>5. ByPolicy'
  <2> SUFFICES ASSUME state'.decision = None
               PROVE  /\ Supported(state'.integ, state'.seen, state'.portal)
                      /\ state'.integ # NoInteg => (state'.integ.human <=> Unsafe')
                      /\ next' = "human_review" <=> Unsafe'
    BY <1>3 DEF ByPolicy, Supported, Readable
  <2>1. state.decision = None
    BY DEF Integrated
  <2>2. CASE state'.integ = state.integ
    BY <1>1, <1>2, <1>3, <2>1, <2>2 DEF ByPolicy, Integrated, Supported
  <2>3. CASE state'.integ.rec = Policy.recommended /\ state'.integ.human = human
    BY <1>1, <1>2, <1>3, <2>3 DEF Integrated, Supported
  <2> QED
    BY <2>2, <2>3 DEF Integrated
<1> QED
  BY <1>4, <1>5 DEF StateInv

\* The page that can be used has been read, and of an order that was found.
LEMMA BrowserState ==
  ASSUME TypeOK, StateInv, BrowserNode
  PROVE  StateInv'
<1>1. /\ state'.seen = state.seen /\ state'.integ = state.integ
      /\ state'.decision = state.decision
      /\ \/ /\ state'.portal \in PortalStatus
            /\ state'.confidence = ComputeConfidence(Found, Readable(state'.portal), FALSE,
                                                      state'.portal)
         \/ state'.portal = state.portal /\ state'.confidence = 35
  BY BrowserType
<1>2. next = "browser" /\ next' = "integration" /\ UNCHANGED event /\ state.portal = None
  BY DEF BrowserNode, At, StateInv, Fresh, Early
<1>3. Judged'
  <2>1. CASE state'.portal = state.portal /\ state'.confidence = 35
    BY <1>2, <2>1 DEF Judged, Readable, Threshold
  <2>2. CASE /\ state'.portal \in PortalStatus
             /\ state'.confidence = ComputeConfidence(Found, Readable(state'.portal), FALSE,
                                                       state'.portal)
    <3>1. Found <=> state'.seen # "missing"
      BY <1>1 DEF Found
    <3>2. CASE ~Readable(state'.portal)
      BY <2>2, <3>2 DEF Judged, ComputeConfidence, Threshold, Readable
    <3>3. CASE Readable(state'.portal) /\ ~Found
      BY <2>2, <3>1, <3>3 DEF Judged, ComputeConfidence, Threshold, Readable
    <3>4. CASE Readable(state'.portal) /\ Found
      BY <2>2, <3>1, <3>4 DEF Judged, ComputeConfidence, Threshold, Readable
    <3> QED
      BY <3>2, <3>3, <3>4
  <2> QED
    BY <1>1, <2>1, <2>2
<1>4. ByPolicy'
  <2> SUFFICES ASSUME state'.decision = None PROVE state'.integ = NoInteg
    BY <1>2, NoIntegSupported DEF ByPolicy, Early
  <2> QED
    BY <1>1, <1>2 DEF StateInv, ByPolicy, Early
<1> QED
  BY <1>2, <1>3, <1>4 DEF StateInv, Fresh, Early

\* A node that leaves the data alone.
LEMMA QuietState ==
  ASSUME TypeOK, StateInv, TaskInv,
         PlannerNode \/ HumanReviewNode \/ ReportingNode \/ NotificationNode
           \/ IntegrationFails
  PROVE  StateInv'
<1>1. Agrees(state', state) /\ UNCHANGED event
  BY QuietNodeType DEF PlannerNode, HumanReviewNode, ReportingNode, NotificationNode,
                       IntegrationFails
<1>2. Fresh /\ Judged /\ ByPolicy
  BY DEF StateInv
<1>3. /\ Unsafe' <=> Unsafe
      /\ Readable(state'.portal) <=> Readable(state.portal)
  BY <1>1 DEF Agrees, Unsafe, Readable
<1>4. CASE PlannerNode
  BY <1>1, <1>2, <1>3, <1>4
     DEF PlannerNode, At, StateInv, Fresh, Judged, ByPolicy, Supported, Agrees, Early
<1>5. CASE HumanReviewNode
  <2>1. state.decision # None
    <3>1. task.by \in {"handler", "request"}
      BY DEF TypeOK, Task
    <3> QED
      BY <1>5, <3>1 DEF HumanReviewNode, At, Stopped, TaskInv
  <2> QED
    BY <1>1, <1>2, <1>3, <1>5, <2>1
       DEF HumanReviewNode, At, StateInv, Fresh, Judged, ByPolicy, Agrees, Early
<1>6. CASE ReportingNode \/ NotificationNode
  BY <1>1, <1>2, <1>3, <1>6
     DEF ReportingNode, NotificationNode, At, StateInv, Fresh, Judged, ByPolicy, Supported,
         Agrees, Early
<1>7. CASE IntegrationFails
  <2>1. next = "integration" /\ next' = Gate
    BY <1>7 DEF IntegrationFails, At
  <2>2. /\ Gate = "human_review" <=> Unsafe
        /\ Gate \in {"human_review", "reporting"}
    BY <1>2, <2>1, PolicyFacts
  <2> QED
    BY <1>1, <1>2, <1>3, <2>1, <2>2
       DEF StateInv, Fresh, Judged, ByPolicy, Supported, Agrees, Early
<1> QED
  BY <1>4, <1>5, <1>6, <1>7

LEMMA StateInvStep ==
  ASSUME TypeOK, TypeOK', StateInv, TaskInv, Next
  PROVE  StateInv'
<1>1. CASE PlannerNode \/ HumanReviewNode \/ ReportingNode \/ NotificationNode
             \/ IntegrationFails
  BY <1>1, QuietState
<1>2. CASE ResearchNode
  <2>1. /\ next = "research" /\ next' = "browser" /\ state'.portal = state.portal
        /\ state'.confidence = state.confidence /\ state'.integ = state.integ
        /\ state'.decision = state.decision
    BY <1>2, ResearchType DEF ResearchNode, At
  <2> QED
    BY <2>1, NoIntegSupported DEF StateInv, Fresh, Judged, ByPolicy, Early
<1>3. CASE BrowserNode
  BY <1>3, BrowserState
<1>4. CASE IntegrationPending
  <2>1. next = "integration" /\ Policy.requires_human /\ UNCHANGED event
    BY <1>4 DEF IntegrationPending, At
  <2> QED
    BY <1>4, <2>1, PendingType, IntegratedState
<1>5. CASE IntegrationAuto
  <2>1. next = "integration" /\ ~Policy.requires_human /\ UNCHANGED event
    BY <1>5 DEF IntegrationAuto, At
  <2> QED
    BY <1>5, <2>1, AutoType, IntegratedState
<1>6. CASE Start
  BY <1>6, NoIntegSupported
     DEF Start, InitialState, StateInv, Fresh, Judged, ByPolicy, Early
<1>7. CASE ResumeGraph
  <2>1. /\ state'.decision = task.decision /\ state'.seen = state.seen
        /\ state'.portal = state.portal /\ state'.confidence = state.confidence
        /\ task.decision # None /\ next' = next
    BY <1>7, ResumeType DEF ResumeGraph, TaskInv
  <2> QED
    BY <2>1 DEF StateInv, Fresh, Judged, ByPolicy, Readable
<1>8. CASE UNCHANGED <<event, state, next>>
  BY <1>8, StateInvSame
<1> QED
  BY <1>1, <1>2, <1>3, <1>4, <1>5, <1>6, <1>7, <1>8
     DEF Next, GraphStep, HandlerStep, DecisionStep, ReadOutcome, PersistOutcome, HandlerFails,
         CommitOffset, AcceptDecision, ApplyErp, FinishDecision, RequestFails, OrderChanges, Crash

\* The graph leaves the task and its decision alone.
LEMMA GraphQuiet ==
  ASSUME TypeOK, GraphStep
  PROVE  /\ TypeOK' /\ UNCHANGED <<event, task, row>> /\ state'.decision = state.decision
         /\ task.pc = "graph" /\ next \in Node /\ mails \subseteq mails'
         /\ used'.broken = used.broken /\ ~Stopped
<1>1. CASE PlannerNode \/ HumanReviewNode \/ ReportingNode \/ NotificationNode
             \/ IntegrationFails
  BY <1>1, QuietNodeType
     DEF PlannerNode, HumanReviewNode, ReportingNode, NotificationNode, IntegrationFails, At,
         Agrees, Node
<1>2. CASE ResearchNode
  BY <1>2, ResearchType DEF ResearchNode, At, Node
<1>3. CASE BrowserNode
  BY <1>3, BrowserType DEF BrowserNode, At, Node
<1>4. CASE IntegrationPending
  BY <1>4, PendingType DEF IntegrationPending, Integrated, At, Node
<1>5. CASE IntegrationAuto
  BY <1>5, AutoType DEF IntegrationAuto, Integrated, At, Node
<1> QED
  BY <1>1, <1>2, <1>3, <1>4, <1>5 DEF GraphStep

LEMMA TypeStep == TypeOK /\ TaskInv /\ [Next]_vars => TypeOK'
<1> SUFFICES ASSUME TypeOK, TaskInv, [Next]_vars PROVE TypeOK'
  OBVIOUS
<1>1. CASE GraphStep
  BY <1>1, GraphQuiet
<1>2. CASE HandlerStep
  BY <1>2, StartType, ReadOutcomeType, PersistType, HandlerFailsType, CommitType DEF HandlerStep
<1>3. CASE DecisionStep
  <2>1. CASE ApplyErp
    BY <2>1, ApplyType DEF ApplyErp, TaskInv
  <2> QED
    BY <1>3, <2>1, AcceptType, ResumeType, FinishType, RequestFailsType DEF DecisionStep
<1>4. CASE OrderChanges \/ Crash
  BY <1>4, ChangesType, CrashType
<1>5. CASE UNCHANGED vars
  BY <1>5 DEF vars, TypeOK
<1> QED
  BY <1>1, <1>2, <1>3, <1>4, <1>5 DEF Next

LEMMA TaskInvStep ==
  ASSUME TypeOK, TaskInv, [Next]_vars
  PROVE  TaskInv'
<1>1. CASE GraphStep
  BY <1>1, GraphQuiet DEF TaskInv
<1>2. CASE Start
  BY <1>2, StartType DEF Start, TaskInv, InitialState
<1>3. CASE ReadOutcome
  BY <1>3, ReadOutcomeType DEF ReadOutcome, RunDone, Stopped, TaskInv
<1>4. CASE PersistOutcome
  BY <1>4, PersistType DEF PersistOutcome, TaskInv
<1>5. CASE HandlerFails
  BY <1>5, HandlerFailsType DEF HandlerFails, TaskInv
<1>6. CASE CommitOffset
  BY <1>6, CommitType DEF CommitOffset, TaskInv
<1>7. ASSUME NEW d \in Decision, AcceptDecision(d) PROVE TaskInv'
  <2>1. d # None
    BY DEF Decision, None
  <2>2. task'.by = task.by /\ task'.decision = d /\ task'.pc \in {"apply", "push"}
        /\ (task'.pc = "apply" => task'.integ = row.integ /\ row.integ.rec # None)
        /\ row'.integ = row.integ
    BY <1>7, AcceptType DEF SameRow
  <2> QED
    BY <1>7, <2>1, <2>2 DEF AcceptDecision, TaskInv
<1>8. CASE ApplyErp
  <2>1. task.integ.rec # None
    BY <1>8 DEF ApplyErp, TaskInv
  <2> QED
    BY <1>8, <2>1, ApplyType DEF ApplyErp, TaskInv
<1>9. CASE ResumeGraph
  BY <1>9, ResumeType DEF ResumeGraph, TaskInv
<1>10. CASE FinishDecision
  BY <1>10, FinishType DEF FinishDecision, TaskInv
<1>11. CASE RequestFails
  BY <1>11, RequestFailsType DEF RequestFails, TaskInv
<1>12. CASE OrderChanges \/ UNCHANGED vars
  BY <1>12 DEF OrderChanges, vars, TaskInv
<1>13. CASE Crash
  <2>1. task.by \in {"handler", "request"}
    BY DEF TypeOK, Task
  <2> QED
    BY <1>13, <2>1, CrashType DEF Crash, TaskInv
<1> QED
  BY <1>1, <1>2, <1>3, <1>4, <1>5, <1>6, <1>7, <1>8, <1>9, <1>10, <1>11, <1>12, <1>13
     DEF Next, HandlerStep, DecisionStep

-----------------------------------------------------------------------------
(* What the row knows *)

\* A decision can be taken on the row, or is being applied.
Live == row.status = "waiting_human" \/ next \in Node \/ task.pc = "apply"

RowSupported ==
  task.by = "handler" \/ Live => Supported(row.integ, row.seen, row.portal)

High == event.severity \in {"high", "critical"}

Told(rec) == rec # None => \E m \in mails : m.kind = "alert" /\ m.rec = rec

RowTold ==
  /\ High /\ (task.by = "handler" \/ Live) => Told(row.integ.rec)
  /\ used.broken = 0 /\ Live => Told(row.integ.rec)
  /\ used.broken = 0 /\ task.pc = "start" => Told(row.integ.rec)
  /\ task.pc = "persist" /\ next = "human_review" => Told(state.integ.rec)

RowInv == RowSupported /\ RowTold

\* A step that leaves the row's data alone and makes it no more live.
LEMMA RowSame ==
  ASSUME RowInv, SameRow, UNCHANGED event, mails \subseteq mails',
         used'.broken = used.broken \/ used'.broken # 0,
         task'.by = "handler" => task.by = "handler",
         Live' => Live,
         task'.pc = "start" => task.pc = "start" \/ used'.broken # 0,
         task'.pc # "persist"
  PROVE  RowInv'
<1>1. RowSupported'
  BY DEF RowInv, RowSupported, SameRow, Supported, Readable
<1>2. row'.integ.rec = row.integ.rec /\ \A rec : Told(rec) => Told(rec)'
  BY DEF SameRow, Told
<1>3. RowTold'
  BY <1>2 DEF RowInv, RowTold, High, Told
<1> QED
  BY <1>1, <1>3 DEF RowInv

LEMMA BrokenStep ==
  ASSUME used \in UsedType
  PROVE  used.broken \in Nat /\ used.broken + 1 # 0
BY DEF UsedType

LEMMA RowInvStep ==
  ASSUME TypeOK, StateInv, TaskInv, RowInv, [Next]_vars
  PROVE  RowInv'
<1>used. used.broken \in Nat /\ used.broken + 1 # 0
  BY BrokenStep DEF TypeOK, UsedType
<1>1. CASE GraphStep
  BY <1>1, GraphQuiet, RowSame DEF SameRow, Live
<1>2. CASE Start
  <2>1. /\ SameRow /\ UNCHANGED <<event, mails, used>> /\ task'.by = "handler"
        /\ task'.pc = "graph" /\ task.pc = "start" /\ task.by = "handler"
    BY <1>2, StartType DEF Start, TaskInv
  <2>2. RowSupported'
    BY <2>1 DEF RowInv, RowSupported, SameRow, Supported, Readable
  <2>3. RowTold'
    BY <2>1 DEF RowInv, RowTold, SameRow, High, Told
  <2> QED
    BY <2>2, <2>3 DEF RowInv
<1>3. CASE ReadOutcome
  <2>1. /\ UNCHANGED <<event, state, row, next>> /\ task'.by = task.by /\ task'.pc = "persist"
        /\ mails \subseteq mails' /\ used'.broken = used.broken /\ task.pc = "graph"
        /\ Stopped => \E m \in mails' : m.kind = "alert" /\ m.rec = state.integ.rec
    BY <1>3, ReadOutcomeType DEF ReadOutcome, RunDone
  <2>2. RowSupported'
    BY <2>1 DEF RowInv, RowSupported, Live, Supported, Readable
  <2>3. next = "human_review" => Told(state.integ.rec)'
    BY <1>3, <2>1 DEF ReadOutcome, Stopped, Told
  <2>4. \A rec : Told(rec) => Told(rec)'
    BY <2>1 DEF Told
  <2>5. RowTold'
    BY <2>1, <2>3, <2>4 DEF RowInv, RowTold, High, Told, Live
  <2> QED
    BY <2>2, <2>5 DEF RowInv
<1>4. CASE PersistOutcome
  <2>1. /\ UNCHANGED <<event, state, next, mails, used>> /\ task.by = "handler"
        /\ task'.by = "handler" /\ task'.pc = "commit" /\ row'.seen = state.seen
        /\ row'.portal = state.portal /\ row'.integ = state.integ /\ state.decision = None
        /\ next = "end" => row'.status # "waiting_human"
        /\ next \in {"human_review", "end"} /\ task.pc = "persist"
    BY <1>4, PersistType DEF PersistOutcome, TaskInv
  <2>2. /\ Supported(state.integ, state.seen, state.portal)
        /\ next = "human_review" <=> Unsafe
    BY <2>1 DEF StateInv, ByPolicy, Early
  <2>3. RowSupported'
    BY <2>1, <2>2 DEF RowSupported, Supported, Readable
  <2>4. next = "human_review" => Told(state.integ.rec)
    BY <2>1 DEF RowInv, RowTold
  <2>5. High => next = "human_review"
    BY <2>2 DEF High, Unsafe
  <2>6. Live' => next = "human_review"
    BY <2>1 DEF Live, Node
  <2>7. RowTold'
    BY <2>1, <2>4, <2>5, <2>6 DEF RowTold, High, Told
  <2> QED
    BY <2>3, <2>7 DEF RowInv
<1>5. CASE HandlerFails
  BY <1>5, <1>used, HandlerFailsType, RowSame DEF HandlerFails, TaskInv, Live, SameRow
<1>6. CASE CommitOffset
  BY <1>6, CommitType, RowSame DEF CommitOffset, Live, SameRow
<1>7. ASSUME NEW d \in Decision, AcceptDecision(d) PROVE RowInv'
  <2>1. Live /\ UNCHANGED <<event, mails>>
    BY <1>7 DEF AcceptDecision, Live
  <2> QED
    BY <1>7, <2>1, AcceptType, RowSame
<1>8. CASE ApplyErp
  <2>1. task.integ.rec # None
    BY <1>8 DEF ApplyErp, TaskInv
  <2> QED
    BY <1>8, <2>1, ApplyType, RowSame DEF ApplyErp, Live, SameRow
<1>9. CASE ResumeGraph
  BY <1>9, ResumeType, RowSame DEF ResumeGraph, Live, SameRow
<1>10. CASE FinishDecision
  <2>1. /\ task'.by = "request" /\ task'.pc = "idle" /\ row'.status # "waiting_human"
        /\ next' = "end"
    BY <1>10, FinishType DEF FinishDecision, RunDone, Stopped
  <2> QED
    BY <2>1 DEF RowInv, RowSupported, RowTold, Live, Node
<1>11. CASE RequestFails
  BY <1>11, <1>used, RequestFailsType, RowSame DEF RequestFails, TaskInv, Live, SameRow
<1>12. CASE OrderChanges
  BY <1>12, ChangesType DEF OrderChanges, RowInv, RowSupported, RowTold, Live, Told, High,
                            Supported, Readable
<1>13. CASE Crash
  BY <1>13, <1>used, CrashType, RowSame DEF Crash, TaskInv, Live, SameRow
<1>14. CASE UNCHANGED vars
  BY <1>14 DEF vars, RowInv, RowSupported, RowTold, Live, Told, High, Supported, Readable
<1> QED
  BY <1>1, <1>2, <1>3, <1>4, <1>5, <1>6, <1>7, <1>8, <1>9, <1>10, <1>11, <1>12, <1>13, <1>14
     DEF Next, HandlerStep, DecisionStep

-----------------------------------------------------------------------------
(* The theorems *)

WriteInv == EvidenceBeforeWrite /\ ApprovedIsWhatWasShown

\* What one write must be.
Grounded(w) ==
  /\ w.seen \in OrderStatus /\ Readable(w.portal)
  /\ w.to = Recommendation(w.portal) \/ (w.by = "auto" /\ w.to = w.seen)

LEMMA AutoGrounded ==
  ASSUME TypeOK, StateInv, next = "integration", ~Policy.requires_human,
         Or(Policy.recommended, SeenStatus) # None
  PROVE  Grounded(AutoWrite) /\ AutoWrite.by # "human"
<1>1. /\ ~Unsafe
      /\ Policy.recommended # None =>
              /\ state.seen \in OrderStatus /\ Readable(state.portal)
              /\ Policy.recommended = Recommendation(state.portal)
  BY PolicyFacts DEF StateInv
<1>2. Readable(state.portal)
  BY <1>1 DEF Unsafe
<1>3. CASE Policy.recommended # None
  BY <1>1, <1>3 DEF Grounded, AutoWrite, Or
<1>4. CASE Policy.recommended = None
  <2>1. SeenStatus # None /\ Or(Policy.recommended, SeenStatus) = SeenStatus
    BY <1>4 DEF Or
  <2>2. state.seen \in OrderStatus /\ SeenStatus = state.seen
    BY <2>1 DEF SeenStatus
  <2> QED
    BY <1>2, <2>1, <2>2 DEF Grounded, AutoWrite
<1> QED
  BY <1>3, <1>4

\* The steps that write.
LEMMA Writes ==
  ASSUME TypeOK, TaskInv, [Next]_vars, writes' # writes
  PROVE  \/ /\ IntegrationAuto /\ next = "integration" /\ ~Policy.requires_human
            /\ Or(Policy.recommended, SeenStatus) # None /\ writes' = writes \cup {AutoWrite}
         \/ /\ ApplyErp /\ writes' = writes \cup {HumanWrite}
<1>1. CASE IntegrationAuto
  BY <1>1, AutoType DEF IntegrationAuto, At
<1>2. CASE ApplyErp
  BY <1>2, ApplyType DEF ApplyErp, TaskInv
<1> QED
  BY <1>1, <1>2
     DEF Next, GraphStep, HandlerStep, DecisionStep, PlannerNode, ResearchNode, BrowserNode,
         IntegrationPending, IntegrationFails, HumanReviewNode, ReportingNode, NotificationNode,
         Start, ReadOutcome, PersistOutcome, HandlerFails, CommitOffset, AcceptDecision,
         ResumeGraph, FinishDecision, RequestFails, OrderChanges, Crash, vars

LEMMA HumanGrounded ==
  ASSUME TypeOK, TaskInv, RowInv, ApplyErp
  PROVE  /\ Grounded(HumanWrite)
         /\ High \/ used.broken = 0 => \E m \in mails : m.kind = "alert" /\ m.rec = HumanWrite.to
<1>1. /\ task.integ.rec = row.integ.rec /\ row.integ.rec # None /\ Live
  BY DEF ApplyErp, TaskInv, Live
<1> QED
  BY <1>1 DEF RowInv, RowSupported, RowTold, Supported, Grounded, HumanWrite, Told

\* Nobody's mail is unsent, nobody's severity changes, and what broke stays broken.
LEMMA Monotone ==
  ASSUME TypeOK, TaskInv, [Next]_vars
  PROVE  event' = event /\ mails \subseteq mails' /\ (used'.broken = 0 => used.broken = 0)
<1>used. used.broken \in Nat /\ used.broken + 1 # 0
  BY BrokenStep DEF TypeOK, UsedType
<1>1. CASE GraphStep
  BY <1>1, GraphQuiet
<1>2. CASE ReadOutcome
  BY <1>2, ReadOutcomeType DEF ReadOutcome
<1>3. CASE HandlerFails \/ RequestFails \/ Crash
  BY <1>used, <1>3, HandlerFailsType, RequestFailsType, CrashType
     DEF HandlerFails, RequestFails, Crash
<1>4. CASE OrderChanges
  BY <1>4, ChangesType DEF OrderChanges
<1>5. ASSUME NEW d \in Decision, AcceptDecision(d)
      PROVE  event' = event /\ mails \subseteq mails' /\ (used'.broken = 0 => used.broken = 0)
  BY <1>5, AcceptType DEF AcceptDecision
<1> QED
  BY <1>1, <1>2, <1>3, <1>4, <1>5
     DEF Next, HandlerStep, DecisionStep, Start, PersistOutcome, CommitOffset, ApplyErp,
         ResumeGraph, FinishDecision, vars

LEMMA WriteInvStep ==
  ASSUME TypeOK, StateInv, TaskInv, RowInv, WriteInv, [Next]_vars
  PROVE  WriteInv'
<1>1. event' = event /\ mails \subseteq mails' /\ (used'.broken = 0 => used.broken = 0)
  BY Monotone
<1>2. ASSUME NEW w \in writes' PROVE Grounded(w)
  <2>1. CASE w \in writes
    BY <2>1 DEF WriteInv, EvidenceBeforeWrite, Grounded
  <2>2. CASE w \notin writes
    BY <1>2, <2>2, Writes, AutoGrounded, HumanGrounded
  <2> QED
    BY <2>1, <2>2
<1>3. ASSUME High \/ used.broken = 0, NEW w \in writes', w.by = "human"
      PROVE  \E m \in mails : m.kind = "alert" /\ m.rec = w.to
  <2>1. CASE w \in writes
    BY <1>3, <2>1 DEF WriteInv, ApprovedIsWhatWasShown, High
  <2>2. CASE w \notin writes
    BY <1>3, <2>2, Writes, AutoGrounded, HumanGrounded
  <2> QED
    BY <2>1, <2>2
<1>4. EvidenceBeforeWrite'
  BY <1>2 DEF EvidenceBeforeWrite, Grounded, Readable
<1>5. ApprovedIsWhatWasShown'
  BY <1>1, <1>3 DEF ApprovedIsWhatWasShown, High
<1> QED
  BY <1>4, <1>5 DEF WriteInv

-----------------------------------------------------------------------------
(* What the case tells *)

Honest(made, from, to) ==
  Changed(from, to) => \E w \in made : w.from = from /\ w.to = to

\* Nothing the case carries, stores or sends names a change it did not make.
ClaimInv ==
  /\ Honest(writes, state.integ.old, state.integ.new)
  /\ Honest(writes, task.integ.old, task.integ.new)
  /\ Honest(writes, row.integ.old, row.integ.new)
  /\ Honest(writes, state.report.from, state.report.to)
  /\ Honest(writes, row.report.from, row.report.to)
  /\ \A m \in mails : Honest(writes, m.from, m.to)

\* An integration result, a report and the e-mails that tell every change made.
Change(w)        == w.from # w.to
Carried(integ)   == \A w \in writes : Change(w) => integ.old = w.from /\ integ.new = w.to
Reported(report) == \A w \in writes : Change(w) => \/ report.verdict \in {None, "reason"}
                                                   \/ Names(report, w.from, w.to)
Mailed == \A w \in writes : Change(w) => \E m \in mails : m.kind = "final"
                                                          /\ Names(m, w.from, w.to)

\* The handler runs once, and leaves a waiting row only if it wrote nothing.
HandlerTells ==
  task.by = "handler" =>
    /\ task.pc = "start" => next = "planner"
    /\ task.pc # "commit" => row.status = "running"
    /\ task.pc = "commit" =>
         \/ next = "human_review" /\ row.status = "waiting_human"
         \/ next = "end" /\ row.status \in {"completed", "failed"}
    /\ next \in Early \cup {"integration", "human_review"} => writes = {}
    /\ Carried(state.integ)

\* One decision goes through; only an approval writes, and its task carries the
\* change until the graph is done.
RequestTells ==
  task.by = "request" =>
    /\ task.pc \in {"idle", "apply", "push"} => next \in {"human_review", "end"}
    /\ task.pc \in {"apply", "push"} => next = "human_review"
    /\ task.pc = "apply" => task.decision = "approved"
    /\ task.pc = "graph" => next \notin Early \cup {"integration"}
    /\ IF task.pc = "idle" /\ next = "end" THEN row.status \in {"completed", "failed"}
                                           ELSE row.status = "waiting_human"
    /\ task.pc \in {"idle", "apply"} /\ next = "human_review" => writes = {}
    /\ task.pc \in {"push", "graph"} =>
         Carried(task.integ) /\ (task.decision # "approved" => writes = {})
    /\ task.pc = "graph" => state.integ = task.integ /\ state.decision = task.decision

\* The report is written once, by the reporting node, and the e-mail after it.
ReportTells ==
  /\ next \notin {"notification", "end"} => state.report.verdict = None
  /\ Reported(state.report)
  /\ next = "end" => state.error \/ Mailed

RowTells == row.status = "completed" => Mailed /\ Reported(row.report) /\ Carried(row.integ)

\* When every task ends well.
ToldInv == used.broken = 0 => HandlerTells /\ RequestTells /\ ReportTells /\ RowTells

RealWrites == \A w \in writes : w.to # None

\* What a node of the graph makes of the data of its case.
AutoWrites ==
  /\ next = "integration" /\ ~Policy.requires_human
  /\ writes' = writes \cup {AutoWrite} /\ AutoWrite.to # None
  /\ state'.integ.old = AutoWrite.from /\ state'.integ.new = AutoWrite.to

LEMMA GraphData ==
  ASSUME TypeOK, GraphStep
  PROVE  /\ ReportStep /\ MailStep
         /\ \/ writes' = writes /\ state'.integ = state.integ
            \/ /\ writes' = writes /\ next = "integration"
               /\ state'.integ.old = state'.integ.new
            \/ AutoWrites
<1>0. next # "notification" => ~NotificationNode
  BY DEF NotificationNode, At
<1>1. CASE PlannerNode \/ HumanReviewNode \/ ReportingNode \/ NotificationNode
             \/ IntegrationFails
  BY <1>1, QuietNodeType
     DEF PlannerNode, HumanReviewNode, ReportingNode, NotificationNode, IntegrationFails, Agrees
<1>2. CASE ResearchNode
  BY <1>0, <1>2, ResearchType DEF ResearchNode, At, ReportStep, MailStep
<1>3. CASE BrowserNode
  BY <1>0, <1>3, BrowserType DEF BrowserNode, At, ReportStep, MailStep
<1>4. CASE IntegrationPending
  BY <1>0, <1>4, PendingType DEF IntegrationPending, Integrated, At, ReportStep, MailStep
<1>5. CASE IntegrationAuto
  <2>1. next = "integration" /\ ~Policy.requires_human /\ mails' = mails
    BY <1>5 DEF IntegrationAuto, At
  <2>2. AutoWrite.to = Or(Policy.recommended, SeenStatus)
    BY DEF AutoWrite
  <2> QED
    BY <1>0, <1>5, <2>1, <2>2, AutoType DEF Integrated, ReportStep, MailStep, AutoWrites
<1> QED
  BY <1>1, <1>2, <1>3, <1>4, <1>5 DEF GraphStep

LEMMA HonestGrows ==
  ASSUME NEW W, NEW V, W \subseteq V, NEW from, NEW to, Honest(W, from, to)
  PROVE  Honest(V, from, to)
BY DEF Honest

LEMMA HonestSame ==
  ASSUME NEW W, NEW from
  PROVE  Honest(W, from, from) /\ \A to : Honest(W, None, to)
BY DEF Honest, Changed

LEMMA HonestWrite ==
  ASSUME NEW W, NEW w \in W
  PROVE  Honest(W, w.from, w.to)
BY DEF Honest

\* A report names the change the integration result names, or none.
LEMMA TellHonest ==
  ASSUME NEW W, NEW s, Honest(W, s.integ.old, s.integ.new)
  PROVE  Honest(W, Tell(s).from, Tell(s).to)
<1> DEFINE kept == Or(s.integ.old, Or(s.integ.before, SeenStatus))
<1>1. \/ Tell(s).from = s.integ.old /\ Tell(s).to = s.integ.new
      \/ Tell(s).from = kept /\ Tell(s).to = kept
  BY DEF Tell
<1> HIDE DEF kept
<1> QED
  BY <1>1, HonestSame

LEMMA WritesGrow ==
  ASSUME TypeOK, TaskInv, [Next]_vars
  PROVE  writes \subseteq writes'
BY Writes

LEMMA ClaimStep ==
  ASSUME TypeOK, TaskInv, ClaimInv, [Next]_vars
  PROVE  ClaimInv'
<1> DEFINE Kept(W) == /\ Honest(W, state.integ.old, state.integ.new)
                      /\ Honest(W, task.integ.old, task.integ.new)
                      /\ Honest(W, row.integ.old, row.integ.new)
                      /\ Honest(W, state.report.from, state.report.to)
                      /\ Honest(W, row.report.from, row.report.to)
                      /\ \A m \in mails : Honest(W, m.from, m.to)
<1>0. Kept(writes')
  <2>1. writes \subseteq writes'
    BY WritesGrow
  <2> QED
    BY <2>1, HonestGrows DEF ClaimInv
<1>report. Honest(writes', Tell(state).from, Tell(state).to)
  BY <1>0, TellHonest
<1> DEFINE StateHonest == /\ Honest(writes', state'.integ.old, state'.integ.new)
                          /\ Honest(writes', state'.report.from, state'.report.to)
           TaskHonest  == Honest(writes', task'.integ.old, task'.integ.new)
           RowHonest   == /\ Honest(writes', row'.integ.old, row'.integ.new)
                          /\ Honest(writes', row'.report.from, row'.report.to)
           MailHonest  == \A m \in mails' : Honest(writes', m.from, m.to)
<1> HIDE DEF Kept
<1> SUFFICES StateHonest /\ TaskHonest /\ RowHonest /\ MailHonest
  BY DEF ClaimInv
<1>same. /\ state' = state => StateHonest
         /\ task' = task \/ task'.integ = task.integ => TaskHonest
         /\ row' = row \/ (row'.integ = row.integ /\ row'.report = row.report) => RowHonest
         /\ mails' = mails => MailHonest
  BY <1>0 DEF Kept
<1>1. CASE GraphStep
  <2>1. task' = task /\ row' = row
    BY <1>1, GraphQuiet
  <2>2. ReportStep /\ MailStep
    BY <1>1, GraphData
  <2>3. Honest(writes', state'.integ.old, state'.integ.new)
    <3>1. CASE AutoWrites
      BY <3>1, HonestWrite DEF AutoWrites
    <3>2. CASE ~AutoWrites
      BY <1>0, <1>1, <3>2, GraphData, HonestSame DEF Kept
    <3> QED
      BY <3>1, <3>2
  <2>4. Honest(writes', state'.report.from, state'.report.to)
    BY <1>0, <1>report, <2>2 DEF ReportStep, Kept
  <2>5. MailHonest
    <3> SUFFICES ASSUME NEW m \in mails' PROVE Honest(writes', m.from, m.to)
      OBVIOUS
    <3>1. m \in mails \/ Names(m, state.integ.old, state.integ.new)
      BY <2>2 DEF MailStep
    <3> QED
      BY <1>0, <3>1 DEF Kept, Names
  <2> QED
    BY <1>same, <2>1, <2>3, <2>4, <2>5
<1>2. CASE Start
  <2>1. task'.integ = task.integ
    BY <1>2, TaskMoves DEF Start, TypeOK
  <2>2. state' = InitialState /\ mails' = mails /\ SameRow
    BY <1>2, StartType DEF Start
  <2>3. StateHonest
    BY <2>2, HonestSame DEF InitialState, NoInteg, NoReport
  <2> QED
    BY <1>same, <2>1, <2>2, <2>3 DEF SameRow
<1>3. CASE ReadOutcome
  <2>1. task'.integ = task.integ
    BY <1>3, TaskMoves DEF ReadOutcome, TypeOK
  <2>2. MailHonest
    <3> SUFFICES ASSUME NEW m \in mails' PROVE Honest(writes', m.from, m.to)
      OBVIOUS
    <3>1. m \in mails \/ m.from = None
      BY <1>3, ReadOutcomeType
    <3> QED
      BY <1>0, <3>1, HonestSame DEF Kept
  <2> QED
    BY <1>3, <1>same, <2>1, <2>2 DEF ReadOutcome
<1>4. CASE PersistOutcome
  <2>1. task'.integ = task.integ
    BY <1>4, TaskMoves DEF PersistOutcome, TypeOK
  <2>2. row'.integ = state.integ /\ row'.report = StoredReport
    BY <1>4, PersistType
  <2>3. Honest(writes', StoredReport.from, StoredReport.to)
    <3>1. StoredReport = state.report \/ StoredReport.from = None
      BY DEF StoredReport, NoReport
    <3> QED
      BY <1>0, <3>1, HonestSame DEF Kept
  <2>4. RowHonest
    BY <1>0, <2>2, <2>3 DEF Kept
  <2> QED
    BY <1>4, <1>same, <2>1, <2>4 DEF PersistOutcome
<1>5. CASE HandlerFails \/ RequestFails
  <2>1. task'.integ = task.integ /\ SameRow
    BY <1>5, TaskMoves, HandlerFailsType, RequestFailsType DEF HandlerFails, RequestFails, TypeOK
  <2> QED
    BY <1>5, <1>same, <2>1 DEF HandlerFails, RequestFails, SameRow
<1>6. CASE CommitOffset
  <2>1. task'.integ = task.integ
    <3> DEFINE t == [task EXCEPT !.pc = "idle"]
    <3>1. t \in Task /\ t.integ = task.integ /\ task' = [t EXCEPT !.by = "request"]
      BY <1>6 DEF CommitOffset, TypeOK, Task
    <3> HIDE DEF t
    <3> QED
      BY <3>1 DEF Task
  <2> QED
    BY <1>6, <1>same, <2>1 DEF CommitOffset
<1>7. ASSUME NEW d \in Decision, AcceptDecision(d)
      PROVE  StateHonest /\ TaskHonest /\ RowHonest /\ MailHonest
  <2>1. /\ SameRow
        /\ task'.integ = row.integ \/ task'.integ.old = task'.integ.new
    BY <1>7, AcceptType
  <2>2. TaskHonest
    BY <1>0, <2>1, HonestSame DEF Kept
  <2> QED
    BY <1>7, <1>same, <2>1, <2>2 DEF AcceptDecision, SameRow
<1>8. CASE ApplyErp
  <2>1. \/ /\ writes' = writes
           /\ task'.integ.old = task.integ.old /\ task'.integ.new = task.integ.new
        \/ /\ writes' = writes \cup {HumanWrite}
           /\ task'.integ.old = HumanWrite.from /\ task'.integ.new = HumanWrite.to
    BY <1>8, ApplyType DEF ApplyErp, TaskInv
  <2>2. TaskHonest
    BY <1>0, <2>1, HonestWrite DEF Kept
  <2> QED
    BY <1>8, <1>same, <2>2 DEF ApplyErp
<1>9. CASE ResumeGraph
  <2>1. task'.integ = task.integ /\ state'.integ = task.integ /\ state'.report = state.report
    BY <1>9, ResumeType
  <2>2. StateHonest
    BY <1>0, <2>1 DEF Kept
  <2> QED
    BY <1>9, <1>same, <2>1, <2>2 DEF ResumeGraph
<1>10. CASE FinishDecision
  <2>1. task'.integ = task.integ
    BY <1>10, TaskMoves DEF FinishDecision, TypeOK
  <2>2. RowHonest
    BY <1>0, <1>10, FinishType DEF Kept
  <2> QED
    BY <1>10, <1>same, <2>1, <2>2 DEF FinishDecision
<1>11. CASE OrderChanges \/ UNCHANGED vars
  BY <1>11, <1>same DEF OrderChanges, vars
<1>12. CASE Crash
  <2>1. task'.integ = task.integ
    BY <1>12, TaskMoves DEF Crash, TypeOK
  <2> QED
    BY <1>12, <1>same, <2>1 DEF Crash
<1> QED
  BY <1>1, <1>2, <1>3, <1>4, <1>5, <1>6, <1>7, <1>8, <1>9, <1>10, <1>11, <1>12
     DEF Next, HandlerStep, DecisionStep

\* The edges of the graph.
LEMMA GraphMoves ==
  ASSUME GraphStep
  PROVE  /\ \/ next \in Early /\ next' \in Early \cup {"integration"}
            \/ next = "integration" /\ next' = Gate /\ Gate \in {"human_review", "reporting"}
            \/ next = "human_review" /\ task.by # "handler" /\ next' = "reporting"
            \/ next = "reporting" /\ next' = "notification"
            \/ next = "notification" /\ next' = "end" /\ NotificationNode
         /\ task.pc = "graph"
         /\ ReportingNode => next = "reporting"
         /\ NotificationNode => next = "notification"
BY DEF GraphStep, PlannerNode, ResearchNode, BrowserNode, IntegrationPending, IntegrationAuto,
       IntegrationFails, HumanReviewNode, ReportingNode, NotificationNode, At, Stopped, Early,
       Gate, ShouldGoToHuman

\* A report of a state that carries the changes names them.
LEMMA TellReports ==
  ASSUME TypeOK, RealWrites, Carried(state.integ),
         state.decision = "rejected" => \A w \in writes : ~Change(w)
  PROVE  Reported(Tell(state))
<1> SUFFICES ASSUME NEW w \in writes, Change(w)
             PROVE  Names(Tell(state), w.from, w.to)
  BY DEF Reported
<1>1. state.integ.old = w.from /\ state.integ.new = w.to
  BY DEF Carried
<1>2. w.from # None /\ w.to # None /\ w.from # w.to
  BY DEF TypeOK, Write, OrderStatus, None, RealWrites, Change
<1>3. state.decision # "rejected"
  OBVIOUS
<1> QED
  BY <1>1, <1>2, <1>3 DEF Tell, Names

LEMMA RealWritesStep ==
  ASSUME TypeOK, StateInv, TaskInv, RealWrites, [Next]_vars
  PROVE  RealWrites'
<1> SUFFICES ASSUME NEW w \in writes' PROVE w.to # None
  BY DEF RealWrites
<1>1. CASE w \in writes
  BY <1>1 DEF RealWrites
<1>2. CASE w \notin writes
  <2>1. \/ Or(Policy.recommended, SeenStatus) # None /\ w = AutoWrite
        \/ ApplyErp /\ w = HumanWrite
    BY <1>2, Writes
  <2> QED
    BY <2>1 DEF AutoWrite, HumanWrite, ApplyErp, TaskInv
<1> QED
  BY <1>1, <1>2

\* A step of the graph, as ToldInv sees it.
LEMMA ToldGraph ==
  ASSUME TypeOK, StateInv, TaskInv, RealWrites, GraphStep,
         HandlerTells, RequestTells, ReportTells, RowTells
  PROVE  HandlerTells' /\ RequestTells' /\ ReportTells' /\ RowTells'
<1>same. /\ task' = task /\ row' = row /\ state'.decision = state.decision
         /\ mails \subseteq mails' /\ task.pc = "graph" /\ task.by \in {"handler", "request"}
  BY GraphQuiet DEF TypeOK, Task
<1>row. row.status # "completed"
  BY <1>same DEF HandlerTells, RequestTells
<1>none. task.by = "handler" => state.decision = None
  BY <1>same DEF TaskInv
<1>handler. task.by = "handler" /\ next \in Early \cup {"integration"} => writes = {}
  BY DEF HandlerTells
<1>request. task.by = "request" => /\ next \notin Early \cup {"integration"}
                                   /\ state.integ = task.integ /\ Carried(task.integ)
                                   /\ task.decision # "approved" => writes = {}
                                   /\ state.decision = task.decision
  BY <1>same DEF RequestTells
<1>carried. Carried(state.integ)
  BY <1>same, <1>request DEF HandlerTells
<1>write. ASSUME AutoWrites
          PROVE  /\ task.by = "handler" /\ next' = "reporting"
                 /\ Carried(state.integ)' /\ state.report.verdict = None
  <2>1. next = "integration" /\ ~Policy.requires_human
    BY <1>write DEF AutoWrites
  <2>2. task.by = "handler" /\ writes = {}
    BY <1>same, <1>handler, <1>request, <2>1
  <2>3. next' = Gate /\ Gate # "human_review" /\ Gate \in {"human_review", "reporting"}
    BY <2>1, PolicyFacts, GraphMoves DEF StateInv, Early
  <2>4. Carried(state.integ)'
    BY <1>write, <2>2 DEF AutoWrites, Carried
  <2>5. state.report.verdict = None
    BY <2>1 DEF ReportTells
  <2> QED
    BY <2>2, <2>3, <2>4, <2>5
<1>quiet. ASSUME ~AutoWrites
          PROVE  /\ writes' = writes /\ Carried(state.integ)'
                 /\ next \notin Early \cup {"integration"} => state'.integ = state.integ
  <2>1. \/ writes' = writes /\ state'.integ = state.integ
        \/ writes' = writes /\ next = "integration"
    BY <1>quiet, GraphData
  <2>2. CASE state'.integ = state.integ
    BY <1>carried, <2>1, <2>2 DEF Carried
  <2>3. CASE next = "integration"
    <3>1. writes = {}
      BY <1>same, <1>handler, <1>request, <2>3
    <3> QED
      BY <2>1, <2>3, <3>1 DEF Carried
  <2> QED
    BY <2>1, <2>2, <2>3
<1>1. HandlerTells'
  <2> SUFFICES ASSUME task.by = "handler"
               PROVE  /\ row.status = "running"
                      /\ next' \in Early \cup {"integration", "human_review"} => writes' = {}
                      /\ Carried(state.integ)'
    BY <1>same DEF HandlerTells, Early
  <2>1. row.status = "running"
    BY <1>same DEF HandlerTells
  <2>2. next' \in Early \cup {"integration", "human_review"} => next \in Early \cup {"integration"}
    BY GraphMoves DEF Early
  <2> QED
    BY <1>write, <1>quiet, <1>handler, <2>1, <2>2 DEF Early
<1>2. RequestTells'
  <2> SUFFICES ASSUME task.by = "request"
               PROVE  RequestTells'
    BY <1>same DEF RequestTells
  <2>1. writes' = writes /\ state'.integ = state.integ
    BY <1>write, <1>quiet, <1>request
  <2>2. next' \notin Early \cup {"integration"}
    BY <1>request, GraphMoves DEF Early
  <2>3. row.status = "waiting_human"
    BY <1>same DEF RequestTells
  <2> QED
    BY <1>same, <1>request, <2>1, <2>2, <2>3 DEF RequestTells, Carried
<1>3. ReportTells'
  <2>1. ReportStep /\ MailStep
    BY GraphData
  <2>2. next' \notin {"notification", "end"} => state'.report.verdict = None
    <3>1. next' \notin {"notification", "end"} =>
            next \notin {"reporting", "notification", "end"}
      BY GraphMoves DEF Early
    <3> QED
      BY <2>1, <3>1, GraphMoves DEF ReportStep, ReportTells
  <2>3. Reported(state.report)'
    <3>1. CASE state'.report = state.report
      BY <1>write, <1>quiet, <3>1 DEF ReportTells, Reported
    <3>2. CASE ReportingNode /\ state'.report = Tell(state)
      <4>1. writes' = writes
        BY <1>write, <1>quiet, <3>2, GraphMoves DEF AutoWrites
      <4>2. state.decision = "rejected" => writes = {}
        BY <1>same, <1>none, <1>request DEF None
      <4>3. Reported(Tell(state))
        BY <1>carried, <4>2, TellReports
      <4> QED
        BY <3>2, <4>1, <4>3 DEF Reported
    <3> QED
      BY <2>1, <3>1, <3>2 DEF ReportStep
  <2>4. ASSUME next' = "end" PROVE state'.error \/ Mailed'
    <3>1. next = "notification" /\ NotificationNode
      BY <2>4, GraphMoves DEF Early
    <3>2. writes' = writes
      BY <1>quiet, <3>1 DEF AutoWrites
    <3>3. CASE state'.error
      BY <3>3
    <3>4. ASSUME NEW n \in mails', n.kind = "final", Names(n, state.integ.old, state.integ.new)
          PROVE  Mailed'
      BY <1>carried, <3>2, <3>4 DEF Carried, Mailed
    <3> QED
      BY <2>1, <3>1, <3>3, <3>4 DEF MailStep
  <2> QED
    BY <2>2, <2>3, <2>4 DEF ReportTells
<1>4. RowTells'
  BY <1>same, <1>row DEF RowTells
<1> QED
  BY <1>1, <1>2, <1>3, <1>4

\* A step that leaves the row, the writes, the report and the e-mails alone.
LEMMA ToldSame ==
  ASSUME ReportTells, RowTells, writes' = writes, mails \subseteq mails', next' = next,
         state'.report = state.report, state'.error = state.error,
         \/ row' = row
         \/ SameRow /\ row'.status = row.status
         \/ row'.status \in {"running", "waiting_human", "failed"}
  PROVE  ReportTells' /\ RowTells'
<1>1. Mailed => Mailed'
  BY DEF Mailed
<1>2. \A r : Reported(r) => \A w \in writes : Change(w) => \/ r.verdict \in {None, "reason"}
                                                           \/ Names(r, w.from, w.to)
  BY DEF Reported
<1>3. ReportTells'
  BY <1>1 DEF ReportTells, Reported
<1>4. RowTells'
  <2>1. CASE row' = row \/ (SameRow /\ row'.status = row.status)
    <3>1. row'.status = row.status /\ row'.report = row.report /\ row'.integ = row.integ
      BY <2>1 DEF SameRow
    <3> QED
      BY <1>1, <3>1 DEF RowTells, Reported, Carried
  <2>2. CASE row'.status \in {"running", "waiting_human", "failed"}
    BY <2>2 DEF RowTells
  <2> QED
    BY <2>1, <2>2
<1> QED
  BY <1>3, <1>4

LEMMA ToldStep ==
  ASSUME TypeOK, StateInv, TaskInv, RealWrites, ToldInv, [Next]_vars
  PROVE  ToldInv'
<1> SUFFICES ASSUME used'.broken = 0
             PROVE  HandlerTells' /\ RequestTells' /\ ReportTells' /\ RowTells'
  BY DEF ToldInv
<1>used. used.broken = 0 /\ used \in UsedType /\ used.broken + 1 # 0
  BY Monotone, BrokenStep DEF TypeOK, UsedType
<1>told. HandlerTells /\ RequestTells /\ ReportTells /\ RowTells
  BY <1>used DEF ToldInv
<1>by. task.by \in {"handler", "request"} /\ "handler" # "request"
  BY DEF TypeOK, Task
<1>1. CASE GraphStep
  BY <1>1, <1>told, ToldGraph
<1>2. CASE Start
  <2>1. /\ task'.by = "handler" /\ task'.pc = "graph" /\ row'.status = "running"
        /\ writes' = writes /\ mails' = mails /\ next' = "planner" /\ state' = InitialState
    BY <1>2, StartType DEF Start, TaskInv
  <2>2. writes = {}
    BY <1>2, <1>told DEF Start, TaskInv, HandlerTells, Early
  <2>3. state'.report.verdict = None
    BY <2>1 DEF InitialState, NoReport
  <2> QED
    BY <2>1, <2>2, <2>3
       DEF HandlerTells, RequestTells, ReportTells, RowTells, Carried, Reported
<1>3. CASE ReadOutcome
  <2>1. /\ task'.by = "handler" /\ task'.pc = "persist" /\ mails \subseteq mails'
        /\ task.by = "handler" /\ task.pc = "graph"
        /\ UNCHANGED <<state, next, row, writes>>
    BY <1>3, ReadOutcomeType DEF ReadOutcome, RunDone
  <2>2. HandlerTells' /\ RequestTells'
    BY <1>told, <2>1 DEF HandlerTells, RequestTells, Carried
  <2> QED
    BY <1>told, <2>1, <2>2, ToldSame
<1>4. CASE PersistOutcome
  <2>1. /\ task'.by = "handler" /\ task'.pc = "commit" /\ task.by = "handler"
        /\ task.pc = "persist" /\ next \in {"human_review", "end"}
        /\ UNCHANGED <<state, next, writes, mails>>
    BY <1>4, PersistType DEF PersistOutcome, TaskInv
  <2>2. /\ row'.integ = state.integ /\ row'.report = StoredReport
        /\ row'.status = IF next # "end" THEN "waiting_human"
                         ELSE IF state.error THEN "failed" ELSE "completed"
    BY <1>4, PersistType
  <2>3. HandlerTells' /\ RequestTells'
    BY <1>told, <2>1, <2>2 DEF HandlerTells, RequestTells, Carried
  <2>4. ReportTells'
    BY <1>told, <2>1 DEF ReportTells, Reported, Mailed
  <2>5. RowTells'
    <3> SUFFICES ASSUME row'.status = "completed"
                 PROVE  Mailed' /\ Reported(row.report)' /\ Carried(row.integ)'
      BY DEF RowTells
    <3>1. Mailed'
      BY <1>told, <2>1, <2>2 DEF ReportTells, Mailed
    <3>2. StoredReport = state.report \/ StoredReport.verdict = "reason"
      BY DEF StoredReport, NoReport
    <3>3. Reported(row.report)'
      BY <1>told, <2>1, <2>2, <3>2 DEF ReportTells, Reported
    <3>4. Carried(row.integ)'
      BY <1>told, <2>1, <2>2 DEF HandlerTells, Carried
    <3> QED
      BY <3>1, <3>3, <3>4
  <2> QED
    BY <2>3, <2>4, <2>5
<1>5. CASE HandlerFails \/ RequestFails \/ Crash
  BY <1>5, <1>used, HandlerFailsType, RequestFailsType, CrashType
<1>6. CASE CommitOffset
  <2>1. /\ task'.by = "request" /\ task'.pc = "idle" /\ task.pc = "commit"
        /\ task.by = "handler" /\ UNCHANGED <<state, next, row, mails, writes>>
    BY <1>6, CommitType DEF CommitOffset, TaskInv
  <2>2. HandlerTells' /\ RequestTells'
    BY <1>told, <2>1 DEF HandlerTells, RequestTells
  <2> QED
    BY <1>told, <2>1, <2>2, ToldSame
<1>7. ASSUME NEW d \in Decision, AcceptDecision(d)
      PROVE  HandlerTells' /\ RequestTells' /\ ReportTells' /\ RowTells'
  <2>1. /\ SameRow /\ row'.status = row.status /\ task'.by = task.by
        /\ task'.decision = d /\ task'.pc \in {"apply", "push"}
        /\ task'.pc = "apply" => d = "approved"
    BY <1>7, AcceptType
  <2>2. /\ task.pc = "idle" /\ task.by = "request"
        /\ UNCHANGED <<state, next, mails, writes>>
    BY <1>7 DEF AcceptDecision, TaskInv
  <2>3. next = "human_review" /\ row.status = "waiting_human" /\ writes = {}
    BY <1>7, <1>told, <2>2 DEF AcceptDecision, RequestTells, Node
  <2>4. HandlerTells' /\ RequestTells'
    BY <2>1, <2>2, <2>3 DEF HandlerTells, RequestTells, Carried
  <2> QED
    BY <1>told, <2>1, <2>2, <2>4, ToldSame
<1>8. CASE ApplyErp
  <2>1. /\ task'.by = task.by /\ task'.pc = "push" /\ task'.decision = task.decision
        /\ \/ writes' = writes
           \/ /\ writes' = writes \cup {HumanWrite}
              /\ task'.integ.old = HumanWrite.from /\ task'.integ.new = HumanWrite.to
    BY <1>8, ApplyType DEF ApplyErp, TaskInv
  <2>2. /\ task.pc = "apply" /\ task.by = "request" /\ UNCHANGED <<state, next, row, mails>>
    BY <1>8 DEF ApplyErp, TaskInv
  <2>3. /\ next = "human_review" /\ row.status = "waiting_human" /\ writes = {}
        /\ task.decision = "approved" /\ state.report.verdict = None
    BY <1>told, <2>2 DEF RequestTells, ReportTells
  <2>4. Carried(task.integ)'
    BY <2>1, <2>3 DEF Carried
  <2>5. HandlerTells' /\ RequestTells'
    BY <2>1, <2>2, <2>3, <2>4 DEF HandlerTells, RequestTells, Early
  <2>6. ReportTells' /\ RowTells'
    BY <2>2, <2>3 DEF ReportTells, Reported, RowTells
  <2> QED
    BY <2>5, <2>6
<1>9. CASE ResumeGraph
  <2>1. /\ task'.by = task.by /\ task'.pc = "graph" /\ state'.decision = task.decision
        /\ state'.report = state.report /\ state'.integ = task.integ
        /\ task'.integ = task.integ /\ task'.decision = task.decision
    BY <1>9, ResumeType
  <2>2. /\ task.pc = "push" /\ task.by = "request" /\ UNCHANGED <<next, row, mails, writes>>
    BY <1>9 DEF ResumeGraph, TaskInv
  <2>3. /\ next = "human_review" /\ row.status = "waiting_human" /\ Carried(task.integ)
        /\ task.decision # "approved" => writes = {}
    BY <1>told, <2>2 DEF RequestTells
  <2>4. HandlerTells' /\ RequestTells'
    BY <2>1, <2>2, <2>3 DEF HandlerTells, RequestTells, Carried, Early
  <2>5. ReportTells' /\ RowTells'
    BY <1>told, <2>1, <2>2, <2>3 DEF ReportTells, Reported, RowTells
  <2> QED
    BY <2>4, <2>5
<1>10. CASE FinishDecision
  <2>1. /\ task'.by = task.by /\ task'.pc = "idle"
        /\ row'.status = IF state.error THEN "failed" ELSE "completed"
        /\ row'.report = state.report
        /\ row'.integ = task.integ \/ row'.integ = state.integ
    BY <1>10, FinishType
  <2>2. /\ task.pc = "graph" /\ task.by = "request" /\ next = "end"
        /\ UNCHANGED <<state, next, mails, writes>>
    BY <1>10 DEF FinishDecision, RunDone, Stopped
  <2>3. Carried(task.integ) /\ state.integ = task.integ
    BY <1>told, <2>2 DEF RequestTells
  <2>4. HandlerTells' /\ RequestTells'
    BY <2>1, <2>2 DEF HandlerTells, RequestTells
  <2>5. ReportTells'
    BY <1>told, <2>2 DEF ReportTells, Reported, Mailed
  <2>6. RowTells'
    BY <1>10, <1>told, <2>1, <2>2, <2>3, FinishType
       DEF RowTells, ReportTells, Reported, Mailed, Carried
  <2> QED
    BY <2>4, <2>5, <2>6
<1>11. CASE OrderChanges \/ UNCHANGED vars
  <2>1. UNCHANGED <<state, next, task, row, mails, writes>>
    BY <1>11 DEF OrderChanges, vars
  <2>2. HandlerTells' /\ RequestTells'
    BY <1>told, <2>1 DEF HandlerTells, RequestTells, Carried
  <2> QED
    BY <1>told, <2>1, <2>2, ToldSame
<1> QED
  BY <1>1, <1>2, <1>3, <1>4, <1>5, <1>6, <1>7, <1>8, <1>9, <1>10, <1>11
     DEF Next, HandlerStep, DecisionStep

CaseInv == TypeOK /\ StateInv /\ TaskInv /\ RowInv /\ WriteInv

LEMMA CaseInvInit == Init => CaseInv
<1> SUFFICES ASSUME Init PROVE CaseInv
  OBVIOUS
<1>1. /\ next = "planner" /\ state = InitialState /\ writes = {} /\ row.integ = NoInteg
      /\ task.pc = "start" /\ task.by = "handler"
  BY DEF Init
<1>2. StateInv
  BY <1>1, NoIntegSupported DEF StateInv, Fresh, Judged, ByPolicy, InitialState, Early
<1>3. TaskInv
  BY <1>1 DEF TaskInv
<1>4. RowInv
  BY <1>1 DEF RowInv, RowSupported, Supported, RowTold, Told, NoInteg
<1>5. WriteInv
  BY <1>1 DEF WriteInv, EvidenceBeforeWrite, ApprovedIsWhatWasShown
<1> QED
  BY <1>2, <1>3, <1>4, <1>5, TypeInit DEF CaseInv

LEMMA CaseInvStep == CaseInv /\ [Next]_vars => CaseInv'
<1> SUFFICES ASSUME CaseInv, [Next]_vars PROVE CaseInv'
  OBVIOUS
<1>1. TypeOK /\ StateInv /\ TaskInv /\ RowInv /\ WriteInv
  BY DEF CaseInv
<1>2. TypeOK'
  BY <1>1, TypeStep
<1>3. StateInv'
  <2>1. CASE Next
    BY <1>1, <1>2, <2>1, StateInvStep
  <2>2. CASE UNCHANGED vars
    BY <1>1, <2>2, StateInvSame DEF vars
  <2> QED
    BY <2>1, <2>2
<1>4. TaskInv' /\ RowInv' /\ WriteInv'
  BY <1>1, TaskInvStep, RowInvStep, WriteInvStep
<1> QED
  BY <1>2, <1>3, <1>4 DEF CaseInv

LEMMA CaseInvAlways == Spec => []CaseInv
BY CaseInvInit, CaseInvStep, PTL DEF Spec

\* Every variable keeps its type; in particular every status written to the ERP
\* is one an order can hold (update_order_status).
THEOREM TypeCorrect == Spec => []TypeOK
<1>1. CaseInv => TypeOK
  BY DEF CaseInv
<1> QED
  BY <1>1, CaseInvAlways, PTL

\* The graph stops for a human exactly in the unsafe cases (should_go_to_human,
\* integration_node).
THEOREM AskedWhenUnsafe == Spec => []AskedExactlyWhenUnsafe
<1>1. CaseInv => AskedExactlyWhenUnsafe
  BY DEF CaseInv, StateInv, ByPolicy, Early, AskedExactlyWhenUnsafe
<1> QED
  BY <1>1, CaseInvAlways, PTL

\* Nothing is written without the evidence that calls for it (integration_node,
\* resume_graph_after_human).
THEOREM WritesHaveEvidence == Spec => []EvidenceBeforeWrite
<1>1. CaseInv => EvidenceBeforeWrite
  BY DEF CaseInv, WriteInv
<1> QED
  BY <1>1, CaseInvAlways, PTL

\* What an approval writes is what the approvers were told (send_hitl_alert,
\* resume_graph_after_human).
THEOREM ApprovedWasShown == Spec => []ApprovedIsWhatWasShown
<1>1. CaseInv => ApprovedIsWhatWasShown
  BY DEF CaseInv, WriteInv
<1> QED
  BY <1>1, CaseInvAlways, PTL

\* No report, e-mail or record names a change that was not made (reporting_node,
\* resume_graph_after_human), whatever fails and whoever changes the order.
THEOREM ClaimsAreReal == Spec => []ClaimedChangesAreReal
<1>1. Init => ClaimInv
  <2> SUFFICES ASSUME Init PROVE ClaimInv
    OBVIOUS
  <2>1. /\ state.integ = NoInteg /\ state.report = NoReport /\ task.integ = NoInteg
        /\ row.integ = NoInteg /\ row.report = NoReport /\ mails = {}
    BY DEF Init, InitialState
  <2>2. NoInteg.old = None /\ NoReport.from = None
    BY DEF NoInteg, NoReport
  <2> QED
    BY <2>1, <2>2, HonestSame DEF ClaimInv
<1>2. CaseInv /\ ClaimInv /\ [Next]_vars => ClaimInv'
  BY ClaimStep DEF CaseInv
<1>3. ClaimInv => ClaimedChangesAreReal
  BY DEF ClaimInv, ClaimedChangesAreReal, Honest, Made, Names
<1> QED
  BY <1>1, <1>2, <1>3, CaseInvAlways, PTL DEF Spec

\* A completed case told every change it made, if all its tasks ended well
\* (notification_node, _persist_outcome, resume_graph_after_human).
THEOREM ChangesAreTold == Spec => []EveryChangeIsTold
<1>1. Init => RealWrites /\ ToldInv
  BY DEF Init, InitialState, NoReport, RealWrites, ToldInv, HandlerTells, RequestTells,
         ReportTells, RowTells, Carried, Reported, Early
<1>2. CaseInv /\ RealWrites /\ ToldInv /\ [Next]_vars => RealWrites' /\ ToldInv'
  BY RealWritesStep, ToldStep DEF CaseInv
<1>3. ToldInv => EveryChangeIsTold
  BY DEF ToldInv, RowTells, Mailed, Reported, Carried, Change, EveryChangeIsTold
<1> QED
  BY <1>1, <1>2, <1>3, CaseInvAlways, PTL DEF Spec

=============================================================================
