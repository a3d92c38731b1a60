--------------------------- MODULE Console_proofs ---------------------------
(***************************************************************************)
(* What the program promises to the console it is made for, for every      *)
(* value of the other constants of Investigation.                          *)
(***************************************************************************)
EXTENDS Investigation_proofs, CaseView

\* The console sends one simulate call at a time, offers a decision only for a
\* case it shows as waiting, and the process does not crash.
Console == SerialSimulate = TRUE /\ FollowUi = TRUE /\ MaxCrashes = 0

-----------------------------------------------------------------------------
(* A case nobody has decided on, because the pipeline is not done with it *)

NotSent(t) == sim[t] \in {"idle", "checked", "inserted", "refused"}
Busy(t)    == handler.pc # "idle" /\ handler.thread = t
Queued(t)  == /\ ~Busy(t)
              /\ \E o \in Orders : \E i \in InTopic(o) : i > committed[o] /\ topic[o][i] = t
InHand(t)  == handler.pc \in {"mark", "start", "graph", "persist", "fail"} /\ handler.thread = t

Untouched(t) == NotSent(t) \/ Queued(t) \/ InHand(t)

\* No request was ever accepted for t.
Undecided(t) == \A r \in Requests : req[r].pc # "idle" => req[r].thread # t

UntouchedEnds == \A t \in Threads : Untouched(t)' => Untouched(t)

LEMMA NoCrash ==
  ASSUME TypeOK, Console
  PROVE  ~Crash
<1>1. used.crashes \in Nat
  BY DEF TypeOK
<1> QED
  BY <1>1 DEF Crash, Console

LEMMA UntouchedFrame ==
  ASSUME UNCHANGED <<sim, topic, committed, handler>>
  PROVE  \A t : Untouched(t)' = Untouched(t)
BY DEF Untouched, NotSent, Queued, Busy, InHand, InTopic

\* A message in hand was stored, and is in hand only once.
LEMMA BusyIsSent ==
  ASSUME TypeInv, QueueInv, NEW t \in Threads, Busy(t)
  PROVE  ~NotSent(t) /\ ~Queued(t)
BY InFlightIsOld DEF Busy, NotSent, Queued

LEMMA UntouchedSimulate ==
  ASSUME TypeInv, QueueInv, NEW t \in Threads, Simulate(t)
  PROVE  UntouchedEnds
<1>types. /\ topic \in [Orders -> Seq(Threads)]
          /\ sim \in [Threads -> {"idle", "checked", "inserted", "published",
                                  "refused", "failed"}]
          /\ Order(t) \in Orders
  BY EventFields DEF TypeInv, TypeOK
<1>1. /\ UNCHANGED <<committed, handler>>
      /\ NotSent(t)
      /\ \A u \in Threads : u # t => sim'[u] = sim[u]
      /\ Deliver(t) \/ UNCHANGED topic
  BY <1>types DEF Simulate, CheckActive, InsertExecution, PublishEvent, MayPublish, PublishFails,
                  NotSent, kafkaVars
<1>2. ASSUME NEW u \in Threads, u # t, Untouched(u)' PROVE Untouched(u)
  <2>1. NotSent(u)' => NotSent(u)
    BY <1>1, <1>2 DEF NotSent
  <2>2. InHand(u)' => InHand(u)
    BY <1>1 DEF InHand
  <2>3. ASSUME Queued(u)' PROVE Queued(u)
    <3>o. PICK o \in Orders : \E i \in 1..Len(topic'[o]) : i > committed[o] /\ topic'[o][i] = u
      BY <1>1, <2>3 DEF Queued, InTopic
    <3>1. PICK i \in 1..Len(topic'[o]) : i > committed[o] /\ topic'[o][i] = u
      BY <3>o
    <3>2. topic'[o] = topic[o] \/ topic'[o] = Append(topic[o], t)
      BY <1>types, <1>1 DEF Deliver
    <3>3. i \in InTopic(o) /\ topic[o][i] = u
      <4>1. topic[o] \in Seq(Threads)
        BY <1>types
      <4> QED
        BY <1>2, <3>1, <3>2, <4>1 DEF InTopic
    <3> QED
      BY <1>1, <2>3, <3>1, <3>3 DEF Queued, Busy
  <2> QED
    BY <1>2, <2>1, <2>2, <2>3 DEF Untouched
<1> QED
  BY <1>1, <1>2 DEF UntouchedEnds, Untouched

LEMMA UntouchedConsumer ==
  ASSUME TypeInv, QueueInv, ConsumerStep
  PROVE  UntouchedEnds
<1>types. /\ topic \in [Orders -> Seq(Threads)]
          /\ committed \in [Orders -> Nat]
          /\ handler \in Handler
          /\ handler.pc # "idle" => handler.thread \in Threads
  BY DEF TypeInv, TypeOK, HandlerBusy
<1>1. ASSUME NEW o \in Orders, Poll(o) PROVE UntouchedEnds
  <2>1. /\ handler.pc = "idle" /\ handler'.pc = "mark"
        /\ handler'.thread = topic[o][committed[o] + 1]
        /\ committed[o] + 1 \in InTopic(o)
        /\ UNCHANGED <<sim, topic, committed>>
    BY <1>1, <1>types, IdleType DEF Poll, InTopic, intakeVars, kafkaVars, Handler
  <2>2. Queued(handler'.thread)
    BY <1>types, <2>1 DEF Queued, Busy
  <2>3. \A t \in Threads : NotSent(t)' = NotSent(t) /\ (Queued(t)' => Queued(t))
    BY <2>1 DEF NotSent, Queued, Busy, InTopic
  <2>4. \A t \in Threads : InHand(t)' => Queued(t)
    BY <2>2 DEF InHand
  <2> QED
    BY <2>3, <2>4 DEF UntouchedEnds, Untouched
<1>2. CASE CommitOffset
  <2> DEFINE h == handler.thread
             u == Order(h)
  <2>1. /\ committed' = [committed EXCEPT ![u] = @ + 1]
        /\ handler'.pc = "idle" /\ handler.pc # "idle"
        /\ UNCHANGED <<sim, topic>>
    BY <1>2, IdleType DEF CommitOffset, MayCommit, Advance, handlerThread, intakeVars
  <2>2. u \in Orders /\ committed[u] + 1 \in InTopic(u) /\ topic[u][committed[u] + 1] = h
    BY <1>types, <2>1, EventFields DEF TypeInv, QueueInv, InFlightIsNext, NextOffset
  <2>3. ASSUME NEW t \in Threads, Queued(t)' PROVE Queued(t)
    <3>o. PICK o \in Orders : \E i \in InTopic(o) : i > committed'[o] /\ topic[o][i] = t
      BY <2>1, <2>3 DEF Queued, InTopic
    <3>1. PICK i \in InTopic(o) : i > committed'[o] /\ topic[o][i] = t
      BY <3>o
    <3>2. i > committed[o] /\ (o = u => i # committed[u] + 1)
      <4>1. committed[o] \in Nat /\ i \in Int
        BY <1>types DEF InTopic
      <4> HIDE DEF u
      <4> QED
        BY <1>types, <2>1, <3>1, <4>1
    <3>3. t # h
      <4>1. t = h => o = u
        BY <3>1 DEF QueueInv, MessagesKeyed
      <4> QED
        BY <2>2, <3>1, <3>2, <4>1 DEF QueueInv, MessagesOnce
    <3> QED
      BY <3>1, <3>2, <3>3 DEF Queued, Busy
  <2>4. \A t : NotSent(t)' = NotSent(t) /\ ~InHand(t)'
    BY <2>1 DEF NotSent, InHand
  <2> QED
    BY <2>3, <2>4 DEF UntouchedEnds, Untouched
<1>3. CASE ~CommitOffset /\ ~\E o \in Orders : Poll(o)
  <2>1. /\ UNCHANGED <<event, sim, topic, committed>>
        /\ handler.pc # "idle" /\ handler'.pc # "idle"
        /\ handler'.thread = handler.thread
    BY <1>3, HandlerFrameVars
  <2>2. \A t : InHand(t)' => InHand(t)
    BY <1>3, <1>types, <2>1
       DEF ConsumerStep, GetGraphFails, MarkRunning, StartGraph, ReadOutcome, PersistOutcome,
           HandlerFails, MarkFailed, MarkFailedFails, PublishToDlq, LoopFails, HandlerTo,
           Handler, InHand
  <2>3. \A t : NotSent(t)' = NotSent(t) /\ Queued(t)' = Queued(t)
    BY <2>1 DEF NotSent, Queued, Busy, InTopic
  <2> QED
    BY <2>2, <2>3 DEF UntouchedEnds, Untouched
<1> QED
  BY <1>1, <1>2, <1>3

LEMMA UntouchedOnlyEnds ==
  ASSUME TypeInv, QueueInv, Console, [Next]_vars
  PROVE  UntouchedEnds
<1>quiet. ASSUME UNCHANGED <<sim, topic, committed, handler>> PROVE UntouchedEnds
  BY <1>quiet, UntouchedFrame DEF UntouchedEnds
<1>1. ASSUME NEW t \in Threads, Simulate(t) PROVE UntouchedEnds
  BY <1>1, UntouchedSimulate
<1>2. CASE ConsumerStep
  BY <1>2, UntouchedConsumer
<1>3. ASSUME NEW a \in Actors, GraphStep(a) PROVE UntouchedEnds
  BY <1>3, <1>quiet, GraphFrameVars DEF graphUnchanged, intakeVars, kafkaVars
<1>4. ASSUME NEW r \in Requests,
             ResumeStep(r) \/ \E t \in Threads, d \in Decision : AcceptDecision(r, t, d)
      PROVE  UntouchedEnds
  BY <1>4, <1>quiet, RequestFrameVars
<1>5. CASE Administration
  BY <1>5, <1>quiet, AdministrationFrameVars
<1>6. CASE Crash
  BY <1>6, NoCrash DEF TypeInv
<1>7. CASE UNCHANGED vars
  BY <1>7, <1>quiet DEF vars
<1> QED
  BY <1>1, <1>2, <1>3, <1>4, <1>5, <1>6, <1>7 DEF Next

-----------------------------------------------------------------------------
(* One active case per order *)

\* Between its check and its insert no other call is in progress, so what the
\* check saw still holds; and no step makes a closed case active again, because
\* the consumer and the requests work on cases that are active already.
UntouchedRuns ==
  \A t \in Threads : Untouched(t) => row[t].status \in {None, "running"} /\ Undecided(t)
RowLast     == \A t \in Threads : sim[t] \in {"idle", "checked", "refused"} => row[t] = NoRow
OneAtATime  == \A t, u \in Threads : InProgress(t) /\ InProgress(u) => t = u
CheckedFree ==
  \A t, u \in Threads : sim[t] = "checked" /\ Order(u) = Order(t) => ~IsActive(u)

ActiveInv == UntouchedRuns /\ RowLast /\ OneAtATime /\ CheckedFree /\ OneActivePerOrder

LEMMA ActiveInit == Init => ActiveInv
BY UnsentType
   DEF Init, ActiveInv, UntouchedRuns, Undecided, RowLast, OneAtATime, InProgress, CheckedFree,
       IsActive, Active, NoRow, None, OneActivePerOrder

\* Outside the simulate endpoint, a row that changes belongs to a case whose
\* message was published, is deleted or is active before if it is active after.
RowGoesOn(t) ==
  \/ row'[t] = row[t]
  \/ row'[t] = NoRow
  \/ /\ ~NotSent(t)
     /\ row'[t].status \in Active => row[t].status \in Active
     /\ Untouched(t)' => row'[t].status \in {None, "running"}

LEMMA ActiveFrame ==
  ASSUME ActiveInv, UntouchedEnds, UNCHANGED <<event, sim>>,
         \A t \in Threads : RowGoesOn(t),
         \A r \in Requests :
           req'[r].pc # "idle" =>
             \/ req[r].pc # "idle" /\ req'[r].thread = req[r].thread
             \/ ~Untouched(req'[r].thread)
  PROVE  ActiveInv'
<1>1. NoRow.status = None /\ None \notin Active
  BY DEF NoRow, None, Active
<1>2. \A t \in Threads : IsActive(t)' => IsActive(t)
  BY <1>1 DEF RowGoesOn, IsActive
<1>3. UntouchedRuns'
  <2> SUFFICES ASSUME NEW t \in Threads, Untouched(t)'
               PROVE  row'[t].status \in {None, "running"} /\ Undecided(t)'
    BY DEF UntouchedRuns
  <2>1. Untouched(t) /\ row[t].status \in {None, "running"} /\ Undecided(t)
    BY DEF UntouchedEnds, ActiveInv, UntouchedRuns
  <2> QED
    BY <1>1, <2>1 DEF RowGoesOn, Undecided
<1>4. RowLast'
  BY DEF ActiveInv, RowLast, RowGoesOn, NotSent
<1>5. OneAtATime' /\ CheckedFree' /\ OneActivePerOrder'
  BY <1>2 DEF ActiveInv, OneAtATime, InProgress, CheckedFree, OneActivePerOrder, Order
<1> QED
  BY <1>3, <1>4, <1>5 DEF ActiveInv

LEMMA ActiveSimulate ==
  ASSUME TypeInv, QueueInv, ActiveInv, Console, NEW t \in Threads, Simulate(t)
  PROVE  ActiveInv'
<1>types. /\ row \in [Threads -> Row]
          /\ sim \in [Threads -> {"idle", "checked", "inserted", "published",
                                  "refused", "failed"}]
  BY DEF TypeInv, TypeOK
<1>ends. UntouchedEnds
  BY UntouchedSimulate
<1>frame. UNCHANGED <<event, req>> /\ \A u \in Threads : u # t => sim'[u] = sim[u]
  BY <1>types DEF Simulate, CheckActive, InsertExecution, PublishEvent, PublishFails
<1>1. CASE CheckActive(t)
  <2>1. /\ sim[t] = "idle"
        /\ \A u \in Threads : ~InProgress(u)
        /\ sim'[t] \in {"checked", "refused"}
        /\ sim'[t] = "checked" => FindActive(t) = {}
        /\ row' = row
    BY <1>1, <1>types DEF CheckActive, Console
  <2>2. UntouchedRuns' /\ RowLast'
    BY <1>ends, <1>frame, <2>1
       DEF ActiveInv, UntouchedRuns, UntouchedEnds, Undecided, RowLast
  <2>3. OneAtATime'
    BY <1>frame, <2>1 DEF OneAtATime, InProgress
  <2>4. CheckedFree'
    <3> SUFFICES ASSUME NEW v \in Threads, NEW u \in Threads, sim'[v] = "checked",
                        Order(u) = Order(v)
                 PROVE  ~IsActive(u)
      BY <1>frame, <2>1 DEF CheckedFree, Order, IsActive
    <3>1. v = t
      BY <1>frame, <2>1 DEF InProgress
    <3> QED
      BY <2>1, <3>1 DEF FindActive
  <2>5. OneActivePerOrder'
    BY <1>frame, <2>1 DEF ActiveInv, OneActivePerOrder, IsActive, Order
  <2> QED
    BY <2>2, <2>3, <2>4, <2>5 DEF ActiveInv
<1>2. CASE InsertExecution(t)
  <2>1. /\ sim[t] = "checked" /\ sim'[t] = "inserted"
        /\ row'[t].status = "running"
        /\ \A u \in Threads : u # t => row'[u] = row[u]
    BY <1>2, <1>types DEF InsertExecution, NoRow
  <2>2. UntouchedRuns' /\ RowLast'
    BY <1>ends, <1>frame, <2>1
       DEF ActiveInv, UntouchedRuns, UntouchedEnds, Undecided, RowLast
  <2>3. OneAtATime'
    BY <1>frame, <2>1 DEF ActiveInv, OneAtATime, InProgress
  <2>4. CheckedFree'
    <3>1. \A v \in Threads : sim'[v] # "checked"
      BY <1>frame, <2>1 DEF ActiveInv, OneAtATime, InProgress
    <3> QED
      BY <3>1 DEF CheckedFree
  <2>5. OneActivePerOrder'
    BY <1>frame, <2>1 DEF ActiveInv, CheckedFree, OneActivePerOrder, IsActive, Order
  <2> QED
    BY <2>2, <2>3, <2>4, <2>5 DEF ActiveInv
<1>3. CASE PublishEvent(t) \/ PublishFails(t)
  <2>1. /\ sim[t] = "inserted" /\ sim'[t] \in {"published", "failed"}
        /\ row' = row
    BY <1>3, <1>types DEF PublishEvent, MayPublish, PublishFails
  <2>2. UntouchedRuns' /\ RowLast'
    BY <1>ends, <1>frame, <2>1
       DEF ActiveInv, UntouchedRuns, UntouchedEnds, Undecided, RowLast
  <2>3. OneAtATime' /\ CheckedFree' /\ OneActivePerOrder'
    BY <1>frame, <2>1
       DEF ActiveInv, OneAtATime, InProgress, CheckedFree, OneActivePerOrder, IsActive, Order
  <2> QED
    BY <2>2, <2>3 DEF ActiveInv
<1> QED
  BY <1>1, <1>2, <1>3 DEF Simulate

\* The consumer changes the row of the case in hand only, which is RUNNING.
LEMMA ActiveConsumer ==
  ASSUME TypeInv, QueueInv, ActiveInv, ConsumerStep
  PROVE  ActiveInv'
<1>types. /\ row \in [Threads -> Row]
          /\ handler \in Handler
          /\ handler.pc # "idle" => handler.thread \in Threads
  BY DEF TypeInv, TypeOK, HandlerBusy
<1>frame. UNCHANGED <<event, sim, req>>
  BY DEF ConsumerStep, Poll, GetGraphFails, MarkRunning, StartGraph, ReadOutcome, PersistOutcome,
         HandlerFails, MarkFailed, MarkFailedFails, PublishToDlq, CommitOffset, LoopFails,
         intakeVars
<1>rows. ASSUME \A t \in Threads : RowGoesOn(t) PROVE ActiveInv'
  BY <1>rows, <1>frame, UntouchedConsumer, ActiveFrame
<1>hand. ASSUME InHand(handler.thread)
         PROVE  /\ ~NotSent(handler.thread) /\ handler.pc # "idle"
                /\ row[handler.thread].status \in {None, "running"}
  BY <1>hand, <1>types, BusyIsSent DEF InHand, Busy, ActiveInv, UntouchedRuns, Untouched
<1>1. CASE MarkRunning
  <2>1. InHand(handler.thread)
    BY <1>1 DEF MarkRunning, InHand
  <2>2. \A t \in Threads : RowGoesOn(t)
    BY <1>1, <1>types, <1>hand, <2>1
       DEF MarkRunning, handlerThread, HasRow, RowGoesOn, Row, Active
  <2> QED
    BY <1>rows, <2>2
<1>2. CASE PersistOutcome
  <2> DEFINE outcome == OutcomeStatus(run[Consumer].values, handler.interrupted)
             integ == run[Consumer].values.integ
  <2>1. InHand(handler.thread)
    BY <1>2 DEF PersistOutcome, InHand
  <2>2. CASE HasRow(handlerThread)
    <3>1. row' = [row EXCEPT ![handler.thread].integ = integ, ![handler.thread].status = outcome]
      BY <1>2, <2>2 DEF PersistOutcome, handlerThread
    <3>2. handler'.pc = "commit" /\ handler'.thread = handler.thread
      BY <1>2, <1>types, <2>2 DEF PersistOutcome, HandlerTo, Handler
    <3>3. \A t \in Threads : t = handler.thread => ~Untouched(t)'
      BY <1>types, <1>hand, <1>frame, <2>1, <3>2 DEF Untouched, Queued, Busy, InHand, NotSent
    <3>4. row[handler.thread].status \in Active
      BY <1>types, <1>hand, <2>1, <2>2 DEF HasRow, handlerThread, Active
    <3>5. \A t \in Threads : t # handler.thread => row'[t] = row[t]
      <4> HIDE DEF outcome, integ
      <4> QED
        BY <1>types, <3>1
    <3> QED
      BY <1>rows, <1>hand, <2>1, <3>3, <3>4, <3>5 DEF RowGoesOn
  <2>3. CASE ~HasRow(handlerThread)
    BY <1>2, <1>rows, <2>3 DEF PersistOutcome, RowGoesOn
  <2> QED
    BY <2>2, <2>3
<1>3. CASE MarkFailed
  <2>1. InHand(handler.thread) /\ handler.pc # "idle"
    BY <1>3 DEF MarkFailed, InHand
  <2>2. handler'.pc = "dlq" /\ handler'.thread = handler.thread
    BY <1>3, <1>types DEF MarkFailed, HandlerTo, Handler
  <2>3. \A t \in Threads : t = handler.thread => ~Untouched(t)'
    BY <1>types, <1>hand, <1>frame, <2>1, <2>2 DEF Untouched, Queued, Busy, InHand, NotSent
  <2>4. \A t \in Threads : RowGoesOn(t)
    BY <1>3, <1>types, <1>hand, <2>1, <2>3
       DEF MarkFailed, handlerThread, HasRow, RowGoesOn, Row, Active
  <2> QED
    BY <1>rows, <2>4
<1>4. CASE ~(MarkRunning \/ PersistOutcome \/ MarkFailed)
  <2>1. row' = row
    BY <1>4 DEF ConsumerStep, Poll, GetGraphFails, StartGraph, ReadOutcome, HandlerFails,
                MarkFailedFails, PublishToDlq, CommitOffset, LoopFails
  <2> QED
    BY <1>rows, <2>1 DEF RowGoesOn
<1> QED
  BY <1>1, <1>2, <1>3, <1>4

\* A request works on a case that was shown as waiting.
LEMMA ActiveResume ==
  ASSUME TypeInv, ActiveInv, NEW r \in Requests, ResumeStep(r)
  PROVE  ActiveInv'
<1> DEFINE t == req[r].thread
<1>types. /\ row \in [Threads -> Row]
          /\ req \in [Requests -> Request]
          /\ req[r].pc # "idle" /\ t \in Threads
  BY DEF TypeInv, TypeOK, RequestsBusy, ResumeStep, RecordDecision, LoadCase, ApplyErp, PushState,
         ResumeGraph, FinishDecision, RequestFails, FailCase
<1>1. UNCHANGED <<event, sim, topic, committed, handler>>
  BY RequestFrameVars
<1>2. ~Untouched(t)
  BY <1>types DEF ActiveInv, UntouchedRuns, Undecided
<1>3. UntouchedEnds /\ \A u \in Threads : u = t => ~Untouched(u)'
  BY <1>1, <1>2, UntouchedFrame DEF UntouchedEnds
<1>4. \A q \in Requests : /\ req'[q].pc # "idle" => req[q].pc # "idle"
                          /\ req'[q].thread = req[q].thread
  BY <1>types DEF ResumeStep, RecordDecision, LoadCase, ApplyErp, PushState, ResumeGraph,
                  FinishDecision, RequestFails, FailCase, RequestTo, Request
<1>5. \A u \in Threads : u # t => row'[u] = row[u]
  BY <1>types DEF ResumeStep, RecordDecision, LoadCase, ApplyErp, PushState, ResumeGraph,
                  FinishDecision, RequestFails, FailCase
<1>6. row'[t].status \in {row[t].status, "completed", "failed"}
  BY <1>types DEF ResumeStep, RecordDecision, Decided, LoadCase, ApplyErp, PushState,
                  ResumeGraph, FinishDecision, FinalStatus, RequestFails, FailCase, Row
<1>7. \A u \in Threads : RowGoesOn(u)
  BY <1>2, <1>3, <1>5, <1>6 DEF RowGoesOn, Untouched, Active
<1> QED
  BY <1>1, <1>3, <1>4, <1>7, ActiveFrame

LEMMA ActiveInvariant ==
  ASSUME Console
  PROVE  Spec => []ActiveInv
<1>1. ASSUME TypeInv, QueueInv, ActiveInv, [Next]_vars
      PROVE  ActiveInv'
  <2>ends. UntouchedEnds
    BY <1>1, UntouchedOnlyEnds
  <2>quiet. ASSUME UNCHANGED <<event, sim, row, req>> PROVE ActiveInv'
    BY <1>1, <2>ends, <2>quiet, ActiveFrame DEF RowGoesOn
  <2>1. ASSUME NEW t \in Threads, Simulate(t) PROVE ActiveInv'
    BY <1>1, <2>1, ActiveSimulate
  <2>2. CASE ConsumerStep
    BY <1>1, <2>2, ActiveConsumer
  <2>3. ASSUME NEW a \in Actors, GraphStep(a) PROVE ActiveInv'
    BY <2>3, <2>quiet, GraphFrameVars DEF graphUnchanged, intakeVars
  <2>4. ASSUME NEW r \in Requests, NEW t \in Threads, NEW d \in Decision, AcceptDecision(r, t, d)
        PROVE  ActiveInv'
    <3>1. /\ row[t].status = "waiting_human"
          /\ req' = [req EXCEPT ![r] = [Unsent EXCEPT !.pc = "accepted", !.thread = t,
                                                      !.decision = d]]
          /\ UNCHANGED <<event, sim, row>>
      BY <2>4 DEF AcceptDecision, OfferedByUi, Console, intakeVars
    <3>2. ~Untouched(t)
      BY <1>1, <3>1 DEF ActiveInv, UntouchedRuns, None
    <3>3. req \in [Requests -> Request]
      BY <1>1 DEF TypeInv, TypeOK
    <3>4. \A q \in Requests : q # r => req'[q] = req[q]
      BY <3>1, <3>3
    <3>5. req'[r].thread = t
      BY <3>1, <3>3, UnsentType DEF Request
    <3> QED
      BY <1>1, <2>ends, <3>1, <3>2, <3>4, <3>5, ActiveFrame DEF RowGoesOn
  <2>5. ASSUME NEW r \in Requests, ResumeStep(r) PROVE ActiveInv'
    BY <1>1, <2>5, ActiveResume
  <2>6. CASE Administration
    <3>1. UNCHANGED <<event, sim, req>> /\ \A t \in Threads : row'[t] = row[t] \/ row'[t] = NoRow
      BY <2>6 DEF Administration, ResetInvestigations, DeleteCases, ResetErpOrders, FeedErpOrder,
                  intakeVars
    <3> QED
      BY <1>1, <2>ends, <3>1, ActiveFrame DEF RowGoesOn
  <2>7. CASE Crash
    BY <1>1, <2>7, NoCrash DEF TypeInv
  <2>8. CASE UNCHANGED vars
    BY <2>8, <2>quiet DEF vars
  <2> QED
    BY <1>1, <2>1, <2>2, <2>3, <2>4, <2>5, <2>6, <2>7, <2>8 DEF Next
<1> QED
  BY ActiveInit, TypeInvariant, QueueInvariant, <1>1, PTL DEF Spec

\* api.py:365, "Blocks duplicate active investigations for the same order_number":
\* for any number of cases, decisions, failures and resets, if the console sends
\* one simulate call at a time, decides on waiting cases only and the process
\* does not crash.  A crash replays a message and runs a closed case again; two
\* calls at a time both pass the check.
THEOREM OneActive ==
  ASSUME Console
  PROVE  Spec => []OneActivePerOrder
BY ActiveInvariant, PTL DEF ActiveInv

-----------------------------------------------------------------------------
(* The stages of a case *)

\* The environment of the results below: nobody decides twice on one case.  The
\* endpoint would let two decisions in while the row shows it as waiting.
Decider(r, t) == req[r].pc # "idle" /\ req[r].thread = t
DecidedOnce ==
  \A r, s \in Requests : \A t \in Threads : Decider(r, t) /\ Decider(s, t) => r = s

\* The consumer was not given the case, or has not started its graph yet.
Started(t)   == handler.pc \in {"graph", "persist", "fail"} /\ handler.thread = t
Unstarted(t) == Untouched(t) /\ ~Started(t)

NoWrites(t)   == \A w \in writes : w.thread # t
Mailed(t, hitl, final) == mail[t].hitl = hitl /\ mail[t].final = final

\* The final e-mails of a run: one when the notification node succeeded.
FinalsOf(a) == IF run[a].next = "end" /\ ~run[a].values.error THEN 1 ELSE 0

\* a runs the graph of t, and the checkpoint is that of its last node.
SavedRun(a, t) ==
  /\ run[a].thread = t
  /\ run[a].next # None
  /\ ~run[a].dirty => cp[t].next = run[a].next /\ cp[t].values = run[a].values

\* Before its graph ran a case has changed nothing.
BeforeGraph(t) ==
  /\ Unstarted(t) => cp[t].next = None
  /\ cp[t].next = None => NoWrites(t) /\ Mailed(t, 0, 0)

\* While the consumer runs the graph and records its outcome: nothing was
\* written as long as the run may still ask, and an alert was sent if it did.
Investigating == handler.pc \in {"graph", "persist"}
MayAsk        == {"planner", "research", "browser", "integration", "human_review"}
InGraph(t) ==
  Investigating /\ handler.thread = t =>
    /\ SavedRun(Consumer, t) /\ ~run[Consumer].resumed
    /\ Mailed(t, IF handler.pc = "persist" /\ handler.interrupted THEN 1 ELSE 0,
              FinalsOf(Consumer))
    /\ run[Consumer].next \in MayAsk => NoWrites(t)
    /\ handler.pc = "persist" =>
         /\ RunDone(Consumer)
         /\ handler.interrupted = (run[Consumer].next = "human_review")

\* While the case waits, and until a decision resumes it.
IsAsked(t)   == cp[t].next = "human_review" /\ Mailed(t, 1, 0)
IsWaiting(t) == row[t].status = "waiting_human" /\ Undecided(t) => IsAsked(t)

\* The request that decides on the case.
Deciding(r, t) ==
  /\ req[r].decision \in {"approved", "rejected"}
  /\ req[r].pc \in {"accepted", "load", "apply", "push", "resume"} => IsAsked(t)
  /\ req[r].pc = "apply" => req[r].decision = "approved"
  /\ req[r].pc = "graph" =>
       /\ SavedRun(r, t)
       /\ run[r].next \in {"human_review", "reporting", "notification", "end"}
       /\ run[r].next = "human_review" => run[r].resumed
       /\ Mailed(t, 1, FinalsOf(r))
  /\ row[t].status \in IF req[r].pc = "done" THEN {"completed", "failed", None}
                                             ELSE {"waiting_human", None}
  /\ req[r].pc # "accepted" /\ HasRow(t) => row[t].decision = req[r].decision

Requested(t) == \A r \in Requests : Decider(r, t) => Deciding(r, t)

\* A decision in the row is that of a request.
RowAsked(t) ==
  /\ ~HasRow(t) => row[t] = NoRow
  /\ row[t].decision # None => \E r \in Requests : Decider(r, t) /\ req[r].pc # "accepted"

\* Who changed the order: the pipeline for a case nobody decides on, or the
\* approval of the case.
Settling == {"push", "resume", "graph", "fail", "done"}
Author(t) ==
  \A w \in writes :
    w.thread = t =>
      IF w.by = "auto"
        THEN Undecided(t) /\ row[t].status # "waiting_human"
        ELSE /\ Decider(w.by, t)
             /\ req[w.by].decision = "approved"
             /\ req[w.by].pc \in Settling

Reported(t) ==
  row[t].status = "completed" => Mailed(t, IF row[t].decision = None THEN 0 ELSE 1, 1)

CaseOk(t) ==
  /\ BeforeGraph(t) /\ InGraph(t) /\ IsWaiting(t) /\ Requested(t)
  /\ RowAsked(t) /\ Author(t) /\ Reported(t)

\* A graph step belongs to the handler or to a request that runs the graph.
RunsLive ==
  /\ handler.pc = "graph" \/ run[Consumer].next = None \/ RunDone(Consumer)
  /\ \A r \in Requests : req[r].pc = "graph" \/ run[r].next = None

CaseInv == RunsLive /\ \A t \in Threads : CaseOk(t)

LEMMA CaseInit == Init => CaseInv
<1> SUFFICES ASSUME Init PROVE CaseInv
  OBVIOUS
<1>consts. /\ NoRow.status = None /\ NoRow.decision = None
           /\ NoCheckpoint.next = None
           /\ None \notin {"waiting_human", "completed", "human_review"}
  BY DEF NoRow, NoCheckpoint, None
<1>1. RunsLive
  BY NoRunType DEF Init, RunsLive, Actors
<1>2. ASSUME NEW t \in Threads PROVE CaseOk(t)
  <2>1. /\ row[t] = NoRow /\ cp[t] = NoCheckpoint
        /\ mail[t].hitl = 0 /\ mail[t].final = 0
        /\ writes = {} /\ handler.pc = "idle"
        /\ \A r \in Requests : req[r].pc = "idle"
    BY IdleType, UnsentType DEF Init
  <2> QED
    BY <1>consts, <2>1
       DEF CaseOk, BeforeGraph, NoWrites, Mailed, InGraph, Investigating, IsWaiting, Requested,
           Decider, RowAsked, HasRow, Author, Reported
<1> QED
  BY <1>1, <1>2 DEF CaseInv

LEMMA UnstartedOnlyEnds ==
  ASSUME TypeInv, QueueInv, Console, [Next]_vars
  PROVE  \A t \in Threads : Unstarted(t)' => Unstarted(t)
<1>types. handler \in Handler /\ (handler.pc # "idle" => handler.thread \in Threads)
  BY DEF TypeInv, TypeOK, HandlerBusy
<1>ends. UntouchedEnds
  BY UntouchedOnlyEnds
<1>1. CASE ConsumerStep
  <2> SUFFICES ASSUME NEW t \in Threads, Started(t), ~Started(t)'
               PROVE  ~Untouched(t)'
    BY <1>ends DEF UntouchedEnds, Unstarted
  <2>1. ~CommitOffset /\ ~\E o \in Orders : Poll(o)
    BY DEF Started, CommitOffset, MayCommit, Poll
  <2>2. /\ UNCHANGED sim
        /\ handler.thread = t /\ handler'.thread = t
        /\ handler.pc # "idle" /\ handler'.pc # "idle"
    BY <1>1, <2>1, HandlerFrameVars DEF Started
  <2>3. handler'.pc \in {"commit", "dlq"}
    BY <1>1, <1>types, <2>2
       DEF Started, ConsumerStep, Poll, GetGraphFails, MarkRunning, StartGraph, ReadOutcome,
           PersistOutcome, HandlerFails, MarkFailed, MarkFailedFails, PublishToDlq, CommitOffset,
           MayCommit, LoopFails, HandlerTo, Handler
  <2>4. ~NotSent(t)
    BY <2>2, BusyIsSent DEF Busy
  <2> QED
    BY <2>2, <2>3, <2>4 DEF Untouched, NotSent, Queued, Busy, InHand
<1>2. CASE UNCHANGED handler
  BY <1>2, <1>ends DEF UntouchedEnds, Unstarted, Started
<1>3. ConsumerStep \/ UNCHANGED handler
  BY GraphFrameVars, RequestFrameVars, AdministrationFrameVars, NoCrash
     DEF TypeInv, Next, vars, Simulate, CheckActive, InsertExecution, PublishEvent, PublishFails,
         graphUnchanged
<1> QED
  BY <1>1, <1>2, <1>3

\* A step that does not concern case t.
LEMMA CaseFrame ==
  ASSUME TypeOK, NEW t \in Threads, CaseOk(t), Unstarted(t)' => Unstarted(t),
         row'[t] = row[t] \/ row'[t] = NoRow,
         UNCHANGED <<cp[t], mail[t]>>,
         \A w : w.thread = t => (w \in writes' <=> w \in writes),
         \/ UNCHANGED <<handler, run[Consumer]>>
         \/ ~(handler'.pc \in {"graph", "persist"} /\ handler'.thread = t),
         \A r \in Requests : UNCHANGED <<req[r], run[r]>> \/ (~Decider(r, t) /\ ~Decider(r, t)')
  PROVE  CaseOk(t)'
<1>row. NoRow.status = None /\ NoRow.decision = None
  BY DEF NoRow
<1>none. None \notin {"running", "waiting_human", "completed", "failed"}
  BY DEF None
<1>has. HasRow(t)' => row'[t] = row[t]
  BY <1>row DEF HasRow
<1>who. /\ \A r \in Requests : Decider(r, t)' = Decider(r, t)
        /\ Undecided(t)' = Undecided(t)
        /\ NoWrites(t) => NoWrites(t)'
  BY DEF Decider, Undecided, NoWrites
<1>ask. IsAsked(t)' = IsAsked(t) /\ \A h, f : Mailed(t, h, f)' = Mailed(t, h, f)
  BY DEF IsAsked, Mailed
<1>1. BeforeGraph(t)'
  BY <1>who DEF CaseOk, BeforeGraph, Mailed
<1>2. InGraph(t)'
  BY <1>who DEF CaseOk, InGraph, Investigating, SavedRun, Mailed, FinalsOf, RunDone
<1>3. IsWaiting(t)'
  BY <1>row, <1>none, <1>has, <1>who, <1>ask DEF CaseOk, IsWaiting, HasRow
<1>4. Requested(t)'
  <2> SUFFICES ASSUME NEW r \in Requests, Decider(r, t)
               PROVE  Deciding(r, t)'
    BY <1>who DEF Requested
  <2>1. Deciding(r, t) /\ UNCHANGED <<req[r], run[r]>>
    BY DEF CaseOk, Requested
  <2> QED
    BY <1>row, <1>has, <2>1 DEF Deciding, IsAsked, Mailed, SavedRun, FinalsOf, HasRow
<1>5. RowAsked(t)'
  BY <1>row, <1>has DEF CaseOk, RowAsked, HasRow, Decider
<1>6. Author(t)'
  <2> SUFFICES ASSUME NEW w \in writes', w.thread = t
               PROVE  IF w.by = "auto"
                        THEN Undecided(t) /\ row'[t].status # "waiting_human"
                        ELSE /\ Decider(w.by, t)'
                             /\ req'[w.by].decision = "approved"
                             /\ req'[w.by].pc \in Settling
    BY <1>who DEF Author
  <2>1. w \in writes /\ (w.by # "auto" => w.by \in Requests)
    BY DEF TypeOK
  <2>2. CASE w.by = "auto"
    BY <1>row, <1>none, <1>who, <2>1, <2>2 DEF CaseOk, Author
  <2>3. CASE w.by # "auto"
    <3> DEFINE q == w.by
    <3>1. /\ q \in Requests
          /\ Decider(q, t) /\ req[q].decision = "approved"
          /\ req[q].pc \in Settling
      BY <2>1, <2>3 DEF CaseOk, Author
    <3> HIDE DEF q
    <3>2. Decider(q, t)' /\ req'[q] = req[q]
      BY <1>who, <3>1
    <3> QED
      BY <2>3, <3>1, <3>2 DEF q
  <2> QED
    BY <2>2, <2>3
<1>7. Reported(t)'
  BY <1>row, <1>none, <1>ask DEF CaseOk, Reported
<1> QED
  BY <1>1, <1>2, <1>3, <1>4, <1>5, <1>6, <1>7 DEF CaseOk

-----------------------------------------------------------------------------
(* What a step of the graph does to the case it runs *)

\* The run moves to node next with these values; the checkpoint follows unless
\* the run is dirty.
RunMove(a, next, values) ==
  /\ run'[a].thread = run[a].thread
  /\ run'[a].next = next /\ run'[a].values = values
  /\ \A b \in Actors : b # a => run'[b] = run[b]
  /\ \A u \in Threads : u # run[a].thread => cp'[u] = cp[u]
  /\ IF run'[a].dirty THEN cp' = cp
                      ELSE /\ cp'[run[a].thread].next = next
                           /\ cp'[run[a].thread].values = values

LEMMA NodeMoves ==
  ASSUME TypeInv, NEW a \in Actors, NEW n \in Node, AtNode(a, n),
         NEW values, NEW next, NodeDone(a, values, next) \/ NodeSaved(a, values, next)
  PROVE  RunMove(a, next, values) /\ ~run'[a].resumed
<1>1. /\ run \in [Actors -> Run] /\ cp \in [Threads -> Checkpoint]
      /\ run[a] \in Run /\ run[a].thread \in Threads /\ ~run[a].dirty
  BY AtNodeType DEF TypeInv, TypeOK, AtNode
<1>2. CASE NodeDone(a, values, next)
  <2> DEFINE new == [run[a] EXCEPT !.values = values, !.next = next, !.dirty = TRUE,
                                   !.resumed = FALSE]
  <2>1. run' = [run EXCEPT ![a] = new] /\ cp' = cp
    BY <1>2 DEF NodeDone
  <2>2. /\ new.thread = run[a].thread /\ new.next = next /\ new.values = values
        /\ new.dirty /\ ~new.resumed
    BY <1>1 DEF Run
  <2> HIDE DEF new
  <2> QED
    BY <1>1, <2>1, <2>2 DEF RunMove
<1>3. CASE NodeSaved(a, values, next)
  <2> DEFINE new == [run[a] EXCEPT !.values = values, !.next = next, !.resumed = FALSE]
             point == [next |-> next, values |-> values]
  <2>1. run' = [run EXCEPT ![a] = new] /\ cp' = [cp EXCEPT ![run[a].thread] = point]
    BY <1>3 DEF NodeSaved
  <2>2. /\ new.thread = run[a].thread /\ new.next = next /\ new.values = values
        /\ ~new.dirty /\ ~new.resumed
        /\ point.next = next /\ point.values = values
    BY <1>1 DEF Run
  <2> HIDE DEF new, point
  <2> QED
    BY <1>1, <2>1, <2>2 DEF RunMove
<1> QED
  BY <1>2, <1>3

\* A case the policy settles without a human does not go to one.
LEMMA AutoReports ==
  ASSUME TypeInv, NEW a \in Actors, NEW n \in Node, AtNode(a, n), ~PolicyOf(a).requires_human
  PROVE  AfterIntegration(a) = "reporting"
<1> DEFINE v == run[a].values
           severity == event[run[a].thread].severity
<1>1. v.confidence \in Confidence
  BY AtNodeType DEF Values
<1>2. v.confidence # NoConfidence
  BY <1>1 DEF Confidence, NoConfidence
<1>3. ~RequiresHuman(Readable(v.portal), severity, v.confidence)
  BY <1>2 DEF PolicyOf, EvaluateMismatch
<1> QED
  BY <1>3 DEF RequiresHuman, AfterIntegration, ShouldGoToHuman

\* Where a node leads, what it sends and what it writes.
NodeEffect(a, n) ==
  LET t == run[a].thread
  IN  /\ n \in Node
      /\ \E next, values : RunMove(a, next, values)
      /\ ~run'[a].resumed
      /\ run'[a].next \in IF n = "integration" THEN {"human_review", "reporting"}
                                               ELSE {Successor(n)}
      /\ \A u \in Threads : u # t => mail'[u] = mail[u]
      /\ mail'[t].hitl = mail[t].hitl
      /\ IF n = "notification"
           THEN mail'[t].final = mail[t].final + (IF run'[a].values.error THEN 0 ELSE 1)
           ELSE mail'[t] = mail[t]
      /\ \/ writes' = writes
         \/ /\ n = "integration" /\ run'[a].next = "reporting"
            /\ \E w : writes' = writes \cup {w} /\ w.thread = t /\ w.by = "auto"

\* A step of the graph executes a node, or writes the checkpoint of the last one.
SavesRun(a) ==
  /\ run[a].dirty
  /\ RunMove(a, run[a].next, run[a].values)
  /\ ~run'[a].dirty /\ run'[a].resumed = run[a].resumed
  /\ UNCHANGED <<mail, writes>>

LEMMA GraphEffect ==
  ASSUME TypeInv, NEW a \in Actors, GraphStep(a)
  PROVE  SavesRun(a) \/ \E n \in Node : AtNode(a, n) /\ NodeEffect(a, n)
<1> DEFINE v == run[a].values
           t == run[a].thread
<1>node. {"planner", "research", "browser", "integration", "human_review",
          "reporting", "notification"} \subseteq Node
  BY DEF Node
<1>types. mail \in [Threads -> [hitl : Nat, final : Nat]]
  BY DEF TypeInv, TypeOK
<1>at. ASSUME NEW n \in Node, AtNode(a, n) PROVE t \in Threads /\ v \in Values
  BY <1>at, AtNodeType
<1>error. ASSUME NEW n \in Node, AtNode(a, n)
          PROVE  ~Succeeded(v).error /\ Failed(v).error
  BY <1>error, <1>at DEF Succeeded, Failed, Values
\* A node that sends nothing and writes nothing.
<1>quiet. ASSUME NEW n \in Node, AtNode(a, n), n # "notification", NEW values, NEW next,
                 NodeDone(a, values, next) \/ NodeSaved(a, values, next),
                 next \in IF n = "integration" THEN {"human_review", "reporting"}
                                               ELSE {Successor(n)},
                 UNCHANGED <<mail, writes>>
          PROVE  NodeEffect(a, n)
  <2>1. RunMove(a, next, values) /\ ~run'[a].resumed
    BY <1>quiet, NodeMoves
  <2>2. run'[a].next = next
    BY <2>1 DEF RunMove
  <2> QED
    BY <1>quiet, <2>1, <2>2 DEF NodeEffect
<1>after. AfterIntegration(a) \in {"human_review", "reporting"}
  BY DEF AfterIntegration, ShouldGoToHuman
<1>1. CASE PlannerNode(a)
  BY <1>1, <1>node, <1>quiet DEF PlannerNode, erpVars
<1>2. CASE ResearchNode(a)
  BY <1>2, <1>node, <1>quiet DEF ResearchNode, erpVars
<1>3. CASE BrowserNode(a)
  <2> DEFINE Evidence(portal) ==
               Succeeded([v EXCEPT
                            !.portal = portal,
                            !.confidence = ComputeConfidence(v.erp # "missing",
                                                             Readable(portal), FALSE, portal)])
  <2>1. /\ AtNode(a, "browser")
        /\ \/ NodeSaved(a, Evidence(event[t].portal), Successor("browser"))
           \/ NodeSaved(a, Evidence("error_collecting_data"), Successor("browser"))
        /\ UNCHANGED <<mail, writes>>
    BY <1>3 DEF BrowserNode, erpVars
  <2> HIDE DEF Evidence
  <2> QED
    BY <1>node, <1>quiet, <2>1
<1>4. CASE IntegrationPending(a)
  BY <1>4, <1>node, <1>quiet, <1>after DEF IntegrationPending, erpVars
<1>5. CASE IntegrationAuto(a)
  <2> DEFINE rec == PolicyOf(a).recommended
             new == IF rec # None THEN rec ELSE SeenStatus(a)
             write == [thread |-> t, by |-> "auto", seen |-> SeenStatus(a),
                       from |-> erp[Order(t)], to |-> new]
  <2>1. AtNode(a, "integration") /\ mail' = mail
    BY <1>5 DEF IntegrationAuto
  <2>2. AfterIntegration(a) = "reporting"
    BY <1>5, <1>node, <2>1, AutoReports DEF IntegrationAuto
  <2>3. \E values : NodeDone(a, values, AfterIntegration(a))
    BY <1>5 DEF IntegrationAuto
  <2>4. PICK values : NodeDone(a, values, AfterIntegration(a))
    BY <2>3
  <2>5. RunMove(a, AfterIntegration(a), values) /\ ~run'[a].resumed
    BY <1>node, <2>1, <2>4, NodeMoves
  <2>6. run'[a].next = "reporting"
    BY <2>2, <2>5 DEF RunMove
  <2>7. writes' = writes \/ writes' = writes \cup {write}
    BY <1>5 DEF IntegrationAuto, UpdateOrderStatus, SetOrder, erpVars
  <2>8. write.thread = t /\ write.by = "auto"
    OBVIOUS
  <2> HIDE DEF write
  <2> QED
    BY <1>node, <2>1, <2>5, <2>6, <2>7, <2>8 DEF NodeEffect
<1>6. CASE HumanReviewNode(a)
  BY <1>6, <1>node, <1>quiet DEF HumanReviewNode, erpVars
<1>7. CASE ReportingNode(a)
  BY <1>7, <1>node, <1>quiet DEF ReportingNode, erpVars
<1>8. CASE NotificationNode(a)
  <2>1. /\ AtNode(a, "notification")
        /\ NodeDone(a, Succeeded(v), Successor("notification"))
        /\ mail' = [mail EXCEPT ![t].final = @ + 1]
        /\ writes' = writes
    BY <1>8 DEF NotificationNode, SendFinalNotification, erpVars
  <2>2. RunMove(a, Successor("notification"), Succeeded(v)) /\ ~run'[a].resumed
    BY <1>node, <2>1, NodeMoves
  <2>3. run'[a].next = Successor("notification") /\ ~run'[a].values.error
    BY <1>node, <1>error, <2>1, <2>2 DEF RunMove
  <2>4. /\ \A u \in Threads : u # t => mail'[u] = mail[u]
        /\ mail'[t].hitl = mail[t].hitl /\ mail'[t].final = mail[t].final + 1
    BY <1>types, <1>node, <1>at, <2>1
  <2> QED
    BY <1>node, <2>1, <2>2, <2>3, <2>4 DEF NodeEffect
<1>9. CASE NodeFails(a)
  <2>1. PICK n \in Node \ {"human_review", "integration"} :
          /\ AtNode(a, n)
          /\ NodeSaved(a, IF n = "browser" THEN [Failed(v) EXCEPT !.confidence = 35]
                                          ELSE Failed(v), Successor(n))
    BY <1>9 DEF NodeFails
  <2>2. UNCHANGED <<mail, writes>>
    BY <1>9 DEF NodeFails, erpVars
  <2>3. CASE n # "notification"
    BY <1>quiet, <2>1, <2>2, <2>3
  <2>4. CASE n = "notification"
    <3>1. NodeSaved(a, Failed(v), Successor(n))
      BY <2>1, <2>4
    <3>2. RunMove(a, Successor(n), Failed(v)) /\ ~run'[a].resumed
      BY <2>1, <3>1, NodeMoves
    <3>3. run'[a].next = Successor(n) /\ run'[a].values.error
      BY <1>error, <2>1, <3>2 DEF RunMove
    <3>4. mail[t].final + 0 = mail[t].final
      BY <1>types, <1>at, <2>1
    <3> QED
      BY <2>1, <2>2, <2>4, <3>2, <3>3, <3>4 DEF NodeEffect
  <2> QED
    BY <2>1, <2>3, <2>4
<1>10. CASE IntegrationFails(a)
  BY <1>10, <1>node, <1>quiet, <1>after DEF IntegrationFails, erpVars
<1>11. CASE SaveCheckpoint(a)
  <2> DEFINE point == [next |-> run[a].next, values |-> run[a].values]
  <2>1. /\ run \in [Actors -> Run] /\ cp \in [Threads -> Checkpoint] /\ t \in Threads
    BY <1>11 DEF SaveCheckpoint, TypeInv, TypeOK, RunsBusy
  <2>2. run' = [run EXCEPT ![a].dirty = FALSE] /\ cp' = [cp EXCEPT ![t] = point]
    BY <1>11 DEF SaveCheckpoint
  <2>3. /\ run'[a].thread = t /\ run'[a].next = run[a].next /\ run'[a].values = v
        /\ ~run'[a].dirty /\ run'[a].resumed = run[a].resumed
        /\ \A b \in Actors : b # a => run'[b] = run[b]
    BY <2>1, <2>2 DEF Run
  <2>4. point.next = run[a].next /\ point.values = v
    OBVIOUS
  <2>5. run[a].dirty /\ UNCHANGED <<mail, writes>>
    BY <1>11 DEF SaveCheckpoint, erpVars
  <2> HIDE DEF point
  <2> QED
    BY <2>1, <2>2, <2>3, <2>4, <2>5 DEF SavesRun, RunMove
<1> QED
  BY <1>1, <1>2, <1>3, <1>4, <1>5, <1>6, <1>7, <1>8, <1>9, <1>10, <1>11 DEF GraphStep

\* Who takes a graph step is at it: the handler in its graph, or the request.
Runner(a, t) ==
  \/ a = Consumer /\ handler.pc = "graph" /\ handler.thread = t
  \/ a \in Requests /\ req[a].pc = "graph" /\ Decider(a, t)

LEMMA RunnerRuns ==
  ASSUME TypeInv, CaseInv, NEW a \in Actors, GraphStep(a)
  PROVE  /\ run[a].thread \in Threads
         /\ Runner(a, run[a].thread)
         /\ SavedRun(a, run[a].thread)
<1>1. run[a].next # None /\ ~RunDone(a)
  <2>1. CASE run[a].dirty
    BY <2>1 DEF TypeInv, RunsBusy, RunDone
  <2>2. CASE ~run[a].dirty
    <3>1. PICK n \in Node : AtNode(a, n)
      BY <2>2, GraphEffect DEF SavesRun
    <3> QED
      BY <3>1 DEF AtNode, Node, None
  <2> QED
    BY <2>1, <2>2
<1>2. CASE a = Consumer
  <2>1. handler.pc = "graph"
    BY <1>1, <1>2 DEF CaseInv, RunsLive
  <2>2. handler.thread \in Threads
    BY <2>1 DEF TypeInv, HandlerBusy
  <2>3. SavedRun(a, handler.thread)
    BY <1>2, <2>1, <2>2 DEF CaseInv, CaseOk, InGraph, Investigating
  <2> QED
    BY <1>2, <2>1, <2>2, <2>3 DEF SavedRun, Runner
<1>3. CASE a # Consumer
  <2>1. a \in Requests /\ req[a].pc = "graph"
    BY <1>1, <1>3 DEF CaseInv, RunsLive, Actors
  <2>2. req[a].thread \in Threads
    BY <2>1 DEF TypeInv, RequestsBusy
  <2>3. SavedRun(a, req[a].thread) /\ Decider(a, req[a].thread)
    BY <2>1, <2>2 DEF CaseInv, CaseOk, Requested, Decider, Deciding
  <2> QED
    BY <2>1, <2>2, <2>3 DEF SavedRun, Runner
<1> QED
  BY <1>2, <1>3

LEMMA LiveInvariant ==
  ASSUME TypeInv, CaseInv, Console, [Next]_vars
  PROVE  RunsLive'
<1>types. /\ run \in [Actors -> Run]
          /\ req \in [Requests -> Request]
          /\ handler \in Handler
          /\ Consumer \in Actors /\ Consumer \notin Requests /\ Requests \subseteq Actors
  BY ActorAssumption DEF TypeInv, TypeOK, Actors
<1>live. RunsLive
  BY DEF CaseInv
<1>same. ASSUME UNCHANGED <<handler, run, req>> PROVE RunsLive'
  BY <1>same, <1>live DEF RunsLive, RunDone
<1>1. ASSUME NEW t \in Threads, Simulate(t) PROVE RunsLive'
  BY <1>1, <1>same DEF Simulate, CheckActive, InsertExecution, PublishEvent, PublishFails
<1>2. CASE ConsumerStep
  <2>1. req' = req /\ \A r \in Requests : run'[r] = run[r]
    BY <1>2, <1>types
       DEF ConsumerStep, Poll, GetGraphFails, MarkRunning, StartGraph, ReadOutcome, PersistOutcome,
           HandlerFails, MarkFailed, MarkFailedFails, PublishToDlq, CommitOffset, LoopFails
  <2>2. CASE StartGraph
    <3>1. handler'.pc = "graph"
      BY <2>2, <1>types DEF StartGraph, HandlerTo, Handler
    <3> QED
      BY <2>1, <3>1, <1>live DEF RunsLive
  <2>3. CASE HandlerFails \/ CommitOffset
    <3>1. run'[Consumer] = NoRun
      BY <2>3, <1>types DEF HandlerFails, CommitOffset
    <3> QED
      BY <2>1, <3>1, <1>live, NoRunType DEF RunsLive
  <2>4. CASE ReadOutcome
    BY <2>1, <2>4, <1>live DEF ReadOutcome, RunsLive, RunDone
  <2>5. CASE ~(StartGraph \/ HandlerFails \/ CommitOffset \/ ReadOutcome)
    <3>1. run' = run /\ handler.pc # "graph"
      BY <1>2, <2>5 DEF ConsumerStep, Poll, GetGraphFails, MarkRunning, PersistOutcome, MarkFailed,
                        MarkFailedFails, PublishToDlq, LoopFails
    <3> QED
      BY <2>1, <3>1, <1>live DEF RunsLive, RunDone
  <2> QED
    BY <2>2, <2>3, <2>4, <2>5
<1>3. ASSUME NEW a \in Actors, GraphStep(a) PROVE RunsLive'
  <2>1. Runner(a, run[a].thread)
    BY <1>3, RunnerRuns
  <2>2. \A b \in Actors : b # a => run'[b] = run[b]
    BY <1>3, GraphEffect DEF SavesRun, NodeEffect, RunMove
  <2>3. UNCHANGED <<handler, req>>
    BY <1>3, GraphFrameVars DEF graphUnchanged
  <2> QED
    BY <1>types, <1>live, <2>1, <2>2, <2>3 DEF RunsLive, Runner, RunDone
<1>4. ASSUME NEW r \in Requests, NEW t \in Threads, NEW d \in Decision, AcceptDecision(r, t, d)
      PROVE  RunsLive'
  <2>1. /\ req[r].pc = "idle"
        /\ \A q \in Requests : q # r => req'[q] = req[q]
        /\ UNCHANGED <<handler, run>>
    BY <1>4, <1>types DEF AcceptDecision
  <2> QED
    BY <1>live, <2>1 DEF RunsLive, RunDone
<1>5. ASSUME NEW r \in Requests, ResumeStep(r) PROVE RunsLive'
  <2>1. handler' = handler /\ \A q \in Requests : q # r => req'[q] = req[q]
    BY <1>5, <1>types, RequestFrameVars
       DEF ResumeStep, RecordDecision, LoadCase, ApplyErp, PushState, ResumeGraph,
           FinishDecision, RequestFails, FailCase, RequestTo
  <2>2. \A b \in Actors : b # r => run'[b] = run[b]
    BY <1>5, <1>types
       DEF ResumeStep, RecordDecision, LoadCase, ApplyErp, PushState, ResumeGraph,
           FinishDecision, RequestFails, FailCase
  <2>3. req'[r].pc = "graph" \/ run'[r].next = None
    <3>1. CASE ResumeGraph(r)
      BY <3>1, <1>types DEF ResumeGraph, RequestTo, Request
    <3>2. CASE FinishDecision(r) \/ RequestFails(r)
      BY <3>2, <1>types, NoRunType DEF FinishDecision, RequestFails
    <3>3. CASE ~(ResumeGraph(r) \/ FinishDecision(r) \/ RequestFails(r))
      <4>1. run' = run /\ req[r].pc # "graph"
        BY <1>5, <3>3 DEF ResumeStep, RecordDecision, LoadCase, ApplyErp, PushState, FailCase
      <4> QED
        BY <1>live, <4>1 DEF RunsLive
    <3> QED
      BY <3>1, <3>2, <3>3
  <2> QED
    BY <1>types, <1>live, <2>1, <2>2, <2>3 DEF RunsLive, RunDone
<1>6. CASE Administration
  BY <1>6, <1>same DEF Administration, ResetInvestigations, DeleteCases, ResetErpOrders, FeedErpOrder
<1>7. CASE Crash
  BY <1>7, NoCrash DEF TypeInv
<1>8. CASE UNCHANGED vars
  BY <1>8, <1>same DEF vars
<1> QED
  BY <1>1, <1>2, <1>3, <1>4, <1>5, <1>6, <1>7, <1>8 DEF Next

-----------------------------------------------------------------------------
(* A step of the graph keeps the stages *)

\* One actor runs the graph of a case.
LEMMA RunnerIsOne ==
  ASSUME TypeInv, ActiveInv, DecidedOnce, NEW a \in Actors, NEW t \in Threads, Runner(a, t)
  PROVE  /\ a = Consumer => Undecided(t) /\ Started(t)
         /\ a # Consumer => /\ ~Untouched(t) /\ ~Undecided(t)
                            /\ \A r \in Requests : Decider(r, t) => r = a
<1>1. ActorAssumption
  BY ActorAssumption
<1>2. CASE a = Consumer
  <2>1. handler.pc = "graph" /\ handler.thread = t
    BY <1>1, <1>2 DEF Runner, ActorAssumption
  <2> QED
    BY <1>2, <2>1 DEF ActiveInv, UntouchedRuns, Untouched, InHand, Started
<1>3. CASE a # Consumer
  BY <1>3 DEF Runner, Decider, DecidedOnce, Undecided, ActiveInv, UntouchedRuns
<1> QED
  BY <1>2, <1>3

\* A step of the handler's run.
LEMMA StagesHandlerRuns ==
  ASSUME TypeInv, ActiveInv, CaseInv, DecidedOnce, GraphStep(Consumer),
         NEW t \in Threads, run[Consumer].thread = t
  PROVE  CaseOk(t)'
<1>actor. Consumer \in Actors
  BY DEF Actors
<1>types. mail \in [Threads -> [hitl : Nat, final : Nat]]
  BY DEF TypeInv, TypeOK
<1>frame. UNCHANGED <<event, sim, row, topic, committed, handler, req>>
  BY <1>actor, GraphFrameVars DEF graphUnchanged, intakeVars, kafkaVars
<1>run. Runner(Consumer, t) /\ SavedRun(Consumer, t)
  BY <1>actor, RunnerRuns
<1>one. Undecided(t) /\ Started(t) /\ handler.pc = "graph" /\ handler.thread = t
  BY <1>actor, <1>run, RunnerIsOne, ActorAssumption DEF Runner
<1>ok. CaseOk(t) /\ InGraph(t)
  BY DEF CaseInv, CaseOk
<1>row. row[t].status \in {None, "running"}
  BY <1>one DEF ActiveInv, UntouchedRuns, Untouched, InHand
<1>who. Undecided(t)' /\ Started(t)' /\ \A r \in Requests : ~Decider(r, t) /\ ~Decider(r, t)'
  BY <1>one, <1>frame DEF Undecided, Started, Decider
<1>consts. None \notin {"waiting_human", "completed"}
  BY DEF None
<1>effect. SavesRun(Consumer) \/ \E n \in Node : AtNode(Consumer, n) /\ NodeEffect(Consumer, n)
  BY <1>actor, GraphEffect
<1>saved. SavedRun(Consumer, t)' /\ ~run'[Consumer].resumed /\ cp'[t].next # None
  <2>1. CASE SavesRun(Consumer)
    BY <1>run, <1>ok, <1>one, <2>1 DEF SavesRun, RunMove, SavedRun, InGraph, Investigating
  <2>2. ASSUME NEW n \in Node, AtNode(Consumer, n), NodeEffect(Consumer, n)
        PROVE  SavedRun(Consumer, t)' /\ ~run'[Consumer].resumed /\ cp'[t].next # None
    <3>1. run'[Consumer].next # None
      BY <2>2 DEF NodeEffect, Successor, Edges, Node, None
    <3>2. PICK next, values : RunMove(Consumer, next, values)
      BY <2>2 DEF NodeEffect
    <3>3. ~run[Consumer].dirty
      BY <2>2 DEF AtNode
    <3> QED
      BY <1>run, <2>2, <3>1, <3>2, <3>3 DEF RunMove, SavedRun, NodeEffect
  <2> QED
    BY <1>effect, <2>1, <2>2
<1>mail. Mailed(t, 0, FinalsOf(Consumer))'
  <2>0. mail[t].hitl = 0 /\ mail[t].final = FinalsOf(Consumer)
    BY <1>ok, <1>one DEF InGraph, Investigating, Mailed
  <2>1. CASE SavesRun(Consumer)
    BY <2>0, <2>1 DEF SavesRun, RunMove, Mailed, FinalsOf
  <2>2. ASSUME NEW n \in Node, AtNode(Consumer, n), NodeEffect(Consumer, n)
        PROVE  Mailed(t, 0, FinalsOf(Consumer))'
    <3>1. mail[t].final = 0
      BY <2>0, <2>2 DEF FinalsOf, AtNode, Node
    <3>2. CASE n = "notification"
      <4>1. run'[Consumer].next = "end"
        BY <2>2, <3>2 DEF NodeEffect, Successor, Edges
      <4> QED
        BY <2>0, <2>2, <3>1, <3>2, <4>1 DEF NodeEffect, Mailed, FinalsOf
    <3>3. CASE n # "notification"
      <4>1. run'[Consumer].next # "end"
        BY <2>2, <3>3 DEF NodeEffect, Successor, Edges, Node
      <4> QED
        BY <2>0, <2>2, <3>1, <3>3, <4>1 DEF NodeEffect, Mailed, FinalsOf
    <3> QED
      BY <3>2, <3>3
  <2> QED
    BY <1>effect, <2>1, <2>2
<1>writes. /\ run'[Consumer].next \in MayAsk => NoWrites(t)'
           /\ \A w \in writes' : w \in writes \/ w.by = "auto"
  <2>0. run[Consumer].next \in MayAsk => NoWrites(t)
    BY <1>ok, <1>one DEF InGraph, Investigating
  <2>1. CASE SavesRun(Consumer)
    BY <2>0, <2>1 DEF SavesRun, RunMove, NoWrites
  <2>2. ASSUME NEW n \in Node, AtNode(Consumer, n), NodeEffect(Consumer, n)
        PROVE  /\ run'[Consumer].next \in MayAsk => NoWrites(t)'
               /\ \A w \in writes' : w \in writes \/ w.by = "auto"
    <3>1. run'[Consumer].next \in MayAsk => run[Consumer].next \in MayAsk /\ writes' = writes
      BY <2>2 DEF NodeEffect, AtNode, MayAsk, Successor, Edges, Node
    <3>2. \A w \in writes' : w \in writes \/ w.by = "auto"
      BY <2>2 DEF NodeEffect
    <3> QED
      BY <2>0, <3>1, <3>2 DEF NoWrites
  <2> QED
    BY <1>effect, <2>1, <2>2
<1>1. BeforeGraph(t)'
  BY <1>who, <1>saved DEF BeforeGraph, Unstarted
<1>2. InGraph(t)'
  BY <1>frame, <1>one, <1>saved, <1>mail, <1>writes DEF InGraph
<1>3. IsWaiting(t)' /\ Reported(t)'
  BY <1>frame, <1>row, <1>consts DEF IsWaiting, Reported
<1>4. Requested(t)'
  BY <1>who DEF Requested
<1>5. RowAsked(t)'
  BY <1>ok, <1>frame DEF CaseOk, RowAsked, HasRow, Decider
<1>6. Author(t)'
  <2> SUFFICES ASSUME NEW w \in writes', w.thread = t
               PROVE  w.by = "auto" /\ Undecided(t)' /\ row'[t].status # "waiting_human"
    BY DEF Author
  <2>1. w.by = "auto"
    BY <1>ok, <1>who, <1>writes DEF CaseOk, Author, TypeInv, TypeOK
  <2> QED
    BY <1>frame, <1>row, <1>consts, <1>who, <2>1
<1> QED
  BY <1>1, <1>2, <1>3, <1>4, <1>5, <1>6 DEF CaseOk

\* A step of the run a request resumed.
LEMMA StagesRequestRuns ==
  ASSUME TypeInv, ActiveInv, CaseInv, DecidedOnce, NEW r \in Requests, GraphStep(r),
         NEW t \in Threads, run[r].thread = t
  PROVE  CaseOk(t)'
<1>actor. r \in Actors /\ r # Consumer
  BY ActorAssumption DEF Actors
<1>types. mail \in [Threads -> [hitl : Nat, final : Nat]]
  BY DEF TypeInv, TypeOK
<1>frame. UNCHANGED <<event, sim, row, topic, committed, handler, req>>
  BY <1>actor, GraphFrameVars DEF graphUnchanged, intakeVars, kafkaVars
<1>run. Runner(r, t) /\ SavedRun(r, t) /\ Decider(r, t) /\ req[r].pc = "graph"
  BY <1>actor, RunnerRuns DEF Runner
<1>one. ~Untouched(t) /\ ~Undecided(t) /\ \A q \in Requests : Decider(q, t) => q = r
  BY <1>actor, <1>run, RunnerIsOne
<1>ok. CaseOk(t) /\ Deciding(r, t)
  BY <1>run DEF CaseInv, CaseOk, Requested
<1>row. row[t].status \in {"waiting_human", None}
  BY <1>run, <1>ok DEF Deciding
<1>who. /\ ~Untouched(t)' /\ ~Undecided(t)'
        /\ \A q \in Requests : Decider(q, t)' = Decider(q, t)
  <2>1. Untouched(t)' = Untouched(t)
    BY <1>frame, UntouchedFrame
  <2> QED
    BY <1>one, <1>frame, <2>1 DEF Undecided, Decider
<1>consts. None # "completed"
  BY DEF None
<1>effect. SavesRun(r) \/ \E n \in Node : AtNode(r, n) /\ NodeEffect(r, n)
  BY <1>actor, GraphEffect
<1>at. run[r].next \in {"human_review", "reporting", "notification", "end"}
  BY <1>run, <1>ok DEF Deciding
<1>saved. /\ SavedRun(r, t)' /\ cp'[t].next # None
          /\ run'[r].next \in {"human_review", "reporting", "notification", "end"}
          /\ run'[r].next = "human_review" => run'[r].resumed
          /\ writes' = writes
  <2>1. CASE SavesRun(r)
    BY <1>run, <1>ok, <1>at, <2>1 DEF SavesRun, RunMove, SavedRun, Deciding
  <2>2. ASSUME NEW n \in Node, AtNode(r, n), NodeEffect(r, n)
        PROVE  /\ SavedRun(r, t)' /\ cp'[t].next # None
               /\ run'[r].next \in {"reporting", "notification", "end"}
               /\ writes' = writes
    <3>1. n \in {"human_review", "reporting", "notification"}
      BY <1>at, <2>2 DEF AtNode, Node
    <3>2. run'[r].next \in {"reporting", "notification", "end"} /\ writes' = writes
      BY <2>2, <3>1 DEF NodeEffect, Successor, Edges
    <3>3. PICK next, values : RunMove(r, next, values)
      BY <2>2 DEF NodeEffect
    <3>4. ~run[r].dirty /\ run'[r].next # None
      BY <2>2, <3>2 DEF AtNode, None
    <3> QED
      BY <1>run, <2>2, <3>2, <3>3, <3>4 DEF RunMove, SavedRun
  <2> QED
    BY <1>effect, <2>1, <2>2
<1>mail. Mailed(t, 1, FinalsOf(r))'
  <2>0. mail[t].hitl = 1 /\ mail[t].final = FinalsOf(r)
    BY <1>ok, <1>run DEF Deciding, Mailed
  <2>1. CASE SavesRun(r)
    BY <2>0, <2>1 DEF SavesRun, RunMove, Mailed, FinalsOf
  <2>2. ASSUME NEW n \in Node, AtNode(r, n), NodeEffect(r, n)
        PROVE  Mailed(t, 1, FinalsOf(r))'
    <3>1. mail[t].final = 0
      BY <2>0, <2>2 DEF FinalsOf, AtNode, Node
    <3>2. CASE n = "notification"
      <4>1. run'[r].next = "end"
        BY <2>2, <3>2 DEF NodeEffect, Successor, Edges
      <4> QED
        BY <2>0, <2>2, <3>1, <3>2, <4>1 DEF NodeEffect, Mailed, FinalsOf
    <3>3. CASE n # "notification"
      <4>1. run'[r].next # "end"
        BY <2>2, <3>3 DEF NodeEffect, Successor, Edges, Node
      <4> QED
        BY <2>0, <2>2, <3>1, <3>3, <4>1 DEF NodeEffect, Mailed, FinalsOf
    <3> QED
      BY <3>2, <3>3
  <2> QED
    BY <1>effect, <2>1, <2>2
<1>1. BeforeGraph(t)'
  BY <1>who, <1>saved DEF BeforeGraph, Unstarted
<1>2. InGraph(t)'
  BY <1>one, <1>frame DEF InGraph, Investigating, Untouched, InHand
<1>3. IsWaiting(t)' /\ Reported(t)'
  BY <1>frame, <1>row, <1>who, <1>consts DEF IsWaiting, Reported
<1>4. Requested(t)'
  <2>1. Deciding(r, t)'
    BY <1>ok, <1>run, <1>frame, <1>saved, <1>mail DEF Deciding, HasRow
  <2> QED
    BY <1>one, <1>who, <2>1 DEF Requested
<1>5. RowAsked(t)'
  BY <1>ok, <1>frame DEF CaseOk, RowAsked, HasRow, Decider
<1>6. Author(t)'
  BY <1>ok, <1>frame, <1>saved DEF CaseOk, Author, Undecided, Decider
<1> QED
  BY <1>1, <1>2, <1>3, <1>4, <1>5, <1>6 DEF CaseOk

LEMMA StagesGraph ==
  ASSUME TypeInv, QueueInv, ActiveInv, CaseInv, DecidedOnce, Console,
         NEW a \in Actors, GraphStep(a), NEW t \in Threads
  PROVE  CaseOk(t)'
<1>1. CASE run[a].thread = t
  BY <1>1, StagesHandlerRuns, StagesRequestRuns DEF Actors
<1>2. CASE run[a].thread # t
  <2>1. Runner(a, run[a].thread) /\ run[a].thread \in Threads
    BY RunnerRuns
  <2>2. UNCHANGED <<event, sim, row, topic, committed, handler, req>>
    BY GraphFrameVars DEF graphUnchanged, intakeVars, kafkaVars
  <2>3. SavesRun(a) \/ \E n \in Node : AtNode(a, n) /\ NodeEffect(a, n)
    BY GraphEffect
  <2>4. /\ \A b \in Actors : b # a => run'[b] = run[b]
        /\ UNCHANGED <<cp[t], mail[t]>>
        /\ \A w : w.thread = t => (w \in writes' <=> w \in writes)
    BY <1>2, <2>3 DEF SavesRun, NodeEffect, RunMove
  <2>5. Unstarted(t)' => Unstarted(t)
    BY <2>2, UntouchedFrame DEF Unstarted, Started
  <2>6. \/ UNCHANGED <<handler, run[Consumer]>>
        \/ ~(handler'.pc \in {"graph", "persist"} /\ handler'.thread = t)
    BY <1>2, <2>1, <2>2, <2>4, ActorAssumption DEF Runner, Actors
  <2>7. \A r \in Requests :
          UNCHANGED <<req[r], run[r]>> \/ (~Decider(r, t) /\ ~Decider(r, t)')
    BY <1>2, <2>1, <2>2, <2>4, ActorAssumption DEF Runner, Decider, Actors
  <2>8. CaseOk(t) /\ TypeOK
    BY DEF CaseInv, TypeInv
  <2> QED
    BY <2>2, <2>4, <2>5, <2>6, <2>7, <2>8, CaseFrame
<1> QED
  BY <1>1, <1>2

-----------------------------------------------------------------------------
(* A step of the consumer keeps the stages *)

\* The case in hand: nobody decides on it and its row is RUNNING.
LEMMA InHandFacts ==
  ASSUME TypeInv, ActiveInv, NEW t \in Threads, InHand(t)
  PROVE  /\ Undecided(t) /\ \A r \in Requests : ~Decider(r, t)
         /\ row[t].status \in {None, "running"}
BY DEF ActiveInv, UntouchedRuns, Untouched, Undecided, Decider

\* What the consumer leaves alone of the other cases.
LEMMA ConsumerOthers ==
  ASSUME TypeInv, QueueInv, CaseInv, Console, ConsumerStep, NEW t \in Threads,
         UNCHANGED <<row[t], cp[t], mail[t]>>,
         ~(handler'.pc \in {"graph", "persist"} /\ handler'.thread = t)
  PROVE  CaseOk(t)'
<1>1. UNCHANGED <<req, writes>> /\ \A r \in Requests : run'[r] = run[r]
  <2>1. run \in [Actors -> Run] /\ Consumer \notin Requests /\ Requests \subseteq Actors
    BY ActorAssumption DEF TypeInv, TypeOK, Actors
  <2> QED
    BY <2>1 DEF ConsumerStep, Poll, GetGraphFails, MarkRunning, StartGraph, ReadOutcome,
                PersistOutcome, HandlerFails, MarkFailed, MarkFailedFails, PublishToDlq,
                CommitOffset, LoopFails, erpVars
<1>2. Unstarted(t)' => Unstarted(t)
  BY UnstartedOnlyEnds DEF Next
<1>3. CaseOk(t) /\ TypeOK
  BY DEF CaseInv, TypeInv
<1> QED
  BY <1>1, <1>2, <1>3, CaseFrame

\* What a step that leaves its row alone keeps of the case in hand.
LEMMA HandKeeps ==
  ASSUME TypeInv, ActiveInv, NEW t \in Threads, InHand(t), CaseOk(t),
         row'[t] = row[t], UNCHANGED <<req, writes>>
  PROVE  IsWaiting(t)' /\ Requested(t)' /\ RowAsked(t)' /\ Author(t)' /\ Reported(t)'
<1>hand. /\ Undecided(t) /\ \A r \in Requests : ~Decider(r, t)
         /\ row[t].status \in {None, "running"}
  BY InHandFacts
<1>consts. None \notin {"waiting_human", "completed"}
  BY DEF None
<1>1. IsWaiting(t)' /\ Reported(t)'
  BY <1>hand, <1>consts DEF IsWaiting, Reported
<1>2. Requested(t)'
  BY <1>hand DEF Requested, Decider
<1>3. RowAsked(t)'
  BY DEF CaseOk, RowAsked, HasRow, Decider
<1>4. Author(t)'
  BY DEF CaseOk, Author, Undecided, Decider
<1> QED
  BY <1>1, <1>2, <1>3, <1>4

LEMMA StagesStartGraph ==
  ASSUME TypeInv, ActiveInv, CaseInv, StartGraph, NEW t \in Threads, handler.thread = t
  PROVE  CaseOk(t)'
<1> DEFINE point == [next |-> "planner", values |-> InitialState]
           fresh == [NoRun EXCEPT !.thread = t, !.next = "planner"]
<1>hand. InHand(t) /\ Unstarted(t) /\ CaseOk(t)
  BY DEF StartGraph, InHand, Untouched, Unstarted, Started, CaseInv
<1>types. /\ run \in [Actors -> Run] /\ cp \in [Threads -> Checkpoint]
          /\ handler \in Handler /\ Consumer \in Actors
  BY DEF TypeInv, TypeOK, Actors
<1>1. /\ run' = [run EXCEPT ![Consumer] = fresh] /\ cp' = [cp EXCEPT ![t] = point]
      /\ UNCHANGED <<row, req, writes, mail>>
  BY DEF StartGraph, handlerThread, erpVars
<1>2. handler'.pc = "graph" /\ handler'.thread = t
  BY <1>types DEF StartGraph, HandlerTo, Handler
<1>3. /\ fresh.thread = t /\ fresh.next = "planner" /\ fresh.values = InitialState
      /\ ~fresh.resumed
  BY NoRunType DEF Run, NoRun
<1>4. point.next = "planner" /\ point.values = InitialState
  OBVIOUS
<1> HIDE DEF fresh, point
<1>5. /\ run'[Consumer].thread = t /\ run'[Consumer].next = "planner"
      /\ run'[Consumer].values = InitialState /\ ~run'[Consumer].resumed
      /\ cp'[t].next = "planner" /\ cp'[t].values = InitialState
  BY <1>types, <1>1, <1>3, <1>4
<1>6. NoWrites(t) /\ Mailed(t, 0, 0)
  BY <1>hand DEF CaseOk, BeforeGraph
<1>7. BeforeGraph(t)'
  BY <1>2, <1>5 DEF BeforeGraph, Unstarted, Started, None
<1>8. InGraph(t)'
  BY <1>1, <1>2, <1>5, <1>6 DEF InGraph, SavedRun, Mailed, FinalsOf, NoWrites, None
<1> QED
  BY <1>hand, <1>1, <1>7, <1>8, HandKeeps DEF CaseOk

LEMMA StagesReadOutcome ==
  ASSUME TypeInv, ActiveInv, CaseInv, ReadOutcome, NEW t \in Threads, handler.thread = t,
         HasRow(t)
  PROVE  CaseOk(t)'
<1>hand. InHand(t) /\ CaseOk(t) /\ InGraph(t)
  BY DEF ReadOutcome, InHand, CaseInv, CaseOk
<1>types. /\ mail \in [Threads -> [hitl : Nat, final : Nat]]
          /\ cp[t] \in Checkpoint /\ handler \in Handler
  BY DEF TypeInv, TypeOK
<1>1. /\ handler.pc = "graph" /\ RunDone(Consumer)
      /\ UNCHANGED <<row, req, writes, run, cp>>
      /\ IF HasPending(t) THEN SendHitlAlert(t) ELSE UNCHANGED mail
      /\ handler' = [handler EXCEPT !.pc = "persist", !.interrupted = HasPending(t)]
  BY DEF ReadOutcome, handlerThread, erpVars
<1>2. handler'.pc = "persist" /\ handler'.thread = t /\ handler'.interrupted = HasPending(t)
  BY <1>types, <1>1 DEF Handler
<1>3. /\ SavedRun(Consumer, t) /\ ~run[Consumer].resumed
      /\ Mailed(t, 0, FinalsOf(Consumer))
      /\ run[Consumer].next \in MayAsk => NoWrites(t)
  BY <1>hand, <1>1 DEF InGraph, Investigating
<1>4. HasPending(t) = (run[Consumer].next = "human_review")
  BY <1>1, <1>3 DEF RunDone, SavedRun, HasPending, Node
<1>5. Mailed(t, IF HasPending(t) THEN 1 ELSE 0, FinalsOf(Consumer))'
  <2>1. CASE HasPending(t)
    <3>1. mail' = [mail EXCEPT ![t].hitl = @ + 1]
      BY <1>1, <2>1 DEF SendHitlAlert
    <3>2. mail'[t].hitl = mail[t].hitl + 1 /\ mail'[t].final = mail[t].final
      BY <1>types, <3>1
    <3> QED
      BY <1>1, <1>3, <2>1, <3>2 DEF Mailed, FinalsOf, HasPending
  <2>2. CASE ~HasPending(t)
    BY <1>1, <1>3, <2>2 DEF Mailed, FinalsOf, HasPending
  <2> QED
    BY <2>1, <2>2
<1>6. BeforeGraph(t)'
  BY <1>1, <1>2, <1>3 DEF BeforeGraph, Unstarted, Started, SavedRun, RunDone
<1>7. InGraph(t)'
  BY <1>1, <1>2, <1>3, <1>4, <1>5 DEF InGraph, SavedRun, RunDone, NoWrites, HasPending, Mailed, FinalsOf
<1> QED
  BY <1>hand, <1>1, <1>6, <1>7, HandKeeps DEF CaseOk

\* Whatever was written for it, the pipeline wrote.
LEMMA HandWrites ==
  ASSUME TypeInv, ActiveInv, NEW t \in Threads, InHand(t), CaseOk(t),
         NEW w \in writes, w.thread = t
  PROVE  w.by = "auto"
<1>1. \A r \in Requests : ~Decider(r, t)
  BY InHandFacts
<1>2. w.by = "auto" \/ w.by \in Requests
  BY DEF TypeInv, TypeOK
<1> QED
  BY <1>1, <1>2 DEF CaseOk, Author

LEMMA StagesPersistOutcome ==
  ASSUME TypeInv, QueueInv, ActiveInv, CaseInv, Console, PersistOutcome,
         NEW t \in Threads, handler.thread = t, HasRow(t)
  PROVE  CaseOk(t)'
<1> DEFINE final == run[Consumer].values
           outcome == OutcomeStatus(final, handler.interrupted)
           integ == final.integ
<1>hand. InHand(t) /\ CaseOk(t) /\ InGraph(t)
  BY DEF PersistOutcome, InHand, CaseInv, CaseOk
<1>who. Undecided(t) /\ \A r \in Requests : ~Decider(r, t)
  BY <1>hand, InHandFacts
<1>types. row \in [Threads -> Row] /\ handler \in Handler
  BY DEF TypeInv, TypeOK
<1>ended. ~Unstarted(t)'
  BY UnstartedOnlyEnds DEF Next, ConsumerStep, Unstarted, Started, PersistOutcome
<1>1. /\ handler.pc = "persist"
      /\ row' = [row EXCEPT ![t].integ = integ, ![t].status = outcome]
      /\ HandlerTo("commit")
      /\ UNCHANGED <<req, writes, run, cp, mail>>
  BY DEF PersistOutcome, handlerThread, erpVars
<1>2. handler'.pc = "commit"
  BY <1>types, <1>1 DEF HandlerTo, Handler
<1>3. /\ SavedRun(Consumer, t) /\ RunDone(Consumer) /\ ~run[Consumer].resumed
      /\ Mailed(t, IF handler.interrupted THEN 1 ELSE 0, FinalsOf(Consumer))
      /\ run[Consumer].next \in MayAsk => NoWrites(t)
      /\ handler.interrupted = (run[Consumer].next = "human_review")
  BY <1>hand, <1>1 DEF InGraph, Investigating
<1>4. row'[t].status = outcome /\ row'[t].decision = row[t].decision
  <2> HIDE DEF outcome, integ
  <2> QED
    BY <1>types, <1>1 DEF Row
<1>5. row[t].decision = None
  BY <1>hand, <1>who DEF CaseOk, RowAsked
<1>status. outcome \in {"waiting_human", "completed", "failed"}
  BY DEF OutcomeStatus
<1>rest. Requested(t)' /\ RowAsked(t)'
  BY <1>1, <1>4, <1>5, <1>who, <1>status DEF Requested, Decider, RowAsked, HasRow, None
<1>6. CASE handler.interrupted
  <2>1. row'[t].status = "waiting_human"
    BY <1>4, <1>6 DEF OutcomeStatus
  <2>2. IsAsked(t)' /\ NoWrites(t)'
    BY <1>1, <1>3, <1>6 DEF IsAsked, SavedRun, RunDone, Mailed, FinalsOf, MayAsk, NoWrites
  <2>3. BeforeGraph(t)'
    BY <1>ended, <2>2 DEF BeforeGraph, IsAsked, None
  <2>4. InGraph(t)' /\ IsWaiting(t)' /\ Reported(t)' /\ Author(t)'
    BY <1>1, <1>2, <2>1, <2>2
       DEF InGraph, Investigating, IsWaiting, Reported, Author, NoWrites
  <2> QED
    BY <2>1, <2>3, <2>4, <1>rest DEF CaseOk
<1>7. CASE ~handler.interrupted
  <2>1. /\ row'[t].status \in {"failed", "completed"}
        /\ row'[t].status = "completed" => ~final.error
    BY <1>4, <1>7 DEF OutcomeStatus
  <2>2. run[Consumer].next = "end" /\ cp'[t].next = "end"
    BY <1>1, <1>3, <1>7 DEF SavedRun, RunDone
  <2>3. row'[t].status = "completed" => Mailed(t, 0, 1)'
    BY <1>1, <1>3, <1>7, <2>1, <2>2 DEF Mailed, FinalsOf
  <2>4. Author(t)'
    BY <1>1, <1>hand, <1>who, <2>1, HandWrites DEF Author, Undecided
  <2>5. BeforeGraph(t)'
    BY <1>ended, <2>2 DEF BeforeGraph, None
  <2>6. InGraph(t)' /\ IsWaiting(t)' /\ Reported(t)'
    BY <1>2, <1>4, <1>5, <2>1, <2>3 DEF InGraph, Investigating, IsWaiting, Reported
  <2> QED
    BY <2>4, <2>5, <2>6, <1>rest DEF CaseOk
<1> QED
  BY <1>6, <1>7

LEMMA StagesMarkFailed ==
  ASSUME TypeInv, QueueInv, ActiveInv, CaseInv, Console, MarkFailed,
         NEW t \in Threads, handler.thread = t, HasRow(t)
  PROVE  CaseOk(t)'
<1>hand. InHand(t) /\ CaseOk(t)
  BY DEF MarkFailed, InHand, CaseInv
<1>who. Undecided(t) /\ \A r \in Requests : ~Decider(r, t)
  BY <1>hand, InHandFacts
<1>types. row \in [Threads -> Row] /\ handler \in Handler
  BY DEF TypeInv, TypeOK
<1>1. handler'.pc = "dlq" /\ UNCHANGED <<req, writes, run, cp, mail>>
  BY <1>types DEF MarkFailed, HandlerTo, Handler, erpVars
<1>2. row'[t].status = "failed" /\ row'[t].decision = row[t].decision
  BY <1>types DEF MarkFailed, handlerThread, Row
<1>3. Unstarted(t)' => Unstarted(t)
  BY UnstartedOnlyEnds DEF Next, ConsumerStep
<1>4. BeforeGraph(t)'
  BY <1>hand, <1>1, <1>3 DEF CaseOk, BeforeGraph, NoWrites, Mailed
<1>5. Author(t)'
  BY <1>hand, <1>1, <1>2, <1>who, HandWrites DEF Author, Undecided
<1> QED
  BY <1>hand, <1>1, <1>2, <1>4, <1>5, <1>who
     DEF CaseOk, InGraph, Investigating, IsWaiting, Requested, Decider, RowAsked, HasRow,
         Reported, None

LEMMA StagesConsumer ==
  ASSUME TypeInv, QueueInv, ActiveInv, CaseInv, Console, ConsumerStep, NEW t \in Threads
  PROVE  CaseOk(t)'
<1>types. /\ row \in [Threads -> Row] /\ handler \in Handler
          /\ cp \in [Threads -> Checkpoint]
          /\ mail \in [Threads -> [hitl : Nat, final : Nat]]
          /\ handler.pc # "idle" => handler.thread \in Threads
  BY DEF TypeInv, TypeOK, HandlerBusy
<1>to. ASSUME NEW pc, HandlerTo(pc) PROVE handler'.pc = pc /\ handler'.thread = handler.thread
  BY <1>to, <1>types DEF HandlerTo, Handler
<1>1. CASE MarkRunning
  <2>1. row[handler.thread].status \in {None, "running"}
    BY <1>1, <1>types, InHandFacts DEF MarkRunning, InHand
  <2>2. row'[t] = row[t]
    BY <1>1, <1>types, <2>1 DEF MarkRunning, handlerThread, HasRow, Row
  <2>3. handler'.pc = "start" /\ UNCHANGED <<cp, mail>>
    BY <1>1, <1>to DEF MarkRunning
  <2> QED
    BY <2>2, <2>3, ConsumerOthers
<1>2. CASE StartGraph
  <2>1. CASE handler.thread = t
    BY <1>2, <2>1, StagesStartGraph
  <2>2. CASE handler.thread # t
    <3>1. UNCHANGED <<row, mail, cp[t]>>
      BY <1>2, <1>types, <2>2 DEF StartGraph, handlerThread
    <3>2. handler'.thread # t
      BY <1>2, <1>to, <2>2 DEF StartGraph
    <3> QED
      BY <3>1, <3>2, ConsumerOthers
  <2> QED
    BY <2>1, <2>2
<1>3. CASE ReadOutcome
  <2>1. CASE handler.thread = t /\ HasRow(t)
    BY <1>3, <2>1, StagesReadOutcome
  <2>2. CASE handler.thread = t /\ ~HasRow(t)
    <3>1. UNCHANGED <<row, mail, cp>> /\ HandlerTo("commit")
      BY <1>3, <2>2 DEF ReadOutcome, handlerThread
    <3>2. handler'.pc = "commit"
      BY <1>to, <3>1
    <3> QED
      BY <3>1, <3>2, ConsumerOthers
  <2>3. CASE handler.thread # t
    <3>1. UNCHANGED <<row, cp, mail[t]>>
      BY <1>3, <1>types, <2>3 DEF ReadOutcome, handlerThread, SendHitlAlert
    <3>2. handler'.thread = handler.thread
      BY <1>3, <1>types DEF ReadOutcome, HandlerTo, Handler
    <3> QED
      BY <2>3, <3>1, <3>2, ConsumerOthers
  <2> QED
    BY <2>1, <2>2, <2>3
<1>4. CASE PersistOutcome
  <2>1. CASE handler.thread = t /\ HasRow(t)
    BY <1>4, <2>1, StagesPersistOutcome
  <2>2. CASE ~(handler.thread = t /\ HasRow(t))
    <3>1. row'[t] = row[t]
      <4> DEFINE integ == run[Consumer].values.integ
                 outcome == OutcomeStatus(run[Consumer].values, handler.interrupted)
      <4>1. \/ row' = row
            \/ row' = [row EXCEPT ![handler.thread].integ = integ,
                                  ![handler.thread].status = outcome]
        BY <1>4 DEF PersistOutcome, handlerThread
      <4>2. handler.thread = t => row' = row
        BY <1>4, <2>2 DEF PersistOutcome, handlerThread
      <4> HIDE DEF integ, outcome
      <4> QED
        BY <1>types, <4>1, <4>2
    <3>2. HandlerTo("commit") \/ HandlerTo("fail")
      BY <1>4 DEF PersistOutcome
    <3>3. handler'.pc \in {"commit", "fail"}
      BY <1>to, <3>2
    <3>4. UNCHANGED <<cp, mail>>
      BY <1>4 DEF PersistOutcome
    <3> QED
      BY <3>1, <3>3, <3>4, ConsumerOthers
  <2> QED
    BY <2>1, <2>2
<1>5. CASE MarkFailed
  <2>1. CASE handler.thread = t /\ HasRow(t)
    BY <1>5, <2>1, StagesMarkFailed
  <2>2. CASE ~(handler.thread = t /\ HasRow(t))
    <3>1. row'[t] = row[t] /\ UNCHANGED <<cp, mail>>
      BY <1>5, <1>types, <2>2 DEF MarkFailed, handlerThread
    <3>2. handler'.pc = "dlq"
      BY <1>5, <1>to DEF MarkFailed
    <3> QED
      BY <3>1, <3>2, ConsumerOthers
  <2> QED
    BY <2>1, <2>2
<1>6. ASSUME NEW o \in Orders, Poll(o) PROVE CaseOk(t)'
  <2>1. UNCHANGED <<row, cp, mail>>
    BY <1>6 DEF Poll
  <2>2. handler'.pc = "mark"
    BY <1>6, IdleType DEF Poll, Handler
  <2> QED
    BY <2>1, <2>2, ConsumerOthers
<1>7. CASE CommitOffset
  <2>1. UNCHANGED <<row, cp, mail>> /\ handler'.pc = "idle"
    BY <1>7, IdleType DEF CommitOffset
  <2> QED
    BY <2>1, ConsumerOthers
<1>8. ASSUME NEW pc \in {"fail", "dlq", "commit_dlq", "dead"}, HandlerTo(pc),
             UNCHANGED <<row, cp, mail>>
      PROVE  CaseOk(t)'
  BY <1>8, <1>to, ConsumerOthers
<1> QED
  BY <1>1, <1>2, <1>3, <1>4, <1>5, <1>6, <1>7, <1>8
     DEF ConsumerStep, GetGraphFails, HandlerFails, MarkFailedFails, PublishToDlq, LoopFails

-----------------------------------------------------------------------------
(* The endpoints keep the stages *)

\* A step that leaves runs and requests alone, and the row unless it deletes it.
LEMMA StagesQuiet ==
  ASSUME TypeInv, QueueInv, CaseInv, Console, [Next]_vars, NEW t \in Threads,
         row'[t] = row[t] \/ row'[t] = NoRow,
         UNCHANGED <<handler, run, req, cp, mail, writes>>
  PROVE  CaseOk(t)'
<1>1. CaseOk(t) /\ TypeOK /\ (Unstarted(t)' => Unstarted(t))
  BY UnstartedOnlyEnds DEF CaseInv, TypeInv
<1> QED
  BY <1>1, CaseFrame

LEMMA StagesSimulate ==
  ASSUME TypeInv, QueueInv, ActiveInv, CaseInv, Console,
         NEW u \in Threads, Simulate(u), NEW t \in Threads
  PROVE  CaseOk(t)'
<1>next. [Next]_vars
  BY DEF Next
<1>types. row \in [Threads -> Row] /\ NoRow \in Row
  BY NoRowType DEF TypeInv, TypeOK
<1>frame. UNCHANGED <<handler, run, req, cp, mail, writes>>
  BY DEF Simulate, CheckActive, InsertExecution, PublishEvent, PublishFails, erpVars
<1>1. CASE row'[t] = row[t]
  BY <1>next, <1>frame, <1>1, StagesQuiet
<1>2. CASE row'[t] # row[t]
  <2>1. InsertExecution(u) /\ u = t
    BY <1>2, <1>types DEF Simulate, CheckActive, InsertExecution, PublishEvent, PublishFails
  <2>2. /\ row[t] = NoRow /\ Untouched(t) /\ Undecided(t)
        /\ \A r \in Requests : ~Decider(r, t)
    BY <2>1 DEF InsertExecution, ActiveInv, RowLast, UntouchedRuns, Untouched, NotSent,
                Undecided, Decider
  <2>3. row'[t].status = "running" /\ row'[t].decision = None
    BY <2>1, <1>types DEF InsertExecution, NoRow, Row
  <2>4. CaseOk(t) /\ (Unstarted(t)' => Unstarted(t))
    BY <1>next, UnstartedOnlyEnds DEF CaseInv
  <2>5. BeforeGraph(t)'
    BY <1>frame, <2>4 DEF CaseOk, BeforeGraph, NoWrites, Mailed
  <2>6. InGraph(t)'
    BY <1>frame, <2>4
       DEF CaseOk, InGraph, Investigating, SavedRun, Mailed, FinalsOf, NoWrites, RunDone
  <2>7. Author(t)'
    <3>1. \A w \in writes : w.by = "auto" \/ w.by \in Requests
      BY DEF TypeInv, TypeOK
    <3> QED
      BY <1>frame, <2>2, <2>3, <2>4, <3>1 DEF CaseOk, Author, Undecided
  <2> QED
    BY <1>frame, <2>2, <2>3, <2>5, <2>6, <2>7
       DEF CaseOk, IsWaiting, Requested, Decider, RowAsked, HasRow, Reported, None
<1> QED
  BY <1>1, <1>2

LEMMA StagesAccept ==
  ASSUME TypeInv, QueueInv, ActiveInv, CaseInv, Console, DecidedOnce',
         NEW r \in Requests, NEW u \in Threads, NEW d \in Decision, AcceptDecision(r, u, d),
         NEW t \in Threads
  PROVE  CaseOk(t)'
<1> DEFINE sent == [Unsent EXCEPT !.pc = "accepted", !.thread = u, !.decision = d]
<1>next. [Next]_vars
  BY DEF Next
<1>1. /\ req[r].pc = "idle" /\ req' = [req EXCEPT ![r] = sent]
      /\ row[u].status = "waiting_human" /\ d \in {"approved", "rejected"}
      /\ UNCHANGED <<row, handler, run, cp, mail, writes>>
  BY DEF AcceptDecision, OfferedByUi, Console, Decision, erpVars
<1>2. sent.pc = "accepted" /\ sent.thread = u /\ sent.decision = d
  BY UnsentType DEF Request
<1> HIDE DEF sent
<1>3. /\ req'[r].pc = "accepted" /\ req'[r].thread = u /\ req'[r].decision = d
      /\ \A q \in Requests : q # r => req'[q] = req[q]
  BY <1>1, <1>2 DEF TypeInv, TypeOK
<1>4. CaseOk(t) /\ TypeOK /\ (Unstarted(t)' => Unstarted(t))
  BY <1>next, UnstartedOnlyEnds DEF CaseInv, TypeInv
<1>5. CASE u # t
  <2>1. \A q \in Requests : UNCHANGED <<req[q], run[q]>> \/ (~Decider(q, t) /\ ~Decider(q, t)')
    BY <1>1, <1>3, <1>5 DEF Decider
  <2> QED
    BY <1>1, <1>4, <2>1, CaseFrame
<1>6. CASE u = t
  <2>1. \A q \in Requests : ~Decider(q, t)
    <3> SUFFICES ASSUME NEW q \in Requests, Decider(q, t) PROVE FALSE
      OBVIOUS
    <3>1. q # r /\ Decider(q, t)' /\ Decider(r, t)'
      BY <1>1, <1>3, <1>6 DEF Decider
    <3> QED
      BY <3>1 DEF DecidedOnce
  <2>2. IsAsked(t) /\ row[t].decision = None
    BY <1>1, <1>4, <1>6, <2>1 DEF CaseOk, IsWaiting, Undecided, Decider, RowAsked
  <2>3. NoWrites(t)
    <3>1. \A w \in writes : w.by = "auto" \/ w.by \in Requests
      BY DEF TypeInv, TypeOK
    <3> QED
      BY <1>1, <1>4, <1>6, <2>1, <3>1 DEF CaseOk, Author, NoWrites
  <2>4. ~Undecided(t)' /\ \A q \in Requests : Decider(q, t)' => q = r
    BY <1>3, <1>6, <2>1 DEF Undecided, Decider
  <2>5. BeforeGraph(t)'
    BY <1>1, <1>4 DEF CaseOk, BeforeGraph, NoWrites, Mailed
  <2>6. InGraph(t)'
    BY <1>1, <1>4
       DEF CaseOk, InGraph, Investigating, SavedRun, Mailed, FinalsOf, NoWrites, RunDone
  <2>7. Requested(t)'
    <3>1. Deciding(r, t)'
      BY <1>1, <1>3, <1>6, <2>2 DEF Deciding, IsAsked, Mailed
    <3> QED
      BY <2>4, <3>1 DEF Requested
  <2>8. RowAsked(t)' /\ Author(t)' /\ Reported(t)' /\ IsWaiting(t)'
    BY <1>1, <1>6, <2>2, <2>3, <2>4
       DEF RowAsked, HasRow, Author, NoWrites, Reported, IsWaiting, None
  <2> QED
    BY <2>5, <2>6, <2>7, <2>8 DEF CaseOk
<1> QED
  BY <1>5, <1>6

LEMMA StagesAdministration ==
  ASSUME TypeInv, QueueInv, CaseInv, Console, Administration, NEW t \in Threads
  PROVE  CaseOk(t)'
<1>1. row'[t] = row[t] \/ row'[t] = NoRow
  BY DEF Administration, ResetInvestigations, DeleteCases, ResetErpOrders, FeedErpOrder
<1>2. UNCHANGED <<handler, run, req, cp, mail, writes>>
  BY DEF Administration, ResetInvestigations, DeleteCases, ResetErpOrders, FeedErpOrder
<1> QED
  BY <1>1, <1>2, StagesQuiet DEF Next

-----------------------------------------------------------------------------
(* A request keeps the stages *)

\* The case a request works on has no other request, is out of the consumer's
\* hands, and its order changed on this request's word only.
LEMMA ResumeFacts ==
  ASSUME TypeInv, ActiveInv, CaseInv, DecidedOnce,
         NEW r \in Requests, NEW t \in Threads, Decider(r, t)
  PROVE  /\ CaseOk(t) /\ Deciding(r, t)
         /\ ~Untouched(t)
         /\ \A q \in Requests : Decider(q, t) => q = r
         /\ \A w \in writes : w.thread = t => /\ w.by = r /\ req[r].decision = "approved"
                                              /\ req[r].pc \in Settling
<1>1. CaseOk(t) /\ Deciding(r, t)
  BY DEF CaseInv, CaseOk, Requested
<1>2. ~Untouched(t) /\ ~Undecided(t) /\ \A q \in Requests : Decider(q, t) => q = r
  BY DEF Decider, DecidedOnce, Undecided, ActiveInv, UntouchedRuns
<1>3. ASSUME NEW w \in writes, w.thread = t
      PROVE  w.by = r /\ req[r].decision = "approved" /\ req[r].pc \in Settling
  <2> DEFINE q == w.by
  <2>1. q = "auto" \/ q \in Requests
    BY DEF TypeInv, TypeOK
  <2>2. q # "auto" /\ Decider(q, t) /\ req[q].decision = "approved" /\ req[q].pc \in Settling
    BY <1>1, <1>2, <1>3 DEF CaseOk, Author
  <2> HIDE DEF q
  <2>3. q = r
    BY <1>2, <2>1, <2>2
  <2> QED
    BY <2>2, <2>3 DEF q
<1> QED
  BY <1>1, <1>2, <1>3

\* What a step of a request changes at most.
LEMMA ResumeFrame ==
  ASSUME TypeInv, NEW r \in Requests, ResumeStep(r), NEW t \in Threads, req[r].thread = t
  PROVE  /\ Decider(r, t) /\ req'[r].pc \notin {"idle", "accepted"}
         /\ req'[r].thread = t /\ req'[r].decision = req[r].decision
         /\ \A q \in Requests : q # r => UNCHANGED <<req[q], run[q]>>
         /\ \A u \in Threads : u # t => UNCHANGED <<row[u], cp[u]>>
         /\ \A w : w.thread # t => (w \in writes' <=> w \in writes)
         /\ UNCHANGED <<event, sim, topic, committed, handler, run[Consumer], mail>>
<1>types. /\ req \in [Requests -> Request] /\ run \in [Actors -> Run]
          /\ row \in [Threads -> Row] /\ cp \in [Threads -> Checkpoint]
          /\ Consumer \in Actors /\ r # Consumer /\ r \in Actors /\ Requests \subseteq Actors
  BY ActorAssumption DEF TypeInv, TypeOK, Actors
<1>1. UNCHANGED <<event, sim, topic, committed, handler>>
  BY RequestFrameVars
<1>2. mail' = mail
  BY DEF ResumeStep, RecordDecision, LoadCase, ApplyErp, PushState, ResumeGraph, FinishDecision,
         RequestFails, FailCase
<1>3. req[r].pc # "idle"
  BY DEF ResumeStep, RecordDecision, LoadCase, ApplyErp, PushState, ResumeGraph, FinishDecision,
         RequestFails, FailCase
<1>4. \A q \in Requests : q # r => req'[q] = req[q]
  BY <1>types DEF ResumeStep, RecordDecision, LoadCase, ApplyErp, PushState, ResumeGraph,
                  FinishDecision, RequestFails, FailCase, RequestTo
<1>5. /\ req'[r].pc \notin {"idle", "accepted"}
      /\ req'[r].thread = t /\ req'[r].decision = req[r].decision
  BY <1>types DEF ResumeStep, RecordDecision, LoadCase, ApplyErp, PushState, ResumeGraph,
                  FinishDecision, RequestFails, FailCase, RequestTo, Request
<1>6. \A a \in Actors : a # r => run'[a] = run[a]
  BY <1>types DEF ResumeStep, RecordDecision, LoadCase, ApplyErp, PushState, ResumeGraph,
                  FinishDecision, RequestFails, FailCase
<1>7. \A u \in Threads : u # t => row'[u] = row[u]
  BY <1>types DEF ResumeStep, RecordDecision, LoadCase, ApplyErp, PushState, ResumeGraph,
                  FinishDecision, RequestFails, FailCase
<1>8. \A u \in Threads : u # t => cp'[u] = cp[u]
  BY <1>types DEF ResumeStep, RecordDecision, LoadCase, ApplyErp, PushState, ResumeGraph,
                  FinishDecision, RequestFails, FailCase
<1>9. \A w : w.thread # t => (w \in writes' <=> w \in writes)
  <2>1. CASE ApplyErp(r)
    <3> DEFINE new == [thread |-> t, by |-> r, seen |-> cp[t].values.erp,
                       from |-> erp[Order(t)], to |-> req[r].integ.rec]
    <3>1. writes' = writes \/ writes' = writes \cup {new}
      BY <2>1 DEF ApplyErp, SetOrder
    <3>2. new.thread = t
      OBVIOUS
    <3> HIDE DEF new
    <3> QED
      BY <3>1, <3>2
  <2>2. CASE ~ApplyErp(r)
    <3>1. writes' = writes
      BY <2>2 DEF ResumeStep, RecordDecision, LoadCase, PushState, ResumeGraph, FinishDecision,
                  RequestFails, FailCase, erpVars
    <3> QED
      BY <3>1
  <2> QED
    BY <2>1, <2>2
<1> QED
  BY <1>types, <1>1, <1>2, <1>3, <1>4, <1>5, <1>6, <1>7, <1>8, <1>9 DEF Decider

\* What is left to show of the step of a request.
LEMMA ResumeKeeps ==
  ASSUME TypeInv, ActiveInv, CaseInv, DecidedOnce,
         NEW r \in Requests, ResumeStep(r), NEW t \in Threads, req[r].thread = t,
         Deciding(r, t)', Reported(t)',
         cp'[t].next # None \/ UNCHANGED <<cp, mail, writes>>,
         row'[t].status = None => row'[t] = NoRow,
         \A w \in writes' : w.thread = t => /\ w.by = r /\ req[r].decision = "approved"
                                            /\ req'[r].pc \in Settling
  PROVE  CaseOk(t)'
<1>frame. /\ Decider(r, t) /\ Decider(r, t)' /\ req'[r].pc # "accepted"
          /\ req'[r].decision = req[r].decision
          /\ \A q \in Requests : q # r => Decider(q, t)' = Decider(q, t)
          /\ UNCHANGED <<sim, topic, committed, handler>>
  BY ResumeFrame DEF Decider
<1>facts. /\ CaseOk(t) /\ ~Untouched(t)
          /\ \A q \in Requests : Decider(q, t) => q = r
  BY <1>frame, ResumeFacts
<1>1. ~Untouched(t)' /\ ~Undecided(t)'
  BY <1>frame, <1>facts, UntouchedFrame DEF Undecided, Decider
<1>2. BeforeGraph(t)'
  BY <1>facts, <1>1 DEF CaseOk, BeforeGraph, Unstarted, NoWrites, Mailed
<1>3. InGraph(t)' /\ IsWaiting(t)'
  BY <1>1 DEF InGraph, Investigating, IsWaiting, Untouched, InHand
<1>4. Requested(t)'
  BY <1>frame, <1>facts DEF Requested
<1>5. RowAsked(t)'
  BY <1>frame DEF RowAsked, HasRow
<1>6. Author(t)'
  <2> SUFFICES ASSUME NEW w \in writes', w.thread = t
               PROVE  /\ w.by # "auto" /\ Decider(w.by, t)'
                      /\ req'[w.by].decision = "approved" /\ req'[w.by].pc \in Settling
    BY DEF Author
  <2>1. w.by = r /\ req'[r].decision = "approved" /\ req'[r].pc \in Settling
    BY <1>frame
  <2> QED
    BY <1>frame, <2>1, ActorAssumption
<1> QED
  BY <1>2, <1>3, <1>4, <1>5, <1>6 DEF CaseOk

\* Until it resumes the graph a request finds the case as it was asked about.
LEMMA StagesBeforeResume ==
  ASSUME TypeInv, ActiveInv, CaseInv, DecidedOnce, NEW r \in Requests,
         RecordDecision(r) \/ LoadCase(r) \/ ApplyErp(r) \/ PushState(r),
         NEW t \in Threads, req[r].thread = t
  PROVE  CaseOk(t)'
<1> DEFINE d == req[r].decision
<1>types. /\ req \in [Requests -> Request] /\ row \in [Threads -> Row]
          /\ cp \in [Threads -> Checkpoint] /\ NoRow \in Row /\ NoRow.status = None
  BY NoRowType DEF TypeInv, TypeOK, NoRow
<1>step. ResumeStep(r)
  BY DEF ResumeStep
<1>frame. /\ Decider(r, t) /\ req'[r].decision = d /\ mail' = mail
  BY <1>step, ResumeFrame
<1>facts. /\ CaseOk(t) /\ Deciding(r, t)
          /\ \A w \in writes : w.thread = t => /\ w.by = r /\ d = "approved"
                                               /\ req[r].pc \in Settling
  BY <1>frame, ResumeFacts
<1>pc. req[r].pc \in {"accepted", "load", "apply", "push"}
  BY DEF RecordDecision, LoadCase, ApplyErp, PushState
<1>asked. IsAsked(t) /\ d \in {"approved", "rejected"} /\ row[t].status \in {"waiting_human", None}
  BY <1>facts, <1>pc DEF Deciding
<1>norow. row[t].status = None => row[t] = NoRow
  BY <1>facts DEF CaseOk, RowAsked, HasRow
<1>status. row'[t].status = row[t].status /\ (row'[t].status = None => row'[t] = NoRow)
  BY <1>types, <1>norow DEF RecordDecision, Decided, LoadCase, ApplyErp, PushState, HasRow, Row
<1>recorded. HasRow(t)' => row'[t].decision = d
  <2>1. CASE RecordDecision(r) \/ LoadCase(r)
    BY <1>types, <1>status, <2>1 DEF RecordDecision, Decided, LoadCase, HasRow, Row
  <2>2. CASE ApplyErp(r) \/ PushState(r)
    BY <1>facts, <2>2 DEF ApplyErp, PushState, Deciding, HasRow
  <2> QED
    BY <2>1, <2>2
<1>next. cp'[t].next = cp[t].next
  BY <1>types DEF RecordDecision, LoadCase, ApplyErp, PushState, Checkpoint
<1>asked2. IsAsked(t)' /\ cp'[t].next # None
  BY <1>asked, <1>frame, <1>next DEF IsAsked, Mailed, None
<1>pc2. /\ req'[r].pc \in {"load", "apply", "push", "resume", "fail", "done"}
        /\ req'[r].pc = "done" => row[t].status = None
        /\ req'[r].pc = "apply" => d = "approved"
  <2>1. CASE RecordDecision(r)
    BY <1>types, <2>1 DEF RecordDecision, RequestTo, HasRow, Request
  <2>2. CASE LoadCase(r)
    BY <1>types, <2>2 DEF LoadCase, RequestTo, MustApply, Request
  <2>3. CASE ApplyErp(r) \/ PushState(r)
    BY <1>types, <2>3 DEF ApplyErp, PushState, RequestTo, Request
  <2> QED
    BY <2>1, <2>2, <2>3
<1>writes. \A w \in writes' : w.thread = t => /\ w.by = r /\ d = "approved"
                                              /\ req'[r].pc \in Settling
  <2>1. CASE ApplyErp(r)
    <3> DEFINE new == [thread |-> t, by |-> r, seen |-> cp[t].values.erp,
                       from |-> erp[Order(t)], to |-> req[r].integ.rec]
    <3>1. writes' = writes \/ writes' = writes \cup {new}
      BY <2>1 DEF ApplyErp, SetOrder
    <3>2. new.by = r
      OBVIOUS
    <3>3. d = "approved"
      BY <1>facts, <2>1 DEF ApplyErp, Deciding
    <3>4. req'[r].pc = "push"
      BY <1>types, <2>1 DEF ApplyErp, Request
    <3> HIDE DEF new, d
    <3> QED
      BY <1>facts, <3>1, <3>2, <3>3, <3>4 DEF Settling
  <2>2. CASE PushState(r)
    <3>1. writes' = writes /\ req'[r].pc = "resume"
      BY <1>types, <2>2 DEF PushState, RequestTo, Request, erpVars
    <3> QED
      BY <1>facts, <3>1 DEF Settling
  <2>3. CASE RecordDecision(r) \/ LoadCase(r)
    <3>1. writes' = writes /\ req[r].pc \notin Settling
      BY <2>3 DEF RecordDecision, LoadCase, erpVars, Settling
    <3> QED
      BY <1>facts, <3>1
  <2> QED
    BY <2>1, <2>2, <2>3
<1>1. Deciding(r, t)'
  BY <1>frame, <1>asked, <1>status, <1>recorded, <1>asked2, <1>pc2 DEF Deciding
<1>2. Reported(t)'
  BY <1>asked, <1>status DEF Reported, None
<1> QED
  BY <1>step, <1>status, <1>asked2, <1>writes, <1>1, <1>2, ResumeKeeps

LEMMA StagesResumeGraph ==
  ASSUME TypeInv, ActiveInv, CaseInv, DecidedOnce, NEW r \in Requests, ResumeGraph(r),
         NEW t \in Threads, req[r].thread = t
  PROVE  CaseOk(t)'
<1> DEFINE fresh == [NoRun EXCEPT !.thread = t, !.next = cp[t].next, !.values = cp[t].values,
                                  !.resumed = TRUE]
<1>types. /\ req \in [Requests -> Request] /\ run \in [Actors -> Run] /\ r \in Actors
  BY DEF TypeInv, TypeOK, Actors
<1>step. ResumeStep(r)
  BY DEF ResumeStep
<1>frame. Decider(r, t) /\ req'[r].decision = req[r].decision /\ mail' = mail
  BY <1>step, ResumeFrame
<1>facts. /\ CaseOk(t) /\ Deciding(r, t)
          /\ \A w \in writes : w.thread = t => w.by = r /\ req[r].decision = "approved"
  BY <1>frame, ResumeFacts
<1>1. /\ req[r].pc = "resume" /\ req'[r].pc = "graph"
      /\ run' = [run EXCEPT ![r] = fresh]
      /\ UNCHANGED <<row, cp, writes>>
  BY <1>types DEF ResumeGraph, RequestTo, Request, erpVars
<1>2. /\ fresh.thread = t /\ fresh.next = cp[t].next /\ fresh.values = cp[t].values
      /\ fresh.resumed
  BY NoRunType DEF Run
<1> HIDE DEF fresh
<1>3. IsAsked(t)
  BY <1>facts, <1>1 DEF Deciding
<1>4. SavedRun(r, t)' /\ run'[r].next = "human_review" /\ run'[r].resumed
  BY <1>types, <1>1, <1>2, <1>3 DEF SavedRun, IsAsked, None
<1>5. Mailed(t, 1, FinalsOf(r))'
  BY <1>frame, <1>3, <1>4 DEF IsAsked, Mailed, FinalsOf
<1>6. Deciding(r, t)'
  BY <1>frame, <1>facts, <1>1, <1>4, <1>5 DEF Deciding, HasRow
<1>7. Reported(t)'
  BY <1>facts, <1>1 DEF Deciding, Reported, None
<1>8. row'[t].status = None => row'[t] = NoRow
  BY <1>facts, <1>1 DEF CaseOk, RowAsked, HasRow
<1>9. \A w \in writes' : w.thread = t => /\ w.by = r /\ req[r].decision = "approved"
                                         /\ req'[r].pc \in Settling
  BY <1>facts, <1>1 DEF Settling
<1> QED
  BY <1>step, <1>frame, <1>1, <1>6, <1>7, <1>8, <1>9, ResumeKeeps

LEMMA StagesAfterResume ==
  ASSUME TypeInv, ActiveInv, CaseInv, DecidedOnce, NEW r \in Requests,
         FinishDecision(r) \/ RequestFails(r) \/ FailCase(r),
         NEW t \in Threads, req[r].thread = t
  PROVE  CaseOk(t)'
<1> DEFINE d == req[r].decision
<1>types. /\ req \in [Requests -> Request] /\ row \in [Threads -> Row] /\ NoRow.status = None
  BY DEF TypeInv, TypeOK, NoRow
<1>step. ResumeStep(r)
  BY DEF ResumeStep
<1>frame. Decider(r, t) /\ req'[r].decision = d /\ mail' = mail
  BY <1>step, ResumeFrame
<1>facts. /\ CaseOk(t) /\ Deciding(r, t)
          /\ \A w \in writes : w.thread = t => w.by = r /\ d = "approved"
  BY <1>frame, ResumeFacts
<1>1. UNCHANGED <<cp, mail, writes>>
  BY DEF FinishDecision, RequestFails, FailCase, erpVars
<1>2. req'[r].pc = IF RequestFails(r) THEN "fail" ELSE "done"
  <2>1. CASE RequestFails(r)
    BY <1>types, <2>1 DEF RequestFails, RequestTo, Request
  <2>2. CASE ~RequestFails(r)
    BY <1>types, <2>2 DEF FinishDecision, FailCase, RequestTo, Request
  <2> QED
    BY <2>1, <2>2
<1>3. \A w \in writes' : w.thread = t => /\ w.by = r /\ d = "approved"
                                         /\ req'[r].pc \in Settling
  BY <1>facts, <1>1, <1>2 DEF Settling
<1>before. /\ d \in {"approved", "rejected"}
           /\ row[t].status = None => row[t] = NoRow
           /\ row[t].status \in {"waiting_human", None}
           /\ HasRow(t) => row[t].decision = d
  BY <1>facts DEF CaseOk, RowAsked, HasRow, Deciding, FinishDecision, RequestFails, FailCase
<1>4. CASE FinishDecision(r)
  <2> DEFINE final == run[r].values
             closed == [status |-> FinalStatus(final), decision |-> d,
                        integ |-> IF req[r].integ = NoInteg THEN final.integ ELSE req[r].integ]
  <2>1. /\ req[r].pc = "graph" /\ RunDone(r) /\ req'[r].pc = "done"
        /\ row' = [row EXCEPT ![t] = IF HasRow(t) THEN closed ELSE @]
    BY <1>types, <1>4 DEF FinishDecision, RequestTo, Request
  <2>2. closed.status = FinalStatus(final) /\ closed.decision = d
    OBVIOUS
  <2> HIDE DEF closed
  <2>3. row'[t] = IF HasRow(t) THEN closed ELSE NoRow
    BY <1>types, <1>before, <2>1 DEF HasRow
  <2>4. run[r].next = "end" /\ Mailed(t, 1, FinalsOf(r))
    BY <1>facts, <2>1 DEF Deciding, RunDone
  <2>5. FinalStatus(final) = "completed" => Mailed(t, 1, 1)
    BY <2>4 DEF FinalStatus, FinalsOf
  <2>6. Deciding(r, t)'
    BY <1>types, <1>frame, <1>before, <2>1, <2>2, <2>3 DEF Deciding, FinalStatus, HasRow, None
  <2>7. Reported(t)'
    BY <1>types, <1>1, <1>before, <2>2, <2>3, <2>5 DEF Reported, Mailed, None
  <2>8. row'[t].status = None => row'[t] = NoRow
    BY <2>2, <2>3 DEF FinalStatus, None
  <2> QED
    BY <1>step, <1>1, <1>3, <2>6, <2>7, <2>8, ResumeKeeps
<1>5. CASE RequestFails(r)
  <2>1. row' = row /\ req'[r].pc = "fail"
    BY <1>2, <1>5 DEF RequestFails
  <2>2. Deciding(r, t)' /\ Reported(t)'
    BY <1>frame, <1>before, <2>1 DEF Deciding, Reported, HasRow, None
  <2> QED
    BY <1>step, <1>1, <1>3, <1>before, <2>1, <2>2, ResumeKeeps
<1>6. CASE FailCase(r)
  <2>1. /\ row'[t].status = IF HasRow(t) THEN "failed" ELSE None
        /\ row'[t].decision = row[t].decision
        /\ ~HasRow(t) => row'[t] = row[t]
        /\ req'[r].pc = "done"
    BY <1>types, <1>6 DEF FailCase, RequestTo, Request, Row, HasRow
  <2>2. Deciding(r, t)' /\ Reported(t)'
    BY <1>frame, <1>before, <2>1 DEF Deciding, Reported, HasRow, None
  <2>3. row'[t].status = None => row'[t] = NoRow
    BY <1>before, <2>1 DEF HasRow, None
  <2> QED
    BY <1>step, <1>1, <1>3, <2>2, <2>3, ResumeKeeps
<1> QED
  BY <1>4, <1>5, <1>6

LEMMA StagesResume ==
  ASSUME TypeInv, QueueInv, ActiveInv, CaseInv, DecidedOnce, Console,
         NEW r \in Requests, ResumeStep(r), NEW t \in Threads
  PROVE  CaseOk(t)'
<1>1. CASE req[r].thread = t
  BY <1>1, StagesBeforeResume, StagesResumeGraph, StagesAfterResume DEF ResumeStep
<1>2. CASE req[r].thread # t
  <2>1. PICK u \in Threads : u = req[r].thread
    BY DEF ResumeStep, RecordDecision, LoadCase, ApplyErp, PushState, ResumeGraph,
           FinishDecision, RequestFails, FailCase, TypeInv, RequestsBusy
  <2>2. /\ UNCHANGED <<row[t], cp[t], mail[t], handler, run[Consumer]>>
        /\ \A w : w.thread = t => (w \in writes' <=> w \in writes)
        /\ req'[r].thread = u
        /\ \A q \in Requests : q # r => UNCHANGED <<req[q], run[q]>>
    BY <1>2, <2>1, ResumeFrame
  <2>3. \A q \in Requests : UNCHANGED <<req[q], run[q]>> \/ (~Decider(q, t) /\ ~Decider(q, t)')
    BY <1>2, <2>1, <2>2 DEF Decider
  <2>4. CaseOk(t) /\ TypeOK /\ (Unstarted(t)' => Unstarted(t))
    BY UnstartedOnlyEnds DEF CaseInv, TypeInv, Next
  <2> QED
    BY <2>2, <2>3, <2>4, CaseFrame
<1> QED
  BY <1>1, <1>2

-----------------------------------------------------------------------------
(* What a case promises when nobody decides on it twice *)

LEMMA CaseInvariant ==
  ASSUME Console
  PROVE  Spec /\ []DecidedOnce => []CaseInv
<1>1. ASSUME TypeInv, QueueInv, ActiveInv, CaseInv, DecidedOnce, DecidedOnce', [Next]_vars
      PROVE  CaseInv'
  <2> SUFFICES ASSUME NEW t \in Threads PROVE CaseOk(t)'
    BY <1>1, LiveInvariant DEF CaseInv
  <2>1. ASSUME NEW u \in Threads, Simulate(u) PROVE CaseOk(t)'
    BY <1>1, <2>1, StagesSimulate
  <2>2. CASE ConsumerStep
    BY <1>1, <2>2, StagesConsumer
  <2>3. ASSUME NEW a \in Actors, GraphStep(a) PROVE CaseOk(t)'
    BY <1>1, <2>3, StagesGraph
  <2>4. ASSUME NEW r \in Requests, NEW u \in Threads, NEW d \in Decision, AcceptDecision(r, u, d)
        PROVE  CaseOk(t)'
    BY <1>1, <2>4, StagesAccept
  <2>5. ASSUME NEW r \in Requests, ResumeStep(r) PROVE CaseOk(t)'
    BY <1>1, <2>5, StagesResume
  <2>6. CASE Administration
    BY <1>1, <2>6, StagesAdministration
  <2>7. CASE Crash
    BY <1>1, <2>7, NoCrash DEF TypeInv
  <2>8. CASE UNCHANGED vars
    BY <1>1, <2>8, StagesQuiet DEF vars, erpVars
  <2> QED
    BY <1>1, <2>1, <2>2, <2>3, <2>4, <2>5, <2>6, <2>7, <2>8 DEF Next
<1> QED
  BY CaseInit, TypeInvariant, QueueInvariant, ActiveInvariant, <1>1, PTL DEF Spec

\* What MailMatchesPath says of a process that never crashed.
Asked(t)        == IF row[t].decision = None THEN 0 ELSE 1
MailsExactly(t) == row[t].status = "completed" => mail[t] = [hitl |-> Asked(t), final |-> 1]

\* README.md:384-385: a completed case sent exactly one final e-mail, after exactly
\* one alert if a human decided it and none otherwise, whatever nodes, services and
\* resets do.
THEOREM OneMailPerPath ==
  ASSUME Console
  PROVE  Spec /\ []DecidedOnce => [](MailMatchesPath /\ \A t \in Threads : MailsExactly(t))
<1>1. ASSUME TypeInv, CaseInv PROVE \A t \in Threads : MailsExactly(t)
  <2> SUFFICES ASSUME NEW t \in Threads, row[t].status = "completed"
               PROVE  mail[t] = [hitl |-> Asked(t), final |-> 1]
    BY Zenon DEF MailsExactly
  <2>1. mail[t] \in [hitl : Nat, final : Nat]
    BY <1>1 DEF TypeInv, TypeOK
  <2>2. Mailed(t, Asked(t), 1)
    BY <1>1 DEF CaseInv, CaseOk, Reported, Asked
  <2> QED
    BY <2>1, <2>2 DEF Mailed
<1>2. ASSUME TypeInv, \A t \in Threads : MailsExactly(t) PROVE MailMatchesPath
  <2> DEFINE told(t) == IF used.crashes = 0 THEN 1 ELSE 1 - Asked(t)
  <2> SUFFICES ASSUME NEW t \in Threads, row[t].status = "completed"
               PROVE  /\ mail[t].hitl \in Asked(t)..(Asked(t) + used.crashes)
                      /\ mail[t].final \in told(t)..(1 + used.crashes)
    BY Zenon DEF MailMatchesPath, Asked
  <2>1. used.crashes \in Nat
    BY <1>2 DEF TypeInv, TypeOK
  <2>2. mail[t].hitl = Asked(t) /\ mail[t].final = 1
    <3>1. MailsExactly(t)
      BY <1>2
    <3>2. mail[t] = [hitl |-> Asked(t), final |-> 1]
      BY <3>1 DEF MailsExactly
    <3> QED
      BY <3>2
  <2>3. Asked(t) \in 0..1
    BY DEF Asked
  <2>4. told(t) \in 0..1
    BY <2>3
  <2> HIDE DEF told
  <2> QED
    BY <2>1, <2>2, <2>3, <2>4
<1> QED
  BY TypeInvariant, CaseInvariant, <1>1, <1>2, PTL

\* execution_handler.py:263, "Human rejected. ERP left unchanged": a case closed by
\* a rejection never changed its order, neither before nor after it was asked about.
THEOREM RejectionChangesNothing ==
  ASSUME Console
  PROVE  Spec /\ []DecidedOnce => []RejectionLeavesErp
<1>1. ASSUME TypeInv, CaseInv, DecidedOnce PROVE RejectionLeavesErp
  <2> SUFFICES ASSUME NEW t \in Threads, row[t].status = "completed",
                      row[t].decision = "rejected", NEW w \in writes, w.thread = t
               PROVE  FALSE
    BY DEF RejectionLeavesErp
  <2> DEFINE q == w.by
  <2>1. CaseOk(t) /\ (q = "auto" \/ q \in Requests)
    BY <1>1 DEF CaseInv, TypeInv, TypeOK
  <2>2. PICK r \in Requests : Decider(r, t) /\ req[r].pc # "accepted"
    BY <2>1 DEF CaseOk, RowAsked, None
  <2>3. req[r].decision = "rejected"
    BY <2>1, <2>2 DEF CaseOk, Requested, Deciding, HasRow, None
  <2>4. q # "auto" /\ Decider(q, t) /\ req[q].decision = "approved"
    BY <2>1, <2>2 DEF CaseOk, Author, Undecided, Decider
  <2> HIDE DEF q
  <2>5. q = r
    BY <1>1, <2>1, <2>2, <2>4 DEF DecidedOnce
  <2> QED
    BY <2>3, <2>4, <2>5
<1> QED
  BY TypeInvariant, CaseInvariant, <1>1, PTL

-----------------------------------------------------------------------------
(* The life of a case, while nobody resets investigations *)

\* No row goes, so a request has the row of its case.
Kept == used.resets = 0 /\ \A r \in Requests : req[r].pc # "idle" => HasRow(req[r].thread)

LEMMA RowsStay ==
  ASSUME TypeInv, Console, MaxResets = 0, [Next]_vars
  PROVE  RowsKept /\ used'.resets = used.resets /\ ~Administration
<1>types. TypeOK /\ row \in [Threads -> Row] /\ used.resets \in Nat /\ NoRow \in Row
  BY NoRowType DEF TypeInv, TypeOK
<1>reset. ~Administration
  BY <1>types DEF Administration, ResetInvestigations, ResetErpOrders, FeedErpOrder, UseReset
<1>same. ASSUME row' = row, Fault \/ UNCHANGED used PROVE RowsKept /\ used'.resets = used.resets
  BY <1>same, <1>types, ResetsOnlyGrow DEF RowsKept, HasRow
<1>1. ASSUME NEW t \in Threads, Simulate(t) PROVE RowsKept /\ used'.resets = used.resets
  <2>1. CASE InsertExecution(t)
    BY <2>1, <1>types DEF InsertExecution, RowsKept, HasRow, Row, None
  <2>2. CASE ~InsertExecution(t)
    <3>1. row' = row /\ (Fault \/ UNCHANGED used)
      BY <1>1, <2>2 DEF Simulate, CheckActive, PublishEvent, PublishFails
    <3> QED
      BY <3>1, <1>same
  <2> QED
    BY <2>1, <2>2
<1>2. CASE ConsumerStep
  BY <1>2, <1>reset, ConsumerKeepsRows
<1>3. ASSUME NEW a \in Actors, GraphStep(a) PROVE RowsKept /\ used'.resets = used.resets
  BY <1>3, GraphFrameVars, GraphKeepsResets DEF graphUnchanged, RowsKept, HasRow
<1>4. ASSUME NEW r \in Requests, NEW t \in Threads, NEW d \in Decision, AcceptDecision(r, t, d)
      PROVE  RowsKept /\ used'.resets = used.resets
  BY <1>4, <1>same DEF AcceptDecision
<1>5. ASSUME NEW r \in Requests, ResumeStep(r) PROVE RowsKept /\ used'.resets = used.resets
  BY <1>5, ResumeKeepsRows
<1>6. CASE UNCHANGED vars
  BY <1>6, <1>reset, <1>same DEF vars
<1> QED
  BY <1>types, <1>reset, <1>1, <1>2, <1>3, <1>4, <1>5, <1>6, NoCrash DEF Next

LEMMA KeptInvariant ==
  ASSUME Console, MaxResets = 0
  PROVE  Spec => []Kept
<1>1. Init => Kept
  BY UnsentType DEF Init, Kept
<1>2. ASSUME TypeInv, Kept, [Next]_vars PROVE Kept'
  <2>rows. RowsKept /\ used'.resets = used.resets
    BY <1>2, RowsStay
  <2>same. ASSUME req' = req PROVE Kept'
    BY <1>2, <2>rows, <2>same DEF Kept, RowsKept, HasRow, TypeInv, RequestsBusy
  <2>1. ASSUME NEW r \in Requests, NEW t \in Threads, NEW d \in Decision, AcceptDecision(r, t, d)
        PROVE  Kept'
    <3>1. /\ HasRow(t)' /\ \A q \in Requests : q # r => req'[q] = req[q]
      BY <1>2, <2>1, <2>rows DEF AcceptDecision, HasRow, TypeInv, TypeOK, RowsKept
    <3>2. req'[r].thread = t
      BY <1>2, <2>1, UnsentType DEF AcceptDecision, TypeInv, TypeOK, Request
    <3> QED
      BY <1>2, <2>rows, <3>1, <3>2 DEF Kept, RowsKept, HasRow, TypeInv, RequestsBusy
  <2>2. ASSUME NEW r \in Requests, ResumeStep(r) PROVE Kept'
    <3>1. PICK t \in Threads : t = req[r].thread
      BY <1>2, <2>2 DEF ResumeStep, RecordDecision, LoadCase, ApplyErp, PushState, ResumeGraph,
                        FinishDecision, RequestFails, FailCase, TypeInv, RequestsBusy
    <3>2. /\ req[r].pc # "idle" /\ req'[r].thread = t
          /\ \A q \in Requests : q # r => req'[q] = req[q]
      BY <1>2, <2>2, <3>1, ResumeFrame DEF Decider
    <3> QED
      BY <1>2, <2>rows, <3>1, <3>2 DEF Kept, RowsKept, HasRow, TypeInv, RequestsBusy
  <2>3. CASE ~(\/ \E r \in Requests, t \in Threads, d \in Decision : AcceptDecision(r, t, d)
               \/ \E r \in Requests : ResumeStep(r))
    <3>1. ASSUME NEW t \in Threads, Simulate(t) PROVE req' = req
      BY <3>1 DEF Simulate, CheckActive, InsertExecution, PublishEvent, PublishFails
    <3>2. ASSUME ConsumerStep PROVE UNCHANGED req
      BY <3>2, Zenon
         DEF ConsumerStep, Poll, GetGraphFails, MarkRunning, StartGraph, ReadOutcome,
             PersistOutcome, HandlerFails, MarkFailed, MarkFailedFails, PublishToDlq,
             CommitOffset, LoopFails
    <3>3. ASSUME NEW a \in Actors, GraphStep(a) PROVE req' = req
      BY <3>3, GraphFrameVars DEF graphUnchanged
    <3>4. ~Administration /\ ~Crash
      BY <1>2, RowsStay, NoCrash DEF TypeInv
    <3> QED
      BY <1>2, <2>3, <2>same, <3>1, <3>2, <3>3, <3>4 DEF Next, vars
  <2> QED
    BY <2>1, <2>2, <2>3
<1> QED
  BY TypeInvariant, <1>1, <1>2, PTL DEF Spec

LEMMA AuthorsSame ==
  ASSUME NEW t \in Threads, \A w : w.thread = t => (w \in writes' <=> w \in writes)
  PROVE  AuthorsOf(t)' = AuthorsOf(t)
BY DEF AuthorsOf

LEMMA NoAuthors ==
  ASSUME NEW t \in Threads, NoWrites(t)
  PROVE  AuthorsOf(t) = {}
BY DEF AuthorsOf, NoWrites

LEMMA LifeStutter ==
  ASSUME NEW t \in Threads, row'[t] = row[t],
         \A w : w.thread = t => (w \in writes' <=> w \in writes)
  PROVE  CaseStep(t)
BY AuthorsSame DEF CaseStep, Case!vars

LEMMA LifeSimulate ==
  ASSUME TypeInv, ActiveInv, NEW u \in Threads, Simulate(u), NEW t \in Threads
  PROVE  CaseStep(t)
<1>types. row \in [Threads -> Row] /\ NoRow \in Row
  BY NoRowType DEF TypeInv, TypeOK
<1>writes. writes' = writes
  BY DEF Simulate, CheckActive, InsertExecution, PublishEvent, PublishFails, erpVars
<1>1. CASE InsertExecution(u) /\ u = t
  <2>1. row[t].status = None /\ row[t].decision = None
    BY <1>1 DEF InsertExecution, ActiveInv, RowLast, NoRow
  <2>2. row'[t].status = "running" /\ row'[t].decision = None
    BY <1>1, <1>types DEF InsertExecution, NoRow, Row
  <2> QED
    BY <1>writes, <2>1, <2>2, AuthorsSame DEF CaseStep, Case!Next, Case!Open
<1>2. CASE ~(InsertExecution(u) /\ u = t)
  <2>1. row'[t] = row[t]
    BY <1>2, <1>types DEF Simulate, CheckActive, InsertExecution, PublishEvent, PublishFails
  <2> QED
    BY <1>writes, <2>1, LifeStutter
<1> QED
  BY <1>1, <1>2

\* The consumer asks about the case in hand or closes it.
LEMMA LifeConsumer ==
  ASSUME TypeInv, ActiveInv, CaseInv, ConsumerStep, NEW t \in Threads
  PROVE  CaseStep(t)
<1>types. row \in [Threads -> Row] /\ (handler.pc # "idle" => handler.thread \in Threads)
  BY DEF TypeInv, TypeOK, HandlerBusy
<1>writes. writes' = writes
  BY Zenon DEF ConsumerStep, Poll, GetGraphFails, MarkRunning, StartGraph, ReadOutcome,
               PersistOutcome, HandlerFails, MarkFailed, MarkFailedFails, PublishToDlq,
               CommitOffset, LoopFails, erpVars
<1>same. ASSUME row'[t] = row[t] PROVE CaseStep(t)
  BY <1>same, <1>writes, LifeStutter
<1>hand. ASSUME InHand(t), HasRow(t)
         PROVE  CaseOk(t) /\ row[t].status = "running"
  BY <1>hand, InHandFacts DEF HasRow, CaseInv
<1>1. CASE MarkRunning
  <2>1. row[handler.thread].status \in {None, "running"}
    BY <1>1, <1>types, InHandFacts DEF MarkRunning, InHand
  <2>2. row'[t] = row[t]
    BY <1>1, <1>types, <2>1 DEF MarkRunning, handlerThread, HasRow, Row
  <2> QED
    BY <2>2, <1>same
<1>2. CASE PersistOutcome
  <2> DEFINE final == run[Consumer].values
             outcome == OutcomeStatus(final, handler.interrupted)
             integ == final.integ
  <2>1. CASE handler.thread = t /\ HasRow(t)
    <3>1. InHand(t) /\ handler.pc = "persist"
      BY <1>2, <2>1 DEF PersistOutcome, InHand
    <3>2. CaseOk(t) /\ row[t].status = "running"
      BY <1>hand, <2>1, <3>1
    <3>3. row' = [row EXCEPT ![t].integ = integ, ![t].status = outcome]
      BY <1>2, <2>1 DEF PersistOutcome, handlerThread
    <3>4. row'[t].status = outcome /\ row'[t].decision = row[t].decision
      <4> HIDE DEF integ, outcome
      <4> QED
        BY <1>types, <3>3 DEF Row
    <3>5. handler.interrupted => NoWrites(t)
      BY <2>1, <3>1, <3>2 DEF CaseOk, InGraph, Investigating, MayAsk
    <3>6. CASE handler.interrupted
      <4>1. row'[t].status = "waiting_human"
        BY <3>4, <3>6 DEF OutcomeStatus
      <4>2. AuthorsOf(t) = {}
        BY <3>5, <3>6, NoAuthors
      <4> QED
        BY <1>writes, <3>2, <3>4, <4>1, <4>2, AuthorsSame DEF CaseStep, Case!Next, Case!Ask
    <3>7. CASE ~handler.interrupted
      <4>1. row'[t].status \in {"completed", "failed"}
        BY <3>4, <3>7 DEF OutcomeStatus
      <4> QED
        BY <1>writes, <3>2, <3>4, <4>1, AuthorsSame DEF CaseStep, Case!Next, Case!Close
    <3> QED
      BY <3>6, <3>7
  <2>2. CASE ~(handler.thread = t /\ HasRow(t))
    <3>1. \/ row' = row
          \/ row' = [row EXCEPT ![handler.thread].integ = integ, ![handler.thread].status = outcome]
      BY <1>2 DEF PersistOutcome, handlerThread
    <3>2. handler.thread = t => row' = row
      BY <1>2, <2>2 DEF PersistOutcome, handlerThread
    <3>3. row'[t] = row[t]
      <4> HIDE DEF integ, outcome
      <4> QED
        BY <1>types, <3>1, <3>2
    <3> QED
      BY <3>3, <1>same
  <2> QED
    BY <2>1, <2>2
<1>3. CASE MarkFailed
  <2>1. CASE handler.thread = t /\ HasRow(t)
    <3>1. InHand(t)
      BY <1>3, <2>1 DEF MarkFailed, InHand
    <3>2. row[t].status = "running"
      BY <1>hand, <2>1, <3>1
    <3>3. row'[t].status = "failed" /\ row'[t].decision = row[t].decision
      BY <1>3, <1>types, <2>1 DEF MarkFailed, handlerThread, Row
    <3> QED
      BY <1>writes, <3>2, <3>3, AuthorsSame DEF CaseStep, Case!Next, Case!Close
  <2>2. CASE ~(handler.thread = t /\ HasRow(t))
    <3>1. row'[t] = row[t]
      BY <1>3, <1>types, <2>2 DEF MarkFailed, handlerThread
    <3> QED
      BY <3>1, <1>same
  <2> QED
    BY <2>1, <2>2
<1>4. CASE ~(MarkRunning \/ PersistOutcome \/ MarkFailed)
  <2>1. row' = row
    BY <1>4, Zenon DEF ConsumerStep, Poll, GetGraphFails, StartGraph, ReadOutcome, HandlerFails,
                       MarkFailedFails, PublishToDlq, CommitOffset, LoopFails
  <2> QED
    BY <2>1, <1>same
<1> QED
  BY <1>1, <1>2, <1>3, <1>4

\* No reset removes the row of the case in hand.
LEMMA HandRow ==
  ASSUME TypeInv, QueueInv, ActiveInv, Kept, EnqueuedCaseHasRow, NEW t \in Threads, InHand(t)
  PROVE  row[t].status = "running"
<1>1. topic[Order(t)][NextOffset] = t /\ NextOffset \in DOMAIN topic[Order(t)]
  BY DEF InHand, QueueInv, InFlightIsNext, InTopic, TypeInv, TypeOK
<1>2. Order(t) \in Orders
  BY EventFields DEF TypeInv
<1>3. HasRow(t)
  BY <1>1, <1>2 DEF EnqueuedCaseHasRow, Kept
<1> QED
  BY <1>3, InHandFacts DEF HasRow

\* Only the handler runs the integration node, for a case that changed nothing.
LEMMA WriterRuns ==
  ASSUME TypeInv, QueueInv, ActiveInv, CaseInv, DecidedOnce, Kept, EnqueuedCaseHasRow,
         NEW a \in Actors, GraphStep(a), AtNode(a, "integration"),
         NEW t \in Threads, run[a].thread = t
  PROVE  /\ a = Consumer /\ handler.pc = "graph" /\ handler.thread = t
         /\ row[t].status = "running" /\ NoWrites(t)
<1>next. run[a].next = "integration"
  BY DEF AtNode
<1>runs. Runner(a, t) /\ CaseOk(t)
  BY RunnerRuns DEF CaseInv
<1>1. a \notin Requests
  <2> SUFFICES ASSUME a \in Requests PROVE FALSE
    OBVIOUS
  <2>1. Decider(a, t) /\ req[a].pc = "graph"
    BY <1>runs, ActorAssumption DEF Runner
  <2>2. Deciding(a, t)
    BY <1>runs, <2>1 DEF CaseOk, Requested
  <2> QED
    BY <1>next, <2>1, <2>2 DEF Deciding
<1>2. handler.pc = "graph" /\ handler.thread = t /\ a = Consumer
  BY <1>runs, <1>1 DEF Runner
<1>3. row[t].status = "running"
  BY <1>2, HandRow DEF InHand
<1>4. NoWrites(t)
  BY <1>next, <1>runs, <1>2 DEF CaseOk, InGraph, Investigating, MayAsk
<1> QED
  BY <1>2, <1>3, <1>4

\* The graph changes an order only for a case that runs, and before it would ask.
LEMMA LifeGraph ==
  ASSUME TypeInv, QueueInv, ActiveInv, CaseInv, DecidedOnce, Kept, EnqueuedCaseHasRow,
         NEW a \in Actors, GraphStep(a), NEW t \in Threads
  PROVE  CaseStep(t)
<1>row. row' = row
  BY GraphFrameVars DEF graphUnchanged
<1>runs. Runner(a, run[a].thread) /\ run[a].thread \in Threads
  BY RunnerRuns
<1>1. CASE \A w : w.thread = t => (w \in writes' <=> w \in writes)
  BY <1>row, <1>1, LifeStutter
<1>2. CASE ~\A w : w.thread = t => (w \in writes' <=> w \in writes)
  <2>1. PICK n \in Node : AtNode(a, n) /\ NodeEffect(a, n)
    BY <1>2, GraphEffect DEF SavesRun
  <2>2. /\ n = "integration" /\ run[a].thread = t
        /\ \E w : writes' = writes \cup {w} /\ w.thread = t /\ w.by = "auto"
    BY <1>2, <2>1 DEF NodeEffect
  <2>3. PICK w : writes' = writes \cup {w} /\ w.thread = t /\ w.by = "auto"
    BY <2>2
  <2>4. row[t].status = "running" /\ NoWrites(t)
    BY <2>1, <2>2, WriterRuns
  <2>5. AuthorsOf(t) = {} /\ AuthorsOf(t)' = {"auto"}
    BY <2>3, <2>4 DEF AuthorsOf, NoWrites
  <2> QED
    BY <1>row, <2>4, <2>5 DEF CaseStep, Case!Next, Case!UpdateAlone
<1> QED
  BY <1>1, <1>2

\* A request decides on the case, changes its order if it was approved, and
\* closes it.
LEMMA LifeResume ==
  ASSUME TypeInv, ActiveInv, CaseInv, DecidedOnce, Kept,
         NEW r \in Requests, ResumeStep(r), NEW t \in Threads
  PROVE  CaseStep(t)
<1> DEFINE d == req[r].decision
<1>types. row \in [Threads -> Row] /\ row[t] \in Row
  BY DEF TypeInv, TypeOK
<1>1. CASE req[r].thread # t
  <2>1. PICK u \in Threads : u = req[r].thread
    BY DEF ResumeStep, RecordDecision, LoadCase, ApplyErp, PushState, ResumeGraph,
           FinishDecision, RequestFails, FailCase, TypeInv, RequestsBusy
  <2>2. row'[t] = row[t] /\ \A w : w.thread = t => (w \in writes' <=> w \in writes)
    BY <1>1, <2>1, ResumeFrame
  <2> QED
    BY <2>2, LifeStutter
<1>2. CASE req[r].thread = t
  <2>frame. Decider(r, t)
    BY <1>2, ResumeFrame
  <2>facts. /\ CaseOk(t) /\ Deciding(r, t) /\ HasRow(t)
            /\ \A q \in Requests : Decider(q, t) => q = r
            /\ \A w \in writes : w.thread = t => req[r].pc \in Settling
    BY <1>2, <2>frame, ResumeFacts DEF Kept, Decider
  <2>same. ASSUME row'[t] = row[t], writes' = writes PROVE CaseStep(t)
    BY <2>same, LifeStutter
  <2>waits. ASSUME req[r].pc # "done" PROVE row[t].status = "waiting_human"
    BY <2>waits, <2>facts DEF Deciding, HasRow
  <2>1. CASE RecordDecision(r)
    <3>1. row[t].decision = None
      BY <2>1, <2>facts DEF RecordDecision, CaseOk, RowAsked
    <3>2. /\ row'[t].status = row[t].status /\ row'[t].decision = d /\ writes' = writes
          /\ req[r].pc = "accepted"
      BY <1>2, <2>1, <2>facts, <1>types DEF RecordDecision, Decided, Row, erpVars
    <3>3. d \in {"approved", "rejected"}
      BY <2>facts DEF Deciding
    <3> QED
      BY <2>waits, <3>1, <3>2, <3>3, AuthorsSame DEF CaseStep, Case!Next, Case!Decide
  <2>2. CASE LoadCase(r)
    <3>1. row[t].decision = d
      BY <2>2, <2>facts DEF LoadCase, Deciding
    <3>2. row'[t] = row[t] /\ writes' = writes
      BY <1>2, <2>2, <2>facts, <3>1, <1>types DEF LoadCase, Row, erpVars
    <3> QED
      BY <2>same, <3>2
  <2>3. CASE ApplyErp(r)
    <3> DEFINE new == [thread |-> t, by |-> r, seen |-> cp[t].values.erp,
                       from |-> erp[Order(t)], to |-> req[r].integ.rec]
    <3>1. row' = row /\ (writes' = writes \/ writes' = writes \cup {new})
      BY <1>2, <2>3 DEF ApplyErp, SetOrder
    <3>2. req[r].pc = "apply" /\ row[t].decision = "approved" /\ NoWrites(t)
      BY <2>3, <2>facts DEF ApplyErp, Deciding, NoWrites, Settling
    <3>3. new.thread = t /\ new.by # "auto"
      BY ActorAssumption
    <3> HIDE DEF new
    <3>4. CASE writes' = writes \cup {new}
      <4>1. AuthorsOf(t)' = {"human"}
        BY <3>2, <3>3, <3>4 DEF AuthorsOf, NoWrites
      <4> QED
        BY <2>waits, <3>1, <3>2, <4>1 DEF CaseStep, Case!Next, Case!UpdateApproved
    <3> QED
      BY <2>same, <3>1, <3>4
  <2>4. CASE PushState(r) \/ ResumeGraph(r) \/ RequestFails(r)
    <3>1. row' = row /\ writes' = writes
      BY <2>4 DEF PushState, ResumeGraph, RequestFails, erpVars
    <3> QED
      BY <2>same, <3>1
  <2>5. CASE FinishDecision(r) \/ FailCase(r)
    <3>1. /\ req[r].pc \in {"graph", "fail"} /\ writes' = writes
          /\ row[t].decision = d /\ d \in {"approved", "rejected"}
      BY <2>5, <2>facts DEF FinishDecision, FailCase, erpVars, Deciding
    <3>2. row'[t].status \in {"completed", "failed"} /\ row'[t].decision = d
      <4>1. CASE FinishDecision(r)
        BY <1>2, <4>1, <1>types, <2>facts DEF FinishDecision, FinalStatus
      <4>2. CASE FailCase(r)
        BY <1>2, <4>2, <1>types, <2>facts, <3>1 DEF FailCase, Row
      <4> QED
        BY <2>5, <4>1, <4>2
    <3> QED
      BY <2>waits, <3>1, <3>2, AuthorsSame DEF CaseStep, Case!Next, Case!Close, None
  <2> QED
    BY <2>1, <2>2, <2>3, <2>4, <2>5 DEF ResumeStep
<1> QED
  BY <1>1, <1>2

\* README.md:59-60, the life of a case.  Unless investigations are reset, whatever
\* nodes fail and however the tasks interleave, a case moves forward only: it asks
\* before anything changed its order, an order changes once, on the pipeline's word
\* or on an approval the row records, and a closed case stays as it is.
THEOREM CasesImplementLifecycle ==
  ASSUME Console, MaxResets = 0
  PROVE  Spec /\ []DecidedOnce => CasesKeepLifecycle
<1>1. Init => \A t \in Threads : Case(t)!Init
  <2> SUFFICES ASSUME Init, NEW t \in Threads PROVE Case(t)!Init
    OBVIOUS
  <2>1. row[t].status = None /\ row[t].decision = None /\ AuthorsOf(t) = {}
    BY DEF Init, NoRow, AuthorsOf
  <2> QED
    BY <2>1 DEF Case!Init
<1>2. ASSUME TypeInv, QueueInv, ActiveInv, CaseInv, Kept, EnqueuedInv, DecidedOnce, [Next]_vars
      PROVE  [\A t \in Threads : CaseStep(t)]_vars
  <2> SUFFICES ASSUME Next, NEW t \in Threads PROVE CaseStep(t)
    BY <1>2
  <2>1. ASSUME NEW u \in Threads, Simulate(u) PROVE CaseStep(t)
    BY <1>2, <2>1, LifeSimulate
  <2>2. CASE ConsumerStep
    BY <1>2, <2>2, LifeConsumer
  <2>3. ASSUME NEW a \in Actors, GraphStep(a) PROVE CaseStep(t)
    BY <1>2, <2>3, LifeGraph DEF EnqueuedInv
  <2>4. ASSUME NEW r \in Requests, NEW u \in Threads, NEW d \in Decision, AcceptDecision(r, u, d)
        PROVE  CaseStep(t)
    BY <2>4, LifeStutter DEF AcceptDecision, erpVars
  <2>5. ASSUME NEW r \in Requests, ResumeStep(r) PROVE CaseStep(t)
    BY <1>2, <2>5, LifeResume
  <2>6. ~Administration /\ ~Crash
    BY <1>2, RowsStay, NoCrash DEF TypeInv
  <2> QED
    BY <2>1, <2>2, <2>3, <2>4, <2>5, <2>6 DEF Next
<1> QED
  BY TypeInvariant, QueueInvariant, ActiveInvariant, CaseInvariant, KeptInvariant,
     EnqueuedInvariant, <1>1, <1>2, PTL DEF Spec, CasesKeepLifecycle

-----------------------------------------------------------------------------
(* What is written was decided against the status the order still has *)

\* The status research saw is the order's; without one nothing is recommended.
Current(t, values) ==
  /\ values.erp \in {None, erp[Order(t)]}
  /\ values.integ.rec # None => values.erp # None

CurrentRun(t) ==
  Investigating /\ handler.thread = t /\ run[Consumer].next \in MayAsk
    => Current(t, run[Consumer].values)

\* Until a request changed the order, what the row recommends is what the
\* checkpoint holds.
Unsettled(t) == \A r \in Requests : Decider(r, t) => req[r].pc \in {"accepted", "load", "apply"}
CurrentWait(t) ==
  row[t].status = "waiting_human" /\ Unsettled(t) =>
    /\ Current(t, cp[t].values)
    /\ row[t].integ.rec = cp[t].values.integ.rec
    /\ \A r \in Requests : Decider(r, t) /\ req[r].pc = "apply" => req[r].integ.rec = row[t].integ.rec

CurrentInv == WritesAreCurrent /\ \A t \in Threads : CurrentRun(t) /\ CurrentWait(t)

\* The policy recommends nothing unless it knows what the order holds.
LEMMA PolicySeen ==
  ASSUME NEW a \in Actors, PolicyOf(a).recommended # None
  PROVE  SeenStatus(a) # None
BY DEF PolicyOf, EvaluateMismatch, Mismatch

\* A step that does not concern case t, nor its order unless t is closed.
LEMMA CurrentFrame ==
  ASSUME NEW t \in Threads, CurrentRun(t), CurrentWait(t),
         UNCHANGED <<event, row[t], cp[t]>>,
         \/ erp'[Order(t)] = erp[Order(t)]
         \/ ~(handler'.pc \in {"graph", "persist"} /\ handler'.thread = t)
            /\ row[t].status # "waiting_human",
         \/ UNCHANGED <<handler, run[Consumer]>>
         \/ ~(handler'.pc \in {"graph", "persist"} /\ handler'.thread = t),
         \A r \in Requests : req'[r] = req[r] \/ (~Decider(r, t) /\ ~Decider(r, t)')
  PROVE  CurrentRun(t)' /\ CurrentWait(t)'
<1>1. CurrentRun(t)'
  BY DEF CurrentRun, Investigating, Current, Order
<1>2. Unsettled(t)' => Unsettled(t)
  BY DEF Unsettled, Decider
<1>3. \A r \in Requests : Decider(r, t)' => Decider(r, t) /\ req'[r] = req[r]
  BY DEF Decider
<1>4. CurrentWait(t)'
  BY <1>2, <1>3 DEF CurrentWait, Current, Order
<1> QED
  BY <1>1, <1>4

\* What a step of the graph that may still ask does to the values it works on.
LEMMA NodeValues ==
  ASSUME TypeInv, NEW a \in Actors, GraphStep(a), run'[a].next \in MayAsk
  PROVE  /\ run[a].next \in MayAsk
         /\ run'[a].values.erp \in {run[a].values.erp, erp[Order(run[a].thread)]}
         /\ \/ run'[a].values.integ = run[a].values.integ
            \/ run'[a].values.integ.rec # None => run'[a].values.erp # None
<1> DEFINE v == run[a].values
           t == run[a].thread
<1>node. {"planner", "research", "browser", "integration", "human_review",
          "reporting", "notification"} \subseteq Node
  BY DEF Node
<1>type. ASSUME NEW n \in Node, AtNode(a, n) PROVE v \in Values
  BY <1>type, AtNodeType
\* A node that leaves with these values.
<1>move. ASSUME NEW n \in Node, AtNode(a, n), NEW values, NEW next,
                NodeDone(a, values, next) \/ NodeSaved(a, values, next),
                n \in MayAsk,
                values.erp \in {v.erp, erp[Order(t)]},
                \/ values.integ = v.integ
                \/ values.integ.rec # None => values.erp # None
         PROVE  /\ run[a].next \in MayAsk
                /\ run'[a].values.erp \in {run[a].values.erp, erp[Order(run[a].thread)]}
                /\ \/ run'[a].values.integ = run[a].values.integ
                   \/ run'[a].values.integ.rec # None => run'[a].values.erp # None
  <2>1. RunMove(a, next, values)
    BY <1>move, NodeMoves
  <2>2. run'[a].values = values /\ run[a].next = n
    BY <1>move, <2>1 DEF RunMove, AtNode
  <2> QED
    BY <1>move, <2>2
<1>1. CASE PlannerNode(a)
  BY <1>1, <1>node, <1>type, <1>move DEF PlannerNode, MayAsk, Succeeded, Values
<1>2. CASE ResearchNode(a)
  <2> DEFINE seen == Succeeded([v EXCEPT !.erp = OrderDetails(t)])
  <2>1. AtNode(a, "research") /\ NodeDone(a, seen, Successor("research"))
    BY <1>2 DEF ResearchNode
  <2>2. seen.erp = erp[Order(t)] /\ seen.integ = v.integ
    BY <1>node, <1>type, <2>1 DEF Succeeded, Values, OrderDetails
  <2> HIDE DEF seen
  <2> QED
    BY <1>node, <1>move, <2>1, <2>2 DEF MayAsk
<1>3. CASE BrowserNode(a)
  <2> DEFINE Evidence(portal) ==
               Succeeded([v EXCEPT
                            !.portal = portal,
                            !.confidence = ComputeConfidence(v.erp # "missing",
                                                             Readable(portal), FALSE, portal)])
  <2>1. /\ AtNode(a, "browser")
        /\ \/ NodeSaved(a, Evidence(event[t].portal), Successor("browser"))
           \/ NodeSaved(a, Evidence("error_collecting_data"), Successor("browser"))
    BY <1>3 DEF BrowserNode
  <2>2. \A portal : Evidence(portal).erp = v.erp /\ Evidence(portal).integ = v.integ
    BY <1>node, <1>type, <2>1 DEF Succeeded, Values
  <2> HIDE DEF Evidence
  <2> QED
    BY <1>node, <1>move, <2>1, <2>2 DEF MayAsk
<1>4. CASE IntegrationPending(a)
  <2> DEFINE rec == PolicyOf(a).recommended
             asked == WithInteg(v, rec, "pending", TRUE)
  <2>1. AtNode(a, "integration") /\ NodeSaved(a, asked, AfterIntegration(a))
    BY <1>4 DEF IntegrationPending
  <2>2. asked.erp = v.erp /\ asked.integ.rec = rec
    <3> HIDE DEF rec
    <3> QED
      BY <1>node, <1>type, <2>1 DEF WithInteg, Succeeded, Values
  <2>3. rec # None => v.erp # None
    BY PolicySeen DEF SeenStatus
  <2> HIDE DEF asked, rec
  <2> QED
    BY <1>node, <1>move, <2>1, <2>2, <2>3 DEF MayAsk
<1>5. CASE IntegrationAuto(a)
  <2>1. /\ AtNode(a, "integration") /\ ~PolicyOf(a).requires_human
        /\ \E values : NodeDone(a, values, AfterIntegration(a))
    BY <1>5 DEF IntegrationAuto
  <2>2. PICK values : NodeDone(a, values, AfterIntegration(a))
    BY <2>1
  <2>3. RunMove(a, AfterIntegration(a), values) /\ AfterIntegration(a) = "reporting"
    BY <1>node, <2>1, <2>2, NodeMoves, AutoReports
  <2> QED
    BY <2>3 DEF RunMove, MayAsk
<1>6. CASE HumanReviewNode(a) \/ ReportingNode(a) \/ NotificationNode(a)
  <2>1. PICK n \in {"human_review", "reporting", "notification"} :
          /\ AtNode(a, n)
          /\ \/ NodeDone(a, Succeeded(v), Successor(n))
             \/ NodeSaved(a, Succeeded(v), Successor(n))
    BY <1>6 DEF HumanReviewNode, ReportingNode, NotificationNode
  <2>2. RunMove(a, Successor(n), Succeeded(v))
    BY <1>node, <2>1, NodeMoves
  <2> QED
    BY <2>1, <2>2 DEF RunMove, MayAsk, Successor, Edges
<1>7. CASE NodeFails(a)
  <2>1. PICK n \in Node \ {"human_review", "integration"} :
          /\ AtNode(a, n)
          /\ NodeSaved(a, IF n = "browser" THEN [Failed(v) EXCEPT !.confidence = 35]
                                          ELSE Failed(v), Successor(n))
    BY <1>7 DEF NodeFails
  <2>2. PICK values : /\ NodeSaved(a, values, Successor(n))
                      /\ values.erp = v.erp /\ values.integ = v.integ
    <3>1. v \in Values
      BY <1>type, <2>1
    <3>2. CASE n = "browser"
      <4> DEFINE values == [Failed(v) EXCEPT !.confidence = 35]
      <4>1. values.erp = v.erp /\ values.integ = v.integ
        BY <3>1 DEF Failed, Values
      <4>2. NodeSaved(a, values, Successor(n))
        BY <2>1, <3>2
      <4> HIDE DEF values
      <4> QED
        BY <4>1, <4>2
    <3>3. CASE n # "browser"
      <4>1. Failed(v).erp = v.erp /\ Failed(v).integ = v.integ
        BY <3>1 DEF Failed, Values
      <4> QED
        BY <2>1, <3>3, <4>1
    <3> QED
      BY <3>2, <3>3
  <2>3. run'[a].next = Successor(n)
    BY <2>1, <2>2, NodeMoves DEF RunMove
  <2>4. n \in MayAsk
    BY <2>1, <2>3 DEF MayAsk, Successor, Edges, Node
  <2> QED
    BY <1>move, <2>1, <2>2, <2>4
<1>8. CASE IntegrationFails(a)
  <2>1. Failed(v).erp = v.erp /\ Failed(v).integ = v.integ
    BY <1>8, <1>node, <1>type DEF IntegrationFails, Failed, Values
  <2> QED
    BY <1>8, <1>node, <1>move, <2>1 DEF IntegrationFails, MayAsk
<1>9. CASE SaveCheckpoint(a)
  <2>1. run'[a].next = run[a].next /\ run'[a].values = v
    BY <1>9 DEF SaveCheckpoint, TypeInv, TypeOK, Run
  <2> QED
    BY <2>1
<1> QED
  BY <1>1, <1>2, <1>3, <1>4, <1>5, <1>6, <1>7, <1>8, <1>9 DEF GraphStep

\* What the integration node writes, it decided against what the order holds.
LEMMA AutoIsCurrent ==
  ASSUME TypeInv, QueueInv, ActiveInv, CaseInv, DecidedOnce, Kept, EnqueuedCaseHasRow,
         CurrentInv, NEW a \in Actors, GraphStep(a), NEW t \in Threads, run[a].thread = t
  PROVE  /\ WritesAreCurrent'
         /\ \A o \in Orders : o # Order(t) => erp'[o] = erp[o]
         /\ erp' = erp \/ (row[t].status = "running" /\ handler.thread = t)
<1>old. WritesAreCurrent
  BY DEF CurrentInv
<1>1. CASE UNCHANGED <<erp, writes>>
  BY <1>1, <1>old DEF WritesAreCurrent
<1>2. CASE ~UNCHANGED <<erp, writes>>
  <2> DEFINE rec == PolicyOf(a).recommended
             seen == SeenStatus(a)
             new == IF rec # None THEN rec ELSE seen
             write == [thread |-> t, by |-> "auto", seen |-> seen,
                       from |-> erp[Order(t)], to |-> new]
  <2>1. IntegrationAuto(a)
    BY <1>2 DEF GraphStep, PlannerNode, ResearchNode, BrowserNode, IntegrationPending,
                HumanReviewNode, ReportingNode, NotificationNode, NodeFails, IntegrationFails,
                SaveCheckpoint, erpVars
  <2>2. /\ AtNode(a, "integration") /\ new # None
        /\ erp' = [erp EXCEPT ![Order(t)] = new] /\ writes' = writes \cup {write}
    BY <1>2, <2>1 DEF IntegrationAuto, UpdateOrderStatus, SetOrder, erpVars
  <2>3. /\ a = Consumer /\ handler.pc = "graph" /\ handler.thread = t
        /\ row[t].status = "running"
    BY <2>2, WriterRuns
  <2>4. Current(t, run[a].values)
    BY <2>2, <2>3 DEF CurrentInv, CurrentRun, Investigating, AtNode, MayAsk
  <2>5. seen # None
    BY <2>2, PolicySeen
  <2>6. seen = erp[Order(t)]
    BY <2>4, <2>5 DEF SeenStatus, Current, None, OrderStatus
  <2>7. write.from = write.seen
    BY <2>6
  <2>8. erp \in [Orders -> OrderStatus \cup {"missing"}]
    BY DEF TypeInv, TypeOK
  <2> HIDE DEF write, new
  <2> QED
    BY <1>old, <2>2, <2>3, <2>7, <2>8 DEF WritesAreCurrent
<1> QED
  BY <1>1, <1>2

LEMMA CurrentGraph ==
  ASSUME TypeInv, QueueInv, ActiveInv, CaseInv, DecidedOnce, Kept, EnqueuedCaseHasRow,
         CurrentInv, NEW a \in Actors, GraphStep(a)
  PROVE  CurrentInv'
<1>runs. Runner(a, run[a].thread) /\ run[a].thread \in Threads
  BY RunnerRuns
<1>frame. UNCHANGED <<event, row, handler, req>>
  BY GraphFrameVars DEF graphUnchanged, intakeVars
<1>effect. SavesRun(a) \/ \E n \in Node : AtNode(a, n) /\ NodeEffect(a, n)
  BY GraphEffect
<1>others. /\ \A b \in Actors : b # a => run'[b] = run[b]
           /\ \A u \in Threads : u # run[a].thread => cp'[u] = cp[u]
           /\ run'[a].thread = run[a].thread
  BY <1>effect DEF SavesRun, NodeEffect, RunMove
<1>auto. /\ WritesAreCurrent'
         /\ \A o \in Orders : o # Order(run[a].thread) => erp'[o] = erp[o]
         /\ erp' = erp \/ (row[run[a].thread].status = "running" /\ handler.thread = run[a].thread)
  BY <1>runs, AutoIsCurrent
<1>1. ASSUME NEW t \in Threads PROVE CurrentRun(t)' /\ CurrentWait(t)'
  <2>was. CurrentRun(t) /\ CurrentWait(t) /\ Order(t) \in Orders
    BY EventFields DEF CurrentInv, TypeInv
  <2>1. CASE run[a].thread # t
    <3>1. \/ UNCHANGED <<handler, run[Consumer]>>
          \/ ~(handler'.pc \in {"graph", "persist"} /\ handler'.thread = t)
      BY <1>runs, <1>frame, <1>others, <2>1, ActorAssumption DEF Runner, Actors
    <3>2. \/ erp'[Order(t)] = erp[Order(t)]
          \/ ~(handler'.pc \in {"graph", "persist"} /\ handler'.thread = t)
             /\ row[t].status # "waiting_human"
      BY <1>runs, <1>frame, <1>auto, <2>was, <2>1
         DEF ActiveInv, OneActivePerOrder, IsActive, Active
    <3>3. UNCHANGED <<row[t], cp[t]>>
      BY <1>frame, <1>others, <2>1
    <3> QED
      BY <1>frame, <2>was, <3>1, <3>2, <3>3, CurrentFrame
  <2>2. CASE run[a].thread = t /\ a = Consumer
    <3>1. /\ handler.pc = "graph" /\ handler.thread = t
      BY <1>runs, <2>2, ActorAssumption DEF Runner
    <3>2. row[t].status # "waiting_human"
      BY <3>1, InHandFacts DEF InHand, None
    <3>3. ASSUME run'[a].next \in MayAsk PROVE Current(t, run[a].values)'
      <4>1. Current(t, run[a].values)
        BY <2>was, <2>2, <3>1, <3>3, NodeValues DEF CurrentRun, Investigating
      <4>2. /\ run'[a].values.erp \in {run[a].values.erp, erp[Order(t)]}
            /\ \/ run'[a].values.integ = run[a].values.integ
               \/ run'[a].values.integ.rec # None => run'[a].values.erp # None
        BY <2>2, <3>3, NodeValues
      <4>3. erp[Order(t)] # None
        BY <2>was DEF TypeInv, TypeOK, None, OrderStatus
      <4>4. erp' = erp
        <5>1. CASE ~IntegrationAuto(a)
          BY <5>1 DEF GraphStep, PlannerNode, ResearchNode, BrowserNode, IntegrationPending,
                      HumanReviewNode, ReportingNode, NotificationNode, NodeFails,
                      IntegrationFails, SaveCheckpoint, erpVars
        <5>2. ~IntegrationAuto(a)
          <6> SUFFICES ASSUME IntegrationAuto(a) PROVE FALSE
            OBVIOUS
          <6>1. /\ AtNode(a, "integration") /\ ~PolicyOf(a).requires_human
                /\ \E values : NodeDone(a, values, AfterIntegration(a))
            BY DEF IntegrationAuto
          <6>2. PICK values : NodeDone(a, values, AfterIntegration(a))
            BY <6>1
          <6>3. RunMove(a, AfterIntegration(a), values) /\ AfterIntegration(a) = "reporting"
            BY <6>1, <6>2, NodeMoves, AutoReports DEF Node
          <6> QED
            BY <3>3, <6>3 DEF RunMove, MayAsk
        <5> QED
          BY <5>1, <5>2
      <4> QED
        BY <1>frame, <4>1, <4>2, <4>3, <4>4 DEF Current, Order
    <3> QED
      BY <1>frame, <2>2, <3>2, <3>3 DEF CurrentRun, CurrentWait
  <2>3. CASE run[a].thread = t /\ a # Consumer
    <3>1. a \in Requests /\ Decider(a, t) /\ req[a].pc = "graph"
      BY <1>runs, <2>3 DEF Runner
    <3>2. ~InHand(t)
      BY <3>1, InHandFacts
    <3>3. ~Unsettled(t)'
      BY <1>frame, <3>1 DEF Unsettled, Decider
    <3> QED
      BY <1>frame, <3>2, <3>3 DEF CurrentRun, CurrentWait, Investigating, InHand
  <2> QED
    BY <2>1, <2>2, <2>3
<1> QED
  BY <1>auto, <1>1 DEF CurrentInv

LEMMA CurrentSimulate ==
  ASSUME TypeInv, ActiveInv, CurrentInv, NEW u \in Threads, Simulate(u)
  PROVE  CurrentInv'
<1>types. row \in [Threads -> Row] /\ NoRow \in Row
  BY NoRowType DEF TypeInv, TypeOK
<1>frame. UNCHANGED <<event, handler, run, req, cp, erp, writes>>
  BY DEF Simulate, CheckActive, InsertExecution, PublishEvent, PublishFails, erpVars
<1>1. ASSUME NEW t \in Threads PROVE CurrentRun(t)' /\ CurrentWait(t)'
  <2>was. CurrentRun(t) /\ CurrentWait(t)
    BY DEF CurrentInv
  <2>1. CASE InsertExecution(u) /\ u = t
    <3>1. row'[t].status = "running"
      BY <1>types, <2>1 DEF InsertExecution, Row
    <3> QED
      BY <1>frame, <2>was, <3>1 DEF CurrentRun, CurrentWait, Investigating, Current, Order
  <2>2. CASE ~(InsertExecution(u) /\ u = t)
    <3>1. row'[t] = row[t]
      BY <1>types, <2>2 DEF Simulate, CheckActive, InsertExecution, PublishEvent, PublishFails
    <3> QED
      BY <1>frame, <2>was, <3>1, CurrentFrame
  <2> QED
    BY <2>1, <2>2
<1> QED
  BY <1>frame, <1>1 DEF CurrentInv, WritesAreCurrent

LEMMA CurrentAccept ==
  ASSUME TypeInv, CurrentInv, NEW r \in Requests, NEW u \in Threads, NEW d \in Decision,
         AcceptDecision(r, u, d)
  PROVE  CurrentInv'
<1> DEFINE sent == [Unsent EXCEPT !.pc = "accepted", !.thread = u, !.decision = d]
<1>1. /\ req[r].pc = "idle" /\ req' = [req EXCEPT ![r] = sent]
      /\ UNCHANGED <<event, row, handler, run, cp, erp, writes>>
  BY DEF AcceptDecision, erpVars, intakeVars
<1>2. sent.pc = "accepted" /\ sent.thread = u
  BY UnsentType DEF Request
<1> HIDE DEF sent
<1>3. /\ req'[r].pc = "accepted" /\ req'[r].thread = u
      /\ \A q \in Requests : q # r => req'[q] = req[q]
  BY <1>1, <1>2 DEF TypeInv, TypeOK
<1>4. ASSUME NEW t \in Threads PROVE CurrentRun(t)' /\ CurrentWait(t)'
  <2>was. CurrentRun(t) /\ CurrentWait(t)
    BY DEF CurrentInv
  <2>1. Unsettled(t)' => Unsettled(t)
    BY <1>1, <1>3 DEF Unsettled, Decider
  <2>2. \A q \in Requests : Decider(q, t)' /\ req'[q].pc = "apply"
                              => Decider(q, t) /\ req[q].pc = "apply" /\ req'[q] = req[q]
    BY <1>3 DEF Decider
  <2> QED
    BY <1>1, <2>was, <2>1, <2>2 DEF CurrentRun, CurrentWait, Investigating, Current, Order
<1> QED
  BY <1>1, <1>4 DEF CurrentInv, WritesAreCurrent

\* The alert and the recommendation come from the run that was checkpointed.
LEMMA CurrentConsumer ==
  ASSUME TypeInv, ActiveInv, CaseInv, CurrentInv, ConsumerStep
  PROVE  CurrentInv'
<1>types. /\ row \in [Threads -> Row] /\ handler \in Handler
          /\ run \in [Actors -> Run] /\ cp \in [Threads -> Checkpoint] /\ Consumer \in Actors
          /\ handler.pc # "idle" => handler.thread \in Threads
  BY DEF TypeInv, TypeOK, HandlerBusy, Actors
<1>frame. UNCHANGED <<event, req, erp, writes>>
  BY Zenon DEF ConsumerStep, Poll, GetGraphFails, MarkRunning, StartGraph, ReadOutcome,
               PersistOutcome, HandlerFails, MarkFailed, MarkFailedFails, PublishToDlq,
               CommitOffset, LoopFails, erpVars, intakeVars
<1>to. ASSUME NEW pc, HandlerTo(pc) PROVE handler'.pc = pc /\ handler'.thread = handler.thread
  BY <1>to, <1>types DEF HandlerTo, Handler
<1>written. WritesAreCurrent'
  BY <1>frame DEF CurrentInv, WritesAreCurrent
<1>was. \A t \in Threads : CurrentRun(t) /\ CurrentWait(t)
  BY DEF CurrentInv
<1>other. ASSUME NEW t \in Threads, UNCHANGED <<row[t], cp[t]>>,
                 ~(handler'.pc \in {"graph", "persist"} /\ handler'.thread = t)
          PROVE  CurrentRun(t)' /\ CurrentWait(t)'
  BY <1>other, <1>frame, <1>was, CurrentFrame
<1> SUFFICES ASSUME NEW t \in Threads PROVE CurrentRun(t)' /\ CurrentWait(t)'
  BY <1>written DEF CurrentInv
<1>hand. InHand(t) => row[t].status \in {None, "running"} /\ CaseOk(t)
  BY InHandFacts DEF CaseInv
<1>1. CASE MarkRunning
  <2>1. row[handler.thread].status \in {None, "running"}
    BY <1>1, <1>types, InHandFacts DEF MarkRunning, InHand
  <2>2. row'[t] = row[t]
    BY <1>1, <1>types, <2>1 DEF MarkRunning, handlerThread, HasRow, Row
  <2>3. handler'.pc = "start" /\ UNCHANGED cp
    BY <1>1, <1>to DEF MarkRunning
  <2> QED
    BY <2>2, <2>3, <1>other
<1>2. CASE StartGraph
  <2>1. CASE handler.thread = t
    <3> DEFINE fresh == [NoRun EXCEPT !.thread = t, !.next = "planner"]
    <3>1. row' = row /\ row[t].status # "waiting_human"
      BY <1>2, <1>hand, <2>1 DEF StartGraph, InHand, None
    <3>2. run' = [run EXCEPT ![Consumer] = fresh]
      BY <1>2, <2>1 DEF StartGraph, handlerThread
    <3>3. fresh.values = InitialState
      BY NoRunType DEF Run, NoRun
    <3> HIDE DEF fresh
    <3>4. run'[Consumer].values.erp = None /\ run'[Consumer].values.integ.rec = None
      BY <1>types, <3>2, <3>3 DEF InitialState, NoInteg
    <3> QED
      BY <3>1, <3>4 DEF CurrentRun, CurrentWait, Current
  <2>2. CASE handler.thread # t
    <3>1. UNCHANGED <<row, cp[t]>>
      BY <1>2, <1>types, <2>2 DEF StartGraph, handlerThread
    <3>2. handler'.thread # t
      BY <1>2, <1>to, <2>2 DEF StartGraph
    <3> QED
      BY <3>1, <3>2, <1>other
  <2> QED
    BY <2>1, <2>2
<1>3. CASE ReadOutcome
  <2>1. UNCHANGED <<row, cp, run>> /\ handler.pc = "graph" /\ handler'.thread = handler.thread
    BY <1>3, <1>types DEF ReadOutcome, HandlerTo, Handler
  <2> QED
    BY <1>frame, <1>was, <2>1
       DEF CurrentRun, CurrentWait, Investigating, Current, Order, Unsettled, Decider
<1>4. CASE PersistOutcome
  <2> DEFINE final == run[Consumer].values
             outcome == OutcomeStatus(final, handler.interrupted)
             integ == final.integ
  <2>pc. handler'.pc \in {"commit", "fail"} /\ cp' = cp
    <3>1. HandlerTo("commit") \/ HandlerTo("fail")
      BY <1>4 DEF PersistOutcome
    <3> QED
      BY <1>4, <1>to, <3>1 DEF PersistOutcome
  <2>1. CASE handler.thread = t /\ HasRow(t)
    <3>1. InHand(t) /\ handler.pc = "persist" /\ run' = run
      BY <1>4, <2>1 DEF PersistOutcome, InHand
    <3>2. row' = [row EXCEPT ![t].integ = integ, ![t].status = outcome]
      BY <1>4, <2>1 DEF PersistOutcome, handlerThread
    <3>3. row'[t].status = outcome /\ row'[t].integ = integ
      <4> HIDE DEF integ, outcome
      <4> QED
        BY <1>types, <3>2 DEF Row
    <3>4. CurrentRun(t)'
      BY <2>pc DEF CurrentRun, Investigating
    <3>5. CurrentWait(t)'
      <4> SUFFICES ASSUME row'[t].status = "waiting_human" PROVE CurrentWait(t)'
        BY DEF CurrentWait
      <4>1. handler.interrupted
        BY <3>3 DEF OutcomeStatus
      <4>2. run[Consumer].next = "human_review" /\ cp[t].values = final
        BY <1>hand, <2>1, <3>1, <4>1 DEF CaseOk, InGraph, Investigating, SavedRun, RunDone
      <4>3. Current(t, final)
        BY <1>was, <2>1, <3>1, <4>2 DEF CurrentRun, Investigating, MayAsk
      <4>4. \A r \in Requests : ~Decider(r, t)'
        BY <1>frame, <3>1, InHandFacts DEF Decider
      <4> QED
        BY <1>frame, <2>pc, <3>3, <4>2, <4>3, <4>4 DEF CurrentWait, Current, Order
    <3> QED
      BY <3>4, <3>5
  <2>2. CASE ~(handler.thread = t /\ HasRow(t))
    <3>1. row'[t] = row[t]
      <4>1. \/ row' = row
            \/ row' = [row EXCEPT ![handler.thread].integ = integ,
                                  ![handler.thread].status = outcome]
        BY <1>4 DEF PersistOutcome, handlerThread
      <4>2. handler.thread = t => row' = row
        BY <1>4, <2>2 DEF PersistOutcome, handlerThread
      <4> HIDE DEF integ, outcome
      <4> QED
        BY <1>types, <4>1, <4>2
    <3> QED
      BY <2>pc, <3>1, <1>other
  <2> QED
    BY <2>1, <2>2
<1>5. CASE MarkFailed
  <2>1. handler'.pc = "dlq" /\ cp' = cp
    BY <1>5, <1>to DEF MarkFailed
  <2>2. row'[t] = row[t] \/ row'[t].status = "failed"
    BY <1>5, <1>types DEF MarkFailed, handlerThread, Row
  <2>3. CASE row'[t].status = "failed"
    BY <2>1, <2>3 DEF CurrentRun, CurrentWait, Investigating
  <2> QED
    BY <2>1, <2>2, <2>3, <1>other
<1>6. ASSUME NEW o \in Orders, Poll(o) PROVE CurrentRun(t)' /\ CurrentWait(t)'
  <2>1. UNCHANGED <<row, cp>>
    BY <1>6 DEF Poll
  <2>2. handler'.pc = "mark"
    BY <1>6, IdleType DEF Poll, Handler
  <2> QED
    BY <2>1, <2>2, <1>other
<1>7. CASE CommitOffset
  <2>1. UNCHANGED <<row, cp>> /\ handler'.pc = "idle"
    BY <1>7, IdleType DEF CommitOffset
  <2> QED
    BY <2>1, <1>other
<1>8. ASSUME NEW pc \in {"fail", "dlq", "commit_dlq", "dead"}, HandlerTo(pc), UNCHANGED <<row, cp>>
      PROVE  CurrentRun(t)' /\ CurrentWait(t)'
  BY <1>8, <1>to, <1>other
<1> QED
  BY <1>1, <1>2, <1>3, <1>4, <1>5, <1>6, <1>7, <1>8
     DEF ConsumerStep, GetGraphFails, HandlerFails, MarkFailedFails, PublishToDlq, LoopFails

\* An approval is applied to the status the case was asked about: no other case
\* of the order is open, and an open case changes its order once.
LEMMA ApplyIsCurrent ==
  ASSUME TypeInv, ActiveInv, CaseInv, DecidedOnce, Kept, CurrentInv,
         NEW r \in Requests, ApplyErp(r), NEW t \in Threads, req[r].thread = t
  PROVE  /\ WritesAreCurrent'
         /\ row[t].status = "waiting_human"
         /\ \A o \in Orders : o # Order(t) => erp'[o] = erp[o]
<1> DEFINE write == [thread |-> t, by |-> r, seen |-> cp[t].values.erp,
                     from |-> erp[Order(t)], to |-> req[r].integ.rec]
<1>1. req[r].pc = "apply" /\ Decider(r, t)
  BY DEF ApplyErp, Decider
<1>2. HasRow(t) /\ req[r].integ.rec # None
  BY <1>1 DEF Kept, TypeInv, ApplyHasStatus
<1>3. Deciding(r, t) /\ \A q \in Requests : Decider(q, t) => q = r
  BY <1>1, ResumeFacts
<1>4. row[t].status = "waiting_human" /\ Unsettled(t)
  BY <1>1, <1>2, <1>3 DEF Deciding, HasRow, Unsettled
<1>5. Current(t, cp[t].values) /\ req[r].integ.rec = cp[t].values.integ.rec
  BY <1>1, <1>4 DEF CurrentInv, CurrentWait
<1>6. write.from = write.seen
  BY <1>2, <1>5 DEF Current
<1>7. \/ UNCHANGED <<erp, writes>>
      \/ erp' = [erp EXCEPT ![Order(t)] = req[r].integ.rec] /\ writes' = writes \cup {write}
  BY DEF ApplyErp, SetOrder
<1>8. erp \in [Orders -> OrderStatus \cup {"missing"}] /\ WritesAreCurrent
  BY DEF TypeInv, TypeOK, CurrentInv
<1> HIDE DEF write
<1> QED
  BY <1>4, <1>6, <1>7, <1>8 DEF WritesAreCurrent

LEMMA CurrentResume ==
  ASSUME TypeInv, QueueInv, ActiveInv, CaseInv, DecidedOnce, Kept, EnqueuedCaseHasRow,
         CurrentInv, NEW r \in Requests, ResumeStep(r)
  PROVE  CurrentInv'
<1>thread. PICK u \in Threads : u = req[r].thread
  BY DEF ResumeStep, RecordDecision, LoadCase, ApplyErp, PushState, ResumeGraph,
         FinishDecision, RequestFails, FailCase, TypeInv, RequestsBusy
<1>types. /\ row \in [Threads -> Row] /\ req \in [Requests -> Request]
          /\ req[r].integ \in Integ /\ row[u].integ \in Integ
  BY DEF TypeInv, TypeOK, Row, Request
<1>frame. /\ Decider(r, u) /\ Decider(r, u)'
          /\ \A q \in Requests : q # r => req'[q] = req[q]
          /\ \A t \in Threads : t # u => UNCHANGED <<row[t], cp[t]>>
          /\ UNCHANGED <<event, handler, run[Consumer]>>
  BY <1>thread, ResumeFrame DEF Decider
<1>facts. /\ Deciding(r, u) /\ ~Untouched(u)
          /\ \A q \in Requests : Decider(q, u) => q = r
  BY <1>frame, ResumeFacts
<1>erp. /\ WritesAreCurrent'
        /\ \/ erp' = erp
           \/ /\ row[u].status = "waiting_human"
              /\ \A o \in Orders : o # Order(u) => erp'[o] = erp[o]
  <2>1. CASE ApplyErp(r)
    BY <1>thread, <2>1, ApplyIsCurrent
  <2>2. CASE ~ApplyErp(r)
    <3>1. UNCHANGED <<erp, writes>>
      BY <2>2 DEF ResumeStep, RecordDecision, LoadCase, PushState, ResumeGraph, FinishDecision,
                  RequestFails, FailCase, erpVars
    <3> QED
      BY <3>1 DEF CurrentInv, WritesAreCurrent
  <2> QED
    BY <2>1, <2>2
<1>1. ASSUME NEW t \in Threads, t # u PROVE CurrentRun(t)' /\ CurrentWait(t)'
  <2>1. CurrentRun(t) /\ CurrentWait(t) /\ Order(t) \in Orders
    BY EventFields DEF CurrentInv, TypeInv
  <2>2. handler.pc \in {"graph", "persist"} /\ handler.thread = t => row[t].status = "running"
    BY HandRow DEF InHand
  <2>3. \/ erp'[Order(t)] = erp[Order(t)]
        \/ ~(handler'.pc \in {"graph", "persist"} /\ handler'.thread = t)
           /\ row[t].status # "waiting_human"
    BY <1>frame, <1>erp, <1>1, <2>1, <2>2 DEF ActiveInv, OneActivePerOrder, IsActive, Active
  <2>4. \A q \in Requests : req'[q] = req[q] \/ (~Decider(q, t) /\ ~Decider(q, t)')
    BY <1>frame, <1>1 DEF Decider
  <2> QED
    BY <1>frame, <1>1, <2>1, <2>3, <2>4, CurrentFrame
<1>2. CurrentRun(u)' /\ CurrentWait(u)'
  <2>1. CurrentRun(u)'
    BY <1>frame, <1>facts DEF CurrentRun, Investigating, Untouched, InHand
  <2>2. CASE RecordDecision(r)
    <3>1. UNCHANGED <<cp, erp>> /\ req[r].pc = "accepted" /\ req'[r].pc # "apply"
      BY <2>2, <1>types DEF RecordDecision, RequestTo, Request, erpVars
    <3>2. row'[u].status = row[u].status /\ row'[u].integ = row[u].integ
      BY <1>thread, <1>types, <2>2 DEF RecordDecision, Decided, Row
    <3>3. Unsettled(u)
      BY <1>facts, <3>1 DEF Unsettled
    <3>4. \A q \in Requests : ~(Decider(q, u)' /\ req'[q].pc = "apply")
      BY <1>frame, <1>facts, <3>1 DEF Decider
    <3> QED
      BY <1>frame, <2>1, <3>1, <3>2, <3>3, <3>4 DEF CurrentInv, CurrentWait, Current, Order
  <2>3. CASE LoadCase(r)
    <3>1. UNCHANGED <<cp, erp>> /\ req[r].pc = "load"
      BY <2>3 DEF LoadCase, erpVars
    <3>2. HasRow(u)
      BY <1>frame DEF Kept, Decider
    <3>3. row'[u].status = row[u].status /\ row'[u].integ = row[u].integ
      BY <1>thread, <1>types, <2>3, <3>2 DEF LoadCase, Row
    <3>4. req'[r].integ.rec = row[u].integ.rec
      BY <1>thread, <1>types, <2>3, <3>2 DEF LoadCase, Request, Integ
    <3>5. Unsettled(u)
      BY <1>facts, <3>1 DEF Unsettled
    <3>6. \A q \in Requests : Decider(q, u)' => q = r
      BY <1>frame, <1>facts DEF Decider
    <3> QED
      BY <1>frame, <2>1, <3>1, <3>3, <3>4, <3>5, <3>6 DEF CurrentInv, CurrentWait, Current, Order
  <2>4. CASE ~(RecordDecision(r) \/ LoadCase(r))
    <3>1. req'[r].pc \notin {"accepted", "load", "apply"}
      BY <1>types, <2>4 DEF ResumeStep, ApplyErp, PushState, ResumeGraph, FinishDecision,
                            RequestFails, FailCase, RequestTo, Request
    <3>2. ~Unsettled(u)'
      BY <1>frame, <3>1 DEF Unsettled
    <3> QED
      BY <2>1, <3>2 DEF CurrentWait
  <2> QED
    BY <2>2, <2>3, <2>4
<1> QED
  BY <1>erp, <1>1, <1>2 DEF CurrentInv

LEMMA CurrentInvariant ==
  ASSUME Console, MaxResets = 0
  PROVE  Spec /\ []DecidedOnce => []CurrentInv
<1>1. Init => CurrentInv
  BY DEF Init, CurrentInv, WritesAreCurrent, CurrentRun, CurrentWait, Investigating, NoRow, None,
         Idle
<1>2. ASSUME TypeInv, QueueInv, ActiveInv, CaseInv, Kept, EnqueuedInv, CurrentInv, DecidedOnce,
             [Next]_vars
      PROVE  CurrentInv'
  <2>1. ASSUME NEW u \in Threads, Simulate(u) PROVE CurrentInv'
    BY <1>2, <2>1, CurrentSimulate
  <2>2. CASE ConsumerStep
    BY <1>2, <2>2, CurrentConsumer
  <2>3. ASSUME NEW a \in Actors, GraphStep(a) PROVE CurrentInv'
    BY <1>2, <2>3, CurrentGraph DEF EnqueuedInv
  <2>4. ASSUME NEW r \in Requests, NEW u \in Threads, NEW d \in Decision, AcceptDecision(r, u, d)
        PROVE  CurrentInv'
    BY <1>2, <2>4, CurrentAccept
  <2>5. ASSUME NEW r \in Requests, ResumeStep(r) PROVE CurrentInv'
    BY <1>2, <2>5, CurrentResume DEF EnqueuedInv
  <2>6. ~Administration /\ ~Crash
    BY <1>2, RowsStay, NoCrash DEF TypeInv
  <2>7. CASE UNCHANGED vars
    BY <1>2, <2>7
       DEF vars, erpVars, CurrentInv, WritesAreCurrent, CurrentRun, CurrentWait, Investigating,
           Unsettled, Decider, Current, Order
  <2> QED
    BY <1>2, <2>1, <2>2, <2>3, <2>4, <2>5, <2>6, <2>7 DEF Next
<1> QED
  BY TypeInvariant, QueueInvariant, ActiveInvariant, CaseInvariant, KeptInvariant,
     EnqueuedInvariant, <1>1, <1>2, PTL DEF Spec

\* nodes.py:249 and execution_handler.py:226-233: no change of an order overwrites a
\* status the case did not see.  The pipeline writes what it read, and the status
\* an approval replaces, however much later, is the one the person was shown --
\* because no second case of the order was let in and nobody reset the orders.
THEOREM WritesStayCurrent ==
  ASSUME Console, MaxResets = 0
  PROVE  Spec /\ []DecidedOnce => []WritesAreCurrent
BY CurrentInvariant, PTL DEF CurrentInv

=============================================================================
