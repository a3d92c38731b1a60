------------------------- MODULE KafkaClient_proofs -------------------------
(***************************************************************************)
(* The Kafka client keeps its promises for any messages, faults, crashes   *)
(* and restarts: the clients are ready, a message is stored once, what is  *)
(* committed is settled, and the client implements AtLeastOnce.            *)
(***************************************************************************)
EXTENDS KafkaClient, TLAPS

\* A message not yet published is not in the topic.
NotYetStored ==
  \A m \in Messages : call[m].pc \in {"idle", "send"} =>
    \A i \in 1..Len(topic) : topic[i] # m

\* What the loop fetched before the message in hand is settled, and the message
\* in hand is settled too once the loop has nothing left to do about it.
LoopKnows ==
  loop.pc # "none" =>
    /\ committed <= loop.position /\ loop.position <= Len(topic)
    /\ \A j \in 1..(loop.position - 1) : Settled(j)
    /\ loop.pc \notin {"poll", "ended"} => loop.position # 0
    /\ loop.pc \in {"poll", "commit", "commit_dead"} /\ loop.position # 0
         => Settled(loop.position)

\* The loop publishes only dead letters, and waits for each.
LoopPublishes ==
  /\ call[Loop].pc # "idle" => loop.pc = "dead_letter"
  /\ call[Loop].pc \in {"stored", "acked"} => loop.position \in dead

\* The lifespan has started what it is past starting, and requests are in
\* progress only while the application serves or drains.
LifespanKnows ==
  /\ phase \in {"browser", "consumer", "serving", "draining", "closing", "flushing"}
       => producer = "started"
  /\ phase \in {"serving", "draining", "closing"} => consumer = "started"
  /\ phase \notin {"serving", "draining"} =>
       loop = NoLoop /\ \A p \in Publishers : ~InProgress(p)

Inv == /\ NotYetStored /\ LoopKnows /\ LoopPublishes /\ LifespanKnows
       /\ CommittedSettled /\ PublishedOnce

-----------------------------------------------------------------------------
(* Types *)

\* async_retry never sees an exception it would retry.
LEMMA NoRetry == ASSUME NEW e, NEW n PROVE ~Retries(ErrorHandler(e), n)
BY DEF Retries, ErrorHandler

LEMMA CallTypes ==
  /\ NoCall \in [pc : CallPc, attempts : 0..Attempts]
  /\ Calling \in [pc : CallPc, attempts : 0..Attempts]
  /\ NoLoop \in [pc : LoopPc, position : Nat]
  /\ Loop \in Publishers /\ Messages \subseteq Publishers
BY DEF NoCall, Calling, NoLoop, CallPc, LoopPc, Attempts, Publishers

\* What SendFails does to the call, knowing that there is no retry.
LEMMA SendFailsOnce ==
  ASSUME TypeOK, NEW p \in Publishers, SendFails(p)
  PROVE  call' = [call EXCEPT ![p] = [call[p] EXCEPT !.pc = "failed"]]
BY NoRetry DEF SendFails

LEMMA GoneTypes ==
  ASSUME TypeOK, NEW next \in Phase, ProcessGone(next)
  PROVE  /\ phase' \in Phase /\ producer' = "none" /\ consumer' = "none"
         /\ loop' \in [pc : LoopPc, position : Nat]
         /\ call' \in [Publishers -> [pc : CallPc, attempts : 0..Attempts]]
<1>1. \A p \in Publishers : [call[p] EXCEPT !.pc = "lost"] \in [pc : CallPc, attempts : 0..Attempts]
  BY DEF TypeOK, CallPc
<1> QED
  BY <1>1, CallTypes DEF ProcessGone, TypeOK

LEMMA TypeStep == ASSUME TypeOK, Inv, [Next]_vars PROVE TypeOK'
<1> USE BoundAssumption
<1> DEFINE CallRec == [pc : CallPc, attempts : 0..Attempts]
           LoopRec == [pc : LoopPc, position : Nat]
<1>types. /\ call \in [Publishers -> CallRec] /\ loop \in LoopRec
          /\ topic \in Seq(Messages) /\ Len(topic) \in Nat
          /\ committed \in Nat /\ faults \in Nat /\ restarts \in Nat
  BY DEF TypeOK
<1>pc. \A p \in Publishers : \A c \in CallPc : [call[p] EXCEPT !.pc = c] \in CallRec
  BY <1>types
<1>lp. \A c \in LoopPc : [loop EXCEPT !.pc = c] \in LoopRec
  BY <1>types
<1>none. NoCall \in CallRec /\ Calling \in CallRec /\ NoLoop \in LoopRec /\ Loop \in Publishers
  BY CallTypes
<1>in. /\ loop.pc # "none" => loop.position <= Len(topic)
       /\ loop.pc \notin {"none", "poll", "ended"} => loop.position \in 1..Len(topic)
  BY <1>types DEF Inv, LoopKnows
<1> HIDE DEF CallRec, LoopRec
<1>1. ASSUME NEW m \in Messages, PublishExceptionEvent(m) PROVE TypeOK'
  <2>1. call' \in [Publishers -> CallRec]
    BY <1>1, <1>types, <1>none DEF PublishExceptionEvent
  <2> QED
    BY <1>1, <2>1 DEF PublishExceptionEvent, TypeOK, CallRec, processVars, brokerVars
<1>2. ASSUME NEW p \in Publishers, Publish(p) PROVE TypeOK'
  <2>1. CASE Store(p)
    <3>1. call' \in [Publishers -> CallRec]
      BY <2>1, <1>types, <1>pc DEF Store, CallTo, CallPc
    <3>2. topic' \in Seq(Messages) /\ Len(topic') >= Len(topic) /\ Len(topic') \in Nat
      <4>1. topic' = topic \/ (topic' = Append(topic, p) /\ p \in Messages)
        BY <2>1 DEF Store, Publishers, CallTo, processVars
      <4>2. CASE topic' = topic
        BY <4>2, <1>types
      <4>3. CASE topic' = Append(topic, p) /\ p \in Messages
        BY <4>3, <1>types
      <4> QED
        BY <4>1, <4>2, <4>3
    <3>3. dead' \subseteq 1..Len(topic')
      <4>1. CASE p = Loop
        <5>1. loop.pc = "dead_letter"
          BY <2>1, <4>1 DEF Store, Inv, LoopPublishes
        <5> QED
          BY <2>1, <4>1, <5>1, <1>in DEF Store, TypeOK
      <4>2. CASE p # Loop
        <5>1. dead' = dead /\ dead \subseteq 1..Len(topic)
          BY <2>1, <4>2 DEF Store, TypeOK
        <5> QED
          BY <5>1, <3>2, <1>types
      <4> QED
        BY <4>1, <4>2
    <3>4. UNCHANGED <<phase, producer, consumer, loop, handled, committed, faults, restarts>>
      BY <2>1 DEF Store, processVars
    <3>5. handled' \subseteq 1..Len(topic') /\ committed' \in 0..Len(topic')
      BY <3>2, <3>4, <1>types DEF TypeOK
    <3> QED
      BY <3>1, <3>2, <3>3, <3>4, <3>5 DEF TypeOK, CallRec
  <2>2. CASE Acknowledge(p)
    <3>1. call' \in [Publishers -> CallRec]
      BY <2>2, <1>types, <1>pc DEF Acknowledge, CallTo, CallPc
    <3> QED
      BY <2>2, <3>1 DEF Acknowledge, TypeOK, CallRec, processVars, brokerVars
  <2>3. CASE SendFails(p)
    <3>1. call' \in [Publishers -> CallRec]
      BY <2>3, <1>types, <1>pc, SendFailsOnce DEF CallPc
    <3> QED
      BY <2>3, <3>1 DEF SendFails, Fault, TypeOK, CallRec, processVars, brokerVars
  <2> QED
    BY <1>2, <2>1, <2>2, <2>3 DEF Publish
<1>3. CASE LoopStep
  <2>1. loop' \in LoopRec
    BY <1>3, <1>types, <1>lp
       DEF LoopStep, NextMessage, PollFails, HandlerReturns, HandlerRaises, Commit, CommitFails,
           DeadLettered, DeadLetterFails, LoopTo, ToDeadLetter, AfterLostDeadLetter,
           LoopPc, LoopRec
  <2>2. call' \in [Publishers -> CallRec]
    BY <1>3, <1>types, <1>none
       DEF LoopStep, NextMessage, PollFails, HandlerReturns, HandlerRaises, Commit, CommitFails,
           DeadLettered, DeadLetterFails, ToDeadLetter
  <2>3. /\ UNCHANGED <<processVars, topic, dead, restarts>>
        /\ \/ handled' = handled
           \/ handled' = handled \cup {loop.position} /\ loop.pc = "handle"
        /\ \/ committed' = committed
           \/ committed' = loop.position /\ loop.pc \in {"commit", "commit_dead"}
        /\ faults' = faults \/ Fault
    <3>1. CASE NextMessage \/ DeadLettered \/ DeadLetterFails \/ HandlerRaises
      BY <3>1 DEF NextMessage, DeadLettered, DeadLetterFails, HandlerRaises, brokerVars, processVars
    <3>2. CASE PollFails
      BY <3>2 DEF PollFails, brokerVars, processVars
    <3>3. CASE HandlerReturns
      BY <3>3 DEF HandlerReturns, brokerVars, processVars
    <3>4. CASE Commit
      BY <3>4 DEF Commit, CommitPosition, LoopTo, processVars
    <3>5. CASE CommitFails
      BY <3>5 DEF CommitFails, CommitPosition, LoopTo, ToDeadLetter, processVars
    <3> QED
      BY <1>3, <3>1, <3>2, <3>3, <3>4, <3>5 DEF LoopStep
  <2>4. handled' \subseteq 1..Len(topic) /\ committed' \in 0..Len(topic)
    <3>1. handled \subseteq 1..Len(topic) /\ committed \in 0..Len(topic)
      BY DEF TypeOK
    <3>2. handled' \subseteq 1..Len(topic)
      BY <2>3, <3>1, <1>in
    <3>3. committed' \in 0..Len(topic)
      BY <2>3, <3>1, <1>in, <1>types
    <3> QED
      BY <3>2, <3>3
  <2>5. faults' \in 0..MaxFaults
    BY <2>3, <1>types DEF TypeOK, Fault
  <2>6. UNCHANGED <<phase, producer, consumer, topic, dead, restarts>>
    BY <2>3 DEF processVars
  <2> QED
    BY <2>1, <2>2, <2>4, <2>5, <2>6 DEF TypeOK, CallRec, LoopRec
<1>4. ASSUME NEW next \in Phase, ProcessGone(next), UNCHANGED <<brokerVars, handled>>,
             faults' \in 0..MaxFaults, restarts' \in 0..MaxRestarts
      PROVE  TypeOK'
  BY <1>4, GoneTypes DEF TypeOK, brokerVars
<1>5. CASE Lifespan \/ Shutdown \/ Restart \/ Crash
  <2>1. CASE StartFails \/ StopFails \/ Crash
    <3>1. \E next \in Phase : ProcessGone(next)
      BY <2>1 DEF StartFails, StopFails, Crash, Phase
    <3>2. UNCHANGED <<brokerVars, handled>> /\ faults' \in 0..MaxFaults /\ restarts' \in 0..MaxRestarts
      BY <2>1, <1>types DEF StartFails, StopFails, Crash, Fault, TypeOK
    <3> QED
      BY <3>1, <3>2, <1>4
  <2>2. CASE StartConsumer
    <3>1. loop' \in LoopRec
      BY <2>2, <1>types DEF StartConsumer, StartPosition, LoopRec, LoopPc
    <3> QED
      BY <2>2, <3>1 DEF StartConsumer, TypeOK, brokerVars, Phase, LoopRec
  <2>3. CASE CancelLoop
    <3>1. call' \in [Publishers -> CallRec] /\ loop' \in LoopRec
      BY <2>3, <1>types, <1>none DEF CancelLoop
    <3> QED
      BY <2>3, <3>1 DEF CancelLoop, TypeOK, brokerVars, Phase, CallRec, LoopRec
  <2>4. CASE StartProducer \/ StartBrowser \/ Shutdown \/ StopConsumer \/ StopProducer \/ Restart
    <3>1. /\ UNCHANGED <<loop, call, brokerVars, handled, faults>>
          /\ producer' \in {"none", "started"} /\ consumer' \in {"none", "started"}
      BY <2>4 DEF StartProducer, StartBrowser, Shutdown, StopConsumer, StopProducer, Restart, TypeOK
    <3>2. phase' \in Phase
      BY <2>4 DEF StartProducer, StartBrowser, Shutdown, StopConsumer, StopProducer, Restart,
                  TypeOK, Phase
    <3>3. restarts' \in 0..MaxRestarts
      BY <2>4, <1>types DEF StartProducer, StartBrowser, Shutdown, StopConsumer, StopProducer,
                            Restart, TypeOK
    <3> QED
      BY <3>1, <3>2, <3>3 DEF TypeOK, brokerVars
  <2> QED
    BY <1>5, <2>1, <2>2, <2>3, <2>4 DEF Lifespan
<1>6. CASE UNCHANGED vars
  BY <1>6 DEF vars, TypeOK
<1> QED
  BY <1>1, <1>2, <1>3, <1>5, <1>6 DEF Next

-----------------------------------------------------------------------------
(* The invariant *)

\* A step that stores nothing keeps every message's place in the topic.
LEMMA TopicFrame ==
  ASSUME NotYetStored, PublishedOnce, UNCHANGED topic,
         \A m \in Messages :
           call'[m].pc \in {"idle", "send"} => call[m].pc \in {"idle", "send"}
  PROVE  NotYetStored' /\ PublishedOnce'
BY DEF NotYetStored, PublishedOnce

\* While somebody publishes or the loop lives the lifespan serves or drains.
LEMMA Serving ==
  ASSUME Inv, phase \notin {"serving", "draining"}
  PROVE  loop.pc = "none" /\ \A p \in Publishers : ~InProgress(p)
BY DEF Inv, LifespanKnows, NoLoop

LEMMA PublishStep ==
  ASSUME TypeOK, Inv, NEW p \in Publishers,
         \/ Publish(p)
         \/ p \in Messages /\ PublishExceptionEvent(p)
  PROVE  Inv'
<1>types. /\ call \in [Publishers -> [pc : CallPc, attempts : 0..Attempts]]
          /\ loop \in [pc : LoopPc, position : Nat]
          /\ topic \in Seq(Messages) /\ Len(topic) \in Nat /\ committed \in 0..Len(topic)
          /\ Loop \in Publishers /\ Messages \subseteq Publishers /\ Loop \notin Messages
  BY CallTypes, LoopAssumption DEF TypeOK
<1>frame. UNCHANGED <<phase, producer, consumer, loop, handled, committed>>
  BY DEF Publish, PublishExceptionEvent, Store, Acknowledge, SendFails, processVars, brokerVars
<1>serving. phase \in {"serving", "draining"}
  BY Serving DEF Publish, PublishExceptionEvent, Store, Acknowledge, SendFails, InProgress
<1>lifespan. LifespanKnows'
  BY <1>frame, <1>serving DEF Inv, LifespanKnows
<1>others. \A q \in Publishers : q # p => call'[q] = call[q]
  BY <1>types, SendFailsOnce DEF Publish, PublishExceptionEvent, Store, CallTo, Acknowledge
<1>1. CASE Store(p)
  <2>own. call[p].pc = "send" /\ call'[p].pc = "stored"
    BY <1>1, <1>types DEF Store, CallTo
  <2>1. CASE p = Loop
    <3>1. dead' = dead \cup {loop.position} /\ UNCHANGED topic
      BY <1>1, <2>1 DEF Store
    <3>2. NotYetStored' /\ PublishedOnce'
      BY <1>types, <1>others, <2>1, <3>1, TopicFrame DEF Inv
    <3>3. LoopKnows' /\ LoopPublishes' /\ CommittedSettled'
      BY <1>frame, <2>1, <2>own, <3>1
         DEF Inv, LoopKnows, LoopPublishes, CommittedSettled, Settled
    <3> QED
      BY <1>lifespan, <3>2, <3>3 DEF Inv
  <2>2. CASE p # Loop
    <3>1. p \in Messages /\ topic' = Append(topic, p) /\ UNCHANGED dead
      BY <1>1, <2>2 DEF Store, Publishers
    <3>2. /\ Len(topic') = Len(topic) + 1 /\ topic'[Len(topic) + 1] = p
          /\ \A i \in 1..Len(topic) : topic'[i] = topic[i]
      BY <1>types, <3>1
    <3>3. \A i \in 1..Len(topic) : topic[i] # p
      BY <2>own, <3>1 DEF Inv, NotYetStored
    <3>4. NotYetStored'
      <4> SUFFICES ASSUME NEW m \in Messages, call'[m].pc \in {"idle", "send"},
                          NEW i \in 1..Len(topic')
                   PROVE  topic'[i] # m
        BY DEF NotYetStored
      <4>1. m # p /\ call'[m] = call[m]
        BY <1>types, <1>others, <2>own
      <4>2. CASE i \in 1..Len(topic)
        BY <3>2, <4>1, <4>2 DEF Inv, NotYetStored
      <4>3. CASE i = Len(topic) + 1
        BY <3>2, <4>1, <4>3
      <4> QED
        BY <1>types, <3>2, <4>2, <4>3
    <3>5. PublishedOnce'
      <4> SUFFICES ASSUME NEW i \in 1..Len(topic'), NEW j \in 1..Len(topic'),
                          topic'[i] = topic'[j]
                   PROVE  i = j
        BY DEF PublishedOnce
      <4>1. i \in 1..Len(topic) \/ i = Len(topic) + 1
        BY <1>types, <3>2
      <4>2. j \in 1..Len(topic) \/ j = Len(topic) + 1
        BY <1>types, <3>2
      <4> QED
        BY <3>2, <3>3, <4>1, <4>2 DEF Inv, PublishedOnce
    <3>6. LoopKnows'
      <4>1. loop.pc # "none" => loop.position <= Len(topic')
        BY <1>types, <3>2 DEF Inv, LoopKnows
      <4> QED
        BY <1>frame, <3>1, <4>1 DEF Inv, LoopKnows, Settled
    <3>7. LoopPublishes' /\ CommittedSettled'
      BY <1>types, <1>frame, <1>others, <2>2, <3>1
         DEF Inv, LoopPublishes, CommittedSettled, Settled
    <3> QED
      BY <1>lifespan, <3>4, <3>5, <3>6, <3>7 DEF Inv
  <2> QED
    BY <2>1, <2>2
<1>2. CASE \/ Acknowledge(p) \/ SendFails(p)
           \/ p \in Messages /\ PublishExceptionEvent(p)
  <2>1. UNCHANGED <<topic, dead>>
    BY <1>2 DEF Acknowledge, SendFails, PublishExceptionEvent, brokerVars
  <2>2. \/ call[p].pc = "stored" /\ call'[p].pc = "acked"
        \/ call[p].pc # "idle" /\ call'[p].pc = "failed"
        \/ p \in Messages /\ call[p].pc = "idle"
    <3>1. CASE Acknowledge(p)
      BY <1>types, <3>1 DEF Acknowledge, CallTo
    <3>2. CASE SendFails(p)
      <4>1. call[p].pc # "idle"
        BY <3>2 DEF SendFails, InProgress
      <4> QED
        BY <1>types, <3>2, <4>1, SendFailsOnce
    <3>3. CASE p \in Messages /\ PublishExceptionEvent(p)
      BY <3>3 DEF PublishExceptionEvent
    <3> QED
      BY <1>2, <3>1, <3>2, <3>3
  <2>3. NotYetStored' /\ PublishedOnce'
    <3>1. \A m \in Messages :
            call'[m].pc \in {"idle", "send"} => call[m].pc \in {"idle", "send"}
      BY <1>types, <1>others, <2>2
    <3> QED
      BY <2>1, <3>1, TopicFrame DEF Inv
  <2>4. LoopKnows' /\ CommittedSettled'
    BY <1>frame, <2>1 DEF Inv, LoopKnows, CommittedSettled, Settled
  <2>5. LoopPublishes'
    BY <1>types, <1>frame, <1>others, <2>1, <2>2 DEF Inv, LoopPublishes
  <2> QED
    BY <1>lifespan, <2>3, <2>4, <2>5 DEF Inv
<1> QED
  BY <1>1, <1>2 DEF Publish

LEMMA LoopInvStep == ASSUME TypeOK, Inv, LoopStep PROVE Inv'
<1>types. /\ call \in [Publishers -> [pc : CallPc, attempts : 0..Attempts]]
          /\ loop \in [pc : LoopPc, position : Nat]
          /\ topic \in Seq(Messages) /\ Len(topic) \in Nat /\ committed \in 0..Len(topic)
          /\ Loop \in Publishers /\ Messages \subseteq Publishers /\ Loop \notin Messages
  BY CallTypes, LoopAssumption DEF TypeOK
<1>frame. UNCHANGED <<phase, producer, consumer, topic, dead>>
  BY DEF LoopStep, NextMessage, PollFails, HandlerReturns, HandlerRaises, Commit, CommitFails,
         DeadLettered, DeadLetterFails, processVars, brokerVars
<1>alive. loop.pc # "none"
  BY DEF LoopStep, NextMessage, PollFails, HandlerReturns, HandlerRaises, Commit, CommitFails,
         DeadLettered, DeadLetterFails
<1>lifespan. LifespanKnows'
  BY <1>frame, <1>alive, Serving DEF Inv, LifespanKnows
<1>topic. NotYetStored' /\ PublishedOnce'
  <2>1. \A m \in Messages : call'[m] = call[m]
    BY <1>types DEF LoopStep, NextMessage, PollFails, HandlerReturns, HandlerRaises, Commit,
         CommitFails, DeadLettered, DeadLetterFails, ToDeadLetter
  <2> QED
    BY <1>frame, <2>1, TopicFrame DEF Inv
<1>knows. /\ committed <= loop.position /\ loop.position <= Len(topic)
          /\ \A j \in 1..(loop.position - 1) : Settled(j)
          /\ loop.pc \notin {"poll", "ended"} => loop.position # 0
          /\ loop.pc \in {"poll", "commit", "commit_dead"} /\ loop.position # 0
               => Settled(loop.position)
          /\ CommittedSettled /\ LoopPublishes
  BY <1>alive DEF Inv, LoopKnows
<1>1. CASE NextMessage
  <2>1. /\ loop.pc = "poll" /\ loop.position < Len(topic)
        /\ loop'.pc = "handle" /\ loop'.position = loop.position + 1
        /\ UNCHANGED <<call, handled, committed>>
    BY <1>1 DEF NextMessage, brokerVars
  <2>2. \A j \in 1..loop.position : Settled(j)
    BY <1>types, <1>knows, <2>1
  <2>3. LoopKnows' /\ CommittedSettled'
    BY <1>types, <1>frame, <1>knows, <2>1, <2>2 DEF LoopKnows, CommittedSettled, Settled
  <2>4. LoopPublishes'
    BY <1>knows, <2>1 DEF LoopPublishes
  <2> QED
    BY <1>lifespan, <1>topic, <2>3, <2>4 DEF Inv
<1>2. CASE PollFails \/ DeadLetterFails
  <2>1. /\ loop'.pc = "ended" /\ loop'.position = loop.position
        /\ UNCHANGED <<handled, committed>>
        /\ call'[Loop].pc = "idle"
    BY <1>2, <1>types, <1>knows
       DEF PollFails, DeadLetterFails, LoopTo, AfterLostDeadLetter, LoopPublishes, NoCall, brokerVars
  <2> QED
    BY <1>lifespan, <1>topic, <1>frame, <1>knows, <2>1
       DEF Inv, LoopKnows, LoopPublishes, CommittedSettled, Settled
<1>3. CASE HandlerReturns
  <2>1. /\ loop.pc = "handle" /\ loop'.pc = "commit" /\ loop'.position = loop.position
        /\ handled' = handled \cup {loop.position}
        /\ UNCHANGED <<call, committed>>
    BY <1>3, <1>types DEF HandlerReturns, LoopTo, brokerVars
  <2> QED
    BY <1>lifespan, <1>topic, <1>frame, <1>knows, <2>1
       DEF Inv, LoopKnows, LoopPublishes, CommittedSettled, Settled
<1>4. CASE HandlerRaises
  <2>1. /\ loop.pc = "handle" /\ loop'.pc = "dead_letter" /\ loop'.position = loop.position
        /\ UNCHANGED <<handled, committed>>
        /\ call'[Loop].pc = "send"
    BY <1>4, <1>types DEF HandlerRaises, ToDeadLetter, LoopTo, Calling, brokerVars
  <2> QED
    BY <1>lifespan, <1>topic, <1>frame, <1>knows, <2>1
       DEF Inv, LoopKnows, LoopPublishes, CommittedSettled, Settled
<1>5. CASE Commit \/ CommitFails
  <2>1. /\ loop.pc \in {"commit", "commit_dead"} /\ loop'.position = loop.position
        /\ UNCHANGED handled
        /\ committed' \in {committed, loop.position}
        /\ \/ loop'.pc \in {"poll", "ended"} /\ UNCHANGED call
           \/ loop'.pc = "dead_letter" /\ call'[Loop].pc = "send"
    <3>1. CASE Commit
      BY <1>types, <3>1 DEF Commit, CommitPosition, LoopTo
    <3>2. CASE CommitFails
      BY <1>types, <3>2 DEF CommitFails, CommitPosition, LoopTo, ToDeadLetter, Calling
    <3> QED
      BY <1>5, <3>1, <3>2
  <2>2. \A j \in 1..loop.position : Settled(j)
    BY <1>types, <1>knows, <2>1
  <2>3. CommittedSettled'
    BY <1>types, <1>frame, <1>knows, <2>1, <2>2 DEF CommittedSettled, Settled
  <2>4. LoopKnows'
    BY <1>types, <1>frame, <1>knows, <2>1, <2>2 DEF LoopKnows, Settled
  <2>5. LoopPublishes'
    BY <1>knows, <2>1 DEF LoopPublishes
  <2> QED
    BY <1>lifespan, <1>topic, <2>3, <2>4, <2>5 DEF Inv
<1>6. CASE DeadLettered
  <2>1. /\ loop.pc = "dead_letter" /\ call[Loop].pc = "acked"
        /\ loop'.pc = "commit_dead" /\ loop'.position = loop.position
        /\ UNCHANGED <<handled, committed>>
        /\ call'[Loop].pc = "idle"
    BY <1>6, <1>types DEF DeadLettered, LoopTo, NoCall, brokerVars
  <2>2. loop.position \in dead
    BY <1>knows, <2>1 DEF LoopPublishes
  <2> QED
    BY <1>lifespan, <1>topic, <1>frame, <1>knows, <2>1, <2>2
       DEF Inv, LoopKnows, LoopPublishes, CommittedSettled, Settled
<1> QED
  BY <1>1, <1>2, <1>3, <1>4, <1>5, <1>6 DEF LoopStep

\* When the process is gone, what the broker holds is as it was.
LEMMA GoneStep ==
  ASSUME TypeOK, Inv, NEW next \in {"down", "stopped"}, ProcessGone(next),
         UNCHANGED <<brokerVars, handled>>
  PROVE  Inv'
<1>1. /\ phase' = next /\ loop' = NoLoop
      /\ UNCHANGED <<topic, dead, committed, handled>>
  BY DEF ProcessGone, brokerVars
<1>2. \A p \in Publishers :
        /\ call'[p].pc \in {"idle", "lost"} \/ call'[p] = call[p]
        /\ call'[p].pc \notin {"send", "stored"}
        /\ call'[p].pc = "idle" => p = Loop \/ call[p].pc = "idle"
  BY DEF ProcessGone, TypeOK, NoCall, InProgress
<1>3. call'[Loop].pc = "idle"
  BY CallTypes DEF ProcessGone, NoCall
<1>4. NotYetStored' /\ PublishedOnce'
  BY <1>1, <1>2, CallTypes, LoopAssumption, TopicFrame DEF Inv
<1>5. LoopKnows' /\ LoopPublishes' /\ CommittedSettled'
  BY <1>1, <1>3 DEF Inv, LoopKnows, LoopPublishes, CommittedSettled, Settled, NoLoop
<1>6. LifespanKnows'
  BY <1>1, <1>2 DEF LifespanKnows, InProgress
<1> QED
  BY <1>4, <1>5, <1>6 DEF Inv

LEMMA LifespanStep ==
  ASSUME TypeOK, Inv,
         \/ Lifespan
         \/ Shutdown
         \/ Restart
         \/ Crash
  PROVE  Inv'
<1>types. /\ call \in [Publishers -> [pc : CallPc, attempts : 0..Attempts]]
          /\ loop \in [pc : LoopPc, position : Nat]
          /\ topic \in Seq(Messages) /\ Len(topic) \in Nat /\ committed \in 0..Len(topic)
          /\ Loop \in Publishers /\ Messages \subseteq Publishers /\ Loop \notin Messages
  BY CallTypes, LoopAssumption DEF TypeOK
<1>1. CASE StartFails \/ StopFails \/ Crash
  BY <1>1, GoneStep DEF StartFails, StopFails, Crash
<1>2. CASE StartConsumer
  <2>1. /\ phase = "consumer" /\ phase' = "serving" /\ consumer' = "started"
        /\ loop'.pc = "poll" /\ loop'.position = committed
        /\ UNCHANGED <<producer, call, topic, dead, handled, committed>>
    BY <1>2 DEF StartConsumer, StartPosition, brokerVars
  <2>2. NotYetStored' /\ PublishedOnce'
    BY <2>1, TopicFrame DEF Inv
  <2>3. LoopKnows' /\ CommittedSettled'
    BY <1>types, <2>1 DEF Inv, LoopKnows, CommittedSettled, Settled
  <2>4. LoopPublishes'
    BY <2>1, Serving DEF Inv, LoopPublishes
  <2>5. LifespanKnows'
    BY <2>1 DEF Inv, LifespanKnows
  <2> QED
    BY <2>2, <2>3, <2>4, <2>5 DEF Inv
<1>3. CASE CancelLoop
  <2>1. /\ phase = "draining" /\ phase' = "closing" /\ loop' = NoLoop
        /\ call'[Loop] = NoCall /\ \A m \in Messages : call'[m] = call[m] /\ ~InProgress(m)
        /\ UNCHANGED <<producer, consumer, topic, dead, handled, committed>>
    BY <1>3, <1>types DEF CancelLoop, Drained, brokerVars
  <2>2. NotYetStored' /\ PublishedOnce'
    BY <2>1, TopicFrame DEF Inv
  <2>3. LoopKnows' /\ CommittedSettled' /\ LoopPublishes'
    BY <2>1 DEF Inv, LoopKnows, CommittedSettled, Settled, LoopPublishes, NoLoop, NoCall
  <2>4. \A p \in Publishers : ~(call'[p].pc \in {"send", "stored"})
    BY <2>1 DEF NoCall, InProgress, Publishers
  <2>5. LifespanKnows'
    BY <2>1, <2>4 DEF Inv, LifespanKnows, InProgress
  <2> QED
    BY <2>2, <2>3, <2>5 DEF Inv
<1>4. CASE StartProducer \/ StartBrowser \/ Shutdown \/ StopConsumer \/ StopProducer \/ Restart
  <2>1. UNCHANGED <<loop, call, topic, dead, handled, committed>>
    BY <1>4 DEF StartProducer, StartBrowser, Shutdown, StopConsumer, StopProducer, Restart, brokerVars
  <2>2. NotYetStored' /\ PublishedOnce'
    BY <2>1, TopicFrame DEF Inv
  <2>3. LoopKnows' /\ CommittedSettled' /\ LoopPublishes'
    BY <2>1 DEF Inv, LoopKnows, CommittedSettled, Settled, LoopPublishes
  <2>4. LifespanKnows'
    BY <1>4, <2>1
       DEF StartProducer, StartBrowser, Shutdown, StopConsumer, StopProducer, Restart,
           MayStopProducer, Inv, LifespanKnows, InProgress
  <2> QED
    BY <2>2, <2>3, <2>4 DEF Inv
<1> QED
  BY <1>1, <1>2, <1>3, <1>4 DEF Lifespan

LEMMA Start == Init => TypeOK /\ Inv
<1> SUFFICES ASSUME Init PROVE TypeOK /\ Inv
  OBVIOUS
<1>1. /\ phase = "down" /\ producer = "none" /\ consumer = "none" /\ loop = NoLoop
      /\ topic = <<>> /\ dead = {} /\ handled = {} /\ committed = 0
      /\ \A p \in Publishers : call[p] = NoCall
  BY DEF Init
<1>2. TypeOK
  BY CallTypes, BoundAssumption DEF Init, TypeOK, Phase
<1>3. Inv
  BY <1>1, CallTypes
     DEF Inv, NotYetStored, LoopKnows, LoopPublishes, LifespanKnows, CommittedSettled,
         PublishedOnce, InProgress, NoLoop, NoCall
<1> QED
  BY <1>2, <1>3

LEMMA Invariance == Spec => [](TypeOK /\ Inv)
<1>1. TypeOK /\ Inv /\ [Next]_vars => (TypeOK /\ Inv)'
  <2> SUFFICES ASSUME TypeOK, Inv, [Next]_vars PROVE (TypeOK /\ Inv)'
    OBVIOUS
  <2>1. TypeOK'
    BY TypeStep
  <2>2. CASE Next
    <3>1. ASSUME NEW m \in Messages, PublishExceptionEvent(m) PROVE Inv'
      BY <3>1, CallTypes, PublishStep
    <3>2. ASSUME NEW p \in Publishers, Publish(p) PROVE Inv'
      BY <3>2, PublishStep
    <3>3. CASE LoopStep
      BY <2>1, <3>3, LoopInvStep
    <3>4. CASE Lifespan \/ Shutdown \/ Restart \/ Crash
      BY <2>1, <3>4, LifespanStep
    <3> QED
      BY <2>1, <2>2, <3>1, <3>2, <3>3, <3>4 DEF Next
  <2>3. CASE UNCHANGED vars
    <3>1. UNCHANGED <<phase, producer, consumer, loop, call, topic, dead, handled, committed>>
      BY <2>3 DEF vars, processVars, brokerVars
    <3>2. NotYetStored' /\ PublishedOnce'
      BY <3>1, TopicFrame DEF Inv
    <3>3. LoopKnows' /\ LoopPublishes' /\ CommittedSettled'
      BY <3>1 DEF Inv, LoopKnows, LoopPublishes, CommittedSettled, Settled
    <3>4. LifespanKnows'
      BY <3>1 DEF Inv, LifespanKnows, InProgress
    <3> QED
      BY <2>1, <3>2, <3>3, <3>4 DEF Inv
  <2> QED
    BY <2>1, <2>2, <2>3
<1> QED
  BY <1>1, Start, PTL DEF Spec

-----------------------------------------------------------------------------
(* Theorems *)

\* Every variable keeps its type; in particular the group's offset and what was
\* handled or dead-lettered stay within the topic (_consume_loop).
THEOREM TypeCorrect == Spec => []TypeOK
BY Invariance, PTL

\* What is committed was handled or dead-lettered, for any number of messages,
\* faults, crashes and restarts.
THEOREM CommittedIsSettled == Spec => []CommittedSettled
<1>1. Inv => CommittedSettled
  BY DEF Inv
<1> QED
  BY <1>1, Invariance, PTL

\* No message is stored twice.
THEOREM StoredOnce == Spec => []PublishedOnce
<1>1. Inv => PublishedOnce
  BY DEF Inv
<1> QED
  BY <1>1, Invariance, PTL

\* The lifespan's order of starting and stopping keeps the clients ready.
THEOREM AlwaysReady == Spec => []ClientsReady
<1>1. TypeOK /\ Inv => ClientsReady
  BY Serving DEF TypeOK, Inv, LifespanKnows, ClientsReady, Phase
<1> QED
  BY <1>1, Invariance, PTL

\* A step of the client is a step of AtLeastOnce or changes nothing it sees.
LEMMA ClientStep ==
  ASSUME TypeOK, Inv, Next
  PROVE  [Delivery!Next]_(Delivery!vars)
<1>types. /\ loop \in [pc : LoopPc, position : Nat]
          /\ Len(topic) \in Nat /\ committed \in 0..Len(topic)
  BY DEF TypeOK
<1>hand. /\ loop.pc # "none" =>
              /\ committed <= loop.position /\ loop.position <= Len(topic)
              /\ \A j \in 1..(loop.position - 1) : j \in handled \cup dead
         /\ loop.pc \notin {"none", "poll", "ended"} => loop.position \in 1..Len(topic)
  BY <1>types DEF Inv, LoopKnows, Settled
<1>same. ASSUME UNCHANGED <<topic, dead, handled, committed>>
         PROVE  [Delivery!Next]_(Delivery!vars)
  BY <1>same DEF Delivery!vars
<1>settle. ASSUME loop.pc \in {"handle", "dead_letter"}, UNCHANGED <<topic, committed>>,
                  (handled \cup dead)' = handled \cup dead \cup {loop.position}
           PROVE  Delivery!Next
  <2>1. loop.position \in 1..Len(topic) /\ \A j \in 1..(loop.position - 1) : j \in handled \cup dead
    BY <1>hand, <1>settle
  <2>2. Delivery!Settle(loop.position)
    BY <1>settle, <2>1 DEF Delivery!Settle
  <2> QED
    BY <2>1, <2>2 DEF Delivery!Next
<1>1. ASSUME NEW p \in Publishers, Store(p) PROVE Delivery!Next
  <2>1. CASE p = Loop
    <3>1. loop.pc = "dead_letter"
      BY <1>1, <2>1 DEF Store, Inv, LoopPublishes
    <3>2. UNCHANGED <<topic, committed, handled>> /\ dead' = dead \cup {loop.position}
      BY <1>1, <2>1 DEF Store
    <3> QED
      BY <3>1, <3>2, <1>settle
  <2>2. CASE p # Loop
    <3>1. /\ p \in Messages /\ call[p].pc = "send"
          /\ topic' = Append(topic, p) /\ UNCHANGED <<dead, handled, committed>>
      BY <1>1, <2>2 DEF Store, Publishers
    <3>2. ~Delivery!Accepted(p)
      BY <3>1 DEF Inv, NotYetStored, Delivery!Accepted
    <3>3. Delivery!Accept(p)
      BY <3>1, <3>2 DEF Delivery!Accept
    <3> QED
      BY <3>1, <3>3 DEF Delivery!Next
  <2> QED
    BY <2>1, <2>2
<1>2. CASE HandlerReturns
  <2>1. /\ loop.pc = "handle" /\ UNCHANGED <<topic, committed, dead>>
        /\ handled' = handled \cup {loop.position}
    BY <1>2 DEF HandlerReturns, brokerVars
  <2> QED
    BY <2>1, <1>settle
<1>3. CASE Commit \/ CommitFails
  <2>1. /\ loop.pc \in {"commit", "commit_dead"}
        /\ committed' \in {committed, loop.position}
        /\ UNCHANGED <<topic, dead, handled>>
    BY <1>3 DEF Commit, CommitFails, CommitPosition
  <2>2. CASE committed' = committed
    BY <2>1, <2>2, <1>same
  <2>3. CASE committed' = loop.position /\ committed # loop.position
    <3>1. loop.position \in 1..Len(topic) /\ committed < loop.position
      BY <1>types, <1>hand, <2>1, <2>3
    <3>2. \A i \in 1..loop.position : i \in handled \cup dead
      <4>1. loop.position \in handled \cup dead
        BY <2>1, <3>1 DEF Inv, LoopKnows, Settled
      <4> QED
        BY <1>types, <1>hand, <2>1, <4>1
    <3>3. Delivery!Advance(loop.position)
      BY <2>1, <2>3, <3>1, <3>2 DEF Delivery!Advance
    <3> QED
      BY <3>1, <3>3 DEF Delivery!Next
  <2> QED
    BY <2>1, <2>2, <2>3
<1>4. ASSUME NEW m \in Messages, PublishExceptionEvent(m) PROVE [Delivery!Next]_(Delivery!vars)
  BY <1>4, <1>same DEF PublishExceptionEvent, brokerVars
<1>5. ASSUME NEW p \in Publishers, Acknowledge(p) \/ SendFails(p)
      PROVE  [Delivery!Next]_(Delivery!vars)
  BY <1>5, <1>same DEF Acknowledge, SendFails, brokerVars
<1>6. CASE NextMessage \/ PollFails \/ HandlerRaises \/ DeadLettered \/ DeadLetterFails
  BY <1>6, <1>same DEF NextMessage, PollFails, HandlerRaises, DeadLettered, DeadLetterFails, brokerVars
<1>7. CASE Lifespan \/ Shutdown \/ Restart \/ Crash
  BY <1>7, <1>same
     DEF Lifespan, StartProducer, StartBrowser, StartConsumer, StartFails, CancelLoop, StopConsumer,
         StopProducer, StopFails, Shutdown, Restart, Crash, brokerVars
<1> QED
  BY <1>1, <1>2, <1>3, <1>4, <1>5, <1>6, <1>7 DEF Next, Publish, LoopStep

\* The client implements at-least-once delivery in order: a failed publish, a
\* lost acknowledgement, a dead letter, a cancelled loop, a crash and a restart
\* are each a step of AtLeastOnce or invisible in it.
THEOREM ImplementsAtLeastOnce == Spec => DeliversAtLeastOnce
<1>1. Init => Delivery!Init
  BY DEF Init, Delivery!Init
<1>2. TypeOK /\ Inv /\ [Next]_vars => [Delivery!Next]_(Delivery!vars)
  <2> SUFFICES ASSUME TypeOK, Inv, [Next]_vars PROVE [Delivery!Next]_(Delivery!vars)
    OBVIOUS
  <2>1. CASE UNCHANGED vars
    BY <2>1 DEF vars, Delivery!vars
  <2> QED
    BY <2>1, ClientStep
<1> QED
  BY <1>1, <1>2, Invariance, PTL DEF Spec, DeliversAtLeastOnce, Delivery!Spec

=============================================================================
