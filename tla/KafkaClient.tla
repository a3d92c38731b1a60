---------------------------- MODULE KafkaClient ----------------------------
(***************************************************************************)
(* The Kafka client of the backend and the application's lifespan around   *)
(* it: the producer and the decorators of publish, the consumer loop with  *)
(* its dead letter queue, and how both are started and stopped.            *)
(*                                                                         *)
(* The topic is one partition (one order), the handler is whatever         *)
(* start_consumer was given: it returns or raises.  The broker's log, the  *)
(* dead letters and the committed offset survive the process.              *)
(*                                                                         *)
(* Definitions commented as a Variant are plausible mistakes in the one    *)
(* they precede; no behaviour uses them.                                   *)
(***************************************************************************)
EXTENDS Naturals, Sequences, FiniteSets

CONSTANTS
  Messages,      \* each is published by one call of the simulate endpoint
  Loop,          \* the consumer loop, as a caller of publish
  Raised,        \* what aiokafka may raise from send_and_wait
  MaxFaults,     \* bound: exceptions raised by aiokafka or the browser
  MaxRestarts    \* bound: crashes and restarts

ASSUME LoopAssumption  == Loop \notin Messages
ASSUME RaisedAssumption == Raised \subseteq {"KafkaError", "Exception"}
ASSUME BoundAssumption == MaxFaults \in Nat /\ MaxRestarts \in Nat

VARIABLES
  phase,      \* what the lifespan does next, or "serving"
  producer,   \* "none" or "started"
  consumer,   \* "none" or "started"
  loop,       \* the consumer task: where it is, how many messages it fetched
  call,       \* call[p]: caller p's publish
  topic,      \* the messages the broker stored
  dead,       \* offsets whose message is in the dead letter queue
  handled,    \* offsets whose message the handler processed
  committed,  \* the consumer group's offset
  faults,
  restarts

processVars == <<phase, producer, consumer>>
brokerVars  == <<topic, dead, committed>>
vars == <<phase, producer, consumer, loop, call, topic, dead, handled, committed,
          faults, restarts>>

Publishers == Messages \cup {Loop}
Attempts   == 3

Phase  == {"down", "browser", "consumer", "serving", "draining", "closing",
           "flushing", "stopped"}
LoopPc == {"none", "poll", "handle", "dead_letter", "commit", "commit_dead", "ended"}
CallPc == {"idle", "send", "stored", "acked", "failed", "lost"}

NoLoop == [pc |-> "none", position |-> 0]
NoCall == [pc |-> "idle", attempts |-> 0]

Settled(i) == i \in handled \cup dead

Fault == faults < MaxFaults /\ faults' = faults + 1

-----------------------------------------------------------------------------
(* Decorators *)

\* Variant: the error handler of publish lets the exception through.
PassesThrough(e) == e

\* async_error_handler, with reraise: any exception leaves as an HTTPException.
ErrorHandler(e) == "HTTPException"

\* async_retry: another attempt after an exception of the listed type.
Retries(e, attempts) == e = "KafkaError" /\ attempts < Attempts

-----------------------------------------------------------------------------
(* publish *)

InProgress(p) == call[p].pc \in {"send", "stored"}
CallTo(p, pc) == call' = [call EXCEPT ![p].pc = pc]
Calling       == [pc |-> "send", attempts |-> 1]

\* A simulate call publishes its event.  The producer is there whenever requests
\* are served (ClientsReady), so publish never has to start it.
PublishExceptionEvent(m) ==
  /\ phase = "serving"
  /\ call[m].pc = "idle"
  /\ call' = [call EXCEPT ![m] = Calling]
  /\ UNCHANGED <<processVars, loop, brokerVars, handled, faults, restarts>>

\* The broker stores the record.  A record of the loop is the dead letter of the
\* message the loop works on.
Store(p) ==
  /\ call[p].pc = "send"
  /\ CallTo(p, "stored")
  /\ IF p = Loop
       THEN dead' = dead \cup {loop.position} /\ UNCHANGED topic
       ELSE topic' = Append(topic, p) /\ UNCHANGED dead
  /\ UNCHANGED <<processVars, loop, handled, committed, faults, restarts>>

Acknowledge(p) ==
  /\ call[p].pc = "stored"
  /\ CallTo(p, "acked")
  /\ UNCHANGED <<processVars, loop, brokerVars, handled, faults, restarts>>

\* send_and_wait raises, before the broker stored the record or after it, when
\* only the acknowledgement was lost.  The exception passes the error handler
\* first, then the retry.
SendFails(p) ==
  /\ InProgress(p)
  /\ Fault
  /\ \E e \in Raised :
       call' = [call EXCEPT ![p] =
                  IF Retries(ErrorHandler(e), @.attempts)
                    THEN [pc |-> "send", attempts |-> @.attempts + 1]
                    ELSE [@ EXCEPT !.pc = "failed"]]
  /\ UNCHANGED <<processVars, loop, brokerVars, handled, restarts>>

-----------------------------------------------------------------------------
(* _consume_loop *)

LoopTo(pc) == loop' = [loop EXCEPT !.pc = pc]

\* The next message is fetched; the position moves on before it is handled.
NextMessage ==
  /\ loop.pc = "poll"
  /\ loop.position < Len(topic)
  /\ loop' = [pc |-> "handle", position |-> loop.position + 1]
  /\ UNCHANGED <<processVars, call, brokerVars, handled, faults, restarts>>

\* The iteration itself raises: the loop logs it and ends.
PollFails ==
  /\ loop.pc = "poll"
  /\ Fault
  /\ LoopTo("ended")
  /\ UNCHANGED <<processVars, call, brokerVars, handled, restarts>>

HandlerReturns ==
  /\ loop.pc = "handle"
  /\ LoopTo("commit")
  /\ handled' = handled \cup {loop.position}
  /\ UNCHANGED <<processVars, call, brokerVars, faults, restarts>>

\* The except branch: the message goes to the dead letter queue.
ToDeadLetter ==
  /\ LoopTo("dead_letter")
  /\ call' = [call EXCEPT ![Loop] = Calling]

HandlerRaises ==
  /\ loop.pc = "handle"
  /\ ToDeadLetter
  /\ UNCHANGED <<processVars, brokerVars, handled, faults, restarts>>

\* Variant: the offset after the next message is committed.
CommitPastNext == committed' = loop.position + 1

\* commit() commits the position, which covers every message fetched so far.
CommitPosition == committed' = loop.position

Commit ==
  /\ loop.pc \in {"commit", "commit_dead"}
  /\ LoopTo("poll")
  /\ CommitPosition
  /\ UNCHANGED <<processVars, call, topic, dead, handled, faults, restarts>>

\* The commit raises, after the broker recorded it or not (a lost answer, a
\* rebalance).  After a handled message this is an error like the handler's;
\* after a dead letter it leaves the loop.
CommitFails ==
  /\ loop.pc \in {"commit", "commit_dead"}
  /\ Fault
  /\ CommitPosition \/ UNCHANGED committed
  /\ IF loop.pc = "commit" THEN ToDeadLetter ELSE LoopTo("ended") /\ UNCHANGED call
  /\ UNCHANGED <<processVars, topic, dead, handled, restarts>>

DeadLettered ==
  /\ loop.pc = "dead_letter"
  /\ call[Loop].pc = "acked"
  /\ LoopTo("commit_dead")
  /\ call' = [call EXCEPT ![Loop] = NoCall]
  /\ UNCHANGED <<processVars, brokerVars, handled, faults, restarts>>

\* Variant: the loop goes on to the next message and leaves this one uncommitted.
SkipsDeadLetter     == "poll"
AfterLostDeadLetter == "ended"

\* publish_to_dlq raises inside the except branch: the loop ends.
DeadLetterFails ==
  /\ loop.pc = "dead_letter"
  /\ call[Loop].pc = "failed"
  /\ LoopTo(AfterLostDeadLetter)
  /\ call' = [call EXCEPT ![Loop] = NoCall]
  /\ UNCHANGED <<processVars, brokerVars, handled, faults, restarts>>

-----------------------------------------------------------------------------
(* The lifespan *)

StartProducer ==
  /\ phase = "down"
  /\ phase' = "browser"
  /\ producer' = "started"
  /\ UNCHANGED <<consumer, loop, call, brokerVars, handled, faults, restarts>>

StartBrowser ==
  /\ phase = "browser"
  /\ phase' = "consumer"
  /\ UNCHANGED <<producer, consumer, loop, call, brokerVars, handled, faults, restarts>>

\* Variant: auto_offset_reset "latest", also for a group that has an offset.
LatestPosition == Len(topic)

\* The committed offset, or the beginning if there is none.
StartPosition == committed

\* start_consumer, after which the application serves requests.
StartConsumer ==
  /\ phase = "consumer"
  /\ phase' = "serving"
  /\ consumer' = "started"
  /\ loop' = [pc |-> "poll", position |-> StartPosition]
  /\ UNCHANGED <<producer, call, brokerVars, handled, faults, restarts>>

\* The process is gone: its objects and its tasks with it.
ProcessGone(next) ==
  /\ phase' = next
  /\ producer' = "none"
  /\ consumer' = "none"
  /\ loop' = NoLoop
  /\ call' = [p \in Publishers |->
                IF p = Loop THEN NoCall
                ELSE IF InProgress(p) THEN [call[p] EXCEPT !.pc = "lost"] ELSE call[p]]

\* A start that raises leaves the lifespan: the server exits and is started again.
StartFails ==
  /\ phase \in {"down", "browser", "consumer"}
  /\ Fault
  /\ ProcessGone("down")
  /\ UNCHANGED <<brokerVars, handled, restarts>>

\* The server stops accepting requests; those in progress may finish.
Shutdown ==
  /\ phase = "serving"
  /\ phase' = "draining"
  /\ UNCHANGED <<producer, consumer, loop, call, brokerVars, handled, faults, restarts>>

Drained == phase = "draining" /\ \A m \in Messages : ~InProgress(m)

\* stop_consumer cancels the consumer task wherever it waits; a cancellation is
\* not an Exception, so neither except branch sees it.  A dead letter the producer
\* still delivers afterwards is one stored just before: nothing reads dead again
\* until the next start.
CancelLoop ==
  /\ Drained
  /\ phase' = "closing"
  /\ loop' = NoLoop
  /\ call' = [call EXCEPT ![Loop] = NoCall]
  /\ UNCHANGED <<producer, consumer, brokerVars, handled, faults, restarts>>

\* Variant: stop() stops the producer as soon as the server is drained.
StopsAtOnce    == phase \in {"flushing", "draining"}
MayStopProducer == phase = "flushing"

StopConsumer ==
  /\ phase = "closing"
  /\ phase' = "flushing"
  /\ consumer' = "none"
  /\ UNCHANGED <<producer, loop, call, brokerVars, handled, faults, restarts>>

\* stop_producer, then the browser and the database engine.
StopProducer ==
  /\ MayStopProducer
  /\ producer' = "none"
  /\ phase' = IF phase = "flushing" THEN "stopped" ELSE phase
  /\ UNCHANGED <<consumer, loop, call, brokerVars, handled, faults, restarts>>

\* An exception while stopping skips the rest of it; the process ends anyway.
StopFails ==
  /\ phase \in {"closing", "flushing"}
  /\ Fault
  /\ ProcessGone("stopped")
  /\ UNCHANGED <<brokerVars, handled, restarts>>

Restart ==
  /\ phase = "stopped"
  /\ restarts < MaxRestarts
  /\ restarts' = restarts + 1
  /\ phase' = "down"
  /\ UNCHANGED <<producer, consumer, loop, call, brokerVars, handled, faults>>

Crash ==
  /\ phase # "stopped"
  /\ restarts < MaxRestarts
  /\ restarts' = restarts + 1
  /\ ProcessGone("down")
  /\ UNCHANGED <<brokerVars, handled, faults>>

-----------------------------------------------------------------------------
(* The specification *)

Init ==
  /\ phase = "down" /\ producer = "none" /\ consumer = "none"
  /\ loop = NoLoop
  /\ call = [p \in Publishers |-> NoCall]
  /\ topic = <<>> /\ dead = {} /\ handled = {} /\ committed = 0
  /\ faults = 0 /\ restarts = 0

Publish(p) == Store(p) \/ Acknowledge(p) \/ SendFails(p)

LoopStep ==
  \/ NextMessage
  \/ PollFails
  \/ HandlerReturns
  \/ HandlerRaises
  \/ Commit
  \/ CommitFails
  \/ DeadLettered
  \/ DeadLetterFails

Lifespan ==
  \/ StartProducer
  \/ StartBrowser
  \/ StartConsumer
  \/ StartFails
  \/ CancelLoop
  \/ StopConsumer
  \/ StopProducer
  \/ StopFails

Next ==
  \/ \E m \in Messages : PublishExceptionEvent(m)
  \/ \E p \in Publishers : Publish(p)
  \/ LoopStep
  \/ Lifespan
  \/ Shutdown
  \/ Restart
  \/ Crash

Spec == Init /\ [][Next]_vars

\* Tasks that can run do run, and a process that ended is started again by the
\* container runtime unless it was stopped on purpose.
FairSpec ==
  /\ Spec
  /\ \A p \in Publishers : WF_vars(Publish(p))
  /\ WF_vars(LoopStep)
  /\ WF_vars(Lifespan)

-----------------------------------------------------------------------------
(* Properties *)

\* Every variable has its type: offsets stay within the topic, no publish makes
\* more than the allowed attempts.
TypeOK ==
  /\ phase \in Phase
  /\ producer \in {"none", "started"} /\ consumer \in {"none", "started"}
  /\ loop \in [pc : LoopPc, position : Nat]
  /\ call \in [Publishers -> [pc : CallPc, attempts : 0..Attempts]]
  /\ topic \in Seq(Messages)
  /\ dead \subseteq 1..Len(topic) /\ handled \subseteq 1..Len(topic)
  /\ committed \in 0..Len(topic)
  /\ faults \in 0..MaxFaults /\ restarts \in 0..MaxRestarts

\* Whoever publishes finds a started producer, and the loop a started consumer,
\* through every start, stop and failure of either: the order in which the
\* lifespan starts and stops them is what guarantees it, not a check in publish.
ClientsReady ==
  /\ \A p \in Publishers : InProgress(p) => producer = "started"
  /\ loop.pc \notin {"none", "ended"} => consumer = "started"

\* An offset is committed only past messages that were handled or dead-lettered,
\* whatever failed and whenever the loop was cancelled or the process died.
CommittedSettled == \A i \in 1..committed : Settled(i)

\* A message is in the topic at most once, although a publish whose
\* acknowledgement is lost cannot tell: this holds because the error handler
\* keeps the exception from the retry.
PublishedOnce == \A i, j \in 1..Len(topic) : topic[i] = topic[j] => i = j

\* The client delivers at least once and in order.
Delivery == INSTANCE AtLeastOnce
              WITH log <- topic, settled <- handled \cup dead, offset <- committed
DeliversAtLeastOnce == Delivery!Spec

\* A message in the topic is handled or dead-lettered in the end, through every
\* crash, unless the loop ended or the service was stopped.
Halted == loop.pc = "ended" \/ phase = "stopped"
StoredIsSettled ==
  \A i \in 1..Cardinality(Messages) : (i <= Len(topic)) ~> (Settled(i) \/ Halted)

(* What the documentation says and the code does not do *)

\* publish retries: it gives up only after the last attempt (docstring of
\* publish in kafka_client.py, and its async_retry).
GivesUpAfterRetries ==
  \A p \in Publishers : call[p].pc = "failed" => call[p].attempts = Attempts

=============================================================================
