---------------------------- MODULE AtLeastOnce ----------------------------
(***************************************************************************)
(* What the Kafka client promises whoever publishes: a message enters the  *)
(* log once, the messages are settled (handled, or put in the dead letter  *)
(* queue) in the order of the log, possibly more than once each, and the   *)
(* consumer group's offset never passes a message that is not settled.     *)
(***************************************************************************)
EXTENDS Naturals, Sequences

CONSTANT Messages

VARIABLES
  log,       \* the messages accepted, in order
  settled,   \* offsets of the messages handled or dead-lettered
  offset     \* how many messages the group will never see again

vars == <<log, settled, offset>>

Accepted(m) == \E i \in 1..Len(log) : log[i] = m

Accept(m) ==
  /\ ~Accepted(m)
  /\ log' = Append(log, m)
  /\ UNCHANGED <<settled, offset>>

Settle(i) ==
  /\ \A j \in 1..(i - 1) : j \in settled
  /\ settled' = settled \cup {i}
  /\ UNCHANGED <<log, offset>>

Advance(n) ==
  /\ offset < n
  /\ \A i \in 1..n : i \in settled
  /\ offset' = n
  /\ UNCHANGED <<log, settled>>

Init == log = <<>> /\ settled = {} /\ offset = 0

Next ==
  \/ \E m \in Messages : Accept(m)
  \/ \E i \in 1..Len(log) : Settle(i)
  \/ \E n \in 1..Len(log) : Advance(n)

Spec == Init /\ [][Next]_vars

=============================================================================
