----------------------------- MODULE ErpOrders -----------------------------
(***************************************************************************)
(* The orders table of the ERP mock under concurrent database sessions:    *)
(* feeds of a batch of orders, approved updates of one order with their    *)
(* audit row, and the administrative reset that deletes every order.       *)
(*                                                                         *)
(* Each call owns a session: one transaction at READ COMMITTED, committed  *)
(* when the call returns and rolled back when it raises.  A statement is   *)
(* an action; a row inserted, updated or deleted is locked until then, and *)
(* whoever needs the same order number waits.                              *)
(*                                                                         *)
(* Definitions commented as a Variant are plausible mistakes in the one    *)
(* they precede; no behaviour uses them.                                   *)
(***************************************************************************)
EXTENDS Naturals, Sequences, FiniteSets

CONSTANTS
  Feeds, Updates, Resets,   \* calls, each made at most once
  Orders,                   \* order numbers
  Batches,                  \* what a feed may send: sequences of items
  Statuses,                 \* statuses an order is updated to
  None,
  MaxFaults                 \* bound: sessions that lose their connection

Item == [order : Orders, kind : {"valid", "bad_status", "bad_exception"}]

ASSUME CallsAssumption ==
  /\ Feeds \cap Updates = {} /\ Feeds \cap Resets = {} /\ Updates \cap Resets = {}
  /\ None \notin Feeds
ASSUME BatchesAssumption == Batches \subseteq Seq(Item)
ASSUME StatusesAssumption == "fed" \notin Statuses /\ None \notin Orders
ASSUME BoundAssumption == MaxFaults \in Nat

Calls == Feeds \cup Updates \cup Resets

VARIABLES
  table,    \* table[o]: the committed row of o: the feed that made it (its id), its status
  call,     \* call[c]: where c is
  held,     \* held[c]: order numbers c has changed and not committed
  batch,    \* batch[c]: what feed c was sent
  seen,     \* seen[c]: rows (order number and id) an update or a reset has selected
  audit,    \* the integration_logs rows of updates, in order of commit
  faults

vars == <<table, call, held, batch, seen, audit, faults>>

NoRow == [id |-> None, status |-> None]
Row   == [id : Feeds, status : Statuses \cup {"fed"}] \cup {NoRow}
Selection == [order : Orders, id : Feeds \cup {None}]

\* next is the item a feed looks at, created the list it will answer with; to is
\* the status an update writes.
CallPc  == {"idle", "select", "insert", "flush", "delete", "commit", "done", "failed"}
NotMade == [pc |-> "idle", next |-> 1, created |-> {}, to |-> None]

Exists(o)   == table[o] # NoRow
Selected(o) == [order |-> o, id |-> table[o].id]

\* Another session has changed this order number and not ended.
Locked(c, o) == \E d \in Calls \ {c} : o \in held[d]

To(c, pc) == call' = [call EXCEPT ![c].pc = pc]
Hold(c, o) == held' = [held EXCEPT ![c] = @ \cup {o}]
Release(c) == held' = [held EXCEPT ![c] = {}]

\* Variant: get_db forgets the rollback, and the session keeps its locks.
KeepsLocks(c) == UNCHANGED held

\* get_db and get_db_context: an exception rolls the session back.
Rollback(c) == Release(c)

Raise(c) == To(c, "failed") /\ Rollback(c)

LoseConnection == faults < MaxFaults /\ faults' = faults + 1

\* What a session changed is there.  The answer to its commit may be lost with
\* the connection: the call raises, and the rollback finds nothing to undo.
CommitEnds(c) ==
  /\ \/ To(c, "done") /\ UNCHANGED faults
     \/ To(c, "failed") /\ LoseConnection
  /\ Release(c)

-----------------------------------------------------------------------------
(* feed_erp_orders *)

Feed(c) ==
  /\ call[c].pc = "idle"
  /\ \E b \in Batches : batch' = [batch EXCEPT ![c] = b]
  /\ To(c, "select")
  /\ UNCHANGED <<table, held, seen, audit, faults>>

HasItem(c) == call[c].next <= Len(batch[c])
ItemOf(c)  == batch[c][call[c].next]

\* Variant: an item with an unknown status is skipped.
SkipsBadStatus(c) ==
  /\ call' = IF ItemOf(c).kind = "bad_status" THEN [call EXCEPT ![c].next = @ + 1]
                                              ELSE [call EXCEPT ![c].pc = "insert"]
  /\ UNCHANGED held

\* The order is new: an unknown status raises, otherwise it is inserted next.
CheckStatus(c) ==
  IF ItemOf(c).kind = "bad_status" THEN Raise(c) ELSE To(c, "insert") /\ UNCHANGED held

\* The select of one item: it sees what is committed and what this session did.
FeedSelect(c) ==
  /\ call[c].pc = "select" /\ HasItem(c)
  /\ IF Exists(ItemOf(c).order) \/ ItemOf(c).order \in held[c]
       THEN call' = [call EXCEPT ![c].next = @ + 1] /\ UNCHANGED held
       ELSE CheckStatus(c)
  /\ UNCHANGED <<table, batch, seen, audit, faults>>

\* Variant: order_number is not unique.
NotUnique(o) == FALSE

\* The unique index on order_number, once no other session holds the number.
Violates(o) == Exists(o)

NewRow(c) == [id |-> c, status |-> "fed"]

\* Variant: every item is committed on its own.
InsertsAndCommits(c, o) == table' = [table EXCEPT ![o] = NewRow(c)] /\ UNCHANGED held

\* The row is there for this session only.
InsertRow(c, o) == Hold(c, o) /\ UNCHANGED table

\* The flush of one item; an exception row of unknown type raises after it.
FeedInsert(c) ==
  /\ call[c].pc = "insert"
  /\ LET o == ItemOf(c).order
     IN  /\ ~Locked(c, o)
         /\ IF Violates(o) \/ ItemOf(c).kind = "bad_exception"
              THEN Raise(c) /\ UNCHANGED table
              ELSE /\ InsertRow(c, o)
                   /\ call' = [call EXCEPT ![c] = [pc |-> "select", next |-> @.next + 1,
                                                   created |-> @.created \cup {o},
                                                   to |-> None]]
  /\ UNCHANGED <<batch, seen, audit, faults>>

\* The commit at the end of the endpoint.
FeedCommit(c) ==
  /\ call[c].pc = "select" /\ ~HasItem(c)
  /\ table' = [o \in Orders |-> IF o \in held[c] THEN NewRow(c) ELSE table[o]]
  /\ CommitEnds(c)
  /\ UNCHANGED <<batch, seen, audit>>

-----------------------------------------------------------------------------
(* update_order_in_erp *)

\* Variant: the order is not looked for in the answer.
AssumesFound(o) == "flush"

\* Without the order only the failed attempt is logged.
AfterSelect(o) == IF Exists(o) THEN "flush" ELSE "commit"

UpdateSelect(c) ==
  /\ call[c].pc = "idle"
  /\ \E o \in Orders, s \in Statuses :
       /\ seen' = [seen EXCEPT ![c] = {Selected(o)}]
       /\ call' = [call EXCEPT ![c].pc = AfterSelect(o), ![c].to = s]
  /\ UNCHANGED <<table, held, batch, audit, faults>>

\* The row selected was deleted, and perhaps fed again.
Gone(s) == table[s.order].id # s.id

\* Variant: an update that met no row counts as done.
NeverStale(s) == FALSE

\* The flush of an update that meets no row raises StaleDataError.
Stale(s) == Gone(s)

UpdateFlush(c) ==
  /\ call[c].pc = "flush"
  /\ \E s \in seen[c] :
       /\ ~Locked(c, s.order)
       /\ IF Stale(s) THEN Raise(c) ELSE Hold(c, s.order) /\ To(c, "commit")
  /\ UNCHANGED <<table, batch, seen, audit, faults>>

\* Order and log row are one transaction.
UpdateCommit(c) ==
  /\ call[c].pc = "commit"
  /\ \E s \in seen[c] :
       /\ table' = [table EXCEPT ![s.order] =
                      IF s.order \in held[c] /\ ~Gone(s)
                        THEN [@ EXCEPT !.status = call[c].to] ELSE @]
       /\ audit' = Append(audit, [row |-> s, to |-> call[c].to,
                                  success |-> s.order \in held[c]])
  /\ CommitEnds(c)
  /\ UNCHANGED <<batch, seen>>

-----------------------------------------------------------------------------
(* reset_erp_orders *)

\* The delete takes the rows committed when it starts; the tables that reference
\* orders are emptied by it as well (they cascade).
ResetStart(c) ==
  /\ call[c].pc = "idle"
  /\ To(c, "delete")
  /\ seen' = [seen EXCEPT ![c] = {Selected(o) : o \in {p \in Orders : Exists(p)}}]
  /\ UNCHANGED <<table, held, batch, audit, faults>>

\* One row is deleted, unless it went while the delete waited for it.
ResetDelete(c) ==
  /\ call[c].pc = "delete"
  /\ \E s \in seen[c] :
       /\ ~Locked(c, s.order)
       /\ seen' = [seen EXCEPT ![c] = @ \ {s}]
       /\ IF Gone(s) THEN UNCHANGED held ELSE Hold(c, s.order)
  /\ UNCHANGED <<table, call, batch, audit, faults>>

ResetCommit(c) ==
  /\ call[c].pc = "delete" /\ seen[c] = {}
  /\ table' = [o \in Orders |-> IF o \in held[c] THEN NoRow ELSE table[o]]
  /\ CommitEnds(c)
  /\ UNCHANGED <<batch, seen, audit>>

-----------------------------------------------------------------------------
(* Failures *)

Running(c) == call[c].pc \notin {"idle", "done", "failed"}

\* The session loses its connection before its commit: the server rolls it back.
ConnectionLost(c) ==
  /\ Running(c)
  /\ LoseConnection
  /\ To(c, "failed") /\ Release(c)
  /\ UNCHANGED <<table, batch, seen, audit>>

\* The order numbers c cannot go on without.
Wants(c) ==
  IF call[c].pc = "insert" THEN {ItemOf(c).order}
  ELSE IF call[c].pc \in {"flush", "delete"} THEN {s.order : s \in seen[c]} ELSE {}

Waiting == {c \in Calls : Wants(c) # {} /\ \A o \in Wants(c) : Locked(c, o)}

WaitsFor(c, d) == d # c /\ Wants(c) \cap held[d] # {}

Deadlocked(S) ==
  \A c \in S : (\E d \in S : WaitsFor(c, d)) /\ (\E d \in S : WaitsFor(d, c))

\* The database finds a cycle of waiting sessions and aborts one of them.
AbortDeadlocked(c) ==
  /\ \E S \in SUBSET Waiting : c \in S /\ Deadlocked(S)
  /\ To(c, "failed") /\ Release(c)
  /\ UNCHANGED <<table, batch, seen, audit, faults>>

-----------------------------------------------------------------------------
(* The specification *)

Init ==
  /\ table = [o \in Orders |-> NoRow]
  /\ call = [c \in Calls |-> NotMade]
  /\ held = [c \in Calls |-> {}]
  /\ batch = [c \in Feeds |-> <<>>]
  /\ seen = [c \in Updates \cup Resets |-> {}]
  /\ audit = <<>>
  /\ faults = 0

FeedStep(c)   == FeedSelect(c) \/ FeedInsert(c) \/ FeedCommit(c)
UpdateStep(c) == UpdateFlush(c) \/ UpdateCommit(c)
ResetStep(c)  == ResetDelete(c) \/ ResetCommit(c)

Next ==
  \/ \E c \in Feeds : Feed(c) \/ FeedStep(c)
  \/ \E c \in Updates : UpdateSelect(c) \/ UpdateStep(c)
  \/ \E c \in Resets : ResetStart(c) \/ ResetStep(c)
  \/ \E c \in Calls : ConnectionLost(c) \/ AbortDeadlocked(c)

Spec == Init /\ [][Next]_vars

\* A call that was made goes on when it can, and the database resolves deadlocks.
FairSpec ==
  /\ Spec
  /\ \A c \in Feeds : WF_vars(FeedStep(c))
  /\ \A c \in Updates : WF_vars(UpdateStep(c))
  /\ \A c \in Resets : WF_vars(ResetStep(c))
  /\ WF_vars(\E c \in Calls : AbortDeadlocked(c))

-----------------------------------------------------------------------------
(* Properties *)

\* Every variable has its type; a row without a feed that made it is no row.
TypeOK ==
  /\ table \in [Orders -> Row]
  /\ call \in [Calls -> [pc : CallPc, next : Nat \ {0}, created : SUBSET Orders,
                         to : Statuses \cup {None}]]
  /\ held \in [Calls -> SUBSET Orders]
  /\ batch \in [Feeds -> Batches \cup {<<>>}]
  /\ seen \in [Updates \cup Resets -> SUBSET Selection]
  /\ audit \in Seq([row : Selection, to : Statuses, success : BOOLEAN])
  /\ faults \in 0..MaxFaults

\* A feed never takes the place of an order that exists ("already exists",
\* api.py:200), not even of one inserted after its select.
NeverOverwritten ==
  [][\A o \in Orders : Exists(o) => table'[o] = NoRow \/ table'[o].id = table[o].id]_vars

\* A feed appears whole, with the orders its answer lists, at the commit that
\* ends it, or not at all (api.py:257, one commit after the loop) -- whether or
\* not the caller learns that it was committed.
Fed(c) == {o \in Orders : table[o].id = c}
FeedIsAtomic ==
  [][\A c \in Feeds :
       \/ Fed(c)' \subseteq Fed(c)
       \/ /\ Running(c) /\ ~Running(c)'
          /\ Fed(c) = {} /\ Fed(c)' = call'[c].created]_vars

\* Without resets every order of a batch that was accepted exists.
AcceptedOrdersExist ==
  \A c \in Feeds :
    call[c].pc = "done" /\ (\A r \in Resets : call[r].pc = "idle")
      => \A i \in 1..Len(batch[c]) : Exists(batch[c][i].order)

\* A log row of success belongs to a change of the row that was selected, made
\* at that moment (mulesoft.py:42).
AuditIsTruthful ==
  [][\A i \in (Len(audit) + 1)..Len(audit') :
       audit'[i].success => /\ ~Gone(audit'[i].row)
                            /\ table'[audit'[i].row.order].status = audit'[i].to]_vars

\* Every call ends, though batches may lock each other's orders.
Ended(c) == call[c].pc \in {"done", "failed"}
EveryCallEnds == \A c \in Calls : Running(c) ~> Ended(c)

=============================================================================
