-------------------------- MODULE ErpOrders_proofs --------------------------
(***************************************************************************)
(* The orders table for any number of feeds, updates, resets and orders,   *)
(* whatever the batches.                                                   *)
(***************************************************************************)
EXTENDS ErpOrders, TLAPS

-----------------------------------------------------------------------------
(* The inductive invariant *)

\* Two sessions never hold one order number.
LocksExclude ==
  \A c, d \in Calls : \A o \in Orders : o \in held[c] /\ o \in held[d] => c = d

\* What a feed holds is missing from the table and is what it will answer with;
\* the table has rows of it only after its commit.
FeedKnows(c) ==
  /\ call[c].pc = "insert" => HasItem(c)
  /\ call[c].pc = "idle" => call[c].created = {}
  /\ Running(c) => call[c].created = held[c]
  /\ call[c].pc \notin {"done", "failed"} => Fed(c) = {}
  /\ \A o \in held[c] : ~Exists(o)

\* An update that goes on after its select found a row and has a status to
\* write, and a row it changed is the one it selected.
UpdateKnows(c) ==
  /\ \A s, t \in seen[c] : s = t
  /\ call[c].pc \in {"flush", "commit"} => call[c].to \in Statuses
  /\ call[c].pc = "flush" => \A s \in seen[c] : s.id \in Feeds
  /\ \A s \in seen[c] : s.order \in held[c] => s.id \in Feeds /\ ~Gone(s)

CallKnows(c) ==
  /\ held[c] # {} => Running(c)
  /\ c \in Feeds => FeedKnows(c)
  /\ c \in Updates => UpdateKnows(c)

IInv == TypeOK /\ LocksExclude /\ \A c \in Calls : CallKnows(c)

-----------------------------------------------------------------------------
(* What a step of one call leaves alone *)

\* A step of c changes no other session, and no row it does not hold; a row gets
\* no maker but c.
Alone(c) ==
  /\ \A d \in Calls \ {c} : call'[d] = call[d] /\ held'[d] = held[d]
  /\ \A d \in Feeds \ {c} : batch'[d] = batch[d]
  /\ \A d \in (Updates \cup Resets) \ {c} : seen'[d] = seen[d]
  /\ \A o \in Orders : o \notin held[c] => table'[o] = table[o]
  /\ \A o \in Orders : table'[o].id \in {table[o].id, c, None}

\* Alone, it takes only free order numbers and knows its own affairs after it.
Sound(c) ==
  /\ TypeOK'
  /\ Alone(c)
  /\ \A o \in held'[c] \ held[c] : ~Locked(c, o)
  /\ CallKnows(c)'

LEMMA SoundSuffices ==
  ASSUME IInv, NEW c \in Calls, Sound(c)
  PROVE  IInv'
<1>types. TypeOK /\ TypeOK'
  BY DEF IInv, Sound
<1>alone. Alone(c)
  BY DEF Sound
<1>1. LocksExclude'
  <2> SUFFICES ASSUME NEW d \in Calls, NEW e \in Calls, NEW o \in Orders,
                      o \in held'[d], o \in held'[e], d # e
               PROVE  FALSE
    BY DEF LocksExclude
  <2>1. CASE d # c /\ e # c
    BY <2>1, <1>alone DEF Alone, IInv, LocksExclude
  <2>2. CASE d = c
    BY <2>2, <1>alone DEF Alone, Sound, Locked, IInv, LocksExclude
  <2>3. CASE e = c
    BY <2>3, <1>alone DEF Alone, Sound, Locked, IInv, LocksExclude
  <2> QED
    BY <2>1, <2>2, <2>3
<1>2. ASSUME NEW d \in Calls, d # c
      PROVE  CallKnows(d)'
  <2>same. call'[d] = call[d] /\ held'[d] = held[d] /\ held[d] \subseteq Orders
    BY <1>2, <1>types, <1>alone DEF Alone, TypeOK
  <2>rows. \A o \in held[d] : table'[o] = table[o]
    BY <1>2, <2>same, <1>alone DEF Alone, IInv, LocksExclude
  <2>knows. CallKnows(d)
    BY DEF IInv
  <2>1. held'[d] # {} => Running(d)'
    BY <2>same, <2>knows DEF CallKnows, Running
  <2>2. ASSUME d \in Feeds PROVE FeedKnows(d)'
    <3>1. batch'[d] = batch[d] /\ FeedKnows(d)
      BY <1>2, <2>2, <1>alone, <2>knows DEF Alone, CallKnows
    <3>2. Fed(d) = {} => Fed(d)' = {}
      BY <1>2, <2>2, <1>alone, CallsAssumption DEF Alone, Fed
    <3>3. \A o \in held[d] : ~Exists(o)'
      BY <2>rows, <3>1 DEF FeedKnows, Exists
    <3> QED
      BY <2>same, <3>1, <3>2, <3>3 DEF FeedKnows, HasItem, Running
  <2>3. ASSUME d \in Updates PROVE UpdateKnows(d)'
    <3>1. seen'[d] = seen[d] /\ UpdateKnows(d)
      BY <1>2, <2>3, <1>alone, <2>knows DEF Alone, CallKnows
    <3> QED
      BY <2>same, <2>rows, <3>1 DEF UpdateKnows, Gone
  <2> QED
    BY <2>1, <2>2, <2>3 DEF CallKnows
<1>3. CallKnows(c)'
  BY DEF Sound
<1> QED
  BY <1>types, <1>1, <1>2, <1>3 DEF IInv

LEMMA IInvInit == Init => IInv
<1> SUFFICES ASSUME Init PROVE IInv
  OBVIOUS
<1>1. TypeOK
  BY BoundAssumption DEF Init, TypeOK, Row, NoRow, NotMade, CallPc, Calls
<1>2. LocksExclude
  BY DEF Init, LocksExclude
<1>3. ASSUME NEW c \in Calls PROVE CallKnows(c)
  <2>1. call[c].pc = "idle" /\ call[c].created = {} /\ held[c] = {}
    BY DEF Init, NotMade
  <2>2. c \in Feeds => Fed(c) = {}
    BY CallsAssumption DEF Init, Fed, NoRow
  <2> QED
    <3>1. c \in Updates => seen[c] = {}
      BY DEF Init
    <3> QED
      BY <2>1, <2>2, <3>1 DEF CallKnows, FeedKnows, UpdateKnows, Running
<1> QED
  BY <1>1, <1>2, <1>3 DEF IInv

-----------------------------------------------------------------------------
(* Every step is sound: feeds *)

CallRecord == [pc : CallPc, next : Nat \ {0}, created : SUBSET Orders,
               to : Statuses \cup {None}]

\* What happens to a call keeps the type if its new record has it.
LEMMA CallType ==
  ASSUME call \in [Calls -> CallRecord], NEW c \in Calls, NEW r \in CallRecord,
         call' = [call EXCEPT ![c] = r]
  PROVE  call' \in [Calls -> CallRecord]
OBVIOUS

LEMMA FeedSound ==
  ASSUME IInv, NEW c \in Feeds, Feed(c)
  PROVE  Sound(c)
<1>type. TypeOK /\ c \in Calls /\ CallKnows(c)
  BY DEF IInv, Calls
<1>1. TypeOK'
  BY <1>type DEF Feed, To, TypeOK, CallPc
<1>2. Alone(c)
  BY <1>type DEF Feed, To, Alone, TypeOK
<1>3. CallKnows(c)'
  <2>1. /\ call[c].pc = "idle" /\ call'[c].pc = "select"
        /\ call'[c].created = call[c].created /\ held' = held /\ table' = table
    BY <1>type DEF Feed, To, TypeOK
  <2>2. held[c] = {} /\ FeedKnows(c) /\ c \notin Updates
    BY <1>type, <2>1, CallsAssumption DEF CallKnows, Running
  <2> QED
    BY <2>1, <2>2 DEF CallKnows, FeedKnows, Running, Fed, Exists
<1>4. held' = held
  BY DEF Feed
<1> QED
  BY <1>1, <1>2, <1>3, <1>4 DEF Sound

\* The item at a position within the batch.
LEMMA ItemType ==
  ASSUME TypeOK, NEW c \in Feeds, HasItem(c)
  PROVE  ItemOf(c) \in Item
<1>1. batch[c] \in Batches \cup {<<>>} /\ call[c].next \in Nat \ {0}
  BY DEF TypeOK, Calls
<1>2. batch[c] # <<>>
  BY <1>1 DEF HasItem
<1>3. batch[c] \in Seq(Item)
  BY <1>1, <1>2, BatchesAssumption
<1> QED
  BY <1>1, <1>3 DEF HasItem, ItemOf

\* A call that raises keeps nothing.
LEMMA RaiseSound ==
  ASSUME IInv, NEW c \in Calls, Raise(c) \/ (To(c, "failed") /\ Release(c)),
         UNCHANGED <<table, batch, seen, audit>>, faults' \in 0..MaxFaults,
         Running(c)
  PROVE  Sound(c)
<1>type. TypeOK /\ CallKnows(c)
  BY DEF IInv
<1>1. To(c, "failed") /\ Release(c)
  BY DEF Raise, Rollback
<1>2. TypeOK'
  BY <1>type, <1>1 DEF To, Release, TypeOK, CallPc
<1>3. Alone(c)
  BY <1>type, <1>1 DEF To, Release, Alone, TypeOK
<1>4. call'[c].pc = "failed" /\ held'[c] = {}
  BY <1>type, <1>1 DEF To, Release, TypeOK
<1>5. CallKnows(c)'
  <2>1. c \in Feeds => Fed(c)' = {}
    BY <1>type DEF CallKnows, FeedKnows, Running, Fed
  <2>2. c \in Feeds => FeedKnows(c)'
    BY <1>4, <2>1 DEF FeedKnows, Running
  <2>3. c \in Updates => UpdateKnows(c)'
    BY <1>type, <1>4 DEF CallKnows, UpdateKnows
  <2> QED
    BY <1>4, <2>2, <2>3 DEF CallKnows
<1> QED
  BY <1>2, <1>3, <1>4, <1>5 DEF Sound

LEMMA FeedSelectSound ==
  ASSUME IInv, NEW c \in Feeds, FeedSelect(c)
  PROVE  Sound(c)
<1>type. TypeOK /\ c \in Calls /\ CallKnows(c) /\ c \notin Updates
  BY CallsAssumption DEF IInv, Calls
<1>same. UNCHANGED <<table, batch, seen, audit, faults>> /\ Running(c) /\ HasItem(c)
  BY DEF FeedSelect, Running
<1>1. CASE Raise(c)
  BY <1>1, <1>type, <1>same, RaiseSound DEF TypeOK
<1>2. CASE ~Raise(c)
  <2>1. held' = held /\ \/ call' = [call EXCEPT ![c].next = @ + 1]
                        \/ To(c, "insert")
    BY <1>2 DEF FeedSelect, CheckStatus
  <2>2. TypeOK'
    <3>1. call \in [Calls -> CallRecord] /\ call[c] \in CallRecord
      BY <1>type DEF TypeOK, CallRecord
    <3>2. CASE To(c, "insert")
      <4>1. [call[c] EXCEPT !.pc = "insert"] \in CallRecord
        BY <3>1 DEF CallRecord, CallPc
      <4> QED
        BY <3>1, <3>2, <4>1, CallType, <1>type, <1>same, <2>1 DEF To, TypeOK, CallRecord
    <3>3. CASE call' = [call EXCEPT ![c].next = @ + 1]
      <4>1. [call[c] EXCEPT !.next = @ + 1] \in CallRecord
        BY <3>1 DEF CallRecord
      <4> QED
        BY <3>1, <3>3, <4>1, CallType, <1>type, <1>same, <2>1 DEF TypeOK, CallRecord
    <3> QED
      BY <2>1, <3>2, <3>3
  <2>3. Alone(c)
    BY <1>type, <1>same, <2>1 DEF To, Alone, TypeOK
  <2>4. /\ call[c].pc = "select" /\ call'[c].created = call[c].created
        /\ \/ call'[c].pc = "select"
           \/ call'[c].pc = "insert" /\ call'[c].next = call[c].next
    BY <1>type, <2>1 DEF FeedSelect, To, TypeOK
  <2>5. CallKnows(c)'
    BY <1>type, <1>same, <2>1, <2>4 DEF CallKnows, FeedKnows, HasItem, Running, Fed, Exists
  <2> QED
    BY <2>1, <2>2, <2>3, <2>5 DEF Sound
<1> QED
  BY <1>1, <1>2

LEMMA FeedInsertSound ==
  ASSUME IInv, NEW c \in Feeds, FeedInsert(c)
  PROVE  Sound(c)
<1> DEFINE o == ItemOf(c).order
<1>type. TypeOK /\ c \in Calls /\ CallKnows(c) /\ c \notin Updates
  BY CallsAssumption DEF IInv, Calls
<1>same. UNCHANGED <<table, batch, seen, audit, faults>> /\ Running(c)
  BY DEF FeedInsert, Running, InsertRow
<1>item. o \in Orders
  BY <1>type, ItemType DEF CallKnows, FeedKnows, FeedInsert, Item
<1>1. CASE Raise(c)
  BY <1>1, <1>type, <1>same, RaiseSound DEF TypeOK
<1>2. CASE ~Raise(c)
  <2>1. /\ ~Locked(c, o) /\ ~Exists(o)
        /\ held' = [held EXCEPT ![c] = @ \cup {o}]
        /\ call' = [call EXCEPT ![c] = [pc |-> "select", next |-> @.next + 1,
                                        created |-> @.created \cup {o}, to |-> None]]
    BY <1>2 DEF FeedInsert, InsertRow, Hold, Violates
  <2> HIDE DEF o
  <2>2. TypeOK'
    <3> DEFINE r == [pc |-> "select", next |-> call[c].next + 1,
                     created |-> call[c].created \cup {o}, to |-> None]
    <3>0. call \in [Calls -> CallRecord] /\ call[c] \in CallRecord
      BY <1>type DEF TypeOK, CallRecord
    <3>r. r \in CallRecord
      BY <1>item, <3>0 DEF CallRecord, CallPc
    <3>c. call' = [call EXCEPT ![c] = r]
      BY <2>1
    <3> HIDE DEF r
    <3>1. call' \in [Calls -> CallRecord]
      BY <1>type, <3>0, <3>r, <3>c, CallType
    <3>2. held' \in [Calls -> SUBSET Orders]
      BY <1>type, <1>item, <2>1 DEF TypeOK
    <3> QED
      BY <1>type, <1>same, <3>1, <3>2 DEF TypeOK, CallRecord
  <2>3. Alone(c)
    BY <1>type, <1>same, <2>1 DEF Alone, TypeOK
  <2>4. /\ held'[c] = held[c] \cup {o}
        /\ call'[c].pc = "select" /\ call'[c].created = call[c].created \cup {o}
    BY <1>type, <2>1 DEF TypeOK
  <2>5. CallKnows(c)'
    <3>1. FeedKnows(c) /\ call[c].pc \notin {"done", "failed"}
      BY <1>type DEF CallKnows, FeedInsert
    <3>2. Fed(c)' = {}
      BY <1>same, <3>1 DEF FeedKnows, Fed
    <3>3. \A p \in held'[c] : ~Exists(p)'
      BY <1>same, <2>1, <2>4, <3>1 DEF FeedKnows, Exists
    <3> QED
      BY <1>type, <1>same, <2>4, <3>1, <3>2, <3>3 DEF CallKnows, FeedKnows, Running
  <2> QED
    BY <2>1, <2>2, <2>3, <2>4, <2>5 DEF Sound
<1> QED
  BY <1>1, <1>2

\* Whether or not its answer arrives, a commit ends the call and its locks.
LEMMA CommitEndsCall ==
  ASSUME TypeOK, NEW c \in Calls, CommitEnds(c)
  PROVE  /\ \E pc \in {"done", "failed"} : call' = [call EXCEPT ![c].pc = pc]
         /\ held' = [held EXCEPT ![c] = {}]
         /\ faults' \in 0..MaxFaults
<1>1. faults \in 0..MaxFaults
  BY DEF TypeOK
<1>2. faults' \in 0..MaxFaults
  BY <1>1, BoundAssumption DEF CommitEnds, LoseConnection
<1> QED
  BY <1>2 DEF CommitEnds, To, Release

LEMMA FeedCommitSound ==
  ASSUME IInv, NEW c \in Feeds, FeedCommit(c)
  PROVE  Sound(c)
<1>type. TypeOK /\ c \in Calls /\ CallKnows(c) /\ c \notin Updates
  BY CallsAssumption DEF IInv, Calls
<1>step. PICK pc \in {"done", "failed"} :
           /\ table' = [o \in Orders |-> IF o \in held[c] THEN NewRow(c) ELSE table[o]]
           /\ call' = [call EXCEPT ![c].pc = pc]
           /\ held' = [held EXCEPT ![c] = {}]
           /\ faults' \in 0..MaxFaults /\ UNCHANGED <<batch, seen, audit>>
  BY <1>type, CommitEndsCall DEF FeedCommit
<1>1. TypeOK'
  <2>1. table' \in [Orders -> Row]
    BY <1>type, <1>step DEF TypeOK, Row, NewRow
  <2>2. call' \in [Calls -> [pc : CallPc, next : Nat \ {0}, created : SUBSET Orders,
                             to : Statuses \cup {None}]]
    BY <1>type, <1>step DEF TypeOK, CallPc
  <2>3. held' \in [Calls -> SUBSET Orders]
    BY <1>type, <1>step DEF TypeOK
  <2> QED
    BY <1>type, <1>step, <2>1, <2>2, <2>3 DEF TypeOK
<1>2. Alone(c)
  BY <1>type, <1>step DEF Alone, TypeOK, NewRow
<1>3. held'[c] = {} /\ call'[c].pc = pc
  BY <1>type, <1>step DEF TypeOK
<1>4. CallKnows(c)'
  BY <1>type, <1>3 DEF CallKnows, FeedKnows, Running
<1> QED
  BY <1>1, <1>2, <1>3, <1>4 DEF Sound

-----------------------------------------------------------------------------
(* Every step is sound: updates and resets *)

LEMMA UpdateSelectSound ==
  ASSUME IInv, NEW c \in Updates, UpdateSelect(c)
  PROVE  Sound(c)
<1>type. TypeOK /\ c \in Calls /\ CallKnows(c) /\ c \notin Feeds
  BY CallsAssumption DEF IInv, Calls
<1>step. PICK o \in Orders, s \in Statuses :
           /\ seen' = [seen EXCEPT ![c] = {Selected(o)}]
           /\ call' = [call EXCEPT ![c].pc = AfterSelect(o), ![c].to = s]
  BY DEF UpdateSelect
<1>same. UNCHANGED <<table, held, batch, audit, faults>> /\ call[c].pc = "idle"
  BY DEF UpdateSelect
<1>row. /\ table[o] \in Row /\ Selected(o) = [order |-> o, id |-> table[o].id]
        /\ Selected(o) \in Selection
  BY <1>type DEF TypeOK, Selected, Selection, Row, NoRow
<1>1. TypeOK'
  <2> DEFINE r == [call[c] EXCEPT !.pc = AfterSelect(o), !.to = s]
  <2>1. call \in [Calls -> CallRecord] /\ call[c] \in CallRecord
    BY <1>type DEF TypeOK, CallRecord
  <2>2. r \in CallRecord
    <3>1. AfterSelect(o) \in CallPc
      BY DEF AfterSelect, CallPc
    <3> QED
      BY <2>1, <3>1 DEF CallRecord
  <2>3. call' = [call EXCEPT ![c] = r]
    BY <1>step
  <2>4. call' \in [Calls -> CallRecord]
    BY <1>type, <2>1, <2>2, <2>3, CallType
  <2>5. seen' \in [Updates \cup Resets -> SUBSET Selection]
    BY <1>type, <1>step, <1>row DEF TypeOK
  <2> QED
    BY <1>type, <1>same, <2>4, <2>5 DEF TypeOK, CallRecord
<1>2. Alone(c)
  BY <1>type, <1>step, <1>same DEF Alone, TypeOK
<1>3. CallKnows(c)'
  <2>1. /\ call'[c].pc = AfterSelect(o) /\ call'[c].to = s
        /\ seen'[c] = {Selected(o)}
    BY <1>type, <1>step DEF TypeOK
  <2>2. held'[c] = {}
    BY <1>type, <1>same DEF CallKnows, Running
  <2>3. AfterSelect(o) = "flush" => table[o].id \in Feeds
    BY <1>row DEF AfterSelect, Exists, Row
  <2> QED
    BY <1>type, <1>row, <2>1, <2>2, <2>3 DEF CallKnows, UpdateKnows
<1> QED
  BY <1>same, <1>1, <1>2, <1>3 DEF Sound

LEMMA UpdateFlushSound ==
  ASSUME IInv, NEW c \in Updates, UpdateFlush(c)
  PROVE  Sound(c)
<1>type. TypeOK /\ c \in Calls /\ CallKnows(c) /\ c \notin Feeds
  BY CallsAssumption DEF IInv, Calls
<1>same. UNCHANGED <<table, batch, seen, audit, faults>> /\ call[c].pc = "flush" /\ Running(c)
  BY DEF UpdateFlush, Running
<1>1. CASE Raise(c)
  BY <1>1, <1>type, <1>same, RaiseSound DEF TypeOK
<1>2. CASE ~Raise(c)
  <2>1. PICK s \in seen[c] : /\ ~Locked(c, s.order) /\ ~Gone(s)
                             /\ held' = [held EXCEPT ![c] = @ \cup {s.order}]
                             /\ call' = [call EXCEPT ![c].pc = "commit"]
    BY <1>2 DEF UpdateFlush, Stale, Hold, To
  <2>2. s \in Selection /\ s.order \in Orders
    BY <1>type DEF TypeOK, Selection
  <2>3. TypeOK'
    <3>1. call' \in [Calls -> [pc : CallPc, next : Nat \ {0}, created : SUBSET Orders,
                               to : Statuses \cup {None}]]
      BY <1>type, <2>1 DEF TypeOK, CallPc
    <3>2. held' \in [Calls -> SUBSET Orders]
      BY <1>type, <2>1, <2>2 DEF TypeOK
    <3> QED
      BY <1>type, <1>same, <3>1, <3>2 DEF TypeOK
  <2>4. Alone(c)
    BY <1>type, <1>same, <2>1 DEF Alone, TypeOK
  <2>5. /\ held'[c] = held[c] \cup {s.order}
        /\ call'[c].pc = "commit" /\ call'[c].to = call[c].to
    BY <1>type, <2>1 DEF TypeOK
  <2>6. UpdateKnows(c)'
    <3>1. UpdateKnows(c) /\ \A t \in seen[c] : t = s
      BY <1>type DEF CallKnows, UpdateKnows
    <3> QED
      BY <1>same, <2>1, <2>5, <3>1 DEF UpdateKnows, Gone
  <2> QED
    BY <1>type, <2>1, <2>3, <2>4, <2>5, <2>6 DEF Sound, CallKnows, Running
<1> QED
  BY <1>1, <1>2

LEMMA UpdateCommitSound ==
  ASSUME IInv, NEW c \in Updates, UpdateCommit(c)
  PROVE  Sound(c)
<1>type. TypeOK /\ c \in Calls /\ CallKnows(c) /\ UpdateKnows(c) /\ c \notin Feeds
  BY CallsAssumption DEF IInv, Calls, CallKnows
<1>step. PICK s \in seen[c] :
           /\ table' = [table EXCEPT ![s.order] =
                          IF s.order \in held[c] /\ ~Gone(s)
                            THEN [@ EXCEPT !.status = call[c].to] ELSE @]
           /\ audit' = Append(audit, [row |-> s, to |-> call[c].to,
                                      success |-> s.order \in held[c]])
  BY DEF UpdateCommit
<1>same. PICK pc \in {"done", "failed"} :
           /\ call[c].pc = "commit" /\ UNCHANGED <<batch, seen>>
           /\ call' = [call EXCEPT ![c].pc = pc]
           /\ held' = [held EXCEPT ![c] = {}]
           /\ faults' \in 0..MaxFaults
  BY <1>type, CommitEndsCall DEF UpdateCommit
<1>seen. s \in Selection /\ s.order \in Orders /\ call[c].to \in Statuses
  BY <1>type, <1>same DEF TypeOK, Selection, UpdateKnows
<1>row. \/ table' = table
        \/ /\ s.order \in held[c] /\ table[s.order].id \in Feeds
           /\ table' = [table EXCEPT ![s.order] = [@ EXCEPT !.status = call[c].to]]
  <2>1. CASE s.order \in held[c] /\ ~Gone(s)
    BY <1>type, <1>step, <2>1 DEF UpdateKnows, Gone
  <2>2. CASE ~(s.order \in held[c] /\ ~Gone(s))
    BY <1>type, <1>step, <1>seen, <2>2 DEF TypeOK
  <2> QED
    BY <2>1, <2>2
<1>1. TypeOK'
  <2>1. table' \in [Orders -> Row]
    <3>1. CASE table[s.order].id \in Feeds
      <4>1. table[s.order] \in Row /\ table[s.order] # NoRow
        BY <1>type, <1>seen, <3>1, CallsAssumption DEF TypeOK, NoRow
      <4>2. [table[s.order] EXCEPT !.status = call[c].to] \in Row
        BY <1>seen, <4>1 DEF Row
      <4> QED
        BY <1>type, <1>row, <1>seen, <4>2 DEF TypeOK
    <3>2. CASE table[s.order].id \notin Feeds
      BY <1>type, <1>row, <3>2 DEF TypeOK
    <3> QED
      BY <3>1, <3>2
  <2>2. call' \in [Calls -> [pc : CallPc, next : Nat \ {0}, created : SUBSET Orders,
                             to : Statuses \cup {None}]]
    BY <1>type, <1>same DEF TypeOK, CallPc
  <2>3. held' \in [Calls -> SUBSET Orders]
    BY <1>type, <1>same DEF TypeOK
  <2>4. audit' \in Seq([row : Selection, to : Statuses, success : BOOLEAN])
    <3>1. [row |-> s, to |-> call[c].to, success |-> s.order \in held[c]]
            \in [row : Selection, to : Statuses, success : BOOLEAN]
      BY <1>seen
    <3> QED
      BY <1>type, <1>step, <3>1 DEF TypeOK
  <2> QED
    BY <1>type, <1>same, <2>1, <2>2, <2>3, <2>4 DEF TypeOK
<1>2. Alone(c)
  <2>1. \A o \in Orders : /\ o \notin held[c] => table'[o] = table[o]
                          /\ table'[o].id = table[o].id
    <3> DEFINE r == [table[s.order] EXCEPT !.status = call[c].to]
    <3>1. CASE table' = table
      BY <3>1
    <3>2. CASE s.order \in held[c] /\ table' = [table EXCEPT ![s.order] = r]
      <4>1. table[s.order] \in [id : Feeds \cup {None}, status : Statuses \cup {"fed", None}]
        BY <1>type, <1>seen DEF TypeOK, Row, NoRow
      <4>2. r.id = table[s.order].id
        BY <4>1
      <4> HIDE DEF r
      <4> QED
        BY <1>type, <1>seen, <3>2, <4>2 DEF TypeOK
    <3> QED
      BY <1>row, <3>1, <3>2
  <2> QED
    BY <1>type, <1>same, <2>1 DEF Alone, TypeOK
<1>3. /\ held'[c] = {} /\ call'[c].pc = pc /\ seen'[c] = seen[c]
  BY <1>type, <1>same DEF TypeOK
<1>4. CallKnows(c)'
  BY <1>type, <1>3 DEF CallKnows, UpdateKnows
<1> QED
  BY <1>1, <1>2, <1>3, <1>4 DEF Sound

LEMMA ResetStartSound ==
  ASSUME IInv, NEW c \in Resets, ResetStart(c)
  PROVE  Sound(c)
<1>type. TypeOK /\ c \in Calls /\ CallKnows(c) /\ c \notin Feeds /\ c \notin Updates
  BY CallsAssumption DEF IInv, Calls
<1>step. /\ call[c].pc = "idle" /\ UNCHANGED <<table, held, batch, audit, faults>>
         /\ call' = [call EXCEPT ![c].pc = "delete"]
         /\ seen' = [seen EXCEPT ![c] = {Selected(o) : o \in {p \in Orders : Exists(p)}}]
  BY DEF ResetStart, To
<1>1. TypeOK'
  <2>1. \A o \in Orders : Selected(o) \in Selection
    BY <1>type DEF TypeOK, Selected, Selection, Row, NoRow
  <2>2. seen' \in [Updates \cup Resets -> SUBSET Selection]
    BY <1>type, <1>step, <2>1 DEF TypeOK
  <2>3. call' \in [Calls -> [pc : CallPc, next : Nat \ {0}, created : SUBSET Orders,
                             to : Statuses \cup {None}]]
    BY <1>type, <1>step DEF TypeOK, CallPc
  <2> QED
    BY <1>type, <1>step, <2>2, <2>3 DEF TypeOK
<1>2. Alone(c)
  BY <1>type, <1>step DEF Alone, TypeOK
<1>3. CallKnows(c)'
  BY <1>type, <1>step DEF CallKnows, Running
<1> QED
  BY <1>step, <1>1, <1>2, <1>3 DEF Sound

LEMMA ResetDeleteSound ==
  ASSUME IInv, NEW c \in Resets, ResetDelete(c)
  PROVE  Sound(c)
<1>type. TypeOK /\ c \in Calls /\ CallKnows(c) /\ c \notin Feeds /\ c \notin Updates
  BY CallsAssumption DEF IInv, Calls
<1>step. PICK s \in seen[c] :
           /\ ~Locked(c, s.order)
           /\ seen' = [seen EXCEPT ![c] = @ \ {s}]
           /\ held' = held \/ held' = [held EXCEPT ![c] = @ \cup {s.order}]
  BY DEF ResetDelete, Hold
<1>same. call[c].pc = "delete" /\ UNCHANGED <<table, call, batch, audit, faults>>
  BY DEF ResetDelete
<1>seen. s.order \in Orders
  BY <1>type DEF TypeOK, Selection
<1>1. TypeOK'
  <2>1. held' \in [Calls -> SUBSET Orders]
    BY <1>type, <1>step, <1>seen DEF TypeOK
  <2>2. seen' \in [Updates \cup Resets -> SUBSET Selection]
    BY <1>type, <1>step DEF TypeOK
  <2> QED
    BY <1>type, <1>same, <2>1, <2>2 DEF TypeOK
<1>2. Alone(c)
  BY <1>type, <1>step, <1>same DEF Alone, TypeOK
<1>3. held'[c] \subseteq held[c] \cup {s.order}
  BY <1>type, <1>step DEF TypeOK
<1>4. CallKnows(c)'
  BY <1>type, <1>same DEF CallKnows, Running
<1> QED
  BY <1>step, <1>1, <1>2, <1>3, <1>4 DEF Sound

LEMMA ResetCommitSound ==
  ASSUME IInv, NEW c \in Resets, ResetCommit(c)
  PROVE  Sound(c)
<1>type. TypeOK /\ c \in Calls /\ CallKnows(c) /\ c \notin Feeds /\ c \notin Updates
  BY CallsAssumption DEF IInv, Calls
<1>step. PICK pc \in {"done", "failed"} :
           /\ table' = [o \in Orders |-> IF o \in held[c] THEN NoRow ELSE table[o]]
           /\ call' = [call EXCEPT ![c].pc = pc]
           /\ held' = [held EXCEPT ![c] = {}]
           /\ faults' \in 0..MaxFaults /\ UNCHANGED <<batch, seen, audit>>
  BY <1>type, CommitEndsCall DEF ResetCommit
<1>1. TypeOK'
  <2>1. table' \in [Orders -> Row]
    BY <1>type, <1>step DEF TypeOK, Row
  <2>2. call' \in [Calls -> [pc : CallPc, next : Nat \ {0}, created : SUBSET Orders,
                             to : Statuses \cup {None}]]
    BY <1>type, <1>step DEF TypeOK, CallPc
  <2>3. held' \in [Calls -> SUBSET Orders]
    BY <1>type, <1>step DEF TypeOK
  <2> QED
    BY <1>type, <1>step, <2>1, <2>2, <2>3 DEF TypeOK
<1>2. Alone(c)
  BY <1>type, <1>step DEF Alone, TypeOK, NoRow
<1>3. held'[c] = {}
  BY <1>type, <1>step DEF TypeOK
<1>4. CallKnows(c)'
  BY <1>type, <1>3 DEF CallKnows
<1> QED
  BY <1>1, <1>2, <1>3, <1>4 DEF Sound

-----------------------------------------------------------------------------
(* The theorems *)

\* A step is made by one call, soundly: by a feed, or by a call that fails, or by
\* an update or a reset, which is idle no more.
Made(c) ==
  /\ Sound(c)
  /\ \/ c \in Feeds /\ (Feed(c) \/ FeedStep(c))
     \/ call'[c].pc = "failed"
     \/ c \in Updates /\ (UpdateSelect(c) \/ UpdateStep(c))
     \/ c \in Resets /\ (ResetStart(c) \/ ResetStep(c))

LEMMA StepsAreMade ==
  ASSUME IInv, Next
  PROVE  \E c \in Calls : Made(c)
<1>1. ASSUME NEW c \in Feeds, Feed(c) \/ FeedStep(c)
      PROVE  Made(c)
  BY <1>1, FeedSound, FeedSelectSound, FeedInsertSound, FeedCommitSound DEF FeedStep, Made
<1>2. ASSUME NEW c \in Updates, UpdateSelect(c) \/ UpdateStep(c)
      PROVE  Made(c)
  BY <1>2, UpdateSelectSound, UpdateFlushSound, UpdateCommitSound DEF UpdateStep, Made
<1>3. ASSUME NEW c \in Resets, ResetStart(c) \/ ResetStep(c)
      PROVE  Made(c)
  BY <1>3, ResetStartSound, ResetDeleteSound, ResetCommitSound DEF ResetStep, Made
<1>4. ASSUME NEW c \in Calls, ConnectionLost(c) \/ AbortDeadlocked(c)
      PROVE  Made(c)
  <2>type. TypeOK /\ faults \in 0..MaxFaults
    BY DEF IInv, TypeOK
  <2>1. /\ Running(c) /\ faults' \in 0..MaxFaults
        /\ To(c, "failed") /\ Release(c) /\ UNCHANGED <<table, batch, seen, audit>>
    <3>1. CASE ConnectionLost(c)
      BY <2>type, <3>1, BoundAssumption DEF ConnectionLost, LoseConnection
    <3>2. CASE AbortDeadlocked(c)
      <4>1. Wants(c) # {}
        BY <3>2 DEF AbortDeadlocked, Waiting
      <4> QED
        BY <2>type, <3>2, <4>1 DEF AbortDeadlocked, Wants, Running
    <3> QED
      BY <1>4, <3>1, <3>2
  <2>2. call'[c].pc = "failed"
    BY <2>type, <2>1 DEF To, TypeOK
  <2> QED
    BY <2>1, <2>2, RaiseSound DEF Made
<1> QED
  BY <1>1, <1>2, <1>3, <1>4 DEF Next, Calls

LEMMA IInvStep == IInv /\ [Next]_vars => IInv'
<1> SUFFICES ASSUME IInv, [Next]_vars PROVE IInv'
  OBVIOUS
<1>1. CASE UNCHANGED vars
  BY <1>1 DEF vars, IInv, TypeOK, LocksExclude, CallKnows, FeedKnows, UpdateKnows, HasItem,
              Running, Fed, Exists, Gone
<1>2. CASE Next
  BY <1>2, StepsAreMade, SoundSuffices DEF Made
<1> QED
  BY <1>1, <1>2

LEMMA IInvAlways == Spec => []IInv
BY IInvInit, IInvStep, PTL DEF Spec

\* Every variable keeps its type, whatever is fed, updated and reset at once.
THEOREM TypeCorrect == Spec => []TypeOK
<1>1. IInv => TypeOK
  BY DEF IInv
<1> QED
  BY <1>1, IInvAlways, PTL

\* The rows a step may change: those a feed or a reset holds when it commits, and
\* the status of one that an update holds.
LEMMA TableSteps ==
  ASSUME IInv, [Next]_vars
  PROVE  \/ table' = table
         \/ \E c \in Feeds : FeedCommit(c)
         \/ \E c \in Updates : UpdateCommit(c)
         \/ \E c \in Resets : ResetCommit(c)
BY DEF Next, vars, Feed, FeedStep, FeedSelect, FeedInsert, InsertRow, UpdateSelect, UpdateStep,
       UpdateFlush, ResetStart, ResetStep, ResetDelete, ConnectionLost, AbortDeadlocked

\* An update's commit leaves every row with the maker it had.
LEMMA UpdateKeepsMakers ==
  ASSUME IInv, NEW c \in Updates, UpdateCommit(c)
  PROVE  \A o \in Orders : table'[o].id = table[o].id
<1>1. Sound(c) /\ TypeOK /\ c \notin Feeds
  BY UpdateCommitSound, CallsAssumption DEF IInv
<1>2. PICK s \in seen[c] :
        table' = [table EXCEPT ![s.order] =
                    IF s.order \in held[c] /\ ~Gone(s)
                      THEN [@ EXCEPT !.status = call[c].to] ELSE @]
  BY DEF UpdateCommit
<1> SUFFICES ASSUME NEW o \in Orders PROVE table'[o].id = table[o].id
  OBVIOUS
<1>3. table[o] \in [id : Feeds \cup {None}, status : Statuses \cup {"fed", None}]
  BY <1>1 DEF TypeOK, Row, NoRow
<1> DEFINE r == [table[o] EXCEPT !.status = call[c].to]
<1>4. r.id = table[o].id
  BY <1>3
<1>5. table'[o] = table[o] \/ table'[o] = r
  BY <1>1, <1>2 DEF TypeOK
<1> QED
  BY <1>4, <1>5

\* A feed takes the place of no order, however feeds and resets interleave.
THEOREM FeedsOverwriteNothing == Spec => NeverOverwritten
<1>1. ASSUME IInv, [Next]_vars
      PROVE  [\A o \in Orders : Exists(o) => table'[o] = NoRow \/ table'[o].id = table[o].id]_vars
  <2> SUFFICES ASSUME NEW o \in Orders, Exists(o)
               PROVE  table'[o] = NoRow \/ table'[o].id = table[o].id
    OBVIOUS
  <2>1. CASE table' = table
    BY <2>1
  <2>2. ASSUME NEW c \in Feeds, FeedCommit(c) PROVE table'[o] = table[o]
    <3>1. o \notin held[c]
      BY <1>1 DEF IInv, CallKnows, FeedKnows, Calls
    <3> QED
      BY <2>2, <3>1 DEF FeedCommit
  <2>3. ASSUME NEW c \in Updates, UpdateCommit(c) PROVE table'[o].id = table[o].id
    BY <1>1, <2>3, UpdateKeepsMakers
  <2>4. ASSUME NEW c \in Resets, ResetCommit(c) PROVE table'[o] \in {NoRow, table[o]}
    BY <2>4 DEF ResetCommit
  <2> QED
    BY <1>1, <2>1, <2>2, <2>3, <2>4, TableSteps
<1> QED
  BY <1>1, IInvAlways, PTL DEF Spec, NeverOverwritten

\* A feed's rows appear together at its commit, and are those its answer lists.
THEOREM FeedsAreAtomic == Spec => FeedIsAtomic
<1>1. ASSUME IInv, [Next]_vars
      PROVE  [\A c \in Feeds :
                \/ Fed(c)' \subseteq Fed(c)
                \/ /\ Running(c) /\ ~Running(c)'
                   /\ Fed(c) = {} /\ Fed(c)' = call'[c].created]_vars
  <2> SUFFICES ASSUME NEW c \in Feeds
               PROVE  \/ Fed(c)' \subseteq Fed(c)
                      \/ /\ Running(c) /\ ~Running(c)'
                         /\ Fed(c) = {} /\ Fed(c)' = call'[c].created
    OBVIOUS
  <2>type. TypeOK /\ FeedKnows(c)
    BY <1>1 DEF IInv, CallKnows, Calls
  <2>1. CASE table' = table
    BY <2>1 DEF Fed
  <2>2. CASE FeedCommit(c)
    <3>1. /\ Running(c) /\ call[c].created = held[c] /\ Fed(c) = {}
      BY <2>2, <2>type DEF FeedCommit, FeedKnows, Running
    <3>2. ~Running(c)' /\ call'[c].created = held[c]
      <4>1. PICK pc \in {"done", "failed"} : call' = [call EXCEPT ![c].pc = pc]
        BY <2>2, <2>type, CommitEndsCall DEF FeedCommit, Calls
      <4> QED
        BY <2>type, <3>1, <4>1 DEF TypeOK, Calls, Running
    <3>3. Fed(c)' = held[c]
      <4>1. held[c] \subseteq Orders
        BY <2>type DEF TypeOK, Calls
      <4>2. \A o \in Orders : table'[o].id = c <=> o \in held[c]
        BY <2>2, <3>1 DEF FeedCommit, NewRow, Fed
      <4> QED
        BY <4>1, <4>2 DEF Fed
    <3> QED
      BY <3>1, <3>2, <3>3
  <2>3. ASSUME NEW d \in Feeds, d # c, FeedCommit(d) PROVE Fed(c)' \subseteq Fed(c)
    BY <2>3 DEF FeedCommit, NewRow, Fed
  <2>4. ASSUME NEW d \in Updates, UpdateCommit(d) PROVE Fed(c)' \subseteq Fed(c)
    BY <1>1, <2>4, UpdateKeepsMakers DEF Fed
  <2>5. ASSUME NEW d \in Resets, ResetCommit(d) PROVE Fed(c)' \subseteq Fed(c)
    BY <2>5, CallsAssumption DEF ResetCommit, NoRow, Fed
  <2> QED
    BY <1>1, <2>1, <2>2, <2>3, <2>4, <2>5, TableSteps
<1> QED
  BY <1>1, IInvAlways, PTL DEF Spec, FeedIsAtomic

\* As long as no reset has begun, what a feed went through is in the table or
\* inserted by its session, and all of it is in the table once the feed is done.
NoReset == \A r \in Resets : call[r].pc = "idle"
WentThrough(c) ==
  /\ call[c].pc = "idle" => call[c].next = 1
  /\ call[c].pc \in {"select", "insert"} =>
       \A i \in 1..Len(batch[c]) : i < call[c].next =>
         Exists(batch[c][i].order) \/ batch[c][i].order \in held[c]
  /\ call[c].pc = "done" => \A i \in 1..Len(batch[c]) : Exists(batch[c][i].order)

FeedsGoThrough == NoReset => \A c \in Feeds : WentThrough(c)

\* The orders a feed was sent are order numbers.
LEMMA BatchType ==
  ASSUME TypeOK, NEW c \in Feeds
  PROVE  /\ Len(batch[c]) \in Nat
         /\ \A i \in 1..Len(batch[c]) : batch[c][i].order \in Orders
<1>1. batch[c] \in Batches \/ batch[c] = <<>>
  BY DEF TypeOK
<1>2. CASE batch[c] \in Batches
  <2>1. batch[c] \in Seq(Item)
    BY <1>2, BatchesAssumption
  <2>2. \A i \in 1..Len(batch[c]) : batch[c][i] \in Item
    BY <2>1
  <2> QED
    BY <2>1, <2>2 DEF Item
<1>3. CASE batch[c] = <<>>
  BY <1>3
<1> QED
  BY <1>1, <1>2, <1>3

LEMMA FeedGoesOn ==
  ASSUME IInv, NEW c \in Feeds, WentThrough(c), Feed(c) \/ FeedStep(c)
  PROVE  WentThrough(c)'
<1>type. TypeOK /\ c \in Calls /\ FeedKnows(c)
  BY DEF IInv, CallKnows, Calls
<1>len. Len(batch[c]) \in Nat /\ call[c].next \in Nat \ {0}
  BY <1>type, BatchType DEF TypeOK
<1>1. CASE Feed(c)
  <2>0. /\ call[c].pc = "idle" /\ call' = [call EXCEPT ![c].pc = "select"]
    BY <1>1 DEF Feed, To
  <2>1. call'[c].pc = "select" /\ call'[c].next = call[c].next
    BY <1>type, <2>0 DEF TypeOK
  <2>2. call[c].next = 1
    BY <2>0 DEF WentThrough
  <2>3. \A i \in 1..Len(batch'[c]) : ~(i < 1)
    OBVIOUS
  <2> QED
    BY <2>1, <2>2, <2>3 DEF WentThrough
<1>2. CASE Raise(c)
  BY <1>type, <1>2 DEF Raise, To, TypeOK, WentThrough
<1>3. CASE FeedSelect(c) /\ ~Raise(c)
  <2> DEFINE o == ItemOf(c).order
  <2>1. /\ call[c].pc = "select" /\ UNCHANGED <<table, batch, held>>
        /\ \/ /\ call' = [call EXCEPT ![c].next = @ + 1]
              /\ Exists(o) \/ o \in held[c]
           \/ call' = [call EXCEPT ![c].pc = "insert"]
    BY <1>3 DEF FeedSelect, CheckStatus, To
  <2>2. /\ call'[c].pc \in {"select", "insert"}
        /\ \/ call'[c].next = call[c].next
           \/ call'[c].next = call[c].next + 1 /\ (Exists(o) \/ o \in held[c])
    BY <1>type, <2>1 DEF TypeOK
  <2> QED
    BY <2>1, <2>2, <1>len DEF WentThrough, ItemOf, Exists
<1>4. CASE FeedInsert(c) /\ ~Raise(c)
  <2> DEFINE o == ItemOf(c).order
  <2>1. /\ call[c].pc = "insert" /\ UNCHANGED <<table, batch>>
        /\ held' = [held EXCEPT ![c] = @ \cup {o}]
        /\ call' = [call EXCEPT ![c] = [pc |-> "select", next |-> @.next + 1,
                                        created |-> @.created \cup {o}, to |-> None]]
    BY <1>4 DEF FeedInsert, InsertRow, Hold
  <2>2. /\ call'[c].pc = "select" /\ call'[c].next = call[c].next + 1
        /\ held'[c] = held[c] \cup {o}
    BY <1>type, <2>1 DEF TypeOK
  <2> QED
    BY <2>1, <2>2, <1>len DEF WentThrough, ItemOf, Exists
<1>5. CASE FeedCommit(c)
  <2>1. PICK pc \in {"done", "failed"} :
          /\ call[c].pc = "select" /\ ~HasItem(c) /\ batch' = batch
          /\ table' = [o \in Orders |-> IF o \in held[c] THEN NewRow(c) ELSE table[o]]
          /\ call' = [call EXCEPT ![c].pc = pc]
    BY <1>5, <1>type, CommitEndsCall DEF FeedCommit, Calls
  <2>2. call'[c].pc = pc
    BY <1>type, <2>1 DEF TypeOK
  <2>3. ASSUME NEW i \in 1..Len(batch[c]) PROVE Exists(batch[c][i].order)'
    <3>1. batch[c][i].order \in Orders /\ i < call[c].next
      BY <1>type, <1>len, <2>1, BatchType DEF HasItem
    <3>2. NewRow(c) # NoRow
      BY CallsAssumption DEF NewRow, NoRow
    <3> QED
      BY <2>1, <3>1, <3>2 DEF WentThrough, Exists
  <2> QED
    BY <2>1, <2>2, <2>3 DEF WentThrough
<1> QED
  BY <1>1, <1>2, <1>3, <1>4, <1>5 DEF FeedStep

LEMMA GoThroughStep ==
  ASSUME IInv, FeedsGoThrough, [Next]_vars
  PROVE  FeedsGoThrough'
<1> SUFFICES ASSUME NoReset', NEW c \in Feeds
             PROVE  WentThrough(c)'
  BY DEF FeedsGoThrough
<1>type. TypeOK /\ c \in Calls
  BY DEF IInv, Calls
<1>1. CASE UNCHANGED vars
  BY <1>1 DEF vars, FeedsGoThrough, NoReset, WentThrough, Exists
<1>2. CASE Next
  <2> PICK d \in Calls : Made(d)
    BY <1>2, StepsAreMade
  <2>alone. Alone(d)
    BY DEF Made, Sound
  <2>1. NoReset /\ d \notin Resets
    <3>1. \A r \in Resets : r # d => call[r].pc = "idle"
      BY <2>alone DEF Alone, NoReset, Calls
    <3>2. d \notin Resets
      <4> SUFFICES ASSUME d \in Resets PROVE FALSE
        OBVIOUS
      <4>1. call'[d].pc = "idle" /\ d \notin Feeds /\ d \notin Updates
        BY CallsAssumption DEF NoReset
      <4>2. ResetStart(d) \/ ResetStep(d)
        BY <4>1 DEF Made
      <4> QED
        <5>1. CASE ResetCommit(d)
          <6>1. PICK pc \in {"done", "failed"} : call' = [call EXCEPT ![d].pc = pc]
            BY <1>type, <5>1, CommitEndsCall DEF ResetCommit
          <6> QED
            BY <1>type, <4>1, <6>1 DEF TypeOK
        <5>2. CASE ResetStart(d) \/ ResetDelete(d)
          BY <1>type, <4>1, <5>2 DEF ResetStart, ResetDelete, To, TypeOK
        <5> QED
          BY <4>2, <5>1, <5>2 DEF ResetStep
    <3> QED
      BY <3>1, <3>2 DEF NoReset
  <2>2. WentThrough(c)
    BY <2>1 DEF FeedsGoThrough
  <2>3. ASSUME NEW o \in Orders, Exists(o) PROVE Exists(o)'
    <3>1. CASE table' = table
      BY <2>3, <3>1 DEF Exists
    <3>2. ASSUME NEW e \in Feeds, FeedCommit(e) PROVE Exists(o)'
      BY <2>3, <3>2, CallsAssumption DEF FeedCommit, Exists, NewRow, NoRow
    <3>3. ASSUME NEW e \in Updates, UpdateCommit(e) PROVE Exists(o)'
      <4>1. table[o] \in Row /\ table[o].id # None /\ table'[o].id = table[o].id
        BY <1>type, <2>3, <3>3, UpdateKeepsMakers, CallsAssumption DEF TypeOK, Row, Exists, NoRow
      <4> QED
        BY <4>1 DEF Exists, NoRow
    <3>4. ASSUME NEW e \in Resets, ResetCommit(e) PROVE FALSE
      BY <2>1, <3>4 DEF ResetCommit, NoReset
    <3> QED
      BY <3>1, <3>2, <3>3, <3>4, TableSteps
  <2>4. CASE d # c
    <3>1. /\ call'[c] = call[c] /\ held'[c] = held[c] /\ batch'[c] = batch[c]
      BY <1>type, <2>alone, <2>4 DEF Alone
    <3> QED
      BY <1>type, <2>2, <2>3, <3>1, BatchType DEF WentThrough
  <2>5. CASE d = c /\ call'[c].pc = "failed"
    BY <2>5 DEF WentThrough
  <2>6. CASE d = c /\ call'[c].pc # "failed"
    BY <2>2, <2>6, FeedGoesOn, CallsAssumption DEF Made
  <2> QED
    BY <2>4, <2>5, <2>6
<1> QED
  BY <1>1, <1>2

\* Until a reset begins, every order of a batch whose feed answered is in the
\* table: whatever ran beside the feed, it skipped only what was there to stay.
THEOREM AcceptedOrdersStay == Spec => []AcceptedOrdersExist
<1>1. Init => FeedsGoThrough
  BY DEF Init, NotMade, FeedsGoThrough, WentThrough, Calls
<1>2. IInv /\ FeedsGoThrough /\ [Next]_vars => FeedsGoThrough'
  BY GoThroughStep
<1>3. FeedsGoThrough => AcceptedOrdersExist
  BY DEF FeedsGoThrough, NoReset, WentThrough, AcceptedOrdersExist
<1> QED
  BY <1>1, <1>2, <1>3, IInvAlways, PTL DEF Spec

\* A log row of success is appended by the commit that writes the row selected.
THEOREM AuditTells == Spec => AuditIsTruthful
<1> DEFINE Truthful ==
      \A i \in (Len(audit) + 1)..Len(audit') :
        audit'[i].success => /\ ~Gone(audit'[i].row)
                             /\ table'[audit'[i].row.order].status = audit'[i].to
<1>1. ASSUME IInv, [Next]_vars PROVE Truthful \/ UNCHANGED vars
  <2>type. TypeOK
    BY <1>1 DEF IInv
  <2>1. CASE audit' = audit
    <3>1. Len(audit) \in Nat
      BY <2>type DEF TypeOK
    <3> QED
      BY <2>1, <3>1
  <2>2. ASSUME NEW c \in Updates, UpdateCommit(c) PROVE Truthful
    <3>knows. UpdateKnows(c) /\ c \in Calls
      BY <1>1 DEF IInv, CallKnows, Calls
    <3>step. PICK s \in seen[c] :
               /\ table' = [table EXCEPT ![s.order] =
                              IF s.order \in held[c] /\ ~Gone(s)
                                THEN [@ EXCEPT !.status = call[c].to] ELSE @]
               /\ audit' = Append(audit, [row |-> s, to |-> call[c].to,
                                          success |-> s.order \in held[c]])
      BY <2>2 DEF UpdateCommit
    <3> DEFINE new == [row |-> s, to |-> call[c].to, success |-> s.order \in held[c]]
    <3>1. s \in Selection /\ s.order \in Orders /\ call[c].to \in Statuses
      BY <2>2, <2>type, <3>knows DEF TypeOK, Selection, UpdateKnows, UpdateCommit
    <3>2. new \in [row : Selection, to : Statuses, success : BOOLEAN]
      BY <3>1
    <3>3. \A i \in (Len(audit) + 1)..Len(audit') : audit'[i] = new
      <4> HIDE DEF new
      <4>1. audit \in Seq([row : Selection, to : Statuses, success : BOOLEAN])
        BY <2>type DEF TypeOK
      <4> QED
        BY <3>step, <3>2, <4>1 DEF new
    <3>4. ASSUME s.order \in held[c]
          PROVE  ~Gone(s) /\ table'[s.order].status = call[c].to
      <4>1. ~Gone(s)
        BY <3>knows, <3>4 DEF UpdateKnows
      <4>2. table' = [table EXCEPT ![s.order] = [@ EXCEPT !.status = call[c].to]]
        BY <3>step, <3>4, <4>1
      <4>3. table[s.order] \in [id : Feeds \cup {None}, status : Statuses \cup {"fed", None}]
        BY <2>type, <3>1 DEF TypeOK, Row, NoRow
      <4> QED
        BY <2>type, <3>1, <4>1, <4>2, <4>3 DEF TypeOK
    <3>5. new.row = s /\ new.to = call[c].to /\ new.success = (s.order \in held[c])
      OBVIOUS
    <3> HIDE DEF new
    <3> SUFFICES ASSUME NEW i \in (Len(audit) + 1)..Len(audit'), audit'[i].success
                 PROVE  /\ ~Gone(audit'[i].row)
                        /\ table'[audit'[i].row.order].status = audit'[i].to
      OBVIOUS
    <3>6. audit'[i] = new
      BY <3>3
    <3>7. s.order \in held[c]
      BY <3>5, <3>6
    <3> QED
      BY <3>4, <3>5, <3>6, <3>7
  <2>3. audit' = audit \/ \E c \in Updates : UpdateCommit(c)
    BY <1>1 DEF Next, vars, Feed, FeedStep, FeedSelect, FeedInsert, FeedCommit, UpdateSelect,
                UpdateStep, UpdateFlush, ResetStart, ResetStep, ResetDelete, ResetCommit,
                ConnectionLost, AbortDeadlocked
  <2> QED
    BY <2>1, <2>2, <2>3
<1> QED
  BY <1>1, IInvAlways, PTL DEF Spec, AuditIsTruthful

=============================================================================
