------------------------- MODULE Application_proofs -------------------------
(***************************************************************************)
(* What holds of the accounts for any addresses, calls, failures, crashes  *)
(* and restarts, and of the shared resources for any tasks that use them.  *)
(***************************************************************************)
EXTENDS Application, FiniteSetTheorems, TLAPS

-----------------------------------------------------------------------------
(* The invariant of the accounts *)

AccountTypes ==
  /\ users \in [Address -> Account \cup {NoUser}]
  /\ tokens \subseteq Address
  /\ calls \in [Call -> CallState]
  /\ phase \in Phase

\* What a call is doing fits its kind.
KindKnown(c) ==
  /\ calls[c].pc = "insert" => calls[c].kind = "register"
  /\ calls[c].pc \in {"select", "flush"} => calls[c].kind = "promote"
  /\ calls[c].pc = "commit" => calls[c].kind # "none"
  /\ calls[c].answer = "ok" => calls[c].pc = "done"
  /\ InFlight(c) => Up

\* A registration writes a row that is not there, and keeps it once it is told.
RegistrationKnows(c) ==
  calls[c].kind = "register" =>
    /\ calls[c].address = Normalise[calls[c].address]
    /\ calls[c].pc = "commit" => calls[c].wrote
    /\ calls[c].wrote => calls[c].pc = "commit" /\ ~Exists(calls[c].address)
    /\ calls[c].answer = "ok" => CanLogIn(calls[c].address, c)

\* A promotion changes a row that is there, and not to the value it loaded; the
\* caller's own row it has loaded as a superuser's.
PromotionKnows(c) ==
  calls[c].kind = "promote" =>
    /\ calls[c].wrote => calls[c].pc = "commit" /\ calls[c].value # calls[c].loaded
    /\ calls[c].pc \in {"flush", "commit"} =>
         /\ Exists(calls[c].address)
         /\ calls[c].by = calls[c].address => calls[c].loaded

CallOK(c) == KindKnown(c) /\ RegistrationKnows(c) /\ PromotionKnows(c)

LocksExclude ==
  \A c, d \in Call : \A a \in Address : Holds(c, a) /\ Holds(d, a) => c = d

\* The administrator is the first user.
TableOK ==
  /\ \A a \in Address : Exists(a) => a = Normalise[a]
  /\ \A a \in Address : Exists(a) => CanLogIn(Admin, Bootstrap)
  /\ phase \in {"clients", "serving", "draining"} => CanLogIn(Admin, Bootstrap)
  /\ phase = "insert" => NoUsers

AccountInv == AccountTypes /\ (\A c \in Call : CallOK(c)) /\ LocksExclude /\ TableOK

-----------------------------------------------------------------------------
(* Steps of one call *)

LEMMA UnusedType == Unused \in CallState
BY AddressAssumption DEF Unused, CallState

LEMMA AnsweredType ==
  ASSUME NEW x \in CallState, NEW answer \in {"none", "ok", "refused", "error"}
  PROVE  /\ Answered(x, answer) \in CallState
         /\ Answered(x, answer).pc = "done"
         /\ Answered(x, answer).kind = x.kind
         /\ Answered(x, answer).address = x.address
         /\ Answered(x, answer).answer = answer
         /\ Answered(x, answer).wrote = FALSE
BY AddressAssumption DEF Answered, Unused, CallState

\* A call that changes nothing in the table, and locks only what is free.
LEMMA CallSuffices ==
  ASSUME AccountInv, NEW c \in Call, NEW x \in CallState,
         calls' = [calls EXCEPT ![c] = x],
         UNCHANGED <<users, tokens, phase>>,
         CallOK(c)',
         x.pc = "commit" /\ x.wrote => Free(x.address)
  PROVE  AccountInv'
<1>types. AccountTypes' /\ calls'[c] = x /\ \A d \in Call : d # c => calls'[d] = calls[d]
  BY DEF AccountInv, AccountTypes
<1>1. \A d \in Call : CallOK(d)'
  <2> SUFFICES ASSUME NEW d \in Call, d # c PROVE CallOK(d)'
    OBVIOUS
  <2>1. CallOK(d) /\ calls'[d] = calls[d]
    BY <1>types DEF AccountInv
  <2> QED
    BY <2>1 DEF CallOK, KindKnown, RegistrationKnows, PromotionKnows, InFlight, Up, Exists,
                CanLogIn
<1>2. LocksExclude'
  BY <1>types DEF AccountInv, LocksExclude, Holds, Free
<1>3. TableOK'
  BY DEF AccountInv, TableOK, Exists, CanLogIn, NoUsers
<1> QED
  BY <1>types, <1>1, <1>2, <1>3 DEF AccountInv

\* An answer without a commit.
LEMMA AnswerSuffices ==
  ASSUME AccountInv, NEW c \in Call, NEW answer \in {"refused", "error"},
         Answer(c, answer), UNCHANGED <<users, tokens, phase>>
  PROVE  AccountInv'
<1> DEFINE x == Answered(calls[c], answer)
<1>1. calls[c] \in CallState /\ CallOK(c) /\ calls' = [calls EXCEPT ![c] = x]
  BY DEF AccountInv, AccountTypes, Answer
<1>2. /\ x \in CallState /\ x.pc = "done" /\ x.kind = calls[c].kind /\ x.answer = answer
      /\ x.address = calls[c].address /\ x.wrote = FALSE
  <2>1. answer \in {"none", "ok", "refused", "error"}
    OBVIOUS
  <2> QED
    BY <1>1, <2>1, AnsweredType, Zenon
<1>3. calls'[c] = x
  BY <1>1 DEF AccountInv, AccountTypes
<1> HIDE DEF x
<1>4. CallOK(c)'
  BY <1>1, <1>2, <1>3
     DEF CallOK, KindKnown, RegistrationKnows, PromotionKnows, InFlight, Exists, CanLogIn
<1> QED
  BY <1>1, <1>2, <1>4, CallSuffices

LEMMA RegisterSelectStep ==
  ASSUME AccountInv, NEW c \in Call, RegisterSelect(c), UNCHANGED phase, Serving
  PROVE  AccountInv'
<1>1. PICK a \in Address :
        calls' = [calls EXCEPT ![c] =
          [Unused EXCEPT !.kind = "register", !.address = Registered(a),
                         !.pc = IF Exists(Registered(a)) THEN "done" ELSE "insert",
                         !.answer = IF Exists(Registered(a)) THEN "refused" ELSE "none"]]
  BY DEF RegisterSelect
<1> DEFINE x == [Unused EXCEPT !.kind = "register", !.address = Registered(a),
                         !.pc = IF Exists(Registered(a)) THEN "done" ELSE "insert",
                         !.answer = IF Exists(Registered(a)) THEN "refused" ELSE "none"]
<1>2. Registered(a) \in Address /\ Registered(a) = Normalise[Registered(a)]
  BY AddressAssumption DEF Registered
<1>3. /\ x \in CallState /\ x.kind = "register" /\ x.address = Registered(a)
      /\ x.pc \in {"done", "insert"} /\ x.answer \in {"refused", "none"} /\ x.wrote = FALSE
  BY <1>2, AddressAssumption DEF Unused, CallState
<1>4. calls' = [calls EXCEPT ![c] = x] /\ calls'[c] = x /\ UNCHANGED <<users, tokens>>
  BY <1>1 DEF AccountInv, AccountTypes, RegisterSelect
<1> HIDE DEF x
<1>5. CallOK(c)'
  BY <1>2, <1>3, <1>4
     DEF CallOK, KindKnown, RegistrationKnows, PromotionKnows, InFlight, Serving, Up
<1> QED
  BY <1>3, <1>4, <1>5, CallSuffices

LEMMA RegisterInsertStep ==
  ASSUME AccountInv, NEW c \in Call, RegisterInsert(c), UNCHANGED phase
  PROVE  AccountInv'
<1>1. calls[c] \in CallState /\ CallOK(c) /\ UNCHANGED <<users, tokens>>
  BY DEF AccountInv, AccountTypes, RegisterInsert
<1>2. CASE Exists(calls[c].address)
  BY <1>1, <1>2, AnswerSuffices DEF RegisterInsert, Violates
<1>3. CASE ~Exists(calls[c].address)
  <2> DEFINE x == [calls[c] EXCEPT !.pc = "commit", !.wrote = TRUE]
  <2>1. /\ x \in CallState /\ x.pc = "commit" /\ x.wrote /\ x.kind = calls[c].kind
        /\ x.address = calls[c].address /\ x.answer = calls[c].answer
    BY <1>1 DEF CallState
  <2>2. calls' = [calls EXCEPT ![c] = x] /\ calls'[c] = x
    BY <1>3 DEF RegisterInsert, Violates, AccountInv, AccountTypes
  <2> HIDE DEF x
  <2>3. calls[c].kind = "register" /\ Free(calls[c].address) /\ calls[c].pc = "insert"
    BY <1>1 DEF RegisterInsert, CallOK, KindKnown
  <2>4. CallOK(c)'
    BY <1>1, <1>3, <2>1, <2>2, <2>3
       DEF CallOK, KindKnown, RegistrationKnows, PromotionKnows, InFlight, Up, Exists, CanLogIn
  <2> QED
    BY <1>1, <2>1, <2>2, <2>3, <2>4, CallSuffices
<1> QED
  BY <1>2, <1>3

LEMMA PromoteCheckStep ==
  ASSUME AccountInv, NEW c \in Call, PromoteCheck(c), UNCHANGED phase, Serving
  PROVE  AccountInv'
<1>1. PICK by \in tokens, a \in Address, value \in BOOLEAN :
        calls' = [calls EXCEPT ![c] =
          IF Authorised(by)
            THEN [[Unused EXCEPT !.kind = "promote", !.address = a]
                    EXCEPT !.pc = "select", !.by = by, !.value = value]
            ELSE Answered([Unused EXCEPT !.kind = "promote", !.address = a], "refused")]
  BY DEF PromoteCheck
<1>2. by \in Address /\ UNCHANGED <<users, tokens>>
  BY DEF AccountInv, AccountTypes, PromoteCheck
<1> DEFINE y == [Unused EXCEPT !.kind = "promote", !.address = a]
           x == IF Authorised(by) THEN [y EXCEPT !.pc = "select", !.by = by, !.value = value]
                                  ELSE Answered(y, "refused")
<1>3. y \in CallState /\ y.kind = "promote" /\ y.wrote = FALSE /\ y.answer = "none"
  BY AddressAssumption DEF Unused, CallState
<1>4. calls' = [calls EXCEPT ![c] = x] /\ calls'[c] = x
  BY <1>1 DEF AccountInv, AccountTypes
<1> HIDE DEF y
<1>5. Answered(y, "refused") \in CallState /\ Answered(y, "refused").kind = "promote"
      /\ Answered(y, "refused").pc = "done" /\ Answered(y, "refused").wrote = FALSE
      /\ Answered(y, "refused").answer = "refused"
  BY <1>3, AnsweredType
<1>6. /\ x \in CallState /\ x.kind = "promote" /\ x.wrote = FALSE
      /\ x.pc \in {"select", "done"} /\ x.answer \in {"none", "refused"}
  BY <1>2, <1>3, <1>5 DEF CallState
<1> HIDE DEF x
<1>7. CallOK(c)'
  BY <1>4, <1>6
     DEF CallOK, KindKnown, RegistrationKnows, PromotionKnows, InFlight, Serving, Up
<1> QED
  BY <1>2, <1>4, <1>6, <1>7, CallSuffices

LEMMA PromoteSelectStep ==
  ASSUME AccountInv, NEW c \in Call, PromoteSelect(c), UNCHANGED phase
  PROVE  AccountInv'
<1>1. calls[c] \in CallState /\ CallOK(c) /\ UNCHANGED <<users, tokens>>
  BY DEF AccountInv, AccountTypes, PromoteSelect
<1>2. CASE ~Exists(calls[c].address)
  BY <1>1, <1>2, AnswerSuffices DEF PromoteSelect
<1>3. CASE Exists(calls[c].address)
  <2> DEFINE x == [calls[c] EXCEPT !.pc = "flush", !.loaded = Loaded(c)]
  <2>1. Loaded(c) \in BOOLEAN
    BY <1>1 DEF Loaded, CallState, Superuser
  <2>2. /\ x \in CallState /\ x.pc = "flush" /\ x.wrote = calls[c].wrote
        /\ x.kind = calls[c].kind /\ x.address = calls[c].address
        /\ x.answer = calls[c].answer /\ x.by = calls[c].by /\ x.loaded = Loaded(c)
    BY <1>1, <2>1 DEF CallState
  <2>3. calls' = [calls EXCEPT ![c] = x] /\ calls'[c] = x
    BY <1>3 DEF PromoteSelect, AccountInv, AccountTypes
  <2> HIDE DEF x
  <2>4. calls[c].kind = "promote" /\ calls[c].pc = "select" /\ ~calls[c].wrote
    BY <1>1 DEF PromoteSelect, CallOK, KindKnown, PromotionKnows
  <2>5. x.by = x.address => x.loaded
    BY <2>2 DEF Loaded
  <2>6. CallOK(c)'
    BY <1>1, <1>3, <2>2, <2>3, <2>4, <2>5
       DEF CallOK, KindKnown, RegistrationKnows, PromotionKnows, InFlight, Up, Exists, CanLogIn
  <2> QED
    BY <1>1, <2>2, <2>3, <2>4, <2>6, CallSuffices
<1> QED
  BY <1>2, <1>3

LEMMA PromoteFlushStep ==
  ASSUME AccountInv, NEW c \in Call, PromoteFlush(c), UNCHANGED phase
  PROVE  AccountInv'
<1>1. calls[c] \in CallState /\ CallOK(c) /\ UNCHANGED <<users, tokens>>
  BY DEF AccountInv, AccountTypes, PromoteFlush
<1>2. calls[c].kind = "promote" /\ calls[c].pc = "flush" /\ ~calls[c].wrote
  BY <1>1 DEF PromoteFlush, CallOK, KindKnown, PromotionKnows
<1>3. CASE calls[c].value = calls[c].loaded /\ GoOn(c, "commit")
  <2> DEFINE x == [calls[c] EXCEPT !.pc = "commit"]
  <2>1. /\ x \in CallState /\ x.pc = "commit" /\ x.wrote = calls[c].wrote
        /\ x.kind = calls[c].kind /\ x.address = calls[c].address
        /\ x.answer = calls[c].answer /\ x.by = calls[c].by /\ x.loaded = calls[c].loaded
    BY <1>1 DEF CallState
  <2>2. calls' = [calls EXCEPT ![c] = x] /\ calls'[c] = x
    BY <1>3 DEF GoOn, AccountInv, AccountTypes
  <2> HIDE DEF x
  <2>3. CallOK(c)'
    BY <1>1, <1>2, <2>1, <2>2
       DEF CallOK, KindKnown, RegistrationKnows, PromotionKnows, InFlight, Up, Exists, CanLogIn
  <2> QED
    BY <1>1, <1>2, <2>1, <2>2, <2>3, CallSuffices
<1>4. CASE calls[c].value # calls[c].loaded /\ Free(calls[c].address)
           /\ calls' = [calls EXCEPT ![c] = [@ EXCEPT !.pc = "commit", !.wrote = TRUE]]
  <2> DEFINE x == [calls[c] EXCEPT !.pc = "commit", !.wrote = TRUE]
  <2>1. /\ x \in CallState /\ x.pc = "commit" /\ x.wrote
        /\ x.kind = calls[c].kind /\ x.address = calls[c].address /\ x.value = calls[c].value
        /\ x.answer = calls[c].answer /\ x.by = calls[c].by /\ x.loaded = calls[c].loaded
    BY <1>1 DEF CallState
  <2>2. calls' = [calls EXCEPT ![c] = x] /\ calls'[c] = x
    BY <1>4 DEF AccountInv, AccountTypes
  <2> HIDE DEF x
  <2>3. CallOK(c)'
    BY <1>1, <1>2, <1>4, <2>1, <2>2
       DEF CallOK, KindKnown, RegistrationKnows, PromotionKnows, InFlight, Up, Exists, CanLogIn
  <2> QED
    BY <1>1, <1>4, <2>1, <2>2, <2>3, CallSuffices
<1> QED
  BY <1>3, <1>4 DEF PromoteFlush

LEMMA NoAccount == NoUser \notin Account
BY PasswordAssumption DEF NoUser, Account, Bootstrap

\* What a commit does to the table: it changes the row the session wrote, deletes
\* none and changes no password.
LEMMA StoreFacts ==
  ASSUME AccountInv, NEW c \in Call, calls[c].pc = "commit", Store(c)
  PROVE  /\ users' \in [Address -> Account \cup {NoUser}]
         /\ \A a \in Address : Exists(a) => Exists(a)' /\ users'[a].password = users[a].password
         /\ \A a \in Address : users'[a] # users[a] => Holds(c, a) /\ users'[a] = Written(c)
         /\ \A a \in Address : Holds(c, a) => users'[a] = Written(c)
<1>1. /\ users \in [Address -> Account \cup {NoUser}] /\ calls[c] \in CallState
      /\ CallOK(c)
  BY DEF AccountInv, AccountTypes
<1>2. CASE ~calls[c].wrote
  BY <1>1, <1>2 DEF Store, Holds, Exists
<1>3. CASE calls[c].wrote
  <2> DEFINE b == calls[c].address
  <2>1. b \in Address /\ users' = [users EXCEPT ![b] = Written(c)]
    BY <1>1, <1>3 DEF Store, CallState
  <2>2. CASE calls[c].kind = "register"
    <3>1. Written(c) = [password |-> c, superuser |-> FALSE] /\ users[b] = NoUser
      BY <1>1, <1>3, <2>2 DEF Written, CallOK, RegistrationKnows, Exists
    <3>2. Written(c) \in Account
      BY <3>1 DEF Account
    <3> QED
      BY <1>1, <1>3, <2>1, <3>1, <3>2, NoAccount DEF Holds, Exists
  <2>3. CASE calls[c].kind # "register"
    <3>1. calls[c].kind = "promote" /\ users[b] # NoUser
      BY <1>1, <1>3, <2>3
         DEF CallOK, KindKnown, PromotionKnows, Exists, CallState
    <3>2. /\ Written(c) = [password |-> users[b].password, superuser |-> calls[c].value]
          /\ users[b] \in Account
      BY <1>1, <2>1, <2>3, <3>1 DEF Written
    <3>3. Written(c) \in Account /\ Written(c).password = users[b].password
      BY <1>1, <3>2 DEF Account, CallState
    <3> QED
      BY <1>1, <1>3, <2>1, <3>1, <3>3, NoAccount DEF Holds, Exists
  <2> QED
    BY <2>2, <2>3
<1> QED
  BY <1>2, <1>3

LEMMA StoreStep ==
  ASSUME AccountInv, NEW c \in Call, NEW answer \in {"ok", "error"},
         calls[c].pc = "commit", Store(c), Answer(c, answer), UNCHANGED <<tokens, phase>>
  PROVE  AccountInv'
<1> DEFINE x == Answered(calls[c], answer)
<1>1. /\ calls[c] \in CallState /\ CallOK(c) /\ calls' = [calls EXCEPT ![c] = x]
      /\ calls \in [Call -> CallState]
  BY DEF AccountInv, AccountTypes, Answer
<1>2. /\ x \in CallState /\ x.pc = "done" /\ x.kind = calls[c].kind /\ x.answer = answer
      /\ x.address = calls[c].address /\ x.wrote = FALSE
  <2>1. answer \in {"none", "ok", "refused", "error"}
    OBVIOUS
  <2> QED
    BY <1>1, <2>1, AnsweredType, Zenon
<1> HIDE DEF x
<1>3. calls'[c] = x /\ \A d \in Call : d # c => calls'[d] = calls[d]
  BY <1>1
<1>4. /\ users' \in [Address -> Account \cup {NoUser}]
      /\ \A a \in Address : Exists(a) => Exists(a)' /\ users'[a].password = users[a].password
      /\ \A a \in Address : users'[a] # users[a] => Holds(c, a) /\ users'[a] = Written(c)
      /\ \A a \in Address : Holds(c, a) => users'[a] = Written(c)
  BY StoreFacts
<1>types. AccountTypes'
  BY <1>1, <1>2, <1>4 DEF AccountInv, AccountTypes
<1>up. Up /\ CanLogIn(Admin, Bootstrap)
  <2>1. Up
    BY <1>1 DEF CallOK, KindKnown, InFlight
  <2> QED
    BY <2>1 DEF AccountInv, TableOK, Up
<1>admin. Exists(Admin)
  BY <1>up DEF CanLogIn, Exists, NoUser, Bootstrap
<1>5. CallOK(c)'
  <2>1. KindKnown(c)'
    BY <1>2, <1>3 DEF KindKnown, InFlight
  <2>2. PromotionKnows(c)'
    BY <1>2, <1>3 DEF PromotionKnows
  <2>3. RegistrationKnows(c)'
    <3> SUFFICES ASSUME calls[c].kind = "register" PROVE RegistrationKnows(c)'
      BY <1>2, <1>3 DEF RegistrationKnows
    <3>1. /\ calls[c].wrote /\ calls[c].address = Normalise[calls[c].address]
          /\ calls[c].address \in Address
      BY <1>1 DEF CallOK, RegistrationKnows, CallState
    <3>2. users'[calls[c].address] = [password |-> c, superuser |-> FALSE]
      BY <1>4, <3>1 DEF Holds, Written
    <3> QED
      BY <1>2, <1>3, <3>1, <3>2 DEF RegistrationKnows, CanLogIn
  <2> QED
    BY <2>1, <2>2, <2>3 DEF CallOK
<1>6. ASSUME NEW d \in Call, d # c PROVE CallOK(d)'
  <2>1. CallOK(d) /\ calls'[d] = calls[d] /\ calls[d] \in CallState
    BY <1>1, <1>3, <1>6 DEF AccountInv
  <2> DEFINE b == calls[d].address
  <2>2. b \in Address
    BY <2>1 DEF CallState
  <2>3. KindKnown(d)'
    BY <2>1 DEF CallOK, KindKnown, InFlight, Up
  <2>4. PromotionKnows(d)'
    BY <1>4, <2>1, <2>2 DEF CallOK, PromotionKnows
  <2>5. RegistrationKnows(d)'
    <3> SUFFICES ASSUME calls[d].kind = "register" PROVE RegistrationKnows(d)'
      BY <2>1 DEF RegistrationKnows
    <3>1. ASSUME calls[d].wrote PROVE ~Exists(b)'
      <4>1. calls[d].pc = "commit" /\ ~Exists(b)
        BY <2>1, <3>1 DEF CallOK, RegistrationKnows
      <4>2. ~Holds(c, b)
        BY <1>6, <2>2, <3>1, <4>1 DEF AccountInv, LocksExclude, Holds
      <4> QED
        BY <1>4, <2>1, <2>2, <4>1, <4>2 DEF Exists
    <3>2. ASSUME calls[d].answer = "ok" PROVE CanLogIn(b, d)'
      <4>1. users[b].password = d
        BY <2>1, <3>2 DEF CallOK, RegistrationKnows, CanLogIn
      <4>2. Exists(b)
        BY <4>1, PasswordAssumption DEF Exists, NoUser
      <4> QED
        BY <1>4, <2>1, <2>2, <4>1, <4>2 DEF CanLogIn
    <3> QED
      BY <2>1, <3>1, <3>2 DEF CallOK, RegistrationKnows, Exists, CanLogIn
  <2> QED
    BY <2>3, <2>4, <2>5 DEF CallOK
<1>7. LocksExclude'
  BY <1>2, <1>3 DEF AccountInv, LocksExclude, Holds
<1>8. TableOK'
  <2>1. ASSUME NEW a \in Address, Exists(a)' PROVE a = Normalise[a]
    <3>1. CASE Exists(a)
      BY <3>1 DEF AccountInv, TableOK
    <3>2. CASE ~Exists(a)
      <4>1. Holds(c, a)
        BY <1>4, <2>1, <3>2 DEF Exists
      <4> QED
        BY <1>1, <3>2, <4>1
           DEF Holds, CallOK, KindKnown, RegistrationKnows, PromotionKnows, CallState
    <3> QED
      BY <3>1, <3>2
  <2>2. CanLogIn(Admin, Bootstrap)'
    BY <1>4, <1>up, <1>admin, AddressAssumption DEF CanLogIn
  <2> QED
    BY <1>up, <2>1, <2>2 DEF TableOK, Up
<1> QED
  BY <1>types, <1>5, <1>6, <1>7, <1>8 DEF AccountInv

LEMMA CommitStep ==
  ASSUME AccountInv, NEW c \in Call, Commit(c), UNCHANGED phase
  PROVE  AccountInv'
BY StoreStep DEF Commit

LEMMA ConnectionLostStep ==
  ASSUME AccountInv, NEW c \in Call, ConnectionLost(c), UNCHANGED phase
  PROVE  AccountInv'
<1>1. CASE UNCHANGED users
  BY <1>1, AnswerSuffices DEF ConnectionLost
<1>2. CASE calls[c].pc = "commit" /\ Store(c)
  BY <1>2, StoreStep DEF ConnectionLost
<1> QED
  BY <1>1, <1>2 DEF ConnectionLost

LEMMA LoginStep ==
  ASSUME AccountInv, NEW a \in Address, NEW p \in Call \cup {Bootstrap}, Login(a, p),
         UNCHANGED phase
  PROVE  AccountInv'
BY DEF Login, AccountInv, AccountTypes, CallOK, KindKnown, RegistrationKnows, PromotionKnows,
       InFlight, Up, LocksExclude, Holds, TableOK, Exists, CanLogIn, NoUsers

-----------------------------------------------------------------------------
(* Steps of the lifespan *)

LEMMA PhaseSuffices ==
  ASSUME AccountInv, UNCHANGED accountVars, phase' \in Phase,
         Up' \/ \A c \in Call : ~InFlight(c),
         phase' \in {"clients", "serving", "draining"} =>
           phase \in {"clients", "serving", "draining"} \/ ~NoUsers,
         phase' = "insert" => NoUsers
  PROVE  AccountInv'
<1>1. AccountTypes' /\ LocksExclude'
  BY DEF AccountInv, AccountTypes, accountVars, LocksExclude, Holds
<1>2. ASSUME NEW c \in Call PROVE CallOK(c)'
  <2>1. CallOK(c) /\ UNCHANGED <<users, calls>>
    BY DEF AccountInv, accountVars
  <2> QED
    BY <2>1 DEF CallOK, KindKnown, RegistrationKnows, PromotionKnows, InFlight, Exists, CanLogIn
<1>3. TableOK'
  BY DEF AccountInv, TableOK, accountVars, Exists, NoUsers, CanLogIn
<1> QED
  BY <1>1, <1>2, <1>3 DEF AccountInv

LEMMA NoneInFlight ==
  ASSUME AccountInv, ~Up
  PROVE  \A c \in Call : ~InFlight(c)
BY DEF AccountInv, CallOK, KindKnown

LEMMA InsertAdminStep ==
  ASSUME AccountInv, InsertAdmin
  PROVE  AccountInv'
<1> DEFINE row == [password |-> Bootstrap, superuser |-> TRUE]
<1>1. /\ users' = [users EXCEPT ![Admin] = row] /\ UNCHANGED <<tokens, calls>>
      /\ phase = "insert" /\ phase' = "clients" /\ NoUsers
  BY DEF InsertAdmin, AccountInv, TableOK
<1>2. row \in Account /\ row.password = Bootstrap
  BY DEF Account
<1>types. AccountTypes'
  BY <1>1, <1>2, AddressAssumption DEF AccountInv, AccountTypes, Phase
<1>3. users'[Admin] = row /\ \A a \in Address : a # Admin => users'[a] = NoUser
  BY <1>1, AddressAssumption DEF AccountInv, AccountTypes, NoUsers, Exists
<1>idle. \A c \in Call : ~InFlight(c)
  BY <1>1, NoneInFlight DEF Up
<1> HIDE DEF row
<1>4. ASSUME NEW c \in Call PROVE CallOK(c)'
  <2>1. CallOK(c) /\ ~InFlight(c) /\ calls[c] \in CallState /\ calls' = calls
    BY <1>1, <1>idle DEF AccountInv, AccountTypes
  <2>2. KindKnown(c)' /\ PromotionKnows(c)'
    BY <2>1 DEF CallOK, KindKnown, PromotionKnows, InFlight
  <2>3. ~(calls[c].kind = "register" /\ calls[c].answer = "ok")
    <3>1. calls[c].address \in Address
      BY <2>1 DEF CallState
    <3>2. users[calls[c].address].password # c
      BY <1>1, <3>1, PasswordAssumption DEF NoUsers, Exists, NoUser
    <3> QED
      BY <2>1, <3>2 DEF CallOK, RegistrationKnows, CanLogIn
  <2>4. RegistrationKnows(c)'
    BY <2>1, <2>3 DEF CallOK, RegistrationKnows, InFlight
  <2> QED
    BY <2>2, <2>4 DEF CallOK
<1>5. LocksExclude'
  BY <1>1 DEF AccountInv, LocksExclude, Holds
<1>6. TableOK'
  BY <1>1, <1>2, <1>3, AddressAssumption DEF TableOK, Exists, CanLogIn
<1> QED
  BY <1>types, <1>4, <1>5, <1>6 DEF AccountInv

LEMMA ProcessEndsStep ==
  ASSUME AccountInv, ProcessEnds
  PROVE  AccountInv'
<1>1. /\ phase' = "down" /\ UNCHANGED <<users, tokens>>
      /\ calls' = [c \in Call |-> IF InFlight(c) THEN Answered(calls[c], "error") ELSE calls[c]]
  BY DEF ProcessEnds, CallsLost
<1>2. ASSUME NEW c \in Call
      PROVE  /\ calls'[c] \in CallState /\ calls'[c].pc \in {"unused", "done"}
             /\ \/ calls'[c] = calls[c]
                \/ /\ calls'[c].pc = "done" /\ calls'[c].kind = calls[c].kind
                   /\ calls'[c].address = calls[c].address /\ calls'[c].wrote = FALSE
                   /\ calls'[c].answer = "error"
  <2>1. calls[c] \in CallState
    BY DEF AccountInv, AccountTypes
  <2>2. CASE InFlight(c)
    <3>1. calls'[c] = Answered(calls[c], "error")
      BY <1>1, <2>2
    <3>2. "error" \in {"none", "ok", "refused", "error"}
      OBVIOUS
    <3> DEFINE x == Answered(calls[c], "error")
    <3>3. /\ x \in CallState /\ x.pc = "done" /\ x.kind = calls[c].kind
          /\ x.address = calls[c].address /\ x.answer = "error" /\ x.wrote = FALSE
      BY <2>1, <3>2, AnsweredType, Zenon
    <3> HIDE DEF x
    <3>4. calls'[c] = x
      BY <3>1 DEF x
    <3> QED
      BY <3>3, <3>4
  <2>3. CASE ~InFlight(c)
    BY <1>1, <2>1, <2>3 DEF InFlight, CallState
  <2> QED
    BY <2>2, <2>3
<1>3. AccountTypes'
  <2>1. DOMAIN calls' = Call /\ calls' = [c \in Call |-> calls'[c]]
    BY <1>1
  <2> QED
    BY <1>1, <1>2, <2>1 DEF AccountInv, AccountTypes, Phase
<1>4. ASSUME NEW c \in Call PROVE CallOK(c)'
  <2>1. CallOK(c)
    BY DEF AccountInv
  <2> QED
    BY <1>1, <1>2, <2>1
       DEF CallOK, KindKnown, RegistrationKnows, PromotionKnows, InFlight, Exists, CanLogIn
<1>5. LocksExclude'
  BY <1>2 DEF LocksExclude, Holds
<1>6. TableOK'
  BY <1>1 DEF AccountInv, TableOK, Exists, CanLogIn
<1> QED
  BY <1>3, <1>4, <1>5, <1>6 DEF AccountInv

LEMMA LifespanStep ==
  ASSUME AccountInv, Lifespan
  PROVE  AccountInv'
<1>1. CASE CreateTables
  BY <1>1, PhaseSuffices, NoneInFlight DEF CreateTables, Phase, Up
<1>2. CASE CountUsers
  BY <1>2, PhaseSuffices, NoneInFlight DEF CountUsers, Phase, Up
<1>3. CASE InsertAdmin
  BY <1>3, InsertAdminStep
<1>4. CASE StartClients
  BY <1>4, PhaseSuffices, NoneInFlight DEF StartClients, Phase, Up
<1>5. CASE StartFails
  BY <1>5, PhaseSuffices, NoneInFlight DEF StartFails, Phase, Up
<1>6. CASE Drain
  BY <1>6, PhaseSuffices DEF Drain, Serving, Phase, Up
<1>7. CASE Stop
  BY <1>7, ProcessEndsStep DEF Stop
<1>8. CASE Crash
  BY <1>8, ProcessEndsStep DEF Crash
<1> QED
  BY <1>1, <1>2, <1>3, <1>4, <1>5, <1>6, <1>7, <1>8 DEF Lifespan

LEMMA ServeAccountStep ==
  ASSUME AccountInv, ServeAccount
  PROVE  AccountInv'
<1>1. PICK c \in Call : (Serving \/ (Up /\ InFlight(c))) /\ AccountStep(c)
  BY DEF ServeAccount
<1>2. UNCHANGED phase
  BY DEF ServeAccount
<1>3. CASE RegisterSelect(c)
  BY <1>1, <1>2, <1>3, RegisterSelectStep DEF RegisterSelect, InFlight
<1>4. CASE RegisterInsert(c)
  BY <1>2, <1>4, RegisterInsertStep
<1>5. CASE PromoteCheck(c)
  BY <1>1, <1>2, <1>5, PromoteCheckStep DEF PromoteCheck, InFlight
<1>6. CASE PromoteSelect(c)
  BY <1>2, <1>6, PromoteSelectStep
<1>7. CASE PromoteFlush(c)
  BY <1>2, <1>7, PromoteFlushStep
<1>8. CASE Commit(c)
  BY <1>2, <1>8, CommitStep
<1> QED
  BY <1>1, <1>3, <1>4, <1>5, <1>6, <1>7, <1>8 DEF AccountStep

LEMMA UnchangedStep ==
  ASSUME AccountInv, UNCHANGED <<accountVars, phase>>
  PROVE  AccountInv'
BY PhaseSuffices, NoneInFlight DEF AccountInv, AccountTypes, TableOK, Up, accountVars

LEMMA AccountInvInit == Init => AccountInv
<1> SUFFICES ASSUME Init PROVE AccountInv
  OBVIOUS
<1>1. users \in Deployed \cup {EmptyTable} /\ tokens = {} /\ calls = [c \in Call |-> Unused]
      /\ phase = "down"
  BY DEF Init, AccountsInit
<1>2. users \in OldTable \/ users = EmptyTable
  BY <1>1, DeployedAssumption
<1>3. AccountTypes
  BY <1>1, <1>2, UnusedType DEF AccountTypes, OldTable, EmptyTable, Phase
<1>4. \A c \in Call : CallOK(c)
  BY <1>1 DEF CallOK, KindKnown, RegistrationKnows, PromotionKnows, InFlight, Unused
<1>5. LocksExclude
  BY <1>1 DEF LocksExclude, Holds, Unused
<1>6. TableOK
  BY <1>1, <1>2, AddressAssumption DEF TableOK, Exists, CanLogIn, OldTable, EmptyTable
<1> QED
  BY <1>3, <1>4, <1>5, <1>6 DEF AccountInv

LEMMA AccountInvStep == AccountInv /\ [Next]_vars => AccountInv'
<1> SUFFICES ASSUME AccountInv, [Next]_vars PROVE AccountInv'
  OBVIOUS
<1>1. CASE Lifespan
  BY <1>1, LifespanStep
<1>2. CASE ServeAccount
  BY <1>2, ServeAccountStep
<1>3. CASE ServeLogin
  BY <1>3, LoginStep DEF ServeLogin
<1>4. CASE AccountFails
  BY <1>4, ConnectionLostStep DEF AccountFails
<1>5. CASE UseSingletons
  BY <1>5, UnchangedStep DEF UseSingletons
<1>6. CASE UseFails
  BY <1>6, UnchangedStep DEF UseFails
<1>7. CASE UNCHANGED vars
  BY <1>7, UnchangedStep DEF vars
<1> QED
  BY <1>1, <1>2, <1>3, <1>4, <1>5, <1>6, <1>7 DEF Next

LEMMA AccountInvAlways == Spec => []AccountInv
BY AccountInvInit, AccountInvStep, PTL DEF Spec

\* Whoever registered can log in, and while the server serves the administrator
\* can (register_user, lifespan).
THEOREM CredentialsKept == Spec => []CredentialsWork
<1>1. AccountInv => CredentialsWork
  BY DEF AccountInv, CallOK, RegistrationKnows, TableOK, Up, CredentialsWork
<1> QED
  BY <1>1, AccountInvAlways, PTL

-----------------------------------------------------------------------------
(* Who may give rights, and the last superuser *)

\* Call c ends with its commit done.
Stored(c) ==
  /\ calls[c].pc = "commit" /\ Store(c)
  /\ \E answer \in {"ok", "error"} : Answer(c, answer)

\* The steps that change the table.
LEMMA TableChange ==
  ASSUME [Next]_vars, users' # users, ~InsertAdmin
  PROVE  \E c \in Call : Stored(c)
<1>1. CASE Lifespan
  BY <1>1 DEF Lifespan, CreateTables, CountUsers, StartClients, StartFails, Drain, Stop, Crash,
              ProcessEnds, CallsLost, accountVars
<1>2. CASE ServeAccount
  BY <1>2 DEF ServeAccount, AccountStep, RegisterSelect, RegisterInsert, PromoteCheck,
              PromoteSelect, PromoteFlush, Commit, Stored
<1>3. CASE ServeLogin
  BY <1>3 DEF ServeLogin, Login
<1>4. CASE AccountFails
  BY <1>4 DEF AccountFails, ConnectionLost, Stored
<1>5. CASE UseSingletons \/ UseFails \/ UNCHANGED vars
  BY <1>5 DEF UseSingletons, UseFails, vars, accountVars
<1> QED
  BY <1>1, <1>2, <1>3, <1>4, <1>5 DEF Next

LEMMA RightsAreGiven ==
  ASSUME AccountInv, [Next]_vars,
         NEW a \in Address, Exists(a), ~Superuser(a), users'[a].superuser
  PROVE  \E c \in Call : GivenBy(c, a) /\ calls[c].by # a
<1>1. users' # users
  BY DEF Superuser
<1>2. ~InsertAdmin
  BY DEF InsertAdmin, AccountInv, TableOK, NoUsers
<1>3. PICK c \in Call : Stored(c)
  BY <1>1, <1>2, TableChange
<1>stored. calls[c].pc = "commit" /\ Store(c)
  BY <1>3 DEF Stored
<1>4. Holds(c, a) /\ users'[a] = Written(c)
  <2>1. users'[a] # users[a]
    BY DEF Superuser
  <2> QED
    BY <1>stored, <2>1, StoreFacts
<1>5. calls[c] \in CallState /\ CallOK(c)
  BY DEF AccountInv, AccountTypes
<1>6. calls[c].kind = "promote"
  BY <1>stored, <1>4, <1>5 DEF Written, CallOK, KindKnown, CallState
<1>7. calls[c].value
  BY <1>4, <1>6 DEF Written
<1>8. calls[c].address = a /\ calls[c].wrote
  BY <1>4 DEF Holds
<1>9. calls[c].by # a
  BY <1>stored, <1>5, <1>6, <1>7, <1>8 DEF CallOK, PromotionKnows, CallState
<1>10. calls'[c].pc = "done"
  <2>1. calls \in [Call -> CallState] /\ \E answer \in {"ok", "error"} : Answer(c, answer)
    BY <1>3 DEF AccountInv, AccountTypes, Stored
  <2>2. PICK answer \in {"ok", "error"} : calls'[c] = Answered(calls[c], answer)
    BY <2>1 DEF Answer
  <2>3. answer \in {"none", "ok", "refused", "error"}
    OBVIOUS
  <2>4. Answered(calls[c], answer).pc = "done"
    BY <1>5, <2>3, AnsweredType, Zenon
  <2> QED
    BY <2>2, <2>4
<1> QED
  BY <1>stored, <1>6, <1>7, <1>8, <1>9, <1>10 DEF GivenBy, InFlight

\* A superuser's rights are given by somebody else (promote_user).
THEOREM RightsComeFromOthers == Spec => NobodyPromotesHimself
<1>1. AccountInv /\ [Next]_vars =>
        [\A a \in Address : Exists(a) /\ ~Superuser(a) /\ users'[a].superuser
           => \E c \in Call : GivenBy(c, a) /\ calls[c].by # a]_vars
  BY RightsAreGiven
<1> QED
  BY <1>1, AccountInvAlways, PTL DEF Spec, NobodyPromotesHimself

\* With no superuser, only registrations get under way.
LEMMA OnlyRegistrations ==
  ASSUME AccountInv, LockedOut, NEW c \in Call, AccountStep(c)
  PROVE  calls'[c].pc = "done" \/ calls'[c].kind = "register"
<1>1. calls \in [Call -> CallState] /\ calls[c] \in CallState /\ CallOK(c)
  BY DEF AccountInv, AccountTypes
<1>2. ASSUME NEW x \in CallState, NEW answer \in {"ok", "refused", "error"},
             calls' = [calls EXCEPT ![c] = Answered(x, answer)]
      PROVE  calls'[c].pc = "done"
  <2>1. calls'[c] = Answered(x, answer)
    BY <1>1, <1>2
  <2>2. answer \in {"none", "ok", "refused", "error"}
    OBVIOUS
  <2>3. Answered(x, answer).pc = "done"
    BY <2>2, AnsweredType, Zenon
  <2> QED
    BY <2>1, <2>3
<1>3. CASE RegisterSelect(c)
  BY <1>1, <1>3 DEF RegisterSelect, Unused
<1>4. CASE RegisterInsert(c)
  <2>1. calls[c].kind = "register"
    BY <1>1, <1>4 DEF RegisterInsert, CallOK, KindKnown
  <2>2. CASE Answer(c, "error")
    BY <1>1, <1>2, <2>2 DEF Answer
  <2>3. CASE calls' = [calls EXCEPT ![c] = [@ EXCEPT !.pc = "commit", !.wrote = TRUE]]
    BY <1>1, <2>1, <2>3 DEF CallState
  <2> QED
    BY <1>4, <2>2, <2>3 DEF RegisterInsert
<1>5. CASE PromoteCheck(c)
  <2>1. PICK a \in Address :
          calls' = [calls EXCEPT ![c] =
                      Answered([Unused EXCEPT !.kind = "promote", !.address = a], "refused")]
    BY <1>5 DEF PromoteCheck, Authorised, LockedOut, AccountInv, AccountTypes
  <2>2. [Unused EXCEPT !.kind = "promote", !.address = a] \in CallState
    BY AddressAssumption DEF Unused, CallState
  <2> QED
    BY <1>2, <2>1, <2>2
<1>6. CASE PromoteSelect(c) \/ PromoteFlush(c)
  BY <1>1, <1>6 DEF PromoteSelect, PromoteFlush, CallOK, KindKnown, LockedOut, InFlight
<1>7. CASE Commit(c)
  BY <1>1, <1>2, <1>7 DEF Commit, Answer
<1> QED
  BY <1>3, <1>4, <1>5, <1>6, <1>7 DEF AccountStep

LEMMA CallsUnderWay ==
  ASSUME AccountInv, LockedOut, [Next]_vars, NEW d \in Call
  PROVE  InFlight(d)' => calls'[d].kind = "register"
<1>1. calls \in [Call -> CallState] /\ (InFlight(d) => calls[d].kind = "register")
  BY DEF AccountInv, AccountTypes, LockedOut
<1>2. CASE calls' = calls
  BY <1>1, <1>2 DEF InFlight
<1>3. CASE ServeAccount
  <2>1. PICK c \in Call : AccountStep(c)
    BY <1>3 DEF ServeAccount
  <2>2. CASE d = c
    BY <2>1, <2>2, OnlyRegistrations DEF InFlight
  <2>3. CASE d # c
    <3>1. calls'[d] = calls[d]
      BY <1>1, <2>1, <2>3
         DEF AccountStep, RegisterSelect, RegisterInsert, PromoteCheck, PromoteSelect,
             PromoteFlush, Commit, Answer, GoOn
    <3> QED
      BY <1>1, <3>1 DEF InFlight
  <2> QED
    BY <2>2, <2>3
<1>4. CASE AccountFails
  <2>1. PICK c \in Call : Answer(c, "error")
    BY <1>4 DEF AccountFails, ConnectionLost
  <2>2. calls[c] \in CallState /\ "error" \in {"none", "ok", "refused", "error"}
    BY <1>1
  <2>3. Answered(calls[c], "error").pc = "done"
    BY <2>2, AnsweredType, Zenon
  <2> QED
    BY <1>1, <2>1, <2>3 DEF Answer, InFlight
<1>5. CASE ProcessEnds
  <2>1. calls[d] \in CallState /\ "error" \in {"none", "ok", "refused", "error"}
    BY <1>1
  <2>2. Answered(calls[d], "error").pc = "done"
    BY <2>1, AnsweredType, Zenon
  <2>3. calls'[d] = IF InFlight(d) THEN Answered(calls[d], "error") ELSE calls[d]
    BY <1>5 DEF ProcessEnds, CallsLost
  <2> QED
    BY <1>1, <2>2, <2>3 DEF InFlight
<1>6. calls' = calls \/ ServeAccount \/ AccountFails \/ ProcessEnds
  BY DEF Next, Lifespan, CreateTables, CountUsers, InsertAdmin, StartClients, StartFails, Drain,
         Stop, Crash, ServeLogin, Login, UseSingletons, UseFails, vars, accountVars
<1> QED
  BY <1>2, <1>3, <1>4, <1>5, <1>6

LEMMA LockedOutStep == AccountInv /\ LockedOut /\ [Next]_vars => LockedOut'
<1> SUFFICES ASSUME AccountInv, LockedOut, [Next]_vars PROVE LockedOut'
  OBVIOUS
<1>1. \A c \in Call : InFlight(c)' => calls'[c].kind = "register"
  BY CallsUnderWay
<1>2. CASE users' = users
  BY <1>1, <1>2 DEF LockedOut, Exists, Superuser
<1>3. CASE users' # users
  <2>1. ~InsertAdmin
    BY DEF InsertAdmin, AccountInv, TableOK, NoUsers, LockedOut
  <2>2. PICK c \in Call : calls[c].pc = "commit" /\ Store(c)
    BY <1>3, <2>1, TableChange DEF Stored
  <2>3. calls[c].kind = "register"
    BY <2>2 DEF LockedOut, InFlight
  <2>4. \A a \in Address : /\ Exists(a) => Exists(a)'
                           /\ users'[a] # users[a] => users'[a] = Written(c)
    BY <2>2, StoreFacts
  <2>5. Written(c).superuser = FALSE
    BY <2>3 DEF Written
  <2> QED
    BY <1>1, <2>4, <2>5 DEF LockedOut, Superuser
<1> QED
  BY <1>2, <1>3

\* Once nobody is a superuser, nobody ever is (promote_user, lifespan).
THEOREM LockoutLasts == Spec => LockoutIsFinal
<1>1. AccountInv /\ [Next]_vars => [LockedOut => LockedOut']_vars
  BY LockedOutStep
<1> QED
  BY <1>1, AccountInvAlways, PTL DEF Spec, LockoutIsFinal

-----------------------------------------------------------------------------
(* Connection pools and browser contexts *)

SingletonTypes ==
  /\ graph \in BOOLEAN /\ pools \in Nat
  /\ caller \in [Caller -> {"idle", "setup", "using"}]
  /\ browser \in {"up", "dead"} /\ contexts \in Nat
  /\ visit \in [Visitor -> [pc : {"idle", "start", "page", "reading", "close",
                                  "close_unread"}, attempt : 0..Attempts]]
  /\ lost \in [pools : Nat, contexts : Nat]

InSetup == {c \in Caller : caller[c] = "setup"}

\* While the cache is empty every pool has a task that sets it up, or lost it.
PoolsOwned ==
  IF graph THEN pools <= Cardinality(Caller) + lost.pools
           ELSE pools = Cardinality(InSetup) + lost.pools

\* Every open context has a visit, or was lost by one.
ContextsOwned ==
  contexts = IF browser = "up" THEN Cardinality(InUse) + lost.contexts ELSE 0

SingletonInv == SingletonTypes /\ PoolsOwned /\ ContextsOwned

LEMMA SetsFinite ==
  ASSUME SingletonTypes
  PROVE  /\ IsFiniteSet(InSetup) /\ Cardinality(InSetup) \in Nat
         /\ Cardinality(InSetup) <= Cardinality(Caller) /\ Cardinality(Caller) \in Nat
         /\ IsFiniteSet(InUse) /\ Cardinality(InUse) \in Nat
<1>1. InSetup \subseteq Caller /\ InUse \subseteq Visitor
  BY DEF InSetup, InUse
<1> QED
  BY <1>1, TasksFinite, FS_Subset, FS_CardinalityType

LEMMA SingletonStart ==
  ASSUME graph = FALSE, pools = 0, caller = [c \in Caller |-> "idle"],
         browser = "up", contexts = 0, visit = [v \in Visitor |-> NoVisit],
         lost = [pools |-> 0, contexts |-> 0]
  PROVE  SingletonInv
<1>1. SingletonTypes
  <2>1. NoVisit \in [pc : {"idle", "start", "page", "reading", "close", "close_unread"},
                    attempt : 0..Attempts]
    BY DEF NoVisit, Attempts
  <2>2. lost \in [pools : Nat, contexts : Nat]
    OBVIOUS
  <2> QED
    BY <2>1, <2>2 DEF SingletonTypes
<1>2. InSetup = {} /\ InUse = {}
  BY DEF InSetup, InUse, NoVisit
<1> QED
  BY <1>1, <1>2, FS_EmptySet DEF SingletonInv, PoolsOwned, ContextsOwned

\* A step of one caller of get_graph.
LEMMA CallerStep ==
  ASSUME SingletonInv, NEW c \in Caller,
         GetGraph(c) \/ BuildGraph(c) \/ GraphBuilt(c) \/ GraphCallEnds(c) \/ BuildFails(c)
  PROVE  SingletonInv'
<1>1. /\ SingletonTypes /\ PoolsOwned /\ ContextsOwned
      /\ IsFiniteSet(InSetup) /\ Cardinality(InSetup) \in Nat /\ Cardinality(Caller) \in Nat
      /\ Cardinality(InSetup) <= Cardinality(Caller)
  BY SetsFinite DEF SingletonInv
<1>2. UNCHANGED <<browser, contexts, visit>> /\ lost'.contexts = lost.contexts
  BY <1>1 DEF GetGraph, BuildGraph, GraphBuilt, GraphCallEnds, BuildFails, BrowserSame,
              SingletonTypes
<1>3. SingletonTypes'
  <2>1. lost' \in [pools : Nat, contexts : Nat]
    <3>1. lost' = lost \/ lost' = [lost EXCEPT !.pools = @ + 1]
      BY DEF GetGraph, BuildGraph, GraphBuilt, GraphCallEnds, BuildFails
    <3>2. lost \in [pools : Nat, contexts : Nat]
      BY <1>1 DEF SingletonTypes
    <3> QED
      BY <3>1, <3>2
  <2>2. caller' \in [Caller -> {"idle", "setup", "using"}]
    BY <1>1 DEF GetGraph, BuildGraph, GraphBuilt, GraphCallEnds, BuildFails, SingletonTypes,
                CallerTo
  <2>3. graph' = graph \/ graph' = TRUE
    BY Zenon DEF GetGraph, BuildGraph, GraphBuilt, GraphCallEnds, BuildFails, Kept
  <2>4. graph' \in BOOLEAN
    BY <1>1, <2>3 DEF SingletonTypes
  <2>5. pools' \in Nat
    BY <1>1 DEF GetGraph, BuildGraph, GraphBuilt, GraphCallEnds, BuildFails, SingletonTypes
  <2> QED
    BY <1>1, <1>2, <2>1, <2>2, <2>4, <2>5 DEF SingletonTypes
<1>4. InUse' = InUse
  BY <1>2 DEF InUse
<1>5. ContextsOwned'
  BY <1>1, <1>2, <1>4 DEF ContextsOwned
<1>6. PoolsOwned'
  <2>1. CASE GetGraph(c)
    BY <1>1, <2>1 DEF GetGraph, PoolsOwned
  <2>2. CASE BuildGraph(c)
    <3>1. c \notin InSetup /\ InSetup' = InSetup \cup {c}
      BY <1>1, <2>2 DEF BuildGraph, CallerTo, InSetup, SingletonTypes
    <3>2. Cardinality(InSetup') = Cardinality(InSetup) + 1
      BY <1>1, <3>1, FS_AddElement
    <3> QED
      BY <1>1, <2>2, <3>2 DEF BuildGraph, PoolsOwned, SingletonTypes
  <2>3. CASE GraphBuilt(c)
    BY <1>1, <2>3 DEF GraphBuilt, Kept, PoolsOwned, SingletonTypes
  <2>4. CASE GraphCallEnds(c)
    <3>1. InSetup' = InSetup
      BY <1>1, <2>4 DEF GraphCallEnds, CallerTo, InSetup, SingletonTypes
    <3> QED
      BY <1>1, <2>4, <3>1 DEF GraphCallEnds, PoolsOwned
  <2>5. CASE BuildFails(c)
    <3>1. c \in InSetup /\ InSetup' = InSetup \ {c}
      BY <1>1, <2>5 DEF BuildFails, CallerTo, InSetup, SingletonTypes
    <3>2. Cardinality(InSetup') = Cardinality(InSetup) - 1
      BY <1>1, <3>1, FS_RemoveElement
    <3>3. lost'.pools = lost.pools + 1 /\ UNCHANGED <<graph, pools>> /\ lost.pools \in Nat
      BY <1>1, <2>5 DEF BuildFails, SingletonTypes
    <3> QED
      BY <1>1, <3>2, <3>3 DEF PoolsOwned, SingletonTypes
  <2> QED
    BY <2>1, <2>2, <2>3, <2>4, <2>5
<1> QED
  BY <1>3, <1>5, <1>6 DEF SingletonInv

VisitState ==
  [pc : {"idle", "start", "page", "reading", "close", "close_unread"}, attempt : 0..Attempts]

\* A step of one visit that leaves the browser as it is: what becomes of its
\* context decides.
LEMMA VisitSuffices ==
  ASSUME SingletonInv, NEW v \in Visitor, NEW y \in VisitState,
         visit' = [visit EXCEPT ![v] = y],
         UNCHANGED <<graph, pools, caller, browser>>,
         contexts' \in Nat, lost' \in [pools : Nat, contexts : Nat], lost'.pools = lost.pools,
         browser = "dead" => contexts' = contexts,
         \/ browser = "dead"
         \/ /\ v \in InUse <=> y.pc \notin {"idle", "start"}
            /\ contexts' - lost'.contexts = contexts - lost.contexts
         \/ /\ v \in InUse /\ y.pc \in {"idle", "start"}
            /\ contexts' - lost'.contexts = contexts - lost.contexts - 1
         \/ /\ v \notin InUse /\ y.pc \notin {"idle", "start"}
            /\ contexts' - lost'.contexts = contexts - lost.contexts + 1
  PROVE  SingletonInv'
<1>1. /\ SingletonTypes /\ PoolsOwned /\ ContextsOwned
      /\ IsFiniteSet(InUse) /\ Cardinality(InUse) \in Nat
  BY SetsFinite DEF SingletonInv
<1>2. contexts \in Nat /\ lost.contexts \in Nat /\ lost'.contexts \in Nat
  BY <1>1 DEF SingletonTypes
<1>3. SingletonTypes'
  BY <1>1 DEF SingletonTypes, VisitState
<1>4. PoolsOwned'
  <2>1. InSetup' = InSetup
    BY DEF InSetup
  <2> QED
    BY <1>1, <2>1 DEF PoolsOwned
<1>5. InUse' = IF y.pc \in {"idle", "start"} THEN InUse \ {v} ELSE InUse \cup {v}
  BY <1>1 DEF InUse, SingletonTypes
<1>6. Cardinality(InUse') =
        IF y.pc \in {"idle", "start"}
          THEN IF v \in InUse THEN Cardinality(InUse) - 1 ELSE Cardinality(InUse)
          ELSE IF v \in InUse THEN Cardinality(InUse) ELSE Cardinality(InUse) + 1
  BY <1>1, <1>5, FS_AddElement, FS_RemoveElement
<1>7. ContextsOwned'
  <2>1. CASE browser = "dead"
    BY <1>1, <2>1 DEF ContextsOwned, SingletonTypes
  <2>2. CASE browser = "up"
    <3>1. contexts - lost.contexts = Cardinality(InUse)
      BY <1>1, <1>2, <2>2 DEF ContextsOwned
    <3>2. contexts' - lost'.contexts = Cardinality(InUse')
      BY <1>1, <1>2, <1>6, <2>2, <3>1
    <3> QED
      BY <1>2, <2>2, <3>2 DEF ContextsOwned
  <2> QED
    BY <1>1, <2>1, <2>2 DEF SingletonTypes
<1> QED
  BY <1>3, <1>4, <1>7 DEF SingletonInv

\* A step of a visit that moves its program counter.
LEMMA VisitMoves ==
  ASSUME SingletonInv, NEW v \in Visitor,
         NEW pc \in {"idle", "start", "page", "reading", "close", "close_unread"}, VisitTo(v, pc)
  PROVE  /\ visit' = [visit EXCEPT ![v] = [pc |-> pc, attempt |-> visit[v].attempt]]
         /\ [pc |-> pc, attempt |-> visit[v].attempt] \in VisitState
<1>1. visit \in [Visitor -> VisitState]
  BY DEF SingletonInv, SingletonTypes, VisitState
<1>2. visit[v] \in VisitState
  BY <1>1
<1>3. [visit[v] EXCEPT !.pc = pc] = [pc |-> pc, attempt |-> visit[v].attempt]
  BY <1>2 DEF VisitState
<1>4. visit' = [visit EXCEPT ![v] = [visit[v] EXCEPT !.pc = pc]]
  BY <1>1 DEF VisitTo
<1> QED
  BY <1>2, <1>3, <1>4 DEF VisitState

LEMMA RetriedType ==
  ASSUME SingletonInv, NEW v \in Visitor, Retried(v)
  PROVE  \E y \in VisitState : y.pc \in {"idle", "start"} /\ visit' = [visit EXCEPT ![v] = y]
<1> DEFINE y == IF visit[v].attempt < Attempts
                  THEN [pc |-> "start", attempt |-> visit[v].attempt + 1] ELSE NoVisit
<1>1. visit \in [Visitor -> VisitState]
  BY DEF SingletonInv, SingletonTypes, VisitState
<1>2. visit[v].attempt \in 0..Attempts
  BY <1>1 DEF VisitState
<1>3. y \in VisitState /\ y.pc \in {"idle", "start"}
  BY <1>2 DEF VisitState, NoVisit, Attempts
<1>4. visit' = [visit EXCEPT ![v] = y]
  BY <1>1 DEF Retried
<1> QED
  BY <1>3, <1>4

LEMMA VisitStep ==
  ASSUME SingletonInv, NEW v \in Visitor,
         \/ BeginVisit(v) \/ OpenContext(v) \/ OpenPage(v) \/ ReadPage(v)
         \/ CloseContext(v) \/ AttemptFails(v)
  PROVE  SingletonInv'
<1>1. /\ UNCHANGED <<graph, pools, caller, browser>>
  BY DEF BeginVisit, OpenContext, OpenPage, ReadPage, CloseContext, AttemptFails, GraphSame
<1>2. /\ visit \in [Visitor -> VisitState] /\ visit[v] \in VisitState
      /\ contexts \in Nat /\ lost \in [pools : Nat, contexts : Nat]
      /\ IsFiniteSet(InUse) /\ Cardinality(InUse) \in Nat /\ ContextsOwned
  BY SetsFinite DEF SingletonInv, SingletonTypes, VisitState
<1>3. v \in InUse <=> visit[v].pc \notin {"idle", "start"}
  BY DEF InUse
<1>4. CASE BeginVisit(v)
  <2>1. [pc |-> "start", attempt |-> 1] \in VisitState
    BY DEF VisitState, Attempts
  <2> QED
    BY <1>1, <1>2, <1>3, <1>4, <2>1, VisitSuffices DEF BeginVisit
<1>5. CASE OpenContext(v)
  <2>1. /\ visit' = [visit EXCEPT ![v] = [pc |-> "page", attempt |-> visit[v].attempt]]
        /\ [pc |-> "page", attempt |-> visit[v].attempt] \in VisitState
    BY <1>5, VisitMoves DEF OpenContext
  <2>2. /\ contexts' \in Nat /\ lost' = lost /\ v \notin InUse
        /\ contexts' - lost'.contexts = contexts - lost.contexts + 1
    BY <1>2, <1>3, <1>5 DEF OpenContext
  <2> QED
    BY <1>1, <1>2, <1>5, <2>1, <2>2, VisitSuffices DEF OpenContext
<1>6. CASE OpenPage(v)
  <2>1. /\ visit' = [visit EXCEPT ![v] = [pc |-> "reading", attempt |-> visit[v].attempt]]
        /\ [pc |-> "reading", attempt |-> visit[v].attempt] \in VisitState
    BY <1>6, VisitMoves DEF OpenPage
  <2> QED
    BY <1>1, <1>2, <1>3, <1>6, <2>1, VisitSuffices DEF OpenPage
<1>7. CASE ReadPage(v)
  <2>1. PICK pc \in {"close", "close_unread"} : VisitTo(v, pc)
    BY <1>7 DEF ReadPage
  <2>2. /\ visit' = [visit EXCEPT ![v] = [pc |-> pc, attempt |-> visit[v].attempt]]
        /\ [pc |-> pc, attempt |-> visit[v].attempt] \in VisitState
    BY <2>1, VisitMoves
  <2> QED
    BY <1>1, <1>2, <1>3, <1>7, <2>2, VisitSuffices DEF ReadPage
<1>8. CASE CloseContext(v)
  <2>1. NoVisit \in VisitState /\ NoVisit.pc = "idle" /\ v \in InUse
    BY <1>3, <1>8 DEF VisitState, NoVisit, Attempts, CloseContext
  <2>2. contexts' = contexts - 1 /\ visit' = [visit EXCEPT ![v] = NoVisit] /\ lost' = lost
        /\ browser = "up"
    BY <1>8 DEF CloseContext, ClosedAt
  <2>3. Cardinality(InUse) # 0
    BY <1>2, <2>1, FS_EmptySet
  <2>4. contexts' \in Nat
    BY <1>2, <2>2, <2>3 DEF ContextsOwned
  <2>5. contexts' - lost'.contexts = contexts - lost.contexts - 1
    BY <1>2, <2>2
  <2> QED
    BY <1>1, <1>2, <2>1, <2>2, <2>4, <2>5, VisitSuffices
<1>9. CASE AttemptFails(v)
  <2>1. PICK y \in VisitState : y.pc \in {"idle", "start"} /\ visit' = [visit EXCEPT ![v] = y]
    BY <1>9, RetriedType DEF AttemptFails
  <2>2. CASE visit[v].pc = "start" \/ browser = "dead"
    BY <1>1, <1>2, <1>3, <1>9, <2>1, <2>2, VisitSuffices DEF AttemptFails
  <2>3. CASE ~(visit[v].pc = "start" \/ browser = "dead")
    <3>1. lost' = [lost EXCEPT !.contexts = @ + 1] /\ contexts' = contexts /\ v \in InUse
      BY <1>3, <1>9, <2>3 DEF AttemptFails
    <3>2. /\ lost' \in [pools : Nat, contexts : Nat] /\ lost'.pools = lost.pools
          /\ contexts' - lost'.contexts = contexts - lost.contexts - 1
      BY <1>2, <3>1
    <3> QED
      BY <1>1, <1>2, <2>1, <3>1, <3>2, VisitSuffices
  <2> QED
    BY <2>2, <2>3
<1> QED
  BY <1>4, <1>5, <1>6, <1>7, <1>8, <1>9

LEMMA BrowserStep ==
  ASSUME SingletonInv, ChromiumDies
  PROVE  SingletonInv'
<1>1. /\ UNCHANGED <<graph, pools, caller, visit>> /\ browser' = "dead" /\ contexts' = 0
      /\ lost' = [lost EXCEPT !.contexts = 0] /\ SingletonTypes /\ PoolsOwned
  BY DEF ChromiumDies, GraphSame, SingletonInv
<1>2. lost' \in [pools : Nat, contexts : Nat] /\ lost'.pools = lost.pools
  <2>1. lost \in [pools : Nat, contexts : Nat]
    BY <1>1 DEF SingletonTypes
  <2> QED
    BY <1>1, <2>1
<1>3. SingletonTypes'
  BY <1>1, <1>2 DEF SingletonTypes
<1>4. InSetup' = InSetup
  BY <1>1 DEF InSetup
<1> QED
  BY <1>1, <1>2, <1>3, <1>4 DEF SingletonInv, PoolsOwned, ContextsOwned

LEMMA SingletonStepOK ==
  ASSUME SingletonInv, SingletonStep \/ SingletonFails
  PROVE  SingletonInv'
<1>1. CASE \E c \in Caller : GetGraph(c) \/ BuildGraph(c) \/ GraphBuilt(c)
                             \/ GraphCallEnds(c) \/ BuildFails(c)
  BY <1>1, CallerStep
<1>2. CASE \E v \in Visitor : \/ BeginVisit(v) \/ OpenContext(v) \/ OpenPage(v) \/ ReadPage(v)
                              \/ CloseContext(v) \/ AttemptFails(v)
  BY <1>2, VisitStep
<1>3. CASE ChromiumDies
  BY <1>3, BrowserStep
<1> QED
  BY <1>1, <1>2, <1>3 DEF SingletonStep, SingletonFails

LEMMA ResetStep ==
  ASSUME SingletonsReset
  PROVE  SingletonInv'
<1>1. SingletonTypes'
  <2>1. NoVisit \in VisitState
    BY DEF NoVisit, VisitState, Attempts
  <2>2. lost' \in [pools : Nat, contexts : Nat]
    BY DEF SingletonsReset
  <2> QED
    BY <2>1, <2>2 DEF SingletonTypes, SingletonsReset, VisitState
<1>2. InSetup' = {} /\ InUse' = {}
  BY DEF InSetup, InUse, NoVisit, SingletonsReset
<1> QED
  BY <1>1, <1>2, FS_EmptySet DEF SingletonInv, PoolsOwned, ContextsOwned, SingletonsReset

LEMMA SingletonInvInit == Init => SingletonInv
BY SingletonStart DEF Init, SingletonsInit

LEMMA SingletonInvStep == SingletonInv /\ [Next]_vars => SingletonInv'
<1> SUFFICES ASSUME SingletonInv, [Next]_vars PROVE SingletonInv'
  OBVIOUS
<1>1. CASE Stop \/ Crash
  BY <1>1, ResetStep DEF Stop, Crash, ProcessEnds
<1>2. CASE UNCHANGED singletonVars
  BY <1>2 DEF SingletonInv, SingletonTypes, PoolsOwned, ContextsOwned, singletonVars, InSetup,
              InUse
<1>3. CASE UseSingletons \/ UseFails
  BY <1>3, SingletonStepOK DEF UseSingletons, UseFails
<1> QED
  BY <1>1, <1>2, <1>3
     DEF Next, Lifespan, CreateTables, CountUsers, InsertAdmin, StartClients, StartFails, Drain,
         ServeAccount, ServeLogin, AccountFails, vars

UsedOK == used \in [faults : Nat, crashes : Nat]

LEMMA UsedInit == Init => UsedOK
BY DEF Init, UsedOK

LEMMA UsedStep == UsedOK /\ [Next]_vars => UsedOK'
<1> SUFFICES ASSUME UsedOK, [Next]_vars PROVE UsedOK'
  OBVIOUS
<1>1. \/ used' = used
      \/ used' = [used EXCEPT !.faults = @ + 1]
      \/ used' = [used EXCEPT !.crashes = @ + 1]
  BY DEF Next, Lifespan, CreateTables, CountUsers, InsertAdmin, StartClients, StartFails, Drain,
         Stop, Crash, ServeAccount, ServeLogin, AccountFails, UseSingletons, UseFails, vars, Fault
<1> QED
  BY <1>1 DEF UsedOK

LEMMA SingletonInvAlways == Spec => [](SingletonInv /\ UsedOK)
BY SingletonInvInit, SingletonInvStep, UsedInit, UsedStep, PTL DEF Spec

\* Every variable keeps its type; in particular no context is closed twice
\* (check_vendor_status).
THEOREM TypeCorrect == Spec => []TypeOK
<1>1. AccountInv /\ SingletonInv /\ UsedOK => TypeOK
  BY DEF AccountInv, AccountTypes, SingletonInv, SingletonTypes, UsedOK, TypeOK
<1> QED
  BY <1>1, AccountInvAlways, SingletonInvAlways, PTL

\* Only failures leave pools and contexts open (get_graph, check_vendor_status).
THEOREM ResourcesOwned == Spec => []NothingPilesUp
<1>1. ASSUME SingletonInv PROVE NothingPilesUp
  <2>1. /\ SingletonTypes /\ PoolsOwned /\ ContextsOwned
        /\ Cardinality(InSetup) \in Nat /\ Cardinality(InSetup) <= Cardinality(Caller)
        /\ Cardinality(Caller) \in Nat /\ Cardinality(InUse) \in Nat
    BY <1>1, SetsFinite DEF SingletonInv
  <2>2. pools <= Cardinality(Caller) + lost.pools
    BY <2>1 DEF PoolsOwned, SingletonTypes
  <2>3. contexts <= Cardinality(InUse) + lost.contexts
    BY <2>1 DEF ContextsOwned, SingletonTypes
  <2> QED
    BY <2>2, <2>3 DEF NothingPilesUp
<1> QED
  BY <1>1, SingletonInvAlways, PTL

=============================================================================
