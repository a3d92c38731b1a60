------------------------------ MODULE Accounts ------------------------------
(***************************************************************************)
(* The users table and the calls on it: registration, log-in, and giving   *)
(* or taking away the rights of a superuser, each call in a database       *)
(* session of its own that get_db commits after the endpoint returned and  *)
(* before the answer is sent.                                              *)
(*                                                                         *)
(* A password is named by the call that registered it.  No endpoint        *)
(* deletes or deactivates a user, so is_active is left out.                *)
(***************************************************************************)
EXTENDS Naturals

CONSTANTS
  Address,       \* e-mail addresses as people type them
  Normalise,     \* the lower-case form of an address
  Admin,         \* the address of the bootstrap administrator
  Call,          \* calls of the register and promote endpoints
  Deployed       \* tables that an earlier life of the service may have left

ASSUME AddressAssumption ==
  /\ Normalise \in [Address -> Address]
  /\ \A a \in Address : Normalise[Normalise[a]] = Normalise[a]
  /\ Admin \in Address /\ Normalise[Admin] = Admin

Bootstrap == "bootstrap"
ASSUME PasswordAssumption == Bootstrap \notin Call /\ "none" \notin Call

VARIABLES
  users,     \* committed rows of the users table, by address
  tokens,    \* addresses that access tokens were issued for
  calls      \* where each call is

accountVars == <<users, tokens, calls>>

Account == [password : Call \cup {Bootstrap}, superuser : BOOLEAN]
NoUser  == [password |-> "none", superuser |-> FALSE]

\* loaded: is_superuser as the session read it; wrote: whether the session holds
\* an uncommitted change of the row.
CallState ==
  [pc : {"unused", "insert", "select", "flush", "commit", "done"},
   kind : {"none", "register", "promote"},
   address : Address, by : Address, value : BOOLEAN, loaded : BOOLEAN, wrote : BOOLEAN,
   answer : {"none", "ok", "refused", "error"}]

Unused ==
  [pc |-> "unused", kind |-> "none", address |-> Admin, by |-> Admin, value |-> FALSE,
   loaded |-> FALSE, wrote |-> FALSE, answer |-> "none"]

Exists(a)    == users[a] # NoUser
Superuser(a) == users[a].superuser
InFlight(c)  == calls[c].pc \notin {"unused", "done"}

\* An uncommitted insert or update of a row makes other writers of it wait.
Holds(c, a) == calls[c].pc = "commit" /\ calls[c].wrote /\ calls[c].address = a
Free(a)     == \A c \in Call : ~Holds(c, a)

GoOn(c, pc) == calls' = [calls EXCEPT ![c].pc = pc]

\* An answered call is remembered by its kind, address and answer.
Answered(call, answer) ==
  [Unused EXCEPT !.pc = "done", !.kind = call.kind, !.address = call.address,
                 !.answer = answer]

Answer(c, answer) == calls' = [calls EXCEPT ![c] = Answered(@, answer)]

-----------------------------------------------------------------------------
(* register_user *)

\* Variant: the address is stored as it was typed.
AsTyped(a) == a

\* The schema lowers the address before the endpoint sees it.
Registered(a) == Normalise[a]

RegisterSelect(c) ==
  /\ calls[c].pc = "unused"
  /\ \E a \in Address :
       calls' = [calls EXCEPT ![c] =
         [Unused EXCEPT !.kind = "register", !.address = Registered(a),
                        !.pc = IF Exists(Registered(a)) THEN "done" ELSE "insert",
                        !.answer = IF Exists(Registered(a)) THEN "refused" ELSE "none"]]
  /\ UNCHANGED <<users, tokens>>

\* Variant: the address is not a unique index.
NotUnique(a) == FALSE

Violates(a) == Exists(a)

\* The flush waits for another session's insert of the address, and then violates
\* the unique index or inserts.
RegisterInsert(c) ==
  /\ calls[c].pc = "insert"
  /\ Free(calls[c].address)
  /\ IF Violates(calls[c].address)
       THEN Answer(c, "error")
       ELSE calls' = [calls EXCEPT ![c] = [@ EXCEPT !.pc = "commit", !.wrote = TRUE]]
  /\ UNCHANGED <<users, tokens>>

-----------------------------------------------------------------------------
(* login and get_current_user *)

\* The address must be given as it is stored; the token names it, survives a
\* restart and never stops working before it expires.
Login(a, password) ==
  /\ Exists(a)
  /\ users[a].password = password
  /\ tokens' = tokens \cup {a}
  /\ UNCHANGED <<users, calls>>

-----------------------------------------------------------------------------
(* promote_user *)

\* Variant: any user may give and take rights.
AnyUser(a) == Exists(a)

Authorised(a) == Superuser(a)

\* get_current_user reads the caller's row; the endpoint tests what it read.
PromoteCheck(c) ==
  /\ calls[c].pc = "unused"
  /\ \E by \in tokens, a \in Address, value \in BOOLEAN :
       LET call == [Unused EXCEPT !.kind = "promote", !.address = a]
       IN  calls' = [calls EXCEPT ![c] =
             IF Authorised(by)
               THEN [call EXCEPT !.pc = "select", !.by = by, !.value = value]
               ELSE Answered(call, "refused")]
  /\ UNCHANGED <<users, tokens>>

\* Variant: the select refreshes an object the session already holds.
LoadedAfresh(c) == Superuser(calls[c].address)

\* The select of the caller's own row gives the object get_current_user loaded,
\* with the value it had then.
Loaded(c) == calls[c].address = calls[c].by \/ Superuser(calls[c].address)

PromoteSelect(c) ==
  /\ calls[c].pc = "select"
  /\ IF Exists(calls[c].address)
       THEN calls' = [calls EXCEPT ![c] = [@ EXCEPT !.pc = "flush", !.loaded = Loaded(c)]]
       ELSE Answer(c, "refused")
  /\ UNCHANGED <<users, tokens>>

\* An attribute set to the value it was loaded with makes no UPDATE; an UPDATE
\* waits for another session's.
PromoteFlush(c) ==
  /\ calls[c].pc = "flush"
  /\ \/ calls[c].value = calls[c].loaded /\ GoOn(c, "commit")
     \/ /\ calls[c].value # calls[c].loaded
        /\ Free(calls[c].address)
        /\ calls' = [calls EXCEPT ![c] = [@ EXCEPT !.pc = "commit", !.wrote = TRUE]]
  /\ UNCHANGED <<users, tokens>>

-----------------------------------------------------------------------------
(* get_db *)

\* The row that the session's commit leaves.
Written(c) ==
  IF calls[c].kind = "register"
    THEN [password |-> c, superuser |-> FALSE]
    ELSE [password |-> users[calls[c].address].password, superuser |-> calls[c].value]

Store(c) ==
  IF calls[c].wrote THEN users' = [users EXCEPT ![calls[c].address] = Written(c)]
                    ELSE UNCHANGED users

Commit(c) ==
  /\ calls[c].pc = "commit"
  /\ Store(c)
  /\ Answer(c, "ok")
  /\ UNCHANGED tokens

\* The connection is lost: the session is rolled back, or its commit was done and
\* only the answer is an error.
ConnectionLost(c) ==
  /\ InFlight(c)
  /\ UNCHANGED users \/ (calls[c].pc = "commit" /\ Store(c))
  /\ Answer(c, "error")
  /\ UNCHANGED tokens

\* The process dies: no call in flight is committed or answered.
CallsLost ==
  /\ calls' = [c \in Call |-> IF InFlight(c) THEN Answered(calls[c], "error") ELSE calls[c]]
  /\ UNCHANGED <<users, tokens>>

-----------------------------------------------------------------------------

\* The table of a new deployment is empty; that of an older one holds the
\* administrator, and perhaps users registered since, superusers or not.
EmptyTable == [a \in Address |-> NoUser]

OldTable ==
  {t \in [Address -> Account \cup {NoUser}] :
     /\ t[Admin] # NoUser /\ t[Admin].password = Bootstrap
     /\ \A a \in Address : t[a] # NoUser => t[a].password = Bootstrap /\ Normalise[a] = a}

ASSUME DeployedAssumption == Deployed \subseteq OldTable

AccountsInit ==
  /\ users \in Deployed \cup {EmptyTable}
  /\ tokens = {}
  /\ calls = [c \in Call |-> Unused]

AccountStep(c) ==
  \/ RegisterSelect(c)
  \/ RegisterInsert(c)
  \/ PromoteCheck(c)
  \/ PromoteSelect(c)
  \/ PromoteFlush(c)
  \/ Commit(c)

=============================================================================
