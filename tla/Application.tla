---------------------------- MODULE Application -----------------------------
(***************************************************************************)
(* The life of the server process: its start, with the tables and the      *)
(* bootstrap administrator, the calls and tasks it serves while it is up,  *)
(* its stop, and its crash and restart, with which the singletons are      *)
(* new and the users table is not.                                         *)
(***************************************************************************)
EXTENDS Accounts, Singletons

CONSTANTS
  MaxFaults,     \* bound: failures of the database, of Chromium, of a start
  MaxCrashes     \* bound: ends of the process

ASSUME BoundsType == MaxFaults \in Nat /\ MaxCrashes \in Nat

VARIABLES
  phase,     \* where the lifespan is
  used       \* how much of each bound was used

vars == <<accountVars, singletonVars, phase, used>>

Phase   == {"down", "count", "insert", "clients", "serving", "draining"}
Serving == phase = "serving"
Up      == phase \in {"serving", "draining"}

Fault == used.faults < MaxFaults /\ used' = [used EXCEPT !.faults = @ + 1]

-----------------------------------------------------------------------------
(* lifespan *)

CreateTables ==
  /\ phase = "down"
  /\ phase' = "count"
  /\ UNCHANGED <<accountVars, singletonVars, used>>

\* Variant: an administrator is made when there is no superuser.
NoSuperuser == \A a \in Address : ~Superuser(a)

NoUsers == \A a \in Address : ~Exists(a)

CountUsers ==
  /\ phase = "count"
  /\ phase' = IF NoUsers THEN "insert" ELSE "clients"
  /\ UNCHANGED <<accountVars, singletonVars, used>>

InsertAdmin ==
  /\ phase = "insert"
  /\ phase' = "clients"
  /\ users' = [users EXCEPT ![Admin] = [password |-> Bootstrap, superuser |-> TRUE]]
  /\ UNCHANGED <<tokens, calls, singletonVars, used>>

\* The producer, the browser and the consumer (see KafkaClient).
StartClients ==
  /\ phase = "clients"
  /\ phase' = "serving"
  /\ UNCHANGED <<accountVars, singletonVars, used>>

\* An exception ends the start, and the process with it.
StartFails ==
  /\ phase \in {"count", "insert", "clients"}
  /\ Fault
  /\ phase' = "down"
  /\ UNCHANGED <<accountVars, singletonVars>>

\* The server stops taking calls, and waits for those it has.
Drain ==
  /\ Serving
  /\ used.crashes < MaxCrashes
  /\ used' = [used EXCEPT !.crashes = @ + 1]
  /\ phase' = "draining"
  /\ UNCHANGED <<accountVars, singletonVars>>

ProcessEnds == phase' = "down" /\ CallsLost /\ SingletonsReset

Stop ==
  /\ phase = "draining"
  /\ \A c \in Call : ~InFlight(c)
  /\ ProcessEnds
  /\ UNCHANGED used

Crash ==
  /\ phase # "down"
  /\ used.crashes < MaxCrashes
  /\ used' = [used EXCEPT !.crashes = @ + 1]
  /\ ProcessEnds

-----------------------------------------------------------------------------
(* What the process serves *)

\* A draining server finishes the calls it has.
ServeAccount ==
  /\ \E c \in Call : (Serving \/ (Up /\ InFlight(c))) /\ AccountStep(c)
  /\ UNCHANGED <<singletonVars, phase, used>>

ServeLogin ==
  /\ Serving
  /\ \E a \in Address, p \in Call \cup {Bootstrap} : Login(a, p)
  /\ UNCHANGED <<singletonVars, phase, used>>

AccountFails ==
  /\ Up
  /\ Fault
  /\ \E c \in Call : ConnectionLost(c)
  /\ UNCHANGED <<singletonVars, phase>>

UseSingletons ==
  /\ Up
  /\ SingletonStep
  /\ UNCHANGED <<accountVars, phase, used>>

UseFails ==
  /\ Up
  /\ Fault
  /\ SingletonFails
  /\ UNCHANGED <<accountVars, phase>>

-----------------------------------------------------------------------------
(* The specification *)

Init ==
  /\ AccountsInit
  /\ SingletonsInit
  /\ phase = "down"
  /\ used = [faults |-> 0, crashes |-> 0]

Lifespan ==
  \/ CreateTables
  \/ CountUsers
  \/ InsertAdmin
  \/ StartClients
  \/ StartFails
  \/ Drain
  \/ Stop
  \/ Crash

Next ==
  \/ Lifespan
  \/ ServeAccount
  \/ ServeLogin
  \/ AccountFails
  \/ UseSingletons
  \/ UseFails

Spec == Init /\ [][Next]_vars

-----------------------------------------------------------------------------
(* Properties *)

\* Every variable holds what the code could store in it.
TypeOK ==
  /\ users \in [Address -> Account \cup {NoUser}]
  /\ tokens \subseteq Address
  /\ calls \in [Call -> CallState]
  /\ graph \in BOOLEAN /\ pools \in Nat
  /\ caller \in [Caller -> {"idle", "setup", "using"}]
  /\ browser \in {"up", "dead"} /\ contexts \in Nat
  /\ visit \in [Visitor -> [pc : {"idle", "start", "page", "reading", "close",
                                  "close_unread"}, attempt : 0..Attempts]]
  /\ lost \in [pools : Nat, contexts : Nat]
  /\ phase \in Phase
  /\ used \in [faults : Nat, crashes : Nat]

CanLogIn(a, password) == users[a].password = password

\* api.py:79-99: whoever is told that the account was created can log in with the
\* password chosen -- although another call registered the address, in whatever
\* letters, at the same time, and although the process died since -- and while the
\* server serves the documented administrator can (README.md:180-184).
CredentialsWork ==
  /\ \A c \in Call : calls[c].kind = "register" /\ calls[c].answer = "ok"
                       => CanLogIn(calls[c].address, c)
  /\ Up => CanLogIn(Admin, Bootstrap)
  /\ \A a \in Address : Exists(a) => a = Normalise[a]

GivenBy(c, a) ==
  /\ calls[c].kind = "promote" /\ calls[c].address = a /\ calls[c].value
  /\ InFlight(c) /\ calls'[c].pc = "done"

\* api.py:152-176: the rights of a superuser are given by somebody else.  A
\* superuser who is demoted while a call of his own is under way does not get his
\* rights back by it, though the call checked them before: the ORM session sets
\* the value it had loaded, and writes nothing.
NobodyPromotesHimself ==
  [][\A a \in Address :
       Exists(a) /\ ~Superuser(a) /\ users'[a].superuser
         => \E c \in Call : GivenBy(c, a) /\ calls[c].by # a]_vars

\* Nobody has rights, and no call that found its caller to have them is under way.
LockedOut ==
  /\ \E a \in Address : Exists(a)
  /\ \A a \in Address : ~Superuser(a)
  /\ \A c \in Call : InFlight(c) => calls[c].kind = "register"

\* api.py:165 and main.py:41: no call keeps the last superuser from being demoted,
\* two can demote each other at once, and then there is no way back: neither a
\* registration, nor a log-in, nor a restart makes a superuser.
LockoutIsFinal == [][LockedOut => LockedOut']_vars

InUse == {v \in Visitor : visit[v].pc \notin {"idle", "start"}}

\* graph.py:154 and browser_agent.py:85-121: however often the graph is asked for
\* and the portal visited, the process holds no connection pool beyond one for
\* each task that met an empty cache, and no context beyond those of the visits
\* under way, except those whose owner failed to set up or to close them.
NothingPilesUp ==
  /\ pools <= Cardinality(Caller) + lost.pools
  /\ contexts <= Cardinality(InUse) + lost.contexts

=============================================================================
