----------------------------- MODULE Singletons -----------------------------
(***************************************************************************)
(* The process-wide singletons that are filled on first use or hold what   *)
(* must be given back: the compiled graph of get_graph, with the           *)
(* connection pool each build opens, and the browser of browser_agent,     *)
(* with the context each visit opens.                                      *)
(***************************************************************************)
EXTENDS Naturals, FiniteSets

CONSTANTS
  Caller,        \* tasks that call get_graph: the consumer, approval requests
  Visitor        \* tasks that visit the portal: graph runs at the browser node

ASSUME TasksFinite == IsFiniteSet(Caller) /\ IsFiniteSet(Visitor)

Attempts == 2    \* async_retry of check_vendor_status

VARIABLES
  graph,     \* whether _graph holds a compiled graph
  pools,     \* connection pools the process has opened and not closed
  caller,    \* where each call of get_graph is
  browser,   \* "up", or "dead": the object stays when Chromium is gone
  contexts,  \* browser contexts that are open
  visit,     \* where each call of check_vendor_status is, and its attempts
  lost       \* history: pools and contexts whose owner failed and left them open

singletonVars == <<graph, pools, caller, browser, contexts, visit, lost>>

CallerTo(c, pc) == caller' = [caller EXCEPT ![c] = pc]
NoVisit         == [pc |-> "idle", attempt |-> 0]
VisitTo(v, pc)  == visit' = [visit EXCEPT ![v].pc = pc]
BrowserSame     == UNCHANGED <<browser, contexts, visit>>
GraphSame       == UNCHANGED <<graph, pools, caller>>

-----------------------------------------------------------------------------
(* get_graph *)

\* Variant: the graph that was built is returned and not kept.
NotKept == FALSE

\* _graph after a build.
Kept == TRUE

GetGraph(c) ==
  /\ caller[c] = "idle"
  /\ graph
  /\ CallerTo(c, "using")
  /\ UNCHANGED <<graph, pools, lost>> /\ BrowserSame

\* Opening a pool does not wait for a connection; setup does.
BuildGraph(c) ==
  /\ caller[c] = "idle"
  /\ ~graph
  /\ pools' = pools + 1
  /\ CallerTo(c, "setup")
  /\ UNCHANGED <<graph, lost>> /\ BrowserSame

GraphBuilt(c) ==
  /\ caller[c] = "setup"
  /\ graph' = Kept
  /\ CallerTo(c, "using")
  /\ UNCHANGED <<pools, lost>> /\ BrowserSame

\* No connection, or another setup that creates the same tables: nothing closes
\* the pool.
BuildFails(c) ==
  /\ caller[c] = "setup"
  /\ CallerTo(c, "idle")
  /\ lost' = [lost EXCEPT !.pools = @ + 1]
  /\ UNCHANGED <<graph, pools>> /\ BrowserSame

GraphCallEnds(c) ==
  /\ caller[c] = "using"
  /\ CallerTo(c, "idle")
  /\ UNCHANGED <<graph, pools, lost>> /\ BrowserSame

-----------------------------------------------------------------------------
(* check_vendor_status *)

BeginVisit(v) ==
  /\ visit[v].pc = "idle"
  /\ visit' = [visit EXCEPT ![v] = [pc |-> "start", attempt |-> 1]]
  /\ UNCHANGED <<browser, contexts, lost>> /\ GraphSame

OpenContext(v) ==
  /\ visit[v].pc = "start"
  /\ browser = "up"
  /\ contexts' = contexts + 1
  /\ VisitTo(v, "page")
  /\ UNCHANGED <<browser, lost>> /\ GraphSame

OpenPage(v) ==
  /\ visit[v].pc = "page"
  /\ browser = "up"
  /\ VisitTo(v, "reading")
  /\ UNCHANGED <<browser, contexts, lost>> /\ GraphSame

\* Whether the page could be read or not, the finally clause comes next.
ReadPage(v) ==
  /\ visit[v].pc = "reading"
  /\ \/ browser = "up" /\ VisitTo(v, "close")
     \/ VisitTo(v, "close_unread")
  /\ UNCHANGED <<browser, contexts, lost>> /\ GraphSame

\* Variant: the context is closed where the evidence is returned.
ClosedWhenRead == {"close"}

ClosedAt == {"close", "close_unread"}

CloseContext(v) ==
  /\ visit[v].pc \in {"close", "close_unread"}
  /\ browser = "up"
  /\ contexts' = IF visit[v].pc \in ClosedAt THEN contexts - 1 ELSE contexts
  /\ visit' = [visit EXCEPT ![v] = NoVisit]
  /\ UNCHANGED <<browser, lost>> /\ GraphSame

\* Variant: the last attempt is tried again.
RetriedOnceMore(v) ==
  visit' = [visit EXCEPT ![v] =
    IF @.attempt <= Attempts THEN [pc |-> "start", attempt |-> @.attempt + 1] ELSE NoVisit]

\* What async_retry makes of an exception of an attempt.
Retried(v) ==
  visit' = [visit EXCEPT ![v] =
    IF @.attempt < Attempts THEN [pc |-> "start", attempt |-> @.attempt + 1]
                            ELSE NoVisit]

\* new_context raises and leaves nothing.  new_page raises outside the try, and
\* close may raise: the context stays open.
AttemptFails(v) ==
  /\ visit[v].pc \in {"start", "page", "close", "close_unread"}
  /\ Retried(v)
  /\ lost' = IF visit[v].pc = "start" \/ browser = "dead"
               THEN lost ELSE [lost EXCEPT !.contexts = @ + 1]
  /\ UNCHANGED <<browser, contexts>> /\ GraphSame

\* Chromium is gone; the object is not None, so no call starts another.
ChromiumDies ==
  /\ browser = "up"
  /\ browser' = "dead"
  /\ contexts' = 0
  /\ lost' = [lost EXCEPT !.contexts = 0]
  /\ UNCHANGED visit /\ GraphSame

-----------------------------------------------------------------------------

\* A new process: nothing is cached, and Chromium was started.
SingletonsInit ==
  /\ graph = FALSE /\ pools = 0
  /\ caller = [c \in Caller |-> "idle"]
  /\ browser = "up" /\ contexts = 0
  /\ visit = [v \in Visitor |-> NoVisit]
  /\ lost = [pools |-> 0, contexts |-> 0]

\* What every end of the process does to them.
SingletonsReset ==
  /\ graph' = FALSE /\ pools' = 0
  /\ caller' = [c \in Caller |-> "idle"]
  /\ browser' = "up" /\ contexts' = 0
  /\ visit' = [v \in Visitor |-> NoVisit]
  /\ lost' = [pools |-> 0, contexts |-> 0]

SingletonStep ==
  \/ \E c \in Caller :
       \/ GetGraph(c)
       \/ BuildGraph(c)
       \/ GraphBuilt(c)
       \/ GraphCallEnds(c)
  \/ \E v \in Visitor :
       \/ BeginVisit(v)
       \/ OpenContext(v)
       \/ OpenPage(v)
       \/ ReadPage(v)
       \/ CloseContext(v)
       \/ browser = "dead" /\ AttemptFails(v)

SingletonFails ==
  \/ \E c \in Caller : BuildFails(c)
  \/ browser = "up" /\ \E v \in Visitor : AttemptFails(v)
  \/ ChromiumDies

=============================================================================
