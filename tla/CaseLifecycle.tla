---------------------------- MODULE CaseLifecycle ----------------------------
(***************************************************************************)
(* What one investigation promises the people who watch it: it runs, it    *)
(* may ask a human once, and it closes.  The ERP is changed by the         *)
(* pipeline alone before it would ask, or by an approval after it asked,   *)
(* never by both, never after a rejection, and never once it is closed.    *)
(***************************************************************************)
CONSTANTS None, Closed

VARIABLES
  status,     \* of the agent_executions row; None before it is inserted
  decision,   \* the human's, or None
  authors     \* who changed the ERP order for this case: "auto", "human"

vars == <<status, decision, authors>>

Open ==
  /\ status = None
  /\ status' = "running"
  /\ UNCHANGED <<decision, authors>>

UpdateAlone ==
  /\ status = "running"
  /\ authors = {}
  /\ authors' = {"auto"}
  /\ UNCHANGED <<status, decision>>

Ask ==
  /\ status = "running"
  /\ authors = {}
  /\ status' = "waiting_human"
  /\ UNCHANGED <<decision, authors>>

Decide(d) ==
  /\ status = "waiting_human"
  /\ decision = None
  /\ decision' = d
  /\ UNCHANGED <<status, authors>>

UpdateApproved ==
  /\ status = "waiting_human"
  /\ decision = "approved"
  /\ authors' = {"human"}
  /\ UNCHANGED <<status, decision>>

\* A case closes without having waited, or after it was decided.
Close ==
  /\ \/ status = "running"
     \/ status = "waiting_human" /\ decision # None
  /\ status' \in Closed
  /\ UNCHANGED <<decision, authors>>

Init == status = None /\ decision = None /\ authors = {}

Next ==
  \/ Open
  \/ UpdateAlone
  \/ Ask
  \/ \E d \in {"approved", "rejected"} : Decide(d)
  \/ UpdateApproved
  \/ Close

Spec == Init /\ [][Next]_vars

=============================================================================
