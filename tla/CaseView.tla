------------------------------ MODULE CaseView ------------------------------
(***************************************************************************)
(* Investigation seen one case at a time: the life every case keeps while  *)
(* the process does not crash and nobody resets investigations.            *)
(***************************************************************************)
EXTENDS Investigation

\* Who changed the order for case t.
AuthorsOf(t) == {IF w.by = "auto" THEN "auto" ELSE "human" : w \in {x \in writes : x.thread = t}}

Case(t) == INSTANCE CaseLifecycle
             WITH status <- row[t].status, decision <- row[t].decision,
                  authors <- AuthorsOf(t), Closed <- {"completed", "failed"}

\* Every case implements CaseLifecycle (README.md:59-60): whatever nodes fail and
\* however the tasks interleave, its status moves forward, it asks for a human
\* only before anything changed the ERP, and the ERP changes while it waits only
\* on the approval the row records.
CaseStep(t) == Case(t)!Next \/ UNCHANGED Case(t)!vars
CasesKeepLifecycle ==
  /\ \A t \in Threads : Case(t)!Init
  /\ [][\A t \in Threads : CaseStep(t)]_vars

=============================================================================
