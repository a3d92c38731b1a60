---------------------------- MODULE MCCaseReport ----------------------------
(***************************************************************************)
(* A small instance of CaseReport: pages that contradict the ERP, agree    *)
(* with it, or map to another status; an order that is there or not.       *)
(***************************************************************************)
EXTENDS CaseReport

MCEvents ==
  {[severity |-> s, page |-> PortalStatusFor(digit, "other")] :
     s \in {"low", "critical"}, digit \in {0, 1}}
  \cup {[severity |-> s, page |-> PortalStatusFor(0, "shipping_delay")] :
          s \in {"low", "critical"}}

MCErpStates == {"processing", "shipped", "missing"}

=============================================================================
