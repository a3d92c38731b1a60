--------------------------- MODULE DecisionRules ---------------------------
(***************************************************************************)
(* The decision policy of app/decision_rules.py, the gate of               *)
(* app/agents/graph.py and the mock vendor portal of app/mock_portal.py.   *)
(*                                                                         *)
(* Statuses are the normalised (stripped, lower-case) strings of the code. *)
(* Confidences are percentages: 84 stands for the float 0.84.  None stands *)
(* for Python's None and for a missing dictionary key.                     *)
(***************************************************************************)
EXTENDS Integers

None == "None"

\* The statuses an ERP order can hold.
OrderStatus == {"pending", "confirmed", "processing", "shipped", "delivered",
                "cancelled", "exception"}

Severity == {"low", "medium", "high", "critical"}

ExceptionType == {"inventory_shortage", "payment_failure", "shipping_delay",
                  "vendor_status_mismatch", "address_issue", "other"}

\* What the evidence may carry as portal_status; "error_collecting_data" is
\* what the browser agent writes when the page could not be read.
PortalStatus == {"label created", "in transit", "out for delivery", "delivered",
                 "delayed", "on hold - inventory", "exception - address issue",
                 "error_collecting_data"}

\* The ERP status each portal status maps to.
PORTAL_TO_ERP_STATUS ==
  [p \in PortalStatus |->
     IF p = "label created" THEN "processing"
     ELSE IF p \in {"in transit", "out for delivery"} THEN "shipped"
     ELSE IF p = "delivered" THEN "delivered"
     ELSE IF p = "error_collecting_data" THEN None
     ELSE "exception"]

\* PORTAL_TO_ERP_STATUS.get(portal): an absent evidence maps to None.
Recommendation(portal) ==
  IF portal \in PortalStatus THEN PORTAL_TO_ERP_STATUS[portal] ELSE None

Confidence == {0, 35, 40, 58, 84, 92}

ComputeConfidence(erp_found, browser_success, mismatch, portal) ==
  IF ~browser_success THEN 35
  ELSE IF ~erp_found THEN 58
  ELSE IF portal = "error_collecting_data" THEN 40
  ELSE IF mismatch THEN 92
  ELSE 84

Threshold == 75

RequiresHuman(browser_success, severity, confidence) ==
  severity \in {"high", "critical"} \/ confidence < Threshold \/ ~browser_success

\* Both statuses are known and differ.
Mismatch(erp_found, erp_status, recommended) ==
  erp_found /\ erp_status # None /\ recommended # None /\ erp_status # recommended

\* The result of evaluate_mismatch, without the reason text.  A confidence of
\* NoConfidence is the argument None: the function then computes one itself.
NoConfidence == -1

EvaluateMismatch(erp_status, portal, browser_success, severity, erp_found, confidence) ==
  LET recommended == Recommendation(portal)
      mismatch    == Mismatch(erp_found, erp_status, recommended)
      conf  == IF confidence = NoConfidence
                 THEN ComputeConfidence(erp_found, browser_success, mismatch, portal)
                 ELSE confidence
      human == RequiresHuman(browser_success, severity, conf)
      Keep(action, trust, ask) ==
        [mismatch |-> FALSE, recommended |-> None, trust_portal |-> trust,
         requires_human |-> ask, confidence |-> conf, action |-> action]
  IN  IF ~browser_success THEN Keep("keep_erp_status", FALSE, TRUE)
      ELSE IF ~erp_found THEN Keep("keep_erp_status", recommended # None, TRUE)
      ELSE IF ~mismatch THEN Keep("no_update", recommended # None, human)
      ELSE [mismatch |-> TRUE, recommended |-> recommended, trust_portal |-> TRUE,
            requires_human |-> human, confidence |-> conf, action |-> "update_erp_status"]

\* Variant: the gate has a threshold of its own.
LowerThreshold(confidence, severity) ==
  IF confidence < 50 \/ severity \in {"high", "critical"} THEN "human_review" ELSE "reporting"

\* The conditional edge after the integration node.
ShouldGoToHuman(confidence, severity) ==
  IF confidence < Threshold \/ severity \in {"high", "critical"}
    THEN "human_review" ELSE "reporting"

\* What the mock portal shows for an order whose number ends in digit and an
\* investigation of the given exception type.
PortalStatusFor(digit, exception_type) ==
  IF exception_type = "shipping_delay" THEN "delayed"
  ELSE IF exception_type = "inventory_shortage" THEN "on hold - inventory"
  ELSE IF exception_type = "address_issue" THEN "exception - address issue"
  ELSE CASE digit = 1 -> "in transit"
         [] digit = 2 -> "out for delivery"
         [] digit = 3 -> "delivered"
         [] digit = 4 -> "exception - address issue"
         [] OTHER     -> "label created"

=============================================================================
