------------------------- MODULE MCInvestigation -------------------------
(***************************************************************************)
(* Small instances of Investigation.                                       *)
(***************************************************************************)
EXTENDS CaseView, TLC

CONSTANTS t1, t2, r1, r2, o1

\* ORD-...1 with an exception type that does not fix the portal page, and an
\* order whose page shows the status the ERP already holds.
Shipped(severity) ==
  [order |-> o1, severity |-> severity,
   portal |-> PortalStatusFor(1, "vendor_status_mismatch")]
Processing(severity) ==
  [order |-> o1, severity |-> severity, portal |-> PortalStatusFor(5, "other")]

MCEvents      == {Shipped("high"), Shipped("low"), Processing("low")}
MCShipped     == {Shipped("high"), Shipped("low")}
MCInitialErp  == {"processing"}

Symmetry == Permutations(Threads) \cup Permutations(Requests)

=============================================================================
