---------------------------- MODULE MCErpOrders ----------------------------
(***************************************************************************)
(* Small instances of ErpOrders.                                           *)
(***************************************************************************)
EXTENDS ErpOrders, TLC

CONSTANTS f1, f2, u1, x1, o1, o2

Good(o) == [order |-> o, kind |-> "valid"]
Bad(o, kind) == [order |-> o, kind |-> kind]

\* Two batches in opposite orders, one that repeats an order, and batches whose
\* second item is refused before or after its insert.
MCBatches ==
  {<<Good(o1), Good(o2)>>, <<Good(o2), Good(o1)>>, <<Good(o1), Good(o1)>>,
   <<Good(o1), Bad(o2, "bad_status")>>, <<Good(o1), Bad(o2, "bad_exception")>>}

=============================================================================
