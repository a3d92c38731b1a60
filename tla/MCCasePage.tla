----------------------------- MODULE MCCasePage -----------------------------
(***************************************************************************)
(* Small instances of CasePage.                                            *)
(***************************************************************************)
EXTENDS CasePage

=============================================================================
