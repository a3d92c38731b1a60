--------------------------- MODULE MCKafkaClient ---------------------------
(***************************************************************************)
(* Small instances of KafkaClient.                                         *)
(***************************************************************************)
EXTENDS KafkaClient

CONSTANTS m1, m2, m3

=============================================================================
