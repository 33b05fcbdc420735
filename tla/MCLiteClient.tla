---------------------------- MODULE MCLiteClient ----------------------------
(* Three transactions, two of which the manager signs; or a single one. *)
EXTENDS LiteClient

CONSTANTS t1, t2, t3

MCTransactions == {t1, t2, t3}
MCCoSigned     == <<t1, t2>>
=============================================================================
