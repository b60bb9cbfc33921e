------------------------------- MODULE MCVip -------------------------------
(* Vip with two digests in the signed table, two in a chained one and two  *)
(* chained tables: a session of 6 packets fills them all, 7 is too many.   *)
EXTENDS VipInv
=============================================================================
