------------------------------ MODULE MCUplink ------------------------------
(* The instance of Uplink that TLC checks: two contents, so that packets   *)
(* that are lost, repeated, out of order or old can be told from others.   *)
EXTENDS Uplink
==============================================================================
