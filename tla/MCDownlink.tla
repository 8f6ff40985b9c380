----------------------------- MODULE MCDownlink -----------------------------
(* Model values and bounds for checking Downlink with TLC. *)
EXTENDS Downlink
==============================================================================
