---------------------------- MODULE MCShmSeqlock ----------------------------
(* The instance of ShmSeqlock that TLC checks. *)
EXTENDS ShmSeqlock
==============================================================================
