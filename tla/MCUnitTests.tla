------------------------------ MODULE MCUnitTests ------------------------------
(* The instance of UnitTests that TLC checks. *)
EXTENDS UnitTests
==============================================================================
