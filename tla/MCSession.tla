----------------------------- MODULE MCSession ------------------------------
(* Every ring holds one packet, as those of T0 and T2 do in the repository *)
(* (T1's holds three).  The multipliers are scaled down from 4 and 20.     *)
EXTENDS Session

MCCap == [t \in Targets |-> 1]
MCMultiplier == [t \in Slow |-> IF t = "T1" THEN 1 ELSE 2]
==============================================================================
