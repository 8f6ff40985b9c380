--------------------------- MODULE MCKernelModule ---------------------------
(* Entries 0, 1 and 2 of tunnel_configs, with the last hexadecimal digit of *)
(* their page numbers; the block of entry 2 reaches into that of entry 0.   *)
EXTENDS KernelModule, TLC

MCAddress == [t \in Tunnels |-> CASE t = 0 -> 14 [] t = 1 -> 0 [] t = 2 -> 12]
MCSize == [t \in Tunnels |-> CASE t = 0 -> 1 [] t = 1 -> 0 [] t = 2 -> 3]

\* No temporal property is checked, and no action tells the users apart.
Alike == Permutations(Users)
==============================================================================
