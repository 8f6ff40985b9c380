------------------------------ MODULE RingIndex ------------------------------
(***************************************************************************)
(* Index arithmetic of a packet ring of N slots, as both ends of an IPC    *)
(* tunnel compute it.  A ring is empty when the two indices are equal and  *)
(* full when the slot after the write index is the read index, so a ring   *)
(* of N slots holds at most N - 1 packets.                                 *)
(***************************************************************************)
EXTENDS Integers, Sequences

CONSTANT N      \* buffered packet count of the ring, the same on both ends

ASSUME NAssumption == N \in Nat \ {0}

Index == 0 .. N - 1

\* Mutation of NextIndex: the reset comes one increment late.
NextIndexLate(i) == IF i = N THEN 0 ELSE i + 1

\* Increment, and reset to zero at the packet count.
NextIndex(i) == IF i + 1 = N THEN 0 ELSE i + 1

\* Address of a slot k places after the start of the ring, k < 2N.
SlotAt(k) == IF k >= N THEN k - N ELSE k

\* Number of slots from the read index r up to the write index w.
InFlight(r, w) == IF w >= r THEN w - r ELSE w - r + N

\* The packets from r up to w, oldest first.
Queue(slot, r, w) == [i \in 1 .. InFlight(r, w) |-> slot[SlotAt(r + i - 1)]]

\* What a reader with room for len bytes keeps of packet p.
Clip(p, len) == [p EXCEPT !.size = IF len < p.size THEN len ELSE p.size]
==============================================================================
