--------------------------- MODULE Uplink_proofs ---------------------------
(***************************************************************************)
(* Proofs that the bare metal to Linux direction of a tunnel is correct    *)
(* for every packet count, packet size, set of payloads and number of      *)
(* packets.  The ring, the delivery, the refinement of PacketFifo and      *)
(* POLLIN are proved for both builds; the wake-up of a sleeping reader for *)
(* the uncached one.                                                       *)
(***************************************************************************)
EXTENDS Uplink, TLAPS

(***************************************************************************)
(* Facts about the index arithmetic of a ring, for every packet count N.   *)
(* The rest of the proof uses only these; the proof about the other        *)
(* direction of a tunnel starts from the same facts.                       *)
(***************************************************************************)

\* Incrementing an index stays inside the ring, and distinct indices stay
\* distinct (the increments of MarkPacketAsRead and GetNextWriteIndex).
LEMMA NextIndexFacts ==
    ASSUME NEW i \in Index, NEW j \in Index
    PROVE  /\ NextIndex(i) \in Index
           /\ NextIndex(i) = NextIndex(j) => i = j
BY NAssumption DEF Index, NextIndex

\* The number of packets in flight is below N, and is zero exactly when the
\* ring is empty (the empty test of IPC_TUNNEL_Read and try_get_read_packet).
LEMMA InFlightRange ==
    ASSUME NEW r \in Index, NEW w \in Index
    PROVE  /\ InFlight(r, w) \in 0 .. N - 1
           /\ InFlight(r, w) = 0 <=> r = w
BY NAssumption DEF Index, InFlight

\* The full test of try_get_write_packet and IPC_TUNNEL_Write says that N - 1
\* packets are in flight; if it fails, a send adds one packet.
LEMMA InFlightSend ==
    ASSUME NEW r \in Index, NEW w \in Index
    PROVE  /\ NextIndex(w) = r <=> InFlight(r, w) = N - 1
           /\ NextIndex(w) # r => InFlight(r, NextIndex(w)) = InFlight(r, w) + 1
BY NAssumption DEF Index, InFlight, NextIndex

\* A read removes one packet from a ring that is not empty.
LEMMA InFlightReceive ==
    ASSUME NEW r \in Index, NEW w \in Index, r # w
    PROVE  InFlight(NextIndex(r), w) = InFlight(r, w) - 1
BY NAssumption DEF Index, InFlight, NextIndex

\* The slots in flight are slots of the ring other than the one at the write
\* index; the write index is the slot after the last of them.
LEMMA SlotsInFlight ==
    ASSUME NEW r \in Index, NEW w \in Index
    PROVE  /\ \A i \in 1 .. InFlight(r, w) :
                 SlotAt(r + i - 1) \in Index /\ SlotAt(r + i - 1) # w
           /\ SlotAt(r + InFlight(r, w)) = w
           /\ SlotAt(r) = r
BY NAssumption DEF Index, InFlight, SlotAt

\* After a read, the packet in place i was the one in place i + 1.
LEMMA SlotsAfterReceive ==
    ASSUME NEW r \in Index, NEW i \in 1 .. N - 1
    PROVE  SlotAt(NextIndex(r) + i - 1) = SlotAt(r + (i + 1) - 1)
BY NAssumption DEF Index, NextIndex, SlotAt

\* Three indices in ring order: going from r to v and on to w is going from
\* r to w.
LEMMA InFlightSplit ==
    ASSUME NEW r \in Index, NEW v \in Index, NEW w \in Index,
           InFlight(r, v) <= InFlight(r, w)
    PROVE  /\ InFlight(v, w) = InFlight(r, w) - InFlight(r, v)
           /\ v # w => /\ NextIndex(v) # r
                       /\ InFlight(r, NextIndex(v)) = InFlight(r, v) + 1
                       /\ InFlight(r, NextIndex(v)) <= InFlight(r, w)
BY NAssumption DEF Index, InFlight, NextIndex

\* Nor does the slot after the last one sent reach the visible write index v
\* while it does not reach r.
LEMMA SentNotVisible ==
    ASSUME NEW r \in Index, NEW v \in Index, NEW w \in Index,
           InFlight(r, v) <= InFlight(r, w), NextIndex(w) # r
    PROVE  NextIndex(w) # v
BY NAssumption DEF Index, InFlight, NextIndex

\* A packet that is sent leaves the packets sent before it as they are.
LEMMA AppendOld ==
    ASSUME NEW S, NEW s \in Seq(S), NEW e \in S, NEW i \in 1 .. Len(s)
    PROVE  Append(s, e)[i] = s[i]
OBVIOUS

\* The packets from r up to w are as many as are in flight, and none exactly
\* when the ring is empty.
LEMMA QueueLen ==
    ASSUME NEW mem, NEW r \in Index, NEW w \in Index
    PROVE  /\ Len(Queue(mem, r, w)) = InFlight(r, w)
           /\ Queue(mem, r, w) = << >> <=> r = w
           /\ \A i \in 1 .. InFlight(r, w) :
                 Queue(mem, r, w)[i] = mem[SlotAt(r + i - 1)]
<1> DEFINE k == InFlight(r, w)
           q == Queue(mem, r, w)
<1>1. k \in Nat /\ (k = 0 <=> r = w)
  BY InFlightRange, NAssumption
<1>2. q = [i \in 1 .. k |-> mem[SlotAt(r + i - 1)]]
  BY DEF Queue
<1> HIDE DEF k, q
<1>3. Len(q) = k
  BY <1>1, <1>2
<1>4. ASSUME k = 0 PROVE q = << >>
  BY <1>2, <1>4
<1>5. ASSUME q = << >> PROVE k = 0
  BY <1>3, <1>5
<1> QED
  BY <1>1, <1>2, <1>3, <1>4, <1>5 DEF k, q

\* They are a sequence of what the slots hold.
LEMMA QueueSeq ==
    ASSUME NEW S, NEW mem \in [Index -> S], NEW r \in Index, NEW w \in Index
    PROVE  Queue(mem, r, w) \in Seq(S)
<1> DEFINE k == InFlight(r, w)
           q == Queue(mem, r, w)
<1>1. k \in Nat
  BY InFlightRange, NAssumption
<1>2. \A i \in 1 .. k : SlotAt(r + i - 1) \in Index
  BY SlotsInFlight
<1>3. q = [i \in 1 .. k |-> mem[SlotAt(r + i - 1)]]
  BY DEF Queue
<1> HIDE DEF k, q
<1>4. q \in [1 .. k -> S]
  BY <1>2, <1>3
<1>5. q \in Seq(S)
  BY <1>1, <1>4
<1> QED
  BY <1>5 DEF q

\* Moving the write index on appends the packet in the slot it leaves.
LEMMA QueueSend ==
    ASSUME NEW S, NEW mem \in [Index -> S], NEW r \in Index, NEW w \in Index,
           NextIndex(w) # r
    PROVE  Queue(mem, r, NextIndex(w)) = Append(Queue(mem, r, w), mem[w])
<1>0. PICK x \in Index : x = NextIndex(w)
  BY NextIndexFacts
<1> DEFINE q == Queue(mem, r, w)
           s == Queue(mem, r, x)
           k == InFlight(r, w)
<1>1. k \in Nat /\ InFlight(r, x) = k + 1
  BY <1>0, InFlightRange, InFlightSend, NAssumption
<1>2. q \in Seq(S) /\ Len(q) = k /\ \A i \in 1 .. k : q[i] = mem[SlotAt(r + i - 1)]
  <2>1. q \in Seq(S)
    BY QueueSeq
  <2>2. Len(q) = k
    BY QueueLen
  <2>3. \A i \in 1 .. k : q[i] = mem[SlotAt(r + i - 1)]
    BY DEF Queue
  <2> QED
    BY <2>1, <2>2, <2>3, Zenon
<1>3. s \in Seq(S) /\ Len(s) = k + 1 /\ \A i \in 1 .. k + 1 : s[i] = mem[SlotAt(r + i - 1)]
  <2>1. s \in Seq(S)
    BY QueueSeq
  <2>2. Len(s) = InFlight(r, x)
    BY QueueLen
  <2>3. \A i \in 1 .. InFlight(r, x) : s[i] = mem[SlotAt(r + i - 1)]
    BY DEF Queue
  <2> QED
    BY <2>1, <2>2, <2>3, <1>1, Zenon
<1>4. SlotAt(r + (k + 1) - 1) = w
  <2>1. SlotAt(r + k) = w
    BY SlotsInFlight
  <2>2. r + (k + 1) - 1 = r + k
    BY <1>1 DEF Index
  <2> QED
    BY <2>1, <2>2
<1>5. mem[w] \in S
  OBVIOUS
<1> HIDE DEF q, s, k
<1>6. Append(q, mem[w]) \in Seq(S) /\ Len(Append(q, mem[w])) = k + 1
  BY <1>1, <1>2, <1>5
<1>7. ASSUME NEW i \in 1 .. k + 1 PROVE s[i] = Append(q, mem[w])[i]
  <2>1. CASE i = k + 1
    BY <2>1, <1>1, <1>2, <1>3, <1>4
  <2>2. CASE i \in 1 .. k
    <3>1. Append(q, mem[w])[i] = q[i]
      BY <2>2, <1>2, <1>5, AppendOld
    <3> QED
      BY <3>1, <2>2, <1>2, <1>3
  <2>3. i = k + 1 \/ i \in 1 .. k
    BY <1>1
  <2> QED
    BY <2>1, <2>2, <2>3
<1>8. s = Append(q, mem[w])
  BY <1>3, <1>6, <1>7, <1>1
<1> QED
  BY <1>0, <1>8 DEF q, s

\* Moving the read index on removes the packet in the slot it leaves.
LEMMA QueueReceive ==
    ASSUME NEW S, NEW mem \in [Index -> S], NEW r \in Index, NEW w \in Index, r # w
    PROVE  /\ Head(Queue(mem, r, w)) = mem[r]
           /\ Queue(mem, NextIndex(r), w) = Tail(Queue(mem, r, w))
<1>0. PICK x \in Index : x = NextIndex(r)
  BY NextIndexFacts
<1> DEFINE q == Queue(mem, r, w)
           s == Queue(mem, x, w)
           k == InFlight(r, w)
<1>1. k \in 1 .. N - 1 /\ InFlight(x, w) = k - 1
  BY <1>0, InFlightRange, InFlightReceive, NAssumption
<1>2. q \in Seq(S) /\ Len(q) = k /\ \A i \in 1 .. k : q[i] = mem[SlotAt(r + i - 1)]
  <2>1. q \in Seq(S)
    BY QueueSeq
  <2>2. Len(q) = k
    BY QueueLen
  <2>3. \A i \in 1 .. k : q[i] = mem[SlotAt(r + i - 1)]
    BY DEF Queue
  <2> QED
    BY <2>1, <2>2, <2>3, Zenon
<1>3. s \in Seq(S) /\ Len(s) = k - 1 /\ \A i \in 1 .. k - 1 : s[i] = mem[SlotAt(x + i - 1)]
  <2>1. s \in Seq(S)
    BY QueueSeq
  <2>2. Len(s) = InFlight(x, w)
    BY QueueLen
  <2>3. \A i \in 1 .. InFlight(x, w) : s[i] = mem[SlotAt(x + i - 1)]
    BY DEF Queue
  <2> QED
    BY <2>1, <2>2, <2>3, <1>1, Zenon
<1>4. SlotAt(r + 1 - 1) = r
  <2>1. SlotAt(r) = r /\ r + 1 - 1 = r
    BY SlotsInFlight DEF Index
  <2> QED
    BY <2>1
<1>5. \A i \in 1 .. k - 1 : SlotAt(x + i - 1) = SlotAt(r + (i + 1) - 1)
  BY <1>0, <1>1, SlotsAfterReceive, NAssumption
<1> HIDE DEF q, s, k
<1>6. k \in Nat /\ k >= 1
  BY <1>1, NAssumption
<1>7. Tail(q) \in Seq(S) /\ Len(Tail(q)) = k - 1 /\ \A i \in 1 .. k - 1 : Tail(q)[i] = q[i + 1]
  BY <1>2, <1>6
<1>8. ASSUME NEW i \in 1 .. k - 1 PROVE s[i] = Tail(q)[i]
  <2>1. i + 1 \in 1 .. k
    BY <1>6
  <2>2. q[i + 1] = mem[SlotAt(r + (i + 1) - 1)]
    BY <2>1, <1>2
  <2>3. s[i] = mem[SlotAt(r + (i + 1) - 1)]
    BY <1>3, <1>5
  <2> QED
    BY <2>2, <2>3, <1>7
<1>9. s = Tail(q)
  BY <1>3, <1>6, <1>7, <1>8
<1>10. Head(q) = mem[r]
  BY <1>2, <1>4, <1>6
<1> QED
  BY <1>0, <1>9, <1>10 DEF q, s

\* A store into the slot at the write index w changes no packet between r
\* and w, whether it lies before or after an index v on the way.
LEMMA QueueKept ==
    ASSUME NEW mem, NEW new, NEW r \in Index, NEW v \in Index, NEW w \in Index,
           InFlight(r, v) <= InFlight(r, w),
           \A i \in Index \ {w} : new[i] = mem[i]
    PROVE  /\ Queue(new, r, v) = Queue(mem, r, v)
           /\ Queue(new, v, w) = Queue(mem, v, w)
<1>1. \A i \in 1 .. InFlight(r, v) : i \in 1 .. InFlight(r, w)
  BY InFlightRange, NAssumption
<1>2. \A i \in 1 .. InFlight(r, v) : new[SlotAt(r + i - 1)] = mem[SlotAt(r + i - 1)]
  BY <1>1, SlotsInFlight
<1>3. \A i \in 1 .. InFlight(v, w) : new[SlotAt(v + i - 1)] = mem[SlotAt(v + i - 1)]
  BY SlotsInFlight
<1> QED
  BY <1>2, <1>3 DEF Queue

-----------------------------------------------------------------------------
(* The invariant.                                                          *)

\* The visible write index lies between the read index and CPU1's own.
IndexOrder ==
    InFlight(cpu0_read_index, cpu1_write_index)
        <= InFlight(cpu0_read_index, own_write_index)

\* While CPU1 fills a slot, it is the one at its own write index, and the
\* ring has room for it.
ClaimInv ==
    Writing => /\ claim = [packet |-> own_write_index,
                           next |-> NextIndex(own_write_index)]
               /\ NextIndex(own_write_index) # cpu0_read_index
               /\ request \in Packets
               /\ Len(sent) < MaxPackets

\* What CPU1 has already stored in that slot.
FilledInv ==
    /\ cpc \in {"data", "copying", "publish"} => slot[own_write_index].size = request.size
    /\ cpc = "publish" => slot[own_write_index].data = request.data

\* While dev_read copies, its slot is the one at the read index, and is in
\* flight.
ReadInv ==
    Reading => /\ packet = [packet |-> cpu0_read_index,
                            next |-> NextIndex(cpu0_read_index)]
               /\ cpu0_read_index # cpu1_write_index

\* RingHoldsPending, place by place.
PendingInv ==
    /\ InFlight(cpu0_read_index, own_write_index) = Len(sent) - Len(got)
    /\ \A i \in 1 .. InFlight(cpu0_read_index, own_write_index) :
          slot[SlotAt(cpu0_read_index + i - 1)] = sent[Len(got) + i]

RingInv == IndexOrder /\ ClaimInv /\ FilledInv /\ ReadInv /\ PendingInv /\ PollKept

IInv == TypeOK /\ RingInv

\* The ring starts empty and nobody waits.
LEMMA InitIInv == Init => IInv
<1> SUFFICES ASSUME Init PROVE IInv
  OBVIOUS
<1>1. 0 \in Index /\ InFlight(0, 0) = 0
  BY NAssumption DEF Index, InFlight
<1>2. slot \in [Index -> Slots] /\ faults \in 0 .. MaxFaults /\ Len(sent) <= MaxPackets
  BY UplinkAssumption DEF Init, Slots
<1>3. request \in Packets \cup {NoPacket} /\ buffer \in [size : Nat, data : Payloads \cup {Junk}]
  BY DEF Init, NoPacket
<1>f. FlagsOK
  BY DEF Init, FlagsOK
<1>4. TypeOK
  BY <1>1, <1>2, <1>3, <1>f DEF Init, TypeOK
<1> QED
  BY <1>1, <1>4 DEF Init, IInv, RingInv, IndexOrder, ClaimInv, FilledInv, ReadInv,
                    PendingInv, PollKept, Writing, Reading

\* No step gives a Boolean variable another value.
LEMMA NextFlagsOK == FlagsOK /\ [Next]_vars => FlagsOK'
<1> SUFFICES ASSUME FlagsOK, [Next]_vars PROVE FlagsOK'
  OBVIOUS
<1> USE DEF FlagsOK
<1>1. CASE \E a \in Apis : IPC_TUNNEL_Write(a)
  BY <1>1 DEF IPC_TUNNEL_Write, WriteInvalid, WriteFull, WriteClaim, rvars, wvars
<1>2. CASE WriteStep \/ IndexStoreVisible
  BY <1>2 DEF WriteStep, StorePacketSize, StoreDataBegin, StoreDataEnd, SendPacketStore,
              SendPacketKick, IndexStoreVisible, rvars, wvars
<1>3. CASE ipi_notify_handler
  BY <1>3 DEF ipi_notify_handler
<1>4. CASE UserCall \/ Signal
  BY <1>4 DEF UserCall, DevRead, Signal, wvars
<1>5. CASE ReadStep
  BY <1>5 DEF ReadStep, GetPacket, FirstCheckFails, PrepareToWait, PollReady,
              CondCheckFails, WakeUp, LoadPacketSize, CopyToUser, CopyToUserFault,
              mark_packet_as_read, Return, wvars
<1>6. CASE UNCHANGED vars
  BY <1>6 DEF vars, rvars, wvars
<1> QED
  BY <1>1, <1>2, <1>3, <1>4, <1>5, <1>6 DEF Next

\* Every step of CPU1's write, of the interrupt handler and of the reader
\* preserves the invariant.
LEMMA NextIInv == IInv /\ [Next]_vars => IInv'
<1> SUFFICES ASSUME IInv, [Next]_vars PROVE IInv'
  OBVIOUS
<1> DEFINE r == cpu0_read_index
           v == cpu1_write_index
           w == own_write_index
<1> USE DEF IInv, RingInv
<1>a. /\ r \in Index /\ v \in Index /\ w \in Index
      /\ NextIndex(r) \in Index /\ NextIndex(v) \in Index /\ NextIndex(w) \in Index
  BY NextIndexFacts DEF TypeOK
<1>b. /\ InFlight(r, w) \in 0 .. N - 1 /\ (InFlight(r, w) = 0 <=> r = w)
      /\ InFlight(r, v) \in 0 .. N - 1 /\ (InFlight(r, v) = 0 <=> r = v)
  BY <1>a, InFlightRange
<1>c. N \in Nat \ {0}
  BY NAssumption
<1>f. FlagsOK'
  BY NextFlagsOK DEF TypeOK
<1>1. ASSUME NEW a \in Apis, NEW size \in 0 .. MaxSize + 1, WriteInvalid(a, size) PROVE IInv'
  <2> USE <1>1 DEF WriteInvalid, ring, rvars, wvars
  <2>1. TypeOK'
    BY <1>f DEF TypeOK
  <2> QED
    BY <2>1 DEF IndexOrder, ClaimInv, FilledInv, ReadInv, PendingInv, PollKept, HasPacket,
                Writing, Reading
<1>2. ASSUME NEW a \in Apis, WriteFull(a) PROVE IInv'
  <2> USE <1>2 DEF WriteFull, ring, rvars, wvars
  <2>1. TypeOK'
    BY <1>f DEF TypeOK
  <2> QED
    BY <2>1 DEF IndexOrder, ClaimInv, FilledInv, ReadInv, PendingInv, PollKept, HasPacket,
                Writing, Reading
<1>3. ASSUME NEW a \in Apis, NEW p \in Packets, WriteClaim(a, p) PROVE IInv'
  <2> USE <1>3 DEF WriteClaim, ring, rvars, wvars
  <2>1. TypeOK'
    BY <1>f, <1>a, UplinkAssumption DEF TypeOK
  <2>2. ClaimInv'
    BY DEF ClaimInv, RingFull
  <2> QED
    BY <2>1, <2>2 DEF IndexOrder, FilledInv, ReadInv, PendingInv, PollKept, HasPacket, Reading
<1>4. CASE StorePacketSize
  <2> USE <1>4 DEF StorePacketSize, rvars, wvars
  <2>0. request.size \in 0 .. MaxSize
    BY DEF ClaimInv, Writing, Packets
  <2>1. slot' \in [Index -> Slots]
    BY <2>0 DEF TypeOK, Slots
  <2>2. TypeOK'
    BY <1>f, <2>1 DEF TypeOK
  <2>3. PendingInv'
    BY <1>a, SlotsInFlight DEF PendingInv, TypeOK, ClaimInv, Writing
  <2>4. FilledInv'
    BY <1>a DEF FilledInv, TypeOK, Slots, ClaimInv, Writing
  <2> QED
    BY <2>2, <2>3, <2>4 DEF IndexOrder, ClaimInv, ReadInv, PollKept, HasPacket, Writing, Reading
<1>5. CASE StoreDataBegin
  <2> USE <1>5 DEF StoreDataBegin, rvars, wvars
  <2>1. slot' \in [Index -> Slots]
    BY DEF TypeOK, Slots
  <2>2. TypeOK'
    BY <1>f, <2>1 DEF TypeOK
  <2>3. PendingInv'
    BY <1>a, SlotsInFlight DEF PendingInv, TypeOK, ClaimInv, Writing
  <2>4. FilledInv'
    BY <1>a DEF FilledInv, TypeOK, Slots, ClaimInv, Writing
  <2> QED
    BY <2>2, <2>3, <2>4 DEF IndexOrder, ClaimInv, ReadInv, PollKept, HasPacket, Writing, Reading
<1>6. CASE StoreDataEnd
  <2> USE <1>6 DEF StoreDataEnd, rvars, wvars
  <2>0. request.data \in Payloads \cup {Junk}
    BY DEF ClaimInv, Writing, Packets
  <2>1. slot' \in [Index -> Slots]
    BY <2>0 DEF TypeOK, Slots
  <2>2. TypeOK'
    BY <1>f, <2>1 DEF TypeOK
  <2>3. PendingInv'
    BY <1>a, SlotsInFlight DEF PendingInv, TypeOK, ClaimInv, Writing
  <2>4. FilledInv'
    BY <1>a DEF FilledInv, TypeOK, Slots, ClaimInv, Writing
  <2> QED
    BY <2>2, <2>3, <2>4 DEF IndexOrder, ClaimInv, ReadInv, PollKept, HasPacket, Writing, Reading
<1>7. CASE SendPacketStore
  <2> USE <1>7 DEF SendPacketStore, rvars, wvars
  <2>1. w' = NextIndex(w) /\ NextIndex(w) # r /\ request \in Packets
    BY DEF ClaimInv, Writing
  <2>2. InFlight(r, NextIndex(w)) = InFlight(r, w) + 1
    BY <2>1, <1>a, InFlightSend
  <2>3. slot[w] = request
    <3>1. slot[w] \in Slots
      BY <1>a DEF TypeOK
    <3>2. slot[w].data = request.data /\ slot[w].size = request.size
      BY DEF FilledInv
    <3> QED
      BY <3>1, <3>2, <2>1 DEF Slots, Packets
  <2>4. sent' \in Seq(Packets) /\ Len(sent') = Len(sent) + 1 /\ sent' = Append(sent, request)
    BY <2>1 DEF TypeOK
  <2>5. TypeOK'
    <3>1. Len(sent') <= MaxPackets
      BY <2>4, UplinkAssumption DEF ClaimInv, Writing, TypeOK
    <3> QED
      BY <3>1, <2>4, <2>1, <1>a, <1>f DEF TypeOK
  <2>6. IndexOrder'
    BY <2>1, <2>2, <1>b, <1>c DEF IndexOrder
  <2>7. PendingInv'
    <3>1. ASSUME NEW i \in 1 .. InFlight(r, w) + 1
          PROVE  slot[SlotAt(r + i - 1)] = sent'[Len(got) + i]
      <4>1. CASE i <= InFlight(r, w)
        <5>1. i \in 1 .. InFlight(r, w)
          BY <4>1, <1>b, <1>c
        <5>2. Len(got) + i \in 1 .. Len(sent)
          BY <5>1, <1>b, <1>c DEF PendingInv, TypeOK
        <5>3. sent'[Len(got) + i] = sent[Len(got) + i]
          BY <5>2, <2>1, <2>4, AppendOld DEF TypeOK
        <5>4. slot[SlotAt(r + i - 1)] = sent[Len(got) + i]
          BY <5>1 DEF PendingInv
        <5> QED
          BY <5>3, <5>4
      <4>2. CASE i = InFlight(r, w) + 1
        <5>1. SlotAt(r + i - 1) = w
          BY <4>2, <1>a, <1>b, SlotsInFlight DEF Index
        <5>2. Len(got) + i = Len(sent) + 1
          BY <4>2, <1>b, <1>c DEF PendingInv, TypeOK
        <5> QED
          BY <5>1, <5>2, <2>3, <2>4 DEF TypeOK
      <4>3. i <= InFlight(r, w) \/ i = InFlight(r, w) + 1
        BY <1>b, <1>c
      <4> QED
        BY <4>1, <4>2, <4>3
    <3>2. InFlight(r, w) + 1 = Len(sent') - Len(got)
      BY <2>4, <1>b, <1>c DEF PendingInv, TypeOK
    <3>3. InFlight(r', w') = InFlight(r, w) + 1
      BY <2>1, <2>2
    <3> QED
      BY <3>1, <3>2, <3>3 DEF PendingInv
  <2> QED
    BY <2>5, <2>6, <2>7 DEF ClaimInv, FilledInv, ReadInv, PollKept, HasPacket, Writing, Reading
<1>8. CASE IndexStoreVisible
  <2> USE <1>8 DEF IndexStoreVisible, cvars, rvars, wvars
  <2>1. /\ NextIndex(v) # r
        /\ InFlight(r, NextIndex(v)) <= InFlight(r, w)
    BY <1>a, InFlightSplit DEF IndexOrder
  <2>2. TypeOK'
    BY <1>f, <1>a DEF TypeOK
  <2> QED
    BY <2>1, <2>2 DEF IndexOrder, ClaimInv, FilledInv, ReadInv, PendingInv, PollKept,
                      HasPacket, Writing, Reading
<1>9. CASE SendPacketKick \/ ipi_notify_handler
  <2> USE <1>9 DEF SendPacketKick, ipi_notify_handler, ring, cvars, rvars, wvars
  <2>1. TypeOK'
    BY <1>f DEF TypeOK
  <2> QED
    BY <2>1 DEF IndexOrder, ClaimInv, FilledInv, ReadInv, PendingInv, PollKept, HasPacket,
                Writing, Reading
<1>10. ASSUME NEW c \in Calls, NEW len \in ReadLens, DevRead(c, len) PROVE IInv'
  <2> USE <1>10 DEF DevRead, ring, cvars, wvars
  <2>1. TypeOK'
    BY <1>f, UplinkAssumption DEF TypeOK
  <2> QED
    BY <2>1 DEF IndexOrder, ClaimInv, FilledInv, ReadInv, PendingInv, PollKept, HasPacket,
                Writing, Reading
<1>11. CASE GetPacket
  <2> USE <1>11 DEF GetPacket, ring, cvars
  <2>1. TypeOK'
    BY <1>f, <1>a DEF TypeOK, ReadPacket
  <2>2. ReadInv'
    BY DEF ReadInv, ReadPacket, HasPacket
  <2> QED
    BY <2>1, <2>2 DEF IndexOrder, ClaimInv, FilledInv, PendingInv, PollKept, HasPacket, Writing
<1>12. CASE FirstCheckFails \/ PrepareToWait \/ CondCheckFails \/ WakeUp
  <2> USE <1>12 DEF FirstCheckFails, PrepareToWait, CondCheckFails, WakeUp, Return, ring,
                    cvars
  <2>1. TypeOK'
    BY <1>f DEF TypeOK
  <2> QED
    BY <2>1 DEF IndexOrder, ClaimInv, FilledInv, ReadInv, PendingInv, PollKept, HasPacket,
                Writing, Reading
<1>13. CASE Signal \/ CopyToUserFault
  <2> USE <1>13 DEF Signal, CopyToUserFault, Return, ring, cvars
  <2>1. TypeOK'
    BY <1>f, UplinkAssumption DEF TypeOK
  <2> QED
    BY <2>1 DEF IndexOrder, ClaimInv, FilledInv, ReadInv, PendingInv, PollKept, HasPacket,
                Writing, Reading
<1>14. CASE PollReady
  <2> USE <1>14 DEF PollReady, Return, ring, cvars
  <2>1. TypeOK'
    BY <1>f DEF TypeOK
  <2> QED
    BY <2>1 DEF IndexOrder, ClaimInv, FilledInv, ReadInv, PendingInv, PollKept, HasPacket,
                Writing, Reading
<1>15. CASE LoadPacketSize \/ CopyToUser
  <2> USE <1>15 DEF LoadPacketSize, CopyToUser, ring, cvars, wvars
  <2>1. slot[packet.packet] \in Slots
    BY DEF TypeOK
  <2>2. Clip(slot[packet.packet], buffer.size).size \in Nat
    BY <2>1, UplinkAssumption DEF Clip, Slots, TypeOK
  <2>3. buffer' \in [size : Nat, data : Payloads \cup {Junk}]
    BY <2>1, <2>2 DEF TypeOK, Slots
  <2>4. TypeOK'
    BY <1>f, <2>3 DEF TypeOK
  <2> QED
    BY <2>4 DEF IndexOrder, ClaimInv, FilledInv, ReadInv, PendingInv, PollKept, HasPacket,
                Writing, Reading
<1>16. CASE mark_packet_as_read
  <2> USE <1>16 DEF mark_packet_as_read, Return, cvars
  <2>1. r' = NextIndex(r) /\ r # v
    BY DEF ReadInv, Reading
  <2>2. r # w
    BY <2>1, <1>b, <1>c DEF IndexOrder
  <2>3. /\ InFlight(NextIndex(r), w) = InFlight(r, w) - 1
        /\ InFlight(NextIndex(r), v) = InFlight(r, v) - 1
    BY <2>1, <2>2, <1>a, InFlightReceive
  <2>4. /\ got' \in Seq([size : Nat, data : Payloads \cup {Junk}])
        /\ Len(got') = Len(got) + 1
    BY DEF TypeOK
  <2>5. TypeOK'
    BY <1>f, <2>1, <2>4, <1>a DEF TypeOK
  <2>6. IndexOrder'
    BY <2>1, <2>3, <1>b, <1>c DEF IndexOrder
  <2>7. ClaimInv'
    BY <2>1, <2>2, <1>a, NextIndexFacts DEF ClaimInv, Writing
  <2>8. PendingInv'
    <3>1. ASSUME NEW i \in 1 .. InFlight(r, w) - 1
          PROVE  slot[SlotAt(NextIndex(r) + i - 1)] = sent[Len(got') + i]
      <4>1. i \in 1 .. N - 1 /\ i + 1 \in 1 .. InFlight(r, w)
        BY <1>b, <1>c
      <4>2. SlotAt(NextIndex(r) + i - 1) = SlotAt(r + (i + 1) - 1)
        BY <4>1, <1>a, SlotsAfterReceive
      <4>3. slot[SlotAt(r + (i + 1) - 1)] = sent[Len(got) + (i + 1)]
        BY <4>1 DEF PendingInv
      <4>4. Len(got) + (i + 1) = Len(got') + i
        BY <2>4 DEF TypeOK
      <4> QED
        BY <4>2, <4>3, <4>4
    <3>2. InFlight(r, w) - 1 = Len(sent) - Len(got')
      BY <2>4, <1>b, <1>c DEF PendingInv, TypeOK
    <3> QED
      BY <3>1, <3>2, <2>1, <2>3 DEF PendingInv
  <2> QED
    BY <2>5, <2>6, <2>7, <2>8 DEF FilledInv, ReadInv, PollKept, Reading
<1>17. CASE UNCHANGED vars
  BY <1>f, <1>17 DEF vars, ring, cvars, rvars, wvars, TypeOK, IndexOrder, ClaimInv, FilledInv,
               ReadInv, PendingInv, PollKept, HasPacket, Writing, Reading
<1> QED
  BY <1>1, <1>2, <1>3, <1>4, <1>5, <1>6, <1>7, <1>8, <1>9, <1>10, <1>11, <1>12, <1>13,
     <1>14, <1>15, <1>16, <1>17
     DEF Next, IPC_TUNNEL_Write, WriteStep, UserCall, ReadStep

\* The invariant holds in every state the two processors reach.
THEOREM InductiveInvariant == Spec => []IInv
BY InitIInv, NextIInv, PTL DEF Spec

\* The indices exchanged through the control header stay in the ring, and no
\* size or payload outside its type is ever stored or copied.
THEOREM TypeCorrect == Spec => []TypeOK
BY InductiveInvariant, PTL DEF IInv

\* A packet that dev_poll announced is still there when read is called.
THEOREM PollHonoured == Spec => []PollKept
BY InductiveInvariant, PTL DEF IInv, RingInv

\* The slot dev_read works on is in flight.
LEMMA ReadingInFlight ==
    ASSUME IInv
    PROVE  /\ cpu0_read_index \in Index /\ own_write_index \in Index
           /\ Len(got) <= Len(sent)
           /\ Reading => cpu0_read_index # own_write_index
<1>1. /\ cpu0_read_index \in Index /\ own_write_index \in Index
      /\ cpu1_write_index \in Index
  BY DEF IInv, TypeOK
<1>2. /\ InFlight(cpu0_read_index, own_write_index) \in 0 .. N - 1
      /\ InFlight(cpu0_read_index, cpu1_write_index) \in 0 .. N - 1
      /\ InFlight(cpu0_read_index, own_write_index) = 0 <=> cpu0_read_index = own_write_index
      /\ InFlight(cpu0_read_index, cpu1_write_index) = 0 <=> cpu0_read_index = cpu1_write_index
  BY <1>1, InFlightRange
<1>3. N \in Nat
  BY NAssumption
<1>4. Reading => cpu0_read_index # own_write_index
  BY <1>2, <1>3 DEF IInv, RingInv, IndexOrder, ReadInv
<1> QED
  BY <1>1, <1>2, <1>3, <1>4 DEF IInv, RingInv, TypeOK, PendingInv

\* CPU1 never fills the slot dev_read copies from, in either build.
THEOREM Exclusion == Spec => []SlotExclusion
<1>1. IInv => SlotExclusion
  BY ReadingInFlight DEF IInv, RingInv, SlotExclusion, ClaimInv, ReadInv
<1> QED
  BY <1>1, InductiveInvariant, PTL

\* The ring holds exactly the packets sent and not yet marked as read, in both
\* builds: no write under way, given up or refused disturbs them.
THEOREM RingContents == Spec => []RingHoldsPending
<1>1. IInv => RingHoldsPending
  <2> SUFFICES ASSUME IInv PROVE RingHoldsPending
    OBVIOUS
  <2> DEFINE k == InFlight(cpu0_read_index, own_write_index)
             rest == SubSeq(sent, Len(got) + 1, Len(sent))
  <2>1. /\ k \in Nat /\ k = Len(sent) - Len(got)
        /\ Len(got) \in Nat /\ sent \in Seq(Packets)
    <3>1. k \in 0 .. N - 1 /\ N \in Nat
      BY ReadingInFlight, InFlightRange, NAssumption
    <3> QED
      BY <3>1 DEF IInv, RingInv, TypeOK, PendingInv
  <2>2. rest = [i \in 1 .. k |-> sent[Len(got) + i]]
    BY <2>1
  <2> HIDE DEF k, rest
  <2>3. \A i \in 1 .. k : slot[SlotAt(cpu0_read_index + i - 1)] = sent[Len(got) + i]
    BY DEF IInv, RingInv, PendingInv, k
  <2> QED
    BY <2>2, <2>3 DEF RingHoldsPending, Queue, k, rest
<1> QED
  BY <1>1, InductiveInvariant, PTL
-----------------------------------------------------------------------------
(* Delivery *)

\* What dev_read has copied so far is the packet at the read index, cut to
\* the length it was called with.
CopyInv ==
    /\ rpc \in {"first", "prepare", "cond", "sleep", "size"} => buffer.size \in ReadLens
    /\ rpc = "data" => \E len \in ReadLens :
                          buffer.size = Clip(slot[cpu0_read_index], len).size
    /\ rpc = "mark" => \E len \in ReadLens : buffer = Clip(slot[cpu0_read_index], len)
    /\ \A i \in 1 .. Len(got) : \E len \in ReadLens : got[i] = Clip(sent[i], len)

\* What dev_read has copied is what the oldest packet in flight holds.
LEMMA NextCopyInv == IInv /\ CopyInv /\ [Next]_vars => CopyInv'
<1> SUFFICES ASSUME IInv, CopyInv, [Next]_vars PROVE CopyInv'
  OBVIOUS
<1> DEFINE r == cpu0_read_index
           w == own_write_index
<1>a. /\ r \in Index /\ w \in Index /\ Len(got) <= Len(sent)
      /\ Reading => r # w
  BY ReadingInFlight
<1>1. ASSUME slot' = slot \/ (\E x : slot' = [slot EXCEPT ![w] = x]),
             UNCHANGED <<cpu0_read_index, rpc, buffer, got>>,
             \/ sent' = sent
             \/ sent' = Append(sent, request) /\ request \in Packets
      PROVE  CopyInv'
  <2>1. Reading => slot'[r] = slot[r]
    BY <1>1, <1>a DEF IInv, TypeOK
  <2>2. \A i \in 1 .. Len(got) : sent'[i] = sent[i]
    <3>1. sent \in Seq(Packets) /\ Len(got) \in Nat
      BY DEF IInv, TypeOK
    <3>2. \A i \in 1 .. Len(got) : i \in 1 .. Len(sent)
      BY <3>1, <1>a
    <3> QED
      BY <3>1, <3>2, <1>1
  <2> QED
    BY <1>1, <2>1, <2>2 DEF CopyInv, Reading
<1>2. CASE \E a \in Apis : IPC_TUNNEL_Write(a)
  BY <1>1, <1>2 DEF IPC_TUNNEL_Write, WriteInvalid, WriteFull, WriteClaim, ring, rvars
<1>3. CASE WriteStep
  <2>1. Writing => claim.packet = w /\ request \in Packets
    BY DEF IInv, RingInv, ClaimInv
  <2>2. ASSUME NEW x, \/ slot' = [slot EXCEPT ![w].data = x]
                      \/ slot' = [slot EXCEPT ![w].size = x]
        PROVE  \E y : slot' = [slot EXCEPT ![w] = y]
    BY <2>2
  <2> QED
    BY <1>1, <1>3, <2>1, <2>2
       DEF WriteStep, StorePacketSize, StoreDataBegin, StoreDataEnd, SendPacketStore,
           SendPacketKick, Writing, ring, rvars
<1>4. CASE IndexStoreVisible \/ ipi_notify_handler \/ Signal
  BY <1>1, <1>4 DEF IndexStoreVisible, ipi_notify_handler, Signal, ring, cvars, rvars
<1>5. CASE UserCall
  BY <1>5 DEF UserCall, DevRead, CopyInv, ring, cvars
<1>6. CASE GetPacket \/ FirstCheckFails \/ PrepareToWait \/ PollReady \/ CondCheckFails
           \/ WakeUp \/ CopyToUserFault
  BY <1>6 DEF GetPacket, FirstCheckFails, PrepareToWait, PollReady, CondCheckFails, WakeUp,
              CopyToUserFault, Return, CopyInv, ring, cvars
<1>7. Reading => packet.packet = r
  BY DEF IInv, RingInv, ReadInv
<1>8. CASE LoadPacketSize
  <2>1. buffer'.size = Clip(slot[r], buffer.size).size /\ buffer.size \in ReadLens
    BY <1>7, <1>8 DEF LoadPacketSize, Reading, CopyInv, IInv, TypeOK
  <2> QED
    BY <1>8, <2>1 DEF LoadPacketSize, CopyInv, ring, cvars
<1>9. CASE CopyToUser
  <2>1. PICK len \in ReadLens : buffer.size = Clip(slot[r], len).size
    BY <1>9 DEF CopyToUser, CopyInv
  <2>2. buffer' = [buffer EXCEPT !.data = slot[r].data]
    BY <1>7, <1>9 DEF CopyToUser, Reading
  <2>3. slot[r] \in Slots /\ buffer \in [size : Nat, data : Payloads \cup {Junk}]
    BY <1>a DEF IInv, TypeOK
  <2>4. buffer' = Clip(slot[r], len)
    BY <2>1, <2>2, <2>3 DEF Clip, Slots
  <2> QED
    BY <1>9, <2>4 DEF CopyToUser, CopyInv, ring, cvars
<1>10. CASE mark_packet_as_read
  <2>1. r # w
    BY <1>10, <1>a DEF mark_packet_as_read, Reading
  <2>2. slot[r] = sent[Len(got) + 1]
    <3>1. InFlight(r, w) \in 1 .. N - 1 /\ SlotAt(r) = r
      BY <2>1, <1>a, InFlightRange, SlotsInFlight, NAssumption
    <3>2. 1 \in 1 .. InFlight(r, w) /\ r + 1 - 1 = r
      BY <3>1, <1>a, NAssumption DEF Index
    <3>3. slot[SlotAt(r + 1 - 1)] = sent[Len(got) + 1]
      BY <3>2 DEF IInv, RingInv, PendingInv
    <3> QED
      BY <3>1, <3>2, <3>3
  <2>3. PICK len \in ReadLens : buffer = Clip(sent[Len(got) + 1], len)
    BY <1>10, <2>2 DEF mark_packet_as_read, CopyInv
  <2>4. /\ got' = Append(got, buffer) /\ sent' = sent
        /\ got \in Seq([size : Nat, data : Payloads \cup {Junk}])
    BY <1>10 DEF mark_packet_as_read, cvars, IInv, TypeOK
  <2>5. Len(got') = Len(got) + 1 /\ Len(got) \in Nat
    BY <2>4
  <2>6. ASSUME NEW i \in 1 .. Len(got) + 1
        PROVE  \E l \in ReadLens : got'[i] = Clip(sent'[i], l)
    <3>1. CASE i = Len(got) + 1
      BY <3>1, <2>3, <2>4, <2>5
    <3>2. CASE i \in 1 .. Len(got)
      BY <3>2, <2>4 DEF CopyInv
    <3> QED
      BY <3>1, <3>2, <2>5
  <2> QED
    BY <1>10, <2>5, <2>6 DEF mark_packet_as_read, Return, CopyInv
<1>11. CASE UNCHANGED vars
  BY <1>1, <1>11 DEF vars, ring, cvars, rvars
<1> QED
  BY <1>2, <1>3, <1>4, <1>5, <1>6, <1>8, <1>9, <1>10, <1>11 DEF Next, ReadStep

\* dev_read returns exactly the packets that IPC_TUNNEL_Write accepted, in
\* order, cut short only by the room it was given, in both builds.
THEOREM DeliveredBoth == Spec => []Delivered
<1>1. Init => CopyInv
  BY DEF Init, CopyInv
<1>2. IInv /\ CopyInv => Delivered
  BY ReadingInFlight DEF CopyInv, Delivered
<1> QED
  BY <1>1, <1>2, InductiveInvariant, NextCopyInv, PTL DEF Spec
-----------------------------------------------------------------------------
(* Refinement *)

\* In both builds every step of the write, of the interrupt handler and of
\* dev_read is a step of PacketFifo or leaves the channel as it is.
LEMMA FifoStep ==
    IInv /\ CopyInv /\ [Next]_vars => [Fifo!Next]_(Fifo!fifoVars)
<1> SUFFICES ASSUME IInv, CopyInv, [Next]_vars PROVE [Fifo!Next]_(Fifo!fifoVars)
  OBVIOUS
<1> DEFINE r == cpu0_read_index
           v == cpu1_write_index
           w == own_write_index
           T == Queue(slot, v, w)
           Q == Queue(slot, r, v)
<1>a. r \in Index /\ v \in Index /\ w \in Index /\ slot \in [Index -> Slots]
  BY DEF IInv, TypeOK
<1>o. InFlight(r, v) <= InFlight(r, w)
  BY DEF IInv, RingInv, IndexOrder
<1>b. Len(T) + Len(Q) = InFlight(r, w)
  <2>1. Len(T) = InFlight(v, w) /\ Len(Q) = InFlight(r, v)
    BY <1>a, QueueLen
  <2>2. InFlight(v, w) = InFlight(r, w) - InFlight(r, v)
    BY <1>a, <1>o, InFlightSplit
  <2>3. InFlight(r, w) \in Int /\ InFlight(r, v) \in Int
    BY <1>a, InFlightRange, NAssumption
  <2> QED
    BY <2>1, <2>2, <2>3
<1>1. ASSUME UNCHANGED <<cpu0_read_index, cpu1_write_index, own_write_index>>,
             \A i \in Index \ {w} : slot'[i] = slot[i]
      PROVE  UNCHANGED <<T, Q>>
  BY <1>1, <1>a, <1>o, QueueKept
<1>2. ASSUME UNCHANGED <<ring, got, SendRet, RecvRet>> PROVE UNCHANGED Fifo!fifoVars
  BY <1>2 DEF Fifo!fifoVars, ring
<1>3. CASE \E a \in Apis : IPC_TUNNEL_Write(a)
  <2>1. PICK a \in Apis : IPC_TUNNEL_Write(a)
    BY <1>3
  <2>2. ASSUME NEW size \in 0 .. MaxSize + 1, WriteInvalid(a, size) PROVE Fifo!SendError
    BY <2>2 DEF WriteInvalid, Fifo!SendError, SendRet, RecvRet, ring, rvars
  <2>3. CASE WriteFull(a)
    <3>1. InFlight(r, w) = N - 1
      BY <2>3, <1>a, InFlightSend DEF WriteFull, RingFull
    <3>2. SendRet' = "full" /\ UNCHANGED <<ring, got, RecvRet>>
      BY <2>3 DEF WriteFull, SendRet, RecvRet, rvars
    <3> QED
      BY <3>1, <3>2, <1>b DEF Fifo!Full, Fifo!Load, Fifo!Next, ring
  <2>4. ASSUME NEW p \in Packets, WriteClaim(a, p) PROVE UNCHANGED Fifo!fifoVars
    BY <1>2, <2>4 DEF WriteClaim, MayCall, SendRet, RecvRet, rvars
  <2> QED
    BY <2>1, <2>2, <2>3, <2>4 DEF IPC_TUNNEL_Write, Fifo!Next
<1>4. CASE StorePacketSize \/ StoreDataBegin \/ StoreDataEnd
  <2>1. claim.packet = w
    BY <1>4 DEF StorePacketSize, StoreDataBegin, StoreDataEnd, IInv, RingInv, ClaimInv, Writing
  <2>2. \A i \in Index \ {w} : slot'[i] = slot[i]
    BY <1>4, <1>a, <2>1 DEF StorePacketSize, StoreDataBegin, StoreDataEnd
  <2>3. /\ UNCHANGED <<cpu0_read_index, cpu1_write_index, own_write_index>>
        /\ UNCHANGED <<got, SendRet, RecvRet>>
    BY <1>4 DEF StorePacketSize, StoreDataBegin, StoreDataEnd, SendRet, RecvRet, rvars
  <2> QED
    BY <1>1, <2>2, <2>3 DEF Fifo!fifoVars
<1>5. CASE SendPacketStore
  <2>1. w' = NextIndex(w) /\ NextIndex(w) # r /\ request \in Packets
    BY <1>5 DEF SendPacketStore, IInv, RingInv, ClaimInv, Writing
  <2>2. slot[w] = request
    <3>1. slot[w] \in Slots
      BY <1>a
    <3>2. slot[w].data = request.data /\ slot[w].size = request.size
      BY <1>5 DEF SendPacketStore, IInv, RingInv, FilledInv
    <3> QED
      BY <3>1, <3>2, <2>1 DEF Slots, Packets
  <2>3. NextIndex(w) # v
    BY <2>1, <1>a, <1>o, SentNotVisible
  <2>4. Queue(slot, v, NextIndex(w)) = Append(T, request)
    BY <2>2, <2>3, <1>a, QueueSend
  <2>5. InFlight(r, w) < N - 1
    BY <2>1, <1>a, InFlightSend, InFlightRange, NAssumption
  <2>6. /\ UNCHANGED <<slot, cpu0_read_index, cpu1_write_index, got, RecvRet>>
        /\ SendRet' = "sent"
    BY <1>5 DEF SendPacketStore, SendRet, RecvRet, rvars
  <2>7. Fifo!Send(request)
    BY <2>1, <2>4, <2>5, <2>6, <1>b DEF Fifo!Send, Fifo!Load
  <2> QED
    BY <2>1, <2>7 DEF Fifo!Next
<1>6. CASE SendPacketKick
  BY <1>2, <1>6 DEF SendPacketKick, SendRet, RecvRet, rvars
<1>7. CASE IndexStoreVisible
  <2>1. v' = NextIndex(v) /\ v # w /\ NextIndex(v) # r
    BY <1>7, <1>a, <1>o, InFlightSplit DEF IndexStoreVisible
  <2>2. Queue(slot, r, NextIndex(v)) = Append(Q, slot[v])
    BY <2>1, <1>a, QueueSend
  <2>3. Head(T) = slot[v] /\ Queue(slot, NextIndex(v), w) = Tail(T)
    BY <2>1, <1>a, QueueReceive
  <2>4. T # << >>
    BY <2>1, <1>a, QueueLen
  <2>5. UNCHANGED <<slot, cpu0_read_index, own_write_index, got, SendRet, RecvRet>>
    BY <1>7 DEF IndexStoreVisible, cvars, rvars, SendRet, RecvRet
  <2> QED
    BY <2>1, <2>2, <2>3, <2>4, <2>5 DEF Fifo!Arrive, Fifo!Next
<1>8. CASE ipi_notify_handler \/ UserCall \/ Signal
  BY <1>2, <1>8 DEF ipi_notify_handler, UserCall, DevRead, Signal, SendRet, RecvRet, cvars
<1>9. CASE GetPacket \/ PrepareToWait \/ PollReady \/ WakeUp \/ LoadPacketSize \/ CopyToUser
  BY <1>2, <1>9 DEF GetPacket, PrepareToWait, PollReady, WakeUp, LoadPacketSize, CopyToUser,
                    Return, SendRet, RecvRet, cvars
<1>10. CASE FirstCheckFails
  <2>1. Q = << >>
    BY <1>10, <1>a, QueueLen DEF FirstCheckFails, HasPacket
  <2>2. UNCHANGED <<ring, got, SendRet>> /\ (RecvRet' = "empty" \/ RecvRet' = RecvRet)
    BY <1>10 DEF FirstCheckFails, Return, SendRet, RecvRet, cvars
  <2> QED
    BY <1>2, <2>1, <2>2 DEF Fifo!Empty, Fifo!Next, ring
<1>11. CASE CondCheckFails \/ CopyToUserFault
  <2>1. UNCHANGED <<ring, got, SendRet>> /\ (RecvRet' = "error" \/ RecvRet' = RecvRet)
    BY <1>11 DEF CondCheckFails, CopyToUserFault, Return, SendRet, RecvRet, cvars
  <2> QED
    BY <1>2, <2>1 DEF Fifo!RecvError, Fifo!Next, ring
<1>12. CASE mark_packet_as_read
  <2>1. r' = NextIndex(r) /\ r # v
    BY <1>12 DEF mark_packet_as_read, IInv, RingInv, ReadInv, Reading
  <2>2. Head(Q) = slot[r] /\ Queue(slot, NextIndex(r), v) = Tail(Q) /\ Q # << >>
    BY <2>1, <1>a, QueueReceive, QueueLen
  <2>3. PICK len \in ReadLens : buffer = Clip(slot[r], len)
    BY <1>12 DEF mark_packet_as_read, CopyInv
  <2>4. buffer = [slot[r] EXCEPT !.size = buffer.size] /\ buffer.size \in 0 .. slot[r].size
    <3>1. slot[r] \in Slots /\ len \in Nat
      BY <1>a, UplinkAssumption
    <3> QED
      BY <2>3, <3>1, UplinkAssumption DEF Clip, Slots
  <2>5. got' = Append(got, [Head(Q) EXCEPT !.size = buffer.size])
    BY <1>12, <2>2, <2>4 DEF mark_packet_as_read
  <2>6. UNCHANGED <<slot, cpu1_write_index, own_write_index, SendRet>> /\ RecvRet' = "got"
    BY <1>12 DEF mark_packet_as_read, Return, cvars, SendRet, RecvRet
  <2>7. Fifo!Receive(buffer.size)
    BY <2>1, <2>2, <2>5, <2>6 DEF Fifo!Receive
  <2> QED
    BY <2>2, <2>4, <2>7 DEF Fifo!Next
<1>13. CASE UNCHANGED vars
  BY <1>2, <1>13 DEF vars, cvars, rvars, SendRet, RecvRet
<1> QED
  BY <1>3, <1>4, <1>5, <1>6, <1>7, <1>8, <1>9, <1>10, <1>11, <1>12, <1>13
     DEF Next, WriteStep, ReadStep, Fifo!Next

\* In both builds IPC_TUNNEL_Write and dev_read are a FIFO of N - 1 packets: a
\* write is refused as full by a full channel only, -EAGAIN is returned by an
\* empty one only, and -EINTR, -EFAULT or an invalid size change nothing.
THEOREM Implements == Spec => ImplementsFifo
<1>1. Init => Fifo!Init /\ CopyInv
  <2> SUFFICES ASSUME Init PROVE Fifo!Init /\ CopyInv
    OBVIOUS
  <2>1. 0 \in Index
    BY NAssumption DEF Index
  <2>2. Queue(slot, 0, 0) = << >>
    BY <2>1, QueueLen
  <2> QED
    BY <2>2 DEF Init, CopyInv, Fifo!Init, SendRet, RecvRet
<1> QED
  BY <1>1, InductiveInvariant, NextCopyInv, FifoStep, PTL
     DEF Spec, ImplementsFifo, Fifo!Spec
-----------------------------------------------------------------------------
(* The wake-up *)

\* A sleeping reader that nobody has woken is on read_queue; and, thanks to
\* the dsb of the uncached build, an index that is not visible yet means that
\* the interrupt has not been raised yet.
WakeInv ==
    /\ cpu1_write_index # own_write_index => cpc = "kick"
    /\ rpc \in {"cond", "sleep"} /\ call = "select" => waiting
    /\ rpc \in {"cond", "sleep"} /\ ~woken /\ ~signalled => waiting
    /\ rpc = "sleep" /\ signalled => woken
    /\ NoLostWakeup

\* No step of CPU1 or of the handler lets a sleeper miss its interrupt.
LEMMA NextWakeInv ==
    ASSUME ~Cached
    PROVE  TypeOK /\ WakeInv /\ [Next]_vars => WakeInv'
<1> SUFFICES ASSUME TypeOK, WakeInv, [Next]_vars PROVE WakeInv'
  OBVIOUS
<1> USE DEF WakeInv, NoLostWakeup, HasPacket
<1>1. CASE \E a \in Apis : IPC_TUNNEL_Write(a)
  BY <1>1 DEF IPC_TUNNEL_Write, WriteInvalid, WriteFull, WriteClaim, MayCall, ring, rvars,
              wvars
<1>2. CASE WriteStep
  BY <1>2 DEF WriteStep, StorePacketSize, StoreDataBegin, StoreDataEnd, SendPacketStore,
              SendPacketKick, BarrierDone, ring, rvars, wvars
<1>3. CASE IndexStoreVisible
  BY <1>3 DEF IndexStoreVisible, cvars, rvars, wvars
<1>4. CASE ipi_notify_handler
  BY <1>4 DEF ipi_notify_handler, ring, cvars
<1>5. CASE UserCall \/ Signal
  BY <1>5 DEF UserCall, DevRead, Signal, ring, cvars, wvars
<1>6. CASE GetPacket \/ FirstCheckFails \/ PollReady
  BY <1>6 DEF GetPacket, FirstCheckFails, PollReady, Return, ring, cvars
<1>7. CASE CondCheckFails \/ WakeUp
  BY <1>7 DEF CondCheckFails, WakeUp, Return, ring, cvars
<1>8. CASE LoadPacketSize \/ CopyToUser \/ CopyToUserFault \/ mark_packet_as_read
  BY <1>8 DEF LoadPacketSize, CopyToUser, CopyToUserFault, mark_packet_as_read, Return,
              ring, cvars, wvars
<1>9. CASE UNCHANGED vars
  BY <1>9 DEF vars, ring, cvars, rvars, wvars
<1>10. CASE PrepareToWait
  <2>1. call = "select" \/ ~signalled => waiting'
    BY <1>10 DEF PrepareToWait
  <2>2. rpc' = "cond" /\ UNCHANGED <<ring, cpc, call, signalled>>
    BY <1>10 DEF PrepareToWait, cvars
  <2> QED
    BY <2>1, <2>2 DEF ring
<1> QED
  BY <1>1, <1>2, <1>3, <1>4, <1>5, <1>6, <1>7, <1>8, <1>9, <1>10 DEF Next, ReadStep

\* In the uncached build no reader is left asleep on a packet: the interrupt
\* that wakes it is pending or about to be raised.
THEOREM NoLostWakeupUncached ==
    ASSUME ~Cached
    PROVE  Spec => []NoLostWakeup
<1>1. Init => WakeInv
  BY DEF Init, WakeInv, NoLostWakeup
<1> QED
  BY <1>1, TypeCorrect, NextWakeInv, PTL DEF Spec, WakeInv
==============================================================================
