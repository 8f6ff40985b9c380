-------------------------- MODULE Downlink_proofs --------------------------
(***************************************************************************)
(* Proofs that the Linux to bare metal direction of a tunnel is correct    *)
(* for every packet count, packet size, set of payloads and number of      *)
(* packets.  TypeOK, SlotExclusion and RingHoldsPending hold in both       *)
(* builds; Delivered and the refinement of PacketFifo are proved for the   *)
(* cached build, where the packet is never loaded ahead of the index.      *)
(***************************************************************************)
EXTENDS Downlink, TLAPS

(***************************************************************************)
(* Facts about the index arithmetic of a ring, for every packet count N.   *)
(* The rest of the proof uses only these; the proof about the other        *)
(* direction of a tunnel starts from the same facts.                       *)
(***************************************************************************)

\* Incrementing an index stays inside the ring, and distinct indices stay
\* distinct (the increments of MarkPacketAsRead and GetNextWriteIndex).
LEMMA NextIndexFacts ==
    ASSUME NEW i \in Index, NEW j \in Index
    PROVE  /\ NextIndex(i) \in Index
           /\ NextIndex(i) = NextIndex(j) => i = j
BY NAssumption DEF Index, NextIndex

\* The number of packets in flight is below N, and is zero exactly when the
\* ring is empty (the empty test of IPC_TUNNEL_Read and try_get_read_packet).
LEMMA InFlightRange ==
    ASSUME NEW r \in Index, NEW w \in Index
    PROVE  /\ InFlight(r, w) \in 0 .. N - 1
           /\ InFlight(r, w) = 0 <=> r = w
BY NAssumption DEF Index, InFlight

\* The full test of try_get_write_packet and IPC_TUNNEL_Write says that N - 1
\* packets are in flight; if it fails, a send adds one packet.
LEMMA InFlightSend ==
    ASSUME NEW r \in Index, NEW w \in Index
    PROVE  /\ NextIndex(w) = r <=> InFlight(r, w) = N - 1
           /\ NextIndex(w) # r => InFlight(r, NextIndex(w)) = InFlight(r, w) + 1
BY NAssumption DEF Index, InFlight, NextIndex

\* A read removes one packet from a ring that is not empty.
LEMMA InFlightReceive ==
    ASSUME NEW r \in Index, NEW w \in Index, r # w
    PROVE  InFlight(NextIndex(r), w) = InFlight(r, w) - 1
BY NAssumption DEF Index, InFlight, NextIndex

\* The slots in flight are slots of the ring other than the one at the write
\* index; the write index is the slot after the last of them.
LEMMA SlotsInFlight ==
    ASSUME NEW r \in Index, NEW w \in Index
    PROVE  /\ \A i \in 1 .. InFlight(r, w) :
                 SlotAt(r + i - 1) \in Index /\ SlotAt(r + i - 1) # w
           /\ SlotAt(r + InFlight(r, w)) = w
           /\ SlotAt(r) = r
BY NAssumption DEF Index, InFlight, SlotAt

\* After a read, the packet in place i was the one in place i + 1.
LEMMA SlotsAfterReceive ==
    ASSUME NEW r \in Index, NEW i \in 1 .. N - 1
    PROVE  SlotAt(NextIndex(r) + i - 1) = SlotAt(r + (i + 1) - 1)
BY NAssumption DEF Index, NextIndex, SlotAt

\* Three indices in ring order: going from r to v and on to w is going from
\* r to w.
LEMMA InFlightSplit ==
    ASSUME NEW r \in Index, NEW v \in Index, NEW w \in Index,
           InFlight(r, v) <= InFlight(r, w)
    PROVE  /\ InFlight(v, w) = InFlight(r, w) - InFlight(r, v)
           /\ v # w => /\ NextIndex(v) # r
                       /\ InFlight(r, NextIndex(v)) = InFlight(r, v) + 1
                       /\ InFlight(r, NextIndex(v)) <= InFlight(r, w)
BY NAssumption DEF Index, InFlight, NextIndex

\* Nor does the slot after the last one sent reach the visible write index v
\* while it does not reach r.
LEMMA SentNotVisible ==
    ASSUME NEW r \in Index, NEW v \in Index, NEW w \in Index,
           InFlight(r, v) <= InFlight(r, w), NextIndex(w) # r
    PROVE  NextIndex(w) # v
BY NAssumption DEF Index, InFlight, NextIndex

\* A packet that is sent leaves the packets sent before it as they are.
LEMMA AppendOld ==
    ASSUME NEW S, NEW s \in Seq(S), NEW e \in S, NEW i \in 1 .. Len(s)
    PROVE  Append(s, e)[i] = s[i]
OBVIOUS

\* The packets from r up to w are as many as are in flight, and none exactly
\* when the ring is empty.
LEMMA QueueLen ==
    ASSUME NEW mem, NEW r \in Index, NEW w \in Index
    PROVE  /\ Len(Queue(mem, r, w)) = InFlight(r, w)
           /\ Queue(mem, r, w) = << >> <=> r = w
           /\ \A i \in 1 .. InFlight(r, w) :
                 Queue(mem, r, w)[i] = mem[SlotAt(r + i - 1)]
<1> DEFINE k == InFlight(r, w)
           q == Queue(mem, r, w)
<1>1. k \in Nat /\ (k = 0 <=> r = w)
  BY InFlightRange, NAssumption
<1>2. q = [i \in 1 .. k |-> mem[SlotAt(r + i - 1)]]
  BY DEF Queue
<1> HIDE DEF k, q
<1>3. Len(q) = k
  BY <1>1, <1>2
<1>4. ASSUME k = 0 PROVE q = << >>
  BY <1>2, <1>4
<1>5. ASSUME q = << >> PROVE k = 0
  BY <1>3, <1>5
<1> QED
  BY <1>1, <1>2, <1>3, <1>4, <1>5 DEF k, q

\* They are a sequence of what the slots hold.
LEMMA QueueSeq ==
    ASSUME NEW S, NEW mem \in [Index -> S], NEW r \in Index, NEW w \in Index
    PROVE  Queue(mem, r, w) \in Seq(S)
<1> DEFINE k == InFlight(r, w)
           q == Queue(mem, r, w)
<1>1. k \in Nat
  BY InFlightRange, NAssumption
<1>2. \A i \in 1 .. k : SlotAt(r + i - 1) \in Index
  BY SlotsInFlight
<1>3. q = [i \in 1 .. k |-> mem[SlotAt(r + i - 1)]]
  BY DEF Queue
<1> HIDE DEF k, q
<1>4. q \in [1 .. k -> S]
  BY <1>2, <1>3
<1>5. q \in Seq(S)
  BY <1>1, <1>4
<1> QED
  BY <1>5 DEF q

\* Moving the write index on appends the packet in the slot it leaves.
LEMMA QueueSend ==
    ASSUME NEW S, NEW mem \in [Index -> S], NEW r \in Index, NEW w \in Index,
           NextIndex(w) # r
    PROVE  Queue(mem, r, NextIndex(w)) = Append(Queue(mem, r, w), mem[w])
<1>0. PICK x \in Index : x = NextIndex(w)
  BY NextIndexFacts
<1> DEFINE q == Queue(mem, r, w)
           s == Queue(mem, r, x)
           k == InFlight(r, w)
<1>1. k \in Nat /\ InFlight(r, x) = k + 1
  BY <1>0, InFlightRange, InFlightSend, NAssumption
<1>2. q \in Seq(S) /\ Len(q) = k /\ \A i \in 1 .. k : q[i] = mem[SlotAt(r + i - 1)]
  <2>1. q \in Seq(S)
    BY QueueSeq
  <2>2. Len(q) = k
    BY QueueLen
  <2>3. \A i \in 1 .. k : q[i] = mem[SlotAt(r + i - 1)]
    BY DEF Queue
  <2> QED
    BY <2>1, <2>2, <2>3, Zenon
<1>3. s \in Seq(S) /\ Len(s) = k + 1 /\ \A i \in 1 .. k + 1 : s[i] = mem[SlotAt(r + i - 1)]
  <2>1. s \in Seq(S)
    BY QueueSeq
  <2>2. Len(s) = InFlight(r, x)
    BY QueueLen
  <2>3. \A i \in 1 .. InFlight(r, x) : s[i] = mem[SlotAt(r + i - 1)]
    BY DEF Queue
  <2> QED
    BY <2>1, <2>2, <2>3, <1>1, Zenon
<1>4. SlotAt(r + (k + 1) - 1) = w
  <2>1. SlotAt(r + k) = w
    BY SlotsInFlight
  <2>2. r + (k + 1) - 1 = r + k
    BY <1>1 DEF Index
  <2> QED
    BY <2>1, <2>2
<1>5. mem[w] \in S
  OBVIOUS
<1> HIDE DEF q, s, k
<1>6. Append(q, mem[w]) \in Seq(S) /\ Len(Append(q, mem[w])) = k + 1
  BY <1>1, <1>2, <1>5
<1>7. ASSUME NEW i \in 1 .. k + 1 PROVE s[i] = Append(q, mem[w])[i]
  <2>1. CASE i = k + 1
    BY <2>1, <1>1, <1>2, <1>3, <1>4
  <2>2. CASE i \in 1 .. k
    <3>1. Append(q, mem[w])[i] = q[i]
      BY <2>2, <1>2, <1>5, AppendOld
    <3> QED
      BY <3>1, <2>2, <1>2, <1>3
  <2>3. i = k + 1 \/ i \in 1 .. k
    BY <1>1
  <2> QED
    BY <2>1, <2>2, <2>3
<1>8. s = Append(q, mem[w])
  BY <1>3, <1>6, <1>7, <1>1
<1> QED
  BY <1>0, <1>8 DEF q, s

\* Moving the read index on removes the packet in the slot it leaves.
LEMMA QueueReceive ==
    ASSUME NEW S, NEW mem \in [Index -> S], NEW r \in Index, NEW w \in Index, r # w
    PROVE  /\ Head(Queue(mem, r, w)) = mem[r]
           /\ Queue(mem, NextIndex(r), w) = Tail(Queue(mem, r, w))
<1>0. PICK x \in Index : x = NextIndex(r)
  BY NextIndexFacts
<1> DEFINE q == Queue(mem, r, w)
           s == Queue(mem, x, w)
           k == InFlight(r, w)
<1>1. k \in 1 .. N - 1 /\ InFlight(x, w) = k - 1
  BY <1>0, InFlightRange, InFlightReceive, NAssumption
<1>2. q \in Seq(S) /\ Len(q) = k /\ \A i \in 1 .. k : q[i] = mem[SlotAt(r + i - 1)]
  <2>1. q \in Seq(S)
    BY QueueSeq
  <2>2. Len(q) = k
    BY QueueLen
  <2>3. \A i \in 1 .. k : q[i] = mem[SlotAt(r + i - 1)]
    BY DEF Queue
  <2> QED
    BY <2>1, <2>2, <2>3, Zenon
<1>3. s \in Seq(S) /\ Len(s) = k - 1 /\ \A i \in 1 .. k - 1 : s[i] = mem[SlotAt(x + i - 1)]
  <2>1. s \in Seq(S)
    BY QueueSeq
  <2>2. Len(s) = InFlight(x, w)
    BY QueueLen
  <2>3. \A i \in 1 .. InFlight(x, w) : s[i] = mem[SlotAt(x + i - 1)]
    BY DEF Queue
  <2> QED
    BY <2>1, <2>2, <2>3, <1>1, Zenon
<1>4. SlotAt(r + 1 - 1) = r
  <2>1. SlotAt(r) = r /\ r + 1 - 1 = r
    BY SlotsInFlight DEF Index
  <2> QED
    BY <2>1
<1>5. \A i \in 1 .. k - 1 : SlotAt(x + i - 1) = SlotAt(r + (i + 1) - 1)
  BY <1>0, <1>1, SlotsAfterReceive, NAssumption
<1> HIDE DEF q, s, k
<1>6. k \in Nat /\ k >= 1
  BY <1>1, NAssumption
<1>7. Tail(q) \in Seq(S) /\ Len(Tail(q)) = k - 1 /\ \A i \in 1 .. k - 1 : Tail(q)[i] = q[i + 1]
  BY <1>2, <1>6
<1>8. ASSUME NEW i \in 1 .. k - 1 PROVE s[i] = Tail(q)[i]
  <2>1. i + 1 \in 1 .. k
    BY <1>6
  <2>2. q[i + 1] = mem[SlotAt(r + (i + 1) - 1)]
    BY <2>1, <1>2
  <2>3. s[i] = mem[SlotAt(r + (i + 1) - 1)]
    BY <1>3, <1>5
  <2> QED
    BY <2>2, <2>3, <1>7
<1>9. s = Tail(q)
  BY <1>3, <1>6, <1>7, <1>8
<1>10. Head(q) = mem[r]
  BY <1>2, <1>4, <1>6
<1> QED
  BY <1>0, <1>9, <1>10 DEF q, s

\* A store into the slot at the write index w changes no packet between r
\* and w, whether it lies before or after an index v on the way.
LEMMA QueueKept ==
    ASSUME NEW mem, NEW new, NEW r \in Index, NEW v \in Index, NEW w \in Index,
           InFlight(r, v) <= InFlight(r, w),
           \A i \in Index \ {w} : new[i] = mem[i]
    PROVE  /\ Queue(new, r, v) = Queue(mem, r, v)
           /\ Queue(new, v, w) = Queue(mem, v, w)
<1>1. \A i \in 1 .. InFlight(r, v) : i \in 1 .. InFlight(r, w)
  BY InFlightRange, NAssumption
<1>2. \A i \in 1 .. InFlight(r, v) : new[SlotAt(r + i - 1)] = mem[SlotAt(r + i - 1)]
  BY <1>1, SlotsInFlight
<1>3. \A i \in 1 .. InFlight(v, w) : new[SlotAt(v + i - 1)] = mem[SlotAt(v + i - 1)]
  BY SlotsInFlight
<1> QED
  BY <1>2, <1>3 DEF Queue

-----------------------------------------------------------------------------
(* The invariant.                                                          *)

\* The visible write index lies between the read index and CPU0's own.
IndexOrder ==
    InFlight(cpu1_read_index, cpu0_write_index)
        <= InFlight(cpu1_read_index, own_write_index)

\* While dev_write runs, its slot is the one at its own write index, and the
\* ring has room for it.
ClaimInv ==
    Writing => /\ write = [packet |-> own_write_index,
                           next |-> NextIndex(own_write_index)]
               /\ NextIndex(own_write_index) # cpu1_read_index
               /\ request \in Packets
               /\ Len(sent) < MaxPackets

\* What dev_write has already stored in its slot.
FilledInv ==
    /\ kpc \in {"size", "send"} => slot[own_write_index].data = request.data
    /\ kpc = "send" => slot[own_write_index].size = request.size

\* While CPU1 reads, its slot is the one at its read index, and is in flight.
ReadInv ==
    /\ cpc # "idle" => readIndex = cpu1_read_index
    /\ Reading => cpu1_read_index # cpu0_write_index

\* RingHoldsPending, place by place.
PendingInv ==
    /\ InFlight(cpu1_read_index, own_write_index) = Len(sent) - taken
    /\ \A i \in 1 .. InFlight(cpu1_read_index, own_write_index) :
          slot[SlotAt(cpu1_read_index + i - 1)] = sent[taken + i]

IInv == TypeOK /\ IndexOrder /\ ClaimInv /\ FilledInv /\ ReadInv /\ PendingInv

\* The ring starts empty and nothing has been sent.
LEMMA InitIInv == Init => IInv
<1> SUFFICES ASSUME Init PROVE IInv
  OBVIOUS
<1>1. 0 \in Index /\ InFlight(0, 0) = 0
  BY NAssumption DEF Index, InFlight
<1>2. TypeOK
  BY <1>1, DownlinkAssumption DEF Init, TypeOK, Slots, NoPacket
<1> QED
  BY <1>1, <1>2 DEF Init, IInv, IndexOrder, ClaimInv, FilledInv, ReadInv,
                    PendingInv, Writing, Reading

\* Every step of dev_write and of CPU1's read preserves the invariant.
LEMMA NextIInv == IInv /\ [Next]_vars => IInv'
<1> SUFFICES ASSUME IInv, [Next]_vars PROVE IInv'
  OBVIOUS
<1> DEFINE r == cpu1_read_index
           v == cpu0_write_index
           w == own_write_index
<1> USE DEF IInv
<1>a. /\ r \in Index /\ v \in Index /\ w \in Index
      /\ NextIndex(r) \in Index /\ NextIndex(v) \in Index /\ NextIndex(w) \in Index
  BY NextIndexFacts DEF TypeOK
<1>b. /\ InFlight(r, w) \in 0 .. N - 1 /\ (InFlight(r, w) = 0 <=> r = w)
      /\ InFlight(r, v) \in 0 .. N - 1 /\ (InFlight(r, v) = 0 <=> r = v)
  BY <1>a, InFlightRange
<1>c. N \in Nat \ {0}
  BY NAssumption
<1>1. ASSUME NEW len \in 0 .. MaxSize + 1, DevWriteInvalid(len) PROVE IInv'
  BY <1>1 DEF DevWriteInvalid, ring, cvars, TypeOK, IndexOrder, ClaimInv,
              FilledInv, ReadInv, PendingInv, Writing, Reading
<1>2. CASE DevWriteFull
  BY <1>2 DEF DevWriteFull, ring, cvars, TypeOK, IndexOrder, ClaimInv,
              FilledInv, ReadInv, PendingInv, Writing, Reading
<1>3. ASSUME NEW p \in Packets, DevWriteClaim(p) PROVE IInv'
  <2> USE <1>3 DEF DevWriteClaim, ring, cvars
  <2>1. TypeOK'
    BY <1>a DEF TypeOK
  <2>2. ClaimInv'
    BY DEF ClaimInv, RingFull
  <2> QED
    BY <2>1, <2>2 DEF IndexOrder, FilledInv, ReadInv, PendingInv, Reading
<1>4. CASE CopyFromUserBegin
  <2> USE <1>4 DEF CopyFromUserBegin, cvars
  <2>1. TypeOK'
    BY DEF TypeOK, Slots
  <2>2. PendingInv'
    BY <1>a, SlotsInFlight DEF PendingInv, TypeOK, ClaimInv, Writing
  <2> QED
    BY <2>1, <2>2 DEF IndexOrder, ClaimInv, FilledInv, ReadInv, Writing, Reading
<1>5. CASE CopyFromUserEnd
  <2> USE <1>5 DEF CopyFromUserEnd, cvars
  <2>1. TypeOK'
    BY DEF TypeOK, Slots, Packets, ClaimInv, Writing
  <2>2. PendingInv'
    BY <1>a, SlotsInFlight DEF PendingInv, TypeOK, ClaimInv, Writing
  <2>3. FilledInv'
    BY <1>a DEF FilledInv, TypeOK, Slots, ClaimInv, Writing
  <2> QED
    BY <2>1, <2>2, <2>3 DEF IndexOrder, ClaimInv, ReadInv, Writing, Reading
<1>6. CASE CopyFromUserFault
  BY <1>6, DownlinkAssumption
     DEF CopyFromUserFault, ring, cvars, TypeOK, IndexOrder, ClaimInv,
         FilledInv, ReadInv, PendingInv, Writing, Reading
<1>7. CASE StorePacketSize
  <2> USE <1>7 DEF StorePacketSize, cvars
  <2>1. TypeOK'
    <3>1. request.size \in 0 .. MaxSize
      BY DEF ClaimInv, Writing, Packets
    <3>2. slot' \in [Index -> Slots]
      BY <3>1 DEF TypeOK, Slots
    <3> QED
      BY <3>2 DEF TypeOK
  <2>2. PendingInv'
    BY <1>a, SlotsInFlight DEF PendingInv, TypeOK, ClaimInv, Writing
  <2>3. FilledInv'
    BY <1>a DEF FilledInv, TypeOK, Slots, ClaimInv, Writing
  <2> QED
    BY <2>1, <2>2, <2>3 DEF IndexOrder, ClaimInv, ReadInv, Writing, Reading
<1>8. CASE send_packet
  <2> USE <1>8 DEF send_packet, cvars
  <2>1. own_write_index' = NextIndex(w) /\ NextIndex(w) # r /\ request \in Packets
    BY DEF ClaimInv, Writing
  <2>2. InFlight(r, NextIndex(w)) = InFlight(r, w) + 1
    BY <2>1, <1>a, InFlightSend
  <2>3. slot[w] = request
    <3>1. slot[w] \in Slots
      BY <1>a DEF TypeOK
    <3>2. slot[w].data = request.data /\ slot[w].size = request.size
      BY DEF FilledInv
    <3> QED
      BY <3>1, <3>2, <2>1 DEF Slots, Packets
  <2>4. TypeOK'
    <3>1. sent' \in Seq(Packets) /\ Len(sent') = Len(sent) + 1
      BY <2>1 DEF TypeOK
    <3>2. Len(sent') <= MaxPackets
      BY <3>1, DownlinkAssumption DEF ClaimInv, Writing, TypeOK
    <3> QED
      BY <3>1, <3>2, <2>1, <1>a DEF TypeOK
  <2>5. IndexOrder'
    BY <2>1, <2>2, <1>b, <1>c DEF IndexOrder
  <2>6. PendingInv'
    <3>1. sent' = Append(sent, request) /\ Len(sent') = Len(sent) + 1
      BY DEF TypeOK
    <3>2. ASSUME NEW i \in 1 .. InFlight(r, w) + 1
          PROVE  slot[SlotAt(r + i - 1)] = sent'[taken + i]
      <4>1. CASE i <= InFlight(r, w)
        <5>1. i \in 1 .. InFlight(r, w)
          BY <4>1, <1>b, <1>c
        <5>2. taken + i \in 1 .. Len(sent)
          BY <5>1, <1>b, <1>c DEF PendingInv, TypeOK
        <5>3. sent'[taken + i] = sent[taken + i]
          BY <5>2, <3>1, <2>1, AppendOld DEF TypeOK
        <5>4. slot[SlotAt(r + i - 1)] = sent[taken + i]
          BY <5>1 DEF PendingInv
        <5> QED
          BY <5>3, <5>4
      <4>2. CASE i = InFlight(r, w) + 1
        <5>1. SlotAt(r + i - 1) = w
          BY <4>2, <1>a, <1>b, SlotsInFlight DEF Index
        <5>2. taken + i = Len(sent) + 1
          BY <4>2, <1>b, <1>c DEF PendingInv, TypeOK
        <5> QED
          BY <5>1, <5>2, <3>1, <2>3 DEF TypeOK
      <4>3. i <= InFlight(r, w) \/ i = InFlight(r, w) + 1
        BY <1>b, <1>c
      <4> QED
        BY <4>1, <4>2, <4>3
    <3>3. InFlight(r, w) + 1 = Len(sent') - taken
      BY <3>1, <1>b, <1>c DEF PendingInv, TypeOK
    <3>4. InFlight(r', w') = InFlight(r, w) + 1
      BY <2>1, <2>2
    <3> QED
      BY <3>2, <3>3, <3>4 DEF PendingInv
  <2> QED
    BY <2>4, <2>5, <2>6 DEF ClaimInv, FilledInv, ReadInv, Writing, Reading
<1>9. CASE IndexStoreVisible
  <2> USE <1>9 DEF IndexStoreVisible, kvars, cvars
  <2>1. /\ NextIndex(v) # r
        /\ InFlight(r, NextIndex(v)) <= InFlight(r, w)
    BY <1>a, InFlightSplit DEF IndexOrder
  <2>2. TypeOK'
    BY <1>a DEF TypeOK
  <2> QED
    BY <2>1, <2>2 DEF IndexOrder, ClaimInv, FilledInv, ReadInv, PendingInv,
                      Writing, Reading
<1>10. ASSUME NEW a \in Apis, BeginRead(a) PROVE IInv'
  BY <1>10, DownlinkAssumption
     DEF BeginRead, ring, kvars, TypeOK, IndexOrder, ClaimInv, FilledInv,
         ReadInv, PendingInv, Writing, Reading
<1>11. CASE LoadPacketEarly
  <2> USE <1>11 DEF LoadPacketEarly, ring, kvars
  <2>1. TypeOK'
    BY DEF TypeOK
  <2> QED
    BY <2>1 DEF IndexOrder, ClaimInv, FilledInv, ReadInv, PendingInv, Writing, Reading
<1>12. CASE ReadEmpty
  BY <1>12 DEF ReadEmpty, ring, kvars, TypeOK, IndexOrder, ClaimInv, FilledInv,
               ReadInv, PendingInv, Writing, Reading
<1>13. CASE ReadNonEmpty
  BY <1>13 DEF ReadNonEmpty, RingEmpty, ring, kvars, TypeOK, IndexOrder, ClaimInv,
               FilledInv, ReadInv, PendingInv, Writing, Reading
<1>14. CASE LoadPacketSize
  <2> USE <1>14 DEF LoadPacketSize, ring, kvars
  <2>1. TypeOK'
    <3>1. PICK p \in Loaded : buffer' = [buffer EXCEPT !.size = Clip(p, Room).size]
      OBVIOUS
    <3>2. p \in Slots
      BY DEF Loaded, TypeOK
    <3>3. Clip(p, Room).size \in 0 .. MaxSize
      BY <3>2, DownlinkAssumption DEF Clip, Room, Slots
    <3> QED
      BY <3>1, <3>3 DEF TypeOK, Slots
  <2> QED
    BY <2>1 DEF IndexOrder, ClaimInv, FilledInv, ReadInv, PendingInv, Writing, Reading
<1>15. CASE LoadPacketData
  <2> USE <1>15 DEF LoadPacketData, ring, kvars
  <2>1. TypeOK'
    <3>1. PICK p \in Loaded : buffer' = [buffer EXCEPT !.data = p.data]
      OBVIOUS
    <3>2. p \in Slots
      BY DEF Loaded, TypeOK
    <3> QED
      BY <3>1, <3>2 DEF TypeOK, Slots
  <2> QED
    BY <2>1 DEF IndexOrder, ClaimInv, FilledInv, ReadInv, PendingInv, Writing, Reading
<1>16. CASE MarkPacketAsRead
  <2> USE <1>16 DEF MarkPacketAsRead, kvars
  <2>1. cpu1_read_index' = NextIndex(r) /\ r # v
    BY DEF ReadInv, Reading
  <2>2. r # w
    BY <2>1, <1>b, <1>c DEF IndexOrder
  <2>3. /\ InFlight(NextIndex(r), w) = InFlight(r, w) - 1
        /\ InFlight(NextIndex(r), v) = InFlight(r, v) - 1
    BY <2>1, <2>2, <1>a, InFlightReceive
  <2>4. TypeOK'
    <3>1. got' \in Seq(Slots) /\ taken' \in Nat
      BY DEF TypeOK
    <3> QED
      BY <3>1, <2>1, <1>a DEF TypeOK
  <2>5. IndexOrder'
    BY <2>1, <2>3, <1>b, <1>c DEF IndexOrder
  <2>6. ClaimInv'
    BY <2>1, <2>2, <1>a, NextIndexFacts DEF ClaimInv, Writing
  <2>7. PendingInv'
    <3>1. ASSUME NEW i \in 1 .. InFlight(r, w) - 1
          PROVE  slot[SlotAt(NextIndex(r) + i - 1)] = sent[taken + 1 + i]
      <4>1. i \in 1 .. N - 1 /\ i + 1 \in 1 .. InFlight(r, w)
        BY <1>b, <1>c
      <4>2. SlotAt(NextIndex(r) + i - 1) = SlotAt(r + (i + 1) - 1)
        BY <4>1, <1>a, SlotsAfterReceive
      <4>3. slot[SlotAt(r + (i + 1) - 1)] = sent[taken + (i + 1)]
        BY <4>1 DEF PendingInv
      <4> QED
        BY <4>2, <4>3 DEF TypeOK
    <3> QED
      BY <3>1, <2>1, <2>3, <1>b, <1>c DEF PendingInv, TypeOK
  <2> QED
    BY <2>4, <2>5, <2>6, <2>7 DEF FilledInv, ReadInv, Reading
<1>17. CASE UNCHANGED vars
  BY <1>17 DEF vars, ring, kvars, cvars, TypeOK, IndexOrder, ClaimInv, FilledInv,
               ReadInv, PendingInv, Writing, Reading
<1> QED
  BY <1>1, <1>2, <1>3, <1>4, <1>5, <1>6, <1>7, <1>8, <1>9, <1>10, <1>11, <1>12,
     <1>13, <1>14, <1>15, <1>16, <1>17
     DEF Next, DevWrite, DevWriteStep, ReadStep

\* The invariant holds in every state dev_write and the reads of CPU1 reach.
THEOREM InductiveInvariant == Spec => []IInv
BY InitIInv, NextIInv, PTL DEF Spec

\* The indices exchanged through the control header stay in the ring, and no
\* size or payload outside its type is ever stored or copied.
THEOREM TypeCorrect == Spec => []TypeOK
BY InductiveInvariant, PTL DEF IInv

\* dev_write never fills the slot CPU1 reads, in either build.
THEOREM Exclusion == Spec => []SlotExclusion
<1>1. IInv => SlotExclusion
  <2> SUFFICES ASSUME IInv, Writing, Reading PROVE write.packet # readIndex
    BY DEF SlotExclusion
  <2>1. /\ cpu1_read_index \in Index /\ cpu0_write_index \in Index
        /\ own_write_index \in Index
    BY DEF IInv, TypeOK
  <2>2. cpu1_read_index # own_write_index
    BY <2>1, InFlightRange DEF IInv, IndexOrder, ReadInv
  <2> QED
    BY <2>2 DEF IInv, ClaimInv, ReadInv, Reading
<1> QED
  BY <1>1, InductiveInvariant, PTL

\* The ring holds exactly the packets sent and not yet given back, in both
\* builds: neither a dev_write under way nor one that failed disturbs them.
THEOREM RingContents == Spec => []RingHoldsPending
<1>1. IInv => RingHoldsPending
  <2> SUFFICES ASSUME IInv PROVE RingHoldsPending
    OBVIOUS
  <2> DEFINE k == InFlight(cpu1_read_index, own_write_index)
             rest == SubSeq(sent, taken + 1, Len(sent))
  <2>1. k \in Nat /\ k = Len(sent) - taken /\ taken \in Nat /\ sent \in Seq(Packets)
    BY InFlightRange, NAssumption DEF IInv, TypeOK, PendingInv
  <2>2. rest = [i \in 1 .. k |-> sent[taken + i]]
    BY <2>1
  <2> HIDE DEF k, rest
  <2>3. \A i \in 1 .. k : slot[SlotAt(cpu1_read_index + i - 1)] = sent[taken + i]
    BY DEF IInv, PendingInv, k
  <2> QED
    BY <2>2, <2>3 DEF RingHoldsPending, Queue, k, rest
<1> QED
  BY <1>1, InductiveInvariant, PTL

\* The packet at the read index of a ring that is not empty is the oldest one
\* sent and not given back.
LEMMA OldestInFlight ==
    ASSUME IInv, cpu1_read_index # own_write_index
    PROVE  /\ slot[cpu1_read_index] = sent[taken + 1]
           /\ taken + 1 \in 1 .. Len(sent)
<1> DEFINE r == cpu1_read_index
           w == own_write_index
<1>1. r \in Index /\ w \in Index
  BY DEF IInv, TypeOK
<1>2. InFlight(r, w) \in 1 .. N - 1 /\ SlotAt(r) = r
  BY <1>1, InFlightRange, SlotsInFlight, NAssumption
<1>3. 1 \in 1 .. InFlight(r, w) /\ r + 1 - 1 = r
  BY <1>1, <1>2, NAssumption DEF Index
<1>4. slot[SlotAt(r + 1 - 1)] = sent[taken + 1]
  BY <1>3 DEF IInv, PendingInv
<1> QED
  BY <1>2, <1>3, <1>4, NAssumption DEF IInv, PendingInv, TypeOK

\* What CPU1 has loaded so far, in the cached build, is the packet at its read
\* index, and what it passed on are the packets sent.
LoadedInv ==
    /\ early = << >>
    /\ cpc = "data" => buffer.size = Clip(slot[cpu1_read_index], Room).size
    /\ cpc = "mark" => buffer = Clip(slot[cpu1_read_index], Room)
    /\ Len(got) = taken
    /\ \A i \in 1 .. taken : got[i] \in {sent[i], Clip(sent[i], BufSize)}

\* Without early loads the reader copies what the slot holds while it is in flight.
LEMMA NextLoadedInv ==
    ASSUME Cached
    PROVE  IInv /\ LoadedInv /\ [Next]_vars => LoadedInv'
<1> SUFFICES ASSUME IInv, LoadedInv, [Next]_vars PROVE LoadedInv'
  OBVIOUS
<1> DEFINE r == cpu1_read_index
           w == own_write_index
<1>a. r \in Index /\ w \in Index
  BY DEF IInv, TypeOK
<1>b. /\ Reading => r # w
      /\ taken <= Len(sent)
  <2>1. /\ InFlight(r, w) \in 0 .. N - 1 /\ (InFlight(r, w) = 0 <=> r = w)
        /\ InFlight(r, cpu0_write_index) \in 0 .. N - 1
        /\ InFlight(r, cpu0_write_index) = 0 <=> r = cpu0_write_index
    BY InFlightRange DEF IInv, TypeOK
  <2>2. N \in Nat
    BY NAssumption
  <2>3. Reading => r # w
    BY <2>1, <2>2 DEF IInv, IndexOrder, ReadInv
  <2> QED
    BY <2>1, <2>2, <2>3 DEF IInv, TypeOK, PendingInv
<1>c. r # w => /\ slot[r] = sent[taken + 1]
               /\ taken + 1 \in 1 .. Len(sent)
  BY OldestInFlight
<1>1. ASSUME slot' = slot \/ (\E x : slot' = [slot EXCEPT ![w] = x]),
             UNCHANGED <<cpu1_read_index, cvars>>,
             \/ sent' = sent
             \/ sent' = Append(sent, request) /\ request \in Packets
      PROVE  LoadedInv'
  <2>1. Reading => slot'[r] = slot[r]
    BY <1>1, <1>a, <1>b DEF IInv, TypeOK
  <2>2. \A i \in 1 .. taken : sent'[i] = sent[i]
    BY <1>1, <1>b DEF IInv, TypeOK
  <2> QED
    BY <1>1, <2>1, <2>2 DEF LoadedInv, Reading, Room, cvars
<1>2. CASE DevWrite
  BY <1>1, <1>2 DEF DevWrite, DevWriteInvalid, DevWriteFull, DevWriteClaim, ring
<1>3. CASE DevWriteStep
  <2>1. kpc # "user" => write.packet = w /\ request \in Packets
    BY DEF IInv, ClaimInv, Writing
  <2>2. ASSUME NEW x, slot' = [slot EXCEPT ![w].data = x] \/ slot' = [slot EXCEPT ![w].size = x]
        PROVE  \E y : slot' = [slot EXCEPT ![w] = y]
    BY <2>2
  <2> QED
    BY <1>1, <1>3, <2>1, <2>2
       DEF DevWriteStep, CopyFromUserBegin, CopyFromUserEnd, CopyFromUserFault,
           StorePacketSize, send_packet, ring
<1>4. CASE IndexStoreVisible
  BY <1>1, <1>4 DEF IndexStoreVisible, kvars
<1>5. ASSUME NEW a \in Apis, BeginRead(a) PROVE LoadedInv'
  BY <1>5 DEF BeginRead, LoadedInv, ring, kvars
<1>6. CASE LoadPacketEarly
  BY <1>6 DEF LoadPacketEarly
<1>7. CASE ReadEmpty \/ ReadNonEmpty
  BY <1>7 DEF ReadEmpty, ReadNonEmpty, LoadedInv, ring, kvars
<1>8. Reading => Loaded = {slot[r]}
  BY DEF Loaded, LoadedInv, IInv, ReadInv, Reading
<1>9. CASE LoadPacketSize
  <2>1. buffer' = [buffer EXCEPT !.size = Clip(slot[r], Room).size]
    BY <1>8, <1>9 DEF LoadPacketSize, Reading
  <2>2. buffer'.size = Clip(slot[r], Room).size
    BY <2>1 DEF IInv, TypeOK, Slots
  <2> QED
    BY <1>9, <2>2 DEF LoadPacketSize, LoadedInv, Room, ring, kvars
<1>10. CASE LoadPacketData
  <2>1. buffer' = [buffer EXCEPT !.data = slot[r].data]
    BY <1>8, <1>10 DEF LoadPacketData, Reading
  <2>2. buffer' = Clip(slot[r], Room)
    <3>1. buffer \in Slots /\ slot[r] \in Slots
      BY <1>a DEF IInv, TypeOK
    <3>2. buffer.size = Clip(slot[r], Room).size
      BY <1>10 DEF LoadPacketData, LoadedInv
    <3> QED
      BY <2>1, <3>1, <3>2 DEF Clip, Slots
  <2> QED
    BY <1>10, <2>2 DEF LoadPacketData, LoadedInv, Room, ring, kvars
<1>11. CASE MarkPacketAsRead
  <2> DEFINE p == sent[taken + 1]
  <2>1. /\ buffer = Clip(p, Room)
        /\ p \in Packets
    BY <1>11, <1>b, <1>c DEF MarkPacketAsRead, LoadedInv, Reading, IInv, TypeOK
  <2>2. buffer \in {p, Clip(p, BufSize)} /\ buffer.size > 0
    BY <2>1, DownlinkAssumption DEF Clip, Room, Packets
  <2>3. got' = Append(got, buffer) /\ got \in Seq(Slots) /\ buffer \in Slots
    BY <1>11, <2>2 DEF MarkPacketAsRead, IInv, TypeOK
  <2>4. taken' = taken + 1 /\ taken \in Nat /\ sent' = sent
    BY <1>11 DEF MarkPacketAsRead, kvars, IInv, TypeOK
  <2>5. ASSUME NEW i \in 1 .. taken + 1
        PROVE  got'[i] \in {sent[i], Clip(sent[i], BufSize)}
    <3>1. CASE i = taken + 1
      BY <3>1, <2>2, <2>3, <2>4 DEF LoadedInv
    <3>2. CASE i \in 1 .. taken
      BY <3>2, <2>3, <2>4 DEF LoadedInv
    <3> QED
      BY <3>1, <3>2, <2>4
  <2> QED
    BY <1>11, <2>3, <2>4, <2>5 DEF MarkPacketAsRead, LoadedInv
<1>12. CASE UNCHANGED vars
  BY <1>1, <1>12 DEF vars, ring, kvars
<1> QED
  BY <1>2, <1>3, <1>4, <1>5, <1>6, <1>7, <1>9, <1>10, <1>11, <1>12
     DEF Next, ReadStep

\* In the cached build, CPU1's callbacks are given exactly the packets that
\* dev_write accepted, in order, cut short only by the room they have.
THEOREM DeliveredCached ==
    ASSUME Cached
    PROVE  Spec => []Delivered
<1>1. Init => LoadedInv
  BY DEF Init, LoadedInv
<1>2. IInv /\ LoadedInv => Delivered
  <2> SUFFICES ASSUME IInv, LoadedInv PROVE Delivered
    OBVIOUS
  <2>1. taken <= Len(sent)
    BY InFlightRange, NAssumption DEF IInv, TypeOK, PendingInv
  <2> QED
    BY <2>1 DEF LoadedInv, Delivered
<1> QED
  BY <1>1, <1>2, InductiveInvariant, NextLoadedInv, PTL DEF Spec
\* In the cached build every step of dev_write and of CPU1's read is a step of
\* PacketFifo or leaves the channel as it is.
LEMMA FifoStep ==
    ASSUME Cached
    PROVE  IInv /\ LoadedInv /\ [Next]_vars => [Fifo!Next]_(Fifo!fifoVars)
<1> SUFFICES ASSUME IInv, LoadedInv, [Next]_vars PROVE [Fifo!Next]_(Fifo!fifoVars)
  OBVIOUS
<1> DEFINE r == cpu1_read_index
           v == cpu0_write_index
           w == own_write_index
           T == Queue(slot, v, w)
           Q == Queue(slot, r, v)
<1>a. r \in Index /\ v \in Index /\ w \in Index /\ slot \in [Index -> Slots]
  BY DEF IInv, TypeOK
<1>b. Len(T) + Len(Q) = InFlight(r, w)
  <2>1. Len(T) = InFlight(v, w) /\ Len(Q) = InFlight(r, v)
    BY <1>a, QueueLen
  <2>2. InFlight(v, w) = InFlight(r, w) - InFlight(r, v)
    BY <1>a, InFlightSplit DEF IInv, IndexOrder
  <2>3. InFlight(r, w) \in Int /\ InFlight(r, v) \in Int
    BY <1>a, InFlightRange, NAssumption
  <2> QED
    BY <2>1, <2>2, <2>3
<1>1. ASSUME UNCHANGED <<cpu1_read_index, cpu0_write_index, own_write_index>>,
             \A i \in Index \ {w} : slot'[i] = slot[i]
      PROVE  UNCHANGED <<T, Q>>
  BY <1>1, <1>a, QueueKept DEF IInv, IndexOrder
<1>2. ASSUME UNCHANGED <<ring, got, cret, kret>> PROVE UNCHANGED Fifo!fifoVars
  BY <1>2 DEF Fifo!fifoVars, ring, SendRet
<1>3. ASSUME NEW len \in 0 .. MaxSize + 1, DevWriteInvalid(len) PROVE Fifo!SendError
  BY <1>3 DEF DevWriteInvalid, Fifo!SendError, SendRet, ring, cvars
<1>4. CASE DevWriteFull
  <2>1. InFlight(r, w) = N - 1
    BY <1>4, <1>a, InFlightSend DEF DevWriteFull, RingFull
  <2> QED
    BY <1>4, <1>b, <2>1 DEF DevWriteFull, Fifo!Full, Fifo!Load, Fifo!Next, SendRet, ring, cvars
<1>5. ASSUME NEW p \in Packets, DevWriteClaim(p) PROVE UNCHANGED Fifo!fifoVars
  BY <1>2, <1>5 DEF DevWriteClaim, cvars
<1>6. CASE CopyFromUserBegin \/ CopyFromUserEnd \/ StorePacketSize
  <2>1. write.packet = w
    BY <1>6 DEF CopyFromUserBegin, CopyFromUserEnd, StorePacketSize, IInv, ClaimInv, Writing
  <2>2. \A i \in Index \ {w} : slot'[i] = slot[i]
    BY <1>6, <1>a, <2>1 DEF CopyFromUserBegin, CopyFromUserEnd, StorePacketSize
  <2>3. /\ UNCHANGED <<cpu1_read_index, cpu0_write_index, own_write_index>>
        /\ UNCHANGED <<got, cret, SendRet>>
    BY <1>6 DEF CopyFromUserBegin, CopyFromUserEnd, StorePacketSize, cvars, SendRet
  <2> QED
    BY <1>1, <2>2, <2>3 DEF Fifo!fifoVars
<1>7. CASE CopyFromUserFault
  BY <1>7 DEF CopyFromUserFault, Fifo!SendError, Fifo!Next, SendRet, ring, cvars
<1>8. CASE send_packet
  <2>1. w' = NextIndex(w) /\ NextIndex(w) # r /\ request \in Packets
    BY <1>8 DEF send_packet, IInv, ClaimInv, Writing
  <2>2. slot[w] = request
    <3>1. slot[w] \in Slots
      BY <1>a
    <3>2. slot[w].data = request.data /\ slot[w].size = request.size
      BY <1>8 DEF send_packet, IInv, FilledInv
    <3> QED
      BY <3>1, <3>2, <2>1 DEF Slots, Packets
  <2>3. NextIndex(w) # v
    BY <2>1, <1>a, SentNotVisible DEF IInv, IndexOrder
  <2>4. Queue(slot, v, NextIndex(w)) = Append(T, request)
    BY <2>2, <2>3, <1>a, QueueSend
  <2>5. InFlight(r, w) < N - 1
    BY <2>1, <1>a, InFlightSend, InFlightRange, NAssumption
  <2>6. UNCHANGED <<slot, cpu1_read_index, cpu0_write_index, got, cret>> /\ SendRet' = "sent"
    BY <1>8 DEF send_packet, cvars, SendRet
  <2>7. Fifo!Send(request)
    BY <2>1, <2>4, <2>5, <2>6, <1>b DEF Fifo!Send, Fifo!Load
  <2> QED
    BY <2>1, <2>7 DEF Fifo!Next
<1>9. CASE IndexStoreVisible
  <2>1. v' = NextIndex(v) /\ v # w /\ NextIndex(v) # r
    BY <1>9, <1>a, InFlightSplit DEF IndexStoreVisible, IInv, IndexOrder
  <2>2. Queue(slot, r, NextIndex(v)) = Append(Q, slot[v])
    BY <2>1, <1>a, QueueSend
  <2>3. Head(T) = slot[v] /\ Queue(slot, NextIndex(v), w) = Tail(T)
    BY <2>1, <1>a, QueueReceive
  <2>4. T # << >>
    BY <2>1, <1>a, QueueLen
  <2>5. UNCHANGED <<slot, cpu1_read_index, own_write_index, got, cret, SendRet>>
    BY <1>9 DEF IndexStoreVisible, kvars, cvars, SendRet
  <2> QED
    BY <2>1, <2>2, <2>3, <2>4, <2>5 DEF Fifo!Arrive, Fifo!Next
<1>10. ASSUME NEW a \in Apis, BeginRead(a) PROVE UNCHANGED Fifo!fifoVars
  BY <1>2, <1>10 DEF BeginRead, kvars
<1>11. CASE LoadPacketEarly \/ ReadNonEmpty \/ LoadPacketSize \/ LoadPacketData
  BY <1>2, <1>11 DEF LoadPacketEarly, ReadNonEmpty, LoadPacketSize, LoadPacketData, kvars
<1>12. CASE ReadEmpty
  <2>1. r = v
    BY <1>12 DEF ReadEmpty, RingEmpty, IInv, ReadInv
  <2>2. Q = << >>
    BY <2>1, <1>a, QueueLen
  <2> QED
    BY <1>12, <2>2 DEF ReadEmpty, Fifo!Empty, Fifo!Next, SendRet, ring, kvars
<1>13. CASE MarkPacketAsRead
  <2>1. r' = NextIndex(r) /\ r # v
    BY <1>13 DEF MarkPacketAsRead, IInv, ReadInv, Reading
  <2>2. Head(Q) = slot[r] /\ Queue(slot, NextIndex(r), v) = Tail(Q) /\ Q # << >>
    BY <2>1, <1>a, QueueReceive, QueueLen
  <2>3. buffer = Clip(slot[r], Room) /\ slot[r] \in Slots /\ slot[r].size > 0
    <3>1. slot[r] = sent[taken + 1] /\ taken + 1 \in 1 .. Len(sent)
      <4>1. r # w
        BY <2>1, <1>a, InFlightRange, NAssumption DEF IInv, IndexOrder
      <4> QED
        BY <4>1, OldestInFlight
    <3>2. slot[r] \in Packets
      BY <3>1 DEF IInv, TypeOK
    <3> QED
      BY <3>2, <1>13, <1>a DEF MarkPacketAsRead, LoadedInv, Packets
  <2>4. /\ buffer = [slot[r] EXCEPT !.size = buffer.size]
        /\ buffer.size \in 0 .. slot[r].size
        /\ buffer.size > 0
    BY <2>3, DownlinkAssumption DEF Clip, Room, Slots
  <2>5. got' = Append(got, [Head(Q) EXCEPT !.size = buffer.size])
    BY <1>13, <2>2, <2>4 DEF MarkPacketAsRead
  <2>6. UNCHANGED <<slot, cpu0_write_index, own_write_index, SendRet>> /\ cret' = "got"
    BY <1>13 DEF MarkPacketAsRead, kvars, SendRet
  <2>7. Fifo!Receive(buffer.size)
    BY <2>1, <2>2, <2>5, <2>6 DEF Fifo!Receive
  <2> QED
    BY <2>2, <2>4, <2>7 DEF Fifo!Next
<1>14. CASE UNCHANGED vars
  BY <1>2, <1>14 DEF vars, kvars, cvars
<1> QED
  BY <1>3, <1>4, <1>5, <1>6, <1>7, <1>8, <1>9, <1>10, <1>11, <1>12, <1>13, <1>14
     DEF Next, DevWrite, DevWriteStep, ReadStep, Fifo!Next

\* In the cached build dev_write and IPC_TUNNEL_Read are a FIFO of N - 1 packets:
\* "full" is reported by a full channel only, "empty" by an empty one only, and a
\* call that fails changes nothing.
THEOREM Implements ==
    ASSUME Cached
    PROVE  Spec => ImplementsFifo
<1>1. Init => Fifo!Init /\ LoadedInv
  <2> SUFFICES ASSUME Init PROVE Fifo!Init /\ LoadedInv
    OBVIOUS
  <2>1. 0 \in Index
    BY NAssumption DEF Index
  <2>2. Queue(slot, 0, 0) = << >>
    BY <2>1, QueueLen
  <2> QED
    BY <2>2 DEF Init, LoadedInv, Fifo!Init, SendRet
<1> QED
  BY <1>1, InductiveInvariant, NextLoadedInv, FifoStep, PTL
     DEF Spec, ImplementsFifo, Fifo!Spec
==============================================================================
