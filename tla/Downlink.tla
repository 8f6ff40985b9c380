------------------------------ MODULE Downlink ------------------------------
(***************************************************************************)
(* One tunnel in the direction Linux to bare metal.                        *)
(*                                                                         *)
(* The sender is dev_write of the kernel module, run on CPU0 for one user  *)
(* thread.  The receiver is IPC_TUNNEL_Read, or the pair BeginDirectRead   *)
(* and EndDirectRead, run on CPU1 from a periodic task.  The two share the *)
(* slots of the ring and the indices cpu0_write_index (stored by CPU0) and *)
(* cpu1_read_index (stored by CPU1); there is no lock, and no interrupt is *)
(* raised in this direction: CPU1 polls.                                   *)
(*                                                                         *)
(* Every access to shared memory is a step.  A copy of packet data takes   *)
(* two: while it is under way the slot holds Junk.  The index stores are   *)
(* release stores or follow a dsb, so that they become visible after the   *)
(* packet they publish, but nothing makes the sender wait until its store  *)
(* of the write index is visible.  A store of the read index is taken to   *)
(* be visible at once: a delay would only keep the ring full longer.      *)
(* On the side of the loads the builds differ: the cached build loads the  *)
(* index with acquire; the uncached one loads it plainly from Normal       *)
(* memory, and ARMv7 then allows the loads of the packet, which depend on  *)
(* it only by a branch, to be done before it.                              *)
(***************************************************************************)
EXTENDS RingIndex

CONSTANTS MaxSize,      \* send_max_packet_size of the kernel's tunnel
          BufSize,      \* room CPU1's caller passes to IPC_TUNNEL_Read
          Payloads,     \* contents a user can send
          Junk,         \* contents of a slot that holds no complete data
          Cached,       \* TRUE in the IPC_TUNNEL_CACHED build
          Apis,         \* the interfaces CPU1's caller uses
          MaxPackets,   \* bound: packets sent in one behaviour
          MaxFaults     \* bound: user copies that fail in one behaviour

ASSUME DownlinkAssumption ==
          /\ MaxSize \in Nat \ {0}
          /\ BufSize \in Nat \ {0}
          /\ Junk \notin Payloads
          /\ Cached \in BOOLEAN
          /\ Apis \subseteq {"read", "direct"}
          /\ MaxPackets \in Nat
          /\ MaxFaults \in Nat

VARIABLES slot,               \* the ring: a size and data in every slot
          cpu0_write_index,   \* of the control header, stored by CPU0
          own_write_index,    \* the same as CPU0 sees it: its latest store
          cpu1_read_index,    \* of the control header, stored by CPU1
          kpc,                \* where dev_write stands
          write,              \* its struct WritePacket, as slot and next index
          request,            \* the packet its caller passed
          faults,             \* user copies that failed so far
          kret,               \* outcome of the latest dev_write
          cpc,                \* where CPU1's read stands
          api,                \* the interface it was called through
          readIndex,          \* readIndex, kept in directReadIndex by Begin
          early,              \* packet loads done ahead of the index load
          buffer,             \* size and data as CPU1's caller has them
          cret,               \* outcome of the latest read
          sent,               \* history: packets published
          taken,              \* history: number of slots given back
          got                 \* history: packets given to CPU1's caller

ring == <<slot, cpu0_write_index, own_write_index, cpu1_read_index>>
kvars == <<kpc, write, request, faults, kret, sent>>
cvars == <<cpc, api, readIndex, early, buffer, cret, taken, got>>
vars == <<ring, kvars, cvars>>

Packets == [size : 1 .. MaxSize, data : Payloads]
Slots == [size : 0 .. MaxSize, data : Payloads \cup {Junk}]
NoPacket == [size |-> 0, data |-> Junk]

\* The control header is cleared by IPC_TUNNEL_Init; the slots are not.
Init == /\ slot \in [Index -> [size : 0 .. MaxSize, data : {Junk}]]
        /\ cpu0_write_index = 0
        /\ own_write_index = 0
        /\ cpu1_read_index = 0
        /\ kpc = "user"
        /\ write = [packet |-> 0, next |-> 0]
        /\ request = NoPacket
        /\ faults = 0
        /\ kret = "none"
        /\ cpc = "idle"
        /\ api = "read"
        /\ readIndex = 0
        /\ early = << >>
        /\ buffer = NoPacket
        /\ cret = "none"
        /\ sent = << >>
        /\ taken = 0
        /\ got = << >>
-----------------------------------------------------------------------------
(* dev_write, on CPU0 *)

\* A length of 0 returns 0; one above send_max_packet_size returns -EFBIG.
DevWriteInvalid(len) ==
    /\ kpc = "user"
    /\ len = 0 \/ len > MaxSize
    /\ kret' = IF len = 0 THEN "zero" ELSE "EFBIG"
    /\ UNCHANGED <<ring, cvars, kpc, write, request, faults, sent>>

\* Mutations of RingFull: the test is missing, or keeps two slots free.
RingFullNever == FALSE
RingFullEarly == NextIndex(NextIndex(own_write_index)) = cpu1_read_index

RingFull == NextIndex(own_write_index) = cpu1_read_index

\* try_get_write_packet fails: dev_write returns 0.
DevWriteFull ==
    /\ kpc = "user"
    /\ RingFull
    /\ kret' = "full"
    /\ UNCHANGED <<ring, cvars, kpc, write, request, faults, sent>>

\* try_get_write_packet succeeds for packet p.
DevWriteClaim(p) ==
    /\ kpc = "user"
    /\ ~RingFull
    /\ Len(sent) < MaxPackets
    /\ write' = [packet |-> own_write_index, next |-> NextIndex(own_write_index)]
    /\ request' = p
    /\ kpc' = "copy"
    /\ UNCHANGED <<ring, cvars, faults, kret, sent>>

\* copy_from_user starts to overwrite the data of the slot.
CopyFromUserBegin ==
    /\ kpc = "copy"
    /\ slot' = [slot EXCEPT ![write.packet].data = Junk]
    /\ kpc' = "copying"
    /\ UNCHANGED <<cpu0_write_index, own_write_index, cpu1_read_index, cvars, write, request, faults, kret, sent>>

CopyFromUserEnd ==
    /\ kpc = "copying"
    /\ slot' = [slot EXCEPT ![write.packet].data = request.data]
    /\ kpc' = "size"
    /\ UNCHANGED <<cpu0_write_index, own_write_index, cpu1_read_index, cvars, write, request, faults, kret, sent>>

\* The user page is missing: -EFAULT, with the slot half written.
CopyFromUserFault ==
    /\ kpc = "copying"
    /\ faults < MaxFaults
    /\ faults' = faults + 1
    /\ kret' = "EFAULT"
    /\ kpc' = "user"
    /\ UNCHANGED <<ring, cvars, write, request, sent>>

\* Mutation of StorePacketSize: the size of the packet is not stored.
StorePacketSizeSkipped ==
    /\ kpc = "size"
    /\ kpc' = "send"
    /\ UNCHANGED <<ring, cvars, write, request, faults, kret, sent>>

StorePacketSize ==
    /\ kpc = "size"
    /\ slot' = [slot EXCEPT ![write.packet].size = request.size]
    /\ kpc' = "send"
    /\ UNCHANGED <<cpu0_write_index, own_write_index, cpu1_read_index, cvars, write, request, faults, kret, sent>>

\* send_packet publishes the slot; dev_write returns len.
send_packet ==
    /\ kpc = "send"
    /\ own_write_index' = write.next
    /\ sent' = Append(sent, request)
    /\ kret' = "sent"
    /\ kpc' = "user"
    /\ UNCHANGED <<slot, cpu0_write_index, cpu1_read_index, cvars, write, request, faults>>

\* CPU0's oldest pending store of the index becomes visible to CPU1.
IndexStoreVisible ==
    /\ cpu0_write_index # own_write_index
    /\ cpu0_write_index' = NextIndex(cpu0_write_index)
    /\ UNCHANGED <<slot, own_write_index, cpu1_read_index, kvars, cvars>>
-----------------------------------------------------------------------------
(* IPC_TUNNEL_Read and the direct interface, on CPU1 *)

\* The index CPU1 owns is loaded.  BeginDirectRead may be called again by a
\* caller that holds a packet and has not ended its direct read.
BeginRead(a) ==
    /\ \/ cpc = "idle"
       \/ cpc = "mark" /\ api = "direct" /\ a = "direct"
    /\ api' = a
    /\ readIndex' = cpu1_read_index
    /\ early' = << >>
    /\ cpc' = "index"
    /\ UNCHANGED <<ring, kvars, buffer, cret, taken, got>>

\* Uncached build: the packet is loaded ahead of cpu0_write_index.
LoadPacketEarly ==
    /\ ~Cached
    /\ cpc = "index"
    /\ early = << >>
    /\ early' = <<slot[readIndex]>>
    /\ UNCHANGED <<ring, kvars, cpc, api, readIndex, buffer, cret, taken, got>>

\* Mutation of RingEmpty: the last packet is not seen.
RingEmptyEarly == readIndex = cpu0_write_index \/ NextIndex(readIndex) = cpu0_write_index

RingEmpty == readIndex = cpu0_write_index

ReadEmpty ==
    /\ cpc = "index"
    /\ RingEmpty
    /\ cret' = "empty"
    /\ cpc' = "idle"
    /\ UNCHANGED <<ring, kvars, api, readIndex, early, buffer, taken, got>>

ReadNonEmpty ==
    /\ cpc = "index"
    /\ ~RingEmpty
    /\ cpc' = "size"
    /\ UNCHANGED <<ring, kvars, api, readIndex, early, buffer, cret, taken, got>>

\* Mutation of Loaded: the packet after the one at the read index.
LoadedNext == {slot[NextIndex(readIndex)]}

\* The values a load of the packet may return.
Loaded == {slot[readIndex]} \cup {early[i] : i \in 1 .. Len(early)}

\* IPC_TUNNEL_Read limits the size to the room it has; BeginDirectRead does not.
Room == IF api = "read" THEN BufSize ELSE MaxSize

LoadPacketSize ==
    /\ cpc = "size"
    /\ \E p \in Loaded : buffer' = [buffer EXCEPT !.size = Clip(p, Room).size]
    /\ cpc' = "data"
    /\ UNCHANGED <<ring, kvars, api, readIndex, early, cret, taken, got>>

\* The data is copied, or read in place by the caller of BeginDirectRead.
LoadPacketData ==
    /\ cpc = "data"
    /\ \E p \in Loaded : buffer' = [buffer EXCEPT !.data = p.data]
    /\ cpc' = "mark"
    /\ UNCHANGED <<ring, kvars, api, readIndex, early, cret, taken, got>>

\* MarkPacketAsRead gives the slot back; VARIANT_ReadChan then passes a
\* nonempty packet to its callback.
MarkPacketAsRead ==
    /\ cpc = "mark"
    /\ cpu1_read_index' = NextIndex(readIndex)
    /\ taken' = taken + 1
    /\ got' = IF buffer.size > 0 THEN Append(got, buffer) ELSE got
    /\ cret' = "got"
    /\ cpc' = "idle"
    /\ UNCHANGED <<slot, cpu0_write_index, own_write_index, kvars, api, readIndex, early, buffer>>
-----------------------------------------------------------------------------
DevWrite == \/ \E len \in 0 .. MaxSize + 1 : DevWriteInvalid(len)
            \/ DevWriteFull
            \/ \E p \in Packets : DevWriteClaim(p)

DevWriteStep == \/ CopyFromUserBegin
                \/ CopyFromUserEnd
                \/ CopyFromUserFault
                \/ StorePacketSize
                \/ send_packet

ReadStep == \/ ReadEmpty
            \/ ReadNonEmpty
            \/ LoadPacketSize
            \/ LoadPacketData
            \/ MarkPacketAsRead

Next == \/ DevWrite
        \/ DevWriteStep
        \/ IndexStoreVisible
        \/ \E a \in Apis : BeginRead(a)
        \/ LoadPacketEarly
        \/ ReadStep

Spec == Init /\ [][Next]_vars

\* A system call that started goes on, a store leaves the store buffer, and the
\* task that polls runs periodically; a caller that keeps beginning direct reads
\* ends one.  Nothing obliges a user to write.
FairSpec == /\ Spec
            /\ WF_vars(DevWriteStep)
            /\ WF_vars(IndexStoreVisible)
            /\ WF_vars(\E a \in Apis : BeginRead(a))
            /\ WF_vars(ReadStep)
            /\ SF_vars(MarkPacketAsRead)
-----------------------------------------------------------------------------
(* Properties *)

\* Every variable has its type: the indices CPU0 and CPU1 exchange stay
\* inside the ring (try_get_write_packet, MarkPacketAsRead).
TypeOK ==
    /\ slot \in [Index -> Slots]
    /\ cpu0_write_index \in Index
    /\ own_write_index \in Index
    /\ cpu1_read_index \in Index
    /\ kpc \in {"user", "copy", "copying", "size", "send"}
    /\ write \in [packet : Index, next : Index]
    /\ request \in Packets \cup {NoPacket}
    /\ faults \in 0 .. MaxFaults
    /\ kret \in {"none", "zero", "EFBIG", "EFAULT", "full", "sent"}
    /\ cpc \in {"idle", "index", "size", "data", "mark"}
    /\ api \in {"read", "direct"}
    /\ readIndex \in Index
    /\ early \in Seq(Slots) /\ Len(early) <= 1
    /\ buffer \in Slots
    /\ cret \in {"none", "empty", "got"}
    /\ sent \in Seq(Packets) /\ Len(sent) <= MaxPackets
    /\ taken \in Nat
    /\ got \in Seq(Slots)

Writing == kpc # "user"
Reading == cpc \in {"size", "data", "mark"}

\* dev_write never fills the slot that CPU1 is reading, although neither
\* side takes a lock: the ring is full one slot before it wraps.
SlotExclusion == Writing /\ Reading => write.packet # readIndex

\* The ring holds exactly the packets that were sent and whose slots CPU1
\* has not given back, whole and in order, whatever a dev_write that is
\* under way or has failed with -EFAULT left in the other slots.
RingHoldsPending ==
    Queue(slot, cpu1_read_index, own_write_index)
        = SubSeq(sent, taken + 1, Len(sent))

\* What CPU1's callbacks were given is what was sent: in order, without
\* loss, duplication or stale data, cut short only by the callback's room.
Delivered ==
    /\ Len(got) = taken
    /\ taken <= Len(sent)
    /\ \A i \in 1 .. taken :
          got[i] \in {sent[i], Clip(sent[i], BufSize)}

\* The tunnel implements a bounded FIFO of N - 1 packets.
SendRet == IF kret \in {"zero", "EFBIG", "EFAULT"} THEN "error" ELSE kret

Fifo == INSTANCE PacketFifo WITH
            Capacity <- N - 1,
            transit <- Queue(slot, cpu0_write_index, own_write_index),
            queue <- Queue(slot, cpu1_read_index, cpu0_write_index),
            sendRet <- SendRet,
            recvRet <- cret

\* dev_write and IPC_TUNNEL_Read together behave as PacketFifo says: a write
\* is refused only by a full ring, a read finds nothing only in an empty
\* one, and every failed call leaves the channel as it was.
ImplementsFifo == Fifo!Spec

\* Every packet dev_write accepted reaches CPU1's callback, since the task
\* that reads the tunnel is run again and again.
EventuallyDelivered ==
    \A n \in 1 .. MaxPackets : Len(sent) >= n ~> Len(got) >= n
==============================================================================
