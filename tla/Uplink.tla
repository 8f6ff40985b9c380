------------------------------- MODULE Uplink -------------------------------
(***************************************************************************)
(* One tunnel in the direction bare metal to Linux.                        *)
(*                                                                         *)
(* The sender is IPC_TUNNEL_Write, or the pair BeginDirectWrite and        *)
(* EndDirectWrite, run on CPU1 from one task.  The receiver is one user    *)
(* thread on CPU0 that calls read, blocking or not, and select on the      *)
(* device.  The sender raises a software generated interrupt on CPU0 after *)
(* it has stored the write index; its handler wakes the sleeping reader.   *)
(*                                                                         *)
(* Every access to shared memory is a step.  A store of cpu1_write_index   *)
(* stays in CPU1's store buffer until a step of its own makes it visible.  *)
(* The builds differ in what may overtake it: SendPacket of the uncached   *)
(* build executes a dsb between the store and the interrupt; in the cached *)
(* build MEMORY_BARRIER is empty, the release store only orders what is    *)
(* before it, and the store to the interrupt controller may be seen first. *)
(* A store of the read index is taken to be visible at once: a delay would *)
(* only keep the ring full longer.  Both builds of the kernel module load  *)
(* the index with a barrier after it, so its packet loads are never early. *)
(***************************************************************************)
EXTENDS RingIndex

CONSTANTS MaxSize,      \* sendPacketMaxSize of CPU1's tunnel
          ReadLens,     \* room a reader may give
          Payloads,     \* contents a task can send
          Junk,         \* contents of a slot that holds no complete data
          Cached,       \* TRUE in the IPC_TUNNEL_CACHED build
          Apis,         \* interfaces CPU1's caller uses
          Calls,        \* system calls the reader makes
          MaxPackets,   \* bound: packets sent in one behaviour
          MaxFaults     \* bound: failed user copies and signals

ASSUME UplinkAssumption ==
          /\ MaxSize \in Nat \ {0}
          /\ ReadLens \subseteq Nat
          /\ Junk \notin Payloads
          /\ Cached \in BOOLEAN
          /\ Apis \subseteq {"write", "direct"}
          /\ Calls \subseteq {"read", "nonblock", "select"}
          /\ MaxPackets \in Nat
          /\ MaxFaults \in Nat

VARIABLES slot,               \* the ring: a size and data in every slot
          cpu1_write_index,   \* of the control header, as CPU0 sees it
          own_write_index,    \* the same as CPU1 sees it: its latest store
          cpu0_read_index,    \* of the control header, stored by CPU0
          cpc,                \* where CPU1's write stands
          api,                \* the interface it was called through
          claim,              \* its slot, and the index it will publish
          request,            \* the packet its caller passed
          cret,               \* outcome of the latest write
          sgi,                \* the interrupt is pending on CPU0
          rpc,                \* where the reader's system call stands
          call,               \* which call it is
          packet,             \* its struct ReadPacket, as slot and next index
          buffer,             \* size and data as copied; size is len before
          waiting,            \* the reader is on read_queue
          woken,              \* it has been made runnable since it checked
          signalled,          \* it has a signal pending
          faults,             \* failed user copies and signals so far
          rret,               \* outcome of the latest dev_read
          polled,             \* select reported POLLIN and no read followed
          sent,               \* history: packets published
          got                 \* history: packets copied to the user

ring == <<slot, cpu1_write_index, own_write_index, cpu0_read_index>>
cvars == <<cpc, api, claim, request, cret, sent>>
wvars == <<waiting, woken, signalled>>
rvars == <<rpc, call, packet, buffer, wvars, faults, rret, polled, got>>
vars == <<ring, cvars, sgi, rvars>>

Packets == [size : 1 .. MaxSize, data : Payloads]
Slots == [size : 0 .. MaxSize, data : Payloads \cup {Junk}]
NoPacket == [size |-> 0, data |-> Junk]

\* The control header is cleared by IPC_TUNNEL_Init; the slots are not.
Init == /\ slot \in [Index -> [size : 0 .. MaxSize, data : {Junk}]]
        /\ cpu1_write_index = 0
        /\ own_write_index = 0
        /\ cpu0_read_index = 0
        /\ cpc = "idle"
        /\ api = "write"
        /\ claim = [packet |-> 0, next |-> 0]
        /\ request = NoPacket
        /\ cret = "none"
        /\ sgi = FALSE
        /\ rpc = "user"
        /\ call = "read"
        /\ packet = [packet |-> 0, next |-> 0]
        /\ buffer = NoPacket
        /\ waiting = FALSE
        /\ woken = FALSE
        /\ signalled = FALSE
        /\ faults = 0
        /\ rret = "none"
        /\ polled = FALSE
        /\ sent = << >>
        /\ got = << >>
-----------------------------------------------------------------------------
(* IPC_TUNNEL_Write and the direct interface, on CPU1 *)

\* A call may start when none is under way; BeginDirectWrite also while its
\* caller holds a slot it has not ended.
MayCall(a) == \/ cpc = "idle"
              \/ cpc \in {"data", "copying", "publish"} /\ api = "direct" /\ a = "direct"

\* A size of 0 or above sendPacketMaxSize is refused.
WriteInvalid(a, size) ==
    /\ MayCall(a)
    /\ size = 0 \/ size > MaxSize
    /\ cret' = "invalid"
    /\ cpc' = "idle"
    /\ UNCHANGED <<ring, api, claim, request, sent, sgi, rvars>>

\* Mutations of RingFull: the test is missing, or keeps two slots free.
RingFullNever == FALSE
RingFullEarly == NextIndex(NextIndex(own_write_index)) = cpu0_read_index

RingFull == NextIndex(own_write_index) = cpu0_read_index

WriteFull(a) ==
    /\ MayCall(a)
    /\ RingFull
    /\ cret' = "full"
    /\ cpc' = "idle"
    /\ UNCHANGED <<ring, api, claim, request, sent, sgi, rvars>>

\* There is a free slot for packet p; the direct interface keeps the index
\* to publish in directWriteIndex.
WriteClaim(a, p) ==
    /\ MayCall(a)
    /\ ~RingFull
    /\ Len(sent) < MaxPackets
    /\ api' = a
    /\ claim' = [packet |-> own_write_index, next |-> NextIndex(own_write_index)]
    /\ request' = p
    /\ cpc' = "size"
    /\ UNCHANGED <<ring, cret, sent, sgi, rvars>>

\* Mutation of StorePacketSize: the size of the packet is not stored.
StorePacketSizeSkipped ==
    /\ cpc = "size"
    /\ cpc' = "data"
    /\ UNCHANGED <<ring, api, claim, request, cret, sent, sgi, rvars>>

\* The size is stored before the data, the opposite of dev_write.
StorePacketSize ==
    /\ cpc = "size"
    /\ slot' = [slot EXCEPT ![claim.packet].size = request.size]
    /\ cpc' = "data"
    /\ UNCHANGED <<cpu1_write_index, own_write_index, cpu0_read_index,
                   api, claim, request, cret, sent, sgi, rvars>>

StoreDataBegin ==
    /\ cpc = "data"
    /\ slot' = [slot EXCEPT ![claim.packet].data = Junk]
    /\ cpc' = "copying"
    /\ UNCHANGED <<cpu1_write_index, own_write_index, cpu0_read_index,
                   api, claim, request, cret, sent, sgi, rvars>>

StoreDataEnd ==
    /\ cpc = "copying"
    /\ slot' = [slot EXCEPT ![claim.packet].data = request.data]
    /\ cpc' = "publish"
    /\ UNCHANGED <<cpu1_write_index, own_write_index, cpu0_read_index,
                   api, claim, request, cret, sent, sgi, rvars>>

\* SendPacket, first half: the store of the write index is issued.
SendPacketStore ==
    /\ cpc = "publish"
    /\ own_write_index' = claim.next
    /\ sent' = Append(sent, request)
    /\ cpc' = "kick"
    /\ UNCHANGED <<slot, cpu1_write_index, cpu0_read_index,
                   api, claim, request, cret, sgi, rvars>>

\* CPU1's oldest pending store of the index becomes visible to CPU0.
IndexStoreVisible ==
    /\ cpu1_write_index # own_write_index
    /\ cpu1_write_index' = NextIndex(cpu1_write_index)
    /\ UNCHANGED <<slot, own_write_index, cpu0_read_index, cvars, sgi, rvars>>

\* Mutation of BarrierDone: the barrier before the interrupt is missing.
BarrierSkipped == TRUE

\* The MEMORY_BARRIER between the index and the interrupt: dsb, or nothing.
BarrierDone == ~Cached => cpu1_write_index = own_write_index

\* SendPacket, second half: the interrupt is raised, the call returns TRUE.
SendPacketKick ==
    /\ cpc = "kick"
    /\ BarrierDone
    /\ sgi' = TRUE
    /\ cret' = "sent"
    /\ cpc' = "idle"
    /\ UNCHANGED <<ring, api, claim, request, sent, rvars>>
-----------------------------------------------------------------------------
(* The interrupt handler of the tunnel, on CPU0 *)

\* Mutation of ipi_notify_handler: it wakes the queue of another tunnel.
ipi_notify_handler_other ==
    /\ sgi
    /\ sgi' = FALSE
    /\ UNCHANGED <<ring, cvars, rvars>>

\* wake_up_interruptible.  A waiter of wait_event is taken off the queue by
\* the wake-up; one of select stays on it.
ipi_notify_handler ==
    /\ sgi
    /\ sgi' = FALSE
    /\ woken' = (woken \/ waiting)
    /\ waiting' = (waiting /\ call = "select")
    /\ UNCHANGED <<ring, cvars, rpc, call, packet, buffer, signalled, faults,
                   rret, polled, got>>
-----------------------------------------------------------------------------
(* dev_read and dev_poll, on CPU0 *)

HasPacket == cpu0_read_index # cpu1_write_index

\* Mutation of ReadPacket: the slot is taken after the index was incremented.
ReadPacketNext == [packet |-> NextIndex(cpu0_read_index), next |-> NextIndex(cpu0_read_index)]

ReadPacket == [packet |-> cpu0_read_index, next |-> NextIndex(cpu0_read_index)]

\* The system call ends with outcome r.
Return(r) ==
    /\ rret' = r
    /\ rpc' = "user"
    /\ waiting' = FALSE
    /\ signalled' = FALSE

DevRead(c, len) ==
    /\ rpc = "user"
    /\ call' = c
    /\ buffer' = [size |-> len, data |-> Junk]
    /\ rpc' = IF c = "select" THEN "prepare" ELSE "first"
    /\ UNCHANGED <<ring, cvars, sgi, packet, wvars, faults, rret, polled, got>>

\* try_get_read_packet succeeds, here or after a wait.
GetPacket ==
    /\ rpc \in {"first", "cond"}
    /\ call # "select"
    /\ HasPacket
    /\ packet' = ReadPacket
    /\ waiting' = FALSE
    /\ rpc' = "size"
    /\ UNCHANGED <<ring, cvars, sgi, call, buffer, woken, signalled, faults,
                   rret, polled, got>>

\* try_get_read_packet fails at once: -EAGAIN, or start to wait.
FirstCheckFails ==
    /\ rpc = "first"
    /\ ~HasPacket
    /\ \/ call = "nonblock" /\ Return("EAGAIN")
       \/ call = "read" /\ rpc' = "prepare" /\ UNCHANGED <<rret, waiting, signalled>>
    /\ UNCHANGED <<ring, cvars, sgi, call, packet, buffer, woken, faults,
                   polled, got>>

\* prepare_to_wait_event, or poll_wait of the first poll.
PrepareToWait ==
    /\ rpc = "prepare"
    /\ waiting' = (call = "select" \/ ~signalled)
    /\ woken' = FALSE
    /\ rpc' = "cond"
    /\ UNCHANGED <<ring, cvars, sgi, call, packet, buffer, signalled, faults,
                   rret, polled, got>>

\* Mutation of PollReady: POLLIN is reported for an empty ring too.
PollReadyAlways ==
    /\ rpc = "cond"
    /\ call = "select"
    /\ polled' = TRUE
    /\ Return(rret)
    /\ UNCHANGED <<ring, cvars, sgi, call, packet, buffer, woken, faults, got>>

\* dev_poll finds data: select returns.
PollReady ==
    /\ rpc = "cond"
    /\ call = "select"
    /\ HasPacket
    /\ polled' = TRUE
    /\ Return(rret)
    /\ UNCHANGED <<ring, cvars, sgi, call, packet, buffer, woken, faults, got>>

\* No data after queueing: -EINTR with a signal pending, else go to sleep.
CondCheckFails ==
    /\ rpc = "cond"
    /\ ~HasPacket
    /\ \/ signalled /\ Return("EINTR")
       \/ ~signalled /\ rpc' = "sleep" /\ UNCHANGED <<rret, waiting, signalled>>
    /\ UNCHANGED <<ring, cvars, sgi, call, packet, buffer, woken, faults,
                   polled, got>>

\* schedule() returns once the reader has been made runnable.
WakeUp ==
    /\ rpc = "sleep"
    /\ woken
    /\ rpc' = IF call = "select" THEN "cond" ELSE "prepare"
    /\ woken' = FALSE
    /\ UNCHANGED <<ring, cvars, sgi, call, packet, buffer, waiting, signalled,
                   faults, rret, polled, got>>

\* A signal reaches a reader that waits.
Signal ==
    /\ rpc \in {"prepare", "cond", "sleep"}
    /\ ~signalled
    /\ faults < MaxFaults
    /\ faults' = faults + 1
    /\ signalled' = TRUE
    /\ woken' = TRUE
    /\ UNCHANGED <<ring, cvars, sgi, rpc, call, packet, buffer, waiting, rret,
                   polled, got>>

\* rx is the packet's size, limited to len.
LoadPacketSize ==
    /\ rpc = "size"
    /\ buffer' = [buffer EXCEPT !.size = Clip(slot[packet.packet], buffer.size).size]
    /\ rpc' = "data"
    /\ UNCHANGED <<ring, cvars, sgi, call, packet, wvars, faults, rret, polled, got>>

CopyToUser ==
    /\ rpc = "data"
    /\ buffer' = [buffer EXCEPT !.data = slot[packet.packet].data]
    /\ rpc' = "mark"
    /\ UNCHANGED <<ring, cvars, sgi, call, packet, wvars, faults, rret, polled, got>>

\* Mutation of CopyToUserFault: the packet is marked as read all the same.
CopyToUserFaultConsumes ==
    /\ rpc = "data"
    /\ faults < MaxFaults
    /\ faults' = faults + 1
    /\ cpu0_read_index' = packet.next
    /\ Return("EFAULT")
    /\ UNCHANGED <<slot, cpu1_write_index, own_write_index, cvars, sgi, call, packet,
                   buffer, woken, polled, got>>

\* copy_to_user fails: -EFAULT, and the packet stays in the ring.
CopyToUserFault ==
    /\ rpc = "data"
    /\ faults < MaxFaults
    /\ faults' = faults + 1
    /\ Return("EFAULT")
    /\ UNCHANGED <<ring, cvars, sgi, call, packet, buffer, woken, polled, got>>

\* mark_packet_as_read gives the slot back; dev_read returns rx.
mark_packet_as_read ==
    /\ rpc = "mark"
    /\ cpu0_read_index' = packet.next
    /\ got' = Append(got, buffer)
    /\ polled' = FALSE
    /\ Return("got")
    /\ UNCHANGED <<slot, cpu1_write_index, own_write_index, cvars, sgi, call,
                   packet, buffer, woken, faults>>
-----------------------------------------------------------------------------
IPC_TUNNEL_Write(a) ==
    \/ \E size \in 0 .. MaxSize + 1 : WriteInvalid(a, size)
    \/ WriteFull(a)
    \/ \E p \in Packets : WriteClaim(a, p)

WriteStep == \/ StorePacketSize
             \/ StoreDataBegin
             \/ StoreDataEnd
             \/ SendPacketStore
             \/ SendPacketKick

UserCall == \E c \in Calls, len \in ReadLens : DevRead(c, len)
UserReads == \E c \in Calls \ {"select"}, len \in ReadLens : DevRead(c, len)

ReadStep == \/ GetPacket
            \/ FirstCheckFails
            \/ PrepareToWait
            \/ PollReady
            \/ CondCheckFails
            \/ WakeUp
            \/ LoadPacketSize
            \/ CopyToUser
            \/ CopyToUserFault
            \/ mark_packet_as_read

Next == \/ \E a \in Apis : IPC_TUNNEL_Write(a)
        \/ WriteStep
        \/ IndexStoreVisible
        \/ ipi_notify_handler
        \/ UserCall
        \/ ReadStep
        \/ Signal

Spec == Init /\ [][Next]_vars

\* A started call goes on, a store leaves the store buffer, a pending
\* interrupt is taken, and the reader reads again after it returns, however
\* often it calls select in between.  Nothing obliges CPU1 to send, and nothing
\* ends a sleep but a wake-up.
FairSpec == /\ Spec
            /\ WF_vars(WriteStep)
            /\ WF_vars(IndexStoreVisible)
            /\ WF_vars(ipi_notify_handler)
            /\ SF_vars(UserReads)
            /\ WF_vars(ReadStep)
-----------------------------------------------------------------------------
(* Properties *)

FlagsOK == \A flag \in {sgi, waiting, woken, signalled, polled} : flag \in BOOLEAN

\* Every variable has its type: the indices CPU0 and CPU1 exchange stay
\* inside the ring (try_get_read_packet, GetNextWriteIndex).
TypeOK ==
    /\ slot \in [Index -> Slots]
    /\ cpu1_write_index \in Index
    /\ own_write_index \in Index
    /\ cpu0_read_index \in Index
    /\ cpc \in {"idle", "size", "data", "copying", "publish", "kick"}
    /\ api \in {"write", "direct"}
    /\ claim \in [packet : Index, next : Index]
    /\ request \in Packets \cup {NoPacket}
    /\ cret \in {"none", "invalid", "full", "sent"}
    /\ rpc \in {"user", "first", "prepare", "cond", "sleep", "size", "data", "mark"}
    /\ call \in {"read", "nonblock", "select"}
    /\ packet \in [packet : Index, next : Index]
    /\ buffer \in [size : Nat, data : Payloads \cup {Junk}]
    /\ FlagsOK
    /\ faults \in 0 .. MaxFaults
    /\ rret \in {"none", "EAGAIN", "EINTR", "EFAULT", "got"}
    /\ sent \in Seq(Packets) /\ Len(sent) <= MaxPackets
    /\ got \in Seq([size : Nat, data : Payloads \cup {Junk}])

Writing == cpc \in {"size", "data", "copying", "publish"}
Reading == rpc \in {"size", "data", "mark"}

\* CPU1 never fills the slot dev_read is copying from, although neither side
\* takes a lock: the ring is full one slot before it wraps.
SlotExclusion == Writing /\ Reading => claim.packet # packet.packet

\* The ring holds exactly the packets that were sent and not yet marked as
\* read, whole and in order, whatever a write that is under way or a direct
\* write that was given up left in the other slots.
RingHoldsPending ==
    Queue(slot, cpu0_read_index, own_write_index)
        = SubSeq(sent, Len(got) + 1, Len(sent))

\* What dev_read returned is what was sent: in order, without loss or
\* duplication by -EFAULT or -EINTR, cut short only by the reader's room.
Delivered ==
    /\ Len(got) <= Len(sent)
    /\ \A i \in 1 .. Len(got) : \E len \in ReadLens : got[i] = Clip(sent[i], len)

\* After select has reported POLLIN, a nonblocking read finds a packet.
PollKept == polled => HasPacket

\* A reader never sleeps on a packet it could read, unless the interrupt
\* that will wake it is pending or CPU1 is about to raise it.
NoLostWakeup == rpc = "sleep" /\ ~woken /\ HasPacket => sgi \/ cpc = "kick"

\* The tunnel implements a bounded FIFO of N - 1 packets.
SendRet == IF cpc = "kick" THEN "sent"
           ELSE IF cret = "invalid" THEN "error" ELSE cret
RecvRet == IF rret \in {"EINTR", "EFAULT"} THEN "error"
           ELSE IF rret = "EAGAIN" THEN "empty" ELSE rret

Fifo == INSTANCE PacketFifo WITH
            Capacity <- N - 1,
            transit <- Queue(slot, cpu1_write_index, own_write_index),
            queue <- Queue(slot, cpu0_read_index, cpu1_write_index),
            sendRet <- SendRet,
            recvRet <- RecvRet

\* IPC_TUNNEL_Write and dev_read together behave as PacketFifo says: a write
\* is refused only by a full ring, -EAGAIN is returned only for an empty one,
\* and every failed call leaves the channel as it was.
ImplementsFifo == Fifo!Spec

\* Every packet IPC_TUNNEL_Write accepted is returned by some dev_read, since
\* the reader calls dev_read again and again: it has caught up with CPU1
\* again and again, the last time after the last of the MaxPackets writes.
EventuallyDelivered == []<>(Len(got) = Len(sent))
==============================================================================
