------------------------------- MODULE OpenAmp -------------------------------
(***************************************************************************)
(* The OpenAMP variant on CPU1 once the scheduler runs: Linux puts         *)
(* messages for channel 0 on the virtio ring and kicks; whichever of T0,   *)
(* T1 and T2 reads a channel first polls the ring for all channels, and    *)
(* buffers what it finds for channel 0 until T0 reads that channel.  The   *)
(* tasks share CPU1 by nested interrupts: one that starts runs to its end  *)
(* before the one it interrupted goes on.  Linux opens channel 0 only, so  *)
(* the other two channels carry nothing, and a write to them returns an    *)
(* error before it takes the lock.                                         *)
(*                                                                         *)
(* A message is its number in the order in which Linux sent it.  The lock  *)
(* of the device is a spinlock: a task that waits for it keeps the CPU.    *)
(* Nothing keeps T0 from coming while another task is in one of the two    *)
(* places where the code needs it not to; raced remembers that it did, and *)
(* what the variant promises is stated for the time before.                *)
(***************************************************************************)
EXTENDS Integers, Sequences, FiniteSets, SequencesExt

CONSTANTS PACKET_BUFFER_SIZE,   \* packets that wait for T0
          TxBuffers,            \* buffers for messages to Linux
          Ticks,                \* times rpmsg_send looks for a buffer
          MaxMessages           \* bound: messages Linux sends

Tasks == {"T0", "T1", "T2"}
Messages == 1 .. MaxMessages

ASSUME OpenAmpAssumption ==
          /\ {PACKET_BUFFER_SIZE, TxBuffers} \subseteq Nat \ {0}
          /\ {Ticks, MaxMessages} \subseteq Nat

VARIABLES vring,        \* messages for CPU1 on the virtio ring
          sgi,          \* the kick interrupt is pending at CPU1
          nokick,       \* no kick since the ring was last polled
          lock,         \* holder of rdev->lock, or "free"
          txavail,      \* buffers CPU1 may fill
          txfilled,     \* buffers filled for Linux
          packets,      \* the packet buffer of channel 0
          packetsBegin,
          packetsEnd,   \* PACKET_BUFFER_SIZE when the buffer is full
          cb,           \* channel 0 has a read callback
          active,       \* tasks that have started, the running one first
          pc,           \* where each task stands
          rp_hdr,       \* the message each task took off the ring
          tick_count,   \* of T0's rpmsg_send
          raced,        \* T0 has come where it must not
          sent,         \* messages Linux has sent
          handled,      \* messages given to T0's handler
          dropped       \* messages reported as dropped

ring == <<vring, sgi, nokick>>
tx == <<txavail, txfilled, tick_count>>
buffer == <<packets, packetsBegin, packetsEnd>>
history == <<raced, sent, handled, dropped>>
vars == <<ring, lock, tx, buffer, cb, active, pc, rp_hdr, history>>

Init == /\ vring = << >> /\ sgi = FALSE /\ nokick = TRUE
        /\ lock = "free"
        /\ txavail = TxBuffers /\ txfilled = 0 /\ tick_count = 0
        /\ packets = [k \in 0 .. PACKET_BUFFER_SIZE - 1 |-> 0]
        /\ packetsBegin = 0 /\ packetsEnd = 0
        /\ cb = FALSE
        /\ active = << >>
        /\ pc = [t \in Tasks |-> "idle"]
        /\ rp_hdr = [t \in Tasks |-> 0]
        /\ raced = FALSE /\ sent = 0 /\ handled = << >> /\ dropped = {}

-----------------------------------------------------------------------------
(* Linux: a message is put on the ring and CPU1 is kicked; a message from  *)
(* CPU1 is read and its buffer given back.                                 *)

LinuxSend == /\ sent < MaxMessages
             /\ sent' = sent + 1
             /\ vring' = Append(vring, sent')
             /\ sgi' = TRUE
             /\ UNCHANGED <<nokick, lock, tx, buffer, cb, active, pc, rp_hdr, raced, handled, dropped>>

LinuxReceive == /\ txfilled > 0
                /\ txfilled' = txfilled - 1
                /\ txavail' = txavail + 1
                /\ UNCHANGED <<ring, lock, tick_count, buffer, cb, active, pc, rp_hdr, history>>

-----------------------------------------------------------------------------
(* Interrupts of CPU1.  The kick has the lowest priority of all and waits  *)
(* until no task is active.                                                *)

Priority == [T0 |-> 0, T1 |-> 16, T2 |-> 24]

Running(t) == active # << >> /\ Head(active) = t

(* Where T0 must not come, whichever tasks it interrupts: while one holds  *)
(* the lock, which T0 would wait for, and while one moves the end of the   *)
(* packet buffer, which T0 empties.                                        *)
Delicate(t) == lock = t \/ pc[t] \in {"inc", "wrap", "full", "mark"}

zynq_a9_proc_irq_handler == /\ sgi /\ active = << >>
                            /\ sgi' = FALSE
                            /\ nokick' = FALSE
                            /\ UNCHANGED <<vring, lock, tx, buffer, cb, active, pc, rp_hdr, history>>

StartTask(t) ==
    /\ active # << >> => Priority[t] < Priority[Head(active)]
    /\ active' = <<t>> \o active
    /\ pc' = [pc EXCEPT ![t] = IF t = "T0" THEN "drain" ELSE "poll"]
    /\ raced' = (raced \/ (t = "T0" /\ \E u \in Tasks : Delicate(u)))
    /\ UNCHANGED <<ring, lock, tx, buffer, cb, rp_hdr, sent, handled, dropped>>

Go(t, to) == pc' = [pc EXCEPT ![t] = to]
At(t, from) == Running(t) /\ pc[t] = from

-----------------------------------------------------------------------------
(* ReadChannel, for T0: what was buffered, then what is still on the ring. *)

NextIndexUnwrapped(k) == k + 1
NextIndex(k) == IF k + 1 = PACKET_BUFFER_SIZE THEN 0 ELSE k + 1
NotFullEmpty(begin) == begin
NotFull(begin) == IF begin - 1 < 0 THEN PACKET_BUFFER_SIZE - 1 ELSE begin - 1

Drain == /\ At("T0", "drain")
         /\ packetsBegin # packetsEnd
         /\ handled' = Append(handled, packets[packetsBegin])
         /\ packetsBegin' = NextIndex(packetsBegin)
         /\ packetsEnd' = IF packetsEnd = PACKET_BUFFER_SIZE THEN NotFull(packetsBegin')
                          ELSE packetsEnd
         /\ UNCHANGED <<ring, lock, tx, packets, cb, active, pc, rp_hdr, raced, sent, dropped>>

Drained == /\ At("T0", "drain")
           /\ packetsBegin = packetsEnd
           /\ cb' = TRUE
           /\ Go("T0", "poll")
           /\ UNCHANGED <<ring, lock, tx, buffer, active, rp_hdr, history>>

platform_poll_noblock(t) == /\ At(t, "poll")
                            /\ nokick' = TRUE
                            /\ Go(t, IF nokick THEN "done" ELSE "get")
                            /\ UNCHANGED <<vring, sgi, lock, tx, buffer, cb, active, rp_hdr, history>>

(* The end of ReadChannel.  T0 goes on to send its packet; the other two   *)
(* tasks end.                                                              *)
ReadDone(t) == /\ At(t, "done")
               /\ IF t = "T0" THEN /\ cb' = FALSE /\ tick_count' = Ticks
                                   /\ Go(t, "tx") /\ UNCHANGED active
                  ELSE /\ Go(t, "idle") /\ active' = Tail(active)
                       /\ UNCHANGED <<cb, tick_count>>
               /\ UNCHANGED <<ring, lock, txavail, txfilled, buffer, rp_hdr, history>>

-----------------------------------------------------------------------------
(* rpmsg_virtio_rx_callback.  A task that is Locked holds the lock, and    *)
(* gives it back in the step that asks.                                    *)

metal_mutex_acquire(t) == /\ Running(t) /\ pc[t] \in {"get", "lookup", "return", "tx", "enqueue"}
                          /\ lock = "free"
                          /\ lock' = t
                          /\ UNCHANGED <<ring, tx, buffer, cb, active, pc, rp_hdr, history>>

Locked(t, at) == At(t, at) /\ lock = t /\ lock' = "free"

TakeMessageOnce(t) == /\ rp_hdr' = [rp_hdr EXCEPT ![t] = IF pc[t] = "return" \/ vring = << >> THEN 0 ELSE Head(vring)]
                      /\ vring' = IF pc[t] = "return" \/ vring = << >> THEN vring ELSE Tail(vring)
                      /\ Go(t, IF pc[t] = "return" \/ vring = << >> THEN "done" ELSE "lookup")
TakeMessage(t) == /\ rp_hdr' = [rp_hdr EXCEPT ![t] = IF vring = << >> THEN 0 ELSE Head(vring)]
                  /\ vring' = IF vring = << >> THEN vring ELSE Tail(vring)
                  /\ Go(t, IF vring = << >> THEN "done" ELSE "lookup")

rpmsg_virtio_get_rx_buffer(t) == /\ Locked(t, "get")
                                 /\ TakeMessage(t)
                                 /\ UNCHANGED <<sgi, nokick, tx, buffer, cb, active, history>>

rpmsg_get_ept_from_addr(t) == /\ Locked(t, "lookup")
                              /\ Go(t, "call")
                              /\ UNCHANGED <<ring, tx, buffer, cb, active, rp_hdr, history>>

rpmsg_virtio_return_buffer(t) == /\ Locked(t, "return")
                                 /\ TakeMessage(t)
                                 /\ UNCHANGED <<sgi, nokick, tx, buffer, cb, active, history>>

-----------------------------------------------------------------------------
(* rpmsg_endpoint_cb: hand the message to T0's handler, buffer it, or drop *)
(* it.  Buffering is done in the steps between which T0 may come.          *)

IsFullEarly == packetsEnd >= PACKET_BUFFER_SIZE - 1
IsFull == packetsEnd = PACKET_BUFFER_SIZE

CallDirect(t) == /\ At(t, "call")
                 /\ cb
                 /\ handled' = Append(handled, rp_hdr[t])
                 /\ Go(t, "return")
                 /\ UNCHANGED <<ring, lock, tx, buffer, cb, active, rp_hdr, raced, sent, dropped>>

CallDrop(t) == /\ At(t, "call")
               /\ ~ cb /\ IsFull
               /\ dropped' = dropped \cup {rp_hdr[t]}
               /\ Go(t, "return")
               /\ UNCHANGED <<ring, lock, tx, buffer, cb, active, rp_hdr, raced, sent, handled>>

CallBuffer(t) == /\ At(t, "call")
                 /\ ~ cb /\ ~ IsFull
                 /\ Go(t, "copy")
                 /\ UNCHANGED <<ring, lock, tx, buffer, cb, active, rp_hdr, history>>

Copy(t) == /\ At(t, "copy")
           /\ packets' = [packets EXCEPT ![packetsEnd] = rp_hdr[t]]
           /\ Go(t, "inc")
           /\ UNCHANGED <<ring, lock, tx, packetsBegin, packetsEnd, cb, active, rp_hdr, history>>

(* Every move of packetsEnd is one step of the task at its own place.      *)
MoveEnd(t, from, end, to) == /\ At(t, from)
                             /\ packetsEnd' = end
                             /\ Go(t, to)
                             /\ UNCHANGED <<ring, lock, tx, packets, packetsBegin, cb, active, rp_hdr, history>>

Increment(t) == MoveEnd(t, "inc", packetsEnd + 1, "wrap")
WrapEnd(t) == MoveEnd(t, "wrap", IF packetsEnd = PACKET_BUFFER_SIZE THEN 0 ELSE packetsEnd, "full")
TestFullNever(t) == MoveEnd(t, "full", packetsEnd, "return")
TestFull(t) == MoveEnd(t, "full", packetsEnd, IF packetsBegin = packetsEnd THEN "mark" ELSE "return")
MarkFull(t) == MoveEnd(t, "mark", PACKET_BUFFER_SIZE, "return")

-----------------------------------------------------------------------------
(* rpmsg_send, for T0: wait for a buffer, fill it, enqueue it and kick     *)
(* Linux.  T0 ends when it has sent its packet or given up.                *)

FinishT0 == Go("T0", "idle") /\ active' = Tail(active)

NextTick(n) == n - 1

rpmsg_virtio_get_tx_buffer == /\ Locked("T0", "tx")
                              /\ txavail > 0
                              /\ txavail' = txavail - 1
                              /\ Go("T0", "enqueue")
                              /\ UNCHANGED <<ring, txfilled, tick_count, buffer, cb, active, rp_hdr, history>>

metal_sleep_usec == /\ Locked("T0", "tx")
                    /\ txavail = 0 /\ tick_count > 0
                    /\ tick_count' = NextTick(tick_count)
                    /\ UNCHANGED <<ring, txavail, txfilled, buffer, cb, active, pc, rp_hdr, history>>

NoBuffer == /\ Locked("T0", "tx")
            /\ txavail = 0 /\ tick_count = 0
            /\ FinishT0
            /\ UNCHANGED <<ring, tx, buffer, cb, rp_hdr, history>>

rpmsg_virtio_enqueue_buffer == /\ Locked("T0", "enqueue")
                               /\ txfilled' = txfilled + 1
                               /\ FinishT0
                               /\ UNCHANGED <<ring, txavail, tick_count, buffer, cb, rp_hdr, history>>

-----------------------------------------------------------------------------
Receive(t) == \/ metal_mutex_acquire(t)
              \/ platform_poll_noblock(t) \/ ReadDone(t)
              \/ rpmsg_virtio_get_rx_buffer(t) \/ rpmsg_get_ept_from_addr(t)
              \/ rpmsg_virtio_return_buffer(t)
              \/ CallDirect(t) \/ CallDrop(t) \/ CallBuffer(t)
              \/ Copy(t) \/ Increment(t) \/ WrapEnd(t) \/ TestFull(t) \/ MarkFull(t)

Step(t) == \/ Receive(t)
           \/ /\ t = "T0"
              /\ \/ Drain \/ Drained
                 \/ rpmsg_virtio_get_tx_buffer \/ metal_sleep_usec \/ NoBuffer
                 \/ rpmsg_virtio_enqueue_buffer

Next == \/ LinuxSend \/ LinuxReceive \/ zynq_a9_proc_irq_handler
        \/ \E t \in Tasks : StartTask(t) \/ Step(t)

Spec == Init /\ [][Next]_vars

(* CPU1 goes on with the task that runs; a task that is interrupted        *)
(* again and again still gets on, because T0 takes less than its period;   *)
(* the timer starts T0 for ever, and a pending kick is taken in one of the *)
(* moments in which no task is active.  Nothing is asked of Linux.         *)
FairSpec == /\ Spec
            /\ \A t \in Tasks : SF_vars(Step(t))
            /\ SF_vars(StartTask("T0"))
            /\ SF_vars(zynq_a9_proc_irq_handler)

-----------------------------------------------------------------------------
Places == {"idle", "drain", "poll", "get", "lookup", "call", "copy", "inc", "wrap", "full",
           "mark", "return", "done", "tx", "enqueue"}

(* Type correctness of the variant's state, and of the stack of tasks: a   *)
(* task is on it exactly while it is not idle, the most urgent one first.  *)
TypeOK == /\ vring \in Seq(Messages) /\ {sgi, nokick, cb, raced} \subseteq BOOLEAN
          /\ lock \in Tasks \cup {"free"}
          /\ {txavail, txfilled} \subseteq 0 .. TxBuffers /\ tick_count \in 0 .. Ticks
          /\ packets \in [0 .. PACKET_BUFFER_SIZE - 1 -> 0 .. MaxMessages]
          /\ packetsBegin \in 0 .. PACKET_BUFFER_SIZE - 1
          /\ packetsEnd \in 0 .. PACKET_BUFFER_SIZE
          /\ pc \in [Tasks -> Places] /\ rp_hdr \in [Tasks -> 0 .. MaxMessages]
          /\ {t \in Tasks : pc[t] # "idle"} = ToSet(active)
          /\ \A j \in 1 .. Len(active) - 1 : Priority[active[j]] < Priority[active[j + 1]]
          /\ sent \in 0 .. MaxMessages /\ dropped \subseteq Messages

(* The sequence s lists the members of the set S, each once, smallest first. *)
Lists(s, S) == /\ ToSet(s) = S
               /\ \A j, k \in 1 .. Len(s) : j < k => s[j] < s[k]

(* T0's handler gets what Linux sent once, in order, and without a gap     *)
(* that was not reported as a dropped packet, although some messages come  *)
(* straight from the ring and some through the packet buffer that another  *)
(* task filled, unless T0 has raced.                                       *)
InOrder == ~ raced /\ handled # << >> => Lists(handled, (1 .. Last(handled)) \ dropped)

(* Messages taken off the ring that have been neither handled nor dropped, *)
(* the one a task still holds in its hands left out.                       *)
InHand == {rp_hdr[t] : t \in {u \in Tasks : pc[u] \in {"lookup", "call", "copy"}}}
Waiting == {m \in 1 .. sent - Len(vring) : m \notin ToSet(handled) \cup dropped \cup InHand}

Moving == \E t \in Tasks : pc[t] \in {"inc", "wrap", "full", "mark"}

BufferedCount == IF packetsEnd = PACKET_BUFFER_SIZE THEN PACKET_BUFFER_SIZE
                 ELSE (packetsEnd - packetsBegin) % PACKET_BUFFER_SIZE

Buffered == [k \in 1 .. BufferedCount |-> packets[(packetsBegin + k - 1) % PACKET_BUFFER_SIZE]]

(* Whenever no task is moving its end, the packet buffer holds the         *)
(* messages that wait for T0, oldest first, whichever task put them there  *)
(* and wherever T0 interrupted it, unless T0 has raced: then an empty      *)
(* buffer may be marked as full, and what it held is delivered again.      *)
BufferHoldsWaiting == ~ raced /\ ~ Moving => Lists(Buffered, Waiting)

(* A message is dropped only when PACKET_BUFFER_SIZE older ones wait for   *)
(* T0, unless T0 has raced.                                                *)
DropsJustified == [][~ raced => \A m \in dropped' \ dropped :
                        Cardinality({w \in Waiting : w < m}) = PACKET_BUFFER_SIZE]_vars

(* What Linux has sent is in the end all handled by T0 or dropped, again   *)
(* and again, although a kick may come while another task empties the      *)
(* ring, and stands for any number of messages, and although T0 answers    *)
(* with rpmsg_send, which must return whether or not Linux reads, unless   *)
(* T0 races: then it may wait for the lock of the task it interrupted.     *)
EventuallyHandled == []<>(raced \/ 1 .. sent \subseteq ToSet(handled) \cup dropped)
==============================================================================
