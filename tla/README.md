# TLA+ models of the IPC tunnel

The repository measures communication between the two cores of a Zynq-7000:
CPU0 runs Linux, CPU1 runs a bare metal program with periodic tasks. They talk
through *IPC tunnels*: pairs of packet rings in shared memory, a kernel module
on one side and a small C library on the other, with a software generated
interrupt (SGI) towards Linux. One variant of the program exchanges task
variables through a shared memory block, another uses OpenAMP.

This directory holds TLA+ modules of that program, TLC configurations and
TLAPS proofs. `PROJECT.json` maps every definition to the lines it models.

## The system

| part | code | state | operations | interacts with |
|---|---|---|---|---|
| tunnel, Linux to CPU1 | `kernel_module_src/ipc-tunnel.c`, `variants/ipc-tunnel-v3/ipc_tunnel.c` | ring slots, `cpu0_write_index`, `cpu1_read_index` | `dev_write`; `IPC_TUNNEL_Read`, `Begin/EndDirectRead` | shared memory only; CPU1 polls |
| tunnel, CPU1 to Linux | the same | ring slots, `cpu1_write_index`, `cpu0_read_index`, wait queue, pending SGI | `IPC_TUNNEL_Write`, `Begin/EndDirectWrite`; `dev_read`, `dev_poll`, SGI handlers | shared memory, SGI, wait queue |
| T0 shared memory block | `src/application_shm.c`, `app/src/t0dataprocess.hpp` | `updateAtomicCounter`, timestamp, times, variables | `APPLICATION_T0`, `UpdateVariablesFromShm` | shared memory only |
| kernel module lifecycle | `kernel_module_src/ipc-tunnel.c` | devices, mappings, handlers, `is_open` | `ipc_tunnel_init`, `ipc_tunnel_exit`, `dev_open`, `dev_release`, `dev_mmap` | kernel, user processes |
| session | `src/main.c`, `src/application*.c`, `app/src/main.cpp` | `f_initialPacketReceived`, `f_running` on both sides | start packet, task loop, shutdown command | tunnels, scheduler |
| scheduler | `src/scheduler.c`, `src/interrupt.c` | `t1Counter`, `t2Counter`, pending and active interrupts | `TimerT0Interrupt`, `T1Interrupt`, `T2Interrupt`, `SCHEDULER_Init/Stop` | tasks |
| statistics | `app/src/StatsProcessing.hpp` | last iteration number, collected times | `Add` | T0, T1, T2 packets |
| OpenAMP variant | `variants/openamp/variant.c`, `openamp/` | one packet buffer per channel, virtio ring, lock of the device | `rpmsg_endpoint_cb`, `ReadChannel`, `VARIANT_WriteChan`, `platform_poll_noblock` | tasks, vendored OpenAMP |
| tests | `app/unit_tests/`, `unit_tests/` | phase, counters, table of latencies | request and reply loops | tunnels |

What is hard in it: two processors share memory without a lock, on a weakly
ordered architecture, with two builds (`IPC_TUNNEL_CACHED` or not) that place
their barriers differently; a blocking reader depends on an interrupt arriving
after the data; user copies may fail half way; nothing on CPU1 may block.

What makes each part correct:

* **Tunnels.** A packet that was accepted is delivered once, whole and in
  order; neither side touches a slot the other one uses; a failed call changes
  nothing; a reader does not sleep on a packet; `POLLIN` means a read succeeds.
* **T0 block.** A snapshot that was accepted is one update of CPU1, snapshots
  only advance, and the last update is seen.
* **Session.** The start packet starts the scheduler; no variable command is
  lost to a full ring, and effects are seen in order; both programs end.
* **Statistics.** The merged list gives every run once and with its true start
  time; what is missing is counted and explained by drops.
* **Kernel module lifecycle.** What a failed `ipc_tunnel_init` acquired is
  released, once; a file of a loaded module has a tunnel that is ready; one
  process has it open; what it maps is the block of its tunnel.
* **Scheduler.** T0 preempts T1 and T2, which do not preempt each other
  wrongly; a task runs once per period unless it overruns.
* **OpenAMP variant.** A message is given to T0 once and in order, or dropped
  because the buffer is full, whichever task found it; a send returns.
* **Tests.** Both programs stay in the same phase, what is written down is of
  the request it is written down for, and the test ends.

## Modules

| module | models | state and actions |
|---|---|---|
| `RingIndex` | index arithmetic of all ring code | `NextIndex`, `InFlight`, `Queue`, `Clip`; no state |
| `PacketFifo` | what one direction of a tunnel promises | abstract: packets in transit, queue, outcomes of calls |
| `Downlink` | `dev_write` and `IPC_TUNNEL_Read`/`BeginDirectRead`/`EndDirectRead` | `DevWrite...`, `CopyFromUser...`, `StorePacketSize`, `send_packet`; `BeginRead`, `Read...`, `Load...`, `MarkPacketAsRead` |
| `Uplink` | `IPC_TUNNEL_Write`/`BeginDirectWrite`/`EndDirectWrite`, the SGI, `dev_read`, `dev_poll` | `Write...`, `Store...`, `SendPacketStore`, `SendPacketKick`, `ipi_notify_handler`; `DevRead`, the steps of `wait_event_interruptible`, `CopyToUser...`, `mark_packet_as_read` |
| `ShmSeqlock` | `APPLICATION_T0` of `application_shm.c` and `UpdateVariablesFromShm` | one step per load and store of the counter and of a field |
| `Session` | `Execute`, `APPLICATION_*`, the timer, `T0Thread`, `Test` | one step per task run of CPU1, per system call of the application |
| `TaskStats` | the statistics backlog of a task and `StatsProcessing::Add` | `RunTask`, `Receive`, `ReceiveFails` |
| `KernelModule` | `ipc_tunnel_init` with its error labels, `ipc_tunnel_exit`, `dev_open`, `dev_release`, `dev_mmap` | one step per acquisition and per error label; `DevOpen`, `DevOpenTest`/`DevOpenSet`, `DevMmap`, `Close`, `Munmap` |
| `OpenAmp` | `variants/openamp/variant.c` with `platform_poll_noblock`, `rpmsg_virtio_rx_callback` and `rpmsg_virtio_send_offchannel_raw` | one step per access to data that two tasks share; nested tasks |
| `UnitTests` | the latency and the throughput test, both programs of each | one step per packet sent or taken |

`MC*` modules give constants their values for TLC. `*_proofs` modules hold the
theorems of the module they are named after. `Downlink` and `Uplink` extend
`RingIndex` and are each shown to implement `PacketFifo`; `Session`, `TaskStats`
and `UnitTests` use tunnels in the form `PacketFifo` gives them, as bounded
queues.
Definitions whose name extends that of another one, introduced as *Mutation
of*, are faulty versions of it. They are not part of any specification; put in
the place of the definition they vary, they make a property fail.

### Memory and interrupts (`Downlink`, `Uplink`, `ShmSeqlock`)

`Cached` chooses the build. What differs, and how it is modelled:

* A store of a write index goes to a store buffer (`own_write_index`) and
  becomes visible in a later step, in order. All code before it has its data
  visible first: a `dsb` in the uncached build, a release store in the cached.
* A store of a *read* index is visible at once. If it were delayed, the sender
  would see the ring full for longer; it could not see it emptier.
* `IPC_TUNNEL_Read` of the uncached build loads the index and the packet with
  no barrier between. CPU1 maps the memory as Normal uncached, and a branch
  does not order loads on ARMv7, so `LoadPacketEarly` may take the packet
  before the index. The cached build uses an acquire load, the kernel module
  a barrier in both builds; there the loads keep their order.
* `SendPacket` raises the SGI after the index store. In the uncached build a
  `dsb` waits for the store (`BarrierDone`). In the cached build
  `MEMORY_BARRIER` is empty and nothing keeps the interrupt from arriving
  before the index.
* A copy of packet data takes two steps, and the slot holds `Junk` between
  them; a user copy that fails leaves `Junk` behind.
* In `ShmSeqlock`, loads and stores between two barriers happen in any order.
  The second load of the counter may be done before the copy is complete in
  the cached build, where an acquire load follows the copy, and may not in
  the uncached build, where a fence stands between.
* The block of `ShmSeqlock` is mapped by each side for itself: by the firmware as
  it was built (`variant.c`), by the kernel module as *it* was built
  (`dev_mmap`). `Coherent` says that both agree. If they do not, CPU1's stores do
  not reach the lines of CPU0's cache, and a load returns what the memory or
  what a line holds (`Loads`, `line`), for as long as the line stays.
* The control headers, which hold the indices of the rings, are taken as
  coherent in both builds. The code does not ensure it: `ipc_tunnel_init` maps
  them write-back in both builds of the kernel module (`ipc-tunnel.c:627-631`),
  the packets only in the cached one, and the uncached firmware maps the whole
  region non-cacheable (`variant.c:113`). What a processor does with such a pair
  of mappings is hardly defined, and the results for the uncached build hold
  only where it behaves as if there were one. A hazard names the line.

A direct read or write may be begun again without being ended, as the
functions allow. One user thread and one task use each end of a tunnel, as in
the benchmark and its tests. The rings start with cleared indices and
arbitrary sizes in the slots; packets sent before are only in `Session`, where
`IPC_TUNNEL_Init` is an action.

### Session

* A run of a task of CPU1 is one step. Its tunnel operations touch only its
  own tunnel, from which the other side can see only the order of its read
  and its write, and each of these commutes with the steps of other tasks.
* A ring of the repository has 2 slots for T0 and T2 and 4 for T1, so it holds
  1, 1 and 3 packets; the runs give each 1. The multipliers 4 and 20 of T1 and
  T2 are scaled to 1 and 2.
* Identifiers of commands have 16 bits in the packet and in CPU1's variables,
  and a full benchmark makes more commands than that; `packetIdCounter` has 32.
  A packet of the model carries the number and what is left of it
  (`Numbered`, `IdLimit`); the code sees the latter, the properties compare the
  former. `HandleNewVariableData` takes every identifier that differs from the
  last one as a new effect. This is right as long as two packets that Linux
  receives one after the other never differ by a multiple of `IdLimit`: TLC finds
  `EffectsSeenInOrder` violated with 2 identifiers and rings of one packet, and
  the theorem asks for `Cap["T0"] + 2 < IdLimit`, where the code has 1 and 65536.
* `AppWaits` is the order in which the operator starts the programs: the
  application after `VARIANT_Initialize` is done, or at any time.
* `CsvPeriods`: between `f_running = false` and the shutdown command the T0
  thread writes a file of `ITERATION_LIMIT` lines, which lasts longer than a
  period of T1. This is what lets `select`, which has no timeout, return once
  more; with 0 the end is not guaranteed.
* A signal may interrupt a waiting `read` or `select`. The application does not
  look at the result: the iteration counts and the last packet is handled
  again. This is the only way in which a command of the T0 thread meets a full
  ring, because otherwise it waits for a packet of T0 between two commands and
  T0 takes a command in every run. A read that is interrupted before the first
  packet leaves the buffer uninitialised: `buf` starts with any identifier, and
  what it is taken for is no effect of a command (`Unset`).

### Statistics

A start time is sent as its low half and counted from the first one in the
results. A benchmark of 10 s is shorter than a wrap of the 32-bit time
(12.9 s at 333 MHz), which `RunTask` assumes; the time may start anywhere, so
the wrap falls anywhere among the runs. `Backlog` (16) and `SendDelay` are
scaled down, with `SendDelay` at most `Backlog`. Durations are handled as
start times are, without the wrap, and are left out.

### Kernel module

* `held` counts every resource; a second release would make it -1 and break
  `TypeOK`. A call whose result the code tests may fail at every tunnel; then
  the error labels run with the loop counter and the fields that are left.
* `unloaded` is the state before `insmod`. Loading again starts from zeroed
  static variables, so what an earlier load left behind is seen.
* A device can be opened from `cdev_add` on, long before `insmod` ends, and
  `dev_open` may be preempted between its test of `is_open` and its store. Both
  are in the model, without a condition. `early` remembers who opened a file
  during `insmod`: `UsersServed` promises such a file nothing until `insmod` has
  ended, because there is nothing behind the device yet, and a working tunnel
  from then on. `raced` remembers the tunnels for which a second test passed
  while another user stood before the store: `OneOwner` says that this is the only
  way to two users of a tunnel, and that it is over when they have left. Linux
  has one core here (CPU1 is not its own), so it takes a kernel that preempts
  itself.
* A load that fails frees the module under files that were opened meanwhile
  (stage `freed`); what such a file does next is undefined, and it takes no
  further step.
* Blocks and mappings are counted in pages, offsets wrap at `AddressPages`.
  The run has entries 0, 1 and 2 of the table, with the last digit of their page
  numbers. Entry 2 (`0xFFFFC000`, size `0x3000`, where CPU1 has `0x2000`) reaches
  into the block of entry 0 (`0xFFFFE000`): two processes that each have a tunnel
  of their own then share a page. `MappedInside` says that a mapping stays in the
  block the table gives; it cannot say that the table is right.

### OpenAMP variant

Tasks are nested as the interrupt priorities nest them: `active` is the stack
of tasks that have started. Linux uses channel 0 only. Nothing in the code
keeps T0 from interrupting T1 or T2 where that is not safe, in two places:

* between the store of `packetsEnd` and the test whether the buffer is full:
  T0 empties the buffer, the interrupted task then finds begin and end equal
  and marks the empty buffer as full, and T0 gets the old packets again;
* while the lock of the device is held: T0 spins on a lock whose holder does
  not run until T0 ends.

`raced` remembers that this has happened, and the properties say what the
variant promises until then. T0 still interrupts at every other point, and
without the condition TLC finds both failures.

### Tests

Packets carry the place (`at`) where Linux stood when it sent them, which the
properties compare with where CPU1 stands. A signal interrupts a blocking read
of Linux and the result is not looked at: from then on the programs are one
answer apart. The program reads into the buffer it made its requests in and
writes down what is there, so an interrupted read writes down, too: in the
throughput test the answer before, or the bytes of the last request of the
round if no answer of it has come; in the latency test always the bytes of the
request itself. `buffer` keeps which, `source` and `lag` what was written down and
how far that is from where it belongs. `MeasurementsOwn` bounds the first kind by
the number of signals and says of the second which request it is. When more
reads are interrupted than the queue holds packets, both programs of the
throughput test may wait for the other one to read; `TestEnds` says that this
is the only way not to end.

## Runs

| run | bounds | shows |
|---|---|---|
| `downlink_cached` | 3 slots, 4 packets of 2 sizes, room for 1, 1 fault, both interfaces | type, slot exclusion, delivery, refinement of `PacketFifo`, and that every accepted packet arrives |
| `downlink_uncached` | 2 slots, 3 packets | the ring itself is right even where loads may be early |
| `uplink_uncached` | 3 slots, 4 packets of 2 contents, the direct interface, all calls, 1 fault or signal | type, slot exclusion, contents of the ring, delivery (order, duplicates and old contents can be told apart), refinement of `PacketFifo`, no wake-up is lost, `POLLIN` is kept, every packet arrives |
| `uplink_cached_lost` | 2 slots, 3 packets, blocking reads, cached build | **violated**, see below |
| `shm_uncached` | 3 fields, 4 updates | no torn snapshot, snapshots advance, the last update is seen |
| `shm_torn` | the same, cached build | **violated**, see below |
| `session` | 9 iterations, 4 identifiers, rings of 1, 1 signal | types and rings, commands kept and effects seen in order while identifiers wrap, both programs end |
| `session_early` | 2 iterations, application started at any time | **violated**, see below |
| `stats_delayed` | 10 runs, backlog 4, a packet for 2 runs, time wraps at 13 | records true, once each, missed ones explained |
| `kernel_module` | 3 tunnels, 2 users, 16 pages, any number of loads, opens at any time | nothing leaked or released twice, open devices are ready and have one owner, mappings stay inside |
| `openamp` | 3 messages, buffer of 2, 1 buffer to Linux, 3 nested tasks | order, contents of the buffer, drops justified, messages handled and so sends return |
| `unit_tests` | 3 iterations, 2 sizes or 3 rounds, queues of 2, 4 signals | measurements of their own requests, phases match, tests end |

Why the bounds are enough: more packets are sent than a ring has slots, so
both indices wrap, the ring is full and empty, and a slot is used again while
its old contents are there; one fault or signal at any place meets every step
of the other side; the seqlock sees an update before, in and after a copy, and
a whole further one; nine iterations send four commands, the last of them with
an identifier that has wrapped, and end in a shutdown with a full or an empty
ring; ten runs with a backlog of four and a queue of
one drop more packets in a row than the backlog makes up for. Three tunnels
let a load fail at the first, a middle and the last one, and two users meet at
one tunnel or use two. Three messages fill a buffer of two and leave one to be
dropped, with both its indices wrapping. `uplink_uncached` uses the direct
interface only, because `IPC_TUNNEL_Write` takes the same steps and never begins
again before it has ended; packets cut short by the reader's room are in
`downlink_cached`, and for `Uplink` in the theorems. Four interrupted reads are more than
a queue of two holds. The tunnels, the block, the kernel module and the
commands of a session are also proved for all bounds. Deadlock checking is off
for `Session` and `UnitTests`, which end, for `TaskStats`, whose runs are bounded,
and for `OpenAmp`, where T0 may race for the lock.

### Fairness

`Downlink`: a system call that started goes on, CPU1's task is run by a
timer and polls, a store leaves the store buffer; and a caller that keeps
beginning direct reads ends one (strong fairness of `MarkPacketAsRead`,
because each new beginning interrupts it). `Uplink`: the same, a pending
interrupt is taken, and the user calls `read` again and again, whichever other
calls come between (strong fairness), as the loops of the application do.
Nothing obliges anyone to send, and a sleeping
reader is woken only by `ipi_notify_handler` or a signal. `Session`: the
background loop of `Execute`, the timer, each pending software interrupt and
both threads go on; so CPU1 is not so overloaded by T0 that T1 and T2 never
run. `OpenAmp`: the same, stated as strong fairness because a task is
interrupted again and again and still gets on, T0 taking less than its period;
nothing is asked of Linux. `ShmSeqlock`: an update that was begun is completed, and
the application polls; CPU1 need not begin one, and no cache need give up a
line. `UnitTests`: both programs go on. Signals are never
obliged to come.

### Where code and words differ

* `uplink_cached_lost` (`ipc_tunnel.c`, `SendPacket`): in the cached build the
  SGI can overtake the store of the write index. The reader wakes, finds the
  ring empty, sleeps, and no further interrupt comes for that packet.
* `shm_torn` (`t0dataprocess.hpp`, the second load of the counter): in the
  cached build nothing orders the copy before the second load, and a mixed
  snapshot is accepted although the comment says the counter is verified.
* `session_early` (`ipc_tunnel.c`, `IPC_TUNNEL_Init`): the indices are cleared
  although Linux may already have sent the start packet; both sides then
  wait.

Line 68 of `console_stuff.txt` says "shm not cached doesn't work!", which seems to
contradict `shm_uncached` and its theorems. The repository does not say what did
not work. The run and the theorems speak of the protocol with both sides built
and mapped uncached, and show no reason there. The commands above that line
make another combination: they load the module that maps memory write-back
(line 48; `ipc-tunnel.c` defines `USE_CACHED_MEMORY` at line 35) and later start
the uncached shared memory firmware and application without loading another
one (lines 57 and 58). With `Coherent = FALSE` in `MCShmSeqlock_uncached.cfg` TLC
finds `LastUpdateSeen` violated: the counter may be loaded from CPU0's cache again
and again, and `UpdateVariablesFromShm` reports no new values for ever. This may be
what the line is about; a hazard names it.

Others are listed as hazards only, because no document or test states the
opposite: with early loads in the uncached build `Delivered` of `Downlink`
does not hold, and `downlink_uncached` therefore does not check it; the two
races of the OpenAMP variant; `dev_open` on a preemptive kernel, devices opened
during `insmod`, the size of tunnel 2, and the mapping of the control headers.

## Proofs

All theorems hold for every ring size, packet size, set of payloads, number of
packets and faults, from the assumptions named in the modules
(`NAssumption`, `DownlinkAssumption`, `UplinkAssumption`, `ShmAssumption`,
`KernelModuleAssumption`, `SessionAssumption`, `TaskStatsAssumption`,
`UnitTestsAssumption`, `OpenAmpAssumption`) and from those a theorem states.

* The index arithmetic of `RingIndex`, at the beginning of `Downlink_proofs` and of
  `Uplink_proofs`: `NextIndex` is injective and stays in the ring; how `InFlight`
  changes when a packet is sent or received; slots in flight are different from
  the slot at the write index; how the queue that a ring stands for (`Queue`)
  changes with each.
* `Downlink_proofs`, `Uplink_proofs`: none of the properties is inductive.
  The invariant is `IInv == TypeOK /\ IndexOrder /\ ClaimInv /\ FilledInv /\
  ReadInv /\ PendingInv` (and `PollKept` in `Uplink`). `IndexOrder` says the
  visible write index lies between the read index and the latest store of it.
  `ClaimInv`: the slot being filled is the one at the write index and the ring
  was not full; the reader only makes it emptier, so the stale test stays
  true. `FilledInv`: what of the slot is already stored. `ReadInv`: a reader
  holds the slot at the read index and it is in flight. `PendingInv`:
  slot for slot, what is in flight is what was sent. From these follow
  `TypeOK`, `SlotExclusion`, `RingHoldsPending` and `PollKept`, in both builds.
* `Delivered` needs what the reader has copied so far (`LoadedInv` in
  `Downlink`, `CopyInv` in `Uplink`); it is proved for the cached build of
  `Downlink`, where no load is early, and for both builds of `Uplink`.
* `Implements`: both tunnels refine `PacketFifo`. Every step of the detailed
  protocol is a step of the queue or leaves it alone: the store of the write index
  is the send, the store of the read index the receive, refused and failed calls
  change return values only (`FifoStep`). What is needed of the state is `IInv`
  (a call is refused only if the ring is full, and the slot that is read is the
  oldest in flight) and what the reader has copied. As with `Delivered`, the
  theorem is for the cached build of `Downlink` and for both builds of `Uplink`;
  in the uncached build `Downlink` is no such queue, since a load may be early.
* `NoLostWakeup` is proved for the uncached build, with `WakeInv`: whoever
  checked the ring before the store was visible is woken by an interrupt that
  comes after it.
* `ShmSeqlock_proofs`: `WriterInv` ties the counter to the update and to the
  fields already stored; `ReaderInv` says that, as long as the counter has
  not changed, every field copied is of the update `startVal` stands for.
  `NoTornSnapshot` and the action property `SnapshotsAdvance` follow in the
  uncached build with both sides mapping the block alike (`Coherent`).
* `KernelModule_proofs`: `NothingLeaked` speaks of one state only; the invariant
  `ModuleInv` says of every place in `ipc_tunnel_init`, the error labels and
  `ipc_tunnel_exit` exactly which resources are held, as a function of the place,
  of the loop counter and of the fields. `NothingLeft` follows. The other
  theorems also use `UserInv`: a file that is open or being opened keeps the
  module from being removed, and a device can be opened only where `ModuleInv` says
  that it is added. `SingleOwner` counts a user who has passed the test of `is_open`
  as an owner, so that the test of the next one either fails or is noted in `raced`.
  None of the five has a condition on the kernel's scheduling, on when devices
  are opened or on the table.
* `Session_proofs`: `CommandsInv` says that the numbers of the commands in
  the ring follow the one applied last without a gap, up to the one that was
  refused and waits; `BootInv` says what the ring of T0 holds before the
  scheduler runs; `UpdatesInv` orders the data packets. `LoopInv` bounds the loop
  counter for `TypeOK`. `IdsInv` ties identifiers to numbers. `GapInv` bounds by how
  much two data packets that follow each other differ: CPU1 leaves data packets
  out only while the ring to Linux is full, and Linux, which then does not wait
  and cannot be interrupted, makes at most one command until it has received one,
  so that what CPU1 can apply meanwhile was in its ring, kept or being made. With
  the bound below `IdLimit` different numbers have different identifiers
  (`SameId`), and `SeenInv` follows. `TypeCorrect` holds for any order of
  start; `NoCommandLost` and `EffectsInOrder` assume `AppWaits`, because
  `IPC_TUNNEL_Init` otherwise discards what was sent, and `EffectsInOrder`
  `Cap["T0"] + 2 < IdLimit`.
* `TaskStats_proofs`: what `Add` lists depends on packets that were dropped, which
  are nowhere in the state. `SentInv` recovers them: every packet is `SendDelay`
  runs after the one before it, so the drops a packet reports say which run it
  is of, and `Add` knows the gap it has to fill. `StartsInv` says what the entries
  of a backlog are, `ListedInv` that listed and missed runs add up.
  `TypeCorrect`, `ListedOnce` and `DropsExplain` follow. For `StartsTrue`, `TimesInv`
  says that every start is the true one less a whole number of wraps, the same
  for all. It rests on `DropIsWrap` and `Crossings`: among the runs of a benchmark,
  which is shorter than a wrap, the low half becomes smaller exactly where the
  high half grows, and it grows at one entry at most, the least one past the
  wrap (`LeastNat`), whether or not the runs at the wrap are among those listed.
* `UnitTests_proofs`: both tests send a sequence of packets that is known
  beforehand; `Packet(t, m)` is its member number `m`, and `Sent` and `Taken` say
  how far Linux and CPU1 have got. `DownInv`: the queue to CPU1 holds exactly what
  lies between. `CpuInv` gives CPU1's phase, counters and table as a function of
  `Taken`. Phases then match because a place of the sequence is in one phase only
  (`OnePlace`, `NextPlace`). `AnswersInv` bounds the answers: in the throughput test,
  where none is given up, they are exactly as far behind as reads were
  interrupted; in the latency test at most so far, because giving one up brings
  the two programs closer again. `BufferInv` says what Linux's buffer holds when it
  reads: its latest request, or in the throughput test the latest answer, which
  is behind by the number of interrupted reads. `TypeCorrect`, `Measured` and the
  action property `SamePhase` hold for every capacity and any number of signals.

* `OpenAmp_proofs`: the argument is one line of messages (`Line`): those T0's
  handler got, then those in the packet buffer, then the one a task holds in its
  hands. `Lined` says that the line lists, in order, every message taken off the
  ring and not dropped. Handing a packet over, from the buffer or directly,
  copying one into the buffer, incrementing, wrapping and marking its end all
  leave the line as it is; taking a message off the ring adds it at the end,
  dropping one takes the last away. That needs `Control` (one task at a time
  takes messages off the ring, because it has taken the kick and no kick is
  taken while a task is active; T0 never buffers), `Stack` (while another task
  runs T0 is idle) and `Apart` (until T0 races, no task moves the end while T0 is
  active, and T0 polls with the buffer empty). `Sending` counts the buffers for
  Linux. `HandledInOrder`, `BufferRight` and the action property `DropsRight` hold
  until T0 races; `TypeCorrect` and `ReceiversApart`, which is `Control`'s first
  half, also after.

The inductive invariants of `Session`, `TaskStats`, `UnitTests` and `OpenAmp` were checked with
TLC on small instances before they were proved.

Only model-checked: liveness (`EventuallyDelivered`, `EventuallyHandled`,
`LastUpdateSeen`, `SessionEnds`, `TestEnds` and the like), which is
out of the prover's reach. Every invariant and every other action property of the passing
runs has a theorem, with the assumptions named above.

## Not modelled

* Third-party code. All but about 3400 of the repository's 132000 lines are the
  Xilinx board support package, OpenAMP, libmetal and the like; of these only the
  receive callback and the send of `rpmsg_virtio.c`, whose lock the OpenAMP
  variant depends on, are modelled. The share of all lines that `PROJECT.json`
  maps is small for that reason.
* The shared memory session (`T0ThreadShm`, `TestShm`): its block is `ShmSeqlock`,
  its T1 and T2 part is that of `Session`; its T0 thread polls the block and
  sends commands as the other one does.
* Start and end of the OpenAMP variant (remoteproc, name service), which is
  set-up done once by one task.
* A restart of CPU1 while Linux is inside `dev_read`, `dev_write` or
  `UpdateVariablesFromShm`: nothing in the code detects or handles it. Packets
  left over from an earlier run are in `Session`.
* The values of the task variables and the workloads (no effect on the
  protocol); the averages of the tests, result files and console output; set-up
  of caches, MMU, timers and the interrupt controller (hardware
  configuration).

## Plan

1. Shorter invariants where a proof has shown that a conjunct is not needed.
2. The shared memory session as a variant of `Session` over the promise of
   `ShmSeqlock`.
3. A restart of CPU1, should the code come to handle one.
