---------------------------- MODULE KernelModule ----------------------------
(***************************************************************************)
(* The kernel module from insmod to rmmod, on CPU0: what ipc_tunnel_init   *)
(* acquires, and every way in which it fails and gives back; what          *)
(* ipc_tunnel_exit gives back; and the processes that open, map, unmap and *)
(* close the devices in the meantime.                                      *)
(*                                                                         *)
(* Each call to the rest of the kernel that acquires something is a step,  *)
(* and may fail where the code looks at its result.  held counts how often *)
(* a resource is held, so a second release of it is seen as -1.  A new     *)
(* insmod loads new, zeroed static variables.  The kernel around the       *)
(* module is modelled from how the module uses it: rmmod is refused while  *)
(* a file of the module is open, a mapping keeps its file open, release is *)
(* not called for an open that failed, dev_open may be preempted at any    *)
(* point, and a device can be opened as soon as it is added, while insmod  *)
(* is still under way.  A module whose initialisation fails is freed even  *)
(* if it has open files: what such a file does next is undefined, and its  *)
(* process takes no further step here.                                     *)
(*                                                                         *)
(* Addresses and sizes of the shared blocks are in pages.                  *)
(***************************************************************************)
EXTENDS Integers

CONSTANTS DEVICE_COUNT,
          AddressPages,           \* pages of the address space, 2^20
          shared_buffer_address,  \* of tunnel_configs, per tunnel
          shared_buffer_size,
          Users                   \* processes that use the devices

Tunnels == 0 .. DEVICE_COUNT - 1

ASSUME KernelModuleAssumption ==
          /\ {DEVICE_COUNT, AddressPages} \subseteq Nat \ {0}
          /\ shared_buffer_address \in [Tunnels -> 0 .. AddressPages - 1]
          /\ shared_buffer_size \in [Tunnels -> 0 .. AddressPages - 1]
          /\ \A t \in Tunnels :
                shared_buffer_address[t] + shared_buffer_size[t] <= AddressPages

VARIABLES mpc,      \* where ipc_tunnel_init or ipc_tunnel_exit stands
          i,        \* its loop counter
          held,     \* how often each resource is held
          fields,   \* fields of tunnels[] that are not 0 or NULL
          queues,   \* tunnels whose read_queue is initialised
          is_open,  \* per tunnel
          stage,    \* how far the file of each user is opened
          tunnel,   \* its private_data
          fd,       \* the user has not closed it
          vma,      \* what the user has mapped: at most one mapping
          early,    \* history: users who opened their file before insmod ended
          raced     \* history: tunnels taken by two users at once in dev_open

mvars == <<mpc, i, held, fields, queues>>
uvars == <<is_open, stage, tunnel, fd, vma, early, raced>>
vars == <<mvars, uvars>>

Buffers == {"control_header", "send_buffer", "receive_buffer"}
Of(kinds, ts) == kinds \X ts
Region == <<"chrdev_region", 0>>
Class == <<"class", 0>>
Resources == Of(Buffers \cup {"device", "cdev", "ipi_handler"}, Tunnels) \cup {Region, Class}

Acquire(rs) == [r \in Resources |-> IF r \in rs THEN held[r] + 1 ELSE held[r]]
Release(rs) == [r \in Resources |-> IF r \in rs THEN held[r] - 1 ELSE held[r]]

Init == /\ mpc = "unloaded"
        /\ i = 0
        /\ held = [r \in Resources |-> 0]
        /\ fields = {}
        /\ queues = {}
        /\ is_open = [t \in Tunnels |-> FALSE]
        /\ stage = [u \in Users |-> "closed"]
        /\ tunnel = [u \in Users |-> 0]
        /\ fd = [u \in Users |-> FALSE]
        /\ vma = [u \in Users |-> {}]
        /\ early = {}
        /\ raced = {}
-----------------------------------------------------------------------------
(* ipc_tunnel_init *)

\* The loop of one stage goes on with the next tunnel, or the next stage.
NextTunnel(next) ==
    /\ i' = IF i + 1 = DEVICE_COUNT THEN 0 ELSE i + 1
    /\ mpc' = IF i + 1 = DEVICE_COUNT THEN next ELSE mpc

\* insmod: the static variables are new, and the first loop clears them.
insmod ==
    /\ mpc = "unloaded"
    /\ mpc' = "alloc_chrdev_region"
    /\ i' = 0
    /\ fields' = {}
    /\ queues' = {}
    /\ is_open' = [t \in Tunnels |-> FALSE]
    /\ raced' = {}
    /\ UNCHANGED <<held, stage, tunnel, fd, vma, early>>

alloc_chrdev_region ==
    /\ mpc = "alloc_chrdev_region"
    /\ \/ mpc' = "class_create" /\ held' = Acquire({Region})
       \/ mpc' = "unloaded" /\ UNCHANGED held
    /\ UNCHANGED <<i, fields, queues, uvars>>

class_create ==
    /\ mpc = "class_create"
    /\ \/ mpc' = "device_create" /\ held' = Acquire({Class})
       \/ mpc' = "unregister_chrdevs" /\ UNCHANGED held
    /\ UNCHANGED <<i, fields, queues, uvars>>

device_create ==
    /\ mpc = "device_create"
    /\ \/ /\ held' = Acquire({<<"device", i>>})
          /\ fields' = fields \cup {<<"dev", i>>}
          /\ NextTunnel("cdev_add")
       \/ mpc' = "destroy_devices" /\ UNCHANGED <<i, held, fields>>
    /\ UNCHANGED <<queues, uvars>>

\* Mutation of CdevsAdded: the loop that undoes cdev_add starts at i.
CdevsAddedUpToI == 0 .. i

\* The tunnels before i, whose cdev_add succeeded.
CdevsAdded == 0 .. i - 1

\* A failure deletes the devices that were added, here and at once.
cdev_add ==
    /\ mpc = "cdev_add"
    /\ \/ held' = Acquire({<<"cdev", i>>}) /\ NextTunnel("memremap")
       \/ /\ held' = Release(Of({"cdev"}, CdevsAdded))
          /\ mpc' = "destroy_devices"
          /\ UNCHANGED i
    /\ UNCHANGED <<fields, queues, uvars>>

\* Mutation of MapFailed: the mapping of the control header is not tested.
MapFailedPartly(got) == ~({"send_buffer", "receive_buffer"} \subseteq got)

MapFailed(got) == got # Buffers

\* Any of the three mappings of tunnel i may fail.
memremap ==
    /\ mpc = "memremap"
    /\ \E got \in SUBSET Buffers :
          /\ held' = Acquire(Of(got, {i}))
          /\ fields' = fields \cup Of(got, {i})
          /\ IF MapFailed(got)
             THEN mpc' = "unmap_memory" /\ UNCHANGED i
             ELSE NextTunnel("init_waitqueue_head")
    /\ UNCHANGED <<queues, uvars>>

init_waitqueue_head ==
    /\ mpc = "init_waitqueue_head"
    /\ queues' = queues \cup {i}
    /\ mpc' = "set_ipi_handler"
    /\ UNCHANGED <<i, held, fields, uvars>>

\* From here on CPU1 can interrupt.  Nothing fails any more.
set_ipi_handler ==
    /\ mpc = "set_ipi_handler"
    /\ held' = Acquire({<<"ipi_handler", i>>})
    /\ i' = IF i + 1 = DEVICE_COUNT THEN 0 ELSE i + 1
    /\ mpc' = IF i + 1 = DEVICE_COUNT THEN "loaded" ELSE "init_waitqueue_head"
    /\ UNCHANGED <<fields, queues, uvars>>

MappedFields == fields \cap Of(Buffers, Tunnels)

unmap_memory ==
    /\ mpc = "unmap_memory"
    /\ held' = Release(MappedFields \cup Of({"cdev"}, Tunnels))
    /\ mpc' = "destroy_devices"
    /\ UNCHANGED <<i, fields, queues, uvars>>

Created == {t \in Tunnels : <<"dev", t>> \in fields}

destroy_devices ==
    /\ mpc = "destroy_devices"
    /\ held' = Release(Of({"device"}, Created) \cup {Class})
    /\ mpc' = "unregister_chrdevs"
    /\ UNCHANGED <<i, fields, queues, uvars>>

\* The user has a file of this copy of the module, open or being opened.
Live(u) == stage[u] \in {"test", "set", "open"}

\* The load has failed and the module is freed, under the files that were
\* opened since cdev_add too.
unregister_chrdevs ==
    /\ mpc = "unregister_chrdevs"
    /\ held' = Release({Region})
    /\ mpc' = "unloaded"
    /\ stage' = [u \in Users |-> IF Live(u) THEN "freed" ELSE stage[u]]
    /\ UNCHANGED <<i, fields, queues, is_open, tunnel, fd, vma, early, raced>>
-----------------------------------------------------------------------------
(* ipc_tunnel_exit *)

\* rmmod is refused while a file is open, or being opened.
rmmod ==
    /\ mpc = "loaded"
    /\ \A u \in Users : ~Live(u)
    /\ mpc' = "exit"
    /\ i' = 0
    /\ UNCHANGED <<held, fields, queues, uvars>>

\* Mutation of ExitReleases: the interrupt handler stays installed.
ExitReleasesNoHandler == Of(Buffers \cup {"cdev", "device"}, {i})

ExitReleases == Of(Buffers \cup {"ipi_handler", "cdev", "device"}, {i})

\* One round of the loop of ipc_tunnel_exit.
exit_tunnel ==
    /\ mpc = "exit"
    /\ held' = Release(ExitReleases)
    /\ NextTunnel("exit_class")
    /\ UNCHANGED <<fields, queues, uvars>>

exit_class ==
    /\ mpc = "exit_class"
    /\ held' = Release({Class, Region})
    /\ mpc' = "unloaded"
    /\ UNCHANGED <<i, fields, queues, uvars>>
-----------------------------------------------------------------------------
(* The devices *)

\* open reaches dev_open of a device that is added, whether or not insmod has
\* ended, unless the module is being removed.
MayOpen(t) == held[<<"cdev", t>>] > 0 /\ mpc # "exit"

DevOpen(u, t) ==
    /\ stage[u] = "closed"
    /\ MayOpen(t)
    /\ stage' = [stage EXCEPT ![u] = "test"]
    /\ tunnel' = [tunnel EXCEPT ![u] = t]
    /\ early' = IF mpc = "loaded" THEN early \ {u} ELSE early \cup {u}
    /\ UNCHANGED <<mvars, is_open, fd, vma, raced>>

InUse(u) == stage[u] \in {"set", "open"}
Owners(t) == {u \in Users : InUse(u) /\ tunnel[u] = t}

\* Mutation of DevOpenTest: is_open is not looked at.
DevOpenTestSkipped(u) ==
    /\ stage[u] = "test"
    /\ stage' = [stage EXCEPT ![u] = "set"]
    /\ raced' = IF \E v \in Owners(tunnel[u]) : stage[v] = "set"
                THEN raced \cup {tunnel[u]} ELSE raced
    /\ UNCHANGED <<mvars, is_open, tunnel, fd, vma, early>>

\* is_open is tested: -EBUSY, or the open goes on.  Nothing keeps another
\* open out between the test and the store that follows it: raced notes a
\* test that passes while another user stands there.
DevOpenTest(u) ==
    LET t == tunnel[u]
    IN  /\ stage[u] = "test"
        /\ stage' = [stage EXCEPT ![u] = IF is_open[t] THEN "closed" ELSE "set"]
        /\ raced' = IF ~is_open[t] /\ \E v \in Owners(t) : stage[v] = "set"
                    THEN raced \cup {t} ELSE raced
        /\ UNCHANGED <<mvars, is_open, tunnel, fd, vma, early>>

DevOpenSet(u) ==
    /\ stage[u] = "set"
    /\ is_open' = [is_open EXCEPT ![tunnel[u]] = TRUE]
    /\ stage' = [stage EXCEPT ![u] = "open"]
    /\ fd' = [fd EXCEPT ![u] = TRUE]
    /\ UNCHANGED <<mvars, tunnel, vma, early, raced>>

\* Mutation of OutsideBlock: the sum of offset and size overflows.
OutsideBlockWraps(size, offset, pages) == (offset + pages) % AddressPages > size

OutsideBlock(size, offset, pages) == offset >= size \/ size - offset < pages

\* dev_mmap: vm_pgoff << PAGE_SHIFT keeps 32 bits.
DevMmap(u, vm_pgoff, pages) ==
    LET offset == vm_pgoff % AddressPages
        t == tunnel[u]
        pfn == (shared_buffer_address[t] + offset) % AddressPages
    IN  /\ stage[u] = "open" /\ fd[u]
        /\ vma[u] = {}
        /\ ~OutsideBlock(shared_buffer_size[t], offset, pages)
        /\ vma' = [vma EXCEPT ![u] = {[pfn |-> pfn, pages |-> pages]}]
        /\ UNCHANGED <<mvars, is_open, stage, tunnel, fd, early, raced>>

\* dev_release runs when the last reference to the file goes away.  It clears
\* is_open whoever else has the tunnel; a race is over when nobody has it.
DevRelease(u, last) ==
    /\ stage' = [stage EXCEPT ![u] = IF last THEN "closed" ELSE @]
    /\ is_open' = [is_open EXCEPT ![tunnel[u]] = @ /\ ~last]
    /\ raced' = IF last /\ Owners(tunnel[u]) = {u} THEN raced \ {tunnel[u]} ELSE raced

Close(u) ==
    /\ stage[u] = "open" /\ fd[u]
    /\ fd' = [fd EXCEPT ![u] = FALSE]
    /\ DevRelease(u, vma[u] = {})
    /\ UNCHANGED <<mvars, tunnel, vma, early>>

Munmap(u) ==
    /\ stage[u] = "open" /\ vma[u] # {}
    /\ vma' = [vma EXCEPT ![u] = {}]
    /\ DevRelease(u, ~fd[u])
    /\ UNCHANGED <<mvars, tunnel, fd, early>>
-----------------------------------------------------------------------------
ipc_tunnel_init ==
    \/ insmod
    \/ alloc_chrdev_region
    \/ class_create
    \/ device_create
    \/ cdev_add
    \/ memremap
    \/ init_waitqueue_head
    \/ set_ipi_handler
    \/ unmap_memory
    \/ destroy_devices
    \/ unregister_chrdevs

ipc_tunnel_exit ==
    \/ rmmod
    \/ exit_tunnel
    \/ exit_class

UserStep(u) ==
    \/ \E t \in Tunnels : DevOpen(u, t)
    \/ DevOpenTest(u)
    \/ DevOpenSet(u)
    \/ \E vm_pgoff \in 0 .. 2 * AddressPages - 1, pages \in 1 .. AddressPages - 1 :
          DevMmap(u, vm_pgoff, pages)
    \/ Close(u)
    \/ Munmap(u)

Next == ipc_tunnel_init \/ ipc_tunnel_exit \/ \E u \in Users : UserStep(u)

Spec == Init /\ [][Next]_vars
-----------------------------------------------------------------------------
(* Properties *)

\* Every variable has its type: in particular nothing ipc_tunnel_init or
\* ipc_tunnel_exit acquires is released twice, or released without having
\* been acquired.
TypeOK ==
    /\ mpc \in {"unloaded", "alloc_chrdev_region", "class_create", "device_create",
                "cdev_add", "memremap", "init_waitqueue_head", "set_ipi_handler",
                "loaded", "unmap_memory", "destroy_devices", "unregister_chrdevs",
                "exit", "exit_class"}
    /\ i \in Tunnels
    /\ held \in [Resources -> {0, 1}]
    /\ fields \subseteq Of(Buffers \cup {"dev"}, Tunnels)
    /\ queues \subseteq Tunnels
    /\ is_open \in [Tunnels -> BOOLEAN]
    /\ stage \in [Users -> {"closed", "test", "set", "open", "freed"}]
    /\ tunnel \in [Users -> Tunnels]
    /\ fd \in [Users -> BOOLEAN]
    /\ \A u \in Users :
          vma[u] \subseteq [pfn : 0 .. AddressPages - 1, pages : 1 .. AddressPages - 1]

\* When insmod has failed, wherever it failed, and when rmmod is done,
\* nothing is left behind: no device, no mapping, no handler that would be
\* called in freed memory.
NothingLeaked == mpc = "unloaded" => \A r \in Resources : held[r] = 0

\* A file opened after insmod has ended finds its tunnel working for as long as
\* it lives: dev_read, dev_write and dev_poll find the rings mapped, the queue
\* initialised and the handler installed, whatever failed during earlier loads
\* of the module.  A file opened during insmod, which cdev_add makes possible
\* before there is anything behind the device, does so once insmod has ended.
UsersServed ==
    \A u \in Users : InUse(u) /\ (u \in early => mpc = "loaded") =>
        /\ tunnel[u] \in queues
        /\ \A k \in Buffers \cup {"ipi_handler", "cdev"} : held[<<k, tunnel[u]>>] = 1

\* is_open says exactly which tunnels are taken, and a tunnel is taken by
\* one user: its ring has one reader and one writer on CPU0 for as long as
\* a file or a mapping of it lives, and no tunnel stays busy after that.  A
\* user between dev_open's test and its store holds the tunnel already.  The
\* one way around it is an open that is preempted between the two (raced);
\* its harm ends when the last user of that tunnel has left.
OneOwner ==
    mpc # "unloaded" => \A t \in Tunnels \ raced :
        /\ \A u, v \in Owners(t) : u = v
        /\ is_open[t] <=> \E u \in Owners(t) : stage[u] = "open"

Mapped(u) == UNION {{(m.pfn + k) % AddressPages : k \in 0 .. m.pages - 1} : m \in vma[u]}
Block(t) == {shared_buffer_address[t] + k : k \in 0 .. shared_buffer_size[t] - 1}

\* What dev_mmap grants lies in the block tunnel_configs gives the tunnel, for
\* every offset and size, the offsets that wrap around 32 bits included, and
\* for as long as the mapping lives.  It says nothing of other tunnels: the
\* blocks of the table's entries 0 and 2 share a page.
MappedInside == \A u \in Users : Mapped(u) \subseteq Block(tunnel[u])
==============================================================================
