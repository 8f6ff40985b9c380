------------------------ MODULE KernelModule_proofs -------------------------
(***************************************************************************)
(* Proofs about the kernel module, for any number of tunnels and users and *)
(* any addresses.  What ipc_tunnel_init holds is a function of the place   *)
(* it has reached; with that, every error label gives back exactly what    *)
(* was acquired.  Nothing is assumed of the kernel around the module: an   *)
(* open may come while insmod is under way, and dev_open may be preempted. *)
(***************************************************************************)
EXTENDS KernelModule, TLAPS

\* held, when exactly the resources of rs are held.
Count(rs) == [r \in Resources |-> IF r \in rs THEN 1 ELSE 0]

Kinds == Buffers \cup {"device", "cdev", "ipi_handler"}
Base == {Region, Class}
Before == 0 .. i - 1

\* What is held, and which fields are set, wherever the module stands.
ModuleInv ==
    /\ mpc \in {"unloaded", "alloc_chrdev_region"} => held = Count({})
    /\ mpc \in {"alloc_chrdev_region", "class_create"} => fields = {} /\ i = 0
    /\ mpc \in {"class_create", "unregister_chrdevs"} => held = Count({Region})
    /\ mpc = "device_create" =>
          /\ held = Count(Base \cup Of({"device"}, Before))
          /\ fields = Of({"dev"}, Before)
    /\ mpc = "cdev_add" =>
          /\ held = Count(Base \cup Of({"device"}, Tunnels) \cup Of({"cdev"}, Before))
          /\ fields = Of({"dev"}, Tunnels)
    /\ mpc = "memremap" =>
          /\ held = Count(Base \cup Of({"device", "cdev"}, Tunnels) \cup Of(Buffers, Before))
          /\ fields = Of({"dev"}, Tunnels) \cup Of(Buffers, Before)
    /\ mpc \in {"init_waitqueue_head", "set_ipi_handler"} =>
          held = Count(Base \cup Of(Buffers \cup {"device", "cdev"}, Tunnels)
                            \cup Of({"ipi_handler"}, Before))
    /\ mpc = "loaded" => held = Count(Base \cup Of(Kinds, Tunnels)) /\ queues = Tunnels
    /\ mpc = "init_waitqueue_head" => Before \subseteq queues
    /\ mpc = "set_ipi_handler" => Before \cup {i} \subseteq queues
    /\ mpc = "unmap_memory" =>
          /\ held = Count(Base \cup Of({"device", "cdev"}, Tunnels)
                               \cup (fields \cap Of(Buffers, Tunnels)))
          /\ Of({"dev"}, Tunnels) \subseteq fields
    /\ mpc = "destroy_devices" =>
          held = Count(Base \cup Of({"device"}, Created))
    /\ mpc = "exit" => held = Count(Base \cup Of(Kinds, i .. DEVICE_COUNT - 1))
    /\ mpc = "exit_class" => held = Count(Base)

\* Where no device has been added yet, and where no open is let in any more.
Quiet == {"unloaded", "alloc_chrdev_region", "class_create", "device_create",
          "exit", "exit_class"}

\* Where the users stand.  Nobody has a file of the module in a quiet place,
\* nor one opened after insmod anywhere but in a loaded module; a file that is
\* not open yet has neither a descriptor nor a mapping.
UserInv ==
    /\ mpc \in Quiet => \A u \in Users : ~Live(u)
    /\ \A u \in Users : Live(u) /\ u \notin early => mpc = "loaded"
    /\ \A u \in Users : stage[u] \in {"closed", "test", "set"} => ~fd[u] /\ vma[u] = {}

\* A mapping lies in the block of its tunnel.
MappingInv ==
    \A u \in Users : \A m \in vma[u] :
        /\ shared_buffer_address[tunnel[u]] <= m.pfn
        /\ m.pfn + m.pages <= shared_buffer_address[tunnel[u]] + shared_buffer_size[tunnel[u]]

ModuleType ==
    /\ mpc \in {"unloaded", "alloc_chrdev_region", "class_create", "device_create",
                "cdev_add", "memremap", "init_waitqueue_head", "set_ipi_handler",
                "loaded", "unmap_memory", "destroy_devices", "unregister_chrdevs",
                "exit", "exit_class"}
    /\ i \in Tunnels
    /\ fields \subseteq Of(Buffers \cup {"dev"}, Tunnels)
    /\ queues \subseteq Tunnels

UserType ==
    /\ is_open \in [Tunnels -> BOOLEAN]
    /\ stage \in [Users -> {"closed", "test", "set", "open", "freed"}]
    /\ tunnel \in [Users -> Tunnels]
    /\ fd \in [Users -> BOOLEAN]
    /\ vma \in [Users -> SUBSET [pfn : 0 .. AddressPages - 1, pages : 1 .. AddressPages - 1]]

-----------------------------------------------------------------------------
\* Acquiring what is not held, and releasing what is, keep held a count of
\* resources that are held once.
LEMMA AcquireCount ==
    ASSUME NEW rs, NEW new, held = Count(rs), new \cap rs = {}
    PROVE  Acquire(new) = Count(rs \cup new)
BY DEF Acquire, Count

\* The counterpart for a release.
LEMMA ReleaseCount ==
    ASSUME NEW rs, NEW old, held = Count(rs), old \subseteq rs
    PROVE  Release(old) = Count(rs \ old)
BY DEF Release, Count

\* The loops over the tunnels: after round i the tunnels up to i are done,
\* and at the last round all of them are.
LEMMA Rounds ==
    ASSUME i \in Tunnels
    PROVE  /\ 0 \in Tunnels
           /\ i + 1 # DEVICE_COUNT => i + 1 \in Tunnels
           /\ Before \cup {i} = 0 .. (i + 1) - 1
           /\ i \notin Before /\ Before \subseteq Tunnels
           /\ i + 1 = DEVICE_COUNT => Before \cup {i} = Tunnels
           /\ 0 .. 0 - 1 = {}
           /\ i .. DEVICE_COUNT - 1 = {i} \cup (i + 1 .. DEVICE_COUNT - 1)
           /\ i \notin i + 1 .. DEVICE_COUNT - 1
           /\ i + 1 = DEVICE_COUNT => i + 1 .. DEVICE_COUNT - 1 = {}
           /\ 0 .. DEVICE_COUNT - 1 = Tunnels
BY KernelModuleAssumption DEF Tunnels, Before

\* The resources of given kinds of two sets of tunnels are those of their union.
LEMMA OfFacts ==
    ASSUME NEW ks, NEW ts, NEW us
    PROVE  /\ Of(ks, ts) \cup Of(ks, us) = Of(ks, ts \cup us)
           /\ Of(ks, {}) = {}
           /\ Of({}, ts) = {}
BY DEF Of

\* Resources of different kinds, or of different tunnels, are different.
LEMMA KindsDiffer ==
    ASSUME NEW ks, NEW ls, NEW ts, NEW us
    PROVE  /\ ks \cap ls = {} => Of(ks, ts) \cap Of(ls, us) = {}
           /\ ts \cap us = {} => Of(ks, ts) \cap Of(ls, us) = {}
           /\ Of(ks, ts) \cup Of(ls, ts) = Of(ks \cup ls, ts)
           /\ "class" \notin ks /\ "chrdev_region" \notin ks => Of(ks, ts) \cap Base = {}
BY DEF Of, Base, Region, Class

-----------------------------------------------------------------------------
\* Every step of ipc_tunnel_init and ipc_tunnel_exit keeps the account.
LEMMA ModuleNext ==
    ASSUME ModuleType, ModuleInv, ipc_tunnel_init \/ ipc_tunnel_exit
    PROVE  ModuleType' /\ ModuleInv'
<1> USE DEF ModuleType
<1>1. CASE insmod
  <2>1. fields' = {} /\ queues' = {} /\ i' = 0 /\ held' = Count({})
        /\ mpc' = "alloc_chrdev_region"
    BY <1>1 DEF insmod, ModuleInv
  <2> QED
    BY <2>1, KernelModuleAssumption DEF ModuleInv, Tunnels
<1>2. CASE alloc_chrdev_region
  <2>1. Acquire({Region}) = Count({Region})
    BY <1>2, AcquireCount DEF alloc_chrdev_region, ModuleInv
  <2> QED
    BY <1>2, <2>1 DEF alloc_chrdev_region, ModuleInv
<1>3. CASE class_create
  <2>1. Acquire({Class}) = Count(Base)
    BY <1>3, AcquireCount DEF class_create, ModuleInv, Base, Region, Class
  <2>2. Before' = {} /\ Before = {}
    BY <1>3, KernelModuleAssumption DEF class_create, ModuleInv, Before
  <2>3. Base \cup Of({"device"}, Before') = Base /\ Of({"dev"}, Before') = {}
    BY <2>2, OfFacts
  <2> QED
    BY <1>3, <2>1, <2>3 DEF class_create, ModuleInv
<1>4. CASE device_create
  <2> USE <1>4 DEF device_create
  <2>1. CASE mpc' = "destroy_devices"
    <3>1. Created' = Before
      BY <2>1, Rounds DEF Created, ModuleInv, NextTunnel, Of
    <3> QED
      BY <2>1, <3>1 DEF ModuleInv, NextTunnel
  <2>2. CASE mpc' # "destroy_devices"
    <3>1. Base \cup Of({"device"}, Before \cup {i})
             = (Base \cup Of({"device"}, Before)) \cup {<<"device", i>>}
      BY DEF Of
    <3>2. Of({"dev"}, Before \cup {i}) = Of({"dev"}, Before) \cup {<<"dev", i>>}
      BY DEF Of
    <3>3. {<<"device", i>>} \cap (Base \cup Of({"device"}, Before)) = {}
      BY Rounds DEF Of, Base, Region, Class
    <3>4. held' = Count(Base \cup Of({"device"}, Before \cup {i}))
      <4>1. held = Count(Base \cup Of({"device"}, Before))
        BY DEF ModuleInv
      <4>2. held' = Acquire({<<"device", i>>})
        BY <2>2
      <4> QED
        BY <3>1, <3>3, <4>1, <4>2, AcquireCount
    <3>5. fields' = Of({"dev"}, Before \cup {i})
      BY <2>2, <3>2 DEF ModuleInv
    <3>6. CASE i + 1 = DEVICE_COUNT
      <4>1. mpc' = "cdev_add" /\ i' = 0
        BY <2>2, <3>6 DEF NextTunnel
      <4>2. Before' = {}
        BY <4>1 DEF Before
      <4>3. Base \cup Of({"device"}, Tunnels) \cup Of({"cdev"}, Before')
              = Base \cup Of({"device"}, Tunnels)
        BY <4>2, OfFacts
      <4> QED
        BY <2>2, <3>4, <3>5, <3>6, <4>1, <4>3, Rounds DEF ModuleInv, Of
    <3>7. CASE i + 1 # DEVICE_COUNT
      <4>1. mpc' = "device_create" /\ i' = i + 1
        BY <2>2, <3>7 DEF NextTunnel
      <4>2. Before' = Before \cup {i}
        BY <4>1, Rounds DEF Before
      <4> QED
        BY <2>2, <3>4, <3>5, <3>7, <4>1, <4>2, Rounds DEF ModuleInv, Of
    <3> QED
      BY <3>6, <3>7
  <2> QED
    BY <2>1, <2>2
<1>5. CASE cdev_add
  <2> USE <1>5 DEF cdev_add
  <2> DEFINE devices == Base \cup Of({"device"}, Tunnels)
  <2>1. CASE mpc' = "destroy_devices"
    <3>1. Created' = Tunnels
      BY <2>1 DEF Created, ModuleInv, NextTunnel, Of
    <3>2. Of({"cdev"}, CdevsAdded) = Of({"cdev"}, Before)
      BY DEF CdevsAdded, Before
    <3>3. (devices \cup Of({"cdev"}, Before)) \ Of({"cdev"}, Before) = devices
      BY DEF Of, Base, Region, Class
    <3>4. held' = Count(devices)
      BY <2>1, <3>2, <3>3, ReleaseCount DEF ModuleInv, NextTunnel
    <3> QED
      BY <2>1, <3>1, <3>4 DEF ModuleInv, NextTunnel
  <2>2. CASE mpc' # "destroy_devices"
    <3>1. devices \cup Of({"cdev"}, Before \cup {i})
             = (devices \cup Of({"cdev"}, Before)) \cup {<<"cdev", i>>}
      BY DEF Of
    <3>2. {<<"cdev", i>>} \cap (devices \cup Of({"cdev"}, Before)) = {}
      BY Rounds DEF Of, Base, Region, Class
    <3>3. held' = Count(devices \cup Of({"cdev"}, Before \cup {i}))
      <4>1. held = Count(devices \cup Of({"cdev"}, Before))
        BY DEF ModuleInv
      <4>2. held' = Acquire({<<"cdev", i>>})
        BY <2>2
      <4> QED
        BY <3>1, <3>2, <4>1, <4>2, AcquireCount
    <3>4. CASE i + 1 = DEVICE_COUNT
      <4>1. mpc' = "memremap" /\ i' = 0
        BY <2>2, <3>4 DEF NextTunnel
      <4>2. Before' = {}
        BY <4>1 DEF Before
      <4>3. Base \cup Of({"device", "cdev"}, Tunnels) \cup Of(Buffers, Before')
              = devices \cup Of({"cdev"}, Tunnels)
        BY <4>2 DEF Of
      <4>4. Of({"dev"}, Tunnels) \cup Of(Buffers, Before') = Of({"dev"}, Tunnels)
        BY <4>2, OfFacts
      <4> QED
        BY <3>3, <3>4, <4>1, <4>3, <4>4, Rounds DEF ModuleInv
    <3>5. CASE i + 1 # DEVICE_COUNT
      <4>1. mpc' = "cdev_add" /\ i' = i + 1
        BY <2>2, <3>5 DEF NextTunnel
      <4>2. Before' = Before \cup {i}
        BY <4>1, Rounds DEF Before
      <4> QED
        BY <3>3, <3>5, <4>1, <4>2, Rounds DEF ModuleInv
    <3> QED
      BY <3>4, <3>5
  <2> QED
    BY <2>1, <2>2
<1>6. CASE memremap
  <2> USE <1>6 DEF memremap
  <2> DEFINE devices == Base \cup Of({"device", "cdev"}, Tunnels)
  <2>1. PICK got \in SUBSET Buffers :
          /\ held' = Acquire(Of(got, {i}))
          /\ fields' = fields \cup Of(got, {i})
          /\ IF MapFailed(got) THEN mpc' = "unmap_memory" /\ UNCHANGED i
             ELSE NextTunnel("init_waitqueue_head")
    OBVIOUS
  <2>2. Of(got, {i}) \cap (devices \cup Of(Buffers, Before)) = {}
    BY Rounds DEF Of, Base, Region, Class, Buffers
  <2>3. held' = Count((devices \cup Of(Buffers, Before)) \cup Of(got, {i}))
    BY <2>1, <2>2, AcquireCount DEF ModuleInv
  <2>4. CASE MapFailed(got)
    <3>1. fields' \cap Of(Buffers, Tunnels) = Of(Buffers, Before) \cup Of(got, {i})
      <4>1. fields' = (Of({"dev"}, Tunnels) \cup Of(Buffers, Before)) \cup Of(got, {i})
        BY <2>1 DEF ModuleInv
      <4>2. Of({"dev"}, Tunnels) \cap Of(Buffers, Tunnels) = {}
        <5>1. {"dev"} \cap Buffers = {}
          BY DEF Buffers
        <5> QED
          BY <5>1 DEF Of
      <4>3. Of(Buffers, Before) \subseteq Of(Buffers, Tunnels)
            /\ Of(got, {i}) \subseteq Of(Buffers, Tunnels)
        BY Rounds DEF Of
      <4> QED
        BY <4>1, <4>2, <4>3
    <3>2. Of({"dev"}, Tunnels) \subseteq fields'
      BY <2>1 DEF ModuleInv
    <3>3. fields' \subseteq Of(Buffers \cup {"dev"}, Tunnels)
      BY <2>1 DEF Of
    <3> QED
      BY <2>1, <2>3, <2>4, <3>1, <3>2, <3>3 DEF ModuleInv
  <2>5. CASE ~MapFailed(got)
    <3>1. got = Buffers
      BY <2>5 DEF MapFailed
    <3>2. (devices \cup Of(Buffers, Before)) \cup Of(got, {i})
             = devices \cup Of(Buffers, Before \cup {i})
      BY <3>1 DEF Of
    <3>3. fields' = Of({"dev"}, Tunnels) \cup Of(Buffers, Before \cup {i})
      BY <2>1, <3>1 DEF ModuleInv, Of
    <3>4. fields' \subseteq Of(Buffers \cup {"dev"}, Tunnels)
      BY <2>1 DEF Of
    <3>5. CASE i + 1 = DEVICE_COUNT
      <4>1. mpc' = "init_waitqueue_head" /\ i' = 0
        BY <2>1, <2>5, <3>5 DEF NextTunnel
      <4>2. Before' = {}
        BY <4>1 DEF Before
      <4>3. Base \cup Of(Buffers \cup {"device", "cdev"}, Tunnels)
               \cup Of({"ipi_handler"}, Before')
              = devices \cup Of(Buffers, Tunnels)
        BY <4>2 DEF Of
      <4> QED
        BY <2>3, <3>2, <3>4, <3>5, <4>1, <4>2, <4>3, Rounds DEF ModuleInv
    <3>6. CASE i + 1 # DEVICE_COUNT
      <4>1. mpc' = "memremap" /\ i' = i + 1
        BY <2>1, <2>5, <3>6 DEF NextTunnel
      <4>2. Before' = Before \cup {i}
        BY <4>1, Rounds DEF Before
      <4> QED
        BY <2>3, <3>2, <3>3, <3>4, <3>6, <4>1, <4>2, Rounds DEF ModuleInv
    <3> QED
      BY <3>5, <3>6
  <2> QED
    BY <2>4, <2>5
<1>7. CASE init_waitqueue_head
  <2>1. Before' = Before
    BY <1>7 DEF init_waitqueue_head, Before
  <2> QED
    BY <1>7, <2>1 DEF init_waitqueue_head, ModuleInv
<1>8. CASE set_ipi_handler
  <2> USE <1>8 DEF set_ipi_handler
  <2> DEFINE mapped == Base \cup Of(Buffers \cup {"device", "cdev"}, Tunnels)
  <2>1. {<<"ipi_handler", i>>} \cap (mapped \cup Of({"ipi_handler"}, Before)) = {}
    BY Rounds DEF Of, Base, Region, Class, Buffers
  <2>2. (mapped \cup Of({"ipi_handler"}, Before)) \cup {<<"ipi_handler", i>>}
           = mapped \cup Of({"ipi_handler"}, Before \cup {i})
    BY DEF Of
  <2>3. held' = Count(mapped \cup Of({"ipi_handler"}, Before \cup {i}))
    <3>1. held = Count(mapped \cup Of({"ipi_handler"}, Before))
      BY DEF ModuleInv
    <3> QED
      BY <2>1, <2>2, <3>1, AcquireCount
  <2>4. CASE i + 1 = DEVICE_COUNT
    <3>1. mapped \cup Of({"ipi_handler"}, Tunnels) = Base \cup Of(Kinds, Tunnels)
      BY DEF Of, Kinds
    <3>2. queues' = Tunnels
      BY <2>4, Rounds DEF ModuleInv
    <3> QED
      BY <2>3, <2>4, <3>1, <3>2, Rounds DEF ModuleInv
  <2>5. CASE i + 1 # DEVICE_COUNT
    <3>1. Before' = Before \cup {i}
      BY <2>5, Rounds DEF Before
    <3> QED
      BY <2>3, <2>5, <3>1, Rounds DEF ModuleInv
  <2> QED
    BY <2>4, <2>5
<1>9. CASE unmap_memory
  <2> USE <1>9 DEF unmap_memory
  <2> DEFINE all == Base \cup Of({"device", "cdev"}, Tunnels) \cup (fields \cap Of(Buffers, Tunnels))
             old == MappedFields \cup Of({"cdev"}, Tunnels)
  <2>1. Created' = Tunnels
    BY DEF Created, ModuleInv, Of
  <2>2. old \subseteq all
    BY DEF MappedFields, Of
  <2>3. all \ old = Base \cup Of({"device"}, Tunnels)
    BY DEF MappedFields, Of, Base, Region, Class, Buffers
  <2>4. held' = Count(Base \cup Of({"device"}, Tunnels))
    BY <2>2, <2>3, ReleaseCount DEF ModuleInv
  <2> QED
    BY <2>1, <2>4 DEF ModuleInv
<1>10. CASE destroy_devices
  <2> USE <1>10 DEF destroy_devices
  <2> DEFINE devices == Of({"device"}, Created)
  <2>1. (Base \cup devices) \ (devices \cup {Class}) = {Region}
    BY DEF Base, Region, Class, Of
  <2>2. held' = Count({Region})
    BY <2>1, ReleaseCount DEF ModuleInv, Base
  <2> QED
    BY <2>2 DEF ModuleInv
<1>11. CASE unregister_chrdevs
  <2>1. held' = Count({Region} \ {Region})
    BY <1>11, ReleaseCount DEF unregister_chrdevs, ModuleInv
  <2> QED
    BY <1>11, <2>1 DEF unregister_chrdevs, ModuleInv
<1>12. CASE rmmod
  <2>1. held' = Count(Base \cup Of(Kinds, 0 .. DEVICE_COUNT - 1))
    BY <1>12, Rounds DEF rmmod, ModuleInv
  <2> QED
    BY <1>12, <2>1, Rounds DEF rmmod, ModuleInv
<1>13. CASE exit_tunnel
  <2> USE <1>13 DEF exit_tunnel
  <2> DEFINE all == Base \cup Of(Kinds, i .. DEVICE_COUNT - 1)
  <2>1. ExitReleases = Of(Kinds, {i})
    BY DEF ExitReleases, Kinds, Of
  <2>2. ExitReleases \subseteq all
    BY <2>1, Rounds DEF Of
  <2>3. all \ ExitReleases = Base \cup Of(Kinds, i + 1 .. DEVICE_COUNT - 1)
    BY <2>1, Rounds DEF Of, Base, Region, Class, Kinds, Buffers
  <2>4. held' = Count(Base \cup Of(Kinds, i + 1 .. DEVICE_COUNT - 1))
    BY <2>2, <2>3, ReleaseCount DEF ModuleInv
  <2>5. CASE i + 1 = DEVICE_COUNT
    <3>1. held' = Count(Base)
      BY <2>4, <2>5, Rounds, OfFacts
    <3> QED
      BY <2>5, <3>1, Rounds DEF ModuleInv, NextTunnel
  <2>6. CASE i + 1 # DEVICE_COUNT
    BY <2>4, <2>6, Rounds DEF ModuleInv, NextTunnel
  <2> QED
    BY <2>5, <2>6
<1>14. CASE exit_class
  <2>1. held' = Count(Base \ {Class, Region})
    BY <1>14, ReleaseCount DEF exit_class, ModuleInv, Base
  <2>2. Base \ {Class, Region} = {}
    BY DEF Base
  <2> QED
    BY <1>14, <2>1, <2>2 DEF exit_class, ModuleInv
<1> QED
  BY <1>1, <1>2, <1>3, <1>4, <1>5, <1>6, <1>7, <1>8, <1>9, <1>10, <1>11, <1>12, <1>13, <1>14
     DEF ipc_tunnel_init, ipc_tunnel_exit

-----------------------------------------------------------------------------
\* A device can be opened only where it is added and the module is not leaving.
LEMMA OpenPlaces ==
    ASSUME ModuleType, ModuleInv, NEW t \in Tunnels, MayOpen(t)
    PROVE  mpc \notin Quiet
<1>1. <<"cdev", t>> \in Resources
  BY DEF Resources, Of
<1>2. ASSUME NEW rs, held = Count(rs) PROVE <<"cdev", t>> \in rs
  BY <1>1, <1>2 DEF MayOpen, Count
<1>3. <<"cdev", t>> \notin Base /\ <<"cdev", t>> \notin Base \cup Of({"device"}, Before)
  BY DEF Base, Region, Class, Of
<1>4. mpc \in {"unloaded", "alloc_chrdev_region"} => held = Count({})
  BY DEF ModuleInv
<1>5. mpc = "class_create" => held = Count({Region})
  BY DEF ModuleInv
<1>6. mpc = "device_create" => held = Count(Base \cup Of({"device"}, Before))
  BY DEF ModuleInv
<1>7. mpc = "exit_class" => held = Count(Base)
  BY DEF ModuleInv
<1> QED
  BY <1>2, <1>3, <1>4, <1>5, <1>6, <1>7 DEF Quiet, Base, MayOpen

\* A release, or the loss of one of two references, leaves no tunnel with a
\* wrong is_open; the last user of a tunnel ends its race.
LEMMA ReleaseOwner ==
    ASSUME UserType, OneOwner, NEW u \in Users, NEW last \in BOOLEAN, stage[u] = "open",
           DevRelease(u, last), tunnel' = tunnel, mpc' = mpc
    PROVE  OneOwner'
<1> USE DEF UserType
<1>1. CASE ~last
  <2>1. stage' = stage /\ is_open' = is_open /\ raced' = raced
    BY <1>1 DEF DevRelease
  <2> QED
    BY <2>1 DEF OneOwner, Owners, InUse
<1>2. CASE last
  <2>1. /\ stage' = [stage EXCEPT ![u] = "closed"]
        /\ is_open' = [is_open EXCEPT ![tunnel[u]] = FALSE]
        /\ raced' = IF Owners(tunnel[u]) = {u} THEN raced \ {tunnel[u]} ELSE raced
    BY <1>2 DEF DevRelease
  <2>2. \A t \in Tunnels : Owners(t)' = Owners(t) \ {u}
    BY <2>1 DEF Owners, InUse
  <2>3. u \in Owners(tunnel[u])
    BY DEF Owners, InUse
  <2> SUFFICES ASSUME mpc # "unloaded", NEW t \in Tunnels, t \notin raced'
               PROVE  /\ \A v, w \in Owners(t)' : v = w
                      /\ is_open'[t] <=> \E v \in Owners(t)' : stage'[v] = "open"
    BY DEF OneOwner
  <2>4. CASE t = tunnel[u]
    <3>1. Owners(t) = {u}
      BY <2>1, <2>3, <2>4 DEF OneOwner
    <3> QED
      BY <2>1, <2>2, <2>4, <3>1
  <2>5. CASE t # tunnel[u]
    <3>1. t \notin raced /\ is_open'[t] = is_open[t]
      BY <2>1, <2>5
    <3>2. Owners(t)' = Owners(t) /\ \A v \in Owners(t) : stage'[v] = stage[v]
      BY <2>1, <2>2, <2>5 DEF Owners
    <3> QED
      BY <3>1, <3>2 DEF OneOwner
  <2> QED
    BY <2>4, <2>5
<1> QED
  BY <1>1, <1>2

\* Every step of a user keeps one owner per tunnel, except where dev_open was
\* preempted, and mappings inside their block.
LEMMA UserNext ==
    ASSUME ModuleType, ModuleInv, UserType, UserInv, OneOwner, MappingInv,
           NEW u \in Users, UserStep(u)
    PROVE  UserType' /\ UserInv' /\ OneOwner' /\ MappingInv'
<1> USE DEF UserType
<1>0. UNCHANGED mvars
  BY DEF UserStep, DevOpen, DevOpenTest, DevOpenSet, DevMmap, Close, Munmap
<1>01. mpc' = mpc
  BY <1>0 DEF mvars
<1>1. ASSUME NEW t \in Tunnels, DevOpen(u, t) PROVE UserType' /\ UserInv' /\ OneOwner' /\ MappingInv'
  <2> USE <1>1 DEF DevOpen
  <2>1. mpc \notin Quiet
    BY OpenPlaces
  <2>2. fd[u] = FALSE /\ vma[u] = {}
    BY DEF UserInv
  <2>3. UserType'
    OBVIOUS
  <2>4. UserInv'
    BY <2>1, <2>2, <1>01 DEF UserInv, Live
  <2>5. OneOwner'
    <3>1. \A s \in Tunnels : Owners(s)' = Owners(s)
      BY DEF Owners, InUse
    <3>2. \A s \in Tunnels : \A v \in Owners(s) : stage'[v] = stage[v]
      BY DEF Owners, InUse
    <3> QED
      BY <1>01, <3>1, <3>2 DEF OneOwner
  <2>6. MappingInv'
    BY <2>2 DEF MappingInv
  <2> QED
    BY <2>3, <2>4, <2>5, <2>6
<1>2. CASE DevOpenTest(u)
  <2> USE <1>2 DEF DevOpenTest
  <2>2. UserType'
    OBVIOUS
  <2>3. UserInv'
    BY <1>01 DEF UserInv, Live
  <2>4. OneOwner'
    <3> SUFFICES ASSUME mpc # "unloaded", NEW t \in Tunnels, t \notin raced'
                 PROVE  /\ \A v, w \in Owners(t)' : v = w
                        /\ is_open[t] <=> \E v \in Owners(t)' : stage'[v] = "open"
      BY <1>01 DEF OneOwner
    <3>1. t \notin raced
      OBVIOUS
    <3>2. /\ \A v, w \in Owners(t) : v = w
          /\ is_open[t] <=> \E v \in Owners(t) : stage[v] = "open"
      BY <3>1 DEF OneOwner
    <3>3. CASE tunnel[u] = t /\ ~is_open[t]
      <4>1. Owners(t) = {}
        <5>1. \A v \in Owners(t) : stage[v] \in {"set", "open"}
          BY DEF Owners, InUse
        <5> QED
          BY <3>2, <3>3, <5>1
      <4>2. Owners(t)' = {u} /\ stage'[u] = "set"
        BY <3>3, <4>1 DEF Owners, InUse
      <4> QED
        BY <3>3, <4>2
    <3>4. CASE ~(tunnel[u] = t /\ ~is_open[t])
      <4>1. Owners(t)' = Owners(t) /\ \A v \in Owners(t) : stage'[v] = stage[v]
        BY <3>4 DEF Owners, InUse
      <4> QED
        BY <3>2, <4>1
    <3> QED
      BY <3>3, <3>4
  <2>5. MappingInv'
    BY DEF MappingInv
  <2> QED
    BY <2>2, <2>3, <2>4, <2>5
<1>3. CASE DevOpenSet(u)
  <2> USE <1>3 DEF DevOpenSet
  <2>2. UserType'
    OBVIOUS
  <2>3. UserInv'
    BY <1>01 DEF UserInv, Live
  <2>4. OneOwner'
    <3>1. \A t \in Tunnels : Owners(t)' = Owners(t)
      BY DEF Owners, InUse
    <3>2. u \in Owners(tunnel[u]) /\ stage'[u] = "open" /\ is_open'[tunnel[u]]
      BY DEF Owners, InUse
    <3>3. \A t \in Tunnels : t # tunnel[u] =>
             is_open'[t] = is_open[t] /\ \A v \in Owners(t) : stage'[v] = stage[v]
      BY DEF Owners
    <3> QED
      BY <1>01, <3>1, <3>2, <3>3 DEF OneOwner
  <2>5. MappingInv'
    BY DEF MappingInv
  <2> QED
    BY <2>2, <2>3, <2>4, <2>5
<1>4. ASSUME NEW vm_pgoff \in 0 .. 2 * AddressPages - 1, NEW pages \in 1 .. AddressPages - 1,
             DevMmap(u, vm_pgoff, pages)
      PROVE  UserType' /\ UserInv' /\ OneOwner' /\ MappingInv'
  <2> DEFINE offset == vm_pgoff % AddressPages
             t == tunnel[u]
             pfn == (shared_buffer_address[t] + offset) % AddressPages
  <2>1. /\ t \in Tunnels
        /\ shared_buffer_address[t] \in 0 .. AddressPages - 1
        /\ shared_buffer_size[t] \in 0 .. AddressPages - 1
        /\ shared_buffer_address[t] + shared_buffer_size[t] <= AddressPages
        /\ AddressPages \in Nat \ {0}
    BY KernelModuleAssumption
  <2>2. offset \in 0 .. AddressPages - 1
    BY <2>1
  <2>3. offset < shared_buffer_size[t] /\ pages <= shared_buffer_size[t] - offset
    BY <1>4, <2>1, <2>2 DEF DevMmap, OutsideBlock
  <2>4. pfn = shared_buffer_address[t] + offset
    <3> HIDE DEF offset
    <3> QED
      BY <2>1, <2>2, <2>3
  <2>5. /\ vma' = [vma EXCEPT ![u] = {[pfn |-> pfn, pages |-> pages]}]
        /\ UNCHANGED <<is_open, stage, tunnel, fd, early, raced>> /\ stage[u] = "open"
    BY <1>4 DEF DevMmap
  <2> HIDE DEF offset, pfn
  <2>6. [pfn |-> pfn, pages |-> pages] \in [pfn : 0 .. AddressPages - 1, pages : 1 .. AddressPages - 1]
    BY <2>1, <2>2, <2>3, <2>4
  <2>7. UserType'
    BY <2>5, <2>6
  <2>8. UserInv'
    BY <1>01, <2>5 DEF UserInv, Live
  <2>9. OneOwner'
    BY <1>01, <2>5 DEF OneOwner, Owners, InUse
  <2>10. MappingInv'
    BY <2>1, <2>2, <2>3, <2>4, <2>5 DEF MappingInv
  <2> QED
    BY <2>7, <2>8, <2>9, <2>10
<1>5. CASE Close(u)
  <2> USE <1>5 DEF Close
  <2>1. DevRelease(u, vma[u] = {})
    OBVIOUS
  <2>2. UserType'
    BY <2>1 DEF DevRelease
  <2>3. UserInv'
    BY <1>01, <2>1 DEF UserInv, Live, DevRelease
  <2>4. OneOwner'
    BY <1>01, <2>1, ReleaseOwner
  <2>5. MappingInv'
    BY DEF MappingInv
  <2> QED
    BY <2>2, <2>3, <2>4, <2>5
<1>6. CASE Munmap(u)
  <2> USE <1>6 DEF Munmap
  <2>1. DevRelease(u, ~fd[u])
    OBVIOUS
  <2>2. UserType'
    BY <2>1 DEF DevRelease
  <2>3. UserInv'
    BY <1>01, <2>1 DEF UserInv, Live, DevRelease
  <2>4. OneOwner'
    BY <1>01, <2>1, ReleaseOwner
  <2>5. MappingInv'
    BY DEF MappingInv
  <2> QED
    BY <2>2, <2>3, <2>4, <2>5
<1> QED
  BY <1>1, <1>2, <1>3, <1>4, <1>5, <1>6 DEF UserStep

-----------------------------------------------------------------------------
IInv == ModuleType /\ ModuleInv /\ UserType /\ UserInv /\ OneOwner /\ MappingInv

\* Before insmod nothing is held and nothing is open.
LEMMA InitIInv == Init => IInv
<1> SUFFICES ASSUME Init PROVE IInv
  OBVIOUS
<1> USE DEF Init
<1>1. ModuleType
  BY KernelModuleAssumption DEF ModuleType, Tunnels
<1>2. ModuleInv
  BY DEF ModuleInv, Count
<1>3. UserType
  BY KernelModuleAssumption DEF UserType, Tunnels
<1>4. UserInv /\ OneOwner /\ MappingInv
  BY DEF UserInv, OneOwner, Live, MappingInv
<1> QED
  BY <1>1, <1>2, <1>3, <1>4 DEF IInv

\* What users do to open files leaves the module's part of the invariant alone.
LEMMA ModuleStutters ==
    ASSUME ModuleType, ModuleInv, UNCHANGED mvars
    PROVE  ModuleType' /\ ModuleInv'
<1>1. mpc' = mpc /\ i' = i /\ held' = held /\ fields' = fields /\ queues' = queues
  BY DEF mvars
<1>2. Before' = Before /\ Created' = Created
  BY <1>1 DEF Before, Created
<1>3. ModuleType'
  BY <1>1 DEF ModuleType
<1>4. ModuleInv'
  BY <1>1, <1>2 DEF ModuleInv
<1> QED
  BY <1>3, <1>4

\* The steps of the module leave the users alone, but for the end of a failed
\* load, which frees the module under them; insmod, which clears is_open, and
\* rmmod find no open file.
LEMMA NextIInv == IInv /\ [Next]_vars => IInv'
<1> SUFFICES ASSUME IInv, [Next]_vars PROVE IInv'
  OBVIOUS
<1> USE DEF IInv
<1>1. CASE ipc_tunnel_init \/ ipc_tunnel_exit
  <2>1. ModuleType' /\ ModuleInv'
    BY <1>1, ModuleNext
  <2>2. CASE insmod
    <3>1. \A u \in Users : ~Live(u)
      BY <2>2 DEF UserInv, Quiet, insmod
    <3>2. UserType' /\ UserInv' /\ MappingInv'
      BY <2>2, <3>1 DEF insmod, UserType, UserInv, Live, MappingInv
    <3>3. \A t \in Tunnels : Owners(t)' = {} /\ is_open'[t] = FALSE
      BY <2>2, <3>1 DEF insmod, Owners, InUse, Live
    <3> QED
      BY <2>1, <3>2, <3>3 DEF OneOwner
  <2>3. CASE unregister_chrdevs
    <3>1. \A u \in Users : stage'[u] = IF Live(u) THEN "freed" ELSE stage[u]
      BY <2>3 DEF unregister_chrdevs
    <3>2. UserType'
      BY <2>3 DEF unregister_chrdevs, UserType
    <3>3. \A u \in Users : ~Live(u)'
      BY <3>1 DEF Live
    <3>4. UserInv' /\ MappingInv'
      BY <2>3, <3>1, <3>3 DEF unregister_chrdevs, UserInv, MappingInv
    <3> QED
      BY <2>1, <2>3, <3>2, <3>4 DEF unregister_chrdevs, OneOwner
  <2>4. CASE ~insmod /\ ~unregister_chrdevs
    <3>1. UNCHANGED uvars /\ mpc # "unloaded"
      BY <1>1, <2>4 DEF ipc_tunnel_init, ipc_tunnel_exit, alloc_chrdev_region, class_create,
           device_create, cdev_add, memremap, init_waitqueue_head, set_ipi_handler, unmap_memory,
           destroy_devices, rmmod, exit_tunnel, exit_class
    <3>2. /\ mpc' \in Quiet => mpc \in Quiet \/ \A u \in Users : ~Live(u)
          /\ mpc = "loaded" => mpc' = "loaded" \/ \A u \in Users : ~Live(u)
      BY <1>1, <2>4 DEF ipc_tunnel_init, ipc_tunnel_exit, alloc_chrdev_region, class_create,
           device_create, cdev_add, memremap, init_waitqueue_head, set_ipi_handler, unmap_memory,
           destroy_devices, rmmod, exit_tunnel, exit_class, Quiet, NextTunnel
    <3>3. UserType' /\ MappingInv'
      BY <3>1 DEF uvars, UserType, MappingInv
    <3>4. \A u \in Users : Live(u)' = Live(u)
      BY <3>1 DEF uvars, Live
    <3>5. UserInv'
      BY <3>1, <3>2, <3>4 DEF uvars, UserInv
    <3>6. OneOwner'
      BY <3>1 DEF uvars, OneOwner, Owners, InUse
    <3> QED
      BY <2>1, <3>3, <3>5, <3>6
  <2> QED
    BY <2>2, <2>3, <2>4
<1>2. ASSUME NEW u \in Users, UserStep(u) PROVE IInv'
  <2>1. UNCHANGED mvars
    BY <1>2 DEF UserStep, DevOpen, DevOpenTest, DevOpenSet, DevMmap, Close, Munmap
  <2>2. ModuleType' /\ ModuleInv'
    BY <2>1, ModuleStutters
  <2> QED
    BY <1>2, <2>2, UserNext
<1>3. CASE UNCHANGED vars
  <2>1. ModuleType' /\ ModuleInv'
    BY <1>3, ModuleStutters DEF vars
  <2> QED
    BY <1>3, <2>1 DEF vars, uvars, mvars, UserType, UserInv, Live, OneOwner, Owners, InUse,
         MappingInv
<1> QED
  BY <1>1, <1>2, <1>3 DEF Next

\* No resource of the kernel is released twice or without having been
\* acquired, wherever ipc_tunnel_init fails and however often it is tried.
THEOREM TypeCorrect == Spec => []TypeOK
<1>1. IInv => TypeOK
  <2> SUFFICES ASSUME IInv PROVE TypeOK
    OBVIOUS
  <2>1. \A rs : Count(rs) \in [Resources -> {0, 1}]
    BY DEF Count
  <2>2. held \in [Resources -> {0, 1}]
    BY <2>1 DEF IInv, ModuleInv, ModuleType
  <2> QED
    BY <2>2 DEF IInv, ModuleType, UserType, TypeOK
<1> QED
  BY <1>1, InitIInv, NextIInv, PTL DEF Spec

\* A load that failed, and an unload, leave nothing behind, whatever the
\* users do and however the kernel schedules them.
THEOREM NothingLeft == Spec => []NothingLeaked
<1> DEFINE Account == ModuleType /\ ModuleInv
<1>1. Init => Account
  BY InitIInv DEF IInv
<1>2. Account /\ [Next]_vars => Account'
  <2> SUFFICES ASSUME Account, [Next]_vars PROVE Account'
    OBVIOUS
  <2>1. CASE ipc_tunnel_init \/ ipc_tunnel_exit
    BY <2>1, ModuleNext
  <2>2. CASE UNCHANGED mvars
    BY <2>2, ModuleStutters
  <2>3. ASSUME NEW u \in Users, UserStep(u) PROVE UNCHANGED mvars
    BY <2>3 DEF UserStep, DevOpen, DevOpenTest, DevOpenSet, DevMmap, Close, Munmap
  <2> QED
    BY <2>1, <2>2, <2>3 DEF Next, vars
<1>3. Account => NothingLeaked
  BY DEF ModuleInv, NothingLeaked, Count
<1> QED
  BY <1>1, <1>2, <1>3, PTL DEF Spec

\* A file opened after insmod always has a tunnel that is mapped and has its
\* queue and handler; one opened during insmod has it once insmod has ended.
THEOREM Served == Spec => []UsersServed
<1>1. IInv => UsersServed
  <2> SUFFICES ASSUME IInv, NEW u \in Users, InUse(u), u \in early => mpc = "loaded"
               PROVE  /\ tunnel[u] \in queues
                      /\ \A k \in Buffers \cup {"ipi_handler", "cdev"} : held[<<k, tunnel[u]>>] = 1
    BY DEF UsersServed
  <2>1. mpc = "loaded" /\ tunnel[u] \in Tunnels
    BY DEF IInv, UserInv, UserType, InUse, Live
  <2>2. queues = Tunnels /\ held = Count(Base \cup Of(Kinds, Tunnels))
    BY <2>1 DEF IInv, ModuleInv
  <2>3. \A k \in Kinds : <<k, tunnel[u]>> \in Resources /\ <<k, tunnel[u]>> \in Of(Kinds, Tunnels)
    BY <2>1 DEF Resources, Of, Kinds
  <2> QED
    BY <2>1, <2>2, <2>3 DEF Count, Kinds
<1> QED
  BY <1>1, InitIInv, NextIInv, PTL DEF Spec

\* A tunnel has one user at a time, and is_open says whether it has one, until
\* an open is preempted between its test and its store, and again when the
\* users it let in have left.
THEOREM SingleOwner == Spec => []OneOwner
BY InitIInv, NextIInv, PTL DEF Spec, IInv

\* dev_mmap grants no page outside the block tunnel_configs gives its tunnel,
\* whatever the table.
THEOREM MappingsInside == Spec => []MappedInside
<1>1. IInv => MappedInside
  <2> SUFFICES ASSUME IInv, NEW u \in Users, NEW p \in Mapped(u)
               PROVE  p \in Block(tunnel[u])
    BY DEF MappedInside, IInv, UserType
  <2>1. PICK m \in vma[u] : \E k \in 0 .. m.pages - 1 : p = (m.pfn + k) % AddressPages
    BY DEF Mapped
  <2>2. PICK k \in 0 .. m.pages - 1 : p = (m.pfn + k) % AddressPages
    BY <2>1
  <2> DEFINE a == shared_buffer_address[tunnel[u]]
             n == shared_buffer_size[tunnel[u]]
  <2>3. /\ a \in Nat /\ n \in Nat /\ a + n <= AddressPages /\ AddressPages \in Nat \ {0}
        /\ m.pfn \in Nat /\ m.pages \in Nat
        /\ a <= m.pfn /\ m.pfn + m.pages <= a + n
    BY KernelModuleAssumption DEF IInv, UserType, MappingInv
  <2> HIDE DEF a, n
  <2>4. p = m.pfn + k /\ p - a \in 0 .. n - 1 /\ p = a + (p - a)
    BY <2>2, <2>3
  <2> QED
    BY <2>4 DEF Block, a, n
<1> QED
  BY <1>1, InitIInv, NextIInv, PTL DEF Spec
==============================================================================
