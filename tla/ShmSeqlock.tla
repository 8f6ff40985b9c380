----------------------------- MODULE ShmSeqlock -----------------------------
(***************************************************************************)
(* The shared memory block of task T0: CPU1 publishes its variables there  *)
(* in every run of the task (APPLICATION_T0 of application_shm.c) and the  *)
(* Linux application takes a snapshot of them (UpdateVariablesFromShm).    *)
(* There is no lock: updateAtomicCounter is odd while CPU1 stores, and the *)
(* reader starts again when the counter changed while it copied.           *)
(*                                                                         *)
(* A field of the block is abstracted to the number of the update that     *)
(* stored it.  Stores between two barriers, and loads between two, happen  *)
(* in any order.  CPU1 has a barrier after it makes the counter odd and    *)
(* before it makes it even, in both builds.  The reader has one after its  *)
(* first load of the counter in both, and one before its second load only  *)
(* in the uncached build: __ATOMIC_ACQUIRE on that load orders what comes  *)
(* after it, not the copy before it.                                       *)
(*                                                                         *)
(* The two sides map the block separately: CPU1 as its firmware was built  *)
(* (VARIANT_Initialize), Linux as the loaded kernel module was (dev_mmap). *)
(* When the module maps it cacheable and the firmware does not, CPU1's     *)
(* stores do not reach the lines in CPU0's cache, and a load may return    *)
(* what such a line holds; line keeps that for each word.                  *)
(***************************************************************************)
EXTENDS Integers

CONSTANTS Fields,       \* words of the block: timestamp, prevUpdateTime, vars
          Cached,       \* TRUE in the IPC_TUNNEL_CACHED build
          Coherent,     \* both sides map the block cacheable, or both do not
          MaxUpdates    \* bound: updates, far below the 2^31 that wrap the counter

ASSUME ShmAssumption == /\ Cached \in BOOLEAN
                        /\ Coherent \in BOOLEAN
                        /\ MaxUpdates \in Nat

VARIABLES counter,          \* updateAtomicCounter
          shm,              \* the other fields of the block
          update,           \* number of the update CPU1 is at
          unstored,         \* fields CPU1 still has to store
          rpc,              \* where the reader stands
          startVal,         \* the counter as first loaded
          endVal,           \* the counter as loaded again
          unloaded,         \* fields the reader still has to load
          reloaded,         \* the second load of the counter has been done
          copy,             \* the reader's copy of the fields
          shmPrevCounter,   \* the counter of the snapshot taken last
          vars_seen,        \* that snapshot, as given to HandleNewVariableData
          line              \* what CPU0's cache holds of each word

wvars == <<counter, shm, update, unstored>>
rvars == <<rpc, startVal, endVal, unloaded, reloaded, copy, shmPrevCounter, vars_seen, line>>
vars == <<wvars, rvars>>

Counter == "updateAtomicCounter"
Words == Fields \cup {Counter}
Absent == -1   \* no line of CPU0's cache holds the word

\* APPLICATION_Init clears the block before T0 is scheduled.
Init == /\ counter = 0
        /\ shm = [f \in Fields |-> 0]
        /\ update = 0
        /\ unstored = {}
        /\ rpc = "idle"
        /\ startVal = 0
        /\ endVal = 0
        /\ unloaded = {}
        /\ reloaded = FALSE
        /\ copy = [f \in Fields |-> 0]
        /\ shmPrevCounter = 0
        /\ vars_seen = [f \in Fields |-> 0]
        /\ line = [w \in Words |-> Absent]
-----------------------------------------------------------------------------
(* APPLICATION_T0, on CPU1 *)

Updating == counter % 2 = 1

\* Mutation of UpdateBegin: the counter is decreased.
UpdateBeginDecrease ==
    /\ ~Updating
    /\ update < MaxUpdates
    /\ counter' = counter - 1
    /\ update' = update + 1
    /\ unstored' = Fields
    /\ UNCHANGED <<shm, rvars>>

\* ATOMIC_INCREASE_COUNTER1
UpdateBegin ==
    /\ ~Updating
    /\ update < MaxUpdates
    /\ counter' = counter + 1
    /\ update' = update + 1
    /\ unstored' = Fields
    /\ UNCHANGED <<shm, rvars>>

StoreField(f) ==
    /\ Updating
    /\ f \in unstored
    /\ shm' = [shm EXCEPT ![f] = update]
    /\ unstored' = unstored \ {f}
    /\ UNCHANGED <<counter, update, rvars>>

\* ATOMIC_INCREASE_COUNTER2
UpdateEnd ==
    /\ Updating
    /\ unstored = {}
    /\ counter' = counter + 1
    /\ UNCHANGED <<shm, update, unstored, rvars>>
-----------------------------------------------------------------------------
(* UpdateVariablesFromShm, on CPU0 *)

\* What a load of word w may return when the memory holds v, and what the
\* cache holds of it afterwards.
Loads(w, v) == IF Coherent \/ line[w] = Absent THEN {v} ELSE {v, line[w]}
Fill(w, v) == line' = IF Coherent THEN line ELSE [line EXCEPT ![w] = v]

\* T0ThreadShm calls again whenever the call before it returned.
UpdateVariablesFromShm ==
    /\ rpc = "idle"
    /\ rpc' = "spin"
    /\ UNCHANGED <<wvars, startVal, endVal, unloaded, reloaded, copy,
                   shmPrevCounter, vars_seen, line>>

\* The counter is odd: load it again.
Spin ==
    /\ rpc = "spin"
    /\ \E v \in Loads(Counter, counter) :
          /\ v % 2 = 1
          /\ startVal' = v
          /\ Fill(Counter, v)
    /\ UNCHANGED <<wvars, rpc, endVal, unloaded, reloaded, copy, shmPrevCounter, vars_seen>>

\* Mutation of NoNewValues: the value of the call before is tested, and the
\* counter is not loaded again.
NoNewValuesUnloaded ==
    /\ rpc = "spin"
    /\ startVal = shmPrevCounter
    /\ rpc' = "idle"
    /\ UNCHANGED <<wvars, startVal, endVal, unloaded, reloaded, copy,
                   shmPrevCounter, vars_seen, line>>

\* The counter is even and unchanged since the last snapshot: return false.
NoNewValues ==
    /\ rpc = "spin"
    /\ \E v \in Loads(Counter, counter) :
          /\ v % 2 = 0
          /\ v = shmPrevCounter
          /\ startVal' = v
          /\ Fill(Counter, v)
    /\ rpc' = "idle"
    /\ UNCHANGED <<wvars, endVal, unloaded, reloaded, copy, shmPrevCounter, vars_seen>>

\* Mutation of LoadStartVal: the reader does not wait for an even counter.
LoadStartValOdd ==
    /\ rpc = "spin"
    /\ \E v \in Loads(Counter, counter) :
          /\ v # shmPrevCounter
          /\ startVal' = v
          /\ Fill(Counter, v)
    /\ unloaded' = Fields
    /\ reloaded' = FALSE
    /\ rpc' = "copy"
    /\ UNCHANGED <<wvars, endVal, copy, shmPrevCounter, vars_seen>>

\* The counter is even and new: the copy starts.
LoadStartVal ==
    /\ rpc = "spin"
    /\ \E v \in Loads(Counter, counter) :
          /\ v % 2 = 0
          /\ v # shmPrevCounter
          /\ startVal' = v
          /\ Fill(Counter, v)
    /\ unloaded' = Fields
    /\ reloaded' = FALSE
    /\ rpc' = "copy"
    /\ UNCHANGED <<wvars, endVal, copy, shmPrevCounter, vars_seen>>

LoadField(f) ==
    /\ rpc = "copy"
    /\ f \in unloaded
    /\ \E v \in Loads(f, shm[f]) :
          /\ copy' = [copy EXCEPT ![f] = v]
          /\ Fill(f, v)
    /\ unloaded' = unloaded \ {f}
    /\ UNCHANGED <<wvars, rpc, startVal, endVal, reloaded, shmPrevCounter, vars_seen>>

\* Mutation of CopyOrdered: no fence before the second load.
CopyUnordered == TRUE

\* The fence before the second load, in the uncached build only.
CopyOrdered == ~Cached => unloaded = {}

LoadEndVal ==
    /\ rpc = "copy"
    /\ ~reloaded
    /\ CopyOrdered
    /\ \E v \in Loads(Counter, counter) :
          /\ endVal' = v
          /\ Fill(Counter, v)
    /\ reloaded' = TRUE
    /\ UNCHANGED <<wvars, rpc, startVal, unloaded, copy, shmPrevCounter, vars_seen>>

\* The loop's condition: the counter changed, start again.
Retry ==
    /\ rpc = "copy"
    /\ reloaded /\ unloaded = {}
    /\ endVal # startVal
    /\ rpc' = "spin"
    /\ UNCHANGED <<wvars, startVal, endVal, unloaded, reloaded, copy,
                   shmPrevCounter, vars_seen, line>>

\* The counter is the same: the copy is taken, and the call returns true.
Accept ==
    /\ rpc = "copy"
    /\ reloaded /\ unloaded = {}
    /\ endVal = startVal
    /\ shmPrevCounter' = startVal
    /\ vars_seen' = copy
    /\ rpc' = "idle"
    /\ UNCHANGED <<wvars, startVal, endVal, unloaded, reloaded, copy, line>>
-----------------------------------------------------------------------------
Update == (\E f \in Fields : StoreField(f)) \/ UpdateEnd
Writer == UpdateBegin \/ Update

Reader == \/ UpdateVariablesFromShm
          \/ Spin
          \/ NoNewValues
          \/ LoadStartVal
          \/ \E f \in Fields : LoadField(f)
          \/ LoadEndVal
          \/ Retry
          \/ Accept

Next == Writer \/ Reader

Spec == Init /\ [][Next]_vars

\* An update that has begun is completed, as T0 runs to its end; T0ThreadShm
\* does nothing but call UpdateVariablesFromShm until it returns true, and
\* then starts over.  Nothing obliges CPU1 to begin an update, and nothing
\* obliges a cache to give up a line.
FairSpec == Spec /\ WF_vars(Update) /\ WF_vars(Reader)
-----------------------------------------------------------------------------
(* Properties *)

\* Every variable of APPLICATION_T0 and UpdateVariablesFromShm has its type.
TypeOK ==
    /\ counter \in Nat
    /\ shm \in [Fields -> Nat]
    /\ update \in 0 .. MaxUpdates
    /\ unstored \subseteq Fields
    /\ rpc \in {"idle", "spin", "copy"}
    /\ startVal \in Nat
    /\ endVal \in Nat
    /\ unloaded \subseteq Fields
    /\ reloaded \in BOOLEAN
    /\ copy \in [Fields -> Nat]
    /\ shmPrevCounter \in Nat
    /\ vars_seen \in [Fields -> Nat]
    /\ line \in [Words -> Nat \cup {Absent}]

\* A snapshot that UpdateVariablesFromShm accepted is one update of CPU1,
\* whole: every field comes from the update its counter value stands for.
NoTornSnapshot == \A f \in Fields : 2 * vars_seen[f] = shmPrevCounter

\* A snapshot is never older than the one before it, in any field.
SnapshotsAdvance ==
    [][vars_seen' # vars_seen =>
          \A f \in Fields : vars_seen'[f] > vars_seen[f]]_vars

\* T0ThreadShm, which polls, does not miss what CPU1 published: once CPU1 makes
\* no more updates, the snapshot the reader has is the last one, however many
\* copies were thrown away because CPU1 updated the block meanwhile, and a call
\* that returns false then means that there are no new values.
LastUpdateSeen == <>[](shmPrevCounter = counter)
==============================================================================
