-------------------------- MODULE ShmSeqlock_proofs --------------------------
(***************************************************************************)
(* Proofs about the shared memory snapshots of the uncached build, for any *)
(* fields and any number of updates, where Linux and CPU1 map the block    *)
(* alike, so that a load returns what the memory holds.  The invariant     *)
(* says that as long as the counter still has the reader's start value,    *)
(* everything the reader has copied comes from that update; the fence      *)
(* makes the second load of the counter vouch for the whole copy.          *)
(***************************************************************************)
EXTENDS ShmSeqlock, TLAPS

\* The counter tells which update the fields come from.
WriterInv ==
    /\ Updating => /\ counter = 2 * update - 1
                   /\ \A f \in Fields \ unstored : shm[f] = update
    /\ ~Updating => /\ counter = 2 * update
                    /\ \A f \in Fields : shm[f] = update

\* What the reader may conclude from the counter.
ReaderInv ==
    /\ shmPrevCounter <= counter
    /\ rpc = "copy" =>
          /\ startVal % 2 = 0
          /\ startVal <= counter
          /\ shmPrevCounter < startVal
          /\ counter = startVal => \A f \in Fields \ unloaded : 2 * copy[f] = startVal
          /\ reloaded => /\ unloaded = {}
                         /\ endVal = startVal => \A f \in Fields : 2 * copy[f] = startVal

IInv == TypeOK /\ WriterInv /\ ReaderInv /\ NoTornSnapshot

\* The block is zero before CPU1 writes it.
LEMMA InitIInv == Init => IInv
<1> SUFFICES ASSUME Init PROVE IInv
  OBVIOUS
<1>1. TypeOK
  <2>1. update \in 0 .. MaxUpdates
    BY ShmAssumption DEF Init
  <2>2. /\ shm \in [Fields -> Nat] /\ copy \in [Fields -> Nat]
        /\ vars_seen \in [Fields -> Nat]
    BY DEF Init
  <2>3. /\ unstored \subseteq Fields /\ unloaded \subseteq Fields /\ reloaded \in BOOLEAN
        /\ line \in [Words -> Nat \cup {Absent}]
    BY DEF Init
  <2> QED
    BY <2>1, <2>2, <2>3 DEF Init, TypeOK
<1>2. ~Updating
  BY DEF Init, Updating
<1>3. WriterInv /\ ReaderInv /\ NoTornSnapshot
  BY <1>2 DEF Init, WriterInv, ReaderInv, NoTornSnapshot
<1> QED
  BY <1>1, <1>3 DEF IInv

\* Every step of CPU1's task and of the reader preserves the invariant.
LEMMA NextIInv ==
    ASSUME ~Cached, Coherent
    PROVE  IInv /\ [Next]_vars => IInv'
<1> SUFFICES ASSUME IInv, [Next]_vars PROVE IInv'
  OBVIOUS
<1> USE DEF IInv, Loads, Fill
<1>1. CASE UpdateBegin
  <2> USE <1>1 DEF UpdateBegin, rvars
  <2>1. TypeOK'
    BY ShmAssumption DEF TypeOK
  <2>2. counter' = counter + 1 /\ counter' % 2 = 1
    BY DEF TypeOK, Updating
  <2>3. WriterInv'
    BY <2>2 DEF WriterInv, TypeOK, Updating
  <2>4. ReaderInv'
    BY <2>2 DEF ReaderInv, TypeOK
  <2> QED
    BY <2>1, <2>3, <2>4 DEF NoTornSnapshot
<1>2. ASSUME NEW f \in Fields, StoreField(f) PROVE IInv'
  <2> USE <1>2 DEF StoreField, rvars
  <2>1. TypeOK'
    BY DEF TypeOK
  <2>2. WriterInv'
    BY DEF WriterInv, TypeOK, Updating
  <2>3. ReaderInv'
    BY DEF ReaderInv
  <2> QED
    BY <2>1, <2>2, <2>3 DEF NoTornSnapshot
<1>3. CASE UpdateEnd
  <2> USE <1>3 DEF UpdateEnd, rvars
  <2>1. TypeOK'
    BY DEF TypeOK
  <2>2. counter' = counter + 1 /\ counter' % 2 = 0
    BY DEF TypeOK, Updating
  <2>3. WriterInv'
    BY <2>2 DEF WriterInv, TypeOK, Updating
  <2>4. ReaderInv'
    BY <2>2 DEF ReaderInv, TypeOK
  <2> QED
    BY <2>1, <2>3, <2>4 DEF NoTornSnapshot
<1>4. CASE UpdateVariablesFromShm \/ Spin \/ NoNewValues \/ Retry
  BY <1>4 DEF UpdateVariablesFromShm, Spin, NoNewValues, Retry, wvars, TypeOK, WriterInv,
              ReaderInv, NoTornSnapshot, Updating
<1>5. CASE LoadStartVal
  <2> USE <1>5 DEF LoadStartVal, wvars
  <2>1. TypeOK'
    BY DEF TypeOK
  <2>2. ReaderInv'
    BY DEF ReaderInv, TypeOK, Updating
  <2> QED
    BY <2>1, <2>2 DEF WriterInv, NoTornSnapshot, Updating
<1>6. ASSUME NEW f \in Fields, LoadField(f) PROVE IInv'
  <2> USE <1>6 DEF LoadField, wvars
  <2>1. TypeOK'
    BY DEF TypeOK
  <2>2. counter = startVal => 2 * shm[f] = startVal
    BY DEF ReaderInv, WriterInv, Updating
  <2>3. ReaderInv'
    BY <2>2 DEF ReaderInv, TypeOK
  <2> QED
    BY <2>1, <2>3 DEF WriterInv, NoTornSnapshot, Updating
<1>7. CASE LoadEndVal
  <2> USE <1>7 DEF LoadEndVal, wvars
  <2>1. TypeOK'
    BY DEF TypeOK
  <2>2. unloaded = {}
    BY DEF CopyOrdered
  <2>3. ReaderInv'
    BY <2>2 DEF ReaderInv, TypeOK
  <2> QED
    BY <2>1, <2>3 DEF WriterInv, NoTornSnapshot, Updating
<1>8. CASE Accept
  <2> USE <1>8 DEF Accept, wvars
  <2>1. TypeOK'
    BY DEF TypeOK
  <2>2. ReaderInv'
    BY DEF ReaderInv, TypeOK
  <2>3. NoTornSnapshot'
    BY DEF NoTornSnapshot, ReaderInv
  <2> QED
    BY <2>1, <2>2, <2>3 DEF WriterInv, Updating
<1>9. CASE UNCHANGED vars
  BY <1>9 DEF vars, wvars, rvars, TypeOK, WriterInv, ReaderInv, NoTornSnapshot, Updating
<1> QED
  BY <1>1, <1>2, <1>3, <1>4, <1>5, <1>6, <1>7, <1>8, <1>9 DEF Next, Writer, Update, Reader

\* In the uncached build the variables of CPU1's task and of
\* UpdateVariablesFromShm keep their types.
THEOREM TypeCorrect ==
    ASSUME ~Cached, Coherent
    PROVE  Spec => []TypeOK
BY InitIInv, NextIInv, PTL DEF Spec, IInv

\* In the uncached build UpdateVariablesFromShm never accepts a torn snapshot.
THEOREM NoTornSnapshotUncached ==
    ASSUME ~Cached, Coherent
    PROVE  Spec => []NoTornSnapshot
BY InitIInv, NextIInv, PTL DEF Spec, IInv

\* In the uncached build every snapshot is newer, in every field, than the
\* one UpdateVariablesFromShm returned before it.
THEOREM SnapshotsAdvanceUncached ==
    ASSUME ~Cached, Coherent
    PROVE  Spec => SnapshotsAdvance
<1>1. IInv /\ [Next]_vars =>
         [vars_seen' # vars_seen => \A f \in Fields : vars_seen'[f] > vars_seen[f]]_vars
  <2> SUFFICES ASSUME IInv, [Next]_vars, vars_seen' # vars_seen, NEW f \in Fields
               PROVE  vars_seen'[f] > vars_seen[f]
    OBVIOUS
  <2>1. Accept
    BY DEF Next, Writer, Update, Reader, Spin, UpdateBegin, StoreField, UpdateEnd,
           UpdateVariablesFromShm, NoNewValues, LoadStartVal, LoadField, LoadEndVal,
           Retry, vars, wvars, rvars
  <2>2. 2 * copy[f] = startVal /\ 2 * vars_seen[f] = shmPrevCounter
    BY <2>1 DEF Accept, IInv, ReaderInv, NoTornSnapshot
  <2>3. shmPrevCounter < startVal /\ vars_seen'[f] = copy[f]
    BY <2>1 DEF Accept, IInv, ReaderInv
  <2> QED
    BY <2>2, <2>3 DEF IInv, TypeOK
<1> QED
  BY <1>1, InitIInv, NextIInv, PTL DEF Spec, SnapshotsAdvance
==============================================================================
