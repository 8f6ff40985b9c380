-------------------------- MODULE TaskStats_proofs --------------------------
(***************************************************************************)
(* Proofs that the application's list of runs is right for every backlog,  *)
(* send delay, tunnel capacity and wrap of the time: no run twice, the     *)
(* missing ones counted and explained by the drops, and every start time   *)
(* the one CPU1 took.                                                      *)
(***************************************************************************)
EXTENDS TaskStats, FiniteSetTheorems, WellFoundedInduction, TLAPS

\* What sendCounter starts from.
First == IF SendDelay > 1 THEN 1 ELSE 0

\* The run before the first one that Add waits for.
Seen == IF iterationNumber = -1 THEN -1 - First ELSE iterationNumber

\* Every packet is SendDelay runs after the one before it, dropped ones
\* included: so the number of drops a packet reports tells which run it is of.
SentInv ==
    /\ \A k \in 1 .. Len(tunnel) :
          tunnel[k].iterationNumber - Seen
              = SendDelay * (tunnel[k].dropped - totalDroppedPackets + k)
    /\ runs - 1 - sendCounter - Seen
          = SendDelay * (dropped - totalDroppedPackets + Len(tunnel))

\* Later packets report no fewer drops.
DroppedInv ==
    /\ totalDroppedPackets <= dropped /\ dropped <= runs
    /\ \A k \in 1 .. Len(tunnel) :
          /\ totalDroppedPackets <= tunnel[k].dropped
          /\ tunnel[k].dropped <= dropped
          /\ \A j \in 1 .. k : tunnel[j].dropped <= tunnel[k].dropped

\* The runs start one after the other, within one wrap of the time.
StartedInv ==
    /\ \A a, b \in 1 .. runs : a < b => started[a] < started[b]
    /\ runs > 0 => started[runs] = now /\ now < started[1] + Wrap

\* What a packet keeps of time t, and the wraps it leaves out.
Half(t) == t % Wrap
Wraps(t) == t \div Wrap

\* Entry k of a backlog whose newest entry is run r, counted from 1, is the low
\* half of the start of run r - k.
BacklogOf(starts, r, times) ==
    \A k \in 0 .. Backlog - 1 : k < r => starts[k] = Half(times[r - k])

\* Packet p is of one of the n runs that started at the given times.
PacketOf(p, n, times) ==
    /\ p.iterationNumber < n
    /\ BacklogOf(p.startTimes, p.iterationNumber + 1, times)

StartsInv ==
    /\ BacklogOf(startTimes, runs, started)
    /\ \A k \in 1 .. Len(tunnel) : PacketOf(tunnel[k], runs, started)

\* The buffer holds nothing that Add has not seen.
BufInv == /\ buf # << >> => buf[1].iterationNumber <= iterationNumber
          /\ iterationNumber < runs

\* The runs listed are in order, up to the latest one seen, and the others are
\* counted as missed.
ListedInv ==
    /\ Len(records) + missed = iterationNumber + 1
    /\ iterationNumber = -1 <=> Len(records) = 0
    /\ \A k \in 1 .. Len(records) : records[k].iteration <= iterationNumber
    /\ \A j, k \in 1 .. Len(records) : j < k => records[j].iteration < records[k].iteration

\* Every start is the one CPU1 took, less the wraps before the first run listed.
TimesAt(h) ==
    /\ \A k \in 1 .. Len(records) : records[k].start = True(k) - Wrap * h
    /\ IF iterationNumber = -1
       THEN startTimeHigh = 0 /\ prevStartTimeLow = 0
       ELSE /\ startTimeHigh = Wraps(started[iterationNumber + 1]) - h
            /\ prevStartTimeLow = Half(started[iterationNumber + 1])

TimesInv == \E h \in Nat : TimesAt(h)

IInv == /\ TypeOK /\ SentInv /\ DroppedInv /\ StartedInv /\ StartsInv
        /\ BufInv /\ ListedInv /\ MissedExplained /\ TimesInv
-----------------------------------------------------------------------------
(* Arithmetic *)

\* A nonempty set of naturals has a least element.
LEMMA LeastNat ==
    ASSUME NEW T, T \subseteq Nat, T # {}
    PROVE  \E x \in T : \A y \in T : x <= y
<1>1. IsWellFoundedOn({ss \in Nat \X Nat : ss[1] < ss[2]}, Nat)
  BY NatLessThanWellFounded DEF OpToRel
<1>2. PICK x \in T : \A y \in T : ~ (<<y, x>> \in {ss \in Nat \X Nat : ss[1] < ss[2]})
  BY <1>1, WFMin
<1>3. \A y \in T : ~ (y < x)
  BY <1>2
<1> QED
  BY <1>2, <1>3

\* A time is its high half and its low half.
LEMMA DivMod ==
    ASSUME NEW t \in Nat, NEW w \in Nat \ {0}
    PROVE  /\ t \div w \in Nat
           /\ t % w \in 0 .. w - 1
           /\ t - (t % w) = w * (t \div w)
<1>1. t \div w \in Int /\ t \div w >= 0
  OBVIOUS
<1>2. t % w \in 0 .. w - 1
  OBVIOUS
<1>3. t - (t % w) = w * (t \div w)
  OBVIOUS
<1> QED
  BY <1>1, <1>2, <1>3

\* Products with a natural number are monotonic, and distribute.
LEMMA Products ==
    ASSUME NEW w \in Nat, NEW a \in Int, NEW b \in Int
    PROVE  /\ w * a \in Int
           /\ w * (a + b) = w * a + w * b
           /\ w * (a + 1) = w * a + w
           /\ a <= b => w * a <= w * b
           /\ a < b => w * a + w <= w * b
<1>1. w * a \in Int /\ w * (a + b) = w * a + w * b /\ w * (a + 1) = w * a + w
  OBVIOUS
<1>2. a <= b => w * a <= w * b
  OBVIOUS
<1>3. a < b => w * a + w <= w * b
  OBVIOUS
<1> QED
  BY <1>1, <1>2, <1>3

\* Between two times less than a wrap apart the high half grows by one if the
\* low half becomes smaller, and stays if it does not.
LEMMA DropIsWrap ==
    ASSUME NEW w \in Nat \ {0}, NEW a \in Nat, NEW b \in Nat, a <= b, b < a + w
    PROVE  /\ a \div w <= b \div w
           /\ b \div w <= a \div w + 1
           /\ b % w < a % w <=> b \div w # a \div w
<1> DEFINE qa == a \div w  qb == b \div w  la == a % w  lb == b % w
<1>1. /\ qa \in Nat /\ la \in 0 .. w - 1 /\ a - la = w * qa
      /\ qb \in Nat /\ lb \in 0 .. w - 1 /\ b - lb = w * qb
  BY DivMod
<1> HIDE DEF qa, qb, la, lb
<1>2. w * qa \in Int /\ w * qb \in Int /\ w * (qa + 1) = w * qa + w
  BY <1>1, Products
<1>3. qa <= qb
  <2> SUFFICES ASSUME qb < qa PROVE FALSE
    BY <1>1
  <2>1. w * qb + w <= w * qa
    BY <1>1, Products
  <2> QED
    BY <2>1, <1>1, <1>2
<1>4. qb <= qa + 1
  <2> SUFFICES ASSUME qa + 1 < qb PROVE FALSE
    BY <1>1
  <2>1. w * (qa + 1) + w <= w * qb
    BY <1>1, Products
  <2> QED
    BY <2>1, <1>1, <1>2
<1>5. CASE qa = qb
  <2>1. w * qa = w * qb
    BY <1>5
  <2>2. ~ (lb < la)
    BY <2>1, <1>1, <1>2
  <2> QED
    BY <2>2, <1>3, <1>4, <1>5 DEF qa, qb, la, lb
<1>6. CASE qb = qa + 1
  <2>1. w * qb = w * qa + w
    BY <1>6, <1>2
  <2>2. lb < la
    BY <2>1, <1>1, <1>2
  <2>3. qb # qa
    BY <1>6, <1>1
  <2> QED
    BY <2>2, <2>3, <1>3, <1>4 DEF qa, qb, la, lb
<1> QED
  BY <1>1, <1>3, <1>4, <1>5, <1>6

\* A count that never falls and ends at most one above its start changes as
\* often as it has grown.
LEMMA Crossings ==
    ASSUME NEW k \in Nat, NEW q \in [0 .. k -> Int],
           \A a, b \in 0 .. k : a <= b => q[a] <= q[b],
           q[k] <= q[0] + 1
    PROVE  Cardinality({j \in 1 .. k : q[j] # q[j - 1]}) = q[k] - q[0]
<1> DEFINE D == {j \in 1 .. k : q[j] # q[j - 1]}
<1>1. q[0] \in Int /\ q[k] \in Int /\ q[0] <= q[k]
  OBVIOUS
<1>2. \A a \in 0 .. k : q[a] \in Int /\ q[0] <= q[a] /\ q[a] <= q[k]
  OBVIOUS
<1>3. CASE q[k] = q[0]
  <2>1. \A a \in 0 .. k : q[a] = q[0]
    BY <1>1, <1>2, <1>3
  <2>2. \A j \in 1 .. k : j - 1 \in 0 .. k /\ j \in 0 .. k
    OBVIOUS
  <2>3. D = {}
    BY <2>1, <2>2
  <2> HIDE DEF D
  <2>4. Cardinality(D) = 0
    BY <2>3, FS_EmptySet
  <2> QED
    BY <2>4, <1>1, <1>3 DEF D
<1>4. CASE q[k] = q[0] + 1
  <2> DEFINE T == {a \in 0 .. k : q[a] # q[0]}
  <2>1. k \in T /\ T \subseteq Nat
    BY <1>1, <1>4
  <2>2. PICK m \in T : \A a \in T : m <= a
    BY <2>1, LeastNat
  <2>3. m \in 0 .. k /\ q[m] # q[0] /\ m # 0
    BY <2>2
  <2>4. \A a \in 0 .. k : a < m => q[a] = q[0]
    BY <2>2, <2>3
  <2>5. \A a \in 0 .. k : m <= a => q[a] = q[0] + 1
    <3> SUFFICES ASSUME NEW a \in 0 .. k, m <= a PROVE q[a] = q[0] + 1
      OBVIOUS
    <3>1. q[m] <= q[a] /\ q[m] \in Int /\ q[0] < q[m]
      BY <1>1, <1>2, <2>3
    <3>2. q[a] <= q[0] + 1 /\ q[a] \in Int
      BY <1>2, <1>4
    <3> QED
      BY <3>1, <3>2, <1>1
  <2>6. \A j \in 1 .. k : q[j] # q[j - 1] <=> j = m
    <3> SUFFICES ASSUME NEW j \in 1 .. k PROVE q[j] # q[j - 1] <=> j = m
      OBVIOUS
    <3>1. j \in 0 .. k /\ j - 1 \in 0 .. k
      OBVIOUS
    <3>2. CASE j = m
      <4>1. q[j] = q[0] + 1 /\ q[j - 1] = q[0]
        BY <3>1, <3>2, <2>3, <2>4, <2>5
      <4> QED
        BY <4>1, <3>2, <1>1
    <3>3. CASE j < m
      <4>1. q[j] = q[0] /\ q[j - 1] = q[0]
        BY <3>1, <3>3, <2>3, <2>4
      <4> QED
        BY <4>1, <3>3, <2>3
    <3>4. CASE j > m
      <4>1. q[j] = q[0] + 1 /\ q[j - 1] = q[0] + 1
        BY <3>1, <3>4, <2>3, <2>5
      <4> QED
        BY <4>1, <3>4, <2>3
    <3> QED
      BY <3>2, <3>3, <3>4, <2>3
  <2>7. m \in 1 .. k
    BY <2>3
  <2>8. D = {m}
    BY <2>6, <2>7
  <2> HIDE DEF D
  <2>9. Cardinality(D) = 1
    BY <2>8, FS_Singleton
  <2> QED
    BY <2>9, <1>1, <1>4 DEF D
<1> QED
  BY <1>1, <1>3, <1>4

\* The elements of a list to which n more are appended.
LEMMA Appended ==
    ASSUME NEW S, NEW s \in Seq(S), NEW n \in Nat, NEW e \in [1 .. n -> S]
    PROVE  /\ s \o e \in Seq(S)
           /\ Len(s \o e) = Len(s) + n
           /\ \A k \in 1 .. Len(s) : (s \o e)[k] = s[k]
           /\ \A k \in 1 .. n : (s \o e)[Len(s) + k] = e[k]
<1>1. e \in Seq(S) /\ Len(e) = n
  OBVIOUS
<1> QED
  BY <1>1
-----------------------------------------------------------------------------
(* Adding a packet *)

\* The packet that is received next is newer than what Add has seen, by no more
\* runs than the drops between the two explain.
LEMMA NextPacket ==
    ASSUME IInv, NEW p, tunnel # << >>, p = Head(tunnel)
    PROVE  /\ p = tunnel[1] /\ 1 \in 1 .. Len(tunnel)
           /\ p \in Packets /\ PacketOf(p, runs, started)
           /\ totalDroppedPackets <= p.dropped
           /\ p.iterationNumber - Seen = SendDelay * (p.dropped - totalDroppedPackets + 1)
           /\ New(p) \in Nat \ {0}
           /\ New(p) <= SendDelay * (p.dropped - totalDroppedPackets + 1)
           /\ ItCount(p) \in 1 .. Backlog
           /\ ItCount(p) <= New(p)
           /\ ItCount(p) = New(p) \/ ItCount(p) = Backlog
<1>1. 1 \in 1 .. Len(tunnel) /\ p = tunnel[1] /\ tunnel \in Seq(Packets)
  BY DEF IInv, TypeOK
<1>2. p \in Packets /\ PacketOf(p, runs, started)
  BY <1>1 DEF IInv, StartsInv
<1>3. p.iterationNumber \in Nat /\ p.dropped \in Nat
  BY <1>2 DEF Packets
<1>4. totalDroppedPackets <= p.dropped /\ totalDroppedPackets \in Nat
  BY <1>1 DEF IInv, TypeOK, DroppedInv
<1>5. p.iterationNumber - Seen = SendDelay * (p.dropped - totalDroppedPackets + 1)
  BY <1>1 DEF IInv, SentInv
<1> DEFINE n == p.dropped - totalDroppedPackets + 1
           X == SendDelay * n
<1>6. SendDelay \in Nat \ {0} /\ Backlog \in Nat \ {0}
  BY TaskStatsAssumption
<1>7. n \in Nat /\ 1 <= n
  BY <1>3, <1>4
<1>8. X \in Int /\ SendDelay <= X
  <2> HIDE DEF n
  <2>1. X \in Int
    BY <1>6, <1>7
  <2>2. SendDelay * 1 <= SendDelay * n
    BY <1>6, <1>7, Products
  <2>3. SendDelay * 1 = SendDelay
    BY <1>6
  <2> QED
    BY <2>1, <2>2, <2>3
<1>9. p.iterationNumber - Seen = X
  BY <1>5
<1> HIDE DEF n, X
<1>10. iterationNumber \in Int /\ iterationNumber >= -1
  BY TaskStatsAssumption DEF IInv, TypeOK
<1>11. New(p) \in Nat \ {0} /\ New(p) <= X
  <2>1. CASE iterationNumber = -1
    BY <2>1, <1>3, <1>6, <1>8, <1>9 DEF New, Seen, First
  <2>2. CASE iterationNumber # -1
    BY <2>2, <1>3, <1>6, <1>8, <1>9, <1>10 DEF New, Seen
  <2> QED
    BY <2>1, <2>2
<1>12. /\ ItCount(p) \in 1 .. Backlog /\ ItCount(p) <= New(p)
       /\ ItCount(p) = New(p) \/ ItCount(p) = Backlog
  BY <1>6, <1>11 DEF ItCount
<1> QED
  BY <1>1, <1>2, <1>4, <1>5, <1>11, <1>12 DEF n, X

\* When the run of the k-th new entry of packet p started.
Start(p, k) == started[p.iterationNumber + 1 - (ItCount(p) - k)]

\* The new entries of the packet are the low halves of runs that Add has not
\* seen, in order.
LEMMA NewStarts ==
    ASSUME IInv, NEW p, tunnel # << >>, p = Head(tunnel)
    PROVE  /\ \A k \in 1 .. ItCount(p) :
                 /\ Start(p, k) \in Nat
                 /\ Low(p, k) = Half(Start(p, k))
                 /\ Start(p, k) < started[1] + Wrap
                 /\ started[1] <= Start(p, k)
                 /\ iterationNumber # -1 => started[iterationNumber + 1] < Start(p, k)
           /\ \A j, k \in 1 .. ItCount(p) : j < k => Start(p, j) < Start(p, k)
           /\ iterationNumber # -1 => /\ started[iterationNumber + 1] \in Nat
                                      /\ started[1] <= started[iterationNumber + 1]
           /\ started[1] \in Nat
<1> DEFINE C == ItCount(p)
           r(k) == p.iterationNumber + 1 - (C - k)
<1>1. /\ C \in 1 .. Backlog /\ C <= New(p) /\ p \in Packets /\ PacketOf(p, runs, started)
      /\ Backlog \in Nat \ {0}
  BY NextPacket, TaskStatsAssumption
<1>2. p.iterationNumber \in Nat /\ p.iterationNumber < runs /\ runs \in Nat
  <2>1. runs \in Nat
    BY TaskStatsAssumption DEF IInv, TypeOK
  <2> QED
    BY <2>1, <1>1 DEF Packets, PacketOf
<1>3. /\ iterationNumber \in Int /\ iterationNumber >= -1 /\ iterationNumber < runs
      /\ started \in Seq(Nat) /\ Len(started) = runs
      /\ Wrap \in Nat \ {0}
  BY TaskStatsAssumption DEF IInv, TypeOK, BufInv
<1>4. C <= p.iterationNumber - iterationNumber
  BY <1>1 DEF New
<1> HIDE DEF C
<1>5. ASSUME NEW k \in 1 .. C
      PROVE  /\ r(k) \in 1 .. runs /\ iterationNumber + 1 < r(k)
             /\ C - k \in 0 .. Backlog - 1 /\ C - k < p.iterationNumber + 1
             /\ p.iterationNumber + 1 - (C - k) = r(k)
             /\ k # 0
  <2> DEFINE m == p.iterationNumber
  <2>1. /\ m \in Nat /\ m < runs /\ runs \in Nat /\ C \in Nat /\ C <= Backlog
        /\ Backlog \in Nat /\ k \in Nat /\ 1 <= k /\ k <= C
        /\ iterationNumber \in Int /\ iterationNumber >= -1 /\ C <= m - iterationNumber
    BY <1>1, <1>2, <1>3, <1>4
  <2> HIDE DEF m
  <2>2. /\ m + 1 - (C - k) \in 1 .. runs /\ iterationNumber + 1 < m + 1 - (C - k)
        /\ C - k \in 0 .. Backlog - 1 /\ C - k < m + 1
        /\ k # 0
    BY <2>1
  <2> QED
    BY <2>2 DEF m
<1>6. \A a \in 1 .. runs : started[a] \in Nat
  BY <1>3
<1>7. \A a, b \in 1 .. runs : a < b => started[a] < started[b]
  BY DEF IInv, StartedInv
<1>8. 1 \in 1 .. runs /\ runs \in 1 .. runs
  BY <1>2
<1>9. ASSUME NEW a \in 1 .. runs PROVE started[1] <= started[a] /\ started[a] < started[1] + Wrap
  <2>1. started[1] \in Nat /\ started[a] \in Nat /\ started[runs] \in Nat
    BY <1>6, <1>8
  <2>2. started[1] <= started[a]
    BY <2>1, <1>7, <1>8
  <2>3. started[a] <= started[runs]
    BY <2>1, <1>7, <1>8
  <2>4. started[runs] < started[1] + Wrap
    BY <1>8 DEF IInv, StartedInv
  <2> QED
    BY <2>1, <2>2, <2>3, <2>4, <1>3
<1>10. ASSUME NEW k \in 1 .. C PROVE Low(p, k) = Half(started[r(k)])
  <2>1. p.startTimes[C - k] = Half(started[p.iterationNumber + 1 - (C - k)])
    <3>1. BacklogOf(p.startTimes, p.iterationNumber + 1, started)
      BY <1>1 DEF PacketOf
    <3>2. PICK x \in 0 .. Backlog - 1 : x = C - k
      BY <1>5
    <3>3. PICK m \in Int : m = p.iterationNumber + 1
      BY <1>2
    <3>4. x < m /\ BacklogOf(p.startTimes, m, started)
      BY <3>1, <3>2, <3>3, <1>5
    <3>5. p.startTimes[x] = Half(started[m - x])
      BY <3>4 DEF BacklogOf
    <3>6. m - x = p.iterationNumber + 1 - (C - k)
      BY <3>2, <3>3, <1>1, <1>2
    <3> QED
      BY <3>2, <3>5, <3>6
  <2> QED
    BY <2>1, <1>5 DEF Low, C
<1>11. ASSUME NEW k \in 1 .. C
       PROVE  /\ started[r(k)] \in Nat
              /\ Low(p, k) = Half(started[r(k)])
              /\ started[r(k)] < started[1] + Wrap
              /\ started[1] <= started[r(k)]
  BY <1>5, <1>6, <1>9, <1>10
<1>12. ASSUME iterationNumber # -1
       PROVE  iterationNumber + 1 \in 1 .. runs
  BY <1>12, <1>2, <1>3
<1>13. ASSUME NEW k \in 1 .. C, iterationNumber # -1
       PROVE  started[iterationNumber + 1] < started[r(k)]
  BY <1>5, <1>7, <1>12, <1>13
<1>14. ASSUME NEW j \in 1 .. C, NEW k \in 1 .. C, j < k
       PROVE  started[r(j)] < started[r(k)]
  <2>1. r(j) < r(k)
    BY <1>1, <1>2, <1>14
  <2> QED
    BY <2>1, <1>5, <1>7
<1>15. ASSUME iterationNumber # -1
       PROVE  started[iterationNumber + 1] \in Nat /\ started[1] <= started[iterationNumber + 1]
  BY <1>6, <1>9, <1>12, <1>15
<1>16. started[1] \in Nat
  BY <1>6, <1>8
<1> QED
  BY <1>11, <1>13, <1>14, <1>15, <1>16 DEF Start, C

\* The two halves of a time.
LEMMA Halves ==
    ASSUME NEW t \in Nat
    PROVE  Wraps(t) \in Nat /\ Half(t) \in 0 .. Wrap - 1 /\ t - Half(t) = Wrap * Wraps(t)
BY DivMod, TaskStatsAssumption DEF Half, Wraps

\* The low half becomes smaller exactly where the time wraps.
LEMMA HalfDrops ==
    ASSUME NEW a \in Nat, NEW b \in Nat, a <= b, b < a + Wrap
    PROVE  /\ Wraps(a) <= Wraps(b) /\ Wraps(b) <= Wraps(a) + 1
           /\ Half(b) < Half(a) <=> Wraps(b) # Wraps(a)
<1>1. Wrap \in Nat \ {0}
  BY TaskStatsAssumption
<1> QED
  BY <1>1, DropIsWrap DEF Half, Wraps

\* The high half that Add counts is that of the start, less the wraps before
\* the first run listed: the low half became smaller wherever a wrap was, also
\* when the runs at the wrap are missing.
LEMMA NewTimes ==
    ASSUME IInv, NEW p, tunnel # << >>, p = Head(tunnel), NEW h \in Nat, TimesAt(h),
           iterationNumber = -1 => h = Wraps(Start(p, 1))
    PROVE  \A k \in 1 .. ItCount(p) :
              /\ Low(p, k) \in 0 .. Wrap - 1
              /\ High(p, k) \in Nat
              /\ High(p, k) = Wraps(Start(p, k)) - h
              /\ High(p, k) * Wrap + Low(p, k) = Start(p, k) - Wrap * h
<1> DEFINE C == ItCount(p)
           q == [j \in 0 .. C |-> IF j = 0 THEN startTimeHigh + h ELSE Wraps(Start(p, j))]
<1>1. C \in Nat /\ 1 <= C /\ 1 \in 1 .. C
  BY NextPacket, TaskStatsAssumption
<1>2. Wrap \in Nat \ {0} /\ startTimeHigh \in Nat /\ prevStartTimeLow \in 0 .. Wrap - 1
  BY TaskStatsAssumption DEF IInv, TypeOK
<1>3. /\ \A k \in 1 .. C : /\ Start(p, k) \in Nat
                           /\ Low(p, k) = Half(Start(p, k))
                           /\ Start(p, k) < started[1] + Wrap
                           /\ started[1] <= Start(p, k)
      /\ \A j, k \in 1 .. C : j < k => Start(p, j) < Start(p, k)
      /\ started[1] \in Nat
  BY NewStarts
<1>4. \A k \in 1 .. C : Wraps(Start(p, k)) \in Nat /\ Half(Start(p, k)) \in 0 .. Wrap - 1
  BY <1>3, Halves
<1> HIDE DEF C
<1>5. ASSUME NEW j \in 1 .. C, NEW k \in 1 .. C, j <= k
      PROVE  /\ Wraps(Start(p, j)) <= Wraps(Start(p, k))
             /\ Wraps(Start(p, k)) <= Wraps(Start(p, j)) + 1
             /\ Half(Start(p, k)) < Half(Start(p, j)) <=> Wraps(Start(p, k)) # Wraps(Start(p, j))
  <2>1. /\ Start(p, j) \in Nat /\ Start(p, k) \in Nat
        /\ Start(p, j) <= Start(p, k)
        /\ Start(p, k) < Start(p, j) + Wrap
    <3>1. j < k \/ j = k
      BY <1>1, <1>5
    <3> QED
      BY <1>2, <1>3, <3>1
  <2> QED
    BY <2>1, HalfDrops
<1>6. ASSUME NEW k \in 1 .. C
      PROVE  /\ startTimeHigh + h <= Wraps(Start(p, k))
             /\ Wraps(Start(p, k)) <= startTimeHigh + h + 1
  <2>1. CASE iterationNumber = -1
    <3>1. startTimeHigh + h = Wraps(Start(p, 1))
      BY <2>1, <1>1, <1>4 DEF TimesAt
    <3> QED
      BY <3>1, <1>1, <1>5
  <2>2. CASE iterationNumber # -1
    <3> DEFINE t == started[iterationNumber + 1]
    <3>1. t \in Nat /\ started[1] <= t /\ t < Start(p, k)
      BY <2>2, NewStarts DEF C
    <3>2. t <= Start(p, k) /\ Start(p, k) < t + Wrap /\ Start(p, k) \in Nat
      BY <3>1, <1>2, <1>3
    <3>3. startTimeHigh = Wraps(t) - h /\ Wraps(t) \in Nat
      BY <2>2, <3>1, Halves DEF TimesAt
    <3>4. Wraps(t) <= Wraps(Start(p, k)) /\ Wraps(Start(p, k)) <= Wraps(t) + 1
      BY <3>1, <3>2, HalfDrops
    <3>5. startTimeHigh + h = Wraps(t)
      BY <3>3
    <3> QED
      BY <3>4, <3>5
  <2> QED
    BY <2>1, <2>2
<1>7. Low(p, 1) < Low(p, 0) <=> Wraps(Start(p, 1)) # startTimeHigh + h
  <2>1. Low(p, 0) = prevStartTimeLow /\ Low(p, 1) = Half(Start(p, 1))
    BY <1>1, <1>3 DEF Low
  <2>2. CASE iterationNumber = -1
    <3>1. startTimeHigh + h = Wraps(Start(p, 1)) /\ prevStartTimeLow = 0
      BY <2>2, <1>1, <1>4 DEF TimesAt
    <3>2. ~ (Half(Start(p, 1)) < 0)
      BY <1>1, <1>2, <1>4
    <3> QED
      BY <2>1, <3>1, <3>2
  <2>3. CASE iterationNumber # -1
    <3> DEFINE t == started[iterationNumber + 1]
    <3>1. t \in Nat /\ started[1] <= t /\ t < Start(p, 1)
      BY <2>3, <1>1, NewStarts DEF C
    <3>2. t <= Start(p, 1) /\ Start(p, 1) < t + Wrap /\ Start(p, 1) \in Nat
      BY <3>1, <1>1, <1>2, <1>3
    <3>3. startTimeHigh = Wraps(t) - h /\ Wraps(t) \in Nat /\ prevStartTimeLow = Half(t)
      BY <2>3, <3>1, Halves DEF TimesAt
    <3>4. Half(Start(p, 1)) < Half(t) <=> Wraps(Start(p, 1)) # Wraps(t)
      BY <3>1, <3>2, HalfDrops
    <3>5. startTimeHigh + h = Wraps(t)
      BY <3>3
    <3> HIDE DEF t
    <3> QED
      BY <2>1, <3>3, <3>4, <3>5
  <2> QED
    BY <2>2, <2>3
<1>8. /\ q[0] = startTimeHigh + h
      /\ \A j \in 1 .. C : q[j] = Wraps(Start(p, j))
  BY <1>1
<1>9. q \in [0 .. C -> Int]
  <2>1. ASSUME NEW j \in 0 .. C
        PROVE  (IF j = 0 THEN startTimeHigh + h ELSE Wraps(Start(p, j))) \in Int
    <3>1. CASE j = 0
      BY <3>1, <1>2
    <3>2. CASE j # 0
      <4>1. j \in 1 .. C
        BY <3>2, <1>1
      <4> QED
        BY <3>2, <4>1, <1>4
    <3> QED
      BY <3>1, <3>2
  <2> QED
    BY <2>1
<1>10. \A j \in 1 .. C : Low(p, j) < Low(p, j - 1) <=> q[j] # q[j - 1]
  <2> SUFFICES ASSUME NEW j \in 1 .. C
               PROVE  Low(p, j) < Low(p, j - 1) <=> q[j] # q[j - 1]
    OBVIOUS
  <2>1. CASE j = 1
    <3>1. j - 1 = 0
      BY <2>1
    <3> QED
      BY <2>1, <3>1, <1>1, <1>7, <1>8
  <2>2. CASE j # 1
    <3>1. j - 1 \in 1 .. C /\ j - 1 <= j
      BY <2>2, <1>1
    <3>2. Low(p, j) = Half(Start(p, j)) /\ Low(p, j - 1) = Half(Start(p, j - 1))
      BY <3>1, <1>3
    <3>3. q[j] = Wraps(Start(p, j)) /\ q[j - 1] = Wraps(Start(p, j - 1))
      BY <3>1, <1>8
    <3> QED
      BY <3>1, <3>2, <3>3, <1>5
  <2> QED
    BY <2>1, <2>2
<1>11. ASSUME NEW a \in 0 .. C, NEW b \in 0 .. C, a <= b
       PROVE  q[a] <= q[b]
  <2>1. CASE a = 0 /\ b = 0
    BY <2>1, <1>2, <1>8
  <2>2. CASE a = 0 /\ b # 0
    <3>1. b \in 1 .. C
      BY <2>2, <1>1
    <3> QED
      BY <3>1, <2>2, <1>6, <1>8
  <2>3. CASE a # 0
    <3>1. a \in 1 .. C /\ b \in 1 .. C
      BY <2>3, <1>1, <1>11
    <3> QED
      BY <3>1, <1>5, <1>8, <1>11
  <2> QED
    BY <2>1, <2>2, <2>3
<1> HIDE DEF q
<1> SUFFICES ASSUME NEW k \in 1 .. C
             PROVE  /\ Low(p, k) \in 0 .. Wrap - 1
                    /\ High(p, k) \in Nat
                    /\ High(p, k) = Wraps(Start(p, k)) - h
                    /\ High(p, k) * Wrap + Low(p, k) = Start(p, k) - Wrap * h
  BY DEF C
<1>12. Cardinality({j \in 1 .. k : Low(p, j) < Low(p, j - 1)}) = q[k] - q[0]
  <2> DEFINE f == [j \in 0 .. k |-> q[j]]
  <2>1. k \in Nat /\ \A j \in 0 .. k : j \in 0 .. C
    BY <1>1
  <2>2. f \in [0 .. k -> Int]
    BY <2>1, <1>9
  <2>3. \A a, b \in 0 .. k : a <= b => f[a] <= f[b]
    BY <2>1, <1>11
  <2>4. 0 \in 0 .. k /\ k \in 0 .. k
    BY <2>1
  <2>5. f[k] <= f[0] + 1
    BY <2>4, <1>6, <1>8
  <2> HIDE DEF f
  <2>6. Cardinality({j \in 1 .. k : f[j] # f[j - 1]}) = f[k] - f[0]
    BY <2>1, <2>2, <2>3, <2>5, Crossings
  <2>7. \A j \in 1 .. k : j \in 0 .. k /\ j - 1 \in 0 .. k /\ j \in 1 .. C
    BY <1>1, <2>1
  <2>8. \A j \in 0 .. k : f[j] = q[j]
    BY DEF f
  <2>9. {j \in 1 .. k : Low(p, j) < Low(p, j - 1)} = {j \in 1 .. k : f[j] # f[j - 1]}
    BY <2>7, <2>8, <1>10
  <2> QED
    BY <2>4, <2>6, <2>8, <2>9
<1>13. High(p, k) = Wraps(Start(p, k)) - h /\ High(p, k) \in Nat
  <2>1. High(p, k) = startTimeHigh + (q[k] - q[0])
    BY <1>12 DEF High
  <2>2. /\ q[k] = Wraps(Start(p, k)) /\ q[0] = startTimeHigh + h
        /\ Wraps(Start(p, k)) \in Nat /\ startTimeHigh + h <= Wraps(Start(p, k))
    BY <1>4, <1>6, <1>8
  <2> QED
    BY <2>1, <2>2, <1>2
<1>14. Low(p, k) \in 0 .. Wrap - 1 /\ Low(p, k) = Half(Start(p, k))
  BY <1>3, <1>4
<1>15. High(p, k) * Wrap + Low(p, k) = Start(p, k) - Wrap * h
  <2> DEFINE t == Start(p, k)
  <2>1. /\ t \in Nat /\ t - Half(t) = Wrap * Wraps(t) /\ Wraps(t) \in Nat
        /\ Half(t) \in 0 .. Wrap - 1
    BY <1>3, Halves
  <2>2. (Wraps(t) - h) * Wrap = Wrap * Wraps(t) - Wrap * h
    BY <2>1, <1>2
  <2>3. Wrap * Wraps(t) \in Int /\ Wrap * h \in Int
    BY <2>1, <1>2
  <2>4. High(p, k) * Wrap = Wrap * Wraps(t) - Wrap * h
    BY <2>2, <1>13
  <2> HIDE DEF t
  <2>5. High(p, k) * Wrap + Half(t) = t - Wrap * h
    BY <2>1, <2>3, <2>4, <1>2
  <2> QED
    BY <2>5, <1>14 DEF t
<1> QED
  BY <1>13, <1>14, <1>15
-----------------------------------------------------------------------------
(* The inductive invariant *)

\* Before the first run nothing is sent and nothing is listed.
LEMMA InitIInv == Init => IInv
<1> SUFFICES ASSUME Init PROVE IInv
  OBVIOUS
<1>1. /\ Backlog \in Nat \ {0} /\ SendDelay \in Nat \ {0} /\ Capacity \in Nat \ {0}
      /\ Wrap \in Nat \ {0} /\ MaxRuns \in Nat
  BY TaskStatsAssumption
<1>2. TypeOK
  BY <1>1 DEF Init, TypeOK
<1>3. SentInv
  <2>1. SendDelay * (0 - 0 + 0) = 0 /\ 0 - 1 - sendCounter - Seen = 0
    BY <1>1 DEF Init, Seen, First
  <2> QED
    BY <2>1 DEF Init, SentInv
<1>4. DroppedInv /\ StartedInv /\ BufInv /\ ListedInv /\ MissedExplained
  BY DEF Init, DroppedInv, StartedInv, BufInv, ListedInv, MissedExplained
<1>5. StartsInv
  BY <1>1 DEF Init, StartsInv, BacklogOf
<1>6. TimesAt(0)
  BY DEF Init, TimesAt
<1> QED
  BY <1>2, <1>3, <1>4, <1>5, <1>6 DEF IInv, TimesInv

\* A run of the task preserves the invariant.
LEMMA RunTaskIInv ==
    ASSUME IInv, NEW step \in 1 .. MaxStep, RunTask(step)
    PROVE  IInv'
<1>1. /\ Backlog \in Nat \ {0} /\ SendDelay \in Nat \ {0} /\ Capacity \in Nat \ {0}
      /\ Wrap \in Nat \ {0} /\ MaxRuns \in Nat /\ MaxStep \in Nat \ {0}
  BY TaskStatsAssumption
<1>2. /\ runs \in Nat /\ runs < MaxRuns /\ runs' = runs + 1
      /\ now \in Nat /\ step \in Nat \ {0} /\ now' = now + step /\ now' \in Nat
      /\ sendCounter \in Nat /\ sendCounter < SendDelay
      /\ started \in Seq(Nat) /\ Len(started) = runs
      /\ tunnel \in Seq(Packets)
      /\ dropped \in Nat /\ totalDroppedPackets \in Nat
      /\ iterationNumber \in Int /\ iterationNumber < runs /\ iterationNumber >= -1
  BY <1>1 DEF RunTask, IInv, TypeOK, BufInv
<1>3. UNCHANGED appVars
  BY DEF RunTask
<1>4. /\ started' \in Seq(Nat) /\ Len(started') = runs + 1
      /\ started'[runs + 1] = now'
      /\ \A a \in 1 .. runs : started'[a] = started[a]
  <2>1. started' = Append(started, now')
    BY DEF RunTask
  <2> QED
    BY <2>1, <1>2
<1>5. \A a \in 1 .. runs : started[a] \in Nat
  BY <1>2
<1>6. StartedInv'
  <2>1. runs > 0 => now' < started[1] + Wrap
    BY <1>2 DEF RunTask
  <2>2. ASSUME NEW a \in 1 .. runs + 1, NEW b \in 1 .. runs + 1, a < b
        PROVE  started'[a] < started'[b]
    <3>1. a \in 1 .. runs
      BY <2>2, <1>2
    <3>2. CASE b \in 1 .. runs
      BY <2>2, <3>1, <3>2, <1>4 DEF IInv, StartedInv
    <3>3. CASE b = runs + 1
      <4>1. runs \in 1 .. runs /\ started[runs] = now
        BY <3>1, <1>2 DEF IInv, StartedInv
      <4>2. a < runs \/ a = runs
        BY <3>1, <1>2
      <4>3. started[a] <= started[runs] /\ started[a] \in Nat /\ started[runs] \in Nat
        BY <4>1, <4>2, <3>1, <1>5 DEF IInv, StartedInv
      <4> QED
        BY <4>1, <4>3, <3>1, <3>3, <1>2, <1>4
    <3>4. b \in 1 .. runs \/ b = runs + 1
      BY <1>2
    <3> QED
      BY <3>2, <3>3, <3>4
  <2>3. now' < started'[1] + Wrap
    <3>1. CASE runs = 0
      BY <3>1, <1>1, <1>2, <1>4
    <3>2. CASE runs # 0
      <4>1. 1 \in 1 .. runs /\ runs > 0
        BY <3>2, <1>2
      <4> QED
        BY <4>1, <2>1, <1>4
    <3> QED
      BY <3>1, <3>2
  <2> QED
    BY <2>2, <2>3, <1>2, <1>4 DEF StartedInv
<1>7. /\ startTimes' \in [0 .. Backlog - 1 -> 0 .. Wrap - 1]
      /\ BacklogOf(startTimes', runs', started')
  <2>1. startTimes' = [k \in 0 .. Backlog - 1 |-> IF k = 0 THEN Half(now') ELSE startTimes[k - 1]]
    BY DEF RunTask, Shifted, Half
  <2>2. Half(now') \in 0 .. Wrap - 1
    BY <1>2, Halves
  <2>3. startTimes \in [0 .. Backlog - 1 -> 0 .. Wrap - 1]
    BY DEF IInv, TypeOK
  <2>4. \A k \in 0 .. Backlog - 1 : k # 0 => k - 1 \in 0 .. Backlog - 1
    BY <1>1
  <2>5. startTimes' \in [0 .. Backlog - 1 -> 0 .. Wrap - 1]
    BY <2>1, <2>2, <2>3, <2>4
  <2>6. ASSUME NEW k \in 0 .. Backlog - 1, k < runs + 1
        PROVE  startTimes'[k] = Half(started'[runs + 1 - k])
    <3>1. CASE k = 0
      <4>1. runs + 1 - k = runs + 1
        BY <3>1, <1>2
      <4> QED
        BY <4>1, <3>1, <2>1, <1>4
    <3>2. CASE k # 0
      <4>1. PICK j \in 0 .. Backlog - 1 : j = k - 1
        BY <3>2, <2>4
      <4>2. PICK a \in 1 .. runs : a = runs - j
        BY <4>1, <2>6, <1>1, <1>2
      <4>3. runs + 1 - k = a /\ j < runs
        BY <4>1, <4>2, <2>6, <1>1, <1>2
      <4>4. BacklogOf(startTimes, runs, started)
        BY DEF IInv, StartsInv
      <4>5. startTimes[j] = Half(started[runs - j])
        BY <4>3, <4>4 DEF BacklogOf
      <4>6. startTimes'[k] = startTimes[j]
        BY <3>2, <4>1, <2>1
      <4>7. started'[a] = started[a]
        BY <1>4
      <4> QED
        BY <4>2, <4>3, <4>5, <4>6, <4>7
    <3> QED
      BY <3>1, <3>2
  <2> QED
    BY <2>5, <2>6, <1>2 DEF BacklogOf
<1>8. ASSUME NEW p \in Packets, PacketOf(p, runs, started) PROVE PacketOf(p, runs', started')
  <2> DEFINE m == p.iterationNumber + 1
  <2>1. m \in Nat /\ m <= runs
    BY <1>2, <1>8 DEF PacketOf, Packets
  <2>2. BacklogOf(p.startTimes, m, started)
    BY <1>8 DEF PacketOf
  <2>3. p.iterationNumber < runs'
    BY <1>2, <1>8 DEF PacketOf, Packets
  <2> HIDE DEF m
  <2>4. ASSUME NEW k \in 0 .. Backlog - 1, k < m
        PROVE  p.startTimes[k] = Half(started'[m - k])
    <3>1. PICK a \in 1 .. runs : a = m - k
      BY <2>1, <2>4, <1>1, <1>2
    <3>2. p.startTimes[k] = Half(started[m - k])
      BY <2>2, <2>4 DEF BacklogOf
    <3> QED
      BY <3>1, <3>2, <1>4
  <2>5. BacklogOf(p.startTimes, m, started')
    BY <2>4 DEF BacklogOf, m
  <2> QED
    BY <2>3, <2>5 DEF PacketOf, m
<1>9. BufInv' /\ ListedInv' /\ MissedExplained'
  <2>1. BufInv'
    BY <1>2, <1>3 DEF appVars, IInv, BufInv
  <2>2. ListedInv'
    BY <1>3 DEF appVars, IInv, ListedInv
  <2>3. MissedExplained'
    BY <1>3 DEF appVars, IInv, MissedExplained
  <2> QED
    BY <2>1, <2>2, <2>3
<1>10. TimesInv'
  <2>1. PICK h \in Nat : TimesAt(h)
    BY DEF IInv, TimesInv
  <2>2. ASSUME NEW k \in 1 .. Len(records) PROVE True(k)' = True(k)
    <3>1. records[k].iteration \in Nat /\ records[k].iteration <= iterationNumber
      <4> DEFINE R == [iteration : Nat, start : Nat]
      <4>1. records \in Seq(R)
        BY DEF IInv, TypeOK
      <4> HIDE DEF R
      <4>2. records[k] \in R
        BY <4>1
      <4> QED
        BY <4>2 DEF R, IInv, ListedInv
    <3>2. records[k].iteration + 1 \in 1 .. runs
      BY <3>1, <1>2
    <3> QED
      BY <3>2, <1>3, <1>4 DEF True, appVars
  <2>3. iterationNumber # -1 => started'[iterationNumber + 1] = started[iterationNumber + 1]
    BY <1>2, <1>4
  <2>4. TimesAt(h)'
    BY <2>1, <2>2, <2>3, <1>3 DEF TimesAt, appVars
  <2> QED
    BY <2>4 DEF TimesInv
<1>11. Seen' = Seen /\ totalDroppedPackets' = totalDroppedPackets /\ Seen \in Int
  BY <1>2, <1>3 DEF Seen, First, appVars
<1> DEFINE n == dropped - totalDroppedPackets + Len(tunnel)
<1>12. n \in Int /\ runs - 1 - sendCounter - Seen = SendDelay * n
  BY <1>2 DEF IInv, SentInv
<1> HIDE DEF n
<1>13. SendDelay * (n + 1) = SendDelay * n + SendDelay /\ SendDelay * n \in Int
  BY <1>1, <1>12, Products
<1>14. CASE sendCounter + 1 # SendDelay
  <2>1. sendCounter' = sendCounter + 1 /\ UNCHANGED <<dropped, tunnel>>
    <3>1. sendCounter' = (sendCounter + 1) % SendDelay /\ UNCHANGED <<dropped, tunnel>>
      BY <1>14 DEF RunTask
    <3>2. sendCounter + 1 \in 0 .. SendDelay - 1
      BY <1>1, <1>2, <1>14
    <3>3. (sendCounter + 1) % SendDelay = sendCounter + 1
      BY <1>1, <3>2
    <3> QED
      BY <3>1, <3>3
  <2>2. TypeOK'
    <3>1. sendCounter' \in 0 .. SendDelay - 1 /\ runs' \in 0 .. MaxRuns
      BY <2>1, <1>1, <1>2, <1>14
    <3>2. /\ UNCHANGED <<dropped, tunnel, buf, iterationNumber, records, missed>>
          /\ UNCHANGED <<totalDroppedPackets, prevStartTimeLow, startTimeHigh>>
      BY <2>1, <1>3 DEF appVars
    <3> QED
      BY <3>1, <3>2, <1>2, <1>4, <1>7 DEF IInv, TypeOK
  <2>3. SentInv'
    <3>1. runs' - 1 - sendCounter' - Seen' = SendDelay * n
      BY <2>1, <1>2, <1>11, <1>12
    <3>2. UNCHANGED <<dropped, tunnel, totalDroppedPackets, Seen>>
      BY <2>1, <1>11
    <3> QED
      BY <3>1, <3>2 DEF IInv, SentInv, n
  <2>4. DroppedInv'
    BY <2>1, <1>2, <1>11 DEF IInv, DroppedInv
  <2>5. StartsInv'
    <3>1. \A k \in 1 .. Len(tunnel) : tunnel[k] \in Packets /\ PacketOf(tunnel[k], runs, started)
      BY <1>2 DEF IInv, StartsInv
    <3>2. \A k \in 1 .. Len(tunnel) : PacketOf(tunnel[k], runs', started')
      BY <3>1, <1>8
    <3> QED
      BY <3>2, <2>1, <1>7 DEF StartsInv
  <2> QED
    BY <2>2, <2>3, <2>4, <2>5, <1>6, <1>9, <1>10 DEF IInv
<1>15. CASE sendCounter + 1 = SendDelay
  <2> DEFINE p == [iterationNumber |-> runs, startTimes |-> startTimes', dropped |-> dropped]
  <2>1. sendCounter' = 0 /\ WriteChan(p)
    <3>1. sendCounter' = (sendCounter + 1) % SendDelay /\ WriteChan(p)
      BY <1>15 DEF RunTask, Packet
    <3>2. SendDelay % SendDelay = 0
      BY <1>1
    <3> QED
      BY <3>1, <3>2, <1>15
  <2>2. p \in Packets
    BY <1>2, <1>7 DEF Packets
  <2>3. PacketOf(p, runs', started')
    <3>1. /\ p.iterationNumber < runs' /\ p.iterationNumber + 1 = runs'
          /\ p.startTimes = startTimes'
      BY <1>2
    <3> HIDE DEF p
    <3> QED
      BY <3>1, <1>7 DEF PacketOf
  <2>4. p.iterationNumber - Seen = SendDelay * (n + 1) /\ p.dropped = dropped
    BY <1>2, <1>11, <1>12, <1>13, <1>15
  <2>5. runs' - 1 - sendCounter' - Seen' = SendDelay * (n + 1)
    BY <2>1, <1>2, <1>11, <1>12, <1>13, <1>15
  <2> HIDE DEF p
  <2>6. \A k \in 1 .. Len(tunnel) : PacketOf(tunnel[k], runs', started')
    <3>1. \A k \in 1 .. Len(tunnel) : tunnel[k] \in Packets /\ PacketOf(tunnel[k], runs, started)
      BY <1>2 DEF IInv, StartsInv
    <3> QED
      BY <3>1, <1>8
  <2>7. ASSUME dropped' \in 0 .. MaxRuns, tunnel' \in Seq(Packets), Len(tunnel') <= Capacity
        PROVE  TypeOK'
    <3>1. sendCounter' \in 0 .. SendDelay - 1 /\ runs' \in 0 .. MaxRuns
      BY <2>1, <1>1, <1>2
    <3>2. UNCHANGED <<buf, iterationNumber, records, missed,
                      totalDroppedPackets, prevStartTimeLow, startTimeHigh>>
      BY <1>3 DEF appVars
    <3> QED
      BY <3>1, <3>2, <2>7, <1>2, <1>4, <1>7 DEF IInv, TypeOK
  <2>8. CASE Len(tunnel) = Capacity
    <3>1. dropped' = dropped + 1 /\ tunnel' = tunnel
      BY <2>1, <2>8 DEF WriteChan
    <3>2. TypeOK'
      <4>1. dropped' \in 0 .. MaxRuns
        BY <3>1, <1>1, <1>2 DEF IInv, DroppedInv
      <4> QED
        BY <4>1, <3>1, <2>7 DEF IInv, TypeOK
    <3>3. SentInv'
      <4>1. dropped' - totalDroppedPackets + Len(tunnel') = n + 1
        BY <3>1, <1>2 DEF n
      <4> QED
        BY <4>1, <3>1, <2>5, <1>11 DEF IInv, SentInv
    <3>4. DroppedInv'
      <4>1. \A k \in 1 .. Len(tunnel) : tunnel[k].dropped \in Nat
        <5>1. \A k \in 1 .. Len(tunnel) : tunnel[k] \in Packets
          BY <1>2
        <5> QED
          BY <5>1 DEF Packets
      <4> QED
        BY <4>1, <3>1, <1>2, <1>11 DEF IInv, DroppedInv
    <3>5. StartsInv'
      BY <3>1, <2>6, <1>7 DEF StartsInv
    <3> QED
      BY <3>2, <3>3, <3>4, <3>5, <1>6, <1>9, <1>10 DEF IInv
  <2>9. CASE Len(tunnel) # Capacity
    <3>1. tunnel' = Append(tunnel, p) /\ dropped' = dropped
      BY <2>1, <2>9 DEF WriteChan
    <3>2. /\ tunnel' \in Seq(Packets) /\ Len(tunnel') = Len(tunnel) + 1
          /\ tunnel'[Len(tunnel) + 1] = p
          /\ \A k \in 1 .. Len(tunnel) : tunnel'[k] = tunnel[k]
          /\ Len(tunnel) \in Nat
      BY <3>1, <2>2, <1>2
    <3>3. \A k \in 1 .. Len(tunnel') : k \in 1 .. Len(tunnel) \/ k = Len(tunnel) + 1
      BY <3>2
    <3>4. TypeOK'
      <4>1. dropped' \in 0 .. MaxRuns
        BY <3>1, <1>1, <1>2 DEF IInv, DroppedInv
      <4>2. Len(tunnel') <= Capacity
        BY <3>2, <2>9, <1>1 DEF IInv, TypeOK
      <4> QED
        BY <4>1, <4>2, <3>2, <2>7
    <3>5. SentInv'
      <4>1. /\ dropped - totalDroppedPackets + Len(tunnel') = n + 1
            /\ p.dropped - totalDroppedPackets + (Len(tunnel) + 1) = n + 1
        BY <3>2, <2>4, <1>2 DEF n
      <4>2. \A k \in 1 .. Len(tunnel) :
               tunnel'[k].iterationNumber - Seen
                   = SendDelay * (tunnel'[k].dropped - totalDroppedPackets + k)
        BY <3>2 DEF IInv, SentInv
      <4>3. ASSUME NEW k \in 1 .. Len(tunnel')
            PROVE  tunnel'[k].iterationNumber - Seen
                       = SendDelay * (tunnel'[k].dropped - totalDroppedPackets + k)
        <5>1. CASE k = Len(tunnel) + 1
          BY <5>1, <4>1, <3>2, <2>4
        <5> QED
          BY <5>1, <4>2, <3>3
      <4> QED
        BY <4>1, <4>3, <3>1, <2>5, <1>11 DEF SentInv
    <3>6. DroppedInv'
      <4>1. \A k \in 1 .. Len(tunnel) : tunnel[k].dropped \in Nat
        <5>1. \A k \in 1 .. Len(tunnel) : tunnel[k] \in Packets
          BY <1>2
        <5> QED
          BY <5>1 DEF Packets
      <4>2. p.dropped = dropped
        BY <2>4
      <4>3. ASSUME NEW k \in 1 .. Len(tunnel')
            PROVE  /\ totalDroppedPackets <= tunnel'[k].dropped
                   /\ tunnel'[k].dropped <= dropped
                   /\ \A j \in 1 .. k : tunnel'[j].dropped <= tunnel'[k].dropped
        <5>1. CASE k \in 1 .. Len(tunnel)
          <6>1. \A j \in 1 .. k : j \in 1 .. Len(tunnel)
            BY <5>1, <3>2
          <6> QED
            BY <5>1, <6>1, <3>2 DEF IInv, DroppedInv
        <5>2. CASE k = Len(tunnel) + 1
          <6>1. tunnel'[k].dropped = dropped /\ totalDroppedPackets <= dropped
            BY <5>2, <4>2, <3>2 DEF IInv, DroppedInv
          <6>2. ASSUME NEW j \in 1 .. k PROVE tunnel'[j].dropped <= dropped
            <7>1. j \in 1 .. Len(tunnel) \/ j = k
              BY <5>2, <3>2
            <7>2. CASE j \in 1 .. Len(tunnel)
              BY <7>2, <3>2 DEF IInv, DroppedInv
            <7>3. CASE j = k
              BY <7>3, <6>1, <1>2
            <7> QED
              BY <7>1, <7>2, <7>3
          <6> QED
            BY <6>1, <6>2, <1>2
        <5> QED
          BY <5>1, <5>2, <3>3
      <4>4. totalDroppedPackets <= dropped /\ dropped <= runs'
        BY <1>2 DEF IInv, DroppedInv
      <4> QED
        BY <4>3, <4>4, <3>1, <1>11 DEF DroppedInv
    <3>7. StartsInv'
      <4>1. \A k \in 1 .. Len(tunnel') : PacketOf(tunnel'[k], runs', started')
        BY <3>2, <3>3, <2>3, <2>6
      <4> QED
        BY <4>1, <1>7 DEF StartsInv
    <3> QED
      BY <3>4, <3>5, <3>6, <3>7, <1>6, <1>9, <1>10 DEF IInv
  <2> QED
    BY <2>8, <2>9
<1> QED
  BY <1>14, <1>15

\* Receiving a packet preserves the invariant.
LEMMA ReceiveIInv ==
    ASSUME IInv, Receive
    PROVE  IInv'
<1>0. PICK p : p = Head(tunnel)
  OBVIOUS
<1>1. /\ Backlog \in Nat \ {0} /\ SendDelay \in Nat \ {0} /\ SendDelay <= Backlog
      /\ Wrap \in Nat \ {0} /\ MaxRuns \in Nat
  BY TaskStatsAssumption
<1>2. tunnel # << >> /\ tunnel' = Tail(tunnel) /\ buf' = <<p>> /\ Add(p) /\ UNCHANGED taskVars
  BY <1>0 DEF Receive
<1> DEFINE C == ItCount(p)
           d == p.dropped - totalDroppedPackets + 1
           X == SendDelay * d
           R == [iteration : Nat, start : Nat]
<1>3. /\ p = tunnel[1] /\ 1 \in 1 .. Len(tunnel)
      /\ p \in Packets /\ PacketOf(p, runs, started)
      /\ totalDroppedPackets <= p.dropped
      /\ p.iterationNumber - Seen = X
      /\ New(p) \in Nat \ {0} /\ New(p) <= X
      /\ C \in 1 .. Backlog /\ C <= New(p)
      /\ C = New(p) \/ C = Backlog
  BY <1>0, <1>2, NextPacket
<1>4. p.iterationNumber \in Nat /\ p.dropped \in Nat /\ p.iterationNumber < runs
  BY <1>3 DEF Packets, PacketOf
<1>5. /\ iterationNumber \in Int /\ iterationNumber >= -1 /\ New(p) = p.iterationNumber - iterationNumber
      /\ totalDroppedPackets \in Nat /\ missed \in Nat /\ runs \in Nat /\ runs <= MaxRuns
      /\ Seen \in Int
  BY <1>1 DEF IInv, TypeOK, New, Seen, First
<1>6. d \in Nat /\ d >= 1 /\ X \in Int
  <2>1. totalDroppedPackets <= p.dropped
    BY <1>3
  <2>2. d \in Nat /\ d >= 1
    BY <2>1, <1>4, <1>5
  <2> HIDE DEF d
  <2> QED
    BY <2>2, <1>1
<1> DEFINE E == [k \in 1 .. C |-> [iteration |-> p.iterationNumber - (C - k),
                                   start |-> High(p, k) * Wrap + Low(p, k)]]
<1>7. /\ missed' = missed + New(p) - C
      /\ records' = records \o E
      /\ prevStartTimeLow' = Low(p, C) /\ startTimeHigh' = High(p, C)
      /\ iterationNumber' = p.iterationNumber /\ totalDroppedPackets' = p.dropped
  <2>1. p.iterationNumber > iterationNumber
    BY <1>3, <1>4, <1>5
  <2> QED
    BY <2>1, <1>2 DEF Add
<1> HIDE DEF C, d, X, E, R
<1>8. UNCHANGED <<now, sendCounter, startTimes, runs, dropped, started>>
  BY <1>2 DEF taskVars
<1>9. C \in Nat /\ 1 <= C /\ C <= Backlog /\ 1 \in 1 .. C /\ C \in 1 .. C
  BY <1>1, <1>3
<1>10. PICK h \in Nat : TimesAt(h) /\ (iterationNumber = -1 => h = Wraps(Start(p, 1)))
  <2>1. PICK g \in Nat : TimesAt(g)
    BY DEF IInv, TimesInv
  <2>2. CASE iterationNumber = -1
    <3>1. Start(p, 1) \in Nat
      BY <1>0, <1>2, <1>9, NewStarts DEF C
    <3>2. Wraps(Start(p, 1)) \in Nat
      BY <3>1, Halves
    <3>3. Len(records) = 0
      BY <2>2 DEF IInv, ListedInv
    <3>4. TimesAt(Wraps(Start(p, 1)))
      BY <2>1, <2>2, <3>3 DEF TimesAt
    <3> QED
      BY <3>2, <3>4
  <2>3. CASE iterationNumber # -1
    BY <2>1, <2>3
  <2> QED
    BY <2>2, <2>3
<1>11. \A k \in 1 .. C : /\ Low(p, k) \in 0 .. Wrap - 1
                         /\ High(p, k) \in Nat
                         /\ High(p, k) = Wraps(Start(p, k)) - h
                         /\ High(p, k) * Wrap + Low(p, k) = Start(p, k) - Wrap * h
  BY <1>0, <1>2, <1>10, NewTimes DEF C
<1>12. ASSUME NEW k \in 1 .. C
       PROVE  /\ p.iterationNumber - (C - k) \in Nat
              /\ iterationNumber < p.iterationNumber - (C - k)
              /\ p.iterationNumber - (C - k) <= p.iterationNumber
  <2> DEFINE m == p.iterationNumber
  <2>1. /\ m \in Nat /\ C \in Nat /\ k \in Nat /\ 1 <= k /\ k <= C
        /\ iterationNumber \in Int /\ iterationNumber >= -1 /\ C <= m - iterationNumber
    BY <1>3, <1>4, <1>5, <1>9
  <2> HIDE DEF m
  <2>2. m - (C - k) \in Nat /\ iterationNumber < m - (C - k) /\ m - (C - k) <= m
    BY <2>1
  <2> QED
    BY <2>2 DEF m
<1>13. /\ records' \in Seq(R) /\ Len(records') = Len(records) + C
       /\ \A k \in 1 .. Len(records) : records'[k] = records[k]
       /\ \A k \in 1 .. C : records'[Len(records) + k] = E[k]
       /\ Len(records) \in Nat /\ records \in Seq(R)
  <2>1. records \in Seq(R)
    BY DEF IInv, TypeOK, R
  <2>2. \A k \in 1 .. C : High(p, k) * Wrap + Low(p, k) \in Nat
    BY <1>1, <1>11
  <2>3. E \in [1 .. C -> R]
    BY <2>2, <1>12 DEF E, R
  <2> QED
    BY <2>1, <2>3, <1>7, <1>9, Appended
<1>14. \A k \in 1 .. Len(records') : k \in 1 .. Len(records) \/ \E j \in 1 .. C : k = Len(records) + j
  <2> SUFFICES ASSUME NEW k \in 1 .. Len(records'), ~ (k \in 1 .. Len(records))
               PROVE  \E j \in 1 .. C : k = Len(records) + j
    OBVIOUS
  <2>1. k - Len(records) \in 1 .. C /\ k = Len(records) + (k - Len(records))
    BY <1>9, <1>13
  <2> QED
    BY <2>1
<1>15. ASSUME NEW k \in 1 .. C
       PROVE  /\ records'[Len(records) + k].iteration = p.iterationNumber - (C - k)
              /\ records'[Len(records) + k].start = Start(p, k) - Wrap * h
  <2>1. /\ E[k].iteration = p.iterationNumber - (C - k)
        /\ E[k].start = High(p, k) * Wrap + Low(p, k)
    BY DEF E
  <2>2. records'[Len(records) + k] = E[k]
    BY <1>13
  <2>3. High(p, k) * Wrap + Low(p, k) = Start(p, k) - Wrap * h
    BY <1>11
  <2> QED
    BY <2>1, <2>2, <2>3
<1>16. /\ tunnel \in Seq(Packets) /\ tunnel' \in Seq(Packets)
       /\ Len(tunnel') = Len(tunnel) - 1 /\ Len(tunnel) \in Nat /\ Len(tunnel) >= 1
       /\ \A k \in 1 .. Len(tunnel') : tunnel'[k] = tunnel[k + 1] /\ k + 1 \in 1 .. Len(tunnel)
  <2>1. tunnel \in Seq(Packets)
    BY DEF IInv, TypeOK
  <2> QED
    BY <2>1, <1>2
<1>17. \A k \in 1 .. Len(records) : records[k].iteration \in Nat /\ records[k].iteration <= iterationNumber
  <2>1. \A k \in 1 .. Len(records) : records[k] \in R
    BY <1>13
  <2> QED
    BY <2>1 DEF R, IInv, ListedInv
<1>20. TypeOK'
  <2>1. missed' \in Nat
    BY <1>3, <1>5, <1>7, <1>9
  <2>2. prevStartTimeLow' \in 0 .. Wrap - 1 /\ startTimeHigh' \in Nat
    BY <1>7, <1>9, <1>11
  <2>3. iterationNumber' \in -1 .. MaxRuns /\ totalDroppedPackets' \in Nat
    BY <1>1, <1>4, <1>5, <1>7
  <2>4. buf' \in Seq(Packets) /\ Len(buf') <= 1
    BY <1>2, <1>3
  <2>5. Len(tunnel') <= Capacity
    BY <1>16, TaskStatsAssumption DEF IInv, TypeOK
  <2>6. records' \in Seq([iteration : Nat, start : Nat])
    BY <1>13 DEF R
  <2> QED
    BY <2>1, <2>2, <2>3, <2>4, <2>5, <2>6, <1>8, <1>16 DEF IInv, TypeOK
<1>21. SentInv'
  <2>1. Seen' = p.iterationNumber
    BY <1>4, <1>7 DEF Seen
  <2>2. ASSUME NEW n \in Int, NEW m \in Int, m - Seen = SendDelay * n
        PROVE  m - Seen' = SendDelay * (n - d)
    <3>1. SendDelay * (d + (n - d)) = SendDelay * d + SendDelay * (n - d)
      BY <1>1, <1>6, Products
    <3>2. d + (n - d) = n /\ SendDelay * (n - d) \in Int
      BY <1>1, <1>6
    <3>3. SendDelay * n = X + SendDelay * (n - d)
      BY <3>1, <3>2 DEF X
    <3>4. p.iterationNumber - Seen = X
      BY <1>3
    <3>5. m - p.iterationNumber = SendDelay * (n - d)
      BY <3>2, <3>3, <3>4, <2>2, <1>4, <1>5, <1>6
    <3> QED
      BY <3>5, <2>1
  <2>3. ASSUME NEW k \in 1 .. Len(tunnel')
        PROVE  tunnel'[k].iterationNumber - Seen'
                   = SendDelay * (tunnel'[k].dropped - totalDroppedPackets' + k)
    <3>0. PICK q \in Packets : q = tunnel'[k] /\ q = tunnel[k + 1]
      BY <1>16
    <3>1. q.iterationNumber \in Nat /\ q.dropped \in Nat
      BY <3>0 DEF Packets
    <3>2. q.iterationNumber - Seen = SendDelay * (q.dropped - totalDroppedPackets + (k + 1))
      BY <3>0, <1>16 DEF IInv, SentInv
    <3>3. q.dropped - totalDroppedPackets + (k + 1) \in Int
      BY <3>1, <1>5
    <3>4. q.iterationNumber - Seen'
              = SendDelay * ((q.dropped - totalDroppedPackets + (k + 1)) - d)
      BY <3>1, <3>2, <3>3, <2>2
    <3>5. (q.dropped - totalDroppedPackets + (k + 1)) - d = q.dropped - totalDroppedPackets' + k
      <4>1. totalDroppedPackets' = p.dropped
        BY <1>7
      <4>2. ASSUME NEW a \in Int, NEW b \in Int, NEW c \in Int, NEW e \in Int
            PROVE  (a - b + (e + 1)) - (c - b + 1) = a - c + e
        OBVIOUS
      <4>3. /\ q.dropped \in Int /\ p.dropped \in Int /\ totalDroppedPackets \in Int
            /\ k \in Int
        BY <3>1, <1>4, <1>5
      <4>4. (q.dropped - totalDroppedPackets + (k + 1)) - (p.dropped - totalDroppedPackets + 1)
                = q.dropped - p.dropped + k
        BY <4>2, <4>3
      <4> QED
        BY <4>1, <4>4 DEF d
    <3> QED
      BY <3>0, <3>4, <3>5
  <2>4. runs - 1 - sendCounter - Seen' = SendDelay * (dropped - totalDroppedPackets' + Len(tunnel'))
    <3>1. dropped \in Nat /\ sendCounter \in Int
      BY <1>1 DEF IInv, TypeOK
    <3>2. runs - 1 - sendCounter \in Int /\ dropped - totalDroppedPackets + Len(tunnel) \in Int
      BY <3>1, <1>5, <1>16
    <3>3. runs - 1 - sendCounter - Seen = SendDelay * (dropped - totalDroppedPackets + Len(tunnel))
      BY DEF IInv, SentInv
    <3>4. runs - 1 - sendCounter - Seen'
              = SendDelay * ((dropped - totalDroppedPackets + Len(tunnel)) - d)
      BY <3>2, <3>3, <2>2
    <3>5. (dropped - totalDroppedPackets + Len(tunnel)) - d
              = dropped - totalDroppedPackets' + Len(tunnel')
      BY <3>1, <1>4, <1>5, <1>7, <1>16 DEF d
    <3> QED
      BY <3>4, <3>5
  <2> QED
    BY <2>3, <2>4, <1>8 DEF SentInv
<1>22. DroppedInv'
  <2>1. ASSUME NEW k \in 1 .. Len(tunnel')
        PROVE  /\ p.dropped <= tunnel'[k].dropped
               /\ tunnel'[k].dropped <= dropped
               /\ \A j \in 1 .. k : tunnel'[j].dropped <= tunnel'[k].dropped
    <3>1. k + 1 \in 1 .. Len(tunnel) /\ tunnel'[k] = tunnel[k + 1] /\ 1 \in 1 .. k + 1
      BY <1>16
    <3>2. \A j \in 1 .. k : j + 1 \in 1 .. k + 1 /\ tunnel'[j] = tunnel[j + 1]
      BY <1>16
    <3> QED
      BY <3>1, <3>2, <1>3 DEF IInv, DroppedInv
  <2>2. p.dropped <= dropped /\ dropped <= runs
    BY <1>3 DEF IInv, DroppedInv
  <2> QED
    BY <2>1, <2>2, <1>7, <1>8 DEF DroppedInv
<1>23. StartedInv'
  BY <1>8 DEF IInv, StartedInv
<1>24. StartsInv'
  <2>1. \A k \in 1 .. Len(tunnel') : PacketOf(tunnel'[k], runs, started)
    BY <1>16 DEF IInv, StartsInv
  <2> QED
    BY <2>1, <1>8 DEF IInv, StartsInv
<1>25. BufInv'
  BY <1>2, <1>4, <1>7, <1>8 DEF BufInv
<1>26. ListedInv'
  <2>1. Len(records') + missed' = iterationNumber' + 1
    <3>1. missed' = missed + New(p) - C /\ iterationNumber' = p.iterationNumber
      BY <1>7
    <3>2. Len(records') = Len(records) + C /\ Len(records) \in Nat
      BY <1>13
    <3>3. Len(records) + missed = iterationNumber + 1
      BY DEF IInv, ListedInv
    <3> QED
      BY <3>1, <3>2, <3>3, <1>4, <1>5, <1>9
  <2>2. iterationNumber' # -1 /\ Len(records') # 0
    BY <1>4, <1>7, <1>9, <1>13
  <2>3. \A k \in 1 .. Len(records') : records'[k].iteration <= iterationNumber'
    <3>1. \A k \in 1 .. Len(records) : records'[k].iteration <= p.iterationNumber
      <4>1. iterationNumber < p.iterationNumber
        BY <1>3, <1>4, <1>5
      <4>2. \A k \in 1 .. Len(records) : records'[k] = records[k]
        BY <1>13
      <4> QED
        BY <4>1, <4>2, <1>4, <1>5, <1>17
    <3>2. \A k \in 1 .. C : records'[Len(records) + k].iteration <= p.iterationNumber
      BY <1>12, <1>15
    <3> QED
      BY <3>1, <3>2, <1>7, <1>14
  <2>4. ASSUME NEW j \in 1 .. Len(records'), NEW k \in 1 .. Len(records'), j < k
        PROVE  records'[j].iteration < records'[k].iteration
    <3>1. CASE j \in 1 .. Len(records) /\ k \in 1 .. Len(records)
      BY <3>1, <2>4, <1>13 DEF IInv, ListedInv
    <3>2. ASSUME j \in 1 .. Len(records), NEW b \in 1 .. C, k = Len(records) + b
          PROVE  records'[j].iteration < records'[k].iteration
      <4>1. records'[j].iteration \in Nat /\ records'[j].iteration <= iterationNumber
        BY <3>2, <1>13, <1>17
      <4> QED
        BY <4>1, <3>2, <1>5, <1>12, <1>15
    <3>3. ASSUME NEW a \in 1 .. C, NEW b \in 1 .. C, j = Len(records) + a, k = Len(records) + b
          PROVE  records'[j].iteration < records'[k].iteration
      <4>1. a < b
        BY <3>3, <2>4, <1>9, <1>13
      <4>2. p.iterationNumber - (C - a) < p.iterationNumber - (C - b)
        BY <4>1, <1>4, <1>9
      <4> QED
        BY <4>2, <3>3, <1>15
    <3>4. ASSUME NEW a \in 1 .. C, j = Len(records) + a PROVE ~ (k \in 1 .. Len(records))
      BY <3>4, <2>4, <1>9, <1>13
    <3> QED
      BY <3>1, <3>2, <3>3, <3>4, <1>14
  <2> QED
    BY <2>1, <2>2, <2>3, <2>4 DEF ListedInv
<1>27. MissedExplained'
  <2> DEFINE Y == SendDelay * (totalDroppedPackets + 1)
             Z == SendDelay * (p.dropped + 1)
  <2>1. Y \in Int /\ Z \in Int /\ Y <= Z /\ X <= Z /\ Y + X = Z + SendDelay
    <3>1. Y \in Int /\ Z \in Int
      BY <1>1, <1>4, <1>5
    <3>2. Y <= Z
      <4>1. totalDroppedPackets + 1 <= p.dropped + 1
        BY <1>3, <1>4, <1>5
      <4> QED
        BY <4>1, <1>1, <1>4, <1>5, Products
    <3>3. X <= Z
      <4>1. d <= p.dropped + 1 /\ p.dropped + 1 \in Int
        BY <1>4, <1>5 DEF d
      <4> QED
        BY <4>1, <1>1, <1>6, Products DEF X
    <3>4. Y + X = SendDelay * ((totalDroppedPackets + 1) + d)
      <4>1. totalDroppedPackets + 1 \in Int /\ d \in Int
        BY <1>5, <1>6
      <4> QED
        BY <4>1, <1>1, Products DEF X
    <3>5. (totalDroppedPackets + 1) + d = (p.dropped + 1) + 1
      BY <1>4, <1>5 DEF d
    <3>6. SendDelay * ((p.dropped + 1) + 1) = Z + SendDelay
      <4>1. p.dropped + 1 \in Int
        BY <1>4
      <4> QED
        BY <4>1, <1>1, Products
    <3> QED
      BY <3>1, <3>2, <3>3, <3>4, <3>5, <3>6
  <2>2. missed > 0 => missed + Backlog <= Y
    BY DEF IInv, MissedExplained
  <2> HIDE DEF Y, Z
  <2>3. ASSUME missed' > 0 PROVE missed' + Backlog <= Z
    <3>1. CASE C = New(p)
      <4>1. missed' = missed
        BY <3>1, <1>3, <1>5, <1>7
      <4> QED
        BY <4>1, <2>1, <2>2, <2>3, <1>1, <1>5
    <3>2. CASE C = Backlog
      <4>1. missed' = missed + New(p) - Backlog
        BY <3>2, <1>7
      <4>2. CASE missed = 0
        BY <4>1, <4>2, <2>1, <1>1, <1>3, <1>6
      <4>3. CASE missed > 0
        BY <4>1, <4>3, <2>1, <2>2, <1>1, <1>3, <1>5, <1>6
      <4> QED
        BY <4>2, <4>3, <1>5
    <3> QED
      BY <3>1, <3>2, <1>3
  <2> QED
    BY <2>3, <1>7 DEF MissedExplained, Z
<1>28. TimesInv'
  <2>1. ASSUME NEW k \in 1 .. Len(records') PROVE records'[k].start = True(k)' - Wrap * h
    <3>1. True(k)' = started[records'[k].iteration + 1]
      BY <1>8 DEF True
    <3>2. CASE k \in 1 .. Len(records)
      BY <3>1, <3>2, <1>8, <1>10, <1>13 DEF TimesAt, True
    <3>3. ASSUME NEW j \in 1 .. C, k = Len(records) + j
          PROVE  records'[k].start = True(k)' - Wrap * h
      <4>1. records'[k].iteration + 1 = p.iterationNumber + 1 - (C - j)
        <5>1. records'[k].iteration = p.iterationNumber - (C - j)
          BY <3>3, <1>15
        <5>2. p.iterationNumber - (C - j) + 1 = p.iterationNumber + 1 - (C - j)
          BY <1>4, <1>9
        <5> QED
          BY <5>1, <5>2
      <4>2. True(k)' = Start(p, j)
        BY <4>1, <3>1 DEF Start, C
      <4> QED
        BY <4>2, <3>3, <1>15
    <3> QED
      BY <3>2, <3>3, <1>14
  <2>2. /\ startTimeHigh' = Wraps(started[iterationNumber' + 1]) - h
        /\ prevStartTimeLow' = Half(started[iterationNumber' + 1])
    <3>1. Start(p, C) = started[iterationNumber' + 1]
      <4>1. p.iterationNumber + 1 - (C - C) = iterationNumber' + 1
        BY <1>4, <1>7, <1>9
      <4> QED
        BY <4>1 DEF Start, C
    <3>2. Low(p, C) = Half(Start(p, C))
      BY <1>0, <1>2, <1>9, NewStarts DEF C
    <3> QED
      BY <3>1, <3>2, <1>7, <1>9, <1>11
  <2>3. iterationNumber' # -1
    BY <1>4, <1>7
  <2>4. TimesAt(h)'
    BY <2>1, <2>2, <2>3, <1>8 DEF TimesAt
  <2> QED
    BY <2>4 DEF TimesInv
<1> QED
  BY <1>20, <1>21, <1>22, <1>23, <1>24, <1>25, <1>26, <1>27, <1>28 DEF IInv

\* What ReceiveFails adds again is never newer than what Add has seen.
LEMMA NextIInv == IInv /\ [Next]_vars => IInv'
<1> SUFFICES ASSUME IInv, [Next]_vars PROVE IInv'
  OBVIOUS
<1>1. ASSUME UNCHANGED vars PROVE IInv'
  <2>1. UNCHANGED <<now, sendCounter, startTimes, runs, dropped, started, tunnel>>
    BY <1>1 DEF vars, taskVars
  <2>2. UNCHANGED <<buf, iterationNumber, records, missed, totalDroppedPackets,
                    prevStartTimeLow, startTimeHigh>>
    BY <1>1 DEF vars, appVars
  <2>3. TypeOK'
    BY <2>1, <2>2 DEF IInv, TypeOK
  <2>4. SentInv' /\ DroppedInv'
    BY <2>1, <2>2 DEF IInv, SentInv, DroppedInv, Seen
  <2>5. StartedInv' /\ StartsInv'
    BY <2>1 DEF IInv, StartedInv, StartsInv
  <2>6. BufInv' /\ ListedInv' /\ MissedExplained'
    BY <2>1, <2>2 DEF IInv, BufInv, ListedInv, MissedExplained
  <2>7. TimesInv'
    BY <2>1, <2>2 DEF IInv, TimesInv, TimesAt, True
  <2> QED
    BY <2>3, <2>4, <2>5, <2>6, <2>7 DEF IInv
<1>2. CASE \E step \in 1 .. MaxStep : RunTask(step)
  BY <1>2, RunTaskIInv
<1>3. CASE Receive
  BY <1>3, ReceiveIInv
<1>4. CASE ReceiveFails
  <2>1. buf # << >> /\ Add(buf[1]) /\ UNCHANGED <<taskVars, tunnel, buf>>
    BY <1>4 DEF ReceiveFails
  <2>2. buf[1] \in Packets /\ buf[1].iterationNumber <= iterationNumber
    BY <2>1 DEF IInv, TypeOK, BufInv
  <2>3. ~ (buf[1].iterationNumber > iterationNumber)
    <3>1. buf[1].iterationNumber \in Int /\ iterationNumber \in Int
      BY <2>2, TaskStatsAssumption DEF Packets, IInv, TypeOK
    <3> QED
      BY <3>1, <2>2
  <2>4. UNCHANGED vars
    BY <2>1, <2>3 DEF Add, vars, appVars
  <2> QED
    BY <2>4, <1>1
<1> QED
  BY <1>1, <1>2, <1>3, <1>4 DEF Next

\* The invariant holds whatever the task, the tunnel and the application do.
THEOREM InductiveInvariant == Spec => []IInv
BY InitIInv, NextIInv, PTL DEF Spec

\* The counters of CPU1's packet and of StatsProcessing stay in their ranges,
\* and every start that Add writes down is a natural number.
THEOREM TypeCorrect == Spec => []TypeOK
<1>1. IInv => TypeOK
  BY DEF IInv
<1> QED
  BY <1>1, InductiveInvariant, PTL

\* Add lists every run once and in order, and counts exactly the others.
THEOREM ListedOnce == Spec => []RecordsOnce
<1>1. IInv => RecordsOnce
  <2> SUFFICES ASSUME IInv PROVE RecordsOnce
    OBVIOUS
  <2>1. Len(records) \in Nat
    BY DEF IInv, TypeOK
  <2>2. ASSUME NEW k \in 2 .. Len(records)
        PROVE  records[k - 1].iteration < records[k].iteration
    <3>1. k - 1 \in 1 .. Len(records) /\ k \in 1 .. Len(records) /\ k - 1 < k
      BY <2>1
    <3> QED
      BY <3>1 DEF IInv, ListedInv
  <2>3. Len(records) + missed = iterationNumber + 1
    BY DEF IInv, ListedInv
  <2> QED
    BY <2>2, <2>3 DEF RecordsOnce
<1> QED
  BY <1>1, InductiveInvariant, PTL

\* Add misses a run only where more packets in a row were dropped than the
\* backlog makes up for, and no more runs than the drops explain.
THEOREM DropsExplain == Spec => []MissedExplained
<1>1. IInv => MissedExplained
  BY DEF IInv
<1> QED
  BY <1>1, InductiveInvariant, PTL

\* Every start time in the results is the one at which CPU1 started the run,
\* counted from the first run listed.
THEOREM StartsTrue == Spec => []RecordsTrue
<1>1. IInv => RecordsTrue
  <2> SUFFICES ASSUME IInv, NEW k \in 1 .. Len(records)
               PROVE  records[k].start - records[1].start = True(k) - True(1)
    BY DEF RecordsTrue
  <2>1. PICK h \in Nat : TimesAt(h)
    BY DEF IInv, TimesInv
  <2> DEFINE R == [iteration : Nat, start : Nat]
  <2>2. records \in Seq(R)
    BY DEF IInv, TypeOK
  <2> HIDE DEF R
  <2>3. 1 \in 1 .. Len(records) /\ \A j \in 1 .. Len(records) : records[j] \in R
    BY <2>2
  <2>4. \A j \in 1 .. Len(records) : True(j) \in Nat
    <3> SUFFICES ASSUME NEW j \in 1 .. Len(records) PROVE True(j) \in Nat
      OBVIOUS
    <3>1. records[j].iteration \in Nat /\ records[j].iteration <= iterationNumber
      BY <2>3 DEF R, IInv, ListedInv
    <3>2. /\ runs \in Nat /\ iterationNumber \in Int /\ iterationNumber < runs
          /\ started \in Seq(Nat) /\ Len(started) = runs
      BY TaskStatsAssumption DEF IInv, TypeOK, BufInv
    <3>3. records[j].iteration + 1 \in 1 .. Len(started)
      BY <3>1, <3>2
    <3> QED
      BY <3>2, <3>3 DEF True
  <2>5. Wrap * h \in Int
    BY TaskStatsAssumption
  <2>6. /\ records[k].start = True(k) - Wrap * h
        /\ records[1].start = True(1) - Wrap * h
    BY <2>1, <2>3 DEF TimesAt
  <2>7. True(k) \in Nat /\ True(1) \in Nat
    BY <2>3, <2>4
  <2> QED
    BY <2>5, <2>6, <2>7
<1> QED
  BY <1>1, InductiveInvariant, PTL
==============================================================================
