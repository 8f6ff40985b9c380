----------------------------- MODULE TaskStats ------------------------------
(***************************************************************************)
(* The timing statistics of one periodic task: CPU1 keeps the start times  *)
(* of its latest runs in the packet it sends, so that a packet that was    *)
(* dropped is made up for by the ones after it, and the application merges *)
(* the packets into one list of runs (StatsProcessing::Add).               *)
(*                                                                         *)
(* The tunnel is a bounded queue.  The durations are kept and merged as    *)
(* the start times are, and are left out.  A start time is sent as its low *)
(* half, the time modulo Wrap.                                             *)
(***************************************************************************)
EXTENDS Integers, Sequences, FiniteSets

CONSTANTS Backlog,      \* SHAREDSTATE_BACKLOG
          SendDelay,    \* runs per packet: T0_PACKET_SEND_DELAY, or 1
          Capacity,     \* packets the tunnel holds
          Wrap,         \* values of a 32-bit time
          MaxStep,      \* bound: time between two runs
          MaxRuns       \* bound: runs of the task

ASSUME TaskStatsAssumption ==
          /\ {Backlog, SendDelay, Capacity, Wrap, MaxStep} \subseteq Nat \ {0}
          /\ SendDelay <= Backlog
          /\ MaxRuns \in Nat

VARIABLES now,                  \* time of the latest start of the task
          sendCounter,          \* f_t0PacketSendCounter
          startTimes,           \* timeLevelStartTimes of CPU1's packet
          runs,                 \* iterationNumber of CPU1's packet
          dropped,              \* totalDroppedPackets of CPU1's packet
          tunnel,               \* packets on their way
          buf,                  \* the application's buffer: its latest packet
          iterationNumber,      \* of StatsProcessing
          records,              \* iterationNumbers and timeLevelStartTimes
          missed,               \* totalMissedStats
          totalDroppedPackets,  \* of StatsProcessing
          prevStartTimeLow,
          startTimeHigh,
          started               \* history: when each run started

taskVars == <<now, sendCounter, startTimes, runs, dropped, started>>
appVars == <<buf, iterationNumber, records, missed, totalDroppedPackets,
             prevStartTimeLow, startTimeHigh>>
vars == <<taskVars, tunnel, appVars>>

\* The first run of T0, in which nothing is recorded, counts for SendDelay.
Init == /\ now \in 0 .. Wrap - 1
        /\ sendCounter = IF SendDelay > 1 THEN 1 ELSE 0
        /\ startTimes = [k \in 0 .. Backlog - 1 |-> 0]
        /\ runs = 0
        /\ dropped = 0
        /\ started = << >>
        /\ tunnel = << >>
        /\ buf = << >>
        /\ iterationNumber = -1
        /\ records = << >>
        /\ missed = 0
        /\ totalDroppedPackets = 0
        /\ prevStartTimeLow = 0
        /\ startTimeHigh = 0
-----------------------------------------------------------------------------
(* The task, on CPU1 *)

\* Mutation of Shifted: the newest entry is not cut to its low half.
ShiftedWide(t) == [k \in 0 .. Backlog - 1 |-> IF k = 0 THEN t ELSE startTimes[k - 1]]

\* memmove of the backlog by one entry; the newest start time comes first.
Shifted(t) == [k \in 0 .. Backlog - 1 |-> IF k = 0 THEN t % Wrap ELSE startTimes[k - 1]]

Packet(starts) == [iterationNumber |-> runs, startTimes |-> starts, dropped |-> dropped]

\* Mutation of WriteChan: a packet that does not fit is not counted.
WriteChanUncounted(p) ==
    IF Len(tunnel) = Capacity
    THEN UNCHANGED <<dropped, tunnel>>
    ELSE tunnel' = Append(tunnel, p) /\ UNCHANGED dropped

\* VARIANT_WriteChan, and the count of the packets that did not fit.
WriteChan(p) ==
    IF Len(tunnel) = Capacity
    THEN dropped' = dropped + 1 /\ UNCHANGED tunnel
    ELSE tunnel' = Append(tunnel, p) /\ UNCHANGED dropped

\* A run of the task.  A benchmark lasts less than one wrap of the time.
RunTask(step) ==
    /\ runs < MaxRuns
    /\ runs > 0 => now + step < started[1] + Wrap
    /\ now' = now + step
    /\ started' = Append(started, now')
    /\ startTimes' = Shifted(now')
    /\ runs' = runs + 1
    /\ sendCounter' = (sendCounter + 1) % SendDelay
    /\ IF sendCounter + 1 = SendDelay
       THEN WriteChan(Packet(startTimes'))
       ELSE UNCHANGED <<dropped, tunnel>>
    /\ UNCHANGED appVars
-----------------------------------------------------------------------------
(* The application, on CPU0 *)

\* Mutation of New: the latest run that was seen is counted again.
NewInclusive(p) == p.iterationNumber - iterationNumber + 1

\* The runs of packet p that Add has not seen yet, at most a backlog.
New(p) == p.iterationNumber - iterationNumber
ItCount(p) == IF New(p) > Backlog THEN Backlog ELSE New(p)

\* The low half of the start time of the k-th of them, the oldest first; the
\* one before the first is prevStartTimeLow.
Low(p, k) == IF k = 0 THEN prevStartTimeLow ELSE p.startTimes[ItCount(p) - k]

\* Mutation of High: a wrap is only looked for once per packet.
HighOnce(p, k) == startTimeHigh + (IF Low(p, ItCount(p)) < Low(p, 0) THEN 1 ELSE 0)

\* The high half counts how often the low half became smaller.
High(p, k) == startTimeHigh + Cardinality({j \in 1 .. k : Low(p, j) < Low(p, j - 1)})

Add(p) ==
    IF p.iterationNumber > iterationNumber
    THEN /\ missed' = missed + New(p) - ItCount(p)
         /\ records' = records \o
               [k \in 1 .. ItCount(p) |->
                   [iteration |-> p.iterationNumber - (ItCount(p) - k),
                    start |-> High(p, k) * Wrap + Low(p, k)]]
         /\ prevStartTimeLow' = Low(p, ItCount(p))
         /\ startTimeHigh' = High(p, ItCount(p))
         /\ iterationNumber' = p.iterationNumber
         /\ totalDroppedPackets' = p.dropped
    ELSE UNCHANGED <<iterationNumber, records, missed, totalDroppedPackets,
                     prevStartTimeLow, startTimeHigh>>

\* A packet is received and added.
Receive ==
    /\ tunnel # << >>
    /\ tunnel' = Tail(tunnel)
    /\ buf' = <<Head(tunnel)>>
    /\ Add(Head(tunnel))
    /\ UNCHANGED taskVars

\* ReceiveT0 was interrupted: what is still in the buffer is added again.
ReceiveFails ==
    /\ buf # << >>
    /\ Add(buf[1])
    /\ UNCHANGED <<taskVars, tunnel, buf>>
-----------------------------------------------------------------------------
Next == \/ \E step \in 1 .. MaxStep : RunTask(step)
        \/ Receive
        \/ ReceiveFails

Spec == Init /\ [][Next]_vars
-----------------------------------------------------------------------------
(* Properties *)

Packets == [iterationNumber : Nat, startTimes : [0 .. Backlog - 1 -> 0 .. Wrap - 1],
            dropped : Nat]

\* Every variable has its type.
TypeOK ==
    /\ now \in Nat
    /\ sendCounter \in 0 .. SendDelay - 1
    /\ startTimes \in [0 .. Backlog - 1 -> 0 .. Wrap - 1]
    /\ runs \in 0 .. MaxRuns
    /\ dropped \in 0 .. MaxRuns
    /\ started \in Seq(Nat) /\ Len(started) = runs
    /\ tunnel \in Seq(Packets) /\ Len(tunnel) <= Capacity
    /\ buf \in Seq(Packets) /\ Len(buf) <= 1
    /\ iterationNumber \in -1 .. MaxRuns
    /\ records \in Seq([iteration : Nat, start : Nat])
    /\ missed \in Nat
    /\ totalDroppedPackets \in Nat
    /\ prevStartTimeLow \in 0 .. Wrap - 1
    /\ startTimeHigh \in Nat

True(k) == started[records[k].iteration + 1]

\* The results give every run the time at which CPU1 started it, counted
\* from the first one as WriteCSV does, whatever packets were dropped or
\* added twice and wherever the low half of the time wrapped.
RecordsTrue ==
    \A k \in 1 .. Len(records) : records[k].start - records[1].start = True(k) - True(1)

\* The runs are listed once each and in order, and those that are not listed
\* are the ones counted as missed.
RecordsOnce ==
    /\ \A k \in 2 .. Len(records) : records[k - 1].iteration < records[k].iteration
    /\ Len(records) + missed = iterationNumber + 1

\* Runs are missed only where more packets were dropped in a row than the
\* backlog makes up for, and no more of them than the drops explain.
MissedExplained ==
    missed > 0 => missed + Backlog <= SendDelay * (totalDroppedPackets + 1)
==============================================================================
