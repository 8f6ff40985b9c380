------------------------------ MODULE UnitTests ------------------------------
(***************************************************************************)
(* The latency and the throughput test of a tunnel, each a program on      *)
(* Linux and one on CPU1 that have to agree, packet by packet, on where    *)
(* the test stands.                                                        *)
(*                                                                         *)
(* The tunnel is taken at its word: two bounded queues (PacketFifo, which  *)
(* Downlink and Uplink implement).  A send that is retried until it works  *)
(* is a step that waits for room; a read of CPU1 that finds nothing is no  *)
(* step.  A read of Linux blocks, and a signal makes it return without a   *)
(* packet, which neither program looks at.  The time that a packet took is *)
(* represented by the packet's number.                                     *)
(***************************************************************************)
EXTENDS Integers, Sequences

CONSTANTS ITERATION_COUNT,
          MAX_RECV_LATENCIES,   \* entries of CPU1's table of latencies
          PacketSizes,          \* packet sizes the latency test goes through
          Rounds,               \* sizes times REPEAT_COUNT of the other test
          Capacity,             \* packets a queue holds
          MaxSignals            \* bound: reads a signal interrupts

ASSUME UnitTestsAssumption ==
          /\ {ITERATION_COUNT, PacketSizes, Rounds, Capacity} \subseteq Nat \ {0}
          /\ MaxSignals \in Nat
          /\ MAX_RECV_LATENCIES \in Nat /\ MAX_RECV_LATENCIES >= ITERATION_COUNT

VARIABLES test,         \* the test that is run
          down, up,     \* the two queues
          lpc,          \* where the program on Linux stands
          step,         \* phase of the latency test, round of the other
          i,            \* its loop counter
          signals,      \* reads that a signal has interrupted
          buffer,       \* what its packet buffer holds, a request or an answer
          source,       \* what the latest measurement was written down from
          lag,          \* and how far behind its request that was
          running,      \* on CPU1
          f_step,       \* CPU1, latency test
          phase, packetCounter, sendPacketCount,          \* CPU1,
          recvLatencyCount, recvLatencies, totalReceiveTime, reply  \* throughput test

queues == <<down, up>>
linux == <<lpc, step, i, signals, buffer, source, lag>>
cpu1 == <<running, f_step, phase, packetCounter, sendPacketCount,
          recvLatencyCount, recvLatencies, totalReceiveTime, reply>>
vars == <<test, queues, linux, cpu1>>

None == -1

Init == /\ test \in {"latency", "throughput"}
        /\ down = << >> /\ up = << >>
        /\ lpc = "send"
        /\ step = 0 /\ i = 0 /\ signals = 0
        /\ buffer = [kind |-> "none", number |-> None] /\ source = "none" /\ lag = 0
        /\ running = TRUE /\ f_step = 0
        /\ phase = 0 /\ packetCounter = 0 /\ sendPacketCount = 0
        /\ recvLatencyCount = 0
        /\ recvLatencies = [k \in 0 .. MAX_RECV_LATENCIES - 1 |-> None]
        /\ totalReceiveTime = None /\ reply = None

-----------------------------------------------------------------------------
(* Packets.  "at" is where Linux stood when it sent the packet, which the  *)
(* packet itself does not say.                                             *)

PacketsPerStep == IF test = "latency" THEN ITERATION_COUNT ELSE ITERATION_COUNT + 1
Number(n) == step * PacketsPerStep + n

Send(flags, at, n) == /\ Len(down) < Capacity
                      /\ down' = Append(down, [flags |-> flags, at |-> at, number |-> n])

-----------------------------------------------------------------------------
(* Linux reads the answer to its request n, into the buffer that it made   *)
(* its requests in, and writes down what the buffer says.  A read waits,   *)
(* and a signal ends the wait, only while there is no packet; the buffer   *)
(* then still holds what it held, which is written down all the same.  (In *)
(* every second phase of the latency test only the time that the read took *)
(* is written down; lag and source say which packet that read got.)        *)

MakeRequest(n) == buffer' = [kind |-> "request", number |-> n]

Record(n) == source' = buffer'.kind /\ lag' = n - buffer'.number

Receive(n) == /\ up # << >>
              /\ buffer' = [kind |-> "answer", number |-> Head(up)]
              /\ up' = Tail(up)
              /\ Record(n)
              /\ UNCHANGED signals

Interrupted(n) == /\ up = << >>
                  /\ signals < MaxSignals
                  /\ signals' = signals + 1
                  /\ UNCHANGED <<buffer, up>>
                  /\ Record(n)

-----------------------------------------------------------------------------
(* DoTest of the latency test.  Every size has two phases, and a NEXT      *)
(* comes between any two phases.                                           *)

Phases == 2 * PacketSizes

LatencyRequest == /\ test = "latency" /\ lpc = "send"
                  /\ MakeRequest(Number(i))
                  /\ Send("none", step, Number(i))
                  /\ lpc' = "receive"
                  /\ UNCHANGED <<test, up, step, i, signals, source, lag, cpu1>>

LatencyReply == /\ test = "latency" /\ lpc = "receive"
                /\ Receive(Number(i)) \/ Interrupted(Number(i))
                /\ i' = i + 1
                /\ lpc' = IF i' < ITERATION_COUNT THEN "send"
                          ELSE IF step + 1 < Phases THEN "next" ELSE "shutdown"
                /\ UNCHANGED <<test, down, step, cpu1>>

LatencyNext == /\ test = "latency" /\ lpc = "next"
               /\ Send("NEXT", step, None)
               /\ step' = step + 1 /\ i' = 0
               /\ lpc' = "send"
               /\ UNCHANGED <<test, up, signals, buffer, source, lag, cpu1>>

LatencyShutdown == /\ test = "latency" /\ lpc = "shutdown"
                   /\ Send("SHUTDOWN", step, None)
                   /\ lpc' = "end"
                   /\ UNCHANGED <<test, up, step, i, signals, buffer, source, lag, cpu1>>

-----------------------------------------------------------------------------
(* ReadCallback of the latency test.  An answer for which there is no room *)
(* is given up.                                                            *)

NextStepNot == f_step
NextStep == f_step + 1

LatencyHandle == /\ test = "latency" /\ running
                 /\ down # << >>
                 /\ down' = Tail(down)
                 /\ running' = (Head(down).flags # "SHUTDOWN")
                 /\ f_step' = IF Head(down).flags = "NEXT" THEN NextStep ELSE f_step
                 /\ up' = IF Head(down).flags = "none" /\ Len(up) < Capacity
                          THEN Append(up, Head(down).number) ELSE up
                 /\ UNCHANGED <<test, linux, phase, packetCounter, sendPacketCount,
                                recvLatencyCount, recvLatencies, totalReceiveTime, reply>>

-----------------------------------------------------------------------------
(* DoTest of the throughput test.                                          *)

LastOfPhase(n) == n + 1 = ITERATION_COUNT

ThroughputSend == /\ test = "throughput" /\ lpc = "send"
                  /\ MakeRequest(Number(i))
                  /\ Send(IF LastOfPhase(i) THEN "NEXT" ELSE "none", 0, Number(i))
                  /\ IF i + 1 < ITERATION_COUNT THEN i' = i + 1 /\ UNCHANGED lpc
                     ELSE i' = 0 /\ lpc' = "receive"
                  /\ UNCHANGED <<test, up, step, signals, source, lag, cpu1>>

ThroughputReceive == /\ test = "throughput" /\ lpc = "receive"
                     /\ Receive(Number(i)) \/ Interrupted(Number(i))
                     /\ IF i + 1 < ITERATION_COUNT THEN i' = i + 1 /\ UNCHANGED lpc
                        ELSE i' = 0 /\ lpc' = "next"
                     /\ UNCHANGED <<test, down, step, cpu1>>

ThroughputNext == /\ test = "throughput" /\ lpc = "next"
                  /\ Send("NEXT", 2, Number(ITERATION_COUNT))
                  /\ lpc' = "final"
                  /\ UNCHANGED <<test, up, step, i, signals, buffer, source, lag, cpu1>>

ThroughputFinal == /\ test = "throughput" /\ lpc = "final"
                   /\ Receive(Number(ITERATION_COUNT)) \/ Interrupted(Number(ITERATION_COUNT))
                   /\ IF step + 1 < Rounds THEN step' = step + 1 /\ lpc' = "send"
                      ELSE lpc' = "end" /\ UNCHANGED step
                   /\ UNCHANGED <<test, down, i, cpu1>>

-----------------------------------------------------------------------------
(* CPU1 in the throughput test.  A packet it has prepared is in "reply"    *)
(* until there is room for it, and CPU1 does nothing else meanwhile.       *)
(* Linux never sends it a SHUTDOWN.                                        *)

Ready(p) == test = "throughput" /\ running /\ reply = None /\ phase = p

Phase0Read ==
    /\ Ready(0) /\ down # << >>
    /\ down' = Tail(down)
    /\ totalReceiveTime' = IF totalReceiveTime = None THEN Head(down).number ELSE totalReceiveTime
    /\ packetCounter' = packetCounter + 1
    /\ IF recvLatencyCount < MAX_RECV_LATENCIES
       THEN /\ recvLatencies' = [recvLatencies EXCEPT ![recvLatencyCount] = Head(down).number]
            /\ recvLatencyCount' = recvLatencyCount + 1
       ELSE UNCHANGED <<recvLatencies, recvLatencyCount>>
    /\ phase' = IF Head(down).flags = "NEXT" THEN 1 ELSE 0
    /\ running' = (Head(down).flags # "SHUTDOWN")
    /\ UNCHANGED <<test, up, linux, f_step, sendPacketCount, reply>>

AllSentNever(n) == n > packetCounter
AllSent(n) == n = packetCounter

Phase1Prepare == /\ Ready(1)
                 /\ reply' = IF sendPacketCount < MAX_RECV_LATENCIES
                             THEN recvLatencies[sendPacketCount] ELSE 0
                 /\ sendPacketCount' = sendPacketCount + 1
                 /\ phase' = IF AllSent(sendPacketCount') THEN 2 ELSE 1
                 /\ UNCHANGED <<test, queues, linux, running, f_step, packetCounter,
                                recvLatencyCount, recvLatencies, totalReceiveTime>>

ResetKeepsLatencies == /\ sendPacketCount' = 0 /\ packetCounter' = 0
                       /\ totalReceiveTime' = None
                       /\ UNCHANGED recvLatencyCount
ResetKeepsCounter == /\ sendPacketCount' = 0 /\ recvLatencyCount' = 0
                     /\ totalReceiveTime' = None
                     /\ UNCHANGED packetCounter
Reset == /\ sendPacketCount' = 0 /\ recvLatencyCount' = 0 /\ packetCounter' = 0
         /\ totalReceiveTime' = None

(* The answer gives the time between the round's first packet and its last *)
(* one: the number of the first stands for it, moved to that of the NEXT.  *)
Phase2Read ==
    /\ Ready(2) /\ down # << >>
    /\ down' = Tail(down)
    /\ running' = (Head(down).flags # "SHUTDOWN")
    /\ IF Head(down).flags = "NEXT"
       THEN phase' = 0 /\ Reset /\ reply' = totalReceiveTime + ITERATION_COUNT
       ELSE UNCHANGED <<phase, packetCounter, sendPacketCount, recvLatencyCount,
                        totalReceiveTime, reply>>
    /\ UNCHANGED <<test, up, linux, f_step, recvLatencies>>

VARIANT_WriteChan0 == /\ reply # None
                      /\ Len(up) < Capacity
                      /\ up' = Append(up, reply)
                      /\ reply' = None
                      /\ UNCHANGED <<test, down, linux, running, f_step, phase, packetCounter,
                                     sendPacketCount, recvLatencyCount, recvLatencies, totalReceiveTime>>

-----------------------------------------------------------------------------
Linux == \/ LatencyRequest \/ LatencyReply \/ LatencyNext \/ LatencyShutdown
         \/ ThroughputSend \/ ThroughputReceive \/ ThroughputNext \/ ThroughputFinal

Cpu1 == LatencyHandle \/ Phase0Read \/ Phase1Prepare \/ Phase2Read \/ VARIANT_WriteChan0

Next == Linux \/ Cpu1

Spec == Init /\ [][Next]_vars

(* Both programs do nothing but go on with the test.                       *)
FairSpec == Spec /\ WF_vars(Linux) /\ WF_vars(Cpu1)

-----------------------------------------------------------------------------
Steps == IF test = "latency" THEN Phases ELSE Rounds
Numbers == 0 .. Steps * PacketsPerStep - 1

(* Type correctness, with the ranges of the counters: CPU1 never counts    *)
(* more packets, nor sends more answers, than a round has.                 *)
TypeOK == /\ test \in {"latency", "throughput"}
          /\ down \in Seq([flags : {"none", "NEXT", "SHUTDOWN"}, at : 0 .. Steps + 1,
                           number : Numbers \cup {None}])
          /\ up \in Seq(Numbers) /\ {Len(down), Len(up)} \subseteq 0 .. Capacity
          /\ lpc \in {"send", "receive", "next", "final", "shutdown", "end"}
          /\ step \in 0 .. Steps - 1 /\ i \in 0 .. ITERATION_COUNT
          /\ signals \in 0 .. MaxSignals /\ lag \in Int
          /\ buffer \in [kind : {"none", "request", "answer"}, number : Numbers \cup {None}]
          /\ source \in {"none", "request", "answer"}
          /\ running \in BOOLEAN /\ f_step \in 0 .. Phases - 1 /\ phase \in 0 .. 2
          /\ {packetCounter, sendPacketCount} \subseteq 0 .. ITERATION_COUNT
          /\ recvLatencyCount \in 0 .. MAX_RECV_LATENCIES
          /\ recvLatencies \in [0 .. MAX_RECV_LATENCIES - 1 -> Numbers \cup {None}]
          /\ {totalReceiveTime, reply} \subseteq Numbers \cup {None}

(* A measurement that was written down from an answer is that of its       *)
(* request, or of one as many requests earlier as reads were interrupted   *)
(* at most: the two programs stay that far apart for good.  An interrupted *)
(* read with no answer since the latest request is no measurement at all:  *)
(* it is written down from the bytes of that request, its own one in the   *)
(* latency test and the last one of the round in the other.                *)
MeasurementsOwn ==
    /\ source = "answer" => lag \in 0 .. signals
    /\ source = "request" =>
          /\ signals > 0
          /\ lag \in IF test = "latency" THEN {0} ELSE 1 - ITERATION_COUNT .. 1

(* Whichever packet CPU1 takes, CPU1 is in the phase of the test in which  *)
(* Linux sent it: the latency test waits 5 ms in even phases only, and     *)
(* the throughput test has another handler in each phase.                  *)
PhasesMatch == [][down # << >> /\ down' = Tail(down) =>
                     Head(down).at = IF test = "latency" THEN f_step ELSE phase]_vars

(* The test ends, whatever reads are interrupted and whatever answers of   *)
(* the latency test are given up, and the latency test stops CPU1.  Only   *)
(* the throughput test can fail to: when more of its reads have been       *)
(* interrupted than the queue to Linux holds packets, each program may     *)
(* wait for ever for the other to read.                                    *)
TestEnds == \/ <>(lpc = "end" /\ (test = "latency" => ~ running))
            \/ <>(test = "throughput" /\ signals > Capacity)
==============================================================================
