-------------------------- MODULE UnitTests_proofs --------------------------
(***************************************************************************)
(* Proofs that the two programs of a test agree on where the test stands,  *)
(* and that a measurement is off by no more than the reads that signals    *)
(* interrupted, for every number of packets, sizes and rounds, every       *)
(* capacity of the queues and every number of signals.                     *)
(*                                                                         *)
(* Both tests send the same packets in every run: Packet(t, m) is the one  *)
(* with m packets before it.  Linux and CPU1 have each got to a place in   *)
(* that sequence, and the queue holds what lies between.                   *)
(***************************************************************************)
EXTENDS UnitTests, TLAPS

\* A phase of the latency test and a round of the other are ITERATION_COUNT
\* packets and a packet that ends it.
Period == ITERATION_COUNT + 1

\* The place of the first packet of phase or round r; the phase or round of the
\* packet at place m; and its place in there.
First(r) == r * Period
Round(m) == m \div Period
Place(m) == m % Period

\* The requests among the first m packets of the latency test.
Requests(m) == m - Round(m)

Packet(t, m) ==
    IF t = "latency"
    THEN [flags  |-> IF Place(m) < ITERATION_COUNT THEN "none"
                     ELSE IF Round(m) + 1 < Phases THEN "NEXT" ELSE "SHUTDOWN",
          at     |-> Round(m),
          number |-> IF Place(m) < ITERATION_COUNT THEN Requests(m) ELSE None]
    ELSE [flags  |-> IF Place(m) + 1 < ITERATION_COUNT THEN "none" ELSE "NEXT",
          at     |-> IF Place(m) < ITERATION_COUNT THEN 0 ELSE 2,
          number |-> m]

\* The packets that Linux has sent, those that CPU1 has taken, and the reads
\* that have returned to Linux, with an answer or interrupted.
Sent == First(step) +
        IF test = "latency" THEN IF lpc \in {"receive", "end"} THEN i + 1 ELSE i
        ELSE IF lpc = "send" THEN i
        ELSE IF lpc \in {"receive", "next"} THEN ITERATION_COUNT ELSE Period

Taken == Sent - Len(down)

Reads == First(step) +
         IF test = "latency" THEN i - step
         ELSE IF lpc = "send" THEN 0
         ELSE IF lpc = "receive" THEN i
         ELSE IF lpc = "end" THEN Period ELSE ITERATION_COUNT

\* The answers that CPU1 has prepared in the throughput test, and those of
\* them that it has sent.
Prepared == First(Round(Taken)) + sendPacketCount
Stored == IF reply = None THEN Prepared ELSE Prepared - 1

\* How far the loops of Linux have got at each place.
LinuxInv ==
    IF test = "latency"
    THEN /\ lpc \in {"send", "receive", "next", "shutdown", "end"}
         /\ i < ITERATION_COUNT <=> lpc \in {"send", "receive"}
         /\ lpc = "next" => step + 1 < Phases
         /\ lpc \in {"shutdown", "end"} => step + 1 = Phases
    ELSE /\ lpc \in {"send", "receive", "next", "final", "end"}
         /\ i < ITERATION_COUNT
         /\ lpc \in {"next", "final", "end"} => i = 0
         /\ lpc = "end" => step + 1 = Rounds

\* The queue to CPU1 holds the packets between the two programs' places.
DownInv == /\ Len(down) <= Sent
           /\ \A k \in 1 .. Len(down) : down[k] = Packet(test, Taken + k - 1)

\* What CPU1 keeps follows from the packets it has taken.
CpuLatency ==
    /\ reply = None /\ phase = 0 /\ packetCounter = 0
    /\ sendPacketCount = 0 /\ recvLatencyCount = 0
    /\ IF running THEN Round(Taken) = f_step ELSE Taken = First(Phases)

CpuThroughput ==
    /\ running
    /\ Place(Taken) = packetCounter
    /\ phase = 0 <=> packetCounter < ITERATION_COUNT
    /\ phase = 0 => sendPacketCount = 0
    /\ phase = 1 => sendPacketCount < ITERATION_COUNT
    /\ phase = 2 => sendPacketCount = ITERATION_COUNT
    /\ recvLatencyCount = packetCounter
    /\ totalReceiveTime = IF packetCounter = 0 THEN None ELSE First(Round(Taken))
    /\ \A k \in 0 .. packetCounter - 1 : recvLatencies[k] = First(Round(Taken)) + k

CpuInv == IF test = "latency" THEN CpuLatency ELSE CpuThroughput

\* In the latency test an answer may be given up, so that those in the queue
\* are bounded only from below; each interrupted read lowers the bound by one.
AnswersLatency ==
    /\ Reads + Len(up) <= Requests(Taken) + signals
    /\ \A k \in 1 .. Len(up) : /\ Reads + k <= up[k] + signals + 1
                               /\ up[k] < Requests(Taken)

\* In the throughput test none is: the answers that Linux has read are as many
\* as its reads that were not interrupted.
AnswersThroughput ==
    /\ reply # None => reply = Prepared - 1
    /\ Len(up) <= Stored
    /\ Stored - Len(up) + signals = Reads
    /\ \A k \in 1 .. Len(up) : up[k] = Stored - Len(up) + k - 1

AnswersInv == IF test = "latency" THEN AnswersLatency ELSE AnswersThroughput

\* When Linux reads, its buffer holds its latest request or, once an answer of
\* the round has come, the latest answer.
BufferInv ==
    /\ test = "latency" /\ lpc = "receive" => buffer = [kind |-> "request", number |-> Reads]
    /\ test # "latency" /\ lpc \in {"receive", "next", "final"} =>
          \/ buffer = [kind |-> "request", number |-> First(step) + ITERATION_COUNT - 1]
          \/ buffer = [kind |-> "answer", number |-> Reads - signals - 1]

MeasurementsInv == MeasurementsOwn /\ BufferInv

IInv == TypeOK /\ MeasurementsInv /\ LinuxInv /\ DownInv /\ CpuInv /\ AnswersInv

-----------------------------------------------------------------------------
(* The sequence of packets *)

\* The places where phases begin.
LEMMA Firsts ==
    ASSUME NEW r \in Nat, NEW s \in Nat
    PROVE  /\ Period \in Nat /\ Period = ITERATION_COUNT + 1 /\ 1 < Period
           /\ First(r) \in Nat
           /\ First(r) >= r
           /\ First(0) = 0
           /\ First(r + 1) = First(r) + Period
           /\ r <= s => First(r) <= First(s) /\ First(r) - r <= First(s) - s
           /\ r < s => /\ First(r) + Period <= First(s)
                       /\ First(r) - r + ITERATION_COUNT <= First(s) - s
           /\ r * ITERATION_COUNT = First(r) - r
           /\ r * (ITERATION_COUNT + 1) = First(r)
<1> DEFINE c == ITERATION_COUNT
<1>1. c \in Nat /\ c >= 1
  BY UnitTestsAssumption
<1>2. Period \in Nat /\ Period = c + 1 /\ 1 < Period
  BY <1>1 DEF Period
<1> HIDE DEF c
<1>3. /\ r * c \in Nat /\ r * c >= 0 /\ r * (c + 1) = r * c + r /\ (r + 1) * (c + 1) = r * c + r + c + 1
      /\ s * c \in Nat /\ s * (c + 1) = s * c + s /\ 0 * (c + 1) = 0
  BY <1>1
<1>4. r <= s => r * c <= s * c
  BY <1>1
<1>5. r < s => r * c + c <= s * c
  BY <1>1
<1>6. First(r) = r * c + r /\ First(s) = s * c + s /\ First(0) = 0 /\ First(r + 1) = r * c + r + c + 1
  BY <1>2, <1>3 DEF First
<1>7. First(r) \in Nat /\ First(r) >= r /\ First(r + 1) = First(r) + Period
  BY <1>1, <1>2, <1>3, <1>6
<1>8. r <= s => First(r) <= First(s) /\ First(r) - r <= First(s) - s
  BY <1>1, <1>3, <1>4, <1>6
<1>9. r < s => First(r) + Period <= First(s) /\ First(r) - r + c <= First(s) - s
  BY <1>1, <1>2, <1>3, <1>5, <1>6
<1>10. r * c = First(r) - r /\ r * (c + 1) = First(r)
  BY <1>1, <1>3, <1>6
<1> QED
  BY <1>2, <1>6, <1>7, <1>8, <1>9, <1>10 DEF c

\* Every place is in a phase.
LEMMA Places ==
    ASSUME NEW m \in Nat
    PROVE  /\ Round(m) \in Nat
           /\ Place(m) \in 0 .. ITERATION_COUNT
           /\ m = First(Round(m)) + Place(m)
           /\ First(Round(m)) \in Nat
           /\ Requests(m) \in Nat
           /\ Requests(m) = First(Round(m)) - Round(m) + Place(m)
<1>1. ITERATION_COUNT \in Nat /\ Period \in Nat \ {0} /\ Period = ITERATION_COUNT + 1
  BY UnitTestsAssumption DEF Period
<1>2. m \div Period \in Int /\ m \div Period >= 0
  BY <1>1
<1>3. m % Period \in 0 .. Period - 1
  BY <1>1
<1>4. m - (m % Period) = Period * (m \div Period)
  BY <1>1
<1>5. Round(m) \in Nat /\ Place(m) \in 0 .. ITERATION_COUNT /\ m - Place(m) = Period * Round(m)
  BY <1>1, <1>2, <1>3, <1>4 DEF Round, Place
<1>6. First(Round(m)) = Period * Round(m)
  BY <1>1, <1>5 DEF First
<1>7. First(Round(m)) \in Nat /\ First(Round(m)) >= Round(m)
  BY <1>5, Firsts
<1>8. m = First(Round(m)) + Place(m)
  BY <1>5, <1>6, <1>7, UnitTestsAssumption
<1>9. Requests(m) = First(Round(m)) - Round(m) + Place(m)
  BY <1>5, <1>7, <1>8, UnitTestsAssumption DEF Requests
<1> QED
  BY <1>1, <1>5, <1>7, <1>8, <1>9

\* A place is in one phase only.
LEMMA OnePlace ==
    ASSUME NEW r \in Nat, NEW q \in 0 .. ITERATION_COUNT, NEW m, m = First(r) + q
    PROVE  m \in Nat /\ Round(m) = r /\ Place(m) = q
<1>1. ITERATION_COUNT \in Nat /\ Period \in Nat /\ Period = ITERATION_COUNT + 1 /\ First(r) \in Nat
  BY Firsts, UnitTestsAssumption
<1>2. m \in Nat
  BY <1>1
<1> DEFINE t == Round(m)
<1>3. t \in Nat /\ Place(m) \in 0 .. ITERATION_COUNT /\ m = First(t) + Place(m) /\ First(t) \in Nat
  BY <1>2, Places
<1> HIDE DEF t
<1>4. ~ (t < r)
  <2>1. t < r => First(t) + Period <= First(r)
    BY <1>3, Firsts
  <2> QED
    BY <1>1, <1>3, <2>1
<1>5. ~ (r < t)
  <2>1. r < t => First(r) + Period <= First(t)
    BY <1>3, Firsts
  <2> QED
    BY <1>1, <1>3, <2>1
<1>6. t = r
  BY <1>3, <1>4, <1>5
<1> QED
  BY <1>1, <1>2, <1>3, <1>6 DEF t

\* From one place to the next.
LEMMA NextPlace ==
    ASSUME NEW m \in Nat
    PROVE  /\ Place(m) < ITERATION_COUNT =>
                /\ Round(m + 1) = Round(m) /\ Place(m + 1) = Place(m) + 1
                /\ Requests(m + 1) = Requests(m) + 1
           /\ Place(m) = ITERATION_COUNT =>
                /\ Round(m + 1) = Round(m) + 1 /\ Place(m + 1) = 0
                /\ Requests(m + 1) = Requests(m)
                /\ m + 1 = First(Round(m) + 1)
<1> DEFINE r == Round(m)
           q == Place(m)
<1>1. ITERATION_COUNT \in Nat /\ Period = ITERATION_COUNT + 1
  BY UnitTestsAssumption DEF Period
<1>2. r \in Nat /\ q \in 0 .. ITERATION_COUNT /\ m = First(r) + q /\ First(r) \in Nat
  BY Places
<1>3. Requests(m) = m - r /\ Requests(m + 1) = (m + 1) - Round(m + 1)
  <2>1. m + 1 \in Nat
    OBVIOUS
  <2>2. Round(m) \in Nat /\ Round(m + 1) \in Nat
    BY <2>1, Places
  <2> QED
    BY <2>2 DEF Requests
<1> HIDE DEF r, q
<1>4. ASSUME q < ITERATION_COUNT PROVE Round(m + 1) = r /\ Place(m + 1) = q + 1
  <2>1. m + 1 = First(r) + (q + 1) /\ q + 1 \in 0 .. ITERATION_COUNT
    BY <1>1, <1>2, <1>4
  <2> QED
    BY <1>2, <2>1, OnePlace
<1>5. ASSUME q = ITERATION_COUNT PROVE Round(m + 1) = r + 1 /\ Place(m + 1) = 0 /\ m + 1 = First(r + 1)
  <2>1. First(r + 1) = First(r) + Period /\ r + 1 \in Nat
    BY <1>2, Firsts
  <2>2. m + 1 = First(r + 1) + 0 /\ 0 \in 0 .. ITERATION_COUNT /\ m + 1 = First(r + 1)
    BY <1>1, <1>2, <1>5, <2>1
  <2> QED
    BY <2>1, <2>2, OnePlace
<1>6. q < ITERATION_COUNT => Requests(m + 1) = Requests(m) + 1
  BY <1>2, <1>3, <1>4
<1>7. q = ITERATION_COUNT => Requests(m + 1) = Requests(m)
  BY <1>2, <1>3, <1>5
<1> QED
  BY <1>4, <1>5, <1>6, <1>7 DEF r, q

\* The requests among more packets are no fewer.
LEMMA MoreRequests ==
    ASSUME NEW m \in Nat, NEW n \in Nat, m <= n
    PROVE  Requests(m) <= Requests(n) /\ Round(m) <= Round(n)
<1> DEFINE r == Round(m)
           s == Round(n)
<1>1. ITERATION_COUNT \in Nat /\ Period = ITERATION_COUNT + 1
  BY UnitTestsAssumption DEF Period
<1>2. /\ r \in Nat /\ Place(m) \in 0 .. ITERATION_COUNT /\ m = First(r) + Place(m) /\ First(r) \in Nat
      /\ s \in Nat /\ Place(n) \in 0 .. ITERATION_COUNT /\ n = First(s) + Place(n) /\ First(s) \in Nat
      /\ Requests(m) = First(r) - r + Place(m)
      /\ Requests(n) = First(s) - s + Place(n)
  BY Places
<1> HIDE DEF r, s
<1>3. s < r => First(s) + Period <= First(r)
  BY <1>2, Firsts
<1>4. r <= s
  BY <1>1, <1>2, <1>3
<1>5. r < s => First(r) - r + ITERATION_COUNT <= First(s) - s
  BY <1>2, Firsts
<1>6. CASE r = s
  BY <1>1, <1>2, <1>6 DEF r, s
<1>7. CASE r < s
  BY <1>1, <1>2, <1>5, <1>7 DEF r, s
<1> QED
  BY <1>2, <1>4, <1>6, <1>7

-----------------------------------------------------------------------------
(* The state *)

Packets == [flags : {"none", "NEXT", "SHUTDOWN"}, at : 0 .. Steps + 1,
            number : Numbers \cup {None}]
Buffers == [kind : {"none", "request", "answer"}, number : Numbers \cup {None}]

\* The constants, and the numbers of the packets.
LEMMA Limits ==
    ASSUME test \in {"latency", "throughput"}
    PROVE  /\ ITERATION_COUNT \in Nat \ {0} /\ Capacity \in Nat \ {0} /\ Rounds \in Nat \ {0}
           /\ Phases \in Nat \ {0} /\ Steps \in Nat \ {0}
           /\ MaxSignals \in Nat /\ MAX_RECV_LATENCIES \in Nat
           /\ ITERATION_COUNT <= MAX_RECV_LATENCIES
           /\ First(Steps) \in Nat
           /\ Numbers = 0 .. (IF test = "latency" THEN First(Steps) - Steps ELSE First(Steps)) - 1
<1>1. /\ ITERATION_COUNT \in Nat \ {0} /\ Capacity \in Nat \ {0} /\ Rounds \in Nat \ {0}
      /\ PacketSizes \in Nat \ {0}
      /\ MaxSignals \in Nat /\ MAX_RECV_LATENCIES \in Nat
      /\ ITERATION_COUNT <= MAX_RECV_LATENCIES
  BY UnitTestsAssumption
<1>2. Phases \in Nat \ {0}
  BY <1>1 DEF Phases
<1>3. Steps \in Nat \ {0}
  BY <1>1, <1>2 DEF Steps
<1>4. /\ First(Steps) \in Nat
      /\ Steps * ITERATION_COUNT = First(Steps) - Steps
      /\ Steps * (ITERATION_COUNT + 1) = First(Steps)
  BY <1>3, Firsts
<1>5. ASSUME test = "latency" PROVE Numbers = 0 .. (First(Steps) - Steps) - 1
  <2>1. PacketsPerStep = ITERATION_COUNT
    BY <1>5 DEF PacketsPerStep
  <2>2. Steps * PacketsPerStep = First(Steps) - Steps
    BY <1>4, <2>1
  <2> QED
    BY <2>2 DEF Numbers
<1>6. ASSUME test # "latency" PROVE Numbers = 0 .. First(Steps) - 1
  <2>1. PacketsPerStep = ITERATION_COUNT + 1
    BY <1>6 DEF PacketsPerStep
  <2>2. Steps * PacketsPerStep = First(Steps)
    BY <1>4, <2>1
  <2> QED
    BY <2>2 DEF Numbers
<1> QED
  BY <1>1, <1>2, <1>3, <1>4, <1>5, <1>6

\* Every packet of the test has its type.
LEMMA PacketTyped ==
    ASSUME test \in {"latency", "throughput"}, NEW m \in Nat, m < First(Steps)
    PROVE  Packet(test, m) \in Packets /\ Round(m) < Steps
<1> DEFINE r == Round(m)
           q == Place(m)
<1>1. /\ ITERATION_COUNT \in Nat \ {0} /\ Steps \in Nat \ {0} /\ First(Steps) \in Nat
      /\ Numbers = 0 .. (IF test = "latency" THEN First(Steps) - Steps ELSE First(Steps)) - 1
  BY Limits
<1>2. /\ r \in Nat /\ q \in 0 .. ITERATION_COUNT /\ m = First(r) + q /\ First(r) \in Nat
      /\ Requests(m) \in Nat /\ Requests(m) = First(r) - r + q
  BY Places
<1> HIDE DEF r, q
<1>3. /\ Steps <= r => First(Steps) <= First(r)
      /\ r < Steps => First(r) - r + ITERATION_COUNT <= First(Steps) - Steps
  BY <1>1, <1>2, Firsts
<1>4. r < Steps
  BY <1>1, <1>2, <1>3
<1>5. q < ITERATION_COUNT => Requests(m) < First(Steps) - Steps
  BY <1>1, <1>2, <1>3, <1>4
<1>6. CASE test = "latency"
  <2>1. q < ITERATION_COUNT => Requests(m) \in Numbers
    BY <1>1, <1>2, <1>5, <1>6
  <2>2. r \in 0 .. Steps + 1
    BY <1>1, <1>2, <1>4
  <2> QED
    BY <1>4, <1>6, <2>1, <2>2 DEF Packet, Packets, r, q
<1>7. CASE test # "latency"
  <2>1. m \in Numbers
    BY <1>1, <1>7
  <2>2. 0 \in 0 .. Steps + 1 /\ 2 \in 0 .. Steps + 1
    BY <1>1
  <2> QED
    BY <1>4, <1>7, <2>1, <2>2 DEF Packet, Packets, r
<1> QED
  BY <1>6, <1>7

\* What the invariant says of the two places, and of the packet CPU1 takes next.
LEMMA Facts ==
    ASSUME IInv
    PROVE  /\ test \in {"latency", "throughput"}
           /\ step \in Nat /\ step < Steps /\ i \in Nat /\ i <= ITERATION_COUNT
           /\ First(step) \in Nat /\ First(step) + Period <= First(Steps)
           /\ Sent \in Nat /\ Sent <= First(Steps)
           /\ Len(down) \in Nat /\ Len(down) <= Capacity
           /\ Taken \in Nat /\ Taken = Sent - Len(down)
           /\ down # << >> => /\ Head(down) = Packet(test, Taken)
                              /\ Taken < Sent /\ Taken < First(Steps)
                              /\ Len(down) > 0
<1>1. /\ test \in {"latency", "throughput"} /\ down \in Seq(Packets)
      /\ step \in 0 .. Steps - 1 /\ i \in 0 .. ITERATION_COUNT
      /\ Len(down) \in 0 .. Capacity
  BY DEF IInv, TypeOK, Packets
<1>2. ITERATION_COUNT \in Nat /\ Steps \in Nat /\ First(Steps) \in Nat /\ Capacity \in Nat
  BY <1>1, Limits
<1>3. step \in Nat /\ step < Steps /\ i \in Nat /\ i <= ITERATION_COUNT
  BY <1>1, <1>2
<1>4. /\ First(step) \in Nat /\ First(step) + Period <= First(Steps)
      /\ Period \in Nat /\ Period = ITERATION_COUNT + 1
  BY <1>2, <1>3, Firsts
<1>5. Sent \in Nat /\ Sent <= First(step) + Period
  BY <1>2, <1>3, <1>4 DEF Sent
<1>6. Len(down) \in Nat /\ Len(down) <= Sent /\ Len(down) <= Capacity
  BY <1>1, <1>2 DEF IInv, DownInv
<1>7. Taken \in Nat /\ Taken = Sent - Len(down)
  BY <1>5, <1>6 DEF Taken
<1>8. ASSUME down # << >>
      PROVE  Head(down) = Packet(test, Taken) /\ Taken < Sent /\ Len(down) > 0
  <2>1. Len(down) > 0 /\ Head(down) = down[1] /\ 1 \in 1 .. Len(down)
    BY <1>1, <1>6, <1>8
  <2>2. down[1] = Packet(test, Taken + 1 - 1) /\ Taken + 1 - 1 = Taken
    BY <1>7, <2>1 DEF IInv, DownInv
  <2> QED
    BY <1>5, <1>6, <1>7, <2>1, <2>2
<1>9. Sent <= First(Steps)
  BY <1>2, <1>4, <1>5
<1>10. ASSUME down # << >> PROVE Taken < First(Steps)
  BY <1>2, <1>5, <1>7, <1>8, <1>9, <1>10
<1> QED
  BY <1>1, <1>3, <1>4, <1>5, <1>6, <1>7, <1>8, <1>9, <1>10

\* Linux sends the next packet of the test.
LEMMA SendsNext ==
    ASSUME IInv, test' = test, NEW flags, NEW at, NEW n, Send(flags, at, n),
           [flags |-> flags, at |-> at, number |-> n] = Packet(test, Sent),
           Sent < First(Steps), Sent' = Sent + 1
    PROVE  /\ DownInv' /\ Taken' = Taken
           /\ down' \in Seq(Packets) /\ Len(down') \in 0 .. Capacity
           /\ down' # Tail(down)
<1> DEFINE p == [flags |-> flags, at |-> at, number |-> n]
<1>1. /\ test \in {"latency", "throughput"} /\ Sent \in Nat /\ Len(down) \in Nat
      /\ Taken \in Nat /\ Taken = Sent - Len(down) /\ down \in Seq(Packets) /\ Capacity \in Nat
      /\ \A k \in 1 .. Len(down) : down[k] = Packet(test, Taken + k - 1)
  BY Facts, Limits DEF IInv, TypeOK, Packets, DownInv
<1>2. Len(down) < Capacity /\ down' = Append(down, p)
  BY DEF Send
<1>3. p \in Packets /\ p = Packet(test, Sent)
  BY <1>1, PacketTyped
<1> HIDE DEF p
<1>4. /\ down' \in Seq(Packets) /\ Len(down') = Len(down) + 1
      /\ \A k \in 1 .. Len(down) : down'[k] = down[k]
      /\ down'[Len(down) + 1] = p
  BY <1>1, <1>2, <1>3
<1>5. Taken' = Taken
  BY <1>1, <1>4 DEF Taken
<1>6. Len(down') <= Sent' /\ Len(down') \in 0 .. Capacity
  BY <1>1, <1>2, <1>4
<1>7. \A k \in 1 .. Len(down') : down'[k] = Packet(test', Taken' + k - 1)
  <2> SUFFICES ASSUME NEW k \in 1 .. Len(down') PROVE down'[k] = Packet(test, Taken + k - 1)
    BY <1>5
  <2>1. CASE k \in 1 .. Len(down)
    BY <1>1, <1>4, <2>1
  <2>2. CASE k = Len(down) + 1
    <3>1. Taken + k - 1 = Sent
      BY <1>1, <2>2
    <3> QED
      BY <1>3, <1>4, <2>2, <3>1
  <2> QED
    BY <1>1, <1>4, <2>1, <2>2
<1>8. down' # Tail(down)
  <2>1. CASE down = << >>
    BY <1>1, <1>4, <2>1
  <2>2. CASE down # << >>
    <3>1. Len(Tail(down)) = Len(down) - 1
      BY <1>1, <2>2
    <3> QED
      BY <1>1, <1>4, <3>1
  <2> QED
    BY <2>1, <2>2
<1> QED
  BY <1>4, <1>5, <1>6, <1>7, <1>8 DEF DownInv

\* CPU1 takes the next packet of the test.
LEMMA TakesNext ==
    ASSUME IInv, test' = test, down # << >>, down' = Tail(down), UNCHANGED linux
    PROVE  /\ DownInv' /\ Taken' = Taken + 1 /\ Sent' = Sent
           /\ down' \in Seq(Packets) /\ Len(down') \in 0 .. Capacity
<1>1. /\ Sent \in Nat /\ Len(down) \in Nat /\ Len(down) > 0 /\ Len(down) <= Capacity
      /\ Taken \in Nat /\ Taken = Sent - Len(down) /\ down \in Seq(Packets) /\ Capacity \in Nat
      /\ Len(down) <= Sent
      /\ \A k \in 1 .. Len(down) : down[k] = Packet(test, Taken + k - 1)
  BY Facts, Limits DEF IInv, TypeOK, Packets, DownInv
<1>2. /\ down' \in Seq(Packets) /\ Len(down') = Len(down) - 1
      /\ \A k \in 1 .. Len(down) - 1 : down'[k] = down[k + 1]
  BY <1>1
<1>3. Sent' = Sent
  BY DEF Sent, linux
<1>4. Taken' = Taken + 1
  BY <1>1, <1>2, <1>3 DEF Taken
<1>5. \A k \in 1 .. Len(down') : down'[k] = Packet(test', Taken' + k - 1)
  <2> SUFFICES ASSUME NEW k \in 1 .. Len(down') PROVE down'[k] = Packet(test, Taken + 1 + k - 1)
    BY <1>4
  <2>1. k \in Nat /\ k + 1 \in 1 .. Len(down) /\ k \in 1 .. Len(down) - 1
    BY <1>1, <1>2
  <2>2. down'[k] = Packet(test, Taken + (k + 1) - 1)
    BY <1>1, <1>2, <2>1
  <2>3. Taken + (k + 1) - 1 = Taken + 1 + k - 1
    BY <1>1, <2>1
  <2> QED
    BY <2>2, <2>3
<1> QED
  BY <1>1, <1>2, <1>3, <1>4, <1>5 DEF DownInv

\* Nothing the test does changes what test it is.
LEMMA SameTest ==
    ASSUME test' = test
    PROVE  /\ Steps' = Steps /\ Numbers' = Numbers
           /\ Packets' = Packets /\ Buffers' = Buffers
           /\ PacketsPerStep' = PacketsPerStep
<1>1. Steps' = Steps /\ PacketsPerStep' = PacketsPerStep
  BY DEF Steps, PacketsPerStep
<1>2. Numbers' = Numbers
  BY <1>1 DEF Numbers
<1> QED
  BY <1>1, <1>2 DEF Packets, Buffers

\* Linux leaves what CPU1 keeps alone.
LEMMA LinuxTypes ==
    ASSUME IInv, test' = test, UNCHANGED cpu1,
           down' \in Seq(Packets), Len(down') \in 0 .. Capacity,
           up' \in Seq(Numbers), Len(up') \in 0 .. Capacity,
           lpc' \in {"send", "receive", "next", "final", "shutdown", "end"},
           step' \in 0 .. Steps - 1, i' \in 0 .. ITERATION_COUNT,
           signals' \in 0 .. MaxSignals, lag' \in Int, buffer' \in Buffers,
           source' \in {"none", "request", "answer"}
    PROVE  TypeOK'
<1>1. /\ Steps' = Steps /\ Numbers' = Numbers /\ Packets' = Packets
      /\ Buffers' = Buffers
  BY SameTest
<1>2. /\ test' \in {"latency", "throughput"}
      /\ down' \in Seq(Packets') /\ up' \in Seq(Numbers') /\ step' \in 0 .. Steps' - 1
      /\ buffer' \in Buffers'
  BY <1>1 DEF IInv, TypeOK
<1>3. /\ running \in BOOLEAN /\ f_step \in 0 .. Phases - 1 /\ phase \in 0 .. 2
      /\ {packetCounter, sendPacketCount} \subseteq 0 .. ITERATION_COUNT
      /\ recvLatencyCount \in 0 .. MAX_RECV_LATENCIES
      /\ recvLatencies \in [0 .. MAX_RECV_LATENCIES - 1 -> Numbers \cup {None}]
      /\ {totalReceiveTime, reply} \subseteq Numbers \cup {None}
  BY DEF IInv, TypeOK
<1>4. /\ running' = running /\ f_step' = f_step /\ phase' = phase
      /\ packetCounter' = packetCounter /\ sendPacketCount' = sendPacketCount
      /\ recvLatencyCount' = recvLatencyCount /\ recvLatencies' = recvLatencies
      /\ totalReceiveTime' = totalReceiveTime /\ reply' = reply
  BY DEF cpu1
<1>5. {Len(down'), Len(up')} \subseteq 0 .. Capacity
  OBVIOUS
<1> HIDE DEF Packets, Buffers
<1>6. /\ recvLatencies' \in [0 .. MAX_RECV_LATENCIES - 1 -> Numbers' \cup {None}]
      /\ {totalReceiveTime', reply'} \subseteq Numbers' \cup {None}
  BY <1>1, <1>3, <1>4
<1>7. /\ running' \in BOOLEAN /\ f_step' \in 0 .. Phases - 1 /\ phase' \in 0 .. 2
      /\ {packetCounter', sendPacketCount'} \subseteq 0 .. ITERATION_COUNT
      /\ recvLatencyCount' \in 0 .. MAX_RECV_LATENCIES
  BY <1>3, <1>4
<1> QED
  BY <1>2, <1>5, <1>6, <1>7 DEF TypeOK, Packets, Buffers

\* Nor does it change where CPU1 stands, as long as it does not take packets back.
LEMMA LinuxKeepsCpu ==
    ASSUME IInv, test' = test, UNCHANGED cpu1, Taken' = Taken
    PROVE  CpuInv' /\ Prepared' = Prepared /\ Stored' = Stored
<1>1. /\ running' = running /\ f_step' = f_step /\ phase' = phase
      /\ packetCounter' = packetCounter /\ sendPacketCount' = sendPacketCount
      /\ recvLatencyCount' = recvLatencyCount /\ recvLatencies' = recvLatencies
      /\ totalReceiveTime' = totalReceiveTime /\ reply' = reply
  BY DEF cpu1
<1>2. Round(Taken)' = Round(Taken) /\ Place(Taken)' = Place(Taken)
  BY DEF Round, Place
<1>3. First(Round(Taken))' = First(Round(Taken))
  BY <1>2 DEF First
<1>4. Prepared' = Prepared
  BY <1>1, <1>3 DEF Prepared
<1>5. Stored' = Stored
  BY <1>1, <1>4 DEF Stored
<1>6. CpuLatency => CpuLatency'
  BY <1>1, <1>2, Zenon DEF CpuLatency
<1>7. CpuThroughput => CpuThroughput'
  BY <1>1, <1>2, <1>3, Zenon DEF CpuThroughput
<1> QED
  BY <1>4, <1>5, <1>6, <1>7 DEF IInv, CpuInv

\* A send changes nothing of the answers.
LEMMA SendKeepsAnswers ==
    ASSUME IInv, test' = test, UNCHANGED cpu1, Taken' = Taken,
           UNCHANGED <<up, signals, source, lag>>, Reads' = Reads
    PROVE  AnswersInv' /\ MeasurementsOwn'
<1>1. Prepared' = Prepared /\ Stored' = Stored /\ reply' = reply
  BY LinuxKeepsCpu DEF cpu1
<1>2. Requests(Taken)' = Requests(Taken)
  BY DEF Requests, Round
<1>3. AnswersLatency => AnswersLatency'
  BY <1>2, Zenon DEF AnswersLatency
<1>4. AnswersThroughput => AnswersThroughput'
  BY <1>1, Zenon DEF AnswersThroughput
<1>5. MeasurementsOwn'
  BY Zenon DEF IInv, MeasurementsInv, MeasurementsOwn
<1> QED
  BY <1>3, <1>4, <1>5 DEF IInv, AnswersInv

\* A read of Linux takes the oldest answer or is interrupted.
LEMMA ReadsNext ==
    ASSUME IInv, test' = test, UNCHANGED cpu1, Taken' = Taken, Reads' = Reads + 1,
           Reads \in Nat, test = "latency" => Requests(Taken) <= Reads + 1,
           lpc \in IF test = "latency" THEN {"receive"} ELSE {"receive", "final"},
           Receive(Reads) \/ Interrupted(Reads)
    PROVE  /\ AnswersInv' /\ MeasurementsOwn'
           /\ up' \in Seq(Numbers) /\ Len(up') \in 0 .. Capacity
           /\ signals' \in 0 .. MaxSignals /\ lag' \in Int
           /\ buffer' \in Buffers /\ source' \in {"none", "request", "answer"}
           /\ test # "latency" =>
                 \/ buffer' = [kind |-> "request", number |-> First(step) + ITERATION_COUNT - 1]
                 \/ buffer' = [kind |-> "answer", number |-> Reads' - signals' - 1]
<1>1. /\ up \in Seq(Numbers) /\ Len(up) \in 0 .. Capacity /\ signals \in 0 .. MaxSignals /\ lag \in Int
      /\ test \in {"latency", "throughput"} /\ buffer \in Buffers
  BY DEF IInv, TypeOK, Buffers
<1>2. /\ Capacity \in Nat /\ MaxSignals \in Nat /\ Taken \in Nat
      /\ Requests(Taken) \in Nat
  BY <1>1, Limits, Facts, Places
<1>3. \A k \in 1 .. Len(up) : up[k] \in Nat
  <2>1. \A k \in 1 .. Len(up) : up[k] \in Numbers
    BY <1>1
  <2>2. Numbers \subseteq Nat
    BY <1>1 DEF Numbers
  <2> QED
    BY <2>1, <2>2
<1>4. Prepared' = Prepared /\ Stored' = Stored /\ reply' = reply
  BY LinuxKeepsCpu DEF cpu1
<1>5. Requests(Taken)' = Requests(Taken)
  BY DEF Requests, Round
<1>6. Stored \in Int /\ Prepared \in Int
  <2>1. First(Round(Taken)) \in Nat /\ sendPacketCount \in 0 .. ITERATION_COUNT
    BY <1>2, Places DEF IInv, TypeOK
  <2>2. Prepared \in Int
    BY <2>1 DEF Prepared
  <2> QED
    BY <2>2 DEF Stored
<1>7. CASE Interrupted(Reads)
  <2>1. /\ signals < MaxSignals /\ signals' = signals + 1 /\ up' = up /\ buffer' = buffer
        /\ source' = buffer.kind /\ lag' = Reads - buffer.number
    BY <1>7 DEF Interrupted, Record
  <2>2. /\ up' \in Seq(Numbers) /\ Len(up') \in 0 .. Capacity
        /\ signals' \in 0 .. MaxSignals /\ signals' > 0 /\ buffer' \in Buffers
    BY <1>1, <1>2, <2>1
  <2>3. /\ lag' \in Int /\ MeasurementsOwn' /\ source' \in {"none", "request", "answer"}
        /\ test # "latency" =>
              \/ buffer' = [kind |-> "request", number |-> First(step) + ITERATION_COUNT - 1]
              \/ buffer' = [kind |-> "answer", number |-> Reads' - signals' - 1]
    <3>1. CASE test = "latency"
      <4>1. buffer = [kind |-> "request", number |-> Reads]
        BY <3>1 DEF IInv, MeasurementsInv, BufferInv
      <4>2. source' = "request" /\ lag' = 0
        BY <2>1, <4>1
      <4> QED
        BY <2>2, <3>1, <4>2 DEF MeasurementsOwn
    <3>2. CASE test # "latency"
      <4>1. /\ First(step) \in Nat /\ ITERATION_COUNT \in Nat /\ signals \in Nat
            /\ Reads - First(step) \in 0 .. ITERATION_COUNT
        <5>1. First(step) \in Nat /\ ITERATION_COUNT \in Nat /\ signals \in Nat /\ i \in Nat
          BY <1>1, <1>2, Limits, Facts
        <5>2. Reads = First(step) + IF lpc = "receive" THEN i ELSE ITERATION_COUNT
          BY <3>2 DEF Reads
        <5>3. i < ITERATION_COUNT
          BY <3>2 DEF IInv, LinuxInv
        <5> QED
          BY <5>1, <5>2, <5>3
      <4>2. CASE buffer = [kind |-> "request", number |-> First(step) + ITERATION_COUNT - 1]
        <5>1. source' = "request" /\ lag' = Reads - (First(step) + ITERATION_COUNT - 1)
          BY <2>1, <4>2
        <5>2. lag' \in Int /\ lag' \in 1 - ITERATION_COUNT .. 1
          BY <4>1, <5>1
        <5> QED
          BY <2>1, <2>2, <3>2, <4>2, <5>1, <5>2 DEF MeasurementsOwn
      <4>3. CASE buffer = [kind |-> "answer", number |-> Reads - signals - 1]
        <5>1. source' = "answer" /\ lag' = Reads - (Reads - signals - 1)
          BY <2>1, <4>3
        <5>2. lag' \in 0 .. signals' /\ lag' \in Int
          BY <2>1, <4>1, <5>1
        <5>3. Reads' - signals' - 1 = Reads - signals - 1
          BY <2>1, <4>1
        <5>4. buffer' = [kind |-> "answer", number |-> Reads' - signals' - 1]
          BY <2>1, <4>3, <5>3
        <5> QED
          BY <5>1, <5>2, <5>4 DEF MeasurementsOwn
      <4> QED
        BY <3>2, <4>2, <4>3 DEF IInv, MeasurementsInv, BufferInv
    <3> QED
      BY <3>1, <3>2
  <2>4. ASSUME test = "latency" PROVE AnswersLatency'
    <3>1. /\ Reads + Len(up) <= Requests(Taken) + signals
          /\ \A k \in 1 .. Len(up) : /\ Reads + k <= up[k] + signals + 1
                                     /\ up[k] < Requests(Taken)
      BY <2>4 DEF IInv, AnswersInv, AnswersLatency
    <3>2. Reads' + Len(up') <= Requests(Taken)' + signals'
      BY <1>1, <1>2, <1>5, <2>1, <3>1
    <3>3. \A k \in 1 .. Len(up') : /\ Reads' + k <= up'[k] + signals' + 1
                                   /\ up'[k] < Requests(Taken)'
      <4> SUFFICES ASSUME NEW k \in 1 .. Len(up)
                   PROVE  Reads + 1 + k <= up[k] + (signals + 1) + 1 /\ up[k] < Requests(Taken)
        BY <1>5, <2>1
      <4>1. up[k] \in Nat
        BY <1>3
      <4> QED
        BY <1>1, <3>1, <4>1
    <3> QED
      BY <3>2, <3>3 DEF AnswersLatency
  <2>5. ASSUME test # "latency" PROVE AnswersThroughput'
    <3>1. AnswersThroughput
      BY <2>5 DEF IInv, AnswersInv
    <3>2. Stored - Len(up) + signals = Reads /\ Len(up) <= Stored
      BY <3>1 DEF AnswersThroughput
    <3>3. Stored \in Int
      BY <1>6
    <3>4. Stored' - Len(up') + signals' = Reads'
      BY <1>1, <1>2, <1>4, <2>1, <3>2, <3>3
    <3>5. /\ reply' # None => reply' = Prepared' - 1
          /\ Len(up') <= Stored'
          /\ \A k \in 1 .. Len(up') : up'[k] = Stored' - Len(up') + k - 1
      BY <1>4, <2>1, <3>1, Zenon DEF AnswersThroughput
    <3> QED
      BY <3>4, <3>5 DEF AnswersThroughput
  <2> QED
    BY <2>2, <2>3, <2>4, <2>5 DEF AnswersInv
<1>8. CASE Receive(Reads)
  <2>1. /\ up # << >> /\ up' = Tail(up) /\ signals' = signals
        /\ buffer' = [kind |-> "answer", number |-> Head(up)]
        /\ lag' = Reads - Head(up) /\ source' = "answer"
    BY <1>8 DEF Receive, Record
  <2>2. /\ Len(up) \in Nat /\ Len(up) > 0 /\ Head(up) = up[1] /\ 1 \in 1 .. Len(up) /\ up[1] \in Nat
        /\ up' \in Seq(Numbers) /\ Len(up') = Len(up) - 1
        /\ \A k \in 1 .. Len(up) - 1 : up'[k] = up[k + 1]
    <3>1. /\ Len(up) \in Nat /\ Len(up) > 0 /\ Head(up) = up[1] /\ 1 \in 1 .. Len(up)
          /\ up' \in Seq(Numbers) /\ Len(up') = Len(up) - 1
          /\ \A k \in 1 .. Len(up) - 1 : up'[k] = up[k + 1]
      BY <1>1, <2>1
    <3> QED
      BY <1>3, <3>1
  <2>3. /\ Len(up') \in 0 .. Capacity /\ signals' \in 0 .. MaxSignals /\ lag' \in Int
        /\ buffer' \in Buffers
    <3>1. up[1] \in Numbers
      BY <1>1, <2>2
    <3>2. buffer' \in Buffers
      BY <2>1, <2>2, <3>1 DEF Buffers
    <3> QED
      BY <1>1, <1>2, <2>1, <2>2, <3>2
  <2>4. ASSUME test = "latency" PROVE AnswersLatency' /\ lag' \in 0 .. signals'
    <3>1. /\ Reads + Len(up) <= Requests(Taken) + signals
          /\ \A k \in 1 .. Len(up) : /\ Reads + k <= up[k] + signals + 1
                                     /\ up[k] < Requests(Taken)
          /\ Requests(Taken) <= Reads + 1
      BY <2>4 DEF IInv, AnswersInv, AnswersLatency
    <3>2. Reads' + Len(up') <= Requests(Taken)' + signals'
      BY <1>1, <1>2, <1>5, <2>1, <2>2, <3>1
    <3>3. \A k \in 1 .. Len(up') : /\ Reads' + k <= up'[k] + signals' + 1
                                   /\ up'[k] < Requests(Taken)'
      <4> SUFFICES ASSUME NEW k \in 1 .. Len(up) - 1
                   PROVE  Reads + 1 + k <= up[k + 1] + signals + 1 /\ up[k + 1] < Requests(Taken)
        BY <1>5, <2>1, <2>2
      <4>1. k \in Nat /\ k + 1 \in 1 .. Len(up)
        BY <2>2
      <4>2. up[k + 1] \in Nat
        BY <1>3, <4>1
      <4>3. Reads + (k + 1) <= up[k + 1] + signals + 1 /\ up[k + 1] < Requests(Taken)
        BY <3>1, <4>1
      <4> QED
        BY <1>1, <4>1, <4>2, <4>3
    <3>4. Reads + 1 <= up[1] + signals + 1 /\ up[1] < Requests(Taken)
      BY <2>2, <3>1
    <3>5. lag' \in 0 .. signals'
      <4>1. lag' = Reads - up[1] /\ up[1] \in Nat /\ signals \in Nat
        BY <1>1, <1>2, <2>1, <2>2
      <4>2. lag' <= signals /\ lag' >= 0
        BY <1>2, <3>1, <3>4, <4>1
      <4> QED
        BY <2>1, <2>3, <4>1, <4>2
    <3> QED
      BY <3>2, <3>3, <3>5 DEF AnswersLatency
  <2>5. ASSUME test # "latency"
        PROVE  /\ AnswersThroughput' /\ lag' \in 0 .. signals'
               /\ buffer' = [kind |-> "answer", number |-> Reads' - signals' - 1]
    <3>1. AnswersThroughput
      BY <2>5 DEF IInv, AnswersInv
    <3>2. /\ Stored - Len(up) + signals = Reads /\ Len(up) <= Stored
          /\ \A k \in 1 .. Len(up) : up[k] = Stored - Len(up) + k - 1
      BY <3>1 DEF AnswersThroughput
    <3>3. Stored \in Int
      BY <1>6
    <3>4. Stored' - Len(up') + signals' = Reads' /\ Len(up') <= Stored'
      <4>1. signals \in Nat /\ Len(up) \in Nat
        BY <1>1, <1>2
      <4>2. Stored - (Len(up) - 1) + signals = Reads + 1 /\ Len(up) - 1 <= Stored
        BY <3>2, <3>3, <4>1
      <4> QED
        BY <1>4, <2>1, <2>2, <4>2
    <3>5. reply' # None => reply' = Prepared' - 1
      BY <1>4, <3>1 DEF AnswersThroughput
    <3>6. \A k \in 1 .. Len(up') : up'[k] = Stored' - Len(up') + k - 1
      <4> SUFFICES ASSUME NEW k \in 1 .. Len(up) - 1
                   PROVE  up[k + 1] = Stored - (Len(up) - 1) + k - 1
        BY <1>4, <2>2
      <4>1. k \in Nat /\ k + 1 \in 1 .. Len(up)
        BY <2>2
      <4>2. up[k + 1] = Stored - Len(up) + (k + 1) - 1
        BY <3>2, <4>1
      <4> QED
        BY <2>2, <3>3, <4>1, <4>2
    <3>7. up[1] = Stored - Len(up) + 1 - 1
      BY <2>2, <3>2
    <3>8. lag' = signals'
      BY <1>1, <2>1, <2>2, <3>2, <3>3, <3>7
    <3>9. up[1] = Reads' - signals' - 1
      <4>1. signals \in Nat /\ Len(up) \in Nat /\ up[1] \in Nat
        BY <1>1, <1>2, <2>2
      <4>2. up[1] = Reads - signals
        BY <3>2, <3>3, <3>7, <4>1
      <4>3. Reads' = Reads + 1 /\ signals' = signals
        BY <2>1
      <4> QED
        BY <4>1, <4>2, <4>3
    <3> QED
      BY <1>1, <2>1, <2>2, <3>4, <3>5, <3>6, <3>8, <3>9 DEF AnswersThroughput
  <2>6. MeasurementsOwn'
    <3>1. source' = "answer" /\ lag' \in 0 .. signals'
      BY <2>1, <2>4, <2>5
    <3> QED
      BY <3>1, Zenon DEF MeasurementsOwn
  <2> QED
    BY <2>1, <2>2, <2>3, <2>4, <2>5, <2>6 DEF AnswersInv
<1> QED
  BY <1>7, <1>8

-----------------------------------------------------------------------------
(* The actions of Linux *)

\* What is left to show of an action in which Linux sends.
LEMMA LinuxSends ==
    ASSUME IInv, test' = test, UNCHANGED cpu1, UNCHANGED <<up, signals, source, lag>>,
           NEW flags, NEW at, NEW n, Send(flags, at, n),
           [flags |-> flags, at |-> at, number |-> n] = Packet(test, Sent),
           Sent < First(Steps), Sent' = Sent + 1, Reads' = Reads, LinuxInv', BufferInv',
           UNCHANGED buffer \/ MakeRequest(n),
           lpc' \in {"send", "receive", "next", "final", "shutdown", "end"},
           step' \in 0 .. Steps - 1, i' \in 0 .. ITERATION_COUNT
    PROVE  IInv' /\ down' # Tail(down)
<1>1. /\ DownInv' /\ Taken' = Taken /\ down' \in Seq(Packets) /\ Len(down') \in 0 .. Capacity
      /\ down' # Tail(down)
  BY SendsNext
<1>2. CpuInv'
  BY <1>1, LinuxKeepsCpu
<1>3. AnswersInv' /\ MeasurementsOwn'
  BY <1>1, SendKeepsAnswers
<1>4. /\ up' \in Seq(Numbers) /\ Len(up') \in 0 .. Capacity
      /\ signals' \in 0 .. MaxSignals /\ lag' \in Int
      /\ source' \in {"none", "request", "answer"} /\ buffer \in Buffers
  BY DEF IInv, TypeOK, Buffers
<1>5. buffer' \in Buffers
  <2>1. CASE UNCHANGED buffer
    BY <1>4, <2>1
  <2>2. CASE MakeRequest(n)
    <3>1. test \in {"latency", "throughput"} /\ Sent \in Nat
      BY Facts DEF IInv, TypeOK
    <3>2. [flags |-> flags, at |-> at, number |-> n] \in Packets
      BY <3>1, PacketTyped
    <3>3. n \in Numbers \cup {None}
      BY <3>2 DEF Packets
    <3> QED
      BY <2>2, <3>3 DEF MakeRequest, Buffers
  <2> QED
    BY <2>1, <2>2
<1>6. TypeOK'
  BY <1>1, <1>4, <1>5, LinuxTypes
<1> QED
  BY <1>1, <1>2, <1>3, <1>6 DEF IInv, MeasurementsInv

\* What is left to show of an action in which Linux reads.
LEMMA LinuxReads ==
    ASSUME IInv, test' = test, UNCHANGED cpu1, UNCHANGED down,
           Receive(Reads) \/ Interrupted(Reads), Sent' = Sent,
           Reads \in Nat, Reads' = Reads + 1,
           test = "latency" => Requests(Taken) <= Reads + 1, LinuxInv',
           lpc \in IF test = "latency" THEN {"receive"} ELSE {"receive", "final"},
           IF test = "latency" THEN lpc' # "receive"
           ELSE lpc' \in {"receive", "next", "final"} => step' = step,
           lpc' \in {"send", "receive", "next", "final", "shutdown", "end"},
           step' \in 0 .. Steps - 1, i' \in 0 .. ITERATION_COUNT
    PROVE  IInv'
<1>1. Taken' = Taken
  BY DEF Taken
<1>2. down' \in Seq(Packets) /\ Len(down') \in 0 .. Capacity
  BY DEF IInv, TypeOK, Packets
<1>3. DownInv'
  BY <1>1, Zenon DEF IInv, DownInv
<1>4. CpuInv'
  BY <1>1, LinuxKeepsCpu
<1>5. /\ AnswersInv' /\ MeasurementsOwn' /\ up' \in Seq(Numbers) /\ Len(up') \in 0 .. Capacity
      /\ signals' \in 0 .. MaxSignals /\ lag' \in Int
      /\ buffer' \in Buffers /\ source' \in {"none", "request", "answer"}
      /\ test # "latency" =>
            \/ buffer' = [kind |-> "request", number |-> First(step) + ITERATION_COUNT - 1]
            \/ buffer' = [kind |-> "answer", number |-> Reads' - signals' - 1]
  BY <1>1, ReadsNext
<1>6. TypeOK'
  BY <1>2, <1>5, LinuxTypes
<1>7. BufferInv'
  <2>1. CASE test = "latency"
    BY <2>1 DEF BufferInv
  <2>2. CASE test # "latency"
    <3>1. step' = step => First(step)' = First(step)
      BY DEF First
    <3> QED
      BY <1>5, <2>2, <3>1 DEF BufferInv
  <2> QED
    BY <2>1, <2>2
<1> QED
  BY <1>3, <1>4, <1>5, <1>6, <1>7 DEF IInv, MeasurementsInv

\* The request of DoTest is the next packet of the sequence.
LEMMA LatencyRequestIInv ==
    ASSUME IInv, LatencyRequest
    PROVE  IInv' /\ down' # Tail(down)
<1>1. /\ test = "latency" /\ lpc = "send" /\ lpc' = "receive" /\ test' = test
      /\ step' = step /\ i' = i /\ Send("none", step, Number(i)) /\ MakeRequest(Number(i))
      /\ UNCHANGED cpu1 /\ UNCHANGED <<up, signals, source, lag>>
  BY DEF LatencyRequest
<1>2. /\ step \in Nat /\ step < Steps /\ step \in 0 .. Steps - 1 /\ i \in 0 .. ITERATION_COUNT
      /\ First(step) \in Nat /\ First(step) + Period <= First(Steps) /\ First(Steps) \in Nat
      /\ Period = ITERATION_COUNT + 1 /\ ITERATION_COUNT \in Nat
  BY Facts, Limits DEF IInv, TypeOK, Period
<1>3. i < ITERATION_COUNT
  BY <1>1 DEF IInv, LinuxInv
<1>4. Sent = First(step) + i /\ Sent' = First(step) + (i + 1)
  BY <1>1 DEF Sent
<1>5. Reads' = Reads
  BY <1>1, Zenon DEF Reads
<1>6. Sent \in Nat /\ Round(Sent) = step /\ Place(Sent) = i
  BY <1>2, <1>4, OnePlace
<1>7. Number(i) = Requests(Sent)
  <2>1. Number(i) = step * ITERATION_COUNT + i /\ step * ITERATION_COUNT = First(step) - step
    BY <1>1, <1>2, Firsts DEF Number, PacketsPerStep
  <2>2. Requests(Sent) = First(step) - step + i
    BY <1>6, Places
  <2> QED
    BY <2>1, <2>2
<1>8. [flags |-> "none", at |-> step, number |-> Number(i)] = Packet(test, Sent)
  BY <1>1, <1>3, <1>6, <1>7 DEF Packet
<1>9. Sent < First(Steps) /\ Sent' = Sent + 1
  BY <1>2, <1>3, <1>4
<1>10. LinuxInv'
  BY <1>1, <1>3 DEF LinuxInv
<1>11. BufferInv'
  <2>1. Reads = First(step) + (i - step) /\ Requests(Sent) = First(step) - step + i
    BY <1>1, <1>6, Places DEF Reads
  <2>2. Number(i) = Reads'
    BY <1>2, <1>5, <1>7, <2>1
  <2> QED
    BY <1>1, <2>2 DEF BufferInv, MakeRequest
<1> QED
  BY <1>1, <1>2, <1>5, <1>8, <1>9, <1>10, <1>11, LinuxSends

\* The NEXT after the last request of a phase is, too.
LEMMA LatencyNextIInv ==
    ASSUME IInv, LatencyNext
    PROVE  IInv' /\ down' # Tail(down)
<1>1. /\ test = "latency" /\ lpc = "next" /\ lpc' = "send" /\ test' = test
      /\ step' = step + 1 /\ i' = 0 /\ Send("NEXT", step, None)
      /\ UNCHANGED cpu1 /\ UNCHANGED <<up, signals, source, lag>> /\ UNCHANGED buffer
  BY DEF LatencyNext
<1>2. /\ step \in Nat /\ step < Steps /\ i \in 0 .. ITERATION_COUNT
      /\ First(step) \in Nat /\ First(step) + Period <= First(Steps) /\ First(Steps) \in Nat
      /\ First(step + 1) = First(step) + Period
      /\ Period = ITERATION_COUNT + 1 /\ ITERATION_COUNT \in Nat \ {0} /\ Steps \in Nat
  BY Facts, Limits, Firsts DEF IInv, TypeOK, Period
<1>3. i = ITERATION_COUNT /\ step + 1 < Phases /\ Phases = Steps
  BY <1>1, <1>2 DEF IInv, LinuxInv, Steps
<1>4. Sent = First(step) + ITERATION_COUNT /\ Sent' = First(step + 1) + 0
  BY <1>1, <1>3 DEF Sent
<1>5. Reads = First(step) + (ITERATION_COUNT - step) /\ Reads' = First(step + 1) + (0 - (step + 1))
  BY <1>1, <1>3 DEF Reads
<1>6. Sent \in Nat /\ Round(Sent) = step /\ Place(Sent) = ITERATION_COUNT
  BY <1>2, <1>4, OnePlace
<1>7. [flags |-> "NEXT", at |-> step, number |-> None] = Packet(test, Sent)
  BY <1>1, <1>2, <1>3, <1>6 DEF Packet
<1>8. Sent < First(Steps) /\ Sent' = Sent + 1 /\ Reads' = Reads
  BY <1>2, <1>4, <1>5
<1>9. LinuxInv'
  BY <1>1, <1>2 DEF LinuxInv
<1>10. step' \in 0 .. Steps - 1 /\ i' \in 0 .. ITERATION_COUNT
  BY <1>1, <1>2, <1>3
<1>11. BufferInv'
  BY <1>1 DEF BufferInv
<1> QED
  BY <1>1, <1>7, <1>8, <1>9, <1>10, <1>11, LinuxSends

\* And so is the SHUTDOWN after the last phase.
LEMMA LatencyShutdownIInv ==
    ASSUME IInv, LatencyShutdown
    PROVE  IInv' /\ down' # Tail(down)
<1>1. /\ test = "latency" /\ lpc = "shutdown" /\ lpc' = "end" /\ test' = test
      /\ step' = step /\ i' = i /\ Send("SHUTDOWN", step, None)
      /\ UNCHANGED cpu1 /\ UNCHANGED <<up, signals, source, lag>> /\ UNCHANGED buffer
  BY DEF LatencyShutdown
<1>2. /\ step \in Nat /\ step \in 0 .. Steps - 1 /\ i \in 0 .. ITERATION_COUNT
      /\ First(step) \in Nat /\ First(step) + Period <= First(Steps) /\ First(Steps) \in Nat
      /\ Period = ITERATION_COUNT + 1 /\ ITERATION_COUNT \in Nat \ {0} /\ Steps \in Nat
  BY Facts, Limits DEF IInv, TypeOK, Period
<1>3. i = ITERATION_COUNT /\ step + 1 = Phases /\ Phases = Steps
  BY <1>1, <1>2 DEF IInv, LinuxInv, Steps
<1>4. Sent = First(step) + ITERATION_COUNT /\ Sent' = First(step) + (ITERATION_COUNT + 1)
  BY <1>1, <1>3 DEF Sent
<1>5. Reads' = Reads
  BY <1>1, Zenon DEF Reads
<1>6. Sent \in Nat /\ Round(Sent) = step /\ Place(Sent) = ITERATION_COUNT
  BY <1>2, <1>4, OnePlace
<1>7. [flags |-> "SHUTDOWN", at |-> step, number |-> None] = Packet(test, Sent)
  BY <1>1, <1>2, <1>3, <1>6 DEF Packet
<1>8. Sent < First(Steps) /\ Sent' = Sent + 1
  BY <1>2, <1>4
<1>9. LinuxInv' /\ BufferInv'
  BY <1>1, <1>2, <1>3 DEF LinuxInv, BufferInv
<1> QED
  BY <1>1, <1>2, <1>5, <1>7, <1>8, <1>9, LinuxSends

\* CPU1 has not taken a request that Linux has not sent, so that no answer is
\* ahead of the request Linux waits for.
LEMMA LatencyReplyIInv ==
    ASSUME IInv, LatencyReply
    PROVE  IInv' /\ UNCHANGED down
<1>1. /\ test = "latency" /\ lpc = "receive" /\ test' = test /\ step' = step /\ i' = i + 1
      /\ Receive(Number(i)) \/ Interrupted(Number(i))
      /\ lpc' = IF i + 1 < ITERATION_COUNT THEN "send"
                ELSE IF step + 1 < Phases THEN "next" ELSE "shutdown"
      /\ UNCHANGED cpu1 /\ UNCHANGED down
  BY DEF LatencyReply
<1>2. /\ step \in Nat /\ step < Steps /\ step \in 0 .. Steps - 1 /\ i \in 0 .. ITERATION_COUNT
      /\ First(step) \in Nat /\ First(step) >= step
      /\ ITERATION_COUNT \in Nat \ {0} /\ Steps \in Nat /\ Steps = Phases
      /\ Taken \in Nat /\ Taken = Sent - Len(down) /\ Sent \in Nat /\ Len(down) \in Nat
  BY <1>1, Facts, Limits, Firsts DEF IInv, TypeOK, Steps
<1>3. i < ITERATION_COUNT
  BY <1>1 DEF IInv, LinuxInv
<1>4. Sent = First(step) + (i + 1) /\ Sent' = First(step) + (i + 1)
  <2>1. lpc' \notin {"receive", "end"}
    BY <1>1
  <2> QED
    BY <1>1, <2>1 DEF Sent
<1>5. Reads = First(step) + (i - step) /\ Reads' = First(step) + ((i + 1) - step)
  BY <1>1 DEF Reads
<1>6. Reads \in Nat /\ Reads' = Reads + 1
  BY <1>2, <1>5
<1>7. Number(i) = Reads
  <2>1. Number(i) = step * ITERATION_COUNT + i /\ step * ITERATION_COUNT = First(step) - step
    BY <1>1, <1>2, Firsts DEF Number, PacketsPerStep
  <2> QED
    BY <1>2, <1>5, <2>1
<1>8. Requests(Taken) <= Reads + 1
  <2>1. i + 1 \in 0 .. ITERATION_COUNT
    BY <1>2, <1>3
  <2>2. Round(Sent) = step /\ Place(Sent) = i + 1
    BY <1>2, <1>4, <2>1, OnePlace
  <2>3. Requests(Sent) = First(step) - step + (i + 1)
    BY <1>2, <2>2, Places
  <2>4. Taken <= Sent
    BY <1>2
  <2>5. Requests(Taken) <= Requests(Sent) /\ Requests(Taken) \in Nat
    BY <1>2, <2>4, MoreRequests, Places
  <2> QED
    BY <1>2, <1>5, <2>3, <2>5
<1>9. LinuxInv'
  BY <1>1, <1>2, <1>3 DEF LinuxInv
<1>10. /\ lpc' \in {"send", "receive", "next", "final", "shutdown", "end"}
       /\ step' \in 0 .. Steps - 1 /\ i' \in 0 .. ITERATION_COUNT
  BY <1>1, <1>2, <1>3
<1>11. Receive(Reads) \/ Interrupted(Reads)
  BY <1>1, <1>7
<1>12. lpc' # "receive"
  BY <1>1
<1> QED
  BY <1>1, <1>4, <1>6, <1>8, <1>9, <1>10, <1>11, <1>12, LinuxReads

\* The packets of a round follow each other, the last one marked NEXT.
LEMMA ThroughputSendIInv ==
    ASSUME IInv, ThroughputSend
    PROVE  IInv' /\ down' # Tail(down)
<1> DEFINE f == IF LastOfPhase(i) THEN "NEXT" ELSE "none"
<1>1. /\ test = "throughput" /\ lpc = "send" /\ test' = test /\ step' = step
      /\ Send(f, 0, Number(i)) /\ MakeRequest(Number(i))
      /\ IF i + 1 < ITERATION_COUNT THEN i' = i + 1 /\ lpc' = lpc
         ELSE i' = 0 /\ lpc' = "receive"
      /\ UNCHANGED cpu1 /\ UNCHANGED <<up, signals, source, lag>>
  BY DEF ThroughputSend
<1>2. /\ step \in Nat /\ step \in 0 .. Steps - 1 /\ i \in 0 .. ITERATION_COUNT
      /\ First(step) \in Nat /\ First(step) + Period <= First(Steps) /\ First(Steps) \in Nat
      /\ Period = ITERATION_COUNT + 1 /\ ITERATION_COUNT \in Nat \ {0}
  BY Facts, Limits DEF IInv, TypeOK, Period
<1>3. i < ITERATION_COUNT
  BY <1>1 DEF IInv, LinuxInv
<1>4. Sent = First(step) + i
  BY <1>1 DEF Sent
<1>5. Sent' = First(step) + (i + 1) /\ Reads = First(step) + 0 /\ Reads' = First(step) + 0
  <2>1. CASE i + 1 < ITERATION_COUNT
    BY <1>1, <2>1 DEF Sent, Reads
  <2>2. CASE ~ (i + 1 < ITERATION_COUNT)
    <3>1. i + 1 = ITERATION_COUNT
      BY <1>2, <1>3, <2>2
    <3> QED
      BY <1>1, <2>2, <3>1 DEF Sent, Reads
  <2> QED
    BY <2>1, <2>2
<1>6. Sent \in Nat /\ Round(Sent) = step /\ Place(Sent) = i
  BY <1>2, <1>4, OnePlace
<1>7. Number(i) = Sent
  <2>1. Number(i) = step * (ITERATION_COUNT + 1) + i /\ step * (ITERATION_COUNT + 1) = First(step)
    BY <1>1, <1>2, Firsts DEF Number, PacketsPerStep
  <2> QED
    BY <1>4, <2>1
<1>8. f = IF i + 1 < ITERATION_COUNT THEN "none" ELSE "NEXT"
  BY <1>2, <1>3 DEF LastOfPhase
<1> HIDE DEF f
<1>9. [flags |-> f, at |-> 0, number |-> Number(i)] = Packet(test, Sent)
  BY <1>1, <1>3, <1>6, <1>7, <1>8 DEF Packet
<1>10. Sent < First(Steps) /\ Sent' = Sent + 1 /\ Reads' = Reads
  BY <1>2, <1>3, <1>4, <1>5
<1>11. LinuxInv'
  BY <1>1, <1>2 DEF LinuxInv
<1>12. /\ lpc' \in {"send", "receive", "next", "final", "shutdown", "end"}
       /\ step' \in 0 .. Steps - 1 /\ i' \in 0 .. ITERATION_COUNT
  BY <1>1, <1>2
<1>13. BufferInv'
  <2>1. CASE i + 1 < ITERATION_COUNT
    BY <1>1, <2>1 DEF BufferInv
  <2>2. CASE ~ (i + 1 < ITERATION_COUNT)
    <3>1. Number(i) = First(step) + ITERATION_COUNT - 1
      BY <1>2, <1>3, <1>4, <1>7, <2>2
    <3>2. First(step)' = First(step)
      BY <1>1 DEF First
    <3> QED
      BY <1>1, <3>1, <3>2 DEF BufferInv, MakeRequest
  <2> QED
    BY <2>1, <2>2
<1> QED
  BY <1>1, <1>9, <1>10, <1>11, <1>12, <1>13, LinuxSends

\* The NEXT that asks for the total ends the round.
LEMMA ThroughputNextIInv ==
    ASSUME IInv, ThroughputNext
    PROVE  IInv' /\ down' # Tail(down)
<1>1. /\ test = "throughput" /\ lpc = "next" /\ lpc' = "final" /\ test' = test
      /\ step' = step /\ i' = i /\ Send("NEXT", 2, Number(ITERATION_COUNT))
      /\ UNCHANGED cpu1 /\ UNCHANGED <<up, signals, source, lag>> /\ UNCHANGED buffer
  BY DEF ThroughputNext
<1>2. /\ step \in Nat /\ step \in 0 .. Steps - 1 /\ i \in 0 .. ITERATION_COUNT
      /\ First(step) \in Nat /\ First(step) + Period <= First(Steps) /\ First(Steps) \in Nat
      /\ Period = ITERATION_COUNT + 1 /\ ITERATION_COUNT \in Nat \ {0}
  BY Facts, Limits DEF IInv, TypeOK, Period
<1>3. Sent = First(step) + ITERATION_COUNT /\ Sent' = First(step) + Period
  BY <1>1 DEF Sent
<1>4. Reads = First(step) + ITERATION_COUNT /\ Reads' = First(step) + ITERATION_COUNT
  BY <1>1 DEF Reads
<1>5. Sent \in Nat /\ Round(Sent) = step /\ Place(Sent) = ITERATION_COUNT
  BY <1>2, <1>3, OnePlace
<1>6. Number(ITERATION_COUNT) = Sent
  <2>1. /\ Number(ITERATION_COUNT) = step * (ITERATION_COUNT + 1) + ITERATION_COUNT
        /\ step * (ITERATION_COUNT + 1) = First(step)
    BY <1>1, <1>2, Firsts DEF Number, PacketsPerStep
  <2> QED
    BY <1>3, <2>1
<1>7. [flags |-> "NEXT", at |-> 2, number |-> Number(ITERATION_COUNT)] = Packet(test, Sent)
  BY <1>1, <1>2, <1>5, <1>6 DEF Packet
<1>8. Sent < First(Steps) /\ Sent' = Sent + 1 /\ Reads' = Reads
  BY <1>2, <1>3, <1>4
<1>9. LinuxInv'
  BY <1>1 DEF IInv, LinuxInv
<1>10. BufferInv'
  <2>1. First(step)' = First(step) /\ signals' = signals
    BY <1>1 DEF First
  <2> QED
    BY <1>1, <1>8, <2>1 DEF IInv, MeasurementsInv, BufferInv
<1> QED
  BY <1>1, <1>2, <1>7, <1>8, <1>9, <1>10, LinuxSends

\* Linux reads one answer for each packet of the round.
LEMMA ThroughputReceiveIInv ==
    ASSUME IInv, ThroughputReceive
    PROVE  IInv' /\ UNCHANGED down
<1>1. /\ test = "throughput" /\ lpc = "receive" /\ test' = test /\ step' = step
      /\ Receive(Number(i)) \/ Interrupted(Number(i))
      /\ IF i + 1 < ITERATION_COUNT THEN i' = i + 1 /\ lpc' = lpc
         ELSE i' = 0 /\ lpc' = "next"
      /\ UNCHANGED cpu1 /\ UNCHANGED down
  BY DEF ThroughputReceive
<1>2. /\ step \in Nat /\ step \in 0 .. Steps - 1 /\ i \in 0 .. ITERATION_COUNT
      /\ First(step) \in Nat /\ ITERATION_COUNT \in Nat \ {0}
  BY Facts, Limits DEF IInv, TypeOK
<1>3. i < ITERATION_COUNT
  BY <1>1 DEF IInv, LinuxInv
<1>4. Sent' = Sent /\ Reads = First(step) + i /\ Reads' = First(step) + (i + 1)
  <2>1. CASE i + 1 < ITERATION_COUNT
    BY <1>1, <2>1 DEF Sent, Reads
  <2>2. CASE ~ (i + 1 < ITERATION_COUNT)
    <3>1. i + 1 = ITERATION_COUNT
      BY <1>2, <1>3, <2>2
    <3> QED
      BY <1>1, <2>2, <3>1 DEF Sent, Reads
  <2> QED
    BY <2>1, <2>2
<1>5. Number(i) = Reads
  <2>1. Number(i) = step * (ITERATION_COUNT + 1) + i /\ step * (ITERATION_COUNT + 1) = First(step)
    BY <1>1, <1>2, Firsts DEF Number, PacketsPerStep
  <2> QED
    BY <1>4, <2>1
<1>6. Reads \in Nat /\ Reads' = Reads + 1
  BY <1>2, <1>4
<1>7. LinuxInv'
  BY <1>1, <1>2 DEF LinuxInv
<1>8. /\ lpc' \in {"send", "receive", "next", "final", "shutdown", "end"}
      /\ step' \in 0 .. Steps - 1 /\ i' \in 0 .. ITERATION_COUNT
  BY <1>1, <1>2
<1>9. Receive(Reads) \/ Interrupted(Reads)
  BY <1>1, <1>5
<1>10. test # "latency"
  BY <1>1
<1> QED
  BY <1>1, <1>4, <1>6, <1>7, <1>8, <1>9, <1>10, LinuxReads

\* After the answer with the total Linux goes on to the next round or ends.
LEMMA ThroughputFinalIInv ==
    ASSUME IInv, ThroughputFinal
    PROVE  IInv' /\ UNCHANGED down
<1>1. /\ test = "throughput" /\ lpc = "final" /\ test' = test /\ i' = i
      /\ Receive(Number(ITERATION_COUNT)) \/ Interrupted(Number(ITERATION_COUNT))
      /\ IF step + 1 < Rounds THEN step' = step + 1 /\ lpc' = "send"
         ELSE lpc' = "end" /\ step' = step
      /\ UNCHANGED cpu1 /\ UNCHANGED down
  BY DEF ThroughputFinal
<1>2. /\ step \in Nat /\ step \in 0 .. Steps - 1 /\ i = 0 /\ Steps \in Nat /\ Steps = Rounds
      /\ First(step) \in Nat /\ First(step + 1) = First(step) + Period
      /\ Period = ITERATION_COUNT + 1 /\ ITERATION_COUNT \in Nat \ {0}
  BY <1>1, Facts, Limits, Firsts DEF IInv, TypeOK, LinuxInv, Steps, Period
<1>3. Sent = First(step) + Period /\ Reads = First(step) + ITERATION_COUNT
  BY <1>1 DEF Sent, Reads
<1>4. Sent' = First(step) + Period /\ Reads' = First(step) + Period
  <2>1. CASE step + 1 < Rounds
    <3>1. Sent' = First(step + 1) + 0 /\ Reads' = First(step + 1) + 0
      BY <1>1, <1>2, <2>1 DEF Sent, Reads
    <3> QED
      BY <1>2, <3>1
  <2>2. CASE ~ (step + 1 < Rounds)
    BY <1>1, <2>2 DEF Sent, Reads
  <2> QED
    BY <2>1, <2>2
<1>5. Number(ITERATION_COUNT) = Reads
  <2>1. /\ Number(ITERATION_COUNT) = step * (ITERATION_COUNT + 1) + ITERATION_COUNT
        /\ step * (ITERATION_COUNT + 1) = First(step)
    BY <1>1, <1>2, Firsts DEF Number, PacketsPerStep
  <2> QED
    BY <1>3, <2>1
<1>6. Reads \in Nat /\ Reads' = Reads + 1 /\ Sent' = Sent
  BY <1>2, <1>3, <1>4
<1>7. LinuxInv'
  BY <1>1, <1>2 DEF LinuxInv
<1>8. /\ lpc' \in {"send", "receive", "next", "final", "shutdown", "end"}
      /\ step' \in 0 .. Steps - 1 /\ i' \in 0 .. ITERATION_COUNT
  BY <1>1, <1>2
<1>9. Receive(Reads) \/ Interrupted(Reads)
  BY <1>1, <1>5
<1>10. test # "latency" /\ lpc' \notin {"receive", "next", "final"}
  BY <1>1
<1> QED
  BY <1>1, <1>6, <1>7, <1>8, <1>9, <1>10, LinuxReads

-----------------------------------------------------------------------------
(* The actions of CPU1 *)

\* CPU1 leaves what Linux keeps alone.
LEMMA CpuTypes ==
    ASSUME IInv, test' = test, UNCHANGED linux,
           down' \in Seq(Packets), Len(down') \in 0 .. Capacity,
           up' \in Seq(Numbers), Len(up') \in 0 .. Capacity,
           running' \in BOOLEAN, f_step' \in 0 .. Phases - 1, phase' \in 0 .. 2,
           packetCounter' \in 0 .. ITERATION_COUNT, sendPacketCount' \in 0 .. ITERATION_COUNT,
           recvLatencyCount' \in 0 .. MAX_RECV_LATENCIES,
           recvLatencies' \in [0 .. MAX_RECV_LATENCIES - 1 -> Numbers \cup {None}],
           totalReceiveTime' \in Numbers \cup {None}, reply' \in Numbers \cup {None}
    PROVE  TypeOK' /\ MeasurementsInv' /\ LinuxInv' /\ Reads' = Reads
<1>1. /\ Steps' = Steps /\ Numbers' = Numbers /\ Packets' = Packets
      /\ Buffers' = Buffers
  BY SameTest
<1>2. /\ lpc' = lpc /\ step' = step /\ i' = i /\ signals' = signals /\ lag' = lag
      /\ buffer' = buffer /\ source' = source
  BY DEF linux
<1>3. /\ test \in {"latency", "throughput"}
      /\ lpc \in {"send", "receive", "next", "final", "shutdown", "end"}
      /\ step \in 0 .. Steps - 1 /\ i \in 0 .. ITERATION_COUNT
      /\ signals \in 0 .. MaxSignals /\ lag \in Int
      /\ buffer \in Buffers /\ source \in {"none", "request", "answer"}
  BY DEF IInv, TypeOK, Buffers
<1>4. /\ down' \in Seq(Packets') /\ up' \in Seq(Numbers')
      /\ {Len(down'), Len(up')} \subseteq 0 .. Capacity
      /\ {packetCounter', sendPacketCount'} \subseteq 0 .. ITERATION_COUNT
      /\ recvLatencies' \in [0 .. MAX_RECV_LATENCIES - 1 -> Numbers' \cup {None}]
      /\ {totalReceiveTime', reply'} \subseteq Numbers' \cup {None}
  BY <1>1
<1>5. TypeOK'
  BY <1>1, <1>2, <1>3, <1>4 DEF TypeOK, Packets, Buffers
<1>6. MeasurementsOwn' /\ LinuxInv'
  BY <1>2, Zenon DEF IInv, MeasurementsInv, MeasurementsOwn, LinuxInv
<1>7. Reads' = Reads
  BY <1>2, Zenon DEF Reads
<1>8. BufferInv'
  <2>1. First(step)' = First(step)
    BY <1>2 DEF First
  <2> QED
    BY <1>2, <1>7, <2>1, Zenon DEF IInv, MeasurementsInv, BufferInv
<1> QED
  BY <1>5, <1>6, <1>7, <1>8 DEF MeasurementsInv

\* CPU1 counts the phases as Linux does: a NEXT is where both move on.
LEMMA LatencyHandleIInv ==
    ASSUME IInv, LatencyHandle
    PROVE  IInv' /\ Head(down).at = f_step /\ test = "latency"
<1> DEFINE h == Head(down)
           q == Place(Taken)
           room == h.flags = "none" /\ Len(up) < Capacity
<1>1. /\ test = "latency" /\ running /\ down # << >> /\ down' = Tail(down) /\ test' = test
      /\ running' = (h.flags # "SHUTDOWN")
      /\ f_step' = IF h.flags = "NEXT" THEN f_step + 1 ELSE f_step
      /\ up' = IF room THEN Append(up, h.number) ELSE up
      /\ UNCHANGED linux /\ phase' = phase /\ packetCounter' = packetCounter
      /\ sendPacketCount' = sendPacketCount /\ recvLatencyCount' = recvLatencyCount
      /\ recvLatencies' = recvLatencies /\ totalReceiveTime' = totalReceiveTime
      /\ reply' = reply
  BY DEF LatencyHandle, NextStep
<1>2. /\ h = Packet(test, Taken) /\ Taken \in Nat /\ Taken < First(Steps) /\ Steps = Phases
      /\ Steps \in Nat /\ ITERATION_COUNT \in Nat /\ Capacity \in Nat
  BY <1>1, Facts, Limits DEF Steps
<1>3. /\ q \in 0 .. ITERATION_COUNT /\ Requests(Taken) \in Nat
      /\ h.flags = IF q < ITERATION_COUNT THEN "none"
                   ELSE IF f_step + 1 < Phases THEN "NEXT" ELSE "SHUTDOWN"
      /\ h.number = IF q < ITERATION_COUNT THEN Requests(Taken) ELSE None
      /\ h.at = f_step /\ Round(Taken) = f_step
  <2>1. q \in 0 .. ITERATION_COUNT /\ Requests(Taken) \in Nat
    BY <1>2, Places
  <2>2. Round(Taken) = f_step
    BY <1>1, Zenon DEF IInv, CpuInv, CpuLatency
  <2>3. h = [flags  |-> IF q < ITERATION_COUNT THEN "none"
                        ELSE IF f_step + 1 < Phases THEN "NEXT" ELSE "SHUTDOWN",
             at     |-> f_step,
             number |-> IF q < ITERATION_COUNT THEN Requests(Taken) ELSE None]
    BY <1>1, <1>2, <2>2, Zenon DEF Packet
  <2> HIDE DEF h, q
  <2> QED
    BY <2>1, <2>2, <2>3
<1>4. f_step < Phases /\ h \in Packets
  BY <1>1, <1>2, <1>3, PacketTyped
<1>5. /\ DownInv' /\ Taken' = Taken + 1
      /\ down' \in Seq(Packets) /\ Len(down') \in 0 .. Capacity
  BY <1>1, TakesNext
<1>6. /\ q < ITERATION_COUNT => /\ Round(Taken + 1) = f_step
                                /\ Requests(Taken + 1) = Requests(Taken) + 1
      /\ q = ITERATION_COUNT => /\ Round(Taken + 1) = f_step + 1
                                /\ Requests(Taken + 1) = Requests(Taken)
                                /\ Taken + 1 = First(f_step + 1)
  BY <1>2, <1>3, NextPlace
<1>7. /\ up \in Seq(Numbers) /\ Len(up) \in 0 .. Capacity /\ Len(up) \in Nat
      /\ f_step \in 0 .. Phases - 1 /\ signals \in 0 .. MaxSignals /\ signals \in Nat
      /\ phase \in 0 .. 2
      /\ packetCounter \in 0 .. ITERATION_COUNT /\ sendPacketCount \in 0 .. ITERATION_COUNT
      /\ recvLatencyCount \in 0 .. MAX_RECV_LATENCIES
      /\ recvLatencies \in [0 .. MAX_RECV_LATENCIES - 1 -> Numbers \cup {None}]
      /\ totalReceiveTime \in Numbers \cup {None} /\ reply \in Numbers \cup {None}
  BY <1>1, Limits DEF IInv, TypeOK
<1>8. q < ITERATION_COUNT => h.number \in Numbers
  <2>1. None = -1 /\ h.number \in Numbers \cup {None}
    BY <1>4 DEF None, Packets
  <2> QED
    BY <1>3, <2>1
<1> HIDE DEF h, q
<1>9. f_step' \in 0 .. Phases - 1 /\ running' \in BOOLEAN
  BY <1>1, <1>2, <1>3, <1>4, <1>7
<1>10. CpuLatency'
  <2>1. /\ reply' = None /\ phase' = 0 /\ packetCounter' = 0
        /\ sendPacketCount' = 0 /\ recvLatencyCount' = 0
    BY <1>1 DEF IInv, CpuInv, CpuLatency
  <2>2. CASE q < ITERATION_COUNT
    <3>1. running' /\ f_step' = f_step /\ Round(Taken') = f_step'
      BY <1>1, <1>3, <1>5, <1>6, <2>2
    <3> QED
      BY <2>1, <3>1 DEF CpuLatency
  <2>3. CASE q = ITERATION_COUNT /\ f_step + 1 < Phases
    <3>1. h.flags = "NEXT"
      BY <1>2, <1>3, <2>3
    <3>2. running' /\ f_step' = f_step + 1 /\ Round(Taken') = f_step'
      BY <1>1, <1>5, <1>6, <2>3, <3>1
    <3> QED
      BY <2>1, <3>2 DEF CpuLatency
  <2>4. CASE q = ITERATION_COUNT /\ ~ (f_step + 1 < Phases)
    <3>1. h.flags = "SHUTDOWN" /\ f_step + 1 = Phases
      BY <1>2, <1>3, <1>4, <1>7, <2>4
    <3>2. ~ running' /\ Taken' = First(Phases)
      BY <1>1, <1>5, <1>6, <2>4, <3>1
    <3> QED
      BY <2>1, <3>2 DEF CpuLatency
  <2> QED
    BY <1>2, <1>3, <2>2, <2>3, <2>4
<1>11. /\ Reads + Len(up) <= Requests(Taken) + signals
       /\ \A k \in 1 .. Len(up) : /\ Reads + k <= up[k] + signals + 1
                                  /\ up[k] < Requests(Taken)
  BY <1>1 DEF IInv, AnswersInv, AnswersLatency
<1>12. \A k \in 1 .. Len(up) : up[k] \in Nat
  <2>1. \A k \in 1 .. Len(up) : up[k] \in Numbers
    BY <1>7
  <2>2. Numbers \subseteq Nat
    BY DEF Numbers
  <2> QED
    BY <2>1, <2>2
<1>13. Reads \in Int
  BY <1>1, Facts DEF Reads
<1>14. signals' = signals
  BY <1>1 DEF linux
<1>15. CASE room
  <2>1. /\ q < ITERATION_COUNT /\ h.number = Requests(Taken) /\ Len(up) < Capacity
        /\ Requests(Taken') = Requests(Taken) + 1
        /\ up' = Append(up, Requests(Taken)) /\ Requests(Taken) \in Numbers
    BY <1>1, <1>3, <1>5, <1>6, <1>8, <1>15
  <2>2. /\ up' \in Seq(Numbers) /\ Len(up') = Len(up) + 1
        /\ \A k \in 1 .. Len(up) : up'[k] = up[k]
        /\ up'[Len(up) + 1] = Requests(Taken)
    BY <1>7, <2>1
  <2>3. Len(up') \in 0 .. Capacity
    BY <1>2, <1>7, <2>1, <2>2
  <2>4. TypeOK' /\ MeasurementsInv' /\ LinuxInv' /\ Reads' = Reads
    BY <1>1, <1>5, <1>7, <1>9, <2>2, <2>3, CpuTypes
  <2>5. Reads + (Len(up) + 1) <= (Requests(Taken) + 1) + signals
    BY <1>3, <1>7, <1>11, <1>13
  <2>6. Reads' + Len(up') <= Requests(Taken') + signals'
    BY <1>14, <2>1, <2>2, <2>4, <2>5
  <2>7. ASSUME NEW k \in 1 .. Len(up')
        PROVE  Reads' + k <= up'[k] + signals' + 1 /\ up'[k] < Requests(Taken')
    <3>1. CASE k \in 1 .. Len(up)
      <4>1. up'[k] = up[k] /\ up[k] \in Nat /\ up[k] < Requests(Taken)
        BY <1>11, <1>12, <2>2, <3>1
      <4>2. Reads + k <= up[k] + signals + 1
        BY <1>11, <3>1
      <4>3. up[k] < Requests(Taken) + 1
        BY <1>3, <4>1
      <4> QED
        BY <1>14, <2>1, <2>4, <4>1, <4>2, <4>3
    <3>2. CASE k = Len(up) + 1
      <4>1. Reads + (Len(up) + 1) <= Requests(Taken) + signals + 1
        BY <1>3, <1>7, <2>5, <1>13
      <4>2. Requests(Taken) < Requests(Taken) + 1
        BY <1>3
      <4> QED
        BY <1>14, <2>1, <2>2, <2>4, <3>2, <4>1, <4>2
    <3> QED
      BY <1>7, <2>2, <3>1, <3>2
  <2>8. AnswersLatency'
    BY <2>6, <2>7 DEF AnswersLatency
  <2> QED
    BY <1>1, <1>3, <1>5, <1>10, <2>4, <2>8 DEF IInv, CpuInv, AnswersInv, h
<1>16. CASE ~ room
  <2>1. up' = up
    BY <1>1, <1>16
  <2>2. Requests(Taken') \in Nat /\ Requests(Taken) <= Requests(Taken')
    BY <1>2, <1>3, <1>5, <1>6
  <2>3. TypeOK' /\ MeasurementsInv' /\ LinuxInv' /\ Reads' = Reads
    BY <1>1, <1>5, <1>7, <1>9, <2>1, CpuTypes
  <2>4. Reads + Len(up) <= Requests(Taken') + signals
    BY <1>3, <1>7, <1>11, <1>13, <2>2
  <2>5. \A k \in 1 .. Len(up) : up[k] < Requests(Taken')
    BY <1>3, <1>11, <1>12, <2>2
  <2>6. AnswersLatency'
    <3>1. Requests(Taken)' = Requests(Taken')
      BY DEF Requests, Round
    <3> QED
      BY <1>11, <1>14, <2>1, <2>3, <2>4, <2>5, <3>1, Zenon DEF AnswersLatency
  <2> QED
    BY <1>1, <1>3, <1>5, <1>10, <2>3, <2>6 DEF IInv, CpuInv, AnswersInv, h
<1> QED
  BY <1>15, <1>16

\* The state of CPU1 in the throughput test.
LEMMA CpuFacts ==
    ASSUME IInv, test = "throughput"
    PROVE  /\ CpuThroughput /\ AnswersThroughput
           /\ Taken \in Nat /\ Place(Taken) = packetCounter
           /\ Round(Taken) \in Nat /\ First(Round(Taken)) \in Nat
           /\ Taken = First(Round(Taken)) + packetCounter
           /\ Prepared \in Nat /\ Prepared = First(Round(Taken)) + sendPacketCount
           /\ Numbers = 0 .. First(Steps) - 1 /\ First(Steps) \in Nat
           /\ Taken <= First(Steps)
           /\ ITERATION_COUNT \in Nat \ {0} /\ Capacity \in Nat /\ MAX_RECV_LATENCIES \in Nat
           /\ ITERATION_COUNT <= MAX_RECV_LATENCIES
           /\ packetCounter \in 0 .. ITERATION_COUNT /\ sendPacketCount \in 0 .. ITERATION_COUNT
           /\ recvLatencyCount = packetCounter
           /\ recvLatencies \in [0 .. MAX_RECV_LATENCIES - 1 -> Numbers \cup {None}]
           /\ totalReceiveTime \in Numbers \cup {None} /\ reply \in Numbers \cup {None}
           /\ up \in Seq(Numbers) /\ Len(up) \in 0 .. Capacity
           /\ down \in Seq(Packets) /\ Len(down) \in 0 .. Capacity
           /\ phase \in 0 .. 2 /\ f_step \in 0 .. Phases - 1 /\ running
<1>1. CpuThroughput /\ AnswersThroughput
  BY DEF IInv, CpuInv, AnswersInv
<1>2. Taken \in Nat /\ Taken <= First(Steps) /\ First(Steps) \in Nat
  <2>1. /\ Sent \in Nat /\ Len(down) \in Nat /\ Taken = Sent - Len(down) /\ Taken \in Nat
        /\ Sent <= First(Steps) /\ First(Steps) \in Nat
    BY Facts, Limits
  <2> QED
    BY <2>1
<1>3. Place(Taken) = packetCounter /\ recvLatencyCount = packetCounter /\ running
  BY <1>1 DEF CpuThroughput
<1>4. /\ Round(Taken) \in Nat /\ First(Round(Taken)) \in Nat
      /\ Taken = First(Round(Taken)) + packetCounter
  BY <1>2, <1>3, Places
<1>5. /\ packetCounter \in 0 .. ITERATION_COUNT /\ sendPacketCount \in 0 .. ITERATION_COUNT
      /\ recvLatencies \in [0 .. MAX_RECV_LATENCIES - 1 -> Numbers \cup {None}]
      /\ totalReceiveTime \in Numbers \cup {None} /\ reply \in Numbers \cup {None}
      /\ up \in Seq(Numbers) /\ Len(up) \in 0 .. Capacity
      /\ down \in Seq(Packets) /\ Len(down) \in 0 .. Capacity
      /\ phase \in 0 .. 2 /\ f_step \in 0 .. Phases - 1
  BY DEF IInv, TypeOK, Packets
<1>6. Prepared \in Nat /\ Prepared = First(Round(Taken)) + sendPacketCount
  BY <1>4, <1>5, UnitTestsAssumption DEF Prepared
<1>7. /\ Numbers = 0 .. First(Steps) - 1
      /\ ITERATION_COUNT \in Nat \ {0} /\ Capacity \in Nat /\ MAX_RECV_LATENCIES \in Nat
      /\ ITERATION_COUNT <= MAX_RECV_LATENCIES
  BY Limits
<1> QED
  BY <1>1, <1>2, <1>3, <1>4, <1>5, <1>6, <1>7

\* The packet that CPU1 takes next in the throughput test.
LEMMA NextTaken ==
    ASSUME IInv, test = "throughput", down # << >>
    PROVE  /\ Head(down).flags = IF packetCounter + 1 < ITERATION_COUNT THEN "none" ELSE "NEXT"
           /\ Head(down).at = IF packetCounter < ITERATION_COUNT THEN 0 ELSE 2
           /\ Head(down).number = Taken
           /\ Taken \in Numbers
<1>1. Head(down) = Packet(test, Taken) /\ Taken < First(Steps)
  BY Facts
<1>2. /\ Place(Taken) = packetCounter /\ Taken \in Nat
      /\ Numbers = 0 .. First(Steps) - 1 /\ First(Steps) \in Nat
  BY CpuFacts
<1>3. Head(down) = [flags |-> IF packetCounter + 1 < ITERATION_COUNT THEN "none" ELSE "NEXT",
                    at |-> IF packetCounter < ITERATION_COUNT THEN 0 ELSE 2, number |-> Taken]
  BY <1>1, <1>2 DEF Packet
<1>4. Taken \in Numbers
  BY <1>1, <1>2
<1> QED
  BY <1>3, <1>4

\* In phase 0 CPU1 takes the packets of a round and notes each in its own entry of
\* the table; the one marked NEXT is the last.
LEMMA Phase0ReadIInv ==
    ASSUME IInv, Phase0Read
    PROVE  IInv' /\ Head(down).at = phase /\ test = "throughput"
<1> DEFINE h == Head(down)
           F == First(Round(Taken))
<1>1. /\ test = "throughput" /\ reply = None /\ phase = 0 /\ down # << >> /\ down' = Tail(down)
      /\ totalReceiveTime' = IF totalReceiveTime = None THEN h.number ELSE totalReceiveTime
      /\ packetCounter' = packetCounter + 1
      /\ IF recvLatencyCount < MAX_RECV_LATENCIES
         THEN /\ recvLatencies' = [recvLatencies EXCEPT ![recvLatencyCount] = h.number]
              /\ recvLatencyCount' = recvLatencyCount + 1
         ELSE UNCHANGED <<recvLatencies, recvLatencyCount>>
      /\ phase' = IF h.flags = "NEXT" THEN 1 ELSE 0
      /\ running' = (h.flags # "SHUTDOWN")
      /\ test' = test /\ up' = up /\ UNCHANGED linux /\ f_step' = f_step
      /\ sendPacketCount' = sendPacketCount /\ reply' = reply
  BY DEF Phase0Read, Ready
<1>2. /\ h.flags = IF packetCounter + 1 < ITERATION_COUNT THEN "none" ELSE "NEXT"
      /\ h.at = IF packetCounter < ITERATION_COUNT THEN 0 ELSE 2
      /\ h.number = Taken /\ Taken \in Numbers
  BY <1>1, NextTaken
<1>3. /\ Taken \in Nat /\ Place(Taken) = packetCounter /\ F \in Nat
      /\ Taken = F + packetCounter
      /\ ITERATION_COUNT \in Nat \ {0} /\ MAX_RECV_LATENCIES \in Nat
      /\ ITERATION_COUNT <= MAX_RECV_LATENCIES
      /\ packetCounter \in 0 .. ITERATION_COUNT /\ sendPacketCount \in 0 .. ITERATION_COUNT
      /\ recvLatencyCount = packetCounter
      /\ recvLatencies \in [0 .. MAX_RECV_LATENCIES - 1 -> Numbers \cup {None}]
      /\ totalReceiveTime \in Numbers \cup {None} /\ reply \in Numbers \cup {None}
      /\ up \in Seq(Numbers) /\ Len(up) \in 0 .. Capacity
      /\ f_step \in 0 .. Phases - 1
  BY <1>1, CpuFacts
<1>4. packetCounter < ITERATION_COUNT /\ sendPacketCount = 0
  BY <1>1, CpuFacts DEF CpuThroughput
<1>5. /\ totalReceiveTime = IF packetCounter = 0 THEN None ELSE F
      /\ \A k \in 0 .. packetCounter - 1 : recvLatencies[k] = F + k
      /\ AnswersThroughput
  BY <1>1, CpuFacts DEF CpuThroughput
<1>6. /\ DownInv' /\ Taken' = Taken + 1
      /\ down' \in Seq(Packets) /\ Len(down') \in 0 .. Capacity
  BY <1>1, TakesNext
<1>7. Round(Taken') = Round(Taken) /\ Place(Taken') = packetCounter + 1
  BY <1>3, <1>4, <1>6, NextPlace
<1>8. First(Round(Taken')) = F
  BY <1>7
<1> HIDE DEF h, F
<1>9. recvLatencyCount < MAX_RECV_LATENCIES /\ recvLatencyCount \in 0 .. MAX_RECV_LATENCIES - 1
  BY <1>3, <1>4
<1>10. /\ recvLatencies' \in [0 .. MAX_RECV_LATENCIES - 1 -> Numbers \cup {None}]
       /\ recvLatencies' = [recvLatencies EXCEPT ![packetCounter] = Taken]
       /\ recvLatencyCount' = packetCounter + 1 /\ recvLatencyCount' \in 0 .. MAX_RECV_LATENCIES
  BY <1>1, <1>2, <1>3, <1>4, <1>9
<1>11. \A k \in 0 .. packetCounter : recvLatencies'[k] = F + k
  <2> SUFFICES ASSUME NEW k \in 0 .. packetCounter PROVE recvLatencies'[k] = F + k
    OBVIOUS
  <2>1. k \in 0 .. MAX_RECV_LATENCIES - 1
    BY <1>3, <1>4
  <2>2. CASE k = packetCounter
    BY <1>3, <1>10, <2>1, <2>2
  <2>3. CASE k # packetCounter
    <3>1. recvLatencies'[k] = recvLatencies[k]
      BY <1>3, <1>10, <2>1, <2>3
    <3>2. k \in 0 .. packetCounter - 1
      BY <1>3, <2>3
    <3> QED
      BY <1>5, <3>1, <3>2
  <2> QED
    BY <2>2, <2>3
<1>12. totalReceiveTime' = F /\ totalReceiveTime' \in Numbers \cup {None}
  <2>1. None \notin Nat
    BY DEF None
  <2>2. CASE packetCounter = 0
    BY <1>1, <1>2, <1>3, <1>5, <2>2
  <2>3. CASE packetCounter # 0
    <3>1. totalReceiveTime = F /\ totalReceiveTime # None
      BY <1>3, <1>5, <2>1, <2>3
    <3> QED
      BY <1>1, <1>3, <3>1
  <2> QED
    BY <2>2, <2>3
<1>13. /\ running' /\ phase' \in 0 .. 2 /\ packetCounter' \in 0 .. ITERATION_COUNT
       /\ phase' = 0 <=> packetCounter' < ITERATION_COUNT
       /\ phase' # 2 /\ sendPacketCount' < ITERATION_COUNT /\ sendPacketCount' = 0
       /\ packetCounter' # 0
  <2>1. packetCounter' \in 0 .. ITERATION_COUNT /\ packetCounter' # 0
    BY <1>1, <1>3, <1>4
  <2>2. sendPacketCount' < ITERATION_COUNT /\ sendPacketCount' = 0
    BY <1>1, <1>3, <1>4
  <2>3. h.flags # "SHUTDOWN" /\ (h.flags = "NEXT" <=> ~ (packetCounter' < ITERATION_COUNT))
    BY <1>1, <1>2
  <2>4. running'
    BY <1>1, <2>3
  <2>5. phase' \in 0 .. 2 /\ phase' # 2 /\ (phase' = 0 <=> packetCounter' < ITERATION_COUNT)
    BY <1>1, <2>3
  <2> QED
    BY <2>1, <2>2, <2>4, <2>5
<1>14. TypeOK' /\ MeasurementsInv' /\ LinuxInv' /\ Reads' = Reads
  BY <1>1, <1>3, <1>6, <1>10, <1>12, <1>13, CpuTypes
<1>15. CpuThroughput'
  <2>1. \A k \in 0 .. packetCounter' - 1 : recvLatencies'[k] = First(Round(Taken')) + k
    BY <1>1, <1>3, <1>8, <1>11
  <2>2. Place(Taken') = packetCounter' /\ recvLatencyCount' = packetCounter'
    BY <1>1, <1>7, <1>10
  <2>3. totalReceiveTime' = IF packetCounter' = 0 THEN None ELSE First(Round(Taken'))
    BY <1>8, <1>12, <1>13
  <2> QED
    BY <1>13, <2>1, <2>2, <2>3 DEF CpuThroughput
<1>16. Prepared' = Prepared /\ Stored' = Stored
  <2>1. Prepared' = Prepared
    BY <1>1, <1>8 DEF Prepared, F
  <2> QED
    BY <1>1, <2>1 DEF Stored
<1>17. AnswersThroughput'
  <2>1. signals' = signals
    BY <1>1 DEF linux
  <2> QED
    BY <1>1, <1>5, <1>14, <1>16, <2>1, Zenon DEF AnswersThroughput
<1>18. h.at = phase
  BY <1>1, <1>2, <1>4
<1> QED
  BY <1>1, <1>6, <1>14, <1>15, <1>17, <1>18 DEF IInv, CpuInv, AnswersInv, h

\* The answer that CPU1 prepares is the next one of the test.
LEMMA Phase1PrepareIInv ==
    ASSUME IInv, Phase1Prepare
    PROVE  IInv' /\ UNCHANGED down
<1> DEFINE F == First(Round(Taken))
<1>1. /\ test = "throughput" /\ reply = None /\ phase = 1
      /\ reply' = IF sendPacketCount < MAX_RECV_LATENCIES
                  THEN recvLatencies[sendPacketCount] ELSE 0
      /\ sendPacketCount' = sendPacketCount + 1
      /\ phase' = IF sendPacketCount + 1 = packetCounter THEN 2 ELSE 1
      /\ test' = test /\ down' = down /\ up' = up /\ UNCHANGED linux /\ running' = running
      /\ f_step' = f_step /\ packetCounter' = packetCounter
      /\ recvLatencyCount' = recvLatencyCount /\ recvLatencies' = recvLatencies
      /\ totalReceiveTime' = totalReceiveTime
  BY DEF Phase1Prepare, Ready, AllSent, queues
<1>2. /\ Taken \in Nat /\ F \in Nat /\ Taken = F + packetCounter
      /\ Prepared \in Nat /\ Prepared = F + sendPacketCount
      /\ Numbers = 0 .. First(Steps) - 1 /\ First(Steps) \in Nat /\ Taken <= First(Steps)
      /\ ITERATION_COUNT \in Nat \ {0} /\ MAX_RECV_LATENCIES \in Nat
      /\ ITERATION_COUNT <= MAX_RECV_LATENCIES
      /\ packetCounter \in 0 .. ITERATION_COUNT /\ sendPacketCount \in 0 .. ITERATION_COUNT
      /\ recvLatencyCount = packetCounter
      /\ recvLatencies \in [0 .. MAX_RECV_LATENCIES - 1 -> Numbers \cup {None}]
      /\ totalReceiveTime \in Numbers \cup {None}
      /\ up \in Seq(Numbers) /\ Len(up) \in 0 .. Capacity
      /\ down \in Seq(Packets) /\ Len(down) \in 0 .. Capacity
      /\ f_step \in 0 .. Phases - 1 /\ running
  BY <1>1, CpuFacts
<1>3. /\ packetCounter = ITERATION_COUNT /\ sendPacketCount < ITERATION_COUNT
      /\ \A k \in 0 .. packetCounter - 1 : recvLatencies[k] = F + k
  <2>1. /\ ~ (packetCounter < ITERATION_COUNT) /\ sendPacketCount < ITERATION_COUNT
        /\ \A k \in 0 .. packetCounter - 1 : recvLatencies[k] = F + k
    BY <1>1, CpuFacts DEF CpuThroughput
  <2> QED
    BY <1>2, <2>1
<1>4. CpuThroughput /\ AnswersThroughput
  BY <1>1, CpuFacts
<1>5. Sent' = Sent /\ Taken' = Taken
  <2>1. Sent' = Sent
    BY <1>1 DEF Sent, linux
  <2> QED
    BY <1>1, <2>1 DEF Taken
<1>6. DownInv'
  BY <1>1, <1>5, Zenon DEF IInv, DownInv
<1> HIDE DEF F
<1>7. reply' = F + sendPacketCount /\ reply' \in Nat
  BY <1>1, <1>2, <1>3
<1>8. reply' \in Numbers /\ reply' # None
  BY <1>2, <1>3, <1>7 DEF None
<1>9. /\ sendPacketCount' \in 0 .. ITERATION_COUNT /\ phase' \in {1, 2}
      /\ phase' = 1 => sendPacketCount' < ITERATION_COUNT
      /\ phase' = 2 => sendPacketCount' = ITERATION_COUNT
  BY <1>1, <1>2, <1>3
<1>10. recvLatencyCount' \in 0 .. MAX_RECV_LATENCIES /\ phase' \in 0 .. 2
  BY <1>1, <1>2, <1>9
<1>11. TypeOK' /\ MeasurementsInv' /\ LinuxInv' /\ Reads' = Reads
  BY <1>1, <1>2, <1>8, <1>9, <1>10, CpuTypes
<1>12. Round(Taken') = Round(Taken) /\ Place(Taken') = Place(Taken) /\ First(Round(Taken')) = F
  BY <1>5 DEF F
<1>13. CpuThroughput'
  <2>1. /\ running' /\ Place(Taken') = packetCounter' /\ recvLatencyCount' = packetCounter'
        /\ totalReceiveTime' = IF packetCounter' = 0 THEN None ELSE First(Round(Taken'))
        /\ \A k \in 0 .. packetCounter' - 1 : recvLatencies'[k] = First(Round(Taken')) + k
    BY <1>1, <1>4, <1>5, Zenon DEF CpuThroughput
  <2>2. phase' # 0 /\ ~ (packetCounter' < ITERATION_COUNT)
    BY <1>1, <1>2, <1>3, <1>9
  <2> QED
    BY <1>9, <2>1, <2>2 DEF CpuThroughput
<1>14. Prepared' = Prepared + 1 /\ Stored' = Stored
  <2>1. Prepared' = F + (sendPacketCount + 1)
    BY <1>1, <1>12 DEF Prepared
  <2>2. Prepared' = Prepared + 1
    BY <1>2, <2>1
  <2>3. Stored = Prepared /\ Stored' = Prepared' - 1
    BY <1>1, <1>8 DEF Stored
  <2> QED
    BY <1>2, <2>2, <2>3
<1>15. AnswersThroughput'
  <2>1. signals' = signals
    BY <1>1 DEF linux
  <2>2. /\ Len(up') <= Stored' /\ Stored' - Len(up') + signals' = Reads'
        /\ \A k \in 1 .. Len(up') : up'[k] = Stored' - Len(up') + k - 1
    BY <1>1, <1>4, <1>11, <1>14, <2>1, Zenon DEF AnswersThroughput
  <2>3. reply' = Prepared' - 1
    BY <1>2, <1>7, <1>14
  <2> QED
    BY <2>2, <2>3 DEF AnswersThroughput
<1> QED
  BY <1>1, <1>6, <1>11, <1>13, <1>15 DEF IInv, CpuInv, AnswersInv

\* In phase 2 the next packet is the NEXT that ends the round, and after the reset
\* CPU1 stands at the first packet of the next one.
LEMMA Phase2ReadIInv ==
    ASSUME IInv, Phase2Read
    PROVE  IInv' /\ Head(down).at = phase /\ test = "throughput"
<1> DEFINE h == Head(down)
           F == First(Round(Taken))
<1>1. /\ test = "throughput" /\ reply = None /\ phase = 2 /\ down # << >> /\ down' = Tail(down)
      /\ running' = (h.flags # "SHUTDOWN")
      /\ h.flags = "NEXT" =>
            /\ phase' = 0 /\ sendPacketCount' = 0 /\ recvLatencyCount' = 0
            /\ packetCounter' = 0 /\ totalReceiveTime' = None
            /\ reply' = totalReceiveTime + ITERATION_COUNT
      /\ test' = test /\ up' = up /\ UNCHANGED linux /\ f_step' = f_step
      /\ recvLatencies' = recvLatencies
  BY DEF Phase2Read, Ready, Reset
<1>2. /\ h.flags = IF packetCounter + 1 < ITERATION_COUNT THEN "none" ELSE "NEXT"
      /\ h.at = IF packetCounter < ITERATION_COUNT THEN 0 ELSE 2
      /\ Taken \in Numbers
  BY <1>1, NextTaken
<1>3. /\ Taken \in Nat /\ Place(Taken) = packetCounter /\ F \in Nat /\ Round(Taken) \in Nat
      /\ Taken = F + packetCounter /\ Prepared = F + sendPacketCount
      /\ ITERATION_COUNT \in Nat \ {0} /\ MAX_RECV_LATENCIES \in Nat
      /\ packetCounter \in 0 .. ITERATION_COUNT
      /\ recvLatencies \in [0 .. MAX_RECV_LATENCIES - 1 -> Numbers \cup {None}]
      /\ up \in Seq(Numbers) /\ Len(up) \in 0 .. Capacity
      /\ f_step \in 0 .. Phases - 1
      /\ AnswersThroughput
  BY <1>1, CpuFacts
<1>4. /\ packetCounter = ITERATION_COUNT /\ sendPacketCount = ITERATION_COUNT
      /\ totalReceiveTime = F
  <2>1. /\ ~ (packetCounter < ITERATION_COUNT) /\ sendPacketCount = ITERATION_COUNT
        /\ totalReceiveTime = IF packetCounter = 0 THEN None ELSE F
    BY <1>1, CpuFacts DEF CpuThroughput
  <2> QED
    BY <1>3, <2>1
<1>5. /\ DownInv' /\ Taken' = Taken + 1
      /\ down' \in Seq(Packets) /\ Len(down') \in 0 .. Capacity
  BY <1>1, TakesNext
<1>6. Round(Taken') = Round(Taken) + 1 /\ Place(Taken') = 0 /\ Taken' = First(Round(Taken'))
  BY <1>3, <1>4, <1>5, NextPlace
<1> HIDE DEF h, F
<1>7. h.flags = "NEXT" /\ h.at = 2
  BY <1>2, <1>3, <1>4
<1>8. /\ phase' = 0 /\ sendPacketCount' = 0 /\ recvLatencyCount' = 0
      /\ packetCounter' = 0 /\ totalReceiveTime' = None /\ running'
      /\ reply' = F + ITERATION_COUNT
  BY <1>1, <1>4, <1>7
<1>9. reply' = Taken /\ reply' \in Numbers /\ reply' # None
  BY <1>2, <1>3, <1>4, <1>8 DEF None
<1>10. /\ phase' \in 0 .. 2 /\ sendPacketCount' \in 0 .. ITERATION_COUNT
       /\ packetCounter' \in 0 .. ITERATION_COUNT /\ recvLatencyCount' \in 0 .. MAX_RECV_LATENCIES
       /\ running' \in BOOLEAN /\ packetCounter' < ITERATION_COUNT
  BY <1>3, <1>8
<1>11. TypeOK' /\ MeasurementsInv' /\ LinuxInv' /\ Reads' = Reads
  BY <1>1, <1>3, <1>5, <1>8, <1>9, <1>10, CpuTypes
<1>12. CpuThroughput'
  <2>1. \A k \in 0 .. packetCounter' - 1 : recvLatencies'[k] = First(Round(Taken')) + k
    BY <1>8
  <2> QED
    BY <1>6, <1>8, <1>10, <2>1 DEF CpuThroughput
<1>13. Prepared' = Taken + 1 /\ Stored = Taken /\ Stored' = Taken
  <2>1. Prepared' = Taken' + 0
    BY <1>6, <1>8 DEF Prepared
  <2>2. Prepared' = Taken + 1
    BY <1>3, <1>5, <2>1
  <2>3. Stored = Taken
    BY <1>1, <1>3, <1>4 DEF Stored
  <2>4. Stored' = Prepared' - 1
    BY <1>9 DEF Stored
  <2> QED
    BY <1>3, <2>2, <2>3, <2>4
<1>14. AnswersThroughput'
  <2>1. signals' = signals /\ Stored' = Stored
    BY <1>1, <1>13 DEF linux
  <2>2. /\ Len(up') <= Stored' /\ Stored' - Len(up') + signals' = Reads'
        /\ \A k \in 1 .. Len(up') : up'[k] = Stored' - Len(up') + k - 1
    BY <1>1, <1>3, <1>11, <2>1, Zenon DEF AnswersThroughput
  <2>3. reply' = Prepared' - 1
    BY <1>3, <1>9, <1>13
  <2> QED
    BY <2>2, <2>3 DEF AnswersThroughput
<1>15. h.at = phase
  BY <1>1, <1>7
<1> QED
  BY <1>1, <1>5, <1>11, <1>12, <1>14, <1>15 DEF IInv, CpuInv, AnswersInv, h

\* An answer that has waited for room follows those that are already on their way.
LEMMA WriteChan0IInv ==
    ASSUME IInv, VARIANT_WriteChan0
    PROVE  IInv' /\ UNCHANGED down
<1>1. /\ reply # None /\ Len(up) < Capacity /\ up' = Append(up, reply) /\ reply' = None
      /\ test' = test /\ down' = down /\ UNCHANGED linux /\ running' = running
      /\ f_step' = f_step /\ phase' = phase /\ packetCounter' = packetCounter
      /\ sendPacketCount' = sendPacketCount /\ recvLatencyCount' = recvLatencyCount
      /\ recvLatencies' = recvLatencies /\ totalReceiveTime' = totalReceiveTime
  BY DEF VARIANT_WriteChan0
<1>2. test = "throughput"
  BY <1>1 DEF IInv, TypeOK, CpuInv, CpuLatency
<1>3. /\ Taken \in Nat /\ Prepared \in Nat /\ Capacity \in Nat
      /\ packetCounter \in 0 .. ITERATION_COUNT /\ sendPacketCount \in 0 .. ITERATION_COUNT
      /\ recvLatencies \in [0 .. MAX_RECV_LATENCIES - 1 -> Numbers \cup {None}]
      /\ totalReceiveTime \in Numbers \cup {None} /\ reply \in Numbers \cup {None}
      /\ up \in Seq(Numbers) /\ Len(up) \in 0 .. Capacity
      /\ down \in Seq(Packets) /\ Len(down) \in 0 .. Capacity
      /\ phase \in 0 .. 2 /\ f_step \in 0 .. Phases - 1 /\ running
      /\ recvLatencyCount \in 0 .. MAX_RECV_LATENCIES
      /\ CpuThroughput /\ AnswersThroughput
  BY <1>2, CpuFacts DEF IInv, TypeOK
<1>4. Sent' = Sent /\ Taken' = Taken
  <2>1. Sent' = Sent
    BY <1>1 DEF Sent, linux
  <2> QED
    BY <1>1, <2>1 DEF Taken
<1>5. DownInv'
  BY <1>1, <1>4, Zenon DEF IInv, DownInv
<1>6. CpuThroughput'
  BY <1>1, <1>3, <1>4, Zenon DEF CpuThroughput
<1>7. Prepared' = Prepared /\ Stored = Prepared - 1 /\ Stored' = Prepared
  <2>1. Prepared' = Prepared
    BY <1>1, <1>4, Zenon DEF Prepared
  <2> QED
    BY <1>1, <2>1 DEF Stored
<1>8. /\ reply = Prepared - 1 /\ Len(up) <= Stored
      /\ Stored - Len(up) + signals = Reads
      /\ \A k \in 1 .. Len(up) : up[k] = Stored - Len(up) + k - 1
      /\ reply \in Numbers
  BY <1>1, <1>3 DEF AnswersThroughput
<1>9. /\ up' \in Seq(Numbers) /\ Len(up') = Len(up) + 1
      /\ \A k \in 1 .. Len(up) : up'[k] = up[k]
      /\ up'[Len(up) + 1] = reply
  BY <1>1, <1>3, <1>8
<1>10. Len(up) \in Nat /\ Len(up') \in 0 .. Capacity
  BY <1>1, <1>3, <1>9
<1>11. TypeOK' /\ MeasurementsInv' /\ LinuxInv' /\ Reads' = Reads
  BY <1>1, <1>3, <1>9, <1>10, CpuTypes
<1>12. signals' = signals /\ signals \in Int
  BY <1>1 DEF linux, IInv, TypeOK
<1>13. Len(up') <= Stored' /\ Stored' - Len(up') + signals' = Reads'
  <2>1. Len(up) + 1 <= Prepared /\ Prepared - (Len(up) + 1) + signals = Reads
    BY <1>3, <1>7, <1>8, <1>10, <1>12
  <2> QED
    BY <1>7, <1>9, <1>11, <1>12, <2>1
<1>14. \A k \in 1 .. Len(up') : up'[k] = Stored' - Len(up') + k - 1
  <2> SUFFICES ASSUME NEW k \in 1 .. Len(up) + 1
               PROVE  up'[k] = Prepared - (Len(up) + 1) + k - 1
    BY <1>7, <1>9
  <2>1. CASE k \in 1 .. Len(up)
    <3>1. up'[k] = (Prepared - 1) - Len(up) + k - 1
      BY <1>7, <1>8, <1>9, <2>1
    <3> QED
      BY <1>3, <1>10, <3>1
  <2>2. CASE k = Len(up) + 1
    <3>1. up'[k] = Prepared - 1
      BY <1>8, <1>9, <2>2
    <3> QED
      BY <1>3, <1>10, <2>2, <3>1
  <2> QED
    BY <1>10, <2>1, <2>2
<1>15. AnswersThroughput'
  BY <1>1, <1>13, <1>14 DEF AnswersThroughput
<1> QED
  BY <1>1, <1>2, <1>5, <1>6, <1>11, <1>15 DEF IInv, CpuInv, AnswersInv

-----------------------------------------------------------------------------
(* The theorems *)

\* Before the first packet both programs are at place 0.
LEMMA InitIInv == Init => IInv
<1> SUFFICES ASSUME Init PROVE IInv
  OBVIOUS
<1>1. /\ test \in {"latency", "throughput"} /\ down = << >> /\ up = << >> /\ lpc = "send"
      /\ step = 0 /\ i = 0 /\ signals = 0 /\ lag = 0 /\ running = TRUE /\ f_step = 0
      /\ phase = 0 /\ packetCounter = 0 /\ sendPacketCount = 0 /\ recvLatencyCount = 0
      /\ recvLatencies = [k \in 0 .. MAX_RECV_LATENCIES - 1 |-> None]
      /\ totalReceiveTime = None /\ reply = None
      /\ buffer = [kind |-> "none", number |-> None] /\ source = "none"
  BY DEF Init
<1>2. /\ ITERATION_COUNT \in Nat \ {0} /\ Capacity \in Nat /\ Steps \in Nat \ {0}
      /\ Phases \in Nat \ {0} /\ MaxSignals \in Nat /\ MAX_RECV_LATENCIES \in Nat
  BY <1>1, Limits
<1>3. Len(down) = 0 /\ Len(up) = 0 /\ down \in Seq(Packets) /\ up \in Seq(Numbers)
  BY <1>1
<1>4. First(0) = 0
  BY Firsts
<1>5. Sent = 0 /\ Taken = 0
  <2>1. Sent = First(0) + 0
    BY <1>1 DEF Sent
  <2>2. Sent = 0
    BY <1>4, <2>1
  <2> QED
    BY <1>3, <2>2 DEF Taken
<1>6. Round(0) = 0 /\ Place(0) = 0
  <2>1. 0 \in Nat /\ 0 \in 0 .. ITERATION_COUNT /\ 0 = First(0) + 0
    BY <1>2, <1>4
  <2> QED
    BY <2>1, OnePlace
<1>7. TypeOK
  BY <1>1, <1>2, <1>3 DEF TypeOK, Packets
<1>8. MeasurementsInv
  BY <1>1 DEF MeasurementsInv, MeasurementsOwn, BufferInv
<1>9. LinuxInv
  BY <1>1, <1>2 DEF LinuxInv
<1>10. DownInv
  BY <1>3, <1>5 DEF DownInv
<1>11. CpuInv
  <2>1. CpuLatency
    BY <1>1, <1>5, <1>6 DEF CpuLatency
  <2>2. CpuThroughput
    BY <1>1, <1>2, <1>5, <1>6 DEF CpuThroughput
  <2> QED
    BY <2>1, <2>2 DEF CpuInv
<1>12. AnswersInv
  <2>1. Requests(0) = 0
    BY <1>6 DEF Requests
  <2>2. Reads = 0
    <3>1. CASE test = "latency"
      <4>1. Reads = First(0) + (0 - 0)
        BY <1>1, <3>1 DEF Reads
      <4> QED
        BY <1>4, <4>1
    <3>2. CASE test # "latency"
      <4>1. Reads = First(0) + 0
        BY <1>1, <3>2 DEF Reads
      <4> QED
        BY <1>4, <4>1
    <3> QED
      BY <3>1, <3>2
  <2>3. Prepared = 0 /\ Stored = 0
    <3>1. Prepared = First(0) + 0
      BY <1>1, <1>5, <1>6 DEF Prepared
    <3>2. Prepared = 0
      BY <1>4, <3>1
    <3> QED
      BY <1>1, <3>2 DEF Stored
  <2>4. AnswersLatency
    BY <1>1, <1>3, <1>5, <2>1, <2>2 DEF AnswersLatency
  <2>5. AnswersThroughput
    <3>1. Len(up) <= Stored /\ Stored - Len(up) + signals = Reads
      <4>1. signals = 0
        BY <1>1
      <4>2. 0 <= 0 /\ 0 - 0 + 0 = 0
        OBVIOUS
      <4> QED
        BY <1>3, <2>2, <2>3, <4>1, <4>2
    <3>2. \A k \in 1 .. Len(up) : up[k] = Stored - Len(up) + k - 1
      BY <1>3
    <3> QED
      BY <1>1, <3>1, <3>2 DEF AnswersThroughput
  <2> QED
    BY <2>4, <2>5 DEF AnswersInv
<1> QED
  BY <1>7, <1>8, <1>9, <1>10, <1>11, <1>12 DEF IInv

\* What a step may do to the queue to CPU1, and that it keeps the invariant.
LEMMA NextStepIInv ==
    ASSUME IInv, Next
    PROVE  /\ IInv'
           /\ \/ down' # Tail(down)
              \/ UNCHANGED down
              \/ test = "latency" /\ Head(down).at = f_step
              \/ test = "throughput" /\ Head(down).at = phase
<1>1. CASE LatencyRequest
  BY <1>1, LatencyRequestIInv
<1>2. CASE LatencyReply
  BY <1>2, LatencyReplyIInv
<1>3. CASE LatencyNext
  BY <1>3, LatencyNextIInv
<1>4. CASE LatencyShutdown
  BY <1>4, LatencyShutdownIInv
<1>5. CASE ThroughputSend
  BY <1>5, ThroughputSendIInv
<1>6. CASE ThroughputReceive
  BY <1>6, ThroughputReceiveIInv
<1>7. CASE ThroughputNext
  BY <1>7, ThroughputNextIInv
<1>8. CASE ThroughputFinal
  BY <1>8, ThroughputFinalIInv
<1>9. CASE LatencyHandle
  BY <1>9, LatencyHandleIInv
<1>10. CASE Phase0Read
  BY <1>10, Phase0ReadIInv
<1>11. CASE Phase1Prepare
  BY <1>11, Phase1PrepareIInv
<1>12. CASE Phase2Read
  BY <1>12, Phase2ReadIInv
<1>13. CASE VARIANT_WriteChan0
  BY <1>13, WriteChan0IInv
<1> QED
  BY <1>1, <1>2, <1>3, <1>4, <1>5, <1>6, <1>7, <1>8, <1>9, <1>10, <1>11, <1>12, <1>13
  DEF Next, Linux, Cpu1

\* A step that changes nothing keeps the invariant, too.
LEMMA NextIInv == IInv /\ [Next]_vars => IInv'
<1> SUFFICES ASSUME IInv, [Next]_vars PROVE IInv'
  OBVIOUS
<1>1. CASE Next
  BY <1>1, NextStepIInv
<1>2. CASE UNCHANGED vars
  <2>1. /\ test' = test /\ down' = down /\ UNCHANGED linux /\ UNCHANGED cpu1 /\ up' = up
        /\ lpc' = lpc /\ step' = step /\ i' = i /\ signals' = signals /\ lag' = lag
        /\ buffer' = buffer /\ source' = source
    BY <1>2 DEF vars, queues, linux
  <2>2. Sent' = Sent /\ Reads' = Reads
    BY <2>1, Zenon DEF Sent, Reads
  <2>3. Taken' = Taken
    BY <2>1, <2>2 DEF Taken
  <2>4. CpuInv' /\ AnswersInv' /\ MeasurementsOwn'
    BY <2>1, <2>2, <2>3, LinuxKeepsCpu, SendKeepsAnswers
  <2>5. DownInv' /\ LinuxInv'
    BY <2>1, <2>2, <2>3, Zenon DEF IInv, DownInv, LinuxInv
  <2>6. /\ down' \in Seq(Packets) /\ Len(down') \in 0 .. Capacity
        /\ up' \in Seq(Numbers) /\ Len(up') \in 0 .. Capacity
        /\ lpc' \in {"send", "receive", "next", "final", "shutdown", "end"}
        /\ step' \in 0 .. Steps - 1 /\ i' \in 0 .. ITERATION_COUNT
        /\ signals' \in 0 .. MaxSignals /\ lag' \in Int
        /\ buffer' \in Buffers /\ source' \in {"none", "request", "answer"}
    BY <2>1 DEF IInv, TypeOK, Packets, Buffers
  <2>7. TypeOK'
    BY <2>1, <2>6, LinuxTypes
  <2>8. BufferInv'
    <3>1. First(step)' = First(step)
      BY <2>1 DEF First
    <3> QED
      BY <2>1, <2>2, <3>1, Zenon DEF IInv, MeasurementsInv, BufferInv
  <2> QED
    BY <2>4, <2>5, <2>7, <2>8 DEF IInv, MeasurementsInv
<1> QED
  BY <1>1, <1>2

\* The places of the two programs in the sequence of packets, what lies between
\* them, and what follows from it for their state, hold in every run.
THEOREM InductiveInvariant == Spec => []IInv
<1> QED
  BY InitIInv, NextIInv, PTL DEF Spec

\* The counters of both tests keep their ranges: CPU1 never counts more packets
\* than a round has, nor uses an entry outside its table of latencies.
THEOREM TypeCorrect == Spec => []TypeOK
<1>1. IInv => TypeOK
  BY DEF IInv
<1> QED
  BY <1>1, InductiveInvariant, PTL

\* What is written down from an answer is of the request it is written down
\* for, or of one at most as many before it as reads were interrupted, also when
\* answers are given up; what is written down from the bytes of a request, by an
\* interrupted read, is from those of the latest one.
THEOREM Measured == Spec => []MeasurementsOwn
<1>1. IInv => MeasurementsOwn
  BY DEF IInv, MeasurementsInv
<1> QED
  BY <1>1, InductiveInvariant, PTL

\* CPU1 handles every packet in the phase in which Linux sent it.
THEOREM SamePhase == Spec => PhasesMatch
<1>1. IInv /\ [Next]_vars =>
        [down # << >> /\ down' = Tail(down) =>
             Head(down).at = IF test = "latency" THEN f_step ELSE phase]_vars
  <2> SUFFICES ASSUME IInv, Next, down # << >>, down' = Tail(down)
               PROVE  Head(down).at = IF test = "latency" THEN f_step ELSE phase
    BY Zenon
  <2>1. down \in Seq(Packets) /\ Len(Tail(down)) = Len(down) - 1 /\ Len(down) \in Nat
    BY DEF IInv, TypeOK, Packets
  <2>2. Tail(down) # down
    <3>1. \A n \in Nat : n - 1 # n
      OBVIOUS
    <3> QED
      BY <2>1, <3>1, Zenon
  <2> QED
    BY <2>2, NextStepIInv
<1> QED
  BY <1>1, InductiveInvariant, PTL DEF Spec, PhasesMatch
=============================================================================
