--------------------------- MODULE Session_proofs ---------------------------
(***************************************************************************)
(* Proofs about the variable commands of a session, for rings and          *)
(* multipliers of any size and any number of iterations, when the          *)
(* application is started after CPU1 has set up the tunnels.  The          *)
(* invariant says that the numbers of the commands on their way follow the *)
(* one applied last without a gap, up to the one that is kept, and that    *)
(* two data packets received one after the other are never so many         *)
(* commands apart that the 16 bits of their identifiers could agree.       *)
(***************************************************************************)
EXTENDS Session, TLAPS

\* The tunnel of T0.
Commands == down["T0"]
Updates == up["T0"]

\* The T0 thread has an iteration left until it writes its results.
LoopInv == tpc \in {"start", "recv", "send"} => i < Iterations

\* The start packet is in the ring.
Offset == IF cpc = "wait" THEN 1 ELSE 0

\* Before the scheduler runs: VARIANT_Initialize leaves the tunnel empty, and
\* CPU1 has applied nothing.
BootInv ==
    /\ cpc = "boot" => /\ tpc = "start"
                       /\ \A k \in 1 .. Len(Commands) : Commands[k].kind # "set"
                       /\ cleared # {} => Commands = << >> /\ Updates = << >>
    /\ cpc = "wait" => Updates = << >>
    /\ cpc \in {"boot", "wait"} => vars1.n = 0 /\ Latest = 0
    /\ tpc = "start" => /\ cpc \in {"boot", "wait"}
                        /\ cpc = "wait" => Commands = << >>
                        /\ packetIdCounter = 1 /\ ~delayed

\* A command that was refused waits to be sent again.
Waiting == IF delayed THEN 1 ELSE 0

\* Commands that CPU1 has not taken are newer than the one it applied last,
\* and in order; until the shutdown command they are all there, behind the
\* start packet.
CommandsInv ==
    tpc # "start" =>
        /\ \A k \in 1 .. Len(Commands) :
              vars1.n <= Commands[k].n /\ Commands[k].n < packetIdCounter
        /\ \A j, k \in 1 .. Len(Commands) : j < k => Commands[j].n <= Commands[k].n
        /\ vars1.n < packetIdCounter
        /\ Offset <= Len(Commands)
        /\ tpc # "done" =>
              /\ \A k \in 1 .. Len(Commands) :
                    /\ Commands[k].kind = IF k <= Offset THEN "start" ELSE "set"
                    /\ Commands[k].n = vars1.n + k - Offset
              /\ vars1.n + Len(Commands) - Offset + Waiting = packetIdCounter - 1

\* The data packets on their way are in the order of the commands applied.
UpdatesInv ==
    /\ Latest <= vars1.n
    /\ \A k \in 1 .. Len(Updates) :
          Latest <= Updates[k].n /\ Updates[k].n <= vars1.n
    /\ \A j, k \in 1 .. Len(Updates) : j < k => Updates[j].n <= Updates[k].n

DataInv == BootInv /\ CommandsInv /\ UpdatesInv

\* The T0 thread has received the packet for one more command.
Making == IF tpc = "send" THEN 1 ELSE 0

\* The number in the newest data packet that was not dropped.
Newest == IF Updates = << >> THEN Latest ELSE Updates[Len(Updates)].n

\* The T0 thread makes a command only after it took a packet out of the ring,
\* or found it empty: while CPU1 has to drop its packets there is none, and
\* otherwise the ring of the commands bounds how far CPU1 can be behind.
GapInv ==
    tpc \in {"start", "recv", "send"} =>
        /\ Len(Updates) = Cap["T0"] => packetIdCounter - 1 + Making <= Newest + Cap["T0"] + 1
        /\ vars1.n <= Newest + Cap["T0"] + 1
        /\ Updates # << >> => Updates[1].n <= Latest + Cap["T0"] + 2
        /\ \A k \in 1 .. Len(Updates) - 1 : Updates[k + 1].n <= Updates[k].n + Cap["T0"] + 2

\* Every identifier is its number modulo IdLimit.
IdsInv ==
    /\ vars1.id = vars1.n % IdLimit
    /\ \A k \in 1 .. Len(Commands) : Commands[k].id = Commands[k].n % IdLimit
    /\ \A k \in 1 .. Len(Updates) : Updates[k].id = Updates[k].n % IdLimit
    /\ buf.n # Unset => buf.id = buf.n % IdLimit

\* What was handled last is what was received last.
SeenInv == seen # Unset => seen = Latest /\ handledPacketId = seen % IdLimit

EffectInv == GapInv /\ IdsInv /\ SeenInv

-----------------------------------------------------------------------------
\* Queues: putting into one that has room.
LEMMA PutTyped ==
    ASSUME NEW queue \in [Targets -> Seq(Packets)], NEW t \in Targets, NEW p \in Packets,
           \A s \in Targets : Len(queue[s]) <= Cap[s], ~Full(queue, t)
    PROVE  /\ Put(queue, t, p) \in [Targets -> Seq(Packets)]
           /\ \A s \in Targets : Len(Put(queue, t, p)[s]) <= Cap[s]
BY SessionAssumption DEF Put, Full

\* And taking one.
LEMMA TakeTyped ==
    ASSUME NEW queue \in [Targets -> Seq(Packets)], NEW t \in Targets, queue[t] # << >>,
           \A s \in Targets : Len(queue[s]) <= Cap[s]
    PROVE  /\ Take(queue, t) \in [Targets -> Seq(Packets)]
           /\ \A s \in Targets : Len(Take(queue, t)[s]) <= Cap[s]
           /\ Head(queue[t]) \in Packets
BY SessionAssumption DEF Take

\* A number has its type after the conversion.
LEMMA NumberedTyped ==
    ASSUME NEW n \in Nat
    PROVE  /\ n % IdLimit \in Ids
           /\ Numbered(n) \in [id : Ids, n : Nat]
           /\ Numbered(n).id = n % IdLimit
           /\ Numbered(n).n = n
<1>1. n % IdLimit \in Ids
  BY SessionAssumption DEF Ids
<1> QED
  BY <1>1 DEF Numbered

\* Every packet that is sent has its type.
LEMMA PacketsTyped ==
    ASSUME NEW n \in Nat, NEW v \in [id : Ids, n : Nat]
    PROVE  /\ Start \in Packets /\ Command(n) \in Packets /\ Shutdown(n) \in Packets
           /\ Data(v) \in Packets
<1>1. Numbered(0) \in [id : Ids, n : Nat] /\ Numbered(n) \in [id : Ids, n : Nat]
  BY NumberedTyped
<1> QED
  BY <1>1 DEF Start, Command, Shutdown, Data, Packet, Packets

\* What the packets carry.
LEMMA PacketParts ==
    ASSUME NEW n \in Nat, NEW v \in [id : Ids, n : Nat]
    PROVE  /\ Start.kind = "start" /\ Start.n = 0 /\ Start.id = 0 % IdLimit
           /\ Command(n).kind = "set" /\ Command(n).n = n /\ Command(n).id = n % IdLimit
           /\ Shutdown(n).n = n /\ Shutdown(n).id = n % IdLimit
           /\ Data(v).kind = "data" /\ Data(v).n = v.n /\ Data(v).id = v.id
<1>1. /\ Numbered(0).id = 0 % IdLimit /\ Numbered(0).n = 0
      /\ Numbered(n).id = n % IdLimit /\ Numbered(n).n = n
  BY NumberedTyped
<1> QED
  BY <1>1 DEF Start, Command, Shutdown, Data, Packet

\* Packets carry a natural number, and variables.
LEMMA IdsTyped ==
    ASSUME NEW s \in Seq(Packets)
    PROVE  \A k \in 1 .. Len(s) :
              /\ s[k].n \in Nat
              /\ Variables(s[k]) \in [id : Ids, n : Nat]
              /\ Variables(s[k]).n = s[k].n /\ Variables(s[k]).id = s[k].id
<1> SUFFICES ASSUME NEW k \in 1 .. Len(s)
             PROVE  /\ s[k].n \in Nat
                    /\ Variables(s[k]) \in [id : Ids, n : Nat]
                    /\ Variables(s[k]).n = s[k].n /\ Variables(s[k]).id = s[k].id
  OBVIOUS
<1>1. s[k] \in Packets
  OBVIOUS
<1> QED
  BY <1>1 DEF Packets, Variables

\* What an earlier run may have left behind in a ring.
LEMMA LeftTyped ==
    ASSUME NEW left \in {<< >>, <<Data(Numbered(0))>>}
    PROVE  left \in Seq(Packets) /\ Len(left) <= 1 /\ \A k \in 1 .. Len(left) : left[k] = Data(Numbered(0))
<1>1. Data(Numbered(0)) \in Packets
  BY NumberedTyped, PacketsTyped
<1>2. CASE left = << >>
  BY <1>2
<1>3. CASE left = <<Data(Numbered(0))>>
  BY <1>1, <1>3
<1> QED
  BY <1>2, <1>3

\* The state after power-up.
LEMMA InitTyped == Init => TypeOK /\ LoopInv /\ DataInv
<1> SUFFICES ASSUME Init PROVE TypeOK /\ LoopInv /\ DataInv
  OBVIOUS
<1>1. PICK d \in {<< >>, <<Data(Numbered(0))>>} : down = [t \in Targets |-> d]
  BY DEF Init
<1>2. PICK u \in {<< >>, <<Data(Numbered(0))>>} : up = [t \in Targets |-> u]
  BY DEF Init
<1>3. d \in Seq(Packets) /\ Len(d) <= 1 /\ \A k \in 1 .. Len(d) : d[k] = Data(Numbered(0))
  BY LeftTyped
<1>4. u \in Seq(Packets) /\ Len(u) <= 1 /\ \A k \in 1 .. Len(u) : u[k] = Data(Numbered(0))
  BY LeftTyped
<1>5. TypeOK
  <2>1. /\ down \in [Targets -> Seq(Packets)] /\ \A t \in Targets : Len(down[t]) <= Cap[t]
        /\ up \in [Targets -> Seq(Packets)] /\ \A t \in Targets : Len(up[t]) <= Cap[t]
    BY <1>1, <1>2, <1>3, <1>4, SessionAssumption
  <2>2. /\ counter \in [Slow -> Nat] /\ \A t \in Slow : counter[t] < Multiplier[t]
        /\ i \in 0 .. Iterations /\ periods \in 0 .. CsvPeriods /\ signals \in 0 .. MaxSignals
    BY SessionAssumption DEF Init
  <2>3. {f_running1, f_t0InitDone, delayed, f_running} \subseteq BOOLEAN
    BY DEF Init
  <2>4. /\ vars1 \in [id : Ids, n : Nat] /\ buf \in [id : Ids, n : Nat \cup {Unset}]
        /\ handledPacketId \in Ids /\ seen \in Nat \cup {Unset}
    <3>1. 0 \in Ids
      BY SessionAssumption DEF Ids
    <3> QED
      BY <3>1, NumberedTyped DEF Init, Ids
  <2> QED
    BY <2>1, <2>2, <2>3, <2>4 DEF Init, TypeOK
<1>6. LoopInv
  BY SessionAssumption DEF Init, LoopInv
<1>7. DataInv
  <2>1. /\ \A k \in 1 .. Len(Commands) : Commands[k].kind = "data"
        /\ \A k \in 1 .. Len(Updates) : Updates[k].n = 0
    BY <1>1, <1>2, <1>3, <1>4, PacketParts, NumberedTyped DEF Commands, Updates, Targets
  <2>2. vars1.n = 0 /\ Latest = 0
    BY NumberedTyped DEF Init, Latest
  <2>3. cpc = "boot" /\ tpc = "start" /\ cleared = {} /\ packetIdCounter = 1 /\ ~delayed
    BY DEF Init
  <2> QED
    BY <2>1, <2>2, <2>3 DEF DataInv, BootInv, CommandsInv, UpdatesInv
<1> QED
  BY <1>5, <1>6, <1>7

-----------------------------------------------------------------------------
\* The parts of TypeOK that one action can disturb.
QueuesTyped ==
    /\ down \in [Targets -> Seq(Packets)] /\ \A t \in Targets : Len(down[t]) <= Cap[t]
    /\ up \in [Targets -> Seq(Packets)] /\ \A t \in Targets : Len(up[t]) <= Cap[t]

ScalarsTyped ==
    /\ cpc \in {"boot", "wait", "run", "stopped"}
    /\ cleared \subseteq Targets
    /\ counter \in [Slow -> Nat] /\ \A t \in Slow : counter[t] < Multiplier[t]
    /\ pend \subseteq Slow
    /\ vars1 \in [id : Ids, n : Nat]
    /\ dropped \subseteq Targets
    /\ tpc \in {"start", "recv", "send", "csv", "done"}
    /\ i \in 0 .. Iterations
    /\ packetIdCounter \in Nat \ {0}
    /\ buf \in [id : Ids, n : Nat \cup {Unset}]
    /\ handledPacketId \in Ids
    /\ seen \in Nat \cup {Unset}
    /\ periods \in 0 .. CsvPeriods
    /\ signals \in 0 .. MaxSignals
    /\ mpc \in {"check", "select", "read", "reply", "join", "exit"}
    /\ ready \subseteq Slow
    /\ received \subseteq Slow

FlagsTyped ==
    /\ f_running1 \in BOOLEAN
    /\ f_t0InitDone \in BOOLEAN
    /\ delayed \in BOOLEAN
    /\ f_running \in BOOLEAN

Core == QueuesTyped /\ ScalarsTyped /\ LoopInv
Typed == Core /\ FlagsTyped

\* VARIANT_WriteChan keeps the queues typed.
LEMMA WriteChanTyped ==
    ASSUME NEW t \in Targets, NEW p \in Packets, QueuesTyped, dropped \subseteq Targets,
           WriteChan(t, p)
    PROVE  /\ up' \in [Targets -> Seq(Packets)] /\ \A s \in Targets : Len(up'[s]) <= Cap[s]
           /\ dropped' \subseteq Targets
<1>1. CASE Full(up, t)
  BY <1>1 DEF QueuesTyped, WriteChan
<1>2. CASE ~Full(up, t)
  <2>1. up' = Put(up, t, p) /\ dropped' = dropped
    BY <1>2 DEF WriteChan
  <2>2. /\ Put(up, t, p) \in [Targets -> Seq(Packets)]
        /\ \A s \in Targets : Len(Put(up, t, p)[s]) <= Cap[s]
    BY <1>2, PutTyped DEF QueuesTyped
  <2> QED
    BY <2>1, <2>2
<1> QED
  BY <1>1, <1>2

\* Handling a packet of the T0 ring.
LEMMA HandleTyped ==
    ASSUME Typed, HandleT0Packet
    PROVE  /\ down' \in [Targets -> Seq(Packets)] /\ \A s \in Targets : Len(down'[s]) <= Cap[s]
           /\ vars1' \in [id : Ids, n : Nat] /\ f_running1' \in BOOLEAN
<1>1. CASE down["T0"] = << >>
  BY <1>1 DEF HandleT0Packet, Typed, Core, QueuesTyped, ScalarsTyped, FlagsTyped
<1>2. CASE down["T0"] # << >>
  <2>1. "T0" \in Targets
    BY DEF Targets
  <2>2. Head(down["T0"]) \in Packets
    BY <1>2, <2>1, TakeTyped DEF Typed, Core, QueuesTyped
  <2>3. vars1' \in [id : Ids, n : Nat]
    BY <1>2, <2>2 DEF HandleT0Packet, Packets, Variables
  <2>4. f_running1' \in BOOLEAN
    BY <1>2 DEF HandleT0Packet
  <2> QED
    BY <1>2, <2>1, <2>3, <2>4, TakeTyped DEF HandleT0Packet, Typed, Core, QueuesTyped
<1> QED
  BY <1>1, <1>2

\* One iteration of the T0 thread ends, or goes on to send a command.
LEMMA IterationTyped ==
    ASSUME Typed, tpc \in {"recv", "send"}, HandleIteration \/ NextIteration
    PROVE  /\ i' \in 0 .. Iterations
           /\ tpc' \in {"recv", "send", "csv"}
           /\ LoopInv'
           /\ f_running' \in BOOLEAN
<1>1. i \in 0 .. Iterations /\ i < Iterations /\ f_running \in BOOLEAN
  BY DEF Typed, Core, ScalarsTyped, FlagsTyped, LoopInv
<1>2. CASE NextIteration
  <2>1. f_running' \in BOOLEAN
    <3>1. (i + 1 < Iterations) \in BOOLEAN
      OBVIOUS
    <3> QED
      BY <1>2, <3>1 DEF NextIteration
  <2>2. i' = i + 1 /\ tpc' = IF i + 1 < Iterations THEN "recv" ELSE "csv"
    BY <1>2 DEF NextIteration
  <2> QED
    BY <1>1, <2>1, <2>2, SessionAssumption DEF LoopInv
<1>3. CASE tpc' = "send" /\ UNCHANGED <<i, f_running>>
  BY <1>1, <1>3 DEF LoopInv
<1> QED
  BY <1>2, <1>3 DEF HandleIteration

\* No step puts more into a ring than fits, nor gives a counter another type.
LEMMA CoreNext == Typed /\ [Next]_vars => Core'
<1> SUFFICES ASSUME Typed, [Next]_vars PROVE Core'
  OBVIOUS
<1> USE DEF Core
<1>T. "T0" \in Targets /\ Slow \subseteq Targets
  BY DEF Targets
<1>1. CASE VARIANT_Initialize
  <2>1. QueuesTyped'
    <3>1. PICK t \in Targets : /\ down' = [down EXCEPT ![t] = << >>]
                               /\ up' = [up EXCEPT ![t] = << >>]
      BY <1>1 DEF VARIANT_Initialize, Targets, Slow
    <3>2. << >> \in Seq(Packets) /\ Len(<< >>) = 0
      OBVIOUS
    <3>3. \A s \in Targets : Len(down'[s]) <= Cap[s] /\ Len(up'[s]) <= Cap[s]
      <4> TAKE s \in Targets
      <4>1. /\ down'[s] = IF s = t THEN << >> ELSE down[s]
            /\ up'[s] = IF s = t THEN << >> ELSE up[s]
        BY <3>1 DEF Typed, QueuesTyped
      <4>2. Cap[s] \in Nat
        BY SessionAssumption
      <4> QED
        BY <3>2, <4>1, <4>2 DEF Typed, QueuesTyped
    <3> QED
      BY <3>1, <3>2, <3>3 DEF Typed, QueuesTyped
  <2>2. ScalarsTyped' /\ LoopInv'
    BY <1>1 DEF VARIANT_Initialize, Typed, ScalarsTyped, LoopInv, tvars, env, mvars, Targets, Slow
  <2> QED
    BY <2>1, <2>2 DEF Typed
<1>2. CASE ReceiveInitialPacket
  <2>1. QueuesTyped'
    BY <1>2, <1>T, TakeTyped DEF ReceiveInitialPacket, Typed, QueuesTyped
  <2>2. ScalarsTyped' /\ LoopInv'
    BY <1>2 DEF ReceiveInitialPacket, Typed, ScalarsTyped, LoopInv, tvars, env, mvars
  <2> QED
    BY <2>1, <2>2 DEF Typed
<1>3. CASE SCHEDULER_Stop
  BY <1>3 DEF SCHEDULER_Stop, Typed, QueuesTyped, ScalarsTyped, LoopInv, tvars, env, mvars
<1>4. CASE TimerT0Interrupt
  <2> USE <1>4 DEF TimerT0Interrupt
  <2>1. QueuesTyped' /\ vars1' \in [id : Ids, n : Nat] /\ dropped' \subseteq Targets
    <3>1. CASE f_t0InitDone
      <4>1. HandleT0Packet /\ WriteChan("T0", Data(vars1')) /\ UNCHANGED f_t0InitDone
        BY <3>1 DEF APPLICATION_T0
      <4>2. Data(vars1') \in Packets
        BY <4>1, HandleTyped, PacketsTyped
      <4> QED
        BY <1>T, <3>1, <4>1, <4>2, HandleTyped, WriteChanTyped DEF QueuesTyped, Typed, ScalarsTyped
    <3>2. CASE ~f_t0InitDone
      BY <3>2 DEF APPLICATION_T0, Typed, QueuesTyped, ScalarsTyped
    <3> QED
      BY <3>1, <3>2
  <2>2. counter' \in [Slow -> Nat] /\ \A t \in Slow : counter'[t] < Multiplier[t]
    BY SessionAssumption DEF Typed, ScalarsTyped
  <2>3. pend' \subseteq Slow /\ periods' \in 0 .. CsvPeriods
    BY SessionAssumption DEF Typed, ScalarsTyped
  <2>4. ScalarsTyped' /\ LoopInv'
    BY <2>1, <2>2, <2>3 DEF Typed, ScalarsTyped, LoopInv, tvars, mvars
  <2> QED
    BY <2>1, <2>4 DEF Typed
<1>5. ASSUME NEW t \in Slow, SlowInterrupt(t) PROVE Core'
  <2> USE <1>5 DEF SlowInterrupt
  <2>1. Data(Numbered(0)) \in Packets /\ t \in Targets
    BY NumberedTyped, PacketsTyped, <1>T
  <2>2. QueuesTyped' /\ dropped' \subseteq Targets
    BY <2>1, TakeTyped, WriteChanTyped DEF Typed, QueuesTyped, ScalarsTyped
  <2>3. ScalarsTyped' /\ LoopInv'
    BY <2>2 DEF Typed, ScalarsTyped, LoopInv, tvars, env, mvars
  <2> QED
    BY <2>2, <2>3 DEF Typed
<1>6. CASE SendStart
  <2>1. QueuesTyped'
    <3>1. Start \in Packets
      BY NumberedTyped, PacketsTyped
    <3> QED
      BY <1>6, <1>T, <3>1, PutTyped DEF SendStart, Typed, QueuesTyped
  <2>2. ScalarsTyped' /\ LoopInv'
    BY <1>6 DEF SendStart, Typed, ScalarsTyped, LoopInv, cvars, env, mvars
  <2> QED
    BY <2>1, <2>2 DEF Typed
<1>7. CASE ReceiveT0
  <2> USE <1>7 DEF ReceiveT0
  <2>1. QueuesTyped' /\ Head(up["T0"]) \in Packets
    BY <1>T, TakeTyped DEF Typed, QueuesTyped
  <2>2. /\ buf' \in [id : Ids, n : Nat] /\ handledPacketId' \in Ids
        /\ seen' \in Nat \cup {Unset}
    <3>1. buf' \in [id : Ids, n : Nat]
      BY <2>1 DEF Packets, Variables
    <3> QED
      BY <3>1 DEF HandleNewVariableData, Typed, ScalarsTyped
  <2>3. i' \in 0 .. Iterations /\ tpc' \in {"recv", "send", "csv"} /\ f_running' \in BOOLEAN
        /\ LoopInv'
    BY IterationTyped
  <2>4. ScalarsTyped'
    BY <2>2, <2>3 DEF Typed, ScalarsTyped, cvars, env, mvars
  <2> QED
    BY <2>1, <2>3, <2>4 DEF Typed
<1>8. CASE ReceiveT0Interrupted
  <2> USE <1>8 DEF ReceiveT0Interrupted
  <2>1. i' \in 0 .. Iterations /\ tpc' \in {"recv", "send", "csv"} /\ f_running' \in BOOLEAN
        /\ LoopInv'
    BY IterationTyped
  <2>2. signals' \in 0 .. MaxSignals
    BY SessionAssumption DEF Typed, ScalarsTyped
  <2>N. handledPacketId' \in Ids /\ seen' \in Nat \cup {Unset}
    BY DEF HandleNewVariableData, Typed, ScalarsTyped
  <2>3. ScalarsTyped' /\ QueuesTyped'
    BY <2>1, <2>2, <2>N DEF Typed, ScalarsTyped, QueuesTyped, cvars, mvars
  <2> QED
    BY <2>1, <2>3 DEF Typed
<1>9. CASE SendRandomVariableUpdate
  <2> USE <1>9 DEF SendRandomVariableUpdate
  <2> DEFINE id == IF delayed THEN packetIdCounter - 1 ELSE packetIdCounter
  <2>0. id \in Nat
    BY DEF Typed, ScalarsTyped
  <2>1. /\ packetIdCounter' = id + 1
        /\ down' = IF Full(down, "T0") THEN down ELSE Put(down, "T0", Command(id))
        /\ delayed' = Full(down, "T0")
    OBVIOUS
  <2> HIDE DEF id
  <2>2. QueuesTyped'
    <3>1. Command(id) \in Packets
      BY <2>0, NumberedTyped, PacketsTyped
    <3>2. QueuesTyped /\ UNCHANGED up
      BY DEF Typed
    <3>3. CASE Full(down, "T0")
      <4>1. down' = down
        BY <2>1, <3>3
      <4> QED
        BY <3>2, <4>1 DEF QueuesTyped
    <3>4. CASE ~Full(down, "T0")
      <4>1. down' = Put(down, "T0", Command(id))
        BY <2>1, <3>4
      <4>2. /\ Put(down, "T0", Command(id)) \in [Targets -> Seq(Packets)]
            /\ \A s \in Targets : Len(Put(down, "T0", Command(id))[s]) <= Cap[s]
        BY <1>T, <3>1, <3>2, <3>4, PutTyped DEF QueuesTyped
      <4> QED
        BY <3>2, <4>1, <4>2 DEF QueuesTyped
    <3> QED
      BY <3>3, <3>4
  <2>3. i' \in 0 .. Iterations /\ tpc' \in {"recv", "send", "csv"} /\ f_running' \in BOOLEAN
        /\ LoopInv'
    BY IterationTyped
  <2>5. ScalarsTyped'
    BY <2>0, <2>1, <2>3 DEF Typed, ScalarsTyped, cvars, env, mvars
  <2> QED
    BY <2>2, <2>3, <2>5 DEF Typed
<1>10. CASE SendShutdownCommand
  <2> USE <1>10 DEF SendShutdownCommand
  <2>1. QueuesTyped'
    <3>1. Shutdown(packetIdCounter) \in Packets
      BY NumberedTyped, PacketsTyped DEF Typed, ScalarsTyped
    <3> QED
      BY <1>T, <3>1, PutTyped DEF Typed, QueuesTyped
  <2>2. ScalarsTyped' /\ LoopInv'
    BY DEF Typed, ScalarsTyped, LoopInv, cvars, env, mvars
  <2> QED
    BY <2>1, <2>2 DEF Typed
<1>11. CASE TestLoop \/ Select \/ Join
  BY <1>11 DEF TestLoop, Select, Join, Typed, QueuesTyped, ScalarsTyped, LoopInv, cvars, tvars, env
<1>12. CASE SelectInterrupted
  <2>1. signals' \in 0 .. MaxSignals
    BY <1>12, SessionAssumption DEF SelectInterrupted, Typed, ScalarsTyped
  <2> QED
    BY <1>12, <2>1
       DEF SelectInterrupted, Typed, QueuesTyped, ScalarsTyped, LoopInv, cvars, tvars
<1>13. CASE ReadReady
  <2>1. QueuesTyped'
    BY <1>13, SessionAssumption DEF ReadReady, Typed, QueuesTyped
  <2>2. ScalarsTyped' /\ LoopInv'
    BY <1>13 DEF ReadReady, Typed, ScalarsTyped, LoopInv, cvars, tvars, env
  <2> QED
    BY <2>1, <2>2 DEF Typed
<1>14. CASE Reply
  <2> USE <1>14 DEF Reply
  <2>1. QueuesTyped'
    <3>1. CASE received = {}
      BY <3>1 DEF Typed, QueuesTyped
    <3>2. CASE received # {}
      <4> DEFINE t == IF "T1" \in received THEN "T1" ELSE "T2"
      <4>1. t \in Targets
        BY DEF Targets, Slow
      <4>2. down' = IF Full(down, t) THEN down ELSE Put(down, t, Command(0))
        BY <3>2
      <4> HIDE DEF t
      <4>3. Command(0) \in Packets
        BY NumberedTyped, PacketsTyped
      <4> QED
        BY <4>1, <4>2, <4>3, PutTyped DEF Typed, QueuesTyped
    <3> QED
      BY <3>1, <3>2
  <2>2. ScalarsTyped' /\ LoopInv'
    BY DEF Typed, ScalarsTyped, LoopInv, cvars, tvars, env
  <2> QED
    BY <2>1, <2>2 DEF Typed
<1>15. CASE UNCHANGED vars
  BY <1>15 DEF vars, cvars, tvars, env, mvars, Typed, QueuesTyped, ScalarsTyped, LoopInv
<1> QED
  BY <1>1, <1>2, <1>3, <1>4, <1>5, <1>6, <1>7, <1>8, <1>9, <1>10, <1>11, <1>12, <1>13, <1>14, <1>15
     DEF Next, Cpu1, T0Thread, Test

\* The flags of both programs stay Boolean.
LEMMA FlagsNext == Typed /\ [Next]_vars => FlagsTyped'
<1> SUFFICES ASSUME Typed, [Next]_vars PROVE FlagsTyped'
  OBVIOUS
<1>1. CASE TimerT0Interrupt
  <2>1. f_running1' \in BOOLEAN /\ f_t0InitDone' \in BOOLEAN
    BY <1>1, HandleTyped DEF TimerT0Interrupt, APPLICATION_T0, Typed, FlagsTyped
  <2> QED
    BY <1>1, <2>1 DEF TimerT0Interrupt, tvars, Typed, FlagsTyped
<1>2. CASE ReceiveT0 \/ ReceiveT0Interrupted
  <2>1. f_running' \in BOOLEAN
    BY <1>2, IterationTyped DEF ReceiveT0, ReceiveT0Interrupted
  <2> QED
    BY <1>2, <2>1 DEF ReceiveT0, ReceiveT0Interrupted, cvars, Typed, FlagsTyped
<1>3. CASE SendRandomVariableUpdate
  <2>1. f_running' \in BOOLEAN
    BY <1>3, IterationTyped DEF SendRandomVariableUpdate
  <2>2. delayed' \in BOOLEAN
    BY <1>3 DEF SendRandomVariableUpdate, Full
  <2> QED
    BY <1>3, <2>1, <2>2 DEF SendRandomVariableUpdate, cvars, Typed, FlagsTyped
<1>4. CASE SendShutdownCommand
  BY <1>4 DEF SendShutdownCommand, cvars, Typed, FlagsTyped
<1>5. CASE UNCHANGED <<f_running1, f_t0InitDone, delayed, f_running>>
  BY <1>5 DEF Typed, FlagsTyped
<1>6. ASSUME NEW t \in Slow, SlowInterrupt(t)
      PROVE  UNCHANGED <<f_running1, f_t0InitDone, delayed, f_running>>
  BY <1>6 DEF SlowInterrupt, tvars
<1>7. CASE \/ VARIANT_Initialize \/ ReceiveInitialPacket \/ SCHEDULER_Stop \/ SendStart
           \/ Test \/ SelectInterrupted \/ UNCHANGED vars
  <2>1. UNCHANGED <<f_running1, f_t0InitDone, delayed, f_running>>
    BY <1>7 DEF VARIANT_Initialize, ReceiveInitialPacket, SCHEDULER_Stop, SendStart, Test, TestLoop,
         Select, ReadReady, Reply, Join, SelectInterrupted, vars, cvars, tvars
  <2> QED
    BY <1>5, <2>1
<1> QED
  BY <1>1, <1>2, <1>3, <1>4, <1>5, <1>6, <1>7 DEF Next, Cpu1, T0Thread

-----------------------------------------------------------------------------
\* What HandleT0Packet does to the commands, and T0's write to the updates.
LEMMA HandleData ==
    ASSUME Typed, DataInv, cpc = "run", HandleT0Packet, UNCHANGED <<cpc, tvars>>
    PROVE  /\ BootInv' /\ CommandsInv'
           /\ vars1.n <= vars1'.n /\ vars1'.n \in Nat
           /\ tpc # "done" => vars1'.n <= vars1.n + 1
           /\ Len(Commands') <= Len(Commands) - 1 \/ Len(Commands') = 0
<1>T. /\ Commands \in Seq(Packets) /\ Len(Commands) \in Nat
      /\ vars1.n \in Nat /\ packetIdCounter \in Nat
      /\ \A k \in 1 .. Len(Commands) : Commands[k].n \in Nat
  <2>1. Commands \in Seq(Packets) /\ vars1.n \in Nat /\ packetIdCounter \in Nat
    BY DEF Typed, Core, QueuesTyped, ScalarsTyped, Commands, Targets
  <2> QED
    BY <2>1, IdsTyped
<1>W. /\ Waiting' = Waiting /\ Waiting \in Nat /\ Latest' = Latest
      /\ UNCHANGED <<cpc, packetIdCounter, tpc>> /\ Offset = 0 /\ Offset' = 0 /\ tpc # "start"
  BY DEF Waiting, Latest, tvars, Offset, DataInv, BootInv
<1>B. BootInv'
  BY <1>W DEF BootInv
<1>1. CASE Commands = << >>
  <2>1. down' = down /\ vars1' = vars1
    BY <1>1 DEF HandleT0Packet, Commands
  <2>2. Commands' = Commands /\ Len(Commands') = 0
    BY <1>1, <2>1 DEF Commands
  <2>3. CommandsInv'
    BY <1>W, <2>1, <2>2 DEF DataInv, CommandsInv
  <2> QED
    BY <1>T, <1>B, <2>1, <2>2, <2>3
<1>2. CASE Commands # << >>
  <2>1. Len(Commands) \in Nat \ {0}
    BY <1>2, <1>T
  <2>2. Commands' = Tail(Commands) /\ vars1' = Variables(Commands[1])
    BY <1>2, <1>T DEF HandleT0Packet, Take, Commands, Typed, Core, QueuesTyped, Targets
  <2>3. /\ Len(Commands') = Len(Commands) - 1
        /\ \A k \in 1 .. Len(Commands') : Commands'[k] = Commands[k + 1]
    BY <1>T, <2>1, <2>2
  <2>4. vars1'.n = Commands[1].n
    BY <1>T, <2>1, <2>2, IdsTyped
  <2>5. /\ \A k \in 1 .. Len(Commands) :
               vars1.n <= Commands[k].n /\ Commands[k].n < packetIdCounter
        /\ \A j, k \in 1 .. Len(Commands) : j < k => Commands[j].n <= Commands[k].n
        /\ tpc # "done" =>
              /\ \A k \in 1 .. Len(Commands) :
                    Commands[k].kind = "set" /\ Commands[k].n = vars1.n + k
              /\ vars1.n + Len(Commands) + Waiting = packetIdCounter - 1
    <3>1. \A k \in 1 .. Len(Commands) : ~ (k <= 0) /\ vars1.n + k - 0 = vars1.n + k
      BY <1>T
    <3> QED
      BY <1>T, <1>W, <3>1 DEF DataInv, CommandsInv
  <2>6. \A k \in 1 .. Len(Commands') : k + 1 \in 1 .. Len(Commands) /\ 1 < k + 1
    BY <2>1, <2>3
  <2>7. /\ \A k \in 1 .. Len(Commands') :
              vars1'.n <= Commands'[k].n /\ Commands'[k].n < packetIdCounter
        /\ \A j, k \in 1 .. Len(Commands') : j < k => Commands'[j].n <= Commands'[k].n
        /\ vars1'.n < packetIdCounter
    <3>0. 1 \in 1 .. Len(Commands)
      BY <2>1
    <3>1. ASSUME NEW k \in 1 .. Len(Commands')
          PROVE  vars1'.n <= Commands'[k].n /\ Commands'[k].n < packetIdCounter
      <4>1. k + 1 \in 1 .. Len(Commands) /\ 1 < k + 1 /\ Commands'[k] = Commands[k + 1]
        BY <2>3, <2>6
      <4> QED
        BY <2>4, <2>5, <3>0, <4>1
    <3>2. ASSUME NEW j \in 1 .. Len(Commands'), NEW k \in 1 .. Len(Commands'), j < k
          PROVE  Commands'[j].n <= Commands'[k].n
      <4>1. /\ k + 1 \in 1 .. Len(Commands) /\ Commands'[k] = Commands[k + 1]
            /\ j + 1 \in 1 .. Len(Commands) /\ Commands'[j] = Commands[j + 1]
            /\ j + 1 < k + 1
        BY <2>3, <2>6, <3>2
      <4> QED
        BY <2>5, <4>1
    <3>3. vars1'.n < packetIdCounter
      BY <2>4, <2>5, <3>0
    <3> QED
      BY <3>1, <3>2, <3>3
  <2>8. ASSUME tpc # "done"
        PROVE  /\ \A k \in 1 .. Len(Commands') :
                     Commands'[k].kind = "set" /\ Commands'[k].n = vars1'.n + k
               /\ vars1'.n + Len(Commands') + Waiting = packetIdCounter - 1
               /\ vars1'.n = vars1.n + 1
    <3>1. vars1'.n = vars1.n + 1
      BY <2>1, <2>4, <2>5, <2>8
    <3>2. \A k \in 1 .. Len(Commands') :
             Commands'[k].kind = "set" /\ Commands'[k].n = vars1.n + (k + 1)
      <4> TAKE k \in 1 .. Len(Commands')
      <4>1. k + 1 \in 1 .. Len(Commands) /\ Commands'[k] = Commands[k + 1]
        BY <2>3, <2>6
      <4> QED
        BY <2>5, <2>8, <4>1
    <3>3. \A k \in 1 .. Len(Commands') : vars1.n + (k + 1) = vars1'.n + k
      <4> TAKE k \in 1 .. Len(Commands')
      <4>1. k \in Nat /\ vars1.n \in Nat
        BY <1>T, <2>1, <2>3
      <4> QED
        BY <3>1, <4>1
    <3>4. vars1'.n + Len(Commands') + Waiting = packetIdCounter - 1
      <4>1. vars1.n + Len(Commands) + Waiting = packetIdCounter - 1
        BY <2>5, <2>8
      <4> QED
        BY <1>T, <1>W, <2>1, <2>3, <3>1, <4>1
    <3> QED
      BY <3>1, <3>2, <3>3, <3>4
  <2>9. CommandsInv'
    <3>1. \A k \in 1 .. Len(Commands') : ~ (k <= 0) /\ vars1'.n + k - 0 = vars1'.n + k
      BY <1>T, <2>1, <2>3, <2>4
    <3>2. /\ vars1'.n + Len(Commands') - 0 = vars1'.n + Len(Commands')
          /\ 0 <= Len(Commands')
      BY <1>T, <2>1, <2>3, <2>4
    <3> QED
      BY <1>W, <2>7, <2>8, <3>1, <3>2 DEF CommandsInv
  <2>10. 1 \in 1 .. Len(Commands) /\ vars1.n <= vars1'.n /\ vars1'.n \in Nat
    BY <1>T, <2>1, <2>4, <2>5
  <2> QED
    BY <1>T, <1>B, <2>1, <2>3, <2>8, <2>9, <2>10
<1> QED
  BY <1>1, <1>2

\* What VARIANT_WriteChan makes of the updates.
LEMMA WriteUpdates ==
    ASSUME Typed, NEW p \in Packets, WriteChan("T0", p)
    PROVE  \/ Len(Updates) = Cap["T0"] /\ Updates' = Updates
           \/ /\ Len(Updates) # Cap["T0"]
              /\ Updates' = Append(Updates, p)
              /\ Len(Updates') = Len(Updates) + 1
              /\ \A k \in 1 .. Len(Updates) : Updates'[k] = Updates[k]
              /\ Updates'[Len(Updates) + 1] = p
<1>1. "T0" \in Targets /\ Updates \in Seq(Packets) /\ up \in [Targets -> Seq(Packets)]
  BY DEF Typed, Core, QueuesTyped, Updates, Targets
<1>2. CASE Full(up, "T0")
  BY <1>2 DEF WriteChan, Full, Updates
<1>3. CASE ~Full(up, "T0")
  <2>1. Updates' = Append(Updates, p) /\ Len(Updates) # Cap["T0"]
    BY <1>1, <1>3 DEF WriteChan, Full, Put, Updates
  <2> QED
    BY <1>1, <2>1
<1> QED
  BY <1>2, <1>3

\* A data packet of T0 is no older than the ones before it.
LEMMA WriteData ==
    ASSUME Typed, UpdatesInv, vars1.n <= vars1'.n, vars1' \in [id : Ids, n : Nat],
           WriteChan("T0", Data(vars1')), UNCHANGED buf
    PROVE  UpdatesInv'
<1>0. Data(vars1') \in Packets /\ Data(vars1').n = vars1'.n
  BY PacketsTyped, PacketParts
<1>1. /\ Updates \in Seq(Packets) /\ Len(Updates) \in Nat /\ vars1.n \in Nat /\ vars1'.n \in Nat
      /\ Latest \in Nat /\ Latest' = Latest
      /\ \A k \in 1 .. Len(Updates) : Updates[k].n \in Nat
  <2>1. Updates \in Seq(Packets) /\ vars1.n \in Nat /\ vars1'.n \in Nat
    BY DEF Typed, Core, QueuesTyped, ScalarsTyped, Updates, Targets
  <2>2. Latest \in Nat /\ Latest' = Latest
    BY DEF Typed, Core, ScalarsTyped, Latest
  <2> QED
    BY <2>1, <2>2, IdsTyped
<1>2. /\ Latest <= vars1'.n
      /\ \A k \in 1 .. Len(Updates) : Latest <= Updates[k].n /\ Updates[k].n <= vars1'.n
      /\ \A j, k \in 1 .. Len(Updates) : j < k => Updates[j].n <= Updates[k].n
  BY <1>1 DEF UpdatesInv
<1>3. CASE Updates' = Updates
  BY <1>1, <1>2, <1>3 DEF UpdatesInv
<1>4. CASE /\ Len(Updates') = Len(Updates) + 1
           /\ \A k \in 1 .. Len(Updates) : Updates'[k] = Updates[k]
           /\ Updates'[Len(Updates) + 1] = Data(vars1')
  <2>1. \A k \in 1 .. Len(Updates') :
           (k \in 1 .. Len(Updates) /\ Updates'[k] = Updates[k])
           \/ (k = Len(Updates) + 1 /\ Updates'[k].n = vars1'.n)
    BY <1>0, <1>1, <1>4
  <2>2. \A k \in 1 .. Len(Updates') : Latest <= Updates'[k].n /\ Updates'[k].n <= vars1'.n
    BY <1>1, <1>2, <2>1
  <2>3. \A j, k \in 1 .. Len(Updates') : j < k => Updates'[j].n <= Updates'[k].n
    BY <1>1, <1>2, <1>4, <2>1
  <2> QED
    BY <1>1, <1>2, <2>2, <2>3 DEF UpdatesInv
<1> QED
  BY <1>0, <1>3, <1>4, WriteUpdates

\* The steps that leave the tunnel of T0 and the T0 thread alone.
LEMMA DataStutters ==
    ASSUME Typed, DataInv, Commands' = Commands, Updates' = Updates,
           UNCHANGED <<cpc, cleared, vars1, tvars>>
    PROVE  DataInv'
<1>1. Latest' = Latest /\ Offset' = Offset /\ Waiting' = Waiting
  BY DEF Latest, Offset, Waiting, tvars
<1> QED
  BY <1>1 DEF DataInv, BootInv, CommandsInv, UpdatesInv, tvars

\* If the application waits for CPU1, no step breaks the order of the commands and
\* of their effects.
LEMMA DataNext ==
    ASSUME AppWaits
    PROVE  Typed /\ DataInv /\ [Next]_vars => DataInv'
<1> SUFFICES ASSUME Typed, DataInv, [Next]_vars PROVE DataInv'
  OBVIOUS
<1>T. /\ "T0" \in Targets /\ Commands \in Seq(Packets) /\ Updates \in Seq(Packets)
      /\ Len(Commands) \in Nat /\ Len(Updates) \in Nat
      /\ vars1.n \in Nat /\ packetIdCounter \in Nat \ {0} /\ Latest \in Nat
      /\ delayed \in BOOLEAN
      /\ \A k \in 1 .. Len(Commands) : Commands[k].n \in Nat
      /\ \A k \in 1 .. Len(Updates) : Updates[k].n \in Nat
  <2>1. /\ "T0" \in Targets /\ Commands \in Seq(Packets) /\ Updates \in Seq(Packets)
    BY DEF Typed, Core, QueuesTyped, Commands, Updates, Targets
  <2>2. /\ vars1.n \in Nat /\ packetIdCounter \in Nat \ {0} /\ Latest \in Nat
    BY DEF Typed, Core, ScalarsTyped, Latest
  <2>3. delayed \in BOOLEAN
    BY DEF Typed, FlagsTyped
  <2> QED
    BY <2>1, <2>2, <2>3, IdsTyped
<1>1. CASE VARIANT_Initialize
  <2> USE <1>1 DEF VARIANT_Initialize
  <2>0. /\ cpc = "boot" /\ tpc = "start" /\ tpc' = tpc /\ Latest' = 0 /\ vars1'.n = 0
        /\ UNCHANGED <<packetIdCounter, delayed>>
    BY DEF DataInv, BootInv, Latest, tvars
  <2>1. Commands' = << >> /\ Updates' = << >> /\ cpc' \in {"boot", "wait"}
    <3>1. CASE cleared = {}
      BY <3>1, <1>T DEF Commands, Updates, Typed, Core, QueuesTyped
    <3>2. CASE cleared # {}
      <4>1. Commands' = Commands /\ Updates' = Updates /\ cpc' \in {"boot", "wait"}
        BY <3>2 DEF Commands, Updates, Typed, Core, QueuesTyped, Targets, Slow
      <4>2. Commands = << >> /\ Updates = << >>
        BY <3>2 DEF DataInv, BootInv
      <4> QED
        BY <4>1, <4>2
    <3> QED
      BY <3>1, <3>2
  <2> QED
    BY <2>0, <2>1 DEF DataInv, BootInv, CommandsInv, UpdatesInv
<1>2. CASE ReceiveInitialPacket
  <2> USE <1>2 DEF ReceiveInitialPacket
  <2>1. /\ tpc # "start" /\ Offset = 1 /\ Offset' = 0 /\ cpc' = "run"
        /\ Updates' = Updates /\ Latest' = Latest /\ vars1' = vars1 /\ Waiting' = Waiting
        /\ UNCHANGED <<tpc, packetIdCounter>>
    BY DEF DataInv, BootInv, Commands, Updates, Latest, Waiting, Offset, tvars
  <2>2. Len(Commands) \in Nat \ {0} /\ Commands' = Tail(Commands)
    BY <1>T DEF Commands, Take, Typed, Core, QueuesTyped
  <2>3. /\ Len(Commands') = Len(Commands) - 1
        /\ \A k \in 1 .. Len(Commands') :
              k + 1 \in 1 .. Len(Commands) /\ Commands'[k] = Commands[k + 1]
    BY <1>T, <2>2
  <2>4. CommandsInv'
    <3>1. /\ \A k \in 1 .. Len(Commands) :
                vars1.n <= Commands[k].n /\ Commands[k].n < packetIdCounter
          /\ \A j, k \in 1 .. Len(Commands) : j < k => Commands[j].n <= Commands[k].n
          /\ vars1.n < packetIdCounter
          /\ tpc # "done" =>
                /\ \A k \in 1 .. Len(Commands) :
                      /\ Commands[k].kind = IF k <= 1 THEN "start" ELSE "set"
                      /\ Commands[k].n = vars1.n + k - 1
                /\ vars1.n + Len(Commands) - 1 + Waiting = packetIdCounter - 1
      BY <2>1 DEF DataInv, CommandsInv
    <3>2. /\ \A k \in 1 .. Len(Commands') :
                vars1.n <= Commands'[k].n /\ Commands'[k].n < packetIdCounter
          /\ 0 <= Len(Commands')
      BY <2>2, <2>3, <3>1
    <3>3. ASSUME NEW j \in 1 .. Len(Commands'), NEW k \in 1 .. Len(Commands'), j < k
          PROVE  Commands'[j].n <= Commands'[k].n
      <4>1. /\ j + 1 \in 1 .. Len(Commands) /\ Commands'[j] = Commands[j + 1]
            /\ k + 1 \in 1 .. Len(Commands) /\ Commands'[k] = Commands[k + 1]
            /\ j + 1 < k + 1
        BY <2>3, <3>3
      <4> QED
        BY <3>1, <4>1
    <3>4. ASSUME tpc # "done"
          PROVE  /\ \A k \in 1 .. Len(Commands') :
                       /\ Commands'[k].kind = IF k <= 0 THEN "start" ELSE "set"
                       /\ Commands'[k].n = vars1.n + k - 0
                 /\ vars1.n + Len(Commands') - 0 + Waiting = packetIdCounter - 1
      <4>1. ASSUME NEW k \in 1 .. Len(Commands')
            PROVE  /\ Commands'[k].kind = IF k <= 0 THEN "start" ELSE "set"
                   /\ Commands'[k].n = vars1.n + k - 0
        <5>1. k + 1 \in 1 .. Len(Commands) /\ Commands'[k] = Commands[k + 1]
          BY <2>3
        <5>2. /\ k \in Nat /\ ~ (k + 1 <= 1) /\ ~ (k <= 0)
              /\ vars1.n + (k + 1) - 1 = vars1.n + k - 0
          BY <1>T
        <5>3. /\ Commands[k + 1].kind = IF k + 1 <= 1 THEN "start" ELSE "set"
              /\ Commands[k + 1].n = vars1.n + (k + 1) - 1
          BY <3>1, <3>4, <5>1
        <5> QED
          BY <5>1, <5>2, <5>3
      <4>2. vars1.n + Len(Commands) - 1 + Waiting = packetIdCounter - 1 /\ Waiting \in Nat
        BY <3>1, <3>4 DEF Waiting
      <4>3. vars1.n + Len(Commands') - 0 + Waiting = packetIdCounter - 1
        BY <1>T, <2>2, <2>3, <4>2
      <4> QED
        BY <4>1, <4>3
    <3> QED
      BY <2>1, <3>1, <3>2, <3>3, <3>4 DEF CommandsInv
  <2>5. BootInv' /\ UpdatesInv'
    BY <2>1 DEF DataInv, BootInv, UpdatesInv
  <2> QED
    BY <2>4, <2>5 DEF DataInv
<1>3. CASE SCHEDULER_Stop
  <2>1. /\ Commands' = Commands /\ Updates' = Updates /\ Latest' = Latest /\ Offset' = Offset
        /\ Waiting' = Waiting /\ cpc = "run" /\ cpc' = "stopped"
        /\ UNCHANGED <<vars1, tpc, packetIdCounter>>
    BY <1>3 DEF SCHEDULER_Stop, Commands, Updates, Latest, Offset, Waiting, tvars
  <2> QED
    BY <2>1 DEF DataInv, BootInv, CommandsInv, UpdatesInv
<1>4. CASE TimerT0Interrupt
  <2> USE <1>4 DEF TimerT0Interrupt
  <2>1. CASE f_t0InitDone
    <3>1. HandleT0Packet /\ WriteChan("T0", Data(vars1'))
      BY <2>1 DEF APPLICATION_T0
    <3>2. BootInv' /\ CommandsInv' /\ vars1.n <= vars1'.n
      BY <3>1, HandleData
    <3>3. UpdatesInv'
      <4>1. vars1' \in [id : Ids, n : Nat]
        BY <3>1, HandleTyped
      <4> QED
        BY <3>1, <3>2, <4>1, WriteData DEF DataInv, tvars
    <3> QED
      BY <3>2, <3>3 DEF DataInv
  <2>2. CASE ~f_t0InitDone
    BY <2>2, DataStutters DEF APPLICATION_T0, Commands, Updates
  <2> QED
    BY <2>1, <2>2
<1>5. ASSUME NEW t \in Slow, SlowInterrupt(t) PROVE DataInv'
  <2>1. Commands' = Commands /\ Updates' = Updates
    BY <1>5, <1>T DEF SlowInterrupt, Commands, Updates, Take, WriteChan, Put, Slow, Typed, Core,
                      QueuesTyped
  <2> QED
    BY <1>5, <2>1, DataStutters DEF SlowInterrupt
<1>6. CASE SendStart
  <2> USE <1>6 DEF SendStart
  <2>1. /\ cpc = "wait" /\ cpc' = cpc /\ tpc' = "recv" /\ Commands = << >> /\ Updates' = Updates
        /\ vars1.n = 0 /\ packetIdCounter = 1 /\ Latest' = Latest /\ vars1' = vars1
        /\ UNCHANGED packetIdCounter /\ Waiting' = 0 /\ Offset' = 1
    BY DEF AppStarted, DataInv, BootInv, Commands, Updates, Latest, Waiting, Offset, cvars
  <2>2. Commands' = <<Start>>
    BY <1>T, <2>1 DEF Commands, Put, Typed, Core, QueuesTyped
  <2>3. Start.kind = "start" /\ Start.n = 0
    BY PacketParts, NumberedTyped
  <2>4. Len(Commands') = 1 /\ Commands'[1].kind = "start" /\ Commands'[1].n = 0
    BY <2>2, <2>3
  <2>5. CommandsInv'
    <3>1. \A k \in 1 .. Len(Commands') : k = 1
      BY <2>4
    <3> QED
      BY <2>1, <2>4, <3>1 DEF CommandsInv
  <2>6. BootInv' /\ UpdatesInv'
    BY <2>1 DEF DataInv, BootInv, UpdatesInv
  <2> QED
    BY <2>5, <2>6 DEF DataInv
<1>7. CASE ReceiveT0
  <2> USE <1>7 DEF ReceiveT0
  <2>1. cpc \in {"run", "stopped"}
    BY DEF DataInv, BootInv, Updates, Typed, Core, ScalarsTyped
  <2>2. Len(Updates) \in Nat \ {0} /\ Updates' = Tail(Updates) /\ Commands' = Commands
        /\ buf' = Variables(Updates[1])
    BY <1>T DEF Updates, Commands, Take, Typed, Core, QueuesTyped
  <2>3. /\ Len(Updates') = Len(Updates) - 1
        /\ \A k \in 1 .. Len(Updates') :
              k + 1 \in 1 .. Len(Updates) /\ 1 < k + 1 /\ Updates'[k] = Updates[k + 1]
    BY <1>T, <2>2
  <2>4. 1 \in 1 .. Len(Updates) /\ Latest' = Updates[1].n
    <3>1. 1 \in 1 .. Len(Updates) /\ buf'.n = Updates[1].n
      BY <1>T, <2>2, IdsTyped
    <3> QED
      BY <1>T, <3>1 DEF Latest, Unset
  <2>5. UpdatesInv'
    <3>1. /\ \A k \in 1 .. Len(Updates) : Latest <= Updates[k].n /\ Updates[k].n <= vars1.n
          /\ \A j, k \in 1 .. Len(Updates) : j < k => Updates[j].n <= Updates[k].n
          /\ vars1' = vars1
      BY DEF DataInv, UpdatesInv, cvars
    <3>2. \A k \in 1 .. Len(Updates') : Latest' <= Updates'[k].n /\ Updates'[k].n <= vars1.n
      BY <2>3, <2>4, <3>1
    <3>3. ASSUME NEW j \in 1 .. Len(Updates'), NEW k \in 1 .. Len(Updates'), j < k
          PROVE  Updates'[j].n <= Updates'[k].n
      <4>1. /\ j + 1 \in 1 .. Len(Updates) /\ Updates'[j] = Updates[j + 1]
            /\ k + 1 \in 1 .. Len(Updates) /\ Updates'[k] = Updates[k + 1]
            /\ j + 1 < k + 1
        BY <2>3, <3>3
      <4> QED
        BY <3>1, <4>1
    <3> QED
      BY <2>4, <3>1, <3>2, <3>3 DEF UpdatesInv
  <2>6. tpc' \in {"recv", "send", "csv"}
    BY IterationTyped
  <2>7. BootInv' /\ CommandsInv'
    BY <2>1, <2>2, <2>6 DEF DataInv, BootInv, CommandsInv, Waiting, Offset, cvars
  <2> QED
    BY <2>5, <2>7 DEF DataInv
<1>8. CASE ReceiveT0Interrupted
  <2> USE <1>8 DEF ReceiveT0Interrupted
  <2>1. /\ Commands' = Commands /\ Updates' = Updates /\ Latest' = Latest /\ Offset' = Offset
        /\ Waiting' = Waiting
    BY DEF Updates, Commands, Latest, Offset, Waiting, cvars
  <2>2. tpc' \in {"recv", "send", "csv"}
    BY IterationTyped
  <2> QED
    BY <2>1, <2>2 DEF DataInv, BootInv, CommandsInv, UpdatesInv, cvars
<1>9. CASE SendRandomVariableUpdate
  <2> USE <1>9 DEF SendRandomVariableUpdate
  <2> DEFINE n == IF delayed THEN packetIdCounter - 1 ELSE packetIdCounter
  <2>1. cpc \in {"wait", "run", "stopped"} /\ tpc' \in {"recv", "send", "csv"}
    BY IterationTyped DEF DataInv, BootInv, Typed, Core, ScalarsTyped
  <2>2. /\ packetIdCounter' = n + 1
        /\ down' = IF Full(down, "T0") THEN down ELSE Put(down, "T0", Command(n))
        /\ delayed' = Full(down, "T0")
        /\ Updates' = Updates /\ Latest' = Latest /\ vars1' = vars1 /\ Offset' = Offset
    BY DEF Updates, Latest, Offset, cvars
  <2>3. packetIdCounter <= n + 1 /\ n \in Nat /\ Offset \in 0 .. 1
    BY <1>T DEF Offset
  <2>4. vars1.n + Len(Commands) - Offset + 1 = n
    <3>1. vars1.n + Len(Commands) - Offset + Waiting = packetIdCounter - 1
      BY DEF DataInv, CommandsInv
    <3> QED
      BY <1>T, <2>3, <3>1 DEF Waiting
  <2> HIDE DEF n
  <2>5. /\ \A k \in 1 .. Len(Commands) :
              vars1.n <= Commands[k].n /\ Commands[k].n < packetIdCounter
        /\ \A j, k \in 1 .. Len(Commands) : j < k => Commands[j].n <= Commands[k].n
        /\ vars1.n < packetIdCounter
        /\ Offset <= Len(Commands)
        /\ \A k \in 1 .. Len(Commands) :
              /\ Commands[k].kind = IF k <= Offset THEN "start" ELSE "set"
              /\ Commands[k].n = vars1.n + k - Offset
    BY DEF DataInv, CommandsInv
  <2>6. CommandsInv'
    <3>1. CASE Full(down, "T0")
      <4>1. Commands' = Commands /\ Waiting' = 1
        BY <2>2, <3>1 DEF Commands, Waiting
      <4>2. /\ vars1.n + Len(Commands) - Offset + 1 = (n + 1) - 1
            /\ vars1.n < n + 1
            /\ \A k \in 1 .. Len(Commands) : Commands[k].n < n + 1
        BY <1>T, <2>3, <2>4, <2>5
      <4> QED
        BY <2>1, <2>2, <2>5, <4>1, <4>2 DEF CommandsInv
    <3>2. CASE ~Full(down, "T0")
      <4>1. Commands' = Append(Commands, Command(n)) /\ Waiting' = 0
        BY <1>T, <2>2, <3>2 DEF Commands, Put, Typed, Core, QueuesTyped, Waiting
      <4>2. Command(n).kind = "set" /\ Command(n).n = n
        BY <2>3, PacketParts, NumberedTyped
      <4>3. /\ Len(Commands') = Len(Commands) + 1
            /\ \A k \in 1 .. Len(Commands') :
                  \/ k \in 1 .. Len(Commands) /\ Commands'[k] = Commands[k]
                  \/ k = Len(Commands) + 1 /\ Commands'[k].kind = "set" /\ Commands'[k].n = n
        BY <1>T, <4>1, <4>2
      <4>4. ASSUME NEW k \in 1 .. Len(Commands')
            PROVE  /\ Commands'[k].kind = IF k <= Offset THEN "start" ELSE "set"
                   /\ Commands'[k].n = vars1.n + k - Offset
                   /\ vars1.n <= Commands'[k].n /\ Commands'[k].n < n + 1
        <5>1. CASE k \in 1 .. Len(Commands) /\ Commands'[k] = Commands[k]
          BY <1>T, <2>3, <2>5, <5>1
        <5>2. CASE k = Len(Commands) + 1 /\ Commands'[k].kind = "set" /\ Commands'[k].n = n
          <6>1. ~ (k <= Offset) /\ vars1.n + k - Offset = n /\ vars1.n <= n
            <7>1. Offset <= Len(Commands)
              BY <2>5
            <7> QED
              BY <1>T, <2>3, <2>4, <5>2, <7>1
          <6>2. n < n + 1
            BY <2>3
          <6> QED
            BY <5>2, <6>1, <6>2
        <5> QED
          BY <4>3, <5>1, <5>2
      <4>5. ASSUME NEW j \in 1 .. Len(Commands'), NEW k \in 1 .. Len(Commands'), j < k
            PROVE  Commands'[j].n <= Commands'[k].n
        <5>1. Commands'[j].n = vars1.n + j - Offset /\ Commands'[k].n = vars1.n + k - Offset
          BY <4>4
        <5> QED
          BY <1>T, <2>3, <4>3, <4>5, <5>1
      <4>6. /\ vars1.n + Len(Commands') - Offset + 0 = (n + 1) - 1
            /\ vars1.n < n + 1 /\ Offset <= Len(Commands')
        BY <1>T, <2>3, <2>4, <2>5, <4>3
      <4> QED
        BY <2>1, <2>2, <4>1, <4>4, <4>5, <4>6 DEF CommandsInv
    <3> QED
      BY <3>1, <3>2
  <2>7. BootInv' /\ UpdatesInv'
    BY <2>1, <2>2 DEF DataInv, BootInv, UpdatesInv, cvars
  <2> QED
    BY <2>6, <2>7 DEF DataInv
<1>10. CASE SendShutdownCommand
  <2> USE <1>10 DEF SendShutdownCommand
  <2>1. /\ cpc \in {"wait", "run", "stopped"} /\ cpc' = cpc /\ Updates' = Updates
        /\ Latest' = Latest /\ Offset' = Offset /\ Offset \in 0 .. 1
        /\ vars1' = vars1 /\ packetIdCounter' = packetIdCounter + 1 /\ tpc' = "done"
    BY DEF DataInv, BootInv, Typed, Core, ScalarsTyped, Updates, Latest, Offset, cvars
  <2>2. Commands' = Append(Commands, Shutdown(packetIdCounter))
    BY <1>T DEF Commands, Put, Typed, Core, QueuesTyped
  <2>3. /\ Len(Commands') = Len(Commands) + 1
        /\ \A k \in 1 .. Len(Commands') :
              \/ k \in 1 .. Len(Commands) /\ Commands'[k] = Commands[k]
              \/ k = Len(Commands) + 1 /\ Commands'[k].n = packetIdCounter
    <3>1. Shutdown(packetIdCounter).n = packetIdCounter
      BY <1>T, PacketParts, NumberedTyped
    <3> QED
      BY <1>T, <2>2, <3>1
  <2>4. /\ \A k \in 1 .. Len(Commands) :
               vars1.n <= Commands[k].n /\ Commands[k].n < packetIdCounter
        /\ \A j, k \in 1 .. Len(Commands) : j < k => Commands[j].n <= Commands[k].n
        /\ vars1.n < packetIdCounter
        /\ Offset <= Len(Commands)
    BY DEF DataInv, CommandsInv
  <2>5. CommandsInv'
    <3>1. \A k \in 1 .. Len(Commands') :
             vars1.n <= Commands'[k].n /\ Commands'[k].n < packetIdCounter + 1
      <4> TAKE k \in 1 .. Len(Commands')
      <4>1. CASE k \in 1 .. Len(Commands) /\ Commands'[k] = Commands[k]
        BY <1>T, <2>4, <4>1
      <4>2. CASE k = Len(Commands) + 1 /\ Commands'[k].n = packetIdCounter
        BY <1>T, <2>4, <4>2
      <4> QED
        BY <2>3, <4>1, <4>2
    <3>2. ASSUME NEW j \in 1 .. Len(Commands'), NEW k \in 1 .. Len(Commands'), j < k
          PROVE  Commands'[j].n <= Commands'[k].n
      <4>1. j \in 1 .. Len(Commands) /\ Commands'[j] = Commands[j]
        BY <1>T, <2>3, <3>2
      <4>2. CASE k \in 1 .. Len(Commands) /\ Commands'[k] = Commands[k]
        BY <2>4, <3>2, <4>1, <4>2
      <4>3. CASE k = Len(Commands) + 1 /\ Commands'[k].n = packetIdCounter
        BY <1>T, <2>4, <4>1, <4>3
      <4> QED
        BY <2>3, <4>2, <4>3
    <3>3. vars1.n < packetIdCounter + 1 /\ Offset <= Len(Commands')
      BY <1>T, <2>1, <2>3, <2>4
    <3> QED
      BY <2>1, <3>1, <3>2, <3>3 DEF CommandsInv
  <2> QED
    BY <2>1, <2>5 DEF DataInv, BootInv, UpdatesInv
<1>11. CASE TestLoop \/ Select \/ Join \/ SelectInterrupted \/ UNCHANGED vars
  BY <1>11, DataStutters DEF TestLoop, Select, Join, SelectInterrupted, vars, cvars, Commands, Updates
<1>12. CASE ReadReady
  <2>1. Updates' = Updates /\ Commands' = Commands
    BY <1>12, <1>T DEF ReadReady, Updates, Commands, Typed, Core, ScalarsTyped, Slow
  <2> QED
    BY <1>12, <2>1, DataStutters DEF ReadReady, cvars
<1>13. CASE Reply
  <2>1. Updates' = Updates /\ Commands' = Commands
    BY <1>13, <1>T DEF Reply, Put, Updates, Commands, Typed, Core, QueuesTyped
  <2> QED
    BY <1>13, <2>1, DataStutters DEF Reply, cvars
<1> QED
  BY <1>1, <1>2, <1>3, <1>4, <1>5, <1>6, <1>7, <1>8, <1>9, <1>10, <1>11, <1>12, <1>13
     DEF Next, Cpu1, T0Thread, Test

-----------------------------------------------------------------------------
\* Two numbers less than IdLimit apart that have the same identifier agree.
LEMMA SameId ==
    ASSUME NEW w \in Nat \ {0}, NEW a \in Nat, NEW b \in Nat, a <= b, b < a + w,
           a % w = b % w
    PROVE  a = b
<1> DEFINE qa == a \div w  qb == b \div w  r == a % w
<1>1. /\ qa \in Int /\ qb \in Int /\ r \in 0 .. w - 1
      /\ a - r = w * qa /\ b - r = w * qb
  <2>1. a \div w \in Int /\ b \div w \in Int
    OBVIOUS
  <2>2. a % w \in 0 .. w - 1
    OBVIOUS
  <2>3. a - (a % w) = w * (a \div w)
    OBVIOUS
  <2>4. b - (b % w) = w * (b \div w)
    OBVIOUS
  <2> QED
    BY <2>1, <2>2, <2>3, <2>4
<1> HIDE DEF qa, qb, r
<1>2. w * qa \in Int /\ w * qb \in Int
  BY <1>1
<1>3. CASE qb < qa
  <2>1. w * qb + w <= w * qa
    BY <1>1, <1>3
  <2> QED
    BY <1>1, <1>2, <2>1
<1>4. CASE qa < qb
  <2>1. w * qa + w <= w * qb
    BY <1>1, <1>4
  <2> QED
    BY <1>1, <1>2, <2>1
<1>5. CASE qa = qb
  BY <1>1, <1>5
<1> QED
  BY <1>1, <1>3, <1>4, <1>5

\* The types this part needs.
LEMMA EffectTypes ==
    ASSUME Typed
    PROVE  /\ "T0" \in Targets /\ Cap["T0"] \in Nat \ {0} /\ IdLimit \in Nat \ {0}
           /\ Commands \in Seq(Packets) /\ Updates \in Seq(Packets)
           /\ Len(Commands) \in Nat /\ Len(Updates) \in Nat
           /\ Len(Commands) <= Cap["T0"] /\ Len(Updates) <= Cap["T0"]
           /\ vars1.n \in Nat /\ packetIdCounter \in Nat \ {0} /\ Latest \in Nat
           /\ Waiting \in 0 .. 1 /\ Making \in 0 .. 1
           /\ \A k \in 1 .. Len(Commands) : Commands[k].n \in Nat
           /\ \A k \in 1 .. Len(Updates) : Updates[k].n \in Nat
           /\ Newest \in Nat
<1>1. /\ "T0" \in Targets /\ Cap["T0"] \in Nat \ {0} /\ IdLimit \in Nat \ {0}
      /\ Commands \in Seq(Packets) /\ Updates \in Seq(Packets)
      /\ Len(Commands) <= Cap["T0"] /\ Len(Updates) <= Cap["T0"]
  BY SessionAssumption DEF Typed, Core, QueuesTyped, Commands, Updates, Targets
<1>2. /\ vars1.n \in Nat /\ packetIdCounter \in Nat \ {0} /\ Latest \in Nat
  BY DEF Typed, Core, ScalarsTyped, Latest
<1>3. Waiting \in 0 .. 1 /\ Making \in 0 .. 1
  BY DEF Waiting, Making
<1>4. /\ \A k \in 1 .. Len(Commands) : Commands[k].n \in Nat
      /\ \A k \in 1 .. Len(Updates) : Updates[k].n \in Nat
  BY <1>1, IdsTyped
<1>5. Newest \in Nat
  <2>1. CASE Updates = << >>
    BY <1>2, <2>1 DEF Newest
  <2>2. CASE Updates # << >>
    <3>1. Len(Updates) \in 1 .. Len(Updates)
      BY <1>1, <2>2
    <3> QED
      BY <1>4, <2>2, <3>1 DEF Newest
  <2> QED
    BY <2>1, <2>2
<1> QED
  BY <1>1, <1>2, <1>3, <1>4, <1>5

\* The steps that leave the tunnel of T0 and the T0 thread alone.
LEMMA EffectStutters ==
    ASSUME EffectInv, Commands' = Commands, Updates' = Updates, UNCHANGED <<vars1, tvars>>
    PROVE  EffectInv'
<1>1. Latest' = Latest /\ Newest' = Newest /\ Making' = Making
  BY DEF Latest, Newest, Making, tvars
<1> QED
  BY <1>1 DEF EffectInv, GapInv, IdsInv, SeenInv, tvars

\* The effects at the beginning: the rings may hold packets of an earlier run.
LEMMA InitEffect == Init => EffectInv
<1> SUFFICES ASSUME Init PROVE EffectInv
  OBVIOUS
<1>1. PICK d \in {<< >>, <<Data(Numbered(0))>>} : down = [t \in Targets |-> d]
  BY DEF Init
<1>2. PICK u \in {<< >>, <<Data(Numbered(0))>>} : up = [t \in Targets |-> u]
  BY DEF Init
<1>3. Data(Numbered(0)).n = 0 /\ Data(Numbered(0)).id = 0 % IdLimit
  BY NumberedTyped, PacketParts
<1>4. /\ Len(d) \in 0 .. 1 /\ \A k \in 1 .. Len(d) : d[k].n = 0 /\ d[k].id = 0 % IdLimit
      /\ Len(u) \in 0 .. 1 /\ \A k \in 1 .. Len(u) : u[k].n = 0 /\ u[k].id = 0 % IdLimit
      /\ u # << >> => Len(u) = 1
  BY <1>3, LeftTyped
<1>5. Commands = d /\ Updates = u
  BY <1>1, <1>2 DEF Commands, Updates, Targets
<1>6. /\ vars1.n = 0 /\ vars1.id = 0 % IdLimit /\ Latest = 0 /\ buf.n = Unset /\ seen = 0
      /\ handledPacketId = 0 /\ packetIdCounter = 1 /\ tpc = "start"
  BY NumberedTyped DEF Init, Latest
<1>7. Newest = 0 /\ Making = 0
  BY <1>4, <1>5, <1>6 DEF Newest, Making
<1>8. 0 % IdLimit = 0 /\ Cap["T0"] \in Nat
  BY SessionAssumption DEF Targets
<1>9. GapInv
  BY <1>4, <1>5, <1>6, <1>7, <1>8 DEF GapInv
<1> QED
  BY <1>4, <1>5, <1>6, <1>8, <1>9 DEF EffectInv, IdsInv, SeenInv

\* One run of T0: the data packet it writes, if there is room, is at most so
\* much newer than the one before it.
LEMMA TimerGap ==
    ASSUME Typed, DataInv, CommandsInv', EffectInv, cpc = "run", HandleT0Packet,
           WriteChan("T0", Data(vars1')), UNCHANGED <<cpc, tvars>>
    PROVE  GapInv'
<1> SUFFICES ASSUME tpc \in {"recv", "send"} PROVE GapInv'
  BY DEF GapInv, DataInv, BootInv, tvars
<1> DEFINE C == Cap["T0"]
<1>T. /\ C \in Nat \ {0} /\ Len(Commands) \in Nat /\ Len(Updates) \in Nat
      /\ Len(Commands) <= C /\ Len(Updates) <= C
      /\ vars1.n \in Nat /\ packetIdCounter \in Nat \ {0} /\ Latest \in Nat
      /\ Waiting \in 0 .. 1 /\ Making \in 0 .. 1 /\ Newest \in Nat
      /\ \A k \in 1 .. Len(Updates) : Updates[k].n \in Nat
      /\ Updates \in Seq(Packets)
  BY EffectTypes
<1>U. /\ Latest' = Latest /\ Waiting' = Waiting /\ Making' = Making /\ Offset' = 0
      /\ tpc' = tpc /\ packetIdCounter' = packetIdCounter
  BY DEF Latest, Waiting, Making, Offset, tvars
<1>1. /\ vars1.n <= vars1'.n /\ vars1'.n \in Nat /\ vars1'.n <= vars1.n + 1
      /\ Len(Commands') <= Len(Commands) - 1 \/ Len(Commands') = 0
  BY HandleData
<1>2. vars1'.n < packetIdCounter
  BY <1>U DEF CommandsInv
<1>3. /\ C = Len(Updates) => packetIdCounter - 1 + Making <= Newest + C + 1
      /\ vars1.n <= Newest + C + 1
      /\ Updates # << >> => Updates[1].n <= Latest + C + 2
      /\ \A k \in 1 .. Len(Updates) - 1 : Updates[k + 1].n <= Updates[k].n + C + 2
  BY DEF EffectInv, GapInv
<1>4. vars1' \in [id : Ids, n : Nat]
  BY HandleTyped
<1>5. Data(vars1') \in Packets /\ Data(vars1').n = vars1'.n
  BY <1>4, PacketsTyped, PacketParts
<1> HIDE DEF C
<1>6. CASE Len(Updates) = C /\ Updates' = Updates
  <2>1. Newest' = Newest
    BY <1>U, <1>6 DEF Newest
  <2>2. vars1'.n <= Newest + C + 1
    BY <1>T, <1>1, <1>2, <1>3, <1>6
  <2> QED
    BY <1>U, <1>3, <1>6, <2>1, <2>2 DEF GapInv, C
<1>7. CASE /\ Len(Updates') = Len(Updates) + 1
           /\ \A k \in 1 .. Len(Updates) : Updates'[k] = Updates[k]
           /\ Updates'[Len(Updates) + 1] = Data(vars1')
  <2>1. Updates' # << >> /\ Updates'[Len(Updates')].n = vars1'.n
    BY <1>T, <1>5, <1>7
  <2>2. Newest' = vars1'.n
    BY <2>1 DEF Newest
  <2>3. packetIdCounter - 1 + Making <= vars1'.n + C + 1
    <3>1. vars1'.n + Len(Commands') - 0 + Waiting = packetIdCounter - 1
      BY <1>U DEF CommandsInv
    <3>2. Len(Commands') <= C - 1 /\ Len(Commands') \in Int
      <4>1. Len(Commands') \in Int
        BY <1>T, <1>1, <1>2, HandleTyped, IdsTyped DEF Commands, Targets
      <4> QED
        BY <1>T, <1>1, <4>1
    <3> QED
      BY <1>T, <1>1, <3>1, <3>2
  <2>4. vars1'.n <= vars1'.n + C + 1 /\ vars1'.n <= Newest + C + 2
    BY <1>T, <1>1, <1>3
  <2>5. CASE Updates = << >>
    <3>1. Len(Updates) = 0 /\ Newest = Latest
      BY <2>5 DEF Newest
    <3>2. Updates'[1].n = vars1'.n /\ Len(Updates') = 1
      BY <1>5, <1>7, <3>1
    <3>3. Updates'[1].n <= Latest + C + 2
      BY <2>4, <3>1, <3>2
    <3>4. 1 .. Len(Updates') - 1 = {}
      BY <3>2
    <3> QED
      BY <1>U, <2>2, <2>3, <2>4, <3>3, <3>4 DEF GapInv, C
  <2>6. CASE Updates # << >>
    <3>1. Len(Updates) \in Nat \ {0} /\ Newest = Updates[Len(Updates)].n
      BY <1>T, <2>6 DEF Newest
    <3>2. Updates'[1] = Updates[1]
      BY <1>7, <3>1
    <3>3. ASSUME NEW k \in 1 .. Len(Updates') - 1
          PROVE  Updates'[k + 1].n <= Updates'[k].n + C + 2
      <4>1. CASE k \in 1 .. Len(Updates) - 1
        <5>1. Updates'[k + 1] = Updates[k + 1] /\ Updates'[k] = Updates[k]
          BY <1>T, <1>7, <4>1
        <5> QED
          BY <1>3, <4>1, <5>1
      <4>2. CASE k = Len(Updates)
        <5>1. Updates'[k + 1].n = vars1'.n /\ Updates'[k] = Updates[Len(Updates)]
          BY <1>5, <1>7, <3>1, <4>2
        <5> QED
          BY <2>4, <3>1, <5>1
      <4> QED
        BY <1>T, <1>7, <4>1, <4>2
    <3> QED
      BY <1>U, <1>3, <2>2, <2>3, <2>4, <2>6, <3>2, <3>3 DEF GapInv, C
  <2> QED
    BY <2>5, <2>6
<1> QED
  BY <1>5, <1>6, <1>7, WriteUpdates DEF C

\* A packet is received: the packet after it becomes the next one.
LEMMA ReceiveEffect ==
    ASSUME Typed, DataInv, EffectInv, Cap["T0"] + 2 < IdLimit, ReceiveT0
    PROVE  EffectInv'
<1> USE DEF ReceiveT0
<1> DEFINE C == Cap["T0"]
<1>T. /\ C \in Nat \ {0} /\ IdLimit \in Nat \ {0} /\ Len(Updates) \in Nat /\ Len(Updates) <= C
      /\ vars1.n \in Nat /\ Latest \in Nat /\ Newest \in Nat
      /\ \A k \in 1 .. Len(Updates) : Updates[k].n \in Nat
      /\ "T0" \in Targets /\ Updates \in Seq(Packets)
  BY EffectTypes
<1>1. Len(Updates) \in Nat \ {0} /\ Updates' = Tail(Updates) /\ Commands' = Commands
      /\ buf' = Variables(Updates[1]) /\ vars1' = vars1 /\ packetIdCounter' = packetIdCounter
  BY <1>T DEF Updates, Commands, Take, Typed, Core, QueuesTyped, cvars
<1>2. /\ Len(Updates') = Len(Updates) - 1
      /\ \A k \in 1 .. Len(Updates') : k + 1 \in 1 .. Len(Updates) /\ Updates'[k] = Updates[k + 1]
      /\ 1 \in 1 .. Len(Updates)
  BY <1>T, <1>1
<1>3. /\ buf'.n = Updates[1].n /\ buf'.id = Updates[1].id /\ Updates[1].n \in Nat
      /\ buf'.n # Unset /\ Latest' = Updates[1].n
  <2>1. buf'.n = Updates[1].n /\ buf'.id = Updates[1].id /\ Updates[1].n \in Nat
    BY <1>T, <1>1, <1>2, IdsTyped
  <2> QED
    BY <2>1 DEF Latest, Unset
<1>4. /\ vars1.n <= Newest + C + 1
      /\ Updates[1].n <= Latest + C + 2
      /\ \A k \in 1 .. Len(Updates) - 1 : Updates[k + 1].n <= Updates[k].n + C + 2
  BY <1>T, <1>1 DEF EffectInv, GapInv
<1>5. GapInv'
  <2>0. Updates' \in Seq(Packets) /\ Updates # << >>
    BY <1>T, <1>1
  <2>1. Newest' = Newest
    <3>1. CASE Len(Updates) = 1
      <4>1. Updates' = << >> /\ Updates # << >>
        BY <1>2, <3>1, <2>0
      <4> QED
        BY <1>3, <3>1, <4>1 DEF Newest
    <3>2. CASE Len(Updates) # 1
      <4>1. /\ Len(Updates') \in 1 .. Len(Updates') /\ Updates' # << >> /\ Updates # << >>
            /\ Len(Updates') + 1 = Len(Updates)
        <5>1. Len(Updates') \in Nat \ {0} /\ Len(Updates') + 1 = Len(Updates)
          BY <1>1, <1>2, <3>2
        <5> QED
          BY <2>0, <5>1
      <4>2. Updates'[Len(Updates')] = Updates[Len(Updates)]
        BY <1>2, <4>1
      <4> QED
        BY <4>1, <4>2 DEF Newest
    <3> QED
      BY <3>1, <3>2
  <2>2. Len(Updates') # C
    BY <1>T, <1>2
  <2>3. Updates' # << >> => Updates'[1].n <= Latest' + C + 2
    <3> SUFFICES ASSUME Updates' # << >> PROVE Updates'[1].n <= Latest' + C + 2
      OBVIOUS
    <3>1. 1 \in 1 .. Len(Updates') /\ 1 \in 1 .. Len(Updates) - 1
      BY <1>T, <1>1, <1>2
    <3>2. Updates'[1] = Updates[1 + 1] /\ Updates[1 + 1].n <= Updates[1].n + C + 2
      BY <1>2, <1>4, <3>1
    <3> QED
      BY <1>3, <3>2
  <2>4. ASSUME NEW k \in 1 .. Len(Updates') - 1
        PROVE  Updates'[k + 1].n <= Updates'[k].n + C + 2
    <3>1. /\ k \in 1 .. Len(Updates') /\ k + 1 \in 1 .. Len(Updates')
          /\ k + 1 \in 1 .. Len(Updates) - 1
      BY <1>T, <1>2
    <3>2. Updates'[k] = Updates[k + 1] /\ Updates'[k + 1] = Updates[(k + 1) + 1]
      BY <1>2, <3>1
    <3> QED
      BY <1>4, <3>1, <3>2
  <2> QED
    BY <1>1, <1>4, <2>1, <2>2, <2>3, <2>4 DEF GapInv
<1>6. IdsInv'
  <2>1. \A k \in 1 .. Len(Updates) : Updates[k].id = Updates[k].n % IdLimit
    BY DEF EffectInv, IdsInv
  <2>2. \A k \in 1 .. Len(Updates') : Updates'[k].id = Updates'[k].n % IdLimit
    BY <1>2, <2>1
  <2> QED
    BY <1>1, <1>2, <1>3, <2>1, <2>2 DEF EffectInv, IdsInv
<1>7. SeenInv'
  <2>1. Latest <= Updates[1].n
    BY <1>2 DEF DataInv, UpdatesInv
  <2>2. buf'.id = buf'.n % IdLimit
    BY <1>2, <1>3 DEF EffectInv, IdsInv
  <2>3. CASE buf'.id # handledPacketId
    BY <1>3, <2>2, <2>3 DEF HandleNewVariableData, SeenInv
  <2>4. CASE buf'.id = handledPacketId
    <3>1. handledPacketId' = handledPacketId /\ seen' = seen
      BY <2>4 DEF HandleNewVariableData
    <3>2. ASSUME seen # Unset PROVE seen = Latest' /\ handledPacketId = seen % IdLimit
      <4>1. seen = Latest /\ handledPacketId = Latest % IdLimit
        BY <3>2 DEF EffectInv, SeenInv
      <4>2. Latest % IdLimit = Updates[1].n % IdLimit
        BY <1>3, <2>2, <2>4, <4>1
      <4>3. Updates[1].n < Latest + IdLimit
        BY <1>T, <1>3, <1>4
      <4>4. Latest = Updates[1].n
        BY <1>T, <1>3, <2>1, <4>2, <4>3, SameId
      <4> QED
        BY <1>3, <4>1, <4>4
    <3> QED
      BY <3>1, <3>2 DEF SeenInv
  <2> QED
    BY <2>3, <2>4
<1> QED
  BY <1>5, <1>6, <1>7 DEF EffectInv

\* A read is interrupted: the packet before it is handled once more.
LEMMA InterruptedEffect ==
    ASSUME Typed, EffectInv, ReceiveT0Interrupted
    PROVE  EffectInv'
<1> USE DEF ReceiveT0Interrupted
<1>T. Cap["T0"] \in Nat \ {0}
  BY EffectTypes
<1>1. /\ Commands' = Commands /\ Updates' = Updates /\ Latest' = Latest /\ Newest' = Newest
      /\ Updates = << >> /\ UNCHANGED <<vars1, packetIdCounter, buf>>
  BY DEF Commands, Updates, Latest, Newest, cvars
<1>2. Len(Updates) = 0 /\ Len(Updates) # Cap["T0"]
  BY <1>T, <1>1
<1>3. GapInv'
  BY <1>1, <1>2 DEF EffectInv, GapInv
<1>4. IdsInv'
  BY <1>1 DEF EffectInv, IdsInv
<1>5. SeenInv'
  <2>1. CASE buf.id # handledPacketId
    <3>1. handledPacketId' = buf.id /\ seen' = buf.n
      BY <2>1 DEF HandleNewVariableData
    <3>2. buf.n # Unset => buf.n = Latest /\ buf.id = buf.n % IdLimit
      BY DEF EffectInv, IdsInv, Latest
    <3> QED
      BY <1>1, <3>1, <3>2 DEF SeenInv
  <2>2. CASE buf.id = handledPacketId
    BY <1>1, <2>2 DEF HandleNewVariableData, EffectInv, SeenInv
  <2> QED
    BY <2>1, <2>2
<1> QED
  BY <1>3, <1>4, <1>5 DEF EffectInv

\* A packet is put into the ring of the commands, by the T0 thread.
LEMMA PutEffect ==
    ASSUME Typed, IdsInv, NEW p \in Packets, p.id = p.n % IdLimit,
           Commands' = Append(Commands, p), Updates' = Updates, UNCHANGED <<vars1, buf>>
    PROVE  IdsInv'
<1>T. Commands \in Seq(Packets) /\ Len(Commands) \in Nat
  BY EffectTypes
<1>1. \A k \in 1 .. Len(Commands') : Commands'[k].id = Commands'[k].n % IdLimit
  <2> TAKE k \in 1 .. Len(Commands')
  <2>1. (k \in 1 .. Len(Commands) /\ Commands'[k] = Commands[k]) \/ Commands'[k] = p
    BY <1>T
  <2> QED
    BY <2>1 DEF IdsInv
<1> QED
  BY <1>1 DEF IdsInv

\* If the 16 bits can tell as many commands apart as the two rings and the two
\* commands in hand can hold, no step makes the application miss an effect.
LEMMA EffectNext ==
    ASSUME AppWaits, Cap["T0"] + 2 < IdLimit
    PROVE  Typed /\ DataInv /\ EffectInv /\ [Next]_vars => EffectInv'
<1> SUFFICES ASSUME Typed, DataInv, EffectInv, [Next]_vars PROVE EffectInv'
  OBVIOUS
<1>T. /\ "T0" \in Targets /\ Cap["T0"] \in Nat \ {0} /\ IdLimit \in Nat \ {0}
      /\ Commands \in Seq(Packets) /\ Updates \in Seq(Packets)
      /\ Len(Commands) \in Nat /\ Len(Updates) \in Nat
      /\ vars1.n \in Nat /\ packetIdCounter \in Nat \ {0} /\ Latest \in Nat /\ Newest \in Nat
  BY EffectTypes
<1>D. DataInv'
  BY DataNext
<1>S. /\ GapInv /\ IdsInv /\ SeenInv
  BY DEF EffectInv
<1>1. CASE VARIANT_Initialize
  <2> USE <1>1 DEF VARIANT_Initialize
  <2>1. /\ tpc = "start" /\ cpc = "boot" /\ cleared' # {} /\ cpc' \in {"boot", "wait"}
        /\ UNCHANGED <<vars1, tvars>>
    BY DEF DataInv, BootInv
  <2>2. Commands' = << >> /\ Updates' = << >> /\ Latest' = 0 /\ vars1'.n = 0 /\ tpc' = "start"
    BY <1>D, <2>1 DEF DataInv, BootInv, tvars
  <2>3. Newest' = 0 /\ Len(Updates') = 0 /\ Len(Commands') = 0
    BY <2>2 DEF Newest
  <2>4. GapInv'
    BY <1>T, <2>2, <2>3 DEF GapInv
  <2>5. IdsInv' /\ SeenInv'
    BY <1>S, <2>1, <2>3 DEF IdsInv, SeenInv, tvars, Latest
  <2> QED
    BY <2>4, <2>5 DEF EffectInv
<1>2. CASE ReceiveInitialPacket
  <2> USE <1>2 DEF ReceiveInitialPacket
  <2>1. /\ Updates' = Updates /\ Latest' = Latest /\ Newest' = Newest /\ Making' = Making
        /\ UNCHANGED <<vars1, tvars>>
    BY DEF Updates, Latest, Newest, Making, tvars
  <2>2. Commands' = Tail(Commands) /\ Commands # << >>
    BY <1>T DEF Commands, Take, Typed, Core, QueuesTyped
  <2>3. \A k \in 1 .. Len(Commands') : k + 1 \in 1 .. Len(Commands) /\ Commands'[k] = Commands[k + 1]
    BY <1>T, <2>2
  <2>4. \A k \in 1 .. Len(Commands') : Commands'[k].id = Commands'[k].n % IdLimit
    BY <1>S, <2>3 DEF IdsInv
  <2> QED
    BY <1>S, <2>1, <2>4 DEF EffectInv, GapInv, IdsInv, SeenInv, tvars
<1>3. CASE SCHEDULER_Stop
  BY <1>3, EffectStutters DEF SCHEDULER_Stop, Commands, Updates
<1>4. CASE TimerT0Interrupt
  <2> USE <1>4 DEF TimerT0Interrupt
  <2>1. CASE f_t0InitDone
    <3>1. HandleT0Packet /\ WriteChan("T0", Data(vars1'))
      BY <2>1 DEF APPLICATION_T0
    <3>2. GapInv'
      BY <1>D, <3>1, TimerGap DEF DataInv
    <3>3. vars1'.id = vars1'.n % IdLimit
          /\ \A k \in 1 .. Len(Commands') : Commands'[k].id = Commands'[k].n % IdLimit
      <4>1. CASE Commands = << >>
        BY <1>S, <3>1, <4>1 DEF HandleT0Packet, Commands, IdsInv
      <4>2. CASE Commands # << >>
        <5>1. Commands' = Tail(Commands) /\ vars1' = Variables(Commands[1])
          BY <1>T, <3>1, <4>2 DEF HandleT0Packet, Take, Commands, Typed, Core, QueuesTyped
        <5>2. 1 \in 1 .. Len(Commands)
              /\ \A k \in 1 .. Len(Commands') :
                    k + 1 \in 1 .. Len(Commands) /\ Commands'[k] = Commands[k + 1]
          BY <1>T, <4>2, <5>1
        <5>3. vars1'.id = Commands[1].id /\ vars1'.n = Commands[1].n
          BY <1>T, <5>1, <5>2, IdsTyped
        <5> QED
          BY <1>S, <5>2, <5>3 DEF IdsInv
      <4> QED
        BY <4>1, <4>2
    <3>4. Data(vars1') \in Packets /\ Data(vars1').n = vars1'.n /\ Data(vars1').id = vars1'.id
      BY <3>1, HandleTyped, PacketsTyped, PacketParts
    <3>5. \A k \in 1 .. Len(Updates') : Updates'[k].id = Updates'[k].n % IdLimit
      <4>1. CASE Updates' = Updates
        BY <1>S, <4>1 DEF IdsInv
      <4>2. CASE /\ Len(Updates') = Len(Updates) + 1
                 /\ \A k \in 1 .. Len(Updates) : Updates'[k] = Updates[k]
                 /\ Updates'[Len(Updates) + 1] = Data(vars1')
        <5> TAKE k \in 1 .. Len(Updates')
        <5>1. (k \in 1 .. Len(Updates) /\ Updates'[k] = Updates[k]) \/ Updates'[k] = Data(vars1')
          BY <1>T, <4>2
        <5> QED
          BY <1>S, <3>3, <3>4, <5>1 DEF IdsInv
      <4> QED
        BY <3>1, <3>4, <4>1, <4>2, WriteUpdates
    <3>6. IdsInv' /\ SeenInv'
      BY <1>S, <3>3, <3>5 DEF IdsInv, SeenInv, tvars, Latest
    <3> QED
      BY <3>2, <3>6 DEF EffectInv
  <2>2. CASE ~f_t0InitDone
    BY <2>2, EffectStutters DEF APPLICATION_T0, Commands, Updates
  <2> QED
    BY <2>1, <2>2
<1>5. ASSUME NEW t \in Slow, SlowInterrupt(t) PROVE EffectInv'
  <2>1. Commands' = Commands /\ Updates' = Updates
    BY <1>5, <1>T DEF SlowInterrupt, Commands, Updates, Take, WriteChan, Put, Slow, Typed, Core,
                      QueuesTyped
  <2> QED
    BY <1>5, <2>1, EffectStutters DEF SlowInterrupt
<1>6. CASE SendStart
  <2> USE <1>6 DEF SendStart
  <2>1. /\ Commands' = Append(Commands, Start) /\ Updates' = Updates /\ Latest' = Latest
        /\ Newest' = Newest /\ Making' = Making /\ UNCHANGED <<vars1, buf, packetIdCounter>>
        /\ tpc = "start"
    BY <1>T DEF Commands, Updates, Put, Typed, Core, QueuesTyped, Latest, Newest, Making, cvars
  <2>2. Start \in Packets /\ Start.id = Start.n % IdLimit
    BY PacketsTyped, PacketParts, NumberedTyped
  <2>3. IdsInv'
    BY <1>S, <2>1, <2>2, PutEffect
  <2>4. GapInv' /\ SeenInv'
    BY <1>S, <2>1 DEF GapInv, SeenInv
  <2> QED
    BY <2>3, <2>4 DEF EffectInv
<1>7. CASE ReceiveT0
  BY <1>7, ReceiveEffect
<1>8. CASE ReceiveT0Interrupted
  BY <1>8, InterruptedEffect
<1>9. CASE SendRandomVariableUpdate
  <2> USE <1>9 DEF SendRandomVariableUpdate
  <2> DEFINE n == IF delayed THEN packetIdCounter - 1 ELSE packetIdCounter
  <2>1. /\ packetIdCounter' = n + 1
        /\ down' = IF Full(down, "T0") THEN down ELSE Put(down, "T0", Command(n))
        /\ Updates' = Updates /\ Latest' = Latest /\ Newest' = Newest /\ tpc = "send"
        /\ UNCHANGED <<vars1, buf, seen, handledPacketId>>
    BY DEF Updates, Latest, Newest, cvars
  <2>2. n \in Nat /\ n <= packetIdCounter
    BY <1>T
  <2>3. tpc' \in {"recv", "send", "csv"} /\ (tpc' # "send" => Making' = 0)
    BY IterationTyped DEF Making
  <2>4. tpc' # "send"
    BY DEF NextIteration
  <2> HIDE DEF n
  <2>5. IdsInv'
    <3>1. CASE Full(down, "T0")
      <4>1. Commands' = Commands
        BY <2>1, <3>1 DEF Commands
      <4> QED
        BY <1>S, <2>1, <4>1 DEF IdsInv
    <3>2. CASE ~Full(down, "T0")
      <4>1. Commands' = Append(Commands, Command(n))
        BY <1>T, <2>1, <3>2 DEF Commands, Put, Typed, Core, QueuesTyped
      <4>2. Command(n) \in Packets /\ Command(n).id = Command(n).n % IdLimit
        BY <2>2, PacketsTyped, PacketParts, NumberedTyped
      <4> QED
        BY <1>S, <2>1, <2>2, <4>1, <4>2, PutEffect
    <3> QED
      BY <3>1, <3>2
  <2>6. GapInv'
    <3>1. Making = 1 /\ Making' = 0
      BY <2>1, <2>3, <2>4 DEF Making
    <3>2. (n + 1) - 1 + 0 <= packetIdCounter - 1 + 1
      BY <1>T, <2>2
    <3>3. /\ Len(Updates) = Cap["T0"] => packetIdCounter - 1 + 1 <= Newest + Cap["T0"] + 1
          /\ vars1.n <= Newest + Cap["T0"] + 1
          /\ Updates # << >> => Updates[1].n <= Latest + Cap["T0"] + 2
          /\ \A k \in 1 .. Len(Updates) - 1 : Updates[k + 1].n <= Updates[k].n + Cap["T0"] + 2
      BY <1>S, <2>1, <3>1 DEF GapInv
    <3>4. Len(Updates) = Cap["T0"] => (n + 1) - 1 + 0 <= Newest + Cap["T0"] + 1
      BY <1>T, <2>2, <3>2, <3>3
    <3> QED
      BY <2>1, <3>1, <3>3, <3>4 DEF GapInv
  <2>7. SeenInv'
    BY <1>S, <2>1 DEF SeenInv
  <2> QED
    BY <2>5, <2>6, <2>7 DEF EffectInv
<1>10. CASE SendShutdownCommand
  <2> USE <1>10 DEF SendShutdownCommand
  <2>1. /\ Commands' = Append(Commands, Shutdown(packetIdCounter)) /\ Updates' = Updates
        /\ Latest' = Latest /\ tpc' = "done" /\ UNCHANGED <<vars1, buf, seen, handledPacketId>>
    BY <1>T DEF Commands, Updates, Put, Typed, Core, QueuesTyped, Latest, cvars
  <2>2. /\ Shutdown(packetIdCounter) \in Packets
        /\ Shutdown(packetIdCounter).id = Shutdown(packetIdCounter).n % IdLimit
    <3>1. packetIdCounter \in Nat /\ Numbered(0) \in [id : Ids, n : Nat]
      BY <1>T, NumberedTyped
    <3>2. Shutdown(packetIdCounter) \in Packets
      BY <3>1, PacketsTyped
    <3>3. /\ Shutdown(packetIdCounter).n = packetIdCounter
          /\ Shutdown(packetIdCounter).id = packetIdCounter % IdLimit
      BY <3>1, PacketParts
    <3> QED
      BY <3>2, <3>3
  <2>3. IdsInv'
    BY <1>S, <1>T, <2>1, <2>2, PutEffect
  <2> QED
    BY <1>S, <2>1, <2>3 DEF EffectInv, GapInv, SeenInv
<1>11. CASE TestLoop \/ Select \/ Join \/ SelectInterrupted \/ UNCHANGED vars
  <2>1. Commands' = Commands /\ Updates' = Updates /\ UNCHANGED <<vars1, tvars>>
    BY <1>11 DEF TestLoop, Select, Join, SelectInterrupted, vars, cvars, Commands, Updates
  <2> QED
    BY <2>1, EffectStutters
<1>12. CASE ReadReady
  <2>1. Updates' = Updates /\ Commands' = Commands
    BY <1>12, <1>T DEF ReadReady, Updates, Commands, Typed, Core, ScalarsTyped, Slow
  <2> QED
    BY <1>12, <2>1, EffectStutters DEF ReadReady, cvars
<1>13. CASE Reply
  <2>1. Updates' = Updates /\ Commands' = Commands
    BY <1>13, <1>T DEF Reply, Put, Updates, Commands, Typed, Core, QueuesTyped
  <2> QED
    BY <1>13, <2>1, EffectStutters DEF Reply, cvars
<1> QED
  BY <1>1, <1>2, <1>3, <1>4, <1>5, <1>6, <1>7, <1>8, <1>9, <1>10, <1>11, <1>12, <1>13
     DEF Next, Cpu1, T0Thread, Test

-----------------------------------------------------------------------------
\* The parts of the invariant in the initial states.
LEMMA InitTypedAll == Init => Typed /\ DataInv
<1> SUFFICES ASSUME Init PROVE Typed /\ DataInv
  OBVIOUS
<1>1. TypeOK /\ LoopInv /\ DataInv
  BY InitTyped
<1>2. FlagsTyped
  BY DEF Init, FlagsTyped
<1>3. packetIdCounter \in Nat \ {0}
  BY DEF Init
<1>4. QueuesTyped /\ ScalarsTyped
  BY <1>1, <1>3 DEF TypeOK, QueuesTyped, ScalarsTyped
<1> QED
  BY <1>1, <1>2, <1>4 DEF Typed, Core

\* Every variable of both programs keeps its type, and no ring holds more
\* than fits, in whichever order the programs are started.
THEOREM TypeCorrect == Spec => []TypeOK
<1>1. Typed => TypeOK
  <2> SUFFICES ASSUME Typed PROVE TypeOK
    OBVIOUS
  <2>1. {f_running1, f_t0InitDone, delayed, f_running} \subseteq BOOLEAN
    BY DEF Typed, FlagsTyped
  <2> QED
    BY <2>1 DEF Typed, Core, QueuesTyped, ScalarsTyped, TypeOK
<1>2. Typed /\ [Next]_vars => Typed'
  BY CoreNext, FlagsNext DEF Typed
<1> QED
  BY <1>1, <1>2, InitTypedAll, PTL DEF Spec

\* No variable command is lost or made twice, whatever the size of the rings,
\* whichever waits are interrupted and however often the identifiers have
\* wrapped (SendRandomVariableUpdate).
THEOREM NoCommandLost ==
    ASSUME AppWaits
    PROVE  Spec => []CommandsKept
<1>1. Typed /\ DataInv => CommandsKept
  <2> SUFFICES ASSUME Typed, DataInv, tpc # "done"
               PROVE  Sent \cup Kept = vars1.n + 1 .. packetIdCounter - 1
    BY DEF CommandsKept
  <2>T. /\ Commands \in Seq(Packets) /\ vars1.n \in Nat /\ packetIdCounter \in Nat \ {0}
        /\ Len(Commands) \in Nat
    BY EffectTypes
  <2>0. Sent = {Commands[k].n : k \in {k \in 1 .. Len(Commands) : Commands[k].kind = "set"}}
    BY DEF Sent, Commands
  <2>1. CASE tpc = "start"
    <3>1. \A k \in 1 .. Len(Commands) : Commands[k].kind # "set"
      BY <2>1 DEF DataInv, BootInv
    <3>2. Sent = {} /\ Kept = {} /\ vars1.n + 1 = 1 /\ packetIdCounter - 1 = 0
      BY <2>0, <2>1, <3>1 DEF Kept, DataInv, BootInv
    <3> QED
      BY <3>2
  <2>2. CASE tpc # "start"
    <3>0. Offset \in 0 .. 1 /\ Offset <= Len(Commands)
      BY <2>2 DEF Offset, DataInv, CommandsInv
    <3>1. /\ \A k \in 1 .. Len(Commands) :
                /\ Commands[k].kind = IF k <= Offset THEN "start" ELSE "set"
                /\ Commands[k].n = vars1.n + k - Offset
          /\ vars1.n + Len(Commands) - Offset + Waiting = packetIdCounter - 1
      BY <2>2 DEF DataInv, CommandsInv
    <3>2. Sent = {vars1.n + k - Offset : k \in Offset + 1 .. Len(Commands)}
      <4>1. {k \in 1 .. Len(Commands) : Commands[k].kind = "set"} = Offset + 1 .. Len(Commands)
        <5>1. \A k \in 1 .. Len(Commands) : Commands[k].kind = "set" <=> Offset < k
          BY <3>0, <3>1
        <5> QED
          BY <2>T, <3>0, <5>1
      <4>2. \A k \in Offset + 1 .. Len(Commands) : Commands[k].n = vars1.n + k - Offset
        BY <2>T, <3>0, <3>1
      <4> QED
        BY <2>0, <4>1, <4>2
    <3>3. Sent = vars1.n + 1 .. vars1.n + Len(Commands) - Offset
      <4>1. ASSUME NEW m \in vars1.n + 1 .. vars1.n + Len(Commands) - Offset PROVE m \in Sent
        <5>1. /\ m - vars1.n + Offset \in Offset + 1 .. Len(Commands)
              /\ m = vars1.n + (m - vars1.n + Offset) - Offset
          BY <2>T, <3>0
        <5> QED
          BY <3>2, <5>1
      <4>2. ASSUME NEW m \in Sent PROVE m \in vars1.n + 1 .. vars1.n + Len(Commands) - Offset
        <5>1. PICK k \in Offset + 1 .. Len(Commands) : m = vars1.n + k - Offset
          BY <3>2
        <5> QED
          BY <2>T, <3>0, <5>1
      <4> QED
        BY <4>1, <4>2
    <3>4. CASE delayed
      <4>1. Kept = {packetIdCounter - 1} /\ vars1.n + Len(Commands) - Offset + 1 = packetIdCounter - 1
        BY <3>1, <3>4 DEF Kept, Waiting
      <4> QED
        BY <2>T, <3>0, <3>3, <4>1
    <3>5. CASE ~delayed
      <4>1. Kept = {} /\ vars1.n + Len(Commands) - Offset + 0 = packetIdCounter - 1
        BY <3>1, <3>5 DEF Kept, Waiting
      <4> QED
        BY <2>T, <3>0, <3>3, <4>1
    <3> QED
      BY <3>4, <3>5
  <2> QED
    BY <2>1, <2>2
<1>2. Typed /\ [Next]_vars => Typed'
  BY CoreNext, FlagsNext DEF Typed
<1> QED
  BY <1>1, <1>2, InitTypedAll, DataNext, PTL DEF Spec

\* The application sees the effects of its commands in order, none before
\* CPU1 has applied it, and takes no new effect for the one it handled last,
\* if the ring of T0 holds two packets less than 16 bits can tell apart
\* (HandleNewVariableData).
THEOREM EffectsInOrder ==
    ASSUME AppWaits, Cap["T0"] + 2 < IdLimit
    PROVE  Spec => []EffectsSeenInOrder
<1>1. DataInv /\ EffectInv => EffectsSeenInOrder
  BY DEF DataInv, UpdatesInv, Updates, EffectInv, SeenInv, EffectsSeenInOrder
<1>2. Typed /\ [Next]_vars => Typed'
  BY CoreNext, FlagsNext DEF Typed
<1> QED
  BY <1>1, <1>2, InitTypedAll, InitEffect, DataNext, EffectNext, PTL DEF Spec
==============================================================================
