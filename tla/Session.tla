------------------------------ MODULE Session -------------------------------
(***************************************************************************)
(* One run of the benchmark: the bare metal program of CPU1 (Execute and   *)
(* the periodic tasks) and the Linux application of CPU0 (the T0 thread    *)
(* and the main thread), from the start packet to the shutdown command.    *)
(*                                                                         *)
(* A tunnel is what PacketFifo says: two bounded queues.  A task of CPU1   *)
(* is one step: it reads its own tunnel and then writes to it, and nobody  *)
(* else on CPU1 uses that tunnel.  The timer and the software interrupts   *)
(* of T1 and T2 are those of the scheduler, time itself is left out.       *)
(*                                                                         *)
(* A command is numbered by packetIdCounter, but its packet, CPU1's        *)
(* variables and the data packets have 16 bits for the number, so that it  *)
(* wraps in every full run.  Packets carry both: id is what the code sees, *)
(* n is the number it stands for, which only the properties look at.       *)
(***************************************************************************)
EXTENDS Integers, Sequences, FiniteSets

CONSTANTS Cap,          \* packets a tunnel of each target holds, per direction
          Multiplier,   \* T0 periods per run of T1 and of T2
          Iterations,   \* ITERATION_LIMIT
          CsvPeriods,   \* T0 periods that writing the results lasts at least
          MaxSignals,   \* bound: waits a signal interrupts
          IdLimit,      \* values of a uint16_t, 2^16
          AppWaits      \* the application is started after CPU1 is ready

Slow == {"T1", "T2"}
Targets == Slow \cup {"T0"}

ASSUME SessionAssumption ==
          /\ Cap \in [Targets -> Nat \ {0}]
          /\ Multiplier \in [Slow -> Nat \ {0}]
          /\ Iterations \in Nat \ {0}
          /\ {CsvPeriods, MaxSignals} \subseteq Nat
          /\ IdLimit \in Nat \ {0}
          /\ AppWaits \in BOOLEAN

VARIABLES cpc,          \* where Execute stands on CPU1
          cleared,      \* targets whose tunnel VARIANT_Initialize has set up
          f_running1,   \* f_running of application.c
          f_t0InitDone, \* T0 has run once
          counter,      \* t1Counter and t2Counter of the scheduler
          pend,         \* software interrupts pending on CPU1
          vars1,        \* s_variables.lastSetPacketId, and its number
          dropped,      \* targets with totalDroppedPackets > 0
          down,         \* packets on their way to CPU1
          up,           \* packets on their way to Linux
          tpc,          \* where the T0 thread stands
          i,            \* its loop counter
          packetIdCounter,
          delayed,      \* sendPacketSize # 0: a command that was refused
          buf,          \* identifier in the packet of T0Thread's buffer
          handledPacketId,
          seen,         \* history: the number handledPacketId stands for
          f_running,    \* f_running of main.cpp
          periods,      \* T0 periods since f_running is false
          signals,      \* waits that signals have interrupted
          mpc,          \* where the main thread stands
          ready,        \* targets select reported
          received      \* t1Received and t2Received

cvars == <<cpc, cleared, f_running1, f_t0InitDone, counter, pend, vars1, dropped>>
tvars == <<tpc, i, packetIdCounter, delayed, buf, handledPacketId, seen, f_running>>
mvars == <<mpc, ready, received>>
env == <<periods, signals>>
vars == <<cvars, down, up, tvars, env, mvars>>

Full(queue, t) == Len(queue[t]) = Cap[t]
Put(queue, t, p) == [queue EXCEPT ![t] = Append(@, p)]
Take(queue, t) == [queue EXCEPT ![t] = Tail(@)]

\* The conversion of number n to uint16_t.
Numbered(n) == [id |-> n % IdLimit, n |-> n]
Unset == -1

Packet(kind, v) == [kind |-> kind, id |-> v.id, n |-> v.n]
Start == Packet("start", Numbered(0))
Command(n) == Packet("set", Numbered(n))
Shutdown(n) == Packet("DEAD", Numbered(n))
Data(v) == Packet("data", v)
Variables(p) == [id |-> p.id, n |-> p.n]

\* The rings may hold what a run before this one has left there, and the
\* buffer of T0Thread, which is not initialised, any value.
Init == /\ cpc = "boot"
        /\ cleared = {}
        /\ f_running1 = TRUE
        /\ f_t0InitDone = FALSE
        /\ counter = [t \in Slow |-> 0]
        /\ pend = {}
        /\ vars1 = Numbered(0)
        /\ dropped = {}
        /\ \E left \in {<< >>, <<Data(Numbered(0))>>} : down = [t \in Targets |-> left]
        /\ \E left \in {<< >>, <<Data(Numbered(0))>>} : up = [t \in Targets |-> left]
        /\ tpc = "start"
        /\ i = 0
        /\ packetIdCounter = 1
        /\ delayed = FALSE
        /\ buf \in {[id |-> x, n |-> Unset] : x \in 0 .. IdLimit - 1}
        /\ handledPacketId = 0
        /\ seen = 0
        /\ f_running = TRUE
        /\ periods = 0
        /\ signals = 0
        /\ mpc = "check"
        /\ ready = {}
        /\ received = {}
-----------------------------------------------------------------------------
(* CPU1 *)

\* IPC_TUNNEL_Init clears the indices of one tunnel; they are set up in order.
VARIANT_Initialize ==
    /\ cpc = "boot"
    /\ LET t == CASE cleared = {} -> "T0" [] cleared = {"T0"} -> "T1" [] OTHER -> "T2"
       IN  /\ cleared' = cleared \cup {t}
           /\ down' = [down EXCEPT ![t] = << >>]
           /\ up' = [up EXCEPT ![t] = << >>]
           /\ cpc' = IF t = "T2" THEN "wait" ELSE "boot"
    /\ UNCHANGED <<f_running1, f_t0InitDone, counter, pend, vars1, dropped, tvars, env, mvars>>

\* Execute polls channel 0: the first packet, whatever it is, starts the
\* scheduler.
ReceiveInitialPacket ==
    /\ cpc = "wait"
    /\ down["T0"] # << >>
    /\ down' = Take(down, "T0")
    /\ cpc' = "run"
    /\ UNCHANGED <<cleared, f_running1, f_t0InitDone, counter, pend, vars1, dropped, up, tvars, env, mvars>>

\* The background loop sees f_running and Execute stops the timer.
SCHEDULER_Stop ==
    /\ cpc = "run"
    /\ ~f_running1
    /\ cpc' = "stopped"
    /\ UNCHANGED <<cleared, f_running1, f_t0InitDone, counter, pend, vars1, dropped, down, up, tvars, env, mvars>>

\* HandleT0Packet for the packet at the head of channel 0, if there is one.
HandleT0Packet ==
    IF down["T0"] = << >>
    THEN UNCHANGED <<down, vars1, f_running1>>
    ELSE /\ down' = Take(down, "T0")
         /\ vars1' = Variables(Head(down["T0"]))
         /\ f_running1' = (f_running1 /\ Head(down["T0"]).kind # "DEAD")

\* Mutation of WriteChan: the ring is not tested.
WriteChanUnchecked(t, p) == up' = Put(up, t, p) /\ UNCHANGED dropped

\* VARIANT_WriteChan: a packet that does not fit is counted as dropped.
WriteChan(t, p) ==
    IF Full(up, t)
    THEN dropped' = dropped \cup {t} /\ UNCHANGED up
    ELSE up' = Put(up, t, p) /\ UNCHANGED dropped

\* Mutation of APPLICATION_T0: f_t0InitDone is not set.
APPLICATION_T0NotDone ==
    IF f_t0InitDone
    THEN /\ HandleT0Packet
         /\ WriteChan("T0", Data(vars1'))
         /\ UNCHANGED f_t0InitDone
    ELSE UNCHANGED <<f_t0InitDone, down, vars1, f_running1, up, dropped>>

\* The first run only sets f_t0InitDone.
APPLICATION_T0 ==
    IF f_t0InitDone
    THEN /\ HandleT0Packet
         /\ WriteChan("T0", Data(vars1'))
         /\ UNCHANGED f_t0InitDone
    ELSE /\ f_t0InitDone' = TRUE
         /\ UNCHANGED <<down, vars1, f_running1, up, dropped>>

\* TimerT0Interrupt: T0, then the counters and the interrupts of T1 and T2.
\* An interrupt that is still pending is not queued twice.
TimerT0Interrupt ==
    /\ cpc = "run"
    /\ APPLICATION_T0
    /\ counter' = [t \in Slow |-> (counter[t] + 1) % Multiplier[t]]
    /\ pend' = pend \cup {t \in Slow : counter[t] + 1 = Multiplier[t]}
    /\ periods' = IF ~f_running /\ periods < CsvPeriods THEN periods + 1 ELSE periods
    /\ UNCHANGED <<cpc, cleared, tvars, signals, mvars>>

\* T1Interrupt and T2Interrupt.  SCHEDULER_Stop leaves them enabled.
SlowInterrupt(t) ==
    /\ t \in pend
    /\ pend' = pend \ {t}
    /\ down' = IF down[t] = << >> THEN down ELSE Take(down, t)
    /\ WriteChan(t, Data(Numbered(0)))
    /\ UNCHANGED <<cpc, cleared, f_running1, f_t0InitDone, counter, vars1, tvars, env, mvars>>
-----------------------------------------------------------------------------
(* The T0 thread of the application *)

\* The order in which the two programs are started is the operator's.
AppStarted == AppWaits => cpc # "boot"

\* The T0 thread sends the start packet, again and again until it fits.
SendStart ==
    /\ tpc = "start"
    /\ AppStarted
    /\ ~Full(down, "T0")
    /\ down' = Put(down, "T0", Start)
    /\ tpc' = "recv"
    /\ UNCHANGED <<cvars, up, i, packetIdCounter, delayed, buf, handledPacketId, seen, f_running,
                   env, mvars>>

\* One iteration ends: the next one, or the end of the benchmark.
NextIteration ==
    /\ i' = i + 1
    /\ tpc' = IF i + 1 < Iterations THEN "recv" ELSE "csv"
    /\ f_running' = (i + 1 < Iterations)

\* A command is sent in every second iteration.
HandleIteration == IF i % 2 = 1 THEN tpc' = "send" /\ UNCHANGED <<i, f_running>> ELSE NextIteration

\* Mutation of HandleNewVariableData: only a greater identifier is new.
HandleNewVariableDataGreater(v) ==
    IF v.id > handledPacketId
    THEN handledPacketId' = v.id /\ seen' = v.n
    ELSE UNCHANGED <<handledPacketId, seen>>

\* An identifier that differs from the one handled last is a new effect.
HandleNewVariableData(v) ==
    IF v.id # handledPacketId
    THEN handledPacketId' = v.id /\ seen' = v.n
    ELSE UNCHANGED <<handledPacketId, seen>>

\* ReceiveT0 blocks until there is a packet.
ReceiveT0 ==
    /\ tpc = "recv"
    /\ up["T0"] # << >>
    /\ up' = Take(up, "T0")
    /\ buf' = Variables(Head(up["T0"]))
    /\ HandleNewVariableData(buf')
    /\ HandleIteration
    /\ UNCHANGED <<cvars, down, packetIdCounter, delayed, env, mvars>>

\* A signal interrupts the read.  Its result is not looked at: the iteration
\* goes on with what is in the buffer, the packet before or, in the first
\* iteration, whatever was there.
ReceiveT0Interrupted ==
    /\ tpc = "recv"
    /\ up["T0"] = << >>
    /\ signals < MaxSignals
    /\ signals' = signals + 1
    /\ HandleNewVariableData(buf)
    /\ HandleIteration
    /\ UNCHANGED <<cvars, down, up, packetIdCounter, delayed, buf, periods, mvars>>

\* Mutation of SendRandomVariableUpdate: a refused command is forgotten.
SendRandomVariableUpdateForgets ==
    /\ tpc = "send"
    /\ down' = IF Full(down, "T0") THEN down ELSE Put(down, "T0", Command(packetIdCounter))
    /\ packetIdCounter' = packetIdCounter + 1
    /\ delayed' = FALSE
    /\ NextIteration
    /\ UNCHANGED <<cvars, up, buf, handledPacketId, seen, env, mvars>>

\* A command that was refused is sent instead of a new one.
SendRandomVariableUpdate ==
    /\ tpc = "send"
    /\ LET n == IF delayed THEN packetIdCounter - 1 ELSE packetIdCounter
       IN  /\ packetIdCounter' = n + 1
           /\ delayed' = Full(down, "T0")
           /\ down' = IF Full(down, "T0") THEN down ELSE Put(down, "T0", Command(n))
    /\ NextIteration
    /\ UNCHANGED <<cvars, up, buf, handledPacketId, seen, env, mvars>>

\* WriteCSV is done: SendShutdownCommand, again and again until it fits.  It
\* uses the buffer of a command that was refused.
SendShutdownCommand ==
    /\ tpc = "csv"
    /\ periods = CsvPeriods
    /\ ~Full(down, "T0")
    /\ down' = Put(down, "T0", Shutdown(packetIdCounter))
    /\ packetIdCounter' = packetIdCounter + 1
    /\ delayed' = FALSE
    /\ tpc' = "done"
    /\ UNCHANGED <<cvars, up, i, buf, handledPacketId, seen, f_running, env, mvars>>
-----------------------------------------------------------------------------
(* The main thread of the application *)

\* The condition of Test's loop.
TestLoop ==
    /\ mpc = "check"
    /\ AppStarted
    /\ mpc' = IF f_running THEN "select" ELSE "join"
    /\ UNCHANGED <<cvars, down, up, tvars, env, ready, received>>

\* select without a timeout, on the tunnels of T1 and T2.
Select ==
    /\ mpc = "select"
    /\ \E t \in Slow : up[t] # << >>
    /\ ready' = {t \in Slow : up[t] # << >>}
    /\ mpc' = "read"
    /\ UNCHANGED <<cvars, down, up, tvars, env, received>>

\* A signal interrupts select: nothing is read.
SelectInterrupted ==
    /\ mpc = "select"
    /\ \A t \in Slow : up[t] = << >>
    /\ signals < MaxSignals
    /\ signals' = signals + 1
    /\ mpc' = "reply"
    /\ UNCHANGED <<cvars, down, up, tvars, periods, ready, received>>

\* One nonblocking read of every ready tunnel.
ReadReady ==
    /\ mpc = "read"
    /\ up' = [t \in Targets |-> IF t \in ready /\ up[t] # << >> THEN Tail(up[t]) ELSE up[t]]
    /\ received' = received \cup {t \in ready : up[t] # << >>}
    /\ mpc' = "reply"
    /\ UNCHANGED <<cvars, down, tvars, env, ready>>

\* A command to T1, else to T2, if a packet of it was received; whether it
\* was sent is not looked at.
Reply ==
    /\ mpc = "reply"
    /\ IF received = {}
       THEN UNCHANGED <<down, received>>
       ELSE LET t == IF "T1" \in received THEN "T1" ELSE "T2"
            IN  /\ down' = IF Full(down, t) THEN down ELSE Put(down, t, Command(0))
                /\ received' = received \ {t}
    /\ mpc' = "check"
    /\ UNCHANGED <<cvars, up, tvars, env, ready>>

\* t0Thread.join(), then the results are written and main returns.
Join ==
    /\ mpc = "join"
    /\ tpc = "done"
    /\ mpc' = "exit"
    /\ UNCHANGED <<cvars, down, up, tvars, env, ready, received>>
-----------------------------------------------------------------------------
Cpu1 == \/ VARIANT_Initialize
        \/ ReceiveInitialPacket
        \/ SCHEDULER_Stop

T0Thread == \/ SendStart
            \/ ReceiveT0
            \/ SendRandomVariableUpdate
            \/ SendShutdownCommand

Test == \/ TestLoop
        \/ Select
        \/ ReadReady
        \/ Reply
        \/ Join

Next == \/ Cpu1
        \/ TimerT0Interrupt
        \/ \E t \in Slow : SlowInterrupt(t)
        \/ T0Thread
        \/ Test
        \/ ReceiveT0Interrupted
        \/ SelectInterrupted

Spec == Init /\ [][Next]_vars

\* The background loop, the timer, the interrupts and both threads go on.
FairSpec == /\ Spec
            /\ WF_vars(Cpu1)
            /\ WF_vars(TimerT0Interrupt)
            /\ \A t \in Slow : WF_vars(SlowInterrupt(t))
            /\ WF_vars(T0Thread)
            /\ WF_vars(Test)
-----------------------------------------------------------------------------
(* Properties *)

Ids == 0 .. IdLimit - 1
Packets == [kind : {"start", "set", "DEAD", "data"}, id : Ids, n : Nat]

\* Every variable has its type, and no tunnel holds more than fits.
TypeOK ==
    /\ cpc \in {"boot", "wait", "run", "stopped"}
    /\ cleared \subseteq Targets
    /\ {f_running1, f_t0InitDone, delayed, f_running} \subseteq BOOLEAN
    /\ counter \in [Slow -> Nat] /\ \A t \in Slow : counter[t] < Multiplier[t]
    /\ pend \subseteq Slow
    /\ vars1 \in [id : Ids, n : Nat]
    /\ dropped \subseteq Targets
    /\ down \in [Targets -> Seq(Packets)] /\ \A t \in Targets : Len(down[t]) <= Cap[t]
    /\ up \in [Targets -> Seq(Packets)] /\ \A t \in Targets : Len(up[t]) <= Cap[t]
    /\ tpc \in {"start", "recv", "send", "csv", "done"}
    /\ i \in 0 .. Iterations
    /\ packetIdCounter \in Nat
    /\ buf \in [id : Ids, n : Nat \cup {Unset}]
    /\ handledPacketId \in Ids
    /\ seen \in Nat \cup {Unset}
    /\ periods \in 0 .. CsvPeriods
    /\ signals \in 0 .. MaxSignals
    /\ mpc \in {"check", "select", "read", "reply", "join", "exit"}
    /\ ready \subseteq Slow
    /\ received \subseteq Slow

Sent == {down["T0"][k].n : k \in {k \in 1 .. Len(down["T0"]) : down["T0"][k].kind = "set"}}
Kept == IF delayed THEN {packetIdCounter - 1} ELSE {}

\* Until the shutdown command is sent, every variable command the T0 thread
\* made is applied by HandleT0Packet, or on its way, or kept to be sent
\* again by SendRandomVariableUpdate: none is lost when the ring is full,
\* however often the identifiers have wrapped.
CommandsKept ==
    tpc # "done" => Sent \cup Kept = vars1.n + 1 .. packetIdCounter - 1

\* The number of the packet received last, 0 before there was one.
Latest == IF buf.n = Unset THEN 0 ELSE buf.n

\* HandleNewVariableData notices every effect and none before CPU1 has applied
\* it, although it compares 16 bits of the number: what it takes for the newest
\* command that had an effect is that of the packet received last, and the
\* packets on their way are in order and at least as new.  Only a first read
\* that was interrupted makes it take for an effect what the buffer held
\* (seen = Unset), until the next effect.
EffectsSeenInOrder ==
    /\ seen # Unset => seen = Latest
    /\ Latest <= vars1.n
    /\ \A k \in 1 .. Len(up["T0"]) :
          Latest <= up["T0"][k].n /\ up["T0"][k].n <= vars1.n

\* After the start packet is sent the actual scheduling starts.
SchedulingStarts == tpc # "start" ~> cpc \notin {"boot", "wait"}

\* Every run ends: CPU1 stops its scheduler, and both threads of the
\* application return.
SessionEnds == <>[](cpc = "stopped" /\ mpc = "exit")
==============================================================================
