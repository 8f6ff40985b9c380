----------------------------- MODULE PacketFifo -----------------------------
(***************************************************************************)
(* What one direction of an IPC tunnel promises its two users: a bounded   *)
(* first-in first-out channel of packets.  A packet is accepted whole or   *)
(* refused; it is refused as "full" only when the channel is full; it is   *)
(* delivered once, in order, with its own contents, and may be cut short   *)
(* only by the room the receiver gave; "empty" is reported only when no    *)
(* packet has arrived; an error on either side changes nothing.            *)
(***************************************************************************)
EXTENDS Integers, Sequences

CONSTANTS Capacity,     \* packets the channel can hold
          Packets       \* records with at least a field size

VARIABLES transit,      \* packets accepted that the receiver cannot see yet
          queue,        \* packets the receiver can see, oldest first
          got,          \* packets handed to the receiver
          sendRet,      \* outcome of the sender's latest call
          recvRet       \* outcome of the receiver's latest call

fifoVars == <<transit, queue, got, sendRet, recvRet>>

Init == /\ transit = << >>
        /\ queue = << >>
        /\ got = << >>
        /\ sendRet = "none"
        /\ recvRet = "none"

Load == Len(transit) + Len(queue)

Send(p) == /\ Load < Capacity
           /\ transit' = Append(transit, p)
           /\ sendRet' = "sent"
           /\ UNCHANGED <<queue, got, recvRet>>

Arrive == /\ transit # << >>
          /\ queue' = Append(queue, Head(transit))
          /\ transit' = Tail(transit)
          /\ UNCHANGED <<got, sendRet, recvRet>>

Full == /\ Load = Capacity
        /\ sendRet' = "full"
        /\ UNCHANGED <<transit, queue, got, recvRet>>

SendError == /\ sendRet' = "error"
             /\ UNCHANGED <<transit, queue, got, recvRet>>

Receive(len) == /\ queue # << >>
                /\ got' = Append(got, [Head(queue) EXCEPT !.size = len])
                /\ queue' = Tail(queue)
                /\ recvRet' = "got"
                /\ UNCHANGED <<transit, sendRet>>

Empty == /\ queue = << >>
         /\ recvRet' = "empty"
         /\ UNCHANGED <<transit, queue, got, sendRet>>

RecvError == /\ recvRet' = "error"
             /\ UNCHANGED <<transit, queue, got, sendRet>>

Next == \/ \E p \in Packets : Send(p)
        \/ Arrive
        \/ Full
        \/ SendError
        \/ queue # << >> /\ \E len \in 0 .. Head(queue).size : Receive(len)
        \/ Empty
        \/ RecvError

Spec == Init /\ [][Next]_fifoVars
==============================================================================
