---------------------------- MODULE PacketQueue ----------------------------
(***************************************************************************)
(* What one direction of the packet layer promises: send_packet appends a  *)
(* packet, recv_packet returns the packets in the order they were sent,    *)
(* each once.  Packets are numbered 1, 2, 3, ... in the order they are     *)
(* sent.                                                                   *)
(***************************************************************************)
EXTENDS Naturals, Sequences

CONSTANT MaxPackets       \* bound: packets sent in one behaviour

VARIABLES queue,          \* sent and not yet received
          received        \* the packets recv_packet has returned

vars == <<queue, received>>

Init ==
    /\ queue = <<>>
    /\ received = <<>>

Send ==
    /\ Len(received) + Len(queue) < MaxPackets
    /\ queue' = Append(queue, Len(received) + Len(queue) + 1)
    /\ UNCHANGED received

Receive ==
    /\ queue # <<>>
    /\ queue' = Tail(queue)
    /\ received' = Append(received, Head(queue))

Next == Send \/ Receive

Spec == Init /\ [][Next]_vars
=============================================================================
