--------------------------- MODULE InteractiveIo ---------------------------
(***************************************************************************)
(* PacketIo as the interactive client uses it: recv_packet is one branch   *)
(* of a tokio::select!, the lines read from stdin are the other.  When a   *)
(* line is ready while recv_packet waits for bytes, the recv_packet future *)
(* is dropped and the next turn of the loop calls it afresh.               *)
(***************************************************************************)
EXTENDS PacketIo

\* The bytes the dropped future held are lost; the cipher and recv_seq stay
\* where they are.
CancelRecv ==
    /\ rd.at \in ReadAt
    /\ rd # FreshRead
    /\ rd' = FreshRead
    /\ UNCHANGED <<stream, off, writer, recv_seq, decPos, delivered>>

InteractiveSpec == Init /\ [][Next \/ CancelRecv]_vars
=============================================================================
