----------------------------- MODULE MCPacketIo -----------------------------
(* Payload lengths around the padding boundaries of both block sizes: with   *)
(* 10 bytes a block is exactly full, with 11 a new one begins.               *)
EXTENDS InteractiveIo

MCPayloads == {0, 10, 11}
=============================================================================
