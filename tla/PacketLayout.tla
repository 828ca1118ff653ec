--------------------------- MODULE PacketLayout ---------------------------
(***************************************************************************)
(* The lengths of an SSH binary packet: what SshPacket::serialize writes   *)
(* for a payload of n bytes, how many bytes recv_packet asks the stream    *)
(* for, and what SshPacket::deserialize recovers.  Contents are left out:  *)
(* only the lengths decide whether reader and writer stay on the same      *)
(* packet boundary.  `n' is always payload.len(), the message-type byte    *)
(* not included.                                                           *)
(***************************************************************************)
EXTENDS Integers

MAX_PACKET_SIZE  == 35000
MIN_PADDING      == 4
AES_BLOCK_SIZE   == 16
PLAIN_BLOCK_SIZE == 8       \* the literal 8 used before keys are in place
HMAC_SHA256_SIZE == 32
LENGTH_FIELD     == 4       \* the u32 packet_length itself

BlockSizes == {PLAIN_BLOCK_SIZE, AES_BLOCK_SIZE}

BlockSize(encrypted) == IF encrypted THEN AES_BLOCK_SIZE ELSE PLAIN_BLOCK_SIZE
MacSize(encrypted)   == IF encrypted THEN HMAC_SHA256_SIZE ELSE 0

-----------------------------------------------------------------------------
(* The writer. *)

\* Faulty: the minimum padding only, without alignment to the block size.
PaddingLenUnaligned(n, bs) == MIN_PADDING

PaddingLen(n, bs) ==
    LET remainder == (1 + (1 + n) + MIN_PADDING) % bs
    IN  IF remainder = 0 THEN MIN_PADDING ELSE MIN_PADDING + (bs - remainder)

PacketLength(n, bs) == 1 + (1 + n) + PaddingLen(n, bs)

\* serialize returns InvalidPacket("Packet too large") otherwise.
Serializable(n, bs) == PacketLength(n, bs) <= MAX_PACKET_SIZE

\* Bytes of one packet on the wire, its MAC excluded.
WireLen(n, bs) == LENGTH_FIELD + PacketLength(n, bs)

-----------------------------------------------------------------------------
(* The reader. *)

\* recv_packet gives up on a larger packet_length ...
LengthAccepted(packetLength) == packetLength <= MAX_PACKET_SIZE

\* Faulty: packet_length taken for the length of the whole packet.
RemainingShort(packetLength, bs) == packetLength - bs

\* ... and then computes `total - block_size' in usize: a negative value is an
\* arithmetic underflow in the program.
Remaining(packetLength, bs) == (LENGTH_FIELD + packetLength) - bs

\* The payload length deserialize returns, or -1 for one of its errors.
DeserializedLen(dataLen, packetLength, paddingLength) ==
    LET payloadLength == packetLength - 1 - paddingLength
    IN  IF \/ dataLen < 6
           \/ packetLength > MAX_PACKET_SIZE
           \/ dataLen < LENGTH_FIELD + packetLength
           \/ paddingLength >= packetLength
           \/ payloadLength = 0
        THEN -1
        ELSE payloadLength - 1

-----------------------------------------------------------------------------
(* What the reader makes of a packet the writer produced for n bytes. *)

\* The two read_exact calls together take exactly the packet: the first block
\* does not run into the next packet, and the second does not underflow.
ReaderTakesWholePacket(n, bs) ==
    LET pl == PacketLength(n, bs)
    IN  /\ LengthAccepted(pl)
        /\ Remaining(pl, bs) >= 0
        /\ bs + Remaining(pl, bs) = WireLen(n, bs)

\* deserialize returns a payload of the length that was serialized.
PayloadRecovered(n, bs) ==
    DeserializedLen(WireLen(n, bs), PacketLength(n, bs), PaddingLen(n, bs)) = n

\* The padding length survives `as u8' and the alignment test of codec.rs
\* (test_packet_alignment) holds: the packet without its length field is a
\* whole number of blocks.
PaddingLegal(n, bs) ==
    /\ PaddingLen(n, bs) \in MIN_PADDING .. 255
    /\ PacketLength(n, bs) % bs = 0

RoundTrips(n, bs) ==
    Serializable(n, bs) =>
        /\ ReaderTakesWholePacket(n, bs)
        /\ PayloadRecovered(n, bs)
        /\ PaddingLegal(n, bs)
=============================================================================
