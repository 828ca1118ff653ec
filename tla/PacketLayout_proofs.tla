------------------------ MODULE PacketLayout_proofs ------------------------
(***************************************************************************)
(* The packet layout is right for every payload, not only for the lengths  *)
(* a run of TLC tries.                                                     *)
(***************************************************************************)
EXTENDS PacketLayout, TLAPS

\* What serialize's padding arithmetic yields, for each of the two block sizes:
\* between 4 and 255 bytes of padding, a whole number of blocks, and at least
\* one block, so that recv_packet's first read never passes the packet's end.
LEMMA PaddingFacts ==
    ASSUME NEW n \in Nat, NEW bs \in BlockSizes
    PROVE  /\ bs \in {8, 16}
           /\ PaddingLen(n, bs) \in 4 .. 19
           /\ PacketLength(n, bs) \in Nat
           /\ PacketLength(n, bs) = 2 + n + PaddingLen(n, bs)
           /\ PacketLength(n, bs) % bs = 0
           /\ PacketLength(n, bs) >= bs
  <1>1. CASE bs = 8
    BY <1>1 DEF PaddingLen, PacketLength, MIN_PADDING, BlockSizes, AES_BLOCK_SIZE, PLAIN_BLOCK_SIZE
  <1>2. CASE bs = 16
    BY <1>2 DEF PaddingLen, PacketLength, MIN_PADDING, BlockSizes, AES_BLOCK_SIZE, PLAIN_BLOCK_SIZE
  <1> QED
    BY <1>1, <1>2 DEF BlockSizes, AES_BLOCK_SIZE, PLAIN_BLOCK_SIZE

\* Every packet that serialize accepts is read back by recv_packet and
\* deserialize: whole, without underflow of `total - block_size', with its
\* payload length, and with a padding length that fits its byte.
THEOREM LayoutRoundTrips == \A n \in Nat, bs \in BlockSizes : RoundTrips(n, bs)
  <1> SUFFICES ASSUME NEW n \in Nat, NEW bs \in BlockSizes, Serializable(n, bs)
               PROVE  /\ ReaderTakesWholePacket(n, bs)
                      /\ PayloadRecovered(n, bs)
                      /\ PaddingLegal(n, bs)
    BY DEF RoundTrips
  <1>1. PacketLength(n, bs) <= 35000
    BY DEF Serializable, MAX_PACKET_SIZE
  <1>2. ReaderTakesWholePacket(n, bs)
    BY <1>1, PaddingFacts DEF ReaderTakesWholePacket, LengthAccepted, Remaining, WireLen,
                              LENGTH_FIELD, MAX_PACKET_SIZE
  <1>3. PayloadRecovered(n, bs)
    <2> DEFINE pad == PaddingLen(n, bs)
               len == PacketLength(n, bs)
    <2>1. pad \in 4 .. 19 /\ len = 2 + n + pad
      BY PaddingFacts
    <2>2. DeserializedLen(4 + len, len, pad) = n
      <3> HIDE DEF pad, len
      <3> QED
        BY <1>1, <2>1 DEF DeserializedLen, LENGTH_FIELD, MAX_PACKET_SIZE, pad, len
    <2> QED
      BY <2>2 DEF PayloadRecovered, WireLen, LENGTH_FIELD
  <1>4. PaddingLegal(n, bs)
    BY PaddingFacts DEF PaddingLegal, MIN_PADDING
  <1> QED
    BY <1>2, <1>3, <1>4
=============================================================================
