--------------------------- MODULE PacketIo_proofs ---------------------------
(***************************************************************************)
(* recv_packet stays in step with send_packet, for every set of payload    *)
(* lengths, any number of packets and with or without encryption.          *)
(***************************************************************************)
EXTENDS PacketIo, PacketLayout_proofs, SequenceTheorems

\* Bytes of keystream a packet uses up.
Keystream(f) == IF Encrypted THEN WireLen(f.len, bs) ELSE 0

\* Where the keystream of the next packet to be read begins.
NextPos == IF stream = <<>> THEN encPos ELSE stream[1].pos

\* The frames on the stream follow each other without a gap, in number and in
\* keystream, and end where the writer is.
StreamInv ==
    /\ send_seq = Len(delivered) + Len(stream)
    /\ \A i \in 1 .. Len(stream) :
          /\ stream[i].id = Len(delivered) + i
          /\ Serializable(stream[i].len, bs)
          /\ i < Len(stream) => stream[i + 1].pos = stream[i].pos + Keystream(stream[i])
    /\ stream # <<>> => encPos = stream[Len(stream)].pos + Keystream(stream[Len(stream)])

\* Where the reader is in the first frame of the stream, in each of its reads.
AtFirst ==
    /\ rd.need = bs /\ rd.got = off /\ off < bs
    /\ stream = <<>> => off = 0
    /\ recv_seq = Len(delivered)
    /\ decPos = NextPos

AtRest ==
    /\ stream # <<>> /\ rd.cur = stream[1]
    /\ rd.need = WireLen(stream[1].len, bs) - bs
    /\ off = bs + rd.got /\ rd.got < rd.need
    /\ recv_seq = Len(delivered)
    /\ decPos = stream[1].pos + (IF Encrypted THEN bs ELSE 0)

AtMac ==
    /\ Encrypted
    /\ stream # <<>> /\ rd.cur = stream[1]
    /\ rd.need = 32
    /\ off = WireLen(stream[1].len, bs) + rd.got /\ rd.got < 32
    /\ recv_seq = Len(delivered) + 1
    /\ decPos = stream[1].pos + WireLen(stream[1].len, bs)

ReaderInv ==
    \/ rd.at = "first" /\ AtFirst
    \/ rd.at = "rest" /\ AtRest
    \/ rd.at = "mac" /\ AtMac
    \/ rd.at = "closed" /\ closed /\ stream = <<>>

IInv == TypeOK /\ StreamInv /\ ReaderInv

-----------------------------------------------------------------------------
\* The lengths recv_packet works with, for a packet that serialize accepted.
LEMMA FrameFacts ==
    ASSUME NEW f \in Frame
    PROVE  /\ bs \in {8, 16}
           /\ WireLen(f.len, bs) \in Nat
           /\ WireLen(f.len, bs) >= bs + 4
           /\ WireLen(f.len, bs) - bs = Remaining(PacketLength(f.len, bs), bs)
           /\ FrameLen(f) = WireLen(f.len, bs) + (IF Encrypted THEN 32 ELSE 0)
  <1>1. bs \in BlockSizes /\ f.len \in Nat
    BY DEF bs, BlockSize, BlockSizes, Frame
  <1>2. /\ bs \in {8, 16}
        /\ PacketLength(f.len, bs) \in Nat
        /\ PacketLength(f.len, bs) >= bs
    BY <1>1, PaddingFacts
  <1> QED
    BY <1>2 DEF WireLen, Remaining, FrameLen, MacSize, LENGTH_FIELD, HMAC_SHA256_SIZE

LEMMA BlockFacts == bs \in {8, 16}
  BY DEF bs, BlockSize, AES_BLOCK_SIZE, PLAIN_BLOCK_SIZE

LEMMA InitInv == Init => IInv
  <1> SUFFICES ASSUME Init PROVE IInv
    OBVIOUS
  <1> USE PacketIoAssumption, BlockFacts DEF Init
  <1>1. TypeOK
    <2>1. FreshRead \in [at : ReadAt \cup EndAt, got : Nat, need : Nat, cur : Frame]
      BY DEF FreshRead, NoFrame, Frame, ReadAt
    <2>2. stream \in Seq(Frame) /\ delivered \in Seq(Nat)
      OBVIOUS
    <2>3. rd = FreshRead /\ closed \in BOOLEAN
      OBVIOUS
    <2>4. off \in Nat /\ send_seq \in 0 .. MaxPackets /\ encPos \in Nat /\ recv_seq \in Nat
          /\ decPos \in Nat
      OBVIOUS
    <2> QED
      BY <2>1, <2>2, <2>3, <2>4 DEF TypeOK
  <1>2. StreamInv
    BY DEF StreamInv
  <1>3. ReaderInv
    BY DEF ReaderInv, AtFirst, FreshRead, NextPos
  <1> QED
    BY <1>1, <1>2, <1>3 DEF IInv

\* The writer's steps: only the end of the stream changes.
LEMMA SendPacketInv ==
    ASSUME IInv, NEW n \in Payloads, SendPacket(n)
    PROVE  IInv'
  <1> DEFINE f == [id |-> send_seq + 1, len |-> n, pos |-> encPos]
  <1> USE PacketIoAssumption, BlockFacts DEF IInv
  <1>1. f \in Frame
    BY DEF TypeOK, Frame
  <1>2. WireLen(n, bs) \in Nat
    BY <1>1, FrameFacts
  <1>3. TypeOK'
    BY <1>1, <1>2 DEF TypeOK, SendPacket, reader
  <1>4. /\ Len(stream') = Len(stream) + 1
        /\ \A i \in 1 .. Len(stream) : stream'[i] = stream[i]
        /\ stream'[Len(stream) + 1] = f
        /\ stream' # <<>>
        /\ UNCHANGED <<delivered, rd, recv_seq, decPos, off, closed>>
        /\ ~closed
    BY <1>1 DEF TypeOK, SendPacket, reader
  <1>5. encPos' = encPos + Keystream(f)
    BY <1>1, <1>2 DEF SendPacket, Keystream, TypeOK
  <1>6. StreamInv'
    <2>1. send_seq' = Len(delivered') + Len(stream')
      BY <1>4 DEF SendPacket, StreamInv, TypeOK
    <2>2. ASSUME NEW i \in 1 .. Len(stream')
          PROVE  /\ stream'[i].id = Len(delivered') + i
                 /\ Serializable(stream'[i].len, bs)
                 /\ i < Len(stream') =>
                       stream'[i + 1].pos = stream'[i].pos + Keystream(stream'[i])
      <3>1. CASE i = Len(stream) + 1
        BY <1>4, <3>1 DEF SendPacket, StreamInv, TypeOK
      <3>2. CASE i \in 1 .. Len(stream) - 1
        <4>1. stream'[i] = stream[i] /\ stream'[i + 1] = stream[i + 1]
          BY <1>4, <3>2 DEF TypeOK
        <4> QED
          BY <1>4, <3>2, <4>1 DEF StreamInv, TypeOK
      <3>3. CASE i = Len(stream) /\ stream # <<>>
        <4>1. stream'[i] = stream[i] /\ stream'[i + 1] = f
          BY <1>4, <3>3 DEF TypeOK
        <4>2. f.pos = stream[i].pos + Keystream(stream[i])
          BY <3>3 DEF StreamInv
        <4> QED
          BY <1>4, <3>3, <4>1, <4>2 DEF StreamInv, TypeOK
      <3> QED
        BY <1>4, <3>1, <3>2, <3>3 DEF TypeOK
    <2>3. encPos' = stream'[Len(stream')].pos + Keystream(stream'[Len(stream')])
      BY <1>4, <1>5
    <2> QED
      BY <1>4, <2>1, <2>2, <2>3 DEF StreamInv
  <1>7. ReaderInv'
    <2>1. CASE stream = <<>>
      <3>1. stream'[1] = f
        BY <1>4, <2>1
      <3>2. NextPos' = NextPos
        BY <1>4, <2>1, <3>1 DEF NextPos
      <3> QED
        BY <1>4, <2>1, <3>2 DEF ReaderInv, AtFirst, AtRest, AtMac
    <2>2. CASE stream # <<>>
      <3>1. stream'[1] = stream[1]
        BY <1>4, <2>2 DEF TypeOK
      <3>2. NextPos' = NextPos
        BY <1>4, <2>2, <3>1 DEF NextPos
      <3> QED
        BY <1>4, <2>2, <3>1, <3>2 DEF ReaderInv, AtFirst, AtRest, AtMac
    <2> QED
      BY <2>1, <2>2
  <1> QED
    BY <1>3, <1>6, <1>7

\* One byte of the current frame that is not its last: the stream is as it was.
LEMMA WithinFrame ==
    ASSUME IInv, ConsumeByte, off + 1 < FrameLen(stream[1])
    PROVE  off' = off + 1 /\ UNCHANGED <<stream, writer>> /\ stream # <<>>
  BY DEF ConsumeByte, IInv, TypeOK

\* The last byte of the current frame, with which recv_packet returns.
LEMMA FrameDone ==
    ASSUME IInv, ConsumeByte, off + 1 = FrameLen(stream[1]), Deliver,
           decPos' = stream[1].pos + Keystream(stream[1]),
           recv_seq' = Len(delivered) + 1
    PROVE  IInv'
  <1> USE PacketIoAssumption, BlockFacts DEF IInv
  <1>1. stream # <<>> /\ stream[1] \in Frame /\ rd.cur \in Frame
    BY DEF ConsumeByte, TypeOK
  <1>2. FrameLen(stream[1]) \in Nat /\ Keystream(stream[1]) \in Nat
    BY <1>1, FrameFacts DEF Keystream
  <1>3. off' = 0 /\ stream' = Tail(stream) /\ UNCHANGED <<send_seq, encPos, closed>>
    BY <1>1, <1>2 DEF ConsumeByte, TypeOK, writer
  <1>4. /\ Len(stream') = Len(stream) - 1
        /\ \A i \in 1 .. Len(stream') : stream'[i] = stream[i + 1]
        /\ stream' \in Seq(Frame)
    BY <1>1, <1>3 DEF TypeOK
  <1>5. Len(delivered') = Len(delivered) + 1 /\ delivered' \in Seq(Nat)
    BY <1>1 DEF Deliver, TypeOK, Frame
  <1>6. rd' = FreshRead
    BY DEF Deliver
  <1>7. TypeOK'
    <2>1. FreshRead \in [at : ReadAt \cup EndAt, got : Nat, need : Nat, cur : Frame]
      BY DEF FreshRead, NoFrame, Frame, ReadAt
    <2>2. stream[1].pos \in Nat /\ Len(delivered) \in Nat
      BY <1>1 DEF Frame, TypeOK
    <2>3. decPos' \in Nat /\ recv_seq' \in Nat
      BY <1>2, <2>2
    <2> QED
      BY <1>3, <1>4, <1>5, <1>6, <2>1, <2>3 DEF TypeOK
  <1>8. StreamInv'
    <2>1. send_seq' = Len(delivered') + Len(stream')
      BY <1>3, <1>4, <1>5 DEF StreamInv, TypeOK
    <2>2. ASSUME NEW i \in 1 .. Len(stream')
          PROVE  /\ stream'[i].id = Len(delivered') + i
                 /\ Serializable(stream'[i].len, bs)
                 /\ i < Len(stream') =>
                       stream'[i + 1].pos = stream'[i].pos + Keystream(stream'[i])
      <3>1. i + 1 \in 1 .. Len(stream) /\ stream'[i] = stream[i + 1]
        BY <1>1, <1>4 DEF TypeOK
      <3>2. stream[i + 1].id = Len(delivered) + (i + 1) /\ Serializable(stream[i + 1].len, bs)
        BY <3>1 DEF StreamInv
      <3>3. ASSUME i < Len(stream')
            PROVE  stream'[i + 1].pos = stream'[i].pos + Keystream(stream'[i])
        <4> DEFINE j == i + 1
        <4>1. j \in 1 .. Len(stream') /\ j \in 1 .. Len(stream) /\ j < Len(stream)
          BY <1>1, <1>4, <3>3 DEF TypeOK
        <4>2. stream'[j] = stream[j + 1]
          BY <1>4, <4>1
        <4>3. stream[j + 1].pos = stream[j].pos + Keystream(stream[j])
          BY <4>1 DEF StreamInv
        <4> QED
          BY <3>1, <4>2, <4>3
      <3> QED
        BY <1>5, <3>1, <3>2, <3>3 DEF TypeOK
    <2>3. stream' # <<>> =>
             encPos' = stream'[Len(stream')].pos + Keystream(stream'[Len(stream')])
      BY <1>1, <1>3, <1>4 DEF StreamInv, TypeOK
    <2> QED
      BY <2>1, <2>2, <2>3 DEF StreamInv
  <1>9. decPos' = NextPos'
    <2>1. CASE stream' = <<>>
      <3>1. Len(stream) = 1
        BY <1>1, <1>4, <2>1 DEF TypeOK
      <3> QED
        BY <1>1, <1>3, <2>1, <3>1 DEF StreamInv, NextPos
    <2>2. CASE stream' # <<>>
      <3>1. 1 < Len(stream) /\ stream'[1] = stream[2]
        BY <1>1, <1>4, <2>2 DEF TypeOK
      <3>2. stream[2].pos = stream[1].pos + Keystream(stream[1])
        BY <3>1 DEF StreamInv, TypeOK
      <3> QED
        BY <2>2, <3>1, <3>2 DEF NextPos
    <2> QED
      BY <2>1, <2>2
  <1>10. ReaderInv'
    BY <1>3, <1>5, <1>6, <1>9 DEF ReaderInv, AtFirst, FreshRead
  <1> QED
    BY <1>7, <1>8, <1>10

\* As long as no frame comes or goes, the stream is in order.
LEMMA StreamKept ==
    ASSUME StreamInv, UNCHANGED <<stream, send_seq, encPos, delivered>>
    PROVE  StreamInv'
  BY DEF StreamInv, Keystream

\* A byte that does not complete a read is not the last of its frame.
LEMMA ReadStaysInside ==
    ASSUME TypeOK, ReaderInv, stream # <<>>, stream[1] \in Frame, rd.at \in ReadAt,
           rd.got + 1 # rd.need
    PROVE  off + 1 < FrameLen(stream[1])
  <1> USE PacketIoAssumption, BlockFacts
  <1>1. rd.got \in Nat /\ rd.need \in Nat /\ off \in Nat
    BY DEF TypeOK
  <1>2. /\ WireLen(stream[1].len, bs) \in Nat /\ WireLen(stream[1].len, bs) >= bs + 4
        /\ FrameLen(stream[1]) = WireLen(stream[1].len, bs) + (IF Encrypted THEN 32 ELSE 0)
    BY FrameFacts
  <1>3. CASE rd.at = "first" /\ AtFirst
    BY <1>1, <1>2, <1>3 DEF AtFirst
  <1>4. CASE rd.at = "rest" /\ AtRest
    <2>1. rd.got + 1 < rd.need /\ off = bs + rd.got /\ rd.need = WireLen(stream[1].len, bs) - bs
      BY <1>1, <1>4 DEF AtRest
    <2>2. off + 1 < WireLen(stream[1].len, bs)
      BY <1>1, <1>2, <2>1
    <2> QED
      BY <1>1, <1>2, <2>2
  <1>5. CASE rd.at = "mac" /\ AtMac
    BY <1>1, <1>2, <1>5 DEF AtMac
  <1> QED
    BY <1>3, <1>4, <1>5 DEF ReaderInv, ReadAt

LEMMA ReadMoreInv ==
    ASSUME IInv, ReadMore
    PROVE  IInv'
  <1> USE PacketIoAssumption, BlockFacts DEF IInv
  <1>1. stream # <<>> /\ stream[1] \in Frame /\ rd.at \in ReadAt
    BY DEF ReadMore, ConsumeByte, TypeOK
  <1>2. /\ rd' = [rd EXCEPT !.got = rd.got + 1]
        /\ UNCHANGED <<recv_seq, decPos, delivered>>
        /\ rd.got + 1 # rd.need
    BY DEF ReadMore, LastByte
  <1>a. rd.got \in Nat /\ rd.need \in Nat /\ off \in Nat
    BY DEF TypeOK
  <1>3. off + 1 < FrameLen(stream[1])
    BY <1>1, <1>2, ReadStaysInside
  <1>4. off' = off + 1 /\ UNCHANGED <<stream, send_seq, encPos, closed>>
    BY <1>3, WithinFrame DEF ReadMore, writer
  <1>5. /\ rd'.at = rd.at /\ rd'.need = rd.need /\ rd'.cur = rd.cur /\ rd'.got = rd.got + 1
        /\ rd' \in [at : ReadAt \cup EndAt, got : Nat, need : Nat, cur : Frame]
    BY <1>2 DEF TypeOK
  <1>6. TypeOK'
    BY <1>2, <1>4, <1>5 DEF TypeOK
  <1>7. StreamInv'
    BY <1>2, <1>4, StreamKept
  <1>8. ReaderInv'
    <2>1. CASE rd.at = "first" /\ AtFirst
      BY <1>1, <1>2, <1>4, <1>5, <1>a, <2>1 DEF ReaderInv, AtFirst, NextPos
    <2>2. CASE rd.at = "rest" /\ AtRest
      <3>1. rd.got + 1 < rd.need /\ off + 1 = bs + (rd.got + 1)
        BY <1>2, <1>a, <2>2 DEF AtRest
      <3>2. AtRest'
        BY <1>1, <1>2, <1>4, <1>5, <2>2, <3>1 DEF AtRest
      <3> QED
        BY <1>5, <2>2, <3>2 DEF ReaderInv
    <2>3. CASE rd.at = "mac" /\ AtMac
      <3>1. WireLen(stream[1].len, bs) \in Nat
        BY <1>1, FrameFacts
      <3>2. rd.got + 1 < 32 /\ off + 1 = WireLen(stream[1].len, bs) + (rd.got + 1)
        BY <1>2, <1>a, <2>3, <3>1 DEF AtMac
      <3>3. AtMac'
        BY <1>1, <1>2, <1>4, <1>5, <2>3, <3>2 DEF AtMac
      <3> QED
        BY <1>5, <2>3, <3>3 DEF ReaderInv
    <2> QED
      BY <1>1, <2>1, <2>2, <2>3 DEF ReaderInv, ReadAt
  <1> QED
    BY <1>6, <1>7, <1>8

LEMMA FirstBlockReadInv ==
    ASSUME IInv, FirstBlockRead
    PROVE  IInv'
  <1> USE PacketIoAssumption, BlockFacts DEF IInv
  <1>1. stream # <<>> /\ stream[1] \in Frame /\ Head(stream) = stream[1]
    BY DEF FirstBlockRead, ConsumeByte, TypeOK
  <1>2. rd.at = "first" /\ AtFirst /\ off + 1 = bs /\ rd.need = bs
    BY DEF FirstBlockRead, LastByte, ReaderInv, AtFirst
  <1>3. off + 1 < FrameLen(stream[1])
    BY <1>1, <1>2, FrameFacts
  <1>4. off' = bs /\ UNCHANGED <<stream, send_seq, encPos, closed, recv_seq, delivered>>
    BY <1>2, <1>3, WithinFrame DEF FirstBlockRead, writer
  <1>5. Aligned
    BY <1>1, <1>2 DEF Aligned, AtFirst, NextPos
  <1>6. rd' = [at |-> "rest", got |-> 0, cur |-> stream[1], need |-> WireLen(stream[1].len, bs) - bs]
    BY <1>1, <1>5, FrameFacts DEF FirstBlockRead
  <1>7. decPos' = stream[1].pos + (IF Encrypted THEN bs ELSE 0)
    <2>1. decPos = stream[1].pos /\ stream[1].pos \in Nat
      BY <1>1, <1>2 DEF AtFirst, NextPos, Frame
    <2> QED
      BY <2>1 DEF FirstBlockRead
  <1>8. WireLen(stream[1].len, bs) - bs \in Nat /\ WireLen(stream[1].len, bs) - bs >= 4
    BY <1>1, FrameFacts
  <1>9. TypeOK'
    <2>1. decPos' \in Nat
      BY <1>1, <1>7 DEF Frame
    <2>2. rd' \in [at : ReadAt \cup EndAt, got : Nat, need : Nat, cur : Frame]
      BY <1>1, <1>6, <1>8 DEF ReadAt
    <2> QED
      BY <1>4, <2>1, <2>2 DEF TypeOK
  <1>10. StreamInv'
    BY <1>4, StreamKept
  <1>11. ReaderInv'
    BY <1>1, <1>2, <1>4, <1>6, <1>7, <1>8 DEF ReaderInv, AtRest, AtFirst
  <1> QED
    BY <1>9, <1>10, <1>11

LEMMA RestReadInv ==
    ASSUME IInv, RestRead
    PROVE  IInv'
  <1> USE PacketIoAssumption, BlockFacts DEF IInv
  <1>1. stream # <<>> /\ stream[1] \in Frame
    BY DEF RestRead, ConsumeByte, TypeOK
  <1>3. stream[1].pos \in Nat /\ WireLen(stream[1].len, bs) \in Nat
    BY <1>1, FrameFacts DEF Frame
  <1>a. rd.at = "rest" /\ AtRest /\ rd.got + 1 = rd.need
    BY DEF RestRead, LastByte, ReaderInv
  <1>2. rd.at = "rest" /\ AtRest /\ off + 1 = WireLen(stream[1].len, bs)
    <2>1. rd.got \in Nat
      BY DEF TypeOK
    <2> QED
      BY <1>3, <1>a, <2>1 DEF AtRest
  <1>4. decPos' = stream[1].pos + Keystream(stream[1])
    <2>1. CASE Encrypted
      <3>1. decPos' = decPos + rd.need
        BY <2>1 DEF RestRead
      <3> QED
        BY <1>3, <1>a, <2>1, <3>1 DEF AtRest, Keystream
    <2>2. CASE ~Encrypted
      BY <1>3, <1>a, <2>2 DEF RestRead, AtRest, Keystream
    <2> QED
      BY <2>1, <2>2
  <1>5. recv_seq' = Len(delivered) + 1
    BY <1>2 DEF RestRead, AtRest
  <1>6. CASE ~Encrypted
    <2>1. off + 1 = FrameLen(stream[1])
      BY <1>1, <1>2, <1>3, <1>6, FrameFacts
    <2> QED
      BY <1>4, <1>5, <1>6, <2>1, FrameDone DEF RestRead
  <1>7. CASE Encrypted
    <2>1. off + 1 < FrameLen(stream[1])
      BY <1>1, <1>2, <1>3, <1>7, FrameFacts
    <2>2. off' = off + 1 /\ UNCHANGED <<stream, send_seq, encPos, closed, delivered>>
      BY <1>7, <2>1, WithinFrame DEF RestRead, writer
    <2>3. rd' = [rd EXCEPT !.at = "mac", !.got = 0, !.need = 32]
      BY <1>7 DEF RestRead, MacSize, HMAC_SHA256_SIZE
    <2>4. /\ rd'.at = "mac" /\ rd'.got = 0 /\ rd'.need = 32 /\ rd'.cur = rd.cur
          /\ rd' \in [at : ReadAt \cup EndAt, got : Nat, need : Nat, cur : Frame]
      BY <2>3 DEF TypeOK, ReadAt
    <2>5. TypeOK'
      <3>1. decPos' \in Nat /\ recv_seq' \in Nat /\ off' \in Nat
        BY <1>3, <1>4, <1>5, <2>2 DEF Keystream, TypeOK
      <3> QED
        BY <2>2, <2>4, <3>1 DEF TypeOK
    <2>6. StreamInv'
      BY <2>2, StreamKept
    <2>7. ReaderInv'
      BY <1>1, <1>2, <1>4, <1>5, <1>7, <2>2, <2>4 DEF ReaderInv, AtMac, AtRest, Keystream
    <2> QED
      BY <2>5, <2>6, <2>7
  <1> QED
    BY <1>6, <1>7

LEMMA MacReadInv ==
    ASSUME IInv, MacRead
    PROVE  IInv'
  <1> USE PacketIoAssumption, BlockFacts DEF IInv
  <1>1. stream # <<>> /\ stream[1] \in Frame
    BY DEF MacRead, ConsumeByte, TypeOK
  <1>a. rd.at = "mac" /\ AtMac /\ rd.got + 1 = rd.need
    BY DEF MacRead, LastByte, ReaderInv
  <1>2. rd.at = "mac" /\ AtMac /\ off + 1 = WireLen(stream[1].len, bs) + 32
    <2>1. rd.got \in Nat /\ WireLen(stream[1].len, bs) \in Nat
      BY <1>1, FrameFacts DEF TypeOK
    <2> QED
      BY <1>a, <2>1 DEF AtMac
  <1>3. off + 1 = FrameLen(stream[1])
    BY <1>1, <1>2, FrameFacts DEF AtMac
  <1>4. decPos' = stream[1].pos + Keystream(stream[1]) /\ recv_seq' = Len(delivered) + 1
    BY <1>2 DEF MacRead, AtMac, Keystream
  <1>5. rd.cur.id = recv_seq
    <2>1. 1 \in 1 .. Len(stream)
      BY <1>1 DEF TypeOK
    <2> QED
      BY <1>2, <2>1 DEF AtMac, StreamInv
  <1> QED
    BY <1>3, <1>4, <1>5, FrameDone DEF MacRead

LEMMA ReadEofInv ==
    ASSUME IInv, ReadEof
    PROVE  IInv'
  <1> USE PacketIoAssumption, BlockFacts DEF IInv
  <1>1. rd.at = "first" /\ stream = <<>> /\ closed
    BY DEF ReadEof, ReaderInv, AtRest, AtMac, ReadAt
  <1>2. /\ rd' = [rd EXCEPT !.at = "closed"]
        /\ UNCHANGED <<stream, off, send_seq, encPos, closed, recv_seq, decPos, delivered>>
    BY <1>1 DEF ReadEof, writer
  <1>3. rd'.at = "closed" /\ rd' \in [at : ReadAt \cup EndAt, got : Nat, need : Nat, cur : Frame]
    BY <1>2 DEF TypeOK, EndAt
  <1>4. TypeOK'
    BY <1>2, <1>3 DEF TypeOK
  <1>5. StreamInv'
    BY <1>2, StreamKept
  <1> QED
    BY <1>1, <1>2, <1>3, <1>4, <1>5 DEF ReaderInv

LEMMA NextInv == IInv /\ [Next]_vars => IInv'
  <1> SUFFICES ASSUME IInv, [Next]_vars PROVE IInv'
    OBVIOUS
  <1>1. CASE \E n \in Payloads : SendPacket(n)
    BY <1>1, SendPacketInv
  <1>2. CASE CloseStream
    <2>1. UNCHANGED <<stream, off, send_seq, encPos, rd, recv_seq, decPos, delivered>>
          /\ closed' = TRUE
      BY <1>2 DEF CloseStream, reader
    <2>2. TypeOK'
      BY <2>1 DEF IInv, TypeOK
    <2>3. StreamInv'
      BY <2>1, StreamKept DEF IInv
    <2>4. ReaderInv'
      BY <2>1 DEF IInv, ReaderInv, AtFirst, AtRest, AtMac, NextPos
    <2> QED
      BY <2>2, <2>3, <2>4 DEF IInv
  <1>3. CASE ReadMore
    BY <1>3, ReadMoreInv
  <1>4. CASE FirstBlockRead
    BY <1>4, FirstBlockReadInv
  <1>5. CASE RestRead
    BY <1>5, RestReadInv
  <1>6. CASE MacRead
    BY <1>6, MacReadInv
  <1>7. CASE ReadEof
    BY <1>7, ReadEofInv
  <1>8. CASE UNCHANGED vars
    <2>1. UNCHANGED <<stream, off, send_seq, encPos, closed, rd, recv_seq, decPos, delivered>>
      BY <1>8 DEF vars, writer, reader
    <2> QED
      BY <2>1 DEF IInv, TypeOK, StreamInv, Keystream, ReaderInv, AtFirst, AtRest, AtMac, NextPos
  <1> QED
    BY <1>1, <1>2, <1>3, <1>4, <1>5, <1>6, <1>7, <1>8 DEF Next

-----------------------------------------------------------------------------
\* The inductive invariant holds throughout: the reader is always inside the
\* first frame of the stream, at the writer's keystream position and number.
THEOREM Invariance == Spec => []IInv
  BY InitInv, NextInv, PTL DEF Spec

\* The variables of the packet layer keep their types.
THEOREM TypeCorrect == Spec => []TypeOK
  <1>1. IInv => TypeOK
    BY DEF IInv
  <1> QED
    BY <1>1, Invariance, PTL

\* recv_packet never misreads a stream that send_packet wrote: no packet fails
\* its MAC, has a senseless length or underflows the second read.
THEOREM Synchronised == Spec => []NeverDesynchronised
  <1>1. IInv => NeverDesynchronised
    BY DEF IInv, ReaderInv, NeverDesynchronised
  <1> QED
    BY <1>1, Invariance, PTL

\* ConnectionClosed is reported only after every packet has been returned.
THEOREM ClosedComplete == Spec => []ClosedAfterAll
  <1>1. IInv => ClosedAfterAll
    BY DEF IInv, TypeOK, StreamInv, ReaderInv, ClosedAfterAll
  <1> QED
    BY <1>1, Invariance, PTL

-----------------------------------------------------------------------------
(* Refinement: the numbers of the frames on the stream are the queue. *)

Ids(s) == [i \in DOMAIN s |-> s[i].id]

LEMMA IdsAreSeq ==
    ASSUME NEW s \in Seq(Frame)
    PROVE  Ids(s) \in Seq(Nat) /\ Len(Ids(s)) = Len(s)
  <1>1. DOMAIN Ids(s) = 1 .. Len(s) /\ Len(s) \in Nat
    BY DEF Ids
  <1>2. ASSUME NEW i \in 1 .. Len(s) PROVE Ids(s)[i] \in Nat
    <2>1. s[i] \in Frame /\ Ids(s)[i] = s[i].id
      BY DEF Ids
    <2> QED
      BY <2>1 DEF Frame
  <1>3. Ids(s) = [i \in 1 .. Len(s) |-> Ids(s)[i]]
    BY <1>1 DEF Ids
  <1> QED
    BY <1>1, <1>2, <1>3

LEMMA IdsAppend ==
    ASSUME NEW s \in Seq(Frame), NEW f \in Frame
    PROVE  Ids(Append(s, f)) = Append(Ids(s), f.id)
  <1>1. Ids(s) \in Seq(Nat) /\ Len(Ids(s)) = Len(s) /\ f.id \in Nat
    BY IdsAreSeq DEF Frame
  <1> DEFINE t == Append(s, f)
  <1>a. /\ t \in Seq(Frame) /\ Len(t) = Len(s) + 1 /\ DOMAIN t = 1 .. Len(s) + 1
        /\ t[Len(s) + 1] = f /\ \A i \in 1 .. Len(s) : t[i] = s[i]
        /\ Len(s) \in Nat
    OBVIOUS
  <1> HIDE DEF t
  <1>2. Ids(t) \in Seq(Nat) /\ Len(Ids(t)) = Len(s) + 1
    BY <1>a, IdsAreSeq
  <1>3. Append(Ids(s), f.id) \in Seq(Nat) /\ Len(Append(Ids(s), f.id)) = Len(s) + 1
    BY <1>1
  <1>4. ASSUME NEW i \in 1 .. Len(s) + 1
        PROVE  Ids(t)[i] = Append(Ids(s), f.id)[i]
    <2>1. Ids(t)[i] = t[i].id
      BY <1>a DEF Ids
    <2>2. CASE i = Len(s) + 1
      BY <1>1, <1>a, <2>1, <2>2
    <2>3. CASE i \in 1 .. Len(s)
      <3>1. Append(Ids(s), f.id)[i] = Ids(s)[i] /\ Ids(s)[i] = s[i].id
        BY <1>1, <2>3 DEF Ids
      <3> QED
        BY <1>a, <2>1, <2>3, <3>1
    <2>4. i = Len(s) + 1 \/ i \in 1 .. Len(s)
      BY <1>a
    <2> QED
      BY <2>2, <2>3, <2>4
  <1>5. Ids(t) = Append(Ids(s), f.id)
    BY <1>2, <1>3, <1>4, SeqEqual
  <1> QED
    BY <1>5 DEF t

LEMMA IdsTail ==
    ASSUME NEW s \in Seq(Frame), s # <<>>
    PROVE  Ids(Tail(s)) = Tail(Ids(s)) /\ Head(Ids(s)) = s[1].id /\ Ids(s) # <<>>
  <1>1. Ids(s) \in Seq(Nat) /\ Len(Ids(s)) = Len(s) /\ Ids(s) # <<>>
    BY IdsAreSeq
  <1>2. Tail(s) \in Seq(Frame) /\ Len(Tail(s)) = Len(s) - 1
    OBVIOUS
  <1>3. Ids(Tail(s)) \in Seq(Nat) /\ Len(Ids(Tail(s))) = Len(s) - 1
    BY <1>2, IdsAreSeq
  <1>4. Tail(Ids(s)) \in Seq(Nat) /\ Len(Tail(Ids(s))) = Len(s) - 1
    BY <1>1
  <1>5. ASSUME NEW i \in 1 .. Len(s) - 1
        PROVE  Ids(Tail(s))[i] = Tail(Ids(s))[i]
    BY <1>1, <1>2 DEF Ids
  <1>6. Ids(Tail(s)) = Tail(Ids(s))
    BY <1>3, <1>4, <1>5, SeqEqual
  <1> QED
    BY <1>1, <1>6 DEF Ids

\* A byte that is not a frame's last leaves the queue alone.
LEMMA QueueStutters ==
    ASSUME UNCHANGED <<stream, delivered>>
    PROVE  UNCHANGED Queue!vars
  BY DEF Queue!vars

\* recv_packet returning a packet is the queue's Receive.
LEMMA DeliverIsReceive ==
    ASSUME IInv, ConsumeByte, off + 1 = FrameLen(stream[1]), Deliver, rd.cur = stream[1]
    PROVE  Queue!Receive
  <1>1. stream # <<>> /\ stream[1] \in Frame /\ stream \in Seq(Frame)
    BY DEF ConsumeByte, IInv, TypeOK
  <1>2. stream' = Tail(stream)
    BY <1>1, FrameFacts, PacketIoAssumption DEF ConsumeByte, IInv, TypeOK
  <1>3. delivered' = Append(delivered, stream[1].id)
    BY DEF Deliver
  <1> QED
    BY <1>1, <1>2, <1>3, IdsTail DEF Queue!Receive, Ids

LEMMA StepRefines == IInv /\ [Next]_vars => [Queue!Next]_(Queue!vars)
  <1> SUFFICES ASSUME IInv, [Next]_vars PROVE [Queue!Next]_(Queue!vars)
    OBVIOUS
  <1> USE PacketIoAssumption, BlockFacts
  <1>1. ASSUME NEW n \in Payloads, SendPacket(n) PROVE Queue!Send
    <2> DEFINE f == [id |-> send_seq + 1, len |-> n, pos |-> encPos]
    <2>1. f \in Frame /\ stream \in Seq(Frame) /\ delivered \in Seq(Nat)
      BY <1>1 DEF IInv, TypeOK, Frame
    <2>2. Len(Ids(stream)) = Len(stream) /\ send_seq = Len(delivered) + Len(stream)
      BY <2>1, IdsAreSeq DEF IInv, StreamInv
    <2>3. stream' = Append(stream, f) /\ UNCHANGED delivered /\ send_seq < MaxPackets
      BY <1>1 DEF SendPacket, reader
    <2>4. Ids(stream') = Append(Ids(stream), send_seq + 1)
      BY <2>1, <2>3, IdsAppend
    <2> QED
      BY <2>2, <2>3, <2>4 DEF Queue!Send, Ids
  <1>2. CASE CloseStream
    BY <1>2, QueueStutters DEF CloseStream, reader
  <1>3. CASE ReadMore
    <2>1. UNCHANGED stream
      <3>1. stream # <<>> /\ stream[1] \in Frame /\ rd.at \in ReadAt /\ rd.got + 1 # rd.need
        BY <1>3 DEF ReadMore, ConsumeByte, LastByte, IInv, TypeOK
      <3>2. off + 1 < FrameLen(stream[1])
        BY <3>1, ReadStaysInside DEF IInv
      <3> QED
        BY <1>3, <3>2, WithinFrame DEF ReadMore
    <2> QED
      BY <1>3, <2>1, QueueStutters DEF ReadMore
  <1>4. CASE FirstBlockRead
    <2>1. stream # <<>> /\ stream[1] \in Frame /\ off + 1 = bs
      BY <1>4 DEF FirstBlockRead, ConsumeByte, LastByte, IInv, TypeOK, ReaderInv, AtFirst
    <2>2. UNCHANGED stream
      BY <1>4, <2>1, FrameFacts, WithinFrame DEF FirstBlockRead
    <2> QED
      BY <1>4, <2>2, QueueStutters DEF FirstBlockRead
  <1>5. CASE RestRead
    <2>1. stream # <<>> /\ stream[1] \in Frame
      BY <1>5 DEF RestRead, ConsumeByte, IInv, TypeOK
    <2>2. AtRest /\ rd.got + 1 = rd.need /\ rd.got \in Nat
      BY <1>5 DEF RestRead, LastByte, IInv, ReaderInv, TypeOK
    <2>3. off + 1 = WireLen(stream[1].len, bs)
      BY <2>1, <2>2, FrameFacts DEF AtRest
    <2>4. CASE Encrypted
      BY <1>5, <2>1, <2>3, <2>4, FrameFacts, WithinFrame, QueueStutters DEF RestRead
    <2>5. CASE ~Encrypted
      BY <1>5, <2>1, <2>2, <2>3, <2>5, FrameFacts, DeliverIsReceive DEF RestRead, AtRest, Queue!Next
    <2> QED
      BY <2>4, <2>5
  <1>6. CASE MacRead
    <2>1. stream # <<>> /\ stream[1] \in Frame
      BY <1>6 DEF MacRead, ConsumeByte, IInv, TypeOK
    <2>2. AtMac /\ rd.got + 1 = rd.need /\ rd.got \in Nat
      BY <1>6 DEF MacRead, LastByte, IInv, ReaderInv, TypeOK
    <2>3. off + 1 = FrameLen(stream[1])
      BY <2>1, <2>2, FrameFacts DEF AtMac
    <2>4. rd.cur.id = recv_seq
      <3>1. 1 \in 1 .. Len(stream)
        BY <2>1 DEF IInv, TypeOK
      <3> QED
        BY <2>2, <3>1 DEF AtMac, IInv, StreamInv
    <2> QED
      BY <1>6, <2>2, <2>3, <2>4, DeliverIsReceive DEF MacRead, AtMac, Queue!Next
  <1>7. CASE ReadEof
    BY <1>7, QueueStutters DEF ReadEof
  <1>8. CASE UNCHANGED vars
    BY <1>8, QueueStutters DEF vars, reader
  <1> QED
    BY <1>1, <1>2, <1>3, <1>4, <1>5, <1>6, <1>7, <1>8 DEF Next, Queue!Next

\* send_packet and recv_packet, reading and writing byte by byte, are a queue of
\* packets: each packet is returned once, in the order sent, and none is lost.
THEOREM Refinement == Spec => ImplementsQueue
  <1>1. Init => Queue!Init
    BY DEF Init, Queue!Init
  <1> QED
    BY <1>1, StepRefines, Invariance, PTL DEF Spec, ImplementsQueue, Queue!Spec
=============================================================================
