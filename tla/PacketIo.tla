------------------------------ MODULE PacketIo ------------------------------
(***************************************************************************)
(* One direction of the packet layer, byte by byte: send_packet writes a   *)
(* packet and its MAC to the TCP stream, recv_packet takes them off it in  *)
(* three read_exact calls (first block, rest, MAC), each of which may wait *)
(* for bytes that have not arrived.  Two counters that no message carries  *)
(* have to agree on both sides for a packet to be readable: the position   *)
(* in the AES-CTR keystream and the sequence number under the MAC.         *)
(*                                                                         *)
(* Here recv_packet, once called, runs to its end, as it does everywhere   *)
(* but in the interactive client (module InteractiveIo).                   *)
(***************************************************************************)
EXTENDS PacketLayout, Sequences

CONSTANTS Payloads,       \* payload lengths send_packet is called with
          Encrypted,      \* TRUE once SessionKeys holds ciphers and MAC keys
          MaxPackets      \* bound: packets sent in one behaviour

ASSUME PacketIoAssumption ==
    /\ Payloads \subseteq Nat
    /\ Encrypted \in BOOLEAN
    /\ MaxPackets \in Nat

bs == BlockSize(Encrypted)

VARIABLES stream,     \* frames written and not wholly consumed
          off,        \* bytes of the first frame already consumed
          send_seq,   \* packets written so far
          encPos,     \* keystream bytes used by the writer's cipher
          closed,     \* the writer has dropped its end of the connection
          rd,         \* the read_exact in progress in recv_packet
          recv_seq,
          decPos,     \* keystream bytes used by the reader's cipher
          delivered   \* the packets recv_packet has returned

writer == <<send_seq, encPos, closed>>
reader == <<rd, recv_seq, decPos, delivered>>
vars   == <<stream, off, writer, reader>>

\* A packet on the wire: its number, payload length and keystream position.
Frame == [id : Nat, len : Nat, pos : Nat]

NoFrame == [id |-> 0, len |-> 0, pos |-> 0]

FrameLen(f) == WireLen(f.len, bs) + MacSize(Encrypted)

ReadAt == {"first", "rest", "mac"}
EndAt  == {"closed", "io_error", "failed"}

FreshRead == [at |-> "first", got |-> 0, need |-> bs, cur |-> NoFrame]

TypeOK ==
    /\ stream \in Seq(Frame)
    /\ off \in Nat
    /\ send_seq \in 0 .. MaxPackets
    /\ encPos \in Nat
    /\ closed \in BOOLEAN
    /\ rd \in [at : ReadAt \cup EndAt, got : Nat, need : Nat, cur : Frame]
    /\ recv_seq \in Nat
    /\ decPos \in Nat
    /\ delivered \in Seq(Nat)

Init ==
    /\ stream = <<>>
    /\ off = 0
    /\ send_seq = 0
    /\ encPos = 0
    /\ closed = FALSE
    /\ rd = FreshRead
    /\ recv_seq = 0
    /\ decPos = 0
    /\ delivered = <<>>

-----------------------------------------------------------------------------
(* The writer. *)

\* send_packet: serialize, take a sequence number, encrypt, write, flush.
SendPacket(n) ==
    /\ ~closed
    /\ send_seq < MaxPackets
    /\ Serializable(n, bs)
    /\ stream' = Append(stream, [id |-> send_seq + 1, len |-> n, pos |-> encPos])
    /\ send_seq' = send_seq + 1
    /\ encPos' = IF Encrypted THEN encPos + WireLen(n, bs) ELSE encPos
    /\ UNCHANGED <<off, closed, reader>>

CloseStream ==
    /\ ~closed
    /\ closed' = TRUE
    /\ UNCHANGED <<stream, off, send_seq, encPos, reader>>

-----------------------------------------------------------------------------
(* The reader. *)

\* One byte leaves the stream.
ConsumeByte ==
    /\ rd.at \in ReadAt
    /\ stream # <<>>
    /\ IF off + 1 < FrameLen(Head(stream))
       THEN /\ off' = off + 1
            /\ UNCHANGED stream
       ELSE /\ off' = 0
            /\ stream' = Tail(stream)
    /\ UNCHANGED writer

LastByte == rd.got + 1 = rd.need

\* read_exact has part of what it asked for and waits for more.
ReadMore ==
    /\ ConsumeByte
    /\ ~LastByte
    /\ rd' = [rd EXCEPT !.got = @ + 1]
    /\ UNCHANGED <<recv_seq, decPos, delivered>>

\* The block just read began on a packet boundary and is decrypted with the
\* keystream it was encrypted with: only then is its length field meaningful.
Aligned ==
    /\ off + 1 = rd.need
    /\ Encrypted => decPos = Head(stream).pos

\* Faulty: the cipher is not advanced over the first block.
FirstBlockReadNoAdvance ==
    /\ rd.at = "first"
    /\ LastByte
    /\ ConsumeByte
    /\ UNCHANGED decPos
    /\ LET f == Head(stream)
       IN  rd' = IF Aligned
                 THEN [at   |-> "rest", got |-> 0, cur |-> f,
                       need |-> Remaining(PacketLength(f.len, bs), bs)]
                 ELSE [rd EXCEPT !.at = "failed"]
    /\ UNCHANGED <<recv_seq, delivered>>

\* The first block is complete and decrypted; packet_length decides what is
\* read next.  A length made of noise ends in InvalidPacket, in an underflow
\* of `total - block_size' or, some bytes later, in MacMismatch.
FirstBlockRead ==
    /\ rd.at = "first"
    /\ LastByte
    /\ ConsumeByte
    /\ decPos' = IF Encrypted THEN decPos + bs ELSE decPos
    /\ LET f == Head(stream)
       IN  rd' = IF Aligned
                 THEN [at   |-> "rest", got |-> 0, cur |-> f,
                       need |-> Remaining(PacketLength(f.len, bs), bs)]
                 ELSE [rd EXCEPT !.at = "failed"]
    /\ UNCHANGED <<recv_seq, delivered>>

\* deserialize hands the packet to the caller.
Deliver ==
    /\ delivered' = Append(delivered, rd.cur.id)
    /\ rd' = FreshRead

\* The rest is complete: the keystream and the sequence number advance before
\* the MAC is awaited.
RestRead ==
    /\ rd.at = "rest"
    /\ LastByte
    /\ ConsumeByte
    /\ decPos' = IF Encrypted THEN decPos + rd.need ELSE decPos
    /\ recv_seq' = recv_seq + 1
    /\ IF Encrypted
       THEN /\ rd' = [rd EXCEPT !.at = "mac", !.got = 0, !.need = MacSize(Encrypted)]
            /\ UNCHANGED delivered
       ELSE Deliver

\* verify_hmac: the MAC covers the sequence number, which is not transmitted.
MacRead ==
    /\ rd.at = "mac"
    /\ LastByte
    /\ ConsumeByte
    /\ IF rd.cur.id = recv_seq
       THEN Deliver
       ELSE /\ rd' = [rd EXCEPT !.at = "failed"]
            /\ UNCHANGED delivered
    /\ UNCHANGED <<recv_seq, decPos>>

\* Faulty: the end of the stream is noticed while bytes are still unread.
ReadEofEarly ==
    /\ closed
    /\ rd = FreshRead
    /\ rd' = [rd EXCEPT !.at = "closed"]
    /\ UNCHANGED <<stream, off, writer, recv_seq, decPos, delivered>>

\* Faulty: the end of the stream is noticed only inside a packet.
ReadEofInsideOnly ==
    /\ closed
    /\ stream = <<>>
    /\ rd.at \in ReadAt
    /\ rd.got > 0
    /\ rd' = [rd EXCEPT !.at = "io_error"]
    /\ UNCHANGED <<stream, off, writer, recv_seq, decPos, delivered>>

\* The stream has ended: UnexpectedEof is ConnectionClosed while the first
\* block is read and an I/O error afterwards.
ReadEof ==
    /\ closed
    /\ stream = <<>>
    /\ rd.at \in ReadAt
    /\ rd' = [rd EXCEPT !.at = IF @ = "first" THEN "closed" ELSE "io_error"]
    /\ UNCHANGED <<stream, off, writer, recv_seq, decPos, delivered>>

-----------------------------------------------------------------------------
Read == ReadMore \/ FirstBlockRead \/ RestRead \/ MacRead \/ ReadEof

Next ==
    \/ \E n \in Payloads : SendPacket(n)
    \/ CloseStream
    \/ ReadMore
    \/ FirstBlockRead
    \/ RestRead
    \/ MacRead
    \/ ReadEof

Spec == Init /\ [][Next]_vars

\* TCP delivers what was written and tokio polls a task whose socket is ready;
\* the writer's connection ends at some point.
FairSpec == Spec /\ WF_vars(Read) /\ WF_vars(CloseStream)

-----------------------------------------------------------------------------
(* Properties. *)

\* io.rs:112 "Reassemble full packet data": recv_packet makes sense of every
\* stream a send_packet produced, whatever the moments at which the bytes
\* arrive and the caller polls.
NeverDesynchronised == rd.at # "failed"

\* An orderly end of the connection is reported (ConnectionClosed, on which the
\* callers leave their loops normally) only once every packet was returned.
ClosedAfterAll == rd.at = "closed" => Len(delivered) = send_seq

\* The reader comes to the end of the stream having returned every packet: it
\* never waits for bytes that were not written.
AllDelivered == <>(rd.at = "closed" /\ Len(delivered) = send_seq)

\* The byte-level reader and writer implement the packet queue: a packet leaves
\* the queue in the very step in which recv_packet returns it.
Queue == INSTANCE PacketQueue
    WITH queue    <- [i \in DOMAIN stream |-> stream[i].id],
         received <- delivered

ImplementsQueue == Queue!Spec
=============================================================================
