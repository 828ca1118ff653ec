------------------------------ MODULE Transport ------------------------------
(***************************************************************************)
(* What the two programs share: the TCP connection between them, packets   *)
(* protected by the keys of the moment (transport/io.rs, session/mod.rs)   *)
(* and the key exchange that produces those keys (transport/kex.rs,        *)
(* crypto/mod.rs).  A program is a task that alternates between writing    *)
(* the packets a handler produced (`out') and reading one packet; module   *)
(* PacketIo shows that a packet may be treated as one step.                *)
(*                                                                         *)
(* Cryptography is symbolic: a hash or a derived key is the tuple of what  *)
(* it was computed from, so that two are equal only if all inputs are.     *)
(***************************************************************************)
EXTENDS PacketLayout, Sequences

CONSTANTS SeqMod,       \* sequence numbers wrap here: 2^32 in the code
          MaxNoise,     \* bound: frames damaged in one behaviour
          MayReset      \* whether the network may break the connection

ASSUME TransportAssumption ==
    /\ SeqMod \in Nat \ {0}
    /\ MaxNoise \in Nat
    /\ MayReset \in BOOLEAN

VARIABLES pc,           \* where each program is; "done" once it returned
          out,          \* packets its current handler has still to write
          res,          \* what it returned
          keys,         \* its SessionKeys
          kex,          \* what it learned from the other in the key exchange
          inbox,        \* frames on their way to it
          reset,        \* a TCP RST is on the connection
          noise         \* frames damaged so far

transport == <<pc, out, res, keys, kex, inbox, reset, noise>>

Peer == {"client", "server"}
Other(p) == IF p = "client" THEN "server" ELSE "client"

-----------------------------------------------------------------------------
(* Packets: the string fields of the payload and its integer fields. *)

SSH_VERSION_STRING == "SSH-2.0-SwiftSSH_0.1"
HOST_KEY           == "swiftssh-server-host-key"

Text  == STRING
Empty == ""

\* The words of the protocol, which are strings: TLC knows, the prover does not.
Words == {Empty, SSH_VERSION_STRING, HOST_KEY, "kexinit_c", "kexinit_s", "pub_c", "pub_s",
          "signature", "noise", "short", "ssh-userauth", "ssh-connection", "password",
          "session", "exec", "shell", "Session ended", "line", "output", "response"}

ASSUME WordsAssumption == Words \subseteq Text

MessageType ==
    {"Disconnect", "Ignore", "Unimplemented", "Debug", "ServiceRequest", "ServiceAccept",
     "KexInit", "NewKeys", "KexEcdhInit", "KexEcdhReply",
     "UserAuthRequest", "UserAuthFailure", "UserAuthSuccess", "UserAuthBanner",
     "GlobalRequest", "RequestSuccess", "RequestFailure", "ChannelOpen",
     "ChannelOpenConfirmation", "ChannelOpenFailure", "ChannelWindowAdjust", "ChannelData",
     "ChannelExtendedData", "ChannelEof", "ChannelClose", "ChannelRequest",
     "ChannelSuccess", "ChannelFailure"}

\* How many of each the builders put into a packet and the parsers take out.
TextFields == [Version |-> 1, KexInit |-> 1, KexEcdhInit |-> 1, KexEcdhReply |-> 3,
               ServiceRequest |-> 1, UserAuthRequest |-> 4]
NumFields  == [ChannelOpen |-> 2, ChannelOpenConfirmation |-> 3, ChannelRequest |-> 1,
               ChannelSuccess |-> 1, ChannelFailure |-> 1, ChannelData |-> 2,
               ChannelWindowAdjust |-> 2, ChannelEof |-> 1, ChannelClose |-> 1]

Packet ==
    {m \in [type : MessageType \cup {"Version"}, text : Seq(Text), num : Seq(Nat),
            want : BOOLEAN] :
        /\ m.type \in DOMAIN TextFields => Len(m.text) = TextFields[m.type]
        /\ m.type \in DOMAIN NumFields  => Len(m.num) = NumFields[m.type]}

SshPacket(type, text, num) ==
    [type |-> type, text |-> text, num |-> num, want |-> FALSE]

\* A string field that the receiver's parser refuses: longer than the payload,
\* not UTF-8, or a public key that is not 32 bytes.  A KEXINIT is not parsed.
Unreadable(m) == m.type # "KexInit" /\ \E i \in DOMAIN m.text : m.text[i] = "short"

\* Only channel data can be long: recipient, length prefix and the bytes.
PayloadLen(m) == IF m.type = "ChannelData" THEN 8 + m.num[2] ELSE 0

-----------------------------------------------------------------------------
(* The key exchange. *)

\* What a program contributes: its version, its KEXINIT payload (which begins
\* with a random cookie), its ephemeral public key and, the server, a host key.
Own(p) == [version  |-> SSH_VERSION_STRING,
           kexinit  |-> IF p = "client" THEN "kexinit_c" ELSE "kexinit_s",
           pub      |-> IF p = "client" THEN "pub_c" ELSE "pub_s",
           host_key |-> IF p = "client" THEN Empty ELSE HOST_KEY]

KexView == [version : Text, kexinit : Text, pub : Text, host_key : Text]

NothingYet == [version |-> Empty, kexinit |-> Empty, pub |-> Empty, host_key |-> Empty]

\* x25519: both sides arrive at the value determined by the two key pairs.
DiffieHellman(mine, theirs) == {mine, theirs}

\* Faulty: the host key is left out of the hash.
ExchangeHashNoHostKey(c, s, secret) ==
    <<c.version, s.version, c.kexinit, s.kexinit, c.pub, s.pub, secret>>

ExchangeHash(c, s, secret) ==
    <<c.version, s.version, c.kexinit, s.kexinit, s.host_key, c.pub, s.pub, secret>>

\* KexClient::complete and KexServer::complete.
KexComplete(p, peer) ==
    LET secret == DiffieHellman(Own(p).pub, peer.pub)
    IN  IF p = "client" THEN ExchangeHash(Own(p), peer, secret)
                        ELSE ExchangeHash(peer, Own(p), secret)

\* H holds the shared secret, and the session id is H itself.
DeriveKey(h, letter) == <<letter, h>>

NoKey == <<>>

Hash   == Text \X Text \X Text \X Text \X Text \X Text \X Text \X SUBSET Text
Key    == {NoKey} \cup ({"E", "F"} \X Hash)
Cipher == {NoKey} \cup (({"C", "D"} \X Hash) \X ({"A", "B"} \X Hash))

ClientToServer(h) == [cipher |-> <<DeriveKey(h, "C"), DeriveKey(h, "A")>>,
                      mac    |-> DeriveKey(h, "E")]
ServerToClient(h) == [cipher |-> <<DeriveKey(h, "D"), DeriveKey(h, "B")>>,
                      mac    |-> DeriveKey(h, "F")]

-----------------------------------------------------------------------------
(* SessionKeys. *)

SessionKeys ==
    [send_seq : 0 .. SeqMod - 1, recv_seq : 0 .. SeqMod - 1, enc : Cipher, dec : Cipher,
     send_mac_key : Key, recv_mac_key : Key]

NewSessionKeys ==
    [send_seq |-> 0, recv_seq |-> 0, enc |-> NoKey, dec |-> NoKey,
     send_mac_key |-> NoKey, recv_mac_key |-> NoKey]

WithKeys(k, send, recv) ==
    [k EXCEPT !.enc = send.cipher, !.send_mac_key = send.mac,
              !.dec = recv.cipher, !.recv_mac_key = recv.mac]

IsEncrypted(k) == k.enc # NoKey

NextSendSeq(k) == [k EXCEPT !.send_seq = (@ + 1) % SeqMod]
NextRecvSeq(k) == [k EXCEPT !.recv_seq = (@ + 1) % SeqMod]

-----------------------------------------------------------------------------
(* Frames: a packet under a cipher, and the MAC over key and number. *)

NoMac  == <<>>
BadMac == <<NoKey, 0>>

Frames == [msg : Packet, cipher : Cipher, mac : {NoMac} \cup (Key \X Nat)]

\* Over sequence number and packet; without a key there is no MAC.
compute_hmac(key, seq) == IF key = NoKey THEN NoMac ELSE <<key, seq>>

verify_hmac(key, seq, mac) == mac = compute_hmac(key, seq)

Frame(k, m) ==
    [msg |-> m, cipher |-> k.enc, mac |-> compute_hmac(k.send_mac_key, k.send_seq)]

Accepts(k, f) == f.cipher = k.dec /\ verify_hmac(k.recv_mac_key, k.recv_seq, f.mac)

-----------------------------------------------------------------------------
(* A program returns: its socket is closed with everything unread in it.   *)
(* Closing a socket that holds unread bytes sends an RST, and what the     *)
(* program wrote last may then never be read.                              *)

Return(p, result, unread) ==
    /\ pc' = [pc EXCEPT ![p] = "done"]
    /\ res' = [res EXCEPT ![p] = result]
    /\ out' = [out EXCEPT ![p] = <<>>]
    /\ reset' = (reset \/ unread # <<>>)
    /\ \E i \in 0 .. Len(inbox[Other(p)]) :
          /\ unread = <<>> => i = Len(inbox[Other(p)])
          /\ inbox' = [q \in Peer |-> IF q = p THEN <<>> ELSE SubSeq(inbox[q], 1, i)]
    /\ UNCHANGED noise

-----------------------------------------------------------------------------
(* Writing. *)

Fits(k, m) == Serializable(PayloadLen(m), BlockSize(IsEncrypted(k)))

\* send_packet or send_version_string.  To a socket that the other side has
\* closed a write succeeds until the answering RST is seen.
Send(p) ==
    /\ out[p] # <<>>
    /\ LET m == Head(out[p])
       IN  /\ Fits(keys[p], m)
           /\ inbox' = IF reset \/ pc[Other(p)] = "done" THEN inbox
                       ELSE [inbox EXCEPT ![Other(p)] = Append(@, Frame(keys[p], m))]
           /\ keys' = IF m.type = "Version" THEN keys
                      ELSE [keys EXCEPT ![p] = NextSendSeq(@)]
    /\ out' = [out EXCEPT ![p] = Tail(@)]
    /\ reset' = (reset \/ pc[Other(p)] = "done")
    /\ UNCHANGED <<pc, res, kex, noise>>

\* serialize refuses the packet before anything is written.
SendTooLarge(p) ==
    /\ out[p] # <<>>
    /\ ~Fits(keys[p], Head(out[p]))
    /\ Return(p, "InvalidPacket", inbox[p])
    /\ UNCHANGED <<keys, kex>>

SendFails(p) ==
    /\ out[p] # <<>>
    /\ reset
    /\ Return(p, "Io", inbox[p])
    /\ UNCHANGED <<keys, kex>>

Write(p) == Send(p) \/ SendTooLarge(p) \/ SendFails(p)

-----------------------------------------------------------------------------
(* Reading. *)

Reading(p) == pc[p] \notin {"activate", "bye", "done"} /\ out[p] = <<>>

Arrived(p) == Reading(p) /\ inbox[p] # <<>>

\* The next packet has arrived and is readable under p's keys.
Recv(p) == Arrived(p) /\ Accepts(keys[p], Head(inbox[p]))

Msg(p)  == Head(inbox[p]).msg
Rest(p) == Tail(inbox[p])

\* recv_packet counts; recv_version_string does not.
Counted(p) == IF pc[p] = "version" THEN keys[p] ELSE NextRecvSeq(keys[p])

\* The received packet is handled: p moves to `next', with packets to write.
Handled(p, next, packets) ==
    /\ pc' = [pc EXCEPT ![p] = next]
    /\ out' = [out EXCEPT ![p] = packets]
    /\ inbox' = [inbox EXCEPT ![p] = Tail(@)]
    /\ UNCHANGED <<res, reset, noise>>

\* ... or it makes the program return.
Rejected(p, result) ==
    /\ Return(p, result, Rest(p))
    /\ keys' = [keys EXCEPT ![p] = Counted(p)]
    /\ UNCHANGED kex

CountReceived(p) == keys' = [keys EXCEPT ![p] = Counted(p)] /\ UNCHANGED kex

\* What parsing an unreadable packet returns where p is.
ParseErrors(p) ==
    CASE pc[p] = "version"            -> {"Protocol"}
      [] pc[p] \in {"ecdh", "reply"}  -> {"InvalidPacket", "KeyExchange"}
      [] OTHER                        -> {"InvalidPacket"}

\* Bytes that do not verify.  Under the wrong key the length field is noise
\* too: too large, or too small for `total - block_size' (an underflow).
RecvGarbled(p) ==
    /\ Arrived(p)
    /\ ~Accepts(keys[p], Head(inbox[p]))
    /\ \E r \in {"MacMismatch", "InvalidPacket", "Panic"} :
          /\ Head(inbox[p]).cipher = keys[p].dec => r = "MacMismatch"
          /\ Return(p, r, Rest(p))
    /\ UNCHANGED <<keys, kex>>

\* Nothing more will arrive: what read_exact reports.
StreamEnded(p) ==
    /\ Reading(p)
    /\ inbox[p] = <<>>
    /\ reset \/ pc[Other(p)] = "done"

EndOfStream == {"ConnectionClosed"} \cup IF reset THEN {"Io"} ELSE {}

\* recv_packet(..).await? at a point where ConnectionClosed is an error too.
RecvFails(p, handled) ==
    /\ StreamEnded(p)
    /\ \E r \in EndOfStream :
          /\ r = "ConnectionClosed" => pc[p] \notin handled
          /\ Return(p, r, <<>>)
    /\ UNCHANGED <<keys, kex>>

-----------------------------------------------------------------------------
(* The network. *)

\* A frame is damaged: under a MAC that shows; in a handshake packet a field
\* or the message number changes and the packet stays well-formed.
Damaged(f) ==
    IF f.cipher # NoKey THEN {[f EXCEPT !.mac = BadMac]}
    ELSE {[f EXCEPT !.msg.type = "Debug"]}
         \cup {[f EXCEPT !.msg.text[i] = s] : i \in DOMAIN f.msg.text, s \in {"noise", "short"}}

Damage(p) ==
    /\ noise < MaxNoise
    /\ \E i \in DOMAIN inbox[p] : \E f \in Damaged(inbox[p][i]) :
          inbox' = [inbox EXCEPT ![p][i] = f]
    /\ noise' = noise + 1
    /\ UNCHANGED <<pc, out, res, keys, kex, reset>>

\* The connection breaks; of what is on its way some prefix still arrives.
Break ==
    /\ MayReset
    /\ ~reset
    /\ reset' = TRUE
    /\ \E i \in 0 .. Len(inbox["client"]), j \in 0 .. Len(inbox["server"]) :
          inbox' = [p \in Peer |-> SubSeq(inbox[p], 1, IF p = "client" THEN i ELSE j)]
    /\ UNCHANGED <<pc, out, res, keys, kex, noise>>

-----------------------------------------------------------------------------
Results == {"running", "Ok", "Io", "Protocol", "KeyExchange", "AuthFailed", "Channel",
            "MacMismatch", "InvalidPacket", "ConnectionClosed", "Panic"}

TransportTypeOK ==
    /\ out \in [Peer -> Seq(Packet)]
    /\ res \in [Peer -> Results]
    /\ keys \in [Peer -> SessionKeys]
    /\ kex \in [Peer -> KexView]
    /\ inbox \in [Peer -> Seq(Frames)]
    /\ reset \in BOOLEAN
    /\ noise \in 0 .. MaxNoise

\* main connected the two: each begins by sending its version string.
TransportInit ==
    /\ pc = [p \in Peer |-> "version"]
    /\ out = [p \in Peer |-> <<SshPacket("Version", <<SSH_VERSION_STRING>>, <<>>)>>]
    /\ res = [p \in Peer |-> "running"]
    /\ keys = [p \in Peer |-> NewSessionKeys]
    /\ kex = [p \in Peer |-> NothingYet]
    /\ inbox = [p \in Peer |-> <<>>]
    /\ reset = FALSE
    /\ noise = 0
=============================================================================
