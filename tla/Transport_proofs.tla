-------------------------- MODULE Transport_proofs --------------------------
(***************************************************************************)
(* What the steps of module Transport do to packets, frames and keys, for  *)
(* the proofs about the modules that extend it.                            *)
(***************************************************************************)
EXTENDS Transport, TLAPS

Elems(s) == {s[i] : i \in DOMAIN s}

LEMMA ElemsTyped ==
    ASSUME NEW X, NEW s \in Seq(X)
    PROVE  Elems(s) \subseteq X
  BY DEF Elems

LEMMA ElemsTail ==
    ASSUME NEW X, NEW s \in Seq(X), s # <<>>
    PROVE  /\ Head(s) \in Elems(s) /\ Head(s) \in X
           /\ Tail(s) \in Seq(X)
           /\ Elems(Tail(s)) \subseteq Elems(s)
  <1>1. /\ Len(s) \in Nat /\ Len(s) > 0 /\ DOMAIN s = 1 .. Len(s) /\ Head(s) = s[1]
        /\ Tail(s) \in Seq(X)
        /\ \A i \in DOMAIN Tail(s) : i + 1 \in DOMAIN s /\ Tail(s)[i] = s[i + 1]
    OBVIOUS
  <1> QED
    BY <1>1 DEF Elems

LEMMA ElemsAppend ==
    ASSUME NEW X, NEW s \in Seq(X), NEW x \in X
    PROVE  /\ Append(s, x) \in Seq(X)
           /\ Elems(Append(s, x)) \subseteq Elems(s) \cup {x}
  <1>1. /\ Append(s, x) \in Seq(X)
        /\ \A i \in DOMAIN Append(s, x) :
              Append(s, x)[i] = x \/ (i \in DOMAIN s /\ Append(s, x)[i] = s[i])
    OBVIOUS
  <1> QED
    BY <1>1 DEF Elems

LEMMA ElemsPrefix ==
    ASSUME NEW X, NEW s \in Seq(X), NEW i \in 0 .. Len(s)
    PROVE  /\ SubSeq(s, 1, i) \in Seq(X)
           /\ Elems(SubSeq(s, 1, i)) \subseteq Elems(s)
  <1>1. /\ SubSeq(s, 1, i) \in Seq(X)
        /\ \A j \in DOMAIN SubSeq(s, 1, i) : j \in DOMAIN s /\ SubSeq(s, 1, i)[j] = s[j]
    OBVIOUS
  <1> QED
    BY <1>1 DEF Elems

LEMMA ElemsReplace ==
    ASSUME NEW X, NEW s \in Seq(X), NEW i \in DOMAIN s, NEW x \in X
    PROVE  /\ [s EXCEPT ![i] = x] \in Seq(X)
           /\ Elems([s EXCEPT ![i] = x]) \subseteq Elems(s) \cup {x}
  <1>1. /\ [s EXCEPT ![i] = x] \in Seq(X)
        /\ DOMAIN [s EXCEPT ![i] = x] = DOMAIN s
        /\ \A j \in DOMAIN s : [s EXCEPT ![i] = x][j] = IF j = i THEN x ELSE s[j]
    OBVIOUS
  <1> QED
    BY <1>1 DEF Elems

LEMMA ElemsShort ==
    /\ Elems(<<>>) = {}
    /\ \A a : Elems(<<a>>) = {a}
    /\ \A a, b : Elems(<<a, b>>) = {a, b}
  BY DEF Elems

LEMMA Peers ==
    /\ \A p \in Peer : Other(p) \in Peer /\ Other(p) # p /\ Other(Other(p)) = p
    /\ \A p, q \in Peer : q = p \/ q = Other(p)
    /\ Other("client") = "server" /\ Other("server") = "client"
  BY DEF Peer, Other

-----------------------------------------------------------------------------
(* Packets. *)

LEMMA FieldCounts ==
    /\ DOMAIN TextFields = {"Version", "KexInit", "KexEcdhInit", "KexEcdhReply",
                            "ServiceRequest", "UserAuthRequest"}
    /\ TextFields["Version"] = 1 /\ TextFields["KexInit"] = 1 /\ TextFields["KexEcdhInit"] = 1
    /\ TextFields["KexEcdhReply"] = 3 /\ TextFields["ServiceRequest"] = 1
    /\ TextFields["UserAuthRequest"] = 4
    /\ DOMAIN NumFields = {"ChannelOpen", "ChannelOpenConfirmation", "ChannelRequest",
                           "ChannelSuccess", "ChannelFailure", "ChannelData",
                           "ChannelWindowAdjust", "ChannelEof", "ChannelClose"}
    /\ NumFields["ChannelOpen"] = 2 /\ NumFields["ChannelOpenConfirmation"] = 3
    /\ NumFields["ChannelRequest"] = 1 /\ NumFields["ChannelSuccess"] = 1
    /\ NumFields["ChannelFailure"] = 1 /\ NumFields["ChannelData"] = 2
    /\ NumFields["ChannelWindowAdjust"] = 2 /\ NumFields["ChannelEof"] = 1
    /\ NumFields["ChannelClose"] = 1
  BY DEF TextFields, NumFields

IsPacket(m, type, text, num) ==
    m \in Packet /\ m.type = type /\ m.text = text /\ m.num = num

LEMMA PacketTyped ==
    ASSUME NEW type \in MessageType \cup {"Version"},
           NEW text \in Seq(Text), NEW num \in Seq(Nat),
           type \in DOMAIN TextFields => Len(text) = TextFields[type],
           type \in DOMAIN NumFields => Len(num) = NumFields[type]
    PROVE  IsPacket(SshPacket(type, text, num), type, text, num)
  BY DEF SshPacket, Packet, IsPacket

LEMMA BarePacket ==
    ASSUME NEW type \in {"Disconnect", "NewKeys", "ServiceAccept",
                         "UserAuthSuccess", "UserAuthFailure"},
           NEW text \in Seq(Text), NEW num \in Seq(Nat)
    PROVE  IsPacket(SshPacket(type, text, num), type, text, num)
  <1>1. type \in MessageType /\ type \notin DOMAIN TextFields /\ type \notin DOMAIN NumFields
    BY FieldCounts DEF MessageType
  <1> QED
    BY <1>1, PacketTyped

LEMMA TextPacket ==
    ASSUME NEW type \in {"Version", "KexInit", "KexEcdhInit", "ServiceRequest"}, NEW x \in Text
    PROVE  IsPacket(SshPacket(type, <<x>>, <<>>), type, <<x>>, <<>>)
  <1>1. /\ type \in MessageType \cup {"Version"}
        /\ type \in DOMAIN TextFields => TextFields[type] = 1
        /\ type \notin DOMAIN NumFields
    BY FieldCounts DEF MessageType
  <1>2. <<x>> \in Seq(Text) /\ Len(<<x>>) = 1 /\ <<>> \in Seq(Nat)
    OBVIOUS
  <1> QED
    BY <1>1, <1>2, PacketTyped

LEMMA ReplyPacket ==
    ASSUME NEW x \in Text, NEW y \in Text, NEW z \in Text
    PROVE  IsPacket(SshPacket("KexEcdhReply", <<x, y, z>>, <<>>),
                    "KexEcdhReply", <<x, y, z>>, <<>>)
  <1>1. "KexEcdhReply" \in MessageType /\ "KexEcdhReply" \notin DOMAIN NumFields
    BY FieldCounts DEF MessageType
  <1>2. <<x, y, z>> \in Seq(Text) /\ Len(<<x, y, z>>) = 3 /\ <<>> \in Seq(Nat)
    OBVIOUS
  <1> QED
    BY <1>1, <1>2, FieldCounts, PacketTyped

LEMMA AuthPacket ==
    ASSUME NEW w \in Text, NEW x \in Text, NEW y \in Text, NEW z \in Text
    PROVE  IsPacket(SshPacket("UserAuthRequest", <<w, x, y, z>>, <<>>),
                    "UserAuthRequest", <<w, x, y, z>>, <<>>)
  <1>1. "UserAuthRequest" \in MessageType /\ "UserAuthRequest" \notin DOMAIN NumFields
    BY FieldCounts DEF MessageType
  <1>2. <<w, x, y, z>> \in Seq(Text) /\ Len(<<w, x, y, z>>) = 4 /\ <<>> \in Seq(Nat)
    OBVIOUS
  <1> QED
    BY <1>1, <1>2, FieldCounts, PacketTyped

LEMMA OneNumPacket ==
    ASSUME NEW type \in {"ChannelSuccess", "ChannelFailure", "ChannelEof", "ChannelClose",
                         "ChannelRequest"},
           NEW text \in Seq(Text), NEW n \in Nat
    PROVE  IsPacket(SshPacket(type, text, <<n>>), type, text, <<n>>)
  <1>1. /\ type \in MessageType /\ type \notin DOMAIN TextFields /\ NumFields[type] = 1
    BY FieldCounts DEF MessageType
  <1>2. <<n>> \in Seq(Nat) /\ Len(<<n>>) = 1
    OBVIOUS
  <1> QED
    BY <1>1, <1>2, PacketTyped

LEMMA TwoNumPacket ==
    ASSUME NEW type \in {"ChannelOpen", "ChannelData", "ChannelWindowAdjust"},
           NEW text \in Seq(Text), NEW n \in Nat, NEW k \in Nat
    PROVE  IsPacket(SshPacket(type, text, <<n, k>>), type, text, <<n, k>>)
  <1>1. /\ type \in MessageType /\ type \notin DOMAIN TextFields /\ NumFields[type] = 2
    BY FieldCounts DEF MessageType
  <1>2. <<n, k>> \in Seq(Nat) /\ Len(<<n, k>>) = 2
    OBVIOUS
  <1> QED
    BY <1>1, <1>2, PacketTyped

LEMMA ConfirmPacket ==
    ASSUME NEW n \in Nat, NEW k \in Nat, NEW l \in Nat
    PROVE  IsPacket(SshPacket("ChannelOpenConfirmation", <<>>, <<n, k, l>>),
                    "ChannelOpenConfirmation", <<>>, <<n, k, l>>)
  <1>1. /\ "ChannelOpenConfirmation" \in MessageType
        /\ "ChannelOpenConfirmation" \notin DOMAIN TextFields
    BY FieldCounts DEF MessageType
  <1>2. <<n, k, l>> \in Seq(Nat) /\ Len(<<n, k, l>>) = 3 /\ <<>> \in Seq(Text)
    OBVIOUS
  <1> QED
    BY <1>1, <1>2, FieldCounts, PacketTyped

LEMMA WantPacket ==
    ASSUME NEW m, NEW type, NEW text, NEW num, IsPacket(m, type, text, num), NEW w \in BOOLEAN
    PROVE  IsPacket([m EXCEPT !.want = w], type, text, num)
  BY DEF IsPacket, Packet

-----------------------------------------------------------------------------
(* Keys and frames. *)

LEMMA KeyTypes ==
    ASSUME NEW h \in Hash
    PROVE  /\ ClientToServer(h).cipher \in Cipher /\ ClientToServer(h).cipher # NoKey
           /\ ClientToServer(h).mac \in Key /\ ClientToServer(h).mac # NoKey
           /\ ServerToClient(h).cipher \in Cipher /\ ServerToClient(h).cipher # NoKey
           /\ ServerToClient(h).mac \in Key /\ ServerToClient(h).mac # NoKey
  BY DEF ClientToServer, ServerToClient, DeriveKey, Cipher, Key, NoKey

\* Keys are equal only if they come from the same exchange hash.
LEMMA KeysFromOneHash ==
    ASSUME NEW g, NEW h, ClientToServer(g).cipher = ClientToServer(h).cipher
    PROVE  g = h
  BY DEF ClientToServer, DeriveKey

LEMMA OwnTyped == \A p \in Peer : Own(p) \in KexView
  BY WordsAssumption DEF Own, KexView, Words, Peer

LEMMA HashTyped ==
    ASSUME NEW p \in Peer, NEW v \in KexView
    PROVE  KexComplete(p, v) \in Hash
  <1>1. Own(p) \in KexView
    BY OwnTyped
  <1>2. \A x, y \in KexView : \A z \in SUBSET Text : ExchangeHash(x, y, z) \in Hash
    BY DEF ExchangeHash, KexView, Hash
  <1>3. DiffieHellman(Own(p).pub, v.pub) \in SUBSET Text
    BY <1>1 DEF KexView, DiffieHellman
  <1> QED
    BY <1>1, <1>2, <1>3 DEF KexComplete

LEMMA SameView ==
    ASSUME NEW x \in KexView, NEW y \in KexView, x.version = y.version,
           x.kexinit = y.kexinit, x.pub = y.pub, x.host_key = y.host_key
    PROVE  x = y
  BY DEF KexView

\* The hash is the same only if each side saw what the other contributed.
LEMMA HashBinds ==
    ASSUME NEW v \in KexView, NEW w \in KexView, w.host_key = Empty,
           KexComplete("client", v) = KexComplete("server", w)
    PROVE  v = Own("server") /\ w = Own("client")
  <1>1. /\ v.version = Own("server").version /\ v.kexinit = Own("server").kexinit
        /\ v.pub = Own("server").pub /\ v.host_key = Own("server").host_key
        /\ w.version = Own("client").version /\ w.kexinit = Own("client").kexinit
        /\ w.pub = Own("client").pub /\ w.host_key = Own("client").host_key
    BY DEF KexComplete, ExchangeHash, Own
  <1>2. Own("server") \in KexView /\ Own("client") \in KexView
    BY OwnTyped DEF Peer
  <1> QED
    BY <1>1, <1>2, SameView

LEMMA FrameTyped ==
    ASSUME NEW k \in SessionKeys, NEW m \in Packet
    PROVE  /\ Frame(k, m) \in Frames
           /\ Frame(k, m).msg = m /\ Frame(k, m).cipher = k.enc
  BY TransportAssumption DEF Frame, Frames, SessionKeys, compute_hmac, NoMac, Key

\* A frame that verifies under a key has not been damaged since it was
\* encrypted.
LEMMA VerifiedFrame ==
    ASSUME NEW k, NEW f, Accepts(k, f), k.dec # NoKey, k.recv_mac_key # NoKey
    PROVE  f.cipher = k.dec /\ f.cipher # NoKey /\ f.mac # BadMac
  BY DEF Accepts, verify_hmac, compute_hmac, BadMac, NoMac

LEMMA DamageFacts ==
    ASSUME NEW f \in Frames, NEW g \in Damaged(f)
    PROVE  /\ g \in Frames
           /\ g.cipher = f.cipher
           /\ g.msg.type = f.msg.type \/ g.msg.type = "Debug"
           /\ g.msg.num = f.msg.num
           /\ f.cipher # NoKey => g.msg = f.msg /\ g.mac = BadMac
  <1>1. CASE f.cipher # NoKey
    <2>1. BadMac \in Key \X Nat
      BY DEF BadMac, Key, NoKey
    <2>2. g = [f EXCEPT !.mac = BadMac]
      BY <1>1 DEF Damaged
    <2> QED
      BY <2>1, <2>2 DEF Frames
  <1>2. CASE f.cipher = NoKey /\ g = [f EXCEPT !.msg.type = "Debug"]
    <2> DEFINE m == [f.msg EXCEPT !.type = "Debug"]
    <2>1. f.msg \in Packet
      BY DEF Frames
    <2>2. m \in Packet /\ m.type = "Debug" /\ m.num = f.msg.num
      <3>1. /\ "Debug" \in MessageType
            /\ "Debug" \notin DOMAIN TextFields /\ "Debug" \notin DOMAIN NumFields
        BY FieldCounts DEF MessageType
      <3> QED
        BY <2>1, <3>1 DEF Packet
    <2>3. g = [f EXCEPT !.msg = m]
      BY <1>2
    <2> HIDE DEF m
    <2> QED
      BY <1>2, <2>2, <2>3 DEF Frames
  <1>3. ASSUME f.cipher = NoKey, NEW i \in DOMAIN f.msg.text, NEW s \in {"noise", "short"},
               g = [f EXCEPT !.msg.text[i] = s]
        PROVE  /\ g \in Frames
               /\ g.cipher = f.cipher
               /\ g.msg.type = f.msg.type
               /\ g.msg.num = f.msg.num
    <2> DEFINE t == [f.msg.text EXCEPT ![i] = s]
               m == [f.msg EXCEPT !.text = t]
    <2>1. f.msg \in Packet /\ f.msg.text \in Seq(Text)
      BY DEF Frames, Packet
    <2>2. t \in Seq(Text) /\ Len(t) = Len(f.msg.text)
      <3>1. s \in Text
        BY WordsAssumption DEF Words
      <3> QED
        BY <2>1, <3>1
    <2>3. g = [f EXCEPT !.msg = m]
      BY <1>3
    <2> HIDE DEF t
    <2>4. m \in Packet /\ m.type = f.msg.type /\ m.num = f.msg.num
      BY <2>1, <2>2 DEF Packet
    <2> HIDE DEF m
    <2> QED
      BY <2>3, <2>4 DEF Frames
  <1> QED
    BY <1>1, <1>2, <1>3 DEF Damaged

-----------------------------------------------------------------------------
(* Steps. *)

\* A step that counts leaves the keys themselves alone.
SameKeys(k, l) ==
    /\ k.enc = l.enc /\ k.dec = l.dec
    /\ k.send_mac_key = l.send_mac_key /\ k.recv_mac_key = l.recv_mac_key

LEMMA CountingTyped ==
    ASSUME NEW k \in SessionKeys
    PROVE  /\ NextSendSeq(k) \in SessionKeys /\ SameKeys(NextSendSeq(k), k)
           /\ NextRecvSeq(k) \in SessionKeys /\ SameKeys(NextRecvSeq(k), k)
  <1>1. \A n \in 0 .. SeqMod - 1 : (n + 1) % SeqMod \in 0 .. SeqMod - 1
    BY TransportAssumption
  <1>2. k.send_seq \in 0 .. SeqMod - 1 /\ k.recv_seq \in 0 .. SeqMod - 1
    BY DEF SessionKeys
  <1> DEFINE s == (k.send_seq + 1) % SeqMod
             r == (k.recv_seq + 1) % SeqMod
  <1>3. s \in 0 .. SeqMod - 1 /\ r \in 0 .. SeqMod - 1
    BY <1>1, <1>2
  <1>4. NextSendSeq(k) = [k EXCEPT !.send_seq = s] /\ NextRecvSeq(k) = [k EXCEPT !.recv_seq = r]
    BY DEF NextSendSeq, NextRecvSeq
  <1> HIDE DEF s, r
  <1>5. [k EXCEPT !.send_seq = s] \in SessionKeys /\ [k EXCEPT !.recv_seq = r] \in SessionKeys
    BY <1>3 DEF SessionKeys
  <1>6. SameKeys([k EXCEPT !.send_seq = s], k) /\ SameKeys([k EXCEPT !.recv_seq = r], k)
    BY DEF SessionKeys, SameKeys
  <1> QED
    BY <1>4, <1>5, <1>6

LEMMA SwitchTyped ==
    ASSUME NEW k \in SessionKeys, NEW e \in Cipher, NEW d \in Cipher, NEW a \in Key, NEW b \in Key
    PROVE  LET l == WithKeys(k, [cipher |-> e, mac |-> a], [cipher |-> d, mac |-> b])
           IN  /\ l \in SessionKeys
               /\ l.enc = e /\ l.dec = d /\ l.send_mac_key = a /\ l.recv_mac_key = b
  BY DEF WithKeys, SessionKeys

\* p returns with a result: nothing is left for it, and of what is on its way to
\* the other side at most a prefix.
Gone(p, result) ==
    /\ pc' = [pc EXCEPT ![p] = "done"]
    /\ res' = [res EXCEPT ![p] = result]
    /\ out' = [out EXCEPT ![p] = <<>>]
    /\ inbox' \in [Peer -> Seq(Frames)]
    /\ inbox'[p] = <<>>
    /\ Elems(inbox'[Other(p)]) \subseteq Elems(inbox[Other(p)])
    /\ reset' \in BOOLEAN
    /\ noise' = noise
    /\ kex' = kex
    /\ keys' \in [Peer -> SessionKeys]
    /\ \A q \in Peer : SameKeys(keys'[q], keys[q])

LEMMA ReturnGone ==
    ASSUME TransportTypeOK, NEW p \in Peer, NEW result, NEW unread, Return(p, result, unread),
           UNCHANGED kex, keys' = keys \/ keys' = [keys EXCEPT ![p] = Counted(p)]
    PROVE  Gone(p, result)
  <1>1. PICK i \in 0 .. Len(inbox[Other(p)]) :
           inbox' = [q \in Peer |-> IF q = p THEN <<>> ELSE SubSeq(inbox[q], 1, i)]
    BY DEF Return
  <1>2. inbox[Other(p)] \in Seq(Frames)
    BY Peers DEF TransportTypeOK
  <1>3. /\ SubSeq(inbox[Other(p)], 1, i) \in Seq(Frames)
        /\ Elems(SubSeq(inbox[Other(p)], 1, i)) \subseteq Elems(inbox[Other(p)])
    BY <1>2, ElemsPrefix
  <1>4. /\ inbox'[p] = <<>> /\ inbox'[Other(p)] = SubSeq(inbox[Other(p)], 1, i)
        /\ inbox' \in [Peer -> Seq(Frames)]
    <2>1. \A q \in Peer : (IF q = p THEN <<>> ELSE SubSeq(inbox[q], 1, i)) \in Seq(Frames)
      BY <1>3, Peers
    <2> QED
      BY <1>1, <2>1, Peers
  <1>5. reset' \in BOOLEAN
    BY DEF Return, TransportTypeOK
  <1>6. keys' \in [Peer -> SessionKeys] /\ \A q \in Peer : SameKeys(keys'[q], keys[q])
    <2>1. keys \in [Peer -> SessionKeys] /\ keys[p] \in SessionKeys
      BY DEF TransportTypeOK
    <2>2. Counted(p) \in SessionKeys /\ SameKeys(Counted(p), keys[p])
      BY <2>1, CountingTyped DEF Counted, SameKeys
    <2> QED
      BY <2>1, <2>2 DEF SameKeys
  <1> QED
    BY <1>3, <1>4, <1>5, <1>6 DEF Return, Gone

LEMMA GoneTyped ==
    ASSUME TransportTypeOK, NEW p \in Peer, NEW result \in Results, Gone(p, result)
    PROVE  TransportTypeOK'
  <1>1. <<>> \in Seq(Packet)
    OBVIOUS
  <1> QED
    BY <1>1 DEF TransportTypeOK, Gone

\* A packet leaves the queue of p and may arrive, framed, at the other side.
Sent(p) ==
    /\ UNCHANGED <<pc, res, kex, noise>>
    /\ out[p] # <<>>
    /\ out' = [out EXCEPT ![p] = Tail(out[p])]
    /\ out'[p] \in Seq(Packet)
    /\ Elems(out'[p]) \subseteq Elems(out[p])
    /\ inbox' \in [Peer -> Seq(Frames)]
    /\ inbox'[p] = inbox[p]
    /\ Elems(inbox'[Other(p)]) \subseteq
          Elems(inbox[Other(p)]) \cup {Frame(keys[p], Head(out[p]))}
    /\ Head(out[p]) \in Elems(out[p]) /\ Head(out[p]) \in Packet
    /\ Frame(keys[p], Head(out[p])) \in Frames
    /\ Frame(keys[p], Head(out[p])).msg = Head(out[p])
    /\ Frame(keys[p], Head(out[p])).cipher = keys[p].enc
    /\ reset' \in BOOLEAN
    /\ keys' \in [Peer -> SessionKeys]
    /\ \A q \in Peer : SameKeys(keys'[q], keys[q])

LEMMA SendSent ==
    ASSUME TransportTypeOK, NEW p \in Peer, Send(p)
    PROVE  Sent(p) /\ TransportTypeOK'
  <1> DEFINE m == Head(out[p])
             f == Frame(keys[p], m)
             q == Other(p)
  <1>1. /\ q \in Peer /\ q # p /\ out[p] \in Seq(Packet) /\ out[p] # <<>>
        /\ keys[p] \in SessionKeys /\ inbox[q] \in Seq(Frames)
    BY Peers DEF TransportTypeOK, Send
  <1>2. /\ m \in Elems(out[p]) /\ m \in Packet
        /\ Tail(out[p]) \in Seq(Packet) /\ Elems(Tail(out[p])) \subseteq Elems(out[p])
    BY <1>1, ElemsTail
  <1>3. f \in Frames /\ f.msg = m /\ f.cipher = keys[p].enc
    BY <1>1, <1>2, FrameTyped
  <1>4. /\ Append(inbox[q], f) \in Seq(Frames)
        /\ Elems(Append(inbox[q], f)) \subseteq Elems(inbox[q]) \cup {f}
    BY <1>1, <1>3, ElemsAppend
  <1>5. inbox' = inbox \/ inbox' = [inbox EXCEPT ![q] = Append(inbox[q], f)]
    BY DEF Send
  <1>6. /\ inbox' \in [Peer -> Seq(Frames)] /\ inbox'[p] = inbox[p]
        /\ Elems(inbox'[q]) \subseteq Elems(inbox[q]) \cup {f}
    <2> HIDE DEF f, q
    <2> QED
      BY <1>1, <1>4, <1>5 DEF TransportTypeOK
  <1>7. keys' \in [Peer -> SessionKeys] /\ \A r \in Peer : SameKeys(keys'[r], keys[r])
    <2>1. keys' = keys \/ keys' = [keys EXCEPT ![p] = NextSendSeq(keys[p])]
      BY DEF Send
    <2>2. NextSendSeq(keys[p]) \in SessionKeys /\ SameKeys(NextSendSeq(keys[p]), keys[p])
      BY <1>1, CountingTyped
    <2> QED
      BY <2>1, <2>2 DEF TransportTypeOK, SameKeys
  <1>8. /\ out' = [out EXCEPT ![p] = Tail(out[p])] /\ reset' \in BOOLEAN
        /\ UNCHANGED <<pc, res, kex, noise>>
    BY DEF Send, TransportTypeOK
  <1>9. out'[p] = Tail(out[p]) /\ out' \in [Peer -> Seq(Packet)]
    BY <1>2, <1>8 DEF TransportTypeOK
  <1>10. Sent(p)
    BY <1>1, <1>2, <1>3, <1>6, <1>7, <1>8, <1>9 DEF Sent
  <1> QED
    BY <1>6, <1>7, <1>8, <1>9, <1>10 DEF TransportTypeOK

LEMMA DamageTyped ==
    ASSUME TransportTypeOK, NEW p \in Peer, Damage(p)
    PROVE  /\ TransportTypeOK'
           /\ inbox'[Other(p)] = inbox[Other(p)]
           /\ \E f \in Elems(inbox[p]) : \E g \in Damaged(f) :
                 Elems(inbox'[p]) \subseteq Elems(inbox[p]) \cup {g}
  <1>1. PICK i \in DOMAIN inbox[p] : \E d \in Damaged(inbox[p][i]) :
           inbox' = [inbox EXCEPT ![p] = [inbox[p] EXCEPT ![i] = d]]
    BY DEF Damage
  <1>2. PICK g \in Damaged(inbox[p][i]) :
           inbox' = [inbox EXCEPT ![p] = [inbox[p] EXCEPT ![i] = g]]
    BY <1>1
  <1>3. inbox[p] \in Seq(Frames) /\ inbox[p][i] \in Elems(inbox[p]) /\ inbox[p][i] \in Frames
    BY DEF TransportTypeOK, Elems
  <1>4. g \in Frames
    BY <1>3, DamageFacts
  <1>5. /\ [inbox[p] EXCEPT ![i] = g] \in Seq(Frames)
        /\ Elems([inbox[p] EXCEPT ![i] = g]) \subseteq Elems(inbox[p]) \cup {g}
    BY <1>3, <1>4, ElemsReplace
  <1> DEFINE s == [inbox[p] EXCEPT ![i] = g]
  <1> HIDE DEF s
  <1>6. /\ inbox' \in [Peer -> Seq(Frames)] /\ inbox'[Other(p)] = inbox[Other(p)]
        /\ inbox'[p] = s
    BY <1>2, <1>5, Peers DEF TransportTypeOK, s
  <1>7. noise' \in 0 .. MaxNoise
    BY TransportAssumption DEF TransportTypeOK, Damage
  <1>8. TransportTypeOK'
    BY <1>6, <1>7 DEF TransportTypeOK, Damage
  <1> QED
    BY <1>3, <1>5, <1>6, <1>8 DEF s

LEMMA BreakTyped ==
    ASSUME TransportTypeOK, Break
    PROVE  /\ TransportTypeOK'
           /\ \A p \in Peer : Elems(inbox'[p]) \subseteq Elems(inbox[p])
  <1>1. PICK i \in 0 .. Len(inbox["client"]), j \in 0 .. Len(inbox["server"]) :
          inbox' = [p \in Peer |-> SubSeq(inbox[p], 1, IF p = "client" THEN i ELSE j)]
    BY DEF Break
  <1>2. inbox["client"] \in Seq(Frames) /\ inbox["server"] \in Seq(Frames)
    BY DEF TransportTypeOK, Peer
  <1>3. /\ SubSeq(inbox["client"], 1, i) \in Seq(Frames)
        /\ Elems(SubSeq(inbox["client"], 1, i)) \subseteq Elems(inbox["client"])
        /\ SubSeq(inbox["server"], 1, j) \in Seq(Frames)
        /\ Elems(SubSeq(inbox["server"], 1, j)) \subseteq Elems(inbox["server"])
    BY <1>2, ElemsPrefix
  <1>4. /\ inbox'["client"] = SubSeq(inbox["client"], 1, i)
        /\ inbox'["server"] = SubSeq(inbox["server"], 1, j)
    BY <1>1 DEF Peer
  <1>5. inbox' \in [Peer -> Seq(Frames)]
    <2>1. \A p \in Peer : SubSeq(inbox[p], 1, IF p = "client" THEN i ELSE j) \in Seq(Frames)
      BY <1>3 DEF Peer
    <2> QED
      BY <1>1, <2>1
  <1> QED
    BY <1>3, <1>4, <1>5 DEF TransportTypeOK, Break, Peer

\* The packet received is one that was on its way, and what is left was too.
LEMMA Received ==
    ASSUME TransportTypeOK, NEW p \in Peer, Recv(p)
    PROVE  /\ inbox[p] \in Seq(Frames) /\ inbox[p] # <<>>
           /\ Head(inbox[p]) \in Elems(inbox[p])
           /\ Head(inbox[p]) \in Frames /\ Msg(p) \in Packet
           /\ Tail(inbox[p]) \in Seq(Frames)
           /\ Elems(Tail(inbox[p])) \subseteq Elems(inbox[p])
           /\ Accepts(keys[p], Head(inbox[p]))
           /\ out[p] = <<>>
           /\ Counted(p) \in SessionKeys /\ SameKeys(Counted(p), keys[p])
  <1>1. inbox[p] \in Seq(Frames) /\ inbox[p] # <<>> /\ keys[p] \in SessionKeys
    BY DEF Recv, Arrived, TransportTypeOK
  <1>2. Msg(p) \in Packet
    <2>1. Head(inbox[p]) \in Frames
      BY <1>1, ElemsTail
    <2> QED
      BY <2>1 DEF Msg, Frames
  <1>3. Counted(p) \in SessionKeys /\ SameKeys(Counted(p), keys[p])
    BY <1>1, CountingTyped DEF Counted, SameKeys
  <1> QED
    BY <1>1, <1>2, <1>3, ElemsTail DEF Recv, Arrived, Reading

LEMMA HandledTyped ==
    ASSUME TransportTypeOK, NEW p \in Peer, Recv(p), NEW next, NEW packets \in Seq(Packet),
           Handled(p, next, packets),
           keys' \in [Peer -> SessionKeys], kex' \in [Peer -> KexView]
    PROVE  TransportTypeOK'
  BY Received DEF TransportTypeOK, Handled
-----------------------------------------------------------------------------
(* Sequences of packets: what is on its way followed by what is to be        *)
(* written.                                                                  *)

Msgs(s) == [i \in DOMAIN s |-> s[i].msg]

LEMMA MsgsTyped ==
    ASSUME NEW X, NEW Y, \A x \in X : x.msg \in Y, NEW s \in Seq(X)
    PROVE  /\ Msgs(s) \in Seq(Y) /\ Len(Msgs(s)) = Len(s)
           /\ \A i \in 1 .. Len(s) : Msgs(s)[i] = s[i].msg
  <1>1. Len(s) \in Nat /\ DOMAIN s = 1 .. Len(s) /\ \A i \in 1 .. Len(s) : s[i] \in X
    OBVIOUS
  <1>2. Msgs(s) = [i \in 1 .. Len(s) |-> s[i].msg]
    BY <1>1 DEF Msgs
  <1> DEFINE m(i) == s[i].msg
  <1>3. \A i \in 1 .. Len(s) : m(i) \in Y
    BY <1>1
  <1> HIDE DEF m
  <1>4. /\ [i \in 1 .. Len(s) |-> m(i)] \in Seq(Y)
        /\ Len([i \in 1 .. Len(s) |-> m(i)]) = Len(s)
    BY <1>1, <1>3
  <1> QED
    BY <1>2, <1>4 DEF m

LEMMA MsgsSteps ==
    ASSUME NEW X, NEW s \in Seq(X)
    PROVE  /\ Msgs(<<>>) = <<>>
           /\ s # <<>> => Msgs(Tail(s)) = Tail(Msgs(s)) /\ Head(Msgs(s)) = Head(s).msg
           /\ s # <<>> => Msgs(s) # <<>>
           /\ \A f : Msgs(Append(s, f)) = Append(Msgs(s), f.msg)
           /\ \A i \in 0 .. Len(s) : Msgs(SubSeq(s, 1, i)) = SubSeq(Msgs(s), 1, i)
  <1> DEFINE Y == {x.msg : x \in X}
  <1>0. \A x \in X : x.msg \in Y
    OBVIOUS
  <1> HIDE DEF Y
  <1>1. /\ Msgs(s) \in Seq(Y) /\ Len(Msgs(s)) = Len(s) /\ Len(s) \in Nat
        /\ \A i \in 1 .. Len(s) : Msgs(s)[i] = s[i].msg
    <2>1. Len(s) \in Nat
      OBVIOUS
    <2>2. /\ Msgs(s) \in Seq(Y) /\ Len(Msgs(s)) = Len(s)
          /\ \A i \in 1 .. Len(s) : Msgs(s)[i] = s[i].msg
      BY <1>0, MsgsTyped
    <2> QED
      BY <2>1, <2>2
  <1>2. Msgs(<<>>) = <<>>
    BY DEF Msgs
  <1>3. ASSUME s # <<>>
        PROVE  Msgs(Tail(s)) = Tail(Msgs(s)) /\ Head(Msgs(s)) = Head(s).msg /\ Msgs(s) # <<>>
    <2>1. Tail(s) \in Seq(X) /\ Len(Tail(s)) = Len(s) - 1 /\ Len(s) > 0
          /\ \A i \in 1 .. Len(s) - 1 : Tail(s)[i] = s[i + 1]
      BY <1>3
    <2>2. /\ Msgs(Tail(s)) \in Seq(Y) /\ Len(Msgs(Tail(s))) = Len(s) - 1
          /\ \A i \in 1 .. Len(s) - 1 : Msgs(Tail(s))[i] = Tail(s)[i].msg
      BY <1>0, <2>1, MsgsTyped
    <2> DEFINE t == Msgs(s)
               u == Msgs(Tail(s))
    <2>3. /\ t \in Seq(Y) /\ Len(t) = Len(s) /\ u \in Seq(Y) /\ Len(u) = Len(t) - 1
          /\ \A i \in 1 .. Len(u) : u[i] = t[i + 1]
      BY <1>1, <2>1, <2>2
    <2>4. t[1] = s[1].msg /\ Head(s) = s[1]
      BY <1>1, <2>1
    <2> HIDE DEF t, u
    <2>5. Len(t) > 0 /\ t # <<>> /\ Head(t) = t[1] /\ u = Tail(t)
      BY <2>1, <2>3
    <2> QED
      BY <2>4, <2>5 DEF t, u
  <1>4. ASSUME NEW f PROVE Msgs(Append(s, f)) = Append(Msgs(s), f.msg)
    <2>1. Append(s, f) \in Seq(X \cup {f}) /\ Len(Append(s, f)) = Len(s) + 1
          /\ Append(s, f)[Len(s) + 1] = f /\ \A i \in 1 .. Len(s) : Append(s, f)[i] = s[i]
      OBVIOUS
    <2> DEFINE Z == {x.msg : x \in X \cup {f}}
               t == Msgs(s)
               u == Msgs(Append(s, f))
               m == f.msg
    <2>0. \A x \in X \cup {f} : x.msg \in Z
      OBVIOUS
    <2> HIDE DEF Z
    <2>2. /\ u \in Seq(Z) /\ Len(u) = Len(s) + 1
          /\ \A i \in 1 .. Len(s) + 1 : u[i] = Append(s, f)[i].msg
      BY <2>0, <2>1, MsgsTyped
    <2>3. t \in Seq(Z) /\ m \in Z
      <3>1. s \in Seq(X \cup {f}) /\ f \in X \cup {f}
        OBVIOUS
      <3> QED
        BY <2>0, <3>1, MsgsTyped
    <2>4. /\ Len(t) = Len(s) /\ u[Len(t) + 1] = m /\ \A i \in 1 .. Len(t) : u[i] = t[i]
      BY <1>1, <2>1, <2>2
    <2> HIDE DEF t, u, m
    <2>5. u = Append(t, m)
      BY <1>1, <2>2, <2>3, <2>4
    <2> QED
      BY <2>5 DEF t, u, m
  <1>5. ASSUME NEW i \in 0 .. Len(s) PROVE Msgs(SubSeq(s, 1, i)) = SubSeq(Msgs(s), 1, i)
    <2>1. /\ SubSeq(s, 1, i) \in Seq(X) /\ Len(SubSeq(s, 1, i)) = i
          /\ \A j \in 1 .. i : SubSeq(s, 1, i)[j] = s[j]
      OBVIOUS
    <2> DEFINE t == Msgs(s)
               u == Msgs(SubSeq(s, 1, i))
    <2>2. u \in Seq(Y) /\ Len(u) = i /\ \A j \in 1 .. i : u[j] = SubSeq(s, 1, i)[j].msg
      BY <1>0, <2>1, MsgsTyped
    <2>3. t \in Seq(Y) /\ i \in 0 .. Len(t) /\ \A j \in 1 .. i : u[j] = t[j]
      BY <1>1, <2>1, <2>2
    <2> HIDE DEF t, u
    <2>4. u = SubSeq(t, 1, i)
      BY <2>2, <2>3
    <2> QED
      BY <2>4 DEF t, u
  <1> QED
    BY <1>2, <1>3, <1>4, <1>5

LEMMA Joined ==
    ASSUME NEW X, NEW s \in Seq(X), NEW t \in Seq(X)
    PROVE  /\ s \o t \in Seq(X) /\ Len(s \o t) = Len(s) + Len(t)
           /\ Len(s) \in Nat /\ Len(t) \in Nat
           /\ DOMAIN (s \o t) = 1 .. Len(s) + Len(t)
           /\ \A i \in 1 .. Len(s) : (s \o t)[i] = s[i]
           /\ \A i \in 1 .. Len(t) : (s \o t)[Len(s) + i] = t[i]
           /\ \A i \in 1 .. Len(s) + Len(t) :
                 (s \o t)[i] = IF i <= Len(s) THEN s[i] ELSE t[i - Len(s)]
  OBVIOUS

LEMMA NothingJoined ==
    ASSUME NEW X, NEW s \in Seq(X)
    PROVE  s \o <<>> = s /\ <<>> \o s = s
  OBVIOUS

\* s is what is left of t at its front.
IsFront(s, t) == \E i \in 0 .. Len(t) : s = SubSeq(t, 1, i)

LEMMA FrontFacts ==
    ASSUME NEW X, NEW t \in Seq(X), NEW s, IsFront(s, t)
    PROVE  /\ s \in Seq(X) /\ Len(s) \in 0 .. Len(t) /\ DOMAIN s = 1 .. Len(s)
           /\ DOMAIN s \subseteq DOMAIN t
           /\ \A i \in DOMAIN s : s[i] = t[i]
  BY DEF IsFront

LEMMA FrontSelf ==
    ASSUME NEW X, NEW s \in Seq(X)
    PROVE  IsFront(s, s) /\ IsFront(<<>>, s)
  <1>1. SubSeq(s, 1, Len(s)) = s /\ SubSeq(s, 1, 0) = <<>> /\ Len(s) \in 0 .. Len(s)
        /\ 0 \in 0 .. Len(s)
    OBVIOUS
  <1> QED
    BY <1>1 DEF IsFront

LEMMA FrontJoined ==
    ASSUME NEW X, NEW s \in Seq(X), NEW t \in Seq(X), NEW i \in 0 .. Len(s)
    PROVE  IsFront(s, s \o t) /\ IsFront(SubSeq(s, 1, i), s \o t)
  <1>1. Len(s) \in 0 .. Len(s \o t) /\ i \in 0 .. Len(s \o t)
    BY Joined
  <1>2. SubSeq(s \o t, 1, Len(s)) = s /\ SubSeq(s \o t, 1, i) = SubSeq(s, 1, i)
    OBVIOUS
  <1> QED
    BY <1>1, <1>2 DEF IsFront

\* A packet that is written moves from the second part to the first.
LEMMA MoveOver ==
    ASSUME NEW X, NEW s \in Seq(X), NEW t \in Seq(X), t # <<>>
    PROVE  Append(s, Head(t)) \o Tail(t) = s \o t
  OBVIOUS

LEMMA TailJoined ==
    ASSUME NEW X, NEW s \in Seq(X), NEW t \in Seq(X), s # <<>>
    PROVE  Tail(s) \o t = Tail(s \o t) /\ s \o t # <<>> /\ Head(s \o t) = Head(s)
  OBVIOUS
=============================================================================
