-------------------------- MODULE AnyClient_proofs --------------------------
(***************************************************************************)
(* The server against any client, for every user database and any number   *)
(* of packets and channels: nobody gets at a channel without a credential, *)
(* and a client that counts its channels as the server does never meets an *)
(* unknown one, and has its requests and its SFTP packets answered once    *)
(* each, in order and on the right channel.                                *)
(***************************************************************************)
EXTENDS AnyClient, Transport_proofs

WF == INSTANCE WellFoundedInduction

\* The variables are functions of the two programs, and what has been written
\* is a sequence.
Shape ==
    /\ DOMAIN pc = Peer /\ DOMAIN out = Peer /\ DOMAIN res = Peer /\ DOMAIN inbox = Peer
    /\ \A p \in Peer : /\ inbox[p] \in Seq(Elems(inbox[p]))
                       /\ out[p] \in Seq(Elems(out[p]))
    /\ tried \in BOOLEAN /\ strayed \in BOOLEAN /\ reset \in BOOLEAN

-----------------------------------------------------------------------------
(* Who is let in. *)

\* A request that the server will grant was counted when it was sent.
Vouched(m) == m.type = "UserAuthRequest" /\ Authenticates(m) => tried

LoginInv ==
    /\ \A m \in Elems(out[C]) : Vouched(m)
    /\ \A f \in Elems(inbox[S]) : Vouched(f.msg)
    /\ LoginFirst

-----------------------------------------------------------------------------
(* Channels, for a client that numbers them from 0. *)

\* A CHANNEL_OPEN that the server will accept.
IsOpen(m) == m.type = "ChannelOpen" /\ ~Unreadable(m)

\* The server's channels carry the client's numbers, which are its own.
SameNumbers ==
    /\ channels.next_id \in Nat /\ opened \in Nat /\ opened <= MaxChannels
    /\ DOMAIN channels = {"channels", "next_id"}
    /\ DOMAIN channels.channels = 0 .. channels.next_id - 1
    /\ \A id \in DOMAIN channels.channels :
          /\ "remote_id" \in DOMAIN channels.channels[id]
          /\ channels.channels[id].remote_id = id

\* One of the first k frames opens the number n.
OpenedBy(s, n, k) == \E j \in 1 .. k : IsOpen(s[j].msg) /\ s[j].msg.num[1] = n

\* The frames open numbers from lo on, below hi, in order and without a gap.
InOrder(s, lo, hi) ==
    \A i \in DOMAIN s : IsOpen(s[i].msg) =>
       /\ s[i].msg.num[1] \in lo .. hi - 1
       /\ \A n \in lo .. s[i].msg.num[1] - 1 : OpenedBy(s, n, i - 1)
       /\ \A j \in 1 .. i - 1 : IsOpen(s[j].msg) => s[j].msg.num[1] < s[i].msg.num[1]

\* The channels whose CHANNEL_OPEN has left the client.
Pending == \E m \in Elems(out[C]) : IsOpen(m)
Written == IF Pending THEN opened - 1 ELSE opened

\* The opens on their way are those the server has not seen yet.
OpensInOrder ==
    /\ channels.next_id <= Written
    /\ InOrder(inbox[S], channels.next_id, Written)
    /\ pc[C] # "done" =>
          \A n \in channels.next_id .. Written - 1 : OpenedBy(inbox[S], n, Len(inbox[S]))
    /\ \A m \in Elems(out[C]) : IsOpen(m) => m.num[1] = opened - 1

\* A message on a channel names one the server has.
Addressed(m) == m.type \in {"ChannelRequest", "ChannelData"} =>
                   strayed \/ m.num[1] \in DOMAIN channels.channels

\* A channel is confirmed under the number by which it was opened.
Confirms(m) == m.type = "ChannelOpenConfirmation" =>
                  m.num[1] = m.num[2] /\ m.num[2] \in DOMAIN channels.channels

ChannelInv ==
    /\ SameNumbers
    /\ pc[C] = "done" => out[C] = <<>>
    /\ Len(out[C]) <= 1
    /\ pc[S] # "done" => (reset => pc[C] = "done") /\ OpensInOrder
    /\ \A id \in DOMAIN peer : peer[id] = id /\ id \in DOMAIN channels.channels
    /\ \A m \in Elems(out[S]) : Confirms(m)
    /\ \A f \in Elems(inbox[C]) : Confirms(f.msg)
    /\ \A m \in Elems(out[C]) : Addressed(m)
    /\ \A f \in Elems(inbox[S]) : Addressed(f.msg)
    /\ KnownChannel

-----------------------------------------------------------------------------
(* The steps of the transport, for packets of any kind. *)

LEMMA Parties ==
    /\ C \in Peer /\ S \in Peer /\ C # S /\ Other(C) = S /\ Other(S) = C
    /\ \A p \in Peer : p = C \/ p = S
  BY DEF C, S, Peer, Other

LEMMA SeqOfElems ==
    ASSUME NEW X, NEW s \in Seq(X)
    PROVE  s \in Seq(Elems(s))
  <1>1. Len(s) \in Nat /\ s = [i \in 1 .. Len(s) |-> s[i]] /\ DOMAIN s = 1 .. Len(s)
    OBVIOUS
  <1>2. \A i \in 1 .. Len(s) : s[i] \in Elems(s)
    BY <1>1 DEF Elems
  <1> QED
    BY <1>1, <1>2

\* p writes a packet, which may arrive.
Writes(p) ==
    /\ UNCHANGED <<pc, res>>
    /\ out[p] # <<>>
    /\ out' = [out EXCEPT ![p] = Tail(out[p])]
    /\ Head(out[p]) \in Elems(out[p])
    /\ Elems(out'[p]) \subseteq Elems(out[p])
    /\ inbox'[p] = inbox[p]
    /\ LET q == Other(p)
       IN  \/ inbox'[q] = inbox[q] /\ (reset \/ pc[q] = "done")
           \/ /\ ~reset /\ pc[q] # "done"
              /\ \E f : f.msg = Head(out[p]) /\ inbox'[q] = Append(inbox[q], f)
    /\ reset' => reset \/ pc[Other(p)] = "done"

LEMMA SendWrites ==
    ASSUME Shape, NEW p \in Peer, Send(p), UNCHANGED <<tried, strayed>>
    PROVE  Writes(p) /\ Shape'
  <1> DEFINE m == Head(out[p])
             f == Frame(keys[p], m)
             q == Other(p)
  <1>1. /\ q \in Peer /\ q # p /\ out[p] # <<>> /\ out[p] \in Seq(Elems(out[p]))
        /\ inbox[q] \in Seq(Elems(inbox[q]))
    BY Peers DEF Shape, Send
  <1>2. /\ m \in Elems(out[p]) /\ Tail(out[p]) \in Seq(Elems(out[p]))
        /\ Elems(Tail(out[p])) \subseteq Elems(out[p])
    BY <1>1, ElemsTail
  <1>3. f.msg = m
    BY DEF Frame
  <1>4. /\ inbox' = IF reset \/ pc[q] = "done" THEN inbox
                     ELSE [inbox EXCEPT ![q] = Append(inbox[q], f)]
        /\ out' = [out EXCEPT ![p] = Tail(out[p])]
        /\ reset' = (reset \/ pc[q] = "done") /\ UNCHANGED <<pc, res>>
    BY DEF Send
  <1>5. Append(inbox[q], f) \in Seq(Elems(Append(inbox[q], f)))
    <2>1. inbox[q] \in Seq(Elems(inbox[q]) \cup {f})
      BY <1>1
    <2>2. Append(inbox[q], f) \in Seq(Elems(inbox[q]) \cup {f})
      BY <2>1, ElemsAppend
    <2> QED
      BY <2>2, SeqOfElems
  <1>6. Tail(out[p]) \in Seq(Elems(Tail(out[p])))
    BY <1>2, SeqOfElems
  <1> HIDE DEF m, f, q
  <1>7. Shape'
    BY <1>1, <1>4, <1>5, <1>6 DEF Shape
  <1>8. out'[p] = Tail(out[p]) /\ inbox'[p] = inbox[p]
        /\ inbox'[q] = IF reset \/ pc[q] = "done" THEN inbox[q] ELSE Append(inbox[q], f)
    BY <1>1, <1>4 DEF Shape
  <1> QED
    BY <1>1, <1>2, <1>3, <1>4, <1>7, <1>8 DEF Writes, m, q

\* p returns, and some prefix of what it wrote still arrives.
Leaves(p, r) ==
    /\ pc' = [pc EXCEPT ![p] = "done"]
    /\ res' = [res EXCEPT ![p] = r]
    /\ out' = [out EXCEPT ![p] = <<>>]
    /\ inbox'[p] = <<>>
    /\ \E i \in 0 .. Len(inbox[Other(p)]) : inbox'[Other(p)] = SubSeq(inbox[Other(p)], 1, i)

LEMMA ReturnLeaves ==
    ASSUME Shape, NEW p \in Peer, NEW r, NEW unread, Return(p, r, unread),
           UNCHANGED <<tried, strayed>>
    PROVE  /\ Leaves(p, r) /\ Shape'
           /\ Elems(out'[p]) = {} /\ Elems(inbox'[p]) = {}
           /\ Elems(inbox'[Other(p)]) \subseteq Elems(inbox[Other(p)])
  <1> DEFINE q == Other(p)
  <1>1. q \in Peer /\ q # p /\ inbox[q] \in Seq(Elems(inbox[q]))
    BY Peers DEF Shape
  <1>2. PICK i \in 0 .. Len(inbox[q]) :
           inbox' = [s \in Peer |-> IF s = p THEN <<>> ELSE SubSeq(inbox[s], 1, i)]
    BY DEF Return
  <1>3. inbox'[p] = <<>> /\ inbox'[q] = SubSeq(inbox[q], 1, i) /\ DOMAIN inbox' = Peer
    BY <1>1, <1>2
  <1>4. /\ SubSeq(inbox[q], 1, i) \in Seq(Elems(inbox[q]))
        /\ Elems(SubSeq(inbox[q], 1, i)) \subseteq Elems(inbox[q])
    BY <1>1, ElemsPrefix
  <1>5. SubSeq(inbox[q], 1, i) \in Seq(Elems(SubSeq(inbox[q], 1, i)))
    BY <1>4, SeqOfElems
  <1>6. <<>> \in Seq(Elems(<<>>)) /\ Elems(<<>>) = {}
    BY ElemsShort
  <1>7. /\ pc' = [pc EXCEPT ![p] = "done"] /\ res' = [res EXCEPT ![p] = r]
        /\ out' = [out EXCEPT ![p] = <<>>] /\ reset' \in BOOLEAN
    BY DEF Return, Shape
  <1>8. out'[p] = <<>>
    BY <1>7 DEF Shape
  <1>9. \A s \in Peer : inbox'[s] \in Seq(Elems(inbox'[s]))
    BY <1>1, <1>3, <1>5, <1>6, Peers
  <1>10. Shape'
    BY <1>1, <1>3, <1>6, <1>7, <1>9, Peers DEF Shape
  <1>11. Leaves(p, r)
    BY <1>2, <1>3, <1>7 DEF Leaves
  <1> QED
    BY <1>3, <1>4, <1>6, <1>8, <1>10, <1>11

LEMMA HandledShape ==
    ASSUME Shape, NEW p \in Peer, Recv(p), NEW next, NEW packets,
           packets \in Seq(Elems(packets)), Handled(p, next, packets),
           tried' \in BOOLEAN, strayed' \in BOOLEAN
    PROVE  /\ Shape'
           /\ Head(inbox[p]) \in Elems(inbox[p]) /\ inbox[p] # <<>> /\ out[p] = <<>>
           /\ out'[p] = packets /\ out'[Other(p)] = out[Other(p)]
           /\ inbox'[p] = Tail(inbox[p]) /\ inbox'[Other(p)] = inbox[Other(p)]
           /\ Elems(Tail(inbox[p])) \subseteq Elems(inbox[p])
           /\ pc'[p] = next /\ pc'[Other(p)] = pc[Other(p)]
           /\ UNCHANGED <<res, reset>>
  <1>1. inbox[p] # <<>> /\ out[p] = <<>> /\ inbox[p] \in Seq(Elems(inbox[p]))
    BY DEF Recv, Arrived, Reading, Shape
  <1>2. /\ Head(inbox[p]) \in Elems(inbox[p]) /\ Tail(inbox[p]) \in Seq(Elems(inbox[p]))
        /\ Elems(Tail(inbox[p])) \subseteq Elems(inbox[p])
    BY <1>1, ElemsTail
  <1>3. Tail(inbox[p]) \in Seq(Elems(Tail(inbox[p])))
    BY <1>2, SeqOfElems
  <1>4. Other(p) \in Peer /\ Other(p) # p
    BY Peers
  <1> QED
    BY <1>1, <1>2, <1>3, <1>4 DEF Handled, Shape

-----------------------------------------------------------------------------
(* What a step of the server comes to. *)

\* It handles a packet that opens no channel.
Answered(next, packets) ==
    /\ Recv(S) /\ Handled(S, next, packets)
    /\ packets \in Seq(Elems(packets))
    /\ \A m \in Elems(packets) : m.type # "ChannelOpenConfirmation"
    /\ ~IsOpen(Msg(S))
    /\ next = "loop" => \/ pc[S] = "loop"
                        \/ Msg(S).type = "UserAuthRequest" /\ Authenticates(Msg(S))
    /\ \/ UNCHANGED channels
       \/ /\ pc[S] = "loop"
          /\ \E id \in Found :
                \/ \E n : channels' = AddRemoteWindow(channels, id, n)
                \/ channels' = EofReceived(channels, id)

\* It returns.
Ended(r) ==
    /\ \E unread : Return(S, r, unread)
    /\ UNCHANGED channels
    /\ r = "Channel" => /\ Recv(S) /\ Found = {}
                        /\ Msg(S).type \in {"ChannelRequest", "ChannelData"}

LEMMA Lists ==
    /\ <<>> \in Seq(Elems(<<>>))
    /\ \A a : <<a>> \in Seq(Elems(<<a>>))
    /\ \A a, b : <<a, b>> \in Seq(Elems(<<a, b>>))
  BY DEF Elems

LEMMA ExecList ==
    ASSUME NEW a, NEW b, NEW c, NEW d
    PROVE  /\ <<>> \o <<b, c, d>> \in Seq({b, c, d}) /\ <<a>> \o <<b, c, d>> \in Seq({a, b, c, d})
           /\ \A X : \A s \in Seq(X) : Elems(s) \subseteq X
  <1>1. <<b, c, d>> \in Seq({b, c, d}) /\ <<b, c, d>> \in Seq({a, b, c, d})
        /\ <<a>> \in Seq({a, b, c, d}) /\ <<>> \in Seq({b, c, d})
    OBVIOUS
  <1> QED
    BY <1>1, ElemsTyped

LEMMA HandshakeStep ==
    ASSUME RecvClientVersion \/ RecvClientKexInit \/ RecvEcdhInit \/ RecvClientNewKeys
              \/ RecvServiceRequest
    PROVE  \E next, packets : Answered(next, packets)
  <1>1. \A at \in DOMAIN ServerExpects : ServerExpects[at] # "ChannelOpen"
    BY DEF ServerExpects
  <1>2. \A next, packets :
          /\ Recv(S) /\ Handled(S, next, packets) /\ UNCHANGED channels
          /\ packets \in Seq(Elems(packets)) /\ next # "loop"
          /\ \A m \in Elems(packets) : m.type # "ChannelOpenConfirmation"
          /\ Msg(S).type # "ChannelOpen"
          => Answered(next, packets)
    BY DEF Answered, IsOpen
  <1>3. CASE RecvClientVersion
    <2>1. Recv(S) /\ Msg(S).type # "ChannelOpen" /\ UNCHANGED channels
      BY <1>1, <1>3 DEF RecvClientVersion, Expected, ServerExpects
    <2> DEFINE m == SshPacket("KexInit", <<Own(S).kexinit>>, <<>>)
    <2>2. m.type = "KexInit" /\ Handled(S, "kexinit", <<m>>)
      BY <1>3 DEF RecvClientVersion, SshPacket
    <2> HIDE DEF m
    <2> QED
      BY <1>2, <2>1, <2>2, Lists, ElemsShort
  <1>4. CASE RecvClientKexInit
    <2>1. /\ Recv(S) /\ Msg(S).type # "ChannelOpen" /\ UNCHANGED channels
          /\ Handled(S, "ecdh", <<>>)
      BY <1>1, <1>4 DEF RecvClientKexInit, Expected, ServerExpects
    <2> QED
      BY <1>2, <2>1, Lists, ElemsShort
  <1>5. CASE RecvEcdhInit
    <2>1. Recv(S) /\ Msg(S).type # "ChannelOpen" /\ UNCHANGED channels
      BY <1>1, <1>5 DEF RecvEcdhInit, Expected, ServerExpects
    <2> DEFINE m == SshPacket("KexEcdhReply", <<HOST_KEY, Own(S).pub, "signature">>, <<>>)
               n == SshPacket("NewKeys", <<>>, <<>>)
    <2>2. m.type = "KexEcdhReply" /\ n.type = "NewKeys" /\ Handled(S, "newkeys", <<m, n>>)
      BY <1>5 DEF RecvEcdhInit, SshPacket
    <2> HIDE DEF m, n
    <2>3. \A x \in Elems(<<m, n>>) : x.type # "ChannelOpenConfirmation"
      BY <2>2, ElemsShort
    <2>4. <<m, n>> \in Seq(Elems(<<m, n>>))
      BY Lists
    <2> QED
      BY <1>2, <2>1, <2>2, <2>3, <2>4
  <1>6. CASE RecvClientNewKeys
    <2>1. /\ Recv(S) /\ Msg(S).type # "ChannelOpen" /\ UNCHANGED channels
          /\ Handled(S, "service", <<>>)
      BY <1>1, <1>6 DEF RecvClientNewKeys, Expected, ServerExpects
    <2> QED
      BY <1>2, <2>1, Lists, ElemsShort
  <1>7. CASE RecvServiceRequest
    <2>1. Recv(S) /\ Msg(S).type # "ChannelOpen" /\ UNCHANGED channels
      BY <1>1, <1>7 DEF RecvServiceRequest, Expected, ServerExpects
    <2> DEFINE m == SshPacket("ServiceAccept", Msg(S).text, <<>>)
    <2>2. m.type = "ServiceAccept" /\ Handled(S, "auth", <<m>>)
      BY <1>7 DEF RecvServiceRequest, SshPacket
    <2> HIDE DEF m
    <2> QED
      BY <1>2, <2>1, <2>2, Lists, ElemsShort
  <1> QED
    BY <1>3, <1>4, <1>5, <1>6, <1>7

LEMMA AuthStep ==
    ASSUME RecvAuthRequest
    PROVE  \/ \E next, packets : Answered(next, packets)
           \/ \E r : Ended(r)
  <1>1. Recv(S) /\ Msg(S).type = "UserAuthRequest" /\ UNCHANGED channels
    BY DEF RecvAuthRequest, Expected, ServerExpects
  <1> DEFINE y == SshPacket("UserAuthSuccess", <<>>, <<>>)
             n == SshPacket("UserAuthFailure", <<>>, <<>>)
  <1>2. y.type = "UserAuthSuccess" /\ n.type = "UserAuthFailure"
    BY DEF SshPacket
  <1>3. \/ Rejected(S, "AuthFailed")
        \/ Authenticates(Msg(S)) /\ Handled(S, "loop", <<y>>)
        \/ Handled(S, "auth", <<n>>)
    BY DEF RecvAuthRequest
  <1> HIDE DEF y, n
  <1>4. CASE Rejected(S, "AuthFailed")
    <2>1. Ended("AuthFailed")
      BY <1>1, <1>4 DEF Ended, Rejected
    <2> QED
      BY <2>1
  <1>5. CASE Authenticates(Msg(S)) /\ Handled(S, "loop", <<y>>)
    <2>1. Answered("loop", <<y>>)
      BY <1>1, <1>2, <1>5, Lists, ElemsShort DEF Answered, IsOpen
    <2> QED
      BY <2>1
  <1>6. CASE Handled(S, "auth", <<n>>)
    <2>1. Answered("auth", <<n>>)
      BY <1>1, <1>2, <1>6, Lists, ElemsShort DEF Answered, IsOpen
    <2> QED
      BY <2>1
  <1> QED
    BY <1>3, <1>4, <1>5, <1>6

\* In the loop the server answers with packets none of which confirms a channel.
LEMMA LoopAnswer ==
    ASSUME pc[S] = "loop", Recv(S), ~IsOpen(Msg(S)), NEW packets,
           Replies(packets), packets \in Seq(Elems(packets)), UNCHANGED channels,
           \A m \in Elems(packets) : m.type # "ChannelOpenConfirmation"
    PROVE  Answered("loop", packets)
  BY DEF Answered, Replies

LEMMA NoAnswer ==
    ASSUME pc[S] = "loop", Recv(S), ~IsOpen(Msg(S)), Replies(<<>>), UNCHANGED channels
    PROVE  Answered("loop", <<>>)
  BY LoopAnswer, Lists, ElemsShort

LEMMA OneAnswer ==
    ASSUME pc[S] = "loop", Recv(S), ~IsOpen(Msg(S)), UNCHANGED channels,
           NEW m, m.type # "ChannelOpenConfirmation", Replies(<<m>>)
    PROVE  Answered("loop", <<m>>)
  <1>1. <<m>> \in Seq(Elems(<<m>>))
    BY Lists
  <1>2. \A x \in Elems(<<m>>) : x.type # "ChannelOpenConfirmation"
    BY ElemsShort
  <1> QED
    BY <1>1, <1>2, LoopAnswer

LEMMA AnswerTypes ==
    /\ \A type, id : ToChannel(type, id).type = type
    /\ \A r, what, len : build_channel_data(r, what, len).type = "ChannelData"
  BY DEF ToChannel, build_channel_data, SshPacket

LEMMA ExecStep ==
    ASSUME RecvExec
    PROVE  \/ \E next, packets : Answered(next, packets)
           \/ \E r : Ended(r)
  <1>1. /\ pc[S] = "loop" /\ Recv(S) /\ Msg(S).type = "ChannelRequest" /\ UNCHANGED channels
    BY DEF RecvExec, InLoop
  <1>2. ~IsOpen(Msg(S))
    BY <1>1 DEF IsOpen
  <1>3. CASE Found = {}
    <2>1. Rejected(S, "Channel")
      BY <1>3 DEF RecvExec
    <2>2. Ended("Channel")
      BY <1>1, <1>3, <2>1 DEF Ended, Rejected
    <2> QED
      BY <2>2
  <1>4. CASE Found # {}
    <2>1. PICK id \in Found :
             Replies((IF Msg(S).want THEN <<ToChannel("ChannelSuccess", id)>> ELSE <<>>)
                     \o <<build_channel_data(channels.channels[id].remote_id, "output",
                                             Output[Msg(S).text[2]]),
                          ToChannel("ChannelEof", id),
                          ToChannel("ChannelClose", id)>>)
      BY <1>4 DEF RecvExec
    <2> DEFINE a == ToChannel("ChannelSuccess", id)
               b == build_channel_data(channels.channels[id].remote_id, "output",
                                       Output[Msg(S).text[2]])
               c == ToChannel("ChannelEof", id)
               d == ToChannel("ChannelClose", id)
               packets == (IF Msg(S).want THEN <<a>> ELSE <<>>) \o <<b, c, d>>
    <2>2. Replies(packets)
      BY <2>1
    <2>3. \A m \in {a, b, c, d} : m.type # "ChannelOpenConfirmation"
      BY AnswerTypes
    <2> HIDE DEF a, b, c, d
    <2>4. packets \in Seq({b, c, d}) \/ packets \in Seq({a, b, c, d})
      BY ExecList
    <2>5. packets \in Seq(Elems(packets)) /\ Elems(packets) \subseteq {a, b, c, d}
      <3> HIDE DEF packets
      <3> QED
        BY <2>4, SeqOfElems, ElemsTyped
    <2> HIDE DEF packets
    <2>6. Answered("loop", packets)
      BY <1>1, <1>2, <2>2, <2>3, <2>5, LoopAnswer
    <2> QED
      BY <2>6
  <1> QED
    BY <1>3, <1>4

LEMMA RequestStep ==
    ASSUME RecvRequest
    PROVE  \/ \E next, packets : Answered(next, packets)
           \/ \E r : Ended(r)
  <1>1. /\ pc[S] = "loop" /\ Recv(S) /\ Msg(S).type = "ChannelRequest" /\ UNCHANGED channels
    BY DEF RecvRequest, InLoop
  <1>2. ~IsOpen(Msg(S))
    BY <1>1 DEF IsOpen
  <1> DEFINE answer == IF RequestGranted(Msg(S)) THEN "ChannelSuccess" ELSE "ChannelFailure"
  <1>3. answer # "ChannelOpenConfirmation"
    OBVIOUS
  <1>4. \/ Replies(<<>>)
        \/ Found = {} /\ Rejected(S, "Channel")
        \/ \E id \in Found : Replies(<<ToChannel(answer, id)>>)
    BY DEF RecvRequest
  <1> HIDE DEF answer
  <1>5. CASE Replies(<<>>)
    BY <1>1, <1>2, <1>5, NoAnswer
  <1>6. CASE Found = {} /\ Rejected(S, "Channel")
    <2>1. Ended("Channel")
      BY <1>1, <1>6 DEF Ended, Rejected
    <2> QED
      BY <2>1
  <1>7. ASSUME NEW id \in Found, Replies(<<ToChannel(answer, id)>>)
        PROVE  \E next, packets : Answered(next, packets)
    BY <1>1, <1>2, <1>3, <1>7, OneAnswer, AnswerTypes
  <1> QED
    BY <1>4, <1>5, <1>6, <1>7

LEMMA DataStep ==
    ASSUME RecvChannelData
    PROVE  \/ \E next, packets : Answered(next, packets)
           \/ \E r : Ended(r)
  <1>1. /\ pc[S] = "loop" /\ Recv(S) /\ Msg(S).type = "ChannelData" /\ UNCHANGED channels
    BY DEF RecvChannelData, InLoop
  <1>2. ~IsOpen(Msg(S))
    BY <1>1 DEF IsOpen
  <1>3. \/ Replies(<<>>)
        \/ Found = {} /\ Rejected(S, "Channel")
        \/ \E id \in Found, n \in SftpResponses :
              Replies(<<build_channel_data(channels.channels[id].remote_id, "response", n)>>)
    BY DEF RecvChannelData
  <1>4. CASE Replies(<<>>)
    BY <1>1, <1>2, <1>4, NoAnswer
  <1>5. CASE Found = {} /\ Rejected(S, "Channel")
    <2>1. Ended("Channel")
      BY <1>1, <1>5 DEF Ended, Rejected
    <2> QED
      BY <2>1
  <1>6. ASSUME NEW id \in Found, NEW n \in SftpResponses,
               Replies(<<build_channel_data(channels.channels[id].remote_id, "response", n)>>)
        PROVE  \E next, packets : Answered(next, packets)
    <2> DEFINE m == build_channel_data(channels.channels[id].remote_id, "response", n)
    <2>1. m.type = "ChannelData"
      BY AnswerTypes
    <2>2. Replies(<<m>>)
      BY <1>6
    <2> HIDE DEF m
    <2> QED
      BY <1>1, <1>2, <2>1, <2>2, OneAnswer
  <1> QED
    BY <1>3, <1>4, <1>5, <1>6

LEMMA CloseStep ==
    ASSUME RecvWindowAdjust \/ RecvChannelEof \/ RecvChannelClose \/ RecvOther
    PROVE  \E next, packets : Answered(next, packets)
  <1>1. CASE RecvWindowAdjust \/ RecvChannelEof
    <2>1. pc[S] = "loop" /\ Recv(S) /\ Msg(S).type # "ChannelOpen" /\ Replies(<<>>)
      BY <1>1 DEF RecvWindowAdjust, RecvChannelEof, InLoop
    <2>2. \/ UNCHANGED channels
          \/ \E id \in Found : \/ \E n : channels' = AddRemoteWindow(channels, id, n)
                               \/ channels' = EofReceived(channels, id)
      <3>1. CASE RecvWindowAdjust
        BY <3>1 DEF RecvWindowAdjust
      <3>2. CASE RecvChannelEof
        BY <3>2 DEF RecvChannelEof
      <3> QED
        BY <1>1, <3>1, <3>2
    <2>3. Answered("loop", <<>>)
      BY <2>1, <2>2, Lists, ElemsShort DEF Answered, Replies, IsOpen
    <2> QED
      BY <2>3
  <1>2. CASE RecvChannelClose
    <2>1. /\ pc[S] = "loop" /\ Recv(S) /\ ~IsOpen(Msg(S)) /\ UNCHANGED channels
      BY <1>2 DEF RecvChannelClose, InLoop, IsOpen
    <2>2. Replies(<<>>) \/ \E id \in Found : Replies(<<ToChannel("ChannelClose", id)>>)
      BY <1>2 DEF RecvChannelClose
    <2>3. ASSUME NEW id \in Found, Replies(<<ToChannel("ChannelClose", id)>>)
          PROVE  \E next, packets : Answered(next, packets)
      BY <2>1, <2>3, OneAnswer, AnswerTypes
    <2> QED
      BY <2>1, <2>2, <2>3, NoAnswer
  <1>3. CASE RecvOther
    <2>1. pc[S] = "loop" /\ Recv(S) /\ ~IsOpen(Msg(S)) /\ UNCHANGED channels /\ Replies(<<>>)
      BY <1>3 DEF RecvOther, IsOpen, Parsed
    <2> QED
      BY <2>1, NoAnswer
  <1> QED
    BY <1>1, <1>2, <1>3

LEMMA EndStep ==
    ASSUME RecvDisconnect \/ ServerRejects \/ ClientGone \/ RecvGarbled(S)
              \/ RecvFails(S, {"loop"}) \/ SendTooLarge(S) \/ SendFails(S),
           UNCHANGED channels
    PROVE  \E r : Ended(r)
  <1>1. \A r, unread : Return(S, r, unread) /\ r # "Channel" => Ended(r)
    BY DEF Ended
  <1>2. CASE RecvDisconnect
    BY <1>1, <1>2 DEF RecvDisconnect, Rejected
  <1>3. CASE ServerRejects
    <2>1. ParseErrors(S) \subseteq {"Protocol", "InvalidPacket", "KeyExchange"}
      BY DEF ParseErrors
    <2> QED
      BY <1>1, <1>3, <2>1 DEF ServerRejects, Rejected
  <1>4. CASE ClientGone
    BY <1>1, <1>4 DEF ClientGone
  <1>5. CASE RecvGarbled(S)
    BY <1>1, <1>5 DEF RecvGarbled
  <1>6. CASE RecvFails(S, {"loop"})
    BY <1>1, <1>6 DEF RecvFails, EndOfStream
  <1>7. CASE SendTooLarge(S) \/ SendFails(S)
    BY <1>1, <1>7 DEF SendTooLarge, SendFails
  <1> QED
    BY <1>2, <1>3, <1>4, <1>5, <1>6, <1>7

LEMMA ServerSteps ==
    ASSUME ServerNext
    PROVE  \/ \E next, packets : Answered(next, packets)
           \/ \E r : Ended(r)
           \/ RecvChannelOpen
           \/ Send(S) /\ UNCHANGED channels
  <1>1. CASE ServerIo
    BY <1>1, EndStep DEF ServerIo, Write
  <1>2. CASE RecvDisconnect \/ ServerRejects \/ ClientGone
    <2>1. UNCHANGED channels
      BY <1>2 DEF RecvDisconnect, ServerRejects, ClientGone
    <2> QED
      BY <1>2, <2>1, EndStep
  <1> QED
    BY <1>1, <1>2, HandshakeStep, AuthStep, ExecStep, RequestStep, DataStep, CloseStep
    DEF ServerNext

-----------------------------------------------------------------------------
(* What a step of the client comes to. *)

\* The packet m is handed over for writing.
Spoken(m) ==
    /\ pc[C] = "open" /\ out[C] = <<>>
    /\ out'[C] = <<m>> /\ Elems(out'[C]) = {m} /\ Elems(out[C]) = {}
    /\ out'[S] = out[S]
    /\ UNCHANGED <<pc, res, inbox, reset, channels>>

LEMMA SaysSpoken ==
    ASSUME Shape, NEW m, Says(m), tried' \in BOOLEAN, strayed' \in BOOLEAN
    PROVE  Spoken(m) /\ Shape'
  <1>1. /\ pc[C] = "open" /\ out[C] = <<>> /\ out' = [out EXCEPT ![C] = <<m>>]
        /\ UNCHANGED <<pc, res, inbox, reset, channels>>
    BY DEF Says
  <1>2. out'[C] = <<m>> /\ out'[S] = out[S] /\ DOMAIN out' = Peer
    BY <1>1, Parties DEF Shape
  <1>3. <<m>> \in Seq(Elems(<<m>>)) /\ Elems(<<m>>) = {m} /\ Elems(<<>>) = {}
    BY Lists, ElemsShort
  <1>4. \A p \in Peer : out'[p] \in Seq(Elems(out'[p]))
    BY <1>2, <1>3, Parties DEF Shape
  <1>5. Shape'
    BY <1>1, <1>2, <1>4 DEF Shape
  <1> QED
    BY <1>1, <1>2, <1>3, <1>5 DEF Spoken

LEMMA OnAChannel ==
    ASSUME Shape, NEW ch, Uses(ch)
    PROVE  /\ strayed' \in BOOLEAN
           /\ strayed => strayed'
           /\ ch.mine \in Strays => strayed'
  BY DEF Uses, Shape

LEMMA ClientSteps ==
    ASSUME ClientStep
    PROVE  \/ SayPlain \/ SayAuth \/ SayOpen \/ SayRequest \/ SayData \/ SayOnChannel \/ Hear
           \/ Send(C) /\ UNCHANGED <<channels, anyVars>>
           \/ /\ \E r, unread : Return(C, r, unread)
              /\ UNCHANGED <<channels, anyVars>>
  <1>1. CASE ClientIo
    <2>1. SendTooLarge(C) \/ SendFails(C) => \E r, unread : Return(C, r, unread)
      BY DEF SendTooLarge, SendFails
    <2>2. RecvFails(C, {}) => \E r, unread : Return(C, r, unread)
      BY DEF RecvFails
    <2> QED
      BY <1>1, <2>1, <2>2 DEF ClientIo, Write
  <1> QED
    BY <1>1 DEF ClientStep

-----------------------------------------------------------------------------
(* Nobody is let in without a credential. *)

LEMMA LoginServer ==
    ASSUME Shape, LoginInv, ServerStep
    PROVE  Shape' /\ LoginInv'
  <1>1. tried' = tried /\ UNCHANGED <<tried, strayed>> /\ tried \in BOOLEAN
        /\ tried' \in BOOLEAN /\ strayed' \in BOOLEAN
    BY DEF ServerStep, anyVars, Shape
  <1>2. ASSUME NEW next, NEW packets, Answered(next, packets)
        PROVE  Shape' /\ LoginInv'
    <2>1. /\ Recv(S) /\ Handled(S, next, packets) /\ packets \in Seq(Elems(packets))
      BY <1>2 DEF Answered
    <2>2. /\ Shape' /\ Head(inbox[S]) \in Elems(inbox[S])
          /\ out'[C] = out[C] /\ pc'[S] = next
          /\ Elems(inbox'[S]) \subseteq Elems(inbox[S])
      BY <1>1, <2>1, HandledShape, Parties
    <2>3. next = "loop" => tried
      <3>1. Vouched(Msg(S))
        BY <2>2 DEF LoginInv, Msg
      <3> QED
        BY <1>2, <3>1 DEF Answered, Vouched, LoginInv, LoginFirst
    <2>4. channels' = channels \/ tried
      BY <1>2 DEF Answered, LoginInv, LoginFirst
    <2> QED
      BY <1>1, <2>2, <2>3, <2>4 DEF LoginInv, Vouched, LoginFirst
  <1>3. ASSUME NEW r, Ended(r)
        PROVE  Shape' /\ LoginInv'
    <2>1. PICK unread : Return(S, r, unread)
      BY <1>3 DEF Ended
    <2>2. /\ Shape' /\ Leaves(S, r) /\ Elems(inbox'[S]) = {}
      BY <1>1, <2>1, ReturnLeaves, Parties
    <2>3. pc'[S] = "done" /\ out'[C] = out[C] /\ channels' = channels
      BY <1>3, <2>2, Parties DEF Leaves, Shape, Ended
    <2> QED
      BY <1>1, <2>2, <2>3 DEF LoginInv, Vouched, LoginFirst
  <1>4. CASE RecvChannelOpen
    <2> DEFINE m == SshPacket("ChannelOpenConfirmation", <<>>,
                              <<Msg(S).num[1], channels.next_id, DEFAULT_WINDOW_SIZE>>)
    <2>1. pc[S] = "loop" /\ Recv(S) /\ Handled(S, "loop", <<m>>)
      BY <1>4 DEF RecvChannelOpen, InLoop, Replies
    <2> HIDE DEF m
    <2>2. /\ Shape' /\ out'[C] = out[C] /\ Elems(inbox'[S]) \subseteq Elems(inbox[S])
      BY <1>1, <2>1, HandledShape, Parties, Lists
    <2>3. tried
      BY <2>1 DEF LoginInv, LoginFirst
    <2> QED
      BY <1>1, <2>2, <2>3 DEF LoginInv, Vouched, LoginFirst
  <1>5. CASE Send(S) /\ UNCHANGED channels
    <2>1. Shape' /\ Writes(S)
      BY <1>1, <1>5, SendWrites, Parties
    <2>2. out'[C] = out[C] /\ inbox'[S] = inbox[S] /\ pc' = pc
      BY <2>1, Parties DEF Writes, Shape
    <2> QED
      BY <1>1, <1>5, <2>1, <2>2 DEF LoginInv, Vouched, LoginFirst
  <1> QED
    BY <1>2, <1>3, <1>4, <1>5, ServerSteps DEF ServerStep

LEMMA LoginClient ==
    ASSUME Shape, LoginInv, ClientStep
    PROVE  Shape' /\ LoginInv'
  <1>1. ASSUME NEW m, Says(m), tried' \in BOOLEAN, strayed' \in BOOLEAN, tried => tried',
               m.type = "UserAuthRequest" /\ Authenticates(m) => tried'
        PROVE  Shape' /\ LoginInv'
    <2>1. Spoken(m) /\ Shape'
      BY <1>1, SaysSpoken
    <2> QED
      BY <1>1, <2>1 DEF Spoken, LoginInv, Vouched, LoginFirst
  <1>2. tried \in BOOLEAN /\ strayed \in BOOLEAN
    BY DEF Shape
  <1>3. CASE SayPlain
    <2>1. PICK m \in {SshPacket("ServiceRequest", <<"ssh-userauth">>, <<>>),
                      SshPacket("Ignore", <<>>, <<>>),
                      SshPacket("Disconnect", <<>>, <<>>),
                      SshPacket("ChannelOpen", <<"short">>, <<0, 0>>)} : Says(m)
      BY <1>3 DEF SayPlain
    <2>2. m.type # "UserAuthRequest" /\ tried' = tried /\ strayed' = strayed
      BY <1>3 DEF SayPlain, SshPacket
    <2> QED
      BY <1>1, <1>2, <2>1, <2>2
  <1>4. CASE SayAuth
    <2>1. PICK t \in AuthRequests : /\ Says(SshPacket("UserAuthRequest", t, <<>>))
                                    /\ tried' = (tried \/ Valid(t))
      BY <1>4 DEF SayAuth
    <2>2. strayed' = strayed
      BY <1>4 DEF SayAuth
    <2> QED
      BY <1>1, <1>2, <2>1, <2>2 DEF Valid
  <1>5. CASE SayOpen
    <2> DEFINE m == SshPacket("ChannelOpen", <<"session">>, <<FirstId + opened, 10>>)
    <2>1. Says(m) /\ m.type # "UserAuthRequest" /\ tried' = tried /\ strayed' = strayed
      BY <1>5 DEF SayOpen, SshPacket
    <2> HIDE DEF m
    <2> QED
      BY <1>1, <1>2, <2>1
  <1>6. CASE SayRequest
    <2>1. PICK ch \in Channels, t \in Requests, want \in BOOLEAN :
             /\ Says([SshPacket("ChannelRequest", t, <<ch.theirs>>) EXCEPT !.want = want])
             /\ Uses(ch)
      BY <1>6 DEF SayRequest
    <2> DEFINE m == [SshPacket("ChannelRequest", t, <<ch.theirs>>) EXCEPT !.want = want]
    <2>2. m.type # "UserAuthRequest" /\ tried' = tried
      BY <1>6 DEF SayRequest, SshPacket
    <2> HIDE DEF m
    <2> QED
      BY <1>1, <1>2, <2>1, <2>2, OnAChannel DEF m
  <1>7. CASE SayData
    <2>1. PICK ch \in Channels, t \in Pieces :
             Says(SshPacket("ChannelData", t, <<ch.theirs, 9>>)) /\ Uses(ch)
      BY <1>7 DEF SayData
    <2> DEFINE m == SshPacket("ChannelData", t, <<ch.theirs, 9>>)
    <2>2. m.type # "UserAuthRequest" /\ tried' = tried
      BY <1>7 DEF SayData, SshPacket
    <2> HIDE DEF m
    <2> QED
      BY <1>1, <1>2, <2>1, <2>2, OnAChannel DEF m
  <1>8. CASE SayOnChannel
    <2>1. PICK ch \in Channels :
             /\ Uses(ch)
             /\ \/ \E type \in {"ChannelEof", "ChannelClose"} :
                      Says(SshPacket(type, <<>>, <<ch.theirs>>))
                \/ Says(SshPacket("ChannelWindowAdjust", <<>>, <<ch.theirs, 5>>))
      BY <1>8 DEF SayOnChannel
    <2>2. PICK m : Says(m) /\ m.type # "UserAuthRequest"
      BY <2>1 DEF SshPacket
    <2>3. tried' = tried
      BY <1>8 DEF SayOnChannel
    <2> QED
      BY <1>1, <1>2, <2>1, <2>2, <2>3, OnAChannel
  <1>9. CASE Hear
    <2> DEFINE none == <<>>
    <2>1. /\ Recv(C) /\ Handled(C, "open", none) /\ channels' = channels
          /\ tried' = tried /\ strayed' = strayed
      BY <1>9 DEF Hear
    <2>2. none \in Seq(Elems(none)) /\ Elems(none) = {}
      BY Lists, ElemsShort
    <2> HIDE DEF none
    <2>3. /\ Shape' /\ out'[C] = none /\ inbox'[S] = inbox[S] /\ pc'[S] = pc[S]
      BY <1>2, <2>1, <2>2, HandledShape, Parties
    <2> QED
      BY <2>1, <2>2, <2>3 DEF LoginInv, Vouched, LoginFirst
  <1>10. CASE Send(C) /\ UNCHANGED <<channels, anyVars>>
    <2>1. tried' = tried /\ strayed' = strayed /\ channels' = channels
      BY <1>10 DEF anyVars
    <2>2. Shape' /\ Writes(C)
      BY <1>10, <2>1, SendWrites, Parties
    <2>3. pc' = pc /\ Elems(out'[C]) \subseteq Elems(out[C]) /\ Head(out[C]) \in Elems(out[C])
      BY <2>2 DEF Writes
    <2>4. \A f \in Elems(inbox'[S]) : f \in Elems(inbox[S]) \/ f.msg = Head(out[C])
      <3>1. CASE inbox'[S] = inbox[S]
        BY <3>1
      <3>2. ASSUME NEW f, f.msg = Head(out[C]), inbox'[S] = Append(inbox[S], f)
            PROVE  \A g \in Elems(inbox'[S]) : g \in Elems(inbox[S]) \/ g.msg = Head(out[C])
        <4>1. inbox[S] \in Seq(Elems(inbox[S]) \cup {f})
          BY Parties DEF Shape
        <4>2. Elems(inbox'[S]) \subseteq Elems(inbox[S]) \cup {f}
          BY <3>2, <4>1, ElemsAppend
        <4> QED
          BY <3>2, <4>2
      <3> QED
        BY <2>2, <3>1, <3>2, Parties DEF Writes
    <2> QED
      BY <2>1, <2>2, <2>3, <2>4 DEF LoginInv, Vouched, LoginFirst
  <1>11. ASSUME NEW r, NEW unread, Return(C, r, unread), UNCHANGED <<channels, anyVars>>
         PROVE  Shape' /\ LoginInv'
    <2>1. tried' = tried /\ strayed' = strayed /\ channels' = channels
      BY <1>11 DEF anyVars
    <2>2. /\ Shape' /\ Leaves(C, r) /\ Elems(out'[C]) = {}
          /\ Elems(inbox'[S]) \subseteq Elems(inbox[S])
      BY <1>11, <2>1, ReturnLeaves, Parties
    <2>3. pc'[S] = pc[S]
      BY <2>2, Parties DEF Leaves, Shape
    <2> QED
      BY <2>1, <2>2, <2>3 DEF LoginInv, Vouched, LoginFirst
  <1> QED
    BY <1>3, <1>4, <1>5, <1>6, <1>7, <1>8, <1>9, <1>10, <1>11, ClientSteps

LEMMA ShapeInit == Init => Shape
  <1>1. <<>> \in Seq(Elems(<<>>))
    BY Lists
  <1> QED
    BY <1>1 DEF Init, Shape

LEMMA LoginAlways == Spec => [](Shape /\ LoginInv)
  <1>1. Init => Shape /\ LoginInv
    <2>1. ASSUME Init PROVE LoginInv
      <3>1. PICK start \in Starts : /\ pc = [p \in Peer |-> IF p = S THEN start ELSE "open"]
                                    /\ tried = (start = "loop")
        BY <2>1 DEF Init
      <3>2. Elems(out[C]) = {} /\ Elems(inbox[S]) = {}
        BY <2>1, ElemsShort, Parties DEF Init
      <3>3. DOMAIN channels.channels = {}
        BY <2>1 DEF Init, ServerInit, NewManager
      <3>4. pc[S] = start
        BY <3>1, Parties
      <3> QED
        BY <3>1, <3>2, <3>3, <3>4 DEF LoginInv, LoginFirst
    <2> QED
      BY <2>1, ShapeInit
  <1>2. Shape /\ LoginInv /\ [Next]_vars => Shape' /\ LoginInv'
    <2>1. ASSUME Shape, LoginInv, UNCHANGED vars PROVE Shape' /\ LoginInv'
      BY <2>1 DEF vars, transport, anyVars, Shape, LoginInv, Vouched, LoginFirst
    <2> QED
      BY <2>1, LoginServer, LoginClient DEF Next
  <1> QED
    BY <1>1, <1>2, PTL DEF Spec

\* server.rs:217 `while !authenticated': no order of packets gets a client into the channel
\* loop, or to a channel, before it has presented a valid credential, for every
\* user database and every number of packets.
THEOREM CredentialsFirst == Spec => []LoginFirst
  <1>1. LoginInv => LoginFirst
    BY DEF LoginInv
  <1> QED
    BY <1>1, LoginAlways, PTL

-----------------------------------------------------------------------------
(* Sequences of frames that open channels in order. *)

LEMMA OrderPrefix ==
    ASSUME NEW X, NEW s \in Seq(X), NEW lo \in Nat, NEW hi \in Nat, InOrder(s, lo, hi),
           NEW i \in 0 .. Len(s)
    PROVE  InOrder(SubSeq(s, 1, i), lo, hi)
  <1> DEFINE t == SubSeq(s, 1, i)
  <1>1. DOMAIN t = 1 .. i /\ \A j \in 1 .. i : j \in DOMAIN s /\ t[j] = s[j]
    OBVIOUS
  <1> HIDE DEF t
  <1>2. \A n : \A k \in 0 .. i : OpenedBy(s, n, k) => OpenedBy(t, n, k)
    BY <1>1 DEF OpenedBy
  <1>3. ASSUME NEW j \in DOMAIN t, IsOpen(t[j].msg)
        PROVE  /\ t[j].msg.num[1] \in lo .. hi - 1
               /\ \A n \in lo .. t[j].msg.num[1] - 1 : OpenedBy(t, n, j - 1)
               /\ \A k \in 1 .. j - 1 : IsOpen(t[k].msg) => t[k].msg.num[1] < t[j].msg.num[1]
    <2>1. j \in DOMAIN s /\ t[j] = s[j] /\ j - 1 \in 0 .. i
      BY <1>1
    <2>2. /\ s[j].msg.num[1] \in lo .. hi - 1
          /\ \A n \in lo .. s[j].msg.num[1] - 1 : OpenedBy(s, n, j - 1)
          /\ \A k \in 1 .. j - 1 : IsOpen(s[k].msg) => s[k].msg.num[1] < s[j].msg.num[1]
      BY <1>3, <2>1 DEF InOrder
    <2>3. \A k \in 1 .. j - 1 : t[k] = s[k]
      BY <1>1
    <2> QED
      BY <1>2, <2>1, <2>2, <2>3
  <1> QED
    BY <1>3 DEF InOrder, t

LEMMA OrderFirst ==
    ASSUME NEW X, NEW s \in Seq(X), s # <<>>, NEW lo \in Nat, NEW hi \in Nat, InOrder(s, lo, hi),
           IsOpen(Head(s).msg)
    PROVE  Head(s).msg.num[1] = lo /\ lo < hi
  <1>1. 1 \in DOMAIN s /\ Head(s) = s[1]
    OBVIOUS
  <1>2. s[1].msg.num[1] \in lo .. hi - 1
        /\ \A n \in lo .. s[1].msg.num[1] - 1 : OpenedBy(s, n, 1 - 1)
    BY <1>1 DEF InOrder
  <1>3. \A n : ~OpenedBy(s, n, 1 - 1)
    BY DEF OpenedBy
  <1> QED
    BY <1>1, <1>2, <1>3

LEMMA OrderTail ==
    ASSUME NEW X, NEW s \in Seq(X), s # <<>>, NEW lo \in Nat, NEW hi \in Nat, InOrder(s, lo, hi),
           NEW from \in Nat, from = IF IsOpen(Head(s).msg) THEN lo + 1 ELSE lo
    PROVE  /\ InOrder(Tail(s), from, hi)
           /\ \A n \in Nat : n >= from /\ OpenedBy(s, n, Len(s))
                                => OpenedBy(Tail(s), n, Len(Tail(s)))
  <1> DEFINE t == Tail(s)
  <1>1. /\ Len(s) \in Nat /\ Len(s) > 0 /\ Len(t) = Len(s) - 1 /\ DOMAIN t = 1 .. Len(s) - 1
        /\ DOMAIN s = 1 .. Len(s)
        /\ \A j \in DOMAIN t : j + 1 \in DOMAIN s /\ t[j] = s[j + 1]
        /\ Head(s) = s[1]
    OBVIOUS
  <1>2. IsOpen(s[1].msg) => s[1].msg.num[1] = lo
    BY <1>1, OrderFirst
  <1> HIDE DEF t
  <1>3. ASSUME NEW n \in Nat, n >= from, NEW k \in 1 .. Len(s), OpenedBy(s, n, k)
        PROVE  OpenedBy(t, n, k - 1)
    <2>1. PICK j \in 1 .. k : IsOpen(s[j].msg) /\ s[j].msg.num[1] = n
      BY <1>3 DEF OpenedBy
    <2>2. j # 1
      BY <1>1, <1>2, <1>3, <2>1
    <2>3. j - 1 \in 1 .. k - 1 /\ t[j - 1] = s[j]
      BY <1>1, <1>3, <2>1, <2>2
    <2> QED
      BY <2>1, <2>3 DEF OpenedBy
  <1>4. ASSUME NEW i \in DOMAIN t, IsOpen(t[i].msg)
        PROVE  /\ t[i].msg.num[1] \in from .. hi - 1
               /\ \A n \in from .. t[i].msg.num[1] - 1 : OpenedBy(t, n, i - 1)
               /\ \A j \in 1 .. i - 1 : IsOpen(t[j].msg) => t[j].msg.num[1] < t[i].msg.num[1]
    <2>1. i + 1 \in DOMAIN s /\ t[i] = s[i + 1] /\ i \in 1 .. Len(s) /\ 1 \in 1 .. (i + 1) - 1
      BY <1>1
    <2>2. /\ s[i + 1].msg.num[1] \in lo .. hi - 1
          /\ \A n \in lo .. s[i + 1].msg.num[1] - 1 : OpenedBy(s, n, (i + 1) - 1)
          /\ \A j \in 1 .. (i + 1) - 1 :
                IsOpen(s[j].msg) => s[j].msg.num[1] < s[i + 1].msg.num[1]
      BY <1>4, <2>1 DEF InOrder
    <2>3. t[i].msg.num[1] \in from .. hi - 1
      BY <1>1, <1>2, <2>1, <2>2
    <2>4. \A n \in from .. t[i].msg.num[1] - 1 : OpenedBy(t, n, i - 1)
      <3>1. TAKE n \in from .. t[i].msg.num[1] - 1
      <3>2. n \in Nat /\ n >= from /\ OpenedBy(s, n, i)
        BY <2>1, <2>2, <2>3
      <3> QED
        BY <1>3, <2>1, <3>2
    <2>5. \A j \in 1 .. i - 1 : j + 1 \in 1 .. (i + 1) - 1 /\ t[j] = s[j + 1]
      BY <1>1
    <2> QED
      BY <2>1, <2>2, <2>3, <2>4, <2>5
  <1>5. InOrder(t, from, hi)
    BY <1>4 DEF InOrder
  <1>6. \A n \in Nat : n >= from /\ OpenedBy(s, n, Len(s)) => OpenedBy(t, n, Len(t))
    BY <1>1, <1>3
  <1> QED
    BY <1>5, <1>6 DEF t

LEMMA OrderAppend ==
    ASSUME NEW X, NEW s \in Seq(X), NEW lo \in Nat, NEW hi \in Nat, lo <= hi, InOrder(s, lo, hi),
           \A n \in lo .. hi - 1 : OpenedBy(s, n, Len(s)),
           NEW f \in X, IsOpen(f.msg) => f.msg.num[1] = hi,
           NEW to \in Nat, to = IF IsOpen(f.msg) THEN hi + 1 ELSE hi
    PROVE  /\ InOrder(Append(s, f), lo, to)
           /\ \A n \in lo .. to - 1 : OpenedBy(Append(s, f), n, Len(Append(s, f)))
  <1> DEFINE t == Append(s, f)
  <1>1. /\ Len(s) \in Nat /\ Len(t) = Len(s) + 1 /\ DOMAIN t = 1 .. Len(s) + 1
        /\ DOMAIN s = 1 .. Len(s)
        /\ \A j \in 1 .. Len(s) : t[j] = s[j]
        /\ t[Len(s) + 1] = f
    OBVIOUS
  <1> HIDE DEF t
  <1>2. ASSUME NEW n, NEW k \in 0 .. Len(s), OpenedBy(s, n, k)
        PROVE  OpenedBy(t, n, k) /\ OpenedBy(t, n, Len(t))
    BY <1>1, <1>2 DEF OpenedBy
  <1>3. ASSUME NEW i \in 1 .. Len(s), IsOpen(t[i].msg)
        PROVE  /\ t[i].msg.num[1] \in lo .. hi - 1
               /\ \A n \in lo .. t[i].msg.num[1] - 1 : OpenedBy(t, n, i - 1)
               /\ \A j \in 1 .. i - 1 : IsOpen(t[j].msg) => t[j].msg.num[1] < t[i].msg.num[1]
    <2>1. i \in DOMAIN s /\ t[i] = s[i] /\ i - 1 \in 0 .. Len(s)
      BY <1>1
    <2>2. /\ s[i].msg.num[1] \in lo .. hi - 1
          /\ \A n \in lo .. s[i].msg.num[1] - 1 : OpenedBy(s, n, i - 1)
          /\ \A j \in 1 .. i - 1 : IsOpen(s[j].msg) => s[j].msg.num[1] < s[i].msg.num[1]
      BY <1>3, <2>1 DEF InOrder
    <2>3. \A j \in 1 .. i - 1 : t[j] = s[j]
      BY <1>1
    <2> QED
      BY <1>2, <2>1, <2>2, <2>3
  <1>4. ASSUME IsOpen(f.msg)
        PROVE  /\ f.msg.num[1] \in lo .. to - 1
               /\ \A n \in lo .. f.msg.num[1] - 1 : OpenedBy(t, n, Len(s))
               /\ \A j \in 1 .. Len(s) : IsOpen(t[j].msg) => t[j].msg.num[1] < f.msg.num[1]
    <2>1. f.msg.num[1] = hi /\ to = hi + 1
      BY <1>4
    <2>2. \A n \in lo .. hi - 1 : OpenedBy(t, n, Len(s))
      BY <1>1, <1>2
    <2> QED
      BY <1>3, <2>1, <2>2
  <1>5. InOrder(t, lo, to)
    <2>1. ASSUME NEW i \in DOMAIN t, IsOpen(t[i].msg)
          PROVE  /\ t[i].msg.num[1] \in lo .. to - 1
                 /\ \A n \in lo .. t[i].msg.num[1] - 1 : OpenedBy(t, n, i - 1)
                 /\ \A j \in 1 .. i - 1 : IsOpen(t[j].msg) => t[j].msg.num[1] < t[i].msg.num[1]
      <3>1. CASE i \in 1 .. Len(s)
        BY <1>3, <2>1, <3>1
      <3>2. CASE i = Len(s) + 1
        <4>1. t[i] = f /\ i - 1 = Len(s)
          BY <1>1, <3>2
        <4> QED
          BY <1>4, <2>1, <4>1
      <3> QED
        BY <1>1, <3>1, <3>2
    <2> QED
      BY <2>1 DEF InOrder
  <1>6. \A n \in lo .. to - 1 : OpenedBy(t, n, Len(t))
    <2>1. TAKE n \in lo .. to - 1
    <2>2. CASE n \in lo .. hi - 1
      BY <1>1, <1>2, <2>2
    <2>3. CASE IsOpen(f.msg) /\ n = hi
      BY <1>1, <2>3 DEF OpenedBy
    <2> QED
      BY <2>2, <2>3
  <1> QED
    BY <1>5, <1>6 DEF t

-----------------------------------------------------------------------------
(* A client that numbers its channels from 0 meets no unknown channel. *)

Numbering == FirstId = 0 /\ MaxChannels <= U32_MAX

\* The manager after a step: the same channels under the same numbers.
SameChannels ==
    /\ channels'.next_id = channels.next_id
    /\ DOMAIN channels' = {"channels", "next_id"}
    /\ DOMAIN channels'.channels = DOMAIN channels.channels
    /\ \A id \in DOMAIN channels.channels :
          /\ "remote_id" \in DOMAIN channels'.channels[id]
          /\ channels'.channels[id].remote_id = id

LEMMA WindowsAndEof ==
    ASSUME SameNumbers, NEW next, NEW packets, Answered(next, packets)
    PROVE  SameChannels
  <1>1. CASE channels' = channels
    BY <1>1 DEF SameNumbers, SameChannels
  <1>2. ASSUME NEW id \in Found, NEW n, channels' = AddRemoteWindow(channels, id, n)
        PROVE  SameChannels
    <2> DEFINE w == SaturatingAdd(channels.channels[id].remote_window, n)
    <2>1. channels' = [channels EXCEPT !.channels =
                          [channels.channels EXCEPT ![id] =
                              [channels.channels[id] EXCEPT !.remote_window = w]]]
      BY <1>2 DEF AddRemoteWindow
    <2>2. id \in DOMAIN channels.channels
      BY DEF Found, FindByRemoteId
    <2> HIDE DEF w
    <2> QED
      BY <2>1, <2>2 DEF SameNumbers, SameChannels
  <1>3. ASSUME NEW id \in Found, channels' = EofReceived(channels, id)
        PROVE  SameChannels
    <2>1. channels' = [channels EXCEPT !.channels =
                          [channels.channels EXCEPT ![id] =
                              [channels.channels[id] EXCEPT !.eof_received = TRUE]]]
      BY <1>3 DEF EofReceived
    <2>2. id \in DOMAIN channels.channels
      BY DEF Found, FindByRemoteId
    <2> QED
      BY <2>1, <2>2 DEF SameNumbers, SameChannels
  <1> QED
    BY <1>1, <1>2, <1>3 DEF Answered

LEMMA StillThere ==
    ASSUME SameNumbers, SameChannels, UNCHANGED opened
    PROVE  SameNumbers' /\ channels'.next_id = channels.next_id
           /\ DOMAIN channels'.channels = DOMAIN channels.channels
  BY DEF SameNumbers, SameChannels

\* What the two sides have handed over stays in order when nothing happens to it.
LEMMA OrderKept ==
    ASSUME OpensInOrder, channels'.next_id = channels.next_id, UNCHANGED opened,
           inbox'[S] = inbox[S], out'[C] = out[C], pc'[C] = pc[C]
    PROVE  OpensInOrder'
  BY DEF OpensInOrder, Written, Pending

LEMMA WrittenTyped ==
    ASSUME SameNumbers, OpensInOrder
    PROVE  Written \in Nat /\ channels.next_id \in Nat /\ Written <= opened
           /\ opened \in Nat
  BY DEF SameNumbers, OpensInOrder, Written

LEMMA KnownAnswered ==
    ASSUME Shape, ChannelInv, UNCHANGED anyVars, NEW next, NEW packets, Answered(next, packets)
    PROVE  ChannelInv'
  <1>1. /\ UNCHANGED <<tried, strayed, opened, peer>> /\ tried' \in BOOLEAN
        /\ strayed' \in BOOLEAN
    BY DEF anyVars, Shape
  <1>2. /\ Recv(S) /\ Handled(S, next, packets) /\ packets \in Seq(Elems(packets))
        /\ ~IsOpen(Msg(S)) /\ pc[S] # "done"
    BY DEF Answered, Recv, Arrived, Reading
  <1>3. /\ inbox[S] # <<>>
        /\ out'[S] = packets /\ out'[C] = out[C]
        /\ inbox'[S] = Tail(inbox[S]) /\ inbox'[C] = inbox[C]
        /\ Elems(inbox'[S]) \subseteq Elems(inbox[S])
        /\ pc'[C] = pc[C] /\ UNCHANGED <<res, reset>>
    BY <1>1, <1>2, HandledShape, Parties
  <1>4. /\ SameNumbers' /\ channels'.next_id = channels.next_id
        /\ DOMAIN channels'.channels = DOMAIN channels.channels
    BY <1>1, WindowsAndEof, StillThere DEF ChannelInv
  <1>5. (reset => pc[C] = "done") /\ OpensInOrder /\ SameNumbers
    BY <1>2 DEF ChannelInv
  <1>6. OpensInOrder'
    <2>1. Written' = Written
      BY <1>1, <1>3 DEF Written, Pending
    <2>2. Written \in Nat /\ channels.next_id \in Nat
      BY <1>5, WrittenTyped
    <2>3. inbox[S] \in Seq(Elems(inbox[S])) /\ ~IsOpen(Head(inbox[S]).msg)
      BY <1>2, Parties DEF Shape, Msg
    <2>4. /\ InOrder(Tail(inbox[S]), channels.next_id, Written)
          /\ \A n \in Nat : n >= channels.next_id /\ OpenedBy(inbox[S], n, Len(inbox[S]))
                               => OpenedBy(Tail(inbox[S]), n, Len(Tail(inbox[S])))
      BY <1>3, <1>5, <2>2, <2>3, OrderTail DEF OpensInOrder
    <2>5. pc[C] # "done" => \A n \in channels.next_id .. Written - 1 :
                               OpenedBy(Tail(inbox[S]), n, Len(Tail(inbox[S])))
      BY <1>5, <2>2, <2>4 DEF OpensInOrder
    <2> QED
      BY <1>1, <1>3, <1>4, <1>5, <2>1, <2>4, <2>5 DEF OpensInOrder
  <1>7. \A m \in Elems(out'[S]) : Confirms(m)'
    BY <1>3 DEF Answered, Confirms
  <1> QED
    BY <1>1, <1>3, <1>4, <1>5, <1>6, <1>7 DEF ChannelInv, Addressed, Confirms, KnownChannel

LEMMA KnownOpen ==
    ASSUME Numbering, Shape, ChannelInv, UNCHANGED anyVars, RecvChannelOpen
    PROVE  ChannelInv'
  <1> DEFINE k == channels.next_id
             m == SshPacket("ChannelOpenConfirmation", <<>>,
                            <<Msg(S).num[1], k, DEFAULT_WINDOW_SIZE>>)
             ch == NewChannel(Msg(S).num[1], Msg(S).num[2])
  <1>1. /\ UNCHANGED <<tried, strayed, opened, peer>> /\ tried' \in BOOLEAN
        /\ strayed' \in BOOLEAN
    BY DEF anyVars, Shape
  <1>2. /\ Recv(S) /\ Handled(S, "loop", <<m>>) /\ IsOpen(Msg(S)) /\ pc[S] # "done"
        /\ channels' = InsertNext(channels, ch)
    BY DEF RecvChannelOpen, InLoop, Replies, IsOpen, AcceptChannel
  <1>3. /\ m.num[1] = Msg(S).num[1] /\ m.num[2] = k /\ ch.remote_id = Msg(S).num[1]
        /\ "remote_id" \in DOMAIN ch
    BY DEF SshPacket, NewChannel
  <1> HIDE DEF m, ch
  <1>4. <<m>> \in Seq(Elems(<<m>>)) /\ Elems(<<m>>) = {m}
    BY Lists, ElemsShort
  <1>5. /\ inbox[S] # <<>>
        /\ out'[S] = <<m>> /\ out'[C] = out[C]
        /\ inbox'[S] = Tail(inbox[S]) /\ inbox'[C] = inbox[C]
        /\ Elems(inbox'[S]) \subseteq Elems(inbox[S])
        /\ pc'[C] = pc[C] /\ UNCHANGED <<res, reset>>
    <2> DEFINE packets == <<m>>
    <2>1. packets \in Seq(Elems(packets)) /\ Handled(S, "loop", packets)
      BY <1>2, <1>4
    <2> HIDE DEF packets
    <2>2. /\ inbox[S] # <<>>
          /\ out'[S] = packets /\ out'[C] = out[C]
          /\ inbox'[S] = Tail(inbox[S]) /\ inbox'[C] = inbox[C]
          /\ Elems(inbox'[S]) \subseteq Elems(inbox[S])
          /\ pc'[C] = pc[C] /\ UNCHANGED <<res, reset>>
      BY <1>1, <1>2, <2>1, HandledShape, Parties
    <2> QED
      BY <2>2 DEF packets
  <1>6. (reset => pc[C] = "done") /\ OpensInOrder /\ SameNumbers
    BY <1>2 DEF ChannelInv
  <1>7. Written \in Nat /\ k \in Nat /\ Written <= opened /\ opened \in Nat
    BY <1>6, WrittenTyped
  <1>8. inbox[S] \in Seq(Elems(inbox[S])) /\ IsOpen(Head(inbox[S]).msg)
        /\ Msg(S) = Head(inbox[S]).msg
    BY <1>2, Parties DEF Shape, Msg
  <1>9. Msg(S).num[1] = k /\ k < Written
    BY <1>5, <1>6, <1>7, <1>8, OrderFirst DEF OpensInOrder
  <1>10. (k + 1) % (U32_MAX + 1) = k + 1
    <2>1. MaxChannels \in Nat /\ U32_MAX \in Nat
      BY AnyClientAssumption, ConnectionAssumption
    <2>2. k + 1 <= U32_MAX
      BY <1>6, <1>7, <1>9, <2>1 DEF Numbering, SameNumbers
    <2> QED
      BY <1>7, <2>1, <2>2
  <1>11. /\ channels'.next_id = k + 1
         /\ DOMAIN channels' = {"channels", "next_id"}
         /\ channels'.channels = [id \in DOMAIN channels.channels \cup {k} |->
                                     IF id = k THEN ch ELSE channels.channels[id]]
    BY <1>2, <1>10 DEF InsertNext
  <1> HIDE DEF k
  <1>12. DOMAIN channels.channels = 0 .. k - 1
    BY <1>6 DEF SameNumbers, k
  <1>13. DOMAIN channels'.channels = 0 .. k
    BY <1>7, <1>11, <1>12
  <1>14. SameNumbers'
    <2>1. opened' \in Nat /\ opened' <= MaxChannels
      BY <1>1, <1>6 DEF SameNumbers
    <2>2. \A id \in 0 .. k : /\ "remote_id" \in DOMAIN channels'.channels[id]
                             /\ channels'.channels[id].remote_id = id
      <3>1. TAKE id \in 0 .. k
      <3>2. CASE id = k
        BY <1>3, <1>9, <1>11, <3>2
      <3>3. CASE id \in 0 .. k - 1
        BY <1>6, <1>7, <1>11, <1>12, <3>3 DEF SameNumbers
      <3> QED
        BY <1>7, <3>2, <3>3
    <2> QED
      BY <1>7, <1>11, <1>13, <2>1, <2>2 DEF SameNumbers
  <1>15. DOMAIN channels.channels \subseteq DOMAIN channels'.channels
    BY <1>7, <1>12, <1>13
  <1>16. OpensInOrder'
    <2>1. Written' = Written
      BY <1>1, <1>5 DEF Written, Pending
    <2>2. k + 1 \in Nat /\ k + 1 <= Written
      BY <1>7, <1>9
    <2>3. InOrder(inbox[S], k, Written)
      BY <1>6 DEF OpensInOrder, k
    <2>4. /\ InOrder(Tail(inbox[S]), k + 1, Written)
          /\ \A n \in Nat : n >= k + 1 /\ OpenedBy(inbox[S], n, Len(inbox[S]))
                               => OpenedBy(Tail(inbox[S]), n, Len(Tail(inbox[S])))
      BY <1>5, <1>7, <1>8, <2>2, <2>3, OrderTail
    <2>5. pc[C] # "done" => \A n \in (k + 1) .. Written - 1 :
                               OpenedBy(Tail(inbox[S]), n, Len(Tail(inbox[S])))
      <3>1. pc[C] # "done" => \A n \in k .. Written - 1 :
                                 OpenedBy(inbox[S], n, Len(inbox[S]))
        BY <1>6 DEF OpensInOrder, k
      <3> QED
        BY <1>7, <2>4, <3>1
    <2>6. \A x \in Elems(out'[C]) : IsOpen(x) => x.num[1] = opened' - 1
      BY <1>1, <1>5, <1>6 DEF OpensInOrder
    <2> QED
      BY <1>5, <1>11, <2>1, <2>2, <2>4, <2>5, <2>6 DEF OpensInOrder
  <1>17. \A x \in Elems(out'[S]) : Confirms(x)'
    BY <1>3, <1>4, <1>5, <1>7, <1>9, <1>13 DEF Confirms
  <1> QED
    BY <1>1, <1>5, <1>6, <1>14, <1>15, <1>16, <1>17
    DEF ChannelInv, Addressed, Confirms, KnownChannel

LEMMA KnownEnded ==
    ASSUME Shape, ChannelInv, UNCHANGED anyVars, NEW r, Ended(r)
    PROVE  ChannelInv'
  <1>1. UNCHANGED <<tried, strayed, opened, peer, channels>>
    BY DEF anyVars, Ended
  <1>2. PICK unread : Return(S, r, unread)
    BY DEF Ended
  <1>3. /\ Leaves(S, r) /\ Elems(out'[S]) = {} /\ Elems(inbox'[S]) = {}
        /\ Elems(inbox'[C]) \subseteq Elems(inbox[C])
    BY <1>1, <1>2, ReturnLeaves, Parties
  <1>4. pc'[S] = "done" /\ pc'[C] = pc[C] /\ out'[C] = out[C] /\ res'[S] = r
    BY <1>3, Parties DEF Leaves, Shape
  <1>5. r = "Channel" => strayed
    <2>1. SUFFICES ASSUME r = "Channel" PROVE strayed
      OBVIOUS
    <2>2. /\ Recv(S) /\ Found = {} /\ Msg(S).type \in {"ChannelRequest", "ChannelData"}
      BY <2>1 DEF Ended
    <2>3. Head(inbox[S]) \in Elems(inbox[S])
      <3>1. inbox[S] \in Seq(Elems(inbox[S])) /\ inbox[S] # <<>>
        BY <2>2, Parties DEF Shape, Recv, Arrived
      <3> QED
        BY <3>1, ElemsTail
    <2>4. Addressed(Msg(S))
      BY <2>3 DEF ChannelInv, Msg
    <2>5. Msg(S).num[1] \notin DOMAIN channels.channels
      BY <2>2 DEF Found, FindByRemoteId, ChannelInv, SameNumbers
    <2> QED
      BY <2>2, <2>4, <2>5 DEF Addressed
  <1>6. SameNumbers'
    BY <1>1 DEF ChannelInv, SameNumbers
  <1> QED
    BY <1>1, <1>3, <1>4, <1>5, <1>6 DEF ChannelInv, Addressed, Confirms, KnownChannel

LEMMA KnownServerSends ==
    ASSUME Shape, ChannelInv, UNCHANGED anyVars, Send(S), UNCHANGED channels
    PROVE  ChannelInv'
  <1>1. UNCHANGED <<tried, strayed, opened, peer, channels>>
    BY DEF anyVars
  <1>2. Writes(S)
    BY <1>1, SendWrites, Parties
  <1>3. /\ out'[C] = out[C] /\ inbox'[S] = inbox[S] /\ UNCHANGED <<pc, res>>
        /\ Elems(out'[S]) \subseteq Elems(out[S]) /\ Head(out[S]) \in Elems(out[S])
        /\ reset' => reset \/ pc[C] = "done"
    BY <1>2, Parties DEF Writes, Shape
  <1>4. \A f \in Elems(inbox'[C]) : f \in Elems(inbox[C]) \/ f.msg = Head(out[S])
    <2>1. CASE inbox'[C] = inbox[C]
      BY <2>1
    <2>2. ASSUME NEW f, f.msg = Head(out[S]), inbox'[C] = Append(inbox[C], f)
          PROVE  \A g \in Elems(inbox'[C]) : g \in Elems(inbox[C]) \/ g.msg = Head(out[S])
      <3>1. inbox[C] \in Seq(Elems(inbox[C]) \cup {f})
        BY Parties DEF Shape
      <3>2. Elems(inbox'[C]) \subseteq Elems(inbox[C]) \cup {f}
        BY <2>2, <3>1, ElemsAppend
      <3> QED
        BY <2>2, <3>2
    <2> QED
      BY <1>2, <2>1, <2>2, Parties DEF Writes
  <1>5. SameNumbers'
    BY <1>1 DEF ChannelInv, SameNumbers
  <1>6. pc'[S] # "done" => (reset' => pc'[C] = "done") /\ OpensInOrder'
    BY <1>1, <1>3, OrderKept DEF ChannelInv
  <1> QED
    BY <1>1, <1>3, <1>4, <1>5, <1>6 DEF ChannelInv, Addressed, Confirms, KnownChannel

LEMMA KnownServer ==
    ASSUME Numbering, Shape, ChannelInv, ServerStep
    PROVE  ChannelInv'
  <1>1. UNCHANGED anyVars /\ ServerNext
    BY DEF ServerStep
  <1> QED
    BY <1>1, KnownAnswered, KnownOpen, KnownEnded, KnownServerSends, ServerSteps

-----------------------------------------------------------------------------

\* A packet the client hands over: opens no channel and is for a known one.
LEMMA KnownSpoken ==
    ASSUME Shape, ChannelInv, NEW m, Spoken(m), ~IsOpen(m), UNCHANGED <<opened, peer>>,
           strayed => strayed', Addressed(m)'
    PROVE  ChannelInv'
  <1>1. Elems(out'[C]) = {m} /\ Elems(out[C]) = {} /\ Len(out'[C]) <= 1
        /\ UNCHANGED <<pc, res, inbox, reset, channels>> /\ pc[C] = "open" /\ out'[S] = out[S]
    BY DEF Spoken
  <1>2. SameNumbers'
    BY <1>1 DEF ChannelInv, SameNumbers
  <1>3. OpensInOrder => OpensInOrder'
    BY <1>1 DEF OpensInOrder, Written, Pending
  <1> QED
    BY <1>1, <1>2, <1>3 DEF ChannelInv, Addressed, Confirms, KnownChannel

LEMMA KnownSayOpen ==
    ASSUME Numbering, Shape, ChannelInv, SayOpen
    PROVE  ChannelInv'
  <1> DEFINE m == SshPacket("ChannelOpen", <<"session">>, <<FirstId + opened, 10>>)
  <1>1. /\ Says(m) /\ opened < MaxChannels /\ opened' = opened + 1
        /\ UNCHANGED <<tried, strayed, peer>>
    BY DEF SayOpen
  <1>2. opened \in Nat /\ MaxChannels \in Nat /\ channels.next_id \in Nat
    BY AnyClientAssumption DEF ChannelInv, SameNumbers
  <1>3. m.type = "ChannelOpen" /\ m.text = <<"session">> /\ m.num[1] = opened
    BY <1>2 DEF SshPacket, Numbering
  <1> HIDE DEF m
  <1>4. IsOpen(m)
    BY <1>3 DEF IsOpen, Unreadable
  <1>5. tried' \in BOOLEAN /\ strayed' \in BOOLEAN
    BY <1>1 DEF Shape
  <1>6. Spoken(m)
    BY <1>1, <1>5, SaysSpoken
  <1>7. Elems(out'[C]) = {m} /\ Elems(out[C]) = {} /\ Len(out'[C]) <= 1
        /\ UNCHANGED <<pc, res, inbox, reset, channels>> /\ pc[C] = "open" /\ out'[S] = out[S]
    BY <1>6 DEF Spoken
  <1>8. SameNumbers'
    BY <1>1, <1>2, <1>7 DEF ChannelInv, SameNumbers
  <1>9. OpensInOrder => OpensInOrder'
    <2>1. Written = opened /\ Written' = opened
      BY <1>1, <1>2, <1>4, <1>7 DEF Written, Pending
    <2> QED
      BY <1>1, <1>2, <1>3, <1>7, <2>1 DEF OpensInOrder
  <1> QED
    BY <1>1, <1>3, <1>7, <1>8, <1>9 DEF ChannelInv, Addressed, Confirms, KnownChannel

\* A channel the client uses is one the server confirmed, or it strays.
LEMMA UsesKnown ==
    ASSUME Shape, ChannelInv, NEW ch \in Channels, Uses(ch)
    PROVE  /\ strayed' \in BOOLEAN
           /\ strayed => strayed'
           /\ strayed' \/ ch.theirs \in DOMAIN channels.channels
  <1>1. \/ \E id \in DOMAIN peer : ch.mine = id /\ ch.theirs = peer[id]
        \/ ch.mine \in Strays
    BY DEF Channels
  <1> QED
    BY <1>1, OnAChannel DEF ChannelInv

LEMMA KnownSays ==
    ASSUME Shape, ChannelInv, SayPlain \/ SayAuth \/ SayRequest \/ SayData \/ SayOnChannel
    PROVE  ChannelInv'
  <1>1. ASSUME NEW m, Says(m), ~IsOpen(m), UNCHANGED <<opened, peer>>,
               tried' \in BOOLEAN, strayed' \in BOOLEAN, strayed => strayed',
               m.type \in {"ChannelRequest", "ChannelData"} =>
                  strayed' \/ m.num[1] \in DOMAIN channels.channels
        PROVE  ChannelInv'
    <2>1. Spoken(m)
      BY <1>1, SaysSpoken
    <2>2. channels' = channels
      BY <2>1 DEF Spoken
    <2>3. Addressed(m)'
      BY <1>1, <2>2 DEF Addressed
    <2> QED
      BY <1>1, <2>1, <2>3, KnownSpoken
  <1>2. tried \in BOOLEAN /\ strayed \in BOOLEAN
    BY DEF Shape
  <1>3. CASE SayPlain
    <2>1. PICK m \in {SshPacket("ServiceRequest", <<"ssh-userauth">>, <<>>),
                      SshPacket("Ignore", <<>>, <<>>),
                      SshPacket("Disconnect", <<>>, <<>>),
                      SshPacket("ChannelOpen", <<"short">>, <<0, 0>>)} : Says(m)
      BY <1>3 DEF SayPlain
    <2>2. ~IsOpen(m)
      <3>1. m.type # "ChannelOpen" \/ (m.type = "ChannelOpen" /\ m.text = <<"short">>)
        BY DEF SshPacket
      <3> QED
        BY <3>1 DEF IsOpen, Unreadable
    <2>3. m.type \notin {"ChannelRequest", "ChannelData"}
      BY DEF SshPacket
    <2>4. UNCHANGED <<opened, peer, tried, strayed>>
      BY <1>3 DEF SayPlain
    <2> QED
      BY <1>1, <1>2, <2>1, <2>2, <2>3, <2>4
  <1>4. CASE SayAuth
    <2>1. PICK t \in AuthRequests : /\ Says(SshPacket("UserAuthRequest", t, <<>>))
                                    /\ tried' = (tried \/ Valid(t))
      BY <1>4 DEF SayAuth
    <2> DEFINE m == SshPacket("UserAuthRequest", t, <<>>)
    <2>2. m.type = "UserAuthRequest" /\ UNCHANGED <<opened, peer, strayed>>
      BY <1>4 DEF SayAuth, SshPacket
    <2> HIDE DEF m
    <2> QED
      BY <1>1, <1>2, <2>1, <2>2 DEF IsOpen, m
  <1>5. CASE SayRequest
    <2>1. PICK ch \in Channels, t \in Requests, want \in BOOLEAN :
             /\ Says([SshPacket("ChannelRequest", t, <<ch.theirs>>) EXCEPT !.want = want])
             /\ Uses(ch)
      BY <1>5 DEF SayRequest
    <2> DEFINE m == [SshPacket("ChannelRequest", t, <<ch.theirs>>) EXCEPT !.want = want]
    <2>2. m.type = "ChannelRequest" /\ m.num[1] = ch.theirs /\ UNCHANGED <<opened, peer, tried>>
      BY <1>5 DEF SayRequest, SshPacket
    <2>3. Says(m)
      BY <2>1
    <2>4. /\ strayed' \in BOOLEAN
          /\ strayed => strayed'
          /\ strayed' \/ ch.theirs \in DOMAIN channels.channels
      BY <2>1, UsesKnown
    <2>5. ~IsOpen(m) /\ tried' \in BOOLEAN
      BY <1>2, <2>2 DEF IsOpen
    <2> HIDE DEF m
    <2> QED
      BY <1>1, <2>2, <2>3, <2>4, <2>5
  <1>6. CASE SayData
    <2>1. PICK ch \in Channels, t \in Pieces :
             Says(SshPacket("ChannelData", t, <<ch.theirs, 9>>)) /\ Uses(ch)
      BY <1>6 DEF SayData
    <2> DEFINE m == SshPacket("ChannelData", t, <<ch.theirs, 9>>)
    <2>2. m.type = "ChannelData" /\ m.num[1] = ch.theirs /\ UNCHANGED <<opened, peer, tried>>
      BY <1>6 DEF SayData, SshPacket
    <2>3. Says(m)
      BY <2>1
    <2>4. /\ strayed' \in BOOLEAN
          /\ strayed => strayed'
          /\ strayed' \/ ch.theirs \in DOMAIN channels.channels
      BY <2>1, UsesKnown
    <2>5. ~IsOpen(m) /\ tried' \in BOOLEAN
      BY <1>2, <2>2 DEF IsOpen
    <2> HIDE DEF m
    <2> QED
      BY <1>1, <2>2, <2>3, <2>4, <2>5
  <1>7. CASE SayOnChannel
    <2>1. PICK ch \in Channels :
             /\ Uses(ch)
             /\ \/ \E type \in {"ChannelEof", "ChannelClose"} :
                      Says(SshPacket(type, <<>>, <<ch.theirs>>))
                \/ Says(SshPacket("ChannelWindowAdjust", <<>>, <<ch.theirs, 5>>))
      BY <1>7 DEF SayOnChannel
    <2>2. PICK m : Says(m) /\ m.type \in {"ChannelEof", "ChannelClose", "ChannelWindowAdjust"}
      BY <2>1 DEF SshPacket
    <2>3. UNCHANGED <<opened, peer, tried>>
      BY <1>7 DEF SayOnChannel
    <2>4. strayed' \in BOOLEAN /\ (strayed => strayed')
      BY <2>1, UsesKnown
    <2>5. ~IsOpen(m) /\ tried' \in BOOLEAN
      BY <1>2, <2>2, <2>3 DEF IsOpen
    <2> QED
      BY <1>1, <2>2, <2>3, <2>4, <2>5
  <1> QED
    BY <1>3, <1>4, <1>5, <1>6, <1>7

LEMMA KnownHear ==
    ASSUME Shape, ChannelInv, Hear
    PROVE  ChannelInv'
  <1> DEFINE none == <<>>
             m == Msg(C)
  <1>1. /\ Recv(C) /\ Handled(C, "open", none)
        /\ UNCHANGED <<channels, tried, strayed, opened>>
        /\ peer' = IF m.type # "ChannelOpenConfirmation" THEN peer
                   ELSE [id \in DOMAIN peer \cup {m.num[1]} |->
                            IF id = m.num[1] THEN m.num[2] ELSE peer[id]]
    BY DEF Hear
  <1>2. /\ tried' \in BOOLEAN /\ strayed' \in BOOLEAN /\ none \in Seq(Elems(none))
        /\ Elems(none) = {} /\ Len(none) <= 1
    BY <1>1, Lists, ElemsShort DEF Shape
  <1> HIDE DEF none, m
  <1>3. /\ Head(inbox[C]) \in Elems(inbox[C]) /\ out[C] = <<>>
        /\ out'[C] = none /\ out'[S] = out[S]
        /\ inbox'[S] = inbox[S] /\ Elems(inbox'[C]) \subseteq Elems(inbox[C])
        /\ pc'[C] = "open" /\ pc'[S] = pc[S] /\ UNCHANGED <<res, reset>>
    BY <1>1, <1>2, HandledShape, Parties
  <1>4. pc[C] # "done"
    BY <1>1 DEF Recv, Arrived, Reading
  <1>5. Confirms(m)
    BY <1>3 DEF ChannelInv, Msg, m
  <1>6. \A id \in DOMAIN peer' : peer'[id] = id /\ id \in DOMAIN channels.channels
    <2>1. CASE m.type # "ChannelOpenConfirmation"
      BY <1>1, <2>1 DEF ChannelInv
    <2>2. CASE m.type = "ChannelOpenConfirmation"
      BY <1>1, <1>5, <2>2 DEF ChannelInv, Confirms
    <2> QED
      BY <2>1, <2>2
  <1>7. SameNumbers'
    BY <1>1 DEF ChannelInv, SameNumbers
  <1>8. pc'[S] # "done" => (reset' => pc'[C] = "done") /\ OpensInOrder'
    <2>1. SUFFICES ASSUME pc[S] # "done" PROVE ~reset' /\ OpensInOrder'
      BY <1>3
    <2>2. ~reset' /\ OpensInOrder
      BY <1>3, <1>4, <2>1 DEF ChannelInv, Shape
    <2>3. Elems(out[C]) = {} /\ Elems(out'[C]) = {}
      BY <1>2, <1>3, ElemsShort
    <2> QED
      BY <1>1, <1>3, <1>4, <2>2, <2>3 DEF OpensInOrder, Written, Pending
  <1> QED
    BY <1>1, <1>2, <1>3, <1>6, <1>7, <1>8 DEF ChannelInv, Addressed, Confirms, KnownChannel

LEMMA Single ==
    ASSUME NEW X, NEW s \in Seq(X), s # <<>>, Len(s) <= 1
    PROVE  Tail(s) = <<>> /\ Elems(s) = {Head(s)}
  <1>1. Len(s) \in Nat /\ Len(s) # 0 /\ DOMAIN s = 1 .. Len(s) /\ Head(s) = s[1]
    OBVIOUS
  <1>2. Len(s) = 1
    BY <1>1
  <1>3. Tail(s) \in Seq(X) /\ Len(Tail(s)) = 0
    BY <1>2
  <1>4. Tail(s) = <<>>
    BY <1>3
  <1> QED
    BY <1>1, <1>2, <1>4 DEF Elems

LEMMA KnownClientSends ==
    ASSUME Shape, ChannelInv, UNCHANGED anyVars, Send(C), UNCHANGED channels
    PROVE  ChannelInv'
  <1>1. UNCHANGED <<tried, strayed, opened, peer, channels>>
    BY DEF anyVars
  <1> DEFINE m == Head(out[C])
  <1>2. Writes(C)
    BY <1>1, SendWrites, Parties
  <1>3. /\ out'[S] = out[S] /\ inbox'[C] = inbox[C] /\ UNCHANGED <<pc, res>>
        /\ m \in Elems(out[C]) /\ out[C] # <<>> /\ out'[C] = Tail(out[C])
        /\ reset' => reset \/ pc[S] = "done"
        /\ \/ inbox'[S] = inbox[S] /\ (reset \/ pc[S] = "done")
           \/ /\ ~reset /\ pc[S] # "done"
              /\ \E f : f.msg = m /\ inbox'[S] = Append(inbox[S], f)
    BY <1>2, Parties DEF Writes, Shape
  <1>4. out'[C] = <<>> /\ Elems(out'[C]) = {} /\ Len(out'[C]) <= 1 /\ Elems(out[C]) = {m}
    <2>1. out[C] \in Seq(Elems(out[C])) /\ Len(out[C]) <= 1
      BY Parties DEF Shape, ChannelInv
    <2>2. Tail(out[C]) = <<>> /\ Elems(out[C]) = {m}
      BY <1>3, <2>1, Single
    <2>3. Len(<<>>) <= 1
      OBVIOUS
    <2> QED
      BY <1>3, <2>2, <2>3, ElemsShort
  <1>5. pc[C] # "done"
    BY <1>3 DEF ChannelInv
  <1>6. SameNumbers'
    BY <1>1 DEF ChannelInv, SameNumbers
  <1>7. Addressed(m)
    BY <1>3 DEF ChannelInv
  <1> HIDE DEF m
  <1>8. CASE pc[S] = "done" /\ inbox'[S] = inbox[S]
    BY <1>1, <1>3, <1>4, <1>6, <1>8 DEF ChannelInv, Addressed, Confirms, KnownChannel
  <1>9. ASSUME pc[S] # "done", ~reset, NEW f, f.msg = m, inbox'[S] = Append(inbox[S], f)
        PROVE  ChannelInv'
    <2> DEFINE X == Elems(inbox[S]) \cup {f}
    <2>1. inbox[S] \in Seq(X) /\ f \in X
      BY Parties DEF Shape
    <2>2. Elems(inbox'[S]) \subseteq X
      BY <1>9, <2>1, ElemsAppend
    <2>3. OpensInOrder /\ SameNumbers
      BY <1>9 DEF ChannelInv
    <2>4. Written \in Nat /\ channels.next_id \in Nat /\ opened \in Nat
      BY <2>3, WrittenTyped
    <2>5. /\ Written' = IF IsOpen(m) THEN Written + 1 ELSE Written
          /\ IsOpen(m) => m.num[1] = Written
      BY <1>1, <1>3, <1>4, <2>3, <2>4 DEF Written, Pending, OpensInOrder
    <2>6. Written' \in Nat
      BY <2>4, <2>5
    <2>7. /\ InOrder(Append(inbox[S], f), channels.next_id, Written')
          /\ \A n \in channels.next_id .. Written' - 1 :
                OpenedBy(Append(inbox[S], f), n, Len(Append(inbox[S], f)))
      <3>1. /\ InOrder(inbox[S], channels.next_id, Written) /\ channels.next_id <= Written
            /\ \A n \in channels.next_id .. Written - 1 : OpenedBy(inbox[S], n, Len(inbox[S]))
        BY <1>5, <2>3 DEF OpensInOrder
      <3> DEFINE to == Written'
      <3>2. to \in Nat /\ (to = IF IsOpen(f.msg) THEN Written + 1 ELSE Written)
            /\ (IsOpen(f.msg) => f.msg.num[1] = Written)
        BY <1>9, <2>5, <2>6
      <3> HIDE DEF to
      <3>3. /\ InOrder(Append(inbox[S], f), channels.next_id, to)
            /\ \A n \in channels.next_id .. to - 1 :
                  OpenedBy(Append(inbox[S], f), n, Len(Append(inbox[S], f)))
        BY <2>1, <2>4, <3>1, <3>2, OrderAppend
      <3> QED
        BY <3>3 DEF to
    <2>8. OpensInOrder'
      <3>1. channels'.next_id <= Written'
        BY <1>1, <2>3, <2>4, <2>5 DEF OpensInOrder
      <3> QED
        BY <1>1, <1>4, <1>9, <2>7, <3>1 DEF OpensInOrder
    <2>9. \A g \in Elems(inbox'[S]) : Addressed(g.msg)'
      BY <1>1, <1>7, <1>9, <2>2 DEF ChannelInv, Addressed
    <2>10. reset' => pc'[C] = "done"
      BY <1>3, <1>9
    <2> QED
      BY <1>1, <1>3, <1>4, <1>6, <2>8, <2>9, <2>10
      DEF ChannelInv, Addressed, Confirms, KnownChannel
  <1>10. CASE pc[S] # "done" /\ reset
    BY <1>5, <1>10 DEF ChannelInv
  <1> QED
    BY <1>3, <1>8, <1>9, <1>10

LEMMA KnownClientLeaves ==
    ASSUME Shape, ChannelInv, UNCHANGED <<channels, anyVars>>,
           NEW r, NEW unread, Return(C, r, unread)
    PROVE  ChannelInv'
  <1>1. UNCHANGED <<tried, strayed, opened, peer, channels>>
    BY DEF anyVars
  <1>2. /\ Leaves(C, r) /\ Elems(out'[C]) = {} /\ Elems(inbox'[C]) = {}
        /\ Elems(inbox'[S]) \subseteq Elems(inbox[S])
    BY <1>1, ReturnLeaves, Parties
  <1>3. /\ pc'[C] = "done" /\ pc'[S] = pc[S] /\ res'[S] = res[S]
        /\ out'[C] = <<>> /\ out'[S] = out[S] /\ Len(out'[C]) <= 1
    BY <1>2, Parties DEF Leaves, Shape
  <1>4. PICK i \in 0 .. Len(inbox[S]) : inbox'[S] = SubSeq(inbox[S], 1, i)
    BY <1>2, Parties DEF Leaves
  <1>5. SameNumbers'
    BY <1>1 DEF ChannelInv, SameNumbers
  <1>6. OpensInOrder /\ SameNumbers => OpensInOrder'
    <2>1. SUFFICES ASSUME OpensInOrder, SameNumbers PROVE OpensInOrder'
      OBVIOUS
    <2>2. Written \in Nat /\ channels.next_id \in Nat /\ opened \in Nat /\ Written <= opened
      BY <2>1, WrittenTyped
    <2>3. Written' = opened
      BY <1>1, <1>2 DEF Written, Pending
    <2>4. InOrder(inbox[S], channels.next_id, opened)
      <3>1. \A n : n \in channels.next_id .. Written - 1 => n \in channels.next_id .. opened - 1
        BY <2>2
      <3> QED
        BY <2>1, <3>1 DEF OpensInOrder, InOrder
    <2>5. inbox[S] \in Seq(Elems(inbox[S]))
      BY Parties DEF Shape
    <2>6. InOrder(SubSeq(inbox[S], 1, i), channels.next_id, opened)
      BY <2>2, <2>4, <2>5, OrderPrefix
    <2>7. channels.next_id <= opened
      BY <2>1, <2>2 DEF OpensInOrder
    <2> QED
      BY <1>1, <1>2, <1>3, <1>4, <2>3, <2>6, <2>7 DEF OpensInOrder
  <1> QED
    BY <1>1, <1>2, <1>3, <1>5, <1>6 DEF ChannelInv, Addressed, Confirms, KnownChannel

LEMMA KnownInit == Init => ChannelInv
  <1>1. SUFFICES ASSUME Init PROVE ChannelInv
    OBVIOUS
  <1>2. /\ out[C] = <<>> /\ out[S] = <<>> /\ inbox[C] = <<>> /\ inbox[S] = <<>>
        /\ Len(out[C]) <= 1 /\ reset = FALSE /\ res[S] = "running" /\ opened = 0
        /\ DOMAIN peer = {} /\ strayed = FALSE
    BY <1>1, Parties DEF Init
  <1>3. Elems(<<>>) = {}
    BY ElemsShort
  <1>4. /\ channels.next_id = 0 /\ DOMAIN channels.channels = {}
        /\ DOMAIN channels = {"channels", "next_id"}
    BY <1>1 DEF Init, ServerInit, NewManager
  <1>5. SameNumbers
    BY <1>2, <1>4, AnyClientAssumption DEF SameNumbers
  <1>6. OpensInOrder
    BY <1>2, <1>3, <1>4 DEF OpensInOrder, Written, Pending, InOrder
  <1> QED
    BY <1>2, <1>3, <1>5, <1>6 DEF ChannelInv, KnownChannel

LEMMA KnownStep ==
    ASSUME Numbering, Shape, ChannelInv, [Next]_vars
    PROVE  ChannelInv'
  <1>1. CASE UNCHANGED vars
    <2>1. UNCHANGED <<pc, out, res, inbox, reset, channels, tried, strayed, opened, peer>>
      BY <1>1 DEF vars, transport, anyVars
    <2>2. SameNumbers' /\ (OpensInOrder => OpensInOrder')
      BY <2>1 DEF ChannelInv, SameNumbers, OpensInOrder, Written, Pending
    <2> QED
      BY <2>1, <2>2 DEF ChannelInv, Addressed, Confirms, KnownChannel
  <1>2. CASE ClientStep
    BY <1>2, ClientSteps, KnownSays, KnownSayOpen, KnownHear, KnownClientSends,
       KnownClientLeaves
  <1> QED
    BY <1>1, <1>2, KnownServer DEF Next

\* server.rs:311 "Find the channel's remote_id": the server looks a channel up by
\* the number the *client* gave it, where it was told the server's.  To a client
\* that numbers its channels from 0 in the order it opens them the two are the
\* same, and a message on a confirmed channel is never for an unknown one,
\* whatever is pipelined and however many channels there are below 2^32.
THEOREM ConfirmedKnown ==
    ASSUME FirstId = 0, MaxChannels <= U32_MAX
    PROVE  Spec => []KnownChannel
  <1>1. Numbering
    BY DEF Numbering
  <1>2. Shape /\ ChannelInv /\ [Next]_vars => ChannelInv'
    BY <1>1, KnownStep
  <1>3. ChannelInv => KnownChannel
    BY DEF ChannelInv
  <1> QED
    BY <1>2, <1>3, KnownInit, LoginAlways, PTL DEF Spec

-----------------------------------------------------------------------------
(* FlattenSeq, which selects what is on its way.                             *)

LEMMA LeastNat ==
    ASSUME NEW T, T \subseteq Nat, T # {}
    PROVE  \E x \in T : \A y \in T : x <= y
  <1> DEFINE R == {ss \in Nat \X Nat : ss[1] < ss[2]}
  <1>1. WF!IsWellFoundedOn(R, Nat)
    BY WF!NatLessThanWellFounded DEF WF!OpToRel
  <1>2. PICK x \in T : \A y \in T : ~(<<y, x>> \in R)
    BY <1>1, WF!WFMin
  <1>3. \A y \in T : <<y, x>> \in Nat \X Nat /\ <<y, x>>[1] = y /\ <<y, x>>[2] = x
    OBVIOUS
  <1>4. \A y \in T : ~(y < x)
    BY <1>2, <1>3
  <1> QED
    BY <1>4

\* f[i] is the first i of the sequences in s, one behind the other.
Runs(X, s, n, f) ==
    /\ f \in [0 .. n -> Seq(X)]
    /\ f[0] = <<>>
    /\ \A i \in 1 .. n : f[i] = f[i - 1] \o s[i]

LEMMA RunsExist ==
    ASSUME NEW X, NEW s \in Seq(Seq(X))
    PROVE  \E f : Runs(X, s, Len(s), f)
  <1> DEFINE Q(n) == \E f : Runs(X, s, n, f)
             T == {n \in 0 .. Len(s) : ~Q(n)}
  <1>0. Len(s) \in Nat /\ \A i \in 1 .. Len(s) : s[i] \in Seq(X)
    OBVIOUS
  <1> SUFFICES ASSUME T # {} PROVE FALSE
    <2>1. Len(s) \in 0 .. Len(s)
      BY <1>0
    <2> QED
      BY <2>1
  <1>1. PICK n \in T : \A m \in T : n <= m
    <2> HIDE DEF Q
    <2>1. T \subseteq Nat
      BY <1>0
    <2> HIDE DEF T
    <2> QED
      BY <2>1, LeastNat
  <1>2. n \in 0 .. Len(s) /\ ~Q(n)
    BY <1>1
  <1>3. CASE n = 0
    <2> DEFINE f == [i \in 0 .. 0 |-> <<>>]
    <2>1. Runs(X, s, 0, f)
      BY DEF Runs
    <2> QED
      BY <1>2, <1>3, <2>1
  <1>4. CASE n # 0
    <2>1. n - 1 \in 0 .. Len(s) /\ n \in 1 .. Len(s) /\ n \in Nat /\ n > 0
      BY <1>0, <1>2, <1>4
    <2>2. Q(n - 1)
      <3>1. ~(n <= n - 1)
        BY <2>1
      <3>2. n - 1 \notin T
        BY <1>1, <3>1
      <3> QED
        BY <2>1, <3>2
    <2>3. PICK g : Runs(X, s, n - 1, g)
      BY <2>2
    <2> HIDE DEF Q, T
    <2>4. g \in [0 .. n - 1 -> Seq(X)] /\ g[0] = <<>> /\ g[n - 1] \in Seq(X)
          /\ \A i \in 1 .. n - 1 : g[i] = g[i - 1] \o s[i]
      <3>1. n - 1 \in 0 .. n - 1
        BY <2>1
      <3> QED
        BY <2>3, <3>1 DEF Runs
    <2> DEFINE e == g[n - 1] \o s[n]
               f == [i \in 0 .. n |-> IF i = n THEN e ELSE g[i]]
    <2>5. e \in Seq(X)
      BY <1>0, <2>1, <2>4
    <2> HIDE DEF e
    <2>6. f \in [0 .. n -> Seq(X)] /\ f[0] = <<>>
      BY <2>1, <2>4, <2>5
    <2>7. \A i \in 1 .. n : f[i] = f[i - 1] \o s[i]
      <3>1. f[n] = f[n - 1] \o s[n]
        <4>1. f[n] = e /\ f[n - 1] = g[n - 1]
          BY <2>1
        <4> QED
          BY <4>1 DEF e
      <3>2. \A i \in 1 .. n : i # n => i \in 1 .. n - 1 /\ f[i] = g[i] /\ f[i - 1] = g[i - 1]
        BY <2>1
      <3> HIDE DEF f
      <3> QED
        BY <2>4, <3>1, <3>2
    <2> HIDE DEF f
    <2>8. Runs(X, s, n, f)
      BY <2>6, <2>7 DEF Runs
    <2> QED
      BY <1>2, <2>8 DEF Q
  <1> QED
    BY <1>3, <1>4

\* FlattenSeq is what the run ends with.
LEMMA FlattenRuns ==
    ASSUME NEW X, NEW s \in Seq(Seq(X)), NEW f, Runs(X, s, Len(s), f)
    PROVE  Seqs!FlattenSeq(s) = f[Len(s)]
  <1>0. Len(s) \in Nat /\ \A i \in 1 .. Len(s) : s[i] \in Seq(X)
    OBVIOUS
  <1>1. CASE Len(s) = 0
    <2>1. Seqs!FlattenSeq(s) = s /\ s = <<>>
      BY <1>1 DEF Seqs!FlattenSeq
    <2> QED
      BY <1>1, <2>1 DEF Runs
  <1>2. CASE Len(s) # 0
    <2> DEFINE n == Len(s)
               E(g) == [i \in 1 .. n |-> IF i = 1 THEN s[i] ELSE g[i - 1] \o s[i]]
    <2>1. Seqs!FlattenSeq(s) = (CHOOSE g : g = E(g))[n]
      BY <1>2, Zenon DEF Seqs!FlattenSeq
    <2>2. n \in Nat /\ n > 0
      BY <1>0, <1>2
    <2> DEFINE h == [i \in 1 .. n |-> f[i]]
    <2>3. f \in [0 .. n -> Seq(X)] /\ f[0] = <<>> /\ \A i \in 1 .. n : f[i] = f[i - 1] \o s[i]
      BY DEF Runs
    <2> HIDE DEF n
    <2>4. \A i \in 1 .. n : h[i] = IF i = 1 THEN s[i] ELSE h[i - 1] \o s[i]
      <3>1. f[1] = s[1]
        <4>1. 1 \in 1 .. n /\ 1 - 1 = 0
          BY <2>2
        <4>2. s[1] \in Seq(X) /\ f[1] = f[0] \o s[1]
          BY <1>0, <2>3, <4>1 DEF n
        <4> QED
          BY <2>3, <4>2
      <3>2. \A i \in 1 .. n : h[i] = f[i] /\ (i # 1 => i - 1 \in 1 .. n)
        BY <2>2
      <3>3. \A i \in 1 .. n : i # 1 => h[i - 1] = f[i - 1]
        BY <3>2
      <3> HIDE DEF h
      <3> QED
        BY <2>3, <3>1, <3>2, <3>3
    <2>5. h = E(h)
      <3>1. h = [i \in 1 .. n |-> h[i]]
        OBVIOUS
      <3> HIDE DEF h
      <3> QED
        BY <2>4, <3>1
    <2> DEFINE g == CHOOSE g : g = E(g)
    <2>6. g = E(g)
      <3> HIDE DEF h, E
      <3> QED
        BY <2>5
    <2>7. \A i \in 1 .. n : g[i] = IF i = 1 THEN s[i] ELSE g[i - 1] \o s[i]
      <3> HIDE DEF g
      <3> QED
        BY <2>6
    <2> HIDE DEF g
    <2>8. \A i \in 1 .. n : h[i] = f[i]
      OBVIOUS
    <2> DEFINE T == {i \in 1 .. n : g[i] # f[i]}
    <2>9. T = {}
      <3> SUFFICES ASSUME T # {} PROVE FALSE
        OBVIOUS
      <3>1. T \subseteq Nat
        BY <2>2
      <3>2. PICK i \in T : \A j \in T : i <= j
        <4> HIDE DEF T
        <4> QED
          BY <3>1, LeastNat
      <3>3. i \in 1 .. n /\ g[i] # f[i]
        BY <3>2
      <3>4. i # 1
        BY <2>4, <2>7, <2>8, <3>3
      <3>5. i - 1 \in 1 .. n /\ ~(i <= i - 1)
        BY <2>2, <3>3, <3>4
      <3>6. g[i - 1] = f[i - 1]
        <4>1. i - 1 \notin T
          BY <3>2, <3>5
        <4> QED
          BY <3>5, <4>1
      <3> QED
        BY <2>3, <2>7, <3>3, <3>4, <3>6
    <2>10. n \in 1 .. n
      BY <2>2
    <2>11. g[n] = f[n]
      BY <2>9, <2>10
    <2> QED
      BY <2>1, <2>11 DEF g, n
  <1> QED
    BY <1>1, <1>2

LEMMA FlattenTyped ==
    ASSUME NEW X, NEW s \in Seq(Seq(X))
    PROVE  Seqs!FlattenSeq(s) \in Seq(X)
  <1>1. PICK f : Runs(X, s, Len(s), f)
    BY RunsExist
  <1>2. Len(s) \in 0 .. Len(s)
    OBVIOUS
  <1>3. f[Len(s)] \in Seq(X)
    BY <1>1, <1>2 DEF Runs
  <1> QED
    BY <1>1, <1>3, FlattenRuns

LEMMA JoinTyped ==
    ASSUME NEW X, NEW a \in Seq(X), NEW b \in Seq(X)
    PROVE  a \o b \in Seq(X)
  OBVIOUS

LEMMA FlattenJoined ==
    ASSUME NEW X, NEW s \in Seq(Seq(X)), NEW t \in Seq(Seq(X))
    PROVE  Seqs!FlattenSeq(s \o t) = Seqs!FlattenSeq(s) \o Seqs!FlattenSeq(t)
  <1> DEFINE n == Len(s)
             k == Len(t)
  <1>1. /\ s \o t \in Seq(Seq(X)) /\ Len(s \o t) = n + k /\ n \in Nat /\ k \in Nat
        /\ \A i \in 1 .. n : (s \o t)[i] = s[i]
        /\ \A i \in 1 .. k : (s \o t)[n + i] = t[i]
        /\ \A i \in 1 .. k : t[i] \in Seq(X)
    OBVIOUS
  <1>2. PICK f : Runs(X, s, n, f)
    BY RunsExist
  <1>3. PICK g : Runs(X, t, k, g)
    BY RunsExist
  <1> HIDE DEF n, k
  <1>4. /\ f \in [0 .. n -> Seq(X)] /\ f[0] = <<>> /\ f[n] \in Seq(X)
        /\ \A i \in 1 .. n : f[i] = f[i - 1] \o s[i]
    <2>1. n \in 0 .. n
      BY <1>1
    <2> QED
      BY <1>2, <2>1 DEF Runs
  <1>5. /\ g \in [0 .. k -> Seq(X)] /\ g[0] = <<>> /\ g[k] \in Seq(X)
        /\ \A i \in 1 .. k : g[i] = g[i - 1] \o t[i]
    <2>1. k \in 0 .. k
      BY <1>1
    <2> QED
      BY <1>3, <2>1 DEF Runs
  <1> DEFINE a(i) == f[n] \o g[i]
             h == [i \in 0 .. n + k |-> IF i <= n THEN f[i] ELSE a(i - n)]
  <1>6. \A i \in 0 .. k : a(i) \in Seq(X)
    <2> SUFFICES ASSUME NEW i \in 0 .. k PROVE a(i) \in Seq(X)
      OBVIOUS
    <2>1. g[i] \in Seq(X)
      BY <1>5
    <2> QED
      BY <1>4, <2>1, JoinTyped
  <1>7. a(0) = f[n]
    BY <1>4, <1>5
  <1>8. \A i \in 1 .. k : a(i) = a(i - 1) \o t[i]
    <2> SUFFICES ASSUME NEW i \in 1 .. k PROVE a(i) = a(i - 1) \o t[i]
      OBVIOUS
    <2>1. i - 1 \in 0 .. k /\ t[i] \in Seq(X)
      BY <1>1
    <2>2. g[i - 1] \in Seq(X)
      BY <1>5, <2>1
    <2>3. g[i] = g[i - 1] \o t[i]
      BY <1>5
    <2>4. f[n] \o (g[i - 1] \o t[i]) = (f[n] \o g[i - 1]) \o t[i]
      <3> DEFINE u == f[n]
                 v == g[i - 1]
                 w == t[i]
      <3>1. u \in Seq(X) /\ v \in Seq(X) /\ w \in Seq(X)
        BY <1>4, <2>1, <2>2
      <3> HIDE DEF u, v, w
      <3>2. u \o (v \o w) = (u \o v) \o w
        BY <3>1
      <3> QED
        BY <3>2 DEF u, v, w
    <2> QED
      BY <2>3, <2>4
  <1> HIDE DEF a
  <1>9. h \in [0 .. n + k -> Seq(X)] /\ h[0] = <<>>
    <2>1. \A i \in 0 .. n + k : i <= n => i \in 0 .. n
      BY <1>1
    <2>2. \A i \in 0 .. n + k : ~(i <= n) => i - n \in 0 .. k
      BY <1>1
    <2>3. 0 \in 0 .. n + k /\ 0 <= n
      BY <1>1
    <2> QED
      BY <1>4, <1>6, <2>1, <2>2, <2>3
  <1>10. \A i \in 1 .. n + k : h[i] = h[i - 1] \o (s \o t)[i]
    <2> SUFFICES ASSUME NEW i \in 1 .. n + k PROVE h[i] = h[i - 1] \o (s \o t)[i]
      OBVIOUS
    <2>1. i \in 0 .. n + k /\ i - 1 \in 0 .. n + k
      BY <1>1
    <2>2. CASE i <= n
      <3>1. i \in 1 .. n /\ i - 1 <= n
        BY <1>1, <2>2
      <3>2. h[i] = f[i] /\ h[i - 1] = f[i - 1]
        BY <2>1, <2>2, <3>1
      <3> QED
        BY <1>1, <1>4, <3>1, <3>2
    <2>3. CASE ~(i <= n)
      <3>1. i - n \in 1 .. k /\ n + (i - n) = i
        BY <1>1, <2>3
      <3>2. h[i] = a(i - n)
        BY <2>1, <2>3
      <3>3. h[i - 1] = a((i - n) - 1)
        <4>1. CASE i - 1 <= n
          <5>0. i \in Nat /\ n \in Nat
            BY <1>1
          <5>1. i - 1 = n /\ (i - n) - 1 = 0
            BY <2>3, <4>1, <5>0
          <5>2. h[i - 1] = f[i - 1]
            BY <2>1, <4>1
          <5> QED
            BY <1>7, <5>1, <5>2
        <4>2. CASE ~(i - 1 <= n)
          <5>1. (i - 1) - n = (i - n) - 1
            BY <1>1
          <5>2. h[i - 1] = a((i - 1) - n)
            BY <2>1, <4>2
          <5> QED
            BY <5>1, <5>2
        <4> QED
          BY <4>1, <4>2
      <3>4. (s \o t)[i] = t[i - n]
        <4>1. (s \o t)[n + (i - n)] = t[i - n]
          BY <1>1, <3>1
        <4> QED
          BY <3>1, <4>1
      <3> HIDE DEF h
      <3>5. a(i - n) = a((i - n) - 1) \o t[i - n]
        BY <1>8, <3>1
      <3> QED
        BY <3>2, <3>3, <3>4, <3>5
    <2> QED
      BY <2>2, <2>3
  <1>11. h[n + k] = f[n] \o g[k]
    <2>1. n + k \in 0 .. n + k
      BY <1>1
    <2>2. CASE k = 0
      <3>1. h[n + k] = f[n]
        BY <1>1, <2>1, <2>2
      <3> QED
        BY <1>7, <2>2, <3>1 DEF a
    <2>3. CASE k # 0
      <3>1. ~(n + k <= n) /\ (n + k) - n = k
        BY <1>1, <2>3
      <3>2. h[n + k] = a((n + k) - n)
        BY <2>1, <3>1
      <3> QED
        BY <3>1, <3>2 DEF a
    <2> QED
      BY <2>2, <2>3
  <1> HIDE DEF h
  <1>12. Runs(X, s \o t, Len(s \o t), h)
    BY <1>1, <1>9, <1>10 DEF Runs
  <1>13. Seqs!FlattenSeq(s \o t) = h[n + k]
    BY <1>1, <1>12, FlattenRuns
  <1>14. Seqs!FlattenSeq(s) = f[n]
    BY <1>2, FlattenRuns DEF n
  <1>15. Seqs!FlattenSeq(t) = g[k]
    BY <1>3, FlattenRuns DEF k
  <1> QED
    BY <1>11, <1>13, <1>14, <1>15

LEMMA FlattenOne ==
    ASSUME NEW X, NEW a \in Seq(X)
    PROVE  Seqs!FlattenSeq(<<a>>) = a
  <1> DEFINE s == <<a>>
             f == [i \in 0 .. 1 |-> IF i = 0 THEN <<>> ELSE a]
  <1>1. s \in Seq(Seq(X)) /\ Len(s) = 1 /\ s[1] = a
    OBVIOUS
  <1>2. /\ f \in [0 .. 1 -> Seq(X)] /\ f[0] = <<>> /\ f[1] = a
    OBVIOUS
  <1> HIDE DEF f, s
  <1>3. \A i \in 1 .. 1 : f[i] = f[i - 1] \o s[i]
    <2>1. \A i \in 1 .. 1 : i = 1 /\ i - 1 = 0
      OBVIOUS
    <2>2. f[1] = f[0] \o s[1]
      BY <1>1, <1>2
    <2> QED
      BY <2>1, <2>2
  <1>4. Runs(X, s, Len(s), f)
    BY <1>1, <1>2, <1>3 DEF Runs
  <1>5. Seqs!FlattenSeq(s) = f[1]
    BY <1>1, <1>4, FlattenRuns
  <1> QED
    BY <1>2, <1>5 DEF s

\* Sequences that are all empty.
LEMMA FlattenEmpty ==
    ASSUME NEW X, NEW s \in Seq(Seq(X)), \A i \in DOMAIN s : s[i] = <<>>
    PROVE  Seqs!FlattenSeq(s) = <<>>
  <1> DEFINE n == Len(s)
             f == [i \in 0 .. n |-> <<>>]
  <1>1. n \in Nat /\ DOMAIN s = 1 .. n
    OBVIOUS
  <1>2. f \in [0 .. n -> Seq(X)] /\ f[0] = <<>> /\ f[n] = <<>>
    BY <1>1
  <1>3. \A i \in 1 .. n : f[i] = f[i - 1] \o s[i]
    <2> SUFFICES ASSUME NEW i \in 1 .. n PROVE f[i] = f[i - 1] \o s[i]
      OBVIOUS
    <2>1. i \in 0 .. n /\ i - 1 \in 0 .. n /\ s[i] = <<>>
      BY <1>1
    <2>2. f[i] = <<>> /\ f[i - 1] = <<>>
      BY <2>1
    <2> HIDE DEF f
    <2> QED
      BY <2>1, <2>2
  <1> HIDE DEF f
  <1>4. Runs(X, s, n, f)
    BY <1>2, <1>3 DEF Runs
  <1> QED
    BY <1>2, <1>4, FlattenRuns

-----------------------------------------------------------------------------
(* Questions and answers on their way. *)

\* The packets that answer, and those that ask for an answer: replies to
\* requests, responses to SFTP packets.
Is(k, m) ==
    CASE k = "reply"    -> IsAnswer(m)
      [] k = "response" -> IsResponse(m)
      [] k = "request"  -> m.type = "ChannelRequest" /\ m.want
      [] k = "sftp"     -> m.type = "ChannelData" /\ Head(m.text) = "sftp"

Mark(k, m)  == IF Is(k, m) THEN <<m.num[1]>> ELSE <<>>
Marks(k, s) == [i \in DOMAIN s |-> Mark(k, s[i])]

\* The channels of those in s, in order.
Tally(k, s) == Seqs!FlattenSeq(Marks(k, s))

Nums(X) == {m.num[1] : m \in X}

LEMMA MarkTyped ==
    ASSUME NEW X, NEW k, NEW m \in X
    PROVE  Mark(k, m) \in Seq(Nums(X))
  <1>1. m.num[1] \in Nums(X)
    BY DEF Nums
  <1> HIDE DEF Nums
  <1> QED
    BY <1>1 DEF Mark

AreMarks(a, X, k, s) ==
    /\ a \in Seq(Seq(Nums(X))) /\ Len(a) = Len(s)
    /\ \A i \in 1 .. Len(s) : a[i] = Mark(k, s[i])

LEMMA MarksTyped ==
    ASSUME NEW X, NEW k, NEW s \in Seq(X)
    PROVE  AreMarks(Marks(k, s), X, k, s)
  <1>1. Len(s) \in Nat /\ DOMAIN s = 1 .. Len(s) /\ \A i \in 1 .. Len(s) : s[i] \in X
    OBVIOUS
  <1> DEFINE v(i) == Mark(k, s[i])
  <1>2. \A i \in 1 .. Len(s) : v(i) \in Seq(Nums(X))
    BY <1>1, MarkTyped
  <1>3. Marks(k, s) = [i \in 1 .. Len(s) |-> v(i)]
    BY <1>1 DEF Marks
  <1> DEFINE Z == Seq(Nums(X))
  <1> HIDE DEF v, Z
  <1>4. /\ [i \in 1 .. Len(s) |-> v(i)] \in Seq(Z)
        /\ Len([i \in 1 .. Len(s) |-> v(i)]) = Len(s)
    <2>1. \A i \in 1 .. Len(s) : v(i) \in Z
      BY <1>2 DEF Z
    <2> QED
      BY <1>1, <2>1
  <1> QED
    BY <1>3, <1>4 DEF Z, v, AreMarks

LEMMA TallyTyped ==
    ASSUME NEW X, NEW k, NEW s \in Seq(X)
    PROVE  Tally(k, s) \in Seq(Nums(X))
  BY MarksTyped, FlattenTyped DEF Tally, AreMarks

LEMMA TallyJoined ==
    ASSUME NEW X, NEW k, NEW s \in Seq(X), NEW t \in Seq(X)
    PROVE  Tally(k, s \o t) = Tally(k, s) \o Tally(k, t)
  <1>1. /\ s \o t \in Seq(X) /\ Len(s \o t) = Len(s) + Len(t)
        /\ Len(s) \in Nat /\ Len(t) \in Nat
        /\ \A i \in 1 .. Len(s) + Len(t) :
              (s \o t)[i] = IF i <= Len(s) THEN s[i] ELSE t[i - Len(s)]
    BY Joined
  <1> DEFINE Z == Seq(Nums(X))
             a == Marks(k, s)
             b == Marks(k, t)
             c == Marks(k, s \o t)
  <1>0. AreMarks(a, X, k, s) /\ AreMarks(b, X, k, t) /\ AreMarks(c, X, k, s \o t)
    BY <1>1, MarksTyped
  <1> HIDE DEF a, b, c
  <1>2. /\ a \in Seq(Z) /\ Len(a) = Len(s) /\ \A i \in 1 .. Len(s) : a[i] = Mark(k, s[i])
    BY <1>0 DEF AreMarks
  <1>3. /\ b \in Seq(Z) /\ Len(b) = Len(t) /\ \A i \in 1 .. Len(t) : b[i] = Mark(k, t[i])
    BY <1>0 DEF AreMarks
  <1>4. /\ c \in Seq(Z) /\ Len(c) = Len(s) + Len(t)
        /\ \A i \in 1 .. Len(s) + Len(t) : c[i] = Mark(k, (s \o t)[i])
    <2>1. /\ c \in Seq(Z) /\ Len(c) = Len(s \o t)
          /\ \A i \in 1 .. Len(s \o t) : c[i] = Mark(k, (s \o t)[i])
      BY <1>0 DEF AreMarks
    <2> QED
      BY <1>1, <2>1
  <1> HIDE DEF Z
  <1>5. \A i \in 1 .. Len(s) + Len(t) :
           c[i] = IF i <= Len(a) THEN a[i] ELSE b[i - Len(a)]
    <2> SUFFICES ASSUME NEW i \in 1 .. Len(s) + Len(t)
                 PROVE  c[i] = IF i <= Len(a) THEN a[i] ELSE b[i - Len(a)]
      OBVIOUS
    <2>1. CASE i <= Len(s)
      <3>1. i \in 1 .. Len(s) /\ (s \o t)[i] = s[i]
        BY <1>1, <2>1
      <3> QED
        BY <1>2, <1>4, <2>1, <3>1
    <2>2. CASE ~(i <= Len(s))
      <3>1. i - Len(s) \in 1 .. Len(t) /\ (s \o t)[i] = t[i - Len(s)]
        BY <1>1, <2>2
      <3> QED
        BY <1>2, <1>3, <1>4, <2>2, <3>1
    <2> QED
      BY <2>1, <2>2
  <1>6. c = a \o b
    <2> DEFINE d == a \o b
    <2>1. a \in Seq(Z) /\ b \in Seq(Z) /\ Len(a) = Len(s) /\ Len(b) = Len(t)
      BY <1>2, <1>3
    <2>2. /\ d \in Seq(Z) /\ Len(d) = Len(a) + Len(b)
          /\ \A i \in 1 .. Len(a) + Len(b) :
                d[i] = IF i <= Len(a) THEN a[i] ELSE b[i - Len(a)]
      BY <2>1
    <2>3. Len(d) = Len(c) /\ \A i \in 1 .. Len(c) : c[i] = d[i]
      BY <1>4, <1>5, <2>1, <2>2
    <2> HIDE DEF d
    <2>4. c = d
      BY <1>4, <2>2, <2>3
    <2> QED
      BY <2>4 DEF d
  <1>7. Seqs!FlattenSeq(a \o b) = Seqs!FlattenSeq(a) \o Seqs!FlattenSeq(b)
    BY <1>2, <1>3, FlattenJoined DEF Z
  <1> QED
    BY <1>6, <1>7 DEF Tally, a, b, c

LEMMA TallyShort ==
    ASSUME NEW k
    PROVE  /\ Tally(k, <<>>) = <<>>
           /\ \A m : Tally(k, <<m>>) = Mark(k, m)
  <1>1. Tally(k, <<>>) = <<>>
    <2>1. Marks(k, <<>>) = <<>>
      BY DEF Marks
    <2>2. <<>> \in Seq(Seq({})) /\ DOMAIN <<>> = {}
      OBVIOUS
    <2> QED
      BY <2>1, <2>2, FlattenEmpty DEF Tally
  <1>2. ASSUME NEW m PROVE Tally(k, <<m>>) = Mark(k, m)
    <2>1. m \in {m}
      OBVIOUS
    <2> DEFINE a == Marks(k, <<m>>)
               b == Mark(k, m)
               Z == Seq(Nums({m}))
    <2>2. b \in Z
      BY <2>1, MarkTyped
    <2>3. a = <<b>>
      BY DEF Marks
    <2> HIDE DEF a, b, Z
    <2>4. Seqs!FlattenSeq(<<b>>) = b
      BY <2>2, FlattenOne DEF Z
    <2> QED
      BY <2>3, <2>4 DEF Tally, a, b
  <1> QED
    BY <1>1, <1>2

LEMMA TallyAppend ==
    ASSUME NEW X, NEW k, NEW s \in Seq(X), NEW m \in X
    PROVE  Tally(k, Append(s, m)) = Tally(k, s) \o Mark(k, m)
  <1>1. Append(s, m) = s \o <<m>> /\ <<m>> \in Seq(X)
    OBVIOUS
  <1>2. Tally(k, s \o <<m>>) = Tally(k, s) \o Tally(k, <<m>>)
    BY <1>1, TallyJoined
  <1> QED
    BY <1>1, <1>2, TallyShort

LEMMA TallyTail ==
    ASSUME NEW X, NEW k, NEW s \in Seq(X), s # <<>>
    PROVE  Tally(k, s) = Mark(k, Head(s)) \o Tally(k, Tail(s))
  <1>1. s = <<Head(s)>> \o Tail(s) /\ <<Head(s)>> \in Seq(X) /\ Tail(s) \in Seq(X)
    OBVIOUS
  <1>2. Tally(k, <<Head(s)>> \o Tail(s)) = Tally(k, <<Head(s)>>) \o Tally(k, Tail(s))
    BY <1>1, TallyJoined
  <1> QED
    BY <1>1, <1>2, TallyShort

LEMMA FrontSplit ==
    ASSUME NEW X, NEW s \in Seq(X), NEW t, IsFront(t, s)
    PROVE  t \in Seq(X) /\ \E u \in Seq(X) : s = t \o u
  <1>1. PICK i \in 0 .. Len(s) : t = SubSeq(s, 1, i)
    BY DEF IsFront
  <1> DEFINE u == SubSeq(s, i + 1, Len(s))
  <1>2. t \in Seq(X) /\ u \in Seq(X) /\ s = t \o u
    <2>1. Len(s) \in Nat /\ i \in Nat /\ i <= Len(s)
      OBVIOUS
    <2>2. /\ t \in Seq(X) /\ Len(t) = i /\ \A j \in 1 .. i : t[j] = s[j]
      BY <1>1
    <2>3. /\ u \in Seq(X) /\ Len(u) = Len(s) - i
          /\ \A j \in 1 .. Len(s) - i : u[j] = s[i + j]
      BY <2>1
    <2> HIDE DEF u
    <2> DEFINE v == t \o u
    <2>4. /\ v \in Seq(X) /\ Len(v) = Len(t) + Len(u)
          /\ \A j \in 1 .. Len(t) + Len(u) : v[j] = IF j <= Len(t) THEN t[j] ELSE u[j - Len(t)]
      BY <2>2, <2>3
    <2> HIDE DEF v
    <2>5. \A j \in 1 .. Len(s) : v[j] = s[j]
      <3> SUFFICES ASSUME NEW j \in 1 .. Len(s) PROVE v[j] = s[j]
        OBVIOUS
      <3>1. CASE j <= i
        BY <2>1, <2>2, <2>3, <2>4, <3>1
      <3>2. CASE ~(j <= i)
        <4>1. j - i \in 1 .. Len(s) - i /\ i + (j - i) = j
          BY <2>1, <3>2
        <4>2. u[j - i] = s[i + (j - i)]
          BY <2>3, <4>1
        <4> QED
          BY <2>1, <2>2, <2>3, <2>4, <3>2, <4>1, <4>2
      <3> QED
        BY <3>1, <3>2
    <2>6. Len(v) = Len(s)
      BY <2>1, <2>2, <2>3, <2>4
    <2>7. s = v
      BY <2>4, <2>5, <2>6
    <2> QED
      BY <2>2, <2>3, <2>7 DEF v
  <1> HIDE DEF u
  <1> QED
    BY <1>2

LEMMA TallySilent ==
    ASSUME NEW k, NEW s, s \in Seq(Elems(s)), \A m \in Elems(s) : ~Is(k, m)
    PROVE  Tally(k, s) = <<>>
  <1>1. AreMarks(Marks(k, s), Elems(s), k, s)
    BY MarksTyped
  <1>2. \A i \in 1 .. Len(s) : s[i] \in Elems(s)
    OBVIOUS
  <1>3. \A i \in 1 .. Len(s) : Mark(k, s[i]) = <<>>
    BY <1>2 DEF Mark
  <1> DEFINE a == Marks(k, s)
             Z == Nums(Elems(s))
  <1> HIDE DEF a, Z
  <1>4. a \in Seq(Seq(Z)) /\ Len(a) = Len(s) /\ \A i \in 1 .. Len(s) : a[i] = <<>>
    BY <1>1, <1>3 DEF a, Z, AreMarks
  <1>5. \A i \in DOMAIN a : a[i] = <<>>
    BY <1>4
  <1>6. Seqs!FlattenSeq(a) = <<>>
    BY <1>4, <1>5, FlattenEmpty
  <1> QED
    BY <1>6 DEF Tally, a

-----------------------------------------------------------------------------
(* The server answers what asks for an answer, once, and nothing else. *)

LEMMA IsFacts ==
    ASSUME NEW m
    PROVE  /\ Is("reply", m) <=> m.type \in {"ChannelSuccess", "ChannelFailure"}
           /\ Is("response", m) <=> m.type = "ChannelData" /\ m.text = <<"response">>
           /\ Is("request", m) <=> m.type = "ChannelRequest" /\ m.want
           /\ Is("sftp", m) <=> m.type = "ChannelData" /\ Head(m.text) = "sftp"
  BY DEF Is, IsAnswer, IsResponse, Answers

\* CHANNEL_DATA that does not begin with what is left of an SFTP packet.
Untorn(m) == m.type = "ChannelData" => Head(m.text) # "tail"

Served(packets) ==
    /\ Recv(S)
    /\ \E next : next # "done" /\ Handled(S, next, packets)
    /\ packets \in Seq(Elems(packets))
    /\ Tally("reply", packets) = Mark("request", Msg(S))
    /\ Untorn(Msg(S)) => Tally("response", packets) = Mark("sftp", Msg(S))

LEMMA QuietServed ==
    ASSUME Recv(S), NEW next, next # "done", NEW packets, Handled(S, next, packets),
           packets \in Seq(Elems(packets)),
           Msg(S).type \notin {"ChannelRequest", "ChannelData"},
           \A m \in Elems(packets) :
              m.type \notin {"ChannelSuccess", "ChannelFailure", "ChannelData"}
    PROVE  Served(packets)
  <1>1. \A m \in Elems(packets) : ~Is("reply", m) /\ ~Is("response", m)
    BY IsFacts
  <1>2. Mark("request", Msg(S)) = <<>> /\ Mark("sftp", Msg(S)) = <<>>
    BY IsFacts DEF Mark
  <1>3. Tally("reply", packets) = <<>> /\ Tally("response", packets) = <<>>
    BY <1>1, TallySilent
  <1> QED
    BY <1>2, <1>3 DEF Served

LEMMA QuietShort ==
    ASSUME Recv(S), NEW next, next # "done",
           Msg(S).type \notin {"ChannelRequest", "ChannelData"}
    PROVE  /\ Handled(S, next, <<>>) => \E packets : Served(packets)
           /\ \A m : /\ Handled(S, next, <<m>>)
                     /\ m.type \notin {"ChannelSuccess", "ChannelFailure", "ChannelData"}
                     => \E packets : Served(packets)
           /\ \A m, n : /\ Handled(S, next, <<m, n>>)
                        /\ m.type \notin {"ChannelSuccess", "ChannelFailure", "ChannelData"}
                        /\ n.type \notin {"ChannelSuccess", "ChannelFailure", "ChannelData"}
                        => \E packets : Served(packets)
  <1>1. Handled(S, next, <<>>) => Served(<<>>)
    BY QuietServed, Lists, ElemsShort
  <1>2. ASSUME NEW m, Handled(S, next, <<m>>),
               m.type \notin {"ChannelSuccess", "ChannelFailure", "ChannelData"}
        PROVE  Served(<<m>>)
    <2>1. <<m>> \in Seq(Elems(<<m>>))
      BY Lists
    <2>2. \A x \in Elems(<<m>>) : x = m
      BY ElemsShort
    <2> QED
      BY <1>2, <2>1, <2>2, QuietServed
  <1>3. ASSUME NEW m, NEW n, Handled(S, next, <<m, n>>),
               m.type \notin {"ChannelSuccess", "ChannelFailure", "ChannelData"},
               n.type \notin {"ChannelSuccess", "ChannelFailure", "ChannelData"}
        PROVE  Served(<<m, n>>)
    <2>1. <<m, n>> \in Seq(Elems(<<m, n>>))
      BY Lists
    <2>2. \A x \in Elems(<<m, n>>) : x = m \/ x = n
      BY ElemsShort
    <2> QED
      BY <1>3, <2>1, <2>2, QuietServed
  <1> QED
    BY <1>1, <1>2, <1>3

LEMMA HandshakeServed ==
    ASSUME RecvClientVersion \/ RecvClientKexInit \/ RecvEcdhInit \/ RecvClientNewKeys
              \/ RecvServiceRequest
    PROVE  \E packets : Served(packets)
  <1>1. \A at \in DOMAIN ServerExpects : ServerExpects[at] \notin {"ChannelRequest", "ChannelData"}
    BY DEF ServerExpects
  <1>2. \A at \in DOMAIN ServerExpects : Expected(at) =>
           Recv(S) /\ Msg(S).type \notin {"ChannelRequest", "ChannelData"}
    BY <1>1 DEF Expected
  <1>3. {"version", "kexinit", "ecdh", "newkeys", "service"} \subseteq DOMAIN ServerExpects
    BY DEF ServerExpects
  <1>4. Recv(S) /\ Msg(S).type \notin {"ChannelRequest", "ChannelData"}
    BY <1>2, <1>3 DEF RecvClientVersion, RecvClientKexInit, RecvEcdhInit, RecvClientNewKeys,
                      RecvServiceRequest
  <1>5. \A type, text, num : SshPacket(type, text, num).type = type
    BY DEF SshPacket
  <1>6. CASE RecvClientVersion
    <2>1. Handled(S, "kexinit", <<SshPacket("KexInit", <<Own(S).kexinit>>, <<>>)>>)
      BY <1>6 DEF RecvClientVersion
    <2>2. SshPacket("KexInit", <<Own(S).kexinit>>, <<>>).type = "KexInit"
      BY <1>5
    <2> QED
      BY <1>4, <2>1, <2>2, QuietShort
  <1>7. CASE RecvClientKexInit
    <2>1. Handled(S, "ecdh", <<>>)
      BY <1>7 DEF RecvClientKexInit
    <2> QED
      BY <1>4, <2>1, QuietShort
  <1>8. CASE RecvEcdhInit
    <2> DEFINE m == SshPacket("KexEcdhReply", <<HOST_KEY, Own(S).pub, "signature">>, <<>>)
               n == SshPacket("NewKeys", <<>>, <<>>)
    <2>1. Handled(S, "newkeys", <<m, n>>)
      BY <1>8 DEF RecvEcdhInit
    <2>2. m.type = "KexEcdhReply" /\ n.type = "NewKeys"
      BY <1>5
    <2> HIDE DEF m, n
    <2> QED
      BY <1>4, <2>1, <2>2, QuietShort
  <1>9. CASE RecvClientNewKeys
    <2>1. Handled(S, "service", <<>>)
      BY <1>9 DEF RecvClientNewKeys
    <2> QED
      BY <1>4, <2>1, QuietShort
  <1>10. CASE RecvServiceRequest
    <2> DEFINE m == SshPacket("ServiceAccept", Msg(S).text, <<>>)
    <2>1. Handled(S, "auth", <<m>>)
      BY <1>10 DEF RecvServiceRequest
    <2>2. m.type = "ServiceAccept"
      BY <1>5
    <2> HIDE DEF m
    <2> QED
      BY <1>4, <2>1, <2>2, QuietShort
  <1> QED
    BY <1>6, <1>7, <1>8, <1>9, <1>10

\* The server returns.
Quits == UNCHANGED channels /\ \E r, unread : Return(S, r, unread)

LEMMA AuthServed ==
    ASSUME RecvAuthRequest
    PROVE  (\E packets : Served(packets)) \/ Quits
  <1>1. Recv(S) /\ Msg(S).type = "UserAuthRequest" /\ UNCHANGED channels
    BY DEF RecvAuthRequest, Expected, ServerExpects
  <1> DEFINE y == SshPacket("UserAuthSuccess", <<>>, <<>>)
             n == SshPacket("UserAuthFailure", <<>>, <<>>)
  <1>2. y.type = "UserAuthSuccess" /\ n.type = "UserAuthFailure"
    BY DEF SshPacket
  <1>3. \/ Rejected(S, "AuthFailed")
        \/ Handled(S, "loop", <<y>>)
        \/ Handled(S, "auth", <<n>>)
    BY DEF RecvAuthRequest
  <1> HIDE DEF y, n
  <1>4. Rejected(S, "AuthFailed") => Quits
    BY <1>1 DEF Rejected, Quits
  <1> QED
    BY <1>1, <1>2, <1>3, <1>4, QuietShort

LEMMA PlainServed ==
    ASSUME RecvChannelOpen \/ RecvWindowAdjust \/ RecvChannelEof \/ RecvChannelClose
              \/ RecvOther
    PROVE  \E packets : Served(packets)
  <1>1. Recv(S) /\ Msg(S).type \notin {"ChannelRequest", "ChannelData"}
    BY DEF RecvChannelOpen, RecvWindowAdjust, RecvChannelEof, RecvChannelClose, RecvOther,
           InLoop, Parsed
  <1>2. CASE RecvChannelOpen
    <2> DEFINE m == SshPacket("ChannelOpenConfirmation", <<>>,
                              <<Msg(S).num[1], channels.next_id, DEFAULT_WINDOW_SIZE>>)
    <2>1. Handled(S, "loop", <<m>>) /\ m.type = "ChannelOpenConfirmation"
      BY <1>2 DEF RecvChannelOpen, Replies, SshPacket
    <2> HIDE DEF m
    <2> QED
      BY <1>1, <2>1, QuietShort
  <1>3. CASE RecvChannelClose
    <2>1. Handled(S, "loop", <<>>) \/ \E id \in Found :
             Handled(S, "loop", <<ToChannel("ChannelClose", id)>>)
      BY <1>3 DEF RecvChannelClose, Replies
    <2>2. ASSUME NEW id, Handled(S, "loop", <<ToChannel("ChannelClose", id)>>)
          PROVE  \E packets : Served(packets)
      <3> DEFINE m == ToChannel("ChannelClose", id)
      <3>1. m.type = "ChannelClose" /\ Handled(S, "loop", <<m>>)
        BY <2>2, AnswerTypes
      <3> HIDE DEF m
      <3> QED
        BY <1>1, <3>1, QuietShort
    <2> QED
      BY <1>1, <2>1, <2>2, QuietShort
  <1>4. CASE RecvWindowAdjust \/ RecvChannelEof \/ RecvOther
    <2>1. Handled(S, "loop", <<>>)
      BY <1>4 DEF RecvWindowAdjust, RecvChannelEof, RecvOther, Replies
    <2> QED
      BY <1>1, <2>1, QuietShort
  <1> QED
    BY <1>2, <1>3, <1>4

\* Whom an answer is for.
LEMMA AnswersTo ==
    ASSUME NEW id \in Found
    PROVE  /\ \A type : ToChannel(type, id).num[1] = Msg(S).num[1]
           /\ \A what, len :
                 build_channel_data(channels.channels[id].remote_id, what, len).num[1]
                    = Msg(S).num[1]
  BY DEF Found, FindByRemoteId, ToChannel, build_channel_data, SshPacket

LEMMA ExecServed ==
    ASSUME RecvExec
    PROVE  (\E packets : Served(packets)) \/ Quits
  <1>1. Recv(S) /\ Msg(S).type = "ChannelRequest" /\ UNCHANGED channels
    BY DEF RecvExec, InLoop
  <1>2. CASE Found = {}
    BY <1>1, <1>2 DEF RecvExec, Rejected, Quits
  <1>3. CASE Found # {}
    <2>1. PICK id \in Found :
             Replies((IF Msg(S).want THEN <<ToChannel("ChannelSuccess", id)>> ELSE <<>>)
                     \o <<build_channel_data(channels.channels[id].remote_id, "output",
                                             Output[Msg(S).text[2]]),
                          ToChannel("ChannelEof", id),
                          ToChannel("ChannelClose", id)>>)
      BY <1>3 DEF RecvExec
    <2> DEFINE a == ToChannel("ChannelSuccess", id)
               b == build_channel_data(channels.channels[id].remote_id, "output",
                                       Output[Msg(S).text[2]])
               c == ToChannel("ChannelEof", id)
               d == ToChannel("ChannelClose", id)
               first == IF Msg(S).want THEN <<a>> ELSE <<>>
               others == <<b, c, d>>
    <2>2. Handled(S, "loop", first \o others)
      BY <2>1 DEF Replies
    <2>3. /\ a.type = "ChannelSuccess" /\ b.type = "ChannelData" /\ c.type = "ChannelEof"
          /\ d.type = "ChannelClose" /\ a.num[1] = Msg(S).num[1] /\ b.text = <<"output">>
      <3>1. /\ a.type = "ChannelSuccess" /\ b.type = "ChannelData" /\ c.type = "ChannelEof"
            /\ d.type = "ChannelClose"
        BY AnswerTypes
      <3>2. a.num[1] = Msg(S).num[1]
        BY AnswersTo
      <3>3. b.text = <<"output">>
        BY DEF build_channel_data, SshPacket
      <3> QED
        BY <3>1, <3>2, <3>3
    <2> HIDE DEF a, b, c, d
    <2>4. \A m \in {b, c, d} : ~Is("reply", m)
      BY <2>3, IsFacts
    <2>5. <<"output">> # <<"response">>
      <3>1. <<"output">>[1] # <<"response">>[1]
        OBVIOUS
      <3> QED
        BY <3>1
    <2>6. \A m \in {a, b, c, d} : ~Is("response", m)
      BY <2>3, <2>5, IsFacts
    <2>7. first \in Seq({a, b, c, d}) /\ others \in Seq({a, b, c, d}) /\ others \in Seq({b, c, d})
      <3>1. <<a>> \in Seq({a, b, c, d}) /\ <<>> \in Seq({a, b, c, d})
        OBVIOUS
      <3>2. others \in Seq({a, b, c, d}) /\ others \in Seq({b, c, d})
        OBVIOUS
      <3> HIDE DEF others
      <3> QED
        BY <3>1, <3>2
    <2>8. Tally("reply", first) = Mark("request", Msg(S))
      <3>1. Is("reply", a) /\ (Is("request", Msg(S)) <=> Msg(S).want)
        BY <1>1, <2>3, IsFacts
      <3> QED
        BY <2>3, <3>1, TallyShort DEF Mark
    <2> HIDE DEF first, others
    <2>9. others \in Seq(Elems(others)) /\ Elems(others) \subseteq {b, c, d}
      BY <2>7, SeqOfElems, ElemsTyped
    <2>10. Tally("reply", others) = <<>>
      BY <2>4, <2>9, TallySilent
    <2>11. Tally("reply", first \o others) = Tally("reply", first) \o Tally("reply", others)
      BY <2>7, TallyJoined
    <2>12. Tally("reply", first) \in Seq(Nums({a, b, c, d}))
      BY <2>7, TallyTyped
    <2>13. Tally("reply", first \o others) = Mark("request", Msg(S))
      BY <2>8, <2>10, <2>11, <2>12, NothingJoined
    <2> DEFINE packets == first \o others
    <2>14. packets \in Seq({a, b, c, d})
      BY <2>7, Joined
    <2> HIDE DEF packets
    <2>15. packets \in Seq(Elems(packets)) /\ Elems(packets) \subseteq {a, b, c, d}
      BY <2>14, SeqOfElems, ElemsTyped
    <2>16. Tally("response", packets) = <<>>
      BY <2>6, <2>15, TallySilent
    <2>17. Mark("sftp", Msg(S)) = <<>>
      BY <1>1, IsFacts DEF Mark
    <2>18. Served(packets)
      BY <1>1, <2>2, <2>13, <2>15, <2>16, <2>17 DEF Served, packets
    <2> QED
      BY <2>18
  <1> QED
    BY <1>2, <1>3

LEMMA RequestServed ==
    ASSUME RecvRequest
    PROVE  (\E packets : Served(packets)) \/ Quits
  <1>1. Recv(S) /\ Msg(S).type = "ChannelRequest" /\ UNCHANGED channels
    BY DEF RecvRequest, InLoop
  <1> DEFINE answer == IF RequestGranted(Msg(S)) THEN "ChannelSuccess" ELSE "ChannelFailure"
  <1>2. answer \in {"ChannelSuccess", "ChannelFailure"}
    OBVIOUS
  <1>3. \/ ~Msg(S).want /\ Replies(<<>>)
        \/ Rejected(S, "Channel")
        \/ Msg(S).want /\ \E id \in Found : Replies(<<ToChannel(answer, id)>>)
    BY DEF RecvRequest
  <1> HIDE DEF answer
  <1>4. Mark("sftp", Msg(S)) = <<>>
    BY <1>1, IsFacts DEF Mark
  <1>5. CASE ~Msg(S).want /\ Replies(<<>>)
    <2>1. Mark("request", Msg(S)) = <<>>
      BY <1>5, IsFacts DEF Mark
    <2>2. Served(<<>>)
      BY <1>1, <1>4, <1>5, <2>1, TallyShort, Lists DEF Served, Replies
    <2> QED
      BY <2>2
  <1>6. CASE Rejected(S, "Channel")
    BY <1>1, <1>6 DEF Rejected, Quits
  <1>7. ASSUME Msg(S).want, NEW id \in Found, Replies(<<ToChannel(answer, id)>>)
        PROVE  \E packets : Served(packets)
    <2> DEFINE m == ToChannel(answer, id)
    <2>1. m.type = answer /\ m.num[1] = Msg(S).num[1] /\ Handled(S, "loop", <<m>>)
      BY <1>7, AnswerTypes, AnswersTo DEF Replies
    <2> HIDE DEF m
    <2>2. Is("reply", m) /\ ~Is("response", m) /\ Is("request", Msg(S))
      BY <1>1, <1>2, <1>7, <2>1, IsFacts
    <2>3. /\ Tally("reply", <<m>>) = Mark("request", Msg(S))
          /\ Tally("response", <<m>>) = <<>>
      BY <2>1, <2>2, TallyShort DEF Mark
    <2>4. <<m>> \in Seq(Elems(<<m>>))
      BY Lists
    <2>5. Served(<<m>>)
      BY <1>1, <1>4, <2>1, <2>3, <2>4 DEF Served
    <2> QED
      BY <2>5
  <1> QED
    BY <1>3, <1>5, <1>6, <1>7

LEMMA DataServed ==
    ASSUME RecvChannelData
    PROVE  (\E packets : Served(packets)) \/ Quits
  <1>1. Recv(S) /\ Msg(S).type = "ChannelData" /\ UNCHANGED channels
    BY DEF RecvChannelData, InLoop
  <1>2. Mark("request", Msg(S)) = <<>>
    BY <1>1, IsFacts DEF Mark
  <1>3. \A request \in TakenForRequest(Msg(S)) :
           Untorn(Msg(S)) => (request <=> Is("sftp", Msg(S)))
    BY <1>1, IsFacts DEF TakenForRequest, Untorn
  <1>4. PICK request \in TakenForRequest(Msg(S)) :
          \/ ~request /\ Replies(<<>>)
          \/ Rejected(S, "Channel")
          \/ request /\ \E id \in Found, n \in SftpResponses :
                Replies(<<build_channel_data(channels.channels[id].remote_id, "response", n)>>)
    BY DEF RecvChannelData
  <1>5. CASE ~request /\ Replies(<<>>)
    <2>1. Untorn(Msg(S)) => Mark("sftp", Msg(S)) = <<>>
      BY <1>3, <1>5 DEF Mark
    <2>2. Served(<<>>)
      BY <1>1, <1>2, <1>5, <2>1, TallyShort, Lists DEF Served, Replies
    <2> QED
      BY <2>2
  <1>6. CASE Rejected(S, "Channel")
    BY <1>1, <1>6 DEF Rejected, Quits
  <1>7. ASSUME request, NEW id \in Found, NEW n \in SftpResponses,
               Replies(<<build_channel_data(channels.channels[id].remote_id, "response", n)>>)
        PROVE  \E packets : Served(packets)
    <2> DEFINE m == build_channel_data(channels.channels[id].remote_id, "response", n)
    <2>1. m.type = "ChannelData" /\ m.text = <<"response">> /\ Handled(S, "loop", <<m>>)
      BY <1>7 DEF Replies, build_channel_data, SshPacket
    <2>2. m.num[1] = Msg(S).num[1]
      BY AnswersTo
    <2> HIDE DEF m
    <2>3. ~Is("reply", m) /\ Is("response", m)
      BY <2>1, IsFacts
    <2>4. Tally("reply", <<m>>) = <<>> /\ Tally("response", <<m>>) = <<Msg(S).num[1]>>
      BY <2>2, <2>3, TallyShort DEF Mark
    <2>5. Untorn(Msg(S)) => Mark("sftp", Msg(S)) = <<Msg(S).num[1]>>
      BY <1>3, <1>7 DEF Mark
    <2>6. <<m>> \in Seq(Elems(<<m>>))
      BY Lists
    <2>7. Served(<<m>>)
      BY <1>1, <1>2, <2>1, <2>4, <2>5, <2>6 DEF Served
    <2> QED
      BY <2>7
  <1> QED
    BY <1>4, <1>5, <1>6, <1>7

LEMMA EndQuits ==
    ASSUME NEW r, Ended(r)
    PROVE  Quits
  BY DEF Ended, Quits

LEMMA ServerServes ==
    ASSUME ServerNext
    PROVE  \/ \E packets : Served(packets)
           \/ Quits
           \/ Send(S) /\ UNCHANGED channels
  <1>1. CASE ServerIo
    BY <1>1, EndStep, EndQuits DEF ServerIo, Write
  <1>2. CASE RecvDisconnect \/ ServerRejects \/ ClientGone
    <2>1. UNCHANGED channels
      BY <1>2 DEF RecvDisconnect, ServerRejects, ClientGone
    <2> QED
      BY <1>2, <2>1, EndStep, EndQuits
  <1> QED
    BY <1>1, <1>2, HandshakeServed, AuthServed, PlainServed, ExecServed, RequestServed, DataServed
    DEF ServerNext

-----------------------------------------------------------------------------
(* What is expected is what is on its way. *)

IsSeq(s) == s \in Seq(Elems(s))

LEMMA SeqJoined ==
    ASSUME NEW a, NEW b, NEW c, IsSeq(a), IsSeq(b), IsSeq(c)
    PROVE  /\ IsSeq(a \o b)
           /\ (a \o b) \o c = a \o (b \o c)
           /\ a \o <<>> = a /\ <<>> \o a = a
           /\ SubSeq(a \o b, 1, Len(a)) = a /\ Len(a) <= Len(a \o b)
  <1> DEFINE X == Elems(a) \cup Elems(b) \cup Elems(c)
  <1>1. a \in Seq(Elems(a)) /\ b \in Seq(Elems(b)) /\ c \in Seq(Elems(c))
    BY DEF IsSeq
  <1>2. Elems(a) \subseteq X /\ Elems(b) \subseteq X /\ Elems(c) \subseteq X
    OBVIOUS
  <1> HIDE DEF X
  <1>3. a \in Seq(X) /\ b \in Seq(X) /\ c \in Seq(X)
    BY <1>1, <1>2
  <1>4. a \o b \in Seq(X)
    BY <1>3, Joined
  <1>5. IsSeq(a \o b)
    BY <1>4, SeqOfElems DEF IsSeq
  <1>6. (a \o b) \o c = a \o (b \o c)
    BY <1>3
  <1>7. a \o <<>> = a /\ <<>> \o a = a
    BY <1>3, NothingJoined
  <1>8. SubSeq(a \o b, 1, Len(a)) = a
    BY <1>3
  <1>9. Len(a) <= Len(a \o b)
    BY <1>3, Joined
  <1> QED
    BY <1>5, <1>6, <1>7, <1>8, <1>9

LEMMA SeqTally ==
    ASSUME NEW s, IsSeq(s), NEW k
    PROVE  IsSeq(Tally(k, s))
  <1>1. Tally(k, s) \in Seq(Nums(Elems(s)))
    BY TallyTyped DEF IsSeq
  <1> QED
    BY <1>1, SeqOfElems DEF IsSeq

LEMMA SeqShort ==
    /\ IsSeq(<<>>)
    /\ \A x : IsSeq(<<x>>)
    /\ \A k, m : IsSeq(Mark(k, m))
  BY Lists DEF IsSeq, Mark

\* Expected is what is on its way back, and then, while the server is running,
\* what is on its way there.
Balance(running, expected, back, there) ==
    \E rest : IsSeq(rest) /\ expected = back \o rest /\ (running => rest = there)

LEMMA BalanceServed ==
    ASSUME NEW e, NEW h, NEW w, NEW q, NEW v, IsSeq(h), IsSeq(q), IsSeq(v),
           w = q \o v, Balance(TRUE, e, h, w)
    PROVE  Balance(TRUE, e, h \o q, v)
  <1>1. e = h \o (q \o v)
    BY DEF Balance
  <1>2. (h \o q) \o v = h \o (q \o v)
    BY SeqJoined
  <1> QED
    BY <1>1, <1>2 DEF Balance

LEMMA BalanceSaid ==
    ASSUME NEW running \in BOOLEAN, NEW e, NEW h, NEW w, NEW q, IsSeq(h), IsSeq(w), IsSeq(q),
           Balance(running, e, h, w)
    PROVE  Balance(running, e \o q, h, w \o q)
  <1>1. PICK rest : IsSeq(rest) /\ e = h \o rest /\ (running => rest = w)
    BY DEF Balance
  <1>2. IsSeq(rest \o q) /\ (h \o rest) \o q = h \o (rest \o q)
    BY <1>1, SeqJoined
  <1>3. running => rest \o q = w \o q
    BY <1>1
  <1> DEFINE r == rest \o q
  <1>4. IsSeq(r) /\ e \o q = h \o r /\ (running => r = w \o q)
    BY <1>1, <1>2, <1>3
  <1> HIDE DEF r
  <1> QED
    BY <1>4 DEF Balance

LEMMA BalanceHeard ==
    ASSUME NEW running \in BOOLEAN, NEW e, NEW h, NEW w, NEW b,
           IsSeq(h), IsSeq(b), Balance(running, e, h, w)
    PROVE  /\ h = b => Balance(running, e, b, w)
           /\ \A n : h = <<n>> \o b => e # <<>> /\ Balance(running, Tail(e), b, w)
  <1>1. PICK rest : IsSeq(rest) /\ e = h \o rest /\ (running => rest = w)
    BY DEF Balance
  <1>2. ASSUME NEW n, h = <<n>> \o b
        PROVE  e # <<>> /\ Balance(running, Tail(e), b, w)
    <2>1. IsSeq(<<n>>)
      BY SeqShort
    <2>2. e = <<n>> \o (b \o rest) /\ IsSeq(b \o rest)
      BY <1>1, <1>2, <2>1, SeqJoined
    <2> DEFINE r == b \o rest
    <2>3. r \in Seq(Elems(r)) /\ e = <<n>> \o r
      BY <2>2 DEF IsSeq
    <2> HIDE DEF r
    <2>4. r \in Seq(Elems(r) \cup {n}) /\ <<n>> \in Seq(Elems(r) \cup {n})
      BY <2>3
    <2>5. <<n>> \o r # <<>> /\ Tail(<<n>> \o r) = r
      BY <2>4
    <2>6. e # <<>> /\ Tail(e) = b \o rest
      BY <2>3, <2>5 DEF r
    <2> QED
      BY <1>1, <2>6 DEF Balance
  <1> QED
    BY <1>2

LEMMA BalanceLost ==
    ASSUME NEW running, NEW e, NEW h, NEW w, NEW b, NEW x, NEW v,
           IsSeq(b), IsSeq(x), h = b \o x, Balance(running, e, h, w)
    PROVE  Balance(FALSE, e, b, v)
  <1>1. PICK rest : IsSeq(rest) /\ e = h \o rest
    BY DEF Balance
  <1>2. IsSeq(x \o rest) /\ e = b \o (x \o rest)
    BY <1>1, SeqJoined
  <1> DEFINE r == x \o rest
  <1>3. IsSeq(r) /\ e = b \o r
    BY <1>2
  <1> HIDE DEF r
  <1> QED
    BY <1>3 DEF Balance

-----------------------------------------------------------------------------
(* The packets on their way, at each step. *)

ToClient == Msgs(inbox[C]) \o out[S]
ToServer == Msgs(inbox[S]) \o out[C]

LEMMA SeqMsgs ==
    ASSUME NEW s, IsSeq(s)
    PROVE  /\ IsSeq(Msgs(s))
           /\ Msgs(<<>>) = <<>>
           /\ s # <<>> => /\ Msgs(Tail(s)) = Tail(Msgs(s)) /\ Head(Msgs(s)) = Head(s).msg
                          /\ Msgs(s) # <<>>
           /\ \A f : Msgs(Append(s, f)) = Append(Msgs(s), f.msg)
           /\ \A i \in 0 .. Len(s) : IsFront(Msgs(SubSeq(s, 1, i)), Msgs(s))
  <1> DEFINE Y == {x.msg : x \in Elems(s)}
  <1>1. s \in Seq(Elems(s)) /\ \A x \in Elems(s) : x.msg \in Y
    BY DEF IsSeq
  <1> HIDE DEF Y
  <1>2. Msgs(s) \in Seq(Y) /\ Len(Msgs(s)) = Len(s)
    BY <1>1, MsgsTyped
  <1>3. IsSeq(Msgs(s))
    BY <1>2, SeqOfElems DEF IsSeq
  <1>4. /\ Msgs(<<>>) = <<>>
        /\ s # <<>> => /\ Msgs(Tail(s)) = Tail(Msgs(s)) /\ Head(Msgs(s)) = Head(s).msg
                       /\ Msgs(s) # <<>>
        /\ \A f : Msgs(Append(s, f)) = Append(Msgs(s), f.msg)
        /\ \A i \in 0 .. Len(s) : Msgs(SubSeq(s, 1, i)) = SubSeq(Msgs(s), 1, i)
    BY <1>1, MsgsSteps
  <1>5. \A i \in 0 .. Len(s) : IsFront(Msgs(SubSeq(s, 1, i)), Msgs(s))
    BY <1>2, <1>4 DEF IsFront
  <1> QED
    BY <1>3, <1>4, <1>5

LEMMA FlowTyped ==
    ASSUME Shape
    PROVE  /\ \A p \in Peer : IsSeq(inbox[p]) /\ IsSeq(out[p]) /\ IsSeq(Msgs(inbox[p]))
           /\ IsSeq(ToClient) /\ IsSeq(ToServer)
  <1>1. \A p \in Peer : IsSeq(inbox[p]) /\ IsSeq(out[p])
    BY DEF Shape, IsSeq
  <1>2. \A p \in Peer : IsSeq(Msgs(inbox[p]))
    BY <1>1, SeqMsgs
  <1> QED
    BY <1>1, <1>2, Parties, SeqJoined DEF ToClient, ToServer

\* Sequences that gain or lose a packet.
LEMMA SeqSteps ==
    ASSUME NEW a, NEW b, IsSeq(a), IsSeq(b)
    PROVE  /\ \A m : Append(a, m) = a \o <<m>>
           /\ b # <<>> => Append(a, Head(b)) \o Tail(b) = a \o b
           /\ a # <<>> => Tail(a) \o b = Tail(a \o b) /\ a \o b # <<>> /\ Head(a \o b) = Head(a)
  <1> DEFINE X == Elems(a) \cup Elems(b)
  <1>1. a \in Seq(X) /\ b \in Seq(X)
    BY DEF IsSeq
  <1> HIDE DEF X
  <1>2. \A m : Append(a, m) = a \o <<m>>
    <2> SUFFICES ASSUME NEW m PROVE Append(a, m) = a \o <<m>>
      OBVIOUS
    <2>1. a \in Seq(X \cup {m}) /\ <<m>> \in Seq(X \cup {m})
      BY <1>1
    <2> QED
      BY <2>1
  <1> QED
    BY <1>1, <1>2, MoveOver, TailJoined

LEMMA TallyParts ==
    ASSUME NEW k, NEW s, NEW t, IsSeq(s), IsSeq(t)
    PROVE  Tally(k, s \o t) = Tally(k, s) \o Tally(k, t)
  <1> DEFINE X == Elems(s) \cup Elems(t)
  <1>1. s \in Seq(X) /\ t \in Seq(X)
    BY DEF IsSeq
  <1> HIDE DEF X
  <1> QED
    BY <1>1, TallyJoined

LEMMA TallySteps ==
    ASSUME NEW k, NEW s, IsSeq(s)
    PROVE  /\ \A m : Tally(k, s \o <<m>>) = Tally(k, s) \o Mark(k, m)
           /\ s # <<>> => Tally(k, s) = Mark(k, Head(s)) \o Tally(k, Tail(s)) /\ IsSeq(Tail(s))
  <1>2. ASSUME NEW m PROVE Tally(k, s \o <<m>>) = Tally(k, s) \o Mark(k, m)
    <2>1. IsSeq(<<m>>) /\ Tally(k, <<m>>) = Mark(k, m)
      BY SeqShort, TallyShort
    <2>2. Tally(k, s \o <<m>>) = Tally(k, s) \o Tally(k, <<m>>)
      BY <2>1, TallyParts
    <2> QED
      BY <2>1, <2>2
  <1>3. s # <<>> => Tally(k, s) = Mark(k, Head(s)) \o Tally(k, Tail(s))
    BY TallyTail DEF IsSeq
  <1>4. s # <<>> => IsSeq(Tail(s))
    <2>1. s # <<>> => Tail(s) \in Seq(Elems(s))
      BY DEF IsSeq
    <2> QED
      BY <2>1, SeqOfElems DEF IsSeq
  <1> QED
    BY <1>2, <1>3, <1>4

\* CHANNEL_DATA is one of the pieces, and fits into a packet.
Modest(m) == m.type = "ChannelData" => m.text \in Pieces /\ m.num[2] = 9

\* As long as the server runs, the client does and nothing gets lost.
Calm ==
    /\ pc[S] # "done" => pc[C] = "open" /\ ~reset
    /\ pc[S] = "done" => out[S] = <<>>
    /\ \A m \in Elems(out[C]) : Modest(m)
    /\ \A f \in Elems(inbox[S]) : Modest(f.msg)

LEMMA ServedFlow ==
    ASSUME Shape, Calm, NEW packets, Served(packets), UNCHANGED anyVars
    PROVE  /\ pc[S] # "done" /\ pc'[S] # "done" /\ IsSeq(packets)
           /\ ToClient' = ToClient \o packets
           /\ ToServer # <<>> /\ Head(ToServer) = Msg(S) /\ ToServer' = Tail(ToServer)
           /\ Modest(Msg(S)) /\ Calm'
  <1>1. PICK next : next # "done" /\ Handled(S, next, packets)
    BY DEF Served
  <1>2. Recv(S) /\ packets \in Seq(Elems(packets)) /\ IsSeq(packets)
    BY DEF Served, IsSeq
  <1>3. tried' \in BOOLEAN /\ strayed' \in BOOLEAN
    BY DEF anyVars, Shape
  <1>4. /\ Head(inbox[S]) \in Elems(inbox[S]) /\ inbox[S] # <<>> /\ out[S] = <<>>
        /\ out'[S] = packets /\ out'[C] = out[C]
        /\ inbox'[S] = Tail(inbox[S]) /\ inbox'[C] = inbox[C]
        /\ Elems(Tail(inbox[S])) \subseteq Elems(inbox[S])
        /\ pc'[S] = next /\ pc'[C] = pc[C] /\ UNCHANGED <<res, reset>>
    BY <1>1, <1>2, <1>3, HandledShape, Parties
  <1>5. /\ IsSeq(inbox[S]) /\ IsSeq(Msgs(inbox[S])) /\ IsSeq(out[C]) /\ IsSeq(Msgs(inbox[C]))
    BY FlowTyped, Parties
  <1>6. pc[S] # "done"
    BY <1>2 DEF Recv, Arrived, Reading
  <1>7. ToClient' = ToClient \o packets
    <2>1. ToClient' = Msgs(inbox[C]) \o packets
      BY <1>4 DEF ToClient
    <2>2. ToClient = Msgs(inbox[C])
      BY <1>4, <1>5, SeqJoined DEF ToClient
    <2> QED
      BY <2>1, <2>2
  <1>8. ToServer # <<>> /\ Head(ToServer) = Msg(S) /\ ToServer' = Tail(ToServer)
    <2>1. /\ Msgs(Tail(inbox[S])) = Tail(Msgs(inbox[S])) /\ Msgs(inbox[S]) # <<>>
          /\ Head(Msgs(inbox[S])) = Msg(S)
      BY <1>4, <1>5, SeqMsgs DEF Msg
    <2>2. ToServer' = Tail(Msgs(inbox[S])) \o out[C]
      BY <1>4, <2>1 DEF ToServer
    <2> QED
      BY <1>5, <2>1, <2>2, SeqSteps DEF ToServer
  <1>9. Modest(Msg(S))
    BY <1>4 DEF Calm, Msg
  <1>10. Calm'
    BY <1>1, <1>4, <1>6 DEF Calm, Modest
  <1> QED
    BY <1>1, <1>2, <1>4, <1>6, <1>7, <1>8, <1>9, <1>10

LEMMA QuitsFlow ==
    ASSUME Shape, Calm, Quits, UNCHANGED anyVars
    PROVE  pc'[S] = "done" /\ IsFront(ToClient', ToClient) /\ Calm'
  <1>1. PICK r, unread : Return(S, r, unread)
    BY DEF Quits
  <1>2. UNCHANGED <<tried, strayed>>
    BY DEF anyVars
  <1>3. Leaves(S, r) /\ Elems(inbox'[S]) = {}
    BY <1>1, <1>2, ReturnLeaves, Parties
  <1>4. /\ pc'[S] = "done" /\ out'[S] = <<>> /\ out'[C] = out[C]
    BY <1>3, Parties DEF Leaves, Shape
  <1>5. PICK i \in 0 .. Len(inbox[C]) : inbox'[C] = SubSeq(inbox[C], 1, i)
    BY <1>3, Parties DEF Leaves
  <1>6. IsSeq(inbox[C]) /\ IsSeq(Msgs(inbox[C])) /\ IsSeq(out[S])
    BY FlowTyped, Parties
  <1>7. IsFront(ToClient', ToClient)
    <2> DEFINE s == Msgs(inbox[C])
               t == Msgs(SubSeq(inbox[C], 1, i))
    <2>1. IsFront(t, s)
      BY <1>6, SeqMsgs
    <2>2. ToClient' = t \o <<>> /\ ToClient = s \o out[S]
      BY <1>4, <1>5 DEF ToClient
    <2> DEFINE X == Elems(s) \cup Elems(out[S])
    <2>3. s \in Seq(X) /\ out[S] \in Seq(X)
      BY <1>6 DEF IsSeq
    <2> HIDE DEF s, t, X
    <2>4. PICK j \in 0 .. Len(s) : t = SubSeq(s, 1, j)
      BY <2>1 DEF IsFront
    <2>5. t \in Seq(X) /\ t \o <<>> = t
      BY <2>1, <2>3, FrontSplit, NothingJoined
    <2>6. IsFront(t, s \o out[S])
      BY <2>3, <2>4, FrontJoined
    <2> QED
      BY <2>2, <2>5, <2>6
  <1>8. Calm'
    BY <1>3, <1>4 DEF Calm, Modest
  <1> QED
    BY <1>4, <1>7, <1>8

LEMMA ServerSendsFlow ==
    ASSUME Shape, Calm, Send(S), UNCHANGED anyVars
    PROVE  UNCHANGED <<ToClient, ToServer>> /\ pc' = pc /\ Calm'
  <1>1. UNCHANGED <<tried, strayed>>
    BY DEF anyVars
  <1>2. Writes(S)
    BY <1>1, SendWrites, Parties
  <1>3. /\ pc' = pc /\ out[S] # <<>> /\ out'[S] = Tail(out[S]) /\ out'[C] = out[C]
        /\ inbox'[S] = inbox[S]
    BY <1>2, Parties DEF Writes, Shape
  <1>4. pc[S] # "done" /\ pc[C] = "open" /\ ~reset
    BY <1>3 DEF Calm
  <1>5. PICK f : f.msg = Head(out[S]) /\ inbox'[C] = Append(inbox[C], f)
    BY <1>2, <1>4, Parties DEF Writes
  <1>6. ~reset'
    BY <1>2, <1>4, Parties DEF Writes
  <1>7. IsSeq(inbox[C]) /\ IsSeq(Msgs(inbox[C])) /\ IsSeq(out[S])
    BY FlowTyped, Parties
  <1>8. ToClient' = ToClient
    <2>1. Msgs(Append(inbox[C], f)) = Append(Msgs(inbox[C]), Head(out[S]))
      BY <1>5, <1>7, SeqMsgs
    <2>2. ToClient' = Append(Msgs(inbox[C]), Head(out[S])) \o Tail(out[S])
      BY <1>3, <1>5, <2>1 DEF ToClient
    <2> QED
      BY <1>3, <1>7, <2>2, SeqSteps DEF ToClient
  <1>9. ToServer' = ToServer
    BY <1>3 DEF ToServer
  <1>10. Calm'
    BY <1>3, <1>4, <1>6 DEF Calm, Modest
  <1> QED
    BY <1>3, <1>8, <1>9, <1>10

LEMMA SaidFlow ==
    ASSUME Shape, Calm, NEW m, Says(m), Modest(m), tried' \in BOOLEAN, strayed' \in BOOLEAN
    PROVE  ToClient' = ToClient /\ ToServer' = ToServer \o <<m>> /\ pc' = pc /\ Calm'
  <1>1. /\ out[C] = <<>> /\ out'[C] = <<m>> /\ Elems(out'[C]) = {m} /\ out'[S] = out[S]
        /\ UNCHANGED <<pc, inbox, reset>>
    BY SaysSpoken DEF Spoken
  <1>2. IsSeq(Msgs(inbox[S]))
    BY FlowTyped, Parties
  <1>3. Msgs(inbox[S]) \o <<>> = Msgs(inbox[S])
    BY <1>2, SeqJoined
  <1>4. ToClient' = ToClient /\ ToServer' = ToServer \o <<m>>
    BY <1>1, <1>3 DEF ToClient, ToServer
  <1>5. Calm'
    BY <1>1 DEF Calm, Modest
  <1> QED
    BY <1>1, <1>4, <1>5

LEMMA HeardFlow ==
    ASSUME Shape, Calm, Hear
    PROVE  /\ ToClient # <<>> /\ Head(ToClient) = Msg(C) /\ ToClient' = Tail(ToClient)
           /\ ToServer' = ToServer /\ pc'[S] = pc[S] /\ Calm'
  <1> DEFINE none == <<>>
  <1>1. Recv(C) /\ Handled(C, "open", none) /\ UNCHANGED <<tried, strayed>>
    BY DEF Hear
  <1>2. tried' \in BOOLEAN /\ strayed' \in BOOLEAN /\ none \in Seq(Elems(none))
    BY <1>1, Lists DEF Shape
  <1>3. /\ inbox[C] # <<>> /\ out[C] = <<>> /\ out'[C] = none /\ out'[S] = out[S]
        /\ inbox'[C] = Tail(inbox[C]) /\ inbox'[S] = inbox[S]
        /\ pc'[C] = "open" /\ pc'[S] = pc[S] /\ UNCHANGED <<res, reset>>
    <2> HIDE DEF none
    <2> QED
      BY <1>1, <1>2, HandledShape, Parties
  <1>4. IsSeq(inbox[C]) /\ IsSeq(Msgs(inbox[C])) /\ IsSeq(out[S])
    BY FlowTyped, Parties
  <1>5. /\ Msgs(Tail(inbox[C])) = Tail(Msgs(inbox[C])) /\ Msgs(inbox[C]) # <<>>
        /\ Head(Msgs(inbox[C])) = Msg(C)
    BY <1>3, <1>4, SeqMsgs DEF Msg
  <1>6. ToClient' = Tail(Msgs(inbox[C])) \o out[S]
    BY <1>3, <1>5 DEF ToClient
  <1>7. ToClient # <<>> /\ Head(ToClient) = Msg(C) /\ ToClient' = Tail(ToClient)
    BY <1>4, <1>5, <1>6, SeqSteps DEF ToClient
  <1>8. ToServer' = ToServer
    BY <1>3 DEF ToServer
  <1>9. Calm'
    BY <1>3 DEF Calm, Modest
  <1> QED
    BY <1>3, <1>7, <1>8, <1>9

LEMMA ClientSendsFlow ==
    ASSUME Shape, Calm, Send(C), UNCHANGED anyVars
    PROVE  /\ ToClient' = ToClient /\ pc' = pc /\ Calm'
           /\ pc[S] # "done" => ToServer' = ToServer
  <1>1. UNCHANGED <<tried, strayed>>
    BY DEF anyVars
  <1>2. Writes(C)
    BY <1>1, SendWrites, Parties
  <1>3. /\ pc' = pc /\ out[C] # <<>> /\ out'[C] = Tail(out[C]) /\ out'[S] = out[S]
        /\ inbox'[C] = inbox[C] /\ Head(out[C]) \in Elems(out[C])
        /\ Elems(out'[C]) \subseteq Elems(out[C])
    BY <1>2, Parties DEF Writes, Shape
  <1>4. \/ inbox'[S] = inbox[S] /\ (reset \/ pc[S] = "done")
        \/ \E f : f.msg = Head(out[C]) /\ inbox'[S] = Append(inbox[S], f)
    BY <1>2, Parties DEF Writes
  <1>5. pc[S] # "done" => ~reset'
    BY <1>2, Parties DEF Writes, Calm
  <1>6. IsSeq(inbox[S]) /\ IsSeq(Msgs(inbox[S])) /\ IsSeq(out[C])
    BY FlowTyped, Parties
  <1>7. ToClient' = ToClient
    BY <1>3 DEF ToClient
  <1>8. ASSUME pc[S] # "done" PROVE ToServer' = ToServer
    <2>1. PICK f : f.msg = Head(out[C]) /\ inbox'[S] = Append(inbox[S], f)
      BY <1>4, <1>8 DEF Calm
    <2>2. Msgs(Append(inbox[S], f)) = Append(Msgs(inbox[S]), Head(out[C]))
      BY <1>6, <2>1, SeqMsgs
    <2>3. ToServer' = Append(Msgs(inbox[S]), Head(out[C])) \o Tail(out[C])
      BY <1>3, <2>1, <2>2 DEF ToServer
    <2> QED
      BY <1>3, <1>6, <2>3, SeqSteps DEF ToServer
  <1>9. Calm'
    <2>1. \A f \in Elems(inbox'[S]) : Modest(f.msg)
      <3>1. CASE inbox'[S] = inbox[S]
        BY <3>1 DEF Calm
      <3>2. ASSUME NEW f, f.msg = Head(out[C]), inbox'[S] = Append(inbox[S], f)
            PROVE  \A g \in Elems(inbox'[S]) : Modest(g.msg)
        <4>1. inbox[S] \in Seq(Elems(inbox[S]) \cup {f})
          BY <1>6 DEF IsSeq
        <4>2. Elems(Append(inbox[S], f)) \subseteq Elems(inbox[S]) \cup {f}
          BY <4>1, ElemsAppend
        <4> QED
          BY <1>3, <3>2, <4>2 DEF Calm
      <3> QED
        BY <1>4, <3>1, <3>2
    <2> QED
      BY <1>3, <1>5, <2>1 DEF Calm, Modest
  <1> QED
    BY <1>3, <1>7, <1>8, <1>9

LEMMA ModestFits ==
    ASSUME NEW m, Modest(m), NEW k
    PROVE  Fits(k, m)
  <1>1. PayloadLen(m) = 17 \/ PayloadLen(m) = 0
    BY DEF PayloadLen, Modest
  <1>2. BlockSize(IsEncrypted(k)) = 8 \/ BlockSize(IsEncrypted(k)) = 16
    BY DEF BlockSize, AES_BLOCK_SIZE, PLAIN_BLOCK_SIZE
  <1>3. Serializable(17, 8) /\ Serializable(17, 16) /\ Serializable(0, 8) /\ Serializable(0, 16)
    BY DEF Serializable, PacketLength, PaddingLen, MAX_PACKET_SIZE, MIN_PADDING
  <1> QED
    BY <1>1, <1>2, <1>3 DEF Fits

\* The client returns only when the server has.
LEMMA ClientIoFlow ==
    ASSUME Shape, Calm, ClientIo
    PROVE  \/ Send(C) /\ UNCHANGED anyVars
           \/ pc[S] = "done" /\ UNCHANGED anyVars /\ \E r, unread : Return(C, r, unread)
  <1>1. UNCHANGED anyVars /\ (Write(C) \/ RecvFails(C, {}))
    BY DEF ClientIo
  <1>2. ~SendTooLarge(C)
    <2>1. SUFFICES ASSUME out[C] # <<>> PROVE Fits(keys[C], Head(out[C]))
      BY DEF SendTooLarge
    <2>2. Head(out[C]) \in Elems(out[C])
      BY <2>1, FlowTyped, Parties, ElemsTail DEF IsSeq
    <2> QED
      BY <2>2, ModestFits DEF Calm
  <1>3. CASE SendFails(C)
    BY <1>1, <1>3 DEF SendFails, Calm
  <1>4. CASE RecvFails(C, {})
    BY <1>1, <1>4, Parties DEF RecvFails, StreamEnded, Calm
  <1> QED
    BY <1>1, <1>2, <1>3, <1>4 DEF Write

LEMMA ClientLeavesFlow ==
    ASSUME Shape, Calm, pc[S] = "done", NEW r, NEW unread, Return(C, r, unread),
           UNCHANGED anyVars
    PROVE  ToClient' = <<>> /\ pc'[S] = "done" /\ Calm'
  <1>1. UNCHANGED <<tried, strayed>>
    BY DEF anyVars
  <1>2. /\ Leaves(C, r) /\ Elems(out'[C]) = {}
        /\ Elems(inbox'[S]) \subseteq Elems(inbox[S])
    BY <1>1, ReturnLeaves, Parties
  <1>3. inbox'[C] = <<>> /\ out'[S] = out[S] /\ pc'[S] = pc[S]
    BY <1>2, Parties DEF Leaves, Shape
  <1>4. out[S] = <<>> /\ Msgs(<<>>) = <<>>
    BY SeqMsgs, SeqShort DEF Calm
  <1>5. ToClient' = <<>> \o <<>> /\ <<>> \o <<>> = <<>>
    BY <1>3, <1>4, SeqJoined, SeqShort DEF ToClient
  <1>6. Calm'
    BY <1>2, <1>3 DEF Calm, Modest
  <1> QED
    BY <1>3, <1>5, <1>6

-----------------------------------------------------------------------------
(* The balance of questions and answers, at each step. *)

LEMMA BalancedServer ==
    ASSUME Shape, Calm, ServerNext, UNCHANGED anyVars, NEW a, NEW q, NEW e,
           \A packets : Served(packets) => Tally(a, packets) = Mark(q, Msg(S)),
           Balance(pc[S] # "done", e, Tally(a, ToClient), Tally(q, ToServer))
    PROVE  Balance(pc'[S] # "done", e, Tally(a, ToClient'), Tally(q, ToServer')) /\ Calm'
  <1>0. IsSeq(ToClient) /\ IsSeq(ToServer)
    BY FlowTyped
  <1>1. ASSUME NEW packets, Served(packets)
        PROVE  Balance(pc'[S] # "done", e, Tally(a, ToClient'), Tally(q, ToServer')) /\ Calm'
    <2>1. /\ pc[S] # "done" /\ pc'[S] # "done" /\ IsSeq(packets)
          /\ ToClient' = ToClient \o packets
          /\ ToServer # <<>> /\ Head(ToServer) = Msg(S) /\ ToServer' = Tail(ToServer)
          /\ Calm'
      BY <1>1, ServedFlow
    <2> DEFINE h == Tally(a, ToClient)
               w == Tally(q, ToServer)
               v == Tally(q, Tail(ToServer))
               r == Mark(q, Msg(S))
    <2>2. w = r \o v /\ IsSeq(v)
      BY <1>0, <2>1, TallySteps, SeqTally
    <2>3. Tally(a, ToClient') = h \o r
      <3>1. Tally(a, packets) = r
        BY <1>1
      <3>2. Tally(a, ToClient \o packets) = Tally(a, ToClient) \o Tally(a, packets)
        BY <1>0, <2>1, TallyParts
      <3> QED
        BY <2>1, <3>1, <3>2
    <2>4. IsSeq(h) /\ IsSeq(r)
      BY <1>0, SeqTally, SeqShort
    <2>5. Balance(TRUE, e, h, w)
      BY <2>1 DEF Balance
    <2>6. Tally(q, ToServer') = v
      BY <2>1
    <2> HIDE DEF h, w, v, r
    <2>7. Balance(TRUE, e, h \o r, v)
      BY <2>2, <2>4, <2>5, BalanceServed
    <2>8. Balance(pc'[S] # "done", e, h \o r, v)
      BY <2>7 DEF Balance
    <2> QED
      BY <2>1, <2>3, <2>6, <2>8
  <1>2. CASE Quits
    <2>1. pc'[S] = "done" /\ IsFront(ToClient', ToClient) /\ Calm'
      BY <1>2, QuitsFlow
    <2>2. PICK t, u : t = ToClient' /\ IsSeq(t) /\ IsSeq(u) /\ ToClient = t \o u
      <3>1. PICK t : t = ToClient'
        OBVIOUS
      <3>2. ToClient \in Seq(Elems(ToClient)) /\ IsFront(t, ToClient)
        BY <1>0, <2>1, <3>1 DEF IsSeq
      <3>3. t \in Seq(Elems(ToClient)) /\ \E u \in Seq(Elems(ToClient)) : ToClient = t \o u
        BY <3>2, FrontSplit
      <3> QED
        BY <3>1, <3>3, SeqOfElems DEF IsSeq
    <2> DEFINE v == Tally(q, ToServer')
    <2>3. /\ Tally(a, ToClient) = Tally(a, t) \o Tally(a, u)
          /\ IsSeq(Tally(a, t)) /\ IsSeq(Tally(a, u))
      BY <2>2, TallyParts, SeqTally
    <2> HIDE DEF v
    <2>4. Balance(FALSE, e, Tally(a, t), v)
      BY <2>3, BalanceLost
    <2>5. Balance(pc'[S] # "done", e, Tally(a, t), v)
      BY <2>1, <2>4 DEF Balance
    <2> QED
      BY <2>1, <2>2, <2>5 DEF v
  <1>3. CASE Send(S)
    BY <1>3, ServerSendsFlow
  <1> QED
    BY <1>1, <1>2, <1>3, ServerServes

LEMMA BalancedSaid ==
    ASSUME Shape, Calm, NEW m, Says(m), Modest(m), tried' \in BOOLEAN, strayed' \in BOOLEAN,
           NEW a, NEW q, NEW e,
           Balance(pc[S] # "done", e, Tally(a, ToClient), Tally(q, ToServer))
    PROVE  /\ Balance(pc'[S] # "done", e \o Mark(q, m), Tally(a, ToClient'), Tally(q, ToServer'))
           /\ Calm'
  <1>0. IsSeq(ToClient) /\ IsSeq(ToServer)
    BY FlowTyped
  <1>1. ToClient' = ToClient /\ ToServer' = ToServer \o <<m>> /\ pc' = pc /\ Calm'
    BY SaidFlow
  <1> DEFINE h == Tally(a, ToClient)
             w == Tally(q, ToServer)
             r == Mark(q, m)
  <1>2. IsSeq(h) /\ IsSeq(w) /\ IsSeq(r)
    BY <1>0, SeqTally, SeqShort
  <1>3. Tally(q, ToServer') = w \o r /\ Tally(a, ToClient') = h
    BY <1>0, <1>1, TallySteps
  <1>4. PICK running \in BOOLEAN : running = (pc[S] # "done")
    OBVIOUS
  <1>5. Balance(running, e, h, w)
    BY <1>4
  <1> HIDE DEF h, w, r
  <1>6. Balance(running, e \o r, h, w \o r)
    BY <1>2, <1>5, BalanceSaid
  <1>7. Balance(pc'[S] # "done", e \o r, h, w \o r)
    BY <1>1, <1>4, <1>6
  <1> QED
    BY <1>1, <1>3, <1>7 DEF r

LEMMA BalancedHeard ==
    ASSUME Shape, Calm, Hear, NEW a, NEW q, NEW e,
           Balance(pc[S] # "done", e, Tally(a, ToClient), Tally(q, ToServer))
    PROVE  /\ Balance(pc'[S] # "done", IF Is(a, Msg(C)) /\ e # <<>> THEN Tail(e) ELSE e,
                      Tally(a, ToClient'), Tally(q, ToServer'))
           /\ Calm'
  <1>0. IsSeq(ToClient)
    BY FlowTyped
  <1>1. /\ ToClient # <<>> /\ Head(ToClient) = Msg(C) /\ ToClient' = Tail(ToClient)
        /\ ToServer' = ToServer /\ pc'[S] = pc[S] /\ Calm'
    BY HeardFlow
  <1> DEFINE h == Tally(a, ToClient)
             b == Tally(a, Tail(ToClient))
             w == Tally(q, ToServer)
             r == Mark(a, Msg(C))
  <1>2. h = r \o b /\ IsSeq(b) /\ IsSeq(h)
    BY <1>0, <1>1, TallySteps, SeqTally
  <1>3. Tally(q, ToServer') = w /\ Tally(a, ToClient') = b
    BY <1>1
  <1>4. PICK running \in BOOLEAN : running = (pc[S] # "done")
    OBVIOUS
  <1>5. Balance(running, e, h, w)
    BY <1>4
  <1>6. r = IF Is(a, Msg(C)) THEN <<Msg(C).num[1]>> ELSE <<>>
    BY DEF Mark
  <1> HIDE DEF h, b, w, r
  <1>7. /\ h = b => Balance(running, e, b, w)
        /\ \A n : h = <<n>> \o b => e # <<>> /\ Balance(running, Tail(e), b, w)
    BY <1>2, <1>5, BalanceHeard
  <1>8. <<>> \o b = b
    BY <1>2, SeqJoined
  <1>9. Balance(running, IF Is(a, Msg(C)) /\ e # <<>> THEN Tail(e) ELSE e, b, w)
    <2>1. CASE Is(a, Msg(C))
      <3>1. h = <<Msg(C).num[1]>> \o b
        BY <1>2, <1>6, <2>1
      <3>2. e # <<>> /\ Balance(running, Tail(e), b, w)
        BY <1>7, <3>1
      <3> QED
        BY <2>1, <3>2
    <2>2. CASE ~Is(a, Msg(C))
      <3>1. h = b
        BY <1>2, <1>6, <1>8, <2>2
      <3> QED
        BY <1>7, <2>2, <3>1
    <2> QED
      BY <2>1, <2>2
  <1> QED
    BY <1>1, <1>3, <1>4, <1>9

LEMMA BalancedIo ==
    ASSUME Shape, Calm, ClientIo, NEW a, NEW q, NEW e,
           Balance(pc[S] # "done", e, Tally(a, ToClient), Tally(q, ToServer))
    PROVE  Balance(pc'[S] # "done", e, Tally(a, ToClient'), Tally(q, ToServer')) /\ Calm'
  <1>0. IsSeq(ToClient)
    BY FlowTyped
  <1>1. CASE Send(C) /\ UNCHANGED anyVars
    <2>1. /\ ToClient' = ToClient /\ pc' = pc /\ Calm'
          /\ pc[S] # "done" => ToServer' = ToServer
      BY <1>1, ClientSendsFlow
    <2> QED
      BY <2>1 DEF Balance
  <1>2. CASE pc[S] = "done" /\ UNCHANGED anyVars /\ \E r, unread : Return(C, r, unread)
    <2>1. ToClient' = <<>> /\ pc'[S] = "done" /\ Calm'
      BY <1>2, ClientLeavesFlow
    <2> DEFINE h == Tally(a, ToClient)
               none == <<>>
               v == Tally(q, ToServer')
    <2>2. Tally(a, ToClient') = none
      BY <2>1, TallyShort
    <2>3. IsSeq(h) /\ IsSeq(none) /\ h = none \o h
      BY <1>0, SeqTally, SeqShort, SeqJoined
    <2> HIDE DEF h, none, v
    <2>4. Balance(pc[S] # "done", e, h, Tally(q, ToServer))
      BY DEF h
    <2>5. Balance(FALSE, e, none, v)
      BY <2>3, <2>4, BalanceLost
    <2>6. Balance(pc'[S] # "done", e, none, v)
      BY <2>1, <2>5 DEF Balance
    <2> QED
      BY <2>1, <2>2, <2>6 DEF v
  <1> QED
    BY <1>1, <1>2, ClientIoFlow

-----------------------------------------------------------------------------
(* What the client says, and what it then expects. *)

RepliesInv ==
    Balance(pc[S] # "done", awaiting, Tally("reply", ToClient), Tally("request", ToServer))
SftpInv ==
    Balance(pc[S] # "done", sftp, Tally("response", ToClient), Tally("sftp", ToServer))

AnswerInv == Calm /\ RepliesInv /\ (Whole => SftpInv)

LEMMA BalanceSeq ==
    ASSUME NEW running, NEW e, NEW h, NEW w, IsSeq(h), Balance(running, e, h, w)
    PROVE  IsSeq(e)
  BY SeqJoined DEF Balance

LEMMA FlattenFirst ==
    ASSUME NEW X, NEW t \in Seq(X), t # <<>>, NEW K, NEW n,
           \A i \in DOMAIN t : i # 1 => t[i] \notin K
    PROVE  Seqs!FlattenSeq([i \in DOMAIN t |-> IF t[i] \in K THEN <<n>> ELSE <<>>])
              = IF t[1] \in K THEN <<n>> ELSE <<>>
  <1> DEFINE v(i) == IF t[i] \in K THEN <<n>> ELSE <<>>
             f == [i \in DOMAIN t |-> v(i)]
             Z == Seq({n})
  <1>1. Len(t) \in Nat /\ Len(t) > 0 /\ DOMAIN t = 1 .. Len(t)
    OBVIOUS
  <1>2. \A i : v(i) \in Z
    <2>1. <<n>> \in Seq({n}) /\ <<>> \in Seq({n})
      OBVIOUS
    <2> QED
      BY <2>1
  <1>3. \A i \in 1 .. Len(t) : i # 1 => v(i) = <<>>
    BY <1>1
  <1>4. v(1) = IF t[1] \in K THEN <<n>> ELSE <<>>
    OBVIOUS
  <1>5. f = [i \in 1 .. Len(t) |-> v(i)]
    BY <1>1
  <1> HIDE DEF v, Z
  <1>6. f \in Seq(Z) /\ Len(f) = Len(t) /\ \A i \in 1 .. Len(t) : f[i] = v(i)
    BY <1>1, <1>2, <1>5
  <1> HIDE DEF f
  <1>7. f # <<>> /\ f = <<f[1]>> \o Tail(f) /\ Tail(f) \in Seq(Z) /\ f[1] = v(1)
    BY <1>1, <1>6
  <1>8. \A i \in DOMAIN Tail(f) : Tail(f)[i] = <<>>
    <2>1. DOMAIN Tail(f) = 1 .. Len(t) - 1
      <3>1. Len(Tail(f)) = Len(f) - 1 /\ DOMAIN Tail(f) = 1 .. Len(Tail(f))
        BY <1>6, <1>7
      <3> QED
        BY <1>6, <3>1
    <2>2. SUFFICES ASSUME NEW i \in 1 .. Len(t) - 1 PROVE Tail(f)[i] = <<>>
      BY <2>1
    <2>3. i + 1 \in 1 .. Len(t) /\ i + 1 # 1 /\ Tail(f)[i] = f[i + 1]
      BY <1>1, <1>6, <1>7, <2>2
    <2> QED
      BY <1>3, <1>6, <2>3
  <1>9. Seqs!FlattenSeq(Tail(f)) = <<>>
    BY <1>7, <1>8, FlattenEmpty DEF Z
  <1>10. v(1) \in Seq({n}) /\ <<v(1)>> \in Seq(Seq({n}))
    BY <1>2 DEF Z
  <1>11. Seqs!FlattenSeq(<<v(1)>>) = v(1)
    BY <1>10, FlattenOne
  <1>12. Seqs!FlattenSeq(<<v(1)>> \o Tail(f))
            = Seqs!FlattenSeq(<<v(1)>>) \o Seqs!FlattenSeq(Tail(f))
    BY <1>7, <1>10, FlattenJoined DEF Z
  <1>13. v(1) \o <<>> = v(1)
    BY <1>10, NothingJoined
  <1>14. Seqs!FlattenSeq(f) = v(1)
    BY <1>7, <1>9, <1>11, <1>12, <1>13
  <1> QED
    BY <1>4, <1>14 DEF f, v

\* The client sends m and counts what it asks for.
Asks(m) ==
    /\ Says(m) /\ Modest(m) /\ tried' \in BOOLEAN /\ strayed' \in BOOLEAN
    /\ awaiting' = awaiting \o Mark("request", m)
    /\ Whole /\ IsSeq(sftp) => sftp' = sftp \o Mark("sftp", m)

LEMMA AsksNothing ==
    ASSUME NEW m, Says(m), tried' \in BOOLEAN, strayed' \in BOOLEAN,
           m.type \notin {"ChannelRequest", "ChannelData"}, IsSeq(awaiting),
           UNCHANGED <<awaiting, sftp>>
    PROVE  Asks(m)
  <1>1. Mark("request", m) = <<>> /\ Mark("sftp", m) = <<>> /\ Modest(m)
    BY IsFacts DEF Mark, Modest
  <1>2. awaiting \o <<>> = awaiting
    BY SeqJoined
  <1>3. IsSeq(sftp) => sftp \o <<>> = sftp
    BY SeqJoined
  <1> QED
    BY <1>1, <1>2, <1>3 DEF Asks

\* A channel the client uses has the same number on both sides.
LEMMA SameNumber ==
    ASSUME ChannelInv, NEW ch \in Channels
    PROVE  ch.mine = ch.theirs
  BY DEF Channels, ChannelInv

LEMMA PlainAsks ==
    ASSUME Shape, ChannelInv, IsSeq(awaiting), SayPlain \/ SayAuth \/ SayOpen \/ SayOnChannel
    PROVE  \E m : Asks(m)
  <1>1. tried \in BOOLEAN /\ strayed \in BOOLEAN /\ UNCHANGED <<awaiting, sftp>>
    BY DEF Shape, SayPlain, SayAuth, SayOpen, SayOnChannel
  <1>2. CASE SayPlain
    <2>1. \E m : Says(m) /\ m.type \notin {"ChannelRequest", "ChannelData"}
      BY <1>2 DEF SayPlain, SshPacket
    <2>2. UNCHANGED <<tried, strayed>>
      BY <1>2 DEF SayPlain
    <2> QED
      BY <1>1, <2>1, <2>2, AsksNothing
  <1>3. CASE SayAuth
    <2>1. PICK t : /\ Says(SshPacket("UserAuthRequest", t, <<>>))
                   /\ tried' = (tried \/ Valid(t))
      BY <1>3 DEF SayAuth
    <2>2. SshPacket("UserAuthRequest", t, <<>>).type = "UserAuthRequest"
      BY DEF SshPacket
    <2>3. UNCHANGED strayed /\ tried' \in BOOLEAN
      BY <1>3, <2>1 DEF SayAuth
    <2> QED
      BY <1>1, <2>1, <2>2, <2>3, AsksNothing
  <1>4. CASE SayOpen
    <2> DEFINE m == SshPacket("ChannelOpen", <<"session">>, <<FirstId + opened, 10>>)
    <2>1. Says(m) /\ UNCHANGED <<tried, strayed>> /\ m.type = "ChannelOpen"
      BY <1>4 DEF SayOpen, SshPacket
    <2> HIDE DEF m
    <2> QED
      BY <1>1, <2>1, AsksNothing
  <1>5. CASE SayOnChannel
    <2>1. PICK ch \in Channels :
             /\ Uses(ch)
             /\ \/ \E type \in {"ChannelEof", "ChannelClose"} :
                      Says(SshPacket(type, <<>>, <<ch.theirs>>))
                \/ Says(SshPacket("ChannelWindowAdjust", <<>>, <<ch.theirs, 5>>))
      BY <1>5 DEF SayOnChannel
    <2>2. PICK m : Says(m) /\ m.type \in {"ChannelEof", "ChannelClose", "ChannelWindowAdjust"}
      BY <2>1 DEF SshPacket
    <2>3. UNCHANGED tried /\ strayed' \in BOOLEAN
      BY <1>5, <2>1, UsesKnown DEF SayOnChannel
    <2> QED
      BY <1>1, <2>2, <2>3, AsksNothing
  <1> QED
    BY <1>2, <1>3, <1>4, <1>5

LEMMA RequestAsks ==
    ASSUME Shape, ChannelInv, IsSeq(awaiting), SayRequest
    PROVE  \E m : Asks(m)
  <1>1. PICK ch \in Channels, t \in Requests, want \in BOOLEAN :
           /\ Says([SshPacket("ChannelRequest", t, <<ch.theirs>>) EXCEPT !.want = want])
           /\ awaiting' = IF want THEN Append(awaiting, ch.mine) ELSE awaiting
           /\ Uses(ch)
    BY DEF SayRequest
  <1> DEFINE m == [SshPacket("ChannelRequest", t, <<ch.theirs>>) EXCEPT !.want = want]
  <1>2. /\ Says(m) /\ m.type = "ChannelRequest" /\ m.num[1] = ch.theirs /\ m.want = want
        /\ UNCHANGED <<tried, sftp>>
    BY <1>1 DEF SayRequest, SshPacket
  <1>3. tried' \in BOOLEAN /\ strayed' \in BOOLEAN
    BY <1>1, <1>2, UsesKnown DEF Shape
  <1> HIDE DEF m
  <1>4. ch.mine = ch.theirs
    BY SameNumber
  <1>5. Mark("request", m) = (IF want THEN <<ch.mine>> ELSE <<>>) /\ Mark("sftp", m) = <<>>
    BY <1>2, <1>4, IsFacts DEF Mark
  <1>6. Append(awaiting, ch.mine) = awaiting \o <<ch.mine>>
    BY SeqSteps, SeqShort
  <1>7. awaiting \o <<>> = awaiting /\ (IsSeq(sftp) => sftp \o <<>> = sftp)
    BY SeqJoined
  <1>8. awaiting' = awaiting \o Mark("request", m)
    BY <1>1, <1>5, <1>6, <1>7
  <1>9. Modest(m)
    BY <1>2 DEF Modest
  <1>10. Asks(m)
    BY <1>2, <1>3, <1>5, <1>7, <1>8, <1>9 DEF Asks
  <1> QED
    BY <1>10

LEMMA DataAsks ==
    ASSUME Shape, ChannelInv, IsSeq(awaiting), SayData
    PROVE  \E m : Asks(m)
  <1>1. PICK ch \in Channels, t \in Pieces :
           /\ Says(SshPacket("ChannelData", t, <<ch.theirs, 9>>))
           /\ sftp' = sftp \o Seqs!FlattenSeq([i \in DOMAIN t |->
                         IF t[i] \in {"sftp", "tail"} THEN <<ch.mine>> ELSE <<>>])
           /\ Uses(ch)
    BY DEF SayData
  <1> DEFINE m == SshPacket("ChannelData", t, <<ch.theirs, 9>>)
  <1>2. /\ Says(m) /\ m.type = "ChannelData" /\ m.num[1] = ch.theirs /\ m.num[2] = 9
        /\ m.text = t /\ UNCHANGED <<tried, awaiting>>
    BY <1>1 DEF SayData, SshPacket
  <1>3. tried' \in BOOLEAN /\ strayed' \in BOOLEAN
    BY <1>1, <1>2, UsesKnown DEF Shape
  <1> HIDE DEF m
  <1>4. ch.mine = ch.theirs
    BY SameNumber
  <1>5. Mark("request", m) = <<>> /\ Modest(m)
    BY <1>2, IsFacts DEF Mark, Modest
  <1>6. awaiting' = awaiting \o Mark("request", m)
    <2>1. awaiting \o <<>> = awaiting
      BY SeqJoined
    <2> QED
      BY <1>2, <1>5, <2>1
  <1>7. ASSUME Whole PROVE sftp' = sftp \o Mark("sftp", m)
    <2>1. t \in Seq({"sftp", "head", "tail", "text"}) /\ t # <<>> /\ Head(t) = t[1]
      <3>1. t \in Seq({"sftp", "head", "tail", "text"}) /\ t # <<>>
        BY AnyClientAssumption
      <3> QED
        BY <3>1
    <2> DEFINE K == {"sftp", "tail"}
               n == ch.mine
               taken == Seqs!FlattenSeq([i \in DOMAIN t |-> IF t[i] \in K THEN <<n>> ELSE <<>>])
    <2>2. t[1] # "tail" /\ \A i \in DOMAIN t : i # 1 => t[i] \notin K
      BY <1>7 DEF Whole
    <2>3. sftp' = sftp \o taken
      BY <1>1
    <2>4. t[1] \in K <=> Is("sftp", m)
      BY <1>2, <2>1, <2>2, IsFacts
    <2>5. taken = IF t[1] \in K THEN <<n>> ELSE <<>>
      <3> HIDE DEF K, n
      <3> QED
        BY <2>1, <2>2, FlattenFirst
    <2>6. Mark("sftp", m) = IF Is("sftp", m) THEN <<n>> ELSE <<>>
      BY <1>2, <1>4 DEF Mark
    <2> HIDE DEF K, n, taken
    <2> QED
      BY <2>3, <2>4, <2>5, <2>6
  <1>8. Asks(m)
    BY <1>2, <1>3, <1>5, <1>6, <1>7 DEF Asks
  <1> QED
    BY <1>8

LEMMA AnswerServer ==
    ASSUME Shape, AnswerInv, ServerNext, UNCHANGED anyVars
    PROVE  AnswerInv'
  <1>1. Calm /\ RepliesInv /\ (Whole => SftpInv)
    BY DEF AnswerInv
  <1>2. awaiting' = awaiting /\ sftp' = sftp
    BY DEF anyVars
  <1>3. Balance(pc'[S] # "done", awaiting, Tally("reply", ToClient'), Tally("request", ToServer'))
        /\ Calm'
    <2>1. \A packets : Served(packets) => Tally("reply", packets) = Mark("request", Msg(S))
      BY DEF Served
    <2> QED
      BY <1>1, <2>1, BalancedServer DEF RepliesInv
  <1>4. ASSUME Whole
        PROVE  Balance(pc'[S] # "done", sftp, Tally("response", ToClient'),
                       Tally("sftp", ToServer'))
    <2>1. ASSUME NEW packets, Served(packets)
          PROVE  Tally("response", packets) = Mark("sftp", Msg(S))
      <3>1. Modest(Msg(S))
        BY <1>1, <2>1, ServedFlow
      <3>2. Untorn(Msg(S))
        <4>1. SUFFICES ASSUME Msg(S).text \in Pieces PROVE Head(Msg(S).text) # "tail"
          BY <3>1 DEF Modest, Untorn
        <4>2. /\ Msg(S).text \in Seq({"sftp", "head", "tail", "text"}) /\ Msg(S).text # <<>>
              /\ Msg(S).text[1] # "tail"
          BY <1>4, <4>1, AnyClientAssumption DEF Whole
        <4> QED
          BY <4>2
      <3> QED
        BY <2>1, <3>2 DEF Served
    <2>2. Balance(pc[S] # "done", sftp, Tally("response", ToClient), Tally("sftp", ToServer))
      BY <1>1, <1>4 DEF SftpInv
    <2> QED
      BY <1>1, <2>1, <2>2, BalancedServer
  <1> QED
    BY <1>2, <1>3, <1>4 DEF AnswerInv, RepliesInv, SftpInv

LEMMA AnswerSaid ==
    ASSUME Shape, ChannelInv, AnswerInv,
           SayPlain \/ SayAuth \/ SayOpen \/ SayRequest \/ SayData \/ SayOnChannel
    PROVE  AnswerInv'
  <1>1. Calm /\ RepliesInv /\ (Whole => SftpInv)
    BY DEF AnswerInv
  <1>2. \A k : IsSeq(Tally(k, ToClient))
    BY FlowTyped, SeqTally
  <1>3. IsSeq(awaiting)
    BY <1>1, <1>2, BalanceSeq DEF RepliesInv
  <1>4. Whole => IsSeq(sftp)
    BY <1>1, <1>2, BalanceSeq DEF SftpInv
  <1>5. PICK m : Asks(m)
    BY <1>3, PlainAsks, RequestAsks, DataAsks
  <1>6. Says(m) /\ Modest(m) /\ tried' \in BOOLEAN /\ strayed' \in BOOLEAN
    BY <1>5 DEF Asks
  <1>7. Balance(pc'[S] # "done", awaiting \o Mark("request", m), Tally("reply", ToClient'),
                Tally("request", ToServer')) /\ Calm'
    BY <1>1, <1>6, BalancedSaid DEF RepliesInv
  <1>8. Whole => Balance(pc'[S] # "done", sftp \o Mark("sftp", m), Tally("response", ToClient'),
                         Tally("sftp", ToServer'))
    BY <1>1, <1>6, BalancedSaid DEF SftpInv
  <1>9. /\ awaiting' = awaiting \o Mark("request", m)
        /\ Whole => sftp' = sftp \o Mark("sftp", m)
    BY <1>4, <1>5 DEF Asks
  <1> QED
    BY <1>7, <1>8, <1>9 DEF AnswerInv, RepliesInv, SftpInv

LEMMA AnswerHeard ==
    ASSUME Shape, AnswerInv, Hear
    PROVE  AnswerInv'
  <1>1. Calm /\ RepliesInv /\ (Whole => SftpInv)
    BY DEF AnswerInv
  <1>2. /\ awaiting' = IF Is("reply", Msg(C)) /\ awaiting # <<>> THEN Tail(awaiting) ELSE awaiting
        /\ sftp' = IF Is("response", Msg(C)) /\ sftp # <<>> THEN Tail(sftp) ELSE sftp
    BY DEF Hear, Is
  <1> DEFINE e == IF Is("reply", Msg(C)) /\ awaiting # <<>> THEN Tail(awaiting) ELSE awaiting
             d == IF Is("response", Msg(C)) /\ sftp # <<>> THEN Tail(sftp) ELSE sftp
  <1>3. Balance(pc'[S] # "done", e, Tally("reply", ToClient'), Tally("request", ToServer'))
        /\ Calm'
    BY <1>1, BalancedHeard DEF RepliesInv
  <1>4. Whole => Balance(pc'[S] # "done", d, Tally("response", ToClient'),
                         Tally("sftp", ToServer'))
    BY <1>1, BalancedHeard DEF SftpInv
  <1>5. awaiting' = e /\ sftp' = d
    BY <1>2
  <1>6. /\ Balance(pc'[S] # "done", awaiting', Tally("reply", ToClient'),
                   Tally("request", ToServer'))
        /\ Whole => Balance(pc'[S] # "done", sftp', Tally("response", ToClient'),
                            Tally("sftp", ToServer'))
    <2> HIDE DEF e, d
    <2> QED
      BY <1>3, <1>4, <1>5
  <1> QED
    BY <1>3, <1>6 DEF AnswerInv, RepliesInv, SftpInv

LEMMA AnswerIo ==
    ASSUME Shape, AnswerInv, ClientIo
    PROVE  AnswerInv'
  <1>1. Calm /\ RepliesInv /\ (Whole => SftpInv)
    BY DEF AnswerInv
  <1>2. awaiting' = awaiting /\ sftp' = sftp
    BY DEF ClientIo, anyVars
  <1>3. Balance(pc'[S] # "done", awaiting, Tally("reply", ToClient'), Tally("request", ToServer'))
        /\ Calm'
    BY <1>1, BalancedIo DEF RepliesInv
  <1>4. Whole => Balance(pc'[S] # "done", sftp, Tally("response", ToClient'),
                         Tally("sftp", ToServer'))
    BY <1>1, BalancedIo DEF SftpInv
  <1> QED
    BY <1>2, <1>3, <1>4 DEF AnswerInv, RepliesInv, SftpInv

LEMMA AnswerStep ==
    ASSUME Shape, ChannelInv, AnswerInv, [Next]_vars
    PROVE  AnswerInv'
  <1>1. CASE UNCHANGED vars
    <2>1. UNCHANGED <<pc, out, inbox, reset, awaiting, sftp>>
      BY <1>1 DEF vars, transport, anyVars
    <2>2. UNCHANGED <<ToClient, ToServer>>
      BY <2>1 DEF ToClient, ToServer
    <2> QED
      BY <2>1, <2>2 DEF AnswerInv, Calm, RepliesInv, SftpInv, Modest
  <1>2. CASE ServerStep
    BY <1>2, AnswerServer DEF ServerStep
  <1>3. CASE ClientStep
    BY <1>3, AnswerSaid, AnswerHeard, AnswerIo DEF ClientStep
  <1> QED
    BY <1>1, <1>2, <1>3 DEF Next

LEMMA AnswerInit == Init => AnswerInv
  <1>1. SUFFICES ASSUME Init PROVE AnswerInv
    OBVIOUS
  <1>2. /\ out[C] = <<>> /\ out[S] = <<>> /\ inbox[C] = <<>> /\ inbox[S] = <<>>
        /\ reset = FALSE /\ pc[C] = "open" /\ awaiting = <<>> /\ sftp = <<>>
    BY <1>1, Parties DEF Init
  <1>3. pc[S] # "done"
    BY <1>1, Parties, AnyClientAssumption DEF Init
  <1>4. Calm
    BY <1>2, <1>3, ElemsShort DEF Calm
  <1>5. ToClient = <<>> /\ ToServer = <<>>
    <2>1. Msgs(<<>>) = <<>> /\ <<>> \o <<>> = <<>>
      BY SeqMsgs, SeqShort, SeqJoined
    <2> QED
      BY <1>2, <2>1 DEF ToClient, ToServer
  <1>6. \A k : Tally(k, <<>>) = <<>>
    BY TallyShort
  <1>7. Balance(pc[S] # "done", <<>>, <<>>, <<>>)
    BY SeqShort, SeqJoined DEF Balance
  <1> QED
    BY <1>2, <1>4, <1>5, <1>6, <1>7 DEF AnswerInv, RepliesInv, SftpInv

LEMMA AnswerAlways ==
    ASSUME Numbering
    PROVE  Spec => [](Shape /\ AnswerInv)
  <1>1. Shape /\ ChannelInv /\ [Next]_vars => ChannelInv'
    BY KnownStep
  <1>2. Shape /\ ChannelInv /\ AnswerInv /\ [Next]_vars => AnswerInv'
    BY AnswerStep
  <1> QED
    BY <1>1, <1>2, KnownInit, AnswerInit, LoginAlways, PTL DEF Spec

\* What is selected from the packets on their way is their tally.
LEMMA UnderwayTally ==
    /\ Underway(IsAnswer) = Tally("reply", ToClient)
    /\ Underway(IsResponse) = Tally("response", ToClient)
  <1>1. \A m : (Is("reply", m) <=> IsAnswer(m)) /\ (Is("response", m) <=> IsResponse(m))
    BY DEF Is
  <1>2. ToClient = [i \in DOMAIN inbox[C] |-> inbox[C][i].msg] \o out[S]
    BY DEF ToClient, Msgs
  <1> DEFINE s == [i \in DOMAIN inbox[C] |-> inbox[C][i].msg] \o out[S]
  <1>3. /\ Underway(IsAnswer) = Seqs!FlattenSeq([i \in DOMAIN s |->
                                   IF IsAnswer(s[i]) THEN <<s[i].num[1]>> ELSE <<>>])
        /\ Underway(IsResponse) = Seqs!FlattenSeq([i \in DOMAIN s |->
                                     IF IsResponse(s[i]) THEN <<s[i].num[1]>> ELSE <<>>])
    BY DEF Underway
  <1> HIDE DEF s
  <1>4. /\ Marks("reply", s)
              = [i \in DOMAIN s |-> IF IsAnswer(s[i]) THEN <<s[i].num[1]>> ELSE <<>>]
        /\ Marks("response", s)
              = [i \in DOMAIN s |-> IF IsResponse(s[i]) THEN <<s[i].num[1]>> ELSE <<>>]
    BY <1>1 DEF Marks, Mark
  <1> QED
    BY <1>2, <1>3, <1>4 DEF Tally, s

LEMMA BalanceMatches ==
    ASSUME Shape, NEW h, IsSeq(h), NEW k, NEW e,
           Balance(pc[S] # "done", e, h, Tally(k, ToServer))
    PROVE  Matches(h, e)
  <1>1. PICK rest : /\ IsSeq(rest) /\ e = h \o rest
                    /\ pc[S] # "done" => rest = Tally(k, ToServer)
    BY DEF Balance
  <1>2. SubSeq(h \o rest, 1, Len(h)) = h /\ Len(h) <= Len(h \o rest) /\ h \o <<>> = h
    BY <1>1, SeqJoined
  <1>3. CaughtUp => rest = <<>>
    <2>1. Msgs(<<>>) = <<>> /\ <<>> \o <<>> = <<>>
      BY SeqMsgs, SeqShort, SeqJoined
    <2>2. CaughtUp => ToServer = <<>> /\ pc[S] # "done"
      BY <2>1 DEF CaughtUp, ToServer
    <2> QED
      BY <1>1, <2>2, TallyShort
  <1> QED
    BY <1>1, <1>2, <1>3 DEF Matches

\* server.rs:294, the CHANNEL_REQUEST arm: however many requests a client that
\* numbers its channels from 0 pipelines, on however many channels and mixed with
\* whatever else, each one that wants a reply gets one, on its channel and in the
\* order of the requests, a request that wants none gets none, and none is left
\* unanswered when the server has read all it was sent.
THEOREM RequestsAnswered ==
    ASSUME FirstId = 0, MaxChannels <= U32_MAX
    PROVE  Spec => []RepliesMatch
  <1>1. Numbering
    BY DEF Numbering
  <1>2. Spec => [](Shape /\ AnswerInv)
    BY <1>1, AnswerAlways
  <1>3. Shape /\ AnswerInv => RepliesMatch
    <2>1. SUFFICES ASSUME Shape, AnswerInv PROVE RepliesMatch
      OBVIOUS
    <2>2. IsSeq(Tally("reply", ToClient))
      BY <2>1, FlowTyped, SeqTally
    <2>3. Matches(Tally("reply", ToClient), awaiting)
      BY <2>1, <2>2, BalanceMatches DEF AnswerInv, RepliesInv
    <2> QED
      BY <2>3, UnderwayTally DEF RepliesMatch
  <1> QED
    BY <1>2, <1>3, PTL

\* server.rs:414, the CHANNEL_DATA arm: a client that begins a CHANNEL_DATA with
\* each of its SFTP packets, and lets none go on in the next, has every one of
\* them answered, on its channel and in order, whatever else it pipelines.  The
\* run any_client_split shows that the hypothesis Whole is needed.
THEOREM SftpPacketsAnswered ==
    ASSUME FirstId = 0, MaxChannels <= U32_MAX, Whole
    PROVE  Spec => []SftpAnswered
  <1>1. Numbering
    BY DEF Numbering
  <1>2. Spec => [](Shape /\ AnswerInv)
    BY <1>1, AnswerAlways
  <1>3. Shape /\ AnswerInv => SftpAnswered
    <2>1. SUFFICES ASSUME Shape, AnswerInv PROVE SftpAnswered
      OBVIOUS
    <2>2. IsSeq(Tally("response", ToClient))
      BY <2>1, FlowTyped, SeqTally
    <2>3. Matches(Tally("response", ToClient), sftp)
      BY <2>1, <2>2, BalanceMatches DEF AnswerInv, SftpInv
    <2> QED
      BY <2>3, UnderwayTally DEF SftpAnswered
  <1> QED
    BY <1>2, <1>3, PTL
=============================================================================
