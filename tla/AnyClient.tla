------------------------------ MODULE AnyClient ------------------------------
(***************************************************************************)
(* The server against a client of any make, which multiplexes channels and *)
(* may send what it likes in whatever order, pipelined: it does not wait   *)
(* for an answer before its next packet.  The key exchange, which leaves a *)
(* client no such freedom, is behind it.                                   *)
(***************************************************************************)
EXTENDS Server

Seqs == INSTANCE SequencesExt

CONSTANTS Starts,         \* where the server may be: "service", or "loop" after a login
          AuthRequests,   \* the USERAUTH_REQUEST texts the client may send
          Requests,       \* the CHANNEL_REQUEST texts it may send
          FirstId,        \* the first channel number it uses
          Pieces,         \* what it may put into a CHANNEL_DATA
          Strays,         \* channel numbers it uses without having opened them
          MaxSent,        \* bound: packets the client sends, for each start
          MaxChannels     \* bound: channels it opens

ASSUME AnyClientAssumption ==
    /\ Starts \subseteq {"service", "loop"}
    /\ \A t \in Requests : t[1] = "exec" => t[2] \in DOMAIN Output
    /\ Pieces \subseteq Seq({"sftp", "head", "tail", "text"}) \ {<<>>}
    /\ \A start \in Starts : MaxSent[start] \in Nat
    /\ FirstId \in Nat /\ MaxChannels \in Nat /\ Strays \subseteq Nat

VARIABLES left,       \* packets the client may still send
          tried,      \* it has sent an authentication request with a valid credential
          peer,       \* server's number of each channel confirmed so far
          opened,     \* channels opened
          strayed,    \* it has used a channel number that is not its
          awaiting,   \* channels of the requests not yet answered, in order
          half,       \* channels on which the head of an SFTP packet was sent
          sftp        \* channels of the SFTP packets not yet answered, in order

anyVars == <<left, tried, peer, opened, strayed, awaiting, half, sftp>>
vars    == <<transport, channels, anyVars>>

C == "client"

Agreed == ExchangeHash(Own(C), Own(S), DiffieHellman(Own(C).pub, Own(S).pub))

\* After three packets each way both sides have switched their keys on.
AfterKex == [NewSessionKeys EXCEPT !.send_seq = 3 % SeqMod, !.recv_seq = 3 % SeqMod]

Valid(t) == Authenticates(SshPacket("UserAuthRequest", t, <<>>))

Init ==
    /\ \E start \in Starts :
          /\ pc = [p \in Peer |-> IF p = S THEN start ELSE "open"]
          /\ left = MaxSent[start]
          /\ tried = (start = "loop")
    /\ out = [p \in Peer |-> <<>>]
    /\ res = [p \in Peer |-> "running"]
    /\ keys = [p \in Peer |->
                  IF p = S THEN WithKeys(AfterKex, ServerToClient(Agreed), ClientToServer(Agreed))
                           ELSE WithKeys(AfterKex, ClientToServer(Agreed), ServerToClient(Agreed))]
    /\ kex = [p \in Peer |-> Own(Other(p))]
    /\ inbox = [p \in Peer |-> <<>>]
    /\ reset = FALSE
    /\ noise = 0
    /\ ServerInit
    /\ opened = 0 /\ strayed = FALSE
    /\ peer = [id \in {} |-> 0]
    /\ awaiting = <<>> /\ half = {} /\ sftp = <<>>

-----------------------------------------------------------------------------
(* What the client sends. *)

Says(m) ==
    /\ pc[C] = "open"
    /\ out[C] = <<>>
    /\ left > 0
    /\ out' = [out EXCEPT ![C] = <<m>>]
    /\ left' = left - 1
    /\ UNCHANGED <<pc, res, keys, kex, inbox, reset, noise, channels>>

\* Packets that concern no channel, one that cannot be parsed among them.
SayPlain ==
    /\ \E m \in {SshPacket("ServiceRequest", <<"ssh-userauth">>, <<>>),
                 SshPacket("Ignore", <<>>, <<>>),
                 SshPacket("Disconnect", <<>>, <<>>),
                 SshPacket("ChannelOpen", <<"short">>, <<0, 0>>)} : Says(m)
    /\ UNCHANGED <<tried, peer, opened, strayed, awaiting, half, sftp>>

SayAuth ==
    /\ \E t \in AuthRequests :
          /\ Says(SshPacket("UserAuthRequest", t, <<>>))
          /\ tried' = (tried \/ Valid(t))
    /\ UNCHANGED <<peer, opened, strayed, awaiting, half, sftp>>

SayOpen ==
    /\ opened < MaxChannels
    /\ Says(SshPacket("ChannelOpen", <<"session">>, <<FirstId + opened, 10>>))
    /\ opened' = opened + 1
    /\ UNCHANGED <<tried, peer, strayed, awaiting, half, sftp>>

\* A message on a confirmed channel names it by the server's number.
Channels == {[mine |-> id, theirs |-> peer[id]] : id \in DOMAIN peer}
            \cup {[mine |-> n, theirs |-> n] : n \in Strays}

Uses(ch) == strayed' = (strayed \/ ch.mine \in Strays)

SayRequest ==
    /\ \E ch \in Channels, t \in Requests, want \in BOOLEAN :
          /\ Says([SshPacket("ChannelRequest", t, <<ch.theirs>>) EXCEPT !.want = want])
          /\ awaiting' = IF want THEN Append(awaiting, ch.mine) ELSE awaiting
          /\ Uses(ch)
    /\ UNCHANGED <<tried, peer, opened, half, sftp>>

\* Some pieces of SFTP packets; a tail completes the packet a head has begun.
SayData ==
    /\ \E ch \in Channels, t \in Pieces :
          /\ t[1] = "tail" => ch.mine \in half
          /\ Says(SshPacket("ChannelData", t, <<ch.theirs, 9>>))
          /\ half' = IF t[Len(t)] = "head" THEN half \cup {ch.mine}
                     ELSE half \ {ch.mine}
          /\ sftp' = sftp \o Seqs!FlattenSeq([i \in DOMAIN t |->
                        IF t[i] \in {"sftp", "tail"} THEN <<ch.mine>> ELSE <<>>])
          /\ Uses(ch)
    /\ UNCHANGED <<tried, peer, opened, awaiting>>

SayOnChannel ==
    /\ \E ch \in Channels :
          /\ Uses(ch)
          /\ \/ \E type \in {"ChannelEof", "ChannelClose"} :
                   Says(SshPacket(type, <<>>, <<ch.theirs>>))
             \/ Says(SshPacket("ChannelWindowAdjust", <<>>, <<ch.theirs, 5>>))
    /\ UNCHANGED <<tried, peer, opened, awaiting, half, sftp>>

-----------------------------------------------------------------------------
(* What it makes of the answers. *)

Answers == {"ChannelSuccess", "ChannelFailure"}

IsAnswer(m)   == m.type \in Answers
IsResponse(m) == m.type = "ChannelData" /\ m.text = <<"response">>

Hear ==
    /\ Recv(C)
    /\ LET m == Msg(C)
       IN  /\ peer' = IF m.type # "ChannelOpenConfirmation" THEN peer
                      ELSE [id \in DOMAIN peer \cup {m.num[1]} |->
                               IF id = m.num[1] THEN m.num[2] ELSE peer[id]]
           /\ awaiting' = IF IsAnswer(m) /\ awaiting # <<>> THEN Tail(awaiting) ELSE awaiting
           /\ sftp' = IF IsResponse(m) /\ sftp # <<>> THEN Tail(sftp) ELSE sftp
    /\ CountReceived(C)
    /\ Handled(C, "open", <<>>)
    /\ UNCHANGED <<channels, left, tried, opened, strayed, half>>

ClientIo ==
    /\ Write(C) \/ RecvFails(C, {})
    /\ UNCHANGED <<channels, anyVars>>

ServerStep == ServerNext /\ UNCHANGED anyVars

ClientStep == SayPlain \/ SayAuth \/ SayOpen \/ SayRequest \/ SayData \/ SayOnChannel \/ Hear \/ ClientIo

Next == ServerStep \/ ClientStep

Spec == Init /\ [][Next]_vars

-----------------------------------------------------------------------------
(* Properties. *)

\* No order of packets gets a client to a channel before it has presented a
\* password or a key that is in the UserDatabase.
LoginFirst ==
    pc[S] = "loop" \/ DOMAIN channels.channels # {} => tried

\* The channels of the packets on their way to the client that Is holds of.
Underway(Is(_)) ==
    LET packets == [i \in DOMAIN inbox[C] |-> inbox[C][i].msg] \o out[S]
    IN  Seqs!FlattenSeq([i \in DOMAIN packets |->
                            IF Is(packets[i]) THEN <<packets[i].num[1]>> ELSE <<>>])

\* The server has read all it was sent and goes on reading.
CaughtUp == pc[S] = "loop" /\ inbox[S] = <<>> /\ out[C] = <<>>

\* What is on its way answers what is expected, in order, and once the server
\* has caught up nothing else is expected.
Matches(underway, expected) ==
    /\ Len(underway) <= Len(expected)
    /\ underway = SubSeq(expected, 1, Len(underway))
    /\ CaughtUp => underway = expected

\* Requests that want a reply get exactly one each, for the right channel and in
\* the order of the requests, however many are pipelined; none is forgotten.
RepliesMatch == Matches(Underway(IsAnswer), awaiting)

\* What a client may send for the server to answer all of it (the hypothesis of
\* AnyClient_proofs!SftpPacketsAnswered): a CHANNEL_DATA begins with an SFTP
\* packet or has none, and none goes on in the next.
Whole ==
    \A t \in Pieces : /\ t[1] # "tail"
                      /\ \A i \in DOMAIN t : i # 1 => t[i] \notin {"sftp", "tail"}

\* server.rs:426 "SFTP packets are length-prefixed inside channel data": every
\* SFTP packet is answered, on its channel and in order.
SftpAnswered == Matches(Underway(IsResponse), sftp)

\* server.rs:311 "Find the channel's remote_id": a message on a channel that the
\* server has confirmed is never for an unknown channel.
KnownChannel == res[S] = "Channel" => strayed
=============================================================================
