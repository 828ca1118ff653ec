------------------------------- MODULE Server -------------------------------
(***************************************************************************)
(* handle_connection of bin/server.rs: version exchange, key exchange,     *)
(* service request, authentication and the channel loop, one action per    *)
(* packet it handles.  pc["server"] is the recv_packet it is waiting in.   *)
(***************************************************************************)
EXTENDS Transport, Connection

CONSTANTS Passwords,      \* UserDatabase.passwords: user -> password
          PublicKeys,     \* UserDatabase.public_keys: user -> set of key blobs
          Output,         \* command -> bytes of output it produces
          SftpResponses   \* sizes an encoded SFTP response may have

ASSUME ServerAssumption ==
    /\ \A u \in DOMAIN Passwords : Passwords[u] \in Text
    /\ \A u \in DOMAIN PublicKeys : PublicKeys[u] \subseteq Text
    /\ \A c \in DOMAIN Output : Output[c] \in Nat
    /\ SftpResponses \subseteq Nat

VARIABLE channels         \* the connection's ChannelManager

ServerInit == channels = NewManager

S == "server"

\* The message type each recv_packet of the handshake insists on.
ServerExpects ==
    [version |-> "Version", kexinit |-> "KexInit", ecdh |-> "KexEcdhInit",
     newkeys |-> "NewKeys", service |-> "ServiceRequest", auth |-> "UserAuthRequest"]

\* Channel messages whose payload the loop parses.
Parsed == {"ChannelOpen", "ChannelRequest", "ChannelData", "ChannelWindowAdjust",
           "ChannelEof", "ChannelClose"}

\* The packet arrived is one the server expects here and can read.
Expected(at) ==
    /\ pc[S] = at
    /\ Recv(S)
    /\ Msg(S).type = ServerExpects[at]
    /\ ~Unreadable(Msg(S))

-----------------------------------------------------------------------------
(* Steps 1 and 2: version and key exchange. *)

RecvClientVersion ==
    /\ Expected("version")
    /\ kex' = [kex EXCEPT ![S].version = Msg(S).text[1]]
    /\ Handled(S, "kexinit", <<SshPacket("KexInit", <<Own(S).kexinit>>, <<>>)>>)
    /\ UNCHANGED <<keys, channels>>

RecvClientKexInit ==
    /\ Expected("kexinit")
    /\ kex' = [kex EXCEPT ![S].kexinit = Msg(S).text[1]]
    /\ keys' = [keys EXCEPT ![S] = Counted(S)]
    /\ Handled(S, "ecdh", <<>>)
    /\ UNCHANGED channels

\* The reply carries K_S, f and a signature nobody checks; NEWKEYS follows.
RecvEcdhInit ==
    /\ Expected("ecdh")
    /\ kex' = [kex EXCEPT ![S].pub = Msg(S).text[1]]
    /\ keys' = [keys EXCEPT ![S] = Counted(S)]
    /\ Handled(S, "newkeys",
               <<SshPacket("KexEcdhReply", <<HOST_KEY, Own(S).pub, "signature">>, <<>>),
                 SshPacket("NewKeys", <<>>, <<>>)>>)
    /\ UNCHANGED channels

\* Both directions are switched on when the client's NEWKEYS is in.
RecvClientNewKeys ==
    /\ Expected("newkeys")
    /\ LET h == KexComplete(S, kex[S])
       IN  keys' = [keys EXCEPT ![S] =
                       WithKeys(Counted(S), ServerToClient(h), ClientToServer(h))]
    /\ Handled(S, "service", <<>>)
    /\ UNCHANGED <<kex, channels>>

-----------------------------------------------------------------------------
(* Steps 3 and 4: service request and authentication. *)

RecvServiceRequest ==
    /\ Expected("service")
    /\ CountReceived(S)
    /\ Handled(S, "auth", <<SshPacket("ServiceAccept", Msg(S).text, <<>>)>>)
    /\ UNCHANGED channels

\* USERAUTH_REQUEST: user, service, method, password or key blob.
KnownMethod(m) == m.text[3] \in {"password", "publickey"}

VerifyPassword(user, password) ==
    user \in DOMAIN Passwords /\ Passwords[user] = password

IsKeyAuthorized(user, key) ==
    user \in DOMAIN PublicKeys /\ key \in PublicKeys[user]

Authenticates(m) ==
    IF m.text[3] = "password" THEN VerifyPassword(m.text[1], m.text[4])
                              ELSE IsKeyAuthorized(m.text[1], m.text[4])

\* Faulty: a rejected request leaves the authentication loop as well.
RecvAuthRequestLeaves ==
    /\ Expected("auth")
    /\ CountReceived(S)
    /\ Handled(S, "loop",
               <<SshPacket(IF Authenticates(Msg(S)) THEN "UserAuthSuccess"
                           ELSE "UserAuthFailure", <<>>, <<>>)>>)
    /\ UNCHANGED channels

RecvAuthRequest ==
    /\ Expected("auth")
    /\ LET m == Msg(S)
       IN  IF ~KnownMethod(m)
           THEN Rejected(S, "AuthFailed")
           ELSE /\ CountReceived(S)
                /\ IF Authenticates(m)
                   THEN Handled(S, "loop", <<SshPacket("UserAuthSuccess", <<>>, <<>>)>>)
                   ELSE Handled(S, "auth", <<SshPacket("UserAuthFailure", <<>>, <<>>)>>)
    /\ UNCHANGED channels

-----------------------------------------------------------------------------
(* Step 5: the channel loop. *)

InLoop(type) ==
    /\ pc[S] = "loop"
    /\ Recv(S)
    /\ Msg(S).type = type
    /\ ~Unreadable(Msg(S))

Replies(packets) == CountReceived(S) /\ Handled(S, "loop", packets)

\* The channel a message is for.  The message names it by num[1], which the
\* server looks up among the ids the *client* gave its channels.
Found == FindByRemoteId(channels, Msg(S).num[1])

ToChannel(type, id) == SshPacket(type, <<>>, <<channels.channels[id].remote_id>>)

build_channel_data(recipient, what, len) ==
    SshPacket("ChannelData", <<what>>, <<recipient, len>>)

\* CHANNEL_OPEN: the client's id for the channel, its initial window.
RecvChannelOpen ==
    /\ InLoop("ChannelOpen")
    /\ LET m == Msg(S)
       IN  /\ channels' = AcceptChannel(channels, m.num[1], m.num[2])
           /\ Replies(<<SshPacket("ChannelOpenConfirmation", <<>>,
                                  <<m.num[1], channels.next_id, DEFAULT_WINDOW_SIZE>>)>>)

\* Faulty: the channel is closed before the output is sent.
RecvExecCloseFirst ==
    /\ InLoop("ChannelRequest")
    /\ Msg(S).text[1] = "exec"
    /\ \E id \in Found :
          Replies(<<ToChannel("ChannelClose", id),
                    build_channel_data(channels.channels[id].remote_id, "output",
                                       Output[Msg(S).text[2]])>>)
    /\ UNCHANGED channels

\* Faulty: the channel is left open after the output.
RecvExecNoClose ==
    /\ InLoop("ChannelRequest")
    /\ Msg(S).text[1] = "exec"
    /\ \E id \in Found :
          Replies(<<build_channel_data(channels.channels[id].remote_id, "output",
                                       Output[Msg(S).text[2]]),
                    ToChannel("ChannelEof", id)>>)
    /\ UNCHANGED channels

\* "exec" runs the command, looks the channel up and sends all of the output
\* as one packet.
RecvExec ==
    /\ InLoop("ChannelRequest")
    /\ Msg(S).text[1] = "exec"
    /\ IF Found = {}
       THEN Rejected(S, "Channel")
       ELSE \E id \in Found :
               Replies((IF Msg(S).want THEN <<ToChannel("ChannelSuccess", id)>> ELSE <<>>)
                       \o <<build_channel_data(channels.channels[id].remote_id, "output",
                                               Output[Msg(S).text[2]]),
                            ToChannel("ChannelEof", id),
                            ToChannel("ChannelClose", id)>>)
    /\ UNCHANGED channels

\* The other requests only answer, and only when asked to.
RequestGranted(m) ==
    \/ m.text[1] \in {"shell", "pty-req"}
    \/ m.text[1] = "subsystem" /\ m.text[2] = "sftp"

\* Faulty: an answer is sent whether or not the client wants one.
RecvRequestAlwaysAnswers ==
    /\ InLoop("ChannelRequest")
    /\ Msg(S).text[1] # "exec"
    /\ \E id \in Found : Replies(<<ToChannel("ChannelSuccess", id)>>)
    /\ UNCHANGED channels

RecvRequest ==
    /\ InLoop("ChannelRequest")
    /\ Msg(S).text[1] # "exec"
    /\ LET answer == IF RequestGranted(Msg(S)) THEN "ChannelSuccess" ELSE "ChannelFailure"
       IN  IF ~Msg(S).want THEN Replies(<<>>)
           ELSE IF Found = {} THEN Rejected(S, "Channel")
           ELSE \E id \in Found : Replies(<<ToChannel(answer, id)>>)
    /\ UNCHANGED channels

\* Faulty: a packet that fills the CHANNEL_DATA to the last byte does not fit.
TakenForRequestBelow(m) == {Head(m.text) = "sftp" /\ Len(m.text) > 1}

\* What the server makes of the bytes in a CHANNEL_DATA, of which m.text names
\* the pieces: a whole SFTP packet ("sftp") in front is a request; the "head" of
\* one is too short for its length prefix; the "tail" of one begins with bytes
\* that may or may not look like a prefix; and typed text does not.
TakenForRequest(m) ==
    CASE Head(m.text) = "sftp" -> {TRUE}
      [] Head(m.text) = "tail" -> BOOLEAN
      [] OTHER                 -> {FALSE}

\* A request is answered; whatever else the packet carries is dropped.
RecvChannelData ==
    /\ InLoop("ChannelData")
    /\ \E request \in TakenForRequest(Msg(S)) :
          IF ~request THEN Replies(<<>>)
          ELSE IF Found = {} THEN Rejected(S, "Channel")
          ELSE \E id \in Found, n \in SftpResponses :
                  Replies(<<build_channel_data(channels.channels[id].remote_id, "response", n)>>)
    /\ UNCHANGED channels

RecvWindowAdjust ==
    /\ InLoop("ChannelWindowAdjust")
    /\ Replies(<<>>)
    /\ IF Found = {} THEN UNCHANGED channels
       ELSE \E id \in Found : channels' = AddRemoteWindow(channels, id, Msg(S).num[2])

RecvChannelEof ==
    /\ InLoop("ChannelEof")
    /\ Replies(<<>>)
    /\ IF Found = {} THEN UNCHANGED channels
       ELSE \E id \in Found : channels' = EofReceived(channels, id)

RecvChannelClose ==
    /\ InLoop("ChannelClose")
    /\ IF Found = {} THEN Replies(<<>>)
       ELSE \E id \in Found :
               Replies(IF channels.channels[id].closed THEN <<>>
                       ELSE <<ToChannel("ChannelClose", id)>>)
    /\ UNCHANGED channels

\* The payload of a DISCONNECT is not looked at.
RecvDisconnect ==
    /\ pc[S] = "loop"
    /\ Recv(S)
    /\ Msg(S).type = "Disconnect"
    /\ Rejected(S, "Ok")
    /\ UNCHANGED channels

\* IGNORE and every message type the loop has no arm for.
RecvOther ==
    /\ pc[S] = "loop"
    /\ Recv(S)
    /\ Msg(S).type \notin Parsed \cup {"Disconnect"}
    /\ Replies(<<>>)
    /\ UNCHANGED channels

-----------------------------------------------------------------------------
(* The ways in which the `?' operator ends the connection. *)

\* A packet that is not the expected one, or that cannot be parsed.
ServerRejects ==
    /\ Recv(S)
    /\ LET m     == Msg(S)
           wrong == pc[S] # "loop" /\ m.type # ServerExpects[pc[S]]
       IN  \/ wrong /\ Rejected(S, "Protocol")
           \/ /\ ~wrong
              /\ pc[S] = "loop" => m.type \in Parsed
              /\ Unreadable(m)
              /\ \E r \in ParseErrors(S) : Rejected(S, r)
    /\ UNCHANGED channels

\* In the loop ConnectionClosed is the normal end.
ClientGone ==
    /\ pc[S] = "loop"
    /\ StreamEnded(S)
    /\ Return(S, "Ok", <<>>)
    /\ UNCHANGED <<keys, kex, channels>>

ServerIo ==
    /\ Write(S) \/ RecvGarbled(S) \/ RecvFails(S, {"loop"})
    /\ UNCHANGED channels

ServerNext ==
    \/ RecvClientVersion \/ RecvClientKexInit \/ RecvEcdhInit \/ RecvClientNewKeys
    \/ RecvServiceRequest \/ RecvAuthRequest
    \/ RecvChannelOpen \/ RecvExec \/ RecvRequest \/ RecvChannelData
    \/ RecvWindowAdjust \/ RecvChannelEof \/ RecvChannelClose
    \/ RecvDisconnect \/ RecvOther
    \/ ServerRejects \/ ClientGone \/ ServerIo
=============================================================================
