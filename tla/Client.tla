------------------------------- MODULE Client -------------------------------
(***************************************************************************)
(* run_client of bin/client.rs.  pc["client"] is the recv_packet it waits  *)
(* in, or "activate" and "bye" where it waits for its own packets to be    *)
(* written.                                                                *)
(***************************************************************************)
EXTENDS Transport, Connection

CONSTANTS Logins,       \* pairs of --user and --password to run with
          Modes,        \* subset of {"exec", "interactive", "none"}
          Commands,     \* what --command may be
          MPSC_CAPACITY,\* lines buffered between stdin and the main loop: 32
          MaxLines      \* bound: lines typed

ASSUME ClientAssumption ==
    /\ Logins \subseteq (Text \X Text)
    /\ Modes \subseteq {"exec", "interactive", "none"}
    /\ Commands \subseteq Text \ {Empty}
    /\ MPSC_CAPACITY \in Nat \ {0}
    /\ MaxLines \in Nat

VARIABLES args,         \* the command line
          mine,         \* the client's ChannelManager
          printed,      \* bytes of channel data printed
          sawClose,     \* the server's CHANNEL_CLOSE has been read
          stdin         \* the stdin task and its mpsc channel

clientVars == <<args, mine, printed, sawClose, stdin>>

C == "client"

NoCommand == Empty      \* --command is given in exec mode only

ClientInit ==
    /\ args \in {a \in [login : Logins, mode : Modes, command : Commands \cup {NoCommand}] :
                    (a.mode = "exec") = (a.command # NoCommand)}
    /\ mine = NewManager
    /\ printed = 0
    /\ sawClose = FALSE
    /\ stdin = [typed |-> 0, queued |-> 0, open |-> TRUE]

ClientExpects ==
    [version |-> "Version", kexinit |-> "KexInit", reply |-> "KexEcdhReply",
     newkeys |-> "NewKeys", accept |-> "ServiceAccept",
     authreply |-> "UserAuthSuccess", confirm |-> "ChannelOpenConfirmation"]

ClientExpected(at) ==
    /\ pc[C] = at
    /\ Recv(C)
    /\ Msg(C).type = ClientExpects[at]

-----------------------------------------------------------------------------
(* Steps 1 and 2: version and key exchange. *)

RecvServerVersion ==
    /\ ClientExpected("version")
    /\ ~Unreadable(Msg(C))
    /\ kex' = [kex EXCEPT ![C].version = Msg(C).text[1]]
    /\ Handled(C, "kexinit", <<>>)
    /\ UNCHANGED <<keys, clientVars>>

RecvServerKexInit ==
    /\ ClientExpected("kexinit")
    /\ kex' = [kex EXCEPT ![C].kexinit = Msg(C).text[1]]
    /\ keys' = [keys EXCEPT ![C] = Counted(C)]
    /\ Handled(C, "reply", <<SshPacket("KexInit", <<Own(C).kexinit>>, <<>>),
                             SshPacket("KexEcdhInit", <<Own(C).pub>>, <<>>)>>)
    /\ UNCHANGED clientVars

RecvEcdhReply ==
    /\ ClientExpected("reply")
    /\ ~Unreadable(Msg(C))
    /\ kex' = [kex EXCEPT ![C].host_key = Msg(C).text[1], ![C].pub = Msg(C).text[2]]
    /\ keys' = [keys EXCEPT ![C] = Counted(C)]
    /\ Handled(C, "newkeys", <<>>)
    /\ UNCHANGED clientVars

\* Faulty: the keys are switched on before the client's own NEWKEYS is written.
RecvServerNewKeysActivates ==
    /\ ClientExpected("newkeys")
    /\ LET h == KexComplete(C, kex[C])
       IN  keys' = [keys EXCEPT ![C] =
                       WithKeys(Counted(C), ClientToServer(h), ServerToClient(h))]
    /\ Handled(C, "activate", <<SshPacket("NewKeys", <<>>, <<>>)>>)
    /\ UNCHANGED <<kex, clientVars>>

RecvServerNewKeys ==
    /\ ClientExpected("newkeys")
    /\ CountReceived(C)
    /\ Handled(C, "activate", <<SshPacket("NewKeys", <<>>, <<>>)>>)
    /\ UNCHANGED clientVars

\* Both directions are switched on once the client's own NEWKEYS is written.
ActivateKeys ==
    /\ pc[C] = "activate"
    /\ out[C] = <<>>
    /\ LET h == KexComplete(C, kex[C])
       IN  keys' = [keys EXCEPT ![C] = WithKeys(@, ClientToServer(h), ServerToClient(h))]
    /\ pc' = [pc EXCEPT ![C] = "accept"]
    /\ out' = [out EXCEPT ![C] = <<SshPacket("ServiceRequest", <<"ssh-userauth">>, <<>>)>>]
    /\ UNCHANGED <<res, kex, inbox, reset, noise, clientVars>>

-----------------------------------------------------------------------------
(* Steps 3 to 5: authentication and the session channel. *)

RecvServiceAccept ==
    /\ ClientExpected("accept")
    /\ CountReceived(C)
    /\ Handled(C, "authreply",
               <<SshPacket("UserAuthRequest",
                           <<args.login[1], "ssh-connection", "password", args.login[2]>>,
                           <<>>)>>)
    /\ UNCHANGED clientVars

\* Faulty: any answer to the authentication request will do.
RecvAuthAnything ==
    /\ pc[C] = "authreply"
    /\ Recv(C)
    /\ CountReceived(C)
    /\ mine' = OpenChannel(mine)
    /\ Handled(C, "confirm",
               <<SshPacket("ChannelOpen", <<"session">>,
                           <<mine.next_id, DEFAULT_WINDOW_SIZE>>)>>)
    /\ UNCHANGED <<args, printed, sawClose, stdin>>

RecvAuthSuccess ==
    /\ ClientExpected("authreply")
    /\ CountReceived(C)
    /\ mine' = OpenChannel(mine)
    /\ Handled(C, "confirm",
               <<SshPacket("ChannelOpen", <<"session">>,
                           <<mine.next_id, DEFAULT_WINDOW_SIZE>>)>>)
    /\ UNCHANGED <<args, printed, sawClose, stdin>>

disconnect == SshPacket("Disconnect", <<"Session ended">>, <<11>>)

\* The packets that follow the confirmation, and where the client waits then.
Start(remoteId) ==
    CASE args.mode = "exec" ->
            <<[SshPacket("ChannelRequest", <<"exec", args.command>>, <<remoteId>>)
                  EXCEPT !.want = TRUE]>>
      [] args.mode = "interactive" ->
            <<[SshPacket("ChannelRequest", <<"shell">>, <<remoteId>>) EXCEPT !.want = TRUE]>>
      [] OTHER -> <<disconnect>>

\* ch_id is the id open_channel returned: 0, the client opens one channel.
RecvConfirmation ==
    /\ ClientExpected("confirm")
    /\ CountReceived(C)
    /\ mine' = ConfirmChannel(mine, 0, Msg(C).num[2], Msg(C).num[3])
    /\ Handled(C, IF args.mode = "none" THEN "bye" ELSE args.mode, Start(Msg(C).num[2]))
    /\ UNCHANGED <<args, printed, sawClose, stdin>>

-----------------------------------------------------------------------------
(* Step 6: reading the server's answers, and the lines typed. *)

Looping == {"exec", "interactive"}

remote_id == mine.channels[0].remote_id

RecvData ==
    /\ pc[C] \in Looping
    /\ Recv(C)
    /\ Msg(C).type = "ChannelData"
    /\ printed' = printed + Msg(C).num[2]
    /\ CountReceived(C)
    /\ Handled(C, pc[C], <<>>)
    /\ UNCHANGED <<args, mine, sawClose, stdin>>

\* CHANNEL_CLOSE is answered, the loop is left and DISCONNECT is sent.
RecvClose ==
    /\ pc[C] \in Looping
    /\ Recv(C)
    /\ Msg(C).type = "ChannelClose"
    /\ sawClose' = TRUE
    /\ CountReceived(C)
    /\ Handled(C, "bye", <<SshPacket("ChannelClose", <<>>, <<remote_id>>), disconnect>>)
    /\ UNCHANGED <<args, mine, printed, stdin>>

\* CHANNEL_SUCCESS, CHANNEL_FAILURE, CHANNEL_EOF and everything else.
RecvNothingToDo ==
    /\ pc[C] \in Looping
    /\ Recv(C)
    /\ Msg(C).type \notin {"ChannelData", "ChannelClose"}
    /\ CountReceived(C)
    /\ Handled(C, pc[C], <<>>)
    /\ UNCHANGED clientVars

\* ConnectionClosed leaves the loop as CHANNEL_CLOSE does.
ServerGone ==
    /\ pc[C] \in Looping
    /\ StreamEnded(C)
    /\ pc' = [pc EXCEPT ![C] = "bye"]
    /\ out' = [out EXCEPT ![C] = <<disconnect>>]
    /\ UNCHANGED <<res, keys, kex, inbox, reset, noise, clientVars>>

Interactive == pc[C] = "interactive"

\* Faulty: the line is queued although the channel is full.
TypeLineUnbounded ==
    /\ Interactive
    /\ stdin.open
    /\ stdin.typed < MaxLines
    /\ stdin' = [stdin EXCEPT !.typed = @ + 1, !.queued = @ + 1]
    /\ UNCHANGED <<transport, args, mine, printed, sawClose>>

\* The stdin task: a line goes into the mpsc channel if there is room.
TypeLine ==
    /\ Interactive
    /\ stdin.open
    /\ stdin.typed < MaxLines
    /\ stdin.queued < MPSC_CAPACITY
    /\ stdin' = [stdin EXCEPT !.typed = @ + 1, !.queued = @ + 1]
    /\ UNCHANGED <<transport, args, mine, printed, sawClose>>

StdinEof ==
    /\ Interactive
    /\ stdin.open
    /\ stdin' = [stdin EXCEPT !.open = FALSE]
    /\ UNCHANGED <<transport, args, mine, printed, sawClose>>

\* The other branch of the select!: a line is sent as channel data.
SendLine ==
    /\ Interactive
    /\ out[C] = <<>>
    /\ stdin.queued > 0
    /\ stdin' = [stdin EXCEPT !.queued = @ - 1]
    /\ out' = [out EXCEPT ![C] = <<SshPacket("ChannelData", <<"line">>, <<remote_id, 1>>)>>]
    /\ UNCHANGED <<pc, res, keys, kex, inbox, reset, noise, args, mine, printed, sawClose>>

-----------------------------------------------------------------------------
(* Returning. *)

ReturnOk ==
    /\ pc[C] = "bye"
    /\ out[C] = <<>>
    /\ Return(C, "Ok", inbox[C])
    /\ UNCHANGED <<keys, kex, clientVars>>

WrongType(m) ==
    CASE pc[C] = "confirm"                                  -> "Channel"
      [] pc[C] = "authreply" /\ m.type = "UserAuthFailure"  -> "AuthFailed"
      [] OTHER                                              -> "Protocol"

ClientRejects ==
    /\ Recv(C)
    /\ pc[C] \in DOMAIN ClientExpects
    /\ LET m     == Msg(C)
           wrong == m.type # ClientExpects[pc[C]]
       IN  \/ wrong /\ Rejected(C, WrongType(m))
           \/ /\ ~wrong
              /\ pc[C] \in {"version", "reply"}
              /\ Unreadable(m)
              /\ \E r \in ParseErrors(C) : Rejected(C, r)
    /\ UNCHANGED clientVars

ClientIo ==
    /\ Write(C) \/ RecvGarbled(C) \/ RecvFails(C, Looping)
    /\ UNCHANGED clientVars

ClientNext ==
    \/ RecvServerVersion \/ RecvServerKexInit \/ RecvEcdhReply \/ RecvServerNewKeys
    \/ ActivateKeys \/ RecvServiceAccept \/ RecvAuthSuccess \/ RecvConfirmation
    \/ RecvData \/ RecvClose \/ RecvNothingToDo \/ ServerGone \/ SendLine
    \/ ReturnOk \/ ClientRejects \/ ClientIo

User == TypeLine \/ StdinEof
=============================================================================
