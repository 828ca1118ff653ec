------------------------------- MODULE Session -------------------------------
(***************************************************************************)
(* One connection: swiftssh-client and swiftssh-server joined by TCP.      *)
(***************************************************************************)
EXTENDS Server, Client

ASSUME SessionAssumption == Commands \subseteq DOMAIN Output

vars == <<transport, channels, clientVars>>

Init ==
    /\ TransportInit
    /\ ServerInit
    /\ ClientInit

ServerStep == ServerNext /\ UNCHANGED clientVars
ClientStep == ClientNext /\ UNCHANGED channels
UserStep   == User /\ UNCHANGED channels

Network ==
    /\ Damage(C) \/ Damage(S) \/ Break
    /\ UNCHANGED <<channels, clientVars>>

\* Both programs have returned.
Finished ==
    /\ \A p \in Peer : pc[p] = "done"
    /\ UNCHANGED vars

Next == ServerStep \/ ClientStep \/ UserStep \/ Network \/ Finished

Spec == Init /\ [][Next]_vars

\* Each program is a task (the client the main task of its process) that the
\* runtime polls whenever its socket is ready; the user ends the input.
FairSpec ==
    /\ Spec
    /\ WF_vars(ServerStep)
    /\ WF_vars(ClientStep)
    /\ WF_vars(StdinEof /\ UNCHANGED channels)

-----------------------------------------------------------------------------
(* Types. *)

ServerAt == DOMAIN ServerExpects \cup {"loop", "done"}
ClientAt == DOMAIN ClientExpects \cup Looping \cup {"activate", "bye", "done"}

TypeOK ==
    /\ TransportTypeOK
    /\ pc \in [Peer -> ServerAt \cup ClientAt]
    /\ pc[S] \in ServerAt /\ pc[C] \in ClientAt
    /\ \A mgr \in {channels, mine} :
          \A id \in DOMAIN mgr.channels : id \in U32 /\ mgr.channels[id] \in Channel
    /\ printed \in Nat
    /\ sawClose \in BOOLEAN
    /\ stdin \in [typed : 0 .. MaxLines, queued : 0 .. MPSC_CAPACITY, open : BOOLEAN]

-----------------------------------------------------------------------------
(* Safety. *)

\* As long as the network damages nothing, whatever arrives is readable: each
\* side switches its ciphers, MAC keys and counters at the same packet of the
\* stream as the other, wherever the two tasks are around NEWKEYS and however
\* far the counters have wrapped.
InSync == noise = 0 => \A p \in Peer : Arrived(p) => Accepts(keys[p], Head(inbox[p]))

\* A server that has accepted a service request shares all keys with the client,
\* and both saw the same versions, KEXINITs, public keys and host key: a
\* handshake damaged on its way never gets as far as authentication, although
\* neither side compares anything.
AgreeBeforeService ==
    pc[S] \in {"auth", "loop"} =>
        /\ kex[C] = Own(S) /\ kex[S] = Own(C)
        /\ keys[C].enc = keys[S].dec /\ keys[C].send_mac_key = keys[S].recv_mac_key
        /\ keys[C].dec = keys[S].enc /\ keys[C].recv_mac_key = keys[S].send_mac_key

\* Neither side goes on to channels unless the password given to the client is
\* the one in the server's UserDatabase; nor does a run of the client end well.
LoginChecked ==
    \/ pc[S] = "loop"
    \/ pc[C] \in {"confirm", "exec", "interactive", "bye"}
    \/ res[C] = "Ok"
    => VerifyPassword(args.login[1], args.login[2])

\* The server's CHANNEL_CLOSE reaches the client behind all of the output.
CloseAfterOutput == sawClose => printed = Output[args.command]

\* client.rs:231 "Read responses until channel closes": a client that ran a
\* command and ends without an error has printed all of its output.
OkMeansComplete == args.mode = "exec" /\ res[C] = "Ok" => printed = Output[args.command]

-----------------------------------------------------------------------------
(* The phases of enum SessionState, read off where each program is. *)

ServerPhase ==
    [version |-> "VersionExchange", kexinit |-> "KeyExchange", ecdh |-> "KeyExchange",
     newkeys |-> "KeyExchange", service |-> "Authenticated", auth |-> "Authenticated",
     loop |-> "Active", done |-> "Disconnected"]

ClientPhase ==
    [version |-> "VersionExchange", kexinit |-> "KeyExchange", reply |-> "KeyExchange",
     newkeys |-> "KeyExchange", activate |-> "Authenticated", accept |-> "Authenticated",
     authreply |-> "Authenticated", confirm |-> "Active", exec |-> "Active",
     interactive |-> "Active", bye |-> "Active", done |-> "Disconnected"]

Phases == INSTANCE Lifecycle
             WITH state <- [p \in Peer |-> IF p = S THEN ServerPhase[pc[S]] ELSE ClientPhase[pc[C]]]

\* The two programs, with damaged packets and a connection that breaks, go
\* through the phases of a session in order and in step with each other; the
\* client in particular is active only once the server has let it in.
ImplementsLifecycle == Phases!Spec

-----------------------------------------------------------------------------
(* Liveness. *)

BothReturn == <>(\A p \in Peer : pc[p] = "done")

\* A session that runs a command, or none, comes to an end on both sides, with
\* the connection broken or not: nobody waits for a packet that the other is
\* not going to send.
Terminates == args.mode # "interactive" => BothReturn

\* server.rs:9 "Data exchange -> channel close -> disconnect": once the user has
\* ended the input an interactive session comes to an end too.
InteractiveTerminates == args.mode = "interactive" => BothReturn
=============================================================================
