------------------------------ MODULE Lifecycle ------------------------------
(***************************************************************************)
(* What a connection promises about its two sides: each goes through the   *)
(* phases of enum SessionState (session/mod.rs) in their order, may be     *)
(* disconnected in any of them, and enters a phase only when the other     *)
(* side has come far enough, or is gone.                                   *)
(***************************************************************************)
EXTENDS Naturals

Party == {"client", "server"}

SessionState == {"VersionExchange", "KeyExchange", "Authenticated", "Active", "Disconnected"}

VARIABLE state            \* the SessionState of each side

Init == state = [p \in Party |-> "VersionExchange"]

\* p goes on to the next phase with the other side in one of the given ones.
Enter(p, from, to, q, others) ==
    /\ state[p] = from
    /\ state[q] \in others \cup {"Disconnected"}
    /\ state' = [state EXCEPT ![p] = to]

\* Version strings cross: neither side waits for more than that.
ClientKeyExchange ==
    Enter("client", "VersionExchange", "KeyExchange", "server", {"VersionExchange", "KeyExchange"})
ServerKeyExchange ==
    Enter("server", "VersionExchange", "KeyExchange", "client", {"VersionExchange", "KeyExchange"})

\* The client has its keys first, the server once the client has them.
ClientKeys == Enter("client", "KeyExchange", "Authenticated", "server", {"KeyExchange"})
ServerKeys == Enter("server", "KeyExchange", "Authenticated", "client", {"Authenticated"})

\* The server lets the client in, and only then the client goes ahead.
ServerActive == Enter("server", "Authenticated", "Active", "client", {"Authenticated"})
ClientActive == Enter("client", "Authenticated", "Active", "server", {"Active"})

Disconnect(p) ==
    /\ state[p] # "Disconnected"
    /\ state' = [state EXCEPT ![p] = "Disconnected"]

Next ==
    \/ ClientKeyExchange \/ ServerKeyExchange \/ ClientKeys \/ ServerKeys
    \/ ServerActive \/ ClientActive \/ \E p \in Party : Disconnect(p)

Spec == Init /\ [][Next]_state
=============================================================================
