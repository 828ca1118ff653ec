----------------------------- MODULE FlowControl -----------------------------
(***************************************************************************)
(* The window operations of ChannelManager (connection/mod.rs) against     *)
(* each other: two ends call them in any order, as the type's interface    *)
(* allows.  The two programs call few of them (neither reads recv_buffer   *)
(* or sends a WINDOW_ADJUST), so this is about the library and says        *)
(* nothing of what the programs eventually do.  Each end has opened a      *)
(* channel while the other did the same, so that a channel has different   *)
(* numbers at its two ends.                                                *)
(*                                                                         *)
(* Data on its way is a number of bytes: wherever the packets begin and    *)
(* end, the receiver may see any part of it as one packet.                 *)
(***************************************************************************)
EXTENDS Connection

End == {"a", "b"}
Peer(e) == IF e = "a" THEN "b" ELSE "a"

Ids == {0, 1}
There(id) == 1 - id       \* a channel's number at the other end

CONSTANT Used             \* the channels used, by their numbers at end "a"

ASSUME FlowControlAssumption == Used \subseteq Ids

UsedAt(e) == IF e = "a" THEN Used ELSE {There(id) : id \in Used}

VARIABLES mgr,            \* end -> its ChannelManager
          wire,           \* end -> id -> bytes of data on their way to it
          credit,         \* end -> id -> WINDOW_ADJUSTs on their way to it
          failed          \* the errors the managers returned

vars == <<mgr, wire, credit, failed>>

\* open_channel, accept_channel of the other's, and the confirmation.
Opened ==
    ConfirmChannel(AcceptChannel(OpenChannel(NewManager), 0, DEFAULT_WINDOW_SIZE),
                   0, 1, DEFAULT_WINDOW_SIZE)

None == [e \in End |-> [id \in Ids |-> 0]]

Init ==
    /\ mgr = [e \in End |-> Opened]
    /\ wire = None
    /\ credit = None
    /\ failed = {}

Chan(e, id) == mgr[e].channels[id]
Amount == 1 .. DEFAULT_WINDOW_SIZE

-----------------------------------------------------------------------------
\* Data is sent once consume_remote_window has agreed.
SendData(e, id) ==
    /\ \E n \in Amount :
          /\ Consumable(mgr[e], id, n)
          /\ mgr' = [mgr EXCEPT ![e] = ConsumeRemoteWindow(@, id, n)]
          /\ wire' = [wire EXCEPT ![Peer(e)][There(id)] = @ + n]
    /\ UNCHANGED <<credit, failed>>

RecvData(e, id) ==
    /\ \E n \in 1 .. wire[e][id] :
          /\ wire' = [wire EXCEPT ![e][id] = @ - n]
          /\ IF Receivable(mgr[e], id, n)
             THEN mgr' = [mgr EXCEPT ![e] = ReceiveData(@, id, n)] /\ UNCHANGED failed
             ELSE /\ failed' = failed \cup
                        {IF Known(mgr[e], id) THEN "Window overflow" ELSE "Unknown channel"}
                  /\ UNCHANGED mgr
    /\ UNCHANGED credit

\* Buffered data is taken and adjust_local_window makes room for as much again.
ReadBuffer(e, id) ==
    /\ Known(mgr[e], id)
    /\ LET n == Chan(e, id).recv_buffer
       IN  /\ n > 0
           /\ mgr' = [mgr EXCEPT ![e] =
                         AdjustLocalWindow([@ EXCEPT !.channels[id].recv_buffer = 0], id, n)]
           /\ credit' = [credit EXCEPT ![Peer(e)][There(id)] = @ + n]
    /\ UNCHANGED <<wire, failed>>

\* A WINDOW_ADJUST for a channel that is gone is ignored.
RecvWindowAdjust(e, id) ==
    /\ credit[e][id] > 0
    /\ mgr' = IF ~Known(mgr[e], id) THEN mgr
              ELSE [mgr EXCEPT ![e] = AddRemoteWindow(@, id, credit[e][id])]
    /\ credit' = [credit EXCEPT ![e][id] = 0]
    /\ UNCHANGED <<wire, failed>>

\* remove_channel, whatever is on its way.
Remove(e, id) ==
    /\ Known(mgr[e], id)
    /\ mgr' = [mgr EXCEPT ![e] = RemoveChannel(@, id)]
    /\ UNCHANGED <<wire, credit, failed>>

Receive(e, id) == RecvData(e, id) \/ RecvWindowAdjust(e, id)

Next ==
    \E e \in End : \E id \in UsedAt(e) :
       SendData(e, id) \/ Receive(e, id) \/ ReadBuffer(e, id) \/ Remove(e, id)

Spec == Init /\ [][Next]_vars

-----------------------------------------------------------------------------
TypeOK ==
    /\ \A e \in End : /\ DOMAIN mgr[e].channels \subseteq Ids
                      /\ \A id \in DOMAIN mgr[e].channels : Chan(e, id) \in Channel
    /\ wire \in [End -> [Ids -> Nat]]
    /\ credit \in [End -> [Ids -> Nat]]
    /\ failed \subseteq {"Window overflow", "Unknown channel"}

\* What one end may still receive is what the other may still send, plus what
\* is on its way in either direction: the two views of a window never diverge.
Conserved ==
    \A e \in End, id \in Ids :
       Known(mgr[e], id) /\ Known(mgr[Peer(e)], There(id)) =>
          Chan(e, id).local_window = Chan(Peer(e), There(id)).remote_window
                                     + wire[e][id] + credit[Peer(e)][There(id)]

\* An end that asks consume_remote_window first never overruns the other end's
\* window: receive_data has no "Window overflow" for it, however sending,
\* reading and removing interleave.
NeverRefused == "Window overflow" \notin failed

\* receive_data never buffers more than a window.
BufferBounded ==
    \A e \in End : \A id \in DOMAIN mgr[e].channels :
       Chan(e, id).recv_buffer + Chan(e, id).local_window <= DEFAULT_WINDOW_SIZE
=============================================================================
