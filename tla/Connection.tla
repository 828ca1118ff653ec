----------------------------- MODULE Connection -----------------------------
(***************************************************************************)
(* ChannelManager (connection/mod.rs) as operators on a manager record.    *)
(* A manager maps local channel ids to channels.  Of a Channel the model   *)
(* keeps what some operation reads or changes; buffered data is a count of *)
(* bytes, and the maximum packet sizes, which nothing reads, are left out. *)
(***************************************************************************)
EXTENDS Integers, FiniteSets

CONSTANTS DEFAULT_WINDOW_SIZE,    \* 2 MiB in the code
          U32_MAX                 \* 2^32 - 1 in the code; TLC needs less

ASSUME ConnectionAssumption ==
    /\ U32_MAX \in Nat \ {0}
    /\ DEFAULT_WINDOW_SIZE \in 0 .. U32_MAX

U32 == 0 .. U32_MAX

Channel == [remote_id : U32, local_window : U32, remote_window : U32,
            eof_received : BOOLEAN, closed : BOOLEAN, recv_buffer : Nat]

NewChannel(remoteId, remoteWindow) ==
    [remote_id     |-> remoteId,
     local_window  |-> DEFAULT_WINDOW_SIZE,
     remote_window |-> remoteWindow,
     eof_received  |-> FALSE,
     closed        |-> FALSE,
     recv_buffer   |-> 0]

NewManager == [channels |-> [id \in {} |-> 0], next_id |-> 0]

Known(mgr, id) == id \in DOMAIN mgr.channels

\* HashMap::insert under the id next_id, which then wraps like a u32.
InsertNext(mgr, ch) ==
    [channels |-> [id \in DOMAIN mgr.channels \cup {mgr.next_id} |->
                      IF id = mgr.next_id THEN ch ELSE mgr.channels[id]],
     next_id  |-> (mgr.next_id + 1) % (U32_MAX + 1)]

\* open_channel and accept_channel return next_id as it was before the call.
OpenChannel(mgr) == InsertNext(mgr, NewChannel(0, 0))

\* Faulty: in place of the other side's number, next_id as it is afterwards.
AcceptChannelUnnamed(mgr, remoteId, remoteWindow) ==
    InsertNext(mgr, NewChannel(mgr.next_id + 1, remoteWindow))

AcceptChannel(mgr, remoteId, remoteWindow) ==
    InsertNext(mgr, NewChannel(remoteId, remoteWindow))

ConfirmChannel(mgr, id, remoteId, remoteWindow) ==
    [mgr EXCEPT !.channels[id].remote_id = remoteId,
                !.channels[id].remote_window = remoteWindow]

\* The channels `find' may return: a HashMap is searched in no fixed order.
FindByRemoteId(mgr, remoteId) ==
    {id \in DOMAIN mgr.channels : mgr.channels[id].remote_id = remoteId}

SaturatingAdd(a, b) == IF a + b > U32_MAX THEN U32_MAX ELSE a + b

AddRemoteWindow(mgr, id, amount) ==
    [mgr EXCEPT !.channels[id].remote_window = SaturatingAdd(@, amount)]

\* receive_data is an error unless the channel is known and has the window.
Receivable(mgr, id, amount) == Known(mgr, id) /\ amount <= mgr.channels[id].local_window

\* Faulty: the window is not consumed.
ReceiveDataFree(mgr, id, amount) == [mgr EXCEPT !.channels[id].recv_buffer = @ + amount]

ReceiveData(mgr, id, amount) ==
    [mgr EXCEPT !.channels[id].local_window = @ - amount,
                !.channels[id].recv_buffer = @ + amount]

\* Faulty: one byte too many fits.
ConsumableOneMore(mgr, id, amount) ==
    Known(mgr, id) /\ amount <= mgr.channels[id].remote_window + 1

\* consume_remote_window, likewise.
Consumable(mgr, id, amount) == Known(mgr, id) /\ amount <= mgr.channels[id].remote_window

\* Faulty: the window is checked and not consumed.
ConsumeRemoteWindowNot(mgr, id, amount) == mgr

ConsumeRemoteWindow(mgr, id, amount) ==
    [mgr EXCEPT !.channels[id].remote_window = @ - amount]

\* Faulty: the window grows by one more.
AdjustLocalWindowOneMore(mgr, id, amount) ==
    [mgr EXCEPT !.channels[id].local_window = SaturatingAdd(@, amount + 1)]

AdjustLocalWindow(mgr, id, amount) ==
    [mgr EXCEPT !.channels[id].local_window = SaturatingAdd(@, amount)]

RemoveChannel(mgr, id) ==
    [mgr EXCEPT !.channels = [i \in DOMAIN @ \ {id} |-> @[i]]]

EofReceived(mgr, id) == [mgr EXCEPT !.channels[id].eof_received = TRUE]
=============================================================================
