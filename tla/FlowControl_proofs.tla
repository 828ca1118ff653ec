-------------------------- MODULE FlowControl_proofs --------------------------
(***************************************************************************)
(* The window operations of connection/mod.rs keep two ends in agreement,  *)
(* for every size of the window and of a u32.                              *)
(***************************************************************************)
EXTENDS FlowControl, TLAPS

Manager == [channels : UNION {[D -> Channel] : D \in SUBSET Ids}, next_id : U32]

StateTyped ==
    /\ mgr \in [End -> Manager]
    /\ wire \in [End -> [Ids -> Nat]]
    /\ credit \in [End -> [Ids -> Nat]]

\* An end that still has the channel has the window for all that is on its way.
Open(e, id) ==
    Known(mgr[e], id) =>
        /\ wire[e][id] <= Chan(e, id).local_window
        /\ Chan(e, id).recv_buffer + Chan(e, id).local_window <= DEFAULT_WINDOW_SIZE

Agree(e, id) ==
    Known(mgr[e], id) /\ Known(mgr[Peer(e)], There(id)) =>
        Chan(e, id).local_window = Chan(Peer(e), There(id)).remote_window
                                   + wire[e][id] + credit[Peer(e)][There(id)]

ChannelInv(e, id) ==
    /\ Open(e, id)
    /\ Agree(e, id)

IInv ==
    /\ StateTyped
    /\ failed \subseteq {"Unknown channel"}
    /\ \A e \in End, id \in Ids : ChannelInv(e, id)

-----------------------------------------------------------------------------
LEMMA Ends ==
    \A e \in End : /\ Peer(e) \in End /\ Peer(e) # e /\ Peer(Peer(e)) = e
                   /\ \A f \in End : f = e \/ f = Peer(e)
  BY DEF End, Peer

LEMMA Numbers ==
    \A id \in Ids : /\ There(id) \in Ids /\ There(id) # id /\ There(There(id)) = id
                    /\ \A i \in Ids : i = id \/ i = There(id)
  BY DEF Ids, There

LEMMA UsedNumbers == \A e \in End : UsedAt(e) \subseteq Ids
  BY FlowControlAssumption, Numbers DEF UsedAt

LEMMA Channels ==
    ASSUME StateTyped, NEW e \in End, NEW id, Known(mgr[e], id)
    PROVE  id \in Ids /\ Chan(e, id) \in Channel
  BY DEF StateTyped, Manager, Known, Chan

\* What a step does that changes one channel.
LEMMA OneChannel ==
    ASSUME StateTyped, NEW e \in End, NEW id, Known(mgr[e], id), NEW c \in Channel,
           mgr' = [mgr EXCEPT ![e] = [mgr[e] EXCEPT !.channels[id] = c]]
    PROVE  /\ mgr' \in [End -> Manager]
           /\ \A f \in End, i \in Ids :
                 /\ Known(mgr'[f], i) <=> Known(mgr[f], i)
                 /\ Known(mgr[f], i) =>
                       Chan(f, i)' = IF f = e /\ i = id THEN c ELSE Chan(f, i)
  <1>1. mgr[e] \in Manager /\ id \in DOMAIN mgr[e].channels
    BY DEF StateTyped, Known
  <1>2. [mgr[e] EXCEPT !.channels[id] = c] \in Manager
    BY <1>1 DEF Manager
  <1>3. mgr' \in [End -> Manager]
    BY <1>2 DEF StateTyped
  <1>4. ASSUME NEW f \in End, NEW i \in Ids
        PROVE  /\ Known(mgr'[f], i) <=> Known(mgr[f], i)
               /\ Known(mgr[f], i) =>
                       Chan(f, i)' = IF f = e /\ i = id THEN c ELSE Chan(f, i)
    BY <1>1 DEF StateTyped, Manager, Known, Chan
  <1> QED
    BY <1>3, <1>4

\* ConfirmChannel changes one channel; local window, buffer and flags stay.
Confirms(c, m, id, r, w) ==
    /\ c.remote_window = w
    /\ c.local_window = m.channels[id].local_window
    /\ c.recv_buffer = m.channels[id].recv_buffer
    /\ c.closed = m.channels[id].closed
    /\ ConfirmChannel(m, id, r, w) = [m EXCEPT !.channels = [m.channels EXCEPT ![id] = c]]

LEMMA Confirmed ==
    ASSUME NEW m \in Manager, NEW id \in DOMAIN m.channels, NEW r \in U32, NEW w \in U32
    PROVE  \E c \in Channel : Confirms(c, m, id, r, w)
  <1> DEFINE c == [m.channels[id] EXCEPT !.remote_id = r, !.remote_window = w]
  <1>1. m.channels[id] \in Channel
    BY DEF Manager
  <1>2. /\ c \in Channel
        /\ c.remote_window = w
        /\ c.local_window = m.channels[id].local_window
        /\ c.recv_buffer = m.channels[id].recv_buffer
        /\ c.closed = m.channels[id].closed
    BY <1>1 DEF Channel
  <1>3. ConfirmChannel(m, id, r, w) = [m EXCEPT !.channels = [m.channels EXCEPT ![id] = c]]
    BY <1>1 DEF ConfirmChannel, Manager
  <1> HIDE DEF c
  <1> QED
    BY <1>2, <1>3 DEF Confirms

LEMMA InitInv == Init => IInv
  <1> SUFFICES ASSUME Init PROVE IInv
    OBVIOUS
  <1> USE ConnectionAssumption
  <1> DEFINE W == DEFAULT_WINDOW_SIZE
             Fresh(c) == /\ c \in Channel
                         /\ c.local_window = W
                         /\ c.remote_window = W
                         /\ c.recv_buffer = 0
                         /\ ~c.closed
  <1>1. /\ 1 % (U32_MAX + 1) = 1 /\ 2 % (U32_MAX + 1) \in U32
        /\ 0 \in U32 /\ 1 \in U32 /\ W \in U32
    BY DEF U32
  <1>2. /\ Opened \in Manager
        /\ DOMAIN Opened.channels = Ids
        /\ \A id \in Ids : Fresh(Opened.channels[id])
    <2> DEFINE m == AcceptChannel(OpenChannel(NewManager), 0, W)
    <2>1. /\ NewChannel(0, 0) \in Channel /\ NewChannel(0, 0).local_window = W
          /\ NewChannel(0, 0).recv_buffer = 0 /\ ~NewChannel(0, 0).closed
          /\ Fresh(NewChannel(0, W))
      BY <1>1 DEF NewChannel, Channel
    <2>2. OpenChannel(NewManager) =
             [channels |-> [id \in {0} |-> NewChannel(0, 0)], next_id |-> 1]
      BY <1>1 DEF OpenChannel, NewManager, InsertNext
    <2>3. m = [channels |-> [id \in Ids |-> IF id = 1 THEN NewChannel(0, W) ELSE NewChannel(0, 0)],
               next_id |-> 2 % (U32_MAX + 1)]
      BY <2>2 DEF AcceptChannel, InsertNext, Ids
    <2>4. /\ m \in Manager
          /\ DOMAIN m.channels = Ids
          /\ m.channels[0] = NewChannel(0, 0) /\ m.channels[1] = NewChannel(0, W)
      BY <1>1, <2>1, <2>3 DEF Manager, Ids
    <2> HIDE DEF m
    <2>5. PICK c \in Channel : Confirms(c, m, 0, 1, W)
      <3>1. 0 \in DOMAIN m.channels
        BY <2>4 DEF Ids
      <3> QED
        BY <1>1, <2>4, <3>1, Confirmed
    <2>6. Opened = [m EXCEPT !.channels = [m.channels EXCEPT ![0] = c]]
      BY <2>5 DEF Opened, Confirms, m
    <2>7. Fresh(c)
      BY <2>1, <2>4, <2>5 DEF Confirms
    <2> HIDE DEF Fresh
    <2>8. Opened \in Manager
      BY <2>4, <2>6 DEF Manager, Ids
    <2>9. DOMAIN Opened.channels = Ids /\ Opened.channels[0] = c
          /\ Opened.channels[1] = NewChannel(0, W)
      BY <2>4, <2>6 DEF Manager, Ids
    <2> QED
      BY <2>1, <2>7, <2>8, <2>9 DEF Ids
  <1> HIDE DEF Fresh
  <1>3. \A e \in End, id \in Ids : Known(mgr[e], id) /\ Fresh(Chan(e, id))
    BY <1>2 DEF Init, Known, Chan
  <1>4. StateTyped
    BY <1>2 DEF StateTyped, Init, None
  <1>5. ASSUME NEW e \in End, NEW id \in Ids
        PROVE  ChannelInv(e, id)
    BY <1>3, Ends, Numbers
       DEF ChannelInv, Open, Agree, Init, None, Fresh, Channel, U32
  <1> QED
    BY <1>4, <1>5 DEF IInv, Init

-----------------------------------------------------------------------------
\* A step on one channel: everything that belongs to the other is as it was.
Untouched(f, i) ==
    /\ Known(mgr'[f], i) <=> Known(mgr[f], i)
    /\ Known(mgr[f], i) => Chan(f, i)' = Chan(f, i)
    /\ wire'[f][i] = wire[f][i]
    /\ credit'[f][i] = credit[f][i]

LEMMA Elsewhere ==
    ASSUME IInv, NEW e \in End, NEW id \in Ids,
           Untouched(e, There(id)), Untouched(Peer(e), id),
           ChannelInv(e, id)', ChannelInv(Peer(e), There(id))'
    PROVE  \A f \in End, i \in Ids : ChannelInv(f, i)'
  <1> DEFINE p == Peer(e)
             j == There(id)
  <1>1. /\ p \in End /\ Peer(p) = e /\ \A f \in End : f = e \/ f = p
        /\ j \in Ids /\ There(j) = id /\ \A i \in Ids : i = id \/ i = j
    BY Ends, Numbers
  <1>2. ChannelInv(e, j) /\ ChannelInv(p, id)
    BY <1>1 DEF IInv
  <1>3. ChannelInv(e, j)'
    BY <1>1, <1>2 DEF Untouched, ChannelInv, Open, Agree
  <1>4. ChannelInv(p, id)'
    BY <1>1, <1>2 DEF Untouched, ChannelInv, Open, Agree
  <1> QED
    BY <1>1, <1>3, <1>4

LEMMA SendDataInv ==
    ASSUME IInv, NEW e \in End, NEW id \in Ids, SendData(e, id)
    PROVE  IInv'
  <1> DEFINE p == Peer(e)
             j == There(id)
  <1>1. /\ p \in End /\ p # e /\ Peer(p) = e
        /\ j \in Ids /\ j # id /\ There(j) = id
    BY Ends, Numbers
  <1>2. PICK n \in Amount :
           /\ Consumable(mgr[e], id, n)
           /\ mgr' = [mgr EXCEPT ![e] = ConsumeRemoteWindow(mgr[e], id, n)]
           /\ wire' = [wire EXCEPT ![p][j] = wire[p][j] + n]
    BY DEF SendData
  <1> DEFINE c == [Chan(e, id) EXCEPT !.remote_window = Chan(e, id).remote_window - n]
  <1>3. Known(mgr[e], id)
    BY <1>2 DEF Consumable
  <1>4. StateTyped /\ Chan(e, id) \in Channel /\ n \in Nat /\ n <= Chan(e, id).remote_window
    <2>1. StateTyped /\ Chan(e, id) \in Channel
      BY <1>3, Channels DEF IInv
    <2> QED
      BY <1>2, <2>1, ConnectionAssumption DEF Consumable, Chan, Amount
  <1>5. /\ c \in Channel
        /\ c.remote_window = Chan(e, id).remote_window - n
        /\ c.local_window = Chan(e, id).local_window
        /\ c.recv_buffer = Chan(e, id).recv_buffer
    BY <1>4, ConnectionAssumption DEF Channel, U32
  <1>6. mgr' = [mgr EXCEPT ![e] = [mgr[e] EXCEPT !.channels[id] = c]]
    BY <1>2, <1>3 DEF ConsumeRemoteWindow, Chan
  <1> HIDE DEF c
  <1>7. /\ mgr' \in [End -> Manager]
        /\ \A f \in End, i \in Ids :
              /\ Known(mgr'[f], i) <=> Known(mgr[f], i)
              /\ Known(mgr[f], i) =>
                    Chan(f, i)' = IF f = e /\ i = id THEN c ELSE Chan(f, i)
    BY <1>3, <1>4, <1>5, <1>6, OneChannel
  <1>8. /\ credit' = credit /\ failed' = failed
        /\ wire' \in [End -> [Ids -> Nat]]
        /\ wire'[p][j] = wire[p][j] + n
        /\ \A f \in End, i \in Ids : (f # p \/ i # j) => wire'[f][i] = wire[f][i]
    BY <1>1, <1>2, <1>4 DEF StateTyped, SendData
  <1>9. StateTyped'
    BY <1>4, <1>7, <1>8 DEF StateTyped
  <1>10. ChannelInv(e, id) /\ ChannelInv(p, j)
    BY <1>1 DEF IInv
  <1>11. ChannelInv(e, id)'
    BY <1>1, <1>3, <1>5, <1>7, <1>8, <1>10
       DEF ChannelInv, Open, Agree
  <1>12. ChannelInv(p, j)'
    <2>1. CASE ~Known(mgr[p], j)
      BY <1>1, <1>7, <2>1 DEF ChannelInv, Open, Agree
    <2>2. ASSUME Known(mgr[p], j)
          PROVE  /\ Chan(p, j) \in Channel /\ Chan(p, j)' = Chan(p, j) /\ Chan(e, id)' = c
                 /\ wire[p][j] \in Nat /\ credit[e][id] \in Nat
      BY <1>1, <1>3, <1>4, <1>7, <2>2, Channels DEF StateTyped
    <2> QED
      BY <1>1, <1>3, <1>4, <1>5, <1>7, <1>8, <1>10, <2>1, <2>2
         DEF ChannelInv, Open, Agree, Channel, U32
  <1>13. Untouched(e, j) /\ Untouched(p, id)
    BY <1>1, <1>7, <1>8 DEF Untouched
  <1> QED
    BY <1>8, <1>9, <1>11, <1>12, <1>13, Elsewhere DEF IInv

\* Data for a channel that was removed is refused, and nothing else changes.
LEMMA RecvUnknownInv ==
    ASSUME IInv, NEW e \in End, NEW id \in Ids, RecvData(e, id), ~Known(mgr[e], id)
    PROVE  IInv'
  <1> DEFINE p == Peer(e)
             j == There(id)
  <1>1. /\ p \in End /\ p # e /\ Peer(p) = e
        /\ j \in Ids /\ j # id /\ There(j) = id
    BY Ends, Numbers
  <1>2. PICK n \in 1 .. wire[e][id] :
           /\ wire' = [wire EXCEPT ![e][id] = wire[e][id] - n]
           /\ failed' = failed \cup {"Unknown channel"}
           /\ UNCHANGED <<mgr, credit>>
    BY DEF RecvData, Receivable
  <1>3. ChannelInv(e, id) /\ ChannelInv(p, j) /\ StateTyped
    BY <1>1 DEF IInv
  <1>4. wire[e][id] \in Nat /\ wire[e][id] - n \in Nat
    BY <1>3 DEF StateTyped
  <1>5. /\ wire' \in [End -> [Ids -> Nat]]
        /\ \A f \in End, i \in Ids : (f # e \/ i # id) => wire'[f][i] = wire[f][i]
    BY <1>2, <1>3, <1>4 DEF StateTyped
  <1>6. StateTyped' /\ failed' \subseteq {"Unknown channel"}
    BY <1>2, <1>3, <1>5 DEF StateTyped, IInv
  <1>7. ChannelInv(e, id)' /\ ChannelInv(p, j)'
    BY <1>1, <1>2, <1>3, <1>5 DEF ChannelInv, Open, Agree, Chan
  <1>8. Untouched(e, j) /\ Untouched(p, id)
    BY <1>1, <1>2, <1>5 DEF Untouched, Chan
  <1> QED
    BY <1>6, <1>7, <1>8, Elsewhere DEF IInv

\* NeverRefused rests on this step: Open leaves receive_data no overflow.
LEMMA RecvDataInv ==
    ASSUME IInv, NEW e \in End, NEW id \in Ids, RecvData(e, id), Known(mgr[e], id)
    PROVE  IInv'
  <1> DEFINE p == Peer(e)
             j == There(id)
  <1>1. /\ p \in End /\ p # e /\ Peer(p) = e
        /\ j \in Ids /\ j # id /\ There(j) = id
    BY Ends, Numbers
  <1>2. PICK n \in 1 .. wire[e][id] :
           /\ wire' = [wire EXCEPT ![e][id] = wire[e][id] - n]
           /\ IF Receivable(mgr[e], id, n)
              THEN mgr' = [mgr EXCEPT ![e] = ReceiveData(mgr[e], id, n)] /\ UNCHANGED failed
              ELSE /\ failed' = failed \cup
                        {IF Known(mgr[e], id) THEN "Window overflow" ELSE "Unknown channel"}
                   /\ UNCHANGED mgr
    BY DEF RecvData
  <1> DEFINE l == Chan(e, id).local_window - n
             b == Chan(e, id).recv_buffer + n
             c == [Chan(e, id) EXCEPT !.local_window = l, !.recv_buffer = b]
  <1>10. ChannelInv(e, id) /\ ChannelInv(p, j) /\ StateTyped
    BY <1>1 DEF IInv
  <1>14. wire[e][id] \in Nat /\ n \in Nat /\ 1 <= n /\ n <= wire[e][id]
    BY <1>10 DEF StateTyped
  <1>3. Known(mgr[e], id)
    OBVIOUS
  <1>4. StateTyped /\ Chan(e, id) \in Channel /\ n <= Chan(e, id).local_window
    BY <1>3, <1>10, <1>14, Channels DEF ChannelInv, Open, Channel, U32
  <1>5. /\ c \in Channel
        /\ c.remote_window = Chan(e, id).remote_window
        /\ c.local_window = l
        /\ c.recv_buffer = b
    <2>1. l \in U32 /\ b \in Nat
      BY <1>4, <1>14, ConnectionAssumption DEF Channel, U32
    <2> HIDE DEF l, b
    <2> QED
      BY <1>4, <2>1 DEF Channel
  <1>15. Receivable(mgr[e], id, n)
    BY <1>3, <1>4 DEF Receivable, Chan
  <1>6. mgr' = [mgr EXCEPT ![e] = [mgr[e] EXCEPT !.channels[id] = c]]
    <2>1. mgr[e] \in Manager /\ id \in DOMAIN mgr[e].channels
      BY <1>3, <1>4 DEF StateTyped, Known
    <2>2. ReceiveData(mgr[e], id, n) = [mgr[e] EXCEPT !.channels[id] = c]
      BY <1>4, <2>1 DEF ReceiveData, Chan, Manager
    <2> QED
      BY <1>2, <1>15, <2>2
  <1> HIDE DEF c
  <1>7. /\ mgr' \in [End -> Manager]
        /\ \A f \in End, i \in Ids :
              /\ Known(mgr'[f], i) <=> Known(mgr[f], i)
              /\ Known(mgr[f], i) =>
                    Chan(f, i)' = IF f = e /\ i = id THEN c ELSE Chan(f, i)
    BY <1>3, <1>4, <1>5, <1>6, OneChannel
  <1>8. /\ credit' = credit /\ failed' = failed
        /\ wire' \in [End -> [Ids -> Nat]]
        /\ wire'[e][id] = wire[e][id] - n
        /\ \A f \in End, i \in Ids : (f # e \/ i # id) => wire'[f][i] = wire[f][i]
    <2>1. credit' = credit /\ failed' = failed
      BY <1>2, <1>15 DEF RecvData
    <2>2. wire[e][id] - n \in Nat
      BY <1>14
    <2> QED
      BY <1>2, <1>4, <2>1, <2>2 DEF StateTyped
  <1>9. StateTyped'
    BY <1>4, <1>7, <1>8 DEF StateTyped
  <1>11. ChannelInv(e, id)'
    <2>1. /\ Chan(e, id)' = c
          /\ Known(mgr[p], j) => Chan(p, j) \in Channel /\ Chan(p, j)' = Chan(p, j)
          /\ credit[p][j] \in Nat
      BY <1>1, <1>3, <1>4, <1>7, Channels DEF StateTyped
    <2> QED
      BY <1>1, <1>3, <1>4, <1>5, <1>7, <1>8, <1>10, <1>14, <2>1
         DEF ChannelInv, Open, Agree, Channel, U32
  <1>12. ChannelInv(p, j)'
    BY <1>1, <1>3, <1>5, <1>7, <1>8, <1>10
       DEF ChannelInv, Open, Agree
  <1>13. Untouched(e, j) /\ Untouched(p, id)
    BY <1>1, <1>7, <1>8 DEF Untouched
  <1> QED
    BY <1>8, <1>9, <1>11, <1>12, <1>13, Elsewhere DEF IInv

\* The window does not saturate: with the buffer it is at most a full window.
LEMMA ReadBufferInv ==
    ASSUME IInv, NEW e \in End, NEW id \in Ids, ReadBuffer(e, id)
    PROVE  IInv'
  <1> DEFINE p == Peer(e)
             j == There(id)
  <1>1. /\ p \in End /\ p # e /\ Peer(p) = e
        /\ j \in Ids /\ j # id /\ There(j) = id
    BY Ends, Numbers
  <1> DEFINE n == Chan(e, id).recv_buffer
             d == [Chan(e, id) EXCEPT !.recv_buffer = 0]
             c == [d EXCEPT !.local_window = Chan(e, id).local_window + n]
  <1>10. ChannelInv(e, id) /\ ChannelInv(p, j) /\ StateTyped
    BY <1>1 DEF IInv
  <1>3. Known(mgr[e], id)
    BY DEF ReadBuffer
  <1>4. /\ StateTyped /\ Chan(e, id) \in Channel /\ n \in Nat
        /\ Chan(e, id).local_window + n <= DEFAULT_WINDOW_SIZE
        /\ Chan(e, id).local_window + n <= U32_MAX
    BY <1>3, <1>10, Channels, ConnectionAssumption DEF ChannelInv, Open, Channel, U32
  <1>5. /\ c \in Channel
        /\ c.remote_window = Chan(e, id).remote_window
        /\ c.local_window = Chan(e, id).local_window + n
        /\ c.recv_buffer = 0
    <2>1. Chan(e, id).local_window + n \in U32
      BY <1>4, ConnectionAssumption DEF Channel, U32
    <2> HIDE DEF n
    <2> QED
      BY <1>4, <2>1 DEF Channel
  <1>6. mgr' = [mgr EXCEPT ![e] = [mgr[e] EXCEPT !.channels[id] = c]]
    <2>1. mgr[e] \in Manager /\ id \in DOMAIN mgr[e].channels
      BY <1>3, <1>4 DEF StateTyped, Known
    <2> DEFINE m == [mgr[e] EXCEPT !.channels[id].recv_buffer = 0]
    <2>2. m = [mgr[e] EXCEPT !.channels = [mgr[e].channels EXCEPT ![id] = d]]
      BY <1>4, <2>1 DEF Manager, Chan
    <2>3. m \in Manager /\ id \in DOMAIN m.channels /\ m.channels[id] = d
      BY <1>4, <2>1, <2>2 DEF Manager, Channel
    <2>4. /\ SaturatingAdd(m.channels[id].local_window, n) = Chan(e, id).local_window + n
          /\ d.local_window = Chan(e, id).local_window
      BY <1>4, <2>3, ConnectionAssumption DEF SaturatingAdd, Channel, U32
    <2>6. AdjustLocalWindow(m, id, n) = [mgr[e] EXCEPT !.channels[id] = c]
      <3> HIDE DEF m, d, n
      <3>1. AdjustLocalWindow(m, id, n) = [m EXCEPT !.channels[id] = c]
        BY <2>3, <2>4 DEF AdjustLocalWindow
      <3> HIDE DEF c
      <3> QED
        BY <2>1, <2>2, <3>1 DEF Manager
    <2>5. mgr' = [mgr EXCEPT ![e] = AdjustLocalWindow(m, id, n)]
      BY DEF ReadBuffer
    <2> QED
      BY <2>5, <2>6
  <1> HIDE DEF c
  <1>7. /\ mgr' \in [End -> Manager]
        /\ \A f \in End, i \in Ids :
              /\ Known(mgr'[f], i) <=> Known(mgr[f], i)
              /\ Known(mgr[f], i) =>
                    Chan(f, i)' = IF f = e /\ i = id THEN c ELSE Chan(f, i)
    BY <1>3, <1>4, <1>5, <1>6, OneChannel
  <1>8. /\ wire' = wire /\ failed' = failed
        /\ credit' \in [End -> [Ids -> Nat]]
        /\ credit'[p][j] = credit[p][j] + n
        /\ \A f \in End, i \in Ids : (f # p \/ i # j) => credit'[f][i] = credit[f][i]
    BY <1>1, <1>4 DEF StateTyped, ReadBuffer
  <1>9. StateTyped'
    BY <1>4, <1>7, <1>8 DEF StateTyped
  <1>11. ChannelInv(e, id)'
    <2>1. /\ Chan(e, id)' = c
          /\ Known(mgr[p], j) => Chan(p, j) \in Channel /\ Chan(p, j)' = Chan(p, j)
          /\ credit[p][j] \in Nat /\ wire[e][id] \in Nat
      BY <1>1, <1>3, <1>4, <1>7, Channels DEF StateTyped
    <2> HIDE DEF n
    <2> QED
      BY <1>1, <1>3, <1>4, <1>5, <1>7, <1>8, <1>10, <2>1
         DEF ChannelInv, Open, Agree, Channel, U32
  <1>12. ChannelInv(p, j)'
    BY <1>1, <1>3, <1>5, <1>7, <1>8, <1>10
       DEF ChannelInv, Open, Agree
  <1>13. Untouched(e, j) /\ Untouched(p, id)
    BY <1>1, <1>7, <1>8 DEF Untouched
  <1> QED
    BY <1>8, <1>9, <1>11, <1>12, <1>13, Elsewhere DEF IInv

LEMMA RecvWindowAdjustInv ==
    ASSUME IInv, NEW e \in End, NEW id \in Ids, RecvWindowAdjust(e, id)
    PROVE  IInv'
  <1> DEFINE p == Peer(e)
             j == There(id)
  <1>1. /\ p \in End /\ p # e /\ Peer(p) = e
        /\ j \in Ids /\ j # id /\ There(j) = id
    BY Ends, Numbers
  <1>2. ChannelInv(e, id) /\ ChannelInv(p, j) /\ StateTyped /\ credit[e][id] \in Nat
    BY <1>1 DEF IInv, StateTyped
  <1>3. /\ wire' = wire /\ failed' = failed
        /\ credit' \in [End -> [Ids -> Nat]]
        /\ credit'[e][id] = 0
        /\ \A f \in End, i \in Ids : (f # e \/ i # id) => credit'[f][i] = credit[f][i]
    BY <1>2 DEF StateTyped, RecvWindowAdjust
  <1>4. CASE ~Known(mgr[e], id)
    <2>1. mgr' = mgr
      BY <1>4 DEF RecvWindowAdjust
    <2>2. StateTyped'
      BY <1>2, <1>3, <2>1 DEF StateTyped
    <2>3. ChannelInv(e, id)' /\ ChannelInv(p, j)'
      BY <1>1, <1>2, <1>3, <1>4, <2>1
         DEF ChannelInv, Open, Agree, Chan
    <2>4. Untouched(e, j) /\ Untouched(p, id)
      BY <1>1, <1>3, <2>1 DEF Untouched, Chan
    <2> QED
      BY <1>3, <2>2, <2>3, <2>4, Elsewhere DEF IInv
  <1>5. CASE Known(mgr[e], id)
    <2> DEFINE r == SaturatingAdd(Chan(e, id).remote_window, credit[e][id])
               c == [Chan(e, id) EXCEPT !.remote_window = r]
    <2>1. Chan(e, id) \in Channel
      BY <1>2, <1>5, Channels
    <2>2. r \in U32
      BY <1>2, <2>1, ConnectionAssumption DEF SaturatingAdd, Channel, U32
    <2>3. mgr' = [mgr EXCEPT ![e] = [mgr[e] EXCEPT !.channels[id] = c]]
      BY <1>5 DEF RecvWindowAdjust, AddRemoteWindow, Chan
    \* What the other end grants it has room for, so that nothing saturates.
    <2>4. Known(mgr[p], j) => r = Chan(e, id).remote_window + credit[e][id]
      <3> SUFFICES ASSUME Known(mgr[p], j)
                   PROVE  r = Chan(e, id).remote_window + credit[e][id]
        OBVIOUS
      <3>1. /\ Chan(p, j) \in Channel /\ wire[p][j] \in Nat
            /\ Chan(p, j).local_window =
                  Chan(e, id).remote_window + wire[p][j] + credit[e][id]
        BY <1>1, <1>2, <1>5, Channels DEF ChannelInv, Agree, StateTyped
      <3> QED
        BY <1>2, <2>1, <3>1, ConnectionAssumption DEF SaturatingAdd, Channel, U32
    <2> HIDE DEF r
    <2>5. /\ c \in Channel
          /\ c.remote_window = r
          /\ c.local_window = Chan(e, id).local_window
          /\ c.recv_buffer = Chan(e, id).recv_buffer
        BY <2>1, <2>2 DEF Channel
    <2> HIDE DEF c
    <2>6. /\ mgr' \in [End -> Manager]
          /\ \A f \in End, i \in Ids :
                /\ Known(mgr'[f], i) <=> Known(mgr[f], i)
                /\ Known(mgr[f], i) =>
                      Chan(f, i)' = IF f = e /\ i = id THEN c ELSE Chan(f, i)
      BY <1>2, <1>5, <2>3, <2>5, OneChannel
    <2>7. StateTyped'
      BY <1>2, <1>3, <2>6 DEF StateTyped
    <2>8. ChannelInv(e, id)'
      BY <1>1, <1>2, <1>3, <1>5, <2>5, <2>6
         DEF ChannelInv, Open, Agree
    <2>9. ChannelInv(p, j)'
      <3>1. /\ Chan(e, id)' = c /\ wire[p][j] \in Nat
            /\ Known(mgr[p], j) => Chan(p, j) \in Channel /\ Chan(p, j)' = Chan(p, j)
        BY <1>1, <1>2, <1>5, <2>6, Channels DEF StateTyped
      <3>2. ASSUME Known(mgr[p], j)
            PROVE  Chan(p, j).local_window = c.remote_window + wire[p][j] + 0
        <4>1. Chan(p, j).local_window = Chan(e, id).remote_window + wire[p][j] + credit[e][id]
          BY <1>1, <1>2, <1>5, <3>2 DEF ChannelInv, Agree
        <4>2. Chan(e, id).remote_window \in Nat
          BY <2>1, ConnectionAssumption DEF Channel, U32
        <4> QED
          BY <1>2, <2>4, <2>5, <3>1, <3>2, <4>1, <4>2
      <3> QED
        BY <1>1, <1>2, <1>3, <1>5, <2>5, <2>6, <3>1, <3>2
           DEF ChannelInv, Open, Agree
    <2>10. Untouched(e, j) /\ Untouched(p, id)
      BY <1>1, <1>3, <2>6 DEF Untouched
    <2> QED
      BY <1>3, <2>7, <2>8, <2>9, <2>10, Elsewhere DEF IInv
  <1> QED
    BY <1>4, <1>5

LEMMA RemoveInv ==
    ASSUME IInv, NEW e \in End, NEW id \in Ids, Remove(e, id)
    PROVE  IInv'
  <1> DEFINE p == Peer(e)
             j == There(id)
             r == RemoveChannel(mgr[e], id)
  <1>1. /\ p \in End /\ p # e /\ Peer(p) = e
        /\ j \in Ids /\ j # id /\ There(j) = id
    BY Ends, Numbers
  <1>2. ChannelInv(e, id) /\ ChannelInv(p, j) /\ StateTyped /\ mgr[e] \in Manager
    BY <1>1 DEF IInv, StateTyped
  <1>3. /\ r \in Manager
        /\ DOMAIN r.channels = DOMAIN mgr[e].channels \ {id}
        /\ \A i \in DOMAIN r.channels : r.channels[i] = mgr[e].channels[i]
    BY <1>2 DEF RemoveChannel, Manager
  <1>4. mgr' = [mgr EXCEPT ![e] = r] /\ UNCHANGED <<wire, credit, failed>>
    BY DEF Remove
  <1> HIDE DEF r
  <1>5. /\ mgr' \in [End -> Manager]
        /\ ~Known(mgr'[e], id)
        /\ \A f \in End, i \in Ids :
              (f # e \/ i # id) => /\ Known(mgr'[f], i) <=> Known(mgr[f], i)
                                   /\ Known(mgr[f], i) => Chan(f, i)' = Chan(f, i)
    BY <1>2, <1>3, <1>4 DEF StateTyped, Known, Chan
  <1>6. StateTyped'
    BY <1>2, <1>4, <1>5 DEF StateTyped
  <1>7. ChannelInv(e, id)' /\ ChannelInv(p, j)'
    BY <1>1, <1>2, <1>4, <1>5 DEF ChannelInv, Open, Agree
  <1>8. Untouched(e, j) /\ Untouched(p, id)
    BY <1>1, <1>4, <1>5 DEF Untouched
  <1> QED
    BY <1>4, <1>6, <1>7, <1>8, Elsewhere DEF IInv

-----------------------------------------------------------------------------
LEMMA NextInv == IInv /\ [Next]_vars => IInv'
  <1> SUFFICES ASSUME IInv, [Next]_vars PROVE IInv'
    OBVIOUS
  <1>1. CASE Next
    <2>1. PICK e \in End, id \in Ids :
             SendData(e, id) \/ Receive(e, id) \/ ReadBuffer(e, id) \/ Remove(e, id)
      BY <1>1, UsedNumbers DEF Next
    <2> QED
      BY <2>1, SendDataInv, RecvDataInv, RecvUnknownInv, ReadBufferInv,
         RecvWindowAdjustInv, RemoveInv DEF Receive
  <1>2. CASE UNCHANGED vars
    BY <1>2 DEF vars, IInv, StateTyped, ChannelInv, Open, Agree, Chan
  <1> QED
    BY <1>1, <1>2

LEMMA Invariance == Spec => []IInv
  BY InitInv, NextInv, PTL DEF Spec

\* Every channel the managers keep is a Channel: no window leaves the range of
\* a u32, whatever is consumed, granted and returned.
THEOREM TypeCorrect == Spec => []TypeOK
  <1>1. ASSUME IInv PROVE TypeOK
    <2>1. \A e \in End : /\ DOMAIN mgr[e].channels \subseteq Ids
                         /\ \A id \in DOMAIN mgr[e].channels : Chan(e, id) \in Channel
      BY <1>1, Channels DEF IInv, Known
    <2> QED
      BY <1>1, <2>1 DEF TypeOK, IInv, StateTyped
  <1> QED
    BY <1>1, Invariance, PTL

\* For every size of the window the two ends' views of it agree: what one may
\* receive is what the other may send plus what is on its way.
THEOREM CreditConserved == Spec => []Conserved
  <1>1. IInv => Conserved
    BY DEF IInv, ChannelInv, Agree, Conserved
  <1> QED
    BY <1>1, Invariance, PTL

\* receive_data never has a window overflow for an end whose peer asks
\* consume_remote_window before it sends, whatever else the two do.
THEOREM NobodyRefused == Spec => []NeverRefused
  <1>1. IInv => NeverRefused
    BY DEF IInv, NeverRefused
  <1> QED
    BY <1>1, Invariance, PTL

\* A receive buffer and the window that is still open never exceed a window.
THEOREM BuffersBounded == Spec => []BufferBounded
  <1>1. ASSUME IInv PROVE BufferBounded
    <2> SUFFICES ASSUME NEW e \in End, NEW id \in DOMAIN mgr[e].channels
                 PROVE  Chan(e, id).recv_buffer + Chan(e, id).local_window <= DEFAULT_WINDOW_SIZE
      BY DEF BufferBounded
    <2>1. Known(mgr[e], id) /\ id \in Ids
      BY <1>1, Channels DEF IInv, Known
    <2> QED
      BY <1>1, <2>1 DEF IInv, ChannelInv, Open
  <1> QED
    BY <1>1, Invariance, PTL
=============================================================================
