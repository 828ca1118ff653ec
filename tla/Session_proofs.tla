--------------------------- MODULE Session_proofs ---------------------------
(***************************************************************************)
(* One connection of swiftssh-client and swiftssh-server, for every user   *)
(* database, command line and sequence-number range and any number of      *)
(* damaged packets: types, who is let in, what the two sides agree on, and *)
(* the phases they go through.                                             *)
(***************************************************************************)
EXTENDS Session, Transport_proofs

\* Where the client is once it has read the server's NEWKEYS, once it has
\* switched its keys on, and once it has been let in.
Past     == {"activate", "accept", "authreply", "confirm", "exec", "interactive", "bye"}
Keyed    == Past \ {"activate"}
Admitted == {"confirm", "exec", "interactive", "bye"}

\* The server after the client's NEWKEYS.
ServerKeyed == {"service", "auth", "loop"}

\* A packet of the given type is still to be written by p or to be read by the
\* other side.
OnWay(p, type) ==
    \/ \E m \in Elems(out[p]) : m.type = type
    \/ \E f \in Elems(inbox[Other(p)]) : f.msg.type = type

-----------------------------------------------------------------------------
(* The inductive invariant, in four parts. *)

\* The numbers and commands that a packet carries.
Contents(m) ==
    /\ m.type = "ChannelOpen" => m.num[1] \in U32 /\ m.num[2] \in U32
    /\ m.type = "ChannelOpenConfirmation" => m.num[2] \in U32 /\ m.num[3] \in U32

Runnable(m) == m.type = "ChannelRequest" /\ m.text[1] = "exec" => m.text[2] \in DOMAIN Output

ArgsOK ==
    /\ args.login \in Text \X Text
    /\ args.mode \in {"exec", "interactive", "none"}
    /\ args.command \in Text
    /\ args.mode = "exec" => args.command \in DOMAIN Output

Manager == [channels : UNION {[D -> Channel] : D \in SUBSET U32}, next_id : U32]

TypeInv ==
    /\ TypeOK
    /\ ArgsOK
    /\ \A p \in Peer : /\ \A m \in Elems(out[p]) : Contents(m)
                       /\ \A f \in Elems(inbox[p]) : Contents(f.msg)
    /\ \A m \in Elems(out[C]) : Runnable(m)
    /\ \A f \in Elems(inbox[S]) : Runnable(f.msg)
    /\ channels \in Manager /\ mine \in Manager
    /\ pc[C] \in {"version", "kexinit", "reply", "newkeys", "activate", "accept", "authreply"}
          => mine.next_id = 0
    /\ pc[C] \in {"confirm", "exec", "interactive"} => 0 \in DOMAIN mine.channels

\* How far one side is tells how far the other must be, or that it is gone.
InStep ==
    /\ OnWay(C, "NewKeys") \/ pc[S] \in ServerKeyed => pc[C] \in Past \cup {"done"}
    /\ OnWay(S, "NewKeys") \/ pc[C] \in Past => pc[S] \in {"newkeys", "done"} \cup ServerKeyed
    /\ OnWay(S, "UserAuthSuccess") \/ pc[C] \in Admitted => pc[S] \in {"loop", "done"}

\* The keys of a side come from the key exchange as it saw it, once they are on.
Plain(k) == k.enc = NoKey /\ k.dec = NoKey /\ k.send_mac_key = NoKey /\ k.recv_mac_key = NoKey

ClientDerived ==
    LET h == KexComplete(C, kex[C])
    IN  /\ keys[C].enc = ClientToServer(h).cipher /\ keys[C].send_mac_key = ClientToServer(h).mac
        /\ keys[C].dec = ServerToClient(h).cipher /\ keys[C].recv_mac_key = ServerToClient(h).mac

ServerDerived ==
    LET h == KexComplete(S, kex[S])
    IN  /\ keys[S].enc = ServerToClient(h).cipher /\ keys[S].send_mac_key = ServerToClient(h).mac
        /\ keys[S].dec = ClientToServer(h).cipher /\ keys[S].recv_mac_key = ClientToServer(h).mac

KeyInv ==
    /\ pc[C] \notin Keyed \cup {"done"} => Plain(keys[C])
    /\ pc[C] \in Keyed => ClientDerived
    /\ pc[C] = "done" => Plain(keys[C]) \/ ClientDerived
    /\ pc[S] \notin ServerKeyed \cup {"done"} => Plain(keys[S])
    /\ pc[S] \in ServerKeyed => ServerDerived
    /\ kex[S].host_key = Empty
    /\ \A f \in Elems(inbox[S]) : f.cipher \in {NoKey, keys[C].enc}
    /\ \A f \in Elems(inbox[S]) : f.msg.type = "ChannelRequest" => f.cipher # NoKey
    /\ \A m \in Elems(out[C]) : m.type = "ChannelRequest" => pc[C] \in Keyed
    /\ AgreeBeforeService

\* What the client presents, and what an answer to it means.
Credentials == <<args.login[1], "ssh-connection", "password", args.login[2]>>
Verified    == VerifyPassword(args.login[1], args.login[2])

LoginInv ==
    /\ \A m \in Elems(out[C]) : m.type = "UserAuthRequest" => m.text = Credentials
    /\ \A f \in Elems(inbox[S]) :
          f.msg.type = "UserAuthRequest" /\ f.cipher # NoKey /\ f.mac # BadMac
             => f.msg.text = Credentials
    /\ OnWay(S, "UserAuthSuccess") => Verified
    /\ LoginChecked

IInv == TypeInv /\ InStep /\ KeyInv /\ LoginInv

-----------------------------------------------------------------------------
LEMMA Parties ==
    /\ C \in Peer /\ S \in Peer /\ C # S /\ Other(C) = S /\ Other(S) = C
    /\ \A p \in Peer : p = C \/ p = S
  BY DEF C, S, Peer, Other

LEMMA Places ==
    /\ ServerAt = {"version", "kexinit", "ecdh", "newkeys", "service", "auth", "loop", "done"}
    /\ ClientAt = {"version", "kexinit", "reply", "newkeys", "activate", "accept", "authreply",
                   "confirm", "exec", "interactive", "bye", "done"}
  BY DEF ServerAt, ClientAt, ServerExpects, ClientExpects, Looping

LEMMA NothingElse == Elems(<<>>) = {}
  BY ElemsShort

\* Nothing new is on its way.
Shrinks ==
    \A q \in Peer : /\ Elems(out'[q]) \subseteq Elems(out[q])
                    /\ Elems(inbox'[q]) \subseteq Elems(inbox[q])

LEMMA ShrinksOnWay ==
    ASSUME Shrinks, NEW type
    PROVE  /\ OnWay(C, type)' => OnWay(C, type)
           /\ OnWay(S, type)' => OnWay(S, type)
  BY Parties DEF Shrinks, OnWay

LEMMA KeysKept ==
    ASSUME kex' = kex, \A q \in Peer : SameKeys(keys'[q], keys[q])
    PROVE  /\ Plain(keys[C])' <=> Plain(keys[C])
           /\ Plain(keys[S])' <=> Plain(keys[S])
           /\ ClientDerived' <=> ClientDerived
           /\ ServerDerived' <=> ServerDerived
           /\ keys'[C].enc = keys[C].enc
           /\ kex'[S].host_key = kex[S].host_key
           /\ pc'[S] \in {pc[S], "done"} => (AgreeBeforeService => AgreeBeforeService')
  <1>1. SameKeys(keys'[C], keys[C]) /\ SameKeys(keys'[S], keys[S])
    BY Parties
  <1>2. /\ Plain(keys[C])' <=> Plain(keys[C])
        /\ Plain(keys[S])' <=> Plain(keys[S])
    BY <1>1 DEF SameKeys, Plain
  <1>3. ClientDerived' <=> ClientDerived
    BY <1>1 DEF SameKeys, ClientDerived
  <1>4. ServerDerived' <=> ServerDerived
    BY <1>1 DEF SameKeys, ServerDerived
  <1>5. pc'[S] \in {pc[S], "done"} => (AgreeBeforeService => AgreeBeforeService')
    BY <1>1 DEF SameKeys, AgreeBeforeService
  <1> QED
    BY <1>1, <1>2, <1>3, <1>4, <1>5 DEF SameKeys

\* One of the programs returns; a client that returns Ok had been let in.
LEMMA GoneInv ==
    ASSUME IInv, NEW p \in Peer, NEW result \in Results, Gone(p, result),
           UNCHANGED <<channels, clientVars>>,
           p = C /\ result = "Ok" => pc[C] = "bye"
    PROVE  IInv'
  <1>1. /\ TransportTypeOK /\ TypeOK /\ TransportTypeOK'
        /\ pc \in [Peer -> ServerAt \cup ClientAt] /\ pc' = [pc EXCEPT ![p] = "done"]
        /\ res \in [Peer -> Results] /\ res' = [res EXCEPT ![p] = result]
        /\ out \in [Peer -> Seq(Packet)] /\ out' = [out EXCEPT ![p] = <<>>]
    BY GoneTyped DEF IInv, TypeInv, TypeOK, Gone, TransportTypeOK
  <1>2. Shrinks
    <2>1. /\ Elems(out'[p]) = {} /\ out'[Other(p)] = out[Other(p)]
          /\ Elems(inbox'[p]) = {} /\ Elems(inbox'[Other(p)]) \subseteq Elems(inbox[Other(p)])
      BY <1>1, NothingElse, Peers DEF Gone
    <2> QED
      BY <2>1, Peers DEF Shrinks
  <1>3. /\ kex' = kex /\ \A q \in Peer : SameKeys(keys'[q], keys[q])
        /\ channels' = channels /\ args' = args /\ mine' = mine /\ printed' = printed
        /\ sawClose' = sawClose /\ stdin' = stdin
    BY DEF Gone, clientVars
  <1>4. TypeInv'
    <2>1. TypeOK'
      BY <1>1, <1>3, Parties, Places DEF TypeOK
    <2>2. ArgsOK'
      BY <1>3 DEF IInv, TypeInv, ArgsOK
    <2>3. \A q \in Peer : /\ \A m \in Elems(out'[q]) : Contents(m)
                          /\ \A f \in Elems(inbox'[q]) : Contents(f.msg)
      BY <1>2 DEF IInv, TypeInv, Shrinks
    <2>4. /\ \A m \in Elems(out'[C]) : Runnable(m)
          /\ \A f \in Elems(inbox'[S]) : Runnable(f.msg)
      BY <1>2, Parties DEF IInv, TypeInv, Shrinks
    <2> QED
      BY <1>1, <1>3, <2>1, <2>2, <2>3, <2>4, Parties DEF IInv, TypeInv, Contents, Runnable
  <1>5. InStep'
    BY <1>1, <1>2, Parties, ShrinksOnWay DEF IInv, InStep, Past, Admitted, ServerKeyed
  <1>6. KeyInv'
    BY <1>1, <1>2, <1>3, Parties, KeysKept, NothingElse
       DEF IInv, KeyInv, Shrinks, Past, Keyed, ServerKeyed
  <1>7. LoginInv'
    BY <1>1, <1>2, <1>3, Parties, ShrinksOnWay
       DEF IInv, LoginInv, LoginChecked, Verified, Credentials, Shrinks, Admitted
  <1> QED
    BY <1>4, <1>5, <1>6, <1>7 DEF IInv

LEMMA DerivedOn ==
    ASSUME TransportTypeOK
    PROVE  /\ ClientDerived => keys[C].enc # NoKey
           /\ ServerDerived => keys[S].dec # NoKey /\ keys[S].recv_mac_key # NoKey
  <1>1. KexComplete(C, kex[C]) \in Hash /\ KexComplete(S, kex[S]) \in Hash
    BY HashTyped, Parties DEF TransportTypeOK
  <1> QED
    BY <1>1, KeyTypes DEF ClientDerived, ServerDerived

\* A packet goes from a program's queue to the network.
LEMMA SentInv ==
    ASSUME IInv, NEW p \in Peer, Send(p), UNCHANGED <<channels, clientVars>>
    PROVE  IInv'
  <1> DEFINE m == Head(out[p])
             f == Frame(keys[p], m)
             q == Other(p)
  <1>1. TransportTypeOK /\ TypeOK /\ Sent(p) /\ TransportTypeOK'
    BY SendSent DEF IInv, TypeInv, TypeOK
  <1>2. /\ m \in Elems(out[p]) /\ f.msg = m /\ f.cipher = keys[p].enc
        /\ q \in Peer /\ q # p /\ \A r \in Peer : r = p \/ r = q
        /\ Elems(out'[p]) \subseteq Elems(out[p]) /\ out'[q] = out[q]
        /\ inbox'[p] = inbox[p] /\ Elems(inbox'[q]) \subseteq Elems(inbox[q]) \cup {f}
    BY <1>1, Peers DEF Sent, TransportTypeOK
  <1> HIDE DEF m, f, q
  <1>3. /\ pc' = pc /\ res' = res /\ kex' = kex /\ \A r \in Peer : SameKeys(keys'[r], keys[r])
        /\ channels' = channels /\ args' = args /\ mine' = mine /\ printed' = printed
        /\ sawClose' = sawClose /\ stdin' = stdin
    BY <1>1 DEF Sent, clientVars
  <1>4. \A type : /\ OnWay(C, type)' => OnWay(C, type)
                  /\ OnWay(S, type)' => OnWay(S, type)
    <2>1. (p = C /\ q = S) \/ (p = S /\ q = C)
      BY Parties, <1>2 DEF q
    <2> QED
      BY <1>2, <2>1, Parties DEF OnWay
  <1>5. TypeInv'
    <2>1. TypeOK'
      BY <1>1, <1>3 DEF TypeOK
    <2>2. ArgsOK'
      BY <1>3 DEF IInv, TypeInv, ArgsOK
    <2>3. \A r \in Peer : /\ \A x \in Elems(out'[r]) : Contents(x)
                          /\ \A g \in Elems(inbox'[r]) : Contents(g.msg)
      <3>1. Contents(m)
        BY <1>2 DEF IInv, TypeInv
      <3> QED
        BY <1>2, <3>1 DEF IInv, TypeInv
    <2>4. \A x \in Elems(out'[C]) : Runnable(x)
      BY <1>2, Parties DEF IInv, TypeInv
    <2>5. \A g \in Elems(inbox'[S]) : Runnable(g.msg)
      BY <1>2, Parties DEF IInv, TypeInv, q
    <2> QED
      BY <1>3, <2>1, <2>2, <2>3, <2>4, <2>5 DEF IInv, TypeInv, Contents, Runnable
  <1>6. InStep'
    BY <1>3, <1>4 DEF IInv, InStep
  <1>7. /\ p = C => f.cipher = keys[C].enc
        /\ p = C /\ m.type = "ChannelRequest" => f.cipher # NoKey
        /\ p = C => q = S
        /\ p # C => q = C
    BY <1>1, <1>2, DerivedOn, Parties DEF IInv, KeyInv, q
  <1>8. KeyInv'
    <2>1. \A g \in Elems(inbox'[S]) : /\ g.cipher \in {NoKey, keys[C].enc}
                                      /\ g.msg.type = "ChannelRequest" => g.cipher # NoKey
      BY <1>2, <1>7, Parties DEF IInv, KeyInv
    <2>2. \A x \in Elems(out'[C]) : x.type = "ChannelRequest" => pc[C] \in Keyed
      BY <1>2, Parties DEF IInv, KeyInv
    <2> QED
      BY <1>3, <2>1, <2>2, KeysKept DEF IInv, KeyInv
  <1>9. LoginInv'
    <2>1. \A g \in Elems(inbox'[S]) :
             g.msg.type = "UserAuthRequest" /\ g.cipher # NoKey /\ g.mac # BadMac
                => g.msg.text = Credentials
      BY <1>2, <1>7, Parties DEF IInv, LoginInv
    <2>2. \A x \in Elems(out'[C]) : x.type = "UserAuthRequest" => x.text = Credentials
      BY <1>2, Parties DEF IInv, LoginInv
    <2> QED
      BY <1>3, <1>4, <2>1, <2>2 DEF IInv, LoginInv, LoginChecked, Verified, Credentials
  <1> QED
    BY <1>5, <1>6, <1>8, <1>9 DEF IInv

\* A damaged frame is no frame of the same type under the same key: either its
\* MAC shows it, or it was not encrypted.
LEMMA DamageInv ==
    ASSUME IInv, NEW p \in Peer, Damage(p), UNCHANGED <<channels, clientVars>>
    PROVE  IInv'
  <1>1. /\ TransportTypeOK /\ TypeOK /\ TransportTypeOK'
        /\ inbox'[Other(p)] = inbox[Other(p)]
    BY DamageTyped DEF IInv, TypeInv, TypeOK
  <1>2. PICK f \in Elems(inbox[p]), g \in UNION {Damaged(x) : x \in Elems(inbox[p])} :
           g \in Damaged(f) /\ Elems(inbox'[p]) \subseteq Elems(inbox[p]) \cup {g}
    BY <1>1, DamageTyped
  <1>3. f \in Frames
    BY <1>1, ElemsTyped DEF TransportTypeOK
  <1>4. /\ g.cipher = f.cipher
        /\ g.msg.type = f.msg.type \/ g.msg.type = "Debug"
        /\ g.msg.num = f.msg.num
        /\ f.cipher # NoKey => g.msg = f.msg /\ g.mac = BadMac
    BY <1>2, <1>3, DamageFacts
  <1>5. /\ pc' = pc /\ out' = out /\ res' = res /\ keys' = keys /\ kex' = kex
        /\ channels' = channels /\ args' = args /\ mine' = mine /\ printed' = printed
        /\ sawClose' = sawClose /\ stdin' = stdin
    BY DEF Damage, clientVars
  <1>6. \A q \in Peer : q # p => inbox'[q] = inbox[q]
    BY <1>1, Peers
  <1>7. \A type \in {"NewKeys", "UserAuthSuccess"} : /\ OnWay(C, type)' => OnWay(C, type)
                                                     /\ OnWay(S, type)' => OnWay(S, type)
    BY <1>2, <1>4, <1>5, <1>6, Parties DEF OnWay
  <1>8. \A q \in Peer : \A h \in Elems(inbox'[q]) : h \in Elems(inbox[q]) \/ (q = p /\ h = g)
    BY <1>2, <1>6
  <1>9. p = S => /\ f.cipher \in {NoKey, keys[C].enc}
                 /\ f.msg.type = "ChannelRequest" => f.cipher # NoKey
    BY DEF IInv, KeyInv
  <1>10. TypeInv'
    <2>1. TypeOK'
      BY <1>1, <1>5 DEF TypeOK
    <2>2. ArgsOK'
      BY <1>5 DEF IInv, TypeInv, ArgsOK
    <2>3. Contents(g.msg)
      <3>1. Contents(f.msg)
        BY <1>2 DEF IInv, TypeInv
      <3> QED
        BY <1>4, <3>1 DEF Contents
    <2>4. \A q \in Peer : \A h \in Elems(inbox'[q]) : Contents(h.msg)
      BY <1>8, <2>3 DEF IInv, TypeInv
    <2>5. p = S => Runnable(g.msg)
      BY <1>2, <1>4, <1>9 DEF IInv, TypeInv, Runnable
    <2>6. \A h \in Elems(inbox'[S]) : Runnable(h.msg)
      BY <1>8, <2>5, Parties DEF IInv, TypeInv
    <2> QED
      BY <1>5, <2>1, <2>2, <2>4, <2>6 DEF IInv, TypeInv, Contents, Runnable
  <1>11. InStep'
    BY <1>5, <1>7 DEF IInv, InStep
  <1>12. KeyInv'
    <2>1. \A h \in Elems(inbox'[S]) : /\ h.cipher \in {NoKey, keys[C].enc}
                                      /\ h.msg.type = "ChannelRequest" => h.cipher # NoKey
      BY <1>4, <1>8, <1>9, Parties DEF IInv, KeyInv
    <2> QED
      BY <1>5, <2>1, KeysKept DEF IInv, KeyInv, SameKeys
  <1>13. LoginInv'
    <2>1. \A h \in Elems(inbox'[S]) :
             h.msg.type = "UserAuthRequest" /\ h.cipher # NoKey /\ h.mac # BadMac
                => h.msg.text = Credentials
      BY <1>4, <1>8, Parties DEF IInv, LoginInv
    <2> QED
      BY <1>5, <1>7, <2>1 DEF IInv, LoginInv, LoginChecked, Verified, Credentials
  <1> QED
    BY <1>10, <1>11, <1>12, <1>13 DEF IInv

LEMMA BreakInv ==
    ASSUME IInv, Break, UNCHANGED <<channels, clientVars>>
    PROVE  IInv'
  <1>1. /\ TransportTypeOK /\ TypeOK /\ TransportTypeOK'
        /\ pc' = pc /\ out' = out /\ res' = res /\ keys' = keys /\ kex' = kex
        /\ channels' = channels /\ args' = args /\ mine' = mine /\ printed' = printed
        /\ sawClose' = sawClose /\ stdin' = stdin
    BY BreakTyped DEF IInv, TypeInv, TypeOK, Break, clientVars
  <1>2. Shrinks
    BY <1>1, BreakTyped DEF Shrinks
  <1>3. TypeInv'
    <2>1. TypeOK'
      BY <1>1 DEF TypeOK
    <2>2. ArgsOK'
      BY <1>1 DEF IInv, TypeInv, ArgsOK
    <2>3. \A q \in Peer : \A f \in Elems(inbox'[q]) : Contents(f.msg)
      BY <1>2 DEF IInv, TypeInv, Shrinks
    <2>4. \A f \in Elems(inbox'[S]) : Runnable(f.msg)
      BY <1>2, Parties DEF IInv, TypeInv, Shrinks
    <2> QED
      BY <1>1, <2>1, <2>2, <2>3, <2>4 DEF IInv, TypeInv, Contents, Runnable
  <1>4. InStep'
    BY <1>1, <1>2, ShrinksOnWay DEF IInv, InStep
  <1>5. KeyInv'
    BY <1>1, <1>2, Parties, KeysKept DEF IInv, KeyInv, Shrinks, SameKeys
  <1>6. LoginInv'
    BY <1>1, <1>2, Parties, ShrinksOnWay
       DEF IInv, LoginInv, LoginChecked, Verified, Credentials, Shrinks
  <1> QED
    BY <1>3, <1>4, <1>5, <1>6 DEF IInv

\* Only variables that the invariant says no more than the type of.
LEMMA AsideInv ==
    ASSUME IInv, UNCHANGED <<transport, channels, args, mine>>,
           printed' \in Nat, sawClose' \in BOOLEAN,
           stdin' \in [typed : 0 .. MaxLines, queued : 0 .. MPSC_CAPACITY, open : BOOLEAN]
    PROVE  IInv'
  <1>1. /\ pc' = pc /\ out' = out /\ res' = res /\ keys' = keys /\ kex' = kex
        /\ inbox' = inbox /\ reset' = reset /\ noise' = noise
        /\ channels' = channels /\ args' = args /\ mine' = mine
    BY DEF transport
  <1>2. TypeInv'
    BY <1>1 DEF IInv, TypeInv, TypeOK, TransportTypeOK, ArgsOK, Contents, Runnable
  <1>3. InStep'
    BY <1>1 DEF IInv, InStep, OnWay
  <1>4. KeyInv'
    BY <1>1, KeysKept DEF IInv, KeyInv, SameKeys
  <1>5. LoginInv'
    BY <1>1 DEF IInv, LoginInv, LoginChecked, Verified, Credentials, OnWay
  <1> QED
    BY <1>2, <1>3, <1>4, <1>5 DEF IInv

-----------------------------------------------------------------------------
(* The server handles a packet. *)

\* What such a step does outside its own variables, and to what is on its way.
Moves(p, next, packets) ==
    /\ pc'[p] = next /\ pc'[Other(p)] = pc[Other(p)]
    /\ out'[p] = packets /\ out'[Other(p)] = out[Other(p)]
    /\ Elems(inbox'[p]) \subseteq Elems(inbox[p]) /\ inbox'[Other(p)] = inbox[Other(p)]
    /\ res' = res /\ args' = args
    /\ \A type : OnWay(Other(p), type)' => OnWay(Other(p), type)
    /\ \A type : OnWay(p, type)' =>
          OnWay(p, type) \/ \E m \in Elems(packets) : m.type = type

LEMMA ServerMoves ==
    ASSUME IInv, Recv(S), NEW next \in ServerAt, NEW packets \in Seq(Packet),
           Handled(S, next, packets), \A m \in Elems(packets) : Contents(m),
           keys' \in [Peer -> SessionKeys], kex' \in [Peer -> KexView],
           UNCHANGED clientVars, channels' \in Manager
    PROVE  TypeInv' /\ Moves(S, next, packets)
  <1>1. TransportTypeOK /\ TypeOK /\ TransportTypeOK'
    BY HandledTyped, Parties DEF IInv, TypeInv, TypeOK
  <1>2. /\ pc' = [pc EXCEPT ![S] = next] /\ out' = [out EXCEPT ![S] = packets]
        /\ inbox' = [inbox EXCEPT ![S] = Tail(inbox[S])] /\ res' = res
        /\ args' = args /\ mine' = mine /\ printed' = printed
        /\ sawClose' = sawClose /\ stdin' = stdin
    BY DEF Handled, clientVars
  <1>3. /\ pc'[S] = next /\ pc'[C] = pc[C] /\ pc' \in [Peer -> ServerAt \cup ClientAt]
        /\ out'[S] = packets /\ out'[C] = out[C]
        /\ Elems(inbox'[S]) \subseteq Elems(inbox[S]) /\ inbox'[C] = inbox[C]
    BY <1>1, <1>2, Received, Parties DEF TypeOK, TransportTypeOK
  <1>4. TypeOK'
    <2>1. \A id \in DOMAIN channels'.channels : id \in U32 /\ channels'.channels[id] \in Channel
      BY DEF Manager
    <2> QED
      BY <1>1, <1>2, <1>3, <2>1 DEF TypeOK
  <1>5. ArgsOK'
    BY <1>2 DEF IInv, TypeInv, ArgsOK
  <1>6. \A q \in Peer : /\ \A m \in Elems(out'[q]) : Contents(m)
                        /\ \A f \in Elems(inbox'[q]) : Contents(f.msg)
    BY <1>3, Parties DEF IInv, TypeInv
  <1>7. /\ \A m \in Elems(out'[C]) : Runnable(m)
        /\ \A f \in Elems(inbox'[S]) : Runnable(f.msg)
    BY <1>3 DEF IInv, TypeInv
  <1>8. TypeInv'
    BY <1>2, <1>3, <1>4, <1>5, <1>6, <1>7 DEF IInv, TypeInv, Contents, Runnable
  <1>9. Moves(S, next, packets)
    BY <1>2, <1>3, Parties DEF Moves, OnWay
  <1> QED
    BY <1>8, <1>9

\* The handshake up to the client's NEWKEYS.
LEMMA ServerEarlyInv ==
    ASSUME IInv, TypeInv', NEW next, NEW packets, Moves(S, next, packets),
           pc[S] \in {"version", "kexinit", "ecdh"}, next \in {"kexinit", "ecdh", "newkeys"},
           \A m \in Elems(packets) : /\ m.type # "UserAuthSuccess"
                                     /\ m.type = "NewKeys" => next = "newkeys",
           kex'[C] = kex[C], kex'[S].host_key = kex[S].host_key,
           \A q \in Peer : SameKeys(keys'[q], keys[q])
    PROVE  IInv'
  <1>1. /\ pc'[S] = next /\ pc'[C] = pc[C] /\ out'[C] = out[C]
        /\ Elems(inbox'[S]) \subseteq Elems(inbox[S]) /\ res' = res /\ args' = args
        /\ \A type : OnWay(C, type)' => OnWay(C, type)
        /\ OnWay(S, "UserAuthSuccess")' => OnWay(S, "UserAuthSuccess")
        /\ OnWay(S, "NewKeys")' => OnWay(S, "NewKeys") \/ next = "newkeys"
    BY Parties DEF Moves
  <1>2. InStep'
    BY <1>1 DEF IInv, InStep, Past, Admitted, ServerKeyed
  <1>3. SameKeys(keys'[C], keys[C]) /\ SameKeys(keys'[S], keys[S])
    BY Parties
  <1>4. KeyInv'
    <2>1. /\ Plain(keys[C])' <=> Plain(keys[C])
          /\ Plain(keys[S])' <=> Plain(keys[S])
          /\ ClientDerived' <=> ClientDerived
          /\ keys'[C].enc = keys[C].enc
      BY <1>3 DEF SameKeys, Plain, ClientDerived
    <2> QED
      BY <1>1, <2>1 DEF IInv, KeyInv, ServerKeyed, AgreeBeforeService
  <1>5. LoginInv'
    BY <1>1 DEF IInv, LoginInv, LoginChecked, Verified, Credentials
  <1> QED
    BY <1>2, <1>4, <1>5 DEF IInv

\* The server's NEWKEYS is out and the client's is in: both directions are
\* switched on.
LEMMA ServerKeysInv ==
    ASSUME IInv, RecvClientNewKeys, UNCHANGED clientVars
    PROVE  IInv'
  <1> DEFINE h == KexComplete(S, kex[S])
             l == WithKeys(Counted(S), ServerToClient(h), ClientToServer(h))
  <1>1. /\ TransportTypeOK /\ Recv(S) /\ pc[S] = "newkeys" /\ Msg(S).type = "NewKeys"
        /\ keys' = [keys EXCEPT ![S] = l] /\ kex' = kex /\ channels' = channels
        /\ Handled(S, "service", <<>>)
    BY DEF RecvClientNewKeys, Expected, ServerExpects, IInv, TypeInv, TypeOK
  <1>2. /\ l \in SessionKeys
        /\ l.enc = ServerToClient(h).cipher /\ l.send_mac_key = ServerToClient(h).mac
        /\ l.dec = ClientToServer(h).cipher /\ l.recv_mac_key = ClientToServer(h).mac
    <2>1. h \in Hash /\ Counted(S) \in SessionKeys
      BY <1>1, HashTyped, Parties, Received DEF TransportTypeOK
    <2>2. /\ ServerToClient(h) = [cipher |-> ServerToClient(h).cipher, mac |-> ServerToClient(h).mac]
          /\ ClientToServer(h) = [cipher |-> ClientToServer(h).cipher, mac |-> ClientToServer(h).mac]
      BY DEF ServerToClient, ClientToServer
    <2> HIDE DEF h
    <2> QED
      BY <2>1, <2>2, KeyTypes, SwitchTyped
  <1> HIDE DEF l
  <1>3. /\ keys' \in [Peer -> SessionKeys] /\ keys'[S] = l /\ keys'[C] = keys[C]
        /\ kex' \in [Peer -> KexView] /\ channels' \in Manager
    BY <1>1, <1>2, Parties DEF TransportTypeOK, IInv, TypeInv
  <1>4. TypeInv' /\ Moves(S, "service", <<>>)
    <2>1. <<>> \in Seq(Packet) /\ "service" \in ServerAt /\ \A m \in Elems(<<>>) : Contents(m)
      BY NothingElse, Places
    <2> QED
      BY <1>1, <1>3, <2>1, ServerMoves
  <1>5. /\ pc'[S] = "service" /\ pc'[C] = pc[C] /\ out'[C] = out[C]
        /\ Elems(inbox'[S]) \subseteq Elems(inbox[S]) /\ res' = res /\ args' = args
        /\ \A type : OnWay(C, type)' => OnWay(C, type)
        /\ \A type : OnWay(S, type)' => OnWay(S, type)
    BY <1>4, Parties, NothingElse DEF Moves
  <1>6. OnWay(C, "NewKeys")
    BY <1>1, Received, Parties DEF OnWay, Msg
  <1>7. InStep'
    BY <1>5, <1>6, <1>1 DEF IInv, InStep, ServerKeyed
  <1>8. KeyInv'
    <2>1. ServerDerived' /\ (Plain(keys[C])' <=> Plain(keys[C])) /\ (ClientDerived' <=> ClientDerived)
      BY <1>1, <1>2, <1>3 DEF ServerDerived, Plain, ClientDerived
    <2> QED
      BY <1>1, <1>3, <1>5, <2>1 DEF IInv, KeyInv, ServerKeyed, AgreeBeforeService
  <1>9. LoginInv'
    BY <1>5 DEF IInv, LoginInv, LoginChecked, Verified, Credentials
  <1> QED
    BY <1>4, <1>7, <1>8, <1>9 DEF IInv

\* What AgreeBeforeService says of a server past the service request.
Shared ==
    /\ kex[C] = Own(S) /\ kex[S] = Own(C)
    /\ keys[C].enc = keys[S].dec /\ keys[C].send_mac_key = keys[S].recv_mac_key
    /\ keys[C].dec = keys[S].enc /\ keys[C].recv_mac_key = keys[S].send_mac_key

\* A frame that the server can decrypt is one that the client encrypted, with
\* keys from an exchange hash that is the server's.
LEMMA Agreed ==
    ASSUME IInv, pc[S] = "service", Recv(S)
    PROVE  Shared
  <1> DEFINE g == KexComplete(C, kex[C])
             h == KexComplete(S, kex[S])
  <1>1. /\ TransportTypeOK /\ ServerDerived /\ keys[S].dec # NoKey
        /\ kex[C] \in KexView /\ kex[S] \in KexView /\ kex[S].host_key = Empty
    BY DerivedOn, Parties
       DEF IInv, KeyInv, ServerKeyed, TypeInv, TypeOK, TransportTypeOK
  <1>2. keys[C].enc = keys[S].dec
    BY <1>1, Received, Parties DEF Accepts, IInv, KeyInv
  <1>3. ClientDerived
    <2>1. ~Plain(keys[C])
      BY <1>1, <1>2 DEF Plain
    <2> QED
      BY <2>1 DEF IInv, KeyInv
  <1>4. ClientToServer(g).cipher = ClientToServer(h).cipher
    BY <1>1, <1>2, <1>3 DEF ClientDerived, ServerDerived
  <1>5. g = h
    BY <1>4, KeysFromOneHash
  <1>6. kex[C] = Own(S) /\ kex[S] = Own(C)
    <2>1. KexComplete("client", kex[C]) = KexComplete("server", kex[S])
      BY <1>5 DEF C, S
    <2>2. kex[C] = Own("server") /\ kex[S] = Own("client")
      BY <1>1, <2>1, HashBinds
    <2> QED
      BY <2>2 DEF C, S
  <1> QED
    BY <1>1, <1>3, <1>5, <1>6 DEF Shared, ClientDerived, ServerDerived

\* A handler that counts the packet received and leaves the keys alone.
LEMMA Counting ==
    ASSUME TransportTypeOK, NEW p \in Peer, Recv(p), keys' = [keys EXCEPT ![p] = Counted(p)]
    PROVE  /\ keys' \in [Peer -> SessionKeys]
           /\ \A q \in Peer : SameKeys(keys'[q], keys[q])
  <1>1. Counted(p) \in SessionKeys /\ SameKeys(Counted(p), keys[p])
    BY Received
  <1> QED
    BY <1>1 DEF TransportTypeOK, SameKeys

\* The server from the service request on.
LEMMA ServerKeyedInv ==
    ASSUME IInv, TypeInv', NEW next, NEW packets, Moves(S, next, packets),
           pc[S] \in ServerKeyed, next \in ServerKeyed,
           pc[S] = "loop" => next = "loop",
           next # "service" => Shared,
           next = "loop" => Verified,
           \A m \in Elems(packets) : /\ m.type # "NewKeys"
                                     /\ m.type = "UserAuthSuccess" => next = "loop",
           kex' = kex, \A q \in Peer : SameKeys(keys'[q], keys[q])
    PROVE  IInv'
  <1>1. /\ pc'[S] = next /\ pc'[C] = pc[C] /\ out'[C] = out[C]
        /\ Elems(inbox'[S]) \subseteq Elems(inbox[S]) /\ res' = res /\ args' = args
        /\ \A type : OnWay(C, type)' => OnWay(C, type)
        /\ OnWay(S, "UserAuthSuccess")' => OnWay(S, "UserAuthSuccess") \/ next = "loop"
        /\ OnWay(S, "NewKeys")' => OnWay(S, "NewKeys")
    BY Parties DEF Moves
  <1>2. InStep'
    BY <1>1 DEF IInv, InStep, Past, Admitted, ServerKeyed
  <1>3. KeyInv'
    <2>1. SameKeys(keys'[C], keys[C]) /\ SameKeys(keys'[S], keys[S])
      BY Parties
    <2>2. AgreeBeforeService'
      BY <1>1, <2>1 DEF AgreeBeforeService, Shared, SameKeys
    <2> QED
      BY <1>1, <2>2, KeysKept DEF IInv, KeyInv, ServerKeyed
  <1>4. LoginInv'
    BY <1>1 DEF IInv, LoginInv, LoginChecked, Verified, Credentials
  <1> QED
    BY <1>2, <1>3, <1>4 DEF IInv

\* The contents of packets that carry no numbers.
LEMMA NoNumbers ==
    ASSUME NEW m, m.type \notin {"ChannelOpen", "ChannelOpenConfirmation"}
    PROVE  Contents(m)
  BY DEF Contents

LEMMA OnePacket ==
    ASSUME NEW m \in Packet, Contents(m)
    PROVE  /\ <<m>> \in Seq(Packet) /\ Elems(<<m>>) = {m}
           /\ \A x \in Elems(<<m>>) : x = m /\ Contents(x)
  BY ElemsShort

LEMMA TwoPackets ==
    ASSUME NEW m \in Packet, NEW n \in Packet, Contents(m), Contents(n)
    PROVE  /\ <<m, n>> \in Seq(Packet) /\ Elems(<<m, n>>) = {m, n}
           /\ \A x \in Elems(<<m, n>>) : (x = m \/ x = n) /\ Contents(x)
  BY ElemsShort

LEMMA NoPacket ==
    <<>> \in Seq(Packet) /\ \A x \in Elems(<<>>) : FALSE
  BY NothingElse

LEMMA ServiceInv ==
    ASSUME IInv, RecvServiceRequest, UNCHANGED clientVars
    PROVE  IInv'
  <1> DEFINE m == SshPacket("ServiceAccept", Msg(S).text, <<>>)
  <1>1. /\ TransportTypeOK /\ Recv(S) /\ pc[S] = "service"
        /\ keys' = [keys EXCEPT ![S] = Counted(S)] /\ kex' = kex /\ channels' = channels
        /\ Handled(S, "auth", <<m>>)
    BY DEF RecvServiceRequest, CountReceived, Expected, IInv, TypeInv, TypeOK
  <1>2. m \in Packet /\ m.type = "ServiceAccept"
    <2>1. Msg(S).text \in Seq(Text) /\ <<>> \in Seq(Nat)
      BY <1>1, Received, Parties DEF Packet
    <2>2. IsPacket(m, "ServiceAccept", Msg(S).text, <<>>)
      BY <2>1, BarePacket
    <2> QED
      BY <2>2 DEF IsPacket
  <1> HIDE DEF m
  <1>3. <<m>> \in Seq(Packet) /\ \A x \in Elems(<<m>>) : x = m /\ Contents(x)
    BY <1>2, NoNumbers, OnePacket
  <1>4. /\ keys' \in [Peer -> SessionKeys] /\ \A q \in Peer : SameKeys(keys'[q], keys[q])
        /\ kex' \in [Peer -> KexView] /\ channels' \in Manager /\ "auth" \in ServerAt
    BY <1>1, Counting, Parties, Places DEF TransportTypeOK, IInv, TypeInv
  <1>5. TypeInv' /\ Moves(S, "auth", <<m>>)
    BY <1>1, <1>3, <1>4, ServerMoves
  <1> QED
    BY <1>1, <1>2, <1>3, <1>4, <1>5, Agreed, ServerKeyedInv DEF ServerKeyed

LEMMA RejectedInv ==
    ASSUME IInv, NEW p \in Peer, NEW result \in Results, Recv(p), Rejected(p, result),
           UNCHANGED <<channels, clientVars>>, p = C => result # "Ok"
    PROVE  IInv'
  <1>1. Gone(p, result)
    BY ReturnGone DEF Rejected, IInv, TypeInv, TypeOK
  <1> QED
    BY <1>1, GoneInv

LEMMA AuthInv ==
    ASSUME IInv, RecvAuthRequest, UNCHANGED clientVars
    PROVE  IInv'
  <1> DEFINE r == Msg(S)
             won == SshPacket("UserAuthSuccess", <<>>, <<>>)
             lost == SshPacket("UserAuthFailure", <<>>, <<>>)
  <1>1. /\ TransportTypeOK /\ Recv(S) /\ pc[S] = "auth" /\ channels' = channels
        /\ r.type = "UserAuthRequest"
    BY DEF RecvAuthRequest, Expected, ServerExpects, IInv, TypeInv, TypeOK
  <1>2. CASE ~KnownMethod(r)
    BY <1>1, <1>2, Parties, RejectedInv DEF RecvAuthRequest, Results
  <1>3. CASE KnownMethod(r)
    <2>1. /\ won \in Packet /\ won.type = "UserAuthSuccess"
          /\ lost \in Packet /\ lost.type = "UserAuthFailure"
      <3>1. <<>> \in Seq(Text) /\ <<>> \in Seq(Nat)
        OBVIOUS
      <3>2. /\ IsPacket(won, "UserAuthSuccess", <<>>, <<>>)
            /\ IsPacket(lost, "UserAuthFailure", <<>>, <<>>)
        BY <3>1, BarePacket
      <3> QED
        BY <3>2 DEF IsPacket
    <2>2. /\ keys' = [keys EXCEPT ![S] = Counted(S)] /\ kex' = kex
          /\ \/ Authenticates(r) /\ Handled(S, "loop", <<won>>)
             \/ ~Authenticates(r) /\ Handled(S, "auth", <<lost>>)
      BY <1>3 DEF RecvAuthRequest, CountReceived
    <2>3. /\ keys' \in [Peer -> SessionKeys] /\ \A q \in Peer : SameKeys(keys'[q], keys[q])
          /\ kex' \in [Peer -> KexView] /\ channels' \in Manager
          /\ "auth" \in ServerAt /\ "loop" \in ServerAt
      BY <1>1, <2>2, Counting, Parties, Places DEF TransportTypeOK, IInv, TypeInv
    <2>4. Shared
      BY <1>1 DEF IInv, KeyInv, AgreeBeforeService, Shared
    <2>5. Authenticates(r) => Verified
      <3>1. keys[S].dec # NoKey /\ keys[S].recv_mac_key # NoKey
        BY <1>1, DerivedOn DEF IInv, KeyInv, ServerKeyed
      <3>2. r.text = Credentials
        <4> DEFINE f == Head(inbox[S])
        <4>1. f \in Elems(inbox[S]) /\ f.msg = r /\ Accepts(keys[S], f)
          BY <1>1, Received, Parties DEF Msg
        <4> HIDE DEF f
        <4>2. f.cipher # NoKey /\ f.mac # BadMac
          BY <3>1, <4>1, VerifiedFrame
        <4> QED
          BY <1>1, <4>1, <4>2 DEF IInv, LoginInv
      <3>3. r.text[3] = "password" /\ r.text[1] = args.login[1] /\ r.text[4] = args.login[2]
        BY <3>2 DEF Credentials
      <3> QED
        BY <3>3 DEF Authenticates, Verified
    <2> HIDE DEF won, lost, r
    <2>6. CASE Authenticates(r) /\ Handled(S, "loop", <<won>>)
      <3>1. <<won>> \in Seq(Packet) /\ \A x \in Elems(<<won>>) : x = won /\ Contents(x)
        BY <2>1, NoNumbers, OnePacket
      <3>2. TypeInv' /\ Moves(S, "loop", <<won>>)
        BY <1>1, <2>3, <2>6, <3>1, ServerMoves
      <3> QED
        BY <1>1, <2>1, <2>2, <2>3, <2>4, <2>5, <2>6, <3>1, <3>2, ServerKeyedInv DEF ServerKeyed
    <2>7. CASE Handled(S, "auth", <<lost>>)
      <3>1. <<lost>> \in Seq(Packet) /\ \A x \in Elems(<<lost>>) : x = lost /\ Contents(x)
        BY <2>1, NoNumbers, OnePacket
      <3>2. TypeInv' /\ Moves(S, "auth", <<lost>>)
        BY <1>1, <2>3, <2>7, <3>1, ServerMoves
      <3> QED
        BY <1>1, <2>1, <2>2, <2>3, <2>4, <3>1, <3>2, ServerKeyedInv DEF ServerKeyed
    <2> QED
      BY <2>2, <2>6, <2>7
  <1> QED
    BY <1>2, <1>3

LEMMA ServerLearns ==
    ASSUME TransportTypeOK, NEW x \in Text,
           \/ kex' = [kex EXCEPT ![S].version = x]
           \/ kex' = [kex EXCEPT ![S].kexinit = x]
           \/ kex' = [kex EXCEPT ![S].pub = x]
    PROVE  /\ kex' \in [Peer -> KexView] /\ kex'[C] = kex[C]
           /\ kex'[S].host_key = kex[S].host_key
  <1>1. kex[S] \in KexView
    BY Parties DEF TransportTypeOK
  <1>2. PICK v \in {[kex[S] EXCEPT !.version = x], [kex[S] EXCEPT !.kexinit = x],
                    [kex[S] EXCEPT !.pub = x]} : kex' = [kex EXCEPT ![S] = v]
    OBVIOUS
  <1>3. v \in KexView /\ v.host_key = kex[S].host_key
    BY <1>1, <1>2 DEF KexView
  <1> QED
    BY <1>2, <1>3, Parties DEF TransportTypeOK

\* The first three packets that the server handles.
LEMMA ServerEarly ==
    ASSUME IInv, RecvClientVersion \/ RecvClientKexInit \/ RecvEcdhInit, UNCHANGED clientVars
    PROVE  IInv'
  <1>1. /\ TransportTypeOK /\ Recv(S) /\ channels' = channels /\ channels' \in Manager
        /\ Msg(S).type \in {"Version", "KexInit", "KexEcdhInit"}
        /\ Own(S).kexinit \in Text /\ Own(S).pub \in Text
        /\ HOST_KEY \in Text /\ "signature" \in Text
        /\ {"kexinit", "ecdh", "newkeys"} \subseteq ServerAt
    BY Parties, Places, OwnTyped, WordsAssumption
       DEF RecvClientVersion, RecvClientKexInit, RecvEcdhInit, Expected, ServerExpects,
           IInv, TypeInv, TypeOK, KexView, Words
  <1>2. Msg(S).text[1] \in Text
    <2> DEFINE r == Msg(S)
    <2>1. r \in Packet
      BY <1>1, Received, Parties
    <2>2. r.type \in DOMAIN TextFields /\ TextFields[r.type] = 1
      BY <1>1, FieldCounts
    <2> HIDE DEF r
    <2>3. r.text \in Seq(Text) /\ Len(r.text) = 1
      BY <2>1, <2>2 DEF Packet
    <2> QED
      BY <2>3 DEF r
  <1>3. CASE RecvClientVersion
    <2> DEFINE m == SshPacket("KexInit", <<Own(S).kexinit>>, <<>>)
    <2>1. m \in Packet /\ m.type = "KexInit"
      BY <1>1, TextPacket DEF IsPacket
    <2>2. /\ pc[S] = "version" /\ keys' = keys /\ Handled(S, "kexinit", <<m>>)
          /\ kex' = [kex EXCEPT ![S].version = Msg(S).text[1]]
      BY <1>3 DEF RecvClientVersion, Expected
    <2> HIDE DEF m
    <2>3. <<m>> \in Seq(Packet) /\ \A x \in Elems(<<m>>) : x = m /\ Contents(x)
      BY <2>1, NoNumbers, OnePacket
    <2>4. /\ kex' \in [Peer -> KexView] /\ kex'[C] = kex[C]
          /\ kex'[S].host_key = kex[S].host_key
      BY <1>1, <1>2, <2>2, ServerLearns
    <2>5. keys' \in [Peer -> SessionKeys] /\ \A q \in Peer : SameKeys(keys'[q], keys[q])
      BY <1>1, <2>2 DEF SameKeys, TransportTypeOK
    <2>6. TypeInv' /\ Moves(S, "kexinit", <<m>>)
      BY <1>1, <2>2, <2>3, <2>4, <2>5, ServerMoves
    <2> QED
      BY <2>1, <2>2, <2>3, <2>4, <2>5, <2>6, ServerEarlyInv
  <1>4. CASE RecvClientKexInit
    <2>1. /\ pc[S] = "kexinit" /\ Handled(S, "ecdh", <<>>)
          /\ keys' = [keys EXCEPT ![S] = Counted(S)]
          /\ kex' = [kex EXCEPT ![S].kexinit = Msg(S).text[1]]
      BY <1>4 DEF RecvClientKexInit, Expected
    <2>2. /\ kex' \in [Peer -> KexView] /\ kex'[C] = kex[C]
          /\ kex'[S].host_key = kex[S].host_key
      BY <1>1, <1>2, <2>1, ServerLearns
    <2>3. keys' \in [Peer -> SessionKeys] /\ \A q \in Peer : SameKeys(keys'[q], keys[q])
      BY <1>1, <2>1, Counting, Parties
    <2>4. <<>> \in Seq(Packet) /\ \A x \in Elems(<<>>) : Contents(x)
      BY NoPacket
    <2>5. TypeInv' /\ Moves(S, "ecdh", <<>>)
      BY <1>1, <2>1, <2>2, <2>3, <2>4, ServerMoves
    <2> QED
      BY <2>1, <2>2, <2>3, <2>5, NoPacket, ServerEarlyInv
  <1>5. CASE RecvEcdhInit
    <2> DEFINE m == SshPacket("KexEcdhReply", <<HOST_KEY, Own(S).pub, "signature">>, <<>>)
               n == SshPacket("NewKeys", <<>>, <<>>)
    <2>1. m \in Packet /\ m.type = "KexEcdhReply"
      BY <1>1, ReplyPacket DEF IsPacket
    <2>2. n \in Packet /\ n.type = "NewKeys"
      <3>1. <<>> \in Seq(Text) /\ <<>> \in Seq(Nat)
        OBVIOUS
      <3>2. IsPacket(n, "NewKeys", <<>>, <<>>)
        BY <3>1, BarePacket
      <3> QED
        BY <3>2 DEF IsPacket
    <2>3. /\ pc[S] = "ecdh" /\ Handled(S, "newkeys", <<m, n>>)
          /\ keys' = [keys EXCEPT ![S] = Counted(S)]
          /\ kex' = [kex EXCEPT ![S].pub = Msg(S).text[1]]
      BY <1>5 DEF RecvEcdhInit, Expected
    <2> HIDE DEF m, n
    <2>4. <<m, n>> \in Seq(Packet) /\ \A x \in Elems(<<m, n>>) : (x = m \/ x = n) /\ Contents(x)
      BY <2>1, <2>2, NoNumbers, TwoPackets
    <2>5. /\ kex' \in [Peer -> KexView] /\ kex'[C] = kex[C]
          /\ kex'[S].host_key = kex[S].host_key
      BY <1>1, <1>2, <2>3, ServerLearns
    <2>6. keys' \in [Peer -> SessionKeys] /\ \A q \in Peer : SameKeys(keys'[q], keys[q])
      BY <1>1, <2>3, Counting, Parties
    <2>7. TypeInv' /\ Moves(S, "newkeys", <<m, n>>)
      BY <1>1, <2>3, <2>4, <2>5, <2>6, ServerMoves
    <2> QED
      BY <2>1, <2>2, <2>3, <2>4, <2>5, <2>6, <2>7, ServerEarlyInv
  <1> QED
    BY <1>3, <1>4, <1>5

-----------------------------------------------------------------------------
(* The channel loop. *)

LEMMA InsertTyped ==
    ASSUME NEW mgr \in Manager, NEW ch \in Channel
    PROVE  /\ InsertNext(mgr, ch) \in Manager
           /\ mgr.next_id \in DOMAIN InsertNext(mgr, ch).channels
  <1> DEFINE D == DOMAIN mgr.channels \cup {mgr.next_id}
             f == [id \in D |-> IF id = mgr.next_id THEN ch ELSE mgr.channels[id]]
             n == (mgr.next_id + 1) % (U32_MAX + 1)
  <1>1. /\ mgr.next_id \in U32 /\ DOMAIN mgr.channels \subseteq U32
        /\ \A id \in DOMAIN mgr.channels : mgr.channels[id] \in Channel
    BY DEF Manager
  <1>2. D \in SUBSET U32 /\ f \in [D -> Channel] /\ DOMAIN f = D
    BY <1>1
  <1>3. n \in U32
    BY <1>1, ConnectionAssumption DEF U32
  <1>4. InsertNext(mgr, ch) = [channels |-> f, next_id |-> n]
    BY DEF InsertNext
  <1>5. mgr.next_id \in D
    OBVIOUS
  <1> HIDE DEF D, f, n
  <1> QED
    BY <1>2, <1>3, <1>4, <1>5 DEF Manager

LEMMA NewTyped ==
    ASSUME NEW r \in U32, NEW w \in U32
    PROVE  NewChannel(r, w) \in Channel
  BY ConnectionAssumption DEF NewChannel, Channel, U32

LEMMA ChangeTyped ==
    ASSUME NEW mgr \in Manager, NEW id \in DOMAIN mgr.channels, NEW ch \in Channel
    PROVE  /\ [mgr EXCEPT !.channels = [mgr.channels EXCEPT ![id] = ch]] \in Manager
           /\ DOMAIN [mgr EXCEPT !.channels = [mgr.channels EXCEPT ![id] = ch]].channels
                 = DOMAIN mgr.channels
           /\ [mgr EXCEPT !.channels = [mgr.channels EXCEPT ![id] = ch]].next_id = mgr.next_id
  BY DEF Manager

LEMMA WindowTyped ==
    ASSUME NEW mgr \in Manager, NEW id \in DOMAIN mgr.channels, NEW n \in Nat
    PROVE  AddRemoteWindow(mgr, id, n) \in Manager
  <1> DEFINE w == SaturatingAdd(mgr.channels[id].remote_window, n)
             ch == [mgr.channels[id] EXCEPT !.remote_window = w]
  <1>1. mgr.channels[id] \in Channel
    BY DEF Manager
  <1>2. w \in U32
    BY <1>1, ConnectionAssumption DEF SaturatingAdd, Channel, U32
  <1>3. AddRemoteWindow(mgr, id, n) = [mgr EXCEPT !.channels = [mgr.channels EXCEPT ![id] = ch]]
    BY <1>1 DEF AddRemoteWindow, Manager
  <1> HIDE DEF w
  <1>4. ch \in Channel
    BY <1>1, <1>2 DEF Channel
  <1> HIDE DEF ch
  <1> QED
    BY <1>3, <1>4, ChangeTyped

LEMMA EofTyped ==
    ASSUME NEW mgr \in Manager, NEW id \in DOMAIN mgr.channels
    PROVE  EofReceived(mgr, id) \in Manager
  <1> DEFINE ch == [mgr.channels[id] EXCEPT !.eof_received = TRUE]
  <1>1. mgr.channels[id] \in Channel
    BY DEF Manager
  <1>2. EofReceived(mgr, id) = [mgr EXCEPT !.channels = [mgr.channels EXCEPT ![id] = ch]]
    BY DEF EofReceived
  <1>3. ch \in Channel
    BY <1>1 DEF Channel
  <1> HIDE DEF ch
  <1> QED
    BY <1>2, <1>3, ChangeTyped

LEMMA FoundTyped ==
    ASSUME TypeInv, NEW id \in Found
    PROVE  /\ id \in DOMAIN channels.channels
           /\ channels.channels[id].remote_id \in Nat
  <1>1. id \in DOMAIN channels.channels
    BY DEF Found, FindByRemoteId
  <1>2. channels.channels[id] \in Channel
    BY <1>1 DEF TypeInv, Manager
  <1> QED
    BY <1>1, <1>2, ConnectionAssumption DEF Channel, U32

\* What the server sends from the loop.
Answers == {"ChannelOpenConfirmation", "ChannelSuccess", "ChannelFailure", "ChannelData",
            "ChannelEof", "ChannelClose"}

\* The server answers from the loop and stays in it.
LEMMA LoopInv ==
    ASSUME IInv, pc[S] = "loop", Recv(S), NEW packets \in Seq(Packet), Replies(packets),
           \A m \in Elems(packets) : m.type \in Answers /\ Contents(m),
           channels' \in Manager, UNCHANGED clientVars
    PROVE  IInv'
  <1>1. /\ TransportTypeOK /\ Handled(S, "loop", packets)
        /\ keys' = [keys EXCEPT ![S] = Counted(S)] /\ kex' = kex
    BY DEF Replies, CountReceived, IInv, TypeInv, TypeOK
  <1>2. /\ keys' \in [Peer -> SessionKeys] /\ \A q \in Peer : SameKeys(keys'[q], keys[q])
        /\ kex' \in [Peer -> KexView] /\ "loop" \in ServerAt
    BY <1>1, Counting, Parties, Places DEF TransportTypeOK
  <1>3. TypeInv' /\ Moves(S, "loop", packets)
    BY <1>1, <1>2, ServerMoves
  <1>4. Shared /\ Verified
    BY DEF IInv, KeyInv, AgreeBeforeService, Shared, LoginInv, LoginChecked, Verified
  <1>5. \A m \in Elems(packets) : m.type # "NewKeys" /\ m.type # "UserAuthSuccess"
    BY DEF Answers
  <1> QED
    BY <1>1, <1>2, <1>3, <1>4, <1>5, ServerKeyedInv DEF ServerKeyed

LEMMA AnswerTyped ==
    ASSUME TypeInv, NEW id \in Found,
           NEW type \in {"ChannelSuccess", "ChannelFailure", "ChannelEof", "ChannelClose"}
    PROVE  ToChannel(type, id) \in Packet /\ ToChannel(type, id).type = type
  <1>1. channels.channels[id].remote_id \in Nat /\ <<>> \in Seq(Text)
    BY FoundTyped
  <1>2. IsPacket(SshPacket(type, <<>>, <<channels.channels[id].remote_id>>),
                 type, <<>>, <<channels.channels[id].remote_id>>)
    BY <1>1, OneNumPacket
  <1> QED
    BY <1>2 DEF ToChannel, IsPacket

LEMMA DataTyped ==
    ASSUME NEW n \in Nat, NEW what \in {"output", "response", "line"}, NEW len \in Nat
    PROVE  /\ build_channel_data(n, what, len) \in Packet
           /\ build_channel_data(n, what, len).type = "ChannelData"
  <1>1. <<what>> \in Seq(Text)
    <2>1. what \in Text
      BY WordsAssumption DEF Words
    <2> QED
      BY <2>1
  <1>2. IsPacket(SshPacket("ChannelData", <<what>>, <<n, len>>),
                 "ChannelData", <<what>>, <<n, len>>)
    BY <1>1, TwoNumPacket
  <1> QED
    BY <1>2 DEF build_channel_data, IsPacket

LEMMA OpenInv ==
    ASSUME IInv, RecvChannelOpen, UNCHANGED clientVars
    PROVE  IInv'
  <1> DEFINE r == Msg(S)
             m == SshPacket("ChannelOpenConfirmation", <<>>,
                            <<r.num[1], channels.next_id, DEFAULT_WINDOW_SIZE>>)
  <1>1. /\ TypeInv /\ TransportTypeOK /\ pc[S] = "loop" /\ Recv(S) /\ r.type = "ChannelOpen"
        /\ channels' = AcceptChannel(channels, r.num[1], r.num[2]) /\ Replies(<<m>>)
    BY DEF RecvChannelOpen, InLoop, IInv, TypeInv, TypeOK
  <1>2. r.num[1] \in U32 /\ r.num[2] \in U32
    <2>1. Contents(r)
      BY <1>1, Received, Parties DEF TypeInv, Msg
    <2> QED
      BY <1>1, <2>1 DEF Contents
  <1>3. channels' \in Manager /\ channels.next_id \in U32
    BY <1>1, <1>2, NewTyped, InsertTyped DEF TypeInv, AcceptChannel, Manager
  <1> HIDE DEF r
  <1>4. /\ IsPacket(m, "ChannelOpenConfirmation", <<>>,
                    <<r.num[1], channels.next_id, DEFAULT_WINDOW_SIZE>>)
        /\ DEFAULT_WINDOW_SIZE \in U32
    <2>1. r.num[1] \in Nat /\ channels.next_id \in Nat /\ DEFAULT_WINDOW_SIZE \in Nat
      BY <1>2, <1>3, ConnectionAssumption DEF U32
    <2> QED
      BY <2>1, ConfirmPacket, ConnectionAssumption DEF U32
  <1> HIDE DEF m
  <1>5. m \in Packet /\ m.type \in Answers /\ Contents(m)
    BY <1>3, <1>4 DEF IsPacket, Contents, Answers
  <1> QED
    BY <1>1, <1>3, <1>5, OnePacket, LoopInv

LEMMA ExecInv ==
    ASSUME IInv, RecvExec, UNCHANGED clientVars
    PROVE  IInv'
  <1> DEFINE r == Msg(S)
  <1>1. /\ TypeInv /\ TransportTypeOK /\ pc[S] = "loop" /\ Recv(S)
        /\ r.type = "ChannelRequest" /\ r.text[1] = "exec" /\ channels' = channels
    BY DEF RecvExec, InLoop, IInv, TypeInv, TypeOK
  <1>2. CASE Found = {}
    BY <1>1, <1>2, Parties, RejectedInv DEF RecvExec, Results
  <1>3. CASE Found # {}
    <2>1. Output[r.text[2]] \in Nat
      <3>1. Runnable(r)
        BY <1>1, Received, Parties DEF TypeInv, Msg
      <3> QED
        BY <1>1, <3>1, ServerAssumption DEF Runnable
    <2>2. PICK id \in Found :
             Replies((IF r.want THEN <<ToChannel("ChannelSuccess", id)>> ELSE <<>>)
                     \o <<build_channel_data(channels.channels[id].remote_id, "output",
                                             Output[r.text[2]]),
                          ToChannel("ChannelEof", id), ToChannel("ChannelClose", id)>>)
      BY <1>3 DEF RecvExec
    <2> DEFINE a == ToChannel("ChannelSuccess", id)
               d == build_channel_data(channels.channels[id].remote_id, "output",
                                       Output[r.text[2]])
               e == ToChannel("ChannelEof", id)
               c == ToChannel("ChannelClose", id)
               s == IF r.want THEN <<a>> ELSE <<>>
               Good == {m \in Packet : m.type \in Answers /\ Contents(m)}
    <2>3. a \in Good /\ d \in Good /\ e \in Good /\ c \in Good
      <3>1. /\ a \in Packet /\ a.type = "ChannelSuccess"
            /\ e \in Packet /\ e.type = "ChannelEof"
            /\ c \in Packet /\ c.type = "ChannelClose"
        BY <1>1, AnswerTyped
      <3>2. d \in Packet /\ d.type = "ChannelData"
        BY <1>1, <2>1, FoundTyped, DataTyped
      <3> QED
        BY <3>1, <3>2, NoNumbers DEF Answers
    <2> DEFINE t == <<d, e, c>>
    <2>4. Replies(s \o t)
      BY <2>2
    <2> HIDE DEF a, d, e, c, Good
    <2>5. s \in Seq(Good) /\ t \in Seq(Good)
      BY <2>3
    <2> HIDE DEF s, t
    <2>6. s \o t \in Seq(Good)
      BY <2>5
    <2>7. \A m \in Elems(s \o t) : m \in Good
      BY <2>6, ElemsTyped
    <2>8. s \o t \in Seq(Packet)
      <3>1. Good \subseteq Packet
        BY DEF Good
      <3> QED
        BY <2>6, <3>1
    <2>9. channels' \in Manager
      BY <1>1 DEF TypeInv
    <2> DEFINE packets == s \o t
    <2> HIDE DEF packets
    <2>10. /\ packets \in Seq(Packet) /\ Replies(packets)
           /\ \A m \in Elems(packets) : m.type \in Answers /\ Contents(m)
      BY <2>4, <2>7, <2>8 DEF packets, Good
    <2> QED
      BY <1>1, <2>9, <2>10, LoopInv
  <1> QED
    BY <1>2, <1>3

LEMMA RequestInv ==
    ASSUME IInv, RecvRequest, UNCHANGED clientVars
    PROVE  IInv'
  <1>1. /\ TypeInv /\ pc[S] = "loop" /\ Recv(S) /\ channels' = channels /\ channels' \in Manager
    BY DEF RecvRequest, InLoop, IInv, TypeInv
  <1>2. CASE ~Msg(S).want
    BY <1>1, <1>2, NoPacket, LoopInv DEF RecvRequest
  <1>3. CASE Msg(S).want /\ Found = {}
    BY <1>1, <1>3, Parties, RejectedInv DEF RecvRequest, Results
  <1>4. CASE Msg(S).want /\ Found # {}
    <2>1. PICK id \in Found, type \in {"ChannelSuccess", "ChannelFailure"} :
             Replies(<<ToChannel(type, id)>>)
      BY <1>4 DEF RecvRequest
    <2> DEFINE m == ToChannel(type, id)
    <2>2. m \in Packet /\ m.type = type
      BY <1>1, AnswerTyped
    <2> HIDE DEF m
    <2>3. m.type \in Answers /\ Contents(m)
      BY <2>2, NoNumbers DEF Answers
    <2>4. <<m>> \in Seq(Packet) /\ \A x \in Elems(<<m>>) : x.type \in Answers /\ Contents(x)
      BY <2>2, <2>3, OnePacket
    <2> QED
      BY <1>1, <2>1, <2>4, LoopInv DEF m
  <1> QED
    BY <1>2, <1>3, <1>4

LEMMA DataInv ==
    ASSUME IInv, RecvChannelData, UNCHANGED clientVars
    PROVE  IInv'
  <1>1. /\ TypeInv /\ pc[S] = "loop" /\ Recv(S) /\ channels' = channels /\ channels' \in Manager
    BY DEF RecvChannelData, InLoop, IInv, TypeInv
  <1>2. \/ Replies(<<>>)
        \/ Rejected(S, "Channel")
        \/ \E id \in Found, n \in SftpResponses :
              Replies(<<build_channel_data(channels.channels[id].remote_id, "response", n)>>)
    BY DEF RecvChannelData
  <1>3. CASE Replies(<<>>)
    BY <1>1, <1>3, NoPacket, LoopInv
  <1>4. CASE Rejected(S, "Channel")
    BY <1>1, <1>4, Parties, RejectedInv DEF Results
  <1>5. ASSUME NEW id \in Found, NEW n \in SftpResponses,
               Replies(<<build_channel_data(channels.channels[id].remote_id, "response", n)>>)
        PROVE  IInv'
    <2> DEFINE m == build_channel_data(channels.channels[id].remote_id, "response", n)
    <2>1. m \in Packet /\ m.type = "ChannelData"
      BY <1>1, FoundTyped, DataTyped, ServerAssumption
    <2> HIDE DEF m
    <2>2. m.type \in Answers /\ Contents(m)
      BY <2>1, NoNumbers DEF Answers
    <2>3. <<m>> \in Seq(Packet) /\ \A x \in Elems(<<m>>) : x.type \in Answers /\ Contents(x)
      BY <2>1, <2>2, OnePacket
    <2> QED
      BY <1>1, <1>5, <2>3, LoopInv DEF m
  <1> QED
    BY <1>2, <1>3, <1>4, <1>5

LEMMA QuietInv ==
    ASSUME IInv, RecvWindowAdjust \/ RecvChannelEof \/ RecvOther, UNCHANGED clientVars
    PROVE  IInv'
  <1>1. TypeInv /\ TransportTypeOK /\ channels \in Manager /\ pc[S] = "loop" /\ Recv(S) /\ Replies(<<>>)
    BY DEF RecvWindowAdjust, RecvChannelEof, RecvOther, InLoop, IInv, TypeInv, TypeOK
  <1>2. channels' \in Manager
    <2>1. CASE RecvWindowAdjust
      <3>1. Msg(S).num[2] \in Nat
        <4> DEFINE r == Msg(S)
        <4>1. r \in Packet /\ r.type = "ChannelWindowAdjust"
          BY <1>1, <2>1, Received, Parties DEF RecvWindowAdjust, InLoop
        <4> HIDE DEF r
        <4>2. r.num \in Seq(Nat) /\ Len(r.num) = 2
          BY <4>1, FieldCounts DEF Packet
        <4>3. r.num[2] \in Nat
          BY <4>2
        <4> QED
          BY <4>3 DEF r
      <3> QED
        BY <1>1, <2>1, <3>1, FoundTyped, WindowTyped DEF RecvWindowAdjust
    <2>2. CASE RecvChannelEof
      BY <1>1, <2>2, FoundTyped, EofTyped DEF RecvChannelEof
    <2>3. CASE RecvOther
      BY <1>1, <2>3 DEF RecvOther
    <2> QED
      BY <2>1, <2>2, <2>3
  <1> QED
    BY <1>1, <1>2, NoPacket, LoopInv

LEMMA CloseInv ==
    ASSUME IInv, RecvChannelClose, UNCHANGED clientVars
    PROVE  IInv'
  <1>1. /\ TypeInv /\ pc[S] = "loop" /\ Recv(S) /\ channels' = channels /\ channels' \in Manager
    BY DEF RecvChannelClose, InLoop, IInv, TypeInv
  <1>2. Replies(<<>>) \/ \E id \in Found : Replies(<<ToChannel("ChannelClose", id)>>)
    BY DEF RecvChannelClose
  <1>3. CASE Replies(<<>>)
    BY <1>1, <1>3, NoPacket, LoopInv
  <1>4. ASSUME NEW id \in Found, Replies(<<ToChannel("ChannelClose", id)>>)
        PROVE  IInv'
    <2> DEFINE m == ToChannel("ChannelClose", id)
    <2>1. m \in Packet /\ m.type = "ChannelClose"
      BY <1>1, AnswerTyped
    <2> HIDE DEF m
    <2>2. m.type \in Answers /\ Contents(m)
      BY <2>1, NoNumbers DEF Answers
    <2>3. <<m>> \in Seq(Packet) /\ \A x \in Elems(<<m>>) : x.type \in Answers /\ Contents(x)
      BY <2>1, <2>2, OnePacket
    <2> QED
      BY <1>1, <1>4, <2>3, LoopInv DEF m
  <1> QED
    BY <1>2, <1>3, <1>4

\* The ways in which either program returns, and a packet written.
LEMMA IoInv ==
    ASSUME IInv, NEW p \in Peer, NEW handled,
           Write(p) \/ RecvGarbled(p) \/ RecvFails(p, handled),
           UNCHANGED <<channels, clientVars>>
    PROVE  IInv'
  <1>1. CASE Send(p)
    BY <1>1, SentInv
  <1>2. CASE SendTooLarge(p) \/ SendFails(p) \/ RecvGarbled(p) \/ RecvFails(p, handled)
    <2>1. /\ UNCHANGED <<keys, kex>> /\ TransportTypeOK
          /\ \E r \in Results \ {"Ok"} : \E unread : Return(p, r, unread)
      BY <1>2 DEF SendTooLarge, SendFails, RecvGarbled, RecvFails, EndOfStream, Results,
                  IInv, TypeInv, TypeOK
    <2>2. PICK r \in Results \ {"Ok"} : Gone(p, r)
      BY <2>1, ReturnGone
    <2> QED
      BY <2>2, GoneInv
  <1> QED
    BY <1>1, <1>2 DEF Write

LEMMA ServerEndsInv ==
    ASSUME IInv, RecvDisconnect \/ ServerRejects \/ ClientGone \/ ServerIo, UNCHANGED clientVars
    PROVE  IInv'
  <1>1. CASE RecvDisconnect
    BY <1>1, Parties, RejectedInv DEF RecvDisconnect, Results
  <1>2. CASE ServerRejects
    <2>1. /\ Recv(S) /\ UNCHANGED channels
          /\ \E r \in Results : Rejected(S, r)
      BY <1>2 DEF ServerRejects, ParseErrors, Results
    <2> QED
      BY <2>1, Parties, RejectedInv
  <1>3. CASE ClientGone
    <2>1. Gone(S, "Ok") /\ UNCHANGED channels
      BY <1>3, Parties, ReturnGone DEF ClientGone, IInv, TypeInv, TypeOK
    <2> QED
      BY <2>1, Parties, GoneInv DEF Results
  <1>4. CASE ServerIo
    BY <1>4, Parties, IoInv DEF ServerIo
  <1> QED
    BY <1>1, <1>2, <1>3, <1>4

LEMMA ServerInv == IInv /\ ServerStep => IInv'
  BY ServerEarly, ServerKeysInv, ServiceInv, AuthInv, OpenInv, ExecInv, RequestInv, DataInv,
     QuietInv, CloseInv, ServerEndsInv
     DEF ServerStep, ServerNext

-----------------------------------------------------------------------------
(* The client handles a packet, or goes on by itself. *)

Takes(next, packets) ==
    /\ pc' = [pc EXCEPT ![C] = next]
    /\ out' = [out EXCEPT ![C] = packets]
    /\ inbox' \in [Peer -> Seq(Frames)]
    /\ Elems(inbox'[C]) \subseteq Elems(inbox[C]) /\ inbox'[S] = inbox[S]
    /\ UNCHANGED <<res, reset, noise>>

LEMMA HandledTakes ==
    ASSUME IInv, Recv(C), NEW next, NEW packets, Handled(C, next, packets)
    PROVE  Takes(next, packets)
  <1>1. TransportTypeOK
    BY DEF IInv, TypeInv, TypeOK
  <1>2. Tail(inbox[C]) \in Seq(Frames) /\ Elems(Tail(inbox[C])) \subseteq Elems(inbox[C])
    BY <1>1, Received, Parties
  <1> QED
    BY <1>1, <1>2, Parties DEF Handled, Takes, TransportTypeOK

\* Where the client has not yet opened its channel, and where it has.
Before == {"version", "kexinit", "reply", "newkeys", "activate", "accept", "authreply"}
Opened == {"confirm", "exec", "interactive"}

LEMMA ClientMoves ==
    ASSUME IInv, NEW next \in ClientAt, NEW packets \in Seq(Packet), Takes(next, packets),
           \A m \in Elems(packets) : Contents(m) /\ Runnable(m),
           keys' \in [Peer -> SessionKeys], kex' \in [Peer -> KexView],
           UNCHANGED <<channels, args>>, mine' \in Manager,
           next \in Before => mine'.next_id = 0,
           next \in Opened => 0 \in DOMAIN mine'.channels,
           printed' \in Nat, sawClose' \in BOOLEAN,
           stdin' \in [typed : 0 .. MaxLines, queued : 0 .. MPSC_CAPACITY, open : BOOLEAN]
    PROVE  TypeInv' /\ Moves(C, next, packets)
  <1>1. TransportTypeOK /\ TypeOK
    BY DEF IInv, TypeInv, TypeOK
  <1>2. /\ pc'[C] = next /\ pc'[S] = pc[S] /\ pc' \in [Peer -> ServerAt \cup ClientAt]
        /\ out'[C] = packets /\ out'[S] = out[S] /\ out' \in [Peer -> Seq(Packet)]
        /\ Elems(inbox'[C]) \subseteq Elems(inbox[C]) /\ inbox'[S] = inbox[S]
        /\ inbox' \in [Peer -> Seq(Frames)]
        /\ res' = res /\ reset' = reset /\ noise' = noise /\ channels' = channels /\ args' = args
    BY <1>1, Parties DEF TypeOK, TransportTypeOK, Takes
  <1>3. TransportTypeOK'
    BY <1>1, <1>2 DEF TransportTypeOK
  <1>4. TypeOK'
    <2>1. \A id \in DOMAIN mine'.channels : id \in U32 /\ mine'.channels[id] \in Channel
      BY DEF Manager
    <2> QED
      BY <1>1, <1>2, <1>3, <2>1 DEF TypeOK
  <1>5. ArgsOK'
    BY <1>2 DEF IInv, TypeInv, ArgsOK
  <1>6. \A q \in Peer : /\ \A m \in Elems(out'[q]) : Contents(m)
                        /\ \A f \in Elems(inbox'[q]) : Contents(f.msg)
    BY <1>2, Parties DEF IInv, TypeInv
  <1>7. /\ \A m \in Elems(out'[C]) : Runnable(m)
        /\ \A f \in Elems(inbox'[S]) : Runnable(f.msg)
    BY <1>2 DEF IInv, TypeInv
  <1>8. TypeInv'
    BY <1>2, <1>4, <1>5, <1>6, <1>7
       DEF IInv, TypeInv, Contents, Runnable, Before, Opened
  <1>9. Moves(C, next, packets)
    BY <1>2, Parties DEF Moves, OnWay
  <1> QED
    BY <1>8, <1>9

\* The handshake up to the server's NEWKEYS.
LEMMA ClientEarlyInv ==
    ASSUME IInv, TypeInv', NEW next, NEW packets, Moves(C, next, packets),
           pc[C] \in {"version", "kexinit", "reply"}, next \in {"kexinit", "reply", "newkeys"},
           \A m \in Elems(packets) : m.type \in {"KexInit", "KexEcdhInit"},
           kex'[S] = kex[S], \A q \in Peer : SameKeys(keys'[q], keys[q])
    PROVE  IInv'
  <1>1. /\ pc'[C] = next /\ pc'[S] = pc[S] /\ out'[C] = packets
        /\ inbox'[S] = inbox[S] /\ res' = res /\ args' = args
        /\ \A type : OnWay(S, type)' => OnWay(S, type)
        /\ OnWay(C, "NewKeys")' => OnWay(C, "NewKeys")
    BY Parties DEF Moves
  <1>2. InStep'
    BY <1>1 DEF IInv, InStep, Past, Admitted, ServerKeyed
  <1>3. SameKeys(keys'[C], keys[C]) /\ SameKeys(keys'[S], keys[S])
    BY Parties
  <1>4. KeyInv'
    <2>1. /\ Plain(keys[C])' <=> Plain(keys[C])
          /\ Plain(keys[S])' <=> Plain(keys[S])
          /\ ServerDerived' <=> ServerDerived
          /\ keys'[C].enc = keys[C].enc
      BY <1>1, <1>3 DEF SameKeys, Plain, ServerDerived
    <2>2. pc[S] \notin ServerKeyed
      BY DEF IInv, InStep, Past
    <2>3. /\ pc'[C] \notin Keyed \cup {"done"} /\ pc[C] \notin Keyed \cup {"done"}
          /\ pc'[S] \notin ServerKeyed
      BY <1>1, <2>2 DEF Keyed, Past
    <2>4. AgreeBeforeService'
      BY <2>3 DEF AgreeBeforeService, ServerKeyed
    <2> QED
      BY <1>1, <2>1, <2>3, <2>4 DEF IInv, KeyInv
  <1>5. LoginInv'
    BY <1>1 DEF IInv, LoginInv, LoginChecked, Verified, Credentials
  <1> QED
    BY <1>2, <1>4, <1>5 DEF IInv

\* The client once its keys are on.
LEMMA ClientKeyedInv ==
    ASSUME IInv, TypeInv', NEW next, NEW packets, Moves(C, next, packets),
           pc[C] \in Keyed, next \in Keyed,
           next \in Admitted => pc[C] \in Admitted \/ OnWay(S, "UserAuthSuccess"),
           \A m \in Elems(packets) : m.type = "UserAuthRequest" => m.text = Credentials,
           kex' = kex, \A q \in Peer : SameKeys(keys'[q], keys[q])
    PROVE  IInv'
  <1>1. /\ pc'[C] = next /\ pc'[S] = pc[S] /\ out'[C] = packets
        /\ inbox'[S] = inbox[S] /\ res' = res /\ args' = args
        /\ \A type : OnWay(S, type)' => OnWay(S, type)
    BY Parties DEF Moves
  <1>2. InStep'
    BY <1>1 DEF IInv, InStep, Past, Keyed, Admitted, ServerKeyed
  <1>3. KeyInv'
    BY <1>1, KeysKept DEF IInv, KeyInv, Keyed, Past
  <1>4. LoginInv'
    BY <1>1 DEF IInv, LoginInv, LoginChecked, Verified, Credentials, Admitted
  <1> QED
    BY <1>2, <1>3, <1>4 DEF IInv

\* Counting a packet on the client.
LEMMA ClientCounts ==
    ASSUME IInv, Recv(C), CountReceived(C)
    PROVE  /\ keys' \in [Peer -> SessionKeys] /\ \A q \in Peer : SameKeys(keys'[q], keys[q])
           /\ kex' = kex /\ kex' \in [Peer -> KexView]
  BY Counting, Parties DEF CountReceived, IInv, TypeInv, TypeOK, TransportTypeOK

LEMMA ClientTyped ==
    ASSUME IInv
    PROVE  /\ TransportTypeOK /\ mine \in Manager /\ printed \in Nat /\ sawClose \in BOOLEAN
           /\ stdin \in [typed : 0 .. MaxLines, queued : 0 .. MPSC_CAPACITY, open : BOOLEAN]
           /\ pc[C] \in Before => mine.next_id = 0
           /\ pc[C] \in Opened => 0 \in DOMAIN mine.channels
           /\ ArgsOK
  BY DEF IInv, TypeInv, TypeOK, Before, Opened

LEMMA ClientEarly ==
    ASSUME IInv, RecvServerVersion \/ RecvServerKexInit \/ RecvEcdhReply, UNCHANGED channels
    PROVE  IInv'
  <1> USE ClientTyped
  <1>1. /\ Recv(C) /\ UNCHANGED clientVars
        /\ Own(C).kexinit \in Text /\ Own(C).pub \in Text
        /\ {"kexinit", "reply", "newkeys"} \subseteq ClientAt
        /\ Msg(C) \in Packet
    BY Parties, Places, OwnTyped, Received
       DEF RecvServerVersion, RecvServerKexInit, RecvEcdhReply, ClientExpected, KexView
  <1>2. /\ mine' \in Manager /\ printed' \in Nat /\ sawClose' \in BOOLEAN /\ args' = args
        /\ stdin' \in [typed : 0 .. MaxLines, queued : 0 .. MPSC_CAPACITY, open : BOOLEAN]
        /\ pc[C] \in Before /\ mine'.next_id = 0
    BY <1>1 DEF clientVars, Before, RecvServerVersion, RecvServerKexInit, RecvEcdhReply,
                ClientExpected
  <1>3. CASE RecvServerVersion
    <2> DEFINE x == Msg(C).text[1]
               v == [kex[C] EXCEPT !.version = x]
    <2>1. /\ pc[C] = "version" /\ keys' = keys /\ Handled(C, "kexinit", <<>>)
          /\ kex' = [kex EXCEPT ![C] = v] /\ Msg(C).type = "Version"
      BY <1>3 DEF RecvServerVersion, ClientExpected, ClientExpects
    <2>2. x \in Text
      BY <1>1, <2>1, FieldCounts DEF Packet
    <2> HIDE DEF x
    <2>3. v \in KexView
      BY <2>2, Parties DEF TransportTypeOK, KexView
    <2> HIDE DEF v
    <2>4. /\ kex' \in [Peer -> KexView] /\ kex'[S] = kex[S]
          /\ keys' \in [Peer -> SessionKeys] /\ \A q \in Peer : SameKeys(keys'[q], keys[q])
      BY <2>1, <2>3, Parties DEF SameKeys, TransportTypeOK
    <2>5. <<>> \in Seq(Packet) /\ \A m \in Elems(<<>>) : Contents(m) /\ Runnable(m)
      BY NoPacket
    <2>6. TypeInv' /\ Moves(C, "kexinit", <<>>)
      BY <1>1, <1>2, <2>1, <2>4, <2>5, HandledTakes, ClientMoves DEF Opened
    <2> QED
      BY <2>1, <2>4, <2>6, NoPacket, ClientEarlyInv
  <1>4. CASE RecvServerKexInit
    <2> DEFINE x == Msg(C).text[1]
               v == [kex[C] EXCEPT !.kexinit = x]
               m == SshPacket("KexInit", <<Own(C).kexinit>>, <<>>)
               n == SshPacket("KexEcdhInit", <<Own(C).pub>>, <<>>)
    <2>1. /\ pc[C] = "kexinit" /\ keys' = [keys EXCEPT ![C] = Counted(C)]
          /\ Handled(C, "reply", <<m, n>>)
          /\ kex' = [kex EXCEPT ![C] = v] /\ Msg(C).type = "KexInit"
      BY <1>4 DEF RecvServerKexInit, ClientExpected, ClientExpects
    <2>2. x \in Text
      BY <1>1, <2>1, FieldCounts DEF Packet
    <2> HIDE DEF x
    <2>3. v \in KexView
      BY <2>2, Parties DEF TransportTypeOK, KexView
    <2> HIDE DEF v
    <2>4. m \in Packet /\ m.type = "KexInit" /\ n \in Packet /\ n.type = "KexEcdhInit"
      BY <1>1, TextPacket DEF IsPacket
    <2> HIDE DEF m, n
    <2>5. /\ kex' \in [Peer -> KexView] /\ kex'[S] = kex[S]
          /\ keys' \in [Peer -> SessionKeys] /\ \A q \in Peer : SameKeys(keys'[q], keys[q])
      BY <1>1, <2>1, <2>3, Counting, Parties DEF TransportTypeOK
    <2>6. <<m, n>> \in Seq(Packet) /\ \A y \in Elems(<<m, n>>) : (y = m \/ y = n) /\ Contents(y)
      BY <2>4, NoNumbers, TwoPackets
    <2>7. \A y \in Elems(<<m, n>>) : Contents(y) /\ Runnable(y)
      BY <2>4, <2>6 DEF Runnable
    <2>8. TypeInv' /\ Moves(C, "reply", <<m, n>>)
      BY <1>1, <1>2, <2>1, <2>5, <2>6, <2>7, HandledTakes, ClientMoves DEF Opened
    <2> QED
      BY <2>1, <2>4, <2>5, <2>6, <2>8, ClientEarlyInv
  <1>5. CASE RecvEcdhReply
    <2> DEFINE x == Msg(C).text[1]
               y == Msg(C).text[2]
               v == [kex[C] EXCEPT !.host_key = x, !.pub = y]
    <2>1. /\ pc[C] = "reply" /\ keys' = [keys EXCEPT ![C] = Counted(C)]
          /\ Handled(C, "newkeys", <<>>) /\ Msg(C).type = "KexEcdhReply"
      BY <1>5 DEF RecvEcdhReply, ClientExpected, ClientExpects
    <2>2. kex' = [kex EXCEPT ![C] = v]
      <3>1. kex' = [kex EXCEPT ![C].host_key = x, ![C].pub = y]
        BY <1>5 DEF RecvEcdhReply
      <3> QED
        BY <3>1, Parties DEF TransportTypeOK
    <2>3. x \in Text /\ y \in Text
      BY <1>1, <2>1, FieldCounts DEF Packet
    <2> HIDE DEF x, y
    <2>4. v \in KexView
      BY <2>3, Parties DEF TransportTypeOK, KexView
    <2> HIDE DEF v
    <2>5. /\ kex' \in [Peer -> KexView] /\ kex'[S] = kex[S]
          /\ keys' \in [Peer -> SessionKeys] /\ \A q \in Peer : SameKeys(keys'[q], keys[q])
      BY <1>1, <2>1, <2>4, <2>2, Counting, Parties DEF TransportTypeOK
    <2>6. <<>> \in Seq(Packet) /\ \A m \in Elems(<<>>) : Contents(m) /\ Runnable(m)
      BY NoPacket
    <2>7. TypeInv' /\ Moves(C, "newkeys", <<>>)
      BY <1>1, <1>2, <2>1, <2>5, <2>6, HandledTakes, ClientMoves DEF Opened
    <2> QED
      BY <2>1, <2>5, <2>7, NoPacket, ClientEarlyInv
  <1> QED
    BY <1>3, <1>4, <1>5

\* The server's NEWKEYS is in; the client's own goes out in the clear.
LEMMA ClientNewKeysInv ==
    ASSUME IInv, RecvServerNewKeys, UNCHANGED channels
    PROVE  IInv'
  <1> DEFINE m == SshPacket("NewKeys", <<>>, <<>>)
  <1>1. /\ pc[C] = "newkeys" /\ Recv(C) /\ Msg(C).type = "NewKeys" /\ CountReceived(C)
        /\ Handled(C, "activate", <<m>>) /\ UNCHANGED clientVars
    BY DEF RecvServerNewKeys, ClientExpected, ClientExpects
  <1>2. m \in Packet /\ m.type = "NewKeys"
    <2>1. <<>> \in Seq(Text) /\ <<>> \in Seq(Nat)
      OBVIOUS
    <2>2. IsPacket(m, "NewKeys", <<>>, <<>>)
      BY <2>1, BarePacket
    <2> QED
      BY <2>2 DEF IsPacket
  <1> HIDE DEF m
  <1>3. <<m>> \in Seq(Packet) /\ \A x \in Elems(<<m>>) : x = m /\ Contents(x) /\ Runnable(x)
    BY <1>2, NoNumbers, OnePacket DEF Runnable
  <1>4. /\ keys' \in [Peer -> SessionKeys] /\ \A q \in Peer : SameKeys(keys'[q], keys[q])
        /\ kex' = kex /\ kex' \in [Peer -> KexView]
    BY <1>1, ClientCounts
  <1>5. TypeInv' /\ Moves(C, "activate", <<m>>)
    <2>1. /\ "activate" \in ClientAt /\ mine' \in Manager /\ mine'.next_id = 0 /\ args' = args
          /\ printed' \in Nat /\ sawClose' \in BOOLEAN
          /\ stdin' \in [typed : 0 .. MaxLines, queued : 0 .. MPSC_CAPACITY, open : BOOLEAN]
          /\ "activate" \notin Opened
      BY <1>1, ClientTyped, Places DEF clientVars, Before, Opened
    <2> QED
      BY <1>1, <1>3, <1>4, <2>1, HandledTakes, ClientMoves
  <1>6. /\ pc'[C] = "activate" /\ pc'[S] = pc[S] /\ out'[C] = <<m>>
        /\ inbox'[S] = inbox[S] /\ res' = res /\ args' = args
        /\ \A type : OnWay(S, type)' => OnWay(S, type)
    BY <1>5, Parties DEF Moves
  <1>7. OnWay(S, "NewKeys")
    BY <1>1, ClientTyped, Received, Parties DEF OnWay, Msg
  <1>8. InStep'
    BY <1>6, <1>7 DEF IInv, InStep, Past, Admitted
  <1>9. KeyInv'
    BY <1>1, <1>2, <1>3, <1>4, <1>6, KeysKept DEF IInv, KeyInv, Keyed, Past
  <1>10. LoginInv'
    BY <1>2, <1>3, <1>6 DEF IInv, LoginInv, LoginChecked, Verified, Credentials
  <1> QED
    BY <1>5, <1>8, <1>9, <1>10 DEF IInv

LEMMA ActivateInv ==
    ASSUME IInv, ActivateKeys, UNCHANGED channels
    PROVE  IInv'
  <1> DEFINE h == KexComplete(C, kex[C])
             l == WithKeys(keys[C], ClientToServer(h), ServerToClient(h))
             m == SshPacket("ServiceRequest", <<"ssh-userauth">>, <<>>)
  <1>1. /\ TransportTypeOK /\ pc[C] = "activate" /\ keys' = [keys EXCEPT ![C] = l] /\ kex' = kex
        /\ pc' = [pc EXCEPT ![C] = "accept"] /\ out' = [out EXCEPT ![C] = <<m>>]
        /\ UNCHANGED <<res, inbox, reset, noise, clientVars>>
    BY ClientTyped DEF ActivateKeys
  <1>2. /\ l \in SessionKeys
        /\ l.enc = ClientToServer(h).cipher /\ l.send_mac_key = ClientToServer(h).mac
        /\ l.dec = ServerToClient(h).cipher /\ l.recv_mac_key = ServerToClient(h).mac
    <2>1. h \in Hash /\ keys[C] \in SessionKeys
      BY <1>1, HashTyped, Parties DEF TransportTypeOK
    <2>2. /\ ServerToClient(h) = [cipher |-> ServerToClient(h).cipher, mac |-> ServerToClient(h).mac]
          /\ ClientToServer(h) = [cipher |-> ClientToServer(h).cipher, mac |-> ClientToServer(h).mac]
      BY DEF ServerToClient, ClientToServer
    <2> HIDE DEF h
    <2> QED
      BY <2>1, <2>2, KeyTypes, SwitchTyped
  <1>3. m \in Packet /\ m.type = "ServiceRequest"
    <2>1. "ssh-userauth" \in Text
      BY WordsAssumption DEF Words
    <2> QED
      BY <2>1, TextPacket DEF IsPacket
  <1> HIDE DEF l, m
  <1>4. /\ keys' \in [Peer -> SessionKeys] /\ keys'[C] = l /\ keys'[S] = keys[S]
        /\ kex' \in [Peer -> KexView]
    BY <1>1, <1>2, Parties DEF TransportTypeOK
  <1>5. <<m>> \in Seq(Packet) /\ \A x \in Elems(<<m>>) : x = m /\ Contents(x) /\ Runnable(x)
    BY <1>3, NoNumbers, OnePacket DEF Runnable
  <1>6. TypeInv' /\ Moves(C, "accept", <<m>>)
    <2>1. /\ "accept" \in ClientAt /\ mine' \in Manager /\ mine'.next_id = 0 /\ args' = args
          /\ printed' \in Nat /\ sawClose' \in BOOLEAN
          /\ stdin' \in [typed : 0 .. MaxLines, queued : 0 .. MPSC_CAPACITY, open : BOOLEAN]
          /\ "accept" \notin Opened
      BY <1>1, ClientTyped, Places DEF clientVars, Before, Opened
    <2>2. Takes("accept", <<m>>)
      BY <1>1 DEF Takes, TransportTypeOK
    <2> QED
      BY <1>4, <1>5, <2>1, <2>2, ClientMoves
  <1>7. /\ pc'[C] = "accept" /\ pc'[S] = pc[S] /\ out'[C] = <<m>>
        /\ inbox'[S] = inbox[S] /\ res' = res /\ args' = args
        /\ \A type : OnWay(S, type)' => OnWay(S, type)
    BY <1>6, Parties DEF Moves
  <1>8. InStep'
    BY <1>1, <1>7 DEF IInv, InStep, Past, Admitted
  <1>9. KeyInv'
    <2>1. /\ ClientDerived' /\ (Plain(keys[S])' <=> Plain(keys[S]))
          /\ (ServerDerived' <=> ServerDerived)
      BY <1>1, <1>2, <1>4 DEF ClientDerived, Plain, ServerDerived
    <2>2. Plain(keys[C])
      BY <1>1 DEF IInv, KeyInv, Keyed
    <2>3. pc[S] \notin {"auth", "loop"}
      <3>1. pc[S] \in {"auth", "loop"} => keys[C].enc = keys[S].dec /\ keys[S].dec # NoKey
        BY <1>1, DerivedOn DEF IInv, KeyInv, AgreeBeforeService, ServerKeyed
      <3> QED
        BY <2>2, <3>1 DEF Plain
    <2>4. AgreeBeforeService'
      BY <1>7, <2>3 DEF AgreeBeforeService
    <2>5. \A f \in Elems(inbox[S]) : f.cipher = NoKey
      BY <2>2 DEF Plain, IInv, KeyInv
    <2> QED
      BY <1>1, <1>4, <1>7, <2>1, <2>4, <2>5 DEF IInv, KeyInv, Keyed, Past
  <1>10. LoginInv'
    BY <1>3, <1>5, <1>7 DEF IInv, LoginInv, LoginChecked, Verified, Credentials
  <1> QED
    BY <1>6, <1>8, <1>9, <1>10 DEF IInv

LEMMA AcceptInv ==
    ASSUME IInv, RecvServiceAccept, UNCHANGED channels
    PROVE  IInv'
  <1> DEFINE m == SshPacket("UserAuthRequest",
                            <<args.login[1], "ssh-connection", "password", args.login[2]>>, <<>>)
  <1>1. /\ pc[C] = "accept" /\ Recv(C) /\ CountReceived(C)
        /\ Handled(C, "authreply", <<m>>) /\ UNCHANGED clientVars
    BY DEF RecvServiceAccept, ClientExpected
  <1>2. m \in Packet /\ m.type = "UserAuthRequest" /\ m.text = Credentials
    <2>1. "ssh-connection" \in Text /\ "password" \in Text
      BY WordsAssumption DEF Words
    <2>2. args.login[1] \in Text /\ args.login[2] \in Text
      BY ClientTyped DEF ArgsOK
    <2> QED
      BY <2>1, <2>2, AuthPacket DEF IsPacket, Credentials
  <1> HIDE DEF m
  <1>3. <<m>> \in Seq(Packet) /\ \A x \in Elems(<<m>>) : x = m /\ Contents(x) /\ Runnable(x)
    BY <1>2, NoNumbers, OnePacket DEF Runnable
  <1>4. /\ keys' \in [Peer -> SessionKeys] /\ \A q \in Peer : SameKeys(keys'[q], keys[q])
        /\ kex' = kex /\ kex' \in [Peer -> KexView]
    BY <1>1, ClientCounts
  <1>5. TypeInv' /\ Moves(C, "authreply", <<m>>)
    <2>1. /\ "authreply" \in ClientAt /\ mine' \in Manager /\ mine'.next_id = 0 /\ args' = args
          /\ printed' \in Nat /\ sawClose' \in BOOLEAN
          /\ stdin' \in [typed : 0 .. MaxLines, queued : 0 .. MPSC_CAPACITY, open : BOOLEAN]
          /\ "authreply" \notin Opened
      BY <1>1, ClientTyped, Places DEF clientVars, Before, Opened
    <2> QED
      BY <1>1, <1>3, <1>4, <2>1, HandledTakes, ClientMoves
  <1> QED
    BY <1>1, <1>2, <1>3, <1>4, <1>5, ClientKeyedInv DEF Keyed, Past, Admitted

LEMMA LetInInv ==
    ASSUME IInv, RecvAuthSuccess, UNCHANGED channels
    PROVE  IInv'
  <1> DEFINE m == SshPacket("ChannelOpen", <<"session">>, <<mine.next_id, DEFAULT_WINDOW_SIZE>>)
  <1>1. /\ pc[C] = "authreply" /\ Recv(C) /\ Msg(C).type = "UserAuthSuccess" /\ CountReceived(C)
        /\ mine' = OpenChannel(mine)
        /\ Handled(C, "confirm", <<m>>) /\ UNCHANGED <<args, printed, sawClose, stdin>>
    BY DEF RecvAuthSuccess, ClientExpected, ClientExpects
  <1>2. mine \in Manager /\ mine.next_id = 0 /\ 0 \in U32 /\ DEFAULT_WINDOW_SIZE \in U32
    BY <1>1, ClientTyped, ConnectionAssumption DEF Before, U32
  <1>3. IsPacket(m, "ChannelOpen", <<"session">>, <<0, DEFAULT_WINDOW_SIZE>>)
    <2>1. "session" \in Text
      BY WordsAssumption DEF Words
    <2>2. <<"session">> \in Seq(Text) /\ DEFAULT_WINDOW_SIZE \in Nat
      BY <2>1, ConnectionAssumption
    <2>3. IsPacket(SshPacket("ChannelOpen", <<"session">>, <<0, DEFAULT_WINDOW_SIZE>>),
                   "ChannelOpen", <<"session">>, <<0, DEFAULT_WINDOW_SIZE>>)
      BY <2>2, TwoNumPacket
    <2> QED
      BY <1>2, <2>3
  <1> HIDE DEF m
  <1>4. m \in Packet /\ m.type = "ChannelOpen" /\ Contents(m) /\ Runnable(m)
    BY <1>2, <1>3 DEF IsPacket, Contents, Runnable
  <1>5. <<m>> \in Seq(Packet) /\ \A x \in Elems(<<m>>) : x = m /\ Contents(x) /\ Runnable(x)
    BY <1>4, OnePacket
  <1>6. /\ keys' \in [Peer -> SessionKeys] /\ \A q \in Peer : SameKeys(keys'[q], keys[q])
        /\ kex' = kex /\ kex' \in [Peer -> KexView]
    BY <1>1, ClientCounts
  <1>7. mine' \in Manager /\ 0 \in DOMAIN mine'.channels
    BY <1>1, <1>2, NewTyped, InsertTyped DEF OpenChannel
  <1>8. TypeInv' /\ Moves(C, "confirm", <<m>>)
    <2>1. /\ "confirm" \in ClientAt /\ args' = args
          /\ printed' \in Nat /\ sawClose' \in BOOLEAN
          /\ stdin' \in [typed : 0 .. MaxLines, queued : 0 .. MPSC_CAPACITY, open : BOOLEAN]
          /\ "confirm" \notin Before
      BY <1>1, ClientTyped, Places DEF Before
    <2> QED
      BY <1>1, <1>5, <1>6, <1>7, <2>1, HandledTakes, ClientMoves
  <1>9. OnWay(S, "UserAuthSuccess")
    BY <1>1, ClientTyped, Received, Parties DEF OnWay, Msg
  <1> QED
    BY <1>1, <1>4, <1>5, <1>6, <1>8, <1>9, ClientKeyedInv DEF Keyed, Past

\* The numbers of the client's only channel.
LEMMA ConfirmTyped ==
    ASSUME NEW mgr \in Manager, 0 \in DOMAIN mgr.channels, NEW r \in U32, NEW w \in U32
    PROVE  /\ ConfirmChannel(mgr, 0, r, w) \in Manager
           /\ 0 \in DOMAIN ConfirmChannel(mgr, 0, r, w).channels
  <1> DEFINE ch == [mgr.channels[0] EXCEPT !.remote_id = r, !.remote_window = w]
  <1>1. mgr.channels[0] \in Channel
    BY DEF Manager
  <1>2. ch \in Channel
    BY <1>1 DEF Channel
  <1>3. ConfirmChannel(mgr, 0, r, w) = [mgr EXCEPT !.channels = [mgr.channels EXCEPT ![0] = ch]]
    BY <1>1 DEF ConfirmChannel, Manager
  <1> HIDE DEF ch
  <1>4. /\ [mgr EXCEPT !.channels = [mgr.channels EXCEPT ![0] = ch]] \in Manager
        /\ DOMAIN [mgr EXCEPT !.channels = [mgr.channels EXCEPT ![0] = ch]].channels
              = DOMAIN mgr.channels
    BY <1>2, ChangeTyped
  <1> QED
    BY <1>3, <1>4

LEMMA RemoteTyped ==
    ASSUME IInv, pc[C] \in Opened
    PROVE  remote_id \in Nat
  <1>1. mine.channels[0] \in Channel
    BY ClientTyped DEF Manager
  <1> QED
    BY <1>1, ConnectionAssumption DEF remote_id, Channel, U32

LEMMA DisconnectTyped == disconnect \in Packet /\ disconnect.type = "Disconnect"
  <1>1. "Session ended" \in Text
    BY WordsAssumption DEF Words
  <1>2. <<"Session ended">> \in Seq(Text)
    <2>1. \A x \in Text : <<x>> \in Seq(Text)
      OBVIOUS
    <2> QED
      BY <1>1, <2>1, Zenon
  <1>3. <<11>> \in Seq(Nat)
    OBVIOUS
  <1>4. IsPacket(disconnect, "Disconnect", <<"Session ended">>, <<11>>)
    BY <1>2, <1>3, BarePacket DEF disconnect
  <1> QED
    BY <1>4 DEF IsPacket

\* What the client writes once it has been let in.
Fine(m) == m \in Packet /\ m.type # "UserAuthRequest" /\ Contents(m) /\ Runnable(m)

LEMMA StartTyped ==
    ASSUME ArgsOK, NEW r \in Nat
    PROVE  \E m : Start(r) = <<m>> /\ Fine(m)
  <1>1. "exec" \in Text /\ "shell" \in Text /\ args.command \in Text
    BY WordsAssumption DEF Words, ArgsOK
  <1>2. CASE args.mode = "exec"
    <2> DEFINE t == <<"exec", args.command>>
               n == SshPacket("ChannelRequest", t, <<r>>)
               m == [n EXCEPT !.want = TRUE]
    <2>1. t \in Seq(Text) /\ t[2] \in DOMAIN Output
      BY <1>1, <1>2 DEF ArgsOK
    <2>2. Start(r) = <<m>>
      BY <1>2 DEF Start
    <2> HIDE DEF t
    <2>3. IsPacket(n, "ChannelRequest", t, <<r>>)
      BY <2>1, OneNumPacket
    <2> HIDE DEF n
    <2>4. IsPacket(m, "ChannelRequest", t, <<r>>)
      BY <2>3, WantPacket
    <2> HIDE DEF m
    <2>5. Fine(m)
      BY <2>1, <2>4 DEF IsPacket, Fine, Contents, Runnable
    <2> QED
      BY <2>2, <2>5
  <1>3. CASE args.mode = "interactive"
    <2> DEFINE t == <<"shell">>
               n == SshPacket("ChannelRequest", t, <<r>>)
               m == [n EXCEPT !.want = TRUE]
    <2>1. t \in Seq(Text) /\ t[1] # "exec"
      BY <1>1
    <2>2. Start(r) = <<m>>
      BY <1>3 DEF Start
    <2> HIDE DEF t
    <2>3. IsPacket(n, "ChannelRequest", t, <<r>>)
      BY <2>1, OneNumPacket
    <2> HIDE DEF n
    <2>4. IsPacket(m, "ChannelRequest", t, <<r>>)
      BY <2>3, WantPacket
    <2> HIDE DEF m
    <2>5. Fine(m)
      BY <2>1, <2>4 DEF IsPacket, Fine, Contents, Runnable
    <2> QED
      BY <2>2, <2>5
  <1>4. CASE args.mode = "none"
    <2>1. Start(r) = <<disconnect>>
      BY <1>4 DEF Start
    <2>2. Fine(disconnect)
      BY DisconnectTyped DEF Fine, Contents, Runnable
    <2> QED
      BY <2>1, <2>2
  <1> QED
    BY <1>2, <1>3, <1>4 DEF ArgsOK

\* A step of a client that has been let in.
LEMMA AdmittedInv ==
    ASSUME IInv, pc[C] \in Admitted, NEW next \in Admitted, NEW packets \in Seq(Packet),
           Takes(next, packets), \A m \in Elems(packets) : Fine(m),
           keys' \in [Peer -> SessionKeys], \A q \in Peer : SameKeys(keys'[q], keys[q]),
           kex' = kex, UNCHANGED <<channels, args>>,
           mine' \in Manager, next \in Opened => 0 \in DOMAIN mine'.channels,
           printed' \in Nat, sawClose' \in BOOLEAN,
           stdin' \in [typed : 0 .. MaxLines, queued : 0 .. MPSC_CAPACITY, open : BOOLEAN]
    PROVE  IInv'
  <1>1. /\ next \in ClientAt /\ next \notin Before /\ kex' \in [Peer -> KexView]
        /\ pc[C] \in Keyed /\ next \in Keyed
    BY Places, ClientTyped DEF Admitted, Before, Keyed, Past, TransportTypeOK
  <1>2. \A m \in Elems(packets) : Contents(m) /\ Runnable(m) /\ m.type # "UserAuthRequest"
    BY DEF Fine
  <1>3. TypeInv' /\ Moves(C, next, packets)
    BY <1>1, <1>2, ClientMoves
  <1> QED
    BY <1>1, <1>2, <1>3, ClientKeyedInv

LEMMA ConfirmedInv ==
    ASSUME IInv, RecvConfirmation, UNCHANGED channels
    PROVE  IInv'
  <1> DEFINE r == Msg(C)
             next == IF args.mode = "none" THEN "bye" ELSE args.mode
  <1>1. /\ pc[C] = "confirm" /\ Recv(C) /\ r.type = "ChannelOpenConfirmation"
        /\ CountReceived(C) /\ mine' = ConfirmChannel(mine, 0, r.num[2], r.num[3])
        /\ Handled(C, next, Start(r.num[2])) /\ UNCHANGED <<args, printed, sawClose, stdin>>
    BY DEF RecvConfirmation, ClientExpected, ClientExpects
  <1>2. r.num[2] \in U32 /\ r.num[3] \in U32
    <2>1. Contents(r)
      BY <1>1, ClientTyped, Received, Parties DEF IInv, TypeInv, Msg
    <2> QED
      BY <1>1, <2>1 DEF Contents
  <1> HIDE DEF r
  <1>3. next \in Admitted /\ pc[C] \in Admitted /\ pc[C] \in Opened
    BY <1>1, ClientTyped DEF ArgsOK, Admitted, Opened
  <1> HIDE DEF next
  <1>4. mine' \in Manager /\ 0 \in DOMAIN mine'.channels
    BY <1>1, <1>2, <1>3, ClientTyped, ConfirmTyped
  <1>5. PICK m : Start(r.num[2]) = <<m>> /\ Fine(m)
    BY <1>2, ClientTyped, StartTyped, ConnectionAssumption DEF U32
  <1>6. <<m>> \in Seq(Packet) /\ \A x \in Elems(<<m>>) : Fine(x)
    BY <1>5, OnePacket DEF Fine
  <1>7. Takes(next, <<m>>)
    BY <1>1, <1>5, HandledTakes
  <1>8. /\ keys' \in [Peer -> SessionKeys] /\ \A q \in Peer : SameKeys(keys'[q], keys[q])
        /\ kex' = kex /\ kex' \in [Peer -> KexView]
    BY <1>1, ClientCounts
  <1> QED
    BY <1>1, <1>3, <1>4, <1>6, <1>7, <1>8, ClientTyped, AdmittedInv

LEMMA ClientLoopInv ==
    ASSUME IInv, RecvData \/ RecvClose \/ RecvNothingToDo, UNCHANGED channels
    PROVE  IInv'
  <1>1. /\ Recv(C) /\ CountReceived(C) /\ pc[C] \in Looping
        /\ args' = args /\ mine' = mine /\ stdin' = stdin
    BY DEF RecvData, RecvClose, RecvNothingToDo, clientVars
  <1>2. pc[C] \in Opened /\ pc[C] \in Admitted /\ mine' \in Manager /\ 0 \in DOMAIN mine'.channels
    BY <1>1, ClientTyped DEF Looping, Opened, Admitted
  <1>3. /\ keys' \in [Peer -> SessionKeys] /\ \A q \in Peer : SameKeys(keys'[q], keys[q])
        /\ kex' = kex
    BY <1>1, ClientCounts
  <1>4. CASE RecvData
    <2>1. /\ Msg(C).type = "ChannelData" /\ printed' = printed + Msg(C).num[2]
          /\ Handled(C, pc[C], <<>>) /\ sawClose' = sawClose
      BY <1>4 DEF RecvData
    <2>2. Msg(C).num[2] \in Nat
      <3> DEFINE r == Msg(C)
      <3>1. r \in Packet /\ r.type = "ChannelData"
        BY <1>1, <2>1, ClientTyped, Received, Parties
      <3> HIDE DEF r
      <3>2. r.num \in Seq(Nat) /\ Len(r.num) = 2
        BY <3>1, FieldCounts DEF Packet
      <3>3. r.num[2] \in Nat
        BY <3>2
      <3> QED
        BY <3>3 DEF r
    <2>3. printed' \in Nat
      BY <2>1, <2>2, ClientTyped
    <2>4. Takes(pc[C], <<>>)
      BY <1>1, <2>1, HandledTakes
    <2> QED
      BY <1>1, <1>2, <1>3, <2>1, <2>3, <2>4, NoPacket, ClientTyped, AdmittedInv
  <1>5. CASE RecvClose
    <2> DEFINE m == SshPacket("ChannelClose", <<>>, <<remote_id>>)
    <2>1. /\ sawClose' = TRUE /\ printed' = printed /\ Handled(C, "bye", <<m, disconnect>>)
      BY <1>5 DEF RecvClose
    <2>2. m \in Packet /\ m.type = "ChannelClose"
      <3>1. remote_id \in Nat /\ <<>> \in Seq(Text)
        BY <1>2, RemoteTyped
      <3>2. IsPacket(m, "ChannelClose", <<>>, <<remote_id>>)
        BY <3>1, OneNumPacket
      <3> QED
        BY <3>2 DEF IsPacket
    <2> HIDE DEF m
    <2>3. Fine(m) /\ Fine(disconnect)
      BY <2>2, DisconnectTyped DEF Fine, Contents, Runnable
    <2>4. /\ <<m, disconnect>> \in Seq(Packet)
          /\ \A x \in Elems(<<m, disconnect>>) : Fine(x)
      BY <2>3, TwoPackets DEF Fine
    <2>5. Takes("bye", <<m, disconnect>>) /\ "bye" \in Admitted
      BY <1>1, <2>1, HandledTakes DEF Admitted
    <2> QED
      BY <1>1, <1>2, <1>3, <2>1, <2>4, <2>5, ClientTyped, AdmittedInv
  <1>6. CASE RecvNothingToDo
    <2>1. printed' = printed /\ sawClose' = sawClose /\ Handled(C, pc[C], <<>>)
      BY <1>6 DEF RecvNothingToDo, clientVars
    <2>2. Takes(pc[C], <<>>)
      BY <1>1, <2>1, HandledTakes
    <2> QED
      BY <1>1, <1>2, <1>3, <2>1, <2>2, NoPacket, ClientTyped, AdmittedInv
  <1> QED
    BY <1>4, <1>5, <1>6

\* Leaving the loop at the end of the stream; sending a line that was typed.
LEMMA UnpromptedInv ==
    ASSUME IInv, ServerGone \/ SendLine, UNCHANGED channels
    PROVE  IInv'
  <1>1. /\ keys' = keys /\ kex' = kex /\ inbox' = inbox /\ UNCHANGED <<res, reset, noise>>
        /\ args' = args /\ mine' = mine /\ printed' = printed /\ sawClose' = sawClose
        /\ pc[C] \in Looping
    BY DEF ServerGone, SendLine, Interactive, Looping, clientVars
  <1>2. /\ pc[C] \in Opened /\ pc[C] \in Admitted /\ mine' \in Manager
        /\ 0 \in DOMAIN mine'.channels /\ TransportTypeOK
        /\ keys' \in [Peer -> SessionKeys] /\ \A q \in Peer : SameKeys(keys'[q], keys[q])
    BY <1>1, ClientTyped DEF Looping, Opened, Admitted, TransportTypeOK, SameKeys
  <1>3. CASE ServerGone
    <2>1. Takes("bye", <<disconnect>>) /\ "bye" \in Admitted /\ stdin' = stdin
      BY <1>1, <1>2, <1>3 DEF ServerGone, Takes, TransportTypeOK, Admitted, clientVars
    <2>2. Fine(disconnect)
      BY DisconnectTyped DEF Fine, Contents, Runnable
    <2>3. <<disconnect>> \in Seq(Packet) /\ \A x \in Elems(<<disconnect>>) : Fine(x)
      BY <2>2, OnePacket DEF Fine
    <2> QED
      BY <1>1, <1>2, <2>1, <2>3, ClientTyped, AdmittedInv
  <1>4. CASE SendLine
    <2> DEFINE m == SshPacket("ChannelData", <<"line">>, <<remote_id, 1>>)
    <2>1. m \in Packet /\ m.type = "ChannelData"
      <3>1. remote_id \in Nat /\ 1 \in Nat
        BY <1>2, RemoteTyped
      <3>2. m = build_channel_data(remote_id, "line", 1)
        BY DEF build_channel_data
      <3> QED
        BY <3>1, <3>2, DataTyped
    <2>2. /\ pc' = pc /\ out' = [out EXCEPT ![C] = <<m>>]
          /\ stdin' = [stdin EXCEPT !.queued = @ - 1] /\ stdin.queued > 0
      BY <1>4 DEF SendLine
    <2> HIDE DEF m
    <2>3. Takes(pc[C], <<m>>)
      <3>1. pc' = [pc EXCEPT ![C] = pc[C]]
        BY <2>2, Parties DEF IInv, TypeInv, TypeOK
      <3> QED
        BY <1>1, <1>2, <2>2, <3>1 DEF Takes, TransportTypeOK
    <2>4. MPSC_CAPACITY \in Nat
      BY ClientAssumption
    <2>5. stdin' \in [typed : 0 .. MaxLines, queued : 0 .. MPSC_CAPACITY, open : BOOLEAN]
      <3> DEFINE n == stdin.queued - 1
      <3>1. stdin.queued \in 0 .. MPSC_CAPACITY
        BY ClientTyped
      <3>2. n \in 0 .. MPSC_CAPACITY
        BY <2>2, <3>1, <2>4
      <3>3. stdin' = [stdin EXCEPT !.queued = n]
        BY <2>2
      <3> HIDE DEF n
      <3> QED
        BY <3>2, <3>3, ClientTyped
    <2>6. Fine(m)
      BY <2>1 DEF Fine, Contents, Runnable
    <2>7. <<m>> \in Seq(Packet) /\ \A x \in Elems(<<m>>) : Fine(x)
      BY <2>6, OnePacket DEF Fine
    <2> QED
      BY <1>1, <1>2, <2>3, <2>5, <2>7, ClientTyped, AdmittedInv
  <1> QED
    BY <1>3, <1>4

LEMMA ClientEndsInv ==
    ASSUME IInv, ReturnOk \/ ClientRejects \/ ClientIo, UNCHANGED channels
    PROVE  IInv'
  <1>1. CASE ReturnOk
    <2>1. Gone(C, "Ok") /\ UNCHANGED clientVars /\ pc[C] = "bye"
      BY <1>1, Parties, ReturnGone DEF ReturnOk, IInv, TypeInv, TypeOK
    <2> QED
      BY <2>1, Parties, GoneInv DEF Results
  <1>2. CASE ClientRejects
    <2>1. /\ Recv(C) /\ UNCHANGED clientVars
          /\ \E r \in Results \ {"Ok"} : Rejected(C, r)
      BY <1>2 DEF ClientRejects, ParseErrors, WrongType, Results
    <2> QED
      BY <2>1, Parties, RejectedInv
  <1>3. CASE ClientIo
    BY <1>3, Parties, IoInv DEF ClientIo
  <1> QED
    BY <1>1, <1>2, <1>3

LEMMA ClientInv == IInv /\ ClientStep => IInv'
  BY ClientEarly, ClientNewKeysInv, ActivateInv, AcceptInv, LetInInv, ConfirmedInv,
     ClientLoopInv, UnpromptedInv, ClientEndsInv
     DEF ClientStep, ClientNext

LEMMA UserInv == IInv /\ UserStep => IInv'
  <1> SUFFICES ASSUME IInv, UserStep PROVE IInv'
    OBVIOUS
  <1>1. /\ UNCHANGED <<transport, channels, args, mine>>
        /\ printed' \in Nat /\ sawClose' \in BOOLEAN
    BY ClientTyped DEF UserStep, User, TypeLine, StdinEof
  <1>2. stdin' \in [typed : 0 .. MaxLines, queued : 0 .. MPSC_CAPACITY, open : BOOLEAN]
    <2>1. MPSC_CAPACITY \in Nat /\ MaxLines \in Nat
      BY ClientAssumption
    <2>2. CASE TypeLine
      <3> DEFINE t == stdin.typed + 1
                 n == stdin.queued + 1
      <3>1. stdin.typed \in 0 .. MaxLines /\ stdin.queued \in 0 .. MPSC_CAPACITY
        BY ClientTyped
      <3>2. stdin.typed < MaxLines /\ stdin.queued < MPSC_CAPACITY
        BY <2>2 DEF TypeLine
      <3>3. t \in 0 .. MaxLines /\ n \in 0 .. MPSC_CAPACITY
        BY <3>1, <3>2, <2>1
      <3>4. stdin' = [stdin EXCEPT !.typed = t, !.queued = n]
        BY <2>2 DEF TypeLine
      <3> HIDE DEF t, n
      <3> QED
        BY <3>3, <3>4, ClientTyped
    <2>3. CASE StdinEof
      BY <2>3, ClientTyped DEF StdinEof
    <2> QED
      BY <2>2, <2>3 DEF UserStep, User
  <1> QED
    BY <1>1, <1>2, AsideInv

-----------------------------------------------------------------------------
LEMMA InitInv == Init => IInv
  <1> SUFFICES ASSUME Init PROVE IInv
    OBVIOUS
  <1> DEFINE m == SshPacket("Version", <<SSH_VERSION_STRING>>, <<>>)
  <1>1. m \in Packet /\ m.type = "Version"
    <2>1. SSH_VERSION_STRING \in Text
      BY WordsAssumption DEF Words
    <2> QED
      BY <2>1, TextPacket DEF IsPacket
  <1>2. /\ pc = [p \in Peer |-> "version"] /\ out = [p \in Peer |-> <<m>>]
        /\ res = [p \in Peer |-> "running"] /\ keys = [p \in Peer |-> NewSessionKeys]
        /\ kex = [p \in Peer |-> NothingYet] /\ inbox = [p \in Peer |-> <<>>]
        /\ reset = FALSE /\ noise = 0
        /\ channels = NewManager /\ mine = NewManager /\ printed = 0 /\ sawClose = FALSE
        /\ stdin = [typed |-> 0, queued |-> 0, open |-> TRUE]
    BY DEF Init, TransportInit, ServerInit, ClientInit
  <1> HIDE DEF m
  <1>3. /\ pc[C] = "version" /\ pc[S] = "version" /\ pc \in [Peer -> ServerAt \cup ClientAt]
        /\ out[C] = <<m>> /\ out[S] = <<m>> /\ inbox[C] = <<>> /\ inbox[S] = <<>>
        /\ res[C] = "running" /\ keys[C] = NewSessionKeys /\ keys[S] = NewSessionKeys
        /\ kex[S] = NothingYet
    BY <1>2, Parties, Places
  <1>4. /\ <<m>> \in Seq(Packet) /\ Elems(<<m>>) = {m} /\ Elems(<<>>) = {}
        /\ Contents(m) /\ Runnable(m)
    BY <1>1, OnePacket, NoNumbers, NothingElse DEF Runnable
  <1>5. /\ NewManager \in Manager /\ NewManager.next_id = 0
        /\ \A id \in DOMAIN NewManager.channels : FALSE
    <2> DEFINE f == [id \in {} |-> 0]
    <2>1. f \in [{} -> Channel] /\ {} \in SUBSET U32 /\ 0 \in U32 /\ DOMAIN f = {}
      BY ConnectionAssumption DEF U32
    <2>2. NewManager = [channels |-> f, next_id |-> 0]
      BY DEF NewManager
    <2> HIDE DEF f
    <2> QED
      BY <2>1, <2>2 DEF Manager
  <1>6. TransportTypeOK
    <2>1. NewSessionKeys \in SessionKeys
      BY TransportAssumption DEF NewSessionKeys, SessionKeys, Cipher, Key
    <2>2. NothingYet \in KexView
      BY WordsAssumption DEF NothingYet, KexView, Words
    <2>3. "running" \in Results /\ <<>> \in Seq(Frames)
      BY DEF Results
    <2>4. noise \in 0 .. MaxNoise
      BY <1>2, TransportAssumption
    <2> QED
      BY <1>2, <1>4, <2>1, <2>2, <2>3, <2>4 DEF TransportTypeOK
  <1>7. TypeOK
    <2>1. stdin \in [typed : 0 .. MaxLines, queued : 0 .. MPSC_CAPACITY, open : BOOLEAN]
      <3>1. MPSC_CAPACITY \in Nat /\ MaxLines \in Nat
        BY ClientAssumption
      <3>2. 0 \in 0 .. MaxLines /\ 0 \in 0 .. MPSC_CAPACITY
        BY <3>1
      <3> QED
        BY <1>2, <3>2
    <2>2. \A mgr \in {channels, mine} :
             \A id \in DOMAIN mgr.channels : id \in U32 /\ mgr.channels[id] \in Channel
      BY <1>2, <1>5
    <2>3. pc[S] \in ServerAt /\ pc[C] \in ClientAt
      BY <1>3, Places
    <2>4. printed \in Nat /\ sawClose \in BOOLEAN
      BY <1>2
    <2> QED
      BY <1>3, <1>6, <2>1, <2>2, <2>3, <2>4 DEF TypeOK
  <1>8. ArgsOK
    <2>1. /\ args.login \in Logins /\ args.mode \in Modes
          /\ args.command \in Commands \cup {NoCommand}
          /\ args.mode = "exec" => args.command # NoCommand
      BY DEF Init, ClientInit
    <2>2. NoCommand \in Text
      BY WordsAssumption DEF Words, NoCommand
    <2> QED
      BY <2>1, <2>2, ClientAssumption, SessionAssumption DEF ArgsOK
  <1>9. TypeInv
    BY <1>2, <1>3, <1>4, <1>5, <1>7, <1>8, Parties DEF TypeInv
  <1>10. ~OnWay(C, "NewKeys") /\ ~OnWay(S, "NewKeys") /\ ~OnWay(S, "UserAuthSuccess")
    BY <1>1, <1>3, <1>4, Parties DEF OnWay
  <1>11. InStep
    BY <1>3, <1>10 DEF InStep, ServerKeyed, Past, Admitted
  <1>12. KeyInv
    <2>1. Plain(keys[C]) /\ Plain(keys[S])
      BY <1>3 DEF Plain, NewSessionKeys
    <2>2. kex[S].host_key = Empty
      BY <1>3 DEF NothingYet
    <2>3. AgreeBeforeService
      BY <1>3 DEF AgreeBeforeService
    <2>4. pc[C] \notin Keyed \cup {"done"} /\ pc[S] \notin ServerKeyed
      BY <1>3 DEF Keyed, Past, ServerKeyed
    <2> QED
      BY <1>1, <1>3, <1>4, <2>2, <2>3, <2>4, <2>1 DEF KeyInv
  <1>13. LoginInv
    BY <1>1, <1>3, <1>4, <1>10 DEF LoginInv, LoginChecked
  <1> QED
    BY <1>9, <1>11, <1>12, <1>13 DEF IInv

LEMMA NextInv == IInv /\ [Next]_vars => IInv'
  <1> SUFFICES ASSUME IInv, [Next]_vars PROVE IInv'
    OBVIOUS
  <1>1. CASE ServerStep
    BY <1>1, ServerInv
  <1>2. CASE ClientStep
    BY <1>2, ClientInv
  <1>3. CASE UserStep
    BY <1>3, UserInv
  <1>4. CASE Network
    BY <1>4, Parties, DamageInv, BreakInv DEF Network
  <1>5. CASE UNCHANGED vars
    BY <1>5, ClientTyped, AsideInv DEF vars, clientVars
  <1> QED
    BY <1>1, <1>2, <1>3, <1>4, <1>5 DEF Next, Finished

THEOREM Invariance == Spec => []IInv
  BY InitInv, NextInv, PTL DEF Spec

-----------------------------------------------------------------------------
(* What the invariant says. *)

\* The variables of both programs have their types whatever they send each
\* other: packets have the fields that their readers take out of them, channel
\* numbers and windows stay u32s, and no lookup misses.
THEOREM TypeCorrect == Spec => []TypeOK
  <1>1. IInv => TypeOK
    BY DEF IInv, TypeInv
  <1> QED
    BY <1>1, Invariance, PTL

\* A server that accepts a service request shares all keys and the whole view
\* of the key exchange with the client, however many handshake packets were
\* damaged on the way and wherever.
THEOREM KeysAgree == Spec => []AgreeBeforeService
  <1>1. IInv => AgreeBeforeService
    BY DEF IInv, KeyInv
  <1> QED
    BY <1>1, Invariance, PTL

\* Nobody gets to channels, and no client ends well, without the password that
\* the UserDatabase has.
THEOREM PasswordChecked == Spec => []LoginChecked
  <1>1. IInv => LoginChecked
    BY DEF IInv, LoginInv
  <1> QED
    BY <1>1, Invariance, PTL

-----------------------------------------------------------------------------
(* The refinement of module Lifecycle. *)

Phase == [p \in Peer |-> IF p = S THEN ServerPhase[pc[S]] ELSE ClientPhase[pc[C]]]

\* Where a step takes a program.
ServerEdges ==
    {<<"version", "kexinit">>, <<"kexinit", "ecdh">>, <<"ecdh", "newkeys">>,
     <<"newkeys", "service">>, <<"service", "auth">>, <<"auth", "auth">>, <<"auth", "loop">>,
     <<"loop", "loop">>}

ClientEdges ==
    {<<"version", "kexinit">>, <<"kexinit", "reply">>, <<"reply", "newkeys">>,
     <<"newkeys", "activate">>, <<"activate", "accept">>, <<"accept", "authreply">>,
     <<"authreply", "confirm">>}
    \cup (Admitted \X Admitted)

Follows ==
    \/ pc' = pc
    \/ \E p \in Peer : pc' = [pc EXCEPT ![p] = "done"]
    \/ \E e \in ServerEdges : pc[S] = e[1] /\ pc' = [pc EXCEPT ![S] = e[2]]
    \/ \E e \in ClientEdges : pc[C] = e[1] /\ pc' = [pc EXCEPT ![C] = e[2]]

LEMMA IoFollows ==
    ASSUME NEW p \in Peer, NEW handled, Write(p) \/ RecvGarbled(p) \/ RecvFails(p, handled)
    PROVE  Follows
  BY DEF Write, Send, SendTooLarge, SendFails, RecvGarbled, RecvFails, Return, Follows

LEMMA RejectedFollows ==
    ASSUME NEW p \in Peer, NEW result, Rejected(p, result)
    PROVE  Follows
  BY DEF Rejected, Return, Follows

LEMMA ServerFollows ==
    ASSUME ServerNext
    PROVE  Follows
  <1> DEFINE To(from, to) == /\ pc[S] = from /\ <<from, to>> \in ServerEdges
                             /\ pc' = [pc EXCEPT ![S] = to]
  <1>1. \A from, to : To(from, to) => Follows
    BY DEF Follows
  <1>2. CASE RecvClientVersion \/ RecvClientKexInit \/ RecvEcdhInit \/ RecvClientNewKeys
    <2>1. \/ To("version", "kexinit") \/ To("kexinit", "ecdh") \/ To("ecdh", "newkeys")
          \/ To("newkeys", "service")
      BY <1>2 DEF RecvClientVersion, RecvClientKexInit, RecvEcdhInit, RecvClientNewKeys,
                  Expected, Handled, ServerEdges
    <2> HIDE DEF To
    <2> QED
      BY <1>1, <2>1
  <1>3. CASE RecvServiceRequest \/ RecvAuthRequest
    <2>1. \/ To("service", "auth") \/ To("auth", "auth") \/ To("auth", "loop")
          \/ Rejected(S, "AuthFailed")
      BY <1>3 DEF RecvServiceRequest, RecvAuthRequest, Expected, Handled, ServerEdges
    <2> HIDE DEF To
    <2> QED
      BY <1>1, <2>1, Parties, RejectedFollows
  <1>4. CASE \/ RecvChannelOpen \/ RecvExec \/ RecvRequest \/ RecvChannelData
             \/ RecvWindowAdjust \/ RecvChannelEof \/ RecvChannelClose \/ RecvOther
    <2>1. \/ pc[S] = "loop" /\ \E packets : Replies(packets)
          \/ \E r : Rejected(S, r)
      BY <1>4 DEF RecvChannelOpen, RecvExec, RecvRequest, RecvChannelData, RecvWindowAdjust,
                  RecvChannelEof, RecvChannelClose, RecvOther, InLoop
    <2>2. (pc[S] = "loop" /\ \E packets : Replies(packets)) => To("loop", "loop")
      BY DEF Replies, Handled, ServerEdges
    <2> HIDE DEF To
    <2> QED
      BY <1>1, <2>1, <2>2, Parties, RejectedFollows
  <1>5. CASE RecvDisconnect \/ ServerRejects
    <2>1. \E r : Rejected(S, r)
      BY <1>5 DEF RecvDisconnect, ServerRejects
    <2> QED
      BY <2>1, Parties, RejectedFollows
  <1>6. CASE ClientGone
    BY <1>6, Parties DEF ClientGone, Return, Follows
  <1>7. CASE ServerIo
    BY <1>7, Parties, IoFollows DEF ServerIo
  <1> QED
    BY <1>2, <1>3, <1>4, <1>5, <1>6, <1>7 DEF ServerNext

LEMMA ClientFollows ==
    ASSUME IInv, ClientNext
    PROVE  Follows
  <1> DEFINE To(from, to) == /\ pc[C] = from /\ <<from, to>> \in ClientEdges
                             /\ pc' = [pc EXCEPT ![C] = to]
  <1>1. \A from, to : To(from, to) => Follows
    BY DEF Follows
  <1>2. CASE \/ RecvServerVersion \/ RecvServerKexInit \/ RecvEcdhReply \/ RecvServerNewKeys
             \/ ActivateKeys \/ RecvServiceAccept \/ RecvAuthSuccess
    <2>1. \/ To("version", "kexinit") \/ To("kexinit", "reply") \/ To("reply", "newkeys")
          \/ To("newkeys", "activate") \/ To("activate", "accept") \/ To("accept", "authreply")
          \/ To("authreply", "confirm")
      BY <1>2 DEF RecvServerVersion, RecvServerKexInit, RecvEcdhReply, RecvServerNewKeys,
                  ActivateKeys, RecvServiceAccept, RecvAuthSuccess, ClientExpected, Handled,
                  ClientEdges
    <2> HIDE DEF To
    <2> QED
      BY <1>1, <2>1
  <1>3. CASE RecvConfirmation \/ RecvData \/ RecvClose \/ RecvNothingToDo \/ ServerGone
    <2>1. pc[C] \in Admitted /\ \E to \in Admitted : pc' = [pc EXCEPT ![C] = to]
      BY <1>3, ClientTyped DEF RecvConfirmation, RecvData, RecvClose, RecvNothingToDo,
               ServerGone, ClientExpected, Handled, Looping, Admitted, ArgsOK
    <2>2. PICK to \in Admitted : To(pc[C], to)
      BY <2>1 DEF ClientEdges
    <2> HIDE DEF To
    <2> QED
      BY <1>1, <2>2
  <1>4. CASE SendLine
    BY <1>4 DEF SendLine, Follows
  <1>5. CASE ReturnOk
    BY <1>5, Parties DEF ReturnOk, Return, Follows
  <1>6. CASE ClientRejects
    <2>1. \E r : Rejected(C, r)
      BY <1>6 DEF ClientRejects
    <2> QED
      BY <2>1, Parties, RejectedFollows
  <1>7. CASE ClientIo
    BY <1>7, Parties, IoFollows DEF ClientIo
  <1> QED
    BY <1>2, <1>3, <1>4, <1>5, <1>6, <1>7 DEF ClientNext

LEMMA NextFollows ==
    ASSUME IInv, [Next]_vars
    PROVE  Follows
  <1>1. CASE ServerStep
    BY <1>1, ServerFollows DEF ServerStep
  <1>2. CASE ClientStep
    BY <1>2, ClientFollows DEF ClientStep
  <1>3. CASE UserStep
    BY <1>3 DEF UserStep, User, TypeLine, StdinEof, transport, Follows
  <1>4. CASE Network
    BY <1>4 DEF Network, Damage, Break, Follows
  <1>5. CASE UNCHANGED vars
    BY <1>5 DEF vars, transport, Follows
  <1> QED
    BY <1>1, <1>2, <1>3, <1>4, <1>5 DEF Next, Finished

LEMMA PhaseOf ==
    ASSUME TypeOK
    PROVE  /\ Phase["server"] = ServerPhase[pc[S]] /\ Phase["client"] = ClientPhase[pc[C]]
           /\ Phase \in [Phases!Party -> Phases!SessionState]
           /\ pc[S] # "done" => ServerPhase[pc[S]] # "Disconnected"
           /\ pc[C] # "done" => ClientPhase[pc[C]] # "Disconnected"
  <1>1. /\ pc[S] \in ServerAt /\ pc[C] \in ClientAt
        /\ ServerPhase[pc[S]] \in Phases!SessionState
        /\ ClientPhase[pc[C]] \in Phases!SessionState
        /\ pc[S] # "done" => ServerPhase[pc[S]] # "Disconnected"
        /\ pc[C] # "done" => ClientPhase[pc[C]] # "Disconnected"
    BY Places DEF TypeOK, ServerPhase, ClientPhase, Phases!SessionState
  <1> QED
    BY <1>1 DEF Phase, C, S, Peer, Phases!Party

\* A step of one program changes its own phase only.
LEMMA OnePhase ==
    ASSUME TypeOK, TypeOK'
    PROVE  /\ pc'[C] = pc[C] => Phase' = [Phase EXCEPT !["server"] = ServerPhase[pc'[S]]]
           /\ pc'[S] = pc[S] => Phase' = [Phase EXCEPT !["client"] = ClientPhase[pc'[C]]]
  <1>1. Phase'["server"] = ServerPhase[pc'[S]] /\ Phase'["client"] = ClientPhase[pc'[C]]
    BY DEF Phase, C, S, Peer
  <1> QED
    BY <1>1, PhaseOf DEF Phase, C, S, Peer

LEMMA Entered ==
    ASSUME NEW p, NEW from, NEW to, NEW q, NEW others, Phase[p] = from,
           Phase[q] \in others \cup {"Disconnected"}, Phase' = [Phase EXCEPT ![p] = to]
    PROVE  Phases!Enter(p, from, to, q, others)
  BY DEF Phases!Enter, Phase

LEMMA StepRefines ==
    ASSUME IInv, IInv', Follows
    PROVE  Phases!Next \/ Phase' = Phase
  <1>1. TypeOK /\ TypeOK' /\ InStep /\ InStep' /\ pc \in [Peer -> ServerAt \cup ClientAt]
    BY DEF IInv, TypeInv, TypeOK
  <1>2. CASE pc' = pc
    BY <1>2 DEF Phase
  <1>3. ASSUME NEW p \in Peer, pc' = [pc EXCEPT ![p] = "done"]
        PROVE  Phases!Next \/ Phase' = Phase
    <2>1. CASE pc[p] = "done"
      <3>1. pc' = pc
        BY <1>1, <1>3, <2>1
      <3> QED
        BY <3>1 DEF Phase
    <2>2. CASE pc[p] # "done"
      <3>1. /\ p = S => pc'[S] = "done" /\ pc'[C] = pc[C]
            /\ p = C => pc'[C] = "done" /\ pc'[S] = pc[S]
        BY <1>1, <1>3, Parties
      <3>2. ServerPhase["done"] = "Disconnected" /\ ClientPhase["done"] = "Disconnected"
        BY DEF ServerPhase, ClientPhase
      <3>3. p = S \/ p = C
        BY Parties
      <3>4. Phases!Disconnect("server") \/ Phases!Disconnect("client")
        BY <1>1, <2>2, <3>1, <3>2, <3>3, PhaseOf, OnePhase DEF Phases!Disconnect, Phase
      <3> QED
        BY <3>4 DEF Phases!Next, Phases!Party
    <2> QED
      BY <2>1, <2>2
  <1>4. ASSUME NEW e \in ServerEdges, pc[S] = e[1], pc' = [pc EXCEPT ![S] = e[2]]
        PROVE  Phases!Next \/ Phase' = Phase
    <2>1. pc'[S] = e[2] /\ pc'[C] = pc[C]
      BY <1>1, <1>4, Parties
    <2>2. Phase' = [Phase EXCEPT !["server"] = ServerPhase[e[2]]]
      BY <1>1, <2>1, OnePhase
    <2>3. pc[C] \in ClientAt
      BY <1>1 DEF TypeOK
    <2>4. CASE ServerPhase[e[1]] = ServerPhase[e[2]]
      BY <1>1, <1>4, <2>2, <2>4, PhaseOf
    <2>5. CASE e = <<"version", "kexinit">>
      <3>1. ClientPhase[pc[C]] \in {"VersionExchange", "KeyExchange", "Disconnected"}
        BY <1>1, <1>4, <2>3, <2>5, Places
           DEF InStep, Past, ServerKeyed, ClientPhase
      <3>2. ServerPhase["version"] = "VersionExchange" /\ ServerPhase["kexinit"] = "KeyExchange"
        BY DEF ServerPhase
      <3>3. e[1] = "version" /\ e[2] = "kexinit"
        BY <2>5
      <3>4. /\ Phase["server"] = "VersionExchange"
            /\ Phase' = [Phase EXCEPT !["server"] = "KeyExchange"]
        BY <1>1, <1>4, <2>2, <3>2, <3>3, PhaseOf
      <3>5. Phase["client"] \in {"VersionExchange", "KeyExchange"} \cup {"Disconnected"}
        BY <1>1, <3>1, PhaseOf
      <3>6. Phases!ServerKeyExchange
        BY <3>4, <3>5, Entered DEF Phases!ServerKeyExchange
      <3> QED
        BY <3>6 DEF Phases!Next
    <2>6. CASE e = <<"newkeys", "service">>
      <3>1. ClientPhase[pc[C]] \in {"Authenticated", "Disconnected"}
        BY <1>1, <1>4, <2>1, <2>3, <2>6, Places
           DEF InStep, Past, ServerKeyed, Admitted, ClientPhase
      <3>2. ServerPhase["newkeys"] = "KeyExchange" /\ ServerPhase["service"] = "Authenticated"
        BY DEF ServerPhase
      <3>3. e[1] = "newkeys" /\ e[2] = "service"
        BY <2>6
      <3>4. /\ Phase["server"] = "KeyExchange"
            /\ Phase' = [Phase EXCEPT !["server"] = "Authenticated"]
        BY <1>1, <1>4, <2>2, <3>2, <3>3, PhaseOf
      <3>5. Phase["client"] \in {"Authenticated"} \cup {"Disconnected"}
        BY <1>1, <3>1, PhaseOf
      <3>6. Phases!ServerKeys
        BY <3>4, <3>5, Entered DEF Phases!ServerKeys
      <3> QED
        BY <3>6 DEF Phases!Next
    <2>7. CASE e = <<"auth", "loop">>
      <3>1. ClientPhase[pc[C]] \in {"Authenticated", "Disconnected"}
        BY <1>1, <1>4, <2>1, <2>3, <2>7, Places
           DEF InStep, Past, ServerKeyed, Admitted, ClientPhase
      <3>2. ServerPhase["auth"] = "Authenticated" /\ ServerPhase["loop"] = "Active"
        BY DEF ServerPhase
      <3>3. e[1] = "auth" /\ e[2] = "loop"
        BY <2>7
      <3>4. /\ Phase["server"] = "Authenticated"
            /\ Phase' = [Phase EXCEPT !["server"] = "Active"]
        BY <1>1, <1>4, <2>2, <3>2, <3>3, PhaseOf
      <3>5. Phase["client"] \in {"Authenticated"} \cup {"Disconnected"}
        BY <1>1, <3>1, PhaseOf
      <3>6. Phases!ServerActive
        BY <3>4, <3>5, Entered DEF Phases!ServerActive
      <3> QED
        BY <3>6 DEF Phases!Next
    <2> QED
      BY <2>4, <2>5, <2>6, <2>7 DEF ServerEdges, ServerPhase
  <1>5. ASSUME NEW e \in ClientEdges, pc[C] = e[1], pc' = [pc EXCEPT ![C] = e[2]]
        PROVE  Phases!Next \/ Phase' = Phase
    <2>1. pc'[C] = e[2] /\ pc'[S] = pc[S]
      BY <1>1, <1>5, Parties
    <2>2. Phase' = [Phase EXCEPT !["client"] = ClientPhase[e[2]]]
      BY <1>1, <2>1, OnePhase
    <2>3. pc[S] \in ServerAt
      BY <1>1 DEF TypeOK
    <2>4. CASE ClientPhase[e[1]] = ClientPhase[e[2]]
      BY <1>1, <1>5, <2>2, <2>4, PhaseOf
    <2>5. CASE e = <<"version", "kexinit">>
      <3>1. ServerPhase[pc[S]] \in {"VersionExchange", "KeyExchange", "Disconnected"}
        BY <1>1, <1>5, <2>3, <2>5, Places
           DEF InStep, Past, ServerKeyed, ServerPhase
      <3>2. ClientPhase["version"] = "VersionExchange" /\ ClientPhase["kexinit"] = "KeyExchange"
        BY DEF ClientPhase
      <3>3. e[1] = "version" /\ e[2] = "kexinit"
        BY <2>5
      <3>4. /\ Phase["client"] = "VersionExchange"
            /\ Phase' = [Phase EXCEPT !["client"] = "KeyExchange"]
        BY <1>1, <1>5, <2>2, <3>2, <3>3, PhaseOf
      <3>5. Phase["server"] \in {"VersionExchange", "KeyExchange"} \cup {"Disconnected"}
        BY <1>1, <3>1, PhaseOf
      <3>6. Phases!ClientKeyExchange
        BY <3>4, <3>5, Entered DEF Phases!ClientKeyExchange
      <3> QED
        BY <3>6 DEF Phases!Next
    <2>6. CASE e = <<"newkeys", "activate">>
      <3>1. ServerPhase[pc[S]] \in {"KeyExchange", "Disconnected"}
        BY <1>1, <1>5, <2>1, <2>3, <2>6, Places
           DEF InStep, Past, ServerKeyed, ServerPhase
      <3>2. ClientPhase["newkeys"] = "KeyExchange" /\ ClientPhase["activate"] = "Authenticated"
        BY DEF ClientPhase
      <3>3. e[1] = "newkeys" /\ e[2] = "activate"
        BY <2>6
      <3>4. /\ Phase["client"] = "KeyExchange"
            /\ Phase' = [Phase EXCEPT !["client"] = "Authenticated"]
        BY <1>1, <1>5, <2>2, <3>2, <3>3, PhaseOf
      <3>5. Phase["server"] \in {"KeyExchange"} \cup {"Disconnected"}
        BY <1>1, <3>1, PhaseOf
      <3>6. Phases!ClientKeys
        BY <3>4, <3>5, Entered DEF Phases!ClientKeys
      <3> QED
        BY <3>6 DEF Phases!Next
    <2>7. CASE e = <<"authreply", "confirm">>
      <3>1. ServerPhase[pc[S]] \in {"Active", "Disconnected"}
        BY <1>1, <1>5, <2>1, <2>3, <2>7, Places
           DEF InStep, Admitted, ServerPhase
      <3>2. ClientPhase["authreply"] = "Authenticated" /\ ClientPhase["confirm"] = "Active"
        BY DEF ClientPhase
      <3>3. e[1] = "authreply" /\ e[2] = "confirm"
        BY <2>7
      <3>4. /\ Phase["client"] = "Authenticated"
            /\ Phase' = [Phase EXCEPT !["client"] = "Active"]
        BY <1>1, <1>5, <2>2, <3>2, <3>3, PhaseOf
      <3>5. Phase["server"] \in {"Active"} \cup {"Disconnected"}
        BY <1>1, <3>1, PhaseOf
      <3>6. Phases!ClientActive
        BY <3>4, <3>5, Entered DEF Phases!ClientActive
      <3> QED
        BY <3>6 DEF Phases!Next
    <2>8. \/ e \in {<<"version", "kexinit">>, <<"newkeys", "activate">>, <<"authreply", "confirm">>}
          \/ ClientPhase[e[1]] = ClientPhase[e[2]]
      BY DEF ClientEdges, ClientPhase, Admitted
    <2> QED
      BY <2>4, <2>5, <2>6, <2>7, <2>8
  <1> QED
    BY <1>2, <1>3, <1>4, <1>5 DEF Follows

\* The two programs implement module Lifecycle: each goes through the phases in
\* order and enters one only when the other has come far enough, or is gone.
THEOREM Refinement == Spec => ImplementsLifecycle
  <1>1. Init => Phases!Init
    <2> SUFFICES ASSUME Init PROVE Phases!Init
      OBVIOUS
    <2>1. pc[C] = "version" /\ pc[S] = "version"
      BY Parties DEF Init, TransportInit
    <2> QED
      BY <2>1 DEF Phases!Init, Phases!Party, Peer, ServerPhase, ClientPhase
  <1>2. IInv /\ IInv' /\ [Next]_vars => [Phases!Next]_Phase
    BY NextFollows, StepRefines
  <1> QED
    BY <1>1, <1>2, Invariance, PTL DEF Spec, ImplementsLifecycle, Phases!Spec, Phase
=============================================================================
