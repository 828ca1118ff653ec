------------------------- MODULE SessionOrder_proofs -------------------------
(***************************************************************************)
(* What arrives, and in which order: on a connection that nothing damages  *)
(* every packet is read under the keys and with the number it was written  *)
(* with, and the server's CHANNEL_CLOSE comes behind all of the output.    *)
(***************************************************************************)
EXTENDS Session_proofs

-----------------------------------------------------------------------------
(* The inductive invariant behind CloseAfterOutput. *)

\* The packets that p has still to read, those that are still to be written
\* included as long as they can arrive.
Coming(p) == IF reset THEN <<>> ELSE out[Other(p)]
Flow(p)   == IF pc[p] = "done" THEN <<>> ELSE Msgs(inbox[p]) \o Coming(p)

IsRequest(m) == m.type = "ChannelRequest"
IsOutput(m)  == m.type = "ChannelData"
IsClose(m)   == m.type = "ChannelClose"

\* What a client sends: it closes only what the server has closed, it runs the
\* command it was given, and its lines are no SFTP packets.
Asks(m) ==
    /\ ~IsClose(m)
    /\ m.type = "ChannelData" => Head(m.text) \notin {"sftp", "tail"}
    /\ IsRequest(m) /\ m.text[1] = "exec" => m.text[2] = args.command

Kinds ==
    /\ \A m \in Elems(out[C]) : Asks(m)
    /\ \A f \in Elems(inbox[S]) : f.cipher # NoKey => Asks(f.msg)
    /\ \A m \in Elems(out[S]) : IsOutput(m) \/ IsClose(m) => pc[S] = "loop"
    /\ \A f \in Elems(inbox[C]) : IsOutput(f.msg) \/ IsClose(f.msg) => f.cipher # NoKey

\* Nothing has been asked for in s; nothing has been answered in t, with n
\* bytes printed.
Unasked(s)   == \A i \in DOMAIN s : ~IsRequest(s[i])
Silent(t, n) == n = 0 /\ \A i \in DOMAIN t : ~IsOutput(t[i]) /\ ~IsClose(t[i])

\* The output, k bytes, is one packet in front of any CHANNEL_CLOSE, or printed.
Ordered(t, n, k) ==
    /\ \A i \in DOMAIN t : IsOutput(t[i]) => n = 0 /\ t[i].num[2] = k
    /\ \A i, j \in DOMAIN t : IsOutput(t[i]) /\ IsOutput(t[j]) => i = j
    /\ \A i \in DOMAIN t : IsClose(t[i]) =>
          n = k \/ \E j \in DOMAIN t : j < i /\ IsOutput(t[j])

\* Request and answer: s is on its way to the server, t to the client, and
\* `early' says that the client has not asked.
Asked(s, t, n, k, early) ==
    /\ \A i, j \in DOMAIN s : IsRequest(s[i]) /\ IsRequest(s[j]) => i = j
    /\ early => Unasked(s)
    /\ early \/ ~Unasked(s) => Silent(t, n)
    /\ Ordered(t, n, k)

Early     == pc[C] \in Before \cup {"confirm"}
Listening == pc[C] \notin {"bye", "done"}

OutputInv ==
    /\ sawClose => ~Listening /\ printed = Output[args.command]
    /\ Listening => Kinds /\ Asked(Flow(S), Flow(C), printed, Output[args.command], Early)

-----------------------------------------------------------------------------
(* Requests and answers as sequences. *)

\* A packet of one of the given types is where it was, or gone with all that
\* followed it; no such packet is new.
Fades(new, old, types) ==
    /\ DOMAIN new \subseteq DOMAIN old
    /\ \A i \in DOMAIN new :
          new[i] = old[i] \/ (new[i].type \notin types /\ old[i].type \notin types)

LEMMA FadesAsked ==
    ASSUME NEW s, NEW t \in Seq(Packet), NEW n, NEW k, NEW early \in BOOLEAN,
           Asked(s, t, n, k, early), NEW u, NEW v \in Seq(Packet),
           Fades(u, s, {"ChannelRequest"}), Fades(v, t, {"ChannelData", "ChannelClose"})
    PROVE  Asked(u, v, n, k, early)
  <1>1. \A i \in DOMAIN u : i \in DOMAIN s /\ (IsRequest(u[i]) => IsRequest(s[i]))
    BY DEF Fades, IsRequest
  <1>2. \A i \in DOMAIN v : /\ i \in DOMAIN t
                            /\ IsOutput(v[i]) => IsOutput(t[i]) /\ v[i] = t[i]
                            /\ IsOutput(t[i]) => IsOutput(v[i])
                            /\ IsClose(v[i]) => IsClose(t[i])
    BY DEF Fades, IsOutput, IsClose
  <1>3. /\ \A i, j \in DOMAIN u : IsRequest(u[i]) /\ IsRequest(u[j]) => i = j
        /\ early => Unasked(u)
        /\ Unasked(s) => Unasked(u)
    BY <1>1 DEF Asked, Unasked
  <1>4. Silent(t, n) => Silent(v, n)
    BY <1>2 DEF Silent
  <1>5. Ordered(v, n, k)
    <2>1. \A i \in DOMAIN v : \A j \in DOMAIN t : j < i => j \in DOMAIN v
      OBVIOUS
    <2> QED
      BY <1>2, <2>1 DEF Asked, Ordered
  <1> QED
    BY <1>3, <1>4, <1>5 DEF Asked

\* What is left once the first packet is read.
LEMMA TailFacts ==
    ASSUME NEW X, NEW s \in Seq(X), s # <<>>
    PROVE  /\ 1 \in DOMAIN s /\ Head(s) = s[1] /\ Head(s) \in X /\ Tail(s) \in Seq(X)
           /\ \A i \in DOMAIN Tail(s) : i + 1 \in DOMAIN s /\ Tail(s)[i] = s[i + 1] /\ i \in Nat
           /\ \A i \in DOMAIN s : i = 1 \/ (i - 1 \in DOMAIN Tail(s) /\ Tail(s)[i - 1] = s[i])
  OBVIOUS

\* Where the packets of two sequences are once they are joined.
LEMMA JoinFacts ==
    ASSUME NEW X, NEW s \in Seq(X), NEW w \in Seq(X)
    PROVE  /\ s \o w \in Seq(X) /\ Len(s) \in Nat
           /\ DOMAIN s \subseteq Nat /\ DOMAIN w \subseteq Nat
           /\ \A i \in DOMAIN s : i \in DOMAIN (s \o w) /\ (s \o w)[i] = s[i] /\ i <= Len(s)
           /\ \A i \in DOMAIN w : /\ Len(s) + i \in DOMAIN (s \o w) /\ (s \o w)[Len(s) + i] = w[i]
                                  /\ i >= 1
           /\ \A i \in DOMAIN (s \o w) :
                 \/ i \in DOMAIN s /\ (s \o w)[i] = s[i]
                 \/ \E j \in DOMAIN w : i = Len(s) + j /\ (s \o w)[i] = w[j]
  <1>1. /\ s \o w \in Seq(X) /\ Len(s) \in Nat /\ Len(w) \in Nat
        /\ DOMAIN s = 1 .. Len(s) /\ DOMAIN w = 1 .. Len(w)
        /\ DOMAIN (s \o w) = 1 .. Len(s) + Len(w)
        /\ \A i \in 1 .. Len(s) + Len(w) :
              (s \o w)[i] = IF i <= Len(s) THEN s[i] ELSE w[i - Len(s)]
    BY Joined
  <1>2. \A i \in DOMAIN w : /\ Len(s) + i \in DOMAIN (s \o w)
                            /\ (s \o w)[Len(s) + i] = w[i] /\ i >= 1
    BY <1>1
  <1>3. \A i \in DOMAIN (s \o w) :
          ~(i \in DOMAIN s) => i - Len(s) \in DOMAIN w /\ i = Len(s) + (i - Len(s))
    BY <1>1
  <1> QED
    BY <1>1, <1>2, <1>3

\* Packets that nobody waits for.
Quiet(w) == \A i \in DOMAIN w : ~IsOutput(w[i]) /\ ~IsClose(w[i])

LEMMA TailUnasked ==
    ASSUME NEW s \in Seq(Packet), s # <<>>,
           \A i, j \in DOMAIN s : IsRequest(s[i]) /\ IsRequest(s[j]) => i = j
    PROVE  /\ \A i, j \in DOMAIN Tail(s) : IsRequest(Tail(s)[i]) /\ IsRequest(Tail(s)[j]) => i = j
           /\ Unasked(s) => Unasked(Tail(s))
           /\ IsRequest(Head(s)) => ~Unasked(s) /\ Unasked(Tail(s))
  <1>1. /\ 1 \in DOMAIN s /\ Head(s) = s[1]
        /\ \A i \in DOMAIN Tail(s) : i + 1 \in DOMAIN s /\ Tail(s)[i] = s[i + 1] /\ i \in Nat
        /\ \A i \in DOMAIN Tail(s) : i >= 1
    BY TailFacts
  <1> QED
    BY <1>1 DEF Unasked

\* The server reads a packet and answers with nothing the client waits for.
LEMMA QuietAsked ==
    ASSUME NEW s \in Seq(Packet), NEW t \in Seq(Packet), NEW n, NEW k, NEW early \in BOOLEAN,
           Asked(s, t, n, k, early), s # <<>>, NEW w \in Seq(Packet), Quiet(w)
    PROVE  Asked(Tail(s), t \o w, n, k, early)
  <1>1. /\ \A i, j \in DOMAIN Tail(s) : IsRequest(Tail(s)[i]) /\ IsRequest(Tail(s)[j]) => i = j
        /\ Unasked(s) => Unasked(Tail(s))
    BY TailUnasked DEF Asked
  <1>2. \A i \in DOMAIN (t \o w) :
           IsOutput((t \o w)[i]) \/ IsClose((t \o w)[i]) => i \in DOMAIN t /\ (t \o w)[i] = t[i]
    BY JoinFacts DEF Quiet
  <1>3. \A i \in DOMAIN t : i \in DOMAIN (t \o w) /\ (t \o w)[i] = t[i]
    BY JoinFacts
  <1>4. Silent(t, n) => Silent(t \o w, n)
    BY <1>2 DEF Silent
  <1>5. Ordered(t \o w, n, k)
    BY <1>2, <1>3 DEF Asked, Ordered
  <1> QED
    BY <1>1, <1>4, <1>5 DEF Asked

\* The server reads the request and answers it.
LEMMA ServedAsked ==
    ASSUME NEW s \in Seq(Packet), NEW t \in Seq(Packet), NEW n, NEW k, NEW early \in BOOLEAN,
           Asked(s, t, n, k, early), s # <<>>, IsRequest(Head(s)),
           NEW w \in Seq(Packet), Ordered(w, 0, k)
    PROVE  Asked(Tail(s), t \o w, n, k, early)
  <1>1. /\ \A i, j \in DOMAIN Tail(s) : IsRequest(Tail(s)[i]) /\ IsRequest(Tail(s)[j]) => i = j
        /\ Unasked(Tail(s)) /\ ~Unasked(s)
    BY TailUnasked DEF Asked
  <1>2. ~early /\ Silent(t, n) /\ n = 0
    BY <1>1 DEF Asked, Silent
  <1>3. \A i \in DOMAIN (t \o w) :
           IsOutput((t \o w)[i]) \/ IsClose((t \o w)[i]) =>
              \E j \in DOMAIN w : i = Len(t) + j /\ (t \o w)[i] = w[j]
    BY <1>2, JoinFacts DEF Silent
  <1>4. /\ Len(t) \in Nat /\ DOMAIN w \subseteq Nat
        /\ \A i \in DOMAIN w : Len(t) + i \in DOMAIN (t \o w) /\ (t \o w)[Len(t) + i] = w[i]
    BY JoinFacts
  <1>5. Ordered(t \o w, n, k)
    <2>1. \A i \in DOMAIN (t \o w) : IsOutput((t \o w)[i]) => n = 0 /\ (t \o w)[i].num[2] = k
      BY <1>2, <1>3 DEF Ordered
    <2>2. \A i, j \in DOMAIN (t \o w) : IsOutput((t \o w)[i]) /\ IsOutput((t \o w)[j]) => i = j
      BY <1>3 DEF Ordered
    <2>3. ASSUME NEW i \in DOMAIN (t \o w), IsClose((t \o w)[i])
          PROVE  n = k \/ \E j \in DOMAIN (t \o w) : j < i /\ IsOutput((t \o w)[j])
      <3>1. PICK x \in DOMAIN w : i = Len(t) + x /\ IsClose(w[x])
        BY <1>3, <2>3
      <3>2. n = k \/ \E y \in DOMAIN w : y < x /\ IsOutput(w[y])
        BY <1>2, <3>1 DEF Ordered
      <3>3. \A y \in DOMAIN w : y < x => Len(t) + y < i
        BY <1>4, <3>1
      <3> QED
        BY <1>4, <3>2, <3>3
    <2> QED
      BY <2>1, <2>2, <2>3 DEF Ordered
  <1> QED
    BY <1>1, <1>2, <1>5 DEF Asked

\* The client writes: what follows the confirmation, if it had not asked.
LEMMA AddsAsked ==
    ASSUME NEW s \in Seq(Packet), NEW t \in Seq(Packet), NEW n, NEW k, NEW early \in BOOLEAN,
           Asked(s, t, n, k, early), NEW w \in Seq(Packet), NEW later \in BOOLEAN,
           later => early, ~Unasked(w) => early /\ ~later /\ Len(w) = 1
    PROVE  Asked(s \o w, t, n, k, later)
  <1>1. \A i \in DOMAIN (s \o w) : \/ i \in DOMAIN s /\ (s \o w)[i] = s[i]
                                  \/ \E j \in DOMAIN w : i = Len(s) + j /\ (s \o w)[i] = w[j]
    BY JoinFacts
  <1>2. CASE Unasked(w)
    <2>1. \A i \in DOMAIN (s \o w) : IsRequest((s \o w)[i]) => i \in DOMAIN s /\ IsRequest(s[i])
      BY <1>1, <1>2 DEF Unasked
    <2>2. Unasked(s) => Unasked(s \o w)
      BY <2>1 DEF Unasked
    <2> QED
      BY <2>1, <2>2 DEF Asked
  <1>3. CASE ~Unasked(w)
    <2>1. early /\ ~later /\ Unasked(s) /\ Silent(t, n) /\ Len(w) = 1
      BY <1>3 DEF Asked
    <2>2. DOMAIN w = {1}
      BY <2>1
    <2>3. \A i \in DOMAIN (s \o w) : IsRequest((s \o w)[i]) => i = Len(s) + 1
      BY <1>1, <2>1, <2>2 DEF Unasked
    <2> QED
      BY <2>1, <2>3 DEF Asked
  <1> QED
    BY <1>2, <1>3

\* The client reads a packet that is neither output nor CHANNEL_CLOSE.
LEMMA SkipsAsked ==
    ASSUME NEW s \in Seq(Packet), NEW t \in Seq(Packet), NEW n, NEW k, NEW early \in BOOLEAN,
           Asked(s, t, n, k, early), t # <<>>, ~IsOutput(Head(t)), ~IsClose(Head(t))
    PROVE  Asked(s, Tail(t), n, k, early)
  <1>1. /\ 1 \in DOMAIN t /\ Head(t) = t[1]
        /\ \A i \in DOMAIN Tail(t) : i + 1 \in DOMAIN t /\ Tail(t)[i] = t[i + 1] /\ i \in Nat
        /\ \A i \in DOMAIN t : i = 1 \/ (i - 1 \in DOMAIN Tail(t) /\ Tail(t)[i - 1] = t[i])
        /\ \A i \in DOMAIN t : i \in Nat
    BY TailFacts
  <1>2. Silent(t, n) => Silent(Tail(t), n)
    BY <1>1 DEF Silent
  <1>3. Ordered(Tail(t), n, k)
    <2>1. \A i \in DOMAIN Tail(t) : IsOutput(Tail(t)[i]) => n = 0 /\ Tail(t)[i].num[2] = k
      BY <1>1 DEF Asked, Ordered
    <2>2. \A i, j \in DOMAIN Tail(t) : IsOutput(Tail(t)[i]) /\ IsOutput(Tail(t)[j]) => i = j
      <3>1. \A i, j \in DOMAIN Tail(t) :
              IsOutput(Tail(t)[i]) /\ IsOutput(Tail(t)[j]) => i + 1 = j + 1
        BY <1>1 DEF Asked, Ordered
      <3> QED
        BY <1>1, <3>1
    <2>3. ASSUME NEW i \in DOMAIN Tail(t), IsClose(Tail(t)[i])
          PROVE  n = k \/ \E j \in DOMAIN Tail(t) : j < i /\ IsOutput(Tail(t)[j])
      <3>1. n = k \/ \E j \in DOMAIN t : j < i + 1 /\ IsOutput(t[j])
        BY <1>1, <2>3 DEF Asked, Ordered
      <3>2. \A j \in DOMAIN t : IsOutput(t[j]) /\ j < i + 1 =>
               j - 1 \in DOMAIN Tail(t) /\ IsOutput(Tail(t)[j - 1]) /\ j - 1 < i
        BY <1>1
      <3> QED
        BY <3>1, <3>2
    <2> QED
      BY <2>1, <2>2, <2>3 DEF Ordered
  <1> QED
    BY <1>2, <1>3 DEF Asked

\* The client reads the output and prints it.
LEMMA PrintsAsked ==
    ASSUME NEW s \in Seq(Packet), NEW t \in Seq(Packet), NEW n, NEW k, NEW early \in BOOLEAN,
           Asked(s, t, n, k, early), t # <<>>, IsOutput(Head(t))
    PROVE  Asked(s, Tail(t), n + Head(t).num[2], k, early)
  <1>1. /\ 1 \in DOMAIN t /\ Head(t) = t[1] /\ Head(t) \in Packet
        /\ \A i \in DOMAIN Tail(t) : i + 1 \in DOMAIN t /\ Tail(t)[i] = t[i + 1] /\ i \in Nat
        /\ \A i \in DOMAIN Tail(t) : i >= 1
    BY TailFacts
  <1>2. Head(t).num[2] \in Nat
    <2> DEFINE r == Head(t)
    <2>1. r \in Packet /\ r.type = "ChannelData"
      BY <1>1 DEF IsOutput
    <2> HIDE DEF r
    <2>2. r.num \in Seq(Nat) /\ Len(r.num) = 2
      BY <2>1, FieldCounts DEF Packet
    <2>3. r.num[2] \in Nat
      BY <2>2
    <2> QED
      BY <2>3 DEF r
  <1>3. n = 0 /\ Head(t).num[2] = k
    BY <1>1 DEF Asked, Ordered
  <1>4. n + Head(t).num[2] = k
    BY <1>2, <1>3
  <1>5. \A i \in DOMAIN Tail(t) : ~IsOutput(Tail(t)[i])
    <2>1. \A i \in DOMAIN t : IsOutput(t[i]) => i = 1
      BY <1>1 DEF Asked, Ordered
    <2> QED
      BY <1>1, <2>1
  <1>6. Ordered(Tail(t), k, k)
    BY <1>5 DEF Ordered
  <1>7. ~early /\ Unasked(s)
    BY <1>1 DEF Asked, Silent
  <1> QED
    BY <1>4, <1>6, <1>7 DEF Asked, Unasked

\* The client reads CHANNEL_CLOSE: all of the output has been printed.
LEMMA ClosedAsked ==
    ASSUME NEW s, NEW t \in Seq(Packet), NEW n, NEW k, NEW early,
           Asked(s, t, n, k, early), t # <<>>, IsClose(Head(t))
    PROVE  n = k
  <1>1. 1 \in DOMAIN t /\ Head(t) = t[1] /\ \A i \in DOMAIN t : ~(i < 1)
    BY TailFacts
  <1> QED
    BY <1>1 DEF Asked, Ordered

-----------------------------------------------------------------------------
(* What a step does to the packets on their way. *)

LEMMA FlowTyped ==
    ASSUME TransportTypeOK, NEW p \in Peer
    PROVE  /\ inbox[p] \in Seq(Frames) /\ Msgs(inbox[p]) \in Seq(Packet)
           /\ Coming(p) \in Seq(Packet) /\ Flow(p) \in Seq(Packet)
  <1>1. inbox[p] \in Seq(Frames) /\ out[Other(p)] \in Seq(Packet)
    BY Peers DEF TransportTypeOK
  <1>2. Msgs(inbox[p]) \in Seq(Packet)
    <2>1. \A f \in Frames : f.msg \in Packet
      BY DEF Frames
    <2> QED
      BY <1>1, <2>1, MsgsTyped
  <1>3. Coming(p) \in Seq(Packet)
    BY <1>1 DEF Coming
  <1>4. Flow(p) \in Seq(Packet)
    <2>1. Msgs(inbox[p]) \o Coming(p) \in Seq(Packet)
      BY <1>2, <1>3, Joined
    <2> QED
      BY <2>1 DEF Flow
  <1> QED
    BY <1>1, <1>2, <1>3, <1>4

LEMMA FlowsTyped == IInv => Flow(C) \in Seq(Packet) /\ Flow(S) \in Seq(Packet)
  BY FlowTyped, Parties DEF IInv, TypeInv, TypeOK

LEMMA FlowsTypedNext == IInv' => (Flow(C) \in Seq(Packet) /\ Flow(S) \in Seq(Packet))'
  BY FlowsTyped, PTL

LEMMA FrontFades ==
    ASSUME NEW t \in Seq(Packet), NEW s, IsFront(s, t)
    PROVE  s \in Seq(Packet) /\ \A types : Fades(s, t, types)
  BY FrontFacts DEF Fades

\* A packet that is written stays where it is in the flow; a write that finds
\* the other side gone leaves a front of what was to come.
LEMMA SentFlows ==
    ASSUME TransportTypeOK, NEW p \in Peer, Send(p)
    PROVE  \A r \in Peer : IsFront(Flow(r)', Flow(r))
  <1> DEFINE q == Other(p)
             m == Head(out[p])
             f == Frame(keys[p], m)
  <1>1. /\ q \in Peer /\ q # p /\ Other(q) = p /\ \A r \in Peer : r = p \/ r = q
        /\ pc' = pc /\ out[p] # <<>> /\ out' = [out EXCEPT ![p] = Tail(out[p])]
        /\ reset' = (reset \/ pc[q] = "done")
        /\ inbox' = IF reset \/ pc[q] = "done" THEN inbox
                    ELSE [inbox EXCEPT ![q] = Append(inbox[q], f)]
        /\ f.msg = m
    BY Peers, SendSent DEF Send, Sent
  <1> HIDE DEF q, f
  <1>2. /\ out'[p] = Tail(out[p]) /\ out'[q] = out[q] /\ inbox'[p] = inbox[p]
        /\ reset \/ pc[q] = "done" => inbox'[q] = inbox[q]
        /\ ~reset /\ pc[q] # "done" => inbox'[q] = Append(inbox[q], f)
        /\ inbox[q] \in Seq(Frames) /\ out[p] \in Seq(Packet)
    BY <1>1 DEF TransportTypeOK
  <1>3. /\ Flow(p) \in Seq(Packet) /\ Flow(q) \in Seq(Packet)
        /\ Msgs(inbox[p]) \in Seq(Packet) /\ Msgs(inbox[q]) \in Seq(Packet)
        /\ Coming(p) \in Seq(Packet)
    BY <1>1, FlowTyped
  <1>4. IsFront(Flow(q)', Flow(q))
    <2>1. CASE pc[q] = "done" \/ reset
      <3>1. Flow(q)' = Flow(q)
        BY <1>1, <1>2, <2>1 DEF Flow, Coming
      <3> QED
        BY <1>3, <3>1, FrontSelf
    <2>2. CASE pc[q] # "done" /\ ~reset
      <3>1. /\ Flow(q) = Msgs(inbox[q]) \o out[p]
            /\ Flow(q)' = Msgs(Append(inbox[q], f)) \o Tail(out[p])
        BY <1>1, <1>2, <2>2 DEF Flow, Coming
      <3>2. Msgs(Append(inbox[q], f)) = Append(Msgs(inbox[q]), m)
        <4>1. \A g : Msgs(Append(inbox[q], g)) = Append(Msgs(inbox[q]), g.msg)
          BY <1>2, MsgsSteps
        <4> QED
          BY <1>1, <4>1
      <3>3. Append(Msgs(inbox[q]), Head(out[p])) \o Tail(out[p]) = Msgs(inbox[q]) \o out[p]
        <4> DEFINE a == Msgs(inbox[q])
                   b == out[p]
        <4>1. a \in Seq(Packet) /\ b \in Seq(Packet) /\ b # <<>>
          BY <1>1, <1>2, <1>3
        <4> HIDE DEF a, b
        <4>2. Append(a, Head(b)) \o Tail(b) = a \o b
          BY <4>1, MoveOver
        <4> QED
          BY <4>2 DEF a, b
      <3>4. Flow(q)' = Flow(q)
        BY <3>1, <3>2, <3>3
      <3> QED
        BY <1>3, <3>4, FrontSelf
    <2> QED
      BY <2>1, <2>2
  <1>5. IsFront(Flow(p)', Flow(p))
    <2>1. CASE reset' = reset \/ pc[p] = "done"
      <3>1. Flow(p)' = Flow(p)
        BY <1>1, <1>2, <2>1 DEF Flow, Coming, q
      <3> QED
        BY <1>3, <3>1, FrontSelf
    <2>2. CASE reset' # reset /\ pc[p] # "done"
      <3>1. Flow(p)' = Msgs(inbox[p]) \o <<>> /\ Flow(p) = Msgs(inbox[p]) \o Coming(p)
        BY <1>1, <1>2, <2>2 DEF Flow, Coming, TransportTypeOK
      <3>2. Flow(p)' = Msgs(inbox[p])
        BY <1>3, <3>1, NothingJoined
      <3>3. 0 \in 0 .. Len(Msgs(inbox[p]))
        BY <1>3
      <3> QED
        BY <1>3, <3>1, <3>2, <3>3, FrontJoined
    <2> QED
      BY <2>1, <2>2
  <1> QED
    BY <1>1, <1>4, <1>5

\* What is cut off the network, and whatever was still to be written.
LEMMA CutFlow ==
    ASSUME TransportTypeOK, NEW q \in Peer, pc'[q] = pc[q], Coming(q)' = <<>>,
           NEW i \in 0 .. Len(inbox[q]), inbox'[q] = SubSeq(inbox[q], 1, i)
    PROVE  IsFront(Flow(q)', Flow(q))
  <1>1. /\ inbox[q] \in Seq(Frames) /\ Msgs(inbox[q]) \in Seq(Packet)
        /\ Coming(q) \in Seq(Packet) /\ Flow(q) \in Seq(Packet)
    BY FlowTyped
  <1>2. CASE pc[q] = "done"
    BY <1>1, <1>2, FrontSelf DEF Flow
  <1>3. CASE pc[q] # "done"
    <2>1. /\ Flow(q) = Msgs(inbox[q]) \o Coming(q)
          /\ Flow(q)' = Msgs(SubSeq(inbox[q], 1, i)) \o <<>>
      BY <1>3 DEF Flow
    <2>2. Msgs(SubSeq(inbox[q], 1, i)) = SubSeq(Msgs(inbox[q]), 1, i)
      BY <1>1, MsgsSteps
    <2>3. i \in 0 .. Len(Msgs(inbox[q]))
      <3>1. \A f \in Frames : f.msg \in Packet
        BY DEF Frames
      <3>2. Len(Msgs(inbox[q])) = Len(inbox[q])
        BY <1>1, <3>1, MsgsTyped
      <3> QED
        BY <3>2
    <2>4. SubSeq(Msgs(inbox[q]), 1, i) \in Seq(Packet)
      BY <1>1, <2>3, ElemsPrefix
    <2>5. Flow(q)' = SubSeq(Msgs(inbox[q]), 1, i)
      BY <2>1, <2>2, <2>4, NothingJoined
    <2> QED
      BY <1>1, <2>1, <2>3, <2>5, FrontJoined
  <1> QED
    BY <1>2, <1>3

LEMMA ReturnFlows ==
    ASSUME TransportTypeOK, DOMAIN pc = Peer, NEW p \in Peer, NEW result, NEW unread,
           Return(p, result, unread)
    PROVE  \A r \in Peer : IsFront(Flow(r)', Flow(r))
  <1> DEFINE q == Other(p)
  <1>1. /\ q \in Peer /\ q # p /\ Other(q) = p /\ \A r \in Peer : r = p \/ r = q
        /\ inbox[q] \in Seq(Frames)
    BY Peers DEF TransportTypeOK
  <1>2. PICK i \in 0 .. Len(inbox[q]) :
           inbox' = [r \in Peer |-> IF r = p THEN <<>> ELSE SubSeq(inbox[r], 1, i)]
    BY DEF Return
  <1> HIDE DEF q
  <1>3. /\ pc'[q] = pc[q] /\ out'[p] = <<>> /\ inbox'[q] = SubSeq(inbox[q], 1, i)
        /\ pc' = [pc EXCEPT ![p] = "done"]
    BY <1>1, <1>2 DEF Return, TransportTypeOK
  <1>4. IsFront(Flow(q)', Flow(q))
    <2>1. Coming(q)' = <<>>
      BY <1>1, <1>3 DEF Coming
    <2> QED
      BY <1>1, <1>3, <2>1, CutFlow
  <1>5. IsFront(Flow(p)', Flow(p))
    <2>1. Flow(p) \in Seq(Packet)
      BY FlowTyped
    <2>2. Flow(p)' = <<>>
      <3>1. pc'[p] = "done"
        BY <1>3
      <3> QED
        BY <3>1 DEF Flow
    <2> QED
      BY <2>1, <2>2, FrontSelf
  <1> QED
    BY <1>1, <1>4, <1>5

LEMMA BreakFlows ==
    ASSUME TransportTypeOK, Break
    PROVE  \A r \in Peer : IsFront(Flow(r)', Flow(r))
  <1>1. PICK i \in 0 .. Len(inbox["client"]), j \in 0 .. Len(inbox["server"]) :
          inbox' = [p \in Peer |-> SubSeq(inbox[p], 1, IF p = "client" THEN i ELSE j)]
    BY DEF Break
  <1>2. /\ inbox'[C] = SubSeq(inbox[C], 1, i) /\ inbox'[S] = SubSeq(inbox[S], 1, j)
        /\ i \in 0 .. Len(inbox[C]) /\ j \in 0 .. Len(inbox[S])
    BY <1>1 DEF Peer, C, S
  <1>3. \A r \in Peer : pc'[r] = pc[r] /\ Coming(r)' = <<>>
    BY DEF Break, Coming
  <1>4. IsFront(Flow(C)', Flow(C)) /\ IsFront(Flow(S)', Flow(S))
    BY <1>2, <1>3, Parties, CutFlow
  <1> QED
    BY <1>4, Parties

LEMMA ReplacedFades ==
    ASSUME NEW s \in Seq(Frames), NEW i \in DOMAIN s, NEW g \in Frames, NEW w \in Seq(Packet),
           NEW types,
           g.msg = s[i].msg \/ (g.msg.type \notin types /\ s[i].msg.type \notin types)
    PROVE  Fades(Msgs([s EXCEPT ![i] = g]) \o w, Msgs(s) \o w, types)
  <1> DEFINE r == [s EXCEPT ![i] = g]
             a == Msgs(r)
             b == Msgs(s)
  <1>1. /\ r \in Seq(Frames) /\ Len(r) = Len(s)
        /\ \A j \in 1 .. Len(s) : r[j] = IF j = i THEN g ELSE s[j]
    OBVIOUS
  <1>2. \A f \in Frames : f.msg \in Packet
    BY DEF Frames
  <1> HIDE DEF r
  <1>3. /\ a \in Seq(Packet) /\ Len(a) = Len(s) /\ \A j \in 1 .. Len(s) : a[j] = r[j].msg
        /\ b \in Seq(Packet) /\ Len(b) = Len(s) /\ \A j \in 1 .. Len(s) : b[j] = s[j].msg
    BY <1>1, <1>2, MsgsTyped
  <1>4. \A j \in 1 .. Len(s) :
           a[j] = b[j] \/ (a[j].type \notin types /\ b[j].type \notin types)
    BY <1>1, <1>3
  <1> HIDE DEF a, b
  <1>5. /\ DOMAIN (a \o w) = DOMAIN (b \o w)
        /\ \A j \in DOMAIN (a \o w) :
              \/ (a \o w)[j] = (b \o w)[j]
              \/ j \in 1 .. Len(s) /\ (a \o w)[j] = a[j] /\ (b \o w)[j] = b[j]
    <2>1. ASSUME NEW c \in Seq(Packet), Len(c) = Len(s)
          PROVE  /\ DOMAIN (c \o w) = 1 .. Len(s) + Len(w)
                 /\ \A j \in 1 .. Len(s) + Len(w) :
                       (c \o w)[j] = IF j <= Len(s) THEN c[j] ELSE w[j - Len(s)]
      <3>1. /\ DOMAIN (c \o w) = 1 .. Len(c) + Len(w)
            /\ \A j \in 1 .. Len(c) + Len(w) :
                  (c \o w)[j] = IF j <= Len(c) THEN c[j] ELSE w[j - Len(c)]
        BY Joined
      <3> QED
        BY <2>1, <3>1
    <2>2. Len(s) \in Nat /\ Len(w) \in Nat
      OBVIOUS
    <2> QED
      BY <1>3, <2>1, <2>2
  <1>6. Fades(a \o w, b \o w, types)
    BY <1>4, <1>5 DEF Fades
  <1> QED
    BY <1>6 DEF a, b, r

\* Damage shows in no packet that the order of request and answer is about:
\* all of those are encrypted.
LEMMA DamageFlows ==
    ASSUME IInv, Kinds, NEW p \in Peer, Damage(p)
    PROVE  /\ Fades(Flow(S)', Flow(S), {"ChannelRequest"})
           /\ Fades(Flow(C)', Flow(C), {"ChannelData", "ChannelClose"})
  <1>1. /\ TransportTypeOK /\ pc' = pc /\ out' = out /\ reset' = reset
    BY DEF IInv, TypeInv, TypeOK, Damage
  <1>2. PICK i \in DOMAIN inbox[p] : \E d \in Damaged(inbox[p][i]) :
           inbox' = [inbox EXCEPT ![p] = [inbox[p] EXCEPT ![i] = d]]
    BY DEF Damage
  <1>3. PICK g \in Damaged(inbox[p][i]) :
           inbox' = [inbox EXCEPT ![p] = [inbox[p] EXCEPT ![i] = g]]
    BY <1>2
  <1> DEFINE f == inbox[p][i]
  <1>4. inbox[p] \in Seq(Frames) /\ f \in Elems(inbox[p]) /\ f \in Frames
    BY <1>1 DEF TransportTypeOK, Elems
  <1>5. /\ g \in Frames
        /\ g.msg.type = f.msg.type \/ g.msg.type = "Debug"
        /\ f.cipher # NoKey => g.msg = f.msg
    BY <1>4, DamageFacts
  <1>6. \A q \in Peer : /\ Flow(q) \in Seq(Packet)
                        /\ \A types : Fades(Flow(q), Flow(q), types)
    BY <1>1, FlowTyped DEF Fades
  <1>7. \A q \in Peer : q # p => Flow(q)' = Flow(q)
    BY <1>1, <1>3 DEF Flow, Coming, TransportTypeOK
  <1>8. ASSUME NEW types, "Debug" \notin types, f.msg.type \in types => f.cipher # NoKey
        PROVE  Fades(Flow(p)', Flow(p), types)
    <2>1. CASE pc[p] = "done"
      <3>1. Flow(p)' = Flow(p)
        BY <1>1, <2>1 DEF Flow
      <3> QED
        BY <1>6, <3>1
    <2>2. CASE pc[p] # "done"
      <3>1. /\ Flow(p) = Msgs(inbox[p]) \o Coming(p)
            /\ Flow(p)' = Msgs([inbox[p] EXCEPT ![i] = g]) \o Coming(p)
        BY <1>1, <1>3, <2>2 DEF Flow, Coming, TransportTypeOK
      <3>2. g.msg = f.msg \/ (g.msg.type \notin types /\ f.msg.type \notin types)
        BY <1>5, <1>8
      <3>3. Coming(p) \in Seq(Packet)
        BY <1>1, FlowTyped
      <3> DEFINE s == inbox[p]
                 w == Coming(p)
      <3>4. /\ s \in Seq(Frames) /\ i \in DOMAIN s /\ w \in Seq(Packet)
            /\ g.msg = s[i].msg \/ (g.msg.type \notin types /\ s[i].msg.type \notin types)
        BY <1>4, <3>2, <3>3
      <3> HIDE DEF s, w
      <3>5. Fades(Msgs([s EXCEPT ![i] = g]) \o w, Msgs(s) \o w, types)
        BY <1>5, <3>4, ReplacedFades
      <3> QED
        BY <3>1, <3>5 DEF s, w
    <2> QED
      BY <2>1, <2>2
  <1> HIDE DEF f
  <1>9. CASE p = S
    <2>1. f.msg.type \in {"ChannelRequest"} => f.cipher # NoKey
      BY <1>4, <1>9 DEF IInv, KeyInv
    <2> QED
      BY <1>6, <1>7, <1>8, <1>9, <2>1, Parties
  <1>10. CASE p = C
    <2>1. f.msg.type \in {"ChannelData", "ChannelClose"} => f.cipher # NoKey
      BY <1>4, <1>10 DEF Kinds, IsOutput, IsClose
    <2> QED
      BY <1>6, <1>7, <1>8, <1>10, <2>1, Parties
  <1> QED
    BY <1>9, <1>10, Parties

\* A step that only moves packets, damages them or lets them be lost.
LEMMA CalmOutput ==
    ASSUME IInv, IInv', OutputInv, UNCHANGED <<args, printed, sawClose>>,
           pc'[C] \in {pc[C], "done"}, Kinds => Kinds',
           Kinds => /\ Fades(Flow(S)', Flow(S), {"ChannelRequest"})
                    /\ Fades(Flow(C)', Flow(C), {"ChannelData", "ChannelClose"})
    PROVE  OutputInv'
  <1>1. Flow(C) \in Seq(Packet) /\ Flow(C)' \in Seq(Packet)
    BY FlowsTyped, FlowsTypedNext
  <1>2. Listening' => Listening /\ Early' = Early
    BY DEF Listening, Early
  <1>3. Early \in BOOLEAN
    BY DEF Early
  <1>4. Listening' => Asked(Flow(S), Flow(C), printed, Output[args.command], Early)'
    BY <1>1, <1>2, <1>3, FadesAsked DEF OutputInv
  <1> QED
    BY <1>2, <1>4 DEF OutputInv, Listening

-----------------------------------------------------------------------------
(* CloseAfterOutput: steps that handle no packet. *)

LEMMA ShrinksKinds ==
    ASSUME Kinds, Shrinks, args' = args, pc'[S] = pc[S] \/ Elems(out'[S]) = {}
    PROVE  Kinds'
  <1>1. /\ Elems(out'[C]) \subseteq Elems(out[C]) /\ Elems(out'[S]) \subseteq Elems(out[S])
        /\ Elems(inbox'[C]) \subseteq Elems(inbox[C]) /\ Elems(inbox'[S]) \subseteq Elems(inbox[S])
    BY Parties DEF Shrinks
  <1> QED
    BY <1>1 DEF Kinds, Asks

\* The server answers under its keys.
LEMMA SentKinds ==
    ASSUME IInv, Kinds, NEW p \in Peer, Send(p), args' = args
    PROVE  Kinds'
  <1> DEFINE m == Head(out[p])
             f == Frame(keys[p], m)
             q == Other(p)
  <1>1. TransportTypeOK /\ Sent(p)
    BY SendSent DEF IInv, TypeInv, TypeOK
  <1>2. /\ m \in Elems(out[p]) /\ f.msg = m /\ f.cipher = keys[p].enc /\ pc' = pc
        /\ q \in Peer /\ q # p /\ \A r \in Peer : r = p \/ r = q
        /\ Elems(out'[p]) \subseteq Elems(out[p]) /\ out'[q] = out[q]
        /\ inbox'[p] = inbox[p] /\ Elems(inbox'[q]) \subseteq Elems(inbox[q]) \cup {f}
    BY <1>1, Peers DEF Sent, TransportTypeOK
  <1> HIDE DEF m, f, q
  <1>3. pc[S] = "loop" => keys[S].enc # NoKey
    <2>1. KexComplete(S, kex[S]) \in Hash
      BY <1>1, HashTyped, Parties DEF TransportTypeOK
    <2> QED
      BY <2>1, KeyTypes DEF IInv, KeyInv, ServerKeyed, ServerDerived
  <1>4. CASE p = C
    <2>1. q = S
      BY <1>2, <1>4, Parties
    <2> QED
      BY <1>2, <1>4, <2>1 DEF Kinds, Asks
  <1>5. CASE p = S
    <2>1. q = C
      BY <1>2, <1>5, Parties
    <2>2. \A g \in Elems(inbox'[C]) : IsOutput(g.msg) \/ IsClose(g.msg) => g.cipher # NoKey
      BY <1>2, <1>3, <1>5, <2>1 DEF Kinds
    <2> QED
      BY <1>2, <1>5, <2>1, <2>2 DEF Kinds, Asks
  <1> QED
    BY <1>4, <1>5, Parties

LEMMA DamageKinds ==
    ASSUME IInv, Kinds, NEW p \in Peer, Damage(p), args' = args
    PROVE  Kinds'
  <1>1. TransportTypeOK /\ pc' = pc /\ out' = out /\ inbox'[Other(p)] = inbox[Other(p)]
    BY DamageTyped DEF IInv, TypeInv, TypeOK, Damage
  <1>2. PICK f \in Elems(inbox[p]), g \in UNION {Damaged(x) : x \in Elems(inbox[p])} :
           g \in Damaged(f) /\ Elems(inbox'[p]) \subseteq Elems(inbox[p]) \cup {g}
    BY <1>1, DamageTyped
  <1>3. f \in Frames
    BY <1>1, ElemsTyped DEF TransportTypeOK
  <1>4. /\ g.cipher = f.cipher
        /\ g.msg.type = f.msg.type \/ g.msg.type = "Debug"
        /\ f.cipher # NoKey => g.msg = f.msg
    BY <1>2, <1>3, DamageFacts
  <1>5. CASE p = C
    <2>1. inbox'[S] = inbox[S]
      BY <1>1, <1>5, Parties
    <2>2. \A h \in Elems(inbox'[C]) : IsOutput(h.msg) \/ IsClose(h.msg) => h.cipher # NoKey
      BY <1>2, <1>4, <1>5 DEF Kinds, IsOutput, IsClose
    <2> QED
      BY <1>1, <2>1, <2>2 DEF Kinds, Asks
  <1>6. CASE p = S
    <2>1. inbox'[C] = inbox[C]
      BY <1>1, <1>6, Parties
    <2>2. \A h \in Elems(inbox'[S]) : h.cipher # NoKey => Asks(h.msg)
      BY <1>2, <1>4, <1>6 DEF Kinds
    <2> QED
      BY <1>1, <2>1, <2>2 DEF Kinds, Asks
  <1> QED
    BY <1>5, <1>6, Parties

LEMMA FrontsFade ==
    ASSUME IInv, \A r \in Peer : IsFront(Flow(r)', Flow(r))
    PROVE  /\ Fades(Flow(S)', Flow(S), {"ChannelRequest"})
           /\ Fades(Flow(C)', Flow(C), {"ChannelData", "ChannelClose"})
  BY FlowsTyped, Parties, FrontFades

LEMMA SentOutput ==
    ASSUME IInv, IInv', OutputInv, NEW p \in Peer, Send(p), UNCHANGED clientVars
    PROVE  OutputInv'
  <1>1. /\ TransportTypeOK /\ pc' = pc /\ args' = args /\ printed' = printed
        /\ sawClose' = sawClose
    BY DEF IInv, TypeInv, TypeOK, Send, clientVars
  <1>2. \A r \in Peer : IsFront(Flow(r)', Flow(r))
    BY <1>1, SentFlows
  <1> QED
    BY <1>1, <1>2, SentKinds, FrontsFade, CalmOutput

LEMMA ReturnOutput ==
    ASSUME IInv, IInv', OutputInv, NEW p \in Peer, NEW result, NEW unread,
           Return(p, result, unread), UNCHANGED kex,
           keys' = keys \/ keys' = [keys EXCEPT ![p] = Counted(p)],
           UNCHANGED clientVars
    PROVE  OutputInv'
  <1>1. /\ TransportTypeOK /\ pc \in [Peer -> ServerAt \cup ClientAt] /\ DOMAIN pc = Peer
        /\ args' = args /\ printed' = printed /\ sawClose' = sawClose /\ Gone(p, result)
    BY ReturnGone DEF IInv, TypeInv, TypeOK, clientVars
  <1>2. \A r \in Peer : IsFront(Flow(r)', Flow(r))
    BY <1>1, ReturnFlows
  <1>3. /\ pc'[C] \in {pc[C], "done"} /\ (pc'[S] = pc[S] \/ Elems(out'[S]) = {})
        /\ Shrinks
    <2>1. /\ Elems(out'[p]) = {} /\ out'[Other(p)] = out[Other(p)]
          /\ Elems(inbox'[p]) = {} /\ Elems(inbox'[Other(p)]) \subseteq Elems(inbox[Other(p)])
      BY <1>1, NothingElse, Peers DEF Gone, TransportTypeOK
    <2>2. Shrinks
      BY <2>1, Peers DEF Shrinks
    <2>3. pc' = [pc EXCEPT ![p] = "done"]
      BY <1>1 DEF Gone
    <2> QED
      BY <1>1, <2>1, <2>2, <2>3, Parties
  <1> QED
    BY <1>1, <1>2, <1>3, ShrinksKinds, FrontsFade, CalmOutput

LEMMA NetworkOutput ==
    ASSUME IInv, IInv', OutputInv, Network
    PROVE  OutputInv'
  <1>1. /\ TransportTypeOK /\ args' = args /\ printed' = printed /\ sawClose' = sawClose
    BY DEF IInv, TypeInv, TypeOK, Network, clientVars
  <1>2. ASSUME NEW p \in Peer, Damage(p) PROVE OutputInv'
    <2>1. pc' = pc
      BY <1>2 DEF Damage
    <2> QED
      BY <1>1, <1>2, <2>1, DamageKinds, DamageFlows, CalmOutput
  <1>3. CASE Break
    <2>1. pc' = pc /\ out' = out /\ Shrinks
      BY <1>1, <1>3, BreakTyped DEF Break, Shrinks
    <2>2. \A r \in Peer : IsFront(Flow(r)', Flow(r))
      BY <1>1, <1>3, BreakFlows
    <2> QED
      BY <1>1, <2>1, <2>2, ShrinksKinds, FrontsFade, CalmOutput
  <1> QED
    BY <1>2, <1>3, Parties DEF Network

\* The ways in which either program returns, and a packet written.
LEMMA IoOutput ==
    ASSUME IInv, IInv', OutputInv, NEW p \in Peer, NEW handled,
           Write(p) \/ RecvGarbled(p) \/ RecvFails(p, handled), UNCHANGED clientVars
    PROVE  OutputInv'
  <1>1. CASE Send(p)
    BY <1>1, SentOutput
  <1>2. CASE SendTooLarge(p) \/ SendFails(p) \/ RecvGarbled(p) \/ RecvFails(p, handled)
    <2>1. /\ UNCHANGED <<keys, kex>>
          /\ \E r, unread : Return(p, r, unread)
      BY <1>2 DEF SendTooLarge, SendFails, RecvGarbled, RecvFails
    <2> QED
      BY <2>1, ReturnOutput
  <1> QED
    BY <1>1, <1>2 DEF Write

LEMMA RejectedOutput ==
    ASSUME IInv, IInv', OutputInv, NEW p \in Peer, NEW result, Rejected(p, result),
           UNCHANGED clientVars
    PROVE  OutputInv'
  BY ReturnOutput DEF Rejected

-----------------------------------------------------------------------------
(* CloseAfterOutput: packets handled. *)

\* What p writes comes behind all that is on its way already.
LEMMA AddFlow ==
    ASSUME IInv, NEW p \in Peer, NEW q \in Peer, p = Other(q), out[p] = <<>>, pc'[q] = pc[q],
           inbox'[q] = inbox[q], reset' = reset
    PROVE  \E w \in {<<>>, out'[p]} : Flow(q)' = Flow(q) \o w
  <1>1. TransportTypeOK
    BY DEF IInv, TypeInv, TypeOK
  <1>2. Msgs(inbox[q]) \in Seq(Packet) /\ Flow(q) \in Seq(Packet)
    BY <1>1, FlowTyped
  <1>3. CASE pc[q] = "done" \/ reset
    <2>1. Flow(q)' = Flow(q)
      BY <1>3 DEF Flow, Coming
    <2> QED
      BY <1>2, <2>1, NothingJoined
  <1>4. CASE pc[q] # "done" /\ ~reset
    <2>1. Flow(q)' = Msgs(inbox[q]) \o out'[p] /\ Flow(q) = Msgs(inbox[q]) \o <<>>
      BY <1>4 DEF Flow, Coming
    <2>2. Flow(q) = Msgs(inbox[q])
      BY <1>2, <2>1, NothingJoined
    <2> QED
      BY <2>1, <2>2
  <1> QED
    BY <1>3, <1>4

LEMMA TakeFlow ==
    ASSUME IInv, NEW p \in Peer, Recv(p), pc'[p] # "done", out'[Other(p)] = out[Other(p)],
           inbox'[p] = Tail(inbox[p]), reset' = reset
    PROVE  /\ Flow(p) # <<>> /\ Head(Flow(p)) = Msg(p)
           /\ Flow(p)' = Tail(Flow(p))
  <1> DEFINE s == Msgs(inbox[p])
             w == Coming(p)
  <1>1. TransportTypeOK /\ pc[p] # "done"
    BY DEF IInv, TypeInv, TypeOK, Recv, Arrived, Reading
  <1>2. /\ inbox[p] \in Seq(Frames) /\ inbox[p] # <<>> /\ s \in Seq(Packet)
        /\ w \in Seq(Packet)
    BY <1>1, FlowTyped, Received
  <1>3. Msgs(Tail(inbox[p])) = Tail(s) /\ Head(s) = Msg(p) /\ s # <<>>
    BY <1>2, MsgsSteps DEF Msg
  <1>4. Flow(p) = s \o w /\ Flow(p)' = Tail(s) \o w
    BY <1>1, <1>3 DEF Flow, Coming
  <1> HIDE DEF s, w
  <1>5. Tail(s) \o w = Tail(s \o w) /\ s \o w # <<>> /\ Head(s \o w) = Head(s)
    BY <1>2, <1>3, TailJoined
  <1> QED
    BY <1>3, <1>4, <1>5

\* The server handles a packet.
LEMMA ServedOutput ==
    ASSUME IInv, IInv', OutputInv, Recv(S), NEW next, next # "done", NEW packets,
           Handled(S, next, packets), UNCHANGED clientVars,
           Listening => \/ Quiet(packets)
                        \/ /\ next = "loop" /\ IsRequest(Msg(S))
                           /\ Ordered(packets, 0, Output[args.command])
    PROVE  OutputInv'
  <1>1. /\ TransportTypeOK /\ out[S] = <<>> /\ args' = args /\ printed' = printed
        /\ sawClose' = sawClose
        /\ pc'[S] = next /\ pc'[C] = pc[C] /\ out'[S] = packets /\ out'[C] = out[C]
        /\ inbox'[S] = Tail(inbox[S]) /\ inbox'[C] = inbox[C] /\ reset' = reset
        /\ Elems(inbox'[S]) \subseteq Elems(inbox[S])
    BY Received, Parties
       DEF IInv, TypeInv, TypeOK, TransportTypeOK, Handled, clientVars, Recv, Arrived, Reading
  <1>2. packets \in Seq(Packet)
    BY <1>1, Parties DEF IInv, TypeInv, TypeOK, TransportTypeOK
  <1>3. /\ Flow(S) # <<>> /\ Head(Flow(S)) = Msg(S) /\ Flow(S)' = Tail(Flow(S))
    BY <1>1, Parties, TakeFlow
  <1>4. PICK w \in {<<>>, packets} : Flow(C)' = Flow(C) \o w
    BY <1>1, Parties, AddFlow
  <1>5. Flow(S) \in Seq(Packet) /\ Flow(C) \in Seq(Packet) /\ w \in Seq(Packet)
    <2>1. <<>> \in Seq(Packet)
      OBVIOUS
    <2> QED
      BY <1>2, <1>4, <2>1, FlowsTyped
  <1>6. (Listening' <=> Listening) /\ Early' = Early /\ Early \in BOOLEAN
    BY <1>1 DEF Listening, Early
  <1>7. CASE ~Listening
    BY <1>1, <1>6, <1>7 DEF OutputInv
  <1>8. CASE Listening
    <2> DEFINE k == Output[args.command]
    <2>1. Kinds /\ Asked(Flow(S), Flow(C), printed, k, Early)
      BY <1>8 DEF OutputInv
    <2>2. Kinds'
      <3>1. \A m \in Elems(packets) : IsOutput(m) \/ IsClose(m) => next = "loop"
        BY <1>8 DEF Quiet, Elems
      <3> QED
        BY <1>1, <2>1, <3>1 DEF Kinds, Asks
    <2>3. Quiet(w) \/ (IsRequest(Msg(S)) /\ Ordered(w, 0, k))
      BY <1>8 DEF Quiet
    <2>4. Asked(Tail(Flow(S)), Flow(C) \o w, printed, k, Early)
      BY <1>3, <1>5, <1>6, <2>1, <2>3, QuietAsked, ServedAsked
    <2> QED
      BY <1>1, <1>3, <1>4, <1>6, <1>8, <2>2, <2>4 DEF OutputInv
  <1> QED
    BY <1>7, <1>8

LEMMA QuietShort ==
    /\ Quiet(<<>>)
    /\ \A m : ~IsOutput(m) /\ ~IsClose(m) => Quiet(<<m>>)
    /\ \A m, n : ~IsOutput(m) /\ ~IsClose(m) /\ ~IsOutput(n) /\ ~IsClose(n) => Quiet(<<m, n>>)
  BY DEF Quiet

\* What is read in the loop was sent by the client.
LEMMA LoopAsks ==
    ASSUME IInv, OutputInv, Listening, pc[S] = "loop", Recv(S)
    PROVE  Asks(Msg(S))
  <1>1. TransportTypeOK /\ keys[S].dec # NoKey
    BY DerivedOn DEF IInv, TypeInv, TypeOK, KeyInv, ServerKeyed
  <1>2. Head(inbox[S]) \in Elems(inbox[S]) /\ Head(inbox[S]).cipher # NoKey
    BY <1>1, Received, Parties DEF Accepts
  <1> QED
    BY <1>2 DEF OutputInv, Kinds, Msg

LEMMA ServerQuietOutput ==
    ASSUME IInv, IInv', OutputInv, UNCHANGED clientVars,
           \/ RecvClientVersion \/ RecvClientKexInit \/ RecvEcdhInit \/ RecvClientNewKeys
           \/ RecvServiceRequest \/ RecvAuthRequest
           \/ RecvChannelOpen \/ RecvRequest \/ RecvWindowAdjust \/ RecvChannelEof \/ RecvOther
    PROVE  OutputInv'
  <1> DEFINE Turn == \E next, packets : /\ Recv(S) /\ next # "done" /\ Quiet(packets)
                                        /\ Handled(S, next, packets)
  <1>1. CASE RecvClientVersion \/ RecvClientKexInit \/ RecvEcdhInit \/ RecvClientNewKeys
    <2>1. Turn
      BY <1>1, QuietShort DEF RecvClientVersion, RecvClientKexInit, RecvEcdhInit,
         RecvClientNewKeys, Expected, SshPacket, IsOutput, IsClose
    <2> QED
      BY <2>1, ServedOutput
  <1>2. CASE RecvServiceRequest \/ RecvAuthRequest
    <2>1. Turn \/ Rejected(S, "AuthFailed")
      BY <1>2, QuietShort DEF RecvServiceRequest, RecvAuthRequest, Expected, SshPacket,
         IsOutput, IsClose
    <2> QED
      BY <2>1, ServedOutput, RejectedOutput, Parties
  <1>3. CASE RecvChannelOpen \/ RecvRequest \/ RecvWindowAdjust \/ RecvChannelEof \/ RecvOther
    <2>1. Turn \/ Rejected(S, "Channel")
      BY <1>3, QuietShort DEF RecvChannelOpen, RecvRequest, RecvWindowAdjust, RecvChannelEof,
         RecvOther, InLoop, Replies, ToChannel, SshPacket, IsOutput, IsClose
    <2> QED
      BY <2>1, ServedOutput, RejectedOutput, Parties
  <1> QED
    BY <1>1, <1>2, <1>3

\* The answer to "exec": CHANNEL_SUCCESS if wanted, the output, CHANNEL_EOF and
\* CHANNEL_CLOSE.
LEMMA AnswerOrdered ==
    ASSUME NEW a, NEW d, NEW e, NEW c, ~IsOutput(a), ~IsClose(a), IsOutput(d), ~IsClose(d),
           ~IsOutput(e), ~IsClose(e), ~IsOutput(c), NEW s \in {<<>>, <<a>>}
    PROVE  Ordered(s \o <<d, e, c>>, 0, d.num[2])
  <1>1. CASE s = <<>>
    <2>1. s \o <<d, e, c>> = <<d, e, c>>
      BY <1>1
    <2>2. Ordered(<<d, e, c>>, 0, d.num[2])
      BY DEF Ordered
    <2> QED
      BY <2>1, <2>2
  <1>2. CASE s = <<a>>
    <2> DEFINE v == <<a>> \o <<d, e, c>>
    <2>1. DOMAIN v = 1 .. 4 /\ v[1] = a /\ v[2] = d /\ v[3] = e /\ v[4] = c
      OBVIOUS
    <2> HIDE DEF v
    <2>2. DOMAIN v = {1, 2, 3, 4}
      BY <2>1
    <2>3. Ordered(v, 0, d.num[2])
      BY <2>1, <2>2 DEF Ordered
    <2> QED
      BY <1>2, <2>3 DEF v
  <1> QED
    BY <1>1, <1>2

LEMMA ExecOutput ==
    ASSUME IInv, IInv', OutputInv, RecvExec, UNCHANGED clientVars
    PROVE  OutputInv'
  <1> DEFINE r == Msg(S)
  <1>1. Recv(S) /\ pc[S] = "loop" /\ IsRequest(r) /\ r.text[1] = "exec"
    BY DEF RecvExec, InLoop, IsRequest
  <1>2. CASE Found = {}
    BY <1>2, Parties, RejectedOutput DEF RecvExec
  <1>3. CASE Found # {}
    <2>1. PICK id \in Found :
             Replies((IF r.want THEN <<ToChannel("ChannelSuccess", id)>> ELSE <<>>)
                     \o <<build_channel_data(channels.channels[id].remote_id, "output",
                                             Output[r.text[2]]),
                          ToChannel("ChannelEof", id), ToChannel("ChannelClose", id)>>)
      BY <1>3 DEF RecvExec
    <2> DEFINE a == ToChannel("ChannelSuccess", id)
               d == build_channel_data(channels.channels[id].remote_id, "output",
                                       Output[r.text[2]])
               e == ToChannel("ChannelEof", id)
               c == ToChannel("ChannelClose", id)
               s == IF r.want THEN <<a>> ELSE <<>>
               packets == s \o <<d, e, c>>
    <2>2. /\ ~IsOutput(a) /\ ~IsClose(a) /\ IsOutput(d) /\ ~IsClose(d)
          /\ ~IsOutput(e) /\ ~IsClose(e) /\ ~IsOutput(c) /\ s \in {<<>>, <<a>>}
          /\ d.num[2] = Output[r.text[2]]
      BY DEF ToChannel, build_channel_data, SshPacket, IsOutput, IsClose
    <2>3. Handled(S, "loop", packets)
      BY <2>1 DEF Replies
    <2> HIDE DEF a, d, e, c, s
    <2>4. Ordered(packets, 0, Output[r.text[2]])
      BY <2>2, AnswerOrdered
    <2>5. Listening => r.text[2] = args.command
      BY <1>1, LoopAsks DEF Asks
    <2> HIDE DEF packets
    <2> QED
      BY <1>1, <2>3, <2>4, <2>5, ServedOutput
  <1> QED
    BY <1>2, <1>3

\* Lines that the client sends are not answered, and it does not close first.
LEMMA UnansweredOutput ==
    ASSUME IInv, IInv', OutputInv, RecvChannelData \/ RecvChannelClose, UNCHANGED clientVars
    PROVE  OutputInv'
  <1>1. Recv(S) /\ pc[S] = "loop"
    BY DEF RecvChannelData, RecvChannelClose, InLoop
  <1>2. Listening => RecvChannelData /\ Replies(<<>>)
    <2>1. Listening => Asks(Msg(S))
      BY <1>1, LoopAsks
    <2>2. RecvChannelClose => ~Asks(Msg(S))
      BY DEF RecvChannelClose, InLoop, Asks, IsClose
    <2>3. RecvChannelData /\ Asks(Msg(S)) => Replies(<<>>)
      BY DEF RecvChannelData, InLoop, Asks, TakenForRequest
    <2> QED
      BY <2>1, <2>2, <2>3
  <1>3. Rejected(S, "Channel") \/ \E packets : Handled(S, "loop", packets)
    BY DEF RecvChannelData, RecvChannelClose, Replies
  <1>4. CASE Rejected(S, "Channel")
    BY <1>4, Parties, RejectedOutput
  <1>5. CASE Listening
    BY <1>1, <1>2, <1>5, QuietShort, ServedOutput DEF Replies
  <1>6. CASE ~Listening /\ \E packets : Handled(S, "loop", packets)
    BY <1>1, <1>6, ServedOutput
  <1> QED
    BY <1>3, <1>4, <1>5, <1>6

LEMMA ServerOutput ==
    ASSUME IInv, IInv', OutputInv, ServerStep
    PROVE  OutputInv'
  <1>1. UNCHANGED clientVars /\ ServerNext
    BY DEF ServerStep
  <1>2. CASE RecvDisconnect \/ ServerRejects
    <2>1. \E r : Rejected(S, r)
      BY <1>2 DEF RecvDisconnect, ServerRejects
    <2> QED
      BY <1>1, <2>1, Parties, RejectedOutput
  <1>3. CASE ClientGone
    BY <1>1, <1>3, Parties, ReturnOutput DEF ClientGone
  <1>4. CASE ServerIo
    BY <1>1, <1>4, Parties, IoOutput DEF ServerIo
  <1> QED
    BY <1>1, <1>2, <1>3, <1>4, ServerQuietOutput, ExecOutput, UnansweredOutput DEF ServerNext

\* The client handles a packet and goes on reading.
LEMMA TakenOutput ==
    ASSUME IInv, IInv', OutputInv, Recv(C), NEW next, next # "bye", NEW packets,
           next # "done", Handled(C, next, packets), args' = args, sawClose' = sawClose,
           \A m \in Elems(packets) : Asks(m),
           next \in Before \cup {"confirm"} => Early,
           ~Unasked(packets) => /\ Early /\ next \notin Before \cup {"confirm"}
                                /\ Len(packets) = 1,
           ~IsClose(Msg(C)),
           printed' = IF IsOutput(Msg(C)) THEN printed + Msg(C).num[2] ELSE printed
    PROVE  OutputInv'
  <1>1. /\ TransportTypeOK /\ out[C] = <<>> /\ pc[C] \notin {"bye", "done"}
        /\ pc'[C] = next /\ pc'[S] = pc[S] /\ out'[C] = packets /\ out'[S] = out[S]
        /\ inbox'[C] = Tail(inbox[C]) /\ inbox'[S] = inbox[S] /\ reset' = reset
        /\ Elems(inbox'[C]) \subseteq Elems(inbox[C])
    BY Received, Parties
       DEF IInv, TypeInv, TypeOK, TransportTypeOK, Handled, Recv, Arrived, Reading
  <1>2. packets \in Seq(Packet)
    BY <1>1, Parties DEF IInv, TypeInv, TypeOK, TransportTypeOK
  <1>3. /\ Flow(C) # <<>> /\ Head(Flow(C)) = Msg(C) /\ Flow(C)' = Tail(Flow(C))
    BY <1>1, Parties, TakeFlow
  <1>4. PICK w \in {<<>>, packets} : Flow(S)' = Flow(S) \o w
    BY <1>1, Parties, AddFlow
  <1>5. Flow(S) \in Seq(Packet) /\ Flow(C) \in Seq(Packet) /\ w \in Seq(Packet)
        /\ Tail(Flow(C)) \in Seq(Packet)
    <2>1. <<>> \in Seq(Packet)
      OBVIOUS
    <2> QED
      BY <1>2, <1>3, <1>4, <2>1, FlowsTyped, FlowsTypedNext
  <1>6. /\ Listening /\ Listening' /\ Early \in BOOLEAN /\ Early' \in BOOLEAN
        /\ Early' => Early
        /\ ~Unasked(packets) => Early /\ ~Early' /\ Len(packets) = 1
    BY <1>1 DEF Listening, Early
  <1> DEFINE k == Output[args.command]
  <1>7. Kinds /\ Asked(Flow(S), Flow(C), printed, k, Early) /\ ~sawClose
    BY <1>6 DEF OutputInv
  <1>8. Kinds'
    BY <1>1, <1>7 DEF Kinds, Asks
  <1>9. Asked(Flow(S), Tail(Flow(C)), printed', k, Early)
    BY <1>3, <1>5, <1>6, <1>7, SkipsAsked, PrintsAsked
  <1>10. Asked(Flow(S) \o w, Tail(Flow(C)), printed', k, Early')
    <2>1. ~Unasked(w) => Early /\ ~Early' /\ Len(w) = 1
      BY <1>6 DEF Unasked
    <2> DEFINE t == Tail(Flow(C))
               n == printed'
               later == Early'
    <2>2. /\ t \in Seq(Packet) /\ Asked(Flow(S), t, n, k, Early) /\ later \in BOOLEAN
          /\ later => Early
          /\ ~Unasked(w) => Early /\ ~later /\ Len(w) = 1
      BY <1>5, <1>6, <1>9, <2>1
    <2> HIDE DEF t, n, later, k
    <2>3. Asked(Flow(S) \o w, t, n, k, later)
      BY <1>5, <1>6, <2>2, AddsAsked
    <2> QED
      BY <2>3 DEF t, n, later
  <1> QED
    BY <1>3, <1>4, <1>6, <1>7, <1>8, <1>10 DEF OutputInv

\* The client leaves its loop.
LEMMA LeftOutput ==
    ASSUME OutputInv, args' = args, printed' = printed, sawClose' = sawClose,
           ~Listening'
    PROVE  OutputInv'
  BY DEF OutputInv

\* The client writes without having read a packet.
LEMMA UnpromptedOutput ==
    ASSUME IInv, IInv', OutputInv, Listening, NEW next, next \notin {"bye", "done"}, NEW m,
           out[C] = <<>>, pc' = [pc EXCEPT ![C] = next], out' = [out EXCEPT ![C] = <<m>>],
           Asks(m), ~IsRequest(m), next \in Before \cup {"confirm"} => Early,
           inbox' = inbox, reset' = reset, args' = args, printed' = printed, sawClose' = sawClose
    PROVE  OutputInv'
  <1>1. /\ TransportTypeOK
        /\ pc'[C] = next /\ pc'[S] = pc[S] /\ out'[C] = <<m>> /\ out'[S] = out[S]
    BY Parties DEF IInv, TypeInv, TypeOK, TransportTypeOK
  <1>2. <<m>> \in Seq(Packet)
    BY <1>1, Parties DEF IInv, TypeInv, TypeOK, TransportTypeOK
  <1>3. Flow(C)' = Flow(C)
    BY <1>1, Parties DEF Flow, Coming, Listening
  <1>4. PICK w \in {<<>>, <<m>>} : Flow(S)' = Flow(S) \o w
    <2>1. inbox'[S] = inbox[S] /\ pc'[S] = pc[S] /\ C = Other(S) /\ C \in Peer /\ S \in Peer
      BY <1>1, Parties
    <2>2. \E w \in {<<>>, out'[C]} : Flow(S)' = Flow(S) \o w
      BY <2>1, AddFlow
    <2> QED
      BY <1>1, <2>2
  <1>5. Flow(S) \in Seq(Packet) /\ Flow(C) \in Seq(Packet) /\ w \in Seq(Packet)
    <2>1. <<>> \in Seq(Packet)
      OBVIOUS
    <2> QED
      BY <1>2, <1>4, <2>1, FlowsTyped
  <1>6. /\ Listening' /\ Early \in BOOLEAN /\ Early' \in BOOLEAN /\ (Early' => Early)
    BY <1>1 DEF Listening, Early
  <1> DEFINE k == Output[args.command]
  <1>7. Kinds /\ Asked(Flow(S), Flow(C), printed, k, Early) /\ ~sawClose
    BY DEF OutputInv
  <1>8. Kinds'
    BY <1>1, <1>7, ElemsShort DEF Kinds, Asks
  <1>9. Unasked(w)
    BY <1>4 DEF Unasked
  <1>10. Asked(Flow(S) \o w, Flow(C), printed, k, Early')
    BY <1>5, <1>6, <1>7, <1>9, AddsAsked
  <1> QED
    BY <1>3, <1>4, <1>6, <1>7, <1>8, <1>10 DEF OutputInv

LEMMA EarlyOutput ==
    ASSUME IInv, IInv', OutputInv,
           \/ RecvServerVersion \/ RecvServerKexInit \/ RecvEcdhReply \/ RecvServerNewKeys
           \/ RecvServiceAccept \/ RecvAuthSuccess
    PROVE  OutputInv'
  <1> DEFINE Quietly(w) == /\ \A m \in Elems(w) : Asks(m)
                           /\ Unasked(w)
  <1>1. /\ Quietly(<<>>)
        /\ \A m : Asks(m) /\ ~IsRequest(m) => Quietly(<<m>>)
        /\ \A m, n : Asks(m) /\ ~IsRequest(m) /\ Asks(n) /\ ~IsRequest(n) => Quietly(<<m, n>>)
    BY ElemsShort DEF Unasked
  <1>2. /\ Recv(C) /\ Early /\ args' = args /\ sawClose' = sawClose /\ printed' = printed
        /\ ~IsClose(Msg(C)) /\ ~IsOutput(Msg(C))
    BY DEF RecvServerVersion, RecvServerKexInit, RecvEcdhReply, RecvServerNewKeys,
           RecvServiceAccept, RecvAuthSuccess, ClientExpected, ClientExpects, clientVars,
           Early, Before, IsClose, IsOutput
  <1>3. \A type \in {"KexInit", "KexEcdhInit", "NewKeys", "UserAuthRequest", "ChannelOpen"} :
           \A x, y : Asks(SshPacket(type, x, y)) /\ ~IsRequest(SshPacket(type, x, y))
    BY DEF Asks, SshPacket, IsRequest, IsClose
  <1> HIDE DEF Quietly
  <1>4. \E next \in Before \cup {"confirm"} : \E packets :
           Quietly(packets) /\ Handled(C, next, packets)
    <2>1. CASE RecvServerVersion
      BY <1>1, <2>1 DEF RecvServerVersion, Before
    <2>2. CASE RecvServerKexInit
      BY <1>1, <1>3, <2>2 DEF RecvServerKexInit, Before
    <2>3. CASE RecvEcdhReply
      BY <1>1, <2>3 DEF RecvEcdhReply, Before
    <2>4. CASE RecvServerNewKeys
      BY <1>1, <1>3, <2>4 DEF RecvServerNewKeys, Before
    <2>5. CASE RecvServiceAccept
      BY <1>1, <1>3, <2>5 DEF RecvServiceAccept, Before
    <2>6. CASE RecvAuthSuccess
      BY <1>1, <1>3, <2>6 DEF RecvAuthSuccess
    <2> QED
      BY <2>1, <2>2, <2>3, <2>4, <2>5, <2>6
  <1>5. \A next \in Before \cup {"confirm"} : next # "bye" /\ next # "done"
    BY DEF Before
  <1>6. PICK next \in Before \cup {"confirm"} :
           \E packets : Quietly(packets) /\ Handled(C, next, packets)
    BY <1>4
  <1>7. PICK packets : Quietly(packets) /\ Handled(C, next, packets)
    BY <1>6
  <1>8. (\A m \in Elems(packets) : Asks(m)) /\ Unasked(packets)
    BY <1>7 DEF Quietly
  <1> QED
    BY <1>2, <1>5, <1>7, <1>8, TakenOutput

LEMMA StartAsks ==
    ASSUME NEW r, args.mode \in {"exec", "interactive"}
    PROVE  \E m : Start(r) = <<m>> /\ Asks(m)
  <1> DEFINE n(t) == [SshPacket("ChannelRequest", t, <<r>>) EXCEPT !.want = TRUE]
  <1>1. \A t : n(t).type = "ChannelRequest" /\ n(t).text = t
    BY DEF SshPacket
  <1>2. CASE args.mode = "exec"
    <2> DEFINE t == <<"exec", args.command>>
    <2>1. Start(r) = <<n(t)>> /\ t[2] = args.command
      BY <1>2 DEF Start
    <2> HIDE DEF n, t
    <2>2. Asks(n(t))
      BY <1>1, <2>1 DEF Asks, IsRequest, IsClose
    <2> QED
      BY <2>1, <2>2
  <1>3. CASE args.mode = "interactive"
    <2> DEFINE t == <<"shell">>
    <2>1. Start(r) = <<n(t)>> /\ t[1] # "exec"
      BY <1>3 DEF Start
    <2> HIDE DEF n, t
    <2>2. Asks(n(t))
      BY <1>1, <2>1 DEF Asks, IsRequest, IsClose
    <2> QED
      BY <2>1, <2>2
  <1> QED
    BY <1>2, <1>3

LEMMA ConfirmedOutput ==
    ASSUME IInv, IInv', OutputInv, RecvConfirmation
    PROVE  OutputInv'
  <1> DEFINE r == Msg(C).num[2]
             next == IF args.mode = "none" THEN "bye" ELSE args.mode
  <1>1. /\ Recv(C) /\ pc[C] = "confirm" /\ Early /\ Handled(C, next, Start(r))
        /\ args' = args /\ sawClose' = sawClose /\ printed' = printed
        /\ ~IsClose(Msg(C)) /\ ~IsOutput(Msg(C)) /\ ArgsOK
    BY ClientTyped DEF RecvConfirmation, ClientExpected, ClientExpects, Early, IsClose, IsOutput
  <1>2. CASE args.mode = "none"
    <2>1. pc'[C] = "bye"
      BY <1>1, <1>2, Parties DEF Handled, IInv, TypeInv, TypeOK
    <2> QED
      BY <1>1, <2>1, LeftOutput DEF Listening
  <1>3. CASE args.mode # "none"
    <2>1. args.mode \in {"exec", "interactive"} /\ next = args.mode
      BY <1>1, <1>3 DEF ArgsOK
    <2>2. PICK m : Start(r) = <<m>> /\ Asks(m)
      BY <2>1, StartAsks
    <2>3. /\ Handled(C, next, <<m>>) /\ \A x \in Elems(<<m>>) : Asks(x)
          /\ Len(<<m>>) = 1 /\ next # "bye" /\ next # "done"
          /\ next \notin Before \cup {"confirm"}
      BY <1>1, <2>1, <2>2, ElemsShort DEF Before
    <2> QED
      BY <1>1, <2>3, TakenOutput
  <1> QED
    BY <1>2, <1>3

LEMMA LoopingOutput ==
    ASSUME IInv, IInv', OutputInv, RecvData \/ RecvClose \/ RecvNothingToDo
    PROVE  OutputInv'
  <1>1. /\ Recv(C) /\ pc[C] \in {"exec", "interactive"} /\ args' = args
        /\ pc[C] \notin Before \cup {"confirm"} /\ Listening
    BY DEF RecvData, RecvClose, RecvNothingToDo, clientVars, Looping, Before, Listening
  <1>2. (\A m \in Elems(<<>>) : Asks(m)) /\ Unasked(<<>>)
    BY ElemsShort DEF Unasked
  <1>3. CASE RecvData \/ RecvNothingToDo
    <2>1. /\ Handled(C, pc[C], <<>>) /\ sawClose' = sawClose /\ ~IsClose(Msg(C))
          /\ printed' = IF IsOutput(Msg(C)) THEN printed + Msg(C).num[2] ELSE printed
      BY <1>3 DEF RecvData, RecvNothingToDo, clientVars, IsOutput, IsClose
    <2> QED
      BY <1>1, <1>2, <2>1, TakenOutput
  <1>4. CASE RecvClose
    <2>1. /\ sawClose' = TRUE /\ printed' = printed /\ IsClose(Msg(C)) /\ pc'[C] = "bye"
      BY <1>4, Parties DEF RecvClose, Handled, IsClose, IInv, TypeInv, TypeOK
    <2>2. /\ Flow(C) \in Seq(Packet) /\ Flow(C) # <<>> /\ Head(Flow(C)) = Msg(C)
      <3>1. /\ pc'[C] # "done" /\ out'[S] = out[S] /\ inbox'[C] = Tail(inbox[C])
            /\ reset' = reset
        BY <1>4, <2>1, Parties
           DEF RecvClose, Handled, IInv, TypeInv, TypeOK, TransportTypeOK
      <3> QED
        BY <1>1, <3>1, Parties, TakeFlow, FlowsTyped
    <2>3. printed = Output[args.command]
      BY <1>1, <2>1, <2>2, ClosedAsked DEF OutputInv
    <2> QED
      BY <1>1, <2>1, <2>3 DEF OutputInv, Listening
  <1> QED
    BY <1>3, <1>4

LEMMA ClientOutput ==
    ASSUME IInv, IInv', OutputInv, ClientStep
    PROVE  OutputInv'
  <1>1. ClientNext /\ pc \in [Peer -> ServerAt \cup ClientAt]
    BY DEF ClientStep, IInv, TypeInv, TypeOK
  <1>2. CASE ActivateKeys
    <2> DEFINE m == SshPacket("ServiceRequest", <<"ssh-userauth">>, <<>>)
    <2>1. Asks(m) /\ ~IsRequest(m)
      BY DEF Asks, SshPacket, IsRequest, IsClose
    <2>2. /\ Listening /\ out[C] = <<>> /\ pc' = [pc EXCEPT ![C] = "accept"]
          /\ out' = [out EXCEPT ![C] = <<m>>] /\ Early /\ inbox' = inbox /\ reset' = reset
          /\ args' = args /\ printed' = printed /\ sawClose' = sawClose
      BY <1>2 DEF ActivateKeys, Listening, Early, Before, clientVars
    <2> HIDE DEF m
    <2> QED
      BY <2>1, <2>2, UnpromptedOutput
  <1>3. CASE SendLine
    <2> DEFINE m == SshPacket("ChannelData", <<"line">>, <<remote_id, 1>>)
    <2>1. Asks(m) /\ ~IsRequest(m)
      <3>1. m.type = "ChannelData" /\ m.text = <<"line">> /\ Head(<<"line">>) = "line"
        BY DEF SshPacket
      <3> QED
        BY <3>1 DEF Asks, IsRequest, IsClose
    <2>2. /\ Listening /\ out[C] = <<>> /\ pc' = pc /\ pc[C] = "interactive"
          /\ out' = [out EXCEPT ![C] = <<m>>] /\ inbox' = inbox /\ reset' = reset
          /\ args' = args /\ printed' = printed /\ sawClose' = sawClose
      BY <1>3 DEF SendLine, Interactive, Listening
    <2>3. /\ pc' = [pc EXCEPT ![C] = "interactive"]
          /\ "interactive" \notin Before \cup {"confirm"}
      BY <1>1, <2>2, Parties DEF Before
    <2> HIDE DEF m
    <2> QED
      BY <2>1, <2>2, <2>3, UnpromptedOutput
  <1>4. CASE ServerGone
    <2>1. pc'[C] = "bye" /\ args' = args /\ printed' = printed /\ sawClose' = sawClose
      BY <1>1, <1>4, Parties DEF ServerGone, clientVars
    <2> QED
      BY <2>1, LeftOutput DEF Listening
  <1>5. CASE ReturnOk
    BY <1>5, Parties, ReturnOutput DEF ReturnOk
  <1>6. CASE ClientRejects
    <2>1. UNCHANGED clientVars /\ \E r : Rejected(C, r)
      BY <1>6 DEF ClientRejects
    <2> QED
      BY <2>1, Parties, RejectedOutput
  <1>7. CASE ClientIo
    BY <1>7, Parties, IoOutput DEF ClientIo
  <1> QED
    BY <1>1, <1>2, <1>3, <1>4, <1>5, <1>6, <1>7, EarlyOutput, ConfirmedOutput, LoopingOutput
       DEF ClientNext

LEMMA SteadyOutput ==
    ASSUME OutputInv, UNCHANGED <<transport, args, printed, sawClose>>
    PROVE  OutputInv'
  BY DEF OutputInv, transport, Listening, Early, Kinds, Asks, Flow, Coming

LEMMA InitOutput == Init => OutputInv
  <1> SUFFICES ASSUME Init PROVE OutputInv
    OBVIOUS
  <1> DEFINE m == SshPacket("Version", <<SSH_VERSION_STRING>>, <<>>)
  <1>1. /\ pc = [p \in Peer |-> "version"] /\ out = [p \in Peer |-> <<m>>]
        /\ inbox = [p \in Peer |-> <<>>] /\ reset = FALSE /\ printed = 0 /\ sawClose = FALSE
        /\ m.type = "Version"
    BY DEF Init, TransportInit, ClientInit, SshPacket
  <1> HIDE DEF m
  <1>2. /\ pc[C] = "version" /\ pc[S] = "version" /\ out[C] = <<m>> /\ out[S] = <<m>>
        /\ inbox[C] = <<>> /\ inbox[S] = <<>>
    BY <1>1, Parties
  <1>3. Flow(C) = <<m>> /\ Flow(S) = <<m>>
    <2>1. Msgs(<<>>) = <<>> /\ <<>> \o <<m>> = <<m>>
      BY DEF Msgs
    <2> QED
      BY <1>1, <1>2, <2>1, Parties DEF Flow, Coming
  <1>4. Kinds
    BY <1>1, <1>2, ElemsShort DEF Kinds, Asks, IsRequest, IsOutput, IsClose
  <1>5. Asked(<<m>>, <<m>>, 0, Output[args.command], TRUE)
    BY <1>1 DEF Asked, Unasked, Silent, Ordered, IsRequest, IsOutput, IsClose
  <1>6. Early = TRUE
    BY <1>2 DEF Early, Before
  <1> QED
    BY <1>1, <1>3, <1>4, <1>5, <1>6 DEF OutputInv

LEMMA NextOutput == IInv /\ IInv' /\ OutputInv /\ [Next]_vars => OutputInv'
  <1> SUFFICES ASSUME IInv, IInv', OutputInv, [Next]_vars PROVE OutputInv'
    OBVIOUS
  <1>1. CASE UserStep
    BY <1>1, SteadyOutput DEF UserStep, User, TypeLine, StdinEof
  <1>2. CASE UNCHANGED vars
    BY <1>2, SteadyOutput DEF vars, clientVars
  <1> QED
    BY <1>1, <1>2, ServerOutput, ClientOutput, NetworkOutput DEF Next, Finished

\* A client that has read the server's CHANNEL_CLOSE has printed all of the
\* output of its command, whatever was damaged or lost on the way: RecvExec of
\* the server writes the output in front of CHANNEL_CLOSE, nothing overtakes on
\* the connection, and nothing else makes the server write either of the two.
THEOREM OutputComplete == Spec => []CloseAfterOutput
  <1>1. OutputInv => CloseAfterOutput
    BY DEF OutputInv, CloseAfterOutput
  <1> QED
    BY <1>1, Invariance, InitOutput, NextOutput, PTL DEF Spec

-----------------------------------------------------------------------------
(* The inductive invariant behind InSync. *)

\* The exchange hash that both sides arrive at when nothing is damaged, and the
\* keys that p wants of what it reads then.
AgreedHash == KexComplete(C, Own(S))

Incoming(p) == IF p = S THEN ClientToServer(AgreedHash) ELSE ServerToClient(AgreedHash)

\* Keys are on.
On(p) == pc[p] \in Keyed \cup ServerKeyed

\* A handshake packet of p carries what p contributes.
Genuine(p, m) ==
    /\ m.type = "Version" => m.text = <<Own(p).version>>
    /\ m.type = "KexInit" => m.text = <<Own(p).kexinit>>
    /\ m.type = "KexEcdhInit" => m.text = <<Own(p).pub>>
    /\ m.type = "KexEcdhReply" => m.text = <<Own(p).host_key, Own(p).pub, "signature">>

Contributed ==
    \A p \in Peer : /\ \A m \in Elems(out[p]) : Genuine(p, m)
                    /\ \A f \in Elems(inbox[Other(p)]) : Genuine(p, f.msg)

\* The view of a side is that of the other as far as it has been told.
Told ==
    /\ pc[C] \notin {"version", "done"} => kex[C].version = Own(S).version
    /\ pc[C] \notin {"version", "kexinit", "done"} => kex[C].kexinit = Own(S).kexinit
    /\ pc[C] \notin {"version", "kexinit", "reply", "done"} =>
          kex[C].pub = Own(S).pub /\ kex[C].host_key = Own(S).host_key
    /\ pc[S] \notin {"version", "done"} => kex[S].version = Own(C).version
    /\ pc[S] \notin {"version", "kexinit", "done"} => kex[S].kexinit = Own(C).kexinit
    /\ pc[S] \notin {"version", "kexinit", "ecdh", "done"} => kex[S].pub = Own(C).pub

\* A version string is the first that a side writes, and is read first.
OneVersion(p) ==
    /\ \A i \in DOMAIN inbox[p] : inbox[p][i].msg.type = "Version" => i = 1 /\ pc[p] = "version"
    /\ \A m \in Elems(out[Other(p)]) : m.type = "Version" =>
          inbox[p] = <<>> /\ pc[p] \in {"version", "done"} /\ out[Other(p)] = <<m>>

\* NEWKEYS is the last packet in the clear of the server, and it waits then.
ServerWaits ==
    /\ \A p \in Peer : pc[p] = "done" => out[p] = <<>>
    /\ pc[S] = "service" => out[S] = <<>>
    /\ pc[C] \in Past /\ pc[S] = "newkeys" => out[S] = <<>>
    /\ pc[C] = "activate" => inbox[C] = <<>>
    /\ pc[C] \notin Past \cup {"done"} =>
          /\ \A i \in DOMAIN inbox[C] :
                inbox[C][i].msg.type = "NewKeys" => i = Len(inbox[C]) /\ out[S] = <<>>
          /\ \A i \in DOMAIN out[S] : out[S][i].type = "NewKeys" => i = Len(out[S])

\* The client's NEWKEYS is its last packet in the clear.
Announced == pc[S] \in ServerKeyed \/ \E f \in Elems(inbox[S]) : f.msg.type = "NewKeys"

ClientSwitches ==
    /\ pc[C] = "activate" /\ out[C] # <<>> =>
          Len(out[C]) = 1 /\ Head(out[C]).type = "NewKeys" /\ ~Announced
    /\ pc[C] \in Keyed \/ (pc[C] = "activate" /\ out[C] = <<>>) =>
          reset \/ pc[S] = "done" \/ Announced

\* Frame f is as it has to be with number n, under the given keys if `on'.
Readable(f, on, key, n) ==
    IF on THEN f.cipher = key.cipher /\ f.mac = <<key.mac, n>>
          ELSE f.cipher = NoKey /\ f.mac = NoMac

IsNewKeys(f) == f.msg.type = "NewKeys"

\* The frames of s are numbered n[1], n[2], ...; keys are on from the start or
\* from the first NEWKEYS.
Chain(s, on, key, n) ==
    \A i \in DOMAIN s :
        /\ n[i + 1] = IF s[i].msg.type = "Version" THEN n[i] ELSE (n[i] + 1) % SeqMod
        /\ Readable(s[i], on \/ \E j \in DOMAIN s : j < i /\ IsNewKeys(s[j]), key, n[i])

\* The numbers of the frames on their way to p, and of the one to come.
Numbered(p, n) ==
    /\ n[1] = keys[p].recv_seq
    /\ Chain(inbox[p], On(p), Incoming(p), n)
    /\ ~reset /\ pc[Other(p)] # "done" => n[Len(inbox[p]) + 1] = keys[Other(p)].send_seq

Numbers(p) == pc[p] # "done" => \E n : Numbered(p, n)

Steps == /\ Contributed /\ Told /\ ServerWaits /\ ClientSwitches
         /\ \A p \in Peer : OneVersion(p)

SyncInv == noise = 0 => Steps /\ \A p \in Peer : Numbers(p)

-----------------------------------------------------------------------------
(* Chains of frames. *)

LEMMA ChainFront ==
    ASSUME NEW s \in Seq(Frames), NEW t, IsFront(t, s), NEW on \in BOOLEAN, NEW key, NEW n,
           Chain(s, on, key, n)
    PROVE  Chain(t, on, key, n)
  <1>1. /\ DOMAIN s = 1 .. Len(s) /\ DOMAIN t = 1 .. Len(t) /\ Len(t) \in 0 .. Len(s)
        /\ Len(s) \in Nat /\ \A i \in DOMAIN t : t[i] = s[i]
    BY FrontFacts
  <1>2. ASSUME NEW i \in DOMAIN t
        PROVE  /\ n[i + 1] = IF t[i].msg.type = "Version" THEN n[i] ELSE (n[i] + 1) % SeqMod
               /\ Readable(t[i], on \/ \E j \in DOMAIN t : j < i /\ IsNewKeys(t[j]), key, n[i])
    <2> DEFINE P == \E j \in DOMAIN s : j < i /\ IsNewKeys(s[j])
               Q == \E j \in DOMAIN t : j < i /\ IsNewKeys(t[j])
    <2>1. i \in DOMAIN s /\ t[i] = s[i]
      BY <1>1
    <2>2. P <=> Q
      BY <1>1
    <2>3. /\ n[i + 1] = IF s[i].msg.type = "Version" THEN n[i] ELSE (n[i] + 1) % SeqMod
          /\ Readable(s[i], on \/ P, key, n[i])
      BY <2>1 DEF Chain
    <2> HIDE DEF P, Q
    <2>4. Readable(t[i], on \/ Q, key, n[i])
      BY <2>1, <2>2, <2>3 DEF Readable
    <2> QED
      BY <2>1, <2>3, <2>4 DEF Q
  <1> QED
    BY <1>2 DEF Chain

LEMMA ChainTail ==
    ASSUME NEW s \in Seq(Frames), s # <<>>, NEW on \in BOOLEAN, NEW on2 \in BOOLEAN, NEW key,
           NEW n, Chain(s, on, key, n), on2 <=> (on \/ IsNewKeys(Head(s))),
           NEW n2, \A i \in 1 .. Len(s) : n2[i] = n[i + 1]
    PROVE  Chain(Tail(s), on2, key, n2)
  <1> DEFINE t == Tail(s)
  <1>1. /\ DOMAIN s = 1 .. Len(s) /\ Len(s) \in Nat \ {0} /\ Head(s) = s[1]
        /\ DOMAIN t = 1 .. Len(s) - 1 /\ \A i \in DOMAIN t : t[i] = s[i + 1]
    OBVIOUS
  <1> HIDE DEF t
  <1>2. ASSUME NEW i \in DOMAIN t
        PROVE  /\ n2[i + 1] = IF t[i].msg.type = "Version" THEN n2[i] ELSE (n2[i] + 1) % SeqMod
               /\ Readable(t[i], on2 \/ \E j \in DOMAIN t : j < i /\ IsNewKeys(t[j]), key, n2[i])
    <2> DEFINE P == \E j \in DOMAIN s : j < i + 1 /\ IsNewKeys(s[j])
               Q == \E j \in DOMAIN t : j < i /\ IsNewKeys(t[j])
    <2>1. /\ i + 1 \in DOMAIN s /\ t[i] = s[i + 1] /\ n2[i] = n[i + 1] /\ i \in Nat
          /\ n2[i + 1] = n[i + 1 + 1]
      BY <1>1
    <2>2. (on \/ P) <=> (on2 \/ Q)
      <3>1. ASSUME NEW j \in DOMAIN s, j < i + 1, IsNewKeys(s[j]) PROVE on2 \/ Q
        <4>1. CASE j = 1
          BY <1>1, <3>1, <4>1
        <4>2. CASE j # 1
          <5>1. j - 1 \in DOMAIN t /\ t[j - 1] = s[j] /\ j - 1 < i
            BY <1>1, <2>1, <3>1, <4>2
          <5> QED
            BY <3>1, <5>1
        <4> QED
          BY <4>1, <4>2
      <3>2. ASSUME NEW j \in DOMAIN t, j < i, IsNewKeys(t[j]) PROVE P
        <4>1. j + 1 \in DOMAIN s /\ t[j] = s[j + 1] /\ j + 1 < i + 1
          BY <1>1, <2>1, <3>2
        <4> QED
          BY <3>2, <4>1
      <3>3. IsNewKeys(Head(s)) => P
        BY <1>1, <2>1
      <3> HIDE DEF P, Q
      <3>4. P => on2 \/ Q
        BY <3>1 DEF P
      <3>5. Q => P
        BY <3>2 DEF Q
      <3> QED
        BY <3>3, <3>4, <3>5
    <2>3. /\ n[i + 1 + 1] = IF s[i + 1].msg.type = "Version" THEN n[i + 1]
                            ELSE (n[i + 1] + 1) % SeqMod
          /\ Readable(s[i + 1], on \/ P, key, n[i + 1])
      BY <2>1 DEF Chain
    <2> HIDE DEF P, Q
    <2>4. Readable(t[i], on2 \/ Q, key, n2[i])
      BY <2>1, <2>2, <2>3 DEF Readable
    <2> QED
      BY <2>1, <2>3, <2>4 DEF Q
  <1> QED
    BY <1>2 DEF Chain, t

LEMMA ChainAdd ==
    ASSUME NEW s \in Seq(Frames), NEW f \in Frames, NEW on \in BOOLEAN, NEW key, NEW n,
           Chain(s, on, key, n),
           Readable(f, on \/ \E j \in DOMAIN s : IsNewKeys(s[j]), key, n[Len(s) + 1]),
           NEW n2, \A i \in 1 .. Len(s) + 1 : n2[i] = n[i],
           n2[Len(s) + 2] = IF f.msg.type = "Version" THEN n[Len(s) + 1]
                            ELSE (n[Len(s) + 1] + 1) % SeqMod
    PROVE  Chain(Append(s, f), on, key, n2)
  <1> DEFINE t == Append(s, f)
  <1>1. /\ DOMAIN s = 1 .. Len(s) /\ Len(s) \in Nat /\ t[Len(s) + 1] = f
        /\ DOMAIN t = 1 .. Len(s) + 1 /\ \A i \in DOMAIN s : t[i] = s[i]
    OBVIOUS
  <1> HIDE DEF t
  <1>2. ASSUME NEW i \in DOMAIN t
        PROVE  /\ n2[i + 1] = IF t[i].msg.type = "Version" THEN n2[i] ELSE (n2[i] + 1) % SeqMod
               /\ Readable(t[i], on \/ \E j \in DOMAIN t : j < i /\ IsNewKeys(t[j]), key, n2[i])
    <2> DEFINE P == \E j \in DOMAIN s : j < i /\ IsNewKeys(s[j])
               Q == \E j \in DOMAIN t : j < i /\ IsNewKeys(t[j])
    <2>1. P <=> Q
      BY <1>1
    <2>2. n2[i] = n[i]
      BY <1>1
    <2>3. CASE i \in DOMAIN s
      <3>1. t[i] = s[i] /\ n2[i + 1] = n[i + 1]
        BY <1>1, <2>3
      <3>2. /\ n[i + 1] = IF s[i].msg.type = "Version" THEN n[i] ELSE (n[i] + 1) % SeqMod
            /\ Readable(s[i], on \/ P, key, n[i])
        BY <2>3 DEF Chain
      <3> HIDE DEF P, Q
      <3>3. Readable(t[i], on \/ Q, key, n2[i])
        BY <2>1, <2>2, <3>1, <3>2 DEF Readable
      <3> QED
        BY <2>2, <3>1, <3>2, <3>3 DEF Q
    <2>4. CASE i \notin DOMAIN s
      <3>1. i = Len(s) + 1 /\ t[i] = f /\ n2[i + 1] = n2[Len(s) + 2]
        BY <1>1, <2>4
      <3>2. P <=> \E j \in DOMAIN s : IsNewKeys(s[j])
        BY <1>1, <3>1
      <3> HIDE DEF P, Q
      <3>3. Readable(t[i], on \/ Q, key, n2[i])
        BY <2>1, <2>2, <3>1, <3>2 DEF Readable
      <3> QED
        BY <2>2, <3>1, <3>3 DEF Q
    <2> QED
      BY <2>3, <2>4
  <1> QED
    BY <1>2 DEF Chain, t

-----------------------------------------------------------------------------
(* The numbers on the way to p, step by step. *)

\* Nothing arrives for p, or at most some of what is on its way is lost.
LEMMA NumbersFront ==
    ASSUME NEW p \in Peer, inbox[p] \in Seq(Frames), Numbers(p), IsFront(inbox'[p], inbox[p]),
           pc'[p] # "done" =>
               /\ pc[p] # "done" /\ keys'[p].recv_seq = keys[p].recv_seq
               /\ On(p)' = On(p) \/ inbox'[p] = <<>>
               /\ ~reset' /\ pc'[Other(p)] # "done" =>
                     /\ ~reset /\ pc[Other(p)] # "done" /\ inbox'[p] = inbox[p]
                     /\ keys'[Other(p)].send_seq = keys[Other(p)].send_seq
    PROVE  Numbers(p)'
  <1> SUFFICES ASSUME pc'[p] # "done" PROVE \E n : Numbered(p, n)'
    BY DEF Numbers
  <1>1. PICK n : Numbered(p, n)
    BY DEF Numbers
  <1>2. On(p) \in BOOLEAN /\ On(p)' \in BOOLEAN /\ Incoming(p)' = Incoming(p)
    BY DEF On, Incoming, AgreedHash
  <1>3. Chain(inbox'[p], On(p)', Incoming(p), n)
    <2>1. CASE On(p)' = On(p)
      BY <1>1, <1>2, <2>1, ChainFront DEF Numbered
    <2>2. CASE inbox'[p] = <<>>
      <3>1. DOMAIN inbox'[p] = {}
        BY <2>2
      <3> QED
        BY <3>1 DEF Chain
    <2> QED
      BY <2>1, <2>2
  <1>4. Numbered(p, n)'
    BY <1>1, <1>2, <1>3 DEF Numbered
  <1> QED
    BY <1>4

\* p reads a packet.
LEMMA NumbersTake ==
    ASSUME NEW p \in Peer, inbox[p] \in Seq(Frames), Numbers(p), pc[p] # "done",
           inbox[p] # <<>>, inbox'[p] = Tail(inbox[p]),
           keys'[p].recv_seq = IF Head(inbox[p]).msg.type = "Version" THEN keys[p].recv_seq
                               ELSE (keys[p].recv_seq + 1) % SeqMod,
           \/ On(p)' <=> (On(p) \/ IsNewKeys(Head(inbox[p])))
           \/ Tail(inbox[p]) = <<>>,
           reset' = reset, pc'[Other(p)] = pc[Other(p)],
           keys'[Other(p)].send_seq = keys[Other(p)].send_seq
    PROVE  Numbers(p)'
  <1> DEFINE s == inbox[p]
  <1>1. PICK n : Numbered(p, n)
    BY DEF Numbers
  <1>2. /\ On(p) \in BOOLEAN /\ On(p)' \in BOOLEAN /\ Incoming(p)' = Incoming(p)
        /\ n[1] = keys[p].recv_seq /\ Chain(s, On(p), Incoming(p), n)
    BY <1>1 DEF On, Incoming, AgreedHash, Numbered
  <1>8. /\ Len(s) \in Nat \ {0} /\ 1 \in DOMAIN s /\ Head(s) = s[1] /\ Len(Tail(s)) = Len(s) - 1
    OBVIOUS
  <1>3. PICK n2 : \A i \in 1 .. Len(s) : n2[i] = n[i + 1]
    <2>1. \A i \in 1 .. Len(s) : [j \in 1 .. Len(s) |-> n[j + 1]][i] = n[i + 1]
      OBVIOUS
    <2> QED
      BY <2>1
  <1>4. n2[1] = keys'[p].recv_seq
    BY <1>2, <1>3, <1>8 DEF Chain
  <1>5. Chain(Tail(s), On(p)', Incoming(p), n2)
    <2>1. CASE On(p)' <=> (On(p) \/ IsNewKeys(Head(s)))
      BY <1>2, <1>3, <1>8, <2>1, ChainTail
    <2>2. CASE Tail(s) = <<>>
      <3>1. DOMAIN Tail(s) = {}
        BY <2>2
      <3> QED
        BY <3>1 DEF Chain
    <2> QED
      BY <2>1, <2>2
  <1>6. ~reset' /\ pc'[Other(p)] # "done" =>
           n2[Len(inbox'[p]) + 1] = keys'[Other(p)].send_seq
    <2>1. Len(inbox'[p]) + 1 = Len(s) /\ n2[Len(s)] = n[Len(s) + 1]
      BY <1>3, <1>8
    <2> QED
      BY <1>1, <2>1 DEF Numbered
  <1>7. Numbered(p, n2)'
    BY <1>2, <1>4, <1>5, <1>6 DEF Numbered
  <1> QED
    BY <1>7 DEF Numbers

\* A packet is written to p.
LEMMA NumbersAdd ==
    ASSUME NEW p \in Peer, inbox[p] \in Seq(Frames), Numbers(p), pc'[p] = pc[p],
           ~reset, pc[Other(p)] # "done", pc[p] # "done",
           NEW f \in Frames, inbox'[p] = Append(inbox[p], f),
           Readable(f, On(p) \/ \E j \in DOMAIN inbox[p] : IsNewKeys(inbox[p][j]),
                    Incoming(p), keys[Other(p)].send_seq),
           keys'[p].recv_seq = keys[p].recv_seq,
           keys'[Other(p)].send_seq = IF f.msg.type = "Version" THEN keys[Other(p)].send_seq
                                      ELSE (keys[Other(p)].send_seq + 1) % SeqMod
    PROVE  Numbers(p)'
  <1> DEFINE s == inbox[p]
             last == keys'[Other(p)].send_seq
  <1>1. PICK n : Numbered(p, n)
    BY DEF Numbers
  <1>2. /\ On(p) \in BOOLEAN /\ On(p)' = On(p) /\ Incoming(p)' = Incoming(p)
        /\ n[1] = keys[p].recv_seq /\ Chain(s, On(p), Incoming(p), n)
        /\ n[Len(s) + 1] = keys[Other(p)].send_seq
    BY <1>1 DEF On, Incoming, AgreedHash, Numbered
  <1>3. PICK n2 : /\ \A i \in 1 .. Len(s) + 1 : n2[i] = n[i]
                  /\ n2[Len(s) + 2] = last /\ n2[1] = n[1]
    <2> DEFINE m == [i \in 1 .. Len(s) + 2 |-> IF i = Len(s) + 2 THEN last ELSE n[i]]
    <2> HIDE DEF last
    <2>1. /\ \A i \in 1 .. Len(s) + 1 : m[i] = n[i]
          /\ m[Len(s) + 2] = last /\ m[1] = n[1]
      OBVIOUS
    <2> HIDE DEF m
    <2> QED
      BY <2>1
  <1>6. Len(Append(s, f)) + 1 = Len(s) + 2
    OBVIOUS
  <1> HIDE DEF last
  <1>4. Chain(Append(s, f), On(p), Incoming(p), n2)
    BY <1>2, <1>3, ChainAdd DEF last
  <1>5. Numbered(p, n2)'
    BY <1>2, <1>3, <1>4, <1>6 DEF Numbered, last
  <1> QED
    BY <1>5 DEF Numbers

-----------------------------------------------------------------------------
(* Both sides arrive at the same keys. *)

LEMMA ServerHash ==
    ASSUME NEW v \in KexView, v.version = Own(C).version, v.kexinit = Own(C).kexinit,
           v.pub = Own(C).pub
    PROVE  KexComplete(S, v) = AgreedHash
  <1>1. DiffieHellman(Own(S).pub, v.pub) = DiffieHellman(Own(C).pub, Own(S).pub)
    BY DEF DiffieHellman
  <1>2. /\ KexComplete(S, v) = ExchangeHash(v, Own(S), DiffieHellman(Own(S).pub, v.pub))
        /\ AgreedHash = ExchangeHash(Own(C), Own(S), DiffieHellman(Own(C).pub, Own(S).pub))
    BY DEF KexComplete, AgreedHash, C, S
  <1>3. \A z : ExchangeHash(v, Own(S), z) = ExchangeHash(Own(C), Own(S), z)
    BY DEF ExchangeHash
  <1> QED
    BY <1>1, <1>2, <1>3

LEMMA AgreedTyped ==
    /\ AgreedHash \in Hash
    /\ \A p \in Peer : Incoming(p).cipher # NoKey /\ Incoming(p).mac # NoKey
  <1>1. AgreedHash \in Hash
    BY Parties, OwnTyped, HashTyped DEF AgreedHash
  <1> QED
    BY <1>1, KeyTypes DEF Incoming

LEMMA AgreedKeys ==
    ASSUME IInv, Told
    PROVE  /\ pc[C] \in Keyed =>
                 /\ keys[C].enc = Incoming(S).cipher /\ keys[C].send_mac_key = Incoming(S).mac
                 /\ keys[C].dec = Incoming(C).cipher /\ keys[C].recv_mac_key = Incoming(C).mac
           /\ pc[S] \in ServerKeyed =>
                 /\ keys[S].enc = Incoming(C).cipher /\ keys[S].send_mac_key = Incoming(C).mac
                 /\ keys[S].dec = Incoming(S).cipher /\ keys[S].recv_mac_key = Incoming(S).mac
  <1>1. /\ kex[C] \in KexView /\ kex[S] \in KexView /\ Own(S) \in KexView
        /\ Incoming(S) = ClientToServer(AgreedHash) /\ Incoming(C) = ServerToClient(AgreedHash)
    BY Parties, OwnTyped DEF IInv, TypeInv, TypeOK, TransportTypeOK, Incoming
  <1>2. ASSUME pc[C] \in Keyed
        PROVE  ClientDerived /\ KexComplete(C, kex[C]) = AgreedHash
    <2>1. kex[C] = Own(S)
      BY <1>1, <1>2, SameView DEF Told, Keyed, Past
    <2> QED
      BY <1>2, <2>1 DEF IInv, KeyInv, AgreedHash
  <1>3. ASSUME pc[S] \in ServerKeyed
        PROVE  ServerDerived /\ KexComplete(S, kex[S]) = AgreedHash
    BY <1>1, <1>3, ServerHash DEF Told, ServerKeyed, IInv, KeyInv
  <1> QED
    BY <1>1, <1>2, <1>3 DEF ClientDerived, ServerDerived

\* On an undamaged connection what has arrived is readable.
LEMMA SyncAccepts == IInv /\ SyncInv => InSync
  <1> SUFFICES ASSUME IInv, SyncInv, noise = 0, NEW p \in Peer, Arrived(p)
               PROVE  Accepts(keys[p], Head(inbox[p]))
    BY DEF InSync
  <1>1. /\ Numbers(p) /\ Told /\ pc[p] # "done" /\ inbox[p] # <<>> /\ inbox[p] \in Seq(Frames)
    BY DEF SyncInv, Steps, Arrived, Reading, IInv, TypeInv, TypeOK, TransportTypeOK
  <1> DEFINE f == Head(inbox[p])
  <1>2. PICK n : Numbered(p, n)
    BY <1>1 DEF Numbers
  <1>3. 1 \in DOMAIN inbox[p] /\ f = inbox[p][1] /\ \A j \in DOMAIN inbox[p] : ~(j < 1)
    BY <1>1
  <1> HIDE DEF f
  <1>4. Readable(f, On(p), Incoming(p), keys[p].recv_seq)
    <2> DEFINE P == \E j \in DOMAIN inbox[p] : j < 1 /\ IsNewKeys(inbox[p][j])
    <2>1. ~P
      BY <1>3
    <2>2. Readable(f, On(p) \/ P, Incoming(p), keys[p].recv_seq)
      BY <1>2, <1>3 DEF Numbered, Chain
    <2> HIDE DEF P
    <2> QED
      BY <2>1, <2>2 DEF Readable
  <1>5. CASE On(p)
    <2>1. /\ keys[p].dec = Incoming(p).cipher /\ keys[p].recv_mac_key = Incoming(p).mac
      BY <1>1, <1>5, AgreedKeys, Parties, Places
         DEF On, IInv, TypeInv, TypeOK, Keyed, Past, ServerKeyed
    <2> QED
      BY <1>4, <1>5, <2>1, AgreedTyped DEF f, Accepts, Readable, verify_hmac, compute_hmac
  <1>6. CASE ~On(p)
    <2>1. Plain(keys[p])
      BY <1>1, <1>6, Parties DEF On, IInv, KeyInv
    <2> QED
      BY <1>4, <1>6, <2>1 DEF f, Accepts, Readable, verify_hmac, compute_hmac, Plain
  <1> QED
    BY <1>5, <1>6

-----------------------------------------------------------------------------
(* Steps in which nothing new is written. *)

LEMMA ReadyFacts ==
    ASSUME IInv
    PROVE  /\ pc \in [Peer -> ServerAt \cup ClientAt] /\ pc[S] \in ServerAt /\ pc[C] \in ClientAt
           /\ out \in [Peer -> Seq(Packet)] /\ inbox \in [Peer -> Seq(Frames)]
           /\ keys \in [Peer -> SessionKeys] /\ kex \in [Peer -> KexView]
           /\ \A p \in Peer : /\ out[p] \in Seq(Packet) /\ inbox[p] \in Seq(Frames)
                              /\ keys[p] \in SessionKeys
  BY DEF IInv, TypeInv, TypeOK, TransportTypeOK

LEMMA FrontElems ==
    ASSUME NEW X, NEW t \in Seq(X), NEW s, IsFront(s, t)
    PROVE  Elems(s) \subseteq Elems(t) /\ (t = <<>> => s = <<>>)
  BY FrontFacts DEF Elems

\* A program returns, or the connection breaks, or nothing happens to it.
Cuts ==
    /\ kex' = kex /\ reset' \in BOOLEAN /\ (reset => reset')
    /\ \A q \in Peer :
          /\ \/ pc'[q] = pc[q] /\ out'[q] = out[q] /\ keys'[q] = keys[q]
             \/ pc'[q] = "done" /\ out'[q] = <<>> /\ inbox'[q] = <<>>
          /\ IsFront(inbox'[q], inbox[q])
          /\ ~reset' => inbox'[q] = inbox[q] \/ pc'[q] = "done"

LEMMA CutsSteps ==
    ASSUME IInv, Cuts, Steps
    PROVE  Steps'
  <1>1. /\ \A q \in Peer : /\ Elems(inbox'[q]) \subseteq Elems(inbox[q])
                           /\ inbox[q] = <<>> => inbox'[q] = <<>>
                           /\ DOMAIN inbox'[q] \subseteq DOMAIN inbox[q]
                           /\ Len(inbox'[q]) \in 0 .. Len(inbox[q])
                           /\ Len(inbox[q]) \in Nat /\ DOMAIN inbox'[q] = 1 .. Len(inbox'[q])
                           /\ \A i \in DOMAIN inbox'[q] : inbox'[q][i] = inbox[q][i]
    BY ReadyFacts, FrontFacts, FrontElems DEF Cuts
  <1>2. /\ \A q \in Peer : /\ pc'[q] = pc[q] \/ pc'[q] = "done"
                           /\ out'[q] = out[q] \/ (out'[q] = <<>> /\ pc'[q] = "done")
                           /\ pc'[q] = pc[q] \/ inbox'[q] = <<>>
        /\ kex' = kex
    BY DEF Cuts
  <1>3. \A q \in Peer : Elems(out'[q]) \subseteq Elems(out[q])
    BY <1>2, NothingElse
  <1>4. Contributed'
    BY <1>1, <1>3, Peers DEF Steps, Contributed, Genuine
  <1>5. Told'
    BY <1>2, Parties DEF Steps, Told
  <1>6. ServerWaits'
    <2>1. \A q \in Peer : pc'[q] = "done" => out'[q] = <<>>
      BY DEF Cuts, Steps, ServerWaits
    <2>2. pc'[S] = "service" => out'[S] = <<>>
      BY <1>2, Parties DEF Steps, ServerWaits
    <2>3. pc'[C] \in Past /\ pc'[S] = "newkeys" => out'[S] = <<>>
      BY <1>2, Parties DEF Steps, ServerWaits, Past
    <2>4. pc'[C] = "activate" => inbox'[C] = <<>>
      BY <1>1, <1>2, Parties DEF Steps, ServerWaits
    <2>5. ASSUME pc'[C] \notin Past \cup {"done"}
          PROVE  /\ \A i \in DOMAIN inbox'[C] : inbox'[C][i].msg.type = "NewKeys" =>
                       i = Len(inbox'[C]) /\ out'[S] = <<>>
                 /\ \A i \in DOMAIN out'[S] : out'[S][i].type = "NewKeys" => i = Len(out'[S])
      <3>1. pc[C] \notin Past \cup {"done"}
        BY <1>2, <2>5, Parties
      <3>2. ASSUME NEW i \in DOMAIN inbox'[C], inbox'[C][i].msg.type = "NewKeys"
            PROVE  i = Len(inbox'[C]) /\ out'[S] = <<>>
        <4>1. i \in DOMAIN inbox[C] /\ inbox[C][i].msg.type = "NewKeys"
          BY <1>1, <3>2, Parties
        <4>2. i = Len(inbox[C]) /\ out[S] = <<>>
          BY <3>1, <4>1 DEF Steps, ServerWaits
        <4>3. i \in 1 .. Len(inbox'[C]) /\ Len(inbox'[C]) \in 0 .. Len(inbox[C])
              /\ Len(inbox[C]) \in Nat
          BY <1>1, <3>2, Parties
        <4>4. out'[S] = <<>>
          BY <1>2, <4>2, Parties
        <4> QED
          BY <4>2, <4>3, <4>4
      <3>3. \A i \in DOMAIN out'[S] : out'[S][i].type = "NewKeys" => i = Len(out'[S])
        <4>1. CASE out'[S] = out[S]
          BY <3>1, <4>1 DEF Steps, ServerWaits
        <4>2. CASE out'[S] = <<>>
          <5>1. DOMAIN out'[S] = {}
            BY <4>2
          <5> QED
            BY <5>1
        <4> QED
          BY <1>2, <4>1, <4>2, Parties
      <3> QED
        BY <3>2, <3>3
    <2> QED
      BY <2>1, <2>2, <2>3, <2>4, <2>5 DEF ServerWaits
  <1>7. ClientSwitches'
    <2>1. Announced' => Announced
      BY <1>1, <1>2, Parties DEF Announced, ServerKeyed
    <2>2. ~reset' /\ pc'[S] # "done" => ~reset /\ pc[S] # "done" /\ (Announced => Announced')
      BY <1>2, Parties DEF Cuts, Announced
    <2>3. pc'[C] # "done" => pc'[C] = pc[C] /\ out'[C] = out[C]
      BY <1>2, Parties
    <2> HIDE DEF Announced
    <2> QED
      BY <2>1, <2>2, <2>3 DEF Steps, ClientSwitches, Keyed, Past
  <1>8. ASSUME NEW p \in Peer PROVE OneVersion(p)'
    <2>1. OneVersion(p) /\ Other(p) \in Peer
      BY Peers DEF Steps
    <2>2. ASSUME NEW i \in DOMAIN inbox'[p], inbox'[p][i].msg.type = "Version"
          PROVE  i = 1 /\ pc'[p] = "version"
      <3>1. i = 1 /\ pc[p] = "version"
        BY <1>1, <2>1, <2>2 DEF OneVersion
      <3>2. inbox'[p] # <<>>
        BY <2>2
      <3> QED
        BY <1>2, <3>1, <3>2
    <2>3. ASSUME NEW m \in Elems(out'[Other(p)]), m.type = "Version"
          PROVE  inbox'[p] = <<>> /\ pc'[p] \in {"version", "done"} /\ out'[Other(p)] = <<m>>
      <3>1. out'[Other(p)] = out[Other(p)]
        BY <1>2, <2>1, <2>3, NothingElse
      <3> QED
        BY <1>1, <1>2, <2>1, <2>3, <3>1 DEF OneVersion
    <2> QED
      BY <2>2, <2>3 DEF OneVersion
  <1> QED
    BY <1>4, <1>5, <1>6, <1>7, <1>8 DEF Steps

LEMMA CutsSync ==
    ASSUME IInv, Cuts, noise' = noise, SyncInv
    PROVE  SyncInv'
  <1> SUFFICES ASSUME noise = 0 PROVE Steps' /\ \A p \in Peer : Numbers(p)'
    BY DEF SyncInv
  <1>1. Steps /\ \A p \in Peer : Numbers(p)
    BY DEF SyncInv
  <1>2. ASSUME NEW p \in Peer PROVE Numbers(p)'
    <2>1. /\ inbox[p] \in Seq(Frames) /\ Numbers(p) /\ IsFront(inbox'[p], inbox[p])
          /\ Other(p) \in Peer
      BY <1>1, ReadyFacts, Peers DEF Cuts
    <2>2. ASSUME pc'[p] # "done"
          PROVE  /\ pc[p] # "done" /\ keys'[p].recv_seq = keys[p].recv_seq
                 /\ On(p)' = On(p)
                 /\ ~reset' /\ pc'[Other(p)] # "done" =>
                       /\ ~reset /\ pc[Other(p)] # "done" /\ inbox'[p] = inbox[p]
                       /\ keys'[Other(p)].send_seq = keys[Other(p)].send_seq
      BY <2>1, <2>2 DEF Cuts, On
    <2> QED
      BY <2>1, <2>2, NumbersFront
  <1> QED
    BY <1>1, <1>2, CutsSteps

\* The steps that only cut.
LEMMA ReturnCuts ==
    ASSUME IInv, NEW p \in Peer, NEW result, NEW unread, Return(p, result, unread),
           UNCHANGED kex, keys' = keys \/ keys' = [keys EXCEPT ![p] = Counted(p)]
    PROVE  Cuts /\ noise' = noise
  <1>1. PICK i \in 0 .. Len(inbox[Other(p)]) :
           /\ unread = <<>> => i = Len(inbox[Other(p)])
           /\ inbox' = [q \in Peer |-> IF q = p THEN <<>> ELSE SubSeq(inbox[q], 1, i)]
    BY DEF Return
  <1>2. /\ pc' = [pc EXCEPT ![p] = "done"] /\ out' = [out EXCEPT ![p] = <<>>]
        /\ reset' = (reset \/ unread # <<>>) /\ noise' = noise
        /\ reset \in BOOLEAN /\ Other(p) \in Peer /\ Other(p) # p
    BY Peers DEF Return, IInv, TypeInv, TypeOK, TransportTypeOK
  <1>3. /\ pc'[p] = "done" /\ out'[p] = <<>> /\ inbox'[p] = <<>>
        /\ pc'[Other(p)] = pc[Other(p)] /\ out'[Other(p)] = out[Other(p)]
        /\ keys'[Other(p)] = keys[Other(p)]
        /\ inbox'[Other(p)] = SubSeq(inbox[Other(p)], 1, i)
    BY <1>1, <1>2, ReadyFacts
  <1>4. /\ IsFront(inbox'[p], inbox[p]) /\ IsFront(inbox'[Other(p)], inbox[Other(p)])
        /\ ~reset' => inbox'[Other(p)] = inbox[Other(p)]
    <2>1. inbox[p] \in Seq(Frames) /\ inbox[Other(p)] \in Seq(Frames)
      BY <1>2, ReadyFacts
    <2>2. IsFront(<<>>, inbox[p])
      BY <2>1, FrontSelf
    <2>3. SubSeq(inbox[Other(p)], 1, Len(inbox[Other(p)])) = inbox[Other(p)]
      BY <2>1
    <2> QED
      BY <1>1, <1>2, <1>3, <2>2, <2>3 DEF IsFront
  <1>5. \A q \in Peer : q = p \/ q = Other(p)
    BY Peers
  <1> QED
    BY <1>2, <1>3, <1>4, <1>5 DEF Cuts

LEMMA BreakCuts ==
    ASSUME IInv, Break
    PROVE  Cuts /\ noise' = noise
  <1>1. PICK i \in 0 .. Len(inbox["client"]), j \in 0 .. Len(inbox["server"]) :
          inbox' = [p \in Peer |-> SubSeq(inbox[p], 1, IF p = "client" THEN i ELSE j)]
    BY DEF Break
  <1>2. \A q \in Peer : IsFront(inbox'[q], inbox[q])
    BY <1>1 DEF IsFront, Peer
  <1> QED
    BY <1>2 DEF Break, Cuts

LEMMA SteadyCuts ==
    ASSUME IInv, UNCHANGED transport
    PROVE  Cuts /\ noise' = noise
  <1>1. \A q \in Peer : IsFront(inbox[q], inbox[q])
    BY ReadyFacts, FrontSelf
  <1> QED
    BY <1>1 DEF transport, Cuts, IInv, TypeInv, TypeOK, TransportTypeOK

-----------------------------------------------------------------------------
(* A packet is written. *)

Wrote(p, m, f) ==
    /\ pc' = pc /\ kex' = kex /\ noise' = noise
    /\ out[p] # <<>> /\ m = Head(out[p]) /\ f = Frame(keys[p], m)
    /\ m \in Packet /\ f \in Frames /\ f.msg = m
    /\ out'[p] = Tail(out[p]) /\ out'[Other(p)] = out[Other(p)]
    /\ inbox'[p] = inbox[p]
    /\ keys'[Other(p)] = keys[Other(p)] /\ keys'[p].recv_seq = keys[p].recv_seq
    /\ keys'[p].send_seq = IF m.type = "Version" THEN keys[p].send_seq
                           ELSE (keys[p].send_seq + 1) % SeqMod
    /\ \/ (reset \/ pc[Other(p)] = "done") /\ reset' /\ inbox'[Other(p)] = inbox[Other(p)]
       \/ /\ ~reset /\ pc[Other(p)] # "done" /\ ~reset'
          /\ inbox'[Other(p)] = Append(inbox[Other(p)], f)

LEMMA SendWrote ==
    ASSUME IInv, NEW p \in Peer, Send(p)
    PROVE  Wrote(p, Head(out[p]), Frame(keys[p], Head(out[p])))
  <1> DEFINE m == Head(out[p])
             f == Frame(keys[p], m)
             q == Other(p)
  <1>1. /\ out[p] # <<>> /\ pc' = pc /\ kex' = kex /\ noise' = noise
        /\ reset' = (reset \/ pc[q] = "done") /\ reset \in BOOLEAN
        /\ out' = [out EXCEPT ![p] = Tail(out[p])]
        /\ inbox' = IF reset \/ pc[q] = "done" THEN inbox
                    ELSE [inbox EXCEPT ![q] = Append(inbox[q], f)]
        /\ keys' = IF m.type = "Version" THEN keys
                   ELSE [keys EXCEPT ![p] = NextSendSeq(keys[p])]
    BY DEF Send, IInv, TypeInv, TypeOK, TransportTypeOK
  <1>2. m \in Packet /\ f \in Frames /\ f.msg = m
    BY <1>1, ReadyFacts, ElemsTail, FrameTyped
  <1>3. /\ q \in Peer /\ q # p
    BY Peers
  <1> HIDE DEF m, f, q
  <1>4. out'[p] = Tail(out[p]) /\ out'[q] = out[q]
    BY <1>1, <1>3, ReadyFacts
  <1>5. inbox'[p] = inbox[p]
    BY <1>1, <1>3, ReadyFacts
  <1>6. \/ (reset \/ pc[q] = "done") /\ reset' /\ inbox'[q] = inbox[q]
        \/ ~reset /\ pc[q] # "done" /\ ~reset' /\ inbox'[q] = Append(inbox[q], f)
    BY <1>1, <1>3, ReadyFacts
  <1>7. /\ keys'[q] = keys[q] /\ keys'[p].recv_seq = keys[p].recv_seq
        /\ keys'[p].send_seq = IF m.type = "Version" THEN keys[p].send_seq
                               ELSE (keys[p].send_seq + 1) % SeqMod
    <2>1. keys[p] \in SessionKeys
      BY ReadyFacts
    <2>2. /\ NextSendSeq(keys[p]).recv_seq = keys[p].recv_seq
          /\ NextSendSeq(keys[p]).send_seq = (keys[p].send_seq + 1) % SeqMod
      BY <2>1 DEF NextSendSeq, SessionKeys
    <2> QED
      BY <1>1, <1>3, <2>2, ReadyFacts
  <1> QED
    BY <1>1, <1>2, <1>4, <1>5, <1>6, <1>7 DEF Wrote, m, f, q

\* A side that writes has its keys on exactly if the other reads with them on
\* when it gets to the packet.
LEMMA Switched ==
    ASSUME IInv, Steps, NEW p \in Peer, out[p] # <<>>, ~reset, pc[Other(p)] # "done"
    PROVE  LET behind == \/ On(Other(p))
                         \/ \E f \in Elems(inbox[Other(p)]) : IsNewKeys(f)
               in == Incoming(Other(p))
           IN  /\ pc[p] # "done"
               /\ behind => keys[p].enc = in.cipher /\ keys[p].send_mac_key = in.mac
               /\ ~behind => keys[p].enc = NoKey /\ keys[p].send_mac_key = NoKey
  <1>1. pc[p] # "done"
    BY DEF Steps, ServerWaits
  <1>2. CASE p = C
    <2>1. Other(p) = S /\ pc[S] # "done"
      BY <1>2, Parties
    <2>2. (\/ On(S) \/ \E f \in Elems(inbox[S]) : IsNewKeys(f)) <=> Announced
      BY Parties, Places, ReadyFacts DEF On, Announced, Keyed, Past, ServerKeyed, IsNewKeys
    <2>3. pc[C] \in Keyed => Announced
      BY <2>1 DEF Steps, ClientSwitches
    <2>4. Announced => pc[C] \in Past
      BY <1>1, <1>2, Parties DEF Announced, IInv, InStep, OnWay
    <2>5. pc[C] = "activate" => ~Announced
      BY <1>2 DEF Steps, ClientSwitches
    <2>6. Announced <=> pc[C] \in Keyed
      BY <2>3, <2>4, <2>5 DEF Keyed
    <2>7. pc[C] \notin Keyed => Plain(keys[C])
      BY <1>1, <1>2 DEF IInv, KeyInv
    <2> HIDE DEF Announced
    <2> QED
      BY <1>1, <1>2, <2>1, <2>2, <2>6, <2>7, AgreedKeys DEF Steps, Plain
  <1>3. CASE p = S
    <2>1. Other(p) = C /\ pc[C] # "done" /\ Other(S) = C /\ Other(C) = S
      BY <1>3, Parties
    <2>2. CASE pc[S] \in ServerKeyed
      <3>1. pc[S] \in {"auth", "loop"}
        BY <1>3, <2>2 DEF Steps, ServerWaits, ServerKeyed
      <3>2. keys[C].dec # NoKey
        <4>1. keys[C].dec = keys[S].enc
          BY <3>1 DEF IInv, KeyInv, AgreeBeforeService
        <4> QED
          BY <2>2, <4>1, AgreedKeys, AgreedTyped, Parties DEF Steps
      <3>3. pc[C] \in Keyed
        BY <2>1, <3>2 DEF IInv, KeyInv, Plain
      <3> QED
        BY <1>1, <1>3, <2>1, <2>2, <3>3, AgreedKeys DEF Steps, On
    <2>3. CASE pc[S] \notin ServerKeyed
      <3>1. pc[C] \notin Keyed /\ pc[C] # "activate"
        <4>1. pc[C] \in Past => pc[S] = "newkeys"
          BY <1>1, <1>3, <2>3 DEF IInv, InStep
        <4>2. pc[C] \notin Past
          BY <1>3, <4>1 DEF Steps, ServerWaits
        <4> QED
          BY <4>2 DEF Keyed, Past
      <3>2. ~On(C)
        BY <3>1, Places, ReadyFacts DEF On, ServerKeyed
      <3>3. \A f \in Elems(inbox[C]) : ~IsNewKeys(f)
        <4>1. pc[C] \notin Past \cup {"done"}
          BY <2>1, <3>1 DEF Keyed
        <4>2. \A i \in DOMAIN inbox[C] : inbox[C][i].msg.type # "NewKeys"
          BY <1>3, <4>1 DEF Steps, ServerWaits
        <4> QED
          BY <4>2 DEF Elems, IsNewKeys
      <3>4. Plain(keys[S])
        BY <1>1, <1>3, <2>3 DEF IInv, KeyInv
      <3> QED
        BY <1>1, <1>3, <2>1, <3>2, <3>3, <3>4 DEF Plain
    <2> QED
      BY <2>2, <2>3
  <1> QED
    BY <1>2, <1>3, Parties

LEMMA SentNumbers ==
    ASSUME IInv, Steps, \A r \in Peer : Numbers(r), NEW p \in Peer, NEW m, NEW f, Wrote(p, m, f)
    PROVE  \A r \in Peer : Numbers(r)'
  <1> DEFINE q == Other(p)
  <1>1. /\ q \in Peer /\ Other(q) = p /\ \A r \in Peer : r = p \/ r = q
        /\ inbox[p] \in Seq(Frames) /\ inbox[q] \in Seq(Frames)
    BY Peers, ReadyFacts
  <1>2. Numbers(p)'
    <2>1. IsFront(inbox'[p], inbox[p])
      BY <1>1, FrontSelf DEF Wrote
    <2>2. /\ On(p)' = On(p) /\ keys'[p].recv_seq = keys[p].recv_seq /\ pc' = pc
          /\ inbox'[p] = inbox[p] /\ keys'[q] = keys[q] /\ (~reset' => ~reset)
      BY DEF Wrote, On
    <2> QED
      BY <1>1, <2>1, <2>2, NumbersFront
  <1>3. Numbers(q)'
    <2>1. CASE reset' /\ inbox'[q] = inbox[q]
      <3>1. IsFront(inbox'[q], inbox[q]) /\ On(q)' = On(q) /\ pc' = pc /\ keys'[q] = keys[q]
        BY <1>1, <2>1, FrontSelf DEF Wrote, On
      <3> QED
        BY <1>1, <2>1, <3>1, NumbersFront
    <2>2. CASE ~reset /\ pc[q] # "done" /\ inbox'[q] = Append(inbox[q], f)
      <3> DEFINE behind == On(q) \/ \E g \in Elems(inbox[q]) : IsNewKeys(g)
                 P == \E j \in DOMAIN inbox[q] : IsNewKeys(inbox[q][j])
      <3>1. /\ pc[p] # "done" /\ behind \in BOOLEAN
            /\ behind => keys[p].enc = Incoming(q).cipher
                         /\ keys[p].send_mac_key = Incoming(q).mac
            /\ ~behind => keys[p].enc = NoKey /\ keys[p].send_mac_key = NoKey
        BY <2>2, Switched DEF Wrote, On
      <3>2. behind <=> (On(q) \/ P)
        BY DEF Elems
      <3>3. /\ f.cipher = keys[p].enc
            /\ f.mac = compute_hmac(keys[p].send_mac_key, keys[p].send_seq)
        BY DEF Wrote, Frame
      <3>4. Incoming(q).mac # NoKey
        BY <1>1, AgreedTyped
      <3> HIDE DEF behind, P, q
      <3>5. Readable(f, On(q) \/ P, Incoming(q), keys[p].send_seq)
        BY <3>1, <3>2, <3>3, <3>4 DEF Readable, compute_hmac
      <3>6. /\ f \in Frames /\ pc'[q] = pc[q] /\ keys'[q].recv_seq = keys[q].recv_seq
            /\ keys'[p].send_seq = IF f.msg.type = "Version" THEN keys[p].send_seq
                                   ELSE (keys[p].send_seq + 1) % SeqMod
        BY DEF Wrote, q
      <3>7. Numbers(q)
        BY <1>1
      <3> QED
        BY <1>1, <2>2, <3>1, <3>5, <3>6, <3>7, NumbersAdd DEF P
    <2> QED
      BY <2>1, <2>2 DEF Wrote
  <1> QED
    BY <1>1, <1>2, <1>3

LEMMA AppendFacts ==
    ASSUME NEW X, NEW s \in Seq(X), NEW x \in X
    PROVE  /\ Len(s) \in Nat /\ DOMAIN s = 1 .. Len(s)
           /\ Len(Append(s, x)) = Len(s) + 1 /\ DOMAIN Append(s, x) = 1 .. Len(s) + 1
           /\ \A i \in DOMAIN s : Append(s, x)[i] = s[i]
           /\ Append(s, x)[Len(s) + 1] = x
           /\ Elems(Append(s, x)) = Elems(s) \cup {x}
  <1>1. /\ Len(s) \in Nat /\ DOMAIN s = 1 .. Len(s)
        /\ Len(Append(s, x)) = Len(s) + 1 /\ DOMAIN Append(s, x) = 1 .. Len(s) + 1
        /\ \A i \in DOMAIN s : Append(s, x)[i] = s[i]
        /\ Append(s, x)[Len(s) + 1] = x
    OBVIOUS
  <1>2. \A i \in DOMAIN Append(s, x) : i \in DOMAIN s \/ i = Len(s) + 1
    BY <1>1
  <1>3. DOMAIN s \subseteq DOMAIN Append(s, x) /\ Len(s) + 1 \in DOMAIN Append(s, x)
    BY <1>1
  <1>4. Elems(Append(s, x)) = Elems(s) \cup {x}
    BY <1>1, <1>2, <1>3, Zenon DEF Elems
  <1> QED
    BY <1>1, <1>4

LEMMA TailSteps ==
    ASSUME NEW X, NEW s \in Seq(X), s # <<>>
    PROVE  /\ Len(s) \in Nat \ {0} /\ DOMAIN s = 1 .. Len(s) /\ Head(s) = s[1]
           /\ Len(Tail(s)) = Len(s) - 1 /\ DOMAIN Tail(s) = 1 .. Len(s) - 1
           /\ \A i \in DOMAIN Tail(s) : i + 1 \in DOMAIN s /\ Tail(s)[i] = s[i + 1]
           /\ Elems(s) = {Head(s)} \cup Elems(Tail(s))
           /\ Len(s) = 1 => Tail(s) = <<>>
  <1>1. /\ Len(s) \in Nat \ {0} /\ DOMAIN s = 1 .. Len(s) /\ Head(s) = s[1]
        /\ Len(Tail(s)) = Len(s) - 1 /\ DOMAIN Tail(s) = 1 .. Len(s) - 1
        /\ \A i \in DOMAIN Tail(s) : i + 1 \in DOMAIN s /\ Tail(s)[i] = s[i + 1]
        /\ Len(s) = 1 => Tail(s) = <<>>
    OBVIOUS
  <1>2. \A i \in DOMAIN s : i = 1 \/ (i - 1 \in DOMAIN Tail(s) /\ s[i] = Tail(s)[i - 1])
    BY <1>1
  <1>3. 1 \in DOMAIN s
    BY <1>1
  <1>4. \A x \in Elems(s) : x = Head(s) \/ x \in Elems(Tail(s))
    BY <1>1, <1>2, Zenon DEF Elems
  <1>5. Head(s) \in Elems(s) /\ \A x \in Elems(Tail(s)) : x \in Elems(s)
    BY <1>1, <1>3, Zenon DEF Elems
  <1> QED
    BY <1>1, <1>4, <1>5

LEMMA SentSteps ==
    ASSUME IInv, Steps, NEW p \in Peer, NEW m, NEW f, Wrote(p, m, f)
    PROVE  Steps'
  <1> DEFINE q == Other(p)
  <1>1. /\ q \in Peer /\ Other(q) = p /\ q # p /\ \A r \in Peer : r = p \/ r = q
        /\ inbox[p] \in Seq(Frames) /\ inbox[q] \in Seq(Frames) /\ out[p] \in Seq(Packet)
        /\ f \in Frames /\ f.msg = m /\ m = Head(out[p]) /\ out[p] # <<>>
        /\ pc' = pc /\ kex' = kex /\ out'[q] = out[q] /\ inbox'[p] = inbox[p]
        /\ out'[p] = Tail(out[p])
    BY Peers, ReadyFacts DEF Wrote
  <1>2. \/ reset' /\ inbox'[q] = inbox[q]
        \/ ~reset /\ pc[q] # "done" /\ ~reset' /\ inbox'[q] = Append(inbox[q], f)
    BY DEF Wrote
  <1>3. /\ m \in Elems(out[p]) /\ Elems(out'[p]) \subseteq Elems(out[p])
        /\ Elems(inbox[q]) \subseteq Elems(inbox'[q])
        /\ Elems(inbox'[q]) \subseteq Elems(inbox[q]) \cup {f}
    <2>1. Elems(Append(inbox[q], f)) = Elems(inbox[q]) \cup {f}
      BY <1>1, AppendFacts
    <2>2. Elems(out[p]) = {m} \cup Elems(Tail(out[p]))
      BY <1>1, TailSteps
    <2> QED
      BY <1>1, <1>2, <2>1, <2>2
  <1> HIDE DEF q
  <1>4. Contributed'
    <2>1. /\ \A x \in Elems(out[p]) : Genuine(p, x)
          /\ \A g \in Elems(inbox[q]) : Genuine(p, g.msg)
          /\ \A x \in Elems(out[q]) : Genuine(q, x)
          /\ \A g \in Elems(inbox[p]) : Genuine(q, g.msg)
      BY <1>1 DEF Steps, Contributed, q
    <2>2. /\ \A x \in Elems(out'[p]) : Genuine(p, x)
          /\ \A g \in Elems(inbox'[q]) : Genuine(p, g.msg)
          /\ \A x \in Elems(out'[q]) : Genuine(q, x)
          /\ \A g \in Elems(inbox'[p]) : Genuine(q, g.msg)
      BY <1>1, <1>3, <2>1
    <2>3. ASSUME NEW r \in Peer
          PROVE  /\ \A x \in Elems(out'[r]) : Genuine(r, x)
                 /\ \A g \in Elems(inbox'[Other(r)]) : Genuine(r, g.msg)
      BY <1>1, <2>2 DEF q
    <2> QED
      BY <2>3 DEF Contributed, Genuine
  <1>5. Told'
    BY <1>1 DEF Steps, Told
  <1>6. pc[p] # "done"
    BY <1>1 DEF Steps, ServerWaits
  <1>7. ServerWaits'
    <2>1. \A r \in Peer : pc'[r] = "done" => out'[r] = <<>>
      BY <1>1, <1>6 DEF Steps, ServerWaits
    <2>2. CASE p = C
      <3>1. out'[S] = out[S] /\ inbox'[C] = inbox[C] /\ pc' = pc
        BY <1>1, <2>2, Parties DEF q
      <3> QED
        BY <2>1, <3>1 DEF Steps, ServerWaits
    <2>3. CASE p = S
      <3>1. /\ q = C /\ out[S] # <<>> /\ pc' = pc /\ out'[S] = Tail(out[S])
            /\ out[S] \in Seq(Packet) /\ inbox[C] \in Seq(Frames) /\ m = Head(out[S])
            /\ Other(S) = C
        BY <1>1, <2>3, Parties DEF q
      <3>2. pc[S] # "service" /\ ~(pc[C] \in Past /\ pc[S] = "newkeys")
        BY <3>1 DEF Steps, ServerWaits
      <3>3. pc[C] # "activate"
        <4>1. ASSUME pc[C] = "activate" PROVE FALSE
          <5>1. pc[S] \in ServerKeyed
            BY <1>6, <2>3, <3>2, <4>1 DEF IInv, InStep, Past
          <5>2. keys[C].dec = keys[S].enc
            BY <3>2, <5>1 DEF ServerKeyed, IInv, KeyInv, AgreeBeforeService
          <5>3. keys[C].dec # NoKey
            BY <5>1, <5>2, AgreedKeys, AgreedTyped, Parties DEF Steps
          <5> QED
            BY <4>1, <5>3 DEF IInv, KeyInv, Plain, Keyed, Past
        <4> QED
          BY <4>1
      <3>4. ASSUME pc[C] \notin Past \cup {"done"}
            PROVE  /\ \A i \in DOMAIN inbox'[C] : inbox'[C][i].msg.type = "NewKeys" =>
                         i = Len(inbox'[C]) /\ out'[S] = <<>>
                   /\ \A i \in DOMAIN out'[S] : out'[S][i].type = "NewKeys" => i = Len(out'[S])
        <4>1. /\ \A i \in DOMAIN inbox[C] : inbox[C][i].msg.type # "NewKeys"
              /\ \A i \in DOMAIN out[S] : out[S][i].type = "NewKeys" => i = Len(out[S])
          BY <3>1, <3>4 DEF Steps, ServerWaits
        <4>2. /\ Len(out[S]) \in Nat \ {0} /\ DOMAIN out[S] = 1 .. Len(out[S]) /\ m = out[S][1]
              /\ Len(Tail(out[S])) = Len(out[S]) - 1
              /\ DOMAIN Tail(out[S]) = 1 .. Len(out[S]) - 1
              /\ \A i \in DOMAIN Tail(out[S]) :
                    i + 1 \in DOMAIN out[S] /\ Tail(out[S])[i] = out[S][i + 1]
              /\ Len(out[S]) = 1 => Tail(out[S]) = <<>>
          BY <3>1, TailSteps
        <4>3. m.type = "NewKeys" => Tail(out[S]) = <<>>
          BY <4>1, <4>2
        <4>4. ASSUME NEW i \in DOMAIN Tail(out[S]), Tail(out[S])[i].type = "NewKeys"
              PROVE  i = Len(Tail(out[S]))
          BY <4>1, <4>2, <4>4
        <4>5. ASSUME NEW i \in DOMAIN inbox'[C], inbox'[C][i].msg.type = "NewKeys"
              PROVE  i = Len(inbox'[C]) /\ m.type = "NewKeys"
          <5>1. inbox'[C] = Append(inbox[C], f)
            BY <1>2, <3>1, <4>1, <4>5
          <5>2. /\ DOMAIN inbox[C] = 1 .. Len(inbox[C]) /\ Len(inbox[C]) \in Nat
                /\ Len(Append(inbox[C], f)) = Len(inbox[C]) + 1
                /\ DOMAIN Append(inbox[C], f) = 1 .. Len(inbox[C]) + 1
                /\ \A k \in DOMAIN inbox[C] : Append(inbox[C], f)[k] = inbox[C][k]
                /\ Append(inbox[C], f)[Len(inbox[C]) + 1] = f
            BY <1>1, <3>1, AppendFacts
          <5>3. i \notin DOMAIN inbox[C]
            BY <4>1, <4>5, <5>1, <5>2
          <5>4. i = Len(inbox[C]) + 1
            BY <4>5, <5>1, <5>2, <5>3
          <5> QED
            BY <1>1, <4>5, <5>1, <5>2, <5>4
        <4> QED
          BY <3>1, <4>3, <4>4, <4>5
      <3> QED
        BY <2>1, <3>1, <3>2, <3>3, <3>4 DEF ServerWaits
    <2> QED
      BY <2>2, <2>3, Parties
  <1>8. ClientSwitches'
    <2>1. Announced => Announced'
      BY <1>1, <1>3, Parties DEF Announced
    <2>2. CASE p = S
      <3>1. /\ out'[C] = out[C] /\ inbox'[S] = inbox[S] /\ pc' = pc /\ (reset => reset')
        BY <1>1, <1>2, <2>2, Parties DEF q
      <3>2. Announced' <=> Announced
        BY <3>1 DEF Announced
      <3> HIDE DEF Announced
      <3> QED
        BY <3>1, <3>2 DEF Steps, ClientSwitches
    <2>3. CASE p = C
      <3>1. /\ q = S /\ out'[C] = Tail(out[C]) /\ m = Head(out[C]) /\ out[C] # <<>> /\ pc' = pc
            /\ out[C] \in Seq(Packet) /\ inbox[S] \in Seq(Frames) /\ (reset => reset')
        BY <1>1, <1>2, <2>3, Parties DEF q
      <3>2. pc[C] = "activate" => out'[C] = <<>> /\ m.type = "NewKeys"
        <4>1. Len(out[C]) = 1 => Tail(out[C]) = <<>>
          BY <3>1, TailSteps
        <4> QED
          BY <3>1, <4>1 DEF Steps, ClientSwitches
      <3>3. m.type = "NewKeys" => reset' \/ Announced'
        <4>1. Elems(Append(inbox[S], f)) = Elems(inbox[S]) \cup {f}
          BY <1>1, <3>1, AppendFacts
        <4> QED
          BY <1>1, <1>2, <3>1, <4>1 DEF Announced
      <3> HIDE DEF Announced
      <3> QED
        BY <2>1, <3>1, <3>2, <3>3 DEF Steps, ClientSwitches
    <2> QED
      BY <2>2, <2>3, Parties
  <1>9. OneVersion(p)'
    <2>1. OneVersion(p)
      BY DEF Steps
    <2> QED
      BY <1>1, <2>1 DEF OneVersion, q
  <1>10. OneVersion(q)'
    <2>1. /\ \A i \in DOMAIN inbox[q] : inbox[q][i].msg.type = "Version" =>
                i = 1 /\ pc[q] = "version"
          /\ \A x \in Elems(out[p]) : x.type = "Version" =>
                inbox[q] = <<>> /\ pc[q] \in {"version", "done"} /\ out[p] = <<x>>
      BY <1>1 DEF Steps, OneVersion
    <2>2. \A x \in Elems(out'[p]) : x.type # "Version"
      <3>1. ASSUME NEW x \in Elems(out'[p]), x.type = "Version" PROVE FALSE
        <4>1. out[p] = <<x>>
          BY <1>3, <2>1, <3>1
        <4>2. out'[p] = <<>>
          BY <1>1, <4>1
        <4> QED
          BY <3>1, <4>2, NothingElse
      <3> QED
        BY <3>1
    <2>3. ASSUME NEW i \in DOMAIN inbox'[q], inbox'[q][i].msg.type = "Version"
          PROVE  i = 1 /\ pc'[q] = "version"
      <3>1. CASE inbox'[q] = inbox[q]
        BY <1>1, <2>1, <2>3, <3>1
      <3>2. CASE pc[q] # "done" /\ inbox'[q] = Append(inbox[q], f)
        <4>1. /\ DOMAIN inbox[q] = 1 .. Len(inbox[q]) /\ Len(inbox[q]) \in Nat
              /\ DOMAIN Append(inbox[q], f) = 1 .. Len(inbox[q]) + 1
              /\ \A k \in DOMAIN inbox[q] : Append(inbox[q], f)[k] = inbox[q][k]
              /\ Append(inbox[q], f)[Len(inbox[q]) + 1] = f
          BY <1>1, AppendFacts
        <4>2. CASE i \in DOMAIN inbox[q]
          BY <1>1, <2>1, <2>3, <3>2, <4>1, <4>2
        <4>3. CASE i \notin DOMAIN inbox[q]
          <5>1. i = Len(inbox[q]) + 1 /\ inbox'[q][i] = f
            BY <2>3, <3>2, <4>1, <4>3
          <5>2. inbox[q] = <<>> /\ pc[q] \in {"version", "done"}
            BY <1>1, <1>3, <2>1, <2>3, <5>1
          <5> QED
            BY <1>1, <3>2, <5>1, <5>2
        <4> QED
          BY <4>2, <4>3
      <3> QED
        BY <1>2, <3>1, <3>2
    <2> QED
      BY <1>1, <2>2, <2>3 DEF OneVersion
  <1> QED
    BY <1>1, <1>4, <1>5, <1>7, <1>8, <1>9, <1>10 DEF Steps

LEMMA SentSync ==
    ASSUME IInv, NEW p \in Peer, Send(p), SyncInv
    PROVE  SyncInv'
  <1>1. Wrote(p, Head(out[p]), Frame(keys[p], Head(out[p])))
    BY SendWrote
  <1>2. noise' = noise
    BY DEF Send
  <1> QED
    BY <1>1, <1>2, SentSteps, SentNumbers DEF SyncInv

-----------------------------------------------------------------------------
(* A packet is read and handled. *)

\* p has read the packet m, counted it, and goes on to `next' with packets that
\* are its own; a version is read where one is expected.
Read(p, m, next, packets) ==
    /\ noise' = noise /\ reset' = reset
    /\ pc[p] # "done" /\ inbox[p] # <<>> /\ m = Head(inbox[p]).msg
    /\ inbox'[p] = Tail(inbox[p]) /\ pc'[p] = next /\ out'[p] = packets /\ next # "done"
    /\ inbox'[Other(p)] = inbox[Other(p)] /\ pc'[Other(p)] = pc[Other(p)]
    /\ out'[Other(p)] = out[Other(p)]
    /\ keys'[Other(p)] = keys[Other(p)] /\ keys'[p].send_seq = keys[p].send_seq
    /\ keys'[p].recv_seq = IF pc[p] = "version" THEN keys[p].recv_seq
                           ELSE (keys[p].recv_seq + 1) % SeqMod
    /\ pc[p] = "version" => m.type = "Version"
    /\ \A x \in Elems(packets) : x.type # "Version" /\ Genuine(p, x)

LEMMA CountedSeqs ==
    ASSUME IInv, NEW p \in Peer
    PROVE  /\ Counted(p).send_seq = keys[p].send_seq
           /\ Counted(p).recv_seq = IF pc[p] = "version" THEN keys[p].recv_seq
                                    ELSE (keys[p].recv_seq + 1) % SeqMod
           /\ Counted(p) \in SessionKeys
           /\ \A a, b : /\ WithKeys(Counted(p), a, b).send_seq = Counted(p).send_seq
                        /\ WithKeys(Counted(p), a, b).recv_seq = Counted(p).recv_seq
                        /\ WithKeys(keys[p], a, b).send_seq = keys[p].send_seq
                        /\ WithKeys(keys[p], a, b).recv_seq = keys[p].recv_seq
  <1>1. keys[p] \in SessionKeys /\ NextRecvSeq(keys[p]) \in SessionKeys
    BY ReadyFacts, CountingTyped
  <1>2. /\ NextRecvSeq(keys[p]).send_seq = keys[p].send_seq
        /\ NextRecvSeq(keys[p]).recv_seq = (keys[p].recv_seq + 1) % SeqMod
    BY <1>1 DEF NextRecvSeq, SessionKeys
  <1>3. \A k \in SessionKeys : \A a, b : /\ WithKeys(k, a, b).send_seq = k.send_seq
                                         /\ WithKeys(k, a, b).recv_seq = k.recv_seq
    BY DEF WithKeys, SessionKeys
  <1>4. Counted(p) \in SessionKeys
    BY <1>1 DEF Counted
  <1>5. /\ Counted(p).send_seq = keys[p].send_seq
        /\ Counted(p).recv_seq = IF pc[p] = "version" THEN keys[p].recv_seq
                                 ELSE (keys[p].recv_seq + 1) % SeqMod
    BY <1>2 DEF Counted
  <1> QED
    BY <1>1, <1>3, <1>4, <1>5

LEMMA HandledRead ==
    ASSUME IInv, NEW p \in Peer, Recv(p), NEW next, next # "done", NEW packets,
           Handled(p, next, packets), NEW k, keys' = [keys EXCEPT ![p] = k],
           k.send_seq = Counted(p).send_seq, k.recv_seq = Counted(p).recv_seq,
           pc[p] = "version" => Msg(p).type = "Version",
           \A x \in Elems(packets) : x.type # "Version" /\ Genuine(p, x)
    PROVE  Read(p, Msg(p), next, packets)
  <1>1. /\ Other(p) \in Peer /\ Other(p) # p /\ pc[p] # "done" /\ inbox[p] # <<>>
        /\ pc' = [pc EXCEPT ![p] = next] /\ out' = [out EXCEPT ![p] = packets]
        /\ inbox' = [inbox EXCEPT ![p] = Tail(inbox[p])]
        /\ noise' = noise /\ reset' = reset /\ Msg(p) = Head(inbox[p]).msg
    BY Peers DEF Recv, Arrived, Reading, Handled, Msg
  <1>2. /\ inbox'[p] = Tail(inbox[p]) /\ pc'[p] = next /\ out'[p] = packets
        /\ inbox'[Other(p)] = inbox[Other(p)] /\ pc'[Other(p)] = pc[Other(p)]
        /\ out'[Other(p)] = out[Other(p)]
        /\ keys'[Other(p)] = keys[Other(p)] /\ keys'[p] = k
    BY <1>1, ReadyFacts
  <1> QED
    BY <1>1, <1>2, CountedSeqs DEF Read

LEMMA ReadCommon ==
    ASSUME IInv, Steps, NEW p \in Peer, NEW m, NEW next, NEW packets, Read(p, m, next, packets)
    PROVE  Contributed' /\ \A r \in Peer : OneVersion(r)'
  <1> DEFINE q == Other(p)
  <1>1. /\ q \in Peer /\ Other(q) = p /\ q # p /\ \A r \in Peer : r = p \/ r = q
        /\ inbox[p] \in Seq(Frames) /\ inbox[p] # <<>> /\ inbox'[p] = Tail(inbox[p])
        /\ out'[p] = packets /\ inbox'[q] = inbox[q] /\ pc'[q] = pc[q] /\ out'[q] = out[q]
        /\ \A x \in Elems(packets) : x.type # "Version" /\ Genuine(p, x)
    BY Peers, ReadyFacts DEF Read
  <1>2. /\ Elems(inbox'[p]) \subseteq Elems(inbox[p]) /\ Len(inbox[p]) \in Nat \ {0}
        /\ DOMAIN inbox'[p] = 1 .. Len(inbox[p]) - 1
        /\ \A i \in DOMAIN inbox'[p] : i + 1 \in DOMAIN inbox[p] /\ inbox'[p][i] = inbox[p][i + 1]
    BY <1>1, TailSteps
  <1> HIDE DEF q
  <1>3. Contributed'
    <2>1. /\ \A g \in Elems(inbox[q]) : Genuine(p, g.msg)
          /\ \A x \in Elems(out[q]) : Genuine(q, x)
          /\ \A g \in Elems(inbox[p]) : Genuine(q, g.msg)
      BY <1>1 DEF Steps, Contributed, q
    <2>2. /\ \A x \in Elems(out'[p]) : Genuine(p, x)
          /\ \A g \in Elems(inbox'[q]) : Genuine(p, g.msg)
          /\ \A x \in Elems(out'[q]) : Genuine(q, x)
          /\ \A g \in Elems(inbox'[p]) : Genuine(q, g.msg)
      BY <1>1, <1>2, <2>1
    <2>3. ASSUME NEW r \in Peer
          PROVE  /\ \A x \in Elems(out'[r]) : Genuine(r, x)
                 /\ \A g \in Elems(inbox'[Other(r)]) : Genuine(r, g.msg)
      BY <1>1, <2>2 DEF q
    <2> QED
      BY <2>3 DEF Contributed, Genuine
  <1>4. OneVersion(p)'
    <2>1. /\ \A i \in DOMAIN inbox[p] : inbox[p][i].msg.type = "Version" => i = 1
          /\ \A x \in Elems(out[q]) : x.type # "Version"
      BY <1>1 DEF Steps, OneVersion, q
    <2>2. \A i \in DOMAIN inbox'[p] : inbox'[p][i].msg.type # "Version"
      <3>1. ASSUME NEW i \in DOMAIN inbox'[p], inbox'[p][i].msg.type = "Version" PROVE FALSE
        <4>1. /\ i + 1 \in DOMAIN inbox[p] /\ inbox[p][i + 1].msg.type = "Version"
              /\ i \in 1 .. Len(inbox[p])
          BY <1>2, <3>1
        <4>2. i + 1 = 1
          BY <2>1, <4>1
        <4> QED
          BY <4>1, <4>2
      <3> QED
        BY <3>1
    <2> QED
      BY <1>1, <2>1, <2>2 DEF OneVersion, q
  <1>5. OneVersion(q)'
    <2>1. OneVersion(q)
      BY <1>1 DEF Steps
    <2> QED
      BY <1>1, <2>1 DEF OneVersion
  <1> QED
    BY <1>1, <1>3, <1>4, <1>5

LEMMA ReadNumbers ==
    ASSUME IInv, Steps, \A r \in Peer : Numbers(r),
           NEW p \in Peer, NEW m, NEW next, NEW packets, Read(p, m, next, packets),
           \/ On(p)' <=> (On(p) \/ m.type = "NewKeys")
           \/ Tail(inbox[p]) = <<>>
    PROVE  \A r \in Peer : Numbers(r)'
  <1> DEFINE q == Other(p)
  <1>1. /\ q \in Peer /\ Other(q) = p /\ \A r \in Peer : r = p \/ r = q
        /\ inbox[p] \in Seq(Frames) /\ inbox[q] \in Seq(Frames) /\ inbox[p] # <<>>
    BY Peers, ReadyFacts DEF Read
  <1>2. m.type = "Version" <=> pc[p] = "version"
    <2>1. 1 \in DOMAIN inbox[p] /\ m = inbox[p][1].msg
      BY <1>1 DEF Read
    <2> QED
      BY <2>1 DEF Steps, OneVersion, Read
  <1>3. Numbers(p)'
    <2>1. /\ pc[p] # "done" /\ inbox'[p] = Tail(inbox[p]) /\ m = Head(inbox[p]).msg
          /\ keys'[p].recv_seq = IF m.type = "Version" THEN keys[p].recv_seq
                                 ELSE (keys[p].recv_seq + 1) % SeqMod
          /\ reset' = reset /\ pc'[q] = pc[q] /\ keys'[q].send_seq = keys[q].send_seq
      BY <1>2 DEF Read
    <2> HIDE DEF q
    <2>2. Numbers(p)
      OBVIOUS
    <2> QED
      BY <1>1, <2>1, <2>2, NumbersTake DEF IsNewKeys, q
  <1>4. Numbers(q)'
    <2>1. IsFront(inbox'[q], inbox[q]) /\ On(q)' = On(q)
      BY <1>1, FrontSelf DEF Read, On
    <2> QED
      BY <1>1, <2>1, NumbersFront DEF Read
  <1> QED
    BY <1>1, <1>3, <1>4

\* The server handles a packet: it has its keys on from the client's NEWKEYS on,
\* and writes its own NEWKEYS last before it waits for that one.
LEMMA ServerReadSync ==
    ASSUME IInv, SyncInv, NEW m, NEW next, NEW packets, Read(S, m, next, packets),
           noise = 0 => Told',
           next \in ServerAt, m = Msg(S),
           next \in ServerKeyed <=> (pc[S] \in ServerKeyed \/ m.type = "NewKeys"),
           pc[S] = "newkeys" => m.type = "NewKeys",
           next = "newkeys" => pc[S] = "ecdh",
           next = "service" => packets = <<>>,
           \A i \in DOMAIN packets : packets[i].type = "NewKeys" => i = Len(packets)
    PROVE  SyncInv'
  <1>1. /\ noise' = noise /\ reset' = reset /\ pc[S] # "done" /\ inbox[S] # <<>>
        /\ m = Head(inbox[S]).msg /\ inbox'[S] = Tail(inbox[S]) /\ pc'[S] = next
        /\ out'[S] = packets /\ next # "done" /\ inbox'[C] = inbox[C] /\ pc'[C] = pc[C]
        /\ out'[C] = out[C]
    BY Parties DEF Read
  <1> SUFFICES ASSUME noise = 0 PROVE Steps' /\ \A p \in Peer : Numbers(p)'
    BY <1>1 DEF SyncInv
  <1>2. Steps /\ (\A p \in Peer : Numbers(p)) /\ Told'
    BY DEF SyncInv
  <1>3. Elems(inbox[S]) = {Head(inbox[S])} \cup Elems(Tail(inbox[S]))
    BY <1>1, ReadyFacts, Parties, TailSteps
  <1>4. ServerWaits'
    <2>1. \A p \in Peer : pc'[p] = "done" => out'[p] = <<>>
      BY <1>1, <1>2, Parties DEF Steps, ServerWaits
    <2>2. pc'[C] \in Past => pc'[S] # "newkeys"
      BY <1>1, Parties DEF IInv, InStep, ServerKeyed
    <2>3. ASSUME pc[C] \notin Past \cup {"done"}
          PROVE  \A i \in DOMAIN inbox[C] : inbox[C][i].msg.type # "NewKeys"
      <3>1. pc[S] \notin ServerKeyed \cup {"newkeys"}
        <4>1. OnWay(C, "NewKeys") \/ pc[S] \in ServerKeyed => FALSE
          BY <2>3 DEF IInv, InStep
        <4>2. m.type = "NewKeys" => OnWay(C, "NewKeys")
          BY <1>1, <1>3, Parties DEF OnWay
        <4> QED
          BY <4>1, <4>2
      <3>2. ~OnWay(S, "NewKeys")
        BY <1>1, <3>1 DEF IInv, InStep
      <3> QED
        BY <3>2, Parties DEF OnWay, Elems
    <2> QED
      BY <1>1, <1>2, <2>1, <2>2, <2>3 DEF Steps, ServerWaits
  <1>5. ClientSwitches'
    <2>1. Announced' <=> Announced
      <3>1. (\E f \in Elems(inbox[S]) : f.msg.type = "NewKeys") <=>
               (m.type = "NewKeys" \/ \E f \in Elems(inbox'[S]) : f.msg.type = "NewKeys")
        BY <1>1, <1>3
      <3> QED
        BY <1>1, <3>1 DEF Announced
    <2> HIDE DEF Announced
    <2> QED
      BY <1>1, <1>2, <2>1 DEF Steps, ClientSwitches
  <1>6. On(S)' <=> (On(S) \/ m.type = "NewKeys")
    BY <1>1, ReadyFacts, Places DEF On, Keyed, Past, ServerKeyed
  <1>7. Contributed' /\ \A r \in Peer : OneVersion(r)'
    BY <1>2, Parties, ReadCommon
  <1>8. \A r \in Peer : Numbers(r)'
    BY <1>2, <1>6, Parties, ReadNumbers
  <1> QED
    BY <1>2, <1>4, <1>5, <1>7, <1>8 DEF Steps

\* The client handles a packet; it answers the server's NEWKEYS with its own.
LEMMA ClientReadSync ==
    ASSUME IInv, SyncInv, NEW m, NEW next, NEW packets, Read(C, m, next, packets),
           noise = 0 => Told',
           next \in ClientAt, m = Msg(C), pc[C] # "activate",
           next \in Keyed <=> pc[C] \in Keyed,
           next = "activate" => /\ pc[C] = "newkeys" /\ m.type = "NewKeys"
                                /\ Len(packets) = 1 /\ Head(packets).type = "NewKeys",
           next \notin Past => m.type # "NewKeys" /\ pc[C] \notin Past
    PROVE  SyncInv'
  <1>1. /\ noise' = noise /\ reset' = reset /\ pc[C] # "done" /\ inbox[C] # <<>>
        /\ m = Head(inbox[C]).msg /\ inbox'[C] = Tail(inbox[C]) /\ pc'[C] = next
        /\ out'[C] = packets /\ next # "done" /\ inbox'[S] = inbox[S] /\ pc'[S] = pc[S]
        /\ out'[S] = out[S]
    BY Parties DEF Read
  <1> SUFFICES ASSUME noise = 0 PROVE Steps' /\ \A p \in Peer : Numbers(p)'
    BY <1>1 DEF SyncInv
  <1>2. Steps /\ (\A p \in Peer : Numbers(p)) /\ Told'
    BY DEF SyncInv
  <1>3. /\ Len(inbox[C]) \in Nat \ {0} /\ DOMAIN inbox[C] = 1 .. Len(inbox[C])
        /\ m = inbox[C][1].msg
        /\ Len(Tail(inbox[C])) = Len(inbox[C]) - 1
        /\ DOMAIN Tail(inbox[C]) = 1 .. Len(inbox[C]) - 1
        /\ \A i \in DOMAIN Tail(inbox[C]) :
              i + 1 \in DOMAIN inbox[C] /\ Tail(inbox[C])[i] = inbox[C][i + 1]
        /\ Len(inbox[C]) = 1 => Tail(inbox[C]) = <<>>
    BY <1>1, ReadyFacts, Parties, TailSteps
  <1>4. next = "activate" => Tail(inbox[C]) = <<>> /\ out[S] = <<>>
    <2>1. ASSUME next = "activate" PROVE Tail(inbox[C]) = <<>> /\ out[S] = <<>>
      <3>1. pc[C] \notin Past \cup {"done"} /\ m.type = "NewKeys" /\ 1 \in DOMAIN inbox[C]
        BY <1>3, <2>1 DEF Past
      <3>2. 1 = Len(inbox[C]) /\ out[S] = <<>>
        BY <1>2, <1>3, <3>1 DEF Steps, ServerWaits
      <3> QED
        BY <1>3, <3>2
    <2> QED
      BY <2>1
  <1>5. ServerWaits'
    <2>1. \A p \in Peer : pc'[p] = "done" => out'[p] = <<>>
      BY <1>1, <1>2, Parties DEF Steps, ServerWaits
    <2>2. pc'[C] \in Past /\ pc'[S] = "newkeys" => out'[S] = <<>>
      BY <1>1, <1>2, <1>4 DEF Steps, ServerWaits, Keyed
    <2>3. pc'[C] = "activate" => inbox'[C] = <<>>
      BY <1>1, <1>4
    <2>4. ASSUME pc'[C] \notin Past \cup {"done"}
          PROVE  /\ \A i \in DOMAIN inbox'[C] : inbox'[C][i].msg.type = "NewKeys" =>
                       i = Len(inbox'[C]) /\ out'[S] = <<>>
                 /\ \A i \in DOMAIN out'[S] : out'[S][i].type = "NewKeys" => i = Len(out'[S])
      <3>1. pc[C] \notin Past \cup {"done"}
        BY <1>1, <2>4
      <3>2. ASSUME NEW i \in DOMAIN inbox'[C], inbox'[C][i].msg.type = "NewKeys"
            PROVE  i = Len(inbox'[C]) /\ out'[S] = <<>>
        <4>1. i + 1 \in DOMAIN inbox[C] /\ inbox[C][i + 1].msg.type = "NewKeys"
          BY <1>1, <1>3, <3>2
        <4>2. i + 1 = Len(inbox[C]) /\ out[S] = <<>>
          BY <1>2, <3>1, <4>1 DEF Steps, ServerWaits
        <4>3. i \in 1 .. Len(inbox[C]) - 1 /\ Len(inbox'[C]) = Len(inbox[C]) - 1
          BY <1>1, <1>3, <3>2
        <4>4. out'[S] = <<>>
          BY <1>1, <4>2
        <4>5. Len(inbox[C]) \in Nat /\ i \in Nat
          BY <1>3, <4>3
        <4> QED
          BY <4>2, <4>3, <4>4, <4>5
      <3>3. \A i \in DOMAIN out'[S] : out'[S][i].type = "NewKeys" => i = Len(out'[S])
        BY <1>1, <1>2, <3>1 DEF Steps, ServerWaits
      <3> QED
        BY <3>2, <3>3
    <2>5. pc'[S] = "service" => out'[S] = <<>>
      BY <1>1, <1>2 DEF Steps, ServerWaits
    <2> QED
      BY <2>1, <2>2, <2>3, <2>4, <2>5 DEF ServerWaits
  <1>6. ClientSwitches'
    <2>1. Announced' <=> Announced
      BY <1>1 DEF Announced
    <2>2. pc[C] = "newkeys" => ~Announced
      BY Parties DEF Announced, IInv, InStep, OnWay, Past
    <2>3. next = "activate" => packets # <<>>
      <3>1. Len(<<>>) = 0
        OBVIOUS
      <3> QED
        BY <3>1
    <2>4. "activate" \notin Keyed
      BY DEF Keyed
    <2> HIDE DEF Announced
    <2> QED
      BY <1>1, <1>2, <2>1, <2>2, <2>3, <2>4 DEF Steps, ClientSwitches
  <1>7. \/ On(C)' <=> (On(C) \/ m.type = "NewKeys")
        \/ Tail(inbox[C]) = <<>>
    <2>1. (On(C) <=> pc[C] \in Keyed) /\ (On(C)' <=> next \in Keyed)
      BY <1>1, ReadyFacts, Places DEF On, Keyed, Past, ServerKeyed
    <2> QED
      BY <1>4, <2>1 DEF Keyed
  <1>8. Contributed' /\ \A r \in Peer : OneVersion(r)'
    BY <1>2, Parties, ReadCommon
  <1>9. \A r \in Peer : Numbers(r)'
    BY <1>2, <1>7, Parties, ReadNumbers
  <1> QED
    BY <1>2, <1>5, <1>6, <1>8, <1>9 DEF Steps

-----------------------------------------------------------------------------
(* The actions of the server. *)

\* A packet that is none of the handshake.
Later(m) == m.type \notin {"Version", "KexInit", "KexEcdhInit", "KexEcdhReply", "NewKeys"}

LEMMA LaterGenuine ==
    ASSUME NEW p, NEW m, Later(m)
    PROVE  m.type # "Version" /\ m.type # "NewKeys" /\ Genuine(p, m)
  BY DEF Later, Genuine

LEMMA LaterPackets ==
    ASSUME NEW packets, \A x \in Elems(packets) : Later(x)
    PROVE  /\ \A p : \A x \in Elems(packets) : x.type # "Version" /\ Genuine(p, x)
           /\ \A i \in DOMAIN packets : packets[i].type # "NewKeys"
  BY LaterGenuine DEF Elems

LEMMA RejectedSync ==
    ASSUME IInv, SyncInv, NEW p \in Peer, NEW r, Rejected(p, r)
    PROVE  SyncInv'
  BY ReturnCuts, CutsSync DEF Rejected

LEMMA IoSync ==
    ASSUME IInv, SyncInv, NEW p \in Peer, NEW handled,
           Write(p) \/ RecvGarbled(p) \/ RecvFails(p, handled)
    PROVE  SyncInv'
  <1>1. CASE Send(p)
    BY <1>1, SentSync
  <1>2. CASE ~Send(p)
    <2>1. \E r, unread : Return(p, r, unread) /\ UNCHANGED <<keys, kex>>
      BY <1>2 DEF Write, SendTooLarge, SendFails, RecvGarbled, RecvFails
    <2> QED
      BY <2>1, ReturnCuts, CutsSync
  <1> QED
    BY <1>1, <1>2

LEMMA HeadGenuine ==
    ASSUME IInv, Contributed, NEW p \in Peer, Recv(p)
    PROVE  Genuine(Other(p), Msg(p)) /\ Msg(p) = Head(inbox[p]).msg
  <1>1. Head(inbox[p]) \in Elems(inbox[p])
    BY Received DEF IInv, TypeInv, TypeOK
  <1> QED
    BY <1>1, Peers DEF Contributed, Msg

\* The client's view stays as it is.
LEMMA ServerTold ==
    ASSUME Told, pc'[C] = pc[C], kex'[C] = kex[C],
           pc'[S] \notin {"version", "done"} => kex'[S].version = Own(C).version,
           pc'[S] \notin {"version", "kexinit", "done"} => kex'[S].kexinit = Own(C).kexinit,
           pc'[S] \notin {"version", "kexinit", "ecdh", "done"} => kex'[S].pub = Own(C).pub
    PROVE  Told'
  BY DEF Told

LEMMA ServerLateSync ==
    ASSUME IInv, SyncInv, pc[S] \in ServerKeyed, Recv(S), CountReceived(S),
           NEW next \in {"auth", "loop"}, NEW packets, Handled(S, next, packets),
           \A x \in Elems(packets) : Later(x)
    PROVE  SyncInv'
  <1>1. /\ pc[S] \notin {"version", "newkeys"} /\ next \in ServerKeyed /\ next \in ServerAt
        /\ next \notin {"done", "newkeys", "service"}
    BY Places DEF ServerKeyed
  <1>2. /\ \A x \in Elems(packets) : x.type # "Version" /\ Genuine(S, x)
        /\ \A i \in DOMAIN packets : packets[i].type # "NewKeys"
    BY LaterPackets
  <1>3. keys' = [keys EXCEPT ![S] = Counted(S)] /\ kex' = kex
    BY DEF CountReceived
  <1>4. Read(S, Msg(S), next, packets)
    BY <1>1, <1>2, <1>3, Parties, HandledRead
  <1>5. pc'[S] = next /\ pc'[C] = pc[C]
    BY <1>4, Parties DEF Read
  <1>6. noise = 0 => Told'
    BY <1>1, <1>3, <1>5, ServerTold DEF SyncInv, Steps, Told, ServerKeyed
  <1> QED
    BY <1>1, <1>2, <1>4, <1>6, ServerReadSync

LEMMA ServerLoopSync ==
    ASSUME IInv, SyncInv,
           \/ RecvServiceRequest \/ RecvAuthRequest \/ RecvChannelOpen \/ RecvRequest
           \/ RecvChannelData \/ RecvWindowAdjust \/ RecvChannelEof \/ RecvChannelClose
           \/ RecvOther
    PROVE  SyncInv'
  <1> DEFINE Fit(packets) == \A x \in Elems(packets) : Later(x)
             Turn == \E next \in {"auth", "loop"} : \E packets :
                        /\ pc[S] \in ServerKeyed /\ Recv(S) /\ CountReceived(S)
                        /\ Handled(S, next, packets) /\ Fit(packets)
  <1>1. Fit(<<>>) /\ \A x : Later(x) => Fit(<<x>>)
    BY ElemsShort
  <1>2. /\ \A type \in {"ServiceAccept", "UserAuthSuccess", "UserAuthFailure",
                        "ChannelOpenConfirmation", "ChannelSuccess", "ChannelFailure",
                        "ChannelData", "ChannelClose"} :
              \A t, n : Later(SshPacket(type, t, n))
    BY DEF Later, SshPacket
  <1> HIDE DEF Fit
  <1>3. CASE RecvServiceRequest \/ RecvAuthRequest
    <2>1. Turn \/ Rejected(S, "AuthFailed")
      BY <1>1, <1>2, <1>3 DEF RecvServiceRequest, RecvAuthRequest, Expected, ServerKeyed
    <2> QED
      BY <2>1, ServerLateSync, RejectedSync, Parties DEF Fit
  <1>4. CASE RecvChannelOpen \/ RecvRequest
    <2>1. Turn \/ Rejected(S, "Channel")
      BY <1>1, <1>2, <1>4
         DEF RecvChannelOpen, RecvRequest, InLoop, Replies, ToChannel, ServerKeyed
    <2> QED
      BY <2>1, ServerLateSync, RejectedSync, Parties DEF Fit
  <1>5. CASE RecvChannelData \/ RecvChannelClose
    <2>1. Turn \/ Rejected(S, "Channel")
      BY <1>1, <1>2, <1>5 DEF RecvChannelData, RecvChannelClose, InLoop, Replies, ToChannel,
                              build_channel_data, ServerKeyed
    <2> QED
      BY <2>1, ServerLateSync, RejectedSync, Parties DEF Fit
  <1>6. CASE RecvWindowAdjust \/ RecvChannelEof \/ RecvOther
    <2>1. Turn
      BY <1>1, <1>6
         DEF RecvWindowAdjust, RecvChannelEof, RecvOther, InLoop, Replies, ServerKeyed
    <2> QED
      BY <2>1, ServerLateSync DEF Fit
  <1> QED
    BY <1>3, <1>4, <1>5, <1>6

LEMMA ExecSync ==
    ASSUME IInv, SyncInv, RecvExec
    PROVE  SyncInv'
  <1>1. CASE Found = {}
    BY <1>1, Parties, RejectedSync DEF RecvExec
  <1>2. CASE Found # {}
    <2>1. PICK id \in Found :
             Replies((IF Msg(S).want THEN <<ToChannel("ChannelSuccess", id)>> ELSE <<>>)
                     \o <<build_channel_data(channels.channels[id].remote_id, "output",
                                             Output[Msg(S).text[2]]),
                          ToChannel("ChannelEof", id), ToChannel("ChannelClose", id)>>)
      BY <1>2 DEF RecvExec
    <2> DEFINE a == ToChannel("ChannelSuccess", id)
               d == build_channel_data(channels.channels[id].remote_id, "output",
                                       Output[Msg(S).text[2]])
               e == ToChannel("ChannelEof", id)
               c == ToChannel("ChannelClose", id)
               s == IF Msg(S).want THEN <<a>> ELSE <<>>
               packets == s \o <<d, e, c>>
    <2>2. Later(a) /\ Later(d) /\ Later(e) /\ Later(c) /\ s \in {<<>>, <<a>>}
      BY DEF ToChannel, build_channel_data, SshPacket, Later
    <2>3. Replies(packets) /\ pc[S] = "loop" /\ Recv(S)
      BY <2>1 DEF RecvExec, InLoop
    <2> HIDE DEF a, d, e, c, s
    <2>4. \A i \in DOMAIN packets : packets[i] \in {a, d, e, c}
      <3>1. CASE s = <<>>
        BY <3>1
      <3>2. CASE s = <<a>>
        BY <3>2
      <3> QED
        BY <2>2, <3>1, <3>2
    <2> HIDE DEF packets
    <2>5. \A x \in Elems(packets) : Later(x)
      BY <2>2, <2>4 DEF Elems
    <2> QED
      BY <2>3, <2>5, ServerLateSync DEF Replies, ServerKeyed
  <1> QED
    BY <1>1, <1>2

LEMMA ServerVersionSync ==
    ASSUME IInv, SyncInv, RecvClientVersion
    PROVE  SyncInv'
  <1> DEFINE m == Msg(S)
             x == SshPacket("KexInit", <<Own(S).kexinit>>, <<>>)
  <1>1. /\ pc[S] = "version" /\ Recv(S) /\ m.type = "Version" /\ keys' = keys
        /\ kex' = [kex EXCEPT ![S].version = m.text[1]] /\ Handled(S, "kexinit", <<x>>)
    BY DEF RecvClientVersion, Expected, ServerExpects
  <1>2. x.type = "KexInit" /\ x.text = <<Own(S).kexinit>>
    BY DEF SshPacket
  <1> HIDE DEF x
  <1>3. /\ \A y \in Elems(<<x>>) : y.type # "Version" /\ Genuine(S, y)
        /\ \A i \in DOMAIN <<x>> : <<x>>[i].type # "NewKeys"
    BY <1>2, ElemsShort DEF Genuine
  <1>4. keys' = [keys EXCEPT ![S] = Counted(S)]
    BY <1>1, ReadyFacts DEF Counted
  <1>5. Read(S, m, "kexinit", <<x>>)
    BY <1>1, <1>3, <1>4, Parties, HandledRead
  <1>6. /\ pc'[S] = "kexinit" /\ pc'[C] = pc[C] /\ kex'[C] = kex[C]
        /\ kex'[S].version = m.text[1]
    BY <1>1, <1>5, Parties, ReadyFacts DEF Read, KexView
  <1>7. noise = 0 => Told'
    <2>1. ASSUME noise = 0 PROVE Told /\ m.text[1] = Own(C).version
      <3>1. Genuine(C, m) /\ Told
        BY <1>1, <2>1, HeadGenuine, Parties DEF SyncInv, Steps
      <3> QED
        BY <1>1, <3>1 DEF Genuine
    <2> QED
      BY <1>6, <2>1, ServerTold
  <1> HIDE DEF m
  <1> QED
    BY <1>1, <1>3, <1>5, <1>7, Places, ServerReadSync DEF ServerKeyed, m

LEMMA ServerKexInitSync ==
    ASSUME IInv, SyncInv, RecvClientKexInit
    PROVE  SyncInv'
  <1> DEFINE m == Msg(S)
  <1>1. /\ pc[S] = "kexinit" /\ Recv(S) /\ m.type = "KexInit"
        /\ keys' = [keys EXCEPT ![S] = Counted(S)]
        /\ kex' = [kex EXCEPT ![S].kexinit = m.text[1]] /\ Handled(S, "ecdh", <<>>)
    BY DEF RecvClientKexInit, Expected, ServerExpects
  <1>2. (\A y \in Elems(<<>>) : y.type # "Version" /\ Genuine(S, y)) /\ DOMAIN <<>> = {}
    BY ElemsShort
  <1>3. Read(S, m, "ecdh", <<>>)
    BY <1>1, <1>2, Parties, HandledRead
  <1>4. /\ pc'[S] = "ecdh" /\ pc'[C] = pc[C] /\ kex'[C] = kex[C]
        /\ kex'[S].version = kex[S].version /\ kex'[S].kexinit = m.text[1]
    BY <1>1, <1>3, Parties, ReadyFacts DEF Read, KexView
  <1>5. noise = 0 => Told'
    <2>1. ASSUME noise = 0
          PROVE  Told /\ m.text[1] = Own(C).kexinit /\ kex[S].version = Own(C).version
      <3>1. Genuine(C, m) /\ Told
        BY <1>1, <2>1, HeadGenuine, Parties DEF SyncInv, Steps
      <3> QED
        BY <1>1, <3>1 DEF Genuine, Told
    <2> QED
      BY <1>4, <2>1, ServerTold
  <1> HIDE DEF m
  <1> QED
    BY <1>1, <1>2, <1>3, <1>5, Places, ServerReadSync DEF ServerKeyed, m

LEMMA ServerEcdhSync ==
    ASSUME IInv, SyncInv, RecvEcdhInit
    PROVE  SyncInv'
  <1> DEFINE m == Msg(S)
             x == SshPacket("KexEcdhReply", <<HOST_KEY, Own(S).pub, "signature">>, <<>>)
             y == SshPacket("NewKeys", <<>>, <<>>)
  <1>1. /\ pc[S] = "ecdh" /\ Recv(S) /\ m.type = "KexEcdhInit"
        /\ keys' = [keys EXCEPT ![S] = Counted(S)]
        /\ kex' = [kex EXCEPT ![S].pub = m.text[1]] /\ Handled(S, "newkeys", <<x, y>>)
    BY DEF RecvEcdhInit, Expected, ServerExpects
  <1>2. /\ x.type = "KexEcdhReply" /\ x.text = <<HOST_KEY, Own(S).pub, "signature">>
        /\ y.type = "NewKeys" /\ Own(S).host_key = HOST_KEY
    BY DEF SshPacket, Own, S
  <1> HIDE DEF x, y
  <1>3. /\ \A z \in Elems(<<x, y>>) : z.type # "Version" /\ Genuine(S, z)
        /\ \A i \in DOMAIN <<x, y>> : <<x, y>>[i].type = "NewKeys" => i = Len(<<x, y>>)
    <2>1. Genuine(S, x) /\ Genuine(S, y)
      BY <1>2 DEF Genuine
    <2>2. DOMAIN <<x, y>> = {1, 2} /\ Len(<<x, y>>) = 2 /\ <<x, y>>[1] = x
      OBVIOUS
    <2> QED
      BY <1>2, <2>1, <2>2, ElemsShort
  <1>4. Read(S, m, "newkeys", <<x, y>>)
    BY <1>1, <1>3, Parties, HandledRead
  <1>5. /\ pc'[S] = "newkeys" /\ pc'[C] = pc[C] /\ kex'[C] = kex[C]
        /\ kex'[S].version = kex[S].version /\ kex'[S].kexinit = kex[S].kexinit
        /\ kex'[S].pub = m.text[1]
    BY <1>1, <1>4, Parties, ReadyFacts DEF Read, KexView
  <1>6. noise = 0 => Told'
    <2>1. ASSUME noise = 0
          PROVE  /\ Told /\ m.text[1] = Own(C).pub /\ kex[S].version = Own(C).version
                 /\ kex[S].kexinit = Own(C).kexinit
      <3>1. Genuine(C, m) /\ Told
        BY <1>1, <2>1, HeadGenuine, Parties DEF SyncInv, Steps
      <3> QED
        BY <1>1, <3>1 DEF Genuine, Told
    <2> QED
      BY <1>5, <2>1, ServerTold
  <1> HIDE DEF m
  <1> QED
    BY <1>1, <1>3, <1>4, <1>6, Places, ServerReadSync DEF ServerKeyed, m

LEMMA ServerNewKeysSync ==
    ASSUME IInv, SyncInv, RecvClientNewKeys
    PROVE  SyncInv'
  <1> DEFINE m == Msg(S)
             h == KexComplete(S, kex[S])
             k == WithKeys(Counted(S), ServerToClient(h), ClientToServer(h))
  <1>1. /\ pc[S] = "newkeys" /\ Recv(S) /\ m.type = "NewKeys" /\ kex' = kex
        /\ keys' = [keys EXCEPT ![S] = k] /\ Handled(S, "service", <<>>)
    BY DEF RecvClientNewKeys, Expected, ServerExpects
  <1>2. k.send_seq = Counted(S).send_seq /\ k.recv_seq = Counted(S).recv_seq
    BY Parties, CountedSeqs
  <1>3. (\A y \in Elems(<<>>) : y.type # "Version" /\ Genuine(S, y)) /\ DOMAIN <<>> = {}
    BY ElemsShort
  <1> HIDE DEF k
  <1>4. Read(S, m, "service", <<>>)
    BY <1>1, <1>2, <1>3, Parties, HandledRead
  <1>5. pc'[S] = "service" /\ pc'[C] = pc[C]
    BY <1>4, Parties DEF Read
  <1>6. noise = 0 => Told'
    BY <1>1, <1>5, ServerTold DEF SyncInv, Steps, Told
  <1> HIDE DEF m
  <1> QED
    BY <1>1, <1>3, <1>4, <1>6, Places, ServerReadSync DEF ServerKeyed, m

LEMMA ServerSync ==
    ASSUME IInv, SyncInv, ServerStep
    PROVE  SyncInv'
  <1>1. ServerNext
    BY DEF ServerStep
  <1>2. CASE RecvDisconnect \/ ServerRejects
    <2>1. \E r : Rejected(S, r)
      BY <1>2 DEF RecvDisconnect, ServerRejects
    <2> QED
      BY <2>1, Parties, RejectedSync
  <1>3. CASE ClientGone
    BY <1>3, Parties, ReturnCuts, CutsSync DEF ClientGone
  <1>4. CASE ServerIo
    BY <1>4, Parties, IoSync DEF ServerIo
  <1> QED
    BY <1>1, <1>2, <1>3, <1>4, ServerVersionSync, ServerKexInitSync, ServerEcdhSync,
       ServerNewKeysSync, ServerLoopSync, ExecSync DEF ServerNext

-----------------------------------------------------------------------------
(* The actions of the client. *)

LEMMA ClientTold ==
    ASSUME Told, pc'[S] = pc[S], kex'[S] = kex[S],
           pc'[C] \notin {"version", "done"} => kex'[C].version = Own(S).version,
           pc'[C] \notin {"version", "kexinit", "done"} => kex'[C].kexinit = Own(S).kexinit,
           pc'[C] \notin {"version", "kexinit", "reply", "done"} =>
              kex'[C].pub = Own(S).pub /\ kex'[C].host_key = Own(S).host_key
    PROVE  Told'
  BY DEF Told

LEMMA ClientVersionSync ==
    ASSUME IInv, SyncInv, RecvServerVersion
    PROVE  SyncInv'
  <1> DEFINE m == Msg(C)
  <1>1. /\ pc[C] = "version" /\ Recv(C) /\ m.type = "Version" /\ keys' = keys
        /\ kex' = [kex EXCEPT ![C].version = m.text[1]] /\ Handled(C, "kexinit", <<>>)
    BY DEF RecvServerVersion, ClientExpected, ClientExpects
  <1>2. \A y \in Elems(<<>>) : y.type # "Version" /\ Genuine(C, y)
    BY ElemsShort
  <1>3. keys' = [keys EXCEPT ![C] = Counted(C)]
    BY <1>1, ReadyFacts DEF Counted
  <1>4. Read(C, m, "kexinit", <<>>)
    BY <1>1, <1>2, <1>3, Parties, HandledRead
  <1>5. /\ pc'[C] = "kexinit" /\ pc'[S] = pc[S] /\ kex'[S] = kex[S]
        /\ kex'[C].version = m.text[1]
    BY <1>1, <1>4, Parties, ReadyFacts DEF Read, KexView
  <1>6. noise = 0 => Told'
    <2>1. ASSUME noise = 0 PROVE Told /\ m.text[1] = Own(S).version
      <3>1. Genuine(S, m) /\ Told
        BY <1>1, <2>1, HeadGenuine, Parties DEF SyncInv, Steps
      <3> QED
        BY <1>1, <3>1 DEF Genuine
    <2> QED
      BY <1>5, <2>1, ClientTold
  <1> HIDE DEF m
  <1> QED
    BY <1>1, <1>4, <1>6, Places, ClientReadSync DEF Keyed, Past, m

LEMMA ClientKexInitSync ==
    ASSUME IInv, SyncInv, RecvServerKexInit
    PROVE  SyncInv'
  <1> DEFINE m == Msg(C)
             x == SshPacket("KexInit", <<Own(C).kexinit>>, <<>>)
             y == SshPacket("KexEcdhInit", <<Own(C).pub>>, <<>>)
  <1>1. /\ pc[C] = "kexinit" /\ Recv(C) /\ m.type = "KexInit"
        /\ keys' = [keys EXCEPT ![C] = Counted(C)]
        /\ kex' = [kex EXCEPT ![C].kexinit = m.text[1]] /\ Handled(C, "reply", <<x, y>>)
    BY DEF RecvServerKexInit, ClientExpected, ClientExpects
  <1>2. /\ x.type = "KexInit" /\ x.text = <<Own(C).kexinit>>
        /\ y.type = "KexEcdhInit" /\ y.text = <<Own(C).pub>>
    BY DEF SshPacket
  <1> HIDE DEF x, y
  <1>3. \A z \in Elems(<<x, y>>) : z.type # "Version" /\ Genuine(C, z)
    BY <1>2, ElemsShort DEF Genuine
  <1>4. Read(C, m, "reply", <<x, y>>)
    BY <1>1, <1>3, Parties, HandledRead
  <1>5. /\ pc'[C] = "reply" /\ pc'[S] = pc[S] /\ kex'[S] = kex[S]
        /\ kex'[C].version = kex[C].version /\ kex'[C].kexinit = m.text[1]
    BY <1>1, <1>4, Parties, ReadyFacts DEF Read, KexView
  <1>6. noise = 0 => Told'
    <2>1. ASSUME noise = 0
          PROVE  Told /\ m.text[1] = Own(S).kexinit /\ kex[C].version = Own(S).version
      <3>1. Genuine(S, m) /\ Told
        BY <1>1, <2>1, HeadGenuine, Parties DEF SyncInv, Steps
      <3> QED
        BY <1>1, <3>1 DEF Genuine, Told
    <2> QED
      BY <1>5, <2>1, ClientTold
  <1> HIDE DEF m
  <1> QED
    BY <1>1, <1>4, <1>6, Places, ClientReadSync DEF Keyed, Past, m

LEMMA ClientReplySync ==
    ASSUME IInv, SyncInv, RecvEcdhReply
    PROVE  SyncInv'
  <1> DEFINE m == Msg(C)
  <1>1. /\ pc[C] = "reply" /\ Recv(C) /\ m.type = "KexEcdhReply"
        /\ keys' = [keys EXCEPT ![C] = Counted(C)]
        /\ kex' = [kex EXCEPT ![C].host_key = m.text[1], ![C].pub = m.text[2]]
        /\ Handled(C, "newkeys", <<>>)
    BY DEF RecvEcdhReply, ClientExpected, ClientExpects
  <1>2. \A y \in Elems(<<>>) : y.type # "Version" /\ Genuine(C, y)
    BY ElemsShort
  <1>3. Read(C, m, "newkeys", <<>>)
    BY <1>1, <1>2, Parties, HandledRead
  <1>4. /\ pc'[C] = "newkeys" /\ pc'[S] = pc[S] /\ kex'[S] = kex[S]
        /\ kex'[C].version = kex[C].version /\ kex'[C].kexinit = kex[C].kexinit
        /\ kex'[C].host_key = m.text[1] /\ kex'[C].pub = m.text[2]
    BY <1>1, <1>3, Parties, ReadyFacts DEF Read, KexView
  <1>5. noise = 0 => Told'
    <2>1. ASSUME noise = 0
          PROVE  /\ Told /\ m.text[1] = Own(S).host_key /\ m.text[2] = Own(S).pub
                 /\ kex[C].version = Own(S).version /\ kex[C].kexinit = Own(S).kexinit
      <3>1. Genuine(S, m) /\ Told
        BY <1>1, <2>1, HeadGenuine, Parties DEF SyncInv, Steps
      <3> QED
        BY <1>1, <3>1 DEF Genuine, Told
    <2> QED
      BY <1>4, <2>1, ClientTold
  <1> HIDE DEF m
  <1> QED
    BY <1>1, <1>3, <1>5, Places, ClientReadSync DEF Keyed, Past, m

LEMMA ClientNewKeysSync ==
    ASSUME IInv, SyncInv, RecvServerNewKeys
    PROVE  SyncInv'
  <1> DEFINE m == Msg(C)
             x == SshPacket("NewKeys", <<>>, <<>>)
  <1>1. /\ pc[C] = "newkeys" /\ Recv(C) /\ m.type = "NewKeys" /\ kex' = kex
        /\ keys' = [keys EXCEPT ![C] = Counted(C)] /\ Handled(C, "activate", <<x>>)
    BY DEF RecvServerNewKeys, ClientExpected, ClientExpects, CountReceived
  <1>2. x.type = "NewKeys" /\ Len(<<x>>) = 1 /\ Head(<<x>>) = x
    BY DEF SshPacket
  <1> HIDE DEF x
  <1>3. \A z \in Elems(<<x>>) : z.type # "Version" /\ Genuine(C, z)
    BY <1>2, ElemsShort DEF Genuine
  <1>4. Read(C, m, "activate", <<x>>)
    BY <1>1, <1>3, Parties, HandledRead
  <1>5. pc'[C] = "activate" /\ pc'[S] = pc[S]
    BY <1>4, Parties DEF Read
  <1>6. noise = 0 => Told'
    BY <1>1, <1>5, ClientTold DEF SyncInv, Steps, Told
  <1> HIDE DEF m
  <1> QED
    BY <1>1, <1>2, <1>4, <1>6, Places, ClientReadSync DEF Keyed, Past, m

LEMMA ClientLateSync ==
    ASSUME IInv, SyncInv, pc[C] \in Keyed, Recv(C), CountReceived(C),
           NEW next \in Keyed, NEW packets, Handled(C, next, packets),
           \A x \in Elems(packets) : Later(x)
    PROVE  SyncInv'
  <1>1. /\ pc[C] \notin {"version", "newkeys", "activate"} /\ next \in ClientAt
        /\ next \notin {"done", "activate"} /\ next \in Past
    BY Places DEF Keyed, Past
  <1>2. \A x \in Elems(packets) : x.type # "Version" /\ Genuine(C, x)
    BY LaterPackets
  <1>3. keys' = [keys EXCEPT ![C] = Counted(C)] /\ kex' = kex
    BY DEF CountReceived
  <1>4. Read(C, Msg(C), next, packets)
    BY <1>1, <1>2, <1>3, Parties, HandledRead
  <1>5. pc'[C] = next /\ pc'[S] = pc[S]
    BY <1>4, Parties DEF Read
  <1>6. noise = 0 => Told'
    BY <1>1, <1>3, <1>5, ClientTold DEF SyncInv, Steps, Told, Keyed, Past
  <1> QED
    BY <1>1, <1>4, <1>6, ClientReadSync

LEMMA StartLater ==
    ASSUME NEW r, args.mode \in {"exec", "interactive", "none"}
    PROVE  \A x \in Elems(Start(r)) : Later(x)
  <1> DEFINE n(t) == [SshPacket("ChannelRequest", t, <<r>>) EXCEPT !.want = TRUE]
  <1>1. (\A t : Later(n(t))) /\ Later(disconnect)
    BY DEF Later, SshPacket, disconnect
  <1>2. CASE args.mode = "exec"
    <2>1. Start(r) = <<n(<<"exec", args.command>>)>>
      BY <1>2 DEF Start
    <2> HIDE DEF n
    <2> QED
      BY <1>1, <2>1, ElemsShort
  <1>3. CASE args.mode = "interactive"
    <2>1. Start(r) = <<n(<<"shell">>)>>
      BY <1>3 DEF Start
    <2> HIDE DEF n
    <2> QED
      BY <1>1, <2>1, ElemsShort
  <1>4. CASE args.mode = "none"
    <2>1. Start(r) = <<disconnect>>
      BY <1>4 DEF Start
    <2> QED
      BY <1>1, <2>1, ElemsShort
  <1> QED
    BY <1>2, <1>3, <1>4

LEMMA ClientLoopSync ==
    ASSUME IInv, SyncInv,
           \/ RecvServiceAccept \/ RecvAuthSuccess \/ RecvConfirmation
           \/ RecvData \/ RecvClose \/ RecvNothingToDo
    PROVE  SyncInv'
  <1> DEFINE Fit(packets) == \A x \in Elems(packets) : Later(x)
             Turn == \E next \in Keyed : \E packets :
                        /\ pc[C] \in Keyed /\ Recv(C) /\ CountReceived(C)
                        /\ Handled(C, next, packets) /\ Fit(packets)
  <1>1. /\ Fit(<<>>) /\ \A x : Later(x) => Fit(<<x>>)
        /\ \A x, y : Later(x) /\ Later(y) => Fit(<<x, y>>)
    BY ElemsShort
  <1>2. /\ \A type \in {"UserAuthRequest", "ChannelOpen", "ChannelClose"} :
              \A t, n : Later(SshPacket(type, t, n))
        /\ Later(disconnect)
    BY DEF Later, SshPacket, disconnect
  <1>3. /\ args.mode \in {"exec", "interactive", "none"}
        /\ \A r : Fit(Start(r))
    BY StartLater DEF IInv, TypeInv, ArgsOK
  <1>4. {"accept", "authreply", "confirm", "exec", "interactive", "bye"} \subseteq Keyed
    BY DEF Keyed, Past
  <1> HIDE DEF Fit
  <1>5. Turn
    <2>1. CASE RecvServiceAccept \/ RecvAuthSuccess
      BY <1>1, <1>2, <1>4, <2>1 DEF RecvServiceAccept, RecvAuthSuccess, ClientExpected
    <2>2. CASE RecvConfirmation
      BY <1>3, <1>4, <2>2 DEF RecvConfirmation, ClientExpected
    <2>3. CASE RecvData \/ RecvClose \/ RecvNothingToDo
      BY <1>1, <1>2, <1>4, <2>3 DEF RecvData, RecvClose, RecvNothingToDo, Looping
    <2> QED
      BY <2>1, <2>2, <2>3
  <1> QED
    BY <1>5, ClientLateSync DEF Fit

\* The client goes on without having read a packet.
LEMMA UnpromptedSync ==
    ASSUME IInv, SyncInv, pc[C] \in Past, out[C] = <<>>, NEW next \in Keyed, NEW m, Later(m),
           pc' = [pc EXCEPT ![C] = next], out' = [out EXCEPT ![C] = <<m>>],
           UNCHANGED <<kex, inbox, reset, noise>>,
           keys'[S] = keys[S], keys'[C].send_seq = keys[C].send_seq,
           keys'[C].recv_seq = keys[C].recv_seq
    PROVE  SyncInv'
  <1> SUFFICES ASSUME noise = 0 PROVE Steps' /\ \A p \in Peer : Numbers(p)'
    BY DEF SyncInv
  <1>1. Steps /\ (\A p \in Peer : Numbers(p))
    BY DEF SyncInv
  <1>2. /\ pc'[C] = next /\ pc'[S] = pc[S] /\ out'[C] = <<m>> /\ out'[S] = out[S]
        /\ inbox' = inbox /\ reset' = reset /\ kex' = kex /\ Elems(<<m>>) = {m}
        /\ m.type # "Version" /\ Genuine(C, m) /\ next \in Past
        /\ next \notin {"activate", "done", "version"} /\ pc[C] \notin {"version", "done"}
    BY Parties, ReadyFacts, ElemsShort, LaterGenuine DEF Keyed, Past
  <1>3. Contributed'
    <2>1. ASSUME NEW p \in Peer
          PROVE  /\ \A x \in Elems(out'[p]) : Genuine(p, x)
                 /\ \A f \in Elems(inbox'[Other(p)]) : Genuine(p, f.msg)
      BY <1>1, <1>2, Parties DEF Steps, Contributed
    <2> QED
      BY <2>1 DEF Contributed, Genuine
  <1>4. Told'
    BY <1>1, <1>2, ClientTold DEF Steps, Told, Past
  <1>5. ServerWaits'
    BY <1>1, <1>2, Parties DEF Steps, ServerWaits
  <1>6. ClientSwitches'
    <2>1. Announced' <=> Announced
      BY <1>2 DEF Announced
    <2>2. reset \/ pc[S] = "done" \/ Announced
      BY <1>1 DEF Steps, ClientSwitches, Keyed
    <2> HIDE DEF Announced
    <2> QED
      BY <1>2, <2>1, <2>2 DEF ClientSwitches
  <1>7. ASSUME NEW p \in Peer PROVE OneVersion(p)'
    <2>1. CASE p = C
      <3>1. OneVersion(C) /\ Other(C) = S
        BY <1>1, Parties DEF Steps
      <3> QED
        BY <1>2, <2>1, <3>1 DEF OneVersion
    <2>2. CASE p = S
      <3>1. OneVersion(S) /\ Other(S) = C
        BY <1>1, Parties DEF Steps
      <3> QED
        BY <1>2, <2>2, <3>1 DEF OneVersion
    <2> QED
      BY <2>1, <2>2, Parties
  <1>8. ASSUME NEW p \in Peer PROVE Numbers(p)'
    <2>1. /\ inbox[p] \in Seq(Frames) /\ Numbers(p) /\ IsFront(inbox'[p], inbox[p])
          /\ keys'[p].recv_seq = keys[p].recv_seq
          /\ keys'[Other(p)].send_seq = keys[Other(p)].send_seq
          /\ pc'[Other(p)] # "done" => pc[Other(p)] # "done"
          /\ pc'[p] # "done" => pc[p] # "done"
      BY <1>1, <1>2, ReadyFacts, FrontSelf, Parties
    <2>2. On(p)' = On(p) \/ inbox'[p] = <<>>
      <3>1. CASE p = S
        BY <1>2, <3>1 DEF On
      <3>2. CASE p = C /\ pc[C] = "activate"
        BY <1>1, <1>2, <3>2 DEF Steps, ServerWaits
      <3>3. CASE p = C /\ pc[C] # "activate"
        BY <1>2, <3>3 DEF On, Keyed
      <3> QED
        BY <3>1, <3>2, <3>3, Parties
    <2> QED
      BY <1>2, <2>1, <2>2, NumbersFront
  <1> QED
    BY <1>3, <1>4, <1>5, <1>6, <1>7, <1>8 DEF Steps

LEMMA ClientSync ==
    ASSUME IInv, SyncInv, ClientStep
    PROVE  SyncInv'
  <1>1. ClientNext
    BY DEF ClientStep
  <1>2. CASE ActivateKeys
    <2> DEFINE m == SshPacket("ServiceRequest", <<"ssh-userauth">>, <<>>)
               h == KexComplete(C, kex[C])
               k == WithKeys(keys[C], ClientToServer(h), ServerToClient(h))
    <2>1. Later(m) /\ k.send_seq = keys[C].send_seq /\ k.recv_seq = keys[C].recv_seq
      BY Parties, CountedSeqs DEF Later, SshPacket
    <2>2. /\ pc[C] \in Past /\ out[C] = <<>> /\ "accept" \in Keyed
          /\ pc' = [pc EXCEPT ![C] = "accept"] /\ out' = [out EXCEPT ![C] = <<m>>]
          /\ UNCHANGED <<kex, inbox, reset, noise>> /\ keys' = [keys EXCEPT ![C] = k]
      BY <1>2 DEF ActivateKeys, Past, Keyed
    <2> HIDE DEF m, k
    <2>3. keys'[S] = keys[S] /\ keys'[C] = k
      BY <2>2, Parties, ReadyFacts
    <2> QED
      BY <2>1, <2>2, <2>3, UnpromptedSync
  <1>3. CASE SendLine
    <2> DEFINE m == SshPacket("ChannelData", <<"line">>, <<remote_id, 1>>)
    <2>1. Later(m)
      BY DEF Later, SshPacket
    <2>2. /\ pc[C] \in Past /\ out[C] = <<>> /\ "interactive" \in Keyed
          /\ pc' = [pc EXCEPT ![C] = "interactive"] /\ out' = [out EXCEPT ![C] = <<m>>]
          /\ UNCHANGED <<kex, inbox, reset, noise, keys>>
      BY <1>3, ReadyFacts DEF SendLine, Interactive, Past, Keyed
    <2> HIDE DEF m
    <2> QED
      BY <2>1, <2>2, UnpromptedSync
  <1>4. CASE ServerGone
    <2>1. Later(disconnect)
      BY DEF Later, SshPacket, disconnect
    <2>2. /\ pc[C] \in Past /\ out[C] = <<>> /\ "bye" \in Keyed
          /\ pc' = [pc EXCEPT ![C] = "bye"] /\ out' = [out EXCEPT ![C] = <<disconnect>>]
          /\ UNCHANGED <<kex, inbox, reset, noise, keys>>
      BY <1>4 DEF ServerGone, StreamEnded, Reading, Looping, Past, Keyed
    <2> QED
      BY <2>1, <2>2, UnpromptedSync
  <1>5. CASE ReturnOk
    BY <1>5, Parties, ReturnCuts, CutsSync DEF ReturnOk
  <1>6. CASE ClientRejects
    <2>1. \E r : Rejected(C, r)
      BY <1>6 DEF ClientRejects
    <2> QED
      BY <2>1, Parties, RejectedSync
  <1>7. CASE ClientIo
    BY <1>7, Parties, IoSync DEF ClientIo
  <1> QED
    BY <1>1, <1>2, <1>3, <1>4, <1>5, <1>6, <1>7, ClientVersionSync, ClientKexInitSync,
       ClientReplySync, ClientNewKeysSync, ClientLoopSync DEF ClientNext

-----------------------------------------------------------------------------
LEMMA InitSync == Init => SyncInv
  <1> SUFFICES ASSUME Init PROVE SyncInv
    OBVIOUS
  <1> DEFINE m == SshPacket("Version", <<SSH_VERSION_STRING>>, <<>>)
  <1>1. /\ m.type = "Version" /\ m.text = <<SSH_VERSION_STRING>>
        /\ \A p \in Peer : /\ pc[p] = "version" /\ out[p] = <<m>> /\ inbox[p] = <<>>
                           /\ keys[p] = NewSessionKeys
    BY DEF Init, TransportInit, SshPacket
  <1> HIDE DEF m
  <1>2. /\ Elems(<<m>>) = {m} /\ Elems(<<>>) = {} /\ DOMAIN <<>> = {} /\ <<m>> # <<>>
        /\ DOMAIN <<m>> = {1} /\ <<m>>[1] = m
    BY ElemsShort
  <1>3. pc[C] = "version" /\ pc[S] = "version" /\ inbox[C] = <<>> /\ out[S] = <<m>>
    BY <1>1, Parties
  <1>4. Contributed
    BY <1>1, <1>2, Peers DEF Contributed, Genuine, Own
  <1>5. Told
    BY <1>3 DEF Told
  <1>6. ServerWaits
    BY <1>1, <1>2, <1>3 DEF ServerWaits, Past
  <1>7. ClientSwitches
    BY <1>3 DEF ClientSwitches, Keyed, Past
  <1>8. \A p \in Peer : OneVersion(p)
    BY <1>1, <1>2, Peers DEF OneVersion
  <1>9. ASSUME NEW p \in Peer PROVE Numbers(p)
    <2>1. /\ inbox[p] = <<>> /\ Len(inbox[p]) + 1 = 1 /\ DOMAIN inbox[p] = {} /\ <<0>>[1] = 0
          /\ keys[p].recv_seq = 0 /\ keys[Other(p)].send_seq = 0
      BY <1>1, <1>2, Peers DEF NewSessionKeys
    <2>2. Numbered(p, <<0>>)
      BY <2>1 DEF Numbered, Chain
    <2> QED
      BY <2>2 DEF Numbers
  <1> QED
    BY <1>4, <1>5, <1>6, <1>7, <1>8, <1>9 DEF SyncInv, Steps

LEMMA NextSync == IInv /\ SyncInv /\ [Next]_vars => SyncInv'
  <1> SUFFICES ASSUME IInv, SyncInv, [Next]_vars PROVE SyncInv'
    OBVIOUS
  <1>1. CASE UserStep
    BY <1>1, SteadyCuts, CutsSync DEF UserStep, User, TypeLine, StdinEof
  <1>2. CASE UNCHANGED vars
    BY <1>2, SteadyCuts, CutsSync DEF vars
  <1>3. CASE Network
    <2>1. CASE Break
      BY <2>1, BreakCuts, CutsSync
    <2>2. CASE Damage(C) \/ Damage(S)
      <3>1. noise' # 0
        BY <2>2 DEF Damage, IInv, TypeInv, TypeOK, TransportTypeOK
      <3> QED
        BY <3>1 DEF SyncInv
    <2> QED
      BY <1>3, <2>1, <2>2 DEF Network
  <1> QED
    BY <1>1, <1>2, <1>3, ServerSync, ClientSync DEF Next, Finished

\* As long as nothing on the connection is damaged, whatever has arrived at a
\* side that is reading verifies under the keys and the number it has at that
\* moment, for every range of the sequence numbers: RecvClientNewKeys and
\* ActivateKeys switch to the same keys at the same packet of each direction,
\* and send_packet and recv_packet count alike.
THEOREM StreamsInSync == Spec => []InSync
  BY Invariance, InitSync, NextSync, SyncAccepts, PTL DEF Spec
=============================================================================
