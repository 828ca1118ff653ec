# SwiftSSH in TLA+

A model of SwiftSSH (`src/`): an SSH-2 client and server in Rust on tokio, with
key exchange, packet protection, password and public-key authentication,
channels and an SFTP subsystem. The modules describe what the code does, TLC
checks them on small instances, and TLAPS proves most of the safety properties
for all instances. Where the code and one of its own comments disagree, a run shows
the disagreement as a counterexample.

Source paths are relative to the repository root: `src/src/bin/server.rs` below
is written `bin/server.rs`, and so on.

## 1. The system

| Component | State it keeps | Operations | Talks to |
|---|---|---|---|
| packet codec (`packet/codec.rs`) | none | `serialize`, `deserialize`, the `SshBuf` field readers and writers | packet I/O, every parser |
| packet I/O (`transport/io.rs`) | the TCP stream; `SessionKeys` by reference | `send_packet`, `recv_packet`, `send_version_string`, `recv_version_string` | both programs |
| session keys (`session/mod.rs`) | two sequence numbers that wrap, ciphers, MAC keys | `next_send_seq`, `next_recv_seq`, `is_encrypted` | packet I/O |
| key exchange (`transport/kex.rs`) | ephemeral secret | `KexClient::complete`, `KexServer::complete`, `compute_exchange_hash`, `build_kexinit_payload` | both programs |
| crypto (`crypto/mod.rs`) | AES-CTR keystream positions | `derive_key`, `CipherPair`, HMAC | packet I/O, both programs |
| user authentication (`auth/mod.rs`) | `UserDatabase`, fixed at start-up | `verify_password`, `is_key_authorized`, request builders and parser | server, client |
| channel manager (`connection/mod.rs`) | channels by local id, next id, windows, buffers, flags | open, accept, confirm, find, window operations; builders and parsers of channel messages | server, client |
| server connection (`bin/server.rs`) | one task per connection: its place in the protocol, keys, channels, SFTP server | `handle_connection`; an arm of the channel loop per message | client over TCP, SFTP |
| client (`bin/client.rs`) | its place in the protocol, keys, one channel, a stdin task with an mpsc channel | `run_client` in three modes: a command, interactive, neither | server over TCP |
| SFTP (`sftp/mod.rs`) | open handles; the directory tree shared by all connections | a handler per SFTP request, `resolve_path` | server, file system |
| errors (`error/mod.rs`) | none | `SshError`, the variants a program can end with | everything |

How they interact: client and server are two tasks joined by one TCP
connection. Each writes the packets of a step, one `send_packet` after another,
then waits in one `recv_packet`. Nothing carries the sequence number, the
keystream position or the moment at which keys change: both sides have to
arrive at them by themselves. The interactive client has two more actors: a task that
reads lines from stdin into an mpsc channel of 32, and a `tokio::select!`
between that channel and `recv_packet`. Connections of one server share only the
SFTP directory.

### What is hard here

* **Framing.** `recv_packet` reads in three `read_exact` calls that may stop at
  any byte; one byte too many or too few makes every later packet unreadable.
* **Key change.** Each side switches both directions of its keys at one moment
  of its own, while packets of the other are under way.
* **Damage before the first MAC.** Handshake packets are not protected; only
  the exchange hash can make two different views visible.
* **Order.** A client may pipeline packets; authentication must hold in any
  order, and replies must match requests on several channels.
* **The end.** Programs return while packets are in both directions. TCP then
  sends an RST, which may discard packets already sent.
* **Cancellation.** `select!` drops a `recv_packet` that has read half a packet.
* **Limits.** Output larger than a packet, the peer's window, the 32-line mpsc
  channel, sequence numbers at 2^32.
* **One directory, many connections.** An SFTP request resolves a path, then
  uses it, and every READ and WRITE opens its file anew. In between another
  connection may have removed the file, made it again, made a directory of its
  name or, with a command of its user, a symbolic link; and a request may fail
  half way, with some of its bytes written.
* **Packets in packets.** SFTP packets have a length prefix of their own and
  need not begin and end where CHANNEL_DATA does.

`PROJECT.json` lists these hazards with their lines and the properties aimed at
each.

### What makes each component correct

* codec: a packet that `serialize` accepts is read back whole, without
  underflow, with its payload (`LayoutRoundTrips`, proved).
* packet I/O: the byte stream is a queue of packets, whatever the moments at
  which bytes arrive (`ImplementsQueue`, proved), and never loses its place
  (`NeverDesynchronised`, proved).
* keys and key exchange: what arrives is readable (`InSync`); a server accepts a
  service request only from a client with the same view (`AgreeBeforeService`).
* authentication: no channel before a valid credential (`LoginChecked`,
  `LoginFirst`).
* channels: replies match requests (`RepliesMatch`), a confirmed channel is
  known (`KnownChannel`), a channel is closed after its output
  (`CloseAfterOutput`).
* windows: the two ends agree on the credit (`Conserved`), what
  `consume_remote_window` lets through does not overflow the other end's window
  (`NeverRefused`), buffers are bounded (`BufferBounded`).
* SFTP: nothing outside the root is touched (`Confined`, `AcceptedInside`), handles stay good
  (`HandlesKept`), acknowledged bytes stay (`WritesKept`, `WritesAddUp`) and are read
  back (`ReadsSeeWrites`), attributes are those of the file (`AttrsReadable`), every
  packet is answered (`SftpAnswered`).
* sessions: both sides go through the phases in step (`ImplementsLifecycle`), they
  end (`Terminates`, `InteractiveTerminates`), and a good end means complete output
  (`OkMeansComplete`).

## 2. The modules

```
PacketQueue  <--refines--  PacketIo  --EXTENDS-->  PacketLayout
                              ^                         ^
                       InteractiveIo                    |
                      FlowControl --> Connection    Transport
                                            \    /    \
                                            Server    Client (with Connection)
                                            /    \    /
                                      AnyClient  Session  --refines-->  Lifecycle

Paths, FileAttrs  <--EXTENDS--  Sftp
```

* **PacketLayout** - the lengths `serialize` produces, `recv_packet` asks for and
  `deserialize` accepts, as operators. Contents are left out.
* **PacketQueue** - the abstract specification of one direction of the packet
  layer: packets are received in the order they were sent, each once.
* **PacketIo** - one direction, byte by byte. `stream` holds the frames written,
  `off` the bytes of the first one already consumed. `SendPacket` is
  `send_packet`; `ReadMore`, `FirstBlockRead`, `RestRead`, `MacRead` and
  `ReadEof` are the places where `recv_packet` can be. `encPos`/`decPos` are the
  keystream positions, `send_seq`/`recv_seq` the numbers under the MAC. A block
  that is not on a packet boundary, or decrypted from the wrong position, is
  noise, and the reader has `failed`.
* **InteractiveIo** - PacketIo plus `CancelRecv`, the `select!` of the interactive
  client dropping a `recv_packet` that waits for bytes.
* **Transport** - what the two programs share, one packet per step (PacketIo
  justifies that): `out` is what a handler still has to write, `inbox` the
  frames on their way, `keys` the `SessionKeys`, `kex` what a side learned in
  the key exchange. Writing, reading, all ways in which reading fails,
  returning (with its RST) and the network's faults are here.
* **Connection** - `ChannelManager` as operators on a record, one per method that
  changes it; a method that may refuse has a second operator for its condition.
* **FlowControl** - the window operations of two managers against each other,
  called in any order: data is sent when `consume_remote_window` agrees and taken
  with `receive_data`, `adjust_local_window` makes room and a WINDOW_ADJUST tells the
  other end, and `remove_channel` comes at any time. It is about the library: the
  programs read no `recv_buffer`, send no WINDOW_ADJUST and remove no channel, so the
  actions are marked external, no fairness is assumed of them and nothing is
  said of what eventually happens. The channel has number 0 at one end and 1 at
  the other.
* **Server**, **Client** - `handle_connection` and `run_client`, an action per
  packet handled; `pc` is the `recv_packet` a program waits in. An action is the
  whole handler: the state it changes and all packets it goes on to write, in
  order. The writes themselves are steps of their own, because the other side
  runs between them.
* **Session** - both programs on one connection.
* **Lifecycle** - the abstract specification of a session: the phases of the enum
  `SessionState`, and how far the other side must be when one enters a phase.
  Neither program keeps a `SessionState`; `ServerPhase` and `ClientPhase` read it off `pc`.
* **AnyClient** - the server against a client of any make, which sends packets of
  every kind in any order without waiting for answers. The key exchange, which
  leaves no such freedom, is behind it; the login is behind it in some
  behaviours and not in others (`Starts`). `awaiting` and `sftp` are the channels of the
  requests and of the SFTP packets that have no answer yet. `Whole` describes the
  clients that send each SFTP packet in a CHANNEL_DATA of its own.
* **Paths** - `resolve_path` on sequences of components, over a map of what exists and
  a map of the symbolic links; `Follow` and `Entry` are what a system call makes of a
  path that was resolved earlier, with the links there are by then.
* **FileAttrs** - the struct, its `encode` by fields and its `decode` by flags.
* **Sftp** - a `SftpHandler` per connection over one file system. `handler` holds the
  open handles, `fs` maps paths to directories and inodes, `links` the symbolic links
  to where they lead, `data` inodes to bytes, `job` is what a request has still to do
  after its first system call. `handle_x` is the handler of that name; its first
  disjunct resolves the path, or opens the file or directory, and the others do
  the rest: a READDIR reads its entries one by one (`ReaddirReads`), a WRITE writes
  all of its bytes (`WriteWrites`) or fails after some (`WriteStops`). `Located` is what the
  path of a request names when its call is made. `ExecMakesLink` is a user's command
  (`ln -s`). `acked` is no state of the code: it remembers the bytes of WRITEs answered
  OK and not overwritten, removed or truncated by somebody else since.
* **MCPacketIo**, **MCSession**, **MCAnyClient**, **MCSftp** - values for TLC.
* **PacketLayout_proofs**, **PacketIo_proofs**, **FlowControl_proofs**,
  **Transport_proofs** (lemmas on the steps of Transport), **Session_proofs**,
  **SessionOrder_proofs**, **AnyClient_proofs**, **Sftp_proofs** - theorems and the
  lemmas they rest on.

Operators whose comment begins with "Faulty" are wrong variants of the
definition that follows them. Nothing uses them: they are there to be put in
its place, to see that the properties notice.

### What is abstracted

* Cryptography is symbolic. The exchange hash is the tuple of its inputs and a
  derived key the letter with that tuple, so equal keys mean equal inputs. The
  session id is the hash itself, since keys are exchanged once. The shared
  secret is the set of the two public keys.
* A packet is its type, its strings, its numbers and `want_reply`. A field a parser
  would refuse is the string `"short"`. The message `KexInit` is one opaque string: the
  code never reads the lists in it. Maximum packet sizes of channels, which
  nothing reads either, are left out.
* Sequence numbers wrap at `SeqMod` instead of 2^32, and `U32_MAX` is 2^31 - 2 for TLC.
* The network loses nothing and reorders nothing as long as the connection
  lives (TCP). `Damage` changes one field, the type or, under a MAC, the MAC of a
  frame; a damaged length field, which makes the reader wait for bytes or take
  those of the next packet, is not among the damages. `Break` cuts the
  connection, and some prefix of what is under way still arrives.
* A socket closed with unread bytes in it sends an RST: the other side may lose
  packets it has not yet read. Writing to a closed socket succeeds until the
  RST is noticed. Both are how TCP treats the drops in the code, and are marked
  external.
* Under the wrong key a packet ends in `MacMismatch`, `InvalidPacket` or in the
  arithmetic underflow of `total - block_size` (a panic with overflow checks).
* Cancellation of `recv_packet` is modelled byte by byte only, in
  InteractiveIo; in Session the interactive client's `recv_packet` is one step.
* To Server an SFTP request is answered with a response of some size. The bytes
  of a CHANNEL_DATA are named by the pieces of SFTP packets they are: a whole
  one, the first few bytes of one, the rest of one, or text. What looks like a
  length prefix in the middle of a packet is left open (`TakenForRequest`).
* In Sftp a file is a short sequence of bytes, each of which names its writer. Of
  what commands run by `exec` do to the tree, only the making of symbolic links is
  modelled, because they are what `canonicalize` is there for; a link leads to a path
  on which there is no other link (`LinkAssumption`). That commands also change and
  remove files is left out: no property here survives a program that does as it
  likes.
* A READDIR sees the entries there were when the directory was opened; one that
  appears later may or may not be listed in the code. An entry whose `metadata()`
  fails, because it was removed in between or for any other reason, has the
  default attributes, and one that cannot be read at all is left out.
* `next_handle` is a `u32` that wraps at `U32_MAX` (a release build; a debug build panics
  instead). The theorems about SFTP assume that fewer requests are made (`NoWrap`).
* `SystemFails` is any failure of the call a request is about to make; opening a
  file for a READ or a WRITE may fail for any reason, and then changes nothing.
* Request ids, which every handler copies into its answer, are left out, as are
  the texts of STATUS.

## 3. What TLC checks

| Run | Question | States | Outcome |
|---|---|---|---|
| `packet_stream` | Three encrypted packets, any arrival of bytes: does the reader stay in step, return everything and implement `PacketQueue`? | 8 k | holds |
| `packet_cancelled` | The same when `select!` drops `recv_packet` | - | **violated** |
| `session` | All three modes, right and wrong password, two damaged packets, a connection that may break: are packets readable, do both sides agree, is the login checked, does output come before the close, do they implement `Lifecycle` and end? | 124 k | holds |
| `session_truncated` | Does a client that ends well have all the output? | - | **violated** |
| `session_interactive_end` | Does an interactive session end after its input? | - | **violated** |
| `any_client` | Four pipelined packets of any kind, before and after the login, on two channels: a channel before login? Are requests and SFTP packets answered, are channels known? | 1.6 M | holds |
| `any_client_numbers` | The same for a client that numbers its channels from 1 | - | **violated** |
| `any_client_split` | Are SFTP packets answered that do not each fill a CHANNEL_DATA? | - | **violated** |
| `sftp` | Two connections, four requests, system calls interleaved and failing, a link that leads to a place below the root and comes and goes: root, handles, bytes, attributes | 0.6 M | holds |
| `sftp_links` | Does a path that `resolve_path` accepts lead to a place below the root, if a link leads out of it? (`AcceptedInside`) | - | **violated** |
| `sftp_truncates` | Do the writes through one handle add up? | - | **violated** |
| `flow_control` | Two ends, both sending, reading and removing the channel: credit, overflow, buffers | 14 k | holds |

### Bounds, and why they are enough

* Payload lengths 0, 10 and 11: padding is smallest at 10 for both block sizes and
  largest at 11, so packets end exactly on, just before and just after a block.
  Three packets: one before, one after and one in between. The proofs remove
  both bounds, and the restriction to encrypted packets.
* `SeqMod = 4`: the counters wrap during the handshake and again afterwards, and
  there are still fewer packets under way than numbers, as in the code.
* Two damages: one on each side of the same handshake, or a damage and its
  echo. Three commands: no output, some, more than a packet holds.
* Three lines and room for two: the mpsc channel is full once.
* `MaxSent = 4`: from the service request on it is the shortest path to a channel
  (service, auth, open) with one packet out of place anywhere; from the loop on
  it is two channels and two messages on them, or one channel and three.
  Channel number 7 is one the client never opened.
* Sftp: four requests of two connections together are, for instance, an OPEN, a
  WRITE, a REMOVE by the other connection and a WRITE through the handle that
  outlived its file, or an OPEN, a WRITE, another OPEN and a READ. The paths are
  the root, a name in it that becomes a file or a directory, the three ways by
  which a path leaves the root, and three that go over a link. There is one
  link, in the root and to the root, so that each file has two paths and the
  link may be at the end of a path, in the middle, before a `..`, or missing; in
  `sftp_links` it leads to `/`. `READ_MAX` is 1 and reads ask for 2, so that the limit is
  met; four inodes are never used up. A WRITE has two bytes, of which it may
  write both, one or none, at offsets 0 and 1, so that WRITEs overlap in part.
  `U32_MAX` is 4: one connection can use up its handles.
* A window of 5 and a `U32_MAX` of 6: packets of every size up to the window, and
  an addition of two windows would saturate.
* The `sftp` run drops `answer` from the fingerprint (`VIEW`): no action reads it, and
  the properties only its value after a step. The two connections are
  interchangeable (`SYMMETRY`); the properties of that run are safety properties.
* Deadlock is not checked where programs wait legitimately (the packet bound is
  reached, the client has nothing more to say, an interactive session after its
  input, the SFTP requests or the data are used up). What matters of it is
  stated: `Terminates` says that every other session ends.

### Fairness

`Session!FairSpec`: weak fairness of each program (tokio polls a task whose socket is
ready, TCP delivers what was written; a write never blocks for good because the
other side reads or closes) and of the end of input, which the user brings
about. Nothing is assumed of the network's faults and of typing. `Terminates` also
assumes that every executed command ends: `execute_command` awaits its output without
a timeout, and `RecvExec` is one step.
`PacketIo!FairSpec`: weak fairness of the reader and of the writer's eventual
close. The violation of `InteractiveTerminates` is under the same fairness. Sftp and
FlowControl assume no fairness.

### Where code and comment disagree

1. `packet_cancelled` (`bin/client.rs:304`): a line ready on stdin while a packet is
   half read drops the half. The next `recv_packet` takes the middle of a packet
   for its beginning, with the cipher where it was.
2. `session_truncated` (`bin/server.rs:330`): the output is one packet. If it is too large the
   server returns an error and the client, for which the end of the connection
   is a normal end, returns `Ok` having printed nothing.
3. `session_interactive_end` (`bin/client.rs:303`): after the end of input only
   `recv_packet` is left in the `select!`; the server's shell is a placeholder that never
   closes the channel. Both wait.
4. `any_client_numbers` (`bin/server.rs:312`): `recipient_channel` is the server's number,
   but it is looked up among the client's. The two agree only if the client
   counts from 0 as the server does (SwiftSSH's own client does).
5. `any_client_split` (`bin/server.rs:434`): an SFTP packet is answered only if it begins a
   CHANNEL_DATA and lies in it whole. A second one behind it, or one that is
   split, is dropped, and its sender waits.
6. `sftp_links` (`sftp/mod.rs:268`): a path that `canonicalize` does not find is normalised
   by its text alone ("by resolving the parent", says the comment). If a
   directory on its way is a link that leads out of the root, the path is below
   the root in its text and outside it in the file system. What exists behind the
   link is found and denied; what does not exist yet is accepted.
7. `sftp_truncates` (`sftp/mod.rs:522`): WRITE opens the file with the flags of OPEN, so with
   `SSH_FXF_TRUNC` each WRITE empties the file that the one before has filled.

One more is visible in Session without a run of its own: `closed`, which
`bin/server.rs:474` tests ("if we haven't already"), is never set, so the CHANNEL_CLOSE after
`exec` is followed by a second one when the client answers it (`RecvChannelClose`). The
client has printed its output and returned by then; `CloseAfterOutput` and
`Terminates` hold in spite of it.

## 4. What is proved

Everything below holds for every value of the constants that satisfies the
modules' named assumptions, which TLC evaluates in the runs. What they ask:

| Assumption | Asks | Why the code justifies it |
|---|---|---|
| `PacketIoAssumption`, `TransportAssumption` | lengths and bounds are naturals, counters wrap at some number | `usize`, `u32` |
| `ConnectionAssumption`, `FlowControlAssumption` | a `u32` is not only 0, the default window is a `u32` | they are constants of `connection/mod.rs` |
| `WordsAssumption` | the strings the programs write themselves are texts | they are literals |
| `ServerAssumption`, `ClientAssumption`, `SessionAssumption` | passwords and arguments are texts, a command has an output | `execute_command` returns a string, be it empty or that the program could not be run |
| `AnyClientAssumption` | what the client may send is what a packet can carry | the client is arbitrary within that |
| `PathsAssumption` | the root is absolute, not `/`, and has no `..` in it | `sftp_root` is `/tmp/swiftssh` (`bin/server.rs:49`) |
| `SftpAssumption` | `READ_MAX > 0`, `Beside` is not below the root | 32768; `Beside` is the witness for the rest of the file system |
| `LinkAssumption` | links are made below the root and lead to absolute paths without links | a path over several links is that over one; links elsewhere on the way to the root are the administrator's |

No invariant of section 3 is inductive as it stands. For each component the
inductive invariant was first checked by TLC on the component's run; every
action has a lemma that it preserves it.

### Packet layer

* `LayoutRoundTrips` (PacketLayout_proofs): for every length and both block
  sizes, what `serialize` accepts the reader takes off the stream exactly, the
  subtraction in `recv_packet` does not underflow, `deserialize` finds the payload, and
  the padding fits a byte and is aligned. The argument is the lemma
  `PaddingFacts`: the padding is between 4 and 3 + block size and makes the packet a
  multiple of the block, hence at least one block without its length field.
* `TypeCorrect`, `Synchronised`, `ClosedComplete` (PacketIo_proofs): `TypeOK`,
  `NeverDesynchronised` and `ClosedAfterAll` are invariants.
* `Refinement`: PacketIo implements PacketQueue.

"The reader has not failed" says nothing of the state before the failure, so
the inductive invariant says where the reader is: `StreamInv`: the frames on the
stream are numbered consecutively from the last one returned, their keystream
positions follow one another without a gap and end at the writer's.
`ReaderInv`: in each of the three reads, `off`, `got` and `need` point at the same
byte of the first frame, and `decPos` and `recv_seq` are what that place demands.
`InteractiveIo!CancelRecv` is just the step that breaks `ReaderInv`.

### Flow control

`TypeCorrect`, `CreditConserved`, `NobodyRefused`, `BuffersBounded` (FlowControl_proofs), for
every window and every width of the integers, of the operations of
`ChannelManager` in any order. The inductive invariant says per channel and end that the
window covers what is on its way and that buffer and window together do not
exceed the default window (the second half is why `saturating_add` never saturates),
and that the two ends agree on the credit; once one end has removed the channel,
the window of the other still covers what is on its way to it.

### Session

* `TypeCorrect` (Session_proofs): the types of both programs' state; in particular
  every packet a program takes fields out of has them.
* `KeysAgree` (`AgreeBeforeService`), `PasswordChecked` (`LoginChecked`).
* `Refinement`: Session implements Lifecycle, step by step, under the mapping of
  `ServerPhase` and `ClientPhase`.

The invariant is `TypeInv /\ InStep /\ KeyInv /\ LoginInv`. `InStep` ties how far one side
is to how far the other must be, through the packets that are under way
between them; the refinement is little more than that. `KeyInv`: keys that are
on were derived from that side's own view of the exchange, and a frame on its
way to the server was enciphered with the client's keys or in the clear. A
server with keys on reads only frames under its own; keys are equal only if the
views are, whatever was damaged. `LoginInv`: a success under way to the client was
written by a server that had verified the credentials the client presents, and
those are the ones of its command line.

SessionOrder_proofs has the two that are about order, on top of that invariant:

* `StreamsInSync` (`InSync`): with `noise = 0` every frame that arrives is readable.
  The invariant `SyncInv` has for each direction a sequence of numbers, one per frame on
  its way and one more (`Numbers`): it begins with the reader's `recv_seq`, each number
  follows the one before modulo `SeqMod` (a version string has none), it ends with the
  writer's `send_seq` as long as the writer's packets still arrive, and the MAC of a
  protected frame is over its number. Frames up to a NEWKEYS are in the clear and
  those behind it under the keys the reader will have switched on by then
  (`Chain`). That needs where the two tasks can be (`Steps`): undamaged views of the
  exchange agree (`Contributed`, `Told`), NEWKEYS is the last packet in the clear of
  either side (`ServerWaits`, `ClientSwitches`), so that nothing is on its way to a client
  in `activate`, which has not switched its keys on yet.
* `OutputComplete` (`CloseAfterOutput`): no assumption on damage or loss. The invariant
  `OutputInv` is about the packets a side has still to read, those its partner has
  not written yet included (`Flow`): at most one request is on its way; until the
  server has taken it, nothing is printed and neither output nor a close is
  coming; afterwards the output is one packet in front of every CHANNEL_CLOSE,
  or printed (`Asked`, `Ordered`). Damage in the handshake must not make such packets
  (`Kinds`: they are under a MAC), and a lost tail takes the close with the output.

### Any client

* `CredentialsFirst` (AnyClient_proofs): `LoginFirst`, for any number of packets. It
  needs that a request on its way that the server will grant was counted
  (`Vouched`).
* `ConfirmedKnown`: `KnownChannel`, for a client that numbers its channels from 0
  (`FirstId = 0`, as SwiftSSH's own does) and opens at most `U32_MAX` of them, so that
  the manager's `next_id` does not wrap. Both are hypotheses of the theorem: the run
  `any_client_numbers` shows that it fails without the first. The invariant has
  to follow the numbers through the connection: the CHANNEL_OPENs on their way
  name the numbers that follow the server's `next_id`, in order and without a gap
  (`OpensInOrder`), so each is accepted under the number it names (`SameNumbers`);
  then what a confirmation names is known (`Confirms`), and what the client sends
  to a confirmed channel finds it (`Addressed`).
* `RequestsAnswered` (`RepliesMatch`) and `SftpPacketsAnswered` (`SftpAnswered`), under the same two
  hypotheses, since a client that counts from 1 expects answers on numbers the
  server never uses. The second has one more, `Whole`: a CHANNEL_DATA begins with an
  SFTP packet or holds none, and none goes on in the next; the run
  `any_client_split` shows that it fails without.

Neither property is inductive: it compares the answers under way with what the
client expects, and says nothing of the questions under way. The invariant
`AnswerInv` is a balance: as long as the server runs, the channels the client expects
answers from are those of the answers on their way back followed by those of
the questions on their way there (`RepliesInv`, `SftpInv`). The server takes the first
question and appends its answer (`Served`, a lemma per action); the client appends
to both sides (`Asks`) or removes from both fronts. When the server has returned,
answers may be lost at the end but not in the middle. `Calm` adds what keeps
answers from getting lost before: the client does not return and there is no
RST while the server runs, which needs that every packet of the client fits.

The channels on their way are selected by `FlattenSeq` of the community modules (the
prover knows nothing of `SelectSeq`). What it does to an appended packet, to a
removed one and to a concatenation is proved from its recursive function by the
least counterexample (`RunsExist`, `FlattenRuns`, `FlattenJoined`).

### SFTP

For any number of connections, files and paths, and for fewer requests than a
`u32` can count (`NoWrap`, a hypothesis of every theorem of Sftp_proofs):

* `TypeCorrect`, `AcknowledgedStay` (`WritesKept`), `HandlesStable` (`HandlesKept`),
  `ReadsShowWrites` (`ReadsSeeWrites`), `AttributesDecode` (`AttrsReadable`);
* `NothingOutside` (`Confined`), under a second hypothesis: no link that users make leads
  out of the root (`LinksInside`). The run `sftp_links` shows why: `resolve_path`
  itself accepts paths that such a link leads outside.

That is all the run `sftp` checks. The invariant `IInv` adds to the types that no
two paths share an inode (`OneName`: paths without links), that the inode a request
has open is that of no path but its own (`JobOK`: the file may be gone, and
its inode is not given to another while it is open), and that an acknowledged
WRITE knows whether its handle truncates (`AckOK`), which is what is left to say when
that handle empties the file. `CountInv` keeps each handle counter behind the number
of requests made, strictly while a request is in progress, which is why it does
not wrap under `NoWrap`; `LinkInv` says that the links are among those users make. The
three action properties follow from these and a case distinction over who
answers what; for `AttrsReadable` that is the reading of one entry, after which the
listing only carries it along.

`Confined` is not about the path `resolve_path` returns but about what it names later.
Two facts meet. `resolve_path` lets only paths through that begin with the root: its
last test compares with the root as `canonicalize` or `normalize_path` returns it, so one
must know that this is the root itself (`NormalizedRoot`, `CanonicalRoot`). And following
the links of any later moment from such a path leads nowhere else: no link is
on the way to the root, and behind it each leads below it again (`FollowAlong`,
`FollowBelow`, `EntryBelow`). The invariant `ConfInv` keeps the first fact for the paths in
handles and requests, and says that nothing outside has changed.

All of these are folds over the components. The prover has no induction rule
that it can apply to an operator, but the naturals are well-founded, and from
the least counterexample (`LeastNat`) follow that the function a fold is defined by
exists (`FoldExists`) and what it keeps from one component to the next (`FoldStays`).

### Only model-checked

* Liveness (`AllDelivered`, `Terminates`), which the prover does not treat.
* The violations, which are statements about one counterexample each.

Every invariant and every action property of the passing runs is a theorem.

## 5. Not modelled

* Primitives (AES, SHA-256, x25519, HMAC), key files, command-line parsing,
  logging, `lib.rs`.
* The `SshBuf` writers and the bytes of messages: a field is readable or not.
* The accept loop: connections are independent apart from the SFTP directory,
  which Sftp has.
* `active_count`, `get` and `get_mut`, which change nothing.
* The size of a READDIR answer, links to links, and what else commands do to the
  files below the root.

## 6. Plan

Done: all components modelled, and every safety property of the passing runs
proved: the packet layer, flow control, the session's agreement, login, phases,
synchronisation and order of output, login, channel numbers and answers against
any client, and the SFTP subsystem.

Left, should the code change:

1. When the server uses the window operations (`consume_remote_window`), FlowControl's
   ends become those of Server and Client, and its theorems apply to Session.
2. When `exec` splits its output over several packets, `Ordered` in SessionOrder_proofs
   becomes a sum over the packets on their way, and `OkMeansComplete` a property that
   should hold.
3. When `resolve_path` resolves the parent of a path that does not exist, `OrNormalized`
   changes and `AcceptedInside` should hold. `LinksInside` remains a hypothesis of
   `NothingOutside`, because a link may still appear between resolving and using a path.
4. When the server collects SFTP packets from a stream, `Whole` is no longer a
   hypothesis, and the bytes kept between two CHANNEL_DATA are part of the balance.
