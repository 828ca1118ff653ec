-------------------------------- MODULE Sftp --------------------------------
(***************************************************************************)
(* The SFTP subsystem (sftp/mod.rs).  Each connection has a SftpHandler of *)
(* its own, and the tasks that serve the connections run in parallel over  *)
(* one file system.  A handler runs one request at a time; the request is  *)
(* split where it makes a system call, because another connection's calls  *)
(* may come in between: a path is resolved before it is used, and a file   *)
(* is opened anew for each READ and each WRITE.                            *)
(*                                                                         *)
(* A file is the sequence of its bytes; a byte is the connection that      *)
(* wrote it.  The same users make symbolic links with commands of their    *)
(* own (exec).                                                             *)
(***************************************************************************)
EXTENDS Paths, FileAttrs, FiniteSets, FiniteSetsExt

CONSTANTS Conns,          \* the connections
          Beside,         \* a file of the server that is not below Root
          Requested,      \* the paths requests name, one leading "/" stripped
          FlagSets,       \* the pflags of OPEN: sets of SSH_FXF_ names
          Offsets,        \* offsets of READ and WRITE
          Lengths,        \* lengths of READ
          Sizes,          \* numbers of bytes that a WRITE carries
          Linkable,       \* the links users make: pairs of a path and where it leads
          READ_MAX,       \* 32768 in the code
          U32_MAX,        \* 2^32 - 1 in the code
          MaxRequests,    \* bound: requests of all connections together
          MaxInodes       \* bound: files that exist at a time

ASSUME SftpAssumption ==
    /\ ~IsPrefix(Root, Beside) /\ Beside # <<>>
    /\ Requested \subseteq Seq(STRING)
    /\ Offsets \subseteq Nat /\ Lengths \subseteq Nat /\ Sizes \subseteq Nat
    /\ U32_MAX \in Nat /\ READ_MAX \in Nat \ {0} /\ MaxRequests \in Nat /\ MaxInodes \in Nat \ {0}

\* Links are made below the root, to absolute paths without links.
ASSUME LinkAssumption ==
    /\ Linkable \subseteq Seq(STRING) \X Seq(STRING)
    /\ \A l \in Linkable : IsStrictPrefix(Root, l[1]) /\ l[2] # <<>> /\ l[2][1] = "/"
    /\ \A l, m \in Linkable : ~IsPrefix(l[1], m[2])

VARIABLES fs,             \* path -> Dir or the inode of a file
          links,          \* path of a symbolic link -> where it leads
          data,           \* inode -> its bytes
          handler,        \* connection -> its SftpHandler
          job,            \* connection -> what its request has still to do
          answer,         \* connection -> the answer to its last request
          asked,          \* number of requests so far
          acked           \* the WRITEs answered OK whose bytes a client may expect

vars == <<fs, links, data, handler, job, answer, asked, acked>>

Inodes  == 1 .. MaxInodes
Handles == 0 .. MaxRequests

Idle == [op |-> "idle", path |-> <<>>, inode |-> 0, handle |-> 0, off |-> 0, len |-> 0,
         todo |-> {}, entries |-> {}]
Job(op, path) == [Idle EXCEPT !.op = op, !.path = path]

NoAnswer      == [type |-> "none"]
Status(code)  == [type |-> "STATUS", code |-> code]
Handle(h)     == [type |-> "HANDLE", handle |-> h]
Data(bytes)   == [type |-> "DATA", bytes |-> bytes]
Name(entries) == [type |-> "NAME", entries |-> entries]
Attrs(fields) == [type |-> "ATTRS", fields |-> fields]

-----------------------------------------------------------------------------
(* The file system. *)

Zero == "zero"            \* what a hole reads as

Extend(f, k, v) == [x \in DOMAIN f \cup {k} |-> IF x = k THEN v ELSE f[x]]
Without(f, k)   == [x \in DOMAIN f \ {k} |-> f[x]]

InUse == {fs[p] : p \in DOMAIN fs} \cup {job[c].inode : c \in Conns}
Free  == Inodes \ InUse

Exists(p) == p \in DOMAIN fs \cup DOMAIN links

Children(p) == {q \in DOMAIN fs \cup DOMAIN links : Len(q) = Len(p) + 1 /\ IsPrefix(p, q)}

CanCreate(p) == ~Exists(p) /\ IsDir(fs, Front(p))

WriteAt(bytes, off, n, b) ==
    IF n = 0 THEN bytes
    ELSE [i \in 1 .. Max({Len(bytes), off + n}) |->
             IF i - 1 \in off .. off + n - 1 THEN b
             ELSE IF i <= Len(bytes) THEN bytes[i] ELSE Zero]

ReadAt(bytes, off, len) == SubSeq(bytes, off + 1, Min({Len(bytes), off + len}))

\* A link has attributes of its own.
Metadata(p) ==
    [len  |-> IF p \in DOMAIN links THEN Len(links[p])
              ELSE IF fs[p] = Dir THEN 0 ELSE Len(data[fs[p]]),
     mode |-> IF p \in DOMAIN links THEN 777 ELSE IF fs[p] = Dir THEN 755 ELSE 644,
     uid  |-> 10, gid |-> 20]

\* A command that a user runs makes a link (ln -s).
ExecMakesLink ==
    /\ \E l \in Linkable :
          /\ CanCreate(l[1])
          /\ links' = Extend(links, l[1], l[2])
    /\ UNCHANGED <<fs, data, handler, job, answer, asked, acked>>

-----------------------------------------------------------------------------
(* handle_request: a request is received, goes on, or is answered. *)

Receives(c) ==
    /\ job[c] = Idle
    /\ asked < MaxRequests
    /\ asked' = asked + 1

Answers(c, a) ==
    /\ job' = [job EXCEPT ![c] = Idle]
    /\ answer' = [answer EXCEPT ![c] = a]

Continues(c, j) ==
    /\ job' = [job EXCEPT ![c] = j]
    /\ answer' = [answer EXCEPT ![c] = NoAnswer]

Doing(c, op) == job[c].op = op /\ UNCHANGED asked

\* What the path of a request in progress names when its system call is made.
Located(j) ==
    CASE j.op \in {"stat", "opendir"}          -> Follow(links, j.path)
      [] j.op \in {"mkdir", "rmdir", "remove"} -> Entry(links, j.path)
      [] OTHER                                 -> j.path

\* The first half of a handler that takes a path.
Resolves(c, op, denied) ==
    /\ Receives(c)
    /\ \E r \in Requested :
          LET p == resolve_path(fs, links, r)
          IN  IF p = Denied THEN Answers(c, Status(denied)) ELSE Continues(c, Job(op, p))
    /\ UNCHANGED <<fs, links, data, handler, acked>>

\* A field is missing or cannot be read, or the type is none of those below
\* (SSH_FXP_INIT is not among them).
BadRequest(c) ==
    /\ Receives(c)
    /\ \E code \in {"FAILURE", "OP_UNSUPPORTED"} : Answers(c, Status(code))
    /\ UNCHANGED <<fs, links, data, handler, acked>>

-----------------------------------------------------------------------------
(* Requests about paths. *)

handle_realpath(c) ==
    /\ Receives(c)
    /\ \E r \in Requested :
          LET p == resolve_path(fs, links, r)
          IN  Answers(c, IF p = Denied THEN Status("NO_SUCH_FILE")
                         ELSE Name({<<p, encode(NoAttrs)>>}))
    /\ UNCHANGED <<fs, links, data, handler, acked>>

handle_stat(c) ==
    \/ Resolves(c, "stat", "NO_SUCH_FILE")
    \/ /\ Doing(c, "stat")
       /\ LET p == Located(job[c])
          IN  Answers(c, IF p \in DOMAIN fs THEN Attrs(encode(metadata_to_attrs(Metadata(p))))
                         ELSE Status("NO_SUCH_FILE"))
       /\ UNCHANGED <<fs, links, data, handler, acked>>

handle_mkdir(c) ==
    \/ Resolves(c, "mkdir", "PERMISSION_DENIED")
    \/ /\ Doing(c, "mkdir")
       /\ IF CanCreate(Located(job[c]))
          THEN fs' = Extend(fs, Located(job[c]), Dir) /\ Answers(c, Status("OK"))
          ELSE UNCHANGED fs /\ Answers(c, Status("FAILURE"))
       /\ UNCHANGED <<links, data, handler, acked>>

handle_rmdir(c) ==
    \/ Resolves(c, "rmdir", "PERMISSION_DENIED")
    \/ /\ Doing(c, "rmdir")
       /\ IF IsDir(fs, Located(job[c])) /\ Children(Located(job[c])) = {}
          THEN fs' = Without(fs, Located(job[c])) /\ Answers(c, Status("OK"))
          ELSE UNCHANGED fs /\ Answers(c, Status("FAILURE"))
       /\ UNCHANGED <<links, data, handler, acked>>

\* A removed file may still be open in the middle of a READ or WRITE; of a link
\* the link itself is removed.
handle_remove(c) ==
    \/ Resolves(c, "remove", "PERMISSION_DENIED")
    \/ /\ Doing(c, "remove")
       /\ LET p == Located(job[c])
          IN  \/ /\ p \in DOMAIN links
                 /\ links' = Without(links, p)
                 /\ Answers(c, Status("OK"))
                 /\ UNCHANGED <<fs, acked>>
              \/ /\ p \in DOMAIN fs /\ fs[p] # Dir
                 /\ fs' = Without(fs, p)
                 /\ acked' = {w \in acked : w.path # p}
                 /\ Answers(c, Status("OK"))
                 /\ UNCHANGED links
              \/ /\ ~Exists(p) \/ IsDir(fs, p)
                 /\ Answers(c, Status("FAILURE"))
                 /\ UNCHANGED <<fs, links, acked>>
       /\ UNCHANGED <<data, handler>>

-----------------------------------------------------------------------------
(* Handles. *)

\* Faulty: the counter is not advanced.
alloc_handle_stuck(h) == h

\* A u32, which wraps in a release build (a debug build panics instead).
alloc_handle(h) == [h EXCEPT !.next_handle = (@ + 1) % (U32_MAX + 1)]

handle_opendir(c) ==
    \/ Resolves(c, "opendir", "NO_SUCH_FILE")
    \/ /\ Doing(c, "opendir")
       /\ LET h == handler[c]
          IN  IF IsDir(fs, Located(job[c]))
              THEN /\ handler' = [handler EXCEPT ![c] =
                         [alloc_handle(h) EXCEPT !.open_dirs =
                             Extend(@, h.next_handle, [path |-> job[c].path, listed |-> FALSE])]]
                   /\ Answers(c, Handle(h.next_handle))
              ELSE UNCHANGED handler /\ Answers(c, Status("NO_SUCH_FILE"))
       /\ UNCHANGED <<fs, links, data, acked>>

\* The directory is opened, once for each handle: listed even if it cannot be ...
ReaddirOpens(c) ==
    /\ Receives(c)
    /\ \E h \in Handles :
          IF h \notin DOMAIN handler[c].open_dirs
          THEN UNCHANGED handler /\ Answers(c, Status("FAILURE"))
          ELSE LET dir  == handler[c].open_dirs[h]
                   real == Follow(links, dir.path)
               IN  /\ handler' = [handler EXCEPT ![c].open_dirs[h].listed = TRUE]
                   /\ \/ dir.listed /\ Answers(c, Status("EOF"))
                      \/ ~dir.listed /\ Answers(c, Status("PERMISSION_DENIED"))
                      \/ /\ ~dir.listed /\ IsDir(fs, real)
                         /\ Continues(c, [Job("readdir", real) EXCEPT !.todo = Children(real)])
    /\ UNCHANGED <<fs, links, data, acked>>

\* What is known of the entry p: its attributes, if it is still there, or the
\* default ones, if it is not or they cannot be had.
EntryAttrs(p) ==
    {NoAttrs} \cup (IF Exists(p) THEN {metadata_to_attrs(Metadata(p))} ELSE {})

\* ... its entries are read one by one; one that cannot be read is left out ...
ReaddirReads(c) ==
    /\ Doing(c, "readdir")
    /\ LET j == job[c]
       IN  \E p \in j.todo :
              \E found \in {{}} \cup {{<<p, encode(a)>>} : a \in EntryAttrs(p)} :
                 Continues(c, [j EXCEPT !.todo = @ \ {p}, !.entries = @ \cup found])
    /\ UNCHANGED <<fs, links, data, handler, acked>>

\* ... and all are answered at once.
ReaddirAnswers(c) ==
    /\ Doing(c, "readdir")
    /\ job[c].todo = {}
    /\ Answers(c, Name(job[c].entries))
    /\ UNCHANGED <<fs, links, data, handler, acked>>

handle_readdir(c) == ReaddirOpens(c) \/ ReaddirReads(c) \/ ReaddirAnswers(c)

\* Faulty: with no file open any more the numbers start again.
handle_close_restarts(c) ==
    /\ Receives(c)
    /\ \E h \in DOMAIN handler[c].open_files :
          LET left == Without(handler[c].open_files, h)
          IN  handler' = [handler EXCEPT ![c].open_files = left,
                             ![c].open_dirs = IF DOMAIN left = {} THEN left ELSE @,
                             ![c].next_handle = IF DOMAIN left = {} THEN 0 ELSE @]
    /\ Answers(c, Status("OK"))
    /\ UNCHANGED <<fs, links, data, acked>>

handle_close(c) ==
    /\ Receives(c)
    /\ \E h \in Handles :
          handler' = [handler EXCEPT ![c].open_files = Without(@, h),
                                     ![c].open_dirs = Without(@, h)]
    /\ Answers(c, Status("OK"))
    /\ UNCHANGED <<fs, links, data, acked>>

\* OPEN keeps path and flags and touches no file: one that does not exist, or
\* is a directory, shows only when the handle is used.
handle_open(c) ==
    /\ Receives(c)
    /\ \E r \in Requested, flags \in FlagSets :
          LET p == resolve_path(fs, links, r)
              h == handler[c]
          IN  IF p = Denied THEN UNCHANGED handler /\ Answers(c, Status("NO_SUCH_FILE"))
              ELSE /\ handler' = [handler EXCEPT ![c] =
                         [alloc_handle(h) EXCEPT !.open_files =
                             Extend(@, h.next_handle, [path |-> p, flags |-> flags])]]
                   /\ Answers(c, Handle(h.next_handle))
    /\ UNCHANGED <<fs, links, data, acked>>

-----------------------------------------------------------------------------
(* READ and WRITE. *)

\* The file is opened ...
ReadOpens(c) ==
    /\ Receives(c)
    /\ \E h \in Handles, off \in Offsets, len \in Lengths :
          IF h \notin DOMAIN handler[c].open_files THEN Answers(c, Status("FAILURE"))
          ELSE LET p == Follow(links, handler[c].open_files[h].path)
               IN  \/ Answers(c, Status("NO_SUCH_FILE"))
                   \/ /\ p \in DOMAIN fs
                      /\ Continues(c, [Job("read", p) EXCEPT !.inode = fs[p], !.handle = h,
                                                            !.off = off, !.len = len])
    /\ UNCHANGED <<fs, links, data, handler, acked>>

\* Faulty: the file is read from its beginning.
ReadReadsNoSeek(c) ==
    /\ Doing(c, "read")
    /\ Answers(c, IF job[c].inode = Dir THEN Status("FAILURE")
                  ELSE Data(ReadAt(data[job[c].inode], 0, job[c].len)))
    /\ UNCHANGED <<fs, links, data, handler, acked>>

\* ... and then read; a directory can be opened but not read.
ReadReads(c) ==
    /\ Doing(c, "read")
    /\ LET j     == job[c]
           bytes == ReadAt(data[j.inode], j.off, Min({j.len, READ_MAX}))
       IN  Answers(c, IF j.inode = Dir THEN Status("FAILURE")
                      ELSE IF bytes = <<>> THEN Status("EOF") ELSE Data(bytes))
    /\ UNCHANGED <<fs, links, data, handler, acked>>

handle_read(c) == ReadOpens(c) \/ ReadReads(c)

\* What a client may no longer expect once the file is emptied through handle
\* h: all that others wrote, not what it wrote itself through h.
Emptied(c, h, p) == {w \in acked : w.path = p => w.conn = c /\ w.handle = h}

\* Faulty: the file is truncated whatever the flags.
OpensFileTruncating(c, h, p, flags) ==
    /\ p \in DOMAIN fs
    /\ fs[p] # Dir
    /\ data' = [data EXCEPT ![fs[p]] = <<>>]
    /\ acked' = IF "TRUNC" \in flags THEN Emptied(c, h, p) ELSE acked
    /\ UNCHANGED fs

\* An existing file is opened, and emptied by TRUNC ...
OpensFile(c, h, p, flags) ==
    /\ p \in DOMAIN fs
    /\ fs[p] # Dir
    /\ IF "TRUNC" \in flags
       THEN data' = [data EXCEPT ![fs[p]] = <<>>] /\ acked' = Emptied(c, h, p)
       ELSE UNCHANGED <<data, acked>>
    /\ UNCHANGED fs

\* ... and CREAT makes one where there is none.
CreatesFile(p, flags) ==
    /\ "CREAT" \in flags
    /\ CanCreate(p)
    /\ Free # {}
    /\ fs' = Extend(fs, p, Min(Free))
    /\ data' = [data EXCEPT ![Min(Free)] = <<>>]
    /\ UNCHANGED acked

WriteOpens(c) ==
    /\ Receives(c)
    /\ \E h \in Handles, off \in Offsets, len \in Sizes :
          IF h \notin DOMAIN handler[c].open_files
          THEN Answers(c, Status("FAILURE")) /\ UNCHANGED <<fs, links, data, acked>>
          ELSE LET p     == Follow(links, handler[c].open_files[h].path)
                   flags == handler[c].open_files[h].flags
               IN  \/ Answers(c, Status("PERMISSION_DENIED")) /\ UNCHANGED <<fs, data, acked>>
                   \/ /\ "WRITE" \in flags
                      /\ OpensFile(c, h, p, flags) \/ CreatesFile(p, flags)
                      /\ Continues(c, [Job("write", p) EXCEPT !.inode = fs'[p], !.handle = h,
                                                             !.off = off, !.len = len])
    /\ UNCHANGED <<links, handler>>

\* What clients may still expect once the request j has overwritten n bytes.
Spared(j, n) ==
    IF j.path \notin DOMAIN fs \/ fs[j.path] # j.inode THEN acked
    ELSE {w \in acked : w.path # j.path \/ w.off \notin j.off .. j.off + n - 1}

Acked(c, j) ==
    IF j.path \notin DOMAIN fs \/ fs[j.path] # j.inode THEN {}
    ELSE {[conn |-> c, handle |-> j.handle, path |-> j.path, off |-> off,
           trunc |-> "TRUNC" \in handler[c].open_files[j.handle].flags] :
             off \in j.off .. j.off + j.len - 1}

WritesBytes(c, n) ==
    data' = [data EXCEPT ![job[c].inode] = WriteAt(@, job[c].off, n, c)]

WriteWrites(c) ==
    /\ Doing(c, "write")
    /\ WritesBytes(c, job[c].len)
    /\ acked' = Spared(job[c], job[c].len) \cup Acked(c, job[c])
    /\ Answers(c, Status("OK"))
    /\ UNCHANGED <<fs, links, handler>>

\* write_all fails with some of the bytes written.
WriteStops(c) ==
    /\ Doing(c, "write")
    /\ \E n \in 0 .. job[c].len - 1 :
          WritesBytes(c, n) /\ acked' = Spared(job[c], n)
    /\ Answers(c, Status("FAILURE"))
    /\ UNCHANGED <<fs, links, handler>>

handle_write(c) == WriteOpens(c) \/ WriteWrites(c) \/ WriteStops(c)

\* The system call in progress fails: no space, no permission, an offset that
\* cannot be sought.  A file emptied by then stays empty.
SystemFails(c) ==
    /\ job[c] # Idle /\ job[c].op # "readdir"
    /\ Answers(c, Status(IF job[c].op \in {"stat", "opendir"} THEN "NO_SUCH_FILE"
                         ELSE "FAILURE"))
    /\ UNCHANGED <<fs, links, data, handler, asked, acked>>

-----------------------------------------------------------------------------
Init ==
    /\ fs = [p \in {<<"/">>, Root, Beside} \cup {SubSeq(Root, 1, n) : n \in 1 .. Len(Root)} |->
                IF p = Beside THEN 1 ELSE Dir]
    /\ links = [l \in {} |-> <<>>]
    /\ data = [i \in Inodes |-> IF i = 1 THEN <<Zero>> ELSE <<>>]
    /\ handler = [c \in Conns |-> [next_handle |-> 0, open_files |-> [h \in {} |-> 0],
                                   open_dirs |-> [h \in {} |-> 0]]]
    /\ job = [c \in Conns |-> Idle]
    /\ answer = [c \in Conns |-> NoAnswer]
    /\ asked = 0
    /\ acked = {}

handle_request(c) ==
    \/ BadRequest(c) \/ handle_realpath(c) \/ handle_stat(c)
    \/ handle_mkdir(c) \/ handle_rmdir(c) \/ handle_remove(c)
    \/ handle_opendir(c) \/ handle_readdir(c) \/ handle_close(c)
    \/ handle_open(c) \/ handle_read(c) \/ handle_write(c)

Next == (\E c \in Conns : handle_request(c) \/ SystemFails(c)) \/ ExecMakesLink

Spec == Init /\ [][Next]_vars

-----------------------------------------------------------------------------
(* Properties. *)

TypeOK ==
    /\ \A p \in DOMAIN fs : p # <<>> /\ fs[p] \in {Dir} \cup Inodes
    /\ \A l \in DOMAIN links : <<l, links[l]>> \in Linkable
    /\ \A i \in Inodes : \A n \in DOMAIN data[i] : data[i][n] \in Conns \cup {Zero}
    /\ \A c \in Conns : job[c].inode \in {Dir} \cup Inodes
    /\ \A c \in Conns : DOMAIN handler[c].open_files \cup DOMAIN handler[c].open_dirs
                        \subseteq 0 .. handler[c].next_handle - 1
    /\ asked \in 0 .. MaxRequests

Below(p) == IsPrefix(Root, p)

\* README.md:130 "prevents traversal outside the configured root": whatever the
\* path of a request in progress names when it is used, as other connections
\* change the tree and its links after resolve_path has looked at them, it is
\* below the root, and all that is not below the root is as it was.
Confined ==
    /\ \A c \in Conns : job[c] # Idle => Below(Located(job[c]))
    /\ {p \in DOMAIN fs : ~Below(p)}
          = {Beside} \cup {SubSeq(Root, 1, n) : n \in 1 .. Len(Root) - 1}
    /\ data[fs[Beside]] = <<Zero>>

\* sftp/mod.rs:261 "Canonicalize to prevent path traversal": a path that
\* resolve_path accepts leads, over the links there are at that moment, to
\* something below the root.
AcceptedInside ==
    \A r \in Requested :
       LET p == resolve_path(fs, links, r)
       IN  p # Denied => Below(Follow(links, p))

\* A handle is good for the file or directory it was given out for until it is
\* closed, however many others are opened and closed meanwhile, and it is not
\* given out again after that.
HandlesKept ==
    [][\A c \in Conns :
          LET old == handler[c]
              new == handler'[c]
          IN  /\ old.next_handle <= new.next_handle
              /\ \A h \in DOMAIN old.open_files \cap DOMAIN new.open_files :
                    new.open_files[h] = old.open_files[h]
              /\ \A h \in (DOMAIN new.open_files \ DOMAIN old.open_files)
                          \cup (DOMAIN new.open_dirs \ DOMAIN old.open_dirs) :
                    old.next_handle <= h /\ h < new.next_handle
              /\ DOMAIN new.open_files \cap DOMAIN new.open_dirs = {}]_vars

\* The file a client wrote to still holds the byte at its offset.
Holds(w) ==
    /\ w.path \in DOMAIN fs
    /\ w.off + 1 \in DOMAIN data[fs[w.path]]
    /\ data[fs[w.path]][w.off + 1] = w.conn

\* A WRITE answered OK is in the file until somebody overwrites it, truncates
\* the file or removes it, although every request opens the file anew and other
\* connections create, remove and fail to write it in between.
WritesKept == \A w \in acked : w.trunc \/ Holds(w)

\* README.md:80 "SFTP subset: open / read / write": the writes made through one
\* handle add up, and are all there once no request is in progress.
WritesAddUp == (\A c \in Conns : job[c] = Idle) => \A w \in acked : Holds(w)

\* A READ that is answered shows the acknowledged bytes of the file that its
\* handle names, whichever connection wrote them.
ReadsSeeWrites ==
    [][\A c \in Conns :
          LET j == job[c]
          IN  \A w \in acked :
                 /\ j.op = "read" /\ j.path = w.path /\ j.off = w.off /\ j.len > 0
                 /\ fs[j.path] = j.inode /\ Holds(w)
                 /\ job'[c] = Idle /\ answer'[c] # Status("FAILURE")
                 => answer'[c].type = "DATA" /\ answer'[c].bytes[1] = w.conn]_vars

\* What a STAT answers, a client decodes to the attributes the file has at that
\* moment.  An entry of a READDIR it decodes to those the entry had when it was
\* read, or to none at all (it was removed in between), and never to a mixture;
\* what was read of the entries before is what is answered.
Describes(fields, meta) ==
    LET a == decode(fields)
    IN  a # Short /\ a.size = meta.len /\ a.permissions = meta.mode
        /\ a.uid = meta.uid /\ a.gid = meta.gid

AttrsReadable ==
    [][\A c \in Conns :
          /\ job[c].op = "stat" /\ answer'[c].type = "ATTRS"
             => Describes(answer'[c].fields, Metadata(Located(job[c])))
          /\ \A e \in job'[c].entries \ job[c].entries :
                decode(e[2]) = NoAttrs \/ (Exists(e[1]) /\ Describes(e[2], Metadata(e[1])))
          /\ job[c].op = "readdir" /\ job'[c] = Idle
             => answer'[c] = Name(job[c].entries)]_vars
=============================================================================
