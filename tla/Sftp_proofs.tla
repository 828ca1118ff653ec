---------------------------- MODULE Sftp_proofs ----------------------------
(***************************************************************************)
(* The SFTP subsystem, for any number of connections and files and for as  *)
(* many requests as the counter of handles can count: types, what a handle *)
(* stands for, that what was written is there and is read, what attributes *)
(* are answered and, for links that stay below the root, where a request   *)
(* can reach.                                                              *)
(***************************************************************************)
EXTENDS Sftp, TLAPS

WF == INSTANCE WellFoundedInduction

-----------------------------------------------------------------------------
(* The inductive invariant. *)

\* A handler's handles are below its counter, and no number is both a file's
\* and a directory's.
HandlerOK(h) ==
    /\ DOMAIN h = {"next_handle", "open_files", "open_dirs"}
    /\ h.next_handle \in Nat
    /\ DOMAIN h.open_files \subseteq 0 .. h.next_handle - 1
    /\ DOMAIN h.open_dirs \subseteq 0 .. h.next_handle - 1
    /\ DOMAIN h.open_files \cap DOMAIN h.open_dirs = {}
    /\ \A n \in DOMAIN h.open_dirs : DOMAIN h.open_dirs[n] = {"path", "listed"}

\* What a request has still to do: the inode it has open is that of no file but
\* the one it names, and a WRITE is made through a handle that is open.
JobOK(c, j) ==
    /\ DOMAIN j = {"op", "path", "inode", "handle", "off", "len", "todo", "entries"}
    /\ j.inode \in {Dir} \cup Inodes /\ j.off \in Nat /\ j.len \in Nat
    /\ \A p \in DOMAIN fs : fs[p] = j.inode /\ j.inode # Dir => p = j.path
    /\ j.op = "write" => j.inode # Dir /\ j.handle \in DOMAIN handler[c].open_files

TypeInv ==
    /\ data \in [Inodes -> Seq(Conns \cup {Zero})]
    /\ \A p \in DOMAIN fs : p # <<>> /\ fs[p] \in {Dir} \cup Inodes
    /\ DOMAIN job = Conns /\ DOMAIN answer = Conns /\ DOMAIN handler = Conns
    /\ \A c \in Conns : HandlerOK(handler[c])
    /\ \A c \in Conns : JobOK(c, job[c])
    /\ \A c \in Conns : job[c] # Idle => answer[c] = NoAnswer
    /\ asked \in 0 .. MaxRequests

\* No two paths name the same file.
OneName == \A p, q \in DOMAIN fs : fs[p] = fs[q] /\ fs[p] # Dir => p = q

\* An acknowledged WRITE remembers whether the handle it was made through
\* truncates.
AckOK(w) ==
    /\ w.conn \in Conns /\ w.off \in Nat /\ w.trunc \in BOOLEAN
    /\ w.path \in DOMAIN fs /\ fs[w.path] # Dir
    /\ w.handle \in 0 .. handler[w.conn].next_handle - 1
    /\ w.handle \in DOMAIN handler[w.conn].open_files
          => w.trunc = ("TRUNC" \in handler[w.conn].open_files[w.handle].flags)

IInv ==
    /\ TypeInv
    /\ OneName
    /\ \A w \in acked : AckOK(w)
    /\ WritesKept

\* Each handle was asked for: the counter is behind the number of requests.
CountInv ==
    /\ \A c \in Conns : handler[c].next_handle <= asked
    /\ \A c \in Conns : job[c] # Idle => handler[c].next_handle < asked

LinkInv == \A l \in DOMAIN links : <<l, links[l]>> \in Linkable

\* So few requests that next_handle does not wrap.
NoWrap == MaxRequests <= U32_MAX

-----------------------------------------------------------------------------
(* Numbers. *)

LEMMA LeastNat ==
    ASSUME NEW T, T \subseteq Nat, T # {}
    PROVE  \E x \in T : \A y \in T : x <= y
  <1> DEFINE R == {ss \in Nat \X Nat : ss[1] < ss[2]}
  <1>1. WF!IsWellFoundedOn(R, Nat)
    BY WF!NatLessThanWellFounded DEF WF!OpToRel
  <1>2. PICK x \in T : \A y \in T : ~(<<y, x>> \in R)
    BY <1>1, WF!WFMin
  <1>3. \A y \in T : <<y, x>> \in Nat \X Nat /\ <<y, x>>[1] = y /\ <<y, x>>[2] = x
    OBVIOUS
  <1>4. \A y \in T : ~(y < x)
    BY <1>2, <1>3
  <1> QED
    BY <1>4

LEMMA MinIn ==
    ASSUME NEW T, T \subseteq Nat, T # {}
    PROVE  Min(T) \in T
  BY LeastNat DEF Min

LEMMA MaxOfTwo ==
    ASSUME NEW a \in Nat, NEW b \in Nat
    PROVE  /\ Max({a, b}) \in Nat /\ Max({a, b}) >= a /\ Max({a, b}) >= b
           /\ Max({a, b}) = a \/ Max({a, b}) = b
  <1>1. \E x \in {a, b} : \A y \in {a, b} : x >= y
    OBVIOUS
  <1>2. Max({a, b}) \in {a, b} /\ \A y \in {a, b} : Max({a, b}) >= y
    BY <1>1 DEF Max
  <1> QED
    BY <1>2

LEMMA MinOfTwo ==
    ASSUME NEW a \in Nat, NEW b \in Nat
    PROVE  Min({a, b}) \in Nat /\ Min({a, b}) = IF a <= b THEN a ELSE b
  <1>1. \E x \in {a, b} : \A y \in {a, b} : x <= y
    OBVIOUS
  <1>2. Min({a, b}) \in {a, b} /\ \A y \in {a, b} : Min({a, b}) <= y
    BY <1>1 DEF Min
  <1> QED
    BY <1>2

-----------------------------------------------------------------------------
(* Bytes. *)

\* now is bytes with n times b from off on.
WrittenAt(X, bytes, off, n, b, now) ==
    /\ now \in Seq(X)
    /\ \A i \in off .. off + n - 1 : i + 1 \in DOMAIN now /\ now[i + 1] = b
    /\ \A i \in Nat : i + 1 \in DOMAIN bytes /\ i \notin off .. off + n - 1
                      => i + 1 \in DOMAIN now /\ now[i + 1] = bytes[i + 1]

LEMMA WriteAtFacts ==
    ASSUME NEW X, NEW bytes \in Seq(X), Zero \in X, NEW off \in Nat, NEW n \in Nat, NEW b \in X
    PROVE  WrittenAt(X, bytes, off, n, b, WriteAt(bytes, off, n, b))
  <1>1. CASE n = 0
    BY <1>1 DEF WrittenAt, WriteAt
  <1>2. CASE n # 0
    <2> DEFINE m == Max({Len(bytes), off + n})
               Byte(i) == IF i - 1 \in off .. off + n - 1 THEN b
                          ELSE IF i <= Len(bytes) THEN bytes[i] ELSE Zero
    <2>1. Len(bytes) \in Nat /\ DOMAIN bytes = 1 .. Len(bytes) /\ off + n \in Nat
      OBVIOUS
    <2>2. m \in Nat /\ m >= Len(bytes) /\ m >= off + n
      BY <2>1, MaxOfTwo
    <2>3. WriteAt(bytes, off, n, b) = [i \in 1 .. m |-> Byte(i)]
      BY <1>2 DEF WriteAt
    <2> HIDE DEF m
    <2>4. \A i \in 1 .. m : Byte(i) \in X
      BY <2>1, <2>2
    <2>5. [i \in 1 .. m |-> Byte(i)] \in Seq(X)
      <3> HIDE DEF Byte
      <3> QED
        BY <2>2, <2>4
    <2>6. PICK now : now = WriteAt(bytes, off, n, b)
      OBVIOUS
    <2>7. now \in Seq(X) /\ DOMAIN now = 1 .. m /\ \A i \in 1 .. m : now[i] = Byte(i)
      <3> HIDE DEF Byte
      <3> QED
        BY <2>3, <2>5, <2>6
    <2>8. ASSUME NEW i \in off .. off + n - 1
          PROVE  i + 1 \in DOMAIN now /\ now[i + 1] = b
      <3>1. i + 1 \in 1 .. m /\ (i + 1) - 1 = i
        BY <2>2
      <3> QED
        BY <2>7, <3>1
    <2>9. ASSUME NEW i \in Nat, i + 1 \in DOMAIN bytes, i \notin off .. off + n - 1
          PROVE  i + 1 \in DOMAIN now /\ now[i + 1] = bytes[i + 1]
      <3>1. i + 1 \in 1 .. m /\ (i + 1) - 1 = i /\ i + 1 <= Len(bytes)
        BY <2>1, <2>2, <2>9
      <3> QED
        BY <2>7, <2>9, <3>1
    <2>10. WrittenAt(X, bytes, off, n, b, now)
      BY <2>7, <2>8, <2>9 DEF WrittenAt
    <2> QED
      BY <2>6, <2>10
  <1> QED
    BY <1>1, <1>2

\* Reading at an offset inside the file gives the byte there first.
LEMMA ReadAtFacts ==
    ASSUME NEW X, NEW bytes \in Seq(X), NEW off \in Nat, NEW len \in Nat, len > 0,
           off + 1 \in DOMAIN bytes
    PROVE  ReadAt(bytes, off, len) # <<>> /\ ReadAt(bytes, off, len)[1] = bytes[off + 1]
  <1> DEFINE n == Min({Len(bytes), off + len})
  <1>1. Len(bytes) \in Nat /\ off + 1 <= Len(bytes)
    OBVIOUS
  <1>2. n \in Nat /\ n >= off + 1 /\ n <= Len(bytes)
    BY <1>1, MinOfTwo
  <1>3. ReadAt(bytes, off, len) = SubSeq(bytes, off + 1, n)
    BY DEF ReadAt
  <1> HIDE DEF n
  <1>4. /\ SubSeq(bytes, off + 1, n) \in Seq(X) /\ Len(SubSeq(bytes, off + 1, n)) = n - off
        /\ SubSeq(bytes, off + 1, n)[1] = bytes[off + 1]
    BY <1>1, <1>2
  <1> QED
    BY <1>2, <1>3, <1>4

-----------------------------------------------------------------------------
(* Maps and handlers. *)

LEMMA MapFacts ==
    ASSUME NEW f, NEW k, NEW v
    PROVE  /\ DOMAIN Extend(f, k, v) = DOMAIN f \cup {k}
           /\ Extend(f, k, v)[k] = v
           /\ \A x \in DOMAIN f : x # k => Extend(f, k, v)[x] = f[x]
           /\ DOMAIN Without(f, k) = DOMAIN f \ {k}
           /\ \A x \in DOMAIN f : x # k => Without(f, k)[x] = f[x]
  BY DEF Extend, Without

\* What may happen to a handler: the body of HandlesKept.
Keeps(old, new) ==
    /\ old.next_handle <= new.next_handle
    /\ \A h \in DOMAIN old.open_files \cap DOMAIN new.open_files :
          new.open_files[h] = old.open_files[h]
    /\ \A h \in (DOMAIN new.open_files \ DOMAIN old.open_files)
                \cup (DOMAIN new.open_dirs \ DOMAIN old.open_dirs) :
          old.next_handle <= h /\ h < new.next_handle
    /\ DOMAIN new.open_files \cap DOMAIN new.open_dirs = {}

LEMMA KeepsSame ==
    ASSUME NEW h, HandlerOK(h)
    PROVE  Keeps(h, h)
  BY DEF Keeps, HandlerOK

LEMMA Advances ==
    ASSUME NEW h, h.next_handle \in Nat, h.next_handle < U32_MAX
    PROVE  alloc_handle(h) = [h EXCEPT !.next_handle = h.next_handle + 1]
  <1>1. (h.next_handle + 1) % (U32_MAX + 1) = h.next_handle + 1
    BY SftpAssumption
  <1> QED
    BY <1>1 DEF alloc_handle

LEMMA OpenFileHandler ==
    ASSUME NEW h, HandlerOK(h), h.next_handle < U32_MAX, NEW e,
           NEW new, new = [alloc_handle(h) EXCEPT !.open_files = Extend(@, h.next_handle, e)]
    PROVE  HandlerOK(new) /\ Keeps(h, new) /\ new.open_dirs = h.open_dirs
           /\ new.open_files = Extend(h.open_files, h.next_handle, e)
  <1> DEFINE n == h.next_handle
             m == n + 1
             f == Extend(h.open_files, n, e)
  <1>1. n \in Nat
    BY DEF HandlerOK
  <1>2. /\ DOMAIN f = DOMAIN h.open_files \cup {n} /\ f[n] = e
        /\ \A x \in DOMAIN h.open_files : x # n => f[x] = h.open_files[x]
    BY DEF Extend
  <1>3. alloc_handle(h) = [h EXCEPT !.next_handle = m]
    BY <1>1, Advances
  <1>4. [h EXCEPT !.next_handle = m].open_files = h.open_files
    BY DEF HandlerOK
  <1>5. new = [[h EXCEPT !.next_handle = m] EXCEPT !.open_files = f]
    BY <1>3, <1>4
  <1> HIDE DEF f
  <1>6. /\ DOMAIN new = DOMAIN h /\ new.next_handle = m /\ new.open_files = f
        /\ new.open_dirs = h.open_dirs
    BY <1>5 DEF HandlerOK
  <1>7. n \notin DOMAIN h.open_files /\ n \notin DOMAIN h.open_dirs
    BY <1>1 DEF HandlerOK
  <1>8. HandlerOK(new)
    BY <1>1, <1>2, <1>6, <1>7 DEF HandlerOK
  <1>9. Keeps(h, new)
    BY <1>1, <1>2, <1>6, <1>7 DEF HandlerOK, Keeps
  <1> QED
    BY <1>6, <1>8, <1>9 DEF f

LEMMA OpenDirHandler ==
    ASSUME NEW h, HandlerOK(h), h.next_handle < U32_MAX, NEW e, DOMAIN e = {"path", "listed"},
           NEW new, new = [alloc_handle(h) EXCEPT !.open_dirs = Extend(@, h.next_handle, e)]
    PROVE  HandlerOK(new) /\ Keeps(h, new) /\ new.open_files = h.open_files
           /\ new.open_dirs = Extend(h.open_dirs, h.next_handle, e)
  <1> DEFINE n == h.next_handle
             m == n + 1
             f == Extend(h.open_dirs, n, e)
  <1>1. n \in Nat
    BY DEF HandlerOK
  <1>2. /\ DOMAIN f = DOMAIN h.open_dirs \cup {n} /\ f[n] = e
        /\ \A x \in DOMAIN h.open_dirs : x # n => f[x] = h.open_dirs[x]
    BY DEF Extend
  <1>3. alloc_handle(h) = [h EXCEPT !.next_handle = m]
    BY <1>1, Advances
  <1>4. [h EXCEPT !.next_handle = m].open_dirs = h.open_dirs
    BY DEF HandlerOK
  <1>5. new = [[h EXCEPT !.next_handle = m] EXCEPT !.open_dirs = f]
    BY <1>3, <1>4
  <1> HIDE DEF f
  <1>6. /\ DOMAIN new = DOMAIN h /\ new.next_handle = m /\ new.open_dirs = f
        /\ new.open_files = h.open_files
    BY <1>5 DEF HandlerOK
  <1>7. n \notin DOMAIN h.open_files /\ n \notin DOMAIN h.open_dirs
    BY <1>1 DEF HandlerOK
  <1>8. HandlerOK(new)
    <2>1. \A x \in DOMAIN f : DOMAIN f[x] = {"path", "listed"}
      BY <1>2 DEF HandlerOK
    <2>2. /\ DOMAIN new = {"next_handle", "open_files", "open_dirs"}
          /\ m \in Nat /\ DOMAIN h.open_files \subseteq 0 .. m - 1 /\ DOMAIN f \subseteq 0 .. m - 1
          /\ DOMAIN h.open_files \cap DOMAIN f = {}
      BY <1>1, <1>2, <1>6, <1>7 DEF HandlerOK
    <2> HIDE DEF m, n
    <2> QED
      BY <1>6, <2>1, <2>2 DEF HandlerOK
  <1>9. Keeps(h, new)
    BY <1>1, <1>2, <1>6, <1>7 DEF HandlerOK, Keeps
  <1> QED
    BY <1>6, <1>8, <1>9 DEF f

LEMMA ListedHandler ==
    ASSUME NEW h, HandlerOK(h), NEW n \in DOMAIN h.open_dirs,
           NEW new, new = [h EXCEPT !.open_dirs[n].listed = TRUE]
    PROVE  HandlerOK(new) /\ Keeps(h, new) /\ new.open_files = h.open_files
           /\ DOMAIN new.open_dirs = DOMAIN h.open_dirs
           /\ \A x \in DOMAIN h.open_dirs : new.open_dirs[x].path = h.open_dirs[x].path
  <1> DEFINE e == [h.open_dirs[n] EXCEPT !.listed = TRUE]
             f == [h.open_dirs EXCEPT ![n] = e]
  <1>1. e.path = h.open_dirs[n].path /\ DOMAIN e = {"path", "listed"}
    BY DEF HandlerOK
  <1>2. new = [h EXCEPT !.open_dirs = f]
    OBVIOUS
  <1> HIDE DEF e
  <1>3. /\ DOMAIN f = DOMAIN h.open_dirs /\ f[n] = e
        /\ \A x \in DOMAIN h.open_dirs : x # n => f[x] = h.open_dirs[x]
    OBVIOUS
  <1> HIDE DEF f
  <1>4. /\ DOMAIN new = DOMAIN h /\ new.next_handle = h.next_handle /\ new.open_dirs = f
        /\ new.open_files = h.open_files
    BY <1>2 DEF HandlerOK
  <1> QED
    BY <1>1, <1>3, <1>4 DEF HandlerOK, Keeps

LEMMA ClosedHandler ==
    ASSUME NEW h, HandlerOK(h), NEW n,
           NEW new, new = [h EXCEPT !.open_files = Without(@, n), !.open_dirs = Without(@, n)]
    PROVE  HandlerOK(new) /\ Keeps(h, new) /\ new.next_handle = h.next_handle
           /\ new.open_files = Without(h.open_files, n) /\ new.open_dirs = Without(h.open_dirs, n)
  <1> DEFINE f == Without(h.open_files, n)
             d == Without(h.open_dirs, n)
  <1>1. /\ DOMAIN f = DOMAIN h.open_files \ {n} /\ DOMAIN d = DOMAIN h.open_dirs \ {n}
        /\ \A x \in DOMAIN h.open_files : x # n => f[x] = h.open_files[x]
        /\ \A x \in DOMAIN h.open_dirs : x # n => d[x] = h.open_dirs[x]
    BY MapFacts
  <1>2. [h EXCEPT !.open_files = f].open_dirs = h.open_dirs
    BY DEF HandlerOK
  <1>3. new = [[h EXCEPT !.open_files = f] EXCEPT !.open_dirs = d]
    BY <1>2
  <1> HIDE DEF f, d
  <1>4. /\ DOMAIN new = DOMAIN h /\ new.next_handle = h.next_handle /\ new.open_dirs = d
        /\ new.open_files = f
    BY <1>3 DEF HandlerOK
  <1>5. HandlerOK(new)
    <2>1. \A x \in DOMAIN d : DOMAIN d[x] = {"path", "listed"}
      BY <1>1 DEF HandlerOK
    <2>2. /\ DOMAIN new = {"next_handle", "open_files", "open_dirs"}
          /\ h.next_handle \in Nat
          /\ DOMAIN f \subseteq 0 .. h.next_handle - 1 /\ DOMAIN d \subseteq 0 .. h.next_handle - 1
          /\ DOMAIN f \cap DOMAIN d = {}
      BY <1>1, <1>4 DEF HandlerOK
    <2> QED
      BY <1>4, <2>1, <2>2 DEF HandlerOK
  <1>6. Keeps(h, new)
    BY <1>1, <1>4 DEF HandlerOK, Keeps
  <1> QED
    BY <1>4, <1>5, <1>6 DEF f, d

-----------------------------------------------------------------------------
-----------------------------------------------------------------------------
(* How steps change the state. *)

\* The request of c is now j, with answer a.
Becomes(c, j, a) ==
    /\ job' = [job EXCEPT ![c] = j]
    /\ answer' = [answer EXCEPT ![c] = a]
    /\ asked' \in 0 .. MaxRequests

LEMMA IdleFields ==
    /\ Idle.op = "idle" /\ Idle.inode = Dir /\ Idle.off = 0 /\ Idle.len = 0 /\ Dir = 0
    /\ Idle.entries = {}
    /\ DOMAIN Idle = {"op", "path", "inode", "handle", "off", "len", "todo", "entries"}
    /\ \A op, path : /\ Job(op, path).op = op /\ Job(op, path).path = path
                     /\ Job(op, path).inode = Dir
                     /\ Job(op, path).off = 0 /\ Job(op, path).len = 0
                     /\ Job(op, path).entries = {} /\ DOMAIN Job(op, path) = DOMAIN Idle
  BY DEF Idle, Job, Dir

\* A request that has a file open.
FileJob(op, p, i, h, off, len) ==
    [Job(op, p) EXCEPT !.inode = i, !.handle = h, !.off = off, !.len = len]

LEMMA FileJobFields ==
    ASSUME NEW op, NEW p, NEW i, NEW h, NEW off, NEW len,
           NEW k, k = FileJob(op, p, i, h, off, len)
    PROVE  /\ k.op = op /\ k.path = p /\ k.inode = i /\ k.handle = h /\ k.off = off
           /\ k.len = len /\ k.entries = {} /\ DOMAIN k = DOMAIN Idle
  BY DEF FileJob, Job, Idle

\* A request that lists a directory: no file, no handle.
ListJob(p, todo) == [Job("readdir", p) EXCEPT !.todo = todo]

LEMMA ListJobFields ==
    ASSUME NEW p, NEW todo, NEW k, k = ListJob(p, todo)
    PROVE  /\ k.op = "readdir" /\ k.path = p /\ k.inode = Dir /\ k.off = 0 /\ k.len = 0
           /\ k.entries = {} /\ DOMAIN k = DOMAIN Idle
  BY DEF ListJob, Job, Idle, Dir

LEMMA ListJobOK ==
    ASSUME NEW c, NEW p, NEW todo, NEW k, k = ListJob(p, todo)
    PROVE  JobOK(c, k) /\ JobOK(c, k)' /\ k # Idle
  <1>1. /\ k.op = "readdir" /\ k.inode = Dir /\ k.off = 0 /\ k.len = 0
        /\ DOMAIN k = DOMAIN Idle
    BY ListJobFields
  <1> QED
    BY <1>1, IdleFields DEF JobOK

LEMMA IdleOK == \A c : JobOK(c, Idle) /\ JobOK(c, Idle)'
  BY IdleFields DEF JobOK

LEMMA PathJobOK ==
    ASSUME NEW c, NEW op, NEW path, op # "write"
    PROVE  JobOK(c, Job(op, path))
  BY IdleFields DEF JobOK

LEMMA Receiving ==
    ASSUME TypeInv, NEW c, Receives(c)
    PROVE  asked' \in 0 .. MaxRequests
  BY SftpAssumption DEF TypeInv, Receives

LEMMA AnswersBecomes ==
    ASSUME NEW c, NEW a, Answers(c, a), asked' \in 0 .. MaxRequests
    PROVE  Becomes(c, Idle, a)
  BY DEF Answers, Becomes

LEMMA ContinuesBecomes ==
    ASSUME NEW c, NEW j, Continues(c, j), asked' \in 0 .. MaxRequests
    PROVE  Becomes(c, j, NoAnswer)
  BY DEF Continues, Becomes

LEMMA Others ==
    ASSUME TypeInv, NEW c \in Conns, NEW j, NEW a, Becomes(c, j, a)
    PROVE  /\ DOMAIN job' = Conns /\ DOMAIN answer' = Conns
           /\ job'[c] = j /\ answer'[c] = a
           /\ \A d \in Conns : d # c => job'[d] = job[d] /\ answer'[d] = answer[d]
           /\ asked' \in 0 .. MaxRequests
  BY DEF TypeInv, Becomes

\* Nothing but the request changes.
LEMMA QuietStep ==
    ASSUME IInv, NEW c \in Conns, NEW j, NEW a, Becomes(c, j, a), JobOK(c, j),
           j # Idle => a = NoAnswer, UNCHANGED <<fs, data, handler, acked>>
    PROVE  IInv'
  <1>1. \A d, k : JobOK(d, k)' <=> JobOK(d, k)
    BY DEF JobOK
  <1>2. /\ DOMAIN job' = Conns /\ DOMAIN answer' = Conns /\ job'[c] = j /\ answer'[c] = a
        /\ \A d \in Conns : d # c => job'[d] = job[d] /\ answer'[d] = answer[d]
        /\ asked' \in 0 .. MaxRequests
    BY Others DEF IInv
  <1>3. \A d \in Conns : JobOK(d, job'[d]) /\ (job'[d] # Idle => answer'[d] = NoAnswer)
    BY <1>2 DEF IInv, TypeInv
  <1>4. \A d \in Conns : JobOK(d, job[d])'
    BY <1>1, <1>3
  <1>5. \A d \in Conns : HandlerOK(handler[d])'
    BY DEF IInv, TypeInv
  <1>6. TypeInv'
    BY <1>2, <1>3, <1>4, <1>5 DEF IInv, TypeInv
  <1> QED
    BY <1>6 DEF IInv, OneName, AckOK, WritesKept, Holds

\* The handler of c changes as it may.
LEMMA HandlerStep ==
    ASSUME IInv, NEW c \in Conns, NEW j, NEW a, Becomes(c, j, a), JobOK(c, j)',
           j # Idle => a = NoAnswer, UNCHANGED <<fs, data, acked>>,
           NEW new, handler' = [handler EXCEPT ![c] = new],
           HandlerOK(new), Keeps(handler[c], new)
    PROVE  IInv'
  <1>1. /\ DOMAIN job' = Conns /\ DOMAIN answer' = Conns /\ job'[c] = j /\ answer'[c] = a
        /\ \A d \in Conns : d # c => job'[d] = job[d] /\ answer'[d] = answer[d]
        /\ asked' \in 0 .. MaxRequests
    BY Others DEF IInv
  <1>2. /\ DOMAIN handler' = Conns /\ handler'[c] = new
        /\ \A d \in Conns : d # c => handler'[d] = handler[d]
    BY DEF IInv, TypeInv
  <1>3. ASSUME NEW d \in Conns PROVE JobOK(d, job[d])'
    <2>1. CASE d = c
      BY <1>1, <2>1 DEF JobOK
    <2>2. CASE d # c
      <3>1. JobOK(d, job[d]) /\ job'[d] = job[d] /\ handler'[d] = handler[d]
        BY <1>1, <1>2, <2>2 DEF IInv, TypeInv
      <3> QED
        BY <3>1 DEF JobOK
    <2> QED
      BY <2>1, <2>2
  <1>4. \A d \in Conns : job'[d] # Idle => answer'[d] = NoAnswer
    BY <1>1 DEF IInv, TypeInv
  <1>5. \A d \in Conns : HandlerOK(handler'[d])
    BY <1>2 DEF IInv, TypeInv
  <1>6. TypeInv'
    BY <1>1, <1>2, <1>3, <1>4, <1>5 DEF IInv, TypeInv
  <1>7. ASSUME NEW w \in acked PROVE AckOK(w)'
    <2>1. AckOK(w)
      BY DEF IInv
    <2>2. CASE w.conn # c
      BY <1>2, <2>1, <2>2 DEF AckOK
    <2>3. CASE w.conn = c
      <3>1. handler[c].next_handle \in Nat /\ new.next_handle \in Nat
            /\ handler[c].next_handle <= new.next_handle
        BY DEF IInv, TypeInv, HandlerOK, Keeps
      <3>2. w.handle \in 0 .. handler[c].next_handle - 1
        BY <2>1, <2>3 DEF AckOK
      <3>3. w.handle \in DOMAIN new.open_files
               => /\ w.handle \in DOMAIN handler[c].open_files
                  /\ new.open_files[w.handle] = handler[c].open_files[w.handle]
        BY <3>1, <3>2 DEF Keeps
      <3>4. w.handle \in 0 .. new.next_handle - 1
        BY <3>1, <3>2
      <3> QED
        BY <1>2, <2>1, <2>3, <3>3, <3>4 DEF AckOK
    <2> QED
      BY <2>2, <2>3
  <1> QED
    BY <1>6, <1>7 DEF IInv, OneName, WritesKept, Holds

\* The tree changes: directories come and go, files go with what was written.
LEMMA TreeStep ==
    ASSUME IInv, NEW c \in Conns, NEW a, Becomes(c, Idle, a), UNCHANGED <<data, handler>>,
           acked' \subseteq acked,
           \A p \in DOMAIN fs' : /\ p # <<>>
                                 /\ (p \in DOMAIN fs /\ fs'[p] = fs[p]) \/ fs'[p] = Dir,
           \A w \in acked' : w.path \in DOMAIN fs' /\ fs'[w.path] = fs[w.path]
    PROVE  IInv'
  <1>1. /\ DOMAIN job' = Conns /\ DOMAIN answer' = Conns /\ job'[c] = Idle
        /\ \A d \in Conns : d # c => job'[d] = job[d] /\ answer'[d] = answer[d]
        /\ asked' \in 0 .. MaxRequests
    BY Others DEF IInv
  <1>2. ASSUME NEW d \in Conns PROVE JobOK(d, job[d])'
    <2>1. CASE d = c
      BY <1>1, <2>1, IdleOK DEF JobOK
    <2>2. CASE d # c
      <3>1. JobOK(d, job[d]) /\ job'[d] = job[d]
        BY <1>1, <2>2 DEF IInv, TypeInv
      <3> QED
        BY <3>1 DEF JobOK
    <2> QED
      BY <2>1, <2>2
  <1>3. \A d \in Conns : job'[d] # Idle => answer'[d] = NoAnswer
    BY <1>1 DEF IInv, TypeInv
  <1>4. \A p \in DOMAIN fs' : p # <<>> /\ fs'[p] \in {Dir} \cup Inodes
    BY DEF IInv, TypeInv
  <1>5. TypeInv'
    BY <1>1, <1>2, <1>3, <1>4 DEF IInv, TypeInv
  <1>6. OneName'
    BY DEF IInv, OneName
  <1>7. \A w \in acked' : AckOK(w)'
    BY DEF IInv, AckOK
  <1>8. WritesKept'
    BY DEF IInv, WritesKept, Holds
  <1> QED
    BY <1>5, <1>6, <1>7, <1>8 DEF IInv

-----------------------------------------------------------------------------
(* The actions. *)

\* No handler does what HandlesKept forbids.
AllKeep == \A d \in Conns : Keeps(handler[d], handler'[d])

LEMMA SameHandlers ==
    ASSUME IInv, UNCHANGED handler
    PROVE  AllKeep
  BY KeepsSame DEF AllKeep, IInv, TypeInv

LEMMA ChangedHandler ==
    ASSUME IInv, NEW c \in Conns, NEW new, handler' = [handler EXCEPT ![c] = new],
           Keeps(handler[c], new)
    PROVE  AllKeep
  <1>1. \A d \in Conns : handler'[d] = IF d = c THEN new ELSE handler[d]
    BY DEF IInv, TypeInv
  <1>2. \A d \in Conns : Keeps(handler[d], handler[d])
    BY KeepsSame DEF IInv, TypeInv
  <1> QED
    BY <1>1, <1>2 DEF AllKeep

LEMMA AnsweredQuietly ==
    ASSUME IInv, NEW c \in Conns, NEW a, Answers(c, a), asked' \in 0 .. MaxRequests,
           UNCHANGED <<fs, data, handler, acked>>
    PROVE  IInv' /\ AllKeep
  <1>1. Becomes(c, Idle, a)
    BY AnswersBecomes
  <1>2. JobOK(c, Idle)
    BY IdleOK
  <1> QED
    BY <1>1, <1>2, QuietStep, SameHandlers

LEMMA ContinuedQuietly ==
    ASSUME IInv, NEW c \in Conns, NEW j, Continues(c, j), asked' \in 0 .. MaxRequests,
           JobOK(c, j), UNCHANGED <<fs, data, handler, acked>>
    PROVE  IInv' /\ AllKeep
  <1>1. Becomes(c, j, NoAnswer)
    BY ContinuesBecomes
  <1> QED
    BY <1>1, QuietStep, SameHandlers

LEMMA Resolving ==
    ASSUME IInv, NEW c \in Conns, NEW op, op # "write", NEW denied, Resolves(c, op, denied)
    PROVE  IInv' /\ AllKeep
  <1>1. asked' \in 0 .. MaxRequests /\ UNCHANGED <<fs, data, handler, acked>>
    BY Receiving DEF IInv, Resolves
  <1>2. PICK r \in Requested :
           LET p == resolve_path(fs, links, r)
           IN  IF p = Denied THEN Answers(c, Status(denied)) ELSE Continues(c, Job(op, p))
    BY DEF Resolves
  <1>3. CASE Answers(c, Status(denied))
    BY <1>1, <1>3, AnsweredQuietly
  <1>4. CASE resolve_path(fs, links, r) # Denied /\ Continues(c, Job(op, resolve_path(fs, links, r)))
    <2>1. JobOK(c, Job(op, resolve_path(fs, links, r)))
      BY PathJobOK
    <2> QED
      BY <1>1, <1>4, <2>1, ContinuedQuietly
  <1> QED
    BY <1>2, <1>3, <1>4

\* A request in progress does what it was received for.
LEMMA InProgress ==
    ASSUME IInv, NEW c \in Conns, NEW op, op # "idle", Doing(c, op)
    PROVE  asked' \in 0 .. MaxRequests /\ job[c] # Idle /\ answer[c] = NoAnswer
  BY IdleFields DEF IInv, TypeInv, Doing, JobOK

LEMMA BadRequestStep ==
    ASSUME IInv, NEW c \in Conns, BadRequest(c) \/ handle_realpath(c)
    PROVE  IInv' /\ AllKeep
  <1>1. Receives(c) /\ UNCHANGED <<fs, data, handler, acked>> /\ \E a : Answers(c, a)
    BY DEF BadRequest, handle_realpath
  <1>2. asked' \in 0 .. MaxRequests
    BY <1>1, Receiving DEF IInv
  <1> QED
    BY <1>1, <1>2, AnsweredQuietly

LEMMA StatStep ==
    ASSUME IInv, NEW c \in Conns, handle_stat(c)
    PROVE  IInv' /\ AllKeep
  <1>1. CASE Resolves(c, "stat", "NO_SUCH_FILE")
    BY <1>1, Resolving
  <1>2. CASE Doing(c, "stat") /\ UNCHANGED <<fs, data, handler, acked>> /\ \E a : Answers(c, a)
    <2>1. asked' \in 0 .. MaxRequests
      BY <1>2, InProgress
    <2> QED
      BY <1>2, <2>1, AnsweredQuietly
  <1> QED
    BY <1>1, <1>2 DEF handle_stat

\* Something is made in a directory, so its path is not empty.
LEMMA CreatedPath ==
    ASSUME IInv, NEW p, CanCreate(p)
    PROVE  p \notin DOMAIN fs /\ p \notin DOMAIN links /\ p # <<>> /\ IsDir(fs, Front(p))
  <1>1. Front(p) \in DOMAIN fs /\ <<>> \notin DOMAIN fs
    BY DEF CanCreate, IsDir, IInv, TypeInv
  <1>2. p # <<>>
    <2> SUFFICES ASSUME p = <<>> PROVE FALSE
      OBVIOUS
    <2>1. Len(p) = 0 /\ \A q : SubSeq(p, 1, -1) = <<>>
      OBVIOUS
    <2>2. Front(p) = <<>>
      BY <2>1 DEF Front
    <2> QED
      BY <1>1, <2>2
  <1> QED
    BY <1>2 DEF CanCreate, Exists

LEMMA MkdirStep ==
    ASSUME IInv, NEW c \in Conns, handle_mkdir(c)
    PROVE  IInv' /\ AllKeep
  <1>1. CASE Resolves(c, "mkdir", "PERMISSION_DENIED")
    BY <1>1, Resolving
  <1>2. ASSUME Doing(c, "mkdir"), UNCHANGED <<data, handler, acked>>,
               IF CanCreate(Located(job[c]))
               THEN fs' = Extend(fs, Located(job[c]), Dir) /\ Answers(c, Status("OK"))
               ELSE UNCHANGED fs /\ Answers(c, Status("FAILURE"))
        PROVE  IInv' /\ AllKeep
    <2>1. asked' \in 0 .. MaxRequests
      BY <1>2, InProgress
    <2>2. CASE CanCreate(Located(job[c]))
      <3> DEFINE p == Located(job[c])
      <3>1. /\ p \notin DOMAIN fs /\ p # <<>> /\ fs' = Extend(fs, p, Dir)
            /\ Becomes(c, Idle, Status("OK"))
        BY <1>2, <2>1, <2>2, AnswersBecomes, CreatedPath
      <3>2. /\ DOMAIN fs' = DOMAIN fs \cup {p} /\ fs'[p] = Dir
            /\ \A x \in DOMAIN fs : fs'[x] = fs[x]
        BY <3>1 DEF Extend
      <3>3. \A x \in DOMAIN fs : x # <<>>
        BY DEF IInv, TypeInv
      <3>4. \A w \in acked : w.path \in DOMAIN fs
        BY DEF IInv, AckOK
      <3> HIDE DEF p
      <3>5. IInv'
        BY <1>2, <3>1, <3>2, <3>3, <3>4, TreeStep
      <3> QED
        BY <1>2, <3>5, SameHandlers
    <2>3. CASE ~CanCreate(Located(job[c]))
      BY <1>2, <2>1, <2>3, AnsweredQuietly
    <2> QED
      BY <2>2, <2>3
  <1> QED
    BY <1>1, <1>2 DEF handle_mkdir

LEMMA RmdirStep ==
    ASSUME IInv, NEW c \in Conns, handle_rmdir(c)
    PROVE  IInv' /\ AllKeep
  <1>1. CASE Resolves(c, "rmdir", "PERMISSION_DENIED")
    BY <1>1, Resolving
  <1>2. ASSUME Doing(c, "rmdir"), UNCHANGED <<data, handler, acked>>,
               \/ /\ IsDir(fs, Located(job[c]))
                  /\ fs' = Without(fs, Located(job[c])) /\ Answers(c, Status("OK"))
               \/ UNCHANGED fs /\ Answers(c, Status("FAILURE"))
        PROVE  IInv' /\ AllKeep
    <2>1. asked' \in 0 .. MaxRequests
      BY <1>2, InProgress
    <2>2. CASE IsDir(fs, Located(job[c])) /\ fs' = Without(fs, Located(job[c]))
               /\ Answers(c, Status("OK"))
      <3> DEFINE p == Located(job[c])
      <3>1. fs[p] = Dir /\ fs' = Without(fs, p) /\ Becomes(c, Idle, Status("OK"))
        BY <2>1, <2>2, AnswersBecomes DEF IsDir
      <3>2. DOMAIN fs' = DOMAIN fs \ {p} /\ \A x \in DOMAIN fs : x # p => fs'[x] = fs[x]
        BY <3>1 DEF Without
      <3>3. \A x \in DOMAIN fs : x # <<>>
        BY DEF IInv, TypeInv
      <3>4. \A w \in acked : w.path \in DOMAIN fs /\ w.path # p
        BY <3>1 DEF IInv, AckOK
      <3> HIDE DEF p
      <3>5. IInv'
        BY <1>2, <3>1, <3>2, <3>3, <3>4, TreeStep
      <3> QED
        BY <1>2, <3>5, SameHandlers
    <2>3. CASE UNCHANGED fs /\ Answers(c, Status("FAILURE"))
      BY <1>2, <2>1, <2>3, AnsweredQuietly
    <2> QED
      BY <1>2, <2>2, <2>3
  <1> QED
    BY <1>1, <1>2 DEF handle_rmdir

LEMMA RemoveStep ==
    ASSUME IInv, NEW c \in Conns, handle_remove(c)
    PROVE  IInv' /\ AllKeep
  <1>1. CASE Resolves(c, "remove", "PERMISSION_DENIED")
    BY <1>1, Resolving
  <1>2. ASSUME Doing(c, "remove"), UNCHANGED <<data, handler>>, NEW p,
               \/ /\ fs' = Without(fs, p)
                  /\ acked' = {w \in acked : w.path # p}
                  /\ Answers(c, Status("OK"))
               \/ UNCHANGED <<fs, acked>> /\ \E a : Answers(c, a)
        PROVE  IInv' /\ AllKeep
    <2>1. asked' \in 0 .. MaxRequests
      BY <1>2, InProgress
    <2>2. CASE /\ fs' = Without(fs, p)
               /\ acked' = {w \in acked : w.path # p}
               /\ Answers(c, Status("OK"))
      <3>1. Becomes(c, Idle, Status("OK"))
        BY <2>1, <2>2, AnswersBecomes
      <3>2. DOMAIN fs' = DOMAIN fs \ {p} /\ \A x \in DOMAIN fs : x # p => fs'[x] = fs[x]
        BY <2>2 DEF Without
      <3>3. \A x \in DOMAIN fs : x # <<>>
        BY DEF IInv, TypeInv
      <3>4. \A w \in acked' : w \in acked /\ w.path \in DOMAIN fs /\ w.path # p
        BY <2>2 DEF IInv, AckOK
      <3>5. IInv'
        BY <1>2, <3>1, <3>2, <3>3, <3>4, TreeStep
      <3> QED
        BY <1>2, <3>5, SameHandlers
    <2>3. CASE UNCHANGED <<fs, acked>> /\ \E a : Answers(c, a)
      BY <1>2, <2>1, <2>3, AnsweredQuietly
    <2> QED
      BY <1>2, <2>2, <2>3
  <1> QED
    BY <1>1, <1>2 DEF handle_remove

\* The handler of c becomes one that keeps what it must, and c is answered.
LEMMA HandlerAnswered ==
    ASSUME IInv, NEW c \in Conns, NEW a, Answers(c, a), asked' \in 0 .. MaxRequests,
           UNCHANGED <<fs, data, acked>>,
           NEW new, handler' = [handler EXCEPT ![c] = new],
           HandlerOK(new), Keeps(handler[c], new)
    PROVE  IInv' /\ AllKeep
  <1>1. Becomes(c, Idle, a)
    BY AnswersBecomes
  <1> QED
    BY <1>1, IdleOK, HandlerStep, ChangedHandler

LEMMA CountersTyped ==
    ASSUME IInv, NEW c \in Conns
    PROVE  handler[c].next_handle \in Nat /\ asked \in 0 .. MaxRequests
  <1>1. HandlerOK(handler[c]) /\ asked \in 0 .. MaxRequests
    BY DEF IInv, TypeInv
  <1> QED
    BY <1>1 DEF HandlerOK

\* A directory is opened by a request that was counted, so the counter does
\* not wrap.
LEMMA OpendirCounts ==
    ASSUME IInv, CountInv, NoWrap, NEW c \in Conns, Doing(c, "opendir")
    PROVE  handler[c].next_handle < U32_MAX
  <1>1. job[c] # Idle
    BY InProgress
  <1>2. handler[c].next_handle \in Nat /\ asked \in 0 .. MaxRequests
    BY CountersTyped
  <1>3. handler[c].next_handle < asked
    BY <1>1 DEF CountInv
  <1> QED
    BY <1>2, <1>3, SftpAssumption DEF NoWrap

LEMMA ReceivingCounts ==
    ASSUME IInv, CountInv, NoWrap, NEW c \in Conns, Receives(c)
    PROVE  handler[c].next_handle < U32_MAX
  <1>1. handler[c].next_handle \in Nat /\ asked \in 0 .. MaxRequests
    BY CountersTyped
  <1>2. handler[c].next_handle <= asked /\ asked < MaxRequests
    BY DEF CountInv, Receives
  <1> QED
    BY <1>1, <1>2, SftpAssumption DEF NoWrap

LEMMA OpendirStep ==
    ASSUME IInv, CountInv, NoWrap, NEW c \in Conns, handle_opendir(c)
    PROVE  IInv' /\ AllKeep
  <1>1. CASE Resolves(c, "opendir", "NO_SUCH_FILE")
    BY <1>1, Resolving
  <1> DEFINE h == handler[c]
             e == [path |-> job[c].path, listed |-> FALSE]
             new == [alloc_handle(h) EXCEPT !.open_dirs = Extend(@, h.next_handle, e)]
  <1>2. ASSUME Doing(c, "opendir"), UNCHANGED <<fs, data, acked>>,
               \/ handler' = [handler EXCEPT ![c] = new] /\ Answers(c, Handle(h.next_handle))
               \/ UNCHANGED handler /\ Answers(c, Status("NO_SUCH_FILE"))
        PROVE  IInv' /\ AllKeep
    <2>1. asked' \in 0 .. MaxRequests 
      BY <1>2, InProgress
    <2>2. CASE handler' = [handler EXCEPT ![c] = new] /\ Answers(c, Handle(h.next_handle))
      <3>1. HandlerOK(h)
        BY DEF IInv, TypeInv
      <3>2. DOMAIN e = {"path", "listed"} /\ h.next_handle < U32_MAX
        BY <1>2, OpendirCounts
      <3> HIDE DEF e
      <3>3. HandlerOK(new) /\ Keeps(h, new)
        <4> HIDE DEF h
        <4> QED
          BY <3>1, <3>2, OpenDirHandler
      <3> HIDE DEF new
      <3> QED
        BY <1>2, <2>1, <2>2, <3>3, HandlerAnswered
    <2>3. CASE UNCHANGED handler /\ Answers(c, Status("NO_SUCH_FILE"))
      BY <1>2, <2>1, <2>3, AnsweredQuietly
    <2> QED
      BY <1>2, <2>2, <2>3
  <1> QED
    BY <1>1, <1>2 DEF handle_opendir

\* The handle of a directory is marked, and the listing begins or is refused.
LEMMA ReaddirOpensStep ==
    ASSUME IInv, NEW c \in Conns, ReaddirOpens(c)
    PROVE  IInv' /\ AllKeep
  <1> DEFINE old == handler[c]
             new(h) == [old EXCEPT !.open_dirs[h].listed = TRUE]
  <1>1. asked' \in 0 .. MaxRequests /\ UNCHANGED <<fs, data, acked>>
    BY Receiving DEF ReaddirOpens, IInv
  <1>2. PICK h \in Handles :
           \/ UNCHANGED handler /\ \E a : Answers(c, a)
           \/ /\ h \in DOMAIN old.open_dirs
              /\ handler' = [handler EXCEPT ![c].open_dirs[h].listed = TRUE]
              /\ (\E a : Answers(c, a)) \/ \E p, todo : Continues(c, ListJob(p, todo))
    BY DEF ReaddirOpens, ListJob
  <1>3. CASE UNCHANGED handler /\ \E a : Answers(c, a)
    BY <1>1, <1>3, AnsweredQuietly
  <1>4. CASE /\ h \in DOMAIN old.open_dirs
             /\ handler' = [handler EXCEPT ![c].open_dirs[h].listed = TRUE]
             /\ (\E a : Answers(c, a)) \/ \E p, todo : Continues(c, ListJob(p, todo))
    <2>1. handler' = [handler EXCEPT ![c] = new(h)]
      BY <1>4
    <2>2. HandlerOK(old)
      BY DEF IInv, TypeInv
    <2>3. HandlerOK(new(h)) /\ Keeps(old, new(h))
      <3> HIDE DEF old
      <3> QED
        BY <1>4, <2>2, ListedHandler
    <2> HIDE DEF new
    <2>4. CASE \E a : Answers(c, a)
      BY <1>1, <2>1, <2>3, <2>4, HandlerAnswered
    <2>5. CASE \E p, todo : Continues(c, ListJob(p, todo))
      <3>1. PICK p, todo : Continues(c, ListJob(p, todo))
        BY <2>5
      <3>2. PICK k : k = ListJob(p, todo)
        OBVIOUS
      <3>3. Becomes(c, k, NoAnswer)
        BY <1>1, <3>1, <3>2, ContinuesBecomes
      <3>4. JobOK(c, k)'
        BY <3>2, ListJobOK
      <3> QED
        BY <1>1, <2>1, <2>3, <3>3, <3>4, HandlerStep, ChangedHandler
    <2> QED
      BY <1>4, <2>4, <2>5
  <1> QED
    BY <1>2, <1>3, <1>4

LEMMA ReaddirReadsStep ==
    ASSUME IInv, NEW c \in Conns, ReaddirReads(c)
    PROVE  IInv' /\ AllKeep
  <1>1. asked' \in 0 .. MaxRequests /\ UNCHANGED <<fs, data, handler, acked>>
    BY InProgress DEF ReaddirReads
  <1>2. PICK todo, entries :
           Continues(c, [job[c] EXCEPT !.todo = todo, !.entries = entries])
    BY DEF ReaddirReads
  <1>3. PICK k : k = [job[c] EXCEPT !.todo = todo, !.entries = entries]
    OBVIOUS
  <1>4. JobOK(c, job[c]) /\ job[c].op = "readdir"
    BY DEF IInv, TypeInv, ReaddirReads, Doing
  <1>5. /\ DOMAIN k = DOMAIN job[c] /\ k.op = job[c].op /\ k.path = job[c].path
        /\ k.inode = job[c].inode /\ k.off = job[c].off /\ k.len = job[c].len
    BY <1>3, <1>4 DEF JobOK
  <1>6. JobOK(c, k)
    BY <1>4, <1>5 DEF JobOK
  <1> QED
    BY <1>1, <1>2, <1>3, <1>6, ContinuedQuietly

LEMMA ReaddirAnswersStep ==
    ASSUME IInv, NEW c \in Conns, ReaddirAnswers(c)
    PROVE  IInv' /\ AllKeep
  <1>1. asked' \in 0 .. MaxRequests
    BY InProgress DEF ReaddirAnswers
  <1>2. UNCHANGED <<fs, data, handler, acked>> /\ \E a : Answers(c, a)
    BY DEF ReaddirAnswers
  <1> QED
    BY <1>1, <1>2, AnsweredQuietly

LEMMA CloseStep ==
    ASSUME IInv, NEW c \in Conns, handle_close(c)
    PROVE  IInv' /\ AllKeep
  <1> DEFINE old == handler[c]
             new(h) == [old EXCEPT !.open_files = Without(@, h), !.open_dirs = Without(@, h)]
  <1>1. asked' \in 0 .. MaxRequests /\ UNCHANGED <<fs, data, acked>> /\ Answers(c, Status("OK"))
    BY Receiving DEF handle_close, IInv
  <1>2. PICK h \in Handles :
           handler' = [handler EXCEPT ![c].open_files = Without(@, h),
                                      ![c].open_dirs = Without(@, h)]
    BY DEF handle_close
  <1>3. handler' = [handler EXCEPT ![c] = new(h)]
    BY <1>2 DEF IInv, TypeInv
  <1>4. HandlerOK(old)
    BY DEF IInv, TypeInv
  <1>5. HandlerOK(new(h)) /\ Keeps(old, new(h))
    <2> HIDE DEF old
    <2> QED
      BY <1>4, ClosedHandler
  <1> HIDE DEF new
  <1> QED
    BY <1>1, <1>3, <1>5, HandlerAnswered

LEMMA OpenStep ==
    ASSUME IInv, CountInv, NoWrap, NEW c \in Conns, handle_open(c)
    PROVE  IInv' /\ AllKeep
  <1> DEFINE h == handler[c]
             e(p, flags) == [path |-> p, flags |-> flags]
             new(p, flags) ==
                [alloc_handle(h) EXCEPT !.open_files = Extend(@, h.next_handle, e(p, flags))]
  <1>1. asked' \in 0 .. MaxRequests /\ UNCHANGED <<fs, data, acked>>
    BY Receiving DEF handle_open, IInv
  <1>2. PICK r \in Requested, flags \in FlagSets :
           \/ UNCHANGED handler /\ Answers(c, Status("NO_SUCH_FILE"))
           \/ /\ resolve_path(fs, links, r) # Denied
              /\ handler' = [handler EXCEPT ![c] = new(resolve_path(fs, links, r), flags)]
              /\ Answers(c, Handle(h.next_handle))
    BY DEF handle_open
  <1>3. CASE UNCHANGED handler /\ Answers(c, Status("NO_SUCH_FILE"))
    BY <1>1, <1>3, AnsweredQuietly
  <1>4. CASE /\ resolve_path(fs, links, r) # Denied
             /\ handler' = [handler EXCEPT ![c] = new(resolve_path(fs, links, r), flags)]
             /\ Answers(c, Handle(h.next_handle))
    <2> DEFINE p == resolve_path(fs, links, r)
    <2>1. HandlerOK(h)
      BY DEF IInv, TypeInv
    <2>2. h.next_handle < U32_MAX
      BY ReceivingCounts DEF handle_open
    <2>3. HandlerOK(new(p, flags)) /\ Keeps(h, new(p, flags))
      <3> HIDE DEF h, e, p
      <3> QED
        BY <2>1, <2>2, OpenFileHandler
    <2> HIDE DEF new
    <2> QED
      BY <1>1, <1>4, <2>3, HandlerAnswered
  <1> QED
    BY <1>2, <1>3, <1>4

LEMMA SystemFailsStep ==
    ASSUME IInv, NEW c \in Conns, SystemFails(c)
    PROVE  IInv' /\ AllKeep
  <1>1. asked' \in 0 .. MaxRequests
    BY DEF SystemFails, IInv, TypeInv
  <1> QED
    BY <1>1, AnsweredQuietly DEF SystemFails

LEMMA ReadReadsStep ==
    ASSUME IInv, NEW c \in Conns, ReadReads(c)
    PROVE  IInv' /\ AllKeep
  <1>1. asked' \in 0 .. MaxRequests
    BY InProgress DEF ReadReads
  <1>2. UNCHANGED <<fs, data, handler, acked>> /\ \E a : Answers(c, a)
    BY DEF ReadReads
  <1> QED
    BY <1>1, <1>2, AnsweredQuietly

LEMMA ReadOpensStep ==
    ASSUME IInv, NEW c \in Conns, ReadOpens(c)
    PROVE  IInv' /\ AllKeep
  <1>1. asked' \in 0 .. MaxRequests /\ UNCHANGED <<fs, data, handler, acked>>
    BY Receiving DEF ReadOpens, IInv
  <1>2. \/ \E a : Answers(c, a)
        \/ \E h \in Handles, off \in Offsets, len \in Lengths : \E p \in DOMAIN fs :
              Continues(c, FileJob("read", p, fs[p], h, off, len))
    BY DEF ReadOpens, FileJob
  <1>3. CASE \E a : Answers(c, a)
    BY <1>1, <1>3, AnsweredQuietly
  <1>4. ASSUME NEW h \in Handles, NEW off \in Offsets, NEW len \in Lengths,
               NEW p \in DOMAIN fs, Continues(c, FileJob("read", p, fs[p], h, off, len))
        PROVE  IInv' /\ AllKeep
    <2>1. PICK k : k = FileJob("read", p, fs[p], h, off, len)
      OBVIOUS
    <2>2. /\ k.op = "read" /\ k.path = p /\ k.inode = fs[p] /\ k.off = off /\ k.len = len
          /\ DOMAIN k = DOMAIN Idle
      BY <2>1, FileJobFields
    <2>3. off \in Nat /\ len \in Nat /\ fs[p] \in {Dir} \cup Inodes
      BY SftpAssumption DEF IInv, TypeInv
    <2>4. JobOK(c, k)
      BY <2>2, <2>3, IdleFields DEF JobOK, IInv, OneName
    <2> QED
      BY <1>1, <1>4, <2>1, <2>4, ContinuedQuietly
  <1> QED
    BY <1>2, <1>3, <1>4

\* A WRITE: a file may be made, with an inode that nobody uses, and files change.
LEMMA FileStep ==
    ASSUME IInv, NEW c \in Conns, NEW j, NEW a, Becomes(c, j, a), j # Idle => a = NoAnswer,
           JobOK(c, j)', UNCHANGED handler,
           data' \in [Inodes -> Seq(Conns \cup {Zero})],
           \A p \in DOMAIN fs' :
              p # <<>> /\ ((p \in DOMAIN fs /\ fs'[p] = fs[p]) \/ fs'[p] \in Free),
           OneName',
           \A w \in acked' : AckOK(w)' /\ (w.trunc \/ Holds(w)')
    PROVE  IInv' /\ AllKeep
  <1>1. /\ DOMAIN job' = Conns /\ DOMAIN answer' = Conns /\ job'[c] = j /\ answer'[c] = a
        /\ \A d \in Conns : d # c => job'[d] = job[d] /\ answer'[d] = answer[d]
        /\ asked' \in 0 .. MaxRequests
    BY Others DEF IInv
  <1>2. ASSUME NEW d \in Conns PROVE JobOK(d, job[d])'
    <2>1. CASE d = c
      BY <1>1, <2>1 DEF JobOK
    <2>2. CASE d # c
      <3>1. JobOK(d, job[d]) /\ job'[d] = job[d] /\ job[d].inode \in InUse
        BY <1>1, <2>2 DEF IInv, TypeInv, InUse
      <3>2. \A p \in DOMAIN fs' : fs'[p] = job[d].inode => p \in DOMAIN fs /\ fs'[p] = fs[p]
        BY <3>1 DEF Free
      <3> QED
        BY <3>1, <3>2 DEF JobOK
    <2> QED
      BY <2>1, <2>2
  <1>3. \A d \in Conns : job'[d] # Idle => answer'[d] = NoAnswer
    BY <1>1 DEF IInv, TypeInv
  <1>4. \A p \in DOMAIN fs' : p # <<>> /\ fs'[p] \in {Dir} \cup Inodes
    BY DEF IInv, TypeInv, Free
  <1>5. TypeInv'
    BY <1>1, <1>2, <1>3, <1>4 DEF IInv, TypeInv
  <1> QED
    BY <1>5, SameHandlers DEF IInv, WritesKept

\* What a WRITE in progress relies on.
LEMMA WriteInProgress ==
    ASSUME IInv, NEW c \in Conns, Doing(c, "write")
    PROVE  /\ job[c].inode \in Inodes /\ job[c].inode # Dir
           /\ job[c].off \in Nat /\ job[c].len \in Nat
           /\ \A p \in DOMAIN fs : fs[p] = job[c].inode => p = job[c].path
           /\ job[c].handle \in DOMAIN handler[c].open_files
  <1>1. JobOK(c, job[c]) /\ job[c].op = "write"
    BY DEF IInv, TypeInv, Doing
  <1> QED
    BY <1>1 DEF JobOK

\* How the first n bytes of a WRITE change the file it has open.
LEMMA BytesWritten ==
    ASSUME IInv, NEW c \in Conns, Doing(c, "write"), NEW n \in Nat, WritesBytes(c, n)
    PROVE  /\ data' \in [Inodes -> Seq(Conns \cup {Zero})]
           /\ \A i \in Inodes : i # job[c].inode => data'[i] = data[i]
           /\ WrittenAt(Conns \cup {Zero}, data[job[c].inode], job[c].off, n, c,
                        data'[job[c].inode])
  <1> DEFINE X == Conns \cup {Zero}
             i == job[c].inode
             off == job[c].off
             old == data[i]
             now == WriteAt(old, off, n, c)
  <1>1. i \in Inodes /\ off \in Nat
    BY WriteInProgress
  <1>2. data \in [Inodes -> Seq(X)] /\ Zero \in X /\ c \in X
    BY DEF IInv, TypeInv
  <1>3. data' = [data EXCEPT ![i] = now]
    BY DEF WritesBytes
  <1>4. WrittenAt(X, old, off, n, c, now)
    <2>1. old \in Seq(X)
      <3> HIDE DEF X
      <3> QED
        BY <1>1, <1>2
    <2> HIDE DEF X, old, off
    <2> QED
      BY <1>1, <1>2, <2>1, WriteAtFacts
  <1>5. now \in Seq(X)
    BY <1>4 DEF WrittenAt
  <1> HIDE DEF now, X
  <1>6. /\ data' \in [Inodes -> Seq(X)] /\ data'[i] = now
        /\ \A k \in Inodes : k # i => data'[k] = data[k]
    BY <1>1, <1>2, <1>3, <1>5
  <1>7. WrittenAt(X, old, off, n, c, data'[i])
    BY <1>4, <1>6
  <1> QED
    BY <1>6, <1>7 DEF X

\* Some bytes are written: of what was acknowledged the rest is still there, and
\* with it what is acknowledged now.
LEMMA WritingStep ==
    ASSUME IInv, NEW c \in Conns, Doing(c, "write"), NEW n \in Nat, WritesBytes(c, n),
           UNCHANGED <<fs, handler>>, NEW a, Answers(c, a),
           NEW more, acked' = Spared(job[c], n) \cup more,
           \A w \in more : AckOK(w)' /\ Holds(w)'
    PROVE  IInv' /\ AllKeep
  <1> DEFINE X == Conns \cup {Zero}
             j == job[c]
  <1>1. asked' \in 0 .. MaxRequests
    BY InProgress
  <1>2. Becomes(c, Idle, a) /\ JobOK(c, Idle)' /\ OneName'
    BY <1>1, AnswersBecomes, IdleOK DEF IInv, OneName
  <1>3. /\ j.inode \in Inodes /\ j.inode # Dir /\ j.off \in Nat
        /\ \A p \in DOMAIN fs : fs[p] = j.inode => p = j.path
    BY WriteInProgress
  <1>4. /\ data' \in [Inodes -> Seq(X)]
        /\ \A i \in Inodes : i # j.inode => data'[i] = data[i]
    BY BytesWritten
  <1>5. \A i \in Nat : i + 1 \in DOMAIN data[j.inode] /\ i \notin j.off .. j.off + n - 1
           => i + 1 \in DOMAIN data'[j.inode] /\ data'[j.inode][i + 1] = data[j.inode][i + 1]
    <2>1. WrittenAt(X, data[j.inode], j.off, n, c, data'[j.inode])
      BY BytesWritten
    <2> QED
      BY <2>1 DEF WrittenAt
  <1> HIDE DEF X
  <1>6. ASSUME NEW w \in Spared(j, n) PROVE AckOK(w)' /\ (w.trunc \/ Holds(w)')
    <2>1. w \in acked /\ (fs[w.path] = j.inode => w.off \notin j.off .. j.off + n - 1)
      <3>1. w \in acked
        BY DEF Spared
      <3>2. w.path \in DOMAIN fs
        BY <3>1 DEF IInv, AckOK
      <3>3. fs[w.path] = j.inode => w.path = j.path
        BY <1>3, <3>2
      <3> QED
        BY <3>1, <3>2, <3>3 DEF Spared
    <2>2. AckOK(w) /\ (w.trunc \/ Holds(w))
      BY <2>1 DEF IInv, WritesKept
    <2>3. AckOK(w)'
      BY <2>2 DEF AckOK
    <2>4. w.off \in Nat /\ fs[w.path] \in Inodes
      BY <2>2 DEF AckOK, IInv, TypeInv
    <2>5. ASSUME Holds(w) PROVE Holds(w)'
      <3>1. CASE fs[w.path] # j.inode
        BY <1>4, <2>4, <2>5, <3>1 DEF Holds
      <3>2. CASE fs[w.path] = j.inode
        <4>1. w.off + 1 \in DOMAIN data[j.inode] /\ data[j.inode][w.off + 1] = w.conn
          BY <2>5, <3>2 DEF Holds
        <4>2. w.off + 1 \in DOMAIN data'[j.inode] /\ data'[j.inode][w.off + 1] = w.conn
          BY <1>5, <2>1, <2>4, <3>2, <4>1
        <4> QED
          BY <2>5, <3>2, <4>2 DEF Holds
      <3> QED
        BY <3>1, <3>2
    <2> QED
      BY <2>2, <2>3, <2>5
  <1>7. \A w \in acked' : AckOK(w)' /\ (w.trunc \/ Holds(w)')
    BY <1>6
  <1>8. \A p \in DOMAIN fs' : p # <<>> /\ p \in DOMAIN fs /\ fs'[p] = fs[p]
    BY DEF IInv, TypeInv
  <1> QED
    BY <1>2, <1>4, <1>7, <1>8, FileStep DEF X

LEMMA WriteWritesStep ==
    ASSUME IInv, NEW c \in Conns, WriteWrites(c)
    PROVE  IInv' /\ AllKeep
  <1> DEFINE j == job[c]
             flags == handler[c].open_files[j.handle].flags
  <1>1. /\ Doing(c, "write") /\ WritesBytes(c, j.len) /\ UNCHANGED <<fs, handler>>
        /\ Answers(c, Status("OK")) /\ acked' = Spared(j, j.len) \cup Acked(c, j)
    BY DEF WriteWrites
  <1>2. /\ j.inode \in Inodes /\ j.inode # Dir /\ j.off \in Nat /\ j.len \in Nat
        /\ j.handle \in DOMAIN handler[c].open_files
    BY <1>1, WriteInProgress
  <1>3. ASSUME NEW w \in Acked(c, j) PROVE AckOK(w)' /\ Holds(w)'
    <2>1. j.path \in DOMAIN fs /\ fs[j.path] = j.inode
      BY DEF Acked
    <2>2. PICK off \in j.off .. j.off + j.len - 1 :
             w = [conn |-> c, handle |-> j.handle, path |-> j.path, off |-> off,
                  trunc |-> "TRUNC" \in flags]
      BY <2>1 DEF Acked
    <2>3. /\ w.conn = c /\ w.handle = j.handle /\ w.path = j.path /\ w.off = off
          /\ w.trunc = ("TRUNC" \in flags) /\ w.trunc \in BOOLEAN
      BY <2>2
    <2>4. j.handle \in 0 .. handler[c].next_handle - 1
      <3>1. HandlerOK(handler[c])
        BY DEF IInv, TypeInv
      <3> QED
        BY <1>2, <3>1 DEF HandlerOK
    <2>5. off \in Nat
      BY <1>2
    <2>6. AckOK(w)'
      BY <1>1, <1>2, <2>1, <2>3, <2>4, <2>5 DEF AckOK
    <2>7. off + 1 \in DOMAIN data'[j.inode] /\ data'[j.inode][off + 1] = c
      <3>1. WrittenAt(Conns \cup {Zero}, data[j.inode], j.off, j.len, c, data'[j.inode])
        BY <1>1, <1>2, BytesWritten
      <3> QED
        BY <3>1 DEF WrittenAt
    <2> QED
      BY <1>1, <2>1, <2>3, <2>6, <2>7 DEF Holds
  <1> HIDE DEF j
  <1> QED
    BY <1>1, <1>2, <1>3, WritingStep DEF j

LEMMA WriteStopsStep ==
    ASSUME IInv, NEW c \in Conns, WriteStops(c)
    PROVE  IInv' /\ AllKeep
  <1>1. /\ Doing(c, "write") /\ UNCHANGED <<fs, handler>> /\ Answers(c, Status("FAILURE"))
    BY DEF WriteStops
  <1>2. PICK n \in 0 .. job[c].len - 1 : WritesBytes(c, n) /\ acked' = Spared(job[c], n)
    BY DEF WriteStops
  <1>3. n \in Nat
    BY <1>1, <1>2, WriteInProgress
  <1>4. PICK more : more = {}
    OBVIOUS
  <1>5. acked' = Spared(job[c], n) \cup more /\ \A w \in more : AckOK(w)' /\ Holds(w)'
    BY <1>2, <1>4
  <1> QED
    BY <1>1, <1>2, <1>3, <1>5, WritingStep

\* The request that follows once a WRITE has its file open.
LEMMA WriteJobOK ==
    ASSUME IInv, NEW c \in Conns, NEW h \in DOMAIN handler[c].open_files, NEW off \in Nat,
           NEW len \in Nat, NEW p, NEW i \in Inodes, p \in DOMAIN fs', fs'[p] = i, OneName',
           UNCHANGED handler
    PROVE  /\ JobOK(c, FileJob("write", p, i, h, off, len))'
           /\ FileJob("write", p, i, h, off, len) # Idle
  <1>1. PICK k : k = FileJob("write", p, i, h, off, len)
    OBVIOUS
  <1>2. /\ k.op = "write" /\ k.path = p /\ k.inode = i /\ k.handle = h /\ k.off = off
        /\ k.len = len /\ DOMAIN k = DOMAIN Idle
    BY <1>1, FileJobFields
  <1>3. i # Dir
    BY DEF Inodes, Dir
  <1>4. JobOK(c, k)' /\ k # Idle
    BY <1>2, <1>3, IdleFields DEF JobOK, OneName
  <1> QED
    BY <1>1, <1>4 DEF JobOK

\* An existing file is emptied: of what was written to it only that is still
\* expected, with no claim on its bytes, which this handle wrote.
LEMMA EmptyingStep ==
    ASSUME IInv, NEW c \in Conns, NEW h \in DOMAIN handler[c].open_files, NEW off \in Nat,
           NEW len \in Nat, NEW p \in DOMAIN fs, fs[p] # Dir, "TRUNC" \in handler[c].open_files[h].flags,
           data' = [data EXCEPT ![fs[p]] = <<>>], acked' = Emptied(c, h, p),
           UNCHANGED <<fs, handler>>,
           Becomes(c, FileJob("write", p, fs[p], h, off, len), NoAnswer)
    PROVE  IInv' /\ AllKeep
  <1> DEFINE X == Conns \cup {Zero}
  <1>1. OneName' /\ fs[p] \in Inodes /\ \A q \in DOMAIN fs : q # <<>>
    BY DEF IInv, OneName, TypeInv
  <1>2. JobOK(c, FileJob("write", p, fs[p], h, off, len))'
    <2>1. PICK i : i = fs[p]
      OBVIOUS
    <2>2. JobOK(c, FileJob("write", p, i, h, off, len))'
      BY <1>1, <2>1, WriteJobOK
    <2> QED
      BY <2>1, <2>2 DEF JobOK
  <1>3. data \in [Inodes -> Seq(X)] /\ <<>> \in Seq(X)
    BY DEF IInv, TypeInv
  <1>4. data' \in [Inodes -> Seq(X)] /\ \A i \in Inodes : i # fs[p] => data'[i] = data[i]
    <2> HIDE DEF X
    <2> QED
      BY <1>1, <1>3
  <1>5. ASSUME NEW w \in acked' PROVE AckOK(w)' /\ (w.trunc \/ Holds(w)')
    <2>1. w \in acked /\ (w.path = p => w.conn = c /\ w.handle = h)
      BY DEF Emptied
    <2>2. AckOK(w) /\ (w.trunc \/ Holds(w))
      BY <2>1 DEF IInv, WritesKept
    <2>3. AckOK(w)'
      BY <2>2 DEF AckOK
    <2>4. CASE w.path = p
      BY <2>1, <2>2, <2>3, <2>4 DEF AckOK
    <2>5. CASE w.path # p
      <3>1. fs[w.path] # fs[p] /\ fs[w.path] \in Inodes
        BY <2>2, <2>5 DEF AckOK, IInv, OneName, TypeInv
      <3> QED
        BY <1>4, <2>2, <2>3, <3>1 DEF Holds
    <2> QED
      BY <2>4, <2>5
  <1> HIDE DEF X
  <1> QED
    BY <1>1, <1>2, <1>4, <1>5, FileStep DEF X

\* A file is made, with an inode that neither a path nor a request holds.
LEMMA CreatingStep ==
    ASSUME IInv, NEW c \in Conns, NEW h \in DOMAIN handler[c].open_files, NEW off \in Nat,
           NEW len \in Nat, NEW p, NEW flags, CreatesFile(p, flags),
           UNCHANGED handler,
           Becomes(c, FileJob("write", p, fs'[p], h, off, len), NoAnswer)
    PROVE  IInv' /\ AllKeep
  <1> DEFINE X == Conns \cup {Zero}
  <1>1. PICK i \in Free : i = Min(Free)
    <2>1. Free \subseteq Nat /\ Free # {}
      BY SftpAssumption DEF Free, Inodes, CreatesFile
    <2> QED
      BY <2>1, MinIn
  <1>2. i \in Inodes /\ i # Dir /\ \A q \in DOMAIN fs : fs[q] # i
    <2>1. i \in Inodes /\ \A q \in DOMAIN fs : fs[q] # i
      BY <1>1 DEF Free, InUse
    <2> QED
      BY <2>1 DEF Inodes, Dir
  <1>3. /\ fs' = Extend(fs, p, i) /\ data' = [data EXCEPT ![i] = <<>>]
        /\ UNCHANGED acked /\ CanCreate(p)
    BY <1>1 DEF CreatesFile
  <1>  p \notin DOMAIN fs /\ p # <<>>
    BY <1>3, CreatedPath
  <1>4. /\ DOMAIN fs' = DOMAIN fs \cup {p} /\ fs'[p] = i
        /\ \A q \in DOMAIN fs : fs'[q] = fs[q]
    BY <1>3 DEF Extend
  <1>5. OneName'
    BY <1>2, <1>4 DEF IInv, OneName
  <1>6. \A q \in DOMAIN fs' :
           q # <<>> /\ ((q \in DOMAIN fs /\ fs'[q] = fs[q]) \/ fs'[q] \in Free)
    BY <1>4 DEF IInv, TypeInv
  <1>7. JobOK(c, FileJob("write", p, i, h, off, len))' /\ Becomes(c, FileJob("write", p, i, h, off, len), NoAnswer)
    BY <1>2, <1>4, <1>5, WriteJobOK
  <1>8. data \in [Inodes -> Seq(X)] /\ <<>> \in Seq(X)
    BY DEF IInv, TypeInv
  <1>9. data' \in [Inodes -> Seq(X)] /\ \A k \in Inodes : k # i => data'[k] = data[k]
    <2> HIDE DEF X
    <2> QED
      BY <1>2, <1>3, <1>8
  <1>10. ASSUME NEW w \in acked' PROVE AckOK(w)' /\ (w.trunc \/ Holds(w)')
    <2>1. AckOK(w) /\ (w.trunc \/ Holds(w))
      BY <1>3 DEF IInv, WritesKept
    <2>2. w.path \in DOMAIN fs /\ fs[w.path] # i /\ fs[w.path] \in Inodes
      BY <1>2, <2>1 DEF AckOK, IInv, TypeInv
    <2>3. AckOK(w)'
      BY <1>4, <2>1, <2>2 DEF AckOK
    <2> QED
      BY <1>4, <1>9, <2>1, <2>2, <2>3 DEF Holds
  <1> HIDE DEF X
  <1> QED
    BY <1>5, <1>6, <1>7, <1>9, <1>10, FileStep DEF X

LEMMA WriteOpensStep ==
    ASSUME IInv, NEW c \in Conns, WriteOpens(c)
    PROVE  IInv' /\ AllKeep
  <1> DEFINE path(h) == Follow(links, handler[c].open_files[h].path)
             flags(h) == handler[c].open_files[h].flags
  <1>1. asked' \in 0 .. MaxRequests /\ UNCHANGED handler
    BY Receiving DEF WriteOpens, IInv
  <1>2. PICK h \in Handles, off \in Offsets, len \in Sizes :
           \/ (\E a : Answers(c, a)) /\ UNCHANGED <<fs, data, acked>>
           \/ /\ h \in DOMAIN handler[c].open_files
              /\ OpensFile(c, h, path(h), flags(h)) \/ CreatesFile(path(h), flags(h))
              /\ Continues(c, FileJob("write", path(h), fs'[path(h)], h, off, len))
    BY DEF WriteOpens, FileJob
  <1>3. CASE (\E a : Answers(c, a)) /\ UNCHANGED <<fs, data, acked>>
    BY <1>1, <1>3, AnsweredQuietly
  <1>4. CASE /\ h \in DOMAIN handler[c].open_files
             /\ OpensFile(c, h, path(h), flags(h)) \/ CreatesFile(path(h), flags(h))
             /\ Continues(c, FileJob("write", path(h), fs'[path(h)], h, off, len))
    <2>1. PICK p, fl : p = path(h) /\ fl = flags(h)
      OBVIOUS
    <2>2. off \in Nat /\ len \in Nat
      BY SftpAssumption
    <2>3. Becomes(c, FileJob("write", p, fs'[p], h, off, len), NoAnswer)
      BY <1>1, <1>4, <2>1, ContinuesBecomes
    <2>4. CASE CreatesFile(p, fl)
      BY <1>1, <1>4, <2>2, <2>3, <2>4, CreatingStep
    <2>5. CASE OpensFile(c, h, p, fl)
      <3>1. p \in DOMAIN fs /\ fs[p] # Dir /\ UNCHANGED fs /\ fs[p] \in Inodes
        BY <2>5 DEF OpensFile, IInv, TypeInv
      <3>2. Becomes(c, FileJob("write", p, fs[p], h, off, len), NoAnswer)
        BY <2>3, <3>1
      <3>3. CASE "TRUNC" \in fl
        <4>1. data' = [data EXCEPT ![fs[p]] = <<>>] /\ acked' = Emptied(c, h, p)
          BY <2>5, <3>3 DEF OpensFile
        <4> QED
          BY <1>1, <1>4, <2>1, <2>2, <3>1, <3>2, <3>3, <4>1, EmptyingStep
      <3>4. CASE "TRUNC" \notin fl
        <4>1. UNCHANGED <<fs, data, handler, acked>>
          BY <1>1, <2>5, <3>1, <3>4 DEF OpensFile
        <4>2. OneName'
          BY <4>1 DEF IInv, OneName
        <4>3. PICK i : i = fs[p]
          OBVIOUS
        <4>4. JobOK(c, FileJob("write", p, i, h, off, len))'
          BY <1>4, <2>2, <3>1, <4>1, <4>2, <4>3, WriteJobOK
        <4>5. JobOK(c, FileJob("write", p, i, h, off, len))
          BY <4>1, <4>4 DEF JobOK
        <4> QED
          BY <3>2, <4>1, <4>3, <4>5, QuietStep, SameHandlers
      <3> QED
        BY <3>3, <3>4
    <2> QED
      BY <1>4, <2>1, <2>4, <2>5
  <1> QED
    BY <1>2, <1>3, <1>4

\* Only the links change, or nothing.
LEMMA LinksStep ==
    ASSUME IInv, UNCHANGED <<fs, data, handler, job, answer, asked, acked>>
    PROVE  IInv' /\ AllKeep
  <1>1. \A c \in Conns : JobOK(c, job[c])'
    BY DEF IInv, TypeInv, JobOK
  <1>2. TypeInv'
    BY <1>1 DEF IInv, TypeInv
  <1>3. IInv'
    BY <1>2 DEF IInv, OneName, AckOK, WritesKept, Holds
  <1> QED
    BY <1>3, SameHandlers

LEMMA NextStep ==
    ASSUME IInv, CountInv, NoWrap, [Next]_vars
    PROVE  IInv' /\ AllKeep
  <1>1. CASE UNCHANGED vars
    BY <1>1, LinksStep DEF vars
  <1>2. CASE ExecMakesLink
    BY <1>2, LinksStep DEF ExecMakesLink
  <1>3. ASSUME NEW c \in Conns, handle_request(c) \/ SystemFails(c)
        PROVE  IInv' /\ AllKeep
    <2>1. CASE handle_readdir(c)
      BY <2>1, ReaddirOpensStep, ReaddirReadsStep, ReaddirAnswersStep DEF handle_readdir
    <2>2. CASE handle_read(c)
      BY <2>2, ReadOpensStep, ReadReadsStep DEF handle_read
    <2>3. CASE handle_write(c)
      BY <2>3, WriteOpensStep, WriteWritesStep, WriteStopsStep DEF handle_write
    <2> QED
      BY <1>3, <2>1, <2>2, <2>3, BadRequestStep, StatStep, MkdirStep, RmdirStep, RemoveStep,
         OpendirStep, CloseStep, OpenStep, SystemFailsStep DEF handle_request
  <1> QED
    BY <1>1, <1>2, <1>3 DEF Next

-----------------------------------------------------------------------------
(* The counter of handles, and the links. *)

\* A step changes the handler, the request and the answer of one connection.
LEMMA ActsAlone ==
    ASSUME IInv, NEW c \in Conns, handle_request(c) \/ SystemFails(c),
           NEW d \in Conns, d # c
    PROVE  job'[d] = job[d] /\ answer'[d] = answer[d] /\ handler'[d] = handler[d]
  <1>1. DOMAIN job = Conns /\ DOMAIN answer = Conns /\ DOMAIN handler = Conns
    BY DEF IInv, TypeInv
  <1>2. \A a : Answers(c, a) => job'[d] = job[d] /\ answer'[d] = answer[d]
    BY <1>1 DEF Answers
  <1>3. \A j : Continues(c, j) => job'[d] = job[d] /\ answer'[d] = answer[d]
    BY <1>1 DEF Continues
  <1>4. \A op, denied : Resolves(c, op, denied) =>
           job'[d] = job[d] /\ answer'[d] = answer[d] /\ handler' = handler
    BY <1>2, <1>3 DEF Resolves
  <1>5. CASE BadRequest(c) \/ handle_realpath(c)
    BY <1>2, <1>5 DEF BadRequest, handle_realpath
  <1>6. CASE handle_stat(c)
    BY <1>2, <1>4, <1>6 DEF handle_stat
  <1>7. CASE handle_mkdir(c) \/ handle_rmdir(c) \/ handle_remove(c)
    BY <1>2, <1>4, <1>7 DEF handle_mkdir, handle_rmdir, handle_remove
  <1>8. CASE handle_opendir(c)
    BY <1>1, <1>2, <1>4, <1>8 DEF handle_opendir
  <1>9. CASE handle_readdir(c)
    BY <1>1, <1>2, <1>3, <1>9 DEF handle_readdir, ReaddirOpens, ReaddirReads, ReaddirAnswers
  <1>10. CASE handle_close(c)
    BY <1>1, <1>2, <1>10 DEF handle_close
  <1>11. CASE handle_open(c)
    BY <1>1, <1>2, <1>11 DEF handle_open
  <1>12. CASE handle_read(c)
    BY <1>2, <1>3, <1>12 DEF handle_read, ReadOpens, ReadReads
  <1>13. CASE handle_write(c)
    BY <1>2, <1>3, <1>13 DEF handle_write, WriteOpens, WriteWrites, WriteStops
  <1>14. CASE SystemFails(c)
    BY <1>2, <1>14 DEF SystemFails
  <1> QED
    BY <1>5, <1>6, <1>7, <1>8, <1>9, <1>10, <1>11, <1>12, <1>13, <1>14 DEF handle_request

\* A step advances the counter once at most, and then answers.
LEMMA HandlerCounts ==
    ASSUME IInv, CountInv, NoWrap, NEW c \in Conns, handle_request(c) \/ SystemFails(c)
    PROVE  \/ handler'[c].next_handle = handler[c].next_handle
           \/ /\ handler'[c].next_handle = handler[c].next_handle + 1
              /\ job'[c] = Idle
  <1> DEFINE old == handler[c]
             One == [old EXCEPT !.next_handle = old.next_handle + 1]
  <1>1. DOMAIN job = Conns /\ DOMAIN handler = Conns /\ HandlerOK(old)
    BY DEF IInv, TypeInv
  <1>2. \A a : Answers(c, a) => job'[c] = Idle
    BY <1>1 DEF Answers
  <1>3. ASSUME old.next_handle < U32_MAX
        PROVE  \A f : /\ [alloc_handle(old) EXCEPT !.open_files = f].next_handle
                            = old.next_handle + 1
                      /\ [alloc_handle(old) EXCEPT !.open_dirs = f].next_handle
                            = old.next_handle + 1
    <2>1. alloc_handle(old) = One
      BY <1>1, <1>3, Advances DEF HandlerOK
    <2>2. DOMAIN One = DOMAIN old /\ One.next_handle = old.next_handle + 1
      BY <1>1 DEF HandlerOK
    <2> HIDE DEF One
    <2>3. DOMAIN One = {"next_handle", "open_files", "open_dirs"}
      BY <1>1, <2>2 DEF HandlerOK
    <2> QED
      BY <2>1, <2>2, <2>3
  <1>4. CASE UNCHANGED handler
    BY <1>4
  <1>5. \A op, denied : Resolves(c, op, denied) => UNCHANGED handler
    BY DEF Resolves
  <1>6. CASE handle_opendir(c)
    <2>1. CASE Doing(c, "opendir") /\ ~UNCHANGED handler
      <3>1. old.next_handle < U32_MAX
        BY <2>1, OpendirCounts
      <3>2. PICK f : handler' = [handler EXCEPT ![c] = [alloc_handle(old) EXCEPT !.open_dirs = f]]
        BY <1>5, <1>6, <2>1 DEF handle_opendir
      <3>3. \E a : Answers(c, a)
        BY <1>5, <1>6, <2>1 DEF handle_opendir
      <3> HIDE DEF old
      <3>4. handler'[c] = [alloc_handle(old) EXCEPT !.open_dirs = f]
        BY <1>1, <3>2
      <3> QED
        BY <1>2, <1>3, <3>1, <3>3, <3>4 DEF old
    <2> QED
      BY <1>4, <1>5, <1>6, <2>1 DEF handle_opendir
  <1>7. CASE handle_open(c)
    <2>1. CASE ~UNCHANGED handler
      <3>1. old.next_handle < U32_MAX
        BY <1>7, ReceivingCounts DEF handle_open
      <3>2. PICK f : handler' = [handler EXCEPT ![c] = [alloc_handle(old) EXCEPT !.open_files = f]]
        BY <1>7, <2>1 DEF handle_open
      <3>3. \E a : Answers(c, a)
        BY <1>7 DEF handle_open
      <3> HIDE DEF old
      <3>4. handler'[c] = [alloc_handle(old) EXCEPT !.open_files = f]
        BY <1>1, <3>2
      <3> QED
        BY <1>2, <1>3, <3>1, <3>3, <3>4 DEF old
    <2> QED
      BY <1>4, <2>1
  <1>8. CASE handle_readdir(c)
    <2>1. PICK h : \/ UNCHANGED handler
                   \/ handler' = [handler EXCEPT ![c].open_dirs[h].listed = TRUE]
      BY <1>8 DEF handle_readdir, ReaddirOpens, ReaddirReads, ReaddirAnswers
    <2>2. CASE handler' = [handler EXCEPT ![c].open_dirs[h].listed = TRUE]
      BY <1>1, <2>2 DEF HandlerOK
    <2> QED
      BY <1>4, <2>1, <2>2
  <1>9. CASE handle_close(c)
    <2>1. PICK h : handler' = [handler EXCEPT ![c].open_files = Without(@, h),
                                              ![c].open_dirs = Without(@, h)]
      BY <1>9 DEF handle_close
    <2>2. PICK new : new = handler'[c]
      OBVIOUS
    <2>3. new = [old EXCEPT !.open_files = Without(@, h), !.open_dirs = Without(@, h)]
      BY <1>1, <2>1, <2>2
    <2> HIDE DEF old
    <2>4. new.next_handle = old.next_handle
      BY <1>1, <2>3, ClosedHandler
    <2> QED
      BY <2>2, <2>4 DEF old
  <1>10. CASE ~(handle_opendir(c) \/ handle_readdir(c) \/ handle_close(c) \/ handle_open(c))
    BY <1>4, <1>5, <1>10 DEF handle_request, BadRequest, handle_realpath, handle_stat,
         handle_mkdir, handle_rmdir, handle_remove, handle_read, handle_write, ReadOpens,
         ReadReads, WriteOpens, WriteWrites, WriteStops, SystemFails
  <1> QED
    BY <1>6, <1>7, <1>8, <1>9, <1>10

\* A request is counted when it is received.
LEMMA AskedCounts ==
    ASSUME NEW c \in Conns, handle_request(c) \/ SystemFails(c)
    PROVE  asked' = asked + 1 \/ (asked' = asked /\ job[c] # Idle)
  <1>1. \A op : Doing(c, op) /\ op # "idle" => asked' = asked /\ job[c] # Idle
    BY IdleFields DEF Doing
  <1>2. Receives(c) => asked' = asked + 1
    BY DEF Receives
  <1>3. \A op, denied : Resolves(c, op, denied) => asked' = asked + 1
    BY <1>2 DEF Resolves
  <1> QED
    BY <1>1, <1>2, <1>3 DEF handle_request, BadRequest, handle_realpath, handle_stat,
       handle_mkdir, handle_rmdir, handle_remove, handle_opendir, handle_readdir, ReaddirOpens,
       ReaddirReads, ReaddirAnswers, handle_close, handle_open, handle_read, ReadOpens,
       ReadReads, handle_write, WriteOpens, WriteWrites, WriteStops, SystemFails

LEMMA CountKept ==
    ASSUME IInv, CountInv, NoWrap, [Next]_vars
    PROVE  CountInv'
  <1>1. CASE UNCHANGED <<handler, job, asked>>
    BY <1>1 DEF CountInv
  <1>2. ASSUME NEW c \in Conns, handle_request(c) \/ SystemFails(c)
        PROVE  CountInv'
    <2>1. asked' = asked + 1 \/ (asked' = asked /\ job[c] # Idle)
      BY <1>2, AskedCounts
    <2>2. \/ handler'[c].next_handle = handler[c].next_handle
          \/ handler'[c].next_handle = handler[c].next_handle + 1 /\ job'[c] = Idle
      BY <1>2, HandlerCounts
    <2>3. \A d \in Conns : d # c => job'[d] = job[d] /\ handler'[d] = handler[d]
      BY <1>2, ActsAlone
    <2>4. \A d \in Conns : handler[d].next_handle \in Nat /\ asked \in Nat
      BY CountersTyped
    <2>5. /\ handler'[c].next_handle <= asked'
          /\ job'[c] # Idle => handler'[c].next_handle < asked'
      BY <2>1, <2>2, <2>4 DEF CountInv
    <2>6. ASSUME NEW d \in Conns, d # c
          PROVE  /\ handler'[d].next_handle <= asked'
                 /\ job'[d] # Idle => handler'[d].next_handle < asked'
      BY <2>1, <2>3, <2>4, <2>6 DEF CountInv
    <2> QED
      BY <2>5, <2>6 DEF CountInv
  <1> QED
    BY <1>1, <1>2 DEF Next, vars, ExecMakesLink

LEMMA LinksKept ==
    ASSUME LinkInv, [Next]_vars
    PROVE  LinkInv'
  <1>1. CASE UNCHANGED links
    BY <1>1 DEF LinkInv
  <1>2. CASE ExecMakesLink
    <2>1. PICK l \in Linkable : links' = Extend(links, l[1], l[2])
      BY <1>2 DEF ExecMakesLink
    <2>2. l = <<l[1], l[2]>>
      BY LinkAssumption
    <2> QED
      BY <2>1, <2>2 DEF LinkInv, Extend
  <1>3. ASSUME NEW p, links' = Without(links, p) PROVE LinkInv'
    BY <1>3 DEF LinkInv, Without
  <1>4. \A c, op, denied : Resolves(c, op, denied) => UNCHANGED links
    BY DEF Resolves
  <1>5. ASSUME NEW c \in Conns, handle_request(c) \/ SystemFails(c), ~handle_remove(c)
        PROVE  LinkInv'
    BY <1>1, <1>4, <1>5 DEF handle_request, BadRequest, handle_realpath, handle_stat,
       handle_mkdir, handle_rmdir, handle_opendir, handle_readdir, ReaddirOpens,
       ReaddirReads, ReaddirAnswers, handle_close, handle_open, handle_read, ReadOpens,
       ReadReads, handle_write, WriteOpens, WriteWrites, WriteStops, SystemFails
  <1>6. ASSUME NEW c \in Conns, handle_remove(c)
        PROVE  LinkInv'
    BY <1>1, <1>3, <1>4, <1>6 DEF handle_remove
  <1> QED
    BY <1>1, <1>2, <1>5, <1>6 DEF Next, vars

-----------------------------------------------------------------------------
(* The theorems about types, writes and handles. *)

LEMMA Starts == Init => IInv
  <1> SUFFICES ASSUME Init PROVE IInv
    OBVIOUS
  <1> DEFINE X == Conns \cup {Zero}
  <1>1. 1 \in Inodes /\ 1 # Dir
    BY SftpAssumption DEF Inodes, Dir
  <1>2. data \in [Inodes -> Seq(X)]
    <2>1. <<>> \in Seq(X) /\ <<Zero>> \in Seq(X)
      OBVIOUS
    <2>2. data = [i \in Inodes |-> IF i = 1 THEN <<Zero>> ELSE <<>>]
      BY DEF Init
    <2> HIDE DEF X
    <2> QED
      BY <2>1, <2>2
  <1>3. \A p \in DOMAIN fs : p # <<>>
    <2>1. Root # <<>> /\ <<"/">> # <<>> /\ Beside # <<>>
      BY PathsAssumption, SftpAssumption
    <2>2. \A n \in 1 .. Len(Root) : SubSeq(Root, 1, n) # <<>>
      BY PathsAssumption
    <2>3. DOMAIN fs = {<<"/">>, Root, Beside} \cup {SubSeq(Root, 1, n) : n \in 1 .. Len(Root)}
      BY DEF Init
    <2> QED
      BY <2>1, <2>2, <2>3
  <1>4. \A p \in DOMAIN fs : fs[p] = IF p = Beside THEN 1 ELSE Dir
    BY DEF Init
  <1>5. /\ DOMAIN job = Conns /\ DOMAIN answer = Conns /\ DOMAIN handler = Conns
        /\ asked \in 0 .. MaxRequests /\ acked = {}
    BY SftpAssumption DEF Init
  <1>6. \A c \in Conns : job[c] = Idle
    BY DEF Init
  <1>7. \A c \in Conns : HandlerOK(handler[c])
    BY DEF Init, HandlerOK
  <1>8. \A c \in Conns : JobOK(c, job[c])
    BY <1>6, IdleOK
  <1>9. OneName
    BY <1>4 DEF OneName
  <1>10. TypeInv
    BY <1>1, <1>2, <1>3, <1>4, <1>5, <1>6, <1>7, <1>8 DEF TypeInv
  <1> QED
    BY <1>5, <1>9, <1>10 DEF IInv, WritesKept

\* All that holds in every state, as long as the counter does not wrap.
AllInv == IInv /\ CountInv /\ LinkInv

LEMMA Invariance ==
    ASSUME NoWrap
    PROVE  Spec => []AllInv
  <1>1. Init => CountInv /\ LinkInv
    <2> SUFFICES ASSUME Init PROVE CountInv /\ LinkInv
      OBVIOUS
    <2>1. \A c \in Conns : handler[c].next_handle = 0 /\ job[c] = Idle
      BY DEF Init
    <2>2. asked = 0 /\ DOMAIN links = {}
      BY DEF Init
    <2> QED
      BY <2>1, <2>2 DEF CountInv, LinkInv
  <1>2. Init => AllInv
    BY <1>1, Starts DEF AllInv
  <1>3. AllInv /\ [Next]_vars => AllInv'
    <2> SUFFICES ASSUME AllInv, [Next]_vars PROVE AllInv'
      OBVIOUS
    <2>1. IInv /\ CountInv /\ LinkInv
      BY DEF AllInv
    <2>2. IInv' /\ CountInv' /\ LinkInv'
      BY <2>1, NextStep, CountKept, LinksKept
    <2> QED
      BY <2>2 DEF AllInv
  <1> QED
    BY <1>2, <1>3, PTL DEF Spec

\* The state has the shape the handlers rely on: every path names a directory or
\* a file, files hold bytes, and every handle that is open was given out.
THEOREM TypeCorrect ==
    ASSUME NoWrap
    PROVE  Spec => []TypeOK
  <1>1. AllInv => TypeOK
    <2> SUFFICES ASSUME IInv, LinkInv PROVE TypeOK
      BY DEF AllInv
    <2>1. \A i \in Inodes : \A n \in DOMAIN data[i] : data[i][n] \in Conns \cup {Zero}
      <3> DEFINE X == Conns \cup {Zero}
      <3>1. data \in [Inodes -> Seq(X)]
        BY DEF IInv, TypeInv
      <3> HIDE DEF X
      <3>2. \A i \in Inodes : \A n \in DOMAIN data[i] : data[i][n] \in X
        BY <3>1
      <3> QED
        BY <3>2 DEF X
    <2>2. \A c \in Conns : job[c].inode \in {Dir} \cup Inodes
      BY DEF IInv, TypeInv, JobOK
    <2>3. \A c \in Conns : DOMAIN handler[c].open_files \cup DOMAIN handler[c].open_dirs
                           \subseteq 0 .. handler[c].next_handle - 1
      BY DEF IInv, TypeInv, HandlerOK
    <2> QED
      BY <2>1, <2>2, <2>3 DEF IInv, TypeInv, TypeOK, LinkInv
  <1> QED
    BY <1>1, Invariance, PTL

\* A WRITE that was answered OK stays in the file, whatever the other connections
\* do, until it is overwritten, truncated or removed (handle_write opens the file
\* anew for each request).
THEOREM AcknowledgedStay ==
    ASSUME NoWrap
    PROVE  Spec => []WritesKept
  <1>1. AllInv => WritesKept
    BY DEF AllInv, IInv
  <1> QED
    BY <1>1, Invariance, PTL

\* A handle stands for the same file until it is closed and is not given out
\* again (alloc_handle, handle_close), for as many requests as next_handle, a
\* u32, can count.
THEOREM HandlesStable ==
    ASSUME NoWrap
    PROVE  Spec => HandlesKept
  <1>1. AllInv /\ [Next]_vars => AllKeep
    BY NextStep DEF AllInv
  <1>2. AllKeep => \A c \in Conns :
          LET old == handler[c]
              new == handler'[c]
          IN  /\ old.next_handle <= new.next_handle
              /\ \A h \in DOMAIN old.open_files \cap DOMAIN new.open_files :
                    new.open_files[h] = old.open_files[h]
              /\ \A h \in (DOMAIN new.open_files \ DOMAIN old.open_files)
                          \cup (DOMAIN new.open_dirs \ DOMAIN old.open_dirs) :
                    old.next_handle <= h /\ h < new.next_handle
              /\ DOMAIN new.open_files \cap DOMAIN new.open_dirs = {}
    BY DEF AllKeep, Keeps
  <1> QED
    BY <1>1, <1>2, Invariance, PTL DEF Spec, HandlesKept

-----------------------------------------------------------------------------
(* What requests answer. *)

\* Only the second half of a request ends it.
LEMMA ReadEnds ==
    ASSUME NEW c, job[c].op = "read", handle_request(c) \/ SystemFails(c)
    PROVE  ReadReads(c) \/ SystemFails(c)
  <1>1. ~Receives(c) /\ \A op, denied : ~Resolves(c, op, denied)
    BY IdleFields DEF Receives, Resolves
  <1> QED
    BY <1>1 DEF handle_request, BadRequest, handle_realpath, handle_stat, handle_mkdir,
        handle_rmdir, handle_remove, handle_opendir, handle_readdir, ReaddirOpens, ReaddirReads,
        ReaddirAnswers, handle_close, handle_open, handle_read, handle_write, ReadOpens, WriteOpens,
        WriteWrites, WriteStops, Doing

LEMMA StatEnds ==
    ASSUME NEW c, job[c].op = "stat", handle_request(c) \/ SystemFails(c)
    PROVE  handle_stat(c) \/ SystemFails(c)
  <1>1. ~Receives(c) /\ \A op, denied : ~Resolves(c, op, denied)
    BY IdleFields DEF Receives, Resolves
  <1> QED
    BY <1>1 DEF handle_request, BadRequest, handle_realpath, handle_mkdir,
        handle_rmdir, handle_remove, handle_opendir, handle_readdir, ReaddirOpens, ReaddirReads,
        ReaddirAnswers, handle_close, handle_open, handle_read, handle_write, ReadOpens,
        ReadReads, WriteOpens, WriteWrites, WriteStops, Doing

LEMMA ReadShows ==
    ASSUME IInv, NEW c \in Conns, NEW w \in acked, ReadReads(c),
           job[c].path = w.path, job[c].off = w.off, job[c].len > 0,
           fs[job[c].path] = job[c].inode, Holds(w)
    PROVE  answer'[c].type = "DATA" /\ answer'[c].bytes[1] = w.conn
  <1> DEFINE X == Conns \cup {Zero}
             i == job[c].inode
             off == job[c].off
             len == Min({job[c].len, READ_MAX})
             now == data[i]
             bytes == ReadAt(now, off, len)
  <1>1. i # Dir /\ i \in Inodes /\ off \in Nat /\ job[c].len \in Nat
    <2>1. AckOK(w) /\ JobOK(c, job[c])
      BY DEF IInv, TypeInv
    <2> QED
      BY <2>1 DEF AckOK, JobOK
  <1>2. len \in Nat /\ len > 0
    BY <1>1, MinOfTwo, SftpAssumption
  <1>3. data \in [Inodes -> Seq(X)]
    BY DEF IInv, TypeInv
  <1>4. now \in Seq(X) /\ off + 1 \in DOMAIN now /\ now[off + 1] = w.conn
    <2>1. off + 1 \in DOMAIN now /\ now[off + 1] = w.conn
      BY DEF Holds
    <2> HIDE DEF X
    <2> QED
      BY <1>1, <1>3, <2>1
  <1>5. Answers(c, IF i = Dir THEN Status("FAILURE")
                   ELSE IF bytes = <<>> THEN Status("EOF") ELSE Data(bytes))
    BY DEF ReadReads
  <1>6. bytes # <<>> /\ bytes[1] = now[off + 1]
    <2> HIDE DEF X, now, off, len
    <2> QED
      BY <1>1, <1>2, <1>4, ReadAtFacts
  <1>7. Answers(c, Data(bytes))
    BY <1>1, <1>5, <1>6
  <1> HIDE DEF bytes
  <1>8. answer'[c] = Data(bytes)
    BY <1>7 DEF Answers, IInv, TypeInv
  <1> QED
    BY <1>4, <1>6, <1>8 DEF Data

\* A READ through a handle shows what was acknowledged at its offset, although
\* the file is opened in one system call and read in another (handle_read).
THEOREM ReadsShowWrites ==
    ASSUME NoWrap
    PROVE  Spec => ReadsSeeWrites
  <1>1. ASSUME IInv, [Next]_vars, NEW c \in Conns, NEW w \in acked,
               job[c].op = "read", job[c].path = w.path, job[c].off = w.off, job[c].len > 0,
               fs[job[c].path] = job[c].inode, Holds(w),
               job'[c] = Idle, answer'[c] # Status("FAILURE")
        PROVE  answer'[c].type = "DATA" /\ answer'[c].bytes[1] = w.conn
    <2>1. job[c] # Idle
      BY <1>1, IdleFields
    <2>2. Next
      BY <1>1, <2>1 DEF vars
    <2>3. PICK d \in Conns : handle_request(d) \/ SystemFails(d)
      BY <1>1, <2>1, <2>2 DEF Next, ExecMakesLink
    <2>4. d = c
      BY <1>1, <2>1, <2>3, ActsAlone
    <2>5. ReadReads(c) \/ SystemFails(c)
      BY <1>1, <2>3, <2>4, ReadEnds
    <2>6. ~SystemFails(c)
      <3> SUFFICES ASSUME SystemFails(c) PROVE FALSE
        OBVIOUS
      <3>1. Answers(c, Status("FAILURE"))
        BY <1>1 DEF SystemFails
      <3> QED
        BY <1>1, <3>1 DEF Answers, IInv, TypeInv
    <2> QED
      BY <1>1, <2>5, <2>6, ReadShows
  <1>2. AllInv /\ [Next]_vars =>
           \A c \in Conns :
              LET j == job[c]
              IN  \A w \in acked :
                     /\ j.op = "read" /\ j.path = w.path /\ j.off = w.off /\ j.len > 0
                     /\ fs[j.path] = j.inode /\ Holds(w)
                     /\ job'[c] = Idle /\ answer'[c] # Status("FAILURE")
                     => answer'[c].type = "DATA" /\ answer'[c].bytes[1] = w.conn
    BY <1>1 DEF AllInv
  <1> QED
    BY <1>2, Invariance, PTL DEF Spec, ReadsSeeWrites

\* What metadata_to_attrs fills in, encode writes and decode reads back.
LEMMA AttrsRoundTrip ==
    ASSUME NEW meta, meta.len \in Nat, meta.mode \in Nat, meta.uid \in Nat, meta.gid \in Nat
    PROVE  Describes(encode(metadata_to_attrs(meta)), meta)
  <1> DEFINE len == meta.len
             mode == meta.mode
             uid == meta.uid
             gid == meta.gid
             a == metadata_to_attrs(meta)
  <1>1. /\ a.flags = 7 /\ a.size = len /\ a.permissions = mode /\ a.uid = uid /\ a.gid = gid
        /\ a.atime = None /\ a.mtime = None
    BY DEF metadata_to_attrs, NoAttrs, SSH_FILEXFER_ATTR_SIZE, SSH_FILEXFER_ATTR_PERMISSIONS,
           SSH_FILEXFER_ATTR_UIDGID
  <1>2. len # None /\ mode # None /\ uid # None /\ gid # None
    BY DEF None
  <1> HIDE DEF a, len, mode, uid, gid
  <1>3. \A x, y : /\ x # None => Written(<<x>>) = <<x>>
                  /\ x # None /\ y # None => Written(<<x, y>>) = <<x, y>>
                  /\ x = None => Written(<<x, y>>) = <<>>
    <2>1. \A x, y : /\ \A i \in DOMAIN <<x>> : <<x>>[i] = x
                    /\ \A i \in DOMAIN <<x, y>> : <<x, y>>[i] = x \/ <<x, y>>[i] = y
                    /\ 1 \in DOMAIN <<x, y>> /\ <<x, y>>[1] = x
      OBVIOUS
    <2> QED
      BY <2>1 DEF Written
  <1>4. encode(a) = <<7>> \o <<len>> \o <<uid, gid>> \o <<mode>> \o <<>>
    BY <1>1, <1>2, <1>3 DEF encode
  <1>5. PICK s, t, u : s = <<7>> \o <<len>> /\ t = s \o <<uid, gid>> /\ u = t \o <<mode>>
    OBVIOUS
  <1>6. PICK f : f = encode(a)
    OBVIOUS
  <1>7. /\ Len(f) = 5 /\ f[1] = 7 /\ f[2] = len /\ f[3] = uid /\ f[4] = gid /\ f[5] = mode
    <2>1. len \in Nat /\ uid \in Nat /\ gid \in Nat /\ mode \in Nat
      BY DEF len, uid, gid, mode
    <2>2. s \in Seq(Nat) /\ Len(s) = 2 /\ s[1] = 7 /\ s[2] = len
      BY <1>5, <2>1
    <2>3. t \in Seq(Nat) /\ Len(t) = 4 /\ t[1] = 7 /\ t[2] = len /\ t[3] = uid /\ t[4] = gid
      BY <1>5, <2>1, <2>2
    <2>4. /\ u \in Seq(Nat) /\ Len(u) = 5
          /\ u[1] = 7 /\ u[2] = len /\ u[3] = uid /\ u[4] = gid /\ u[5] = mode
      BY <1>5, <2>1, <2>3
    <2>5. f = u \o <<>>
      BY <1>4, <1>5, <1>6
    <2>6. f = u
      BY <2>4, <2>5
    <2> QED
      BY <2>4, <2>6
  <1>8. Has(7, 1) /\ Has(7, 2) /\ Has(7, 4) /\ ~Has(7, 8)
    BY DEF Has
  <1>9. decode(f) = [flags |-> 7, size |-> len, uid |-> uid, gid |-> gid,
                     permissions |-> mode, atime |-> None, mtime |-> None]
    BY <1>7, <1>8 DEF decode, SSH_FILEXFER_ATTR_SIZE, SSH_FILEXFER_ATTR_PERMISSIONS,
           SSH_FILEXFER_ATTR_UIDGID, SSH_FILEXFER_ATTR_ACMODTIME
  <1>10. Short.flags = None /\ None # 7
    BY DEF Short, NoAttrs, None
  <1>11. decode(f) # Short
    BY <1>9, <1>10
  <1>12. Describes(f, meta)
    BY <1>9, <1>11 DEF Describes, len, mode, uid, gid
  <1> QED
    BY <1>6, <1>12 DEF a

LEMMA NoAttrsRoundTrip == decode(encode(NoAttrs)) = NoAttrs
  <1> DEFINE none == <<>>
  <1>1. /\ \A i \in DOMAIN <<None>> : <<None>>[i] = None
        /\ 1 \in DOMAIN <<None>> /\ <<None>>[1] = None
        /\ 1 \in DOMAIN <<None, None>> /\ <<None, None>>[1] = None
    OBVIOUS
  <1>2. Written(<<None>>) = none /\ Written(<<None, None>>) = none
    BY <1>1 DEF Written
  <1>3. /\ NoAttrs.flags = 0 /\ NoAttrs.size = None /\ NoAttrs.uid = None
        /\ NoAttrs.gid = None /\ NoAttrs.permissions = None /\ NoAttrs.atime = None
        /\ NoAttrs.mtime = None
    BY DEF NoAttrs
  <1>4. encode(NoAttrs) = <<0>> \o none \o none \o none \o none
    <2> HIDE DEF none
    <2> QED
      BY <1>2, <1>3 DEF encode
  <1>5. <<0>> \in Seq(Nat) /\ \A s \in Seq(Nat) : s \o none = s
    OBVIOUS
  <1>6. encode(NoAttrs) = <<0>>
    <2> HIDE DEF none
    <2> QED
      BY <1>4, <1>5
  <1>7. ~Has(0, 1) /\ ~Has(0, 2) /\ ~Has(0, 4) /\ ~Has(0, 8)
    BY DEF Has
  <1>8. PICK f : f = encode(NoAttrs)
    OBVIOUS
  <1>9. f[1] = 0 /\ Len(f) = 1
    BY <1>6, <1>8
  <1>10. decode(f) = [flags |-> 0, size |-> None, uid |-> None, gid |-> None,
                      permissions |-> None, atime |-> None, mtime |-> None]
    BY <1>7, <1>9 DEF decode, SSH_FILEXFER_ATTR_SIZE, SSH_FILEXFER_ATTR_PERMISSIONS,
           SSH_FILEXFER_ATTR_UIDGID, SSH_FILEXFER_ATTR_ACMODTIME
  <1> QED
    BY <1>8, <1>10 DEF NoAttrs

LEMMA MetadataReadable ==
    ASSUME IInv, LinkInv, NEW p, Exists(p)
    PROVE  Describes(encode(metadata_to_attrs(Metadata(p))), Metadata(p))
  <1>1. PICK m : m = Metadata(p)
    OBVIOUS
  <1>2. m.len \in Nat /\ m.mode \in Nat /\ m.uid \in Nat /\ m.gid \in Nat
    <2>1. CASE p \in DOMAIN links
      <3>1. <<p, links[p]>> \in Linkable
        BY <2>1 DEF LinkInv
      <3>2. <<p, links[p]>>[2] = links[p] /\ links[p] \in Seq(STRING)
        BY <3>1, LinkAssumption
      <3>3. Len(links[p]) \in Nat
        BY <3>2
      <3> QED
        BY <1>1, <2>1, <3>3 DEF Metadata
    <2>2. CASE p \notin DOMAIN links
      <3> DEFINE X == Conns \cup {Zero}
      <3>1. data \in [Inodes -> Seq(X)] /\ fs[p] \in {Dir} \cup Inodes
        BY <2>2 DEF IInv, TypeInv, Exists
      <3> HIDE DEF X
      <3>2. fs[p] # Dir => Len(data[fs[p]]) \in Nat
        BY <3>1
      <3> QED
        BY <1>1, <2>2, <3>2 DEF Metadata
    <2> QED
      BY <2>1, <2>2
  <1> QED
    BY <1>1, <1>2, AttrsRoundTrip

LEMMA AnswerTypes ==
    /\ NoAnswer.type = "none"
    /\ \A code : Status(code).type = "STATUS"
    /\ \A h : Handle(h).type = "HANDLE"
    /\ \A bytes : Data(bytes).type = "DATA"
    /\ \A entries : Name(entries).type = "NAME" /\ Name(entries).entries = entries
    /\ \A fields : Attrs(fields).type = "ATTRS" /\ Attrs(fields).fields = fields
  BY DEF NoAnswer, Status, Handle, Data, Name, Attrs

LEMMA AnswerIs ==
    ASSUME IInv, NEW c \in Conns
    PROVE  /\ \A a : Answers(c, a) => answer'[c] = a
           /\ \A j : Continues(c, j) => answer'[c] = NoAnswer
  BY DEF IInv, TypeInv, Answers, Continues

LEMMA StatShows ==
    ASSUME IInv, LinkInv, [Next]_vars, NEW c \in Conns,
           job[c].op = "stat", answer'[c].type = "ATTRS"
    PROVE  Describes(answer'[c].fields, Metadata(Located(job[c])))
  <1>1. job[c] # Idle
    BY IdleFields
  <1>2. answer'[c] # answer[c]
    BY <1>1, AnswerTypes DEF IInv, TypeInv
  <1>3. PICK d \in Conns : handle_request(d) \/ SystemFails(d)
    BY <1>2 DEF Next, vars, ExecMakesLink
  <1>4. d = c
    BY <1>2, <1>3, ActsAlone
  <1>5. handle_stat(c) \/ SystemFails(c)
    BY <1>3, <1>4, StatEnds
  <1>6. ~SystemFails(c)
    BY AnswerIs, AnswerTypes DEF SystemFails
  <1>7. \A op, denied : ~Resolves(c, op, denied)
    BY <1>1 DEF Resolves, Receives
  <1> DEFINE p == Located(job[c])
  <1>8. Answers(c, IF p \in DOMAIN fs THEN Attrs(encode(metadata_to_attrs(Metadata(p))))
                   ELSE Status("NO_SUCH_FILE"))
    BY <1>5, <1>6, <1>7 DEF handle_stat
  <1>9. p \in DOMAIN fs /\ answer'[c] = Attrs(encode(metadata_to_attrs(Metadata(p))))
    <2> HIDE DEF p
    <2> QED
      BY <1>8, AnswerIs, AnswerTypes
  <1>10. Exists(p)
    BY <1>9 DEF Exists
  <1> HIDE DEF p
  <1> QED
    BY <1>9, <1>10, MetadataReadable, AnswerTypes DEF p

\* Only the reading of a directory adds entries to a request.
LEMMA EntriesRead ==
    ASSUME IInv, NEW c \in Conns, handle_request(c) \/ SystemFails(c), ~ReaddirReads(c)
    PROVE  job'[c].entries = {}
  <1>1. DOMAIN job = Conns
    BY DEF IInv, TypeInv
  <1>2. \A a : Answers(c, a) => job'[c].entries = {}
    BY <1>1, IdleFields DEF Answers
  <1>3. \A j : Continues(c, j) => job'[c] = j
    BY <1>1 DEF Continues
  <1>4. \A op, denied : Resolves(c, op, denied) => job'[c].entries = {}
    BY <1>2, <1>3, IdleFields DEF Resolves
  <1>5. CASE handle_readdir(c)
    <2>1. (\E a : Answers(c, a)) \/ \E p, todo : Continues(c, ListJob(p, todo))
      BY <1>5 DEF handle_readdir, ReaddirOpens, ReaddirAnswers, ListJob
    <2>2. \A p, todo : ListJob(p, todo).entries = {}
      BY ListJobFields
    <2> QED
      BY <1>2, <1>3, <2>1, <2>2
  <1>6. \A op, p, i, h, off, len : FileJob(op, p, i, h, off, len).entries = {}
    BY FileJobFields
  <1>7. CASE handle_read(c)
    <2>1. (\E a : Answers(c, a))
          \/ \E p, i, h, off, len : Continues(c, FileJob("read", p, i, h, off, len))
      BY <1>7 DEF handle_read, ReadOpens, ReadReads, FileJob
    <2> QED
      BY <1>2, <1>3, <1>6, <2>1
  <1>8. CASE handle_write(c)
    <2>1. (\E a : Answers(c, a))
          \/ \E p, i, h, off, len : Continues(c, FileJob("write", p, i, h, off, len))
      BY <1>8 DEF handle_write, WriteOpens, WriteWrites, WriteStops, FileJob
    <2> QED
      BY <1>2, <1>3, <1>6, <2>1
  <1>9. CASE BadRequest(c) \/ handle_realpath(c) \/ handle_close(c) \/ handle_open(c)
             \/ SystemFails(c)
    BY <1>2, <1>9 DEF BadRequest, handle_realpath, handle_close, handle_open, SystemFails
  <1>10. CASE handle_stat(c) \/ handle_mkdir(c) \/ handle_rmdir(c) \/ handle_remove(c)
              \/ handle_opendir(c)
    BY <1>2, <1>4, <1>10
       DEF handle_stat, handle_mkdir, handle_rmdir, handle_remove, handle_opendir
  <1> QED
    BY <1>5, <1>7, <1>8, <1>9, <1>10 DEF handle_request

\* An entry that is added has the attributes that it has now, or none.
LEMMA ReaddirShows ==
    ASSUME IInv, LinkInv, [Next]_vars, NEW c \in Conns, NEW e \in job'[c].entries \ job[c].entries
    PROVE  decode(e[2]) = NoAttrs \/ (Exists(e[1]) /\ Describes(e[2], Metadata(e[1])))
  <1>1. job'[c] # job[c]
    OBVIOUS
  <1>2. PICK d \in Conns : handle_request(d) \/ SystemFails(d)
    BY <1>1 DEF Next, vars, ExecMakesLink
  <1>3. d = c
    BY <1>1, <1>2, ActsAlone
  <1>4. ReaddirReads(c)
    BY <1>2, <1>3, EntriesRead
  <1>5. PICK p \in job[c].todo : \E found \in {{}} \cup {{<<p, encode(a)>>} : a \in EntryAttrs(p)} :
           Continues(c, [job[c] EXCEPT !.todo = @ \ {p}, !.entries = @ \cup found])
    BY <1>4 DEF ReaddirReads
  <1>6. PICK found \in {{}} \cup {{<<p, encode(a)>>} : a \in EntryAttrs(p)} :
           Continues(c, [job[c] EXCEPT !.todo = @ \ {p}, !.entries = @ \cup found])
    BY <1>5
  <1>7. job'[c].entries = job[c].entries \cup found
    <2>1. JobOK(c, job[c]) /\ DOMAIN job = Conns
      BY DEF IInv, TypeInv
    <2>2. job'[c] = [job[c] EXCEPT !.todo = @ \ {p}, !.entries = @ \cup found]
      BY <1>6, <2>1 DEF Continues
    <2> QED
      BY <2>1, <2>2 DEF JobOK
  <1>8. PICK a \in EntryAttrs(p) : e = <<p, encode(a)>>
    BY <1>6, <1>7
  <1>9. e[1] = p /\ e[2] = encode(a)
    BY <1>8
  <1>10. CASE a = NoAttrs
    BY <1>9, <1>10, NoAttrsRoundTrip
  <1>11. CASE a # NoAttrs
    <2>1. Exists(p) /\ a = metadata_to_attrs(Metadata(p))
      BY <1>8, <1>11 DEF EntryAttrs
    <2> QED
      BY <1>9, <2>1, MetadataReadable
  <1> QED
    BY <1>10, <1>11

\* A listing that ends answers with what was read.
LEMMA ReaddirEnds ==
    ASSUME IInv, [Next]_vars, NEW c \in Conns, job[c].op = "readdir", job'[c] = Idle
    PROVE  answer'[c] = Name(job[c].entries)
  <1>1. job'[c] # job[c]
    BY IdleFields
  <1>2. PICK d \in Conns : handle_request(d) \/ SystemFails(d)
    BY <1>1 DEF Next, vars, ExecMakesLink
  <1>3. d = c
    BY <1>1, <1>2, ActsAlone
  <1>4. ~Receives(c) /\ \A op, denied : ~Resolves(c, op, denied)
    BY IdleFields DEF Receives, Resolves
  <1>5. ReaddirReads(c) \/ ReaddirAnswers(c)
    BY <1>2, <1>3, <1>4 DEF handle_request, BadRequest, handle_realpath, handle_stat,
       handle_mkdir, handle_rmdir, handle_remove, handle_opendir, handle_readdir, ReaddirOpens,
       handle_close, handle_open, handle_read, handle_write, ReadOpens, ReadReads, WriteOpens,
       WriteWrites, WriteStops, SystemFails, Doing
  <1>6. ~ReaddirReads(c)
    <2> SUFFICES ASSUME ReaddirReads(c) PROVE FALSE
      OBVIOUS
    <2>1. PICK todo, entries : Continues(c, [job[c] EXCEPT !.todo = todo, !.entries = entries])
      BY DEF ReaddirReads
    <2>2. JobOK(c, job[c]) /\ DOMAIN job = Conns
      BY DEF IInv, TypeInv
    <2>3. job'[c] = [job[c] EXCEPT !.todo = todo, !.entries = entries]
      BY <2>1, <2>2 DEF Continues
    <2>4. job'[c].op = "readdir"
      BY <2>2, <2>3 DEF JobOK
    <2> QED
      BY <2>4, IdleFields
  <1> QED
    BY <1>5, <1>6, AnswerIs DEF ReaddirAnswers

\* The attributes that STAT answers decode to what the file has, and those of
\* each entry of a READDIR to what the entry had when it was read, or to none
\* (it may be gone by then, as another connection runs in between):
\* metadata_to_attrs keeps the flags in step with the fields that it fills in.
THEOREM AttributesDecode ==
    ASSUME NoWrap
    PROVE  Spec => AttrsReadable
  <1>1. AllInv /\ [Next]_vars =>
          \A c \in Conns :
             /\ job[c].op = "stat" /\ answer'[c].type = "ATTRS"
                => Describes(answer'[c].fields, Metadata(Located(job[c])))
             /\ \A e \in job'[c].entries \ job[c].entries :
                   decode(e[2]) = NoAttrs \/ (Exists(e[1]) /\ Describes(e[2], Metadata(e[1])))
             /\ job[c].op = "readdir" /\ job'[c] = Idle
                => answer'[c] = Name(job[c].entries)
    BY StatShows, ReaddirShows, ReaddirEnds DEF AllInv
  <1> QED
    BY <1>1, Invariance, PTL DEF Spec, AttrsReadable

-----------------------------------------------------------------------------
(* Paths: what the folds of normalize_path, canonicalize and Follow compute,  *)
(* by induction on the components.                                            *)

\* The components of paths.
Component == STRING

Popped(at, c) == IF c # ".." THEN Append(at, c)
                 ELSE IF at = <<>> THEN at ELSE Front(at)

LookedUp(f, ln, at, c) ==
    IF ~IsDir(f, at) THEN NotFound
    ELSE IF c = ".." THEN (IF Len(at) = 1 THEN at ELSE Front(at))
    ELSE IF Real(ln, Append(at, c)) \in DOMAIN f THEN Real(ln, Append(at, c))
    ELSE NotFound

\* One step of each of the folds.
StepTo(fold, f, ln, at, c) ==
    IF fold = "normalize" THEN Popped(at, c)
    ELSE IF fold = "canonicalize" THEN LookedUp(f, ln, at, c)
    ELSE Real(ln, Append(at, c))

\* g maps a set of indices of q to what folding the components there gives.
Folds(fold, f, ln, b, q, n, g) ==
    g = [s \in SUBSET (1 .. n) |->
            IF s = {} THEN b ELSE StepTo(fold, f, ln, g[s \ {Max(s)}], q[Max(s)])]

LEMMA NormalizeFolds ==
    ASSUME NEW p
    PROVE  normalize_path(p) =
             (CHOOSE g : g = [s \in SUBSET DOMAIN p |->
                 IF s = {} THEN <<>> ELSE Popped(g[s \ {Max(s)}], p[Max(s)])])[DOMAIN p]
  BY Zenon DEF normalize_path, FoldLeft, MapThenFoldSet, Popped

LEMMA CanonicalizeFolds ==
    ASSUME NEW f, NEW ln, NEW p
    PROVE  canonicalize(f, ln, p) =
             (CHOOSE g : g = [s \in SUBSET DOMAIN Tail(p) |->
                 IF s = {} THEN <<"/">> ELSE LookedUp(f, ln, g[s \ {Max(s)}], Tail(p)[Max(s)])]
             )[DOMAIN Tail(p)]
  BY Zenon DEF canonicalize, FoldLeft, MapThenFoldSet, LookedUp

LEMMA FollowFolds ==
    ASSUME NEW ln, NEW p
    PROVE  Follow(ln, p) =
             (CHOOSE g : g = [s \in SUBSET DOMAIN p |->
                 IF s = {} THEN <<>> ELSE Real(ln, Append(g[s \ {Max(s)}], p[Max(s)]))])[DOMAIN p]
  BY Zenon DEF Follow, FoldLeft, MapThenFoldSet

LEMMA MaxIn ==
    ASSUME NEW n \in Nat, NEW s \in SUBSET (1 .. n), s # {}
    PROVE  Max(s) \in s /\ \A x \in s : x <= Max(s)
  <1> DEFINE T == {n - x : x \in s}
  <1>1. T \subseteq Nat /\ T # {}
    <2>1. \A x \in s : n - x \in Nat
      OBVIOUS
    <2>2. PICK x \in s : TRUE
      OBVIOUS
    <2>3. n - x \in T
      OBVIOUS
    <2> QED
      BY <2>1, <2>3
  <1>2. PICK t \in T : \A y \in T : t <= y
    BY <1>1, LeastNat
  <1>3. PICK m \in s : t = n - m
    OBVIOUS
  <1>4. \A x \in s : n - x \in T /\ t <= n - x
    BY <1>2
  <1>5. \A x \in s : m >= x
    BY <1>3, <1>4
  <1>6. Max(s) \in s /\ \A x \in s : Max(s) >= x
    BY <1>5 DEF Max
  <1> QED
    BY <1>6

LEMMA FoldExists ==
    ASSUME NEW fold, NEW f, NEW ln, NEW b, NEW q
    PROVE  \A n \in Nat : \E g : Folds(fold, f, ln, b, q, n, g)
  <1> DEFINE Q(n) == \E g : Folds(fold, f, ln, b, q, n, g)
             T == {n \in Nat : ~Q(n)}
  <1> SUFFICES ASSUME T # {} PROVE FALSE
    OBVIOUS
  <1>1. PICK n \in T : \A m \in T : n <= m
    <2> HIDE DEF Q
    <2> QED
      BY LeastNat
  <1>2. CASE n = 0
    <2> DEFINE g == [s \in SUBSET (1 .. 0) |-> b]
    <2>1. \A s \in SUBSET (1 .. 0) : s = {}
      OBVIOUS
    <2>2. Folds(fold, f, ln, b, q, 0, g)
      BY <2>1 DEF Folds
    <2> QED
      BY <1>2, <2>2
  <1>3. CASE n # 0
    <2>1. n \in Nat /\ n - 1 \in Nat /\ n - 1 \notin T
      BY <1>1, <1>3
    <2>2. PICK m \in Nat : m = n - 1
      BY <2>1
    <2>3. PICK g : Folds(fold, f, ln, b, q, m, g)
      BY <2>1, <2>2
    <2>4. n = m + 1
      BY <2>1, <2>2
    <2> DEFINE last(s) == StepTo(fold, f, ln, g[s \ {n}], q[n])
               h == [s \in SUBSET (1 .. n) |-> IF n \in s THEN last(s) ELSE g[s]]
               next(s) == IF s = {} THEN b ELSE StepTo(fold, f, ln, h[s \ {Max(s)}], q[Max(s)])
    <2>5. ASSUME NEW s \in SUBSET (1 .. n) PROVE h[s] = next(s)
      <3>1. CASE n \in s
        <4>1. Max(s) = n
          <5>1. Max(s) \in s /\ n <= Max(s)
            BY <2>1, <3>1, MaxIn
          <5>2. Max(s) \in 1 .. n
            BY <5>1
          <5> QED
            BY <2>1, <5>1, <5>2
        <4>2. s \ {n} \in SUBSET (1 .. n) /\ n \notin s \ {n}
          OBVIOUS
        <4>3. h[s \ {n}] = g[s \ {n}]
          BY <4>2
        <4>4. h[s] = last(s)
          BY <3>1
        <4>5. s # {}
          BY <3>1
        <4> HIDE DEF h
        <4> QED
          BY <4>1, <4>3, <4>4, <4>5
      <3>2. CASE n \notin s
        <4>1. s \in SUBSET (1 .. m)
          BY <2>1, <2>4, <3>2
        <4>2. h[s] = g[s]
          BY <3>2
        <4>3. g[s] = IF s = {} THEN b ELSE StepTo(fold, f, ln, g[s \ {Max(s)}], q[Max(s)])
          BY <2>3, <4>1 DEF Folds
        <4>4. s \ {Max(s)} \in SUBSET (1 .. n) /\ n \notin s \ {Max(s)}
          BY <3>2
        <4>5. h[s \ {Max(s)}] = g[s \ {Max(s)}]
          BY <4>4
        <4> HIDE DEF h
        <4> QED
          BY <4>2, <4>3, <4>5
      <3> QED
        BY <3>1, <3>2
    <2>6. h = [s \in SUBSET (1 .. n) |-> h[s]]
      OBVIOUS
    <2>7. [s \in SUBSET (1 .. n) |-> h[s]] = [s \in SUBSET (1 .. n) |-> next(s)]
      <3> HIDE DEF h, next
      <3> QED
        BY <2>5
    <2>8. Folds(fold, f, ln, b, q, n, h)
      <3> HIDE DEF h
      <3> QED
        BY <2>6, <2>7 DEF Folds
    <2> QED
      BY <1>1, <2>8
  <1> QED
    BY <1>2, <1>3

\* On the first k components the fold makes its step from the first k - 1.
Steps(fold, f, ln, b, q, n, g) ==
    /\ g[1 .. 0] = b
    /\ \A k \in 1 .. n : g[1 .. k] = StepTo(fold, f, ln, g[1 .. (k - 1)], q[k])

LEMMA FoldSteps ==
    ASSUME NEW fold, NEW f, NEW ln, NEW b, NEW q, NEW n \in Nat, NEW g, Folds(fold, f, ln, b, q, n, g)
    PROVE  Steps(fold, f, ln, b, q, n, g)
  <1>1. g[1 .. 0] = b
    <2>1. 1 .. 0 = {} /\ {} \in SUBSET (1 .. n)
      OBVIOUS
    <2> QED
      BY <2>1 DEF Folds
  <1>2. ASSUME NEW k \in 1 .. n
        PROVE  g[1 .. k] = StepTo(fold, f, ln, g[1 .. (k - 1)], q[k])
    <2>1. k \in Nat /\ 1 .. k \in SUBSET (1 .. n) /\ 1 .. k \in SUBSET (1 .. k) /\ k \in 1 .. k
      OBVIOUS
    <2>2. Max(1 .. k) = k
      <3>1. Max(1 .. k) \in 1 .. k /\ k <= Max(1 .. k)
        BY <2>1, MaxIn
      <3> QED
        BY <3>1
    <2>3. (1 .. k) \ {k} = 1 .. (k - 1)
      OBVIOUS
    <2>4. 1 .. k # {}
      BY <2>1
    <2>5. g[1 .. k] = StepTo(fold, f, ln, g[(1 .. k) \ {Max(1 .. k)}], q[Max(1 .. k)])
      BY <2>1, <2>4 DEF Folds
    <2> QED
      BY <2>2, <2>3, <2>5
  <1> QED
    BY <1>1, <1>2 DEF Steps

\* Each of the three is the last of a run of such steps.
LEMMA NormalizeRuns ==
    ASSUME NEW p \in Seq(Component)
    PROVE  \E g : normalize_path(p) = g[1 .. Len(p)] /\ Steps("normalize", 0, 0, <<>>, p, Len(p), g)
  <1> DEFINE n == Len(p)
             IsFold(g) == g = [s \in SUBSET DOMAIN p |->
                             IF s = {} THEN <<>> ELSE Popped(g[s \ {Max(s)}], p[Max(s)])]
  <1>1. n \in Nat /\ DOMAIN p = 1 .. n
    OBVIOUS
  <1>2. PICK b : b = <<>>
    OBVIOUS
  <1>3. \A g : IsFold(g) <=> Folds("normalize", 0, 0, b, p, n, g)
    BY <1>1, <1>2 DEF Folds, StepTo
  <1>4. \E g : IsFold(g)
    <2> HIDE DEF n, IsFold
    <2> QED
      BY <1>1, <1>3, FoldExists
  <1>5. PICK g : g = CHOOSE h : IsFold(h)
    OBVIOUS
  <1>6. IsFold(g)
    <2> HIDE DEF IsFold
    <2> QED
      BY <1>4, <1>5
  <1>7. normalize_path(p) = g[1 .. n]
    BY <1>1, <1>5, NormalizeFolds, Zenon
  <1>8. Steps("normalize", 0, 0, b, p, n, g)
    <2> HIDE DEF n, IsFold
    <2> QED
      BY <1>1, <1>3, <1>6, FoldSteps
  <1> QED
    BY <1>2, <1>7, <1>8

LEMMA FollowRuns ==
    ASSUME NEW ln, NEW p \in Seq(Component)
    PROVE  \E g : Follow(ln, p) = g[1 .. Len(p)] /\ Steps("follow", 0, ln, <<>>, p, Len(p), g)
  <1> DEFINE n == Len(p)
             IsFold(g) == g = [s \in SUBSET DOMAIN p |->
                             IF s = {} THEN <<>> ELSE Real(ln, Append(g[s \ {Max(s)}], p[Max(s)]))]
  <1>1. n \in Nat /\ DOMAIN p = 1 .. n
    OBVIOUS
  <1>2. PICK b : b = <<>>
    OBVIOUS
  <1>3. \A g : IsFold(g) <=> Folds("follow", 0, ln, b, p, n, g)
    BY <1>1, <1>2 DEF Folds, StepTo
  <1>4. \E g : IsFold(g)
    <2> HIDE DEF n, IsFold
    <2> QED
      BY <1>1, <1>3, FoldExists
  <1>5. PICK g : g = CHOOSE h : IsFold(h)
    OBVIOUS
  <1>6. IsFold(g)
    <2> HIDE DEF IsFold
    <2> QED
      BY <1>4, <1>5
  <1>7. Follow(ln, p) = g[1 .. n]
    BY <1>1, <1>5, FollowFolds, Zenon
  <1>8. Steps("follow", 0, ln, b, p, n, g)
    <2> HIDE DEF n, IsFold
    <2> QED
      BY <1>1, <1>3, <1>6, FoldSteps
  <1> QED
    BY <1>2, <1>7, <1>8

LEMMA CanonicalizeRuns ==
    ASSUME NEW f, NEW ln, NEW p \in Seq(Component), NEW q \in Seq(Component), q = Tail(p)
    PROVE  \E g : canonicalize(f, ln, p) = g[1 .. Len(q)] /\ Steps("canonicalize", f, ln, <<"/">>, q, Len(q), g)
  <1> DEFINE n == Len(q)
             IsFold(g) == g = [s \in SUBSET DOMAIN q |->
                             IF s = {} THEN <<"/">> ELSE LookedUp(f, ln, g[s \ {Max(s)}], q[Max(s)])]
  <1>1. n \in Nat /\ DOMAIN q = 1 .. n
    OBVIOUS
  <1>2. PICK b : b = <<"/">>
    OBVIOUS
  <1>3. \A g : IsFold(g) <=> Folds("canonicalize", f, ln, b, q, n, g)
    BY <1>1, <1>2 DEF Folds, StepTo
  <1>4. \E g : IsFold(g)
    <2> HIDE DEF n, IsFold
    <2> QED
      BY <1>1, <1>3, FoldExists
  <1>5. PICK g : g = CHOOSE h : IsFold(h)
    OBVIOUS
  <1>6. IsFold(g)
    <2> HIDE DEF IsFold
    <2> QED
      BY <1>4, <1>5
  <1>7. canonicalize(f, ln, p) = g[1 .. n]
    BY <1>1, <1>5, CanonicalizeFolds, Zenon
  <1>8. Steps("canonicalize", f, ln, b, q, n, g)
    <2> HIDE DEF n, IsFold
    <2> QED
      BY <1>1, <1>3, <1>6, FoldSteps
  <1> QED
    BY <1>2, <1>7, <1>8

\* What every step keeps, the fold has.
LEMMA FoldStays ==
    ASSUME NEW S, NEW fold, NEW f, NEW ln, NEW b \in S, NEW q \in Seq(Component), NEW g,
           Steps(fold, f, ln, b, q, Len(q), g),
           \A at \in S : \A c \in Component : StepTo(fold, f, ln, at, c) \in S
    PROVE  g[1 .. Len(q)] \in S
  <1> DEFINE n == Len(q)
             T == {k \in 0 .. n : g[1 .. k] \notin S}
  <1>1. n \in Nat /\ \A k \in 1 .. n : q[k] \in Component
    OBVIOUS
  <1>2. g[1 .. 0] \in S /\ \A k \in 1 .. n : g[1 .. k] = StepTo(fold, f, ln, g[1 .. (k - 1)], q[k])
    BY DEF Steps
  <1> HIDE DEF n
  <1>3. T = {}
    <2> SUFFICES ASSUME T # {} PROVE FALSE
      OBVIOUS
    <2>1. T \subseteq Nat
      BY <1>1
    <2>2. PICK k \in T : \A m \in T : k <= m
      <3> HIDE DEF T
      <3> QED
        BY <2>1, LeastNat
    <2>3. k # 0
      BY <1>2, <2>2
    <2>4. k \in 1 .. n /\ k - 1 \in 0 .. n /\ k - 1 \notin T
      BY <1>1, <2>1, <2>2, <2>3
    <2>5. g[1 .. (k - 1)] \in S /\ q[k] \in Component
      BY <1>1, <2>4
    <2>6. g[1 .. k] \in S
      BY <1>2, <2>4, <2>5
    <2> QED
      BY <2>2, <2>6
  <1>4. n \in 0 .. n
    BY <1>1
  <1> QED
    BY <1>3, <1>4 DEF n

LEMMA RootPath ==
    /\ Root \in Seq(Component) /\ Len(Root) \in Nat /\ Len(Root) > 1 /\ Root[1] = "/"
    /\ DOMAIN Root = 1 .. Len(Root) /\ \A k \in 1 .. Len(Root) : Root[k] # ".."
  <1>1. Root \in Seq(Component)
    BY PathsAssumption DEF Component
  <1> QED
    BY <1>1, PathsAssumption

\* Links are typed, and neither the root nor a directory above it is one.
LinksTyped(ln) ==
    \A l \in DOMAIN ln : l \in Seq(Component) /\ Len(l) > Len(Root) /\ ln[l] \in Seq(Component)

LEMMA LinkPaths ==
    ASSUME LinkInv
    PROVE  LinksTyped(links)
  <1> SUFFICES ASSUME NEW l \in DOMAIN links
               PROVE  l \in Seq(Component) /\ Len(l) > Len(Root) /\ links[l] \in Seq(Component)
    BY DEF LinksTyped
  <1>1. PICK m \in Linkable : m = <<l, links[l]>>
    BY DEF LinkInv
  <1>2. m \in Seq(Component) \X Seq(Component) /\ IsStrictPrefix(Root, m[1])
    BY LinkAssumption DEF Component
  <1>3. l \in Seq(Component) /\ links[l] \in Seq(Component) /\ IsStrictPrefix(Root, l)
    BY <1>1, <1>2
  <1>4. /\ Root \in Seq(Component) /\ Len(Root) <= Len(l) /\ Root # l
        /\ SubSeq(Root, 1, Len(Root)) = SubSeq(l, 1, Len(Root))
    BY <1>3, RootPath DEF IsStrictPrefix, IsPrefix
  <1>5. Len(l) # Len(Root)
    <2> SUFFICES ASSUME Len(l) = Len(Root) PROVE FALSE
      OBVIOUS
    <2>1. SubSeq(Root, 1, Len(Root)) = Root /\ SubSeq(l, 1, Len(l)) = l
      BY <1>3, <1>4
    <2> QED
      BY <1>4, <2>1
  <1> QED
    BY <1>3, <1>4, <1>5

LEMMA NotLink ==
    ASSUME NEW ln, LinksTyped(ln), NEW p, Len(p) \in Nat, Len(p) <= Len(Root)
    PROVE  p \notin DOMAIN ln /\ Real(ln, p) = p
  <1>1. p \in DOMAIN ln => Len(p) > Len(Root)
    BY DEF LinksTyped
  <1>2. p \notin DOMAIN ln
    BY <1>1, RootPath
  <1> QED
    BY <1>2 DEF Real

\* The root has no "..", so pushing its components gives it back ...
LEMMA NormalizedRoot == normalize_path(Root) = Root
  <1> DEFINE n == Len(Root)
             Sub(k) == SubSeq(Root, 1, k)
  <1>1. n \in Nat /\ DOMAIN Root = 1 .. n /\ Root \in Seq(Component)
    BY RootPath
  <1>2. PICK g : /\ normalize_path(Root) = g[1 .. n]
                 /\ Steps("normalize", 0, 0, <<>>, Root, n, g)
    BY <1>1, NormalizeRuns
  <1>3. g[1 .. 0] = <<>> /\ \A k \in 1 .. n : g[1 .. k] = Popped(g[1 .. (k - 1)], Root[k])
    BY <1>2 DEF Steps, StepTo
  <1> DEFINE T == {k \in 0 .. n : g[1 .. k] # Sub(k)}
  <1>4. T = {}
    <2> SUFFICES ASSUME T # {} PROVE FALSE
      OBVIOUS
    <2>1. T \subseteq Nat
      BY <1>1
    <2>2. PICK k \in T : \A m \in T : k <= m
      <3> HIDE DEF T
      <3> QED
        BY <2>1, LeastNat
    <2>3. CASE k = 0
      <3>1. Sub(0) = <<>>
        BY RootPath
      <3> QED
        BY <1>3, <2>2, <2>3, <3>1
    <2>4. CASE k # 0
      <3>1. k \in 1 .. n /\ k - 1 \in 0 .. n /\ k - 1 \notin T
        BY <1>1, <2>1, <2>2, <2>4
      <3>2. g[1 .. (k - 1)] = Sub(k - 1)
        BY <3>1
      <3>3. Root[k] # ".."
        BY <1>1, <3>1, RootPath
      <3>4. g[1 .. k] = Append(Sub(k - 1), Root[k])
        BY <1>3, <3>1, <3>2, <3>3 DEF Popped
      <3>5. Append(Sub(k - 1), Root[k]) = Sub(k)
        BY <3>1, RootPath
      <3> QED
        BY <2>2, <3>4, <3>5
    <2> QED
      BY <2>3, <2>4
  <1>5. g[1 .. n] = Sub(n)
    BY <1>1, <1>4
  <1>6. Sub(n) = Root
    BY RootPath
  <1> QED
    BY <1>2, <1>5, <1>6

\* ... and looking them up one by one gives it back or does not find it.
LEMMA CanonicalRoot ==
    ASSUME NEW f, <<>> \notin DOMAIN f, NEW ln, LinksTyped(ln)
    PROVE  canonicalize(f, ln, Root) \in {NotFound, Root}
  <1> DEFINE q == Tail(Root)
             n == Len(q)
             Sub(k) == SubSeq(Root, 1, k + 1)
  <1>1. /\ n \in Nat /\ q \in Seq(Component) /\ \A k \in 1 .. n : q[k] = Root[k + 1]
        /\ Root \in Seq(Component) /\ n + 1 = Len(Root)
    BY RootPath
  <1>2. PICK g : /\ canonicalize(f, ln, Root) = g[1 .. n]
                 /\ Steps("canonicalize", f, ln, <<"/">>, q, n, g)
    <2> HIDE DEF q
    <2> QED
      BY <1>1, CanonicalizeRuns DEF q
  <1>3. /\ g[1 .. 0] = <<"/">>
        /\ \A k \in 1 .. n : g[1 .. k] = LookedUp(f, ln, g[1 .. (k - 1)], q[k])
    BY <1>2 DEF Steps, StepTo
  <1> HIDE DEF q
  <1> DEFINE T == {k \in 0 .. n : g[1 .. k] # NotFound /\ g[1 .. k] # Sub(k)}
  <1>4. T = {}
    <2> SUFFICES ASSUME T # {} PROVE FALSE
      OBVIOUS
    <2>1. T \subseteq Nat
      BY <1>1
    <2>2. PICK k \in T : \A m \in T : k <= m
      <3> HIDE DEF T
      <3> QED
        BY <2>1, LeastNat
    <2>3. CASE k = 0
      <3>1. Sub(0) = <<"/">>
        <4>1. Sub(0) \in Seq(Component) /\ Len(Sub(0)) = 1 /\ Sub(0)[1] = Root[1]
          BY RootPath
        <4> HIDE DEF Sub
        <4>2. Sub(0) = <<Sub(0)[1]>>
          BY <4>1
        <4> QED
          BY <4>1, <4>2, RootPath
      <3> QED
        BY <1>3, <2>2, <2>3, <3>1
    <2>4. CASE k # 0
      <3>1. k \in 1 .. n /\ k - 1 \in 0 .. n /\ k - 1 \notin T
        BY <1>1, <2>1, <2>2, <2>4
      <3>2. g[1 .. (k - 1)] = NotFound \/ g[1 .. (k - 1)] = Sub(k - 1)
        BY <3>1
      <3>3. q[k] # ".." /\ q[k] = Root[k + 1]
        BY <1>1, <3>1, RootPath
      <3>4. g[1 .. k] = LookedUp(f, ln, g[1 .. (k - 1)], q[k])
        BY <1>3, <3>1
      <3>5. g[1 .. (k - 1)] = NotFound => g[1 .. k] = NotFound
        BY <3>4 DEF LookedUp, IsDir, NotFound
      <3>6. /\ Append(Sub(k - 1), q[k]) = Sub(k)
            /\ Len(Sub(k)) \in Nat /\ Len(Sub(k)) <= Len(Root)
        BY <1>1, <3>1, <3>3, RootPath
      <3> HIDE DEF Sub
      <3>8. Real(ln, Sub(k)) = Sub(k)
        BY <3>6, NotLink
      <3>9. g[1 .. (k - 1)] = Sub(k - 1) => g[1 .. k] = NotFound \/ g[1 .. k] = Sub(k)
        BY <3>3, <3>4, <3>6, <3>8 DEF LookedUp
      <3> QED
        BY <2>2, <3>2, <3>5, <3>9
    <2> QED
      BY <2>3, <2>4
  <1>5. g[1 .. n] = NotFound \/ g[1 .. n] = Sub(n)
    BY <1>1, <1>4
  <1>6. Sub(n) = Root
    BY <1>1, RootPath
  <1> QED
    BY <1>2, <1>5, <1>6

\* Both give paths.
LEMMA NormalizedPath ==
    ASSUME NEW p \in Seq(Component)
    PROVE  normalize_path(p) \in Seq(Component)
  <1>1. PICK b : b = <<>>
    OBVIOUS
  <1>2. PICK g : normalize_path(p) = g[1 .. Len(p)] /\ Steps("normalize", 0, 0, b, p, Len(p), g)
    BY <1>1, NormalizeRuns
  <1>3. ASSUME NEW at \in Seq(Component), NEW c \in Component
        PROVE  StepTo("normalize", 0, 0, at, c) \in Seq(Component)
    <2>1. at # <<>> => SubSeq(at, 1, Len(at) - 1) \in Seq(Component)
      OBVIOUS
    <2> QED
      BY <2>1 DEF StepTo, Popped, Front
  <1>4. b \in Seq(Component)
    BY <1>1
  <1> QED
    BY <1>2, <1>3, <1>4, FoldStays

LEMMA CanonicalPath ==
    ASSUME NEW f, NEW ln, LinksTyped(ln), NEW p \in Seq(Component), p # <<>>
    PROVE  canonicalize(f, ln, p) \in Seq(Component)
  <1>1. PICK b : b = <<"/">>
    OBVIOUS
  <1>2. PICK q \in Seq(Component) : q = Tail(p)
    <2>1. Len(p) \in Nat /\ Len(p) # 0
      OBVIOUS
    <2>2. Tail(p) \in Seq(Component)
      BY <2>1
    <2> QED
      BY <2>2
  <1>3. PICK g : canonicalize(f, ln, p) = g[1 .. Len(q)]
                 /\ Steps("canonicalize", f, ln, b, q, Len(q), g)
    BY <1>1, <1>2, CanonicalizeRuns
  <1>4. ASSUME NEW at \in Seq(Component), NEW c \in Component
        PROVE  StepTo("canonicalize", f, ln, at, c) \in Seq(Component)
    <2>1. Append(at, c) \in Seq(Component) /\ <<>> \in Seq(Component)
      OBVIOUS
    <2>2. Real(ln, Append(at, c)) \in Seq(Component)
      BY <2>1 DEF Real, LinksTyped
    <2>3. Front(at) \in Seq(Component)
      <3>1. CASE at = <<>>
        <4>1. Len(at) - 1 = -1 /\ SubSeq(at, 1, -1) = <<>>
          BY <3>1
        <4> QED
          BY <2>1, <4>1 DEF Front
      <3>2. CASE at # <<>>
        BY <3>2 DEF Front
      <3> QED
        BY <3>1, <3>2
    <2> QED
      BY <2>1, <2>2, <2>3 DEF StepTo, LookedUp, NotFound
  <1>5. b \in Seq(Component)
    <2>1. PICK c \in Component : c = "/"
      <3>1. Root[1] \in Component
        BY RootPath
      <3> QED
        BY <3>1, RootPath
    <2>2. <<c>> \in Seq(Component)
      OBVIOUS
    <2> QED
      BY <1>1, <2>1, <2>2
  <1>6. PICK S : S = Seq(Component)
    OBVIOUS
  <1>7. \A at \in S : \A c \in Component : StepTo("canonicalize", f, ln, at, c) \in S
    BY <1>4, <1>6
  <1>8. g[1 .. Len(q)] \in S
    BY <1>3, <1>5, <1>6, <1>7, FoldStays
  <1> QED
    BY <1>3, <1>6, <1>8

\* So what resolve_path lets through is a path below the root.
LEMMA ResolvedBelow ==
    ASSUME NEW f, <<>> \notin DOMAIN f, NEW ln, LinksTyped(ln), NEW r \in Seq(Component),
           resolve_path(f, ln, r) # Denied
    PROVE  resolve_path(f, ln, r) \in Seq(Component) /\ Below(resolve_path(f, ln, r))
  <1> DEFINE p == join(Root, r)
  <1>1. OrNormalized(f, ln, Root) = Root
    BY NormalizedRoot, CanonicalRoot DEF OrNormalized
  <1>2. p \in Seq(Component) /\ p # <<>>
    <2>1. Root \o r \in Seq(Component) /\ Len(Root \o r) = Len(Root) + Len(r) /\ Len(r) \in Nat
      BY RootPath
    <2>2. Root \o r # <<>>
      BY <2>1, RootPath
    <2> QED
      BY <2>1, <2>2 DEF join
  <1> HIDE DEF p
  <1>3. OrNormalized(f, ln, p) \in Seq(Component)
    BY <1>2, NormalizedPath, CanonicalPath DEF OrNormalized
  <1> QED
    BY <1>1, <1>3 DEF resolve_path, Below, p

-----------------------------------------------------------------------------
(* Confinement. *)

\* No link that users make leads out of the root.
LinksInside == \A l \in Linkable : Below(l[2])

LinksBelow(ln) == LinksTyped(ln) /\ \A l \in DOMAIN ln : Below(ln[l])

LEMMA LinksLead ==
    ASSUME LinkInv, LinksInside
    PROVE  LinksBelow(links)
  <1>1. ASSUME NEW l \in DOMAIN links PROVE Below(links[l])
    <2>1. PICK m \in Linkable : m = <<l, links[l]>>
      BY DEF LinkInv
    <2>2. m[2] = links[l]
      BY <2>1
    <2> QED
      BY <2>2 DEF LinksInside
  <1> QED
    BY <1>1, LinkPaths DEF LinksBelow

LEMMA AppendBelow ==
    ASSUME NEW at \in Seq(Component), Below(at), NEW c \in Component
    PROVE  Below(Append(at, c))
  <1>1. Root \in Seq(Component) /\ Len(Root) \in Nat /\ Len(Root) <= Len(at)
    BY RootPath DEF Below, IsPrefix
  <1>2. SubSeq(Append(at, c), 1, Len(Root)) = SubSeq(at, 1, Len(Root))
    BY <1>1
  <1>3. Len(Append(at, c)) = Len(at) + 1 /\ Len(at) \in Nat
    OBVIOUS
  <1> QED
    BY <1>1, <1>2, <1>3 DEF Below, IsPrefix

\* A path that begins with the root, or that the root begins with.
Along(p) == \A k \in 1 .. Len(p) : k <= Len(Root) => p[k] = Root[k]

\* No link is on the way to the root, and behind it none leads out.
LEMMA FollowAlong ==
    ASSUME NEW ln, LinksBelow(ln), NEW p \in Seq(Component), Along(p)
    PROVE  /\ Follow(ln, p) \in Seq(Component)
           /\ Len(p) <= Len(Root) => Follow(ln, p) = SubSeq(Root, 1, Len(p))
           /\ Len(p) >= Len(Root) => Below(Follow(ln, p))
  <1> DEFINE n == Len(p)
             Sub(k) == SubSeq(Root, 1, k)
  <1>1. n \in Nat /\ Len(Root) \in Nat /\ Root \in Seq(Component) /\ \A k \in 1 .. n : p[k] \in Component
    BY RootPath
  <1>2. PICK g : Follow(ln, p) = g[1 .. n] /\ Steps("follow", 0, ln, <<>>, p, n, g)
    BY FollowRuns
  <1>3. g[1 .. 0] = <<>> /\ \A k \in 1 .. n : g[1 .. k] = Real(ln, Append(g[1 .. (k - 1)], p[k]))
    BY <1>2 DEF Steps, StepTo
  <1>4. Below(Root)
    BY <1>1 DEF Below, IsPrefix
  <1> HIDE DEF n
  <1> DEFINE Good(k) == /\ g[1 .. k] \in Seq(Component)
                        /\ k <= Len(Root) => g[1 .. k] = Sub(k)
                        /\ k >= Len(Root) => Below(g[1 .. k])
             T == {k \in 0 .. n : ~Good(k)}
  <1>5. T = {}
    <2> SUFFICES ASSUME T # {} PROVE FALSE
      OBVIOUS
    <2>1. T \subseteq Nat
      BY <1>1
    <2>2. PICK k \in T : \A m \in T : k <= m
      <3> HIDE DEF T
      <3> QED
        BY <2>1, LeastNat
    <2>3. CASE k = 0
      <3>1. Sub(0) = <<>> /\ <<>> \in Seq(Component) /\ Len(Root) > 0
        BY RootPath
      <3>2. Good(0)
        BY <1>3, <3>1
      <3> QED
        BY <2>2, <2>3, <3>2
    <2>4. CASE k # 0
      <3>1. k \in 1 .. n /\ k - 1 \in 0 .. n /\ k - 1 \notin T
        BY <1>1, <2>1, <2>2, <2>4
      <3>2. Good(k - 1)
        <4> HIDE DEF Good
        <4> QED
          BY <3>1
      <3>3. PICK at : at = g[1 .. (k - 1)]
        OBVIOUS
      <3>4. /\ at \in Seq(Component) /\ (k - 1 <= Len(Root) => at = Sub(k - 1))
            /\ (k - 1 >= Len(Root) => Below(at)) /\ p[k] \in Component
            /\ g[1 .. k] = Real(ln, Append(at, p[k]))
        BY <1>1, <1>3, <3>1, <3>2, <3>3
      <3>5. CASE k <= Len(Root)
        <4>1. at = Sub(k - 1) /\ p[k] = Root[k]
          BY <1>1, <3>1, <3>4, <3>5 DEF Along, n
        <4>2. Append(Sub(k - 1), Root[k]) = Sub(k) /\ Sub(k) \in Seq(Component) /\ Len(Sub(k)) = k
          BY <1>1, <3>1, <3>5
        <4>3. Real(ln, Sub(k)) = Sub(k)
          <5>1. LinksTyped(ln) /\ Len(Sub(k)) \in Nat /\ Len(Sub(k)) <= Len(Root)
            BY <1>1, <3>1, <3>5, <4>2 DEF LinksBelow
          <5> HIDE DEF Sub
          <5> QED
            BY <5>1, NotLink
        <4>4. g[1 .. k] = Sub(k)
          BY <3>4, <4>1, <4>2, <4>3
        <4>5. k >= Len(Root) => Sub(k) = Root
          BY <1>1, <3>1, <3>5
        <4>6. Good(k)
          BY <1>4, <4>2, <4>4, <4>5
        <4> QED
          BY <2>2, <4>6
      <3>6. CASE k > Len(Root)
        <4>1. Below(at)
          BY <1>1, <3>1, <3>4, <3>6
        <4>2. Append(at, p[k]) \in Seq(Component) /\ Below(Append(at, p[k]))
          BY <3>4, <4>1, AppendBelow
        <4>3. g[1 .. k] \in Seq(Component) /\ Below(g[1 .. k])
          BY <3>4, <4>2 DEF Real, LinksBelow, LinksTyped
        <4>4. Good(k)
          BY <1>1, <3>1, <3>6, <4>3
        <4> QED
          BY <2>2, <4>4
      <3> QED
        BY <1>1, <3>1, <3>5, <3>6
    <2> QED
      BY <2>3, <2>4
  <1>6. Good(n)
    <2>1. n \in 0 .. n
      BY <1>1
    <2> HIDE DEF Good
    <2> QED
      BY <1>5, <2>1
  <1> QED
    BY <1>2, <1>6 DEF n

LEMMA BelowAlong ==
    ASSUME NEW p \in Seq(Component), Below(p)
    PROVE  Along(p) /\ Len(p) >= Len(Root) /\ Len(p) > 1
  <1>1. /\ Root \in Seq(Component) /\ Len(Root) \in Nat /\ Len(p) \in Nat /\ Len(Root) > 1
        /\ Len(Root) <= Len(p) /\ SubSeq(Root, 1, Len(Root)) = SubSeq(p, 1, Len(Root))
    BY RootPath DEF Below, IsPrefix
  <1>2. \A k \in 1 .. Len(Root) : /\ SubSeq(Root, 1, Len(Root))[k] = Root[k]
                                  /\ SubSeq(p, 1, Len(Root))[k] = p[k]
    BY <1>1
  <1>3. \A k \in 1 .. Len(Root) : p[k] = Root[k]
    BY <1>1, <1>2
  <1> QED
    BY <1>1, <1>3 DEF Along

LEMMA FollowBelow ==
    ASSUME NEW ln, LinksBelow(ln), NEW p \in Seq(Component), Below(p)
    PROVE  Follow(ln, p) \in Seq(Component) /\ Below(Follow(ln, p))
  BY BelowAlong, FollowAlong

LEMMA EntryBelow ==
    ASSUME NEW ln, LinksBelow(ln), NEW p \in Seq(Component), Below(p)
    PROVE  Entry(ln, p) \in Seq(Component) /\ Below(Entry(ln, p))
  <1>1. Along(p) /\ Len(p) >= Len(Root) /\ Len(p) > 1 /\ Len(p) \in Nat /\ Len(Root) \in Nat
    BY BelowAlong, RootPath
  <1>2. PICK q : q = SubSeq(p, 1, Len(p) - 1)
    OBVIOUS
  <1>3. /\ q \in Seq(Component) /\ Len(q) = Len(p) - 1 /\ p[Len(p)] \in Component
        /\ \A k \in 1 .. Len(q) : q[k] = p[k]
    BY <1>1, <1>2
  <1>4. Along(q)
    BY <1>1, <1>3 DEF Along
  <1>5. PICK at : at = Follow(ln, q)
    OBVIOUS
  <1>6. /\ at \in Seq(Component)
        /\ Len(q) <= Len(Root) => at = SubSeq(Root, 1, Len(q))
        /\ Len(q) >= Len(Root) => Below(at)
    BY <1>3, <1>4, <1>5, FollowAlong
  <1>7. Entry(ln, p) = Append(at, p[Len(p)])
    BY <1>2, <1>5 DEF Entry, Front, Last
  <1>8. CASE Len(q) >= Len(Root)
    BY <1>3, <1>6, <1>7, <1>8, AppendBelow
  <1>9. CASE Len(p) = Len(Root)
    <2>1. at = SubSeq(Root, 1, Len(Root) - 1) /\ p[Len(p)] = Root[Len(Root)]
      BY <1>1, <1>3, <1>6, <1>9 DEF Along
    <2>2. Append(SubSeq(Root, 1, Len(Root) - 1), Root[Len(Root)]) = Root
      BY RootPath
    <2>3. Entry(ln, p) = Root
      BY <1>7, <2>1, <2>2
    <2> QED
      BY <2>3, RootPath DEF Below, IsPrefix
  <1> QED
    BY <1>1, <1>3, <1>8, <1>9

JobBelow(j) == j # Idle => j.path \in Seq(Component) /\ Below(j.path)

HandlerBelow(h) ==
    /\ \A n \in DOMAIN h.open_files :
          h.open_files[n].path \in Seq(Component) /\ Below(h.open_files[n].path)
    /\ \A n \in DOMAIN h.open_dirs :
          h.open_dirs[n].path \in Seq(Component) /\ Below(h.open_dirs[n].path)

\* What is not below the root is there and is as it was.
Outside ==
    /\ {p \in DOMAIN fs : ~Below(p)}
          = {Beside} \cup {SubSeq(Root, 1, n) : n \in 1 .. Len(Root) - 1}
    /\ fs[Beside] # Dir
    /\ data[fs[Beside]] = <<Zero>>

ConfInv ==
    /\ \A c \in Conns : JobBelow(job[c]) /\ HandlerBelow(handler[c])
    /\ Outside

\* What all the steps start from.
Inside == IInv /\ CountInv /\ NoWrap /\ LinksBelow(links) /\ ConfInv

LEMMA BesideThere ==
    ASSUME IInv, Outside
    PROVE  /\ ~Below(Beside) /\ Beside \in DOMAIN fs /\ fs[Beside] \in Inodes
           /\ DOMAIN data = Inodes
  <1>1. ~Below(Beside)
    BY SftpAssumption DEF Below
  <1>2. Beside \in {p \in DOMAIN fs : ~Below(p)}
    BY DEF Outside
  <1> QED
    BY <1>1, <1>2 DEF Outside, IInv, TypeInv

LEMMA PathResolved ==
    ASSUME IInv, LinksBelow(links), NEW r \in Requested, resolve_path(fs, links, r) # Denied
    PROVE  resolve_path(fs, links, r) \in Seq(Component) /\ Below(resolve_path(fs, links, r))
  <1>1. <<>> \notin DOMAIN fs /\ LinksTyped(links)
    BY DEF IInv, TypeInv, LinksBelow
  <1>2. r \in Seq(Component)
    BY SftpAssumption DEF Component
  <1> QED
    BY <1>1, <1>2, ResolvedBelow

\* What a request in progress is about is below the root.
LEMMA LocatedBelow ==
    ASSUME LinksBelow(links), NEW j, JobBelow(j), j # Idle
    PROVE  Located(j) \in Seq(Component) /\ Below(Located(j))
  <1>1. j.path \in Seq(Component) /\ Below(j.path)
    BY DEF JobBelow
  <1>2. PICK p \in Seq(Component) : p = j.path /\ Below(p)
    BY <1>1
  <1>3. Follow(links, p) \in Seq(Component) /\ Below(Follow(links, p))
    BY <1>2, FollowBelow
  <1>4. Entry(links, p) \in Seq(Component) /\ Below(Entry(links, p))
    BY <1>2, EntryBelow
  <1>5. Located(j) \in {Follow(links, p), Entry(links, p), p}
    BY <1>2 DEF Located
  <1> QED
    BY <1>2, <1>3, <1>4, <1>5

\* The file of a handle is, too, and so is its directory.
LEMMA HandleLeads ==
    ASSUME LinksBelow(links), NEW h, HandlerBelow(h)
    PROVE  /\ \A n \in DOMAIN h.open_files :
                 /\ Follow(links, h.open_files[n].path) \in Seq(Component)
                 /\ Below(Follow(links, h.open_files[n].path))
           /\ \A n \in DOMAIN h.open_dirs :
                 /\ Follow(links, h.open_dirs[n].path) \in Seq(Component)
                 /\ Below(Follow(links, h.open_dirs[n].path))
  <1>1. \A p \in Seq(Component) : Below(p) =>
           Follow(links, p) \in Seq(Component) /\ Below(Follow(links, p))
    BY FollowBelow
  <1> QED
    BY <1>1 DEF HandlerBelow

\* A request goes on only with a path below the root.
LEMMA RequestBelow ==
    ASSUME Inside, NEW c \in Conns, handle_request(c) \/ SystemFails(c)
    PROVE  JobBelow(job'[c])
  <1> USE DEF Inside
  <1>1. DOMAIN job = Conns /\ JobOK(c, job[c]) /\ HandlerBelow(handler[c]) /\ JobBelow(job[c])
    BY DEF IInv, TypeInv, ConfInv
  <1>2. \A a : Answers(c, a) => JobBelow(job'[c])
    BY <1>1 DEF Answers, JobBelow
  <1>3. \A j : Continues(c, j) /\ j.path \in Seq(Component) /\ Below(j.path) => JobBelow(job'[c])
    BY <1>1 DEF Continues, JobBelow
  <1>4. ASSUME NEW op, NEW denied, Resolves(c, op, denied) PROVE JobBelow(job'[c])
    <2>1. PICK r \in Requested :
             LET p == resolve_path(fs, links, r)
             IN  IF p = Denied THEN Answers(c, Status(denied)) ELSE Continues(c, Job(op, p))
      BY <1>4 DEF Resolves
    <2>2. CASE resolve_path(fs, links, r) # Denied
      <3>1. PICK p : p = resolve_path(fs, links, r)
        OBVIOUS
      <3>2. p \in Seq(Component) /\ Below(p)
        BY <2>2, <3>1, PathResolved
      <3>3. Continues(c, Job(op, p)) /\ Job(op, p).path = p
        BY <2>1, <2>2, <3>1, IdleFields
      <3> QED
        BY <1>3, <3>2, <3>3
    <2> QED
      BY <1>2, <2>1, <2>2
  <1>5. CASE BadRequest(c) \/ handle_realpath(c) \/ handle_close(c) \/ handle_open(c)
             \/ SystemFails(c)
    BY <1>2, <1>5 DEF BadRequest, handle_realpath, handle_close, handle_open, SystemFails
  <1>6. CASE handle_stat(c) \/ handle_mkdir(c) \/ handle_rmdir(c) \/ handle_remove(c)
             \/ handle_opendir(c)
    BY <1>2, <1>4, <1>6 DEF handle_stat, handle_mkdir, handle_rmdir, handle_remove, handle_opendir
  <1>7. CASE handle_readdir(c)
    <2>1. CASE ReaddirOpens(c)
      <3>1. \/ \E a : Answers(c, a)
            \/ \E h \in DOMAIN handler[c].open_dirs : \E todo :
                  Continues(c, ListJob(Follow(links, handler[c].open_dirs[h].path), todo))
        BY <2>1 DEF ReaddirOpens, ListJob
      <3>2. ASSUME NEW h \in DOMAIN handler[c].open_dirs, NEW todo,
                   Continues(c, ListJob(Follow(links, handler[c].open_dirs[h].path), todo))
            PROVE  JobBelow(job'[c])
        <4>1. PICK p : p = Follow(links, handler[c].open_dirs[h].path)
          OBVIOUS
        <4>2. p \in Seq(Component) /\ Below(p)
          BY <1>1, <4>1, HandleLeads
        <4>3. PICK k : k = ListJob(p, todo)
          OBVIOUS
        <4>4. k.path = p
          BY <4>3, ListJobFields
        <4> QED
          BY <1>3, <3>2, <4>1, <4>2, <4>3, <4>4
      <3> QED
        BY <1>2, <3>1, <3>2
    <2>2. CASE ReaddirReads(c)
      <3>1. PICK todo, entries : Continues(c, [job[c] EXCEPT !.todo = todo, !.entries = entries])
        BY <2>2 DEF ReaddirReads
      <3>2. PICK k : k = [job[c] EXCEPT !.todo = todo, !.entries = entries]
        OBVIOUS
      <3>3. k.path = job[c].path /\ job[c] # Idle
        BY <1>1, <2>2, <3>2, IdleFields DEF JobOK, ReaddirReads, Doing
      <3> QED
        BY <1>1, <1>3, <3>1, <3>2, <3>3 DEF JobBelow
    <2>3. CASE ReaddirAnswers(c)
      BY <1>2, <2>3 DEF ReaddirAnswers
    <2> QED
      BY <1>7, <2>1, <2>2, <2>3 DEF handle_readdir
  <1>8. ASSUME NEW h \in DOMAIN handler[c].open_files, NEW op, NEW i, NEW off, NEW len,
               Continues(c, FileJob(op, Follow(links, handler[c].open_files[h].path),
                                    i, h, off, len))
        PROVE  JobBelow(job'[c])
    <2>1. PICK p : p = Follow(links, handler[c].open_files[h].path)
      OBVIOUS
    <2>2. p \in Seq(Component) /\ Below(p)
      BY <1>1, <2>1, HandleLeads
    <2>3. PICK k : k = FileJob(op, p, i, h, off, len)
      OBVIOUS
    <2>4. k.path = p
      BY <2>3, FileJobFields
    <2> QED
      BY <1>3, <1>8, <2>1, <2>2, <2>3, <2>4
  <1>9. CASE handle_read(c)
    <2>1. \/ \E a : Answers(c, a)
          \/ \E h \in DOMAIN handler[c].open_files : \E i, off, len :
                Continues(c, FileJob("read", Follow(links, handler[c].open_files[h].path),
                                     i, h, off, len))
      BY <1>9 DEF handle_read, ReadOpens, ReadReads, FileJob
    <2> QED
      BY <1>2, <1>8, <2>1
  <1>10. CASE handle_write(c)
    <2>1. \/ \E a : Answers(c, a)
          \/ \E h \in DOMAIN handler[c].open_files : \E i, off, len :
                Continues(c, FileJob("write", Follow(links, handler[c].open_files[h].path),
                                     i, h, off, len))
      BY <1>10 DEF handle_write, WriteOpens, WriteWrites, WriteStops, FileJob
    <2> QED
      BY <1>2, <1>8, <2>1
  <1> QED
    BY <1>5, <1>6, <1>7, <1>9, <1>10 DEF handle_request

\* Only paths below the root are kept in handles.
LEMMA HandlesBelow ==
    ASSUME Inside, NEW c \in Conns, handle_request(c) \/ SystemFails(c)
    PROVE  HandlerBelow(handler'[c])
  <1> USE DEF Inside
  <1> DEFINE old == handler[c]
  <1>1. DOMAIN handler = Conns /\ HandlerBelow(old) /\ HandlerOK(old) /\ JobBelow(job[c])
    BY DEF IInv, TypeInv, ConfInv
  <1>2. PICK new : new = handler'[c]
    OBVIOUS
  <1>3. CASE UNCHANGED handler
    BY <1>1, <1>3
  <1>4. CASE handle_opendir(c)
    <2>1. CASE Resolves(c, "opendir", "NO_SUCH_FILE")
      BY <1>3, <2>1 DEF Resolves
    <2>2. CASE Doing(c, "opendir")
      <3> DEFINE e == [path |-> job[c].path, listed |-> FALSE]
      <3>1. job[c].path \in Seq(Component) /\ Below(job[c].path)
        BY <1>1, <2>2, InProgress DEF JobBelow
      <3>2. e.path = job[c].path /\ DOMAIN e = {"path", "listed"}
        OBVIOUS
      <3>3. old.next_handle < U32_MAX
        BY <2>2, OpendirCounts
      <3>4. CASE handler' = [handler EXCEPT ![c] =
                   [alloc_handle(old) EXCEPT !.open_dirs = Extend(@, old.next_handle, e)]]
        <4> HIDE DEF e
        <4>1. new = [alloc_handle(old) EXCEPT !.open_dirs = Extend(@, old.next_handle, e)]
          BY <1>2, <1>1, <3>4
        <4>2. /\ new.open_files = old.open_files
              /\ new.open_dirs = Extend(old.open_dirs, old.next_handle, e)
          <5> HIDE DEF old
          <5> QED
            BY <1>1, <3>2, <3>3, <4>1, OpenDirHandler
        <4>3. e.path \in Seq(Component) /\ Below(e.path)
          BY <3>1, <3>2
        <4> HIDE DEF old
        <4> QED
          BY <1>2, <1>1, <4>2, <4>3 DEF HandlerBelow, Extend
      <3>5. \/ UNCHANGED handler
            \/ handler' = [handler EXCEPT ![c] =
                   [alloc_handle(old) EXCEPT !.open_dirs = Extend(@, old.next_handle, e)]]
        BY <1>3, <1>4 DEF handle_opendir, Resolves
      <3> QED
        BY <1>3, <3>4, <3>5
    <2> QED
      BY <1>4, <2>1, <2>2 DEF handle_opendir
  <1>5. CASE handle_readdir(c)
    <2>1. CASE ReaddirOpens(c)
      <3>1. PICK h \in Handles :
               \/ UNCHANGED handler
               \/ /\ h \in DOMAIN old.open_dirs
                  /\ handler' = [handler EXCEPT ![c].open_dirs[h].listed = TRUE]
        BY <2>1 DEF ReaddirOpens
      <3>2. CASE /\ h \in DOMAIN old.open_dirs
                 /\ handler' = [handler EXCEPT ![c].open_dirs[h].listed = TRUE]
        <4>1. new = [old EXCEPT !.open_dirs[h].listed = TRUE]
          BY <1>2, <1>1, <3>2
        <4>2. /\ new.open_files = old.open_files
              /\ DOMAIN new.open_dirs = DOMAIN old.open_dirs
              /\ \A x \in DOMAIN old.open_dirs :
                    new.open_dirs[x].path = old.open_dirs[x].path
          <5> HIDE DEF old
          <5> QED
            BY <1>1, <3>2, <4>1, ListedHandler
        <4> QED
          BY <1>2, <1>1, <4>2 DEF HandlerBelow
      <3> QED
        BY <1>3, <3>1, <3>2
    <2> QED
      BY <1>3, <1>5, <2>1 DEF handle_readdir, ReaddirReads, ReaddirAnswers
  <1>6. CASE handle_close(c)
    <2>1. PICK h \in Handles :
             handler' = [handler EXCEPT ![c].open_files = Without(@, h),
                                        ![c].open_dirs = Without(@, h)]
      BY <1>6 DEF handle_close
    <2>2. new = [old EXCEPT !.open_files = Without(@, h), !.open_dirs = Without(@, h)]
      BY <1>2, <1>1, <2>1
    <2>3. /\ new.open_files = Without(old.open_files, h)
          /\ new.open_dirs = Without(old.open_dirs, h)
      <3> HIDE DEF old
      <3> QED
        BY <1>1, <2>2, ClosedHandler
    <2> HIDE DEF old
    <2> QED
      BY <1>2, <1>1, <2>3 DEF HandlerBelow, Without
  <1>7. CASE handle_open(c)
    <2> DEFINE e(p, flags) == [path |-> p, flags |-> flags]
    <2>1. PICK r \in Requested, flags \in FlagSets :
             \/ UNCHANGED handler
             \/ /\ resolve_path(fs, links, r) # Denied
                /\ handler' = [handler EXCEPT ![c] =
                      [alloc_handle(old) EXCEPT !.open_files =
                          Extend(@, old.next_handle, e(resolve_path(fs, links, r), flags))]]
      BY <1>7 DEF handle_open
    <2>2. CASE /\ resolve_path(fs, links, r) # Denied
               /\ handler' = [handler EXCEPT ![c] =
                      [alloc_handle(old) EXCEPT !.open_files =
                          Extend(@, old.next_handle, e(resolve_path(fs, links, r), flags))]]
      <3>1. PICK k : k = e(resolve_path(fs, links, r), flags)
        OBVIOUS
      <3>2. k.path \in Seq(Component) /\ Below(k.path)
        <4>1. k.path = resolve_path(fs, links, r)
          BY <3>1
        <4> QED
          BY <2>2, <4>1, PathResolved
      <3>3. old.next_handle < U32_MAX
        <4>1. Receives(c)
          BY <1>7 DEF handle_open
        <4> QED
          BY <4>1, ReceivingCounts
      <3>4. new = [alloc_handle(old) EXCEPT !.open_files = Extend(@, old.next_handle, k)]
        <4> HIDE DEF e
        <4> QED
          BY <1>2, <1>1, <2>2, <3>1
      <3>5. /\ new.open_dirs = old.open_dirs
            /\ new.open_files = Extend(old.open_files, old.next_handle, k)
        <4> HIDE DEF old
        <4> QED
          BY <1>1, <3>3, <3>4, OpenFileHandler
      <3> HIDE DEF old
      <3> QED
        BY <1>2, <1>1, <3>2, <3>5 DEF HandlerBelow, Extend
    <2> QED
      BY <1>3, <2>1, <2>2
  <1>8. CASE ~(handle_opendir(c) \/ handle_readdir(c) \/ handle_close(c) \/ handle_open(c))
    <2>1. \A op, denied : Resolves(c, op, denied) => UNCHANGED handler
      BY DEF Resolves
    <2>2. UNCHANGED handler
      BY <1>8, <2>1 DEF handle_request, BadRequest, handle_realpath, handle_stat,
         handle_mkdir, handle_rmdir, handle_remove, handle_read, handle_write, ReadOpens,
         ReadReads, WriteOpens, WriteWrites, WriteStops, SystemFails
    <2> QED
      BY <1>3, <2>2
  <1> QED
    BY <1>4, <1>5, <1>6, <1>7, <1>8

\* A step that leaves the paths outside and the file there alone.
LEMMA OutsideSame ==
    ASSUME IInv, Outside,
           \A p : ~Below(p) => (p \in DOMAIN fs' <=> p \in DOMAIN fs),
           fs'[Beside] = fs[Beside], data'[fs[Beside]] = data[fs[Beside]]
    PROVE  Outside'
  <1>1. {p \in DOMAIN fs' : ~Below(p)} = {p \in DOMAIN fs : ~Below(p)}
    OBVIOUS
  <1>2. /\ {p \in DOMAIN fs' : ~Below(p)}
              = {Beside} \cup {SubSeq(Root, 1, n) : n \in 1 .. Len(Root) - 1}
        /\ fs'[Beside] # Dir /\ data'[fs'[Beside]] = <<Zero>>
    BY <1>1 DEF Outside
  <1> QED
    BY <1>2 DEF Outside

\* No step reaches what is not below the root.
LEMMA OutsideKept ==
    ASSUME Inside, NEW c \in Conns, handle_request(c) \/ SystemFails(c)
    PROVE  Outside'
  <1> USE DEF Inside
  <1>1. Outside /\ JobBelow(job[c]) /\ HandlerBelow(handler[c])
    BY DEF ConfInv
  <1>2. ~Below(Beside) /\ Beside \in DOMAIN fs /\ fs[Beside] \in Inodes /\ DOMAIN data = Inodes
        /\ fs[Beside] # Dir
    BY <1>1, BesideThere DEF Outside
  <1>3. CASE UNCHANGED <<fs, data>>
    BY <1>1, <1>3, OutsideSame
  <1>4. \A op, denied : Resolves(c, op, denied) => UNCHANGED <<fs, data>>
    BY DEF Resolves
  <1>5. ASSUME NEW op, op # "idle", Doing(c, op)
        PROVE  Below(Located(job[c])) /\ Below(job[c].path)
    BY <1>1, <1>5, InProgress, LocatedBelow DEF JobBelow
  <1>6. CASE handle_mkdir(c)
    <2>1. ASSUME NEW p, Below(p), fs' = Extend(fs, p, Dir), UNCHANGED data PROVE Outside'
      <3>1. DOMAIN fs' = DOMAIN fs \cup {p} /\ fs'[Beside] = fs[Beside]
        BY <1>2, <2>1 DEF Extend
      <3> QED
        BY <1>1, <2>1, <3>1, OutsideSame
    <2>2. CASE Resolves(c, "mkdir", "PERMISSION_DENIED")
      BY <1>3, <1>4, <2>2
    <2>3. CASE Doing(c, "mkdir")
      BY <1>3, <1>4, <1>5, <1>6, <2>1, <2>3 DEF handle_mkdir
    <2> QED
      BY <1>6, <2>2, <2>3 DEF handle_mkdir
  <1>7. CASE handle_rmdir(c) \/ handle_remove(c)
    <2>1. ASSUME NEW p, Below(p), fs' = Without(fs, p), UNCHANGED data PROVE Outside'
      <3>1. DOMAIN fs' = DOMAIN fs \ {p} /\ fs'[Beside] = fs[Beside]
        BY <1>2, <2>1 DEF Without
      <3> QED
        BY <1>1, <2>1, <3>1, OutsideSame
    <2>2. CASE handle_rmdir(c)
      BY <1>3, <1>4, <1>5, <2>1, <2>2 DEF handle_rmdir
    <2>3. CASE handle_remove(c)
      BY <1>3, <1>4, <1>5, <2>1, <2>3 DEF handle_remove
    <2> QED
      BY <1>7, <2>2, <2>3
  <1>8. CASE WriteWrites(c) \/ WriteStops(c)
    <2>1. Doing(c, "write") /\ UNCHANGED fs
      BY <1>8 DEF WriteWrites, WriteStops
    <2>2. job[c].inode # fs[Beside] /\ job[c].len \in Nat
      BY <1>2, <1>5, <2>1, WriteInProgress
    <2>3. PICK n \in Nat : WritesBytes(c, n)
      BY <1>8, <2>2 DEF WriteWrites, WriteStops
    <2>4. data'[fs[Beside]] = data[fs[Beside]]
      BY <1>2, <2>1, <2>2, <2>3, BytesWritten
    <2> QED
      BY <1>1, <2>1, <2>4, OutsideSame
  <1>9. CASE WriteOpens(c)
    <2> DEFINE path(h) == Follow(links, handler[c].open_files[h].path)
               flags(h) == handler[c].open_files[h].flags
    <2>1. PICK h \in Handles :
             \/ UNCHANGED <<fs, data>>
             \/ /\ h \in DOMAIN handler[c].open_files
                /\ OpensFile(c, h, path(h), flags(h)) \/ CreatesFile(path(h), flags(h))
      BY <1>9 DEF WriteOpens
    <2>2. CASE /\ h \in DOMAIN handler[c].open_files
               /\ OpensFile(c, h, path(h), flags(h)) \/ CreatesFile(path(h), flags(h))
      <3>1. PICK p, fl : p = path(h) /\ fl = flags(h)
        OBVIOUS
      <3>2. Below(p) /\ p # Beside
        BY <1>1, <1>2, <2>2, <3>1, HandleLeads
      <3>3. CASE OpensFile(c, h, p, fl)
        <4>1. fs[p] # fs[Beside] /\ UNCHANGED fs
          BY <1>2, <3>2, <3>3 DEF OpensFile, IInv, OneName
        <4>2. UNCHANGED data \/ data' = [data EXCEPT ![fs[p]] = <<>>]
          BY <3>3 DEF OpensFile
        <4>3. data'[fs[Beside]] = data[fs[Beside]]
          BY <1>2, <4>1, <4>2
        <4> QED
          BY <1>1, <4>1, <4>3, OutsideSame
      <3>4. CASE CreatesFile(p, fl)
        <4>1. PICK i \in Free : i = Min(Free)
          <5>1. Free \subseteq Nat /\ Free # {}
            BY <3>4, SftpAssumption DEF Free, Inodes, CreatesFile
          <5> QED
            BY <5>1, MinIn
        <4>2. i # fs[Beside]
          BY <1>2, <4>1 DEF Free, InUse
        <4>3. fs' = Extend(fs, p, i) /\ data' = [data EXCEPT ![i] = <<>>]
          BY <3>4, <4>1 DEF CreatesFile
        <4>4. DOMAIN fs' = DOMAIN fs \cup {p} /\ fs'[Beside] = fs[Beside]
          BY <1>2, <3>2, <4>3 DEF Extend
        <4>5. data'[fs[Beside]] = data[fs[Beside]]
          BY <1>2, <4>2, <4>3
        <4> QED
          BY <1>1, <3>2, <4>4, <4>5, OutsideSame
      <3> QED
        BY <2>2, <3>1, <3>3, <3>4
    <2> QED
      BY <1>3, <2>1, <2>2
  <1>10. CASE ~(handle_mkdir(c) \/ handle_rmdir(c) \/ handle_remove(c) \/ handle_write(c))
    <2>1. UNCHANGED <<fs, data>>
      BY <1>4, <1>10 DEF handle_request, BadRequest, handle_realpath, handle_stat,
         handle_opendir, handle_readdir, ReaddirOpens, ReaddirReads, ReaddirAnswers,
         handle_close, handle_open, handle_read, ReadOpens, ReadReads, SystemFails
    <2> QED
      BY <1>3, <2>1
  <1> QED
    BY <1>6, <1>7, <1>8, <1>9, <1>10 DEF handle_write

\* At the beginning only the root's own directories and one file are outside.
LEMMA StartsOutside ==
    ASSUME Init
    PROVE  Outside
  <1> DEFINE n0 == Len(Root)
             Up(n) == SubSeq(Root, 1, n)
  <1>1. ~Below(Beside)
    BY SftpAssumption DEF Below
  <1>2. Root \in Seq(Component) /\ n0 \in Nat /\ n0 > 1 /\ Root[1] = "/"
    BY RootPath
  <1>3. \A n \in 1 .. n0 : Up(n) \in Seq(Component) /\ Len(Up(n)) = n
    BY <1>2
  <1>4. Up(n0) = Root
    BY <1>2
  <1>5. Up(1) = <<"/">>
    <2>1. PICK s : s = Up(1)
      OBVIOUS
    <2>2. s \in Seq(Component) /\ Len(s) = 1 /\ s[1] = "/"
      BY <1>2, <1>3, <2>1
    <2>3. s = <<s[1]>>
      BY <2>2
    <2> QED
      BY <2>1, <2>2, <2>3
  <1>6. Below(Root)
    BY <1>2, <1>4 DEF Below, IsPrefix
  <1>7. \A n \in 1 .. n0 - 1 : ~Below(Up(n))
    <2> SUFFICES ASSUME NEW n \in 1 .. n0 - 1 PROVE ~(n0 <= Len(Up(n)))
      BY DEF Below, IsPrefix
    <2> QED
      BY <1>2, <1>3
  <1>8. DOMAIN fs = {<<"/">>, Root, Beside} \cup {Up(n) : n \in 1 .. n0}
    BY DEF Init
  <1>9. {p \in DOMAIN fs : ~Below(p)} = {Beside} \cup {Up(n) : n \in 1 .. n0 - 1}
    <2> HIDE DEF Up, n0
    <2>1. \A n \in 1 .. n0 - 1 : n \in 1 .. n0
      BY <1>2
    <2>2. \A n \in 1 .. n0 : n = n0 \/ n \in 1 .. n0 - 1
      BY <1>2
    <2>3. 1 \in 1 .. n0 - 1
      BY <1>2
    <2>4. ASSUME NEW p \in DOMAIN fs, ~Below(p) PROVE p = Beside \/ \E n \in 1 .. n0 - 1 : p = Up(n)
      BY <1>4, <1>5, <1>6, <1>8, <2>2, <2>3, <2>4
    <2>5. \A n \in 1 .. n0 - 1 : Up(n) \in DOMAIN fs
      BY <1>8, <2>1
    <2>6. Beside \in DOMAIN fs
      BY <1>8
    <2> QED
      BY <1>1, <1>7, <2>4, <2>5, <2>6
  <1>10. fs[Beside] = 1 /\ 1 # Dir
    BY <1>8 DEF Init, Dir
  <1>11. data[1] = <<Zero>>
    <2>1. 1 \in Inodes
      BY SftpAssumption DEF Inodes
    <2> QED
      BY <2>1 DEF Init
  <1> QED
    BY <1>9, <1>10, <1>11 DEF Outside

\* As long as the links that users make stay below the root, so does every
\* request: whatever its path names when the system call is made, after other
\* connections changed the tree and its links, is below the root, and nothing
\* else is opened, made, changed or removed (resolve_path and the handlers that
\* use what it returns).  A link that leads out is what the code does not stop.
THEOREM NothingOutside ==
    ASSUME NoWrap, LinksInside
    PROVE  Spec => []Confined
  <1>1. Init => ConfInv
    <2> SUFFICES ASSUME Init PROVE ConfInv
      OBVIOUS
    <2>1. \A c \in Conns : /\ job[c] = Idle /\ DOMAIN handler[c].open_files = {}
                           /\ DOMAIN handler[c].open_dirs = {}
      BY DEF Init
    <2> QED
      BY <2>1, StartsOutside DEF ConfInv, JobBelow, HandlerBelow
  <1>2. AllInv /\ ConfInv /\ [Next]_vars => ConfInv'
    <2> SUFFICES ASSUME AllInv, ConfInv, [Next]_vars PROVE ConfInv'
      OBVIOUS
    <2>1. IInv /\ CountInv /\ LinkInv
      BY DEF AllInv
    <2>2. Inside
      BY <2>1, LinksLead DEF Inside
    <2>3. CASE UNCHANGED <<fs, data, handler, job>>
      BY <2>3 DEF ConfInv, Outside
    <2>4. ASSUME NEW c \in Conns, handle_request(c) \/ SystemFails(c)
          PROVE  ConfInv'
      <3>1. Outside' /\ JobBelow(job'[c]) /\ HandlerBelow(handler'[c])
        BY <2>2, <2>4, OutsideKept, RequestBelow, HandlesBelow
      <3>2. \A d \in Conns : d # c => job'[d] = job[d] /\ handler'[d] = handler[d]
        BY <2>1, <2>4, ActsAlone
      <3>3. \A d \in Conns : JobBelow(job'[d]) /\ HandlerBelow(handler'[d])
        BY <3>1, <3>2 DEF ConfInv
      <3> QED
        BY <3>1, <3>3 DEF ConfInv
    <2> QED
      BY <2>3, <2>4 DEF Next, vars, ExecMakesLink
  <1>3. AllInv /\ ConfInv => Confined
    <2> SUFFICES ASSUME AllInv, ConfInv PROVE Confined
      OBVIOUS
    <2>1. LinksBelow(links)
      BY LinksLead DEF AllInv
    <2>2. \A c \in Conns : job[c] # Idle => Below(Located(job[c]))
      BY <2>1, LocatedBelow DEF ConfInv
    <2> QED
      BY <2>2 DEF ConfInv, Outside, Confined
  <1> QED
    BY <1>1, <1>2, <1>3, Invariance, PTL DEF Spec
=============================================================================
