-------------------------------- MODULE Paths --------------------------------
(***************************************************************************)
(* How an SFTP request's path becomes a path of the server's file system   *)
(* (resolve_path and normalize_path of sftp/mod.rs).                       *)
(*                                                                         *)
(* A path is the sequence of its components, as Path::components gives     *)
(* them: an absolute one begins with "/", and "." has disappeared.  A file *)
(* system maps the paths of directories and files to what they name; its   *)
(* symbolic links are a map of their own, from the path of a link to where *)
(* it leads, an absolute path on which there is no other link.             *)
(***************************************************************************)
EXTENDS Sequences, SequencesExt

CONSTANT Root             \* ServerConfig.sftp_root

ASSUME PathsAssumption ==
    /\ Root \in Seq(STRING) /\ Len(Root) > 1 /\ Root[1] = "/"
    /\ \A i \in DOMAIN Root : Root[i] # ".."

Dir == 0                  \* what a directory's path is mapped to

IsDir(fs, p) == p \in DOMAIN fs /\ fs[p] = Dir

\* Components pushed, and popped by "..": "/" is popped like any other.
normalize_path(p) ==
    FoldLeft(LAMBDA at, c : IF c # ".." THEN Append(at, c)
                            ELSE IF at = <<>> THEN at ELSE Front(at), <<>>, p)

NotFound == <<>>

\* Where a name that is found leads.
Real(links, p) == IF p \in DOMAIN links THEN links[p] ELSE p

\* Path::canonicalize: each component is looked up in an existing directory,
\* a link is followed, and the parent of "/" is "/".
canonicalize(fs, links, p) ==
    FoldLeft(LAMBDA at, c :
                IF ~IsDir(fs, at) THEN NotFound
                ELSE IF c = ".." THEN (IF Len(at) = 1 THEN at ELSE Front(at))
                ELSE IF Real(links, Append(at, c)) \in DOMAIN fs THEN Real(links, Append(at, c))
                ELSE NotFound,
             <<"/">>, Tail(p))

OrNormalized(fs, links, p) ==
    LET found == canonicalize(fs, links, p)
    IN  IF found = NotFound THEN normalize_path(p) ELSE found

\* What a system call makes of a path without "..": it follows the links there
\* are at that moment ...
Follow(links, p) == FoldLeft(LAMBDA at, c : Real(links, Append(at, c)), <<>>, p)

\* ... or, if it is about a name in a directory, those on the way to it.
Entry(links, p) == Append(Follow(links, Front(p)), Last(p))

\* Path::join: an absolute argument replaces the path.  The request's own
\* leading "/" is stripped first, so only a second one counts.
join(p, requested) ==
    IF requested # <<>> /\ requested[1] = "/" THEN requested ELSE p \o requested

Denied == <<>>

\* Faulty: the prefix is looked for before ".." has been resolved.
resolve_path_unresolved(fs, links, requested) ==
    LET path == join(Root, requested)
    IN  IF IsPrefix(Root, path) THEN OrNormalized(fs, links, path) ELSE Denied

resolve_path(fs, links, requested) ==
    LET path == OrNormalized(fs, links, join(Root, requested))
    IN  IF IsPrefix(OrNormalized(fs, links, Root), path) THEN path ELSE Denied
=============================================================================
