------------------------------ MODULE FileAttrs ------------------------------
(***************************************************************************)
(* struct FileAttrs of sftp/mod.rs and its wire form, the sequence of its  *)
(* integer fields.  encode goes by which fields are there, decode by the   *)
(* flags: the two agree only if whoever fills the struct keeps them equal. *)
(***************************************************************************)
EXTENDS Integers, Sequences

SSH_FILEXFER_ATTR_SIZE        == 1
SSH_FILEXFER_ATTR_UIDGID      == 2
SSH_FILEXFER_ATTR_PERMISSIONS == 4
SSH_FILEXFER_ATTR_ACMODTIME   == 8

Has(flags, bit) == (flags \div bit) % 2 = 1

None == -1

NoAttrs == [flags |-> 0, size |-> None, uid |-> None, gid |-> None,
            permissions |-> None, atime |-> None, mtime |-> None]

\* Fields written together or not at all.
Written(fields) == IF \E i \in DOMAIN fields : fields[i] = None THEN <<>> ELSE fields

encode(a) == <<a.flags>> \o Written(<<a.size>>) \o Written(<<a.uid, a.gid>>)
             \o Written(<<a.permissions>>) \o Written(<<a.atime, a.mtime>>)

Short == [NoAttrs EXCEPT !.flags = None]    \* an error

decode(fields) ==
    LET flags     == fields[1]
        width(bit, n) == IF Has(flags, bit) THEN n ELSE 0
        uid       == 2 + width(SSH_FILEXFER_ATTR_SIZE, 1)
        perms     == uid + width(SSH_FILEXFER_ATTR_UIDGID, 2)
        atime     == perms + width(SSH_FILEXFER_ATTR_PERMISSIONS, 1)
        end       == atime + width(SSH_FILEXFER_ATTR_ACMODTIME, 2)
        field(bit, i) == IF Has(flags, bit) THEN fields[i] ELSE None
    IN  IF end > Len(fields) + 1 THEN Short
        ELSE [flags       |-> flags,
              size        |-> field(SSH_FILEXFER_ATTR_SIZE, 2),
              uid         |-> field(SSH_FILEXFER_ATTR_UIDGID, uid),
              gid         |-> field(SSH_FILEXFER_ATTR_UIDGID, uid + 1),
              permissions |-> field(SSH_FILEXFER_ATTR_PERMISSIONS, perms),
              atime       |-> field(SSH_FILEXFER_ATTR_ACMODTIME, atime),
              mtime       |-> field(SSH_FILEXFER_ATTR_ACMODTIME, atime + 1)]

\* Faulty: owner and group are filled in without their flag.
metadata_to_attrs_unflagged(meta) ==
    [NoAttrs EXCEPT !.flags = SSH_FILEXFER_ATTR_SIZE + SSH_FILEXFER_ATTR_PERMISSIONS,
                    !.size = meta.len, !.permissions = meta.mode,
                    !.uid = meta.uid, !.gid = meta.gid]

metadata_to_attrs(meta) ==
    [NoAttrs EXCEPT !.flags = SSH_FILEXFER_ATTR_SIZE + SSH_FILEXFER_ATTR_PERMISSIONS
                              + SSH_FILEXFER_ATTR_UIDGID,
                    !.size = meta.len, !.permissions = meta.mode,
                    !.uid = meta.uid, !.gid = meta.gid]
=============================================================================
