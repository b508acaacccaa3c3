------------------------------ MODULE FileTree ------------------------------
(***************************************************************************)
(* What the file system promises its callers, without blocks, inodes or    *)
(* bitmaps: a tree of named files and directories, and the answer to the   *)
(* last call.                                                              *)
(*                                                                         *)
(* tree maps the (parsed) path of every object that exists to the object:  *)
(* its type, permissions, modification time and bytes.  The calls are      *)
(* those of fs_ops (homework.c).  Next is what the comment above each      *)
(* handler describes, but for what truncate shows and refuses (Resize) and *)
(* errors that carry no reason here (Refuse).  What the code does beyond   *)
(* these comments when it removes a directory is Overreach, which is no    *)
(* part of Next.                                                           *)
(***************************************************************************)
EXTENDS Integers, SequencesExt

CONSTANTS
    Paths,                \* sequences of names: the ways an object may be called
    Perms, Times, Bytes,
    Stale,                \* bytes that a file may show where nothing was written
    Buffers,              \* what clients write, sequences of bytes
    Offsets, Lens, Sizes  \* where they read and write, how much they read and truncate to

VARIABLES tree, reply

vars == <<tree, reply>>

OK        == 0
ENOENT    == -2
EIO       == -5
EEXIST    == -17
ENOTDIR   == -20
EISDIR    == -21
EINVAL    == -22
ENOSPC    == -28
ENOTEMPTY == -39

Errors    == {ENOENT, EIO, EEXIST, ENOTDIR, EISDIR, EINVAL, ENOSPC, ENOTEMPTY}
PathCalls == {"getattr", "readdir", "read", "rename", "chmod", "create", "mkdir",
              "unlink", "rmdir", "utime", "truncate", "write"}

Exists(q) == q \in DOMAIN tree
IsDir(q)  == Exists(q) /\ tree[q].type = "dir"
IsFile(q) == Exists(q) /\ tree[q].type = "file"
Below(q)  == {r \in DOMAIN tree : IsPrefix(q, r)}

Answer(op, q, ret) == reply' = [op |-> op, path |-> q, ret |-> ret, data |-> <<>>]

Init ==
    /\ \E perm \in Perms, time \in Times :
         tree = [q \in {<<>>} |-> [type |-> "dir", perm |-> perm, mtime |-> time, data |-> <<>>]]
    /\ reply = [op |-> "init", path |-> <<>>, ret |-> OK, data |-> <<>>]

-----------------------------------------------------------------------------

\* create and mkdir: the name is new, its directory exists.
Add(q, op, type, perm, now) ==
    /\ Answer(op, q, OK)
    /\ q # <<>> /\ ~Exists(q) /\ IsDir(Front(q))
    /\ tree' = [r \in DOMAIN tree \cup {q} |->
                  IF r = q THEN [type |-> type, perm |-> perm, mtime |-> now, data |-> <<>>]
                  ELSE tree[r]]

\* unlink takes a file, rmdir a directory that is empty.
Delete(q, op) ==
    /\ Answer(op, q, OK)
    /\ q # <<>>
    /\ IF op = "unlink" THEN IsFile(q) ELSE IsDir(q) /\ Below(q) = {q}
    /\ tree' = [r \in DOMAIN tree \ Below(q) |-> tree[r]]

(***************************************************************************)
(* What they should not do (fs_unlink lists EISDIR, homework.c:617,        *)
(* fs_rmdir ENOTEMPTY, 694): unlink takes any directory, rmdir one that is *)
(* not empty, and all that is below goes with it.                          *)
(***************************************************************************)
Prune(q, op) ==
    /\ Answer(op, q, OK)
    /\ q # <<>> /\ IsDir(q)
    /\ op = "unlink" \/ Below(q) # {q}
    /\ tree' = [r \in DOMAIN tree \ Below(q) |-> tree[r]]

\* rename: within a directory, to a new name; everything below moves along.
Move(s, t) ==
    LET moved     == {t \o SubSeq(r, Len(s) + 1, Len(r)) : r \in Below(s)}
        Origin(r) == s \o SubSeq(r, Len(t) + 1, Len(r))
    IN  /\ Answer("rename", s, OK)
        /\ s # <<>> /\ Exists(s) /\ ~Exists(t)
        /\ Len(s) = Len(t) /\ Front(s) = Front(t)
        /\ tree' = [r \in (DOMAIN tree \ Below(s)) \cup moved |->
                      IF r \in moved THEN tree[Origin(r)] ELSE tree[r]]

SetPerm(q, perm) ==
    /\ Answer("chmod", q, OK)
    /\ Exists(q)
    /\ tree' = [tree EXCEPT ![q].perm = perm]

SetTime(q, time) ==
    /\ Answer("utime", q, OK)
    /\ IsFile(q)
    /\ tree' = [tree EXCEPT ![q].mtime = time]

\* truncate: the file has len bytes, the old ones as far as they go.
Resize(q, len) ==
    /\ Answer("truncate", q, OK)
    /\ IsFile(q) /\ len >= 0
    /\ \E more \in [1 .. len - Len(tree[q].data) -> Bytes \cup Stale] :
         tree' = [tree EXCEPT ![q].data =
                    IF len <= Len(@) THEN SubSeq(@, 1, len) ELSE @ \o more]

\* write: the bytes go where they were asked to, the others stay, no hole appears.
Store(q, offset, bytes, now) ==
    LET old  == tree[q].data
        end  == offset + Len(bytes)
        size == IF end > Len(old) THEN end ELSE Len(old)
    IN  /\ Answer("write", q, Len(bytes))
        /\ IsFile(q) /\ offset <= Len(old)
        /\ tree' = [tree EXCEPT ![q].mtime = now,
                      ![q].data = [n \in 1 .. size |-> IF n > offset /\ n <= end
                                                       THEN bytes[n - offset] ELSE old[n]]]

\* read: the bytes of the file from offset on, as many as were asked for or there are.
Fetch(q, offset, len) ==
    LET end == IF offset + len < Len(tree[q].data) THEN offset + len ELSE Len(tree[q].data)
        got == SubSeq(tree[q].data, offset + 1, end)
    IN  /\ IsFile(q)
        /\ reply' = [op |-> "read", path |-> q, ret |-> Len(got), data |-> got]
        /\ UNCHANGED tree

Look(q, op) ==
    /\ Answer(op, q, OK)
    /\ Exists(q)
    /\ op = "readdir" => IsDir(q)
    /\ UNCHANGED tree

\* statfs and init: nothing is said of the tree.
Idle(op) == Answer(op, <<>>, OK) /\ UNCHANGED tree

(***************************************************************************)
(* A call that fails changes nothing, and an error that names a reason has *)
(* that reason.  (The EEXIST of rename is about its other path.)           *)
(***************************************************************************)
Refuse ==
    LET q == reply'.path  err == reply'.ret IN
    /\ reply' \in [op : PathCalls, path : Paths, ret : Errors, data : {<<>>}]
    /\ err = ENOENT => ~Exists(q)
    /\ err = EEXIST => reply'.op = "rename" \/ Exists(q)
    /\ err = EISDIR => IsDir(q)
    /\ err = ENOTEMPTY => \E r \in Below(q) : r # q
    /\ err = ENOTDIR => \E k \in 0 .. Len(q) : IsFile(SubSeq(q, 1, k))
    /\ UNCHANGED tree

Next ==
    \/ Refuse
    \/ Idle("statfs") \/ Idle("init")
    \/ \E q \in Paths : Look(q, "getattr") \/ Look(q, "readdir")
    \/ \E q \in Paths, perm \in Perms, now \in Times :
          Add(q, "create", "file", perm, now) \/ Add(q, "mkdir", "dir", perm, now)
    \/ \E q \in Paths : Delete(q, "unlink") \/ Delete(q, "rmdir")
    \/ \E s, t \in Paths : Move(s, t)
    \/ \E q \in Paths, perm \in Perms : SetPerm(q, perm)
    \/ \E q \in Paths, time \in Times : SetTime(q, time)
    \/ \E q \in Paths, len \in Sizes : Resize(q, len)
    \/ \E q \in Paths, offset \in Offsets, bytes \in Buffers, now \in Times :
          Store(q, offset, bytes, now)
    \/ \E q \in Paths, offset \in Offsets, len \in Lens : Fetch(q, offset, len)

Spec == Init /\ [][Next]_vars

Overreach == \E q \in Paths : Prune(q, "unlink") \/ Prune(q, "rmdir")
=============================================================================
