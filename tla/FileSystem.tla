----------------------------- MODULE FileSystem -----------------------------
(***************************************************************************)
(* The handlers of homework.c over the block device, one action per        *)
(* handler, each running to its end before the next call is served: the    *)
(* libcheck programs, and hwfuse in single-threaded mode, on a device      *)
(* whose reads and writes succeed.                                         *)
(*                                                                         *)
(* disk is the image, bitmap and statVfs the globals fs_init loads, reply  *)
(* the last call and what it returned.                                     *)
(***************************************************************************)
EXTENDS DiskLayout, FiniteSets

CONSTANTS
    Calls,      \* the handlers the client uses
    Paths,      \* the paths it passes, sequences of components
    IoOffsets,  \* offsets and (positive) lengths it reads and writes with
    IoLens,
    TruncLens,  \* lengths it truncates to
    MaxFree     \* bound on the free-block counter: fs_write may inflate it

Handlers == {"init", "getattr", "readdir", "read", "statfs", "rename", "chmod",
             "create", "mkdir", "unlink", "rmdir", "utime", "truncate", "write"}

ASSUME ClientAssumption ==
    /\ Calls \subseteq Handlers
    /\ Paths \subseteq Seq(Names)
    /\ IoOffsets \subseteq Nat /\ IoLens \subseteq Nat \ {0} /\ TruncLens \subseteq Int
    /\ MaxFree \in Nat

VARIABLES disk, bitmap, statVfs, reply

vars == <<disk, bitmap, statVfs, reply>>

FreeBlocks == Cardinality(Blocks \ bitmap)

TypeOK ==
    /\ disk \in [Blocks -> Content]
    /\ bitmap \in SUBSET Blocks
    /\ statVfs \in [f_bfree : Int, f_bavail : Int]
    /\ reply \in [op : Handlers, path : Seq(Names), ret : Int, data : Seq(Byte)]

-----------------------------------------------------------------------------
(* The image made from disk2.in: an empty root directory whose block is    *)
(* the last of the disk, freshly mounted.                                  *)

RootBlock == DiskSize - 1
InUse     == {SuperBlock, BitmapBlock, RootInode, RootBlock}

EmptyImage(perm, mtime) ==
    [b \in Blocks |->
        CASE b = SuperBlock  -> [kind |-> "super"]
          [] b = BitmapBlock -> [kind |-> "bitmap", used |-> InUse]
          [] b = RootInode   -> NewInode("dir", perm, mtime, RootBlock)
          [] b = RootBlock   -> EmptyDir
          [] OTHER           -> ZeroBlock]

\* fs_init reads the bitmap block and counts its clear bits.
Mounted(image) ==
    /\ bitmap' = image[BitmapBlock].used
    /\ LET free == Cardinality(Blocks \ image[BitmapBlock].used)
       IN  statVfs' = [f_bfree |-> free, f_bavail |-> free]

Init ==
    /\ \E perm \in Perms, mtime \in Times : disk = EmptyImage(perm, mtime)
    /\ bitmap = InUse
    /\ statVfs = [f_bfree |-> FreeBlocks, f_bavail |-> FreeBlocks]
    /\ reply = [op |-> "init", path |-> <<>>, ret |-> OK, data |-> <<>>]

-----------------------------------------------------------------------------
(* Pieces of the handlers                                                  *)

Resolve(path)       == Translate(disk, Parse(path))
ResolveParent(path) == TranslateParent(disk, Parse(path))

\* get_entry_name_from_path without parse() (a mutant of Leaf).
LeafAsGiven(path) == Last(path)

Leaf(path) == Last(Parse(path))

Reply(op, path, ret) == reply' = [op |-> op, path |-> path, ret |-> ret, data |-> <<>>]

\* An early return: nothing has been written.
Fail(op, path, err) ==
    /\ op \in Calls
    /\ err < 0
    /\ Reply(op, path, err)
    /\ UNCHANGED <<disk, bitmap, statVfs>>

Done(op, path, ret) == op \in Calls /\ Reply(op, path, ret)

\* A handler that forgets f_bfree (a mutant of AddFree).
AddFreeAvailOnly(n) == statVfs' = [statVfs EXCEPT !.f_bavail = @ + n]

AddFree(n) == statVfs' = [f_bfree |-> statVfs.f_bfree + n, f_bavail |-> statVfs.f_bavail + n]

\* modify_bitmap_and_writeback_to_disk without block_write, and with bit_clear for both
\* flags (mutants of SaveBitmap).
SaveBitmapInMemory(image, used)  == bitmap' = used /\ disk' = image
SaveBitmapNeverSets(image, used) ==
    /\ bitmap' = bitmap \cap used
    /\ disk' = [image EXCEPT ![BitmapBlock] = [kind |-> "bitmap", used |-> bitmap \cap used]]

\* The bitmap in memory becomes used, and is written back to its block of the image.
SaveBitmap(image, used) ==
    /\ bitmap' = used
    /\ disk' = [image EXCEPT ![BitmapBlock] = [kind |-> "bitmap", used |-> used]]

\* unlink_directory_entry without its block_write (a mutant of Unlinked).
UnlinkedInMemory(path) == disk

\* The image with the entry of this path invalidated in its parent directory.
Unlinked(path) ==
    LET d == ResolveParent(path)
    IN  WithEntry(disk, d, Min(Matches(disk, d, Leaf(path))), NoEntry)

-----------------------------------------------------------------------------
(* create and mkdir                                                        *)

\* The early returns of create_directory_entry, in order, for n new blocks.
CreateStatus(path, n) ==
    LET d == ResolveParent(path) IN
    IF d < 0 THEN d
    ELSE IF ~IsDir(disk, d) THEN ENOTDIR
    ELSE IF Matches(disk, d, Leaf(path)) # {} THEN EEXIST
    ELSE IF FreeSlots(disk, d) = {} THEN ENOSPC
    ELSE IF FirstFree(bitmap, n) = {} THEN ENOSPC
    ELSE OK

\* The image after the new inode is written and its entry added to the parent.
Linked(path, inum, inode) ==
    LET d == ResolveParent(path)
    IN  WithEntry([disk EXCEPT ![inum] = inode], d, Min(FreeSlots(disk, d)),
                  [name |-> Leaf(path), inode |-> inum])

Create(path, perm, now) ==
    \/ Fail("create", path, CreateStatus(path, 1))
    \/ /\ CreateStatus(path, 1) = OK
       /\ \E new \in FirstFree(bitmap, 1) :
            SaveBitmap(Linked(path, new[1], NewInode("file", perm, now, 0)), bitmap \cup {new[1]})
       /\ AddFree(-1)
       /\ Done("create", path, OK)

Mkdir(path, perm, now) ==
    \/ Fail("mkdir", path, CreateStatus(path, 2))
    \/ /\ CreateStatus(path, 2) = OK
       /\ \E new \in FirstFree(bitmap, 2) :
            SaveBitmap([Linked(path, new[1], NewInode("dir", perm, now, new[2]))
                            EXCEPT ![new[2]] = EmptyDir],
                       bitmap \cup {new[1], new[2]})
       /\ AddFree(-2)
       /\ Done("mkdir", path, OK)

-----------------------------------------------------------------------------
(* unlink and rmdir                                                        *)

\* No test of the inode's type: a directory goes like a file of one block.
Unlink(path) ==
    LET i == Resolve(path) IN
    \/ Fail("unlink", path, i)
    \/ /\ i >= 0
       /\ SaveBitmap(Unlinked(path), bitmap \ ({i} \cup DataBlocks(disk[i])))
       /\ AddFree(BlocksFor(disk[i].size) + 1)
       /\ Done("unlink", path, OK)

\* check_dir_empty: a directory counts as empty when its first slot is free.
RmdirStatus(path) ==
    LET i == Resolve(path) IN
    IF i < 0 THEN i
    ELSE IF ~IsDir(disk, i) THEN ENOTDIR
    ELSE IF FreeSlots(disk, i) = {} THEN ENOSPC
    ELSE IF Min(FreeSlots(disk, i)) # 0 THEN ENOTEMPTY
    ELSE OK

Rmdir(path) ==
    \/ Fail("rmdir", path, RmdirStatus(path))
    \/ /\ RmdirStatus(path) = OK
       /\ LET i == Resolve(path)
          IN  SaveBitmap(Unlinked(path), bitmap \ {i, disk[i].ptrs[0]})
       /\ AddFree(2)
       /\ Done("rmdir", path, OK)

-----------------------------------------------------------------------------
(* rename, chmod, utime                                                    *)

RenameStatus(src, dst) ==
    LET s == Parse(src)  t == Parse(dst) IN
    IF Resolve(src) < 0 THEN Resolve(src)
    ELSE IF Resolve(dst) >= 0 THEN EEXIST
    ELSE IF Len(s) # Len(t) THEN EINVAL
    ELSE IF Front(s) # Front(t) THEN EINVAL
    ELSE OK

Rename(src, dst) ==
    \/ Fail("rename", src, RenameStatus(src, dst))
    \/ /\ RenameStatus(src, dst) = OK
       /\ LET d == ResolveParent(src)
              s == Min(Matches(disk, d, Leaf(src)))
          IN  disk' = WithEntry(disk, d, s, [name  |-> Leaf(dst),
                                             inode |-> Entries(disk, d)[s].inode])
       /\ Done("rename", src, OK)
       /\ UNCHANGED <<bitmap, statVfs>>

Chmod(path, perm) ==
    LET i == Resolve(path) IN
    \/ Fail("chmod", path, i)
    \/ /\ i >= 0
       /\ disk' = [disk EXCEPT ![i] = [@ EXCEPT !.perm = perm]]
       /\ Done("chmod", path, OK)
       /\ UNCHANGED <<bitmap, statVfs>>

\* The inode a call on a regular file works on, or its error.
ResolveFile(path) ==
    LET i == Resolve(path) IN IF i >= 0 /\ ~IsFile(disk, i) THEN EISDIR ELSE i

Utime(path, time) ==
    LET i == ResolveFile(path) IN
    \/ Fail("utime", path, i)
    \/ /\ i >= 0
       /\ disk' = [disk EXCEPT ![i] = [@ EXCEPT !.mtime = time]]
       /\ Done("utime", path, OK)
       /\ UNCHANGED <<bitmap, statVfs>>

-----------------------------------------------------------------------------
(* truncate, read, write                                                   *)

TruncateStatus(path, len) ==
    LET i == ResolveFile(path) IN
    IF len < 0 THEN EINVAL
    ELSE IF i < 0 THEN i
    ELSE IF BlocksFor(len) > BlocksFor(disk[i].size) THEN EINVAL
    ELSE OK

Truncate(path, len) ==
    \/ Fail("truncate", path, TruncateStatus(path, len))
    \/ /\ TruncateStatus(path, len) = OK
       /\ LET i       == ResolveFile(path)
              removed == BlocksFor(len) .. BlocksFor(disk[i].size) - 1
              inode   == [disk[i] EXCEPT
                            !.size = len,
                            !.ptrs = [k \in PtrIdx |-> IF k \in removed THEN NoPtr ELSE @[k]]]
          IN  /\ SaveBitmap([disk EXCEPT ![i] = inode],
                            bitmap \ {disk[i].ptrs[k] : k \in removed})
              /\ AddFree(BlocksFor(disk[i].size) - BlocksFor(len))
       /\ Done("truncate", path, OK)

\* The pointers fs_read follows: one too many when the request passes the end of the file.
ReadIdx(size, offset, len) ==
    (offset \div BlockSize) ..
        (IF offset + len > size THEN BlocksFor(size) ELSE (offset + len - 1) \div BlockSize)

\* The number of bytes returned, or an error.
ReadStatus(path, offset, len) ==
    LET i == ResolveFile(path) IN
    IF i < 0 THEN i
    ELSE IF offset >= disk[i].size THEN 0
    ELSE IF \E k \in ReadIdx(disk[i].size, offset, len) : disk[i].ptrs[k] \notin Blocks THEN EIO
    ELSE IF offset + len > disk[i].size THEN disk[i].size - offset
    ELSE len

\* Byte n of the file of inode i.
ByteAt(i, n) == RawBytes(disk[disk[i].ptrs[n \div BlockSize]])[n % BlockSize]

Read(path, offset, len) ==
    \/ Fail("read", path, ReadStatus(path, offset, len))
    \/ /\ ReadStatus(path, offset, len) >= 0
       /\ "read" \in Calls
       /\ reply' = [op |-> "read", path |-> path, ret |-> ReadStatus(path, offset, len),
                    data |-> [n \in 1 .. ReadStatus(path, offset, len) |->
                                ByteAt(ResolveFile(path), offset + n - 1)]]
       /\ UNCHANGED <<disk, bitmap, statVfs>>

\* The pointers a write goes through, and how many of them lie past the end of the file
\* (less than zero when it ends before the last block).
WriteIdx(offset, len) == (offset \div BlockSize) .. ((offset + len - 1) \div BlockSize)

\* blksNeeded without the + 1 (a mutant of BlocksNeeded).
BlocksNeededShort(size, offset, len) == (offset + len - 1) \div BlockSize - BlocksFor(size)

BlocksNeeded(size, offset, len) == (offset + len - 1) \div BlockSize - BlocksFor(size) + 1

WriteStatus(path, offset, len) ==
    LET i == ResolveFile(path) IN
    IF i < 0 THEN i
    ELSE IF offset > disk[i].size THEN EINVAL
    ELSE IF FirstFree(bitmap, BlocksNeeded(disk[i].size, offset, len)) = {} THEN ENOSPC
    ELSE OK

\* The inode after the write: fresh blocks appended to its pointers, size never reduced.
Grown(ino, fresh, end, now) ==
    [ino EXCEPT
        !.size  = IF end > @ THEN end ELSE @,
        !.mtime = now,
        !.ptrs  = [k \in PtrIdx |-> IF k - BlocksFor(ino.size) + 1 \in DOMAIN fresh
                                    THEN fresh[k - BlocksFor(ino.size) + 1] ELSE @[k]]]

\* fs_write without the read of the last block (a mutant of Kept).
KeptStartOnly(image, inode, oldBlocks, idx, k) ==
    IF oldBlocks > 0 /\ k = Min(idx) THEN RawBytes(image[inode.ptrs[k]]) ELSE ZeroBlock.bytes

(***************************************************************************)
(* What the write buffer holds outside the client's bytes: the old block   *)
(* at its first and last pointers, as far as the file was long enough for  *)
(* the code to read them, and zeros elsewhere.                             *)
(***************************************************************************)
Kept(image, inode, oldBlocks, idx, k) ==
    IF \/ oldBlocks > 1 /\ k = Max(idx)
       \/ oldBlocks > 0 /\ k = Min(idx)
    THEN RawBytes(image[inode.ptrs[k]]) ELSE ZeroBlock.bytes

\* The image after the buffer, filled with len times the same byte, is written out (to
\* different blocks: NoSharing).
Stored(image, inode, oldBlocks, offset, len, byte) ==
    LET idx     == WriteIdx(offset, len)
        buf(k)  == [o \in Offs |-> IF k * BlockSize + o \in offset .. offset + len - 1
                                   THEN byte ELSE Kept(image, inode, oldBlocks, idx, k)[o]]
        to(b)   == {k \in idx : inode.ptrs[k] = b}
    IN  [b \in Blocks |-> IF to(b) = {} THEN image[b]
                          ELSE [kind |-> "data", bytes |-> buf(CHOOSE k \in to(b) : TRUE)]]

Write(path, offset, len, byte, now) ==
    \/ Fail("write", path, WriteStatus(path, offset, len))
    \/ /\ WriteStatus(path, offset, len) = OK
       /\ LET i    == ResolveFile(path)
              need == BlocksNeeded(disk[i].size, offset, len)
          IN  /\ statVfs.f_bfree - need <= MaxFree
              /\ \E fresh \in FirstFree(bitmap, need) :
                   LET inode == Grown(disk[i], fresh, offset + len, now)
                       image == Stored([disk EXCEPT ![i] = inode], inode,
                                       BlocksFor(disk[i].size), offset, len, byte)
                   IN  IF need > 0 THEN SaveBitmap(image, bitmap \cup Range(fresh))
                       ELSE disk' = image /\ UNCHANGED bitmap
              /\ AddFree(-need)
       /\ Done("write", path, len)

-----------------------------------------------------------------------------
(* Calls that only read, and a new mount                                   *)

Getattr(path) ==
    \/ Fail("getattr", path, Resolve(path))
    \/ /\ Resolve(path) >= 0
       /\ Done("getattr", path, OK)
       /\ UNCHANGED <<disk, bitmap, statVfs>>

ReaddirStatus(path) ==
    LET i == Resolve(path) IN IF i >= 0 /\ ~IsDir(disk, i) THEN ENOTDIR ELSE i

Readdir(path) ==
    \/ Fail("readdir", path, ReaddirStatus(path))
    \/ /\ ReaddirStatus(path) >= 0
       /\ Done("readdir", path, OK)
       /\ UNCHANGED <<disk, bitmap, statVfs>>

Statfs == Done("statfs", <<>>, OK) /\ UNCHANGED <<disk, bitmap, statVfs>>

Mount ==
    /\ Mounted(disk)
    /\ Done("init", <<>>, OK)
    /\ UNCHANGED disk

-----------------------------------------------------------------------------

\* The kernel never passes the root to a call that adds or removes an entry.
Below == Paths \ {<<>>}

Next ==
    \/ \E path \in Below, perm \in Perms, now \in Times :
          Create(path, perm, now) \/ Mkdir(path, perm, now)
    \/ \E path \in Below : Unlink(path) \/ Rmdir(path)
    \/ \E src \in Below, dst \in Paths : Rename(src, dst)
    \/ \E path \in Paths, perm \in Perms : Chmod(path, perm)
    \/ \E path \in Paths, time \in Times : Utime(path, time)
    \/ \E path \in Paths, len \in TruncLens : Truncate(path, len)
    \/ \E path \in Paths, offset \in IoOffsets, len \in IoLens : Read(path, offset, len)
    \/ \E path \in Paths, offset \in IoOffsets, len \in IoLens, byte \in Bytes, now \in Times :
          Write(path, offset, len, byte, now)
    \/ \E path \in Paths : Getattr(path) \/ Readdir(path)
    \/ Statfs
    \/ Mount

Spec == Init /\ [][Next]_vars

-----------------------------------------------------------------------------
(* Properties                                                              *)

\* The inodes in use, and the inodes that the entries of a directory lead to.
Live       == {b \in bitmap : IsInode(disk, b)}
LiveDirs   == {i \in Live : disk[i].type = "dir"}
Targets(i) == {Entries(disk, i)[s].inode : s \in UsedSlots(disk, i)}

(***************************************************************************)
(* Whatever sequence of calls was served, everything the root, an entry or *)
(* a pointer designates is marked in the bitmap and holds what it is used  *)
(* for: allocation and deletion (create_directory_entry, fs_unlink,        *)
(* fs_rmdir, fs_truncate, fs_write) never leave a reference to a block     *)
(* that the next scan of the bitmap would give to another file.            *)
(***************************************************************************)
NoDangling ==
    /\ RootInode \in LiveDirs
    /\ \A i \in LiveDirs : Targets(i) \subseteq Live
    /\ \A i \in Live : \A k \in DataIdx(disk[i]) :
          /\ disk[i].ptrs[k] \in bitmap
          /\ disk[disk[i].ptrs[k]].kind = IF disk[i].type = "dir" THEN "dir" ELSE "data"

(***************************************************************************)
(* No block serves two purposes: two pointers never hold the same block,   *)
(* two entries never the same inode, and no entry leads back to the root.  *)
(***************************************************************************)
NoSharing ==
    /\ \A i, j \in Live : \A k \in DataIdx(disk[i]), l \in DataIdx(disk[j]) :
          disk[i].ptrs[k] = disk[j].ptrs[l] => i = j /\ k = l
    /\ \A i, j \in LiveDirs : \A s \in UsedSlots(disk, i), t \in UsedSlots(disk, j) :
          Entries(disk, i)[s].inode = Entries(disk, j)[t].inode => i = j /\ s = t
    /\ \A i \in LiveDirs : RootInode \notin Targets(i)

\* A mount forgets nothing: the bitmap block holds the bitmap between calls.
WrittenBack == bitmap = disk[BitmapBlock].used

(***************************************************************************)
(* What makes the three an inductive invariant: the first blocks stay what *)
(* they are, no inode has more blocks than pointers, and a directory has   *)
(* one block.                                                              *)
(***************************************************************************)
Reserved ==
    /\ disk[SuperBlock].kind = "super" /\ disk[BitmapBlock].kind = "bitmap"
    /\ {SuperBlock, BitmapBlock} \subseteq bitmap

SizesFit ==
    \A i \in Live : /\ BlocksFor(disk[i].size) <= MaxPtrs
                    /\ disk[i].type = "dir" => disk[i].size = BlockSize

IInv == TypeOK /\ Reserved /\ SizesFit /\ NoDangling /\ NoSharing /\ WrittenBack

-----------------------------------------------------------------------------

\* Names in a directory are unique and already truncated, also after renames (the EEXIST tests).
UniqueNames ==
    \A i \in LiveDirs : \A s, t \in UsedSlots(disk, i) :
        LET name(x) == Entries(disk, i)[x].name
        IN  /\ name(s) = Truncated[name(s)]
            /\ name(s) = name(t) => s = t

\* Blocks whose bit is set although nothing designates them: they are lost for good.
Accounted == {SuperBlock, BitmapBlock, RootInode}
                 \cup (UNION {Targets(i) : i \in LiveDirs}) \cup (UNION {DataBlocks(disk[i]) : i \in Live})
Leaked    == bitmap \ Accounted

(***************************************************************************)
(* What a call leaks is exactly what the directory it removes still held:  *)
(* create, write, truncate, a file's unlink and every failing call leave   *)
(* no bit set without a reference, and none is ever recovered.             *)
(***************************************************************************)
LeakOnlyOrphans ==
    [][Leaked' = Leaked \cup UNION {Targets(i) : i \in LiveDirs \ LiveDirs'}]_vars

(***************************************************************************)
(* The free count of statfs moves with the bitmap: by the same amount on   *)
(* every call, but upwards on a write that allocates nothing (blksNeeded   *)
(* may be negative there: see FreeExact), and back to the bitmap at a      *)
(* mount.                                                                  *)
(***************************************************************************)
FreeCountFollows ==
    [][LET counted == statVfs'.f_bfree - statVfs.f_bfree
           freed   == FreeBlocks' - FreeBlocks
       IN  /\ statVfs'.f_bavail = statVfs'.f_bfree
           /\ IF reply'.op = "init" THEN statVfs'.f_bfree = FreeBlocks'
              ELSE IF reply'.op = "write" /\ bitmap' = bitmap THEN counted >= 0
              ELSE counted = freed]_vars

-----------------------------------------------------------------------------
(* What the comments and tests of the repository promise and the code does *)
(* not keep: each is refuted by a run.                                     *)

\* statfs reports the free blocks of the bitmap (fs_statfs: "f_bfree = f_blocks - blocks used").
FreeExact == statVfs = [f_bfree |-> FreeBlocks, f_bavail |-> FreeBlocks]

\* rmdir removes no directory that has entries (fs_rmdir: "Errors - ... ENOTEMPTY").
RmdirOnlyEmpty ==
    [][reply'.op = "rmdir" /\ reply'.ret = OK =>
         \A i \in LiveDirs \ LiveDirs' : Targets(i) = {}]_vars

\* A read of a file that exists returns its bytes (fs_read: "success: should return exactly
\* the number of bytes requested, except: ...").
ReadsSucceed == reply.op = "read" => reply.ret # EIO
=============================================================================
