----------------------------- MODULE DiskLayout -----------------------------
(***************************************************************************)
(* The on-disk format (fs5600.h) and the read-only helpers of homework.c   *)
(* that every handler is built from: splitting a path, walking it from the *)
(* root inode, searching a directory block, scanning the block bitmap.     *)
(*                                                                         *)
(* A disk image is a function from block numbers to block contents; a      *)
(* content carries a tag telling how the block was last written, because   *)
(* freed blocks keep their old bytes.  Helpers take the image (and the     *)
(* bitmap) as a parameter, so that they serve the file system whose        *)
(* handlers are atomic and those whose handlers are split at block writes. *)
(***************************************************************************)
EXTENDS Integers, SequencesExt

CONSTANTS
    DiskSize,    \* superblock.disk_size, in blocks
    BlockSize,   \* FS_BLOCK_SIZE, in bytes
    MaxPtrs,     \* length of fs_inode.ptrs: FS_BLOCK_SIZE/4 - 5
    DirSlots,    \* MAX_DIR_ENTRIES_PER_BLOCK
    MaxPathLen,  \* MAX_PATH_LEN: components parse() keeps
    Names,       \* path components, as callers write them
    Truncated,   \* what parse() makes of a name longer than MAX_NAME_LEN
    NoEntry,     \* a dirent whose valid bit is 0
    Perms,       \* values of the low nine mode bits
    Times,       \* values of mtime
    Bytes        \* byte values that clients write

Blocks == 0 .. DiskSize - 1
Slots  == 0 .. DirSlots - 1
PtrIdx == 0 .. MaxPtrs - 1
Offs   == 0 .. BlockSize - 1

SuperBlock  == 0
BitmapBlock == 1
RootInode   == 2

Entry == [name : Names, inode : Blocks]

(***************************************************************************)
(* A disk of at most MaxPtrs blocks cannot hold a file with more blocks    *)
(* than an inode has pointers (FORMAT.md: disks of 1MB or less, 1018       *)
(* pointers).  fs_write never compares the two.                            *)
(***************************************************************************)
ASSUME LayoutAssumption ==
    /\ DiskSize \in Nat /\ DiskSize >= 4
    /\ BlockSize \in Nat \ {0}
    /\ MaxPtrs \in Nat /\ MaxPtrs >= DiskSize
    /\ DirSlots \in Nat \ {0}
    /\ MaxPathLen \in Nat \ {0}
    /\ Truncated \in [Names -> Names]
    /\ \A n \in Names : Truncated[Truncated[n]] = Truncated[n]
    /\ NoEntry \notin Entry
    /\ Bytes \subseteq Nat

\* Return values: 0, or a negated errno.
OK        == 0
ENOENT    == -2
EIO       == -5
EEXIST    == -17
ENOTDIR   == -20
EISDIR    == -21
EINVAL    == -22
ENOSPC    == -28
ENOTEMPTY == -39

-----------------------------------------------------------------------------
(* Block contents                                                          *)

NoPtr == -1   \* what fs_truncate leaves in the pointers it drops

Junk == -1                        \* a byte of an inode or a directory, read as file data
Byte == Bytes \cup {0, Junk}

Inode == [kind  : {"inode"},
          type  : {"file", "dir"},
          perm  : Perms,
          mtime : Times,
          size  : Nat,
          ptrs  : [PtrIdx -> Blocks \cup {NoPtr}]]

DirBlock  == [kind : {"dir"}, entries : [Slots -> Entry \cup {NoEntry}]]
DataBlock == [kind : {"data"}, bytes : [Offs -> Byte]]
Bitmap    == [kind : {"bitmap"}, used : SUBSET Blocks]
Super     == [kind : {"super"}]

Content == Inode \cup DirBlock \cup DataBlock \cup Bitmap \cup Super

EmptyDir  == [kind |-> "dir", entries |-> [s \in Slots |-> NoEntry]]
ZeroBlock == [kind |-> "data", bytes |-> [o \in Offs |-> 0]]

\* The bytes fs_read and fs_write get when they read this block.
RawBytes(c) == IF c.kind = "data" THEN c.bytes ELSE [o \in Offs |-> Junk]

\* inode_from_mode without its memset (a mutant of NewInode).
NewInodeNoMemset(type, perm, mtime, ptr0) ==
    [kind |-> "inode", type |-> type, perm |-> perm, mtime |-> mtime, size |-> 0,
     ptrs |-> [k \in PtrIdx |-> IF k = 0 THEN ptr0 ELSE DiskSize]]

NewInode(type, perm, mtime, ptr0) ==
    [kind  |-> "inode",
     type  |-> type,
     perm  |-> perm,
     mtime |-> mtime,
     size  |-> IF type = "dir" THEN BlockSize ELSE 0,
     ptrs  |-> [k \in PtrIdx |-> IF k = 0 THEN ptr0 ELSE 0]]

\* Blocks that a file of this many bytes occupies; the data pointers of an inode.
BlocksFor(size) == (size \div BlockSize) + (IF size % BlockSize > 0 THEN 1 ELSE 0)
DataIdx(ino) == 0 .. BlocksFor(ino.size) - 1

\* fs_unlink with its loop one turn short (a mutant of DataBlocks).
DataBlocksButLast(ino) == {ino.ptrs[k] : k \in 0 .. BlocksFor(ino.size) - 2}

DataBlocks(ino) == {ino.ptrs[k] : k \in DataIdx(ino)}

-----------------------------------------------------------------------------
(* Directories                                                             *)

IsInode(d, i) == d[i].kind = "inode"
IsDir(d, i)   == IsInode(d, i) /\ d[i].type = "dir"
IsFile(d, i)  == IsInode(d, i) /\ d[i].type = "file"

(***************************************************************************)
(* The entries in the block read through ptrs[0].  In a sound image it is a *)
(* directory block, and a block of zeros has no entries either.  Only in an *)
(* image that a cut-short mkdir left can it hold other old bytes: there a   *)
(* path ends, and what the code does is HandlerSteps' Stray.                *)
(***************************************************************************)
Entries(d, i) ==
    IF d[d[i].ptrs[0]].kind = "dir" THEN d[d[i].ptrs[0]].entries ELSE EmptyDir.entries

\* find_free_dir_entry without the test of the valid bit (a mutant of FreeSlots).
FreeSlotsAnyValid(d, i) == Slots

FreeSlots(d, i)     == {s \in Slots : Entries(d, i)[s] = NoEntry}
UsedSlots(d, i)     == Slots \ FreeSlots(d, i)
Matches(d, i, name) == {s \in UsedSlots(d, i) : Entries(d, i)[s].name = name}

\* The image after the directory of inode i is written back with slot s replaced.
WithEntry(d, i, s, e) ==
    [d EXCEPT ![d[i].ptrs[0]] = [kind |-> "dir", entries |-> [Entries(d, i) EXCEPT ![s] = e]]]

-----------------------------------------------------------------------------
(* Paths                                                                   *)

\* parse(): at most MaxPathLen components, each cut to the maximal name length.
Parse(path) ==
    [k \in 1 .. (IF Len(path) <= MaxPathLen THEN Len(path) ELSE MaxPathLen)
        |-> Truncated[path[k]]]

\* One turn of the loop in translate(); an error ends the loop.
Step(d, i, name) ==
    IF i < 0 THEN i
    ELSE IF ~IsDir(d, i) THEN ENOTDIR
    ELSE IF Matches(d, i, name) = {} THEN ENOENT
    ELSE Entries(d, i)[Min(Matches(d, i, name))].inode

Translate(d, q) ==
    LET inum[k \in 0 .. Len(q)] ==
            IF k = 0 THEN RootInode ELSE Step(d, inum[k - 1], q[k])
    IN  inum[Len(q)]

\* translate() with depth 1: the directory that holds the last component.
TranslateParent(d, q) == Translate(d, IF q = <<>> THEN q ELSE Front(q))

-----------------------------------------------------------------------------
(* Allocation                                                              *)

(***************************************************************************)
(* find_first_nfree_blocks(0, n): the n lowest free blocks, in order.  The *)
(* set is empty exactly when the scan runs off the disk (ENOSPC), and      *)
(* holds the empty sequence when nothing is asked for.                     *)
(***************************************************************************)
FirstFree(map, n) ==
    {a \in [1 .. n -> Blocks \ map] :
        /\ \A j, k \in 1 .. n : j < k => a[j] < a[k]
        /\ \A j \in 1 .. n : \A b \in Blocks \ map : b < a[j] => \E k \in 1 .. n : a[k] = b}
=============================================================================
