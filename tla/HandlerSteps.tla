---------------------------- MODULE HandlerSteps ----------------------------
(***************************************************************************)
(* The handlers of homework.c, one action per system call on the image and *)
(* per access to the globals bitmap and statVfs, so that the process may   *)
(* stop, the device may fail and other threads may run in between.         *)
(*                                                                         *)
(* A thread serves one call at a time.  It resolves a path by reading      *)
(* inodes and directory blocks ("inode", "entries"), reads the directory   *)
(* block its handler works on ("dir"), and from these copies decides on    *)
(* the accesses that are left, a queue it works off ("todo").              *)
(***************************************************************************)
EXTENDS FileSystemTree

CONSTANTS
    Threads,     \* threads of fuse_main: one with -s, any number without
    MaxCrashes,  \* bounds on how often the process is stopped within a call,
    MaxFaults    \* and on how many reads and writes of the image fail

ASSUME StepAssumption == Threads # {} /\ MaxCrashes \in Nat /\ MaxFaults \in Nat

VARIABLES
    thr,      \* what each thread is at, with the local variables of its handler
    offset,   \* the file offset of the image
    owed,     \* blocks an entry was written for and whose bits the disk does not have yet
    stops,    \* crashes and device errors so far, and whether calls have gone astray since
    settled   \* disk, bitmap and statVfs as the last call to return left them

stepVars == <<disk, bitmap, statVfs, reply, thr, offset, owed, stops, settled>>

Device == INSTANCE BlockDevice WITH image <- disk

\* The file system whose handlers are atomic: it sees what the finished calls have done.
Atomic == INSTANCE FileSystem WITH
    disk <- settled.disk, bitmap <- settled.bitmap, statVfs <- settled.statVfs

-----------------------------------------------------------------------------
(* Calls and threads                                                       *)

Requests ==
    UNION {[op : {"create", "mkdir"}, path : Below, perm : Perms, now : Times],
           [op : {"unlink", "rmdir"}, path : Below],
           [op : {"rename"}, path : Below, dst : Paths],
           [op : {"chmod"}, path : Paths, perm : Perms],
           [op : {"utime"}, path : Paths, time : Times],
           [op : {"truncate"}, path : Paths, len : TruncLens],
           [op : {"read"}, path : Paths, offset : IoOffsets, len : IoLens],
           [op : {"write"}, path : Paths, offset : IoOffsets, len : IoLens,
            byte : Bytes, now : Times],
           [op : {"getattr", "readdir"}, path : Paths],
           [op : {"statfs"}, path : {<<>>}]}

Adding   == {"create", "mkdir"}
Removing == {"unlink", "rmdir"}
Moving == {"rename"}
Looking  == {"getattr", "readdir", "read", "statfs"}

\* The inode that a thread has not read yet: no type, no size.
NotAnInode == [NewInode("file", CHOOSE p \in Perms : TRUE, CHOOSE t \in Times : TRUE, 0)
                  EXCEPT !.type = "none"]

(***************************************************************************)
(* The entries of a block that was written as a directory; in zeros there  *)
(* are none.  The bytes that a block still has of a file or of an inode    *)
(* would be taken for entries too: what they say is not modelled, and a    *)
(* thread that reads such a block takes the step Stray.                    *)
(***************************************************************************)
Legible(content)   == content.kind = "dir" \/ content = ZeroBlock
AsEntries(content) == IF content.kind = "dir" THEN content.entries ELSE EmptyDir.entries

Named(entries, name) == {s \in Slots : entries[s] # NoEntry /\ entries[s].name = name}
Vacant(entries)      == {s \in Slots : entries[s] = NoEntry}

Idle == [call   |-> [op |-> "none", path |-> <<>>],
         at     |-> "idle",
         goal   |-> "target",    \* what is resolved: the path, its parent, or rename's other path
         rest   |-> <<>>,        \* the components still to be resolved
         inum   |-> RootInode,   \* the inode reached, and its copy
         ino    |-> NotAnInode,
         blocks |-> <<>>,        \* allocatedBlockInums of unlink and rmdir
         seen   |-> [bitmap |-> {}, statVfs |-> [f_bfree |-> 0, f_bavail |-> 0]],
         buf    |-> <<>>,        \* blkBuf
         todo   |-> <<>>,
         ret    |-> OK,
         sought |-> 0]           \* lseeks made for the next read or write

\* free() of a pointer that was not allocated, an assertion, a NULL pointer: the process ends.
Dead == [Idle EXCEPT !.at = "dead"]

Walk(r, goal, path) ==
    [r EXCEPT !.at = "inode", !.goal = goal, !.rest = path, !.inum = RootInode]
LookIn(r)        == [r EXCEPT !.at = "dir"]
Do(r, todo, ret) == [r EXCEPT !.at = "todo", !.todo = todo, !.ret = ret]
Answer(r, ret)   == Do(r, <<>>, ret)

\* fs_rename goes on when its destination cannot be resolved, for whatever reason.
AfterDestination(r) ==
    LET s == Parse(r.call.path)  t == Parse(r.call.dst) IN
    IF Len(s) # Len(t) THEN Answer(r, EINVAL)
    ELSE IF Front(s) # Front(t) THEN Answer(r, EINVAL)
    ELSE Walk(r, "parent", Front(s))

Unresolved(r, err) ==
    IF r.call.op = "rename" /\ r.goal = "destination" THEN AfterDestination(r)
    ELSE Answer(r, err)

-----------------------------------------------------------------------------
(* What is left to do once a handler has decided                           *)

Put(lba, content)             == [do |-> "put", lba |-> lba, content |-> content, links |-> {}]
PutDir(lba, entries, links)   == [do |-> "put", lba |-> lba, links |-> links,
                                  content |-> [kind |-> "dir", entries |-> entries]]
Fetch(lba, slot)              == [do |-> "fetch", lba |-> lba, slot |-> slot]
Store(lba, slot)              == [do |-> "store", lba |-> lba, slot |-> slot]
Load                          == [do |-> "load"]
Bits(blocks, flag)            == [do |-> "bits", blocks |-> Range(blocks), flag |-> flag]
Save                          == [do |-> "save", lba |-> BitmapBlock]
Count(n)                      == [do |-> "count", n |-> n]

\* modify_bitmap_and_writeback_to_disk that writes before it changes (a mutant of ModifyBitmap).
ModifyBitmapSavingFirst(blocks, flag) == <<Save, Load, Bits(blocks, flag)>>

ModifyBitmap(blocks, flag) == <<Load, Bits(blocks, flag), Save>>
AdjustFree(n)              == <<Load, Count(n)>>


CreateEffects(r, entries, new) ==
    LET dir   == r.call.op = "mkdir"
        slot  == Min({s \in Slots : entries[s] = NoEntry})
        inode == NewInode(IF dir THEN "dir" ELSE "file", r.call.perm, r.call.now,
                          IF dir THEN new[2] ELSE 0)
        entry == [name |-> Leaf(r.call.path), inode |-> new[1]]
    IN  <<Put(new[1], inode),
          PutDir(r.ino.ptrs[0], [entries EXCEPT ![slot] = entry], Range(new))>>
        \o (IF dir THEN <<Put(new[2], EmptyDir)>> ELSE <<>>)
        \o AdjustFree(- Len(new))
        \o ModifyBitmap(new, TRUE)

\* fs_unlink that frees the blocks before it removes the entry (a mutant of RemoveEffects).
RemoveEffectsFreeingFirst(r, entries, slot) ==
    ModifyBitmap(r.blocks, FALSE)
    \o <<PutDir(r.ino.ptrs[0], [entries EXCEPT ![slot] = NoEntry], {})>>
    \o AdjustFree(Len(r.blocks))

RemoveEffects(r, entries, slot) ==
    <<PutDir(r.ino.ptrs[0], [entries EXCEPT ![slot] = NoEntry], {})>>
    \o ModifyBitmap(r.blocks, FALSE)
    \o AdjustFree(Len(r.blocks))

\* fs_truncate that leaves the pointers (a mutant of Shortened).
ShortenedKeepingPtrs(ino, len) == [ino EXCEPT !.size = len]

Shortened(ino, len) ==
    [ino EXCEPT
        !.size = len,
        !.ptrs = [k \in PtrIdx |-> IF k \in BlocksFor(len) .. BlocksFor(ino.size) - 1
                                   THEN NoPtr ELSE @[k]]]

TruncateEffects(r, ino) ==
    LET kept    == BlocksFor(r.call.len)
        removed == [n \in 1 .. BlocksFor(ino.size) - kept |-> ino.ptrs[kept + n - 1]]
    IN  <<Put(r.inum, Shortened(ino, r.call.len))>>
        \o ModifyBitmap(removed, FALSE) \o AdjustFree(Len(removed))

\* The inode, the old contents of the first and the last block, and then the buffer.
StoreEffects(r, ino, fresh) ==
    LET inode == Grown(ino, fresh, r.call.offset + r.call.len, r.call.now)
        idx   == WriteIdx(r.call.offset, r.call.len)
        count == Cardinality(idx)
        old   == BlocksFor(ino.size)
    IN  <<Put(r.inum, inode)>>
        \o (IF old > 0 THEN <<Fetch(inode.ptrs[Min(idx)], 1)>> ELSE <<>>)
        \o (IF old > 1 THEN <<Fetch(inode.ptrs[Max(idx)], count)>> ELSE <<>>)
        \o [n \in 1 .. count |-> Store(inode.ptrs[Min(idx) + n - 1], n)]
        \o AdjustFree(- BlocksNeeded(ino.size, r.call.offset, r.call.len))

Reserve(fresh) == IF fresh # <<>> THEN ModifyBitmap(fresh, TRUE) ELSE <<>>

\* fs_write that reserves its blocks last (a mutant of WriteEffects).
WriteEffectsReservingLast(r, ino, fresh) == StoreEffects(r, ino, fresh) \o Reserve(fresh)

WriteEffects(r, ino, fresh) == Reserve(fresh) \o StoreEffects(r, ino, fresh)

ZeroBuffer(count) == [n \in 1 .. count |-> ZeroBlock.bytes]

-----------------------------------------------------------------------------
(* The device: where a thread goes next, and the system calls it makes     *)

Alive   == \A t \in Threads : thr[t].at # "dead"
Busy(t) == thr[t].at \notin {"idle", "dead"}
Following(t) == Head(thr[t].todo)
ToDo(t, what) == thr[t].at = "todo" /\ thr[t].todo # <<>> /\ Following(t).do \in what

Reading(t) == thr[t].at \in {"inode", "entries", "dir"} \/ ToDo(t, {"fetch"})
Writing(t) == ToDo(t, {"put", "save", "store"})

Lba(t) ==
    CASE thr[t].at = "inode"             -> thr[t].inum
      [] thr[t].at \in {"entries", "dir"} -> thr[t].ino.ptrs[0]
      [] OTHER                           -> Following(t).lba

Seeks(t) == IF Writing(t) THEN 2 ELSE 1
Ready(t) == thr[t].sought = Seeks(t)

Becomes(t, r) == thr' = [thr EXCEPT ![t] = [r EXCEPT !.sought = 0]]

\* The lseeks: one, or for a write one to the end of the block and one to its start.
SeekBlock(t) ==
    /\ Reading(t) \/ Writing(t)
    /\ ~Ready(t)
    /\ Device!Seek(Lba(t) + Seeks(t) - 1 - thr[t].sought)
    /\ thr' = [thr EXCEPT ![t] = IF Writing(t) /\ Lba(t) <= 0 THEN Dead
                                 ELSE [thr[t] EXCEPT !.sought = @ + 1]]
    /\ UNCHANGED <<bitmap, statVfs, reply, owed, stops, settled>>

ReadBlock(t) ==
    /\ Reading(t) /\ Ready(t)
    /\ Device!Read
    /\ UNCHANGED <<bitmap, statVfs, reply, owed, settled>>

WriteBlock(t, content) ==
    /\ Writing(t) /\ Ready(t)
    /\ Device!Write(content)
    /\ UNCHANGED <<bitmap, statVfs, reply, stops, settled>>

\* What the caller of block_read or block_write does with -EIO.
AfterError(r) ==
    IF r.at = "inode" /\ r.rest = <<>> THEN {Unresolved(r, EIO), Dead}  \* free(inode) for free(*inode)
    ELSE IF r.at \in {"inode", "entries"} THEN {Unresolved(r, EIO)}
    ELSE IF r.at = "dir" /\ r.call.op = "readdir" THEN {Answer(r, 1)}   \* (status = ... < 0)
    ELSE {Answer(r, EIO)}

\* A read of a pointer that leads nowhere.
ReadNowhere(t) ==
    /\ Reading(t)
    /\ IF Ready(t) THEN offset \notin Blocks ELSE Lba(t) < 0
    /\ \E r \in AfterError(thr[t]) : Becomes(t, r)
    /\ UNCHANGED <<disk, bitmap, statVfs, reply, offset, owed, stops, settled>>

\* The device fails; a block is written as a whole or not at all.
Fault(t) ==
    /\ Alive
    /\ stops.faults < MaxFaults
    /\ Reading(t) \/ Writing(t)
    /\ Ready(t)
    /\ \E r \in AfterError(thr[t]) : Becomes(t, r)
    /\ stops' = [stops EXCEPT !.faults = @ + 1]
    /\ UNCHANGED <<disk, bitmap, statVfs, reply, offset, owed, settled>>

-----------------------------------------------------------------------------
(* Path resolution: translate and path_to_inode                            *)

WalkInode(t) ==
    /\ thr[t].at = "inode" /\ thr[t].rest # <<>>
    /\ ReadBlock(t) /\ Device!Here.kind = "inode" /\ UNCHANGED stops
    /\ LET r == [thr[t] EXCEPT !.ino = Device!Here]
       IN  Becomes(t, IF r.ino.type = "dir" THEN [r EXCEPT !.at = "entries"]
                      ELSE Unresolved(r, ENOTDIR))

WalkEntries(t) ==
    /\ thr[t].at = "entries"
    /\ ReadBlock(t) /\ Legible(Device!Here) /\ UNCHANGED stops
    /\ LET r       == thr[t]
           entries == AsEntries(Device!Here)
           hits    == Named(entries, Head(r.rest))
       IN  Becomes(t, IF hits = {} THEN Unresolved(r, ENOENT)
                      ELSE [r EXCEPT !.at = "inode", !.inum = entries[Min(hits)].inode,
                                     !.rest = Tail(@)])

\* The inode at the end of the path is read, for a handler that resolves this goal.
Arrives(t, ops, goal) ==
    /\ thr[t].at = "inode" /\ thr[t].rest = <<>>
    /\ thr[t].call.op \in ops /\ thr[t].goal = goal
    /\ ReadBlock(t) /\ Device!Here.kind = "inode"

\* The handler's own read of a directory block.
Scans(t, ops, goal) ==
    /\ thr[t].at = "dir"
    /\ thr[t].call.op \in ops /\ thr[t].goal = goal
    /\ ReadBlock(t) /\ Legible(Device!Here)

\* The same in a handler that does not hand out blocks at this point.
Resolved(t, ops, goal) == Arrives(t, ops, goal) /\ UNCHANGED stops
Listed(t, ops, goal)   == Scans(t, ops, goal) /\ UNCHANGED stops

Found   == Device!Here
Listing == AsEntries(Device!Here)
With(r) == [r EXCEPT !.ino = Found]

(***************************************************************************)
(* A block is read as an inode or a directory whose bytes are neither: a   *)
(* mkdir that was cut short leaves one, since it links the new directory   *)
(* before it zeroes its block.  The bytes may say anything.  The call does *)
(* not find what it looks for, or runs into a name without an end, or goes *)
(* on: harmless in a call that only looks (whose answer is left out); what *)
(* another one then writes is not followed, as stops.astray says.          *)
(***************************************************************************)
Stray(t) ==
    /\ ReadBlock(t)
    /\ \/ thr[t].at = "inode" /\ Device!Here.kind # "inode"
       \/ thr[t].at \in {"entries", "dir"} /\ ~Legible(Device!Here)
    /\ \/ /\ \E err \in {ENOENT, ENOTDIR, EIO} : Becomes(t, Unresolved(thr[t], err))
          /\ UNCHANGED stops
       \/ Becomes(t, Dead) /\ UNCHANGED stops
       \/ /\ Becomes(t, Answer(thr[t], OK))
          /\ stops' = [stops EXCEPT !.astray = @ \/ thr[t].call.op \notin Looking]

(***************************************************************************)
(* The blocks a call gets from find_first_nfree_blocks.  Blocks that are   *)
(* owed are in use, and free for the bitmap: when they are given away too, *)
(* what the calls do from then on is no longer said to be right.           *)
(***************************************************************************)
HandsOut(blocks) ==
    stops' = [stops EXCEPT !.astray = @ \/ Range(blocks) \cap owed # {}]

-----------------------------------------------------------------------------
(* The handlers, after each resolution and each directory they read        *)

Getattr1(t) ==
    /\ Resolved(t, {"getattr"}, "target")
    /\ Becomes(t, Answer(thr[t], OK))

Readdir1(t) ==
    /\ Resolved(t, {"readdir"}, "target")
    /\ Becomes(t, IF Found.type = "dir" THEN LookIn(With(thr[t])) ELSE Answer(thr[t], ENOTDIR))

\* The inode of every entry is read, slot by slot, into the same variable.
Readdir2(t) ==
    /\ Listed(t, {"readdir"}, "target")
    /\ LET used == Slots \ Vacant(Listing)
       IN  \E s \in [1 .. Cardinality(used) -> used] :
              /\ \A j, k \in DOMAIN s : j < k => s[j] < s[k]
              /\ Becomes(t, Do([thr[t] EXCEPT !.buf = ZeroBuffer(1)],
                               [k \in DOMAIN s |-> Fetch(Listing[s[k]].inode, 1)], OK))

\* create_directory_entry.
Create1(t) ==
    /\ Resolved(t, Adding, "parent")
    /\ Becomes(t, IF Found.type = "dir" THEN LookIn(With(thr[t])) ELSE Answer(thr[t], ENOTDIR))

Create2(t) ==
    /\ Scans(t, Adding, "parent")
    /\ LET r   == thr[t]
           new == FirstFree(bitmap, IF r.call.op = "mkdir" THEN 2 ELSE 1)
       IN  IF Named(Listing, Leaf(r.call.path)) # {}
           THEN Becomes(t, Answer(r, EEXIST)) /\ UNCHANGED stops
           ELSE IF Vacant(Listing) = {} \/ new = {}
           THEN Becomes(t, Answer(r, ENOSPC)) /\ UNCHANGED stops
           ELSE \E blocks \in new :
                  /\ HandsOut(blocks)
                  /\ Becomes(t, Do(r, CreateEffects(r, Listing, blocks), OK))

\* fs_unlink, up to unlink_directory_entry.
Unlink1(t) ==
    /\ Resolved(t, {"unlink"}, "target")
    /\ LET r == thr[t]
       IN  Becomes(t, Walk([r EXCEPT !.blocks = Append([k \in 1 .. BlocksFor(Found.size) |->
                                                           Found.ptrs[k - 1]], r.inum)],
                           "parent", Front(Parse(r.call.path))))

\* fs_rmdir, up to unlink_directory_entry: check_dir_empty.
Rmdir1(t) ==
    /\ Resolved(t, {"rmdir"}, "target")
    /\ Becomes(t, IF Found.type = "dir" THEN LookIn(With(thr[t])) ELSE Answer(thr[t], ENOTDIR))

Rmdir2(t) ==
    /\ Listed(t, {"rmdir"}, "target")
    /\ LET r == thr[t] IN
       IF Vacant(Listing) = {} THEN Becomes(t, Answer(r, ENOSPC))
       ELSE IF Min(Vacant(Listing)) # 0 THEN Becomes(t, Answer(r, ENOTEMPTY))
       ELSE Becomes(t, Walk([r EXCEPT !.blocks = <<r.inum, r.ino.ptrs[0]>>],
                            "parent", Front(Parse(r.call.path))))

\* unlink_directory_entry.
Remove1(t) ==
    /\ Resolved(t, Removing, "parent")
    /\ Becomes(t, LookIn(With(thr[t])))

Remove2(t) ==
    /\ Listed(t, Removing, "parent")
    /\ LET r    == thr[t]
           hits == Named(Listing, Leaf(r.call.path))
       IN  Becomes(t, IF hits = {} THEN Answer(r, ENOENT)
                      ELSE Do(r, RemoveEffects(r, Listing, Min(hits)), OK))

\* fs_rename: its source, its destination, and file_dir, which takes a missing entry for found.
Rename1(t) ==
    /\ Resolved(t, Moving, "target")
    /\ Becomes(t, Walk(thr[t], "destination", Parse(thr[t].call.dst)))

Rename2(t) ==
    /\ Resolved(t, Moving, "destination")
    /\ Becomes(t, Answer(thr[t], EEXIST))

Rename3(t) ==
    /\ Resolved(t, Moving, "parent")
    /\ Becomes(t, IF Found.type = "dir" THEN LookIn(With(thr[t])) ELSE Answer(thr[t], ENOTDIR))

Rename4(t) ==
    /\ Listed(t, Moving, "parent")
    /\ LET r    == thr[t]
           hits == Named(Listing, Leaf(r.call.path))
       IN  Becomes(t, IF hits = {} THEN Dead
                      ELSE Do(r, <<PutDir(r.ino.ptrs[0],
                                          [Listing EXCEPT ![Min(hits)].name = Leaf(r.call.dst)],
                                          {})>>, OK))

Chmod1(t) ==
    /\ Resolved(t, {"chmod"}, "target")
    /\ LET r == thr[t]
       IN  Becomes(t, Do(r, <<Put(r.inum, [Found EXCEPT !.perm = r.call.perm])>>, OK))

\* The calls on regular files.
Refused(t) ==
    /\ Resolved(t, {"utime", "truncate", "read", "write"}, "target")
    /\ Found.type # "file"
    /\ Becomes(t, Answer(thr[t], EISDIR))

ResolvedFile(t, op) == Resolved(t, {op}, "target") /\ Found.type = "file"

Utime1(t) ==
    /\ ResolvedFile(t, "utime")
    /\ LET r == thr[t]
       IN  Becomes(t, Do(r, <<Put(r.inum, [Found EXCEPT !.mtime = r.call.time])>>, OK))

Truncate1(t) ==
    /\ ResolvedFile(t, "truncate")
    /\ LET r == thr[t]
       IN  Becomes(t, IF BlocksFor(r.call.len) > BlocksFor(Found.size) THEN Answer(r, EINVAL)
                      ELSE Do(r, TruncateEffects(r, Found), OK))

Read1(t) ==
    /\ ResolvedFile(t, "read")
    /\ LET r    == thr[t]
           from == r.call.offset
           idx  == ReadIdx(Found.size, from, r.call.len)
           len  == IF from + r.call.len > Found.size THEN Found.size - from ELSE r.call.len
       IN  Becomes(t, IF from >= Found.size THEN Answer(r, 0)
                      ELSE Do([r EXCEPT !.buf = ZeroBuffer(Cardinality(idx))],
                              [n \in 1 .. Cardinality(idx) |-> Fetch(Found.ptrs[Min(idx) + n - 1], n)],
                              len))

Write1(t) ==
    /\ Arrives(t, {"write"}, "target") /\ Found.type = "file"
    /\ LET r     == thr[t]
           fresh == FirstFree(bitmap, BlocksNeeded(Found.size, r.call.offset, r.call.len))
           count == Cardinality(WriteIdx(r.call.offset, r.call.len))
       IN  IF r.call.offset > Found.size THEN Becomes(t, Answer(r, EINVAL)) /\ UNCHANGED stops
           ELSE IF fresh = {} THEN Becomes(t, Answer(r, ENOSPC)) /\ UNCHANGED stops
           ELSE \E blocks \in fresh :
                  /\ HandsOut(blocks)
                  /\ Becomes(t, Do([r EXCEPT !.buf = ZeroBuffer(count)],
                                   WriteEffects(r, Found, blocks), r.call.len))

-----------------------------------------------------------------------------
(* Working off the queue                                                   *)

\* A loop that does not advance (a mutant of Rest).
RestUnchanged(t) == thr[t]

Rest(t) == [thr[t] EXCEPT !.todo = Tail(@)]

PutNext(t) ==
    /\ ToDo(t, {"put"})
    /\ WriteBlock(t, Following(t).content)
    /\ owed' = owed \cup Following(t).links
    /\ Becomes(t, Rest(t))

SaveNext(t) ==
    /\ ToDo(t, {"save"})
    /\ WriteBlock(t, [kind |-> "bitmap", used |-> bitmap])
    /\ owed' = owed \ bitmap
    /\ Becomes(t, Rest(t))

\* The client's bytes are copied over what was fetched.
StoreNext(t) ==
    /\ ToDo(t, {"store"})
    /\ LET r        == thr[t]
           first    == r.call.offset \div BlockSize + Following(t).slot - 1
           ours(o)  == first * BlockSize + o \in r.call.offset .. r.call.offset + r.call.len - 1
           bytes    == [o \in Offs |-> IF ours(o) THEN r.call.byte
                                       ELSE r.buf[Following(t).slot][o]]
       IN  WriteBlock(t, [kind |-> "data", bytes |-> bytes])
    /\ UNCHANGED owed
    /\ Becomes(t, Rest(t))

FetchNext(t) ==
    /\ ToDo(t, {"fetch"})
    /\ ReadBlock(t) /\ UNCHANGED stops
    /\ Becomes(t, [Rest(t) EXCEPT !.buf[Following(t).slot] = RawBytes(Device!Here)])

\* The globals are read, changed in a register and written back.
LoadNext(t) ==
    /\ ToDo(t, {"load"})
    /\ Becomes(t, [Rest(t) EXCEPT !.seen = [bitmap |-> bitmap, statVfs |-> statVfs]])
    /\ UNCHANGED <<disk, bitmap, statVfs, reply, offset, owed, stops, settled>>

BitsNext(t) ==
    /\ ToDo(t, {"bits"})
    /\ bitmap' = IF Following(t).flag THEN thr[t].seen.bitmap \cup Following(t).blocks
                 ELSE thr[t].seen.bitmap \ Following(t).blocks
    /\ owed' = IF Following(t).flag THEN owed ELSE owed \ Following(t).blocks
    /\ Becomes(t, [Rest(t) EXCEPT !.seen = Idle.seen])
    /\ UNCHANGED <<disk, statVfs, reply, offset, stops, settled>>

CountNext(t) ==
    /\ ToDo(t, {"count"})
    /\ LET old == thr[t].seen.statVfs  n == Following(t).n
       IN  statVfs' = [f_bfree |-> old.f_bfree + n, f_bavail |-> old.f_bavail + n]
    /\ Becomes(t, [Rest(t) EXCEPT !.seen = Idle.seen])
    /\ UNCHANGED <<disk, bitmap, reply, offset, owed, stops, settled>>

\* Byte n of what a read returns.
Returned(r, n) ==
    LET p == (r.call.offset % BlockSize) + n - 1
    IN  r.buf[p \div BlockSize + 1][p % BlockSize]

Return(t) ==
    /\ thr[t].at = "todo" /\ thr[t].todo = <<>>
    /\ LET r == thr[t]
       IN  reply' = [op |-> r.call.op, path |-> r.call.path, ret |-> r.ret,
                     data |-> IF r.call.op # "read" THEN <<>>
                              ELSE [n \in 1 .. r.ret |-> Returned(r, n)]]
    /\ Becomes(t, Idle)
    /\ settled' = [disk |-> disk, bitmap |-> bitmap, statVfs |-> statVfs]
    /\ UNCHANGED <<disk, bitmap, statVfs, offset, owed, stops>>

-----------------------------------------------------------------------------
(* Calls begin, the process ends and is started again                      *)

(***************************************************************************)
(* Which calls may overlap is up to the kernel and libfuse: two calls that *)
(* change entries of a directory, or the inode of a file, wait for each    *)
(* other, and nothing else runs on a path that is being removed or         *)
(* renamed.                                                                *)
(***************************************************************************)
Compatible(c, d) ==
    LET p == Parse(c.path)  q == Parse(d.path)
        entry == Adding \cup Removing \cup Moving
        inode == {"chmod", "utime", "truncate", "write"}
    IN  /\ c.op \in entry /\ d.op \in entry => Front(p) # Front(q)
        /\ c.op \in inode /\ d.op \in inode => p # q
        /\ c.op \in Removing \cup Moving => ~IsPrefix(p, q)
        /\ d.op \in Removing \cup Moving => ~IsPrefix(q, p)
        /\ c.op \in Moving => ~IsPrefix(Parse(c.dst), q)
        /\ d.op \in Moving => ~IsPrefix(Parse(d.dst), p)

Start(c) ==
    LET r == [Idle EXCEPT !.call = c]  p == Parse(c.path) IN
    IF c.op = "statfs" THEN Answer(r, OK)
    ELSE IF c.op = "truncate" /\ c.len < 0 THEN Answer(r, EINVAL)
    ELSE IF c.op \in Adding THEN Walk(r, "parent", Front(p))
    ELSE Walk(r, "target", p)

\* Bound: a write begins while the free-block counter leaves room for what it may add to it.
Begin(t, c) ==
    /\ Alive /\ thr[t].at = "idle"
    /\ c.op \in Calls
    /\ \A u \in Threads : Busy(u) => Compatible(thr[u].call, c)
    /\ c.op = "write" => statVfs.f_bfree + DiskSize <= MaxFree
    /\ thr' = [thr EXCEPT ![t] = Start(c)]
    /\ UNCHANGED <<disk, bitmap, statVfs, reply, offset, owed, stops, settled>>

\* The process ends, within a call or between calls, and fs_init runs in a new one.
Restart ==
    /\ "init" \in Calls
    /\ disk[BitmapBlock].kind = "bitmap"
    /\ \/ /\ Alive => \A t \in Threads : ~Busy(t)
          /\ UNCHANGED stops
       \/ /\ Alive /\ \E t \in Threads : Busy(t)
          /\ stops.crashes < MaxCrashes
          /\ stops' = [stops EXCEPT !.crashes = @ + 1]
    /\ thr' = [t \in Threads |-> Idle]
    /\ Mounted(disk)
    /\ offset' = RootInode + 1
    /\ settled' = [disk |-> disk, bitmap |-> bitmap', statVfs |-> statVfs']
    /\ reply' = [op |-> "init", path |-> <<>>, ret |-> OK, data |-> <<>>]
    /\ UNCHANGED <<disk, owed>>

StepInit ==
    /\ Init
    /\ thr = [t \in Threads |-> Idle]
    /\ offset = RootInode + 1
    /\ owed = {}
    /\ stops = [crashes |-> 0, faults |-> 0, astray |-> FALSE]
    /\ settled = [disk |-> disk, bitmap |-> bitmap, statVfs |-> statVfs]

\* What a thread does once it is in a call, if the device does its part.
Proceed(t) ==
    /\ Alive
    /\ \/ SeekBlock(t) \/ ReadNowhere(t)
       \/ WalkInode(t) \/ WalkEntries(t) \/ Stray(t)
       \/ Getattr1(t) \/ Readdir1(t) \/ Readdir2(t)
       \/ Create1(t) \/ Create2(t)
       \/ Unlink1(t) \/ Rmdir1(t) \/ Rmdir2(t) \/ Remove1(t) \/ Remove2(t)
       \/ Rename1(t) \/ Rename2(t) \/ Rename3(t) \/ Rename4(t)
       \/ Chmod1(t) \/ Refused(t) \/ Utime1(t) \/ Truncate1(t) \/ Read1(t) \/ Write1(t)
       \/ PutNext(t) \/ SaveNext(t) \/ StoreNext(t) \/ FetchNext(t)
       \/ LoadNext(t) \/ BitsNext(t) \/ CountNext(t)
       \/ Return(t)

StepNext ==
    \/ \E t \in Threads : Proceed(t)
    \/ \E t \in Threads : Fault(t)
    \/ \E t \in Threads, c \in Requests : Begin(t, c)
    \/ Restart

StepSpec == StepInit /\ [][StepNext]_stepVars /\ \A t \in Threads : WF_stepVars(Proceed(t))

-----------------------------------------------------------------------------
(* Properties                                                              *)

StepTypeOK ==
    /\ disk \in [Blocks -> Content] /\ bitmap \subseteq Blocks /\ owed \subseteq Blocks
    /\ offset \in Nat
    /\ \A t \in Threads :
          /\ thr[t].at \in {"idle", "inode", "entries", "dir", "todo", "dead"}
          /\ thr[t].goal \in {"target", "parent", "destination"}
          /\ thr[t].inum \in Blocks /\ thr[t].sought \in 0 .. 2 /\ thr[t].ret \in Int
          /\ thr[t].blocks \in Seq(Blocks) /\ thr[t].buf \in Seq([Offs -> Byte])

(***************************************************************************)
(* The handlers implement those of FileSystem: although each is a long     *)
(* sequence of system calls that reuses buffers, copies of inodes and two  *)
(* globals, what a call has done to the image, the bitmap and the counters *)
(* when it returns, and what it returns, is what the atomic handler does   *)
(* in one step.  (This is Atomic!Spec with its step condition unfolded.)   *)
(***************************************************************************)
ImplementsFileSystem == Atomic!Init /\ [][UNCHANGED Atomic!vars \/ Atomic!Next]_stepVars

(***************************************************************************)
(* Every call returns: no loop of translate or of a handler runs on, and   *)
(* none ends in the assertion of block_write, in free() of what was not    *)
(* allocated or in the entry file_dir did not find.                        *)
(***************************************************************************)
CallsReturn == \A t \in Threads : thr[t].at # "idle" ~> thr[t].at = "idle"

(***************************************************************************)
(* The blocks that paths lead to, the inodes among them, and every block   *)
(* that these designate.  A path ends at a directory that is not legible:  *)
(* what a thread makes of the bytes there is Stray.                        *)
(***************************************************************************)
Reached    == [q \in {r \in Parsed : Translate(disk, r) \in Blocks} |-> Translate(disk, q)]
Objects    == {i \in Range(Reached) : IsInode(disk, i)}
Referenced == Range(Reached) \cup UNION {DataBlocks(disk[i]) : i \in Objects}

(***************************************************************************)
(* Wherever the process stops or the device fails, what paths lead to is   *)
(* reserved, on the disk and in memory: unlink and truncate take away the  *)
(* reference before the bit, write sets the bit before the reference.      *)
(* Only create and mkdir have it the other way round (owed).  This is so   *)
(* until a later call is given a block that is owed, or changes something  *)
(* by what it reads in a directory that was never zeroed (astray).         *)
(***************************************************************************)
OnlyAddingDangles ==
    ~stops.astray =>
        /\ Range(Reached) \subseteq Objects
        /\ Referenced \subseteq disk[BitmapBlock].used \cup owed
        /\ Referenced \subseteq bitmap \cup owed

(***************************************************************************)
(* Until then no two paths lead to one inode either, and no two pointers   *)
(* of reachable inodes to one block, even while a call is under way.  (The *)
(* next create after one that was cut short may well do this: it can be    *)
(* given the inode that is linked already, and then calls are astray.)     *)
(***************************************************************************)
NoneShared ==
    ~stops.astray =>
        /\ IsInjective(Reached)
        /\ \A i, j \in Objects : \A k \in DataIdx(disk[i]), l \in DataIdx(disk[j]) :
              disk[i].ptrs[k] = disk[j].ptrs[l] => i = j /\ k = l


(***************************************************************************)
(* The paths a call may change what is found at: its own, what is below a  *)
(* directory that goes or moves, and what appears below a new directory,   *)
(* whose entry is written before its block is zeroed: until then it shows  *)
(* what the block, once of a removed directory, held before.               *)
(***************************************************************************)
Own(c) ==
    {q \in Parsed : \/ q = Parse(c.path)
                    \/ c.op \in {"mkdir"} \cup Removing \cup Moving /\ IsPrefix(Parse(c.path), q)
                    \/ c.op \in Moving /\ IsPrefix(Parse(c.dst), q)}

At(nodes, q) == IF q \in DOMAIN nodes THEN {nodes[q]} ELSE {}

(***************************************************************************)
(* A call that is cut short by a stop or by an I/O error, at any of its    *)
(* writes, has changed nothing but the file or directory it is about, and  *)
(* the calls that follow change nothing but theirs, until one of them is   *)
(* given a block that the call cut short left owed or goes by what it      *)
(* reads in a directory that was never zeroed (astray).  The paths are     *)
(* those of tree, which end at such a directory.                           *)
(***************************************************************************)
OnlyItsOwn ==
    [][disk' # disk /\ ~stops'.astray =>
          LET before == tree  after == tree' IN
          \A q \in Parsed : At(after, q) # At(before, q) =>
              \E t \in Threads : Busy(t) /\ q \in Own(thr[t].call)]_stepVars

(***************************************************************************)
(* A call that allocates or frees blocks returns success only if the       *)
(* bitmap on the disk is the one in memory, also when an earlier call      *)
(* failed to write it back (modify_bitmap_and_writeback_to_disk keeps the  *)
(* change in memory then).  A truncate writes the bitmap even if it frees  *)
(* nothing; a write does so only if it takes blocks.                       *)
(***************************************************************************)
Accounting(answer) ==
    \/ answer.op \in Adding \cup Removing \cup {"truncate"} /\ answer.ret = OK
    \/ answer.op = "write" /\ answer.ret >= 0 /\ bitmap # settled.bitmap

SavedOnSuccess ==
    [][\A t \in Threads :
          Busy(t) /\ thr'[t] = Idle /\ Accounting(reply') /\ ~stops'.astray
            => bitmap' = disk'[BitmapBlock].used]_stepVars

-----------------------------------------------------------------------------
(* What the comments of the repository promise and the code does not keep: *)
(* each is refuted by a run.                                               *)

\* The blocks that a write is still to store its bytes in.
ToBeStored(t) ==
    {thr[t].todo[n].lba : n \in {m \in DOMAIN thr[t].todo : thr[t].todo[m].do = "store"}}

\* No two writes are about to store their bytes in one block (fs_write: "update bitmap first to
\* reserve and prevent unintended access to data").
ReservedOnce == \A t, u \in Threads : t # u => ToBeStored(t) \cap ToBeStored(u) = {}

\* Nothing is written over block 0 (block_write: "write to 0 is *always* an error").
SuperblockKept == disk[SuperBlock].kind = "super"

\* A rename that succeeds found no file of the new name (fs_rename: "EEXIST - destination
\* already exists").
RenamedToFreeName ==
    [][\A t \in Threads :
          Busy(t) /\ thr'[t] = Idle /\ reply'.op = "rename" /\ reply'.ret = OK
            => Translate(settled.disk, Parse(thr[t].call.dst)) < 0]_stepVars
=============================================================================
