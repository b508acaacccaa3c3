----------------------------- MODULE UnitTests ------------------------------
(***************************************************************************)
(* unittest-1.c and unittest-2.c as clients of the file system: each test  *)
(* is a sequence of calls with what it asserts of them, and a program runs *)
(* its tests one after the other on the image that gen-disk.py made for    *)
(* it.  Lengths are scaled to small blocks: a length within a block stays  *)
(* within it, one at its end stays there.                                  *)
(***************************************************************************)
EXTENDS FileSystem

VARIABLES
    program,      \* which of the two programs runs
    tests,        \* its tests from the present one on
    script,       \* what is left of the present one
    free_blocks,  \* the local variable of that name
    failed        \* the tests that an assertion ended

testVars == <<program, tests, script, free_blocks, failed>>

Now == "t2"   \* a time of day

-----------------------------------------------------------------------------
(* Calls, and the assertions on them                                       *)

Made(op, path, ret)     == [op |-> op, path |-> path, ret |-> ret]
StartFree               == Made("start", <<>>, OK)
Free(n)                 == [op |-> "statfs", path |-> <<>>, ret |-> OK, used |-> n]
Attributes(path, want)  == [op |-> "getattr", path |-> path, ret |-> OK, want |-> want]
Lists(path, table)      == [op |-> "readdir", path |-> path, ret |-> OK, want |-> table]
Chmoded(path, p, ret)   == [op |-> "chmod", path |-> path, perm |-> p, ret |-> ret]
Renamed(path, dst, ret) == [op |-> "rename", path |-> path, dst |-> dst, ret |-> ret]
Shortened(path, n, ret) == [op |-> "truncate", path |-> path, len |-> n, ret |-> ret]

Wrote(path, offset, len, byte, ret) ==
    [op |-> "write", path |-> path, offset |-> offset, len |-> len, byte |-> byte, ret |-> ret]

BytesRead(path, offset, len, data) ==
    [op |-> "read", path |-> path, offset |-> offset, len |-> len, ret |-> Len(data), data |-> data]

ReadFails(path, ret) ==
    [op |-> "read", path |-> path, offset |-> 0, len |-> 1, ret |-> ret, data |-> <<>>]

\* An object that the program makes, and one that it removes, with f_bavail afterwards.
Counted(op, path, n) == <<Made(op, path, OK), Free(n)>>

Each(things, Steps(_)) == FlattenSeq([n \in DOMAIN things |-> Steps(things[n])])

-----------------------------------------------------------------------------
(* The images                                                              *)

Object(type, perm, mtime, size, blocks, links) ==
    [type |-> type, perm |-> perm, mtime |-> mtime, size |-> size, blocks |-> blocks,
     links |-> links]

\* disk1.in, with the paths that lead to each inode; attr_data lists the same attributes.
Disk1 ==
    LET B == BlockSize IN
    <<Object("dir",  "777", "t2", B,  1, {<<>>}),
      Object("file", "666", "t1", B \div 4,     1, {<<"file.1k">>}),
      Object("file", "666", "t2", 1,      1, {<<"file.10">>}),
      Object("file", "666", "t2", 2*B+1,  3, {<<"file.8k+">>}),
      Object("dir",  "777", "t2", B,  1, {<<"dir-with-long-name">>}),
      Object("file", "666", "t2", 3*B+1, 4, {<<"file.12k+">>, <<"dir-with-long-name", "file.12k+">>}),
      Object("dir",  "777", "t2", 2 * B,  2, {<<"dir2">>}),
      Object("file", "666", "t2", B \div 4,     1, {<<"dir2", "twenty-seven-byte-file-name">>}),
      Object("file", "777", "t2", B+1,  2, {<<"dir2", "file.4k+">>}),
      Object("dir",  "777", "t2", B,  1, {<<"dir3">>}),
      Object("file", "777", "t2", 3*B-1, 4, {<<"dir3", "file.12k-">>}),
      Object("dir",  "777", "t2", B,  1, {<<"dir3", "subdir">>}),
      Object("file", "666", "t2", B-1,  1, {<<"dir3", "subdir", "file.4k-">>}),
      Object("file", "666", "t2", 2*B-1,  2, {<<"dir3", "subdir", "file.8k-">>}),
      Object("file", "666", "t2", 3 * B, 3, {<<"dir3", "subdir", "file.12k">>})>>

\* gen-disk.py: an object's inode, and its blocks behind it; where does not matter.
InodeOf(k)  == RootInode + FoldLeftDomain(LAMBDA n, j : IF j < k THEN n + 1 + Disk1[j].blocks ELSE n,
                                          0, Disk1)
Disk1Used   == {SuperBlock, BitmapBlock} \cup
               UNION {InodeOf(k) .. InodeOf(k) + Disk1[k].blocks : k \in DOMAIN Disk1}

\* Contents that differ from file to file and from block to block.
FileByte(k, n) == 1 + ((k + n) % 3)

Entry1(dir, s) ==
    LET below == {link \in Disk1[s].links : link # <<>> /\ Front(link) \in Disk1[dir].links}
    IN  IF below = {} THEN NoEntry
        ELSE [name |-> Last(CHOOSE link \in below : TRUE), inode |-> InodeOf(s)]

\* Slots are numbered from 0, objects from 1, and slot 0 is left free in each directory.
BlockOf(k, n) ==
    IF Disk1[k].type = "file"
    THEN [kind |-> "data", bytes |-> [o \in Offs |-> FileByte(k, n * BlockSize + o)]]
    ELSE IF n = 0 THEN [kind |-> "dir", entries |->
                          [s \in Slots |-> IF s \in DOMAIN Disk1 THEN Entry1(k, s) ELSE NoEntry]]
    ELSE EmptyDir

InodeAt(k) ==
    [kind |-> "inode", type |-> Disk1[k].type, perm |-> Disk1[k].perm, mtime |-> Disk1[k].mtime,
     size |-> Disk1[k].size,
     ptrs |-> [n \in PtrIdx |-> IF n < Disk1[k].blocks THEN InodeOf(k) + 1 + n ELSE 0]]

PopulatedImage ==
    [b \in Blocks |->
        CASE b = SuperBlock       -> [kind |-> "super"]
          [] b = BitmapBlock      -> [kind |-> "bitmap", used |-> Disk1Used]
          [] b \notin Disk1Used   -> ZeroBlock
          [] OTHER ->
                LET k == CHOOSE j \in DOMAIN Disk1 :
                            b \in InodeOf(j) .. InodeOf(j) + Disk1[j].blocks
                IN  IF b = InodeOf(k) THEN InodeAt(k) ELSE BlockOf(k, b - InodeOf(k) - 1)]

-----------------------------------------------------------------------------
(* unittest-1.c                                                            *)

bad_attr_tests ==
    <<Made("getattr", <<"not-a-file">>, ENOENT),
      Made("getattr", <<"file.1k", "file.0">>, ENOTDIR),
      Made("getattr", <<"not-a-dir", "file.0">>, ENOENT),
      Made("getattr", <<"dir2", "not-a-file">>, ENOENT)>>

attr_test ==
    Each(Disk1, LAMBDA o : Each(SetToSeq(o.links), LAMBDA p :
        <<Attributes(p, [f \in {"type", "perm", "mtime", "size"} |-> o[f]])>>))

bad_dir_tests ==
    <<Made("readdir", <<"fred", "abc", "def", "file.txt">>, ENOENT),
      Made("readdir", <<"dir3", "subdir", "file.12k", "something else">>, ENOTDIR),
      Made("readdir", <<"dir3", "subdir", "something else">>, ENOENT),
      Made("readdir", <<"dir3", "subdir", "file.12k">>, ENOTDIR)>>

dir_test ==
    <<Lists(<<>>, {<<"dir2", "dir">>, <<"dir3", "dir">>, <<"dir-with-long-name", "dir">>,
                   <<"file.1k", "file">>, <<"file.10", "file">>, <<"file.12k+", "file">>,
                   <<"file.8k+", "file">>}),
      Lists(<<"dir2">>, {<<"twenty-seven-byte-file-name", "file">>, <<"file.4k+", "file">>}),
      Lists(<<"dir3">>, {<<"subdir", "dir">>, <<"file.12k-", "file">>}),
      Lists(<<"dir-with-long-name">>, {<<"file.12k+", "file">>}),
      Lists(<<"dir3", "subdir">>, {<<"file.4k-", "file">>, <<"file.8k-", "file">>,
                                   <<"file.12k", "file">>})>>

bad_read_tests ==
    <<ReadFails(<<"fred", "abc", "def", "file.txt">>, ENOENT),
      ReadFails(<<"dir3", "subdir", "file.12k", "something else">>, ENOTDIR),
      ReadFails(<<"dir3", "subdir", "something else">>, ENOENT),
      ReadFails(<<"dir3", "subdir">>, EISDIR),
      BytesRead(<<"dir3", "subdir", "file.12k">>, 100 * BlockSize, 1, <<>>)>>

\* The file of object k read in pieces of this length, the last one cut at its end.
InPieces(k, piece) ==
    LET size == Disk1[k].size
        Part(n) == [m \in 1 .. Min({piece, size - n * piece}) |-> FileByte(k, n * piece + m - 1)]
    IN  Each(SetToSeq(Disk1[k].links), LAMBDA p :
            [n \in 1 .. (size + piece - 1) \div piece |->
                BytesRead(p, (n - 1) * piece, piece, Part(n - 1))])

Files1 == SelectSeq([k \in DOMAIN Disk1 |-> k], LAMBDA k : Disk1[k].type = "file")

big_read_tests   == Each(Files1, LAMBDA k : InPieces(k, 5 * BlockSize))
small_read_tests == Each(<<1, 2, 3>>, LAMBDA inc : Each(Files1, LAMBDA k : InPieces(k, inc)))

statfs_test == <<[op |-> "statfs", path |-> <<>>, ret |-> OK, used |-> 45]>>

chmod_test ==
    LET Flipped(p, type) ==
            <<Attributes(p, [type |-> type, perm |-> "777"]), Chmoded(p, "000", OK),
              Attributes(p, [type |-> type, perm |-> "000"]), Chmoded(p, "777", OK)>>
    IN  <<Chmoded(<<"dir2", "dir3">>, "777", ENOENT), Chmoded(<<"dir1">>, "777", ENOENT)>>
        \o Flipped(<<"dir2">>, "dir") \o Flipped(<<"dir2", "file.4k+">>, "file")

rename_test ==
    LET data     == [n \in 1 .. BlockSize + 1 |-> FileByte(9, n - 1)]
        \* The test asks for more than no bytes; these are all that it can get.
        Whole(p) == BytesRead(p, 0, 5 * BlockSize, data)
        old == <<"dir2", "file.4k+">>  new == <<"dir2", "new.file.name">>
        moved == <<"dirGone", "new.file.name">>
    IN  <<Renamed(<<"dir2">>, <<"dir3">>, EEXIST),
          Renamed(<<"dir1">>, <<"dir4">>, ENOENT),
          Renamed(old, <<"dir3", "new.file.name">>, EINVAL),
          Whole(old), Renamed(old, new, OK), ReadFails(old, ENOENT), Whole(new),
          Renamed(<<"dir2">>, <<"dirGone">>, OK), ReadFails(new, ENOENT), Whole(moved),
          Renamed(<<"dirGone">>, <<"dir2">>, OK), Renamed(new, old, OK), Whole(old)>>

-----------------------------------------------------------------------------
(* unittest-2.c                                                            *)

create_subdir_test ==
    LET root == <<"ins-dirs">>
        dir1 == <<"ins-dirs", "dir1">>  dir2 == <<"ins-dirs", "dir2">>
        file1 == Append(dir1, "file1.fil")
        cut   == "this-dir-name-is-way-too-lo"
    IN  <<StartFree>>
        \o Counted("mkdir", root, 2) \o Counted("mkdir", dir1, 4) \o Counted("mkdir", dir2, 6)
        \o Counted("mkdir", Append(dir1, "dir11"), 8) \o Counted("mkdir", Append(dir2, "dir21"), 10)
        \o Counted("create", file1, 11)
        \o <<Made("mkdir", dir1 \o <<"dir2", "dir3">>, ENOENT),
             Made("mkdir", Append(file1, "dir3"), ENOTDIR),
             Made("mkdir", file1, EEXIST),
             Made("mkdir", Append(dir1, "dir11"), EEXIST)>>
        \o Counted("mkdir", Append(dir1, "this-dir-name-is-way-too-long"), 13)
        \o <<Lists(root, {<<"dir1", "dir">>, <<"dir2", "dir">>}),
             Lists(dir1, {<<"dir11", "dir">>, <<"file1.fil", "file">>, <<cut, "dir">>}),
             Lists(dir2, {<<"dir21", "dir">>})>>
        \o Counted("unlink", file1, 12) \o Counted("rmdir", Append(dir1, cut), 10)
        \o Counted("rmdir", Append(dir1, "dir11"), 8) \o Counted("rmdir", Append(dir2, "dir21"), 6)
        \o Counted("rmdir", dir1, 4) \o Counted("rmdir", dir2, 2) \o Counted("rmdir", root, 0)

delete_subdir_test ==
    LET root == <<"del-dirs">>
        dir1 == <<"del-dirs", "del-dir1">>  dir2 == <<"del-dirs", "del-dir2">>
        dir11 == Append(dir1, "del-dir11")  dir21 == Append(dir2, "del-dir21")
        file1 == Append(dir1, "file1.fil")
    IN  <<StartFree>>
        \o Each(<<root, dir1, dir2, dir11, dir21>>, LAMBDA p : <<Made("mkdir", p, OK)>>)
        \o Counted("create", file1, 11)
        \o <<Lists(root, {<<"del-dir1", "dir">>, <<"del-dir2", "dir">>}),
             Lists(dir1, {<<"del-dir11", "dir">>, <<"file1.fil", "file">>}),
             Lists(dir2, {<<"del-dir21", "dir">>}),
             Made("rmdir", dir1 \o <<"dir2", "dir3">>, ENOENT),
             Made("rmdir", Append(file1, "dir3"), ENOTDIR),
             Made("rmdir", Append(dir1, "dir2"), ENOENT),
             Made("rmdir", file1, ENOTDIR),
             Made("rmdir", dir1, ENOTEMPTY), Free(11),
             Made("unlink", file1, OK)>>
        \o Each(<<dir21, dir11, dir2, dir1>>, LAMBDA p : <<Made("rmdir", p, OK)>>)
        \o <<Free(2), Lists(root, {}), Made("rmdir", root, OK), Lists(<<>>, {}), Free(0)>>

write_empty_test ==
    LET root == <<"create-dirs">>
        dir1 == <<"create-dirs", "dir1">>  dir2 == <<"create-dirs", "dir2">>
        file1 == Append(dir1, "file1.fil")
        others == <<Append(dir1, "file2.fil"), Append(dir2, "file3.fil"), Append(dir2, "file4.fil"),
                    Append(root, "file5.fil"), Append(root, "file6.fil")>>
    IN  <<StartFree>>
        \o Each(<<root, dir1, dir2>>, LAMBDA p : <<Made("mkdir", p, OK)>>)
        \o Counted("create", file1, 7)
        \o <<Made("create", dir1 \o <<"dir2", "dir3">>, ENOENT),
             Made("create", Append(file1, "dir3"), ENOTDIR),
             Made("create", file1, EEXIST),
             Made("create", dir1, EEXIST), Free(7)>>
        \o Each(others, LAMBDA p : <<Made("create", p, OK)>>)
        \o <<Free(12),
             Lists(<<>>, {<<"create-dirs", "dir">>}),
             Lists(root, {<<"dir1", "dir">>, <<"dir2", "dir">>, <<"file5.fil", "file">>,
                          <<"file6.fil", "file">>}),
             Lists(dir1, {<<"file1.fil", "file">>, <<"file2.fil", "file">>}),
             Lists(dir2, {<<"file3.fil", "file">>, <<"file4.fil", "file">>})>>
        \o Each(<<file1>> \o others, LAMBDA p : <<Made("unlink", p, OK)>>)
        \o Each(<<dir2, dir1, root>>, LAMBDA p : <<Made("rmdir", p, OK)>>)
        \o <<Free(0)>>

\* A file of this size written in order, each write step further on and len long; the byte
\* tells one write from the next, as the pattern of src_buffer does.
Filled(fn, size, step, len) ==
    [n \in 1 .. (size + step - 1) \div step |->
        LET from == (n - 1) * step  part == Min({len, size - from})
        IN  Wrote(fn, from, part, 1 + (n % 2), part)]

\* What one turn of the loops of the write tests checks before it removes the file.
Written(fn, size, step, len) ==
    Counted("create", fn, 3) \o Filled(fn, size, step, len)
    \o <<Attributes(fn, [size |-> size]), Free(3 + (size - 1) \div BlockSize + 1)>>

ReadBack(fn, size, step) ==
    <<BytesRead(fn, 0, size, [n \in 1 .. size |-> 1 + (((n - 1) \div step + 1) % 2)])>>

\* From half a block to three blocks.
file_size == [n \in 1 .. 6 |-> (n * BlockSize) \div 2]

write_append_test ==
    LET dir == <<"append-dir">>  fn == Append(dir, "file1.fil") IN
    <<StartFree>> \o Counted("mkdir", dir, 2)
    \o <<Made("create", fn, OK),
         Wrote(<<"xxx">>, 0, 1, 1, ENOENT), Wrote(dir, 0, 1, 1, EISDIR), Wrote(fn, 1, 1, 1, EINVAL)>>
    \o Counted("unlink", fn, 2)
    \o Each(file_size, LAMBDA size : Each(<<1, 2, 3>>, LAMBDA incr :
            Written(fn, size, incr, incr) \o ReadBack(fn, size, incr) \o Counted("unlink", fn, 2)))
    \o Counted("rmdir", dir, 0)

\* Each write begins before the end of the one before it.
write_overwrite_test ==
    LET dir == <<"append-dir">>  fn == Append(dir, "file1.fil") IN
    <<StartFree>> \o Counted("mkdir", dir, 2)
    \o Each(file_size, LAMBDA size : Each(<<2, 3>>, LAMBDA incr :
            Written(fn, size, 1, incr) \o ReadBack(fn, size, 1) \o Counted("unlink", fn, 2)))
    \o Counted("rmdir", dir, 0)

write_truncate_test ==
    LET dir == <<"truncate-dir">>  fn == Append(dir, "file1.fil") IN
    <<StartFree>> \o Counted("mkdir", dir, 2)
    \o <<Made("create", fn, OK),
         Shortened(<<"xxx">>, 0, ENOENT), Shortened(dir, 0, EISDIR), Shortened(fn, -10, EINVAL)>>
    \o Counted("unlink", fn, 2)
    \o Each(file_size, LAMBDA size :
            Written(fn, size, 1, 1)
            \o <<Shortened(fn, 0, OK), Attributes(fn, [size |-> 0]), Free(3)>>
            \o Counted("unlink", fn, 2))
    \o Counted("rmdir", dir, 0)

-----------------------------------------------------------------------------
(* The runs of the two programs                                            *)

Image(prog) == IF prog = 1 THEN PopulatedImage ELSE EmptyImage("777", "t2")

Suite(prog) ==
    IF prog = 1
    THEN <<bad_attr_tests, attr_test, bad_dir_tests, dir_test, bad_read_tests, big_read_tests,
           small_read_tests, statfs_test, chmod_test, rename_test>>
    ELSE <<create_subdir_test, delete_subdir_test, write_empty_test, write_overwrite_test,
           write_truncate_test, write_append_test>>

\* main: the image is made, opened and mounted.
TestInit ==
    /\ program \in {1, 2}
    /\ disk = Image(program)
    /\ bitmap = disk[BitmapBlock].used
    /\ statVfs = [f_bfree |-> FreeBlocks, f_bavail |-> FreeBlocks]
    /\ reply = [op |-> "init", path |-> <<>>, ret |-> OK, data |-> <<>>]
    /\ tests = 1 /\ script = Suite(program)[1]
    /\ free_blocks = DiskSize
    /\ failed = {}

\* The table that the filler function of readdir is called with.
Listed(dir) ==
    LET entries == Range(Entries(disk, Resolve(dir))) \ {NoEntry}
    IN  {<<e.name, disk[e.inode].type>> : e \in entries}

\* The handler called through fs_ops.
Called(s) ==
    \/ s.op = "create"   /\ Create(s.path, "777", Now)
    \/ s.op = "mkdir"    /\ Mkdir(s.path, "777", Now)
    \/ s.op = "unlink"   /\ Unlink(s.path)
    \/ s.op = "rmdir"    /\ Rmdir(s.path)
    \/ s.op = "rename"   /\ Rename(s.path, s.dst)
    \/ s.op = "chmod"    /\ Chmod(s.path, s.perm)
    \/ s.op = "truncate" /\ Truncate(s.path, s.len)
    \/ s.op = "read"     /\ Read(s.path, s.offset, s.len)
    \/ s.op = "write"    /\ Write(s.path, s.offset, s.len, s.byte, Now)
    \/ s.op = "getattr"  /\ Getattr(s.path)
    \/ s.op = "readdir"  /\ Readdir(s.path)
    \/ s.op \in {"start", "statfs"} /\ Statfs

\* What is asserted of it: what it returned, and what it filled in.
Asserted(s) ==
    /\ reply'.ret = s.ret
    /\ s.op = "statfs" => statVfs.f_bavail = free_blocks - s.used
    /\ s.op = "read" => reply'.data = s.data
    /\ s.op = "getattr" /\ s.ret = OK =>
          \A field \in DOMAIN s.want : disk[Resolve(s.path)][field] = s.want[field]
    /\ s.op = "readdir" /\ s.ret = OK => Listed(s.path) = s.want

\* A failing assertion ends the test.
RunStep ==
    /\ script # <<>>
    /\ LET s == Head(script) IN
       /\ Called(s)
       /\ free_blocks' = IF s.op = "start" THEN statVfs.f_bavail ELSE free_blocks
       /\ IF Asserted(s) THEN script' = Tail(script) /\ UNCHANGED failed
          ELSE script' = <<>> /\ failed' = failed \cup {tests}
    /\ UNCHANGED <<program, tests>>

NextTest ==
    /\ script = <<>>
    /\ tests < Len(Suite(program))
    /\ tests' = tests + 1
    /\ script' = Suite(program)[tests + 1]
    /\ UNCHANGED <<vars, program, free_blocks, failed>>

\* The program ends.
Exit ==
    /\ script = <<>> /\ tests = Len(Suite(program))
    /\ UNCHANGED <<vars, testVars>>

TestNext == RunStep \/ NextTest \/ Exit

TestSpec == TestInit /\ [][TestNext]_<<vars, testVars>>

-----------------------------------------------------------------------------
(* Properties                                                              *)

(***************************************************************************)
(* Every assertion of the two programs holds on the handlers as modelled:  *)
(* what the calls return, the attributes, entries and bytes they fill in   *)
(* and the block counts between them, over the whole sequence of tests,    *)
(* each of which starts from what the ones before it left on the disk.     *)
(***************************************************************************)
AssertionsHold == failed = {}

(***************************************************************************)
(* A test leaves no block behind: between tests exactly the blocks of the  *)
(* image are marked, after all the files and directories that the handlers *)
(* made, grew, truncated and removed (the tests themselves only look at    *)
(* the counter, which does not follow from the bitmap).                    *)
(***************************************************************************)
LeavesNothing == script = <<>> => bitmap = Image(program)[BitmapBlock].used
=============================================================================
