------------------------- MODULE FileSystemTreeProofs -------------------------
(***************************************************************************)
(* The handlers implement the tree of FileTree: for disks, directories,    *)
(* files and names of every size, each call does to the tree one of the    *)
(* operations of FileTree, or nothing.                                     *)
(***************************************************************************)
EXTENDS FileSystemTree, FileSystemStepProofs

(***************************************************************************)
(* The client can name every object: its paths are, once parsed, all those *)
(* of at most MaxPathLen components that are not too long.  The paths of   *)
(* the kernel are (any sequence of components), and those of the run tree. *)
(***************************************************************************)
EveryPath == Parsed = {q \in Seq({n \in Names : Truncated[n] = n}) : Len(q) <= MaxPathLen}

\* So are the objects of the image: no file or directory lies deeper than parse() looks.
Named(d) == \A q \in Seq(Names) : Translate(d, q) >= 0 => q \in Parsed

TreeState == SoundState /\ NamesIn(disk, bitmap) /\ Named(disk)

-----------------------------------------------------------------------------
(* The tree of an image                                                    *)

TreeIn(d) == [q \in {r \in Parsed : Translate(d, r) >= 0} |-> NodeIn(d, Translate(d, q))]

\* The refinement mapping, as a function of the image, now and after a step.
LEMMA TreeIsTreeIn == tree = TreeIn(disk) /\ tree' = TreeIn(disk')
  BY DEF tree, TreeIn, Node, NodeIn, ByteAt

\* Every parsed path is a sequence of names.
LEMMA ParsedTyped == \A q \in Parsed : q \in Seq(Names)
  BY PathTyped DEF Parsed

\* The domain and the values of the tree, by where paths lead.
LEMMA TreeInFacts ==
    ASSUME NEW d, Named(d)
    PROVE  /\ \A q : q \in DOMAIN TreeIn(d) <=> q \in Seq(Names) /\ Translate(d, q) >= 0
           /\ \A q \in Seq(Names) : \A j : Reach(d, q, j) => q \in DOMAIN TreeIn(d) /\ TreeIn(d)[q] = NodeIn(d, j)
           /\ TreeIn(d) = [q \in DOMAIN TreeIn(d) |-> TreeIn(d)[q]]
<1>1. DOMAIN TreeIn(d) = {r \in Parsed : Translate(d, r) >= 0}
      /\ \A q \in DOMAIN TreeIn(d) : TreeIn(d)[q] = NodeIn(d, Translate(d, q))
  BY DEF TreeIn
<1>2. \A q : q \in DOMAIN TreeIn(d) <=> q \in Seq(Names) /\ Translate(d, q) >= 0
  BY <1>1, ParsedTyped DEF Named
<1>3. ASSUME NEW q \in Seq(Names), NEW j, Reach(d, q, j)
      PROVE  q \in DOMAIN TreeIn(d) /\ TreeIn(d)[q] = NodeIn(d, j)
  <2>1. Translate(d, q) = j /\ Translate(d, q) >= 0
    BY <1>3 DEF Reach
  <2> QED
    BY <1>1, <1>2, <2>1
<1>4. TreeIn(d) = [q \in DOMAIN TreeIn(d) |-> TreeIn(d)[q]]
  BY DEF TreeIn
<1> QED
  BY <1>2, <1>3, <1>4, Zenon

\* What the tests of FileTree ask of a path.
LEMMA TreeTests ==
    ASSUME TreeState, NEW q \in Seq(Names)
    PROVE  /\ Tree!Exists(q) <=> Translate(disk, q) >= 0
           /\ Tree!IsDir(q) <=> Translate(disk, q) >= 0 /\ disk[Translate(disk, q)].type = "dir"
           /\ Tree!IsFile(q) <=> Translate(disk, q) >= 0 /\ disk[Translate(disk, q)].type = "file"
<1>1. tree = TreeIn(disk)
  BY TreeIsTreeIn
<1>2. Tree!Exists(q) <=> Translate(disk, q) >= 0
  BY <1>1, TreeInFacts DEF TreeState, Tree!Exists
<1>3. Translate(disk, q) >= 0 => tree[q] = NodeIn(disk, Translate(disk, q))
  BY <1>1, TreeInFacts DEF TreeState, Reach
<1>4. Translate(disk, q) >= 0 => tree[q].type = disk[Translate(disk, q)].type
  <2>1. \A i : NodeIn(disk, i).type = disk[i].type
    BY DEF NodeIn
  <2> QED
    BY <1>3, <2>1
<1> QED
  BY <1>2, <1>4 DEF Tree!IsDir, Tree!IsFile

\* What is below a path in the tree.
LEMMA TreeBelow ==
    ASSUME TreeState, NEW s \in Seq(Names)
    PROVE  \A q : q \in Tree!Below(s) <=> q \in Seq(Names) /\ Translate(disk, q) >= 0 /\ Above(s, q)
<1>1. tree = TreeIn(disk)
  BY TreeIsTreeIn
<1>2. \A q : q \in DOMAIN tree <=> q \in Seq(Names) /\ Translate(disk, q) >= 0
  BY <1>1, TreeInFacts DEF TreeState
<1>3. \A q \in Seq(Names) : Tree!IsPrefix(s, q) <=> Above(s, q)
  BY PrefixAbove DEF Tree!IsPrefix, IsPrefix
<1> QED
  BY <1>2, <1>3 DEF Tree!Below

\* Where paths lead and what is there says what the tree is.
LEMMA SameTree ==
    ASSUME NEW d, Named(d), NEW D, NEW f, f = [q \in D |-> f[q]],
           \A q : q \in D <=> q \in Seq(Names) /\ Translate(d, q) >= 0,
           \A q \in D : f[q] = NodeIn(d, Translate(d, q))
    PROVE  TreeIn(d) = f
<1>1. /\ \A q : q \in DOMAIN TreeIn(d) <=> q \in D
      /\ \A q \in D : TreeIn(d)[q] = f[q]
      /\ TreeIn(d) = [q \in DOMAIN TreeIn(d) |-> TreeIn(d)[q]]
  BY TreeInFacts DEF Reach
<1>2. DOMAIN TreeIn(d) = D
  BY <1>1
<1> QED
  BY <1>1, <1>2

-----------------------------------------------------------------------------
(* Paths that the client can name                                          *)

\* The parts of a path that can be named can be, and so can it with another name in it.
LEMMA NameMore ==
    ASSUME EveryPath, NEW q \in Parsed
    PROVE  /\ <<>> \in Parsed
           /\ \A k \in 0 .. Len(q) : SubSeq(q, 1, k) \in Parsed
           /\ \A l \in 1 .. Len(q) : \A n \in Names : Truncated[n] = n => [q EXCEPT ![l] = n] \in Parsed
<1> DEFINE Cut == {n \in Names : Truncated[n] = n}
<1>1. /\ q \in Seq(Cut) /\ Len(q) <= MaxPathLen /\ Len(q) \in Nat
      /\ \A r \in Seq(Cut) : Len(r) <= MaxPathLen => r \in Parsed
      /\ MaxPathLen \in Nat
  BY LayoutAssumption DEF EveryPath
<1>2. \A n : n \in Cut <=> n \in Names /\ Truncated[n] = n
  OBVIOUS
<1> HIDE DEF Cut
<1>3. <<>> \in Parsed
  <2>1. <<>> \in Seq(Cut) /\ Len(<<>>) <= MaxPathLen
    BY <1>1
  <2> QED
    BY <1>1, <2>1, Zenon
<1>4. ASSUME NEW k \in 0 .. Len(q) PROVE SubSeq(q, 1, k) \in Parsed
  <2>1. SubSeq(q, 1, k) \in Seq(Cut) /\ Len(SubSeq(q, 1, k)) = k
    BY <1>1
  <2>2. Len(SubSeq(q, 1, k)) <= MaxPathLen
    BY <1>1, <2>1
  <2> QED
    BY <1>1, <2>1, <2>2, Zenon
<1>5. ASSUME NEW l \in 1 .. Len(q), NEW n \in Names, Truncated[n] = n
      PROVE  [q EXCEPT ![l] = n] \in Parsed
  <2>1. [q EXCEPT ![l] = n] \in Seq(Cut) /\ Len([q EXCEPT ![l] = n]) = Len(q)
    BY <1>1, <1>2, <1>5, OtherName
  <2> QED
    BY <1>1, <2>1
<1> QED
  BY <1>3, <1>4, <1>5

-----------------------------------------------------------------------------
(* Calls that fail                                                         *)

\* The two modules number the errors alike.
LEMMA SameErrors ==
    /\ Tree!OK = OK /\ Tree!ENOENT = ENOENT /\ Tree!EEXIST = EEXIST /\ Tree!ENOTDIR = ENOTDIR
    /\ Tree!EISDIR = EISDIR /\ Tree!ENOTEMPTY = ENOTEMPTY
    /\ Tree!Errors = {ENOENT, EIO, EEXIST, ENOTDIR, EISDIR, EINVAL, ENOSPC, ENOTEMPTY}
  BY DEF Tree!OK, Tree!Errors, Tree!ENOENT, Tree!EIO, Tree!EEXIST, Tree!ENOTDIR, Tree!EISDIR,
         Tree!EINVAL, Tree!ENOSPC, Tree!ENOTEMPTY,
         OK, ENOENT, EIO, EEXIST, ENOTDIR, EISDIR, EINVAL, ENOSPC, ENOTEMPTY

\* What an answer is to the tree.
LEMMA SameAnswer ==
    ASSUME NEW op, NEW path, NEW ret, Reply(op, path, ret)
    PROVE  Tree!Answer(op, Parse(path), ret)
  BY DEF Reply, Tree!Answer

\* This error has a reason in the image, for a call on path q.
Reason(op, q, err) ==
    /\ err \in {ENOENT, EIO, EEXIST, ENOTDIR, EISDIR, EINVAL, ENOSPC, ENOTEMPTY}
    /\ err = ENOENT => ~(Translate(disk, q) >= 0)
    /\ err = EEXIST => op = "rename" \/ Translate(disk, q) >= 0
    /\ err = EISDIR => Translate(disk, q) >= 0 /\ disk[Translate(disk, q)].type = "dir"
    /\ err = ENOTEMPTY => \E r \in Seq(Names) : Translate(disk, r) >= 0 /\ Above(q, r) /\ r # q
    /\ err = ENOTDIR => \E k \in 0 .. Len(q) : /\ Translate(disk, SubSeq(q, 1, k)) >= 0
                                               /\ disk[Translate(disk, SubSeq(q, 1, k))].type = "file"

\* A call that fails with a reason is one that the tree refuses.
LEMMA FailRefuses ==
    ASSUME TreeState, EveryPath, NEW op \in Tree!PathCalls, NEW path \in Paths, NEW err,
           Fail(op, path, err), Reason(op, Parse(path), err)
    PROVE  Tree!Refuse
<1> DEFINE q == Parse(path)
           r == [reply' EXCEPT !.path = Parse(@)]
<1>1. q \in Parsed /\ q \in Seq(Names)
  BY PathTyped DEF Parsed
<1>2. reply' = [op |-> op, path |-> path, ret |-> err, data |-> <<>>]
      /\ disk' = disk
  BY DEF Fail, Reply
<1>3. r = [op |-> op, path |-> q, ret |-> err, data |-> <<>>]
  BY <1>2
<1>4. tree' = tree
  BY <1>2, TreeIsTreeIn
<1> HIDE DEF q
<1>5. /\ err \in Tree!Errors
      /\ err = Tree!ENOENT => ~Tree!Exists(q)
      /\ err = Tree!EEXIST => op = "rename" \/ Tree!Exists(q)
      /\ err = Tree!EISDIR => Tree!IsDir(q)
  BY <1>1, TreeTests, SameErrors DEF Reason, q
<1>6. err = Tree!ENOTEMPTY => \E x \in Tree!Below(q) : x # q
  BY <1>1, TreeBelow, SameErrors DEF Reason, q
<1>7. err = Tree!ENOTDIR => \E k \in 0 .. Len(q) : Tree!IsFile(SubSeq(q, 1, k))
  <2>1. \A k \in 0 .. Len(q) : SubSeq(q, 1, k) \in Seq(Names)
    BY <1>1
  <2>2. \A k \in 0 .. Len(q) : Tree!IsFile(SubSeq(q, 1, k)) <=>
           /\ Translate(disk, SubSeq(q, 1, k)) >= 0
           /\ disk[Translate(disk, SubSeq(q, 1, k))].type = "file"
    BY <2>1, TreeTests
  <2> QED
    BY <2>2, SameErrors DEF Reason, q
<1>8. r \in [op : Tree!PathCalls, path : Parsed, ret : Tree!Errors, data : {<<>>}]
  BY <1>1, <1>3, <1>5
<1>9. r.path = q /\ r.ret = err /\ r.op = op
  BY <1>3
<1> HIDE DEF r
<1>10. r = [reply' EXCEPT !.path = Parse(@)]
  BY DEF r
<1> QED
  BY <1>4, <1>5, <1>6, <1>7, <1>8, <1>9, <1>10 DEF Tree!Refuse

\* When a path meets a file on its way, a path above it leads to that file.
LEMMA FileAbove ==
    ASSUME NEW d, NEW m, Sound(d, m)
    PROVE  \A q \in Seq(Names) : Translate(d, q) = ENOTDIR =>
              \E k \in 0 .. Len(q) : /\ Translate(d, SubSeq(q, 1, k)) >= 0
                                     /\ d[Translate(d, SubSeq(q, 1, k))].type = "file"
<1> DEFINE Found(q) == \E k \in 0 .. Len(q) : /\ Translate(d, SubSeq(q, 1, k)) >= 0
                                              /\ d[Translate(d, SubSeq(q, 1, k))].type = "file"
           G == {q \in Seq(Names) : Translate(d, q) = ENOTDIR => Found(q)}
<1>1. <<>> \in G
  BY TranslateRoot DEF RootInode, ENOTDIR
<1>2. ASSUME NEW q \in Seq(Names), NEW n \in Names, q \in G
      PROVE  Append(q, n) \in G
  <2> DEFINE r == Append(q, n)
             i == Translate(d, q)
  <2>1. r \in Seq(Names) /\ r # <<>> /\ Len(r) = Len(q) + 1 /\ \A k \in 1 .. Len(q) : r[k] = q[k]
    BY AppendFacts
  <2>2. Front(r) = q /\ Last(r) = n
    <3>1. Last(r) = n
      BY AppendFacts DEF Last
    <3>2. Front(r) \in Seq(Names) /\ Len(Front(r)) = Len(r) - 1
          /\ \A k \in 1 .. Len(r) - 1 : Front(r)[k] = r[k]
      BY <2>1, FrontLast
    <3> HIDE DEF r
    <3>3. Front(r) = q
      BY <2>1, <3>2
    <3> QED
      BY <3>1, <3>3
  <2>3. Translate(d, r) = Step(d, i, n)
    BY <2>1, <2>2, TranslateLast
  <2> HIDE DEF r
  <2>4. \A k \in 0 .. Len(q) : SubSeq(r, 1, k) = SubSeq(q, 1, k)
    BY <2>1
  <2>5. SubSeq(q, 1, Len(q)) = q /\ Len(q) \in 0 .. Len(q)
    OBVIOUS
  <2>6. i \in LiveIn(d, m) \cup {ENOENT, ENOTDIR} /\ i \in Int /\ (i >= 0 <=> i \in LiveIn(d, m))
    BY ResolveLive
  <2>7. /\ Translate(d, r) \in LiveIn(d, m) \cup {ENOENT, ENOTDIR}
        /\ Translate(d, r) >= 0 <=> Translate(d, r) \in LiveIn(d, m)
    BY <2>1, ResolveLive
  <2>8. ASSUME Found(q) PROVE Found(r)
    <3>1. PICK k \in 0 .. Len(q) : /\ Translate(d, SubSeq(q, 1, k)) >= 0
                                   /\ d[Translate(d, SubSeq(q, 1, k))].type = "file"
      BY <2>8
    <3>2. k \in 0 .. Len(r) /\ SubSeq(r, 1, k) = SubSeq(q, 1, k)
      BY <2>1, <2>4
    <3> QED
      BY <3>1, <3>2
  <2>9. ASSUME Translate(d, r) = ENOTDIR PROVE Found(r)
    <3>1. CASE i < 0
      BY <1>2, <2>3, <2>8, <2>9, <3>1 DEF Step
    <3>2. CASE i >= 0 /\ d[i].type = "file"
      <4>1. Found(q)
        BY <2>5, <3>2, Zenon
      <4> QED
        BY <2>8, <4>1
    <3>3. CASE i \in DirsIn(d, m)
      <4>1. IsDir(d, i) /\ ~(i < 0)
        BY <2>6, <3>3 DEF IsDir, IsInode, DirsIn, LiveIn
      <4>2. Matches(d, i, n) # {}
        BY <2>3, <2>9, <4>1 DEF Step, ENOENT, ENOTDIR
      <4>3. Translate(d, r) = To(d, i, Min(Matches(d, i, n)))
        BY <2>3, <4>1, <4>2 DEF Step, To
      <4>4. Min(Matches(d, i, n)) \in Slot(d, i)
        <5>1. Min(Matches(d, i, n)) \in Matches(d, i, n)
          BY <4>2, SlotProperty
        <5> QED
          BY <5>1 DEF Matches, UsedSlots, FreeSlots, Slot
      <4>5. Translate(d, r) \in LiveIn(d, m)
        BY <3>3, <4>3, <4>4 DEF Sound, EntriesLive
      <4> QED
        BY <2>7, <2>9, <4>5 DEF ENOTDIR
    <3>4. i \in LiveIn(d, m) => d[i].type \in {"file", "dir"}
      BY LiveInode DEF Inode
    <3> QED
      BY <2>6, <3>1, <3>2, <3>3, <3>4 DEF DirsIn
  <2> QED
    BY <2>1, <2>9 DEF r
<1> HIDE DEF G
<1>3. \A q \in Seq(Names) : q \in G
  BY <1>1, <1>2, PathInduction
<1> QED
  BY <1>3 DEF G

\* No error is given for a reason of its own but these five.
LEMMA NoReason ==
    ASSUME NEW op, NEW q, NEW err \in {EIO, EINVAL, ENOSPC}
    PROVE  Reason(op, q, err)
  BY DEF Reason, ENOENT, EIO, EEXIST, ENOTDIR, EISDIR, EINVAL, ENOSPC, ENOTEMPTY

\* A path that leads nowhere: translate() tells why.
LEMMA ResolveReason ==
    ASSUME SoundState, NEW op, NEW q \in Seq(Names), Translate(disk, q) < 0
    PROVE  Reason(op, q, Translate(disk, q))
<1>1. Translate(disk, q) \in {ENOENT, ENOTDIR}
  <2>1. /\ Translate(disk, q) \in LiveIn(disk, bitmap) \cup {ENOENT, ENOTDIR} /\ Translate(disk, q) \in Int
        /\ Translate(disk, q) >= 0 <=> Translate(disk, q) \in LiveIn(disk, bitmap)
    BY ResolveLive DEF SoundState
  <2> QED
    BY <2>1
<1>2. CASE Translate(disk, q) = ENOENT
  BY <1>2 DEF Reason, ENOENT, EIO, EEXIST, ENOTDIR, EISDIR, EINVAL, ENOSPC, ENOTEMPTY
<1>3. CASE Translate(disk, q) = ENOTDIR
  <2>1. \E k \in 0 .. Len(q) : /\ Translate(disk, SubSeq(q, 1, k)) >= 0
                               /\ disk[Translate(disk, SubSeq(q, 1, k))].type = "file"
    BY <1>3, FileAbove DEF SoundState
  <2>2. /\ ENOTDIR \in {ENOENT, EIO, EEXIST, ENOTDIR, EISDIR, EINVAL, ENOSPC, ENOTEMPTY}
        /\ ENOTDIR \notin {ENOENT, EEXIST, EISDIR, ENOTEMPTY}
    BY DEF ENOENT, EIO, EEXIST, ENOTDIR, EISDIR, EINVAL, ENOSPC, ENOTEMPTY
  <2> QED
    BY <1>3, <2>1, <2>2 DEF Reason
<1> QED
  BY <1>1, <1>2, <1>3

\* ENOTDIR of a path that leads to a file.
LEMMA NotDirReason ==
    ASSUME NEW op, NEW q \in Seq(Names), Translate(disk, q) >= 0, disk[Translate(disk, q)].type = "file"
    PROVE  Reason(op, q, ENOTDIR)
<1>1. SubSeq(q, 1, Len(q)) = q /\ Len(q) \in 0 .. Len(q)
  OBVIOUS
<1>2. \E k \in 0 .. Len(q) : /\ Translate(disk, SubSeq(q, 1, k)) >= 0
                             /\ disk[Translate(disk, SubSeq(q, 1, k))].type = "file"
  BY <1>1
<1>3. /\ ENOTDIR \in {ENOENT, EIO, EEXIST, ENOTDIR, EISDIR, EINVAL, ENOSPC, ENOTEMPTY}
      /\ ENOTDIR \notin {ENOENT, EEXIST, EISDIR, ENOTEMPTY}
  BY DEF ENOENT, EIO, EEXIST, ENOTDIR, EISDIR, EINVAL, ENOSPC, ENOTEMPTY
<1> QED
  BY <1>2, <1>3 DEF Reason

\* What is not a directory is a file, and the other way round.
LEMMA FileOrDir ==
    ASSUME SoundState, NEW q \in Seq(Names), Translate(disk, q) >= 0
    PROVE  /\ Translate(disk, q) \in LiveIn(disk, bitmap)
           /\ IsDir(disk, Translate(disk, q)) <=> disk[Translate(disk, q)].type = "dir"
           /\ IsFile(disk, Translate(disk, q)) <=> disk[Translate(disk, q)].type = "file"
           /\ disk[Translate(disk, q)].type \in {"file", "dir"}
<1> DEFINE i == Translate(disk, q)
<1>1. i \in LiveIn(disk, bitmap)
  BY ResolveLive DEF SoundState
<1> HIDE DEF i
<1>2. disk[i].kind = "inode" /\ disk[i].type \in {"file", "dir"}
  BY <1>1, LiveInode DEF SoundState, Inode
<1> QED
  BY <1>1, <1>2 DEF i, IsDir, IsFile, IsInode

\* A call on a regular file.
LEMMA FileReason ==
    ASSUME SoundState, NEW op, NEW path \in Seq(Names), ResolveFile(path) < 0
    PROVE  Reason(op, Parse(path), ResolveFile(path))
<1> DEFINE q == Parse(path)
<1>1. q \in Seq(Names)
  BY ParseProperty
<1>2. ResolveFile(path) = IF Translate(disk, q) >= 0 /\ ~IsFile(disk, Translate(disk, q))
                          THEN EISDIR ELSE Translate(disk, q)
  BY DEF ResolveFile, Resolve
<1> HIDE DEF q
<1>3. CASE Translate(disk, q) >= 0 /\ ~IsFile(disk, Translate(disk, q))
  <2>1. disk[Translate(disk, q)].type = "dir"
    BY <1>1, <1>3, FileOrDir
  <2>2. Reason(op, q, EISDIR)
    BY <1>3, <2>1 DEF Reason, ENOENT, EIO, EEXIST, ENOTDIR, EISDIR, EINVAL, ENOSPC, ENOTEMPTY
  <2> QED
    BY <1>2, <1>3, <2>2 DEF q
<1>4. CASE ~(Translate(disk, q) >= 0 /\ ~IsFile(disk, Translate(disk, q)))
  <2>1. ResolveFile(path) = Translate(disk, q)
    BY <1>2, <1>4
  <2>2. Reason(op, q, Translate(disk, q))
    BY <1>1, <2>1, ResolveReason
  <2> QED
    BY <2>1, <2>2 DEF q
<1> QED
  BY <1>3, <1>4

\* The early returns of create and mkdir.
LEMMA CreateReason ==
    ASSUME SoundState, NEW op, NEW path \in Seq(Names), path # <<>>, NEW n \in Int, CreateStatus(path, n) < 0
    PROVE  Reason(op, Parse(path), CreateStatus(path, n))
<1> DEFINE q == Parse(path)
           p == ResolveParent(path)
           err == CreateStatus(path, n)
<1>1. q \in Seq(Names) /\ q # <<>> /\ Front(q) \in Seq(Names)
  BY ParseProperty, FrontLast
<1>2. p = Translate(disk, Front(q)) /\ Leaf(path) = Last(q)
  BY <1>1 DEF ResolveParent, TranslateParent, Leaf
<1>3. Translate(disk, q) = Step(disk, p, Leaf(path))
  BY <1>1, <1>2, TranslateLast
<1>4. p \in Int /\ (p >= 0 => p \in LiveIn(disk, bitmap))
  BY ResolveBelow
<1>5. err = IF p < 0 THEN p
            ELSE IF ~IsDir(disk, p) THEN ENOTDIR
            ELSE IF Matches(disk, p, Leaf(path)) # {} THEN EEXIST
            ELSE IF FreeSlots(disk, p) = {} THEN ENOSPC
            ELSE IF FirstFree(bitmap, n) = {} THEN ENOSPC
            ELSE OK
  BY DEF CreateStatus
<1> HIDE DEF q, p, err
<1>6. CASE p < 0 \/ ~IsDir(disk, p)
  <2>1. Translate(disk, q) = err /\ err < 0
    BY <1>3, <1>4, <1>5, <1>6 DEF Step, ENOTDIR
  <2>2. Reason(op, q, Translate(disk, q))
    BY <1>1, <2>1, ResolveReason
  <2> QED
    BY <2>1, <2>2 DEF q, err
<1>7. CASE ~(p < 0) /\ IsDir(disk, p) /\ Matches(disk, p, Leaf(path)) # {}
  <2> DEFINE s == Min(Matches(disk, p, Leaf(path)))
  <2>1. err = EEXIST /\ Translate(disk, q) = To(disk, p, s)
    BY <1>3, <1>5, <1>7 DEF Step, To
  <2>2. s \in Slot(disk, p)
    <3>1. s \in Matches(disk, p, Leaf(path))
      BY <1>7, SlotProperty
    <3> QED
      BY <3>1 DEF Matches, UsedSlots, FreeSlots, Slot
  <2> HIDE DEF s
  <2>3. p \in DirsIn(disk, bitmap)
    BY <1>4, <1>7 DEF DirsIn, IsDir
  <2>4. To(disk, p, s) \in LiveIn(disk, bitmap)
    BY <2>2, <2>3 DEF SoundState, Sound, EntriesLive
  <2>5. Translate(disk, q) >= 0
    BY <1>1, <2>1, <2>4, ResolveLive DEF SoundState
  <2>6. Reason(op, q, EEXIST)
    BY <2>5 DEF Reason, ENOENT, EIO, EEXIST, ENOTDIR, EISDIR, EINVAL, ENOSPC, ENOTEMPTY
  <2> QED
    BY <2>1, <2>6 DEF q, err
<1>8. CASE ~(p < 0) /\ IsDir(disk, p) /\ Matches(disk, p, Leaf(path)) = {}
  <2>1. err \in {ENOSPC, OK}
    BY <1>5, <1>8
  <2>2. err \in {EIO, EINVAL, ENOSPC}
    BY <2>1 DEF OK, err
  <2> QED
    BY <2>2, NoReason DEF q, err
<1> QED
  BY <1>6, <1>7, <1>8

\* Where the entries of a directory lead: a path with their name at the end.
LEMMA EntryPath ==
    ASSUME TreeState, NEW q \in Seq(Names), Translate(disk, q) \in DirsIn(disk, bitmap),
           NEW s \in Slot(disk, Translate(disk, q))
    PROVE  \E r \in Seq(Names) : Translate(disk, r) >= 0 /\ Above(q, r) /\ r # q
<1> DEFINE i == Translate(disk, q)
           n == NameAt(disk, i, s)
           r == Append(q, n)
           j == To(disk, i, s)
<1>1. Walkable(disk, bitmap) /\ Sound(disk, bitmap)
  BY DEF TreeState, SoundState, Walkable
<1>2. n \in Names
  <2>1. Typed(disk, bitmap) /\ disk[i].ptrs[0] \in Blocks
    BY <1>1, DirBlockOf DEF Sound
  <2>2. Entries(disk, i)[s] \in Entry
    BY <2>1, EntriesType
  <2> QED
    BY <2>2 DEF Entry, NameAt
<1>3. Reach(disk, q, i)
  <2>1. i \in LiveIn(disk, bitmap)
    BY DEF DirsIn
  <2> QED
    BY <1>1, <2>1, ResolveLive DEF Reach
<1>4. Child(disk, bitmap, i, n, j)
  BY DEF Child
<1> HIDE DEF i, n, j
<1>5. Reach(disk, r, j)
  BY <1>1, <1>2, <1>3, <1>4, ReachAppend
<1>6. r \in Seq(Names) /\ Len(r) = Len(q) + 1 /\ \A k \in 1 .. Len(q) : r[k] = q[k]
  BY <1>2, AppendFacts
<1> HIDE DEF r
<1>7. Len(q) \in Nat
  OBVIOUS
<1>8. Above(q, r) /\ r # q
  BY <1>6, <1>7 DEF Above
<1> QED
  BY <1>5, <1>6, <1>8 DEF Reach

\* The early returns of rmdir.
LEMMA RmdirReason ==
    ASSUME TreeState, NEW op, NEW path \in Seq(Names), RmdirStatus(path) < 0
    PROVE  Reason(op, Parse(path), RmdirStatus(path))
<1> DEFINE q == Parse(path)
           i == Translate(disk, q)
           err == RmdirStatus(path)
<1>1. q \in Seq(Names) /\ SoundState
  BY ParseProperty DEF TreeState
<1>2. err = IF i < 0 THEN i
            ELSE IF ~IsDir(disk, i) THEN ENOTDIR
            ELSE IF FreeSlots(disk, i) = {} THEN ENOSPC
            ELSE IF Min(FreeSlots(disk, i)) # 0 THEN ENOTEMPTY
            ELSE OK
  BY DEF RmdirStatus, Resolve
<1>3. i \in Int
  BY <1>1, ResolveLive DEF SoundState
<1> HIDE DEF q, i, err
<1>4. CASE i < 0
  BY <1>1, <1>2, <1>4, ResolveReason DEF q, i, err
<1>5. CASE i >= 0 /\ ~IsDir(disk, i)
  <2>1. disk[i].type = "file" /\ err = ENOTDIR
    BY <1>1, <1>2, <1>3, <1>5, FileOrDir DEF i
  <2>2. Reason(op, q, ENOTDIR)
    BY <1>1, <1>5, <2>1, NotDirReason DEF i
  <2> QED
    BY <2>1, <2>2 DEF q, err
<1>6. CASE i >= 0 /\ IsDir(disk, i) /\ FreeSlots(disk, i) = {}
  <2>1. err = ENOSPC
    BY <1>2, <1>3, <1>6
  <2> QED
    BY <2>1, NoReason DEF q, err
<1>7. CASE i >= 0 /\ IsDir(disk, i) /\ FreeSlots(disk, i) # {}
  <2>1. err \in {ENOTEMPTY, OK} /\ (err = ENOTEMPTY => Min(FreeSlots(disk, i)) # 0)
    BY <1>2, <1>3, <1>7 DEF OK, ENOTEMPTY
  <2>2. err = ENOTEMPTY
    BY <2>1 DEF OK, err
  <2>3. FreeSlots(disk, i) \in SUBSET Nat
    BY LayoutAssumption DEF FreeSlots, Slots
  <2>4. Min(FreeSlots(disk, i)) \in FreeSlots(disk, i) /\ \A y \in FreeSlots(disk, i) : Min(FreeSlots(disk, i)) <= y
    BY <1>7, <2>3, MinProperty
  <2>5. 0 \notin FreeSlots(disk, i)
    BY <2>1, <2>2, <2>3, <2>4
  <2>6. 0 \in Slot(disk, i)
    BY <2>5, LayoutAssumption DEF FreeSlots, Slot, Slots
  <2>7. i \in DirsIn(disk, bitmap)
    BY <1>1, <1>7, FileOrDir DEF i, DirsIn
  <2>8. \E r \in Seq(Names) : Translate(disk, r) >= 0 /\ Above(q, r) /\ r # q
    BY <1>1, <2>6, <2>7, EntryPath DEF i
  <2>9. Reason(op, q, ENOTEMPTY)
    BY <2>8 DEF Reason, ENOENT, EIO, EEXIST, ENOTDIR, EISDIR, EINVAL, ENOSPC, ENOTEMPTY
  <2> QED
    BY <2>2, <2>9 DEF q, err
<1> QED
  BY <1>3, <1>4, <1>5, <1>6, <1>7

\* The early returns of rename: only those of its first path have a reason there.
LEMMA RenameReason ==
    ASSUME SoundState, NEW src \in Seq(Names), NEW dst \in Seq(Names), RenameStatus(src, dst) < 0
    PROVE  Reason("rename", Parse(src), RenameStatus(src, dst))
<1> DEFINE q == Parse(src)
           err == RenameStatus(src, dst)
<1>1. q \in Seq(Names)
  BY ParseProperty
<1>2. CASE Resolve(src) < 0
  <2>1. err = Translate(disk, q) /\ Translate(disk, q) < 0
    BY <1>2 DEF RenameStatus, Resolve
  <2> QED
    BY <1>1, <2>1, ResolveReason
<1>3. CASE ~(Resolve(src) < 0)
  <2>1. err \in {EEXIST, EINVAL, OK}
    BY <1>3 DEF RenameStatus
  <2>2. err \in {EEXIST, EINVAL}
    BY <2>1 DEF OK
  <2>3. Reason("rename", q, EEXIST)
    BY DEF Reason, ENOENT, EIO, EEXIST, ENOTDIR, EISDIR, EINVAL, ENOSPC, ENOTEMPTY
  <2> QED
    BY <2>2, <2>3, NoReason
<1> QED
  BY <1>2, <1>3

\* The early returns of truncate, read, write and readdir.
LEMMA ContentReason ==
    ASSUME SoundState, NEW op, NEW path \in Seq(Names)
    PROVE  /\ \A len \in Int : TruncateStatus(path, len) < 0 => Reason(op, Parse(path), TruncateStatus(path, len))
           /\ \A offset \in Nat, len \in Nat \ {0} :
                 /\ ReadStatus(path, offset, len) < 0 => Reason(op, Parse(path), ReadStatus(path, offset, len))
                 /\ WriteStatus(path, offset, len) < 0 => Reason(op, Parse(path), WriteStatus(path, offset, len))
           /\ ReaddirStatus(path) < 0 => Reason(op, Parse(path), ReaddirStatus(path))
<1> DEFINE q == Parse(path)
           i == ResolveFile(path)
<1>1. q \in Seq(Names)
  BY ParseProperty
<1>2. i \in Int /\ (i >= 0 => disk[i].size \in Nat)
  BY ResolvePath, LiveInode DEF SoundState
<1>3. i < 0 => Reason(op, q, i)
  BY FileReason
<1>4. ASSUME NEW len \in Int, TruncateStatus(path, len) < 0
      PROVE  Reason(op, q, TruncateStatus(path, len))
  <2>1. TruncateStatus(path, len) \in {EINVAL, OK} \/ (i < 0 /\ TruncateStatus(path, len) = i)
    BY DEF TruncateStatus
  <2>2. TruncateStatus(path, len) = EINVAL \/ (i < 0 /\ TruncateStatus(path, len) = i)
    BY <1>4, <2>1 DEF OK
  <2> QED
    BY <1>3, <2>2, NoReason
<1>5. ASSUME NEW offset \in Nat, NEW len \in Nat \ {0}, ReadStatus(path, offset, len) < 0
      PROVE  Reason(op, q, ReadStatus(path, offset, len))
  <2>1. CASE i < 0
    <3>1. ReadStatus(path, offset, len) = i
      BY <2>1 DEF ReadStatus
    <3> QED
      BY <1>3, <2>1, <3>1
  <2>2. CASE ~(i < 0)
    <3>1. ReadStatus(path, offset, len) = EIO
      <4> DEFINE stuck == \E k \in ReadIdx(disk[i].size, offset, len) : disk[i].ptrs[k] \notin Blocks
      <4>1. ReadStatus(path, offset, len) = IF i < 0 THEN i
                                            ELSE IF offset >= disk[i].size THEN 0
                                            ELSE IF stuck THEN EIO
                                            ELSE IF offset + len > disk[i].size THEN disk[i].size - offset
                                            ELSE len
        BY DEF ReadStatus
      <4> HIDE DEF stuck, i
      <4> QED
        BY <1>2, <1>5, <2>2, <4>1
    <3> QED
      BY <3>1, NoReason
  <2> QED
    BY <2>1, <2>2
<1>6. ASSUME NEW offset \in Nat, NEW len \in Nat \ {0}, WriteStatus(path, offset, len) < 0
      PROVE  Reason(op, q, WriteStatus(path, offset, len))
  <2>1. WriteStatus(path, offset, len) \in {EINVAL, ENOSPC, OK} \/ (i < 0 /\ WriteStatus(path, offset, len) = i)
    BY DEF WriteStatus
  <2>2. WriteStatus(path, offset, len) \in {EINVAL, ENOSPC} \/ (i < 0 /\ WriteStatus(path, offset, len) = i)
    BY <1>6, <2>1 DEF OK
  <2> QED
    BY <1>3, <2>2, NoReason
<1>7. ASSUME ReaddirStatus(path) < 0
      PROVE  Reason(op, q, ReaddirStatus(path))
  <2>1. CASE Translate(disk, q) >= 0 /\ ~IsDir(disk, Translate(disk, q))
    <3>1. ReaddirStatus(path) = ENOTDIR
      BY <2>1 DEF ReaddirStatus, Resolve
    <3>2. disk[Translate(disk, q)].type = "file"
      BY <1>1, <2>1, FileOrDir
    <3> QED
      BY <1>1, <2>1, <3>1, <3>2, NotDirReason
  <2>2. CASE ~(Translate(disk, q) >= 0 /\ ~IsDir(disk, Translate(disk, q)))
    <3>1. ReaddirStatus(path) = Translate(disk, q)
      BY <2>2 DEF ReaddirStatus, Resolve
    <3> QED
      BY <1>1, <1>7, <3>1, ResolveReason
  <2> QED
    BY <2>1, <2>2
<1> QED
  BY <1>4, <1>5, <1>6, <1>7

\* Every early return is one that the tree allows.
LEMMA FailTree ==
    ASSUME TreeState, EveryPath, NEW path \in Paths, NEW op, NEW err, Fail(op, path, err),
           \/ op \in {"create", "mkdir"} /\ path # <<>> /\ \E n \in Int : err = CreateStatus(path, n)
           \/ op \in {"unlink", "chmod", "getattr"} /\ err = Resolve(path)
           \/ op = "rmdir" /\ err = RmdirStatus(path)
           \/ op = "rename" /\ \E dst \in Paths : err = RenameStatus(path, dst)
           \/ op = "utime" /\ err = ResolveFile(path)
           \/ op = "truncate" /\ \E len \in Int : err = TruncateStatus(path, len)
           \/ op = "read" /\ \E offset \in Nat, len \in Nat \ {0} : err = ReadStatus(path, offset, len)
           \/ op = "write" /\ \E offset \in Nat, len \in Nat \ {0} : err = WriteStatus(path, offset, len)
           \/ op = "readdir" /\ err = ReaddirStatus(path)
    PROVE  Tree!Refuse
<1>1. path \in Seq(Names) /\ Parse(path) \in Seq(Names) /\ SoundState /\ err < 0
  BY PathTyped DEF TreeState, Fail
<1>2. \A dst \in Paths : dst \in Seq(Names)
  BY PathTyped
<1>3. op \in Tree!PathCalls
  BY DEF Tree!PathCalls
<1>4. CASE op \in {"create", "mkdir"} /\ path # <<>> /\ \E n \in Int : err = CreateStatus(path, n)
  BY <1>1, <1>3, <1>4, CreateReason, FailRefuses
<1>5. CASE op \in {"unlink", "chmod", "getattr"} /\ err = Resolve(path)
  BY <1>1, <1>3, <1>5, ResolveReason, FailRefuses DEF Resolve
<1>6. CASE op = "rmdir" /\ err = RmdirStatus(path)
  BY <1>1, <1>3, <1>6, RmdirReason, FailRefuses
<1>7. CASE op = "rename" /\ \E dst \in Paths : err = RenameStatus(path, dst)
  BY <1>1, <1>2, <1>3, <1>7, RenameReason, FailRefuses
<1>8. CASE op = "utime" /\ err = ResolveFile(path)
  BY <1>1, <1>3, <1>8, FileReason, FailRefuses
<1>9. CASE \/ op = "truncate" /\ \E len \in Int : err = TruncateStatus(path, len)
           \/ op = "read" /\ \E offset \in Nat, len \in Nat \ {0} : err = ReadStatus(path, offset, len)
           \/ op = "write" /\ \E offset \in Nat, len \in Nat \ {0} : err = WriteStatus(path, offset, len)
           \/ op = "readdir" /\ err = ReaddirStatus(path)
  <2>1. Reason(op, Parse(path), err)
    BY <1>1, <1>9, ContentReason, ZenonT(60)
  <2> QED
    BY <1>3, <2>1, FailRefuses
<1> QED
  BY <1>4, <1>5, <1>6, <1>7, <1>8, <1>9

-----------------------------------------------------------------------------
(* Calls that only read                                                    *)

\* The bytes of an object.
LEMMA DataOf ==
    ASSUME SoundState, NEW i \in LiveIn(disk, bitmap), disk[i].type = "file"
    PROVE  /\ NodeIn(disk, i).data \in Seq(Byte) /\ Len(NodeIn(disk, i).data) = disk[i].size
           /\ \A n \in 1 .. disk[i].size : NodeIn(disk, i).data[n] = ByteAt(i, n - 1)
<1> DEFINE size == disk[i].size
           data == [n \in 1 .. size |-> ByteAt(i, n - 1)]
<1>1. size \in Nat /\ IsFile(disk, i)
  BY LiveInode DEF SoundState, IsFile, IsInode
<1>2. NodeIn(disk, i).data = data
  BY <1>1 DEF NodeIn, ByteAt
<1>3. \A n \in 1 .. size : ByteAt(i, n - 1) \in Byte
  BY <1>1, ByteRead
<1>4. data \in [1 .. size -> Byte] /\ \A n \in 1 .. size : data[n] = ByteAt(i, n - 1)
  BY <1>3
<1> HIDE DEF size, data
<1>5. data \in Seq(Byte) /\ Len(data) = size
  BY <1>1, <1>4
<1> QED
  BY <1>2, <1>4, <1>5 DEF size

\* What SubSeq takes out of a sequence.
LEMMA PartOf ==
    ASSUME NEW T, NEW q \in Seq(T), NEW k \in Nat, NEW end \in Nat, end <= Len(q)
    PROVE  LET part == SubSeq(q, k + 1, end)
               size == IF end > k THEN end - k ELSE 0
           IN  /\ part \in Seq(T) /\ Len(part) = size /\ part = [n \in 1 .. size |-> part[n]]
               /\ \A n \in 1 .. size : part[n] = q[k + n]
<1> DEFINE part == SubSeq(q, k + 1, end)
<1>1. CASE end > k
  <2>1. part \in Seq(T) /\ Len(part) = end - k /\ \A n \in 1 .. end - k : part[n] = q[k + n]
    BY <1>1
  <2>2. part = [n \in 1 .. Len(part) |-> part[n]]
    BY <2>1
  <2> QED
    BY <1>1, <2>1, <2>2
<1>2. CASE ~(end > k)
  <2>1. part = <<>>
    BY <1>2
  <2> QED
    BY <1>2, <2>1
<1> QED
  BY <1>1, <1>2

\* getattr, readdir, statfs and a mount do nothing to the tree.
LEMMA LookTree ==
    ASSUME TreeState, EveryPath,
           (\E path \in Paths : Getattr(path) \/ Readdir(path)) \/ Statfs \/ Mount
    PROVE  Tree!Next
<1>1. SoundState
  BY DEF TreeState
<1>2. disk' = disk => tree' = tree
  BY TreeIsTreeIn
<1>3. ASSUME NEW path \in Paths, Getattr(path) PROVE Tree!Next
  <2>1. CASE Fail("getattr", path, Resolve(path))
    BY <2>1, FailTree DEF Tree!Next
  <2>2. CASE ~Fail("getattr", path, Resolve(path))
    <3> DEFINE q == Parse(path)
    <3>1. Resolve(path) >= 0 /\ Reply("getattr", path, OK) /\ disk' = disk
      BY <1>3, <2>2 DEF Getattr, Done
    <3>2. q \in Parsed /\ q \in Seq(Names)
      BY PathTyped DEF Parsed
    <3>3. Tree!Exists(q)
      BY <3>1, <3>2, TreeTests DEF Resolve
    <3>4. Tree!Answer("getattr", q, Tree!OK)
      BY <3>1, SameAnswer, SameErrors
    <3> HIDE DEF q
    <3>5. Tree!Look(q, "getattr")
      BY <1>2, <3>1, <3>3, <3>4 DEF Tree!Look
    <3> QED
      BY <3>2, <3>5 DEF Tree!Next
  <2> QED
    BY <2>1, <2>2
<1>4. ASSUME NEW path \in Paths, Readdir(path) PROVE Tree!Next
  <2>1. CASE Fail("readdir", path, ReaddirStatus(path))
    BY <2>1, FailTree DEF Tree!Next
  <2>2. CASE ~Fail("readdir", path, ReaddirStatus(path))
    <3> DEFINE q == Parse(path)
    <3>1. ReaddirStatus(path) >= 0 /\ Reply("readdir", path, OK) /\ disk' = disk
      BY <1>4, <2>2 DEF Readdir, Done
    <3>2. q \in Parsed /\ q \in Seq(Names)
      BY PathTyped DEF Parsed
    <3>3. Translate(disk, q) >= 0 /\ IsDir(disk, Translate(disk, q))
      BY <3>1 DEF ReaddirStatus, Resolve, ENOTDIR
    <3>4. Tree!Exists(q) /\ Tree!IsDir(q)
      BY <1>1, <3>2, <3>3, TreeTests, FileOrDir
    <3>5. Tree!Answer("readdir", q, Tree!OK)
      BY <3>1, SameAnswer, SameErrors
    <3> HIDE DEF q
    <3>6. Tree!Look(q, "readdir")
      BY <1>2, <3>1, <3>4, <3>5 DEF Tree!Look
    <3> QED
      BY <3>2, <3>6 DEF Tree!Next
  <2> QED
    BY <2>1, <2>2
<1>5. Parse(<<>>) = <<>>
  BY LayoutAssumption DEF Parse
<1>6. ASSUME Statfs PROVE Tree!Next
  <2>1. Reply("statfs", <<>>, OK) /\ disk' = disk
    BY <1>6 DEF Statfs, Done
  <2>2. Tree!Answer("statfs", <<>>, Tree!OK)
    BY <1>5, <2>1, SameAnswer, SameErrors
  <2> QED
    BY <1>2, <2>1, <2>2 DEF Tree!Next, Tree!Idle
<1>7. ASSUME Mount PROVE Tree!Next
  <2>1. Reply("init", <<>>, OK) /\ disk' = disk
    BY <1>7 DEF Mount, Done
  <2>2. Tree!Answer("init", <<>>, Tree!OK)
    BY <1>5, <2>1, SameAnswer, SameErrors
  <2> QED
    BY <1>2, <2>1, <2>2 DEF Tree!Next, Tree!Idle
<1> QED
  BY <1>3, <1>4, <1>6, <1>7

\* read answers with the bytes of the file, or fails.
LEMMA ReadTree ==
    ASSUME TreeState, EveryPath, NEW path \in Paths, NEW offset \in IoOffsets, NEW len \in IoLens,
           Read(path, offset, len)
    PROVE  Tree!Next
<1> DEFINE q == Parse(path)
           i == ResolveFile(path)
           ret == ReadStatus(path, offset, len)
           size == disk[i].size
           data == NodeIn(disk, i).data
           end == IF offset + len < Len(data) THEN offset + len ELSE Len(data)
           got == SubSeq(data, offset + 1, end)
           want == [n \in 1 .. ret |-> ByteAt(i, offset + n - 1)]
<1>1. SoundState /\ offset \in Nat /\ len \in Nat \ {0}
  BY ClientAssumption DEF TreeState
<1>2. q \in Parsed /\ q \in Seq(Names) /\ path \in Seq(Names)
  BY PathTyped DEF Parsed
<1>3. CASE Fail("read", path, ret)
  BY <1>1, <1>3, FailTree DEF Tree!Next
<1>4. CASE ~Fail("read", path, ret)
  <2>1. /\ ret >= 0 /\ disk' = disk
        /\ reply' = [op |-> "read", path |-> path, ret |-> ret,
                     data |-> [n \in 1 .. ret |-> ByteAt(i, offset + n - 1)]]
    BY <1>4 DEF Read
  <2>2. i \in Int /\ (i >= 0 => i \in LiveIn(disk, bitmap) /\ disk[i].type = "file" /\ size \in Nat)
    BY <1>1, <1>2, ResolvePath, LiveInode DEF SoundState
  <2>3. /\ i >= 0
        /\ ret = IF offset >= size THEN 0 ELSE IF offset + len > size THEN size - offset ELSE len
    <3> DEFINE stuck == \E k \in ReadIdx(size, offset, len) : disk[i].ptrs[k] \notin Blocks
    <3>1. ret = IF i < 0 THEN i
                ELSE IF offset >= size THEN 0
                ELSE IF stuck THEN EIO
                ELSE IF offset + len > size THEN size - offset
                ELSE len
      BY DEF ReadStatus
    <3> HIDE DEF stuck, i, ret, size
    <3> QED
      BY <2>1, <2>2, <3>1 DEF EIO
  <2>4. /\ data \in Seq(Byte) /\ Len(data) = size
        /\ \A n \in 1 .. size : data[n] = ByteAt(i, n - 1)
    BY <1>1, <2>2, <2>3, DataOf
  <2>5. Translate(disk, q) = i /\ IsFile(disk, i)
    BY <2>3 DEF ResolveFile, Resolve, EISDIR
  <2>6. Tree!IsFile(q) /\ tree[q] = NodeIn(disk, i)
    <3>1. Tree!IsFile(q)
      BY <1>1, <1>2, <2>2, <2>3, <2>5, TreeTests
    <3>2. tree[q] = NodeIn(disk, i)
      BY <1>2, <2>3, <2>5, TreeIsTreeIn, TreeInFacts DEF TreeState, Reach
    <3> QED
      BY <3>1, <3>2
  <2>7. reply' = [op |-> "read", path |-> path, ret |-> ret, data |-> want]
    BY <2>1
  <2>8. ret \in Nat /\ want = [n \in 1 .. ret |-> want[n]] /\ \A n \in 1 .. ret : want[n] = ByteAt(i, offset + n - 1)
    BY <2>1, <2>2, <2>3, <1>1
  <2> HIDE DEF i, data, ret, size, want
  <2>9. /\ size \in Nat /\ end \in Nat /\ end <= size
        /\ ret = (IF end > offset THEN end - offset ELSE 0)
    BY <1>1, <2>2, <2>3, <2>4
  <2> HIDE DEF end
  <2>10. /\ Len(got) = ret /\ got = [n \in 1 .. ret |-> got[n]]
         /\ \A n \in 1 .. ret : got[n] = data[offset + n]
    BY <1>1, <2>4, <2>9, PartOf
  <2> HIDE DEF got
  <2>11. \A n \in 1 .. ret : got[n] = want[n]
    <3> SUFFICES ASSUME NEW n \in 1 .. ret PROVE got[n] = want[n]
      OBVIOUS
    <3>1. offset + n \in 1 .. size /\ n \in Int
      BY <1>1, <2>8, <2>9
    <3>2. data[offset + n] = ByteAt(i, offset + n - 1)
      BY <1>1, <2>4, <3>1
    <3> QED
      BY <2>8, <2>10, <3>2
  <2>12. got = want /\ Len(got) = ret
    BY <2>8, <2>10, <2>11
  <2>13. [reply' EXCEPT !.path = Parse(@)] = [op |-> "read", path |-> q, ret |-> Len(got), data |-> got]
    BY <2>7, <2>12
  <2>14. tree' = tree
    BY <2>1, TreeIsTreeIn
  <2>15. tree[q].data = data
    BY <2>6 DEF data
  <2> HIDE DEF q
  <2>16. Tree!Fetch(q, offset, len)
    BY <2>6, <2>13, <2>14, <2>15 DEF Tree!Fetch, got, end
  <2> QED
    BY <1>2, <2>16 DEF Tree!Next, q
<1> QED
  BY <1>3, <1>4

-----------------------------------------------------------------------------
(* What a change of the image does to the tree                             *)

\* What is left on the disk has the entries and the objects of the image.
LEMMA LeavesTree ==
    ASSUME NEW image, NEW used, Sound(image, used), Leaves(image), bitmap' = used
    PROVE  /\ \A i, n, j : Child(disk', bitmap', i, n, j) <=> Child(image, used, i, n, j)
           /\ \A j \in LiveIn(image, used) : NodeIn(disk', j) = NodeIn(image, j)
<1>1. /\ DirsIn(disk', bitmap') = DirsIn(image, used)
      /\ \A i \in LiveIn(image, used) : disk'[i] = image[i]
      /\ \A i \in LiveIn(image, used) : \A k \in DataIdx(image[i]) :
            disk'[image[i].ptrs[k]] = image[image[i].ptrs[k]]
      /\ \A i \in DirsIn(image, used) : Entries(disk', i) = Entries(image, i)
  BY LeavesSame
<1>2. \A j \in LiveIn(image, used) : NodeIn(disk', j) = NodeIn(image, j)
  BY <1>1, NodeSame
<1> QED
  BY <1>1, <1>2, SameChild

\* Where paths lead, from the walk: a path of the tree is one that leads somewhere.
LEMMA Leads == \A d, q : Translate(d, q) >= 0 <=> \E j : Reach(d, q, j)
  BY DEF Reach

\* The tree with one object more.
WithNode(q, node) == [r \in DOMAIN tree \cup {q} |-> IF r = q THEN node ELSE tree[r]]

\* A new object is a new path of the tree; all others stay what they are.
LEMMA AddTree ==
    ASSUME TreeState, EveryPath, Walkable(disk', bitmap'), NEW path \in Paths, path # <<>>,
           NEW image, NEW s, NEW n, NEW N, Leaves(image), bitmap' = bitmap \cup N,
           Linking(disk, bitmap, image, ResolveParent(path), s, [name |-> Leaf(path), inode |-> n], N),
           FreshName(disk, ResolveParent(path), Leaf(path))
    PROVE  LET q == Parse(path) IN
           /\ Named(disk') /\ q \in Parsed /\ q # <<>> /\ ~Tree!Exists(q) /\ Tree!IsDir(Tree!Front(q))
           /\ tree' = WithNode(q, NodeIn(image, n))
<1> DEFINE q == Parse(path)
           p == ResolveParent(path)
           P == Front(q)
           a == Leaf(path)
           ent == [name |-> a, inode |-> n]
           used == bitmap \cup N
<1>1. /\ q \in Parsed /\ q \in Seq(Names) /\ q # <<>> /\ a = Last(q) /\ a \in Names
      /\ P \in Seq(Names) /\ q = Append(P, a) /\ p = Translate(disk, P)
  <2>1. q \in Parsed /\ q \in Seq(Names) /\ q # <<>>
    BY PathTyped, ParseProperty DEF Parsed
  <2> QED
    BY <2>1, FrontLast DEF Leaf, ResolveParent, TranslateParent
<1>2. Sound(disk, bitmap) /\ Walkable(disk, bitmap) /\ SoundState
  BY DEF TreeState, SoundState, Walkable
<1>3. Linking(disk, bitmap, image, p, s, ent, N) /\ ent.name = a /\ ent.inode = n
  OBVIOUS
<1> HIDE DEF q, p, P, a, ent
<1>4. p \in DirsIn(disk, bitmap) /\ p \in LiveIn(disk, bitmap) /\ Reach(disk, P, p)
  <2>1. p \in DirsIn(disk, bitmap) /\ p \in LiveIn(disk, bitmap)
    BY <1>3 DEF Linking, DirsIn
  <2> QED
    BY <1>1, <1>2, <2>1, ResolveLive DEF Reach
<1>5. Sound(image, used) /\ LiveIn(image, used) = LiveIn(disk, bitmap) \cup {n} /\ n \notin LiveIn(disk, bitmap)
  BY <1>2, <1>3, LinkSound, LinkLive, LinkNew
<1>6. OneMore(disk, bitmap, image, used, p, a, n)
  BY <1>2, <1>3, LinkChild
<1> HIDE DEF used
<1>7. OneMore(disk, bitmap, disk', bitmap', p, a, n)
  <2>1. \A i, c, j : Child(disk', bitmap', i, c, j) <=> Child(image, used, i, c, j)
    BY <1>5, LeavesTree DEF used
  <2> QED
    BY <1>6, <2>1 DEF OneMore
<1>8. \A r \in Seq(Names) : \A j : Reach(disk', r, j) <=> Reach(disk, r, j) \/ (r = q /\ j = n)
  <2>1. \A r \in Seq(Names) : \A j :
           Reach(disk', r, j) <=> Reach(disk, r, j) \/ (r = Append(P, a) /\ j = n)
    BY <1>1, <1>2, <1>4, <1>5, <1>7, LinkReach
  <2> QED
    BY <1>1, <2>1
<1>9. \A j : ~Reach(disk, q, j)
  <2> SUFFICES ASSUME NEW j, Reach(disk, q, j) PROVE FALSE
    OBVIOUS
  <2>1. \E i : Reach(disk, P, i) /\ Child(disk, bitmap, i, a, j)
    BY <1>1, <1>2, ReachAppend
  <2>2. Child(disk, bitmap, p, a, j)
    BY <1>4, <2>1 DEF Reach
  <2> QED
    BY <2>2 DEF Child, FreshName, a, p
<1>10. \A j \in LiveIn(disk, bitmap) : NodeIn(disk', j) = NodeIn(disk, j)
  <2> SUFFICES ASSUME NEW j \in LiveIn(disk, bitmap) PROVE NodeIn(disk', j) = NodeIn(disk, j)
    OBVIOUS
  <2>1. NodeIn(disk', j) = NodeIn(image, j)
    BY <1>5, LeavesTree DEF used
  <2>2. image[j] = disk[j]
    BY <1>3 DEF Linking, OnlyEntry
  <2>3. ASSUME disk[j].type = "file", NEW k \in DataIdx(disk[j])
        PROVE  image[disk[j].ptrs[k]] = disk[disk[j].ptrs[k]]
    <3>1. disk[j].ptrs[k] \in bitmap /\ disk[disk[j].ptrs[k]].kind = "data"
      BY <1>2, <2>3 DEF Sound, InodesFit
    <3>2. disk[disk[p].ptrs[0]].kind = "dir"
      BY <1>2, <1>4, DirBlockOf
    <3> QED
      BY <1>3, <3>1, <3>2 DEF Linking
  <2>4. NodeIn(image, j) = NodeIn(disk, j)
    BY <1>2, <2>2, <2>3, NodeSame
  <2> QED
    BY <2>1, <2>4
<1>11. NodeIn(disk', n) = NodeIn(image, n)
  BY <1>5, LeavesTree DEF used
<1>12. \A r \in Seq(Names) : Translate(disk', r) >= 0 <=> Translate(disk, r) >= 0 \/ r = q
  BY <1>8, Leads, Zenon
<1>13. Named(disk')
  BY <1>1, <1>12 DEF TreeState, Named
<1>14. \A r : r \in DOMAIN tree <=> r \in Seq(Names) /\ Translate(disk, r) >= 0
  BY TreeIsTreeIn, TreeInFacts DEF TreeState
<1> DEFINE D == DOMAIN tree \cup {q}
           f == [r \in D |-> IF r = q THEN NodeIn(image, n) ELSE tree[r]]
<1>15. \A r : r \in D <=> r \in Seq(Names) /\ Translate(disk', r) >= 0
  BY <1>1, <1>12, <1>14
<1>16. ASSUME NEW r \in D PROVE f[r] = NodeIn(disk', Translate(disk', r))
  <2>1. CASE r = q
    <3>1. Translate(disk', q) = n
      BY <1>1, <1>8 DEF Reach
    <3> QED
      BY <1>11, <2>1, <3>1
  <2>2. CASE r # q
    <3>1. r \in Seq(Names) /\ Reach(disk, r, Translate(disk, r))
      BY <1>14, <2>2 DEF Reach
    <3>2. Translate(disk', r) = Translate(disk, r)
      BY <1>8, <3>1 DEF Reach
    <3>3. Translate(disk, r) \in LiveIn(disk, bitmap)
      BY <1>2, <3>1, ReachOnce
    <3>4. tree[r] = NodeIn(disk, Translate(disk, r))
      BY <3>1, TreeIsTreeIn, TreeInFacts DEF TreeState
    <3> QED
      BY <1>10, <2>2, <3>2, <3>3, <3>4
  <2> QED
    BY <2>1, <2>2
<1>17. f = [r \in D |-> f[r]]
  OBVIOUS
<1> HIDE DEF D, f
<1>18. TreeIn(disk') = f
  BY <1>13, <1>15, <1>16, <1>17, SameTree
<1>19. ~Tree!Exists(q)
  BY <1>1, <1>9, TreeTests, Leads
<1>20. Tree!IsDir(P)
  <2>1. Translate(disk, P) >= 0 /\ disk[Translate(disk, P)].type = "dir"
    BY <1>1, <1>4 DEF Reach, DirsIn
  <2> QED
    BY <1>1, <2>1, TreeTests
<1>21. Tree!Front(q) = P
  BY DEF Tree!Front, P, Front
<1> QED
  BY <1>1, <1>13, <1>18, <1>19, <1>20, <1>21, TreeIsTreeIn DEF WithNode, q, f, D

\* A new file or directory holds no bytes.
LEMMA NewNode ==
    ASSUME NEW d, NEW n, NEW type \in {"file", "dir"}, NEW perm, NEW now, NEW ptr,
           d[n] = NewInode(type, perm, now, ptr)
    PROVE  NodeIn(d, n) = [type |-> type, perm |-> perm, mtime |-> now, data |-> <<>>]
<1>1. /\ d[n].kind = "inode" /\ d[n].type = type /\ d[n].perm = perm /\ d[n].mtime = now
      /\ type = "file" => d[n].size = 0
  BY DEF NewInode
<1>2. CASE type = "file"
  <2>1. IsFile(d, n) /\ d[n].size = 0
    BY <1>1, <1>2 DEF IsFile, IsInode
  <2>2. [x \in 1 .. d[n].size |-> RawBytes(d[d[n].ptrs[(x - 1) \div BlockSize]])[(x - 1) % BlockSize]] = <<>>
    BY <2>1
  <2> QED
    BY <1>1, <2>1, <2>2 DEF NodeIn
<1>3. CASE type = "dir"
  <2>1. ~IsFile(d, n)
    BY <1>1, <1>3 DEF IsFile
  <2> QED
    BY <1>1, <2>1 DEF NodeIn
<1> QED
  BY <1>2, <1>3

\* What is left of a create or mkdir that goes through, given that it linked this object.
LEMMA AddNext ==
    ASSUME TreeState, EveryPath, Walkable(disk', bitmap'), NEW path \in Paths, path # <<>>,
           NEW perm \in Perms, NEW now \in Times, NEW op, NEW type, NEW k \in Int,
           <<op, type>> \in {<<"create", "file">>, <<"mkdir", "dir">>},
           CreateStatus(path, k) = OK, Done(op, path, OK),
           NEW image, NEW s, NEW n, NEW N, NEW ptr, Leaves(image), bitmap' = bitmap \cup N,
           Linking(disk, bitmap, image, ResolveParent(path), s, [name |-> Leaf(path), inode |-> n], N),
           image[n] = NewInode(type, perm, now, ptr)
    PROVE  Tree!Next /\ Named(disk')
<1> DEFINE q == Parse(path)
<1>1. FreshName(disk, ResolveParent(path), Leaf(path))
  BY PathTyped, CreateFresh DEF TreeState
<1>2. /\ Named(disk') /\ q \in Parsed /\ q # <<>> /\ ~Tree!Exists(q) /\ Tree!IsDir(Tree!Front(q))
      /\ tree' = WithNode(q, NodeIn(image, n))
  BY <1>1, AddTree
<1>3. op \in {"create", "mkdir"} /\ type \in {"file", "dir"} /\ (op = "create" => type = "file")
      /\ (op = "mkdir" => type = "dir")
  OBVIOUS
<1>4. NodeIn(image, n) = [type |-> type, perm |-> perm, mtime |-> now, data |-> <<>>]
  BY <1>3, NewNode
<1>5. Tree!Answer(op, q, Tree!OK)
  BY SameAnswer, SameErrors DEF Done
<1> HIDE DEF q
<1>6. Tree!Add(q, op, type, perm, now)
  BY <1>2, <1>4, <1>5 DEF Tree!Add, WithNode
<1>7. Tree!Add(q, "create", "file", perm, now) \/ Tree!Add(q, "mkdir", "dir", perm, now)
  BY <1>3, <1>6
<1> QED
  BY <1>2, <1>7 DEF Tree!Next

\* create adds a file to the tree, or fails.
LEMMA CreateTree ==
    ASSUME TreeState, EveryPath, Walkable(disk', bitmap'), NEW path \in Paths, path # <<>>,
           NEW perm \in Perms, NEW now \in Times, Create(path, perm, now)
    PROVE  Tree!Next /\ Named(disk')
<1>1. CASE Fail("create", path, CreateStatus(path, 1))
  <2>1. Tree!Refuse
    BY <1>1, FailTree
  <2>2. Named(disk')
    BY <1>1 DEF Fail, TreeState
  <2> QED
    BY <2>1, <2>2 DEF Tree!Next
<1>2. CASE ~Fail("create", path, CreateStatus(path, 1))
  <2>1. path \in Seq(Names) /\ SoundState
    BY PathTyped DEF TreeState
  <2>2. /\ CreateStatus(path, 1) = OK /\ AddFree(-1) /\ Done("create", path, OK)
        /\ \E image, s, n :
              /\ Leaves(image) /\ bitmap' = bitmap \cup {n}
              /\ Linking(disk, bitmap, image, ResolveParent(path), s,
                         [name |-> Leaf(path), inode |-> n], {n})
              /\ image[n] = NewInode("file", perm, now, 0)
    BY <1>2, <2>1, CreateEffect
  <2>3. PICK image, s, n :
              /\ Leaves(image) /\ bitmap' = bitmap \cup {n}
              /\ Linking(disk, bitmap, image, ResolveParent(path), s,
                         [name |-> Leaf(path), inode |-> n], {n})
              /\ image[n] = NewInode("file", perm, now, 0)
    BY <2>2
  <2>4. <<"create", "file">> \in {<<"create", "file">>, <<"mkdir", "dir">>}
    OBVIOUS
  <2> QED
    BY <2>2, <2>3, <2>4, AddNext
<1> QED
  BY <1>1, <1>2

\* mkdir adds a directory to the tree, or fails.
LEMMA MkdirTree ==
    ASSUME TreeState, EveryPath, Walkable(disk', bitmap'), NEW path \in Paths, path # <<>>,
           NEW perm \in Perms, NEW now \in Times, Mkdir(path, perm, now)
    PROVE  Tree!Next /\ Named(disk')
<1>1. CASE Fail("mkdir", path, CreateStatus(path, 2))
  <2>1. Tree!Refuse
    BY <1>1, FailTree
  <2>2. Named(disk')
    BY <1>1 DEF Fail, TreeState
  <2> QED
    BY <2>1, <2>2 DEF Tree!Next
<1>2. CASE ~Fail("mkdir", path, CreateStatus(path, 2))
  <2>1. path \in Seq(Names) /\ SoundState
    BY PathTyped DEF TreeState
  <2>2. /\ CreateStatus(path, 2) = OK /\ AddFree(-2) /\ Done("mkdir", path, OK)
        /\ \E image, s, n, b2 :
              /\ n # b2 /\ Leaves(image) /\ bitmap' = bitmap \cup {n, b2}
              /\ Linking(disk, bitmap, image, ResolveParent(path), s,
                         [name |-> Leaf(path), inode |-> n], {n, b2})
              /\ image[n] = NewInode("dir", perm, now, b2)
    BY <1>2, <2>1, MkdirEffect
  <2>3. PICK image, s, n, b2 :
              /\ n # b2 /\ Leaves(image) /\ bitmap' = bitmap \cup {n, b2}
              /\ Linking(disk, bitmap, image, ResolveParent(path), s,
                         [name |-> Leaf(path), inode |-> n], {n, b2})
              /\ image[n] = NewInode("dir", perm, now, b2)
    BY <2>2
  <2>4. <<"mkdir", "dir">> \in {<<"create", "file">>, <<"mkdir", "dir">>}
    OBVIOUS
  <2> QED
    BY <2>2, <2>3, <2>4, AddNext
<1> QED
  BY <1>1, <1>2

\* What is left of an unlink or rmdir that goes through: the object goes, and all below it.
LEMMA PruneTree ==
    ASSUME TreeState, Walkable(disk', bitmap'), NEW path \in Paths, path # <<>>,
           Resolve(path) >= 0, NEW op \in {"unlink", "rmdir"}, Done(op, path, OK),
           op = "rmdir" => disk[Resolve(path)].type = "dir",
           Leaves(Unlinked(path)), bitmap' = bitmap \ Freed(disk, Resolve(path))
    PROVE  (Tree!Next \/ Tree!Overreach) /\ Named(disk')
<1> DEFINE q == Parse(path)
           P == Front(q)
           a == Leaf(path)
           k == Resolve(path)
           p == ResolveParent(path)
           s == Min(Matches(disk, p, a))
           image == Unlinked(path)
           used == bitmap \ Freed(disk, k)
<1>1. /\ q \in Parsed /\ q \in Seq(Names) /\ q # <<>> /\ a = Last(q) /\ a \in Names
      /\ P \in Seq(Names) /\ q = Append(P, a) /\ p = Translate(disk, P)
  <2>1. q \in Parsed /\ q \in Seq(Names) /\ q # <<>>
    BY PathTyped, ParseProperty DEF Parsed
  <2> QED
    BY <2>1, FrontLast DEF Leaf, ResolveParent, TranslateParent
<1>2. Sound(disk, bitmap) /\ Walkable(disk, bitmap) /\ SoundState /\ path \in Seq(Names)
  BY PathTyped DEF TreeState, SoundState, Walkable
<1>3. /\ To(disk, p, s) = k /\ Unlinking(disk, bitmap, image, p, s) /\ Sound(image, used)
      /\ k \in LiveIn(disk, bitmap)
  BY <1>2, UnlinkedEffect
<1>4. p \in DirsIn(disk, bitmap) /\ p \in LiveIn(disk, bitmap) /\ s \in Slot(disk, p)
  BY <1>3 DEF Unlinking, DirsIn
<1>5. NameAt(disk, p, s) = a
  <2>1. q # <<>> /\ Translate(disk, q) >= 0
    BY <1>1 DEF Resolve
  <2>2. Min(Matches(disk, TranslateParent(disk, q), Last(q))) \in Matches(disk, TranslateParent(disk, q), Last(q))
    BY <1>1, <1>2, <2>1, ResolveEntry
  <2>3. s \in Matches(disk, p, a)
    BY <2>2 DEF ResolveParent, Leaf
  <2> QED
    BY <2>3 DEF Matches, NameAt
<1>6. Translate(disk, q) = k /\ k >= 0
  BY DEF Resolve
<1>7. Leaves(image) /\ bitmap' = used
  OBVIOUS
<1> HIDE DEF q, P, a, k, p, s, image, used
<1>8. Reach(disk, P, p) /\ Child(disk, bitmap, p, a, k)
  <2>1. Reach(disk, P, p)
    BY <1>1, <1>2, <1>4, ResolveLive DEF Reach
  <2> QED
    BY <1>3, <1>4, <1>5, <2>1 DEF Child
<1>9. OneLess(disk, bitmap, image, used, p, a, k)
  <2>1. OneLess(disk, bitmap, image, bitmap \ Freed(disk, To(disk, p, s)), p, NameAt(disk, p, s), To(disk, p, s))
    BY <1>2, <1>3, UnlinkChild
  <2> QED
    BY <1>3, <1>5, <2>1 DEF used
<1>10. OneLess(disk, bitmap, disk', bitmap', p, a, k)
  <2>1. \A i, c, j : Child(disk', bitmap', i, c, j) <=> Child(image, used, i, c, j)
    BY <1>3, <1>7, LeavesTree
  <2> QED
    BY <1>9, <2>1 DEF OneLess
<1>11. \A r \in Seq(Names) : \A j : Reach(disk', r, j) <=> Reach(disk, r, j) /\ ~Above(q, r)
  <2>1. \A r \in Seq(Names) : \A j : Reach(disk', r, j) <=> Reach(disk, r, j) /\ ~Above(Append(P, a), r)
    BY <1>1, <1>2, <1>8, <1>10, RemoveReach
  <2> QED
    BY <1>1, <2>1
<1>12. \A j \in LiveIn(image, used) : j \in LiveIn(disk, bitmap) /\ NodeIn(disk', j) = NodeIn(disk, j)
  <2> SUFFICES ASSUME NEW j \in LiveIn(image, used)
               PROVE  j \in LiveIn(disk, bitmap) /\ NodeIn(disk', j) = NodeIn(disk, j)
    OBVIOUS
  <2>1. NodeIn(disk', j) = NodeIn(image, j)
    BY <1>3, <1>7, LeavesTree
  <2>2. j \in LiveIn(disk, bitmap) /\ OnlyEntry(disk, bitmap, image, p, s, NoEntry)
    BY <1>2, <1>3, RemoveSound DEF used
  <2>3. image[j] = disk[j]
    BY <2>2 DEF OnlyEntry
  <2>4. ASSUME disk[j].type = "file", NEW l \in DataIdx(disk[j])
        PROVE  image[disk[j].ptrs[l]] = disk[disk[j].ptrs[l]]
    <3>1. disk[j].ptrs[l] \in bitmap /\ disk[disk[j].ptrs[l]].kind = "data" /\ disk[j].ptrs[l] \in Blocks
      BY <1>2, <2>2, <2>4 DEF Sound, InodesFit, Typed
    <3>2. disk[disk[p].ptrs[0]].kind = "dir"
      BY <1>2, <1>4, DirBlockOf
    <3>3. image = WithEntry(disk, p, s, NoEntry) /\ s \in Slots
      BY <1>3, <1>4 DEF Unlinking, Slot
    <3>4. \A b \in Blocks : b # disk[p].ptrs[0] => image[b] = disk[b]
      BY <1>2, <1>4, <3>3, WithEntryEffect
    <3> QED
      BY <3>1, <3>2, <3>4
  <2>5. NodeIn(image, j) = NodeIn(disk, j)
    BY <1>2, <2>2, <2>3, <2>4, NodeSame
  <2> QED
    BY <2>1, <2>2, <2>5
<1>13. \A r \in Seq(Names) : Translate(disk', r) >= 0 <=> Translate(disk, r) >= 0 /\ ~Above(q, r)
  BY <1>11, Leads, Zenon
<1>14. Named(disk')
  BY <1>13 DEF TreeState, Named
<1>15. \A r : r \in DOMAIN tree <=> r \in Seq(Names) /\ Translate(disk, r) >= 0
  BY TreeIsTreeIn, TreeInFacts DEF TreeState
<1>16. \A r : r \in Tree!Below(q) <=> r \in Seq(Names) /\ Translate(disk, r) >= 0 /\ Above(q, r)
  BY <1>1, TreeBelow
<1> DEFINE D == DOMAIN tree \ Tree!Below(q)
           f == [r \in D |-> tree[r]]
<1>17. \A r : r \in D <=> r \in Seq(Names) /\ Translate(disk', r) >= 0
  BY <1>13, <1>15, <1>16
<1>18. ASSUME NEW r \in D PROVE f[r] = NodeIn(disk', Translate(disk', r))
  <2>1. r \in Seq(Names) /\ Reach(disk', r, Translate(disk', r))
    BY <1>17 DEF Reach
  <2>2. Reach(disk, r, Translate(disk', r))
    BY <1>11, <2>1
  <2>3. Translate(disk', r) \in LiveIn(disk', bitmap')
    BY <2>1, ReachOnce
  <2>4. LiveIn(disk', bitmap') = LiveIn(image, used)
    BY <1>3, <1>7, LeavesSame
  <2>5. tree[r] = NodeIn(disk, Translate(disk', r))
    BY <2>1, <2>2, TreeIsTreeIn, TreeInFacts DEF TreeState
  <2> QED
    BY <1>12, <2>3, <2>4, <2>5
<1>19. f = [r \in D |-> f[r]]
  OBVIOUS
<1> HIDE DEF D, f
<1>20. TreeIn(disk') = f
  BY <1>14, <1>17, <1>18, <1>19, SameTree
<1>21. Tree!IsFile(q) \/ Tree!IsDir(q)
  <2>1. disk[k].type \in {"file", "dir"}
    BY <1>1, <1>2, <1>6, FileOrDir
  <2> QED
    BY <1>1, <1>6, <2>1, TreeTests
<1>22. op = "rmdir" => Tree!IsDir(q)
  BY <1>1, <1>6, TreeTests DEF k
<1>23. Tree!Answer(op, q, Tree!OK)
  BY SameAnswer, SameErrors DEF Done, q
<1>24. tree' = [r \in DOMAIN tree \ Tree!Below(q) |-> tree[r]]
  BY <1>20, TreeIsTreeIn DEF f, D
<1>25. CASE IF op = "unlink" THEN Tree!IsFile(q) ELSE Tree!Below(q) = {q}
  <2>1. Tree!Delete(q, op)
    BY <1>1, <1>22, <1>23, <1>24, <1>25 DEF Tree!Delete
  <2> QED
    BY <1>1, <1>14, <2>1 DEF Tree!Next
<1>26. CASE ~ IF op = "unlink" THEN Tree!IsFile(q) ELSE Tree!Below(q) = {q}
  <2>1. Tree!IsDir(q) /\ (op = "unlink" \/ Tree!Below(q) # {q})
    BY <1>21, <1>22, <1>26
  <2>2. Tree!Prune(q, op)
    BY <1>1, <1>23, <1>24, <2>1 DEF Tree!Prune
  <2> QED
    BY <1>1, <1>14, <2>2 DEF Tree!Overreach
<1> QED
  BY <1>25, <1>26

\* unlink and rmdir take an object from the tree, with all that is below it, or fail.
LEMMA RemoveTree ==
    ASSUME TreeState, EveryPath, Walkable(disk', bitmap'), NEW path \in Paths, path # <<>>,
           Unlink(path) \/ Rmdir(path)
    PROVE  (Tree!Next \/ Tree!Overreach) /\ Named(disk')
<1>1. path \in Seq(Names) /\ SoundState
  BY PathTyped DEF TreeState
<1>2. ASSUME NEW op, NEW err, Fail(op, path, err),
             \/ op = "unlink" /\ err = Resolve(path)
             \/ op = "rmdir" /\ err = RmdirStatus(path)
      PROVE  (Tree!Next \/ Tree!Overreach) /\ Named(disk')
  <2>1. Tree!Refuse
    BY <1>2, FailTree
  <2>2. Named(disk')
    BY <1>2 DEF Fail, TreeState
  <2> QED
    BY <2>1, <2>2 DEF Tree!Next
<1>3. CASE Unlink(path) /\ ~Fail("unlink", path, Resolve(path))
  <2>1. /\ Resolve(path) >= 0 /\ Done("unlink", path, OK)
        /\ Leaves(Unlinked(path)) /\ bitmap' = bitmap \ Freed(disk, Resolve(path))
    BY <1>1, <1>3, UnlinkEffect
  <2> QED
    BY <2>1, PruneTree
<1>4. CASE Rmdir(path) /\ ~Fail("rmdir", path, RmdirStatus(path))
  <2>1. /\ RmdirStatus(path) = OK /\ Resolve(path) >= 0 /\ Done("rmdir", path, OK)
        /\ Leaves(Unlinked(path)) /\ bitmap' = bitmap \ Freed(disk, Resolve(path))
    BY <1>1, <1>4, RmdirEffect
  <2>2. disk[Resolve(path)].type = "dir"
    BY <1>1, <2>1, RmdirGranted DEF DirsIn
  <2> QED
    BY <2>1, <2>2, PruneTree
<1> QED
  BY <1>2, <1>3, <1>4

-----------------------------------------------------------------------------
(* rename                                                                  *)

\* What \o makes of two sequences.
LEMMA Joined ==
    ASSUME NEW T, NEW x \in Seq(T), NEW y \in Seq(T)
    PROVE  /\ x \o y \in Seq(T) /\ Len(x \o y) = Len(x) + Len(y)
           /\ \A k \in 1 .. Len(x) + Len(y) : (x \o y)[k] = IF k <= Len(x) THEN x[k] ELSE y[k - Len(x)]
<1>1. x \o y \in Seq(T)
  OBVIOUS
<1>2. Len(x \o y) = Len(x) + Len(y)
  OBVIOUS
<1>3. \A k \in 1 .. Len(x) + Len(y) : (x \o y)[k] = IF k <= Len(x) THEN x[k] ELSE y[k - Len(x)]
  OBVIOUS
<1> QED
  BY <1>1, <1>2, <1>3

\* Sequences with the same components are the same.
LEMMA SameSeq ==
    ASSUME NEW T, NEW x \in Seq(T), NEW y \in Seq(T), Len(x) = Len(y), \A k \in 1 .. Len(y) : x[k] = y[k]
    PROVE  x = y
  OBVIOUS

\* Path q, below Append(P, a), moves to be below Append(P, b), by a change of one component.
Moves(T, P, a, b, q) ==
    LET L == Len(P) + 1
        r == [q EXCEPT ![L] = b]
    IN  /\ r \in Seq(T) /\ L \in 1 .. Len(q) /\ Len(r) = Len(q)
        /\ Append(P, b) \o SubSeq(q, L + 1, Len(q)) = r
        /\ Above(Append(P, b), r)
        /\ [r EXCEPT ![L] = a] = q

\* So does every path that is.
LEMMA Spliced ==
    ASSUME NEW T, NEW P \in Seq(T), NEW a \in T, NEW b \in T, NEW q \in Seq(T), Above(Append(P, a), q)
    PROVE  Moves(T, P, a, b, q)
<1> DEFINE L == Len(P) + 1
           r == [q EXCEPT ![L] = b]
           x == Append(P, b)
           y == SubSeq(q, L + 1, Len(q))
<1>1. /\ Len(P) \in Nat /\ L \in Nat /\ L \in 1 .. Len(q) /\ Len(q) \in Nat
      /\ q[L] = a /\ \A k \in 1 .. Len(P) : q[k] = P[k]
  <2>1. /\ Len(Append(P, a)) = L /\ Append(P, a)[L] = a
        /\ \A k \in 1 .. Len(P) : Append(P, a)[k] = P[k]
    BY AppendFacts
  <2>2. L <= Len(q) /\ \A k \in 1 .. L : q[k] = Append(P, a)[k]
    BY <2>1 DEF Above
  <2>3. Len(P) \in Nat /\ Len(q) \in Nat
    OBVIOUS
  <2> HIDE DEF x, y, r
  <2>4. L \in 1 .. Len(q) /\ \A k \in 1 .. Len(P) : k \in 1 .. L
    BY <2>2, <2>3
  <2> QED
    BY <2>1, <2>2, <2>3, <2>4
<1>2. x \in Seq(T) /\ Len(x) = L /\ x[L] = b /\ \A k \in 1 .. Len(P) : x[k] = P[k]
  BY AppendFacts
<1>3. /\ y \in Seq(T) /\ Len(y) = Len(q) - L
      /\ \A k \in 1 .. Len(q) - L : y[k] = q[L + k]
  <2> HIDE DEF L
  <2>1. L + 1 \in Nat /\ L + 1 <= Len(q) + 1
    BY <1>1
  <2>2. CASE L = Len(q)
    <3>1. y = <<>>
      BY <1>1, <2>2
    <3> QED
      BY <1>1, <2>2, <3>1
  <2>3. CASE L < Len(q)
    BY <1>1, <2>1, <2>3
  <2> QED
    BY <1>1, <2>2, <2>3
<1>4. /\ r \in Seq(T) /\ Len(r) = Len(q)
      /\ \A k \in 1 .. Len(q) : r[k] = IF k = L THEN b ELSE q[k]
  BY <1>1
<1> HIDE DEF x, y, r
<1> DEFINE z == x \o y
<1>5. /\ z \in Seq(T) /\ Len(z) = Len(q)
      /\ \A k \in 1 .. Len(q) : z[k] = IF k <= L THEN x[k] ELSE y[k - L]
  <2>1. /\ z \in Seq(T) /\ Len(z) = Len(x) + Len(y)
        /\ \A k \in 1 .. Len(x) + Len(y) : z[k] = IF k <= Len(x) THEN x[k] ELSE y[k - Len(x)]
    BY <1>2, <1>3, Joined
  <2> HIDE DEF z
  <2>2. Len(x) + Len(y) = Len(q) /\ Len(x) = L
    BY <1>1, <1>2, <1>3
  <2> QED
    BY <2>1, <2>2
<1> HIDE DEF z
<1>6. \A k \in 1 .. Len(q) : z[k] = r[k]
  <2> SUFFICES ASSUME NEW k \in 1 .. Len(q) PROVE z[k] = r[k]
    OBVIOUS
  <2>1. z[k] = IF k <= L THEN x[k] ELSE y[k - L]
    BY <1>5
  <2>2. CASE k <= Len(P)
    <3>1. k \in 1 .. Len(P) /\ k <= L /\ k # L
      BY <1>1, <2>2
    <3> QED
      BY <1>1, <1>2, <1>4, <2>1, <3>1
  <2>3. CASE k = L
    BY <1>1, <1>2, <1>4, <2>1, <2>3
  <2>4. CASE k > L
    <3>1. ~(k <= L) /\ k # L /\ k - L \in 1 .. Len(q) - L /\ L + (k - L) = k
      BY <1>1, <2>4
    <3>2. y[k - L] = q[k]
      BY <1>3, <3>1
    <3> QED
      BY <1>4, <2>1, <3>1, <3>2
  <2> QED
    BY <1>1, <2>2, <2>3, <2>4
<1>7. z = r
  <2>1. z \in Seq(T) /\ r \in Seq(T) /\ Len(z) = Len(r) /\ \A k \in 1 .. Len(r) : z[k] = r[k]
    BY <1>4, <1>5, <1>6
  <2> QED
    BY <2>1, SameSeq
<1>8. Above(x, r)
  <2>1. \A k \in 1 .. L : r[k] = x[k]
    <3> TAKE k \in 1 .. L
    <3>1. k \in 1 .. Len(q) /\ (k = L \/ k \in 1 .. Len(P)) /\ (k \in 1 .. Len(P) => k # L)
      BY <1>1
    <3> QED
      BY <1>1, <1>2, <1>4, <3>1
  <2> QED
    BY <1>1, <1>2, <1>4, <2>1 DEF Above
<1>9. [r EXCEPT ![L] = a] = q
  <2> DEFINE v == [r EXCEPT ![L] = a]
  <2>1. v \in Seq(T) /\ Len(v) = Len(r)
    BY <1>1, <1>4, OtherName
  <2>2. \A k \in 1 .. Len(q) : v[k] = IF k = L THEN a ELSE r[k]
    BY <1>4
  <2> HIDE DEF v
  <2>3. \A k \in 1 .. Len(q) : v[k] = q[k]
    BY <1>1, <1>4, <2>2
  <2>4. v = q
    BY <1>4, <2>1, <2>3, SameSeq
  <2> QED
    BY <2>4 DEF v
<1> QED
  BY <1>1, <1>4, <1>7, <1>8, <1>9 DEF Moves, r, x, y, z

\* A rename that goes through moves the object, and all that is below it.
LEMMA MoveTree ==
    ASSUME TreeState, EveryPath, Walkable(disk', bitmap'), NEW src \in Paths, src # <<>>,
           NEW dst \in Paths, Rename(src, dst), ~Fail("rename", src, RenameStatus(src, dst))
    PROVE  Tree!Next /\ Named(disk')
<1> DEFINE S == Parse(src)
           T == Parse(dst)
           P == Front(S)
           L == Len(P) + 1
           a == Leaf(src)
           b == Leaf(dst)
           k == Resolve(src)
           p == ResolveParent(src)
           s == Min(Matches(disk, p, a))
           ent == [name |-> b, inode |-> To(disk, p, s)]
<1>1. /\ SoundState /\ Sound(disk, bitmap) /\ Walkable(disk, bitmap)
      /\ src \in Seq(Names) /\ dst \in Seq(Names)
  BY PathTyped DEF TreeState, SoundState, Walkable
<1>2. /\ RenameStatus(src, dst) = OK /\ Done("rename", src, OK) /\ bitmap' = bitmap
      /\ Renaming(disk, bitmap, disk', p, s, ent)
  BY <1>1, RenameEffect
<1>3. /\ dst # <<>> /\ FreshName(disk, p, b)
      /\ k >= 0 /\ Resolve(dst) < 0 /\ Len(S) = Len(T) /\ Front(S) = Front(T)
  BY <1>1, <1>2, RenameFresh, RenameGranted
<1>4. /\ S \in Parsed /\ S \in Seq(Names) /\ S # <<>> /\ a = Last(S) /\ a \in Names
      /\ P \in Seq(Names) /\ S = Append(P, a) /\ p = Translate(disk, P)
  <2>1. S \in Parsed /\ S \in Seq(Names) /\ S # <<>>
    BY <1>1, ParseProperty DEF Parsed
  <2> QED
    BY <2>1, FrontLast DEF Leaf, ResolveParent, TranslateParent
<1>5. /\ T \in Parsed /\ T \in Seq(Names) /\ b \in Names /\ T = Append(P, b) /\ Truncated[b] = b
  <2>1. T \in Parsed /\ T \in Seq(Names) /\ T # <<>> /\ Truncated[b] = b
    BY <1>1, <1>3, ParseProperty, LeafCut DEF Parsed
  <2> QED
    BY <1>3, <2>1, FrontLast DEF Leaf
<1>6. To(disk, p, s) = k /\ p \in LiveIn(disk, bitmap) /\ p \in DirsIn(disk, bitmap) /\ s \in Slot(disk, p)
  BY <1>1, <1>2, <1>3, ResolveBelow DEF Renaming, DirsIn
<1>7. NameAt(disk, p, s) = a
  <2>1. S # <<>> /\ Translate(disk, S) >= 0
    BY <1>3, <1>4 DEF Resolve
  <2>2. Min(Matches(disk, TranslateParent(disk, S), Last(S))) \in Matches(disk, TranslateParent(disk, S), Last(S))
    BY <1>1, <1>4, <2>1, ResolveEntry
  <2>3. s \in Matches(disk, p, a)
    BY <2>2 DEF ResolveParent, Leaf
  <2> QED
    BY <2>3 DEF Matches, NameAt
<1>8. Translate(disk, S) >= 0 /\ ~(Translate(disk, T) >= 0)
  <2>1. Resolve(dst) \in Int
    BY <1>1, ResolvePath
  <2>2. ~(Resolve(dst) >= 0)
    BY <1>3, <2>1
  <2> QED
    BY <1>3, <2>2 DEF Resolve
<1>9. ent.name = b /\ ent.inode = To(disk, p, s)
  OBVIOUS
<1>10. Tree!Answer("rename", S, Tree!OK)
  BY <1>2, SameAnswer, SameErrors DEF Done
<1> HIDE DEF S, T, P, a, b, k, p, s, ent
<1>11. a # b /\ \A j : ~Child(disk, bitmap, p, b, j)
  BY <1>3, <1>6, <1>7 DEF FreshName, Child
<1>12. Reach(disk, P, p) /\ Child(disk, bitmap, p, a, k)
  <2>1. Reach(disk, P, p)
    BY <1>1, <1>4, <1>6, ResolveLive DEF Reach
  <2> QED
    BY <1>6, <1>7, <2>1 DEF Child
<1>13. OneRenamed(disk, bitmap, disk', bitmap', p, a, b, k)
  <2>1. OneRenamed(disk, bitmap, disk', bitmap, p, NameAt(disk, p, s), ent.name, To(disk, p, s))
    BY <1>1, <1>2, RenameChild
  <2> QED
    BY <1>2, <1>6, <1>7, <1>9, <2>1
<1> DEFINE Back(q) == [q EXCEPT ![L] = a]
<1>14. \A q \in Seq(Names) : \A j :
          Reach(disk', q, j) <=> (Reach(disk, q, j) /\ ~Above(S, q)) \/ (Above(T, q) /\ Reach(disk, Back(q), j))
  <2>1. PathsMoved(disk, disk', Append(P, a), Append(P, b), Len(P) + 1, a)
    BY <1>1, <1>4, <1>5, <1>11, <1>12, <1>13, RenameReach
  <2>2. PathsMoved(disk, disk', S, T, L, a)
    BY <1>4, <1>5, <2>1
  <2> QED
    BY <2>2 DEF PathsMoved
<1>15. \A j \in LiveIn(disk, bitmap) : NodeIn(disk', j) = NodeIn(disk, j)
  <2> SUFFICES ASSUME NEW j \in LiveIn(disk, bitmap) PROVE NodeIn(disk', j) = NodeIn(disk, j)
    OBVIOUS
  <2>1. disk'[j] = disk[j]
    BY <1>1, <1>2, RenamingSound DEF OnlyEntry
  <2>2. ASSUME disk[j].type = "file", NEW l \in DataIdx(disk[j])
        PROVE  disk'[disk[j].ptrs[l]] = disk[disk[j].ptrs[l]]
    <3>1. disk[j].ptrs[l] \in bitmap /\ disk[disk[j].ptrs[l]].kind = "data" /\ disk[j].ptrs[l] \in Blocks
      BY <1>1, <2>2 DEF Sound, InodesFit, Typed
    <3>2. disk[disk[p].ptrs[0]].kind = "dir"
      BY <1>1, <1>6, DirBlockOf
    <3>3. disk' = WithEntry(disk, p, s, ent) /\ s \in Slots /\ ent \in Entry \cup {NoEntry}
      BY <1>2, <1>6 DEF Renaming, Slot
    <3>4. \A c \in Blocks : c # disk[p].ptrs[0] => disk'[c] = disk[c]
      BY <1>1, <1>6, <3>3, WithEntryEffect
    <3> QED
      BY <3>1, <3>2, <3>4
  <2> QED
    BY <1>1, <2>1, <2>2, NodeSame
<1>16. ASSUME NEW q \in Seq(Names), Above(T, q)
       PROVE  /\ Back(q) \in Seq(Names) /\ L \in 1 .. Len(q) /\ Above(S, Back(q))
              /\ S \o SubSeq(q, L + 1, Len(q)) = Back(q)
              /\ [Back(q) EXCEPT ![L] = b] = q /\ Len(Back(q)) = Len(q)
  <2>1. Above(Append(P, b), q)
    BY <1>5, <1>16
  <2> DEFINE r == [q EXCEPT ![Len(P) + 1] = a]
  <2>2. /\ r \in Seq(Names) /\ Len(P) + 1 \in 1 .. Len(q) /\ Len(r) = Len(q)
        /\ Append(P, a) \o SubSeq(q, Len(P) + 1 + 1, Len(q)) = r
        /\ Above(Append(P, a), r)
        /\ [r EXCEPT ![Len(P) + 1] = b] = q
    <3>1. Moves(Names, P, b, a, q)
      BY <1>4, <1>5, <2>1, Spliced
    <3> QED
      BY <3>1 DEF Moves
  <2>3. r = Back(q)
    OBVIOUS
  <2> HIDE DEF r, Back
  <2> QED
    BY <1>4, <2>2, <2>3
<1>17. ASSUME NEW q \in Seq(Names), Above(S, q)
       PROVE  /\ [q EXCEPT ![L] = b] \in Seq(Names) /\ Above(T, [q EXCEPT ![L] = b])
              /\ T \o SubSeq(q, L + 1, Len(q)) = [q EXCEPT ![L] = b]
              /\ Back([q EXCEPT ![L] = b]) = q
  <2>1. Above(Append(P, a), q)
    BY <1>4, <1>17
  <2> DEFINE r == [q EXCEPT ![Len(P) + 1] = b]
  <2>2. /\ r \in Seq(Names) /\ Len(P) + 1 \in 1 .. Len(q) /\ Len(r) = Len(q)
        /\ Append(P, b) \o SubSeq(q, Len(P) + 1 + 1, Len(q)) = r
        /\ Above(Append(P, b), r)
        /\ [r EXCEPT ![Len(P) + 1] = a] = q
    <3>1. Moves(Names, P, a, b, q)
      BY <1>4, <1>5, <2>1, Spliced
    <3> QED
      BY <3>1 DEF Moves
  <2>3. r = [q EXCEPT ![L] = b] /\ Back(r) = [r EXCEPT ![Len(P) + 1] = a]
    OBVIOUS
  <2> HIDE DEF r, Back
  <2> QED
    BY <1>5, <2>2, <2>3
<1>18. Named(disk')
  <2> SUFFICES ASSUME NEW q \in Seq(Names), Translate(disk', q) >= 0 PROVE q \in Parsed
    BY DEF Named
  <2>1. Reach(disk', q, Translate(disk', q))
    BY DEF Reach
  <2>2. CASE Reach(disk, q, Translate(disk', q))
    BY <2>2 DEF Reach, TreeState, Named
  <2>3. CASE Above(T, q) /\ Reach(disk, Back(q), Translate(disk', q))
    <3>1. Back(q) \in Parsed
      BY <1>16, <2>3 DEF Reach, TreeState, Named
    <3>2. [Back(q) EXCEPT ![L] = b] \in Parsed
      BY <1>5, <1>16, <2>3, <3>1, NameMore
    <3> QED
      BY <1>16, <2>3, <3>2
  <2> QED
    BY <1>14, <2>1, <2>2, <2>3
<1>19. \A r : r \in DOMAIN tree <=> r \in Seq(Names) /\ Translate(disk, r) >= 0
  BY TreeIsTreeIn, TreeInFacts DEF TreeState
<1>20. \A r : r \in Tree!Below(S) <=> r \in Seq(Names) /\ Translate(disk, r) >= 0 /\ Above(S, r)
  BY <1>4, TreeBelow
<1> DEFINE moved == {T \o SubSeq(r, Len(S) + 1, Len(r)) : r \in Tree!Below(S)}
           Origin(r) == S \o SubSeq(r, Len(T) + 1, Len(r))
           D == (DOMAIN tree \ Tree!Below(S)) \cup moved
           f == [r \in D |-> IF r \in moved THEN tree[Origin(r)] ELSE tree[r]]
<1>21. Len(S) = L /\ Len(T) = L
  BY <1>4, <1>5, AppendFacts
<1>22. \A r : r \in moved <=> r \in Seq(Names) /\ Above(T, r) /\ Translate(disk, Back(r)) >= 0
  <2>1. ASSUME NEW r \in moved
        PROVE  r \in Seq(Names) /\ Above(T, r) /\ Translate(disk, Back(r)) >= 0
    <3>1. PICK q \in Tree!Below(S) : r = T \o SubSeq(q, Len(S) + 1, Len(q))
      OBVIOUS
    <3>2. q \in Seq(Names) /\ Above(S, q) /\ Translate(disk, q) >= 0
      BY <1>20
    <3> QED
      BY <1>17, <1>21, <3>1, <3>2, ZenonT(60)
  <2>2. ASSUME NEW r \in Seq(Names), Above(T, r), Translate(disk, Back(r)) >= 0
        PROVE  r \in moved
    <3>1. Back(r) \in Tree!Below(S)
      BY <1>16, <1>20, <2>2
    <3>2. T \o SubSeq(Back(r), L + 1, Len(Back(r))) = r
      BY <1>16, <1>17, <2>2
    <3> QED
      BY <1>21, <3>1, <3>2
  <2> QED
    BY <2>1, <2>2
<1>23. \A r \in moved : Origin(r) = Back(r)
  BY <1>16, <1>21, <1>22
<1> HIDE DEF moved, Origin, Back
<1>24. \A r : r \in D <=> r \in Seq(Names) /\ Translate(disk', r) >= 0
  <2>1. \A r : r \in D <=> (r \in Seq(Names) /\ Translate(disk, r) >= 0 /\ ~Above(S, r)) \/ r \in moved
    BY <1>19, <1>20
  <2>2. \A r \in Seq(Names) : Translate(disk', r) >= 0 <=>
           (Translate(disk, r) >= 0 /\ ~Above(S, r)) \/ (Above(T, r) /\ Translate(disk, Back(r)) >= 0)
    BY <1>14, Leads, Zenon
  <2> QED
    BY <1>22, <2>1, <2>2
<1>25. \A r \in Seq(Names) : \A j : Reach(disk, r, j) => r \in DOMAIN tree /\ tree[r] = NodeIn(disk, j)
  BY TreeIsTreeIn, TreeInFacts DEF TreeState
<1>26. ASSUME NEW r \in D PROVE f[r] = NodeIn(disk', Translate(disk', r))
  <2> DEFINE j == Translate(disk', r)
             was == IF r \in moved THEN Back(r) ELSE r
  <2>1. r \in Seq(Names) /\ was \in Seq(Names)
    BY <1>16, <1>22, <1>24
  <2>2. f[r] = tree[was]
    BY <1>23
  <2>3. Reach(disk, was, Translate(disk, was))
    <3>1. CASE r \in moved
      BY <1>22, <3>1 DEF Reach
    <3>2. CASE r \notin moved
      BY <1>19, <3>2 DEF Reach
    <3> QED
      BY <3>1, <3>2
  <2>4. Reach(disk', r, Translate(disk, was))
    <3>1. CASE r \in moved
      BY <1>14, <1>22, <2>3, <3>1
    <3>2. CASE r \notin moved
      <4>1. ~Above(S, r)
        BY <1>19, <1>20, <3>2
      <4> QED
        BY <1>14, <2>1, <2>3, <3>2, <4>1
    <3> QED
      BY <3>1, <3>2
  <2> HIDE DEF was, f, D
  <2>5. tree[was] = NodeIn(disk, Translate(disk, was)) /\ Translate(disk, was) \in LiveIn(disk, bitmap)
    BY <1>1, <1>25, <2>1, <2>3, ReachOnce
  <2>6. j = Translate(disk, was)
    BY <2>4 DEF Reach
  <2> QED
    BY <1>15, <2>2, <2>5, <2>6
<1>27. f = [r \in D |-> f[r]]
  OBVIOUS
<1> HIDE DEF D, f
<1>28. TreeIn(disk') = f
  BY <1>18, <1>24, <1>26, <1>27, SameTree
<1>29. Tree!Exists(S) /\ ~Tree!Exists(T)
  BY <1>4, <1>5, <1>8, TreeTests
<1>30. Tree!Front(S) = Tree!Front(T) /\ Len(S) = Len(T)
  BY <1>3, <1>21 DEF Tree!Front, Front
<1>31. tree' = [r \in (DOMAIN tree \ Tree!Below(S)) \cup moved |->
                  IF r \in moved THEN tree[Origin(r)] ELSE tree[r]]
  BY <1>28, TreeIsTreeIn DEF f, D
<1>32. Tree!Move(S, T)
  BY <1>4, <1>10, <1>29, <1>30, <1>31 DEF Tree!Move, moved, Origin
<1> QED
  BY <1>4, <1>5, <1>18, <1>32 DEF Tree!Next

-----------------------------------------------------------------------------
(* Calls that change one object                                            *)

Object(type, perm, mtime, data) == [type |-> type, perm |-> perm, mtime |-> mtime, data |-> data]

\* The tree with another object in this place.
Replaced(q, node) == [tree EXCEPT ![q] = node]

\* An object of the tree with other permissions.
LEMMA ReplacedPerm ==
    ASSUME NEW q, q \in DOMAIN tree, NEW t, NEW p, NEW m, NEW b, tree[q] = Object(t, p, m, b), NEW x
    PROVE  [tree EXCEPT ![q].perm = x] = Replaced(q, Object(t, x, m, b))
<1> DEFINE g == [tree[q] EXCEPT !.perm = x]
<1>1. [tree EXCEPT ![q].perm = x] = [tree EXCEPT ![q] = g]
  OBVIOUS
<1>2. g = Object(t, x, m, b)
  BY DEF Object
<1> HIDE DEF g
<1> QED
  BY <1>1, <1>2 DEF Replaced

\* The same, with another time.
LEMMA ReplacedTime ==
    ASSUME NEW q, q \in DOMAIN tree, NEW t, NEW p, NEW m, NEW b, tree[q] = Object(t, p, m, b), NEW x
    PROVE  [tree EXCEPT ![q].mtime = x] = Replaced(q, Object(t, p, x, b))
<1> DEFINE g == [tree[q] EXCEPT !.mtime = x]
<1>1. [tree EXCEPT ![q].mtime = x] = [tree EXCEPT ![q] = g]
  OBVIOUS
<1>2. g = Object(t, p, x, b)
  BY DEF Object
<1> HIDE DEF g
<1> QED
  BY <1>1, <1>2 DEF Replaced

\* The same, with other bytes.
LEMMA ReplacedBytes ==
    ASSUME NEW q, q \in DOMAIN tree, NEW t, NEW p, NEW m, NEW b, tree[q] = Object(t, p, m, b), NEW x
    PROVE  [tree EXCEPT ![q].data = x] = Replaced(q, Object(t, p, m, x))
<1> DEFINE g == [tree[q] EXCEPT !.data = x]
<1>1. [tree EXCEPT ![q].data = x] = [tree EXCEPT ![q] = g]
  OBVIOUS
<1>2. g = Object(t, p, m, x)
  BY DEF Object
<1> HIDE DEF g
<1> QED
  BY <1>1, <1>2 DEF Replaced

\* The tree with other bytes in the file at path q, and another time.
Rewritten(q, mtime, data) == [tree EXCEPT ![q].mtime = mtime, ![q].data = data]

\* The same, with other bytes and another time.
LEMMA ReplacedData ==
    ASSUME NEW q, q \in DOMAIN tree, NEW t, NEW p, NEW m, NEW b, tree[q] = Object(t, p, m, b), NEW x, NEW y
    PROVE  Rewritten(q, x, y) = Replaced(q, Object(t, p, x, y))
<1> DEFINE h == Replaced(q, Object(t, p, x, b))
           g == [h[q] EXCEPT !.data = y]
<1>1. [tree EXCEPT ![q].mtime = x, ![q].data = y] = [h EXCEPT ![q].data = y]
  <2> DEFINE f == [tree EXCEPT ![q].mtime = x]
  <2>1. f = h
    BY ReplacedTime
  <2>2. [tree EXCEPT ![q].mtime = x, ![q].data = y] = [f EXCEPT ![q].data = y]
    OBVIOUS
  <2> HIDE DEF f, h
  <2> QED
    BY <2>1, <2>2
<1>2. q \in DOMAIN h /\ h[q] = Object(t, p, x, b) /\ \A o : [h EXCEPT ![q] = o] = Replaced(q, o)
  BY DEF Replaced
<1> HIDE DEF h
<1>3. [h EXCEPT ![q].data = y] = [h EXCEPT ![q] = g]
  OBVIOUS
<1>4. g = Object(t, p, x, y)
  BY <1>2 DEF Object
<1> HIDE DEF g
<1> QED
  BY <1>1, <1>2, <1>3, <1>4 DEF Rewritten

\* What an object of the image is.
LEMMA NodeObject == \A d, i : NodeIn(d, i) = Object(d[i].type, d[i].perm, d[i].mtime, NodeIn(d, i).data)
  BY DEF NodeIn, Object

\* The same entries, and one object that is not what it was: one value of the tree changes.
LEMMA ChangeTree ==
    ASSUME TreeState, Walkable(disk', bitmap'), NEW q \in Seq(Names), NEW i, Reach(disk, q, i),
           DirsIn(disk', bitmap') = DirsIn(disk, bitmap),
           \A j \in DirsIn(disk, bitmap) : Entries(disk', j) = Entries(disk, j),
           \A j \in LiveIn(disk, bitmap) : j # i => NodeIn(disk', j) = NodeIn(disk, j)
    PROVE  /\ Named(disk') /\ q \in DOMAIN tree /\ tree[q] = NodeIn(disk, i)
           /\ tree' = Replaced(q, NodeIn(disk', i))
<1> DEFINE D == DOMAIN tree
           f == [tree EXCEPT ![q] = NodeIn(disk', i)]
<1>1. Walkable(disk, bitmap)
  BY DEF TreeState, SoundState, Walkable
<1>2. \A r \in Seq(Names) : \A j : Reach(disk', r, j) <=> Reach(disk, r, j)
  <2>1. \A k, n, j : Child(disk', bitmap', k, n, j) <=> Child(disk, bitmap, k, n, j)
    BY SameChild
  <2> QED
    BY <1>1, <2>1, SameReach
<1>3. \A r \in Seq(Names) : Translate(disk', r) >= 0 <=> Translate(disk, r) >= 0
  BY <1>2, Leads, Zenon
<1>4. Named(disk')
  BY <1>3 DEF TreeState, Named
<1>5. /\ \A r : r \in D <=> r \in Seq(Names) /\ Translate(disk, r) >= 0
      /\ \A r \in Seq(Names) : \A j : Reach(disk, r, j) => r \in D /\ tree[r] = NodeIn(disk, j)
      /\ tree = [r \in D |-> tree[r]]
  BY TreeIsTreeIn, TreeInFacts DEF TreeState
<1>6. q \in D /\ tree[q] = NodeIn(disk, i)
  BY <1>5
<1>7. \A r : r \in D <=> r \in Seq(Names) /\ Translate(disk', r) >= 0
  BY <1>3, <1>5
<1>8. ASSUME NEW r \in D PROVE f[r] = NodeIn(disk', Translate(disk', r))
  <2> DEFINE j == Translate(disk, r)
  <2>1. r \in Seq(Names) /\ Reach(disk, r, j)
    BY <1>5 DEF Reach
  <2>2. Translate(disk', r) = j
    BY <1>2, <2>1 DEF Reach
  <2> HIDE DEF j
  <2>3. CASE r = q
    <3>1. j = i
      BY <2>1, <2>3 DEF Reach
    <3>2. f[r] = NodeIn(disk', i)
      BY <1>6, <2>3
    <3> QED
      BY <2>2, <3>1, <3>2
  <2>4. CASE r # q
    <3>1. j # i /\ j \in LiveIn(disk, bitmap)
      BY <1>1, <2>1, <2>4, ReachOnce
    <3>2. NodeIn(disk', j) = NodeIn(disk, j)
      BY <3>1
    <3>3. tree[r] = NodeIn(disk, j)
      BY <1>5, <2>1
    <3>4. f[r] = tree[r]
      BY <2>4
    <3> QED
      BY <2>2, <3>2, <3>3, <3>4
  <2> QED
    BY <2>3, <2>4
<1>9. f = [r \in D |-> f[r]]
  BY <1>5
<1> HIDE DEF D, f
<1>10. TreeIn(disk') = f
  BY <1>4, <1>7, <1>8, <1>9, SameTree
<1> QED
  BY <1>4, <1>6, <1>10, TreeIsTreeIn DEF Replaced, D, f

\* Other attributes of an object: its bytes stay, and all other objects do.
LEMMA RetouchTree ==
    ASSUME TreeState, Walkable(disk', bitmap'), NEW q \in Seq(Names), NEW i, Reach(disk, q, i),
           Retouching(disk, bitmap, disk', i), bitmap' = bitmap
    PROVE  /\ Named(disk') /\ q \in DOMAIN tree /\ tree[q] = NodeIn(disk, i)
           /\ tree' = Replaced(q, Object(disk[i].type, disk'[i].perm, disk'[i].mtime, NodeIn(disk, i).data))
<1>1. Sound(disk, bitmap) /\ i \in LiveIn(disk, bitmap) /\ bitmap \subseteq Blocks
  BY DEF TreeState, SoundState, Retouching, Sound, Typed
<1>2. /\ \A b \in Blocks : b # i => disk'[b] = disk[b]
      /\ \A j \in LiveIn(disk, bitmap) :
            /\ disk'[j].kind = "inode" /\ disk'[j].type = disk[j].type
            /\ disk'[j].size = disk[j].size /\ disk'[j].ptrs = disk[j].ptrs
      /\ \A j \in DirsIn(disk, bitmap) : Entries(disk', j) = Entries(disk, j)
  BY <1>1, RetouchingSound
<1>3. DirsIn(disk', bitmap') = DirsIn(disk, bitmap)
  BY <1>1, <1>2 DEF DirsIn, LiveIn, IsInode
<1>4. \A j \in LiveIn(disk, bitmap) : disk[j].type = "file" => \A k \in DataIdx(disk[j]) :
         disk[j].ptrs[k] # i /\ disk'[disk[j].ptrs[k]] = disk[disk[j].ptrs[k]]
  <2> TAKE j \in LiveIn(disk, bitmap)
  <2> HAVE disk[j].type = "file"
  <2> TAKE k \in DataIdx(disk[j])
  <2>1. disk[j].ptrs[k] \in Blocks /\ disk[disk[j].ptrs[k]].kind = "data" /\ disk[i].kind = "inode"
    BY <1>1 DEF Sound, InodesFit, LiveIn, IsInode
  <2> QED
    BY <1>2, <2>1
<1>5. \A j \in LiveIn(disk, bitmap) : j # i => NodeIn(disk', j) = NodeIn(disk, j)
  <2> SUFFICES ASSUME NEW j \in LiveIn(disk, bitmap), j # i PROVE NodeIn(disk', j) = NodeIn(disk, j)
    OBVIOUS
  <2>1. disk'[j] = disk[j]
    BY <1>1, <1>2 DEF LiveIn
  <2> QED
    BY <1>1, <1>4, <2>1, NodeSame
<1>6. NodeIn(disk', i) = Object(disk[i].type, disk'[i].perm, disk'[i].mtime, NodeIn(disk, i).data)
  <2> DEFINE size == disk[i].size
             At(d, n) == RawBytes(d[disk[i].ptrs[(n - 1) \div BlockSize]])[(n - 1) % BlockSize]
             bytes(d) == IF IsFile(disk, i) THEN [n \in 1 .. size |-> At(d, n)] ELSE <<>>
  <2>1. /\ disk'[i].kind = "inode" /\ disk[i].kind = "inode" /\ disk'[i].type = disk[i].type
        /\ disk'[i].size = size /\ disk'[i].ptrs = disk[i].ptrs /\ size \in Nat
    BY <1>1, <1>2, LiveInode
  <2>2. IsFile(disk', i) <=> IsFile(disk, i)
    BY <2>1 DEF IsFile, IsInode
  <2>3. ASSUME IsFile(disk, i), NEW n \in 1 .. size PROVE At(disk', n) = At(disk, n)
    <3>1. n - 1 \in Nat /\ n - 1 < size
      BY <2>1
    <3>2. (n - 1) \div BlockSize \in DataIdx(disk[i])
      BY <2>1, <3>1, ByteIn DEF DataIdx
    <3>3. disk[i].type = "file"
      BY <2>3 DEF IsFile
    <3> QED
      BY <1>1, <1>4, <3>2, <3>3
  <2>4. bytes(disk') = bytes(disk)
    BY <2>3
  <2>5. NodeIn(disk', i).data = bytes(disk') /\ NodeIn(disk, i).data = bytes(disk)
    BY <2>1, <2>2 DEF NodeIn
  <2> HIDE DEF bytes
  <2>6. NodeIn(disk', i).data = NodeIn(disk, i).data
    BY <2>4, <2>5
  <2> QED
    BY <2>1, <2>6, NodeObject
<1> QED
  BY <1>3, <1>2, <1>5, <1>6, ChangeTree

\* chmod changes the permissions of an object, or fails.
LEMMA ChmodTree ==
    ASSUME TreeState, EveryPath, Walkable(disk', bitmap'), NEW path \in Paths, NEW perm \in Perms,
           Chmod(path, perm)
    PROVE  Tree!Next /\ Named(disk')
<1>1. CASE Fail("chmod", path, Resolve(path))
  <2>1. Tree!Refuse
    BY <1>1, FailTree
  <2>2. Named(disk')
    BY <1>1 DEF Fail, TreeState
  <2> QED
    BY <2>1, <2>2 DEF Tree!Next
<1>2. CASE ~Fail("chmod", path, Resolve(path))
  <2> DEFINE q == Parse(path)
             i == Resolve(path)
  <2>1. q \in Parsed /\ q \in Seq(Names) /\ path \in Seq(Names) /\ SoundState
    BY PathTyped DEF Parsed, TreeState
  <2>2. /\ i >= 0 /\ Done("chmod", path, OK) /\ bitmap' = bitmap /\ statVfs' = statVfs
        /\ disk' = [disk EXCEPT ![i] = [@ EXCEPT !.perm = perm]]
        /\ Retouching(disk, bitmap, disk', i)
    BY <1>2, <2>1, ChmodEffect
  <2>3. Translate(disk, q) >= 0 /\ Reach(disk, q, i)
    BY <2>2 DEF Resolve, Reach
  <2>4. Tree!Answer("chmod", q, Tree!OK)
    BY <2>2, SameAnswer, SameErrors DEF Done
  <2>5. i \in LiveIn(disk, bitmap)
    BY <2>1, <2>2, ResolvePath
  <2> HIDE DEF q, i
  <2>6. /\ Named(disk') /\ q \in DOMAIN tree /\ tree[q] = NodeIn(disk, i)
        /\ tree' = Replaced(q, Object(disk[i].type, disk'[i].perm, disk'[i].mtime, NodeIn(disk, i).data))
    BY <2>1, <2>2, <2>3, RetouchTree
  <2>7. disk'[i].perm = perm /\ disk'[i].mtime = disk[i].mtime
    <3>1. disk[i] \in Inode /\ i \in Blocks /\ disk \in [Blocks -> Content]
      BY <2>1, <2>5, LiveInode DEF SoundState, Sound, Typed
    <3> QED
      BY <2>2, <3>1 DEF Inode
  <2>8. tree[q] = Object(disk[i].type, disk[i].perm, disk[i].mtime, NodeIn(disk, i).data)
    BY <2>6, NodeObject
  <2>9. tree' = [tree EXCEPT ![q].perm = perm]
    <3>1. [tree EXCEPT ![q].perm = perm] = Replaced(q, Object(disk[i].type, perm, disk[i].mtime, NodeIn(disk, i).data))
      BY <2>6, <2>8, ReplacedPerm
    <3> QED
      BY <2>6, <2>7, <3>1
  <2>10. Tree!Exists(q)
    BY <2>1, <2>3, TreeTests
  <2>11. Tree!SetPerm(q, perm)
    BY <2>4, <2>9, <2>10 DEF Tree!SetPerm
  <2> QED
    BY <2>1, <2>6, <2>11 DEF Tree!Next
<1> QED
  BY <1>1, <1>2

\* A call on a regular file that finds it.
LEMMA FileReached ==
    ASSUME TreeState, NEW path \in Paths, ResolveFile(path) >= 0
    PROVE  /\ Parse(path) \in Parsed /\ Parse(path) \in Seq(Names) /\ path \in Seq(Names) /\ SoundState
           /\ Reach(disk, Parse(path), ResolveFile(path)) /\ Tree!IsFile(Parse(path))
           /\ ResolveFile(path) \in LiveIn(disk, bitmap) /\ disk[ResolveFile(path)].type = "file"
<1> DEFINE q == Parse(path)
           i == ResolveFile(path)
<1>1. q \in Parsed /\ q \in Seq(Names) /\ path \in Seq(Names) /\ SoundState
  BY PathTyped DEF Parsed, TreeState
<1>2. i \in LiveIn(disk, bitmap) /\ disk[i].type = "file"
  BY <1>1, ResolvePath
<1>3. i = Translate(disk, q)
  BY DEF ResolveFile, Resolve, EISDIR
<1> HIDE DEF q, i
<1>4. i >= 0
  BY DEF i
<1>5. Reach(disk, q, i) /\ Tree!IsFile(q)
  BY <1>1, <1>2, <1>3, <1>4, TreeTests DEF Reach
<1> QED
  BY <1>1, <1>2, <1>5 DEF q, i

\* utime changes the time of a file, or fails.
LEMMA UtimeTree ==
    ASSUME TreeState, EveryPath, Walkable(disk', bitmap'), NEW path \in Paths, NEW time \in Times,
           Utime(path, time)
    PROVE  Tree!Next /\ Named(disk')
<1>1. CASE Fail("utime", path, ResolveFile(path))
  <2>1. Tree!Refuse
    BY <1>1, FailTree
  <2>2. Named(disk')
    BY <1>1 DEF Fail, TreeState
  <2> QED
    BY <2>1, <2>2 DEF Tree!Next
<1>2. CASE ~Fail("utime", path, ResolveFile(path))
  <2> DEFINE q == Parse(path)
             i == ResolveFile(path)
  <2>1. path \in Seq(Names) /\ SoundState
    BY PathTyped DEF TreeState
  <2>2. /\ i >= 0 /\ Done("utime", path, OK) /\ bitmap' = bitmap /\ statVfs' = statVfs
        /\ disk' = [disk EXCEPT ![i] = [@ EXCEPT !.mtime = time]]
        /\ Retouching(disk, bitmap, disk', i)
    BY <1>2, <2>1, UtimeEffect
  <2>3. /\ q \in Parsed /\ q \in Seq(Names) /\ Reach(disk, q, i) /\ Tree!IsFile(q)
        /\ i \in LiveIn(disk, bitmap)
    BY <2>2, FileReached
  <2>4. Tree!Answer("utime", q, Tree!OK)
    BY <2>2, SameAnswer, SameErrors DEF Done
  <2> HIDE DEF q, i
  <2>5. /\ Named(disk') /\ q \in DOMAIN tree /\ tree[q] = NodeIn(disk, i)
        /\ tree' = Replaced(q, Object(disk[i].type, disk'[i].perm, disk'[i].mtime, NodeIn(disk, i).data))
    BY <2>2, <2>3, RetouchTree
  <2>6. disk'[i].perm = disk[i].perm /\ disk'[i].mtime = time
    <3>1. disk[i] \in Inode /\ i \in Blocks /\ disk \in [Blocks -> Content]
      BY <2>1, <2>3, LiveInode DEF SoundState, Sound, Typed
    <3> QED
      BY <2>2, <3>1 DEF Inode
  <2>7. tree[q] = Object(disk[i].type, disk[i].perm, disk[i].mtime, NodeIn(disk, i).data)
    BY <2>5, NodeObject
  <2>8. tree' = [tree EXCEPT ![q].mtime = time]
    <3>1. [tree EXCEPT ![q].mtime = time] = Replaced(q, Object(disk[i].type, disk[i].perm, time, NodeIn(disk, i).data))
      BY <2>5, <2>7, ReplacedTime
    <3> QED
      BY <2>5, <2>6, <3>1
  <2>9. Tree!SetTime(q, time)
    BY <2>3, <2>4, <2>8 DEF Tree!SetTime
  <2> QED
    BY <2>3, <2>5, <2>9 DEF Tree!Next
<1> QED
  BY <1>1, <1>2

\* A file with other blocks or bytes: all other objects stay.
LEMMA RewriteTree ==
    ASSUME TreeState, Walkable(disk', bitmap'), NEW q \in Seq(Names), NEW i, Reach(disk, q, i),
           NEW e, Rewriting(disk, bitmap, e, bitmap', i), Leaves(e)
    PROVE  /\ Named(disk') /\ q \in DOMAIN tree /\ tree[q] = NodeIn(disk, i)
           /\ tree' = Replaced(q, NodeIn(e, i))
<1>1. Sound(disk, bitmap) /\ i \in LiveIn(disk, bitmap)
  BY DEF TreeState, SoundState, Rewriting
<1>2. /\ Sound(e, bitmap') /\ LiveIn(e, bitmap') = LiveIn(disk, bitmap)
      /\ DirsIn(e, bitmap') = DirsIn(disk, bitmap)
      /\ \A j \in LiveIn(disk, bitmap) : j # i =>
            e[j] = disk[j] /\ \A k \in DataIdx(disk[j]) : e[disk[j].ptrs[k]] = disk[disk[j].ptrs[k]]
      /\ \A j \in DirsIn(disk, bitmap) : Entries(e, j) = Entries(disk, j)
  BY <1>1, RewritingSound
<1>3. /\ DirsIn(disk', bitmap') = DirsIn(e, bitmap')
      /\ \A j \in DirsIn(e, bitmap') : Entries(disk', j) = Entries(e, j)
  BY <1>2, LeavesSame
<1>4. \A j \in LiveIn(e, bitmap') : NodeIn(disk', j) = NodeIn(e, j)
  BY <1>2, LeavesTree
<1>5. \A j \in LiveIn(disk, bitmap) : j # i => NodeIn(disk', j) = NodeIn(disk, j)
  <2> SUFFICES ASSUME NEW j \in LiveIn(disk, bitmap), j # i PROVE NodeIn(disk', j) = NodeIn(disk, j)
    OBVIOUS
  <2>1. NodeIn(e, j) = NodeIn(disk, j)
    BY <1>1, <1>2, NodeSame
  <2> QED
    BY <1>2, <1>4, <2>1
<1>6. NodeIn(disk', i) = NodeIn(e, i)
  BY <1>1, <1>2, <1>4
<1>7. /\ DirsIn(disk', bitmap') = DirsIn(disk, bitmap)
      /\ \A j \in DirsIn(disk, bitmap) : Entries(disk', j) = Entries(disk, j)
  BY <1>2, <1>3
<1> QED
  BY <1>5, <1>6, <1>7, ChangeTree

\* These are the bytes of the file of inode i.
HasBytes(d, i, data) ==
    /\ data \in Seq(Byte) /\ d[i].size \in Nat /\ Len(data) = d[i].size
    /\ data = [n \in 1 .. d[i].size |-> data[n]]
    /\ \A n \in 1 .. d[i].size :
          /\ (n - 1) \div BlockSize \in DataIdx(d[i]) /\ (n - 1) % BlockSize \in Offs
          /\ data[n] = RawBytes(d[d[i].ptrs[(n - 1) \div BlockSize]])[(n - 1) % BlockSize]

\* The bytes of a file, in any sound image.
LEMMA DataIn ==
    ASSUME NEW d, NEW m, Sound(d, m), NEW i \in LiveIn(d, m), d[i].type = "file"
    PROVE  HasBytes(d, i, NodeIn(d, i).data)
<1> DEFINE size == d[i].size
           At(n) == RawBytes(d[d[i].ptrs[(n - 1) \div BlockSize]])[(n - 1) % BlockSize]
           data == [n \in 1 .. size |-> At(n)]
<1>1. size \in Nat /\ IsFile(d, i)
  BY LiveInode DEF IsFile, IsInode
<1>2. NodeIn(d, i).data = data
  BY <1>1 DEF NodeIn
<1>3. \A n \in 1 .. size : (n - 1) \div BlockSize \in DataIdx(d[i]) /\ (n - 1) % BlockSize \in Offs
  <2> TAKE n \in 1 .. size
  <2>1. n - 1 \in Nat /\ n - 1 < size
    BY <1>1
  <2> QED
    BY <1>1, <2>1, ByteIn DEF DataIdx
<1>4. \A n \in 1 .. size : At(n) \in Byte
  <2> TAKE n \in 1 .. size
  <2>1. d[d[i].ptrs[(n - 1) \div BlockSize]].kind = "data"
        /\ d[d[i].ptrs[(n - 1) \div BlockSize]] \in Content
    BY <1>3 DEF Sound, Typed, InodesFit
  <2>2. RawBytes(d[d[i].ptrs[(n - 1) \div BlockSize]]) \in [Offs -> Byte]
    BY <2>1, ContentKinds DEF RawBytes, DataBlock
  <2> QED
    BY <1>3, <2>2
<1> HIDE DEF At
<1>5. data \in [1 .. size -> Byte] /\ \A n \in 1 .. size : data[n] = At(n)
  BY <1>4
<1>6. data = [n \in 1 .. size |-> data[n]]
  OBVIOUS
<1> HIDE DEF data, size
<1>7. data \in Seq(Byte) /\ Len(data) = size
  BY <1>1, <1>5
<1> QED
  BY <1>1, <1>2, <1>3, <1>5, <1>6, <1>7 DEF HasBytes, size, At

\* The bytes that truncate leaves: the old ones as far as they go, and any after them.
LEMMA CutOrMore ==
    ASSUME NEW old \in Seq(Byte), NEW data \in Seq(Byte), NEW len \in Nat, Len(data) = len,
           \A n \in 1 .. len : n <= Len(old) => data[n] = old[n]
    PROVE  \E more \in [1 .. len - Len(old) -> Bytes \cup {0, Junk}] :
              data = IF len <= Len(old) THEN SubSeq(old, 1, len) ELSE old \o more
<1> DEFINE size == Len(old)
           more == [m \in 1 .. len - size |-> data[size + m]]
<1>1. size \in Nat /\ Byte = Bytes \cup {0, Junk}
  BY DEF Byte
<1>2. more \in [1 .. len - size -> Byte]
  <2>1. \A m \in 1 .. len - size : size + m \in 1 .. len
    BY <1>1
  <2>2. \A n \in 1 .. len : data[n] \in Byte
    OBVIOUS
  <2> QED
    BY <2>1, <2>2
<1>3. \A m \in 1 .. len - size : more[m] = data[size + m]
  OBVIOUS
<1> HIDE DEF more, size
<1>4. CASE len <= size
  <2> DEFINE part == SubSeq(old, 0 + 1, len)
  <2>1. part \in Seq(Byte) /\ Len(part) = len /\ \A n \in 1 .. len : part[n] = old[n]
    <3>1. len <= Len(old) /\ 0 \in Nat
      BY <1>4 DEF size
    <3>2. LET size0 == IF len > 0 THEN len - 0 ELSE 0
          IN  part \in Seq(Byte) /\ Len(part) = size0 /\ \A n \in 1 .. size0 : part[n] = old[0 + n]
      BY <3>1, PartOf
    <3>3. (IF len > 0 THEN len - 0 ELSE 0) = len
      OBVIOUS
    <3>4. part \in Seq(Byte) /\ Len(part) = len /\ \A n \in 1 .. len : part[n] = old[0 + n]
      BY <3>2, <3>3
    <3>5. \A n \in 1 .. len : 0 + n = n
      OBVIOUS
    <3> QED
      BY <3>4, <3>5
  <2>2. part = SubSeq(old, 1, len)
    OBVIOUS
  <2> HIDE DEF part
  <2>3. \A n \in 1 .. len : data[n] = part[n]
    BY <1>1, <1>4, <2>1 DEF size
  <2>4. data = part
    BY <2>1, <2>3, SameSeq
  <2> QED
    BY <1>1, <1>2, <1>4, <2>2, <2>4 DEF size
<1>5. CASE ~(len <= size)
  <2>1. more \in Seq(Byte) /\ Len(more) = len - size
    BY <1>1, <1>2, <1>5, SMTT(60)
  <2>2. /\ old \o more \in Seq(Byte) /\ Len(old \o more) = len
        /\ \A k \in 1 .. len : (old \o more)[k] = IF k <= size THEN old[k] ELSE more[k - size]
    <3>1. size + Len(more) = len
      BY <1>1, <2>1
    <3> QED
      BY <2>1, <3>1, Joined DEF size
  <2>3. \A k \in 1 .. len : data[k] = (old \o more)[k]
    <3> TAKE k \in 1 .. len
    <3>1. CASE k <= size
      BY <2>2, <3>1 DEF size
    <3>2. CASE ~(k <= size)
      <4>1. k - size \in 1 .. len - size /\ size + (k - size) = k
        BY <1>1, <3>2
      <4>2. more[k - size] = data[k]
        BY <1>3, <4>1
      <4> QED
        BY <2>2, <3>2, <4>2
    <3> QED
      BY <3>1, <3>2
  <2>4. data = old \o more
    BY <2>2, <2>3, SameSeq
  <2> QED
    BY <1>1, <1>2, <1>5, <2>4 DEF size
<1> QED
  BY <1>4, <1>5

\* truncate keeps the bytes of a file as far as it keeps the file, or fails.
LEMMA TruncateTree ==
    ASSUME TreeState, EveryPath, Walkable(disk', bitmap'), NEW path \in Paths, NEW len \in TruncLens,
           Truncate(path, len)
    PROVE  Tree!Next /\ Named(disk')
<1>1. path \in Seq(Names) /\ len \in Int /\ SoundState /\ Sound(disk, bitmap)
  BY PathTyped, ClientAssumption DEF TreeState, SoundState
<1>2. CASE Fail("truncate", path, TruncateStatus(path, len))
  <2>1. Tree!Refuse
    BY <1>1, <1>2, FailTree
  <2>2. Named(disk')
    BY <1>2 DEF Fail, TreeState
  <2> QED
    BY <2>1, <2>2 DEF Tree!Next
<1>3. CASE ~Fail("truncate", path, TruncateStatus(path, len))
  <2> DEFINE q == Parse(path)
             i == ResolveFile(path)
             left == BlocksFor(len)
  <2>1. /\ TruncateStatus(path, len) = OK /\ Done("truncate", path, OK)
        /\ \E ino \in Inode :
              /\ ino.size = len /\ ino.perm = disk[i].perm /\ ino.mtime = disk[i].mtime
              /\ \A k \in 0 .. left - 1 : ino.ptrs[k] = disk[i].ptrs[k]
              /\ Rewriting(disk, bitmap, [disk EXCEPT ![i] = ino], bitmap', i)
              /\ Leaves([disk EXCEPT ![i] = ino])
    BY <1>1, <1>3, TruncateEffect
  <2>2. PICK ino \in Inode :
              /\ ino.size = len /\ ino.perm = disk[i].perm /\ ino.mtime = disk[i].mtime
              /\ \A k \in 0 .. left - 1 : ino.ptrs[k] = disk[i].ptrs[k]
              /\ Rewriting(disk, bitmap, [disk EXCEPT ![i] = ino], bitmap', i)
              /\ Leaves([disk EXCEPT ![i] = ino])
    BY <2>1
  <2> DEFINE e == [disk EXCEPT ![i] = ino]
             old == NodeIn(disk, i).data
             data == NodeIn(e, i).data
  <2>3. i >= 0 /\ len >= 0
    BY <1>1, <2>1, TruncateGranted
  <2>4. /\ q \in Parsed /\ q \in Seq(Names) /\ Reach(disk, q, i) /\ Tree!IsFile(q)
        /\ i \in LiveIn(disk, bitmap) /\ disk[i].type = "file"
    BY <2>3, FileReached
  <2>5. Tree!Answer("truncate", q, Tree!OK)
    BY <2>1, SameAnswer, SameErrors DEF Done
  <2>6. i \in Blocks /\ disk[i].kind = "inode" /\ disk \in [Blocks -> Content]
    BY <1>1, <2>4, LiveInode DEF Sound, Typed
  <2>7. e[i] = ino /\ \A b \in Blocks : b # i => e[b] = disk[b]
    BY <2>6
  <2>8. Rewriting(disk, bitmap, e, bitmap', i) /\ Leaves(e)
    BY <2>2
  <2> HIDE DEF e, i, q
  <2>9. Sound(e, bitmap') /\ i \in LiveIn(e, bitmap')
    BY <1>1, <2>4, <2>8, RewritingSound
  <2>10. e[i].type = "file"
    BY <2>8 DEF Rewriting
  <2>11. /\ Named(disk') /\ q \in DOMAIN tree /\ tree[q] = NodeIn(disk, i)
         /\ tree' = Replaced(q, NodeIn(e, i))
    BY <2>4, <2>8, RewriteTree
  <2>12. HasBytes(disk, i, old)
    BY <1>1, <2>4, DataIn
  <2>13. HasBytes(e, i, data)
    BY <2>9, <2>10, DataIn
  <2> HIDE DEF old, data
  <2>14. \A n \in 1 .. len : n <= Len(old) => data[n] = old[n]
    <3> SUFFICES ASSUME NEW n \in 1 .. len, n <= Len(old) PROVE data[n] = old[n]
      OBVIOUS
    <3> DEFINE k == (n - 1) \div BlockSize
               o == (n - 1) % BlockSize
    <3>1. e[i].size = len /\ DataIdx(e[i]) = 0 .. left - 1
      BY <2>2, <2>7 DEF DataIdx
    <3>2. n \in 1 .. disk[i].size /\ n \in 1 .. e[i].size
      <4>1. disk[i].size \in Nat /\ Len(old) = disk[i].size
        BY <2>12 DEF HasBytes
      <4> QED
        BY <3>1, <4>1
    <3>3. k \in DataIdx(disk[i]) /\ k \in DataIdx(e[i])
      BY <2>12, <2>13, <3>2 DEF HasBytes
    <3>4. old[n] = RawBytes(disk[disk[i].ptrs[k]])[o] /\ data[n] = RawBytes(e[e[i].ptrs[k]])[o]
      BY <2>12, <2>13, <3>2 DEF HasBytes
    <3> HIDE DEF k, o
    <3>5. e[i].ptrs[k] = disk[i].ptrs[k]
      BY <2>2, <2>7, <3>1, <3>3
    <3>6. disk[i].ptrs[k] \in Blocks /\ disk[disk[i].ptrs[k]].kind = "data"
      BY <1>1, <2>4, <3>3 DEF Sound, InodesFit, Typed
    <3>7. e[disk[i].ptrs[k]] = disk[disk[i].ptrs[k]]
      BY <2>6, <2>7, <3>6
    <3> QED
      BY <3>4, <3>5, <3>7
  <2>15. len \in Nat /\ Len(data) = len
    BY <1>1, <2>2, <2>3, <2>7, <2>13 DEF HasBytes
  <2>16. tree[q] = Object(disk[i].type, disk[i].perm, disk[i].mtime, old)
    BY <2>11, NodeObject DEF old
  <2>17. NodeIn(e, i) = Object(disk[i].type, disk[i].perm, disk[i].mtime, data)
    <3>1. e[i].type = disk[i].type /\ e[i].perm = disk[i].perm /\ e[i].mtime = disk[i].mtime
      BY <2>2, <2>4, <2>7, <2>10
    <3> QED
      BY <3>1, NodeObject DEF data
  <2>18. tree' = [tree EXCEPT ![q].data = data]
    <3>1. [tree EXCEPT ![q].data = data] = Replaced(q, Object(disk[i].type, disk[i].perm, disk[i].mtime, data))
      BY <2>11, <2>16, ReplacedBytes
    <3> QED
      BY <2>11, <2>17, <3>1
  <2>19. tree[q].data = old
    BY <2>16 DEF Object
  <2>20. PICK more \in [1 .. len - Len(old) -> Bytes \cup {0, Junk}] :
            data = IF len <= Len(old) THEN SubSeq(old, 1, len) ELSE old \o more
    BY <2>12, <2>13, <2>14, <2>15, CutOrMore DEF HasBytes
  <2>21. tree' = [tree EXCEPT ![q].data = IF len <= Len(@) THEN SubSeq(@, 1, len) ELSE @ \o more]
    BY <2>18, <2>19, <2>20
  <2>22. Tree!Resize(q, len)
    BY <2>3, <2>4, <2>5, <2>19, <2>20, <2>21 DEF Tree!Resize
  <2> QED
    BY <2>4, <2>11, <2>22 DEF Tree!Next
<1> QED
  BY <1>2, <1>3

-----------------------------------------------------------------------------
(* Writes                                                                  *)

\* The ends of an interval.
LEMMA IntervalEnds ==
    ASSUME NEW a \in Int, NEW b \in Int, a <= b
    PROVE  Min(a .. b) = a /\ Max(a .. b) = b
<1>1. \A x \in a .. b : a <= x /\ x <= b /\ x \in Int
  OBVIOUS
<1>2. a \in a .. b /\ b \in a .. b
  OBVIOUS
<1>3. Min(a .. b) = a
  <2>1. Min(a .. b) = CHOOSE x \in a .. b : \A y \in a .. b : x <= y
    BY DEF Min
  <2>2. \A x \in a .. b : (\A y \in a .. b : x <= y) => x = a
    BY <1>1, <1>2
  <2>3. \A y \in a .. b : a <= y
    BY <1>1
  <2> QED
    BY <1>2, <2>1, <2>2, <2>3
<1>4. Max(a .. b) = b
  <2>1. Max(a .. b) = CHOOSE x \in a .. b : \A y \in a .. b : x >= y
    BY DEF Max
  <2>2. \A x \in a .. b : (\A y \in a .. b : x >= y) => x = b
    BY <1>1, <1>2
  <2>3. \A y \in a .. b : b >= y
    BY <1>1
  <2> QED
    BY <1>2, <2>1, <2>2, <2>3
<1> QED
  BY <1>3, <1>4

\* Byte x of the file of an inode, counted from 0.
ByteThrough(d, inode, x) == RawBytes(d[inode.ptrs[x \div BlockSize]])[x % BlockSize]

\* The N blocks of an inode differ, and a write goes through no others.
Covers(inode, N, offset, len) ==
    /\ \A k \in 0 .. N - 1 : inode.ptrs[k] \in Blocks
    /\ \A k, l \in 0 .. N - 1 : inode.ptrs[k] = inode.ptrs[l] => k = l
    /\ WriteIdx(offset, len) \subseteq 0 .. N - 1

\* The inode that a write leaves has the first n pointers of the old one, and its image only that.
KeepsPtrs(inode, old, n) == \A k \in 0 .. n - 1 : inode.ptrs[k] = old.ptrs[k]
DiffersAt(c, d, i)       == \A b \in Blocks : b # i => c[b] = d[b]

\* These are the old bytes but for len of them from offset on.
Overwritten(data, old, size, offset, len, byte) ==
    \A m \in 1 .. size : data[m] = IF m > offset /\ m <= offset + len THEN byte ELSE old[m]

(***************************************************************************)
(* A byte of a file after the buffer of fs_write went out: the client's    *)
(* where it wrote, and the old one elsewhere, provided the file had the    *)
(* block (fs_write reads its first and last blocks only then).             *)
(***************************************************************************)
LEMMA StoredByte ==
    ASSUME NEW image, NEW inode, NEW n \in Nat, NEW offset \in Nat, NEW len \in Nat \ {0}, NEW byte, NEW N \in Nat,
           Covers(inode, N, offset, len), NEW x \in Nat, x \div BlockSize \in 0 .. N - 1,
           x < offset => x \div BlockSize < n,
           x >= offset + len => x \div BlockSize < n
    PROVE  ByteThrough(Stored(image, inode, n, offset, len, byte), inode, x) =
              IF offset <= x /\ x < offset + len THEN byte ELSE ByteThrough(image, inode, x)
<1> DEFINE idx == WriteIdx(offset, len)
           kept(j) == Kept(image, inode, n, idx, j)
           buf(j) == [o \in Offs |-> IF j * BlockSize + o \in offset .. offset + len - 1
                                     THEN byte ELSE kept(j)[o]]
           to(b) == {j \in idx : inode.ptrs[j] = b}
           e == [b \in Blocks |-> IF to(b) = {} THEN image[b]
                                  ELSE [kind |-> "data", bytes |-> buf(CHOOSE j \in to(b) : TRUE)]]
           k == x \div BlockSize
           o == x % BlockSize
           p == inode.ptrs[k]
           first == offset \div BlockSize
           last == (offset + len - 1) \div BlockSize
<1>1. Stored(image, inode, n, offset, len, byte) = e
  BY DEF Stored
<1>2. BlockSize \in Nat \ {0} /\ offset + len - 1 \in Nat
  BY LayoutAssumption
<1>3. k \in 0 .. N - 1 /\ p \in Blocks /\ o \in Offs /\ k * BlockSize + o = x
  <2>1. x = BlockSize * k + o /\ o \in 0 .. BlockSize - 1 /\ k \in Int
    BY <1>2, Division
  <2> HIDE DEF o, k
  <2>2. BlockSize * k = k * BlockSize
    BY <1>2, <2>1
  <2>3. k \in 0 .. N - 1
    BY DEF k
  <2> QED
    BY <2>1, <2>2, <2>3 DEF Offs, Covers
<1>4. idx = first .. last /\ first \in Int /\ last \in Int /\ first <= last
  <2> DEFINE y == offset + len - 1
  <2>1. y \in Int /\ offset <= y /\ offset \in Int
    OBVIOUS
  <2>2. idx = first .. last /\ last = y \div BlockSize
    BY DEF WriteIdx
  <2> HIDE DEF y, idx
  <2>3. offset \div BlockSize \in Int /\ y \div BlockSize \in Int
    BY <1>2, <2>1, Division
  <2>4. offset \div BlockSize <= y \div BlockSize
    BY <1>2, <2>1, DivMonotone
  <2> QED
    BY <2>2, <2>3, <2>4
<1>5. /\ offset <= x => first <= k
      /\ x <= offset + len - 1 => k <= last
      /\ x < offset => k <= first
      /\ x >= offset + len => last <= k
  <2>1. x < offset => x <= offset
    OBVIOUS
  <2>2. x >= offset + len => offset + len - 1 <= x
    OBVIOUS
  <2> QED
    BY <1>2, <2>1, <2>2, DivMonotone
<1> HIDE DEF k, o, first, last
<1>6. CASE k \in idx
  <2>1. to(p) = {k}
    <3>1. \A j \in idx : inode.ptrs[j] = p => j = k
      BY <1>3 DEF Covers
    <3> QED
      BY <1>6, <3>1
  <2> HIDE DEF to, buf, p
  <2>2. (CHOOSE j \in to(p) : TRUE) = k
    BY <2>1
  <2>3. e[p] = [kind |-> "data", bytes |-> buf(k)]
    BY <1>3, <2>1, <2>2
  <2>4. RawBytes(e[p])[o] = IF x \in offset .. offset + len - 1 THEN byte ELSE kept(k)[o]
    BY <1>3, <2>3 DEF RawBytes, buf
  <2>5. ASSUME ~(offset <= x /\ x < offset + len) PROVE kept(k) = RawBytes(image[p])
    <3>1. Min(idx) = first /\ Max(idx) = last
      BY <1>4, IntervalEnds
    <3>2. x < offset \/ x >= offset + len
      BY <2>5
    <3>3. k < n /\ k \in 0 .. N - 1 /\ first <= k /\ k <= last
      BY <1>3, <1>4, <1>6, <3>2 DEF k
    <3>4. (n > 1 /\ k = last) \/ (n > 0 /\ k = first)
      <4>1. CASE x < offset
        BY <1>4, <1>5, <3>3, <4>1
      <4>2. CASE x >= offset + len
        <5>1. first >= 0
          <6>1. 0 \div BlockSize = 0
            BY <1>2, QuotientUnique
          <6>2. 0 \div BlockSize <= offset \div BlockSize
            BY <1>2, DivMonotone
          <6> QED
            BY <6>1, <6>2 DEF first
        <5>2. k = last
          BY <1>4, <1>5, <3>3, <4>2
        <5> QED
          BY <1>4, <3>3, <5>1, <5>2
      <4> QED
        BY <3>2, <4>1, <4>2
    <3> HIDE DEF idx
    <3> QED
      BY <3>1, <3>4 DEF Kept, p
  <2>6. x \in offset .. offset + len - 1 <=> offset <= x /\ x < offset + len
    OBVIOUS
  <2> HIDE DEF e, kept
  <2> QED
    BY <1>1, <2>4, <2>5, <2>6 DEF p, k, o, ByteThrough
<1>7. CASE k \notin idx
  <2>1. to(p) = {}
    <3>1. \A j \in idx : inode.ptrs[j] = p => j = k
      BY <1>3 DEF Covers
    <3> QED
      BY <1>7, <3>1
  <2>2. e[p] = image[p]
    BY <1>3, <2>1
  <2>3. ~(offset <= x /\ x < offset + len)
    <3>1. x < offset + len => x <= offset + len - 1
      OBVIOUS
    <3> QED
      BY <1>3, <1>4, <1>5, <1>7, <3>1
  <2> HIDE DEF e
  <2> QED
    BY <1>1, <2>2, <2>3 DEF p, k, o, ByteThrough
<1> QED
  BY <1>6, <1>7

\* The inode after a write: the old one with a size that covers it, and its old pointers.
LEMMA GrownInode ==
    ASSUME NEW old \in Inode, NEW fresh, NEW need \in Int, DOMAIN fresh = 1 .. need,
           BlocksFor(old.size) <= MaxPtrs, NEW end \in Nat, NEW now
    PROVE  LET ino == Grown(old, fresh, end, now)
           IN  /\ ino.type = old.type /\ ino.perm = old.perm /\ ino.mtime = now
               /\ ino.size = IF end > old.size THEN end ELSE old.size
               /\ KeepsPtrs(ino, old, BlocksFor(old.size))
<1> DEFINE n == BlocksFor(old.size)
           ptrs == [k \in PtrIdx |-> IF k - n + 1 \in 1 .. need THEN fresh[k - n + 1] ELSE old.ptrs[k]]
           size == IF end > old.size THEN end ELSE old.size
           ino == [old EXCEPT !.size = size, !.mtime = now, !.ptrs = ptrs]
<1>1. Grown(old, fresh, end, now) = ino
  BY DEF Grown
<1>2. n \in Nat /\ n <= MaxPtrs /\ MaxPtrs \in Nat
  BY BlocksForProperty, LayoutAssumption DEF Inode
<1> HIDE DEF n
<1>3. \A k \in 0 .. n - 1 : k \in PtrIdx /\ k - n + 1 \notin 1 .. need
  BY <1>2 DEF PtrIdx
<1>4. \A k \in 0 .. n - 1 : ptrs[k] = old.ptrs[k]
  BY <1>3
<1> HIDE DEF ptrs, size
<1>5. ino.type = old.type /\ ino.perm = old.perm /\ ino.mtime = now /\ ino.size = size /\ ino.ptrs = ptrs
  BY DEF Inode
<1> HIDE DEF ino
<1> QED
  BY <1>1, <1>4, <1>5 DEF size, n, KeepsPtrs

\* The bytes of the file after a write: the client's between two offsets, elsewhere the old ones.
LEMMA WrittenBytes ==
    ASSUME Sound(disk, bitmap), NEW i \in LiveIn(disk, bitmap), disk[i].type = "file",
           NEW offset \in Nat, NEW len \in Nat \ {0}, NEW byte, offset <= disk[i].size,
           NEW ino \in Inode, ino.size = IF offset + len > disk[i].size THEN offset + len ELSE disk[i].size,
           KeepsPtrs(ino, disk[i], BlocksFor(disk[i].size)), NEW c, DiffersAt(c, disk, i),
           NEW e, e = Stored(c, ino, BlocksFor(disk[i].size), offset, len, byte),
           NEW u, Rewriting(disk, bitmap, e, u, i), e[i] = ino,
           NEW old, HasBytes(disk, i, old), NEW data, HasBytes(e, i, data)
    PROVE  Overwritten(data, old, ino.size, offset, len, byte)
<1> DEFINE size == disk[i].size
           n == BlocksFor(size)
           N == BlocksFor(ino.size)
           need == BlocksNeeded(size, offset, len)
           first == offset \div BlockSize
           last == (offset + len - 1) \div BlockSize
<1>1. /\ size \in Nat /\ n \in Nat /\ i \in Blocks /\ disk[i].kind = "inode"
      /\ disk \in [Blocks -> Content] /\ ino.size \in Nat
  BY LiveInode DEF Sound, Typed, Inode
<1>2. N \in Nat /\ WriteIdx(offset, len) \subseteq 0 .. N - 1
  <2>1. /\ need \in Int
        /\ N = IF need > 0 THEN n + need ELSE n
        /\ first \in Nat /\ last = n + need - 1
    BY <1>1, WriteSizes, ZenonT(60)
  <2>2. WriteIdx(offset, len) = first .. last
    BY DEF WriteIdx
  <2> HIDE DEF n, N, need, first, last
  <2>3. N \in Nat /\ last <= N - 1 /\ last \in Int
    BY <1>1, <2>1
  <2>4. \A j \in first .. last : j \in 0 .. N - 1
    BY <2>1, <2>3
  <2> QED
    BY <2>2, <2>3, <2>4
<1>3. Covers(ino, N, offset, len)
  <2>1. /\ \A k \in 0 .. N - 1 : ino.ptrs[k] \in Blocks
        /\ \A k, l \in 0 .. N - 1 : ino.ptrs[k] = ino.ptrs[l] => k = l
    BY DEF Rewriting, DataBlocks, DataIdx
  <2> QED
    BY <1>2, <2>1 DEF Covers
<1>4. e = Stored(c, ino, n, offset, len, byte)
  OBVIOUS
<1> SUFFICES ASSUME NEW m \in 1 .. ino.size
             PROVE  data[m] = IF m > offset /\ m <= offset + len THEN byte ELSE old[m]
  BY DEF Overwritten
<1> DEFINE x == m - 1
           k == x \div BlockSize
           o == x % BlockSize
<1>5. x \in Nat /\ x < ino.size
  BY <1>1
<1>6. /\ k \in 0 .. N - 1
      /\ data[m] = RawBytes(e[ino.ptrs[k]])[o]
  BY <1>1 DEF HasBytes, DataIdx
<1>7. x < size => /\ k \in 0 .. n - 1 /\ old[m] = RawBytes(disk[disk[i].ptrs[k]])[o]
                  /\ disk[disk[i].ptrs[k]].kind = "data" /\ disk[i].ptrs[k] \in Blocks
  <2> SUFFICES ASSUME x < size
               PROVE  /\ k \in 0 .. n - 1 /\ old[m] = RawBytes(disk[disk[i].ptrs[k]])[o]
                      /\ disk[disk[i].ptrs[k]].kind = "data" /\ disk[i].ptrs[k] \in Blocks
    OBVIOUS
  <2>1. m \in 1 .. disk[i].size
    BY <1>1
  <2>2. k \in DataIdx(disk[i]) /\ old[m] = RawBytes(disk[disk[i].ptrs[k]])[o]
    BY <2>1 DEF HasBytes
  <2> HIDE DEF k, o
  <2> QED
    BY <2>2 DEF Sound, InodesFit, Typed, DataIdx
<1>8. (x < offset \/ x >= offset + len) => x < size
  BY <1>1, <1>5
<1>9. (x < offset \/ x >= offset + len) => k < n
  <2>1. x < size => k \in 0 .. n - 1
    BY <1>7
  <2>2. n \in Int /\ (k \in 0 .. n - 1 => k < n)
    BY <1>1
  <2> QED
    BY <1>8, <2>1, <2>2
<1>10. RawBytes(e[ino.ptrs[k]])[o] =
          IF offset <= x /\ x < offset + len THEN byte ELSE RawBytes(c[ino.ptrs[k]])[o]
  <2>1. k = x \div BlockSize /\ o = x % BlockSize
    OBVIOUS
  <2> HIDE DEF N, n, x, k, o
  <2>2. /\ x \div BlockSize \in 0 .. N - 1
        /\ x < offset => x \div BlockSize < n
        /\ x >= offset + len => x \div BlockSize < n
    BY <1>6, <1>9, <2>1
  <2>3. ByteThrough(Stored(c, ino, n, offset, len, byte), ino, x) =
           IF offset <= x /\ x < offset + len THEN byte ELSE ByteThrough(c, ino, x)
    BY <1>1, <1>2, <1>3, <1>5, <2>2, StoredByte
  <2> QED
    BY <1>4, <2>1, <2>3 DEF ByteThrough
<1> HIDE DEF k, o
<1>11. CASE offset <= x /\ x < offset + len
  <2>1. m > offset /\ m <= offset + len
    BY <1>5, <1>11
  <2> QED
    BY <1>6, <1>10, <1>11, <2>1
<1>12. CASE ~(offset <= x /\ x < offset + len)
  <2>1. x < size /\ ~(m > offset /\ m <= offset + len)
    BY <1>5, <1>8, <1>12
  <2>2. ino.ptrs[k] = disk[i].ptrs[k]
    BY <1>7, <2>1 DEF KeepsPtrs
  <2>3. c[ino.ptrs[k]] = disk[disk[i].ptrs[k]]
    BY <1>7, <2>1, <2>2, <1>1 DEF DiffersAt
  <2> QED
    BY <1>6, <1>7, <1>10, <1>12, <2>1, <2>3
<1> QED
  BY <1>11, <1>12

\* write puts the bytes where it was asked to, or fails.
LEMMA WriteTree ==
    ASSUME TreeState, EveryPath, Walkable(disk', bitmap'), NEW path \in Paths, NEW offset \in IoOffsets,
           NEW len \in IoLens, NEW byte \in Bytes, NEW now \in Times, Write(path, offset, len, byte, now)
    PROVE  Tree!Next /\ Named(disk')
<1>1. path \in Seq(Names) /\ offset \in Nat /\ len \in Nat \ {0} /\ SoundState /\ Sound(disk, bitmap)
  BY PathTyped, ClientAssumption DEF TreeState, SoundState
<1>2. CASE Fail("write", path, WriteStatus(path, offset, len))
  <2>1. Tree!Refuse
    BY <1>1, <1>2, FailTree
  <2>2. Named(disk')
    BY <1>2 DEF Fail, TreeState
  <2> QED
    BY <2>1, <2>2 DEF Tree!Next
<1>3. CASE ~Fail("write", path, WriteStatus(path, offset, len))
  <2> DEFINE q == Parse(path)
             i == ResolveFile(path)
             size == disk[i].size
             need == BlocksNeeded(disk[i].size, offset, len)
             Ino(fresh) == Grown(disk[i], fresh, offset + len, now)
             Image(fresh) == Stored([disk EXCEPT ![i] = Ino(fresh)], Ino(fresh),
                                    BlocksFor(disk[i].size), offset, len, byte)
  <2>1. /\ WriteStatus(path, offset, len) = OK /\ Done("write", path, len) /\ need \in Int
        /\ \E fresh \in FirstFree(bitmap, need) :
              /\ Image(fresh)[i] = Ino(fresh)
              /\ Rewriting(disk, bitmap, Image(fresh), bitmap', i) /\ Leaves(Image(fresh))
    BY <1>1, <1>3, WriteEffect
  <2>2. PICK fresh \in FirstFree(bitmap, need) :
              /\ Image(fresh)[i] = Ino(fresh)
              /\ Rewriting(disk, bitmap, Image(fresh), bitmap', i) /\ Leaves(Image(fresh))
    BY <2>1
  <2> DEFINE ino == Ino(fresh)
             c == [disk EXCEPT ![i] = ino]
             e == Image(fresh)
             old == NodeIn(disk, i).data
             data == NodeIn(e, i).data
             end == offset + len
             bytes == [m \in 1 .. len |-> byte]
  <2>3. /\ e = Stored(c, ino, BlocksFor(disk[i].size), offset, len, byte)
        /\ DiffersAt(c, disk, i)
    BY <1>1 DEF Sound, Typed, DiffersAt
  <2>4. i \in LiveIn(disk, bitmap) /\ disk[i].type = "file" /\ offset <= size
    BY <1>1, <2>1, WriteGranted
  <2>5. disk[i] \in Inode /\ size \in Nat /\ BlocksFor(disk[i].size) <= MaxPtrs /\ i \in Blocks
    BY <1>1, <2>4, LiveInode
  <2>6. i >= 0
    BY <2>5 DEF Blocks
  <2>7. q \in Parsed /\ q \in Seq(Names) /\ Reach(disk, q, i) /\ Tree!IsFile(q)
    BY <2>6, FileReached
  <2>8. /\ ino.type = disk[i].type /\ ino.perm = disk[i].perm /\ ino.mtime = now
        /\ ino.size = IF end > size THEN end ELSE size
        /\ KeepsPtrs(ino, disk[i], BlocksFor(size))
    <3>1. fresh \in [1 .. need -> Blocks \ bitmap]
      BY <2>1, FirstFreeProperty
    <3> HIDE DEF need, i
    <3>2. DOMAIN fresh = 1 .. need /\ end \in Nat /\ need \in Int
      BY <1>1, <2>1, <3>1
    <3> HIDE DEF end
    <3> QED
      BY <2>5, <3>2, GrownInode DEF end
  <2>9. Rewriting(disk, bitmap, e, bitmap', i) /\ Leaves(e) /\ e[i] = ino
    BY <2>2
  <2>10. Tree!Answer("write", q, len)
    BY <2>1, SameAnswer DEF Done
  <2> HIDE DEF i, q, c, e, ino, Ino, Image, need
  <2>11. Sound(e, bitmap') /\ i \in LiveIn(e, bitmap') /\ e[i].type = "file"
    BY <1>1, <2>4, <2>8, <2>9, RewritingSound
  <2>12. ino \in Inode
    BY <2>9, <2>11, LiveInode
  <2>13. /\ Named(disk') /\ q \in DOMAIN tree /\ tree[q] = NodeIn(disk, i)
         /\ tree' = Replaced(q, NodeIn(e, i))
    BY <2>7, <2>9, RewriteTree
  <2>14. HasBytes(disk, i, old)
    BY <1>1, <2>4, DataIn
  <2>15. HasBytes(e, i, data)
    BY <2>11, DataIn
  <2> HIDE DEF old, data
  <2>16. Overwritten(data, old, ino.size, offset, len, byte)
    BY <1>1, <2>3, <2>4, <2>8, <2>9, <2>12, <2>14, <2>15, WrittenBytes
  <2>17. tree[q] = Object(disk[i].type, disk[i].perm, disk[i].mtime, old)
    BY <2>13, NodeObject DEF old
  <2>18. NodeIn(e, i) = Object(disk[i].type, disk[i].perm, now, data)
    BY <2>8, <2>9, NodeObject DEF data
  <2>19. tree' = Rewritten(q, now, data)
    <3>1. Rewritten(q, now, data) = Replaced(q, Object(disk[i].type, disk[i].perm, now, data))
      BY <2>13, <2>17, ReplacedData
    <3> QED
      BY <2>13, <2>18, <3>1
  <2>20. tree[q].data = old /\ Len(old) = size
    <3>1. tree[q].data = old
      BY <2>17 DEF Object
    <3>2. Len(old) = disk[i].size
      BY <2>14 DEF HasBytes
    <3> QED
      BY <3>1, <3>2
  <2>21. bytes \in Seq(Bytes) /\ Len(bytes) = len /\ \A m \in 1 .. len : bytes[m] = byte
    BY <1>1
  <2>22. bytes \in {[n \in 1 .. l |-> b] : l \in IoLens, b \in Bytes}
    OBVIOUS
  <2> HIDE DEF bytes
  <2>23. data = [m \in 1 .. (IF end > size THEN end ELSE size) |->
                   IF m > offset /\ m <= end THEN bytes[m - offset] ELSE old[m]]
    <3>1. data = [m \in 1 .. ino.size |-> data[m]]
      BY <2>9, <2>15 DEF HasBytes
    <3>2. ASSUME NEW m \in 1 .. ino.size
          PROVE  data[m] = IF m > offset /\ m <= end THEN bytes[m - offset] ELSE old[m]
      <4>1. m \in Int /\ (m > offset /\ m <= end => m - offset \in 1 .. len)
        BY <1>1
      <4> QED
        BY <2>16, <2>21, <4>1 DEF Overwritten
    <3>3. [m \in 1 .. ino.size |-> data[m]]
             = [m \in 1 .. ino.size |-> IF m > offset /\ m <= end THEN bytes[m - offset] ELSE old[m]]
      BY <3>2
    <3> QED
      BY <2>8, <3>1, <3>3
  <2>24. Tree!Store(q, offset, bytes, now)
    BY <2>4, <2>7, <2>10, <2>19, <2>20, <2>21, <2>23 DEF Tree!Store, Rewritten
  <2> QED
    BY <2>7, <2>13, <2>22, <2>24 DEF Tree!Next
<1> QED
  BY <1>2, <1>3

-----------------------------------------------------------------------------
(* The refinement                                                          *)

\* rename moves an object and all below it, or fails.
LEMMA RenameTree ==
    ASSUME TreeState, EveryPath, Walkable(disk', bitmap'), NEW src \in Paths, src # <<>>,
           NEW dst \in Paths, Rename(src, dst)
    PROVE  Tree!Next /\ Named(disk')
<1>1. CASE Fail("rename", src, RenameStatus(src, dst))
  <2>1. Tree!Refuse
    BY <1>1, FailTree
  <2>2. Named(disk')
    BY <1>1 DEF Fail, TreeState
  <2> QED
    BY <2>1, <2>2 DEF Tree!Next
<1>2. CASE ~Fail("rename", src, RenameStatus(src, dst))
  BY <1>2, MoveTree
<1> QED
  BY <1>1, <1>2

\* The tree of the image that mkfs leaves: its root, a directory.
LEMMA InitTree == ASSUME EveryPath PROVE Init => TreeState /\ Tree!Init
<1> SUFFICES ASSUME Init PROVE TreeState /\ Tree!Init
  OBVIOUS
<1>1. PICK perm \in Perms, mtime \in Times : disk = EmptyImage(perm, mtime)
  BY DEF Init
<1>2. bitmap = InUse /\ SoundState /\ NamesIn(disk, bitmap)
  BY InitKeeps, InitNames DEF Init
<1>3. DirsIn(disk, bitmap) = {RootInode} /\ Slot(disk, RootInode) = {}
  BY <1>1, <1>2, EmptyImageSound
<1>4. Walkable(disk, bitmap)
  BY <1>2 DEF Walkable, SoundState
<1>5. \A q \in Seq(Names) : \A j : Reach(disk, q, j) <=> q = <<>> /\ j = RootInode
  <2>1. \A i, n, j : ~Child(disk, bitmap, i, n, j)
    BY <1>3 DEF Child
  <2> DEFINE G == {q \in Seq(Names) : \A j : Reach(disk, q, j) <=> q = <<>> /\ j = RootInode}
  <2>2. <<>> \in G
    BY ReachRoot
  <2>3. \A q \in Seq(Names) : \A n \in Names : q \in G => Append(q, n) \in G
    BY <1>4, <2>1, ReachAppend, AppendFacts
  <2> HIDE DEF G
  <2>4. \A q \in Seq(Names) : q \in G
    BY <2>2, <2>3, PathInduction
  <2> QED
    BY <2>4 DEF G
<1>6. <<>> \in Parsed
  <2> DEFINE Cut == {n \in Names : Truncated[n] = n}
  <2>1. \A r \in Seq(Cut) : Len(r) <= MaxPathLen => r \in Parsed
    BY DEF EveryPath
  <2> HIDE DEF Cut
  <2>2. <<>> \in Seq(Cut) /\ Len(<<>>) <= MaxPathLen
    BY LayoutAssumption
  <2> QED
    BY <2>1, <2>2, Zenon
<1>7. Named(disk)
  <2>1. \A q \in Seq(Names) : Translate(disk, q) >= 0 => q = <<>>
    BY <1>5 DEF Reach
  <2> QED
    BY <1>6, <2>1 DEF Named
<1>8. TreeState
  BY <1>2, <1>7 DEF TreeState
<1>9. \E p \in Perms, t \in Times :
         tree = [q \in {<<>>} |-> [type |-> "dir", perm |-> p, mtime |-> t, data |-> <<>>]]
  <2> DEFINE node == [type |-> "dir", perm |-> perm, mtime |-> mtime, data |-> <<>>]
             f == [q \in {<<>>} |-> node]
  <2>1. NodeIn(disk, RootInode) = node
    <3>1. disk[RootInode] = NewInode("dir", perm, mtime, RootBlock)
      BY <1>1, EmptyImageBlocks
    <3>2. /\ disk[RootInode].type = "dir" /\ disk[RootInode].perm = perm /\ disk[RootInode].mtime = mtime
      BY <3>1 DEF NewInode
    <3> QED
      BY <3>2 DEF NodeIn, IsFile
  <2>2. \A q : q \in {<<>>} <=> q \in Seq(Names) /\ Translate(disk, q) >= 0
    <3>1. \A q \in Seq(Names) : Translate(disk, q) >= 0 <=> \E j : Reach(disk, q, j)
      BY Leads
    <3>2. <<>> \in Seq(Names)
      OBVIOUS
    <3> QED
      BY <1>5, <3>1, <3>2
  <2>3. Translate(disk, <<>>) = RootInode
    BY TranslateRoot
  <2> HIDE DEF node
  <2>4. \A q \in {<<>>} : f[q] = NodeIn(disk, Translate(disk, q))
    BY <2>1, <2>3
  <2>5. f = [q \in {<<>>} |-> f[q]]
    OBVIOUS
  <2> HIDE DEF f
  <2>6. TreeIn(disk) = f
    BY <1>7, <2>2, <2>4, <2>5, SameTree
  <2> QED
    BY <2>6, TreeIsTreeIn DEF f, node
<1>10. Tree!Init
  <2>1. reply = [op |-> "init", path |-> <<>>, ret |-> OK, data |-> <<>>]
    BY DEF Init
  <2>2. Parse(<<>>) = <<>>
    <3>1. Len(<<>>) = 0 /\ 0 <= MaxPathLen
      BY LayoutAssumption
    <3>2. Parse(<<>>) = [k \in 1 .. 0 |-> Truncated[<<>>[k]]]
      BY <3>1 DEF Parse
    <3> QED
      BY <3>2
  <2>3. [reply EXCEPT !.path = Parse(@)] = [op |-> "init", path |-> <<>>, ret |-> Tree!OK, data |-> <<>>]
    BY <2>1, <2>2, SameErrors
  <2> QED
    BY <1>9, <2>3 DEF Tree!Init
<1> QED
  BY <1>8, <1>10

\* Every call is a call of the tree.
LEMMA NextTree ==
    ASSUME TreeState, EveryPath, Walkable(disk', bitmap'), Next
    PROVE  (Tree!Next \/ Tree!Overreach) /\ Named(disk')
<1>1. \A path \in Below : path \in Paths /\ path # <<>>
  BY DEF Below
<1>2. ASSUME NEW path \in Below, NEW perm \in Perms, NEW now \in Times,
             Create(path, perm, now) \/ Mkdir(path, perm, now)
      PROVE  Tree!Next /\ Named(disk')
  BY <1>1, <1>2, CreateTree, MkdirTree, Zenon
<1>3. ASSUME NEW path \in Below, Unlink(path) \/ Rmdir(path)
      PROVE  (Tree!Next \/ Tree!Overreach) /\ Named(disk')
  BY <1>1, <1>3, RemoveTree, Zenon
<1>4. ASSUME NEW src \in Below, NEW dst \in Paths, Rename(src, dst)
      PROVE  Tree!Next /\ Named(disk')
  BY <1>1, <1>4, RenameTree, Zenon
<1>5. ASSUME NEW path \in Paths, NEW perm \in Perms, Chmod(path, perm)
      PROVE  Tree!Next /\ Named(disk')
  BY <1>5, ChmodTree, Zenon
<1>6. ASSUME NEW path \in Paths, NEW time \in Times, Utime(path, time)
      PROVE  Tree!Next /\ Named(disk')
  BY <1>6, UtimeTree, Zenon
<1>7. ASSUME NEW path \in Paths, NEW len \in TruncLens, Truncate(path, len)
      PROVE  Tree!Next /\ Named(disk')
  BY <1>7, TruncateTree, Zenon
<1>8. ASSUME NEW path \in Paths, NEW offset \in IoOffsets, NEW len \in IoLens, Read(path, offset, len)
      PROVE  Tree!Next /\ Named(disk')
  <2>1. disk' = disk
    BY <1>8 DEF Read, Fail
  <2>2. Named(disk')
    BY <2>1 DEF TreeState
  <2> QED
    BY <1>8, <2>2, ReadTree, Zenon
<1>9. ASSUME NEW path \in Paths, NEW offset \in IoOffsets, NEW len \in IoLens, NEW byte \in Bytes,
             NEW now \in Times, Write(path, offset, len, byte, now)
      PROVE  Tree!Next /\ Named(disk')
  BY <1>9, WriteTree, Zenon
<1>10. CASE (\E path \in Paths : Getattr(path) \/ Readdir(path)) \/ Statfs \/ Mount
  <2>1. disk' = disk
    BY <1>10 DEF Getattr, Readdir, Statfs, Mount, Fail
  <2>2. Named(disk')
    BY <2>1 DEF TreeState
  <2> QED
    BY <1>10, <2>2, LookTree, Zenon
<1> QED
  BY <1>2, <1>3, <1>4, <1>5, <1>6, <1>7, <1>8, <1>9, <1>10, Zenon DEF Next

\* A step keeps the invariant, and is one of the tree, Overreach included, or leaves it as it is.
LEMMA StepTree ==
    ASSUME TreeState, EveryPath, [Next]_vars
    PROVE  TreeState' /\ [Tree!Next \/ Tree!Overreach]_(Tree!vars)
<1>1. SoundState' /\ NamesIn(disk', bitmap')
  BY NextKeeps, NextNames DEF TreeState
<1>2. Walkable(disk', bitmap')
  BY <1>1 DEF Walkable, SoundState
<1>3. CASE Next
  <2>1. (Tree!Next \/ Tree!Overreach) /\ Named(disk')
    BY <1>2, <1>3, NextTree
  <2> QED
    BY <1>1, <2>1 DEF TreeState
<1>4. CASE UNCHANGED vars
  <2>1. disk' = disk /\ reply' = reply
    BY <1>4 DEF vars
  <2>2. tree' = tree
    BY <2>1, TreeIsTreeIn
  <2>3. Named(disk')
    BY <2>1 DEF TreeState
  <2>4. Tree!vars' = Tree!vars
    BY <2>1, <2>2 DEF Tree!vars
  <2> QED
    BY <1>1, <2>3, <2>4 DEF TreeState
<1> QED
  BY <1>3, <1>4

(***************************************************************************)
(* The handlers implement the tree that their callers see, on disks of     *)
(* every size: whatever blocks and inodes were reused in between, each     *)
(* call does what it is for to the object it names, and to no other, and   *)
(* its answer says so.                                                     *)
(***************************************************************************)
THEOREM TreeImplemented == ASSUME EveryPath PROVE Spec => ImplementsTree
<1>1. Init => TreeState /\ Tree!Init
  BY InitTree
<1>2. TreeState /\ [Next]_vars => TreeState' /\ [Tree!Next \/ Tree!Overreach]_(Tree!vars)
  BY StepTree
<1> QED
  BY <1>1, <1>2, PTL DEF Spec, ImplementsTree

===============================================================================
