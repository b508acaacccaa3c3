------------------------- MODULE FileSystemStepProofs -------------------------
(***************************************************************************)
(* What one call changes: every step of FileSystem is one of five kinds of *)
(* change to what is reached from the root, or none.  From that follow the *)
(* uniqueness of names, what calls leak, what the free count does, and     *)
(* where paths lead.                                                       *)
(***************************************************************************)
EXTENDS FileSystemProofs

-----------------------------------------------------------------------------
(* The five kinds of change                                                *)

NameAt(d, i, s) == Entries(d, i)[s].name

\* A name that can enter directory p: cut to its length, and on none of the entries there.
FreshName(d, p, name) ==
    /\ name = Truncated[name]
    /\ \A t \in Slot(d, p) : NameAt(d, p, t) # name

Change(image) ==
    \/ \E p, s, ent, N : /\ Linking(disk, bitmap, image, p, s, ent, N)
                         /\ FreshName(disk, p, ent.name) /\ bitmap' = bitmap \cup N
    \/ \E p, s : /\ Unlinking(disk, bitmap, image, p, s)
                 /\ p # To(disk, p, s) /\ bitmap' = bitmap \ Freed(disk, To(disk, p, s))
    \/ \E p, s, ent : /\ Renaming(disk, bitmap, image, p, s, ent)
                      /\ FreshName(disk, p, ent.name) /\ bitmap' = bitmap
    \/ \E i : Retouching(disk, bitmap, image, i) /\ bitmap' = bitmap
    \/ \E i : Rewriting(disk, bitmap, image, bitmap', i)

\* A step changes nothing on disk, or leaves an image that differs in one of these ways.
Changes ==
    \/ disk' = disk /\ bitmap' = bitmap
    \/ \E image : Leaves(image) /\ Change(image)

\* parse() cuts every component, so the last one is as long as it can be stored.
LEMMA LeafCut ==
    ASSUME NEW path \in Seq(Names), path # <<>>
    PROVE  Leaf(path) = Truncated[Leaf(path)]
<1> USE LayoutAssumption
<1> DEFINE q == Parse(path)
<1>1. q # <<>> /\ q \in Seq(Names)
  BY ParseProperty
<1>2. \A k \in DOMAIN q : q[k] = Truncated[path[k]] /\ path[k] \in Names
  BY DEF Parse
<1> HIDE DEF q
<1>3. Last(q) = q[Len(q)] /\ Len(q) \in DOMAIN q
  BY <1>1 DEF Last
<1>4. Truncated[Truncated[path[Len(q)]]] = Truncated[path[Len(q)]]
  BY <1>2, <1>3
<1> QED
  BY <1>2, <1>3, <1>4 DEF Leaf, q

\* A directory without a match has no entry of that name.
LEMMA NoMatch ==
    ASSUME NEW d, NEW i, NEW name, Matches(d, i, name) = {}
    PROVE  \A t \in Slot(d, i) : NameAt(d, i, t) # name
  BY DEF Matches, UsedSlots, FreeSlots, Slot, NameAt

\* The EEXIST test of create and mkdir.
LEMMA CreateFresh ==
    ASSUME SoundState, NEW path \in Seq(Names), path # <<>>, NEW n \in Int, CreateStatus(path, n) = OK
    PROVE  FreshName(disk, ResolveParent(path), Leaf(path))
<1>1. ResolveParent(path) \in Int
  BY ResolveBelow
<1>2. Matches(disk, ResolveParent(path), Leaf(path)) = {}
  BY <1>1 DEF CreateStatus, OK, ENOTDIR, EEXIST
<1> QED
  BY <1>2, LeafCut, NoMatch DEF FreshName

\* The EEXIST test of rename, in the directory that both paths share.
LEMMA RenameFresh ==
    ASSUME SoundState, NEW src \in Seq(Names), src # <<>>, NEW dst \in Seq(Names),
           RenameStatus(src, dst) = OK
    PROVE  /\ dst # <<>> /\ ResolveParent(dst) = ResolveParent(src)
           /\ FreshName(disk, ResolveParent(src), Leaf(dst))
<1> DEFINE p == ResolveParent(src)
           q == Parse(dst)
<1>1. /\ Resolve(src) >= 0 /\ Resolve(dst) < 0 /\ dst # <<>>
      /\ Front(Parse(src)) = Front(q)
  BY RenameGranted
<1>2. Parse(src) # <<>> /\ q # <<>> /\ Parse(src) \in Seq(Names) /\ q \in Seq(Names)
  BY <1>1, ParseProperty
<1>3. ResolveParent(dst) = p /\ p = Translate(disk, Front(q))
  BY <1>1, <1>2 DEF ResolveParent, TranslateParent
<1>4. p \in DirsIn(disk, bitmap)
  BY <1>1, ResolveBelow
<1>5. p \in Nat /\ IsDir(disk, p)
  <2>1. p \in LiveIn(disk, bitmap) /\ disk[p].type = "dir"
    BY <1>4 DEF DirsIn
  <2>2. p \in Blocks /\ disk[p].kind = "inode"
    BY <2>1, LiveInode DEF SoundState
  <2> QED
    BY <2>1, <2>2, LayoutAssumption DEF Blocks, IsDir, IsInode
<1>6. Resolve(dst) = Step(disk, p, Leaf(dst))
  BY <1>2, <1>3, TranslateLast DEF Resolve, Leaf
<1> HIDE DEF p, q
<1>7. Matches(disk, p, Leaf(dst)) = {}
  <2> SUFFICES ASSUME Matches(disk, p, Leaf(dst)) # {} PROVE FALSE
    OBVIOUS
  <2> DEFINE s == Min(Matches(disk, p, Leaf(dst)))
  <2>1. s \in Slot(disk, p)
    <3>1. s \in Matches(disk, p, Leaf(dst))
      BY SlotProperty
    <3> QED
      BY <3>1 DEF Matches, UsedSlots, FreeSlots, Slot
  <2>2. Resolve(dst) = To(disk, p, s)
    BY <1>5, <1>6 DEF Step, To
  <2> HIDE DEF s
  <2>3. To(disk, p, s) \in LiveIn(disk, bitmap)
    BY <1>4, <2>1 DEF SoundState, Sound, EntriesLive
  <2>4. To(disk, p, s) \in Nat
    BY <2>3, LiveInode, LayoutAssumption DEF SoundState, Blocks
  <2> QED
    BY <1>1, <2>2, <2>4
<1> QED
  BY <1>1, <1>3, <1>7, LeafCut, NoMatch DEF FreshName, p

-----------------------------------------------------------------------------
(* Every call makes one of these changes                                   *)

\* create returns early, or links one block under a fresh name.
LEMMA CreateChange ==
    ASSUME SoundState, NEW path \in Seq(Names), path # <<>>, NEW perm \in Perms, NEW now \in Times,
           Create(path, perm, now)
    PROVE  Changes
<1>1. CASE Fail("create", path, CreateStatus(path, 1))
  BY <1>1 DEF Fail, Changes
<1>2. CASE ~Fail("create", path, CreateStatus(path, 1))
  <2>1. CreateStatus(path, 1) = OK
        /\ \E image, s, n :
              /\ Leaves(image) /\ bitmap' = bitmap \cup {n}
              /\ Linking(disk, bitmap, image, ResolveParent(path), s,
                         [name |-> Leaf(path), inode |-> n], {n})
    BY <1>2, CreateEffect
  <2>2. PICK image, s, n :
              /\ Leaves(image) /\ bitmap' = bitmap \cup {n}
              /\ Linking(disk, bitmap, image, ResolveParent(path), s,
                         [name |-> Leaf(path), inode |-> n], {n})
    BY <2>1
  <2> DEFINE ent == [name |-> Leaf(path), inode |-> n]
  <2>3. FreshName(disk, ResolveParent(path), ent.name)
    BY <2>1, CreateFresh
  <2>4. Linking(disk, bitmap, image, ResolveParent(path), s, ent, {n})
    BY <2>2
  <2> HIDE DEF ent
  <2>5. Change(image)
    BY <2>2, <2>3, <2>4, Zenon DEF Change
  <2> QED
    BY <2>2, <2>5 DEF Changes
<1> QED
  BY <1>1, <1>2

\* mkdir returns early, or links an inode and a directory block.
LEMMA MkdirChange ==
    ASSUME SoundState, NEW path \in Seq(Names), path # <<>>, NEW perm \in Perms, NEW now \in Times,
           Mkdir(path, perm, now)
    PROVE  Changes
<1>1. CASE Fail("mkdir", path, CreateStatus(path, 2))
  BY <1>1 DEF Fail, Changes
<1>2. CASE ~Fail("mkdir", path, CreateStatus(path, 2))
  <2>1. CreateStatus(path, 2) = OK
        /\ \E image, s, n, b2 :
              /\ Leaves(image) /\ bitmap' = bitmap \cup {n, b2}
              /\ Linking(disk, bitmap, image, ResolveParent(path), s,
                         [name |-> Leaf(path), inode |-> n], {n, b2})
    BY <1>2, MkdirEffect
  <2>2. PICK image, s, n, b2 :
              /\ Leaves(image) /\ bitmap' = bitmap \cup {n, b2}
              /\ Linking(disk, bitmap, image, ResolveParent(path), s,
                         [name |-> Leaf(path), inode |-> n], {n, b2})
    BY <2>1
  <2> DEFINE ent == [name |-> Leaf(path), inode |-> n]
  <2>3. FreshName(disk, ResolveParent(path), ent.name)
    BY <2>1, CreateFresh
  <2>4. Linking(disk, bitmap, image, ResolveParent(path), s, ent, {n, b2})
    BY <2>2
  <2> HIDE DEF ent
  <2>5. Change(image)
    BY <2>2, <2>3, <2>4, Zenon DEF Change
  <2> QED
    BY <2>2, <2>5 DEF Changes
<1> QED
  BY <1>1, <1>2

\* unlink and rmdir return early, or take the entry away and free what it led to.
LEMMA RemoveChange ==
    ASSUME SoundState, NEW path \in Seq(Names), path # <<>>, Unlink(path) \/ Rmdir(path)
    PROVE  Changes
<1>1. CASE Fail("unlink", path, Resolve(path)) \/ Fail("rmdir", path, RmdirStatus(path))
  BY <1>1 DEF Fail, Changes
<1>2. CASE ~Fail("unlink", path, Resolve(path)) /\ ~Fail("rmdir", path, RmdirStatus(path))
  <2>1. /\ Resolve(path) >= 0 /\ Leaves(Unlinked(path))
        /\ bitmap' = bitmap \ Freed(disk, Resolve(path))
    BY <1>2, UnlinkEffect, RmdirEffect
  <2> DEFINE p == ResolveParent(path)
             s == Min(Matches(disk, p, Leaf(path)))
  <2>2. /\ To(disk, p, s) = Resolve(path) /\ p # Resolve(path)
        /\ Unlinking(disk, bitmap, Unlinked(path), p, s)
    BY <2>1, UnlinkedEffect
  <2> HIDE DEF p, s
  <2>3. Change(Unlinked(path))
    BY <2>1, <2>2 DEF Change
  <2> QED
    BY <2>1, <2>3 DEF Changes
<1> QED
  BY <1>1, <1>2

\* rename returns early, or gives one entry a fresh name.
LEMMA RenameChange ==
    ASSUME SoundState, NEW src \in Seq(Names), src # <<>>, NEW dst \in Seq(Names), Rename(src, dst)
    PROVE  Changes
<1>1. CASE Fail("rename", src, RenameStatus(src, dst))
  BY <1>1 DEF Fail, Changes
<1>2. CASE ~Fail("rename", src, RenameStatus(src, dst))
  <2> DEFINE p == ResolveParent(src)
             s == Min(Matches(disk, p, Leaf(src)))
             ent == [name |-> Leaf(dst), inode |-> To(disk, p, s)]
  <2>1. /\ RenameStatus(src, dst) = OK /\ bitmap' = bitmap
        /\ Renaming(disk, bitmap, disk', p, s, ent) /\ Leaves(disk')
    BY <1>2, RenameEffect
  <2>2. FreshName(disk, p, ent.name)
    BY <2>1, RenameFresh
  <2> HIDE DEF p, s, ent
  <2>3. Change(disk')
    BY <2>1, <2>2 DEF Change
  <2> QED
    BY <2>1, <2>3 DEF Changes
<1> QED
  BY <1>1, <1>2

\* chmod and utime return early, or write back an inode with the same blocks.
LEMMA AttributesChange ==
    ASSUME SoundState, NEW path \in Seq(Names),
           \/ \E perm \in Perms : Chmod(path, perm)
           \/ \E time \in Times : Utime(path, time)
    PROVE  Changes
<1>1. CASE Fail("chmod", path, Resolve(path)) \/ Fail("utime", path, ResolveFile(path))
  BY <1>1 DEF Fail, Changes
<1>2. CASE ~Fail("chmod", path, Resolve(path)) /\ ~Fail("utime", path, ResolveFile(path))
  <2>1. PICK i : Retouching(disk, bitmap, disk', i) /\ bitmap' = bitmap
    BY <1>2, ChmodEffect, UtimeEffect
  <2>2. Leaves(disk') /\ Change(disk')
    BY <2>1, RetouchingLeaves DEF Change
  <2> QED
    BY <2>2 DEF Changes
<1> QED
  BY <1>1, <1>2

\* truncate and write return early, or give a file other blocks.
LEMMA ContentChange ==
    ASSUME SoundState, NEW path \in Seq(Names),
           \/ \E len \in Int : Truncate(path, len)
           \/ \E offset \in Nat, len \in Nat \ {0}, byte \in Bytes, now \in Times :
                 Write(path, offset, len, byte, now)
    PROVE  Changes
<1>1. ASSUME NEW len \in Int, Truncate(path, len) PROVE Changes
  <2>1. CASE Fail("truncate", path, TruncateStatus(path, len))
    BY <2>1 DEF Fail, Changes
  <2>2. CASE ~Fail("truncate", path, TruncateStatus(path, len))
    <3>1. PICK image : Leaves(image) /\ Rewriting(disk, bitmap, image, bitmap', ResolveFile(path))
      BY <1>1, <2>2, TruncateEffect
    <3> QED
      BY <3>1 DEF Changes, Change
  <2> QED
    BY <2>1, <2>2
<1>2. ASSUME NEW offset \in Nat, NEW len \in Nat \ {0}, NEW byte \in Bytes, NEW now \in Times,
             Write(path, offset, len, byte, now)
      PROVE  Changes
  <2>1. CASE Fail("write", path, WriteStatus(path, offset, len))
    BY <2>1 DEF Fail, Changes
  <2>2. CASE ~Fail("write", path, WriteStatus(path, offset, len))
    <3>1. PICK image : Leaves(image) /\ Rewriting(disk, bitmap, image, bitmap', ResolveFile(path))
      BY <1>2, <2>2, WriteEffect
    <3> QED
      BY <3>1 DEF Changes, Change
  <2> QED
    BY <2>1, <2>2
<1> QED
  BY <1>1, <1>2

\* The calls that only read, and a mount, change nothing.
LEMMA LookChange ==
    ASSUME SoundState,
           \/ \E path, offset, len : Read(path, offset, len)
           \/ \E path : Getattr(path) \/ Readdir(path)
           \/ Statfs \/ Mount
    PROVE  disk' = disk /\ bitmap' = bitmap
  BY DEF Read, Getattr, Readdir, Statfs, Mount, Mounted, Fail, SoundState, WrittenBack

\* Every step of the specification is such a change.
LEMMA NextChange ==
    ASSUME SoundState, [Next]_vars
    PROVE  Changes
<1> USE ClientAssumption
<1>1. \A path \in Paths : path \in Seq(Names)
  OBVIOUS
<1>2. \A path \in Below : path \in Seq(Names) /\ path # <<>>
  BY DEF Below
<1>3. /\ \A x \in IoOffsets : x \in Nat
      /\ \A x \in IoLens : x \in Nat \ {0}
      /\ \A x \in TruncLens : x \in Int
  OBVIOUS
<1>4. ASSUME NEW path \in Below, NEW perm \in Perms, NEW now \in Times,
             Create(path, perm, now) \/ Mkdir(path, perm, now)
      PROVE  Changes
  BY <1>2, <1>4, CreateChange, MkdirChange, Zenon
<1>5. ASSUME NEW path \in Below, Unlink(path) \/ Rmdir(path)
      PROVE  Changes
  BY <1>2, <1>5, RemoveChange, Zenon
<1>6. ASSUME NEW src \in Below, NEW dst \in Paths, Rename(src, dst)
      PROVE  Changes
  BY <1>1, <1>2, <1>6, RenameChange, Zenon
<1>7. ASSUME NEW path \in Paths, NEW perm \in Perms, Chmod(path, perm)
      PROVE  Changes
  BY <1>1, <1>7, AttributesChange, Zenon
<1>8. ASSUME NEW path \in Paths, NEW time \in Times, Utime(path, time)
      PROVE  Changes
  BY <1>1, <1>8, AttributesChange, Zenon
<1>9. ASSUME NEW path \in Paths, NEW len \in TruncLens, Truncate(path, len)
      PROVE  Changes
  BY <1>1, <1>3, <1>9, ContentChange, Zenon
<1>10. ASSUME NEW path \in Paths, NEW offset \in IoOffsets, NEW len \in IoLens, NEW byte \in Bytes,
              NEW now \in Times, Write(path, offset, len, byte, now)
       PROVE  Changes
  BY <1>1, <1>3, <1>10, ContentChange, Zenon
<1>11. CASE \/ \E path \in Paths, offset \in IoOffsets, len \in IoLens : Read(path, offset, len)
            \/ \E path \in Paths : Getattr(path) \/ Readdir(path)
            \/ Statfs \/ Mount
  BY <1>11, LookChange DEF Changes
<1>12. CASE UNCHANGED vars
  BY <1>12 DEF vars, Changes
<1> QED
  BY <1>4, <1>5, <1>6, <1>7, <1>8, <1>9, <1>10, <1>11, <1>12, Zenon DEF Next

\* Every kind of change keeps the image sound.
LEMMA ChangeSound ==
    ASSUME SoundState, NEW image, Change(image)
    PROVE  Sound(image, bitmap')
<1>1. Sound(disk, bitmap)
  BY DEF SoundState
<1>2. ASSUME NEW p, NEW s, NEW ent, NEW N, Linking(disk, bitmap, image, p, s, ent, N),
             bitmap' = bitmap \cup N
      PROVE  Sound(image, bitmap')
  <2>1. Sound(image, bitmap \cup N)
    BY <1>1, <1>2, LinkSound
  <2> QED
    BY <1>2, <2>1
<1>3. ASSUME NEW p, NEW s, Unlinking(disk, bitmap, image, p, s),
             bitmap' = bitmap \ Freed(disk, To(disk, p, s))
      PROVE  Sound(image, bitmap')
  <2>1. Sound(image, bitmap \ Freed(disk, To(disk, p, s)))
    BY <1>1, <1>3, RemoveSound
  <2> QED
    BY <1>3, <2>1
<1>4. ASSUME NEW p, NEW s, NEW ent, Renaming(disk, bitmap, image, p, s, ent), bitmap' = bitmap
      PROVE  Sound(image, bitmap')
  BY <1>1, <1>4, RenamingSound
<1>5. ASSUME NEW i, Retouching(disk, bitmap, image, i), bitmap' = bitmap
      PROVE  Sound(image, bitmap')
  BY <1>1, <1>5, RetouchingSound
<1>6. ASSUME NEW i, Rewriting(disk, bitmap, image, bitmap', i)
      PROVE  Sound(image, bitmap')
  BY <1>1, <1>6, RewritingSound
<1> QED
  BY <1>2, <1>3, <1>4, <1>5, <1>6, Zenon DEF Change

-----------------------------------------------------------------------------
(* Names                                                                   *)

\* UniqueNames, of an image and a bitmap.
NamesIn(d, m) ==
    \A i \in DirsIn(d, m) : \A s, t \in Slot(d, i) :
        /\ NameAt(d, i, s) = Truncated[NameAt(d, i, s)]
        /\ NameAt(d, i, s) = NameAt(d, i, t) => s = t

\* The run's property is the predicate, of the variables.
LEMMA NamesInIsUniqueNames == NamesIn(disk, bitmap) <=> UniqueNames
<1>1. LiveIn(disk, bitmap) = Live /\ DirsIn(disk, bitmap) = LiveDirs
  BY DEF LiveIn, DirsIn, Live, LiveDirs
<1>2. \A i : UsedSlots(disk, i) = Slot(disk, i)
  BY DEF UsedSlots, FreeSlots, Slot
<1> QED
  BY <1>1, <1>2 DEF NamesIn, UniqueNames, NameAt

\* Names stay unique when the directories stay, whatever else changes.
LEMMA NamesStay ==
    ASSUME NEW d, NEW m, NamesIn(d, m), NEW e, NEW u, DirsIn(e, u) \subseteq DirsIn(d, m),
           \A i \in DirsIn(e, u) : Entries(e, i) = Entries(d, i)
    PROVE  NamesIn(e, u)
  BY DEF NamesIn, NameAt, Slot

\* So they do when one entry gets a new name, and when one goes.
LEMMA NamesWritten ==
    ASSUME NEW d, NEW m, NamesIn(d, m), NEW e, NEW p \in DirsIn(d, m), NEW s, NEW ent,
           OnlyEntry(d, m, e, p, s, ent), ent = NoEntry \/ FreshName(d, p, ent.name)
    PROVE  \A i \in DirsIn(d, m) : \A t, v \in Slot(e, i) :
              /\ NameAt(e, i, t) = Truncated[NameAt(e, i, t)]
              /\ NameAt(e, i, t) = NameAt(e, i, v) => t = v
<1>1. /\ Entries(e, p)[s] = ent /\ \A t \in Slots : t # s => Entries(e, p)[t] = Entries(d, p)[t]
      /\ \A i \in DirsIn(d, m) : i # p => Entries(e, i) = Entries(d, i)
  BY DEF OnlyEntry
<1>2. ASSUME NEW i \in DirsIn(d, m), i # p, NEW t \in Slot(e, i), NEW v \in Slot(e, i)
      PROVE  /\ NameAt(e, i, t) = Truncated[NameAt(e, i, t)]
             /\ NameAt(e, i, t) = NameAt(e, i, v) => t = v
  BY <1>1, <1>2 DEF NamesIn, NameAt, Slot
<1>3. \A t \in Slot(e, p) : \/ t = s /\ ent # NoEntry /\ NameAt(e, p, t) = ent.name
                            \/ t # s /\ t \in Slot(d, p) /\ NameAt(e, p, t) = NameAt(d, p, t)
  BY <1>1 DEF Slot, NameAt
<1>4. ASSUME NEW t \in Slot(e, p), NEW v \in Slot(e, p)
      PROVE  /\ NameAt(e, p, t) = Truncated[NameAt(e, p, t)]
             /\ NameAt(e, p, t) = NameAt(e, p, v) => t = v
  BY <1>3 DEF NamesIn, FreshName
<1> QED
  BY <1>2, <1>4, Zenon

\* Every kind of change keeps them unique.
LEMMA ChangeNames ==
    ASSUME SoundState, NamesIn(disk, bitmap), NEW image, Change(image)
    PROVE  NamesIn(image, bitmap')
<1>1. Sound(disk, bitmap)
  BY DEF SoundState
<1>2. ASSUME NEW p, NEW s, NEW ent, NEW N, Linking(disk, bitmap, image, p, s, ent, N),
             FreshName(disk, p, ent.name), bitmap' = bitmap \cup N
      PROVE  NamesIn(image, bitmap')
  <2>1. p \in DirsIn(disk, bitmap) /\ OnlyEntry(disk, bitmap, image, p, s, ent)
    BY <1>2 DEF Linking
  <2>2. \A i \in DirsIn(image, bitmap') : i \in DirsIn(disk, bitmap) \/ Slot(image, i) = {}
    <3>1. DirsIn(image, bitmap \cup N) = DirsIn(disk, bitmap) \cup
                                       (IF image[ent.inode].type = "dir" THEN {ent.inode} ELSE {})
      BY <1>1, <1>2, LinkDirs
    <3>2. image[ent.inode].type = "dir" => Slot(image, ent.inode) = {}
      BY <1>1, <1>2, LinkEmpty
    <3> QED
      BY <1>2, <3>1, <3>2
  <2>3. \A i \in DirsIn(disk, bitmap) : \A t, v \in Slot(image, i) :
           /\ NameAt(image, i, t) = Truncated[NameAt(image, i, t)]
           /\ NameAt(image, i, t) = NameAt(image, i, v) => t = v
    BY <1>2, <2>1, NamesWritten
  <2> QED
    BY <2>2, <2>3 DEF NamesIn
<1>3. ASSUME NEW p, NEW s, Unlinking(disk, bitmap, image, p, s),
             bitmap' = bitmap \ Freed(disk, To(disk, p, s))
      PROVE  NamesIn(image, bitmap')
  <2>1. p \in DirsIn(disk, bitmap)
    BY <1>3 DEF Unlinking
  <2>2. /\ OnlyEntry(disk, bitmap, image, p, s, NoEntry)
        /\ DirsIn(image, bitmap') \subseteq DirsIn(disk, bitmap)
    <3> DEFINE u == bitmap \ Freed(disk, To(disk, p, s))
    <3>1. /\ OnlyEntry(disk, bitmap, image, p, s, NoEntry)
          /\ \A j : j \in DirsIn(image, u) <=> j \in DirsIn(disk, bitmap) /\ j # To(disk, p, s)
      BY <1>1, <1>3, RemoveSound
    <3>2. bitmap' = u
      BY <1>3
    <3> HIDE DEF u
    <3> QED
      BY <3>1, <3>2
  <2>3. \A i \in DirsIn(disk, bitmap) : \A t, v \in Slot(image, i) :
           /\ NameAt(image, i, t) = Truncated[NameAt(image, i, t)]
           /\ NameAt(image, i, t) = NameAt(image, i, v) => t = v
    BY <2>1, <2>2, NamesWritten
  <2> QED
    BY <2>2, <2>3 DEF NamesIn
<1>4. ASSUME NEW p, NEW s, NEW ent, Renaming(disk, bitmap, image, p, s, ent),
             FreshName(disk, p, ent.name), bitmap' = bitmap
      PROVE  NamesIn(image, bitmap')
  <2>1. p \in DirsIn(disk, bitmap)
    BY <1>4 DEF Renaming
  <2>2. OnlyEntry(disk, bitmap, image, p, s, ent)
    BY <1>1, <1>4, RenamingSound
  <2>3. DirsIn(image, bitmap') \subseteq DirsIn(disk, bitmap)
    BY <1>4, <2>2 DEF OnlyEntry, DirsIn, LiveIn, IsInode
  <2>4. \A i \in DirsIn(disk, bitmap) : \A t, v \in Slot(image, i) :
           /\ NameAt(image, i, t) = Truncated[NameAt(image, i, t)]
           /\ NameAt(image, i, t) = NameAt(image, i, v) => t = v
    BY <1>4, <2>1, <2>2, NamesWritten
  <2> QED
    BY <2>2, <2>3, <2>4 DEF NamesIn
<1>5. ASSUME NEW i, Retouching(disk, bitmap, image, i), bitmap' = bitmap
      PROVE  NamesIn(image, bitmap')
  <2>1. /\ \A j \in LiveIn(disk, bitmap) : image[j].kind = "inode" /\ image[j].type = disk[j].type
        /\ \A b \in Blocks : b # i => image[b] = disk[b]
        /\ \A j \in DirsIn(disk, bitmap) : Entries(image, j) = Entries(disk, j)
    BY <1>1, <1>5, RetouchingSound
  <2>2. i \in LiveIn(disk, bitmap) /\ bitmap \subseteq Blocks
    BY <1>1, <1>5 DEF Retouching, Sound, Typed
  <2>3. DirsIn(image, bitmap') \subseteq DirsIn(disk, bitmap)
    BY <1>5, <2>1, <2>2 DEF DirsIn, LiveIn, IsInode
  <2> QED
    BY <2>1, <2>3, NamesStay
<1>6. ASSUME NEW i, Rewriting(disk, bitmap, image, bitmap', i)
      PROVE  NamesIn(image, bitmap')
  <2>1. /\ DirsIn(image, bitmap') = DirsIn(disk, bitmap)
        /\ \A j \in DirsIn(disk, bitmap) : Entries(image, j) = Entries(disk, j)
    BY <1>1, <1>6, RewritingSound
  <2> QED
    BY <2>1, NamesStay
<1> QED
  BY <1>2, <1>3, <1>4, <1>5, <1>6, Zenon DEF Change

\* Every step keeps names unique.
LEMMA NextNames ==
    ASSUME SoundState, NamesIn(disk, bitmap), [Next]_vars
    PROVE  NamesIn(disk', bitmap')
<1>1. CASE disk' = disk /\ bitmap' = bitmap
  BY <1>1 DEF NamesIn
<1>2. ASSUME NEW image, Leaves(image), Change(image)
      PROVE  NamesIn(disk', bitmap')
  <2>1. Sound(image, bitmap') /\ NamesIn(image, bitmap')
    BY <1>2, ChangeNames, ChangeSound
  <2>2. /\ DirsIn(disk', bitmap') = DirsIn(image, bitmap')
        /\ \A i \in DirsIn(image, bitmap') : Entries(disk', i) = Entries(image, i)
    BY <1>2, <2>1, LeavesSame
  <2> QED
    BY <2>1, <2>2, NamesStay
<1> QED
  BY <1>1, <1>2, NextChange DEF Changes

\* The image of disk2.in has no entries.
LEMMA InitNames == Init => NamesIn(disk, bitmap)
<1> SUFFICES ASSUME Init PROVE NamesIn(disk, bitmap)
  OBVIOUS
<1>1. PICK perm \in Perms, mtime \in Times : disk = EmptyImage(perm, mtime) /\ bitmap = InUse
  BY DEF Init
<1>2. DirsIn(disk, bitmap) = {RootInode} /\ Slot(disk, RootInode) = {}
  BY <1>1, EmptyImageSound
<1> QED
  BY <1>2 DEF NamesIn

(***************************************************************************)
(* In every directory, after any sequence of calls, names are different    *)
(* and no longer than the format holds them: translate() finds the entry   *)
(* that create_directory_entry or fs_rename wrote under that name, never   *)
(* another one.                                                            *)
(***************************************************************************)
THEOREM NamesUnique == Spec => []UniqueNames
<1>1. Init => SoundState /\ NamesIn(disk, bitmap)
  BY InitKeeps, InitNames
<1>2. SoundState /\ NamesIn(disk, bitmap) /\ [Next]_vars => (SoundState /\ NamesIn(disk, bitmap))'
  BY NextKeeps, NextNames
<1>3. SoundState /\ NamesIn(disk, bitmap) => UniqueNames
  BY NamesInIsUniqueNames
<1> QED
  BY <1>1, <1>2, <1>3, PTL DEF Spec

-----------------------------------------------------------------------------
(* Leaks                                                                   *)

\* An entry leads to block b, or a pointer of a live inode does, or its number says what it is.
Entered(d, m, b)  == \E i \in DirsIn(d, m) : \E s \in Slot(d, i) : To(d, i, s) = b
Pointed(d, m, b)  == \E i \in LiveIn(d, m) : \E k \in DataIdx(d[i]) : d[i].ptrs[k] = b
Known(d, m, b)    == b \in {SuperBlock, BitmapBlock, RootInode} \/ Entered(d, m, b) \/ Pointed(d, m, b)
LeakedIn(d, m)    == {b \in m : ~Known(d, m, b)}

\* What the directories that go from d to e still held.
Orphan(d, m, e, u, b) == \E i \in DirsIn(d, m) : i \notin DirsIn(e, u) /\ \E s \in Slot(d, i) : To(d, i, s) = b

\* LeakOnlyOrphans, from one image to another.
Leaks(d, m, e, u) == \A b : b \in LeakedIn(e, u) <=> b \in LeakedIn(d, m) \/ Orphan(d, m, e, u, b)

\* The same of the variables.
LEMMA LeakedInIsLeaked ==
    /\ Leaked = LeakedIn(disk, bitmap)
    /\ Leaked' = LeakedIn(disk', bitmap')
<1>1. ASSUME NEW d, NEW m
      PROVE  /\ \A b : (\E i \in DirsIn(d, m) : b \in {Entries(d, i)[s].inode : s \in UsedSlots(d, i)})
                         <=> Entered(d, m, b)
             /\ \A b : (\E i \in LiveIn(d, m) : b \in DataBlocks(d[i])) <=> Pointed(d, m, b)
  BY DEF Entered, Pointed, To, Slot, UsedSlots, FreeSlots, DataBlocks
<1>2. LiveIn(disk, bitmap) = Live /\ DirsIn(disk, bitmap) = LiveDirs
      /\ LiveIn(disk', bitmap') = Live' /\ DirsIn(disk', bitmap') = LiveDirs'
  BY DEF LiveIn, DirsIn, Live, LiveDirs, IsInode
<1>3. \A b : b \in Accounted <=> Known(disk, bitmap, b)
  BY <1>1, <1>2 DEF Accounted, Known, Targets
<1>4. \A b : b \in Accounted' <=> Known(disk', bitmap', b)
  BY <1>1, <1>2 DEF Accounted, Known, Targets
<1> QED
  BY <1>3, <1>4 DEF Leaked, LeakedIn

\* Nothing leaks when the references stay what they are.
LEMMA NoLeak ==
    ASSUME NEW d, NEW m, NEW e,
           LiveIn(e, m) = LiveIn(d, m), DirsIn(e, m) = DirsIn(d, m),
           \A i \in LiveIn(d, m) : e[i].size = d[i].size /\ e[i].ptrs = d[i].ptrs,
           \A i \in DirsIn(d, m) : Slot(e, i) = Slot(d, i) /\ \A s \in Slot(d, i) : To(e, i, s) = To(d, i, s)
    PROVE  Leaks(d, m, e, m)
<1>1. \A b : Entered(e, m, b) <=> Entered(d, m, b)
  BY DEF Entered
<1>2. \A b : Pointed(e, m, b) <=> Pointed(d, m, b)
  BY DEF Pointed, DataIdx
<1>3. \A b : ~Orphan(d, m, e, m, b)
  BY DEF Orphan
<1> QED
  BY <1>1, <1>2, <1>3 DEF Leaks, LeakedIn, Known

\* A new object: each of its blocks is its inode, to which its entry leads, or one of its data.
LEMMA LinkLeaks ==
    ASSUME NEW d, NEW m, Sound(d, m), NEW e, NEW p, NEW s, NEW ent, NEW N,
           Linking(d, m, e, p, s, ent, N)
    PROVE  Leaks(d, m, e, m \cup N)
<1> DEFINE n == ent.inode
           u == m \cup N
<1>1. /\ p \in DirsIn(d, m) /\ s \in Slots /\ s \notin Slot(d, p) /\ ent \in Entry
      /\ N \in SUBSET (Blocks \ m) /\ N = {n} \cup DataBlocks(e[n])
      /\ OnlyEntry(d, m, e, p, s, ent)
  BY DEF Linking, Freed
<1>2. LiveIn(e, u) = LiveIn(d, m) \cup {n}
  BY LinkLive
<1>3. DirsIn(e, u) = DirsIn(d, m) \cup (IF e[n].type = "dir" THEN {n} ELSE {})
  BY LinkDirs
<1>4. e[n].type = "dir" => Slot(e, n) = {}
  BY LinkEmpty
<1> HIDE DEF n, u
<1>5. /\ \A i \in LiveIn(d, m) : e[i] = d[i]
      /\ Slot(e, p) = Slot(d, p) \cup {s} /\ To(e, p, s) = n
      /\ \A t \in Slot(d, p) : To(e, p, t) = To(d, p, t)
      /\ \A i \in DirsIn(d, m) : i # p =>
            Slot(e, i) = Slot(d, i) /\ \A t \in Slot(d, i) : To(e, i, t) = To(d, i, t)
  BY <1>1, LayoutAssumption DEF OnlyEntry, Slot, To, n
<1>6. \A b : Entered(e, u, b) <=> Entered(d, m, b) \/ b = n
  <2>1. ASSUME NEW b, Entered(d, m, b) \/ b = n PROVE Entered(e, u, b)
    BY <1>1, <1>3, <1>5, <2>1 DEF Entered
  <2>2. ASSUME NEW b, Entered(e, u, b) PROVE Entered(d, m, b) \/ b = n
    <3>1. PICK i \in DirsIn(e, u) : \E t \in Slot(e, i) : To(e, i, t) = b
      BY <2>2 DEF Entered
    <3>2. PICK t \in Slot(e, i) : To(e, i, t) = b
      BY <3>1
    <3>3. i \in DirsIn(d, m)
      BY <1>3, <1>4, <3>1
    <3>4. CASE i = p
      BY <1>1, <1>5, <3>2, <3>4 DEF Entered
    <3>5. CASE i # p
      BY <1>5, <3>2, <3>3, <3>5 DEF Entered
    <3> QED
      BY <3>4, <3>5
  <2> QED
    BY <2>1, <2>2
<1>7. \A b : Pointed(e, u, b) <=> Pointed(d, m, b) \/ b \in DataBlocks(e[n])
  <2>1. \A b : Pointed(e, u, b) <=> (\E i \in LiveIn(d, m) : \E k \in DataIdx(e[i]) : e[i].ptrs[k] = b)
                                     \/ (\E k \in DataIdx(e[n]) : e[n].ptrs[k] = b)
    BY <1>2 DEF Pointed
  <2>2. \A b : (\E i \in LiveIn(d, m) : \E k \in DataIdx(e[i]) : e[i].ptrs[k] = b) <=> Pointed(d, m, b)
    BY <1>5 DEF Pointed
  <2> QED
    BY <2>1, <2>2 DEF DataBlocks
<1>8. \A b : Known(e, u, b) <=> Known(d, m, b) \/ b \in N
  BY <1>1, <1>6, <1>7 DEF Known
<1>9. \A b : ~Orphan(d, m, e, u, b)
  BY <1>3 DEF Orphan
<1>10. \A b : b \in LeakedIn(e, u) <=> b \in LeakedIn(d, m)
  BY <1>1, <1>8 DEF LeakedIn, u
<1> QED
  BY <1>9, <1>10 DEF Leaks, u

(***************************************************************************)
(* A removed object: its blocks are freed and were known, and what its     *)
(* entries led to is known no more, because no other entry leads there.    *)
(***************************************************************************)
LEMMA RemoveLeaks ==
    ASSUME NEW d, NEW m, Sound(d, m), NEW e, NEW p, NEW s, Unlinking(d, m, e, p, s),
           p # To(d, p, s)
    PROVE  Leaks(d, m, e, m \ Freed(d, To(d, p, s)))
<1> DEFINE i == To(d, p, s)
           u == m \ Freed(d, i)
<1>1. /\ Sound(e, u) /\ i \in LiveIn(d, m) /\ OnlyEntry(d, m, e, p, s, NoEntry)
      /\ \A j : j \in LiveIn(e, u) <=> j \in LiveIn(d, m) /\ j # i
      /\ \A j : j \in DirsIn(e, u) <=> j \in DirsIn(d, m) /\ j # i
  BY RemoveSound
<1>2. p \in DirsIn(d, m) /\ s \in Slot(d, p) /\ To(d, p, s) = i /\ p # i
  BY DEF Unlinking
<1>3. \A b : b \in u <=> b \in m /\ b # i /\ b \notin DataBlocks(d[i])
  BY DEF Freed
<1> HIDE DEF i, u
<1>4. \A j \in LiveIn(d, m) : e[j] = d[j]
  BY <1>1 DEF OnlyEntry
<1>5. /\ Entries(e, p)[s] = NoEntry
      /\ \A t \in Slots : t # s => Entries(e, p)[t] = Entries(d, p)[t]
      /\ \A j \in DirsIn(d, m) : j # p => Entries(e, j) = Entries(d, j)
  BY <1>1 DEF OnlyEntry
<1>6. \A j \in DirsIn(d, m) : \A t : t \in Slot(e, j) <=> t \in Slot(d, j) /\ ~(j = p /\ t = s)
  BY <1>2, <1>5 DEF Slot
<1>7. \A j \in DirsIn(d, m) : \A t \in Slot(e, j) : To(e, j, t) = To(d, j, t)
  <2> SUFFICES ASSUME NEW j \in DirsIn(d, m), NEW t \in Slot(e, j) PROVE To(e, j, t) = To(d, j, t)
    OBVIOUS
  <2>1. t \in Slots /\ ~(j = p /\ t = s)
    BY <1>6 DEF Slot
  <2> QED
    BY <1>5, <2>1 DEF To
<1>8. \A j, h \in DirsIn(d, m) : \A t \in Slot(d, j), v \in Slot(d, h) :
         To(d, j, t) = To(d, h, v) => j = h /\ t = v
  BY DEF Sound, EntriesDiffer
<1>9. \A b : Entered(e, u, b) <=> \E j \in DirsIn(d, m) : j # i /\ \E t \in Slot(d, j) : To(d, j, t) = b /\ b # i
  <2>1. ASSUME NEW b, NEW j \in DirsIn(d, m), j # i, NEW t \in Slot(d, j), To(d, j, t) = b, b # i
        PROVE  Entered(e, u, b)
    <3>1. ~(j = p /\ t = s)
      BY <1>2, <2>1
    <3> QED
      BY <1>1, <1>6, <1>7, <2>1, <3>1 DEF Entered
  <2>2. ASSUME NEW b, NEW j \in DirsIn(e, u), NEW t \in Slot(e, j), To(e, j, t) = b
        PROVE  j \in DirsIn(d, m) /\ j # i /\ t \in Slot(d, j) /\ To(d, j, t) = b /\ b # i
    <3>1. j \in DirsIn(d, m) /\ j # i
      BY <1>1
    <3>2. t \in Slot(d, j) /\ To(d, j, t) = b /\ ~(j = p /\ t = s)
      BY <1>6, <1>7, <2>2, <3>1
    <3>3. b # i
      BY <1>2, <1>8, <3>1, <3>2
    <3> QED
      BY <3>1, <3>2, <3>3
  <2> QED
    BY <2>1, <2>2 DEF Entered
<1>10. \A b : Pointed(e, u, b) <=> \E j \in LiveIn(d, m) : j # i /\ \E k \in DataIdx(d[j]) : d[j].ptrs[k] = b
  BY <1>1, <1>4 DEF Pointed
<1>11. \A b : Orphan(d, m, e, u, b) <=> i \in DirsIn(d, m) /\ \E t \in Slot(d, i) : To(d, i, t) = b
  BY <1>1 DEF Orphan
<1>12. \A b \in u : Known(d, m, b) <=> Known(e, u, b) \/ Orphan(d, m, e, u, b)
  <2> SUFFICES ASSUME NEW b \in u PROVE Known(d, m, b) <=> Known(e, u, b) \/ Orphan(d, m, e, u, b)
    OBVIOUS
  <2>1. b # i /\ ~\E k \in DataIdx(d[i]) : d[i].ptrs[k] = b
    BY <1>3 DEF DataBlocks
  <2>2. Pointed(d, m, b) <=> Pointed(e, u, b)
    BY <1>10, <2>1 DEF Pointed
  <2>3. Entered(d, m, b) <=> Entered(e, u, b) \/ Orphan(d, m, e, u, b)
    BY <1>9, <1>11, <2>1 DEF Entered
  <2> QED
    BY <2>2, <2>3 DEF Known
<1>13. ASSUME NEW b, Orphan(d, m, e, u, b)
       PROVE  b \in u /\ ~Known(e, u, b)
  <2>1. PICK t \in Slot(d, i) : To(d, i, t) = b /\ i \in DirsIn(d, m)
    BY <1>11, <1>13
  <2>2. b \in LiveIn(d, m) /\ b # RootInode
    BY <2>1 DEF Sound, EntriesLive
  <2>3. b \in m /\ d[b].kind = "inode"
    BY <2>2 DEF LiveIn, IsInode
  <2>4. b # i
    BY <1>2, <1>8, <2>1
  <2>5. \A j \in LiveIn(d, m) : \A k \in DataIdx(d[j]) : d[j].ptrs[k] # b
    BY <2>3 DEF Sound, InodesFit
  <2>6. b \in u
    BY <1>1, <1>3, <2>3, <2>4, <2>5 DEF DataBlocks
  <2>7. ~Pointed(e, u, b)
    BY <1>10, <2>5
  <2>8. ~Entered(e, u, b)
    BY <1>8, <1>9, <2>1
  <2>9. b \notin {SuperBlock, BitmapBlock, RootInode}
    BY <2>2, <2>3 DEF Sound, ReservedIn
  <2> QED
    BY <2>6, <2>7, <2>8, <2>9 DEF Known
<1>14. \A b \in m : b \notin u => Known(d, m, b)
  <2> SUFFICES ASSUME NEW b \in m, b = i \/ b \in DataBlocks(d[i]) PROVE Known(d, m, b)
    BY <1>3
  <2>1. CASE b = i
    BY <1>2, <2>1 DEF Known, Entered
  <2>2. CASE b \in DataBlocks(d[i])
    BY <1>1, <2>2 DEF Known, Pointed, DataBlocks
  <2> QED
    BY <2>1, <2>2
<1>15. \A b : b \in LeakedIn(e, u) <=> b \in LeakedIn(d, m) \/ Orphan(d, m, e, u, b)
  BY <1>3, <1>12, <1>13, <1>14 DEF LeakedIn
<1> QED
  BY <1>15 DEF Leaks, u, i

\* A file with other blocks: those it drops are freed, those it takes are its own.
LEMMA RewriteLeaks ==
    ASSUME NEW d, NEW m, Sound(d, m), NEW e, NEW u, NEW i, Rewriting(d, m, e, u, i)
    PROVE  Leaks(d, m, e, u)
<1>1. /\ LiveIn(e, u) = LiveIn(d, m) /\ DirsIn(e, u) = DirsIn(d, m)
      /\ \A j \in LiveIn(d, m) : j # i => e[j] = d[j]
      /\ \A j \in DirsIn(d, m) : Entries(e, j) = Entries(d, j)
  BY RewritingSound
<1>2. /\ i \in LiveIn(d, m) /\ u = (m \ DataBlocks(d[i])) \cup DataBlocks(e[i])
      /\ \A b \in DataBlocks(e[i]) : b \in m => b \in DataBlocks(d[i])
  BY DEF Rewriting
<1>3. \A b : Entered(e, u, b) <=> Entered(d, m, b)
  BY <1>1 DEF Entered, Slot, To
<1>4. /\ \A b : Pointed(e, u, b) <=>
            b \in DataBlocks(e[i]) \/ \E j \in LiveIn(d, m) : j # i /\ b \in DataBlocks(d[j])
      /\ \A b : Pointed(d, m, b) <=>
            b \in DataBlocks(d[i]) \/ \E j \in LiveIn(d, m) : j # i /\ b \in DataBlocks(d[j])
  BY <1>1, <1>2 DEF Pointed, DataBlocks
<1>5. \A b : ~Orphan(d, m, e, u, b)
  BY <1>1 DEF Orphan
<1>6. \A b : b \in LeakedIn(e, u) <=> b \in LeakedIn(d, m)
  BY <1>2, <1>3, <1>4 DEF LeakedIn, Known
<1> QED
  BY <1>5, <1>6 DEF Leaks

\* Every kind of change leaks what LeakOnlyOrphans allows.
LEMMA ChangeLeaks ==
    ASSUME SoundState, NEW image, Change(image)
    PROVE  Leaks(disk, bitmap, image, bitmap')
<1>1. Sound(disk, bitmap)
  BY DEF SoundState
<1>2. ASSUME NEW p, NEW s, NEW ent, NEW N, Linking(disk, bitmap, image, p, s, ent, N),
             bitmap' = bitmap \cup N
      PROVE  Leaks(disk, bitmap, image, bitmap')
  <2>1. Leaks(disk, bitmap, image, bitmap \cup N)
    BY <1>1, <1>2, LinkLeaks
  <2> QED
    BY <1>2, <2>1
<1>3. ASSUME NEW p, NEW s, Unlinking(disk, bitmap, image, p, s), p # To(disk, p, s),
             bitmap' = bitmap \ Freed(disk, To(disk, p, s))
      PROVE  Leaks(disk, bitmap, image, bitmap')
  <2>1. Leaks(disk, bitmap, image, bitmap \ Freed(disk, To(disk, p, s)))
    BY <1>1, <1>3, RemoveLeaks
  <2> QED
    BY <1>3, <2>1
<1>4. ASSUME NEW p, NEW s, NEW ent, Renaming(disk, bitmap, image, p, s, ent), bitmap' = bitmap
      PROVE  Leaks(disk, bitmap, image, bitmap')
  <2>1. /\ OnlyEntry(disk, bitmap, image, p, s, ent)
        /\ \A i \in DirsIn(disk, bitmap) :
              Slot(image, i) = Slot(disk, i) /\ \A t \in Slot(disk, i) : To(image, i, t) = To(disk, i, t)
    BY <1>1, <1>4, RenamingSound
  <2>2. /\ \A b \in bitmap : image[b].kind = disk[b].kind
        /\ \A i \in LiveIn(disk, bitmap) : image[i] = disk[i]
    BY <2>1 DEF OnlyEntry
  <2>3. LiveIn(image, bitmap) = LiveIn(disk, bitmap) /\ DirsIn(image, bitmap) = DirsIn(disk, bitmap)
    BY <2>2 DEF DirsIn, LiveIn, IsInode
  <2>4. Leaks(disk, bitmap, image, bitmap)
    BY <2>1, <2>2, <2>3, NoLeak
  <2> QED
    BY <1>4, <2>4
<1>5. ASSUME NEW i, Retouching(disk, bitmap, image, i), bitmap' = bitmap
      PROVE  Leaks(disk, bitmap, image, bitmap')
  <2>1. /\ \A b \in Blocks : b # i => image[b] = disk[b]
        /\ \A j \in LiveIn(disk, bitmap) : /\ image[j].kind = "inode" /\ image[j].type = disk[j].type
                                           /\ image[j].size = disk[j].size /\ image[j].ptrs = disk[j].ptrs
        /\ \A j \in DirsIn(disk, bitmap) : Entries(image, j) = Entries(disk, j)
    BY <1>1, <1>5, RetouchingSound
  <2>2. i \in LiveIn(disk, bitmap) /\ bitmap \subseteq Blocks
    BY <1>1, <1>5 DEF Retouching, Sound, Typed
  <2>3. LiveIn(image, bitmap) = LiveIn(disk, bitmap)
    BY <2>1, <2>2 DEF LiveIn, IsInode
  <2>4. DirsIn(image, bitmap) = DirsIn(disk, bitmap)
    BY <2>1, <2>3 DEF DirsIn
  <2>5. \A j \in DirsIn(disk, bitmap) :
           Slot(image, j) = Slot(disk, j) /\ \A s \in Slot(disk, j) : To(image, j, s) = To(disk, j, s)
    BY <2>1 DEF Slot, To
  <2>6. Leaks(disk, bitmap, image, bitmap)
    BY <2>1, <2>3, <2>4, <2>5, NoLeak
  <2> QED
    BY <1>5, <2>6
<1>6. ASSUME NEW i, Rewriting(disk, bitmap, image, bitmap', i)
      PROVE  Leaks(disk, bitmap, image, bitmap')
  BY <1>1, <1>6, RewriteLeaks
<1> QED
  BY <1>2, <1>3, <1>4, <1>5, <1>6, Zenon DEF Change

\* Every step leaks what LeakOnlyOrphans allows.
LEMMA NextLeaks ==
    ASSUME SoundState, [Next]_vars
    PROVE  Leaks(disk, bitmap, disk', bitmap')
<1>1. CASE disk' = disk /\ bitmap' = bitmap
  BY <1>1 DEF Leaks, LeakedIn, Orphan
<1>2. ASSUME NEW image, Leaves(image), Change(image)
      PROVE  Leaks(disk, bitmap, disk', bitmap')
  <2>1. Leaks(disk, bitmap, image, bitmap')
    BY <1>2, ChangeLeaks
  <2>2. Sound(image, bitmap')
    BY <1>2, ChangeSound
  <2>3. /\ LiveIn(disk', bitmap') = LiveIn(image, bitmap')
        /\ DirsIn(disk', bitmap') = DirsIn(image, bitmap')
        /\ \A i \in LiveIn(image, bitmap') : disk'[i] = image[i]
        /\ \A i \in DirsIn(image, bitmap') : Entries(disk', i) = Entries(image, i)
    BY <1>2, <2>2, LeavesSame
  <2>4. \A b : Entered(disk', bitmap', b) <=> Entered(image, bitmap', b)
    BY <2>3 DEF Entered, Slot, To
  <2>5. \A b : Pointed(disk', bitmap', b) <=> Pointed(image, bitmap', b)
    BY <2>3 DEF Pointed
  <2>6. LeakedIn(disk', bitmap') = LeakedIn(image, bitmap')
    BY <2>4, <2>5 DEF LeakedIn, Known
  <2>7. \A b : Orphan(disk, bitmap, disk', bitmap', b) <=> Orphan(disk, bitmap, image, bitmap', b)
    BY <2>3 DEF Orphan
  <2> QED
    BY <2>1, <2>6, <2>7 DEF Leaks
<1> QED
  BY <1>1, <1>2, NextChange DEF Changes

(***************************************************************************)
(* What a call loses for good is what the directory it removes still held, *)
(* and nothing else: rmdir's check of the first slot only, and unlink's    *)
(* missing one, are the only leaks of the handlers.                        *)
(***************************************************************************)
THEOREM OnlyOrphansLeak == Spec => LeakOnlyOrphans
<1> DEFINE A == Leaked' = Leaked \cup UNION {Targets(i) : i \in LiveDirs \ LiveDirs'}
<1>1. SoundState /\ [Next]_vars => [A]_vars
  <2> SUFFICES ASSUME SoundState, [Next]_vars PROVE A
    OBVIOUS
  <2>1. Leaks(disk, bitmap, disk', bitmap')
    BY NextLeaks
  <2>2. DirsIn(disk, bitmap) = LiveDirs /\ DirsIn(disk', bitmap') = LiveDirs'
    BY DEF LiveIn, DirsIn, Live, LiveDirs, IsInode
  <2>3. \A b : Orphan(disk, bitmap, disk', bitmap', b) <=>
               b \in UNION {Targets(i) : i \in LiveDirs \ LiveDirs'}
    BY <2>2 DEF Orphan, Targets, To, Slot, UsedSlots, FreeSlots
  <2>4. Leaked = LeakedIn(disk, bitmap) /\ Leaked' = LeakedIn(disk', bitmap')
    BY LeakedInIsLeaked
  <2> QED
    BY <2>1, <2>3, <2>4 DEF Leaks
<1>2. Spec => []SoundState
  BY InitKeeps, NextKeeps, PTL DEF Spec
<1> QED
  BY <1>1, <1>2, PTL DEF Spec, LeakOnlyOrphans

-----------------------------------------------------------------------------
(* The free count                                                          *)

\* As many different values as indices.
LEMMA Enumerated ==
    ASSUME NEW a \in Int, NEW b \in Int, a <= b + 1, NEW f,
           \A j, k \in a .. b : f[j] = f[k] => j = k
    PROVE  /\ IsFiniteSet({f[k] : k \in a .. b})
           /\ Cardinality({f[k] : k \in a .. b}) = b - a + 1
<1> DEFINE S == {f[k] : k \in a .. b}
           g == [k \in a .. b |-> f[k]]
<1>1. g \in Bijection(a .. b, S)
  BY DEF Bijection, Injection, Surjection, IsInjective
<1>2. IsFiniteSet(a .. b) /\ Cardinality(a .. b) = b - a + 1
  <2>1. IsFiniteSet(a .. b) /\ Cardinality(a .. b) = IF a > b THEN 0 ELSE b - a + 1
    BY FS_Interval
  <2> QED
    BY <2>1
<1>3. ExistsBijection(a .. b, S)
  BY <1>1, Zenon DEF ExistsBijection
<1>4. IsFiniteSet(S) /\ Cardinality(S) = Cardinality(a .. b)
  BY <1>2, <1>3, FS_Bijection, Zenon
<1> QED
  BY <1>2, <1>4

\* The number of free blocks after bits are cleared.
LEMMA Cleared ==
    ASSUME NEW m \in SUBSET Blocks, NEW F \in SUBSET m
    PROVE  Cardinality(Blocks \ (m \ F)) = Cardinality(Blocks \ m) + Cardinality(F)
<1>1. IsFiniteSet(Blocks \ m) /\ IsFiniteSet(F)
  BY BlocksFinite, FS_Subset
<1>2. Cardinality((Blocks \ m) \cup F) =
         Cardinality(Blocks \ m) + Cardinality(F) - Cardinality((Blocks \ m) \cap F)
  BY <1>1, FS_Union
<1>3. (Blocks \ m) \cup F = Blocks \ (m \ F) /\ (Blocks \ m) \cap F = {}
  OBVIOUS
<1>4. Cardinality({}) = 0
  BY FS_EmptySet
<1>5. Cardinality(Blocks \ m) \in Nat /\ Cardinality(F) \in Nat
  BY <1>1, FS_CardinalityType
<1>6. Cardinality(Blocks \ (m \ F)) = Cardinality(Blocks \ m) + Cardinality(F) - 0
  BY <1>2, <1>3, <1>4, Zenon
<1> QED
  BY <1>5, <1>6

\* The number of free blocks after bits are set.
LEMMA Marked ==
    ASSUME NEW m \in SUBSET Blocks, NEW N \in SUBSET (Blocks \ m)
    PROVE  Cardinality(Blocks \ (m \cup N)) = Cardinality(Blocks \ m) - Cardinality(N)
<1>1. IsFiniteSet(Blocks \ m)
  BY BlocksFinite, FS_Subset
<1>2. Cardinality((Blocks \ m) \ N) = Cardinality(Blocks \ m) - Cardinality((Blocks \ m) \cap N)
  BY <1>1, FS_Difference
<1>3. (Blocks \ m) \ N = Blocks \ (m \cup N) /\ (Blocks \ m) \cap N = N
  OBVIOUS
<1> QED
  BY <1>2, <1>3

\* The number of free blocks is a number.
LEMMA FreeNumber == ASSUME NEW m PROVE Cardinality(Blocks \ m) \in Nat
<1>1. IsFiniteSet(Blocks \ m)
  BY BlocksFinite, FS_Subset
<1> QED
  BY <1>1, FS_CardinalityType

\* An object has its inode and its data blocks, all different.
LEMMA FreedNumber ==
    ASSUME NEW d, NEW m, Sound(d, m), NEW i \in LiveIn(d, m)
    PROVE  /\ Freed(d, i) \in SUBSET m
           /\ Cardinality(Freed(d, i)) = BlocksFor(d[i].size) + 1
<1> DEFINE n == BlocksFor(d[i].size)
           f == d[i].ptrs
<1>1. n \in Nat /\ i \in m /\ d[i].kind = "inode"
  BY LiveInode
<1>2. /\ \A k \in DataIdx(d[i]) : f[k] \in m /\ d[f[k]].kind # "inode"
      /\ \A j, k \in DataIdx(d[i]) : f[j] = f[k] => j = k
  BY DEF Sound, InodesFit, PtrsDiffer
<1>3. DataIdx(d[i]) = 0 .. n - 1 /\ DataBlocks(d[i]) = {f[k] : k \in DataIdx(d[i])}
  BY DEF DataIdx, DataBlocks
<1>4. Freed(d, i) = {f[k] : k \in 0 .. n - 1} \cup {i}
  BY <1>3 DEF Freed
<1> HIDE DEF n, f
<1>5. IsFiniteSet({f[k] : k \in 0 .. n - 1}) /\ Cardinality({f[k] : k \in 0 .. n - 1}) = n
  <2>1. \A j, k \in 0 .. n - 1 : f[j] = f[k] => j = k
    BY <1>2, <1>3
  <2>2. IsFiniteSet({f[k] : k \in 0 .. n - 1}) /\ Cardinality({f[k] : k \in 0 .. n - 1}) = (n - 1) - 0 + 1
    <3>1. 0 \in Int /\ n - 1 \in Int /\ 0 <= (n - 1) + 1
      BY <1>1
    <3> QED
      BY <2>1, <3>1, Enumerated
  <2> QED
    BY <1>1, <2>2
<1>6. i \notin {f[k] : k \in 0 .. n - 1}
  BY <1>1, <1>2, <1>3
<1>7. Cardinality(Freed(d, i)) = n + 1
  BY <1>4, <1>5, <1>6, FS_AddElement
<1>8. Freed(d, i) \subseteq m
  BY <1>1, <1>2, <1>3, <1>4
<1> QED
  BY <1>7, <1>8 DEF n

\* The two counters of statfs agree, and promise no less than there is.
CountersTrue ==
    /\ CountersOK
    /\ statVfs.f_bavail = statVfs.f_bfree
    /\ statVfs.f_bfree >= FreeBlocks

\* What FreeCountFollows says of one step, with the counters of the next state.
Follows ==
    /\ CountersOK'
    /\ statVfs'.f_bavail = statVfs'.f_bfree
    /\ IF reply'.op = "init" THEN statVfs'.f_bfree = FreeBlocks'
       ELSE IF reply'.op = "write" /\ bitmap' = bitmap THEN statVfs'.f_bfree - statVfs.f_bfree >= 0
       ELSE statVfs'.f_bfree - statVfs.f_bfree = FreeBlocks' - FreeBlocks

\* A step that keeps the bitmap and the counters.
LEMMA KeptFollows ==
    ASSUME CountersTrue, bitmap' = bitmap, statVfs' = statVfs, reply'.op # "init"
    PROVE  Follows
<1>1. statVfs.f_bfree \in Int /\ CountersOK' /\ statVfs'.f_bavail = statVfs'.f_bfree
  BY DEF CountersTrue, CountersOK
<1>2. FreeBlocks' = FreeBlocks /\ FreeBlocks \in Nat
  BY FreeNumber DEF FreeBlocks
<1> QED
  BY <1>1, <1>2 DEF Follows

\* A step that moves the counters by as much as the free blocks, or a write that adds to them.
LEMMA MovedFollows ==
    ASSUME CountersTrue, NEW n \in Int, AddFree(n), reply'.op # "init",
           \/ FreeBlocks' = FreeBlocks + n
           \/ reply'.op = "write" /\ bitmap' = bitmap /\ n >= 0
    PROVE  Follows
<1>1. /\ statVfs.f_bfree \in Int /\ statVfs.f_bavail = statVfs.f_bfree
      /\ statVfs' = [f_bfree |-> statVfs.f_bfree + n, f_bavail |-> statVfs.f_bavail + n]
  BY DEF CountersTrue, CountersOK, AddFree
<1>2. FreeBlocks \in Nat /\ FreeBlocks' \in Nat
  BY FreeNumber DEF FreeBlocks
<1>3. CountersOK' /\ statVfs'.f_bavail = statVfs'.f_bfree /\ statVfs'.f_bfree = statVfs.f_bfree + n
  BY <1>1 DEF CountersOK
<1>4. statVfs'.f_bfree - statVfs.f_bfree = n
  BY <1>1, <1>3
<1>5. bitmap' = bitmap => FreeBlocks' = FreeBlocks
  BY DEF FreeBlocks
<1>6. CASE FreeBlocks' = FreeBlocks + n
  <2>1. FreeBlocks' - FreeBlocks = n
    BY <1>2, <1>6
  <2>2. bitmap' = bitmap => n >= 0
    BY <1>2, <1>5, <1>6
  <2> QED
    BY <1>3, <1>4, <2>1, <2>2 DEF Follows
<1>7. CASE reply'.op = "write" /\ bitmap' = bitmap /\ n >= 0
  BY <1>3, <1>4, <1>7 DEF Follows
<1> QED
  BY <1>6, <1>7

\* A call that returns early, and a call that only answers.
LEMMA FailFollows ==
    ASSUME CountersTrue, NEW op, op # "init", NEW path, NEW err, Fail(op, path, err)
    PROVE  Follows
<1>1. bitmap' = bitmap /\ statVfs' = statVfs /\ reply'.op = op
  BY DEF Fail, Reply
<1> QED
  BY <1>1, KeptFollows

\* create takes one block, mkdir two.
LEMMA LinkFollows ==
    ASSUME SoundState, CountersTrue, NEW path \in Seq(Names), path # <<>>, NEW perm \in Perms,
           NEW now \in Times, Create(path, perm, now) \/ Mkdir(path, perm, now)
    PROVE  Follows
<1>1. CASE Fail("create", path, CreateStatus(path, 1)) \/ Fail("mkdir", path, CreateStatus(path, 2))
  BY <1>1, FailFollows
<1>2. CASE Create(path, perm, now) /\ ~Fail("create", path, CreateStatus(path, 1))
  <2>1. /\ AddFree(-1) /\ Done("create", path, OK)
        /\ \E image, s, n :
              /\ bitmap' = bitmap \cup {n}
              /\ Linking(disk, bitmap, image, ResolveParent(path), s,
                         [name |-> Leaf(path), inode |-> n], {n})
    BY <1>2, CreateEffect
  <2>2. PICK n : bitmap' = bitmap \cup {n} /\ {n} \in SUBSET (Blocks \ bitmap)
    BY <2>1 DEF Linking
  <2>3. Cardinality({n}) = 1 /\ bitmap \in SUBSET Blocks
    BY FS_Singleton DEF SoundState, Sound, Typed
  <2>4. FreeBlocks' = FreeBlocks - 1
    BY <2>2, <2>3, Marked DEF FreeBlocks
  <2>5. FreeBlocks' = FreeBlocks + (-1)
    BY <2>4, FreeNumber DEF FreeBlocks
  <2>6. reply'.op # "init" /\ -1 \in Int
    BY <2>1 DEF Done, Reply
  <2> QED
    BY <2>1, <2>5, <2>6, MovedFollows
<1>3. CASE Mkdir(path, perm, now) /\ ~Fail("mkdir", path, CreateStatus(path, 2))
  <2>1. /\ AddFree(-2) /\ Done("mkdir", path, OK)
        /\ \E image, s, n, b2 :
              /\ n # b2 /\ bitmap' = bitmap \cup {n, b2}
              /\ Linking(disk, bitmap, image, ResolveParent(path), s,
                         [name |-> Leaf(path), inode |-> n], {n, b2})
    BY <1>3, MkdirEffect
  <2>2. PICK n, b2 : n # b2 /\ bitmap' = bitmap \cup {n, b2} /\ {n, b2} \in SUBSET (Blocks \ bitmap)
    BY <2>1 DEF Linking
  <2>3. Cardinality({n, b2}) = 2
    <3>1. IsFiniteSet({n}) /\ Cardinality({n}) = 1 /\ {n, b2} = {n} \cup {b2}
      BY FS_Singleton
    <3>2. Cardinality({n} \cup {b2}) = IF b2 \in {n} THEN Cardinality({n}) ELSE Cardinality({n}) + 1
      BY <3>1, FS_AddElement
    <3> QED
      BY <2>2, <3>1, <3>2, 1 + 1 = 2
  <2>4. bitmap \in SUBSET Blocks
    BY DEF SoundState, Sound, Typed
  <2>5. FreeBlocks' = FreeBlocks - 2
    BY <2>2, <2>3, <2>4, Marked DEF FreeBlocks
  <2>6. FreeBlocks' = FreeBlocks + (-2)
    BY <2>5, FreeNumber DEF FreeBlocks
  <2>7. reply'.op # "init" /\ -2 \in Int
    BY <2>1 DEF Done, Reply
  <2> QED
    BY <2>1, <2>6, <2>7, MovedFollows
<1> QED
  BY <1>1, <1>2, <1>3

\* unlink and rmdir give back the inode and its data blocks.
LEMMA RemoveFollows ==
    ASSUME SoundState, CountersTrue, NEW path \in Seq(Names), path # <<>>, Unlink(path) \/ Rmdir(path)
    PROVE  Follows
<1> DEFINE i == Resolve(path)
           n == BlocksFor(disk[i].size) + 1
<1>1. CASE Fail("unlink", path, Resolve(path)) \/ Fail("rmdir", path, RmdirStatus(path))
  BY <1>1, FailFollows
<1>2. CASE ~Fail("unlink", path, Resolve(path)) /\ ~Fail("rmdir", path, RmdirStatus(path))
  <2>1. /\ i >= 0 /\ bitmap' = bitmap \ Freed(disk, i) /\ AddFree(n)
        /\ reply'.op # "init"
    <3>1. CASE Unlink(path)
      BY <1>2, <3>1, UnlinkEffect DEF Done, Reply
    <3>2. CASE Rmdir(path)
      <4>1. 1 + 1 = 2
        OBVIOUS
      <4> QED
        BY <1>2, <3>2, <4>1, RmdirEffect DEF Done, Reply
    <3> QED
      BY <3>1, <3>2
  <2>2. i \in LiveIn(disk, bitmap) /\ Sound(disk, bitmap) /\ bitmap \in SUBSET Blocks
    BY <2>1, UnlinkedEffect DEF SoundState, Sound, Typed
  <2>3. n \in Int
    <3>1. BlocksFor(disk[i].size) \in Nat
      BY <2>2, LiveInode
    <3> QED
      BY <3>1
  <2> HIDE DEF n
  <2>4. Freed(disk, i) \in SUBSET bitmap /\ Cardinality(Freed(disk, i)) = n
    BY <2>2, FreedNumber DEF n
  <2>5. FreeBlocks' = FreeBlocks + n
    BY <2>1, <2>2, <2>4, Cleared DEF FreeBlocks
  <2> QED
    BY <2>1, <2>3, <2>5, MovedFollows
<1> QED
  BY <1>1, <1>2

\* truncate gives back the blocks past the new end.
LEMMA TruncateFollows ==
    ASSUME SoundState, CountersTrue, NEW path \in Seq(Names), NEW len \in Int, Truncate(path, len)
    PROVE  Follows
<1>1. CASE Fail("truncate", path, TruncateStatus(path, len))
  BY <1>1, FailFollows
<1>2. CASE ~Fail("truncate", path, TruncateStatus(path, len))
  <2> DEFINE i == ResolveFile(path)
             left == BlocksFor(len)
             n == BlocksFor(disk[i].size)
             f == disk[i].ptrs
             F == {f[k] : k \in left .. n - 1}
  <2>1. TruncateStatus(path, len) = OK /\ AddFree(n - left) /\ reply'.op = "truncate" /\ bitmap' = bitmap \ F
    BY <1>2, TruncateEffect DEF Done, Reply
  <2>2. i \in LiveIn(disk, bitmap) /\ left <= n /\ left \in Nat /\ n \in Nat
    BY <2>1, TruncateGranted, BlocksForProperty, LiveInode DEF SoundState
  <2>3. DataIdx(disk[i]) = 0 .. n - 1
    BY DEF DataIdx
  <2>4. /\ \A k \in DataIdx(disk[i]) : f[k] \in bitmap
        /\ \A j, k \in DataIdx(disk[i]) : f[j] = f[k] => j = k
    BY <2>2 DEF SoundState, Sound, InodesFit, PtrsDiffer
  <2> HIDE DEF i, left, n, f
  <2>5. left .. n - 1 \subseteq 0 .. n - 1
    BY <2>2
  <2>6. F \in SUBSET bitmap /\ \A j, k \in left .. n - 1 : f[j] = f[k] => j = k
    BY <2>3, <2>4, <2>5
  <2>7. Cardinality(F) = (n - 1) - left + 1
    <3>1. left \in Int /\ n - 1 \in Int /\ left <= (n - 1) + 1
      BY <2>2
    <3> QED
      BY <2>6, <3>1, Enumerated, ZenonT(60)
  <2>8. Cardinality(F) = n - left /\ n - left \in Int
    BY <2>2, <2>7
  <2> HIDE DEF F
  <2>9. bitmap \in SUBSET Blocks
    BY DEF SoundState, Sound, Typed
  <2>10. FreeBlocks' = FreeBlocks + (n - left)
    BY <2>1, <2>6, <2>8, <2>9, Cleared DEF FreeBlocks
  <2> QED
    BY <2>1, <2>8, <2>10, MovedFollows
<1> QED
  BY <1>1, <1>2

\* A scan that finds n blocks leaves n fewer free.
LEMMA TakenNumber ==
    ASSUME SoundState, NEW n \in Nat, NEW fresh \in FirstFree(bitmap, n), bitmap' = bitmap \cup Range(fresh)
    PROVE  FreeBlocks' = FreeBlocks - n
<1>1. /\ fresh \in [1 .. n -> Blocks \ bitmap]
      /\ \A j, k \in 1 .. n : fresh[j] = fresh[k] => j = k
  BY FirstFreeProperty
<1>2. Range(fresh) = {fresh[k] : k \in 1 .. n} /\ Range(fresh) \in SUBSET (Blocks \ bitmap)
  BY <1>1 DEF Range
<1>3. Cardinality({fresh[k] : k \in 1 .. n}) = n - 1 + 1
  <2>1. 1 \in Int /\ n \in Int /\ 1 <= n + 1
    OBVIOUS
  <2>2. \A j, k \in 1 .. n : fresh[j] = fresh[k] => j = k
    BY <1>1
  <2> QED
    BY <2>1, <2>2, Enumerated
<1>4. Cardinality(Range(fresh)) = n
  BY <1>2, <1>3
<1>5. bitmap \in SUBSET Blocks
  BY DEF SoundState, Sound, Typed
<1> QED
  BY <1>2, <1>4, <1>5, Marked DEF FreeBlocks

\* write takes as many blocks as it counts, and counts blocks back that it never took.
LEMMA WriteFollows ==
    ASSUME SoundState, CountersTrue, NEW path \in Seq(Names), NEW offset \in Nat, NEW len \in Nat \ {0},
           NEW byte \in Bytes, NEW now \in Times, Write(path, offset, len, byte, now)
    PROVE  Follows
<1>1. CASE Fail("write", path, WriteStatus(path, offset, len))
  BY <1>1, FailFollows
<1>2. CASE ~Fail("write", path, WriteStatus(path, offset, len))
  <2> DEFINE need == BlocksNeeded(disk[ResolveFile(path)].size, offset, len)
  <2>1. /\ need \in Int /\ AddFree(-need) /\ Done("write", path, len)
        /\ \E fresh \in FirstFree(bitmap, need) : bitmap' = bitmap \cup Range(fresh)
    BY <1>2, WriteEffect
  <2>2. PICK fresh \in FirstFree(bitmap, need) : bitmap' = bitmap \cup Range(fresh)
    BY <2>1
  <2> HIDE DEF need
  <2>6. FreeBlocks \in Nat /\ reply'.op = "write" /\ -need \in Int
    <3>1. FreeBlocks \in Nat
      BY FreeNumber DEF FreeBlocks
    <3>2. reply'.op = "write"
      BY <2>1 DEF Done, Reply
    <3>3. -need \in Int
      BY <2>1
    <3> QED
      BY <3>1, <3>2, <3>3
  <2>7. CASE need > 0
    <3>1. FreeBlocks' = FreeBlocks - need
      BY <2>1, <2>2, <2>7, TakenNumber
    <3>2. FreeBlocks' = FreeBlocks + (-need)
      BY <2>1, <2>6, <3>1
    <3> QED
      BY <2>1, <2>6, <3>2, MovedFollows
  <2>8. CASE need <= 0
    <3>1. 1 .. need = {} /\ fresh \in [1 .. need -> Blocks \ bitmap]
      BY <2>1, <2>2, <2>8, FirstFreeProperty
    <3>2. bitmap' = bitmap
      BY <2>2, <3>1 DEF Range
    <3>3. FreeBlocks' = FreeBlocks
      BY <3>2 DEF FreeBlocks
    <3>4. -need >= 0
      BY <2>1, <2>8
    <3> QED
      BY <2>1, <2>6, <3>2, <3>4, MovedFollows
  <2> QED
    BY <2>1, <2>7, <2>8
<1> QED
  BY <1>1, <1>2

\* A mount counts again; the calls that remain change neither bitmap nor counters.
LEMMA LookFollows ==
    ASSUME SoundState, CountersTrue,
           \/ \E path, offset, len : Read(path, offset, len)
           \/ \E path : Getattr(path) \/ Readdir(path)
           \/ Statfs \/ Mount
    PROVE  Follows
<1>1. CASE Mount
  <2>1. reply'.op = "init" /\ bitmap' = disk[BitmapBlock].used
        /\ statVfs' = [f_bfree |-> FreeBlocks', f_bavail |-> FreeBlocks']
    BY <1>1 DEF Mount, Mounted, Done, Reply, FreeBlocks
  <2>2. FreeBlocks' \in Int
    BY FreeNumber DEF FreeBlocks
  <2> QED
    BY <2>1, <2>2 DEF Follows, CountersOK
<1>2. CASE \/ \E path, offset, len : Read(path, offset, len)
           \/ \E path : Getattr(path) \/ Readdir(path)
           \/ Statfs
  <2>1. bitmap' = bitmap /\ statVfs' = statVfs /\ reply'.op # "init"
    BY <1>2 DEF Read, Getattr, Readdir, Statfs, Fail, Done, Reply
  <2> QED
    BY <2>1, KeptFollows
<1> QED
  BY <1>1, <1>2

\* rename, chmod and utime change neither bitmap nor counters.
LEMMA EntryFollows ==
    ASSUME CountersTrue,
           \/ \E src, dst : Rename(src, dst)
           \/ \E path, perm : Chmod(path, perm)
           \/ \E path, time : Utime(path, time)
    PROVE  Follows
<1>1. ASSUME NEW src, NEW dst, Rename(src, dst)
      PROVE  Follows
  <2>1. CASE Fail("rename", src, RenameStatus(src, dst))
    BY <2>1, FailFollows
  <2>2. CASE Done("rename", src, OK) /\ bitmap' = bitmap /\ statVfs' = statVfs
    <3>1. reply'.op # "init"
      BY <2>2 DEF Done, Reply
    <3> QED
      BY <2>2, <3>1, KeptFollows
  <2> QED
    BY <1>1, <2>1, <2>2 DEF Rename
<1>2. ASSUME NEW op \in {"chmod", "utime"}, NEW path, NEW err,
             \/ Fail(op, path, err)
             \/ Done(op, path, OK) /\ bitmap' = bitmap /\ statVfs' = statVfs
      PROVE  Follows
  <2>1. CASE Fail(op, path, err)
    BY <2>1, FailFollows
  <2>2. CASE Done(op, path, OK) /\ bitmap' = bitmap /\ statVfs' = statVfs
    <3>1. reply'.op # "init"
      BY <2>2 DEF Done, Reply
    <3> QED
      BY <2>2, <3>1, KeptFollows
  <2> QED
    BY <1>2, <2>1, <2>2
<1>3. ASSUME NEW path, NEW perm, Chmod(path, perm)
      PROVE  Follows
  <2>1. \/ Fail("chmod", path, Resolve(path))
        \/ Done("chmod", path, OK) /\ bitmap' = bitmap /\ statVfs' = statVfs
    BY <1>3 DEF Chmod
  <2> QED
    BY <1>2, <2>1
<1>4. ASSUME NEW path, NEW time, Utime(path, time)
      PROVE  Follows
  <2>1. \/ Fail("utime", path, ResolveFile(path))
        \/ Done("utime", path, OK) /\ bitmap' = bitmap /\ statVfs' = statVfs
    BY <1>4 DEF Utime
  <2> QED
    BY <1>2, <2>1
<1> QED
  BY <1>1, <1>3, <1>4, Zenon

\* Every call.
LEMMA NextFollows ==
    ASSUME SoundState, CountersTrue, Next
    PROVE  Follows
<1> USE ClientAssumption
<1>1. \A path \in Paths : path \in Seq(Names)
  OBVIOUS
<1>2. \A path \in Below : path \in Seq(Names) /\ path # <<>>
  BY DEF Below
<1>3. /\ \A x \in IoOffsets : x \in Nat
      /\ \A x \in IoLens : x \in Nat \ {0}
      /\ \A x \in TruncLens : x \in Int
  OBVIOUS
<1>4. ASSUME NEW path \in Below, NEW perm \in Perms, NEW now \in Times,
             Create(path, perm, now) \/ Mkdir(path, perm, now)
      PROVE  Follows
  BY <1>2, <1>4, LinkFollows, Zenon
<1>5. ASSUME NEW path \in Below, Unlink(path) \/ Rmdir(path)
      PROVE  Follows
  BY <1>2, <1>5, RemoveFollows, Zenon
<1>6. CASE \/ \E src \in Below, dst \in Paths : Rename(src, dst)
           \/ \E path \in Paths, perm \in Perms : Chmod(path, perm)
           \/ \E path \in Paths, time \in Times : Utime(path, time)
  BY <1>6, EntryFollows, Zenon
<1>7. ASSUME NEW path \in Paths, NEW len \in TruncLens, Truncate(path, len)
      PROVE  Follows
  BY <1>1, <1>3, <1>7, TruncateFollows, Zenon
<1>8. ASSUME NEW path \in Paths, NEW offset \in IoOffsets, NEW len \in IoLens, NEW byte \in Bytes,
             NEW now \in Times, Write(path, offset, len, byte, now)
      PROVE  Follows
  BY <1>1, <1>3, <1>8, WriteFollows, Zenon
<1>9. CASE \/ \E path \in Paths, offset \in IoOffsets, len \in IoLens : Read(path, offset, len)
           \/ \E path \in Paths : Getattr(path) \/ Readdir(path)
           \/ Statfs \/ Mount
  BY <1>9, LookFollows, Zenon
<1> QED
  BY <1>4, <1>5, <1>6, <1>7, <1>8, <1>9, Zenon DEF Next

\* What a step does to the counters keeps them true.
LEMMA CountersStayTrue ==
    ASSUME CountersTrue, Follows
    PROVE  CountersTrue'
<1>1. FreeBlocks \in Nat /\ FreeBlocks' \in Nat
  BY FreeNumber DEF FreeBlocks
<1>2. statVfs.f_bfree \in Int /\ statVfs.f_bfree >= FreeBlocks /\ CountersOK'
  BY DEF CountersTrue, CountersOK, Follows
<1>3. statVfs'.f_bfree \in Int
  BY <1>2 DEF CountersOK
<1>4. bitmap' = bitmap => FreeBlocks' = FreeBlocks
  BY DEF FreeBlocks
<1>5. statVfs'.f_bfree >= FreeBlocks'
  BY <1>1, <1>2, <1>3, <1>4 DEF Follows
<1> QED
  BY <1>2, <1>5 DEF CountersTrue, Follows

\* The counters are true from the first mount on.
LEMMA CountersAlwaysTrue == Spec => [](SoundState /\ CountersTrue)
<1>1. Init => SoundState /\ CountersTrue
  <2> SUFFICES ASSUME Init PROVE SoundState /\ CountersTrue
    OBVIOUS
  <2>1. SoundState
    BY InitKeeps
  <2>2. statVfs = [f_bfree |-> FreeBlocks, f_bavail |-> FreeBlocks]
    BY DEF Init
  <2>3. FreeBlocks \in Nat
    BY FreeNumber DEF FreeBlocks
  <2>4. statVfs.f_bavail = statVfs.f_bfree /\ statVfs.f_bfree >= FreeBlocks
    BY <2>2, <2>3
  <2> QED
    BY <2>1, <2>4 DEF CountersTrue, SoundState
<1>2. SoundState /\ CountersTrue /\ [Next]_vars => (SoundState /\ CountersTrue)'
  <2> SUFFICES ASSUME SoundState, CountersTrue, [Next]_vars PROVE SoundState' /\ CountersTrue'
    OBVIOUS
  <2>1. SoundState'
    BY NextKeeps
  <2>2. CASE Next
    BY <2>1, <2>2, NextFollows, CountersStayTrue
  <2>3. CASE UNCHANGED vars
    BY <2>1, <2>3 DEF vars, CountersTrue, CountersOK, FreeBlocks
  <2> QED
    BY <2>2, <2>3
<1> QED
  BY <1>1, <1>2, PTL DEF Spec

(***************************************************************************)
(* statfs never reports fewer free blocks than the bitmap has: no sequence *)
(* of create, mkdir, write, unlink, rmdir, truncate and mount drives the   *)
(* counters below the truth.                                               *)
(***************************************************************************)
THEOREM CountNeverShort == Spec => [](statVfs.f_bavail = statVfs.f_bfree /\ statVfs.f_bfree >= FreeBlocks)
<1>1. CountersTrue => statVfs.f_bavail = statVfs.f_bfree /\ statVfs.f_bfree >= FreeBlocks
  BY DEF CountersTrue
<1> QED
  BY <1>1, CountersAlwaysTrue, PTL

(***************************************************************************)
(* Every call moves the free count of statfs by exactly the blocks it      *)
(* marks or frees, also a write that takes blocks.  The exceptions are a   *)
(* write that takes none, which may give back blocks it never had, and a   *)
(* mount, which counts the bitmap's clear bits.                            *)
(***************************************************************************)
THEOREM CountFollows == Spec => FreeCountFollows
<1> DEFINE A == LET counted == statVfs'.f_bfree - statVfs.f_bfree
                    freed   == FreeBlocks' - FreeBlocks
                IN  /\ statVfs'.f_bavail = statVfs'.f_bfree
                    /\ IF reply'.op = "init" THEN statVfs'.f_bfree = FreeBlocks'
                       ELSE IF reply'.op = "write" /\ bitmap' = bitmap THEN counted >= 0
                       ELSE counted = freed
<1>1. SoundState /\ CountersTrue /\ [Next]_vars => [A]_vars
  <2>1. SoundState /\ CountersTrue /\ Next => A
    BY NextFollows DEF Follows
  <2> HIDE DEF A
  <2> QED
    BY <2>1
<1> QED
  BY <1>1, CountersAlwaysTrue, PTL DEF Spec, FreeCountFollows

\* A write that counts blocks back: it ends before the last block of its file.
Overcounts(path, offset, len, byte, now) ==
    /\ Write(path, offset, len, byte, now)
    /\ WriteStatus(path, offset, len) = OK
    /\ BlocksNeeded(disk[ResolveFile(path)].size, offset, len) < 0

\* Some call of the client does.
Overcounted ==
    \E path \in Paths, offset \in IoOffsets, len \in IoLens, byte \in Bytes, now \in Times :
       Overcounts(path, offset, len, byte, now)

\* A write that goes through finds an exact count exact, unless it counts blocks back.
LEMMA WriteExact ==
    ASSUME SoundState, CountersTrue, FreeExact,
           NEW path \in Seq(Names), NEW offset \in Nat, NEW len \in Nat \ {0},
           NEW byte \in Bytes, NEW now \in Times, Write(path, offset, len, byte, now)
    PROVE  FreeExact' <=> ~Overcounts(path, offset, len, byte, now)
<1> DEFINE need == BlocksNeeded(disk[ResolveFile(path)].size, offset, len)
<1>1. CASE Fail("write", path, WriteStatus(path, offset, len))
  <2>1. bitmap' = bitmap /\ statVfs' = statVfs /\ WriteStatus(path, offset, len) # OK
    BY <1>1 DEF Fail, Reply, OK
  <2>2. FreeExact'
    BY <2>1 DEF FreeExact, FreeBlocks
  <2> QED
    BY <2>1, <2>2 DEF Overcounts
<1>2. CASE ~Fail("write", path, WriteStatus(path, offset, len))
  <2>1. /\ WriteStatus(path, offset, len) = OK /\ need \in Int /\ AddFree(-need)
        /\ \E fresh \in FirstFree(bitmap, need) : bitmap' = bitmap \cup Range(fresh)
    BY <1>2, WriteEffect
  <2>2. PICK fresh \in FirstFree(bitmap, need) : bitmap' = bitmap \cup Range(fresh)
    BY <2>1
  <2>3. Overcounts(path, offset, len, byte, now) <=> need < 0
    BY <2>1 DEF Overcounts
  <2> HIDE DEF need
  <2>4. FreeBlocks \in Nat
    BY FreeNumber DEF FreeBlocks
  <2>5. statVfs' = [f_bfree |-> FreeBlocks - need, f_bavail |-> FreeBlocks - need]
    <3>1. statVfs' = [f_bfree |-> FreeBlocks + (-need), f_bavail |-> FreeBlocks + (-need)]
      BY <2>1 DEF AddFree, FreeExact
    <3>2. FreeBlocks + (-need) = FreeBlocks - need
      BY <2>1, <2>4
    <3> QED
      BY <3>1, <3>2
  <2>6. CASE need >= 0
    <3>1. FreeBlocks' = FreeBlocks - need
      BY <2>1, <2>2, <2>6, TakenNumber
    <3> QED
      BY <2>1, <2>3, <2>5, <2>6, <3>1 DEF FreeExact
  <2>7. CASE need < 0
    <3>1. 1 .. need = {} /\ fresh \in [1 .. need -> Blocks \ bitmap]
      BY <2>1, <2>2, <2>7, FirstFreeProperty
    <3>2. bitmap' = bitmap
      BY <2>2, <3>1 DEF Range
    <3>3. FreeBlocks' = FreeBlocks
      BY <3>2 DEF FreeBlocks
    <3>4. FreeBlocks - need # FreeBlocks
      BY <2>1, <2>4, <2>7
    <3>5. statVfs'.f_bfree # FreeBlocks'
      BY <2>5, <3>3, <3>4
    <3> QED
      BY <2>3, <2>7, <3>5 DEF FreeExact
  <2> QED
    BY <2>1, <2>6, <2>7
<1> QED
  BY <1>1, <1>2

\* A reply names the call: only a write answers as one.
LEMMA NextNamed ==
    ASSUME Next, reply'.op = "write"
    PROVE  \E path \in Paths, offset \in IoOffsets, len \in IoLens, byte \in Bytes, now \in Times :
              Write(path, offset, len, byte, now)
<1>1. ASSUME NEW path, NEW perm, NEW now, Create(path, perm, now) \/ Mkdir(path, perm, now)
      PROVE  FALSE
  BY <1>1 DEF Create, Mkdir, Fail, Done, Reply
<1>2. ASSUME NEW path, Unlink(path) \/ Rmdir(path)
      PROVE  FALSE
  BY <1>2 DEF Unlink, Rmdir, Fail, Done, Reply
<1>3. ASSUME NEW src, NEW dst, Rename(src, dst)
      PROVE  FALSE
  BY <1>3 DEF Rename, Fail, Done, Reply
<1>4. ASSUME NEW path, NEW x, Chmod(path, x) \/ Utime(path, x) \/ Truncate(path, x)
      PROVE  FALSE
  BY <1>4 DEF Chmod, Utime, Truncate, Fail, Done, Reply
<1>5. ASSUME NEW path, NEW offset, NEW len, Read(path, offset, len)
      PROVE  FALSE
  BY <1>5 DEF Read, Fail, Done, Reply
<1>6. ASSUME NEW path, Getattr(path) \/ Readdir(path)
      PROVE  FALSE
  BY <1>6 DEF Getattr, Readdir, Fail, Done, Reply
<1>7. ~Statfs /\ ~Mount
  BY DEF Statfs, Mount, Done, Reply
<1> QED
  BY <1>1, <1>2, <1>3, <1>4, <1>5, <1>6, <1>7, Zenon DEF Next

\* Every step.
LEMMA NextExact ==
    ASSUME SoundState, CountersTrue, Next, FreeExact \/ reply'.op = "init"
    PROVE  FreeExact' <=> ~Overcounted
<1> USE ClientAssumption
<1>1. /\ \A path \in Paths : path \in Seq(Names)
      /\ \A x \in IoOffsets : x \in Nat
      /\ \A x \in IoLens : x \in Nat \ {0}
  OBVIOUS
<1>2. ASSUME NEW path, NEW offset, NEW len, NEW byte, NEW now, Write(path, offset, len, byte, now)
      PROVE  reply'.op = "write"
  BY <1>2 DEF Write, Fail, Done, Reply
<1>3. CASE \E path \in Paths, offset \in IoOffsets, len \in IoLens, byte \in Bytes, now \in Times :
              Write(path, offset, len, byte, now)
  <2>1. FreeExact
    BY <1>2, <1>3
  <2>2. ASSUME NEW path \in Paths, NEW offset \in IoOffsets, NEW len \in IoLens, NEW byte \in Bytes,
               NEW now \in Times, Write(path, offset, len, byte, now)
        PROVE  FreeExact' <=> ~Overcounts(path, offset, len, byte, now)
    BY <1>1, <2>1, <2>2, WriteExact
  <2>3. CASE Overcounted
    BY <2>2, <2>3 DEF Overcounted, Overcounts
  <2>4. CASE ~Overcounted
    BY <1>3, <2>2, <2>4 DEF Overcounted
  <2> QED
    BY <2>3, <2>4
<1>4. CASE ~\E path \in Paths, offset \in IoOffsets, len \in IoLens, byte \in Bytes, now \in Times :
              Write(path, offset, len, byte, now)
  <2>1. ~Overcounted
    BY <1>4 DEF Overcounted, Overcounts
  <2>2. reply'.op # "write"
    BY <1>4, NextNamed
  <2>3. Follows
    BY NextFollows
  <2>4. FreeBlocks \in Nat /\ FreeBlocks' \in Nat
    BY FreeNumber DEF FreeBlocks
  <2>5. statVfs'.f_bfree = FreeBlocks'
    <3>1. CASE reply'.op = "init"
      BY <2>3, <3>1 DEF Follows
    <3>2. CASE reply'.op # "init"
      <4>1. statVfs.f_bfree = FreeBlocks /\ statVfs'.f_bfree \in Int
        BY <2>3, <3>2 DEF FreeExact, Follows, CountersOK
      <4>2. statVfs'.f_bfree - statVfs.f_bfree = FreeBlocks' - FreeBlocks
        BY <2>2, <2>3, <3>2 DEF Follows
      <4> QED
        BY <2>4, <4>1, <4>2
    <3> QED
      BY <3>1, <3>2
  <2>6. FreeExact'
    BY <2>3, <2>5 DEF Follows, CountersOK, FreeExact
  <2> QED
    BY <2>1, <2>6
<1> QED
  BY <1>3, <1>4

(***************************************************************************)
(* The free count of statfs becomes wrong by one kind of call only, and    *)
(* always by that: a write that ends before the last block of its file.    *)
(* Any other call finds it right and leaves it right, whatever it returns, *)
(* and a mount makes it right again.                                       *)
(***************************************************************************)
THEOREM OnlyRewritesOvercount ==
    Spec => [][FreeExact \/ reply'.op = "init" => (FreeExact' <=> ~Overcounted)]_vars
<1> DEFINE A == FreeExact \/ reply'.op = "init" => (FreeExact' <=> ~Overcounted)
<1>1. SoundState /\ CountersTrue /\ [Next]_vars => [A]_vars
  <2>1. SoundState /\ CountersTrue /\ Next => A
    BY NextExact
  <2> HIDE DEF A
  <2> QED
    BY <2>1
<1> QED
  BY <1>1, CountersAlwaysTrue, PTL DEF Spec

(***************************************************************************)
(* Without writes, statfs reports the free blocks of the bitmap at all     *)
(* times, as the comment of fs_statfs says.                                *)
(***************************************************************************)
THEOREM ExactWithoutWrites ==
    ASSUME "write" \notin Calls
    PROVE  Spec => []FreeExact
<1>1. Init => FreeExact
  BY DEF Init, FreeExact
<1>2. SoundState /\ CountersTrue /\ FreeExact /\ [Next]_vars => FreeExact'
  <2> SUFFICES ASSUME SoundState, CountersTrue, FreeExact, [Next]_vars PROVE FreeExact'
    OBVIOUS
  <2>1. CASE Next
    <3>1. ASSUME NEW path, NEW offset, NEW len, NEW byte, NEW now,
                 Overcounts(path, offset, len, byte, now)
          PROVE  FALSE
      BY <3>1 DEF Overcounts, Write, Fail, Done, OK
    <3>2. ~Overcounted
      BY <3>1, Zenon DEF Overcounted
    <3> QED
      BY <2>1, <3>2, NextExact
  <2>2. CASE UNCHANGED vars
    BY <2>2 DEF vars, FreeExact, FreeBlocks
  <2> QED
    BY <2>1, <2>2
<1> QED
  BY <1>1, <1>2, CountersAlwaysTrue, PTL DEF Spec

-----------------------------------------------------------------------------
(***************************************************************************)
(* Where paths lead, in a sound image, before and after an object is       *)
(* linked, removed or renamed: to the same inodes as before, but for the   *)
(* path of the object and those below it.                                  *)
(***************************************************************************)

\* Directory i has an entry of this name, which leads to inode j.
Child(d, m, i, n, j) ==
    i \in DirsIn(d, m) /\ \E s \in Slot(d, i) : NameAt(d, i, s) = n /\ To(d, i, s) = j

\* Path q leads to inode j.
Reach(d, q, j) == Translate(d, q) = j /\ j >= 0

Walkable(d, m) == Sound(d, m) /\ NamesIn(d, m)

\* The children in e are those in d, and inode k, called a, in directory p; those without it and
\* what it holds, should it be a directory; those with another name, b, for it.
OneMore(d, m, e, u, p, a, k) ==
    \A i, n, j : Child(e, u, i, n, j) <=> Child(d, m, i, n, j) \/ (i = p /\ n = a /\ j = k)
OneLess(d, m, e, u, p, a, k) ==
    \A i, n, j : Child(e, u, i, n, j) <=> Child(d, m, i, n, j) /\ i # k /\ ~(i = p /\ n = a)
OneRenamed(d, m, e, u, p, a, b, k) ==
    \A i, n, j : Child(e, u, i, n, j) <=>
        (Child(d, m, i, n, j) /\ ~(i = p /\ n = a)) \/ (i = p /\ n = b /\ j = k)

-----------------------------------------------------------------------------
(* Sequences                                                               *)

\* Path s is q or above it.
Above(s, q) == Len(s) <= Len(q) /\ \A k \in 1 .. Len(s) : q[k] = s[k]

\* IsPrefix, component by component.
LEMMA PrefixAbove ==
    ASSUME NEW T, NEW s \in Seq(T), NEW q \in Seq(T)
    PROVE  IsPrefix(s, q) <=> Above(s, q)
<1>1. Len(s) \in Nat /\ Len(q) \in Nat
  OBVIOUS
<1>2. SubSeq(s, 1, Len(s)) = s
  OBVIOUS
<1>3. CASE Len(s) <= Len(q)
  <2>1. /\ SubSeq(q, 1, Len(s)) \in Seq(T) /\ Len(SubSeq(q, 1, Len(s))) = Len(s)
        /\ \A k \in 1 .. Len(s) : SubSeq(q, 1, Len(s))[k] = q[k]
    BY <1>1, <1>3
  <2>2. s = SubSeq(q, 1, Len(s)) <=> \A k \in 1 .. Len(s) : q[k] = s[k]
    BY <1>1, <2>1
  <2> QED
    BY <1>2, <1>3, <2>2 DEF IsPrefix, Above
<1>4. CASE ~(Len(s) <= Len(q))
  BY <1>4 DEF IsPrefix, Above
<1> QED
  BY <1>3, <1>4

\* What Append makes of a sequence.
LEMMA AppendFacts ==
    ASSUME NEW T, NEW q \in Seq(T), NEW n \in T
    PROVE  /\ Append(q, n) \in Seq(T) /\ Append(q, n) # <<>> /\ Len(Append(q, n)) = Len(q) + 1
           /\ Append(q, n)[Len(q) + 1] = n
           /\ \A k \in 1 .. Len(q) : Append(q, n)[k] = q[k]
<1>1. Append(q, n) \in Seq(T) /\ Len(Append(q, n)) = Len(q) + 1 /\ Len(q) \in Nat
  OBVIOUS
<1>2. Append(q, n) # <<>>
  BY <1>1
<1> QED
  BY <1>1, <1>2

\* Append is one to one.
LEMMA AppendSame ==
    ASSUME NEW T, NEW q \in Seq(T), NEW r \in Seq(T), NEW a \in T, NEW b \in T
    PROVE  Append(q, a) = Append(r, b) <=> q = r /\ a = b
<1> SUFFICES ASSUME Append(q, a) = Append(r, b) PROVE q = r /\ a = b
  OBVIOUS
<1>1. Len(q) = Len(r) /\ a = b
  BY AppendFacts
<1>2. \A k \in 1 .. Len(r) : q[k] = r[k]
  BY <1>1, AppendFacts
<1> QED
  BY <1>1, <1>2

\* A path is above a longer one by a component if it is above it or equal to it.
LEMMA AboveAppend ==
    ASSUME NEW T, NEW s \in Seq(T), NEW q \in Seq(T), NEW n \in T
    PROVE  Above(s, Append(q, n)) <=> Above(s, q) \/ s = Append(q, n)
<1>1. /\ Len(s) \in Nat /\ Len(q) \in Nat
      /\ Append(q, n) \in Seq(T) /\ Len(Append(q, n)) = Len(q) + 1
      /\ \A k \in 1 .. Len(q) : Append(q, n)[k] = q[k]
  OBVIOUS
<1>2. CASE Len(s) <= Len(q)
  BY <1>1, <1>2 DEF Above
<1>3. CASE Len(s) = Len(q) + 1
  BY <1>1, <1>3 DEF Above
<1>4. CASE Len(s) > Len(q) + 1
  BY <1>1, <1>4 DEF Above
<1> QED
  BY <1>1, <1>2, <1>3, <1>4

\* What holds of the empty path, and of each path that holds one component more, holds of all.
LEMMA PathInduction ==
    ASSUME NEW T, NEW G, <<>> \in G,
           \A q \in Seq(T) : \A n \in T : q \in G => Append(q, n) \in G
    PROVE  \A q \in Seq(T) : q \in G
<1> DEFINE S == {k \in Nat : \A q \in Seq(T) : Len(q) = k => q \in G}
<1>1. 0 \in S
  BY \A q \in Seq(T) : Len(q) = 0 => q = <<>>
<1>2. ASSUME NEW k \in Nat, k \in S PROVE k + 1 \in S
  <2> SUFFICES ASSUME NEW q \in Seq(T), Len(q) = k + 1 PROVE q \in G
    OBVIOUS
  <2>1. q # <<>>
    OBVIOUS
  <2>2. Front(q) \in Seq(T) /\ Last(q) \in T /\ Len(Front(q)) = k /\ q = Append(Front(q), Last(q))
    BY <2>1, FrontLast
  <2>3. Front(q) \in G
    BY <1>2, <2>2
  <2> QED
    BY <2>2, <2>3
<1> HIDE DEF S
<1>3. \A k \in Nat : k \in S
  BY <1>1, <1>2, InductionOnSet
<1> QED
  BY <1>3 DEF S

-----------------------------------------------------------------------------
(* One step along a path                                                   *)

\* A step of translate() that is no error goes to a child, the only one of that name.
LEMMA StepChild ==
    ASSUME NEW d, NEW m, Walkable(d, m), NEW i \in LiveIn(d, m) \cup {ENOENT, ENOTDIR}, NEW n, NEW j
    PROVE  Child(d, m, i, n, j) <=> Step(d, i, n) = j /\ j >= 0
<1>1. CASE i \notin LiveIn(d, m)
  <2>1. i < 0
    BY <1>1 DEF ENOENT, ENOTDIR
  <2>2. Step(d, i, n) = i
    BY <2>1 DEF Step
  <2>3. ~Child(d, m, i, n, j)
    BY <1>1 DEF Child, DirsIn
  <2>4. ~(i >= 0)
    BY <2>1, <1>1 DEF ENOENT, ENOTDIR
  <2> QED
    BY <2>2, <2>3, <2>4
<1>2. CASE i \in LiveIn(d, m) /\ d[i].type # "dir"
  <2>1. ~(i < 0)
    BY <1>2, LiveInode, LayoutAssumption DEF Walkable, Blocks
  <2>2. ~IsDir(d, i)
    BY <1>2 DEF IsDir
  <2>3. Step(d, i, n) = ENOTDIR
    BY <2>1, <2>2 DEF Step
  <2>4. ~Child(d, m, i, n, j)
    BY <1>2 DEF Child, DirsIn
  <2> QED
    BY <2>3, <2>4 DEF ENOTDIR
<1>3. CASE i \in DirsIn(d, m)
  <2>1. i >= 0 /\ IsDir(d, i) /\ ~(i < 0)
    BY <1>3, LiveInode, LayoutAssumption DEF Walkable, Blocks, DirsIn, IsDir, IsInode
  <2>2. \A s : s \in Matches(d, i, n) <=> s \in Slot(d, i) /\ NameAt(d, i, s) = n
    BY DEF Matches, UsedSlots, FreeSlots, Slot, NameAt
  <2>3. CASE Matches(d, i, n) = {}
    <3>1. Step(d, i, n) = ENOENT
      BY <2>1, <2>3 DEF Step
    <3> QED
      BY <2>2, <2>3, <3>1 DEF Child, ENOENT
  <2>4. CASE Matches(d, i, n) # {}
    <3> DEFINE s == Min(Matches(d, i, n))
    <3>1. s \in Matches(d, i, n)
      BY <2>4, SlotProperty
    <3>2. Step(d, i, n) = To(d, i, s)
      BY <2>1, <2>4 DEF Step, To
    <3> HIDE DEF s
    <3>3. s \in Slot(d, i) /\ NameAt(d, i, s) = n
      BY <2>2, <3>1
    <3>4. \A t \in Slot(d, i) : NameAt(d, i, t) = n => t = s
      BY <1>3, <3>3 DEF Walkable, NamesIn
    <3>5. To(d, i, s) \in LiveIn(d, m)
      BY <1>3, <3>3 DEF Walkable, Sound, EntriesLive
    <3>6. To(d, i, s) >= 0
      BY <3>5, LiveInode, LayoutAssumption DEF Walkable, Blocks
    <3> QED
      BY <1>3, <3>2, <3>3, <3>4, <3>6 DEF Child
  <2> QED
    BY <2>3, <2>4
<1> QED
  BY <1>1, <1>2, <1>3 DEF DirsIn

\* The empty path leads to the root.
LEMMA ReachRoot == \A d, j : Reach(d, <<>>, j) <=> j = RootInode
  BY TranslateRoot DEF Reach, RootInode

\* A longer path leads to a child of where it leads without its last component.
LEMMA ReachAppend ==
    ASSUME NEW d, NEW m, Walkable(d, m), NEW q \in Seq(Names), NEW n \in Names, NEW j
    PROVE  Reach(d, Append(q, n), j) <=> \E i : Reach(d, q, i) /\ Child(d, m, i, n, j)
<1> DEFINE r == Append(q, n)
<1>1. r \in Seq(Names) /\ r # <<>> /\ Front(r) = q /\ Last(r) = n
  <2>1. r \in Seq(Names) /\ r # <<>> /\ Len(r) = Len(q) + 1 /\ \A k \in 1 .. Len(q) : r[k] = q[k]
    BY AppendFacts
  <2>2. Last(r) = n
    BY <2>1, AppendFacts DEF Last
  <2>3. Front(r) \in Seq(Names) /\ Len(Front(r)) = Len(r) - 1
        /\ \A k \in 1 .. Len(r) - 1 : Front(r)[k] = r[k]
    BY <2>1, FrontLast
  <2> HIDE DEF r
  <2>4. Front(r) = q
    BY <2>1, <2>3
  <2> QED
    BY <2>1, <2>2, <2>4
<1>2. Translate(d, r) = Step(d, Translate(d, q), n)
  BY <1>1, TranslateLast
<1> HIDE DEF r
<1>3. /\ Translate(d, q) \in LiveIn(d, m) \cup {ENOENT, ENOTDIR}
      /\ Translate(d, q) >= 0 <=> Translate(d, q) \in LiveIn(d, m)
  BY ResolveLive DEF Walkable
<1>4. Child(d, m, Translate(d, q), n, j) <=> Translate(d, r) = j /\ j >= 0
  BY <1>2, <1>3, StepChild
<1>5. Child(d, m, Translate(d, q), n, j) => Translate(d, q) >= 0
  BY <1>3 DEF Child, DirsIn
<1> QED
  BY <1>4, <1>5 DEF Reach, r

\* What a path leads to is in use, and no other path leads to it.
LEMMA ReachOnce ==
    ASSUME NEW d, NEW m, Walkable(d, m), NEW q \in Seq(Names), NEW j, Reach(d, q, j)
    PROVE  j \in LiveIn(d, m) /\ \A r \in Seq(Names) : Reach(d, r, j) => r = q
<1>1. j \in LiveIn(d, m)
  BY ResolveLive DEF Reach, Walkable
<1>2. ASSUME NEW r \in Seq(Names), Reach(d, r, j) PROVE r = q
  <2>1. Translate(d, q) >= 0 /\ Translate(d, r) = Translate(d, q)
    BY <1>2 DEF Reach
  <2> QED
    BY <2>1, PathsDiffer DEF Walkable
<1> QED
  BY <1>1, <1>2

\* Two paths that lead to one inode are the same, and one path leads to one inode.
LEMMA ReachUnique ==
    ASSUME NEW d, NEW m, Walkable(d, m), NEW q \in Seq(Names), NEW p, Reach(d, q, p),
           NEW r \in Seq(Names), NEW i
    PROVE  /\ Reach(d, r, p) <=> r = q
           /\ Reach(d, q, i) <=> i = p
  BY ReachOnce DEF Reach

-----------------------------------------------------------------------------
(* Where paths lead after a change of the entries                          *)

\* The same entries lead to the same inodes.
LEMMA SameReach ==
    ASSUME NEW d, NEW m, Walkable(d, m), NEW e, NEW u, Walkable(e, u),
           \A i, n, j : Child(e, u, i, n, j) <=> Child(d, m, i, n, j)
    PROVE  \A q \in Seq(Names) : \A j : Reach(e, q, j) <=> Reach(d, q, j)
<1> DEFINE G == {q \in Seq(Names) : \A j : Reach(e, q, j) <=> Reach(d, q, j)}
<1>1. <<>> \in G
  BY ReachRoot
<1>2. ASSUME NEW r \in Seq(Names), NEW n \in Names, r \in G
      PROVE  Append(r, n) \in G
  <2> SUFFICES ASSUME NEW j PROVE Reach(e, Append(r, n), j) <=> Reach(d, Append(r, n), j)
    OBVIOUS
  <2>1. Reach(e, Append(r, n), j) <=> \E i : Reach(e, r, i) /\ Child(e, u, i, n, j)
    BY ReachAppend
  <2>2. Reach(d, Append(r, n), j) <=> \E i : Reach(d, r, i) /\ Child(d, m, i, n, j)
    BY ReachAppend
  <2> QED
    BY <1>2, <2>1, <2>2
<1> HIDE DEF G
<1>3. \A q \in Seq(Names) : q \in G
  BY <1>1, <1>2, PathInduction
<1> QED
  BY <1>3 DEF G

\* A new entry makes one new path.
LEMMA LinkReach ==
    ASSUME NEW d, NEW m, Walkable(d, m), NEW e, NEW u, Walkable(e, u),
           NEW P \in Seq(Names), NEW p, Reach(d, P, p), NEW a \in Names, NEW k, k \notin LiveIn(d, m),
           OneMore(d, m, e, u, p, a, k)
    PROVE  \A q \in Seq(Names) : \A j :
              Reach(e, q, j) <=> Reach(d, q, j) \/ (q = Append(P, a) /\ j = k)
<1> USE DEF OneMore
<1> DEFINE S == Append(P, a)
           G == {q \in Seq(Names) : \A j : Reach(e, q, j) <=> Reach(d, q, j) \/ (q = S /\ j = k)}
<1>1. S # <<>> /\ p \in LiveIn(d, m)
  BY AppendFacts, ReachOnce
<1>2. \A r \in Seq(Names), n \in Names : Append(r, n) = S <=> r = P /\ n = a
  BY AppendSame
<1> HIDE DEF S
<1>3. <<>> \in G
  BY <1>1, ReachRoot
<1>4. ASSUME NEW r \in Seq(Names), NEW n \in Names, r \in G
      PROVE  Append(r, n) \in G
  <2> SUFFICES ASSUME NEW j
               PROVE  Reach(e, Append(r, n), j) <=> Reach(d, Append(r, n), j) \/ (Append(r, n) = S /\ j = k)
    BY AppendFacts
  <2>1. Reach(e, Append(r, n), j) <=> \E i : Reach(e, r, i) /\ Child(e, u, i, n, j)
    BY ReachAppend
  <2>2. Reach(d, Append(r, n), j) <=> \E i : Reach(d, r, i) /\ Child(d, m, i, n, j)
    BY ReachAppend
  <2>3. \A i : Reach(e, r, i) <=> Reach(d, r, i) \/ (r = S /\ i = k)
    BY <1>4
  <2>4. Reach(d, r, p) <=> r = P
    BY ReachUnique
  <2>5. ~Child(d, m, k, n, j) /\ k # p
    BY <1>1 DEF Child, DirsIn
  <2>6. (\E i : Reach(e, r, i) /\ Child(e, u, i, n, j)) <=>
        (\E i : Reach(d, r, i) /\ Child(d, m, i, n, j)) \/ (r = P /\ n = a /\ j = k)
    BY <2>3, <2>4, <2>5
  <2>7. Append(r, n) = S <=> r = P /\ n = a
    BY <1>2
  <2> QED
    BY <2>1, <2>2, <2>6, <2>7
<1> HIDE DEF G
<1>5. \A q \in Seq(Names) : q \in G
  BY <1>3, <1>4, PathInduction
<1> QED
  BY <1>5 DEF G, S

\* Without an entry, its path and those below it lead nowhere.
LEMMA RemoveReach ==
    ASSUME NEW d, NEW m, Walkable(d, m), NEW e, NEW u, Walkable(e, u),
           NEW P \in Seq(Names), NEW p, Reach(d, P, p), NEW a \in Names, NEW k, Child(d, m, p, a, k),
           OneLess(d, m, e, u, p, a, k)
    PROVE  \A q \in Seq(Names) : \A j :
              Reach(e, q, j) <=> Reach(d, q, j) /\ ~Above(Append(P, a), q)
<1> USE DEF OneLess
<1> DEFINE S == Append(P, a)
           G == {q \in Seq(Names) : \A j : Reach(e, q, j) <=> Reach(d, q, j) /\ ~Above(S, q)}
<1>1. S \in Seq(Names) /\ S # <<>> /\ Len(S) = Len(P) + 1 /\ Reach(d, S, k)
  BY AppendFacts, ReachAppend
<1>2. \A r \in Seq(Names), n \in Names : Append(r, n) = S <=> r = P /\ n = a
  BY AppendSame
<1>3. ~Above(S, <<>>)
  BY <1>1 DEF Above
<1>4. Above(S, S)
  BY <1>1 DEF Above
<1> HIDE DEF S
<1>5. <<>> \in G
  BY <1>3, ReachRoot
<1>6. ASSUME NEW r \in Seq(Names), NEW n \in Names, r \in G
      PROVE  Append(r, n) \in G
  <2> SUFFICES ASSUME NEW j
               PROVE  Reach(e, Append(r, n), j) <=> Reach(d, Append(r, n), j) /\ ~Above(S, Append(r, n))
    BY AppendFacts
  <2>1. Reach(e, Append(r, n), j) <=> \E i : Reach(e, r, i) /\ Child(e, u, i, n, j)
    BY ReachAppend
  <2>2. Reach(d, Append(r, n), j) <=> \E i : Reach(d, r, i) /\ Child(d, m, i, n, j)
    BY ReachAppend
  <2>3. \A i : Reach(e, r, i) <=> Reach(d, r, i) /\ ~Above(S, r)
    BY <1>6
  <2>4. Reach(d, r, p) <=> r = P
    BY ReachUnique
  <2>5. Reach(d, r, k) <=> r = S
    BY <1>1, ReachUnique
  <2>6. Above(S, Append(r, n)) <=> Above(S, r) \/ S = Append(r, n)
    BY <1>1, AboveAppend
  <2>7. S = Append(r, n) <=> r = P /\ n = a
    BY <1>2
  <2>8. \A i : Reach(d, r, i) /\ ~Above(S, r) => (i # k /\ ~(i = p /\ n = a) <=> ~(r = P /\ n = a))
    BY <1>4, <2>4, <2>5, ReachUnique
  <2> QED
    BY <2>1, <2>2, <2>3, <2>6, <2>7, <2>8
<1> HIDE DEF G
<1>7. \A q \in Seq(Names) : q \in G
  BY <1>5, <1>6, PathInduction
<1> QED
  BY <1>7 DEF G, S

\* A path with another name in one place.
LEMMA OtherName ==
    ASSUME NEW T, NEW q \in Seq(T), NEW l \in 1 .. Len(q), NEW a \in T
    PROVE  /\ [q EXCEPT ![l] = a] \in Seq(T) /\ Len([q EXCEPT ![l] = a]) = Len(q)
           /\ \A n \in T : [Append(q, n) EXCEPT ![l] = a] = Append([q EXCEPT ![l] = a], n)
<1> DEFINE r == [q EXCEPT ![l] = a]
<1>1. r \in Seq(T) /\ Len(r) = Len(q) /\ Len(q) \in Nat /\ l \in Nat
      /\ \A k \in 1 .. Len(q) : r[k] = IF k = l THEN a ELSE q[k]
  OBVIOUS
<1>2. ASSUME NEW n \in T PROVE [Append(q, n) EXCEPT ![l] = a] = Append(r, n)
  <2> DEFINE v == Append(q, n)
             w == [v EXCEPT ![l] = a]
  <2>1. /\ v \in Seq(T) /\ Len(v) = Len(q) + 1 /\ v[Len(q) + 1] = n
        /\ \A k \in 1 .. Len(q) : v[k] = q[k]
    BY AppendFacts
  <2>2. /\ Append(r, n) \in Seq(T) /\ Len(Append(r, n)) = Len(q) + 1 /\ Append(r, n)[Len(q) + 1] = n
        /\ \A k \in 1 .. Len(q) : Append(r, n)[k] = r[k]
    BY <1>1, AppendFacts
  <2> HIDE DEF v
  <2>3. w \in Seq(T) /\ Len(w) = Len(v) /\ \A k \in 1 .. Len(v) : w[k] = IF k = l THEN a ELSE v[k]
    BY <1>1, <2>1
  <2> HIDE DEF w, r
  <2>4. \A k \in 1 .. Len(q) + 1 : w[k] = Append(r, n)[k]
    BY <1>1, <2>1, <2>2, <2>3, SMTT(60)
  <2>5. w = Append(r, n)
    BY <2>1, <2>2, <2>3, <2>4
  <2> QED
    BY <2>5 DEF w, v
<1> QED
  BY <1>1, <1>2

\* Paths lead in e where they lead in d, but for S, now called T: component l of its name was a.
PathsMoved(d, e, S, T, l, a) ==
    \A q \in Seq(Names) : \A j :
        Reach(e, q, j) <=>
           (Reach(d, q, j) /\ ~Above(S, q)) \/ (Above(T, q) /\ Reach(d, [q EXCEPT ![l] = a], j))

(***************************************************************************)
(* With another name on an entry, its old path and those below it lead     *)
(* nowhere, and those of the new name lead where those of the old one led. *)
(***************************************************************************)
LEMMA RenameReach ==
    ASSUME NEW d, NEW m, Walkable(d, m), NEW e, NEW u, Walkable(e, u),
           NEW P \in Seq(Names), NEW p, Reach(d, P, p), NEW a \in Names, NEW b \in Names, a # b,
           NEW k, Child(d, m, p, a, k), \A j : ~Child(d, m, p, b, j),
           OneRenamed(d, m, e, u, p, a, b, k)
    PROVE  PathsMoved(d, e, Append(P, a), Append(P, b), Len(P) + 1, a)
<1> USE DEF OneRenamed
<1> DEFINE S == Append(P, a)
           T == Append(P, b)
           L == Len(P) + 1
           B(q) == [q EXCEPT ![L] = a]
           Found(q, j) == \/ Reach(d, q, j) /\ ~Above(S, q)
                          \/ Above(T, q) /\ Reach(d, B(q), j)
           G == {q \in Seq(Names) : \A j : Reach(e, q, j) <=> Found(q, j)}
<1>1. /\ S \in Seq(Names) /\ Len(S) = L /\ S[L] = a /\ L \in Nat \ {0} /\ Len(P) = L - 1
      /\ T \in Seq(Names) /\ Len(T) = L /\ T[L] = b
      /\ \A l \in 1 .. Len(P) : S[l] = P[l] /\ T[l] = P[l]
  BY AppendFacts
<1>2. \A r \in Seq(Names), n \in Names : (Append(r, n) = S <=> r = P /\ n = a) /\ (Append(r, n) = T <=> r = P /\ n = b)
  BY AppendSame
<1> HIDE DEF S, T, L
<1>3. ~Above(S, <<>>) /\ ~Above(T, <<>>)
  BY <1>1 DEF Above
<1>4. \A q \in Seq(Names) : Above(T, q) => L \in 1 .. Len(q) /\ ~Above(S, q)
  BY <1>1 DEF Above
<1>5. B(T) = S
  <2>1. B(T) \in Seq(Names) /\ Len(B(T)) = L /\ \A l \in 1 .. L : B(T)[l] = IF l = L THEN a ELSE T[l]
    BY <1>1
  <2> HIDE DEF B
  <2>2. \A l \in 1 .. L : B(T)[l] = S[l]
    BY <1>1, <2>1
  <2> QED
    BY <1>1, <2>1, <2>2
<1>6. \A q \in Seq(Names) : L \in 1 .. Len(q) =>
         /\ B(q) \in Seq(Names) /\ Len(B(q)) = Len(q)
         /\ \A n \in Names : B(Append(q, n)) = Append(B(q), n)
  BY OtherName
<1> HIDE DEF B
<1>7. <<>> \in G
  BY <1>3, ReachRoot
<1>8. ASSUME NEW r \in Seq(Names), NEW n \in Names, r \in G
      PROVE  Append(r, n) \in G
  <2> SUFFICES ASSUME NEW j
               PROVE  Reach(e, Append(r, n), j) <=> Found(Append(r, n), j)
    BY AppendFacts
  <2>1. Reach(e, Append(r, n), j) <=> \E i : Reach(e, r, i) /\ Child(e, u, i, n, j)
    BY ReachAppend
  <2>2. Reach(d, Append(r, n), j) <=> \E i : Reach(d, r, i) /\ Child(d, m, i, n, j)
    BY ReachAppend
  <2>3. \A i : Reach(e, r, i) <=> Found(r, i)
    BY <1>8
  <2>4. Reach(d, r, p) <=> r = P
    BY ReachUnique
  <2>5. /\ Above(S, Append(r, n)) <=> Above(S, r) \/ (r = P /\ n = a)
        /\ Above(T, Append(r, n)) <=> Above(T, r) \/ (r = P /\ n = b)
    BY <1>1, <1>2, AboveAppend
  <2>6. CASE Above(T, r)
    <3>1. /\ L \in 1 .. Len(r) /\ ~Above(S, r) /\ r # P
          /\ B(r) \in Seq(Names) /\ Len(B(r)) = Len(r) /\ B(Append(r, n)) = Append(B(r), n)
      BY <1>1, <1>4, <1>6, <2>6
    <3>2. Reach(d, Append(B(r), n), j) <=> \E i : Reach(d, B(r), i) /\ Child(d, m, i, n, j)
      BY <3>1, ReachAppend
    <3>3. ~Reach(d, B(r), p)
      <4>1. B(r) # P
        BY <1>1, <3>1
      <4> QED
        BY <3>1, <4>1, ReachUnique
    <3>4. \A i : Reach(e, r, i) <=> Reach(d, r, i) \/ Reach(d, B(r), i)
      BY <2>3, <2>6, <3>1
    <3>5. (\E i : Reach(e, r, i) /\ Child(e, u, i, n, j)) <=>
             \/ \E i : Reach(d, r, i) /\ Child(d, m, i, n, j)
             \/ \E i : Reach(d, B(r), i) /\ Child(d, m, i, n, j)
      BY <2>4, <3>1, <3>3, <3>4
    <3> QED
      BY <2>1, <2>2, <2>5, <2>6, <3>1, <3>2, <3>5
  <2>7. CASE ~Above(T, r)
    <3>1. \A i : Reach(e, r, i) <=> Reach(d, r, i) /\ ~Above(S, r)
      BY <2>3, <2>7
    <3>2. CASE r = P /\ n = b
      <4>1. Append(r, n) = T /\ ~Above(S, r) /\ ~(r = P /\ n = a)
        BY <1>1, <1>2, <3>2 DEF Above
      <4>2. Reach(d, S, j) <=> j = k
        <5>1. Reach(d, S, k)
          BY ReachAppend DEF S
        <5> QED
          BY <1>1, <5>1, ReachUnique
      <4>3. Reach(e, T, j) <=> j = k
        <5>1. \A i : Reach(d, r, i) <=> i = p
          BY <3>2, ReachUnique
        <5> QED
          BY <2>1, <3>1, <3>2, <4>1, <5>1
      <4>4. ~Reach(d, T, j)
        <5>1. \A i : Reach(d, r, i) <=> i = p
          BY <3>2, ReachUnique
        <5> QED
          BY <2>2, <3>2, <4>1, <5>1
      <4>5. Above(T, T)
        BY <1>1 DEF Above
      <4> QED
        BY <1>5, <4>1, <4>2, <4>3, <4>4, <4>5
    <3>3. CASE ~(r = P /\ n = b)
      <4>1. Found(Append(r, n), j) <=> Reach(d, Append(r, n), j) /\ ~Above(S, r) /\ ~(r = P /\ n = a)
        BY <2>5, <2>7, <3>3
      <4>2. \A i : Reach(d, r, i) => (Child(e, u, i, n, j) <=> Child(d, m, i, n, j) /\ ~(r = P /\ n = a))
        BY <2>4, <3>3, ReachUnique
      <4> QED
        BY <2>1, <2>2, <3>1, <4>1, <4>2
    <3> QED
      BY <3>2, <3>3
  <2> QED
    BY <2>6, <2>7
<1> HIDE DEF G
<1>9. \A q \in Seq(Names) : q \in G
  BY <1>7, <1>8, PathInduction
<1> QED
  BY <1>9 DEF PathsMoved, G, S, T, L, B

-----------------------------------------------------------------------------
(* What each change does to the entries                                    *)

\* A new object: one entry more, and none below it.
LEMMA LinkChild ==
    ASSUME NEW d, NEW m, Sound(d, m), NEW e, NEW p, NEW s, NEW ent, NEW N,
           Linking(d, m, e, p, s, ent, N)
    PROVE  OneMore(d, m, e, m \cup N, p, ent.name, ent.inode)
<1>1. /\ p \in DirsIn(d, m) /\ s \in Slots \ Slot(d, p) /\ ent \in Entry
      /\ OnlyEntry(d, m, e, p, s, ent)
  BY DEF Linking
<1>2. ent # NoEntry
  BY <1>1, LayoutAssumption
<1>3. \A i : i \in DirsIn(e, m \cup N) <=>
         i \in DirsIn(d, m) \/ (i = ent.inode /\ e[ent.inode].type = "dir")
  BY LinkDirs
<1>4. e[ent.inode].type = "dir" => Slot(e, ent.inode) = {}
  BY LinkEmpty
<1>5. ent.inode \notin DirsIn(d, m)
  BY LinkNew DEF DirsIn
<1>6. ASSUME NEW i \in DirsIn(d, m), i # p, NEW t
      PROVE  /\ t \in Slot(e, i) <=> t \in Slot(d, i)
             /\ NameAt(e, i, t) = NameAt(d, i, t) /\ To(e, i, t) = To(d, i, t)
  BY <1>1, <1>6 DEF OnlyEntry, Slot, NameAt, To
<1>7. ASSUME NEW t, t # s
      PROVE  /\ t \in Slot(e, p) <=> t \in Slot(d, p)
             /\ t \in Slots => NameAt(e, p, t) = NameAt(d, p, t) /\ To(e, p, t) = To(d, p, t)
  BY <1>1, <1>7 DEF OnlyEntry, Slot, NameAt, To
<1>8. /\ s \in Slot(e, p) /\ s \notin Slot(d, p)
      /\ NameAt(e, p, s) = ent.name /\ To(e, p, s) = ent.inode
  BY <1>1, <1>2 DEF OnlyEntry, Slot, NameAt, To
<1>9. ASSUME NEW i, NEW n, NEW j
      PROVE  Child(e, m \cup N, i, n, j) <=>
                Child(d, m, i, n, j) \/ (i = p /\ n = ent.name /\ j = ent.inode)
  <2>1. CASE i \in DirsIn(d, m) /\ i # p
    BY <1>3, <1>6, <2>1 DEF Child
  <2>2. CASE i = p
    <3>1. Child(d, m, p, n, j) <=> \E t \in Slot(d, p) : NameAt(d, p, t) = n /\ To(d, p, t) = j
      BY <1>1 DEF Child
    <3>2. Child(e, m \cup N, p, n, j) <=> \E t \in Slot(e, p) : NameAt(e, p, t) = n /\ To(e, p, t) = j
      BY <1>1, <1>3 DEF Child
    <3>3. \A t : t \in Slot(d, p) => t \in Slots
      BY DEF Slot
    <3> QED
      BY <1>7, <1>8, <2>2, <3>1, <3>2, <3>3
  <2>3. CASE i \notin DirsIn(d, m)
    BY <1>1, <1>3, <1>4, <2>3 DEF Child
  <2> QED
    BY <2>1, <2>2, <2>3
<1> QED
  BY <1>9 DEF OneMore

\* A removed one: its entry is missing, and all that were in it.
LEMMA UnlinkChild ==
    ASSUME NEW d, NEW m, Walkable(d, m), NEW e, NEW p, NEW s, Unlinking(d, m, e, p, s)
    PROVE  OneLess(d, m, e, m \ Freed(d, To(d, p, s)), p, NameAt(d, p, s), To(d, p, s))
<1> DEFINE k == To(d, p, s)
           u == m \ Freed(d, k)
<1>1. /\ OnlyEntry(d, m, e, p, s, NoEntry)
      /\ \A j : j \in DirsIn(e, u) <=> j \in DirsIn(d, m) /\ j # k
  BY RemoveSound DEF Walkable
<1>2. p \in DirsIn(d, m) /\ s \in Slot(d, p)
  BY DEF Unlinking
<1> HIDE DEF u, k
<1>3. ASSUME NEW i \in DirsIn(d, m), i # p, NEW t
      PROVE  /\ t \in Slot(e, i) <=> t \in Slot(d, i)
             /\ NameAt(e, i, t) = NameAt(d, i, t) /\ To(e, i, t) = To(d, i, t)
  BY <1>1, <1>3 DEF OnlyEntry, Slot, NameAt, To
<1>4. ASSUME NEW t
      PROVE  /\ t \in Slot(e, p) <=> t \in Slot(d, p) /\ t # s
             /\ t \in Slot(e, p) => NameAt(e, p, t) = NameAt(d, p, t) /\ To(e, p, t) = To(d, p, t)
  BY <1>1 DEF OnlyEntry, Slot, NameAt, To
<1>5. \A t \in Slot(d, p) : NameAt(d, p, t) = NameAt(d, p, s) => t = s
  BY <1>2 DEF Walkable, NamesIn
<1>6. ASSUME NEW i, NEW n, NEW j
      PROVE  Child(e, u, i, n, j) <=>
                Child(d, m, i, n, j) /\ i # k /\ ~(i = p /\ n = NameAt(d, p, s))
  <2>1. CASE i \notin DirsIn(d, m) \/ i = k
    BY <1>1, <2>1 DEF Child
  <2>2. CASE i \in DirsIn(d, m) /\ i # k /\ i # p
    BY <1>1, <1>3, <2>2 DEF Child
  <2>3. CASE i \in DirsIn(d, m) /\ i # k /\ i = p
    <3>1. Child(e, u, p, n, j) <=> \E t \in Slot(e, p) : NameAt(e, p, t) = n /\ To(e, p, t) = j
      BY <1>1, <2>3 DEF Child
    <3>2. Child(d, m, p, n, j) <=> \E t \in Slot(d, p) : NameAt(d, p, t) = n /\ To(d, p, t) = j
      BY <1>2 DEF Child
    <3> QED
      BY <1>4, <1>5, <2>3, <3>1, <3>2
  <2> QED
    BY <2>1, <2>2, <2>3
<1> QED
  BY <1>6 DEF OneLess, u, k

\* A renamed one: the same inode under another name.
LEMMA RenameChild ==
    ASSUME NEW d, NEW m, Walkable(d, m), NEW e, NEW p, NEW s, NEW ent, Renaming(d, m, e, p, s, ent)
    PROVE  OneRenamed(d, m, e, m, p, NameAt(d, p, s), ent.name, To(d, p, s))
<1>1. /\ p \in DirsIn(d, m) /\ s \in Slot(d, p) /\ s \in Slots /\ ent.inode = To(d, p, s)
      /\ ent \in Entry
  BY DEF Renaming, Slot
<1>2. OnlyEntry(d, m, e, p, s, ent) /\ Slot(e, p) = Slot(d, p)
  BY <1>1, RenamingSound DEF Walkable
<1>3. \A i : i \in DirsIn(e, m) <=> i \in DirsIn(d, m)
  BY <1>2 DEF OnlyEntry, DirsIn, LiveIn, IsInode
<1>4. ASSUME NEW i \in DirsIn(d, m), i # p, NEW t
      PROVE  /\ t \in Slot(e, i) <=> t \in Slot(d, i)
             /\ NameAt(e, i, t) = NameAt(d, i, t) /\ To(e, i, t) = To(d, i, t)
  BY <1>2, <1>4 DEF OnlyEntry, Slot, NameAt, To
<1>5. ASSUME NEW t \in Slot(d, p), t # s
      PROVE  NameAt(e, p, t) = NameAt(d, p, t) /\ To(e, p, t) = To(d, p, t)
  BY <1>2, <1>5 DEF OnlyEntry, Slot, NameAt, To
<1>6. NameAt(e, p, s) = ent.name /\ To(e, p, s) = ent.inode
  BY <1>2 DEF OnlyEntry, NameAt, To
<1>7. \A t \in Slot(d, p) : NameAt(d, p, t) = NameAt(d, p, s) => t = s
  BY <1>1 DEF Walkable, NamesIn
<1>8. ASSUME NEW i, NEW n, NEW j
      PROVE  Child(e, m, i, n, j) <=>
                \/ Child(d, m, i, n, j) /\ ~(i = p /\ n = NameAt(d, p, s))
                \/ i = p /\ n = ent.name /\ j = To(d, p, s)
  <2>1. CASE i \notin DirsIn(d, m)
    BY <1>1, <1>3, <2>1 DEF Child
  <2>2. CASE i \in DirsIn(d, m) /\ i # p
    BY <1>3, <1>4, <2>2 DEF Child
  <2>3. CASE i = p
    <3>1. Child(e, m, p, n, j) <=> \E t \in Slot(d, p) : NameAt(e, p, t) = n /\ To(e, p, t) = j
      BY <1>1, <1>2, <1>3 DEF Child
    <3>2. Child(d, m, p, n, j) <=> \E t \in Slot(d, p) : NameAt(d, p, t) = n /\ To(d, p, t) = j
      BY <1>1 DEF Child
    <3> QED
      BY <1>1, <1>5, <1>6, <1>7, <2>3, <3>1, <3>2
  <2> QED
    BY <2>1, <2>2, <2>3
<1> QED
  BY <1>8 DEF OneRenamed

\* Directories that stay as they are.
LEMMA SameChild ==
    ASSUME NEW d, NEW m, NEW e, NEW u, DirsIn(e, u) = DirsIn(d, m),
           \A i \in DirsIn(d, m) : Entries(e, i) = Entries(d, i)
    PROVE  \A i, n, j : Child(e, u, i, n, j) <=> Child(d, m, i, n, j)
  BY DEF Child, Slot, NameAt, To

-----------------------------------------------------------------------------
(* What is at the end of a path                                            *)

\* The object of inode i: the node of the tree that FileSystemTree makes of it.
NodeIn(d, i) ==
    [type  |-> d[i].type,
     perm  |-> d[i].perm,
     mtime |-> d[i].mtime,
     data  |-> IF IsFile(d, i)
               THEN [n \in 1 .. d[i].size |->
                        RawBytes(d[d[i].ptrs[(n - 1) \div BlockSize]])[(n - 1) % BlockSize]]
               ELSE <<>>]

\* The block and the place of a byte of a file.
LEMMA ByteIn ==
    ASSUME NEW size \in Nat, NEW x \in Nat, x < size
    PROVE  /\ x \div BlockSize \in 0 .. BlocksFor(size) - 1 /\ x \div BlockSize \in Nat
           /\ x % BlockSize \in Offs
<1> DEFINE k == x \div BlockSize
           last == (size - 1) \div BlockSize
<1>1. BlockSize \in Nat \ {0} /\ size \in Nat \ {0} /\ size - 1 \in Int
  BY LayoutAssumption
<1>2. BlocksFor(size) = last + 1
  BY <1>1, LastBlock
<1>3. k \in Int /\ last \in Int /\ k <= last
  <2> DEFINE y == size - 1
  <2>1. y \in Int /\ x <= y /\ x \in Int
    BY <1>1
  <2> HIDE DEF y
  <2>2. x \div BlockSize \in Int /\ y \div BlockSize \in Int
    BY <1>1, <2>1, Division, Zenon
  <2>3. x \div BlockSize <= y \div BlockSize
    BY <1>1, <2>1, DivMonotone, Zenon
  <2>4. last = y \div BlockSize
    BY DEF y
  <2> QED
    BY <2>2, <2>3, <2>4
<1>4. 0 <= k
  <2>1. 0 \div BlockSize = 0
    BY <1>1, QuotientUnique
  <2>2. 0 \div BlockSize <= x \div BlockSize
    BY <1>1, DivMonotone
  <2> QED
    BY <2>1, <2>2
<1>5. x % BlockSize \in Offs
  BY <1>1, Division DEF Offs
<1> HIDE DEF k, last
<1>6. k \in 0 .. BlocksFor(size) - 1 /\ k \in Nat
  BY <1>2, <1>3, <1>4
<1> QED
  BY <1>5, <1>6 DEF k

\* An object is the same in two images with the same inode and, for a file, the same blocks:
LEMMA NodeLike ==
    ASSUME NEW d, NEW j, d[j].size \in Nat, NEW e, e[j] = d[j],
           d[j].type = "file" => \A k \in DataIdx(d[j]) : e[d[j].ptrs[k]] = d[d[j].ptrs[k]]
    PROVE  NodeIn(e, j) = NodeIn(d, j)
<1>1. (IsFile(d, j) <=> IsFile(e, j)) /\ (IsFile(d, j) => d[j].type = "file")
  BY DEF IsFile, IsInode
<1>2. CASE ~IsFile(d, j)
  BY <1>1, <1>2 DEF NodeIn
<1>3. CASE IsFile(d, j)
  <2>1. \A n \in 1 .. d[j].size : (n - 1) \div BlockSize \in DataIdx(d[j])
    <3> TAKE n \in 1 .. d[j].size
    <3>1. n - 1 \in Nat /\ n - 1 < d[j].size
      OBVIOUS
    <3> QED
      BY <3>1, ByteIn DEF DataIdx
  <2>2. \A n \in 1 .. d[j].size :
           RawBytes(e[e[j].ptrs[(n - 1) \div BlockSize]])[(n - 1) % BlockSize] =
           RawBytes(d[d[j].ptrs[(n - 1) \div BlockSize]])[(n - 1) % BlockSize]
    BY <1>1, <1>3, <2>1
  <2> QED
    BY <1>1, <1>3, <2>2 DEF NodeIn
<1> QED
  BY <1>2, <1>3

\* every inode of a sound image has a size.
LEMMA NodeSame ==
    ASSUME NEW d, NEW m, Sound(d, m), NEW j \in LiveIn(d, m), NEW e, e[j] = d[j],
           d[j].type = "file" => \A k \in DataIdx(d[j]) : e[d[j].ptrs[k]] = d[d[j].ptrs[k]]
    PROVE  NodeIn(e, j) = NodeIn(d, j)
<1>1. d[j].size \in Nat
  BY LiveInode
<1> QED
  BY <1>1, NodeLike
===============================================================================
