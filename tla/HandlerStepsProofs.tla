--------------------------- MODULE HandlerStepsProofs ---------------------------
(***************************************************************************)
(* What holds between any two system calls of a thread, wherever the       *)
(* process stops or the device fails: for disks, paths and files of every  *)
(* size, and one thread (fuse_main with -s).                               *)
(***************************************************************************)
EXTENDS HandlerQueueProofs

-----------------------------------------------------------------------------
(* Threads                                                                 *)

\* The calls a thread serves.
Served == Requests \cup {Idle.call}

\* What the handlers rely on of their arguments.
SaneCall(c) ==
    /\ c.path \in Seq(Names)
    /\ c.op \in Adding \cup Removing \cup Moving => c.path # <<>>
    /\ c.op \in Adding => c.perm \in Perms /\ c.now \in Times
    /\ c.op \in Moving => c.dst \in Seq(Names)
    /\ c.op = "chmod" => c.perm \in Perms
    /\ c.op = "utime" => c.time \in Times
    /\ c.op = "truncate" => c.len \in Int
    /\ c.op = "read" => c.offset \in Nat /\ c.len \in Nat \ {0}
    /\ c.op = "write" => /\ c.offset \in Nat /\ c.len \in Nat \ {0}
                         /\ c.byte \in Bytes /\ c.now \in Times

\* They may.
LEMMA ServedSane == \A c \in Served : SaneCall(c)
<1>1. Paths \subseteq Seq(Names) /\ Below \subseteq Seq(Names) /\ <<>> \notin Below
  BY ClientAssumption DEF Below
<1>2. IoOffsets \subseteq Nat /\ IoLens \subseteq Nat \ {0} /\ TruncLens \subseteq Int
  BY ClientAssumption
<1>3. \A c \in [op : {"create", "mkdir"}, path : Below, perm : Perms, now : Times] : SaneCall(c)
  BY <1>1 DEF SaneCall, Adding, Removing, Moving
<1>4. \A c \in [op : {"unlink", "rmdir"}, path : Below] : SaneCall(c)
  BY <1>1 DEF SaneCall, Adding, Removing, Moving
<1>5. \A c \in [op : {"rename"}, path : Below, dst : Paths] : SaneCall(c)
  BY <1>1 DEF SaneCall, Adding, Removing, Moving
<1>6. \A c \in [op : {"chmod"}, path : Paths, perm : Perms] : SaneCall(c)
  BY <1>1 DEF SaneCall, Adding, Removing, Moving
<1>7. \A c \in [op : {"utime"}, path : Paths, time : Times] : SaneCall(c)
  BY <1>1 DEF SaneCall, Adding, Removing, Moving
<1>8. \A c \in [op : {"truncate"}, path : Paths, len : TruncLens] : SaneCall(c)
  BY <1>1, <1>2 DEF SaneCall, Adding, Removing, Moving
<1>9. \A c \in [op : {"read"}, path : Paths, offset : IoOffsets, len : IoLens] : SaneCall(c)
  BY <1>1, <1>2 DEF SaneCall, Adding, Removing, Moving
<1>10. \A c \in [op : {"write"}, path : Paths, offset : IoOffsets, len : IoLens,
                byte : Bytes, now : Times] : SaneCall(c)
  BY <1>1, <1>2 DEF SaneCall, Adding, Removing, Moving
<1>11. \A c \in [op : {"getattr", "readdir"}, path : Paths] : SaneCall(c)
  BY <1>1 DEF SaneCall, Adding, Removing, Moving
<1>12. \A c \in [op : {"statfs", "none"}, path : {<<>>}] : SaneCall(c)
  <2> DEFINE x == <<>>
  <2>1. x \in Seq(Names)
    OBVIOUS
  <2> HIDE DEF x
  <2>2. \A c \in [op : {"statfs", "none"}, path : {x}] : SaneCall(c)
    BY <2>1 DEF SaneCall, Adding, Removing, Moving
  <2> QED
    BY <2>2 DEF x
<1>13. SaneCall(Idle.call)
  <2> DEFINE x == <<>>
  <2>1. [op |-> "none", path |-> x] \in [op : {"statfs", "none"}, path : {x}]
    OBVIOUS
  <2>2. Idle.call = [op |-> "none", path |-> <<>>]
    BY DEF Idle
  <2> QED
    BY <1>12, <2>1, <2>2
<1>14. \A c \in [op : {"statfs"}, path : {<<>>}] : SaneCall(c)
  <2> DEFINE x == <<>>
  <2>1. \A c \in [op : {"statfs"}, path : {x}] : c \in [op : {"statfs", "none"}, path : {x}]
    OBVIOUS
  <2> QED
    BY <1>12, <2>1
<1> QED
  BY <1>3, <1>4, <1>5, <1>6, <1>7, <1>8, <1>9, <1>10, <1>11, <1>13, <1>14 DEF Served, Requests

ThreadType ==
    [call : Served, at : {"idle", "inode", "entries", "dir", "todo", "dead"},
     goal : {"target", "parent", "destination"}, rest : Seq(Names), inum : Blocks,
     ino : Inode \cup {NotAnInode}, blocks : Seq(Blocks),
     seen : [bitmap : SUBSET Blocks, statVfs : [f_bfree : Int, f_bavail : Int]],
     buf : Seq([Offs -> Byte]), todo : Seq(Jobs), ret : Int, sought : 0 .. 2]

\* The fields that say what a thread has still to do.
Same(r, s) ==
    /\ r.call = s.call /\ r.at = s.at /\ r.goal = s.goal /\ r.rest = s.rest /\ r.inum = s.inum
    /\ r.ino = s.ino /\ r.blocks = s.blocks /\ r.seen = s.seen /\ r.buf = s.buf /\ r.todo = s.todo

\* What the steps of a thread make of it.
LEMMA IdleType ==
    /\ Idle \in ThreadType /\ Idle.at = "idle" /\ Dead \in ThreadType /\ Dead.at = "dead"
    /\ Idle.sought = 0 /\ Dead.sought = 0
<1>1. RootInode \in Blocks
  BY LayoutAssumption DEF RootInode, Blocks
<1>2. Idle \in ThreadType /\ Idle.at = "idle" /\ Idle.sought = 0
  <2> DEFINE x == NotAnInode
  <2>1. Idle = [call   |-> [op |-> "none", path |-> <<>>],
         at     |-> "idle",
         goal   |-> "target", rest   |-> <<>>, inum   |-> RootInode,
         ino    |-> x, blocks |-> <<>>,
         seen   |-> [bitmap |-> {}, statVfs |-> [f_bfree |-> 0, f_bavail |-> 0]],
         buf    |-> <<>>, todo   |-> <<>>, ret    |-> OK, sought |-> 0]
    BY DEF Idle
  <2>2. x \in Inode \cup {NotAnInode}
    OBVIOUS
  <2>3. [op |-> "none", path |-> <<>>] \in Served
    BY DEF Served, Idle
  <2> HIDE DEF x
  <2> QED
    BY <1>1, <2>1, <2>2, <2>3 DEF ThreadType, OK
<1>3. Dead = [Idle EXCEPT !.at = "dead"]
  BY DEF Dead
<1> QED
  BY <1>2, <1>3 DEF ThreadType

\* A thread about to work off a queue.
LEMMA DoType ==
    ASSUME NEW r \in ThreadType, NEW q \in Seq(Jobs), NEW ret \in Int
    PROVE  /\ Do(r, q, ret) \in ThreadType /\ Do(r, q, ret).at = "todo" /\ Do(r, q, ret).todo = q
           /\ Do(r, q, ret).buf = r.buf /\ Do(r, q, ret).seen = r.seen /\ Do(r, q, ret).call = r.call
  BY DEF ThreadType, Do

\* One with a buffer for it.
LEMMA BufferType ==
    ASSUME NEW r \in ThreadType, NEW z \in Seq([Offs -> Byte])
    PROVE  /\ [r EXCEPT !.buf = z] \in ThreadType /\ [r EXCEPT !.buf = z].buf = z
           /\ [r EXCEPT !.buf = z].call = r.call
  BY DEF ThreadType

\* One about to resolve a path,
LEMMA WalkType ==
    ASSUME NEW r \in ThreadType, NEW goal \in {"target", "parent", "destination"}, NEW path \in Seq(Names)
    PROVE  LET w == Walk(r, goal, path) IN
           /\ w \in ThreadType /\ w.at = "inode" /\ w.goal = goal /\ w.rest = path /\ w.inum = RootInode
           /\ w.call = r.call /\ w.blocks = r.blocks
<1>1. RootInode \in Blocks
  BY LayoutAssumption DEF RootInode, Blocks
<1> QED
  BY <1>1 DEF ThreadType, Walk

\* or to look into the directory it has found.
LEMMA LookType ==
    ASSUME NEW r \in ThreadType, NEW x \in Inode
    PROVE  LET w == LookIn([r EXCEPT !.ino = x]) IN
           /\ w \in ThreadType /\ w.at = "dir" /\ w.goal = r.goal /\ w.rest = r.rest /\ w.inum = r.inum
           /\ w.call = r.call /\ w.blocks = r.blocks /\ w.ino = x
  BY DEF ThreadType, LookIn

\* The position of a thread that has just moved.
LEMMA SoughtType ==
    ASSUME NEW r \in ThreadType, NEW k \in 0 .. 2
    PROVE  [r EXCEPT !.sought = k] \in ThreadType /\ Same([r EXCEPT !.sought = k], r)
           /\ [r EXCEPT !.sought = k].sought = k
  BY DEF ThreadType, Same

-----------------------------------------------------------------------------
(* Where a thread is                                                       *)

\* The components of the path that a thread resolves.
GoalPath(r) ==
    IF r.goal = "destination" THEN Parse(r.call.dst)
    ELSE IF r.goal = "parent" THEN Front(Parse(r.call.path))
    ELSE Parse(r.call.path)

\* What a handler knows when it resolves the parent: what it frees, the name it gives.
Learnt(r, e, m) ==
    /\ r.goal = "parent" /\ r.call.op \in Removing =>
          /\ Translate(e, Parse(r.call.path)) \in LiveIn(e, m)
          /\ Range(r.blocks) = Freed(e, Translate(e, Parse(r.call.path)))
    /\ r.goal = "parent" /\ r.call.op \in Moving =>
          /\ Leaf(r.call.dst) \in Names
          /\ Parse(r.call.dst) = Append(Front(Parse(r.call.path)), Leaf(r.call.dst))
    /\ r.call.op = "truncate" => r.call.len \in Nat

\* A thread has gone part of its way, and has the inode there where it needs its block.
Course(r, e, m) ==
    /\ r.inum \in LiveIn(e, m)
    /\ \E c \in Seq(Names) : GoalPath(r) = c \o r.rest /\ Translate(e, c) = r.inum
    /\ r.at \in {"entries", "dir"} => r.inum \in DirsIn(e, m) /\ r.ino = e[r.inum]
    /\ r.at = "entries" => r.rest # <<>>
    /\ r.at = "dir" => r.rest = <<>>
    /\ Learnt(r, e, m)

\* The shadow it goes along.
Heads(r, e, m, d, bm, ow) == Backed(d, e, m, bm, ow) /\ Clean(d, e, m, ow) /\ Course(r, e, m)

Walking(r, d, bm, ow) == \E e, m : Heads(r, e, m, d, bm, ow)

\* The blocks of the buffer that a handler may store from: only fs_write stores.
Space(r) == IF r.call.op = "write" THEN Len(r.buf) ELSE 0

\* The paths a call may change what is found at: Own, of any length.
Owns(c) ==
    {q \in Seq(Names) : \/ q = Parse(c.path)
                        \/ c.op \in {"mkdir"} \cup Removing \cup Moving /\ Above(Parse(c.path), q)
                        \/ c.op \in Moving /\ Above(Parse(c.dst), q)}

\* What is left to do keeps the image consistent, and changes the tree at these paths only.
Phase(r, d, bm, ow) ==
    /\ Held(d, bm, ow)
    /\ r.at # "todo" => Rests(d, bm, ow)
    /\ r.at \in {"inode", "entries", "dir"} => Walking(r, d, bm, ow)
    /\ r.at = "todo" => /\ Planned(r.todo, d, bm, ow, Space(r)) /\ Loaded(r.todo, r.seen.bitmap, bm)
                        /\ Sparing(r.todo, d, Owns(r.call))

Good(r, d, bm, ow) == r \in ThreadType /\ Phase(r, d, bm, ow)

\* What a call owns: its path, and, when it names or unnames something, all that is below.
LEMMA OwnsFacts ==
    ASSUME NEW c, SaneCall(c)
    PROVE  /\ Owns(c) \subseteq Seq(Names) /\ Parse(c.path) \in Owns(c)
           /\ c.op \in {"mkdir"} \cup Removing \cup Moving => Includes(Owns(c), Parse(c.path))
           /\ c.op \in Moving => Includes(Owns(c), Parse(c.dst))
<1>1. Parse(c.path) \in Seq(Names)
  BY ParseProperty DEF SaneCall
<1>2. Owns(c) \subseteq Seq(Names) /\ Parse(c.path) \in Owns(c)
  BY <1>1 DEF Owns
<1>3. ASSUME c.op \in {"mkdir"} \cup Removing \cup Moving PROVE Includes(Owns(c), Parse(c.path))
  BY <1>3 DEF Owns, Includes, From
<1>4. ASSUME c.op \in Moving PROVE Includes(Owns(c), Parse(c.dst))
  BY <1>4 DEF Owns, Includes, From
<1> QED
  BY <1>2, <1>3, <1>4

\* An image at rest has a shadow.
LEMMA RestsHeld ==
    ASSUME NEW d, NEW bm, NEW ow, Rests(d, bm, ow)
    PROVE  Held(d, bm, ow)
BY DEF Rests, Held

\* A queue that writes nothing but the bitmap changes nothing of the tree.
LEMMA HeldSpares ==
    ASSUME NEW d, NEW bm, NEW ow, Held(d, bm, ow), NEW own
    PROVE  /\ \A q : Still(q) => Sparing(q, d, own)
           /\ Sparing(<<>>, d, own)
<1>1. HasShadow(d)
  BY BackedFacts DEF Held, HasShadow
<1>2. \A q : Still(q) => Sparing(q, d, own)
  BY <1>1, StillSpares
<1>3. Still(<<>>)
  BY DEF Still
<1> QED
  BY <1>2, <1>3

\* How far the file offset is from the block that a thread is at does not matter to it.
LEMMA SameGood ==
    ASSUME NEW r, NEW d, NEW bm, NEW ow, Good(r, d, bm, ow), NEW k \in 0 .. 2
    PROVE  Good([r EXCEPT !.sought = k], d, bm, ow)
<1> DEFINE s == [r EXCEPT !.sought = k]
<1>1. r \in ThreadType /\ Phase(r, d, bm, ow)
  BY DEF Good
<1>2. s \in ThreadType /\ Same(s, r)
  BY <1>1, SoughtType
<1> HIDE DEF s
<1>3. ASSUME NEW e, NEW m, Course(r, e, m) PROVE Course(s, e, m)
  BY <1>2, <1>3 DEF Same, Course, GoalPath, Learnt
<1>4. Walking(r, d, bm, ow) => Walking(s, d, bm, ow)
  BY <1>2, <1>3 DEF Walking, Heads, Same
<1>5. Space(s) = Space(r)
  BY <1>2 DEF Same, Space
<1>6. Phase(s, d, bm, ow)
  BY <1>1, <1>2, <1>4, <1>5 DEF Phase, Same
<1> QED
  BY <1>2, <1>6 DEF Good, s

\* A thread that is idle, or at its end.
LEMMA AtRest ==
    ASSUME NEW d, NEW bm, NEW ow, Rests(d, bm, ow)
    PROVE  Good(Idle, d, bm, ow) /\ Good(Dead, d, bm, ow)
<1>1. \A r \in ThreadType : r.at \in {"idle", "dead"} => Good(r, d, bm, ow)
  BY RestsHeld DEF Good, Phase
<1> QED
  BY <1>1, IdleType

\* One that has decided.
LEMMA Decided ==
    ASSUME NEW r \in ThreadType, NEW d, NEW bm, NEW ow, NEW q, Queued(q, d, bm, ow, Space(r)),
           Sparing(q, d, Owns(r.call)), NEW ret \in Int
    PROVE  Good(Do(r, q, ret), d, bm, ow)
<1> DEFINE s == Do(r, q, ret)
<1>1. q \in Seq(Jobs) /\ Opens(q) /\ Planned(q, d, bm, ow, Space(r))
  BY DEF Queued
<1>2. s \in ThreadType /\ s.at = "todo" /\ s.todo = q /\ s.buf = r.buf /\ s.call = r.call
  BY <1>1, DoType
<1> HIDE DEF s
<1>3. Held(d, bm, ow)
  BY <1>1, PlannedHeld
<1>4. Loaded(s.todo, s.seen.bitmap, bm)
  BY <1>1, <1>2, OpensLoaded
<1>5. Space(s) = Space(r)
  BY <1>2 DEF Space
<1> QED
  BY <1>1, <1>2, <1>3, <1>4, <1>5 DEF Good, Phase, s

\* One that returns.
LEMMA Answered ==
    ASSUME NEW r \in ThreadType, NEW d, NEW bm, NEW ow, Rests(d, bm, ow), NEW ret \in Int
    PROVE  Good(Answer(r, ret), d, bm, ow)
<1>1. Queued(<<>>, d, bm, ow, Space(r))
  BY NothingQueued
<1>2. Sparing(<<>>, d, Owns(r.call))
  BY RestsHeld, HeldSpares
<1> QED
  BY <1>1, <1>2, Decided DEF Answer

\* What is known of a shadow that is in the way of a thread.
LEMMA HeadsFacts ==
    ASSUME NEW r \in ThreadType, NEW e, NEW m, NEW d, NEW bm, NEW ow, Heads(r, e, m, d, bm, ow)
    PROVE  /\ Backed(d, e, m, bm, ow) /\ Shadow(d, e, m) /\ Sound(e, m) /\ Held(d, bm, ow)
           /\ m \subseteq bm \cup ow /\ Course(r, e, m) /\ Learnt(r, e, m)
           /\ r.inum \in LiveIn(e, m) /\ r.inum \in Blocks /\ d[r.inum] = e[r.inum]
           /\ e[r.inum] \in Inode
           /\ r.call \in Served /\ SaneCall(r.call)
           /\ Clean(d, e, m, ow) /\ Rests(d, bm, ow)
<1>1. Backed(d, e, m, bm, ow) /\ Course(r, e, m) /\ Clean(d, e, m, ow) /\ Rests(d, bm, ow)
  BY DEF Heads, Rests
<1>2. Shadow(d, e, m) /\ Held(d, bm, ow) /\ m \subseteq bm \cup ow
  BY <1>1, BackedFacts
<1>3. r.inum \in LiveIn(e, m) /\ Learnt(r, e, m)
  BY <1>1 DEF Course
<1>4. /\ Sound(e, m) /\ d[r.inum] = e[r.inum] /\ e[r.inum] \in Inode /\ e[r.inum].kind = "inode"
      /\ r.inum \in Blocks
  BY <1>2, <1>3, ShadowFacts
<1>5. r.call \in Served /\ SaneCall(r.call)
  <2>1. r.call \in Served
    BY DEF ThreadType
  <2> QED
    BY <2>1, ServedSane
<1> QED
  BY <1>1, <1>2, <1>3, <1>4, <1>5

\* A thread that begins to resolve a path.
LEMMA SetsOut ==
    ASSUME NEW r \in ThreadType, NEW e, NEW m, NEW d, NEW bm, NEW ow, Backed(d, e, m, bm, ow),
           Clean(d, e, m, ow), NEW goal \in {"target", "parent", "destination"}, NEW path \in Seq(Names),
           \A s : s.goal = goal /\ s.call = r.call => GoalPath(s) = path,
           \A s : s.goal = goal /\ s.call = r.call /\ s.blocks = r.blocks => Learnt(s, e, m)
    PROVE  Good(Walk(r, goal, path), d, bm, ow)
<1> DEFINE w == Walk(r, goal, path)
<1>1. /\ w \in ThreadType /\ w.at = "inode" /\ w.goal = goal /\ w.rest = path /\ w.inum = RootInode
      /\ w.call = r.call /\ w.blocks = r.blocks
  BY WalkType, SMTT(60)
<1> HIDE DEF w
<1>2. Shadow(d, e, m) /\ Held(d, bm, ow)
  BY BackedFacts
<1>3. RootInode \in LiveIn(e, m)
  BY <1>2, ShadowFacts DEF Sound, EntriesLive
<1>4. \E c \in Seq(Names) : GoalPath(w) = c \o w.rest /\ Translate(e, c) = w.inum
  <2> DEFINE c == <<>>
  <2>1. c \in Seq(Names) /\ path = c \o path
    OBVIOUS
  <2>2. Translate(e, c) = RootInode
    BY TranslateRoot
  <2>3. GoalPath(w) = path
    BY <1>1
  <2> HIDE DEF c
  <2> QED
    BY <1>1, <2>1, <2>2, <2>3
<1>5. Learnt(w, e, m)
  BY <1>1
<1>6. Course(w, e, m)
  BY <1>1, <1>3, <1>4, <1>5 DEF Course
<1>7. Walking(w, d, bm, ow) /\ Rests(d, bm, ow)
  BY <1>1, <1>6 DEF Walking, Heads, Rests
<1> QED
  BY <1>1, <1>2, <1>7 DEF Good, Phase, w

\* One that does not find what it resolves.
LEMMA GivesUp ==
    ASSUME NEW r \in ThreadType, NEW e, NEW m, NEW d, NEW bm, NEW ow, Heads(r, e, m, d, bm, ow), NEW err \in Int
    PROVE  Good(Unresolved(r, err), d, bm, ow)
<1>1. /\ Backed(d, e, m, bm, ow) /\ SaneCall(r.call) /\ Clean(d, e, m, ow) /\ Rests(d, bm, ow)
  BY HeadsFacts
<1>2. CASE ~(r.call.op = "rename" /\ r.goal = "destination")
  <2>1. Unresolved(r, err) = Answer(r, err)
    BY <1>2 DEF Unresolved
  <2> QED
    BY <1>1, <2>1, Answered
<1>3. CASE r.call.op = "rename" /\ r.goal = "destination"
  <2> DEFINE p == Parse(r.call.path)
             q == Parse(r.call.dst)
  <2>1. Unresolved(r, err) = IF Len(p) # Len(q) THEN Answer(r, EINVAL)
                             ELSE IF Front(p) # Front(q) THEN Answer(r, EINVAL)
                             ELSE Walk(r, "parent", Front(p))
    BY <1>3 DEF Unresolved, AfterDestination
  <2>2. /\ p \in Seq(Names) /\ p # <<>> /\ q \in Seq(Names)
    <3>1. r.call.path \in Seq(Names) /\ r.call.path # <<>> /\ r.call.dst \in Seq(Names)
      BY <1>1, <1>3 DEF SaneCall, Moving
    <3> QED
      BY <3>1, ParseProperty
  <2>3. Good(Answer(r, EINVAL), d, bm, ow)
    <3>1. EINVAL \in Int
      BY DEF EINVAL
    <3> QED
      BY <1>1, <3>1, Answered
  <2>4. CASE Len(p) = Len(q) /\ Front(p) = Front(q)
    <3>1. Leaf(r.call.dst) \in Names /\ q = Append(Front(p), Leaf(r.call.dst))
      <4>1. q # <<>>
        BY <2>2, <2>4
      <4>2. Leaf(r.call.dst) = Last(q)
        BY DEF Leaf
      <4>3. Last(q) \in Names /\ q = Append(Front(q), Last(q))
        BY <2>2, <4>1, FrontLast
      <4> HIDE DEF p, q
      <4> QED
        BY <2>4, <4>2, <4>3
    <3>2. Front(p) \in Seq(Names)
      BY <2>2, FrontLast
    <3>3. \A s : s.goal = "parent" /\ s.call = r.call => GoalPath(s) = Front(p)
      BY DEF GoalPath
    <3>4. \A s : s.goal = "parent" /\ s.call = r.call /\ s.blocks = r.blocks => Learnt(s, e, m)
      BY <1>3, <3>1 DEF Learnt, Removing, Moving
    <3> HIDE DEF p, q
    <3>5. Good(Walk(r, "parent", Front(p)), d, bm, ow)
      BY <1>1, <3>2, <3>3, <3>4, SetsOut
    <3> QED
      BY <2>1, <2>3, <3>5
  <2> QED
    BY <2>1, <2>3, <2>4
<1> QED
  BY <1>2, <1>3

\* One that is at its goal.
LEMMA Arrived ==
    ASSUME NEW r \in ThreadType, NEW e, NEW m, Course(r, e, m), r.rest = <<>>
    PROVE  Translate(e, GoalPath(r)) = r.inum /\ GoalPath(r) \in Seq(Names)
<1>1. PICK c \in Seq(Names) : GoalPath(r) = c \o r.rest /\ Translate(e, c) = r.inum
  BY DEF Course
<1>2. c \o <<>> = c
  OBVIOUS
<1> QED
  BY <1>1, <1>2

\* One that finds a directory where it wants one, for its block,
LEMMA LooksIn ==
    ASSUME NEW r \in ThreadType, NEW e, NEW m, NEW d, NEW bm, NEW ow, Heads(r, e, m, d, bm, ow),
           r.rest = <<>>, e[r.inum].type = "dir"
    PROVE  Good(LookIn([r EXCEPT !.ino = e[r.inum]]), d, bm, ow)
<1> DEFINE x == e[r.inum]
           w == LookIn([r EXCEPT !.ino = x])
<1>1. /\ Backed(d, e, m, bm, ow) /\ Held(d, bm, ow) /\ Course(r, e, m) /\ Learnt(r, e, m)
      /\ Clean(d, e, m, ow) /\ Rests(d, bm, ow)
      /\ r.inum \in LiveIn(e, m) /\ x \in Inode
  BY HeadsFacts
<1>2. r.inum \in DirsIn(e, m)
  BY <1>1 DEF DirsIn
<1> HIDE DEF x
<1>3. /\ w \in ThreadType /\ w.at = "dir" /\ w.goal = r.goal /\ w.rest = r.rest /\ w.inum = r.inum
      /\ w.call = r.call /\ w.blocks = r.blocks /\ w.ino = x
  BY <1>1, LookType
<1> HIDE DEF w
<1>4. GoalPath(w) = GoalPath(r)
  BY <1>3 DEF GoalPath
<1>5. Learnt(w, e, m)
  BY <1>1, <1>3 DEF Learnt
<1>6. \E c \in Seq(Names) : GoalPath(w) = c \o w.rest /\ Translate(e, c) = w.inum
  BY <1>1, <1>3, <1>4 DEF Course
<1>7. Course(w, e, m)
  BY <1>1, <1>2, <1>3, <1>5, <1>6 DEF Course, x
<1>8. Walking(w, d, bm, ow)
  BY <1>1, <1>3, <1>7 DEF Walking, Heads
<1> QED
  BY <1>1, <1>3, <1>8 DEF Good, Phase, w, x

\* or on its way.
LEMMA GoesInto ==
    ASSUME NEW r \in ThreadType, NEW e, NEW m, NEW d, NEW bm, NEW ow, Heads(r, e, m, d, bm, ow),
           r.rest # <<>>, e[r.inum].type = "dir"
    PROVE  Good([[r EXCEPT !.ino = e[r.inum]] EXCEPT !.at = "entries"], d, bm, ow)
<1> DEFINE x == e[r.inum]
           w == [[r EXCEPT !.ino = x] EXCEPT !.at = "entries"]
<1>1. /\ Backed(d, e, m, bm, ow) /\ Held(d, bm, ow) /\ Course(r, e, m) /\ Learnt(r, e, m)
      /\ Clean(d, e, m, ow) /\ Rests(d, bm, ow)
      /\ r.inum \in LiveIn(e, m) /\ x \in Inode
  BY HeadsFacts
<1>2. r.inum \in DirsIn(e, m)
  BY <1>1 DEF DirsIn
<1> HIDE DEF x
<1>3. /\ w \in ThreadType /\ w.at = "entries" /\ w.goal = r.goal /\ w.rest = r.rest /\ w.inum = r.inum
      /\ w.call = r.call /\ w.blocks = r.blocks /\ w.ino = x
  BY <1>1 DEF ThreadType
<1> HIDE DEF w
<1>4. GoalPath(w) = GoalPath(r)
  BY <1>3 DEF GoalPath
<1>5. Learnt(w, e, m)
  BY <1>1, <1>3 DEF Learnt
<1>6. \E c \in Seq(Names) : GoalPath(w) = c \o w.rest /\ Translate(e, c) = w.inum
  BY <1>1, <1>3, <1>4 DEF Course
<1>7. Course(w, e, m)
  BY <1>1, <1>2, <1>3, <1>5, <1>6 DEF Course, x
<1>8. Walking(w, d, bm, ow)
  BY <1>1, <1>3, <1>7 DEF Walking, Heads
<1> QED
  BY <1>1, <1>3, <1>8 DEF Good, Phase, w, x

\* What a thread finds that reads a directory's block.
LEMMA ListingFacts ==
    ASSUME NEW r \in ThreadType, NEW e, NEW m, NEW d, NEW bm, NEW ow, Heads(r, e, m, d, bm, ow),
           r.at \in {"entries", "dir"}
    PROVE  /\ r.inum \in DirsIn(e, m) /\ r.ino = e[r.inum] /\ r.ino.ptrs[0] \in Blocks
           /\ AsEntries(d[r.ino.ptrs[0]]) = Entries(e, r.inum)
           /\ Entries(e, r.inum) \in [Slots -> Entry \cup {NoEntry}]
           /\ \A name : Named(Entries(e, r.inum), name) = Matches(e, r.inum, name)
           /\ \A s \in Slots : s \notin Vacant(Entries(e, r.inum)) => s \in Slot(e, r.inum)
<1>1. Shadow(d, e, m) /\ Course(r, e, m)
  BY HeadsFacts
<1>2. r.inum \in DirsIn(e, m) /\ r.ino = e[r.inum]
  BY <1>1 DEF Course
<1>3. /\ e[r.inum].ptrs[0] \in Blocks /\ AsEntries(d[e[r.inum].ptrs[0]]) = Entries(e, r.inum)
      /\ Entries(e, r.inum) \in [Slots -> Entry \cup {NoEntry}]
  BY <1>1, <1>2, ShadowFacts
<1>4. \A name : Named(Entries(e, r.inum), name) = Matches(e, r.inum, name)
  BY DEF Named, Matches, UsedSlots, FreeSlots
<1>5. \A s \in Slots : s \notin Vacant(Entries(e, r.inum)) => s \in Slot(e, r.inum)
  BY DEF Vacant, Slot
<1> QED
  BY <1>2, <1>3, <1>4, <1>5

\* A name that has an entry in a live directory.
LEMMA MatchFacts ==
    ASSUME NEW e, NEW m, Sound(e, m), NEW i \in DirsIn(e, m), NEW name, Matches(e, i, name) # {}
    PROVE  LET s == Min(Matches(e, i, name)) IN
           /\ s \in Slot(e, i) /\ s \in Slots /\ To(e, i, s) = Step(e, i, name) /\ To(e, i, s) \in LiveIn(e, m)
           /\ Entries(e, i)[s] \in Entry
<1> DEFINE s == Min(Matches(e, i, name))
<1>1. s \in Matches(e, i, name)
  BY SlotProperty
<1>2. s \in Slot(e, i) /\ s \in Slots
  BY <1>1 DEF Matches, UsedSlots, FreeSlots, Slot
<1>3. i \in Nat /\ IsDir(e, i)
  BY DEF DirsIn, LiveIn, IsDir, Sound, Typed, Blocks
<1>4. To(e, i, s) = Step(e, i, name)
  BY <1>3 DEF Step, To
<1>5. To(e, i, s) \in LiveIn(e, m)
  BY <1>2 DEF Sound, EntriesLive
<1>6. Entries(e, i)[s] \in Entry
  <2>1. e[i].ptrs[0] \in Blocks
    BY DirBlockOf
  <2> QED
    BY <1>2, <2>1, EntriesType DEF Sound
<1> QED
  BY <1>2, <1>4, <1>5, <1>6

\* A component moves from what is left of a path to what is done.
LEMMA ComponentDone ==
    ASSUME NEW c \in Seq(Names), NEW rest \in Seq(Names), rest # <<>>
    PROVE  /\ Head(rest) \in Names /\ Tail(rest) \in Seq(Names) /\ Append(c, Head(rest)) \in Seq(Names)
           /\ c \o rest = Append(c, Head(rest)) \o Tail(rest)
<1> DEFINE n == Head(rest)
           tail == Tail(rest)
           x == c \o rest
           y == Append(c, n) \o tail
<1>1. n \in Names /\ tail \in Seq(Names) /\ Len(tail) = Len(rest) - 1 /\ Len(rest) \in Nat \ {0}
  OBVIOUS
<1>2. \A k \in 1 .. Len(tail) : tail[k] = rest[k + 1]
  OBVIOUS
<1>3. n = rest[1]
  OBVIOUS
<1> HIDE DEF n, tail
<1>4. /\ Append(c, n) \in Seq(Names) /\ Len(Append(c, n)) = Len(c) + 1 /\ Append(c, n)[Len(c) + 1] = n
      /\ \A k \in 1 .. Len(c) : Append(c, n)[k] = c[k]
  BY <1>1
<1>5. x \in Seq(Names) /\ y \in Seq(Names) /\ Len(x) = Len(c) + Len(rest) /\ Len(y) = Len(c) + Len(rest)
  BY <1>1, <1>4
<1>6. ASSUME NEW k \in 1 .. Len(x) PROVE x[k] = y[k]
  <2>1. CASE k <= Len(c)
    <3>1. x[k] = c[k]
      BY <1>5, <2>1
    <3>2. k \in 1 .. Len(c) /\ y[k] = Append(c, n)[k]
      BY <1>1, <1>4, <1>5, <2>1
    <3> QED
      BY <1>4, <3>1, <3>2
  <2>2. CASE k = Len(c) + 1
    <3>1. x[k] = rest[1]
      BY <1>1, <1>5, <2>2
    <3>2. y[k] = Append(c, n)[k]
      BY <1>1, <1>4, <1>5, <2>2
    <3> QED
      BY <1>3, <1>4, <2>2, <3>1, <3>2
  <2>3. CASE k > Len(c) + 1
    <3>1. x[k] = rest[k - Len(c)]
      BY <1>1, <1>5, <2>3
    <3>2. y[k] = tail[k - (Len(c) + 1)]
      BY <1>1, <1>4, <1>5, <2>3
    <3>3. k - (Len(c) + 1) \in 1 .. Len(tail) /\ k - (Len(c) + 1) + 1 = k - Len(c)
      BY <1>1, <1>5, <2>3
    <3> QED
      BY <1>2, <3>1, <3>2, <3>3
  <2>4. Len(c) \in Nat /\ k \in 1 .. (Len(c) + Len(rest))
    BY <1>5
  <2>5. k \in Int
    BY <1>1, <2>4
  <2>6. \/ k <= Len(c)
        \/ k = Len(c) + 1
        \/ k > Len(c) + 1
    BY <2>4, <2>5
  <2> HIDE DEF x, y
  <2> QED
    BY <2>1, <2>2, <2>3, <2>6
<1> HIDE DEF x, y
<1>7. x = y
  BY <1>5, <1>6, SeqEqual
<1> QED
  BY <1>1, <1>4, <1>7 DEF x, y, n, tail

\* A thread that finds the next component.
LEMMA GoesOn ==
    ASSUME NEW r \in ThreadType, NEW e, NEW m, NEW d, NEW bm, NEW ow, Heads(r, e, m, d, bm, ow),
           r.at = "entries", NEW j, j = Step(e, r.inum, Head(r.rest)), j \in LiveIn(e, m)
    PROVE  Good([r EXCEPT !.at = "inode", !.inum = j, !.rest = Tail(@)], d, bm, ow)
<1> DEFINE tail == Tail(r.rest)
           w == [r EXCEPT !.at = "inode", !.inum = j, !.rest = tail]
<1>1. /\ Backed(d, e, m, bm, ow) /\ Held(d, bm, ow) /\ Course(r, e, m) /\ Learnt(r, e, m)
      /\ Shadow(d, e, m) /\ Clean(d, e, m, ow) /\ Rests(d, bm, ow)
  BY HeadsFacts
<1>2. r.rest # <<>> /\ r.rest \in Seq(Names)
  BY <1>1 DEF Course, ThreadType
<1>3. PICK c \in Seq(Names) : GoalPath(r) = c \o r.rest /\ Translate(e, c) = r.inum
  BY <1>1 DEF Course
<1>4. /\ Head(r.rest) \in Names /\ tail \in Seq(Names) /\ Append(c, Head(r.rest)) \in Seq(Names)
      /\ c \o r.rest = Append(c, Head(r.rest)) \o tail
  BY <1>2, ComponentDone
<1> HIDE DEF tail
<1>5. Translate(e, Append(c, Head(r.rest))) = j
  BY <1>3, <1>4, TranslateAppend
<1>6. j \in Blocks
  BY <1>1, ShadowFacts
<1>7. /\ w \in ThreadType /\ w.at = "inode" /\ w.goal = r.goal /\ w.rest = tail /\ w.inum = j
      /\ w.call = r.call /\ w.blocks = r.blocks
  BY <1>4, <1>6 DEF ThreadType
<1> HIDE DEF w
<1>8. GoalPath(w) = GoalPath(r)
  BY <1>7 DEF GoalPath
<1>9. Learnt(w, e, m)
  BY <1>1, <1>7 DEF Learnt
<1>10. \E x \in Seq(Names) : GoalPath(w) = x \o w.rest /\ Translate(e, x) = w.inum
  BY <1>3, <1>4, <1>5, <1>7, <1>8
<1>11. Course(w, e, m)
  BY <1>7, <1>9, <1>10 DEF Course
<1>12. Walking(w, d, bm, ow)
  BY <1>1, <1>7, <1>11 DEF Walking, Heads
<1>13. Good(w, d, bm, ow)
  BY <1>1, <1>7, <1>12 DEF Good, Phase
<1> QED
  BY <1>13 DEF w, tail

-----------------------------------------------------------------------------
(* The invariant                                                           *)

\* A thread that has sought its block is there.
Aimed(r, block, writing, o) ==
    LET seeks == IF writing THEN 2 ELSE 1 IN
    r.sought <= seeks /\ (r.sought > 0 => o = block + seeks - r.sought)

StepIInv(t) ==
    /\ thr \in [Threads -> ThreadType] /\ offset \in Nat
    /\ bitmap \in SUBSET Blocks /\ owed \in SUBSET Blocks /\ CountersOK
    /\ Aimed(thr[t], Lba(t), Writing(t), offset)
    /\ Phase(thr[t], disk, bitmap, owed)

\* Nothing has changed but what a thread remembers, and the file offset.
Untouched == /\ disk' = disk /\ bitmap' = bitmap /\ owed' = owed /\ statVfs' = statVfs /\ offset' \in Nat

\* A thread that moves on.
LEMMA Moved ==
    ASSUME NEW t \in Threads, thr \in [Threads -> ThreadType], NEW s, thr' = [thr EXCEPT ![t] = s],
           s.sought = 0, Good(s, disk', bitmap', owed'), offset' \in Nat,
           bitmap' \in SUBSET Blocks, owed' \in SUBSET Blocks, CountersOK'
    PROVE  StepIInv(t)'
<1>1. thr' \in [Threads -> ThreadType] /\ thr'[t] = s
  BY DEF Good
<1>2. Aimed(thr'[t], Lba(t)', Writing(t)', offset')
  <2>1. \A b, w, o : Aimed(s, b, w, o)
    BY DEF Aimed
  <2> QED
    BY <1>1, <2>1
<1>3. Phase(thr'[t], disk', bitmap', owed')
  BY <1>1 DEF Good
<1> QED
  BY <1>1, <1>2, <1>3 DEF StepIInv

\* One that has used up its seeks.
LEMMA Moves ==
    ASSUME NEW t \in Threads, thr \in [Threads -> ThreadType], NEW r, Becomes(t, r),
           Good(r, disk', bitmap', owed'), offset' \in Nat,
           bitmap' \in SUBSET Blocks, owed' \in SUBSET Blocks, CountersOK'
    PROVE  StepIInv(t)'
<1> DEFINE s == [r EXCEPT !.sought = 0]
<1>1. Good(s, disk', bitmap', owed')
  <2>1. 0 \in 0 .. 2
    OBVIOUS
  <2> QED
    BY <2>1, SameGood
<1>2. s.sought = 0
  <2>1. r \in ThreadType
    BY DEF Good
  <2> QED
    BY <2>1, SoughtType
<1>3. thr' = [thr EXCEPT ![t] = s]
  BY DEF Becomes
<1> HIDE DEF s
<1> QED
  BY <1>1, <1>2, <1>3, Moved

\* One that does so without touching anything.
LEMMA Turns ==
    ASSUME NEW t \in Threads, StepIInv(t), Untouched, NEW r, Becomes(t, r), Good(r, disk, bitmap, owed)
    PROVE  StepIInv(t)'
<1>1. /\ disk' = disk /\ bitmap' = bitmap /\ owed' = owed /\ statVfs' = statVfs /\ offset' \in Nat
  BY DEF Untouched
<1>2. /\ thr \in [Threads -> ThreadType] /\ bitmap \in SUBSET Blocks /\ owed \in SUBSET Blocks /\ CountersOK
  BY DEF StepIInv
<1>3. CountersOK'
  BY <1>1, <1>2 DEF CountersOK
<1>4. Good(r, disk', bitmap', owed')
  BY <1>1
<1> QED
  BY <1>1, <1>2, <1>3, <1>4, Moves

-----------------------------------------------------------------------------
(* Reads and writes of the image                                           *)

\* The block that a thread is at.
LEMMA LbaFacts ==
    ASSUME NEW t \in Threads, StepIInv(t), Reading(t) \/ Writing(t)
    PROVE  /\ Lba(t) \in Int
           /\ thr[t].at = "inode" => Lba(t) = thr[t].inum
           /\ thr[t].at \in {"entries", "dir"} => Lba(t) = thr[t].ino.ptrs[0]
           /\ thr[t].at = "todo" => Lba(t) = Following(t).lba
<1> DEFINE r == thr[t]
<1>1. r \in ThreadType /\ Phase(r, disk, bitmap, owed)
  BY DEF StepIInv
<1>2. CASE r.at = "inode"
  <2>1. Lba(t) = r.inum
    BY <1>2 DEF Lba
  <2>2. r.inum \in Blocks
    BY <1>1 DEF ThreadType
  <2> QED
    BY <1>2, <2>1, <2>2 DEF Blocks
<1>3. CASE r.at \in {"entries", "dir"}
  <2>1. Lba(t) = r.ino.ptrs[0]
    BY <1>3 DEF Lba
  <2>2. PICK e, m : Heads(r, e, m, disk, bitmap, owed)
    BY <1>1, <1>3 DEF Phase, Walking
  <2> HIDE DEF r
  <2>3. r.ino.ptrs[0] \in Blocks
    BY <1>1, <1>3, <2>2, ListingFacts
  <2> QED
    BY <1>3, <2>1, <2>3 DEF Blocks, r
<1>4. CASE ToDo(t, {"fetch", "put", "save", "store"})
  <2>1. r.at = "todo" /\ r.todo # <<>> /\ r.todo \in Seq(Jobs) /\ Following(t) = Head(r.todo)
    BY <1>1, <1>4 DEF ToDo, Following, ThreadType
  <2>2. Head(r.todo) \in Jobs /\ Head(r.todo).do \in {"fetch", "put", "save", "store"}
    BY <1>4, <2>1, QueueTail DEF ToDo
  <2>3. Head(r.todo).lba \in Int
    BY <2>2, LayoutAssumption DEF Jobs, Blocks, BitmapBlock
  <2>4. Lba(t) = Following(t).lba
    BY <2>1 DEF Lba
  <2> QED
    BY <2>1, <2>3, <2>4
<1>5. \/ r.at = "inode"
      \/ r.at \in {"entries", "dir"}
      \/ ToDo(t, {"fetch", "put", "save", "store"})
  BY DEF Reading, Writing, ToDo
<1> QED
  BY <1>2, <1>3, <1>4, <1>5

\* A read is one of the block that the thread has sought, and changes nothing else.
LEMMA ReadFacts ==
    ASSUME NEW t \in Threads, StepIInv(t), ReadBlock(t)
    PROVE  Untouched /\ offset = Lba(t) /\ offset \in Blocks /\ Device!Here = disk[Lba(t)]
<1>1. /\ Reading(t) /\ thr[t].sought = Seeks(t) /\ offset \in DOMAIN disk /\ offset' = offset + 1
      /\ disk' = disk /\ bitmap' = bitmap /\ owed' = owed /\ statVfs' = statVfs
  BY DEF ReadBlock, Ready, Device!Read
<1>2. Lba(t) \in Int
  BY <1>1, LbaFacts
<1>3. ~Writing(t)
  BY <1>1 DEF Reading, Writing, ToDo
<1>4. thr[t].sought = 1
  BY <1>1, <1>3 DEF Seeks
<1>5. offset \in Nat /\ Aimed(thr[t], Lba(t), Writing(t), offset) /\ Phase(thr[t], disk, bitmap, owed)
  BY DEF StepIInv
<1>6. offset = Lba(t) + 1 - 1
  BY <1>3, <1>4, <1>5 DEF Aimed
<1>7. offset = Lba(t)
  BY <1>2, <1>6
<1>8. DOMAIN disk = Blocks
  <2>1. PICK e, m : Backed(disk, e, m, bitmap, owed)
    BY <1>5 DEF Phase, Held
  <2> QED
    BY <2>1, BackedFacts
<1>9. offset' \in Nat
  BY <1>1, <1>5
<1> QED
  BY <1>1, <1>7, <1>8, <1>9 DEF Untouched, Device!Here

\* The inode read on a path is the one the thread has come to.
LEMMA InodeRead ==
    ASSUME NEW t \in Threads, StepIInv(t), thr[t].at = "inode", ReadBlock(t)
    PROVE  /\ Untouched
           /\ \E e, m : Heads(thr[t], e, m, disk, bitmap, owed) /\ Found = e[thr[t].inum]
<1>1. Untouched /\ Device!Here = disk[Lba(t)] /\ Reading(t)
  BY ReadFacts DEF ReadBlock
<1>2. Lba(t) = thr[t].inum
  BY <1>1, LbaFacts
<1>3. thr[t] \in ThreadType /\ Phase(thr[t], disk, bitmap, owed)
  BY DEF StepIInv
<1>4. PICK e, m : Heads(thr[t], e, m, disk, bitmap, owed)
  BY <1>3 DEF Phase, Walking
<1>5. disk[thr[t].inum] = e[thr[t].inum]
  BY <1>3, <1>4, HeadsFacts
<1>6. Found = e[thr[t].inum]
  BY <1>1, <1>2, <1>5 DEF Found
<1> QED
  BY <1>1, <1>4, <1>6

\* The entries read are those of the directory it has come to.
LEMMA ListingRead ==
    ASSUME NEW t \in Threads, StepIInv(t), thr[t].at \in {"entries", "dir"}, ReadBlock(t)
    PROVE  /\ Untouched
           /\ \E e, m : Heads(thr[t], e, m, disk, bitmap, owed) /\ Listing = Entries(e, thr[t].inum)
<1>1. Untouched /\ Device!Here = disk[Lba(t)] /\ Reading(t)
  BY ReadFacts DEF ReadBlock
<1>2. Lba(t) = thr[t].ino.ptrs[0]
  BY <1>1, LbaFacts
<1>3. thr[t] \in ThreadType /\ Phase(thr[t], disk, bitmap, owed)
  BY DEF StepIInv
<1>4. PICK e, m : Heads(thr[t], e, m, disk, bitmap, owed)
  BY <1>3 DEF Phase, Walking
<1>5. AsEntries(disk[thr[t].ino.ptrs[0]]) = Entries(e, thr[t].inum)
  BY <1>3, <1>4, ListingFacts
<1>6. Listing = Entries(e, thr[t].inum)
  BY <1>1, <1>2, <1>5 DEF Listing
<1> QED
  BY <1>1, <1>4, <1>6

\* A write is one of the block that the thread has sought.
LEMMA WriteFacts ==
    ASSUME NEW t \in Threads, StepIInv(t), NEW content, WriteBlock(t, content)
    PROVE  /\ disk' = [disk EXCEPT ![Following(t).lba] = content] /\ offset' \in Nat
           /\ bitmap' = bitmap /\ statVfs' = statVfs
<1>1. /\ Writing(t) /\ thr[t].sought = Seeks(t) /\ offset' = offset + 1
      /\ disk' = [b \in DOMAIN disk |-> IF b = offset THEN content ELSE disk[b]]
      /\ bitmap' = bitmap /\ statVfs' = statVfs
  BY DEF WriteBlock, Ready, Device!Write
<1>2. Lba(t) \in Int /\ Lba(t) = Following(t).lba
  BY <1>1, LbaFacts DEF Writing, ToDo
<1>3. thr[t].sought = 2
  BY <1>1 DEF Seeks
<1>4. offset \in Nat /\ Aimed(thr[t], Lba(t), Writing(t), offset)
  BY DEF StepIInv
<1>5. offset = Lba(t) + 2 - 2
  BY <1>1, <1>3, <1>4 DEF Aimed
<1>6. offset = Following(t).lba
  BY <1>2, <1>5
<1>7. DOMAIN disk = Blocks
  <2>1. PICK e, m : Backed(disk, e, m, bitmap, owed)
    BY DEF StepIInv, Phase, Held
  <2> QED
    BY <2>1, BackedFacts
<1>8. disk' = [disk EXCEPT ![Following(t).lba] = content]
  BY <1>1, <1>6
<1> QED
  BY <1>1, <1>4, <1>8

-----------------------------------------------------------------------------
(* The steps that do not touch the image                                   *)

\* The block of a thread is a matter of the fields that a seek leaves alone.
LEMMA SameLba ==
    ASSUME NEW t \in Threads, Same(thr'[t], thr[t])
    PROVE  Lba(t)' = Lba(t) /\ Writing(t)' = Writing(t)
<1>1. /\ thr'[t].at = thr[t].at /\ thr'[t].inum = thr[t].inum /\ thr'[t].ino = thr[t].ino
      /\ thr'[t].todo = thr[t].todo
  BY DEF Same
<1>2. Following(t)' = Following(t)
  BY <1>1 DEF Following
<1>3. Lba(t)' = Lba(t)
  BY <1>1, <1>2 DEF Lba
<1>4. Writing(t)' = Writing(t)
  BY <1>1, <1>2 DEF Writing, ToDo
<1> QED
  BY <1>3, <1>4

\* An lseek keeps the invariant.
LEMMA SeekStep ==
    ASSUME NEW t \in Threads, StepIInv(t), SeekBlock(t)
    PROVE  StepIInv(t)'
<1> DEFINE r == thr[t]
           s == [r EXCEPT !.sought = r.sought + 1]
<1>1. /\ Reading(t) \/ Writing(t)
      /\ r.sought # Seeks(t) /\ offset' = Lba(t) + Seeks(t) - 1 - r.sought /\ offset' >= 0
      /\ disk' = disk /\ bitmap' = bitmap /\ owed' = owed /\ statVfs' = statVfs
      /\ thr' = [thr EXCEPT ![t] = IF Writing(t) /\ Lba(t) <= 0 THEN Dead ELSE s]
  <2>1. Reading(t) \/ Writing(t)
    BY DEF SeekBlock
  <2>2. r.sought # Seeks(t)
    BY DEF SeekBlock, Ready
  <2>3. /\ offset' = Lba(t) + Seeks(t) - 1 - r.sought /\ offset' >= 0
        /\ disk' = disk /\ bitmap' = bitmap /\ owed' = owed /\ statVfs' = statVfs
    BY DEF SeekBlock, Device!Seek
  <2>4. thr' = [thr EXCEPT ![t] = IF Writing(t) /\ Lba(t) <= 0 THEN Dead ELSE s]
    BY DEF SeekBlock
  <2> QED
    BY <2>1, <2>2, <2>3, <2>4
<1>2. /\ thr \in [Threads -> ThreadType] /\ bitmap \in SUBSET Blocks /\ owed \in SUBSET Blocks /\ CountersOK
      /\ Aimed(r, Lba(t), Writing(t), offset) /\ Phase(r, disk, bitmap, owed) /\ r \in ThreadType
  BY DEF StepIInv
<1>3. Lba(t) \in Int
  BY <1>1, LbaFacts
<1>4. Seeks(t) \in 1 .. 2 /\ r.sought \in 0 .. 2 /\ r.sought <= Seeks(t)
      /\ Seeks(t) = IF Writing(t) THEN 2 ELSE 1
  BY <1>2 DEF Seeks, Aimed, ThreadType
<1>5. offset' \in Nat /\ r.sought + 1 \in 0 .. 2 /\ r.sought + 1 <= Seeks(t)
      /\ offset' = Lba(t) + Seeks(t) - (r.sought + 1)
  BY <1>1, <1>3, <1>4
<1>6. CountersOK'
  BY <1>1, <1>2 DEF CountersOK
<1>7. CASE Writing(t) /\ Lba(t) <= 0
  <2>1. /\ r.at = "todo" /\ r.todo # <<>> /\ r.todo \in Seq(Jobs)
        /\ Head(r.todo).do \in {"put", "save", "store"} /\ Lba(t) = Head(r.todo).lba
    BY <1>1, <1>2, <1>7, LbaFacts DEF Writing, ToDo, Following, ThreadType
  <2>2. Planned(r.todo, disk, bitmap, owed, Space(r))
    BY <1>2, <2>1 DEF Phase
  <2>3. Lba(t) \in Blocks \ {SuperBlock}
    BY <2>1, <2>2, WritesAbove
  <2> QED
    BY <1>7, <2>3 DEF Blocks, SuperBlock
<1>8. CASE ~(Writing(t) /\ Lba(t) <= 0)
  <2>1. thr' = [thr EXCEPT ![t] = s]
    BY <1>1, <1>8
  <2>2. s \in ThreadType /\ Same(s, r) /\ s.sought = r.sought + 1
    BY <1>2, <1>5, SoughtType
  <2>3. Good(s, disk, bitmap, owed)
    <3>1. Good(r, disk, bitmap, owed)
      BY <1>2 DEF Good
    <3> QED
      BY <1>5, <3>1, SameGood
  <2> HIDE DEF s
  <2>4. thr' \in [Threads -> ThreadType] /\ thr'[t] = s
    BY <1>2, <2>1, <2>2
  <2>5. Lba(t)' = Lba(t) /\ Writing(t)' = Writing(t)
    BY <2>2, <2>4, SameLba
  <2>6. Aimed(s, Lba(t), Writing(t), offset')
    BY <1>4, <1>5, <2>2 DEF Aimed
  <2>7. Aimed(thr'[t], Lba(t)', Writing(t)', offset')
    BY <2>4, <2>5, <2>6
  <2>8. Phase(thr'[t], disk', bitmap', owed')
    BY <1>1, <2>3, <2>4 DEF Good
  <2> QED
    BY <1>1, <1>2, <1>5, <1>6, <2>4, <2>7, <2>8 DEF StepIInv
<1> QED
  BY <1>7, <1>8

\* What is counted, and whether calls have gone astray.
Counted == stops \in [crashes : Nat, faults : Nat, astray : BOOLEAN]

\* A device that fails is not reliable,
LEMMA FaultsCounted ==
    ASSUME NEW t \in Threads, Counted, Fault(t)
    PROVE  ~ Reliable
<1>1. stops.faults \in Nat /\ stops.faults < MaxFaults
  BY DEF Counted, Fault
<1> QED
  BY <1>1 DEF Reliable

\* nor is a process that is stopped within a call.
LEMMA CrashesCounted ==
    ASSUME Counted, stops.crashes < MaxCrashes
    PROVE  ~ Reliable
<1>1. stops.crashes \in Nat
  BY DEF Counted
<1> QED
  BY <1>1 DEF Reliable

\* What a thread does with an error of the device.
LEMMA ErrorGood ==
    ASSUME NEW t \in Threads, StepIInv(t), Rests(disk, bitmap, owed), NEW r \in AfterError(thr[t])
    PROVE  Good(r, disk, bitmap, owed)
<1> DEFINE c == thr[t]
<1>1. c \in ThreadType /\ Phase(c, disk, bitmap, owed)
  BY DEF StepIInv, Phase
<1>2. EIO \in Int
  BY DEF EIO
<1>3. c.at \in {"inode", "entries"} => Good(Unresolved(c, EIO), disk, bitmap, owed)
  <2>1. SUFFICES ASSUME c.at \in {"inode", "entries"} PROVE Good(Unresolved(c, EIO), disk, bitmap, owed)
    OBVIOUS
  <2>2. PICK e, m : Heads(c, e, m, disk, bitmap, owed)
    BY <1>1, <2>1 DEF Phase, Walking
  <2> QED
    BY <1>1, <1>2, <2>2, GivesUp
<1>4. Good(Dead, disk, bitmap, owed)
  BY <1>1, AtRest
<1>5. Good(Answer(c, EIO), disk, bitmap, owed) /\ Good(Answer(c, 1), disk, bitmap, owed)
  BY <1>1, <1>2, Answered
<1>6. \/ c.at \in {"inode", "entries"} /\ r = Unresolved(c, EIO)
      \/ r = Dead
      \/ r = Answer(c, EIO)
      \/ r = Answer(c, 1)
  BY DEF AfterError
<1> QED
  BY <1>3, <1>4, <1>5, <1>6

\* An error of the device, or a read past its end, keeps the invariant.
LEMMA ErrorStep ==
    ASSUME NEW t \in Threads, StepIInv(t), Counted, ReadNowhere(t) \/ Fault(t)
    PROVE  StepIInv(t)'
<1> DEFINE c == thr[t]
<1>0. Rests(disk, bitmap, owed)
  <2>1. c \in ThreadType /\ Phase(c, disk, bitmap, owed) /\ Held(disk, bitmap, owed)
    BY DEF StepIInv, Phase
  <2>2. CASE c.at # "todo"
    BY <2>1, <2>2 DEF Phase
  <2>3. CASE c.at = "todo" /\ ReadNowhere(t)
    <3>1. c.todo # <<>> /\ c.todo \in Seq(Jobs) /\ Head(c.todo).do = "fetch"
      BY <2>1, <2>3 DEF ReadNowhere, Reading, ToDo, Following, ThreadType
    <3>2. Planned(c.todo, disk, bitmap, owed, Space(c))
      BY <2>1, <2>3 DEF Phase
    <3> QED
      BY <3>1, <3>2, FetchRests
  <2>4. CASE Fault(t)
    <3>1. ~ Reliable
      BY <2>4, FaultsCounted
    <3> QED
      BY <2>1, <3>1, Unreliable
  <2> QED
    BY <2>2, <2>3, <2>4
<1>1. /\ \E r \in AfterError(thr[t]) : Becomes(t, r)
      /\ disk' = disk /\ bitmap' = bitmap /\ owed' = owed /\ statVfs' = statVfs /\ offset' = offset
  BY DEF ReadNowhere, Fault
<1>2. PICK r \in AfterError(thr[t]) : Becomes(t, r)
  BY <1>1
<1>3. Untouched
  BY <1>1 DEF Untouched, StepIInv
<1>4. Good(r, disk, bitmap, owed)
  BY <1>0, ErrorGood
<1> QED
  BY <1>2, <1>3, <1>4, Turns

\* The copy of an inode that a thread keeps does not matter until it reads the inode's block.
LEMMA CopyTaken ==
    ASSUME NEW r \in ThreadType, r.at = "inode", NEW e, NEW m, NEW d, NEW bm, NEW ow, Heads(r, e, m, d, bm, ow),
           NEW x \in Inode
    PROVE  [r EXCEPT !.ino = x] \in ThreadType /\ Heads([r EXCEPT !.ino = x], e, m, d, bm, ow)
<1> DEFINE w == [r EXCEPT !.ino = x]
<1>1. /\ w \in ThreadType /\ w.at = r.at /\ w.goal = r.goal /\ w.rest = r.rest /\ w.inum = r.inum
      /\ w.call = r.call /\ w.blocks = r.blocks
  BY DEF ThreadType
<1> HIDE DEF w
<1>2. GoalPath(w) = GoalPath(r)
  BY <1>1 DEF GoalPath
<1>3. Backed(d, e, m, bm, ow) /\ Clean(d, e, m, ow) /\ Course(r, e, m)
  BY DEF Heads
<1>4. Learnt(w, e, m)
  BY <1>1, <1>3 DEF Course, Learnt
<1>5. w.inum \in LiveIn(e, m) /\ \E c \in Seq(Names) : GoalPath(w) = c \o w.rest /\ Translate(e, c) = w.inum
  BY <1>1, <1>2, <1>3 DEF Course
<1>6. Course(w, e, m)
  BY <1>1, <1>4, <1>5 DEF Course
<1>7. Heads(w, e, m, d, bm, ow)
  BY <1>1, <1>3, <1>6 DEF Heads
<1> QED
  BY <1>1, <1>7 DEF w

\* An inode on the way keeps the invariant,
LEMMA WalkInodeStep ==
    ASSUME NEW t \in Threads, StepIInv(t), WalkInode(t)
    PROVE  StepIInv(t)'
<1> DEFINE r == thr[t]
           w == [r EXCEPT !.ino = Found]
<1>1. /\ r.at = "inode" /\ r.rest # <<>> /\ ReadBlock(t)
      /\ Becomes(t, IF w.ino.type = "dir" THEN [w EXCEPT !.at = "entries"] ELSE Unresolved(w, ENOTDIR))
  BY DEF WalkInode, Found
<1>2. PICK e, m : Heads(r, e, m, disk, bitmap, owed) /\ Found = e[r.inum]
  BY <1>1, InodeRead
<1>3. Untouched
  BY <1>1, InodeRead
<1>4. r \in ThreadType
  BY DEF StepIInv
<1>5. e[r.inum] \in Inode
  BY <1>2, <1>4, HeadsFacts
<1>6. w \in ThreadType /\ Heads(w, e, m, disk, bitmap, owed) /\ w.ino = Found
  BY <1>1, <1>2, <1>4, <1>5, CopyTaken DEF ThreadType
<1>7. CASE w.ino.type = "dir"
  <2>1. Good([w EXCEPT !.at = "entries"], disk, bitmap, owed)
    BY <1>1, <1>2, <1>4, <1>6, <1>7, GoesInto
  <2> QED
    BY <1>1, <1>3, <1>7, <2>1, Turns
<1>8. CASE w.ino.type # "dir"
  <2>1. ENOTDIR \in Int
    BY DEF ENOTDIR
  <2> HIDE DEF w
  <2>2. Good(Unresolved(w, ENOTDIR), disk, bitmap, owed)
    BY <1>6, <2>1, GivesUp
  <2> QED
    BY <1>1, <1>3, <1>8, <2>2, Turns
<1> QED
  BY <1>7, <1>8

\* and so do the entries there.
LEMMA WalkEntriesStep ==
    ASSUME NEW t \in Threads, StepIInv(t), WalkEntries(t)
    PROVE  StepIInv(t)'
<1> DEFINE r == thr[t]
           hits == Named(Listing, Head(r.rest))
           w == [r EXCEPT !.at = "inode", !.inum = Listing[Min(hits)].inode, !.rest = Tail(@)]
<1>1. r.at = "entries" /\ ReadBlock(t) /\ Becomes(t, IF hits = {} THEN Unresolved(r, ENOENT) ELSE w)
  BY DEF WalkEntries, Listing
<1>2. PICK e, m : Heads(r, e, m, disk, bitmap, owed) /\ Listing = Entries(e, r.inum)
  BY <1>1, ListingRead
<1>3. Untouched
  BY <1>1, ListingRead
<1>4. r \in ThreadType
  BY DEF StepIInv
<1>5. r.inum \in DirsIn(e, m) /\ hits = Matches(e, r.inum, Head(r.rest))
  BY <1>1, <1>2, <1>4, ListingFacts
<1>6. CASE hits = {}
  <2>1. ENOENT \in Int
    BY DEF ENOENT
  <2>2. Good(Unresolved(r, ENOENT), disk, bitmap, owed)
    BY <1>2, <1>4, <2>1, GivesUp
  <2> QED
    BY <1>1, <1>3, <1>6, <2>2, Turns
<1>7. CASE hits # {}
  <2>1. Sound(e, m)
    BY <1>2, <1>4, HeadsFacts
  <2>2. /\ To(e, r.inum, Min(hits)) = Step(e, r.inum, Head(r.rest))
        /\ To(e, r.inum, Min(hits)) \in LiveIn(e, m)
    BY <1>5, <1>7, <2>1, MatchFacts
  <2>3. Listing[Min(hits)].inode = To(e, r.inum, Min(hits))
    BY <1>2 DEF To
  <2>4. Good(w, disk, bitmap, owed)
    BY <1>1, <1>2, <1>4, <2>2, <2>3, GoesOn
  <2> QED
    BY <1>1, <1>3, <1>7, <2>4, Turns
<1> QED
  BY <1>6, <1>7

\* A block that is not what its reader takes it for: the call does not find what it looks for,
\* ends, or answers without having changed anything.
LEMMA StrayStep ==
    ASSUME NEW t \in Threads, StepIInv(t), Stray(t)
    PROVE  StepIInv(t)'
<1> DEFINE r == thr[t]
<1>1. /\ ReadBlock(t) /\ r.at \in {"inode", "entries", "dir"}
      /\ \/ \E err \in {ENOENT, ENOTDIR, EIO} : Becomes(t, Unresolved(r, err))
         \/ Becomes(t, Dead)
         \/ Becomes(t, Answer(r, OK))
  BY DEF Stray
<1>2. Untouched
  BY <1>1, ReadFacts
<1>3. r \in ThreadType /\ Phase(r, disk, bitmap, owed) /\ Rests(disk, bitmap, owed)
  BY <1>1 DEF StepIInv, Phase
<1>4. PICK e, m : Heads(r, e, m, disk, bitmap, owed)
  BY <1>1, <1>3 DEF Phase, Walking
<1>5. {ENOENT, ENOTDIR, EIO} \subseteq Int /\ OK \in Int
  BY DEF ENOENT, ENOTDIR, EIO, OK
<1>6. \A err \in {ENOENT, ENOTDIR, EIO} : Good(Unresolved(r, err), disk, bitmap, owed)
  BY <1>3, <1>4, <1>5, GivesUp
<1>7. Good(Dead, disk, bitmap, owed) /\ Good(Answer(r, OK), disk, bitmap, owed)
  BY <1>3, <1>5, AtRest, Answered
<1> HIDE DEF r
<1> QED
  BY <1>1, <1>2, <1>6, <1>7, Turns

-----------------------------------------------------------------------------
(* The steps in which a handler decides                                    *)

\* Until calls go astray, a handler is given no block that is owed.
LEMMA OwesNone ==
    ASSUME Counted, ~stops'.astray, NEW blocks, HandsOut(blocks)
    PROVE  Range(blocks) \cap owed = {}
<1> DEFINE out == Range(blocks) \cap owed # {}
<1>1. stops' = [stops EXCEPT !.astray = @ \/ out]
  BY DEF HandsOut
<1> HIDE DEF out
<1>2. stops'.astray = (stops.astray \/ out)
  BY <1>1 DEF Counted
<1>3. ~out
  BY <1>2
<1> QED
  BY <1>3 DEF out

\* A thread at the end of its path, with the inode it has read there.
Meets(r, e, m, x) ==
    Heads(r, e, m, disk, bitmap, owed) /\ r.at = "inode" /\ r.rest = <<>> /\ x = e[r.inum]

\* A thread that has read its directory.
Lists(r, e, m, E) ==
    Heads(r, e, m, disk, bitmap, owed) /\ r.at = "dir" /\ r.rest = <<>> /\ E = Entries(e, r.inum)

\* What each resolution ends with,
LEMMA ResolvedFacts ==
    ASSUME NEW t \in Threads, StepIInv(t), NEW ops, NEW goal, Arrives(t, ops, goal) \/ Resolved(t, ops, goal)
    PROVE  /\ Untouched /\ thr[t] \in ThreadType /\ thr[t].call.op \in ops /\ thr[t].goal = goal
           /\ SaneCall(thr[t].call) /\ Rests(disk, bitmap, owed)
           /\ \E e, m : Meets(thr[t], e, m, Found)
<1>1. /\ thr[t].at = "inode" /\ thr[t].rest = <<>> /\ ReadBlock(t)
      /\ thr[t].call.op \in ops /\ thr[t].goal = goal
  BY DEF Resolved, Arrives
<1>2. PICK e, m : Heads(thr[t], e, m, disk, bitmap, owed) /\ Found = e[thr[t].inum]
  BY <1>1, InodeRead
<1>3. Untouched
  BY <1>1, InodeRead
<1>4. thr[t] \in ThreadType
  BY DEF StepIInv
<1>5. SaneCall(thr[t].call) /\ Rests(disk, bitmap, owed)
  BY <1>2, <1>4, HeadsFacts
<1>6. Meets(thr[t], e, m, Found)
  BY <1>1, <1>2 DEF Meets
<1> QED
  BY <1>1, <1>3, <1>4, <1>5, <1>6

\* and each read of a handler's directory.
LEMMA ListedFacts ==
    ASSUME NEW t \in Threads, StepIInv(t), NEW ops, NEW goal, Scans(t, ops, goal) \/ Listed(t, ops, goal)
    PROVE  /\ Untouched /\ thr[t] \in ThreadType /\ thr[t].call.op \in ops /\ thr[t].goal = goal
           /\ SaneCall(thr[t].call) /\ Rests(disk, bitmap, owed)
           /\ \E e, m : Lists(thr[t], e, m, Listing)
<1>1. thr[t].at = "dir" /\ ReadBlock(t) /\ thr[t].call.op \in ops /\ thr[t].goal = goal
  BY DEF Listed, Scans
<1>2. PICK e, m : Heads(thr[t], e, m, disk, bitmap, owed) /\ Listing = Entries(e, thr[t].inum)
  BY <1>1, ListingRead
<1>3. Untouched
  BY <1>1, ListingRead
<1>4. thr[t] \in ThreadType
  BY DEF StepIInv
<1>5. SaneCall(thr[t].call) /\ Rests(disk, bitmap, owed) /\ Course(thr[t], e, m)
  BY <1>2, <1>4, HeadsFacts
<1>6. Lists(thr[t], e, m, Listing)
  BY <1>1, <1>2, <1>5 DEF Lists, Course
<1> QED
  BY <1>1, <1>3, <1>4, <1>5, <1>6

\* The path that a handler works on is of the call's own: the target,
LEMMA TargetOwned ==
    ASSUME NEW r \in ThreadType, SaneCall(r.call), NEW e, NEW m, Course(r, e, m), r.rest = <<>>, r.goal = "target"
    PROVE  LET P == Parse(r.call.path) IN P \in Seq(Names) /\ P \in Owns(r.call) /\ r.inum = Translate(e, P)
<1>1. GoalPath(r) = Parse(r.call.path)
  BY DEF GoalPath
<1>2. Translate(e, GoalPath(r)) = r.inum /\ GoalPath(r) \in Seq(Names)
  BY Arrived
<1>3. Parse(r.call.path) \in Owns(r.call)
  BY OwnsFacts
<1> QED
  BY <1>1, <1>2, <1>3

\* or a name in the directory it has come to.
LEMMA NameOwned ==
    ASSUME NEW r \in ThreadType, SaneCall(r.call), NEW e, NEW m, Course(r, e, m), r.rest = <<>>, r.goal = "parent",
           r.call.op \in Adding \cup Removing \cup Moving
    PROVE  LET P == Front(Parse(r.call.path))  n == Leaf(r.call.path)  own == Owns(r.call) IN
           /\ P \in Seq(Names) /\ n \in Names /\ r.inum = Translate(e, P) /\ Append(P, n) \in own
           /\ r.call.op # "create" => Includes(own, Append(P, n))
           /\ r.call.op \in Moving => Includes(own, Append(P, Leaf(r.call.dst)))
<1> DEFINE q == Parse(r.call.path)
           P == Front(q)
           n == Leaf(r.call.path)
<1>1. q \in Seq(Names) /\ q # <<>> /\ n = Last(q)
  BY ParseProperty DEF SaneCall, Leaf
<1>2. P \in Seq(Names) /\ n \in Names /\ q = Append(P, n)
  BY <1>1, FrontLast
<1>3. r.inum = Translate(e, P)
  <2>1. GoalPath(r) = P
    BY DEF GoalPath
  <2> QED
    BY <2>1, Arrived
<1>4. /\ q \in Owns(r.call)
      /\ r.call.op \in {"mkdir"} \cup Removing \cup Moving => Includes(Owns(r.call), q)
      /\ r.call.op \in Moving => Includes(Owns(r.call), Parse(r.call.dst))
  BY OwnsFacts
<1>5. r.call.op \in Moving => Parse(r.call.dst) = Append(P, Leaf(r.call.dst))
  BY DEF Course, Learnt
<1>6. r.call.op # "create" => r.call.op \in {"mkdir"} \cup Removing \cup Moving
  BY DEF Adding
<1> HIDE DEF q, P, n
<1>7. Append(P, n) \in Owns(r.call) /\ (r.call.op # "create" => Includes(Owns(r.call), Append(P, n)))
  BY <1>2, <1>4, <1>6
<1>8. r.call.op \in Moving => Includes(Owns(r.call), Append(P, Leaf(r.call.dst)))
  BY <1>4, <1>5
<1> QED
  BY <1>2, <1>3, <1>7, <1>8 DEF P, n, q

\* A call that returns at once.
LEMMA AnswerStep ==
    ASSUME NEW t \in Threads, StepIInv(t), Untouched, Rests(disk, bitmap, owed), NEW ret \in Int,
           Becomes(t, Answer(thr[t], ret))
    PROVE  StepIInv(t)'
<1>1. thr[t] \in ThreadType
  BY DEF StepIInv
<1>2. Good(Answer(thr[t], ret), disk, bitmap, owed)
  BY <1>1, Answered
<1> QED
  BY <1>2, Turns

\* A thread that has decided on a queue.
LEMMA DecideStep ==
    ASSUME NEW t \in Threads, StepIInv(t), Untouched, NEW r \in ThreadType, NEW ret \in Int,
           NEW q, Queued(q, disk, bitmap, owed, Space(r)), Sparing(q, disk, Owns(r.call)), Becomes(t, Do(r, q, ret))
    PROVE  StepIInv(t)'
<1>1. Good(Do(r, q, ret), disk, bitmap, owed)
  BY Decided
<1> QED
  BY <1>1, Turns

\* A directory is looked into, and anything else refused (fs_readdir, create_directory_entry,
\* fs_rmdir, file_dir of fs_rename).
LEMMA DirectoryStep ==
    ASSUME NEW t \in Threads, StepIInv(t), NEW ops, NEW goal, Resolved(t, ops, goal),
           Becomes(t, IF Found.type = "dir" THEN LookIn(With(thr[t])) ELSE Answer(thr[t], ENOTDIR))
    PROVE  StepIInv(t)'
<1>1. Untouched /\ Rests(disk, bitmap, owed) /\ thr[t] \in ThreadType
  BY ResolvedFacts
<1>2. PICK e, m : Meets(thr[t], e, m, Found)
  BY ResolvedFacts
<1>3. CASE Found.type = "dir"
  <2>1. Good(LookIn([thr[t] EXCEPT !.ino = e[thr[t].inum]]), disk, bitmap, owed)
    BY <1>1, <1>2, <1>3, LooksIn DEF Meets
  <2>2. Good(LookIn(With(thr[t])), disk, bitmap, owed)
    BY <1>2, <2>1 DEF With, Meets
  <2> QED
    BY <1>1, <1>3, <2>2, Turns
<1>4. CASE Found.type # "dir"
  <2>1. ENOTDIR \in Int
    BY DEF ENOTDIR
  <2> QED
    BY <1>1, <1>4, <2>1, AnswerStep
<1> QED
  BY <1>3, <1>4

\* fs_getattr keeps the invariant.
LEMMA GetattrStep ==
    ASSUME NEW t \in Threads, StepIInv(t), Getattr1(t)
    PROVE  StepIInv(t)'
<1>1. Untouched /\ Rests(disk, bitmap, owed)
  BY ResolvedFacts DEF Getattr1
<1>2. OK \in Int /\ Becomes(t, Answer(thr[t], OK))
  BY DEF Getattr1, OK
<1> QED
  BY <1>1, <1>2, AnswerStep

\* So do the handlers that look into a directory,
LEMMA LookStep ==
    ASSUME NEW t \in Threads, StepIInv(t), Readdir1(t) \/ Create1(t) \/ Rmdir1(t) \/ Rename3(t)
    PROVE  StepIInv(t)'
<1>1. PICK ops, goal : Resolved(t, ops, goal)
  BY DEF Readdir1, Create1, Rmdir1, Rename3
<1>2. Becomes(t, IF Found.type = "dir" THEN LookIn(With(thr[t])) ELSE Answer(thr[t], ENOTDIR))
  BY DEF Readdir1, Create1, Rmdir1, Rename3
<1> QED
  BY <1>1, <1>2, DirectoryStep

\* those that refuse a directory,
LEMMA RefusedStep ==
    ASSUME NEW t \in Threads, StepIInv(t), Refused(t)
    PROVE  StepIInv(t)'
<1>1. Untouched /\ Rests(disk, bitmap, owed)
  BY ResolvedFacts DEF Refused
<1>2. EISDIR \in Int /\ Becomes(t, Answer(thr[t], EISDIR))
  BY DEF Refused, EISDIR
<1> QED
  BY <1>1, <1>2, AnswerStep

\* and fs_rename, should there be a file of its new name.
LEMMA RenameExistsStep ==
    ASSUME NEW t \in Threads, StepIInv(t), Rename2(t)
    PROVE  StepIInv(t)'
<1>1. Untouched /\ Rests(disk, bitmap, owed)
  BY ResolvedFacts DEF Rename2
<1>2. EEXIST \in Int /\ Becomes(t, Answer(thr[t], EEXIST))
  BY DEF Rename2, EEXIST
<1> QED
  BY <1>1, <1>2, AnswerStep

\* Reads of the image, whatever it is that they read.
LEMMA ReadsQueued ==
    ASSUME NEW d, NEW bm, NEW ow, NEW n, Rests(d, bm, ow), NEW q \in Seq(Jobs),
           \A k \in 1 .. Len(q) : q[k].do = "fetch"
    PROVE  Queued(q, d, bm, ow, n)
<1>1. PICK e, m : Backed(d, e, m, bm, ow) /\ Clean(d, e, m, ow)
  BY DEF Rests
<1>2. \A k \in 1 .. Len(q) : Harmless(q[k], e, m, n) /\ q[k].do # "bits"
  BY DEF Harmless
<1>3. Part(q, e, m, n)
  BY <1>2, PlainPart
<1>4. Tidies(q, d, e, m, bm, ow)
  BY <1>1, CleanTidies
<1> QED
  BY <1>1, <1>3, <1>4, PartPlan DEF Queued, Planned

\* fs_readdir, when it has its entries: it reads the inode of each.
LEMMA ReaddirStep ==
    ASSUME NEW t \in Threads, StepIInv(t), Readdir2(t)
    PROVE  StepIInv(t)'
<1> DEFINE used == Slots \ Vacant(Listing)
           b == [thr[t] EXCEPT !.buf = ZeroBuffer(1)]
<1>1. Untouched /\ thr[t] \in ThreadType /\ Rests(disk, bitmap, owed)
  BY ListedFacts DEF Readdir2
<1>2. PICK e, m : Lists(thr[t], e, m, Listing)
  BY ListedFacts DEF Readdir2
<1>3. PICK s \in [1 .. Cardinality(used) -> used] :
          Becomes(t, Do(b, [k \in DOMAIN s |-> Fetch(Listing[s[k]].inode, 1)], OK))
  BY DEF Readdir2
<1>4. Cardinality(used) \in Nat
  <2>1. IsFiniteSet(Slots)
    <3>1. 0 \in Int /\ DirSlots - 1 \in Int
      BY LayoutAssumption
    <3> QED
      BY <3>1, FS_Interval DEF Slots
  <2>2. IsFiniteSet(used)
    BY <2>1, FS_Subset
  <2> QED
    BY <2>2, FS_CardinalityType
<1>5. \A k \in used : Listing[k].inode \in Int
  <2>1. SUFFICES ASSUME NEW k \in used PROVE Listing[k].inode \in Int
    OBVIOUS
  <2>2. Listing \in [Slots -> Entry \cup {NoEntry}]
    BY <1>1, <1>2, ListingFacts DEF Lists
  <2>3. Listing[k] \in Entry
    BY <2>2 DEF Vacant
  <2> QED
    BY <2>3, LayoutAssumption DEF Entry, Blocks
<1> HIDE DEF used
<1> DEFINE c == Cardinality(used)
           q == [k \in DOMAIN s |-> Fetch(Listing[s[k]].inode, 1)]
<1>6. DOMAIN s = 1 .. c /\ \A k \in 1 .. c : s[k] \in used
  BY <1>3
<1> HIDE DEF c
<1>7. \A k \in 1 .. c : Fetch(Listing[s[k]].inode, 1) \in Jobs /\ Fetch(Listing[s[k]].inode, 1).do = "fetch"
  BY <1>5, <1>6, JobKinds
<1>8. c \in Nat
  BY <1>4 DEF c
<1>9. q \in Seq(Jobs) /\ Len(q) = c /\ \A k \in 1 .. c : q[k] = Fetch(Listing[s[k]].inode, 1)
  BY <1>6, <1>7, <1>8
<1> HIDE DEF q
<1>10. \A k \in 1 .. Len(q) : q[k].do = "fetch"
  BY <1>7, <1>9
<1>11. b \in ThreadType
  <2>1. ZeroBuffer(1) \in Seq([Offs -> Byte])
    BY ZeroBufferType
  <2> QED
    BY <1>1, <2>1, BufferType
<1> HIDE DEF b
<1>12. Queued(q, disk, bitmap, owed, Space(b))
  BY <1>1, <1>9, <1>10, ReadsQueued
<1>13. Sparing(q, disk, Owns(b.call))
  <2>1. Still(q)
    BY <1>10 DEF Still
  <2> QED
    BY <1>1, <2>1, RestsHeld, HeldSpares
<1>14. OK \in Int /\ Becomes(t, Do(b, q, OK))
  BY <1>3 DEF q, OK
<1> QED
  BY <1>1, <1>11, <1>12, <1>13, <1>14, DecideStep

\* create_directory_entry, when it has read the directory.
LEMMA CreateStep ==
    ASSUME NEW t \in Threads, StepIInv(t), Create2(t), Counted, ~stops'.astray
    PROVE  StepIInv(t)'
<1> DEFINE r == thr[t]
           n == IF r.call.op = "mkdir" THEN 2 ELSE 1
<1>1. /\ Untouched /\ r \in ThreadType /\ r.call.op \in Adding /\ SaneCall(r.call) /\ Rests(disk, bitmap, owed)
      /\ r.goal = "parent"
  BY ListedFacts DEF Create2
<1>2. PICK e, m : Lists(r, e, m, Listing)
  BY ListedFacts DEF Create2
<1>3. \/ Becomes(t, Answer(r, EEXIST))
      \/ Becomes(t, Answer(r, ENOSPC))
      \/ /\ Vacant(Listing) # {} /\ Named(Listing, Leaf(r.call.path)) = {}
         /\ \E new \in FirstFree(bitmap, n) : HandsOut(new) /\ Becomes(t, Do(r, CreateEffects(r, Listing, new), OK))
  BY DEF Create2
<1>4. EEXIST \in Int /\ ENOSPC \in Int /\ OK \in Int
  BY DEF EEXIST, ENOSPC, OK
<1>5. CASE Becomes(t, Answer(r, EEXIST)) \/ Becomes(t, Answer(r, ENOSPC))
  BY <1>1, <1>4, <1>5, AnswerStep
<1>6. ASSUME Vacant(Listing) # {}, Named(Listing, Leaf(r.call.path)) = {}, NEW new \in FirstFree(bitmap, n),
             HandsOut(new), Becomes(t, Do(r, CreateEffects(r, Listing, new), OK))
      PROVE  StepIInv(t)'
  <2>1. /\ Heads(r, e, m, disk, bitmap, owed) /\ r.at = "dir" /\ Listing = Entries(e, r.inum)
    BY <1>2 DEF Lists
  <2>2. /\ r.inum \in DirsIn(e, m) /\ r.ino = e[r.inum]
        /\ Matches(e, r.inum, Leaf(r.call.path)) = {}
    BY <1>1, <1>6, <2>1, ListingFacts
  <2>3. Backed(disk, e, m, bitmap, owed) /\ Clean(disk, e, m, owed) /\ Range(new) \cap owed = {}
    BY <1>1, <1>6, <2>1, HeadsFacts, OwesNone
  <2>4. n \in Int
    OBVIOUS
  <2>5. new \in [1 .. n -> Blocks \ bitmap] /\ \A j, k \in 1 .. n : new[j] = new[k] => j = k
    BY <1>6, <2>4, FirstFreeProperty
  <2>6. Adds(disk, e, m, bitmap, owed, r.inum, new, n)
    BY <2>2, <2>3, <2>5 DEF Adds
  <2>7. r.call.perm \in Perms /\ r.call.now \in Times /\ r.call.path \in Seq(Names) /\ r.call.path # <<>>
    BY <1>1 DEF SaneCall
  <2>8. Leaf(r.call.path) \in Names
    BY <2>7, ParseProperty DEF Leaf
  <2>9. Queued(CreateEffects(r, Entries(e, r.inum), new), disk, bitmap, owed, Space(r))
    <3>1. CASE r.call.op = "create"
      <4>1. Adds(disk, e, m, bitmap, owed, r.inum, new, 1)
        BY <2>6, <3>1
      <4> QED
        BY <1>6, <2>1, <2>2, <2>3, <2>7, <2>8, <3>1, <4>1, CreateQueued
    <3>2. CASE r.call.op = "mkdir"
      <4>1. Adds(disk, e, m, bitmap, owed, r.inum, new, 2)
        BY <2>6, <3>2
      <4> QED
        BY <1>6, <2>1, <2>2, <2>3, <2>7, <2>8, <3>2, <4>1, MkdirQueued
    <3> QED
      BY <1>1, <3>1, <3>2 DEF Adding
  <2>10. Queued(CreateEffects(r, Listing, new), disk, bitmap, owed, Space(r))
    BY <2>1, <2>9
  <2> DEFINE P == Front(Parse(r.call.path))
             own == Owns(r.call)
  <2>11. /\ P \in Seq(Names) /\ r.inum = Translate(e, P) /\ Append(P, Leaf(r.call.path)) \in own
         /\ r.call.op # "create" => Includes(own, Append(P, Leaf(r.call.path)))
    <3>1. r.rest = <<>> /\ Course(r, e, m)
      BY <1>1, <1>2, <2>1, HeadsFacts DEF Lists
    <3> QED
      BY <1>1, <3>1, NameOwned
  <2>12. Vacant(Entries(e, r.inum)) # {}
    BY <1>6, <2>1
  <2> HIDE DEF P, own
  <2>13. Sparing(CreateEffects(r, Entries(e, r.inum), new), disk, own)
    <3>1. CASE r.call.op = "create"
      <4>1. Adds(disk, e, m, bitmap, owed, r.inum, new, 1)
        BY <2>6, <3>1
      <4> HIDE DEF r
      <4> QED
        BY <2>2, <2>7, <2>8, <2>11, <2>12, <3>1, <4>1, CreateSpares
    <3>2. CASE r.call.op = "mkdir"
      <4>1. Adds(disk, e, m, bitmap, owed, r.inum, new, 2)
        BY <2>6, <3>2
      <4>2. Includes(own, Append(P, Leaf(r.call.path)))
        BY <2>11, <3>2
      <4> HIDE DEF r
      <4> QED
        BY <2>2, <2>7, <2>8, <2>11, <2>12, <3>2, <4>1, <4>2, MkdirSpares
    <3> QED
      BY <1>1, <3>1, <3>2 DEF Adding
  <2>14. Sparing(CreateEffects(r, Listing, new), disk, Owns(r.call))
    BY <2>1, <2>13 DEF own
  <2> QED
    BY <1>1, <1>4, <1>6, <2>10, <2>14, DecideStep
<1> QED
  BY <1>3, <1>5, <1>6

\* A handler that has found what it is to remove goes for the directory it is in.
LEMMA RemoverStep ==
    ASSUME NEW t \in Threads, StepIInv(t), Untouched, NEW e, NEW m, Heads(thr[t], e, m, disk, bitmap, owed),
           thr[t].rest = <<>>, thr[t].goal = "target", thr[t].call.op \in Removing,
           NEW b \in Seq(Blocks), Range(b) = Freed(e, thr[t].inum),
           Becomes(t, Walk([thr[t] EXCEPT !.blocks = b], "parent", Front(Parse(thr[t].call.path))))
    PROVE  StepIInv(t)'
<1> DEFINE r == thr[t]
           w == [r EXCEPT !.blocks = b]
           q == Parse(r.call.path)
<1>1. r \in ThreadType
  BY DEF StepIInv
<1>2. /\ Backed(disk, e, m, bitmap, owed) /\ Course(r, e, m) /\ SaneCall(r.call)
      /\ r.inum \in LiveIn(e, m) /\ Clean(disk, e, m, owed)
  BY <1>1, HeadsFacts
<1>3. r.call.path \in Seq(Names) /\ r.call.path # <<>>
  BY <1>2 DEF SaneCall
<1>4. q \in Seq(Names) /\ q # <<>>
  BY <1>3, ParseProperty
<1>5. Front(q) \in Seq(Names)
  BY <1>4, FrontLast
<1>6. Translate(e, q) = r.inum
  <2>1. GoalPath(r) = q
    BY DEF GoalPath
  <2> QED
    BY <1>1, <1>2, <2>1, Arrived
<1>7. w \in ThreadType /\ w.call = r.call /\ w.blocks = b
  BY <1>1 DEF ThreadType
<1>8. ASSUME NEW s, s.goal = "parent", s.call = w.call
      PROVE  GoalPath(s) = Front(q)
  BY <1>7, <1>8 DEF GoalPath
<1>9. ASSUME NEW s, s.goal = "parent", s.call = w.call, s.blocks = w.blocks
      PROVE  Learnt(s, e, m)
  <2>1. s.call.op \in Removing /\ Parse(s.call.path) = q /\ s.blocks = b
    BY <1>7, <1>9
  <2>2. Translate(e, q) \in LiveIn(e, m) /\ Range(b) = Freed(e, Translate(e, q))
    BY <1>2, <1>6
  <2>3. s.call.op \notin Moving /\ s.call.op # "truncate"
    BY <2>1 DEF Removing, Moving
  <2> QED
    BY <2>1, <2>2, <2>3 DEF Learnt
<1>10. Becomes(t, Walk(w, "parent", Front(q)))
  OBVIOUS
<1> HIDE DEF w, q
<1>11. Good(Walk(w, "parent", Front(q)), disk, bitmap, owed)
  <2>1. "parent" \in {"target", "parent", "destination"}
    OBVIOUS
  <2> QED
    BY <1>2, <1>5, <1>7, <1>8, <1>9, <2>1, SetsOut
<1> QED
  BY <1>10, <1>11, Turns

\* allocatedBlockInums of fs_unlink.
Allocated(ino, i) == Append([k \in 1 .. BlocksFor(ino.size) |-> ino.ptrs[k - 1]], i)

\* They are the numbers of the blocks of an object, its inode's last.
LEMMA ObjectBlocks ==
    ASSUME NEW e, NEW m, Sound(e, m), NEW i \in LiveIn(e, m),
           NEW b, b = Allocated(e[i], i)
    PROVE  b \in Seq(Blocks) /\ Range(b) = Freed(e, i)
<1> DEFINE n == BlocksFor(e[i].size)
           a == [k \in 1 .. n |-> e[i].ptrs[k - 1]]
<1>1. /\ i \in Blocks /\ e[i] \in Inode /\ m \subseteq Blocks
      /\ \A k \in DataIdx(e[i]) : e[i].ptrs[k] \in m
  <2>1. Typed(e, m) /\ InodesFit(e, m)
    BY DEF Sound
  <2>2. i \in Blocks /\ e[i] \in Content /\ e[i].kind = "inode" /\ m \subseteq Blocks
    BY <2>1 DEF Typed, LiveIn, IsInode
  <2> QED
    BY <2>1, <2>2, ContentKinds DEF InodesFit
<1>2. n \in Nat
  BY <1>1, BlocksForProperty DEF Inode
<1>3. \A k \in 1 .. n : k - 1 \in DataIdx(e[i]) /\ a[k] = e[i].ptrs[k - 1]
  BY <1>2 DEF DataIdx
<1>4. \A k \in DataIdx(e[i]) : k + 1 \in 1 .. n /\ a[k + 1] = e[i].ptrs[k]
  BY <1>2 DEF DataIdx
<1>5. a \in Seq(Blocks) /\ Len(a) = n
  BY <1>1, <1>2, <1>3
<1> HIDE DEF a, n
<1>6. /\ Append(a, i) \in Seq(Blocks) /\ Len(Append(a, i)) = n + 1 /\ Append(a, i)[n + 1] = i
      /\ \A k \in 1 .. n : Append(a, i)[k] = a[k]
  BY <1>1, <1>2, <1>5, AppendFacts
<1>7. b = Append(a, i)
  BY DEF a, n, Allocated
<1>8. /\ b \in Seq(Blocks) /\ DOMAIN b = 1 .. n + 1 /\ b[n + 1] = i
      /\ \A k \in 1 .. n : b[k] = e[i].ptrs[k - 1]
  <2>1. b \in Seq(Blocks) /\ Len(b) = n + 1 /\ b[n + 1] = i
    BY <1>6, <1>7
  <2>2. DOMAIN b = 1 .. n + 1
    BY <2>1
  <2>3. \A k \in 1 .. n : b[k] = a[k]
    BY <1>6, <1>7
  <2> QED
    BY <1>3, <2>1, <2>2, <2>3
<1>9. ASSUME NEW x \in Range(b) PROVE x \in Freed(e, i)
  <2>1. PICK k \in 1 .. n + 1 : x = b[k]
    BY <1>8 DEF Range
  <2>2. CASE k = n + 1
    BY <1>8, <2>1, <2>2 DEF Freed
  <2>3. CASE k \in 1 .. n
    <3>1. x = e[i].ptrs[k - 1] /\ k - 1 \in DataIdx(e[i])
      BY <1>3, <1>8, <2>1, <2>3
    <3> QED
      BY <3>1 DEF Freed, DataBlocks
  <2> QED
    BY <1>2, <2>1, <2>2, <2>3
<1>10. ASSUME NEW x \in Freed(e, i) PROVE x \in Range(b)
  <2>1. CASE x = i
    <3>1. n + 1 \in DOMAIN b /\ b[n + 1] = i
      BY <1>2, <1>8
    <3> QED
      BY <2>1, <3>1 DEF Range
  <2>2. CASE x # i
    <3>1. PICK k \in DataIdx(e[i]) : x = e[i].ptrs[k]
      BY <2>2 DEF Freed, DataBlocks
    <3>2. k + 1 \in 1 .. n /\ b[k + 1] = e[i].ptrs[(k + 1) - 1] /\ (k + 1) - 1 = k
      BY <1>4, <1>8, <3>1 DEF DataIdx
    <3>3. k + 1 \in DOMAIN b
      BY <1>2, <1>8, <3>2
    <3> QED
      BY <3>1, <3>2, <3>3 DEF Range
  <2> QED
    BY <2>1, <2>2
<1> QED
  BY <1>8, <1>9, <1>10

\* fs_unlink, when it has read the inode.
LEMMA UnlinkStep ==
    ASSUME NEW t \in Threads, StepIInv(t), Unlink1(t)
    PROVE  StepIInv(t)'
<1> DEFINE r == thr[t]
           b == Append([k \in 1 .. BlocksFor(Found.size) |-> Found.ptrs[k - 1]], r.inum)
<1>1. /\ Untouched /\ r \in ThreadType /\ r.call.op \in {"unlink"} /\ r.goal = "target"
  BY ResolvedFacts DEF Unlink1
<1>2. PICK e, m : Meets(r, e, m, Found)
  BY ResolvedFacts DEF Unlink1
<1>3. Heads(r, e, m, disk, bitmap, owed) /\ r.rest = <<>> /\ Found = e[r.inum]
  BY <1>2 DEF Meets
<1>4. Sound(e, m) /\ r.inum \in LiveIn(e, m)
  BY <1>1, <1>3, HeadsFacts
<1>5. b = Allocated(e[r.inum], r.inum)
  BY <1>3 DEF Allocated
<1>6. Becomes(t, Walk([r EXCEPT !.blocks = b], "parent", Front(Parse(r.call.path))))
  BY DEF Unlink1
<1> HIDE DEF b
<1>7. b \in Seq(Blocks) /\ Range(b) = Freed(e, r.inum)
  BY <1>4, <1>5, ObjectBlocks
<1>8. r.call.op \in Removing
  BY <1>1 DEF Removing
<1> QED
  BY <1>1, <1>3, <1>6, <1>7, <1>8, RemoverStep

\* fs_rmdir, when it has read the directory.
LEMMA RmdirStep ==
    ASSUME NEW t \in Threads, StepIInv(t), Rmdir2(t)
    PROVE  StepIInv(t)'
<1> DEFINE r == thr[t]
           b == <<r.inum, r.ino.ptrs[0]>>
<1>1. /\ Untouched /\ Rests(disk, bitmap, owed) /\ r \in ThreadType /\ r.call.op \in {"rmdir"} /\ r.goal = "target"
  BY ListedFacts DEF Rmdir2
<1>2. PICK e, m : Lists(r, e, m, Listing)
  BY ListedFacts DEF Rmdir2
<1>3. Heads(r, e, m, disk, bitmap, owed) /\ r.rest = <<>> /\ r.at = "dir"
  BY <1>2 DEF Lists
<1>4. Sound(e, m) /\ r.inum \in LiveIn(e, m) /\ r.inum \in Blocks
  BY <1>1, <1>3, HeadsFacts
<1>5. r.inum \in DirsIn(e, m) /\ r.ino = e[r.inum] /\ r.ino.ptrs[0] \in Blocks
  BY <1>1, <1>3, ListingFacts
<1>6. \/ Becomes(t, Answer(r, ENOSPC))
      \/ Becomes(t, Answer(r, ENOTEMPTY))
      \/ Becomes(t, Walk([r EXCEPT !.blocks = b], "parent", Front(Parse(r.call.path))))
  BY DEF Rmdir2
<1>7. b \in Seq(Blocks) /\ Range(b) = Freed(e, r.inum)
  <2>1. DataBlocks(e[r.inum]) = {r.ino.ptrs[0]}
    BY <1>4, <1>5, DirBlockOf DEF DataBlocks
  <2>2. b \in Seq(Blocks) /\ DOMAIN b = {1, 2} /\ b[1] = r.inum /\ b[2] = r.ino.ptrs[0]
    BY <1>4, <1>5
  <2> HIDE DEF b
  <2>3. Range(b) = {r.inum, r.ino.ptrs[0]}
    BY <2>2 DEF Range
  <2> QED
    BY <2>1, <2>2, <2>3 DEF Freed
<1> HIDE DEF b
<1>8. r.call.op \in Removing
  BY <1>1 DEF Removing
<1>9. ENOSPC \in Int /\ ENOTEMPTY \in Int
  BY DEF ENOSPC, ENOTEMPTY
<1>10. CASE Becomes(t, Answer(r, ENOSPC)) \/ Becomes(t, Answer(r, ENOTEMPTY))
  BY <1>1, <1>9, <1>10, AnswerStep
<1>11. CASE Becomes(t, Walk([r EXCEPT !.blocks = b], "parent", Front(Parse(r.call.path))))
  BY <1>1, <1>3, <1>7, <1>8, <1>11, RemoverStep
<1> QED
  BY <1>6, <1>10, <1>11

\* unlink_directory_entry, when it has read the inode: that of the object's directory.
LEMMA RemoveLookStep ==
    ASSUME NEW t \in Threads, StepIInv(t), Remove1(t)
    PROVE  StepIInv(t)'
<1> DEFINE r == thr[t]
           q == Parse(r.call.path)
<1>1. /\ Untouched /\ r \in ThreadType /\ r.call.op \in Removing /\ r.goal = "parent" /\ SaneCall(r.call)
  BY ResolvedFacts DEF Remove1
<1>2. PICK e, m : Meets(r, e, m, Found)
  BY ResolvedFacts DEF Remove1
<1>3. Heads(r, e, m, disk, bitmap, owed) /\ r.rest = <<>> /\ Found = e[r.inum]
  BY <1>2 DEF Meets
<1>4. Sound(e, m) /\ Course(r, e, m) /\ Learnt(r, e, m)
  BY <1>1, <1>3, HeadsFacts
<1>5. q \in Seq(Names) /\ q # <<>>
  BY <1>1, ParseProperty DEF SaneCall
<1>6. r.inum = TranslateParent(e, q)
  <2>1. GoalPath(r) = Front(q)
    BY <1>1 DEF GoalPath
  <2> QED
    BY <1>1, <1>3, <1>4, <1>5, <2>1, Arrived DEF TranslateParent
<1>7. Translate(e, q) \in LiveIn(e, m)
  BY <1>1, <1>4 DEF Learnt
<1>8. e[r.inum].type = "dir"
  <2>1. Translate(e, q) >= 0
    BY <1>4, <1>5, <1>7, ResolveLive
  <2>2. r.inum \in DirsIn(e, m)
    BY <1>4, <1>5, <1>6, <2>1, ResolveEntry
  <2> QED
    BY <2>2 DEF DirsIn
<1>9. Good(LookIn(With(r)), disk, bitmap, owed)
  <2>1. With(r) = [r EXCEPT !.ino = e[r.inum]]
    BY <1>3 DEF With
  <2> QED
    BY <1>1, <1>3, <1>8, <2>1, LooksIn
<1>10. Becomes(t, LookIn(With(r)))
  BY DEF Remove1
<1> QED
  BY <1>1, <1>9, <1>10, Turns

\* unlink_directory_entry, when it has read the directory: the entry it erases is the object's.
LEMMA RemoveStep ==
    ASSUME NEW t \in Threads, StepIInv(t), Remove2(t)
    PROVE  StepIInv(t)'
<1> DEFINE r == thr[t]
           q == Parse(r.call.path)
           hits == Named(Listing, Leaf(r.call.path))
           s == Min(hits)
<1>1. /\ Untouched /\ Rests(disk, bitmap, owed) /\ r \in ThreadType /\ r.call.op \in Removing /\ r.goal = "parent" /\ SaneCall(r.call)
  BY ListedFacts DEF Remove2
<1>2. PICK e, m : Lists(r, e, m, Listing)
  BY ListedFacts DEF Remove2
<1>3. Heads(r, e, m, disk, bitmap, owed) /\ r.rest = <<>> /\ r.at = "dir" /\ Listing = Entries(e, r.inum)
  BY <1>2 DEF Lists
<1>4. /\ Sound(e, m) /\ Backed(disk, e, m, bitmap, owed) /\ Course(r, e, m) /\ Learnt(r, e, m)
      /\ Clean(disk, e, m, owed)
  BY <1>1, <1>3, HeadsFacts
<1>5. r.inum \in DirsIn(e, m) /\ r.ino = e[r.inum] /\ hits = Matches(e, r.inum, Leaf(r.call.path))
  BY <1>1, <1>3, ListingFacts
<1>6. OK \in Int /\ ENOENT \in Int
  BY DEF OK, ENOENT
<1>7. Becomes(t, IF hits = {} THEN Answer(r, ENOENT) ELSE Do(r, RemoveEffects(r, Listing, s), OK))
  BY DEF Remove2
<1>8. q \in Seq(Names) /\ q # <<>> /\ Leaf(r.call.path) = Last(q)
  BY <1>1, ParseProperty DEF SaneCall, Leaf
<1>9. r.inum = Translate(e, Front(q))
  <2>1. GoalPath(r) = Front(q)
    BY <1>1 DEF GoalPath
  <2> QED
    BY <1>1, <1>3, <1>4, <2>1, Arrived
<1>10. CASE hits = {}
  BY <1>1, <1>6, <1>7, <1>10, AnswerStep
<1>11. CASE hits # {}
  <2>1. s \in Slot(e, r.inum) /\ To(e, r.inum, s) = Step(e, r.inum, Last(q))
    BY <1>4, <1>5, <1>8, <1>11, MatchFacts
  <2>2. To(e, r.inum, s) = Translate(e, q)
    BY <1>8, <1>9, <2>1, TranslateLast
  <2>3. r.blocks \in Seq(Blocks) /\ Range(r.blocks) = Freed(e, To(e, r.inum, s))
    BY <1>1, <1>4, <2>2 DEF Learnt, ThreadType
  <2> DEFINE P == Front(q)
             n == Leaf(r.call.path)
             own == Owns(r.call)
  <2>4. /\ P \in Seq(Names) /\ n \in Names /\ r.inum = Translate(e, P) /\ Includes(own, Append(P, n))
    <3>1. r.call.op \in Adding \cup Removing \cup Moving /\ r.call.op # "create"
      BY <1>1 DEF Removing
    <3> QED
      BY <1>1, <1>3, <1>4, <3>1, NameOwned
  <2>5. s \in Matches(e, r.inum, n) /\ Shadow(disk, e, m)
    <3>1. s \in Matches(e, r.inum, n)
      BY <1>5, <1>11, SlotProperty
    <3> QED
      BY <1>4, <3>1, BackedFacts
  <2>6. Sparing(RemoveEffects(r, Entries(e, r.inum), s), disk, own)
    <3> HIDE DEF s, hits, r, q, P, n, own
    <3> QED
      BY <1>5, <2>3, <2>4, <2>5, RemoveSpares
  <2> HIDE DEF s, hits, r
  <2>7. Queued(RemoveEffects(r, Entries(e, r.inum), s), disk, bitmap, owed, Space(r))
    BY <1>4, <1>5, <2>1, <2>3, RemoveQueued
  <2>8. Becomes(t, Do(r, RemoveEffects(r, Entries(e, r.inum), s), OK))
    BY <1>3, <1>7, <1>11
  <2> QED
    BY <1>1, <1>6, <2>6, <2>7, <2>8, DecideStep DEF own
<1> QED
  BY <1>10, <1>11

\* fs_rename, when it has found its source.
LEMMA RenameSourceStep ==
    ASSUME NEW t \in Threads, StepIInv(t), Rename1(t)
    PROVE  StepIInv(t)'
<1> DEFINE r == thr[t]
           q == Parse(r.call.dst)
<1>1. /\ Untouched /\ r \in ThreadType /\ r.call.op \in Moving /\ SaneCall(r.call)
  BY ResolvedFacts DEF Rename1
<1>2. PICK e, m : Meets(r, e, m, Found)
  BY ResolvedFacts DEF Rename1
<1>3. Backed(disk, e, m, bitmap, owed) /\ Clean(disk, e, m, owed)
  BY <1>1, <1>2, HeadsFacts DEF Meets
<1>4. q \in Seq(Names)
  BY <1>1, ParseProperty DEF SaneCall
<1>5. ASSUME NEW s, s.goal = "destination", s.call = r.call
      PROVE  GoalPath(s) = q
  BY <1>5 DEF GoalPath
<1>6. ASSUME NEW s, s.goal = "destination", s.call = r.call, s.blocks = r.blocks
      PROVE  Learnt(s, e, m)
  BY <1>1, <1>6 DEF Learnt, Moving
<1>7. "destination" \in {"target", "parent", "destination"}
  OBVIOUS
<1>8. Becomes(t, Walk(r, "destination", q))
  BY DEF Rename1
<1> HIDE DEF q
<1>9. Good(Walk(r, "destination", q), disk, bitmap, owed)
  BY <1>1, <1>3, <1>4, <1>5, <1>6, <1>7, SetsOut
<1> QED
  BY <1>1, <1>8, <1>9, Turns

\* file_dir of fs_rename: the entry gets its other name.
LEMMA RenameStep ==
    ASSUME NEW t \in Threads, StepIInv(t), Rename4(t)
    PROVE  StepIInv(t)'
<1> DEFINE r == thr[t]
           hits == Named(Listing, Leaf(r.call.path))
           s == Min(hits)
           name == Leaf(r.call.dst)
<1>1. /\ Untouched /\ r \in ThreadType /\ r.call.op \in Moving /\ r.goal = "parent" /\ Rests(disk, bitmap, owed)
      /\ SaneCall(r.call)
  BY ListedFacts DEF Rename4
<1>2. PICK e, m : Lists(r, e, m, Listing)
  BY ListedFacts DEF Rename4
<1>3. Heads(r, e, m, disk, bitmap, owed) /\ r.rest = <<>> /\ r.at = "dir" /\ Listing = Entries(e, r.inum)
  BY <1>2 DEF Lists
<1>4. /\ Sound(e, m) /\ Backed(disk, e, m, bitmap, owed) /\ Course(r, e, m) /\ Learnt(r, e, m)
      /\ Clean(disk, e, m, owed)
  BY <1>1, <1>3, HeadsFacts
<1>5. r.inum \in DirsIn(e, m) /\ r.ino = e[r.inum] /\ hits = Matches(e, r.inum, Leaf(r.call.path))
  BY <1>1, <1>3, ListingFacts
<1>6. name \in Names
  BY <1>1, <1>4 DEF Learnt
<1>7. Becomes(t, IF hits = {} THEN Dead
                 ELSE Do(r, <<PutDir(r.ino.ptrs[0], [Listing EXCEPT ![s].name = name], {})>>, OK))
  BY DEF Rename4
<1>8. CASE hits = {}
  <2>1. Good(Dead, disk, bitmap, owed)
    BY <1>1, AtRest
  <2> QED
    BY <1>1, <1>7, <1>8, <2>1, Turns
<1>9. CASE hits # {}
  <2>1. s \in Slot(e, r.inum)
    BY <1>4, <1>5, <1>9, MatchFacts
  <2> DEFINE new == <<PutDir(e[r.inum].ptrs[0], [Entries(e, r.inum) EXCEPT ![s].name = name], {})>>
  <2>2. Becomes(t, Do(r, new, OK))
    BY <1>3, <1>5, <1>7, <1>9
  <2> DEFINE P == Front(Parse(r.call.path))
             n == Leaf(r.call.path)
             own == Owns(r.call)
  <2>3. /\ P \in Seq(Names) /\ n \in Names /\ r.inum = Translate(e, P)
        /\ Includes(own, Append(P, n)) /\ Includes(own, Append(P, name))
    <3>1. r.call.op \in Adding \cup Removing \cup Moving /\ r.call.op # "create"
      BY <1>1 DEF Moving
    <3> QED
      BY <1>1, <1>3, <1>4, <3>1, NameOwned
  <2>4. s \in Matches(e, r.inum, n) /\ Shadow(disk, e, m)
    <3>1. s \in Matches(e, r.inum, n)
      BY <1>5, <1>9, SlotProperty
    <3> QED
      BY <1>4, <3>1, BackedFacts
  <2>5. Sparing(new, disk, own)
    <3> HIDE DEF s, hits, r, P, n, own, name
    <3> QED
      BY <1>5, <1>6, <2>3, <2>4, RenameQueueSpares
  <2> HIDE DEF s, hits, r, name
  <2>6. Queued(new, disk, bitmap, owed, Space(r))
    BY <1>4, <1>5, <1>6, <2>1, RenameQueued
  <2> HIDE DEF new
  <2>7. OK \in Int
    BY DEF OK
  <2> QED
    BY <1>1, <2>2, <2>5, <2>6, <2>7, DecideStep DEF own
<1> QED
  BY <1>8, <1>9

\* An inode written back with other attributes.
LEMMA AttributesStep ==
    ASSUME NEW t \in Threads, StepIInv(t), NEW ops, Resolved(t, ops, "target"),
           NEW ino \in Inode, ino.type = Found.type, ino.size = Found.size, ino.ptrs = Found.ptrs,
           Becomes(t, Do(thr[t], <<Put(thr[t].inum, ino)>>, OK))
    PROVE  StepIInv(t)'
<1> DEFINE r == thr[t]
<1>1. Untouched /\ r \in ThreadType /\ r.goal = "target" /\ SaneCall(r.call)
  BY ResolvedFacts
<1>2. PICK e, m : Meets(r, e, m, Found)
  BY ResolvedFacts
<1>3. Heads(r, e, m, disk, bitmap, owed) /\ Found = e[r.inum] /\ r.rest = <<>>
  BY <1>2 DEF Meets
<1>4. /\ Backed(disk, e, m, bitmap, owed) /\ r.inum \in LiveIn(e, m) /\ Clean(disk, e, m, owed)
      /\ Shadow(disk, e, m) /\ Course(r, e, m)
  BY <1>1, <1>3, HeadsFacts
<1>5. Queued(<<Put(r.inum, ino)>>, disk, bitmap, owed, Space(r))
  BY <1>3, <1>4, AttributesQueued
<1>6. Sparing(<<Put(r.inum, ino)>>, disk, Owns(r.call))
  <2> DEFINE P == Parse(r.call.path)
             own == Owns(r.call)
  <2>1. P \in Seq(Names) /\ P \in own /\ r.inum = Translate(e, P)
    BY <1>1, <1>3, <1>4, TargetOwned
  <2> HIDE DEF P, own, r
  <2>2. Sparing(<<Put(r.inum, ino)>>, disk, own)
    BY <1>3, <1>4, <2>1, AttributesSpare
  <2> QED
    BY <2>2 DEF own
<1>7. OK \in Int
  BY DEF OK
<1> QED
  BY <1>1, <1>5, <1>6, <1>7, DecideStep

\* fs_chmod and fs_utime.
LEMMA ChmodStep ==
    ASSUME NEW t \in Threads, StepIInv(t), Chmod1(t)
    PROVE  StepIInv(t)'
<1> DEFINE ino == [Found EXCEPT !.perm = thr[t].call.perm]
<1>1. /\ Resolved(t, {"chmod"}, "target")
      /\ Becomes(t, Do(thr[t], <<Put(thr[t].inum, ino)>>, OK))
  BY DEF Chmod1
<1>2. thr[t] \in ThreadType /\ thr[t].call.op \in {"chmod"} /\ SaneCall(thr[t].call)
  BY <1>1, ResolvedFacts
<1>3. PICK e, m : Meets(thr[t], e, m, Found)
  BY <1>1, ResolvedFacts
<1>4. Found \in Inode
  BY <1>2, <1>3, HeadsFacts DEF Meets
<1>5. thr[t].call.perm \in Perms
  BY <1>2 DEF SaneCall
<1>6. ino \in Inode /\ ino.type = Found.type /\ ino.size = Found.size /\ ino.ptrs = Found.ptrs
  BY <1>4, <1>5 DEF Inode
<1> HIDE DEF ino
<1> QED
  BY <1>1, <1>6, AttributesStep

\* The second.
LEMMA UtimeStep ==
    ASSUME NEW t \in Threads, StepIInv(t), Utime1(t)
    PROVE  StepIInv(t)'
<1> DEFINE ino == [Found EXCEPT !.mtime = thr[t].call.time]
<1>1. /\ Resolved(t, {"utime"}, "target")
      /\ Becomes(t, Do(thr[t], <<Put(thr[t].inum, ino)>>, OK))
  BY DEF Utime1, ResolvedFile
<1>2. thr[t] \in ThreadType /\ thr[t].call.op \in {"utime"} /\ SaneCall(thr[t].call)
  BY <1>1, ResolvedFacts
<1>3. PICK e, m : Meets(thr[t], e, m, Found)
  BY <1>1, ResolvedFacts
<1>4. Found \in Inode
  BY <1>2, <1>3, HeadsFacts DEF Meets
<1>5. thr[t].call.time \in Times
  BY <1>2 DEF SaneCall
<1>6. ino \in Inode /\ ino.type = Found.type /\ ino.size = Found.size /\ ino.ptrs = Found.ptrs
  BY <1>4, <1>5 DEF Inode
<1> HIDE DEF ino
<1> QED
  BY <1>1, <1>6, AttributesStep

\* fs_truncate, when it has read the inode.
LEMMA TruncateStep ==
    ASSUME NEW t \in Threads, StepIInv(t), Truncate1(t)
    PROVE  StepIInv(t)'
<1> DEFINE r == thr[t]
<1>1. /\ Resolved(t, {"truncate"}, "target") /\ Found.type = "file"
      /\ Becomes(t, IF BlocksFor(r.call.len) > BlocksFor(Found.size) THEN Answer(r, EINVAL)
                    ELSE Do(r, TruncateEffects(r, Found), OK))
  BY DEF Truncate1, ResolvedFile
<1>2. /\ Untouched /\ Rests(disk, bitmap, owed) /\ r \in ThreadType /\ r.call.op \in {"truncate"} /\ r.goal = "target"
      /\ SaneCall(r.call)
  BY <1>1, ResolvedFacts
<1>3. PICK e, m : Meets(r, e, m, Found)
  BY <1>1, ResolvedFacts
<1>4. Heads(r, e, m, disk, bitmap, owed) /\ Found = e[r.inum] /\ r.rest = <<>>
  BY <1>3 DEF Meets
<1>5. /\ Backed(disk, e, m, bitmap, owed) /\ Clean(disk, e, m, owed) /\ r.inum \in LiveIn(e, m) /\ e[r.inum] \in Inode
      /\ Learnt(r, e, m) /\ Shadow(disk, e, m) /\ Course(r, e, m)
  BY <1>2, <1>4, HeadsFacts
<1>6. r.call.len \in Nat
  BY <1>2, <1>5 DEF Learnt
<1>7. BlocksFor(r.call.len) \in Nat /\ BlocksFor(Found.size) \in Nat
  BY <1>4, <1>5, <1>6, BlocksForProperty DEF Inode
<1>8. EINVAL \in Int /\ OK \in Int
  BY DEF EINVAL, OK
<1>9. CASE BlocksFor(r.call.len) > BlocksFor(Found.size)
  BY <1>1, <1>2, <1>8, <1>9, AnswerStep
<1>10. CASE BlocksFor(r.call.len) <= BlocksFor(Found.size)
  <2>1. Queued(TruncateEffects(r, e[r.inum]), disk, bitmap, owed, Space(r))
    BY <1>1, <1>4, <1>5, <1>6, <1>10, TruncateQueued
  <2>2. Becomes(t, Do(r, TruncateEffects(r, e[r.inum]), OK))
    BY <1>1, <1>4, <1>7, <1>10
  <2> DEFINE P == Parse(r.call.path)
             own == Owns(r.call)
  <2>3. P \in Seq(Names) /\ P \in own /\ r.inum = Translate(e, P)
    BY <1>2, <1>4, <1>5, TargetOwned
  <2>4. e[r.inum].type = "file" /\ BlocksFor(r.call.len) <= BlocksFor(e[r.inum].size)
    BY <1>1, <1>4, <1>10
  <2>5. Sparing(TruncateEffects(r, e[r.inum]), disk, own)
    <3> HIDE DEF P, own, r
    <3> QED
      BY <1>5, <1>6, <2>3, <2>4, TruncateSpares
  <2> QED
    BY <1>2, <1>8, <2>1, <2>2, <2>5, DecideStep
<1> QED
  BY <1>7, <1>9, <1>10

\* The pointers that fs_read goes through.
LEMMA ReadSpan ==
    ASSUME NEW size \in Nat, NEW from \in Nat, from < size, NEW len \in Nat \ {0}, BlocksFor(size) < MaxPtrs
    PROVE  LET idx == ReadIdx(size, from, len) IN
           /\ Cardinality(idx) \in Nat
           /\ \A n \in 1 .. Cardinality(idx) : Min(idx) + n - 1 \in PtrIdx
<1> DEFINE lo == from \div BlockSize
           top == (from + len - 1) \div BlockSize
           last == (size - 1) \div BlockSize
           hi == IF from + len > size THEN BlocksFor(size) ELSE top
<1>1. BlockSize \in Nat \ {0} /\ from \in Int /\ size - 1 \in Int /\ from + len - 1 \in Int
  BY LayoutAssumption
<1>2. BlocksFor(size) = last + 1
  BY LastBlock
<1>3. lo \in Int /\ top \in Int /\ last \in Int /\ lo >= 0
  <2>1. lo \in Int /\ top \in Int /\ last \in Int
    BY <1>1, Division
  <2>2. lo >= 0
    BY <1>1, LayoutAssumption
  <2> QED
    BY <2>1, <2>2
<1>4. lo <= last /\ lo <= top
  <2>1. from <= size - 1 /\ from <= from + len - 1
    BY <1>1
  <2> QED
    BY <1>1, <2>1, DivMonotone
<1>5. ~(from + len > size) => top <= last
  <2>1. SUFFICES ASSUME ~(from + len > size) PROVE top <= last
    OBVIOUS
  <2>2. from + len - 1 <= size - 1
    BY <1>1, <2>1
  <2> QED
    BY <1>1, <2>2, DivMonotone
<1>6. ReadIdx(size, from, len) = lo .. hi
  BY DEF ReadIdx
<1> HIDE DEF lo, top, last
<1>7. hi \in Int /\ lo <= hi /\ hi < MaxPtrs
  BY <1>2, <1>3, <1>4, <1>5, LayoutAssumption
<1> HIDE DEF hi
<1>8. Cardinality(lo .. hi) = hi - lo + 1
  BY <1>3, <1>7, FS_Interval
<1>9. Min(lo .. hi) = lo
  BY <1>3, <1>7 DEF Min
<1>10. \A n \in 1 .. hi - lo + 1 : lo + n - 1 \in PtrIdx
  BY <1>3, <1>7, LayoutAssumption DEF PtrIdx
<1> QED
  BY <1>3, <1>6, <1>7, <1>8, <1>9, <1>10

\* fs_read, when it has read the inode.
LEMMA ReadStep ==
    ASSUME NEW t \in Threads, StepIInv(t), Read1(t)
    PROVE  StepIInv(t)'
<1> DEFINE r == thr[t]
           from == r.call.offset
           idx == ReadIdx(Found.size, from, r.call.len)
           len == IF from + r.call.len > Found.size THEN Found.size - from ELSE r.call.len
           b == [r EXCEPT !.buf = ZeroBuffer(Cardinality(idx))]
           q == [n \in 1 .. Cardinality(idx) |-> Fetch(Found.ptrs[Min(idx) + n - 1], n)]
<1>1. /\ Resolved(t, {"read"}, "target") /\ Found.type = "file"
      /\ Becomes(t, IF from >= Found.size THEN Answer(r, 0) ELSE Do(b, q, len))
  BY DEF Read1, ResolvedFile
<1>2. Untouched /\ r \in ThreadType /\ r.call.op \in {"read"} /\ SaneCall(r.call) /\ Rests(disk, bitmap, owed)
  BY <1>1, ResolvedFacts
<1>3. PICK e, m : Meets(r, e, m, Found)
  BY <1>1, ResolvedFacts
<1>4. Heads(r, e, m, disk, bitmap, owed) /\ Found = e[r.inum]
  BY <1>3 DEF Meets
<1>5. Sound(e, m) /\ r.inum \in LiveIn(e, m) /\ Found \in Inode
  BY <1>2, <1>4, HeadsFacts
<1>6. from \in Nat /\ r.call.len \in Nat \ {0} /\ Found.size \in Nat
  BY <1>2, <1>5 DEF SaneCall, Inode
<1>7. BlocksFor(Found.size) < MaxPtrs
  BY <1>4, <1>5, PointersLeft
<1>8. CASE from >= Found.size
  BY <1>1, <1>2, <1>8, AnswerStep
<1>9. CASE from < Found.size
  <2> DEFINE c == Cardinality(idx)
             low == Min(idx)
  <2>1. c \in Nat /\ \A n \in 1 .. c : low + n - 1 \in PtrIdx
    BY <1>6, <1>7, <1>9, ReadSpan
  <2>2. \A k \in PtrIdx : Found.ptrs[k] \in Int
    BY <1>5, LayoutAssumption DEF Inode, Blocks, NoPtr
  <2>3. len \in Int
    BY <1>6
  <2>4. Becomes(t, Do(b, q, len))
    <3>1. ~ (from >= Found.size)
      BY <1>6, <1>9
    <3> HIDE DEF from, len, b, q
    <3>2. QED
      BY <1>1, <3>1
  <2> HIDE DEF c, low
  <2>5. q = [n \in 1 .. c |-> Fetch(Found.ptrs[low + n - 1], n)] /\ b = [r EXCEPT !.buf = ZeroBuffer(c)]
    BY DEF c, low
  <2>6. \A n \in 1 .. c : /\ Fetch(Found.ptrs[low + n - 1], n) \in Jobs
                          /\ Fetch(Found.ptrs[low + n - 1], n).do = "fetch"
    BY <2>1, <2>2, JobKinds
  <2> HIDE DEF idx, len, b, q
  <2>7. q \in Seq(Jobs) /\ Len(q) = c /\ \A n \in 1 .. c : q[n] = Fetch(Found.ptrs[low + n - 1], n)
    BY <2>1, <2>5, <2>6
  <2>8. \A k \in 1 .. Len(q) : q[k].do = "fetch"
    BY <2>6, <2>7
  <2>9. b \in ThreadType
    BY <1>2, <2>1, <2>5, ZeroBufferType, BufferType
  <2>10. Queued(q, disk, bitmap, owed, Space(b))
    BY <1>2, <2>7, <2>8, ReadsQueued
  <2>11. Sparing(q, disk, Owns(b.call))
    <3>1. Still(q)
      BY <2>8 DEF Still
    <3> QED
      BY <1>2, <3>1, RestsHeld, HeldSpares
  <2> QED
    BY <1>2, <2>3, <2>4, <2>9, <2>10, <2>11, DecideStep
<1> QED
  BY <1>6, <1>8, <1>9

\* fs_write, when it has read the inode.
LEMMA WriteStep ==
    ASSUME NEW t \in Threads, StepIInv(t), Write1(t), Counted, ~stops'.astray
    PROVE  StepIInv(t)'
<1> DEFINE r == thr[t]
           need == BlocksNeeded(Found.size, r.call.offset, r.call.len)
           count == Cardinality(WriteIdx(r.call.offset, r.call.len))
           b == [r EXCEPT !.buf = ZeroBuffer(count)]
<1>1. /\ Arrives(t, {"write"}, "target") /\ Found.type = "file"
      /\ \/ Becomes(t, Answer(r, EINVAL))
         \/ Becomes(t, Answer(r, ENOSPC))
         \/ /\ ~(r.call.offset > Found.size)
            /\ \E fresh \in FirstFree(bitmap, need) :
                  HandsOut(fresh) /\ Becomes(t, Do(b, WriteEffects(r, Found, fresh), r.call.len))
  BY DEF Write1
<1>2. Untouched /\ Rests(disk, bitmap, owed) /\ r \in ThreadType /\ r.call.op \in {"write"} /\ SaneCall(r.call)
      /\ r.goal = "target"
  BY <1>1, ResolvedFacts
<1>3. PICK e, m : Meets(r, e, m, Found)
  BY <1>1, ResolvedFacts
<1>4. Heads(r, e, m, disk, bitmap, owed) /\ Found = e[r.inum] /\ r.rest = <<>>
  BY <1>3 DEF Meets
<1>5. /\ Backed(disk, e, m, bitmap, owed) /\ Clean(disk, e, m, owed) /\ r.inum \in LiveIn(e, m) /\ Found \in Inode
      /\ Shadow(disk, e, m) /\ Course(r, e, m) /\ m \subseteq bitmap \cup owed
  BY <1>2, <1>4, HeadsFacts
<1>6. r.call.offset \in Nat /\ r.call.len \in Nat \ {0} /\ r.call.now \in Times /\ Found.size \in Nat
  BY <1>2, <1>5 DEF SaneCall, Inode
<1>7. EINVAL \in Int /\ ENOSPC \in Int /\ r.call.len \in Int
  BY <1>6 DEF EINVAL, ENOSPC
<1>8. CASE Becomes(t, Answer(r, EINVAL)) \/ Becomes(t, Answer(r, ENOSPC))
  BY <1>2, <1>7, <1>8, AnswerStep
<1>9. ASSUME ~(r.call.offset > Found.size), NEW fresh \in FirstFree(bitmap, need),
             HandsOut(fresh), Becomes(t, Do(b, WriteEffects(r, Found, fresh), r.call.len))
      PROVE  StepIInv(t)'
  <2>1. r.call.offset <= e[r.inum].size
    BY <1>4, <1>6, <1>9
  <2>2. count \in Nat
    BY <1>6, WriteSpan
  <2>3. b \in ThreadType /\ Space(b) = count /\ b.call = r.call
    <3>1. b \in ThreadType /\ b.buf = ZeroBuffer(count) /\ b.call = r.call /\ Len(ZeroBuffer(count)) = count
      BY <1>2, <2>2, ZeroBufferType, BufferType
    <3> HIDE DEF b, count
    <3> QED
      BY <1>2, <3>1 DEF Space
  <2>4. bitmap \in SUBSET Blocks
    BY DEF StepIInv
  <2>5. fresh \in FirstFree(bitmap, BlocksNeeded(e[r.inum].size, r.call.offset, r.call.len))
    BY <1>4, <1>9
  <2>6. e[r.inum].type = "file" /\ Range(fresh) \cap owed = {}
    BY <1>1, <1>4, <1>9, OwesNone
  <2> HIDE DEF b
  <2>7. Queued(WriteEffects(r, e[r.inum], fresh), disk, bitmap, owed, count)
    BY <1>5, <1>6, <2>1, <2>4, <2>5, <2>6, WriteQueued
  <2>8. Queued(WriteEffects(r, Found, fresh), disk, bitmap, owed, Space(b))
    BY <1>4, <2>3, <2>7
  <2> DEFINE P == Parse(r.call.path)
             own == Owns(r.call)
  <2>9. P \in Seq(Names) /\ P \in own /\ r.inum = Translate(e, P)
    BY <1>2, <1>4, <1>5, TargetOwned
  <2>10. Sparing(WriteEffects(r, e[r.inum], fresh), disk, own)
    <3> HIDE DEF P, own, r
    <3> QED
      BY <1>5, <1>6, <2>1, <2>4, <2>5, <2>6, <2>9, WriteSpares
  <2>11. Sparing(WriteEffects(r, Found, fresh), disk, Owns(b.call))
    BY <1>4, <2>3, <2>10
  <2> QED
    BY <1>2, <1>7, <1>9, <2>3, <2>8, <2>11, DecideStep
<1> QED
  BY <1>1, <1>8, <1>9

-----------------------------------------------------------------------------
(* The steps that work off a queue                                         *)

\* A thread that has a job to do.
LEMMA QueueFacts ==
    ASSUME NEW t \in Threads, StepIInv(t), NEW what, ToDo(t, what)
    PROVE  LET r == thr[t]  job == Following(t) IN
           /\ r \in ThreadType /\ r.at = "todo" /\ r.todo \in Seq(Jobs) /\ r.todo # <<>>
           /\ job = Head(r.todo) /\ job \in Jobs /\ job.do \in what
           /\ Planned(r.todo, disk, bitmap, owed, Space(r)) /\ Loaded(r.todo, r.seen.bitmap, bitmap)
           /\ Sparing(r.todo, disk, Owns(r.call)) /\ SaneCall(r.call)
           /\ Held(disk, bitmap, owed) /\ thr \in [Threads -> ThreadType]
           /\ bitmap \in SUBSET Blocks /\ owed \in SUBSET Blocks /\ CountersOK /\ offset \in Nat
<1> DEFINE r == thr[t]
<1>1. /\ r \in ThreadType /\ r.at = "todo" /\ r.todo \in Seq(Jobs) /\ r.todo # <<>>
      /\ Following(t) = Head(r.todo) /\ Following(t).do \in what
  BY DEF StepIInv, ToDo, Following, ThreadType
<1>2. Head(r.todo) \in Jobs
  BY <1>1, QueueTail
<1>3. /\ Planned(r.todo, disk, bitmap, owed, Space(r)) /\ Loaded(r.todo, r.seen.bitmap, bitmap)
      /\ Held(disk, bitmap, owed) /\ Sparing(r.todo, disk, Owns(r.call))
  BY <1>1 DEF StepIInv, Phase
<1>4. SaneCall(r.call)
  <2>1. r.call \in Served
    BY <1>1 DEF ThreadType
  <2> QED
    BY <2>1, ServedSane
<1> QED
  BY <1>1, <1>2, <1>3, <1>4 DEF StepIInv

\* What it is when the job is done.
LEMMA RestFacts ==
    ASSUME NEW t \in Threads, thr[t] \in ThreadType, thr[t].todo # <<>>
    PROVE  LET w == Rest(t) IN
           /\ w \in ThreadType /\ w.at = thr[t].at /\ w.todo = Tail(thr[t].todo)
           /\ w.seen = thr[t].seen /\ w.buf = thr[t].buf /\ w.call = thr[t].call /\ Space(w) = Space(thr[t])
<1> DEFINE tail == Tail(thr[t].todo)
<1>1. tail \in Seq(Jobs)
  BY QueueTail DEF ThreadType
<1>2. Rest(t) = [thr[t] EXCEPT !.todo = tail]
  BY DEF Rest
<1> HIDE DEF tail
<1>3. /\ Rest(t) \in ThreadType /\ Rest(t).at = thr[t].at /\ Rest(t).todo = tail
      /\ Rest(t).seen = thr[t].seen /\ Rest(t).buf = thr[t].buf /\ Rest(t).call = thr[t].call
  BY <1>1, <1>2 DEF ThreadType
<1> QED
  BY <1>3 DEF Space, tail

\* It goes on with its plan.
LEMMA Proceeds ==
    ASSUME NEW t \in Threads, thr \in [Threads -> ThreadType], NEW w \in ThreadType, w.at = "todo",
           Planned(w.todo, disk', bitmap', owed', Space(w)), Loaded(w.todo, w.seen.bitmap, bitmap'),
           Sparing(w.todo, disk', Owns(w.call)),
           Becomes(t, w), offset' \in Nat, bitmap' \in SUBSET Blocks, owed' \in SUBSET Blocks, CountersOK'
    PROVE  StepIInv(t)'
<1>1. Held(disk', bitmap', owed')
  BY PlannedHeld
<1>2. Good(w, disk', bitmap', owed')
  BY <1>1 DEF Good, Phase
<1> QED
  BY <1>2, Moves

\* An inode or a directory is written.
LEMMA PutStep ==
    ASSUME NEW t \in Threads, StepIInv(t), PutNext(t)
    PROVE  StepIInv(t)' /\ Spares(disk, disk', Owns(thr[t].call))
<1> DEFINE r == thr[t]
           job == Following(t)
           w == Rest(t)
<1>1. ToDo(t, {"put"}) /\ WriteBlock(t, job.content) /\ owed' = owed \cup job.links /\ Becomes(t, w)
  BY DEF PutNext
<1>2. /\ r \in ThreadType /\ r.at = "todo" /\ r.todo \in Seq(Jobs) /\ r.todo # <<>>
      /\ job = Head(r.todo) /\ job \in Jobs /\ job.do \in {"put"}
      /\ Planned(r.todo, disk, bitmap, owed, Space(r)) /\ Loaded(r.todo, r.seen.bitmap, bitmap)
      /\ Sparing(r.todo, disk, Owns(r.call)) /\ SaneCall(r.call)
      /\ thr \in [Threads -> ThreadType]
      /\ bitmap \in SUBSET Blocks /\ owed \in SUBSET Blocks /\ CountersOK
  BY <1>1, QueueFacts
<1>3. /\ disk' = [disk EXCEPT ![job.lba] = job.content] /\ offset' \in Nat
      /\ bitmap' = bitmap /\ statVfs' = statVfs
  BY <1>1, WriteFacts
<1>4. /\ w \in ThreadType /\ w.at = "todo" /\ w.todo = Tail(r.todo)
      /\ w.seen = r.seen /\ Space(w) = Space(r) /\ w.call = r.call
  BY <1>2, RestFacts
<1>5. disk' = Written(disk, Head(r.todo)) /\ Head(r.todo).do = "put" /\ owed' = owed \cup Head(r.todo).links
  BY <1>1, <1>2, <1>3 DEF Written
<1>6. Planned(w.todo, disk', bitmap', owed', Space(w))
  <2>1. Planned(Tail(r.todo), Written(disk, Head(r.todo)), bitmap, owed \cup Head(r.todo).links, Space(r))
    BY <1>2, PutPlanned
  <2> QED
    BY <1>3, <1>4, <1>5, <2>1
<1>7. Loaded(w.todo, w.seen.bitmap, bitmap')
  BY <1>2, <1>3, <1>4, <1>5, LoadedTail
<1>8. owed' \in SUBSET Blocks
  BY <1>1, <1>2 DEF Jobs
<1>9. CountersOK' /\ bitmap' \in SUBSET Blocks
  BY <1>2, <1>3 DEF CountersOK
<1>10. Spares(disk, disk', Owns(r.call)) /\ Sparing(w.todo, disk', Owns(w.call))
  BY <1>2, <1>4, <1>5, SparedPut
<1>11. StepIInv(t)'
  BY <1>1, <1>2, <1>3, <1>4, <1>6, <1>7, <1>8, <1>9, <1>10, Proceeds
<1> QED
  BY <1>10, <1>11

\* The bitmap is written.
LEMMA SaveStep ==
    ASSUME NEW t \in Threads, StepIInv(t), SaveNext(t)
    PROVE  StepIInv(t)' /\ Spares(disk, disk', Owns(thr[t].call))
<1> DEFINE r == thr[t]
           job == Following(t)
           w == Rest(t)
<1>1. /\ ToDo(t, {"save"}) /\ WriteBlock(t, [kind |-> "bitmap", used |-> bitmap])
      /\ owed' = owed \ bitmap /\ Becomes(t, w)
  BY DEF SaveNext
<1>2. /\ r \in ThreadType /\ r.at = "todo" /\ r.todo \in Seq(Jobs) /\ r.todo # <<>>
      /\ job = Head(r.todo) /\ job \in Jobs /\ job.do \in {"save"}
      /\ Planned(r.todo, disk, bitmap, owed, Space(r)) /\ Loaded(r.todo, r.seen.bitmap, bitmap)
      /\ Sparing(r.todo, disk, Owns(r.call)) /\ SaneCall(r.call)
      /\ thr \in [Threads -> ThreadType]
      /\ bitmap \in SUBSET Blocks /\ owed \in SUBSET Blocks /\ CountersOK
  BY <1>1, QueueFacts
<1>3. /\ disk' = [disk EXCEPT ![job.lba] = [kind |-> "bitmap", used |-> bitmap]] /\ offset' \in Nat
      /\ bitmap' = bitmap /\ statVfs' = statVfs
  BY <1>1, WriteFacts
<1>4. /\ w \in ThreadType /\ w.at = "todo" /\ w.todo = Tail(r.todo)
      /\ w.seen = r.seen /\ Space(w) = Space(r) /\ w.call = r.call
  BY <1>2, RestFacts
<1>5. job.lba = BitmapBlock
  BY <1>2 DEF Jobs
<1>6. disk' = Saved(disk, bitmap) /\ Head(r.todo).do = "save" /\ Head(r.todo).do # "load"
  BY <1>2, <1>3, <1>5 DEF Saved
<1>7. Planned(w.todo, disk', bitmap', owed', Space(w))
  <2>1. Planned(Tail(r.todo), Saved(disk, bitmap), bitmap, owed \ bitmap, Space(r))
    BY <1>2, SavePlanned
  <2> QED
    BY <1>1, <1>3, <1>4, <1>6, <2>1
<1>8. Loaded(w.todo, w.seen.bitmap, bitmap')
  BY <1>2, <1>3, <1>4, <1>6, LoadedTail
<1>9. owed' \in SUBSET Blocks
  BY <1>1, <1>2
<1>10. CountersOK' /\ bitmap' \in SUBSET Blocks
  BY <1>2, <1>3 DEF CountersOK
<1>11. Spares(disk, disk', Owns(r.call)) /\ Sparing(w.todo, disk', Owns(w.call))
  BY <1>2, <1>4, <1>6, SparedSave
<1>12. StepIInv(t)'
  BY <1>1, <1>2, <1>3, <1>4, <1>7, <1>8, <1>9, <1>10, <1>11, Proceeds
<1> QED
  BY <1>11, <1>12

\* A block of a file is written.
LEMMA StoreStep ==
    ASSUME NEW t \in Threads, StepIInv(t), StoreNext(t)
    PROVE  StepIInv(t)' /\ Spares(disk, disk', Owns(thr[t].call))
<1> DEFINE r == thr[t]
           job == Following(t)
           w == Rest(t)
           first == r.call.offset \div BlockSize + job.slot - 1
           ours(o) == first * BlockSize + o \in r.call.offset .. r.call.offset + r.call.len - 1
           bytes == [o \in Offs |-> IF ours(o) THEN r.call.byte ELSE r.buf[job.slot][o]]
           c == [kind |-> "data", bytes |-> bytes]
<1>1. /\ ToDo(t, {"store"}) /\ WriteBlock(t, c) /\ owed' = owed /\ Becomes(t, w)
  BY DEF StoreNext
<1>2. /\ r \in ThreadType /\ r.at = "todo" /\ r.todo \in Seq(Jobs) /\ r.todo # <<>>
      /\ job = Head(r.todo) /\ job \in Jobs /\ job.do \in {"store"}
      /\ Planned(r.todo, disk, bitmap, owed, Space(r)) /\ Loaded(r.todo, r.seen.bitmap, bitmap)
      /\ Sparing(r.todo, disk, Owns(r.call)) /\ SaneCall(r.call)
      /\ thr \in [Threads -> ThreadType]
      /\ bitmap \in SUBSET Blocks /\ owed \in SUBSET Blocks /\ CountersOK
  BY <1>1, QueueFacts
<1>3. ZeroBlock \in Content /\ ZeroBlock.kind # "dir"
  BY DEF ZeroBlock, Content, DataBlock, Byte
<1>4. job.slot \in 1 .. Space(r)
  BY <1>2, <1>3, StorePlanned
<1>5. r.call.op = "write" /\ job.slot \in 1 .. Len(r.buf)
  BY <1>4 DEF Space
<1>6. r.call.byte \in Bytes
  BY <1>2, <1>5, ServedSane DEF SaneCall, ThreadType
<1>7. c \in Content /\ c.kind # "dir"
  <2>1. r.buf[job.slot] \in [Offs -> Byte]
    BY <1>2, <1>5 DEF ThreadType
  <2>2. \A o \in Offs : (IF ours(o) THEN r.call.byte ELSE r.buf[job.slot][o]) \in Byte
    BY <1>6, <2>1 DEF Byte
  <2>3. bytes \in [Offs -> Byte]
    BY <2>2
  <2> HIDE DEF bytes
  <2> QED
    BY <2>3 DEF Content, DataBlock
<1> HIDE DEF c
<1>8. /\ disk' = [disk EXCEPT ![job.lba] = c] /\ offset' \in Nat
      /\ bitmap' = bitmap /\ statVfs' = statVfs
  BY <1>1, WriteFacts
<1>9. /\ w \in ThreadType /\ w.at = "todo" /\ w.todo = Tail(r.todo)
      /\ w.seen = r.seen /\ Space(w) = Space(r) /\ w.call = r.call
  BY <1>2, RestFacts
<1>10. disk' = [disk EXCEPT ![Head(r.todo).lba] = c] /\ Head(r.todo).do = "store" /\ Head(r.todo).do # "load"
  BY <1>2, <1>8
<1>11. Planned(w.todo, disk', bitmap', owed', Space(w))
  <2>1. Planned(Tail(r.todo), [disk EXCEPT ![Head(r.todo).lba] = c], bitmap, owed, Space(r))
    BY <1>2, <1>7, StorePlanned
  <2> QED
    BY <1>1, <1>8, <1>9, <1>10, <2>1
<1>12. Loaded(w.todo, w.seen.bitmap, bitmap')
  BY <1>2, <1>8, <1>9, <1>10, LoadedTail
<1>13. CountersOK' /\ bitmap' \in SUBSET Blocks /\ owed' \in SUBSET Blocks
  BY <1>1, <1>2, <1>8 DEF CountersOK
<1>14. Spares(disk, disk', Owns(r.call)) /\ Sparing(w.todo, disk', Owns(w.call))
  <2> DEFINE own == Owns(r.call)
  <2>1. own # {} /\ own \subseteq Seq(Names)
    BY <1>2, OwnsFacts
  <2>2. Sparing(r.todo, disk, own)
    BY <1>2
  <2> HIDE DEF own
  <2>3. LET f == [disk EXCEPT ![Head(r.todo).lba] = c] IN Spares(disk, f, own) /\ Sparing(Tail(r.todo), f, own)
    BY <1>2, <1>7, <1>10, <2>1, <2>2, SparedStore
  <2> QED
    BY <1>9, <1>10, <2>3 DEF own
<1>15. StepIInv(t)'
  BY <1>1, <1>2, <1>8, <1>9, <1>11, <1>12, <1>13, <1>14, Proceeds
<1> QED
  BY <1>14, <1>15

\* A block is read into the buffer.
LEMMA FetchStep ==
    ASSUME NEW t \in Threads, StepIInv(t), FetchNext(t)
    PROVE  StepIInv(t)'
<1> DEFINE r == thr[t]
           job == Following(t)
           x == RawBytes(Device!Here)
           y == [r.buf EXCEPT ![job.slot] = x]
           w == [Rest(t) EXCEPT !.buf = y]
<1>1. ToDo(t, {"fetch"}) /\ ReadBlock(t) /\ Becomes(t, [Rest(t) EXCEPT !.buf[job.slot] = x])
  BY DEF FetchNext
<1>2. /\ r \in ThreadType /\ r.at = "todo" /\ r.todo \in Seq(Jobs) /\ r.todo # <<>>
      /\ job = Head(r.todo) /\ job \in Jobs /\ job.do \in {"fetch"}
      /\ Planned(r.todo, disk, bitmap, owed, Space(r)) /\ Loaded(r.todo, r.seen.bitmap, bitmap)
      /\ Sparing(r.todo, disk, Owns(r.call)) /\ SaneCall(r.call)
      /\ Held(disk, bitmap, owed) /\ thr \in [Threads -> ThreadType]
      /\ bitmap \in SUBSET Blocks /\ owed \in SUBSET Blocks /\ CountersOK
  BY <1>1, QueueFacts
<1>3. Untouched /\ offset = Lba(t) /\ offset \in Blocks /\ Device!Here = disk[Lba(t)]
  BY <1>1, ReadFacts
<1>4. /\ Rest(t) \in ThreadType /\ Rest(t).at = "todo" /\ Rest(t).todo = Tail(r.todo)
      /\ Rest(t).seen = r.seen /\ Rest(t).buf = r.buf /\ Rest(t).call = r.call
  BY <1>2, RestFacts
<1>5. x \in [Offs -> Byte]
  <2>1. disk \in [Blocks -> Content]
    BY <1>2, BackedFacts DEF Held
  <2>2. Device!Here \in Content
    BY <1>3, <2>1
  <2>3. Device!Here.kind = "data" => Device!Here \in DataBlock
    BY <2>2, ContentKinds
  <2> QED
    BY <2>3 DEF RawBytes, DataBlock, Byte
<1>6. [Rest(t) EXCEPT !.buf[job.slot] = x] = w
  BY <1>4
<1> HIDE DEF x
<1>7. y \in Seq([Offs -> Byte]) /\ Len(y) = Len(r.buf)
  <2>1. r.buf \in Seq([Offs -> Byte])
    BY <1>2 DEF ThreadType
  <2> DEFINE n == Len(r.buf)
  <2>2. r.buf \in [1 .. n -> [Offs -> Byte]] /\ n \in Nat
    BY <2>1
  <2> HIDE DEF n
  <2>3. y \in [1 .. n -> [Offs -> Byte]]
    BY <1>5, <2>2
  <2> HIDE DEF y
  <2>4. y \in Seq([Offs -> Byte]) /\ Len(y) = n
    BY <2>2, <2>3
  <2> QED
    BY <2>4 DEF n
<1> HIDE DEF y
<1>8. w \in ThreadType /\ w.at = "todo" /\ w.todo = Tail(r.todo) /\ w.seen = r.seen /\ w.call = r.call /\ w.buf = y
  BY <1>4, <1>7 DEF ThreadType
<1> HIDE DEF w
<1>9. Space(w) = Space(r)
  BY <1>7, <1>8 DEF Space
<1>10. Head(r.todo).do \in {"load", "fetch", "count"} /\ Head(r.todo).do # "load"
  BY <1>2
<1>11. Planned(w.todo, disk, bitmap, owed, Space(w))
  BY <1>2, <1>8, <1>9, <1>10, IdlePlanned
<1>12. Loaded(w.todo, w.seen.bitmap, bitmap)
  BY <1>2, <1>8, <1>10, LoadedTail
<1>13. Sparing(w.todo, disk, Owns(w.call))
  <2>1. Head(r.todo).do \in {"load", "fetch", "count", "bits"}
    BY <1>10
  <2> QED
    BY <1>2, <1>8, <2>1, SparedIdle
<1>14. Good(w, disk, bitmap, owed)
  BY <1>2, <1>8, <1>11, <1>12, <1>13 DEF Good, Phase
<1> QED
  BY <1>1, <1>3, <1>6, <1>14, Turns

\* The globals are read.
LEMMA LoadStep ==
    ASSUME NEW t \in Threads, StepIInv(t), LoadNext(t)
    PROVE  StepIInv(t)'
<1> DEFINE r == thr[t]
           now == [bitmap |-> bitmap, statVfs |-> statVfs]
           w == [Rest(t) EXCEPT !.seen = now]
<1>1. /\ ToDo(t, {"load"}) /\ Becomes(t, w)
      /\ disk' = disk /\ bitmap' = bitmap /\ owed' = owed /\ statVfs' = statVfs /\ offset' = offset
  BY DEF LoadNext
<1>2. /\ r \in ThreadType /\ r.at = "todo" /\ r.todo \in Seq(Jobs) /\ r.todo # <<>>
      /\ Following(t) = Head(r.todo) /\ Following(t).do \in {"load"}
      /\ Planned(r.todo, disk, bitmap, owed, Space(r)) /\ Loaded(r.todo, r.seen.bitmap, bitmap)
      /\ Sparing(r.todo, disk, Owns(r.call)) /\ SaneCall(r.call)
      /\ Held(disk, bitmap, owed) /\ bitmap \in SUBSET Blocks /\ CountersOK /\ offset \in Nat
  BY <1>1, QueueFacts
<1>3. /\ Rest(t) \in ThreadType /\ Rest(t).at = "todo" /\ Rest(t).todo = Tail(r.todo)
      /\ Rest(t).buf = r.buf /\ Rest(t).call = r.call
  BY <1>2, RestFacts
<1>4. now \in [bitmap : SUBSET Blocks, statVfs : [f_bfree : Int, f_bavail : Int]] /\ now.bitmap = bitmap
  BY <1>2 DEF CountersOK
<1> HIDE DEF now
<1>5. /\ w \in ThreadType /\ w.at = "todo" /\ w.todo = Tail(r.todo) /\ w.seen = now
      /\ w.call = r.call /\ w.buf = r.buf
  BY <1>3, <1>4 DEF ThreadType
<1> HIDE DEF w
<1>6. Space(w) = Space(r)
  BY <1>5 DEF Space
<1>7. Head(r.todo).do \in {"load", "fetch", "count"}
  BY <1>2
<1>8. Planned(w.todo, disk, bitmap, owed, Space(w))
  BY <1>2, <1>5, <1>6, <1>7, IdlePlanned
<1>9. Loaded(w.todo, w.seen.bitmap, bitmap)
  <2>1. Loaded(Tail(r.todo), bitmap, bitmap)
    BY <1>2, LoadedTail
  <2> QED
    BY <1>4, <1>5, <2>1
<1>10. Sparing(w.todo, disk, Owns(w.call))
  <2>1. Head(r.todo).do \in {"load", "fetch", "count", "bits"}
    BY <1>7
  <2> QED
    BY <1>2, <1>5, <2>1, SparedIdle
<1>11. Good(w, disk, bitmap, owed)
  BY <1>2, <1>5, <1>8, <1>9, <1>10 DEF Good, Phase
<1>12. Untouched
  BY <1>1, <1>2 DEF Untouched
<1> QED
  BY <1>1, <1>11, <1>12, Turns

\* What was read of them is forgotten.
LEMMA ForgetType ==
    ASSUME NEW r \in ThreadType
    PROVE  LET w == [r EXCEPT !.seen = Idle.seen] IN
           /\ w \in ThreadType /\ w.at = r.at /\ w.todo = r.todo /\ w.call = r.call /\ w.buf = r.buf
           /\ Space(w) = Space(r)
<1> DEFINE x == Idle.seen
           w == [r EXCEPT !.seen = x]
<1>1. x \in [bitmap : SUBSET Blocks, statVfs : [f_bfree : Int, f_bavail : Int]]
  BY IdleType DEF ThreadType
<1> HIDE DEF x
<1>2. w \in ThreadType /\ w.at = r.at /\ w.todo = r.todo /\ w.call = r.call /\ w.buf = r.buf
  BY <1>1 DEF ThreadType
<1> QED
  BY <1>2 DEF Space, x

\* The bitmap in memory is changed, from what it was a moment ago.
LEMMA BitsStep ==
    ASSUME NEW t \in Threads, StepIInv(t), BitsNext(t)
    PROVE  StepIInv(t)'
<1> DEFINE r == thr[t]
           job == Following(t)
           w == [Rest(t) EXCEPT !.seen = Idle.seen]
<1>1. /\ ToDo(t, {"bits"}) /\ Becomes(t, w)
      /\ bitmap' = IF job.flag THEN r.seen.bitmap \cup job.blocks ELSE r.seen.bitmap \ job.blocks
      /\ owed' = IF job.flag THEN owed ELSE owed \ job.blocks
      /\ disk' = disk /\ statVfs' = statVfs /\ offset' = offset
  BY DEF BitsNext
<1>2. /\ r \in ThreadType /\ r.at = "todo" /\ r.todo \in Seq(Jobs) /\ r.todo # <<>>
      /\ job = Head(r.todo) /\ job \in Jobs /\ job.do \in {"bits"}
      /\ Planned(r.todo, disk, bitmap, owed, Space(r)) /\ Loaded(r.todo, r.seen.bitmap, bitmap)
      /\ Sparing(r.todo, disk, Owns(r.call)) /\ SaneCall(r.call)
      /\ thr \in [Threads -> ThreadType]
      /\ bitmap \in SUBSET Blocks /\ owed \in SUBSET Blocks /\ CountersOK /\ offset \in Nat
  BY <1>1, QueueFacts
<1>3. /\ Rest(t) \in ThreadType /\ Rest(t).at = "todo" /\ Rest(t).todo = Tail(r.todo) /\ Space(Rest(t)) = Space(r)
      /\ Rest(t).call = r.call
  BY <1>2, RestFacts
<1>4. w \in ThreadType /\ w.at = "todo" /\ w.todo = Tail(r.todo) /\ Space(w) = Space(r) /\ w.call = r.call
  BY <1>3, ForgetType
<1> HIDE DEF w
<1>5. r.seen.bitmap = bitmap
  <2>1. 1 \in 1 .. Len(r.todo) /\ r.todo[1] = Head(r.todo)
    BY <1>2, QueueTail
  <2> QED
    BY <1>2, <2>1 DEF Loaded
<1>6. job.flag \in BOOLEAN /\ job.blocks \in SUBSET Blocks
  BY <1>2 DEF Jobs
<1>7. bitmap' = IF Head(r.todo).flag THEN bitmap \cup Head(r.todo).blocks ELSE bitmap \ Head(r.todo).blocks
  BY <1>1, <1>2, <1>5
<1>8. Head(r.todo).do = "bits" /\ Head(r.todo).do # "load" /\ Head(r.todo).flag \in BOOLEAN
  BY <1>2, <1>6
<1>9. Planned(w.todo, disk', bitmap', owed', Space(w))
  <2>1. IF Head(r.todo).flag THEN Planned(Tail(r.todo), disk, bitmap \cup Head(r.todo).blocks, owed, Space(r))
        ELSE Planned(Tail(r.todo), disk, bitmap \ Head(r.todo).blocks, owed \ Head(r.todo).blocks, Space(r))
    BY <1>2, <1>8, BitsPlanned
  <2>2. owed' = IF Head(r.todo).flag THEN owed ELSE owed \ Head(r.todo).blocks
    BY <1>1, <1>2
  <2>3. CASE Head(r.todo).flag
    BY <1>1, <1>4, <1>7, <2>1, <2>2, <2>3
  <2>4. CASE ~Head(r.todo).flag
    BY <1>1, <1>4, <1>7, <2>1, <2>2, <2>4
  <2> QED
    BY <2>3, <2>4
<1>10. Loaded(w.todo, w.seen.bitmap, bitmap')
  BY <1>2, <1>4, <1>8, LoadedTail
<1>11. bitmap' \in SUBSET Blocks
  BY <1>1, <1>2, <1>5, <1>6
<1>12. CountersOK' /\ offset' \in Nat /\ owed' \in SUBSET Blocks
  BY <1>1, <1>2 DEF CountersOK
<1>13. Sparing(w.todo, disk', Owns(w.call))
  <2>1. Head(r.todo).do \in {"load", "fetch", "count", "bits"}
    BY <1>8
  <2> QED
    BY <1>1, <1>2, <1>4, <2>1, SparedIdle
<1> QED
  BY <1>1, <1>2, <1>4, <1>9, <1>10, <1>11, <1>12, <1>13, Proceeds

\* The counters are changed.
LEMMA CountStep ==
    ASSUME NEW t \in Threads, StepIInv(t), CountNext(t)
    PROVE  StepIInv(t)'
<1> DEFINE r == thr[t]
           job == Following(t)
           w == [Rest(t) EXCEPT !.seen = Idle.seen]
           old == r.seen.statVfs
<1>1. /\ ToDo(t, {"count"}) /\ Becomes(t, w)
      /\ statVfs' = [f_bfree |-> old.f_bfree + job.n, f_bavail |-> old.f_bavail + job.n]
      /\ disk' = disk /\ bitmap' = bitmap /\ owed' = owed /\ offset' = offset
  BY DEF CountNext
<1>2. /\ r \in ThreadType /\ r.at = "todo" /\ r.todo \in Seq(Jobs) /\ r.todo # <<>>
      /\ job = Head(r.todo) /\ job \in Jobs /\ job.do \in {"count"}
      /\ Planned(r.todo, disk, bitmap, owed, Space(r)) /\ Loaded(r.todo, r.seen.bitmap, bitmap)
      /\ Sparing(r.todo, disk, Owns(r.call)) /\ SaneCall(r.call)
      /\ thr \in [Threads -> ThreadType]
      /\ bitmap \in SUBSET Blocks /\ owed \in SUBSET Blocks /\ offset \in Nat
  BY <1>1, QueueFacts
<1>3. /\ Rest(t) \in ThreadType /\ Rest(t).at = "todo" /\ Rest(t).todo = Tail(r.todo) /\ Space(Rest(t)) = Space(r)
      /\ Rest(t).call = r.call
  BY <1>2, RestFacts
<1>4. w \in ThreadType /\ w.at = "todo" /\ w.todo = Tail(r.todo) /\ Space(w) = Space(r) /\ w.call = r.call
  BY <1>3, ForgetType
<1> HIDE DEF w
<1>5. Head(r.todo).do \in {"load", "fetch", "count"} /\ Head(r.todo).do # "load"
  BY <1>2
<1>6. Planned(w.todo, disk', bitmap', owed', Space(w))
  BY <1>1, <1>2, <1>4, <1>5, IdlePlanned
<1>7. Loaded(w.todo, w.seen.bitmap, bitmap')
  BY <1>2, <1>4, <1>5, LoadedTail
<1>8. CountersOK'
  <2>1. job.n \in Int
    BY <1>2 DEF Jobs
  <2>2. old.f_bfree \in Int /\ old.f_bavail \in Int
    BY <1>2 DEF ThreadType
  <2> QED
    BY <1>1, <2>1, <2>2 DEF CountersOK
<1>9. Sparing(w.todo, disk', Owns(w.call))
  <2>1. Head(r.todo).do \in {"load", "fetch", "count", "bits"}
    BY <1>5
  <2> QED
    BY <1>1, <1>2, <1>4, <2>1, SparedIdle
<1> QED
  BY <1>1, <1>2, <1>4, <1>6, <1>7, <1>8, <1>9, Proceeds

\* The call returns.
LEMMA ReturnStep ==
    ASSUME NEW t \in Threads, StepIInv(t), Return(t)
    PROVE  StepIInv(t)'
<1>1. /\ Becomes(t, Idle)
      /\ disk' = disk /\ bitmap' = bitmap /\ owed' = owed /\ statVfs' = statVfs /\ offset' = offset
  BY DEF Return
<1>2. Rests(disk, bitmap, owed)
  BY PlannedRests DEF StepIInv, Phase, Return
<1>3. Good(Idle, disk, bitmap, owed)
  BY <1>2, AtRest
<1>4. Untouched
  BY <1>1 DEF Untouched, StepIInv
<1> QED
  BY <1>1, <1>3, <1>4, Turns

-----------------------------------------------------------------------------
(* Calls begin, the process ends and is started again                      *)

\* What a thread is at that has taken a call.
LEMMA StartGood ==
    ASSUME NEW c \in Requests, NEW d, NEW bm, NEW ow, Rests(d, bm, ow)
    PROVE  Good(Start(c), d, bm, ow) /\ Start(c).sought = 0
<1> DEFINE r == [Idle EXCEPT !.call = c]
           p == Parse(c.path)
<1>1. r \in ThreadType /\ r.call = c /\ r.sought = 0
  BY IdleType DEF ThreadType, Served
<1>2. SaneCall(c)
  BY ServedSane DEF Served
<1>3. PICK e, m : Backed(d, e, m, bm, ow) /\ Clean(d, e, m, ow)
  BY DEF Rests
<1>4. p \in Seq(Names) /\ (c.op \in Adding => p # <<>>)
  BY <1>2, ParseProperty DEF SaneCall
<1>5. /\ \A ret : Answer(r, ret).sought = 0
      /\ \A goal, path : Walk(r, goal, path).sought = 0
  BY <1>1 DEF Answer, Do, Walk, ThreadType
<1>6. Start(c) = IF c.op = "statfs" THEN Answer(r, OK)
                 ELSE IF c.op = "truncate" /\ c.len < 0 THEN Answer(r, EINVAL)
                 ELSE IF c.op \in Adding THEN Walk(r, "parent", Front(p))
                 ELSE Walk(r, "target", p)
  BY DEF Start
<1> HIDE DEF r
<1>7. OK \in Int /\ EINVAL \in Int
  BY DEF OK, EINVAL
<1>8. Good(Answer(r, OK), d, bm, ow) /\ Good(Answer(r, EINVAL), d, bm, ow)
  BY <1>1, <1>7, Answered
<1>9. ASSUME c.op \in Adding PROVE Good(Walk(r, "parent", Front(p)), d, bm, ow)
  <2>1. Front(p) \in Seq(Names)
    BY <1>4, <1>9, FrontLast
  <2>2. ASSUME NEW s, s.goal = "parent", s.call = r.call PROVE GoalPath(s) = Front(p)
    BY <1>1, <2>2 DEF GoalPath
  <2>3. ASSUME NEW s, s.goal = "parent", s.call = r.call, s.blocks = r.blocks PROVE Learnt(s, e, m)
    BY <1>1, <1>9, <2>3 DEF Learnt, Adding, Removing, Moving
  <2>4. "parent" \in {"target", "parent", "destination"}
    OBVIOUS
  <2> HIDE DEF p
  <2> QED
    BY <1>1, <1>3, <2>1, <2>2, <2>3, <2>4, SetsOut
<1>10. ASSUME ~(c.op = "truncate" /\ c.len < 0) PROVE Good(Walk(r, "target", p), d, bm, ow)
  <2>1. ASSUME NEW s, s.goal = "target", s.call = r.call PROVE GoalPath(s) = p
    BY <1>1, <2>1 DEF GoalPath
  <2>2. ASSUME NEW s, s.goal = "target", s.call = r.call, s.blocks = r.blocks PROVE Learnt(s, e, m)
    BY <1>1, <1>2, <1>10, <2>2 DEF Learnt, SaneCall
  <2>3. "target" \in {"target", "parent", "destination"}
    OBVIOUS
  <2> HIDE DEF p
  <2> QED
    BY <1>1, <1>3, <1>4, <2>1, <2>2, <2>3, SetsOut
<1> QED
  BY <1>5, <1>6, <1>8, <1>9, <1>10

\* A call begins.
LEMMA BeginStep ==
    ASSUME NEW t \in Threads, StepIInv(t), NEW c \in Requests, Begin(t, c)
    PROVE  StepIInv(t)'
<1>1. /\ thr[t].at = "idle" /\ thr' = [thr EXCEPT ![t] = Start(c)]
      /\ disk' = disk /\ bitmap' = bitmap /\ owed' = owed /\ statVfs' = statVfs /\ offset' = offset
  BY DEF Begin
<1>2. /\ thr \in [Threads -> ThreadType] /\ bitmap \in SUBSET Blocks /\ owed \in SUBSET Blocks /\ CountersOK
      /\ offset \in Nat /\ Rests(disk, bitmap, owed)
  BY <1>1 DEF StepIInv, Phase
<1>3. Good(Start(c), disk, bitmap, owed) /\ Start(c).sought = 0
  BY <1>2, StartGood
<1>4. CountersOK'
  BY <1>1, <1>2 DEF CountersOK
<1> QED
  BY <1>1, <1>2, <1>3, <1>4, Moved

\* All threads are idle.
LEMMA AllIdle ==
    ASSUME NEW t \in Threads, thr' = [u \in Threads |-> Idle], Rests(disk', bitmap', owed'), offset' \in Nat,
           bitmap' \in SUBSET Blocks, owed' \in SUBSET Blocks, CountersOK'
    PROVE  StepIInv(t)'
<1>1. Idle \in ThreadType /\ Idle.sought = 0
  BY IdleType
<1>2. thr' \in [Threads -> ThreadType] /\ thr'[t] = Idle
  BY <1>1
<1>3. Aimed(thr'[t], Lba(t)', Writing(t)', offset')
  <2>1. \A b, w, o : Aimed(Idle, b, w, o)
    BY <1>1 DEF Aimed
  <2> QED
    BY <1>2, <2>1
<1>4. Phase(thr'[t], disk', bitmap', owed')
  BY <1>2, AtRest DEF Good
<1> QED
  BY <1>2, <1>3, <1>4 DEF StepIInv

\* The free blocks can be counted.
LEMMA FreeCount ==
    ASSUME NEW m
    PROVE  Cardinality(Blocks \ m) \in Nat
<1>1. IsFiniteSet(Blocks)
  <2>1. 0 \in Int /\ DiskSize - 1 \in Int
    BY LayoutAssumption
  <2> QED
    BY <2>1, FS_Interval DEF Blocks
<1>2. IsFiniteSet(Blocks \ m)
  BY <1>1, FS_Subset
<1> QED
  BY <1>2, FS_CardinalityType

\* The process is stopped wherever it is, and fs_init takes its bitmap from the disk.  What was
\* owed stays so, and a directory that was not zeroed stays blank in the new process: the
\* invariant admits both.
LEMMA RestartStep ==
    ASSUME NEW t \in Threads, Threads = {t}, StepIInv(t), Counted, Restart
    PROVE  StepIInv(t)'
<1>1. /\ disk[BitmapBlock].kind = "bitmap" /\ thr' = [u \in Threads |-> Idle] /\ Mounted(disk)
      /\ offset' = RootInode + 1 /\ disk' = disk /\ owed' = owed
  BY DEF Restart
<1>2. bitmap' = disk[BitmapBlock].used
  BY <1>1 DEF Mounted
<1>3. CountersOK'
  <2> DEFINE free == Cardinality(Blocks \ disk[BitmapBlock].used)
  <2>1. statVfs' = [f_bfree |-> free, f_bavail |-> free]
    BY <1>1 DEF Mounted
  <2>2. free \in Nat
    BY FreeCount
  <2> HIDE DEF free
  <2> QED
    BY <2>1, <2>2 DEF CountersOK
<1>10. Rests(disk, bitmap, owed)
  <2> DEFINE c == thr[t]
  <2>1. Phase(c, disk, bitmap, owed) /\ Held(disk, bitmap, owed)
    BY DEF StepIInv, Phase
  <2>2. CASE c.at # "todo"
    BY <2>1, <2>2 DEF Phase
  <2>3. CASE c.at = "todo"
    <3>1. Alive /\ Busy(t)
      BY <2>3 DEF Alive, Busy
    <3>2. stops.crashes < MaxCrashes
      BY <3>1 DEF Restart
    <3> QED
      BY <2>1, <3>2, CrashesCounted, Unreliable
  <2> QED
    BY <2>2, <2>3
<1>4. PICK e, m : Backed(disk, e, m, bitmap, owed) /\ Clean(disk, e, m, owed)
  BY <1>10 DEF Rests
<1>5. disk \in [Blocks -> Content] /\ BitmapBlock \in Blocks
  BY <1>4, BackedFacts
<1>6. bitmap' \in SUBSET Blocks
  <2>1. disk[BitmapBlock] \in Bitmap
    BY <1>1, <1>5, ContentKinds
  <2> QED
    BY <1>2, <2>1 DEF Bitmap
<1>7. Backed(disk, e, m, disk[BitmapBlock].used, owed)
  BY <1>4 DEF Backed
<1>8. Rests(disk', bitmap', owed')
  BY <1>1, <1>2, <1>4, <1>7 DEF Rests
<1>9. offset' \in Nat /\ owed' \in SUBSET Blocks
  BY <1>1 DEF RootInode, StepIInv
<1> QED
  BY <1>1, <1>3, <1>6, <1>8, <1>9, AllIdle

\* The empty image is its own shadow.
LEMMA EmptyHeld ==
    ASSUME NEW perm \in Perms, NEW mtime \in Times
    PROVE  Rests(EmptyImage(perm, mtime), InUse, {})
<1> DEFINE d == EmptyImage(perm, mtime)
<1>1. Sound(d, InUse)
  BY EmptyImageSound
<1>2. /\ d \in [Blocks -> Content] /\ d[SuperBlock].kind = "super" /\ d[BitmapBlock].kind = "bitmap"
      /\ InUse \subseteq Blocks
  BY EmptyImageBlocks
<1>3. d[BitmapBlock].used = InUse
  BY EmptyImageBlocks
<1>4. \A b \in Blocks : d[b].kind = "dir" => d[b] = EmptyDir
  <2> DEFINE ino == NewInode("dir", perm, mtime, RootBlock)
  <2>1. d[RootInode] = ino /\ d[RootBlock] = EmptyDir
    BY EmptyImageBlocks
  <2>2. \A b \in Blocks : b \notin InUse => d[b] = ZeroBlock
    BY DEF EmptyImage, InUse
  <2>3. ino.kind = "inode" /\ ZeroBlock.kind = "data"
    BY NewInodeTyped, LayoutAssumption DEF ZeroBlock, RootBlock, Blocks
  <2> HIDE DEF d, ino
  <2> QED
    BY <1>2, <2>1, <2>2, <2>3 DEF InUse
<1> HIDE DEF d
<1>5. \A b \in Blocks, s \in Slots : ~Filled(d, b, s)
  BY <1>4 DEF Filled, EmptyDir
<1>6. \A b \in InUse : Agrees(d, d, b)
  BY DEF Agrees, AsEntries
<1>7. Shadow(d, d, InUse)
  BY <1>1, <1>2, <1>5, <1>6 DEF Shadow
<1>8. Backed(d, d, InUse, InUse, {})
  BY <1>3, <1>7 DEF Backed
<1>9. Whole(d, d, InUse)
  BY <1>6 DEF Whole, Blank
<1> QED
  BY <1>8, <1>9 DEF Rests, Clean, d

\* All threads are idle when the image has just been made and mounted.
LEMMA InitStep ==
    ASSUME NEW t \in Threads, StepInit
    PROVE  StepIInv(t)
<1>1. PICK perm \in Perms, mtime \in Times : disk = EmptyImage(perm, mtime)
  BY DEF StepInit, Init
<1>2. /\ bitmap = InUse /\ statVfs = [f_bfree |-> FreeBlocks, f_bavail |-> FreeBlocks]
      /\ thr = [u \in Threads |-> Idle] /\ offset = RootInode + 1 /\ owed = {}
  BY DEF StepInit, Init
<1>3. Rests(disk, bitmap, owed)
  BY <1>1, <1>2, EmptyHeld
<1>4. InUse \subseteq Blocks /\ offset \in Nat
  BY <1>1, <1>2, EmptyImageBlocks DEF RootInode
<1>5. CountersOK
  <2>1. FreeBlocks \in Nat
    BY FreeCount DEF FreeBlocks
  <2> QED
    BY <1>2, <2>1 DEF CountersOK
<1>6. Idle \in ThreadType /\ Idle.sought = 0
  BY IdleType
<1>7. thr \in [Threads -> ThreadType] /\ thr[t] = Idle
  BY <1>2, <1>6
<1>8. Aimed(thr[t], Lba(t), Writing(t), offset)
  <2>1. \A b, w, o : Aimed(Idle, b, w, o)
    BY <1>6 DEF Aimed
  <2> QED
    BY <1>7, <2>1
<1>9. Phase(thr[t], disk, bitmap, owed)
  BY <1>3, <1>7, AtRest DEF Good
<1> QED
  BY <1>2, <1>4, <1>5, <1>7, <1>8, <1>9 DEF StepIInv

\* A step that changes nothing.
LEMMA StutterStep ==
    ASSUME NEW t \in Threads, StepIInv(t), UNCHANGED stepVars
    PROVE  StepIInv(t)'
<1>1. /\ disk' = disk /\ bitmap' = bitmap /\ statVfs' = statVfs /\ thr' = thr
      /\ offset' = offset /\ owed' = owed
  BY DEF stepVars
<1>2. Lba(t)' = Lba(t) /\ Writing(t)' = Writing(t)
  BY <1>1 DEF Lba, Writing, ToDo, Following
<1>3. CountersOK' <=> CountersOK
  BY <1>1 DEF CountersOK
<1> QED
  BY <1>1, <1>2, <1>3 DEF StepIInv

\* The steps of a call that is under way.
LEMMA ProceedStep ==
    ASSUME NEW t \in Threads, StepIInv(t), Counted, ~stops'.astray, Proceed(t)
    PROVE  StepIInv(t)'
<1>1. CASE SeekBlock(t) \/ ReadNowhere(t)
  BY <1>1, SeekStep, ErrorStep
<1>2. CASE WalkInode(t) \/ WalkEntries(t) \/ Stray(t)
  BY <1>2, WalkInodeStep, WalkEntriesStep, StrayStep
<1>3. CASE Getattr1(t) \/ Readdir1(t) \/ Readdir2(t)
  BY <1>3, GetattrStep, LookStep, ReaddirStep
<1>4. CASE Create1(t) \/ Create2(t)
  BY <1>4, LookStep, CreateStep
<1>5. CASE Unlink1(t) \/ Rmdir1(t) \/ Rmdir2(t) \/ Remove1(t) \/ Remove2(t)
  BY <1>5, UnlinkStep, LookStep, RmdirStep, RemoveLookStep, RemoveStep
<1>6. CASE Rename1(t) \/ Rename2(t) \/ Rename3(t) \/ Rename4(t)
  BY <1>6, RenameSourceStep, RenameExistsStep, LookStep, RenameStep
<1>7. CASE Chmod1(t) \/ Refused(t) \/ Utime1(t) \/ Truncate1(t) \/ Read1(t) \/ Write1(t)
  BY <1>7, ChmodStep, RefusedStep, UtimeStep, TruncateStep, ReadStep, WriteStep
<1>8. CASE PutNext(t) \/ SaveNext(t) \/ StoreNext(t) \/ FetchNext(t)
  BY <1>8, PutStep, SaveStep, StoreStep, FetchStep
<1>9. CASE LoadNext(t) \/ BitsNext(t) \/ CountNext(t)
  BY <1>9, LoadStep, BitsStep, CountStep
<1>10. CASE Return(t)
  BY <1>10, ReturnStep
<1> QED
  BY <1>1, <1>2, <1>3, <1>4, <1>5, <1>6, <1>7, <1>8, <1>9, <1>10 DEF Proceed

\* Every step of the system with one thread keeps the invariant, but for those that take calls
\* astray: a create or write that is given a block that is owed, and what a changing call makes
\* of bytes that it takes for an inode or a directory.
LEMMA StepKeeps ==
    ASSUME NEW t \in Threads, Threads = {t}, StepIInv(t), Counted, [StepNext]_stepVars, ~stops'.astray
    PROVE  StepIInv(t)'
<1>1. CASE Proceed(t)
  BY <1>1, ProceedStep
<1>2. CASE Fault(t)
  BY <1>2, ErrorStep
<1>3. ASSUME NEW c \in Requests, Begin(t, c) PROVE StepIInv(t)'
  BY <1>3, BeginStep
<1>4. CASE Restart
  BY <1>4, RestartStep
<1>5. CASE UNCHANGED stepVars
  BY <1>5, StutterStep
<1>6. \A u \in Threads : u = t
  OBVIOUS
<1>7. StepNext => Proceed(t) \/ Fault(t) \/ (\E c \in Requests : Begin(t, c)) \/ Restart
  BY <1>6 DEF StepNext
<1> QED
  BY <1>1, <1>2, <1>3, <1>4, <1>5, <1>7

\* The invariant gives the types of the variables and of the locals.
LEMMA StepTypes ==
    ASSUME NEW t \in Threads, StepIInv(t)
    PROVE  StepTypeOK
<1>1. PICK e, m : Backed(disk, e, m, bitmap, owed)
  BY DEF StepIInv, Phase, Held
<1>2. disk \in [Blocks -> Content]
  BY <1>1, BackedFacts
<1>3. ASSUME NEW r \in ThreadType
      PROVE  /\ r.at \in {"idle", "inode", "entries", "dir", "todo", "dead"}
             /\ r.goal \in {"target", "parent", "destination"}
             /\ r.inum \in Blocks /\ r.sought \in 0 .. 2 /\ r.ret \in Int
             /\ r.blocks \in Seq(Blocks) /\ r.buf \in Seq([Offs -> Byte])
  BY DEF ThreadType
<1>4. thr \in [Threads -> ThreadType] /\ offset \in Nat /\ bitmap \subseteq Blocks /\ owed \subseteq Blocks
  BY DEF StepIInv
<1> QED
  BY <1>2, <1>3, <1>4 DEF StepTypeOK

-----------------------------------------------------------------------------
(* The bitmap when a call succeeds                                         *)

\* The calls that allocate or free, except for fs_write.
Saver == Adding \cup Removing \cup {"truncate"}

\* The answers of success of all that do, or in the case of fs_write may.
Accounts(op, ret) == (op \in Saver /\ ret = OK) \/ (op = "write" /\ ret >= 0)

\* Before a handler decides, the bitmap is as the last call to return left it (sb); a thread
\* that will answer so has a queue that saves it, or is a write that leaves it alone.
Tidy(r, d, bm, sb) ==
    /\ r.at \in {"idle", "inode", "entries", "dir"} => bm = sb
    /\ r.at = "todo" /\ Accounts(r.call.op, r.ret) =>
          Settles(r.todo, d, bm) \/ (r.call.op = "write" /\ bm = sb /\ Calms(r.todo))

\* The fields of a thread that count here, and what the steps of a handler make of them.
Shaped(r) == {"call", "at", "todo", "ret", "sought"} \subseteq DOMAIN r

\* Each step sets the place, and leaves the call alone.
LEMMA Shapes ==
    ASSUME NEW r, Shaped(r)
    PROVE  /\ \A q, ret : /\ Shaped(Do(r, q, ret)) /\ Do(r, q, ret).at = "todo" /\ Do(r, q, ret).todo = q
                          /\ Do(r, q, ret).ret = ret /\ Do(r, q, ret).call = r.call
           /\ \A goal, path : Shaped(Walk(r, goal, path)) /\ Walk(r, goal, path).at = "inode"
           /\ Shaped(LookIn(r)) /\ LookIn(r).at = "dir"
           /\ \A v : Shaped([r EXCEPT !.ino = v]) /\ [r EXCEPT !.ino = v].call = r.call
           /\ \A v : Shaped([r EXCEPT !.buf = v]) /\ [r EXCEPT !.buf = v].call = r.call
           /\ \A v : Shaped([r EXCEPT !.blocks = v])
           /\ \A v : /\ [r EXCEPT !.sought = v].at = r.at /\ [r EXCEPT !.sought = v].todo = r.todo
                     /\ [r EXCEPT !.sought = v].ret = r.ret /\ [r EXCEPT !.sought = v].call = r.call
  BY DEF Shaped, Do, Walk, LookIn

\* All threads have them.
LEMMA TypeShaped == Shaped(Dead) /\ \A r \in ThreadType : Shaped(r)
  BY IdleType DEF Shaped, ThreadType

\* What a thread has to keep.
TidyThread(t) == Tidy(thr[t], disk, bitmap, settled.bitmap)

\* A step within a call.
Calm(t) == thr'[t].at # "idle" /\ Tidy(thr'[t], disk', bitmap', settled'.bitmap)

\* While it looks for its path or reads a directory, nothing changes the bitmap.
LEMMA StillSettled ==
    ASSUME NEW t \in Threads, TidyThread(t), thr[t].at \in {"inode", "entries", "dir"},
           ReadBlock(t) \/ ReadNowhere(t) \/ Fault(t)
    PROVE  bitmap' = settled'.bitmap
<1>1. bitmap' = bitmap /\ settled' = settled
  BY DEF ReadBlock, ReadNowhere, Fault
<1> QED
  BY <1>1 DEF TidyThread, Tidy

\* A thread that takes it.
LEMMA CalmTurn ==
    ASSUME NEW t \in Threads, thr \in [Threads -> ThreadType], NEW r, Becomes(t, r), Shaped(r),
           r.at # "idle", Tidy(r, disk', bitmap', settled'.bitmap)
    PROVE  Calm(t)
<1>1. thr'[t] = [r EXCEPT !.sought = 0]
  BY DEF Becomes
<1>2. [r EXCEPT !.sought = 0].at = r.at /\ [r EXCEPT !.sought = 0].todo = r.todo
      /\ [r EXCEPT !.sought = 0].ret = r.ret /\ [r EXCEPT !.sought = 0].call = r.call
  BY Shapes
<1> QED
  BY <1>1, <1>2 DEF Calm, Tidy

\* One that is still on its way, or at its end,
LEMMA CalmWalk ==
    ASSUME NEW t \in Threads, thr \in [Threads -> ThreadType], NEW r, Becomes(t, r), Shaped(r),
           r.at \in {"inode", "entries", "dir", "dead"}, r.at = "dead" \/ bitmap' = settled'.bitmap
    PROVE  Calm(t)
<1>1. Tidy(r, disk', bitmap', settled'.bitmap)
  BY DEF Tidy
<1> QED
  BY <1>1, CalmTurn

\* and one that has decided.
LEMMA CalmDo ==
    ASSUME NEW t \in Threads, thr \in [Threads -> ThreadType], NEW r, Shaped(r), NEW q, NEW ret,
           Becomes(t, Do(r, q, ret)),
           Accounts(r.call.op, ret) =>
             \/ Plain(q) /\ Saves(q)
             \/ r.call.op = "write" /\ bitmap' = settled'.bitmap /\ Calms(q)
    PROVE  Calm(t)
<1> DEFINE s == Do(r, q, ret)
<1>1. Shaped(s) /\ s.at = "todo" /\ s.todo = q /\ s.ret = ret /\ s.call = r.call
  BY Shapes
<1> HIDE DEF s
<1>2. Tidy(s, disk', bitmap', settled'.bitmap)
  BY <1>1 DEF Tidy, Settles
<1> QED
  BY <1>1, <1>2, CalmTurn DEF s

\* The errors.
Errors == {ENOENT, EIO, EEXIST, ENOTDIR, EISDIR, EINVAL, ENOSPC, ENOTEMPTY}

\* None of them is an answer of success.
LEMMA CalmError ==
    ASSUME NEW t \in Threads, thr \in [Threads -> ThreadType], NEW r, Shaped(r), NEW err \in Errors,
           Becomes(t, Do(r, <<>>, err))
    PROVE  Calm(t)
<1>1. ~Accounts(r.call.op, err)
  BY DEF Accounts, Errors, OK, ENOENT, EIO, EEXIST, ENOTDIR, EISDIR, EINVAL, ENOSPC, ENOTEMPTY
<1> QED
  BY <1>1, CalmDo

\* One that does not find what it resolves.
LEMMA CalmUnresolved ==
    ASSUME NEW t \in Threads, thr \in [Threads -> ThreadType], NEW r, Shaped(r), NEW err \in Errors,
           Becomes(t, Unresolved(r, err)), bitmap' = settled'.bitmap
    PROVE  Calm(t)
<1>1. \/ \E ret \in Errors : Unresolved(r, err) = Do(r, <<>>, ret)
      \/ \E goal, path : Unresolved(r, err) = Walk(r, goal, path)
  BY DEF Unresolved, AfterDestination, Answer, Errors
<1>2. ASSUME NEW ret \in Errors, Unresolved(r, err) = Do(r, <<>>, ret) PROVE Calm(t)
  <2>1. Becomes(t, Do(r, <<>>, ret))
    BY <1>2
  <2> QED
    BY <2>1, CalmError
<1>3. ASSUME NEW goal, NEW path, Unresolved(r, err) = Walk(r, goal, path) PROVE Calm(t)
  <2>1. Becomes(t, Walk(r, goal, path))
    BY <1>3
  <2>2. Shaped(Walk(r, goal, path)) /\ Walk(r, goal, path).at \in {"inode", "entries", "dir", "dead"}
    BY Shapes
  <2> HIDE DEF Walk
  <2> QED
    BY <2>1, <2>2, CalmWalk
<1> QED
  BY <1>1, <1>2, <1>3

\* An error of the device.
LEMMA ErrorCalm ==
    ASSUME NEW t \in Threads, StepIInv(t), TidyThread(t), ReadNowhere(t) \/ Fault(t)
    PROVE  Calm(t)
<1>1. PICK r \in AfterError(thr[t]) : Becomes(t, r)
  BY DEF ReadNowhere, Fault
<1>2. thr \in [Threads -> ThreadType] /\ thr[t] \in ThreadType
  BY DEF StepIInv
<1>3. Shaped(thr[t]) /\ Shaped(Dead) /\ Dead.at = "dead"
  BY <1>2, TypeShaped, IdleType
<1>4. EIO \in Errors
  BY DEF Errors
<1>5. \/ thr[t].at \in {"inode", "entries"} /\ r = Unresolved(thr[t], EIO)
      \/ r = Dead
      \/ thr[t].call.op = "readdir" /\ r = Do(thr[t], <<>>, 1)
      \/ r = Do(thr[t], <<>>, EIO)
  BY DEF AfterError, Answer
<1>6. CASE thr[t].at \in {"inode", "entries"} /\ r = Unresolved(thr[t], EIO)
  <2>1. bitmap' = settled'.bitmap
    BY <1>6, StillSettled
  <2> QED
    BY <1>1, <1>2, <1>3, <1>4, <1>6, <2>1, CalmUnresolved
<1>7. CASE r = Dead
  BY <1>1, <1>2, <1>3, <1>7, CalmWalk
<1>8. CASE thr[t].call.op = "readdir" /\ r = Do(thr[t], <<>>, 1)
  <2>1. Becomes(t, Do(thr[t], <<>>, 1))
    BY <1>1, <1>8
  <2>2. ~Accounts(thr[t].call.op, 1)
    BY <1>8 DEF Accounts, Saver, Adding, Removing
  <2> QED
    BY <1>2, <1>3, <2>1, <2>2, CalmDo
<1>9. CASE r = Do(thr[t], <<>>, EIO)
  <2>1. Becomes(t, Do(thr[t], <<>>, EIO))
    BY <1>1, <1>9
  <2> QED
    BY <1>2, <1>3, <1>4, <2>1, CalmError
<1> QED
  BY <1>5, <1>6, <1>7, <1>8, <1>9

\* A thread that looks for its path.
LEMMA WalkCalm ==
    ASSUME NEW t \in Threads, StepIInv(t), TidyThread(t), WalkInode(t) \/ WalkEntries(t)
    PROVE  Calm(t)
<1> DEFINE r == thr[t]
           i == [r EXCEPT !.ino = Device!Here]
           entries == AsEntries(Device!Here)
           hits == Named(entries, Head(r.rest))
           on == [r EXCEPT !.at = "inode", !.inum = entries[Min(hits)].inode, !.rest = Tail(@)]
           in == [i EXCEPT !.at = "entries"]
<1>1. thr \in [Threads -> ThreadType] /\ r \in ThreadType /\ Shaped(r)
  BY TypeShaped DEF StepIInv
<1>2. Shaped(i) /\ Shaped(in) /\ in.at = "entries" /\ Shaped(on) /\ on.at = "inode"
  BY <1>1 DEF Shaped, ThreadType
<1>3. ENOTDIR \in Errors /\ ENOENT \in Errors /\ bitmap' = settled'.bitmap
  <2>1. ReadBlock(t) /\ r.at \in {"inode", "entries", "dir"}
    BY DEF WalkInode, WalkEntries
  <2> QED
    BY <2>1, StillSettled DEF Errors
<1>4. CASE WalkInode(t)
  <2>1. Becomes(t, IF i.type = "dir" THEN in ELSE Unresolved(i, ENOTDIR))
        \/ Becomes(t, in) \/ Becomes(t, Unresolved(i, ENOTDIR))
    BY <1>4 DEF WalkInode
  <2>2. Becomes(t, in) \/ Becomes(t, Unresolved(i, ENOTDIR))
    BY <1>4 DEF WalkInode
  <2> HIDE DEF i, in
  <2> QED
    BY <1>1, <1>2, <1>3, <2>2, CalmWalk, CalmUnresolved
<1>5. CASE WalkEntries(t)
  <2>1. Becomes(t, Unresolved(r, ENOENT)) \/ Becomes(t, on)
    BY <1>5 DEF WalkEntries
  <2> HIDE DEF on
  <2> QED
    BY <1>1, <1>2, <1>3, <2>1, CalmWalk, CalmUnresolved
<1> QED
  BY <1>4, <1>5

\* A thread that looks into a directory it has found, or refuses anything else.
LEMMA LookCalm ==
    ASSUME NEW t \in Threads, StepIInv(t), TidyThread(t),
           Readdir1(t) \/ Create1(t) \/ Rmdir1(t) \/ Rename3(t) \/ Remove1(t)
    PROVE  Calm(t)
<1> DEFINE w == LookIn(With(thr[t]))
<1>1. thr \in [Threads -> ThreadType] /\ thr[t] \in ThreadType /\ Shaped(thr[t])
  BY TypeShaped DEF StepIInv
<1>2. Shaped(With(thr[t]))
  BY <1>1, Shapes DEF With
<1>3. Shaped(w) /\ w.at = "dir"
  BY <1>2, Shapes
<1>4. Becomes(t, w) \/ Becomes(t, Do(thr[t], <<>>, ENOTDIR))
  BY DEF Readdir1, Create1, Rmdir1, Rename3, Remove1, Answer
<1>5. ENOTDIR \in Errors /\ bitmap' = settled'.bitmap
  <2>1. ReadBlock(t) /\ thr[t].at \in {"inode", "entries", "dir"}
    BY DEF Readdir1, Create1, Rmdir1, Rename3, Remove1, Resolved, Arrives
  <2> QED
    BY <2>1, StillSettled DEF Errors
<1> HIDE DEF w
<1> QED
  BY <1>1, <1>3, <1>4, <1>5, CalmWalk, CalmError

\* A handler that has read an inode and goes on to another path.
LEMMA OnwardCalm ==
    ASSUME NEW t \in Threads, StepIInv(t), TidyThread(t), Unlink1(t) \/ Rename1(t)
    PROVE  Calm(t)
<1>1. thr \in [Threads -> ThreadType] /\ Shaped(thr[t]) /\ bitmap' = settled'.bitmap
  <2>1. ReadBlock(t) /\ thr[t].at \in {"inode", "entries", "dir"}
    BY DEF Unlink1, Rename1, Resolved, Arrives
  <2> QED
    BY <2>1, StillSettled, TypeShaped DEF StepIInv
<1>2. CASE Unlink1(t)
  <2>1. PICK v, goal, path : Becomes(t, Walk([thr[t] EXCEPT !.blocks = v], goal, path))
    BY <1>2 DEF Unlink1
  <2> DEFINE s == [thr[t] EXCEPT !.blocks = v]
             w == Walk(s, goal, path)
  <2>2. Shaped(s)
    BY <1>1, Shapes
  <2> HIDE DEF s
  <2>3. Shaped(w) /\ w.at = "inode"
    BY <2>2, Shapes
  <2>4. Becomes(t, w)
    BY <2>1 DEF s
  <2> HIDE DEF w
  <2> QED
    BY <1>1, <2>3, <2>4, CalmWalk
<1>3. CASE Rename1(t)
  <2> DEFINE w == Walk(thr[t], "destination", Parse(thr[t].call.dst))
  <2>1. Shaped(w) /\ w.at = "inode"
    BY <1>1, Shapes
  <2>2. Becomes(t, w)
    BY <1>3 DEF Rename1
  <2> HIDE DEF w
  <2> QED
    BY <1>1, <2>1, <2>2, CalmWalk
<1> QED
  BY <1>2, <1>3

\* The calls that return success without a change of the bitmap, or that return an error.
LEMMA OtherCalm ==
    ASSUME NEW t \in Threads, StepIInv(t), TidyThread(t),
           \/ Getattr1(t) \/ Readdir2(t) \/ Rename2(t) \/ Chmod1(t)
           \/ Refused(t) \/ Utime1(t) \/ Read1(t)
    PROVE  Calm(t)
<1> DEFINE r == thr[t]
<1>1. thr \in [Threads -> ThreadType] /\ Shaped(r)
  BY TypeShaped DEF StepIInv
<1>2. CASE Rename2(t) \/ Refused(t)
  <2>1. Becomes(t, Do(r, <<>>, EEXIST)) \/ Becomes(t, Do(r, <<>>, EISDIR))
    BY <1>2 DEF Rename2, Refused, Answer
  <2>2. EEXIST \in Errors /\ EISDIR \in Errors
    BY DEF Errors
  <2> HIDE DEF r
  <2> QED
    BY <1>1, <2>1, <2>2, CalmError DEF r
<1>3. CASE Getattr1(t) \/ Chmod1(t) \/ Utime1(t)
  <2>1. \E q, ret : Becomes(t, Do(r, q, ret))
    BY <1>3 DEF Getattr1, Chmod1, Utime1, Answer
  <2>2. r.call.op \in {"getattr", "chmod", "utime"}
    BY <1>3 DEF Getattr1, Chmod1, Utime1, ResolvedFile, Resolved, Arrives
  <2>3. \A ret : ~Accounts(r.call.op, ret)
    BY <2>2 DEF Accounts, Saver, Adding, Removing
  <2> QED
    BY <1>1, <2>1, <2>3, CalmDo
<1>4. CASE Readdir2(t) \/ Read1(t)
  <2>1. \/ \E q, ret : Becomes(t, Do(r, q, ret))
        \/ \E v, q, ret : Becomes(t, Do([r EXCEPT !.buf = v], q, ret))
    BY <1>4 DEF Readdir2, Read1, Answer
  <2>2. \A ret : ~Accounts(r.call.op, ret)
    <3>1. r.call.op \in {"readdir", "read"}
      BY <1>4 DEF Readdir2, Read1, ResolvedFile, Resolved, Listed, Arrives, Scans
    <3> QED
      BY <3>1 DEF Accounts, Saver, Adding, Removing
  <2>3. ASSUME NEW v, NEW q, NEW ret, Becomes(t, Do([r EXCEPT !.buf = v], q, ret)) PROVE Calm(t)
    <3> DEFINE s == [r EXCEPT !.buf = v]
    <3>1. Shaped(s) /\ s.call = r.call
      BY <1>1 DEF Shaped
    <3>2. Becomes(t, Do(s, q, ret))
      BY <2>3
    <3> HIDE DEF s
    <3> QED
      BY <1>1, <2>2, <3>1, <3>2, CalmDo
  <2> QED
    BY <1>1, <2>1, <2>2, <2>3, CalmDo
<1> QED
  BY <1>2, <1>3, <1>4

\* Those that allocate or free decide on a queue that saves the bitmap, or on an error.
LEMMA SaverCalm ==
    ASSUME NEW t \in Threads, StepIInv(t), TidyThread(t),
           Create2(t) \/ Rmdir2(t) \/ Remove2(t) \/ Rename4(t) \/ Truncate1(t)
    PROVE  Calm(t)
<1> DEFINE r == thr[t]
<1>1. thr \in [Threads -> ThreadType] /\ Shaped(r) /\ Shaped(Dead) /\ Dead.at = "dead"
  BY TypeShaped, IdleType DEF StepIInv
<1>2. {EEXIST, ENOSPC, ENOTEMPTY, ENOENT, EINVAL} \subseteq Errors
  BY DEF Errors
<1>3. ASSUME NEW ret \in Errors, Becomes(t, Do(r, <<>>, ret)) PROVE Calm(t)
  BY <1>1, <1>3, CalmError
<1>4. CASE Create2(t)
  <2>1. \/ Becomes(t, Do(r, <<>>, EEXIST)) \/ Becomes(t, Do(r, <<>>, ENOSPC))
        \/ \E blocks : Becomes(t, Do(r, CreateEffects(r, Listing, blocks), OK))
    BY <1>4 DEF Create2, Answer
  <2>2. ASSUME NEW blocks, Becomes(t, Do(r, CreateEffects(r, Listing, blocks), OK)) PROVE Calm(t)
    BY <1>1, <2>2, CreateSaves, CalmDo
  <2> QED
    BY <1>2, <1>3, <2>1, <2>2
<1>5. CASE Rmdir2(t)
  <2>1. \/ Becomes(t, Do(r, <<>>, ENOSPC)) \/ Becomes(t, Do(r, <<>>, ENOTEMPTY))
        \/ \E v, goal, path : Becomes(t, Walk([r EXCEPT !.blocks = v], goal, path))
    BY <1>5 DEF Rmdir2, Answer
  <2>2. ASSUME NEW v, NEW goal, NEW path, Becomes(t, Walk([r EXCEPT !.blocks = v], goal, path)) PROVE Calm(t)
    <3> DEFINE s == [r EXCEPT !.blocks = v]
               w == Walk(s, goal, path)
    <3>1. Shaped(s)
      BY <1>1, Shapes
    <3> HIDE DEF s
    <3>2. Shaped(w) /\ w.at = "inode"
      BY <3>1, Shapes
    <3>3. Becomes(t, w)
      BY <2>2 DEF s
    <3>4. bitmap' = settled'.bitmap
      BY <1>5, StillSettled DEF Rmdir2, Listed, Scans
    <3> HIDE DEF w
    <3> QED
      BY <1>1, <3>2, <3>3, <3>4, CalmWalk
  <2> QED
    BY <1>2, <1>3, <2>1, <2>2
<1>6. CASE Remove2(t)
  <2>1. \/ Becomes(t, Do(r, <<>>, ENOENT))
        \/ \E s : Becomes(t, Do(r, RemoveEffects(r, Listing, s), OK))
    BY <1>6 DEF Remove2, Answer
  <2>2. ASSUME NEW s, Becomes(t, Do(r, RemoveEffects(r, Listing, s), OK)) PROVE Calm(t)
    BY <1>1, <2>2, RemoveSaves, CalmDo
  <2> QED
    BY <1>2, <1>3, <2>1, <2>2
<1>7. CASE Rename4(t)
  <2>1. Becomes(t, Dead) \/ \E q, ret : Becomes(t, Do(r, q, ret))
    BY <1>7 DEF Rename4
  <2>2. \A ret : ~Accounts(r.call.op, ret)
    BY <1>7 DEF Rename4, Listed, Scans, Accounts, Saver, Adding, Removing, Moving
  <2>3. ASSUME NEW q, NEW ret, Becomes(t, Do(r, q, ret)) PROVE Calm(t)
    BY <1>1, <2>2, <2>3, CalmDo
  <2>4. ASSUME Becomes(t, Dead) PROVE Calm(t)
    BY <1>1, <2>4, CalmWalk
  <2> QED
    BY <2>1, <2>3, <2>4
<1>8. CASE Truncate1(t)
  <2>1. Becomes(t, Do(r, <<>>, EINVAL)) \/ Becomes(t, Do(r, TruncateEffects(r, Found), OK))
    BY <1>8 DEF Truncate1, Answer
  <2>2. Found \in Inode
    <3>1. PICK e, m : Meets(r, e, m, Found)
      BY <1>8, ResolvedFacts DEF Truncate1, ResolvedFile
    <3>2. r \in ThreadType
      BY DEF StepIInv
    <3> QED
      BY <3>1, <3>2, HeadsFacts DEF Meets
  <2>3. ASSUME Becomes(t, Do(r, TruncateEffects(r, Found), OK)) PROVE Calm(t)
    BY <1>1, <2>2, <2>3, TruncateSaves, CalmDo
  <2> QED
    BY <1>2, <1>3, <2>1, <2>3
<1> QED
  BY <1>4, <1>5, <1>6, <1>7, <1>8

\* fs_write decides on a queue that saves the bitmap or leaves it alone.
LEMMA WriteCalm ==
    ASSUME NEW t \in Threads, StepIInv(t), TidyThread(t), Write1(t)
    PROVE  Calm(t)
<1> DEFINE r == thr[t]
<1>1. thr \in [Threads -> ThreadType] /\ Shaped(r)
  BY TypeShaped DEF StepIInv
<1>2. Arrives(t, {"write"}, "target")
  BY DEF Write1
<1>3. r.call.op = "write" /\ r.at = "inode" /\ ReadBlock(t) /\ SaneCall(r.call)
  BY <1>2, ResolvedFacts DEF Arrives
<1>4. bitmap' = settled'.bitmap
  BY <1>3, StillSettled
<1>5. Found \in Inode
  <2>1. PICK e, m : Meets(r, e, m, Found)
    BY <1>2, ResolvedFacts
  <2>2. r \in ThreadType
    BY DEF StepIInv
  <2> QED
    BY <2>1, <2>2, HeadsFacts DEF Meets
<1>6. r.call.offset \in Nat /\ r.call.len \in Nat \ {0}
  BY <1>3 DEF SaneCall
<1>7. \/ Becomes(t, Do(r, <<>>, EINVAL))
      \/ Becomes(t, Do(r, <<>>, ENOSPC))
      \/ \E v, blocks : Becomes(t, Do([r EXCEPT !.buf = v], WriteEffects(r, Found, blocks), r.call.len))
  BY DEF Write1, Answer
<1>8. EINVAL \in Errors /\ ENOSPC \in Errors
  BY DEF Errors
<1>11. \A v : Shaped([r EXCEPT !.buf = v]) /\ [r EXCEPT !.buf = v].call = r.call
  BY <1>1, Shapes
<1>9. ASSUME NEW v, NEW blocks,
             Becomes(t, Do([r EXCEPT !.buf = v], WriteEffects(r, Found, blocks), r.call.len))
      PROVE  Calm(t)
  <2> DEFINE s == [r EXCEPT !.buf = v]
             q == WriteEffects(r, Found, blocks)
  <2>1. Shaped(s) /\ s.call = r.call
    BY <1>11
  <2>2. Plain(q) /\ (Saves(q) \/ Calms(q))
    BY <1>5, <1>6, WriteSaves
  <2>3. Becomes(t, Do(s, q, r.call.len))
    BY <1>9
  <2> HIDE DEF s, q
  <2> QED
    BY <1>1, <1>3, <1>4, <2>1, <2>2, <2>3, CalmDo
<1> HIDE DEF r
<1>10. ASSUME NEW ret \in Errors, Becomes(t, Do(r, <<>>, ret)) PROVE Calm(t)
  BY <1>1, <1>10, CalmError
<1> QED
  BY <1>7, <1>8, <1>9, <1>10 DEF r

\* A call that takes a block for what it is not answers with success only if it just looks.
LEMMA StrayCalm ==
    ASSUME NEW t \in Threads, StepIInv(t), TidyThread(t), Counted, ~stops'.astray, Stray(t)
    PROVE  Calm(t)
<1> DEFINE r == thr[t]
<1>1. thr \in [Threads -> ThreadType] /\ Shaped(r) /\ Shaped(Dead) /\ Dead.at = "dead"
  BY TypeShaped, IdleType DEF StepIInv
<1>2. ReadBlock(t) /\ r.at \in {"inode", "entries", "dir"}
  BY DEF Stray
<1>3. bitmap' = settled'.bitmap
  BY <1>2, StillSettled
<1>4. \/ \E err \in {ENOENT, ENOTDIR, EIO} : Becomes(t, Unresolved(r, err))
      \/ Becomes(t, Dead)
      \/ /\ Becomes(t, Do(r, <<>>, OK))
         /\ stops' = [stops EXCEPT !.astray = @ \/ r.call.op \notin Looking]
  BY DEF Stray, Answer
<1> HIDE DEF r
<1>5. ASSUME NEW err \in {ENOENT, ENOTDIR, EIO}, Becomes(t, Unresolved(r, err)) PROVE Calm(t)
  <2>1. err \in Errors
    BY DEF Errors
  <2> QED
    BY <1>1, <1>3, <1>5, <2>1, CalmUnresolved
<1>6. ASSUME Becomes(t, Dead) PROVE Calm(t)
  BY <1>1, <1>6, CalmWalk
<1>7. ASSUME Becomes(t, Do(r, <<>>, OK)), stops' = [stops EXCEPT !.astray = @ \/ r.call.op \notin Looking]
      PROVE  Calm(t)
  <2>1. stops'.astray = (stops.astray \/ r.call.op \notin Looking)
    BY <1>7 DEF Counted
  <2>2. ~Accounts(r.call.op, OK)
    BY <2>1 DEF Accounts, Looking, Saver, Adding, Removing
  <2> QED
    BY <1>1, <1>7, <2>2, CalmDo
<1> QED
  BY <1>4, <1>5, <1>6, <1>7

\* A job of a queue: what has to be known of the image and the bitmap it leaves.
LEMMA JobCalm ==
    ASSUME NEW t \in Threads, thr \in [Threads -> ThreadType], thr[t].at = "todo", thr[t].todo # <<>>,
           TidyThread(t), settled' = settled, Following(t).do # "bits" => bitmap' = bitmap, NEW w, Becomes(t, w), Shaped(w), w.at = "todo", w.call = thr[t].call,
           w.ret = thr[t].ret, w.todo = Tail(thr[t].todo),
           Settles(thr[t].todo, disk, bitmap) =>
             \/ Following(t).do = "save" /\ disk'[BitmapBlock].used = bitmap'
             \/ Following(t).do = "bits"
             \/ Following(t).do \notin {"save", "bits"} /\ bitmap' = bitmap /\ disk'[BitmapBlock] = disk[BitmapBlock]
    PROVE  Calm(t)
<1> DEFINE q == thr[t].todo
<1>1. thr[t] \in ThreadType /\ q \in Seq(Jobs)
  BY DEF ThreadType
<1>2. Following(t) = Head(q)
  BY DEF Following
<1>3. Settles(q, disk, bitmap) => Settles(Tail(q), disk', bitmap')
  BY <1>1, <1>2, SettlesTail
<1>4. Calms(q) => Calms(Tail(q)) /\ Head(q).do # "bits"
  <2>1. /\ Head(q) = q[1] /\ 1 \in 1 .. Len(q)
        /\ \A k \in 1 .. Len(Tail(q)) : k + 1 \in 1 .. Len(q) /\ Tail(q)[k] = q[k + 1]
    BY <1>1, QueueTail
  <2> HIDE DEF q
  <2> QED
    BY <2>1 DEF Calms
<1> HIDE DEF q
<1>5. Tidy(w, disk', bitmap', settled'.bitmap)
  BY <1>2, <1>3, <1>4 DEF TidyThread, Tidy, q
<1> QED
  BY <1>5, CalmTurn

\* A queue that is worked off.
LEMMA QueueCalm ==
    ASSUME NEW t \in Threads, StepIInv(t), StepIInv(t)', TidyThread(t),
           \/ PutNext(t) \/ SaveNext(t) \/ StoreNext(t) \/ FetchNext(t)
           \/ LoadNext(t) \/ BitsNext(t) \/ CountNext(t)
    PROVE  Calm(t)
<1> DEFINE r == thr[t]
           job == Following(t)
<1>1. /\ thr \in [Threads -> ThreadType] /\ r \in ThreadType /\ Shaped(r) /\ Shaped(Rest(t))
      /\ Rest(t).call = r.call /\ Rest(t).ret = r.ret /\ Rest(t).todo = Tail(r.todo) /\ Rest(t).at = r.at
  <2>1. thr \in [Threads -> ThreadType] /\ r \in ThreadType
    BY DEF StepIInv
  <2> QED
    BY <2>1 DEF Shaped, ThreadType, Rest
<1>2. r.at = "todo" /\ r.todo # <<>> /\ settled' = settled
  BY DEF PutNext, SaveNext, StoreNext, FetchNext, LoadNext, BitsNext, CountNext, ToDo, WriteBlock, ReadBlock
<1>3. Plain(r.todo) => (job.do = "put" => job.content.kind # "bitmap")
  <2>1. r.todo \in Seq(Jobs)
    BY <1>1 DEF ThreadType
  <2>2. job = r.todo[1] /\ 1 \in 1 .. Len(r.todo)
    BY <1>2, <2>1, QueueTail DEF Following
  <2> QED
    BY <2>2 DEF Plain
<1>4. disk'[BitmapBlock].kind = "bitmap" /\ disk \in [Blocks -> Content] /\ BitmapBlock \in Blocks
  <2>1. PICK e, m : Backed(disk', e, m, bitmap', owed')
    BY DEF StepIInv, Phase, Held
  <2>2. PICK f, u : Backed(disk, f, u, bitmap, owed)
    BY DEF StepIInv, Phase, Held
  <2>3. disk'[BitmapBlock].kind = "bitmap"
    BY <2>1 DEF Backed, Shadow
  <2>4. disk \in [Blocks -> Content]
    BY <2>2 DEF Backed, Shadow
  <2> QED
    BY <2>3, <2>4, LayoutAssumption DEF Blocks, BitmapBlock
<1>5. ASSUME NEW w, Becomes(t, w), Shaped(w), w.at = "todo", w.call = r.call, w.ret = r.ret,
             w.todo = Tail(r.todo), job.do # "bits" => bitmap' = bitmap,
             Settles(r.todo, disk, bitmap) =>
               \/ job.do = "save" /\ disk'[BitmapBlock].used = bitmap'
               \/ job.do = "bits"
               \/ job.do \notin {"save", "bits"} /\ bitmap' = bitmap /\ disk'[BitmapBlock] = disk[BitmapBlock]
      PROVE  Calm(t)
  BY <1>1, <1>2, <1>5, JobCalm
<1>6. CASE PutNext(t)
  <2>1. /\ job.do = "put" /\ Becomes(t, Rest(t)) /\ bitmap' = bitmap
        /\ disk' = [disk EXCEPT ![job.lba] = job.content]
    BY <1>6, WriteFacts DEF PutNext, ToDo
  <2>2. Settles(r.todo, disk, bitmap) => disk'[BitmapBlock] = disk[BitmapBlock]
    BY <1>3, <1>4, <2>1 DEF Settles
  <2> HIDE DEF r, job
  <2> QED
    BY <1>1, <1>2, <1>5, <2>1, <2>2
<1>7. CASE SaveNext(t)
  <2>1. /\ job.do = "save" /\ Becomes(t, Rest(t)) /\ bitmap' = bitmap
        /\ disk' = [disk EXCEPT ![job.lba] = [kind |-> "bitmap", used |-> bitmap]]
    BY <1>7, WriteFacts DEF SaveNext, ToDo
  <2>2. job \in Jobs
    BY <1>1, <1>2, QueueTail DEF Following, ThreadType
  <2>3. job.lba = BitmapBlock
    BY <2>1, <2>2 DEF Jobs
  <2>4. disk'[BitmapBlock].used = bitmap'
    BY <1>4, <2>1, <2>3
  <2> HIDE DEF r, job
  <2> QED
    BY <1>1, <1>2, <1>5, <2>1, <2>4
<1>8. CASE StoreNext(t)
  <2>1. job.do = "store" /\ Becomes(t, Rest(t))
    BY <1>8 DEF StoreNext, ToDo
  <2>2. PICK bytes : WriteBlock(t, [kind |-> "data", bytes |-> bytes])
    BY <1>8 DEF StoreNext
  <2> DEFINE content == [kind |-> "data", bytes |-> bytes]
  <2>3. content.kind = "data" /\ WriteBlock(t, content)
    BY <2>2
  <2> HIDE DEF content
  <2>4. disk' = [disk EXCEPT ![job.lba] = content] /\ bitmap' = bitmap
    BY <2>3, WriteFacts
  <2>5. disk'[BitmapBlock] = disk[BitmapBlock]
    BY <1>4, <2>3, <2>4
  <2> HIDE DEF r, job
  <2> QED
    BY <1>1, <1>2, <1>5, <2>1, <2>4, <2>5
<1>9. CASE FetchNext(t)
  <2> DEFINE w == [Rest(t) EXCEPT !.buf[job.slot] = RawBytes(Device!Here)]
  <2>1. job.do = "fetch" /\ Becomes(t, w)
    BY <1>9 DEF FetchNext, ToDo
  <2>2. disk' = disk /\ bitmap' = bitmap
    BY <1>9, ReadFacts DEF FetchNext, Untouched
  <2>3. Shaped(w) /\ w.at = r.at /\ w.call = r.call /\ w.ret = r.ret /\ w.todo = Tail(r.todo)
    BY <1>1 DEF Shaped
  <2> HIDE DEF r, job, w
  <2> QED
    BY <1>1, <1>2, <1>5, <2>1, <2>2, <2>3
<1>10. CASE LoadNext(t) \/ CountNext(t)
  <2>1. job.do \in {"load", "count"} /\ disk' = disk /\ bitmap' = bitmap
    BY <1>10 DEF LoadNext, CountNext, ToDo
  <2>2. PICK v : Becomes(t, [Rest(t) EXCEPT !.seen = v])
    BY <1>10 DEF LoadNext, CountNext
  <2> DEFINE w == [Rest(t) EXCEPT !.seen = v]
  <2>3. Shaped(w) /\ w.at = r.at /\ w.call = r.call /\ w.ret = r.ret /\ w.todo = Tail(r.todo)
    BY <1>1 DEF Shaped
  <2>4. Becomes(t, w)
    BY <2>2
  <2> HIDE DEF r, job, w
  <2> QED
    BY <1>1, <1>2, <1>5, <2>1, <2>3, <2>4
<1>11. CASE BitsNext(t)
  <2> DEFINE w == [Rest(t) EXCEPT !.seen = Idle.seen]
  <2>1. job.do = "bits" /\ Becomes(t, w)
    BY <1>11 DEF BitsNext, ToDo
  <2>2. Shaped(w) /\ w.at = r.at /\ w.call = r.call /\ w.ret = r.ret /\ w.todo = Tail(r.todo)
    BY <1>1 DEF Shaped
  <2> HIDE DEF r, job, w
  <2> QED
    BY <1>1, <1>2, <1>5, <2>1, <2>2
<1> QED
  BY <1>6, <1>7, <1>8, <1>9, <1>10, <1>11

\* No step of a call but its last makes the thread idle, or leaves the bitmap unsaved.
LEMMA ProceedCalm ==
    ASSUME NEW t \in Threads, StepIInv(t), TidyThread(t), Counted, ~stops'.astray, Proceed(t), ~Return(t)
    PROVE  Calm(t)
<1>1. CASE SeekBlock(t)
  <2> DEFINE r == thr[t]
             w == [r EXCEPT !.sought = @ + 1]
  <2>1. /\ Reading(t) \/ Writing(t)
        /\ thr' = [thr EXCEPT ![t] = IF Writing(t) /\ Lba(t) <= 0 THEN Dead ELSE w]
        /\ bitmap' = bitmap /\ disk' = disk /\ settled' = settled
    BY <1>1 DEF SeekBlock, Device!Seek
  <2>2. thr \in [Threads -> ThreadType] /\ r \in ThreadType /\ Dead.at = "dead"
    BY IdleType DEF StepIInv
  <2>3. r.at # "idle"
    BY <2>1 DEF Reading, Writing, ToDo
  <2>4. w.at = r.at /\ w.call = r.call /\ w.ret = r.ret /\ w.todo = r.todo
    BY <2>2 DEF ThreadType
  <2>5. thr'[t] = w \/ thr'[t] = Dead
    BY <2>1, <2>2
  <2> HIDE DEF w
  <2>6. CASE thr'[t] = w
    BY <2>1, <2>3, <2>4, <2>6 DEF Calm, TidyThread, Tidy
  <2>7. CASE thr'[t] = Dead
    BY <2>2, <2>7 DEF Calm, Tidy
  <2> QED
    BY <2>5, <2>6, <2>7
<1>2. CASE ReadNowhere(t)
  BY <1>2, ErrorCalm
<1>3. CASE WalkInode(t) \/ WalkEntries(t)
  BY <1>3, WalkCalm
<1>4. CASE Readdir1(t) \/ Create1(t) \/ Rmdir1(t) \/ Rename3(t) \/ Remove1(t)
  BY <1>4, LookCalm
<1>5. CASE Unlink1(t) \/ Rename1(t)
  BY <1>5, OnwardCalm
<1>6. CASE \/ Getattr1(t) \/ Readdir2(t) \/ Rename2(t) \/ Chmod1(t)
           \/ Refused(t) \/ Utime1(t) \/ Read1(t) \/ Write1(t) \/ Stray(t)
  BY <1>6, OtherCalm, WriteCalm, StrayCalm
<1>7. CASE Create2(t) \/ Rmdir2(t) \/ Remove2(t) \/ Rename4(t) \/ Truncate1(t)
  BY <1>7, SaverCalm
<1>8. CASE \/ PutNext(t) \/ SaveNext(t) \/ StoreNext(t) \/ FetchNext(t)
           \/ LoadNext(t) \/ BitsNext(t) \/ CountNext(t)
  BY <1>8, ProceedStep, QueueCalm
<1> QED
  BY <1>1, <1>2, <1>3, <1>4, <1>5, <1>6, <1>7, <1>8 DEF Proceed

\* When a call returns success, the bitmap is saved.
LEMMA ReturnSaved ==
    ASSUME NEW t \in Threads, StepIInv(t), TidyThread(t), Return(t)
    PROVE  /\ Tidy(thr'[t], disk', bitmap', settled'.bitmap)
           /\ Accounting(reply') => bitmap' = disk'[BitmapBlock].used
<1>1. /\ thr[t].at = "todo" /\ thr[t].todo = <<>> /\ Becomes(t, Idle)
      /\ reply'.op = thr[t].call.op /\ reply'.ret = thr[t].ret
      /\ disk' = disk /\ bitmap' = bitmap /\ settled'.bitmap = bitmap
  BY DEF Return
<1>2. thr'[t].at = "idle"
  <2>1. thr \in [Threads -> ThreadType] /\ Shaped(Idle) /\ Idle.at = "idle"
    BY IdleType, TypeShaped DEF StepIInv
  <2>2. thr'[t] = [Idle EXCEPT !.sought = 0]
    BY <1>1, <2>1 DEF Becomes
  <2> QED
    BY <2>1, <2>2, Shapes
<1>3. ~Saves(<<>>)
  BY DEF Saves
<1>4. /\ Settles(<<>>, disk, bitmap) => bitmap = disk[BitmapBlock].used
      /\ Accounts(thr[t].call.op, thr[t].ret) =>
           Settles(<<>>, disk, bitmap) \/ (thr[t].call.op = "write" /\ bitmap = settled.bitmap)
  BY <1>1, <1>3 DEF TidyThread, Tidy, Settles
<1>5. /\ Accounting(reply') => Accounts(thr[t].call.op, thr[t].ret)
      /\ Accounting(reply') => thr[t].call.op # "write" \/ bitmap # settled.bitmap
  BY <1>1 DEF Accounting, Accounts, Saver, Adding, Removing
<1> QED
  BY <1>1, <1>2, <1>4, <1>5 DEF Tidy

\* A call that begins has no queue that could change the bitmap.
LEMMA BeginTidy ==
    ASSUME NEW t \in Threads, StepIInv(t), TidyThread(t), NEW c \in Requests, Begin(t, c)
    PROVE  ~Busy(t) /\ Tidy(thr'[t], disk', bitmap', settled'.bitmap)
<1> DEFINE r == [Idle EXCEPT !.call = c]
<1>1. thr[t].at = "idle" /\ thr' = [thr EXCEPT ![t] = Start(c)] /\ thr \in [Threads -> ThreadType]
  BY DEF Begin, StepIInv
<1>2. thr'[t] = Start(c)
  BY <1>1
<1>3. Shaped(r) /\ r.call = c
  BY IdleType, TypeShaped DEF Shaped, ThreadType
<1>4. \/ c.op = "statfs" /\ Start(c) = Do(r, <<>>, OK)
      \/ Start(c) = Do(r, <<>>, EINVAL)
      \/ \E goal, path : Start(c) = Walk(r, goal, path)
  BY DEF Start, Answer
<1> HIDE DEF r
<1>5. \/ Start(c).call.op = "statfs" \/ Start(c).ret = EINVAL \/ Start(c).at = "inode"
  <2>1. /\ Do(r, <<>>, OK).call = c /\ Do(r, <<>>, EINVAL).ret = EINVAL
        /\ \A goal, path : Walk(r, goal, path).at = "inode"
    BY <1>3, Shapes
  <2> QED
    BY <1>4, <2>1
<1>6. thr'[t].at # "todo" \/ ~Accounts(thr'[t].call.op, thr'[t].ret)
  BY <1>2, <1>5 DEF Accounts, Saver, Adding, Removing, EINVAL, OK
<1>7. bitmap' = settled'.bitmap
  BY <1>1 DEF Begin, TidyThread, Tidy
<1>8. Tidy(thr'[t], disk', bitmap', settled'.bitmap)
  BY <1>6, <1>7 DEF Tidy
<1> QED
  BY <1>1, <1>8 DEF Busy

\* A step of the system: the invariant, and the bitmap of a call that returns.
SavedIfDone(t) ==
    Busy(t) /\ thr'[t] = Idle /\ Accounting(reply') => bitmap' = disk'[BitmapBlock].used

\* Every step keeps the queue tidy, and returns success only when the bitmap is saved.
LEMMA TidyKeeps ==
    ASSUME NEW t \in Threads, Threads = {t}, StepIInv(t), TidyThread(t), Counted,
           [StepNext]_stepVars, ~stops'.astray
    PROVE  TidyThread(t)' /\ SavedIfDone(t)
<1>1. CASE Return(t)
  BY <1>1, ReturnSaved DEF SavedIfDone, TidyThread
<1>2. ASSUME Calm(t) PROVE TidyThread(t)' /\ SavedIfDone(t)
  <2>1. thr'[t] # Idle
    BY <1>2, IdleType DEF Calm
  <2> QED
    BY <1>2, <2>1 DEF Calm, SavedIfDone, TidyThread
<1>3. CASE Proceed(t) /\ ~Return(t)
  BY <1>2, <1>3, ProceedCalm
<1>4. CASE Fault(t)
  BY <1>2, <1>4, ErrorCalm
<1>5. ASSUME NEW c \in Requests, Begin(t, c) PROVE TidyThread(t)' /\ SavedIfDone(t)
  BY <1>5, BeginTidy DEF SavedIfDone, TidyThread
<1>6. CASE Restart
  <2>1. thr' = [u \in Threads |-> Idle] /\ reply'.op = "init" /\ settled'.bitmap = bitmap'
    BY <1>6 DEF Restart
  <2>2. thr'[t].at = "idle"
    BY <2>1, IdleType
  <2>3. ~Accounting(reply')
    BY <2>1 DEF Accounting, Adding, Removing
  <2> QED
    BY <2>1, <2>2, <2>3 DEF Tidy, TidyThread, SavedIfDone
<1>7. CASE UNCHANGED stepVars
  <2>1. thr' = thr /\ disk' = disk /\ bitmap' = bitmap /\ settled' = settled
    BY <1>7 DEF stepVars
  <2>2. Busy(t) => thr[t] # Idle
    BY IdleType DEF Busy
  <2> QED
    BY <2>1, <2>2 DEF SavedIfDone, TidyThread
<1>8. \A u \in Threads : u = t
  OBVIOUS
<1>9. StepNext => Proceed(t) \/ Fault(t) \/ (\E c \in Requests : Begin(t, c)) \/ Restart
  BY <1>8 DEF StepNext
<1> QED
  BY <1>1, <1>3, <1>4, <1>5, <1>6, <1>7, <1>9

-----------------------------------------------------------------------------
(* What a step changes of the tree                                         *)

\* What the tree has at a path is what the image shows there.
LEMMA AtShown == \A q \in Parsed : At(tree, q) = Shown(disk, q) /\ At(tree', q) = Shown(disk', q)
<1> DEFINE In(d) == [q \in {r \in Parsed : Translate(d, r) >= 0} |-> NodeIn(d, Translate(d, q))]
<1>1. tree = In(disk) /\ tree' = In(disk')
  BY DEF tree, Node, NodeIn, ByteAt
<1>2. ASSUME NEW d, NEW q \in Parsed PROVE At(In(d), q) = Shown(d, q)
  <2>1. DOMAIN In(d) = {r \in Parsed : Translate(d, r) >= 0}
    OBVIOUS
  <2>2. Translate(d, q) >= 0 => In(d)[q] = NodeIn(d, Translate(d, q))
    OBVIOUS
  <2> HIDE DEF In
  <2> QED
    BY <2>1, <2>2 DEF At, Shown
<1> HIDE DEF In
<1> QED
  BY <1>1, <1>2

\* The paths that a call owns are those of Own.
LEMMA OwnsOwn ==
    ASSUME NEW c, SaneCall(c), NEW q \in Parsed
    PROVE  q \in Seq(Names) /\ (q \in Owns(c) => q \in Own(c))
<1>1. q \in Seq(Names)
  BY PathTyped DEF Parsed
<1>2. Parse(c.path) \in Seq(Names) /\ (c.op \in Moving => Parse(c.dst) \in Seq(Names))
  BY ParseProperty DEF SaneCall
<1>3. Above(Parse(c.path), q) => IsPrefix(Parse(c.path), q)
  BY <1>1, <1>2, PrefixAbove
<1>4. c.op \in Moving /\ Above(Parse(c.dst), q) => IsPrefix(Parse(c.dst), q)
  BY <1>1, <1>2, PrefixAbove
<1> QED
  BY <1>1, <1>3, <1>4 DEF Owns, Own

\* A step writes for a call that is under way, and spares what is not its own.  The invariant in
\* the hypothesis is what no call that has gone astray need keep.
LEMMA StepSpares ==
    ASSUME NEW t \in Threads, Threads = {t}, StepIInv(t), [StepNext]_stepVars, disk' # disk
    PROVE  Busy(t) /\ Spares(disk, disk', Owns(thr[t].call)) /\ SaneCall(thr[t].call)
<1>1. ASSUME PutNext(t) \/ SaveNext(t) \/ StoreNext(t)
      PROVE  Busy(t) /\ Spares(disk, disk', Owns(thr[t].call)) /\ SaneCall(thr[t].call)
  <2>1. Spares(disk, disk', Owns(thr[t].call))
    BY <1>1, PutStep, SaveStep, StoreStep
  <2>2. PICK what : ToDo(t, what)
    BY <1>1 DEF PutNext, SaveNext, StoreNext
  <2>3. SaneCall(thr[t].call) /\ thr[t].at = "todo"
    BY <2>2, QueueFacts
  <2> QED
    BY <2>1, <2>3 DEF Busy
<1>2. ~SeekBlock(t) /\ ~ReadNowhere(t) /\ ~WalkInode(t) /\ ~WalkEntries(t) /\ ~Stray(t)
  BY DEF SeekBlock, ReadNowhere, WalkInode, WalkEntries, Stray, ReadBlock, Device!Seek, Device!Read
<1>3. ~Getattr1(t) /\ ~Readdir1(t) /\ ~Readdir2(t) /\ ~Create1(t) /\ ~Create2(t)
  BY DEF Getattr1, Readdir1, Readdir2, Create1, Create2, Resolved, Listed, Arrives, Scans, ReadBlock, Device!Read
<1>4. ~Unlink1(t) /\ ~Rmdir1(t) /\ ~Rmdir2(t) /\ ~Remove1(t) /\ ~Remove2(t)
  BY DEF Unlink1, Rmdir1, Rmdir2, Remove1, Remove2, Resolved, Listed, Arrives, Scans, ReadBlock, Device!Read
<1>5. ~Rename1(t) /\ ~Rename2(t) /\ ~Rename3(t) /\ ~Rename4(t)
  BY DEF Rename1, Rename2, Rename3, Rename4, Resolved, Listed, Arrives, Scans, ReadBlock, Device!Read
<1>6. ~Chmod1(t) /\ ~Refused(t) /\ ~Utime1(t) /\ ~Truncate1(t) /\ ~Read1(t) /\ ~Write1(t)
  BY DEF Chmod1, Refused, Utime1, Truncate1, Read1, Write1, ResolvedFile, Resolved, Arrives, ReadBlock, Device!Read
<1>7. ~FetchNext(t) /\ ~LoadNext(t) /\ ~BitsNext(t) /\ ~CountNext(t) /\ ~Return(t)
  BY DEF FetchNext, LoadNext, BitsNext, CountNext, Return, ReadBlock, Device!Read
<1>8. Proceed(t) => PutNext(t) \/ SaveNext(t) \/ StoreNext(t)
  BY <1>2, <1>3, <1>4, <1>5, <1>6, <1>7 DEF Proceed
<1>9. ~Fault(t) /\ ~Restart /\ \A c : ~Begin(t, c)
  BY DEF Fault, Restart, Begin
<1>10. \A u \in Threads : u = t
  OBVIOUS
<1>11. StepNext => Proceed(t) \/ Fault(t) \/ (\E c \in Requests : Begin(t, c)) \/ Restart
  BY <1>10 DEF StepNext
<1>12. ~UNCHANGED stepVars
  BY DEF stepVars
<1> QED
  BY <1>1, <1>8, <1>9, <1>11, <1>12

\* What changes in the tree is a call's own.
ChangesOwn ==
    \A q \in Parsed : At(tree', q) # At(tree, q) => \E t \in Threads : Busy(t) /\ q \in Own(thr[t].call)

\* A step that changes the image does.
LEMMA StepOwn ==
    ASSUME NEW t \in Threads, Threads = {t}, StepIInv(t), [StepNext]_stepVars, disk' # disk
    PROVE  ChangesOwn
<1>1. Busy(t) /\ Spares(disk, disk', Owns(thr[t].call)) /\ SaneCall(thr[t].call)
  BY StepSpares
<1>2. ASSUME NEW q \in Parsed, At(tree', q) # At(tree, q) PROVE q \in Own(thr[t].call)
  <2>1. Shown(disk', q) # Shown(disk, q)
    BY <1>2, AtShown
  <2>2. q \in Seq(Names) /\ (q \in Owns(thr[t].call) => q \in Own(thr[t].call))
    BY <1>1, OwnsOwn
  <2> QED
    BY <1>1, <2>1, <2>2 DEF Spares
<1> QED
  BY <1>1, <1>2 DEF ChangesOwn

-----------------------------------------------------------------------------
(* The theorems                                                            *)

\* How each step changes the counts, and whether calls have gone astray.
Counts ==
    \/ stops' = stops
    \/ \E b \in BOOLEAN : stops' = [stops EXCEPT !.astray = @ \/ b]
    \/ stops' = [stops EXCEPT !.crashes = @ + 1]
    \/ stops' = [stops EXCEPT !.faults = @ + 1]

\* A handler that is given blocks may go astray,
LEMMA HandsCounts ==
    ASSUME NEW blocks, HandsOut(blocks)
    PROVE  Counts
<1> DEFINE b == Range(blocks) \cap owed # {}
<1>1. stops' = [stops EXCEPT !.astray = @ \/ b] /\ b \in BOOLEAN
  BY DEF HandsOut
<1> HIDE DEF b
<1> QED
  BY <1>1 DEF Counts

\* and so may a call that takes a block for what it is not.
LEMMA StrayCounts ==
    ASSUME NEW t \in Threads, Stray(t)
    PROVE  Counts
<1> DEFINE b == thr[t].call.op \notin Looking
<1>1. stops' = stops \/ (stops' = [stops EXCEPT !.astray = @ \/ b] /\ b \in BOOLEAN)
  BY DEF Stray
<1> HIDE DEF b
<1> QED
  BY <1>1 DEF Counts

\* No step but these and the stops and faults themselves counts.
LEMMA ProceedCounts ==
    ASSUME NEW t \in Threads, Proceed(t)
    PROVE  Counts
<1>1. CASE SeekBlock(t) \/ ReadNowhere(t) \/ WalkInode(t) \/ WalkEntries(t)
  BY <1>1 DEF SeekBlock, ReadNowhere, WalkInode, WalkEntries, Counts
<1>2. CASE Getattr1(t) \/ Readdir1(t) \/ Readdir2(t) \/ Create1(t)
  BY <1>2 DEF Getattr1, Readdir1, Readdir2, Create1, Resolved, Listed, Counts
<1>3. CASE Unlink1(t) \/ Rmdir1(t) \/ Rmdir2(t) \/ Remove1(t) \/ Remove2(t)
  BY <1>3 DEF Unlink1, Rmdir1, Rmdir2, Remove1, Remove2, Resolved, Listed, Counts
<1>4. CASE Rename1(t) \/ Rename2(t) \/ Rename3(t) \/ Rename4(t)
  BY <1>4 DEF Rename1, Rename2, Rename3, Rename4, Resolved, Listed, Counts
<1>5. CASE Chmod1(t) \/ Refused(t) \/ Utime1(t) \/ Truncate1(t) \/ Read1(t)
  BY <1>5 DEF Chmod1, Refused, Utime1, Truncate1, Read1, ResolvedFile, Resolved, Counts
<1>6. CASE PutNext(t) \/ SaveNext(t) \/ StoreNext(t) \/ FetchNext(t)
  BY <1>6 DEF PutNext, SaveNext, StoreNext, FetchNext, WriteBlock, Counts
<1>7. CASE LoadNext(t) \/ BitsNext(t) \/ CountNext(t) \/ Return(t)
  BY <1>7 DEF LoadNext, BitsNext, CountNext, Return, Counts
<1>8. CASE Create2(t)
  <2>1. stops' = stops \/ \E blocks : HandsOut(blocks)
    BY <1>8 DEF Create2
  <2> QED
    BY <2>1, HandsCounts DEF Counts
<1>9. CASE Write1(t)
  <2>1. stops' = stops \/ \E blocks : HandsOut(blocks)
    BY <1>9 DEF Write1
  <2> QED
    BY <2>1, HandsCounts DEF Counts
<1>10. CASE Stray(t)
  BY <1>10, StrayCounts
<1> QED
  BY <1>1, <1>2, <1>3, <1>4, <1>5, <1>6, <1>7, <1>8, <1>9, <1>10 DEF Proceed

\* Calls that have gone astray stay so.
LEMMA AstrayStays ==
    ASSUME Counted, [StepNext]_stepVars
    PROVE  Counted' /\ (stops.astray => stops'.astray)
<1>1. Counts
  <2>1. ASSUME NEW t \in Threads, Proceed(t) PROVE Counts
    BY <2>1, ProceedCounts
  <2>2. ASSUME NEW t \in Threads, Fault(t) PROVE Counts
    BY <2>2 DEF Fault, Counts
  <2>3. ASSUME NEW t \in Threads, NEW c \in Requests, Begin(t, c) PROVE Counts
    BY <2>3 DEF Begin, Counts
  <2>4. ASSUME Restart PROVE Counts
    BY <2>4 DEF Restart, Counts
  <2>5. ASSUME UNCHANGED stepVars PROVE Counts
    BY <2>5 DEF stepVars, Counts
  <2> QED
    BY <2>1, <2>2, <2>3, <2>4, <2>5 DEF StepNext
<1>2. CASE \E b \in BOOLEAN : stops' = [stops EXCEPT !.astray = @ \/ b]
  <2>1. PICK b \in BOOLEAN : stops' = [stops EXCEPT !.astray = @ \/ b]
    BY <1>2
  <2>2. (stops.astray \/ b) \in BOOLEAN
    BY DEF Counted
  <2>3. stops' = [stops EXCEPT !.astray = (stops.astray \/ b)]
    BY <2>1
  <2> DEFINE v == stops.astray \/ b
  <2>4. v \in BOOLEAN /\ stops' = [stops EXCEPT !.astray = v] /\ (stops.astray => v)
    BY <2>2, <2>3
  <2> HIDE DEF v
  <2> QED
    BY <2>4 DEF Counted
<1>3. CASE stops' = [stops EXCEPT !.crashes = @ + 1] \/ stops' = [stops EXCEPT !.faults = @ + 1]
  BY <1>3 DEF Counted
<1>4. CASE stops' = stops
  BY <1>4 DEF Counted
<1> QED
  BY <1>1, <1>2, <1>3, <1>4 DEF Counts

\* The inductive invariant of all calls: that of the steps, with what is left to save, until
\* calls go astray.
Followed(t) == Counted /\ (stops.astray \/ (StepIInv(t) /\ TidyThread(t)))

\* It holds at first.
LEMMA FollowedInit ==
    ASSUME NEW t \in Threads, Threads = {t}, StepInit
    PROVE  Followed(t)
<1>1. Counted
  BY DEF StepInit, Counted
<1>2. thr[t].at = "idle" /\ settled.bitmap = bitmap
  BY IdleType DEF StepInit
<1> QED
  BY <1>1, <1>2, InitStep DEF Followed, TidyThread, Tidy

\* Each step keeps it, or takes the calls astray, or has done so before.
LEMMA FollowedKeeps ==
    ASSUME NEW t \in Threads, Threads = {t}, Followed(t), [StepNext]_stepVars
    PROVE  Followed(t)'
<1>1. Counted /\ Counted' /\ (stops.astray => stops'.astray)
  BY AstrayStays DEF Followed
<1>2. ASSUME ~stops'.astray PROVE StepIInv(t)' /\ TidyThread(t)'
  <2>1. StepIInv(t) /\ TidyThread(t)
    BY <1>1, <1>2 DEF Followed
  <2> QED
    BY <1>1, <1>2, <2>1, StepKeeps, TidyKeeps
<1> QED
  BY <1>1, <1>2 DEF Followed

\* A step that is followed: what it leaves of the bitmap, and what it changes of the tree.
LEMMA FollowedStep ==
    ASSUME NEW t \in Threads, Threads = {t}, Followed(t), [StepNext]_stepVars, ~stops'.astray
    PROVE  SavedIfDone(t) /\ (disk' # disk => ChangesOwn)
<1>1. Counted /\ StepIInv(t) /\ TidyThread(t)
  BY AstrayStays DEF Followed
<1> QED
  BY <1>1, TidyKeeps, StepOwn

\* With one thread, every copy, queue and buffer of the split handlers has its type, whatever
\* was cut short before, until a call goes astray: it is given a block that is owed, or goes by
\* what it reads in a directory that was never zeroed.
THEOREM StepTypeCorrect ==
    ASSUME NEW t \in Threads, Threads = {t}
    PROVE  StepSpec => [](~stops.astray => StepTypeOK)
<1>1. StepInit => Followed(t)
  BY FollowedInit
<1>2. Followed(t) /\ [StepNext]_stepVars => Followed(t)'
  BY FollowedKeeps
<1>3. Followed(t) => (~stops.astray => StepTypeOK)
  BY StepTypes DEF Followed
<1> QED
  BY <1>1, <1>2, <1>3, PTL DEF StepSpec

\* With one thread, wherever the process stops or the device fails, the blocks that paths lead
\* to are reserved on the disk and in memory, but for those that a create or mkdir that was cut
\* short has left owed; until a later call is given one of these, or goes by what it reads in a
\* directory that was never zeroed.
THEOREM OnlyAddingDanglesAlways ==
    ASSUME NEW t \in Threads, Threads = {t}
    PROVE  StepSpec => []OnlyAddingDangles
<1>1. StepInit => Followed(t)
  BY FollowedInit
<1>2. Followed(t) /\ [StepNext]_stepVars => Followed(t)'
  BY FollowedKeeps
<1>3. Followed(t) => OnlyAddingDangles
  BY HeldProperties DEF Followed, StepIInv, Phase, OnlyAddingDangles
<1> QED
  BY <1>1, <1>2, <1>3, PTL DEF StepSpec

\* Nor, until a call is given a block that is owed or goes by what it reads in a directory that
\* was never zeroed, do two paths lead to one inode, or two pointers to one block.  (After that
\* they may: the create that is given the inode of an earlier one goes astray.)
THEOREM NoneSharedAlways ==
    ASSUME NEW t \in Threads, Threads = {t}
    PROVE  StepSpec => []NoneShared
<1>1. StepInit => Followed(t)
  BY FollowedInit
<1>2. Followed(t) /\ [StepNext]_stepVars => Followed(t)'
  BY FollowedKeeps
<1>3. Followed(t) => NoneShared
  BY HeldProperties DEF Followed, StepIInv, Phase, NoneShared
<1> QED
  BY <1>1, <1>2, <1>3, PTL DEF StepSpec

\* With one thread, block 0 is not written, although every write of a pointer goes unchecked,
\* until a call goes astray.
THEOREM SuperblockAlwaysKept ==
    ASSUME NEW t \in Threads, Threads = {t}
    PROVE  StepSpec => [](~stops.astray => SuperblockKept)
<1>1. StepInit => Followed(t)
  BY FollowedInit
<1>2. Followed(t) /\ [StepNext]_stepVars => Followed(t)'
  BY FollowedKeeps
<1>3. Followed(t) => (~stops.astray => SuperblockKept)
  BY DEF Followed, StepIInv, Phase, Held, Backed, Shadow, SuperblockKept
<1> QED
  BY <1>1, <1>2, <1>3, PTL DEF StepSpec

\* With one thread, a call that allocates or frees blocks, be it a create, a removal, a truncate
\* or a write, returns success only if the bitmap on the disk is the one in memory, also after
\* calls that failed to write it, unless calls have gone astray.
THEOREM SavedOnSuccessAlways ==
    ASSUME NEW u \in Threads, Threads = {u}
    PROVE  StepSpec => SavedOnSuccess
<1> DEFINE A == \A t \in Threads :
                   Busy(t) /\ thr'[t] = Idle /\ Accounting(reply') /\ ~stops'.astray
                     => bitmap' = disk'[BitmapBlock].used
<1>1. StepInit => Followed(u)
  BY FollowedInit
<1>2. Followed(u) /\ [StepNext]_stepVars => Followed(u)'
  BY FollowedKeeps
<1>3. Followed(u) /\ [StepNext]_stepVars => [A]_stepVars
  <2>1. Followed(u) /\ [StepNext]_stepVars /\ ~stops'.astray => SavedIfDone(u)
    BY FollowedStep
  <2>2. \A t \in Threads : t = u
    OBVIOUS
  <2>3. Followed(u) /\ [StepNext]_stepVars => A
    BY <2>1, <2>2 DEF SavedIfDone
  <2> HIDE DEF A
  <2> QED
    BY <2>3
<1>4. SavedOnSuccess <=> [][A]_stepVars
  BY DEF SavedOnSuccess
<1> HIDE DEF A
<1> QED
  BY <1>1, <1>2, <1>3, <1>4, PTL DEF StepSpec

\* With one thread, a call that is cut short by a stop or by an I/O error, at any of its writes,
\* has changed nothing but the file or directory it is about, and the calls that follow change
\* nothing but theirs, until one of them goes astray: it is given a block that the call cut short
\* left owed, or goes by what it reads in a directory that was never zeroed.
THEOREM OnlyItsOwnAlways ==
    ASSUME NEW u \in Threads, Threads = {u}
    PROVE  StepSpec => OnlyItsOwn
<1> DEFINE A == disk' # disk /\ ~stops'.astray =>
                  LET before == tree  after == tree' IN
                  \A q \in Parsed : At(after, q) # At(before, q) =>
                      \E t \in Threads : Busy(t) /\ q \in Own(thr[t].call)
<1>1. StepInit => Followed(u)
  BY FollowedInit
<1>2. Followed(u) /\ [StepNext]_stepVars => Followed(u)'
  BY FollowedKeeps
<1>3. Followed(u) /\ [StepNext]_stepVars => [A]_stepVars
  <2>1. ChangesOwn => A
    BY DEF ChangesOwn
  <2>2. disk' = disk \/ stops'.astray => A
    OBVIOUS
  <2> HIDE DEF A
  <2> QED
    BY <2>1, <2>2, FollowedStep
<1>4. OnlyItsOwn <=> [][A]_stepVars
  BY DEF OnlyItsOwn
<1> HIDE DEF A
<1> QED
  BY <1>1, <1>2, <1>3, <1>4, PTL DEF StepSpec
=============================================================================
