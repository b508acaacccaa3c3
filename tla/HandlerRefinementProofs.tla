------------------------- MODULE HandlerRefinementProofs -------------------------
(***************************************************************************)
(* The split handlers implement the atomic ones, for disks, paths and files *)
(* of every size, one thread and a device that does not fail: the handlers  *)
(* that allocate, read and write, the steps that work off a queue, and the  *)
(* theorem.                                                                 *)
(***************************************************************************)
EXTENDS HandlerOutcomeProofs

\* The image with a new inode and its entry.
LEMMA LinkedImage ==
    ASSUME NEW r, NEW s, NEW E, InDir(r, s, E), DirOf(s, r.call.path) = r.inum, r.inum \in Blocks,
           s.disk \in [Blocks -> Content], NEW b, b # r.inum, b # r.ino.ptrs[0], NEW ino
    PROVE  LinkedIn(s, r.call.path, b, ino) =
           DirWritten([s.disk EXCEPT ![b] = ino], r.ino.ptrs[0],
                      [E EXCEPT ![Min(Vacant(E))] = [name |-> Leaf(r.call.path), inode |-> b]])
<1> DEFINE p == r.inum
           a == r.ino.ptrs[0]
           d == s.disk
           d1 == [d EXCEPT ![b] = ino]
           k == Min(Vacant(E))
           ent == [name |-> Leaf(r.call.path), inode |-> b]
<1>1. d[p] = r.ino /\ a \in Blocks /\ Entries(d, p) = E /\ FreeSlots(d, p) = Vacant(E)
  BY DEF InDir
<1>2. d1[p] = d[p] /\ d1[a] = d[a]
  BY <1>1
<1>3. LinkedIn(s, r.call.path, b, ino) = WithEntry(d1, p, k, ent)
  BY <1>1 DEF LinkedIn
<1> HIDE DEF d1, ent, k, a
<1>4. d1[p].ptrs[0] = a /\ Entries(d1, p) = E
  BY <1>1, <1>2 DEF Entries, a
<1>5. WithEntry(d1, p, k, ent) = DirWritten(d1, a, [E EXCEPT ![k] = ent])
  BY <1>4 DEF WithEntry, DirWritten
<1>6. QED
  BY <1>3, <1>5 DEF d1, ent, k, a

\* Two writes, others, then the counters and the blocks that are taken.
LEMMA TakesRun ==
    ASSUME NEW c, NEW a \in Jobs, a.do = "put", a.lba \in Blocks \ {SuperBlock},
           NEW b \in Jobs, b.do = "put", b.lba \in Blocks \ {SuperBlock}, NEW q \in Seq(Jobs), NEW e,
           NEW d, NEW m, NEW v, NEW s, NEW f,
           Runs(c, q, Scene(Written(Written(d, a), b), m, v, s, f), Scene(e, m, v, s, f)),
           NEW new, Range(new) \subseteq Blocks, NEW n \in Int
    PROVE  LET u == m \cup Range(new) IN
           Runs(c, ((<<a, b>> \o q) \o AdjustFree(n)) \o ModifyBitmap(new, TRUE), Scene(d, m, v, s, f),
                Scene(Saved(e, u), u, CountedBy(v, n), Idle.seen, f))
<1> DEFINE u == m \cup Range(new)
           d1 == Written(d, a)
           d2 == Written(d1, b)
           w == CountedBy(v, n)
           x == <<a, b>>
           y == AdjustFree(n)
           z == ModifyBitmap(new, TRUE)
           i == Idle.seen
           yes == TRUE
<1>1. Runs(c, x, Scene(d, m, v, s, f), Scene(d2, m, v, s, f))
  <2>1. Runs(c, <<a>>, Scene(d, m, v, s, f), Scene(d1, m, v, s, f))
    BY PutRuns
  <2> HIDE DEF d1
  <2>2. Runs(c, <<b>>, Scene(d1, m, v, s, f), Scene(d2, m, v, s, f))
    BY PutRuns
  <2> HIDE DEF d2
  <2>3. Runs(c, <<a>> \o <<b>>, Scene(d, m, v, s, f), Scene(d2, m, v, s, f))
    BY <2>1, <2>2, RunsBoth
  <2>4. <<a, b>> = <<a>> \o <<b>>
    BY OneByOne
  <2>5. QED
    BY <2>3, <2>4
<1> HIDE DEF x, d2
<1>2. Runs(c, x \o q, Scene(d, m, v, s, f), Scene(e, m, v, s, f))
  <2>1. Runs(c, q, Scene(d2, m, v, s, f), Scene(e, m, v, s, f))
    BY DEF d2
  <2>2. QED
    BY <1>1, <2>1, RunsBoth
<1>3. Runs(c, y, Scene(e, m, v, s, f), Scene(e, m, w, i, f))
  BY AdjustRuns
<1>4. Runs(c, z, Scene(e, m, w, i, f), Scene(Saved(e, u), u, w, i, f))
  <2>1. Flagged(m, new, TRUE) = u
    BY DEF Flagged
  <2> HIDE DEF w, i, yes
  <2>2. yes \in BOOLEAN
    BY DEF yes
  <2>3. LET g == Flagged(m, new, yes) IN
        Runs(c, ModifyBitmap(new, yes), Scene(e, m, w, i, f), Scene(Saved(e, g), g, w, Idle.seen, f))
    BY <2>2, ModifyRuns
  <2>4. QED
    BY <2>1, <2>3 DEF yes, i
<1> HIDE DEF u, w, y, z, i
<1>5. Runs(c, (x \o q) \o y, Scene(d, m, v, s, f), Scene(e, m, w, i, f))
  BY <1>2, <1>3, RunsBoth
<1>6. Runs(c, ((x \o q) \o y) \o z, Scene(d, m, v, s, f), Scene(Saved(e, u), u, w, i, f))
  BY <1>4, <1>5, RunsBoth
<1>7. QED
  BY <1>6 DEF x, y, z, u, w, i

\* A handler that does this.
LEMMA TakesDiscreet ==
    ASSUME NEW t \in Threads, Standing(t), Reticent, NEW a \in Jobs, a.do = "put", a.lba \in Blocks \ {SuperBlock},
           NEW b \in Jobs, b.do = "put", b.lba \in Blocks \ {SuperBlock}, NEW q \in Seq(Jobs), NEW e,
           NEW new, Range(new) \subseteq Blocks, NEW n \in Int,
           Becomes(t, Do(thr[t], ((<<a, b>> \o q) \o AdjustFree(n)) \o ModifyBitmap(new, TRUE), OK)),
           \A s, f : Runs(thr[t].call, q, Scene(Written(Written(settled.disk, a), b), bitmap, statVfs, s, f),
                          Scene(e, bitmap, statVfs, s, f)),
           \A y : AccountsFor(settled, y, e, settled.bitmap \cup Range(new), n) =>
                  Outcome(thr[t].call, OK, settled, y)
    PROVE  Discreet(t)
<1> DEFINE r == thr[t]
           c == r.call
           Q == ((<<a, b>> \o q) \o AdjustFree(n)) \o ModifyBitmap(new, TRUE)
           u == bitmap \cup Range(new)
           y == Scene(Saved(e, u), u, CountedBy(statVfs, n), Idle.seen, r.buf)
           seen == r.seen
           buf == r.buf
<1>1. Runs(c, Q, Scene(disk, bitmap, statVfs, seen, buf), y)
  <2>1. Runs(c, q, Scene(Written(Written(disk, a), b), bitmap, statVfs, seen, buf),
             Scene(e, bitmap, statVfs, seen, buf))
    BY DEF Standing, Current
  <2> HIDE DEF c, seen, buf
  <2>2. Runs(c, Q, Scene(disk, bitmap, statVfs, seen, buf),
             Scene(Saved(e, u), u, CountedBy(statVfs, n), Idle.seen, buf))
    BY <2>1, TakesRun
  <2>3. QED
    BY <2>2 DEF buf
<1>2. AccountsFor(settled, y, e, settled.bitmap \cup Range(new), n)
  BY DEF AccountsFor, Scene, Standing, Current
<1>3. Outcome(c, OK, settled, y)
  BY <1>2
<1>4. Becomes(t, Do(r, Q, OK))
  OBVIOUS
<1> HIDE DEF y, Q
<1>5. Full(r)
  BY DEF Standing
<1>6. QED
  BY <1>1, <1>3, <1>4, <1>5, Resolves

\* create_directory_entry of fs_create.
LEMMA CreateTakes ==
    ASSUME NEW t \in Threads, Standing(t), Reticent, NEW new \in FirstFree(bitmap, 1),
           Becomes(t, Do(thr[t], CreateEffects(thr[t], Listing, new), OK)),
           InDir(thr[t], settled, Listing), Vacant(Listing) # {},
           thr[t].inum \in Blocks, DirOf(settled, thr[t].call.path) = thr[t].inum, settled.disk \in [Blocks -> Content],
           {thr[t].inum, thr[t].ino.ptrs[0], SuperBlock} \subseteq bitmap,
           thr[t].call.op = "create", SaneCall(thr[t].call), Leaf(thr[t].call.path) \in Names,
           AddVerdict(settled, thr[t].call.path, 1) = OK
    PROVE  Discreet(t)
<1> DEFINE r == thr[t]
           c == r.call
           b == r.ino.ptrs[0]
           k == Min(Vacant(Listing))
           i == new[1]
           ino == NewInode("file", c.perm, c.now, 0)
           ent == [name |-> Leaf(c.path), inode |-> i]
           E == [Listing EXCEPT ![k] = ent]
           a1 == Put(i, ino)
           a2 == PutDir(b, E, Range(new))
           D == settled.disk
           e == LinkedIn(settled, c.path, i, ino)
           n == -1
           none == <<>>
<1>1. new \in [1 .. 1 -> Blocks \ bitmap]
  BY DEF FirstFree
<1>2. i \in Blocks \ bitmap /\ Range(new) = {i} /\ Len(new) = 1
  <2>1. DOMAIN new = {1} /\ Len(new) = 1
    BY <1>1
  <2>2. QED
    BY <1>1, <2>1 DEF Range
<1>3. b \in Blocks \ {SuperBlock} /\ i \in Blocks \ {SuperBlock} /\ i # r.inum /\ i # b /\ {i} \in SUBSET Blocks
  BY <1>2 DEF InDir
<1>4. Listing \in [Slots -> Entry \cup {NoEntry}] /\ k \in Slots
  <2>1. Vacant(Listing) \in SUBSET Nat /\ Vacant(Listing) \subseteq Slots
    BY LayoutAssumption DEF Vacant, Slots
  <2> HIDE DEF k
  <2>2. Min(Vacant(Listing)) \in Vacant(Listing)
    BY <2>1, MinProperty
  <2>3. QED
    BY <2>1, <2>2 DEF InDir, k
<1>5. ino \in Inode
  <2>1. c.perm \in Perms /\ c.now \in Times
    BY DEF SaneCall, Adding
  <2>2. QED
    BY <2>1, LayoutAssumption DEF NewInode, Inode, PtrIdx, Blocks
<1>6. E \in [Slots -> Entry \cup {NoEntry}]
  <2>1. ent \in Entry
    BY <1>3 DEF Entry
  <2>2. QED
    BY <1>4, <2>1
<1>7. CreateEffects(r, Listing, new) = ((<<a1, a2>> \o <<>>) \o AdjustFree(- Len(new))) \o ModifyBitmap(new, TRUE)
  BY DEF CreateEffects, Vacant
<1>8. e = DirWritten([D EXCEPT ![i] = ino], b, E)
  BY <1>3, LinkedImage, SMTT(30)
<1> HIDE DEF ino, E, e, k, ent
<1>9. a1 \in Jobs /\ a1.do = "put" /\ Written(D, a1) = [D EXCEPT ![i] = ino] /\ a1.lba = i
  <2>1. ino \in Content
    BY <1>5 DEF Content
  <2>2. Put(i, ino).lba = i
    BY DEF Put
  <2>3. i \in Blocks
    BY <1>3
  <2> HIDE DEF i, D
  <2>4. Put(i, ino) \in Jobs /\ Put(i, ino).do = "put" /\ Written(D, Put(i, ino)) = [D EXCEPT ![i] = ino]
    BY ONLY <2>1, <2>3, PutJob
  <2>5. QED
    BY <2>2, <2>4
<1> DEFINE D1 == [D EXCEPT ![i] = ino]
<1> HIDE DEF D1
<1>10. a2 \in Jobs /\ a2.do = "put" /\ a2.lba = b /\ Written(D1, a2) = DirWritten(D1, b, E)
  <2>1. PutDir(b, E, {i}).lba = b
    BY DEF PutDir
  <2> DEFINE links == {i}
  <2> HIDE DEF b, links
  <2>2. PutDir(b, E, links) \in Jobs /\ PutDir(b, E, links).do = "put" /\ Written(D1, PutDir(b, E, links)) = DirWritten(D1, b, E)
    BY <1>3, <1>6, PutDirJob DEF links
  <2>3. QED
    BY <1>2, <2>1, <2>2 DEF links
<1>11. Written(Written(D, a1), a2) = e
  BY <1>8, <1>9, <1>10 DEF D1
<1> HIDE DEF a1, a2
<1>12. \A s, f : Runs(c, <<>>, Scene(Written(Written(D, a1), a2), bitmap, statVfs, s, f),
                      Scene(e, bitmap, statVfs, s, f))
  BY <1>11, RunsOne
<1>13. \A y : AccountsFor(settled, y, e, settled.bitmap \cup Range(new), n) => Outcome(c, OK, settled, y)
  <2>1. settled.bitmap = bitmap
    BY DEF Standing, Current
  <2> DEFINE u == settled.bitmap \cup Range(new)
  <2>2. \A y : AccountsFor(settled, y, LinkedIn(settled, c.path, new[1], NewInode("file", c.perm, c.now, 0)),
                        settled.bitmap \cup {new[1]}, -1) => Creates(c, settled, y)
    BY <2>1 DEF Creates
  <2>3. \A y : Creates(c, settled, y) => Outcome(c, OK, settled, y)
    BY DEF Outcome
  <2>4. QED
    BY <1>2, <2>2, <2>3 DEF e, ino
<1>14. Becomes(t, Do(r, ((<<a1, a2>> \o <<>>) \o AdjustFree(n)) \o ModifyBitmap(new, TRUE), OK))
  BY <1>2, <1>7
<1>15. none \in Seq(Jobs) /\ n \in Int /\ Range(new) \subseteq Blocks
  BY <1>2
<1> HIDE DEF e, n, b, i
<1>16. Becomes(t, Do(r, ((<<a1, a2>> \o none) \o AdjustFree(n)) \o ModifyBitmap(new, TRUE), OK))
  BY <1>14
<1>17. \A s, f : Runs(c, none, Scene(Written(Written(D, a1), a2), bitmap, statVfs, s, f),
                      Scene(e, bitmap, statVfs, s, f))
  BY <1>12
<1> HIDE DEF none
<1>18. QED
  BY <1>3, <1>9, <1>10, <1>13, <1>15, <1>16, <1>17, TakesDiscreet

\* The same of fs_mkdir.
LEMMA MkdirTakes ==
    ASSUME NEW t \in Threads, Standing(t), Reticent, NEW new \in FirstFree(bitmap, 2),
           Becomes(t, Do(thr[t], CreateEffects(thr[t], Listing, new), OK)),
           InDir(thr[t], settled, Listing), Vacant(Listing) # {},
           thr[t].inum \in Blocks, DirOf(settled, thr[t].call.path) = thr[t].inum, settled.disk \in [Blocks -> Content],
           {thr[t].inum, thr[t].ino.ptrs[0], SuperBlock} \subseteq bitmap,
           thr[t].call.op = "mkdir", SaneCall(thr[t].call), Leaf(thr[t].call.path) \in Names,
           AddVerdict(settled, thr[t].call.path, 2) = OK
    PROVE  Discreet(t)
<1> DEFINE r == thr[t]
           c == r.call
           b == r.ino.ptrs[0]
           k == Min(Vacant(Listing))
           i == new[1]
           j == new[2]
           ino == NewInode("dir", c.perm, c.now, j)
           ent == [name |-> Leaf(c.path), inode |-> i]
           E == [Listing EXCEPT ![k] = ent]
           a1 == Put(i, ino)
           a2 == PutDir(b, E, Range(new))
           a3 == Put(j, EmptyDir)
           D == settled.disk
           l == LinkedIn(settled, c.path, i, ino)
           e == [l EXCEPT ![j] = EmptyDir]
           n == -2
           q == <<a3>>
<1>1. new \in [1 .. 2 -> Blocks \ bitmap]
  BY DEF FirstFree
<1>2. i \in Blocks \ bitmap /\ j \in Blocks \ bitmap /\ Range(new) = {i, j} /\ Len(new) = 2
  <2>1. DOMAIN new = {1, 2} /\ Len(new) = 2
    BY <1>1
  <2>2. QED
    BY <1>1, <2>1 DEF Range
<1>3. /\ b \in Blocks \ {SuperBlock} /\ i \in Blocks \ {SuperBlock} /\ j \in Blocks \ {SuperBlock}
      /\ i # r.inum /\ i # b /\ {i, j} \in SUBSET Blocks
  BY <1>2 DEF InDir
<1>4. Listing \in [Slots -> Entry \cup {NoEntry}] /\ k \in Slots
  <2>1. Vacant(Listing) \in SUBSET Nat /\ Vacant(Listing) \subseteq Slots
    BY LayoutAssumption DEF Vacant, Slots
  <2> HIDE DEF k
  <2>2. Min(Vacant(Listing)) \in Vacant(Listing)
    BY <2>1, MinProperty
  <2>3. QED
    BY <2>1, <2>2 DEF InDir, k
<1>5. ino \in Inode
  <2>1. j \in Blocks /\ 0 \in PtrIdx /\ 0 \in Blocks
    BY <1>3, LayoutAssumption DEF PtrIdx, Blocks
  <2>2. c.perm \in Perms /\ c.now \in Times
    BY DEF SaneCall, Adding
  <2>3. QED
    BY <2>1, <2>2, LayoutAssumption DEF NewInode, Inode
<1>6. E \in [Slots -> Entry \cup {NoEntry}]
  <2>1. ent \in Entry
    BY <1>3 DEF Entry
  <2>2. QED
    BY <1>4, <2>1
<1>7. CreateEffects(r, Listing, new) = ((<<a1, a2>> \o <<a3>>) \o AdjustFree(- Len(new))) \o ModifyBitmap(new, TRUE)
  BY DEF CreateEffects, Vacant
<1>8. l = DirWritten([D EXCEPT ![i] = ino], b, E)
  <2>1. i # r.inum /\ i # r.ino.ptrs[0]
    BY <1>3
  <2> HIDE DEF ino, i
  <2>2. LinkedIn(settled, r.call.path, i, ino) =
        DirWritten([settled.disk EXCEPT ![i] = ino], r.ino.ptrs[0],
                   [Listing EXCEPT ![Min(Vacant(Listing))] = [name |-> Leaf(r.call.path), inode |-> i]])
    BY <2>1, LinkedImage
  <2>3. QED
    BY <2>2
<1> HIDE DEF ino, E, l, k, ent
<1>9. a1 \in Jobs /\ a1.do = "put" /\ Written(D, a1) = [D EXCEPT ![i] = ino] /\ a1.lba = i
  <2>1. ino \in Content
    BY <1>5 DEF Content
  <2>2. Put(i, ino).lba = i
    BY DEF Put
  <2>3. i \in Blocks
    BY <1>3
  <2> HIDE DEF i, D
  <2>4. Put(i, ino) \in Jobs /\ Put(i, ino).do = "put" /\ Written(D, Put(i, ino)) = [D EXCEPT ![i] = ino]
    BY ONLY <2>1, <2>3, PutJob
  <2>5. QED
    BY <2>2, <2>4
<1> DEFINE D1 == [D EXCEPT ![i] = ino]
<1> HIDE DEF D1
<1>10. a2 \in Jobs /\ a2.do = "put" /\ a2.lba = b /\ Written(D1, a2) = DirWritten(D1, b, E)
  <2>1. PutDir(b, E, {i, j}).lba = b
    BY DEF PutDir
  <2> DEFINE links == {i, j}
  <2> HIDE DEF b, links
  <2>2. PutDir(b, E, links) \in Jobs /\ PutDir(b, E, links).do = "put" /\ Written(D1, PutDir(b, E, links)) = DirWritten(D1, b, E)
    BY <1>3, <1>6, PutDirJob DEF links
  <2>3. QED
    BY <1>2, <2>1, <2>2 DEF links
<1>11. Written(Written(D, a1), a2) = l
  BY <1>8, <1>9, <1>10 DEF D1
<1>12. a3 \in Jobs /\ a3.do = "put" /\ a3.lba = j /\ Written(l, a3) = e
  <2>1. EmptyDir \in Content
    BY DEF EmptyDir, Content, DirBlock
  <2>2. Put(j, EmptyDir).lba = j
    BY DEF Put
  <2>3. j \in Blocks
    BY <1>3
  <2> HIDE DEF j
  <2>4. Put(j, EmptyDir) \in Jobs /\ Put(j, EmptyDir).do = "put" /\ Written(l, Put(j, EmptyDir)) = [l EXCEPT ![j] = EmptyDir]
    <3> DEFINE x == EmptyDir
    <3>1. x \in Content
      BY <2>1
    <3> HIDE DEF x
    <3>2. Put(j, x) \in Jobs /\ Put(j, x).do = "put" /\ Written(l, Put(j, x)) = [l EXCEPT ![j] = x]
      BY ONLY <2>3, <3>1, PutJob
    <3>3. QED
      BY <3>2 DEF x
  <2>5. QED
    BY <2>2, <2>4
<1> HIDE DEF a1, a2, a3
<1>13. \A s, f : Runs(c, q, Scene(Written(Written(D, a1), a2), bitmap, statVfs, s, f),
                      Scene(e, bitmap, statVfs, s, f))
  <2>1. a3.lba \in Blocks \ {SuperBlock}
    BY <1>3, <1>12
  <2> HIDE DEF e, c
  <2>2. \A s, f : Runs(c, <<a3>>, Scene(l, bitmap, statVfs, s, f), Scene(Written(l, a3), bitmap, statVfs, s, f))
    BY <1>12, <2>1, PutRuns
  <2>3. QED
    BY <1>11, <1>12, <2>2
<1>14. \A y : AccountsFor(settled, y, e, settled.bitmap \cup Range(new), n) => Outcome(c, OK, settled, y)
  <2>1. settled.bitmap = bitmap
    BY DEF Standing, Current
  <2>2. \A y : AccountsFor(settled, y, [LinkedIn(settled, c.path, new[1], NewInode("dir", c.perm, c.now, new[2]))
                                        EXCEPT ![new[2]] = EmptyDir],
                        settled.bitmap \cup {new[1], new[2]}, -2) => MakesDir(c, settled, y)
    BY <2>1 DEF MakesDir
  <2>3. \A y : MakesDir(c, settled, y) => Outcome(c, OK, settled, y)
    BY DEF Outcome
  <2>4. QED
    BY <1>2, <2>2, <2>3 DEF l, ino
<1>15. Becomes(t, Do(r, ((<<a1, a2>> \o <<a3>>) \o AdjustFree(n)) \o ModifyBitmap(new, TRUE), OK))
  BY <1>2, <1>7
<1>16. q \in Seq(Jobs) /\ n \in Int /\ Range(new) \subseteq Blocks
  BY <1>2, <1>12
<1> HIDE DEF e, n, b, i, j
<1>17. Becomes(t, Do(r, ((<<a1, a2>> \o q) \o AdjustFree(n)) \o ModifyBitmap(new, TRUE), OK))
  BY <1>15
<1> HIDE DEF q
<1>18. QED
  BY <1>3, <1>9, <1>10, <1>13, <1>14, <1>16, <1>17, TakesDiscreet

\* create_directory_entry.
LEMMA CreateDiscreet ==
    ASSUME NEW t \in Threads, StepIInv(t), Trusty(t), Reliable, Create2(t)
    PROVE  Discreet(t)
<1> DEFINE r == thr[t]
           c == r.call
           p == r.inum
           n == IF c.op = "mkdir" THEN 2 ELSE 1
           hits == Named(Listing, Leaf(c.path))
           free == FirstFree(bitmap, n)
<1>1. Scans(t, Adding, "parent")
  BY DEF Create2
<1>2. /\ Standing(t) /\ Reticent /\ c.op \in Adding /\ SaneCall(c) /\ InDir(r, settled, Listing)
      /\ AtParent(r, settled, r.ino)
  BY <1>1, ListedView
<1>3. /\ DirOf(settled, c.path) = p /\ p \in Blocks /\ ~(p < 0) /\ IsDir(settled.disk, p)
      /\ Matches(settled.disk, p, Leaf(c.path)) = hits /\ FreeSlots(settled.disk, p) = Vacant(Listing)
      /\ Leaf(c.path) \in Names
  BY <1>2 DEF InDir, AtParent, Blocks
<1>4. settled.disk = disk /\ settled.bitmap = bitmap
  BY <1>2 DEF Standing, Current
<1>5. AddVerdict(settled, c.path, n) = IF hits # {} THEN EEXIST
                                       ELSE IF Vacant(Listing) = {} THEN ENOSPC
                                       ELSE IF free = {} THEN ENOSPC
                                       ELSE OK
  <2> HIDE DEF hits, p, n
  <2>1. QED
    BY <1>3, <1>4 DEF AddVerdict
<1>6. \A v : v = AddVerdict(settled, c.path, n) => Judged(settled, c, v)
  BY <1>2 DEF Judged, Adding
<1>7. /\ hits # {} => Becomes(t, Answer(r, EEXIST))
      /\ hits = {} /\ (Vacant(Listing) = {} \/ free = {}) => Becomes(t, Answer(r, ENOSPC))
      /\ hits = {} /\ Vacant(Listing) # {} /\ free # {} =>
            \E new \in free : Becomes(t, Do(r, CreateEffects(r, Listing, new), OK))
  BY DEF Create2
<1> HIDE DEF hits, free
<1>8. CASE hits # {}
  <2>1. EEXIST < 0 /\ Judged(settled, c, EEXIST)
    BY <1>5, <1>6, <1>8 DEF EEXIST
  <2>2. QED
    BY <1>2, <1>7, <1>8, <2>1, TurnsBack
<1>9. CASE hits = {} /\ (Vacant(Listing) = {} \/ free = {})
  <2>1. ENOSPC < 0 /\ Judged(settled, c, ENOSPC)
    BY <1>5, <1>6, <1>9 DEF ENOSPC
  <2>2. QED
    BY <1>2, <1>7, <1>9, <2>1, TurnsBack
<1>10. CASE hits = {} /\ Vacant(Listing) # {} /\ free # {}
  <2>1. PICK new \in free : Becomes(t, Do(r, CreateEffects(r, Listing, new), OK))
    BY <1>7, <1>10
  <2>2. PICK e, m : Lists(r, e, m, Listing)
    BY <1>1, ListedFacts
  <2>3. r \in ThreadType /\ Heads(r, e, m, disk, bitmap, owed) /\ r.at = "dir"
    BY <1>1, <2>2, ListedFacts DEF Lists
  <2>4. Backed(disk, e, m, bitmap, owed) /\ p \in DirsIn(e, m) /\ r.ino = e[p] /\ owed = {}
    BY <2>3, HeadsFacts, ListingFacts DEF Clean
  <2>5. /\ m \subseteq bitmap \cup owed /\ SuperBlock \in m /\ p \in m /\ r.ino.ptrs[0] \in m
        /\ disk \in [Blocks -> Content]
    BY <2>4, BackedFacts, ShadowFacts
  <2>6. {p, r.ino.ptrs[0], SuperBlock} \subseteq bitmap
    BY <2>4, <2>5
  <2>7. AddVerdict(settled, c.path, n) = OK
    BY <1>5, <1>10
  <2>8. CASE c.op = "create"
    <3>1. new \in FirstFree(bitmap, 1) /\ AddVerdict(settled, c.path, 1) = OK
      BY <2>7, <2>8 DEF free
    <3>2. QED
      BY <1>2, <1>3, <1>4, <1>10, <2>1, <2>5, <2>6, <2>8, <3>1, CreateTakes
  <2>9. CASE c.op = "mkdir"
    <3>1. new \in FirstFree(bitmap, 2) /\ AddVerdict(settled, c.path, 2) = OK
      BY <2>7, <2>9 DEF free
    <3>2. QED
      BY <1>2, <1>3, <1>4, <1>10, <2>1, <2>5, <2>6, <2>9, <3>1, MkdirTakes
  <2>10. QED
    BY <1>2, <2>8, <2>9 DEF Adding
<1>11. QED
  BY <1>8, <1>9, <1>10

-----------------------------------------------------------------------------
(* The calls that go through a buffer                                      *)

\* Byte j after an offset, counted from the start of the block the offset is in.
LEMMA BytesAfter ==
    ASSUME NEW n \in Nat \ {0}, NEW x \in Nat, NEW j \in Nat
    PROVE  /\ (x + j) \div n = x \div n + ((x % n) + j) \div n
           /\ (x + j) % n = ((x % n) + j) % n
           /\ ((x % n) + j) \div n \in Nat
<1> DEFINE lo == x \div n
           r == x % n
           p == r + j
           k == p \div n
           s == p % n
<1>1. lo \in Int /\ r \in 0 .. n - 1 /\ x = n * lo + r
  BY Division
<1>2. p \in Nat
  BY <1>1
<1> HIDE DEF lo, r
<1>3. k \in Int /\ s \in 0 .. n - 1 /\ p = n * k + s
  <2>1. p \in Int
    BY <1>2
  <2> HIDE DEF p
  <2>2. QED
    BY <2>1, Division
<1>4. k \in Nat
  <2>1. 0 \div n = 0
    BY QuotientUnique
  <2>2. 0 \div n <= k
    BY <1>2, DivMonotone
  <2>3. QED
    BY <1>3, <2>1, <2>2
<1>5. x + j = n * lo + p
  BY <1>1, <1>2, ProductMonotone
<1> HIDE DEF p, k, s
<1>6. n * (lo + k) = n * lo + n * k /\ n * (lo + k) \in Int
  BY <1>1, <1>3
<1>7. n * lo \in Int /\ n * k \in Int
  BY <1>1, <1>3, ProductMonotone
<1>8. x + j = n * (lo + k) + s
  BY <1>3, <1>5, <1>6, <1>7
<1> DEFINE y == x + j
           q == lo + k
<1>9. y \in Int /\ q \in Int /\ n * q <= y /\ y < n * q + n
  BY <1>1, <1>3, <1>6, <1>8
<1> HIDE DEF y, q
<1>10. y \div n = q
  BY <1>9, QuotientUnique
<1>11. y = n * (y \div n) + (y % n) /\ y % n \in 0 .. n - 1
  BY <1>9, Division
<1>12. y % n = s
  <2>1. y = n * q + (y % n) /\ y = n * q + s /\ n * q \in Int
    BY <1>6, <1>8, <1>10, <1>11 DEF y, q
  <2> DEFINE a == n * q
             b == y % n
  <2>2. b \in Int /\ a \in Int /\ y = a + b /\ y = a + s
    BY <1>11, <2>1
  <2> HIDE DEF a, b
  <2>3. b = s
    BY <1>3, <2>2
  <2>4. QED
    BY <2>3 DEF b
<1>13. QED
  BY <1>4, <1>10, <1>12 DEF y, q, p, k, s, lo, r

\* The pointers that fs_read follows.
LEMMA ReadShape ==
    ASSUME NEW size \in Nat, NEW from \in Nat, from < size, NEW len \in Nat \ {0}
    PROVE  \E hi \in Int :
              LET lo == from \div BlockSize  idx == ReadIdx(size, from, len) IN
              /\ lo \in Nat /\ lo <= hi /\ idx = lo .. hi /\ Cardinality(idx) = hi - lo + 1 /\ Min(idx) = lo
              /\ \A j \in Nat : from + j < size /\ j < len => (from + j) \div BlockSize <= hi
<1> DEFINE lo == from \div BlockSize
           top == (from + len - 1) \div BlockSize
           last == (size - 1) \div BlockSize
           hi == IF from + len > size THEN BlocksFor(size) ELSE top
<1>1. BlockSize \in Nat \ {0} /\ from \in Int /\ size - 1 \in Int /\ from + len - 1 \in Int
  BY LayoutAssumption
<1>2. BlocksFor(size) = last + 1
  BY LastBlock
<1>3. lo \in Nat /\ top \in Int /\ last \in Int
  <2>1. lo \in Int /\ top \in Int /\ last \in Int
    BY <1>1, Division
  <2>2. 0 \div BlockSize = 0
    BY <1>1, QuotientUnique
  <2>3. 0 \div BlockSize <= lo
    BY <1>1, DivMonotone
  <2>4. QED
    BY <2>1, <2>2, <2>3
<1>4. lo <= last /\ lo <= top
  <2>1. from <= size - 1 /\ from <= from + len - 1
    BY <1>1
  <2>2. QED
    BY <1>1, <2>1, DivMonotone
<1>5. ASSUME NEW j \in Nat, from + j < size, j < len PROVE (from + j) \div BlockSize <= hi
  <2> DEFINE x == from + j
  <2>1. x \in Int /\ x <= size - 1 /\ x <= from + len - 1
    BY <1>5
  <2> HIDE DEF x
  <2>2. x \div BlockSize <= last /\ x \div BlockSize <= top /\ x \div BlockSize \in Int
    BY <1>1, <2>1, DivMonotone, Division
  <2> HIDE DEF last, top
  <2>3. QED
    BY <1>2, <1>3, <2>2 DEF x
<1>6. ReadIdx(size, from, len) = lo .. hi
  BY DEF ReadIdx
<1> HIDE DEF lo, top, last
<1>7. hi \in Int /\ lo <= hi
  BY <1>2, <1>3, <1>4
<1> HIDE DEF hi
<1>8. Cardinality(lo .. hi) = hi - lo + 1
  BY <1>3, <1>7, FS_Interval
<1>9. Min(lo .. hi) = lo
  BY <1>3, <1>7 DEF Min
<1>10. QED
  BY <1>3, <1>5, <1>6, <1>7, <1>8, <1>9 DEF lo

\* A buffer of the blocks of a file from lo on.
InBuffer(buf, d, i, lo, count) == \A k \in 1 .. count : buf[k] = RawBytes(d[d[i].ptrs[lo + k - 1]])

\* Byte n after the offset is in these blocks.
Within(c, lo, hi, n) ==
    /\ c.offset \in Nat /\ lo = c.offset \div BlockSize /\ lo \in Int /\ hi \in Int /\ n \in Nat \ {0}
    /\ (c.offset + (n - 1)) \div BlockSize <= hi

\* A byte of the buffer of fs_read is the byte of the file.
LEMMA GivenByte ==
    ASSUME NEW c, NEW lo, NEW hi, NEW n, Within(c, lo, hi, n),
           NEW d, NEW i, NEW buf, NEW count, count = hi - lo + 1, InBuffer(buf, d, i, lo, count)
    PROVE  Given(c, buf, n) = ByteOf(d, i, c.offset + n - 1)
<1> DEFINE x == c.offset
           j == n - 1
           p == (x % BlockSize) + j
           k == p \div BlockSize
<1> USE DEF Within
<1>1. BlockSize \in Nat \ {0} /\ j \in Nat
  BY LayoutAssumption
<1>2. (x + j) \div BlockSize = lo + k /\ (x + j) % BlockSize = p % BlockSize /\ k \in Nat
  <2> HIDE DEF j, x
  <2>1. x \in Nat
    BY DEF x
  <2>2. QED
    BY <1>1, <2>1, BytesAfter DEF x
<1>3. x + n - 1 = x + j /\ (x % BlockSize) + n - 1 = p
  <2>1. x \in Int /\ x % BlockSize \in Int
    BY <1>1, Division
  <2> DEFINE r == x % BlockSize
  <2> HIDE DEF x, r
  <2>2. x + n - 1 = x + (n - 1) /\ r + n - 1 = r + (n - 1)
    BY <2>1 DEF r
  <2>3. QED
    BY <2>2 DEF r
<1>4. Given(c, buf, n) = buf[k + 1][p % BlockSize]
  BY <1>3 DEF Given
<1>5. ByteOf(d, i, x + n - 1) = RawBytes(d[d[i].ptrs[lo + k]])[p % BlockSize]
  BY <1>2, <1>3 DEF ByteOf
<1>6. lo + k <= hi
  BY <1>2
<1> HIDE DEF k, p, j
<1>7. k + 1 \in 1 .. hi - lo + 1 /\ lo + (k + 1) - 1 = lo + k
  BY <1>2, <1>6
<1>8. buf[k + 1] = RawBytes(d[d[i].ptrs[lo + k]])
  BY <1>7 DEF InBuffer
<1>9. QED
  BY <1>4, <1>5, <1>8

\* The pointers that fs_read follows, from lo to hi,
Spans(c, size, lo, hi) ==
    /\ lo \in Nat /\ hi \in Int /\ lo <= hi /\ lo = c.offset \div BlockSize
    /\ \A j \in Nat : c.offset + j < size /\ j < c.len => (c.offset + j) \div BlockSize <= hi

\* its reads of the blocks they lead to,
Chases(q, ptrs, lo, count) ==
    /\ q \in Seq(Jobs) /\ Len(q) = count
    /\ \A n \in 1 .. count : q[n] = Fetch(ptrs[lo + n - 1], n)

\* and how many bytes it returns.
Clipped(c, size, num) ==
    c.offset \in Nat /\ c.len \in Nat \ {0} /\ size \in Nat /\ num \in Nat /\ num <= c.len /\ c.offset + num <= size

\* The bytes it returns are those of the file.
LEMMA GivenBytes ==
    ASSUME NEW c, NEW size, NEW lo, NEW hi, Spans(c, size, lo, hi), NEW num, Clipped(c, size, num),
           NEW d, NEW i, NEW q, Chases(q, d[i].ptrs, lo, hi - lo + 1),
           NEW buf, \A k \in 1 .. hi - lo + 1 : buf[k] = RawBytes(d[q[k].lba])
    PROVE  \A n \in 1 .. num : Given(c, buf, n) = ByteOf(d, i, c.offset + n - 1)
<1>1. \A k \in 1 .. hi - lo + 1 : q[k].lba = d[i].ptrs[lo + k - 1]
  BY DEF Chases, Fetch
<1> DEFINE count == hi - lo + 1
<1>2. InBuffer(buf, d, i, lo, count)
  BY <1>1, Zenon DEF InBuffer
<1>3. SUFFICES ASSUME NEW n \in 1 .. num PROVE Given(c, buf, n) = ByteOf(d, i, c.offset + n - 1)
  OBVIOUS
<1> DEFINE j == n - 1
<1>4. j \in Nat /\ c.offset + j < size /\ j < c.len /\ n \in Nat \ {0} /\ c.offset \in Nat
  BY DEF Clipped
<1> HIDE DEF j
<1>5. (c.offset + j) \div BlockSize <= hi
  BY <1>4 DEF Spans
<1>6. lo \in Int /\ hi \in Int /\ lo = c.offset \div BlockSize
  BY DEF Spans
<1>7. Within(c, lo, hi, n) /\ count = hi - lo + 1
  BY <1>4, <1>5, <1>6 DEF Within, j
<1> HIDE DEF count
<1>8. QED
  BY <1>2, <1>7, GivenByte

\* fs_read, all of whose pointers lead to blocks,
LEMMA ReadGoes ==
    ASSUME NEW t \in Threads, Standing(t), Reticent, thr[t].call.op = "read",
           NEW size, NEW lo, NEW hi, Spans(thr[t].call, size, lo, hi), NEW num, Clipped(thr[t].call, size, num),
           FileAt(settled, thr[t].call.path) = thr[t].inum,
           NEW q, NEW count, count = hi - lo + 1, Chases(q, settled.disk[thr[t].inum].ptrs, lo, count),
           \A n \in 1 .. count : q[n].lba \in Blocks,
           ReadVerdict(settled, thr[t].call.path, thr[t].call.offset, thr[t].call.len) = num,
           Becomes(t, Do([thr[t] EXCEPT !.buf = ZeroBuffer(count)], q, num))
    PROVE  Discreet(t)
<1> DEFINE c == thr[t].call
           i == thr[t].inum
           z == ZeroBuffer(count)
           w == [thr[t] EXCEPT !.buf = z]
           f == [n \in DOMAIN z |-> IF n \in 1 .. Len(q) THEN RawBytes(disk[q[n].lba]) ELSE z[n]]
           seen == w.seen
           y == Scene(disk, bitmap, statVfs, seen, f)
<1>1. DOMAIN z = 1 .. count /\ z = [n \in DOMAIN z |-> z[n]]
  BY DEF ZeroBuffer
<1> HIDE DEF z
<1>2. Full(w) /\ w.call = c /\ w.buf = z
  <2>1. Full(thr[t])
    BY DEF Standing
  <2> DEFINE r == thr[t]
  <2>2. w = [r EXCEPT !.buf = z] /\ Full(r)
    BY <2>1
  <2> HIDE DEF r, w
  <2>3. Full(w) /\ w.call = r.call /\ w.buf = z
    BY <2>2, FieldsBuf
  <2>4. QED
    BY <2>3 DEF r
<1>3. q \in Seq(Jobs) /\ Len(q) = count /\ \A k \in 1 .. count : q[k] = Fetch(settled.disk[i].ptrs[lo + k - 1], k)
  BY Zenon DEF Chases
<1>4. \A k \in 1 .. Len(q) : q[k].do = "fetch" /\ q[k].lba \in Blocks /\ q[k].slot = k
  <2>1. \A k \in 1 .. Len(q) : q[k] = Fetch(settled.disk[i].ptrs[lo + k - 1], k) /\ q[k].lba \in Blocks
    BY <1>3
  <2>2. \A x, k : Fetch(x, k).do = "fetch" /\ Fetch(x, k).slot = k
    BY DEF Fetch
  <2>3. QED
    BY ONLY <2>1, <2>2
<1>5. Runs(c, q, Scene(disk, bitmap, statVfs, seen, z), y)
  <2> HIDE DEF seen, c
  <2>1. QED
    BY ONLY <1>1, <1>3, <1>4, FetchesRun, SMTT(60)
<1>6. settled.disk = disk /\ settled.bitmap = bitmap /\ settled.statVfs = statVfs
  BY DEF Standing, Current
<1>7. Unmoved(settled, y) /\ y.buf = f
  BY <1>6 DEF Unmoved, Scene
<1>8. \A k \in 1 .. hi - lo + 1 : f[k] = RawBytes(disk[q[k].lba])
  BY <1>1, <1>3
<1> HIDE DEF f, y
<1>9. \A n \in 1 .. num : Given(c, y.buf, n) = ByteOf(settled.disk, i, c.offset + n - 1)
  <2> DEFINE D == disk
  <2>1. Chases(q, D[i].ptrs, lo, hi - lo + 1) /\ \A k \in 1 .. hi - lo + 1 : f[k] = RawBytes(D[q[k].lba])
    BY <1>6, <1>8
  <2>2. Spans(c, size, lo, hi) /\ Clipped(c, size, num)
    OBVIOUS
  <2> HIDE DEF c, D, i
  <2>3. \A n \in 1 .. num : Given(c, f, n) = ByteOf(D, i, c.offset + n - 1)
    BY <2>1, <2>2, GivenBytes
  <2>4. QED
    BY <1>6, <1>7, <2>3 DEF D
<1>10. Outcome(c, num, settled, y)
  <2>1. num >= 0
    BY DEF Clipped
  <2>2. Reads(c, num, settled, y)
    BY <1>7, <1>9, <2>1 DEF Reads
  <2>3. QED
    BY <2>2 DEF Outcome
<1>11. Becomes(t, Do(w, q, num))
  BY DEF z
<1> HIDE DEF w
<1>12. QED
  BY <1>2, <1>5, <1>10, <1>11, Resolves

\* and one of whose pointers does not.
LEMMA ReadLost ==
    ASSUME NEW t \in Threads, Standing(t), Reticent, thr[t].call.op = "read", NEW z, NEW q \in Seq(Jobs), NEW num,
           \A k \in 1 .. Len(q) : q[k].do = "fetch", \E k \in 1 .. Len(q) : q[k].lba \notin Blocks,
           ReadVerdict(settled, thr[t].call.path, thr[t].call.offset, thr[t].call.len) = EIO,
           Becomes(t, Do([thr[t] EXCEPT !.buf = z], q, num))
    PROVE  Discreet(t)
<1> DEFINE c == thr[t].call
           w == [thr[t] EXCEPT !.buf = z]
           v == Do(w, q, num)
<1>1. Full(w) /\ w.call = c
  <2> DEFINE r == thr[t]
  <2>1. Full(r) /\ w = [r EXCEPT !.buf = z]
    BY DEF Standing
  <2> HIDE DEF r, w
  <2>2. Full(w) /\ w.call = r.call
    BY <2>1, FieldsBuf, SMTT(30)
  <2>3. QED
    BY <2>2 DEF r
<1>2. Becomes(t, v)
  OBVIOUS
<1> HIDE DEF w
<1>3. Full(v) /\ v.call = c /\ v.at = "todo" /\ v.todo = q
  BY <1>1, FieldsDo DEF Alike
<1> HIDE DEF v
<1>4. Doomed(v, disk, bitmap, statVfs, settled)
  BY <1>3 DEF Doomed, Standing
<1>5. Faithful(v, disk, bitmap, statVfs, settled)
  BY <1>3, <1>4 DEF Faithful, Standing
<1>6. QED
  BY <1>2, <1>3, <1>5, MovesOn

\* What fs_read returns, when it has found the file.
LEMMA ReadDecides ==
    ASSUME NEW s, NEW path, NEW from, NEW len, NEW i, FileAt(s, path) = i, ~(i < 0), NEW ino, s.disk[i] = ino
    PROVE  ReadVerdict(s, path, from, len) =
           IF from >= ino.size THEN 0
           ELSE IF \E k \in ReadIdx(ino.size, from, len) : ino.ptrs[k] \notin Blocks THEN EIO
           ELSE IF from + len > ino.size THEN ino.size - from
           ELSE len
  BY DEF ReadVerdict

\* fs_read.
LEMMA ReadDiscreet ==
    ASSUME NEW t \in Threads, StepIInv(t), Trusty(t), Read1(t)
    PROVE  Discreet(t)
<1> DEFINE r == thr[t]
           c == r.call
           i == r.inum
           from == c.offset
           idx == ReadIdx(Found.size, from, c.len)
           num == IF from + c.len > Found.size THEN Found.size - from ELSE c.len
           q == [n \in 1 .. Cardinality(idx) |-> Fetch(Found.ptrs[Min(idx) + n - 1], n)]
<1>1. /\ Resolved(t, {"read"}, "target") /\ Found.type = "file"
      /\ Becomes(t, IF from >= Found.size THEN Answer(r, 0)
                    ELSE Do([r EXCEPT !.buf = ZeroBuffer(Cardinality(idx))], q, num))
  BY DEF Read1, ResolvedFile
<1>2. Standing(t) /\ Reticent /\ c.op = "read" /\ AtTarget(r, settled, Found) /\ SaneCall(c)
  BY <1>1, ResolvedView
<1>3. i \in Blocks \ {SuperBlock} /\ Found \in Inode
  BY <1>1, ResolvedBlock
<1>4. InodeAt(settled, c.path) = i /\ settled.disk[i] = Found /\ i >= 0 /\ ~(i < 0)
  BY <1>2, <1>3 DEF AtTarget, Blocks
<1>5. FileAt(settled, c.path) = i
  BY <1>1, <1>3, <1>4 DEF FileAt, IsFile, IsInode, Inode
<1>6. from \in Nat /\ c.len \in Nat \ {0} /\ Found.size \in Nat
  BY <1>2, <1>3 DEF SaneCall, Inode
<1>7. ReadVerdict(settled, c.path, from, c.len) =
         IF from >= Found.size THEN 0
         ELSE IF \E k \in idx : Found.ptrs[k] \notin Blocks THEN EIO
         ELSE num
  <2> HIDE DEF i
  <2>1. QED
    BY <1>4, <1>5, ReadDecides
<1>8. BlocksFor(Found.size) < MaxPtrs
  <2>1. PICK e, m : Meets(r, e, m, Found)
    BY <1>1, ResolvedFacts
  <2>2. Sound(e, m) /\ i \in LiveIn(e, m) /\ Found = e[i]
    BY <1>1, <2>1, ResolvedFacts, HeadsFacts DEF Meets
  <2>3. QED
    BY <2>2, PointersLeft
<1>9. CASE from >= Found.size
  <2>1. \A y : Unmoved(settled, y) => Outcome(c, 0, settled, y)
    <3>1. ReadVerdict(settled, c.path, c.offset, c.len) = 0
      BY <1>7, <1>9
    <3>2. \A y : Unmoved(settled, y) => Reads(c, 0, settled, y)
      BY <1>2, <3>1 DEF Reads
    <3>3. QED
      BY <3>2 DEF Outcome
  <2>2. Becomes(t, Answer(r, 0))
    BY <1>1, <1>9
  <2>3. QED
    BY <1>2, <2>1, <2>2, TurnsBack
<1>10. CASE from < Found.size
  <2> DEFINE size == Found.size
  <2>1. ~(from >= size) /\ Clipped(c, size, num) /\ num \in Nat
    BY <1>6, <1>10 DEF Clipped
  <2>2. PICK hi \in Int : LET lo == from \div BlockSize IN
            /\ lo \in Nat /\ lo <= hi /\ idx = lo .. hi /\ Cardinality(idx) = hi - lo + 1 /\ Min(idx) = lo
            /\ \A j \in Nat : from + j < size /\ j < c.len => (from + j) \div BlockSize <= hi
    BY <1>6, <1>10, ReadShape
  <2> DEFINE lo == from \div BlockSize
             count == hi - lo + 1
  <2>3. Spans(c, size, lo, hi)
    BY <2>2 DEF Spans
  <2>4. /\ idx = lo .. hi /\ count \in Nat /\ lo \in Nat /\ lo <= hi
        /\ q = [n \in 1 .. count |-> Fetch(Found.ptrs[lo + n - 1], n)]
        /\ Becomes(t, Do([r EXCEPT !.buf = ZeroBuffer(count)], q, num))
    <3>1. Becomes(t, Do([r EXCEPT !.buf = ZeroBuffer(Cardinality(idx))], q, num))
      BY <1>1, <2>1
    <3>2. lo \in Nat /\ lo <= hi /\ idx = lo .. hi /\ Cardinality(idx) = count /\ Min(idx) = lo
      BY <2>2
    <3> HIDE DEF lo, idx
    <3>3. count \in Nat
      BY <3>2
    <3>4. QED
      BY <3>1, <3>2, <3>3
  <2>5. \A n \in 1 .. count : lo + n - 1 \in PtrIdx /\ lo + n - 1 \in lo .. hi
    <3>1. \A n \in 1 .. Cardinality(idx) : Min(idx) + n - 1 \in PtrIdx
      BY <1>6, <1>8, <1>10, ReadSpan
    <3>2. Cardinality(idx) = count /\ Min(idx) = lo
      BY <2>2
    <3> HIDE DEF idx, lo
    <3>3. \A n \in 1 .. count : lo + n - 1 \in PtrIdx
      BY <3>1, <3>2
    <3>4. \A n \in 1 .. count : lo + n - 1 \in lo .. hi
      BY <2>4
    <3>5. QED
      BY <3>3, <3>4
  <2>6. Chases(q, Found.ptrs, lo, count) /\ q \in Seq(Jobs) /\ Len(q) = count
    <3>1. \A k \in PtrIdx : Found.ptrs[k] \in Int
      BY <1>3, LayoutAssumption DEF Inode, Blocks, NoPtr
    <3>2. \A n \in 1 .. count : Fetch(Found.ptrs[lo + n - 1], n) \in Jobs
      <4> HIDE DEF lo, count
      <4>1. \A n \in 1 .. count : Found.ptrs[lo + n - 1] \in Int /\ n \in Nat
        BY <2>4, <2>5, <3>1
      <4>2. QED
        BY <4>1, JobKinds
    <3> HIDE DEF lo, count, q
    <3>3. q \in Seq(Jobs) /\ Len(q) = count /\ \A n \in 1 .. count : q[n] = Fetch(Found.ptrs[lo + n - 1], n)
      BY <2>4, <3>2
    <3>4. QED
      BY <3>3 DEF Chases
  <2>7. \A n \in 1 .. count : q[n].do = "fetch" /\ q[n].lba = Found.ptrs[lo + n - 1]
    <3> HIDE DEF lo, count, q
    <3>1. QED
      BY <2>6 DEF Chases, Fetch
  <2>8. CASE \E k \in idx : Found.ptrs[k] \notin Blocks
    <3>1. ReadVerdict(settled, c.path, c.offset, c.len) = EIO
      BY <1>7, <2>1, <2>8
    <3>2. PICK k \in lo .. hi : Found.ptrs[k] \notin Blocks
      BY <2>4, <2>8
    <3>3. \E n \in 1 .. Len(q) : q[n].lba \notin Blocks
      <4> HIDE DEF lo, q
      <4>1. k - lo + 1 \in 1 .. count /\ lo + (k - lo + 1) - 1 = k
        BY <2>4
      <4> HIDE DEF count
      <4>2. q[k - lo + 1].lba = Found.ptrs[k]
        BY <2>7, <4>1
      <4>3. QED
        BY <2>6, <3>2, <4>1, <4>2
    <3>4. \A n \in 1 .. Len(q) : q[n].do = "fetch"
      BY <2>6, <2>7
    <3>5. Becomes(t, Do([r EXCEPT !.buf = ZeroBuffer(count)], q, num)) /\ q \in Seq(Jobs)
      BY <2>4, <2>6
    <3> DEFINE z == ZeroBuffer(count)
    <3> HIDE DEF lo, count, q, num, idx, z
    <3>6. Becomes(t, Do([r EXCEPT !.buf = z], q, num))
      BY <3>5 DEF z
    <3>7. QED
      BY <1>2, <3>1, <3>3, <3>4, <3>5, <3>6, ReadLost
  <2>9. CASE ~(\E k \in idx : Found.ptrs[k] \notin Blocks)
    <3>1. ReadVerdict(settled, c.path, c.offset, c.len) = num
      BY <1>7, <2>1, <2>9
    <3>2. \A n \in 1 .. count : q[n].lba \in Blocks
      <4>1. \A k \in lo .. hi : Found.ptrs[k] \in Blocks
        BY <2>4, <2>9
      <4> HIDE DEF lo, q, count
      <4>2. QED
        BY <2>5, <2>7, <4>1
    <3>3. Becomes(t, Do([r EXCEPT !.buf = ZeroBuffer(count)], q, num)) /\ count = hi - lo + 1
      BY <2>4
    <3>4. Chases(q, settled.disk[r.inum].ptrs, lo, count)
      BY <1>4, <2>6
    <3>5. Spans(r.call, size, lo, hi) /\ Clipped(r.call, size, num) /\ FileAt(settled, r.call.path) = r.inum
      BY <1>5, <2>1, <2>3
    <3> HIDE DEF lo, count, q, num, idx, size
    <3>6. QED
      BY <1>2, <3>1, <3>2, <3>3, <3>4, <3>5, ReadGoes
  <2>10. QED
    BY <2>8, <2>9
<1>11. QED
  BY <1>6, <1>9, <1>10

\* The pointers that fs_write goes through, from lo on: to blocks of their own.
Spread(c, ino, lo, count) ==
    /\ count \in Nat \ {0} /\ lo \in Nat /\ lo = c.offset \div BlockSize
    /\ WriteIdx(c.offset, c.len) = lo .. lo + count - 1
    /\ Min(lo .. lo + count - 1) = lo /\ Max(lo .. lo + count - 1) = lo + count - 1
    /\ \A k \in lo .. lo + count - 1 : ino.ptrs[k] \in Blocks \ {SuperBlock, BitmapBlock}
    /\ \A j, k \in lo .. lo + count - 1 : ino.ptrs[j] = ino.ptrs[k] => j = k

\* Its buffer, once it has read the first and the last of them.
KeptIn(d, ino, old, lo, count) ==
    [n \in 1 .. count |-> IF (old > 1 /\ n = count) \/ (old > 0 /\ n = 1) THEN RawBytes(d[ino.ptrs[lo + n - 1]])
                          ELSE ZeroBlock.bytes]

\* The pointers and the blocks of the buffer.
LEMMA SpreadFacts ==
    ASSUME NEW c, NEW ino, NEW lo, NEW count, Spread(c, ino, lo, count)
    PROVE  /\ \A n \in 1 .. count : /\ lo + n - 1 \in lo .. lo + count - 1
                                    /\ ino.ptrs[lo + n - 1] \in Blocks \ {SuperBlock, BitmapBlock}
           /\ \A k \in lo .. lo + count - 1 : k - lo + 1 \in 1 .. count /\ lo + (k - lo + 1) - 1 = k
           /\ 1 \in 1 .. count /\ count \in 1 .. count /\ lo + 1 - 1 = lo
           /\ lo \in lo .. lo + count - 1 /\ lo + count - 1 \in lo .. lo + count - 1
<1>1. count \in Nat \ {0} /\ lo \in Nat
  BY DEF Spread
<1>2. \A n \in 1 .. count : lo + n - 1 \in lo .. lo + count - 1
  BY <1>1
<1>3. \A n \in 1 .. count : ino.ptrs[lo + n - 1] \in Blocks \ {SuperBlock, BitmapBlock}
  BY <1>2 DEF Spread
<1>4. \A k \in lo .. lo + count - 1 : k - lo + 1 \in 1 .. count /\ lo + (k - lo + 1) - 1 = k
  BY <1>1
<1>5. /\ 1 \in 1 .. count /\ count \in 1 .. count /\ lo + 1 - 1 = lo
      /\ lo \in lo .. lo + count - 1 /\ lo + count - 1 \in lo .. lo + count - 1
  BY <1>1
<1>6. QED
  BY <1>2, <1>3, <1>4, <1>5

\* A read of the image.
LEMMA FetchRuns ==
    ASSUME NEW c, NEW a \in Blocks, NEW k \in Nat, NEW d, NEW m, NEW v, NEW s, NEW b
    PROVE  Runs(c, <<Fetch(a, k)>>, Scene(d, m, v, s, b), Scene(d, m, v, s, [b EXCEPT ![k] = RawBytes(d[a])]))
<1> DEFINE j == Fetch(a, k)
<1>1. j \in Jobs /\ j.do = "fetch"
  <2>1. a \in Int
    BY DEF Blocks
  <2>2. QED
    BY <2>1, JobKinds
<1>2. j.lba = a /\ j.slot = k
  BY DEF Fetch
<1> HIDE DEF j
<1>3. Works(c, j, Scene(d, m, v, s, b), Scene(d, m, v, s, [b EXCEPT ![k] = RawBytes(d[a])]))
  BY <1>1, <1>2 DEF Works, Scene
<1>4. QED
  BY <1>1, <1>3, RunsOne DEF j

\* The reads of fs_write.
LEMMA FetchedRuns ==
    ASSUME NEW c, NEW ino, NEW lo, NEW count, Spread(c, ino, lo, count), NEW old \in Nat,
           NEW d, NEW m, NEW v, NEW s
    PROVE  Runs(c, Fetched(old, ino, WriteIdx(c.offset, c.len), count), Scene(d, m, v, s, ZeroBuffer(count)),
                Scene(d, m, v, s, KeptIn(d, ino, old, lo, count)))
<1> DEFINE hi == lo + count - 1
           a == ino.ptrs[lo]
           b == ino.ptrs[hi]
           F1 == IF old > 0 THEN <<Fetch(a, 1)>> ELSE <<>>
           F2 == IF old > 1 THEN <<Fetch(b, count)>> ELSE <<>>
           b0 == ZeroBuffer(count)
           b1 == IF old > 0 THEN [b0 EXCEPT ![1] = RawBytes(d[a])] ELSE b0
           b2 == IF old > 1 THEN [b1 EXCEPT ![count] = RawBytes(d[b])] ELSE b1
<1>1. Fetched(old, ino, WriteIdx(c.offset, c.len), count) = F1 \o F2
  BY DEF Fetched, Spread
<1>2. count \in Nat /\ count > 0 /\ lo \in Nat
  BY DEF Spread
<1>3. a \in Blocks /\ b \in Blocks
  BY SpreadFacts DEF Spread
<1>4. b2 = KeptIn(d, ino, old, lo, count)
  <2>1. lo + 1 - 1 = lo
    BY <1>2
  <2>2. b0 = [n \in 1 .. count |-> ZeroBlock.bytes]
    BY DEF ZeroBuffer
  <2>3. b2 = [n \in 1 .. count |-> IF old > 1 /\ n = count THEN RawBytes(d[b])
                                   ELSE IF old > 0 /\ n = 1 THEN RawBytes(d[a]) ELSE ZeroBlock.bytes]
    <3> HIDE DEF a, b
    <3>1. QED
      BY <1>2, <2>2
  <2>4. \A n \in 1 .. count : /\ n = count => RawBytes(d[ino.ptrs[lo + n - 1]]) = RawBytes(d[b])
                              /\ n = 1 => RawBytes(d[ino.ptrs[lo + n - 1]]) = RawBytes(d[a])
    BY <2>1
  <2> HIDE DEF a, b, b2
  <2>5. \A n \in 1 .. count : b2[n] = KeptIn(d, ino, old, lo, count)[n]
    BY <2>3, <2>4 DEF KeptIn
  <2>6. QED
    BY <2>3, <2>5 DEF KeptIn
<1>5. Runs(c, F1, Scene(d, m, v, s, b0), Scene(d, m, v, s, b1))
  <2> HIDE DEF a, b0
  <2>1. Runs(c, <<Fetch(a, 1)>>, Scene(d, m, v, s, b0), Scene(d, m, v, s, [b0 EXCEPT ![1] = RawBytes(d[a])]))
    BY <1>3, FetchRuns
  <2>2. Runs(c, <<>>, Scene(d, m, v, s, b0), Scene(d, m, v, s, b0))
    BY RunsOne
  <2>3. QED
    BY <2>1, <2>2
<1>6. Runs(c, F2, Scene(d, m, v, s, b1), Scene(d, m, v, s, b2))
  <2> HIDE DEF b, b1
  <2>1. Runs(c, <<Fetch(b, count)>>, Scene(d, m, v, s, b1), Scene(d, m, v, s, [b1 EXCEPT ![count] = RawBytes(d[b])]))
    BY <1>2, <1>3, FetchRuns
  <2>2. Runs(c, <<>>, Scene(d, m, v, s, b1), Scene(d, m, v, s, b1))
    BY RunsOne
  <2>3. QED
    BY <2>1, <2>2
<1> HIDE DEF F1, F2, b0, b1, b2
<1>7. Runs(c, F1 \o F2, Scene(d, m, v, s, b0), Scene(d, m, v, s, b2))
  BY <1>5, <1>6, RunsBoth
<1>8. QED
  BY <1>1, <1>4, <1>7 DEF b0

\* What the image has in a block that fs_write stores.
LEMMA StoredThere ==
    ASSUME NEW c, NEW ino, NEW lo, NEW count, Spread(c, ino, lo, count), NEW old \in Nat, NEW d, NEW n \in 1 .. count
    PROVE  Stored(d, ino, old, c.offset, c.len, c.byte)[ino.ptrs[lo + n - 1]] =
           [kind |-> "data", bytes |-> Filling(c, n, KeptIn(d, ino, old, lo, count))]
<1> DEFINE hi == lo + count - 1
           idx == lo .. hi
           k == lo + n - 1
           x == ino.ptrs[k]
           to == {j \in idx : ino.ptrs[j] = x}
           client(j, o) == j * BlockSize + o \in c.offset .. c.offset + c.len - 1
           buf(j) == [o \in Offs |-> IF client(j, o) THEN c.byte ELSE Kept(d, ino, old, idx, j)[o]]
<1>1. k \in idx /\ x \in Blocks /\ count \in Nat /\ lo \in Nat /\ k \in Int
  BY SpreadFacts DEF Spread
<1>2. to = {k}
  <2> HIDE DEF idx, k
  <2>1. \A j \in idx : ino.ptrs[j] = x => j = k
    BY <1>1 DEF Spread, idx
  <2>2. QED
    BY <1>1, <2>1
<1>3. to # {} /\ (CHOOSE j \in to : TRUE) = k
  BY <1>2
<1>4. WriteIdx(c.offset, c.len) = idx /\ Min(idx) = lo /\ Max(idx) = hi
  BY DEF Spread
<1>5. Stored(d, ino, old, c.offset, c.len, c.byte)[x] = [kind |-> "data", bytes |-> buf(k)]
  <2> HIDE DEF idx, k
  <2>1. Stored(d, ino, old, c.offset, c.len, c.byte)[x] =
           IF to = {} THEN d[x] ELSE [kind |-> "data", bytes |-> buf(CHOOSE j \in to : TRUE)]
    BY <1>1, <1>4 DEF Stored
  <2> HIDE DEF to, buf
  <2>2. QED
    BY <1>3, <2>1
<1>6. Kept(d, ino, old, idx, k) = KeptIn(d, ino, old, lo, count)[n]
  <2>1. (k = hi <=> n = count) /\ (k = lo <=> n = 1)
    BY <1>1
  <2> HIDE DEF hi, k, idx
  <2>2. Kept(d, ino, old, idx, k) = IF (old > 1 /\ n = count) \/ (old > 0 /\ n = 1) THEN RawBytes(d[ino.ptrs[k]])
                                    ELSE ZeroBlock.bytes
    BY <1>4, <2>1 DEF Kept
  <2>3. QED
    BY <2>2 DEF KeptIn, k
<1>7. c.offset \div BlockSize + n - 1 = k
  BY DEF Spread
<1>8. Filling(c, n, KeptIn(d, ino, old, lo, count)) = buf(k)
  <2> HIDE DEF k, idx
  <2>1. QED
    BY <1>6, <1>7 DEF Filling
<1>9. QED
  BY <1>5, <1>8

\* A block that it does not store.
Spared(ino, lo, count, x) == \A k \in lo .. lo + count - 1 : ino.ptrs[k] # x

\* It is as it was.
LEMMA StoredElse ==
    ASSUME NEW c, NEW ino, NEW lo, NEW count, Spread(c, ino, lo, count), NEW old, NEW d, NEW x \in Blocks,
           Spared(ino, lo, count, x)
    PROVE  Stored(d, ino, old, c.offset, c.len, c.byte)[x] = d[x]
<1>1. WriteIdx(c.offset, c.len) = lo .. lo + count - 1
  BY DEF Spread
<1> DEFINE idx == lo .. lo + count - 1
<1>2. {k \in idx : ino.ptrs[k] = x} = {}
  BY DEF Spared
<1> HIDE DEF idx
<1>3. QED
  BY <1>1, <1>2 DEF Stored, idx

\* Image w but for the bitmap's block, which is as in d.
Over(w, d) == [x \in Blocks |-> IF x = BitmapBlock THEN d[x] ELSE w[x]]

\* Images that differ in this block only.
Beside(w, d) == d \in [Blocks -> Content] /\ \A x \in Blocks : x # BitmapBlock => w[x] = d[x]

\* The writes of fs_write.
LEMMA StoresGo ==
    ASSUME NEW c, NEW ino, NEW lo, NEW count, Spread(c, ino, lo, count), NEW old \in Nat,
           NEW w, NEW d, Beside(w, d), NEW m, NEW v, NEW s,
           NEW b, b = KeptIn(d, ino, old, lo, count)
    PROVE  Runs(c, Stores(ino, WriteIdx(c.offset, c.len), count), Scene(d, m, v, s, b),
                Scene(Over(Stored(w, ino, old, c.offset, c.len, c.byte), d), m, v, s, b))
<1> DEFINE q == Stores(ino, WriteIdx(c.offset, c.len), count)
           y == Stored(w, ino, old, c.offset, c.len, c.byte)
           T == {ino.ptrs[k] : k \in lo .. lo + count - 1}
           e == [x \in Blocks |-> IF x \in Targeted(q) THEN y[x] ELSE d[x]]
<1>1. /\ \A n \in 1 .. count : /\ lo + n - 1 \in lo .. lo + count - 1
                               /\ ino.ptrs[lo + n - 1] \in Blocks \ {SuperBlock, BitmapBlock}
      /\ \A k \in lo .. lo + count - 1 : k - lo + 1 \in 1 .. count /\ lo + (k - lo + 1) - 1 = k
      /\ lo \in lo .. lo + count - 1 /\ lo + count - 1 \in lo .. lo + count - 1
  BY SpreadFacts
<1>2. q = [n \in 1 .. count |-> Store(ino.ptrs[lo + n - 1], n)]
  BY DEF Stores, Spread
<1>3. \A n \in 1 .. count : LET a == Store(ino.ptrs[lo + n - 1], n) IN
         a \in Jobs /\ a.do = "store" /\ a.lba = ino.ptrs[lo + n - 1] /\ a.slot = n
  <2>1. \A n \in 1 .. count : ino.ptrs[lo + n - 1] \in Int /\ n \in Nat
    <3>1. \A x \in Blocks : x \in Int
      BY DEF Blocks
    <3>2. \A n \in 1 .. count : n \in Nat
      BY DEF Spread
    <3>3. QED
      BY <1>1, <3>1, <3>2
  <2>2. QED
    BY <2>1, JobKinds
<1> HIDE DEF q
<1>4. q \in Seq(Jobs) /\ Len(q) = count
  <2>1. count \in Nat
    BY DEF Spread
  <2>2. q \in [1 .. count -> Jobs]
    BY <1>2, <1>3
  <2>3. QED
    BY <2>1, <2>2
<1>5. \A n \in 1 .. count : q[n].do = "store" /\ q[n].lba = ino.ptrs[lo + n - 1] /\ q[n].slot = n
  BY <1>2, <1>3
<1>6. KeptIn(w, ino, old, lo, count) = b
  <2>1. \A n \in 1 .. count : w[ino.ptrs[lo + n - 1]] = d[ino.ptrs[lo + n - 1]]
    BY <1>1 DEF Beside
  <2>2. QED
    BY <2>1 DEF KeptIn
<1>7. \A n \in 1 .. count : y[ino.ptrs[lo + n - 1]] = [kind |-> "data", bytes |-> Filling(c, n, b)]
  BY <1>6, StoredThere
<1>8. Targeted(q) = T
  <2>1. ASSUME NEW x \in Targeted(q) PROVE x \in T
    <3>1. PICK n \in 1 .. count : x = q[n].lba
      BY <1>4 DEF Targeted
    <3>2. QED
      BY <1>1, <1>5, <3>1
  <2>2. ASSUME NEW k \in lo .. lo + count - 1 PROVE ino.ptrs[k] \in Targeted(q)
    <3> DEFINE n == k - lo + 1
    <3>1. n \in 1 .. count /\ lo + n - 1 = k
      BY <1>1
    <3> HIDE DEF n
    <3>2. q[n].lba = ino.ptrs[k] /\ n \in 1 .. Len(q)
      BY <1>4, <1>5, <3>1
    <3>3. QED
      BY <3>2 DEF Targeted
  <2>3. QED
    BY <2>1, <2>2
<1> HIDE DEF y
<1>9. Runs(c, q, Scene(d, m, v, s, b), Scene(e, m, v, s, b))
  <2>1. \A k \in 1 .. Len(q) : /\ q[k].do = "store" /\ q[k].lba \in Blocks \ {SuperBlock}
                               /\ y[q[k].lba] = [kind |-> "data", bytes |-> Filling(c, q[k].slot, b)]
    <3>1. ASSUME NEW k \in 1 .. count
          PROVE  /\ q[k].do = "store" /\ q[k].lba \in Blocks \ {SuperBlock}
                 /\ y[q[k].lba] = [kind |-> "data", bytes |-> Filling(c, q[k].slot, b)]
      <4>1. q[k].do = "store" /\ q[k].lba = ino.ptrs[lo + k - 1] /\ q[k].slot = k
        BY <1>5
      <4>2. ino.ptrs[lo + k - 1] \in Blocks \ {SuperBlock}
        BY <1>1
      <4>3. y[ino.ptrs[lo + k - 1]] = [kind |-> "data", bytes |-> Filling(c, k, b)]
        BY <1>7
      <4>4. QED
        BY <4>1, <4>2, <4>3
    <3>2. QED
      BY <1>4, <3>1
  <2>2. QED
    BY <1>4, <2>1, StoresRun, SMTT(30) DEF Beside
<1>10. e = Over(y, d)
  <2>1. \A x \in T : x # BitmapBlock
    BY DEF Spread
  <2>2. \A x \in Blocks : x \notin T => y[x] = w[x]
    <3>1. ASSUME NEW x \in Blocks, x \notin T PROVE y[x] = w[x]
      <4>1. Spared(ino, lo, count, x)
        BY <3>1 DEF Spared
      <4>2. Stored(w, ino, old, c.offset, c.len, c.byte)[x] = w[x]
        BY <4>1, StoredElse
      <4>3. QED
        BY <4>2 DEF y
    <3>2. QED
      BY <3>1
  <2>3. \A x \in Blocks : x # BitmapBlock => w[x] = d[x]
    BY DEF Beside
  <2> HIDE DEF T
  <2>4. QED
    BY <1>8, <2>1, <2>2, <2>3 DEF Over
<1>11. QED
  BY <1>9, <1>10 DEF q, y

\* What fs_write makes of the inode that it has found, and the blocks it goes through.
Growth(r, found, fresh, ino, old, need, lo, count) ==
    /\ ino = Grown(found, fresh, r.call.offset + r.call.len, r.call.now) /\ ino \in Content
    /\ old \in Nat /\ old = BlocksFor(found.size)
    /\ need \in Int /\ need = BlocksNeeded(found.size, r.call.offset, r.call.len)
    /\ Spread(r.call, ino, lo, count) /\ r.inum \in Blocks \ {SuperBlock, BitmapBlock}

\* An image with another inode.
Replaced(d, i, ino, e) == e = [d EXCEPT ![i] = ino]

\* All that fs_write does after it has reserved the blocks.
LEMMA StoreRuns ==
    ASSUME NEW r, NEW found, NEW fresh, NEW ino, NEW old, NEW need, NEW lo, NEW count,
           Growth(r, found, fresh, ino, old, need, lo, count),
           NEW d, NEW e, Replaced(d, r.inum, ino, e), NEW w, Beside(w, e), NEW m, NEW v, NEW s
    PROVE  \E b : Runs(r.call, StoreEffects(r, found, fresh), Scene(d, m, v, s, ZeroBuffer(count)),
                       Scene(Over(Stored(w, ino, old, r.call.offset, r.call.len, r.call.byte), e), m,
                             CountedBy(v, - need), Idle.seen, b))
<1> DEFINE i == r.inum
<1>0. /\ ino = Grown(found, fresh, r.call.offset + r.call.len, r.call.now) /\ ino \in Content
      /\ old \in Nat /\ old = BlocksFor(found.size)
      /\ need \in Int /\ need = BlocksNeeded(found.size, r.call.offset, r.call.len)
      /\ Spread(r.call, ino, lo, count) /\ i \in Blocks \ {SuperBlock, BitmapBlock}
  BY DEF Growth
<1> DEFINE c == r.call
           idx == WriteIdx(c.offset, c.len)
           a == Put(i, ino)
           F1 == IF old > 0 THEN <<Fetch(ino.ptrs[Min(idx)], 1)>> ELSE <<>>
           F2 == IF old > 1 THEN <<Fetch(ino.ptrs[Max(idx)], count)>> ELSE <<>>
           S == Stores(ino, idx, count)
           A == AdjustFree(- need)
           b == KeptIn(e, ino, old, lo, count)
           z == ZeroBuffer(count)
           g == Over(Stored(w, ino, old, c.offset, c.len, c.byte), e)
<1>1. count = Cardinality(idx)
  <2>1. idx = lo .. lo + count - 1 /\ lo \in Int /\ count \in Nat \ {0}
    <3>1. Spread(c, ino, lo, count)
      BY <1>0
    <3> HIDE DEF c
    <3>2. WriteIdx(c.offset, c.len) = lo .. lo + count - 1 /\ lo \in Nat /\ count \in Nat \ {0}
      BY ONLY <3>1 DEF Spread
    <3>3. QED
      BY ONLY <3>2
  <2>2. lo <= lo + count - 1 /\ lo + count - 1 \in Int /\ (lo + count - 1) - lo + 1 = count
    BY <2>1
  <2> DEFINE hi == lo + count - 1
  <2> HIDE DEF hi, idx
  <2>3. Cardinality(lo .. hi) = hi - lo + 1
    BY <2>1, <2>2, FS_Interval DEF hi
  <2>4. QED
    BY <2>1, <2>2, <2>3 DEF hi
<1>2. StoreEffects(r, found, fresh) = (((<<a>> \o F1) \o F2) \o S) \o A
  <2> HIDE DEF idx, c
  <2>1. ino = Grown(found, fresh, c.offset + c.len, c.now) /\ need = BlocksNeeded(found.size, c.offset, c.len)
    BY <1>0 DEF c
  <2> HIDE DEF idx
  <2>2. QED
    BY <1>0, <1>1, <2>1 DEF StoreEffects, Stores, idx, c
<1>3. Fetched(old, ino, idx, count) = F1 \o F2
  BY DEF Fetched
<1>4. a \in Jobs /\ a.do = "put" /\ Written(d, a) = e /\ a.lba = i
  <2>0. e = [d EXCEPT ![i] = ino]
    BY DEF Replaced
  <2>1. Put(i, ino) \in Jobs /\ Put(i, ino).do = "put" /\ Written(d, Put(i, ino)) = [d EXCEPT ![i] = ino]
    BY <1>0, PutJob
  <2>2. Put(i, ino).lba = i
    BY DEF Put
  <2>3. QED
    BY <2>0, <2>1, <2>2
<1>5. F1 \in Seq(Jobs) /\ F2 \in Seq(Jobs)
  <2>1. ino.ptrs[Min(idx)] \in Int /\ ino.ptrs[Max(idx)] \in Int /\ count \in Nat
    <3>1. Min(idx) = lo /\ Max(idx) = lo + count - 1 /\ count \in Nat
      BY <1>0 DEF Spread
    <3>2. lo \in lo .. lo + count - 1 /\ lo + count - 1 \in lo .. lo + count - 1
      BY <1>0, SpreadFacts
    <3>3. ino.ptrs[lo] \in Blocks /\ ino.ptrs[lo + count - 1] \in Blocks
      BY <1>0, <3>2 DEF Spread
    <3>4. QED
      BY <3>1, <3>3 DEF Blocks
  <2>2. Fetch(ino.ptrs[Min(idx)], 1) \in Jobs /\ Fetch(ino.ptrs[Max(idx)], count) \in Jobs
    BY <2>1, JobKinds
  <2>3. QED
    BY <2>2
<1>6. Runs(c, <<a>>, Scene(d, m, v, s, z), Scene(e, m, v, s, z))
  <2> HIDE DEF a, c, z
  <2>1. QED
    BY <1>0, <1>4, PutRuns
<1>7. Runs(c, Fetched(old, ino, idx, count), Scene(e, m, v, s, z), Scene(e, m, v, s, b))
  <2> DEFINE cc == c
  <2>1. Spread(c, ino, lo, count)
    BY <1>0
  <2> HIDE DEF c
  <2>2. QED
    BY <1>0, <2>1, FetchedRuns
<1>8. Runs(c, S, Scene(e, m, v, s, b), Scene(g, m, v, s, b))
  <2>1. Spread(c, ino, lo, count)
    BY <1>0
  <2> HIDE DEF c, b
  <2>2. b = KeptIn(e, ino, old, lo, count)
    BY DEF b
  <2>3. Runs(c, Stores(ino, WriteIdx(c.offset, c.len), count), Scene(e, m, v, s, b),
             Scene(Over(Stored(w, ino, old, c.offset, c.len, c.byte), e), m, v, s, b))
    BY <1>0, <2>1, <2>2, StoresGo
  <2>4. QED
    BY <2>3
<1>9. Runs(c, A, Scene(g, m, v, s, b), Scene(g, m, CountedBy(v, - need), Idle.seen, b))
  <2> DEFINE n == - need
  <2>1. n \in Int
    BY <1>0
  <2> HIDE DEF n, c, g, b
  <2>2. Runs(c, AdjustFree(n), Scene(g, m, v, s, b), Scene(g, m, CountedBy(v, n), Idle.seen, b))
    BY <2>1, AdjustRuns
  <2>3. QED
    BY <2>2 DEF n
<1>10. <<a>> \in Seq(Jobs)
  BY <1>4
<1> HIDE DEF a, F1, F2, S, A, b, z, g, c, idx, i
<1>11. (<<a>> \o F1) \o F2 = <<a>> \o (F1 \o F2)
  BY <1>5, <1>10, ConcatAssociative
<1>12. Runs(c, <<a>> \o (F1 \o F2), Scene(d, m, v, s, z), Scene(e, m, v, s, b))
  BY <1>3, <1>6, <1>7, RunsBoth
<1>13. Runs(c, (<<a>> \o (F1 \o F2)) \o S, Scene(d, m, v, s, z), Scene(g, m, v, s, b))
  BY <1>8, <1>12, RunsBoth
<1>14. Runs(c, ((<<a>> \o (F1 \o F2)) \o S) \o A, Scene(d, m, v, s, z), Scene(g, m, CountedBy(v, - need), Idle.seen, b))
  BY <1>9, <1>13, RunsBoth
<1>15. Runs(c, StoreEffects(r, found, fresh), Scene(d, m, v, s, z), Scene(g, m, CountedBy(v, - need), Idle.seen, b))
  BY <1>2, <1>11, <1>14
<1>16. QED
  BY <1>15 DEF c, z, g

\* The inode that fs_write leaves has a block of its own for each pointer that it goes through.
LEMMA GrownSpread ==
    ASSUME NEW e, NEW m, Sound(e, m), NEW i \in LiveIn(e, m), e[i].type = "file", e[i] \in Inode,
           NEW c, c.offset \in Nat, c.len \in Nat \ {0}, c.offset <= e[i].size,
           NEW ino, NEW fresh, ino = Grown(e[i], fresh, c.offset + c.len, c.now),
           NEW need, need = BlocksNeeded(e[i].size, c.offset, c.len),
           Outgrown(e, m, i, ino, fresh, WriteIdx(c.offset, c.len), need)
    PROVE  Spread(c, ino, c.offset \div BlockSize, Cardinality(WriteIdx(c.offset, c.len)))
<1> DEFINE from == c.offset
           len == c.len
           size == e[i].size
           lo == from \div BlockSize
           hi == (from + len - 1) \div BlockSize
           idx == WriteIdx(from, len)
           count == Cardinality(idx)
           end == IF from + len > size THEN from + len ELSE size
<1>1. from \in Nat /\ len \in Nat \ {0} /\ size \in Nat /\ from <= size
  BY DEF Inode
<1>2. /\ lo \in Nat /\ hi \in Int /\ lo <= hi /\ hi <= BlocksFor(end) - 1 /\ BlocksFor(end) \in Nat
  <2> HIDE DEF from, len, size, end
  <2>1. /\ need \in Int /\ end \in Nat
        /\ BlocksFor(end) = IF need > 0 THEN BlocksFor(size) + need ELSE BlocksFor(size)
        /\ lo \in Nat /\ hi = BlocksFor(size) + need - 1
    <3>1. need = BlocksNeeded(size, from, len)
      BY DEF size, from, len
    <3>2. LET n == BlocksNeeded(size, from, len)
              x == IF from + len > size THEN from + len ELSE size
          IN  /\ n \in Int /\ x \in Nat
              /\ BlocksFor(x) = IF n > 0 THEN BlocksFor(size) + n ELSE BlocksFor(size)
              /\ from \div BlockSize \in Nat /\ from \div BlockSize <= BlocksFor(size)
              /\ (from + len - 1) \div BlockSize = BlocksFor(size) + n - 1
      BY <1>1, WriteSizes
    <3>3. QED
      BY <3>1, <3>2 DEF end
  <2>2. BlocksFor(size) \in Nat /\ BlocksFor(end) \in Nat
    BY <1>1, <2>1, BlocksForProperty
  <2>3. lo <= hi
    <3>1. BlockSize \in Nat \ {0} /\ from \in Int /\ from + len - 1 \in Int /\ from <= from + len - 1
      BY <1>1, LayoutAssumption
    <3>2. QED
      BY <3>1, DivMonotone
  <2> HIDE DEF lo, hi
  <2>4. QED
    BY <2>1, <2>2, <2>3
<1>3. idx = lo .. hi
  BY DEF WriteIdx
<1>4. ino.size = end
  <2> HIDE DEF end
  <2>1. ino = [e[i] EXCEPT !.size = end, !.mtime = c.now,
                           !.ptrs = [k \in PtrIdx |-> IF k - BlocksFor(e[i].size) + 1 \in DOMAIN fresh
                                                      THEN fresh[k - BlocksFor(e[i].size) + 1] ELSE e[i].ptrs[k]]]
    BY DEF Grown, end
  <2>2. QED
    BY <2>1 DEF Inode
<1>5. DataIdx(ino) = 0 .. BlocksFor(end) - 1
  <2> HIDE DEF end
  <2>1. QED
    BY <1>4 DEF DataIdx
<1> HIDE DEF lo, hi, idx, end
<1>6. Cardinality(lo .. hi) = hi - lo + 1
  BY <1>2, FS_Interval
<1>7. /\ count \in Nat \ {0} /\ lo \in Nat /\ lo + count - 1 = hi
      /\ idx = lo .. lo + count - 1
  <2>1. count = hi - lo + 1
    BY <1>3, <1>6
  <2> HIDE DEF count
  <2>2. count \in Nat \ {0} /\ lo + count - 1 = hi
    BY <1>2, <2>1
  <2>3. QED
    BY <1>2, <1>3, <2>2
<1>8. Min(lo .. hi) = lo /\ Max(lo .. hi) = hi
  BY <1>2 DEF Min, Max
<1>9. \A k \in lo .. hi : k \in DataIdx(ino)
  BY <1>2, <1>5
<1>10. \A b \in DataBlocks(ino) : b # SuperBlock /\ b # BitmapBlock
  <2>1. \A b \in DataBlocks(ino) : b \in m => b \in DataBlocks(e[i])
    BY DEF Outgrown, Fits
  <2>2. \A b \in DataBlocks(e[i]) : e[b].kind = "data"
    BY DEF Sound, InodesFit, DataBlocks
  <2>3. SuperBlock \in m /\ BitmapBlock \in m /\ e[SuperBlock].kind = "super" /\ e[BitmapBlock].kind = "bitmap"
    BY DEF Sound, ReservedIn
  <2>4. "super" # "data" /\ "bitmap" # "data"
    OBVIOUS
  <2>5. QED
    BY <2>1, <2>2, <2>3, <2>4
<1>11. \A k \in lo .. hi : ino.ptrs[k] \in Blocks \ {SuperBlock, BitmapBlock}
  <2>1. \A k \in DataIdx(ino) : ino.ptrs[k] \in DataBlocks(ino)
    BY DEF DataBlocks
  <2>2. \A b \in DataBlocks(ino) : b \in Blocks
    BY DEF Outgrown, Fits
  <2>3. QED
    BY <1>9, <1>10, <2>1, <2>2
<1>12. \A j, k \in lo .. hi : ino.ptrs[j] = ino.ptrs[k] => j = k
  BY <1>9 DEF Outgrown, Fits
<1>13. lo = c.offset \div BlockSize
  BY DEF lo
<1>14. WriteIdx(c.offset, c.len) = idx
  BY DEF idx
<1> HIDE DEF from, len, count
<1>15. Spread(c, ino, lo, count)
  BY <1>3, <1>7, <1>8, <1>11, <1>12, <1>13, <1>14 DEF Spread
<1>16. QED
  BY <1>13, <1>14, <1>15 DEF count

\* It leaves the block of the bitmap alone.
LEMMA StoredBeside ==
    ASSUME NEW c, NEW ino, NEW lo, NEW count, Spread(c, ino, lo, count), NEW old, NEW d
    PROVE  Stored(d, ino, old, c.offset, c.len, c.byte)[BitmapBlock] = d[BitmapBlock]
<1>1. BitmapBlock \in Blocks
  BY LayoutAssumption DEF BitmapBlock, Blocks
<1>2. Spared(ino, lo, count, BitmapBlock)
  BY DEF Spread, Spared
<1>3. ASSUME NEW x \in Blocks, Spared(ino, lo, count, x)
      PROVE  Stored(d, ino, old, c.offset, c.len, c.byte)[x] = d[x]
  BY <1>3, StoredElse
<1>4. QED
  BY <1>1, <1>2, <1>3

\* What fs_write makes of a disk.
Wrote(r, e, ino, old, w) == w = Stored(e, ino, old, r.call.offset, r.call.len, r.call.byte)
Taken(fresh, need) == fresh \in [1 .. need -> Blocks]
Left(w, m, v, fresh, need, y) ==
    /\ y.statVfs = CountedBy(v, - need)
    /\ IF need > 0 THEN y.disk = Saved(w, m \cup Range(fresh)) /\ y.bitmap = m \cup Range(fresh)
       ELSE y.disk = w /\ y.bitmap = m

\* All that fs_write does once it has decided.
LEMMA WriteRuns ==
    ASSUME NEW r, NEW found, NEW fresh, NEW ino, NEW old, NEW need, NEW lo, NEW count,
           Growth(r, found, fresh, ino, old, need, lo, count), Taken(fresh, need),
           NEW d \in [Blocks -> Content], NEW m \in SUBSET Blocks, NEW v, NEW s,
           NEW e, Replaced(d, r.inum, ino, e), NEW w, Wrote(r, e, ino, old, w)
    PROVE  \E y : /\ Runs(r.call, WriteEffects(r, found, fresh), Scene(d, m, v, s, ZeroBuffer(count)), y)
                  /\ Left(w, m, v, fresh, need, y)
<1> DEFINE i == r.inum
<1>0. /\ ino \in Content /\ need \in Int /\ Spread(r.call, ino, lo, count) /\ i \in Blocks \ {SuperBlock, BitmapBlock}
  BY DEF Growth
<1> DEFINE c == r.call
           u == m \cup Range(fresh)
           z == ZeroBuffer(count)
           d1 == Saved(d, u)
           e1 == [d1 EXCEPT ![i] = ino]
           yes == TRUE
           idle == Idle.seen
           W == Stored(e, ino, old, c.offset, c.len, c.byte)
           T == StoreEffects(r, found, fresh)
<1>10. e = [d EXCEPT ![i] = ino]
  BY DEF Replaced
<1>1. BitmapBlock \in Blocks /\ Range(fresh) \subseteq Blocks
  BY LayoutAssumption DEF BitmapBlock, Blocks, Range, Taken
<1>2. e \in [Blocks -> Content] /\ e1 \in [Blocks -> Content]
  <2>1. d1 \in [Blocks -> Content]
    BY <1>1 DEF Saved, Content, Bitmap
  <2> HIDE DEF d1
  <2>2. QED
    BY <1>0, <1>10, <2>1
<1>3. Beside(e, e) /\ Beside(e, e1)
  <2>1. \A x \in Blocks : x # BitmapBlock => e[x] = e1[x]
    BY <1>0, <1>10 DEF Saved
  <2>2. QED
    BY <1>2, <2>1 DEF Beside
<1>4. Over(W, e) = W /\ Over(W, e1) = Saved(W, u)
  <2>1. W \in [Blocks -> {W[x] : x \in Blocks}]
    BY DEF Stored
  <2>2. W[BitmapBlock] = e[BitmapBlock]
    <3>1. Spread(c, ino, lo, count)
      BY <1>0
    <3> HIDE DEF c
    <3>2. Stored(e, ino, old, c.offset, c.len, c.byte)[BitmapBlock] = e[BitmapBlock]
      BY <3>1, StoredBeside
    <3>3. QED
      BY <3>2
  <2>3. e1[BitmapBlock] = [kind |-> "bitmap", used |-> u]
    BY <1>0, <1>1 DEF Saved
  <2> HIDE DEF W, e1
  <2>4. Over(W, e) = W
    BY <2>1, <2>2 DEF Over
  <2>5. Over(W, e1) = Saved(W, u)
    BY <1>1, <2>1, <2>3 DEF Over, Saved
  <2>6. QED
    BY <2>4, <2>5
<1> HIDE DEF z, idle
<1>5. ASSUME NEW D, NEW E, Replaced(D, i, ino, E), Beside(e, E), NEW M, NEW S
      PROVE  \E b : Runs(c, T, Scene(D, M, v, S, z), Scene(Over(W, E), M, CountedBy(v, - need), idle, b))
  <2>1. \E b : Runs(r.call, StoreEffects(r, found, fresh), Scene(D, M, v, S, ZeroBuffer(count)),
                    Scene(Over(Stored(e, ino, old, r.call.offset, r.call.len, r.call.byte), E), M,
                          CountedBy(v, - need), Idle.seen, b))
    BY <1>5, StoreRuns
  <2>2. QED
    BY <2>1 DEF z, idle
<1>6. w = W
  BY DEF Wrote
<1> HIDE DEF W, e1, d1, i
<1>7. CASE need > 0
  <2>1. fresh # <<>>
    <3>1. 1 \in DOMAIN fresh /\ DOMAIN <<>> = {}
      BY <1>0, <1>7 DEF Taken
    <3>2. QED
      BY <3>1
  <2>2. Runs(c, ModifyBitmap(fresh, TRUE), Scene(d, m, v, s, z), Scene(d1, u, v, idle, z))
    <3>1. Flagged(m, fresh, TRUE) = u
      BY DEF Flagged
    <3>2. yes \in BOOLEAN
      OBVIOUS
    <3> HIDE DEF yes, c
    <3>3. LET g == Flagged(m, fresh, yes) IN
          Runs(c, ModifyBitmap(fresh, yes), Scene(d, m, v, s, z), Scene(Saved(d, g), g, v, Idle.seen, z))
      BY <1>1, <3>2, ModifyRuns
    <3>4. QED
      BY <3>1, <3>3 DEF yes, idle, d1
  <2>3. PICK b : Runs(c, T, Scene(d1, u, v, idle, z), Scene(Over(W, e1), u, CountedBy(v, - need), idle, b))
    <3>1. Replaced(d1, i, ino, e1)
      BY DEF e1, Replaced
    <3> HIDE DEF u, T, c
    <3>2. QED
      BY <1>3, <1>5, <3>1
  <2> DEFINE y == Scene(Over(W, e1), u, CountedBy(v, - need), idle, b)
  <2>4. WriteEffects(r, found, fresh) = ModifyBitmap(fresh, TRUE) \o T
    BY <2>1 DEF WriteEffects, Reserve
  <2>5. y.disk = Saved(W, u) /\ y.bitmap = u /\ y.statVfs = CountedBy(v, - need)
    BY <1>4 DEF Scene
  <2> HIDE DEF T, y, u, c
  <2>6. Runs(c, ModifyBitmap(fresh, TRUE) \o T, Scene(d, m, v, s, z), y)
    BY <2>2, <2>3, RunsBoth DEF y
  <2>7. QED
    BY <1>6, <1>7, <2>4, <2>5, <2>6 DEF c, z, u, Left
<1>8. CASE ~(need > 0)
  <2>1. fresh = <<>>
    BY <1>0, <1>8 DEF Taken
  <2>2. PICK b : Runs(c, T, Scene(d, m, v, s, z), Scene(Over(W, e), m, CountedBy(v, - need), idle, b))
    <3>1. Replaced(d, i, ino, e)
      BY DEF i
    <3> HIDE DEF T, c
    <3>2. QED
      BY <1>3, <1>5, <3>1
  <2> DEFINE y == Scene(Over(W, e), m, CountedBy(v, - need), idle, b)
  <2>3. WriteEffects(r, found, fresh) = <<>> \o T
    BY <2>1 DEF WriteEffects, Reserve
  <2>4. y.disk = W /\ y.bitmap = m /\ y.statVfs = CountedBy(v, - need)
    BY <1>4 DEF Scene
  <2> HIDE DEF T, y, c
  <2>5. <<>> \o T = T
    <3>1. T \in Seq(Jobs)
      BY <2>2 DEF Runs
    <3>2. QED
      BY <3>1
  <2>6. QED
    BY <1>6, <1>8, <2>2, <2>3, <2>4, <2>5 DEF c, z, y, Left
<1>9. QED
  BY <1>7, <1>8

\* What fs_write returns, when it has found the file.
LEMMA WriteDecides ==
    ASSUME NEW s, NEW path, NEW from, NEW len, NEW i, FileAt(s, path) = i, ~(i < 0), NEW ino, s.disk[i] = ino
    PROVE  WriteVerdict(s, path, from, len) =
           IF from > ino.size THEN EINVAL
           ELSE IF FirstFree(s.bitmap, BlocksNeeded(ino.size, from, len)) = {} THEN ENOSPC
           ELSE OK
  BY DEF WriteVerdict

\* A write takes no more than it finds, and gives back no more than there is.
LEMMA WriteLeaves ==
    ASSUME NEW e, NEW m, Sound(e, m), NEW i \in LiveIn(e, m), e[i].size \in Nat,
           NEW from \in Nat, NEW len \in Nat \ {0}, from <= e[i].size
    PROVE  - BlocksNeeded(e[i].size, from, len) <= DiskSize
<1> DEFINE size == e[i].size
           need == BlocksNeeded(size, from, len)
           last == (from + len - 1) \div BlockSize
<1>1. /\ need \in Int /\ last = BlocksFor(size) + need - 1
  <2> HIDE DEF size
  <2>1. size \in Nat /\ from <= size
    BY DEF size
  <2>2. QED
    BY <2>1, WriteSizes
<1>2. last \in Int /\ last >= 0
  <2>1. BlockSize \in Nat \ {0} /\ 0 \in Int /\ from + len - 1 \in Int /\ 0 <= from + len - 1
    BY LayoutAssumption
  <2>2. 0 \div BlockSize <= last /\ 0 \div BlockSize = 0
    <3>1. 0 \div BlockSize <= (from + len - 1) \div BlockSize
      BY <2>1, DivMonotone
    <3>2. 0 \div BlockSize = 0
      BY <2>1
    <3>3. QED
      BY <3>1, <3>2
  <2>3. last \in Int
    BY <2>1, Division
  <2>4. QED
    BY <2>2, <2>3
<1>3. BlocksFor(size) \in Nat /\ BlocksFor(size) + 1 <= DiskSize
  <2>1. Freed(e, i) \in SUBSET m /\ Cardinality(Freed(e, i)) = BlocksFor(size) + 1
    BY FreedNumber
  <2>2. Freed(e, i) \subseteq Blocks
    BY <2>1 DEF Sound, Typed
  <2>3. IsFiniteSet(Blocks) /\ Cardinality(Blocks) = DiskSize
    <3>1. 0 \in Int /\ DiskSize - 1 \in Int /\ 0 <= DiskSize - 1
      BY LayoutAssumption
    <3>2. IsFiniteSet(0 .. DiskSize - 1) /\ Cardinality(0 .. DiskSize - 1) = (DiskSize - 1) - 0 + 1
      BY <3>1, FS_Interval
    <3>3. QED
      BY <3>2, LayoutAssumption DEF Blocks
  <2>4. Cardinality(Freed(e, i)) <= DiskSize
    BY <2>2, <2>3, FS_Subset
  <2>5. BlocksFor(size) \in Nat
    BY BlocksForProperty
  <2>6. QED
    BY <2>1, <2>4, <2>5
<1> HIDE DEF need, last
<1>4. - need <= DiskSize
  BY <1>1, <1>2, <1>3, LayoutAssumption
<1>5. QED
  BY <1>4 DEF need

\* fs_write.
LEMMA WriteDiscreet ==
    ASSUME NEW t \in Threads, StepIInv(t), Trusty(t), Reliable, Write1(t)
    PROVE  Discreet(t)
<1> DEFINE r == thr[t]
           c == r.call
           i == r.inum
           from == c.offset
           len == c.len
           size == Found.size
           need == BlocksNeeded(size, from, len)
           room == FirstFree(bitmap, need)
           count == Cardinality(WriteIdx(from, len))
           lo == from \div BlockSize
           old == BlocksFor(size)
<1>1. /\ Arrives(t, {"write"}, "target") /\ Found.type = "file"
      /\ from > size => Becomes(t, Answer(r, EINVAL))
      /\ ~(from > size) /\ room = {} => Becomes(t, Answer(r, ENOSPC))
      /\ ~(from > size) /\ room # {} =>
            \E fresh \in room : Becomes(t, Do([r EXCEPT !.buf = ZeroBuffer(count)], WriteEffects(r, Found, fresh), len))
  BY DEF Write1
<1>2. Standing(t) /\ Reticent /\ c.op = "write" /\ AtTarget(r, settled, Found) /\ SaneCall(c)
  BY <1>1, ResolvedView
<1>3. i \in Blocks \ {SuperBlock} /\ Found \in Inode
  BY <1>1, ResolvedBlock
<1>4. InodeAt(settled, c.path) = i /\ settled.disk[i] = Found /\ i >= 0 /\ ~(i < 0)
  BY <1>2, <1>3 DEF AtTarget, Blocks
<1>5. FileAt(settled, c.path) = i
  BY <1>1, <1>3, <1>4 DEF FileAt, IsFile, IsInode, Inode
<1>6. from \in Nat /\ len \in Nat \ {0} /\ c.now \in Times /\ size \in Nat
  BY <1>2, <1>3 DEF SaneCall, Inode
<1>7. settled.disk = disk /\ settled.bitmap = bitmap /\ settled.statVfs = statVfs
  BY <1>2 DEF Standing, Current
<1>8. WriteVerdict(settled, c.path, from, len) =
         IF from > size THEN EINVAL ELSE IF room = {} THEN ENOSPC ELSE OK
  <2>1. WriteVerdict(settled, c.path, from, len) =
           IF from > Found.size THEN EINVAL
           ELSE IF FirstFree(settled.bitmap, BlocksNeeded(Found.size, from, len)) = {} THEN ENOSPC
           ELSE OK
    <3> HIDE DEF i, from, len
    <3>1. QED
      BY <1>4, <1>5, WriteDecides
  <2>2. QED
    BY <1>7, <2>1
<1>9. \A v : v = WriteVerdict(settled, c.path, from, len) => Judged(settled, c, v)
  BY <1>2 DEF Judged
<1>10. CASE from > size
  <2>1. EINVAL < 0 /\ Judged(settled, c, EINVAL)
    BY <1>8, <1>9, <1>10 DEF EINVAL
  <2>2. QED
    BY <1>1, <1>2, <1>10, <2>1, TurnsBack
<1>11. CASE ~(from > size) /\ room = {}
  <2>1. ENOSPC < 0 /\ Judged(settled, c, ENOSPC)
    BY <1>8, <1>9, <1>11 DEF ENOSPC
  <2>2. QED
    BY <1>1, <1>2, <1>11, <2>1, TurnsBack
<1>12. CASE ~(from > size) /\ room # {}
  <2>1. PICK fresh \in room : Becomes(t, Do([r EXCEPT !.buf = ZeroBuffer(count)], WriteEffects(r, Found, fresh), len))
    BY <1>1, <1>12
  <2> DEFINE ino == Grown(Found, fresh, from + len, c.now)
             w == [r EXCEPT !.buf = ZeroBuffer(count)]
  <2>2. PICK e, m : Meets(r, e, m, Found)
    BY <1>1, ResolvedFacts
  <2>3. r \in ThreadType /\ Heads(r, e, m, disk, bitmap, owed) /\ Found = e[i]
    BY <1>1, <2>2, ResolvedFacts DEF Meets
  <2>4. /\ Sound(e, m) /\ i \in LiveIn(e, m) /\ m \subseteq bitmap /\ Shadow(disk, e, m)
    BY <2>3, HeadsFacts DEF Clean
  <2>5. i # BitmapBlock /\ disk \in [Blocks -> Content]
    BY <2>4, ShadowFacts
  <2>6. need \in Int /\ from <= size
    <3>1. from <= size
      BY <1>6, <1>12
    <3> HIDE DEF from, len, size
    <3>2. QED
      BY <1>6, <3>1, WriteSizes
  <2>7. /\ fresh \in [1 .. need -> Blocks \ bitmap]
        /\ \A j, k \in 1 .. need : fresh[j] = fresh[k] => j = k
    <3> HIDE DEF need
    <3>1. QED
      BY <2>1, <2>6, FirstFreeProperty
  <2>8. fresh \in [1 .. need -> Blocks \ m] /\ fresh \in [1 .. need -> Blocks]
    <3> HIDE DEF need
    <3>1. QED
      BY <2>4, <2>7
  <2>9. Outgrown(e, m, i, ino, fresh, WriteIdx(from, len), need)
    <3>1. ino = Grown(e[i], fresh, from + len, c.now) /\ need = BlocksNeeded(e[i].size, from, len)
          /\ e[i].type = "file" /\ from <= e[i].size
      BY <1>1, <2>3, <2>6
    <3> DEFINE now == c.now
    <3>2. now \in Times
      BY <1>6
    <3> HIDE DEF ino, need, from, len, i, size, now
    <3>3. QED
      BY <1>6, <2>4, <2>7, <2>8, <3>1, <3>2, GrownFits DEF now
  <2>10. Spread(c, ino, lo, count)
    <3>1. ino = Grown(e[i], fresh, c.offset + c.len, c.now) /\ need = BlocksNeeded(e[i].size, c.offset, c.len)
          /\ e[i].type = "file" /\ c.offset <= e[i].size /\ e[i] \in Inode
          /\ c.offset \in Nat /\ c.len \in Nat \ {0}
          /\ Outgrown(e, m, i, ino, fresh, WriteIdx(c.offset, c.len), need)
      BY <1>1, <1>3, <1>6, <2>3, <2>6, <2>9
    <3> HIDE DEF ino, need, i, size, c
    <3>2. Spread(c, ino, c.offset \div BlockSize, Cardinality(WriteIdx(c.offset, c.len)))
      BY <2>4, <3>1, GrownSpread
    <3>3. QED
      BY <3>2
  <2>11. ino \in Content
    BY <2>9 DEF Outgrown, Fits, Content
  <2>12. old \in Nat
    BY <1>6, BlocksForProperty
  <2>13. Growth(r, Found, fresh, ino, old, need, lo, count)
    BY <1>3, <2>5, <2>6, <2>10, <2>11, <2>12 DEF Growth
  <2>14. statVfs.f_bfree - need <= MaxFree
    <3>1. - BlocksNeeded(e[i].size, from, len) <= DiskSize
      <4>1. e[i].size \in Nat /\ from <= e[i].size
        BY <1>6, <2>3, <2>6
      <4> HIDE DEF from, len, i, size
      <4>2. QED
        BY <1>6, <2>4, <4>1, WriteLeaves
    <3>2. - need <= DiskSize
      BY <2>3, <3>1
    <3>3. statVfs.f_bfree + DiskSize <= MaxFree
      BY <1>2, <1>7 DEF Standing, Aware
    <3>4. statVfs.f_bfree \in Int
      BY DEF StepIInv, CountersOK
    <3> DEFINE f == statVfs.f_bfree
    <3> HIDE DEF need, f
    <3>5. f - need <= MaxFree
      BY <2>6, <3>2, <3>3, <3>4, LayoutAssumption, ClientAssumption DEF f
    <3>6. QED
      BY <3>5 DEF f
  <2> DEFINE image == Stored([disk EXCEPT ![i] = ino], ino, old, from, len, c.byte)
  <2>15. image = StoredIn(settled, c, fresh)
    <3>1. StoredIn(settled, c, fresh) =
          Stored([settled.disk EXCEPT ![i] = Grown(settled.disk[i], fresh, c.offset + c.len, c.now)],
                 Grown(settled.disk[i], fresh, c.offset + c.len, c.now), BlocksFor(settled.disk[i].size),
                 c.offset, c.len, c.byte)
      BY <1>5 DEF StoredIn
    <3>2. QED
      BY <1>4, <1>7, <3>1
  <2>16. PICK y : /\ Runs(c, WriteEffects(r, Found, fresh), Scene(disk, bitmap, statVfs, r.seen, ZeroBuffer(count)), y)
                  /\ Left(image, bitmap, statVfs, fresh, need, y)
    <3> DEFINE seen == r.seen
               d == disk
               bm == bitmap
               v == statVfs
               found == Found
               im == image
               ex == [disk EXCEPT ![i] = ino]
    <3>1. bm \in SUBSET Blocks
      BY DEF StepIInv
    <3>2. d \in [Blocks -> Content]
      BY <2>5
    <3>3. Wrote(r, ex, ino, old, im) /\ Replaced(d, r.inum, ino, ex)
      BY DEF Replaced, Wrote
    <3>4. Growth(r, found, fresh, ino, old, need, lo, count)
      BY <2>13
    <3>5. Taken(fresh, need)
      BY <2>8 DEF Taken
    <3> HIDE DEF r, seen, d, bm, v, found, im, ex, need, ino, old, lo, count
    <3>6. \E y : /\ Runs(r.call, WriteEffects(r, found, fresh), Scene(d, bm, v, seen, ZeroBuffer(count)), y)
                 /\ Left(im, bm, v, fresh, need, y)
      BY <3>1, <3>2, <3>3, <3>4, <3>5, WriteRuns
    <3>7. QED
      BY <3>6 DEF seen, d, bm, v, found, im, r
  <2>17. Stuffs(c, settled, y)
    <3>1. need = BlocksNeeded(settled.disk[FileAt(settled, c.path)].size, c.offset, c.len)
      BY <1>4, <1>5
    <3>2. WriteVerdict(settled, c.path, c.offset, c.len) = OK
      BY <1>8, <1>12
    <3>3. fresh \in FirstFree(settled.bitmap, need)
      BY <1>7, <2>1
    <3> HIDE DEF need, image, i
    <3>4. QED
      BY <1>2, <1>7, <2>14, <2>15, <2>16, <3>1, <3>2, <3>3 DEF Stuffs, Left
  <2>18. Outcome(c, len, settled, y)
    BY <2>17 DEF Outcome
  <2>19. Full(w) /\ w.call = c /\ w.seen = r.seen /\ w.buf = ZeroBuffer(count)
    <3> DEFINE z == ZeroBuffer(count)
    <3>1. w = [r EXCEPT !.buf = z] /\ Full(r)
      BY <1>2 DEF Standing
    <3> HIDE DEF w, z, r
    <3>2. Full(w) /\ w.call = r.call /\ w.seen = r.seen /\ w.buf = z
      BY <3>1, FieldsBuf
    <3>3. QED
      BY <3>2 DEF z, r
  <2>20. Becomes(t, Do(w, WriteEffects(r, Found, fresh), len))
    BY <2>1
  <2>21. Runs(c, WriteEffects(r, Found, fresh), Scene(disk, bitmap, statVfs, w.seen, w.buf), y)
    <3> HIDE DEF w
    <3>1. QED
      BY <2>16, <2>19
  <2> DEFINE q == WriteEffects(r, Found, fresh)
  <2> HIDE DEF w, q, len
  <2>22. Becomes(t, Do(w, q, len)) /\ w.call = thr[t].call /\ Full(w)
    BY <2>19, <2>20 DEF q
  <2>23. Runs(thr[t].call, q, Scene(disk, bitmap, statVfs, w.seen, w.buf), y)
    BY <2>21 DEF q
  <2>24. QED
    BY <1>2, <2>18, <2>22, <2>23, Resolves
<1>13. QED
  BY <1>10, <1>11, <1>12

-----------------------------------------------------------------------------
(* The steps that work off a queue                                         *)

\* The job a thread is at leads on to what its call is to leave.
LEMMA JobAhead ==
    ASSUME NEW t \in Threads, thr[t].todo # <<>>, Ends(thr[t], disk, bitmap, statVfs, settled)
    PROVE  /\ Following(t) \in Jobs
           /\ \E z : /\ Works(thr[t].call, Following(t), Now(t), z)
                     /\ \E y : Runs(thr[t].call, Tail(thr[t].todo), z, y) /\ Outcome(thr[t].call, thr[t].ret, settled, y)
<1> DEFINE c == thr[t].call
           q == thr[t].todo
           ret == thr[t].ret
<1>1. PICK y : Runs(c, q, Now(t), y) /\ Outcome(c, ret, settled, y)
  BY DEF Ends, Now
<1> HIDE DEF c, q, ret
<1>2. q # <<>>
  BY DEF q
<1>3. Head(q) \in Jobs /\ \E z : Works(c, Head(q), Now(t), z) /\ Runs(c, Tail(q), z, y)
  BY <1>1, <1>2, RunsOn
<1>4. QED
  BY <1>1, <1>3 DEF Following, c, q, ret

\* When it is done, what is left leads there too.
LEMMA JobDiscreet ==
    ASSUME NEW t \in Threads, StepIInv(t), Trusty(t), Ends(thr[t], disk, bitmap, statVfs, settled),
           thr[t].at = "todo", thr[t].todo # <<>>, reply' = reply,
           \/ PutNext(t) \/ SaveNext(t) \/ StoreNext(t) \/ FetchNext(t)
           \/ LoadNext(t) \/ BitsNext(t) \/ CountNext(t)
    PROVE  Discreet(t)
<1>1. PICK z : /\ Works(thr[t].call, Following(t), Now(t), z)
               /\ \E y : /\ Runs(thr[t].call, Tail(thr[t].todo), z, y)
                         /\ Outcome(thr[t].call, thr[t].ret, settled, y)
  BY JobAhead
<1>2. Now(t)' = z /\ Onward(t)
  BY <1>1, JobWorks
<1>3. /\ thr'[t].call = thr[t].call /\ thr'[t].ret = thr[t].ret /\ thr'[t].at = "todo"
      /\ thr'[t].todo = Tail(thr[t].todo) /\ settled' = settled
  BY <1>2 DEF Onward
<1>4. z = Scene(disk', bitmap', statVfs', thr'[t].seen, thr'[t].buf)
  BY <1>2 DEF Now
<1>5. Ends(thr'[t], disk', bitmap', statVfs', settled')
  BY <1>1, <1>3, <1>4 DEF Ends
<1>6. thr[t].call \in Requests /\ thr[t].call.op \in Calls
  BY DEF Trusty, Faithful
<1>7. Trusty(t)'
  BY <1>3, <1>5, <1>6 DEF Trusty, Faithful
<1>8. QED
  BY <1>3, <1>7 DEF Discreet

\* One that is doomed only reads,
LEMMA DoomedFacts ==
    ASSUME NEW t \in Threads, StepIInv(t), Doomed(thr[t], disk, bitmap, statVfs, settled), thr[t].todo # <<>>
    PROVE  Following(t).do = "fetch" /\ thr[t].todo \in Seq(Jobs) /\ Following(t) = thr[t].todo[1]
<1>1. thr[t].todo \in Seq(Jobs)
  BY DEF StepIInv, ThreadType
<1>2. 1 \in 1 .. Len(thr[t].todo) /\ Head(thr[t].todo) = thr[t].todo[1]
  BY <1>1
<1>3. QED
  BY <1>1, <1>2 DEF Doomed, Following

\* and is doomed as long as it reads.
LEMMA DoomedDiscreet ==
    ASSUME NEW t \in Threads, StepIInv(t), Trusty(t), Doomed(thr[t], disk, bitmap, statVfs, settled),
           thr[t].at = "todo", thr[t].todo # <<>>, FetchNext(t)
    PROVE  Discreet(t)
<1> DEFINE q == thr[t].todo
<1>1. Following(t).do = "fetch" /\ q \in Seq(Jobs) /\ Following(t) = q[1]
  BY DoomedFacts
<1>2. ReadBlock(t) /\ Reading(t)
  BY DEF FetchNext, ReadBlock
<1>3. q[1].lba \in Blocks /\ Untouched
  <2>1. Lba(t) \in Blocks /\ Untouched
    BY <1>2, ReadFacts
  <2>2. Lba(t) = Following(t).lba
    BY <1>2, LbaFacts
  <2>3. QED
    BY <1>1, <2>1, <2>2
<1>4. disk' = disk /\ bitmap' = bitmap /\ statVfs' = statVfs /\ settled' = settled /\ reply' = reply
  BY <1>2, <1>3 DEF Untouched, ReadBlock
<1>5. Onward(t)
  <2> DEFINE z == Scene(disk, bitmap, statVfs, thr[t].seen,
                        [thr[t].buf EXCEPT ![Following(t).slot] = RawBytes(disk[Following(t).lba])])
  <2>1. Works(thr[t].call, Following(t), Now(t), z)
    BY <1>1, <1>3 DEF Works, Now, Scene
  <2> HIDE DEF z
  <2>2. QED
    BY <2>1, JobWorks
<1>6. /\ thr'[t].call = thr[t].call /\ thr'[t].at = "todo" /\ thr'[t].todo = Tail(q)
  BY <1>5 DEF Onward
<1>7. /\ Current(settled, disk, bitmap, statVfs)
      /\ thr[t].call.op = "read"
      /\ ReadVerdict(settled, thr[t].call.path, thr[t].call.offset, thr[t].call.len) = EIO
      /\ \A k \in 1 .. Len(q) : q[k].do = "fetch"
      /\ \E k \in 1 .. Len(q) : q[k].lba \notin Blocks
  BY DEF Doomed
<1> HIDE DEF q
<1>8. /\ \A k \in 1 .. Len(Tail(q)) : Tail(q)[k].do = "fetch"
      /\ \E k \in 1 .. Len(Tail(q)) : Tail(q)[k].lba \notin Blocks
  <2>1. q # <<>>
    BY DEF q
  <2>2. /\ Len(Tail(q)) = Len(q) - 1 /\ Len(q) \in Nat
        /\ \A k \in 1 .. Len(q) - 1 : Tail(q)[k] = q[k + 1]
    BY <1>1, <2>1
  <2>3. PICK k \in 1 .. Len(q) : q[k].lba \notin Blocks
    BY <1>7
  <2>4. k # 1
    BY <1>3, <2>3 DEF q
  <2>5. k - 1 \in 1 .. Len(q) - 1 /\ (k - 1) + 1 = k
    BY <2>2, <2>3, <2>4
  <2>6. Tail(q)[k - 1] = q[k]
    BY <2>2, <2>5
  <2>7. \A j \in 1 .. Len(q) - 1 : j + 1 \in 1 .. Len(q)
    BY <2>2
  <2>8. QED
    BY <1>7, <2>2, <2>3, <2>5, <2>6, <2>7, SMTT(30)
<1>9. Doomed(thr'[t], disk', bitmap', statVfs', settled')
  BY <1>4, <1>6, <1>7, <1>8 DEF Doomed
<1>10. thr[t].call \in Requests /\ thr[t].call.op \in Calls
  BY DEF Trusty, Faithful
<1>11. Trusty(t)'
  BY <1>6, <1>9, <1>10 DEF Trusty, Faithful
<1>12. QED
  BY <1>4, <1>11 DEF Discreet

\* A job.
LEMMA QueueDiscreet ==
    ASSUME NEW t \in Threads, StepIInv(t), Trusty(t),
           \/ PutNext(t) \/ SaveNext(t) \/ StoreNext(t) \/ FetchNext(t)
           \/ LoadNext(t) \/ BitsNext(t) \/ CountNext(t)
    PROVE  Discreet(t)
<1>1. thr[t].at = "todo" /\ thr[t].todo # <<>>
  BY DEF PutNext, SaveNext, StoreNext, FetchNext, LoadNext, BitsNext, CountNext, ToDo
<1>2. reply' = reply
  BY DEF PutNext, SaveNext, StoreNext, FetchNext, LoadNext, BitsNext, CountNext, ReadBlock, WriteBlock
<1>3. Ends(thr[t], disk, bitmap, statVfs, settled) \/ Doomed(thr[t], disk, bitmap, statVfs, settled)
  BY <1>1 DEF Trusty, Faithful
<1>4. CASE Ends(thr[t], disk, bitmap, statVfs, settled)
  BY <1>1, <1>2, <1>4, JobDiscreet
<1>5. CASE Doomed(thr[t], disk, bitmap, statVfs, settled)
  <2>1. Following(t).do = "fetch"
    BY <1>1, <1>5, DoomedFacts
  <2>2. FetchNext(t)
    BY <2>1 DEF PutNext, SaveNext, StoreNext, LoadNext, BitsNext, CountNext, ToDo
  <2>3. QED
    BY <1>1, <1>5, <2>2, DoomedDiscreet
<1>6. QED
  BY <1>3, <1>4, <1>5

-----------------------------------------------------------------------------
(* The file offset                                                         *)

\* No write goes to the superblock or below it.
LEMMA WritesAboveSuper ==
    ASSUME NEW t \in Threads, StepIInv(t), Trusty(t), Writing(t)
    PROVE  Lba(t) > 0
<1>1. thr[t].at = "todo" /\ thr[t].todo # <<>> /\ Following(t).do \in {"put", "save", "store"}
  BY DEF Writing, ToDo
<1>2. Ends(thr[t], disk, bitmap, statVfs, settled)
  <2>1. Following(t).do # "fetch"
    BY <1>1
  <2>2. QED
    BY <1>1, <2>1, DoomedFacts DEF Trusty, Faithful
<1>3. Lba(t) = Following(t).lba
  BY <1>1, LbaFacts
<1>4. PICK z : Works(thr[t].call, Following(t), Now(t), z)
  BY <1>1, <1>2, JobAhead
<1>5. Following(t) \in Jobs
  BY <1>1, <1>2, JobAhead
<1>6. Following(t).do = "save" => Following(t).lba = BitmapBlock
  BY <1>5 DEF Jobs
<1>7. Following(t).do \in {"put", "store"} => Following(t).lba \in Blocks \ {SuperBlock}
  BY <1>4 DEF Works
<1>8. QED
  BY <1>1, <1>3, <1>6, <1>7, LayoutAssumption DEF Blocks, SuperBlock, BitmapBlock

\* An lseek.
LEMMA SeekDiscreet ==
    ASSUME NEW t \in Threads, StepIInv(t), Trusty(t), SeekBlock(t)
    PROVE  Discreet(t)
<1> DEFINE r == thr[t]
           k == r.sought + 1
<1>1. /\ disk' = disk /\ bitmap' = bitmap /\ statVfs' = statVfs /\ settled' = settled /\ reply' = reply
      /\ thr' = [thr EXCEPT ![t] = IF Writing(t) /\ Lba(t) <= 0 THEN Dead ELSE [r EXCEPT !.sought = k]]
  BY DEF SeekBlock, Device!Seek
<1>2. thr \in [Threads -> ThreadType] /\ Full(r)
  BY TypeFull DEF StepIInv
<1>3. ~(Writing(t) /\ Lba(t) <= 0)
  <2>1. CASE Writing(t)
    <3>1. Lba(t) \in Int
      BY <2>1, LbaFacts
    <3>2. QED
      BY <2>1, <3>1, WritesAboveSuper
  <2>2. QED
    BY <2>1
<1>4. thr'[t] = [r EXCEPT !.sought = k]
  BY <1>1, <1>2, <1>3
<1> HIDE DEF r, k
<1>5. Faithful(r, disk, bitmap, statVfs, settled)
  BY DEF Trusty, r
<1>6. Faithful([r EXCEPT !.sought = k], disk, bitmap, statVfs, settled)
  BY <1>2, <1>5, FaithfulSought
<1>7. Trusty(t)'
  BY <1>1, <1>4, <1>6 DEF Trusty
<1>8. QED
  BY <1>1, <1>7 DEF Discreet

\* A read of a pointer that leads nowhere: only fs_read meets one.
LEMMA NowhereDiscreet ==
    ASSUME NEW t \in Threads, StepIInv(t), Trusty(t), ReadNowhere(t)
    PROVE  Discreet(t)
<1> DEFINE r == thr[t]
<1>1. /\ Reading(t) /\ (IF Ready(t) THEN offset \notin Blocks ELSE Lba(t) < 0)
      /\ disk' = disk /\ bitmap' = bitmap /\ statVfs' = statVfs /\ settled' = settled /\ reply' = reply
  BY DEF ReadNowhere
<1>2. PICK w \in AfterError(r) : Becomes(t, w)
  BY DEF ReadNowhere
<1>3. /\ r \in ThreadType /\ thr \in [Threads -> ThreadType] /\ Full(r) /\ offset \in Nat
      /\ Aimed(r, Lba(t), Writing(t), offset) /\ Phase(r, disk, bitmap, owed)
  BY TypeFull DEF StepIInv
<1>4. Lba(t) \notin Blocks
  <2>1. ~Writing(t) /\ Lba(t) \in Int
    BY <1>1, LbaFacts DEF Reading, Writing, ToDo
  <2>2. CASE Ready(t)
    <3>1. r.sought = 1
      BY <2>1, <2>2 DEF Ready, Seeks
    <3>2. offset = Lba(t) + 1 - 1
      BY <1>3, <2>1, <3>1 DEF Aimed
    <3>3. QED
      BY <1>1, <2>1, <2>2, <3>2
  <2>3. CASE ~Ready(t)
    BY <1>1, <2>1, <2>3 DEF Blocks
  <2>4. QED
    BY <2>2, <2>3
<1>5. r.at = "todo" /\ r.todo # <<>> /\ Following(t).do = "fetch" /\ Following(t).lba \notin Blocks
  <2>1. r.at # "inode"
    BY <1>1, <1>3, <1>4, LbaFacts DEF ThreadType
  <2>2. r.at \notin {"entries", "dir"}
    <3>1. SUFFICES ASSUME r.at \in {"entries", "dir"} PROVE FALSE
      OBVIOUS
    <3>2. PICK e, m : Heads(r, e, m, disk, bitmap, owed)
      BY <1>3, <3>1 DEF Phase, Walking
    <3>3. r.ino.ptrs[0] \in Blocks
      <4> HIDE DEF r
      <4>1. QED
        BY <1>3, <3>1, <3>2, ListingFacts
    <3>4. Lba(t) = r.ino.ptrs[0]
      BY <1>1, <3>1, LbaFacts
    <3>5. QED
      BY <1>4, <3>3, <3>4
  <2>3. ToDo(t, {"fetch"})
    BY <1>1, <2>1, <2>2 DEF Reading
  <2>4. r.at = "todo" /\ r.todo # <<>> /\ Following(t).do = "fetch"
    BY <2>3 DEF ToDo
  <2>5. Lba(t) = Following(t).lba
    BY <1>1, <2>4, LbaFacts
  <2>6. QED
    BY <1>4, <2>4, <2>5
<1>6. ~Ends(r, disk, bitmap, statVfs, settled)
  <2>1. SUFFICES ASSUME Ends(r, disk, bitmap, statVfs, settled) PROVE FALSE
    OBVIOUS
  <2>2. PICK z : Works(r.call, Following(t), Now(t), z)
    BY <1>5, <2>1, JobAhead
  <2>3. QED
    BY <1>5, <2>2 DEF Works
<1>7. Doomed(r, disk, bitmap, statVfs, settled) /\ r.call \in Requests /\ r.call.op \in Calls
  BY <1>5, <1>6 DEF Trusty, Faithful
<1>8. /\ Current(settled, disk, bitmap, statVfs) /\ EIO < 0 /\ r.call.op = "read"
      /\ Judged(settled, r.call, EIO)
  BY <1>7 DEF Doomed, Judged, EIO
<1>9. w = Answer(r, EIO)
  BY <1>2, <1>5 DEF AfterError
<1>10. Full(w) /\ Faithful(w, disk, bitmap, statVfs, settled)
  <2> DEFINE err == EIO
  <2>1. err < 0 /\ Judged(settled, r.call, err) /\ w = Answer(r, err)
    BY <1>8, <1>9
  <2> HIDE DEF r, err
  <2>2. QED
    BY <1>3, <1>7, <1>8, <2>1, FaithfulAnswer
<1>11. Trusty(t)'
  BY <1>1, <1>2, <1>3, <1>10, FaithfulTurn
<1>12. QED
  BY <1>1, <1>11 DEF Discreet

-----------------------------------------------------------------------------
(* Calls begin and return                                                  *)

\* A thread that is idle is faithful once the state has settled.
LEMMA FaithfulIdle ==
    ASSUME NEW d, NEW bm, NEW v, NEW s, Current(s, d, bm, v)
    PROVE  Full(Idle) /\ Faithful(Idle, d, bm, v, s)
<1>1. Idle.at = "idle" /\ Full(Idle)
  BY IdleType, TypeFull
<1>2. QED
  BY <1>1 DEF Faithful

\* A call that returns takes the step of the atomic handler.
LEMMA ReturnAtomic ==
    ASSUME NEW t \in Threads, StepIInv(t), Trusty(t), Return(t)
    PROVE  Trusty(t)' /\ Atomic!Next
<1> DEFINE r == thr[t]
           c == r.call
           ret == r.ret
           y == Now(t)
<1>1. /\ r.at = "todo" /\ r.todo = <<>> /\ Becomes(t, Idle)
      /\ settled' = [disk |-> disk, bitmap |-> bitmap, statVfs |-> statVfs]
      /\ disk' = disk /\ bitmap' = bitmap /\ statVfs' = statVfs
  BY DEF Return
<1>2. reply' = [op |-> c.op, path |-> c.path, ret |-> ret,
                data |-> IF c.op # "read" THEN <<>> ELSE [n \in 1 .. ret |-> Returned(r, n)]]
  BY DEF Return
<1>3. r \in ThreadType /\ thr \in [Threads -> ThreadType] /\ ret \in Int
  BY DEF StepIInv, ThreadType
<1>4. /\ y.disk = disk /\ y.bitmap = bitmap /\ y.statVfs = statVfs /\ y.buf = r.buf
  BY DEF Now, Scene
<1>5. c \in Requests /\ c.op \in Calls
  BY <1>1 DEF Trusty, Faithful
<1>6. ~Doomed(r, disk, bitmap, statVfs, settled)
  <2>1. Len(<<>>) = 0 /\ 1 .. 0 = {}
    OBVIOUS
  <2>2. QED
    BY <1>1, <2>1 DEF Doomed
<1>7. PICK z : Runs(c, <<>>, y, z) /\ Outcome(c, ret, settled, z)
  BY <1>1, <1>6 DEF Trusty, Faithful, Ends, Now
<1>8. Outcome(c, ret, settled, y)
  <2>1. z = y
    <3> HIDE DEF c, y
    <3>1. QED
      BY <1>7, RunsOne
  <2>2. QED
    BY <1>7, <2>1
<1>9. Answers(c, ret, y)
  <2>1. \A n : Returned(r, n) = Given(c, y.buf, n)
    BY <1>4 DEF Returned, Given
  <2>2. settled'.disk = y.disk /\ settled'.bitmap = y.bitmap /\ settled'.statVfs = y.statVfs
    BY <1>1, <1>4
  <2> HIDE DEF r, c, y, ret
  <2>3. QED
    BY <1>2, <2>1, <2>2 DEF Answers
<1>10. Atomic!Next
  <2> HIDE DEF r, c, y, ret
  <2>1. QED
    BY <1>3, <1>5, <1>8, <1>9, OutcomeAtomic
<1>11. Current(settled', disk', bitmap', statVfs')
  BY <1>1 DEF Current
<1>12. Trusty(t)'
  <2>1. Full(Idle) /\ Faithful(Idle, disk', bitmap', statVfs', settled')
    BY <1>11, FaithfulIdle
  <2> DEFINE w == Idle
  <2>2. Full(w) /\ Faithful(w, disk', bitmap', statVfs', settled') /\ Becomes(t, w)
    BY <1>1, <2>1
  <2> HIDE DEF w
  <2>3. QED
    BY <1>3, <2>2, FaithfulTurn
<1>13. QED
  BY <1>10, <1>12

\* What a call begins with.
LEMMA StartFaithful ==
    ASSUME NEW c \in Requests, c.op \in Calls, NEW d, NEW bm, NEW v, NEW s, Current(s, d, bm, v),
           c.op = "write" => s.statVfs.f_bfree + DiskSize <= MaxFree
    PROVE  Faithful(Start(c), d, bm, v, s)
<1> DEFINE r == [Idle EXCEPT !.call = c]
           p == Parse(c.path)
<1>1. Full(r) /\ r.call = c
  BY DEF Idle, Full
<1>2. /\ c.op = "statfs" => Start(c) = Answer(r, OK)
      /\ c.op # "statfs" /\ c.op = "truncate" /\ c.len < 0 => Start(c) = Answer(r, EINVAL)
      /\ c.op # "statfs" /\ ~(c.op = "truncate" /\ c.len < 0) /\ c.op \in Adding =>
            Start(c) = Walk(r, "parent", Front(p))
      /\ c.op # "statfs" /\ ~(c.op = "truncate" /\ c.len < 0) /\ c.op \notin Adding =>
            Start(c) = Walk(r, "target", p)
  BY DEF Start
<1> HIDE DEF r
<1>3. CASE c.op = "statfs"
  <2> DEFINE ok == OK
  <2>1. \A y : Unmoved(s, y) => Outcome(r.call, ok, s, y)
    BY <1>1, <1>3 DEF Outcome, Looks
  <2> HIDE DEF ok
  <2>2. Faithful(Answer(r, ok), d, bm, v, s)
    BY <1>1, <2>1, FaithfulAnswer
  <2>3. QED
    BY <1>2, <1>3, <2>2 DEF ok
<1>4. CASE c.op # "statfs" /\ c.op = "truncate" /\ c.len < 0
  <2> DEFINE err == EINVAL
  <2>1. TruncateVerdict(s, c.path, c.len) = EINVAL
    BY <1>4 DEF TruncateVerdict
  <2>2. err < 0 /\ Judged(s, r.call, err)
    BY <1>1, <1>4, <2>1 DEF Judged, EINVAL
  <2> HIDE DEF err
  <2>3. Faithful(Answer(r, err), d, bm, v, s)
    BY <1>1, <2>2, FaithfulAnswer
  <2>4. QED
    BY <1>2, <1>4, <2>3 DEF err
<1>5. ASSUME NEW goal, goal = IF c.op \in Adding THEN "parent" ELSE "target",
             NEW path, c.op # "statfs"
      PROVE  Faithful(Walk(r, goal, path), d, bm, v, s)
  <2> DEFINE w == Walk(r, goal, path)
  <2>1. w.at = "inode" /\ w.goal = goal /\ w.call = c
    BY <1>1, FieldsWalk
  <2> HIDE DEF w
  <2>2. Aware(w, s)
    <3>1. c.op \in Adding => c.op \notin Moving /\ c.op \notin {"unlink", "rmdir", "write"}
      BY DEF Adding, Moving
    <3>2. QED
      BY <1>5, <2>1, <3>1 DEF Aware
  <2>3. Faithful(w, d, bm, v, s)
    BY <2>1, <2>2, FaithfulWalk
  <2>4. QED
    BY <2>3 DEF w
<1>6. CASE c.op # "statfs" /\ ~(c.op = "truncate" /\ c.len < 0) /\ c.op \in Adding
  <2> DEFINE goal == "parent"
             path == Front(p)
  <2>1. Start(c) = Walk(r, goal, path) /\ goal = IF c.op \in Adding THEN "parent" ELSE "target"
    BY <1>2, <1>6
  <2> HIDE DEF goal, path
  <2>2. QED
    BY <1>5, <1>6, <2>1
<1>7. CASE c.op # "statfs" /\ ~(c.op = "truncate" /\ c.len < 0) /\ c.op \notin Adding
  <2> DEFINE goal == "target"
  <2>1. Start(c) = Walk(r, goal, p) /\ goal = IF c.op \in Adding THEN "parent" ELSE "target"
    BY <1>2, <1>7
  <2> HIDE DEF goal, p
  <2>2. QED
    BY <1>5, <1>7, <2>1
<1>8. QED
  BY <1>3, <1>4, <1>6, <1>7

\* A call begins.
LEMMA BeginDiscreet ==
    ASSUME NEW t \in Threads, StepIInv(t), Trusty(t), NEW c \in Requests, Begin(t, c)
    PROVE  Discreet(t)
<1>1. /\ thr[t].at = "idle" /\ c.op \in Calls /\ thr' = [thr EXCEPT ![t] = Start(c)]
      /\ c.op = "write" => statVfs.f_bfree + DiskSize <= MaxFree
      /\ disk' = disk /\ bitmap' = bitmap /\ statVfs' = statVfs /\ settled' = settled /\ reply' = reply
  BY DEF Begin
<1>2. Current(settled, disk, bitmap, statVfs)
  BY <1>1 DEF Trusty, Faithful
<1>3. settled.statVfs = statVfs
  BY <1>2 DEF Current
<1>4. Faithful(Start(c), disk, bitmap, statVfs, settled)
  BY <1>1, <1>2, <1>3, StartFaithful
<1>5. thr'[t] = Start(c)
  BY <1>1 DEF StepIInv
<1>6. Trusty(t)'
  BY <1>1, <1>4, <1>5 DEF Trusty
<1>7. QED
  BY <1>1, <1>6 DEF Discreet

\* Blocks are counted alike in both specifications.
LEMMA SameCount == \A S : Atomic!Cardinality(S) = Cardinality(S)
  BY DEF Atomic!Cardinality, Cardinality

\* A new mount, between calls, is one in FileSystem.
LEMMA RestartAtomic ==
    ASSUME NEW t \in Threads, Threads = {t}, StepIInv(t), Trusty(t), Restart,
           MaxCrashes = 0, stops.crashes \in Nat
    PROVE  Trusty(t)' /\ Atomic!Next
<1>1. /\ "init" \in Calls /\ thr' = [u \in Threads |-> Idle] /\ Mounted(disk) /\ disk' = disk
      /\ settled' = [disk |-> disk, bitmap |-> bitmap', statVfs |-> statVfs']
      /\ reply' = [op |-> "init", path |-> <<>>, ret |-> OK, data |-> <<>>]
  BY DEF Restart
<1>2. thr[t].at = "idle"
  <2>1. thr[t].at # "dead"
    BY DEF Trusty, Faithful
  <2>2. Alive
    BY <2>1 DEF Alive
  <2>3. ~(stops.crashes < MaxCrashes)
    OBVIOUS
  <2>4. ~Busy(t)
    BY <2>2, <2>3 DEF Restart
  <2>5. QED
    BY <2>1, <2>4 DEF Busy
<1>3. settled.disk = disk
  BY <1>2 DEF Trusty, Faithful, Current
<1>4. settled'.disk = disk /\ settled'.bitmap = bitmap' /\ settled'.statVfs = statVfs'
  BY <1>1
<1>5. Atomic!Mount
  <2>1. Atomic!Mounted(settled.disk)
    BY <1>1, <1>3, <1>4, SameTerms, SameCount DEF Mounted, Atomic!Mounted
  <2>2. Atomic!Done("init", <<>>, Atomic!OK)
    BY <1>1, SameTerms DEF Atomic!Done, Atomic!Reply
  <2>3. QED
    BY <1>3, <1>4, <2>1, <2>2 DEF Atomic!Mount
<1>6. Atomic!Next
  BY <1>5 DEF Atomic!Next
<1>7. Current(settled', disk', bitmap', statVfs')
  BY <1>1, <1>4 DEF Current
<1>8. thr'[t] = Idle
  BY <1>1
<1>9. Trusty(t)'
  BY <1>7, <1>8, FaithfulIdle DEF Trusty
<1>10. QED
  BY <1>6, <1>9

\* The image that was just mounted.
LEMMA InitAtomic ==
    ASSUME NEW t \in Threads, StepInit
    PROVE  Trusty(t) /\ Atomic!Init
<1>1. /\ thr = [u \in Threads |-> Idle] /\ Init
      /\ settled = [disk |-> disk, bitmap |-> bitmap, statVfs |-> statVfs]
  BY DEF StepInit
<1>2. settled.disk = disk /\ settled.bitmap = bitmap /\ settled.statVfs = statVfs
  BY <1>1
<1>3. Trusty(t)
  <2>1. Current(settled, disk, bitmap, statVfs)
    BY <1>2 DEF Current
  <2>2. thr[t] = Idle
    BY <1>1
  <2>3. QED
    BY <2>1, <2>2, FaithfulIdle DEF Trusty
<1>4. Atomic!Init
  <2>1. Atomic!InUse = InUse
    BY SameTerms DEF Atomic!InUse, InUse, Atomic!RootBlock, RootBlock
  <2>2. \A perm, mtime : Atomic!EmptyImage(perm, mtime) = EmptyImage(perm, mtime)
    BY <2>1, SameTerms, SameData DEF Atomic!EmptyImage, EmptyImage, Atomic!RootBlock, RootBlock
  <2>3. Atomic!FreeBlocks = FreeBlocks
    BY <1>2, SameTerms, SameCount DEF Atomic!FreeBlocks, FreeBlocks
  <2>4. PICK perm \in Perms, mtime \in Times : disk = EmptyImage(perm, mtime)
    BY <1>1 DEF Init
  <2>5. /\ bitmap = InUse /\ statVfs = [f_bfree |-> FreeBlocks, f_bavail |-> FreeBlocks]
        /\ reply = [op |-> "init", path |-> <<>>, ret |-> OK, data |-> <<>>]
    BY <1>1 DEF Init
  <2>6. settled.disk = Atomic!EmptyImage(perm, mtime)
    BY <1>2, <2>2, <2>4
  <2>7. QED
    BY <1>2, <2>1, <2>3, <2>5, <2>6, SameTerms DEF Atomic!Init
<1>5. QED
  BY <1>3, <1>4

-----------------------------------------------------------------------------
(* The theorem                                                             *)

\* Without stops and errors every block it reads holds what it is read as,
LEMMA NoneStray ==
    ASSUME NEW t \in Threads, StepIInv(t), Reliable, Stray(t)
    PROVE  FALSE
<1> DEFINE r == thr[t]
<1>1. /\ ReadBlock(t)
      /\ \/ r.at = "inode" /\ Device!Here.kind # "inode"
         \/ r.at \in {"entries", "dir"} /\ ~Legible(Device!Here)
  BY DEF Stray
<1>2. Reading(t) /\ Device!Here = disk[Lba(t)]
  BY <1>1, ReadFacts DEF ReadBlock
<1>3. r \in ThreadType /\ Phase(r, disk, bitmap, owed)
  BY DEF StepIInv
<1>4. PICK e, m : Heads(r, e, m, disk, bitmap, owed)
  BY <1>1, <1>3 DEF Phase, Walking
<1>5. Shadow(disk, e, m) /\ Whole(disk, e, m) /\ disk[r.inum] = e[r.inum] /\ r.inum \in LiveIn(e, m)
  BY <1>3, <1>4, HeadsFacts DEF Clean
<1>6. CASE r.at = "inode"
  <2>1. Lba(t) = r.inum
    BY <1>2, <1>6, LbaFacts
  <2>2. e[r.inum].kind = "inode"
    BY <1>5, ShadowFacts
  <2>3. QED
    BY <1>1, <1>2, <1>5, <1>6, <2>1, <2>2
<1>7. CASE r.at \in {"entries", "dir"}
  <2> DEFINE b == r.ino.ptrs[0]
  <2>1. Lba(t) = b
    BY <1>2, <1>7, LbaFacts
  <2>2. r.inum \in DirsIn(e, m) /\ r.ino = e[r.inum]
    BY <1>3, <1>4, <1>7, ListingFacts
  <2>3. b \in m /\ e[b].kind = "dir"
    BY <1>5, <2>2, ShadowFacts
  <2> HIDE DEF b
  <2>4. disk[b].kind = "dir"
    BY <1>5, <2>3 DEF Whole, Blank
  <2>5. Legible(Device!Here)
    BY <1>2, <2>1, <2>4 DEF Legible
  <2>6. QED
    BY <1>1, <1>7, <2>5
<1>8. QED
  BY <1>1, <1>6, <1>7

\* nothing is owed where blocks are handed out,
LEMMA NothingOwed ==
    ASSUME NEW t \in Threads, StepIInv(t), Reliable, Create2(t) \/ Write1(t)
    PROVE  owed = {}
<1>1. thr[t].at \in {"inode", "dir"}
  BY DEF Create2, Write1, Scans, Arrives
<1>2. thr[t] \in ThreadType /\ Phase(thr[t], disk, bitmap, owed)
  BY DEF StepIInv
<1>3. PICK e, m : Heads(thr[t], e, m, disk, bitmap, owed)
  BY <1>1, <1>2 DEF Phase, Walking
<1>4. QED
  BY <1>2, <1>3, HeadsFacts DEF Clean

\* and the steps of a call that is under way return nothing yet, but for the last.
LEMMA ProceedDiscreet ==
    ASSUME NEW t \in Threads, StepIInv(t), Trusty(t), Reliable, Proceed(t), ~Return(t)
    PROVE  Discreet(t)
<1>1. CASE SeekBlock(t) \/ ReadNowhere(t)
  BY <1>1, SeekDiscreet, NowhereDiscreet
<1>2. CASE WalkInode(t) \/ WalkEntries(t) \/ Stray(t)
  BY <1>2, WalkInodeDiscreet, WalkEntriesDiscreet, NoneStray
<1>3. CASE Getattr1(t) \/ Readdir1(t) \/ Readdir2(t)
  BY <1>3, ReturnDiscreet, LookDiscreet, ReaddirDiscreet
<1>4. CASE Create1(t) \/ Create2(t)
  BY <1>4, LookDiscreet, CreateDiscreet
<1>5. CASE Unlink1(t) \/ Rmdir1(t) \/ Rmdir2(t) \/ Remove1(t) \/ Remove2(t)
  BY <1>5, OtherPathDiscreet, LookDiscreet, RmdirDiscreet, LookAgainDiscreet, RemoveDiscreet
<1>6. CASE Rename1(t) \/ Rename2(t) \/ Rename3(t) \/ Rename4(t)
  BY <1>6, OtherPathDiscreet, ReturnDiscreet, LookAgainDiscreet, RenameDiscreet
<1>7. CASE Chmod1(t) \/ Refused(t) \/ Utime1(t) \/ Truncate1(t) \/ Read1(t) \/ Write1(t)
  BY <1>7, AttributesDiscreet, ReturnDiscreet, TruncateDiscreet, ReadDiscreet, WriteDiscreet
<1>8. CASE \/ PutNext(t) \/ SaveNext(t) \/ StoreNext(t) \/ FetchNext(t)
           \/ LoadNext(t) \/ BitsNext(t) \/ CountNext(t)
  BY <1>8, QueueDiscreet
<1>9. QED
  BY <1>1, <1>2, <1>3, <1>4, <1>5, <1>6, <1>7, <1>8 DEF Proceed

\* They neither stop the process nor count errors, and none goes astray.
LEMMA ProceedStops ==
    ASSUME NEW t \in Threads, StepIInv(t), Reliable, Counted, Proceed(t)
    PROVE  stops' = stops
<1>1. \A x : WriteBlock(t, x) => stops' = stops
  BY DEF WriteBlock
<1>2. ASSUME Create2(t) \/ Write1(t), NEW new, HandsOut(new)
      PROVE  stops' = stops
  <2>1. Range(new) \cap owed = {}
    BY <1>2, NothingOwed
  <2>2. stops' = [stops EXCEPT !.astray = @ \/ Range(new) \cap owed # {}]
    BY <1>2 DEF HandsOut
  <2>3. stops \in [crashes : Nat, faults : Nat, astray : BOOLEAN]
    BY DEF Counted
  <2> DEFINE b == Range(new) \cap owed # {}
  <2>4. ~b /\ stops' = [stops EXCEPT !.astray = @ \/ b]
    BY <2>1, <2>2
  <2> HIDE DEF b
  <2> DEFINE old == stops.astray
  <2>5. old \in BOOLEAN /\ stops' = [stops EXCEPT !.astray = old \/ b]
    BY <2>3, <2>4
  <2> HIDE DEF old
  <2>6. (old \/ b) = old
    BY <2>4, <2>5, Zenon
  <2>7. stops' = [stops EXCEPT !.astray = old]
    BY <2>5, <2>6, Zenon
  <2>8. QED
    BY <2>3, <2>7 DEF old
<1>3. SeekBlock(t) \/ ReadNowhere(t) \/ WalkInode(t) \/ WalkEntries(t) => stops' = stops
  BY DEF SeekBlock, ReadNowhere, WalkInode, WalkEntries
<1>4. ~Stray(t)
  BY NoneStray
<1>5. /\ \A ops, goal : Resolved(t, ops, goal) \/ Listed(t, ops, goal) => stops' = stops
      /\ \A op : ResolvedFile(t, op) => stops' = stops
  BY DEF Resolved, Listed, ResolvedFile
<1>6. Getattr1(t) \/ Readdir1(t) \/ Readdir2(t) \/ Create1(t) => stops' = stops
  BY <1>5 DEF Getattr1, Readdir1, Readdir2, Create1
<1>7. Unlink1(t) \/ Rmdir1(t) \/ Rmdir2(t) \/ Remove1(t) \/ Remove2(t) => stops' = stops
  BY <1>5 DEF Unlink1, Rmdir1, Rmdir2, Remove1, Remove2
<1>8. Rename1(t) \/ Rename2(t) \/ Rename3(t) \/ Rename4(t) => stops' = stops
  BY <1>5 DEF Rename1, Rename2, Rename3, Rename4
<1>9. Chmod1(t) \/ Refused(t) \/ Utime1(t) \/ Truncate1(t) \/ Read1(t) => stops' = stops
  BY <1>5 DEF Chmod1, Refused, Utime1, Truncate1, Read1
<1>10. CASE Create2(t)
  <2>1. stops' = stops \/ \E new : HandsOut(new)
    BY <1>10 DEF Create2
  <2>2. QED
    BY <1>2, <1>10, <2>1
<1>11. CASE Write1(t)
  <2>1. stops' = stops \/ \E new : HandsOut(new)
    BY <1>11 DEF Write1
  <2>2. QED
    BY <1>2, <1>11, <2>1
<1>12. PutNext(t) \/ SaveNext(t) \/ StoreNext(t) \/ FetchNext(t) => stops' = stops
  BY <1>1 DEF PutNext, SaveNext, StoreNext, FetchNext
<1>13. LoadNext(t) \/ BitsNext(t) \/ CountNext(t) \/ Return(t) => stops' = stops
  BY DEF LoadNext, BitsNext, CountNext, Return
<1>14. QED
  BY <1>3, <1>4, <1>6, <1>7, <1>8, <1>9, <1>10, <1>11, <1>12, <1>13 DEF Proceed

\* The inductive invariant, with what a thread knows and what is left for it to do.
RefinesIInv(t) == StepIInv(t) /\ Trusty(t) /\ Counted /\ ~stops.astray

\* A step of the abstract specification, or none.
AtomicStep == UNCHANGED Atomic!vars \/ Atomic!Next

\* A step that returns nothing changes nothing there.
LEMMA DiscreetAtomic ==
    ASSUME NEW t \in Threads, Discreet(t)
    PROVE  Trusty(t)' /\ AtomicStep
<1>1. Trusty(t)' /\ settled' = settled /\ reply' = reply
  BY DEF Discreet
<1>2. UNCHANGED Atomic!vars
  BY <1>1 DEF Atomic!vars
<1>3. QED
  BY <1>1, <1>2 DEF AtomicStep

\* Nothing is counted, and no call goes astray.
LEMMA StopsKept ==
    ASSUME NEW t \in Threads, Threads = {t}, MaxCrashes = 0, MaxFaults = 0,
           RefinesIInv(t), [StepNext]_stepVars
    PROVE  stops' = stops /\ ~Fault(t)
<1>1. StepIInv(t) /\ Counted /\ Reliable
  BY DEF RefinesIInv, Reliable
<1>2. stops.crashes \in Nat /\ stops.faults \in Nat
  BY <1>1 DEF Counted
<1>3. ~(stops.crashes < MaxCrashes) /\ ~(stops.faults < MaxFaults)
  BY <1>2
<1>4. ~Fault(t)
  BY <1>3 DEF Fault
<1>5. Restart => stops' = stops
  BY <1>3 DEF Restart
<1>6. \A c \in Requests : Begin(t, c) => stops' = stops
  BY DEF Begin
<1>7. Proceed(t) => stops' = stops
  BY <1>1, ProceedStops
<1>8. (UNCHANGED stepVars) => stops' = stops
  BY DEF stepVars
<1>9. \A u \in Threads : u = t
  OBVIOUS
<1>10. StepNext => Proceed(t) \/ Fault(t) \/ (\E c \in Requests : Begin(t, c)) \/ Restart
  BY <1>9 DEF StepNext
<1>11. QED
  BY <1>4, <1>5, <1>6, <1>7, <1>8, <1>10

\* Every step of the handlers is one of FileSystem or none.
LEMMA StepImplements ==
    ASSUME NEW t \in Threads, Threads = {t}, MaxCrashes = 0, MaxFaults = 0,
           RefinesIInv(t), [StepNext]_stepVars
    PROVE  RefinesIInv(t)' /\ AtomicStep
<1>1. StepIInv(t) /\ Trusty(t) /\ Counted /\ ~stops.astray /\ Reliable /\ stops.crashes \in Nat
  BY DEF RefinesIInv, Reliable, Counted
<1>2. stops' = stops /\ ~Fault(t)
  BY StopsKept
<1>3. Counted' /\ ~stops'.astray
  BY <1>1, <1>2 DEF Counted
<1>4. StepIInv(t)'
  BY <1>1, <1>3, StepKeeps
<1>5. SUFFICES Trusty(t)' /\ AtomicStep
  BY <1>3, <1>4 DEF RefinesIInv
<1>6. CASE Proceed(t)
  <2>1. CASE Return(t)
    BY <1>1, <2>1, ReturnAtomic DEF AtomicStep
  <2>2. CASE ~Return(t)
    BY <1>1, <1>6, <2>2, ProceedDiscreet, DiscreetAtomic
  <2>3. QED
    BY <2>1, <2>2
<1>7. ASSUME NEW c \in Requests, Begin(t, c) PROVE Trusty(t)' /\ AtomicStep
  BY <1>1, <1>7, BeginDiscreet, DiscreetAtomic
<1>8. CASE Restart
  BY <1>1, <1>8, RestartAtomic DEF AtomicStep
<1>9. CASE UNCHANGED stepVars
  <2>1. /\ disk' = disk /\ bitmap' = bitmap /\ statVfs' = statVfs /\ reply' = reply
        /\ thr' = thr /\ settled' = settled
    BY <1>9 DEF stepVars
  <2>2. Trusty(t)'
    BY <1>1, <2>1 DEF Trusty
  <2>3. QED
    BY <2>1, <2>2, DiscreetAtomic DEF Discreet
<1>10. \A u \in Threads : u = t
  OBVIOUS
<1>11. StepNext => Proceed(t) \/ Fault(t) \/ (\E c \in Requests : Begin(t, c)) \/ Restart
  BY <1>10 DEF StepNext
<1>12. QED
  BY <1>2, <1>6, <1>7, <1>8, <1>9, <1>11

\* With one thread and a device that does not fail, the handlers of homework.c, each a long
\* sequence of system calls over buffers, copies of inodes and two globals, implement the
\* atomic ones of FileSystem: a call does nothing there until it returns, and then what the
\* atomic handler does, in the image, the bitmap, the counters and the reply.
THEOREM HandlersImplementFileSystem ==
    ASSUME NEW t \in Threads, Threads = {t}, MaxCrashes = 0, MaxFaults = 0
    PROVE  StepSpec => ImplementsFileSystem
<1> DEFINE A == UNCHANGED Atomic!vars \/ Atomic!Next
<1>1. StepInit => RefinesIInv(t) /\ Atomic!Init
  <2>1. StepInit => Counted /\ ~stops.astray
    BY DEF StepInit, Counted
  <2>2. QED
    BY <2>1, InitStep, InitAtomic DEF RefinesIInv
<1>2. RefinesIInv(t) /\ [StepNext]_stepVars => RefinesIInv(t)'
  BY StepImplements
<1>3. RefinesIInv(t) /\ [StepNext]_stepVars => [A]_stepVars
  <2>1. AtomicStep => A
    BY DEF AtomicStep
  <2> HIDE DEF A
  <2>2. QED
    BY <2>1, StepImplements
<1>4. ImplementsFileSystem <=> Atomic!Init /\ [][A]_stepVars
  BY DEF ImplementsFileSystem
<1> HIDE DEF A
<1>5. QED
  BY <1>1, <1>2, <1>3, <1>4, PTL DEF StepSpec
=============================================================================
