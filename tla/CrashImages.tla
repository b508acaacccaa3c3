------------------------------ MODULE CrashImages ------------------------------
(***************************************************************************)
(* What the single writes of the split handlers do to an image.  Between   *)
(* them, and after a call that was cut short, an image is not sound: a     *)
(* file may have blocks that were never written as data, blocks may be     *)
(* marked that nothing leads to.  But it has a shadow: a sound image with  *)
(* fewer marks in which every path leads to the same objects.              *)
(*                                                                         *)
(* In a shadow the block of a new directory is zeroed from the moment its  *)
(* entry is there.  In the image it may still hold bytes of a file or an   *)
(* inode (Blank), which the code would take for entries: about what is     *)
(* found in them nothing is said here, and paths end there.  A thread that *)
(* reads such a block takes the step Stray of HandlerSteps.                *)
(***************************************************************************)
EXTENDS HandlerSteps, FileSystemStepProofs

-----------------------------------------------------------------------------
(* Shadows                                                                 *)

\* Block b holds an entry in slot s, and where it goes; b may be free, and its entries stale.
Filled(d, b, s) == d[b].kind = "dir" /\ d[b].entries[s] # NoEntry
Goes(d, b, s)   == d[b].entries[s].inode

\* The blocks in m hold the inodes and the entries of e.
Agrees(d, e, b) ==
    /\ e[b].kind = "inode" => d[b] = e[b]
    /\ e[b].kind = "dir" => AsEntries(d[b]) = e[b].entries

(***************************************************************************)
(* Image e, of which the blocks m are marked, is sound and shows the same  *)
(* objects as d, but for the directories of d that are still blank, which  *)
(* are empty in e.  Also the entries of a removed directory that are left  *)
(* in a free block lead to marked inodes, each to one of its own, because  *)
(* mkdir links a block before it is zeroed.                                *)
(***************************************************************************)
Shadow(d, e, m) ==
    /\ Sound(e, m)
    /\ d \in [Blocks -> Content]
    /\ d[SuperBlock].kind = "super" /\ d[BitmapBlock].kind = "bitmap"
    /\ \A b \in m : Agrees(d, e, b)
    /\ \A b \in Blocks, s \in Slots : Filled(d, b, s) => Goes(d, b, s) \in LiveIn(e, m) \ {RootInode}
    /\ \A b, c \in Blocks, s, t \in Slots :
          Filled(d, b, s) /\ Filled(d, c, t) /\ Goes(d, b, s) = Goes(d, c, t) => b = c /\ s = t

\* Block b is that of a directory, and was not zeroed yet.
Blank(d, e, b) == e[b].kind = "dir" /\ d[b].kind # "dir"

\* The write that leads from d to c, and from the shadow e to f, leaves no block blank that was not.
Fills(d, e, m, c, f, u) == \A x \in u : Blank(c, f, x) => x \in m /\ Blank(d, e, x)

\* What a block may be overwritten with: entries that lead to marked inodes nothing else leads to.
Enterable(d, b, c, e, m) ==
    c.kind = "dir" =>
        \A s \in Slots : c.entries[s] # NoEntry =>
            /\ c.entries[s].inode \in LiveIn(e, m) \ {RootInode}
            /\ \A t \in Slots : c.entries[t] # NoEntry /\ c.entries[t].inode = c.entries[s].inode => s = t
            /\ \A x \in Blocks, t \in Slots :
                  x # b /\ Filled(d, x, t) => Goes(d, x, t) # c.entries[s].inode

\* One block is written: what has to be known of it and of the others.
LEMMA BlockWritten ==
    ASSUME NEW d, NEW e, NEW m, Shadow(d, e, m), NEW b \in Blocks, b # SuperBlock, b # BitmapBlock,
           NEW c \in Content, NEW f, NEW u, Sound(f, u),
           \A x \in u : x # b => Agrees(d, f, x),
           b \in u => Agrees([d EXCEPT ![b] = c], f, b),
           \A x \in Blocks, s \in Slots : x # b /\ Filled(d, x, s) => Goes(d, x, s) \in LiveIn(f, u),
           Enterable(d, b, c, f, u)
    PROVE  Shadow([d EXCEPT ![b] = c], f, u)
<1> DEFINE g == [d EXCEPT ![b] = c]
<1>1. /\ d \in [Blocks -> Content] /\ d[SuperBlock].kind = "super" /\ d[BitmapBlock].kind = "bitmap"
      /\ \A x \in Blocks, s \in Slots : Filled(d, x, s) => Goes(d, x, s) # RootInode
      /\ \A x, y \in Blocks, s, t \in Slots :
            Filled(d, x, s) /\ Filled(d, y, t) /\ Goes(d, x, s) = Goes(d, y, t) => x = y /\ s = t
  BY DEF Shadow
<1>2. g \in [Blocks -> Content] /\ g[b] = c /\ \A x \in Blocks : x # b => g[x] = d[x]
  BY <1>1
<1>3. SuperBlock \in Blocks /\ BitmapBlock \in Blocks /\ u \subseteq Blocks
  BY LayoutAssumption DEF Blocks, SuperBlock, BitmapBlock, Sound, Typed
<1>4. g[SuperBlock].kind = "super" /\ g[BitmapBlock].kind = "bitmap"
  BY <1>1, <1>2, <1>3
<1>5. Agrees(g, f, b) \/ b \notin u
  OBVIOUS
<1> HIDE DEF g
<1>6. \A x \in u : Agrees(g, f, x)
  BY <1>2, <1>3, <1>5 DEF Agrees
<1>7. \A x \in Blocks, s \in Slots : x # b => /\ Filled(g, x, s) <=> Filled(d, x, s)
                                              /\ Goes(g, x, s) = Goes(d, x, s)
  BY <1>2 DEF Filled, Goes
<1>8. \A s \in Slots : Filled(g, b, s) =>
            /\ Goes(g, b, s) \in LiveIn(f, u) \ {RootInode}
            /\ \A t \in Slots : Filled(g, b, t) /\ Goes(g, b, t) = Goes(g, b, s) => s = t
            /\ \A x \in Blocks, t \in Slots : x # b /\ Filled(d, x, t) => Goes(d, x, t) # Goes(g, b, s)
  BY <1>2 DEF Enterable, Filled, Goes
<1>9. \A x \in Blocks, s \in Slots : Filled(g, x, s) => Goes(g, x, s) \in LiveIn(f, u) \ {RootInode}
  BY <1>1, <1>7, <1>8
<1>10. \A x, y \in Blocks, s, t \in Slots :
          Filled(g, x, s) /\ Filled(g, y, t) /\ Goes(g, x, s) = Goes(g, y, t) => x = y /\ s = t
  BY <1>1, <1>7, <1>8
<1>11. Shadow(g, f, u)
  BY <1>2, <1>4, <1>6, <1>9, <1>10 DEF Shadow
<1> QED
  BY <1>11 DEF g

\* What a shadow has in common with the image.
LEMMA ShadowFacts ==
    ASSUME NEW d, NEW e, NEW m, Shadow(d, e, m)
    PROVE  /\ Sound(e, m) /\ m \subseteq Blocks
           /\ e \in [Blocks -> Content] /\ d \in [Blocks -> Content]
           /\ \A i \in LiveIn(e, m) : /\ d[i] = e[i] /\ i \in Blocks /\ i \in m
                                      /\ e[i] \in Inode /\ e[i].kind = "inode"
                                      /\ i # SuperBlock /\ i # BitmapBlock
           /\ \A i \in DirsIn(e, m) : /\ i \in LiveIn(e, m) /\ e[i].type = "dir"
                                      /\ e[i].ptrs[0] \in m /\ e[i].ptrs[0] \in Blocks
                                      /\ e[e[i].ptrs[0]].kind = "dir"
                                      /\ e[i].ptrs[0] # SuperBlock /\ e[i].ptrs[0] # BitmapBlock
                                      /\ AsEntries(d[e[i].ptrs[0]]) = Entries(e, i)
                                      /\ Entries(e, i) \in [Slots -> Entry \cup {NoEntry}]
<1>1. /\ Sound(e, m) /\ d \in [Blocks -> Content] /\ \A b \in m : Agrees(d, e, b)
  BY DEF Shadow
<1>2. /\ e \in [Blocks -> Content] /\ m \subseteq Blocks
      /\ e[SuperBlock].kind = "super" /\ e[BitmapBlock].kind = "bitmap"
  BY <1>1 DEF Sound, Typed, ReservedIn
<1>3. \A i \in LiveIn(e, m) : i \in m /\ e[i].kind = "inode"
  BY DEF LiveIn, IsInode
<1>4. \A i \in LiveIn(e, m) : d[i] = e[i] /\ i # SuperBlock /\ i # BitmapBlock
  BY <1>1, <1>2, <1>3 DEF Agrees
<1>5. \A i \in LiveIn(e, m) : e[i] \in Inode
  BY <1>2, <1>3, ContentKinds
<1>6. ASSUME NEW i \in DirsIn(e, m)
      PROVE  /\ i \in LiveIn(e, m) /\ e[i].type = "dir"
             /\ e[i].ptrs[0] \in m /\ e[i].ptrs[0] \in Blocks
             /\ e[e[i].ptrs[0]].kind = "dir"
             /\ e[i].ptrs[0] # SuperBlock /\ e[i].ptrs[0] # BitmapBlock
             /\ AsEntries(d[e[i].ptrs[0]]) = Entries(e, i)
             /\ Entries(e, i) \in [Slots -> Entry \cup {NoEntry}]
  <2>1. i \in LiveIn(e, m) /\ e[i].type = "dir"
    BY DEF DirsIn
  <2>2. /\ e[i].ptrs[0] \in m /\ e[i].ptrs[0] \in Blocks
        /\ e[e[i].ptrs[0]].kind = "dir" /\ Entries(e, i) = e[e[i].ptrs[0]].entries
    BY <1>1, DirBlockOf
  <2>3. Entries(e, i) \in [Slots -> Entry \cup {NoEntry}]
    BY <1>1, <2>2, EntriesType DEF Sound
  <2> QED
    BY <1>1, <1>2, <2>1, <2>2, <2>3 DEF Agrees
<1> QED
  BY <1>1, <1>2, <1>3, <1>4, <1>5, <1>6

\* The entries of the directories in use are among those of the image.
LEMMA ShadowEntries ==
    ASSUME NEW d, NEW e, NEW m, Shadow(d, e, m), NEW i \in DirsIn(e, m), NEW s \in Slot(e, i)
    PROVE  /\ s \in Slots /\ Filled(d, e[i].ptrs[0], s) /\ Goes(d, e[i].ptrs[0], s) = To(e, i, s)
           /\ To(e, i, s) \in LiveIn(e, m) \ {RootInode}
<1>1. AsEntries(d[e[i].ptrs[0]]) = Entries(e, i)
  BY ShadowFacts
<1>2. s \in Slots /\ Entries(e, i)[s] # NoEntry
  BY DEF Slot
<1>3. d[e[i].ptrs[0]].kind = "dir"
  BY <1>1, <1>2 DEF AsEntries, EmptyDir
<1>4. d[e[i].ptrs[0]].entries = Entries(e, i)
  BY <1>1, <1>3 DEF AsEntries
<1>5. To(e, i, s) \in LiveIn(e, m) \ {RootInode}
  BY ShadowFacts DEF Sound, EntriesLive
<1> QED
  BY <1>2, <1>3, <1>4, <1>5 DEF Filled, Goes, To

\* Nothing but an object has a block of tag "inode" or "dir" among the marked ones, so that a
\* free block, or one of a file, may be written with anything but entries.
LEMMA IdleWrite ==
    ASSUME NEW d, NEW e, NEW m, Shadow(d, e, m), NEW b \in Blocks, b \in m => e[b].kind = "data",
           NEW c \in Content, c.kind # "dir"
    PROVE  Shadow([d EXCEPT ![b] = c], e, m)
<1>1. /\ Sound(e, m) /\ \A x \in m : Agrees(d, e, x)
      /\ \A x \in Blocks, s \in Slots : Filled(d, x, s) => Goes(d, x, s) \in LiveIn(e, m)
  BY DEF Shadow
<1>2. b # SuperBlock /\ b # BitmapBlock
  BY <1>1 DEF Sound, ReservedIn
<1>3. b \in m => Agrees([d EXCEPT ![b] = c], e, b)
  BY DEF Agrees
<1>4. Enterable(d, b, c, e, m)
  BY DEF Enterable
<1> QED
  BY <1>1, <1>2, <1>3, <1>4, BlockWritten

\* What the bitmap block holds is of no concern to the shadow.
LEMMA SaveWrite ==
    ASSUME NEW d, NEW e, NEW m, Shadow(d, e, m), NEW w \in SUBSET Blocks
    PROVE  Shadow([d EXCEPT ![BitmapBlock] = [kind |-> "bitmap", used |-> w]], e, m)
<1> DEFINE c == [kind |-> "bitmap", used |-> w]
           g == [d EXCEPT ![BitmapBlock] = c]
<1>1. BitmapBlock \in Blocks /\ SuperBlock \in Blocks /\ SuperBlock # BitmapBlock
  BY LayoutAssumption DEF Blocks, SuperBlock, BitmapBlock
<1>2. /\ d \in [Blocks -> Content] /\ d[SuperBlock].kind = "super" /\ d[BitmapBlock].kind = "bitmap"
      /\ Sound(e, m) /\ m \subseteq Blocks /\ e[BitmapBlock].kind = "bitmap"
  BY DEF Shadow, Sound, Typed, ReservedIn
<1>3. c \in Content /\ c.kind = "bitmap"
  BY DEF Content, Bitmap
<1>4. /\ g \in [Blocks -> Content] /\ g[BitmapBlock].kind = "bitmap"
      /\ \A x \in Blocks : x # BitmapBlock => g[x] = d[x]
  BY <1>1, <1>2, <1>3
<1> HIDE DEF g, c
<1>5. g[SuperBlock].kind = "super"
  BY <1>1, <1>2, <1>4
<1>6. \A x \in m : Agrees(g, e, x)
  <2>1. \A x \in m : Agrees(d, e, x)
    BY DEF Shadow
  <2> QED
    BY <1>2, <1>4, <2>1 DEF Agrees
<1>7. \A x \in Blocks, s \in Slots : /\ Filled(g, x, s) <=> Filled(d, x, s)
                                     /\ Filled(d, x, s) => Goes(g, x, s) = Goes(d, x, s)
  BY <1>2, <1>4 DEF Filled, Goes
<1>8. /\ \A b \in Blocks, s \in Slots : Filled(d, b, s) => Goes(d, b, s) \in LiveIn(e, m) \ {RootInode}
      /\ \A x, y \in Blocks, s, t \in Slots :
            Filled(d, x, s) /\ Filled(d, y, t) /\ Goes(d, x, s) = Goes(d, y, t) => x = y /\ s = t
  BY DEF Shadow
<1>9. \A b \in Blocks, s \in Slots : Filled(g, b, s) => Goes(g, b, s) \in LiveIn(e, m) \ {RootInode}
  BY <1>7, <1>8
<1>10. \A x, y \in Blocks, s, t \in Slots :
            Filled(g, x, s) /\ Filled(g, y, t) /\ Goes(g, x, s) = Goes(g, y, t) => x = y /\ s = t
  BY <1>7, <1>8
<1>11. Shadow(g, e, m)
  BY <1>2, <1>4, <1>5, <1>6, <1>9, <1>10 DEF Shadow
<1> QED
  BY <1>11 DEF g, c

\* Directory block b with other entries.
DirWritten(d, b, entries) == [d EXCEPT ![b] = [kind |-> "dir", entries |-> entries]]

\* A block with a directory in it is not blank, and the others are as they were.
LEMMA DirFills ==
    ASSUME NEW d, NEW e, NEW m, Shadow(d, e, m), NEW b \in Blocks, NEW c, c.kind = "dir", NEW f, NEW u,
           u \subseteq Blocks, \A x \in u : x # b /\ f[x].kind = "dir" => x \in m /\ e[x].kind = "dir"
    PROVE  Fills(d, e, m, [d EXCEPT ![b] = c], f, u)
<1>1. d \in [Blocks -> Content]
  BY ShadowFacts
<1>2. [d EXCEPT ![b] = c][b] = c /\ \A x \in Blocks : x # b => [d EXCEPT ![b] = c][x] = d[x]
  BY <1>1
<1> QED
  BY <1>2 DEF Fills, Blank

\* Neither does the write of an inode in its block change that.
LEMMA InodeFills ==
    ASSUME NEW d, NEW e, NEW m, Shadow(d, e, m), NEW i \in Blocks, NEW ino, ino.kind = "inode", NEW f, NEW u,
           f[i] = ino, u \subseteq Blocks, \A x \in u : x # i /\ f[x].kind = "dir" => x \in m /\ e[x].kind = "dir"
    PROVE  Fills(d, e, m, [d EXCEPT ![i] = ino], f, u)
<1>1. d \in [Blocks -> Content]
  BY ShadowFacts
<1>2. \A x \in Blocks : x # i => [d EXCEPT ![i] = ino][x] = d[x]
  BY <1>1
<1> QED
  BY <1>2 DEF Fills, Blank

\* A directory with another name on an entry (fs_rename).
LEMMA RenameWrite ==
    ASSUME NEW d, NEW e, NEW m, Shadow(d, e, m), NEW p \in DirsIn(e, m), NEW s \in Slot(e, p), NEW name \in Names
    PROVE  \E f : /\ Shadow(DirWritten(d, e[p].ptrs[0], [Entries(e, p) EXCEPT ![s].name = name]), f, m)
                  /\ LiveIn(f, m) = LiveIn(e, m)
                  /\ Fills(d, e, m, DirWritten(d, e[p].ptrs[0], [Entries(e, p) EXCEPT ![s].name = name]), f, m)
<1> DEFINE b == e[p].ptrs[0]
           ent == [name |-> name, inode |-> To(e, p, s)]
           E == [Entries(e, p) EXCEPT ![s].name = name]
           f == WithEntry(e, p, s, ent)
           c == [kind |-> "dir", entries |-> E]
<1>1. /\ p \in LiveIn(e, m) /\ b \in m /\ b \in Blocks /\ e[b].kind = "dir"
      /\ b # SuperBlock /\ b # BitmapBlock
      /\ AsEntries(d[b]) = Entries(e, p) /\ Entries(e, p) \in [Slots -> Entry \cup {NoEntry}]
      /\ Sound(e, m) /\ e \in [Blocks -> Content] /\ m \subseteq Blocks
  BY ShadowFacts
<1>2. /\ s \in Slots /\ Filled(d, b, s) /\ Goes(d, b, s) = To(e, p, s)
      /\ To(e, p, s) \in LiveIn(e, m) \ {RootInode}
  BY ShadowEntries
<1>3. ent \in Entry /\ ent.inode = To(e, p, s) /\ ent # NoEntry
  BY <1>1, <1>2, LayoutAssumption DEF Entry, LiveIn
<1>4. Entries(e, p)[s] \in Entry
  BY <1>1, <1>2 DEF Slot
<1>5. E = [Entries(e, p) EXCEPT ![s] = ent]
  <2>1. [Entries(e, p)[s] EXCEPT !.name = name] = ent
    BY <1>4 DEF Entry, To
  <2> QED
    BY <1>1, <1>2, <2>1
<1>6. Renaming(e, m, f, p, s, ent)
  BY <1>3 DEF Renaming
<1>7. Sound(f, m) /\ OnlyEntry(e, m, f, p, s, ent)
  BY <1>1, <1>6, RenamingSound
<1>8. /\ E \in [Slots -> Entry \cup {NoEntry}] /\ E[s] = ent
      /\ \A t \in Slots : t # s => E[t] = Entries(e, p)[t]
  BY <1>1, <1>2, <1>3, <1>5
<1>9. f = [e EXCEPT ![b] = [kind |-> "dir", entries |-> E]]
  BY <1>5 DEF WithEntry
<1> HIDE DEF E, ent, f
<1>10. f[b] = [kind |-> "dir", entries |-> E] /\ \A x \in Blocks : x # b => f[x] = e[x]
  BY <1>1, <1>9
<1>11. LiveIn(f, m) = LiveIn(e, m)
  BY <1>1, <1>7 DEF OnlyEntry, LiveIn, IsInode
<1>12. c \in Content /\ c.kind = "dir" /\ c.entries = E
  BY <1>8 DEF Content, DirBlock
<1>13. \A x \in m : x # b => Agrees(d, f, x)
  BY <1>1, <1>10 DEF Shadow, Agrees
<1>14. Agrees([d EXCEPT ![b] = c], f, b)
  <2>1. d \in [Blocks -> Content]
    BY ShadowFacts
  <2>2. [d EXCEPT ![b] = c][b] = c
    BY <1>1, <2>1
  <2> HIDE DEF c
  <2> QED
    BY <1>10, <1>12, <2>2 DEF Agrees, AsEntries
<1>15. \A t \in Slots : E[t] # NoEntry => Filled(d, b, t) /\ E[t].inode = Goes(d, b, t)
  <2> SUFFICES ASSUME NEW t \in Slots, E[t] # NoEntry PROVE Filled(d, b, t) /\ E[t].inode = Goes(d, b, t)
    OBVIOUS
  <2>1. CASE t = s
    BY <1>2, <1>3, <1>8, <2>1
  <2>2. CASE t # s
    <3>1. E[t] = Entries(e, p)[t] /\ t \in Slot(e, p)
      BY <1>8, <2>2 DEF Slot
    <3> QED
      BY <3>1, ShadowEntries DEF To
  <2> QED
    BY <2>1, <2>2
<1>16. Enterable(d, b, c, f, m)
  <2> SUFFICES ASSUME NEW t \in Slots, c.entries[t] # NoEntry
               PROVE  /\ c.entries[t].inode \in LiveIn(f, m) \ {RootInode}
                      /\ \A v \in Slots : c.entries[v] # NoEntry /\ c.entries[v].inode = c.entries[t].inode => t = v
                      /\ \A x \in Blocks, v \in Slots :
                            x # b /\ Filled(d, x, v) => Goes(d, x, v) # c.entries[t].inode
    BY DEF Enterable
  <2> QED
    BY <1>1, <1>11, <1>12, <1>15 DEF Shadow
<1>17. \A x \in Blocks, t \in Slots : x # b /\ Filled(d, x, t) => Goes(d, x, t) \in LiveIn(f, m)
  BY <1>11 DEF Shadow
<1>18. Shadow([d EXCEPT ![b] = c], f, m)
  BY <1>1, <1>7, <1>12, <1>13, <1>14, <1>16, <1>17, BlockWritten
<1>19. Fills(d, e, m, [d EXCEPT ![b] = c], f, m)
  BY <1>1, <1>10, <1>12, DirFills
<1> QED
  BY <1>11, <1>18, <1>19 DEF DirWritten, E

\* A directory without one of its entries: what the entry led to is free (unlink_directory_entry).
LEMMA EraseWrite ==
    ASSUME NEW d, NEW e, NEW m, Shadow(d, e, m), NEW p \in DirsIn(e, m), NEW s \in Slot(e, p)
    PROVE  /\ Shadow(DirWritten(d, e[p].ptrs[0], [Entries(e, p) EXCEPT ![s] = NoEntry]),
                     WithEntry(e, p, s, NoEntry), m \ Freed(e, To(e, p, s)))
           /\ Fills(d, e, m, DirWritten(d, e[p].ptrs[0], [Entries(e, p) EXCEPT ![s] = NoEntry]),
                    WithEntry(e, p, s, NoEntry), m \ Freed(e, To(e, p, s)))
<1> DEFINE b == e[p].ptrs[0]
           k == To(e, p, s)
           E == [Entries(e, p) EXCEPT ![s] = NoEntry]
           f == WithEntry(e, p, s, NoEntry)
           u == m \ Freed(e, k)
           c == [kind |-> "dir", entries |-> E]
<1>1. /\ p \in LiveIn(e, m) /\ b \in m /\ b \in Blocks /\ e[b].kind = "dir"
      /\ b # SuperBlock /\ b # BitmapBlock
      /\ AsEntries(d[b]) = Entries(e, p) /\ Entries(e, p) \in [Slots -> Entry \cup {NoEntry}]
      /\ Sound(e, m) /\ e \in [Blocks -> Content] /\ m \subseteq Blocks
  BY ShadowFacts
<1>2. /\ s \in Slots /\ Filled(d, b, s) /\ Goes(d, b, s) = k
  BY ShadowEntries
<1>3. Unlinking(e, m, f, p, s)
  BY DEF Unlinking
<1>4. /\ Sound(f, u) /\ OnlyEntry(e, m, f, p, s, NoEntry)
      /\ \A j : j \in LiveIn(f, u) <=> j \in LiveIn(e, m) /\ j # k
  BY <1>1, <1>3, RemoveSound
<1>5. /\ E \in [Slots -> Entry \cup {NoEntry}] /\ E[s] = NoEntry
      /\ \A t \in Slots : t # s => E[t] = Entries(e, p)[t]
  BY <1>1, <1>2
<1>6. f = [e EXCEPT ![b] = [kind |-> "dir", entries |-> E]]
  BY DEF WithEntry
<1>7. u \subseteq m
  OBVIOUS
<1> HIDE DEF E, f, u
<1>8. f[b] = [kind |-> "dir", entries |-> E] /\ \A x \in Blocks : x # b => f[x] = e[x]
  BY <1>1, <1>6
<1>9. c \in Content /\ c.kind = "dir" /\ c.entries = E
  BY <1>5 DEF Content, DirBlock
<1>10. \A x \in u : x # b => Agrees(d, f, x)
  BY <1>1, <1>7, <1>8 DEF Shadow, Agrees
<1>11. Agrees([d EXCEPT ![b] = c], f, b)
  <2>1. d \in [Blocks -> Content]
    BY ShadowFacts
  <2>2. [d EXCEPT ![b] = c][b] = c
    BY <1>1, <2>1
  <2> HIDE DEF c
  <2> QED
    BY <1>8, <1>9, <2>2 DEF Agrees, AsEntries
<1>12. \A t \in Slots : E[t] # NoEntry => t # s /\ Filled(d, b, t) /\ E[t].inode = Goes(d, b, t)
  <2> SUFFICES ASSUME NEW t \in Slots, E[t] # NoEntry
               PROVE  t # s /\ Filled(d, b, t) /\ E[t].inode = Goes(d, b, t)
    OBVIOUS
  <2>1. t # s /\ E[t] = Entries(e, p)[t] /\ t \in Slot(e, p)
    BY <1>5 DEF Slot
  <2> QED
    BY <2>1, ShadowEntries DEF To
<1>13. \A x \in Blocks, t \in Slots : Filled(d, x, t) /\ ~(x = b /\ t = s) =>
          Goes(d, x, t) \in LiveIn(f, u) \ {RootInode}
  <2> SUFFICES ASSUME NEW x \in Blocks, NEW t \in Slots, Filled(d, x, t), ~(x = b /\ t = s)
               PROVE  Goes(d, x, t) \in LiveIn(f, u) \ {RootInode}
    OBVIOUS
  <2>1. Goes(d, x, t) # k
    BY <1>1, <1>2 DEF Shadow
  <2>2. Goes(d, x, t) \in LiveIn(e, m) \ {RootInode}
    BY DEF Shadow
  <2> QED
    BY <1>4, <2>1, <2>2
<1>14. Enterable(d, b, c, f, u)
  <2> SUFFICES ASSUME NEW t \in Slots, c.entries[t] # NoEntry
               PROVE  /\ c.entries[t].inode \in LiveIn(f, u) \ {RootInode}
                      /\ \A v \in Slots : c.entries[v] # NoEntry /\ c.entries[v].inode = c.entries[t].inode => t = v
                      /\ \A x \in Blocks, v \in Slots :
                            x # b /\ Filled(d, x, v) => Goes(d, x, v) # c.entries[t].inode
    BY DEF Enterable
  <2> QED
    BY <1>1, <1>9, <1>12, <1>13 DEF Shadow
<1>15. \A x \in Blocks, t \in Slots : x # b /\ Filled(d, x, t) => Goes(d, x, t) \in LiveIn(f, u)
  BY <1>13
<1>16. Shadow([d EXCEPT ![b] = c], f, u)
  BY <1>1, <1>4, <1>9, <1>10, <1>11, <1>14, <1>15, BlockWritten
<1>17. Fills(d, e, m, [d EXCEPT ![b] = c], f, u)
  BY <1>1, <1>7, <1>8, <1>9, DirFills
<1> QED
  BY <1>16, <1>17 DEF DirWritten, E, f, u

\* A live inode with other attributes (fs_chmod, fs_utime).
LEMMA AttributesWrite ==
    ASSUME NEW d, NEW e, NEW m, Shadow(d, e, m), NEW i \in LiveIn(e, m), NEW ino \in Inode,
           ino.type = e[i].type, ino.size = e[i].size, ino.ptrs = e[i].ptrs
    PROVE  /\ Shadow([d EXCEPT ![i] = ino], [e EXCEPT ![i] = ino], m)
           /\ Fills(d, e, m, [d EXCEPT ![i] = ino], [e EXCEPT ![i] = ino], m)
<1> DEFINE f == [e EXCEPT ![i] = ino]
<1>1. /\ i \in Blocks /\ i \in m /\ e[i].kind = "inode" /\ i # SuperBlock /\ i # BitmapBlock
      /\ Sound(e, m) /\ e \in [Blocks -> Content] /\ d \in [Blocks -> Content] /\ m \subseteq Blocks
  BY ShadowFacts
<1>2. Retouching(e, m, f, i)
  BY DEF Retouching
<1>3. Sound(f, m)
  BY <1>1, <1>2, RetouchingSound
<1>4. f[i] = ino /\ \A x \in Blocks : x # i => f[x] = e[x]
  BY <1>1
<1> HIDE DEF f
<1>5. ino \in Content /\ ino.kind = "inode"
  BY DEF Inode, Content
<1>6. LiveIn(f, m) = LiveIn(e, m)
  BY <1>1, <1>4, <1>5 DEF LiveIn, IsInode
<1>7. \A x \in m : x # i => Agrees(d, f, x)
  BY <1>1, <1>4 DEF Shadow, Agrees
<1>8. Agrees([d EXCEPT ![i] = ino], f, i)
  BY <1>1, <1>4, <1>5 DEF Agrees
<1>9. Enterable(d, i, ino, f, m)
  BY <1>5 DEF Enterable
<1>10. \A x \in Blocks, t \in Slots : x # i /\ Filled(d, x, t) => Goes(d, x, t) \in LiveIn(f, m)
  BY <1>6 DEF Shadow
<1>11. Shadow([d EXCEPT ![i] = ino], f, m)
  BY <1>1, <1>3, <1>5, <1>7, <1>8, <1>9, <1>10, BlockWritten
<1>12. Fills(d, e, m, [d EXCEPT ![i] = ino], f, m)
  <2>1. f[i] = ino /\ \A x \in m : x # i => f[x] = e[x]
    BY <1>1 DEF f
  <2> QED
    BY <1>1, <1>5, <2>1, InodeFills
<1> QED
  BY <1>11, <1>12 DEF f

\* The shadow of a file's new inode: the blocks it has gained count as data, whatever they hold.
Regained(e, i, ino) ==
    [b \in Blocks |-> IF b = i THEN ino
                      ELSE IF b \in DataBlocks(ino) \ DataBlocks(e[i]) THEN ZeroBlock
                      ELSE e[b]]

\* That this is the shadow.
Refiled(d, e, m, i, ino) ==
    LET u == (m \ DataBlocks(e[i])) \cup DataBlocks(ino)
        f == Regained(e, i, ino)
    IN  /\ Shadow([d EXCEPT ![i] = ino], f, u)
        /\ Fills(d, e, m, [d EXCEPT ![i] = ino], f, u)
        /\ LiveIn(f, u) = LiveIn(e, m)
        /\ f[i] = ino /\ \A b \in DataBlocks(ino) : f[b].kind = "data"

\* A file with less or with more blocks, before those are written (fs_truncate, fs_write).
LEMMA FileWrite ==
    ASSUME NEW d, NEW e, NEW m, Shadow(d, e, m), NEW i \in LiveIn(e, m), e[i].type = "file",
           NEW ino \in Inode, ino.type = "file", BlocksFor(ino.size) <= MaxPtrs,
           \A b \in DataBlocks(ino) : b \in Blocks,
           \A b \in DataBlocks(ino) : b \in m => b \in DataBlocks(e[i]),
           \A k, l \in DataIdx(ino) : ino.ptrs[k] = ino.ptrs[l] => k = l
    PROVE  Refiled(d, e, m, i, ino)
<1> DEFINE u == (m \ DataBlocks(e[i])) \cup DataBlocks(ino)
           f == Regained(e, i, ino)
<1>1. /\ i \in Blocks /\ i \in m /\ e[i].kind = "inode" /\ i # SuperBlock /\ i # BitmapBlock
      /\ Sound(e, m) /\ e \in [Blocks -> Content] /\ d \in [Blocks -> Content] /\ m \subseteq Blocks
  BY ShadowFacts
<1>2. ino \in Content /\ ino.kind = "inode" /\ ZeroBlock \in Content /\ ZeroBlock.kind = "data"
  BY DEF Inode, Content, ZeroBlock, DataBlock, Byte
<1>3. \A b \in DataBlocks(e[i]) : b \in m /\ e[b].kind = "data" /\ b # i
  BY <1>1 DEF Sound, InodesFit, DataBlocks
<1>4. i \notin DataBlocks(ino)
  BY <1>1, <1>3
<1>5. /\ f \in [Blocks -> Content] /\ f[i] = ino
      /\ \A b \in Blocks : b # i /\ b \in DataBlocks(ino) /\ b \notin DataBlocks(e[i]) => f[b] = ZeroBlock
      /\ \A b \in Blocks : b # i /\ ~(b \in DataBlocks(ino) /\ b \notin DataBlocks(e[i])) => f[b] = e[b]
  BY <1>1, <1>2 DEF Regained
<1>6. u = (m \ DataBlocks(e[i])) \cup DataBlocks(ino)
  OBVIOUS
<1> HIDE DEF f, u
<1>7. \A b \in DataBlocks(ino) : f[b].kind = "data"
  BY <1>1, <1>2, <1>3, <1>4, <1>5
<1>8. \A b \in m : b # i /\ b \notin DataBlocks(e[i]) => f[b] = e[b]
  BY <1>1, <1>5
<1>9. Rewriting(e, m, f, u, i)
  BY <1>1, <1>2, <1>5, <1>6, <1>7, <1>8 DEF Rewriting
<1>10. Sound(f, u) /\ LiveIn(f, u) = LiveIn(e, m)
  BY <1>1, <1>9, RewritingSound
<1>11. \A x \in u : x # i => Agrees(d, f, x)
  <2> SUFFICES ASSUME NEW x \in u, x # i PROVE Agrees(d, f, x)
    OBVIOUS
  <2>1. CASE x \in DataBlocks(ino)
    BY <1>7, <2>1 DEF Agrees
  <2>2. CASE x \notin DataBlocks(ino)
    <3>1. x \in m /\ f[x] = e[x]
      BY <1>6, <1>8, <2>2
    <3> QED
      BY <3>1 DEF Shadow, Agrees
  <2> QED
    BY <2>1, <2>2
<1>12. Agrees([d EXCEPT ![i] = ino], f, i)
  BY <1>1, <1>2, <1>5 DEF Agrees
<1>13. Enterable(d, i, ino, f, u)
  BY <1>2 DEF Enterable
<1>14. \A x \in Blocks, t \in Slots : x # i /\ Filled(d, x, t) => Goes(d, x, t) \in LiveIn(f, u)
  BY <1>10 DEF Shadow
<1>15. Shadow([d EXCEPT ![i] = ino], f, u)
  BY <1>1, <1>2, <1>10, <1>11, <1>12, <1>13, <1>14, BlockWritten
<1>16. Fills(d, e, m, [d EXCEPT ![i] = ino], f, u)
  <2>1. u \subseteq Blocks
    BY <1>1, <1>6
  <2>2. ASSUME NEW x \in u, x # i, f[x].kind = "dir" PROVE x \in m /\ e[x].kind = "dir"
    <3>1. x \notin DataBlocks(ino)
      BY <1>7, <2>2
    <3>2. x \in m /\ x \notin DataBlocks(e[i])
      BY <1>6, <3>1
    <3> QED
      BY <1>8, <2>2, <3>2
  <2> QED
    BY <1>1, <1>2, <1>5, <2>1, <2>2, InodeFills
<1> QED
  BY <1>5, <1>7, <1>10, <1>15, <1>16 DEF f, u, Refiled

\* Entries that directory i may have: each leads to a live inode that nothing else leads to.
Allowed(e, m, i, E) ==
    /\ E \in [Slots -> Entry \cup {NoEntry}]
    /\ \A s \in Slots : E[s] # NoEntry => E[s].inode \in LiveIn(e, m) \ {RootInode}
    /\ \A s, t \in Slots : E[s] # NoEntry /\ E[t] # NoEntry /\ E[s].inode = E[t].inode => s = t
    /\ \A s \in Slots : E[s] # NoEntry =>
          \A j \in DirsIn(e, m) : \A t \in Slot(e, j) : j # i => To(e, j, t) # E[s].inode

\* Image f is e with these entries in block b.
Rewritten(e, m, f, b, E) ==
    /\ Sound(f, m) /\ LiveIn(f, m) = LiveIn(e, m) /\ DirsIn(f, m) = DirsIn(e, m)
    /\ f \in [Blocks -> Content]
    /\ f[b] = [kind |-> "dir", entries |-> E]
    /\ \A x \in Blocks : x # b => f[x] = e[x]

\* A directory may have such entries.
LEMMA DirRewritten ==
    ASSUME NEW e, NEW m, Sound(e, m), NEW i \in DirsIn(e, m), NEW E, Allowed(e, m, i, E)
    PROVE  Rewritten(e, m, DirWritten(e, e[i].ptrs[0], E), e[i].ptrs[0], E)
<1> DEFINE b == e[i].ptrs[0]
           f == DirWritten(e, b, E)
<1>0. /\ E \in [Slots -> Entry \cup {NoEntry}]
      /\ \A s \in Slots : E[s] # NoEntry => E[s].inode \in LiveIn(e, m) \ {RootInode}
      /\ \A s, t \in Slots : E[s] # NoEntry /\ E[t] # NoEntry /\ E[s].inode = E[t].inode => s = t
      /\ \A s \in Slots : E[s] # NoEntry =>
            \A j \in DirsIn(e, m) : \A t \in Slot(e, j) : j # i => To(e, j, t) # E[s].inode
  BY DEF Allowed
<1>1. /\ e \in [Blocks -> Content] /\ m \subseteq Blocks /\ b \in m /\ b \in Blocks /\ e[b].kind = "dir"
      /\ i \in LiveIn(e, m) /\ e[i].type = "dir"
  BY DirBlockOf DEF Sound, Typed, DirsIn
<1>2. f[b] = [kind |-> "dir", entries |-> E] /\ f[b].kind = "dir" /\ f[b].entries = E
  BY <1>1 DEF DirWritten
<1>3. \A x \in Blocks : x # b => f[x] = e[x]
  BY <1>1 DEF DirWritten
<1>4. f \in [Blocks -> Content]
  <2>1. [kind |-> "dir", entries |-> E] \in Content
    BY <1>0 DEF Content, DirBlock
  <2> QED
    BY <1>1, <2>1 DEF DirWritten
<1>5. \A x \in Blocks : f[x].kind = e[x].kind
  BY <1>1, <1>2, <1>3
<1> HIDE DEF b, f
<1>6. LiveIn(f, m) = LiveIn(e, m) /\ \A j \in LiveIn(e, m) : j \in Blocks /\ f[j] = e[j]
  BY <1>1, <1>3, <1>5 DEF LiveIn, IsInode
<1>7. DirsIn(f, m) = DirsIn(e, m)
  BY <1>6 DEF DirsIn
<1>8. \A j \in DirsIn(e, m) : j \in LiveIn(e, m) /\ e[j].ptrs[0] \in Blocks /\ e[e[j].ptrs[0]].kind = "dir"
  BY DirBlockOf DEF DirsIn
<1>9. \A j \in DirsIn(e, m) : j # i => Entries(f, j) = Entries(e, j)
  <2> SUFFICES ASSUME NEW j \in DirsIn(e, m), j # i PROVE Entries(f, j) = Entries(e, j)
    OBVIOUS
  <2>1. e[j].ptrs[0] # b
    <3>1. 0 \in DataIdx(e[i]) /\ 0 \in DataIdx(e[j])
      BY DirBlockOf
    <3> QED
      BY <1>1, <1>8, <3>1 DEF Sound, PtrsDiffer, b
  <2>2. f[j] = e[j] /\ f[e[j].ptrs[0]] = e[e[j].ptrs[0]]
    BY <1>3, <1>6, <1>8, <2>1
  <2> QED
    BY <2>2 DEF Entries
<1>10. Entries(f, i) = E
  <2>1. f[i].ptrs[0] = b
    BY <1>1, <1>6 DEF b
  <2> QED
    BY <1>2, <2>1 DEF Entries
<1>11. Typed(f, m) /\ ReservedIn(f, m)
  <2>1. ReservedIn(e, m)
    BY DEF Sound
  <2> QED
    BY <1>1, <1>4, <1>5, <2>1 DEF Typed, ReservedIn
<1>12. InodesFit(f, m)
  <2>1. InodesFit(e, m)
    BY DEF Sound
  <2> QED
    BY <1>1, <1>5, <1>6, <2>1 DEF InodesFit
<1>13. PtrsDiffer(f, m)
  BY <1>6 DEF Sound, PtrsDiffer
<1>14. \A j \in DirsIn(e, m) : j # i => Slot(f, j) = Slot(e, j) /\ \A t : To(f, j, t) = To(e, j, t)
  BY <1>9 DEF Slot, To
<1>15. /\ \A s \in Slot(f, i) : /\ s \in Slots /\ E[s] # NoEntry /\ To(f, i, s) = E[s].inode
  BY <1>10 DEF Slot, To
<1>16. EntriesLive(f, m)
  <2>1. RootInode \in DirsIn(f, m)
    BY <1>7 DEF Sound, EntriesLive
  <2>2. ASSUME NEW j \in DirsIn(f, m), NEW s \in Slot(f, j)
        PROVE  To(f, j, s) \in LiveIn(f, m) \ {RootInode}
    <3>1. CASE j = i
      BY <1>0, <1>6, <1>15, <3>1
    <3>2. CASE j # i
      BY <1>6, <1>7, <1>14, <3>2 DEF Sound, EntriesLive
    <3> QED
      BY <3>1, <3>2
  <2> QED
    BY <2>1, <2>2 DEF EntriesLive
<1>17. EntriesDiffer(f, m)
  <2> SUFFICES ASSUME NEW j \in DirsIn(e, m), NEW k \in DirsIn(e, m), NEW s \in Slot(f, j), NEW t \in Slot(f, k),
                      To(f, j, s) = To(f, k, t)
               PROVE  j = k /\ s = t
    BY <1>7 DEF EntriesDiffer
  <2>1. CASE j = i /\ k = i
    BY <1>0, <1>15, <2>1
  <2>2. CASE j = i /\ k # i
    BY <1>0, <1>14, <1>15, <2>2
  <2>3. CASE j # i /\ k = i
    BY <1>0, <1>14, <1>15, <2>3
  <2>4. CASE j # i /\ k # i
    BY <1>14, <2>4 DEF Sound, EntriesDiffer
  <2> QED
    BY <2>1, <2>2, <2>3, <2>4
<1> QED
  BY <1>2, <1>3, <1>4, <1>6, <1>7, <1>11, <1>12, <1>13, <1>16, <1>17 DEF Sound, Rewritten, f, b

\* The entries of directory p with this one in slot s.
Extended(e, p, s, ent) == [Entries(e, p) EXCEPT ![s] = ent]

\* A directory with an entry more, to an inode already written: f is the image with the new object.
LEMMA LinkWrite ==
    ASSUME NEW d, NEW e, NEW m, Shadow(d, e, m), NEW p \in DirsIn(e, m), NEW s \in Slots \ Slot(e, p),
           NEW ent \in Entry, ent.inode \notin m, NEW f, NEW u, Sound(f, u), m \subseteq u,
           LiveIn(f, u) = LiveIn(e, m) \cup {ent.inode},
           f[e[p].ptrs[0]] = [kind |-> "dir", entries |-> Extended(e, p, s, ent)],
           \A x \in m : x # e[p].ptrs[0] => f[x] = e[x],
           \A x \in u \ m : Agrees(d, f, x)
    PROVE  Shadow(DirWritten(d, e[p].ptrs[0], Extended(e, p, s, ent)), f, u)
<1> DEFINE b == e[p].ptrs[0]
           E == Extended(e, p, s, ent)
           c == [kind |-> "dir", entries |-> E]
<1>1. /\ b \in m /\ b \in Blocks /\ e[b].kind = "dir"
      /\ b # SuperBlock /\ b # BitmapBlock
      /\ AsEntries(d[b]) = Entries(e, p) /\ Entries(e, p) \in [Slots -> Entry \cup {NoEntry}]
      /\ Sound(e, m) /\ e \in [Blocks -> Content] /\ m \subseteq Blocks /\ d \in [Blocks -> Content]
  BY ShadowFacts
<1>2. ent # NoEntry /\ ent.inode \in Blocks /\ ent.inode # RootInode
  <2>1. RootInode \in m
    BY <1>1 DEF Sound, EntriesLive, DirsIn, LiveIn
  <2> QED
    BY <2>1, LayoutAssumption DEF Entry
<1>3. /\ E \in [Slots -> Entry \cup {NoEntry}] /\ E[s] = ent
      /\ \A t \in Slots : t # s => E[t] = Entries(e, p)[t]
  BY <1>1 DEF Extended
<1> HIDE DEF E
<1>4. c \in Content /\ c.kind = "dir" /\ c.entries = E
  BY <1>3 DEF Content, DirBlock
<1>5. \A x \in u : x # b => Agrees(d, f, x)
  <2> SUFFICES ASSUME NEW x \in u, x # b PROVE Agrees(d, f, x)
    OBVIOUS
  <2>1. CASE x \in m
    <3>1. f[x] = e[x] /\ Agrees(d, e, x)
      BY <2>1 DEF Shadow
    <3> QED
      BY <3>1 DEF Agrees
  <2>2. CASE x \notin m
    BY <2>2
  <2> QED
    BY <2>1, <2>2
<1>6. Agrees([d EXCEPT ![b] = c], f, b)
  <2>1. f[b] = [kind |-> "dir", entries |-> E] /\ [d EXCEPT ![b] = c][b] = c
    BY <1>1 DEF E
  <2> QED
    BY <1>4, <2>1 DEF Agrees, AsEntries
<1>7. \A t \in Slots : E[t] # NoEntry /\ t # s => Filled(d, b, t) /\ E[t].inode = Goes(d, b, t)
  <2> SUFFICES ASSUME NEW t \in Slots, E[t] # NoEntry, t # s
               PROVE  Filled(d, b, t) /\ E[t].inode = Goes(d, b, t)
    OBVIOUS
  <2>1. E[t] = Entries(e, p)[t] /\ t \in Slot(e, p)
    BY <1>3 DEF Slot
  <2> QED
    BY <2>1, ShadowEntries DEF To
<1>8. \A x \in Blocks, t \in Slots : Filled(d, x, t) =>
          Goes(d, x, t) \in LiveIn(f, u) \ {RootInode} /\ Goes(d, x, t) # ent.inode
  <2>1. LiveIn(e, m) \subseteq m
    BY DEF LiveIn
  <2> QED
    BY <2>1 DEF Shadow
<1>9. Enterable(d, b, c, f, u)
  <2> SUFFICES ASSUME NEW t \in Slots, c.entries[t] # NoEntry
               PROVE  /\ c.entries[t].inode \in LiveIn(f, u) \ {RootInode}
                      /\ \A v \in Slots : c.entries[v] # NoEntry /\ c.entries[v].inode = c.entries[t].inode => t = v
                      /\ \A x \in Blocks, v \in Slots :
                            x # b /\ Filled(d, x, v) => Goes(d, x, v) # c.entries[t].inode
    BY DEF Enterable
  <2>1. CASE t = s
    BY <1>1, <1>2, <1>3, <1>4, <1>7, <1>8, <2>1
  <2>2. CASE t # s
    <3>1. Filled(d, b, t) /\ E[t].inode = Goes(d, b, t)
      BY <1>4, <1>7, <2>2
    <3>2. \A v \in Slots : E[v] # NoEntry /\ E[v].inode = E[t].inode => t = v
      <4> SUFFICES ASSUME NEW v \in Slots, E[v] # NoEntry, E[v].inode = E[t].inode PROVE t = v
        OBVIOUS
      <4>1. v # s
        BY <1>1, <1>3, <1>8, <3>1
      <4> QED
        BY <1>1, <1>7, <3>1, <4>1 DEF Shadow
    <3> QED
      BY <1>1, <1>4, <1>8, <3>1, <3>2 DEF Shadow
  <2> QED
    BY <2>1, <2>2
<1>10. \A x \in Blocks, t \in Slots : x # b /\ Filled(d, x, t) => Goes(d, x, t) \in LiveIn(f, u)
  BY <1>8
<1>11. Shadow([d EXCEPT ![b] = c], f, u)
  BY <1>1, <1>4, <1>5, <1>6, <1>9, <1>10, BlockWritten
<1> QED
  BY <1>11 DEF DirWritten, E

\* A new object with its entry, in an image where its blocks are free.
WithObject(e, p, s, ent, ino, N) ==
    [x \in Blocks |-> IF x = ent.inode THEN ino
                      ELSE IF x \in N THEN EmptyDir
                      ELSE WithEntry(e, p, s, ent)[x]]

\* That this image is as after create or mkdir.
Joins(e, m, f, p, s, ent, ino, N) ==
    /\ Sound(f, m \cup N) /\ LiveIn(f, m \cup N) = LiveIn(e, m) \cup {ent.inode}
    /\ ino.type = "dir" => ent.inode \in DirsIn(f, m \cup N)
    /\ \A j \in DirsIn(f, m \cup N) : j # ent.inode => j \in DirsIn(e, m)
    /\ f[e[p].ptrs[0]] = [kind |-> "dir", entries |-> Extended(e, p, s, ent)]
    /\ \A x \in m : x # e[p].ptrs[0] => f[x] = e[x]
    /\ f[ent.inode] = ino /\ \A x \in N : x # ent.inode => f[x] = EmptyDir
    /\ OnlyEntry(e, m, f, p, s, ent)

\* It is.
LEMMA WithObjectJoins ==
    ASSUME NEW e, NEW m, Sound(e, m), NEW p \in DirsIn(e, m), NEW s \in Slots \ Slot(e, p),
           NEW ent \in Entry, NEW N \in SUBSET (Blocks \ m), NEW ino \in Inode, N = {ent.inode} \cup DataBlocks(ino),
           \/ ino.type = "file" /\ ino.size = 0
           \/ ino.type = "dir" /\ ino.size = BlockSize /\ ino.ptrs[0] \in N \ {ent.inode}
    PROVE  Joins(e, m, WithObject(e, p, s, ent, ino, N), p, s, ent, ino, N)
<1> DEFINE f == WithObject(e, p, s, ent, ino, N)
           E == Extended(e, p, s, ent)
           g == WithEntry(e, p, s, ent)
           b == e[p].ptrs[0]
<1>1. /\ e \in [Blocks -> Content] /\ m \subseteq Blocks /\ b \in m /\ b \in Blocks /\ e[b].kind = "dir"
      /\ p \in LiveIn(e, m) /\ p \in m /\ p \in Blocks
  BY DirBlockOf DEF Sound, Typed, DirsIn, LiveIn
<1>2. /\ g \in [Blocks -> Content] /\ OnlyEntry(e, m, g, p, s, ent)
      /\ \A x \in Blocks : x # b => g[x] = e[x]
  BY WithEntryEffect
<1>3. g[b] = [kind |-> "dir", entries |-> E]
  BY <1>1 DEF WithEntry, Extended
<1>4. ino \in Content /\ EmptyDir \in Content /\ ino.kind = "inode"
  BY DEF Inode, Content, DirBlock, EmptyDir
<1> HIDE DEF g, E
<1>5. /\ f \in [Blocks -> Content] /\ f[ent.inode] = ino
      /\ \A x \in N : x # ent.inode => f[x] = EmptyDir
      /\ \A x \in m : f[x] = g[x]
  <2>1. f = [x \in Blocks |-> IF x = ent.inode THEN ino ELSE IF x \in N THEN EmptyDir ELSE g[x]]
    BY DEF WithObject, g
  <2>2. ent.inode \in Blocks /\ ent.inode \notin m /\ \A x \in N : x \in Blocks /\ x \notin m
    OBVIOUS
  <2> HIDE DEF f
  <2> QED
    BY <1>1, <1>2, <1>4, <2>1, <2>2
<1> HIDE DEF f
<1>6. OnlyEntry(e, m, f, p, s, ent)
  <2>1. \A j \in DirsIn(e, m) : j \in LiveIn(e, m) /\ j \in m /\ e[j].ptrs[0] \in m
    BY DirBlockOf DEF DirsIn, LiveIn
  <2>2. \A j \in LiveIn(e, m) : j \in m /\ g[j] = e[j] /\ f[j] = e[j]
    BY <1>2, <1>5 DEF OnlyEntry, LiveIn
  <2>3. \A j \in DirsIn(e, m) : Entries(f, j) = Entries(g, j)
    BY <1>5, <2>1, <2>2 DEF Entries
  <2> QED
    BY <1>2, <1>5, <2>2, <2>3 DEF OnlyEntry
<1>7. Freed(f, ent.inode) = N
  BY <1>5 DEF Freed
<1>8. Linking(e, m, f, p, s, ent, N)
  BY <1>1, <1>2, <1>4, <1>5, <1>6, <1>7 DEF Linking
<1>9. /\ Sound(f, m \cup N) /\ LiveIn(f, m \cup N) = LiveIn(e, m) \cup {ent.inode}
      /\ DirsIn(f, m \cup N) = DirsIn(e, m) \cup (IF ino.type = "dir" THEN {ent.inode} ELSE {})
  BY <1>5, <1>8, LinkSound, LinkLive, LinkDirs
<1>10. /\ ino.type = "dir" => ent.inode \in DirsIn(f, m \cup N)
       /\ \A j \in DirsIn(f, m \cup N) : j # ent.inode => j \in DirsIn(e, m)
  BY <1>9
<1>11. f[b] = [kind |-> "dir", entries |-> E] /\ \A x \in m : x # b => f[x] = e[x]
  BY <1>1, <1>2, <1>3, <1>5
<1>12. Joins(e, m, f, p, s, ent, ino, N)
  BY <1>5, <1>6, <1>9, <1>10, <1>11 DEF Joins, E
<1> QED
  BY <1>12 DEF f

\* The entry of a new file is written (fs_create).
LEMMA LinkFileWrite ==
    ASSUME NEW d, NEW e, NEW m, Shadow(d, e, m), NEW p \in DirsIn(e, m), NEW s \in Slots \ Slot(e, p),
           NEW ent \in Entry, ent.inode \notin m, NEW ino \in Inode, d[ent.inode] = ino,
           ino.type = "file", ino.size = 0
    PROVE  \E f : /\ Shadow(DirWritten(d, e[p].ptrs[0], Extended(e, p, s, ent)), f, m \cup {ent.inode})
                  /\ Fills(d, e, m, DirWritten(d, e[p].ptrs[0], Extended(e, p, s, ent)), f, m \cup {ent.inode})
<1> DEFINE N == {ent.inode}
           f == WithObject(e, p, s, ent, ino, N)
           E == Extended(e, p, s, ent)
<1>1. Sound(e, m) /\ m \subseteq Blocks /\ N \in SUBSET (Blocks \ m)
  BY ShadowFacts DEF Entry
<1>2. DataBlocks(ino) = {}
  BY BlocksForProperty DEF DataBlocks, DataIdx
<1>3. N = {ent.inode} \cup DataBlocks(ino)
  BY <1>2
<1> HIDE DEF N, E, f
<1>3a. Joins(e, m, f, p, s, ent, ino, N)
  BY <1>1, <1>3, WithObjectJoins DEF f
<1>4. /\ Sound(f, m \cup N) /\ LiveIn(f, m \cup N) = LiveIn(e, m) \cup {ent.inode}
      /\ f[e[p].ptrs[0]] = [kind |-> "dir", entries |-> E]
      /\ \A x \in m : x # e[p].ptrs[0] => f[x] = e[x]
      /\ f[ent.inode] = ino
  BY <1>3a DEF Joins, E
<1>5. \A x \in (m \cup N) \ m : Agrees(d, f, x)
  BY <1>4 DEF Agrees, N, Inode
<1>6. Shadow(DirWritten(d, e[p].ptrs[0], E), f, m \cup N)
  BY <1>4, <1>5, LinkWrite DEF E
<1>7. Fills(d, e, m, DirWritten(d, e[p].ptrs[0], E), f, m \cup N)
  <2> DEFINE c == [kind |-> "dir", entries |-> E]
  <2>1. c.kind = "dir" /\ e[p].ptrs[0] \in Blocks /\ m \cup N \subseteq Blocks
    BY <1>1, ShadowFacts
  <2>2. ASSUME NEW x \in m \cup N, x # e[p].ptrs[0], f[x].kind = "dir" PROVE x \in m /\ e[x].kind = "dir"
    <3>1. x # ent.inode
      BY <1>4, <2>2 DEF Inode
    <3> QED
      BY <1>4, <2>2, <3>1 DEF N
  <2> HIDE DEF c
  <2>3. Fills(d, e, m, [d EXCEPT ![e[p].ptrs[0]] = c], f, m \cup N)
    BY <2>1, <2>2, DirFills
  <2> QED
    BY <2>3 DEF DirWritten, c
<1> QED
  BY <1>6, <1>7 DEF N, E

\* An image with a directory just linked, whose block c may be blank.
LinkedDir(d, e, m, g, u, i, c) ==
    \E f : /\ Shadow(g, f, u) /\ i \in DirsIn(f, u) /\ f[i].ptrs[0] = c
           /\ Fills(d, e, m, g, f, u \ {c})

(***************************************************************************)
(* The entry of a new directory is written (fs_mkdir).  Its block is not   *)
(* zeroed yet, and shows the entries of what it was before.                *)
(***************************************************************************)
LEMMA LinkDirWrite ==
    ASSUME NEW d, NEW e, NEW m, Shadow(d, e, m), NEW p \in DirsIn(e, m), NEW s \in Slots \ Slot(e, p),
           NEW ent \in Entry, ent.inode \notin m, NEW ino \in Inode, d[ent.inode] = ino,
           ino.type = "dir", ino.size = BlockSize, NEW c, c = ino.ptrs[0], c \in Blocks \ m, c # ent.inode
    PROVE  LinkedDir(d, e, m, DirWritten(d, e[p].ptrs[0], Extended(e, p, s, ent)),
                     m \cup {ent.inode, c}, ent.inode, c)
<1> DEFINE N == {ent.inode, c}
           g == WithObject(e, p, s, ent, ino, N)
           E == AsEntries(d[c])
           G == Extended(e, p, s, ent)
           f == DirWritten(g, c, E)
<1>1. /\ Sound(e, m) /\ m \subseteq Blocks /\ N \in SUBSET (Blocks \ m)
      /\ d \in [Blocks -> Content]
  BY ShadowFacts DEF Entry
<1>2. DataBlocks(ino) = {c}
  BY BlocksForProperty DEF DataBlocks, DataIdx
<1>3. N = {ent.inode} \cup DataBlocks(ino) /\ c \in N \ {ent.inode} /\ ent.inode \in N
  BY <1>2
<1> HIDE DEF N, g, G, E, f
<1>4a. Joins(e, m, g, p, s, ent, ino, N)
  BY <1>1, <1>3, WithObjectJoins DEF g
<1>4. /\ Sound(g, m \cup N) /\ LiveIn(g, m \cup N) = LiveIn(e, m) \cup {ent.inode}
      /\ ent.inode \in DirsIn(g, m \cup N)
      /\ \A j \in DirsIn(g, m \cup N) : j # ent.inode => j \in DirsIn(e, m)
      /\ g[e[p].ptrs[0]] = [kind |-> "dir", entries |-> G]
      /\ \A x \in m : x # e[p].ptrs[0] => g[x] = e[x]
      /\ g[ent.inode] = ino /\ \A x \in N : x # ent.inode => g[x] = EmptyDir
      /\ OnlyEntry(e, m, g, p, s, ent)
  BY <1>4a DEF Joins, G
<1>5. ent.inode \in DirsIn(g, m \cup N) /\ g[ent.inode].ptrs[0] = c
  BY <1>4
<1>6. /\ E \in [Slots -> Entry \cup {NoEntry}]
      /\ \A t \in Slots : E[t] # NoEntry => Filled(d, c, t) /\ Goes(d, c, t) = E[t].inode
  <2>1. CASE d[c].kind = "dir"
    <3>1. d[c] \in DirBlock /\ E = d[c].entries
      BY <1>1, <2>1, ContentKinds DEF AsEntries, E
    <3> QED
      BY <2>1, <3>1 DEF DirBlock, Filled, Goes
  <2>2. CASE d[c].kind # "dir"
    <3>1. E = [t \in Slots |-> NoEntry]
      BY <2>2 DEF AsEntries, EmptyDir, E
    <3> QED
      BY <3>1
  <2> QED
    BY <2>1, <2>2
<1>7. \A t \in Slots : E[t] # NoEntry => E[t].inode \in LiveIn(e, m) \ {RootInode}
  BY <1>6 DEF Shadow
<1>8. \A t, v \in Slots : E[t] # NoEntry /\ E[v] # NoEntry /\ E[t].inode = E[v].inode => t = v
  BY <1>6 DEF Shadow
<1>9. ASSUME NEW t \in Slots, E[t] # NoEntry, NEW j \in DirsIn(g, m \cup N), NEW v \in Slot(g, j), j # ent.inode
      PROVE  To(g, j, v) # E[t].inode
  <2>1. j \in DirsIn(e, m)
    BY <1>4, <1>9
  <2>2. v \in Slots /\ Entries(g, j)[v] # NoEntry
    BY <1>9 DEF Slot
  <2>3. CASE j = p /\ v = s
    <3>1. To(g, j, v) = ent.inode
      BY <1>4, <2>3 DEF To, OnlyEntry
    <3>2. E[t].inode \in m
      BY <1>7, <1>9 DEF LiveIn
    <3> QED
      BY <3>1, <3>2
  <2>4. CASE ~(j = p /\ v = s)
    <3>1. Entries(g, j)[v] = Entries(e, j)[v]
      BY <1>4, <2>1, <2>2, <2>4 DEF OnlyEntry
    <3>2. v \in Slot(e, j) /\ To(g, j, v) = To(e, j, v)
      BY <2>2, <3>1 DEF Slot, To
    <3>3. Filled(d, e[j].ptrs[0], v) /\ Goes(d, e[j].ptrs[0], v) = To(e, j, v)
      BY <2>1, <3>2, ShadowEntries
    <3>4. e[j].ptrs[0] \in m /\ e[j].ptrs[0] \in Blocks
      BY <2>1, ShadowFacts
    <3>5. Filled(d, c, t) /\ Goes(d, c, t) = E[t].inode
      BY <1>6, <1>9
    <3> QED
      BY <2>2, <3>2, <3>3, <3>4, <3>5 DEF Shadow
  <2> QED
    BY <2>3, <2>4
<1>10a. Allowed(g, m \cup N, ent.inode, E)
  <2>1. \A t \in Slots : E[t] # NoEntry => E[t].inode \in LiveIn(g, m \cup N) \ {RootInode}
    BY <1>4, <1>7
  <2>2. \A t \in Slots : E[t] # NoEntry =>
           \A j \in DirsIn(g, m \cup N) : \A v \in Slot(g, j) : j # ent.inode => To(g, j, v) # E[t].inode
    BY <1>9
  <2> QED
    BY <1>6, <1>8, <2>1, <2>2 DEF Allowed
<1>10b. Rewritten(g, m \cup N, f, c, E)
  BY <1>4, <1>5, <1>10a, DirRewritten DEF f
<1>10. /\ Sound(f, m \cup N) /\ LiveIn(f, m \cup N) = LiveIn(g, m \cup N)
       /\ DirsIn(f, m \cup N) = DirsIn(g, m \cup N)
       /\ f[c] = [kind |-> "dir", entries |-> E]
       /\ \A x \in Blocks : x # c => f[x] = g[x]
  BY <1>10b DEF Rewritten
<1>11. e[p].ptrs[0] \in m /\ e[p].ptrs[0] \in Blocks /\ e[p].ptrs[0] # c /\ ent.inode \in Blocks
  BY ShadowFacts DEF Entry
<1>12. /\ f[e[p].ptrs[0]] = [kind |-> "dir", entries |-> G]
       /\ \A x \in m : x # e[p].ptrs[0] => f[x] = e[x]
       /\ f[ent.inode] = ino
  BY <1>1, <1>4, <1>10, <1>11
<1>13. \A x \in (m \cup N) \ m : Agrees(d, f, x)
  <2>1. Agrees(d, f, c)
    BY <1>10 DEF Agrees, E
  <2>2. Agrees(d, f, ent.inode)
    BY <1>12 DEF Agrees, Inode
  <2> QED
    BY <2>1, <2>2 DEF N
<1>14. Sound(f, m \cup N) /\ LiveIn(f, m \cup N) = LiveIn(e, m) \cup {ent.inode} /\ m \subseteq m \cup N
  BY <1>4, <1>10
<1>15. Shadow(DirWritten(d, e[p].ptrs[0], G), f, m \cup N)
  BY <1>12, <1>13, <1>14, LinkWrite DEF G
<1>16. Fills(d, e, m, DirWritten(d, e[p].ptrs[0], G), f, (m \cup N) \ {c})
  <2> DEFINE z == [kind |-> "dir", entries |-> G]
  <2>1. z.kind = "dir" /\ e[p].ptrs[0] \in Blocks /\ (m \cup N) \ {c} \subseteq Blocks
    BY <1>1, <1>11
  <2>2. ASSUME NEW x \in (m \cup N) \ {c}, x # e[p].ptrs[0], f[x].kind = "dir" PROVE x \in m /\ e[x].kind = "dir"
    <3>1. x # ent.inode
      BY <1>12, <2>2 DEF Inode
    <3> QED
      BY <1>12, <2>2, <3>1 DEF N
  <2> HIDE DEF z
  <2>3. Fills(d, e, m, [d EXCEPT ![e[p].ptrs[0]] = z], f, (m \cup N) \ {c})
    BY <2>1, <2>2, DirFills
  <2> QED
    BY <2>3 DEF DirWritten, z
<1> QED
  BY <1>4, <1>5, <1>10, <1>12, <1>15, <1>16 DEF N, G, LinkedDir

\* A directory's block is zeroed: its entries are gone, and what they led to is left marked.
LEMMA EmptiedWrite ==
    ASSUME NEW d, NEW e, NEW m, Shadow(d, e, m), NEW i \in DirsIn(e, m)
    PROVE  \E f : /\ Shadow([d EXCEPT ![e[i].ptrs[0]] = EmptyDir], f, m)
                  /\ Fills(d, e, m \ {e[i].ptrs[0]}, [d EXCEPT ![e[i].ptrs[0]] = EmptyDir], f, m)
<1> DEFINE b == e[i].ptrs[0]
           E == [s \in Slots |-> NoEntry]
           f == DirWritten(e, b, E)
<1>1. /\ b \in m /\ b \in Blocks /\ b # SuperBlock /\ b # BitmapBlock
      /\ Sound(e, m) /\ m \subseteq Blocks /\ d \in [Blocks -> Content]
  BY ShadowFacts
<1>2. E \in [Slots -> Entry \cup {NoEntry}] /\ \A s \in Slots : E[s] = NoEntry
  OBVIOUS
<1>3. EmptyDir = [kind |-> "dir", entries |-> E] /\ EmptyDir \in Content
  BY DEF EmptyDir, Content, DirBlock
<1> HIDE DEF E, f
<1>3a. Allowed(e, m, i, E)
  BY <1>2 DEF Allowed
<1>3b. Rewritten(e, m, f, b, E)
  BY <1>1, <1>3a, DirRewritten DEF f
<1>4. /\ Sound(f, m) /\ LiveIn(f, m) = LiveIn(e, m) /\ f[b] = [kind |-> "dir", entries |-> E]
      /\ \A x \in Blocks : x # b => f[x] = e[x]
  BY <1>3b DEF Rewritten
<1>5. \A x \in m : x # b => Agrees(d, f, x)
  BY <1>1, <1>4 DEF Shadow, Agrees
<1>6. EmptyDir.kind = "dir" /\ EmptyDir.entries = E
  BY <1>3
<1>7. Agrees([d EXCEPT ![b] = EmptyDir], f, b)
  <2>1. [d EXCEPT ![b] = EmptyDir][b] = EmptyDir
    BY <1>1
  <2> QED
    BY <1>4, <1>6, <2>1 DEF Agrees, AsEntries
<1>8. Enterable(d, b, EmptyDir, f, m)
  BY <1>2, <1>6 DEF Enterable
<1>9. \A x \in Blocks, t \in Slots : x # b /\ Filled(d, x, t) => Goes(d, x, t) \in LiveIn(f, m)
  BY <1>4 DEF Shadow
<1>10. Shadow([d EXCEPT ![b] = EmptyDir], f, m)
  BY <1>1, <1>3, <1>4, <1>5, <1>7, <1>8, <1>9, BlockWritten
<1>11. Fills(d, e, m, [d EXCEPT ![b] = EmptyDir], f, m)
  BY <1>1, <1>4, <1>6, DirFills
<1>12. ~ Blank([d EXCEPT ![b] = EmptyDir], f, b)
  BY <1>1, <1>6 DEF Blank
<1>13. Fills(d, e, m \ {b}, [d EXCEPT ![b] = EmptyDir], f, m)
  BY <1>11, <1>12 DEF Fills
<1> QED
  BY <1>10, <1>13

\* A path is longer by a name than its front.
LEMMA TranslateAppend ==
    ASSUME NEW d, NEW q \in Seq(Names), NEW n \in Names
    PROVE  Append(q, n) \in Seq(Names) /\ Translate(d, Append(q, n)) = Step(d, Translate(d, q), n)
<1>1. Append(q, n) \in Seq(Names) /\ Append(q, n) # <<>>
  BY AppendFacts
<1>2. Append(Front(Append(q, n)), Last(Append(q, n))) = Append(q, n)
  BY <1>1, FrontLast
<1>3. Front(Append(q, n)) \in Seq(Names) /\ Last(Append(q, n)) \in Names
  BY <1>1, FrontLast
<1>4. Front(Append(q, n)) = q /\ Last(Append(q, n)) = n
  BY <1>2, <1>3, AppendSame
<1> QED
  BY <1>1, <1>4, TranslateLast

\* What a directory's inode and block show is the same in the image and in its shadow.
LEMMA ShadowStep ==
    ASSUME NEW d, NEW e, NEW m, Shadow(d, e, m), NEW i \in LiveIn(e, m) \cup {ENOENT, ENOTDIR}, NEW n
    PROVE  Step(d, i, n) = Step(e, i, n)
<1>1. CASE i \in LiveIn(e, m)
  <2>1. d[i] = e[i] /\ i >= 0
    BY <1>1, ShadowFacts DEF Blocks
  <2>2. CASE IsDir(e, i)
    <3>1. i \in DirsIn(e, m)
      BY <1>1, <2>2 DEF DirsIn, IsDir
    <3>2. Entries(d, i) = AsEntries(d[e[i].ptrs[0]]) /\ AsEntries(d[e[i].ptrs[0]]) = Entries(e, i)
      BY <2>1, <3>1, ShadowFacts DEF Entries, AsEntries
    <3>3. Matches(d, i, n) = Matches(e, i, n)
      BY <3>2 DEF Matches, UsedSlots, FreeSlots
    <3>4. IsDir(d, i)
      BY <2>1, <2>2 DEF IsDir, IsInode
    <3> QED
      BY <2>2, <3>2, <3>3, <3>4 DEF Step
  <2>3. CASE ~IsDir(e, i)
    BY <2>1, <2>3 DEF Step, IsDir, IsInode
  <2> QED
    BY <2>2, <2>3
<1>2. CASE i \in {ENOENT, ENOTDIR}
  BY <1>2 DEF Step, ENOENT, ENOTDIR
<1> QED
  BY <1>1, <1>2

\* Every path leads to the same inode in the image as in its shadow: also one that ends at a
\* directory which is still blank, since Translate finds no entries there (DiskLayout).
LEMMA ShadowWalk ==
    ASSUME NEW d, NEW e, NEW m, Shadow(d, e, m)
    PROVE  \A q \in Seq(Names) : Translate(d, q) = Translate(e, q)
<1> DEFINE G == {q \in Seq(Names) : Translate(d, q) = Translate(e, q)}
<1>1. <<>> \in G
  BY TranslateRoot
<1>2. ASSUME NEW q \in Seq(Names), NEW n \in Names, q \in G
      PROVE  Append(q, n) \in G
  <2>1. Translate(e, q) \in LiveIn(e, m) \cup {ENOENT, ENOTDIR}
    BY ResolveLive DEF Shadow
  <2>2. Translate(d, q) = Translate(e, q)
    BY <1>2
  <2>3. Step(d, Translate(e, q), n) = Step(e, Translate(e, q), n)
    BY <2>1, ShadowStep
  <2>4. Translate(d, Append(q, n)) = Translate(e, Append(q, n)) /\ Append(q, n) \in Seq(Names)
    BY <2>2, <2>3, TranslateAppend
  <2> QED
    BY <2>4
<1> HIDE DEF G
<1>3. \A q \in Seq(Names) : q \in G
  BY <1>1, <1>2, PathInduction
<1> QED
  BY <1>3 DEF G

\* An inode has more pointers than data blocks: the first blocks of the disk are no data.
LEMMA PointersLeft ==
    ASSUME NEW d, NEW m, Sound(d, m), NEW i \in LiveIn(d, m)
    PROVE  BlocksFor(d[i].size) < MaxPtrs
<1>1. Freed(d, i) \in SUBSET m /\ Cardinality(Freed(d, i)) = BlocksFor(d[i].size) + 1
  BY FreedNumber
<1>2. m \subseteq Blocks
  BY DEF Sound, Typed
<1>3. IsFiniteSet(Blocks) /\ Cardinality(Blocks) = DiskSize
  <2>1. DiskSize - 1 \in Nat
    BY LayoutAssumption
  <2>2. IsFiniteSet(0 .. DiskSize - 1) /\ Cardinality(0 .. DiskSize - 1) = (DiskSize - 1) + 1
    BY <2>1, IntervalSize
  <2> QED
    BY <2>2, LayoutAssumption DEF Blocks
<1>4. IsFiniteSet(Freed(d, i)) /\ Cardinality(Freed(d, i)) <= DiskSize
  BY <1>1, <1>2, <1>3, FS_Subset
<1>5. BlocksFor(d[i].size) \in Nat
  BY LiveInode
<1> QED
  BY <1>1, <1>4, <1>5, LayoutAssumption

-----------------------------------------------------------------------------
(* What a shadow says of the image                                         *)

\* The marks of the shadow are on the disk and in memory, but for the blocks owed.
Backed(d, e, m, bm, ow) ==
    Shadow(d, e, m) /\ m \subseteq bm \cup ow /\ m \subseteq d[BitmapBlock].used \cup ow

Held(d, bm, ow) == \E e, m : Backed(d, e, m, bm, ow)

\* Where the client's paths lead.
LEMMA ReachedFacts ==
    ASSUME NEW e, NEW m, Shadow(disk, e, m)
    PROVE  /\ \A q \in DOMAIN Reached : q \in Seq(Names) /\ Reached[q] = Translate(e, q)
                                        /\ Reached[q] \in LiveIn(e, m)
           /\ Range(Reached) \subseteq LiveIn(e, m) /\ Objects = Range(Reached)
<1>1. /\ Sound(e, m)
      /\ \A q \in Seq(Names) : Translate(disk, q) = Translate(e, q)
  BY ShadowWalk DEF Shadow
<1>2. \A q \in Parsed : q \in Seq(Names)
  BY ClientAssumption, ParseProperty DEF Parsed
<1>3. ASSUME NEW q \in DOMAIN Reached
      PROVE  q \in Seq(Names) /\ Reached[q] = Translate(e, q) /\ Reached[q] \in LiveIn(e, m)
  <2>1. q \in Parsed /\ Reached[q] = Translate(disk, q) /\ Translate(disk, q) \in Blocks
    BY DEF Reached
  <2>2. Translate(e, q) >= 0
    BY <1>1, <1>2, <2>1, LayoutAssumption DEF Blocks
  <2> QED
    BY <1>1, <1>2, <2>1, <2>2, ResolveLive
<1>4. Range(Reached) \subseteq LiveIn(e, m)
  BY <1>3 DEF Range
<1>5. \A i \in LiveIn(e, m) : IsInode(disk, i)
  BY ShadowFacts DEF IsInode
<1> QED
  BY <1>3, <1>4, <1>5 DEF Objects

\* Then what paths lead to is reserved, and nothing is shared.  Like the two properties, this is
\* about paths that end at a directory which is still blank; OldBytesOnlyByMkdir says when there
\* can be one.
LEMMA HeldProperties ==
    ASSUME Held(disk, bitmap, owed)
    PROVE  OnlyAddingDangles /\ NoneShared
<1>1. PICK e, m : Backed(disk, e, m, bitmap, owed)
  BY DEF Held
<1>2. /\ Shadow(disk, e, m) /\ Sound(e, m)
      /\ m \subseteq bitmap \cup owed /\ m \subseteq disk[BitmapBlock].used \cup owed
  BY <1>1 DEF Backed, Shadow
<1>3. /\ \A q \in DOMAIN Reached : q \in Seq(Names) /\ Reached[q] = Translate(e, q)
                                   /\ Reached[q] \in LiveIn(e, m)
      /\ Range(Reached) \subseteq LiveIn(e, m) /\ Objects = Range(Reached)
  BY <1>2, ReachedFacts
<1>4. \A i \in LiveIn(e, m) : i \in m /\ disk[i] = e[i]
  BY <1>2, ShadowFacts
<1>5. \A i \in Objects : DataBlocks(disk[i]) \subseteq m
  BY <1>2, <1>3, <1>4 DEF Sound, InodesFit, DataBlocks
<1>6. Referenced \subseteq m
  BY <1>3, <1>4, <1>5 DEF Referenced
<1>7. OnlyAddingDangles
  BY <1>2, <1>3, <1>6 DEF OnlyAddingDangles
<1>8. IsInjective(Reached)
  <2>1. \A q, r \in DOMAIN Reached : Reached[q] = Reached[r] => q = r
    <3> SUFFICES ASSUME NEW q \in DOMAIN Reached, NEW r \in DOMAIN Reached, Reached[q] = Reached[r] PROVE q = r
      OBVIOUS
    <3>1. q \in Seq(Names) /\ r \in Seq(Names) /\ Translate(e, r) = Translate(e, q)
          /\ Translate(e, q) \in LiveIn(e, m)
      BY <1>3
    <3>2. Translate(e, q) >= 0
      BY <1>2, <3>1, ResolveLive
    <3> QED
      BY <1>2, <3>1, <3>2, PathsDiffer
  <2> QED
    BY <2>1 DEF IsInjective
<1>9. \A i, j \in Objects : \A k \in DataIdx(disk[i]), l \in DataIdx(disk[j]) :
          disk[i].ptrs[k] = disk[j].ptrs[l] => i = j /\ k = l
  BY <1>2, <1>3, <1>4 DEF Sound, PtrsDiffer
<1> QED
  BY <1>7, <1>8, <1>9 DEF NoneShared

-----------------------------------------------------------------------------
(* What a single write leaves of the tree                                  *)

\* What path q shows in image d, as At(tree, q).
Shown(d, q) == IF Translate(d, q) >= 0 THEN {NodeIn(d, Translate(d, q))} ELSE {}

\* Image f shows the same objects as d, but for the paths in own.
Spares(d, f, own) == \A q \in Seq(Names) : q \notin own => Shown(f, q) = Shown(d, q)

\* Block b is of no object but that of inode i: it is free, or of a directory or the bitmap, or i's.
Apart(e, m, b, i) ==
    b \in m => \/ e[b].kind \in {"dir", "bitmap"}
               \/ i \in LiveIn(e, m) /\ b \in Freed(e, i)

\* Nothing but block b differs.
Elsewhere(d, f, b) == \A x \in Blocks : x # b => f[x] = d[x]

\* An object stays what it is when a block is written that is not of it.
LEMMA NodeApart ==
    ASSUME NEW d, NEW e, NEW m, Shadow(d, e, m), NEW b, NEW i, Apart(e, m, b, i),
           NEW f, Elsewhere(d, f, b)
    PROVE  \A j \in LiveIn(e, m) : j # i => NodeIn(f, j) = NodeIn(d, j)
<1> SUFFICES ASSUME NEW j \in LiveIn(e, m), j # i PROVE NodeIn(f, j) = NodeIn(d, j)
  OBVIOUS
<1>1. /\ Sound(e, m) /\ d \in [Blocks -> Content] /\ d[j] = e[j] /\ j \in m /\ j \in Blocks
      /\ e[j].kind = "inode"
  BY ShadowFacts
<1>2. \A k \in DataIdx(e[j]) : /\ e[j].ptrs[k] \in m /\ e[j].ptrs[k] \in Blocks
                               /\ e[j].type = "file" => e[e[j].ptrs[k]].kind = "data"
  BY <1>1, ContentKinds DEF Sound, InodesFit, Typed
<1>3. b # j
  <2>1. CASE i \in LiveIn(e, m) /\ j \in Freed(e, i)
    <3>1. PICK k \in DataIdx(e[i]) : j = e[i].ptrs[k]
      BY <2>1 DEF Freed, DataBlocks
    <3>2. e[j].kind \in {"dir", "data"}
      BY <1>1, <2>1, <3>1 DEF Sound, InodesFit
    <3> QED
      BY <1>1, <3>2
  <2> QED
    BY <1>1, <2>1 DEF Apart
<1>4. ASSUME e[j].type = "file", NEW k \in DataIdx(e[j])
      PROVE  b # e[j].ptrs[k]
  <2> SUFFICES ASSUME b = e[j].ptrs[k] PROVE FALSE
    OBVIOUS
  <2>1. b \in m /\ e[b].kind = "data"
    BY <1>2, <1>4
  <2>2. i \in LiveIn(e, m) /\ b \in Freed(e, i)
    BY <2>1 DEF Apart
  <2>3. b # i
    BY <1>1, <2>1, <2>2 DEF LiveIn, IsInode
  <2>4. PICK l \in DataIdx(e[i]) : b = e[i].ptrs[l]
    BY <2>2, <2>3 DEF Freed, DataBlocks
  <2> QED
    BY <1>1, <2>2, <2>4, ZenonT(60) DEF Sound, PtrsDiffer
<1>5. f[j] = d[j]
  BY <1>1, <1>3 DEF Elsewhere
<1>6. d[j].type = "file" => \A k \in DataIdx(d[j]) : f[d[j].ptrs[k]] = d[d[j].ptrs[k]]
  BY <1>1, <1>2, <1>4 DEF Elsewhere
<1>7. d[j].size \in Nat
  BY <1>1, LiveInode
<1> QED
  BY <1>5, <1>6, <1>7, NodeLike
\* Path q is, or is below, one that has a name of N after P.
Strays(P, N, q) == \E n \in N \cap Names : Above(Append(P, n), q)

\* When only these names lead elsewhere in one directory, paths without them lead where they led.
LEMMA OtherWalk ==
    ASSUME NEW d, NEW e, NEW m, Shadow(d, e, m), NEW P \in Seq(Names), NEW N, NEW f,
           \A i \in LiveIn(e, m), n \in Names : Step(f, i, n) = Step(d, i, n) \/ (i = Translate(e, P) /\ n \in N)
    PROVE  \A q \in Seq(Names) : Translate(f, q) = Translate(d, q) \/ Strays(P, N, q)
<1> DEFINE G == {q \in Seq(Names) : Translate(f, q) = Translate(d, q) \/ Strays(P, N, q)}
<1>1. <<>> \in G
  BY TranslateRoot
<1>2. ASSUME NEW q \in Seq(Names), NEW x \in Names, q \in G
      PROVE  Append(q, x) \in G
  <2> DEFINE i == Translate(d, q)
             r == Append(q, x)
  <2>1. /\ Sound(e, m) /\ Translate(e, q) = i /\ i \in LiveIn(e, m) \cup {ENOENT, ENOTDIR}
        /\ i >= 0 <=> i \in LiveIn(e, m)
    BY ShadowWalk, ShadowFacts, ResolveLive
  <2>2. r \in Seq(Names) /\ Translate(d, r) = Step(d, i, x) /\ Translate(f, r) = Step(f, Translate(f, q), x)
    BY TranslateAppend
  <2>3. CASE Strays(P, N, q)
    <3>1. PICK n \in N \cap Names : Above(Append(P, n), q)
      BY <2>3 DEF Strays
    <3>2. Append(P, n) \in Seq(Names)
      BY AppendFacts
    <3>3. Above(Append(P, n), r)
      BY <3>1, <3>2, AboveAppend
    <3> QED
      BY <2>2, <3>1, <3>3 DEF Strays
  <2>4. CASE Translate(f, q) = i
    <3>1. CASE i \in LiveIn(e, m) /\ Step(f, i, x) = Step(d, i, x)
      BY <2>2, <2>4, <3>1
    <3>2. CASE i \in LiveIn(e, m) /\ i = Translate(e, P) /\ x \in N
      <4>1. q = P
        BY <2>1, <3>2, PathsDiffer
      <4>2. Above(Append(P, x), Append(P, x))
        BY AboveAppend, AppendFacts
      <4> QED
        BY <2>2, <3>2, <4>1, <4>2 DEF Strays
    <3>3. CASE i \in {ENOENT, ENOTDIR}
      <4>1. Step(f, i, x) = Step(d, i, x)
        BY <3>3 DEF Step, ENOENT, ENOTDIR
      <4> QED
        BY <2>2, <2>4, <4>1
    <3> QED
      BY <2>1, <3>1, <3>2, <3>3
  <2> QED
    BY <1>2, <2>3, <2>4
<1> HIDE DEF G
<1>3. \A q \in Seq(Names) : q \in G
  BY <1>1, <1>2, PathInduction
<1> QED
  BY <1>3 DEF G

\* Nothing is below a path that leads nowhere, or to a file.
LEMMA BelowNothing ==
    ASSUME NEW d, NEW s \in Seq(Names), \A n \in Names : Step(d, Translate(d, s), n) \in {ENOENT, ENOTDIR}
    PROVE  \A q \in Seq(Names) : Above(s, q) /\ q # s => Translate(d, q) \in {ENOENT, ENOTDIR}
<1> DEFINE G == {q \in Seq(Names) : Above(s, q) /\ q # s => Translate(d, q) \in {ENOENT, ENOTDIR}}
<1>1. <<>> \in G
  <2>1. Above(s, <<>>) => s = <<>>
    BY DEF Above
  <2> QED
    BY <2>1
<1>2. ASSUME NEW q \in Seq(Names), NEW x \in Names, q \in G
      PROVE  Append(q, x) \in G
  <2>1. Append(q, x) \in Seq(Names) /\ Translate(d, Append(q, x)) = Step(d, Translate(d, q), x)
    BY TranslateAppend
  <2>2. Above(s, Append(q, x)) /\ Append(q, x) # s => Above(s, q)
    BY AboveAppend
  <2>3. Translate(d, q) \in {ENOENT, ENOTDIR} => Step(d, Translate(d, q), x) = Translate(d, q)
    BY DEF Step, ENOENT, ENOTDIR
  <2> QED
    BY <1>2, <2>1, <2>2, <2>3
<1> HIDE DEF G
<1>3. \A q \in Seq(Names) : q \in G
  BY <1>1, <1>2, PathInduction
<1> QED
  BY <1>3 DEF G

\* Path q leads nowhere in either image.
Nowhere(d, f, q) == {Translate(f, q), Translate(d, q)} \subseteq {ENOENT, ENOTDIR}

\* What has to be known of a write: it is of a block apart, and paths lead where they led.
LEMMA SparedBy ==
    ASSUME NEW d, NEW e, NEW m, Shadow(d, e, m), NEW b, NEW i, Apart(e, m, b, i), NEW own,
           \A q \in Seq(Names) : Translate(e, q) = i /\ i \in LiveIn(e, m) => q \in own,
           NEW f, Elsewhere(d, f, b),
           \A q \in Seq(Names) : q \notin own => Translate(f, q) = Translate(d, q) \/ Nowhere(d, f, q)
    PROVE  Spares(d, f, own)
<1>0. \A j \in LiveIn(e, m) : j # i => NodeIn(f, j) = NodeIn(d, j)
  BY NodeApart
<1> SUFFICES ASSUME NEW q \in Seq(Names), q \notin own PROVE Shown(f, q) = Shown(d, q)
  BY DEF Spares
<1>1. Sound(e, m) /\ Translate(e, q) = Translate(d, q)
  BY ShadowWalk, ShadowFacts
<1>2. Translate(f, q) = Translate(d, q) \/ Nowhere(d, f, q)
  OBVIOUS
<1>3. CASE Nowhere(d, f, q)
  BY <1>3 DEF Nowhere, Shown, ENOENT, ENOTDIR
<1>4. CASE Translate(f, q) = Translate(d, q)
  <2>1. CASE Translate(d, q) >= 0
    <3> DEFINE j == Translate(d, q)
    <3>1. j \in LiveIn(e, m)
      BY <1>1, <2>1, ResolveLive
    <3>2. j # i
      BY <1>1, <3>1
    <3> HIDE DEF j
    <3>3. NodeIn(f, j) = NodeIn(d, j)
      BY <1>0, <3>1, <3>2
    <3> QED
      BY <1>4, <2>1, <3>3 DEF Shown, j
  <2>2. CASE ~(Translate(d, q) >= 0)
    BY <1>4, <2>2 DEF Shown
  <2> QED
    BY <2>1, <2>2
<1> QED
  BY <1>2, <1>3, <1>4

\* Only one path leads to an inode.
LEMMA OnlyPath ==
    ASSUME NEW e, NEW m, Sound(e, m), NEW P \in Seq(Names), NEW own, P \in own
    PROVE  \A q \in Seq(Names) : Translate(e, q) = Translate(e, P) /\ Translate(e, P) \in LiveIn(e, m) => q \in own
<1> TAKE q \in Seq(Names)
<1>1. Translate(e, P) \in LiveIn(e, m) => Translate(e, P) >= 0
  BY ResolveLive
<1>2. Translate(e, P) >= 0 /\ Translate(e, q) = Translate(e, P) => q = P
  BY PathsDiffer
<1> QED
  BY <1>1, <1>2

\* A free block, or one of the file at path P, is written with anything but entries.
LEMMA IdleSpares ==
    ASSUME NEW d, NEW e, NEW m, Shadow(d, e, m), NEW b \in Blocks, NEW own, NEW P \in Seq(Names), P \in own,
           b \in m => /\ Translate(e, P) \in LiveIn(e, m) /\ e[Translate(e, P)].type = "file"
                      /\ b \in DataBlocks(e[Translate(e, P)]),
           NEW c \in Content, c.kind # "dir"
    PROVE  /\ Spares(d, [d EXCEPT ![b] = c], own)
           /\ Shadow([d EXCEPT ![b] = c], e, m)
<1> DEFINE i == Translate(e, P)
           f == [d EXCEPT ![b] = c]
<1>1. Sound(e, m)
  BY ShadowFacts
<1>2. b \in m => e[b].kind = "data"
  BY <1>1 DEF Sound, InodesFit, DataBlocks
<1>3. Shadow([d EXCEPT ![b] = c], e, m)
  BY <1>2, IdleWrite
<1>4. \A q \in Seq(Names) : Translate(f, q) = Translate(d, q)
  BY <1>3, ShadowWalk
<1>5. Apart(e, m, b, i)
  BY DEF Apart, Freed
<1>6. \A q \in Seq(Names) : Translate(e, q) = i /\ i \in LiveIn(e, m) => q \in own
  BY <1>1, OnlyPath
<1>7. Spares(d, f, own)
  <2>1. Elsewhere(d, f, b)
    BY ShadowFacts DEF Elsewhere
  <2> QED
    BY <1>4, <1>5, <1>6, <2>1, SparedBy
<1> QED
  BY <1>3, <1>7

\* The bitmap is written.
LEMMA SaveSpares ==
    ASSUME NEW d, NEW e, NEW m, Shadow(d, e, m), NEW w \in SUBSET Blocks, NEW own
    PROVE  Spares(d, [d EXCEPT ![BitmapBlock] = [kind |-> "bitmap", used |-> w]], own)
<1> DEFINE f == [d EXCEPT ![BitmapBlock] = [kind |-> "bitmap", used |-> w]]
<1>1. Sound(e, m) /\ \A q \in Seq(Names) : Translate(f, q) = Translate(d, q)
  <2>1. Shadow(f, e, m)
    BY SaveWrite
  <2> QED
    BY <2>1, ShadowWalk, ShadowFacts
<1>2. Apart(e, m, BitmapBlock, BitmapBlock) /\ BitmapBlock \notin LiveIn(e, m)
  BY <1>1 DEF Apart, Sound, ReservedIn, LiveIn, IsInode
<1>3. Elsewhere(d, f, BitmapBlock)
  BY ShadowFacts DEF Elsewhere
<1> QED
  BY <1>1, <1>2, <1>3, SparedBy

\* The inode is of one type in both images, and a directory has the same entries.
SameAt(d, f, i) ==
    /\ f[i].kind = d[i].kind /\ f[i].type = d[i].type
    /\ IsDir(d, i) => Entries(f, i) = Entries(d, i)

\* One step of translate() in two images that show the same inode and the same entries.
LEMMA SameStep ==
    ASSUME NEW d, NEW i, NEW f, i \in Blocks, SameAt(d, f, i), NEW n
    PROVE  Step(f, i, n) = Step(d, i, n)
<1>1. i >= 0 /\ (IsDir(f, i) <=> IsDir(d, i))
  BY DEF Blocks, IsDir, IsInode, SameAt
<1>2. CASE IsDir(d, i)
  <2>0. Entries(f, i) = Entries(d, i)
    BY <1>2 DEF SameAt
  <2>1. Matches(f, i, n) = Matches(d, i, n)
    BY <2>0 DEF Matches, UsedSlots, FreeSlots
  <2> QED
    BY <1>1, <1>2, <2>0, <2>1 DEF Step
<1>3. CASE ~IsDir(d, i)
  BY <1>1, <1>3 DEF Step
<1> QED
  BY <1>2, <1>3

\* Paths lead where they led.
SameWays(d, f) == \A q \in Seq(Names) : Translate(f, q) = Translate(d, q)

(***************************************************************************)
(* The inode at path P is written, and is still that of a file, or of a    *)
(* directory with the same block (fs_chmod, fs_utime, fs_truncate,         *)
(* fs_write).                                                              *)
(***************************************************************************)
LEMMA InodeSpares ==
    ASSUME NEW d, NEW e, NEW m, Shadow(d, e, m), NEW P \in Seq(Names), NEW own, P \in own,
           NEW i, i = Translate(e, P), i \in LiveIn(e, m), NEW ino, ino.kind = "inode",
           ino.type = e[i].type, ino.type = "dir" => ino.ptrs[0] = e[i].ptrs[0]
    PROVE  Spares(d, [d EXCEPT ![i] = ino], own) /\ SameWays(d, [d EXCEPT ![i] = ino])
<1> DEFINE f == [d EXCEPT ![i] = ino]
<1>1. /\ Sound(e, m) /\ d \in [Blocks -> Content] /\ i \in Blocks /\ f[i] = ino /\ Elsewhere(d, f, i)
      /\ d[i] = e[i] /\ e[i].kind = "inode"
  BY ShadowFacts DEF Elsewhere
<1> HIDE DEF f
<1>2. ASSUME NEW j \in LiveIn(e, m), NEW n \in Names
      PROVE  Step(f, j, n) = Step(d, j, n)
  <2>1. j \in Blocks /\ d[j] = e[j]
    BY ShadowFacts
  <2>2. f[j].kind = d[j].kind /\ f[j].type = d[j].type
    BY <1>1, <2>1 DEF Elsewhere
  <2>3. ASSUME IsDir(d, j)
        PROVE  Entries(f, j) = Entries(d, j)
    <3>1. j \in DirsIn(e, m)
      BY <2>1, <2>3 DEF DirsIn, IsDir
    <3>2. f[j].ptrs[0] = d[j].ptrs[0]
      BY <1>1, <2>1, <3>1 DEF Elsewhere, DirsIn
    <3>3. d[j].ptrs[0] \in Blocks /\ e[d[j].ptrs[0]].kind = "dir"
      BY <2>1, <3>1, ShadowFacts
    <3>4. f[d[j].ptrs[0]] = d[d[j].ptrs[0]]
      BY <1>1, <3>3 DEF Elsewhere
    <3> QED
      BY <3>2, <3>4 DEF Entries
  <2>4. SameAt(d, f, j)
    BY <2>2, <2>3 DEF SameAt
  <2> QED
    BY <2>1, <2>4, SameStep
<1>3. SameWays(d, f)
  <2>1. \A j \in LiveIn(e, m), n \in Names : Step(f, j, n) = Step(d, j, n) \/ (j = Translate(e, P) /\ n \in {})
    BY <1>2
  <2>2. \A q \in Seq(Names) : Translate(f, q) = Translate(d, q) \/ Strays(P, {}, q)
    BY <2>1, OtherWalk
  <2> QED
    BY <2>2 DEF SameWays, Strays
<1>4. Apart(e, m, i, i)
  BY DEF Apart, Freed
<1>5. \A q \in Seq(Names) : Translate(e, q) = i /\ i \in LiveIn(e, m) => q \in own
  BY <1>1, OnlyPath
<1>6. Spares(d, f, own)
  BY <1>1, <1>3, <1>4, <1>5, SparedBy DEF SameWays
<1> QED
  BY <1>3, <1>6 DEF f

\* The entries that differ have names in N.
Renames(E, F, N) ==
    \A s \in Slots : E[s] # F[s] => /\ E[s] = NoEntry \/ E[s].name \in N
                                    /\ F[s] = NoEntry \/ F[s].name \in N

\* The other names lead where they led.
LEMMA OtherNames ==
    ASSUME NEW d, NEW f, NEW i, NEW N, Renames(Entries(d, i), Entries(f, i), N), NEW n, n \notin N,
           i \in Blocks, f[i] = d[i]
    PROVE  Step(f, i, n) = Step(d, i, n)
<1>1. Matches(f, i, n) = Matches(d, i, n)
  BY DEF Renames, Matches, UsedSlots, FreeSlots
<1>2. \A s \in Matches(d, i, n) : Entries(f, i)[s] = Entries(d, i)[s]
  BY DEF Renames, Matches, UsedSlots, FreeSlots
<1>3. Matches(d, i, n) # {} => Min(Matches(d, i, n)) \in Matches(d, i, n)
  <2>1. Matches(d, i, n) \subseteq Slots
    BY DEF Matches, UsedSlots
  <2> QED
    BY <2>1, MinProperty DEF Slots
<1>4. i >= 0 /\ (IsDir(f, i) <=> IsDir(d, i))
  BY DEF Blocks, IsDir, IsInode
<1> QED
  BY <1>1, <1>2, <1>3, <1>4 DEF Step

(***************************************************************************)
(* The entries of the directory at path P are written: what paths do with  *)
(* other names, or from other directories, is as before.                   *)
(***************************************************************************)
LEMMA DirWays ==
    ASSUME NEW d, NEW e, NEW m, Shadow(d, e, m), NEW P \in Seq(Names),
           NEW p, p = Translate(e, P), p \in DirsIn(e, m),
           NEW E, NEW N, Renames(Entries(e, p), E, N), NEW f, f = DirWritten(d, e[p].ptrs[0], E)
    PROVE  /\ Elsewhere(d, f, e[p].ptrs[0]) /\ Entries(f, p) = E /\ f[p] = d[p]
           /\ \A q \in Seq(Names) : Translate(f, q) = Translate(d, q) \/ Strays(P, N, q)
<1> DEFINE b == e[p].ptrs[0]
<1>1. /\ Sound(e, m) /\ d \in [Blocks -> Content] /\ b \in Blocks /\ b \in m /\ e[b].kind = "dir"
      /\ Entries(d, p) = Entries(e, p) /\ p \in Blocks /\ d[p] = e[p] /\ d[p].kind = "inode" /\ p # b
  <2>1. AsEntries(d[b]) = Entries(e, p) /\ p \in LiveIn(e, m) /\ b \in Blocks /\ b \in m /\ e[b].kind = "dir"
    BY ShadowFacts
  <2>2. d[p] = e[p] /\ p \in Blocks /\ e[p].kind = "inode"
    BY <2>1, ShadowFacts
  <2>3. p # b
    BY <2>1, <2>2
  <2>4. Entries(d, p) = AsEntries(d[b])
    BY <2>2 DEF AsEntries, Entries
  <2>5. Sound(e, m) /\ d \in [Blocks -> Content]
    BY ShadowFacts
  <2> HIDE DEF b
  <2> QED
    BY <2>1, <2>2, <2>3, <2>4, <2>5
<1>2. Elsewhere(d, f, b) /\ f[b] = [kind |-> "dir", entries |-> E] /\ f[p] = d[p] /\ Entries(f, p) = E
  BY <1>1 DEF DirWritten, Elsewhere, Entries
<1>3. ASSUME NEW j \in LiveIn(e, m), NEW n \in Names
      PROVE  Step(f, j, n) = Step(d, j, n) \/ (j = Translate(e, P) /\ n \in N)
  <2>1. j \in Blocks /\ d[j] = e[j] /\ f[j] = d[j]
    <3>1. j \in Blocks /\ d[j] = e[j] /\ e[j].kind = "inode"
      BY ShadowFacts
    <3>2. j # b
      BY <1>1, <3>1
    <3> QED
      BY <1>2, <3>1, <3>2 DEF Elsewhere
  <2>2. CASE j = p
    <3>1. n \notin N => Step(f, p, n) = Step(d, p, n)
      BY <1>1, <1>2, OtherNames
    <3> QED
      BY <2>2, <3>1
  <2>3. CASE j # p
    <3>1. ASSUME IsDir(d, j)
          PROVE  Entries(f, j) = Entries(d, j)
      <4>1. j \in DirsIn(e, m)
        BY <2>1, <3>1 DEF DirsIn, IsDir
      <4>2. e[j].ptrs[0] # b /\ e[j].ptrs[0] \in Blocks
        <5>1. j \in LiveIn(e, m) /\ 0 \in DataIdx(e[j]) /\ e[j].ptrs[0] \in Blocks
          BY <1>1, <4>1, DirBlockOf DEF DirsIn
        <5>2. e[j].ptrs[0] = e[p].ptrs[0] => p = j
          BY <1>1, <5>1, DirBlocksDiffer
        <5> QED
          BY <2>3, <5>1, <5>2
      <4>3. f[e[j].ptrs[0]] = d[e[j].ptrs[0]]
        BY <1>2, <4>2 DEF Elsewhere
      <4>4. d[j].ptrs[0] = e[j].ptrs[0] /\ f[j].ptrs[0] = e[j].ptrs[0]
        BY <2>1
      <4> QED
        BY <4>3, <4>4 DEF Entries
    <3>2. SameAt(d, f, j)
      BY <2>1, <3>1 DEF SameAt
    <3> QED
      BY <2>1, <3>2, SameStep
  <2> QED
    BY <2>2, <2>3
<1>4. \A q \in Seq(Names) : Translate(f, q) = Translate(d, q) \/ Strays(P, N, q)
  BY <1>3, OtherWalk
<1> QED
  BY <1>2, <1>4

\* That all these paths are of the call's own.
LEMMA DirSpares ==
    ASSUME NEW d, NEW e, NEW m, Shadow(d, e, m), NEW P \in Seq(Names),
           NEW p, p = Translate(e, P), p \in DirsIn(e, m),
           NEW E, NEW N, Renames(Entries(e, p), E, N), NEW f, f = DirWritten(d, e[p].ptrs[0], E), NEW own,
           \A q \in Seq(Names) : Strays(P, N, q) /\ q \notin own => Nowhere(d, f, q)
    PROVE  Spares(d, f, own)
<1> DEFINE b == e[p].ptrs[0]
<1>1. Elsewhere(d, f, b) /\ \A q \in Seq(Names) : Translate(f, q) = Translate(d, q) \/ Strays(P, N, q)
  BY DirWays
<1>2. e[b].kind = "dir"
  BY ShadowFacts
<1>3. Apart(e, m, b, b) /\ b \notin LiveIn(e, m)
  BY <1>2 DEF Apart, LiveIn, IsInode
<1>4. \A q \in Seq(Names) : q \notin own => Translate(f, q) = Translate(d, q) \/ Nowhere(d, f, q)
  BY <1>1
<1> HIDE DEF b
<1>5. \A q \in Seq(Names) : Translate(e, q) = b /\ b \in LiveIn(e, m) => q \in own
  BY <1>3
<1> QED
  BY <1>1, <1>3, <1>4, <1>5, SparedBy

\* What a directory has no entry for, and what it has one for.
LEMMA StepByName ==
    ASSUME NEW d, NEW i \in Blocks, IsDir(d, i), NEW n
    PROVE  /\ Matches(d, i, n) = {} => Step(d, i, n) = ENOENT
           /\ \A s \in Slots : Matches(d, i, n) = {s} => Step(d, i, n) = Entries(d, i)[s].inode
<1>1. ~(i < 0)
  BY DEF Blocks
<1>2. Matches(d, i, n) = {} => Step(d, i, n) = ENOENT
  BY <1>1 DEF Step
<1>3. ASSUME NEW s \in Slots, Matches(d, i, n) = {s}
      PROVE  Step(d, i, n) = Entries(d, i)[s].inode
  <2>1. Min({s}) = s
    BY MinProperty DEF Slots
  <2>2. Step(d, i, n) = Entries(d, i)[Min(Matches(d, i, n))].inode
    BY <1>1, <1>3 DEF Step
  <2> QED
    BY <1>3, <2>1, <2>2
<1> QED
  BY <1>2, <1>3

\* A new entry is found by its name, and by nothing else: there was none of it before.
LEMMA NewWay ==
    ASSUME NEW d, NEW e, NEW m, Shadow(d, e, m), NEW P \in Seq(Names),
           NEW p, p = Translate(e, P), p \in DirsIn(e, m), NEW s \in Slots \ Slot(e, p),
           NEW ent \in Entry, Matches(e, p, ent.name) = {},
           NEW f, f = DirWritten(d, e[p].ptrs[0], Extended(e, p, s, ent))
    PROVE  /\ Renames(Entries(e, p), Extended(e, p, s, ent), {ent.name})
           /\ Translate(d, Append(P, ent.name)) = ENOENT
           /\ Translate(f, Append(P, ent.name)) = ent.inode
<1> DEFINE E == Extended(e, p, s, ent)
           n == ent.name
<1>1. /\ Entries(e, p) \in [Slots -> Entry \cup {NoEntry}] /\ Entries(e, p)[s] = NoEntry /\ ent # NoEntry
      /\ n \in Names /\ s \in Slots /\ p \in LiveIn(e, m) /\ e[p].type = "dir"
  BY ShadowFacts, LayoutAssumption DEF Slot, Entry
<1>2. E[s] = ent /\ \A t \in Slots : t # s => E[t] = Entries(e, p)[t]
  BY <1>1 DEF Extended
<1>3. Renames(Entries(e, p), E, {n})
  BY <1>1, <1>2 DEF Renames
<1> HIDE DEF E
<1>4. Entries(f, p) = E /\ f[p] = d[p]
  BY <1>3, DirWays DEF E
<1>5. p >= 0 /\ p \in Blocks /\ d[p] = e[p] /\ IsDir(e, p) /\ IsDir(f, p)
  BY <1>1, <1>4, ShadowFacts DEF IsDir, IsInode, Blocks
<1>6. Step(e, p, n) = ENOENT
  BY <1>5, StepByName
<1>7. Translate(d, Append(P, n)) = ENOENT
  <2>1. Translate(e, Append(P, n)) = ENOENT /\ Append(P, n) \in Seq(Names)
    BY <1>1, <1>6, TranslateAppend
  <2> QED
    BY <2>1, ShadowWalk
<1>8. Step(f, p, n) = ent.inode
  <2>1. Matches(f, p, n) = {s}
    <3>1. \A t \in Slots : Entries(e, p)[t] # NoEntry => Entries(e, p)[t].name # n
      BY DEF Matches, UsedSlots, FreeSlots
    <3> QED
      BY <1>1, <1>2, <1>4, <3>1 DEF Matches, UsedSlots, FreeSlots
  <2> QED
    BY <1>1, <1>2, <1>4, <1>5, <2>1, StepByName
<1>9. Translate(f, P) = p
  <2>1. ~Strays(P, {n}, P)
    <3>1. Len(Append(P, n)) = Len(P) + 1 /\ Len(P) \in Nat
      BY <1>1, AppendFacts
    <3> QED
      BY <3>1 DEF Strays, Above
  <2>2. Translate(f, P) = Translate(d, P)
    BY <1>3, <2>1, DirWays DEF E
  <2> QED
    BY <2>2, ShadowWalk
<1>10. Translate(f, Append(P, n)) = ent.inode
  BY <1>1, <1>8, <1>9, TranslateAppend
<1> QED
  BY <1>3, <1>7, <1>10 DEF E

\* The paths from S on.
From(S) == {q \in Seq(Names) : Above(S, q)}

\* These are all of the call's own.
Includes(own, S) == From(S) \subseteq own

\* What strays by one name of a directory is the path of this name, and what is below it.
LEMMA StraysFrom ==
    ASSUME NEW P \in Seq(Names), NEW n \in Names, NEW q \in Seq(Names), Strays(P, {n}, q)
    PROVE  q \in From(Append(P, n))
  BY DEF Strays, From

\* The entry of a new file is written: the file appears, with nothing below it (fs_create).
LEMMA LinkFileSpares ==
    ASSUME NEW d, NEW e, NEW m, Shadow(d, e, m), NEW P \in Seq(Names),
           NEW p, p = Translate(e, P), p \in DirsIn(e, m), NEW s \in Slots \ Slot(e, p),
           NEW ent \in Entry, Matches(e, p, ent.name) = {}, ent.inode \notin m, d[ent.inode].type = "file"
    PROVE  \A own : Append(P, ent.name) \in own =>
              Spares(d, DirWritten(d, e[p].ptrs[0], Extended(e, p, s, ent)), own)
<1> DEFINE f == DirWritten(d, e[p].ptrs[0], Extended(e, p, s, ent))
           E == Extended(e, p, s, ent)
           S == Append(P, ent.name)
<1>1. /\ Renames(Entries(e, p), E, {ent.name})
      /\ Translate(d, S) = ENOENT /\ Translate(f, S) = ent.inode
  BY NewWay
<1>2. S \in Seq(Names) /\ ent.name \in Names /\ ent.inode \in Blocks
  BY AppendFacts DEF Entry
<1>3. f[ent.inode].type = "file"
  <2>1. Elsewhere(d, f, e[p].ptrs[0])
    BY <1>1, DirWays
  <2>2. e[p].ptrs[0] \in m
    BY ShadowFacts
  <2> QED
    BY <1>2, <2>1, <2>2 DEF Elsewhere
<1> HIDE DEF f, E, S
<1>4. \A n \in Names : Step(d, Translate(d, S), n) \in {ENOENT, ENOTDIR}
  BY <1>1 DEF Step, ENOENT, ENOTDIR
<1>5. \A n \in Names : Step(f, Translate(f, S), n) \in {ENOENT, ENOTDIR}
  <2>1. ~(ent.inode < 0) /\ ~IsDir(f, ent.inode)
    BY <1>2, <1>3 DEF Blocks, IsDir
  <2> QED
    BY <1>1, <2>1 DEF Step
<1>6. \A q \in Seq(Names) : Above(S, q) /\ q # S => Translate(d, q) \in {ENOENT, ENOTDIR}
  BY <1>2, <1>4, BelowNothing
<1>7. \A q \in Seq(Names) : Above(S, q) /\ q # S => Translate(f, q) \in {ENOENT, ENOTDIR}
  BY <1>2, <1>5, BelowNothing
<1> SUFFICES ASSUME NEW own, S \in own PROVE Spares(d, f, own)
  BY DEF f, E, S
<1>8. \A q \in Seq(Names) : Strays(P, {ent.name}, q) /\ q \notin own => Nowhere(d, f, q)
  BY <1>2, <1>6, <1>7, StraysFrom DEF From, Nowhere, S
<1> QED
  BY <1>1, <1>8, DirSpares DEF f, E

\* The entry of a new directory is written: all that shows is below it (fs_mkdir).
LEMMA LinkDirSpares ==
    ASSUME NEW d, NEW e, NEW m, Shadow(d, e, m), NEW P \in Seq(Names),
           NEW p, p = Translate(e, P), p \in DirsIn(e, m), NEW s \in Slots \ Slot(e, p),
           NEW ent \in Entry, Matches(e, p, ent.name) = {}
    PROVE  /\ \A own : Includes(own, Append(P, ent.name)) =>
                 Spares(d, DirWritten(d, e[p].ptrs[0], Extended(e, p, s, ent)), own)
           /\ Translate(DirWritten(d, e[p].ptrs[0], Extended(e, p, s, ent)), Append(P, ent.name)) = ent.inode
<1> DEFINE f == DirWritten(d, e[p].ptrs[0], Extended(e, p, s, ent))
           E == Extended(e, p, s, ent)
<1>1. Renames(Entries(e, p), E, {ent.name}) /\ Translate(f, Append(P, ent.name)) = ent.inode
  BY NewWay
<1>2. ent.name \in Names
  BY DEF Entry
<1> HIDE DEF f, E
<1>3. ASSUME NEW own, Includes(own, Append(P, ent.name))
      PROVE  Spares(d, f, own)
  <2>1. \A q \in Seq(Names) : Strays(P, {ent.name}, q) /\ q \notin own => Nowhere(d, f, q)
    BY <1>2, <1>3, StraysFrom DEF Includes
  <2> QED
    BY <1>1, <2>1, DirSpares DEF f, E
<1> QED
  BY <1>1, <1>3 DEF f

\* The block of the directory at path S is zeroed.
LEMMA EmptiedSpares ==
    ASSUME NEW d, NEW u, NEW i, NEW c, \E e : Shadow(d, e, u) /\ i \in DirsIn(e, u) /\ e[i].ptrs[0] = c,
           NEW S \in Seq(Names), Translate(d, S) = i, NEW own, Includes(own, S)
    PROVE  Spares(d, [d EXCEPT ![c] = EmptyDir], own)
<1>1. PICK e : Shadow(d, e, u) /\ i \in DirsIn(e, u) /\ e[i].ptrs[0] = c
  OBVIOUS
<1> DEFINE E == [s \in Slots |-> NoEntry]
           f == DirWritten(d, c, E)
<1>2. i = Translate(e, S) /\ f = [d EXCEPT ![c] = EmptyDir]
  BY <1>1, ShadowWalk DEF DirWritten, EmptyDir
<1>3. Renames(Entries(e, i), E, Names)
  <2>1. Entries(e, i) \in [Slots -> Entry \cup {NoEntry}]
    BY <1>1, ShadowFacts
  <2> QED
    BY <2>1 DEF Renames, Entry
<1> HIDE DEF E, f
<1>4. \A q \in Seq(Names) : Strays(S, Names, q) => q \in own
  <2> SUFFICES ASSUME NEW q \in Seq(Names), Strays(S, Names, q) PROVE q \in From(S)
    BY DEF Includes
  <2>1. PICK n \in Names : Above(Append(S, n), q)
    BY DEF Strays
  <2>2. /\ Append(S, n) \in Seq(Names) /\ Len(Append(S, n)) = Len(S) + 1
        /\ \A k \in 1 .. Len(S) : Append(S, n)[k] = S[k]
    BY AppendFacts
  <2> QED
    BY <2>1, <2>2 DEF Above, From
<1>5. Spares(d, f, own)
  BY <1>1, <1>2, <1>3, <1>4, DirSpares DEF f
<1> QED
  BY <1>2, <1>5

\* An entry is erased, and gone are the paths through it (unlink_directory_entry).
LEMMA EraseSpares ==
    ASSUME NEW d, NEW e, NEW m, Shadow(d, e, m), NEW P \in Seq(Names),
           NEW p, p = Translate(e, P), p \in DirsIn(e, m), NEW n \in Names, NEW s \in Matches(e, p, n),
           NEW own, Includes(own, Append(P, n))
    PROVE  Spares(d, DirWritten(d, e[p].ptrs[0], [Entries(e, p) EXCEPT ![s] = NoEntry]), own)
<1> DEFINE E == [Entries(e, p) EXCEPT ![s] = NoEntry]
           f == DirWritten(d, e[p].ptrs[0], E)
<1>1. Renames(Entries(e, p), E, {n})
  <2>1. Entries(e, p) \in [Slots -> Entry \cup {NoEntry}] /\ Entries(e, p)[s].name = n
    BY ShadowFacts DEF Matches
  <2> QED
    BY <2>1 DEF Renames
<1>2. \A q \in Seq(Names) : Strays(P, {n}, q) /\ q \notin own => Nowhere(d, f, q)
  BY StraysFrom DEF Includes
<1> HIDE DEF E, f
<1> QED
  BY <1>1, <1>2, DirSpares DEF E, f

\* An entry gets another name: paths through either are not what they were (fs_rename).
LEMMA RenameSpares ==
    ASSUME NEW d, NEW e, NEW m, Shadow(d, e, m), NEW P \in Seq(Names),
           NEW p, p = Translate(e, P), p \in DirsIn(e, m), NEW n \in Names, NEW s \in Matches(e, p, n),
           NEW name \in Names, NEW own, Includes(own, Append(P, n)), Includes(own, Append(P, name))
    PROVE  Spares(d, DirWritten(d, e[p].ptrs[0], [Entries(e, p) EXCEPT ![s].name = name]), own)
<1> DEFINE E == [Entries(e, p) EXCEPT ![s].name = name]
           f == DirWritten(d, e[p].ptrs[0], E)
<1>1. Renames(Entries(e, p), E, {n, name})
  <2>1. /\ Entries(e, p) \in [Slots -> Entry \cup {NoEntry}] /\ Entries(e, p)[s].name = n
        /\ Entries(e, p)[s] \in Entry /\ s \in Slots
    BY ShadowFacts DEF Matches, UsedSlots, FreeSlots
  <2>2. E[s].name = name /\ \A t \in Slots : t # s => E[t] = Entries(e, p)[t]
    BY <2>1 DEF Entry
  <2> QED
    BY <2>1, <2>2 DEF Renames
<1>2. \A q \in Seq(Names) : Strays(P, {n, name}, q) /\ q \notin own => Nowhere(d, f, q)
  <2>1. \A q \in Seq(Names) : Strays(P, {n, name}, q) => Strays(P, {n}, q) \/ Strays(P, {name}, q)
    BY DEF Strays
  <2> QED
    BY <2>1, StraysFrom DEF Includes
<1> HIDE DEF E, f
<1> QED
  BY <1>1, <1>2, DirSpares DEF E, f

=============================================================================
