--------------------------- MODULE FileSystemProofs ---------------------------
(***************************************************************************)
(* The invariant of FileSystem, for disks, directories, names, paths and   *)
(* files of every size: no call leaves a dangling reference, two           *)
(* references to a block, or a bitmap that is not written back.  First,    *)
(* what the helpers of DiskLayout return, for every disk image.            *)
(***************************************************************************)
EXTENDS FileSystem, SequenceTheorems, WellFoundedInduction, FiniteSetTheorems, TLAPS

-----------------------------------------------------------------------------
(* Natural numbers                                                         *)

\* A set of natural numbers that is not empty has a least element.
LEMMA LeastNatural ==
    ASSUME NEW S \in SUBSET Nat, S # {}
    PROVE  \E x \in S : \A y \in S : x <= y
<1>1. IsWellFoundedOn(OpToRel(<, Nat), Nat)
  BY NatLessThanWellFounded
<1>2. PICK x \in S : \A y \in S : ~(<<y, x>> \in OpToRel(<, Nat))
  BY <1>1, WFMin
<1>3. \A y \in S : ~(y < x)
  BY <1>2 DEF OpToRel
<1> QED
  BY <1>3

\* Min, from the community modules, finds it.
LEMMA MinProperty ==
    ASSUME NEW S \in SUBSET Nat, S # {}
    PROVE  Min(S) \in S /\ \A y \in S : Min(S) <= y
  BY LeastNatural DEF Min

\* Induction, for the set of the numbers that have the property.
LEMMA InductionOnSet ==
    ASSUME NEW S, 0 \in S, \A n \in Nat : n \in S => n + 1 \in S
    PROVE  \A n \in Nat : n \in S
<1> SUFFICES ASSUME Nat \ S # {} PROVE FALSE
  OBVIOUS
<1>1. PICK x \in Nat \ S : \A y \in Nat \ S : x <= y
  BY LeastNatural
<1>2. x # 0 /\ x - 1 \in Nat /\ x - 1 \in S
  BY <1>1
<1> QED
  BY <1>1, <1>2

\* A sequence is its front and its last element.
LEMMA FrontLast ==
    ASSUME NEW T, NEW q \in Seq(T), q # <<>>
    PROVE  /\ Front(q) \in Seq(T) /\ Last(q) \in T
           /\ Len(q) \in Nat \ {0} /\ Len(Front(q)) = Len(q) - 1
           /\ \A k \in 1 .. Len(q) - 1 : Front(q)[k] = q[k]
           /\ q = Append(Front(q), Last(q))
<1>1. Len(q) \in Nat \ {0}
  OBVIOUS
<1>2. Front(q) = SubSeq(q, 1, Len(q) - 1) /\ Last(q) = q[Len(q)]
  BY DEF Front, Last
<1>3. /\ Front(q) \in Seq(T) /\ Len(Front(q)) = Len(q) - 1
      /\ \A k \in 1 .. Len(q) - 1 : Front(q)[k] = q[k]
  <2> DEFINE n == Len(q) - 1
  <2>1. n \in Nat /\ \A k \in 1 .. n : q[k] \in T
    BY <1>1
  <2>2. Front(q) = SubSeq(q, 1, n)
    BY <1>2
  <2> HIDE DEF n
  <2>3. Front(q) \in Seq(T) /\ Len(Front(q)) = n /\ \A k \in 1 .. n : Front(q)[k] = q[k]
    BY <2>1, <2>2
  <2> QED
    BY <2>3 DEF n
<1>4. Last(q) \in T
  BY <1>1, <1>2
<1>5. q = Append(Front(q), Last(q))
  <2> DEFINE r == Append(Front(q), Last(q))
  <2>1. r \in Seq(T) /\ Len(r) = Len(q)
    BY <1>1, <1>3, <1>4
  <2>2. \A k \in 1 .. Len(q) : r[k] = q[k]
    BY <1>1, <1>2, <1>3
  <2> HIDE DEF r
  <2>3. r = q
    BY <2>1, <2>2
  <2> QED
    BY <2>3 DEF r
<1> QED
  BY <1>1, <1>3, <1>4, <1>5

-----------------------------------------------------------------------------
(* Walking a path                                                          *)

\* The definition of Translate by recursion on the path has a solution.
LEMMA TranslateWalk ==
    ASSUME NEW d, NEW q \in Seq(Names)
    PROVE  \E w : /\ w = [k \in 0 .. Len(q) |-> IF k = 0 THEN RootInode ELSE Step(d, w[k-1], q[k])]
                  /\ Translate(d, q) = w[Len(q)]
<1> DEFINE IsWalk(w, n) == w = [k \in 0 .. n |-> IF k = 0 THEN RootInode ELSE Step(d, w[k-1], q[k])]
           S == {n \in Nat : \E w : IsWalk(w, n)}
<1>1. 0 \in S
  <2> DEFINE w == [k \in 0 .. 0 |-> RootInode]
  <2>1. IsWalk(w, 0)
    OBVIOUS
  <2> QED
    BY <2>1
<1>2. ASSUME NEW n \in Nat, n \in S PROVE n + 1 \in S
  <2>1. PICK w : IsWalk(w, n)
    BY <1>2
  <2> DEFINE v == [k \in 0 .. n + 1 |-> IF k <= n THEN w[k] ELSE Step(d, w[n], q[n+1])]
  <2> HIDE DEF IsWalk
  <2>2. \A k \in 0 .. n : w[k] = IF k = 0 THEN RootInode ELSE Step(d, w[k-1], q[k])
    BY <2>1 DEF IsWalk
  <2>3. \A k \in 0 .. n + 1 : v[k] = IF k = 0 THEN RootInode ELSE Step(d, v[k-1], q[k])
    <3> TAKE k \in 0 .. n + 1
    <3>1. CASE k <= n
      BY <3>1, <2>2
    <3>2. CASE k = n + 1
      BY <3>2
    <3> QED
      BY <3>1, <3>2
  <2>4. v = [k \in 0 .. n + 1 |-> v[k]]
    OBVIOUS
  <2>5. IsWalk(v, n + 1)
    BY <2>3, <2>4 DEF IsWalk
  <2> QED
    BY <2>5
<1>3. \E w : IsWalk(w, Len(q))
  <2> HIDE DEF S, IsWalk
  <2>1. \A n \in Nat : n \in S
    BY <1>1, <1>2, InductionOnSet
  <2> QED
    BY <2>1 DEF S
<1>4. Translate(d, q) = (CHOOSE w : IsWalk(w, Len(q)))[Len(q)]
  BY DEF Translate
<1> HIDE DEF IsWalk
<1>5. IsWalk(CHOOSE w : IsWalk(w, Len(q)), Len(q))
  BY <1>3
<1> QED
  BY <1>4, <1>5 DEF IsWalk

\* The empty path leads to the root directory.
LEMMA TranslateRoot == \A d : Translate(d, <<>>) = RootInode
<1> TAKE d
<1>1. <<>> \in Seq(Names) /\ Len(<<>>) = 0
  OBVIOUS
<1>2. PICK w : /\ w = [k \in 0 .. Len(<<>>) |-> IF k = 0 THEN RootInode ELSE Step(d, w[k-1], <<>>[k])]
               /\ Translate(d, <<>>) = w[Len(<<>>)]
  BY <1>1, TranslateWalk
<1> QED
  BY <1>1, <1>2

\* A longer path leads one step further than the path without its last component.
LEMMA TranslateLast ==
    ASSUME NEW d, NEW q \in Seq(Names), q # <<>>
    PROVE  Translate(d, q) = Step(d, Translate(d, Front(q)), Last(q))
<1> DEFINE p == Front(q)
<1>1. /\ p \in Seq(Names) /\ Len(q) \in Nat \ {0} /\ Len(p) = Len(q) - 1
      /\ \A k \in 1 .. Len(p) : p[k] = q[k]
  BY FrontLast
<1>2. PICK w : /\ w = [k \in 0 .. Len(q) |-> IF k = 0 THEN RootInode ELSE Step(d, w[k-1], q[k])]
               /\ Translate(d, q) = w[Len(q)]
  BY TranslateWalk
<1>3. PICK v : /\ v = [k \in 0 .. Len(p) |-> IF k = 0 THEN RootInode ELSE Step(d, v[k-1], p[k])]
               /\ Translate(d, p) = v[Len(p)]
  BY <1>1, TranslateWalk
<1> HIDE DEF p
<1>4. \A k \in 0 .. Len(q) : w[k] = IF k = 0 THEN RootInode ELSE Step(d, w[k-1], q[k])
  BY <1>2
<1>5. \A k \in 0 .. Len(p) : v[k] = IF k = 0 THEN RootInode ELSE Step(d, v[k-1], p[k])
  BY <1>3
<1> DEFINE S == {n \in Nat : n <= Len(p) => v[n] = w[n]}
<1>6. 0 \in S
  BY <1>1, <1>4, <1>5
<1>7. ASSUME NEW n \in Nat, n \in S PROVE n + 1 \in S
  BY <1>1, <1>4, <1>5, <1>7
<1>8. \A n \in Nat : n \in S
  <2> HIDE DEF S
  <2> QED
    BY <1>6, <1>7, InductionOnSet
<1>9. v[Len(p)] = w[Len(q) - 1]
  BY <1>1, <1>8
<1>10. Translate(d, q) = Step(d, w[Len(q) - 1], q[Len(q)])
  BY <1>1, <1>2, <1>4
<1> QED
  BY <1>3, <1>9, <1>10 DEF Last, p

(***************************************************************************)
(* A property of the root and of every step from a place that has it holds *)
(* of the place a path leads to.  The property is given as the set of the  *)
(* inodes that have it.                                                    *)
(***************************************************************************)
LEMMA TranslateInvariant ==
    ASSUME NEW d, NEW L, RootInode \in L,
           \A i \in L, name \in Names : Step(d, i, name) \in L
    PROVE  \A q \in Seq(Names) : Translate(d, q) \in L
<1> TAKE q \in Seq(Names)
<1>1. PICK w : /\ w = [k \in 0 .. Len(q) |-> IF k = 0 THEN RootInode ELSE Step(d, w[k-1], q[k])]
               /\ Translate(d, q) = w[Len(q)]
  BY TranslateWalk
<1>2. \A k \in 0 .. Len(q) : w[k] = IF k = 0 THEN RootInode ELSE Step(d, w[k-1], q[k])
  BY <1>1
<1>3. Len(q) \in Nat /\ \A k \in 1 .. Len(q) : q[k] \in Names
  OBVIOUS
<1> DEFINE S == {n \in Nat : n <= Len(q) => w[n] \in L}
<1>4. 0 \in S
  BY <1>2, <1>3
<1>5. ASSUME NEW n \in Nat, n \in S PROVE n + 1 \in S
  BY <1>2, <1>3, <1>5
<1>6. \A n \in Nat : n \in S
  <2> HIDE DEF S
  <2> QED
    BY <1>4, <1>5, InductionOnSet
<1> QED
  BY <1>1, <1>3, <1>6

\* parse() yields names; a path other than the root stays one, with a last name.
LEMMA ParseProperty ==
    ASSUME NEW path \in Seq(Names)
    PROVE  /\ Parse(path) \in Seq(Names)
           /\ path # <<>> => Parse(path) # <<>> /\ Last(Parse(path)) \in Names
<1> USE LayoutAssumption
<1>1. PICK n \in Nat : n <= Len(path) /\ (path # <<>> => n > 0)
                       /\ Parse(path) = [k \in 1 .. n |-> Truncated[path[k]]]
  <2>1. CASE Len(path) <= MaxPathLen
    BY <2>1 DEF Parse
  <2>2. CASE ~(Len(path) <= MaxPathLen)
    BY <2>2 DEF Parse
  <2> QED
    BY <2>1, <2>2
<1>2. \A k \in 1 .. n : Truncated[path[k]] \in Names
  BY <1>1
<1>3. Parse(path) \in Seq(Names) /\ Len(Parse(path)) = n
  BY <1>1, <1>2
<1> QED
  BY <1>1, <1>2, <1>3 DEF Last

-----------------------------------------------------------------------------
(* Directories and allocation                                              *)

\* The slots that the searches of a directory block return.
LEMMA SlotProperty ==
    ASSUME NEW d, NEW i, NEW name
    PROVE  /\ FreeSlots(d, i) # {} => Min(FreeSlots(d, i)) \in FreeSlots(d, i)
           /\ Matches(d, i, name) # {} => Min(Matches(d, i, name)) \in Matches(d, i, name)
<1>1. FreeSlots(d, i) \in SUBSET Nat /\ Matches(d, i, name) \in SUBSET Nat
  BY LayoutAssumption DEF FreeSlots, Matches, UsedSlots, Slots
<1> QED
  BY <1>1, MinProperty

\* A scan of the bitmap returns as many different free blocks as it was asked for.
LEMMA FirstFreeProperty ==
    ASSUME NEW map, NEW n \in Int, NEW new \in FirstFree(map, n)
    PROVE  /\ new \in [1 .. n -> Blocks \ map]
           /\ \A j, k \in 1 .. n : new[j] = new[k] => j = k
<1>1. /\ new \in [1 .. n -> Blocks \ map]
      /\ \A j, k \in 1 .. n : j < k => new[j] < new[k]
  BY DEF FirstFree
<1>2. \A j \in 1 .. n : new[j] \in Int
  BY <1>1, LayoutAssumption DEF Blocks
<1> QED
  BY <1>1, <1>2

-----------------------------------------------------------------------------
(* Sizes in bytes and in blocks                                            *)

\* Euclid's equation, for the division of TLA+ and so of homework.c (no negative divisor).
LEMMA DivisionEquation ==
    ASSUME NEW n \in Nat, n > 0, NEW x \in Int
    PROVE  x = n * (x \div n) + (x % n)
  BY Z3

\* Division with remainder.
LEMMA Division ==
    ASSUME NEW n \in Nat \ {0}, NEW x \in Int
    PROVE  /\ x \div n \in Int /\ x % n \in 0 .. n - 1
           /\ x = n * (x \div n) + (x % n)
<1>1. x = n * (x \div n) + (x % n)
  <2>1. n \in Nat /\ n > 0
    OBVIOUS
  <2> QED
    BY <2>1, DivisionEquation, Zenon
<1>2. x \div n \in Int
  OBVIOUS
<1>3. x % n \in 0 .. n - 1
  OBVIOUS
<1> QED
  BY <1>1, <1>2, <1>3, Zenon

\* A product with a positive factor is ordered like the other factor.
LEMMA ProductMonotone ==
    ASSUME NEW n \in Nat \ {0}, NEW x \in Int, NEW y \in Int
    PROVE  /\ x <= y => n * x <= n * y
           /\ x < y => n * x + n <= n * y
           /\ n * x \in Int /\ n * y \in Int
<1>1. n * y - n * x = n * (y - x) /\ n * x \in Int /\ n * y \in Int
  OBVIOUS
<1>2. y - x >= 0 => n * (y - x) >= 0
  OBVIOUS
<1>3. n * (y - x) = n * (y - x - 1) + n
  OBVIOUS
<1>4. y - x - 1 >= 0 => n * (y - x - 1) >= 0
  OBVIOUS
<1> QED
  BY <1>1, <1>2, <1>3, <1>4

\* The quotient is the only number whose multiple is that close.
LEMMA QuotientUnique ==
    ASSUME NEW n \in Nat \ {0}, NEW x \in Int, NEW k \in Int,
           n * k <= x, x < n * k + n
    PROVE  x \div n = k
<1> DEFINE m == x \div n
<1>1. m \in Int /\ n * m <= x /\ x < n * m + n
  BY Division
<1> HIDE DEF m
<1>2. ~(m < k)
  BY <1>1, ProductMonotone
<1>3. ~(k < m)
  BY <1>1, ProductMonotone
<1> QED
  BY <1>1, <1>2, <1>3 DEF m

\* Quotients are ordered like the numbers divided.
LEMMA DivMonotone ==
    ASSUME NEW n \in Nat \ {0}, NEW x \in Int, NEW y \in Int, x <= y
    PROVE  x \div n <= y \div n
<1> DEFINE k == x \div n
           m == y \div n
<1>1. k \in Int /\ m \in Int /\ n * k <= x /\ y < n * m + n
  BY Division
<1> HIDE DEF k, m
<1>2. ~(m < k)
  BY <1>1, ProductMonotone
<1> QED
  BY <1>1, <1>2 DEF k, m

\* The last byte of a file lies in its last block.
LEMMA LastBlock ==
    ASSUME NEW size \in Nat \ {0}
    PROVE  BlocksFor(size) = (size - 1) \div BlockSize + 1
<1> DEFINE n == BlockSize
           k == size \div n
           r == size % n
<1>1. n \in Nat \ {0}
  BY LayoutAssumption
<1>2. k \in Int /\ r \in 0 .. n - 1 /\ size = n * k + r /\ n * k \in Int
  BY <1>1, Division, ProductMonotone
<1>3. BlocksFor(size) = k + (IF r > 0 THEN 1 ELSE 0)
  BY DEF BlocksFor
<1> HIDE DEF n, k, r
<1>4. CASE r > 0
  <2>1. (size - 1) \div n = k
    BY <1>1, <1>2, <1>4, QuotientUnique
  <2> QED
    BY <1>2, <1>3, <1>4, <2>1 DEF n
<1>5. CASE r = 0
  <2>1. n * (k - 1) + n = n * k /\ n * (k - 1) \in Int
    BY <1>1, <1>2
  <2>2. (size - 1) \div n = k - 1
    BY <1>1, <1>2, <1>5, <2>1, QuotientUnique
  <2> QED
    BY <1>2, <1>3, <1>5, <2>2 DEF n
<1> QED
  BY <1>2, <1>4, <1>5

\* The number of blocks of a file grows with its size.
LEMMA BlocksForProperty ==
    /\ BlocksFor(0) = 0 /\ BlocksFor(BlockSize) = 1
    /\ \A size \in Nat : BlocksFor(size) \in Nat
    /\ \A s, t \in Nat : s <= t => BlocksFor(s) <= BlocksFor(t)
<1>1. BlockSize \in Nat \ {0}
  BY LayoutAssumption
<1>2. 0 \div BlockSize = 0
  BY <1>1, QuotientUnique
<1>3. (BlockSize - 1) \div BlockSize = 0
  BY <1>1, QuotientUnique
<1>4. 0 % BlockSize = 0
  BY <1>1, <1>2, Division
<1>5. BlocksFor(0) = 0
  BY <1>2, <1>4 DEF BlocksFor
<1>6. BlocksFor(BlockSize) = 1
  BY <1>1, <1>3, LastBlock
<1>7. ASSUME NEW s \in Nat \ {0}
      PROVE  BlocksFor(s) \in Nat \ {0}
  <2>1. 0 \div BlockSize <= (s - 1) \div BlockSize /\ (s - 1) \div BlockSize \in Int
    BY <1>1, DivMonotone, Division
  <2> QED
    BY <1>2, <2>1, LastBlock
<1>8. ASSUME NEW s \in Nat, NEW t \in Nat, s <= t
      PROVE  BlocksFor(s) <= BlocksFor(t)
  <2>1. CASE s = 0
    BY <1>5, <1>7, <2>1
  <2>2. CASE s # 0
    <3>1. (s - 1) \div BlockSize <= (t - 1) \div BlockSize
      BY <1>1, <1>8, <2>2, DivMonotone
    <3>2. (s - 1) \div BlockSize \in Int /\ (t - 1) \div BlockSize \in Int
      BY <1>1, Division
    <3> QED
      BY <1>8, <2>2, <3>1, <3>2, LastBlock
  <2> QED
    BY <2>1, <2>2
<1> QED
  BY <1>5, <1>6, <1>7, <1>8

-----------------------------------------------------------------------------
(* The invariant as a predicate of an image and a bitmap, so that the      *)
(* lemmas speak of the images the handlers build on the way.               *)

Typed(d, m) == d \in [Blocks -> Content] /\ m \in SUBSET Blocks

LiveIn(d, m) == {b \in m : IsInode(d, b)}
DirsIn(d, m) == {i \in LiveIn(d, m) : d[i].type = "dir"}

Slot(d, i) == {s \in Slots : Entries(d, i)[s] # NoEntry}
To(d, i, s) == Entries(d, i)[s].inode

ReservedIn(d, m) ==
    /\ d[SuperBlock].kind = "super" /\ d[BitmapBlock].kind = "bitmap"
    /\ SuperBlock \in m /\ BitmapBlock \in m

InodesFit(d, m) ==
    \A i \in LiveIn(d, m) :
        /\ BlocksFor(d[i].size) <= MaxPtrs
        /\ d[i].type = "dir" => d[i].size = BlockSize
        /\ \A k \in DataIdx(d[i]) :
              /\ d[i].ptrs[k] \in m
              /\ d[d[i].ptrs[k]].kind = IF d[i].type = "dir" THEN "dir" ELSE "data"

EntriesLive(d, m) ==
    /\ RootInode \in DirsIn(d, m)
    /\ \A i \in DirsIn(d, m) : \A s \in Slot(d, i) :
          To(d, i, s) \in LiveIn(d, m) \ {RootInode}

PtrsDiffer(d, m) ==
    \A i, j \in LiveIn(d, m) : \A k \in DataIdx(d[i]), l \in DataIdx(d[j]) :
        d[i].ptrs[k] = d[j].ptrs[l] => i = j /\ k = l

EntriesDiffer(d, m) ==
    \A i, j \in DirsIn(d, m) : \A s \in Slot(d, i), t \in Slot(d, j) :
        To(d, i, s) = To(d, j, t) => i = j /\ s = t

Sound(d, m) ==
    /\ Typed(d, m) /\ ReservedIn(d, m) /\ InodesFit(d, m)
    /\ EntriesLive(d, m) /\ PtrsDiffer(d, m) /\ EntriesDiffer(d, m)

\* Image e is d with one slot of directory p written, as far as the bitmap m goes.
OnlyEntry(d, m, e, p, s, ent) ==
    /\ \A b \in m : e[b].kind = d[b].kind
    /\ \A i \in LiveIn(d, m) : e[i] = d[i]
    /\ Entries(e, p)[s] = ent
    /\ \A t \in Slots : t # s => Entries(e, p)[t] = Entries(d, p)[t]
    /\ \A i \in DirsIn(d, m) : i # p => Entries(e, i) = Entries(d, i)

\* What is left of IInv: the counters and the reply are of their types.
CountersOK == statVfs \in [f_bfree : Int, f_bavail : Int]
ReplyOK    == reply \in [op : Handlers, path : Seq(Names), ret : Int, data : Seq(Byte)]

\* Sound is IInv without the write-back and the types of the other variables.
LEMMA SoundIsIInv == IInv <=> Sound(disk, bitmap) /\ WrittenBack /\ CountersOK /\ ReplyOK
<1>1. UsedSlots(disk, RootInode) = Slot(disk, RootInode)
      /\ \A i : UsedSlots(disk, i) = Slot(disk, i)
  BY DEF UsedSlots, FreeSlots, Slot
<1>2. LiveIn(disk, bitmap) = Live /\ DirsIn(disk, bitmap) = LiveDirs
  BY DEF LiveIn, DirsIn, Live, LiveDirs
<1>3. TypeOK <=> Typed(disk, bitmap) /\ CountersOK /\ ReplyOK
  BY DEF TypeOK, Typed, CountersOK, ReplyOK
<1>4. Reserved <=> ReservedIn(disk, bitmap)
  BY DEF Reserved, ReservedIn
<1>5. SizesFit /\ NoDangling <=> InodesFit(disk, bitmap) /\ RootInode \in LiveDirs
                                  /\ \A i \in LiveDirs : \A s \in Slot(disk, i) : To(disk, i, s) \in Live
  BY <1>1, <1>2 DEF SizesFit, NoDangling, InodesFit, Targets, To
<1>6. NoSharing <=> PtrsDiffer(disk, bitmap) /\ EntriesDiffer(disk, bitmap)
                     /\ \A i \in LiveDirs : \A s \in Slot(disk, i) : To(disk, i, s) # RootInode
  BY <1>1, <1>2 DEF NoSharing, PtrsDiffer, EntriesDiffer, Targets, To
<1>7. EntriesLive(disk, bitmap) <=>
        /\ RootInode \in LiveDirs
        /\ \A i \in LiveDirs : \A s \in Slot(disk, i) : To(disk, i, s) \in Live
        /\ \A i \in LiveDirs : \A s \in Slot(disk, i) : To(disk, i, s) # RootInode
  BY <1>2 DEF EntriesLive
<1> QED
  BY <1>3, <1>4, <1>5, <1>6, <1>7 DEF IInv, Sound

-----------------------------------------------------------------------------
(* Contents                                                                *)

\* The tag of a block tells its type.
LEMMA ContentKinds ==
    ASSUME NEW c \in Content
    PROVE  /\ c.kind = "inode" => c \in Inode
           /\ c.kind = "dir" => c \in DirBlock
           /\ c.kind = "data" => c \in DataBlock
           /\ c.kind = "bitmap" => c \in Bitmap
  BY DEF Content, Inode, DirBlock, DataBlock, Bitmap, Super

\* What the entries of a directory are, whatever its first pointer leads to.
LEMMA EntriesType ==
    ASSUME NEW d, NEW m, Typed(d, m), NEW i, d[i].ptrs[0] \in Blocks
    PROVE  /\ Entries(d, i) \in [Slots -> Entry \cup {NoEntry}]
           /\ \A s \in Slot(d, i) : Entries(d, i)[s] \in Entry
           /\ Slot(d, i) = UsedSlots(d, i)
<1>1. d[d[i].ptrs[0]] \in Content
  BY DEF Typed
<1>2. Entries(d, i) \in [Slots -> Entry \cup {NoEntry}]
  BY <1>1, ContentKinds DEF Entries, EmptyDir, DirBlock
<1> QED
  BY <1>2 DEF Slot, UsedSlots, FreeSlots

\* A live directory has one block, which is allocated and holds entries.
LEMMA DirBlockOf ==
    ASSUME NEW d, NEW m, Sound(d, m), NEW i \in DirsIn(d, m)
    PROVE  /\ DataIdx(d[i]) = {0}
           /\ d[i].ptrs[0] \in m /\ d[i].ptrs[0] \in Blocks
           /\ d[d[i].ptrs[0]].kind = "dir"
           /\ Entries(d, i) = d[d[i].ptrs[0]].entries
<1>1. d[i].size = BlockSize /\ i \in LiveIn(d, m) /\ d[i].type = "dir"
  BY DEF Sound, InodesFit, DirsIn
<1>2. DataIdx(d[i]) = {0}
  BY <1>1, BlocksForProperty DEF DataIdx
<1>3. d[i].ptrs[0] \in m /\ d[d[i].ptrs[0]].kind = "dir"
  BY <1>1, <1>2 DEF Sound, InodesFit
<1> QED
  BY <1>2, <1>3 DEF Sound, Typed, Entries

\* Two live directories have different blocks, and neither is a block of a file.
LEMMA DirBlocksDiffer ==
    ASSUME NEW d, NEW m, Sound(d, m), NEW i \in DirsIn(d, m), NEW j \in LiveIn(d, m),
           NEW k \in DataIdx(d[j]), d[j].ptrs[k] = d[i].ptrs[0]
    PROVE  i = j
<1>1. 0 \in DataIdx(d[i]) /\ i \in LiveIn(d, m)
  BY DirBlockOf DEF DirsIn
<1> QED
  BY <1>1 DEF Sound, PtrsDiffer

-----------------------------------------------------------------------------
(* What the handlers do to a sound image                                   *)

(***************************************************************************)
(* An image stays sound when what the references depend on is unchanged:   *)
(* the tags of the blocks in use, the shape of the inodes, the entries.    *)
(***************************************************************************)
LEMMA SameShape ==
    ASSUME NEW d, NEW m, Sound(d, m), NEW e \in [Blocks -> Content],
           \A b \in m : e[b].kind = d[b].kind,
           \A i \in LiveIn(d, m) :
               e[i].type = d[i].type /\ e[i].size = d[i].size /\ e[i].ptrs = d[i].ptrs,
           \A i \in DirsIn(d, m) :
               Slot(e, i) = Slot(d, i) /\ \A s \in Slot(d, i) : To(e, i, s) = To(d, i, s)
    PROVE  Sound(e, m)
<1>1. LiveIn(e, m) = LiveIn(d, m)
  BY DEF LiveIn, IsInode
<1>2. DirsIn(e, m) = DirsIn(d, m)
  BY <1>1 DEF DirsIn
<1>3. \A i \in LiveIn(d, m) : DataIdx(e[i]) = DataIdx(d[i])
  BY DEF DataIdx
<1>4. Typed(e, m) /\ ReservedIn(e, m)
  BY DEF Sound, Typed, ReservedIn
<1>5. InodesFit(e, m)
  <2> SUFFICES ASSUME NEW i \in LiveIn(d, m)
               PROVE  /\ BlocksFor(e[i].size) <= MaxPtrs
                      /\ e[i].type = "dir" => e[i].size = BlockSize
                      /\ \A k \in DataIdx(e[i]) :
                            /\ e[i].ptrs[k] \in m
                            /\ e[e[i].ptrs[k]].kind = IF e[i].type = "dir" THEN "dir" ELSE "data"
    BY <1>1 DEF InodesFit
  <2> QED
    BY <1>3 DEF Sound, InodesFit
<1>6. EntriesLive(e, m)
  BY <1>1, <1>2 DEF Sound, EntriesLive
<1>7. PtrsDiffer(e, m)
  BY <1>1, <1>3 DEF Sound, PtrsDiffer
<1>8. EntriesDiffer(e, m)
  BY <1>2 DEF Sound, EntriesDiffer
<1> QED
  BY <1>4, <1>5, <1>6, <1>7, <1>8 DEF Sound

\* Writing back a bitmap touches nothing that a reference leads to.
LEMMA BitmapSaved ==
    ASSUME NEW d, NEW m, Sound(d, m), NEW used \in SUBSET Blocks
    PROVE  Sound([d EXCEPT ![BitmapBlock] = [kind |-> "bitmap", used |-> used]], m)
<1> DEFINE e == [d EXCEPT ![BitmapBlock] = [kind |-> "bitmap", used |-> used]]
<1>1. BitmapBlock \in Blocks /\ d \in [Blocks -> Content] /\ m \subseteq Blocks
      /\ d[BitmapBlock].kind = "bitmap" /\ BitmapBlock \in m
  BY LayoutAssumption DEF Sound, Typed, ReservedIn, Blocks, BitmapBlock
<1>2. e \in [Blocks -> Content]
  BY <1>1 DEF Content, Bitmap
<1>3. /\ e[BitmapBlock].kind = "bitmap"
      /\ \A b \in Blocks : b # BitmapBlock => e[b] = d[b]
  BY <1>1
<1> HIDE DEF e
<1>4. \A b \in m : e[b].kind = d[b].kind
  BY <1>1, <1>3
<1>5. \A i \in LiveIn(d, m) : e[i] = d[i]
  BY <1>1, <1>3 DEF LiveIn, IsInode
<1>6. \A i \in DirsIn(d, m) : Entries(e, i) = Entries(d, i)
  <2> TAKE i \in DirsIn(d, m)
  <2>1. d[i].ptrs[0] \in Blocks /\ d[d[i].ptrs[0]].kind = "dir" /\ e[i] = d[i]
    BY <1>5, DirBlockOf DEF DirsIn
  <2> QED
    BY <1>1, <1>3, <2>1 DEF Entries
<1>7. \A i \in DirsIn(d, m) : Slot(e, i) = Slot(d, i) /\ \A s \in Slot(d, i) : To(e, i, s) = To(d, i, s)
  BY <1>6 DEF Slot, To
<1>8. Sound(e, m)
  BY <1>2, <1>4, <1>5, <1>7, SameShape
<1> QED
  BY <1>8 DEF e

(***************************************************************************)
(* A directory block written back with one slot changed: only the entries  *)
(* of that directory change.                                               *)
(***************************************************************************)
LEMMA WithEntryEffect ==
    ASSUME NEW d, NEW m, Sound(d, m), NEW p \in DirsIn(d, m), NEW s \in Slots,
           NEW ent \in Entry \cup {NoEntry}
    PROVE  /\ WithEntry(d, p, s, ent) \in [Blocks -> Content]
           /\ OnlyEntry(d, m, WithEntry(d, p, s, ent), p, s, ent)
           /\ \A b \in Blocks : b # d[p].ptrs[0] => WithEntry(d, p, s, ent)[b] = d[b]
           /\ \A b \in Blocks : WithEntry(d, p, s, ent)[b].kind = d[b].kind
<1> DEFINE e == WithEntry(d, p, s, ent)
           b0 == d[p].ptrs[0]
<1>1. /\ d \in [Blocks -> Content] /\ m \subseteq Blocks /\ b0 \in Blocks /\ d[b0].kind = "dir"
      /\ p \in LiveIn(d, m)
  BY DirBlockOf DEF Sound, Typed, DirsIn
<1>2. Entries(d, p) \in [Slots -> Entry \cup {NoEntry}]
  BY <1>1, EntriesType DEF Sound
<1>3. e = [d EXCEPT ![b0] = [kind |-> "dir", entries |-> [Entries(d, p) EXCEPT ![s] = ent]]]
  BY DEF WithEntry
<1>4. [kind |-> "dir", entries |-> [Entries(d, p) EXCEPT ![s] = ent]] \in Content
  BY <1>2 DEF Content, DirBlock
<1> HIDE DEF e, b0
<1>5. /\ e \in [Blocks -> Content]
      /\ e[b0] = [kind |-> "dir", entries |-> [Entries(d, p) EXCEPT ![s] = ent]]
      /\ \A b \in Blocks : b # b0 => e[b] = d[b]
  BY <1>1, <1>3, <1>4
<1>6. \A b \in Blocks : e[b].kind = d[b].kind
  BY <1>1, <1>5
<1>7. \A i \in LiveIn(d, m) : e[i] = d[i]
  BY <1>1, <1>5 DEF LiveIn, IsInode
<1>8. Entries(e, p)[s] = ent /\ \A t \in Slots : t # s => Entries(e, p)[t] = Entries(d, p)[t]
  <2>1. e[p].ptrs[0] = b0
    BY <1>1, <1>7 DEF b0, DirsIn
  <2>2. e[b0].kind = "dir" /\ e[b0].entries = [Entries(d, p) EXCEPT ![s] = ent]
    BY <1>5
  <2>3. Entries(e, p) = [Entries(d, p) EXCEPT ![s] = ent]
    BY <2>1, <2>2 DEF Entries
  <2> QED
    BY <1>2, <2>3
<1>9. \A i \in DirsIn(d, m) : i # p => Entries(e, i) = Entries(d, i)
  <2> SUFFICES ASSUME NEW i \in DirsIn(d, m), i # p PROVE Entries(e, i) = Entries(d, i)
    OBVIOUS
  <2>1. i \in LiveIn(d, m) /\ 0 \in DataIdx(d[i]) /\ d[i].ptrs[0] \in Blocks
    BY DirBlockOf DEF DirsIn
  <2>2. d[i].ptrs[0] # b0
    BY <2>1, DirBlocksDiffer DEF b0
  <2>3. e[i] = d[i] /\ e[d[i].ptrs[0]] = d[d[i].ptrs[0]]
    BY <1>5, <1>7, <2>1, <2>2
  <2> QED
    BY <2>3 DEF Entries
<1>10. OnlyEntry(d, m, e, p, s, ent)
  BY <1>1, <1>6, <1>7, <1>8, <1>9 DEF OnlyEntry
<1> QED
  BY <1>5, <1>6, <1>10 DEF e, b0

\* Blocks that the bitmap does not hold may be written freely.
LEMMA FreeBlocksWritten ==
    ASSUME NEW d, NEW m, Sound(d, m), NEW e \in [Blocks -> Content], \A b \in m : e[b] = d[b]
    PROVE  /\ Sound(e, m) /\ LiveIn(e, m) = LiveIn(d, m) /\ DirsIn(e, m) = DirsIn(d, m)
           /\ \A i \in DirsIn(d, m) : Entries(e, i) = Entries(d, i)
<1>1. \A i \in LiveIn(d, m) : e[i] = d[i]
  BY DEF LiveIn
<1>2. \A i \in DirsIn(d, m) : Entries(e, i) = Entries(d, i)
  <2> TAKE i \in DirsIn(d, m)
  <2>1. e[i] = d[i] /\ e[d[i].ptrs[0]] = d[d[i].ptrs[0]]
    BY <1>1, DirBlockOf DEF DirsIn
  <2> QED
    BY <2>1 DEF Entries
<1>3. \A i \in DirsIn(d, m) : Slot(e, i) = Slot(d, i) /\ \A s \in Slot(d, i) : To(e, i, s) = To(d, i, s)
  BY <1>2 DEF Slot, To
<1>4. LiveIn(e, m) = LiveIn(d, m) /\ DirsIn(e, m) = DirsIn(d, m)
  BY DEF LiveIn, DirsIn, IsInode
<1> QED
  BY <1>1, <1>2, <1>3, <1>4, SameShape

(***************************************************************************)
(* The four ways in which a call changes what is reached from the root,    *)
(* from an image d with the bitmap m to an image e: a new object of the    *)
(* blocks N and its entry, in slot s of directory p; an entry and the      *)
(* object it leads to, removed; an entry with a new name; a file with      *)
(* other blocks or bytes.                                                  *)
(***************************************************************************)
\* The blocks of an object: its inode and its data.
Freed(d, i) == {i} \cup DataBlocks(d[i])

Linking(d, m, e, p, s, ent, N) ==
    /\ p \in DirsIn(d, m) /\ s \in Slots \ Slot(d, p) /\ ent \in Entry
    /\ N \in SUBSET (Blocks \ m) /\ N = Freed(e, ent.inode)
    /\ e \in [Blocks -> Content] /\ OnlyEntry(d, m, e, p, s, ent)
    /\ \A b \in m : b # d[p].ptrs[0] => e[b] = d[b]
    /\ e[ent.inode].kind = "inode"
    /\ \A b \in N : b # ent.inode => e[b] = EmptyDir
    /\ \/ e[ent.inode].type = "file" /\ e[ent.inode].size = 0
       \/ /\ e[ent.inode].type = "dir" /\ e[ent.inode].size = BlockSize
          /\ e[ent.inode].ptrs[0] \in N \ {ent.inode}

Unlinking(d, m, e, p, s) ==
    /\ p \in DirsIn(d, m) /\ s \in Slot(d, p)
    /\ e = WithEntry(d, p, s, NoEntry)

Renaming(d, m, e, p, s, ent) ==
    /\ p \in DirsIn(d, m) /\ s \in Slot(d, p)
    /\ ent \in Entry /\ ent.inode = To(d, p, s)
    /\ e = WithEntry(d, p, s, ent)

Rewriting(d, m, e, u, i) ==
    /\ i \in LiveIn(d, m) /\ d[i].type = "file"
    /\ e \in [Blocks -> Content] /\ u = (m \ DataBlocks(d[i])) \cup DataBlocks(e[i])
    /\ e[i].kind = "inode" /\ e[i].type = "file" /\ BlocksFor(e[i].size) <= MaxPtrs
    /\ \A b \in m : b # i /\ b \notin DataBlocks(d[i]) => e[b] = d[b]
    /\ \A b \in DataBlocks(e[i]) : b \in Blocks /\ e[b].kind = "data"
    /\ \A b \in DataBlocks(e[i]) : b \in m => b \in DataBlocks(d[i])
    /\ \A k, l \in DataIdx(e[i]) : e[i].ptrs[k] = e[i].ptrs[l] => k = l

\* Nothing but the attributes of a live inode changes.
Retouching(d, m, e, i) ==
    /\ i \in LiveIn(d, m)
    /\ \E ino \in Inode : /\ e = [d EXCEPT ![i] = ino]
                          /\ ino.type = d[i].type /\ ino.size = d[i].size /\ ino.ptrs = d[i].ptrs

\* The inodes in use after a new object is linked: one more.
LEMMA LinkLive ==
    ASSUME NEW d, NEW m, Sound(d, m), NEW e, NEW p, NEW s, NEW ent, NEW N,
           Linking(d, m, e, p, s, ent, N)
    PROVE  LiveIn(e, m \cup N) = LiveIn(d, m) \cup {ent.inode}
<1>1. /\ N \in SUBSET (Blocks \ m) /\ N = Freed(e, ent.inode) /\ e[ent.inode].kind = "inode"
      /\ \A b \in N : b # ent.inode => e[b] = EmptyDir
      /\ \A b \in m : e[b].kind = d[b].kind
  BY DEF Linking, OnlyEntry
<1>2. \A b \in N : b # ent.inode => e[b].kind = "dir"
  BY <1>1 DEF EmptyDir
<1> QED
  BY <1>1, <1>2 DEF LiveIn, IsInode, Freed

\* The inode of a new object was not in use.
LEMMA LinkNew ==
    ASSUME NEW d, NEW m, Sound(d, m), NEW e, NEW p, NEW s, NEW ent, NEW N,
           Linking(d, m, e, p, s, ent, N)
    PROVE  ent.inode \notin LiveIn(d, m)
  BY DEF Linking, Freed, LiveIn

\* The directories in use afterwards: the new object is one of them if it is a directory.
LEMMA LinkDirs ==
    ASSUME NEW d, NEW m, Sound(d, m), NEW e, NEW p, NEW s, NEW ent, NEW N,
           Linking(d, m, e, p, s, ent, N)
    PROVE  DirsIn(e, m \cup N) = DirsIn(d, m) \cup
                                       (IF e[ent.inode].type = "dir" THEN {ent.inode} ELSE {})
<1>1. \A i \in LiveIn(d, m) : e[i] = d[i]
  BY DEF Linking, OnlyEntry
<1> QED
  BY <1>1, LinkLive DEF DirsIn

\* A new directory is empty.
LEMMA LinkEmpty ==
    ASSUME NEW d, NEW m, Sound(d, m), NEW e, NEW p, NEW s, NEW ent, NEW N,
           Linking(d, m, e, p, s, ent, N)
    PROVE  e[ent.inode].type = "dir" => Slot(e, ent.inode) = {}
<1> DEFINE n == ent.inode
<1> SUFFICES ASSUME e[n].type = "dir" PROVE Slot(e, n) = {}
  OBVIOUS
<1>1. e[e[n].ptrs[0]] = EmptyDir /\ e[e[n].ptrs[0]].kind = "dir"
  BY DEF Linking, EmptyDir
<1>2. Entries(e, n) = EmptyDir.entries
  BY <1>1 DEF Entries
<1>3. EmptyDir.entries = [t \in Slots |-> NoEntry]
  BY DEF EmptyDir
<1> QED
  BY <1>2, <1>3 DEF Slot

(***************************************************************************)
(* A new object: its inode and its other blocks come from the free ones,   *)
(* a free slot of a directory p leads to it, and it has no pointers of its *)
(* own but to the new blocks (create_directory_entry).                     *)
(***************************************************************************)
LEMMA LinkSound ==
    ASSUME NEW d, NEW m, Sound(d, m), NEW e, NEW p, NEW s, NEW ent, NEW N,
           Linking(d, m, e, p, s, ent, N)
    PROVE  Sound(e, m \cup N)
<1> DEFINE n == ent.inode
<1>a. /\ p \in DirsIn(d, m) /\ s \in Slots /\ s \notin Slot(d, p) /\ ent \in Entry
      /\ N \in SUBSET (Blocks \ m) /\ n \in N /\ e \in [Blocks -> Content]
      /\ OnlyEntry(d, m, e, p, s, ent) /\ e[n].kind = "inode"
      /\ \A b \in N : b # n => e[b] = EmptyDir
      /\ \/ e[n].type = "file" /\ e[n].size = 0
         \/ e[n].type = "dir" /\ e[n].size = BlockSize /\ e[n].ptrs[0] \in N \ {n}
      /\ n = ent.inode
  BY DEF Linking, Freed
<1> USE <1>a
<1> HIDE DEF n
<1>0. /\ \A b \in m : e[b].kind = d[b].kind
      /\ \A i \in LiveIn(d, m) : e[i] = d[i]
      /\ Entries(e, p)[s] = ent /\ \A t \in Slots : t # s => Entries(e, p)[t] = Entries(d, p)[t]
      /\ \A i \in DirsIn(d, m) : i # p => Entries(e, i) = Entries(d, i)
  BY DEF OnlyEntry
<1>1. Typed(d, m) /\ m \subseteq Blocks
  BY DEF Sound, Typed
<1>2. \A b \in N : b # n => e[b].kind = "dir"
  BY DEF EmptyDir
<1>3. LiveIn(e, m \cup N) = LiveIn(d, m) \cup {n}
  BY LinkLive DEF n
<1>4. DirsIn(e, m \cup N) = DirsIn(d, m) \cup (IF e[n].type = "dir" THEN {n} ELSE {})
  BY LinkDirs DEF n
<1>5. n \notin LiveIn(d, m)
  BY LinkNew DEF n
<1>6. /\ e[n].type = "file" => DataIdx(e[n]) = {}
      /\ e[n].type = "dir" => DataIdx(e[n]) = {0}
  BY BlocksForProperty DEF DataIdx
<1>7. e[n].type = "dir" => Slot(e, n) = {}
  BY LinkEmpty DEF n
<1>8. /\ Slot(e, p) = Slot(d, p) \cup {s} /\ To(e, p, s) = n
      /\ \A t \in Slot(d, p) : To(e, p, t) = To(d, p, t)
  <2>1. Entries(d, p) \in [Slots -> Entry \cup {NoEntry}]
    BY <1>1, DirBlockOf, EntriesType
  <2>2. ent # NoEntry
    BY LayoutAssumption
  <2> QED
    BY <1>0, <2>1, <2>2 DEF Slot, To
<1>9. \A i \in DirsIn(d, m) : i # p =>
         Slot(e, i) = Slot(d, i) /\ \A t \in Slot(d, i) : To(e, i, t) = To(d, i, t)
  BY <1>0 DEF Slot, To
<1>10. Typed(e, m \cup N) /\ ReservedIn(e, m \cup N)
  BY <1>0, <1>1 DEF Sound, Typed, ReservedIn
<1>11. InodesFit(e, m \cup N)
  <2> SUFFICES ASSUME NEW i \in LiveIn(d, m) \cup {n}
               PROVE  /\ BlocksFor(e[i].size) <= MaxPtrs
                      /\ e[i].type = "dir" => e[i].size = BlockSize
                      /\ \A k \in DataIdx(e[i]) :
                            /\ e[i].ptrs[k] \in m \cup N
                            /\ e[e[i].ptrs[k]].kind = IF e[i].type = "dir" THEN "dir" ELSE "data"
    BY <1>3 DEF InodesFit
  <2>1. CASE i = n
    BY <1>2, <1>6, <2>1, BlocksForProperty, LayoutAssumption
  <2>2. CASE i # n
    BY <1>0, <2>2 DEF Sound, InodesFit, DataIdx
  <2> QED
    BY <2>1, <2>2
<1>12. EntriesLive(e, m \cup N)
  <2>1. RootInode \in DirsIn(d, m) /\ n # RootInode
    BY <1>5 DEF Sound, EntriesLive, DirsIn
  <2>2. ASSUME NEW i \in DirsIn(d, m), NEW t \in Slot(e, i)
        PROVE  To(e, i, t) \in (LiveIn(d, m) \cup {n}) \ {RootInode}
    <3>1. CASE i = p /\ t = s
      BY <1>8, <2>1, <3>1
    <3>2. CASE ~(i = p /\ t = s)
      <4>1. t \in Slot(d, i) /\ To(e, i, t) = To(d, i, t)
        BY <1>8, <1>9, <2>2, <3>2
      <4> QED
        BY <4>1 DEF Sound, EntriesLive
    <3> QED
      BY <3>1, <3>2
  <2> QED
    BY <1>3, <1>4, <1>7, <2>1, <2>2 DEF EntriesLive
<1>13. PtrsDiffer(e, m \cup N)
  <2> SUFFICES ASSUME NEW i \in LiveIn(d, m) \cup {n}, NEW j \in LiveIn(d, m) \cup {n},
                      NEW k \in DataIdx(e[i]), NEW l \in DataIdx(e[j]),
                      e[i].ptrs[k] = e[j].ptrs[l]
               PROVE  i = j /\ k = l
    BY <1>3 DEF PtrsDiffer
  <2>1. \A x \in LiveIn(d, m) : \A y \in DataIdx(e[x]) : e[x].ptrs[y] \in m
    BY <1>0 DEF Sound, InodesFit
  <2>2. \A y \in DataIdx(e[n]) : e[n].ptrs[y] \notin m /\ y = 0
    BY <1>6
  <2>3. CASE i # n /\ j # n
    BY <1>0, <2>3 DEF Sound, PtrsDiffer
  <2> QED
    BY <2>1, <2>2, <2>3
<1>14. EntriesDiffer(e, m \cup N)
  <2> SUFFICES ASSUME NEW i \in DirsIn(d, m), NEW j \in DirsIn(d, m),
                      NEW t \in Slot(e, i), NEW u \in Slot(e, j), To(e, i, t) = To(e, j, u)
               PROVE  i = j /\ t = u
    BY <1>4, <1>7 DEF EntriesDiffer
  <2>1. \A x \in DirsIn(d, m) : \A y \in Slot(d, x) : To(d, x, y) # n
    BY <1>5 DEF Sound, EntriesLive
  <2>2. \A x \in DirsIn(d, m) : \A y \in Slot(e, x) :
           (x = p /\ y = s) \/ (y \in Slot(d, x) /\ To(e, x, y) = To(d, x, y))
    <3>1. \A y \in Slot(e, p) : y = s \/ (y \in Slot(d, p) /\ To(e, p, y) = To(d, p, y))
      BY <1>8
    <3>2. ASSUME NEW x \in DirsIn(d, m), x # p, NEW y \in Slot(e, x)
          PROVE  y \in Slot(d, x) /\ To(e, x, y) = To(d, x, y)
      BY <1>9, <3>2, Zenon
    <3> QED
      BY <3>1, <3>2, Zenon
  <2> QED
    BY <1>8, <2>1, <2>2 DEF Sound, EntriesDiffer
<1> QED
  BY <1>10, <1>11, <1>12, <1>13, <1>14 DEF Sound

(***************************************************************************)
(* A removed object: the entry (p, s) that leads to inode i is cleared and *)
(* i is freed with its data blocks (fs_unlink, fs_rmdir).  The entry is    *)
(* the only one, so nothing else leads to i.                               *)
(***************************************************************************)
LEMMA RemoveSound ==
    ASSUME NEW d, NEW m, Sound(d, m), NEW e, NEW p, NEW s, Unlinking(d, m, e, p, s)
    PROVE  LET i == To(d, p, s)
               u == m \ Freed(d, i)
           IN  /\ Sound(e, u) /\ i \in LiveIn(d, m) /\ OnlyEntry(d, m, e, p, s, NoEntry)
               /\ \A j : j \in LiveIn(e, u) <=> j \in LiveIn(d, m) /\ j # i
               /\ \A j : j \in DirsIn(e, u) <=> j \in DirsIn(d, m) /\ j # i
<1> DEFINE i == To(d, p, s)
           u == m \ ({i} \cup DataBlocks(d[i]))
<1>0. p \in DirsIn(d, m) /\ s \in Slot(d, p) /\ e = WithEntry(d, p, s, NoEntry)
  BY DEF Unlinking
<1>1. /\ e \in [Blocks -> Content]
      /\ \A b \in Blocks : e[b].kind = d[b].kind
      /\ \A j \in LiveIn(d, m) : e[j] = d[j]
      /\ Entries(e, p)[s] = NoEntry /\ \A t \in Slots : t # s => Entries(e, p)[t] = Entries(d, p)[t]
      /\ \A j \in DirsIn(d, m) : j # p => Entries(e, j) = Entries(d, j)
  <2>1. s \in Slots /\ NoEntry \in Entry \cup {NoEntry}
    BY <1>0 DEF Slot
  <2>2. /\ e \in [Blocks -> Content] /\ OnlyEntry(d, m, e, p, s, NoEntry)
        /\ \A b \in Blocks : e[b].kind = d[b].kind
    BY <1>0, <2>1, WithEntryEffect
  <2> QED
    BY <2>2 DEF OnlyEntry
<1>2. Typed(d, m) /\ m \subseteq Blocks /\ i \in LiveIn(d, m) /\ i # RootInode
  BY <1>0 DEF Sound, Typed, EntriesLive
<1>3. \A k \in DataIdx(d[i]) : d[i].ptrs[k] \in m /\ d[d[i].ptrs[k]].kind \in {"dir", "data"}
  BY <1>2 DEF Sound, InodesFit
<1> HIDE DEF i
<1>4. LiveIn(e, u) = LiveIn(d, m) \ {i}
  BY <1>1, <1>2, <1>3 DEF LiveIn, IsInode, DataBlocks
<1>5. DirsIn(e, u) = DirsIn(d, m) \ {i}
  BY <1>1, <1>4 DEF DirsIn
<1>6. /\ Slot(e, p) = Slot(d, p) \ {s}
      /\ \A t \in Slot(d, p) \ {s} : To(e, p, t) = To(d, p, t)
  <2>1. Entries(d, p) \in [Slots -> Entry \cup {NoEntry}]
    BY <1>0, <1>2, DirBlockOf, EntriesType
  <2> QED
    BY <1>0, <1>1, <2>1 DEF Slot, To
<1>7. \A j \in DirsIn(d, m) : j # p =>
         Slot(e, j) = Slot(d, j) /\ \A t \in Slot(d, j) : To(e, j, t) = To(d, j, t)
  BY <1>1 DEF Slot, To
<1>8. \A j \in DirsIn(d, m) : \A t \in Slot(e, j) :
         t \in Slot(d, j) /\ To(e, j, t) = To(d, j, t) /\ ~(j = p /\ t = s)
  BY <1>6, <1>7
<1>9. Typed(e, u) /\ ReservedIn(e, u)
  <2>1. SuperBlock \in m /\ BitmapBlock \in m
        /\ d[SuperBlock].kind = "super" /\ d[BitmapBlock].kind = "bitmap" /\ d[i].kind = "inode"
    BY <1>2 DEF Sound, ReservedIn, LiveIn, IsInode
  <2> QED
    BY <1>1, <1>2, <1>3, <2>1 DEF Typed, ReservedIn, DataBlocks
<1>10. InodesFit(e, u)
  <2> SUFFICES ASSUME NEW j \in LiveIn(d, m), j # i
               PROVE  /\ BlocksFor(e[j].size) <= MaxPtrs
                      /\ e[j].type = "dir" => e[j].size = BlockSize
                      /\ \A k \in DataIdx(e[j]) :
                            /\ e[j].ptrs[k] \in u
                            /\ e[e[j].ptrs[k]].kind = IF e[j].type = "dir" THEN "dir" ELSE "data"
    BY <1>4 DEF InodesFit
  <2>1. e[j] = d[j]
    BY <1>1
  <2>2. ASSUME NEW k \in DataIdx(d[j])
        PROVE  /\ d[j].ptrs[k] \in u
               /\ d[d[j].ptrs[k]].kind = IF d[j].type = "dir" THEN "dir" ELSE "data"
    <3>1. d[j].ptrs[k] \in m /\ d[d[j].ptrs[k]].kind = IF d[j].type = "dir" THEN "dir" ELSE "data"
      BY DEF Sound, InodesFit
    <3>2. d[j].ptrs[k] # i
      BY <1>2, <3>1 DEF LiveIn, IsInode
    <3>3. d[j].ptrs[k] \notin DataBlocks(d[i])
      BY <1>2 DEF DataBlocks, Sound, PtrsDiffer
    <3> QED
      BY <3>1, <3>2, <3>3
  <2> QED
    BY <1>1, <1>2, <2>1, <2>2 DEF Sound, InodesFit
<1>11. EntriesLive(e, u)
  <2>1. RootInode \in DirsIn(d, m) \ {i}
    BY <1>2 DEF Sound, EntriesLive
  <2>2. ASSUME NEW j \in DirsIn(d, m), NEW t \in Slot(e, j)
        PROVE  To(e, j, t) \in (LiveIn(d, m) \ {i}) \ {RootInode}
    <3>1. t \in Slot(d, j) /\ To(e, j, t) = To(d, j, t) /\ ~(j = p /\ t = s)
      BY <1>8, <2>2
    <3>2. To(d, j, t) # i
      BY <1>0, <3>1 DEF Sound, EntriesDiffer, i
    <3> QED
      BY <3>1, <3>2 DEF Sound, EntriesLive
  <2> QED
    BY <1>4, <1>5, <2>1, <2>2 DEF EntriesLive
<1>12. PtrsDiffer(e, u)
  BY <1>1, <1>4 DEF Sound, PtrsDiffer
<1>13. EntriesDiffer(e, u)
  BY <1>5, <1>8 DEF Sound, EntriesDiffer
<1>14. Sound(e, u)
  BY <1>9, <1>10, <1>11, <1>12, <1>13 DEF Sound
<1>15. OnlyEntry(d, m, e, p, s, NoEntry)
  BY <1>1, <1>2 DEF OnlyEntry
<1> QED
  BY <1>2, <1>4, <1>5, <1>14, <1>15 DEF i, Freed

(***************************************************************************)
(* A file of other blocks: inode i drops some of its data blocks or takes  *)
(* free ones, and its data blocks are rewritten (fs_truncate, fs_write).   *)
(***************************************************************************)
LEMMA FileSound ==
    ASSUME NEW d, NEW m, Sound(d, m), NEW i \in LiveIn(d, m), d[i].type = "file",
           NEW e \in [Blocks -> Content], NEW u, u = (m \ DataBlocks(d[i])) \cup DataBlocks(e[i]),
           e[i].kind = "inode", e[i].type = "file", BlocksFor(e[i].size) <= MaxPtrs,
           \A b \in m : b # i /\ b \notin DataBlocks(d[i]) => e[b] = d[b],
           \A b \in DataBlocks(e[i]) : b \in Blocks /\ e[b].kind = "data",
           \A b \in DataBlocks(e[i]) : b \in m => b \in DataBlocks(d[i]),
           \A k, l \in DataIdx(e[i]) : e[i].ptrs[k] = e[i].ptrs[l] => k = l
    PROVE  /\ Sound(e, u) /\ LiveIn(e, u) = LiveIn(d, m) /\ DirsIn(e, u) = DirsIn(d, m)
           /\ \A j \in LiveIn(d, m) : j # i =>
                 e[j] = d[j] /\ \A k \in DataIdx(d[j]) : e[d[j].ptrs[k]] = d[d[j].ptrs[k]]
           /\ \A j \in DirsIn(d, m) : Entries(e, j) = Entries(d, j)
<1>1. Typed(d, m) /\ m \subseteq Blocks /\ i \in m /\ d[i].kind = "inode"
  BY DEF Sound, Typed, LiveIn, IsInode
<1>2. \A b \in DataBlocks(d[i]) : b \in m /\ d[b].kind = "data"
  BY DEF Sound, InodesFit, DataBlocks
<1>3. i \notin DataBlocks(d[i]) /\ i \notin DataBlocks(e[i])
  BY <1>1, <1>2
<1>4. \A b \in u : \/ b \in m /\ b # i /\ e[b] = d[b] /\ b \notin DataBlocks(d[i])
                   \/ b = i
                   \/ b \in DataBlocks(e[i])
  BY <1>1
<1>5. LiveIn(e, u) = LiveIn(d, m)
  <2>1. ASSUME NEW b \in LiveIn(d, m) PROVE b \in LiveIn(e, u)
    BY <1>1, <1>2, <1>3, <2>1 DEF LiveIn, IsInode
  <2>2. ASSUME NEW b \in LiveIn(e, u) PROVE b \in LiveIn(d, m)
    BY <1>1, <1>4, <2>2 DEF LiveIn, IsInode
  <2> QED
    BY <2>1, <2>2
<1>6. \A j \in LiveIn(d, m) : j # i => e[j] = d[j]
  BY <1>2 DEF LiveIn, IsInode
<1>7. DirsIn(e, u) = DirsIn(d, m)
  BY <1>5, <1>6 DEF DirsIn
<1>8. \A j \in LiveIn(d, m) : j # i => \A k \in DataIdx(d[j]) :
         d[j].ptrs[k] \in u /\ e[d[j].ptrs[k]] = d[d[j].ptrs[k]] /\ d[j].ptrs[k] \notin DataBlocks(d[i])
  <2> SUFFICES ASSUME NEW j \in LiveIn(d, m), j # i, NEW k \in DataIdx(d[j])
               PROVE  /\ d[j].ptrs[k] \in u /\ e[d[j].ptrs[k]] = d[d[j].ptrs[k]]
                      /\ d[j].ptrs[k] \notin DataBlocks(d[i])
    OBVIOUS
  <2>1. d[j].ptrs[k] \in m /\ d[d[j].ptrs[k]].kind # "inode"
    BY DEF Sound, InodesFit
  <2>2. d[j].ptrs[k] \notin DataBlocks(d[i])
    BY DEF DataBlocks, Sound, PtrsDiffer
  <2> QED
    BY <1>1, <2>1, <2>2
<1>9. \A j \in DirsIn(d, m) : Entries(e, j) = Entries(d, j)
  <2> TAKE j \in DirsIn(d, m)
  <2>1. j \in LiveIn(d, m) /\ j # i /\ 0 \in DataIdx(d[j])
    BY DirBlockOf DEF DirsIn
  <2>2. e[j] = d[j] /\ e[d[j].ptrs[0]] = d[d[j].ptrs[0]]
    BY <1>6, <1>8, <2>1
  <2> QED
    BY <2>2 DEF Entries
<1>10. \A j \in DirsIn(d, m) : Slot(e, j) = Slot(d, j) /\ \A s \in Slot(d, j) : To(e, j, s) = To(d, j, s)
  BY <1>9 DEF Slot, To
<1>11. Typed(e, u) /\ ReservedIn(e, u)
  <2>1. SuperBlock \in m /\ BitmapBlock \in m
        /\ d[SuperBlock].kind = "super" /\ d[BitmapBlock].kind = "bitmap"
    BY DEF Sound, ReservedIn
  <2> QED
    BY <1>1, <1>2, <2>1 DEF Typed, ReservedIn
<1>12. InodesFit(e, u)
  <2> SUFFICES ASSUME NEW j \in LiveIn(d, m)
               PROVE  /\ BlocksFor(e[j].size) <= MaxPtrs
                      /\ e[j].type = "dir" => e[j].size = BlockSize
                      /\ \A k \in DataIdx(e[j]) :
                            /\ e[j].ptrs[k] \in u
                            /\ e[e[j].ptrs[k]].kind = IF e[j].type = "dir" THEN "dir" ELSE "data"
    BY <1>5 DEF InodesFit
  <2>1. CASE j = i
    <3>1. \A k \in DataIdx(e[i]) : e[i].ptrs[k] \in DataBlocks(e[i])
      BY DEF DataBlocks
    <3> QED
      BY <2>1, <3>1
  <2>2. CASE j # i
    <3>1. e[j] = d[j]
      BY <1>6, <2>2
    <3> QED
      BY <1>8, <2>2, <3>1 DEF Sound, InodesFit
  <2> QED
    BY <2>1, <2>2
<1>13. EntriesLive(e, u)
  <2>1. /\ RootInode \in DirsIn(d, m)
        /\ \A j \in DirsIn(d, m) : \A s \in Slot(d, j) : To(d, j, s) \in LiveIn(d, m) \ {RootInode}
    BY DEF Sound, EntriesLive
  <2>2. ASSUME NEW j \in DirsIn(d, m), NEW s \in Slot(e, j)
        PROVE  To(e, j, s) \in LiveIn(d, m) \ {RootInode}
    <3>1. s \in Slot(d, j) /\ To(e, j, s) = To(d, j, s)
      BY <1>10, <2>2
    <3> QED
      BY <2>1, <3>1
  <2> QED
    BY <1>5, <1>7, <2>1, <2>2 DEF EntriesLive
<1>14. PtrsDiffer(e, u)
  <2> SUFFICES ASSUME NEW j \in LiveIn(d, m), NEW h \in LiveIn(d, m),
                      NEW k \in DataIdx(e[j]), NEW l \in DataIdx(e[h]),
                      e[j].ptrs[k] = e[h].ptrs[l]
               PROVE  j = h /\ k = l
    BY <1>5 DEF PtrsDiffer
  <2>1. \A x \in LiveIn(d, m) : x # i => \A y \in DataIdx(e[x]) :
           e[x].ptrs[y] \in m /\ e[x].ptrs[y] \notin DataBlocks(d[i])
    BY <1>6, <1>8 DEF Sound, InodesFit
  <2>2. \A y \in DataIdx(e[i]) : e[i].ptrs[y] \in m => e[i].ptrs[y] \in DataBlocks(d[i])
    BY DEF DataBlocks
  <2>3. CASE j # i /\ h # i
    BY <1>6, <2>3 DEF Sound, PtrsDiffer
  <2>4. CASE j = i /\ h = i
    BY <2>4
  <2> QED
    BY <2>1, <2>2, <2>3, <2>4
<1>15. EntriesDiffer(e, u)
  BY <1>7, <1>10 DEF Sound, EntriesDiffer
<1> QED
  BY <1>5, <1>6, <1>7, <1>8, <1>9, <1>11, <1>12, <1>13, <1>14, <1>15 DEF Sound

\* The same, for what truncate and write do to their file.
LEMMA RewritingSound ==
    ASSUME NEW d, NEW m, Sound(d, m), NEW e, NEW u, NEW i, Rewriting(d, m, e, u, i)
    PROVE  /\ Sound(e, u) /\ LiveIn(e, u) = LiveIn(d, m) /\ DirsIn(e, u) = DirsIn(d, m)
           /\ \A j \in LiveIn(d, m) : j # i =>
                 e[j] = d[j] /\ \A k \in DataIdx(d[j]) : e[d[j].ptrs[k]] = d[d[j].ptrs[k]]
           /\ \A j \in DirsIn(d, m) : Entries(e, j) = Entries(d, j)
  BY FileSound, SMTT(60) DEF Rewriting

-----------------------------------------------------------------------------
(* Where paths lead                                                        *)

\* In a sound image a path leads to a live inode, or to one of two errors.
LEMMA ResolveLive ==
    ASSUME NEW d, NEW m, Sound(d, m), NEW q \in Seq(Names)
    PROVE  /\ Translate(d, q) \in LiveIn(d, m) \cup {ENOENT, ENOTDIR}
           /\ Translate(d, q) \in Int
           /\ Translate(d, q) >= 0 <=> Translate(d, q) \in LiveIn(d, m)
<1> DEFINE L == LiveIn(d, m) \cup {ENOENT, ENOTDIR}
<1>1. RootInode \in L
  BY DEF Sound, EntriesLive, DirsIn
<1>2. \A i \in LiveIn(d, m) : i \in Nat
  BY LayoutAssumption DEF LiveIn, Sound, Typed, Blocks
<1>3. ENOENT \in Int /\ ENOENT < 0 /\ ENOTDIR \in Int /\ ENOTDIR < 0
  BY DEF ENOENT, ENOTDIR
<1>4. ASSUME NEW i \in L, NEW name \in Names
      PROVE  Step(d, i, name) \in L
  <2>1. CASE i < 0
    BY <2>1, <1>4 DEF Step
  <2>2. CASE ~(i < 0) /\ ~IsDir(d, i)
    BY <2>2 DEF Step
  <2>3. CASE ~(i < 0) /\ IsDir(d, i) /\ Matches(d, i, name) = {}
    BY <2>3 DEF Step
  <2>4. CASE ~(i < 0) /\ IsDir(d, i) /\ Matches(d, i, name) # {}
    <3>1. i \in DirsIn(d, m)
      BY <1>3, <2>4 DEF DirsIn, IsDir
    <3>2. Min(Matches(d, i, name)) \in Matches(d, i, name)
      BY <2>4, SlotProperty
    <3>3. Matches(d, i, name) \subseteq Slot(d, i)
      BY <3>1, DirBlockOf, EntriesType DEF Matches, Sound
    <3>4. To(d, i, Min(Matches(d, i, name))) \in L
      BY <3>1, <3>2, <3>3 DEF Sound, EntriesLive
    <3> QED
      BY <2>4, <3>4 DEF Step, To
  <2> QED
    BY <2>1, <2>2, <2>3, <2>4
<1>5. Translate(d, q) \in L
  <2> HIDE DEF L
  <2> QED
    BY <1>1, <1>4, TranslateInvariant
<1> QED
  BY <1>2, <1>3, <1>5

\* A path below the root that leads to an inode does so through an entry of a live directory.
LEMMA ResolveEntry ==
    ASSUME NEW d, NEW m, Sound(d, m), NEW q \in Seq(Names), q # <<>>, Translate(d, q) >= 0
    PROVE  /\ TranslateParent(d, q) \in DirsIn(d, m)
           /\ Min(Matches(d, TranslateParent(d, q), Last(q))) \in Slot(d, TranslateParent(d, q))
           /\ Min(Matches(d, TranslateParent(d, q), Last(q))) \in Matches(d, TranslateParent(d, q), Last(q))
           /\ To(d, TranslateParent(d, q), Min(Matches(d, TranslateParent(d, q), Last(q)))) = Translate(d, q)
<1> DEFINE p == TranslateParent(d, q)
           s == Min(Matches(d, p, Last(q)))
<1>1. p = Translate(d, Front(q)) /\ Front(q) \in Seq(Names)
  <2>1. Front(q) \in Seq(Names)
    BY DEF Front
  <2> QED
    BY <2>1 DEF TranslateParent
<1>2. p \in LiveIn(d, m) \cup {ENOENT, ENOTDIR} /\ p \in Int /\ (p >= 0 <=> p \in LiveIn(d, m))
  BY <1>1, ResolveLive
<1>3. Translate(d, q) = Step(d, p, Last(q))
  BY <1>1, TranslateLast
<1> HIDE DEF p
<1>4. ENOENT < 0 /\ ENOTDIR < 0 /\ ENOENT \in Int /\ ENOTDIR \in Int
  BY DEF ENOENT, ENOTDIR
<1>5. ~(p < 0) /\ IsDir(d, p) /\ Matches(d, p, Last(q)) # {}
      /\ Translate(d, q) = Entries(d, p)[s].inode
  <2>1. CASE p < 0
    BY <1>2, <1>3, <2>1 DEF Step
  <2>2. CASE ~(p < 0) /\ ~IsDir(d, p)
    BY <1>3, <1>4, <2>2 DEF Step
  <2>3. CASE ~(p < 0) /\ IsDir(d, p) /\ Matches(d, p, Last(q)) = {}
    BY <1>3, <1>4, <2>3 DEF Step
  <2>4. CASE ~(p < 0) /\ IsDir(d, p) /\ Matches(d, p, Last(q)) # {}
    BY <1>3, <2>4 DEF Step
  <2> QED
    BY <2>1, <2>2, <2>3, <2>4
<1>6. p \in DirsIn(d, m)
  BY <1>2, <1>5 DEF DirsIn, IsDir
<1>7. s \in Slot(d, p) /\ s \in Matches(d, p, Last(q))
  <2>1. s \in Matches(d, p, Last(q))
    BY <1>5, SlotProperty
  <2>2. Slot(d, p) = UsedSlots(d, p)
    BY <1>6, DirBlockOf, EntriesType DEF Sound
  <2> QED
    BY <2>1, <2>2 DEF Matches
<1>8. To(d, p, s) = Translate(d, q)
  BY <1>5 DEF To
<1> QED
  BY <1>6, <1>7, <1>8 DEF p

(***************************************************************************)
(* Two paths never lead to one inode: the last entry of each would be the  *)
(* same, so that they end in one name, and their fronts lead to one        *)
(* directory.  By induction on the length of one of them.                  *)
(***************************************************************************)
LEMMA PathsDiffer ==
    ASSUME NEW d, NEW m, Sound(d, m)
    PROVE  \A q, r \in Seq(Names) : Translate(d, q) >= 0 /\ Translate(d, r) = Translate(d, q) => q = r
<1> DEFINE Same(x, y) == Translate(d, x) >= 0 /\ Translate(d, y) = Translate(d, x)
           S == {n \in Nat : \A x, y \in Seq(Names) : Len(x) = n /\ Same(x, y) => x = y}
<1>1. ASSUME NEW x \in Seq(Names), NEW y \in Seq(Names), x = <<>>, Same(x, y)
      PROVE  y = <<>>
  <2> SUFFICES ASSUME y # <<>> PROVE FALSE
    OBVIOUS
  <2>1. Translate(d, y) = RootInode /\ Translate(d, y) >= 0
    BY <1>1, TranslateRoot
  <2>2. \E p \in DirsIn(d, m) : \E s \in Slot(d, p) : To(d, p, s) = RootInode
    BY <2>1, ResolveEntry
  <2> QED
    BY <2>2 DEF Sound, EntriesLive
<1>2. 0 \in S
  <2> SUFFICES ASSUME NEW x \in Seq(Names), NEW y \in Seq(Names), Len(x) = 0, Same(x, y) PROVE x = y
    BY DEF S
  <2>1. x = <<>>
    OBVIOUS
  <2> QED
    BY <1>1, <2>1
<1>3. ASSUME NEW n \in Nat, n \in S PROVE n + 1 \in S
  <2> SUFFICES ASSUME NEW x \in Seq(Names), NEW y \in Seq(Names), Len(x) = n + 1, Same(x, y) PROVE x = y
    BY DEF S
  <2>1. x # <<>>
    OBVIOUS
  <2>2. y # <<>>
    <3>1. Same(y, x)
      OBVIOUS
    <3> QED
      BY <1>1, <2>1, <3>1
  <2> DEFINE px == TranslateParent(d, x)
             py == TranslateParent(d, y)
             sx == Min(Matches(d, px, Last(x)))
             sy == Min(Matches(d, py, Last(y)))
  <2>3. /\ px \in DirsIn(d, m) /\ sx \in Slot(d, px) /\ sx \in Matches(d, px, Last(x))
        /\ To(d, px, sx) = Translate(d, x)
    BY <2>1, ResolveEntry
  <2>4. /\ py \in DirsIn(d, m) /\ sy \in Slot(d, py) /\ sy \in Matches(d, py, Last(y))
        /\ To(d, py, sy) = Translate(d, y)
    BY <2>2, ResolveEntry
  <2>5. px = Translate(d, Front(x)) /\ py = Translate(d, Front(y))
    BY <2>1, <2>2 DEF TranslateParent
  <2> HIDE DEF px, py, sx, sy
  <2>6. px = py /\ sx = sy
    BY <2>3, <2>4 DEF Sound, EntriesDiffer
  <2>7. Last(x) = Last(y)
    BY <2>3, <2>4, <2>6 DEF Matches
  <2>8. /\ Front(x) \in Seq(Names) /\ Len(Front(x)) = n /\ x = Append(Front(x), Last(x))
        /\ Front(y) \in Seq(Names) /\ y = Append(Front(y), Last(y))
    BY <2>1, <2>2, FrontLast, SMTT(60)
  <2>9. Same(Front(x), Front(y))
    <3>1. px \in LiveIn(d, m) /\ px \in Nat
      BY <2>3, LayoutAssumption DEF DirsIn, LiveIn, Sound, Typed, Blocks
    <3> QED
      BY <2>5, <2>6, <3>1
  <2>10. Front(x) = Front(y)
    BY <1>3, <2>8, <2>9 DEF S
  <2> QED
    BY <2>7, <2>8, <2>10
<1>4. \A n \in Nat : n \in S
  <2> HIDE DEF S
  <2> QED
    BY <1>2, <1>3, InductionOnSet
<1> QED
  <2> SUFFICES ASSUME NEW q \in Seq(Names), NEW r \in Seq(Names), Same(q, r) PROVE q = r
    OBVIOUS
  <2>1. Len(q) \in S
    BY <1>4
  <2> QED
    BY <2>1

\* So an object is never its own directory: removing it leaves its parent in place.
LEMMA ParentDiffers ==
    ASSUME NEW d, NEW m, Sound(d, m), NEW q \in Seq(Names), q # <<>>, Translate(d, q) >= 0
    PROVE  TranslateParent(d, q) # Translate(d, q)
<1> SUFFICES ASSUME Translate(d, Front(q)) = Translate(d, q) PROVE FALSE
  BY DEF TranslateParent
<1>1. Front(q) \in Seq(Names) /\ Len(Front(q)) = Len(q) - 1 /\ Len(q) \in Nat
  BY FrontLast
<1>2. Front(q) = q
  BY <1>1, PathsDiffer
<1> QED
  BY <1>1, <1>2

-----------------------------------------------------------------------------
(* The handlers: each step of the specification preserves the invariant    *)

\* IInv, split the way the handlers need it (SoundIsIInv).
SoundState == Sound(disk, bitmap) /\ WrittenBack /\ CountersOK /\ ReplyOK

\* The invariant in the next state, by its parts.
LEMMA SoundStateNext == SoundState' <=> Sound(disk', bitmap') /\ WrittenBack' /\ CountersOK' /\ ReplyOK'
  BY DEF SoundState

\* A reply without data.
LEMMA ReplyTyped ==
    ASSUME NEW op \in Handlers, NEW path \in Seq(Names), NEW ret \in Int, Reply(op, path, ret)
    PROVE  ReplyOK'
  BY DEF Reply, ReplyOK

\* A call that returns early changes nothing but the reply.
LEMMA FailKeeps ==
    ASSUME SoundState, NEW op \in Handlers, NEW path \in Seq(Names), NEW err \in Int, Fail(op, path, err)
    PROVE  SoundState'
<1>1. ReplyOK'
  BY ReplyTyped DEF Fail
<1>2. disk' = disk /\ bitmap' = bitmap /\ statVfs' = statVfs
  BY DEF Fail
<1>3. Sound(disk', bitmap') /\ WrittenBack' /\ CountersOK'
  BY <1>2 DEF SoundState, WrittenBack, CountersOK
<1> QED
  BY <1>1, <1>3, SoundStateNext

\* A call that only replies.
LEMMA LookKeeps ==
    ASSUME SoundState, NEW op \in Handlers, NEW path \in Seq(Names), NEW ret \in Int,
           Done(op, path, ret), UNCHANGED <<disk, bitmap, statVfs>>
    PROVE  SoundState'
<1>1. ReplyOK'
  BY ReplyTyped DEF Done
<1>2. disk' = disk /\ bitmap' = bitmap /\ statVfs' = statVfs
  OBVIOUS
<1>3. Sound(disk', bitmap') /\ WrittenBack' /\ CountersOK'
  BY <1>2 DEF SoundState, WrittenBack, CountersOK
<1> QED
  BY <1>1, <1>3, SoundStateNext

\* A bitmap saved with a sound image of it: memory and disk agree again.
LEMMA SaveSound ==
    ASSUME NEW image, NEW used, Sound(image, used), SaveBitmap(image, used)
    PROVE  Sound(disk', bitmap') /\ WrittenBack'
<1>1. used \in SUBSET Blocks /\ BitmapBlock \in Blocks /\ image \in [Blocks -> Content]
  BY LayoutAssumption DEF Sound, Typed, Blocks, BitmapBlock
<1>2. bitmap' = used /\ disk' = [image EXCEPT ![BitmapBlock] = [kind |-> "bitmap", used |-> used]]
  BY DEF SaveBitmap
<1>3. Sound(disk', bitmap')
  BY <1>1, <1>2, BitmapSaved
<1>4. WrittenBack'
  BY <1>1, <1>2 DEF WrittenBack
<1> QED
  BY <1>3, <1>4

(***************************************************************************)
(* What a call leaves on the disk: this image, but for the block of the    *)
(* bitmap, which holds the bitmap.                                         *)
(***************************************************************************)
Leaves(image) ==
    /\ image \in [Blocks -> Content]
    /\ disk' = [image EXCEPT ![BitmapBlock] = [kind |-> "bitmap", used |-> bitmap']]

\* The calls that save the bitmap leave the image they saved it with.
LEMMA SaveLeaves ==
    ASSUME NEW image \in [Blocks -> Content], NEW used, SaveBitmap(image, used)
    PROVE  Leaves(image) /\ bitmap' = used
  BY DEF SaveBitmap, Leaves

\* So do those that change neither the bitmap nor its block, because it was saved before.
LEMMA UnsavedLeaves ==
    ASSUME SoundState, NEW image \in [Blocks -> Content], image[BitmapBlock] = disk[BitmapBlock],
           disk' = image, bitmap' = bitmap
    PROVE  Leaves(image)
<1>1. /\ disk[BitmapBlock] \in Content /\ disk[BitmapBlock].kind = "bitmap"
      /\ bitmap = disk[BitmapBlock].used /\ BitmapBlock \in Blocks
  BY LayoutAssumption DEF SoundState, WrittenBack, Sound, Typed, ReservedIn, Blocks, BitmapBlock
<1>2. disk[BitmapBlock] = [kind |-> "bitmap", used |-> bitmap]
  BY <1>1, ContentKinds DEF Bitmap
<1>3. image[BitmapBlock] = [kind |-> "bitmap", used |-> bitmap']
  BY <1>2
<1>4. image = [image EXCEPT ![BitmapBlock] = [kind |-> "bitmap", used |-> bitmap']]
  BY <1>1, <1>3
<1> QED
  BY <1>4 DEF Leaves

\* If the image is sound, so is what is left on disk, and memory and disk agree.
LEMMA LeavesSound ==
    ASSUME NEW image, NEW used, Sound(image, used), Leaves(image), bitmap' = used
    PROVE  Sound(disk', bitmap') /\ WrittenBack'
<1>1. SaveBitmap(image, used)
  BY DEF Leaves, SaveBitmap
<1> QED
  BY <1>1, SaveSound

\* What is reached from the root is as in the image.
LEMMA LeavesSame ==
    ASSUME NEW image, NEW used, Sound(image, used), Leaves(image), bitmap' = used
    PROVE  /\ \A b \in Blocks : b # BitmapBlock => disk'[b] = image[b]
           /\ LiveIn(disk', bitmap') = LiveIn(image, used)
           /\ DirsIn(disk', bitmap') = DirsIn(image, used)
           /\ \A i \in LiveIn(image, used) : disk'[i] = image[i]
           /\ \A i \in LiveIn(image, used) : \A k \in DataIdx(image[i]) :
                 disk'[image[i].ptrs[k]] = image[image[i].ptrs[k]]
           /\ \A i \in DirsIn(image, used) : Entries(disk', i) = Entries(image, i)
<1>1. /\ BitmapBlock \in Blocks /\ image[BitmapBlock].kind = "bitmap" /\ BitmapBlock \in used
      /\ used \subseteq Blocks /\ image \in [Blocks -> Content]
  BY LayoutAssumption DEF Sound, Typed, ReservedIn, Blocks, BitmapBlock
<1>2. /\ \A b \in Blocks : b # BitmapBlock => disk'[b] = image[b]
      /\ disk'[BitmapBlock].kind = "bitmap"
  BY <1>1 DEF Leaves
<1>3. LiveIn(disk', bitmap') = LiveIn(image, used)
  BY <1>1, <1>2 DEF LiveIn, IsInode
<1>4. \A i \in LiveIn(image, used) : disk'[i] = image[i] /\ i \in Blocks
  BY <1>1, <1>2 DEF LiveIn, IsInode
<1>5. DirsIn(disk', bitmap') = DirsIn(image, used)
  BY <1>3, <1>4 DEF DirsIn
<1>6. \A i \in LiveIn(image, used) : \A k \in DataIdx(image[i]) :
         disk'[image[i].ptrs[k]] = image[image[i].ptrs[k]]
  <2> SUFFICES ASSUME NEW i \in LiveIn(image, used), NEW k \in DataIdx(image[i])
               PROVE  disk'[image[i].ptrs[k]] = image[image[i].ptrs[k]]
    OBVIOUS
  <2>1. image[i].ptrs[k] \in Blocks /\ image[image[i].ptrs[k]].kind \in {"dir", "data"}
    BY <1>1 DEF Sound, InodesFit
  <2> QED
    BY <1>1, <1>2, <2>1
<1>7. \A i \in DirsIn(image, used) : Entries(disk', i) = Entries(image, i)
  <2> TAKE i \in DirsIn(image, used)
  <2>1. i \in LiveIn(image, used) /\ 0 \in DataIdx(image[i])
    BY DirBlockOf DEF DirsIn
  <2>2. disk'[i] = image[i] /\ disk'[image[i].ptrs[0]] = image[image[i].ptrs[0]]
    BY <1>4, <1>6, <2>1
  <2> QED
    BY <2>2 DEF Entries
<1> QED
  BY <1>2, <1>3, <1>4, <1>5, <1>6, <1>7

\* A live inode is an inode, with a size and pointers.
LEMMA LiveInode ==
    ASSUME NEW d, NEW m, Sound(d, m), NEW i \in LiveIn(d, m)
    PROVE  /\ d[i] \in Inode /\ d[i].size \in Nat /\ BlocksFor(d[i].size) \in Nat
           /\ BlocksFor(d[i].size) <= MaxPtrs
           /\ i \in m /\ i \in Blocks /\ d[i].kind = "inode"
<1>1. d[i] \in Content /\ d[i].kind = "inode" /\ i \in m /\ i \in Blocks
  BY DEF Sound, Typed, LiveIn, IsInode
<1>2. d[i] \in Inode /\ d[i].size \in Nat
  BY <1>1, ContentKinds DEF Inode
<1> QED
  BY <1>1, <1>2, BlocksForProperty DEF Sound, InodesFit

\* The two counters, moved by a whole number.
LEMMA AddFreeTyped ==
    ASSUME CountersOK, NEW n \in Int, AddFree(n)
    PROVE  CountersOK'
  BY DEF CountersOK, AddFree

\* What the client passes.
LEMMA PathTyped ==
    ASSUME NEW path \in Paths
    PROVE  path \in Seq(Names) /\ Parse(path) \in Seq(Names)
  BY ClientAssumption, ParseProperty

\* Where a path of the client leads, and its error when it leads nowhere.
LEMMA ResolvePath ==
    ASSUME SoundState, NEW path \in Seq(Names)
    PROVE  /\ Resolve(path) \in Int /\ ResolveFile(path) \in Int
           /\ Resolve(path) >= 0 => Resolve(path) \in LiveIn(disk, bitmap)
           /\ ResolveFile(path) >= 0 =>
                 ResolveFile(path) \in LiveIn(disk, bitmap) /\ disk[ResolveFile(path)].type = "file"
<1>1. Parse(path) \in Seq(Names)
  BY ParseProperty
<1>2. /\ Resolve(path) \in Int
      /\ Resolve(path) >= 0 => Resolve(path) \in LiveIn(disk, bitmap)
  BY <1>1, ResolveLive DEF Resolve, SoundState
<1>3. ResolveFile(path) = IF Resolve(path) >= 0 /\ ~IsFile(disk, Resolve(path)) THEN EISDIR ELSE Resolve(path)
  BY DEF ResolveFile
<1> QED
  BY <1>2, <1>3 DEF IsFile, EISDIR

\* Where its parent is, and the entry that leads to it.
LEMMA ResolveBelow ==
    ASSUME SoundState, NEW path \in Seq(Names), path # <<>>
    PROVE  /\ Leaf(path) \in Names
           /\ ResolveParent(path) \in Int
           /\ ResolveParent(path) >= 0 => ResolveParent(path) \in LiveIn(disk, bitmap)
           /\ Resolve(path) >= 0 =>
                 /\ ResolveParent(path) \in DirsIn(disk, bitmap)
                 /\ Min(Matches(disk, ResolveParent(path), Leaf(path))) \in Slot(disk, ResolveParent(path))
                 /\ To(disk, ResolveParent(path), Min(Matches(disk, ResolveParent(path), Leaf(path)))) = Resolve(path)
                 /\ ResolveParent(path) # Resolve(path)
<1>1. Parse(path) \in Seq(Names) /\ Parse(path) # <<>> /\ Leaf(path) \in Names
  BY ParseProperty DEF Leaf
<1>2. Front(Parse(path)) \in Seq(Names) /\ ResolveParent(path) = Translate(disk, Front(Parse(path)))
  <2>1. Front(Parse(path)) \in Seq(Names)
    BY <1>1 DEF Front
  <2> QED
    BY <1>1, <2>1 DEF ResolveParent, TranslateParent
<1>3. /\ ResolveParent(path) \in Int
      /\ ResolveParent(path) >= 0 => ResolveParent(path) \in LiveIn(disk, bitmap)
  BY <1>2, ResolveLive DEF SoundState
<1> QED
  BY <1>1, <1>3, ResolveEntry, ParentDiffers DEF SoundState, Resolve, ResolveParent, Leaf

\* When create and mkdir go through, the parent is a live directory with a free slot.
LEMMA CreateGranted ==
    ASSUME SoundState, NEW path \in Seq(Names), path # <<>>, NEW n \in Int
    PROVE  /\ CreateStatus(path, n) \in Int
           /\ CreateStatus(path, n) = OK =>
                 /\ ResolveParent(path) \in DirsIn(disk, bitmap)
                 /\ Min(FreeSlots(disk, ResolveParent(path))) \in Slots \ Slot(disk, ResolveParent(path))
<1> DEFINE p == ResolveParent(path)
<1>1. p \in Int /\ (p >= 0 => p \in LiveIn(disk, bitmap))
  BY ResolveBelow
<1> HIDE DEF p
<1>2. CreateStatus(path, n) =
         IF p < 0 THEN p
         ELSE IF ~IsDir(disk, p) THEN ENOTDIR
         ELSE IF Matches(disk, p, Leaf(path)) # {} THEN EEXIST
         ELSE IF FreeSlots(disk, p) = {} THEN ENOSPC
         ELSE IF FirstFree(bitmap, n) = {} THEN ENOSPC
         ELSE OK
  BY DEF CreateStatus, p
<1>3. ENOTDIR \in Int /\ EEXIST \in Int /\ ENOSPC \in Int /\ OK \in Int
      /\ ENOTDIR # OK /\ EEXIST # OK /\ ENOSPC # OK /\ OK = 0
  BY DEF ENOTDIR, EEXIST, ENOSPC, OK
<1>4. CreateStatus(path, n) \in Int
  BY <1>1, <1>2, <1>3
<1>5. ASSUME CreateStatus(path, n) = OK
      PROVE  p \in DirsIn(disk, bitmap) /\ Min(FreeSlots(disk, p)) \in Slots \ Slot(disk, p)
  <2>1. ~(p < 0) /\ IsDir(disk, p) /\ FreeSlots(disk, p) # {}
    BY <1>1, <1>2, <1>3, <1>5
  <2>2. p \in DirsIn(disk, bitmap)
    BY <1>1, <2>1 DEF DirsIn, IsDir
  <2>3. Min(FreeSlots(disk, p)) \in FreeSlots(disk, p)
    BY <2>1, SlotProperty
  <2> QED
    BY <2>2, <2>3 DEF FreeSlots, Slot
<1> QED
  BY <1>4, <1>5 DEF p

\* The image after the inode and its entry are written.
LEMMA LinkedEffect ==
    ASSUME SoundState, NEW path \in Seq(Names), path # <<>>, NEW k \in Int, CreateStatus(path, k) = OK,
           NEW n \in Blocks \ bitmap, NEW ino \in Inode
    PROVE  LET p   == ResolveParent(path)
               s   == Min(FreeSlots(disk, p))
               ent == [name |-> Leaf(path), inode |-> n]
               e   == Linked(path, n, ino)
           IN  /\ e \in [Blocks -> Content] /\ e[n] = ino
               /\ p \in DirsIn(disk, bitmap) /\ s \in Slots \ Slot(disk, p)
               /\ ent \in Entry
               /\ OnlyEntry(disk, bitmap, e, p, s, ent)
               /\ \A b \in bitmap : b # disk[p].ptrs[0] => e[b] = disk[b]
<1> DEFINE p == ResolveParent(path)
           s == Min(FreeSlots(disk, p))
           c == [disk EXCEPT ![n] = ino]
           ent == [name |-> Leaf(path), inode |-> n]
           e == Linked(path, n, ino)
<1>1. disk \in [Blocks -> Content] /\ bitmap \subseteq Blocks /\ Sound(disk, bitmap)
  BY DEF SoundState, Sound, Typed
<1>2. c \in [Blocks -> Content] /\ c[n] = ino /\ \A b \in Blocks : b # n => c[b] = disk[b]
  BY <1>1 DEF Content
<1>3. p \in DirsIn(disk, bitmap) /\ s \in Slots /\ s \notin Slot(disk, p)
  BY CreateGranted
<1>4. ent \in Entry /\ ent.inode = n
  BY ResolveBelow DEF Entry
<1>5. e = WithEntry(c, p, s, ent)
  BY DEF Linked
<1> HIDE DEF p, s, c, ent, e
<1>6. \A b \in bitmap : c[b] = disk[b]
  BY <1>1, <1>2
<1>7. /\ Sound(c, bitmap) /\ LiveIn(c, bitmap) = LiveIn(disk, bitmap)
      /\ DirsIn(c, bitmap) = DirsIn(disk, bitmap)
      /\ \A i \in DirsIn(disk, bitmap) : Entries(c, i) = Entries(disk, i)
  BY <1>1, <1>2, <1>6, FreeBlocksWritten
<1>8. /\ e \in [Blocks -> Content] /\ OnlyEntry(c, bitmap, e, p, s, ent)
      /\ \A b \in Blocks : b # c[p].ptrs[0] => e[b] = c[b]
  BY <1>3, <1>4, <1>5, <1>7, WithEntryEffect
<1>9. c[p].ptrs[0] \in bitmap /\ c[p].ptrs[0] = disk[p].ptrs[0]
  BY <1>1, <1>3, <1>6, <1>7, DirBlockOf DEF DirsIn, LiveIn
<1>10. e[n] = ino
  BY <1>2, <1>8, <1>9
<1>11. OnlyEntry(disk, bitmap, e, p, s, ent)
  BY <1>1, <1>3, <1>6, <1>7, <1>8 DEF OnlyEntry, LiveIn
<1>12. \A b \in bitmap : b # disk[p].ptrs[0] => e[b] = disk[b]
  BY <1>1, <1>6, <1>8, <1>9
<1> QED
  BY <1>3, <1>4, <1>8, <1>10, <1>11, <1>12 DEF p, s, ent, e

\* The inodes that inode_from_mode makes.
LEMMA NewInodeTyped ==
    ASSUME NEW type \in {"file", "dir"}, NEW perm \in Perms, NEW now \in Times, NEW b \in Blocks
    PROVE  /\ NewInode(type, perm, now, b) \in Inode
           /\ NewInode(type, perm, now, b).kind = "inode"
           /\ NewInode(type, perm, now, b).type = type
           /\ NewInode(type, perm, now, b).size = IF type = "dir" THEN BlockSize ELSE 0
           /\ NewInode(type, perm, now, b).ptrs[0] = b
  BY LayoutAssumption DEF NewInode, Inode, PtrIdx, Blocks

\* What a create that goes through does (fs_create).
LEMMA CreateEffect ==
    ASSUME SoundState, NEW path \in Seq(Names), path # <<>>, NEW perm \in Perms, NEW now \in Times,
           Create(path, perm, now), ~Fail("create", path, CreateStatus(path, 1))
    PROVE  /\ CreateStatus(path, 1) = OK /\ AddFree(-1) /\ Done("create", path, OK)
           /\ \E image, s, n :
                 /\ Leaves(image) /\ bitmap' = bitmap \cup {n}
                 /\ Linking(disk, bitmap, image, ResolveParent(path), s,
                            [name |-> Leaf(path), inode |-> n], {n})
                 /\ image[n] = NewInode("file", perm, now, 0)
<1> DEFINE ino == NewInode("file", perm, now, 0)
<1>1. CreateStatus(path, 1) = OK /\ AddFree(-1) /\ Done("create", path, OK)
  BY DEF Create
<1>2. PICK new \in FirstFree(bitmap, 1) : SaveBitmap(Linked(path, new[1], ino), bitmap \cup {new[1]})
  BY DEF Create
<1>3. new[1] \in Blocks \ bitmap
  BY <1>2, FirstFreeProperty
<1> DEFINE n == new[1]
           e == Linked(path, n, ino)
           p == ResolveParent(path)
           s == Min(FreeSlots(disk, p))
           ent == [name |-> Leaf(path), inode |-> n]
<1>4. ino \in Inode /\ ino.kind = "inode" /\ ino.type = "file" /\ ino.size = 0
  <2>1. 0 \in Blocks
    BY LayoutAssumption DEF Blocks
  <2> QED
    BY <2>1, NewInodeTyped
<1> HIDE DEF ino
<1>5. /\ e \in [Blocks -> Content] /\ e[n] = ino
      /\ p \in DirsIn(disk, bitmap) /\ s \in Slots \ Slot(disk, p)
      /\ ent \in Entry
      /\ OnlyEntry(disk, bitmap, e, p, s, ent)
      /\ \A b \in bitmap : b # disk[p].ptrs[0] => e[b] = disk[b]
  BY <1>1, <1>3, <1>4, LinkedEffect
<1>6. ent.inode = n
  OBVIOUS
<1> HIDE DEF n, e, p, s, ent
<1>7. Linking(disk, bitmap, e, p, s, ent, {n})
  <2>1. {n} \in SUBSET (Blocks \ bitmap) /\ \A b \in {n} : b # n => e[b] = EmptyDir
    BY <1>3 DEF n
  <2>2. {n} = Freed(e, n)
    BY <1>4, <1>5, BlocksForProperty DEF Freed, DataBlocks, DataIdx
  <2> QED
    BY <1>4, <1>5, <1>6, <2>1, <2>2 DEF Linking
<1>8. Leaves(e) /\ bitmap' = bitmap \cup {n}
  BY <1>2, <1>5, SaveLeaves DEF n, e
<1> QED
  BY <1>1, <1>5, <1>7, <1>8 DEF p, ent, ino

\* create keeps the invariant (fs_create).
LEMMA CreateKeeps ==
    ASSUME SoundState, NEW path \in Seq(Names), path # <<>>, NEW perm \in Perms, NEW now \in Times,
           Create(path, perm, now)
    PROVE  SoundState'
<1>1. CASE Fail("create", path, CreateStatus(path, 1))
  BY <1>1, CreateGranted, FailKeeps DEF Handlers
<1>2. CASE ~Fail("create", path, CreateStatus(path, 1))
  <2>1. Sound(disk', bitmap') /\ WrittenBack'
    <3>1. PICK image, s, n :
             /\ Leaves(image) /\ bitmap' = bitmap \cup {n}
             /\ Linking(disk, bitmap, image, ResolveParent(path), s,
                        [name |-> Leaf(path), inode |-> n], {n})
      BY <1>2, CreateEffect
    <3>2. Sound(image, bitmap \cup {n})
      BY <3>1, LinkSound DEF SoundState
    <3> QED
      BY <3>1, <3>2, LeavesSound
  <2>2. AddFree(-1) /\ Done("create", path, OK)
    BY <1>2, CreateEffect
  <2>3. CountersOK' /\ ReplyOK'
    BY <2>2, AddFreeTyped, ReplyTyped DEF SoundState, Done, Handlers, OK
  <2> QED
    BY <2>1, <2>3, SoundStateNext
<1> QED
  BY <1>1, <1>2

\* What a mkdir that goes through does: two blocks, the directory's inode and its entries (fs_mkdir).
LEMMA MkdirEffect ==
    ASSUME SoundState, NEW path \in Seq(Names), path # <<>>, NEW perm \in Perms, NEW now \in Times,
           Mkdir(path, perm, now), ~Fail("mkdir", path, CreateStatus(path, 2))
    PROVE  /\ CreateStatus(path, 2) = OK /\ AddFree(-2) /\ Done("mkdir", path, OK)
           /\ \E image, s, n, b2 :
                 /\ n # b2 /\ Leaves(image) /\ bitmap' = bitmap \cup {n, b2}
                 /\ Linking(disk, bitmap, image, ResolveParent(path), s,
                            [name |-> Leaf(path), inode |-> n], {n, b2})
                 /\ image[n] = NewInode("dir", perm, now, b2)
<1>1. CreateStatus(path, 2) = OK /\ AddFree(-2) /\ Done("mkdir", path, OK)
  BY DEF Mkdir
<1>2. PICK new \in FirstFree(bitmap, 2) :
         SaveBitmap([Linked(path, new[1], NewInode("dir", perm, now, new[2])) EXCEPT ![new[2]] = EmptyDir],
                    bitmap \cup {new[1], new[2]})
  BY DEF Mkdir
<1>3. new[1] \in Blocks \ bitmap /\ new[2] \in Blocks \ bitmap /\ new[1] # new[2]
  BY <1>2, FirstFreeProperty
<1> DEFINE n == new[1]
           b2 == new[2]
           ino == NewInode("dir", perm, now, b2)
           c == Linked(path, n, ino)
           e == [c EXCEPT ![b2] = EmptyDir]
           p == ResolveParent(path)
           s == Min(FreeSlots(disk, p))
           ent == [name |-> Leaf(path), inode |-> n]
<1>4. /\ ino \in Inode /\ ino.kind = "inode" /\ ino.type = "dir" /\ ino.size = BlockSize
      /\ ino.ptrs[0] = b2
  BY <1>3, NewInodeTyped
<1> HIDE DEF ino
<1>5. /\ c \in [Blocks -> Content] /\ c[n] = ino
      /\ p \in DirsIn(disk, bitmap) /\ s \in Slots \ Slot(disk, p)
      /\ ent \in Entry
      /\ OnlyEntry(disk, bitmap, c, p, s, ent)
      /\ \A b \in bitmap : b # disk[p].ptrs[0] => c[b] = disk[b]
  BY <1>1, <1>3, <1>4, LinkedEffect
<1>6. ent.inode = n
  OBVIOUS
<1> HIDE DEF n, b2, c, p, s, ent
<1>7. EmptyDir \in Content /\ EmptyDir.kind = "dir"
  BY DEF EmptyDir, Content, DirBlock
<1>8. /\ e \in [Blocks -> Content] /\ e[b2] = EmptyDir
      /\ \A b \in Blocks : b # b2 => e[b] = c[b]
  BY <1>3, <1>5, <1>7 DEF b2
<1>9. Leaves(e) /\ bitmap' = bitmap \cup {n, b2}
  BY <1>2, <1>8, SaveLeaves DEF n, b2, c, e, ino
<1> HIDE DEF e
<1>10. bitmap \subseteq Blocks /\ b2 \notin bitmap /\ n # b2 /\ n \in Blocks
  BY <1>3 DEF b2, n, SoundState, Sound, Typed
<1>11. e[n] = ino /\ \A b \in bitmap : e[b] = c[b]
  BY <1>5, <1>8, <1>10
<1>12. \A i \in DirsIn(disk, bitmap) : Entries(e, i) = Entries(c, i)
  <2> TAKE i \in DirsIn(disk, bitmap)
  <2>1. disk[i].ptrs[0] \in bitmap /\ i \in bitmap
    BY DirBlockOf DEF SoundState, DirsIn, LiveIn
  <2>2. c[i] = disk[i] /\ e[i] = c[i]
    BY <1>5, <1>11, <2>1 DEF DirsIn, OnlyEntry
  <2>3. e[disk[i].ptrs[0]] = c[disk[i].ptrs[0]]
    BY <1>11, <2>1
  <2> QED
    BY <2>2, <2>3 DEF Entries
<1>13. OnlyEntry(disk, bitmap, e, p, s, ent)
  BY <1>5, <1>11, <1>12 DEF OnlyEntry, LiveIn
<1>14. Linking(disk, bitmap, e, p, s, ent, {n, b2})
  <2>1. {n, b2} \in SUBSET (Blocks \ bitmap) /\ b2 \in {n, b2} \ {n}
        /\ \A b \in {n, b2} : b # n => e[b] = EmptyDir
    BY <1>3, <1>8 DEF n, b2
  <2>2. e[n].kind = "inode" /\ e[n].type = "dir" /\ e[n].size = BlockSize
        /\ e[n].ptrs[0] \in {n, b2} \ {n}
    BY <1>4, <1>11, <2>1
  <2>3. \A b \in bitmap : b # disk[p].ptrs[0] => e[b] = disk[b]
    BY <1>5, <1>11
  <2>4. {n, b2} = Freed(e, n)
    <3>1. DataIdx(e[n]) = {0} /\ e[n].ptrs[0] = b2
      <4>1. e[n].size = BlockSize /\ e[n].ptrs[0] = b2
        BY <1>4, <1>11
      <4>2. BlocksFor(BlockSize) - 1 = 0 /\ 0 .. 0 = {0}
        BY BlocksForProperty
      <4> QED
        BY <4>1, <4>2 DEF DataIdx
    <3> QED
      BY <3>1 DEF Freed, DataBlocks
  <2> QED
    BY <1>5, <1>6, <1>8, <1>13, <2>1, <2>2, <2>3, <2>4 DEF Linking
<1> QED
  BY <1>1, <1>9, <1>10, <1>11, <1>14 DEF p, ent, ino

\* mkdir keeps the invariant (fs_mkdir).
LEMMA MkdirKeeps ==
    ASSUME SoundState, NEW path \in Seq(Names), path # <<>>, NEW perm \in Perms, NEW now \in Times,
           Mkdir(path, perm, now)
    PROVE  SoundState'
<1>1. CASE Fail("mkdir", path, CreateStatus(path, 2))
  BY <1>1, CreateGranted, FailKeeps DEF Handlers
<1>2. CASE ~Fail("mkdir", path, CreateStatus(path, 2))
  <2>1. Sound(disk', bitmap') /\ WrittenBack'
    <3>1. PICK image, s, n, b2 :
             /\ Leaves(image) /\ bitmap' = bitmap \cup {n, b2}
             /\ Linking(disk, bitmap, image, ResolveParent(path), s,
                        [name |-> Leaf(path), inode |-> n], {n, b2})
      BY <1>2, MkdirEffect
    <3>2. Sound(image, bitmap \cup {n, b2})
      BY <3>1, LinkSound DEF SoundState
    <3> QED
      BY <3>1, <3>2, LeavesSound
  <2>2. AddFree(-2) /\ Done("mkdir", path, OK)
    BY <1>2, MkdirEffect
  <2>3. CountersOK' /\ ReplyOK'
    BY <2>2, AddFreeTyped, ReplyTyped DEF SoundState, Done, Handlers, OK
  <2> QED
    BY <2>1, <2>3, SoundStateNext
<1> QED
  BY <1>1, <1>2

\* The entry that a path leads through, invalidated (unlink_directory_entry).
LEMMA UnlinkedEffect ==
    ASSUME SoundState, NEW path \in Seq(Names), path # <<>>, Resolve(path) >= 0
    PROVE  LET i == Resolve(path)
               p == ResolveParent(path)
               s == Min(Matches(disk, p, Leaf(path)))
           IN  /\ i \in LiveIn(disk, bitmap) /\ To(disk, p, s) = i /\ p # i
               /\ Unlinking(disk, bitmap, Unlinked(path), p, s)
               /\ Unlinked(path) \in [Blocks -> Content]
               /\ Sound(Unlinked(path), bitmap \ Freed(disk, i))
<1> DEFINE i == Resolve(path)
           p == ResolveParent(path)
           s == Min(Matches(disk, p, Leaf(path)))
<1>1. i \in LiveIn(disk, bitmap)
  BY ResolvePath
<1>2. p \in DirsIn(disk, bitmap) /\ s \in Slot(disk, p) /\ To(disk, p, s) = i /\ p # i
  BY ResolveBelow
<1>3. Unlinked(path) = WithEntry(disk, p, s, NoEntry)
  BY DEF Unlinked
<1> HIDE DEF i, p, s
<1>4. Unlinking(disk, bitmap, Unlinked(path), p, s)
  BY <1>2, <1>3 DEF Unlinking
<1>5. Sound(Unlinked(path), bitmap \ Freed(disk, i))
  BY <1>2, <1>4, RemoveSound DEF SoundState
<1>6. Unlinked(path) \in [Blocks -> Content]
  BY <1>5 DEF Sound, Typed
<1> QED
  BY <1>1, <1>2, <1>4, <1>5, <1>6 DEF i, p, s

\* What an unlink that goes through does, to files and to directories (fs_unlink).
LEMMA UnlinkEffect ==
    ASSUME SoundState, NEW path \in Seq(Names), path # <<>>,
           Unlink(path), ~Fail("unlink", path, Resolve(path))
    PROVE  /\ Resolve(path) >= 0 /\ Done("unlink", path, OK)
           /\ AddFree(BlocksFor(disk[Resolve(path)].size) + 1)
           /\ Leaves(Unlinked(path)) /\ bitmap' = bitmap \ Freed(disk, Resolve(path))
<1>1. /\ Resolve(path) >= 0
      /\ SaveBitmap(Unlinked(path), bitmap \ Freed(disk, Resolve(path)))
      /\ AddFree(BlocksFor(disk[Resolve(path)].size) + 1) /\ Done("unlink", path, OK)
  BY DEF Unlink, Freed
<1>2. Unlinked(path) \in [Blocks -> Content]
  BY <1>1, UnlinkedEffect
<1> QED
  BY <1>1, <1>2, SaveLeaves

\* unlink keeps the invariant (fs_unlink).
LEMMA UnlinkKeeps ==
    ASSUME SoundState, NEW path \in Seq(Names), path # <<>>, Unlink(path)
    PROVE  SoundState'
<1> DEFINE i == Resolve(path)
<1>1. i \in Int
  BY ResolvePath
<1>2. CASE Fail("unlink", path, i)
  BY <1>1, <1>2, FailKeeps DEF Handlers
<1>3. CASE ~Fail("unlink", path, i)
  <2>1. /\ i >= 0 /\ AddFree(BlocksFor(disk[i].size) + 1) /\ Done("unlink", path, OK)
        /\ Leaves(Unlinked(path)) /\ bitmap' = bitmap \ Freed(disk, i)
    BY <1>3, UnlinkEffect
  <2>2. i \in LiveIn(disk, bitmap) /\ Sound(Unlinked(path), bitmap \ Freed(disk, i))
    BY <2>1, UnlinkedEffect
  <2>3. Sound(disk', bitmap') /\ WrittenBack'
    BY <2>1, <2>2, LeavesSound
  <2> HIDE DEF i
  <2>4. BlocksFor(disk[i].size) + 1 \in Int
    BY <2>2, LiveInode DEF SoundState
  <2>5. CountersOK' /\ ReplyOK'
    BY <2>1, <2>4, AddFreeTyped, ReplyTyped DEF SoundState, Done, Handlers, OK
  <2> QED
    BY <2>3, <2>5, SoundStateNext
<1> QED
  BY <1>2, <1>3

\* rmdir's early returns, in order.
LEMMA RmdirGranted ==
    ASSUME SoundState, NEW path \in Seq(Names)
    PROVE  /\ RmdirStatus(path) \in Int
           /\ RmdirStatus(path) = OK => /\ Resolve(path) >= 0
                                        /\ Resolve(path) \in DirsIn(disk, bitmap)
                                        /\ FreeSlots(disk, Resolve(path)) # {}
                                        /\ Min(FreeSlots(disk, Resolve(path))) = 0
<1> DEFINE i == Resolve(path)
<1>1. i \in Int /\ (i >= 0 => i \in LiveIn(disk, bitmap))
  BY ResolvePath
<1>2. RmdirStatus(path) = IF i < 0 THEN i
                          ELSE IF ~IsDir(disk, i) THEN ENOTDIR
                          ELSE IF FreeSlots(disk, i) = {} THEN ENOSPC
                          ELSE IF Min(FreeSlots(disk, i)) # 0 THEN ENOTEMPTY
                          ELSE OK
  BY DEF RmdirStatus
<1> HIDE DEF i
<1>3. /\ RmdirStatus(path) \in Int
      /\ RmdirStatus(path) = OK => /\ i >= 0 /\ IsDir(disk, i) /\ FreeSlots(disk, i) # {}
                                   /\ Min(FreeSlots(disk, i)) = 0
  BY <1>1, <1>2 DEF ENOTDIR, ENOSPC, ENOTEMPTY, OK
<1> QED
  BY <1>1, <1>3 DEF i, DirsIn, IsDir

\* What an rmdir that goes through does: the same as unlink (fs_rmdir).
LEMMA RmdirEffect ==
    ASSUME SoundState, NEW path \in Seq(Names), path # <<>>,
           Rmdir(path), ~Fail("rmdir", path, RmdirStatus(path))
    PROVE  /\ RmdirStatus(path) = OK /\ Resolve(path) >= 0
           /\ BlocksFor(disk[Resolve(path)].size) = 1
           /\ AddFree(2) /\ Done("rmdir", path, OK)
           /\ Leaves(Unlinked(path)) /\ bitmap' = bitmap \ Freed(disk, Resolve(path))
<1> DEFINE i == Resolve(path)
<1>1. /\ RmdirStatus(path) = OK /\ SaveBitmap(Unlinked(path), bitmap \ {i, disk[i].ptrs[0]})
      /\ AddFree(2) /\ Done("rmdir", path, OK)
  BY DEF Rmdir
<1>2. i >= 0 /\ i \in DirsIn(disk, bitmap)
  BY <1>1, RmdirGranted
<1>3. Unlinked(path) \in [Blocks -> Content]
  BY <1>2, UnlinkedEffect
<1> HIDE DEF i
<1>4. BlocksFor(disk[i].size) = 1 /\ {i, disk[i].ptrs[0]} = Freed(disk, i)
  <2>1. DataIdx(disk[i]) = {0} /\ disk[i].size = BlockSize
    <3>1. DataIdx(disk[i]) = {0}
      BY <1>2, DirBlockOf DEF SoundState
    <3> QED
      BY <1>2, <3>1 DEF SoundState, Sound, InodesFit, DirsIn
  <2>2. DataBlocks(disk[i]) = {disk[i].ptrs[0]}
    BY <2>1 DEF DataBlocks
  <2> QED
    BY <2>1, <2>2, BlocksForProperty DEF Freed
<1> QED
  BY <1>1, <1>2, <1>3, <1>4, SaveLeaves DEF i

\* rmdir keeps the invariant, whatever entries the directory still has (fs_rmdir).
LEMMA RmdirKeeps ==
    ASSUME SoundState, NEW path \in Seq(Names), path # <<>>, Rmdir(path)
    PROVE  SoundState'
<1>1. CASE Fail("rmdir", path, RmdirStatus(path))
  BY <1>1, RmdirGranted, FailKeeps DEF Handlers
<1>2. CASE ~Fail("rmdir", path, RmdirStatus(path))
  <2>1. /\ Resolve(path) >= 0 /\ AddFree(2) /\ Done("rmdir", path, OK)
        /\ Leaves(Unlinked(path)) /\ bitmap' = bitmap \ Freed(disk, Resolve(path))
    BY <1>2, RmdirEffect
  <2>2. Sound(Unlinked(path), bitmap \ Freed(disk, Resolve(path)))
    BY <2>1, UnlinkedEffect
  <2>3. Sound(disk', bitmap') /\ WrittenBack'
    BY <2>1, <2>2, LeavesSound
  <2>4. CountersOK' /\ ReplyOK'
    BY <2>1, AddFreeTyped, ReplyTyped DEF SoundState, Done, Handlers, OK
  <2> QED
    BY <2>3, <2>4, SoundStateNext
<1> QED
  BY <1>1, <1>2

\* rename's early returns, in order; the root is never free for a new name.
LEMMA RenameGranted ==
    ASSUME SoundState, NEW src \in Seq(Names), src # <<>>, NEW dst \in Seq(Names)
    PROVE  /\ RenameStatus(src, dst) \in Int
           /\ RenameStatus(src, dst) = OK =>
                 /\ Resolve(src) >= 0 /\ Resolve(dst) < 0 /\ dst # <<>>
                 /\ Len(Parse(src)) = Len(Parse(dst)) /\ Front(Parse(src)) = Front(Parse(dst))
<1>1. Resolve(src) \in Int /\ Resolve(dst) \in Int
  BY ResolvePath
<1>2. /\ RenameStatus(src, dst) \in Int
      /\ RenameStatus(src, dst) = OK =>
            /\ Resolve(src) >= 0 /\ Resolve(dst) < 0
            /\ Len(Parse(src)) = Len(Parse(dst)) /\ Front(Parse(src)) = Front(Parse(dst))
  BY <1>1 DEF RenameStatus, EEXIST, EINVAL, OK
<1>3. dst = <<>> => Resolve(dst) = RootInode
  <2>1. Parse(<<>>) = <<>>
    BY LayoutAssumption DEF Parse
  <2> QED
    BY <2>1, TranslateRoot DEF Resolve
<1> QED
  BY <1>2, <1>3 DEF RootInode

\* What a rename that goes through does: the entry gets another name (fs_rename).
LEMMA RenameEffect ==
    ASSUME SoundState, NEW src \in Seq(Names), src # <<>>, NEW dst \in Seq(Names),
           Rename(src, dst), ~Fail("rename", src, RenameStatus(src, dst))
    PROVE  LET p   == ResolveParent(src)
               s   == Min(Matches(disk, p, Leaf(src)))
               ent == [name |-> Leaf(dst), inode |-> To(disk, p, s)]
           IN  /\ RenameStatus(src, dst) = OK /\ Done("rename", src, OK)
               /\ bitmap' = bitmap /\ statVfs' = statVfs
               /\ Renaming(disk, bitmap, disk', p, s, ent)
               /\ Leaves(disk')
<1> DEFINE p == ResolveParent(src)
           s == Min(Matches(disk, p, Leaf(src)))
           ent == [name |-> Leaf(dst), inode |-> To(disk, p, s)]
           e == WithEntry(disk, p, s, ent)
<1>1. RenameStatus(src, dst) = OK /\ disk' = e /\ Done("rename", src, OK)
      /\ bitmap' = bitmap /\ statVfs' = statVfs
  BY DEF Rename, To
<1>2. p \in DirsIn(disk, bitmap) /\ s \in Slot(disk, p) /\ dst # <<>>
  BY <1>1, RenameGranted, ResolveBelow
<1>3. s \in Slots /\ Entries(disk, p)[s] \in Entry
  BY <1>2, DirBlockOf, EntriesType DEF SoundState, Sound, Slot
<1>4. ent \in Entry /\ ent.inode = To(disk, p, s)
  BY <1>2, <1>3, ResolveBelow DEF Entry, To
<1> HIDE DEF p, s, ent, e
<1>5. Renaming(disk, bitmap, e, p, s, ent)
  BY <1>2, <1>4 DEF Renaming, e
<1>6. e \in [Blocks -> Content] /\ \A b \in Blocks : b # disk[p].ptrs[0] => e[b] = disk[b]
  BY <1>2, <1>3, <1>4, WithEntryEffect DEF e, SoundState
<1>7. e[BitmapBlock] = disk[BitmapBlock]
  <2>1. BitmapBlock \in Blocks /\ disk[BitmapBlock].kind = "bitmap"
    BY LayoutAssumption DEF Blocks, BitmapBlock, SoundState, Sound, ReservedIn
  <2>2. disk[disk[p].ptrs[0]].kind = "dir"
    BY <1>2, DirBlockOf DEF SoundState
  <2> QED
    BY <1>6, <2>1, <2>2
<1>8. Leaves(disk')
  BY <1>1, <1>6, <1>7, UnsavedLeaves
<1> QED
  BY <1>1, <1>5, <1>8 DEF p, s, ent

\* An entry with another name leads where it led.
LEMMA RenamingSound ==
    ASSUME NEW d, NEW m, Sound(d, m), NEW e, NEW p, NEW s, NEW ent, Renaming(d, m, e, p, s, ent)
    PROVE  /\ Sound(e, m) /\ OnlyEntry(d, m, e, p, s, ent)
           /\ \A i \in DirsIn(d, m) :
                 Slot(e, i) = Slot(d, i) /\ \A t \in Slot(d, i) : To(e, i, t) = To(d, i, t)
<1>1. /\ p \in DirsIn(d, m) /\ s \in Slot(d, p) /\ s \in Slots
      /\ ent \in Entry /\ ent # NoEntry /\ ent.inode = To(d, p, s) /\ e = WithEntry(d, p, s, ent)
  BY LayoutAssumption DEF Renaming, Slot
<1>2. e \in [Blocks -> Content] /\ OnlyEntry(d, m, e, p, s, ent)
  BY <1>1, WithEntryEffect
<1>3. \A i \in DirsIn(d, m) :
         Slot(e, i) = Slot(d, i) /\ \A t \in Slot(d, i) : To(e, i, t) = To(d, i, t)
  <2> SUFFICES ASSUME NEW i \in DirsIn(d, m)
               PROVE  Slot(e, i) = Slot(d, i) /\ \A t \in Slot(d, i) : To(e, i, t) = To(d, i, t)
    OBVIOUS
  <2>1. CASE i = p
    <3>1. Entries(e, p)[s] = ent /\ \A t \in Slots : t # s => Entries(e, p)[t] = Entries(d, p)[t]
      BY <1>2 DEF OnlyEntry
    <3>2. Slot(e, p) = Slot(d, p)
      BY <1>1, <3>1 DEF Slot
    <3>3. \A t \in Slot(d, p) : To(e, p, t) = To(d, p, t)
      BY <1>1, <3>1 DEF To, Slot
    <3> QED
      BY <2>1, <3>2, <3>3
  <2>2. CASE i # p
    BY <1>2, <2>2 DEF OnlyEntry, Slot, To
  <2> QED
    BY <2>1, <2>2
<1>4. Sound(e, m)
  <2>1. /\ \A b \in m : e[b].kind = d[b].kind
        /\ \A i \in LiveIn(d, m) : e[i] = d[i]
    BY <1>2 DEF OnlyEntry
  <2> QED
    BY <1>2, <1>3, <2>1, SameShape
<1> QED
  BY <1>2, <1>3, <1>4

\* rename keeps the invariant (fs_rename).
LEMMA RenameKeeps ==
    ASSUME SoundState, NEW src \in Seq(Names), src # <<>>, NEW dst \in Seq(Names), Rename(src, dst)
    PROVE  SoundState'
<1>1. CASE Fail("rename", src, RenameStatus(src, dst))
  BY <1>1, RenameGranted, FailKeeps DEF Handlers
<1>2. CASE ~Fail("rename", src, RenameStatus(src, dst))
  <2>1. /\ Done("rename", src, OK) /\ bitmap' = bitmap /\ statVfs' = statVfs /\ Leaves(disk')
        /\ \E p, s, ent : Renaming(disk, bitmap, disk', p, s, ent)
    BY <1>2, RenameEffect
  <2>2. Sound(disk', bitmap)
    BY <2>1, RenamingSound DEF SoundState
  <2>3. Sound(disk', bitmap') /\ WrittenBack'
    BY <2>1, <2>2, LeavesSound
  <2>4. CountersOK' /\ ReplyOK'
    BY <2>1, ReplyTyped DEF SoundState, CountersOK, Done, Handlers, OK
  <2> QED
    BY <2>3, <2>4, SoundStateNext
<1> QED
  BY <1>1, <1>2

\* A live inode rewritten with other attributes.
LEMMA RetouchingSound ==
    ASSUME NEW d, NEW m, Sound(d, m), NEW e, NEW i, Retouching(d, m, e, i)
    PROVE  /\ Sound(e, m)
           /\ \A b \in Blocks : b # i => e[b] = d[b]
           /\ \A j \in LiveIn(d, m) :
                 /\ e[j].kind = "inode" /\ e[j].type = d[j].type
                 /\ e[j].size = d[j].size /\ e[j].ptrs = d[j].ptrs
           /\ \A j \in DirsIn(d, m) : Entries(e, j) = Entries(d, j)
<1>1. PICK ino \in Inode : /\ e = [d EXCEPT ![i] = ino]
                           /\ ino.type = d[i].type /\ ino.size = d[i].size /\ ino.ptrs = d[i].ptrs
  BY DEF Retouching
<1>2. d \in [Blocks -> Content] /\ m \subseteq Blocks /\ i \in m /\ i \in LiveIn(d, m) /\ d[i].kind = "inode"
  BY DEF Sound, Typed, LiveIn, IsInode, Retouching
<1>3. /\ e \in [Blocks -> Content] /\ e[i] = ino /\ ino.kind = "inode"
      /\ \A b \in Blocks : b # i => e[b] = d[b]
  BY <1>1, <1>2 DEF Content, Inode
<1>4. \A b \in m : e[b].kind = d[b].kind
  BY <1>2, <1>3
<1>5. \A j \in LiveIn(d, m) : /\ e[j].kind = "inode" /\ e[j].type = d[j].type
                              /\ e[j].size = d[j].size /\ e[j].ptrs = d[j].ptrs
  BY <1>1, <1>2, <1>3 DEF LiveIn, IsInode
<1>6. \A j \in DirsIn(d, m) : Entries(e, j) = Entries(d, j)
  <2> TAKE j \in DirsIn(d, m)
  <2>1. /\ d[j].ptrs[0] \in Blocks /\ d[d[j].ptrs[0]].kind = "dir"
        /\ e[j].ptrs = d[j].ptrs
    BY <1>5, DirBlockOf DEF DirsIn
  <2>2. e[d[j].ptrs[0]] = d[d[j].ptrs[0]]
    BY <1>2, <1>3, <2>1
  <2> QED
    BY <2>1, <2>2 DEF Entries
<1>7. \A j \in DirsIn(d, m) :
         Slot(e, j) = Slot(d, j) /\ \A s \in Slot(d, j) : To(e, j, s) = To(d, j, s)
  BY <1>6 DEF Slot, To
<1>8. Sound(e, m)
  BY <1>3, <1>4, <1>5, <1>7, SameShape
<1> QED
  BY <1>3, <1>5, <1>6, <1>8

\* The two calls that do so leave the image they made.
LEMMA RetouchingLeaves ==
    ASSUME SoundState, NEW i, Retouching(disk, bitmap, disk', i), bitmap' = bitmap
    PROVE  Leaves(disk')
<1>1. Sound(disk', bitmap) /\ \A b \in Blocks : b # i => disk'[b] = disk[b]
  BY RetouchingSound DEF SoundState
<1>2. BitmapBlock \in Blocks /\ disk[BitmapBlock].kind = "bitmap" /\ disk[i].kind = "inode"
  BY LayoutAssumption DEF Blocks, BitmapBlock, SoundState, Sound, ReservedIn, Retouching, LiveIn, IsInode
<1>3. disk'[BitmapBlock] = disk[BitmapBlock] /\ disk' \in [Blocks -> Content]
  BY <1>1, <1>2 DEF Sound, Typed
<1> QED
  BY <1>3, UnsavedLeaves

\* What a chmod and a utime that go through do (fs_chmod, fs_utime).
LEMMA ChmodEffect ==
    ASSUME SoundState, NEW path \in Seq(Names), NEW perm \in Perms,
           Chmod(path, perm), ~Fail("chmod", path, Resolve(path))
    PROVE  LET i == Resolve(path) IN
           /\ i >= 0 /\ Done("chmod", path, OK) /\ bitmap' = bitmap /\ statVfs' = statVfs
           /\ disk' = [disk EXCEPT ![i] = [@ EXCEPT !.perm = perm]]
           /\ Retouching(disk, bitmap, disk', i)
<1> DEFINE i == Resolve(path)
           ino == [disk[i] EXCEPT !.perm = perm]
<1>1. /\ i >= 0 /\ disk' = [disk EXCEPT ![i] = ino] /\ Done("chmod", path, OK)
      /\ bitmap' = bitmap /\ statVfs' = statVfs
  BY DEF Chmod
<1>2. i \in LiveIn(disk, bitmap) /\ disk[i] \in Inode
  BY <1>1, ResolvePath, LiveInode DEF SoundState
<1> HIDE DEF i
<1>3. ino \in Inode /\ ino.type = disk[i].type /\ ino.size = disk[i].size /\ ino.ptrs = disk[i].ptrs
  BY <1>2 DEF Inode
<1>4. disk' = [disk EXCEPT ![i] = [@ EXCEPT !.perm = perm]]
  BY <1>1
<1> HIDE DEF ino
<1>5. Retouching(disk, bitmap, disk', i)
  BY <1>1, <1>2, <1>3 DEF Retouching
<1> QED
  BY <1>1, <1>4, <1>5 DEF i

\* What a utime that is granted does: the same, to the time of a regular file.
LEMMA UtimeEffect ==
    ASSUME SoundState, NEW path \in Seq(Names), NEW time \in Times,
           Utime(path, time), ~Fail("utime", path, ResolveFile(path))
    PROVE  LET i == ResolveFile(path) IN
           /\ i >= 0 /\ Done("utime", path, OK) /\ bitmap' = bitmap /\ statVfs' = statVfs
           /\ disk' = [disk EXCEPT ![i] = [@ EXCEPT !.mtime = time]]
           /\ Retouching(disk, bitmap, disk', i)
<1> DEFINE i == ResolveFile(path)
           ino == [disk[i] EXCEPT !.mtime = time]
<1>1. /\ i >= 0 /\ disk' = [disk EXCEPT ![i] = ino] /\ Done("utime", path, OK)
      /\ bitmap' = bitmap /\ statVfs' = statVfs
  BY DEF Utime
<1>2. i \in LiveIn(disk, bitmap) /\ disk[i] \in Inode
  BY <1>1, ResolvePath, LiveInode DEF SoundState
<1> HIDE DEF i
<1>3. ino \in Inode /\ ino.type = disk[i].type /\ ino.size = disk[i].size /\ ino.ptrs = disk[i].ptrs
  BY <1>2 DEF Inode
<1>4. disk' = [disk EXCEPT ![i] = [@ EXCEPT !.mtime = time]]
  BY <1>1
<1> HIDE DEF ino
<1>5. Retouching(disk, bitmap, disk', i)
  BY <1>1, <1>2, <1>3 DEF Retouching
<1> QED
  BY <1>1, <1>4, <1>5 DEF i

\* chmod and utime keep the invariant (fs_chmod, fs_utime).
LEMMA ChmodKeeps ==
    ASSUME SoundState, NEW path \in Seq(Names), NEW perm \in Perms, Chmod(path, perm)
    PROVE  SoundState'
<1>1. CASE Fail("chmod", path, Resolve(path))
  BY <1>1, ResolvePath, FailKeeps DEF Handlers
<1>2. CASE ~Fail("chmod", path, Resolve(path))
  <2>1. /\ Done("chmod", path, OK) /\ bitmap' = bitmap /\ statVfs' = statVfs
        /\ Retouching(disk, bitmap, disk', Resolve(path))
    BY <1>2, ChmodEffect
  <2>2. Sound(disk', bitmap) /\ Leaves(disk')
    BY <2>1, RetouchingSound, RetouchingLeaves DEF SoundState
  <2>3. Sound(disk', bitmap') /\ WrittenBack'
    BY <2>1, <2>2, LeavesSound
  <2>4. CountersOK' /\ ReplyOK'
    BY <2>1, ReplyTyped DEF SoundState, CountersOK, Done, Handlers, OK
  <2> QED
    BY <2>3, <2>4, SoundStateNext
<1> QED
  BY <1>1, <1>2

\* utime keeps the invariant.
LEMMA UtimeKeeps ==
    ASSUME SoundState, NEW path \in Seq(Names), NEW time \in Times, Utime(path, time)
    PROVE  SoundState'
<1>1. CASE Fail("utime", path, ResolveFile(path))
  BY <1>1, ResolvePath, FailKeeps DEF Handlers
<1>2. CASE ~Fail("utime", path, ResolveFile(path))
  <2>1. /\ Done("utime", path, OK) /\ bitmap' = bitmap /\ statVfs' = statVfs
        /\ Retouching(disk, bitmap, disk', ResolveFile(path))
    BY <1>2, UtimeEffect
  <2>2. Sound(disk', bitmap) /\ Leaves(disk')
    BY <2>1, RetouchingSound, RetouchingLeaves DEF SoundState
  <2>3. Sound(disk', bitmap') /\ WrittenBack'
    BY <2>1, <2>2, LeavesSound
  <2>4. CountersOK' /\ ReplyOK'
    BY <2>1, ReplyTyped DEF SoundState, CountersOK, Done, Handlers, OK
  <2> QED
    BY <2>3, <2>4, SoundStateNext
<1> QED
  BY <1>1, <1>2

-----------------------------------------------------------------------------
(* Truncate, read and write                                                *)

\* truncate's early returns, in order.
LEMMA TruncateGranted ==
    ASSUME SoundState, NEW path \in Seq(Names), NEW len \in Int
    PROVE  /\ TruncateStatus(path, len) \in Int
           /\ TruncateStatus(path, len) = OK =>
                 /\ ResolveFile(path) >= 0 /\ ResolveFile(path) \in LiveIn(disk, bitmap)
                 /\ disk[ResolveFile(path)].type = "file" /\ len \in Nat
                 /\ BlocksFor(len) <= BlocksFor(disk[ResolveFile(path)].size)
<1> DEFINE i == ResolveFile(path)
<1>1. i \in Int /\ (i >= 0 => i \in LiveIn(disk, bitmap) /\ disk[i].type = "file")
  BY ResolvePath
<1>2. TruncateStatus(path, len) = IF len < 0 THEN EINVAL
                                  ELSE IF i < 0 THEN i
                                  ELSE IF BlocksFor(len) > BlocksFor(disk[i].size) THEN EINVAL
                                  ELSE OK
  BY DEF TruncateStatus
<1> HIDE DEF i
<1>3. /\ TruncateStatus(path, len) \in Int
      /\ TruncateStatus(path, len) = OK =>
            i >= 0 /\ len >= 0 /\ ~(BlocksFor(len) > BlocksFor(disk[i].size))
  BY <1>1, <1>2 DEF EINVAL, OK
<1>4. i >= 0 => BlocksFor(disk[i].size) \in Nat
  BY <1>1, LiveInode DEF SoundState
<1>5. len >= 0 => BlocksFor(len) \in Nat
  BY BlocksForProperty
<1> QED
  BY <1>1, <1>3, <1>4, <1>5 DEF i

(***************************************************************************)
(* What a truncate that goes through does: the pointers that are left are  *)
(* those of the remaining blocks, and only the others are freed            *)
(* (fs_truncate).                                                          *)
(***************************************************************************)
LEMMA TruncateEffect ==
    ASSUME SoundState, NEW path \in Seq(Names), NEW len \in Int,
           Truncate(path, len), ~Fail("truncate", path, TruncateStatus(path, len))
    PROVE  LET i    == ResolveFile(path)
               left == BlocksFor(len)
               n    == BlocksFor(disk[i].size)
           IN  /\ TruncateStatus(path, len) = OK
               /\ AddFree(n - left) /\ Done("truncate", path, OK)
               /\ bitmap' = bitmap \ {disk[i].ptrs[k] : k \in left .. n - 1}
               /\ \E ino \in Inode :
                     /\ ino.size = len /\ ino.perm = disk[i].perm /\ ino.mtime = disk[i].mtime
                     /\ \A k \in 0 .. left - 1 : ino.ptrs[k] = disk[i].ptrs[k]
                     /\ Rewriting(disk, bitmap, [disk EXCEPT ![i] = ino], bitmap', i)
                     /\ Leaves([disk EXCEPT ![i] = ino])
<1> DEFINE i == ResolveFile(path)
           old == disk[i]
           n == BlocksFor(old.size)
           left == BlocksFor(len)
           removed == left .. n - 1
           ino == [old EXCEPT !.size = len,
                              !.ptrs = [k \in PtrIdx |-> IF k \in removed THEN NoPtr ELSE @[k]]]
           freed == {old.ptrs[k] : k \in removed}
           e == [disk EXCEPT ![i] = ino]
<1>1. /\ TruncateStatus(path, len) = OK /\ SaveBitmap(e, bitmap \ freed)
      /\ AddFree(n - left) /\ Done("truncate", path, OK)
  BY DEF Truncate
<1>2. i \in LiveIn(disk, bitmap) /\ old.type = "file" /\ len \in Nat
  BY <1>1, TruncateGranted
<1>3. old \in Inode /\ n \in Nat /\ n <= MaxPtrs /\ i \in bitmap /\ i \in Blocks /\ old.kind = "inode"
  BY <1>2, LiveInode DEF SoundState
<1>4. left \in Nat /\ left <= n
  BY <1>1, <1>2, <1>3, TruncateGranted, BlocksForProperty
<1> HIDE DEF i, n, left
<1>5. /\ ino \in Inode /\ ino.kind = "inode" /\ ino.type = "file" /\ ino.size = len
      /\ \A k \in 0 .. left - 1 : ino.ptrs[k] = old.ptrs[k]
  <2>1. removed \subseteq Int /\ \A k \in 0 .. left - 1 : k \in PtrIdx /\ k \notin removed
    BY <1>3, <1>4, LayoutAssumption DEF PtrIdx
  <2>2. old.ptrs \in [PtrIdx -> Blocks \cup {NoPtr}]
    BY <1>3 DEF Inode
  <2> DEFINE ptrs == [k \in PtrIdx |-> IF k \in removed THEN NoPtr ELSE old.ptrs[k]]
  <2>3. ino = [old EXCEPT !.size = len, !.ptrs = ptrs]
    OBVIOUS
  <2>4. ptrs \in [PtrIdx -> Blocks \cup {NoPtr}] /\ \A k \in 0 .. left - 1 : ptrs[k] = old.ptrs[k]
    BY <2>1, <2>2
  <2> HIDE DEF ptrs, ino
  <2> QED
    BY <1>2, <1>3, <2>3, <2>4 DEF Inode
<1>6. DataIdx(ino) = 0 .. left - 1 /\ DataIdx(old) = 0 .. n - 1
  BY <1>5 DEF DataIdx, n, left
<1> HIDE DEF ino
<1>7. /\ e \in [Blocks -> Content] /\ e[i] = ino
      /\ \A b \in Blocks : b # i => e[b] = disk[b]
  BY <1>3, <1>5 DEF SoundState, Sound, Typed, Content
<1> HIDE DEF e
<1>8. DataBlocks(ino) = {old.ptrs[k] : k \in 0 .. left - 1} /\ DataBlocks(old) = {old.ptrs[k] : k \in 0 .. n - 1}
  BY <1>5, <1>6 DEF DataBlocks
<1>9. /\ \A k \in 0 .. n - 1 : old.ptrs[k] \in bitmap /\ disk[old.ptrs[k]].kind = "data"
      /\ \A k, l \in 0 .. n - 1 : old.ptrs[k] = old.ptrs[l] => k = l
  BY <1>2, <1>6, ZenonT(60) DEF SoundState, Sound, InodesFit, PtrsDiffer
<1>10. bitmap \ freed = (bitmap \ DataBlocks(old)) \cup DataBlocks(ino)
  <2>1. \A b \in freed : b \notin DataBlocks(ino) /\ b \in DataBlocks(old)
    BY <1>3, <1>4, <1>8, <1>9
  <2>2. \A b \in DataBlocks(old) : b \in freed \/ b \in DataBlocks(ino)
    <3> SUFFICES ASSUME NEW k \in 0 .. n - 1
                 PROVE  old.ptrs[k] \in freed \/ old.ptrs[k] \in DataBlocks(ino)
      BY <1>8
    <3>1. k \in removed \/ k \in 0 .. left - 1
      BY <1>3, <1>4
    <3> QED
      BY <1>8, <3>1
  <2>3. \A b \in DataBlocks(ino) : b \in bitmap
    BY <1>3, <1>4, <1>8, <1>9
  <2> HIDE DEF freed, removed
  <2> QED
    BY <2>1, <2>2, <2>3
<1> HIDE DEF freed
<1>11. Rewriting(disk, bitmap, e, bitmap \ freed, i)
  <2>1. bitmap \subseteq Blocks
    BY DEF SoundState, Sound, Typed
  <2>2. \A b \in DataBlocks(ino) : b \in bitmap /\ b \in DataBlocks(old) /\ disk[b].kind = "data" /\ b # i
    BY <1>3, <1>4, <1>8, <1>9
  <2>3. \A b \in bitmap : b # i /\ b \notin DataBlocks(old) => e[b] = disk[b]
    BY <1>7, <2>1
  <2>4. \A b \in DataBlocks(ino) : b \in Blocks /\ e[b].kind = "data"
    BY <1>7, <2>1, <2>2
  <2>5. \A k, l \in DataIdx(ino) : ino.ptrs[k] = ino.ptrs[l] => k = l
    BY <1>3, <1>4, <1>5, <1>6, <1>9
  <2>6. BlocksFor(ino.size) <= MaxPtrs
    <3>1. ino.size = len
      BY <1>5
    <3>2. BlocksFor(ino.size) = left
      BY <3>1 DEF left
    <3> QED
      BY <1>3, <1>4, <3>2, LayoutAssumption
  <2>7. \A b \in DataBlocks(ino) : b \in bitmap => b \in DataBlocks(old)
    BY <2>2
  <2>8. bitmap \ freed = (bitmap \ DataBlocks(disk[i])) \cup DataBlocks(e[i])
    BY <1>7, <1>10
  <2>9. e[i] = ino /\ old = disk[i]
    BY <1>7
  <2> HIDE DEF old
  <2> QED
    BY <1>2, <1>5, <1>7, <2>3, <2>4, <2>5, <2>6, <2>7, <2>8, <2>9 DEF Rewriting
<1>12. Leaves(e) /\ bitmap' = bitmap \ freed
  BY <1>1, <1>7, SaveLeaves
<1>13. ino.perm = old.perm /\ ino.mtime = old.mtime
  BY <1>3 DEF ino, Inode
<1>14. Rewriting(disk, bitmap, e, bitmap', i)
  BY <1>11, <1>12
<1> QED
  BY <1>1, <1>5, <1>12, <1>13, <1>14 DEF i, n, left, e, freed

\* truncate keeps the invariant.
LEMMA TruncateKeeps ==
    ASSUME SoundState, NEW path \in Seq(Names), NEW len \in Int, Truncate(path, len)
    PROVE  SoundState'
<1> DEFINE i == ResolveFile(path)
           more == BlocksFor(disk[i].size) - BlocksFor(len)
<1>1. CASE Fail("truncate", path, TruncateStatus(path, len))
  BY <1>1, TruncateGranted, FailKeeps DEF Handlers
<1>2. CASE ~Fail("truncate", path, TruncateStatus(path, len))
  <2>1. /\ AddFree(more) /\ Done("truncate", path, OK) /\ TruncateStatus(path, len) = OK
        /\ \E image : Leaves(image) /\ Rewriting(disk, bitmap, image, bitmap', i)
    BY <1>2, TruncateEffect
  <2>2. PICK image : Leaves(image) /\ Rewriting(disk, bitmap, image, bitmap', i)
    BY <2>1
  <2>3. Sound(image, bitmap')
    BY <2>2, RewritingSound DEF SoundState
  <2>4. Sound(disk', bitmap') /\ WrittenBack'
    BY <2>2, <2>3, LeavesSound
  <2>5. more \in Int
    <3>1. i \in LiveIn(disk, bitmap) /\ BlocksFor(len) \in Nat
      BY <2>1, TruncateGranted, BlocksForProperty
    <3> QED
      BY <3>1, LiveInode DEF SoundState
  <2>6. CountersOK' /\ ReplyOK'
    BY <2>1, <2>5, AddFreeTyped, ReplyTyped DEF SoundState, Done, Handlers, OK
  <2> QED
    BY <2>4, <2>6, SoundStateNext
<1> QED
  BY <1>1, <1>2

\* The number of elements of an interval.
LEMMA IntervalSize ==
    ASSUME NEW n \in Nat
    PROVE  /\ IsFiniteSet(1 .. n) /\ Cardinality(1 .. n) = n
           /\ IsFiniteSet(0 .. n) /\ Cardinality(0 .. n) = n + 1
<1>1. 0 \in Int /\ 1 \in Int /\ n \in Int
  OBVIOUS
<1>2. IsFiniteSet(1 .. n) /\ IsFiniteSet(0 .. n)
  BY <1>1, FS_Interval
<1>3. Cardinality(1 .. n) = IF 1 > n THEN 0 ELSE n - 1 + 1
  BY <1>1, FS_Interval
<1>4. Cardinality(0 .. n) = IF 0 > n THEN 0 ELSE n - 0 + 1
  BY <1>1, FS_Interval
<1> QED
  BY <1>2, <1>3, <1>4

(***************************************************************************)
(* A file never has more blocks than its inode has pointers: they are      *)
(* different blocks of a disk that has no more (fs_write has no test).     *)
(***************************************************************************)
LEMMA EnoughPointers ==
    ASSUME NEW d, NEW m, Sound(d, m), NEW i \in LiveIn(d, m), NEW need \in Nat,
           NEW fresh \in [1 .. need -> Blocks \ m],
           \A j, k \in 1 .. need : fresh[j] = fresh[k] => j = k
    PROVE  BlocksFor(d[i].size) + need <= MaxPtrs
<1> DEFINE n == BlocksFor(d[i].size)
           g == [k \in 1 .. n + need |-> IF k <= n THEN d[i].ptrs[k - 1] ELSE fresh[k - n]]
<1>1. n \in Nat
  BY LiveInode
<1>2. /\ \A k \in 1 .. n : d[i].ptrs[k - 1] \in m
      /\ \A j, k \in 1 .. n : d[i].ptrs[j - 1] = d[i].ptrs[k - 1] => j = k
  <2>1. DataIdx(d[i]) = 0 .. n - 1
    BY DEF DataIdx
  <2> HIDE DEF n
  <2>2. /\ \A k \in 0 .. n - 1 : d[i].ptrs[k] \in m
        /\ \A j, k \in 0 .. n - 1 : d[i].ptrs[j] = d[i].ptrs[k] => j = k
    <3>1. /\ \A k \in DataIdx(d[i]) : d[i].ptrs[k] \in m
          /\ \A j, k \in DataIdx(d[i]) : d[i].ptrs[j] = d[i].ptrs[k] => j = k
      BY DEF Sound, InodesFit, PtrsDiffer
    <3> QED
      BY <2>1, <3>1, Zenon
  <2>3. \A k \in 1 .. n : k - 1 \in 0 .. n - 1
    BY <1>1
  <2>4. \A j, k \in 1 .. n : j - 1 = k - 1 => j = k
    BY <1>1
  <2> QED
    BY <2>2, <2>3, <2>4
<1>3. m \subseteq Blocks
  BY DEF Sound, Typed
<1> HIDE DEF n
<1>4. g \in [1 .. n + need -> Blocks]
  BY <1>1, <1>2, <1>3
<1>5. \A j, k \in 1 .. n + need : g[j] = g[k] => j = k
  <2> SUFFICES ASSUME NEW j \in 1 .. n + need, NEW k \in 1 .. n + need, g[j] = g[k] PROVE j = k
    OBVIOUS
  <2>1. CASE j <= n /\ k <= n
    BY <1>1, <1>2, <2>1
  <2>2. CASE j > n /\ k > n
    <3>1. j - n \in 1 .. need /\ k - n \in 1 .. need /\ fresh[j - n] = fresh[k - n]
      BY <1>1, <2>2
    <3> QED
      BY <1>1, <3>1
  <2>3. CASE j <= n /\ k > n
    <3>1. k - n \in 1 .. need /\ g[k] = fresh[k - n] /\ g[j] = d[i].ptrs[j - 1] /\ j \in 1 .. n
      BY <1>1, <2>3
    <3> QED
      BY <1>2, <3>1
  <2>4. CASE j > n /\ k <= n
    <3>1. j - n \in 1 .. need /\ g[j] = fresh[j - n] /\ g[k] = d[i].ptrs[k - 1] /\ k \in 1 .. n
      BY <1>1, <2>4
    <3> QED
      BY <1>2, <3>1
  <2> QED
    BY <1>1, <2>1, <2>2, <2>3, <2>4
<1> HIDE DEF g
<1>6. g \in Injection(1 .. n + need, Blocks)
  BY <1>4, <1>5 DEF Injection, IsInjective
<1>7. /\ IsFiniteSet(1 .. n + need) /\ Cardinality(1 .. n + need) = n + need
      /\ IsFiniteSet(Blocks) /\ Cardinality(Blocks) = DiskSize
  <2>1. n + need \in Nat /\ DiskSize - 1 \in Nat
    BY <1>1, LayoutAssumption
  <2>2. IsFiniteSet(1 .. n + need) /\ Cardinality(1 .. n + need) = n + need
    BY <2>1, IntervalSize, Zenon
  <2>3. IsFiniteSet(0 .. DiskSize - 1) /\ Cardinality(0 .. DiskSize - 1) = (DiskSize - 1) + 1
    BY <2>1, IntervalSize, Zenon
  <2> QED
    BY <2>2, <2>3, LayoutAssumption DEF Blocks
<1>8. n + need <= DiskSize
  BY <1>6, <1>7, FS_Injection
<1> QED
  BY <1>1, <1>8, LayoutAssumption DEF n

\* What the write buffer holds are bytes; the image after it is written has no new tag but "data".
LEMMA StoredEffect ==
    ASSUME NEW image \in [Blocks -> Content], NEW inode, NEW old, NEW offset, NEW len, NEW byte \in Bytes,
           \A k \in WriteIdx(offset, len) : inode.ptrs[k] \in Blocks
    PROVE  /\ Stored(image, inode, old, offset, len, byte) \in [Blocks -> Content]
           /\ \A b \in Blocks :
                 \/ /\ \A k \in WriteIdx(offset, len) : inode.ptrs[k] # b
                    /\ Stored(image, inode, old, offset, len, byte)[b] = image[b]
                 \/ /\ \E k \in WriteIdx(offset, len) : inode.ptrs[k] = b
                    /\ Stored(image, inode, old, offset, len, byte)[b].kind = "data"
<1> DEFINE idx == WriteIdx(offset, len)
           kept(k) == Kept(image, inode, old, idx, k)
           buf(k) == [o \in Offs |-> IF k * BlockSize + o \in offset .. offset + len - 1
                                     THEN byte ELSE kept(k)[o]]
           to(b) == {k \in idx : inode.ptrs[k] = b}
           e == [b \in Blocks |-> IF to(b) = {} THEN image[b]
                                  ELSE [kind |-> "data", bytes |-> buf(CHOOSE k \in to(b) : TRUE)]]
<1>1. e = Stored(image, inode, old, offset, len, byte)
  BY DEF Stored
<1>2. ASSUME NEW c \in Content PROVE RawBytes(c) \in [Offs -> Byte]
  BY ContentKinds DEF RawBytes, DataBlock, Byte
<1>3. \A k \in idx : kept(k) \in [Offs -> Byte]
  <2> TAKE k \in idx
  <2>1. RawBytes(image[inode.ptrs[k]]) \in [Offs -> Byte]
    BY <1>2
  <2>2. ZeroBlock.bytes \in [Offs -> Byte]
    BY DEF ZeroBlock, Byte
  <2>3. kept(k) = RawBytes(image[inode.ptrs[k]]) \/ kept(k) = ZeroBlock.bytes
    BY DEF Kept
  <2> QED
    BY <2>1, <2>2, <2>3
<1> HIDE DEF kept, idx
<1>4. \A k \in idx : buf(k) \in [Offs -> Byte]
  BY <1>3 DEF Byte
<1> HIDE DEF buf
<1>5. \A b \in Blocks : to(b) # {} => [kind |-> "data", bytes |-> buf(CHOOSE k \in to(b) : TRUE)] \in Content
  <2> SUFFICES ASSUME NEW b \in Blocks, to(b) # {}
               PROVE  [kind |-> "data", bytes |-> buf(CHOOSE k \in to(b) : TRUE)] \in Content
    OBVIOUS
  <2>1. (CHOOSE k \in to(b) : TRUE) \in to(b)
    OBVIOUS
  <2>2. buf(CHOOSE k \in to(b) : TRUE) \in [Offs -> Byte]
    BY <1>4, <2>1
  <2> QED
    BY <2>2 DEF Content, DataBlock
<1>6. \A b \in Blocks : /\ to(b) = {} => e[b] = image[b]
                        /\ to(b) # {} => e[b].kind = "data" /\ e[b] \in Content
  BY <1>5
<1> HIDE DEF e
<1>7. e \in [Blocks -> Content]
  <2>1. e = [b \in Blocks |-> e[b]]
    BY DEF e
  <2>2. \A b \in Blocks : e[b] \in Content
    BY <1>6
  <2> QED
    BY <2>1, <2>2
<1>8. \A b \in Blocks : \/ (\A k \in idx : inode.ptrs[k] # b) /\ e[b] = image[b]
                        \/ (\E k \in idx : inode.ptrs[k] = b) /\ e[b].kind = "data"
  BY <1>6
<1> QED
  BY <1>1, <1>7, <1>8 DEF idx

(***************************************************************************)
(* The arithmetic of fs_write: the blocks it goes through end where the    *)
(* file ends after it, and begin no later than the first block it appends. *)
(***************************************************************************)
LEMMA WriteSizes ==
    ASSUME NEW size \in Nat, NEW offset \in Nat, NEW len \in Nat \ {0}, offset <= size
    PROVE  LET need == BlocksNeeded(size, offset, len)
               end  == IF offset + len > size THEN offset + len ELSE size
           IN  /\ need \in Int /\ end \in Nat
               /\ BlocksFor(end) = IF need > 0 THEN BlocksFor(size) + need ELSE BlocksFor(size)
               /\ offset \div BlockSize \in Nat /\ offset \div BlockSize <= BlocksFor(size)
               /\ (offset + len - 1) \div BlockSize = BlocksFor(size) + need - 1
<1> DEFINE last == (offset + len - 1) \div BlockSize
           first == offset \div BlockSize
           n == BlocksFor(size)
           need == BlocksNeeded(size, offset, len)
           end == IF offset + len > size THEN offset + len ELSE size
<1>1. BlockSize \in Nat \ {0}
  BY LayoutAssumption
<1>2. last \in Int /\ first \in Int /\ n \in Nat
  <2>1. \A x \in Int : x \div BlockSize \in Int
    BY <1>1, Division
  <2>2. n \in Nat
    BY BlocksForProperty
  <2> QED
    BY <2>1, <2>2
<1>3. first >= 0
  <2>1. 0 \div BlockSize = 0
    BY <1>1, QuotientUnique
  <2>2. 0 \div BlockSize <= offset \div BlockSize
    BY <1>1, DivMonotone
  <2> QED
    BY <2>1, <2>2
<1>4. first <= n
  <2>1. first <= size \div BlockSize /\ size \div BlockSize \in Int
    BY <1>1, DivMonotone, Division
  <2>2. n = (size \div BlockSize) + (IF size % BlockSize > 0 THEN 1 ELSE 0)
    BY DEF BlocksFor
  <2> HIDE DEF first, n
  <2> QED
    BY <1>2, <2>1, <2>2
<1>5. BlocksFor(offset + len) = last + 1
  BY LastBlock
<1>6. need = last - n + 1
  BY DEF BlocksNeeded
<1>7. end \in Nat /\ offset + len \in Nat
  OBVIOUS
<1>8. CASE offset + len > size
  <2>1. end = offset + len /\ n <= BlocksFor(offset + len)
    BY <1>7, <1>8, BlocksForProperty
  <2>2. BlocksFor(end) = last + 1
    BY <1>5, <2>1
  <2> HIDE DEF last, first, n, need, end
  <2>3. BlocksFor(end) = IF need > 0 THEN n + need ELSE n
    BY <1>2, <1>5, <1>6, <2>1, <2>2
  <2> QED
    BY <1>2, <1>3, <1>4, <1>6, <1>7, <2>3 DEF last, first, n, need, end
<1>9. CASE ~(offset + len > size)
  <2>1. end = size /\ BlocksFor(offset + len) <= n
    BY <1>7, <1>9, BlocksForProperty
  <2>2. BlocksFor(end) = n
    BY <2>1
  <2> HIDE DEF last, first, n, need, end
  <2>3. BlocksFor(end) = IF need > 0 THEN n + need ELSE n
    BY <1>2, <1>5, <1>6, <2>1, <2>2
  <2> QED
    BY <1>2, <1>3, <1>4, <1>6, <1>7, <2>3 DEF last, first, n, need, end
<1> QED
  BY <1>8, <1>9

\* What fs_write finds before it writes.
LEMMA WriteGranted ==
    ASSUME SoundState, NEW path \in Seq(Names), NEW offset \in Nat, NEW len \in Nat \ {0}
    PROVE  /\ WriteStatus(path, offset, len) \in Int
           /\ WriteStatus(path, offset, len) = OK =>
                 /\ ResolveFile(path) \in LiveIn(disk, bitmap)
                 /\ disk[ResolveFile(path)].type = "file"
                 /\ offset <= disk[ResolveFile(path)].size
<1> DEFINE i == ResolveFile(path)
           room == FirstFree(bitmap, BlocksNeeded(disk[i].size, offset, len))
<1>1. i \in Int /\ (i >= 0 => i \in LiveIn(disk, bitmap) /\ disk[i].type = "file")
  BY ResolvePath
<1>2. WriteStatus(path, offset, len) = IF i < 0 THEN i
                                       ELSE IF offset > disk[i].size THEN EINVAL
                                       ELSE IF room = {} THEN ENOSPC
                                       ELSE OK
  BY DEF WriteStatus
<1> HIDE DEF i, room
<1>3. WriteStatus(path, offset, len) \in Int
      /\ (WriteStatus(path, offset, len) = OK => i >= 0 /\ ~(offset > disk[i].size))
  BY <1>1, <1>2 DEF EINVAL, ENOSPC, OK
<1>4. i >= 0 => disk[i].size \in Nat
  BY <1>1, LiveInode DEF SoundState
<1> QED
  BY <1>1, <1>3, <1>4 DEF i

(***************************************************************************)
(* What a write that goes through does: it writes the file's blocks and    *)
(* the ones it has just allocated, and every block it appends is written   *)
(* (fs_write).                                                             *)
(***************************************************************************)
LEMMA WriteEffect ==
    ASSUME SoundState, NEW path \in Seq(Names), NEW offset \in Nat, NEW len \in Nat \ {0},
           NEW byte \in Bytes, NEW now \in Times, Write(path, offset, len, byte, now),
           ~Fail("write", path, WriteStatus(path, offset, len))
    PROVE  LET i    == ResolveFile(path)
               need == BlocksNeeded(disk[i].size, offset, len)
           IN  /\ WriteStatus(path, offset, len) = OK
               /\ need \in Int /\ AddFree(-need) /\ Done("write", path, len)
               /\ \E fresh \in FirstFree(bitmap, need) :
                     LET ino == Grown(disk[i], fresh, offset + len, now)
                         e   == Stored([disk EXCEPT ![i] = ino], ino,
                                       BlocksFor(disk[i].size), offset, len, byte)
                     IN  /\ e[i] = ino /\ bitmap' = bitmap \cup Range(fresh)
                         /\ Rewriting(disk, bitmap, e, bitmap', i) /\ Leaves(e)
<1> DEFINE i == ResolveFile(path)
           old == disk[i]
           size == old.size
           n == BlocksFor(size)
           need == BlocksNeeded(size, offset, len)
           idx == WriteIdx(offset, len)
<1>1. /\ WriteStatus(path, offset, len) = OK /\ AddFree(-need) /\ Done("write", path, len)
      /\ \E fresh \in FirstFree(bitmap, need) :
            LET inode == Grown(old, fresh, offset + len, now)
                image == Stored([disk EXCEPT ![i] = inode], inode, n, offset, len, byte)
            IN  IF need > 0 THEN SaveBitmap(image, bitmap \cup Range(fresh))
                ELSE disk' = image /\ UNCHANGED bitmap
  BY DEF Write
<1>2. PICK fresh \in FirstFree(bitmap, need) :
            LET inode == Grown(old, fresh, offset + len, now)
                image == Stored([disk EXCEPT ![i] = inode], inode, n, offset, len, byte)
            IN  IF need > 0 THEN SaveBitmap(image, bitmap \cup Range(fresh))
                ELSE disk' = image /\ UNCHANGED bitmap
  BY <1>1
<1> DEFINE ino == Grown(old, fresh, offset + len, now)
           c == [disk EXCEPT ![i] = ino]
           e == Stored(c, ino, n, offset, len, byte)
           used == bitmap \cup Range(fresh)
<1>3. IF need > 0 THEN SaveBitmap(e, used) ELSE disk' = e /\ bitmap' = bitmap
  BY <1>2
<1>4. i \in LiveIn(disk, bitmap) /\ old.type = "file" /\ offset <= size
  BY <1>1, WriteGranted
<1>5. /\ old \in Inode /\ size \in Nat /\ n \in Nat /\ n <= MaxPtrs
      /\ i \in bitmap /\ i \in Blocks /\ old.kind = "inode"
  BY <1>4, LiveInode DEF SoundState
<1>6. /\ need \in Int /\ offset + len \in Nat
      /\ BlocksFor(IF offset + len > size THEN offset + len ELSE size) = IF need > 0 THEN n + need ELSE n
      /\ idx = (offset \div BlockSize) .. (n + need - 1)
      /\ offset \div BlockSize \in Nat /\ offset \div BlockSize <= n
  <2> HIDE DEF need, n, size, i, idx
  <2>1. /\ BlocksNeeded(size, offset, len) \in Int
        /\ BlocksFor(IF offset + len > size THEN offset + len ELSE size)
              = IF BlocksNeeded(size, offset, len) > 0 THEN BlocksFor(size) + BlocksNeeded(size, offset, len)
                ELSE BlocksFor(size)
        /\ offset \div BlockSize \in Nat /\ offset \div BlockSize <= BlocksFor(size)
        /\ (offset + len - 1) \div BlockSize = BlocksFor(size) + BlocksNeeded(size, offset, len) - 1
    BY <1>4, <1>5, WriteSizes
  <2>2. need = BlocksNeeded(size, offset, len) /\ n = BlocksFor(size)
    BY DEF need, n
  <2>3. idx = (offset \div BlockSize) .. ((offset + len - 1) \div BlockSize)
    BY DEF idx, WriteIdx
  <2> QED
    BY <2>1, <2>2, <2>3
<1> HIDE DEF need, n, size, i, idx
<1>7. /\ fresh \in [1 .. need -> Blocks \ bitmap]
      /\ \A j, k \in 1 .. need : fresh[j] = fresh[k] => j = k
      /\ fresh \in [1 .. need -> Blocks]
  BY <1>6, FirstFreeProperty
<1>8. need > 0 => n + need <= MaxPtrs
  <2> SUFFICES ASSUME need > 0 PROVE n + need <= MaxPtrs
    OBVIOUS
  <2>1. need \in Nat /\ Sound(disk, bitmap)
    BY <1>6 DEF SoundState
  <2>2. BlocksFor(disk[i].size) + need <= MaxPtrs
    BY <1>4, <1>7, <2>1, EnoughPointers
  <2> QED
    BY <2>2 DEF n, size
<1> DEFINE N == IF need > 0 THEN n + need ELSE n
<1>9. N \in Nat /\ N <= MaxPtrs /\ n <= N /\ n + need <= N
  BY <1>5, <1>6, <1>8
<1>10. /\ ino \in Inode /\ ino.kind = "inode" /\ ino.type = "file"
       /\ ino.size = IF offset + len > size THEN offset + len ELSE size
       /\ \A k \in PtrIdx : ino.ptrs[k] = IF k - n + 1 \in 1 .. need THEN fresh[k - n + 1] ELSE old.ptrs[k]
  <2> DEFINE ptrs == [k \in PtrIdx |-> IF k - n + 1 \in 1 .. need THEN fresh[k - n + 1] ELSE old.ptrs[k]]
             grown == IF offset + len > size THEN offset + len ELSE size
  <2>1. DOMAIN fresh = 1 .. need
    BY <1>7
  <2>2. ino = [old EXCEPT !.size = grown, !.mtime = now, !.ptrs = ptrs]
    BY <2>1 DEF Grown, n, size
  <2>3. old.ptrs \in [PtrIdx -> Blocks \cup {NoPtr}]
    BY <1>5 DEF Inode
  <2>4. ptrs \in [PtrIdx -> Blocks \cup {NoPtr}]
    BY <1>7, <2>3
  <2>5. \A k \in PtrIdx : ptrs[k] = IF k - n + 1 \in 1 .. need THEN fresh[k - n + 1] ELSE old.ptrs[k]
    OBVIOUS
  <2>6. grown \in Nat
    BY <1>5, <1>6
  <2> HIDE DEF ptrs, grown, ino
  <2>7. /\ ino \in Inode /\ ino.kind = "inode" /\ ino.type = "file"
        /\ ino.size = grown /\ ino.ptrs = ptrs
    BY <1>4, <1>5, <2>2, <2>4, <2>6 DEF Inode
  <2> QED
    BY <2>5, <2>7 DEF grown
<1>11. DataIdx(ino) = 0 .. N - 1 /\ BlocksFor(ino.size) = N
  BY <1>6, <1>10 DEF DataIdx
<1> HIDE DEF ino, N
<1>12. \A k \in 0 .. N - 1 :
          /\ k < n => ino.ptrs[k] = old.ptrs[k]
          /\ k >= n => k - n + 1 \in 1 .. need /\ ino.ptrs[k] = fresh[k - n + 1]
  <2> TAKE k \in 0 .. N - 1
  <2>1. k \in PtrIdx
    BY <1>9, LayoutAssumption DEF PtrIdx
  <2>2. k >= n => k - n + 1 \in 1 .. need
    <3>1. n \in Nat /\ need \in Int
      BY <1>5, <1>6, Zenon
    <3>2. CASE need > 0
      <4>1. N = n + need
        BY <3>2 DEF N
      <4> QED
        BY <3>1, <4>1
    <3>3. CASE ~(need > 0)
      <4>1. N = n
        BY <3>3 DEF N
      <4> QED
        BY <3>1, <4>1
    <3> QED
      BY <3>2, <3>3
  <2>3. k < n => k - n + 1 \notin 1 .. need
    BY <1>5, <1>6
  <2> QED
    BY <1>10, <2>1, <2>2, <2>3
<1>13. DataIdx(old) = 0 .. n - 1
  BY DEF DataIdx, n, size
<1> HIDE DEF old
<1>14. /\ \A k \in 0 .. n - 1 : old.ptrs[k] \in bitmap /\ disk[old.ptrs[k]].kind = "data"
       /\ \A k, l \in 0 .. n - 1 : old.ptrs[k] = old.ptrs[l] => k = l
  BY <1>4, <1>13 DEF SoundState, Sound, InodesFit, PtrsDiffer, old
<1>15. \A b \in DataBlocks(old) : b \in bitmap /\ disk[b].kind = "data"
  BY <1>13, <1>14 DEF DataBlocks
<1>16. bitmap \subseteq Blocks /\ disk \in [Blocks -> Content]
  BY DEF SoundState, Sound, Typed
<1>17. \A k \in 0 .. N - 1 : ino.ptrs[k] \in Blocks /\ ino.ptrs[k] # i
  <2> TAKE k \in 0 .. N - 1
  <2>1. CASE k < n
    <3>1. k \in 0 .. n - 1 /\ ino.ptrs[k] = old.ptrs[k]
      BY <1>5, <1>9, <1>12, <2>1
    <3> QED
      BY <1>5, <1>14, <1>16, <3>1 DEF old
  <2>2. CASE ~(k < n)
    <3>1. k - n + 1 \in 1 .. need /\ ino.ptrs[k] = fresh[k - n + 1]
      BY <1>5, <1>9, <1>12, <2>2
    <3> QED
      BY <1>5, <1>7, <3>1
  <2> QED
    BY <2>1, <2>2
<1>18. \A k \in idx : k \in 0 .. N - 1
  BY <1>5, <1>6, <1>9
<1>19. /\ c \in [Blocks -> Content] /\ c[i] = ino
       /\ \A b \in Blocks : b # i => c[b] = disk[b]
  BY <1>5, <1>10, <1>16 DEF Content
<1> HIDE DEF c
<1>20. /\ e \in [Blocks -> Content]
       /\ \A b \in Blocks : \/ (\A k \in idx : ino.ptrs[k] # b) /\ e[b] = c[b]
                            \/ (\E k \in idx : ino.ptrs[k] = b) /\ e[b].kind = "data"
  BY <1>17, <1>18, <1>19, StoredEffect DEF idx
<1> HIDE DEF e
<1>21. e[i] = ino
  BY <1>5, <1>17, <1>18, <1>19, <1>20
<1>22. \A b \in DataBlocks(ino) : \E k \in 0 .. N - 1 : b = ino.ptrs[k]
  BY <1>11 DEF DataBlocks
<1>23. \A k \in idx : ino.ptrs[k] \in DataBlocks(ino)
  BY <1>11, <1>18 DEF DataBlocks
<1>24. \A b \in DataBlocks(ino) : b \in bitmap => b \in DataBlocks(old)
  <2> SUFFICES ASSUME NEW k \in 0 .. N - 1, ino.ptrs[k] \in bitmap
               PROVE  ino.ptrs[k] \in DataBlocks(old)
    BY <1>22
  <2>1. CASE k < n
    <3>1. k \in 0 .. n - 1 /\ ino.ptrs[k] = old.ptrs[k]
      BY <1>5, <1>9, <1>12, <2>1
    <3> QED
      BY <1>13, <3>1 DEF DataBlocks
  <2>2. CASE ~(k < n)
    <3>1. k - n + 1 \in 1 .. need /\ ino.ptrs[k] = fresh[k - n + 1]
      BY <1>5, <1>9, <1>12, <2>2
    <3> QED
      BY <1>7, <3>1
  <2> QED
    BY <2>1, <2>2
<1>25. \A b \in DataBlocks(ino) : b \in Blocks /\ e[b].kind = "data"
  <2> SUFFICES ASSUME NEW k \in 0 .. N - 1
               PROVE  ino.ptrs[k] \in Blocks /\ e[ino.ptrs[k]].kind = "data"
    BY <1>22
  <2>1. ino.ptrs[k] \in Blocks /\ ino.ptrs[k] # i
    BY <1>17
  <2>2. CASE k < n
    <3>1. k \in 0 .. n - 1 /\ ino.ptrs[k] = old.ptrs[k]
      BY <1>5, <1>9, <1>12, <2>2
    <3>2. c[ino.ptrs[k]].kind = "data"
      BY <1>14, <1>19, <2>1, <3>1
    <3> QED
      BY <1>20, <2>1, <3>2
  <2>3. CASE ~(k < n)
    <3>1. k - n + 1 \in 1 .. need /\ ino.ptrs[k] = fresh[k - n + 1]
      BY <1>5, <1>9, <1>12, <2>3
    <3>2. k \in idx
      BY <1>5, <1>6, <1>9, <2>3, <3>1
    <3> QED
      BY <1>20, <2>1, <3>2
  <2> QED
    BY <2>2, <2>3, <2>1
<1>26. \A k, l \in 0 .. N - 1 : ino.ptrs[k] = ino.ptrs[l] => k = l
  <2> SUFFICES ASSUME NEW k \in 0 .. N - 1, NEW l \in 0 .. N - 1, ino.ptrs[k] = ino.ptrs[l]
               PROVE  k = l
    OBVIOUS
  <2>1. \A x \in 0 .. N - 1 : x < n => x \in 0 .. n - 1 /\ ino.ptrs[x] = old.ptrs[x] /\ ino.ptrs[x] \in bitmap
    BY <1>5, <1>9, <1>12, <1>14
  <2>2. \A x \in 0 .. N - 1 : x >= n => /\ x - n + 1 \in 1 .. need /\ ino.ptrs[x] = fresh[x - n + 1]
                                        /\ ino.ptrs[x] \notin bitmap
    BY <1>7, <1>12
  <2>3. CASE k < n /\ l < n
    BY <1>14, <2>1, <2>3
  <2>4. CASE k >= n /\ l >= n
    <3>1. k - n + 1 = l - n + 1
      BY <1>7, <2>2, <2>4
    <3> QED
      BY <1>5, <1>9, <3>1
  <2>5. CASE ~(k < n /\ l < n) /\ ~(k >= n /\ l >= n)
    <3>1. (k < n /\ l >= n) \/ (k >= n /\ l < n)
      <4>1. n \in Nat /\ k \in Int /\ l \in Int
        BY <1>5, <1>9
      <4> QED
        BY <2>5, <4>1
    <3> QED
      BY <2>1, <2>2, <3>1, Zenon
  <2> QED
    BY <2>3, <2>4, <2>5
<1>27. \A b \in bitmap : b # i /\ b \notin DataBlocks(old) => e[b] = disk[b]
  <2> SUFFICES ASSUME NEW b \in bitmap, b # i, b \notin DataBlocks(old) PROVE e[b] = disk[b]
    OBVIOUS
  <2>1. b \in Blocks /\ b \notin DataBlocks(ino)
    BY <1>16, <1>24
  <2>2. \A k \in idx : ino.ptrs[k] # b
    BY <1>23, <2>1
  <2> QED
    BY <1>19, <1>20, <2>1, <2>2
<1>28. used = (bitmap \ DataBlocks(old)) \cup DataBlocks(ino)
  <2>1. \A b \in DataBlocks(old) : b \in DataBlocks(ino)
    <3> SUFFICES ASSUME NEW k \in 0 .. n - 1 PROVE old.ptrs[k] \in DataBlocks(ino)
      BY <1>13 DEF DataBlocks
    <3>1. k \in 0 .. N - 1 /\ ino.ptrs[k] = old.ptrs[k]
      BY <1>5, <1>9, <1>12
    <3> QED
      BY <1>11, <3>1 DEF DataBlocks
  <2>2. \A b \in Range(fresh) : b \in DataBlocks(ino)
    <3> SUFFICES ASSUME NEW j \in 1 .. need PROVE fresh[j] \in DataBlocks(ino)
      BY <1>7 DEF Range
    <3> DEFINE k == j + n - 1
    <3>1. k \in 0 .. N - 1 /\ k >= n /\ k - n + 1 = j
      BY <1>5, <1>6 DEF N
    <3>2. ino.ptrs[k] = fresh[j]
      BY <1>12, <3>1
    <3> HIDE DEF k
    <3> QED
      BY <1>11, <3>1, <3>2 DEF DataBlocks
  <2>3. \A b \in DataBlocks(ino) : b \in DataBlocks(old) \/ b \in Range(fresh)
    <3> SUFFICES ASSUME NEW k \in 0 .. N - 1
                 PROVE  ino.ptrs[k] \in DataBlocks(old) \/ ino.ptrs[k] \in Range(fresh)
      BY <1>22
    <3>1. CASE k < n
      <4>1. k \in 0 .. n - 1 /\ ino.ptrs[k] = old.ptrs[k]
        BY <1>5, <1>9, <1>12, <3>1
      <4> QED
        BY <1>13, <4>1 DEF DataBlocks
    <3>2. CASE ~(k < n)
      <4>1. k - n + 1 \in 1 .. need /\ ino.ptrs[k] = fresh[k - n + 1]
        BY <1>5, <1>9, <1>12, <3>2
      <4> QED
        BY <1>7, <4>1 DEF Range
    <3> QED
      BY <3>1, <3>2
  <2> QED
    BY <1>15, <2>1, <2>2, <2>3
<1>29. Rewriting(disk, bitmap, e, used, i)
  <2>1. used = (bitmap \ DataBlocks(disk[i])) \cup DataBlocks(e[i])
    BY <1>21, <1>28 DEF old
  <2>2. \A k, l \in DataIdx(ino) : ino.ptrs[k] = ino.ptrs[l] => k = l
    BY <1>11, <1>26
  <2>3. BlocksFor(ino.size) <= MaxPtrs
    BY <1>9, <1>11
  <2>4. disk[i] = old
    BY DEF old
  <2> HIDE DEF used
  <2> QED
    BY <1>4, <1>10, <1>20, <1>21, <1>24, <1>25, <1>27, <2>1, <2>2, <2>3, <2>4 DEF Rewriting
<1>30. Leaves(e) /\ bitmap' = used
  <2>1. CASE need > 0
    <3> HIDE DEF used
    <3> QED
      BY <1>3, <1>20, <2>1, SaveLeaves
  <2>2. CASE ~(need > 0)
    <3>1. used = bitmap
      <4>1. Range(fresh) = {}
        BY <1>6, <1>7, <2>2 DEF Range
      <4> QED
        BY <4>1
    <3>2. e[BitmapBlock] = disk[BitmapBlock]
      <4>1. BitmapBlock \in bitmap /\ disk[BitmapBlock].kind = "bitmap"
        BY DEF SoundState, Sound, ReservedIn
      <4>2. BitmapBlock # i /\ BitmapBlock \notin DataBlocks(old)
        BY <1>5, <1>15, <4>1 DEF old
      <4> QED
        BY <1>27, <4>1, <4>2
    <3>3. disk' = e /\ bitmap' = bitmap
      BY <1>3, <2>2
    <3>4. Leaves(e)
      BY <1>20, <3>2, <3>3, UnsavedLeaves
    <3> QED
      BY <3>1, <3>3, <3>4
  <2> QED
    BY <2>1, <2>2
<1>31. Rewriting(disk, bitmap, e, bitmap', i)
  BY <1>29, <1>30
<1> QED
  BY <1>1, <1>2, <1>6, <1>21, <1>30, <1>31 DEF i, n, size, old, need, ino, c, e, used

\* write keeps the invariant.
LEMMA WriteKeeps ==
    ASSUME SoundState, NEW path \in Seq(Names), NEW offset \in Nat, NEW len \in Nat \ {0},
           NEW byte \in Bytes, NEW now \in Times, Write(path, offset, len, byte, now)
    PROVE  SoundState'
<1>1. CASE Fail("write", path, WriteStatus(path, offset, len))
  BY <1>1, WriteGranted, FailKeeps DEF Handlers
<1>2. CASE ~Fail("write", path, WriteStatus(path, offset, len))
  <2> DEFINE i == ResolveFile(path)
             need == BlocksNeeded(disk[i].size, offset, len)
  <2>1. /\ need \in Int /\ AddFree(-need) /\ Done("write", path, len)
        /\ \E image : Rewriting(disk, bitmap, image, bitmap', i) /\ Leaves(image)
    BY <1>2, WriteEffect
  <2> HIDE DEF i, need
  <2>2. PICK image : Rewriting(disk, bitmap, image, bitmap', i) /\ Leaves(image)
    BY <2>1
  <2>3. Sound(image, bitmap')
    BY <2>2, RewritingSound DEF SoundState
  <2>4. Sound(disk', bitmap') /\ WrittenBack'
    BY <2>2, <2>3, LeavesSound
  <2>5. CountersOK' /\ ReplyOK'
    BY <2>1, AddFreeTyped, ReplyTyped DEF SoundState, Done, Handlers
  <2> QED
    BY <2>4, <2>5, SoundStateNext
<1> QED
  BY <1>1, <1>2

\* A byte of a file is read from the block that holds it.
LEMMA ByteRead ==
    ASSUME SoundState, NEW i \in LiveIn(disk, bitmap), disk[i].type = "file",
           NEW x \in Nat, x < disk[i].size
    PROVE  ByteAt(i, x) \in Byte
<1>1. disk[i].size \in Nat
  BY LiveInode DEF SoundState
<1>2. BlockSize \in Nat \ {0}
  BY LayoutAssumption
<1> DEFINE k == x \div BlockSize
           last == (disk[i].size - 1) \div BlockSize
           o == x % BlockSize
<1>3. BlocksFor(disk[i].size) = last + 1
  <2>1. disk[i].size \in Nat \ {0}
    BY <1>1
  <2> QED
    BY <2>1, LastBlock
<1>4. k \in Int /\ last \in Int /\ k <= last
  <2> DEFINE y == disk[i].size - 1
  <2>1. y \in Int /\ x \in Int /\ x <= y
    BY <1>1
  <2> HIDE DEF y
  <2>2. x \div BlockSize \in Int /\ y \div BlockSize \in Int
    BY <1>2, <2>1, Division, Zenon
  <2>3. x \div BlockSize <= y \div BlockSize
    BY <1>2, <2>1, DivMonotone, Zenon
  <2>4. k = x \div BlockSize /\ last = y \div BlockSize
    BY DEF y
  <2> HIDE DEF k, last
  <2> QED
    BY <2>2, <2>3, <2>4
<1>5. 0 <= k
  <2>1. 0 \div BlockSize = 0
    BY <1>2, QuotientUnique
  <2>2. 0 \div BlockSize <= x \div BlockSize
    BY <1>2, DivMonotone
  <2> QED
    BY <2>1, <2>2
<1>6. o \in Offs
  BY <1>2, Division DEF Offs
<1> HIDE DEF k, last, o
<1>7. k \in DataIdx(disk[i])
  BY <1>3, <1>4, <1>5 DEF DataIdx
<1>8. disk[disk[i].ptrs[k]] \in Content /\ disk[disk[i].ptrs[k]].kind = "data"
  BY <1>7 DEF SoundState, Sound, Typed, InodesFit
<1>9. RawBytes(disk[disk[i].ptrs[k]]) \in [Offs -> Byte]
  BY <1>8, ContentKinds DEF RawBytes, DataBlock
<1>10. ByteAt(i, x) = RawBytes(disk[disk[i].ptrs[k]])[o]
  BY DEF ByteAt, k, o
<1> QED
  BY <1>6, <1>9, <1>10

\* read changes nothing, and answers with bytes (fs_read).
LEMMA ReadKeeps ==
    ASSUME SoundState, NEW path \in Seq(Names), NEW offset \in Nat, NEW len \in Nat \ {0},
           Read(path, offset, len)
    PROVE  SoundState'
<1> DEFINE i == ResolveFile(path)
           size == disk[i].size
           ret == ReadStatus(path, offset, len)
           stuck == \E k \in ReadIdx(size, offset, len) : disk[i].ptrs[k] \notin Blocks
<1>1. i \in Int /\ (i >= 0 => i \in LiveIn(disk, bitmap) /\ disk[i].type = "file")
  BY ResolvePath
<1>2. i >= 0 => size \in Nat
  BY <1>1, LiveInode DEF SoundState
<1>3. ret = IF i < 0 THEN i
            ELSE IF offset >= size THEN 0
            ELSE IF stuck THEN EIO
            ELSE IF offset + len > size THEN size - offset
            ELSE len
  BY DEF ReadStatus
<1> HIDE DEF i, size, stuck, ret
<1>4. ret \in Int /\ (ret >= 0 => i >= 0 /\ (ret = 0 \/ offset + ret <= size))
  BY <1>1, <1>2, <1>3 DEF EIO
<1>5. CASE Fail("read", path, ret)
  BY <1>4, <1>5, FailKeeps DEF Handlers
<1>6. CASE ~Fail("read", path, ret)
  <2> DEFINE data == [n \in 1 .. ret |-> ByteAt(i, offset + n - 1)]
  <2>1. /\ ret >= 0 /\ reply' = [op |-> "read", path |-> path, ret |-> ret, data |-> data]
        /\ disk' = disk /\ bitmap' = bitmap /\ statVfs' = statVfs
    BY <1>6 DEF Read, ret, i
  <2>2. \A n \in 1 .. ret : ByteAt(i, offset + n - 1) \in Byte
    <3> TAKE n \in 1 .. ret
    <3>1. offset + n - 1 \in Nat /\ offset + n - 1 < size
      BY <1>2, <1>4, <2>1
    <3>2. i \in LiveIn(disk, bitmap) /\ disk[i].type = "file"
      BY <1>1, <1>4, <2>1
    <3> QED
      BY <3>1, <3>2, ByteRead DEF size
  <2>3. data \in Seq(Byte)
    <3>1. ret \in Nat
      BY <1>4, <2>1
    <3> QED
      BY <2>2, <3>1
  <2> HIDE DEF data
  <2>4. ReplyOK'
    BY <1>4, <2>1, <2>3 DEF ReplyOK, Handlers
  <2>5. Sound(disk', bitmap') /\ WrittenBack' /\ CountersOK'
    BY <2>1 DEF SoundState, WrittenBack, CountersOK
  <2> QED
    BY <2>4, <2>5, SoundStateNext
<1> QED
  BY <1>5, <1>6 DEF ret

\* getattr, readdir and statfs only look.
LEMMA LooksKeep ==
    ASSUME SoundState, NEW path \in Seq(Names), Getattr(path) \/ Readdir(path) \/ Statfs
    PROVE  SoundState'
<1>1. Resolve(path) \in Int
  BY ResolvePath
<1>2. ReaddirStatus(path) \in Int
  BY <1>1 DEF ReaddirStatus, ENOTDIR
<1>3. "getattr" \in Handlers /\ "readdir" \in Handlers /\ "statfs" \in Handlers /\ OK \in Int
      /\ <<>> \in Seq(Names)
  BY DEF Handlers, OK
<1>4. CASE Getattr(path)
  BY <1>1, <1>3, <1>4, FailKeeps, LookKeeps DEF Getattr
<1>5. CASE Readdir(path)
  BY <1>2, <1>3, <1>5, FailKeeps, LookKeeps DEF Readdir
<1>6. CASE Statfs
  BY <1>3, <1>6, LookKeeps DEF Statfs
<1> QED
  BY <1>4, <1>5, <1>6

\* The disk is finite, so its free blocks can be counted.
LEMMA BlocksFinite == IsFiniteSet(Blocks)
<1>1. DiskSize - 1 \in Nat
  BY LayoutAssumption
<1>2. IsFiniteSet(0 .. DiskSize - 1)
  BY <1>1, IntervalSize, Zenon
<1> QED
  BY <1>2 DEF Blocks

\* A mount finds on disk the bitmap that memory held, so it keeps everything (fs_init).
LEMMA MountKeeps ==
    ASSUME SoundState, Mount
    PROVE  SoundState'
<1>1. disk' = disk /\ bitmap' = bitmap
  BY DEF Mount, Mounted, SoundState, WrittenBack
<1>2. CountersOK'
  <2>1. IsFiniteSet(Blocks)
    BY BlocksFinite
  <2> DEFINE free == Blocks \ disk[BitmapBlock].used
  <2>2. IsFiniteSet(free)
    BY <2>1, FS_Subset
  <2>3. Cardinality(free) \in Int
    <3>1. Cardinality(free) \in Nat
      BY <2>2, FS_CardinalityType, Zenon
    <3> QED
      BY <3>1
  <2>4. statVfs' = [f_bfree |-> Cardinality(free), f_bavail |-> Cardinality(free)]
    BY DEF Mount, Mounted
  <2> HIDE DEF free
  <2> QED
    BY <2>3, <2>4 DEF CountersOK
<1>3. ReplyOK'
  <2>1. "init" \in Handlers /\ <<>> \in Seq(Names) /\ OK \in Int
    BY DEF Handlers, OK
  <2>2. Reply("init", <<>>, OK)
    BY DEF Mount, Done
  <2> QED
    BY <2>1, <2>2, ReplyTyped, Zenon
<1>4. Sound(disk', bitmap') /\ WrittenBack'
  BY <1>1 DEF SoundState, WrittenBack
<1> QED
  BY <1>2, <1>3, <1>4, SoundStateNext

-----------------------------------------------------------------------------
(* The invariant holds initially, is kept by every step, and so always     *)

\* What the image made from disk2.in holds, block by block.
LEMMA EmptyImageBlocks ==
    ASSUME NEW perm \in Perms, NEW mtime \in Times
    PROVE  LET e == EmptyImage(perm, mtime) IN
           /\ e \in [Blocks -> Content] /\ InUse \subseteq Blocks
           /\ e[SuperBlock].kind = "super" /\ e[BitmapBlock].kind = "bitmap"
           /\ e[BitmapBlock].used = InUse
           /\ e[RootInode] = NewInode("dir", perm, mtime, RootBlock) /\ e[RootBlock] = EmptyDir
<1> DEFINE e == EmptyImage(perm, mtime)
<1>1. /\ SuperBlock \in Blocks /\ BitmapBlock \in Blocks /\ RootInode \in Blocks /\ RootBlock \in Blocks
      /\ SuperBlock # BitmapBlock /\ SuperBlock # RootInode /\ BitmapBlock # RootInode
      /\ RootBlock # SuperBlock /\ RootBlock # BitmapBlock /\ RootBlock # RootInode
  BY LayoutAssumption DEF Blocks, SuperBlock, BitmapBlock, RootInode, RootBlock
<1>2. InUse \subseteq Blocks
  BY <1>1 DEF InUse
<1>3. /\ e[SuperBlock] = [kind |-> "super"] /\ e[BitmapBlock] = [kind |-> "bitmap", used |-> InUse]
      /\ e[RootInode] = NewInode("dir", perm, mtime, RootBlock) /\ e[RootBlock] = EmptyDir
  BY <1>1 DEF EmptyImage
<1>4. \A b \in Blocks : b \notin InUse => e[b] = ZeroBlock
  BY DEF EmptyImage, InUse
<1>5. /\ [kind |-> "super"] \in Content /\ [kind |-> "bitmap", used |-> InUse] \in Content
      /\ EmptyDir \in Content /\ ZeroBlock \in Content
  BY <1>2 DEF Content, Super, Bitmap, EmptyDir, DirBlock, ZeroBlock, DataBlock, Byte
<1>6. NewInode("dir", perm, mtime, RootBlock) \in Content
  BY <1>1, NewInodeTyped DEF Content
<1>7. \A b \in Blocks : e[b] \in Content
  BY <1>3, <1>4, <1>5, <1>6 DEF InUse
<1>8. e = [b \in Blocks |-> e[b]]
  BY DEF EmptyImage
<1> HIDE DEF e
<1>9. e \in [Blocks -> Content]
  BY <1>7, <1>8
<1> QED
  BY <1>2, <1>3, <1>9 DEF e

\* It is sound: the root directory is empty, and nothing else is in use.
LEMMA EmptyImageSound ==
    ASSUME NEW perm \in Perms, NEW mtime \in Times
    PROVE  LET d == EmptyImage(perm, mtime) IN
           /\ Sound(d, InUse) /\ LiveIn(d, InUse) = {RootInode} /\ DirsIn(d, InUse) = {RootInode}
           /\ Slot(d, RootInode) = {}
<1> DEFINE d == EmptyImage(perm, mtime)
           ino == NewInode("dir", perm, mtime, RootBlock)
<1>1. /\ d \in [Blocks -> Content] /\ InUse \subseteq Blocks
      /\ d[SuperBlock].kind = "super" /\ d[BitmapBlock].kind = "bitmap"
      /\ d[RootInode] = ino /\ d[RootBlock] = EmptyDir
  BY EmptyImageBlocks
<1>2. RootBlock \in Blocks
  BY LayoutAssumption DEF Blocks, RootBlock
<1>3. /\ ino.kind = "inode" /\ ino.type = "dir" /\ ino.size = BlockSize /\ ino.ptrs[0] = RootBlock
  BY <1>2, NewInodeTyped
<1> HIDE DEF d, ino
<1>4. LiveIn(d, InUse) = {RootInode} /\ DirsIn(d, InUse) = {RootInode}
  BY <1>1, <1>3 DEF LiveIn, DirsIn, IsInode, InUse, EmptyDir
<1>5. DataIdx(d[RootInode]) = {0} /\ BlocksFor(BlockSize) = 1
  BY <1>1, <1>3, BlocksForProperty DEF DataIdx
<1>6. Slot(d, RootInode) = {}
  BY <1>1, <1>3 DEF Slot, Entries, EmptyDir
<1>7. Typed(d, InUse) /\ ReservedIn(d, InUse)
  BY <1>1 DEF Typed, ReservedIn, InUse
<1>8. InodesFit(d, InUse)
  <2>1. BlocksFor(d[RootInode].size) <= MaxPtrs
    BY <1>1, <1>3, <1>5, LayoutAssumption
  <2>2. d[RootInode].ptrs[0] \in InUse /\ d[d[RootInode].ptrs[0]].kind = "dir"
    BY <1>1, <1>3 DEF InUse, EmptyDir
  <2> QED
    BY <1>1, <1>3, <1>4, <1>5, <2>1, <2>2 DEF InodesFit
<1>9. EntriesLive(d, InUse) /\ EntriesDiffer(d, InUse)
  BY <1>4, <1>6 DEF EntriesLive, EntriesDiffer
<1>10. PtrsDiffer(d, InUse)
  BY <1>4, <1>5 DEF PtrsDiffer
<1> QED
  BY <1>4, <1>6, <1>7, <1>8, <1>9, <1>10 DEF Sound, d

\* The invariant holds when the image has just been made and mounted.
LEMMA InitKeeps == Init => SoundState
<1> SUFFICES ASSUME Init PROVE SoundState
  OBVIOUS
<1>1. PICK perm \in Perms, mtime \in Times : disk = EmptyImage(perm, mtime)
  BY DEF Init
<1>2. bitmap = InUse
  BY DEF Init
<1>3. Sound(disk, bitmap)
  BY <1>1, <1>2, EmptyImageSound
<1>4. WrittenBack
  BY <1>1, <1>2, EmptyImageBlocks DEF WrittenBack
<1>5. CountersOK
  <2> DEFINE free == Blocks \ bitmap
  <2>1. Cardinality(free) \in Nat
    BY BlocksFinite, FS_Subset, FS_CardinalityType
  <2>2. statVfs = [f_bfree |-> Cardinality(free), f_bavail |-> Cardinality(free)]
    BY DEF Init, FreeBlocks
  <2> HIDE DEF free
  <2> QED
    BY <2>1, <2>2 DEF CountersOK
<1>6. ReplyOK
  BY DEF Init, ReplyOK, Handlers, OK
<1> QED
  BY <1>3, <1>4, <1>5, <1>6 DEF SoundState

\* Every call, whichever handler serves it and whatever it returns, keeps the invariant.
LEMMA NextKeeps == SoundState /\ [Next]_vars => SoundState'
<1> SUFFICES ASSUME SoundState, [Next]_vars PROVE SoundState'
  OBVIOUS
<1> USE ClientAssumption
<1>1. \A path \in Paths : path \in Seq(Names)
  OBVIOUS
<1>2. \A path \in Below : path \in Seq(Names) /\ path # <<>>
  BY DEF Below
<1>3. /\ \A x \in IoOffsets : x \in Nat
      /\ \A x \in IoLens : x \in Nat \ {0}
      /\ \A x \in TruncLens : x \in Int
  OBVIOUS
<1>4. ASSUME NEW path \in Below, NEW perm \in Perms, NEW now \in Times, Create(path, perm, now)
      PROVE  SoundState'
  BY <1>2, <1>4, CreateKeeps, Zenon
<1>5. ASSUME NEW path \in Below, NEW perm \in Perms, NEW now \in Times, Mkdir(path, perm, now)
      PROVE  SoundState'
  BY <1>2, <1>5, MkdirKeeps, Zenon
<1>6. ASSUME NEW path \in Below, Unlink(path)
      PROVE  SoundState'
  BY <1>2, <1>6, UnlinkKeeps, Zenon
<1>7. ASSUME NEW path \in Below, Rmdir(path)
      PROVE  SoundState'
  BY <1>2, <1>7, RmdirKeeps, Zenon
<1>8. ASSUME NEW src \in Below, NEW dst \in Paths, Rename(src, dst)
      PROVE  SoundState'
  BY <1>1, <1>2, <1>8, RenameKeeps, Zenon
<1>9. ASSUME NEW path \in Paths, NEW perm \in Perms, Chmod(path, perm)
      PROVE  SoundState'
  BY <1>1, <1>9, ChmodKeeps, Zenon
<1>10. ASSUME NEW path \in Paths, NEW time \in Times, Utime(path, time)
       PROVE  SoundState'
  BY <1>1, <1>10, UtimeKeeps, Zenon
<1>11. ASSUME NEW path \in Paths, NEW len \in TruncLens, Truncate(path, len)
       PROVE  SoundState'
  BY <1>1, <1>3, <1>11, TruncateKeeps, Zenon
<1>12. ASSUME NEW path \in Paths, NEW offset \in IoOffsets, NEW len \in IoLens, Read(path, offset, len)
       PROVE  SoundState'
  BY <1>1, <1>3, <1>12, ReadKeeps, Zenon
<1>13. ASSUME NEW path \in Paths, NEW offset \in IoOffsets, NEW len \in IoLens, NEW byte \in Bytes,
              NEW now \in Times, Write(path, offset, len, byte, now)
       PROVE  SoundState'
  BY <1>1, <1>3, <1>13, WriteKeeps, Zenon
<1>14. ASSUME NEW path \in Paths, Getattr(path) \/ Readdir(path)
       PROVE  SoundState'
  BY <1>1, <1>14, LooksKeep, Zenon
<1>15. CASE Statfs
  <2>1. <<>> \in Seq(Names)
    OBVIOUS
  <2> QED
    BY <1>15, <2>1, LooksKeep, Zenon
<1>16. CASE Mount
  BY <1>16, MountKeeps, Zenon
<1>17. CASE UNCHANGED vars
  BY <1>17 DEF vars, SoundState, WrittenBack, CountersOK, ReplyOK
<1> QED
  BY <1>4, <1>5, <1>6, <1>7, <1>8, <1>9, <1>10, <1>11, <1>12, <1>13, <1>14, <1>15, <1>16, <1>17,
     Zenon DEF Next

\* Everything below holds in every state that calls can lead to: this is the invariant itself.
THEOREM InvariantHolds == Spec => []IInv
<1>1. SoundState => IInv
  BY SoundIsIInv DEF SoundState
<1> QED
  BY <1>1, InitKeeps, NextKeeps, PTL DEF Spec

\* The image, the bitmap, the counters and the replies are of their types: no pointer is
\* out of range, no name in a directory is one the format cannot hold.
THEOREM TypeCorrect == Spec => []TypeOK
<1>1. IInv => TypeOK
  BY DEF IInv
<1> QED
  BY <1>1, InvariantHolds, PTL

\* Allocation and deletion never leave a reference to a block that is free or used otherwise.
THEOREM NothingDangles == Spec => []NoDangling
<1>1. IInv => NoDangling
  BY DEF IInv
<1> QED
  BY <1>1, InvariantHolds, PTL

\* No call makes two references to one block or one inode.
THEOREM NothingShared == Spec => []NoSharing
<1>1. IInv => NoSharing
  BY DEF IInv
<1> QED
  BY <1>1, InvariantHolds, PTL

\* Every call that changes the bitmap writes it to its block before it returns.
THEOREM BitmapWrittenBack == Spec => []WrittenBack
<1>1. IInv => WrittenBack
  BY DEF IInv
<1> QED
  BY <1>1, InvariantHolds, PTL
===============================================================================
