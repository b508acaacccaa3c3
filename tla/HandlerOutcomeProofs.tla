------------------------- MODULE HandlerOutcomeProofs -------------------------
(***************************************************************************)
(* What the queues of the split handlers leave, and what the atomic handlers *)
(* of FileSystem make of an image, a bitmap and counters: what a thread has *)
(* to know on its way so that the one becomes the other, and the handlers   *)
(* that look, remove, rename or change an inode.                            *)
(***************************************************************************)
EXTENDS HandlerStepsProofs

-----------------------------------------------------------------------------
(* Running a queue                                                         *)

\* What the jobs of a queue work on: the image, the globals, and the locals of the handler.
Scene(d, m, v, seen, buf) == [disk |-> d, bitmap |-> m, statVfs |-> v, seen |-> seen, buf |-> buf]

\* The bytes that fs_write stores for a block of its buffer.
Filling(c, slot, buf) ==
    LET first == c.offset \div BlockSize + slot - 1 IN
    [o \in Offs |-> IF first * BlockSize + o \in c.offset .. c.offset + c.len - 1 THEN c.byte ELSE buf[slot][o]]

\* Counters that have moved by n.
CountedBy(v, n) == [f_bfree |-> v.f_bfree + n, f_bavail |-> v.f_bavail + n]

\* Job j of call c leads from scene x to scene y, without an error.
Works(c, j, x, y) ==
    \/ /\ j.do = "put" /\ j.lba \in Blocks \ {SuperBlock}
       /\ y = Scene(Written(x.disk, j), x.bitmap, x.statVfs, x.seen, x.buf)
    \/ /\ j.do = "save"
       /\ y = Scene(Saved(x.disk, x.bitmap), x.bitmap, x.statVfs, x.seen, x.buf)
    \/ /\ j.do = "store" /\ j.lba \in Blocks \ {SuperBlock}
       /\ y = Scene([x.disk EXCEPT ![j.lba] = [kind |-> "data", bytes |-> Filling(c, j.slot, x.buf)]],
                    x.bitmap, x.statVfs, x.seen, x.buf)
    \/ /\ j.do = "fetch" /\ j.lba \in Blocks
       /\ y = Scene(x.disk, x.bitmap, x.statVfs, x.seen, [x.buf EXCEPT ![j.slot] = RawBytes(x.disk[j.lba])])
    \/ /\ j.do = "load"
       /\ y = Scene(x.disk, x.bitmap, x.statVfs, [bitmap |-> x.bitmap, statVfs |-> x.statVfs], x.buf)
    \/ /\ j.do = "bits"
       /\ y = Scene(x.disk, IF j.flag THEN x.seen.bitmap \cup j.blocks ELSE x.seen.bitmap \ j.blocks,
                    x.statVfs, Idle.seen, x.buf)
    \/ /\ j.do = "count"
       /\ y = Scene(x.disk, x.bitmap, CountedBy(x.seen.statVfs, j.n), Idle.seen, x.buf)

\* A queue leads from x to y: its k-th job from one scene of f to the next.
Runs(c, q, x, y) ==
    /\ q \in Seq(Jobs)
    /\ \E f : /\ f[0] = x /\ f[Len(q)] = y
              /\ \A k \in 1 .. Len(q) : Works(c, q[k], f[k - 1], f[k])

\* A queue of no job, and of one.
LEMMA RunsOne ==
    ASSUME NEW c, NEW x
    PROVE  /\ Runs(c, <<>>, x, x)
           /\ \A y : Runs(c, <<>>, x, y) => y = x
           /\ \A y : \A j \in Jobs : Works(c, j, x, y) => Runs(c, <<j>>, x, y)
<1>1. Runs(c, <<>>, x, x)
  <2> DEFINE f == [k \in {0} |-> x]
  <2>1. f[0] = x /\ <<>> \in Seq(Jobs) /\ Len(<<>>) = 0
    OBVIOUS
  <2>2. \A k \in 1 .. Len(<<>>) : Works(c, <<>>[k], f[k - 1], f[k])
    BY <2>1
  <2> HIDE DEF f
  <2> QED
    BY <2>1, <2>2 DEF Runs
<1>2. ASSUME NEW y, Runs(c, <<>>, x, y)
      PROVE  y = x
  BY <1>2 DEF Runs
<1>3. ASSUME NEW j \in Jobs, NEW y, Works(c, j, x, y)
      PROVE  Runs(c, <<j>>, x, y)
  <2> DEFINE f == [k \in 0 .. 1 |-> IF k = 0 THEN x ELSE y]
  <2>1. f[0] = x /\ f[1] = y
    OBVIOUS
  <2>2. <<j>> \in Seq(Jobs) /\ Len(<<j>>) = 1 /\ <<j>>[1] = j
    OBVIOUS
  <2>3. \A k \in 1 .. 1 : k = 1
    OBVIOUS
  <2>4. \A k \in 1 .. Len(<<j>>) : Works(c, <<j>>[k], f[k - 1], f[k])
    BY <1>3, <2>1, <2>2, <2>3
  <2> QED
    BY <2>1, <2>2, <2>4 DEF Runs
<1> QED
  BY <1>1, <1>2, <1>3

\* One queue after another.
LEMMA RunsBoth ==
    ASSUME NEW c, NEW p, NEW q, NEW x, NEW y, NEW z, Runs(c, p, x, y), Runs(c, q, y, z)
    PROVE  Runs(c, p \o q, x, z)
<1>1. p \in Seq(Jobs) /\ q \in Seq(Jobs)
  BY DEF Runs
<1>2. PICK f : f[0] = x /\ f[Len(p)] = y /\ \A k \in 1 .. Len(p) : Works(c, p[k], f[k - 1], f[k])
  BY DEF Runs
<1>3. PICK g : g[0] = y /\ g[Len(q)] = z /\ \A k \in 1 .. Len(q) : Works(c, q[k], g[k - 1], g[k])
  BY DEF Runs
<1> DEFINE h == [k \in 0 .. Len(p) + Len(q) |-> IF k <= Len(p) THEN f[k] ELSE g[k - Len(p)]]
<1>4. /\ p \o q \in Seq(Jobs) /\ Len(p \o q) = Len(p) + Len(q) /\ Len(p) \in Nat /\ Len(q) \in Nat
      /\ \A k \in 1 .. Len(p) : (p \o q)[k] = p[k]
      /\ \A k \in Len(p) + 1 .. Len(p) + Len(q) : (p \o q)[k] = q[k - Len(p)]
  BY <1>1
<1>5. h[0] = x
  BY <1>2, <1>4
<1>6. h[Len(p) + Len(q)] = z
  <2>1. CASE Len(q) = 0
    BY <1>2, <1>3, <1>4, <2>1
  <2>2. CASE Len(q) # 0
    BY <1>3, <1>4, <2>2
  <2> QED
    BY <2>1, <2>2
<1>7. ASSUME NEW k \in 1 .. Len(p) + Len(q)
      PROVE  Works(c, (p \o q)[k], h[k - 1], h[k])
  <2>1. CASE k <= Len(p)
    <3>1. h[k - 1] = f[k - 1] /\ h[k] = f[k] /\ k \in 1 .. Len(p)
      BY <1>4, <2>1
    <3> QED
      BY <1>2, <1>4, <3>1
  <2>2. CASE k > Len(p)
    <3>1. k - Len(p) \in 1 .. Len(q) /\ k \in Len(p) + 1 .. Len(p) + Len(q) /\ h[k] = g[k - Len(p)]
      BY <1>4, <2>2
    <3>2. h[k - 1] = g[(k - Len(p)) - 1]
      <4>1. CASE k = Len(p) + 1
        <5>1. h[k - 1] = f[Len(p)] /\ (k - Len(p)) - 1 = 0
          BY <1>4, <4>1
        <5> QED
          BY <1>2, <1>3, <5>1
      <4>2. CASE k # Len(p) + 1
        BY <1>4, <2>2, <4>2
      <4> QED
        BY <4>1, <4>2
    <3> HIDE DEF h
    <3> QED
      BY <1>3, <1>4, <3>1, <3>2
  <2> QED
    BY <1>4, <2>1, <2>2
<1> HIDE DEF h
<1> QED
  BY <1>4, <1>5, <1>6, <1>7 DEF Runs

\* The first job of a queue, and the others.
LEMMA RunsOn ==
    ASSUME NEW c, NEW q, NEW x, NEW y, Runs(c, q, x, y), q # <<>>
    PROVE  /\ Head(q) \in Jobs /\ Tail(q) \in Seq(Jobs)
           /\ \E z : Works(c, Head(q), x, z) /\ Runs(c, Tail(q), z, y)
<1>1. q \in Seq(Jobs)
  BY DEF Runs
<1>2. PICK f : f[0] = x /\ f[Len(q)] = y /\ \A k \in 1 .. Len(q) : Works(c, q[k], f[k - 1], f[k])
  BY DEF Runs
<1>3. /\ Head(q) \in Jobs /\ Head(q) = q[1] /\ Tail(q) \in Seq(Jobs) /\ Len(q) \in Nat \ {0}
      /\ Len(Tail(q)) = Len(q) - 1
      /\ \A k \in 1 .. Len(Tail(q)) : k + 1 \in 1 .. Len(q) /\ Tail(q)[k] = q[k + 1]
  BY <1>1, QueueTail
<1> DEFINE g == [k \in 0 .. Len(q) - 1 |-> f[k + 1]]
<1>4. 1 \in 1 .. Len(q) /\ 1 - 1 = 0
  BY <1>3
<1>5. Works(c, Head(q), x, f[1])
  BY <1>2, <1>3, <1>4
<1>6. g[0] = f[1] /\ g[Len(q) - 1] = y
  BY <1>2, <1>3
<1>7. ASSUME NEW k \in 1 .. Len(q) - 1
      PROVE  Works(c, Tail(q)[k], g[k - 1], g[k])
  <2>1. g[k - 1] = f[k] /\ g[k] = f[k + 1] /\ k + 1 \in 1 .. Len(q) /\ (k + 1) - 1 = k /\ Tail(q)[k] = q[k + 1]
    BY <1>3
  <2> HIDE DEF g
  <2>2. Works(c, q[k + 1], f[(k + 1) - 1], f[k + 1])
    BY <1>2, <2>1
  <2> QED
    BY <2>1, <2>2
<1> HIDE DEF g
<1>8. Runs(c, Tail(q), f[1], y)
  BY <1>3, <1>6, <1>7 DEF Runs
<1> QED
  BY <1>3, <1>5, <1>8

\* Two jobs, and three.
LEMMA OneByOne ==
    ASSUME NEW i \in Jobs, NEW j \in Jobs, NEW k \in Jobs
    PROVE  <<i, j>> = <<i>> \o <<j>> /\ <<i, j, k>> = <<i>> \o (<<j>> \o <<k>>)
<1>1. <<j>> \in Seq(Jobs) /\ <<k>> \in Seq(Jobs) /\ <<i, j>> \in Seq(Jobs) /\ <<j, k>> \in Seq(Jobs)
      /\ <<i, j, k>> \in Seq(Jobs)
  OBVIOUS
<1>2. \A a, b \in Jobs : <<a, b>> = <<a>> \o <<b>>
  <2>1. ASSUME NEW a \in Jobs, NEW b \in Jobs
        PROVE  <<a, b>> = <<a>> \o <<b>>
    <3>1. <<b>> \in Seq(Jobs) /\ <<a, b>> \in Seq(Jobs) /\ Len(<<a, b>>) = Len(<<b>>) + 1
      OBVIOUS
    <3>2. <<a, b>>[1] = a /\ \A n \in 1 .. Len(<<b>>) : <<a, b>>[n + 1] = <<b>>[n]
      OBVIOUS
    <3> QED
      BY <3>1, <3>2, IsAhead
  <2> QED
    BY <2>1
<1>3. <<i, j, k>> = <<i>> \o <<j, k>>
  <2>1. Len(<<i, j, k>>) = Len(<<j, k>>) + 1 /\ <<i, j, k>>[1] = i
    OBVIOUS
  <2>2. \A n \in 1 .. Len(<<j, k>>) : <<i, j, k>>[n + 1] = <<j, k>>[n]
    OBVIOUS
  <2> QED
    BY <1>1, <2>1, <2>2, IsAhead
<1> QED
  BY <1>2, <1>3

\* A put.
LEMMA PutRuns ==
    ASSUME NEW c, NEW j \in Jobs, j.do = "put", j.lba \in Blocks \ {SuperBlock},
           NEW d, NEW m, NEW v, NEW s, NEW b
    PROVE  Runs(c, <<j>>, Scene(d, m, v, s, b), Scene(Written(d, j), m, v, s, b))
<1>1. Works(c, j, Scene(d, m, v, s, b), Scene(Written(d, j), m, v, s, b))
  BY DEF Works, Scene
<1> QED
  BY <1>1, RunsOne

\* A change of the bitmap.
Flagged(m, blocks, flag) == IF flag THEN m \cup Range(blocks) ELSE m \ Range(blocks)

\* It is changed in memory and saved.
LEMMA ModifyRuns ==
    ASSUME NEW c, NEW blocks, Range(blocks) \subseteq Blocks, NEW flag \in BOOLEAN,
           NEW d, NEW m, NEW v, NEW s, NEW b
    PROVE  LET u == Flagged(m, blocks, flag) IN
           Runs(c, ModifyBitmap(blocks, flag), Scene(d, m, v, s, b), Scene(Saved(d, u), u, v, Idle.seen, b))
<1> DEFINE u == Flagged(m, blocks, flag)
           j == Bits(blocks, flag)
           w == [bitmap |-> m, statVfs |-> v]
           x1 == Scene(d, m, v, w, b)
           x2 == Scene(d, u, v, Idle.seen, b)
           x3 == Scene(Saved(d, u), u, v, Idle.seen, b)
<1>1. /\ j \in Jobs /\ j.do = "bits" /\ j.flag = flag /\ j.blocks = Range(blocks)
      /\ Load \in Jobs /\ Save \in Jobs /\ Load.do = "load" /\ Save.do = "save"
  BY BitsJob, JobKinds
<1>2. Works(c, Load, Scene(d, m, v, s, b), x1)
  BY <1>1 DEF Works, Scene
<1>3. Works(c, j, x1, x2)
  <2> HIDE DEF j
  <2>1. x1.disk = d /\ x1.statVfs = v /\ x1.buf = b /\ x1.seen.bitmap = m
    BY DEF Scene
  <2>2. u = IF j.flag THEN x1.seen.bitmap \cup j.blocks ELSE x1.seen.bitmap \ j.blocks
    BY <1>1, <2>1 DEF Flagged
  <2>3. x2 = Scene(x1.disk, IF j.flag THEN x1.seen.bitmap \cup j.blocks ELSE x1.seen.bitmap \ j.blocks,
                   x1.statVfs, Idle.seen, x1.buf)
    BY <2>1, <2>2
  <2> QED
    BY <1>1, <2>3 DEF Works
<1>4. Works(c, Save, x2, x3)
  BY <1>1 DEF Works, Scene
<1> HIDE DEF j, x1, x2, x3, u
<1>5. Runs(c, <<Load>>, Scene(d, m, v, s, b), x1) /\ Runs(c, <<j>>, x1, x2) /\ Runs(c, <<Save>>, x2, x3)
  BY <1>1, <1>2, <1>3, <1>4, RunsOne
<1>6. Runs(c, <<Load>> \o (<<j>> \o <<Save>>), Scene(d, m, v, s, b), x3)
  <2>1. Runs(c, <<j>> \o <<Save>>, x1, x3)
    BY <1>5, RunsBoth
  <2> QED
    BY <1>5, <2>1, RunsBoth
<1>7. <<Load>> \o (<<j>> \o <<Save>>) = <<Load, j, Save>>
  BY <1>1, OneByOne
<1> QED
  BY <1>6, <1>7 DEF ModifyBitmap, j, u, x3

\* The counters are changed.
LEMMA AdjustRuns ==
    ASSUME NEW c, NEW n \in Int, NEW d, NEW m, NEW v, NEW s, NEW b
    PROVE  Runs(c, AdjustFree(n), Scene(d, m, v, s, b), Scene(d, m, CountedBy(v, n), Idle.seen, b))
<1> DEFINE w == [bitmap |-> m, statVfs |-> v]
           x1 == Scene(d, m, v, w, b)
           x2 == Scene(d, m, CountedBy(v, n), Idle.seen, b)
<1>1. Load \in Jobs /\ Count(n) \in Jobs /\ Load.do = "load" /\ Count(n).do = "count" /\ Count(n).n = n
  BY JobKinds DEF Count
<1>2. Works(c, Load, Scene(d, m, v, s, b), x1)
  BY <1>1 DEF Works, Scene
<1>3. Works(c, Count(n), x1, x2)
  <2>1. x1.disk = d /\ x1.bitmap = m /\ x1.buf = b /\ x1.seen.statVfs = v
    BY DEF Scene
  <2>2. x2 = Scene(x1.disk, x1.bitmap, CountedBy(x1.seen.statVfs, Count(n).n), Idle.seen, x1.buf)
    BY <1>1, <2>1
  <2> QED
    BY <1>1, <2>2 DEF Works
<1> HIDE DEF x1, x2
<1>4. Runs(c, <<Load>>, Scene(d, m, v, s, b), x1) /\ Runs(c, <<Count(n)>>, x1, x2)
  BY <1>1, <1>2, <1>3, RunsOne
<1>5. Runs(c, <<Load>> \o <<Count(n)>>, Scene(d, m, v, s, b), x2)
  BY <1>4, RunsBoth
<1>6. <<Load>> \o <<Count(n)>> = <<Load, Count(n)>>
  BY <1>1, OneByOne
<1> QED
  BY <1>5, <1>6 DEF AdjustFree, x2

\* Reads of the image into the blocks of a buffer, one after the other (fs_read).
LEMMA FetchesRun ==
    ASSUME NEW c, NEW q \in Seq(Jobs),
           \A k \in 1 .. Len(q) : q[k].do = "fetch" /\ q[k].lba \in Blocks /\ q[k].slot = k,
           NEW d, NEW m, NEW v, NEW s, NEW b, b = [n \in DOMAIN b |-> b[n]]
    PROVE  Runs(c, q, Scene(d, m, v, s, b),
                Scene(d, m, v, s, [n \in DOMAIN b |-> IF n \in 1 .. Len(q) THEN RawBytes(d[q[n].lba]) ELSE b[n]]))
<1> DEFINE held(k) == [n \in DOMAIN b |-> IF n \in 1 .. k THEN RawBytes(d[q[n].lba]) ELSE b[n]]
           f == [k \in 0 .. Len(q) |-> Scene(d, m, v, s, held(k))]
<1>1. Len(q) \in Nat
  OBVIOUS
<1>2. held(0) = b
  <2>1. \A n \in DOMAIN b : n \notin 1 .. 0
    OBVIOUS
  <2> QED
    BY <2>1
<1>3. ASSUME NEW k \in 1 .. Len(q)
      PROVE  held(k) = [held(k - 1) EXCEPT ![q[k].slot] = RawBytes(d[q[k].lba])]
  <2>1. q[k].slot = k
    OBVIOUS
  <2>2. \A n : n \in 1 .. k <=> n \in 1 .. (k - 1) \/ n = k
    BY <1>1
  <2>3. held(k) = [held(k - 1) EXCEPT ![k] = RawBytes(d[q[k].lba])]
    BY <2>2
  <2> QED
    BY <2>1, <2>3
<1> HIDE DEF held
<1>4. ASSUME NEW k \in 1 .. Len(q)
      PROVE  Works(c, q[k], f[k - 1], f[k])
  <2>1. f[k - 1] = Scene(d, m, v, s, held(k - 1)) /\ f[k] = Scene(d, m, v, s, held(k))
    BY <1>1
  <2>2. q[k].do = "fetch" /\ q[k].lba \in Blocks
    OBVIOUS
  <2> HIDE DEF f
  <2>3. LET x == f[k - 1] IN x.disk = d /\ x.bitmap = m /\ x.statVfs = v /\ x.seen = s /\ x.buf = held(k - 1)
    BY <2>1 DEF Scene
  <2> QED
    BY <1>3, <2>1, <2>2, <2>3 DEF Works
<1>5. f[0] = Scene(d, m, v, s, b) /\ f[Len(q)] = Scene(d, m, v, s, held(Len(q)))
  BY <1>1, <1>2
<1> HIDE DEF f
<1>6. Runs(c, q, Scene(d, m, v, s, b), Scene(d, m, v, s, held(Len(q))))
  BY <1>4, <1>5 DEF Runs
<1> QED
  BY <1>6 DEF held

\* Reads of the image into the same block of a buffer (fs_readdir).
LEMMA RefetchesRun ==
    ASSUME NEW c, NEW q \in Seq(Jobs),
           \A k \in 1 .. Len(q) : q[k].do = "fetch" /\ q[k].lba \in Blocks /\ q[k].slot = 1,
           NEW d, NEW m, NEW v, NEW s, NEW b
    PROVE  \E z : Runs(c, q, Scene(d, m, v, s, b), Scene(d, m, v, s, z))
<1> DEFINE held(k) == IF k = 0 THEN b ELSE [b EXCEPT ![1] = RawBytes(d[q[k].lba])]
           f == [k \in 0 .. Len(q) |-> Scene(d, m, v, s, held(k))]
<1>1. Len(q) \in Nat
  OBVIOUS
<1>2. ASSUME NEW k \in 1 .. Len(q)
      PROVE  held(k) = [held(k - 1) EXCEPT ![1] = RawBytes(d[q[k].lba])]
  <2>1. CASE k = 1
    BY <2>1
  <2>2. CASE k # 1
    <3>1. k # 0 /\ k - 1 # 0
      BY <1>1, <2>2
    <3> QED
      BY <3>1
  <2> QED
    BY <2>1, <2>2
<1> HIDE DEF held
<1>3. ASSUME NEW k \in 1 .. Len(q)
      PROVE  Works(c, q[k], f[k - 1], f[k])
  <2>1. f[k - 1] = Scene(d, m, v, s, held(k - 1)) /\ f[k] = Scene(d, m, v, s, held(k))
    BY <1>1
  <2>2. q[k].do = "fetch" /\ q[k].lba \in Blocks /\ q[k].slot = 1
    OBVIOUS
  <2> HIDE DEF f
  <2>3. LET x == f[k - 1] IN x.disk = d /\ x.bitmap = m /\ x.statVfs = v /\ x.seen = s /\ x.buf = held(k - 1)
    BY <2>1 DEF Scene
  <2> QED
    BY <1>2, <2>1, <2>2, <2>3 DEF Works
<1>4. f[0] = Scene(d, m, v, s, b) /\ f[Len(q)] = Scene(d, m, v, s, held(Len(q)))
  <2>1. held(0) = b
    BY DEF held
  <2> QED
    BY <1>1, <2>1
<1> HIDE DEF f
<1>5. Runs(c, q, Scene(d, m, v, s, b), Scene(d, m, v, s, held(Len(q))))
  BY <1>3, <1>4 DEF Runs
<1> QED
  BY <1>5

\* The blocks that a queue of stores writes.
Targeted(q) == {q[n].lba : n \in 1 .. Len(q)}

\* Writes of the buffer to the image (fs_write): w is what the image then has in these blocks.
LEMMA StoresRun ==
    ASSUME NEW c, NEW q \in Seq(Jobs), NEW d \in [Blocks -> Content], NEW m, NEW v, NEW s, NEW b, NEW w,
           \A k \in 1 .. Len(q) : /\ q[k].do = "store" /\ q[k].lba \in Blocks \ {SuperBlock}
                                  /\ w[q[k].lba] = [kind |-> "data", bytes |-> Filling(c, q[k].slot, b)]
    PROVE  Runs(c, q, Scene(d, m, v, s, b),
                Scene([x \in Blocks |-> IF x \in Targeted(q) THEN w[x] ELSE d[x]], m, v, s, b))
<1> DEFINE to(k) == {q[n].lba : n \in 1 .. k}
           held(k) == [x \in Blocks |-> IF x \in to(k) THEN w[x] ELSE d[x]]
           f == [k \in 0 .. Len(q) |-> Scene(held(k), m, v, s, b)]
<1>1. Len(q) \in Nat
  OBVIOUS
<1>2. held(0) = d
  <2>1. to(0) = {}
    OBVIOUS
  <2> QED
    BY <2>1
<1>3. ASSUME NEW k \in 1 .. Len(q)
      PROVE  held(k) = [held(k - 1) EXCEPT ![q[k].lba] = w[q[k].lba]]
  <2>1. \A n : n \in 1 .. k <=> n \in 1 .. (k - 1) \/ n = k
    BY <1>1
  <2>2. \A x : x \in to(k) <=> x \in to(k - 1) \/ x = q[k].lba
    BY <2>1
  <2>3. q[k].lba \in Blocks
    OBVIOUS
  <2> HIDE DEF to
  <2> QED
    BY <2>2, <2>3
<1> HIDE DEF held
<1>4. ASSUME NEW k \in 1 .. Len(q)
      PROVE  Works(c, q[k], f[k - 1], f[k])
  <2>1. f[k - 1] = Scene(held(k - 1), m, v, s, b) /\ f[k] = Scene(held(k), m, v, s, b)
    BY <1>1
  <2>2. /\ q[k].do = "store" /\ q[k].lba \in Blocks \ {SuperBlock}
        /\ w[q[k].lba] = [kind |-> "data", bytes |-> Filling(c, q[k].slot, b)]
    OBVIOUS
  <2> HIDE DEF f
  <2>3. LET x == f[k - 1] IN x.disk = held(k - 1) /\ x.bitmap = m /\ x.statVfs = v /\ x.seen = s /\ x.buf = b
    BY <2>1 DEF Scene
  <2>4. f[k] = Scene([held(k - 1) EXCEPT ![q[k].lba] = [kind |-> "data", bytes |-> Filling(c, q[k].slot, b)]],
                     m, v, s, b)
    BY <1>3, <2>1, <2>2
  <2> QED
    BY <2>2, <2>3, <2>4 DEF Works
<1>5. f[0] = Scene(d, m, v, s, b) /\ f[Len(q)] = Scene(held(Len(q)), m, v, s, b)
  BY <1>1, <1>2
<1> HIDE DEF f
<1>6. Runs(c, q, Scene(d, m, v, s, b), Scene(held(Len(q)), m, v, s, b))
  BY <1>4, <1>5 DEF Runs
<1>7. Targeted(q) = to(Len(q))
  BY DEF Targeted
<1> QED
  BY <1>6, <1>7 DEF held

-----------------------------------------------------------------------------
(* A thread at a job                                                       *)

\* What the jobs of a thread work on.
Now(t) == Scene(disk, bitmap, statVfs, thr[t].seen, thr[t].buf)

\* What a step leaves of the call and of what it returns.
Onward(t) ==
    /\ thr'[t].call = thr[t].call /\ thr'[t].ret = thr[t].ret /\ thr'[t].at = "todo"
    /\ thr'[t].todo = Tail(thr[t].todo) /\ settled' = settled

\* A job is done: what a thread keeps of it, and what it drops.
LEMMA JobDropped ==
    ASSUME NEW t \in Threads, thr \in [Threads -> ThreadType], thr[t].at = "todo", settled' = settled,
           NEW s, NEW b, NEW w, w \in {Rest(t), [Rest(t) EXCEPT !.seen = s], [Rest(t) EXCEPT !.buf = b]},
           Becomes(t, w)
    PROVE  /\ Onward(t) /\ thr'[t].seen = w.seen /\ thr'[t].buf = w.buf
           /\ w = Rest(t) => w.seen = thr[t].seen /\ w.buf = thr[t].buf
           /\ w = [Rest(t) EXCEPT !.seen = s] => w.seen = s /\ w.buf = thr[t].buf
           /\ w = [Rest(t) EXCEPT !.buf = b] => w.seen = thr[t].seen /\ w.buf = b
<1> DEFINE F == {"call", "ret", "at", "todo", "seen", "buf", "sought"}
<1>1. F \subseteq DOMAIN thr[t] /\ thr'[t] = [w EXCEPT !.sought = 0]
  BY DEF Becomes, ThreadType
<1>2. LET x == Rest(t) IN
      /\ F \subseteq DOMAIN x /\ x.call = thr[t].call /\ x.ret = thr[t].ret /\ x.at = "todo"
      /\ x.todo = Tail(thr[t].todo) /\ x.seen = thr[t].seen /\ x.buf = thr[t].buf
  BY <1>1 DEF Rest
<1>3. ASSUME NEW x, F \subseteq DOMAIN x
      PROVE  /\ LET y == [x EXCEPT !.sought = 0] IN
                /\ y.call = x.call /\ y.ret = x.ret /\ y.at = x.at /\ y.todo = x.todo
                /\ y.seen = x.seen /\ y.buf = x.buf
             /\ LET y == [x EXCEPT !.seen = s] IN
                /\ F \subseteq DOMAIN y /\ y.call = x.call /\ y.ret = x.ret /\ y.at = x.at /\ y.todo = x.todo
                /\ y.seen = s /\ y.buf = x.buf
             /\ LET y == [x EXCEPT !.buf = b] IN
                /\ F \subseteq DOMAIN y /\ y.call = x.call /\ y.ret = x.ret /\ y.at = x.at /\ y.todo = x.todo
                /\ y.seen = x.seen /\ y.buf = b
  BY <1>3
<1> HIDE DEF F
<1>4. /\ F \subseteq DOMAIN w /\ w.call = thr[t].call /\ w.ret = thr[t].ret /\ w.at = "todo"
      /\ w.todo = Tail(thr[t].todo)
      /\ w = Rest(t) => w.seen = thr[t].seen /\ w.buf = thr[t].buf
      /\ w = [Rest(t) EXCEPT !.seen = s] => w.seen = s /\ w.buf = thr[t].buf
      /\ w = [Rest(t) EXCEPT !.buf = b] => w.seen = thr[t].seen /\ w.buf = b
  <2>1. CASE w = Rest(t)
    BY <1>2, <1>3, <2>1
  <2>2. CASE w = [Rest(t) EXCEPT !.seen = s]
    BY <1>2, <1>3, <2>2, ZenonT(60)
  <2>3. CASE w = [Rest(t) EXCEPT !.buf = b]
    BY <1>2, <1>3, <2>3, ZenonT(60)
  <2> QED
    BY <2>1, <2>2, <2>3
<1>5. /\ thr'[t].call = w.call /\ thr'[t].ret = w.ret /\ thr'[t].at = w.at /\ thr'[t].todo = w.todo
      /\ thr'[t].seen = w.seen /\ thr'[t].buf = w.buf
  BY <1>1, <1>3, <1>4
<1> QED
  BY <1>4, <1>5 DEF Onward

\* The same by what the job has changed.
LEMMA JobDone ==
    ASSUME NEW t \in Threads, thr \in [Threads -> ThreadType], thr[t].at = "todo", settled' = settled
    PROVE  /\ Becomes(t, Rest(t)) => Onward(t) /\ thr'[t].seen = thr[t].seen /\ thr'[t].buf = thr[t].buf
           /\ \A s : Becomes(t, [Rest(t) EXCEPT !.seen = s]) =>
                     Onward(t) /\ thr'[t].seen = s /\ thr'[t].buf = thr[t].buf
           /\ \A b : Becomes(t, [Rest(t) EXCEPT !.buf = b]) =>
                     Onward(t) /\ thr'[t].seen = thr[t].seen /\ thr'[t].buf = b
<1>1. ASSUME Becomes(t, Rest(t))
      PROVE  Onward(t) /\ thr'[t].seen = thr[t].seen /\ thr'[t].buf = thr[t].buf
  BY <1>1, JobDropped
<1>2. ASSUME NEW s, Becomes(t, [Rest(t) EXCEPT !.seen = s])
      PROVE  Onward(t) /\ thr'[t].seen = s /\ thr'[t].buf = thr[t].buf
  <2> DEFINE w == [Rest(t) EXCEPT !.seen = s]
  <2>1. w \in {Rest(t), [Rest(t) EXCEPT !.seen = s], [Rest(t) EXCEPT !.buf = s]} /\ Becomes(t, w)
    BY <1>2
  <2>2. w = [Rest(t) EXCEPT !.seen = s]
    OBVIOUS
  <2>3. /\ Onward(t) /\ thr'[t].seen = w.seen /\ thr'[t].buf = w.buf
        /\ w.seen = s /\ w.buf = thr[t].buf
    <3> HIDE DEF w
    <3> QED
      BY <2>1, <2>2, JobDropped, ZenonT(60)
  <2> HIDE DEF w
  <2> QED
    BY <2>3
<1>3. ASSUME NEW b, Becomes(t, [Rest(t) EXCEPT !.buf = b])
      PROVE  Onward(t) /\ thr'[t].seen = thr[t].seen /\ thr'[t].buf = b
  <2> DEFINE w == [Rest(t) EXCEPT !.buf = b]
  <2>1. w \in {Rest(t), [Rest(t) EXCEPT !.seen = b], [Rest(t) EXCEPT !.buf = b]} /\ Becomes(t, w)
    BY <1>3
  <2>2. w = [Rest(t) EXCEPT !.buf = b]
    OBVIOUS
  <2>3. /\ Onward(t) /\ thr'[t].seen = w.seen /\ thr'[t].buf = w.buf
        /\ w.seen = thr[t].seen /\ w.buf = b
    <3> HIDE DEF w
    <3> QED
      BY <2>1, <2>2, JobDropped, ZenonT(60)
  <2> HIDE DEF w
  <2> QED
    BY <2>3
<1> QED
  BY <1>1, <1>2, <1>3

\* A step of the queue does what its job is for.
LEMMA JobWorks ==
    ASSUME NEW t \in Threads, StepIInv(t), NEW z, Works(thr[t].call, Following(t), Now(t), z),
           \/ PutNext(t) \/ SaveNext(t) \/ StoreNext(t) \/ FetchNext(t)
           \/ LoadNext(t) \/ BitsNext(t) \/ CountNext(t)
    PROVE  Now(t)' = z /\ Onward(t)
<1> DEFINE r == thr[t]
           j == Following(t)
<1>1. r \in ThreadType /\ thr \in [Threads -> ThreadType]
  BY DEF StepIInv
<1>2. /\ Now(t).disk = disk /\ Now(t).bitmap = bitmap /\ Now(t).statVfs = statVfs
      /\ Now(t).seen = r.seen /\ Now(t).buf = r.buf
  BY DEF Now, Scene
<1>5. CASE PutNext(t)
  <2>1. WriteBlock(t, j.content) /\ ToDo(t, {"put"}) /\ Becomes(t, Rest(t))
    BY <1>5 DEF PutNext
  <2>2. disk' = [disk EXCEPT ![j.lba] = j.content] /\ bitmap' = bitmap /\ statVfs' = statVfs
    BY <2>1, WriteFacts
  <2>3. j.do = "put" /\ r.at = "todo" /\ settled' = settled
    BY <2>1 DEF ToDo, WriteBlock
  <2>4. z = Scene(Written(disk, j), bitmap, statVfs, r.seen, r.buf)
    BY <1>2, <2>3 DEF Works
  <2>5. thr'[t].seen = r.seen /\ thr'[t].buf = r.buf /\ Onward(t)
    BY <1>1, <2>1, <2>3, JobDone
  <2> QED
    BY <2>2, <2>4, <2>5 DEF Now, Written
<1>6. CASE SaveNext(t)
  <2>1. WriteBlock(t, [kind |-> "bitmap", used |-> bitmap]) /\ ToDo(t, {"save"}) /\ Becomes(t, Rest(t))
    BY <1>6 DEF SaveNext
  <2>2. disk' = [disk EXCEPT ![j.lba] = [kind |-> "bitmap", used |-> bitmap]]
        /\ bitmap' = bitmap /\ statVfs' = statVfs
    BY <2>1, WriteFacts
  <2>3. j.do = "save" /\ r.at = "todo" /\ settled' = settled
    BY <2>1 DEF ToDo, WriteBlock
  <2>4. j \in Jobs
    BY <2>1, QueueFacts
  <2>5. j.lba = BitmapBlock
    BY <2>3, <2>4 DEF Jobs
  <2>6. z = Scene(Saved(disk, bitmap), bitmap, statVfs, r.seen, r.buf)
    BY <1>2, <2>3 DEF Works
  <2>7. thr'[t].seen = r.seen /\ thr'[t].buf = r.buf /\ Onward(t)
    BY <1>1, <2>1, <2>3, JobDone
  <2> QED
    BY <2>2, <2>5, <2>6, <2>7 DEF Now, Saved
<1>7. CASE StoreNext(t)
  <2> DEFINE bytes == Filling(r.call, j.slot, r.buf)
  <2>1. WriteBlock(t, [kind |-> "data", bytes |-> bytes]) /\ ToDo(t, {"store"}) /\ Becomes(t, Rest(t))
    BY <1>7 DEF StoreNext, Filling
  <2>2. disk' = [disk EXCEPT ![j.lba] = [kind |-> "data", bytes |-> bytes]]
        /\ bitmap' = bitmap /\ statVfs' = statVfs
    BY <2>1, WriteFacts
  <2>3. j.do = "store" /\ r.at = "todo" /\ settled' = settled
    BY <2>1 DEF ToDo, WriteBlock
  <2>4. z = Scene([disk EXCEPT ![j.lba] = [kind |-> "data", bytes |-> bytes]], bitmap, statVfs, r.seen, r.buf)
    BY <1>2, <2>3 DEF Works
  <2>5. thr'[t].seen = r.seen /\ thr'[t].buf = r.buf /\ Onward(t)
    BY <1>1, <2>1, <2>3, JobDone
  <2> HIDE DEF bytes
  <2> QED
    BY <2>2, <2>4, <2>5 DEF Now
<1>8. CASE FetchNext(t)
  <2> DEFINE raw == RawBytes(disk[j.lba])
  <2>1. ReadBlock(t) /\ ToDo(t, {"fetch"})
    BY <1>8 DEF FetchNext
  <2>2. /\ j.do = "fetch" /\ r.at = "todo"
        /\ settled' = settled /\ bitmap' = bitmap /\ statVfs' = statVfs /\ disk' = disk
    BY <2>1 DEF ToDo, ReadBlock, Device!Read
  <2>3. Device!Here = disk[Lba(t)] /\ Lba(t) = j.lba
    <3>1. Reading(t)
      BY <2>1 DEF ReadBlock
    <3> QED
      BY <2>1, <2>2, <3>1, ReadFacts, LbaFacts
  <2>4. Becomes(t, [Rest(t) EXCEPT !.buf = [r.buf EXCEPT ![j.slot] = raw]])
    <3>1. Becomes(t, [Rest(t) EXCEPT !.buf[j.slot] = raw])
      BY <1>8, <2>3 DEF FetchNext
    <3>2. Rest(t).buf = r.buf
      BY <1>1 DEF Rest, ThreadType
    <3> HIDE DEF raw
    <3> QED
      BY <3>1, <3>2
  <2>5. z = Scene(disk, bitmap, statVfs, r.seen, [r.buf EXCEPT ![j.slot] = raw])
    BY <1>2, <2>2 DEF Works
  <2> HIDE DEF raw, j
  <2>6. thr'[t].seen = r.seen /\ thr'[t].buf = [r.buf EXCEPT ![j.slot] = raw] /\ Onward(t)
    BY <1>1, <2>2, <2>4, JobDone
  <2> QED
    BY <2>2, <2>5, <2>6 DEF Now
<1>9. CASE LoadNext(t)
  <2> DEFINE w == [bitmap |-> bitmap, statVfs |-> statVfs]
  <2>1. /\ j.do = "load" /\ r.at = "todo" /\ Becomes(t, [Rest(t) EXCEPT !.seen = w])
        /\ settled' = settled /\ bitmap' = bitmap /\ statVfs' = statVfs /\ disk' = disk
    BY <1>9 DEF LoadNext, ToDo
  <2>2. z = Scene(disk, bitmap, statVfs, w, r.buf)
    BY <1>2, <2>1 DEF Works
  <2> HIDE DEF w
  <2>3. thr'[t].seen = w /\ thr'[t].buf = r.buf /\ Onward(t)
    BY <1>1, <2>1, JobDone
  <2> QED
    BY <2>1, <2>2, <2>3 DEF Now
<1>10. CASE BitsNext(t)
  <2>1. /\ j.do = "bits" /\ r.at = "todo" /\ Becomes(t, [Rest(t) EXCEPT !.seen = Idle.seen])
        /\ settled' = settled /\ statVfs' = statVfs /\ disk' = disk
        /\ bitmap' = IF j.flag THEN r.seen.bitmap \cup j.blocks ELSE r.seen.bitmap \ j.blocks
    BY <1>10 DEF BitsNext, ToDo
  <2>2. z = Scene(disk, bitmap', statVfs, Idle.seen, r.buf)
    BY <1>2, <2>1 DEF Works
  <2>3. thr'[t].seen = Idle.seen /\ thr'[t].buf = r.buf /\ Onward(t)
    BY <1>1, <2>1, JobDone
  <2> QED
    BY <2>1, <2>2, <2>3 DEF Now
<1>11. CASE CountNext(t)
  <2>1. /\ j.do = "count" /\ r.at = "todo" /\ Becomes(t, [Rest(t) EXCEPT !.seen = Idle.seen])
        /\ settled' = settled /\ bitmap' = bitmap /\ disk' = disk
        /\ statVfs' = CountedBy(r.seen.statVfs, j.n)
    BY <1>11 DEF CountNext, ToDo, CountedBy
  <2>2. z = Scene(disk, bitmap, statVfs', Idle.seen, r.buf)
    BY <1>2, <2>1 DEF Works
  <2>3. thr'[t].seen = Idle.seen /\ thr'[t].buf = r.buf /\ Onward(t)
    BY <1>1, <2>1, JobDone
  <2> QED
    BY <2>1, <2>2, <2>3 DEF Now
<1> QED
  BY <1>5, <1>6, <1>7, <1>8, <1>9, <1>10, <1>11

-----------------------------------------------------------------------------
(* What the handlers of FileSystem make of an image, a bitmap and counters *)

InodeAt(s, path) == Translate(s.disk, Parse(path))
DirOf(s, path)   == TranslateParent(s.disk, Parse(path))
FileAt(s, path)  == IF InodeAt(s, path) >= 0 /\ ~IsFile(s.disk, InodeAt(s, path)) THEN EISDIR ELSE InodeAt(s, path)

AddVerdict(s, path, n) ==
    LET p == DirOf(s, path) IN
    IF p < 0 THEN p
    ELSE IF ~IsDir(s.disk, p) THEN ENOTDIR
    ELSE IF Matches(s.disk, p, Leaf(path)) # {} THEN EEXIST
    ELSE IF FreeSlots(s.disk, p) = {} THEN ENOSPC
    ELSE IF FirstFree(s.bitmap, n) = {} THEN ENOSPC
    ELSE OK

RmdirVerdict(s, path) ==
    LET i == InodeAt(s, path) IN
    IF i < 0 THEN i
    ELSE IF ~IsDir(s.disk, i) THEN ENOTDIR
    ELSE IF FreeSlots(s.disk, i) = {} THEN ENOSPC
    ELSE IF Min(FreeSlots(s.disk, i)) # 0 THEN ENOTEMPTY
    ELSE OK

RenameVerdict(s, path, dst) ==
    LET p == Parse(path)  q == Parse(dst) IN
    IF InodeAt(s, path) < 0 THEN InodeAt(s, path)
    ELSE IF InodeAt(s, dst) >= 0 THEN EEXIST
    ELSE IF Len(p) # Len(q) THEN EINVAL
    ELSE IF Front(p) # Front(q) THEN EINVAL
    ELSE OK

TruncateVerdict(s, path, len) ==
    LET i == FileAt(s, path) IN
    IF len < 0 THEN EINVAL
    ELSE IF i < 0 THEN i
    ELSE IF BlocksFor(len) > BlocksFor(s.disk[i].size) THEN EINVAL
    ELSE OK

ReadVerdict(s, path, offs, len) ==
    LET i == FileAt(s, path) IN
    IF i < 0 THEN i
    ELSE IF offs >= s.disk[i].size THEN 0
    ELSE IF \E k \in ReadIdx(s.disk[i].size, offs, len) : s.disk[i].ptrs[k] \notin Blocks THEN EIO
    ELSE IF offs + len > s.disk[i].size THEN s.disk[i].size - offs
    ELSE len

WriteVerdict(s, path, offs, len) ==
    LET i == FileAt(s, path) IN
    IF i < 0 THEN i
    ELSE IF offs > s.disk[i].size THEN EINVAL
    ELSE IF FirstFree(s.bitmap, BlocksNeeded(s.disk[i].size, offs, len)) = {} THEN ENOSPC
    ELSE OK

ReaddirVerdict(s, path) ==
    LET i == InodeAt(s, path) IN IF i >= 0 /\ ~IsDir(s.disk, i) THEN ENOTDIR ELSE i

\* The status of call c, from state s, is v.
Judged(s, c, v) ==
    \/ c.op = "create" /\ v = AddVerdict(s, c.path, 1)
    \/ c.op = "mkdir" /\ v = AddVerdict(s, c.path, 2)
    \/ c.op \in {"unlink", "chmod", "getattr"} /\ v = InodeAt(s, c.path)
    \/ c.op = "rmdir" /\ v = RmdirVerdict(s, c.path)
    \/ c.op = "rename" /\ v = RenameVerdict(s, c.path, c.dst)
    \/ c.op = "utime" /\ v = FileAt(s, c.path)
    \/ c.op = "truncate" /\ v = TruncateVerdict(s, c.path, c.len)
    \/ c.op = "read" /\ v = ReadVerdict(s, c.path, c.offset, c.len)
    \/ c.op = "write" /\ v = WriteVerdict(s, c.path, c.offset, c.len)
    \/ c.op = "readdir" /\ v = ReaddirVerdict(s, c.path)
    \/ c.op = "statfs" /\ v = OK

\* The images after the calls, and what else a call leaves: the bitmap u, and the counters moved by n.
LinkedIn(s, path, inum, inode) ==
    LET p == DirOf(s, path)
    IN  WithEntry([s.disk EXCEPT ![inum] = inode], p, Min(FreeSlots(s.disk, p)), [name |-> Leaf(path), inode |-> inum])

UnlinkedIn(s, path) ==
    LET p == DirOf(s, path) IN WithEntry(s.disk, p, Min(Matches(s.disk, p, Leaf(path))), NoEntry)

RenamedIn(s, path, dst) ==
    LET p == DirOf(s, path)
        k == Min(Matches(s.disk, p, Leaf(path)))
    IN  WithEntry(s.disk, p, k, [name |-> Leaf(dst), inode |-> Entries(s.disk, p)[k].inode])

StoredIn(s, c, fresh) ==
    LET i     == FileAt(s, c.path)
        inode == Grown(s.disk[i], fresh, c.offset + c.len, c.now)
    IN  Stored([s.disk EXCEPT ![i] = inode], inode, BlocksFor(s.disk[i].size), c.offset, c.len, c.byte)

Unmoved(s, y) == y.disk = s.disk /\ y.bitmap = s.bitmap /\ y.statVfs = s.statVfs

AccountsFor(s, y, image, u, n) ==
    y.disk = Saved(image, u) /\ y.bitmap = u /\ y.statVfs = CountedBy(s.statVfs, n)

Adjusts(s, y, image) == y.disk = image /\ y.bitmap = s.bitmap /\ y.statVfs = s.statVfs

\* Byte n of what is returned from a buffer.
Given(c, buf, n) ==
    LET p == (c.offset % BlockSize) + n - 1 IN buf[p \div BlockSize + 1][p % BlockSize]

\* Byte n of the file of inode i.
ByteOf(d, i, n) == RawBytes(d[d[i].ptrs[n \div BlockSize]])[n % BlockSize]

Creates(c, s, y) ==
    /\ c.op = "create" /\ AddVerdict(s, c.path, 1) = OK
    /\ \E new \in FirstFree(s.bitmap, 1) :
          AccountsFor(s, y, LinkedIn(s, c.path, new[1], NewInode("file", c.perm, c.now, 0)), s.bitmap \cup {new[1]}, -1)

MakesDir(c, s, y) ==
    /\ c.op = "mkdir" /\ AddVerdict(s, c.path, 2) = OK
    /\ \E new \in FirstFree(s.bitmap, 2) :
          AccountsFor(s, y, [LinkedIn(s, c.path, new[1], NewInode("dir", c.perm, c.now, new[2])) EXCEPT ![new[2]] = EmptyDir],
                  s.bitmap \cup {new[1], new[2]}, -2)

Removes(c, s, y) ==
    LET i == InodeAt(s, c.path) IN
    \/ /\ c.op = "unlink" /\ i >= 0
       /\ AccountsFor(s, y, UnlinkedIn(s, c.path), s.bitmap \ ({i} \cup DataBlocks(s.disk[i])), BlocksFor(s.disk[i].size) + 1)
    \/ /\ c.op = "rmdir" /\ RmdirVerdict(s, c.path) = OK
       /\ AccountsFor(s, y, UnlinkedIn(s, c.path), s.bitmap \ {i, s.disk[i].ptrs[0]}, 2)

Retouches(c, s, y) ==
    LET i == InodeAt(s, c.path) IN
    \/ /\ c.op = "rename" /\ RenameVerdict(s, c.path, c.dst) = OK
       /\ Adjusts(s, y, RenamedIn(s, c.path, c.dst))
    \/ /\ c.op = "chmod" /\ i >= 0
       /\ Adjusts(s, y, [s.disk EXCEPT ![i] = [@ EXCEPT !.perm = c.perm]])
    \/ /\ c.op = "utime" /\ FileAt(s, c.path) >= 0
       /\ Adjusts(s, y, [s.disk EXCEPT ![FileAt(s, c.path)] = [@ EXCEPT !.mtime = c.time]])

Truncates(c, s, y) ==
    LET i       == FileAt(s, c.path)
        old     == s.disk[i]
        removed == BlocksFor(c.len) .. BlocksFor(old.size) - 1
    IN  /\ c.op = "truncate" /\ TruncateVerdict(s, c.path, c.len) = OK
        /\ AccountsFor(s, y, [s.disk EXCEPT ![i] = Shortened(old, c.len)],
                   s.bitmap \ {old.ptrs[k] : k \in removed}, BlocksFor(old.size) - BlocksFor(c.len))

Reads(c, ret, s, y) ==
    /\ c.op = "read" /\ ret = ReadVerdict(s, c.path, c.offset, c.len) /\ ret >= 0 /\ Unmoved(s, y)
    /\ \A n \in 1 .. ret : Given(c, y.buf, n) = ByteOf(s.disk, FileAt(s, c.path), c.offset + n - 1)

Stuffs(c, s, y) ==
    LET need == BlocksNeeded(s.disk[FileAt(s, c.path)].size, c.offset, c.len) IN
    /\ c.op = "write" /\ WriteVerdict(s, c.path, c.offset, c.len) = OK
    /\ s.statVfs.f_bfree - need <= MaxFree
    /\ \E fresh \in FirstFree(s.bitmap, need) :
          /\ IF need > 0 THEN /\ y.disk = Saved(StoredIn(s, c, fresh), s.bitmap \cup Range(fresh))
                              /\ y.bitmap = s.bitmap \cup Range(fresh)
             ELSE y.disk = StoredIn(s, c, fresh) /\ y.bitmap = s.bitmap
          /\ y.statVfs = CountedBy(s.statVfs, - need)

Looks(c, s, y) ==
    /\ Unmoved(s, y)
    /\ \/ c.op = "getattr" /\ InodeAt(s, c.path) >= 0
       \/ c.op = "readdir" /\ ReaddirVerdict(s, c.path) >= 0
       \/ c.op = "statfs"

\* Call c, which began in state s and returns ret, leaves y.
Outcome(c, ret, s, y) ==
    \/ ret < 0 /\ Judged(s, c, ret) /\ Unmoved(s, y)
    \/ Reads(c, ret, s, y)
    \/ ret = c.len /\ Stuffs(c, s, y)
    \/ /\ ret = OK
       /\ \/ Creates(c, s, y) \/ MakesDir(c, s, y) \/ Removes(c, s, y)
          \/ Retouches(c, s, y) \/ Truncates(c, s, y) \/ Looks(c, s, y)

-----------------------------------------------------------------------------
(* These are the handlers                                                  *)

\* The definitions that do not depend on the state mean the same in both specifications.
LEMMA SameTerms ==
    /\ Atomic!Blocks = Blocks /\ Atomic!PtrIdx = PtrIdx /\ Atomic!Slots = Slots /\ Atomic!Offs = Offs
    /\ Atomic!OK = OK /\ Atomic!ENOENT = ENOENT /\ Atomic!EIO = EIO /\ Atomic!EEXIST = EEXIST
    /\ Atomic!ENOTDIR = ENOTDIR /\ Atomic!EISDIR = EISDIR /\ Atomic!EINVAL = EINVAL
    /\ Atomic!ENOSPC = ENOSPC /\ Atomic!ENOTEMPTY = ENOTEMPTY
    /\ Atomic!NoPtr = NoPtr /\ Atomic!BitmapBlock = BitmapBlock /\ Atomic!RootInode = RootInode
    /\ Atomic!SuperBlock = SuperBlock
    /\ Atomic!EmptyDir = EmptyDir /\ Atomic!ZeroBlock = ZeroBlock
    /\ Atomic!Below = Below
  BY DEF Atomic!Blocks, Atomic!PtrIdx, Atomic!Slots, Atomic!Offs, Atomic!OK, Atomic!ENOENT, Atomic!EIO,
         Atomic!EEXIST, Atomic!ENOTDIR, Atomic!EISDIR, Atomic!EINVAL, Atomic!ENOSPC, Atomic!ENOTEMPTY,
         Atomic!NoPtr, Atomic!BitmapBlock, Atomic!RootInode, Atomic!SuperBlock, Atomic!EmptyDir, Atomic!ZeroBlock,
         Atomic!Below, Blocks, PtrIdx, Slots, Offs, OK, ENOENT, EIO, EEXIST, ENOTDIR, EISDIR, EINVAL, ENOSPC,
         ENOTEMPTY, NoPtr, BitmapBlock, RootInode, SuperBlock, EmptyDir, ZeroBlock, Below

\* Those about directories and paths,
LEMMA SamePaths ==
    /\ \A d, i : /\ Atomic!IsDir(d, i) = IsDir(d, i) /\ Atomic!IsFile(d, i) = IsFile(d, i)
                 /\ Atomic!Entries(d, i) = Entries(d, i) /\ Atomic!FreeSlots(d, i) = FreeSlots(d, i)
    /\ \A d, i, n : Atomic!Matches(d, i, n) = Matches(d, i, n)
    /\ \A d, i, s, e : Atomic!WithEntry(d, i, s, e) = WithEntry(d, i, s, e)
    /\ \A S : Atomic!Min(S) = Min(S)
    /\ \A q : Atomic!Front(q) = Front(q) /\ Atomic!Last(q) = Last(q)
    /\ \A p : Atomic!Parse(p) = Parse(p) /\ Atomic!Leaf(p) = Leaf(p)
    /\ \A d, q : Atomic!Translate(d, q) = Translate(d, q) /\ Atomic!TranslateParent(d, q) = TranslateParent(d, q)
<1>1. \A d, i : /\ Atomic!IsDir(d, i) = IsDir(d, i) /\ Atomic!IsFile(d, i) = IsFile(d, i)
                /\ Atomic!Entries(d, i) = Entries(d, i)
  BY SameTerms DEF Atomic!IsDir, IsDir, Atomic!IsFile, IsFile, Atomic!IsInode, IsInode, Atomic!Entries, Entries
<1>2. \A d, i : Atomic!FreeSlots(d, i) = FreeSlots(d, i)
  BY <1>1, SameTerms DEF Atomic!FreeSlots, FreeSlots
<1>3. \A d, i, n : Atomic!Matches(d, i, n) = Matches(d, i, n)
  BY <1>1, <1>2, SameTerms DEF Atomic!Matches, Matches, Atomic!UsedSlots, UsedSlots
<1>4. \A d, i, s, e : Atomic!WithEntry(d, i, s, e) = WithEntry(d, i, s, e)
  BY <1>1 DEF Atomic!WithEntry, WithEntry
<1>5. \A S : Atomic!Min(S) = Min(S)
  BY DEF Atomic!Min, Min
<1>6. \A q : Atomic!Front(q) = Front(q) /\ Atomic!Last(q) = Last(q)
  BY DEF Atomic!Front, Front, Atomic!Last, Last
<1>7. \A p : Atomic!Parse(p) = Parse(p)
  BY DEF Atomic!Parse, Parse
<1>8. \A p : Atomic!Leaf(p) = Leaf(p)
  BY <1>6, <1>7 DEF Atomic!Leaf, Leaf
<1>9. \A d, i, n : Atomic!Step(d, i, n) = Step(d, i, n)
  BY <1>1, <1>3, <1>5, SameTerms DEF Atomic!Step, Step
<1>10. \A d, q : Atomic!Translate(d, q) = Translate(d, q)
  BY <1>9, SameTerms DEF Atomic!Translate, Translate
<1>11. \A d, q : Atomic!TranslateParent(d, q) = TranslateParent(d, q)
  BY <1>6, <1>10 DEF Atomic!TranslateParent, TranslateParent
<1> QED
  BY <1>1, <1>2, <1>3, <1>4, <1>5, <1>6, <1>7, <1>8, <1>10, <1>11

\* and those about inodes and blocks.
LEMMA SameData ==
    /\ \A m, n : Atomic!FirstFree(m, n) = FirstFree(m, n)
    /\ \A n : Atomic!BlocksFor(n) = BlocksFor(n)
    /\ \A ino : Atomic!DataBlocks(ino) = DataBlocks(ino)
    /\ \A type, perm, mtime, ptr : Atomic!NewInode(type, perm, mtime, ptr) = NewInode(type, perm, mtime, ptr)
    /\ \A c : Atomic!RawBytes(c) = RawBytes(c)
    /\ \A size, offs, len : /\ Atomic!ReadIdx(size, offs, len) = ReadIdx(size, offs, len)
                            /\ Atomic!BlocksNeeded(size, offs, len) = BlocksNeeded(size, offs, len)
    /\ \A ino, fresh, end, now : Atomic!Grown(ino, fresh, end, now) = Grown(ino, fresh, end, now)
    /\ \A image, inode, old, offs, len, byte :
          Atomic!Stored(image, inode, old, offs, len, byte) = Stored(image, inode, old, offs, len, byte)
<1>1. \A m, n : Atomic!FirstFree(m, n) = FirstFree(m, n)
  BY SameTerms DEF Atomic!FirstFree, FirstFree
<1>2. \A n : Atomic!BlocksFor(n) = BlocksFor(n)
  BY DEF Atomic!BlocksFor, BlocksFor
<1>3. \A ino : Atomic!DataBlocks(ino) = DataBlocks(ino)
  BY <1>2 DEF Atomic!DataBlocks, DataBlocks, Atomic!DataIdx, DataIdx
<1>4. \A type, perm, mtime, ptr : Atomic!NewInode(type, perm, mtime, ptr) = NewInode(type, perm, mtime, ptr)
  BY SameTerms DEF Atomic!NewInode, NewInode
<1>5. \A c : Atomic!RawBytes(c) = RawBytes(c)
  BY SameTerms DEF Atomic!RawBytes, RawBytes, Atomic!Junk, Junk
<1>6. \A size, offs, len : /\ Atomic!ReadIdx(size, offs, len) = ReadIdx(size, offs, len)
                           /\ Atomic!BlocksNeeded(size, offs, len) = BlocksNeeded(size, offs, len)
  BY <1>2 DEF Atomic!ReadIdx, ReadIdx, Atomic!BlocksNeeded, BlocksNeeded
<1>7. \A ino, fresh, end, now : Atomic!Grown(ino, fresh, end, now) = Grown(ino, fresh, end, now)
  BY <1>2, SameTerms, ZenonT(60) DEF Atomic!Grown, Grown
<1>8. \A offs, len : Atomic!WriteIdx(offs, len) = WriteIdx(offs, len)
  BY DEF Atomic!WriteIdx, WriteIdx
<1>9. \A S : Atomic!Max(S) = Max(S) /\ Atomic!Min(S) = Min(S)
  BY DEF Atomic!Max, Max, Atomic!Min, Min
<1>10. \A image, inode, old, idx, k : Atomic!Kept(image, inode, old, idx, k) = Kept(image, inode, old, idx, k)
  BY <1>5, <1>9, SameTerms DEF Atomic!Kept, Kept
<1>11. \A image, inode, old, offs, len, byte :
          Atomic!Stored(image, inode, old, offs, len, byte) = Stored(image, inode, old, offs, len, byte)
  <2> SUFFICES ASSUME NEW image, NEW inode, NEW old, NEW offs, NEW len, NEW byte
               PROVE  Atomic!Stored(image, inode, old, offs, len, byte) = Stored(image, inode, old, offs, len, byte)
    OBVIOUS
  <2> DEFINE idx == WriteIdx(offs, len)
             buf(k) == [o \in Offs |-> IF k * BlockSize + o \in offs .. offs + len - 1
                                       THEN byte ELSE Kept(image, inode, old, idx, k)[o]]
             abuf(k) == [o \in Atomic!Offs |-> IF k * BlockSize + o \in offs .. offs + len - 1
                                       THEN byte ELSE Atomic!Kept(image, inode, old, idx, k)[o]]
             to(b) == {k \in idx : inode.ptrs[k] = b}
  <2>1. \A k : abuf(k) = buf(k)
    BY <1>10, SameTerms
  <2>2. Stored(image, inode, old, offs, len, byte) =
          [b \in Blocks |-> IF to(b) = {} THEN image[b]
                            ELSE [kind |-> "data", bytes |-> buf(CHOOSE k \in to(b) : TRUE)]]
    BY DEF Stored
  <2>3. Atomic!Stored(image, inode, old, offs, len, byte) =
          [b \in Atomic!Blocks |-> IF to(b) = {} THEN image[b]
                            ELSE [kind |-> "data", bytes |-> abuf(CHOOSE k \in to(b) : TRUE)]]
    BY <1>8 DEF Atomic!Stored
  <2> HIDE DEF abuf, buf, to
  <2> QED
    BY <2>1, <2>2, <2>3, SameTerms
<1> QED
  BY <1>1, <1>2, <1>3, <1>4, <1>5, <1>6, <1>7, <1>11

\* What the atomic handlers decide on, and what they write, is what is said of them here.
LEMMA SameVerdicts ==
    /\ \A path : /\ Atomic!Resolve(path) = InodeAt(settled, path)
                 /\ Atomic!ResolveParent(path) = DirOf(settled, path)
                 /\ Atomic!ResolveFile(path) = FileAt(settled, path)
                 /\ Atomic!RmdirStatus(path) = RmdirVerdict(settled, path)
                 /\ Atomic!ReaddirStatus(path) = ReaddirVerdict(settled, path)
                 /\ Atomic!Unlinked(path) = UnlinkedIn(settled, path)
    /\ \A path, n : Atomic!CreateStatus(path, n) = AddVerdict(settled, path, n)
    /\ \A path, dst : Atomic!RenameStatus(path, dst) = RenameVerdict(settled, path, dst)
    /\ \A path, len : Atomic!TruncateStatus(path, len) = TruncateVerdict(settled, path, len)
    /\ \A path, offs, len : /\ Atomic!ReadStatus(path, offs, len) = ReadVerdict(settled, path, offs, len)
                            /\ Atomic!WriteStatus(path, offs, len) = WriteVerdict(settled, path, offs, len)
    /\ \A path, inum, inode : Atomic!Linked(path, inum, inode) = LinkedIn(settled, path, inum, inode)
    /\ \A i, n : Atomic!ByteAt(i, n) = ByteOf(settled.disk, i, n)
<1>1. \A path : /\ Atomic!Resolve(path) = InodeAt(settled, path)
                /\ Atomic!ResolveParent(path) = DirOf(settled, path)
  BY SamePaths DEF Atomic!Resolve, Atomic!ResolveParent, InodeAt, DirOf
<1>2. \A path : Atomic!ResolveFile(path) = FileAt(settled, path)
  BY <1>1, SamePaths, SameTerms DEF Atomic!ResolveFile, FileAt
<1>3. \A path : /\ Atomic!RmdirStatus(path) = RmdirVerdict(settled, path)
                /\ Atomic!ReaddirStatus(path) = ReaddirVerdict(settled, path)
  BY <1>1, SamePaths, SameTerms DEF Atomic!RmdirStatus, RmdirVerdict, Atomic!ReaddirStatus, ReaddirVerdict
<1>4. \A path : Atomic!Unlinked(path) = UnlinkedIn(settled, path)
  BY <1>1, SamePaths DEF Atomic!Unlinked, UnlinkedIn
<1>5. \A path, n : Atomic!CreateStatus(path, n) = AddVerdict(settled, path, n)
  BY <1>1, SamePaths, SameData, SameTerms DEF Atomic!CreateStatus, AddVerdict
<1>6. \A path, dst : Atomic!RenameStatus(path, dst) = RenameVerdict(settled, path, dst)
  BY <1>1, SamePaths, SameTerms DEF Atomic!RenameStatus, RenameVerdict
<1>7. \A path, len : Atomic!TruncateStatus(path, len) = TruncateVerdict(settled, path, len)
  BY <1>2, SameData, SameTerms DEF Atomic!TruncateStatus, TruncateVerdict
<1>8. \A path, offs, len : Atomic!ReadStatus(path, offs, len) = ReadVerdict(settled, path, offs, len)
  BY <1>2, SameData, SameTerms DEF Atomic!ReadStatus, ReadVerdict
<1>9. \A path, offs, len : Atomic!WriteStatus(path, offs, len) = WriteVerdict(settled, path, offs, len)
  BY <1>2, SameData, SameTerms DEF Atomic!WriteStatus, WriteVerdict
<1>10. \A path, inum, inode : Atomic!Linked(path, inum, inode) = LinkedIn(settled, path, inum, inode)
  BY <1>1, SamePaths DEF Atomic!Linked, LinkedIn
<1>11. \A i, n : Atomic!ByteAt(i, n) = ByteOf(settled.disk, i, n)
  BY SameData DEF Atomic!ByteAt, ByteOf
<1> QED
  BY <1>1, <1>2, <1>3, <1>4, <1>5, <1>6, <1>7, <1>8, <1>9, <1>10, <1>11

\* The step that a call takes in FileSystem when it returns: from what the call before left to y.
Answers(c, ret, y) ==
    /\ settled'.disk = y.disk /\ settled'.bitmap = y.bitmap /\ settled'.statVfs = y.statVfs
    /\ reply' = [op |-> c.op, path |-> c.path, ret |-> ret,
                 data |-> IF c.op # "read" THEN <<>> ELSE [n \in 1 .. ret |-> Given(c, y.buf, n)]]

\* The arguments of the calls.
LEMMA RequestArgs ==
    ASSUME NEW c \in Requests
    PROVE  /\ c.op # "statfs" => c.path \in Paths
           /\ c.op \in Adding => c.path \in Below /\ c.perm \in Perms /\ c.now \in Times
           /\ c.op \in Removing => c.path \in Below
           /\ c.op = "rename" => c.path \in Below /\ c.dst \in Paths
           /\ c.op = "chmod" => c.perm \in Perms
           /\ c.op = "utime" => c.time \in Times
           /\ c.op = "truncate" => c.len \in TruncLens
           /\ c.op = "read" => c.offset \in IoOffsets /\ c.len \in IoLens
           /\ c.op = "write" => c.offset \in IoOffsets /\ c.len \in IoLens /\ c.byte \in Bytes /\ c.now \in Times
           /\ c.op = "statfs" => c.path = <<>>
<1> DEFINE none == <<>>
<1>1. Requests =
        UNION {[op : {"create", "mkdir"}, path : Below, perm : Perms, now : Times],
               [op : {"unlink", "rmdir"}, path : Below],
               [op : {"rename"}, path : Below, dst : Paths],
               [op : {"chmod"}, path : Paths, perm : Perms],
               [op : {"utime"}, path : Paths, time : Times],
               [op : {"truncate"}, path : Paths, len : TruncLens],
               [op : {"read"}, path : Paths, offset : IoOffsets, len : IoLens],
               [op : {"write"}, path : Paths, offset : IoOffsets, len : IoLens, byte : Bytes, now : Times],
               [op : {"getattr", "readdir"}, path : Paths],
               [op : {"statfs"}, path : {none}]}
  BY DEF Requests
<1>2. Below \subseteq Paths
  BY DEF Below
<1> HIDE DEF none
<1>3. \/ c \in [op : {"create", "mkdir"}, path : Below, perm : Perms, now : Times]
      \/ c \in [op : {"unlink", "rmdir"}, path : Below]
      \/ c \in [op : {"rename"}, path : Below, dst : Paths]
      \/ c \in [op : {"chmod"}, path : Paths, perm : Perms]
      \/ c \in [op : {"utime"}, path : Paths, time : Times]
      \/ c \in [op : {"truncate"}, path : Paths, len : TruncLens]
      \/ c \in [op : {"read"}, path : Paths, offset : IoOffsets, len : IoLens]
      \/ c \in [op : {"write"}, path : Paths, offset : IoOffsets, len : IoLens, byte : Bytes, now : Times]
      \/ c \in [op : {"getattr", "readdir"}, path : Paths]
      \/ c \in [op : {"statfs"}, path : {none}]
  BY <1>1
<1> QED
  BY <1>2, <1>3 DEF Adding, Removing, none

\* A call that is refused takes a step of its handler,
LEMMA RefusedAtomic ==
    ASSUME NEW c \in Requests, c.op \in Calls, NEW ret \in Int, ret < 0, Judged(settled, c, ret),
           NEW y, Unmoved(settled, y), Answers(c, ret, y)
    PROVE  Atomic!Next
<1>1. Atomic!Fail(c.op, c.path, ret)
  <2>1. reply' = [op |-> c.op, path |-> c.path, ret |-> ret, data |-> <<>>]
    <3>1. [n \in 1 .. ret |-> Given(c, y.buf, n)] = <<>>
      <4>1. 1 .. ret = {}
        OBVIOUS
      <4> QED
        BY <4>1
    <3> QED
      BY <3>1 DEF Answers
  <2> QED
    BY <2>1 DEF Atomic!Fail, Atomic!Reply, Answers, Unmoved
<1>2. CASE c.op \in {"create", "mkdir"}
  <2>1. ret = Atomic!CreateStatus(c.path, IF c.op = "create" THEN 1 ELSE 2)
    BY <1>2, SameVerdicts DEF Judged
  <2>2. Atomic!Create(c.path, c.perm, c.now) \/ Atomic!Mkdir(c.path, c.perm, c.now)
    BY <1>1, <1>2, <2>1 DEF Atomic!Create, Atomic!Mkdir
  <2> QED
    BY <1>2, <2>2, RequestArgs, SameTerms DEF Atomic!Next, Adding
<1>3. CASE c.op \in {"unlink", "rmdir"}
  <2>1. ret = IF c.op = "unlink" THEN Atomic!Resolve(c.path) ELSE Atomic!RmdirStatus(c.path)
    BY <1>3, SameVerdicts DEF Judged
  <2>2. Atomic!Unlink(c.path) \/ Atomic!Rmdir(c.path)
    BY <1>1, <1>3, <2>1 DEF Atomic!Unlink, Atomic!Rmdir
  <2> QED
    BY <1>3, <2>2, RequestArgs, SameTerms DEF Atomic!Next, Removing
<1>4. CASE c.op = "rename"
  <2>1. ret = Atomic!RenameStatus(c.path, c.dst)
    BY <1>4, SameVerdicts DEF Judged
  <2>2. Atomic!Rename(c.path, c.dst)
    BY <1>1, <1>4, <2>1 DEF Atomic!Rename
  <2> QED
    BY <1>4, <2>2, RequestArgs, SameTerms DEF Atomic!Next
<1>5. CASE c.op = "chmod"
  <2>1. ret = Atomic!Resolve(c.path)
    BY <1>5, SameVerdicts DEF Judged
  <2>2. Atomic!Chmod(c.path, c.perm)
    BY <1>1, <1>5, <2>1 DEF Atomic!Chmod
  <2> QED
    BY <1>5, <2>2, RequestArgs DEF Atomic!Next
<1>6. CASE c.op = "utime"
  <2>1. ret = Atomic!ResolveFile(c.path)
    BY <1>6, SameVerdicts DEF Judged
  <2>2. Atomic!Utime(c.path, c.time)
    BY <1>1, <1>6, <2>1 DEF Atomic!Utime
  <2> QED
    BY <1>6, <2>2, RequestArgs DEF Atomic!Next
<1>7. CASE c.op = "truncate"
  <2>1. ret = Atomic!TruncateStatus(c.path, c.len)
    BY <1>7, SameVerdicts DEF Judged
  <2>2. Atomic!Truncate(c.path, c.len)
    BY <1>1, <1>7, <2>1 DEF Atomic!Truncate
  <2> QED
    BY <1>7, <2>2, RequestArgs DEF Atomic!Next
<1>8. CASE c.op = "read"
  <2>1. ret = Atomic!ReadStatus(c.path, c.offset, c.len)
    BY <1>8, SameVerdicts DEF Judged
  <2>2. Atomic!Read(c.path, c.offset, c.len)
    BY <1>1, <1>8, <2>1 DEF Atomic!Read
  <2> QED
    BY <1>8, <2>2, RequestArgs DEF Atomic!Next
<1>9. CASE c.op = "write"
  <2>1. ret = Atomic!WriteStatus(c.path, c.offset, c.len)
    BY <1>9, SameVerdicts DEF Judged
  <2>2. Atomic!Write(c.path, c.offset, c.len, c.byte, c.now)
    BY <1>1, <1>9, <2>1 DEF Atomic!Write
  <2> QED
    BY <1>9, <2>2, RequestArgs DEF Atomic!Next
<1>10. CASE c.op \in {"getattr", "readdir"}
  <2>1. ret = IF c.op = "getattr" THEN Atomic!Resolve(c.path) ELSE Atomic!ReaddirStatus(c.path)
    BY <1>10, SameVerdicts DEF Judged
  <2>2. Atomic!Getattr(c.path) \/ Atomic!Readdir(c.path)
    BY <1>1, <1>10, <2>1 DEF Atomic!Getattr, Atomic!Readdir
  <2> QED
    BY <1>10, <2>2, RequestArgs DEF Atomic!Next
<1>11. c.op = "statfs" => ret = OK
  BY DEF Judged
<1> QED
  BY <1>2, <1>3, <1>4, <1>5, <1>6, <1>7, <1>8, <1>9, <1>10, <1>11 DEF Judged, OK

\* and so does one that adds an object,
LEMMA AddedAtomic ==
    ASSUME NEW c \in Requests, c.op \in Calls, NEW y, Answers(c, OK, y),
           Creates(c, settled, y) \/ MakesDir(c, settled, y)
    PROVE  Atomic!Next
<1>1. CASE Creates(c, settled, y)
  <2>1. c.op = "create" /\ Atomic!CreateStatus(c.path, 1) = Atomic!OK
    BY <1>1, SameVerdicts, SameTerms DEF Creates
  <2>2. PICK new \in FirstFree(settled.bitmap, 1) :
           AccountsFor(settled, y, LinkedIn(settled, c.path, new[1], NewInode("file", c.perm, c.now, 0)),
                    settled.bitmap \cup {new[1]}, -1)
    BY <1>1 DEF Creates
  <2>3. Atomic!SaveBitmap(Atomic!Linked(c.path, new[1], Atomic!NewInode("file", c.perm, c.now, 0)),
                          settled.bitmap \cup {new[1]})
    BY <2>2, SameVerdicts, SameData, SameTerms DEF Atomic!SaveBitmap, AccountsFor, Saved, Answers
  <2>4. Atomic!AddFree(-1) /\ Atomic!Done("create", c.path, Atomic!OK)
    BY <2>1, <2>2, SameTerms DEF Atomic!AddFree, Atomic!Done, Atomic!Reply, AccountsFor, CountedBy, Answers
  <2>5. Atomic!Create(c.path, c.perm, c.now)
    BY <2>1, <2>3, <2>4, SameData DEF Atomic!Create
  <2> QED
    BY <2>1, <2>5, RequestArgs, SameTerms DEF Atomic!Next, Adding
<1>2. CASE MakesDir(c, settled, y)
  <2>1. c.op = "mkdir" /\ Atomic!CreateStatus(c.path, 2) = Atomic!OK
    BY <1>2, SameVerdicts, SameTerms DEF MakesDir
  <2>2. PICK new \in FirstFree(settled.bitmap, 2) :
           AccountsFor(settled, y,
                    [LinkedIn(settled, c.path, new[1], NewInode("dir", c.perm, c.now, new[2])) EXCEPT ![new[2]] = EmptyDir],
                    settled.bitmap \cup {new[1], new[2]}, -2)
    BY <1>2 DEF MakesDir
  <2>3. Atomic!SaveBitmap([Atomic!Linked(c.path, new[1], Atomic!NewInode("dir", c.perm, c.now, new[2]))
                              EXCEPT ![new[2]] = Atomic!EmptyDir],
                          settled.bitmap \cup {new[1], new[2]})
    BY <2>2, SameVerdicts, SameData, SameTerms DEF Atomic!SaveBitmap, AccountsFor, Saved, Answers
  <2>4. Atomic!AddFree(-2) /\ Atomic!Done("mkdir", c.path, Atomic!OK)
    BY <2>1, <2>2, SameTerms DEF Atomic!AddFree, Atomic!Done, Atomic!Reply, AccountsFor, CountedBy, Answers
  <2>5. Atomic!Mkdir(c.path, c.perm, c.now)
    BY <2>1, <2>3, <2>4, SameData DEF Atomic!Mkdir
  <2> QED
    BY <2>1, <2>5, RequestArgs, SameTerms DEF Atomic!Next, Adding
<1> QED
  BY <1>1, <1>2

\* removes one,
LEMMA RemovedAtomic ==
    ASSUME NEW c \in Requests, c.op \in Calls, NEW y, Answers(c, OK, y), Removes(c, settled, y)
    PROVE  Atomic!Next
<1> DEFINE i == InodeAt(settled, c.path)
<1>1. Atomic!Resolve(c.path) = i /\ Atomic!Unlinked(c.path) = UnlinkedIn(settled, c.path)
  BY SameVerdicts
<1>2. c.op \in {"unlink", "rmdir"}
  BY DEF Removes
<1> HIDE DEF i
<1>3. CASE c.op = "unlink"
  <2>1. /\ i >= 0
        /\ AccountsFor(settled, y, UnlinkedIn(settled, c.path),
                    settled.bitmap \ ({i} \cup DataBlocks(settled.disk[i])), BlocksFor(settled.disk[i].size) + 1)
    BY <1>3 DEF Removes, i
  <2>2. Atomic!SaveBitmap(Atomic!Unlinked(c.path), settled.bitmap \ ({i} \cup Atomic!DataBlocks(settled.disk[i])))
    BY <1>1, <2>1, SameData, SameTerms DEF Atomic!SaveBitmap, AccountsFor, Saved, Answers
  <2>3. Atomic!AddFree(Atomic!BlocksFor(settled.disk[i].size) + 1) /\ Atomic!Done("unlink", c.path, Atomic!OK)
    BY <1>3, <2>1, SameData, SameTerms DEF Atomic!AddFree, Atomic!Done, Atomic!Reply, AccountsFor, CountedBy, Answers
  <2>4. Atomic!Unlink(c.path)
    BY <1>1, <2>1, <2>2, <2>3 DEF Atomic!Unlink
  <2> QED
    BY <1>2, <2>4, RequestArgs, SameTerms DEF Atomic!Next, Removing
<1>4. CASE c.op = "rmdir"
  <2>1. /\ RmdirVerdict(settled, c.path) = OK
        /\ AccountsFor(settled, y, UnlinkedIn(settled, c.path), settled.bitmap \ {i, settled.disk[i].ptrs[0]}, 2)
    BY <1>4 DEF Removes, i
  <2>2. Atomic!SaveBitmap(Atomic!Unlinked(c.path), settled.bitmap \ {i, settled.disk[i].ptrs[0]})
    BY <1>1, <2>1, SameTerms DEF Atomic!SaveBitmap, AccountsFor, Saved, Answers
  <2>3. Atomic!AddFree(2) /\ Atomic!Done("rmdir", c.path, Atomic!OK)
    BY <1>4, <2>1, SameTerms DEF Atomic!AddFree, Atomic!Done, Atomic!Reply, AccountsFor, CountedBy, Answers
  <2>4. Atomic!Rmdir(c.path)
    BY <1>1, <2>1, <2>2, <2>3, SameVerdicts, SameTerms DEF Atomic!Rmdir
  <2> QED
    BY <1>2, <2>4, RequestArgs, SameTerms DEF Atomic!Next, Removing
<1> QED
  BY <1>2, <1>3, <1>4

\* changes an entry or an attribute,
LEMMA RetouchedAtomic ==
    ASSUME NEW c \in Requests, c.op \in Calls, NEW y, Answers(c, OK, y), Retouches(c, settled, y)
    PROVE  Atomic!Next
<1>1. c.op \in {"rename", "chmod", "utime"}
  BY DEF Retouches
<1>2. Atomic!Done(c.op, c.path, Atomic!OK)
  BY <1>1, SameTerms DEF Atomic!Done, Atomic!Reply, Answers
<1>3. CASE c.op = "rename"
  <2> DEFINE p == DirOf(settled, c.path)
             k == Min(Matches(settled.disk, p, Leaf(c.path)))
             e == [name |-> Leaf(c.dst), inode |-> Entries(settled.disk, p)[k].inode]
  <2>1. RenameVerdict(settled, c.path, c.dst) = OK /\ Adjusts(settled, y, WithEntry(settled.disk, p, k, e))
    BY <1>3 DEF Retouches, RenamedIn
  <2>2. /\ p = Atomic!ResolveParent(c.path) /\ Atomic!RenameStatus(c.path, c.dst) = Atomic!OK
        /\ k = Atomic!Min(Atomic!Matches(settled.disk, p, Atomic!Leaf(c.path)))
        /\ e = [name |-> Atomic!Leaf(c.dst), inode |-> Atomic!Entries(settled.disk, p)[k].inode]
    BY <2>1, SameVerdicts, SamePaths, SameTerms
  <2> HIDE DEF p, k, e
  <2>3. settled'.disk = Atomic!WithEntry(settled.disk, p, k, e)
    BY <2>1, SamePaths DEF Adjusts, Answers
  <2>4. UNCHANGED <<settled.bitmap, settled.statVfs>>
    BY <2>1 DEF Adjusts, Answers
  <2>5. Atomic!Rename(c.path, c.dst)
    BY <1>2, <1>3, <2>2, <2>3, <2>4 DEF Atomic!Rename
  <2> QED
    BY <1>3, <2>5, RequestArgs, SameTerms DEF Atomic!Next
<1>4. CASE c.op = "chmod"
  <2> DEFINE i == InodeAt(settled, c.path)
  <2>1. i >= 0 /\ Adjusts(settled, y, [settled.disk EXCEPT ![i] = [@ EXCEPT !.perm = c.perm]])
    BY <1>4 DEF Retouches
  <2>2. i = Atomic!Resolve(c.path)
    BY SameVerdicts
  <2> HIDE DEF i
  <2>3. Atomic!Chmod(c.path, c.perm)
    BY <1>2, <1>4, <2>1, <2>2 DEF Atomic!Chmod, Adjusts, Answers
  <2> QED
    BY <1>4, <2>3, RequestArgs DEF Atomic!Next
<1>5. CASE c.op = "utime"
  <2> DEFINE i == FileAt(settled, c.path)
  <2>1. i >= 0 /\ Adjusts(settled, y, [settled.disk EXCEPT ![i] = [@ EXCEPT !.mtime = c.time]])
    BY <1>5 DEF Retouches
  <2>2. i = Atomic!ResolveFile(c.path)
    BY SameVerdicts
  <2> HIDE DEF i
  <2>3. Atomic!Utime(c.path, c.time)
    BY <1>2, <1>5, <2>1, <2>2 DEF Atomic!Utime, Adjusts, Answers
  <2> QED
    BY <1>5, <2>3, RequestArgs DEF Atomic!Next
<1> QED
  BY <1>1, <1>3, <1>4, <1>5

\* shortens a file,
LEMMA TruncatedAtomic ==
    ASSUME NEW c \in Requests, c.op \in Calls, NEW y, Answers(c, OK, y), Truncates(c, settled, y)
    PROVE  Atomic!Next
<1> DEFINE i       == FileAt(settled, c.path)
           old     == settled.disk[i]
           removed == BlocksFor(c.len) .. BlocksFor(old.size) - 1
           inode   == [old EXCEPT !.size = c.len,
                                  !.ptrs = [k \in PtrIdx |-> IF k \in removed THEN NoPtr ELSE @[k]]]
           freed   == {old.ptrs[k] : k \in removed}
<1>1. /\ c.op = "truncate" /\ TruncateVerdict(settled, c.path, c.len) = OK
      /\ AccountsFor(settled, y, [settled.disk EXCEPT ![i] = inode], settled.bitmap \ freed,
                  BlocksFor(old.size) - BlocksFor(c.len))
  BY DEF Truncates, Shortened
<1>2. i = Atomic!ResolveFile(c.path) /\ Atomic!TruncateStatus(c.path, c.len) = Atomic!OK
  BY <1>1, SameVerdicts, SameTerms
<1>3. removed = Atomic!BlocksFor(c.len) .. Atomic!BlocksFor(old.size) - 1
  BY SameData
<1>4. inode = [old EXCEPT !.size = c.len,
                          !.ptrs = [k \in Atomic!PtrIdx |-> IF k \in removed THEN Atomic!NoPtr ELSE @[k]]]
  BY SameTerms
<1> HIDE DEF inode, removed, freed, i
<1>5. Atomic!SaveBitmap([settled.disk EXCEPT ![i] = inode], settled.bitmap \ freed)
  BY <1>1, SameTerms DEF Atomic!SaveBitmap, AccountsFor, Saved, Answers
<1>6. /\ Atomic!AddFree(Atomic!BlocksFor(old.size) - Atomic!BlocksFor(c.len))
      /\ Atomic!Done("truncate", c.path, Atomic!OK)
  BY <1>1, SameData, SameTerms DEF Atomic!AddFree, Atomic!Done, Atomic!Reply, AccountsFor, CountedBy, Answers
<1>7. Atomic!Truncate(c.path, c.len)
  BY <1>2, <1>3, <1>4, <1>5, <1>6 DEF Atomic!Truncate, freed
<1> QED
  BY <1>1, <1>7, RequestArgs DEF Atomic!Next

\* reads one,
LEMMA ReadAtomic ==
    ASSUME NEW c \in Requests, c.op \in Calls, NEW ret, NEW y, Answers(c, ret, y), Reads(c, ret, settled, y)
    PROVE  Atomic!Next
<1>1. /\ c.op = "read" /\ ret = Atomic!ReadStatus(c.path, c.offset, c.len) /\ ret >= 0
      /\ UNCHANGED <<settled.disk, settled.bitmap, settled.statVfs>>
  BY SameVerdicts DEF Reads, Unmoved, Answers
<1>2. [n \in 1 .. ret |-> Given(c, y.buf, n)]
        = [n \in 1 .. ret |-> Atomic!ByteAt(Atomic!ResolveFile(c.path), c.offset + n - 1)]
  BY SameVerdicts DEF Reads
<1>3. reply' = [op |-> "read", path |-> c.path, ret |-> ret,
                data |-> [n \in 1 .. ret |-> Atomic!ByteAt(Atomic!ResolveFile(c.path), c.offset + n - 1)]]
  BY <1>1, <1>2 DEF Answers
<1>4. Atomic!Read(c.path, c.offset, c.len)
  BY <1>1, <1>3 DEF Atomic!Read
<1> QED
  BY <1>1, <1>4, RequestArgs DEF Atomic!Next

\* writes one,
LEMMA WrittenAtomic ==
    ASSUME NEW c \in Requests, c.op \in Calls, NEW y, Answers(c, c.len, y), Stuffs(c, settled, y)
    PROVE  Atomic!Next
<1> DEFINE i    == FileAt(settled, c.path)
           old  == settled.disk[i]
           need == BlocksNeeded(old.size, c.offset, c.len)
<1>1. /\ c.op = "write" /\ WriteVerdict(settled, c.path, c.offset, c.len) = OK
      /\ settled.statVfs.f_bfree - need <= MaxFree
  BY DEF Stuffs
<1>2. PICK fresh \in FirstFree(settled.bitmap, need) :
          /\ IF need > 0 THEN /\ y.disk = Saved(StoredIn(settled, c, fresh), settled.bitmap \cup Range(fresh))
                              /\ y.bitmap = settled.bitmap \cup Range(fresh)
             ELSE y.disk = StoredIn(settled, c, fresh) /\ y.bitmap = settled.bitmap
          /\ y.statVfs = CountedBy(settled.statVfs, - need)
  BY DEF Stuffs
<1> DEFINE inode == Grown(old, fresh, c.offset + c.len, c.now)
           image == Stored([settled.disk EXCEPT ![i] = inode], inode, BlocksFor(old.size), c.offset, c.len, c.byte)
<1>3. StoredIn(settled, c, fresh) = image
  BY DEF StoredIn
<1>4. /\ i = Atomic!ResolveFile(c.path) /\ Atomic!WriteStatus(c.path, c.offset, c.len) = Atomic!OK
      /\ need = Atomic!BlocksNeeded(old.size, c.offset, c.len)
      /\ fresh \in Atomic!FirstFree(settled.bitmap, need)
      /\ inode = Atomic!Grown(old, fresh, c.offset + c.len, c.now)
      /\ Range(fresh) = Atomic!Range(fresh)
  <2>1. Range(fresh) = Atomic!Range(fresh)
    BY DEF Range, Atomic!Range
  <2> QED
    BY <1>1, <1>2, <2>1, SameVerdicts, SameData, SameTerms
<1>5. image = Atomic!Stored([settled.disk EXCEPT ![i] = inode], inode, Atomic!BlocksFor(old.size),
                            c.offset, c.len, c.byte)
  BY SameData
<1> HIDE DEF inode, image, need, i
<1>6. IF need > 0 THEN Atomic!SaveBitmap(image, settled.bitmap \cup Atomic!Range(fresh))
      ELSE settled'.disk = image /\ UNCHANGED settled.bitmap
  BY <1>2, <1>3, <1>4, SameTerms DEF Atomic!SaveBitmap, Saved, Answers
<1>7. Atomic!AddFree(- need) /\ Atomic!Done("write", c.path, c.len)
  BY <1>1, <1>2 DEF Atomic!AddFree, Atomic!Done, Atomic!Reply, CountedBy, Answers
<1>8. Atomic!Write(c.path, c.offset, c.len, c.byte, c.now)
  <2>1. /\ settled.statVfs.f_bfree - need <= MaxFree
        /\ Atomic!WriteStatus(c.path, c.offset, c.len) = Atomic!OK
    BY <1>1, <1>4
  <2> QED
    BY <1>4, <1>5, <1>6, <1>7, <2>1 DEF Atomic!Write
<1> QED
  BY <1>1, <1>8, RequestArgs DEF Atomic!Next

\* or only looks.
LEMMA LookedAtomic ==
    ASSUME NEW c \in Requests, c.op \in Calls, NEW y, Answers(c, OK, y), Looks(c, settled, y)
    PROVE  Atomic!Next
<1>1. c.op \in {"getattr", "readdir", "statfs"} /\ UNCHANGED <<settled.disk, settled.bitmap, settled.statVfs>>
  BY DEF Looks, Unmoved, Answers
<1>2. Atomic!Done(c.op, c.path, Atomic!OK)
  BY <1>1, SameTerms DEF Atomic!Done, Atomic!Reply, Answers
<1>3. CASE c.op \in {"getattr", "readdir"}
  <2>1. Atomic!Getattr(c.path) \/ Atomic!Readdir(c.path)
    BY <1>1, <1>2, <1>3, SameVerdicts DEF Atomic!Getattr, Atomic!Readdir, Looks
  <2> QED
    BY <1>3, <2>1, RequestArgs DEF Atomic!Next
<1>4. CASE c.op = "statfs"
  <2>1. Atomic!Statfs
    BY <1>1, <1>2, <1>4, RequestArgs DEF Atomic!Statfs
  <2> QED
    BY <2>1 DEF Atomic!Next
<1> QED
  BY <1>1, <1>3, <1>4

\* A call that has done what it should takes a step of FileSystem.
LEMMA OutcomeAtomic ==
    ASSUME NEW c \in Requests, c.op \in Calls, NEW ret \in Int, NEW y, Outcome(c, ret, settled, y), Answers(c, ret, y)
    PROVE  Atomic!Next
<1>1. CASE ret < 0 /\ Judged(settled, c, ret) /\ Unmoved(settled, y)
  BY <1>1, RefusedAtomic
<1>2. CASE Reads(c, ret, settled, y)
  BY <1>2, ReadAtomic
<1>3. CASE ret = c.len /\ Stuffs(c, settled, y)
  BY <1>3, WrittenAtomic
<1>4. CASE ret = OK /\ (Creates(c, settled, y) \/ MakesDir(c, settled, y))
  BY <1>4, AddedAtomic
<1>5. CASE ret = OK /\ Removes(c, settled, y)
  BY <1>5, RemovedAtomic
<1>6. CASE ret = OK /\ Retouches(c, settled, y)
  BY <1>6, RetouchedAtomic
<1>7. CASE ret = OK /\ Truncates(c, settled, y)
  BY <1>7, TruncatedAtomic
<1>8. CASE ret = OK /\ Looks(c, settled, y)
  BY <1>8, LookedAtomic
<1> QED
  BY <1>1, <1>2, <1>3, <1>4, <1>5, <1>6, <1>7, <1>8 DEF Outcome

-----------------------------------------------------------------------------
(* What a thread knows of its call                                         *)

\* The image, the bitmap and the counters are as the call before left them.
Current(s, d, bm, v) == s.disk = d /\ s.bitmap = bm /\ s.statVfs = v

\* What a handler has found out before it resolves this path: that the atomic one would go on too.
Aware(r, s) ==
    LET c == r.call  i == InodeAt(s, c.path) IN
    /\ c.op # "statfs"
    /\ c.op \in Adding => r.goal = "parent"
    /\ r.goal = "parent" => c.op \in Adding \cup Removing \cup Moving
    /\ r.goal = "destination" => c.op \in Moving
    /\ c.op \in Moving /\ r.goal # "target" => i >= 0
    /\ c.op \in Moving /\ r.goal = "parent" => RenameVerdict(s, c.path, c.dst) = OK
    /\ c.op = "unlink" /\ r.goal = "parent" =>
          i >= 0 /\ r.blocks = Allocated(s.disk[i], i)
    /\ c.op = "rmdir" /\ r.goal = "parent" =>
          RmdirVerdict(s, c.path) = OK /\ r.blocks = <<i, s.disk[i].ptrs[0]>>
    /\ c.op = "write" => s.statVfs.f_bfree + DiskSize <= MaxFree

\* What is left to do ends in what the atomic handler would do.
Ends(r, d, bm, v, s) ==
    \E y : Runs(r.call, r.todo, Scene(d, bm, v, r.seen, r.buf), y) /\ Outcome(r.call, r.ret, s, y)

\* A read that will meet a pointer that leads nowhere.
Doomed(r, d, bm, v, s) ==
    /\ Current(s, d, bm, v)
    /\ r.call.op = "read" /\ ReadVerdict(s, r.call.path, r.call.offset, r.call.len) = EIO
    /\ \A k \in 1 .. Len(r.todo) : r.todo[k].do = "fetch"
    /\ \E k \in 1 .. Len(r.todo) : r.todo[k].lba \notin Blocks

Faithful(r, d, bm, v, s) ==
    /\ r.at # "dead"
    /\ r.at # "idle" => r.call \in Requests /\ r.call.op \in Calls
    /\ r.at # "todo" => Current(s, d, bm, v)
    /\ r.at \in {"inode", "entries", "dir"} => Aware(r, s)
    /\ r.at = "todo" => Ends(r, d, bm, v, s) \/ Doomed(r, d, bm, v, s)

\* The thread in the system.
Trusty(t) == Faithful(thr[t], disk, bitmap, statVfs, settled)

\* A step that returns nothing yet.
Discreet(t) == Trusty(t)' /\ settled' = settled /\ reply' = reply

\* A thread with all its fields.
Full(r) ==
    {"call", "at", "goal", "rest", "inum", "ino", "blocks", "seen", "buf", "todo", "ret", "sought"} \subseteq DOMAIN r

\* The fields that count here.
Alike(w, r) ==
    Full(w) /\ w.call = r.call /\ w.goal = r.goal /\ w.blocks = r.blocks /\ w.seen = r.seen /\ w.buf = r.buf

\* What the steps of a handler make of them: it decides,
LEMMA FieldsDo ==
    ASSUME NEW r, Full(r), NEW q, NEW ret, NEW w, w = Do(r, q, ret)
    PROVE  Alike(w, r) /\ w.at = "todo" /\ w.todo = q /\ w.ret = ret
  BY DEF Do, Alike, Full

\* resolves a path,
LEMMA FieldsWalk ==
    ASSUME NEW r, Full(r), NEW goal, NEW path, NEW w, w = Walk(r, goal, path)
    PROVE  Full(w) /\ w.at = "inode" /\ w.goal = goal /\ w.call = r.call /\ w.blocks = r.blocks
  BY DEF Walk, Full

\* looks into a directory,
LEMMA FieldsLook ==
    ASSUME NEW r, Full(r), NEW w, w = LookIn(r)
    PROVE  Alike(w, r) /\ w.at = "dir"
  BY DEF LookIn, Alike, Full

\* keeps an inode,
LEMMA FieldsIno ==
    ASSUME NEW r, Full(r), NEW x, NEW w, w = [r EXCEPT !.ino = x]
    PROVE  Alike(w, r) /\ w.at = r.at
  BY DEF Alike, Full

\* a buffer,
LEMMA FieldsBuf ==
    ASSUME NEW r, Full(r), NEW x, NEW w, w = [r EXCEPT !.buf = x]
    PROVE  Full(w) /\ w.call = r.call /\ w.goal = r.goal /\ w.blocks = r.blocks /\ w.seen = r.seen /\ w.buf = x
  BY DEF Full

\* the blocks it is to free,
LEMMA FieldsBlocks ==
    ASSUME NEW r, Full(r), NEW x, NEW w, w = [r EXCEPT !.blocks = x]
    PROVE  Full(w) /\ w.call = r.call /\ w.goal = r.goal /\ w.blocks = x
  BY DEF Full

\* goes on along its path,
LEMMA FieldsOn ==
    ASSUME NEW r, Full(r), NEW i, NEW w, w = [r EXCEPT !.at = "inode", !.inum = i, !.rest = Tail(@)]
    PROVE  Alike(w, r) /\ w.at = "inode"
  BY DEF Alike, Full

\* into a directory,
LEMMA FieldsInto ==
    ASSUME NEW r, Full(r), NEW w, w = [r EXCEPT !.at = "entries"]
    PROVE  Alike(w, r) /\ w.at = "entries"
  BY DEF Alike, Full

\* or seeks.
LEMMA FieldsSought ==
    ASSUME NEW r, Full(r), NEW k, NEW w, w = [r EXCEPT !.sought = k]
    PROVE  Alike(w, r) /\ w.at = r.at /\ w.todo = r.todo /\ w.ret = r.ret
  BY DEF Alike, Full

\* All threads have them.
LEMMA TypeFull == \A r \in ThreadType : Full(r)
  BY DEF ThreadType, Full

\* How far the file offset is from the block that a thread is at does not matter to it.
LEMMA FaithfulSought ==
    ASSUME NEW r, Full(r), NEW d, NEW bm, NEW v, NEW s, Faithful(r, d, bm, v, s), NEW k
    PROVE  Faithful([r EXCEPT !.sought = k], d, bm, v, s)
<1> DEFINE w == [r EXCEPT !.sought = k]
<1>1. Alike(w, r) /\ w.at = r.at /\ w.todo = r.todo /\ w.ret = r.ret  BY FieldsSought
<1> HIDE DEF w
<1>2. w.call = r.call /\ w.goal = r.goal /\ w.blocks = r.blocks /\ w.seen = r.seen /\ w.buf = r.buf
  BY <1>1 DEF Alike
<1>3. Aware(r, s) => Aware(w, s)  BY <1>2 DEF Aware
<1>4. Ends(r, d, bm, v, s) => Ends(w, d, bm, v, s)  BY <1>1, <1>2 DEF Ends
<1>5. Doomed(r, d, bm, v, s) => Doomed(w, d, bm, v, s)  BY <1>1, <1>2 DEF Doomed
<1>6. Faithful(w, d, bm, v, s)  BY <1>1, <1>2, <1>3, <1>4, <1>5 DEF Faithful
<1>7. QED  BY <1>6 DEF w

\* A thread that moves on.
LEMMA FaithfulTurn ==
    ASSUME NEW t \in Threads, thr \in [Threads -> ThreadType], NEW w, Full(w), Becomes(t, w),
           Faithful(w, disk', bitmap', statVfs', settled')
    PROVE  Trusty(t)'
<1>1. thr'[t] = [w EXCEPT !.sought = 0]  BY DEF Becomes
<1>2. Faithful([w EXCEPT !.sought = 0], disk', bitmap', statVfs', settled')  BY FaithfulSought
<1>3. QED  BY <1>1, <1>2 DEF Trusty

\* One that is still on its way,
LEMMA FaithfulWalk ==
    ASSUME NEW w, w.at \in {"inode", "entries", "dir"}, w.call \in Requests, w.call.op \in Calls,
           NEW d, NEW bm, NEW v, NEW s, Current(s, d, bm, v), Aware(w, s)
    PROVE  Faithful(w, d, bm, v, s)
  BY DEF Faithful

\* and one that has decided: what it does then,
LEMMA FaithfulDo ==
    ASSUME NEW r, Full(r), r.call \in Requests, r.call.op \in Calls, NEW q, NEW ret,
           NEW d, NEW bm, NEW v, NEW s, NEW y, Runs(r.call, q, Scene(d, bm, v, r.seen, r.buf), y),
           Outcome(r.call, ret, s, y)
    PROVE  Full(Do(r, q, ret)) /\ Faithful(Do(r, q, ret), d, bm, v, s)
<1> DEFINE w == Do(r, q, ret)
<1>1. Alike(w, r) /\ w.at = "todo" /\ w.todo = q /\ w.ret = ret  BY FieldsDo
<1> HIDE DEF w
<1>2. w.call = r.call /\ w.seen = r.seen /\ w.buf = r.buf /\ Full(w)  BY <1>1 DEF Alike
<1>3. Ends(w, d, bm, v, s)  BY <1>1, <1>2 DEF Ends
<1>4. Faithful(w, d, bm, v, s)  BY <1>1, <1>2, <1>3 DEF Faithful
<1>5. QED  BY <1>2, <1>4 DEF w

\* or nothing, with an error or not.
LEMMA FaithfulAnswer ==
    ASSUME NEW r, Full(r), r.call \in Requests, r.call.op \in Calls, NEW ret,
           NEW d, NEW bm, NEW v, NEW s, Current(s, d, bm, v),
           \/ ret < 0 /\ Judged(s, r.call, ret)
           \/ \A y : Unmoved(s, y) => Outcome(r.call, ret, s, y)
    PROVE  Full(Answer(r, ret)) /\ Faithful(Answer(r, ret), d, bm, v, s)
<1> DEFINE y == Scene(d, bm, v, r.seen, r.buf)
<1>1. Runs(r.call, <<>>, y, y)  BY RunsOne
<1>2. Unmoved(s, y)  BY DEF Unmoved, Scene, Current
<1>3. Outcome(r.call, ret, s, y)  BY <1>2 DEF Outcome
<1> HIDE DEF y
<1>4. Full(Do(r, <<>>, ret)) /\ Faithful(Do(r, <<>>, ret), d, bm, v, s)
  BY <1>1, <1>3, FaithfulDo DEF y
<1>5. QED  BY <1>4 DEF Answer

-----------------------------------------------------------------------------
(* A thread on its way                                                     *)

\* What it knows.
Standing(t) ==
    /\ thr \in [Threads -> ThreadType] /\ Full(thr[t])
    /\ thr[t].call \in Requests /\ thr[t].call.op \in Calls
    /\ Current(settled, disk, bitmap, statVfs) /\ Aware(thr[t], settled)

\* It does.
LEMMA Informed ==
    ASSUME NEW t \in Threads, StepIInv(t), Trusty(t), thr[t].at \in {"inode", "entries", "dir"}
    PROVE  Standing(t)
<1>1. thr \in [Threads -> ThreadType] /\ thr[t] \in ThreadType  BY DEF StepIInv
<1>2. Full(thr[t])  BY <1>1, TypeFull
<1>3. QED  BY <1>1, <1>2 DEF Standing, Trusty, Faithful

\* A step that changes nothing but what a thread remembers.
Reticent == Untouched /\ settled' = settled /\ reply' = reply

\* One of a thread that moves on.
LEMMA MovesOn ==
    ASSUME NEW t \in Threads, Standing(t), Reticent, NEW w, Full(w), Becomes(t, w),
           Faithful(w, disk, bitmap, statVfs, settled)
    PROVE  Discreet(t)
<1>1. disk' = disk /\ bitmap' = bitmap /\ statVfs' = statVfs /\ settled' = settled /\ reply' = reply
  BY DEF Reticent, Untouched
<1>2. Faithful(w, disk', bitmap', statVfs', settled')  BY <1>1
<1>3. Trusty(t)'  BY <1>2, FaithfulTurn DEF Standing
<1>4. QED  BY <1>1, <1>3 DEF Discreet

\* of one that stays on its way,
LEMMA StaysOn ==
    ASSUME NEW t \in Threads, Standing(t), Reticent, NEW w, Full(w), Becomes(t, w),
           w.at \in {"inode", "entries", "dir"}, w.call = thr[t].call, Aware(w, settled)
    PROVE  Discreet(t)
<1>1. Faithful(w, disk, bitmap, statVfs, settled)  BY FaithfulWalk DEF Standing
<1>2. QED  BY <1>1, MovesOn

\* that returns at once,
LEMMA TurnsBack ==
    ASSUME NEW t \in Threads, Standing(t), Reticent, NEW ret, Becomes(t, Answer(thr[t], ret)),
           \/ ret < 0 /\ Judged(settled, thr[t].call, ret)
           \/ \A y : Unmoved(settled, y) => Outcome(thr[t].call, ret, settled, y)
    PROVE  Discreet(t)
<1>1. /\ Full(Answer(thr[t], ret))
      /\ Faithful(Answer(thr[t], ret), disk, bitmap, statVfs, settled)
  BY FaithfulAnswer DEF Standing
<1>2. QED  BY <1>1, MovesOn

\* or that has decided.
LEMMA Resolves ==
    ASSUME NEW t \in Threads, Standing(t), Reticent, NEW w, Full(w), w.call = thr[t].call, NEW q, NEW ret,
           Becomes(t, Do(w, q, ret)), NEW y,
           Runs(thr[t].call, q, Scene(disk, bitmap, statVfs, w.seen, w.buf), y),
           Outcome(thr[t].call, ret, settled, y)
    PROVE  Discreet(t)
<1>1. Full(Do(w, q, ret)) /\ Faithful(Do(w, q, ret), disk, bitmap, statVfs, settled)
  BY FaithfulDo DEF Standing
<1>2. QED  BY <1>1, MovesOn

-----------------------------------------------------------------------------
(* What it finds                                                           *)

\* The inode x of the call's path,
AtTarget(r, s, x) ==
    LET i == InodeAt(s, r.call.path) IN i = r.inum /\ i \in Blocks /\ s.disk[i] = x /\ x \in Inode

\* or of the directory of its name,
AtParent(r, s, x) ==
    LET p == DirOf(s, r.call.path) IN
    /\ p = r.inum /\ p \in Blocks /\ s.disk[p] = x /\ x \in Inode
    /\ InodeAt(s, r.call.path) = Step(s.disk, p, Leaf(r.call.path)) /\ Leaf(r.call.path) \in Names

\* and the entries E of a directory.
InDir(r, s, E) ==
    LET i == r.inum IN
    /\ IsDir(s.disk, i) /\ s.disk[i] = r.ino /\ r.ino.ptrs[0] \in Blocks \ {SuperBlock}
    /\ Entries(s.disk, i) = E /\ E \in [Slots -> Entry \cup {NoEntry}]
    /\ FreeSlots(s.disk, i) = Vacant(E) /\ \A n : Matches(s.disk, i, n) = Named(E, n)

\* What the shadow says of where it is, the image says too.
LEMMA TargetView ==
    ASSUME NEW r \in ThreadType, NEW e, NEW m, NEW d, NEW bm, NEW ow, Heads(r, e, m, d, bm, ow),
           r.rest = <<>>, r.goal = "target", NEW s, s.disk = d
    PROVE  AtTarget(r, s, e[r.inum])
<1>1. /\ Shadow(d, e, m) /\ Course(r, e, m) /\ r.inum \in Blocks /\ d[r.inum] = e[r.inum]
      /\ e[r.inum] \in Inode /\ SaneCall(r.call)
  BY HeadsFacts
<1>2. Parse(r.call.path) \in Seq(Names) /\ r.inum = Translate(e, Parse(r.call.path))  BY <1>1, TargetOwned
<1>3. Translate(d, Parse(r.call.path)) = r.inum  BY <1>1, <1>2, ShadowWalk
<1>4. QED  BY <1>1, <1>3 DEF AtTarget, InodeAt

\* For the parent
LEMMA ParentView ==
    ASSUME NEW r \in ThreadType, NEW e, NEW m, NEW d, NEW bm, NEW ow, Heads(r, e, m, d, bm, ow),
           r.rest = <<>>, r.goal = "parent", r.call.op \in Adding \cup Removing \cup Moving, NEW s, s.disk = d
    PROVE  AtParent(r, s, e[r.inum])
<1> DEFINE q == Parse(r.call.path)
<1>1. /\ Shadow(d, e, m) /\ Course(r, e, m) /\ r.inum \in Blocks /\ d[r.inum] = e[r.inum]
      /\ e[r.inum] \in Inode /\ SaneCall(r.call)
  BY HeadsFacts
<1>2. Front(q) \in Seq(Names) /\ r.inum = Translate(e, Front(q))  BY <1>1, NameOwned
<1>3. q \in Seq(Names) /\ q # <<>> /\ Leaf(r.call.path) = Last(q) /\ Last(q) \in Names
  BY <1>1, ParseProperty DEF SaneCall, Leaf
<1>4. Translate(d, Front(q)) = r.inum  BY <1>1, <1>2, ShadowWalk
<1>5. Translate(d, q) = Step(d, r.inum, Last(q))  BY <1>3, <1>4, TranslateLast
<1>6. TranslateParent(d, q) = r.inum  BY <1>3, <1>4 DEF TranslateParent
<1>7. InodeAt(s, r.call.path) = Translate(d, q) /\ DirOf(s, r.call.path) = TranslateParent(d, q)
  BY DEF InodeAt, DirOf
<1> HIDE DEF q
<1>8. QED  BY <1>1, <1>3, <1>5, <1>6, <1>7 DEF AtParent

\* and for the entries.
LEMMA ListingView ==
    ASSUME NEW r \in ThreadType, NEW e, NEW m, NEW d, NEW bm, NEW ow, Heads(r, e, m, d, bm, ow),
           r.at \in {"entries", "dir"}, NEW s, s.disk = d
    PROVE  InDir(r, s, Entries(e, r.inum))
<1> DEFINE i == r.inum
           E == Entries(e, i)
<1>1. Shadow(d, e, m) /\ d[i] = e[i] /\ e[i] \in Inode  BY HeadsFacts
<1>2. /\ i \in DirsIn(e, m) /\ r.ino = e[i] /\ r.ino.ptrs[0] \in Blocks
      /\ AsEntries(d[r.ino.ptrs[0]]) = E /\ E \in [Slots -> Entry \cup {NoEntry}]
  BY ListingFacts
<1>3. e[i].type = "dir" /\ e[i].kind = "inode" /\ e[i].ptrs[0] # SuperBlock  BY <1>1, <1>2, ShadowFacts
<1>4. IsDir(d, i)  BY <1>1, <1>3 DEF IsDir, IsInode
<1>5. Entries(d, i) = E  BY <1>1, <1>2 DEF Entries, AsEntries
<1> HIDE DEF E
<1>6. FreeSlots(d, i) = Vacant(E)  BY <1>5 DEF FreeSlots, Vacant
<1>7. \A n : Matches(d, i, n) = Named(E, n)  BY <1>5 DEF Matches, Named, UsedSlots, FreeSlots
<1>8. InDir(r, s, E)  BY <1>1, <1>2, <1>3, <1>4, <1>5, <1>6, <1>7 DEF InDir
<1>9. QED  BY <1>8 DEF E

\* At the end of a path,
LEMMA ResolvedView ==
    ASSUME NEW t \in Threads, StepIInv(t), Trusty(t), NEW ops, NEW goal, Arrives(t, ops, goal) \/ Resolved(t, ops, goal)
    PROVE  /\ Standing(t) /\ Reticent /\ thr[t].call.op \in ops /\ thr[t].goal = goal /\ SaneCall(thr[t].call)
           /\ goal = "target" => AtTarget(thr[t], settled, Found)
           /\ goal = "parent" /\ ops \subseteq Adding \cup Removing \cup Moving => AtParent(thr[t], settled, Found)
<1>1. Standing(t)  BY Informed DEF Resolved, Arrives
<1>2. settled' = settled /\ reply' = reply  BY DEF Resolved, Arrives, ReadBlock
<1>3. /\ Untouched /\ thr[t] \in ThreadType /\ thr[t].call.op \in ops /\ thr[t].goal = goal
      /\ SaneCall(thr[t].call)
  BY ResolvedFacts
<1>4. PICK e, m : Meets(thr[t], e, m, Found)  BY ResolvedFacts
<1>5. settled.disk = disk  BY <1>1 DEF Standing, Current
<1>6. Heads(thr[t], e, m, disk, bitmap, owed) /\ thr[t].rest = <<>> /\ Found = e[thr[t].inum]
  BY <1>4 DEF Meets
<1>7. goal = "target" => AtTarget(thr[t], settled, e[thr[t].inum])  BY <1>3, <1>5, <1>6, TargetView
<1>8. goal = "parent" /\ ops \subseteq Adding \cup Removing \cup Moving => AtParent(thr[t], settled, e[thr[t].inum])
  BY <1>3, <1>5, <1>6, ParentView
<1>9. QED  BY <1>1, <1>2, <1>3, <1>6, <1>7, <1>8 DEF Reticent

\* and in a directory.
LEMMA ListedView ==
    ASSUME NEW t \in Threads, StepIInv(t), Trusty(t), NEW ops, NEW goal, Scans(t, ops, goal) \/ Listed(t, ops, goal)
    PROVE  /\ Standing(t) /\ Reticent /\ thr[t].call.op \in ops /\ thr[t].goal = goal /\ SaneCall(thr[t].call)
           /\ InDir(thr[t], settled, Listing)
           /\ goal = "target" => AtTarget(thr[t], settled, thr[t].ino)
           /\ goal = "parent" /\ ops \subseteq Adding \cup Removing \cup Moving => AtParent(thr[t], settled, thr[t].ino)
<1>1. Standing(t)  BY Informed DEF Listed, Scans
<1>2. settled' = settled /\ reply' = reply  BY DEF Listed, Scans, ReadBlock
<1>3. /\ Untouched /\ thr[t] \in ThreadType /\ thr[t].call.op \in ops /\ thr[t].goal = goal
      /\ SaneCall(thr[t].call)
  BY ListedFacts
<1>4. PICK e, m : Lists(thr[t], e, m, Listing)  BY ListedFacts
<1>5. settled.disk = disk  BY <1>1 DEF Standing, Current
<1>6. /\ Heads(thr[t], e, m, disk, bitmap, owed) /\ thr[t].rest = <<>> /\ Listing = Entries(e, thr[t].inum)
      /\ thr[t].at = "dir"
  BY <1>4 DEF Lists
<1>7. thr[t].ino = e[thr[t].inum]  BY <1>3, <1>6, ListingFacts
<1>8. InDir(thr[t], settled, Listing)  BY <1>3, <1>5, <1>6, ListingView
<1>9. goal = "target" => AtTarget(thr[t], settled, thr[t].ino)  BY <1>3, <1>5, <1>6, <1>7, TargetView
<1>10. goal = "parent" /\ ops \subseteq Adding \cup Removing \cup Moving => AtParent(thr[t], settled, thr[t].ino)
  BY <1>3, <1>5, <1>6, <1>7, ParentView
<1>11. QED  BY <1>1, <1>2, <1>3, <1>8, <1>9, <1>10 DEF Reticent

-----------------------------------------------------------------------------
(* The steps in which a handler decides to look further                    *)

\* What has been found out stays so.
LEMMA AwareAlike ==
    ASSUME NEW r, NEW w, Alike(w, r), NEW s, Aware(r, s)
    PROVE  Aware(w, s)
<1>1. w.call = r.call /\ w.goal = r.goal /\ w.blocks = r.blocks  BY DEF Alike
<1>2. QED  BY <1>1 DEF Aware

\* A directory is looked into,
LEMMA LooksOn ==
    ASSUME NEW t \in Threads, Standing(t), Reticent, Becomes(t, LookIn(With(thr[t])))
    PROVE  Discreet(t)
<1> DEFINE r == thr[t]
           w == With(r)
           x == LookIn(w)
<1>1. Full(r) /\ Aware(r, settled)  BY DEF Standing
<1>2. Alike(w, r)  BY <1>1, FieldsIno DEF With
<1>3. Full(w) /\ w.call = r.call /\ Aware(w, settled)  BY <1>1, <1>2, AwareAlike DEF Alike
<1> HIDE DEF w
<1>4. Alike(x, w) /\ x.at = "dir"  BY <1>3, FieldsLook
<1> HIDE DEF x
<1>5. Full(x) /\ x.call = w.call  BY <1>4 DEF Alike
<1>6. Aware(x, settled)  BY <1>3, <1>4, AwareAlike
<1>7. Becomes(t, x)  BY DEF x, w
<1>8. x.call = thr[t].call /\ x.at \in {"inode", "entries", "dir"}  BY <1>3, <1>4, <1>5
<1>9. QED  BY <1>5, <1>6, <1>7, <1>8, StaysOn

\* and anything else refused.
LEMMA LooksOrNot ==
    ASSUME NEW t \in Threads, Standing(t), Reticent,
           Becomes(t, IF Found.type = "dir" THEN LookIn(With(thr[t])) ELSE Answer(thr[t], ENOTDIR)),
           Found.type # "dir" => Judged(settled, thr[t].call, ENOTDIR)
    PROVE  Discreet(t)
<1>1. CASE Found.type = "dir"
  <2>1. Becomes(t, LookIn(With(thr[t])))  BY <1>1
  <2>2. QED  BY <2>1, LooksOn
<1>2. CASE Found.type # "dir"
  <2>1. Becomes(t, Answer(thr[t], ENOTDIR))  BY <1>2
  <2>2. ENOTDIR < 0  BY DEF ENOTDIR
  <2>3. QED  BY <1>2, <2>1, <2>2, TurnsBack
<1>3. QED  BY <1>1, <1>2

\* fs_readdir, create_directory_entry and fs_rmdir, when they have read the inode,
LEMMA LookDiscreet ==
    ASSUME NEW t \in Threads, StepIInv(t), Trusty(t), Readdir1(t) \/ Create1(t) \/ Rmdir1(t)
    PROVE  Discreet(t)
<1> DEFINE c == thr[t].call
<1>1. CASE Readdir1(t)
  <2>1. Resolved(t, {"readdir"}, "target")  BY <1>1 DEF Readdir1
  <2>2. Standing(t) /\ Reticent /\ c.op = "readdir" /\ AtTarget(thr[t], settled, Found)
    BY <2>1, ResolvedView
  <2>3. Found.type # "dir" => Judged(settled, c, ENOTDIR)
    BY <2>2 DEF AtTarget, Judged, ReaddirVerdict, IsDir, Blocks
  <2>4. QED  BY <1>1, <2>2, <2>3, LooksOrNot DEF Readdir1
<1>2. CASE Create1(t)
  <2>1. Resolved(t, Adding, "parent")  BY <1>2 DEF Create1
  <2>2. Standing(t) /\ Reticent /\ c.op \in Adding /\ AtParent(thr[t], settled, Found)
    BY <2>1, ResolvedView
  <2>3. Found.type # "dir" => Judged(settled, c, ENOTDIR)
    BY <2>2 DEF AtParent, Judged, AddVerdict, IsDir, Adding, Blocks
  <2>4. QED  BY <1>2, <2>2, <2>3, LooksOrNot DEF Create1
<1>3. CASE Rmdir1(t)
  <2>1. Resolved(t, {"rmdir"}, "target")  BY <1>3 DEF Rmdir1
  <2>2. Standing(t) /\ Reticent /\ c.op = "rmdir" /\ AtTarget(thr[t], settled, Found)
    BY <2>1, ResolvedView
  <2>3. Found.type # "dir" => Judged(settled, c, ENOTDIR)
    BY <2>2 DEF AtTarget, Judged, RmdirVerdict, IsDir, Blocks
  <2>4. QED  BY <1>3, <2>2, <2>3, LooksOrNot DEF Rmdir1
<1>4. QED  BY <1>1, <1>2, <1>3

\* unlink_directory_entry, and file_dir of fs_rename: there is a directory.
LEMMA LookAgainDiscreet ==
    ASSUME NEW t \in Threads, StepIInv(t), Trusty(t), Remove1(t) \/ Rename3(t)
    PROVE  Discreet(t)
<1> DEFINE c == thr[t].call
<1>1. CASE Remove1(t)
  <2>1. Resolved(t, Removing, "parent") /\ Becomes(t, LookIn(With(thr[t])))  BY <1>1 DEF Remove1
  <2>2. Standing(t) /\ Reticent  BY <2>1, ResolvedView
  <2>3. QED  BY <2>1, <2>2, LooksOn
<1>2. CASE Rename3(t)
  <2>1. Resolved(t, Moving, "parent")  BY <1>2 DEF Rename3
  <2>2. /\ Standing(t) /\ Reticent /\ c.op \in Moving /\ thr[t].goal = "parent"
        /\ AtParent(thr[t], settled, Found)
    BY <2>1, ResolvedView
  <2>3. InodeAt(settled, c.path) >= 0  BY <2>2 DEF Standing, Aware, Moving
  <2>4. Found.type = "dir"
    BY <2>2, <2>3 DEF AtParent, Step, IsDir, ENOTDIR, Blocks
  <2>5. QED  BY <1>2, <2>2, <2>4, LooksOrNot DEF Rename3
<1>3. QED  BY <1>1, <1>2

-----------------------------------------------------------------------------
(* Those in which it returns                                               *)

\* fs_getattr, when it has read the inode, the calls on files that find none, and fs_rename when
\* it finds its new name.
LEMMA ReturnDiscreet ==
    ASSUME NEW t \in Threads, StepIInv(t), Trusty(t), Getattr1(t) \/ Refused(t) \/ Rename2(t)
    PROVE  Discreet(t)
<1> DEFINE c == thr[t].call
<1>1. CASE Getattr1(t)
  <2>1. Resolved(t, {"getattr"}, "target") /\ Becomes(t, Answer(thr[t], OK))  BY <1>1 DEF Getattr1
  <2>2. Standing(t) /\ Reticent /\ c.op = "getattr" /\ AtTarget(thr[t], settled, Found)
    BY <2>1, ResolvedView
  <2>3. \A y : Unmoved(settled, y) => Outcome(c, OK, settled, y)
    BY <2>2 DEF AtTarget, Outcome, Looks, Blocks
  <2>4. QED  BY <2>1, <2>2, <2>3, TurnsBack
<1>2. CASE Refused(t)
  <2>1. /\ Resolved(t, {"utime", "truncate", "read", "write"}, "target") /\ Found.type # "file"
        /\ Becomes(t, Answer(thr[t], EISDIR))
    BY <1>2 DEF Refused
  <2>2. /\ Standing(t) /\ Reticent /\ c.op \in {"utime", "truncate", "read", "write"}
        /\ AtTarget(thr[t], settled, Found) /\ SaneCall(c) /\ thr[t].at = "inode" /\ thr[t].rest = <<>>
    BY <2>1, ResolvedView DEF Resolved, Arrives
  <2>3. FileAt(settled, c.path) = EISDIR  BY <2>1, <2>2 DEF AtTarget, FileAt, IsFile, Blocks
  <2>4. c.op = "truncate" => c.len \in Nat
    <3>1. PICK e, m : Meets(thr[t], e, m, Found)  BY <2>1, ResolvedFacts
    <3>2. thr[t] \in ThreadType /\ Heads(thr[t], e, m, disk, bitmap, owed)
      BY <2>2, <3>1 DEF Standing, Meets
    <3>3. Learnt(thr[t], e, m)  BY <3>2, HeadsFacts
    <3>4. QED  BY <3>3 DEF Learnt
  <2>5. Judged(settled, c, EISDIR)
    BY <2>2, <2>3, <2>4 DEF Judged, TruncateVerdict, ReadVerdict, WriteVerdict, EISDIR
  <2>6. EISDIR < 0  BY DEF EISDIR
  <2>7. QED  BY <2>1, <2>2, <2>5, <2>6, TurnsBack
<1>3. CASE Rename2(t)
  <2>1. Resolved(t, Moving, "destination") /\ Becomes(t, Answer(thr[t], EEXIST))  BY <1>3 DEF Rename2
  <2>2. Standing(t) /\ Reticent /\ c.op \in Moving /\ thr[t].goal = "destination"
    BY <2>1, ResolvedView
  <2>3. PICK e, m : Meets(thr[t], e, m, Found)  BY <2>1, ResolvedFacts
  <2>4. thr[t] \in ThreadType /\ Heads(thr[t], e, m, disk, bitmap, owed) /\ thr[t].rest = <<>>
    BY <2>2, <2>3 DEF Standing, Meets
  <2>5. Shadow(disk, e, m) /\ Course(thr[t], e, m) /\ thr[t].inum \in Blocks  BY <2>4, HeadsFacts
  <2>6. GoalPath(thr[t]) = Parse(c.dst)  BY <2>2 DEF GoalPath
  <2>7. Translate(e, Parse(c.dst)) = thr[t].inum /\ Parse(c.dst) \in Seq(Names)  BY <2>4, <2>5, <2>6, Arrived
  <2>8. Translate(disk, Parse(c.dst)) = thr[t].inum  BY <2>5, <2>7, ShadowWalk
  <2>9. InodeAt(settled, c.dst) >= 0  BY <2>2, <2>5, <2>8 DEF InodeAt, Standing, Current, Blocks
  <2>10. InodeAt(settled, c.path) >= 0  BY <2>2 DEF Standing, Aware
  <2>11. InodeAt(settled, c.path) \in Int
    <3>1. Parse(c.path) \in Seq(Names)  BY <2>4, HeadsFacts, ParseProperty DEF SaneCall
    <3>2. Translate(disk, Parse(c.path)) = Translate(e, Parse(c.path))  BY <2>5, <3>1, ShadowWalk
    <3>3. Translate(e, Parse(c.path)) \in LiveIn(e, m) \cup {ENOENT, ENOTDIR}  BY <2>5, <3>1, ResolveLive DEF Shadow
    <3>4. LiveIn(e, m) \subseteq Int  BY <2>5, ShadowFacts DEF LiveIn, Blocks
    <3>5. QED  BY <2>2, <3>2, <3>3, <3>4 DEF InodeAt, Standing, Current, ENOENT, ENOTDIR
  <2>12. RenameVerdict(settled, c.path, c.dst) = EEXIST  BY <2>9, <2>10, <2>11 DEF RenameVerdict
  <2>13. Judged(settled, c, EEXIST) /\ EEXIST < 0  BY <2>2, <2>12 DEF Judged, Moving, EEXIST
  <2>14. QED  BY <2>1, <2>2, <2>13, TurnsBack
<1>4. QED  BY <1>1, <1>2, <1>3

-----------------------------------------------------------------------------
(* Those in which it goes for another path                                 *)

\* A thread about to resolve another path.
LEMMA GoesFor ==
    ASSUME NEW t \in Threads, Standing(t), Reticent, NEW r, Full(r), r.call = thr[t].call, NEW goal, NEW path,
           Becomes(t, Walk(r, goal, path)),
           \A w : w.call = r.call /\ w.goal = goal /\ w.blocks = r.blocks => Aware(w, settled)
    PROVE  Discreet(t)
<1> DEFINE w == Walk(r, goal, path)
<1>1. Full(w) /\ w.at = "inode" /\ w.goal = goal /\ w.call = r.call /\ w.blocks = r.blocks  BY FieldsWalk
<1>2. Becomes(t, w)  OBVIOUS
<1> HIDE DEF w
<1>3. Aware(w, settled)  BY <1>1
<1>4. w.at \in {"inode", "entries", "dir"} /\ w.call = thr[t].call  BY <1>1
<1>5. QED  BY <1>1, <1>2, <1>3, <1>4, StaysOn

\* fs_rename, when it has found its source, and fs_unlink its file.
LEMMA OtherPathDiscreet ==
    ASSUME NEW t \in Threads, StepIInv(t), Trusty(t), Rename1(t) \/ Unlink1(t)
    PROVE  Discreet(t)
<1> DEFINE r == thr[t]
           c == r.call
<1>1. CASE Rename1(t)
  <2>1. Resolved(t, Moving, "target") /\ Becomes(t, Walk(thr[t], "destination", Parse(c.dst)))
    BY <1>1 DEF Rename1
  <2>2. Standing(t) /\ Reticent /\ c.op \in Moving /\ AtTarget(r, settled, Found)
    BY <2>1, ResolvedView
  <2>3. InodeAt(settled, c.path) >= 0 /\ c.op = "rename"  BY <2>2 DEF AtTarget, Blocks, Moving
  <2>4. \A w : w.call = c /\ w.goal = "destination" => Aware(w, settled)
    BY <2>2, <2>3 DEF Aware, Adding, Moving
  <2>5. Full(r)  BY <2>2 DEF Standing
  <2>6. QED  BY <2>1, <2>2, <2>4, <2>5, GoesFor
<1>2. CASE Unlink1(t)
  <2> DEFINE B == Allocated(Found, r.inum)
             w == [r EXCEPT !.blocks = B]
  <2>1. Resolved(t, {"unlink"}, "target") /\ Becomes(t, Walk(w, "parent", Front(Parse(c.path))))
    BY <1>2 DEF Unlink1, Allocated
  <2>2. Standing(t) /\ Reticent /\ c.op = "unlink" /\ AtTarget(r, settled, Found)
    BY <2>1, ResolvedView
  <2>3. InodeAt(settled, c.path) >= 0 /\ B = Allocated(settled.disk[InodeAt(settled, c.path)], InodeAt(settled, c.path))
    BY <2>2 DEF AtTarget, Blocks
  <2> HIDE DEF B
  <2>4. Full(w) /\ w.call = c /\ w.blocks = B  BY <2>2, FieldsBlocks DEF Standing
  <2> HIDE DEF w
  <2>5. \A x : x.call = c /\ x.goal = "parent" /\ x.blocks = B => Aware(x, settled)
    BY <2>2, <2>3 DEF Aware, Adding, Removing, Moving
  <2>6. QED  BY <2>1, <2>2, <2>4, <2>5, GoesFor
<1>3. QED  BY <1>1, <1>2

\* fs_rmdir, when it has read the directory.
LEMMA RmdirDiscreet ==
    ASSUME NEW t \in Threads, StepIInv(t), Trusty(t), Rmdir2(t)
    PROVE  Discreet(t)
<1> DEFINE r == thr[t]
           c == r.call
           i == InodeAt(settled, c.path)
           V == Vacant(Listing)
<1>1. Listed(t, {"rmdir"}, "target")  BY DEF Rmdir2
<1>2. /\ Standing(t) /\ Reticent /\ c.op = "rmdir" /\ AtTarget(r, settled, r.ino)
      /\ InDir(r, settled, Listing)
  BY <1>1, ListedView
<1>3. /\ i = r.inum /\ ~(i < 0) /\ IsDir(settled.disk, i) /\ FreeSlots(settled.disk, i) = V
      /\ settled.disk[i] = r.ino
  BY <1>2 DEF AtTarget, InDir, Blocks
<1>4. RmdirVerdict(settled, c.path) = IF V = {} THEN ENOSPC ELSE IF Min(V) # 0 THEN ENOTEMPTY ELSE OK
  BY <1>3 DEF RmdirVerdict
<1> HIDE DEF V
<1>5. CASE V = {}
  <2>1. Becomes(t, Answer(r, ENOSPC))  BY <1>5 DEF Rmdir2, V
  <2>2. ENOSPC < 0 /\ Judged(settled, c, ENOSPC)  BY <1>2, <1>4, <1>5 DEF Judged, ENOSPC
  <2>3. QED  BY <1>2, <2>1, <2>2, TurnsBack
<1>6. CASE V # {} /\ Min(V) # 0
  <2>1. Becomes(t, Answer(r, ENOTEMPTY))  BY <1>6 DEF Rmdir2, V
  <2>2. ENOTEMPTY < 0 /\ Judged(settled, c, ENOTEMPTY)  BY <1>2, <1>4, <1>6 DEF Judged, ENOTEMPTY
  <2>3. QED  BY <1>2, <2>1, <2>2, TurnsBack
<1>7. CASE V # {} /\ Min(V) = 0
  <2> DEFINE B == <<r.inum, r.ino.ptrs[0]>>
             w == [r EXCEPT !.blocks = B]
  <2>1. Becomes(t, Walk(w, "parent", Front(Parse(c.path))))  BY <1>7 DEF Rmdir2, V
  <2>2. RmdirVerdict(settled, c.path) = OK  BY <1>4, <1>7
  <2>3. B = <<i, settled.disk[i].ptrs[0]>>  BY <1>3
  <2> HIDE DEF B
  <2>4. Full(w) /\ w.call = c /\ w.blocks = B  BY <1>2, FieldsBlocks DEF Standing
  <2> HIDE DEF w
  <2>5. \A x : x.call = c /\ x.goal = "parent" /\ x.blocks = B => Aware(x, settled)
    BY <1>2, <2>2, <2>3 DEF Aware, Adding, Removing, Moving
  <2>6. QED  BY <1>2, <2>1, <2>4, <2>5, GoesFor
<1>8. QED  BY <1>5, <1>6, <1>7

-----------------------------------------------------------------------------
(* Paths that are not found                                                *)

\* A path through what is not there leads there neither.
LEMMA StaysLost ==
    ASSUME NEW d, NEW p \in Seq(Names), NEW err \in Int, err < 0, Translate(d, p) = err
    PROVE  \A q \in Seq(Names) : Translate(d, p \o q) = err
<1> DEFINE G == {q \in Seq(Names) : Translate(d, p \o q) = err}
<1>1. <<>> \in G
  <2>1. p \o <<>> = p /\ <<>> \in Seq(Names)  OBVIOUS
  <2>2. QED  BY <2>1
<1>2. ASSUME NEW q \in Seq(Names), NEW n \in Names, q \in G
      PROVE  Append(q, n) \in G
  <2>1. p \o q \in Seq(Names) /\ Append(q, n) \in Seq(Names)  OBVIOUS
  <2>2. p \o Append(q, n) = Append(p \o q, n)  OBVIOUS
  <2>3. Translate(d, p \o q) = err  BY <1>2
  <2>4. Translate(d, Append(p \o q, n)) = Step(d, Translate(d, p \o q), n)  BY <2>1, TranslateAppend
  <2>5. Step(d, err, n) = err  BY DEF Step
  <2>6. Translate(d, p \o Append(q, n)) = err  BY <2>2, <2>3, <2>4, <2>5
  <2>7. QED  BY <2>1, <2>6
<1> HIDE DEF G
<1>3. \A q \in Seq(Names) : q \in G  BY <1>1, <1>2, PathInduction
<1>4. QED  BY <1>3 DEF G

\* A thread that does not find the next component: its path is not there.
LEMMA Misses ==
    ASSUME NEW r \in ThreadType, NEW e, NEW m, NEW d, NEW bm, NEW ow, Heads(r, e, m, d, bm, ow), r.rest # <<>>,
           NEW err \in {ENOENT, ENOTDIR}, Step(e, r.inum, Head(r.rest)) = err
    PROVE  Translate(d, GoalPath(r)) = err
<1>1. Shadow(d, e, m) /\ Course(r, e, m)  BY HeadsFacts
<1>2. PICK c \in Seq(Names) : GoalPath(r) = c \o r.rest /\ Translate(e, c) = r.inum  BY <1>1 DEF Course
<1>3. r.rest \in Seq(Names)  BY DEF ThreadType
<1>4. /\ Head(r.rest) \in Names /\ Tail(r.rest) \in Seq(Names) /\ Append(c, Head(r.rest)) \in Seq(Names)
      /\ c \o r.rest = Append(c, Head(r.rest)) \o Tail(r.rest)
  BY <1>3, ComponentDone
<1>5. Translate(e, Append(c, Head(r.rest))) = err  BY <1>2, <1>4, TranslateAppend
<1>6. err \in Int /\ err < 0  BY DEF ENOENT, ENOTDIR
<1>7. \A q \in Seq(Names) : Translate(e, Append(c, Head(r.rest)) \o q) = err
  <2> DEFINE p == Append(c, Head(r.rest))
  <2>1. p \in Seq(Names) /\ Translate(e, p) = err  BY <1>4, <1>5
  <2> HIDE DEF p
  <2>2. \A q \in Seq(Names) : Translate(e, p \o q) = err  BY <1>6, <2>1, StaysLost
  <2>3. QED  BY <2>2 DEF p
<1>8. Translate(e, GoalPath(r)) = err  BY <1>2, <1>4, <1>7
<1>9. GoalPath(r) \in Seq(Names)  BY <1>2, <1>3
<1>10. QED  BY <1>1, <1>8, <1>9, ShadowWalk

\* The calls there are.
LEMMA RequestOps ==
    ASSUME NEW c \in Requests
    PROVE  c.op \in Adding \cup Removing \cup {"rename", "chmod", "utime", "truncate", "read", "write",
                                               "getattr", "readdir", "statfs"}
  BY DEF Requests, Adding, Removing

\* The status of a call whose path is not there,
LEMMA LostVerdict ==
    ASSUME NEW c \in Requests, c.op # "statfs", c.op \notin Adding, c.op = "truncate" => c.len \in Nat,
           NEW s, NEW err \in Int, err < 0, InodeAt(s, c.path) = err
    PROVE  Judged(s, c, err)
<1>1. c.op \in Removing \cup {"rename", "chmod", "utime", "truncate", "read", "write", "getattr", "readdir"}
  BY RequestOps
<1>2. ~(err >= 0)  OBVIOUS
<1>3. FileAt(s, c.path) = err  BY <1>2 DEF FileAt
<1>4. ReaddirVerdict(s, c.path) = err /\ RmdirVerdict(s, c.path) = err  BY <1>2 DEF ReaddirVerdict, RmdirVerdict
<1>5. c.op = "rename" => RenameVerdict(s, c.path, c.dst) = err  BY DEF RenameVerdict
<1>6. c.op = "truncate" => TruncateVerdict(s, c.path, c.len) = err  BY <1>3 DEF TruncateVerdict
<1>7. c.op = "read" => ReadVerdict(s, c.path, c.offset, c.len) = err  BY <1>3 DEF ReadVerdict
<1>8. c.op = "write" => WriteVerdict(s, c.path, c.offset, c.len) = err  BY <1>3 DEF WriteVerdict
<1>9. QED  BY <1>1, <1>3, <1>4, <1>5, <1>6, <1>7, <1>8 DEF Judged, Removing

\* and of one whose directory is not.
LEMMA LostParent ==
    ASSUME NEW c, NEW s, NEW err \in Int, err < 0, SaneCall(c), c.op \in Adding \cup Removing \cup Moving,
           Translate(s.disk, Front(Parse(c.path))) = err
    PROVE  DirOf(s, c.path) = err /\ InodeAt(s, c.path) = err /\ (c.op \in Adding => Judged(s, c, err))
<1>1. Parse(c.path) \in Seq(Names) /\ Parse(c.path) # <<>>  BY ParseProperty DEF SaneCall
<1>2. DirOf(s, c.path) = err  BY <1>1 DEF DirOf, TranslateParent
<1>3. InodeAt(s, c.path) = err  BY <1>1, TranslateLast DEF InodeAt, Step
<1>4. c.op \in Adding => Judged(s, c, err)  BY <1>2 DEF Judged, AddVerdict, Adding
<1>5. QED  BY <1>2, <1>3, <1>4

-----------------------------------------------------------------------------
(* Resolving a path                                                        *)

\* Every path leads to a number, of an inode or of an error.
LEMMA InodeNumber ==
    ASSUME NEW d, NEW e, NEW m, Shadow(d, e, m), NEW s, s.disk = d, NEW path, Parse(path) \in Seq(Names)
    PROVE  InodeAt(s, path) \in Int
<1>1. Translate(d, Parse(path)) = Translate(e, Parse(path))  BY ShadowWalk
<1>2. Translate(e, Parse(path)) \in LiveIn(e, m) \cup {ENOENT, ENOTDIR}  BY ResolveLive DEF Shadow
<1>3. LiveIn(e, m) \subseteq Int  BY ShadowFacts DEF LiveIn, Blocks
<1>4. QED  BY <1>1, <1>2, <1>3 DEF InodeAt, ENOENT, ENOTDIR

\* A thread that returns an error, with a copy or without.
LEMMA TurnsAway ==
    ASSUME NEW t \in Threads, Standing(t), Reticent, NEW w, Full(w), w.call = thr[t].call,
           NEW ret, ret < 0, Judged(settled, thr[t].call, ret), Becomes(t, Answer(w, ret))
    PROVE  Discreet(t)
<1>1. /\ Full(Answer(w, ret))
      /\ Faithful(Answer(w, ret), disk, bitmap, statVfs, settled)
  BY FaithfulAnswer DEF Standing
<1>2. QED  BY <1>1, MovesOn

\* What a thread knows that does not find its path.
Strayed(t, err) ==
    /\ Standing(t) /\ Reticent /\ SaneCall(thr[t].call)
    /\ thr[t].call.op = "truncate" => thr[t].call.len \in Nat
    /\ err \in Int /\ err < 0 /\ Translate(settled.disk, GoalPath(thr[t])) = err
    /\ InodeAt(settled, thr[t].call.path) \in Int

\* It is that of the call,
LEMMA StrayTarget ==
    ASSUME NEW t \in Threads, NEW err, Strayed(t, err), thr[t].goal = "target",
           NEW w, Alike(w, thr[t]), Becomes(t, Unresolved(w, err))
    PROVE  Discreet(t)
<1> DEFINE c == thr[t].call
<1>1. Standing(t) /\ Reticent /\ err \in Int /\ err < 0 /\ (c.op = "truncate" => c.len \in Nat)
  BY DEF Strayed
<1>2. c \in Requests /\ c.op # "statfs" /\ c.op \notin Adding  BY <1>1 DEF Standing, Aware
<1>3. InodeAt(settled, c.path) = err  BY DEF Strayed, InodeAt, GoalPath
<1>4. Full(w) /\ w.call = c /\ w.goal = "target"  BY DEF Alike
<1>5. Becomes(t, Answer(w, err))  BY <1>4 DEF Unresolved
<1>6. Judged(settled, c, err)  BY <1>1, <1>2, <1>3, LostVerdict
<1>7. QED  BY <1>1, <1>4, <1>5, <1>6, TurnsAway

\* that of its directory,
LEMMA StrayParent ==
    ASSUME NEW t \in Threads, NEW err, Strayed(t, err), thr[t].goal = "parent",
           NEW w, Alike(w, thr[t]), Becomes(t, Unresolved(w, err))
    PROVE  Discreet(t)
<1> DEFINE c == thr[t].call
           i == InodeAt(settled, c.path)
<1>1. Standing(t) /\ Reticent /\ err \in Int /\ err < 0 /\ SaneCall(c)
  BY DEF Strayed
<1>2. Aware(thr[t], settled)  BY <1>1 DEF Standing
<1>3. c.op \in Adding \cup Removing \cup Moving  BY <1>2 DEF Aware
<1>4. Translate(settled.disk, Front(Parse(c.path))) = err  BY DEF Strayed, GoalPath
<1>5. i = err /\ (c.op \in Adding => Judged(settled, c, err))  BY <1>1, <1>3, <1>4, LostParent
<1>6. c.op \in Adding
  <2>1. c.op \notin Moving  BY <1>1, <1>2, <1>5 DEF Aware
  <2>2. c.op # "unlink"  BY <1>1, <1>2, <1>5 DEF Aware
  <2>3. c.op # "rmdir"
    <3>1. SUFFICES ASSUME c.op = "rmdir" PROVE FALSE  OBVIOUS
    <3>2. RmdirVerdict(settled, c.path) = OK  BY <1>2, <3>1 DEF Aware
    <3>3. RmdirVerdict(settled, c.path) = err  BY <1>1, <1>5 DEF RmdirVerdict
    <3>4. QED  BY <1>1, <3>2, <3>3 DEF OK
  <2>4. QED  BY <1>3, <2>1, <2>2, <2>3 DEF Removing
<1>7. Full(w) /\ w.call = c /\ w.goal = "parent"  BY DEF Alike
<1>8. Becomes(t, Answer(w, err))  BY <1>7 DEF Unresolved
<1>9. QED  BY <1>1, <1>5, <1>6, <1>7, <1>8, TurnsAway

\* or the other one of a rename, which then goes on.
LEMMA StrayDestination ==
    ASSUME NEW t \in Threads, NEW err, Strayed(t, err), thr[t].goal = "destination",
           NEW w, Alike(w, thr[t]), Becomes(t, Unresolved(w, err))
    PROVE  Discreet(t)
<1> DEFINE c == thr[t].call
           i == InodeAt(settled, c.path)
           p == Parse(c.path)
           q == Parse(c.dst)
<1>1. Standing(t) /\ Reticent /\ err \in Int /\ err < 0 /\ i \in Int
  BY DEF Strayed
<1>2. Aware(thr[t], settled)  BY <1>1 DEF Standing
<1>3. c.op = "rename" /\ i >= 0  BY <1>2 DEF Aware, Moving
<1>4. InodeAt(settled, c.dst) = err  BY DEF Strayed, InodeAt, GoalPath
<1>5. RenameVerdict(settled, c.path, c.dst) =
        IF Len(p) # Len(q) THEN EINVAL ELSE IF Front(p) # Front(q) THEN EINVAL ELSE OK
  BY <1>1, <1>3, <1>4 DEF RenameVerdict
<1>6. Full(w) /\ w.call = c /\ w.goal = "destination"  BY DEF Alike
<1>7. Becomes(t, AfterDestination(w))  BY <1>3, <1>6 DEF Unresolved
<1>8. EINVAL < 0  BY DEF EINVAL
<1> HIDE DEF p, q
<1>9. CASE Len(p) # Len(q) \/ Front(p) # Front(q)
  <2>1. Becomes(t, Answer(w, EINVAL))  BY <1>6, <1>7, <1>9 DEF AfterDestination, p, q
  <2>2. Judged(settled, c, EINVAL)  BY <1>3, <1>5, <1>9 DEF Judged
  <2>3. QED  BY <1>1, <1>6, <1>8, <2>1, <2>2, TurnsAway
<1>10. CASE Len(p) = Len(q) /\ Front(p) = Front(q)
  <2>1. Becomes(t, Walk(w, "parent", Front(p)))  BY <1>6, <1>7, <1>10 DEF AfterDestination, p, q
  <2>2. RenameVerdict(settled, c.path, c.dst) = OK  BY <1>5, <1>10
  <2>3. \A x : x.call = w.call /\ x.goal = "parent" /\ x.blocks = w.blocks => Aware(x, settled)
    BY <1>3, <1>6, <2>2 DEF Aware, Adding, Removing, Moving
  <2>4. QED  BY <1>1, <1>6, <2>1, <2>3, GoesFor
<1>11. QED  BY <1>9, <1>10

\* A thread that does not find what it resolves.
LEMMA UnresolvedDiscreet ==
    ASSUME NEW t \in Threads, Standing(t), Reticent, NEW e, NEW m, Heads(thr[t], e, m, disk, bitmap, owed),
           thr[t].rest # <<>>, NEW err \in {ENOENT, ENOTDIR}, Step(e, thr[t].inum, Head(thr[t].rest)) = err,
           NEW w, Alike(w, thr[t]), Becomes(t, Unresolved(w, err))
    PROVE  Discreet(t)
<1> DEFINE r == thr[t]
<1>1. r \in ThreadType /\ settled.disk = disk  BY DEF Standing, Current
<1>2. SaneCall(r.call) /\ Learnt(r, e, m) /\ Shadow(disk, e, m)  BY <1>1, HeadsFacts
<1>3. Translate(disk, GoalPath(r)) = err  BY <1>1, Misses
<1>4. Parse(r.call.path) \in Seq(Names)  BY <1>2, ParseProperty DEF SaneCall
<1>5. InodeAt(settled, r.call.path) \in Int  BY <1>1, <1>2, <1>4, InodeNumber
<1>6. err \in Int /\ err < 0  BY DEF ENOENT, ENOTDIR
<1>7. Strayed(t, err)  BY <1>1, <1>2, <1>3, <1>5, <1>6 DEF Strayed, Learnt
<1>8. r.goal \in {"target", "parent", "destination"}  BY <1>1 DEF ThreadType
<1>9. QED  BY <1>7, <1>8, StrayTarget, StrayParent, StrayDestination

\* An inode on the way is read,
LEMMA WalkInodeDiscreet ==
    ASSUME NEW t \in Threads, StepIInv(t), Trusty(t), WalkInode(t)
    PROVE  Discreet(t)
<1> DEFINE r == thr[t]
           w == [r EXCEPT !.ino = Found]
<1>1. /\ r.at = "inode" /\ r.rest # <<>> /\ ReadBlock(t)
      /\ Becomes(t, IF w.ino.type = "dir" THEN [w EXCEPT !.at = "entries"] ELSE Unresolved(w, ENOTDIR))
  BY DEF WalkInode, Found
<1>2. Standing(t)  BY <1>1, Informed
<1>3. PICK e, m : Heads(r, e, m, disk, bitmap, owed) /\ Found = e[r.inum]  BY <1>1, InodeRead
<1>4. Untouched  BY <1>1, InodeRead
<1>5. Reticent  BY <1>1, <1>4 DEF Reticent, ReadBlock
<1>6. Full(r) /\ r.call \in Requests /\ Aware(r, settled)  BY <1>2 DEF Standing
<1>7. Alike(w, r) /\ w.ino = Found  BY <1>6, FieldsIno DEF Full
<1> HIDE DEF w
<1>8. CASE Found.type = "dir"
  <2> DEFINE x == [w EXCEPT !.at = "entries"]
  <2>1. Becomes(t, x)  BY <1>1, <1>7, <1>8
  <2>2. Full(w) /\ Aware(w, settled)  BY <1>6, <1>7, AwareAlike DEF Alike
  <2>3. Alike(x, w) /\ x.at = "entries"  BY <2>2, FieldsInto
  <2> HIDE DEF x
  <2>4. Full(x) /\ x.call = r.call /\ Aware(x, settled)  BY <1>7, <2>2, <2>3, AwareAlike DEF Alike
  <2>5. QED  BY <1>2, <1>5, <2>1, <2>3, <2>4, StaysOn
<1>9. CASE Found.type # "dir"
  <2>1. Becomes(t, Unresolved(w, ENOTDIR))  BY <1>1, <1>7, <1>9
  <2>2. Step(e, r.inum, Head(r.rest)) = ENOTDIR
    <3>1. r \in ThreadType  BY <1>2 DEF Standing
    <3>2. r.inum \in Blocks  BY <1>3, <3>1, HeadsFacts
    <3>3. QED  BY <1>3, <1>9, <3>2 DEF Step, IsDir, Blocks
  <2>3. QED  BY <1>1, <1>2, <1>3, <1>5, <1>7, <2>1, <2>2, UnresolvedDiscreet
<1>10. QED  BY <1>8, <1>9

\* and so are the entries there.
LEMMA WalkEntriesDiscreet ==
    ASSUME NEW t \in Threads, StepIInv(t), Trusty(t), WalkEntries(t)
    PROVE  Discreet(t)
<1> DEFINE r == thr[t]
           n == Head(r.rest)
           hits == Named(Listing, n)
<1>1. /\ r.at = "entries" /\ ReadBlock(t)
      /\ Becomes(t, IF hits = {} THEN Unresolved(r, ENOENT)
                    ELSE [r EXCEPT !.at = "inode", !.inum = Listing[Min(hits)].inode, !.rest = Tail(@)])
  BY DEF WalkEntries, Listing
<1>2. Standing(t)  BY <1>1, Informed
<1>3. PICK e, m : Heads(r, e, m, disk, bitmap, owed) /\ Listing = Entries(e, r.inum)  BY <1>1, ListingRead
<1>4. Untouched  BY <1>1, ListingRead
<1>5. Reticent  BY <1>1, <1>4 DEF Reticent, ReadBlock
<1>6. Full(r) /\ Aware(r, settled) /\ r \in ThreadType  BY <1>2 DEF Standing
<1>7. CASE hits = {}
  <2>1. Becomes(t, Unresolved(r, ENOENT))  BY <1>1, <1>7
  <2>2. /\ r.inum \in DirsIn(e, m) /\ Named(Entries(e, r.inum), n) = Matches(e, r.inum, n)
    BY <1>1, <1>3, <1>6, ListingFacts
  <2>3. Shadow(disk, e, m) /\ Course(r, e, m) /\ r.inum \in Blocks /\ e[r.inum] \in Inode  BY <1>3, <1>6, HeadsFacts
  <2>4. r.rest # <<>>  BY <1>1, <2>3 DEF Course
  <2>5. IsDir(e, r.inum)  BY <2>2, <2>3, ShadowFacts DEF IsDir, IsInode
  <2>6. Step(e, r.inum, n) = ENOENT  BY <1>3, <1>7, <2>2, <2>3, <2>5 DEF Step, Blocks
  <2>7. Alike(r, r)  BY <1>6 DEF Alike
  <2>8. QED  BY <1>2, <1>3, <1>5, <2>1, <2>4, <2>6, <2>7, UnresolvedDiscreet
<1>8. CASE hits # {}
  <2> DEFINE j == Listing[Min(hits)].inode
             w == [r EXCEPT !.at = "inode", !.inum = j, !.rest = Tail(@)]
  <2>1. Becomes(t, w)  BY <1>1, <1>8
  <2> HIDE DEF j
  <2>2. Alike(w, r) /\ w.at = "inode"  BY <1>6, FieldsOn
  <2> HIDE DEF w
  <2>3. Full(w) /\ w.call = r.call /\ Aware(w, settled)  BY <1>6, <2>2, AwareAlike DEF Alike
  <2>4. QED  BY <1>2, <1>5, <2>1, <2>2, <2>3, StaysOn
<1>9. QED  BY <1>7, <1>8

-----------------------------------------------------------------------------
(* Those in which it decides what to write                                 *)

\* A handler that has one block to write.
LEMMA PutDiscreet ==
    ASSUME NEW t \in Threads, Standing(t), Reticent, NEW a \in Jobs, a.do = "put", a.lba \in Blocks \ {SuperBlock},
           Becomes(t, Do(thr[t], <<a>>, OK)),
           \A y : Adjusts(settled, y, Written(settled.disk, a)) => Outcome(thr[t].call, OK, settled, y)
    PROVE  Discreet(t)
<1> DEFINE r == thr[t]
           y == Scene(Written(disk, a), bitmap, statVfs, r.seen, r.buf)
<1>1. Runs(r.call, <<a>>, Scene(disk, bitmap, statVfs, r.seen, r.buf), y)
  BY PutRuns
<1>2. Adjusts(settled, y, Written(settled.disk, a))
  BY DEF Adjusts, Scene, Standing, Current
<1>3. Outcome(r.call, OK, settled, y)
  BY <1>2
<1> HIDE DEF y
<1>4. Full(r)
  BY DEF Standing
<1>5. QED
  BY <1>1, <1>3, <1>4, Resolves

\* The inode at the end of a path is not in the superblock.
LEMMA ResolvedBlock ==
    ASSUME NEW t \in Threads, StepIInv(t), NEW ops, NEW goal, Arrives(t, ops, goal) \/ Resolved(t, ops, goal)
    PROVE  thr[t].inum \in Blocks \ {SuperBlock} /\ Found \in Inode
<1>1. PICK e, m : Meets(thr[t], e, m, Found)
  BY ResolvedFacts
<1>2. thr[t] \in ThreadType /\ Heads(thr[t], e, m, disk, bitmap, owed) /\ Found = e[thr[t].inum]
  BY <1>1, ResolvedFacts DEF Meets
<1>3. Backed(disk, e, m, bitmap, owed) /\ thr[t].inum \in Blocks /\ e[thr[t].inum] \in Inode
  BY <1>2, HeadsFacts
<1>4. e[SuperBlock].kind = "super"
  BY <1>3, BackedFacts
<1>5. e[thr[t].inum].kind = "inode"
  BY <1>3 DEF Inode
<1>6. QED
  BY <1>2, <1>3, <1>4, <1>5

\* fs_chmod and fs_utime.
LEMMA AttributesDiscreet ==
    ASSUME NEW t \in Threads, StepIInv(t), Trusty(t), Chmod1(t) \/ Utime1(t)
    PROVE  Discreet(t)
<1> DEFINE r == thr[t]
           c == r.call
           i == r.inum
<1>1. CASE Chmod1(t)
  <2> DEFINE ino == [Found EXCEPT !.perm = c.perm]
  <2>1. Resolved(t, {"chmod"}, "target") /\ Becomes(t, Do(r, <<Put(i, ino)>>, OK))
    BY <1>1 DEF Chmod1
  <2>2. Standing(t) /\ Reticent /\ c.op = "chmod" /\ AtTarget(r, settled, Found) /\ SaneCall(c)
    BY <2>1, ResolvedView
  <2>3. i \in Blocks \ {SuperBlock} /\ Found \in Inode
    BY <2>1, ResolvedBlock
  <2>4. InodeAt(settled, c.path) = i /\ settled.disk[i] = Found /\ i >= 0
    BY <2>2, <2>3 DEF AtTarget, Blocks
  <2>5. ino \in Inode
    BY <2>2, <2>3 DEF Inode, SaneCall
  <2>6. [settled.disk EXCEPT ![i] = [@ EXCEPT !.perm = c.perm]] = [settled.disk EXCEPT ![i] = ino]
    BY <2>4
  <2> HIDE DEF ino
  <2> DEFINE a == Put(i, ino)
  <2>7. a \in Jobs /\ a.do = "put" /\ Written(settled.disk, a) = [settled.disk EXCEPT ![i] = ino]
    BY <2>3, <2>5, PutJob DEF Content
  <2>8. a.lba = i
    BY DEF Put
  <2> HIDE DEF a
  <2>9. \A y : Adjusts(settled, y, Written(settled.disk, a)) => Outcome(c, OK, settled, y)
    BY <2>2, <2>4, <2>6, <2>7 DEF Outcome, Retouches
  <2>10. Becomes(t, Do(r, <<a>>, OK))
    BY <2>1 DEF a
  <2>11. QED
    BY <2>2, <2>3, <2>7, <2>8, <2>9, <2>10, PutDiscreet
<1>2. CASE Utime1(t)
  <2> DEFINE ino == [Found EXCEPT !.mtime = c.time]
  <2>1. Resolved(t, {"utime"}, "target") /\ Found.type = "file" /\ Becomes(t, Do(r, <<Put(i, ino)>>, OK))
    BY <1>2 DEF Utime1, ResolvedFile
  <2>2. Standing(t) /\ Reticent /\ c.op = "utime" /\ AtTarget(r, settled, Found) /\ SaneCall(c)
    BY <2>1, ResolvedView
  <2>3. i \in Blocks \ {SuperBlock} /\ Found \in Inode
    BY <2>1, ResolvedBlock
  <2>4. InodeAt(settled, c.path) = i /\ settled.disk[i] = Found /\ i >= 0
    BY <2>2, <2>3 DEF AtTarget, Blocks
  <2>5. FileAt(settled, c.path) = i
    BY <2>1, <2>3, <2>4 DEF FileAt, IsFile, IsInode, Inode
  <2>6. ino \in Inode
    BY <2>2, <2>3 DEF Inode, SaneCall
  <2>7. [settled.disk EXCEPT ![i] = [@ EXCEPT !.mtime = c.time]] = [settled.disk EXCEPT ![i] = ino]
    BY <2>4
  <2> HIDE DEF ino
  <2> DEFINE a == Put(i, ino)
  <2>8. a \in Jobs /\ a.do = "put" /\ Written(settled.disk, a) = [settled.disk EXCEPT ![i] = ino]
    BY <2>3, <2>6, PutJob DEF Content
  <2>9. a.lba = i
    BY DEF Put
  <2> HIDE DEF a
  <2>10. \A y : Adjusts(settled, y, Written(settled.disk, a)) => Outcome(c, OK, settled, y)
    BY <2>2, <2>4, <2>5, <2>7, <2>8 DEF Outcome, Retouches
  <2>11. Becomes(t, Do(r, <<a>>, OK))
    BY <2>1 DEF a
  <2>12. QED
    BY <2>2, <2>3, <2>8, <2>9, <2>10, <2>11, PutDiscreet
<1>3. QED
  BY <1>1, <1>2

\* What an entry of a directory becomes.
LEMMA EntryWritten ==
    ASSUME NEW r, NEW s, NEW E, InDir(r, s, E), NEW k, NEW entry
    PROVE  WithEntry(s.disk, r.inum, k, entry) = DirWritten(s.disk, r.ino.ptrs[0], [E EXCEPT ![k] = entry])
  BY DEF InDir, WithEntry, DirWritten

\* The entry of a name in a directory.
LEMMA NamedEntry ==
    ASSUME NEW E \in [Slots -> Entry \cup {NoEntry}], NEW n, Named(E, n) # {}
    PROVE  Min(Named(E, n)) \in Slots /\ E[Min(Named(E, n))] \in Entry
<1>1. Named(E, n) \subseteq Slots
  BY DEF Named
<1> DEFINE k == Min(Named(E, n))
<1>2. k \in Named(E, n)
  BY <1>1, MinProperty, LayoutAssumption DEF Slots
<1>3. k \in Slots /\ E[k] # NoEntry
  BY <1>2 DEF Named
<1>4. QED
  BY <1>3

\* file_dir of fs_rename.
LEMMA RenameDiscreet ==
    ASSUME NEW t \in Threads, StepIInv(t), Trusty(t), Rename4(t)
    PROVE  Discreet(t)
<1> DEFINE r == thr[t]
           c == r.call
           p == r.inum
           b == r.ino.ptrs[0]
           hits == Named(Listing, Leaf(c.path))
           k == Min(hits)
           name == Leaf(c.dst)
           new == [Listing EXCEPT ![k].name = name]
           entry == [name |-> name, inode |-> Listing[k].inode]
<1>1. Listed(t, Moving, "parent")
  BY DEF Rename4
<1>2. /\ Standing(t) /\ Reticent /\ c.op \in Moving /\ r.goal = "parent" /\ InDir(r, settled, Listing)
      /\ AtParent(r, settled, r.ino)
  BY <1>1, ListedView
<1>3. InodeAt(settled, c.path) >= 0 /\ RenameVerdict(settled, c.path, c.dst) = OK /\ c.op = "rename"
  BY <1>2 DEF Standing, Aware, Moving
<1>4. /\ DirOf(settled, c.path) = p /\ p >= 0 /\ IsDir(settled.disk, p) /\ b \in Blocks \ {SuperBlock}
      /\ InodeAt(settled, c.path) = Step(settled.disk, p, Leaf(c.path))
      /\ Matches(settled.disk, p, Leaf(c.path)) = hits /\ Entries(settled.disk, p) = Listing
      /\ Listing \in [Slots -> Entry \cup {NoEntry}]
  BY <1>2 DEF InDir, AtParent, Blocks
<1>5. hits # {}
  <2> HIDE DEF hits
  <2>1. hits = {} => InodeAt(settled, c.path) = ENOENT
    <3>1. ~(p < 0)
      BY <1>2 DEF AtParent, Blocks
    <3>2. QED
      BY <1>4, <3>1 DEF Step
  <2>2. ~(ENOENT >= 0)
    BY DEF ENOENT
  <2>3. QED
    BY <1>3, <2>1, <2>2
<1>6. k \in Slots /\ Listing[k] \in Entry
  BY <1>4, <1>5, NamedEntry
<1>7. name \in Names
  <2>1. r \in ThreadType /\ \E e, m : Lists(r, e, m, Listing)
    BY <1>1, ListedFacts
  <2>2. PICK e, m : Lists(r, e, m, Listing)
    BY <2>1
  <2>3. Learnt(r, e, m)
    BY <2>1, <2>2, HeadsFacts DEF Lists
  <2>4. QED
    BY <1>2, <2>3 DEF Learnt
<1>8. Becomes(t, Do(r, <<PutDir(b, new, {})>>, OK))
  BY <1>5 DEF Rename4
<1>9. DirOf(settled, c.path) = p /\ Min(Matches(settled.disk, p, Leaf(c.path))) = k
      /\ Entries(settled.disk, p)[k].inode = Listing[k].inode
  BY <1>4
<1> HIDE DEF hits, k, name
<1>10. new = [Listing EXCEPT ![k] = entry] /\ new \in [Slots -> Entry \cup {NoEntry}]
  <2>1. [Listing[k] EXCEPT !.name = name] = entry /\ entry \in Entry
    BY <1>6, <1>7 DEF Entry
  <2>2. new = [Listing EXCEPT ![k] = [Listing[k] EXCEPT !.name = name]]
    BY <1>4, <1>6
  <2> HIDE DEF entry
  <2>3. new = [Listing EXCEPT ![k] = entry]
    BY <2>1, <2>2
  <2>4. QED
    BY <1>4, <1>6, <2>1, <2>3
<1>11. RenamedIn(settled, c.path, c.dst) = DirWritten(settled.disk, b, new)
  <2>1. RenamedIn(settled, c.path, c.dst) = WithEntry(settled.disk, p, k, entry)
    BY <1>9 DEF RenamedIn, name, k, hits
  <2>2. WithEntry(settled.disk, p, k, entry) = DirWritten(settled.disk, b, [Listing EXCEPT ![k] = entry])
    BY <1>2, EntryWritten
  <2>3. QED
    BY <1>10, <2>1, <2>2
<1> HIDE DEF new
<1> DEFINE a == PutDir(b, new, {})
<1>12. a \in Jobs /\ a.do = "put" /\ Written(settled.disk, a) = DirWritten(settled.disk, b, new)
  <2> DEFINE D == settled.disk
             none == {}
  <2>1. b \in Blocks /\ none \in SUBSET Blocks /\ new \in [Slots -> Entry \cup {NoEntry}]
    BY <1>4, <1>10
  <2> HIDE DEF b, D, none
  <2>2. QED
    <3>1. /\ PutDir(b, new, none) \in Jobs /\ PutDir(b, new, none).do = "put"
          /\ Written(D, PutDir(b, new, none)) = DirWritten(D, b, new)
      BY ONLY <2>1, PutDirJob
    <3>2. QED
      BY <3>1 DEF D, none
<1>13. a.lba = b
  BY DEF PutDir
<1> HIDE DEF a
<1>14. \A y : Adjusts(settled, y, Written(settled.disk, a)) => Outcome(c, OK, settled, y)
  BY <1>3, <1>11, <1>12 DEF Outcome, Retouches
<1>15. Becomes(t, Do(r, <<a>>, OK))
  BY <1>8 DEF a
<1>16. QED
  BY <1>2, <1>4, <1>12, <1>13, <1>14, <1>15, PutDiscreet

\* A write, then blocks that are freed, then the counters.
LEMMA FreesRun ==
    ASSUME NEW c, NEW a \in Jobs, a.do = "put", a.lba \in Blocks \ {SuperBlock},
           NEW blocks, Range(blocks) \subseteq Blocks, NEW n \in Int, NEW d, NEW m, NEW v, NEW s, NEW b
    PROVE  LET u == m \ Range(blocks) IN
           Runs(c, (<<a>> \o ModifyBitmap(blocks, FALSE)) \o AdjustFree(n), Scene(d, m, v, s, b),
                Scene(Saved(Written(d, a), u), u, CountedBy(v, n), Idle.seen, b))
<1> DEFINE u == m \ Range(blocks)
           e == Written(d, a)
           w == Saved(e, u)
           p == <<a>>
           q == ModifyBitmap(blocks, FALSE)
           r == AdjustFree(n)
           i == Idle.seen
           no == FALSE
<1>1. Runs(c, p, Scene(d, m, v, s, b), Scene(e, m, v, s, b))
  BY PutRuns
<1>2. Flagged(m, blocks, FALSE) = u
  BY DEF Flagged
<1>3. Runs(c, q, Scene(e, m, v, s, b), Scene(w, u, v, i, b))
  <2> HIDE DEF e, i, no
  <2>1. no \in BOOLEAN
    BY DEF no
  <2>2. LET x == Flagged(m, blocks, no) IN
        Runs(c, ModifyBitmap(blocks, no), Scene(e, m, v, s, b), Scene(Saved(e, x), x, v, Idle.seen, b))
    BY <2>1, ModifyRuns
  <2>3. QED
    BY <1>2, <2>2 DEF no, i
<1>4. Runs(c, r, Scene(w, u, v, i, b), Scene(w, u, CountedBy(v, n), i, b))
  <2> HIDE DEF w, u, i
  <2>1. Runs(c, AdjustFree(n), Scene(w, u, v, i, b), Scene(w, u, CountedBy(v, n), Idle.seen, b))
    BY AdjustRuns
  <2>2. QED
    BY <2>1 DEF i
<1> HIDE DEF p, q, r, e, w, u, i
<1>5. Runs(c, p \o q, Scene(d, m, v, s, b), Scene(w, u, v, i, b))
  BY <1>1, <1>3, RunsBoth
<1>6. Runs(c, (p \o q) \o r, Scene(d, m, v, s, b), Scene(w, u, CountedBy(v, n), i, b))
  BY <1>4, <1>5, RunsBoth
<1>7. QED
  BY <1>6 DEF p, q, r, e, w, u, i

\* A handler that has a block to write and others to free.
LEMMA FreesDiscreet ==
    ASSUME NEW t \in Threads, Standing(t), Reticent, NEW a \in Jobs, a.do = "put", a.lba \in Blocks \ {SuperBlock},
           NEW blocks, Range(blocks) \subseteq Blocks, NEW n \in Int,
           Becomes(t, Do(thr[t], (<<a>> \o ModifyBitmap(blocks, FALSE)) \o AdjustFree(n), OK)),
           \A y : AccountsFor(settled, y, Written(settled.disk, a), settled.bitmap \ Range(blocks), n) =>
                  Outcome(thr[t].call, OK, settled, y)
    PROVE  Discreet(t)
<1> DEFINE r == thr[t]
           q == (<<a>> \o ModifyBitmap(blocks, FALSE)) \o AdjustFree(n)
           u == bitmap \ Range(blocks)
           y == Scene(Saved(Written(disk, a), u), u, CountedBy(statVfs, n), Idle.seen, r.buf)
           seen == r.seen
           buf == r.buf
<1>1. Runs(r.call, q, Scene(disk, bitmap, statVfs, r.seen, r.buf), y)
  <2> DEFINE c == r.call
  <2> HIDE DEF c, seen, buf
  <2>1. Runs(c, q, Scene(disk, bitmap, statVfs, seen, buf),
             Scene(Saved(Written(disk, a), u), u, CountedBy(statVfs, n), Idle.seen, buf))
    BY FreesRun
  <2>2. QED
    BY <2>1 DEF c, seen, buf
<1>2. AccountsFor(settled, y, Written(settled.disk, a), settled.bitmap \ Range(blocks), n)
  BY DEF AccountsFor, Scene, Standing, Current
<1>3. Outcome(r.call, OK, settled, y)
  BY <1>2
<1>4. Becomes(t, Do(r, q, OK))
  OBVIOUS
<1> HIDE DEF y, q
<1>5. Full(r)
  BY DEF Standing
<1>6. QED
  BY <1>1, <1>3, <1>4, <1>5, Resolves

\* As many blocks are freed as an object has.
LEMMA AllocatedCount ==
    ASSUME NEW ino \in Inode, NEW i
    PROVE  Len(Allocated(ino, i)) = BlocksFor(ino.size) + 1
<1> DEFINE n == BlocksFor(ino.size)
           a == [k \in 1 .. n |-> ino.ptrs[k - 1]]
<1>1. n \in Nat
  BY BlocksForProperty DEF Inode
<1>2. \E S : a \in Seq(S) /\ i \in S
  <2> DEFINE S == {a[k] : k \in 1 .. n} \cup {i}
  <2>1. a \in [1 .. n -> S] /\ i \in S
    OBVIOUS
  <2>2. a \in Seq(S)
    BY <1>1, <2>1
  <2>3. QED
    BY <2>1, <2>2
<1>3. Len(a) = n
  BY <1>1
<1> HIDE DEF a, n
<1>4. Len(Append(a, i)) = n + 1
  BY <1>2, <1>3
<1>5. QED
  BY <1>4 DEF Allocated, a, n

\* unlink_directory_entry.
LEMMA RemoveDiscreet ==
    ASSUME NEW t \in Threads, StepIInv(t), Trusty(t), Remove2(t)
    PROVE  Discreet(t)
<1> DEFINE r == thr[t]
           c == r.call
           p == r.inum
           b == r.ino.ptrs[0]
           i == InodeAt(settled, c.path)
           hits == Named(Listing, Leaf(c.path))
           k == Min(hits)
           new == [Listing EXCEPT ![k] = NoEntry]
           freed == r.blocks
           n == Len(freed)
<1>1. Listed(t, Removing, "parent")
  BY DEF Remove2
<1>2. /\ Standing(t) /\ Reticent /\ c.op \in Removing /\ r.goal = "parent" /\ InDir(r, settled, Listing)
      /\ AtParent(r, settled, r.ino) /\ SaneCall(c)
  BY <1>1, ListedView
<1>3. r \in ThreadType /\ \E e, m : Lists(r, e, m, Listing)
  BY <1>1, ListedFacts
<1>4. PICK e, m : Lists(r, e, m, Listing)
  BY <1>3
<1>5. Learnt(r, e, m) /\ Shadow(disk, e, m)
  BY <1>3, <1>4, HeadsFacts DEF Lists
<1>6. i \in LiveIn(e, m) /\ i = Translate(e, Parse(c.path)) /\ Range(freed) = Freed(e, i)
  <2>1. Parse(c.path) \in Seq(Names)
    BY <1>2, ParseProperty DEF SaneCall
  <2>2. Translate(disk, Parse(c.path)) = Translate(e, Parse(c.path))
    BY <1>5, <2>1, ShadowWalk
  <2>3. i = Translate(e, Parse(c.path))
    BY <1>2, <2>2 DEF InodeAt, Standing, Current
  <2>4. QED
    BY <1>2, <1>5, <2>3 DEF Learnt
<1>7. settled.disk[i] = e[i] /\ e[i] \in Inode /\ i \in Blocks /\ i >= 0
  <2>1. i \in Blocks /\ disk[i] = e[i] /\ e[i] \in Inode
    BY <1>5, <1>6, ShadowFacts
  <2>2. QED
    BY <1>2, <2>1 DEF Standing, Current, Blocks
<1>8. /\ DirOf(settled, c.path) = p /\ p >= 0 /\ IsDir(settled.disk, p) /\ b \in Blocks \ {SuperBlock}
      /\ i = Step(settled.disk, p, Leaf(c.path))
      /\ Matches(settled.disk, p, Leaf(c.path)) = hits
      /\ Listing \in [Slots -> Entry \cup {NoEntry}]
  BY <1>2 DEF InDir, AtParent, Blocks
<1>9. hits # {}
  <2> HIDE DEF hits
  <2>1. hits = {} => i = ENOENT
    <3>1. ~(p < 0)
      BY <1>2 DEF AtParent, Blocks
    <3>2. QED
      BY <1>8, <3>1 DEF Step
  <2>2. ~(ENOENT >= 0)
    BY DEF ENOENT
  <2>3. QED
    BY <1>7, <2>1, <2>2
<1>10. k \in Slots
  BY <1>8, <1>9, NamedEntry
<1>11. Becomes(t, Do(r, RemoveEffects(r, Listing, k), OK))
  BY <1>9 DEF Remove2
<1>12. UnlinkedIn(settled, c.path) = DirWritten(settled.disk, b, new)
  <2>1. UnlinkedIn(settled, c.path) = WithEntry(settled.disk, p, k, NoEntry)
    BY <1>8 DEF UnlinkedIn
  <2> HIDE DEF k
  <2>2. WithEntry(settled.disk, p, k, NoEntry) = DirWritten(settled.disk, b, [Listing EXCEPT ![k] = NoEntry])
    BY <1>2, EntryWritten
  <2>3. QED
    BY <2>1, <2>2
<1>13. RemoveEffects(r, Listing, k) = (<<PutDir(b, new, {})>> \o ModifyBitmap(freed, FALSE)) \o AdjustFree(n)
  BY DEF RemoveEffects
<1>14. Range(freed) \subseteq Blocks /\ n \in Int
  <2>1. freed \in Seq(Blocks)
    BY <1>3 DEF ThreadType
  <2>2. QED
    BY <2>1 DEF Range
<1>15. \A y : AccountsFor(settled, y, UnlinkedIn(settled, c.path), settled.bitmap \ Range(freed), n) =>
              Removes(c, settled, y)
  <2>1. CASE c.op = "unlink"
    <3>1. freed = Allocated(settled.disk[i], i)
      BY <1>2, <2>1 DEF Standing, Aware
    <3>2. n = BlocksFor(settled.disk[i].size) + 1
      BY <1>7, <3>1, AllocatedCount
    <3>3. Range(freed) = {i} \cup DataBlocks(settled.disk[i])
      BY <1>6, <1>7 DEF Freed
    <3> HIDE DEF i, n, freed
    <3>4. QED
      BY <1>7, <2>1, <3>2, <3>3 DEF Removes, i
  <2>2. CASE c.op = "rmdir"
    <3>1. freed = <<i, settled.disk[i].ptrs[0]>> /\ RmdirVerdict(settled, c.path) = OK
      BY <1>2, <2>2 DEF Standing, Aware
    <3>2. n = 2 /\ Range(freed) = {i, settled.disk[i].ptrs[0]}
      <4> DEFINE x == settled.disk[i].ptrs[0]
      <4> HIDE DEF i, x
      <4>1. Len(<<i, x>>) = 2 /\ Range(<<i, x>>) = {i, x}
        <5>1. DOMAIN <<i, x>> = {1, 2} /\ <<i, x>>[1] = i /\ <<i, x>>[2] = x /\ Len(<<i, x>>) = 2
          OBVIOUS
        <5>2. QED
          BY <5>1 DEF Range
      <4>2. QED
        BY <3>1, <4>1 DEF x
    <3> HIDE DEF i, n, freed
    <3>3. QED
      BY <2>2, <3>1, <3>2 DEF Removes, i
  <2>3. QED
    BY <1>2, <2>1, <2>2 DEF Removing
<1>16. new \in [Slots -> Entry \cup {NoEntry}]
  BY <1>8, <1>10
<1> HIDE DEF new
<1> DEFINE a == PutDir(b, new, {})
<1>17. a \in Jobs /\ a.do = "put" /\ Written(settled.disk, a) = DirWritten(settled.disk, b, new)
  <2> DEFINE D == settled.disk
             none == {}
  <2>1. b \in Blocks /\ none \in SUBSET Blocks
    BY <1>8
  <2> HIDE DEF b, D, none
  <2>2. QED
    <3>1. /\ PutDir(b, new, none) \in Jobs /\ PutDir(b, new, none).do = "put"
          /\ Written(D, PutDir(b, new, none)) = DirWritten(D, b, new)
      BY <1>16, <2>1, PutDirJob
    <3>2. QED
      BY <3>1 DEF D, none
<1>18. a.lba = b
  BY DEF PutDir
<1>19. Becomes(t, Do(r, (<<a>> \o ModifyBitmap(freed, FALSE)) \o AdjustFree(n), OK))
  BY <1>11, <1>13
<1> HIDE DEF a, n, freed
<1>20. \A y : AccountsFor(settled, y, Written(settled.disk, a), settled.bitmap \ Range(freed), n) =>
              Outcome(c, OK, settled, y)
  <2>1. Written(settled.disk, a) = UnlinkedIn(settled, c.path)
    BY <1>12, <1>17
  <2>2. QED
    BY <1>15, <2>1 DEF Outcome
<1>21. QED
  BY <1>2, <1>8, <1>14, <1>17, <1>18, <1>19, <1>20, FreesDiscreet

\* What fs_truncate frees.
LEMMA RemovedBlocks ==
    ASSUME NEW ino \in Inode, NEW len \in Nat, BlocksFor(len) <= BlocksFor(ino.size)
    PROVE  /\ Range(Removed(ino, len)) = {ino.ptrs[k] : k \in BlocksFor(len) .. BlocksFor(ino.size) - 1}
           /\ Len(Removed(ino, len)) = BlocksFor(ino.size) - BlocksFor(len)
<1> DEFINE n == BlocksFor(ino.size)
           left == BlocksFor(len)
           a == Removed(ino, len)
<1>1. n \in Nat /\ left \in Nat /\ left <= n
  BY BlocksForProperty DEF Inode
<1>2. a = [k \in 1 .. n - left |-> ino.ptrs[left + k - 1]]
  BY DEF Removed
<1> HIDE DEF n, left, a
<1>3. n - left \in Nat
  BY <1>1
<1>4. Len(a) = n - left /\ DOMAIN a = 1 .. n - left
  BY <1>2, <1>3
<1>5. ASSUME NEW x \in Range(a) PROVE x \in {ino.ptrs[k] : k \in left .. n - 1}
  <2>1. PICK k \in 1 .. n - left : x = a[k]
    BY <1>4 DEF Range
  <2>2. left + k - 1 \in left .. n - 1 /\ x = ino.ptrs[left + k - 1]
    BY <1>1, <1>2, <2>1
  <2>3. QED
    BY <2>2
<1>6. ASSUME NEW k \in left .. n - 1 PROVE ino.ptrs[k] \in Range(a)
  <2>1. k - left + 1 \in 1 .. n - left /\ left + (k - left + 1) - 1 = k
    BY <1>1
  <2>2. a[k - left + 1] = ino.ptrs[k]
    BY <1>2, <2>1
  <2>3. QED
    BY <1>4, <2>1, <2>2 DEF Range
<1>7. Range(a) = {ino.ptrs[k] : k \in left .. n - 1}
  BY <1>5, <1>6
<1>8. QED
  BY <1>4, <1>7 DEF n, left, a

\* fs_truncate.
LEMMA TruncateDiscreet ==
    ASSUME NEW t \in Threads, StepIInv(t), Trusty(t), Truncate1(t)
    PROVE  Discreet(t)
<1> DEFINE r == thr[t]
           c == r.call
           i == r.inum
           left == BlocksFor(c.len)
           size == BlocksFor(Found.size)
           ino == Shortened(Found, c.len)
           freed == Removed(Found, c.len)
           n == Len(freed)
           a == Put(i, ino)
<1>1. /\ Resolved(t, {"truncate"}, "target") /\ Found.type = "file"
      /\ Becomes(t, IF left > size THEN Answer(r, EINVAL) ELSE Do(r, TruncateEffects(r, Found), OK))
  BY DEF Truncate1, ResolvedFile
<1>2. Standing(t) /\ Reticent /\ c.op = "truncate" /\ AtTarget(r, settled, Found) /\ SaneCall(c)
  BY <1>1, ResolvedView
<1>3. i \in Blocks \ {SuperBlock} /\ Found \in Inode
  BY <1>1, ResolvedBlock
<1>4. InodeAt(settled, c.path) = i /\ settled.disk[i] = Found /\ i >= 0 /\ ~(i < 0)
  BY <1>2, <1>3 DEF AtTarget, Blocks
<1>5. FileAt(settled, c.path) = i
  BY <1>1, <1>3, <1>4 DEF FileAt, IsFile, IsInode, Inode
<1>6. PICK e, m : Meets(r, e, m, Found)
  BY <1>1, ResolvedFacts
<1>7. r \in ThreadType /\ Heads(r, e, m, disk, bitmap, owed) /\ Found = e[i]
  BY <1>1, <1>6, ResolvedFacts DEF Meets
<1>8. Learnt(r, e, m) /\ Sound(e, m) /\ i \in LiveIn(e, m)
  BY <1>7, HeadsFacts
<1>9. c.len \in Nat /\ ~(c.len < 0)
  BY <1>2, <1>8 DEF Learnt
<1>10. left \in Nat /\ size \in Nat
  BY <1>3, <1>9, BlocksForProperty DEF Inode
<1>11. TruncateVerdict(settled, c.path, c.len) = IF left > size THEN EINVAL ELSE OK
  <2> HIDE DEF i
  <2>1. QED
    BY <1>4, <1>5, <1>9 DEF TruncateVerdict
<1> HIDE DEF left, size
<1>12. CASE left > size
  <2>1. EINVAL < 0 /\ Judged(settled, c, EINVAL)
    BY <1>2, <1>11, <1>12 DEF Judged, EINVAL
  <2>2. Becomes(t, Answer(r, EINVAL))
    BY <1>1, <1>12
  <2>3. QED
    BY <1>2, <2>1, <2>2, TurnsBack
<1>13. CASE ~(left > size)
  <2>1. BlocksFor(c.len) <= BlocksFor(Found.size)
    BY <1>10, <1>13 DEF left, size
  <2>2. /\ Range(freed) = {Found.ptrs[k] : k \in left .. size - 1} /\ n = size - left
    BY <1>3, <1>9, <2>1, RemovedBlocks DEF left, size
  <2>3. ino \in Inode /\ Range(freed) \subseteq Blocks
    <3> DEFINE len == c.len
    <3>1. len \in Nat /\ BlocksFor(len) <= BlocksFor(e[i].size) /\ e[i].type = "file"
      BY <1>1, <1>7, <1>9, <2>1
    <3>2. freed = Removed(e[i], len) /\ ino = Shortened(e[i], len)
      BY <1>7
    <3> HIDE DEF len, freed, ino
    <3>3. /\ Fits(e, m, i, ino) /\ DataBlocks(e[i]) \subseteq m /\ Range(freed) \subseteq DataBlocks(e[i])
      BY <1>8, <3>1, <3>2, ShortenedFits
    <3>4. m \subseteq Blocks
      BY <1>8 DEF Sound, Typed
    <3>5. QED
      BY <3>3, <3>4 DEF Fits
  <2>4. TruncateEffects(r, Found) = (<<a>> \o ModifyBitmap(freed, FALSE)) \o AdjustFree(n)
    BY DEF TruncateEffects, Removed
  <2>5. n \in Int
    BY <1>10, <2>2
  <2>6. \A y : AccountsFor(settled, y, [settled.disk EXCEPT ![i] = ino], settled.bitmap \ Range(freed), n) =>
               Truncates(c, settled, y)
    <3>1. TruncateVerdict(settled, c.path, c.len) = OK
      BY <1>11, <1>13
    <3> HIDE DEF i, ino, n, freed
    <3>2. ino = Shortened(settled.disk[i], c.len)
      BY <1>4 DEF ino
    <3>3. /\ Range(freed) = {settled.disk[i].ptrs[k] : k \in BlocksFor(c.len) .. BlocksFor(settled.disk[i].size) - 1}
          /\ n = BlocksFor(settled.disk[i].size) - BlocksFor(c.len)
      BY <1>4, <2>2 DEF left, size
    <3>4. QED
      BY <1>2, <1>5, <3>1, <3>2, <3>3 DEF Truncates
  <2> HIDE DEF ino, n, freed
  <2>7. a \in Jobs /\ a.do = "put" /\ Written(settled.disk, a) = [settled.disk EXCEPT ![i] = ino]
    BY <1>3, <2>3, PutJob DEF Content
  <2>8. a.lba = i
    BY DEF Put
  <2>9. Becomes(t, Do(r, (<<a>> \o ModifyBitmap(freed, FALSE)) \o AdjustFree(n), OK))
    BY <1>1, <1>13, <2>4
  <2> HIDE DEF a
  <2>10. \A y : AccountsFor(settled, y, Written(settled.disk, a), settled.bitmap \ Range(freed), n) =>
                Outcome(c, OK, settled, y)
    BY <2>6, <2>7 DEF Outcome
  <2>11. QED
    BY <1>2, <1>3, <2>3, <2>5, <2>7, <2>8, <2>9, <2>10, FreesDiscreet
<1>14. QED
  BY <1>12, <1>13

\* fs_readdir.
LEMMA ReaddirDiscreet ==
    ASSUME NEW t \in Threads, StepIInv(t), Trusty(t), Readdir2(t)
    PROVE  Discreet(t)
<1> DEFINE r == thr[t]
           c == r.call
           used == Slots \ Vacant(Listing)
           zero == ZeroBuffer(1)
           w == [thr[t] EXCEPT !.buf = zero]
<1>1. Listed(t, {"readdir"}, "target")
  BY DEF Readdir2
<1>2. /\ Standing(t) /\ Reticent /\ c.op = "readdir" /\ InDir(r, settled, Listing)
      /\ AtTarget(r, settled, r.ino)
  BY <1>1, ListedView
<1>3. PICK s \in [1 .. Cardinality(used) -> used] :
          Becomes(t, Do(w, [k \in DOMAIN s |-> Fetch(Listing[s[k]].inode, 1)], OK))
  BY DEF Readdir2
<1>4. Cardinality(used) \in Nat
  <2>1. IsFiniteSet(Slots)
    <3>1. 0 \in Int /\ DirSlots - 1 \in Int
      BY LayoutAssumption
    <3>2. QED
      BY <3>1, FS_Interval DEF Slots
  <2>2. IsFiniteSet(used)
    BY <2>1, FS_Subset
  <2>3. QED
    BY <2>2, FS_CardinalityType
<1>5. \A k \in used : Listing[k].inode \in Blocks
  <2>1. SUFFICES ASSUME NEW k \in used PROVE Listing[k].inode \in Blocks
    OBVIOUS
  <2>2. Listing \in [Slots -> Entry \cup {NoEntry}]
    BY <1>2 DEF InDir
  <2>3. Listing[k] \in Entry
    BY <2>2 DEF Vacant
  <2>4. QED
    BY <2>3 DEF Entry
<1> HIDE DEF used
<1> DEFINE n == Cardinality(used)
           q == [k \in DOMAIN s |-> Fetch(Listing[s[k]].inode, 1)]
<1>6. DOMAIN s = 1 .. n /\ \A k \in 1 .. n : s[k] \in used
  BY <1>3
<1>7. n \in Nat
  BY <1>4
<1> HIDE DEF n
<1>8. \A k \in 1 .. n : Fetch(Listing[s[k]].inode, 1) \in Jobs
  <2>1. \A k \in 1 .. n : Listing[s[k]].inode \in Int
    BY <1>5, <1>6 DEF Blocks
  <2>2. QED
    BY <2>1, JobKinds
<1>9. q \in Seq(Jobs) /\ Len(q) = n /\ \A k \in 1 .. n : q[k] = Fetch(Listing[s[k]].inode, 1)
  BY <1>6, <1>7, <1>8
<1>10. \A k \in 1 .. Len(q) : q[k].do = "fetch" /\ q[k].lba \in Blocks /\ q[k].slot = 1
  BY <1>5, <1>6, <1>9 DEF Fetch
<1>11. Full(w) /\ w.call = c
  <2>1. Full(r) /\ w = [r EXCEPT !.buf = zero]
    BY <1>2 DEF Standing
  <2> HIDE DEF r, w, zero
  <2>2. Full(w) /\ w.call = r.call
    BY <2>1, FieldsBuf
  <2>3. QED
    BY <2>2 DEF r
<1>12. Becomes(t, Do(w, q, OK))
  BY <1>3
<1> HIDE DEF q, w, zero
<1> DEFINE seen == w.seen
           buf == w.buf
<1>13. PICK z : Runs(c, q, Scene(disk, bitmap, statVfs, seen, buf), Scene(disk, bitmap, statVfs, seen, z))
  <2> HIDE DEF c, seen, buf
  <2>1. QED
    BY <1>9, <1>10, RefetchesRun
<1> DEFINE y == Scene(disk, bitmap, statVfs, seen, z)
<1>14. Outcome(c, OK, settled, y)
  <2>1. Unmoved(settled, y)
    BY <1>2 DEF Unmoved, Scene, Standing, Current
  <2>2. ReaddirVerdict(settled, c.path) >= 0
    BY <1>2 DEF ReaddirVerdict, AtTarget, InDir, Blocks
  <2> HIDE DEF y
  <2>3. QED
    BY <1>2, <2>1, <2>2 DEF Outcome, Looks
<1>15. Runs(c, q, Scene(disk, bitmap, statVfs, w.seen, w.buf), y)
  BY <1>13
<1> HIDE DEF y
<1>16. QED
  BY <1>2, <1>11, <1>12, <1>14, <1>15, Resolves
=============================================================================
