------------------------- MODULE HandlerQueueProofs -------------------------
(***************************************************************************)
(* The queues that the split handlers work off: however far one has got,   *)
(* the image has a shadow, and so it has when the queue is given up.       *)
(***************************************************************************)
EXTENDS CrashImages

-----------------------------------------------------------------------------
(* Queues                                                                  *)

Jobs ==
    [do : {"put"}, lba : Blocks, content : Content, links : SUBSET Blocks]
    \cup [do : {"fetch"}, lba : Int, slot : Nat]
    \cup [do : {"store"}, lba : Int, slot : Nat]
    \cup [do : {"load"}]
    \cup [do : {"bits"}, blocks : SUBSET Blocks, flag : BOOLEAN]
    \cup [do : {"save"}, lba : {BitmapBlock}]
    \cup [do : {"count"}, n : Int]

\* A job that leaves the shadow e with the marks m what it is, for a buffer of n blocks.
Harmless(a, e, m, n) ==
    /\ a.do # "put"
    /\ a.do = "bits" /\ ~a.flag => a.blocks \cap m = {}
    /\ a.do = "store" => /\ a.lba \in Blocks /\ a.slot \in 1 .. n
                         /\ a.lba \in m => e[a.lba].kind = "data"

Safe(q, e, m, n) == \A k \in 1 .. Len(q) : Harmless(q[k], e, m, n)

\* Every change of the bitmap follows a load of it.
Opens(q) == \A k \in 1 .. Len(q) : q[k].do = "bits" => k > 1 /\ q[k - 1].do = "load"

\* The same of a queue worked off up to here, with what was loaded.
Loaded(q, seen, bm) ==
    \A k \in 1 .. Len(q) : q[k].do = "bits" => IF k = 1 THEN seen = bm ELSE q[k - 1].do = "load"

\* A queue with one job in front.
LEMMA OneAhead ==
    ASSUME NEW a \in Jobs, NEW q \in Seq(Jobs)
    PROVE  /\ <<a>> \o q \in Seq(Jobs) /\ <<a>> \o q # <<>> /\ Head(<<a>> \o q) = a /\ Tail(<<a>> \o q) = q
           /\ Opens(q) /\ a.do # "bits" => Opens(<<a>> \o q)
<1> DEFINE w == <<a>> \o q
<1>1. /\ w \in Seq(Jobs) /\ Len(w) = Len(q) + 1 /\ Len(q) \in Nat
      /\ \A i \in 1 .. Len(q) + 1 : w[i] = IF i <= 1 THEN a ELSE q[i - 1]
  <2>1. <<a>> \in Seq(Jobs) /\ Len(<<a>>) = 1 /\ <<a>>[1] = a
    OBVIOUS
  <2>2. /\ w \in Seq(Jobs) /\ Len(w) = Len(<<a>>) + Len(q)
        /\ \A i \in 1 .. Len(<<a>>) + Len(q) : w[i] = IF i <= Len(<<a>>) THEN <<a>>[i] ELSE q[i - Len(<<a>>)]
    BY <2>1, ConcatProperties
  <2>3. Len(q) \in Nat
    OBVIOUS
  <2> HIDE DEF w
  <2>4. \A i \in 1 .. Len(q) + 1 : w[i] = IF i <= 1 THEN a ELSE q[i - 1]
    BY <2>1, <2>2, <2>3
  <2> QED
    BY <2>1, <2>2, <2>3, <2>4
<1> HIDE DEF w
<1>2. w # <<>> /\ Head(w) = a
  BY <1>1
<1>3. Tail(w) = q
  <2>1. /\ Tail(w) \in Seq(Jobs) /\ Len(Tail(w)) = Len(w) - 1
        /\ \A i \in 1 .. Len(Tail(w)) : Tail(w)[i] = w[i + 1]
    BY <1>1, <1>2, HeadTailProperties
  <2>2. Len(Tail(w)) = Len(q) /\ \A i \in 1 .. Len(q) : Tail(w)[i] = q[i]
    BY <1>1, <2>1
  <2> QED
    BY <2>1, <2>2, SeqEqual
<1>4. Opens(q) /\ a.do # "bits" => Opens(w)
  <2> SUFFICES ASSUME Opens(q), a.do # "bits", NEW k \in 1 .. Len(w), w[k].do = "bits"
               PROVE  k > 1 /\ w[k - 1].do = "load"
    BY DEF Opens
  <2>1. k > 1 /\ w[k] = q[k - 1] /\ k - 1 \in 1 .. Len(q)
    BY <1>1
  <2>2. k - 1 > 1 /\ q[(k - 1) - 1].do = "load"
    BY <2>1 DEF Opens
  <2>3. w[k - 1] = q[(k - 1) - 1]
    BY <1>1, <2>1, <2>2
  <2> QED
    BY <2>1, <2>2, <2>3
<1> QED
  BY <1>1, <1>2, <1>3, <1>4 DEF w

\* A queue is its first job in front of the others.
LEMMA IsAhead ==
    ASSUME NEW a \in Jobs, NEW y \in Seq(Jobs), NEW v \in Seq(Jobs), Len(v) = Len(y) + 1, v[1] = a,
           \A k \in 1 .. Len(y) : v[k + 1] = y[k]
    PROVE  v = <<a>> \o y
<1>1. v # <<>> /\ Head(v) = a
  BY EmptySeq, LenProperties
<1>2. Tail(v) = y
  <2>1. /\ Tail(v) \in Seq(Jobs) /\ Len(Tail(v)) = Len(v) - 1
        /\ \A i \in 1 .. Len(Tail(v)) : Tail(v)[i] = v[i + 1]
    BY <1>1, HeadTailProperties
  <2>2. Len(Tail(v)) = Len(y) /\ \A i \in 1 .. Len(y) : Tail(v)[i] = y[i]
    BY <2>1, LenProperties
  <2> QED
    BY <2>1, <2>2, SeqEqual
<1> DEFINE w == <<a>> \o y
<1>3. w \in Seq(Jobs) /\ w # <<>> /\ Head(w) = a /\ Tail(w) = y
  BY OneAhead
<1>4. /\ Len(w) \in Nat /\ Len(v) \in Nat /\ Len(Tail(w)) = Len(w) - 1 /\ w[1] = Head(w)
      /\ \A i \in 1 .. Len(Tail(w)) : Tail(w)[i] = w[i + 1]
  BY <1>3, HeadTailProperties, LenProperties
<1> HIDE DEF w
<1>5. Len(w) = Len(v)
  <2>1. Len(y) \in Nat
    OBVIOUS
  <2>2. Len(w) \in Nat /\ Len(y) = Len(w) - 1
    BY <1>3, <1>4
  <2>3. Len(w) = Len(y) + 1
    BY <2>1, <2>2
  <2> QED
    BY <2>3
<1>6. ASSUME NEW i \in 1 .. Len(v) PROVE v[i] = w[i]
  <2>1. CASE i = 1
    BY <1>3, <1>4, <2>1
  <2>2. CASE i # 1
    <3>1. i - 1 \in 1 .. Len(y) /\ (i - 1) + 1 = i
      BY <1>4, <2>2, LenProperties
    <3>2. v[(i - 1) + 1] = y[i - 1] /\ w[(i - 1) + 1] = y[i - 1]
      BY <1>3, <1>4, <3>1
    <3> QED
      BY <3>1, <3>2
  <2> QED
    BY <2>1, <2>2
<1>7. v = w
  BY <1>3, <1>5, <1>6, SeqEqual
<1> QED
  BY <1>7 DEF w

\* Several in front are one in front of the others.
LEMMA TwoAhead ==
    ASSUME NEW a \in Jobs, NEW b \in Jobs, NEW q \in Seq(Jobs)
    PROVE  <<a, b>> \o q = <<a>> \o (<<b>> \o q)
<1>1. <<a>> \in Seq(Jobs) /\ <<b>> \in Seq(Jobs) /\ <<a, b>> \in Seq(Jobs)
  OBVIOUS
<1>2. <<a, b>> = <<a>> \o <<b>>
  <2>1. /\ Len(<<b>>) = 1 /\ <<b>>[1] = b
        /\ Len(<<a, b>>) = 2 /\ <<a, b>>[1] = a /\ <<a, b>>[2] = b
    OBVIOUS
  <2>2. \A k \in 1 .. Len(<<b>>) : <<a, b>>[k + 1] = <<b>>[k]
    <3>1. ASSUME NEW k \in 1 .. 1 PROVE k = 1 /\ k + 1 = 2
      OBVIOUS
    <3> QED
      BY <2>1, <3>1
  <2>3. Len(<<a, b>>) = Len(<<b>>) + 1
    BY <2>1
  <2> QED
    BY <1>1, <2>1, <2>2, <2>3, IsAhead
<1> QED
  BY <1>1, <1>2, ConcatAssociative

\* Three in front are one in front of two.
LEMMA ThreeAhead ==
    ASSUME NEW a \in Jobs, NEW b \in Jobs, NEW c \in Jobs, NEW q \in Seq(Jobs)
    PROVE  <<a, b, c>> \o q = <<a>> \o (<<b>> \o (<<c>> \o q))
<1>1. <<a>> \in Seq(Jobs) /\ <<b, c>> \in Seq(Jobs) /\ <<a, b, c>> \in Seq(Jobs)
  OBVIOUS
<1>2. <<a, b, c>> = <<a>> \o <<b, c>>
  <2> DEFINE y == <<b, c>>
             v == <<a, b, c>>
  <2>1. /\ y \in Seq(Jobs) /\ Len(y) = 2 /\ y[1] = b /\ y[2] = c
        /\ v \in Seq(Jobs) /\ Len(v) = 3 /\ v[1] = a /\ v[2] = b /\ v[3] = c
    OBVIOUS
  <2> HIDE DEF y, v
  <2>2. \A k \in 1 .. Len(y) : v[k + 1] = y[k]
    <3>1. ASSUME NEW k \in 1 .. 2 PROVE (k = 1 /\ k + 1 = 2) \/ (k = 2 /\ k + 1 = 3)
      OBVIOUS
    <3> QED
      BY <2>1, <3>1
  <2>3. Len(v) = Len(y) + 1
    BY <2>1
  <2>4. v = <<a>> \o y
    BY <2>1, <2>2, <2>3, IsAhead
  <2> QED
    BY <2>4 DEF y, v
<1>3. <<a, b, c>> \o q = <<a>> \o (<<b, c>> \o q)
  <2> DEFINE y == <<b, c>>
             x == <<a>>
  <2>1. y \in Seq(Jobs) /\ x \in Seq(Jobs)
    BY <1>1
  <2> HIDE DEF x, y
  <2>2. (x \o y) \o q = x \o (y \o q)
    BY <2>1, ConcatAssociative, SMTT(60)
  <2> QED
    BY <1>2, <2>2 DEF x, y
<1> QED
  BY <1>3, TwoAhead

\* A part of a queue that does no harm, and can be put in front of another one.
Part(q, e, m, n) == q \in Seq(Jobs) /\ Safe(q, e, m, n) /\ Opens(q)

\* Two parts, one after the other.
LEMMA Parts ==
    ASSUME NEW e, NEW m, NEW n, NEW q, NEW r, Part(q, e, m, n), Part(r, e, m, n)
    PROVE  Part(q \o r, e, m, n)
<1> DEFINE w == q \o r
<1>1. q \in Seq(Jobs) /\ r \in Seq(Jobs) /\ Len(q) \in Nat /\ Len(r) \in Nat
  BY DEF Part
<1>2. /\ w \in Seq(Jobs) /\ Len(w) = Len(q) + Len(r)
      /\ \A i \in 1 .. Len(q) + Len(r) : w[i] = IF i <= Len(q) THEN q[i] ELSE r[i - Len(q)]
  BY <1>1, ConcatProperties
<1> HIDE DEF w
<1>3. /\ \A k \in 1 .. Len(q) : w[k] = q[k]
      /\ \A k \in 1 .. Len(r) : w[k + Len(q)] = r[k]
  <2>1. ASSUME NEW k \in 1 .. Len(q) PROVE w[k] = q[k]
    BY <1>1, <1>2
  <2>2. ASSUME NEW k \in 1 .. Len(r) PROVE w[k + Len(q)] = r[k]
    <3>1. k + Len(q) \in 1 .. Len(q) + Len(r) /\ ~(k + Len(q) <= Len(q)) /\ (k + Len(q)) - Len(q) = k
      BY <1>1
    <3> QED
      BY <1>2, <3>1
  <2> QED
    BY <2>1, <2>2
<1>4. ASSUME NEW k \in 1 .. Len(w)
      PROVE  k \in 1 .. Len(q) \/ \E j \in 1 .. Len(r) : k = j + Len(q)
  <2>1. CASE k <= Len(q)
    BY <1>1, <1>2, <2>1
  <2>2. CASE k > Len(q)
    <3>1. k - Len(q) \in 1 .. Len(r) /\ k = (k - Len(q)) + Len(q)
      BY <1>1, <1>2, <2>2
    <3> QED
      BY <3>1
  <2> QED
    BY <1>1, <1>2, <2>1, <2>2
<1>5. Safe(w, e, m, n)
  <2> SUFFICES ASSUME NEW k \in 1 .. Len(w) PROVE Harmless(w[k], e, m, n)
    BY DEF Safe
  <2> QED
    BY <1>3, <1>4 DEF Safe, Part
<1>6. Opens(w)
  <2> SUFFICES ASSUME NEW k \in 1 .. Len(w), w[k].do = "bits"
               PROVE  k > 1 /\ w[k - 1].do = "load"
    BY DEF Opens
  <2>1. CASE k \in 1 .. Len(q)
    <3>1. k > 1 /\ q[k - 1].do = "load"
      BY <1>3, <2>1 DEF Part, Opens
    <3>2. k - 1 \in 1 .. Len(q)
      BY <1>1, <2>1, <3>1
    <3> QED
      BY <1>3, <3>1, <3>2
  <2>2. ASSUME NEW j \in 1 .. Len(r), k = j + Len(q) PROVE k > 1 /\ w[k - 1].do = "load"
    <3>1. j > 1 /\ r[j - 1].do = "load"
      BY <1>3, <2>2 DEF Part, Opens
    <3>2. j - 1 \in 1 .. Len(r) /\ (j - 1) + Len(q) = k - 1 /\ k > 1
      BY <1>1, <2>2, <3>1
    <3>3. w[(j - 1) + Len(q)] = r[j - 1]
      BY <1>3, <3>2
    <3> QED
      BY <3>1, <3>2, <3>3
  <2> QED
    BY <1>4, <2>1, <2>2
<1> QED
  BY <1>2, <1>5, <1>6 DEF Part, w

-----------------------------------------------------------------------------
(* Plans: what a queue does to the shadow                                  *)

\* The image after a put.
Written(d, a) == [d EXCEPT ![a.lba] = a.content]
Saved(d, bm)  == [d EXCEPT ![BitmapBlock] = [kind |-> "bitmap", used |-> bm]]

\* The process is not stopped, and the device does not fail.
Reliable == MaxCrashes = 0 /\ MaxFaults = 0

\* All directories are zeroed.
Whole(d, e, m) == \A b \in m : ~ Blank(d, e, b)

\* So they are between two calls then, and nothing is owed.
Clean(d, e, m, ow) == Reliable => Whole(d, e, m) /\ ow = {}

\* Where a call begins.
Rests(d, bm, ow) == \E e, m : Backed(d, e, m, bm, ow) /\ Clean(d, e, m, ow)

\* The blocks that a queue marks.  One that owes some marks and then saves them, and reads nothing.
Marks(q)   == UNION {q[k].blocks : k \in {k \in 1 .. Len(q) : q[k].do = "bits" /\ q[k].flag}}
EndsSaved(q) == q # <<>> /\ q[Len(q)].do = "save" /\ \A k \in 1 .. Len(q) : q[k].do # "fetch"
Tidies(q, d, e, m, bm, ow) ==
    Reliable => Whole(d, e, m) /\ (ow = {} \/ (ow \subseteq bm \cup Marks(q) /\ EndsSaved(q)))

\* A queue whose jobs leave the shadow alone.
Plan0(q, d, bm, ow, n) ==
    \E e, m : Backed(d, e, m, bm, ow) /\ Safe(q, e, m, n) /\ Tidies(q, d, e, m, bm, ow)

\* A put, one of up to two or three, that leads to an image with a shadow of its own.
Plan1(q, d, bm, ow, n) ==
    /\ Held(d, bm, ow) /\ q # <<>> /\ Head(q).do = "put" /\ Head(q).lba # SuperBlock
    /\ Plan0(Tail(q), Written(d, Head(q)), bm, ow \cup Head(q).links, n)
Plan2(q, d, bm, ow, n) ==
    /\ Held(d, bm, ow) /\ q # <<>> /\ Head(q).do = "put" /\ Head(q).lba # SuperBlock
    /\ Plan1(Tail(q), Written(d, Head(q)), bm, ow \cup Head(q).links, n)
Plan3(q, d, bm, ow, n) ==
    /\ Held(d, bm, ow) /\ q # <<>> /\ Head(q).do = "put" /\ Head(q).lba # SuperBlock
    /\ Plan2(Tail(q), Written(d, Head(q)), bm, ow \cup Head(q).links, n)

\* The blocks that fs_write reserves first.
Saving(q, d, bm, ow, n) ==
    /\ Held(d, bm, ow) /\ q # <<>> /\ Head(q).do = "save"
    /\ Plan1(Tail(q), Saved(d, bm), bm, ow \ bm, n)
Setting(q, d, bm, ow, n) ==
    /\ Held(d, bm, ow) /\ q # <<>> /\ Head(q).do = "bits" /\ Head(q).flag
    /\ Saving(Tail(q), d, bm \cup Head(q).blocks, ow, n)
Loading(q, d, bm, ow, n) ==
    /\ Held(d, bm, ow) /\ q # <<>> /\ Head(q).do = "load"
    /\ Setting(Tail(q), d, bm, ow, n)

Planned(q, d, bm, ow, n) ==
    \/ Plan0(q, d, bm, ow, n) \/ Plan1(q, d, bm, ow, n) \/ Plan2(q, d, bm, ow, n) \/ Plan3(q, d, bm, ow, n)
    \/ Saving(q, d, bm, ow, n) \/ Setting(q, d, bm, ow, n) \/ Loading(q, d, bm, ow, n)

\* However far a plan has got, the image has a shadow.
LEMMA PlannedHeld ==
    ASSUME NEW q, NEW d, NEW bm, NEW ow, NEW n, Planned(q, d, bm, ow, n)
    PROVE  Held(d, bm, ow)
BY DEF Planned, Plan0, Plan1, Plan2, Plan3, Saving, Setting, Loading, Held

\* When the process may stop or the device fail, that is all there is to keep.
LEMMA Unreliable ==
    ASSUME ~ Reliable, NEW d, NEW bm, NEW ow, Held(d, bm, ow)
    PROVE  Rests(d, bm, ow)
BY DEF Held, Rests, Clean

\* At the end of a plan the image is clean.
LEMMA PlannedRests ==
    ASSUME NEW d, NEW bm, NEW ow, NEW n, Planned(<<>>, d, bm, ow, n)
    PROVE  Rests(d, bm, ow)
<1>1. Plan0(<<>>, d, bm, ow, n)
  BY DEF Planned, Plan1, Plan2, Plan3, Saving, Setting, Loading
<1>2. PICK e, m : Backed(d, e, m, bm, ow) /\ Tidies(<<>>, d, e, m, bm, ow)
  BY <1>1 DEF Plan0
<1> QED
  BY <1>2 DEF Rests, Clean, Tidies, EndsSaved

\* It is clean all along when nothing more is owed.
LEMMA CleanTidies ==
    ASSUME NEW d, NEW e, NEW m, NEW ow, Clean(d, e, m, ow)
    PROVE  \A q, bm : Tidies(q, d, e, m, bm, ow)
BY DEF Clean, Tidies

\* A write that leaves no block blank keeps it clean.
LEMMA CleanFills ==
    ASSUME NEW d, NEW e, NEW m, NEW ow, Clean(d, e, m, ow), NEW c, NEW f, NEW u, Fills(d, e, m, c, f, u)
    PROVE  Clean(c, f, u, ow)
BY DEF Clean, Whole, Fills

\* The first job and those after it.
LEMMA QueueTail ==
    ASSUME NEW q \in Seq(Jobs), q # <<>>
    PROVE  /\ Head(q) \in Jobs /\ Head(q) = q[1] /\ Tail(q) \in Seq(Jobs) /\ Len(q) \in Nat \ {0}
           /\ Len(Tail(q)) = Len(q) - 1
           /\ \A k \in 1 .. Len(Tail(q)) : k + 1 \in 1 .. Len(q) /\ Tail(q)[k] = q[k + 1]
<1>1. /\ Head(q) \in Jobs /\ Tail(q) \in Seq(Jobs) /\ Len(Tail(q)) = Len(q) - 1
      /\ \A k \in 1 .. Len(Tail(q)) : Tail(q)[k] = q[k + 1]
  BY HeadTailProperties
<1>2. Len(q) \in Nat \ {0} /\ Head(q) = q[1]
  BY EmptySeq
<1> QED
  BY <1>1, <1>2

\* A safe queue stays safe, and begins with a job that does no harm.
LEMMA SafeTail ==
    ASSUME NEW q \in Seq(Jobs), q # <<>>, NEW e, NEW m, NEW n, Safe(q, e, m, n)
    PROVE  Harmless(Head(q), e, m, n) /\ Safe(Tail(q), e, m, n)
<1>1. 1 \in 1 .. Len(q)
  BY QueueTail
<1>2. Harmless(Head(q), e, m, n)
  BY <1>1, QueueTail DEF Safe
<1>3. ASSUME NEW k \in 1 .. Len(Tail(q)) PROVE Harmless(Tail(q)[k], e, m, n)
  <2>1. k + 1 \in 1 .. Len(q) /\ Tail(q)[k] = q[k + 1]
    BY QueueTail
  <2> QED
    BY <2>1 DEF Safe
<1> QED
  BY <1>2, <1>3 DEF Safe

\* What a queue marks is marked by its first job or by the others.
LEMMA MarksTail ==
    ASSUME NEW q \in Seq(Jobs), q # <<>>
    PROVE  /\ Marks(q) \subseteq Marks(Tail(q)) \cup Head(q).blocks
           /\ ~ (Head(q).do = "bits" /\ Head(q).flag) => Marks(q) \subseteq Marks(Tail(q))
<1>1. ASSUME NEW b \in Marks(q)
      PROVE  (b \in Head(q).blocks /\ Head(q).do = "bits" /\ Head(q).flag) \/ b \in Marks(Tail(q))
  <2>1. PICK k \in 1 .. Len(q) : q[k].do = "bits" /\ q[k].flag /\ b \in q[k].blocks
    BY <1>1 DEF Marks
  <2>2. CASE k = 1
    BY <2>1, <2>2, QueueTail
  <2>3. CASE k # 1
    <3>1. k - 1 \in 1 .. Len(Tail(q)) /\ (k - 1) + 1 = k
      BY <2>3, QueueTail
    <3>2. Tail(q)[k - 1] = q[k]
      BY <3>1, QueueTail
    <3> QED
      BY <2>1, <3>1, <3>2 DEF Marks
  <2> QED
    BY <2>2, <2>3
<1> QED
  BY <1>1

LEMMA EndsSavedTail ==
    ASSUME NEW q \in Seq(Jobs), q # <<>>, EndsSaved(q)
    PROVE  /\ Head(q).do # "fetch"
           /\ Tail(q) = <<>> => Head(q).do = "save" /\ Marks(q) = {}
           /\ Tail(q) # <<>> => EndsSaved(Tail(q))
<1>1. /\ Head(q) = q[1] /\ Tail(q) \in Seq(Jobs) /\ Len(q) \in Nat \ {0} /\ Len(Tail(q)) = Len(q) - 1
      /\ \A k \in 1 .. Len(Tail(q)) : k + 1 \in 1 .. Len(q) /\ Tail(q)[k] = q[k + 1]
  BY QueueTail
<1>2. q[Len(q)].do = "save" /\ \A k \in 1 .. Len(q) : q[k].do # "fetch"
  BY DEF EndsSaved
<1>3. Head(q).do # "fetch"
  BY <1>1, <1>2
<1>4. ASSUME Tail(q) = <<>> PROVE Head(q).do = "save" /\ Marks(q) = {}
  <2>1. Len(q) = 1
    BY <1>1, <1>4, EmptySeq
  <2>2. Head(q).do = "save"
    BY <1>1, <1>2, <2>1
  <2>3. \A k \in 1 .. Len(q) : q[k].do # "bits"
    BY <1>1, <2>1, <2>2
  <2> QED
    BY <2>2, <2>3 DEF Marks
<1>5. ASSUME Tail(q) # <<>> PROVE EndsSaved(Tail(q))
  <2>1. Len(Tail(q)) \in Nat \ {0}
    BY <1>1, <1>5, EmptySeq
  <2>2. Len(Tail(q)) \in 1 .. Len(Tail(q)) /\ Len(Tail(q)) + 1 = Len(q)
    BY <1>1, <2>1
  <2>3. Tail(q)[Len(Tail(q))].do = "save"
    BY <1>1, <1>2, <2>2
  <2>4. \A k \in 1 .. Len(Tail(q)) : Tail(q)[k].do # "fetch"
    BY <1>1, <1>2
  <2> QED
    BY <1>5, <2>3, <2>4 DEF EndsSaved
<1> QED
  BY <1>3, <1>4, <1>5

\* What the first job makes of the bitmap in memory and of what is owed.
KeepsBooks(a, bm, ow, b, o) ==
    \/ a.do = "save" /\ b = bm /\ o = ow \ bm
    \/ a.do \in {"load", "fetch", "count", "store"} /\ b = bm /\ o = ow
    \/ a.do = "bits" /\ a.flag /\ b = bm \cup a.blocks /\ o = ow
    \/ a.do = "bits" /\ ~ a.flag /\ b = (bm \ a.blocks) /\ o = (ow \ a.blocks)

\* The others still keep the image clean.
LEMMA TidiesTail ==
    ASSUME NEW q \in Seq(Jobs), q # <<>>, NEW d, NEW e, NEW m, NEW bm, NEW ow, Tidies(q, d, e, m, bm, ow),
           NEW c, Whole(d, e, m) => Whole(c, e, m), NEW b, NEW o, KeepsBooks(Head(q), bm, ow, b, o)
    PROVE  Tidies(Tail(q), c, e, m, b, o)
<1> SUFFICES ASSUME Reliable
             PROVE  Whole(c, e, m) /\ (o = {} \/ (o \subseteq b \cup Marks(Tail(q)) /\ EndsSaved(Tail(q))))
  BY DEF Tidies
<1>1. Whole(c, e, m)
  BY DEF Tidies
<1>2. CASE ow = {}
  BY <1>1, <1>2 DEF KeepsBooks
<1>3. CASE ow \subseteq bm \cup Marks(q) /\ EndsSaved(q) /\ Tail(q) = <<>>
  <2>1. Head(q).do = "save" /\ ow \subseteq bm
    BY <1>3, EndsSavedTail
  <2> QED
    BY <1>1, <2>1 DEF KeepsBooks
<1>4. CASE ow \subseteq bm \cup Marks(q) /\ EndsSaved(q) /\ Tail(q) # <<>>
  <2>1. EndsSaved(Tail(q))
    BY <1>4, EndsSavedTail
  <2>2. /\ Marks(q) \subseteq Marks(Tail(q)) \cup Head(q).blocks
        /\ ~ (Head(q).do = "bits" /\ Head(q).flag) => Marks(q) \subseteq Marks(Tail(q))
    BY MarksTail
  <2>3. o \subseteq b \cup Marks(Tail(q))
    BY <1>4, <2>2 DEF KeepsBooks
  <2> QED
    BY <1>1, <2>1, <2>3
<1> QED
  BY <1>2, <1>3, <1>4 DEF Tidies

\* A change of the bitmap still follows a load.
LEMMA LoadedTail ==
    ASSUME NEW q \in Seq(Jobs), q # <<>>, NEW seen, NEW bm, Loaded(q, seen, bm), NEW s, NEW b,
           Head(q).do = "load" => s = b
    PROVE  Loaded(Tail(q), s, b)
<1> SUFFICES ASSUME NEW k \in 1 .. Len(Tail(q)), Tail(q)[k].do = "bits"
             PROVE  IF k = 1 THEN s = b ELSE Tail(q)[k - 1].do = "load"
  BY DEF Loaded
<1>1. k + 1 \in 1 .. Len(q) /\ Tail(q)[k] = q[k + 1] /\ k \in Nat \ {0} /\ (k + 1) - 1 = k /\ k + 1 # 1
  BY QueueTail
<1>2. q[k].do = "load"
  BY <1>1 DEF Loaded
<1>3. CASE k = 1
  BY <1>2, <1>3, QueueTail
<1>4. CASE k # 1
  <2>1. k - 1 \in 1 .. Len(Tail(q)) /\ (k - 1) + 1 = k
    BY <1>4, QueueTail
  <2>2. Tail(q)[k - 1] = q[k]
    BY <2>1, QueueTail
  <2> QED
    BY <1>2, <1>4, <2>2
<1> QED
  BY <1>3, <1>4

\* A queue fresh from a handler has nothing loaded.
LEMMA OpensLoaded ==
    ASSUME NEW q \in Seq(Jobs), Opens(q), NEW seen, NEW bm
    PROVE  Loaded(q, seen, bm)
<1> SUFFICES ASSUME NEW k \in 1 .. Len(q), q[k].do = "bits"
             PROVE  IF k = 1 THEN seen = bm ELSE q[k - 1].do = "load"
  BY DEF Loaded
<1> QED
  BY DEF Opens

\* What a job that does no harm leaves of a shadow: the bits of its blocks, as they are.
LEMMA BackedFacts ==
    ASSUME NEW d, NEW e, NEW m, NEW bm, NEW ow, Backed(d, e, m, bm, ow)
    PROVE  /\ Shadow(d, e, m) /\ m \subseteq Blocks /\ d \in [Blocks -> Content]
           /\ m \subseteq bm \cup ow /\ m \subseteq d[BitmapBlock].used \cup ow
           /\ BitmapBlock \in m /\ e[BitmapBlock].kind = "bitmap"
           /\ SuperBlock \in m /\ e[SuperBlock].kind = "super"
           /\ Held(d, bm, ow)
<1>1. Shadow(d, e, m) /\ m \subseteq bm \cup ow /\ m \subseteq d[BitmapBlock].used \cup ow
  BY DEF Backed
<1>2. Sound(e, m) /\ m \subseteq Blocks /\ d \in [Blocks -> Content]
  BY <1>1, ShadowFacts
<1>3. ReservedIn(e, m)
  BY <1>2 DEF Sound
<1> QED
  BY <1>1, <1>2, <1>3 DEF ReservedIn, Held

\* The bitmap is written back.
LEMMA SavedBacked ==
    ASSUME NEW d, NEW e, NEW m, NEW bm \in SUBSET Blocks, NEW ow, Backed(d, e, m, bm, ow)
    PROVE  Backed(Saved(d, bm), e, m, bm, ow \ bm)
<1> DEFINE d1 == Saved(d, bm)
<1>1. Shadow(d1, e, m)
  BY BackedFacts, SaveWrite DEF Saved
<1>2. d1[BitmapBlock].used = bm
  <2>1. BitmapBlock \in Blocks /\ d \in [Blocks -> Content]
    BY BackedFacts
  <2> QED
    BY <2>1 DEF Saved
<1>3. m \subseteq bm \cup ow
  BY BackedFacts
<1> QED
  BY <1>1, <1>2, <1>3 DEF Backed

\* A block that no object is in is written with bytes.
LEMMA IdleBacked ==
    ASSUME NEW d, NEW e, NEW m, NEW bm, NEW ow, Backed(d, e, m, bm, ow), NEW b \in Blocks,
           b \in m => e[b].kind = "data", NEW c \in Content, c.kind # "dir"
    PROVE  Backed([d EXCEPT ![b] = c], e, m, bm, ow)
<1>1. Shadow([d EXCEPT ![b] = c], e, m)
  BY BackedFacts, IdleWrite
<1>2. b # BitmapBlock /\ d \in [Blocks -> Content]
  BY BackedFacts
<1>3. [d EXCEPT ![b] = c][BitmapBlock] = d[BitmapBlock]
  BY <1>2
<1>4. m \subseteq bm \cup ow /\ m \subseteq d[BitmapBlock].used \cup ow
  BY BackedFacts
<1> QED
  BY <1>1, <1>3, <1>4 DEF Backed

\* The write of a block that no directory is in leaves them zeroed.
LEMMA WholeLeft ==
    ASSUME NEW d, NEW e, NEW m, NEW bm, NEW ow, Backed(d, e, m, bm, ow), Whole(d, e, m)
    PROVE  /\ \A w : Whole(Saved(d, w), e, m)
           /\ \A b \in Blocks : \A c : (b \in m => e[b].kind # "dir") => Whole([d EXCEPT ![b] = c], e, m)
<1>1. d \in [Blocks -> Content] /\ BitmapBlock \in Blocks /\ e[BitmapBlock].kind # "dir" /\ m \subseteq Blocks
  BY BackedFacts
<1>2. ASSUME NEW b \in Blocks, NEW c, b \in m => e[b].kind # "dir"
      PROVE  Whole([d EXCEPT ![b] = c], e, m)
  <2>1. \A x \in Blocks : x # b => [d EXCEPT ![b] = c][x] = d[x]
    BY <1>1
  <2> QED
    BY <1>1, <1>2, <2>1 DEF Whole, Blank
<1>3. \A w : Whole(Saved(d, w), e, m)
  BY <1>1, <1>2 DEF Saved
<1> QED
  BY <1>2, <1>3

\* The next step of a plan, by the kind of the job: a put,
LEMMA PutPlanned ==
    ASSUME NEW q \in Seq(Jobs), q # <<>>, NEW d, NEW bm, NEW ow, NEW n, Planned(q, d, bm, ow, n),
           Head(q).do = "put"
    PROVE  Planned(Tail(q), Written(d, Head(q)), bm, ow \cup Head(q).links, n)
<1>1. ~ Plan0(q, d, bm, ow, n)
  BY SafeTail DEF Plan0, Harmless
<1>2. ~ Saving(q, d, bm, ow, n) /\ ~ Setting(q, d, bm, ow, n) /\ ~ Loading(q, d, bm, ow, n)
  BY DEF Saving, Setting, Loading
<1>3. CASE Plan1(q, d, bm, ow, n)
  BY <1>3 DEF Plan1, Planned
<1>4. CASE Plan2(q, d, bm, ow, n)
  BY <1>4 DEF Plan2, Planned
<1>5. CASE Plan3(q, d, bm, ow, n)
  BY <1>5 DEF Plan3, Planned
<1> QED
  BY <1>1, <1>2, <1>3, <1>4, <1>5 DEF Planned

\* the write of the bitmap,
LEMMA SavePlanned ==
    ASSUME NEW q \in Seq(Jobs), q # <<>>, NEW d, NEW bm \in SUBSET Blocks, NEW ow, NEW n,
           Planned(q, d, bm, ow, n), Head(q).do = "save"
    PROVE  Planned(Tail(q), Saved(d, bm), bm, ow \ bm, n)
<1>1. /\ ~ Plan1(q, d, bm, ow, n) /\ ~ Plan2(q, d, bm, ow, n) /\ ~ Plan3(q, d, bm, ow, n)
      /\ ~ Setting(q, d, bm, ow, n) /\ ~ Loading(q, d, bm, ow, n)
  BY DEF Plan1, Plan2, Plan3, Setting, Loading
<1>2. CASE Plan0(q, d, bm, ow, n)
  <2>1. PICK e, m : Backed(d, e, m, bm, ow) /\ Safe(q, e, m, n) /\ Tidies(q, d, e, m, bm, ow)
    BY <1>2 DEF Plan0
  <2>2. Backed(Saved(d, bm), e, m, bm, ow \ bm) /\ Safe(Tail(q), e, m, n)
    BY <2>1, SavedBacked, SafeTail
  <2>3. Whole(d, e, m) => Whole(Saved(d, bm), e, m)
    BY <2>1, WholeLeft
  <2>4. Tidies(Tail(q), Saved(d, bm), e, m, bm, ow \ bm)
    BY <2>1, <2>3, TidiesTail DEF KeepsBooks
  <2> QED
    BY <2>2, <2>4 DEF Plan0, Planned
<1>3. CASE Saving(q, d, bm, ow, n)
  BY <1>3 DEF Saving, Planned
<1> QED
  BY <1>1, <1>2, <1>3 DEF Planned

\* the write of a data block,
LEMMA StorePlanned ==
    ASSUME NEW q \in Seq(Jobs), q # <<>>, NEW d, NEW bm, NEW ow, NEW n,
           Planned(q, d, bm, ow, n), Head(q).do = "store", NEW c \in Content, c.kind # "dir"
    PROVE  /\ Planned(Tail(q), [d EXCEPT ![Head(q).lba] = c], bm, ow, n)
           /\ Head(q).lba \in Blocks /\ Head(q).slot \in 1 .. n
<1>1. Plan0(q, d, bm, ow, n)
  BY DEF Plan1, Plan2, Plan3, Saving, Setting, Loading, Planned
<1>2. PICK e, m : Backed(d, e, m, bm, ow) /\ Safe(q, e, m, n) /\ Tidies(q, d, e, m, bm, ow)
  BY <1>1 DEF Plan0
<1>3. Harmless(Head(q), e, m, n) /\ Safe(Tail(q), e, m, n)
  BY <1>2, SafeTail
<1>4. Head(q).lba \in Blocks /\ Head(q).slot \in 1 .. n /\ (Head(q).lba \in m => e[Head(q).lba].kind = "data")
  BY <1>3 DEF Harmless
<1>5. Backed([d EXCEPT ![Head(q).lba] = c], e, m, bm, ow)
  BY <1>2, <1>4, IdleBacked
<1>6. Whole(d, e, m) => Whole([d EXCEPT ![Head(q).lba] = c], e, m)
  BY <1>2, <1>4, WholeLeft
<1>7. Tidies(Tail(q), [d EXCEPT ![Head(q).lba] = c], e, m, bm, ow)
  BY <1>2, <1>6, TidiesTail DEF KeepsBooks
<1> QED
  BY <1>3, <1>4, <1>5, <1>7 DEF Plan0, Planned

\* a read, of the image or of the globals, or a change of the counters,
LEMMA IdlePlanned ==
    ASSUME NEW q \in Seq(Jobs), q # <<>>, NEW d, NEW bm, NEW ow, NEW n,
           Planned(q, d, bm, ow, n), Head(q).do \in {"load", "fetch", "count"}
    PROVE  Planned(Tail(q), d, bm, ow, n)
<1>1. /\ ~ Plan1(q, d, bm, ow, n) /\ ~ Plan2(q, d, bm, ow, n) /\ ~ Plan3(q, d, bm, ow, n)
      /\ ~ Setting(q, d, bm, ow, n) /\ ~ Saving(q, d, bm, ow, n)
  BY DEF Plan1, Plan2, Plan3, Setting, Saving
<1>2. CASE Plan0(q, d, bm, ow, n)
  <2>1. PICK e, m : Backed(d, e, m, bm, ow) /\ Safe(q, e, m, n) /\ Tidies(q, d, e, m, bm, ow)
    BY <1>2 DEF Plan0
  <2>2. Safe(Tail(q), e, m, n)
    BY <2>1, SafeTail
  <2>3. Tidies(Tail(q), d, e, m, bm, ow)
    BY <2>1, TidiesTail DEF KeepsBooks
  <2> QED
    BY <2>1, <2>2, <2>3 DEF Plan0, Planned
<1>3. CASE Loading(q, d, bm, ow, n)
  BY <1>3 DEF Loading, Planned
<1> QED
  BY <1>1, <1>2, <1>3 DEF Planned

\* nothing being owed where the image is read,
LEMMA FetchRests ==
    ASSUME NEW q \in Seq(Jobs), q # <<>>, NEW d, NEW bm, NEW ow, NEW n,
           Planned(q, d, bm, ow, n), Head(q).do = "fetch"
    PROVE  Rests(d, bm, ow)
<1>1. Plan0(q, d, bm, ow, n)
  BY DEF Plan1, Plan2, Plan3, Saving, Setting, Loading, Planned
<1>2. PICK e, m : Backed(d, e, m, bm, ow) /\ Tidies(q, d, e, m, bm, ow)
  BY <1>1 DEF Plan0
<1>3. ~ EndsSaved(q)
  BY EndsSavedTail
<1> QED
  BY <1>2, <1>3 DEF Rests, Clean, Tidies

\* and nothing being written over block 0,
LEMMA WritesAbove ==
    ASSUME NEW q \in Seq(Jobs), q # <<>>, NEW d, NEW bm, NEW ow, NEW n,
           Planned(q, d, bm, ow, n), Head(q).do \in {"put", "save", "store"}
    PROVE  Head(q).lba \in Blocks \ {SuperBlock}
<1>1. Head(q) \in Jobs
  BY QueueTail
<1>2. CASE Head(q).do = "put"
  <2>1. ~ Plan0(q, d, bm, ow, n)
    BY <1>2, SafeTail DEF Plan0, Harmless
  <2>2. Head(q).lba # SuperBlock
    BY <1>2, <2>1 DEF Plan1, Plan2, Plan3, Saving, Setting, Loading, Planned
  <2>3. Head(q).lba \in Blocks
    BY <1>1, <1>2 DEF Jobs
  <2> QED
    BY <2>2, <2>3
<1>3. CASE Head(q).do = "save"
  <2>1. Head(q).lba = BitmapBlock
    BY <1>1, <1>3 DEF Jobs
  <2> QED
    BY <2>1, LayoutAssumption DEF Blocks, BitmapBlock, SuperBlock
<1>4. CASE Head(q).do = "store"
  <2>1. Plan0(q, d, bm, ow, n)
    BY <1>4 DEF Plan1, Plan2, Plan3, Saving, Setting, Loading, Planned
  <2>2. PICK e, m : Backed(d, e, m, bm, ow) /\ Safe(q, e, m, n)
    BY <2>1 DEF Plan0
  <2>3. Head(q).lba \in Blocks /\ (Head(q).lba \in m => e[Head(q).lba].kind = "data")
    BY <1>4, <2>2, SafeTail DEF Harmless
  <2>4. SuperBlock \in m /\ e[SuperBlock].kind = "super"
    BY <2>2, BackedFacts
  <2> QED
    BY <2>3, <2>4
<1> QED
  BY <1>2, <1>3, <1>4

\* a change of the bitmap in memory.
LEMMA BitsPlanned ==
    ASSUME NEW q \in Seq(Jobs), q # <<>>, NEW d, NEW bm, NEW ow, NEW n,
           Planned(q, d, bm, ow, n), Head(q).do = "bits", Head(q).flag \in BOOLEAN
    PROVE  IF Head(q).flag THEN Planned(Tail(q), d, bm \cup Head(q).blocks, ow, n)
           ELSE Planned(Tail(q), d, bm \ Head(q).blocks, ow \ Head(q).blocks, n)
<1>1. /\ ~ Plan1(q, d, bm, ow, n) /\ ~ Plan2(q, d, bm, ow, n) /\ ~ Plan3(q, d, bm, ow, n)
      /\ ~ Loading(q, d, bm, ow, n) /\ ~ Saving(q, d, bm, ow, n)
  BY DEF Plan1, Plan2, Plan3, Loading, Saving
<1>2. CASE Plan0(q, d, bm, ow, n)
  <2>1. PICK e, m : Backed(d, e, m, bm, ow) /\ Safe(q, e, m, n) /\ Tidies(q, d, e, m, bm, ow)
    BY <1>2 DEF Plan0
  <2>2. Harmless(Head(q), e, m, n) /\ Safe(Tail(q), e, m, n)
    BY <2>1, SafeTail
  <2>3. Shadow(d, e, m) /\ m \subseteq bm \cup ow /\ m \subseteq d[BitmapBlock].used \cup ow
    BY <2>1 DEF Backed
  <2>4. CASE Head(q).flag
    <3>1. Backed(d, e, m, bm \cup Head(q).blocks, ow)
      BY <2>3 DEF Backed
    <3>2. Tidies(Tail(q), d, e, m, bm \cup Head(q).blocks, ow)
      BY <2>1, <2>4, TidiesTail DEF KeepsBooks
    <3> QED
      BY <2>2, <2>4, <3>1, <3>2 DEF Plan0, Planned
  <2>5. CASE ~ Head(q).flag
    <3>1. Head(q).blocks \cap m = {}
      BY <2>2, <2>5 DEF Harmless
    <3>2. Backed(d, e, m, bm \ Head(q).blocks, ow \ Head(q).blocks)
      BY <2>3, <3>1 DEF Backed
    <3>3. Tidies(Tail(q), d, e, m, bm \ Head(q).blocks, ow \ Head(q).blocks)
      BY <2>1, <2>5, TidiesTail DEF KeepsBooks
    <3> QED
      BY <2>2, <2>5, <3>2, <3>3 DEF Plan0, Planned
  <2> QED
    BY <2>4, <2>5
<1>3. CASE Setting(q, d, bm, ow, n)
  BY <1>3 DEF Setting, Planned
<1> QED
  BY <1>1, <1>2, <1>3 DEF Planned

-----------------------------------------------------------------------------
(* The queues of the handlers                                              *)

\* A queue with a plan.
Queued(q, d, bm, ow, n) == q \in Seq(Jobs) /\ Opens(q) /\ Planned(q, d, bm, ow, n)

\* A put in front of a plan.
LEMMA PutAhead ==
    ASSUME NEW a \in Jobs, a.do = "put", a.lba # SuperBlock, NEW q \in Seq(Jobs), Opens(q),
           NEW d, NEW bm, NEW ow, NEW n, Held(d, bm, ow)
    PROVE  /\ <<a>> \o q \in Seq(Jobs) /\ Opens(<<a>> \o q)
           /\ Plan0(q, Written(d, a), bm, ow \cup a.links, n) => Plan1(<<a>> \o q, d, bm, ow, n)
           /\ Plan1(q, Written(d, a), bm, ow \cup a.links, n) => Plan2(<<a>> \o q, d, bm, ow, n)
           /\ Plan2(q, Written(d, a), bm, ow \cup a.links, n) => Plan3(<<a>> \o q, d, bm, ow, n)
<1> DEFINE w == <<a>> \o q
<1>1. w \in Seq(Jobs) /\ w # <<>> /\ Head(w) = a /\ Tail(w) = q /\ Opens(w)
  BY OneAhead
<1> HIDE DEF w
<1>2. Plan0(q, Written(d, a), bm, ow \cup a.links, n) => Plan1(w, d, bm, ow, n)
  BY <1>1 DEF Plan1
<1>3. Plan1(q, Written(d, a), bm, ow \cup a.links, n) => Plan2(w, d, bm, ow, n)
  BY <1>1 DEF Plan2
<1>4. Plan2(q, Written(d, a), bm, ow \cup a.links, n) => Plan3(w, d, bm, ow, n)
  BY <1>1 DEF Plan3
<1> QED
  BY <1>1, <1>2, <1>3, <1>4 DEF w

\* The kinds of jobs.
LEMMA JobKinds ==
    /\ Load \in Jobs /\ Save \in Jobs /\ \A n \in Int : Count(n) \in Jobs
    /\ Load.do = "load" /\ Save.do = "save" /\ \A n \in Int : Count(n).do = "count"
    /\ \A lba \in Int, slot \in Nat :
          /\ Fetch(lba, slot) \in Jobs /\ Fetch(lba, slot).do = "fetch"
          /\ Store(lba, slot) \in Jobs /\ Store(lba, slot).do = "store"
          /\ Store(lba, slot).lba = lba /\ Store(lba, slot).slot = slot
<1>1. BitmapBlock \in Int
  BY DEF BitmapBlock
<1>2. Load \in Jobs /\ Load.do = "load"
  BY DEF Jobs, Load
<1>3. Save \in Jobs /\ Save.do = "save"
  BY <1>1 DEF Jobs, Save
<1>4. \A n \in Int : Count(n) \in Jobs /\ Count(n).do = "count"
  BY DEF Jobs, Count
<1>5. ASSUME NEW lba \in Int, NEW slot \in Nat
      PROVE  /\ Fetch(lba, slot) \in Jobs /\ Fetch(lba, slot).do = "fetch"
             /\ Store(lba, slot) \in Jobs /\ Store(lba, slot).do = "store"
             /\ Store(lba, slot).lba = lba /\ Store(lba, slot).slot = slot
  BY DEF Fetch, Store, Jobs
<1> QED
  BY <1>2, <1>3, <1>4, <1>5

\* A change of the bitmap in memory.
LEMMA BitsJob ==
    ASSUME NEW a, NEW flag \in BOOLEAN, Range(a) \subseteq Blocks
    PROVE  /\ Bits(a, flag) \in Jobs /\ Bits(a, flag).do = "bits"
           /\ Bits(a, flag).flag = flag /\ Bits(a, flag).blocks = Range(a)
<1>1. Bits(a, flag).do = "bits" /\ Bits(a, flag).flag = flag /\ Bits(a, flag).blocks = Range(a)
  BY DEF Bits
<1>2. Range(a) \in SUBSET Blocks
  OBVIOUS
<1>3. Bits(a, flag) \in [do : {"bits"}, blocks : SUBSET Blocks, flag : BOOLEAN]
  BY <1>2, Zenon DEF Bits
<1>4. Bits(a, flag) \in Jobs
  BY <1>3 DEF Jobs
<1> QED
  BY <1>1, <1>4

\* The write of an inode or of an empty directory,
LEMMA PutJob ==
    ASSUME NEW b \in Blocks, NEW c \in Content, NEW d
    PROVE  /\ Put(b, c) \in Jobs /\ Put(b, c).do = "put" /\ Put(b, c).links = {} /\ Put(b, c).lba = b
           /\ Written(d, Put(b, c)) = [d EXCEPT ![b] = c]
<1>1. Put(b, c) \in [do : {"put"}, lba : Blocks, content : Content, links : SUBSET Blocks]
  BY DEF Put
<1>2. Put(b, c).do = "put" /\ Put(b, c).links = {} /\ Put(b, c).lba = b /\ Put(b, c).content = c
  BY DEF Put
<1>3. Put(b, c) \in Jobs
  BY <1>1 DEF Jobs
<1> QED
  BY <1>2, <1>3 DEF Written

\* and that of a directory.
LEMMA PutDirJob ==
    ASSUME NEW b \in Blocks, NEW E \in [Slots -> Entry \cup {NoEntry}], NEW links \in SUBSET Blocks, NEW d
    PROVE  /\ PutDir(b, E, links) \in Jobs /\ PutDir(b, E, links).do = "put"
           /\ PutDir(b, E, links).links = links /\ PutDir(b, E, links).lba = b
           /\ Written(d, PutDir(b, E, links)) = DirWritten(d, b, E)
<1> DEFINE c == [kind |-> "dir", entries |-> E]
           a == PutDir(b, E, links)
<1>1. c \in Content
  BY DEF Content, DirBlock
<1>2. a.do = "put" /\ a.links = links /\ a.lba = b /\ a.content = c
  BY DEF PutDir
<1>3. a \in [do : {"put"}, lba : Blocks, content : Content, links : SUBSET Blocks]
  <2>1. a = [do |-> "put", lba |-> b, links |-> links, content |-> c]
    BY DEF PutDir
  <2> HIDE DEF c
  <2> QED
    BY <1>1, <2>1
<1>4. a \in Jobs
  BY <1>3 DEF Jobs
<1>5. Written(d, a) = DirWritten(d, b, E)
  <2> HIDE DEF a
  <2> QED
    BY <1>2 DEF Written, DirWritten
<1> QED
  BY <1>2, <1>4, <1>5

\* The parts that leave a shadow alone: jobs one by one,
LEMMA PlainPart ==
    ASSUME NEW e, NEW m, NEW n, NEW q \in Seq(Jobs),
           \A k \in 1 .. Len(q) : Harmless(q[k], e, m, n) /\ q[k].do # "bits"
    PROVE  Part(q, e, m, n)
BY DEF Part, Safe, Opens

\* the change of a counter,
LEMMA AdjustPart ==
    ASSUME NEW e, NEW m, NEW n, NEW k \in Int
    PROVE  Part(AdjustFree(k), e, m, n)
<1> DEFINE q == AdjustFree(k)
<1>1. /\ Load \in Jobs /\ Load.do = "load" /\ Count(k) \in Jobs /\ Count(k).do = "count"
  BY JobKinds
<1>2. q \in Seq(Jobs) /\ Len(q) = 2 /\ q[1] = Load /\ q[2] = Count(k)
  BY <1>1 DEF AdjustFree
<1> HIDE DEF q
<1>3. Harmless(Load, e, m, n) /\ Harmless(Count(k), e, m, n)
  BY <1>1 DEF Harmless
<1>4. ASSUME NEW j \in 1 .. Len(q) PROVE Harmless(q[j], e, m, n) /\ q[j].do # "bits"
  <2>1. j = 1 \/ j = 2
    BY <1>2
  <2> QED
    BY <1>1, <1>2, <1>3, <2>1
<1>5. Part(q, e, m, n)
  BY <1>2, <1>4, PlainPart
<1> QED
  BY <1>5 DEF q

\* and a change of the bitmap that clears no bit of the shadow.
LEMMA BitmapPart ==
    ASSUME NEW e, NEW m, NEW n, NEW a, Range(a) \subseteq Blocks, NEW flag \in BOOLEAN,
           flag \/ Range(a) \cap m = {}
    PROVE  Part(ModifyBitmap(a, flag), e, m, n)
<1> DEFINE q == ModifyBitmap(a, flag)
           b == Bits(a, flag)
<1>1. /\ Load \in Jobs /\ Load.do = "load" /\ Save \in Jobs /\ Save.do = "save"
      /\ b \in Jobs /\ b.do = "bits" /\ b.flag = flag /\ b.blocks = Range(a)
  BY JobKinds, BitsJob
<1>2. q \in Seq(Jobs) /\ Len(q) = 3 /\ q[1] = Load /\ q[2] = b /\ q[3] = Save
  <2> HIDE DEF b
  <2>1. q = <<Load, b, Save>>
    BY DEF ModifyBitmap, b
  <2> QED
    BY <1>1, <2>1
<1> HIDE DEF q, b
<1>3. Harmless(Load, e, m, n) /\ Harmless(Save, e, m, n) /\ Harmless(b, e, m, n)
  BY <1>1 DEF Harmless
<1>4. ASSUME NEW j \in 1 .. Len(q) PROVE Harmless(q[j], e, m, n) /\ (q[j].do = "bits" => j > 1 /\ q[j - 1].do = "load")
  <2>1. j = 1 \/ (j = 2 /\ j - 1 = 1) \/ j = 3
    BY <1>2
  <2> QED
    BY <1>1, <1>2, <1>3, <2>1
<1>5. Part(q, e, m, n)
  BY <1>2, <1>4 DEF Part, Safe, Opens
<1> QED
  BY <1>5 DEF q

\* A part is a plan for an image that has the shadow.
LEMMA PartPlan ==
    ASSUME NEW e, NEW m, NEW n, NEW q, Part(q, e, m, n), NEW d, NEW bm, NEW ow, Backed(d, e, m, bm, ow),
           Tidies(q, d, e, m, bm, ow)
    PROVE  q \in Seq(Jobs) /\ Opens(q) /\ Plan0(q, d, bm, ow, n)
BY DEF Part, Plan0

\* Nothing is left to do.
LEMMA NothingQueued ==
    ASSUME NEW d, NEW bm, NEW ow, NEW n, Rests(d, bm, ow)
    PROVE  Queued(<<>>, d, bm, ow, n)
<1>1. PICK e, m : Backed(d, e, m, bm, ow) /\ Clean(d, e, m, ow)
  BY DEF Rests
<1>2. Part(<<>>, e, m, n)
  BY DEF Part, Safe, Opens
<1>3. Tidies(<<>>, d, e, m, bm, ow)
  BY <1>1, CleanTidies
<1> QED
  BY <1>1, <1>2, <1>3, PartPlan DEF Queued, Planned

\* What fs_chmod and fs_utime have to do.
LEMMA AttributesQueued ==
    ASSUME NEW d, NEW e, NEW m, NEW bm, NEW ow, NEW n, Backed(d, e, m, bm, ow), Clean(d, e, m, ow),
           NEW i \in LiveIn(e, m), NEW ino \in Inode,
           ino.type = e[i].type, ino.size = e[i].size, ino.ptrs = e[i].ptrs
    PROVE  Queued(<<Put(i, ino)>>, d, bm, ow, n)
<1> DEFINE a == Put(i, ino)
           f == [e EXCEPT ![i] = ino]
           d1 == [d EXCEPT ![i] = ino]
<1>1. Shadow(d, e, m) /\ m \subseteq bm \cup ow /\ m \subseteq d[BitmapBlock].used \cup ow /\ Held(d, bm, ow)
      /\ i \in Blocks /\ ino \in Content /\ i # BitmapBlock /\ i # SuperBlock /\ d \in [Blocks -> Content]
  BY BackedFacts, ShadowFacts DEF Content
<1>2. /\ a \in Jobs /\ a.do = "put" /\ a.lba # SuperBlock /\ a.links = {} /\ Written(d, a) = d1
  <2>1. i \in Blocks /\ ino \in Content /\ i # SuperBlock
    BY <1>1
  <2>2. a \in Jobs /\ a.do = "put" /\ a.lba = i /\ a.links = {} /\ Written(d, a) = d1
    BY <2>1, PutJob, Zenon
  <2> QED
    BY <2>1, <2>2, Zenon
<1>3. Shadow(d1, f, m) /\ Fills(d, e, m, d1, f, m)
  BY <1>1, AttributesWrite
<1>4. d1[BitmapBlock] = d[BitmapBlock]
  BY <1>1
<1>5. Backed(d1, f, m, bm, ow \cup a.links)
  BY <1>1, <1>2, <1>3, <1>4 DEF Backed
<1>6. Part(<<>>, f, m, n)
  BY DEF Part, Safe, Opens
<1>7. Plan0(<<>>, d1, bm, ow \cup a.links, n) /\ <<>> \in Seq(Jobs) /\ Opens(<<>>)
  <2> HIDE DEF a, d1, f
  <2>1. ow \cup a.links = ow
    BY <1>2
  <2>2. Clean(d1, f, m, ow)
    BY <1>3, CleanFills
  <2>3. Tidies(<<>>, d1, f, m, bm, ow \cup a.links)
    BY <2>1, <2>2, CleanTidies
  <2> QED
    BY <1>5, <1>6, <2>3, PartPlan
<1>8. <<a>> \o <<>> = <<a>>
  <2> HIDE DEF a
  <2>1. <<a>> \in Seq(Jobs)
    BY <1>2
  <2> QED
    BY <2>1, ConcatEmptySeq
<1> HIDE DEF a, d1, f
<1>9. <<a>> \in Seq(Jobs) /\ Opens(<<a>>) /\ Plan1(<<a>>, d, bm, ow, n)
  <2>1. Held(d, bm, ow)
    BY <1>1
  <2>2. Plan0(<<>>, Written(d, a), bm, ow \cup a.links, n)
    BY <1>2, <1>7
  <2>3. /\ <<a>> \o <<>> \in Seq(Jobs) /\ Opens(<<a>> \o <<>>)
        /\ Plan1(<<a>> \o <<>>, d, bm, ow, n)
    BY <1>2, <1>7, <2>1, <2>2, PutAhead
  <2> QED
    BY <1>8, <2>3
<1>10. Queued(<<a>>, d, bm, ow, n)
  BY <1>9 DEF Queued, Planned
<1> QED
  BY <1>10 DEF a

\* A single put, and then nothing that disturbs the shadow it leads to.
LEMMA OnePut ==
    ASSUME NEW a \in Jobs, a.do = "put", a.lba # SuperBlock, NEW d, NEW bm, NEW ow, NEW n, Held(d, bm, ow),
           NEW f, NEW u, Backed(Written(d, a), f, u, bm, ow \cup a.links), NEW q, Part(q, f, u, n),
           Tidies(q, Written(d, a), f, u, bm, ow \cup a.links)
    PROVE  Queued(<<a>> \o q, d, bm, ow, n) /\ Plan1(<<a>> \o q, d, bm, ow, n)
<1>1. q \in Seq(Jobs) /\ Opens(q) /\ Plan0(q, Written(d, a), bm, ow \cup a.links, n)
  BY PartPlan
<1>2. <<a>> \o q \in Seq(Jobs) /\ Opens(<<a>> \o q) /\ Plan1(<<a>> \o q, d, bm, ow, n)
  BY <1>1, PutAhead
<1> QED
  BY <1>2 DEF Queued, Planned

\* The same when nothing follows.
LEMMA OnlyPut ==
    ASSUME NEW a \in Jobs, a.do = "put", a.lba # SuperBlock, NEW d, NEW bm, NEW ow, NEW n, Held(d, bm, ow),
           NEW f, NEW u, Backed(Written(d, a), f, u, bm, ow \cup a.links),
           Clean(Written(d, a), f, u, ow \cup a.links)
    PROVE  Queued(<<a>>, d, bm, ow, n)
<1>1. Part(<<>>, f, u, n)
  BY DEF Part, Safe, Opens
<1>2. <<a>> \o <<>> = <<a>>
  <2>1. <<a>> \in Seq(Jobs)
    OBVIOUS
  <2> QED
    BY <2>1, ConcatEmptySeq
<1>3. Tidies(<<>>, Written(d, a), f, u, bm, ow \cup a.links)
  BY CleanTidies
<1>4. Queued(<<a>> \o <<>>, d, bm, ow, n)
  BY <1>1, <1>3, OnePut
<1> QED
  BY <1>2, <1>4

\* Any block but the bitmap's may be written without disturbing what the disk has marked.
LEMMA BackedWrite ==
    ASSUME NEW d \in [Blocks -> Content], NEW b, b # BitmapBlock, NEW c, NEW f, NEW u, NEW bm, NEW ow,
           Shadow([d EXCEPT ![b] = c], f, u), u \subseteq bm \cup ow, u \subseteq d[BitmapBlock].used \cup ow
    PROVE  Backed([d EXCEPT ![b] = c], f, u, bm, ow)
<1>1. [d EXCEPT ![b] = c][BitmapBlock] = d[BitmapBlock]
  <2>1. BitmapBlock \in Blocks
    BY LayoutAssumption DEF Blocks, BitmapBlock
  <2> QED
    BY <2>1
<1> QED
  BY <1>1 DEF Backed

\* The same of a directory.
LEMMA BackedDir ==
    ASSUME NEW d \in [Blocks -> Content], NEW b, b # BitmapBlock, NEW E, NEW f, NEW u, NEW bm, NEW ow,
           Shadow(DirWritten(d, b, E), f, u), u \subseteq bm \cup ow, u \subseteq d[BitmapBlock].used \cup ow
    PROVE  Backed(DirWritten(d, b, E), f, u, bm, ow) /\ DirWritten(d, b, E)[BitmapBlock] = d[BitmapBlock]
<1>1. BitmapBlock \in Blocks
  BY LayoutAssumption DEF Blocks, BitmapBlock
<1>2. DirWritten(d, b, E)[BitmapBlock] = d[BitmapBlock]
  BY <1>1 DEF DirWritten
<1> QED
  BY <1>2 DEF Backed

\* What fs_rename has to do.
LEMMA RenameQueued ==
    ASSUME NEW d, NEW e, NEW m, NEW bm, NEW ow, NEW n, Backed(d, e, m, bm, ow), Clean(d, e, m, ow),
           NEW p \in DirsIn(e, m), NEW s \in Slot(e, p), NEW name \in Names
    PROVE  Queued(<<PutDir(e[p].ptrs[0], [Entries(e, p) EXCEPT ![s].name = name], {})>>, d, bm, ow, n)
<1> DEFINE b == e[p].ptrs[0]
           E == [Entries(e, p) EXCEPT ![s].name = name]
           a == PutDir(b, E, {})
<1>1. /\ Shadow(d, e, m) /\ m \subseteq bm \cup ow /\ m \subseteq d[BitmapBlock].used \cup ow
      /\ Held(d, bm, ow) /\ d \in [Blocks -> Content]
  BY BackedFacts
<1>2. b \in Blocks /\ b # BitmapBlock /\ b # SuperBlock /\ Entries(e, p) \in [Slots -> Entry \cup {NoEntry}]
  BY <1>1, ShadowFacts
<1>3. PICK f : Shadow(DirWritten(d, b, E), f, m) /\ Fills(d, e, m, DirWritten(d, b, E), f, m)
  BY <1>1, RenameWrite
<1>4. E \in [Slots -> Entry \cup {NoEntry}]
  <2>1. s \in Slots /\ Entries(e, p)[s] # NoEntry
    BY DEF Slot
  <2>2. Entries(e, p)[s] \in Entry
    BY <1>2, <2>1
  <2>3. [Entries(e, p)[s] EXCEPT !.name = name] \in Entry
    BY <2>2 DEF Entry
  <2>4. E = [Entries(e, p) EXCEPT ![s] = [Entries(e, p)[s] EXCEPT !.name = name]]
    BY <1>2
  <2> QED
    BY <1>2, <2>3, <2>4
<1> HIDE DEF E, b
<1>5. a \in Jobs /\ a.do = "put" /\ a.lba # SuperBlock /\ a.links = {} /\ Written(d, a) = DirWritten(d, b, E)
  <2>1. {} \in SUBSET Blocks
    OBVIOUS
  <2> QED
    BY <1>2, <1>4, <2>1, PutDirJob
<1> HIDE DEF a
<1>6. Backed(DirWritten(d, b, E), f, m, bm, ow)
  BY <1>1, <1>2, <1>3, BackedDir
<1>7. Backed(Written(d, a), f, m, bm, ow \cup a.links) /\ Clean(Written(d, a), f, m, ow \cup a.links)
  <2>1. ow \cup a.links = ow
    BY <1>5
  <2>2. Clean(DirWritten(d, b, E), f, m, ow)
    BY <1>3, CleanFills
  <2> QED
    BY <1>5, <1>6, <2>1, <2>2
<1>8. Queued(<<a>>, d, bm, ow, n)
  BY <1>1, <1>5, <1>7, OnlyPut
<1> QED
  BY <1>8 DEF a, b, E

\* What fs_unlink and fs_rmdir have to do.
LEMMA RemoveQueued ==
    ASSUME NEW d, NEW e, NEW m, NEW bm, NEW ow, NEW n, Backed(d, e, m, bm, ow), Clean(d, e, m, ow),
           NEW p \in DirsIn(e, m), NEW s \in Slot(e, p), NEW r, r.ino = e[p],
           r.blocks \in Seq(Blocks), Range(r.blocks) = Freed(e, To(e, p, s))
    PROVE  Queued(RemoveEffects(r, Entries(e, p), s), d, bm, ow, n)
<1> DEFINE b == e[p].ptrs[0]
           E == [Entries(e, p) EXCEPT ![s] = NoEntry]
           a == PutDir(b, E, {})
           u == m \ Freed(e, To(e, p, s))
           f == WithEntry(e, p, s, NoEntry)
           x == ModifyBitmap(r.blocks, FALSE)
           y == AdjustFree(Len(r.blocks))
<1>1. /\ Shadow(d, e, m) /\ m \subseteq bm \cup ow /\ m \subseteq d[BitmapBlock].used \cup ow
      /\ Held(d, bm, ow) /\ d \in [Blocks -> Content]
  BY BackedFacts
<1>2. b \in Blocks /\ b # BitmapBlock /\ b # SuperBlock /\ Entries(e, p) \in [Slots -> Entry \cup {NoEntry}]
  BY <1>1, ShadowFacts
<1>3. Shadow(DirWritten(d, b, E), f, u) /\ Fills(d, e, m, DirWritten(d, b, E), f, u)
  BY <1>1, EraseWrite
<1>4. E \in [Slots -> Entry \cup {NoEntry}]
  BY <1>2
<1> HIDE DEF E, b, f
<1>5. a \in Jobs /\ a.do = "put" /\ a.lba # SuperBlock /\ a.links = {} /\ Written(d, a) = DirWritten(d, b, E)
  <2>1. {} \in SUBSET Blocks
    OBVIOUS
  <2> QED
    BY <1>2, <1>4, <2>1, PutDirJob
<1> HIDE DEF a
<1>6. u \subseteq bm \cup ow /\ u \subseteq d[BitmapBlock].used \cup ow
  BY <1>1
<1>7. Range(r.blocks) \subseteq Blocks /\ Range(r.blocks) \cap u = {}
  <2>1. Range(r.blocks) \cap u = {}
    OBVIOUS
  <2>2. Range(r.blocks) \subseteq Blocks
    BY DEF Range
  <2> QED
    BY <2>1, <2>2
<1> HIDE DEF u
<1>8. Backed(DirWritten(d, b, E), f, u, bm, ow)
  BY <1>1, <1>2, <1>3, <1>6, BackedDir
<1>9. Backed(Written(d, a), f, u, bm, ow \cup a.links) /\ Clean(Written(d, a), f, u, ow \cup a.links)
  <2>1. ow \cup a.links = ow
    BY <1>5
  <2>2. Clean(DirWritten(d, b, E), f, u, ow)
    BY <1>3, CleanFills
  <2> QED
    BY <1>5, <1>8, <2>1, <2>2
<1>10. Part(x, f, u, n) /\ Part(y, f, u, n)
  <2>1. Len(r.blocks) \in Int /\ FALSE \in BOOLEAN
    OBVIOUS
  <2> QED
    BY <1>7, <2>1, BitmapPart, AdjustPart
<1> HIDE DEF x, y
<1>11. Part(x \o y, f, u, n)
  BY <1>10, Parts
<1>12. Queued(<<a>> \o (x \o y), d, bm, ow, n)
  <2> DEFINE q == x \o y
  <2>1. Part(q, f, u, n)
    BY <1>11
  <2> HIDE DEF q
  <2>2. Tidies(q, Written(d, a), f, u, bm, ow \cup a.links)
    BY <1>9, CleanTidies
  <2>3. Queued(<<a>> \o q, d, bm, ow, n)
    BY <1>1, <1>5, <1>9, <2>1, <2>2, OnePut
  <2> QED
    BY <2>3 DEF q
<1>13. <<a>> \o (x \o y) = (<<a>> \o x) \o y
  <2>1. <<a>> \in Seq(Jobs) /\ x \in Seq(Jobs) /\ y \in Seq(Jobs)
    BY <1>5, <1>10 DEF Part
  <2> QED
    BY <2>1, ConcatAssociative
<1>14. RemoveEffects(r, Entries(e, p), s) = (<<a>> \o x) \o y
  BY DEF RemoveEffects, a, b, E, x, y
<1> QED
  BY <1>12, <1>13, <1>14

\* The put of an inode in a free block leaves the shadow alone.
LEMMA NewInodePut ==
    ASSUME NEW d, NEW e, NEW m, NEW bm, NEW ow, Backed(d, e, m, bm, ow), NEW b \in Blocks \ m, NEW ino \in Inode,
           NEW a, a = Put(b, ino)
    PROVE  /\ a \in Jobs /\ a.do = "put" /\ a.lba # SuperBlock /\ a.links = {}
           /\ Backed(Written(d, a), e, m, bm, ow)
           /\ Clean(d, e, m, ow) => Clean(Written(d, a), e, m, ow)
           /\ Written(d, a)[b] = ino /\ Written(d, a)[BitmapBlock] = d[BitmapBlock]
<1>1. ino \in Content /\ ino.kind # "dir"
  BY DEF Content, Inode
<1>2. Backed([d EXCEPT ![b] = ino], e, m, bm, ow)
  BY <1>1, IdleBacked
<1>3. d \in [Blocks -> Content] /\ b # BitmapBlock /\ b # SuperBlock
  BY BackedFacts
<1>4. /\ a \in Jobs /\ a.do = "put" /\ a.lba # SuperBlock /\ a.links = {}
      /\ Written(d, a) = [d EXCEPT ![b] = ino]
  BY <1>1, <1>3, PutJob
<1>5. Clean(d, e, m, ow) => Clean(Written(d, a), e, m, ow)
  <2>1. Whole(d, e, m) => Whole([d EXCEPT ![b] = ino], e, m)
    BY WholeLeft
  <2> QED
    BY <1>4, <2>1 DEF Clean
<1> QED
  BY <1>2, <1>3, <1>4, <1>5

\* What create_directory_entry does in the directory of inode p, with these new blocks.
Adds(d, e, m, bm, ow, p, new, n) ==
    /\ Backed(d, e, m, bm, ow) /\ Clean(d, e, m, ow)
    /\ p \in DirsIn(e, m) /\ Range(new) \cap ow = {}
    /\ new \in [1 .. n -> Blocks \ bm] /\ \A j, k \in 1 .. n : new[j] = new[k] => j = k

\* There is a slot for the entry, and the new blocks are free in the shadow too.
Room(e, m, p, new, n) ==
    /\ \A k \in 1 .. n : new[k] \in Blocks \ m /\ new[k] \in Range(new)
    /\ Min(Vacant(Entries(e, p))) \in Slots \ Slot(e, p)
    /\ Entries(e, p) \in [Slots -> Entry \cup {NoEntry}]
    /\ Range(new) \in SUBSET Blocks /\ Len(new) = n

\* They are.
LEMMA AddsFacts ==
    ASSUME NEW d, NEW e, NEW m, NEW bm, NEW ow, NEW p, NEW new, NEW n \in Nat, Adds(d, e, m, bm, ow, p, new, n),
           Vacant(Entries(e, p)) # {}
    PROVE  Room(e, m, p, new, n)
<1>1. Backed(d, e, m, bm, ow) /\ Range(new) \cap ow = {} /\ p \in DirsIn(e, m) /\ new \in [1 .. n -> Blocks \ bm]
  BY DEF Adds
<1>2. m \subseteq bm \cup ow /\ Entries(e, p) \in [Slots -> Entry \cup {NoEntry}]
  BY <1>1, BackedFacts, ShadowFacts
<1>3. Vacant(Entries(e, p)) \in SUBSET Nat
  BY LayoutAssumption DEF Slots, Vacant
<1>4. Min(Vacant(Entries(e, p))) \in Vacant(Entries(e, p))
  BY <1>3, MinProperty
<1>5. Range(new) \in SUBSET Blocks /\ \A k \in 1 .. n : new[k] \in Range(new)
  BY <1>1 DEF Range
<1>6. Len(new) = n
  <2>1. new \in Seq(Blocks) /\ DOMAIN new = 1 .. n
    BY <1>1
  <2> QED
    BY <2>1, LenProperties
<1>7. \A k \in 1 .. n : new[k] \in Blocks \ m
  BY <1>1, <1>2, <1>5
<1> QED
  BY <1>2, <1>4, <1>5, <1>6, <1>7 DEF Slot, Vacant, Room

\* In the end it marks them.
LEMMA AddsMarks ==
    ASSUME NEW k \in Int, NEW a, Range(a) \subseteq Blocks
    PROVE  /\ Range(a) \subseteq Marks(AdjustFree(k) \o ModifyBitmap(a, TRUE))
           /\ EndsSaved(AdjustFree(k) \o ModifyBitmap(a, TRUE))
<1> DEFINE y == AdjustFree(k)
           b == Bits(a, TRUE)
           x == ModifyBitmap(a, TRUE)
           q == y \o x
<1>1. /\ Load \in Jobs /\ Save \in Jobs /\ Count(k) \in Jobs
      /\ b \in Jobs /\ b.do = "bits" /\ b.blocks = Range(a)
  BY JobKinds, BitsJob
<1>2. b.flag
  BY DEF Bits
<1>7. /\ Load.do = "load" /\ Save.do = "save" /\ Count(k).do = "count"
  BY JobKinds
<1>3. y \in Seq(Jobs) /\ Len(y) = 2 /\ \A i \in 1 .. 2 : y[i].do # "fetch"
  <2> DEFINE c == Count(k)
  <2>1. y = <<Load, c>> /\ c \in Jobs /\ c.do = "count"
    BY <1>1, <1>7 DEF AdjustFree
  <2> HIDE DEF c, y
  <2>2. /\ <<Load, c>> \in Seq(Jobs) /\ Len(<<Load, c>>) = 2
        /\ <<Load, c>>[1] = Load /\ <<Load, c>>[2] = c
    BY <1>1, <2>1
  <2>3. \A i \in 1 .. 2 : i = 1 \/ i = 2
    OBVIOUS
  <2> QED
    BY <1>7, <2>1, <2>2, <2>3
<1>4. x \in Seq(Jobs) /\ Len(x) = 3 /\ x[2] = b /\ x[3].do = "save" /\ \A i \in 1 .. 3 : x[i].do # "fetch"
  <2> HIDE DEF b
  <2>1. x = <<Load, b, Save>>
    BY DEF ModifyBitmap, b
  <2> HIDE DEF x
  <2>2. /\ <<Load, b, Save>> \in Seq(Jobs) /\ Len(<<Load, b, Save>>) = 3
        /\ <<Load, b, Save>>[1] = Load /\ <<Load, b, Save>>[2] = b /\ <<Load, b, Save>>[3] = Save
    BY <1>1
  <2>3. \A i \in 1 .. 3 : i = 1 \/ i = 2 \/ i = 3
    OBVIOUS
  <2> QED
    BY <1>1, <1>7, <2>1, <2>2, <2>3
<1> HIDE DEF b, x, y
<1>5. /\ Len(q) = 5 /\ q[4] = b /\ q[5].do = "save"
      /\ \A i \in 1 .. 5 : q[i].do # "fetch"
  <2>1. Len(q) = Len(y) + Len(x) /\ \A i \in 1 .. Len(y) + Len(x) : q[i] = IF i <= Len(y) THEN y[i] ELSE x[i - Len(y)]
    BY <1>3, <1>4, ConcatProperties
  <2>2. Len(q) = 5 /\ \A i \in 1 .. 5 : q[i] = IF i <= 2 THEN y[i] ELSE x[i - 2]
    BY <1>3, <1>4, <2>1
  <2> HIDE DEF q
  <2>3. q[4] = x[2] /\ q[5] = x[3]
    BY <2>2
  <2>4. \A i \in 1 .. 5 : (i <= 2 /\ i \in 1 .. 2) \/ (~ (i <= 2) /\ i - 2 \in 1 .. 3)
    OBVIOUS
  <2>5. \A i \in 1 .. 5 : q[i].do # "fetch"
    BY <1>3, <1>4, <2>2, <2>4
  <2> QED
    BY <1>4, <2>2, <2>3, <2>5
<1> HIDE DEF q
<1>6. Range(a) \subseteq Marks(q)
  <2>1. 4 \in 1 .. Len(q) /\ q[4].do = "bits" /\ q[4].flag /\ q[4].blocks = Range(a)
    BY <1>1, <1>2, <1>5
  <2> QED
    BY <2>1 DEF Marks
<1>8. EndsSaved(q)
  BY <1>5, EmptySeq DEF EndsSaved
<1> QED
  BY <1>6, <1>8 DEF q, x, y

\* What fs_create has to do.
LEMMA CreateQueued ==
    ASSUME NEW d, NEW e, NEW m, NEW bm, NEW ow, NEW n, NEW p, NEW new, Adds(d, e, m, bm, ow, p, new, 1),
           Vacant(Entries(e, p)) # {}, NEW r, r.ino = e[p], r.call.op = "create",
           r.call.perm \in Perms, r.call.now \in Times, Leaf(r.call.path) \in Names
    PROVE  Queued(CreateEffects(r, Entries(e, p), new), d, bm, ow, n)
<1> DEFINE b == e[p].ptrs[0]
           s == Min(Vacant(Entries(e, p)))
           ino == NewInode("file", r.call.perm, r.call.now, 0)
           ent == [name |-> Leaf(r.call.path), inode |-> new[1]]
           E == Extended(e, p, s, ent)
           a1 == Put(new[1], ino)
           a2 == PutDir(b, E, Range(new))
           d1 == Written(d, a1)
           y == AdjustFree(- Len(new))
           x == ModifyBitmap(new, TRUE)
<1>1. /\ Backed(d, e, m, bm, ow) /\ p \in DirsIn(e, m)
      /\ Shadow(d, e, m) /\ m \subseteq bm \cup ow /\ m \subseteq d[BitmapBlock].used \cup ow
      /\ Held(d, bm, ow) /\ d \in [Blocks -> Content] /\ Clean(d, e, m, ow)
  BY BackedFacts DEF Adds
<1>2. b \in Blocks /\ b # BitmapBlock /\ b # SuperBlock /\ Entries(e, p) \in [Slots -> Entry \cup {NoEntry}]
  BY <1>1, ShadowFacts
<1>3. /\ new[1] \in Blocks \ m /\ s \in Slots \ Slot(e, p)
      /\ Range(new) \in SUBSET Blocks /\ new[1] \in Range(new) /\ Len(new) = 1
  <2>1. Room(e, m, p, new, 1)
    BY AddsFacts
  <2>2. 1 \in 1 .. 1
    OBVIOUS
  <2> QED
    BY <2>1, <2>2 DEF Room
<1>4. ino \in Inode /\ ino.type = "file" /\ ino.size = 0
  BY LayoutAssumption DEF NewInode, Inode, PtrIdx, Blocks
<1>5. ent \in Entry /\ ent.inode = new[1]
  BY <1>3 DEF Entry
<1> HIDE DEF s, ino, ent
<1>6. E \in [Slots -> Entry \cup {NoEntry}]
  BY <1>2, <1>5 DEF Extended
<1>7. /\ a2 \in Jobs /\ a2.do = "put" /\ a2.lba # SuperBlock /\ a2.links = Range(new)
      /\ Written(d1, a2) = DirWritten(d1, b, E)
  <2> HIDE DEF d1, E, b
  <2> QED
    BY <1>2, <1>3, <1>6, PutDirJob
<1>8. /\ a1 \in Jobs /\ a1.do = "put" /\ a1.lba # SuperBlock /\ a1.links = {}
      /\ Backed(d1, e, m, bm, ow) /\ Clean(d1, e, m, ow)
      /\ d1[new[1]] = ino /\ d1[BitmapBlock] = d[BitmapBlock]
  BY <1>1, <1>3, <1>4, NewInodePut
<1> HIDE DEF b, E, a1, a2, d1
<1>9. Held(d1, bm, ow) /\ Shadow(d1, e, m) /\ d1 \in [Blocks -> Content]
  BY <1>8, BackedFacts
<1>10. PICK f : /\ Shadow(DirWritten(d1, b, E), f, m \cup {new[1]})
                /\ Fills(d1, e, m, DirWritten(d1, b, E), f, m \cup {new[1]})
  <2>1. \E f : /\ Shadow(DirWritten(d1, e[p].ptrs[0], Extended(e, p, s, ent)), f, m \cup {ent.inode})
               /\ Fills(d1, e, m, DirWritten(d1, e[p].ptrs[0], Extended(e, p, s, ent)), f, m \cup {ent.inode})
    BY <1>1, <1>3, <1>4, <1>5, <1>8, <1>9, LinkFileWrite
  <2> QED
    BY <1>5, <2>1 DEF b, E
<1>11. Backed(DirWritten(d1, b, E), f, m \cup {new[1]}, bm, ow \cup Range(new))
  <2>1. /\ m \cup {new[1]} \subseteq bm \cup (ow \cup Range(new))
        /\ m \cup {new[1]} \subseteq d1[BitmapBlock].used \cup (ow \cup Range(new))
    BY <1>1, <1>3, <1>8
  <2> QED
    BY <1>2, <1>9, <1>10, <2>1, BackedDir
<1>12. Backed(Written(d1, a2), f, m \cup {new[1]}, bm, ow \cup a2.links)
  BY <1>7, <1>11
<1>13. Part(x, f, m \cup {new[1]}, n) /\ Part(y, f, m \cup {new[1]}, n)
  <2>1. - Len(new) \in Int /\ TRUE \in BOOLEAN
    BY <1>3
  <2>2. Range(new) \subseteq Blocks
    BY <1>3
  <2> QED
    BY <2>1, <2>2, BitmapPart, AdjustPart
<1> HIDE DEF x, y
<1>14. Part(y \o x, f, m \cup {new[1]}, n) /\ x \in Seq(Jobs) /\ y \in Seq(Jobs)
  BY <1>13, Parts DEF Part
<1>15. Queued(<<a2>> \o (y \o x), d1, bm, ow, n) /\ Plan1(<<a2>> \o (y \o x), d1, bm, ow, n)
  <2> DEFINE z == y \o x
  <2>1. Range(new) \subseteq Marks(z) /\ EndsSaved(z)
    <3>1. - Len(new) \in Int
      BY <1>3
    <3> QED
      BY <1>3, <3>1, AddsMarks DEF x, y
  <2>2. Part(z, f, m \cup {new[1]}, n)
    BY <1>14
  <2> HIDE DEF z
  <2>3. Clean(DirWritten(d1, b, E), f, m \cup {new[1]}, ow)
    BY <1>8, <1>10, CleanFills
  <2>4. Tidies(z, Written(d1, a2), f, m \cup {new[1]}, bm, ow \cup a2.links)
    BY <1>7, <2>1, <2>3 DEF Clean, Tidies
  <2>5. Queued(<<a2>> \o z, d1, bm, ow, n) /\ Plan1(<<a2>> \o z, d1, bm, ow, n)
    BY <1>7, <1>9, <1>12, <2>2, <2>4, OnePut
  <2> QED
    BY <2>5 DEF z
<1> DEFINE q == <<a2>> \o (y \o x)
<1>16. q \in Seq(Jobs) /\ Opens(q) /\ Plan1(q, d1, bm, ow \cup a1.links, n)
  <2>1. ow \cup a1.links = ow
    BY <1>8
  <2> QED
    BY <1>8, <1>15, <2>1 DEF Queued
<1> HIDE DEF q
<1>17. <<a1>> \o q \in Seq(Jobs) /\ Opens(<<a1>> \o q) /\ Plan2(<<a1>> \o q, d, bm, ow, n)
  BY <1>1, <1>8, <1>16, PutAhead DEF d1
<1>18. Queued(<<a1>> \o q, d, bm, ow, n)
  BY <1>17 DEF Queued, Planned
<1>19. <<a1>> \o q = ((<<a1, a2>> \o <<>>) \o y) \o x
  <2>1. <<a1, a2>> \in Seq(Jobs)
    BY <1>7, <1>8
  <2>2. <<a1, a2>> \o <<>> = <<a1, a2>>
    BY <2>1, ConcatEmptySeq
  <2>3. (<<a1, a2>> \o y) \o x = <<a1, a2>> \o (y \o x)
    BY <1>14, <2>1, ConcatAssociative
  <2>4. <<a1, a2>> \o (y \o x) = <<a1>> \o (<<a2>> \o (y \o x))
    BY <1>7, <1>8, <1>14, TwoAhead DEF Part
  <2> QED
    BY <2>2, <2>3, <2>4 DEF q
<1>20. CreateEffects(r, Entries(e, p), new) = ((<<a1, a2>> \o <<>>) \o y) \o x
  BY DEF CreateEffects, a1, a2, ino, E, Extended, s, ent, b, x, y, Vacant
<1> QED
  BY <1>18, <1>19, <1>20

\* Three puts, and then nothing that disturbs the shadow they lead to.
LEMMA ThreePuts ==
    ASSUME NEW a \in Jobs, a.do = "put", NEW b \in Jobs, b.do = "put", NEW c \in Jobs, c.do = "put",
           a.lba # SuperBlock, b.lba # SuperBlock, c.lba # SuperBlock, NEW d, NEW bm, NEW ow, NEW n, NEW d1, d1 = Written(d, a), NEW d2, d2 = Written(d1, b),
           NEW o1, o1 = ow \cup a.links, NEW o2, o2 = o1 \cup b.links,
           Held(d, bm, ow), Held(d1, bm, o1), Held(d2, bm, o2),
           NEW f, NEW u, Backed(Written(d2, c), f, u, bm, o2 \cup c.links), NEW q, Part(q, f, u, n),
           Tidies(q, Written(d2, c), f, u, bm, o2 \cup c.links)
    PROVE  Queued(<<a>> \o (<<b>> \o (<<c>> \o q)), d, bm, ow, n)
<1> DEFINE q1 == <<c>> \o q
           q2 == <<b>> \o q1
           q3 == <<a>> \o q2
<1>1. q1 \in Seq(Jobs) /\ Opens(q1) /\ Plan1(q1, d2, bm, o2, n)
  BY OnePut DEF Queued
<1> HIDE DEF q1
<1>2. q2 \in Seq(Jobs) /\ Opens(q2) /\ Plan2(q2, d1, bm, o1, n)
  BY <1>1, PutAhead
<1> HIDE DEF q2
<1>3. q3 \in Seq(Jobs) /\ Opens(q3) /\ Plan3(q3, d, bm, ow, n)
  BY <1>2, PutAhead
<1> HIDE DEF q3
<1>4. Queued(q3, d, bm, ow, n)
  BY <1>3 DEF Queued, Planned
<1> QED
  BY <1>4 DEF q1, q2, q3

\* What fs_mkdir has to do.  Its entry is written before its block is zeroed: until then the new
\* directory shows the entries of a removed one, if that is what the block held, and those lead
\* to marked inodes that nothing else leads to; if it held anything else but zeros, the directory
\* is blank, and only this thread, which does not read it, is under way.
LEMMA MkdirQueued ==
    ASSUME NEW d, NEW e, NEW m, NEW bm, NEW ow, NEW n, NEW p, NEW new, Adds(d, e, m, bm, ow, p, new, 2),
           Vacant(Entries(e, p)) # {}, NEW r, r.ino = e[p], r.call.op = "mkdir",
           r.call.perm \in Perms, r.call.now \in Times, Leaf(r.call.path) \in Names
    PROVE  Queued(CreateEffects(r, Entries(e, p), new), d, bm, ow, n)
<1> DEFINE b == e[p].ptrs[0]
           s == Min(Vacant(Entries(e, p)))
           ino == NewInode("dir", r.call.perm, r.call.now, new[2])
           ent == [name |-> Leaf(r.call.path), inode |-> new[1]]
           E == Extended(e, p, s, ent)
           u == m \cup {new[1], new[2]}
           a1 == Put(new[1], ino)
           a2 == PutDir(b, E, Range(new))
           a3 == Put(new[2], EmptyDir)
           d1 == Written(d, a1)
           d2 == Written(d1, a2)
           y == AdjustFree(- Len(new))
           x == ModifyBitmap(new, TRUE)
<1>1. /\ Backed(d, e, m, bm, ow) /\ p \in DirsIn(e, m)
      /\ Shadow(d, e, m) /\ m \subseteq bm \cup ow /\ m \subseteq d[BitmapBlock].used \cup ow
      /\ Held(d, bm, ow) /\ d \in [Blocks -> Content] /\ BitmapBlock \in m /\ Clean(d, e, m, ow)
  BY BackedFacts DEF Adds
<1>2. b \in Blocks /\ b # BitmapBlock /\ b # SuperBlock /\ Entries(e, p) \in [Slots -> Entry \cup {NoEntry}]
  BY <1>1, ShadowFacts
<1>3. /\ new[1] \in Blocks \ m /\ new[2] \in Blocks \ m /\ new[1] # new[2] /\ s \in Slots \ Slot(e, p)
      /\ Range(new) \in SUBSET Blocks /\ new[1] \in Range(new) /\ new[2] \in Range(new) /\ Len(new) = 2
  <2>1. Room(e, m, p, new, 2)
    BY AddsFacts
  <2>2. 1 \in 1 .. 2 /\ 2 \in 1 .. 2
    OBVIOUS
  <2>3. new[1] # new[2]
    BY <2>2 DEF Adds
  <2> QED
    BY <2>1, <2>2, <2>3 DEF Room
<1>4. ino \in Inode /\ ino.type = "dir" /\ ino.size = BlockSize /\ ino.ptrs[0] = new[2]
  <2>1. new[2] \in Blocks /\ 0 \in PtrIdx /\ 0 \in Blocks
    BY <1>3, LayoutAssumption DEF PtrIdx, Blocks
  <2> QED
    BY <2>1, LayoutAssumption DEF NewInode, Inode
<1>5. ent \in Entry /\ ent.inode = new[1]
  BY <1>3 DEF Entry
<1> HIDE DEF s, ino, ent
<1>6. E \in [Slots -> Entry \cup {NoEntry}]
  BY <1>2, <1>5 DEF Extended
<1>7. /\ a2 \in Jobs /\ a2.do = "put" /\ a2.lba # SuperBlock /\ a2.links = Range(new)
      /\ Written(d1, a2) = DirWritten(d1, b, E)
  <2> HIDE DEF d1, E, b
  <2> QED
    BY <1>2, <1>3, <1>6, PutDirJob
<1>8. /\ a1 \in Jobs /\ a1.do = "put" /\ a1.lba # SuperBlock /\ a1.links = {}
      /\ Backed(d1, e, m, bm, ow) /\ Clean(d1, e, m, ow)
      /\ d1[new[1]] = ino /\ d1[BitmapBlock] = d[BitmapBlock]
  BY <1>1, <1>3, <1>4, NewInodePut
<1>9. /\ a3 \in Jobs /\ a3.do = "put" /\ a3.lba # SuperBlock /\ a3.links = {}
      /\ Written(d2, a3) = [d2 EXCEPT ![new[2]] = EmptyDir]
  <2>1. EmptyDir \in Content /\ new[2] \in Blocks /\ new[2] # SuperBlock
    BY <1>1, <1>3, BackedFacts DEF EmptyDir, Content, DirBlock
  <2> HIDE DEF d2
  <2> QED
    BY <2>1, PutJob
<1> HIDE DEF b, E, a1, a2, a3, d1
<1>10. Held(d1, bm, ow) /\ Shadow(d1, e, m) /\ d1 \in [Blocks -> Content]
  BY <1>8, BackedFacts
<1>11. PICK f : /\ Shadow(DirWritten(d1, b, E), f, u)
                /\ new[1] \in DirsIn(f, u) /\ f[new[1]].ptrs[0] = new[2]
                /\ Fills(d1, e, m, DirWritten(d1, b, E), f, u \ {new[2]})
  <2>1. LinkedDir(d1, e, m, DirWritten(d1, e[p].ptrs[0], Extended(e, p, s, ent)),
                  m \cup {ent.inode, new[2]}, ent.inode, new[2])
    <3>1. /\ ent.inode \notin m /\ d1[ent.inode] = ino
          /\ new[2] = ino.ptrs[0] /\ new[2] \in Blocks \ m /\ new[2] # ent.inode
      BY <1>3, <1>4, <1>5, <1>8
    <3>2. p \in DirsIn(e, m) /\ s \in Slots \ Slot(e, p) /\ Shadow(d1, e, m)
      BY <1>1, <1>3, <1>10
    <3>3. ino \in Inode /\ ino.type = "dir" /\ ino.size = BlockSize /\ ent \in Entry
      BY <1>4, <1>5
    <3> HIDE DEF u, d2, x, y
    <3> QED
      BY <3>1, <3>2, <3>3, LinkDirWrite
  <2> QED
    BY <1>5, <2>1 DEF b, E, LinkedDir
<1>12. /\ u \subseteq bm \cup (ow \cup Range(new))
       /\ u \subseteq d1[BitmapBlock].used \cup (ow \cup Range(new))
  BY <1>1, <1>3, <1>8
<1> HIDE DEF u
<1>13. /\ Backed(d2, f, u, bm, ow \cup Range(new)) /\ d2[BitmapBlock] = d1[BitmapBlock]
       /\ Fills(d1, e, m, d2, f, u \ {new[2]})
  <2>1. d2 = DirWritten(d1, b, E)
    BY <1>7 DEF d2
  <2> HIDE DEF d2
  <2>2. Shadow(DirWritten(d1, b, E), f, u)
    BY <1>11
  <2> QED
    BY <1>2, <1>10, <1>11, <1>12, <2>1, <2>2, BackedDir
<1> HIDE DEF d2
<1>14. Held(d2, bm, ow \cup Range(new)) /\ Shadow(d2, f, u) /\ d2 \in [Blocks -> Content]
  BY <1>13, BackedFacts
<1>15. PICK g : /\ Shadow([d2 EXCEPT ![new[2]] = EmptyDir], g, u)
                /\ Fills(d2, f, u \ {new[2]}, [d2 EXCEPT ![new[2]] = EmptyDir], g, u)
  <2>1. \E g : /\ Shadow([d2 EXCEPT ![f[new[1]].ptrs[0]] = EmptyDir], g, u)
               /\ Fills(d2, f, u \ {f[new[1]].ptrs[0]}, [d2 EXCEPT ![f[new[1]].ptrs[0]] = EmptyDir], g, u)
    BY <1>11, <1>14, EmptiedWrite
  <2> QED
    BY <1>11, <2>1
<1>16. Backed(Written(d2, a3), g, u, bm, (ow \cup Range(new)) \cup a3.links)
  <2>1. new[2] # BitmapBlock
    BY <1>1, <1>3
  <2>2. u \subseteq d2[BitmapBlock].used \cup (ow \cup Range(new))
    BY <1>12, <1>13
  <2>3. Backed([d2 EXCEPT ![new[2]] = EmptyDir], g, u, bm, ow \cup Range(new))
    BY <1>12, <1>14, <1>15, <2>1, <2>2, BackedWrite
  <2>4. (ow \cup Range(new)) \cup a3.links = ow \cup Range(new)
    BY <1>9
  <2> QED
    BY <1>9, <2>3, <2>4
<1>17. Part(x, g, u, n) /\ Part(y, g, u, n)
  <2>1. - Len(new) \in Int /\ TRUE \in BOOLEAN
    BY <1>3
  <2>2. Range(new) \subseteq Blocks
    BY <1>3
  <2> QED
    BY <2>1, <2>2, BitmapPart, AdjustPart
<1> HIDE DEF x, y
<1>18. Part(y \o x, g, u, n) /\ x \in Seq(Jobs) /\ y \in Seq(Jobs) /\ y \o x \in Seq(Jobs)
  BY <1>17, Parts DEF Part
<1> DEFINE z == y \o x
<1>22. Tidies(z, Written(d2, a3), g, u, bm, (ow \cup Range(new)) \cup a3.links)
  <2>1. Range(new) \subseteq Marks(z) /\ EndsSaved(z)
    <3>1. - Len(new) \in Int /\ Range(new) \subseteq Blocks
      BY <1>3
    <3> QED
      BY <3>1, AddsMarks DEF x, y
  <2> HIDE DEF z
  <2>2. Reliable => Whole(d1, e, m) /\ ow = {}
    BY <1>8 DEF Clean
  <2>3. Whole(d1, e, m) => Whole(Written(d2, a3), g, u)
    BY <1>9, <1>13, <1>15 DEF Whole, Fills
  <2>4. (ow \cup Range(new)) \cup a3.links = ow \cup Range(new)
    BY <1>9
  <2> QED
    BY <2>1, <2>2, <2>3, <2>4 DEF Tidies
<1> HIDE DEF z
<1>19. Queued(<<a1>> \o (<<a2>> \o (<<a3>> \o (y \o x))), d, bm, ow, n)
  <2>1. ow = ow \cup a1.links /\ ow \cup Range(new) = ow \cup a2.links
    BY <1>7, <1>8
  <2>2. d1 = Written(d, a1) /\ d2 = Written(d1, a2)
    BY DEF d1, d2
  <2>3. Part(z, g, u, n)
    BY <1>18 DEF z
  <2>4. Queued(<<a1>> \o (<<a2>> \o (<<a3>> \o z)), d, bm, ow, n)
    BY <1>1, <1>7, <1>8, <1>9, <1>10, <1>14, <1>16, <1>22, <2>1, <2>2, <2>3, ThreePuts
  <2> QED
    BY <2>4 DEF z
<1>20. <<a1>> \o (<<a2>> \o (<<a3>> \o (y \o x))) = ((<<a1, a2>> \o <<a3>>) \o y) \o x
  <2> DEFINE v == <<a1, a2>>
             w == <<a3>>
  <2>1. v \in Seq(Jobs) /\ w \in Seq(Jobs)
    BY <1>7, <1>8, <1>9
  <2>2. v \o (w \o (y \o x)) = <<a1>> \o (<<a2>> \o (w \o (y \o x)))
    <3> DEFINE zz == w \o (y \o x)
    <3>1. zz \in Seq(Jobs)
      BY <1>18, <2>1, ConcatProperties
    <3> HIDE DEF zz
    <3>2. v \o zz = <<a1>> \o (<<a2>> \o zz)
      BY <1>7, <1>8, <3>1, TwoAhead
    <3> QED
      BY <3>2 DEF zz
  <2> HIDE DEF v, w
  <2>3. ((v \o w) \o y) \o x = (v \o w) \o (y \o x)
    <3>1. v \o w \in Seq(Jobs)
      BY <2>1, ConcatProperties
    <3> QED
      BY <1>18, <3>1, ConcatAssociative, SMTT(60)
  <2>4. (v \o w) \o (y \o x) = v \o (w \o (y \o x))
    <3> DEFINE yx == y \o x
    <3>1. yx \in Seq(Jobs)
      BY <1>18
    <3> HIDE DEF yx
    <3>2. (v \o w) \o yx = v \o (w \o yx)
      BY <2>1, <3>1, ConcatAssociative, SMTT(60)
    <3> QED
      BY <3>2 DEF yx
  <2>5. <<a1>> \o (<<a2>> \o (w \o (y \o x))) = ((v \o w) \o y) \o x
    BY <2>2, <2>3, <2>4
  <2> QED
    BY <2>5 DEF v, w
<1>21. CreateEffects(r, Entries(e, p), new) = ((<<a1, a2>> \o <<a3>>) \o y) \o x
  BY DEF CreateEffects, a1, a2, a3, ino, E, Extended, s, ent, b, x, y, Vacant
<1> QED
  BY <1>19, <1>20, <1>21

\* An image with a shadow of the marks u, where these are blocks of bytes.
Filed(d, u, bm, ow, ino) ==
    \E f : /\ Backed(d, f, u, bm, ow) /\ Clean(d, f, u, ow)
           /\ \A b \in DataBlocks(ino) : f[b].kind = "data"

\* An inode that file i may have.
Fits(e, m, i, ino) ==
    /\ ino \in Inode /\ ino.type = "file" /\ BlocksFor(ino.size) <= MaxPtrs
    /\ \A b \in DataBlocks(ino) : b \in Blocks
    /\ \A b \in DataBlocks(ino) : b \in m => b \in DataBlocks(e[i])
    /\ \A k, l \in DataIdx(ino) : ino.ptrs[k] = ino.ptrs[l] => k = l

\* The marks of the shadow with this inode, which are on the disk and in memory.
Refits(d, e, m, bm, ow, i, ino, u) ==
    /\ Fits(e, m, i, ino) /\ u = (m \ DataBlocks(e[i])) \cup DataBlocks(ino)
    /\ u \subseteq bm \cup ow /\ u \subseteq d[BitmapBlock].used \cup ow

\* A put that leads to an image with a shadow of the marks u.
LeadsTo(a, d, u, bm, ow, ino) ==
    a \in Jobs /\ a.do = "put" /\ a.lba # SuperBlock /\ a.links = {} /\ Filed(Written(d, a), u, bm, ow, ino)

\* The put of the inode of a file, with more or with fewer blocks.
LEMMA FilePut ==
    ASSUME NEW d, NEW e, NEW m, NEW bm, NEW ow, Backed(d, e, m, bm, ow), Clean(d, e, m, ow),
           NEW i \in LiveIn(e, m), e[i].type = "file",
           NEW ino, NEW u, Refits(d, e, m, bm, ow, i, ino, u)
    PROVE  LeadsTo(Put(i, ino), d, u, bm, ow, ino)
<1> DEFINE d1 == [d EXCEPT ![i] = ino]
           f == Regained(e, i, ino)
           a == Put(i, ino)
<1>1. /\ Shadow(d, e, m) /\ d \in [Blocks -> Content] /\ i \in Blocks /\ i # BitmapBlock /\ i # SuperBlock /\ ino \in Content
      /\ u \subseteq bm \cup ow /\ u \subseteq d[BitmapBlock].used \cup ow
  BY BackedFacts, ShadowFacts DEF Refits, Fits, Content
<1>2. Refiled(d, e, m, i, ino)
  <2>1. /\ ino \in Inode /\ ino.type = "file" /\ BlocksFor(ino.size) <= MaxPtrs
        /\ \A b \in DataBlocks(ino) : b \in Blocks
        /\ \A b \in DataBlocks(ino) : b \in m => b \in DataBlocks(e[i])
        /\ \A k, l \in DataIdx(ino) : ino.ptrs[k] = ino.ptrs[l] => k = l
    BY DEF Refits, Fits
  <2> HIDE DEF d1, f
  <2> QED
    BY <1>1, <2>1, FileWrite
<1>3. /\ Shadow(d1, f, u) /\ \A b \in DataBlocks(ino) : f[b].kind = "data"
      /\ Fills(d, e, m, d1, f, u)
  BY <1>2 DEF Refits, Refiled
<1>4. a \in Jobs /\ a.do = "put" /\ a.lba # SuperBlock /\ a.links = {} /\ Written(d, a) = d1
  <2>1. i \in Blocks /\ ino \in Content /\ i # SuperBlock
    BY <1>1
  <2>2. a \in Jobs /\ a.do = "put" /\ a.lba = i /\ a.links = {} /\ Written(d, a) = d1
    BY ONLY <2>1, PutJob, Zenon
  <2> QED
    BY <2>1, <2>2, Zenon
<1> HIDE DEF f
<1>5. Backed(d1, f, u, bm, ow)
  BY <1>1, <1>3, BackedWrite
<1> HIDE DEF d1
<1>6. Filed(d1, u, bm, ow, ino)
  BY <1>3, <1>5, CleanFills DEF Filed
<1> QED
  BY <1>4, <1>6 DEF LeadsTo

\* removed_blocks of fs_truncate.
Removed(ino, len) == [k \in 1 .. BlocksFor(ino.size) - BlocksFor(len) |-> ino.ptrs[BlocksFor(len) + k - 1]]

\* What fs_truncate keeps of an inode, and what it removes.
LEMMA ShortenedFits ==
    ASSUME NEW e, NEW m, Sound(e, m), NEW i \in LiveIn(e, m), e[i].type = "file",
           NEW len \in Nat, BlocksFor(len) <= BlocksFor(e[i].size),
           NEW removed, removed = Removed(e[i], len),
           NEW ino, ino = Shortened(e[i], len)
    PROVE  /\ Fits(e, m, i, ino) /\ DataBlocks(ino) \subseteq DataBlocks(e[i]) /\ DataBlocks(e[i]) \subseteq m
           /\ Range(removed) \subseteq DataBlocks(e[i]) /\ Range(removed) \cap DataBlocks(ino) = {}
           /\ Len(removed) \in Int
<1> DEFINE n == BlocksFor(e[i].size)
           left == BlocksFor(len)
<1>1. /\ e[i] \in Inode /\ m \subseteq Blocks /\ n \in Nat /\ left \in Nat /\ n <= MaxPtrs /\ MaxPtrs \in Nat
      /\ \A k \in 0 .. n - 1 : e[i].ptrs[k] \in m
      /\ \A k, l \in 0 .. n - 1 : e[i].ptrs[k] = e[i].ptrs[l] => k = l
  <2>1. e[i] \in Inode /\ m \subseteq Blocks
    <3>1. e[i] \in Content /\ e[i].kind = "inode"
      BY DEF Sound, Typed, LiveIn, IsInode
    <3> QED
      BY <3>1, ContentKinds DEF Sound, Typed
  <2>2. e[i].size \in Nat
    BY <2>1 DEF Inode
  <2>3. n \in Nat /\ left \in Nat
    BY <2>2, BlocksForProperty
  <2>4. /\ BlocksFor(e[i].size) <= MaxPtrs
        /\ \A k \in DataIdx(e[i]) : e[i].ptrs[k] \in m
        /\ \A k, l \in DataIdx(e[i]) : e[i].ptrs[k] = e[i].ptrs[l] => k = l
    BY DEF Sound, InodesFit, PtrsDiffer
  <2> QED
    BY <2>1, <2>3, <2>4, LayoutAssumption DEF DataIdx
<1>2. left <= n
  OBVIOUS
<1> HIDE DEF n, left
<1>3. /\ ino = [e[i] EXCEPT !.size = len,
                            !.ptrs = [k \in PtrIdx |-> IF k \in left .. n - 1 THEN NoPtr ELSE @[k]]]
      /\ removed = [k \in 1 .. n - left |-> e[i].ptrs[left + k - 1]]
  BY DEF Shortened, Removed, n, left
<1>4. /\ ino \in Inode /\ ino.type = "file" /\ ino.size = len
      /\ \A k \in PtrIdx : ino.ptrs[k] = IF k \in left .. n - 1 THEN NoPtr ELSE e[i].ptrs[k]
  <2> DEFINE ptrs == [k \in PtrIdx |-> IF k \in left .. n - 1 THEN NoPtr ELSE e[i].ptrs[k]]
  <2>1. ptrs \in [PtrIdx -> Blocks \cup {NoPtr}]
    BY <1>1 DEF Inode
  <2>2. ino = [e[i] EXCEPT !.size = len, !.ptrs = ptrs]
    BY <1>3
  <2>3. \A k \in PtrIdx : ptrs[k] = IF k \in left .. n - 1 THEN NoPtr ELSE e[i].ptrs[k]
    OBVIOUS
  <2> HIDE DEF ptrs
  <2>4. ino \in Inode /\ ino.type = "file" /\ ino.size = len /\ ino.ptrs = ptrs
    BY <1>1, <2>1, <2>2 DEF Inode
  <2> QED
    BY <2>3, <2>4
<1>5. DataIdx(ino) = 0 .. left - 1 /\ DataIdx(e[i]) = 0 .. n - 1
  BY <1>4 DEF DataIdx, n, left
<1>6. ASSUME NEW k \in 0 .. left - 1 PROVE ino.ptrs[k] = e[i].ptrs[k] /\ k \in 0 .. n - 1
  <2>1. k \in PtrIdx /\ k \notin left .. n - 1 /\ k \in 0 .. n - 1
    BY <1>1, <1>2 DEF PtrIdx
  <2> QED
    BY <1>4, <2>1
<1>7. DataBlocks(ino) \subseteq DataBlocks(e[i]) /\ DataBlocks(e[i]) \subseteq m
  BY <1>1, <1>5, <1>6 DEF DataBlocks
<1>8. \A k, l \in DataIdx(ino) : ino.ptrs[k] = ino.ptrs[l] => k = l
  BY <1>1, <1>5, <1>6
<1>9. Fits(e, m, i, ino)
  <2>1. BlocksFor(ino.size) <= MaxPtrs
    <3>1. BlocksFor(ino.size) = left
      BY <1>4 DEF left
    <3> QED
      BY <1>1, <1>2, <3>1
  <2> QED
    BY <1>1, <1>4, <1>7, <1>8, <2>1 DEF Fits
<1>10. ASSUME NEW b \in Range(removed) PROVE b \in DataBlocks(e[i]) /\ b \notin DataBlocks(ino)
  <2>1. PICK k \in 1 .. n - left : b = removed[k]
    BY <1>3 DEF Range
  <2>2. left + k - 1 \in 0 .. n - 1 /\ left + k - 1 >= left /\ b = e[i].ptrs[left + k - 1]
    BY <1>1, <1>2, <1>3, <2>1
  <2>3. b \in DataBlocks(e[i])
    BY <1>5, <2>2 DEF DataBlocks
  <2>4. ASSUME NEW l \in 0 .. left - 1, b = ino.ptrs[l] PROVE FALSE
    <3>1. l = left + k - 1
      BY <1>1, <1>6, <2>2, <2>4
    <3> QED
      BY <1>1, <2>2, <3>1
  <2>5. b \notin DataBlocks(ino)
    BY <1>5, <2>4 DEF DataBlocks
  <2> QED
    BY <2>3, <2>5
<1>11. Len(removed) \in Int
  <2>1. n - left \in Nat
    BY <1>1, <1>2
  <2>2. \A k \in 1 .. n - left : e[i].ptrs[left + k - 1] \in Blocks
    BY <1>1, <1>2
  <2>3. removed \in [1 .. n - left -> Blocks]
    BY <1>3, <2>2
  <2>4. removed \in Seq(Blocks)
    BY <2>1, <2>3
  <2> QED
    BY <2>4
<1> QED
  BY <1>7, <1>9, <1>10, <1>11

\* What fs_truncate has to do.
LEMMA TruncateQueued ==
    ASSUME NEW d, NEW e, NEW m, NEW bm, NEW ow, NEW n, Backed(d, e, m, bm, ow), Clean(d, e, m, ow),
           NEW i \in LiveIn(e, m), e[i].type = "file", NEW r, r.inum = i,
           r.call.len \in Nat, BlocksFor(r.call.len) <= BlocksFor(e[i].size)
    PROVE  Queued(TruncateEffects(r, e[i]), d, bm, ow, n)
<1> DEFINE len == r.call.len
           removed == Removed(e[i], len)
           ino == Shortened(e[i], len)
           a == Put(i, ino)
           u == (m \ DataBlocks(e[i])) \cup DataBlocks(ino)
           x == ModifyBitmap(removed, FALSE)
           y == AdjustFree(Len(removed))
<1>1. /\ Shadow(d, e, m) /\ m \subseteq bm \cup ow /\ m \subseteq d[BitmapBlock].used \cup ow
      /\ Held(d, bm, ow) /\ m \subseteq Blocks
  BY BackedFacts
<1>2. Sound(e, m) /\ e[i] \in Inode
  BY <1>1, ShadowFacts
<1>3. TruncateEffects(r, e[i]) = (<<a>> \o x) \o y
  BY DEF TruncateEffects, Removed
<1>4. /\ Fits(e, m, i, ino) /\ DataBlocks(ino) \subseteq DataBlocks(e[i]) /\ DataBlocks(e[i]) \subseteq m
      /\ Range(removed) \subseteq DataBlocks(e[i]) /\ Range(removed) \cap DataBlocks(ino) = {}
      /\ Len(removed) \in Int
  <2> HIDE DEF removed, ino
  <2>1. removed = Removed(e[i], len)
    BY DEF removed
  <2>2. ino = Shortened(e[i], len)
    BY DEF ino
  <2> HIDE DEF a, u, x, y
  <2> QED
    BY <1>2, <2>1, <2>2, ShortenedFits
<1> HIDE DEF removed, ino
<1>5. u \subseteq m
  BY <1>4
<1>6. u \subseteq bm \cup ow /\ u \subseteq d[BitmapBlock].used \cup ow
  BY <1>1, <1>5
<1>7. LeadsTo(a, d, u, bm, ow, ino)
  <2>1. Refits(d, e, m, bm, ow, i, ino, u)
    BY <1>4, <1>6 DEF Refits
  <2> HIDE DEF u, x, y
  <2> QED
    BY <2>1, FilePut
<1>8. /\ a \in Jobs /\ a.do = "put" /\ a.lba # SuperBlock /\ ow \cup a.links = ow
      /\ \E f : Backed(Written(d, a), f, u, bm, ow) /\ Clean(Written(d, a), f, u, ow)
  BY <1>7 DEF LeadsTo, Filed
<1>9. PICK f : Backed(Written(d, a), f, u, bm, ow) /\ Clean(Written(d, a), f, u, ow)
  BY <1>8
<1>10. Part(x, f, u, n) /\ Part(y, f, u, n)
  <2>1. Range(removed) \cap u = {} /\ Range(removed) \subseteq Blocks /\ FALSE \in BOOLEAN
    BY <1>1, <1>4
  <2> QED
    BY <1>4, <2>1, BitmapPart, AdjustPart
<1> HIDE DEF a, u, x, y
<1>11. Part(x \o y, f, u, n)
  BY <1>10, Parts
<1>12. Queued(<<a>> \o (x \o y), d, bm, ow, n)
  <2> DEFINE q == x \o y
  <2>1. Part(q, f, u, n)
    BY <1>11
  <2> HIDE DEF q
  <2>2. Tidies(q, Written(d, a), f, u, bm, ow)
    BY <1>9, CleanTidies
  <2>3. Queued(<<a>> \o q, d, bm, ow, n)
    BY <1>1, <1>8, <1>9, <2>1, <2>2, OnePut
  <2> QED
    BY <2>3 DEF q
<1>13. <<a>> \o (x \o y) = (<<a>> \o x) \o y
  <2>1. <<a>> \in Seq(Jobs) /\ x \in Seq(Jobs) /\ y \in Seq(Jobs)
    BY <1>8, <1>10 DEF Part
  <2> QED
    BY <2>1, ConcatAssociative
<1> QED
  BY <1>3, <1>12, <1>13

\* The inode that fs_write leaves, the pointers it goes through, and the number of blocks it
\* takes; f are those.
Outgrown(e, m, i, ino, f, idx, need) ==
    /\ Fits(e, m, i, ino) /\ need \in Int
    /\ (m \ DataBlocks(e[i])) \cup DataBlocks(ino) = m \cup Range(f)
    /\ Range(f) \subseteq Blocks
    /\ \A k \in idx : ino.ptrs[k] \in DataBlocks(ino)

\* An inode that fs_write makes of another one is one the file may have.
LEMMA GrownFits ==
    ASSUME NEW e, NEW m, Sound(e, m), NEW i \in LiveIn(e, m), e[i].type = "file",
           NEW from \in Nat, NEW len \in Nat \ {0}, NEW now \in Times, from <= e[i].size,
           NEW need, need = BlocksNeeded(e[i].size, from, len),
           NEW fresh \in [1 .. need -> Blocks \ m], \A j, k \in 1 .. need : fresh[j] = fresh[k] => j = k,
           NEW ino, ino = Grown(e[i], fresh, from + len, now)
    PROVE  Outgrown(e, m, i, ino, fresh, WriteIdx(from, len), need)
<1> DEFINE old == e[i]
           size == old.size
           n == BlocksFor(size)
           idx == WriteIdx(from, len)
<1>1. /\ old \in Inode /\ m \subseteq Blocks /\ size \in Nat /\ n \in Nat /\ n <= MaxPtrs
      /\ MaxPtrs \in Nat
      /\ \A k \in 0 .. n - 1 : old.ptrs[k] \in m
      /\ \A k, l \in 0 .. n - 1 : old.ptrs[k] = old.ptrs[l] => k = l
  <2>1. e[i] \in Inode /\ m \subseteq Blocks
    <3>1. e[i] \in Content /\ e[i].kind = "inode"
      BY DEF Sound, Typed, LiveIn, IsInode
    <3> QED
      BY <3>1, ContentKinds DEF Sound, Typed
  <2>2. e[i].size \in Nat
    BY <2>1 DEF Inode
  <2>3. n \in Nat
    BY <2>2, BlocksForProperty
  <2>4. /\ BlocksFor(e[i].size) <= MaxPtrs
        /\ \A k \in DataIdx(e[i]) : e[i].ptrs[k] \in m
        /\ \A k, l \in DataIdx(e[i]) : e[i].ptrs[k] = e[i].ptrs[l] => k = l
    BY DEF Sound, InodesFit, PtrsDiffer
  <2> QED
    BY <2>1, <2>2, <2>3, <2>4, LayoutAssumption DEF DataIdx
<1>2. /\ need \in Int /\ from + len \in Nat
      /\ BlocksFor(IF from + len > size THEN from + len ELSE size) = IF need > 0 THEN n + need ELSE n
      /\ idx = (from \div BlockSize) .. (n + need - 1)
      /\ from \div BlockSize \in Nat /\ from \div BlockSize <= n
  <2> HIDE DEF n, size, idx, old
  <2>1. /\ BlocksNeeded(size, from, len) \in Int
        /\ BlocksFor(IF from + len > size THEN from + len ELSE size)
              = IF BlocksNeeded(size, from, len) > 0 THEN BlocksFor(size) + BlocksNeeded(size, from, len)
                ELSE BlocksFor(size)
        /\ from \div BlockSize \in Nat /\ from \div BlockSize <= BlocksFor(size)
        /\ (from + len - 1) \div BlockSize = BlocksFor(size) + BlocksNeeded(size, from, len) - 1
    <3>1. from <= size
      BY DEF size, old
    <3> QED
      BY <1>1, <3>1, WriteSizes
  <2>2. need = BlocksNeeded(size, from, len) /\ n = BlocksFor(size)
    BY DEF n, size, old
  <2>3. idx = (from \div BlockSize) .. ((from + len - 1) \div BlockSize)
    BY DEF idx, WriteIdx
  <2> QED
    BY <2>1, <2>2, <2>3
<1>3. need > 0 => n + need <= MaxPtrs
  <2> SUFFICES ASSUME need > 0 PROVE n + need <= MaxPtrs
    OBVIOUS
  <2>1. need \in Nat
    BY <1>2
  <2> HIDE DEF n
  <2>2. BlocksFor(e[i].size) + need <= MaxPtrs
    BY <2>1, EnoughPointers
  <2> QED
    BY <2>2 DEF n, size
<1> DEFINE N == IF need > 0 THEN n + need ELSE n
<1>4. N \in Nat /\ N <= MaxPtrs /\ n <= N /\ n + need <= N
  BY <1>1, <1>2, <1>3
<1> HIDE DEF n, idx
<1>5. /\ ino \in Inode /\ ino.type = "file"
      /\ ino.size = IF from + len > size THEN from + len ELSE size
      /\ \A k \in PtrIdx : ino.ptrs[k] = IF k - n + 1 \in 1 .. need THEN fresh[k - n + 1] ELSE old.ptrs[k]
  <2> DEFINE ptrs == [k \in PtrIdx |-> IF k - n + 1 \in 1 .. need THEN fresh[k - n + 1] ELSE old.ptrs[k]]
             grown == IF from + len > size THEN from + len ELSE size
  <2>1. DOMAIN fresh = 1 .. need
    OBVIOUS
  <2>2. ino = [old EXCEPT !.size = grown, !.mtime = now, !.ptrs = ptrs]
    BY <2>1 DEF Grown, n
  <2>3. old.ptrs \in [PtrIdx -> Blocks \cup {NoPtr}]
    BY <1>1 DEF Inode
  <2>4. ptrs \in [PtrIdx -> Blocks \cup {NoPtr}]
    BY <2>3
  <2>5. \A k \in PtrIdx : ptrs[k] = IF k - n + 1 \in 1 .. need THEN fresh[k - n + 1] ELSE old.ptrs[k]
    OBVIOUS
  <2>6. grown \in Nat
    BY <1>1, <1>2
  <2> HIDE DEF ptrs, grown
  <2>7. /\ ino \in Inode /\ ino.type = "file"
        /\ ino.size = grown /\ ino.ptrs = ptrs
    BY <1>1, <2>2, <2>4, <2>6 DEF Inode
  <2> QED
    BY <2>5, <2>7 DEF grown
<1>6. DataIdx(ino) = 0 .. N - 1 /\ BlocksFor(ino.size) = N
  BY <1>2, <1>5 DEF DataIdx
<1>7. DataIdx(old) = 0 .. n - 1
  BY DEF DataIdx, n
<1> HIDE DEF size
<1>8. \A k \in 0 .. N - 1 :
         /\ k < n => ino.ptrs[k] = old.ptrs[k] /\ k \in 0 .. n - 1
         /\ k >= n => k - n + 1 \in 1 .. need /\ ino.ptrs[k] = fresh[k - n + 1]
  <2> TAKE k \in 0 .. N - 1
  <2> HIDE DEF N
  <2>1. k \in PtrIdx
    BY <1>4, LayoutAssumption DEF PtrIdx
  <2>2. k >= n => k - n + 1 \in 1 .. need
    <3>1. n \in Nat /\ need \in Int
      BY <1>1, <1>2, Zenon
    <3>2. CASE need > 0
      <4>1. N = n + need
        BY <3>2 DEF N
      <4> QED
        BY <3>1, <4>1
    <3>3. CASE ~(need > 0)
      <4>1. N = n
        BY <3>3 DEF N
      <4> QED
        BY <3>1, <4>1
    <3> QED
      BY <3>2, <3>3
  <2>3. k < n => k - n + 1 \notin 1 .. need /\ k \in 0 .. n - 1
    BY <1>1, <1>2, <1>4
  <2> QED
    BY <1>5, <2>1, <2>2, <2>3
<1>9. \A j \in 1 .. need : /\ j + n - 1 \in 0 .. N - 1 /\ j + n - 1 >= n /\ (j + n - 1) - n + 1 = j
  BY <1>1, <1>2
<1>10. \A k \in idx : k \in 0 .. N - 1
  BY <1>1, <1>2, <1>4
<1> HIDE DEF N, old
<1>11. \A b \in DataBlocks(ino) : \E k \in 0 .. N - 1 : b = ino.ptrs[k]
  BY <1>6 DEF DataBlocks
<1>12. \A k \in 0 .. N - 1 : ino.ptrs[k] \in DataBlocks(ino)
  BY <1>6 DEF DataBlocks
<1>13. \A k \in 0 .. N - 1 :
          \/ k < n /\ ino.ptrs[k] \in DataBlocks(old) /\ ino.ptrs[k] \in m /\ ino.ptrs[k] = old.ptrs[k] /\ k \in 0 .. n - 1
          \/ k >= n /\ ino.ptrs[k] \in Range(fresh) /\ ino.ptrs[k] \in Blocks \ m
             /\ ino.ptrs[k] = fresh[k - n + 1] /\ k - n + 1 \in 1 .. need
  <2> TAKE k \in 0 .. N - 1
  <2>1. CASE k < n
    BY <1>1, <1>7, <1>8, <2>1 DEF DataBlocks
  <2>2. CASE k >= n
    BY <1>8, <2>2 DEF Range
  <2>3. n \in Nat /\ k \in Int
    BY <1>1, <1>4
  <2> QED
    BY <2>1, <2>2, <2>3
<1>14. \A b \in DataBlocks(ino) : b \in Blocks /\ (b \in m => b \in DataBlocks(old))
  BY <1>1, <1>11, <1>13
<1>15. \A k, l \in 0 .. N - 1 : ino.ptrs[k] = ino.ptrs[l] => k = l
  <2> SUFFICES ASSUME NEW k \in 0 .. N - 1, NEW l \in 0 .. N - 1, ino.ptrs[k] = ino.ptrs[l]
               PROVE  k = l
    OBVIOUS
  <2>1. CASE k < n /\ l < n
    BY <1>1, <1>8, <2>1
  <2>2. CASE k >= n /\ l >= n
    <3>1. k - n + 1 = l - n + 1
      BY <1>8, <2>2
    <3> QED
      BY <1>1, <1>4, <3>1
  <2>3. CASE ~(k < n /\ l < n) /\ ~(k >= n /\ l >= n)
    <3>1. n \in Nat /\ k \in Int /\ l \in Int
      BY <1>1, <1>4
    <3>2. (k < n /\ l >= n /\ ~(k >= n) /\ ~(l < n)) \/ (k >= n /\ l < n /\ ~(k < n) /\ ~(l >= n))
      BY <2>3, <3>1
    <3> QED
      BY <1>13, <3>2, Zenon
  <2> QED
    BY <2>1, <2>2, <2>3
<1>16. Fits(e, m, i, ino)
  BY <1>4, <1>5, <1>6, <1>14, <1>15 DEF Fits, old
<1>17. (m \ DataBlocks(e[i])) \cup DataBlocks(ino) = m \cup Range(fresh)
  <2>1. ASSUME NEW b \in DataBlocks(old) PROVE b \in DataBlocks(ino) /\ b \in m
    <3>1. PICK k \in 0 .. n - 1 : b = old.ptrs[k]
      BY <1>7 DEF DataBlocks
    <3>2. k \in 0 .. N - 1 /\ k < n
      BY <1>1, <1>4, <3>1
    <3> QED
      BY <1>1, <1>8, <1>12, <3>1, <3>2
  <2>2. ASSUME NEW b \in Range(fresh) PROVE b \in DataBlocks(ino)
    <3>1. PICK j \in 1 .. need : b = fresh[j]
      BY DEF Range
    <3>2. j + n - 1 \in 0 .. N - 1 /\ ino.ptrs[j + n - 1] = fresh[j]
      BY <1>8, <1>9, <3>1
    <3> QED
      BY <1>12, <3>1, <3>2
  <2>3. ASSUME NEW b \in DataBlocks(ino) PROVE b \in DataBlocks(old) \/ b \in Range(fresh)
    BY <1>11, <1>13, <2>3
  <2> QED
    BY <2>1, <2>2, <2>3 DEF old
<1>18. Range(fresh) \subseteq Blocks
  BY DEF Range
<1> QED
  BY <1>2, <1>10, <1>12, <1>16, <1>17, <1>18 DEF Outgrown, idx

\* The pointers that fs_write goes through are as many as blocks of its buffer.
LEMMA WriteSpan ==
    ASSUME NEW from \in Nat, NEW len \in Nat \ {0}
    PROVE  LET idx == WriteIdx(from, len) IN
           /\ Cardinality(idx) \in Nat
           /\ Min(idx) \in idx /\ Max(idx) \in idx /\ Min(idx) = from \div BlockSize
           /\ \A n \in 1 .. Cardinality(idx) : Min(idx) + n - 1 \in idx
<1> DEFINE lo == from \div BlockSize
           hi == (from + len - 1) \div BlockSize
<1>1. lo \in Nat /\ hi \in Nat /\ lo <= hi
  <2>1. BlockSize \in Nat \ {0} /\ from \in Int /\ from + len - 1 \in Int /\ from <= from + len - 1
    BY LayoutAssumption
  <2>2. lo <= hi /\ lo \in Int /\ hi \in Int
    BY <2>1, DivMonotone, Division
  <2>3. lo >= 0
    BY <2>1, LayoutAssumption
  <2> QED
    BY <2>2, <2>3
<1>2. WriteIdx(from, len) = lo .. hi
  BY DEF WriteIdx
<1> HIDE DEF lo, hi
<1>3. Cardinality(lo .. hi) = hi - lo + 1
  BY <1>1, FS_Interval
<1>4. Min(lo .. hi) = lo
  BY <1>1 DEF Min
<1>5. Max(lo .. hi) = hi
  BY <1>1 DEF Max
<1>6. \A n \in 1 .. hi - lo + 1 : lo + n - 1 \in lo .. hi
  BY <1>1
<1> QED
  BY <1>1, <1>2, <1>3, <1>4, <1>5, <1>6 DEF lo

\* A buffer of blocks of zeros.
LEMMA ZeroBufferType ==
    ASSUME NEW count \in Nat
    PROVE  ZeroBuffer(count) \in Seq([Offs -> Byte]) /\ Len(ZeroBuffer(count)) = count
<1>1. ZeroBlock.bytes \in [Offs -> Byte]
  BY DEF ZeroBlock, Byte
<1>2. ZeroBuffer(count) \in [1 .. count -> [Offs -> Byte]]
  BY <1>1 DEF ZeroBuffer
<1> QED
  BY <1>2

\* The reads of fs_write, and its writes to the blocks of the file.
Fetched(old, ino, idx, count) ==
    (IF old > 0 THEN <<Fetch(ino.ptrs[Min(idx)], 1)>> ELSE <<>>)
    \o (IF old > 1 THEN <<Fetch(ino.ptrs[Max(idx)], count)>> ELSE <<>>)
Stores(ino, idx, count) == [n \in 1 .. count |-> Store(ino.ptrs[Min(idx) + n - 1], n)]

\* They leave a shadow alone that has bytes in these blocks.
LEMMA StoresPart ==
    ASSUME NEW f, NEW u, NEW ino, \A b \in DataBlocks(ino) : b \in Blocks /\ f[b].kind = "data",
           NEW from \in Nat, NEW len \in Nat \ {0}, NEW idx, idx = WriteIdx(from, len),
           \A k \in idx : ino.ptrs[k] \in DataBlocks(ino),
           NEW count, count = Cardinality(idx), NEW old
    PROVE  Part(Fetched(old, ino, idx, count), f, u, count) /\ Part(Stores(ino, idx, count), f, u, count)
<1>1. /\ count \in Nat /\ Min(idx) \in idx /\ Max(idx) \in idx
      /\ \A n \in 1 .. count : Min(idx) + n - 1 \in idx
  BY WriteSpan
<1>2. \A b \in Blocks : b \in Int
  BY DEF Blocks
<1>3. ASSUME NEW b \in Int, NEW k \in Nat
      PROVE  Part(<<Fetch(b, k)>>, f, u, count)
  <2> DEFINE q == <<Fetch(b, k)>>
  <2>1. Fetch(b, k) \in Jobs /\ Fetch(b, k).do = "fetch"
    BY JobKinds
  <2>2. q \in Seq(Jobs) /\ Len(q) = 1 /\ q[1] = Fetch(b, k)
    BY <2>1
  <2> HIDE DEF q
  <2>3. \A j \in 1 .. Len(q) : q[j].do = "fetch"
    BY <2>1, <2>2
  <2>4. \A j \in 1 .. Len(q) : Harmless(q[j], f, u, count) /\ q[j].do # "bits"
    BY <2>3 DEF Harmless
  <2>5. Part(q, f, u, count)
    BY <2>2, <2>4, PlainPart
  <2> QED
    BY <2>5 DEF q
<1>4. Part(<<>>, f, u, count)
  <2> DEFINE q == <<>>
  <2>1. q \in Seq(Jobs) /\ Len(q) = 0
    OBVIOUS
  <2> HIDE DEF q
  <2>2. \A j \in 1 .. Len(q) : Harmless(q[j], f, u, count) /\ q[j].do # "bits"
    BY <2>1
  <2>3. Part(q, f, u, count)
    BY <2>1, <2>2, PlainPart
  <2> QED
    BY <2>3 DEF q
<1>5. Part(Fetched(old, ino, idx, count), f, u, count)
  <2>1. ino.ptrs[Min(idx)] \in Int /\ ino.ptrs[Max(idx)] \in Int
    BY <1>1, <1>2
  <2>2. Part(IF old > 0 THEN <<Fetch(ino.ptrs[Min(idx)], 1)>> ELSE <<>>, f, u, count)
    <3>1. Part(<<Fetch(ino.ptrs[Min(idx)], 1)>>, f, u, count)
      BY <1>3, <2>1
    <3> QED
      BY <1>4, <3>1
  <2>3. Part(IF old > 1 THEN <<Fetch(ino.ptrs[Max(idx)], count)>> ELSE <<>>, f, u, count)
    <3>1. Part(<<Fetch(ino.ptrs[Max(idx)], count)>>, f, u, count)
      BY <1>1, <1>3, <2>1
    <3> QED
      BY <1>4, <3>1
  <2> QED
    BY <2>2, <2>3, Parts DEF Fetched
<1>6. Part(Stores(ino, idx, count), f, u, count)
  <2> DEFINE q == Stores(ino, idx, count)
  <2>1. \A n \in 1 .. count : /\ ino.ptrs[Min(idx) + n - 1] \in Blocks
                              /\ f[ino.ptrs[Min(idx) + n - 1]].kind = "data"
                              /\ ino.ptrs[Min(idx) + n - 1] \in Int /\ n \in Nat
    BY <1>1, <1>2
  <2>2. \A n \in 1 .. count : LET a == Store(ino.ptrs[Min(idx) + n - 1], n) IN
           /\ a \in Jobs /\ a.do = "store" /\ a.lba = ino.ptrs[Min(idx) + n - 1] /\ a.slot = n
    BY <2>1, JobKinds
  <2>3. \A n \in 1 .. count : LET a == Store(ino.ptrs[Min(idx) + n - 1], n) IN
           a \in Jobs /\ Harmless(a, f, u, count) /\ a.do # "bits"
    BY <2>1, <2>2 DEF Harmless
  <2>4. q \in [1 .. count -> Jobs]
    BY <2>3 DEF Stores
  <2>5. q \in Seq(Jobs) /\ Len(q) = count
    BY <1>1, <2>4
  <2>6. \A n \in 1 .. count : q[n] = Store(ino.ptrs[Min(idx) + n - 1], n)
    BY DEF Stores
  <2> HIDE DEF q
  <2>7. \A n \in 1 .. Len(q) : Harmless(q[n], f, u, count) /\ q[n].do # "bits"
    BY <2>3, <2>5, <2>6
  <2>8. Part(q, f, u, count)
    BY <2>5, <2>7, PlainPart
  <2> QED
    BY <2>8 DEF q
<1> QED
  BY <1>5, <1>6

\* What fs_write does once its blocks are reserved: the inode, and then nothing that disturbs
\* the shadow that this leads to.
LEMMA StoreQueued ==
    ASSUME NEW d, NEW e, NEW m, NEW bm, NEW ow, Backed(d, e, m, bm, ow), Clean(d, e, m, ow),
           NEW r, r.inum \in LiveIn(e, m), e[r.inum].type = "file",
           r.call.offset \in Nat, r.call.len \in Nat \ {0}, r.call.now \in Times, r.call.offset <= e[r.inum].size,
           NEW need, need = BlocksNeeded(e[r.inum].size, r.call.offset, r.call.len),
           NEW fresh \in [1 .. need -> Blocks \ m], \A j, k \in 1 .. need : fresh[j] = fresh[k] => j = k,
           Range(fresh) \subseteq bm, Range(fresh) \subseteq d[BitmapBlock].used,
           NEW count, count = Cardinality(WriteIdx(r.call.offset, r.call.len))
    PROVE  /\ Queued(StoreEffects(r, e[r.inum], fresh), d, bm, ow, count)
           /\ Plan1(StoreEffects(r, e[r.inum], fresh), d, bm, ow, count)
<1> DEFINE i == r.inum
           from == r.call.offset
           len == r.call.len
           now == r.call.now
           ino == Grown(e[i], fresh, from + len, now)
           idx == WriteIdx(from, len)
           old == BlocksFor(e[i].size)
           a == Put(i, ino)
           F1 == IF old > 0 THEN <<Fetch(ino.ptrs[Min(idx)], 1)>> ELSE <<>>
           F2 == IF old > 1 THEN <<Fetch(ino.ptrs[Max(idx)], count)>> ELSE <<>>
           S == Stores(ino, idx, count)
           A == AdjustFree(- need)
           u == (m \ DataBlocks(e[i])) \cup DataBlocks(ino)
<1>1. i \in LiveIn(e, m) /\ e[i].type = "file" /\ from <= e[i].size
  OBVIOUS
<1>2. need = BlocksNeeded(e[i].size, from, len)
  OBVIOUS
<1>3. StoreEffects(r, e[r.inum], fresh) = (((<<a>> \o F1) \o F2) \o S) \o A
  BY DEF StoreEffects, Stores
<1> HIDE DEF i
<1>4. /\ Shadow(d, e, m) /\ m \subseteq bm \cup ow /\ m \subseteq d[BitmapBlock].used \cup ow
      /\ Held(d, bm, ow) /\ m \subseteq Blocks
  BY BackedFacts
<1>5. Sound(e, m)
  BY <1>4, ShadowFacts
<1>6. Fetched(old, ino, idx, count) = F1 \o F2
  BY DEF Fetched
<1>7. Outgrown(e, m, i, ino, fresh, idx, need)
  <2> HIDE DEF ino, idx, F1, F2, S, A, a, u, old
  <2>1. ino = Grown(e[i], fresh, from + len, now)
    BY DEF ino
  <2>2. idx = WriteIdx(from, len)
    BY DEF idx
  <2>3. from \in Nat /\ len \in Nat \ {0} /\ now \in Times /\ from <= e[i].size
    BY <1>1
  <2> HIDE DEF from, len, now
  <2>4. Outgrown(e, m, i, ino, fresh, WriteIdx(from, len), need)
    BY <1>5, <1>1, <1>2, <2>1, <2>3, GrownFits
  <2> QED
    BY <2>2, <2>4
<1> HIDE DEF ino
<1>8. /\ Fits(e, m, i, ino) /\ need \in Int /\ u = m \cup Range(fresh) /\ Range(fresh) \subseteq Blocks
      /\ \A k \in idx : ino.ptrs[k] \in DataBlocks(ino)
  BY <1>7 DEF Outgrown
<1>9. u \subseteq bm \cup ow /\ u \subseteq d[BitmapBlock].used \cup ow
  BY <1>4, <1>8
<1>10. LeadsTo(a, d, u, bm, ow, ino)
  <2>1. Refits(d, e, m, bm, ow, i, ino, u)
    BY <1>8, <1>9 DEF Refits
  <2> HIDE DEF u, F1, F2, S, A, idx, old
  <2> QED
    BY <1>1, <2>1, FilePut
<1>11. /\ a \in Jobs /\ a.do = "put" /\ a.lba # SuperBlock /\ ow \cup a.links = ow
      /\ \E f : /\ Backed(Written(d, a), f, u, bm, ow) /\ Clean(Written(d, a), f, u, ow)
                /\ \A b \in DataBlocks(ino) : f[b].kind = "data"
  BY <1>10 DEF LeadsTo, Filed
<1>12. PICK f : /\ Backed(Written(d, a), f, u, bm, ow) /\ Clean(Written(d, a), f, u, ow)
                /\ \A b \in DataBlocks(ino) : f[b].kind = "data"
  BY <1>11
<1>13. \A b \in DataBlocks(ino) : b \in Blocks /\ f[b].kind = "data"
  BY <1>8, <1>12 DEF Fits
<1>14. Part(F1 \o F2, f, u, count) /\ Part(S, f, u, count)
  <2>1. from \in Nat /\ len \in Nat \ {0} /\ idx = WriteIdx(from, len)
    OBVIOUS
  <2>2. count = Cardinality(idx)
    OBVIOUS
  <2> HIDE DEF idx, from, len, F1, F2, S, A, u, a, old
  <2>3. Part(Fetched(old, ino, idx, count), f, u, count) /\ Part(Stores(ino, idx, count), f, u, count)
    BY <1>8, <1>13, <2>1, <2>2, StoresPart
  <2> QED
    BY <1>6, <2>3 DEF S
<1>15. Part(A, f, u, count)
  <2>1. - need \in Int
    BY <1>8
  <2> QED
    BY <2>1, AdjustPart
<1>16. F1 \in Seq(Jobs) /\ F2 \in Seq(Jobs)
  <2>1. \A b \in Blocks : b \in Int
    BY DEF Blocks
  <2>2. count \in Nat /\ Min(idx) \in idx /\ Max(idx) \in idx
    BY WriteSpan
  <2>3. ino.ptrs[Min(idx)] \in Int /\ ino.ptrs[Max(idx)] \in Int
    BY <1>8, <1>13, <2>1, <2>2
  <2>4. Fetch(ino.ptrs[Min(idx)], 1) \in Jobs /\ Fetch(ino.ptrs[Max(idx)], count) \in Jobs
    BY <2>2, <2>3, JobKinds
  <2> QED
    BY <2>4
<1> HIDE DEF a, F1, F2, S, A, u, idx, old
<1>17. (((<<a>> \o F1) \o F2) \o S) \o A = <<a>> \o (((F1 \o F2) \o S) \o A)
  <2>1. <<a>> \in Seq(Jobs) /\ S \in Seq(Jobs) /\ A \in Seq(Jobs)
    BY <1>11, <1>14, <1>15 DEF Part
  <2>2. (<<a>> \o F1) \o F2 = <<a>> \o (F1 \o F2)
    BY <1>16, <2>1, ConcatAssociative
  <2> DEFINE x == F1 \o F2
             y == x \o S
  <2>3. x \in Seq(Jobs)
    BY <1>16
  <2> HIDE DEF x
  <2>4. (<<a>> \o x) \o S = <<a>> \o (x \o S)
    BY <2>1, <2>3, ConcatAssociative
  <2>5. y \in Seq(Jobs)
    BY <2>1, <2>3
  <2> HIDE DEF y
  <2>6. (<<a>> \o y) \o A = <<a>> \o (y \o A)
    BY <2>1, <2>5, ConcatAssociative
  <2> QED
    BY <2>2, <2>4, <2>6 DEF x, y
<1>18. Part(((F1 \o F2) \o S) \o A, f, u, count)
  BY <1>14, <1>15, Parts
<1> HIDE DEF from, len, now
<1>19. /\ Queued(<<a>> \o (((F1 \o F2) \o S) \o A), d, bm, ow, count)
       /\ Plan1(<<a>> \o (((F1 \o F2) \o S) \o A), d, bm, ow, count)
  <2> DEFINE q == ((F1 \o F2) \o S) \o A
  <2>1. Part(q, f, u, count)
    BY <1>18
  <2> HIDE DEF q
  <2>2. Tidies(q, Written(d, a), f, u, bm, ow)
    BY <1>12, CleanTidies
  <2>4. /\ Backed(Written(d, a), f, u, bm, ow \cup a.links) /\ Held(d, bm, ow)
        /\ Tidies(q, Written(d, a), f, u, bm, ow \cup a.links)
    BY <1>4, <1>11, <1>12, <2>2
  <2>5. a \in Jobs /\ a.do = "put" /\ a.lba # SuperBlock
    BY <1>11
  <2> HIDE DEF a, u
  <2>3. Queued(<<a>> \o q, d, bm, ow, count) /\ Plan1(<<a>> \o q, d, bm, ow, count)
    BY <2>1, <2>4, <2>5, OnePut
  <2> QED
    BY <2>3 DEF q
<1> QED
  BY <1>17, <1>19, <1>3

\* What fs_write has to do.
LEMMA WriteQueued ==
    ASSUME NEW d, NEW e, NEW m, NEW bm \in SUBSET Blocks, NEW ow, Backed(d, e, m, bm, ow), Clean(d, e, m, ow),
           NEW r, r.inum \in LiveIn(e, m), e[r.inum].type = "file",
           r.call.offset \in Nat, r.call.len \in Nat \ {0}, r.call.now \in Times, r.call.offset <= e[r.inum].size,
           NEW fresh \in FirstFree(bm, BlocksNeeded(e[r.inum].size, r.call.offset, r.call.len)), Range(fresh) \cap ow = {},
           NEW count, count = Cardinality(WriteIdx(r.call.offset, r.call.len))
    PROVE  Queued(WriteEffects(r, e[r.inum], fresh), d, bm, ow, count)
<1> DEFINE need == BlocksNeeded(e[r.inum].size, r.call.offset, r.call.len)
           T == StoreEffects(r, e[r.inum], fresh)
           used == bm \cup Range(fresh)
           d1 == Saved(d, used)
           o1 == ow \ used
<1>1. /\ Shadow(d, e, m) /\ m \subseteq bm \cup ow /\ m \subseteq d[BitmapBlock].used \cup ow
      /\ Held(d, bm, ow) /\ m \subseteq Blocks /\ d \in [Blocks -> Content]
  BY BackedFacts
<1>2. need \in Int
  <2>1. e[r.inum].size \in Nat
    BY <1>1, ShadowFacts DEF Inode
  <2> QED
    BY <2>1, WriteSizes
<1>3. /\ fresh \in [1 .. need -> Blocks \ bm]
      /\ \A j, k \in 1 .. need : fresh[j] = fresh[k] => j = k
  BY <1>2, FirstFreeProperty
<1> HIDE DEF need
<1>4. fresh \in [1 .. need -> Blocks \ m]
  <2>1. \A k \in 1 .. need : fresh[k] \in Range(fresh)
    BY <1>3 DEF Range
  <2>2. \A k \in 1 .. need : fresh[k] \in Blocks \ m
    BY <1>1, <1>3, <2>1
  <2> QED
    BY <1>3, <2>2
<1>5. need = BlocksNeeded(e[r.inum].size, r.call.offset, r.call.len)
  BY DEF need
<1>6. CASE fresh = <<>>
  <2>1. Range(fresh) = {}
    BY <1>6 DEF Range
  <2> HIDE DEF T, used, d1, o1
  <2>2. Queued(StoreEffects(r, e[r.inum], fresh), d, bm, ow, count)
    BY <1>3, <1>4, <1>5, <2>1, StoreQueued
  <2>3. WriteEffects(r, e[r.inum], fresh) = <<>> \o StoreEffects(r, e[r.inum], fresh)
    BY <1>6 DEF WriteEffects, Reserve
  <2>4. StoreEffects(r, e[r.inum], fresh) \in Seq(Jobs)
    BY <2>2 DEF Queued
  <2>5. <<>> \o StoreEffects(r, e[r.inum], fresh) = StoreEffects(r, e[r.inum], fresh)
    BY <2>4
  <2> QED
    BY <2>2, <2>3, <2>5
<1>7. CASE fresh # <<>>
  <2> DEFINE a == Load
             b == Bits(fresh, TRUE)
             c == Save
  <2>1. Range(fresh) \subseteq Blocks
    BY <1>3 DEF Range
  <2>2. /\ a \in Jobs /\ a.do = "load" /\ c \in Jobs /\ c.do = "save"
        /\ b \in Jobs /\ b.do = "bits" /\ b.flag /\ b.blocks = Range(fresh)
    <3>1. b \in Jobs /\ b.do = "bits" /\ b.blocks = Range(fresh)
      BY <2>1, BitsJob
    <3>2. b.flag
      BY DEF Bits
    <3> QED
      BY <3>1, <3>2, JobKinds
  <2>3. used \in SUBSET Blocks
    BY <2>1
  <2>4. Backed(d, e, m, used, ow)
    BY <1>1 DEF Backed
  <2>5. Backed(d1, e, m, used, o1)
    <3> HIDE DEF used
    <3> QED
      BY <2>3, <2>4, SavedBacked
  <2>21. Clean(d1, e, m, o1)
    <3> HIDE DEF used
    <3>1. Whole(d, e, m) => Whole(d1, e, m)
      BY <2>4, WholeLeft
    <3>2. Reliable => o1 = {}
      BY DEF Clean, used
    <3> QED
      BY <3>1, <3>2 DEF Clean
  <2>6. d1[BitmapBlock].used = used
    <3>1. BitmapBlock \in Blocks
      BY <1>1, BackedFacts
    <3> QED
      BY <1>1, <3>1 DEF Saved
  <2>7. Range(fresh) \subseteq used
    OBVIOUS
  <2> HIDE DEF used, d1, o1
  <2>8. Queued(T, d1, used, o1, count) /\ Plan1(T, d1, used, o1, count)
    BY <1>3, <1>4, <1>5, <2>5, <2>6, <2>7, <2>21, StoreQueued
  <2>9. T \in Seq(Jobs) /\ Opens(T)
    BY <2>8 DEF Queued
  <2> HIDE DEF T, a, b, c
  <2>10. WriteEffects(r, e[r.inum], fresh) = <<a, b, c>> \o T
    BY <1>7 DEF WriteEffects, Reserve, ModifyBitmap, T, a, b, c
  <2>11. <<a, b, c>> \o T = <<a>> \o (<<b>> \o (<<c>> \o T))
    BY <2>2, <2>9, ThreeAhead, SMTT(60)
  <2> DEFINE C == <<c>> \o T
             B == <<b>> \o C
  <2>12. C \in Seq(Jobs) /\ C # <<>> /\ Head(C) = c /\ Tail(C) = T
    BY <2>2, <2>9, OneAhead
  <2> HIDE DEF C
  <2>13. B \in Seq(Jobs) /\ B # <<>> /\ Head(B) = b /\ Tail(B) = C
    BY <2>2, <2>12, OneAhead
  <2> HIDE DEF B
  <2>14. /\ <<a>> \o B \in Seq(Jobs) /\ <<a>> \o B # <<>>
         /\ Head(<<a>> \o B) = a /\ Tail(<<a>> \o B) = B
    BY <2>2, <2>13, OneAhead
  <2>15. Held(d, used, ow)
    BY <2>4, BackedFacts
  <2>16. Saving(C, d, used, ow, count)
    BY <2>2, <2>8, <2>12, <2>15 DEF Saving, d1, o1
  <2>17. Setting(B, d, bm, ow, count)
    BY <1>1, <2>2, <2>13, <2>16 DEF Setting, used
  <2>18. Loading(<<a>> \o B, d, bm, ow, count)
    BY <1>1, <2>2, <2>14, <2>17 DEF Loading
  <2>19. Opens(<<a>> \o B)
    <3> DEFINE q == <<a>> \o B
    <3>1. /\ Opens(C)
      BY <2>2, <2>9, OneAhead DEF C
    <3>2. /\ C \in Seq(Jobs) /\ B \in Seq(Jobs) /\ Len(B) = Len(C) + 1 /\ B[1] = b /\ \A k \in 1 .. Len(C) : B[k + 1] = C[k]
      BY <2>2, <2>12 DEF B
    <3>3. Len(q) = Len(B) + 1 /\ q[1] = a /\ \A k \in 1 .. Len(B) : q[k + 1] = B[k]
      BY <2>2, <2>13
    <3>4. C[1] = c
      BY <2>2, <2>9 DEF C
    <3> HIDE DEF q
    <3>5. ASSUME NEW k \in 1 .. Len(q), q[k].do = "bits" PROVE k > 1 /\ q[k - 1].do = "load"
      <4>1. CASE k = 1
        BY <2>2, <3>3, <3>5, <4>1
      <4>2. CASE k = 2
        BY <2>2, <3>3, <4>2
      <4>3. CASE k > 2
        <5>0. Len(C) \in Nat /\ Len(B) \in Nat
          BY <3>2
        <5>1. k - 2 \in 1 .. Len(C) /\ k - 1 \in 1 .. Len(B)
          BY <3>2, <3>3, <4>3, <5>0
        <5>2. q[k] = C[k - 2]
          <6>1. q[(k - 1) + 1] = B[k - 1] /\ B[(k - 2) + 1] = C[k - 2]
            BY <3>2, <3>3, <5>1
          <6>2. (k - 1) + 1 = k /\ (k - 2) + 1 = k - 1
            BY <4>3
          <6> QED
            BY <6>1, <6>2
        <5>3. k - 2 > 1 /\ C[(k - 2) - 1].do = "load"
          BY <3>1, <3>5, <5>1, <5>2 DEF Opens
        <5>4. q[k - 1] = C[(k - 2) - 1]
          <6>1. (k - 2) - 1 \in 1 .. Len(C) /\ k - 2 \in 1 .. Len(B)
            BY <5>0, <5>1, <5>3, <3>2
          <6>2. q[(k - 2) + 1] = B[k - 2] /\ B[((k - 2) - 1) + 1] = C[(k - 2) - 1]
            BY <3>2, <3>3, <6>1
          <6>3. (k - 2) + 1 = k - 1 /\ ((k - 2) - 1) + 1 = k - 2
            BY <4>3
          <6> QED
            BY <6>2, <6>3
        <5> QED
          BY <4>3, <5>3, <5>4
      <4> QED
        BY <4>1, <4>2, <4>3
    <3> QED
      BY <3>5 DEF Opens, q
  <2>20. Queued(<<a>> \o B, d, bm, ow, count)
    BY <2>14, <2>18, <2>19 DEF Queued, Planned
  <2> QED
    BY <2>10, <2>11, <2>20 DEF B, C
<1> QED
  BY <1>6, <1>7

-----------------------------------------------------------------------------
(* Queues that leave the bitmap on the disk                                *)

\* A queue that puts no bitmap anywhere, that saves the bitmap after all changes, or that does
\* not change it.
Plain(q) == \A k \in 1 .. Len(q) : q[k].do = "put" => q[k].content.kind # "bitmap"
Saves(q) == \E k \in 1 .. Len(q) : q[k].do = "save" /\ \A j \in 1 .. Len(q) : q[j].do = "bits" => j < k
Calms(q) == \A k \in 1 .. Len(q) : q[k].do # "bits"

\* When it is worked off, the bitmap is on the disk.
Settles(q, d, bm) == Plain(q) /\ (Saves(q) \/ (bm = d[BitmapBlock].used /\ Calms(q)))

\* A queue in two parts.
LEMMA SavesLast ==
    ASSUME NEW S, NEW p \in Seq(S), NEW q \in Seq(S), Plain(p), Plain(q)
    PROVE  /\ p \o q \in Seq(S) /\ Plain(p \o q)
           /\ Saves(q) => Saves(p \o q)
           /\ Saves(p) /\ Calms(q) => Saves(p \o q)
           /\ Calms(p) /\ Calms(q) => Calms(p \o q)
<1> DEFINE w == p \o q
<1>1. /\ w \in Seq(S)
      /\ Len(p) \in Nat /\ Len(q) \in Nat /\ Len(w) = Len(p) + Len(q)
      /\ \A k \in 1 .. Len(p) : w[k] = p[k]
      /\ \A k \in 1 .. Len(q) : w[Len(p) + k] = q[k]
  OBVIOUS
<1> HIDE DEF w
<1>2. \A k \in 1 .. Len(w) : \/ k \in 1 .. Len(p) /\ w[k] = p[k]
                             \/ /\ k > Len(p) /\ k - Len(p) \in 1 .. Len(q)
                                /\ w[k] = q[k - Len(p)]
  <2> SUFFICES ASSUME NEW k \in 1 .. Len(w)
               PROVE  \/ k \in 1 .. Len(p) /\ w[k] = p[k]
                      \/ k > Len(p) /\ k - Len(p) \in 1 .. Len(q) /\ w[k] = q[k - Len(p)]
    OBVIOUS
  <2>1. CASE k <= Len(p)
    BY <1>1, <2>1
  <2>2. CASE k > Len(p)
    <3>1. k - Len(p) \in 1 .. Len(q) /\ Len(p) + (k - Len(p)) = k
      BY <1>1, <2>2
    <3> QED
      BY <1>1, <2>2, <3>1
  <2> QED
    BY <1>1, <2>1, <2>2
<1>3. Plain(w)
  BY <1>2 DEF Plain
<1>4. ASSUME Saves(q) PROVE Saves(w)
  <2>1. PICK k \in 1 .. Len(q) : q[k].do = "save" /\ \A j \in 1 .. Len(q) : q[j].do = "bits" => j < k
    BY <1>4 DEF Saves
  <2>2. Len(p) + k \in 1 .. Len(w) /\ w[Len(p) + k].do = "save"
    BY <1>1, <2>1
  <2>3. ASSUME NEW j \in 1 .. Len(w), w[j].do = "bits" PROVE j < Len(p) + k
    <3>1. CASE j \in 1 .. Len(p)
      BY <1>1, <3>1
    <3>2. CASE j > Len(p) /\ j - Len(p) \in 1 .. Len(q) /\ w[j] = q[j - Len(p)]
      <4>1. j - Len(p) < k
        BY <2>1, <2>3, <3>2
      <4> QED
        BY <1>1, <4>1
    <3> QED
      BY <1>2, <3>1, <3>2
  <2> QED
    BY <2>2, <2>3 DEF Saves
<1>5. ASSUME Saves(p), Calms(q) PROVE Saves(w)
  <2>1. PICK k \in 1 .. Len(p) : p[k].do = "save" /\ \A j \in 1 .. Len(p) : p[j].do = "bits" => j < k
    BY <1>5 DEF Saves
  <2>2. k \in 1 .. Len(w) /\ w[k].do = "save"
    BY <1>1, <2>1
  <2>3. ASSUME NEW j \in 1 .. Len(w), w[j].do = "bits" PROVE j < k
    BY <1>2, <1>5, <2>1, <2>3 DEF Calms
  <2> QED
    BY <2>2, <2>3 DEF Saves
<1>6. Calms(p) /\ Calms(q) => Calms(w)
  BY <1>2 DEF Calms
<1> QED
  BY <1>1, <1>3, <1>4, <1>5, <1>6 DEF w

\* The parts that all of these handlers end with.
LEMMA BitmapSaves ==
    ASSUME NEW S, NEW blocks, NEW flag, NEW n, {Load, Save, Bits(blocks, flag), Count(n)} \subseteq S
    PROVE  /\ ModifyBitmap(blocks, flag) \in Seq(S) /\ AdjustFree(n) \in Seq(S)
           /\ Plain(ModifyBitmap(blocks, flag)) /\ Saves(ModifyBitmap(blocks, flag))
           /\ Plain(AdjustFree(n)) /\ Calms(AdjustFree(n))
<1> DEFINE x == Load  y == Bits(blocks, flag)  z == Save  c == Count(n)
<1>1. /\ x.do = "load" /\ y.do = "bits" /\ z.do = "save" /\ c.do = "count"
  BY DEF Load, Bits, Save, Count
<1>2. ModifyBitmap(blocks, flag) = <<x, y, z>> /\ AdjustFree(n) = <<x, c>>
  BY DEF ModifyBitmap, AdjustFree
<1> HIDE DEF x, y, z, c
<1>3. <<x, y, z>> \in Seq(S) /\ <<x, c>> \in Seq(S)
  BY DEF x, y, z, c
<1>4. /\ Len(<<x, y, z>>) = 3 /\ <<x, y, z>>[1] = x /\ <<x, y, z>>[2] = y /\ <<x, y, z>>[3] = z
      /\ Len(<<x, c>>) = 2 /\ <<x, c>>[1] = x /\ <<x, c>>[2] = c
  OBVIOUS
<1>5. /\ \A k \in 1 .. 3 : k = 1 \/ k = 2 \/ k = 3
      /\ \A k \in 1 .. 2 : k = 1 \/ k = 2
      /\ 3 \in 1 .. 3 /\ 2 < 3
  OBVIOUS
<1>6. Plain(<<x, y, z>>) /\ Plain(<<x, c>>) /\ Calms(<<x, c>>)
  BY <1>1, <1>4, <1>5 DEF Plain, Calms
<1>7. Saves(<<x, y, z>>)
  BY <1>1, <1>4, <1>5 DEF Saves
<1> QED
  BY <1>2, <1>3, <1>6, <1>7

\* fs_create and fs_mkdir save the bitmap last.
LEMMA CreateSaves ==
    ASSUME NEW r, NEW entries, NEW new
    PROVE  Plain(CreateEffects(r, entries, new)) /\ Saves(CreateEffects(r, entries, new))
<1> DEFINE dir == r.call.op = "mkdir"
           slot == Min({s \in Slots : entries[s] = NoEntry})
           inode == NewInode(IF dir THEN "dir" ELSE "file", r.call.perm, r.call.now,
                             IF dir THEN new[2] ELSE 0)
           entry == [name |-> Leaf(r.call.path), inode |-> new[1]]
           a == Put(new[1], inode)
           b == PutDir(r.ino.ptrs[0], [entries EXCEPT ![slot] = entry], Range(new))
           c == Put(new[2], EmptyDir)
           z == IF dir THEN <<c>> ELSE <<>>
           x == AdjustFree(- Len(new))
           y == ModifyBitmap(new, TRUE)
           S == {a, b, c, Load, Save, Bits(new, TRUE), Count(- Len(new))}
<1>1. CreateEffects(r, entries, new) = ((<<a, b>> \o z) \o x) \o y
  BY DEF CreateEffects
<1>2. /\ a.do = "put" /\ a.content.kind = "inode" /\ b.do = "put" /\ b.content.kind = "dir"
      /\ c.do = "put" /\ c.content.kind = "dir"
  BY DEF Put, PutDir, NewInode, EmptyDir
<1>3. /\ x \in Seq(S) /\ y \in Seq(S) /\ Plain(x) /\ Plain(y) /\ Saves(y)
  BY BitmapSaves
<1>4. a \in S /\ b \in S /\ c \in S
  OBVIOUS
<1> HIDE DEF a, b, c, x, y, S, dir
<1>5. <<a, b>> \in Seq(S) /\ z \in Seq(S)
  BY <1>4
<1>6. Plain(<<a, b>>)
  <2>1. Len(<<a, b>>) = 2 /\ <<a, b>>[1] = a /\ <<a, b>>[2] = b /\ \A k \in 1 .. 2 : k = 1 \/ k = 2
    OBVIOUS
  <2> QED
    BY <1>2, <2>1 DEF Plain
<1>7. Plain(z)
  <2>1. Len(<<c>>) = 1 /\ <<c>>[1] = c /\ (\A k \in 1 .. 1 : k = 1) /\ Len(<<>>) = 0 /\ 1 .. 0 = {}
    OBVIOUS
  <2> QED
    BY <1>2, <2>1 DEF Plain
<1> HIDE DEF z
<1>8. <<a, b>> \o z \in Seq(S) /\ Plain(<<a, b>> \o z)
  BY <1>5, <1>6, <1>7, SavesLast, Zenon
<1>9. (<<a, b>> \o z) \o x \in Seq(S) /\ Plain((<<a, b>> \o z) \o x)
  BY <1>3, <1>8, SavesLast, Zenon
<1> QED
  BY <1>1, <1>3, <1>9, SavesLast, Zenon

\* A put, then the bitmap, then the counters: fs_unlink, fs_rmdir and fs_truncate.
LEMMA PutSaves ==
    ASSUME NEW a, a.do = "put", a.content.kind # "bitmap", NEW blocks, NEW n
    PROVE  LET q == (<<a>> \o ModifyBitmap(blocks, FALSE)) \o AdjustFree(n) IN Plain(q) /\ Saves(q)
<1> DEFINE x == AdjustFree(n)
           y == ModifyBitmap(blocks, FALSE)
           S == {a, Load, Save, Bits(blocks, FALSE), Count(n)}
<1>1. x \in Seq(S) /\ y \in Seq(S) /\ Plain(x) /\ Plain(y) /\ Saves(y) /\ Calms(x)
  BY BitmapSaves
<1> HIDE DEF x, y
<1>2. <<a>> \in Seq(S) /\ Plain(<<a>>)
  <2>1. Len(<<a>>) = 1 /\ <<a>>[1] = a /\ \A k \in 1 .. 1 : k = 1
    OBVIOUS
  <2> QED
    BY <2>1 DEF Plain
<1> HIDE DEF S
<1>3. <<a>> \o y \in Seq(S) /\ Plain(<<a>> \o y) /\ Saves(<<a>> \o y)
  BY <1>1, <1>2, SavesLast, Zenon
<1>4. Plain((<<a>> \o y) \o x) /\ Saves((<<a>> \o y) \o x)
  BY <1>1, <1>3, SavesLast, Zenon
<1> QED
  BY <1>4 DEF x, y

\* They save it after the bits.
LEMMA RemoveSaves ==
    ASSUME NEW r, NEW entries, NEW slot
    PROVE  Plain(RemoveEffects(r, entries, slot)) /\ Saves(RemoveEffects(r, entries, slot))
<1> DEFINE a == PutDir(r.ino.ptrs[0], [entries EXCEPT ![slot] = NoEntry], {})
<1>1. a.do = "put" /\ a.content.kind # "bitmap"
  BY DEF PutDir
<1> HIDE DEF a
<1>2. RemoveEffects(r, entries, slot) = (<<a>> \o ModifyBitmap(r.blocks, FALSE)) \o AdjustFree(Len(r.blocks))
  BY DEF RemoveEffects, a
<1> QED
  BY <1>1, <1>2, PutSaves

\* The same of fs_truncate.
LEMMA TruncateSaves ==
    ASSUME NEW r, NEW ino \in Inode
    PROVE  Plain(TruncateEffects(r, ino)) /\ Saves(TruncateEffects(r, ino))
<1> DEFINE a == Put(r.inum, Shortened(ino, r.call.len))
           removed == [n \in 1 .. BlocksFor(ino.size) - BlocksFor(r.call.len) |->
                          ino.ptrs[BlocksFor(r.call.len) + n - 1]]
<1>1. a.do = "put" /\ a.content.kind # "bitmap"
  <2>1. Shortened(ino, r.call.len).kind = "inode"
    BY DEF Shortened, Inode
  <2> QED
    BY <2>1 DEF Put
<1>2. TruncateEffects(r, ino) = (<<a>> \o ModifyBitmap(removed, FALSE)) \o AdjustFree(Len(removed))
  BY DEF TruncateEffects
<1> HIDE DEF a, removed
<1> QED
  BY <1>1, <1>2, PutSaves

\* What fs_write does after it has reserved its blocks leaves the bitmap alone.
LEMMA StoreCalms ==
    ASSUME NEW r, NEW ino \in Inode, NEW fresh, r.call.offset \in Nat, r.call.len \in Nat \ {0}
    PROVE  LET T == StoreEffects(r, ino, fresh) IN Plain(T) /\ Calms(T) /\ \E S : T \in Seq(S)
<1> DEFINE inode == Grown(ino, fresh, r.call.offset + r.call.len, r.call.now)
           idx   == WriteIdx(r.call.offset, r.call.len)
           count == Cardinality(idx)
           old   == BlocksFor(ino.size)
           n     == - BlocksNeeded(ino.size, r.call.offset, r.call.len)
           a     == Put(r.inum, inode)
           f     == Fetch(inode.ptrs[Min(idx)], 1)
           g     == Fetch(inode.ptrs[Max(idx)], count)
           F     == IF old > 0 THEN <<f>> ELSE <<>>
           G     == IF old > 1 THEN <<g>> ELSE <<>>
           job(k) == Store(inode.ptrs[Min(idx) + k - 1], k)
           W     == [k \in 1 .. count |-> job(k)]
           x     == AdjustFree(n)
           S     == {a, f, g, Load, Save, Bits(<<>>, TRUE), Count(n)} \cup {job(k) : k \in 1 .. count}
<1>1. StoreEffects(r, ino, fresh) = (((<<a>> \o F) \o G) \o W) \o x
  BY DEF StoreEffects
<1>2. count \in Nat
  BY WriteSpan
<1>3. /\ a.do = "put" /\ a.content.kind = "inode" /\ f.do = "fetch" /\ g.do = "fetch"
      /\ \A k \in 1 .. count : job(k).do = "store"
  <2>1. inode.kind = "inode"
    BY DEF Grown, Inode
  <2> HIDE DEF inode
  <2>2. a.do = "put" /\ a.content = inode
    BY DEF Put
  <2> QED
    BY <2>1, <2>2 DEF Fetch, Store
<1>4. x \in Seq(S) /\ Plain(x) /\ Calms(x)
  <2>1. {Load, Save, Bits(<<>>, TRUE), Count(n)} \subseteq S
    OBVIOUS
  <2> HIDE DEF S, n
  <2> QED
    BY <2>1, BitmapSaves
<1>5. a \in S /\ f \in S /\ g \in S /\ \A k \in 1 .. count : job(k) \in S
  OBVIOUS
<1> HIDE DEF a, f, g, S, x, job, old, count
<1>6. <<a>> \in Seq(S) /\ F \in Seq(S) /\ G \in Seq(S) /\ <<f>> \in Seq(S) /\ <<g>> \in Seq(S)
  BY <1>5
<1>7. W \in Seq(S) /\ Len(W) = count /\ \A k \in 1 .. count : W[k] = job(k)
  BY <1>2, <1>5
<1> HIDE DEF W
<1>8. Plain(W) /\ Calms(W)
  BY <1>3, <1>7 DEF Plain, Calms
<1>9. ASSUME NEW b PROVE Len(<<b>>) = 1 /\ <<b>>[1] = b /\ \A k \in 1 .. 1 : k = 1
  OBVIOUS
<1>10. Plain(<<a>>) /\ Calms(<<a>>) /\ Plain(<<f>>) /\ Calms(<<f>>) /\ Plain(<<g>>) /\ Calms(<<g>>)
  BY <1>3, <1>9 DEF Plain, Calms
<1>11. Len(<<>>) = 0 /\ 1 .. 0 = {}
  OBVIOUS
<1>12. Plain(<<>>) /\ Calms(<<>>)
  BY <1>11 DEF Plain, Calms
<1>13. Plain(F) /\ Calms(F) /\ Plain(G) /\ Calms(G)
  BY <1>10, <1>12
<1> HIDE DEF F, G
<1>14. <<a>> \o F \in Seq(S) /\ Plain(<<a>> \o F) /\ Calms(<<a>> \o F)
  BY <1>6, <1>10, <1>13, SavesLast, Zenon
<1>15. (<<a>> \o F) \o G \in Seq(S) /\ Plain((<<a>> \o F) \o G) /\ Calms((<<a>> \o F) \o G)
  BY <1>6, <1>13, <1>14, SavesLast, Zenon
<1>16. /\ ((<<a>> \o F) \o G) \o W \in Seq(S)
       /\ Plain(((<<a>> \o F) \o G) \o W) /\ Calms(((<<a>> \o F) \o G) \o W)
  BY <1>7, <1>8, <1>15, SavesLast, Zenon
<1>17. /\ (((<<a>> \o F) \o G) \o W) \o x \in Seq(S)
       /\ Plain((((<<a>> \o F) \o G) \o W) \o x) /\ Calms((((<<a>> \o F) \o G) \o W) \o x)
  BY <1>4, <1>16, SavesLast, Zenon
<1> QED
  BY <1>1, <1>17

\* fs_write saves the bitmap after the bits, or leaves it alone.
LEMMA WriteSaves ==
    ASSUME NEW r, NEW ino \in Inode, NEW fresh, r.call.offset \in Nat, r.call.len \in Nat \ {0}
    PROVE  LET q == WriteEffects(r, ino, fresh) IN Plain(q) /\ (Saves(q) \/ Calms(q))
<1> DEFINE T == StoreEffects(r, ino, fresh)
           y == ModifyBitmap(fresh, TRUE)
<1>1. Plain(T) /\ Calms(T)
  BY StoreCalms
<1>2. PICK S : T \in Seq(S)
  BY StoreCalms
<1>3. WriteEffects(r, ino, fresh) = (IF fresh # <<>> THEN y ELSE <<>>) \o T
  BY DEF WriteEffects, Reserve
<1> HIDE DEF T
<1>4. CASE fresh = <<>>
  <2>1. <<>> \o T = T
    BY <1>2
  <2> QED
    BY <1>1, <1>3, <1>4, <2>1
<1>5. CASE fresh # <<>>
  <2> DEFINE U == S \cup {Load, Save, Bits(fresh, TRUE), Count(0)}
  <2>1. {Load, Save, Bits(fresh, TRUE), Count(0)} \subseteq U /\ S \subseteq U
    OBVIOUS
  <2> HIDE DEF U
  <2>2. y \in Seq(U) /\ Plain(y) /\ Saves(y)
    BY <2>1, BitmapSaves
  <2>3. T \in Seq(U)
    BY <1>2, <2>1
  <2> HIDE DEF y
  <2>4. Plain(y \o T) /\ Saves(y \o T)
    BY <1>1, <2>2, <2>3, SavesLast, Zenon
  <2> QED
    BY <1>3, <1>5, <2>4
<1> QED
  BY <1>4, <1>5

\* One job less: a write of the bitmap, a change of it, or anything else.
LEMMA SettlesTail ==
    ASSUME NEW q \in Seq(Jobs), q # <<>>, NEW d, NEW bm, Settles(q, d, bm), NEW e, NEW b,
           \/ Head(q).do = "save" /\ e[BitmapBlock].used = b
           \/ Head(q).do = "bits"
           \/ Head(q).do \notin {"save", "bits"} /\ b = bm /\ e[BitmapBlock] = d[BitmapBlock]
    PROVE  Settles(Tail(q), e, b)
<1> DEFINE w == Tail(q)
<1>1. /\ Head(q) = q[1] /\ w \in Seq(Jobs) /\ Len(q) \in Nat \ {0} /\ Len(w) = Len(q) - 1
      /\ \A k \in 1 .. Len(w) : k + 1 \in 1 .. Len(q) /\ w[k] = q[k + 1]
  BY QueueTail
<1> HIDE DEF w
<1>2. Plain(w)
  BY <1>1 DEF Settles, Plain
<1>3. Calms(q) => Calms(w)
  BY <1>1 DEF Calms
<1>4. 1 \in 1 .. Len(q)
  BY <1>1
<1>5. ASSUME Saves(q) PROVE Saves(w) \/ (Head(q).do = "save" /\ Calms(w))
  <2>1. PICK k \in 1 .. Len(q) : q[k].do = "save" /\ \A j \in 1 .. Len(q) : q[j].do = "bits" => j < k
    BY <1>5 DEF Saves
  <2>2. CASE k = 1
    BY <1>1, <2>1, <2>2 DEF Calms
  <2>3. CASE k # 1
    <3>1. k - 1 \in 1 .. Len(w) /\ (k - 1) + 1 = k
      BY <1>1, <2>3
    <3>2. w[k - 1].do = "save"
      BY <1>1, <2>1, <3>1
    <3>3. \A j \in 1 .. Len(w) : w[j].do = "bits" => j < k - 1
      BY <1>1, <2>1
    <3> QED
      BY <3>1, <3>2, <3>3 DEF Saves
  <2> QED
    BY <2>2, <2>3
<1>6. Head(q).do = "bits" => ~Calms(q)
  BY <1>1, <1>4 DEF Calms
<1>7. Saves(w) \/ (b = e[BitmapBlock].used /\ Calms(w))
  BY <1>3, <1>5, <1>6 DEF Settles
<1>8. Settles(w, e, b)
  BY <1>2, <1>7 DEF Settles
<1> QED
  BY <1>8 DEF w

-----------------------------------------------------------------------------
(* Queues that change what is found at the call's own paths only           *)

HasShadow(d) == \E e, m : Shadow(d, e, m)

\* Block b is free, or of a file at a path of the call's own.
Mine(e, m, own, b) ==
    b \in m => \E P \in own \cap Seq(Names) :
                  /\ Translate(e, P) \in LiveIn(e, m) /\ e[Translate(e, P)].type = "file"
                  /\ b \in DataBlocks(e[Translate(e, P)])

\* Only bytes are written, and only to such blocks.
Quiet(q, e, m, own) ==
    \A k \in 1 .. Len(q) : /\ q[k].do # "put"
                           /\ q[k].do = "store" => q[k].lba \in Blocks /\ Mine(e, m, own, q[k].lba)

\* So it is, after up to three puts that spare the other paths;
Spare0(q, d, own) == \E e, m : Shadow(d, e, m) /\ Quiet(q, e, m, own)
Spare1(q, d, own) ==
    Head(q).do = "put" /\ Spares(d, Written(d, Head(q)), own) /\ Spare0(Tail(q), Written(d, Head(q)), own)
Spare2(q, d, own) ==
    Head(q).do = "put" /\ Spares(d, Written(d, Head(q)), own) /\ Spare1(Tail(q), Written(d, Head(q)), own)
Spare3(q, d, own) ==
    Head(q).do = "put" /\ Spares(d, Written(d, Head(q)), own) /\ Spare2(Tail(q), Written(d, Head(q)), own)

\* in fs_write after the blocks are reserved, whatever the bitmap is.
SpareSave(q, d, own) ==
    Head(q).do = "save" /\ HasShadow(d) /\ \A w \in SUBSET Blocks : Spare1(Tail(q), Saved(d, w), own)
SpareBits(q, d, own) == Head(q).do = "bits" /\ SpareSave(Tail(q), d, own)
SpareLoad(q, d, own) == Head(q).do = "load" /\ SpareBits(Tail(q), d, own)

Sparing(q, d, own) ==
    \/ Spare0(q, d, own) \/ Spare1(q, d, own) \/ Spare2(q, d, own) \/ Spare3(q, d, own)
    \/ SpareSave(q, d, own) \/ SpareBits(q, d, own) \/ SpareLoad(q, d, own)

\* A quiet queue stays quiet, and begins with a job that is.
LEMMA QuietTail ==
    ASSUME NEW q \in Seq(Jobs), q # <<>>, NEW e, NEW m, NEW own, Quiet(q, e, m, own)
    PROVE  /\ Quiet(Tail(q), e, m, own) /\ Head(q).do # "put"
           /\ Head(q).do = "store" => Head(q).lba \in Blocks /\ Mine(e, m, own, Head(q).lba)
<1>1. /\ Head(q) = q[1] /\ Len(q) \in Nat \ {0}
      /\ \A k \in 1 .. Len(Tail(q)) : k + 1 \in 1 .. Len(q) /\ Tail(q)[k] = q[k + 1]
  BY QueueTail
<1>2. 1 \in 1 .. Len(q)
  BY <1>1
<1>3. Quiet(Tail(q), e, m, own)
  BY <1>1 DEF Quiet
<1> QED
  BY <1>1, <1>2, <1>3 DEF Quiet

\* The next step of a queue, by the kind of the job: a put,
LEMMA SparedPut ==
    ASSUME NEW q \in Seq(Jobs), q # <<>>, NEW d, NEW own, Sparing(q, d, own), Head(q).do = "put"
    PROVE  Spares(d, Written(d, Head(q)), own) /\ Sparing(Tail(q), Written(d, Head(q)), own)
<1>1. ~Spare0(q, d, own)
  BY QuietTail DEF Spare0
<1>2. ~SpareSave(q, d, own) /\ ~SpareBits(q, d, own) /\ ~SpareLoad(q, d, own)
  BY DEF SpareSave, SpareBits, SpareLoad
<1> QED
  BY <1>1, <1>2 DEF Sparing, Spare1, Spare2, Spare3

\* the write of the bitmap,
LEMMA SparedSave ==
    ASSUME NEW q \in Seq(Jobs), q # <<>>, NEW d, NEW own, Sparing(q, d, own), Head(q).do = "save",
           NEW w \in SUBSET Blocks
    PROVE  Spares(d, Saved(d, w), own) /\ Sparing(Tail(q), Saved(d, w), own)
<1>1. Spare0(q, d, own) \/ SpareSave(q, d, own)
  BY DEF Sparing, Spare1, Spare2, Spare3, SpareBits, SpareLoad
<1>2. CASE Spare0(q, d, own)
  <2>1. PICK e, m : Shadow(d, e, m) /\ Quiet(q, e, m, own)
    BY <1>2 DEF Spare0
  <2>2. Quiet(Tail(q), e, m, own)
    BY <2>1, QuietTail
  <2>3. Shadow(Saved(d, w), e, m) /\ Spares(d, Saved(d, w), own)
    BY <2>1, SaveWrite, SaveSpares DEF Saved
  <2> QED
    BY <2>2, <2>3 DEF Sparing, Spare0
<1>3. CASE SpareSave(q, d, own)
  <2>1. PICK e, m : Shadow(d, e, m)
    BY <1>3 DEF SpareSave, HasShadow
  <2>2. Spares(d, Saved(d, w), own)
    BY <2>1, SaveSpares DEF Saved
  <2>3. Spare1(Tail(q), Saved(d, w), own)
    BY <1>3 DEF SpareSave
  <2> QED
    BY <2>2, <2>3 DEF Sparing
<1> QED
  BY <1>1, <1>2, <1>3

\* the write of a data block,
LEMMA SparedStore ==
    ASSUME NEW q \in Seq(Jobs), q # <<>>, NEW d, NEW own, Sparing(q, d, own), Head(q).do = "store",
           NEW c \in Content, c.kind # "dir", own # {}, own \subseteq Seq(Names)
    PROVE  LET f == [d EXCEPT ![Head(q).lba] = c] IN Spares(d, f, own) /\ Sparing(Tail(q), f, own)
<1> DEFINE b == Head(q).lba
           f == [d EXCEPT ![b] = c]
<1>1. Spare0(q, d, own)
  BY DEF Sparing, Spare1, Spare2, Spare3, SpareSave, SpareBits, SpareLoad
<1>2. PICK e, m : Shadow(d, e, m) /\ Quiet(q, e, m, own)
  BY <1>1 DEF Spare0
<1>3. Quiet(Tail(q), e, m, own) /\ b \in Blocks /\ Mine(e, m, own, b)
  BY <1>2, QuietTail
<1>4. \E P \in own \cap Seq(Names) :
         b \in m => /\ Translate(e, P) \in LiveIn(e, m) /\ e[Translate(e, P)].type = "file"
                    /\ b \in DataBlocks(e[Translate(e, P)])
  BY <1>3, Zenon DEF Mine
<1>5. PICK P \in own \cap Seq(Names) :
         b \in m => /\ Translate(e, P) \in LiveIn(e, m) /\ e[Translate(e, P)].type = "file"
                    /\ b \in DataBlocks(e[Translate(e, P)])
  BY <1>4
<1> HIDE DEF b
<1>6. Spares(d, f, own) /\ Shadow(f, e, m)
  BY <1>2, <1>3, <1>5, IdleSpares
<1>7. Spare0(Tail(q), f, own)
  BY <1>3, <1>6 DEF Spare0
<1> QED
  BY <1>6, <1>7 DEF Sparing, b

\* a read, or a change in memory.
LEMMA SparedIdle ==
    ASSUME NEW q \in Seq(Jobs), q # <<>>, NEW d, NEW own, Sparing(q, d, own),
           Head(q).do \in {"load", "fetch", "count", "bits"}
    PROVE  Sparing(Tail(q), d, own)
<1>1. Spare0(q, d, own) \/ SpareBits(q, d, own) \/ SpareLoad(q, d, own)
  BY DEF Sparing, Spare1, Spare2, Spare3, SpareSave
<1>2. CASE Spare0(q, d, own)
  <2>1. PICK e, m : Shadow(d, e, m) /\ Quiet(q, e, m, own)
    BY <1>2 DEF Spare0
  <2>2. Quiet(Tail(q), e, m, own)
    BY <2>1, QuietTail
  <2> QED
    BY <2>1, <2>2 DEF Sparing, Spare0
<1> QED
  BY <1>1, <1>2 DEF Sparing, SpareBits, SpareLoad

\* Jobs that write nothing but the bitmap.
Still(q) == \A k \in 1 .. Len(q) : q[k].do \notin {"put", "store"}

\* They spare everything, on any image that has a shadow.
LEMMA StillSpares ==
    ASSUME NEW q, Still(q), NEW d, HasShadow(d), NEW own
    PROVE  Spare0(q, d, own) /\ Sparing(q, d, own)
<1>1. PICK e, m : Shadow(d, e, m)
  BY DEF HasShadow
<1>2. Quiet(q, e, m, own)
  BY DEF Still, Quiet
<1> QED
  BY <1>1, <1>2 DEF Spare0, Sparing

\* A part for a buffer of no blocks stores nothing.
LEMMA StillPart ==
    ASSUME NEW e, NEW m, NEW q, Part(q, e, m, 0)
    PROVE  Still(q) /\ q \in Seq(Jobs)
<1>1. \A k \in 1 .. Len(q) : q[k].do # "put" /\ q[k].do # "store"
  <2> SUFFICES ASSUME NEW k \in 1 .. Len(q) PROVE q[k].do # "put" /\ q[k].do # "store"
    OBVIOUS
  <2>1. Harmless(q[k], e, m, 0)
    BY DEF Part, Safe
  <2> QED
    BY <2>1 DEF Harmless
<1> QED
  BY <1>1 DEF Still, Part

\* What a handler ends with: the counters and the bitmap, in either order.
LEMMA EndsStill ==
    ASSUME NEW k \in Int, NEW a, Range(a) \subseteq Blocks, NEW flag \in BOOLEAN
    PROVE  LET x == ModifyBitmap(a, flag)  y == AdjustFree(k) IN
           /\ Still(x \o y) /\ Still(y \o x) /\ Still(x) /\ Still(y)
           /\ x \in Seq(Jobs) /\ y \in Seq(Jobs)
<1> DEFINE x == ModifyBitmap(a, flag)
           y == AdjustFree(k)
<1>1. Part(x, {}, {}, 0) /\ Part(y, {}, {}, 0)
  <2>1. flag \/ Range(a) \cap {} = {}
    OBVIOUS
  <2> QED
    BY <2>1, BitmapPart, AdjustPart
<1> HIDE DEF x, y
<1>2. Part(x \o y, {}, {}, 0) /\ Part(y \o x, {}, {}, 0)
  BY <1>1, Parts
<1>3. Still(x \o y) /\ Still(y \o x) /\ Still(x) /\ Still(y) /\ x \in Seq(Jobs) /\ y \in Seq(Jobs)
  BY <1>1, <1>2, StillPart
<1> QED
  BY <1>3 DEF x, y

\* A put in front of a queue that spares what it should.
LEMMA PutSpares ==
    ASSUME NEW a \in Jobs, a.do = "put", NEW r \in Seq(Jobs), NEW d, NEW own, Spares(d, Written(d, a), own)
    PROVE  /\ Spare0(r, Written(d, a), own) => Spare1(<<a>> \o r, d, own)
           /\ Spare1(r, Written(d, a), own) => Spare2(<<a>> \o r, d, own)
           /\ Spare2(r, Written(d, a), own) => Spare3(<<a>> \o r, d, own)
<1>1. Head(<<a>> \o r) = a /\ Tail(<<a>> \o r) = r
  BY OneAhead
<1> QED
  BY <1>1 DEF Spare1, Spare2, Spare3

\* fs_create: its inode in a free block, then the entry of its name.
LEMMA CreateSpares ==
    ASSUME NEW d, NEW e, NEW m, NEW bm, NEW ow, NEW p, NEW new, Adds(d, e, m, bm, ow, p, new, 1),
           Vacant(Entries(e, p)) # {}, NEW r, r.ino = e[p], r.call.op = "create",
           r.call.perm \in Perms, r.call.now \in Times, Leaf(r.call.path) \in Names,
           NEW P \in Seq(Names), p = Translate(e, P), Matches(e, p, Leaf(r.call.path)) = {},
           NEW own, Append(P, Leaf(r.call.path)) \in own
    PROVE  Sparing(CreateEffects(r, Entries(e, p), new), d, own)
<1> DEFINE b == e[p].ptrs[0]
           s == Min(Vacant(Entries(e, p)))
           ino == NewInode("file", r.call.perm, r.call.now, 0)
           ent == [name |-> Leaf(r.call.path), inode |-> new[1]]
           E == Extended(e, p, s, ent)
           a1 == Put(new[1], ino)
           a2 == PutDir(b, E, Range(new))
           d1 == Written(d, a1)
           y == AdjustFree(- Len(new))
           x == ModifyBitmap(new, TRUE)
<1>1. Backed(d, e, m, bm, ow) /\ p \in DirsIn(e, m) /\ Shadow(d, e, m)
  BY BackedFacts DEF Adds
<1>2. b \in Blocks /\ Entries(e, p) \in [Slots -> Entry \cup {NoEntry}]
  BY <1>1, ShadowFacts
<1>3. /\ new[1] \in Blocks \ m /\ s \in Slots \ Slot(e, p)
      /\ Range(new) \in SUBSET Blocks /\ Len(new) = 1
  <2>1. Room(e, m, p, new, 1)
    BY AddsFacts
  <2>2. 1 \in 1 .. 1
    OBVIOUS
  <2> QED
    BY <2>1, <2>2 DEF Room
<1>4. ino \in Inode /\ ino.type = "file" /\ ino.size = 0 /\ ino.kind = "inode"
  BY LayoutAssumption DEF NewInode, Inode, PtrIdx, Blocks
<1>5. ent \in Entry /\ ent.inode = new[1] /\ ent.name = Leaf(r.call.path)
  BY <1>3 DEF Entry
<1> HIDE DEF s, ino, ent
<1>6. E \in [Slots -> Entry \cup {NoEntry}]
  BY <1>2, <1>5 DEF Extended
<1>7. a2 \in Jobs /\ a2.do = "put" /\ Written(d1, a2) = DirWritten(d1, b, E)
  <2> HIDE DEF d1, E, b
  <2>1. b \in Blocks /\ E \in [Slots -> Entry \cup {NoEntry}] /\ Range(new) \in SUBSET Blocks
    BY <1>2, <1>3, <1>6
  <2> QED
    BY ONLY <2>1, PutDirJob
<1>8. a1 \in Jobs /\ a1.do = "put" /\ d1 = [d EXCEPT ![new[1]] = ino] /\ d1[new[1]] = ino /\ Shadow(d1, e, m)
  <2>1. ino \in Content
    BY <1>4 DEF Content
  <2>2. a1 \in Jobs /\ a1.do = "put" /\ d1 = [d EXCEPT ![new[1]] = ino]
    BY <1>3, <2>1, PutJob
  <2>3. Backed(d1, e, m, bm, ow) /\ d1[new[1]] = ino
    BY <1>1, <1>3, <1>4, NewInodePut
  <2> QED
    BY <2>2, <2>3 DEF Backed
<1>9. Spares(d, d1, own)
  <2>1. Append(P, ent.name) \in Seq(Names)
    BY <1>5, TranslateAppend
  <2>2. ino \in Content /\ ino.kind # "dir"
    BY <1>4 DEF Content
  <2> HIDE DEF d1
  <2>3. Spares(d, [d EXCEPT ![new[1]] = ino], own)
    BY <1>1, <1>3, <1>5, <2>1, <2>2, IdleSpares
  <2> QED
    BY <1>8, <2>3
<1> HIDE DEF b, E, a1, a2, d1
<1>10. Spares(d1, DirWritten(d1, b, E), own) /\ HasShadow(DirWritten(d1, b, E))
  <2>1. /\ p = Translate(e, P) /\ Matches(e, p, ent.name) = {} /\ ent.inode \notin m
        /\ d1[ent.inode] = ino /\ d1[ent.inode].type = "file" /\ Append(P, ent.name) \in own
    BY <1>3, <1>4, <1>5, <1>8
  <2>2. Spares(d1, DirWritten(d1, e[p].ptrs[0], Extended(e, p, s, ent)), own)
    BY <1>1, <1>3, <1>5, <1>8, <2>1, LinkFileSpares
  <2>3. \E f : Shadow(DirWritten(d1, e[p].ptrs[0], Extended(e, p, s, ent)), f, m \cup {ent.inode})
    BY <1>1, <1>3, <1>4, <1>5, <1>8, <2>1, LinkFileWrite
  <2> QED
    BY <2>2, <2>3 DEF b, E, HasShadow
<1>11. Still(y \o x) /\ x \in Seq(Jobs) /\ y \in Seq(Jobs)
  <2>1. - Len(new) \in Int /\ TRUE \in BOOLEAN /\ Range(new) \subseteq Blocks
    BY <1>3
  <2> QED
    BY <2>1, EndsStill
<1> HIDE DEF x, y
<1> DEFINE q == <<a2>> \o (y \o x)
<1>12. Spare1(q, d1, own) /\ q \in Seq(Jobs)
  <2>1. y \o x \in Seq(Jobs)
    BY <1>11
  <2>2. Spare0(y \o x, Written(d1, a2), own)
    BY <1>7, <1>10, <1>11, StillSpares
  <2>3. Spares(d1, Written(d1, a2), own)
    BY <1>7, <1>10
  <2> QED
    BY <1>7, <2>1, <2>2, <2>3, PutSpares, OneAhead
<1> HIDE DEF q
<1>13. Spare2(<<a1>> \o q, d, own)
  BY <1>8, <1>9, <1>12, PutSpares DEF d1
<1>14. <<a1>> \o q = ((<<a1, a2>> \o <<>>) \o y) \o x
  <2>1. <<a1, a2>> \in Seq(Jobs)
    BY <1>7, <1>8
  <2>2. <<a1, a2>> \o <<>> = <<a1, a2>>
    BY <2>1, ConcatEmptySeq
  <2>3. (<<a1, a2>> \o y) \o x = <<a1, a2>> \o (y \o x)
    BY <1>11, <2>1, ConcatAssociative, SMTT(60)
  <2>4. y \o x \in Seq(Jobs)
    BY <1>11
  <2>5. <<a1, a2>> \o (y \o x) = <<a1>> \o (<<a2>> \o (y \o x))
    BY <1>7, <1>8, <2>4, TwoAhead
  <2> QED
    BY <2>2, <2>3, <2>5 DEF q
<1>15. CreateEffects(r, Entries(e, p), new) = ((<<a1, a2>> \o <<>>) \o y) \o x
  BY DEF CreateEffects, a1, a2, ino, E, Extended, s, ent, b, x, y, Vacant
<1> QED
  BY <1>13, <1>14, <1>15 DEF Sparing

\* fs_mkdir: its inode in a free block, the entry of its name, and its block, in which a path
\* found the entries of a removed directory if it had been one, and ended otherwise.
LEMMA MkdirSpares ==
    ASSUME NEW d, NEW e, NEW m, NEW bm, NEW ow, NEW p, NEW new, Adds(d, e, m, bm, ow, p, new, 2),
           Vacant(Entries(e, p)) # {}, NEW r, r.ino = e[p], r.call.op = "mkdir",
           r.call.perm \in Perms, r.call.now \in Times, Leaf(r.call.path) \in Names,
           NEW P \in Seq(Names), p = Translate(e, P), Matches(e, p, Leaf(r.call.path)) = {},
           NEW own, Includes(own, Append(P, Leaf(r.call.path)))
    PROVE  Sparing(CreateEffects(r, Entries(e, p), new), d, own)
<1> DEFINE b == e[p].ptrs[0]
           s == Min(Vacant(Entries(e, p)))
           ino == NewInode("dir", r.call.perm, r.call.now, new[2])
           ent == [name |-> Leaf(r.call.path), inode |-> new[1]]
           E == Extended(e, p, s, ent)
           S == Append(P, Leaf(r.call.path))
           a1 == Put(new[1], ino)
           a2 == PutDir(b, E, Range(new))
           a3 == Put(new[2], EmptyDir)
           d1 == Written(d, a1)
           d2 == Written(d1, a2)
           u == m \cup {new[1], new[2]}
           y == AdjustFree(- Len(new))
           x == ModifyBitmap(new, TRUE)
<1>1. Backed(d, e, m, bm, ow) /\ p \in DirsIn(e, m) /\ Shadow(d, e, m)
  BY BackedFacts DEF Adds
<1>2. b \in Blocks /\ Entries(e, p) \in [Slots -> Entry \cup {NoEntry}]
  BY <1>1, ShadowFacts
<1>3. /\ new[1] \in Blocks \ m /\ new[2] \in Blocks \ m /\ new[1] # new[2] /\ s \in Slots \ Slot(e, p)
      /\ Range(new) \in SUBSET Blocks /\ Len(new) = 2
  <2>1. Room(e, m, p, new, 2)
    BY AddsFacts
  <2>2. 1 \in 1 .. 2 /\ 2 \in 1 .. 2
    OBVIOUS
  <2>3. new[1] # new[2]
    BY <2>2 DEF Adds
  <2> QED
    BY <2>1, <2>2, <2>3 DEF Room
<1>4. ino \in Inode /\ ino.type = "dir" /\ ino.size = BlockSize /\ ino.ptrs[0] = new[2] /\ ino.kind = "inode"
  <2>1. new[2] \in Blocks /\ 0 \in PtrIdx /\ 0 \in Blocks
    BY <1>3, LayoutAssumption DEF PtrIdx, Blocks
  <2> QED
    BY <2>1, LayoutAssumption DEF NewInode, Inode
<1>5. ent \in Entry /\ ent.inode = new[1] /\ ent.name = Leaf(r.call.path)
  BY <1>3 DEF Entry
<1>6. S \in Seq(Names) /\ S \in own
  <2>1. S \in Seq(Names)
    BY TranslateAppend
  <2>2. Above(S, S)
    BY <2>1 DEF Above
  <2> QED
    BY <2>1, <2>2 DEF From, Includes
<1> HIDE DEF s, ino, ent
<1>7. E \in [Slots -> Entry \cup {NoEntry}]
  BY <1>2, <1>5 DEF Extended
<1>8. a2 \in Jobs /\ a2.do = "put" /\ d2 = DirWritten(d1, b, E)
  <2> HIDE DEF d1, E, b
  <2> QED
    BY <1>2, <1>3, <1>7, PutDirJob
<1>9. a1 \in Jobs /\ a1.do = "put" /\ d1 = [d EXCEPT ![new[1]] = ino] /\ d1[new[1]] = ino /\ Shadow(d1, e, m)
  <2>1. ino \in Content
    BY <1>4 DEF Content
  <2>2. a1 \in Jobs /\ a1.do = "put" /\ d1 = [d EXCEPT ![new[1]] = ino]
    BY <1>3, <2>1, PutJob
  <2>3. Backed(d1, e, m, bm, ow) /\ d1[new[1]] = ino
    BY <1>1, <1>3, <1>4, NewInodePut
  <2> QED
    BY <2>2, <2>3 DEF Backed
<1>10. a3 \in Jobs /\ a3.do = "put" /\ Written(d2, a3) = [d2 EXCEPT ![new[2]] = EmptyDir]
  <2>1. EmptyDir \in Content /\ new[2] \in Blocks
    BY <1>3 DEF EmptyDir, Content, DirBlock
  <2> HIDE DEF d2
  <2> QED
    BY <2>1, PutJob
<1>11. Spares(d, d1, own)
  <2>1. ino \in Content /\ ino.kind # "dir"
    BY <1>4 DEF Content
  <2> HIDE DEF d1, S
  <2>2. Spares(d, [d EXCEPT ![new[1]] = ino], own)
    BY <1>1, <1>3, <1>6, <2>1, IdleSpares
  <2> QED
    BY <1>9, <2>2
<1> HIDE DEF b, E, a1, a2, a3, d1, d2, u
<1>12. /\ Spares(d1, d2, own) /\ Translate(d2, S) = new[1]
       /\ \E f : Shadow(d2, f, u) /\ new[1] \in DirsIn(f, u) /\ f[new[1]].ptrs[0] = new[2]
  <2> DEFINE g == DirWritten(d1, e[p].ptrs[0], Extended(e, p, s, ent))
  <2>1. /\ p = Translate(e, P) /\ Matches(e, p, ent.name) = {} /\ ent.inode \notin m
        /\ d1[ent.inode] = ino /\ Includes(own, Append(P, ent.name))
        /\ p \in DirsIn(e, m) /\ s \in Slots \ Slot(e, p) /\ Shadow(d1, e, m)
        /\ ino \in Inode /\ ino.type = "dir" /\ ino.size = BlockSize /\ ent \in Entry
    BY <1>1, <1>3, <1>4, <1>5, <1>9
  <2>2. new[2] = ino.ptrs[0] /\ new[2] \in Blocks \ m /\ new[2] # ent.inode
    BY <1>3, <1>4, <1>5
  <2> HIDE DEF S, x, y
  <2>3. /\ \A o : Includes(o, Append(P, ent.name)) => Spares(d1, g, o)
        /\ Translate(g, Append(P, ent.name)) = ent.inode
    BY ONLY <2>1, P \in Seq(Names), LinkDirSpares
  <2>4. LinkedDir(d1, e, m, g, m \cup {ent.inode, new[2]}, ent.inode, new[2])
    BY <2>1, <2>2, LinkDirWrite
  <2>5. d2 = g
    BY <1>8 DEF E, b
  <2>7. \E f : Shadow(g, f, u) /\ new[1] \in DirsIn(f, u) /\ f[new[1]].ptrs[0] = new[2]
    <3> HIDE DEF g
    <3> QED
      BY <1>5, <2>4 DEF LinkedDir, u
  <2> HIDE DEF g
  <2>6. Spares(d1, g, own)
    BY <2>1, <2>3
  <2> QED
    BY <1>5, <2>3, <2>5, <2>6, <2>7 DEF S
<1>13. Spares(d2, [d2 EXCEPT ![new[2]] = EmptyDir], own)
  <2>1. Includes(own, S)
    OBVIOUS
  <2> HIDE DEF S
  <2> QED
    BY <1>6, <1>12, <2>1, EmptiedSpares
<1>14. HasShadow([d2 EXCEPT ![new[2]] = EmptyDir])
  <2>1. PICK f : Shadow(d2, f, u) /\ new[1] \in DirsIn(f, u) /\ f[new[1]].ptrs[0] = new[2]
    BY <1>12
  <2>2. \E g : Shadow([d2 EXCEPT ![f[new[1]].ptrs[0]] = EmptyDir], g, u)
    BY <2>1, EmptiedWrite
  <2> QED
    BY <2>1, <2>2 DEF HasShadow
<1>15. Still(y \o x) /\ x \in Seq(Jobs) /\ y \in Seq(Jobs)
  <2>1. - Len(new) \in Int /\ TRUE \in BOOLEAN /\ Range(new) \subseteq Blocks
    BY <1>3
  <2> QED
    BY <2>1, EndsStill
<1> HIDE DEF x, y
<1> DEFINE q3 == <<a3>> \o (y \o x)
           q2 == <<a2>> \o q3
<1>16. Spare1(q3, d2, own) /\ q3 \in Seq(Jobs)
  <2>1. y \o x \in Seq(Jobs)
    BY <1>15
  <2>2. Spare0(y \o x, Written(d2, a3), own)
    BY <1>10, <1>14, <1>15, StillSpares
  <2>3. Spares(d2, Written(d2, a3), own)
    BY <1>10, <1>13
  <2> QED
    BY <1>10, <2>1, <2>2, <2>3, PutSpares, OneAhead
<1> HIDE DEF q3
<1>17. Spare2(q2, d1, own) /\ q2 \in Seq(Jobs)
  <2>1. d2 = Written(d1, a2)
    BY DEF d2
  <2> QED
    BY <1>8, <1>12, <1>16, <2>1, PutSpares, OneAhead
<1> HIDE DEF q2
<1>18. Spare3(<<a1>> \o q2, d, own)
  BY <1>9, <1>11, <1>17, PutSpares DEF d1
<1>19. ((<<a1, a2>> \o <<a3>>) \o y) \o x = <<a1>> \o q2
  <2> DEFINE v == <<a1, a2>>
             w == <<a3>>
  <2>1. /\ v \in Seq(Jobs) /\ w \in Seq(Jobs) /\ y \in Seq(Jobs) /\ x \in Seq(Jobs)
        /\ a1 \in Jobs /\ a2 \in Jobs /\ q3 \in Seq(Jobs)
    BY <1>8, <1>9, <1>10, <1>15, <1>16
  <2>2. v \o q3 = <<a1>> \o q2
    BY <2>1, TwoAhead DEF q2
  <2> HIDE DEF v, w
  <2> DEFINE z == y \o x
             g == v \o w
  <2>3. v \in Seq(Jobs) /\ w \in Seq(Jobs) /\ z \in Seq(Jobs)
    BY <2>1
  <2>4. g \in Seq(Jobs) /\ y \in Seq(Jobs) /\ x \in Seq(Jobs)
    BY <2>1
  <2> HIDE DEF z
  <2>5. g \o z = v \o (w \o z)
    BY ONLY <2>3, ConcatAssociative, SMTT(60)
  <2> HIDE DEF g
  <2>6. (g \o y) \o x = g \o (y \o x)
    BY ONLY <2>4, ConcatAssociative, SMTT(60)
  <2> QED
    BY <2>2, <2>5, <2>6 DEF v, w, z, g, q3
<1>20. CreateEffects(r, Entries(e, p), new) = ((<<a1, a2>> \o <<a3>>) \o y) \o x
  BY DEF CreateEffects, a1, a2, a3, ino, E, Extended, s, ent, b, x, y, Vacant
<1> QED
  BY <1>18, <1>19, <1>20 DEF Sparing

\* fs_unlink and fs_rmdir: the entry of the name is erased.
LEMMA RemoveSpares ==
    ASSUME NEW d, NEW e, NEW m, Shadow(d, e, m), NEW P \in Seq(Names),
           NEW p, p = Translate(e, P), p \in DirsIn(e, m), NEW n \in Names, NEW s \in Matches(e, p, n),
           NEW own, Includes(own, Append(P, n)), NEW r, r.ino = e[p], r.blocks \in Seq(Blocks)
    PROVE  Sparing(RemoveEffects(r, Entries(e, p), s), d, own)
<1> DEFINE b == e[p].ptrs[0]
           E == [Entries(e, p) EXCEPT ![s] = NoEntry]
           a == PutDir(b, E, {})
           x == ModifyBitmap(r.blocks, FALSE)
           y == AdjustFree(Len(r.blocks))
<1>1. b \in Blocks /\ Entries(e, p) \in [Slots -> Entry \cup {NoEntry}] /\ s \in Slot(e, p)
  BY ShadowFacts DEF Matches, UsedSlots, FreeSlots, Slot
<1>2. HasShadow(DirWritten(d, b, E)) /\ Spares(d, DirWritten(d, b, E), own)
  <2>1. HasShadow(DirWritten(d, b, E))
    BY <1>1, EraseWrite DEF HasShadow
  <2> HIDE DEF b, E
  <2>2. Spares(d, DirWritten(d, e[p].ptrs[0], [Entries(e, p) EXCEPT ![s] = NoEntry]), own)
    BY EraseSpares
  <2> QED
    BY <2>1, <2>2 DEF b, E
<1>3. E \in [Slots -> Entry \cup {NoEntry}]
  BY <1>1
<1> HIDE DEF E, b
<1>4. a \in Jobs /\ a.do = "put" /\ Written(d, a) = DirWritten(d, b, E)
  <2>1. {} \in SUBSET Blocks
    OBVIOUS
  <2> QED
    BY <1>1, <1>3, <2>1, PutDirJob
<1> HIDE DEF a
<1>5. Still(x \o y) /\ x \in Seq(Jobs) /\ y \in Seq(Jobs)
  <2>1. Len(r.blocks) \in Int /\ FALSE \in BOOLEAN
    OBVIOUS
  <2>2. Range(r.blocks) \subseteq Blocks
    BY DEF Range
  <2> QED
    BY <2>1, <2>2, EndsStill
<1> HIDE DEF x, y
<1>6. Spare1(<<a>> \o (x \o y), d, own)
  <2>1. x \o y \in Seq(Jobs)
    BY <1>5
  <2>2. Spare0(x \o y, Written(d, a), own)
    BY <1>2, <1>4, <1>5, StillSpares
  <2> QED
    BY <1>2, <1>4, <2>1, <2>2, PutSpares
<1>7. <<a>> \o (x \o y) = (<<a>> \o x) \o y
  <2>1. <<a>> \in Seq(Jobs) /\ x \in Seq(Jobs) /\ y \in Seq(Jobs)
    BY <1>4, <1>5
  <2> QED
    BY <2>1, ConcatAssociative
<1>8. RemoveEffects(r, Entries(e, p), s) = (<<a>> \o x) \o y
  BY DEF RemoveEffects, a, b, E, x, y
<1> QED
  BY <1>6, <1>7, <1>8 DEF Sparing

\* A single put that spares what it should, with nothing after it.
LEMMA OneSpares ==
    ASSUME NEW a \in Jobs, a.do = "put", NEW d, NEW own, Spares(d, Written(d, a), own), HasShadow(Written(d, a))
    PROVE  Sparing(<<a>>, d, own)
<1>1. <<>> \in Seq(Jobs) /\ Still(<<>>)
  BY DEF Still
<1>2. Spare0(<<>>, Written(d, a), own)
  BY <1>1, StillSpares
<1>3. Spare1(<<a>> \o <<>>, d, own)
  BY <1>1, <1>2, PutSpares
<1>4. <<a>> \o <<>> = <<a>>
  <2>1. <<a>> \in Seq(Jobs)
    OBVIOUS
  <2> QED
    BY <2>1, ConcatEmptySeq
<1> QED
  BY <1>3, <1>4 DEF Sparing

\* fs_rename: the entry of one name gets the other one.
LEMMA RenameQueueSpares ==
    ASSUME NEW d, NEW e, NEW m, Shadow(d, e, m), NEW P \in Seq(Names),
           NEW p, p = Translate(e, P), p \in DirsIn(e, m), NEW n \in Names, NEW s \in Matches(e, p, n),
           NEW name \in Names, NEW own, Includes(own, Append(P, n)), Includes(own, Append(P, name))
    PROVE  Sparing(<<PutDir(e[p].ptrs[0], [Entries(e, p) EXCEPT ![s].name = name], {})>>, d, own)
<1> DEFINE b == e[p].ptrs[0]
           E == [Entries(e, p) EXCEPT ![s].name = name]
           a == PutDir(b, E, {})
<1>1. b \in Blocks /\ Entries(e, p) \in [Slots -> Entry \cup {NoEntry}] /\ s \in Slot(e, p)
  BY ShadowFacts DEF Matches, UsedSlots, FreeSlots, Slot
<1>2. HasShadow(DirWritten(d, b, E)) /\ Spares(d, DirWritten(d, b, E), own)
  <2>1. HasShadow(DirWritten(d, b, E))
    BY <1>1, RenameWrite DEF HasShadow
  <2> HIDE DEF b, E
  <2>2. Spares(d, DirWritten(d, e[p].ptrs[0], [Entries(e, p) EXCEPT ![s].name = name]), own)
    BY RenameSpares
  <2> QED
    BY <2>1, <2>2 DEF b, E
<1>3. E \in [Slots -> Entry \cup {NoEntry}]
  <2>1. s \in Slots /\ Entries(e, p)[s] # NoEntry
    BY <1>1 DEF Slot
  <2>2. Entries(e, p)[s] \in Entry
    BY <1>1, <2>1
  <2>3. [Entries(e, p)[s] EXCEPT !.name = name] \in Entry
    BY <2>2 DEF Entry
  <2>4. E = [Entries(e, p) EXCEPT ![s] = [Entries(e, p)[s] EXCEPT !.name = name]]
    BY <1>1
  <2> QED
    BY <1>1, <2>3, <2>4
<1> HIDE DEF E, b
<1>4. a \in Jobs /\ a.do = "put" /\ Written(d, a) = DirWritten(d, b, E)
  <2>1. {} \in SUBSET Blocks
    OBVIOUS
  <2> QED
    BY <1>1, <1>3, <2>1, PutDirJob
<1> HIDE DEF a
<1>5. Sparing(<<a>>, d, own)
  BY <1>2, <1>4, OneSpares
<1> QED
  BY <1>5 DEF a, b, E

\* fs_chmod and fs_utime: the inode with other attributes.
LEMMA AttributesSpare ==
    ASSUME NEW d, NEW e, NEW m, Shadow(d, e, m), NEW P \in Seq(Names), NEW own, P \in own,
           NEW i, i = Translate(e, P), i \in LiveIn(e, m), NEW ino \in Inode,
           ino.type = e[i].type, ino.size = e[i].size, ino.ptrs = e[i].ptrs
    PROVE  Sparing(<<Put(i, ino)>>, d, own)
<1> DEFINE a == Put(i, ino)
<1>1. a \in Jobs /\ a.do = "put" /\ Written(d, a) = [d EXCEPT ![i] = ino]
  <2>1. i \in Blocks /\ ino \in Content
    BY ShadowFacts DEF Content
  <2> QED
    BY <2>1, PutJob
<1> HIDE DEF a
<1>2. HasShadow([d EXCEPT ![i] = ino])
  BY AttributesWrite DEF HasShadow
<1>3. Spares(d, [d EXCEPT ![i] = ino], own)
  <2>1. ino.kind = "inode" /\ (ino.type = "dir" => ino.ptrs[0] = e[i].ptrs[0])
    BY DEF Inode
  <2> QED
    BY <2>1, InodeSpares
<1>4. Sparing(<<a>>, d, own)
  BY <1>1, <1>2, <1>3, OneSpares
<1> QED
  BY <1>4 DEF a

\* What a write of a file's inode leaves: the shadow, and where paths lead.
Rewrote(d, e, m, P, i, ino, own) ==
    LET u == (m \ DataBlocks(e[i])) \cup DataBlocks(ino)
        f == Regained(e, i, ino)
        g == [d EXCEPT ![i] = ino]
    IN  /\ Shadow(g, f, u) /\ Spares(d, g, own)
        /\ Translate(f, P) = i /\ i \in LiveIn(f, u) /\ f[i] = ino

\* The inode of the file at path P is written, with more or with fewer blocks.
LEMMA FileSpares ==
    ASSUME NEW d, NEW e, NEW m, Shadow(d, e, m), NEW P \in Seq(Names), NEW own, P \in own,
           NEW i, i = Translate(e, P), i \in LiveIn(e, m), e[i].type = "file", NEW ino, Fits(e, m, i, ino)
    PROVE  Rewrote(d, e, m, P, i, ino, own) /\ Put(i, ino) \in Jobs /\ Put(i, ino).do = "put"
           /\ Written(d, Put(i, ino)) = [d EXCEPT ![i] = ino]
<1> DEFINE u == (m \ DataBlocks(e[i])) \cup DataBlocks(ino)
           f == Regained(e, i, ino)
           g == [d EXCEPT ![i] = ino]
<1>1. Refiled(d, e, m, i, ino)
  <2>1. /\ ino \in Inode /\ ino.type = "file" /\ BlocksFor(ino.size) <= MaxPtrs
        /\ \A b \in DataBlocks(ino) : b \in Blocks
        /\ \A b \in DataBlocks(ino) : b \in m => b \in DataBlocks(e[i])
        /\ \A k, l \in DataIdx(ino) : ino.ptrs[k] = ino.ptrs[l] => k = l
    BY DEF Fits
  <2> HIDE DEF u, f, g
  <2> QED
    BY <2>1, FileWrite
<1>2. Shadow(g, f, u) /\ LiveIn(f, u) = LiveIn(e, m) /\ f[i] = ino
  BY <1>1 DEF Refiled
<1>3. Spares(d, g, own) /\ SameWays(d, g)
  <2>1. ino.kind = "inode" /\ ino.type = e[i].type /\ (ino.type = "dir" => ino.ptrs[0] = e[i].ptrs[0])
    BY DEF Fits, Inode
  <2> HIDE DEF u, f
  <2> QED
    BY <2>1, InodeSpares
<1>4. Put(i, ino) \in Jobs /\ Put(i, ino).do = "put" /\ Written(d, Put(i, ino)) = g
  <2>1. i \in Blocks /\ ino \in Content
    BY ShadowFacts DEF Fits, Content
  <2> QED
    BY <2>1, PutJob
<1> HIDE DEF f, g, u
<1>5. Translate(f, P) = i
  <2>1. Translate(g, P) = Translate(f, P)
    BY <1>2, ShadowWalk
  <2>2. Translate(d, P) = Translate(e, P)
    BY ShadowWalk
  <2>3. Translate(g, P) = Translate(d, P)
    BY <1>3 DEF SameWays
  <2> QED
    BY <2>1, <2>2, <2>3
<1> QED
  BY <1>2, <1>3, <1>4, <1>5 DEF Rewrote, f, g, u

\* fs_truncate: the inode, and then the blocks it no longer has.
LEMMA TruncateSpares ==
    ASSUME NEW d, NEW e, NEW m, Shadow(d, e, m), NEW P \in Seq(Names), NEW own, P \in own,
           NEW i, i = Translate(e, P), i \in LiveIn(e, m), e[i].type = "file", NEW r, r.inum = i,
           r.call.len \in Nat, BlocksFor(r.call.len) <= BlocksFor(e[i].size)
    PROVE  Sparing(TruncateEffects(r, e[i]), d, own)
<1> DEFINE len == r.call.len
           removed == Removed(e[i], len)
           ino == Shortened(e[i], len)
           a == Put(i, ino)
           x == ModifyBitmap(removed, FALSE)
           y == AdjustFree(Len(removed))
<1>1. Sound(e, m) /\ m \subseteq Blocks
  BY ShadowFacts
<1>2. TruncateEffects(r, e[i]) = (<<a>> \o x) \o y
  BY DEF TruncateEffects, Removed
<1>3. /\ Fits(e, m, i, ino) /\ Range(removed) \subseteq DataBlocks(e[i]) /\ DataBlocks(e[i]) \subseteq m
      /\ Len(removed) \in Int
  <2> HIDE DEF removed, ino
  <2>1. removed = Removed(e[i], len)
    BY DEF removed
  <2>2. ino = Shortened(e[i], len)
    BY DEF ino
  <2> HIDE DEF a, x, y
  <2> QED
    BY <1>1, <2>1, <2>2, ShortenedFits, SMTT(60)
<1> HIDE DEF removed, ino
<1>4. /\ a \in Jobs /\ a.do = "put" /\ Spares(d, Written(d, a), own) /\ HasShadow(Written(d, a))
  <2> HIDE DEF x, y
  <2>1. Rewrote(d, e, m, P, i, ino, own) /\ a \in Jobs /\ a.do = "put" /\ Written(d, a) = [d EXCEPT ![i] = ino]
    BY <1>3, FileSpares
  <2> QED
    BY <2>1 DEF Rewrote, HasShadow
<1>5. Still(x \o y) /\ x \in Seq(Jobs) /\ y \in Seq(Jobs)
  <2>1. FALSE \in BOOLEAN /\ Range(removed) \subseteq Blocks
    BY <1>1, <1>3
  <2> QED
    BY <1>3, <2>1, EndsStill
<1> HIDE DEF a, x, y
<1>6. Spare1(<<a>> \o (x \o y), d, own)
  <2>1. x \o y \in Seq(Jobs)
    BY <1>5
  <2>2. Spare0(x \o y, Written(d, a), own)
    BY <1>4, <1>5, StillSpares
  <2> QED
    BY <1>4, <2>1, <2>2, PutSpares
<1>7. <<a>> \o (x \o y) = (<<a>> \o x) \o y
  <2>1. <<a>> \in Seq(Jobs) /\ x \in Seq(Jobs) /\ y \in Seq(Jobs)
    BY <1>4, <1>5
  <2> QED
    BY <2>1, ConcatAssociative, SMTT(60)
<1> QED
  BY <1>2, <1>6, <1>7 DEF Sparing

\* A part that stores to these blocks only.
LEMMA StoresQuiet ==
    ASSUME NEW q, NEW B, NEW g, NEW n, Part(q, g, Blocks, n), \A b \in Blocks : g[b].kind = "data" => b \in B,
           NEW e, NEW m, NEW own, \A b \in B : Mine(e, m, own, b)
    PROVE  Quiet(q, e, m, own)
<1> SUFFICES ASSUME NEW k \in 1 .. Len(q)
             PROVE  q[k].do # "put" /\ (q[k].do = "store" => q[k].lba \in Blocks /\ Mine(e, m, own, q[k].lba))
  BY DEF Quiet
<1>1. Harmless(q[k], g, Blocks, n)
  BY DEF Part, Safe
<1> QED
  BY <1>1 DEF Harmless

\* fs_write once its blocks are reserved: the inode, and then the blocks of the file.
LEMMA StoreSpares ==
    ASSUME NEW d, NEW e, NEW m, Shadow(d, e, m), NEW P \in Seq(Names), NEW own, P \in own,
           NEW r, r.inum = Translate(e, P), r.inum \in LiveIn(e, m), e[r.inum].type = "file",
           r.call.offset \in Nat, r.call.len \in Nat \ {0}, r.call.now \in Times, r.call.offset <= e[r.inum].size,
           NEW need, need = BlocksNeeded(e[r.inum].size, r.call.offset, r.call.len),
           NEW fresh \in [1 .. need -> Blocks \ m], \A j, k \in 1 .. need : fresh[j] = fresh[k] => j = k
    PROVE  Spare1(StoreEffects(r, e[r.inum], fresh), d, own) /\ StoreEffects(r, e[r.inum], fresh) \in Seq(Jobs)
<1> DEFINE i == r.inum
           from == r.call.offset
           len == r.call.len
           now == r.call.now
           ino == Grown(e[i], fresh, from + len, now)
           idx == WriteIdx(from, len)
           count == Cardinality(idx)
           old == BlocksFor(e[i].size)
           a == Put(i, ino)
           F1 == IF old > 0 THEN <<Fetch(ino.ptrs[Min(idx)], 1)>> ELSE <<>>
           F2 == IF old > 1 THEN <<Fetch(ino.ptrs[Max(idx)], count)>> ELSE <<>>
           S == Stores(ino, idx, count)
           A == AdjustFree(- need)
           u == (m \ DataBlocks(e[i])) \cup DataBlocks(ino)
           f == Regained(e, i, ino)
           B == DataBlocks(ino)
           g == [b \in Blocks |-> IF b \in B THEN ZeroBlock ELSE EmptyDir]
<1>1. i \in LiveIn(e, m) /\ e[i].type = "file" /\ from <= e[i].size /\ i = Translate(e, P)
  OBVIOUS
<1>2. need = BlocksNeeded(e[i].size, from, len)
  OBVIOUS
<1>3. StoreEffects(r, e[r.inum], fresh) = (((<<a>> \o F1) \o F2) \o S) \o A
  BY DEF StoreEffects, Stores
<1> HIDE DEF i
<1>4. Sound(e, m)
  BY ShadowFacts
<1>5. Fetched(old, ino, idx, count) = F1 \o F2
  BY DEF Fetched
<1>6. Outgrown(e, m, i, ino, fresh, idx, need)
  <2> HIDE DEF ino, idx, count, F1, F2, S, A, a, u, old, f, g, B
  <2>1. ino = Grown(e[i], fresh, from + len, now)
    BY DEF ino
  <2>2. idx = WriteIdx(from, len)
    BY DEF idx
  <2>3. from \in Nat /\ len \in Nat \ {0} /\ now \in Times /\ from <= e[i].size
    BY <1>1
  <2> HIDE DEF from, len, now
  <2>4. Outgrown(e, m, i, ino, fresh, WriteIdx(from, len), need)
    BY <1>4, <1>1, <1>2, <2>1, <2>3, GrownFits
  <2> QED
    BY <2>2, <2>4
<1> HIDE DEF ino
<1>7. Fits(e, m, i, ino) /\ need \in Int /\ \A k \in idx : ino.ptrs[k] \in DataBlocks(ino)
  BY <1>6 DEF Outgrown
<1>8. /\ Rewrote(d, e, m, P, i, ino, own) /\ a \in Jobs /\ a.do = "put"
      /\ Written(d, a) = [d EXCEPT ![i] = ino]
  <2> HIDE DEF u, F1, F2, S, A, idx, old, count, f, g, B
  <2> QED
    BY <1>1, <1>7, FileSpares
<1>9. /\ Shadow(Written(d, a), f, u) /\ Spares(d, Written(d, a), own)
      /\ Translate(f, P) = i /\ i \in LiveIn(f, u) /\ f[i] = ino
  BY <1>8 DEF Rewrote
<1>10. ino.type = "file" /\ B \subseteq Blocks
  BY <1>7 DEF Fits
<1> HIDE DEF f, u
<1>11. \A b \in B : Mine(f, u, own, b)
  <2>1. P \in own \cap Seq(Names)
    OBVIOUS
  <2> HIDE DEF F1, F2, S, A, idx, old, count, g, a
  <2> QED
    BY <1>9, <1>10, <2>1 DEF Mine
<1>12. /\ \A b \in DataBlocks(ino) : b \in Blocks /\ g[b].kind = "data"
       /\ \A b \in Blocks : g[b].kind = "data" => b \in B
  BY <1>10 DEF ZeroBlock, EmptyDir
<1>13. Part(F1 \o F2, g, Blocks, count) /\ Part(S, g, Blocks, count)
  <2>1. from \in Nat /\ len \in Nat \ {0} /\ idx = WriteIdx(from, len) /\ count = Cardinality(idx)
    OBVIOUS
  <2> HIDE DEF idx, from, len, count, F1, F2, S, A, a, old, g, B
  <2>2. Part(Fetched(old, ino, idx, count), g, Blocks, count) /\ Part(Stores(ino, idx, count), g, Blocks, count)
    BY <1>7, <1>12, <2>1, StoresPart
  <2> QED
    BY <1>5, <2>2 DEF S
<1>14. Part(A, g, Blocks, count)
  <2>1. - need \in Int
    BY <1>7
  <2> HIDE DEF g, count, idx
  <2> QED
    BY <2>1, AdjustPart
<1>15. F1 \in Seq(Jobs) /\ F2 \in Seq(Jobs)
  <2>1. \A b \in Blocks : b \in Int
    BY DEF Blocks
  <2>2. count \in Nat /\ Min(idx) \in idx /\ Max(idx) \in idx
    BY WriteSpan
  <2>3. ino.ptrs[Min(idx)] \in Int /\ ino.ptrs[Max(idx)] \in Int
    BY <1>7, <1>10, <2>1, <2>2
  <2>4. Fetch(ino.ptrs[Min(idx)], 1) \in Jobs /\ Fetch(ino.ptrs[Max(idx)], count) \in Jobs
    BY <2>2, <2>3, JobKinds
  <2> QED
    BY <2>4
<1> HIDE DEF a, F1, F2, S, A, idx, old, count, g
<1>16. (((<<a>> \o F1) \o F2) \o S) \o A = <<a>> \o (((F1 \o F2) \o S) \o A)
  <2>1. <<a>> \in Seq(Jobs) /\ S \in Seq(Jobs) /\ A \in Seq(Jobs)
    BY <1>8, <1>13, <1>14 DEF Part
  <2>2. (<<a>> \o F1) \o F2 = <<a>> \o (F1 \o F2)
    BY <1>15, <2>1, ConcatAssociative
  <2> DEFINE x == F1 \o F2
             y == x \o S
  <2>3. x \in Seq(Jobs)
    BY <1>15
  <2> HIDE DEF x
  <2>4. (<<a>> \o x) \o S = <<a>> \o (x \o S)
    BY <2>1, <2>3, ConcatAssociative
  <2>5. y \in Seq(Jobs)
    BY <2>1, <2>3
  <2> HIDE DEF y
  <2>6. (<<a>> \o y) \o A = <<a>> \o (y \o A)
    BY <2>1, <2>5, ConcatAssociative
  <2> QED
    BY <2>2, <2>4, <2>6 DEF x, y
<1> DEFINE q == ((F1 \o F2) \o S) \o A
<1>17. Part(q, g, Blocks, count)
  BY <1>13, <1>14, Parts
<1> HIDE DEF q, B
<1>18. Quiet(q, f, u, own) /\ q \in Seq(Jobs)
  <2>1. Quiet(q, f, u, own)
    BY <1>11, <1>12, <1>17, StoresQuiet
  <2> QED
    BY <1>17, <2>1 DEF Part
<1> HIDE DEF from, len, now
<1>19. Spare1(<<a>> \o q, d, own) /\ <<a>> \o q \in Seq(Jobs)
  <2>1. Spare0(q, Written(d, a), own)
    BY <1>9, <1>18 DEF Spare0
  <2> QED
    BY <1>8, <1>9, <1>18, <2>1, PutSpares, OneAhead
<1> QED
  BY <1>16, <1>19, <1>3 DEF q

\* fs_write: it reserves its blocks, whatever the bitmap is, and goes on so.
LEMMA WriteSpares ==
    ASSUME NEW d, NEW e, NEW m, Shadow(d, e, m), NEW bm \in SUBSET Blocks, NEW ow, m \subseteq bm \cup ow,
           NEW P \in Seq(Names), NEW own, P \in own,
           NEW r, r.inum = Translate(e, P), r.inum \in LiveIn(e, m), e[r.inum].type = "file",
           r.call.offset \in Nat, r.call.len \in Nat \ {0}, r.call.now \in Times, r.call.offset <= e[r.inum].size,
           NEW fresh \in FirstFree(bm, BlocksNeeded(e[r.inum].size, r.call.offset, r.call.len)), Range(fresh) \cap ow = {}
    PROVE  Sparing(WriteEffects(r, e[r.inum], fresh), d, own)
<1> DEFINE need == BlocksNeeded(e[r.inum].size, r.call.offset, r.call.len)
           T == StoreEffects(r, e[r.inum], fresh)
<1>1. need \in Int
  <2>1. e[r.inum].size \in Nat
    BY ShadowFacts DEF Inode
  <2> QED
    BY <2>1, WriteSizes
<1>2. /\ fresh \in [1 .. need -> Blocks \ bm]
      /\ \A j, k \in 1 .. need : fresh[j] = fresh[k] => j = k
  BY <1>1, FirstFreeProperty
<1> HIDE DEF need
<1>3. fresh \in [1 .. need -> Blocks \ m]
  <2>1. \A k \in 1 .. need : fresh[k] \in Range(fresh)
    BY <1>2 DEF Range
  <2>2. \A k \in 1 .. need : fresh[k] \in Blocks \ m
    BY <1>2, <2>1
  <2> QED
    BY <1>2, <2>2
<1>4. need = BlocksNeeded(e[r.inum].size, r.call.offset, r.call.len)
  BY DEF need
<1>5. ASSUME NEW h, Shadow(h, e, m)
      PROVE  Spare1(StoreEffects(r, e[r.inum], fresh), h, own) /\ StoreEffects(r, e[r.inum], fresh) \in Seq(Jobs)
  BY <1>2, <1>3, <1>4, <1>5, StoreSpares
<1>6. T \in Seq(Jobs) /\ Spare1(T, d, own)
  BY <1>5
<1>7. \A w \in SUBSET Blocks : Spare1(T, Saved(d, w), own)
  <2> SUFFICES ASSUME NEW w \in SUBSET Blocks PROVE Spare1(T, Saved(d, w), own)
    OBVIOUS
  <2>1. Shadow(Saved(d, w), e, m)
    BY SaveWrite DEF Saved
  <2> QED
    BY <1>5, <2>1
<1>8. CASE fresh = <<>>
  <2>1. WriteEffects(r, e[r.inum], fresh) = <<>> \o T
    BY <1>8 DEF WriteEffects, Reserve
  <2> HIDE DEF T
  <2>2. <<>> \o T = T
    BY <1>6
  <2> QED
    BY <1>6, <2>1, <2>2 DEF Sparing
<1>9. CASE fresh # <<>>
  <2> DEFINE a == Load
             b == Bits(fresh, TRUE)
             c == Save
  <2>1. Range(fresh) \subseteq Blocks
    BY <1>2 DEF Range
  <2>2. /\ a \in Jobs /\ a.do = "load" /\ c \in Jobs /\ c.do = "save"
        /\ b \in Jobs /\ b.do = "bits"
    BY <2>1, BitsJob, JobKinds, ZenonT(60)
  <2>3. HasShadow(d)
    BY DEF HasShadow
  <2>4. WriteEffects(r, e[r.inum], fresh) = <<a, b, c>> \o T
    BY <1>9 DEF WriteEffects, Reserve, ModifyBitmap
  <2> HIDE DEF T, a, b, c
  <2>5. <<a, b, c>> \o T = <<a>> \o (<<b>> \o (<<c>> \o T))
    BY <1>6, <2>2, ThreeAhead, SMTT(60)
  <2> DEFINE C == <<c>> \o T
             D == <<b>> \o C
  <2>6. C \in Seq(Jobs) /\ Head(C) = c /\ Tail(C) = T
    BY <1>6, <2>2, OneAhead
  <2> HIDE DEF C
  <2>7. D \in Seq(Jobs) /\ Head(D) = b /\ Tail(D) = C
    BY <2>2, <2>6, OneAhead
  <2> HIDE DEF D
  <2>8. Head(<<a>> \o D) = a /\ Tail(<<a>> \o D) = D
    BY <2>2, <2>7, OneAhead
  <2>9. SpareSave(C, d, own)
    BY <1>7, <2>2, <2>3, <2>6 DEF SpareSave
  <2>10. SpareBits(D, d, own)
    BY <2>2, <2>7, <2>9 DEF SpareBits
  <2>11. SpareLoad(<<a>> \o D, d, own)
    BY <2>2, <2>8, <2>10 DEF SpareLoad
  <2> QED
    BY <2>4, <2>5, <2>11 DEF C, D, Sparing
<1> QED
  BY <1>8, <1>9

=============================================================================
